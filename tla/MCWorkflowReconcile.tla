------------------------ MODULE MCWorkflowReconcile ------------------------
(* Two specs that compile and one that does not; the bounds are in the .cfg. *)
EXTENDS WorkflowReconcile
=============================================================================
