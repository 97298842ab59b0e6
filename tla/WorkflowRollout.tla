--------------------------- MODULE WorkflowRollout ---------------------------
(***************************************************************************)
(* What the AgentWorkflow controller promises whoever reads a workflow and *)
(* its WorkflowTemplate on the API server: no cache, queue, hash, conflict *)
(* or restart, only the spec a user wrote, what the status says of it, and *)
(* the template Argo would run.  WorkflowReconcile implements it, whoever  *)
(* else touches the template and whichever edits are undone.               *)
(***************************************************************************)
EXTENDS Integers

CONSTANTS
  Specs,     \* specs that compile
  BadSpecs,  \* specs that do not
  None       \* gone; of a template, also: made by somebody else

VARIABLES
  workflow,  \* [spec, gen, deleting, ready, observed], or None
  had,       \* the specs the workflow has had
  template   \* the spec Argo runs

vars == <<workflow, had, template>>

Init ==
  /\ \E s \in Specs \cup BadSpecs :
        /\ workflow = [spec |-> s, gen |-> 1, deleting |-> FALSE, ready |-> FALSE, observed |-> 0]
        /\ had = {s}
  /\ template = None

\* A user edits the workflow; status and template lag behind.
Edit ==
  /\ workflow # None /\ ~workflow.deleting
  /\ \E s \in (Specs \cup BadSpecs) \ {workflow.spec} :
        /\ workflow' = [workflow EXCEPT !.spec = s, !.gen = @ + 1] /\ had' = had \cup {s}
  /\ UNCHANGED template

\* Deletion, in one step or (with a finalizer) in two; the template may go with it.
Delete ==
  /\ workflow # None
  /\ \/ ~workflow.deleting /\ workflow' = [workflow EXCEPT !.deleting = TRUE] /\ UNCHANGED template
     \/ ~workflow.deleting /\ workflow' = None /\ UNCHANGED template
     \/ workflow.deleting /\ workflow' = None /\ template' \in {template, None}
  /\ UNCHANGED had

\* Before it compiles, the controller takes readiness back, for this generation.
Mark ==
  /\ workflow # None
  /\ workflow' = [workflow EXCEPT !.observed = workflow.gen, !.ready = FALSE]
  /\ UNCHANGED <<had, template>>

\* A template is written only while the status is not ready, from a spec the
\* workflow has had: from the current one, if the status observes its generation.
Apply ==
  /\ workflow # None /\ ~workflow.ready
  /\ template' \in Specs \cap had
  /\ workflow.observed = workflow.gen => template' = workflow.spec
  /\ UNCHANGED <<workflow, had>>

\* Readiness is claimed for the generation that was marked, and if that is the
\* current one, over its template (unless others took that away).
Claim ==
  /\ workflow # None /\ ~workflow.ready
  /\ workflow.observed = workflow.gen => template \in {workflow.spec, None}
  /\ workflow' = [workflow EXCEPT !.ready = TRUE]
  /\ UNCHANGED <<had, template>>

\* Somebody else edits the template or deletes it, or the garbage collector does.
Disturb == template' = None /\ UNCHANGED <<workflow, had>>

Next == Edit \/ Delete \/ Mark \/ Apply \/ Claim \/ Disturb

Spec == Init /\ [][Next]_vars

=============================================================================
