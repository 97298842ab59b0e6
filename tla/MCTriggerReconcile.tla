------------------------- MODULE MCTriggerReconcile -------------------------
(***************************************************************************)
(* One trigger in its agent's namespace, that finds everything in order, a *)
(* ConfigMap of somebody else, an agent not there or without a URL, no     *)
(* Secret, or a Secret without the key; the bounds are in the .cfg file.   *)
(***************************************************************************)
EXTENDS TriggerReconcile

MCWorld(spec, phase, url, has, taken) ==
  [spec |-> spec, agent |-> [phase |-> phase, url |-> url],
   secret |-> [has |-> has, value |-> 1], taken |-> taken]

MCWorlds == {MCWorld("plain", "Running", 1, "key", FALSE),
             MCWorld("push", "Running", 1, "key", TRUE),
             MCWorld("plain", "Pending", 0, "key", FALSE),
             MCWorld("push", "Running", 0, "absent", FALSE),
             MCWorld("push", "Running", 1, "nokey", FALSE)}
=============================================================================
