---------------------------- MODULE AgentRollout ----------------------------
(***************************************************************************)
(* What the Agent controller promises whoever reads an Agent and its       *)
(* Deployment on the API server: no cache, queue, worker or conflict, only *)
(* the spec a user wrote, the generation the status claims, and what runs. *)
(* AgentReconcile implements it.                                           *)
(***************************************************************************)
EXTENDS Integers

CONSTANTS
  Specs,    \* the Agent specs users may write
  Images,   \* Images[s]: the pod templates that run spec s
  None,     \* no Deployment
  Foreign   \* a Deployment somebody else edited last

VARIABLES
  spec, gen, life,  \* the Agent: spec, metadata.generation, deletion
  claimed,          \* status.observedGeneration
  running           \* the Deployment's pod template

vars == <<spec, gen, life, claimed, running>>

Init == /\ spec \in Specs /\ gen = 1 /\ life = "live"
        /\ claimed = 0 /\ running = None

\* A user edits the Agent; what runs and what is claimed lag behind.
Edit == /\ life = "live"
        /\ spec' \in Specs \ {spec} /\ gen' = gen + 1
        /\ UNCHANGED <<life, claimed, running>>

\* Deletion, in one step or (with a finalizer) in two.
Delete == /\ \/ life = "live" /\ life' \in {"deleting", "gone"}
             \/ life = "deleting" /\ life' = "gone"
          /\ UNCHANGED <<spec, gen, claimed, running>>

\* A rollout, perhaps of a spec already replaced: but once the status claims
\* the current generation, nothing older is rolled out over it.
Roll == /\ life # "gone"
        /\ \E s \in Specs : running' \in Images[s]
        /\ claimed = gen => running' \in Images[spec]
        /\ UNCHANGED <<spec, gen, life, claimed>>

\* The status is written, perhaps an old one: but it claims the current
\* generation only over a Deployment that runs it (or that others took away).
Claim == /\ life # "gone"
         /\ claimed' \in 0..gen
         /\ claimed' = gen => running \in Images[spec] \cup {None, Foreign}
         /\ UNCHANGED <<spec, gen, life, running>>

\* Somebody else edits or deletes the Deployment.
Disturb == /\ running' \in {None, Foreign}
           /\ UNCHANGED <<spec, gen, life, claimed>>

Next == Edit \/ Delete \/ Roll \/ Claim \/ Disturb

Spec == Init /\ [][Next]_vars

=============================================================================
