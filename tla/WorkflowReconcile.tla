-------------------------- MODULE WorkflowReconcile --------------------------
(***************************************************************************)
(* The AgentWorkflow controller: it compiles one AgentWorkflow to an Argo  *)
(* WorkflowTemplate and skips what its status says is done already.  Reads *)
(* come from the informer cache, which lags; status writes are optimistic  *)
(* and re-read the object when they meet a conflict.                       *)
(***************************************************************************)
EXTENDS Integers

CONSTANTS
  Specs,      \* specs that compile
  BadSpecs,   \* specs that do not
  MaxGen,     \* bound on the generations
  MaxFaults,  \* bound on failed requests and on restarts of the operator
  MaxDrift,   \* bound on foreign changes of the WorkflowTemplate
  NULL

ASSUME WorkflowAssumption ==
  /\ Specs \cap BadSpecs = {} /\ NULL \notin Specs \cup BadSpecs
  /\ MaxGen \in Nat \ {0}
  /\ MaxFaults \in Nat /\ MaxDrift \in Nat

VARIABLES
  awf, seen,      \* the AgentWorkflow (NULL once gone), and the cached copy
  used, reverted, \* history: the specs it has had, and has it had one twice?
  template,       \* the WorkflowTemplate
  noticed,        \* has the informer reported the template as it is now?
  queued, timer,  \* the workqueue: a request, and a delayed one
  work,           \* the reconcile under way
  faults, drift

vars == <<awf, seen, used, reverted, template, noticed, queued, timer, work, faults,
          drift>>

-----------------------------------------------------------------------------
All == Specs \cup BadSpecs

Status == [ready : BOOLEAN, hash : All \cup {NULL}, named : BOOLEAN,
           gen : 0..MaxGen, compiled : BOOLEAN]

NoStatus == [ready |-> FALSE, hash |-> NULL, named |-> FALSE, gen |-> 0,
             compiled |-> FALSE]

Objects == [gen : 1..MaxGen, spec : All, finalizer : BOOLEAN,
            deleting : BOOLEAN, status : Status]

Templates == [spec : All \cup {NULL}, owned : BOOLEAN]

\* What a reader sees of an object.
Views == [spec : All, gen : 1..MaxGen, deleting : BOOLEAN, ready : BOOLEAN,
          observed : 0..MaxGen]

\* "Not there" is no object.
ASSUME AbsentAssumption == NULL \notin Objects \cup Templates \cup Status \cup Views

Idle == [pc |-> "idle", obj |-> NULL, hash |-> NULL, desired |-> NULL,
         failed |-> FALSE]

Init ==
  /\ \E s \in All : /\ awf = [gen |-> 1, spec |-> s, finalizer |-> FALSE,
                              deleting |-> FALSE, status |-> NoStatus]
                    /\ used = {s} /\ reverted = FALSE
  /\ seen = awf
  /\ template = NULL /\ noticed = TRUE
  /\ queued = TRUE /\ timer = FALSE
  /\ work = Idle /\ faults = 0 /\ drift = 0

Fault == faults < MaxFaults /\ faults' = faults + 1

\* The request ends with an error or a delay: it comes back.
Retry == work' = Idle /\ timer' = TRUE

-----------------------------------------------------------------------------
Take == work.pc = "idle" /\ queued /\ queued' = FALSE

ReconcileGone ==
  /\ Take /\ seen = NULL
  /\ UNCHANGED <<awf, seen, used, reverted, template, noticed, timer, work, faults, drift>>

\* Deletion: the template the status names is deleted, then the finalizer is
\* removed; a stale copy only gets as far as the conflict.  A template that the
\* cache does not hold yet is passed over.
Finalize ==
  /\ Take /\ seen # NULL /\ seen.deleting
  /\ \/ template' = IF seen.status.named THEN NULL ELSE template
     \/ ~noticed /\ template' = template
  /\ noticed' = (noticed /\ template' = template)
  /\ IF seen = awf
     THEN awf' = NULL /\ UNCHANGED <<timer, work>>
     ELSE Retry /\ UNCHANGED awf
  /\ UNCHANGED <<seen, used, reverted, faults, drift>>

\* Mutant of AddFinalizer: it is added to the copy and never written.
AddFinalizerUnwritten ==
  /\ Take /\ seen # NULL /\ ~seen.deleting /\ ~seen.finalizer
  /\ timer' = TRUE
  /\ UNCHANGED <<awf, seen, used, reverted, template, noticed, work, faults, drift>>

AddFinalizer ==
  /\ Take /\ seen # NULL /\ ~seen.deleting /\ ~seen.finalizer
  /\ awf' = IF seen = awf THEN [awf EXCEPT !.finalizer = TRUE] ELSE awf
  /\ timer' = TRUE
  /\ UNCHANGED <<seen, used, reverted, template, noticed, work, faults, drift>>

\* A delete, an update of the finalizer or a read of the template fails: the
\* reconcile ends without a status write.
RequestFails ==
  /\ \/ Take /\ seen # NULL /\ (seen.deleting \/ ~seen.finalizer)
     \/ work.pc = "apply" /\ work.obj.spec \in Specs /\ UNCHANGED queued
  /\ Fault /\ Retry
  /\ UNCHANGED <<awf, seen, used, reverted, template, noticed, drift>>

\* Mutant of Compilable: the template is made before the finalizer is set.
CompilableUnfinalized == seen # NULL /\ ~seen.deleting

Compilable == seen # NULL /\ ~seen.deleting /\ seen.finalizer

\* Mutant of UpToDate: it trusts the observed generation, which is stamped
\* before the template is applied.
UpToDateByGeneration(o) == o.status.gen = o.gen

\* Spec unchanged since it was applied: nothing to do.
UpToDate(o) == o.status.hash = o.spec /\ o.status.ready

Skip ==
  /\ Take /\ Compilable /\ UpToDate(seen)
  /\ UNCHANGED <<awf, seen, used, reverted, template, noticed, timer, work, faults, drift>>

\* Mutant of Begin: a copy that is not ready is not marked again.
BeginUnmarked ==
  /\ Take /\ Compilable /\ ~UpToDate(seen)
  /\ work' = [Idle EXCEPT !.pc = IF seen.status.ready THEN "mark" ELSE "apply",
                          !.obj = seen, !.hash = seen.spec]
  /\ UNCHANGED <<awf, seen, used, reverted, template, noticed, timer, faults, drift>>

\* The hash is taken of the copy read here.
Begin ==
  /\ Take /\ Compilable /\ ~UpToDate(seen)
  /\ work' = [Idle EXCEPT !.pc = "mark", !.obj = seen, !.hash = seen.spec]
  /\ UNCHANGED <<awf, seen, used, reverted, template, noticed, timer, faults, drift>>

\* "Mark as not ready while compiling": both fields are set again on whatever
\* was re-read.
Mark ==
  /\ work.pc = "mark" /\ work.obj = awf
  /\ awf' = [awf EXCEPT !.status.ready = FALSE, !.status.gen = awf.gen]
  /\ work' = [work EXCEPT !.pc = "apply", !.obj = awf']
  /\ UNCHANGED <<seen, used, reverted, template, noticed, queued, timer, faults, drift>>

\* A conflict: updateStatusWithRetry reads the object again, into the very
\* variable the reconcile goes on with.
Refetch ==
  /\ work.pc \in {"mark", "status"} /\ work.obj # awf
  /\ seen # NULL /\ seen # work.obj
  /\ work' = [work EXCEPT !.obj = seen]
  /\ UNCHANGED <<awf, seen, used, reverted, template, noticed, queued, timer, faults, drift>>

\* The conflicts do not end, the object is gone, or a request failed.
StatusFails ==
  /\ work.pc \in {"mark", "status"}
  /\ IF work.obj = awf THEN Fault ELSE UNCHANGED faults
  /\ Retry
  /\ UNCHANGED <<awf, seen, used, reverted, template, noticed, queued, drift>>

\* The outcome is written from a copy of the status as it is in memory.
Ends(s, failed) ==
  work' = [work EXCEPT !.pc = "status", !.failed = failed, !.desired = s]

CompileFails ==
  /\ work.pc = "apply" /\ work.obj.spec \in BadSpecs
  /\ Ends([work.obj.status EXCEPT !.compiled = FALSE], TRUE)
  /\ UNCHANGED <<awf, seen, used, reverted, template, noticed, queued, timer, faults, drift>>

\* Mutant of Apply: the template gets no owner.
ApplyUnowned ==
  /\ work.pc = "apply" /\ work.obj.spec \in Specs
  /\ template' = [spec |-> work.obj.spec, owned |-> FALSE]
  /\ noticed' = (noticed /\ template' = template)
  /\ Ends([ready |-> TRUE, hash |-> work.hash, named |-> TRUE,
           gen |-> work.obj.gen, compiled |-> TRUE], FALSE)
  /\ UNCHANGED <<awf, seen, used, reverted, queued, timer, faults, drift>>

\* Compile, and create the template with its owner or update the one there is.
Apply ==
  /\ work.pc = "apply" /\ work.obj.spec \in Specs
  /\ template' = [spec |-> work.obj.spec,
                  owned |-> template = NULL \/ template.owned]
  /\ noticed' = (noticed /\ template' = template)
  /\ Ends([ready |-> TRUE, hash |-> work.hash, named |-> TRUE,
           gen |-> work.obj.gen, compiled |-> TRUE], FALSE)
  /\ UNCHANGED <<awf, seen, used, reverted, queued, timer, faults, drift>>

ApplyFails ==
  /\ work.pc = "apply" /\ work.obj.spec \in Specs /\ Fault
  /\ Ends([work.obj.status EXCEPT !.compiled = TRUE], TRUE)
  /\ UNCHANGED <<awf, seen, used, reverted, template, noticed, queued, timer, drift>>

\* Mutant of StatusWrite: the retry stamps the generation of the re-read object.
StatusWriteRestamped ==
  /\ work.pc = "status" /\ work.obj = awf
  /\ awf' = [awf EXCEPT !.status = [work.desired EXCEPT !.gen = awf.gen]]
  /\ IF work.failed THEN Retry ELSE work' = Idle /\ UNCHANGED timer
  /\ UNCHANGED <<seen, used, reverted, template, noticed, queued, faults, drift>>

\* The outcome is written over whatever was re-read, with the generation it is of.
StatusWrite ==
  /\ work.pc = "status" /\ work.obj = awf
  /\ awf' = [awf EXCEPT !.status = work.desired]
  /\ IF work.failed THEN Retry ELSE work' = Idle /\ UNCHANGED timer
  /\ UNCHANGED <<seen, used, reverted, template, noticed, queued, faults, drift>>

-----------------------------------------------------------------------------
\* The informers catch up and enqueue.
ObserveWorkflow ==
  /\ seen # awf /\ seen' = awf /\ queued' = TRUE
  /\ UNCHANGED <<awf, used, reverted, template, noticed, timer, work, faults, drift>>

ObserveTemplate ==
  /\ ~noticed /\ noticed' = TRUE
  /\ queued' = TRUE
  /\ UNCHANGED <<awf, seen, used, reverted, template, timer, work, faults, drift>>

TimerFires ==
  /\ timer /\ timer' = FALSE /\ queued' = TRUE
  /\ UNCHANGED <<awf, seen, used, reverted, template, noticed, work, faults, drift>>

Restart ==
  /\ Fault
  /\ work' = Idle /\ timer' = FALSE /\ queued' = TRUE
  /\ seen' = awf /\ noticed' = TRUE
  /\ UNCHANGED <<awf, used, reverted, template, drift>>

EditSpec(s) ==
  /\ awf # NULL /\ ~awf.deleting /\ awf.gen < MaxGen /\ s # awf.spec
  /\ awf' = [awf EXCEPT !.gen = @ + 1, !.spec = s]
  /\ used' = used \cup {s} /\ reverted' = (reverted \/ s \in used)
  /\ UNCHANGED <<seen, template, noticed, queued, timer, work, faults, drift>>

DeleteWorkflow ==
  /\ awf # NULL /\ ~awf.deleting
  /\ awf' = IF awf.finalizer THEN [awf EXCEPT !.deleting = TRUE] ELSE NULL
  /\ UNCHANGED <<seen, used, reverted, template, noticed, queued, timer, work, faults, drift>>

\* Somebody deletes the template or edits its spec.
Drift ==
  /\ drift < MaxDrift /\ drift' = drift + 1
  /\ template # NULL
  /\ template' \in {NULL, [template EXCEPT !.spec = NULL]}
  /\ noticed' = FALSE
  /\ UNCHANGED <<awf, seen, used, reverted, queued, timer, work, faults>>

\* The garbage collector follows the owner reference.
CollectTemplate ==
  /\ awf = NULL /\ template # NULL /\ template.owned
  /\ template' = NULL /\ noticed' = FALSE
  /\ UNCHANGED <<awf, seen, used, reverted, queued, timer, work, faults, drift>>

Reconcile == \/ ReconcileGone \/ Finalize \/ AddFinalizer \/ RequestFails \/ Skip \/ Begin
             \/ Mark \/ Refetch \/ StatusFails \/ CompileFails \/ Apply \/ ApplyFails
             \/ StatusWrite

Next == \/ Reconcile
        \/ ObserveWorkflow \/ ObserveTemplate \/ TimerFires \/ Restart
        \/ \E s \in All : EditSpec(s)
        \/ DeleteWorkflow \/ Drift \/ CollectTemplate

Spec == Init /\ [][Next]_vars

\* The worker runs, the informers deliver, timers fire and garbage is collected.
FairSpec ==
  /\ Spec
  /\ WF_vars(Reconcile)
  /\ WF_vars(ObserveWorkflow) /\ WF_vars(ObserveTemplate)
  /\ WF_vars(TimerFires) /\ WF_vars(CollectTemplate)

-----------------------------------------------------------------------------
\* The variables have their types; the object a reconcile works on is there,
\* and its finalizer keeps it there until the reconcile has ended.
TypeOK ==
  /\ awf \in Objects \cup {NULL} /\ seen \in Objects \cup {NULL}
  /\ used \subseteq All /\ reverted \in BOOLEAN
  /\ template \in Templates \cup {NULL} /\ noticed \in BOOLEAN
  /\ queued \in BOOLEAN /\ timer \in BOOLEAN
  /\ work \in [pc : {"idle", "mark", "apply", "status"}, obj : Objects \cup {NULL},
               hash : All \cup {NULL}, desired : Status \cup {NULL}, failed : BOOLEAN]
  /\ work.pc # "idle" => work.obj # NULL /\ awf # NULL
  /\ faults \in 0..MaxFaults /\ drift \in 0..MaxDrift

\* Nothing is under way and nothing is going to happen by itself.
AtRest == work.pc = "idle" /\ ~queued /\ ~timer /\ seen = awf /\ noticed

Live == awf # NULL /\ ~awf.deleting

Undisturbed == drift = 0 /\ ~reverted

\* "Ready indicates the WorkflowTemplate has been successfully compiled and
\* applied": where the controller rests, the workflow is ready and the template
\* is the one its spec compiles to.  Not so, because the skip looks at the hash
\* only, once somebody else changed the template or an edit was undone.
RestsOnlyWhenApplied ==
  AtRest /\ Live /\ Undisturbed =>
     /\ awf.status.ready /\ awf.status.gen = awf.gen
     /\ template # NULL /\ template.spec = awf.spec

\* A status that is ready for the current generation is about the template there
\* is, at every moment and through undone edits: only somebody else's change of the
\* template can belie it.
ReadyIsHonest ==
  awf # NULL /\ awf.status.ready /\ awf.status.gen = awf.gen =>
     template = NULL \/ template.spec \in {awf.spec, NULL}

\* The workflow controller's state is well formed, its status is honest, and it rests
\* on an undisturbed workflow only when that is ready with the template of its spec.
WorkflowInv == TypeOK /\ RestsOnlyWhenApplied /\ ReadyIsHonest

\* The mapping: the workflow and the template without their bookkeeping.
View ==
  [spec |-> awf.spec, gen |-> awf.gen, deleting |-> awf.deleting,
   ready |-> awf.status.ready, observed |-> awf.status.gen]

R == INSTANCE WorkflowRollout WITH
       workflow <- IF awf = NULL THEN NULL ELSE View, had <- used,
       template <- IF template = NULL THEN NULL ELSE template.spec, None <- NULL

\* Seen from outside, caches, conflicts, restarts, undone edits and foreign changes
\* do not show: a template is written only while the status is not ready, never an
\* older one over the generation it observes, and ready is claimed only for what
\* was applied.
TemplateRollout == R!Spec

\* A workflow whose spec compiles and is left alone gets its template for good,
\* and its status keeps coming back to ready, through conflicts, stale reads,
\* failed requests and restarts.  The status need not stay ready: the write that
\* marks it not ready is an event, and a worker that takes that event before the
\* cache holds the next write compiles, and marks, once more.
WorkflowSettles ==
  <>[](Live /\ awf.spec \in Specs /\ Undisturbed)
  => /\ <>[](Live => template # NULL /\ template.spec = awf.spec)
     /\ []<>(awf # NULL /\ awf.status.ready /\ awf.status.hash = awf.spec
             /\ template # NULL)

\* A deleted workflow leaves no template, also when its status never came to
\* name the one that was created.
NothingLeftBehind == [](awf = NULL => <>[](template = NULL))
=============================================================================
