----------------------- MODULE WorkflowReconcileProofs -----------------------
(* TLAPS proofs about the AgentWorkflow controller, for every value of its    *)
(* constants.                                                                 *)
EXTENDS WorkflowReconcile, TLAPS

-----------------------------------------------------------------------------
(* The inductive invariant. *)

Busy == work.pc # "idle"

\* What the copies say of the object's life: nothing vanishes that the cache shows
\* with a finalizer and not as deleting, and a reconcile under way has such a copy.
Pinned ==
  /\ seen = NULL => awf = NULL
  /\ awf # NULL /\ awf.deleting => awf.finalizer
  /\ seen # NULL /\ seen.deleting /\ awf # NULL => awf.deleting
  /\ seen # NULL /\ seen.finalizer /\ ~seen.deleting => awf # NULL /\ awf.finalizer
  /\ Busy => awf # NULL /\ awf.finalizer

\* Copies are never ahead of the object, nor the worker's ahead of the cache; a
\* generation has one spec; and the status names the current generation only once
\* the cache has it.
Versions ==
  /\ awf # NULL =>
       /\ seen.gen <= awf.gen
       /\ seen.gen = awf.gen => seen.spec = awf.spec
       /\ awf.status.gen <= awf.gen
       /\ awf.status.gen = awf.gen => seen.gen = awf.gen
  /\ Busy => work.obj.gen <= seen.gen

\* The write that marks the status precedes the apply, and it alone makes a ready
\* status not ready: what the cache still shows as ready is from before the mark.
Marked ==
  /\ work.pc = "mark" => (awf.status.ready /\ awf.status.gen = awf.gen => work.hash = awf.spec)
  /\ work.pc \in {"apply", "status"} => ~awf.status.ready
  /\ Busy => (seen.status.ready /\ seen.status.gen = seen.gen => work.hash = seen.spec)
  /\ work.pc = "apply" =>
       /\ ~work.obj.status.ready /\ work.obj.status.gen = work.obj.gen
       /\ seen.status.ready => seen.gen = work.obj.gen
  /\ work.pc = "status" =>
       /\ work.desired # NULL /\ work.desired.gen <= seen.gen
       /\ work.failed => ~work.desired.ready
       /\ ~work.failed => /\ work.desired.ready /\ work.desired.hash = work.hash
                          /\ seen.status.ready => seen.gen = work.desired.gen

\* The hashes around are of specs the object has had; while none came back, a spec
\* names one generation, in the cache and in the reconcile under way.
Hashed ==
  awf # NULL =>
    /\ awf.spec \in used /\ seen.spec \in used /\ awf.status.hash \in used \cup {NULL}
    /\ ~reverted /\ seen.spec = awf.spec => seen.gen = awf.gen
    /\ Busy => /\ work.hash \in used
               /\ ~reverted /\ work.hash = awf.spec =>
                    work.obj.gen = awf.gen /\ work.obj.spec = awf.spec
    /\ work.pc = "apply" => work.obj.status.hash \in used \cup {NULL}
    /\ work.pc = "status" => work.desired.hash \in used \cup {NULL}

\* The template and the stamped generation are those of the object's spec.
TemplateIs(gen) == template # NULL /\ template.spec = awf.spec /\ gen = awf.gen

\* A status that lets the controller skip, or is about to, tells the truth.
Truthful ==
  Undisturbed =>
    /\ Live /\ UpToDate(awf) => TemplateIs(awf.status.gen)
    /\ work.pc = "status" /\ ~work.failed /\ work.hash = awf.spec =>
         TemplateIs(work.desired.gen)

\* A controller with nothing to come skips.
QuietIsUpToDate ==
  ~Busy /\ ~queued /\ ~timer /\ seen = awf /\ Live /\ ~reverted => UpToDate(awf)

IndInv == TypeOK /\ Pinned /\ Versions /\ Marked /\ Hashed /\ Truthful /\ QuietIsUpToDate

-----------------------------------------------------------------------------
(* What the actions do, field by field. *)

WorkType == [pc : {"idle", "mark", "apply", "status"}, obj : Objects \cup {NULL},
             hash : All \cup {NULL}, desired : Status \cup {NULL}, failed : BOOLEAN]

\* Generations are numbers.
LEMMA Numbers ==
  /\ \A o \in Objects : o.gen \in Int /\ o.status \in Status
  /\ \A st \in Status : st.gen \in Int
BY WorkflowAssumption DEF Objects, Status

\* What the variables hold when there is something there.
LEMMA Types ==
  ASSUME TypeOK
  PROVE  /\ work \in WorkType
         /\ awf # NULL => awf \in Objects /\ awf.gen \in Int /\ awf.status \in Status
                         /\ awf.status.gen \in Int
         /\ seen # NULL => seen \in Objects /\ seen.gen \in Int /\ seen.status \in Status
                         /\ seen.status.gen \in Int
         /\ Busy => /\ awf # NULL /\ work.obj # NULL /\ work.obj \in Objects /\ work.obj.gen \in Int
                    /\ work.obj.status \in Status /\ work.obj.status.gen \in Int
         /\ work.desired # NULL => work.desired \in Status /\ work.desired.gen \in Int
<1>1. work \in WorkType
  BY DEF TypeOK, WorkType
<1>2. work.obj \in Objects \cup {NULL} /\ work.desired \in Status \cup {NULL}
  BY <1>1 DEF WorkType
<1> QED BY <1>1, <1>2, Numbers DEF TypeOK, Busy

\* Idle is a state of the worker.
LEMMA IdleType == Idle \in WorkType /\ Idle.pc = "idle"
BY DEF Idle, WorkType

\* Begin: the worker holds the cached copy and its hash.
LEMMA BeginFacts ==
  ASSUME TypeOK, Begin
  PROVE  /\ work' \in WorkType
         /\ work'.pc = "mark" /\ work'.obj = seen /\ work'.hash = seen.spec
         /\ seen # NULL /\ ~seen.deleting /\ seen.finalizer /\ ~UpToDate(seen)
<1>1. seen # NULL /\ seen \in Objects
  BY Types DEF Begin, Compilable
<1>2. seen.spec \in All
  BY <1>1 DEF Objects
<1> QED BY <1>1, <1>2 DEF Begin, Compilable, Idle, WorkType

\* Mark: two fields of the status are written, and the worker holds the result.
LEMMA MarkFacts ==
  ASSUME TypeOK, Mark
  PROVE  /\ work.obj = awf /\ awf' \in Objects /\ work' \in WorkType
         /\ awf'.gen = awf.gen /\ awf'.spec = awf.spec /\ awf'.finalizer = awf.finalizer
         /\ awf'.deleting = awf.deleting
         /\ ~awf'.status.ready /\ awf'.status.gen = awf.gen
         /\ awf'.status.hash = awf.status.hash
         /\ work'.pc = "apply" /\ work'.obj = awf' /\ work'.hash = work.hash
<1>1. work \in WorkType /\ awf \in Objects /\ work.obj = awf
  BY Types DEF Mark, Busy
<1>2. [awf.status EXCEPT !.ready = FALSE, !.gen = awf.gen] \in Status
  <2>1. awf.gen \in 0..MaxGen /\ awf.status \in Status
    BY <1>1 DEF Objects
  <2> QED BY <2>1 DEF Status
<1>3. awf' = [awf EXCEPT !.status = [awf.status EXCEPT !.ready = FALSE, !.gen = awf.gen]]
  BY <1>1 DEF Mark, Objects, Status
<1>4. awf' \in Objects
  BY <1>1, <1>2, <1>3 DEF Objects
<1>5. work' = [work EXCEPT !.pc = "apply", !.obj = awf']
  BY DEF Mark
<1>6. /\ awf'.gen = awf.gen /\ awf'.spec = awf.spec /\ awf'.finalizer = awf.finalizer
      /\ awf'.deleting = awf.deleting
      /\ ~awf'.status.ready /\ awf'.status.gen = awf.gen
      /\ awf'.status.hash = awf.status.hash
  BY <1>1, <1>3 DEF Objects, Status
<1>7. work' \in WorkType /\ work'.pc = "apply" /\ work'.obj = awf' /\ work'.hash = work.hash
  BY <1>1, <1>4, <1>5 DEF WorkType
<1> QED BY <1>1, <1>4, <1>6, <1>7

\* Refetch: the worker holds the cached copy, and nothing else changes.
LEMMA RefetchFacts ==
  ASSUME TypeOK, Refetch
  PROVE  /\ work' \in WorkType /\ work'.obj = seen /\ seen # NULL
         /\ work'.pc = work.pc /\ work'.hash = work.hash
         /\ work'.desired = work.desired /\ work'.failed = work.failed
         /\ work.pc \in {"mark", "status"}
<1>1. work \in WorkType /\ seen \in Objects
  BY Types DEF Refetch
<1> QED BY <1>1 DEF Refetch, WorkType

\* The steps that decide the outcome of a compile.
Outcome == CompileFails \/ Apply \/ ApplyFails

\* The outcome: a failure keeps the marked status, a success says what was applied.
LEMMA OutcomeFacts ==
  ASSUME TypeOK, Outcome
  PROVE  /\ work' \in WorkType /\ work.pc = "apply" /\ work'.pc = "status"
         /\ work'.obj = work.obj /\ work'.hash = work.hash /\ work'.desired # NULL
         /\ \/ /\ work'.failed /\ work'.desired.ready = work.obj.status.ready
               /\ work'.desired.gen = work.obj.status.gen
               /\ work'.desired.hash = work.obj.status.hash /\ UNCHANGED template
            \/ /\ ~work'.failed /\ work'.desired.ready /\ work'.desired.hash = work.hash
               /\ work'.desired.gen = work.obj.gen
               /\ template' \in Templates /\ template'.spec = work.obj.spec
         /\ UNCHANGED <<awf, seen, used, reverted, queued, timer, drift>>
<1>p. work.pc = "apply"
  BY DEF Outcome, CompileFails, Apply, ApplyFails
<1>1. work \in WorkType /\ work.obj \in Objects /\ work.obj.status \in Status
  BY <1>p, Types DEF Busy
<1>e. ASSUME NEW st \in Status, NEW b \in BOOLEAN, Ends(st, b)
      PROVE  /\ work' \in WorkType /\ work'.pc = "status" /\ work'.obj = work.obj
             /\ work'.hash = work.hash /\ work'.desired = st /\ work'.desired # NULL
             /\ work'.failed = b
  BY <1>e, <1>1, AbsentAssumption DEF Ends, WorkType
<1>2. CASE CompileFails
  <2> DEFINE st == [work.obj.status EXCEPT !.compiled = FALSE]
  <2>1. /\ st \in Status /\ st.ready = work.obj.status.ready
        /\ st.gen = work.obj.status.gen /\ st.hash = work.obj.status.hash
    BY <1>1 DEF Status
  <2>2. Ends(st, TRUE)
    BY <1>2 DEF CompileFails
  <2> HIDE DEF st
  <2> QED BY <1>2, <1>p, <1>e, <2>1, <2>2 DEF CompileFails
<1>3. CASE ApplyFails
  <2> DEFINE st == [work.obj.status EXCEPT !.compiled = TRUE]
  <2>1. /\ st \in Status /\ st.ready = work.obj.status.ready
        /\ st.gen = work.obj.status.gen /\ st.hash = work.obj.status.hash
    BY <1>1 DEF Status
  <2>2. Ends(st, TRUE)
    BY <1>3 DEF ApplyFails
  <2> HIDE DEF st
  <2> QED BY <1>3, <1>p, <1>e, <2>1, <2>2 DEF ApplyFails
<1>4. CASE Apply
  <2> DEFINE st == [ready |-> TRUE, hash |-> work.hash, named |-> TRUE,
                    gen |-> work.obj.gen, compiled |-> TRUE]
  <2>1. work.hash \in All \cup {NULL} /\ work.obj.gen \in 0..MaxGen /\ work.obj.spec \in All
    BY <1>1 DEF WorkType, Objects
  <2>2. st \in Status /\ st.ready /\ st.gen = work.obj.gen /\ st.hash = work.hash
    BY <2>1 DEF Status
  <2>3. Ends(st, FALSE)
    BY <1>4 DEF Apply
  <2>4. template' \in Templates /\ template'.spec = work.obj.spec
    BY <1>4, <2>1 DEF Apply, Templates, TypeOK
  <2> HIDE DEF st
  <2> QED BY <1>4, <1>p, <1>e, <2>2, <2>3, <2>4 DEF Apply
<1> QED BY <1>2, <1>3, <1>4 DEF Outcome

\* The status write replaces the status by the outcome.
LEMMA StatusWriteFacts ==
  ASSUME TypeOK, Marked, StatusWrite
  PROVE  /\ work.pc = "status" /\ work.obj = awf /\ awf' \in Objects
         /\ awf'.gen = awf.gen /\ awf'.spec = awf.spec /\ awf'.finalizer = awf.finalizer
         /\ awf'.deleting = awf.deleting /\ awf'.status = work.desired
         /\ work' = Idle
<1>1. awf \in Objects /\ work.pc = "status" /\ work.obj = awf
  BY Types DEF StatusWrite, Busy
<1>2. work.desired \in Status
  BY <1>1, Types DEF Marked
<1> QED BY <1>1, <1>2 DEF StatusWrite, Retry, Objects

\* An edit gives the object another spec under the next generation.
LEMMA EditFacts ==
  ASSUME TypeOK, NEW s \in All, EditSpec(s)
  PROVE  /\ awf # NULL /\ awf' \in Objects
         /\ awf'.gen = awf.gen + 1 /\ awf'.spec = s /\ awf'.finalizer = awf.finalizer
         /\ awf'.deleting = awf.deleting /\ ~awf.deleting /\ awf'.status = awf.status
<1>1. awf # NULL /\ awf \in Objects /\ awf.gen < MaxGen
  BY Types DEF EditSpec
<1>2. awf.gen + 1 \in 1..MaxGen
  BY <1>1, WorkflowAssumption DEF Objects
<1> QED BY <1>1, <1>2 DEF EditSpec, Objects

\* The finalizer is set on the object if the copy was current.
LEMMA AddFinalizerFacts ==
  ASSUME TypeOK, AddFinalizer
  PROVE  /\ awf' \in Objects \cup {NULL} /\ (awf' = NULL <=> awf = NULL)
         /\ awf # NULL => /\ awf'.gen = awf.gen /\ awf'.spec = awf.spec
                          /\ awf'.deleting = awf.deleting /\ awf'.status = awf.status
                          /\ awf.finalizer => awf'.finalizer
         /\ ~Busy /\ timer' /\ UNCHANGED work
<1>1. CASE awf = NULL \/ seen # awf
  BY <1>1 DEF AddFinalizer, TypeOK, Take, Busy
<1>2. CASE awf # NULL /\ seen = awf
  <2>1. awf \in Objects /\ awf' = [awf EXCEPT !.finalizer = TRUE]
    BY <1>2 DEF AddFinalizer, TypeOK
  <2>2. awf' \in Objects /\ awf' # NULL
    BY <2>1, AbsentAssumption DEF Objects
  <2> QED BY <1>2, <2>1, <2>2 DEF AddFinalizer, Objects, Take, Busy
<1> QED BY <1>1, <1>2

\* A deletion marks the object, or removes it when nothing holds it.
LEMMA DeleteFacts ==
  ASSUME TypeOK, DeleteWorkflow
  PROVE  /\ awf # NULL /\ ~awf.deleting
         /\ ~awf.finalizer => awf' = NULL
         /\ awf.finalizer =>
              /\ awf' \in Objects /\ awf'.gen = awf.gen /\ awf'.spec = awf.spec
              /\ awf'.finalizer /\ awf'.deleting /\ awf'.status = awf.status
<1>1. awf # NULL /\ awf \in Objects
  BY Types DEF DeleteWorkflow
<1> QED BY <1>1 DEF DeleteWorkflow, Objects

-----------------------------------------------------------------------------
(* The steps that leave the object, its copies and the worker alone. *)

\* They touch the queue, the template or the counters only.
Aside ==
  \/ ReconcileGone \/ Skip \/ ObserveTemplate \/ TimerFires \/ Drift \/ CollectTemplate
  \/ UNCHANGED vars

\* The worker drops what it does.
Drops == RequestFails \/ StatusFails

\* The cases of a step.
LEMMA StepCases ==
  ASSUME [Next]_vars
  PROVE  \/ Aside \/ Drops \/ Finalize \/ AddFinalizer \/ Begin \/ Mark \/ Refetch
         \/ Outcome \/ StatusWrite \/ ObserveWorkflow \/ Restart
         \/ (\E s \in All : EditSpec(s)) \/ DeleteWorkflow
BY DEF Next, Reconcile, Aside, Drops, Outcome

\* What an aside leaves alone.
LEMMA AsideFacts ==
  ASSUME Aside
  PROVE  UNCHANGED <<awf, seen, used, reverted, work>>
BY DEF Aside, ReconcileGone, Skip, ObserveTemplate, TimerFires, Drift, CollectTemplate, vars

\* What dropping the reconcile leaves alone.
LEMMA DropFacts ==
  ASSUME Drops
  PROVE  work' = Idle /\ timer' /\ UNCHANGED <<awf, seen, used, reverted, template, drift>>
BY DEF Drops, RequestFails, StatusFails, Retry

\* The reconcile of a deletion runs on an idle worker, ends idle, and keeps the
\* object unless the cached copy was current.
LEMMA FinalizeFacts ==
  ASSUME Finalize
  PROVE  /\ ~Busy /\ work'.pc = "idle" /\ (work' = work \/ work' = Idle)
         /\ seen # NULL /\ seen.deleting
         /\ awf' = NULL \/ (awf' = awf /\ seen # awf /\ timer')
         /\ UNCHANGED <<seen, used, reverted, drift>>
         /\ template' = NULL \/ template' = template
BY IdleType DEF Finalize, Take, Retry, Busy

-----------------------------------------------------------------------------
(* Type correctness. *)

\* The initial states are well formed and satisfy the invariant.
LEMMA InitInv == Init => IndInv
<1> SUFFICES ASSUME Init PROVE IndInv
  OBVIOUS
<1>1. PICK s \in All :
        /\ awf = [gen |-> 1, spec |-> s, finalizer |-> FALSE, deleting |-> FALSE,
                  status |-> NoStatus]
        /\ used = {s} /\ reverted = FALSE
  BY DEF Init
<1>2. seen = awf /\ template = NULL /\ queued /\ work = Idle
  BY DEF Init
<1>3. NoStatus \in Status
  BY WorkflowAssumption DEF NoStatus, Status
<1>4. awf \in Objects /\ awf # NULL
  <2>1. 1 \in 1..MaxGen
    BY WorkflowAssumption
  <2>2. awf \in Objects
    BY <1>1, <1>3, <2>1 DEF Objects
  <2> QED BY <2>2, AbsentAssumption
<1>5. TypeOK
  <2>1. used \subseteq All /\ reverted \in BOOLEAN
    BY <1>1
  <2>2. faults \in 0..MaxFaults /\ drift \in 0..MaxDrift
    BY WorkflowAssumption DEF Init
  <2>3. Idle \in WorkType /\ Idle.pc = "idle"
    BY IdleType
  <2> QED BY <1>2, <1>4, <2>1, <2>2, <2>3 DEF Init, TypeOK, WorkType
<1>6. ~Busy
  BY <1>2, IdleType DEF Busy
<1>7. /\ awf.gen = 1 /\ awf.spec = s /\ ~awf.finalizer /\ ~awf.deleting
      /\ awf.status.gen = 0 /\ ~awf.status.ready /\ awf.status.hash = NULL
  BY <1>1 DEF NoStatus
<1>8. Pinned /\ Versions /\ Hashed
  BY <1>1, <1>2, <1>4, <1>6, <1>7 DEF Pinned, Versions, Hashed, Busy
<1>9. Marked /\ Truthful /\ QuietIsUpToDate
  BY <1>2, <1>6, <1>7 DEF Marked, Truthful, QuietIsUpToDate, Busy, UpToDate
<1> QED BY <1>5, <1>8, <1>9 DEF IndInv

\* Every step keeps the state well formed.  That a reconcile never loses its object
\* is where the finalizer comes in.
LEMMA TypeStep ==
  ASSUME TypeOK, Pinned, Marked, [Next]_vars
  PROVE  TypeOK'
<1> USE DEF WorkType
<1>t. work \in WorkType
  BY Types
<1>i. Idle \in WorkType /\ Idle.pc = "idle"
  BY IdleType
<1>f. Fault => faults' \in 0..MaxFaults
  BY WorkflowAssumption DEF Fault, TypeOK
<1>1. CASE Aside
  <2>1. CASE Drift
    <3>1. drift' \in 0..MaxDrift
      BY <2>1, WorkflowAssumption DEF Drift, TypeOK
    <3>2. template' \in Templates \cup {NULL}
      BY <2>1 DEF Drift, TypeOK, Templates
    <3> QED BY <2>1, <3>1, <3>2 DEF Drift, TypeOK
  <2>2. CASE CollectTemplate
    BY <2>2 DEF CollectTemplate, TypeOK
  <2>3. CASE ReconcileGone \/ Skip \/ ObserveTemplate \/ TimerFires \/ UNCHANGED vars
    BY <2>3 DEF ReconcileGone, Skip, ObserveTemplate, TimerFires, vars, Take, TypeOK
  <2> QED BY <1>1, <2>1, <2>2, <2>3 DEF Aside
<1>2. CASE Drops
  BY <1>2, <1>i, <1>f DEF Drops, RequestFails, StatusFails, Retry, Take, TypeOK
<1>3. CASE Finalize
  <2>1. work' \in WorkType /\ work'.pc = "idle" /\ timer' \in BOOLEAN
    BY <1>3, <1>i, <1>t, FinalizeFacts DEF Finalize, Retry, TypeOK
  <2>2. awf' \in Objects \cup {NULL} /\ template' \in Templates \cup {NULL}
    BY <1>3, FinalizeFacts DEF TypeOK
  <2> QED BY <1>3, <2>1, <2>2 DEF Finalize, Take, TypeOK
<1>4. CASE AddFinalizer
  BY <1>4, AddFinalizerFacts DEF AddFinalizer, Take, TypeOK, Busy
<1>5. CASE Begin
  BY <1>5, BeginFacts DEF Begin, Take, TypeOK, Pinned
<1>6. CASE Mark
  <2>1. awf' # NULL
    BY <1>6, MarkFacts, AbsentAssumption
  <2> QED BY <1>6, <2>1, MarkFacts DEF Mark, TypeOK
<1>7. CASE Refetch
  BY <1>7, RefetchFacts DEF Refetch, TypeOK
<1>8. CASE Outcome
  <2>1. /\ work' \in WorkType /\ work.pc = "apply" /\ work'.obj = work.obj
        /\ template' \in Templates \cup {NULL}
        /\ UNCHANGED <<awf, seen, used, reverted, queued, timer, drift>>
    BY <1>8, OutcomeFacts DEF TypeOK
  <2>2. noticed' \in BOOLEAN /\ faults' \in 0..MaxFaults
    BY <1>8, <1>f DEF Outcome, CompileFails, Apply, ApplyFails, TypeOK
  <2> QED BY <2>1, <2>2 DEF TypeOK
<1>9. CASE StatusWrite
  BY <1>9, <1>i, StatusWriteFacts DEF StatusWrite, Retry, TypeOK
<1>10. CASE ObserveWorkflow
  BY <1>10 DEF ObserveWorkflow, TypeOK
<1>11. CASE Restart
  BY <1>11, <1>i, <1>f DEF Restart, TypeOK
<1>12. ASSUME NEW s \in All, EditSpec(s) PROVE TypeOK'
  <2>1. awf' \in Objects /\ awf' # NULL
    BY <1>12, EditFacts, AbsentAssumption
  <2>2. used' \subseteq All /\ reverted' \in BOOLEAN
    BY <1>12 DEF EditSpec, TypeOK
  <2> QED BY <1>12, <2>1, <2>2 DEF EditSpec, TypeOK
<1>13. CASE DeleteWorkflow
  <2>1. awf' \in Objects \cup {NULL}
    BY <1>13, DeleteFacts
  <2>2. Busy => awf' # NULL
    BY <1>13, DeleteFacts, AbsentAssumption DEF Pinned
  <2> QED BY <1>13, <2>1, <2>2 DEF DeleteWorkflow, TypeOK, Busy
<1> QED
  BY <1>1, <1>2, <1>3, <1>4, <1>5, <1>6, <1>7, <1>8, <1>9, <1>10, <1>11, <1>12, <1>13, StepCases

-----------------------------------------------------------------------------
(* The object's life, its versions and the marks on its status. *)

\* Every step keeps the object pinned by its finalizer.
LEMMA PinnedStep ==
  ASSUME TypeOK, Pinned, Marked, [Next]_vars
  PROVE  Pinned'
<1> USE DEF Pinned, Busy
<1>i. Idle.pc = "idle"
  BY IdleType
<1>1. CASE Aside
  BY <1>1, AsideFacts
<1>2. CASE Drops
  BY <1>2, <1>i, DropFacts
<1>3. CASE Finalize
  BY <1>3, FinalizeFacts
<1>4. CASE AddFinalizer
  <2>1. seen' = seen
    BY <1>4 DEF AddFinalizer
  <2> QED BY <1>4, <2>1, AddFinalizerFacts
<1>5. CASE Begin
  BY <1>5, BeginFacts DEF Begin
<1>6. CASE Mark
  <2>1. awf' # NULL /\ awf # NULL /\ seen' = seen /\ work.pc = "mark"
    BY <1>6, MarkFacts, AbsentAssumption, Types DEF Mark
  <2> QED BY <1>6, <2>1, MarkFacts
<1>7. CASE Refetch
  BY <1>7, RefetchFacts DEF Refetch
<1>8. CASE Outcome
  BY <1>8, OutcomeFacts
<1>9. CASE StatusWrite
  <2>1. awf' # NULL /\ awf # NULL /\ seen' = seen
    BY <1>9, StatusWriteFacts, AbsentAssumption, Types DEF StatusWrite
  <2> QED BY <1>9, <2>1, <1>i, StatusWriteFacts
<1>10. CASE ObserveWorkflow
  BY <1>10 DEF ObserveWorkflow
<1>11. CASE Restart
  BY <1>11, <1>i DEF Restart
<1>12. ASSUME NEW s \in All, EditSpec(s) PROVE Pinned'
  <2>1. awf' # NULL /\ seen' = seen /\ work' = work
    BY <1>12, EditFacts, AbsentAssumption DEF EditSpec
  <2> QED BY <1>12, <2>1, EditFacts
<1>13. CASE DeleteWorkflow
  <2>1. awf.finalizer => awf' # NULL
    BY <1>13, DeleteFacts, AbsentAssumption
  <2>2. seen' = seen /\ work' = work
    BY <1>13 DEF DeleteWorkflow
  <2> QED BY <1>13, <2>1, <2>2, DeleteFacts
<1> QED
  BY <1>1, <1>2, <1>3, <1>4, <1>5, <1>6, <1>7, <1>8, <1>9, <1>10, <1>11, <1>12, <1>13, StepCases

\* Every step keeps the versions in order.
LEMMA VersionsStep ==
  ASSUME TypeOK, Pinned, Versions, Marked, [Next]_vars
  PROVE  Versions'
<1> USE DEF Versions, Busy
<1>i. Idle.pc = "idle"
  BY IdleType
<1>t. /\ awf # NULL => awf.gen \in Int /\ awf.status.gen \in Int
                      /\ seen # NULL /\ seen.gen \in Int
      /\ Busy => awf # NULL /\ work.obj.gen \in Int
  BY Types DEF Pinned
<1>1. CASE Aside
  BY <1>1, AsideFacts
<1>2. CASE Drops
  BY <1>2, <1>i, DropFacts
<1>3. CASE Finalize
  BY <1>3, FinalizeFacts
<1>4. CASE AddFinalizer
  <2>1. seen' = seen
    BY <1>4 DEF AddFinalizer
  <2> QED BY <1>4, <2>1, AddFinalizerFacts
<1>5. CASE Begin
  <2>1. UNCHANGED <<awf, seen>> /\ awf # NULL
    BY <1>5, BeginFacts DEF Begin, Pinned
  <2> QED BY <1>5, <1>t, <2>1, BeginFacts
<1>6. CASE Mark
  <2>1. seen' = seen /\ awf # NULL /\ Busy
    BY <1>6, <1>t DEF Mark
  <2>2. seen.gen = awf.gen
    BY <1>6, <1>t, <2>1, MarkFacts
  <2> QED BY <1>6, <1>t, <2>1, <2>2, MarkFacts
<1>7. CASE Refetch
  <2>1. UNCHANGED <<awf, seen>> /\ awf # NULL
    BY <1>7, <1>t, RefetchFacts DEF Refetch
  <2> QED BY <1>7, <1>t, <2>1, RefetchFacts
<1>8. CASE Outcome
  BY <1>8, OutcomeFacts
<1>9. CASE StatusWrite
  <2>1. seen' = seen /\ awf # NULL
    BY <1>9, <1>t, StatusWriteFacts DEF StatusWrite
  <2>2. work.desired.gen \in Int /\ work.desired.gen <= seen.gen
    BY <1>9, StatusWriteFacts, Types DEF Marked
  <2> QED BY <1>9, <1>i, <1>t, <2>1, <2>2, StatusWriteFacts
<1>10. CASE ObserveWorkflow
  <2>1. awf' = awf /\ seen' = awf /\ work' = work
    BY <1>10 DEF ObserveWorkflow
  <2> QED BY <1>t, <2>1
<1>11. CASE Restart
  <2>1. awf' = awf /\ seen' = awf /\ work' = Idle
    BY <1>11 DEF Restart
  <2> QED BY <1>i, <1>t, <2>1
<1>12. ASSUME NEW s \in All, EditSpec(s) PROVE Versions'
  <2>1. awf # NULL /\ seen' = seen /\ work' = work
    BY <1>12, EditFacts DEF EditSpec
  <2> QED BY <1>12, <1>t, <2>1, EditFacts
<1>13. CASE DeleteWorkflow
  <2>1. seen' = seen /\ work' = work
    BY <1>13 DEF DeleteWorkflow
  <2> QED BY <1>13, <2>1, <1>t, DeleteFacts
<1> QED
  BY <1>1, <1>2, <1>3, <1>4, <1>5, <1>6, <1>7, <1>8, <1>9, <1>10, <1>11, <1>12, <1>13, StepCases

\* Every step keeps the marks.
LEMMA MarkedStep ==
  ASSUME TypeOK, Pinned, Versions, Marked, [Next]_vars
  PROVE  Marked'
<1> USE DEF Busy
<1>i. Idle.pc = "idle"
  BY IdleType
<1>t. /\ awf # NULL => awf.gen \in Int /\ awf.status.gen \in Int
                      /\ seen # NULL /\ seen.gen \in Int
      /\ Busy => awf # NULL /\ work.obj.gen \in Int
  BY Types DEF Pinned
<1>0. ASSUME work'.pc = "idle" PROVE Marked'
  BY <1>0 DEF Marked
<1>1. CASE Aside
  BY <1>1, AsideFacts DEF Marked
<1>2. CASE Drops \/ StatusWrite \/ Restart \/ Finalize
  BY <1>0, <1>2, <1>i, DropFacts, StatusWriteFacts, FinalizeFacts DEF Restart
<1>4. CASE AddFinalizer
  BY <1>0, <1>4, AddFinalizerFacts
<1>5. CASE Begin
  <2>1. UNCHANGED <<awf, seen>> /\ awf # NULL
    BY <1>5, BeginFacts DEF Begin, Pinned
  <2>2. awf.status.gen = awf.gen => seen.spec = awf.spec
    BY <2>1 DEF Versions
  <2> QED BY <1>5, <2>1, <2>2, BeginFacts DEF Marked
<1>6. CASE Mark
  <2>1. seen' = seen /\ awf # NULL /\ Busy
    BY <1>6, <1>t DEF Mark
  <2>2. seen.gen = awf.gen
    BY <1>6, <1>t, <2>1, MarkFacts DEF Versions
  <2> QED BY <1>6, <2>1, <2>2, MarkFacts DEF Marked
<1>7. CASE Refetch
  <2>1. UNCHANGED <<awf, seen>>
    BY <1>7 DEF Refetch
  <2> QED BY <1>7, <2>1, RefetchFacts DEF Marked
<1>8. CASE Outcome
  <2>1. work.obj.gen <= seen.gen
    BY <1>8, OutcomeFacts DEF Versions
  <2> QED BY <1>8, <2>1, OutcomeFacts DEF Marked
<1>10. CASE ObserveWorkflow
  <2>1. awf' = awf /\ seen' = awf /\ work' = work /\ (Busy => awf # NULL)
    BY <1>10, <1>t DEF ObserveWorkflow
  <2>2. work.pc \in {"idle", "mark", "apply", "status"}
    BY DEF TypeOK
  <2>3. CASE work.pc = "mark"
    BY <2>1, <2>3 DEF Marked
  <2>4. CASE work.pc \in {"apply", "status"}
    <3>1. work.pc = "status" => work.desired.gen \in Int /\ work.desired.gen <= awf.gen
      BY <1>t, <2>1, Types DEF Marked, Versions
    <3> QED BY <2>1, <2>4, <3>1 DEF Marked
  <2> QED BY <1>0, <2>1, <2>2, <2>3, <2>4
<1>12. ASSUME NEW s \in All, EditSpec(s) PROVE Marked'
  <2>1. seen' = seen /\ work' = work /\ awf # NULL
    BY <1>12, EditFacts DEF EditSpec
  <2>2. awf'.status.gen # awf'.gen
    BY <1>12, <1>t, <2>1, EditFacts DEF Versions
  <2> QED BY <1>12, <2>1, <2>2, EditFacts DEF Marked
<1>13. CASE DeleteWorkflow
  <2>1. seen' = seen /\ work' = work
    BY <1>13 DEF DeleteWorkflow
  <2>2. Busy => awf'.status = awf.status /\ awf'.gen = awf.gen /\ awf'.spec = awf.spec
    BY <1>13, DeleteFacts DEF Pinned
  <2> QED BY <2>1, <2>2 DEF Marked
<1> QED
  BY <1>1, <1>2, <1>4, <1>5, <1>6, <1>7, <1>8, <1>10, <1>12, <1>13, StepCases

-----------------------------------------------------------------------------
(* Hashes, the template and rest. *)

\* Every step keeps the hashes those of specs the object has had.
LEMMA HashedStep ==
  ASSUME TypeOK, Pinned, Versions, Marked, Hashed, [Next]_vars
  PROVE  Hashed'
<1> USE DEF Hashed, Busy
<1>i. Idle.pc = "idle"
  BY IdleType
<1>t. /\ awf # NULL => awf.gen \in Int /\ seen # NULL /\ seen.gen \in Int
      /\ Busy => awf # NULL /\ work.obj.gen \in Int
  BY Types DEF Pinned
<1>1. CASE Aside
  BY <1>1, AsideFacts
<1>2. CASE Drops
  BY <1>2, <1>i, DropFacts
<1>3. CASE Finalize
  BY <1>3, FinalizeFacts
<1>4. CASE AddFinalizer
  <2>1. UNCHANGED <<seen, used, reverted>>
    BY <1>4 DEF AddFinalizer
  <2> QED BY <1>4, <2>1, AddFinalizerFacts
<1>5. CASE Begin
  <2>1. UNCHANGED <<awf, seen, used, reverted>> /\ awf # NULL
    BY <1>5, BeginFacts DEF Begin, Pinned
  <2> QED BY <1>5, <2>1, BeginFacts
<1>6. CASE Mark
  <2>1. UNCHANGED <<seen, used, reverted>> /\ awf # NULL /\ Busy
    BY <1>6, <1>t DEF Mark
  <2> QED BY <1>6, <2>1, MarkFacts
<1>7. CASE Refetch
  <2>1. UNCHANGED <<awf, seen, used, reverted>> /\ awf # NULL
    BY <1>7, <1>t, RefetchFacts DEF Refetch
  <2>2. work.obj.gen = awf.gen => seen.gen = awf.gen /\ seen.spec = awf.spec
    BY <1>7, <1>t, <2>1, RefetchFacts DEF Versions
  <2> QED BY <1>7, <2>1, <2>2, RefetchFacts
<1>8. CASE Outcome
  BY <1>8, OutcomeFacts
<1>9. CASE StatusWrite
  <2>1. UNCHANGED <<seen, used, reverted>> /\ awf # NULL
    BY <1>9, <1>t, StatusWriteFacts DEF StatusWrite
  <2> QED BY <1>9, <1>i, <2>1, StatusWriteFacts
<1>10. CASE ObserveWorkflow
  <2>1. awf' = awf /\ seen' = awf /\ UNCHANGED <<work, used, reverted>>
    BY <1>10 DEF ObserveWorkflow
  <2> QED BY <2>1
<1>11. CASE Restart
  <2>1. awf' = awf /\ seen' = awf /\ work' = Idle /\ UNCHANGED <<used, reverted>>
    BY <1>11 DEF Restart
  <2> QED BY <1>i, <2>1
<1>12. ASSUME NEW s \in All, EditSpec(s) PROVE Hashed'
  <2>1. /\ awf # NULL /\ seen' = seen /\ work' = work
        /\ used' = used \cup {s} /\ reverted' = (reverted \/ s \in used)
    BY <1>12, EditFacts DEF EditSpec
  <2>2. ~reverted' => /\ ~reverted /\ seen.spec # awf'.spec
                      /\ Busy => work.hash # awf'.spec
    BY <1>12, <2>1, EditFacts
  <2> QED BY <1>12, <2>1, <2>2, EditFacts
<1>13. CASE DeleteWorkflow
  <2>1. UNCHANGED <<seen, work, used, reverted>>
    BY <1>13 DEF DeleteWorkflow
  <2> QED BY <1>13, <2>1, DeleteFacts
<1> QED
  BY <1>1, <1>2, <1>3, <1>4, <1>5, <1>6, <1>7, <1>8, <1>9, <1>10, <1>11, <1>12, <1>13, StepCases

\* Every step keeps the status truthful.
LEMMA TruthfulStep ==
  ASSUME TypeOK, Pinned, Versions, Marked, Hashed, Truthful, [Next]_vars
  PROVE  Truthful'
<1> USE DEF Truthful, TemplateIs, Undisturbed, Live, UpToDate, Busy
<1>i. Idle.pc = "idle"
  BY IdleType
<1>1. CASE Aside
  <2>1. CASE Drift
    BY <2>1 DEF Drift, TypeOK
  <2>2. CASE CollectTemplate
    BY <2>2 DEF CollectTemplate, TypeOK
  <2>3. CASE ReconcileGone \/ Skip \/ ObserveTemplate \/ TimerFires \/ UNCHANGED vars
    BY <2>3 DEF ReconcileGone, Skip, ObserveTemplate, TimerFires, vars
  <2> QED BY <1>1, <2>1, <2>2, <2>3 DEF Aside
<1>2. CASE Drops
  BY <1>2, <1>i, DropFacts
<1>3. CASE Finalize
  <2>1. awf # NULL => awf.deleting
    BY <1>3, FinalizeFacts DEF Pinned
  <2>2. work'.pc = "idle" /\ (awf' = NULL \/ awf' = awf)
    BY <1>3, FinalizeFacts
  <2> QED BY <2>1, <2>2
<1>4. CASE AddFinalizer
  <2>1. UNCHANGED <<template, drift, reverted>>
    BY <1>4 DEF AddFinalizer
  <2> QED BY <1>4, <2>1, AddFinalizerFacts
<1>5. CASE Begin
  <2>1. UNCHANGED <<awf, template, drift, reverted>>
    BY <1>5 DEF Begin
  <2> QED BY <1>5, <2>1, BeginFacts
<1>6. CASE Mark
  BY <1>6, MarkFacts
<1>7. CASE Refetch
  <2>1. UNCHANGED <<awf, template, drift, reverted>>
    BY <1>7 DEF Refetch
  <2> QED BY <1>7, <2>1, RefetchFacts
<1>8. CASE Outcome
  <2>1. awf # NULL /\ ~awf.status.ready
    BY <1>8, OutcomeFacts, Types DEF Marked
  <2>2. ~reverted /\ work.hash = awf.spec => work.obj.gen = awf.gen /\ work.obj.spec = awf.spec
    BY <1>8, <2>1, OutcomeFacts DEF Hashed
  <2> QED BY <1>8, <2>1, <2>2, OutcomeFacts, AbsentAssumption
<1>9. CASE StatusWrite
  <2>1. UNCHANGED <<template, drift, reverted>>
    BY <1>9 DEF StatusWrite
  <2>2. work.pc = "status" /\ (work.desired.ready => ~work.failed /\ work.desired.hash = work.hash)
    BY <1>9, StatusWriteFacts DEF Marked, TypeOK
  <2> QED BY <1>9, <1>i, <2>1, <2>2, StatusWriteFacts
<1>10. CASE ObserveWorkflow
  BY <1>10 DEF ObserveWorkflow
<1>11. CASE Restart
  BY <1>11, <1>i DEF Restart
<1>12. ASSUME NEW s \in All, EditSpec(s) PROVE Truthful'
  <2>1. /\ awf # NULL /\ UNCHANGED <<work, template, drift>>
        /\ reverted' = (reverted \/ s \in used)
    BY <1>12, EditFacts DEF EditSpec
  <2>2. s # NULL
    BY WorkflowAssumption DEF All
  <2>3. ~reverted' => awf'.status.hash # s /\ (Busy => work.hash # s)
    BY <1>12, <2>1, <2>2, EditFacts DEF Hashed
  <2> QED BY <1>12, <2>1, <2>3, EditFacts
<1>13. CASE DeleteWorkflow
  <2>1. UNCHANGED <<work, template, drift, reverted>>
    BY <1>13 DEF DeleteWorkflow
  <2>2. Busy => awf.finalizer
    BY DEF Pinned
  <2> QED BY <1>13, <2>1, <2>2, DeleteFacts
<1> QED
  BY <1>1, <1>2, <1>3, <1>4, <1>5, <1>6, <1>7, <1>8, <1>9, <1>10, <1>11, <1>12, <1>13, StepCases

\* Every step that leaves the controller with nothing to come leaves it up to date.
LEMMA QuietStep ==
  ASSUME TypeOK, Pinned, Versions, Marked, Hashed, QuietIsUpToDate, [Next]_vars
  PROVE  QuietIsUpToDate'
<1> USE DEF QuietIsUpToDate, Live, UpToDate, Busy
<1>t. /\ awf # NULL => awf.gen \in Int /\ seen # NULL /\ seen.gen \in Int
      /\ Busy => awf # NULL /\ work.obj.gen \in Int
  BY Types DEF Pinned
<1>1. CASE Aside
  <2>1. CASE ReconcileGone
    BY <2>1 DEF ReconcileGone
  <2>2. CASE Skip
    BY <2>2 DEF Skip, Take, Compilable
  <2>3. CASE ObserveTemplate \/ TimerFires
    BY <2>3 DEF ObserveTemplate, TimerFires
  <2>4. CASE Drift \/ CollectTemplate \/ UNCHANGED vars
    BY <2>4 DEF Drift, CollectTemplate, vars
  <2> QED BY <1>1, <2>1, <2>2, <2>3, <2>4 DEF Aside
<1>2. CASE Drops
  BY <1>2, DropFacts
<1>3. CASE Finalize
  BY <1>3, FinalizeFacts
<1>4. CASE AddFinalizer
  BY <1>4, AddFinalizerFacts
<1>5. CASE Begin \/ Mark \/ Refetch \/ Outcome
  BY <1>5, BeginFacts, MarkFacts, RefetchFacts, OutcomeFacts
<1>9. CASE StatusWrite
  <2> SUFFICES ASSUME ~timer', seen = awf', ~reverted
               PROVE  awf'.status.hash = awf'.spec /\ awf'.status.ready
    BY <1>9 DEF StatusWrite
  <2>1. ~work.failed /\ work.pc = "status"
    BY <1>9 DEF StatusWrite, Retry, TypeOK
  <2>2. /\ work.desired.ready /\ work.desired.hash = work.hash
        /\ seen.status.ready => seen.gen = work.desired.gen
        /\ seen.status.ready /\ seen.status.gen = seen.gen => work.hash = seen.spec
    BY <2>1 DEF Marked
  <2>3. seen.status = work.desired /\ awf'.status = work.desired /\ awf'.spec = seen.spec
    BY <1>9, StatusWriteFacts
  <2> QED BY <2>2, <2>3
<1>10. CASE ObserveWorkflow \/ Restart
  BY <1>10 DEF ObserveWorkflow, Restart
<1>12. ASSUME NEW s \in All, EditSpec(s) PROVE QuietIsUpToDate'
  <2>1. awf # NULL /\ seen' = seen
    BY <1>12, EditFacts DEF EditSpec
  <2>2. seen.gen # awf'.gen
    BY <1>12, <1>t, <2>1, EditFacts DEF Versions
  <2> QED BY <2>1, <2>2
<1>13. CASE DeleteWorkflow
  BY <1>13, DeleteFacts
<1> QED
  BY <1>1, <1>2, <1>3, <1>4, <1>5, <1>9, <1>10, <1>12, <1>13, StepCases

-----------------------------------------------------------------------------
(* The invariant. *)

\* The invariant holds throughout every behaviour.
LEMMA Invariance == Spec => []IndInv
<1>1. ASSUME IndInv, [Next]_vars PROVE IndInv'
  BY <1>1, TypeStep, PinnedStep, VersionsStep, MarkedStep, HashedStep, TruthfulStep, QuietStep
     DEF IndInv
<1> QED BY InitInv, <1>1, PTL DEF Spec

-----------------------------------------------------------------------------
(* From mark to status write; the theorems. *)

\* The template is the workflow's own, or not the controller's at all.
OwnOrForeign == template = NULL \/ template.spec \in {awf.spec, NULL}

\* From the mark to the status write nobody else writes the status: the generation
\* that was marked is the one applied and reported.
Rolled ==
  /\ Busy => work.obj.spec \in used
  /\ work.pc = "apply" =>
       /\ awf.status.gen = work.obj.gen
       /\ awf.gen = work.obj.gen => awf.spec = work.obj.spec
  /\ work.pc = "status" =>
       /\ work.desired.gen = awf.status.gen
       /\ ~work.failed /\ work.desired.gen = awf.gen => OwnOrForeign

\* Every step keeps the reconcile on the generation it marked.
LEMMA RolledStep ==
  ASSUME TypeOK, Pinned, Versions, Marked, Hashed, Rolled, [Next]_vars
  PROVE  Rolled'
<1> USE DEF Rolled, OwnOrForeign, Busy
<1>i. Idle.pc = "idle"
  BY IdleType
<1>t. /\ awf # NULL => awf.gen \in Int /\ awf.status.gen \in Int
                      /\ seen # NULL /\ seen.gen \in Int
      /\ Busy => awf # NULL /\ work.obj.gen \in Int
  BY Types DEF Pinned
<1>0. ASSUME work'.pc = "idle" PROVE Rolled'
  BY <1>0
<1>1. CASE Aside
  <2>1. UNCHANGED <<awf, used, work>>
    BY <1>1, AsideFacts
  <2>2. template' = template \/ template' = NULL \/ template'.spec = NULL
    <3>1. CASE Drift
      BY <3>1 DEF Drift, TypeOK, Templates
    <3>2. CASE CollectTemplate
      BY <3>2 DEF CollectTemplate
    <3>3. CASE ReconcileGone \/ Skip \/ ObserveTemplate \/ TimerFires \/ UNCHANGED vars
      BY <3>3 DEF ReconcileGone, Skip, ObserveTemplate, TimerFires, vars
    <3> QED BY <1>1, <3>1, <3>2, <3>3 DEF Aside
  <2> QED BY <2>1, <2>2
<1>2. CASE Drops \/ StatusWrite \/ Restart \/ Finalize
  BY <1>0, <1>2, <1>i, DropFacts, StatusWriteFacts, FinalizeFacts DEF Restart
<1>4. CASE AddFinalizer
  BY <1>0, <1>4, AddFinalizerFacts
<1>5. CASE Begin
  <2>1. UNCHANGED used /\ awf # NULL
    BY <1>5, BeginFacts DEF Begin, Pinned
  <2> QED BY <1>5, <2>1, BeginFacts DEF Hashed
<1>6. CASE Mark
  <2>1. UNCHANGED used /\ awf # NULL
    BY <1>6, <1>t DEF Mark
  <2> QED BY <1>6, <2>1, MarkFacts DEF Hashed
<1>7. CASE Refetch
  <2>1. UNCHANGED <<awf, used, template>> /\ awf # NULL
    BY <1>7, <1>t, RefetchFacts DEF Refetch
  <2> QED BY <1>7, <2>1, RefetchFacts DEF Hashed
<1>8. CASE Outcome
  BY <1>8, OutcomeFacts DEF Marked
<1>10. CASE ObserveWorkflow
  BY <1>10 DEF ObserveWorkflow
<1>12. ASSUME NEW s \in All, EditSpec(s) PROVE Rolled'
  <2>1. UNCHANGED <<seen, work, template>> /\ awf # NULL /\ used' = used \cup {s}
    BY <1>12, EditFacts DEF EditSpec
  <2>2. awf'.status.gen # awf'.gen /\ awf'.status = awf.status
    BY <1>12, <1>t, <2>1, EditFacts DEF Versions
  <2>3. Busy => work.obj.gen # awf'.gen
    BY <1>12, <1>t, <2>1, EditFacts DEF Versions
  <2> QED BY <2>1, <2>2, <2>3
<1>13. CASE DeleteWorkflow
  <2>1. UNCHANGED <<work, used, template>>
    BY <1>13 DEF DeleteWorkflow
  <2>2. Busy => awf'.status = awf.status /\ awf'.gen = awf.gen /\ awf'.spec = awf.spec
    BY <1>13, DeleteFacts DEF Pinned
  <2> QED BY <2>1, <2>2
<1> QED
  BY <1>1, <1>2, <1>4, <1>5, <1>6, <1>7, <1>8, <1>10, <1>12, <1>13, StepCases

\* Every step keeps a ready status honest: the template changes under it only by
\* another hand, and the status write finds the template of its generation.
LEMMA HonestStep ==
  ASSUME TypeOK, Pinned, Versions, Marked, Rolled, ReadyIsHonest, [Next]_vars
  PROVE  ReadyIsHonest'
<1> USE DEF ReadyIsHonest
<1>u. ASSUME UNCHANGED <<awf, template>> PROVE ReadyIsHonest'
  BY <1>u
<1>d. ASSUME UNCHANGED awf, template' = NULL \/ template'.spec = NULL PROVE ReadyIsHonest'
  BY <1>d
<1>1. CASE Aside
  <2>1. CASE Drift \/ CollectTemplate
    BY <1>d, <2>1 DEF Drift, CollectTemplate, TypeOK, Templates
  <2>2. CASE ReconcileGone \/ Skip \/ ObserveTemplate \/ TimerFires \/ UNCHANGED vars
    BY <1>u, <2>2 DEF ReconcileGone, Skip, ObserveTemplate, TimerFires, vars
  <2> QED BY <1>1, <2>1, <2>2 DEF Aside
<1>2. CASE Drops \/ Begin \/ Refetch \/ ObserveWorkflow \/ Restart
  BY <1>u, <1>2, DropFacts DEF Begin, Refetch, ObserveWorkflow, Restart
<1>3. CASE Finalize
  BY <1>3, <1>u, <1>d, FinalizeFacts
<1>4. CASE AddFinalizer
  <2>1. UNCHANGED template
    BY <1>4 DEF AddFinalizer
  <2> QED BY <1>4, <2>1, AddFinalizerFacts
<1>6. CASE Mark
  BY <1>6, MarkFacts
<1>8. CASE Outcome
  <2>1. ~awf.status.ready
    BY <1>8, OutcomeFacts DEF Marked
  <2> QED BY <1>8, <2>1, OutcomeFacts
<1>9. CASE StatusWrite
  <2>1. UNCHANGED template /\ work.pc = "status"
    BY <1>9 DEF StatusWrite
  <2>2. work.desired.ready => ~work.failed
    BY <2>1 DEF Marked
  <2> QED BY <1>9, <2>1, <2>2, StatusWriteFacts DEF Rolled, OwnOrForeign
<1>12. ASSUME NEW s \in All, EditSpec(s) PROVE ReadyIsHonest'
  <2>1. awf # NULL /\ awf.gen \in Int /\ awf.status.gen \in Int
    BY <1>12, EditFacts, Types
  <2>2. awf'.status.gen # awf'.gen
    BY <1>12, <2>1, EditFacts DEF Versions
  <2> QED BY <2>2
<1>13. CASE DeleteWorkflow
  <2>1. UNCHANGED template
    BY <1>13 DEF DeleteWorkflow
  <2> QED BY <1>13, <2>1, DeleteFacts
<1> QED
  BY <1>1, <1>2, <1>3, <1>4, <1>6, <1>8, <1>9, <1>12, <1>13, StepCases

\* What a reader of the API server sees.
Shown == IF awf = NULL THEN NULL ELSE View
Run == IF template = NULL THEN NULL ELSE template.spec

\* A step that keeps the object, its past and the template does not show.
LEMMA Unseen ==
  ASSUME UNCHANGED <<awf, used, template>>
  PROVE  UNCHANGED R!vars
BY DEF R!vars, View

\* An object that is there shows, and is not NULL.
LEMMA ShownFacts ==
  ASSUME awf # NULL, awf \in Objects
  PROVE  /\ Shown = [spec |-> awf.spec, gen |-> awf.gen, deleting |-> awf.deleting,
                     ready |-> awf.status.ready, observed |-> awf.status.gen]
         /\ Shown.spec = awf.spec /\ Shown.gen = awf.gen /\ Shown.deleting = awf.deleting
         /\ Shown.ready = awf.status.ready /\ Shown.observed = awf.status.gen
         /\ Shown # NULL
<1>1. Shown = [spec |-> awf.spec, gen |-> awf.gen, deleting |-> awf.deleting,
               ready |-> awf.status.ready, observed |-> awf.status.gen]
  BY DEF Shown, View
<1>2. awf.status.ready \in BOOLEAN /\ awf.status.gen \in 0..MaxGen
  BY DEF Objects, Status
<1>3. Shown \in Views
  BY <1>1, <1>2 DEF Views, Objects
<1> QED BY <1>1, <1>3, AbsentAssumption

\* The instance's variables under their names here.
LEMMA RolloutNames ==
  /\ R!vars = <<Shown, used, Run>>
  /\ R!Next <=> R!Edit \/ R!Delete \/ R!Mark \/ R!Apply \/ R!Claim \/ R!Disturb
BY DEF R!vars, R!Next, Shown, Run

\* Every step of the controller and of its surroundings is a step of the promise.
LEMMA WorkflowRolloutStep ==
  ASSUME TypeOK, TypeOK', Pinned, Versions, Marked, Rolled, [Next]_vars
  PROVE  [R!Next]_(R!vars)
<1> USE DEF Busy
<1>o. awf # NULL => awf \in Objects
  BY DEF TypeOK
<1>n. awf' # NULL => awf' \in Objects
  BY DEF TypeOK
<1>s. awf # NULL =>
        /\ Shown = [spec |-> awf.spec, gen |-> awf.gen, deleting |-> awf.deleting,
                    ready |-> awf.status.ready, observed |-> awf.status.gen]
        /\ Shown.spec = awf.spec /\ Shown.gen = awf.gen /\ Shown.deleting = awf.deleting
        /\ Shown.ready = awf.status.ready /\ Shown.observed = awf.status.gen
        /\ Shown # NULL
  BY <1>o, ShownFacts
<1>p. awf' # NULL =>
        Shown' = [spec |-> awf'.spec, gen |-> awf'.gen, deleting |-> awf'.deleting,
                  ready |-> awf'.status.ready, observed |-> awf'.status.gen]
  BY DEF Shown, View
<1>z. awf' = NULL => Shown' = NULL
  BY DEF Shown
<1>u. ASSUME UNCHANGED <<awf, used, template>> PROVE [R!Next]_(R!vars)
  BY <1>u, Unseen
<1>h. ASSUME UNCHANGED <<Shown, used, template>> PROVE [R!Next]_(R!vars)
  BY <1>h, RolloutNames DEF R!vars, Shown
<1>d. ASSUME UNCHANGED <<awf, used>>, Run' = NULL PROVE [R!Next]_(R!vars)
  BY <1>d DEF R!Next, R!Disturb, Run, View
<1>1. CASE Aside
  <2>1. UNCHANGED <<awf, used>>
    BY <1>1, AsideFacts
  <2>2. CASE Drift \/ CollectTemplate
    <3>1. Run' = NULL
      BY <2>2 DEF Run, Drift, CollectTemplate, TypeOK, Templates
    <3> QED BY <1>d, <2>1, <3>1
  <2>3. CASE ReconcileGone \/ Skip \/ ObserveTemplate \/ TimerFires \/ UNCHANGED vars
    BY <1>u, <2>3 DEF ReconcileGone, Skip, ObserveTemplate, TimerFires, vars
  <2> QED BY <1>1, <2>2, <2>3 DEF Aside
<1>2. CASE Drops \/ Begin \/ Refetch \/ ObserveWorkflow \/ Restart
  BY <1>u, <1>2, DropFacts DEF Begin, Refetch, ObserveWorkflow, Restart
<1>3. CASE Finalize
  <2>1. UNCHANGED used /\ (template' = NULL \/ template' = template)
    BY <1>3, FinalizeFacts
  <2>2. CASE awf' = awf
    <3>1. template' = NULL => Run' = NULL
      BY DEF Run
    <3> QED BY <1>u, <1>d, <2>1, <2>2, <3>1
  <2>3. CASE awf' # awf
    <3>1. awf' = NULL /\ awf # NULL /\ awf.deleting
      BY <1>3, <2>3 DEF Finalize
    <3>2. Run' \in {Run, NULL}
      BY <2>1 DEF Run
    <3>3. Shown' = NULL /\ Shown # NULL /\ Shown.deleting
      BY <3>1, <1>s, <1>z
    <3> QED BY <2>1, <3>2, <3>3 DEF R!Next, R!Delete, Shown, Run
  <2> QED BY <2>2, <2>3
<1>4. CASE AddFinalizer
  <2>1. UNCHANGED <<used, template>>
    BY <1>4 DEF AddFinalizer
  <2>2. Shown' = Shown
    BY <1>4, AddFinalizerFacts DEF Shown, View
  <2> QED BY <1>h, <2>1, <2>2
<1>6. CASE Mark
  <2>1. awf # NULL /\ UNCHANGED <<used, template>>
    BY <1>6 DEF Mark, TypeOK
  <2>2. awf' # NULL
    BY <1>6, MarkFacts, AbsentAssumption
  <2>3. Shown' = [Shown EXCEPT !.observed = Shown.gen, !.ready = FALSE]
    <3>1. awf'.status.ready = FALSE
      BY <1>6, MarkFacts DEF Objects, Status
    <3>2. Shown' = [spec |-> awf.spec, gen |-> awf.gen, deleting |-> awf.deleting,
                    ready |-> FALSE, observed |-> awf.gen]
      BY <1>6, <1>p, <2>2, <3>1, MarkFacts
    <3>3. PICK v : v = [Shown EXCEPT !.observed = Shown.gen]
      OBVIOUS
    <3>4. v = [spec |-> awf.spec, gen |-> awf.gen, deleting |-> awf.deleting,
               ready |-> awf.status.ready, observed |-> awf.gen]
      BY <1>s, <2>1, <3>3
    <3>5. ASSUME NEW f
          PROVE  [v EXCEPT !.ready = f] = [spec |-> awf.spec, gen |-> awf.gen,
                    deleting |-> awf.deleting, ready |-> f, observed |-> awf.gen]
      BY <3>4
    <3>6. [v EXCEPT !.ready = FALSE] = Shown'
      BY <3>2, <3>5, Zenon
    <3> QED BY <3>3, <3>6
  <2> QED BY <1>s, <2>1, <2>3 DEF R!Next, R!Mark, Shown
<1>8. CASE Outcome
  <2>1. work.pc = "apply" /\ awf # NULL /\ UNCHANGED <<awf, used>>
    BY <1>8, OutcomeFacts, Types
  <2>2. CASE CompileFails \/ ApplyFails
    BY <1>u, <2>1, <2>2 DEF CompileFails, ApplyFails
  <2>3. CASE Apply
    <3>1. template' # NULL /\ template'.spec = work.obj.spec /\ work.obj.spec \in Specs
      <4>1. template' = [spec |-> work.obj.spec, owned |-> template = NULL \/ template.owned]
        BY <2>3 DEF Apply
      <4>2. work.obj \in Objects
        BY <2>1, Types
      <4>3. template' \in Templates
        BY <4>1, <4>2 DEF Templates, Objects, TypeOK
      <4> QED BY <2>3, <4>1, <4>3, AbsentAssumption DEF Apply
    <3>2. Run' = work.obj.spec /\ work.obj.spec \in Specs \cap used
      BY <2>1, <3>1 DEF Run, Rolled
    <3>3. Shown # NULL /\ ~Shown.ready /\ Shown' = Shown
      BY <2>1, <1>s DEF Marked, Shown, View
    <3>4. Shown.observed = Shown.gen => work.obj.spec = Shown.spec
      BY <2>1, <1>s DEF Rolled
    <3> QED BY <2>1, <3>2, <3>3, <3>4 DEF R!Next, R!Apply, Shown, Run
  <2> QED BY <1>8, <2>2, <2>3 DEF Outcome
<1>9. CASE StatusWrite
  <2>1. work.pc = "status" /\ awf # NULL /\ UNCHANGED <<used, template>>
    BY <1>9, StatusWriteFacts, Types DEF StatusWrite
  <2>2. awf' # NULL
    BY <1>9, StatusWriteFacts, AbsentAssumption
  <2>3. ~Shown.ready /\ work.desired.gen = Shown.observed
    BY <2>1, <1>s DEF Marked, Rolled
  <2>4. Shown' = [Shown EXCEPT !.ready = work.desired.ready]
    BY <1>9, <1>s, <1>p, <2>1, <2>2, <2>3, StatusWriteFacts
  <2>5. CASE work.failed
    <3>1. work.desired.ready = FALSE
      <4>1. work.desired \in Status /\ ~work.desired.ready
        BY <2>1, <2>5, Types DEF Marked
      <4> QED BY <4>1 DEF Status
    <3>2. awf.status.ready = FALSE
      BY <2>1, <1>o DEF Marked, Objects, Status
    <3>3. Shown' = Shown
      BY <2>1, <2>4, <3>1, <3>2, <1>s
    <3> QED BY <1>h, <2>1, <3>3
  <2>6. CASE ~work.failed
    <3>1. work.desired.ready = TRUE
      <4>1. work.desired \in Status /\ work.desired.ready
        BY <2>1, <2>6, Types DEF Marked, TypeOK
      <4> QED BY <4>1 DEF Status
    <3>2. Shown.observed = Shown.gen => Run \in {Shown.spec, NULL}
      BY <2>1, <2>3, <2>6, <1>s DEF Rolled, OwnOrForeign, Run
    <3>3. Shown # NULL /\ Shown' = [Shown EXCEPT !.ready = TRUE]
      BY <2>1, <2>4, <3>1, <1>s
    <3> QED BY <2>1, <2>3, <3>2, <3>3 DEF R!Next, R!Claim, Shown, Run
  <2> QED BY <2>5, <2>6
<1>12. ASSUME NEW s \in All, EditSpec(s) PROVE [R!Next]_(R!vars)
  <2>1. /\ awf # NULL /\ ~awf.deleting /\ s # awf.spec
        /\ used' = used \cup {s} /\ UNCHANGED template
    BY <1>12, EditFacts DEF EditSpec
  <2>2. awf' # NULL
    BY <1>12, EditFacts, AbsentAssumption
  <2>3. Shown' = [Shown EXCEPT !.spec = s, !.gen = Shown.gen + 1]
    <3>1. Shown' = [spec |-> s, gen |-> awf.gen + 1, deleting |-> awf.deleting,
                    ready |-> awf.status.ready, observed |-> awf.status.gen]
      BY <1>12, <1>p, <2>2, EditFacts
    <3>2. PICK v : v = [Shown EXCEPT !.spec = s]
      OBVIOUS
    <3>3. v = [spec |-> s, gen |-> awf.gen, deleting |-> awf.deleting,
               ready |-> awf.status.ready, observed |-> awf.status.gen]
      BY <1>s, <2>1, <3>2
    <3>4. [v EXCEPT !.gen = Shown.gen + 1] = Shown'
      BY <1>s, <2>1, <3>1, <3>3
    <3> QED BY <3>2, <3>4
  <2>4. s \in (Specs \cup BadSpecs) \ {Shown.spec} /\ Shown # NULL /\ ~Shown.deleting
    BY <2>1, <1>s DEF All
  <2> QED BY <2>1, <2>3, <2>4 DEF R!Next, R!Edit, Shown
<1>13. CASE DeleteWorkflow
  <2>1. awf # NULL /\ ~awf.deleting /\ UNCHANGED <<used, template>>
    BY <1>13, DeleteFacts DEF DeleteWorkflow
  <2>2. Shown # NULL /\ ~Shown.deleting
    BY <2>1, <1>s
  <2>3. Shown' = NULL \/ Shown' = [Shown EXCEPT !.deleting = TRUE]
    <3>1. CASE ~awf.finalizer
      BY <1>13, <3>1, <1>z, DeleteFacts
    <3>2. CASE awf.finalizer
      <4>1. awf' # NULL /\ awf'.deleting = TRUE
        BY <1>13, <3>2, DeleteFacts, AbsentAssumption DEF Objects
      <4> QED BY <1>13, <3>2, <4>1, <2>1, <1>s, <1>p, DeleteFacts
    <3> QED BY <3>1, <3>2
  <2> QED BY <2>1, <2>2, <2>3 DEF R!Next, R!Delete, Shown
<1> QED
  BY <1>1, <1>2, <1>3, <1>4, <1>6, <1>8, <1>9, <1>12, <1>13, StepCases

\* The invariant of the rollout holds throughout every behaviour.
LEMMA RolledInvariance == Spec => [](IndInv /\ Rolled /\ ReadyIsHonest)
<1>1. ASSUME Init PROVE Rolled /\ ReadyIsHonest
  BY <1>1, IdleType DEF Init, Rolled, Busy, ReadyIsHonest
<1>2. ASSUME IndInv, Rolled, ReadyIsHonest, [Next]_vars PROVE (Rolled /\ ReadyIsHonest)'
  BY <1>2, RolledStep, HonestStep DEF IndInv
<1> QED BY Invariance, <1>1, <1>2, PTL DEF Spec

\* The AgentWorkflow controller never loses the object it is reconciling; a status
\* that is ready for the current generation is about the template there is, unless
\* others changed that; and where the controller rests on a workflow whose template
\* nobody else touched and whose edits were not undone, the status is ready for the
\* current generation and the template is the one its spec compiles to: the skip on
\* hash and ready never skips too much, although status conflicts swap the object
\* under the reconcile.
THEOREM ReadyMeansApplied == Spec => []WorkflowInv
<1>1. IndInv /\ ReadyIsHonest => WorkflowInv
  BY DEF IndInv, WorkflowInv, RestsOnlyWhenApplied, AtRest, Undisturbed, Truthful, TemplateIs,
     QuietIsUpToDate, Busy, UpToDate
<1> QED BY RolledInvariance, <1>1, PTL

\* The AgentWorkflow controller implements WorkflowRollout: through stale reads,
\* status conflicts that swap the object under the reconcile, failures, restarts,
\* undone edits and foreign changes, a template is written only while the status is
\* not ready, from the spec of the generation the status observes when that is the
\* current one, and ready is claimed for that generation over that template.
THEOREM TemplateRolloutImplemented == Spec => TemplateRollout
<1>1. ASSUME Init PROVE R!Init
  <2>1. PICK s \in All :
          /\ awf = [gen |-> 1, spec |-> s, finalizer |-> FALSE, deleting |-> FALSE,
                    status |-> NoStatus]
          /\ used = {s} /\ template = NULL
    BY <1>1 DEF Init
  <2>2. awf # NULL
    <3>1. NoStatus \in Status /\ 1 \in 1..MaxGen
      BY WorkflowAssumption DEF NoStatus, Status
    <3>2. awf \in Objects
      BY <2>1, <3>1 DEF Objects
    <3> QED BY <3>2, AbsentAssumption
  <2>3. View = [spec |-> s, gen |-> 1, deleting |-> FALSE, ready |-> FALSE, observed |-> 0]
    BY <2>1 DEF View, NoStatus
  <2> QED BY <2>1, <2>2, <2>3 DEF R!Init, All
<1>2. ASSUME IndInv /\ Rolled, IndInv', [Next]_vars PROVE [R!Next]_(R!vars)
  BY <1>2, WorkflowRolloutStep DEF IndInv
<1> QED BY <1>1, <1>2, RolledInvariance, PTL DEF Spec, TemplateRollout, R!Spec

=============================================================================
