------------------------ MODULE AgentReconcileProofs ------------------------
(* TLAPS proofs about the Agent controller, for every value of its constants. *)
EXTENDS AgentReconcile, TLAPS

-----------------------------------------------------------------------------
(* Types of the values the worker builds. *)

\* Conditions are set in place: SetCondition yields a status.
LEMMA StatusTypes ==
  ASSUME NEW r \in Worker
  PROVE  /\ \A v \in {"true", "false"} : SpecValid(r, v) \in Status
         /\ \A v \in Verdicts : FailedCompile(r, v) \in Status
         /\ Reconciled(r) \in Status
         /\ [SpecValid(r, "true") EXCEPT !.hash = Hash(r.spec, r.seen)] \in Status
<1>1. \A v \in {"true", "false"} : SpecValid(r, v) \in Status
  BY DEF Worker, Status, SpecValid
<1>2. \A v \in Verdicts : FailedCompile(r, v) \in Status
  BY <1>1 DEF Status, FailedCompile
<1>3. Reconciled(r) \in Status
  BY DEF Worker, Status, Reconciled
<1>4. Hash(r.spec, r.seen) \in Hashes
  BY DEF Worker, Hashes
<1>5. [SpecValid(r, "true") EXCEPT !.hash = Hash(r.spec, r.seen)] \in Status
  BY <1>1, <1>4 DEF Status
<1> QED BY <1>1, <1>2, <1>3, <1>5

\* A reconcile starts with a well-formed worker state.
LEMMA LoadedType == \A a \in AgentType : Loaded(a) \in Worker
BY BoundsAssumption DEF AgentType, Loaded, Worker, Unseen, Seen

\* CompileRead and CompileStops look at a reference of the spec.
LEMMA ReadInRange ==
  ASSUME NEW r \in Worker, r.next <= Len(r.spec.refs)
  PROVE  r.spec.refs[r.next] \in Deps
<1>1. r.spec.refs \in Seq(Deps) /\ r.next \in Nat \ {0}
  BY SpecsAssumption DEF Worker
<1>2. r.next \in 1..Len(r.spec.refs)
  BY <1>1
<1> QED BY <1>1, <1>2

\* Every verdict ends a reconcile in one of three ways.
LEMMA ResultType == \A v \in Verdicts : Result(v) \in {"done", "dependency", "error"}
BY DEF Verdicts, Result

\* What the worker writes is an owned object's content.
LEMMA DesiredType ==
  ASSUME NEW r \in Worker, NEW k \in Owned
  PROVE  Desired(k, r) \in Payload
<1>1. Template(r.spec, r.seen, r.secret) \in Templates
  BY DEF Worker, Templates
<1>2. [hash |-> Hash(r.spec, r.seen), card |-> r.spec.card]
        \in [hash : Hashes, card : {s.card : s \in Specs}]
  BY DEF Worker, Hashes
<1> QED BY <1>1, <1>2 DEF Desired, Payload

-----------------------------------------------------------------------------
(* Type correctness. *)

\* The initial states are well formed.
LEMMA InitType == Init => TypeOK
<1> SUFFICES ASSUME Init PROVE TypeOK
  OBVIOUS
<1>1. PICK s \in Specs, f \in [Deps -> Contents] :
        /\ agent = [life |-> "live", fin |-> FALSE, spec |-> s, gen |-> 1, st |-> NoStatus]
        /\ deps = f
        /\ obj = [k \in Owned |-> NULL]
        /\ avail = FALSE
        /\ secret \in 0..MaxSecret
        /\ cAgent = agent /\ cFresh = TRUE
        /\ cDeps = deps
        /\ ofresh = [k \in Owned |-> TRUE]
        /\ notify = {}
        /\ dirty = TRUE /\ delayed = FALSE
        /\ pc = "idle" /\ w = Loaded(agent) /\ wFresh = TRUE
        /\ env \in Budgets
  BY DEF Init
<1>2. NoStatus \in Status
  BY BoundsAssumption DEF NoStatus, Status
<1>3. agent \in AgentType
  BY <1>1, <1>2, BoundsAssumption DEF AgentType
<1>4. w \in Worker
  BY <1>1, <1>3, LoadedType
<1> QED
  BY <1>1, <1>3, <1>4, BoundsAssumption DEF TypeOK, Payload, Steps

\* Every step keeps the state well formed: one step per action.
LEMMA TypeStep ==
  ASSUME TypeOK, [Next]_vars
  PROVE  TypeOK'
<1> USE DEF TypeOK
<1>w. /\ w \in Worker
      /\ \A v \in Verdicts : FailedCompile(w, v) \in Status
      /\ Reconciled(w) \in Status
      /\ [SpecValid(w, "true") EXCEPT !.hash = Hash(w.spec, w.seen)] \in Status
  BY StatusTypes
<1>1. CASE ReconcileGone
  BY <1>1 DEF ReconcileGone, server, cache, worker
<1>2. CASE RemoveFinalizer
  BY <1>2 DEF RemoveFinalizer, AgentType
<1>3. CASE AddFinalizer
  BY <1>3 DEF AddFinalizer, AgentType
<1>4. CASE StartReconcile
  BY <1>4, LoadedType DEF StartReconcile, server, cache, Steps
<1>5. CASE SpecRefused
  <2>1. w' \in Worker
    BY <1>5, <1>w DEF SpecRefused, Worker, Verdicts
  <2> QED BY <1>5, <2>1 DEF SpecRefused, server, cache, queue, Steps
<1>6. CASE CompileRead
  <2> DEFINE d == w.spec.refs[w.next]
  <2>1. d \in Deps
    BY <1>6, <1>w, ReadInRange DEF CompileRead
  <2>2. w' = [w EXCEPT !.seen = [w.seen EXCEPT ![d] = cDeps[d]], !.next = w.next + 1]
    BY <1>6, <1>w DEF CompileRead, Worker
  <2>3. [w.seen EXCEPT ![d] = cDeps[d]] \in Seen
    BY <2>1, <1>w DEF Worker, Seen
  <2> HIDE DEF d
  <2>4. w.next + 1 \in Nat \ {0}
    BY <1>w DEF Worker
  <2>5. w' \in Worker
    BY <1>w, <2>2, <2>3, <2>4 DEF Worker
  <2> QED BY <1>6, <2>5 DEF CompileRead, server, cache, queue
<1>7. CASE CompileStops
  <2> DEFINE d == w.spec.refs[w.next]
  <2>1. d \in Deps
    BY <1>7, <1>w, ReadInRange DEF CompileStops
  <2>2. cDeps[d].verdict \in Verdicts
    BY <2>1, ContentsAssumption
  <2>3. w' = [w EXCEPT !.seen = [w.seen EXCEPT ![d] = cDeps[d]],
                       !.st = FailedCompile(w, cDeps[d].verdict),
                       !.result = Result(cDeps[d].verdict)]
    BY <1>7, <1>w DEF CompileStops, Worker
  <2>4. [w.seen EXCEPT ![d] = cDeps[d]] \in Seen
    BY <2>1, <1>w DEF Worker, Seen
  <2> HIDE DEF d
  <2>5. w' \in Worker
    BY <1>w, <2>2, <2>3, <2>4, ResultType DEF Worker
  <2> QED BY <1>7, <2>5 DEF CompileStops, server, cache, queue, Steps
<1>8. CASE CompileInvalid
  <2>1. w' \in Worker
    BY <1>8, <1>w DEF CompileInvalid, Worker, Verdicts
  <2> QED BY <1>8, <2>1 DEF CompileInvalid, server, cache, queue, Steps
<1>9. CASE CompileOk
  <2>1. w' \in Worker
    BY <1>9, <1>w DEF CompileOk, Worker
  <2> QED BY <1>9, <2>1 DEF CompileOk, server, cache, queue, Steps, Owned
<1>10. CASE SecretsState
  <2>1. ASSUME NEW v \in {"true", "false"} PROVE [w.st EXCEPT !.secrets = v] \in Status
    BY <1>w DEF Worker, Status
  <2>2. PICK v \in {"true", "false"} :
          w' = [w EXCEPT !.secret = secret, !.st = [w.st EXCEPT !.secrets = v]]
    BY <1>10, <1>w DEF SecretsState, Worker
  <2>3. w' \in Worker
    BY <1>w, <2>1, <2>2 DEF Worker
  <2> QED BY <1>10, <2>3 DEF SecretsState, server, cache, queue, Steps, Owned
<1>11. ASSUME NEW k \in Owned, EnsureOk(k) PROVE TypeOK'
  <2>0. ASSUME NEW b \in BOOLEAN, NEW st \in Status
        PROVE  [w EXCEPT !.avail = b] \in Worker /\ [w EXCEPT !.st = st] \in Worker
    BY <1>w DEF Worker
  <2>1. w' \in Worker
    BY <1>11, <1>w, <2>0 DEF EnsureOk
  <2>2. Desired(k, w) \in Payload
    BY <1>w, DesiredType
  <2>3. pc' \in Steps
    BY <1>11 DEF EnsureOk, NextStep, Steps, Owned
  <2> QED BY <1>11, <2>1, <2>2, <2>3 DEF EnsureOk, queue
<1>12. ASSUME NEW k \in Owned, EnsureFailed(k) PROVE w' \in Worker /\ pc' \in Steps
  BY <1>12, <1>w DEF EnsureFailed, Worker, Status, Steps
<1>13. ASSUME NEW k \in Owned, EnsureConflict(k) PROVE TypeOK'
  BY <1>13, <1>12 DEF EnsureConflict, EnsureFailed, server, cache, queue
<1>32. CASE BuildRefused
  <2>1. EnsureFailed("deployment") /\ UNCHANGED env
    BY <1>32 DEF BuildRefused
  <2>2. w' \in Worker /\ pc' \in Steps
    BY <2>1, <1>12 DEF Owned
  <2> QED BY <2>1, <2>2 DEF EnsureFailed, server, cache, queue
<1>14. CASE StatusWrite
  BY <1>14, <1>w DEF StatusWrite, AgentType, Worker, Steps
<1>15. CASE StatusRetry
  <2>1. w' \in Worker
    BY <1>15, <1>w DEF StatusRetry, Worker
  <2> QED BY <1>15, <2>1 DEF StatusRetry, server, cache, queue
<1>16. CASE StatusGiveUp
  BY <1>16 DEF StatusGiveUp, StatusAbandoned, server, cache, Steps
<1>17. CASE ObserveAgent
  BY <1>17 DEF ObserveAgent, server, worker
<1>18. ASSUME NEW d \in Deps, ObserveDep(d) \/ FindAgents(d) PROVE TypeOK'
  <2>1. CASE ObserveDep(d)
    <3>1. notify' \subseteq Deps
      BY <2>1 DEF ObserveDep
    <3> QED BY <2>1, <3>1 DEF ObserveDep, server, worker, queue
  <2>2. CASE FindAgents(d)
    BY <2>2 DEF FindAgents, server, worker
  <2> QED BY <1>18, <2>1, <2>2
<1>19. ASSUME NEW k \in Owned, ObserveOwned(k) PROVE TypeOK'
  BY <1>19 DEF ObserveOwned, server, worker
<1>20. CASE RequeueFires
  BY <1>20 DEF RequeueFires, server, cache, worker
<1>21. ASSUME NEW x \in Disturbances, Spend(x) PROVE env' \in [Disturbances -> Nat]
  BY <1>21 DEF Spend
<1>22. ASSUME NEW s \in Specs, EditSpec(s) PROVE TypeOK'
  <2>1. agent.gen + 1 \in 0..MaxGen
    BY <1>22, BoundsAssumption DEF EditSpec, AgentType
  <2>2. agent' \in AgentType
    BY <1>22, <2>1 DEF EditSpec, AgentType
  <2> QED BY <1>22, <1>21, <2>2 DEF EditSpec, queue, Disturbances
<1>23. CASE DeleteAgent
  BY <1>23, <1>21 DEF DeleteAgent, AgentType, queue, Disturbances
<1>24. ASSUME NEW d \in Deps, NEW c \in ContentsOf(d), ChangeDep(d, c) PROVE TypeOK'
  <2>1. c \in Contents
    BY DEF ContentsOf
  <2>2. env' \in [Disturbances -> Nat]
    BY <1>24, <1>21 DEF ChangeDep, Disturbances
  <2> QED BY <1>24, <2>1, <2>2 DEF ChangeDep, cache, queue, worker
<1>25. CASE RotateSecret
  BY <1>25, <1>21, BoundsAssumption DEF RotateSecret, cache, queue, worker, Disturbances
<1>26. ASSUME NEW k \in Owned, NEW v \in {NULL, Drifted}, Drift(k, v) PROVE TypeOK'
  BY <1>26, <1>21 DEF Drift, queue, worker, Disturbances, Payload
<1>27. CASE Availability
  BY <1>27, <1>21 DEF Availability, queue, worker, Disturbances
<1>28. ASSUME NEW k \in Owned, CollectOwned(k) PROVE TypeOK'
  BY <1>28 DEF CollectOwned, queue, worker, Payload
<1>29. CASE ApiFault
  <2>1. env' \in [Disturbances -> Nat]
    BY <1>29, <1>21 DEF ApiFault, Disturbances
  <2>2. ASSUME NEW k \in Owned, EnsureFailed(k) PROVE TypeOK'
    BY <2>1, <2>2, <1>12 DEF EnsureFailed, server, cache, queue
  <2>3. CASE StatusAbandoned
    BY <2>1, <2>3 DEF StatusAbandoned, server, cache, Steps
  <2>4. CASE FinalizerFailed
    BY <2>1, <2>4 DEF FinalizerFailed, server, cache, worker
  <2> QED BY <1>29, <2>2, <2>3, <2>4 DEF ApiFault
<1>30. CASE Restart
  BY <1>30, <1>21 DEF Restart, server, Steps, Disturbances
<1>31. CASE UNCHANGED vars
  BY <1>31 DEF vars, server, cache, queue, worker
<1> QED
  BY <1>1, <1>2, <1>3, <1>4, <1>5, <1>6, <1>7, <1>8, <1>9, <1>10, <1>11, <1>13,
     <1>14, <1>15, <1>16, <1>17, <1>18, <1>19, <1>20, <1>22, <1>23, <1>24,
     <1>25, <1>26, <1>27, <1>28, <1>29, <1>30, <1>31, <1>32
  DEF Next, Reconcile, Environment

\* Every reachable state is well formed: the worker's copies, the cache and the
\* API server's objects keep their shapes through every step and failure.
THEOREM TypeCorrect == Spec => []TypeOK
BY InitType, TypeStep, PTL DEF Spec


-----------------------------------------------------------------------------
(* What the steps have in common. *)

\* The steps of a reconcile under way that keep the worker busy.
Busy(k) ==
  \/ SpecRefused \/ CompileRead \/ CompileStops \/ CompileInvalid \/ CompileOk
  \/ SecretsState \/ EnsureOk(k) \/ EnsureFailed(k) \/ StatusRetry

\* They never forget which Agent they work for, and only the last owned object
\* turns the loaded generation into an observed one.
LEMMA BusyKeeps ==
  ASSUME TypeOK, NEW k \in Owned, Busy(k)
  PROVE  /\ w'.spec = w.spec /\ w'.gen = w.gen
         /\ w'.st.obs = w.st.obs \/ (w'.st.obs = w.gen /\ pc = "published")
         /\ pc # "idle" /\ pc' # "idle"
         /\ UNCHANGED <<agent, cAgent, cFresh, queue>>
<1> USE DEF TypeOK
<1>w. w \in Worker
  OBVIOUS
<1>1. CASE SpecRefused
  BY <1>w, <1>1 DEF SpecRefused, FailedCompile, SpecValid, Worker, Status, server, cache
<1>2. CASE CompileRead
  BY <1>w, <1>2 DEF CompileRead, Worker, server, cache
<1>3. CASE CompileStops
  BY <1>w, <1>3 DEF CompileStops, FailedCompile, SpecValid, Worker, Status, server, cache
<1>4. CASE CompileInvalid
  BY <1>w, <1>4 DEF CompileInvalid, FailedCompile, SpecValid, Worker, Status, server, cache
<1>5. CASE CompileOk
  BY <1>w, <1>5 DEF CompileOk, SpecValid, Worker, Status, server, cache
<1>6. CASE SecretsState
  BY <1>w, <1>6 DEF SecretsState, Worker, Status, server, cache
<1>7. CASE EnsureOk(k)
  BY <1>w, <1>7 DEF EnsureOk, NextStep, Owned, Reconciled, Worker, Status
<1>8. CASE EnsureFailed(k)
  BY <1>w, <1>8 DEF EnsureFailed, Worker, Status, server, cache, Owned
<1>9. CASE StatusRetry
  BY <1>w, <1>9 DEF StatusRetry, Worker, server, cache
<1> QED BY <1>1, <1>2, <1>3, <1>4, <1>5, <1>6, <1>7, <1>8, <1>9 DEF Busy

\* The steps that touch neither the Agent, nor its copies, nor the worker.
Aside ==
  \/ ReconcileGone \/ FinalizerFailed \/ RequeueFires \/ RotateSecret \/ Availability
  \/ \E d \in Deps : ObserveDep(d) \/ FindAgents(d)
  \/ \E d \in Deps : \E c \in ContentsOf(d) : ChangeDep(d, c)
  \/ \E k \in Owned : ObserveOwned(k) \/ CollectOwned(k)
  \/ \E k \in Owned, v \in {NULL, Drifted} : Drift(k, v)
  \/ UNCHANGED vars

\* What informers, timers and the environment leave alone.
LEMMA AsideKeeps ==
  ASSUME Aside
  PROVE  UNCHANGED <<agent, cAgent, cFresh, worker>>
BY DEF Aside, ReconcileGone, FinalizerFailed, RequeueFires, RotateSecret, Availability,
       ObserveDep, FindAgents, ChangeDep, ObserveOwned, CollectOwned, Drift,
       vars, server, cache, worker

\* The rest, one by one.
LEMMA StepCases ==
  ASSUME [Next]_vars
  PROVE  \/ Aside
         \/ \E k \in Owned : Busy(k)
         \/ StatusWrite \/ StatusAbandoned
         \/ RemoveFinalizer \/ AddFinalizer \/ StartReconcile
         \/ ObserveAgent \/ DeleteAgent \/ Restart
         \/ \E s \in Specs : EditSpec(s)
BY DEF Next, Reconcile, Environment, Aside, Busy, EnsureConflict, BuildRefused, StatusGiveUp,
       ApiFault, Owned

-----------------------------------------------------------------------------
(* Copies of the Agent are never ahead of the API server. *)

\* The generations that are compared are numbers.
LEMMA GenerationsAreNumbers ==
  /\ \A st \in Status : st.obs \in Int
  /\ \A a \in AgentType : a.gen \in Int /\ a.st.obs \in Int
  /\ \A r \in Worker : r.gen \in Int /\ r.st.obs \in Int
<1>0. \A st \in Status : st.obs \in 0..MaxGen
  <2> TAKE st \in Status
  <2> QED BY DEF Status
<1>1. \A st \in Status : st.obs \in Int
  BY <1>0
<1>2. \A a \in AgentType : a.gen \in Int /\ a.st \in Status
  BY DEF AgentType
<1>3. \A r \in Worker : r.gen \in Int /\ r.st \in Status
  BY DEF Worker
<1> QED BY <1>1, <1>2, <1>3

\* No step lets a copy run ahead, or a status report what was not loaded.
LEMMA GenerationsStep ==
  ASSUME TypeOK, TypeOK', Generations, [Next]_vars
  PROVE  Generations'
<1>t. /\ agent \in AgentType /\ cAgent \in AgentType /\ w \in Worker
      /\ agent' \in AgentType /\ w' \in Worker
  BY DEF TypeOK
<1>i. /\ agent.gen \in Int /\ cAgent.gen \in Int /\ w.gen \in Int
      /\ agent.st.obs \in Int /\ cAgent.st.obs \in Int /\ w.st.obs \in Int
  BY <1>t, GenerationsAreNumbers
<1>1. CASE Aside
  BY <1>1, AsideKeeps DEF Generations, worker
<1>2. ASSUME NEW k \in Owned, Busy(k) PROVE Generations'
  BY <1>2, <1>i, BusyKeeps DEF Generations
<1>3. CASE StatusWrite
  <2>1. /\ agent'.spec = agent.spec /\ agent'.gen = agent.gen /\ agent'.st = w.st
        /\ UNCHANGED <<cAgent, w>>
    BY <1>3, <1>t DEF StatusWrite, AgentType
  <2>2. cFresh' => cFresh /\ agent.st = w.st
    BY <1>3 DEF StatusWrite
  <2>3. cFresh' => agent' = agent
    BY <1>3, <1>t, <2>2 DEF StatusWrite, AgentType
  <2> QED BY <2>1, <2>2, <2>3 DEF Generations
<1>4. CASE StatusAbandoned
  BY <1>4 DEF StatusAbandoned, Generations, server, cache
<1>5. CASE RemoveFinalizer \/ AddFinalizer \/ DeleteAgent
  <2>1. /\ agent'.spec = agent.spec /\ agent'.gen = agent.gen /\ agent'.st = agent.st
        /\ UNCHANGED <<cAgent, w>>
        /\ cFresh' => cFresh /\ agent' = agent
    BY <1>5, <1>t DEF RemoveFinalizer, AddFinalizer, DeleteAgent, AgentType
  <2> QED BY <2>1 DEF Generations
<1>6. CASE StartReconcile
  <2>1. /\ w'.spec = cAgent.spec /\ w'.gen = cAgent.gen /\ w'.st = cAgent.st
        /\ UNCHANGED <<agent, cAgent, cFresh>>
    BY <1>6 DEF StartReconcile, Loaded, server, cache
  <2> QED BY <2>1, <1>i DEF Generations
<1>7. CASE ObserveAgent \/ Restart
  BY <1>7, <1>i DEF ObserveAgent, Restart, Generations, server, worker
<1>8. ASSUME NEW s \in Specs, EditSpec(s) PROVE Generations'
  <2>1. /\ agent'.gen = agent.gen + 1 /\ agent'.st = agent.st /\ ~cFresh'
        /\ UNCHANGED <<cAgent, w>>
    BY <1>8, <1>t DEF EditSpec, AgentType
  <2> QED BY <2>1, <1>i DEF Generations
<1> QED BY <1>1, <1>2, <1>3, <1>4, <1>5, <1>6, <1>7, <1>8, StepCases

-----------------------------------------------------------------------------
(* The finalizer pins the Agent while a reconcile is under way. *)

\* No step drops the finalizer under a running reconcile.
LEMMA PinnedStep ==
  ASSUME TypeOK, Generations, Pinned, [Next]_vars
  PROVE  Pinned'
<1>t. agent \in AgentType /\ cAgent \in AgentType
  BY DEF TypeOK
<1>1. CASE Aside
  BY <1>1, AsideKeeps DEF Pinned, worker
<1>2. ASSUME NEW k \in Owned, Busy(k) PROVE Pinned'
  BY <1>2, BusyKeeps DEF Pinned
<1>3. CASE StatusWrite
  BY <1>3, <1>t DEF StatusWrite, Pinned, AgentType
<1>4. CASE StatusAbandoned
  BY <1>4 DEF StatusAbandoned, Pinned, server, cache
<1>5. CASE RemoveFinalizer
  BY <1>5, <1>t DEF RemoveFinalizer, Pinned, AgentType
<1>6. CASE AddFinalizer
  BY <1>6, <1>t DEF AddFinalizer, Pinned, Generations, AgentType
<1>7. CASE DeleteAgent
  BY <1>7, <1>t DEF DeleteAgent, Pinned, AgentType
<1>8. CASE StartReconcile
  BY <1>8 DEF StartReconcile, Pinned, server, cache
<1>9. CASE ObserveAgent \/ Restart
  BY <1>9 DEF ObserveAgent, Restart, Pinned, server, worker
<1>10. ASSUME NEW s \in Specs, EditSpec(s) PROVE Pinned'
  BY <1>10, <1>t DEF EditSpec, Pinned, AgentType
<1> QED BY <1>1, <1>2, <1>3, <1>4, <1>5, <1>6, <1>7, <1>8, <1>9, <1>10, StepCases

-----------------------------------------------------------------------------
(* What the worker has read. *)

\* Past the last reference, every reference has been read.
LEMMA AllRead ==
  ASSUME NEW r \in Worker, r.next > Len(r.spec.refs),
         \A i \in 1..Len(r.spec.refs) : i < r.next => r.seen[r.spec.refs[i]] # NULL
  PROVE  \A d \in Refs(r.spec) : r.seen[d] # NULL
<1>1. r.spec.refs \in Seq(Deps) /\ r.next \in Nat
  BY SpecsAssumption DEF Worker
<1>2. \A i \in 1..Len(r.spec.refs) : i < r.next
  BY <1>1
<1> QED BY <1>2 DEF Refs

\* What the worker concludes keeps following from what it read.
LEMMA BookkeepingStep ==
  ASSUME TypeOK, Bookkeeping, [Next]_vars
  PROVE  Bookkeeping'
<1>t. /\ w \in Worker /\ cAgent \in AgentType
      /\ cDeps \in [Deps -> Contents] /\ w.seen \in Seen
  BY DEF TypeOK, Worker
<1>1. CASE UNCHANGED <<pc, w>>
  BY <1>1 DEF Bookkeeping
<1>2. CASE StartReconcile
  <2>1. /\ w'.seen = Unseen /\ w'.next = 1 /\ w'.result = "done" /\ pc' = "compile"
        /\ w'.spec = cAgent.spec
    BY <1>2 DEF StartReconcile, Loaded
  <2>2. \A d \in Deps : w'.seen[d] = NULL
    BY <2>1 DEF Unseen
  <2>3. \A i \in 1..Len(w'.spec.refs) : ~(i < w'.next)
    BY <2>1, <1>t, SpecsAssumption DEF AgentType
  <2> QED BY <2>1, <2>2, <2>3 DEF Bookkeeping, Owned
<1>3. CASE SpecRefused
  BY <1>3, <1>t DEF SpecRefused, Bookkeeping, Worker, Owned
<1>4. CASE CompileRead
  <2> DEFINE d == w.spec.refs[w.next]
  <2>1. d \in Deps /\ w.next \in 1..Len(w.spec.refs)
    BY <1>4, <1>t, ReadInRange, SpecsAssumption DEF CompileRead, Worker
  <2>2. d \in Refs(w.spec)
    BY <2>1 DEF Refs
  <2>3. /\ w'.seen = [w.seen EXCEPT ![d] = cDeps[d]] /\ w'.next = w.next + 1
        /\ w'.spec = w.spec /\ w'.result = w.result
        /\ cDeps[d].verdict \in Resolvable /\ pc = "compile" /\ pc' = "compile"
    BY <1>4, <1>t DEF CompileRead, Worker
  <2>4. cDeps[d] # NULL
    BY <2>1, <1>t, ContentsAssumption
  <2>5. \A e \in Deps : w'.seen[e] = IF e = d THEN cDeps[d] ELSE w.seen[e]
    BY <2>3, <1>t, <2>1 DEF Seen
  <2>6. \A i \in 1..Len(w.spec.refs) : w.spec.refs[i] \in Deps
    BY <1>t, SpecsAssumption DEF Worker
  <2>7. \A i \in 1..Len(w.spec.refs) : i < w.next + 1 => i = w.next \/ i < w.next
    BY <1>t, <2>1
  <2> HIDE DEF d
  <2>8. \A i \in 1..Len(w.spec.refs) : i < w'.next => w'.seen[w.spec.refs[i]] # NULL
    BY <2>3, <2>4, <2>5, <2>6, <2>7 DEF Bookkeeping, d
  <2> QED BY <2>2, <2>3, <2>4, <2>5, <2>8 DEF Bookkeeping, Owned
<1>5. CASE CompileStops
  <2> DEFINE d == w.spec.refs[w.next]
  <2>1. d \in Deps /\ w.next \in 1..Len(w.spec.refs)
    BY <1>5, <1>t, ReadInRange, SpecsAssumption DEF CompileStops, Worker
  <2>2. d \in Refs(w.spec)
    BY <2>1 DEF Refs
  <2>3. /\ w'.seen = [w.seen EXCEPT ![d] = cDeps[d]] /\ w'.next = w.next
        /\ w'.spec = w.spec /\ pc' = "status"
    BY <1>5, <1>t DEF CompileStops, Worker
  <2>4. cDeps[d] # NULL
    BY <2>1, <1>t, ContentsAssumption
  <2>5. \A e \in Deps : w'.seen[e] = IF e = d THEN cDeps[d] ELSE w.seen[e]
    BY <2>3, <1>t, <2>1 DEF Seen
  <2>6. \A i \in 1..Len(w.spec.refs) : w.spec.refs[i] \in Deps
    BY <1>t, SpecsAssumption DEF Worker
  <2> HIDE DEF d
  <2> QED BY <2>2, <2>3, <2>4, <2>5, <2>6 DEF Bookkeeping, Owned
<1>6. CASE CompileInvalid
  BY <1>6, <1>t DEF CompileInvalid, Bookkeeping, Worker, Owned
<1>7. CASE CompileOk
  <2>1. /\ w'.spec = w.spec /\ w'.seen = w.seen /\ w'.next = w.next /\ w'.result = w.result
        /\ w'.st = [SpecValid(w, "true") EXCEPT !.hash = Hash(w.spec, w.seen)]
        /\ w.next > Len(w.spec.refs) /\ Compiles(w.spec, w.seen)
        /\ pc = "compile" /\ pc' = "configmap"
    BY <1>7, <1>t DEF CompileOk, Worker
  <2>2. w'.st.valid = "true" /\ w'.st.hash = Hash(w.spec, w.seen)
    BY <2>1, <1>t DEF SpecValid, Worker, Status
  <2>3. Resolved(w)
    BY <2>1, <1>t, AllRead DEF Bookkeeping, Resolved
  <2>4. Resolved(w')
    BY <2>1, <2>3 DEF Resolved
  <2> QED BY <2>1, <2>2, <2>4 DEF Bookkeeping
<1>8. CASE SecretsState
  <2>1. /\ w'.spec = w.spec /\ w'.seen = w.seen /\ w'.next = w.next /\ w'.result = w.result
        /\ w'.st.valid = w.st.valid /\ w'.st.hash = w.st.hash
        /\ pc = "secrets" /\ pc' = "deployment"
    BY <1>8, <1>t DEF SecretsState, Worker, Status
  <2> QED BY <2>1 DEF Bookkeeping, Resolved
<1>9. ASSUME NEW k \in Owned, EnsureOk(k) PROVE Bookkeeping'
  <2>1. /\ w'.spec = w.spec /\ w'.seen = w.seen /\ w'.next = w.next /\ w'.result = w.result
        /\ w'.st.valid = w.st.valid /\ w'.st.hash = w.st.hash
        /\ pc \in Owned /\ pc' # "compile"
    BY <1>9, <1>t DEF EnsureOk, Reconciled, NextStep, Worker, Status, Owned
  <2>2. pc' \in {"runtime", "published"} => Mounts(w.spec, w.seen)
    BY <1>9 DEF EnsureOk, NextStep, Owned, Bookkeeping
  <2> QED BY <2>1, <2>2 DEF Bookkeeping, Resolved, Mounts
<1>10. ASSUME NEW k \in Owned, EnsureFailed(k) PROVE Bookkeeping'
  BY <1>10, <1>t DEF EnsureFailed, Bookkeeping, Worker, Owned
<1>11. CASE StatusRetry
  BY <1>11, <1>t DEF StatusRetry, Bookkeeping, Worker, Owned
<1>12. CASE UNCHANGED w /\ pc' = "idle"
  BY <1>12 DEF Bookkeeping, Owned
<1>13. \/ UNCHANGED <<pc, w>> \/ (UNCHANGED w /\ pc' = "idle") \/ StartReconcile
       \/ \E k \in Owned : Busy(k)
  BY StepCases, AsideKeeps DEF StatusWrite, StatusAbandoned, RemoveFinalizer, AddFinalizer,
     ObserveAgent, DeleteAgent, Restart, EditSpec, worker
<1> QED BY <1>1, <1>2, <1>3, <1>4, <1>5, <1>6, <1>7, <1>8, <1>9, <1>10, <1>11,
           <1>12, <1>13 DEF Busy

-----------------------------------------------------------------------------
(* The Deployment and who reports it. *)

\* Owned objects change in three ways.
LEMMA OwnedStep ==
  ASSUME [Next]_vars
  PROVE  \/ UNCHANGED obj
         \/ \E k \in Owned : EnsureOk(k) \/ CollectOwned(k)
         \/ \E k \in Owned, v \in {NULL, Drifted} : Drift(k, v)
BY DEF Next, Reconcile, Environment, ReconcileGone, RemoveFinalizer, AddFinalizer,
     StartReconcile, SpecRefused, CompileRead, CompileStops, CompileInvalid, CompileOk,
     SecretsState, EnsureConflict, BuildRefused, EnsureFailed, StatusWrite, StatusRetry,
     StatusGiveUp, StatusAbandoned, ObserveAgent, ObserveDep, FindAgents, ObserveOwned, RequeueFires,
     EditSpec, DeleteAgent, ChangeDep, RotateSecret, Availability, ApiFault,
     FinalizerFailed, Restart, vars, server

\* Only EnsureOk gives the Deployment a content of the operator's.
LEMMA DeploymentStep ==
  ASSUME TypeOK, [Next]_vars
  PROVE  \/ obj'["deployment"] = obj["deployment"]
         \/ obj'["deployment"] \in {NULL, Drifted}
         \/ EnsureOk("deployment")
<1>t. obj \in [Owned -> Payload] /\ "deployment" \in Owned
  BY DEF TypeOK, Owned
<1>1. ASSUME NEW k \in Owned, EnsureOk(k), k # "deployment"
      PROVE  obj'["deployment"] = obj["deployment"]
  BY <1>1, <1>t DEF EnsureOk
<1>2. ASSUME NEW k \in Owned, NEW v \in {NULL, Drifted}, Drift(k, v)
      PROVE  obj'["deployment"] \in {obj["deployment"], NULL, Drifted}
  BY <1>2, <1>t DEF Drift
<1>3. ASSUME NEW k \in Owned, CollectOwned(k)
      PROVE  obj'["deployment"] \in {obj["deployment"], NULL}
  BY <1>3, <1>t DEF CollectOwned
<1> QED BY <1>1, <1>2, <1>3, OwnedStep

\* Whoever reports the current generation after a step reported it before, or
\* has just written the Deployment.
LEMMA ReportsStep ==
  ASSUME TypeOK, TypeOK', Generations, Reports', [Next]_vars
  PROVE  /\ agent'.spec = agent.spec
         /\ Reports \/ (EnsureOk("deployment") /\ w.gen = agent.gen)
<1>t. agent \in AgentType /\ cAgent \in AgentType /\ w \in Worker
  BY DEF TypeOK
<1>i. /\ agent.gen \in Int /\ cAgent.gen \in Int /\ w.gen \in Int
      /\ agent.st.obs \in Int /\ cAgent.st.obs \in Int /\ w.st.obs \in Int
  BY <1>t, GenerationsAreNumbers
<1> DEFINE Goal == /\ agent'.spec = agent.spec
                   /\ Reports \/ (EnsureOk("deployment") /\ w.gen = agent.gen)
<1>1. CASE Aside
  BY <1>1, AsideKeeps DEF Reports, worker
<1>2. ASSUME NEW k \in Owned, Busy(k) PROVE Goal
  <2>1. CASE pc' \in {"runtime", "published"} /\ pc \notin {"runtime", "published"}
    <3>1. EnsureOk("deployment")
      BY <1>2, <2>1 DEF Busy, SpecRefused, CompileRead, CompileStops, CompileInvalid,
         CompileOk, SecretsState, EnsureOk, EnsureFailed, StatusRetry, NextStep, Owned
    <3> QED BY <1>2, <3>1, BusyKeeps DEF Reports
  <2>2. CASE pc' \in {"runtime", "published"} => pc \in {"runtime", "published"}
    BY <1>2, <2>2, BusyKeeps DEF Reports
  <2> QED BY <2>1, <2>2
<1>3. CASE StatusWrite
  BY <1>3, <1>t DEF StatusWrite, Reports, AgentType
<1>4. CASE StatusAbandoned
  BY <1>4 DEF StatusAbandoned, Reports, server, cache
<1>5. CASE RemoveFinalizer \/ AddFinalizer \/ DeleteAgent
  BY <1>5, <1>t DEF RemoveFinalizer, AddFinalizer, DeleteAgent, AgentType, Reports
<1>6. CASE StartReconcile
  BY <1>6 DEF StartReconcile, Loaded, Reports, server, cache
<1>7. CASE ObserveAgent \/ Restart
  BY <1>7 DEF ObserveAgent, Restart, Reports, server, worker
<1>8. ASSUME NEW s \in Specs, EditSpec(s) PROVE Goal
  <2>1. agent'.gen = agent.gen + 1 /\ agent'.st = agent.st /\ UNCHANGED <<cAgent, w>>
    BY <1>8, <1>t DEF EditSpec, AgentType
  <2> QED BY <2>1, <1>i DEF Generations, Reports
<1> QED BY <1>1, <1>2, <1>3, <1>4, <1>5, <1>6, <1>7, <1>8, StepCases

\* A step that leads to a report leads to one the Deployment backs.
LEMMA CarriesStep ==
  ASSUME TypeOK, TypeOK', Generations, Reports => Carries(agent.spec), [Next]_vars, Reports'
  PROVE  Carries(agent.spec)'
<1>1. agent'.spec = agent.spec /\ (Reports \/ (EnsureOk("deployment") /\ w.gen = agent.gen))
  BY ReportsStep
<1>t. agent \in AgentType /\ cAgent \in AgentType /\ w \in Worker /\ obj \in [Owned -> Payload]
  BY DEF TypeOK
<1>i. /\ agent.gen \in Int /\ cAgent.gen \in Int /\ w.gen \in Int
      /\ agent.st.obs \in Int /\ cAgent.st.obs \in Int /\ w.st.obs \in Int
  BY <1>t, GenerationsAreNumbers
<1>2. CASE EnsureOk("deployment")
  <2>1. w.gen = agent.gen
    BY <1>1, <1>i DEF Reports, Generations
  <2>2. w.spec = agent.spec
    BY <2>1 DEF Generations
  <2>3. obj'["deployment"] = Template(w.spec, w.seen, w.secret)
    BY <1>2, <1>t DEF EnsureOk, Desired, Owned
  <2> QED BY <1>1, <2>2, <2>3 DEF Carries, Template, Hash
<1>3. CASE ~EnsureOk("deployment")
  BY <1>1, <1>3, DeploymentStep DEF Carries
<1> QED BY <1>2, <1>3

\* Only a reconcile whose compile went well writes the Deployment.
LEMMA WorkloadCompiledStep ==
  ASSUME TypeOK, Bookkeeping, WorkloadCompiled, [Next]_vars
  PROVE  WorkloadCompiled'
<1>1. CASE EnsureOk("deployment")
  <2>t. w \in Worker /\ w.spec \in Specs /\ w.seen \in Seen /\ w.secret \in 0..MaxSecret
        /\ obj \in [Owned -> Payload] /\ deps \in [Deps -> Contents]
    BY DEF TypeOK, Worker
  <2>1. Resolved(w) /\ \A d \in Deps \ Refs(w.spec) : w.seen[d] = NULL
    BY <1>1 DEF EnsureOk, Bookkeeping, Owned
  <2> DEFINE f == [d \in Deps |-> IF d \in Refs(w.spec) THEN w.seen[d] ELSE deps[d]]
  <2>2. f \in [Deps -> Contents]
    BY <2>1, <2>t DEF Resolved, Seen
  <2>3. Refs(w.spec) \subseteq Deps
    BY <2>t, SpecsAssumption DEF Refs
  <2>4. Compiles(w.spec, f) /\ Mounts(w.spec, f)
    <3>1. Mounts(w.spec, w.seen)
      BY <1>1 DEF EnsureOk
    <3> QED BY <2>1, <2>3, <3>1 DEF Resolved, Compiles, Mounts
  <2>5. Visible(w.spec, f) = w.seen
    BY <2>1, <2>t DEF Visible, Seen
  <2>6. obj'["deployment"] = Template(w.spec, w.seen, w.secret)
    BY <1>1, <2>t DEF EnsureOk, Desired, Owned
  <2> HIDE DEF f
  <2> QED BY <2>2, <2>4, <2>5, <2>6, <2>t DEF WorkloadCompiled
<1>2. CASE ~EnsureOk("deployment")
  BY <1>2, DeploymentStep DEF WorkloadCompiled
<1> QED BY <1>1, <1>2

-----------------------------------------------------------------------------
(* No wake-up is lost. *)


\* The steps of the worker keep it accountable.
LEMMA BusyTracks ==
  ASSUME TypeOK, Bookkeeping, Tracks, NEW k \in Owned, Busy(k)
  PROVE  Tracks'
<1>t. /\ w \in Worker /\ w.seen \in Seen /\ cDeps \in [Deps -> Contents]
      /\ ofresh \in [Owned -> BOOLEAN] /\ obj \in [Owned -> Payload]
  BY DEF TypeOK, Worker
<1>k. /\ w'.spec = w.spec /\ w'.gen = w.gen /\ UNCHANGED <<agent, cAgent>>
      /\ pc # "idle" /\ pc' # "idle"
  BY BusyKeeps
<1>b. cAgent'.fin /\ w'.spec = cAgent'.spec /\ w'.gen = cAgent'.gen
  BY <1>k DEF Tracks
<1>1. CASE SpecRefused
  <2>1. /\ pc' = "status" /\ w'.seen = w.seen /\ w.spec.verdict = "permanent"
        /\ w'.st = FailedCompile(w, "permanent") /\ UNCHANGED <<cDeps, notify>>
    BY <1>1, <1>t DEF SpecRefused, Worker, cache
  <2>2. w'.st.valid = "false" /\ w'.st.validGen = w.gen
    BY <2>1, <1>t DEF FailedCompile, SpecValid, Worker, Status
  <2> QED BY <2>1, <2>2, <1>b, <1>k DEF Tracks, Rejects
<1>2. CASE CompileRead
  <2> DEFINE d == w.spec.refs[w.next]
  <2>1. d \in Deps
    BY <1>2, <1>t, ReadInRange DEF CompileRead
  <2>2. /\ w'.seen = [w.seen EXCEPT ![d] = cDeps[d]] /\ pc' = "compile"
        /\ UNCHANGED <<cDeps, notify>>
    BY <1>2, <1>t DEF CompileRead, Worker, cache
  <2>3. \A e \in Deps : w'.seen[e] \in {w.seen[e], cDeps[e]}
    BY <2>1, <2>2, <1>t DEF Seen
  <2> HIDE DEF d
  <2> QED BY <2>2, <2>3, <1>b, <1>k DEF Tracks
<1>3. CASE CompileStops
  <2> DEFINE d == w.spec.refs[w.next]
             v == cDeps[d].verdict
  <2>1. d \in Deps /\ d \in Refs(w.spec) /\ v \in Verdicts /\ cDeps[d] # NULL
    <3>1. d \in Deps /\ w.next \in 1..Len(w.spec.refs)
      BY <1>3, <1>t, ReadInRange, SpecsAssumption DEF CompileStops, Worker
    <3> QED BY <3>1, <1>t, ContentsAssumption DEF Refs
  <2>2. /\ w'.seen = [w.seen EXCEPT ![d] = cDeps[d]] /\ pc' = "status"
        /\ w'.st = FailedCompile(w, v) /\ w'.result = Result(v)
        /\ v \notin Resolvable /\ UNCHANGED <<cDeps, notify>>
    BY <1>3, <1>t DEF CompileStops, Worker, cache
  <2>3. \A e \in Deps : w'.seen[e] \in {w.seen[e], cDeps[e]}
    BY <2>1, <2>2, <1>t DEF Seen
  <2>4. w'.seen[d] = cDeps[d]
    BY <2>1, <2>2, <1>t DEF Seen
  <2>5. w'.st.valid = "false" /\ w'.st.validGen = w.gen
    BY <2>2, <1>t DEF FailedCompile, SpecValid, Worker, Status
  <2> HIDE DEF d
  <2>6. CASE v = "permanent"
    BY <2>1, <2>2, <2>3, <2>4, <2>5, <2>6, <1>b, <1>k DEF Tracks, Rejects
  <2>7. CASE v # "permanent"
    <3>1. w'.result # "done"
      BY <2>1, <2>2, <2>7 DEF Verdicts, Resolvable, Result
    <3> QED BY <2>2, <2>3, <3>1, <1>b, <1>k DEF Tracks
  <2> QED BY <2>6, <2>7
<1>4. CASE CompileInvalid
  <2>1. /\ pc = "compile" /\ pc' = "status" /\ w'.seen = w.seen
        /\ w.next > Len(w.spec.refs) /\ ~Compiles(w.spec, w.seen)
        /\ w'.st = FailedCompile(w, "invalid") /\ UNCHANGED <<cDeps, notify>>
    BY <1>4, <1>t DEF CompileInvalid, Worker, cache
  <2>2. w'.st.valid = "false" /\ w'.st.validGen = w.gen
    BY <2>1, <1>t DEF FailedCompile, SpecValid, Worker, Status
  <2>3. \A d \in Refs(w.spec) : d \in Deps /\ w.seen[d] # NULL
    <3>1. \A d \in Refs(w.spec) : w.seen[d] # NULL
      BY <2>1, <1>t, AllRead DEF Bookkeeping
    <3>2. Refs(w.spec) \subseteq Deps
      BY <1>t, SpecsAssumption DEF Refs, Worker
    <3> QED BY <3>1, <3>2
  <2>4. \/ w.spec.verdict # "ok"
        \/ \E d \in Refs(w.spec) : w.seen[d] # NULL /\ w.seen[d].verdict = "invalid"
    BY <2>1, <2>3 DEF Compiles, Bookkeeping, Resolvable
  <2> QED BY <2>1, <2>2, <2>4, <1>b, <1>k DEF Tracks, Rejects
<1>5. CASE CompileOk
  <2>1. /\ pc' = "configmap" /\ w'.seen = w.seen /\ UNCHANGED <<cDeps, notify>>
    BY <1>5, <1>t DEF CompileOk, Worker, cache
  <2>2. Resolved(w')
    <3>1. w.next > Len(w.spec.refs) /\ Compiles(w.spec, w.seen)
      BY <1>5 DEF CompileOk
    <3>2. \A d \in Refs(w.spec) : w.seen[d] # NULL
      BY <3>1, <1>t, AllRead DEF Bookkeeping
    <3> QED BY <3>1, <3>2, <2>1, <1>k DEF Resolved
  <2> QED BY <2>1, <2>2, <1>b, <1>k DEF Tracks, GoodSoFar, Written
<1>6. CASE SecretsState
  <2>1. /\ pc = "secrets" /\ pc' = "deployment" /\ w'.seen = w.seen
        /\ UNCHANGED <<cDeps, notify, obj, ofresh>>
    BY <1>6, <1>t DEF SecretsState, Worker, cache, server
  <2>2. Desired("configmap", w') = Desired("configmap", w)
    BY <2>1, <1>k DEF Desired
  <2>3. GoodSoFar
    BY <2>1 DEF Tracks, Rejects
  <2>4. GoodSoFar'
    BY <2>1, <2>2, <2>3, <1>k DEF GoodSoFar, Resolved, Written
  <2> QED BY <2>1, <2>4, <1>b, <1>k DEF Tracks
<1>7. CASE EnsureOk(k)
  <2>1. /\ pc = k /\ pc' = NextStep(k) /\ w'.seen = w.seen /\ w'.secret = w.secret
        /\ UNCHANGED <<cDeps, notify>>
        /\ obj' = [obj EXCEPT ![k] = Desired(k, w)]
        /\ ofresh' = [ofresh EXCEPT ![k] = (obj[k] = Desired(k, w))]
    BY <1>7, <1>t DEF EnsureOk, Worker
  <2>2. \A j \in Owned : Desired(j, w') = Desired(j, w)
    BY <2>1, <1>k DEF Desired
  <2>3. GoodSoFar
    BY <2>1 DEF Tracks, Rejects, Owned
  <2>4. Written(pc') = Written(pc) \cup {k}
    BY <2>1 DEF Written, NextStep, Owned
  <2>5. \A j \in Written(pc') : ~ofresh'[j] \/ obj'[j] = Desired(j, w')
    <3>1. Written(pc) \subseteq Owned
      BY DEF Written, Owned
    <3> QED BY <2>1, <2>2, <2>3, <2>4, <3>1, <1>t DEF GoodSoFar
  <2>6. Resolved(w')
    BY <2>1, <2>3, <1>k DEF GoodSoFar, Resolved
  <2>7. pc' = "status" => /\ w'.st.obs = w'.gen /\ w'.st.url /\ Mounts(w'.spec, w'.seen)
                          /\ w'.st.valid = "true" /\ w'.st.hash = Hash(w'.spec, w'.seen)
    <3>1. CASE k = "published"
      <4>1. w' = [w EXCEPT !.st = Reconciled(w)]
        BY <1>7, <3>1 DEF EnsureOk
      <4>2. /\ w'.st.obs = w.gen /\ w'.st.url
            /\ w'.st.valid = w.st.valid /\ w'.st.hash = w.st.hash
        BY <4>1, <1>t DEF Reconciled, Worker, Status
      <4>3. /\ w.st.valid = "true" /\ w.st.hash = Hash(w.spec, w.seen)
            /\ Mounts(w.spec, w.seen)
        BY <2>1, <3>1 DEF Bookkeeping
      <4> QED BY <4>2, <4>3, <2>1, <1>k
    <3>2. CASE k # "published"
      BY <2>1, <3>2 DEF NextStep, Owned
    <3> QED BY <3>1, <3>2
  <2>8. GoodSoFar'
    BY <2>5, <2>6, <2>7, <1>k DEF GoodSoFar
  <2> QED BY <2>1, <2>8, <1>b, <1>k DEF Tracks
<1>8. CASE EnsureFailed(k)
  <2>1. /\ pc' = "status" /\ w'.result = "error" /\ w'.seen = w.seen
        /\ UNCHANGED <<cDeps, notify>>
    BY <1>8, <1>t DEF EnsureFailed, Worker, cache
  <2> QED BY <2>1, <1>b, <1>k DEF Tracks
<1>9. CASE StatusRetry
  <2>1. /\ pc = "status" /\ pc' = "status" /\ w'.seen = w.seen /\ w'.st = w.st
        /\ w'.result = w.result /\ w'.secret = w.secret
        /\ UNCHANGED <<cDeps, notify, obj, ofresh>>
    BY <1>9, <1>t DEF StatusRetry, Worker, cache, server
  <2>2. \A j \in Owned : Desired(j, w') = Desired(j, w)
    BY <2>1, <1>k DEF Desired
  <2>3. GoodSoFar => GoodSoFar'
    BY <2>1, <2>2, <1>k DEF GoodSoFar, Resolved, Written
  <2>4. Rejects => Rejects'
    BY <2>1, <1>k DEF Rejects
  <2> QED BY <2>1, <2>3, <2>4, <1>b, <1>k DEF Tracks
<1> QED BY <1>1, <1>2, <1>3, <1>4, <1>5, <1>6, <1>7, <1>8, <1>9 DEF Busy

\* The environment and the informers leave a tracked worker tracked, or wake it.
LEMMA AsideInStep ==
  ASSUME TypeOK, Bookkeeping, Tracks, ~Rearmed, Aside
  PROVE  InStep'
<1>t. /\ ofresh \in [Owned -> BOOLEAN] /\ obj \in [Owned -> Payload]
      /\ cDeps \in [Deps -> Contents] /\ deps \in [Deps -> Contents]
  BY DEF TypeOK
<1>k. UNCHANGED <<agent, cAgent, cFresh, pc, w>>
  BY AsideKeeps DEF worker
<1>a. \A d \in Deps \ Unwatched : d \in notify \/ w.seen[d] = NULL \/ w.seen[d] = cDeps[d]
  BY DEF Tracks
<1>d. \A k \in Owned : Desired(k, w') = Desired(k, w)
  BY <1>k DEF Desired
<1>s. Written(pc) \subseteq Owned
  BY DEF Written, Owned
<1>1. ASSUME \A d \in Deps \ Unwatched :
               d \in notify' \/ w.seen[d] = NULL \/ w.seen[d] = cDeps'[d],
             \A k \in Owned : ~ofresh'[k] \/ (ofresh[k] /\ obj'[k] = obj[k])
      PROVE  Tracks'
  <2>1. GoodSoFar => GoodSoFar'
    BY <1>1, <1>d, <1>k, <1>s DEF GoodSoFar, Resolved
  <2>2. Rejects => Rejects'
    BY <1>k DEF Rejects
  <2> QED BY <1>1, <1>k, <2>1, <2>2 DEF Tracks
<1>2. ASSUME NEW d \in Deps, ObserveDep(d) PROVE Tracks'
  BY <1>1, <1>2, <1>a, <1>t DEF ObserveDep, server
<1>3. ASSUME NEW d \in Deps, FindAgents(d) PROVE InStep'
  <2>1. CASE d \in Refs(cAgent.spec)
    BY <1>3, <2>1 DEF FindAgents, InStep, Rearmed
  <2>2. CASE d \notin Refs(cAgent.spec)
    <3>1. w.seen[d] = NULL
      BY <2>2 DEF Tracks, Bookkeeping
    <3> QED BY <1>1, <1>3, <1>a, <3>1 DEF FindAgents, server, InStep
  <2> QED BY <2>1, <2>2
<1>4. ASSUME NEW k \in Owned, ObserveOwned(k) PROVE InStep'
  BY <1>4 DEF ObserveOwned, InStep, Rearmed
<1>5. ASSUME NEW k \in Owned, CollectOwned(k) PROVE Tracks'
  BY <1>1, <1>5, <1>a, <1>t DEF CollectOwned
<1>6. ASSUME NEW k \in Owned, NEW v \in {NULL, Drifted}, Drift(k, v) PROVE Tracks'
  BY <1>1, <1>6, <1>a, <1>t DEF Drift
<1>7. CASE Availability
  <2>1. UNCHANGED <<notify, cDeps, obj>>
    BY <1>7 DEF Availability
  <2>2. \A k \in Owned : ofresh'[k] => ofresh[k]
    BY <1>7, <1>t DEF Availability
  <2> QED BY <1>1, <1>a, <2>1, <2>2 DEF InStep
<1>8. ASSUME NEW d \in Deps, NEW c \in ContentsOf(d), ChangeDep(d, c) PROVE Tracks'
  BY <1>1, <1>8, <1>a DEF ChangeDep, cache
<1>9. CASE RotateSecret \/ UNCHANGED vars
  <2>1. UNCHANGED <<notify, cDeps, obj, ofresh>>
    BY <1>9 DEF RotateSecret, vars, server, cache
  <2> QED BY <1>1, <1>a, <2>1 DEF InStep
<1>10. CASE ReconcileGone \/ FinalizerFailed \/ RequeueFires
  BY <1>10 DEF ReconcileGone, FinalizerFailed, RequeueFires, Rearmed, InStep
<1> QED BY <1>2, <1>3, <1>4, <1>5, <1>6, <1>7, <1>8, <1>9, <1>10 DEF Aside, InStep

\* A wake-up is only spent by a reconcile.
LEMMA RearmedStays ==
  ASSUME Rearmed, [Next]_vars
  PROVE  Rearmed' \/ StartReconcile
<1>1. CASE Aside
  BY <1>1 DEF Aside, ReconcileGone, FinalizerFailed, RequeueFires, RotateSecret,
     Availability, ObserveDep, FindAgents, ChangeDep, ObserveOwned, CollectOwned, Drift,
     vars, server, cache, queue, Rearmed
<1>2. ASSUME NEW k \in Owned, Busy(k) PROVE Rearmed'
  BY <1>2 DEF Busy, SpecRefused, CompileRead, CompileStops, CompileInvalid, CompileOk,
     SecretsState, EnsureOk, EnsureFailed, StatusRetry, cache, queue, Rearmed
<1>3. CASE StatusWrite
  BY <1>3 DEF StatusWrite, Rearmed
<1>4. CASE StatusAbandoned
  BY <1>4 DEF StatusAbandoned, Rearmed
<1>5. CASE RemoveFinalizer
  BY <1>5 DEF RemoveFinalizer, Rearmed
<1>6. CASE AddFinalizer \/ ObserveAgent \/ Restart
  BY <1>6 DEF AddFinalizer, ObserveAgent, Restart, Rearmed
<1>7. CASE DeleteAgent \/ \E s \in Specs : EditSpec(s)
  BY <1>7 DEF DeleteAgent, EditSpec, queue, Rearmed
<1> QED BY <1>1, <1>2, <1>3, <1>4, <1>5, <1>6, <1>7, StepCases

\* No step loses a wake-up.
LEMMA InStepStep ==
  ASSUME TypeOK, Bookkeeping, InStep, [Next]_vars
  PROVE  InStep'
<1>t. agent \in AgentType /\ cAgent \in AgentType /\ w \in Worker
  BY DEF TypeOK
<1>1. CASE StartReconcile
  <2>1. /\ w'.spec = cAgent.spec /\ w'.gen = cAgent.gen /\ w'.seen = Unseen
        /\ pc' = "compile" /\ cAgent.fin /\ UNCHANGED cAgent
    BY <1>1 DEF StartReconcile, Loaded, cache
  <2>2. \A d \in Deps : w'.seen[d] = NULL
    BY <2>1 DEF Unseen
  <2> QED BY <2>1, <2>2 DEF InStep, Tracks
<1>2. CASE Rearmed
  BY <1>1, <1>2, RearmedStays DEF InStep
<1>3. ASSUME Tracks, ~Rearmed PROVE InStep'
  <2>1. CASE Aside
    BY <1>3, <2>1, AsideInStep
  <2>2. ASSUME NEW k \in Owned, Busy(k) PROVE InStep'
    BY <1>3, <2>2, BusyTracks DEF InStep
  <2>3. CASE StatusWrite
    <3>0. /\ agent'.st = w.st /\ pc = "status" /\ pc' = "idle"
          /\ delayed' = (delayed \/ w.result # "done")
          /\ UNCHANGED <<cAgent, w, cDeps, notify, obj, ofresh>>
      BY <2>3, <1>t DEF StatusWrite, AgentType
    <3>1. CASE w.result # "done"
      BY <3>0, <3>1 DEF InStep, Rearmed
    <3>2. CASE w.result = "done"
      <4>1. GoodSoFar => GoodSoFar'
        BY <3>0 DEF GoodSoFar, Resolved, Written, Desired
      <4>2. Rejects => Rejects'
        BY <3>0 DEF Rejects
      <4> QED BY <1>3, <3>0, <3>2, <4>1, <4>2 DEF Tracks, InStep
    <3> QED BY <3>1, <3>2
  <2>4. CASE StatusAbandoned \/ AddFinalizer \/ ObserveAgent \/ Restart
    BY <2>4 DEF StatusAbandoned, AddFinalizer, ObserveAgent, Restart, InStep, Rearmed
  <2>5. CASE RemoveFinalizer
    BY <2>5, <1>3 DEF RemoveFinalizer, Rearmed
  <2>6. CASE DeleteAgent \/ \E s \in Specs : EditSpec(s)
    <3>1. /\ agent'.st = agent.st
          /\ UNCHANGED <<cAgent, w, pc, cDeps, notify, obj, ofresh>>
      BY <2>6, <1>t DEF DeleteAgent, EditSpec, AgentType
    <3>2. (GoodSoFar => GoodSoFar') /\ (Rejects => Rejects')
      BY <3>1 DEF GoodSoFar, Rejects, Resolved, Desired
    <3> QED BY <1>3, <3>1, <3>2 DEF Tracks, InStep
  <2> QED BY <1>1, <2>1, <2>2, <2>3, <2>4, <2>5, <2>6, StepCases
<1> QED BY <1>2, <1>3 DEF InStep

-----------------------------------------------------------------------------
(* The inductive invariant and what follows from it. *)

\* The invariant holds initially.
LEMMA InitIInv == Init => IInv
<1> SUFFICES ASSUME Init PROVE IInv
  OBVIOUS
<1>1. TypeOK
  BY InitType
<1>2. PICK s \in Specs :
        /\ agent = [life |-> "live", fin |-> FALSE, spec |-> s, gen |-> 1, st |-> NoStatus]
        /\ obj = [k \in Owned |-> NULL]
        /\ cAgent = agent
        /\ dirty = TRUE
        /\ pc = "idle" /\ w = Loaded(agent)
  BY DEF Init
<1>3. /\ w.spec = s /\ w.gen = 1 /\ w.st = NoStatus /\ w.seen = Unseen /\ w.next = 1
      /\ obj["deployment"] = NULL
  BY <1>2 DEF Loaded, Owned
<1>4. Generations
  <2>1. agent.gen = 1 /\ agent.spec = s /\ agent.st = NoStatus
    BY <1>2
  <2>2. NoStatus.obs = 0
    BY DEF NoStatus
  <2> QED BY <1>2, <1>3, <2>1, <2>2 DEF Generations
<1>5. Pinned
  BY <1>2 DEF Pinned
<1>6. Bookkeeping
  <2>1. \A d \in Deps : w.seen[d] = NULL
    BY <1>3 DEF Unseen
  <2>2. \A i \in 1..Len(w.spec.refs) : ~(i < w.next)
    BY <1>3, SpecsAssumption
  <2> QED BY <1>2, <2>1, <2>2 DEF Bookkeeping, Owned
<1> QED BY <1>1, <1>2, <1>3, <1>4, <1>5, <1>6
        DEF IInv, Carries, WorkloadCompiled, InStep, Rearmed

\* Every step preserves the invariant.
LEMMA IInvStep == ASSUME IInv, [Next]_vars PROVE IInv'
<1>1. TypeOK'
  BY TypeStep DEF IInv
<1>2. Generations'
  BY <1>1, GenerationsStep DEF IInv
<1>3. Pinned'
  BY PinnedStep DEF IInv
<1>4. Bookkeeping'
  BY BookkeepingStep DEF IInv
<1>5. (Reports => Carries(agent.spec))'
  BY <1>1, CarriesStep DEF IInv
<1>6. WorkloadCompiled'
  BY WorkloadCompiledStep DEF IInv
<1>7. InStep'
  BY InStepStep DEF IInv
<1> QED BY <1>1, <1>2, <1>3, <1>4, <1>5, <1>6, <1>7 DEF IInv

\* The invariant holds always.
LEMMA Inductive == Spec => []IInv
BY InitIInv, IInvStep, PTL DEF Spec

\* At rest, the worker's copies are the objects themselves.
LEMMA AtRest ==
  ASSUME IInv, Quiescent, agent.life = "live"
  PROVE  /\ Tracks /\ pc = "idle" /\ w.result = "done" /\ agent.st = w.st
         /\ agent.fin /\ w.spec = agent.spec /\ w.gen = agent.gen
         /\ \A d \in Deps : w.seen[d] = NULL \/ w.seen[d] = LastSeen[d]
         /\ \A d \in Deps \ Refs(agent.spec) : w.seen[d] = NULL
         /\ GoodSoFar \/ Rejects
<1>1. cAgent = agent
  BY DEF IInv, Generations, Quiescent
<1>2. Tracks
  BY <1>1 DEF IInv, InStep, Rearmed, Quiescent
<1>3. \A d \in Deps : w.seen[d] = NULL \/ w.seen[d] = LastSeen[d]
  BY <1>2 DEF Tracks, Quiescent, LastSeen
<1> QED BY <1>1, <1>2, <1>3 DEF Tracks, Quiescent, IInv, Bookkeeping

\* At rest nothing is outstanding, so what the worker tracks is what is there.
LEMMA AppliedAtRest == IInv => RestsOnlyWhenApplied
<1> SUFFICES ASSUME IInv, Quiescent, agent.life = "live", Compiles(agent.spec, LastSeen)
    PROVE LET seen == Visible(agent.spec, LastSeen) IN
          /\ agent.fin
          /\ obj["configmap"] = [hash |-> Hash(agent.spec, seen), card |-> agent.spec.card]
          /\ obj["deployment"] = Template(agent.spec, seen, w.secret)
          /\ obj["runtime"] = Workload /\ obj["published"] = Workload
          /\ agent.st.obs = agent.gen /\ agent.st.hash = Hash(agent.spec, seen)
          /\ agent.st.valid = "true" /\ agent.st.url
  BY DEF RestsOnlyWhenApplied
<1>t. w \in Worker /\ w.seen \in Seen /\ agent.spec \in Specs /\ w.secret \in 0..MaxSecret
  BY DEF IInv, TypeOK, Worker, AgentType
<1>r. Refs(agent.spec) \subseteq Deps
  BY <1>t, SpecsAssumption DEF Refs
<1>1. ~Rejects
  BY AtRest, <1>r DEF Rejects, Compiles
<1>2. GoodSoFar
  BY <1>1, AtRest
<1>3. w.seen = Visible(agent.spec, LastSeen)
  BY <1>2, <1>r, <1>t, AtRest DEF GoodSoFar, Resolved, Visible, Seen
<1>4. \A k \in Owned : obj[k] = Desired(k, w)
  BY <1>2, AtRest DEF GoodSoFar, Quiescent, Written
<1>5. /\ obj["configmap"] = [hash |-> Hash(w.spec, w.seen), card |-> w.spec.card]
      /\ obj["deployment"] = Template(w.spec, w.seen, w.secret)
      /\ obj["runtime"] = Workload /\ obj["published"] = Workload
  BY <1>4 DEF Desired, Owned
<1>6. /\ w.st.obs = w.gen /\ w.st.url
      /\ w.st.valid = "true" /\ w.st.hash = Hash(w.spec, w.seen)
  BY <1>2, AtRest DEF GoodSoFar
<1> QED BY <1>3, <1>5, <1>6, <1>t, AtRest

\* At rest a failed compile is a verdict, and the verdict is reported.
LEMMA ReportedAtRest == IInv => RestsOnlyWhenReported
<1> SUFFICES ASSUME IInv, Quiescent, agent.life = "live"
    PROVE /\ ~Compiles(agent.spec, LastSeen) =>
               /\ agent.st.valid = "false" /\ agent.st.validGen = agent.gen
               /\ \/ agent.spec.verdict # "ok"
                  \/ \E d \in Refs(agent.spec) : LastSeen[d].verdict \in {"permanent", "invalid"}
          /\ Compiles(agent.spec, LastSeen) => Mounts(agent.spec, LastSeen)
  BY DEF RestsOnlyWhenReported
<1>r. Refs(agent.spec) \subseteq Deps
  BY SpecsAssumption DEF Refs, IInv, TypeOK, AgentType
<1>1. GoodSoFar => Compiles(agent.spec, LastSeen) /\ Mounts(agent.spec, LastSeen)
  BY AtRest, <1>r DEF GoodSoFar, Resolved, Compiles, Mounts
<1>2. Rejects => ~Compiles(agent.spec, LastSeen)
  BY AtRest, <1>r DEF Rejects, Compiles
<1>3. Rejects => /\ agent.st.valid = "false" /\ agent.st.validGen = agent.gen
                 /\ \/ agent.spec.verdict # "ok"
                    \/ \E d \in Refs(agent.spec) : LastSeen[d].verdict \in {"permanent", "invalid"}
  BY <1>r, AtRest DEF Rejects
<1> QED BY <1>1, <1>2, <1>3, AtRest

\* No wake-up that a watch owes is lost: whatever was edited, delivered late,
\* refused by the API server or interrupted by a restart, a controller at rest on
\* an Agent that compiles has applied and reported its current composition.  What
\* no watch covers, the Secret and the Service behind a port name, counts as the
\* last reconcile read it.
THEOREM AppliedBeforeRest == Spec => []RestInv
<1>1. IInv => RestInv
  BY AppliedAtRest DEF IInv, RestInv
<1> QED BY <1>1, Inductive, PTL

\* A controller at rest on an Agent that does not compile has reported it for
\* the current generation, and no retry could change the verdict; it does not
\* rest on one it cannot build a Deployment for.  A Service behind a port name
\* counts as the last reconcile read it.
THEOREM ReportedBeforeRest == Spec => []RestsOnlyWhenReported
BY Inductive, ReportedAtRest, PTL

\* Every Deployment the operator ever writes runs a composition that compiled
\* and whose Capabilities could all be mounted.
THEOREM OnlyCompiledRuns == Spec => []WorkloadCompiled
<1>1. IInv => WorkloadCompiled
  BY DEF IInv
<1> QED BY <1>1, Inductive, PTL

\* A status that reports the Agent's generation is backed by a Deployment of
\* that generation, although retried status writes come from stale copies.
THEOREM ObservedIsApplied == Spec => []ObservedMeansApplied
<1>1. IInv => ObservedMeansApplied
  BY DEF IInv, Reports, Carries, ObservedMeansApplied
<1> QED BY <1>1, Inductive, PTL

\* Once the finalizer is gone the operator writes none of the Agent's objects.
THEOREM DeletedStaysDeleted == Spec => NoResurrection
<1>1. ASSUME IInv, [Next]_vars
      PROVE  [agent.life = "gone" =>
                \A k \in Owned : obj'[k] # obj[k] => obj'[k] \in {NULL, Drifted}]_vars
  <2> SUFFICES ASSUME agent.life = "gone", NEW k \in Owned, obj'[k] # obj[k]
      PROVE obj'[k] \in {NULL, Drifted}
    OBVIOUS
  <2>1. pc = "idle"
    BY <1>1 DEF IInv, Pinned
  <2>2. obj \in [Owned -> Payload]
    BY <1>1 DEF IInv, TypeOK
  <2>3. \/ \E j \in Owned : CollectOwned(j)
        \/ \E j \in Owned, v \in {NULL, Drifted} : Drift(j, v)
    BY <1>1, <2>1, OwnedStep DEF EnsureOk, Owned
  <2> QED BY <2>2, <2>3 DEF CollectOwned, Drift
<1> QED BY <1>1, Inductive, PTL DEF Spec, NoResurrection

-----------------------------------------------------------------------------
(* The controller implements AgentRollout. *)

\* A compiled template with the runtime and document of s runs s.
LEMMA RunsSpec ==
  ASSUME NEW s \in Specs, NEW t, t.runtime = s.runtime, t.hash.doc = s.doc,
         NEW s2 \in Specs, NEW f \in [Deps -> Contents], NEW v \in 0..MaxSecret,
         Compiles(s2, f), Mounts(s2, f), t = Template(s2, Visible(s2, f), v)
  PROVE  t \in Images[s]
<1>1. Visible(s2, f) \in Seen
  BY DEF Visible, Seen
<1>2. t \in Templates
  BY <1>1 DEF Templates
<1> HIDE DEF Template
<1> QED BY <1>2 DEF Images

\* A Deployment that carries s is absent, foreign, or runs s.
LEMMA CarriedRuns ==
  ASSUME NEW s \in Specs, WorkloadCompiled, Carries(s)
  PROVE  obj["deployment"] \in Images[s] \cup {NULL, Drifted}
BY RunsSpec DEF WorkloadCompiled, Carries

\* Writing the Deployment is a rollout, and no step back behind what is claimed.
LEMMA EnsureRolls ==
  ASSUME IInv, WorkloadCompiled', EnsureOk("deployment"),
         obj'["deployment"] \notin {NULL, Drifted}
  PROVE  R!Roll
<1>t. /\ agent \in AgentType /\ w \in Worker /\ w.spec \in Specs
      /\ obj \in [Owned -> Payload] /\ "deployment" \in Owned
  BY DEF IInv, TypeOK, Worker, Owned
<1>c. cAgent \in AgentType
  BY DEF IInv, TypeOK
<1>i. agent.gen \in Int /\ cAgent.gen \in Int /\ w.gen \in Int /\ agent.st.obs \in Int
  BY <1>t, <1>c, GenerationsAreNumbers
<1>1. obj'["deployment"] = Template(w.spec, w.seen, w.secret) /\ UNCHANGED agent
  BY <1>t DEF EnsureOk, Desired
<1>2. /\ obj'["deployment"].runtime = w.spec.runtime
      /\ obj'["deployment"].hash.doc = w.spec.doc
  BY <1>1 DEF Template, Hash
<1>3. obj'["deployment"] \in Images[w.spec]
  <2>1. PICK s2 \in Specs, f \in [Deps -> Contents], v \in 0..MaxSecret :
          /\ Compiles(s2, f) /\ Mounts(s2, f)
          /\ obj'["deployment"] = Template(s2, Visible(s2, f), v)
    BY DEF WorkloadCompiled
  <2> QED BY <2>1, <1>2, <1>t, RunsSpec
<1>4. agent.st.obs = agent.gen => w.spec = agent.spec
  BY <1>i DEF IInv, Generations
<1>5. agent.life # "gone"
  BY DEF IInv, Pinned, EnsureOk
<1> QED BY <1>1, <1>3, <1>4, <1>5, <1>t DEF R!Roll

\* A status write claims the current generation only when it runs.
LEMMA StatusClaims ==
  ASSUME IInv, IInv', StatusWrite
  PROVE  R!Claim
<1>t. agent \in AgentType /\ w \in Worker /\ agent.spec \in Specs /\ agent' \in AgentType
  BY DEF IInv, TypeOK, AgentType
<1>1. /\ agent'.st = w.st /\ agent'.spec = agent.spec /\ agent'.gen = agent.gen
      /\ agent'.life = agent.life /\ UNCHANGED obj
  BY <1>t DEF StatusWrite, AgentType
<1>2. agent.life # "gone"
  BY DEF IInv, Pinned, StatusWrite
<1>3. w.st.obs = agent.gen => obj["deployment"] \in Images[agent.spec] \cup {NULL, Drifted}
  BY <1>t, CarriedRuns DEF IInv, Reports
<1>4. w.st.obs \in 0..agent.gen
  <2>1. w.st \in Status
    BY <1>t DEF Worker
  <2>2. w.st.obs \in 0..MaxGen
    BY <2>1 DEF Status
  <2>3. cAgent \in AgentType
    BY DEF IInv, TypeOK
  <2>4. w.gen \in Int /\ cAgent.gen \in Int /\ agent.gen \in Int
    BY <1>t, <2>3, GenerationsAreNumbers
  <2>5. w.st.obs <= w.gen /\ w.gen <= cAgent.gen /\ cAgent.gen <= agent.gen
    BY DEF IInv, Generations
  <2> QED BY <2>2, <2>4, <2>5
<1> QED BY <1>1, <1>2, <1>3, <1>4 DEF R!Claim

\* Every step of the controller, its caches and its environment is a step of
\* AgentRollout or does not show.
LEMMA RolloutStep ==
  ASSUME IInv, IInv', [Next]_vars
  PROVE  [R!Next]_(R!vars)
<1>t. agent \in AgentType /\ TypeOK
  BY DEF IInv, TypeOK
<1>o. UNCHANGED agent => [R!Next]_(R!vars)
  <2> SUFFICES ASSUME UNCHANGED agent PROVE [R!Next]_(R!vars)
    OBVIOUS
  <2>1. CASE obj'["deployment"] = obj["deployment"]
    BY <2>1 DEF R!vars
  <2>2. CASE obj'["deployment"] \in {NULL, Drifted}
    BY <2>2 DEF R!Next, R!Disturb
  <2>3. CASE EnsureOk("deployment") /\ obj'["deployment"] \notin {NULL, Drifted}
    BY <2>3, EnsureRolls DEF IInv, R!Next
  <2> QED BY <1>t, <2>1, <2>2, <2>3, DeploymentStep
<1>1. CASE StatusWrite
  BY <1>1, StatusClaims DEF R!Next
<1>2. CASE RemoveFinalizer \/ DeleteAgent
  <2>1. /\ agent'.spec = agent.spec /\ agent'.gen = agent.gen /\ agent'.st = agent.st
        /\ UNCHANGED obj
    BY <1>2, <1>t DEF RemoveFinalizer, DeleteAgent, AgentType
  <2>2. \/ agent'.life = agent.life
        \/ agent.life = "live" /\ agent'.life \in {"deleting", "gone"}
        \/ agent.life = "deleting" /\ agent'.life = "gone"
    <3>1. CASE RemoveFinalizer
      BY <3>1, <1>t DEF RemoveFinalizer, IInv, Pinned, AgentType
    <3>2. CASE DeleteAgent
      BY <3>2, <1>t DEF DeleteAgent, AgentType
    <3> QED BY <1>2, <3>1, <3>2
  <2> QED BY <2>1, <2>2 DEF R!Next, R!Delete, R!vars
<1>3. CASE AddFinalizer
  <2>1. /\ agent'.spec = agent.spec /\ agent'.gen = agent.gen /\ agent'.st = agent.st
        /\ agent'.life = agent.life /\ UNCHANGED obj
    BY <1>3, <1>t DEF AddFinalizer, AgentType
  <2> QED BY <2>1 DEF R!vars
<1>4. ASSUME NEW s \in Specs, EditSpec(s) PROVE [R!Next]_(R!vars)
  <2>1. /\ agent.life = "live" /\ agent'.life = "live" /\ s # agent.spec
        /\ agent'.spec = s /\ agent'.gen = agent.gen + 1 /\ agent'.st = agent.st
        /\ UNCHANGED obj
    BY <1>4, <1>t DEF EditSpec, AgentType
  <2> QED BY <2>1 DEF R!Next, R!Edit
<1>5. CASE \/ Aside \/ (\E k \in Owned : Busy(k)) \/ StatusAbandoned
           \/ StartReconcile \/ ObserveAgent \/ Restart
  <2>1. UNCHANGED agent
    BY <1>5, <1>t, AsideKeeps, BusyKeeps
       DEF StatusAbandoned, StartReconcile, ObserveAgent, Restart, server
  <2> QED BY <2>1, <1>o
<1> QED BY <1>1, <1>2, <1>3, <1>4, <1>5, StepCases

\* The whole controller, with its caches, conflicts, retries, faults and
\* restarts, implements the rollout an API server reader is promised.
THEOREM RolloutImplemented == Spec => Rollout
<1>1. ASSUME Init PROVE R!Init
  <2>1. PICK s \in Specs :
          /\ agent = [life |-> "live", fin |-> FALSE, spec |-> s, gen |-> 1, st |-> NoStatus]
          /\ obj = [k \in Owned |-> NULL]
    BY <1>1 DEF Init
  <2>2. /\ agent.spec = s /\ agent.gen = 1 /\ agent.life = "live"
        /\ agent.st = NoStatus /\ obj["deployment"] = NULL
    BY <2>1 DEF Owned
  <2>3. NoStatus.obs = 0
    BY DEF NoStatus
  <2> QED BY <2>2, <2>3 DEF R!Init
<1>2. ASSUME IInv, IInv', [Next]_vars PROVE [R!Next]_(R!vars)
  BY <1>2, RolloutStep
<1> QED BY <1>1, <1>2, Inductive, PTL DEF Spec, Rollout, R!Spec

=============================================================================
