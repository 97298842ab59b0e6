----------------------- MODULE TriggerReconcileProofs -----------------------
(* TLAPS proofs about the AgentTrigger controller, for every value of its    *)
(* constants.                                                                *)
EXTENDS TriggerReconcile, TLAPS

-----------------------------------------------------------------------------
(* The inductive invariant. *)

\* A reconcile has read a generation, a URL before it reads the Secret, and the key
\* before it writes the ConfigMap of a push trigger.
HasRead == /\ work.pc # "idle" => work.gen \in 1..MaxGen
           /\ work.pc \in {"push", "ensure"} => work.url # 0 /\ work.spec # "invalid"
           /\ work.pc = "push" => work.spec = "push"
           /\ work.pc = "ensure" /\ work.spec = "push" =>
                last.has = "key" /\ work.cred = last.value

\* The informer is current when no event of the trigger is under way.
CopyIsCurrent == noticed => copy = trig

\* Nothing has changed, that the controller will not hear of, since the reconcile
\* began.
Unmoved == ~queued /\ noticed /\ Live

\* What a reconcile that gives up reports of the agent a.
GivesUp(a) == \/ work.spec = "invalid" /\ work.status.ready = "Invalid"
              \/ work.spec = "push" /\ Reachable(a) /\ last.has = "nokey"

\* What a reconcile that succeeded has written for the agent a.
Succeeded(a) ==
  /\ Reachable(a) /\ work.status.ready = "True" /\ work.status.endpoint = a.url
  /\ drift = 0 => /\ cm # NULL /\ cm.gen = work.gen /\ cm.url = a.url
                  /\ work.spec = "push" => last.has = "key" /\ cm.cred = last.value

\* What the reconcile under way has read is then still so, and what it is about to
\* report is so too.
WorkIsCurrent ==
  work.pc # "idle" /\ Unmoved =>
    /\ work.gen = trig.gen /\ work.spec = trig.spec
    /\ work.pc \in {"push", "ensure"} => Reachable(seen) /\ work.url = seen.url
    /\ work.pc = "status" /\ work.verdict = "permanent" => GivesUp(seen)
    /\ work.pc = "status" /\ work.verdict = "ok" => Succeeded(seen)

\* At rest but for the informer of the agent, the trigger is configured for the
\* agent the controller has seen, or given up on.
RestIsConfigured ==
  work.pc = "idle" /\ Unmoved /\ ~timer /\ drift = 0 => ConfiguredFor(seen) \/ GivenUp(seen)

TriggerIndInv == TypeOK /\ HasRead /\ CopyIsCurrent /\ WorkIsCurrent /\ RestIsConfigured

-----------------------------------------------------------------------------
(* The shapes. *)

\* A reconcile begins with a trigger that is there.
LEMMA CopyFacts ==
  ASSUME TypeOK, copy # NULL
  PROVE  copy.gen \in 1..MaxGen /\ copy.spec \in Specs /\ copy.status \in Status
BY DEF TypeOK, Triggers

\* A fault is counted.
LEMMA FaultFacts ==
  ASSUME TypeOK, Fault
  PROVE  faults' \in 0..MaxFaults
<1>1. faults \in 0..MaxFaults /\ faults < MaxFaults /\ faults' = faults + 1 /\ MaxFaults \in Nat
  BY TriggerAssumption DEF TypeOK, Fault
<1> QED BY <1>1

\* The end of a reconcile, field by field.
LEMMA EndsFacts ==
  ASSUME NEW w \in Works, NEW v \in Verdicts, NEW s \in Status, Ends(w, v, s)
  PROVE  /\ work' \in Works /\ work'.pc = "status" /\ work'.gen = w.gen /\ work'.spec = w.spec
         /\ work'.verdict = v /\ work'.status = s
BY DEF Ends, Step, Works

\* The idle worker, and what a reconcile that has read nothing knows of the Secret.
LEMMA IdleFacts == /\ Idle \in Works /\ Idle.pc = "idle" /\ Idle.cred \in 0..(MaxChanges + 1)
                   /\ Unread \in Reads
<1>1. NoStatus \in Status
  BY TriggerAssumption DEF NoStatus, Status
<1>2. 0 \in 0..(MaxChanges + 1) /\ 0 \in 0..MaxGen
  BY TriggerAssumption
<1> QED BY <1>1, <1>2 DEF Idle, Works, Specs, Verdicts, Unread, Reads

-----------------------------------------------------------------------------
(* Each step keeps the invariant. *)

\* What the controller's world does is noticed, or is not of its reconcile.
LEMMA OtherStepInv ==
  ASSUME TriggerIndInv, SameNamespace,
         \/ ObserveTrigger \/ ObserveAgent \/ ObserveConfigMap \/ TimerFires \/ Restart
         \/ ChangeAgent \/ ChangeSecret
         \/ (\E s \in Specs : EditTrigger(s)) \/ DeleteTrigger \/ CollectConfigMap \/ Drift
  PROVE  TriggerIndInv'
<1>t. TypeOK
  BY DEF TriggerIndInv
<1>i. HasRead /\ CopyIsCurrent /\ WorkIsCurrent /\ RestIsConfigured
  BY DEF TriggerIndInv
<1>1. CASE ObserveTrigger \/ TimerFires
  <2>1. /\ UNCHANGED <<trig, agent, seen, secret, cm, cmFresh, work, last, changes, faults, drift>>
        /\ queued' = TRUE /\ timer' \in BOOLEAN /\ noticed' \in BOOLEAN
        /\ copy' \in Triggers \cup {NULL} /\ CopyIsCurrent'
    <3>1. CASE ObserveTrigger
      BY <1>t, <3>1 DEF ObserveTrigger, TypeOK, CopyIsCurrent, world
    <3>2. CASE TimerFires
      BY <1>t, <1>i, <3>2 DEF TimerFires, TypeOK, CopyIsCurrent, world
    <3> QED BY <1>1, <3>1, <3>2
  <2>2. TypeOK'
    BY <1>t, <2>1 DEF TypeOK
  <2>3. HasRead' /\ ~Unmoved'
    BY <1>i, <2>1 DEF HasRead, Unmoved
  <2> QED BY <2>1, <2>2, <2>3 DEF TriggerIndInv, WorkIsCurrent, RestIsConfigured
<1>2. CASE ObserveAgent
  <2>1. /\ UNCHANGED <<trig, copy, noticed, agent, secret, cm, cmFresh, timer, work, last, changes,
                       faults, drift>>
        /\ seen' = agent /\ queued' = (queued \/ FindTriggersForAgent)
    BY <1>2 DEF ObserveAgent, world
  <2>2. TypeOK'
    BY <1>t, <2>1 DEF TypeOK, FindTriggersForAgent
  <2>3. ~Unmoved'
    BY <1>i, <2>1 DEF Unmoved, Live, FindTriggersForAgent, CopyIsCurrent
  <2>4. HasRead' /\ CopyIsCurrent'
    BY <1>i, <2>1 DEF HasRead, CopyIsCurrent
  <2> QED BY <2>2, <2>3, <2>4 DEF TriggerIndInv, WorkIsCurrent, RestIsConfigured
<1>3. CASE ChangeAgent \/ ChangeSecret \/ ObserveConfigMap
  <2>1. /\ UNCHANGED <<trig, copy, noticed, seen, cm, queued, timer, work, last, faults, drift>>
        /\ agent' \in Agents /\ secret' \in Secrets /\ cmFresh' \in BOOLEAN
    BY <1>3, <1>t DEF ChangeAgent, ChangeSecret, ObserveConfigMap, TypeOK, world
  <2>2. changes' \in 0..MaxChanges
    <3>1. changes' = changes \/ (changes < MaxChanges /\ changes' = changes + 1)
      BY <1>3 DEF ChangeAgent, ChangeSecret, ObserveConfigMap, world, Change
    <3>2. changes \in 0..MaxChanges /\ MaxChanges \in Nat
      BY <1>t, TriggerAssumption DEF TypeOK
    <3> QED BY <3>1, <3>2
  <2>3. TypeOK'
    BY <1>t, <2>1, <2>2 DEF TypeOK
  <2>4. /\ HasRead' /\ CopyIsCurrent' /\ Unmoved' = Unmoved
        /\ ConfiguredFor(seen)' = ConfiguredFor(seen) /\ GivenUp(seen)' = GivenUp(seen)
        /\ GivesUp(seen)' = GivesUp(seen) /\ Succeeded(seen)' = Succeeded(seen)
        /\ Reachable(seen)' = Reachable(seen)
    BY <1>i, <2>1 DEF HasRead, CopyIsCurrent, Unmoved, Live, ConfiguredFor, GivenUp, GivesUp,
                      Succeeded, Reachable, CalculatePhase
  <2> QED BY <1>i, <2>1, <2>3, <2>4 DEF TriggerIndInv, WorkIsCurrent, RestIsConfigured
<1>4. CASE (\E s \in Specs : EditTrigger(s)) \/ DeleteTrigger
  <2>1. /\ trig # NULL /\ noticed' = FALSE /\ work' = [work EXCEPT !.fresh = FALSE]
        /\ UNCHANGED <<copy, agent, seen, secret, cm, cmFresh, queued, timer, last, changes, faults,
                       drift>>
    BY <1>4 DEF EditTrigger, DeleteTrigger, Outdated, world
  <2>2. trig' \in Triggers \cup {NULL}
    <3>0. trig \in Triggers
      BY <1>t, <2>1 DEF TypeOK
    <3>1. CASE DeleteTrigger
      BY <3>0, <3>1 DEF DeleteTrigger, Triggers
    <3>2. CASE \E s \in Specs : EditTrigger(s)
      <4>1. PICK s \in Specs : EditTrigger(s)
        BY <3>2
      <4> DEFINE g == trig.gen + 1
      <4>2. trig.gen \in 1..MaxGen /\ trig.gen < MaxGen /\ MaxGen \in Nat
        BY <3>0, <4>1, TriggerAssumption DEF EditTrigger, Triggers
      <4>3. g \in 1..MaxGen
        BY <4>2
      <4>4. trig' = [trig EXCEPT !.gen = g, !.spec = s]
        BY <3>0, <4>1 DEF EditTrigger, Triggers
      <4> HIDE DEF g
      <4> QED BY <3>0, <4>3, <4>4 DEF Triggers
    <3> QED BY <1>4, <3>1, <3>2
  <2>3. /\ work' \in Works /\ work'.pc = work.pc /\ work'.gen = work.gen /\ work'.url = work.url
        /\ work'.spec = work.spec /\ work'.cred = work.cred
    BY <1>t, <2>1 DEF TypeOK, Works
  <2>4. TypeOK'
    BY <1>t, <2>1, <2>2, <2>3 DEF TypeOK
  <2>5. HasRead'
    BY <1>i, <2>1, <2>3 DEF HasRead
  <2> QED BY <2>1, <2>4, <2>5 DEF TriggerIndInv, CopyIsCurrent, WorkIsCurrent, RestIsConfigured, Unmoved
<1>5. CASE CollectConfigMap
  <2>1. /\ UNCHANGED <<trig, copy, noticed, agent, seen, secret, queued, timer, work, last, changes,
                       faults, drift>>
        /\ cm' = NULL /\ trig = NULL /\ cmFresh' = FALSE
    BY <1>5 DEF CollectConfigMap, world
  <2>2. TypeOK'
    BY <1>t, <2>1 DEF TypeOK
  <2>3. HasRead' /\ CopyIsCurrent' /\ ~Unmoved'
    BY <1>i, <2>1 DEF HasRead, CopyIsCurrent, Unmoved, Live
  <2> QED BY <2>2, <2>3 DEF TriggerIndInv, WorkIsCurrent, RestIsConfigured
<1>6. CASE Drift
  <2>1. /\ UNCHANGED <<trig, copy, noticed, agent, seen, secret, queued, timer, work, last, changes,
                       faults>>
        /\ drift' = drift + 1 /\ drift < MaxDrift /\ cmFresh' = FALSE
        /\ cm' = ForeignConfigMap \/ cm' = NULL
             \/ (cm # NULL /\ cm' = Config(0, 0, 0, cm.owned, cm.foreign))
    BY <1>6 DEF Drift, world
  <2>2. drift' \in 0..MaxDrift /\ drift' # 0
    <3>1. drift \in 0..MaxDrift /\ MaxDrift \in Nat
      BY <1>t, TriggerAssumption DEF TypeOK
    <3> QED BY <2>1, <3>1
  <2>3. cm' \in ConfigMaps \cup {NULL}
    <3>1. 0 \in 0..(MaxChanges + 1) /\ 0 \in 0..MaxGen
      BY TriggerAssumption
    <3>2. cm \in ConfigMaps \cup {NULL}
      BY <1>t DEF TypeOK
    <3>3. cm # NULL => cm.owned \in BOOLEAN /\ cm.foreign \in BOOLEAN
      BY <3>2 DEF ConfigMaps
    <3>4. ForeignConfigMap \in ConfigMaps
      BY <3>1 DEF ConfigMaps, Config, ForeignConfigMap
    <3>5. cm # NULL => Config(0, 0, 0, cm.owned, cm.foreign) \in ConfigMaps
      BY <3>1, <3>3 DEF ConfigMaps, Config
    <3> QED BY <2>1, <3>4, <3>5
  <2>4. TypeOK'
    BY <1>t, <2>1, <2>2, <2>3 DEF TypeOK
  <2>5. HasRead' /\ CopyIsCurrent' /\ Unmoved' = Unmoved /\ RestIsConfigured'
    BY <1>i, <2>1, <2>2 DEF HasRead, CopyIsCurrent, Unmoved, Live, RestIsConfigured
  <2>6. /\ GivesUp(seen)' = GivesUp(seen) /\ Reachable(seen)' = Reachable(seen)
        /\ Succeeded(seen) => Succeeded(seen)'
    BY <2>1, <2>2 DEF GivesUp, Reachable, Succeeded
  <2>7. WorkIsCurrent'
    BY <1>i, <2>1, <2>5, <2>6 DEF WorkIsCurrent
  <2> QED BY <2>4, <2>5, <2>7 DEF TriggerIndInv
<1>7. CASE Restart
  <2>1. /\ Fault /\ work' = Idle /\ timer' = FALSE /\ queued' = TRUE /\ copy' = trig
        /\ noticed' = TRUE /\ seen' = agent /\ cmFresh' = TRUE
        /\ UNCHANGED <<trig, agent, secret, cm, last, changes, drift>>
    BY <1>7 DEF Restart, world
  <2>2. TypeOK'
    BY <1>t, <2>1, FaultFacts, IdleFacts DEF TypeOK
  <2>3. HasRead' /\ CopyIsCurrent' /\ ~Unmoved'
    BY <2>1, IdleFacts DEF HasRead, CopyIsCurrent, Unmoved
  <2> QED BY <2>2, <2>3 DEF TriggerIndInv, WorkIsCurrent, RestIsConfigured
<1> QED BY <1>1, <1>2, <1>3, <1>4, <1>5, <1>6, <1>7

\* The worker takes the request and the finalizer, or the end, is settled.
LEMMA FinalizerInv ==
  ASSUME TriggerIndInv, ReconcileGone \/ RemoveFinalizer \/ AddFinalizer \/ FinalizerFails
  PROVE  TriggerIndInv'
<1>t. TypeOK
  BY DEF TriggerIndInv
<1>i. CopyIsCurrent
  BY DEF TriggerIndInv
<1>1. /\ work.pc = "idle" /\ queued' = FALSE
      /\ UNCHANGED <<copy, agent, seen, secret, cm, cmFresh, work, last, changes, drift>>
  BY DEF ReconcileGone, RemoveFinalizer, AddFinalizer, FinalizerFails, Take, world
<1>2. faults' \in 0..MaxFaults
  BY <1>t, FaultFacts DEF ReconcileGone, RemoveFinalizer, AddFinalizer, FinalizerFails, TypeOK
<1>3. trig' \in Triggers \cup {NULL} /\ timer' \in BOOLEAN /\ noticed' \in BOOLEAN
  <2>1. CASE ReconcileGone \/ RemoveFinalizer \/ FinalizerFails
    BY <1>t, <2>1 DEF ReconcileGone, RemoveFinalizer, FinalizerFails, TypeOK
  <2>2. CASE AddFinalizer
    <3>1. noticed => trig \in Triggers
      BY <1>t, <1>i, <2>2 DEF AddFinalizer, CopyIsCurrent, TypeOK
    <3> QED BY <1>t, <2>2, <3>1 DEF AddFinalizer, TypeOK, Triggers
  <2> QED BY <2>1, <2>2
<1>4. timer' = TRUE \/ ~noticed' \/ trig' = NULL
  BY <1>i DEF ReconcileGone, RemoveFinalizer, AddFinalizer, FinalizerFails, CopyIsCurrent
<1>5. CopyIsCurrent'
  BY <1>i DEF ReconcileGone, RemoveFinalizer, AddFinalizer, FinalizerFails, CopyIsCurrent
<1>6. TypeOK'
  BY <1>1, <1>2, <1>3, <1>t DEF TypeOK
<1> QED BY <1>1, <1>4, <1>5, <1>6 DEF TriggerIndInv, HasRead, WorkIsCurrent, RestIsConfigured, Unmoved, Live

\* The reconcile reads the spec and the agent, as both are for the controller now.
LEMMA SpecInv ==
  ASSUME TriggerIndInv, ReconcileSpec
  PROVE  TriggerIndInv'
<1>t. TypeOK
  BY DEF TriggerIndInv
<1>i. CopyIsCurrent
  BY DEF TriggerIndInv
<1> DEFINE w == [Idle EXCEPT !.gen = copy.gen, !.spec = copy.spec, !.status = copy.status,
                             !.fresh = noticed]
<1>1. /\ copy # NULL /\ queued' = FALSE /\ last' = Unread
      /\ UNCHANGED <<trig, copy, noticed, agent, seen, secret, cm, cmFresh, timer, changes, faults,
                     drift>>
      /\ CASE w.spec = "invalid" ->
                Ends(w, "permanent", [w.status EXCEPT !.ready = "Invalid"])
           [] w.spec # "invalid" /\ seen.phase # "Running" ->
                Ends(w, "dependency", [w.status EXCEPT !.ready = "False",
                                                       !.agentReady = "False"])
           [] w.spec # "invalid" /\ seen.phase = "Running" /\ seen.url = 0 ->
                Ends(w, "dependency", [w.status EXCEPT !.agentReady = "False"])
           [] OTHER ->
                Step(IF w.spec = "push" THEN "push" ELSE "ensure",
                     [w EXCEPT !.url = seen.url, !.status.agentReady = "True"])
  BY DEF ReconcileSpec, Take, world
<1>2. copy.gen \in 1..MaxGen /\ copy.spec \in Specs /\ copy.status \in Status
  BY <1>1, <1>t, CopyFacts
<1>3. w \in Works /\ w.gen = copy.gen /\ w.spec = copy.spec /\ w.status = copy.status
  <2>1. copy.gen \in 0..MaxGen
    BY <1>2, TriggerAssumption
  <2>2. noticed \in BOOLEAN
    BY <1>t DEF TypeOK
  <2> QED BY <1>2, <2>1, <2>2, IdleFacts DEF Works
<1>4. seen.url \in 0..(MaxChanges + 1)
  BY <1>t DEF TypeOK, Agents
<1> HIDE DEF w
<1> DEFINE Begun == /\ work' \in Works /\ work'.pc # "idle" /\ work'.gen = copy.gen
                    /\ work'.spec = copy.spec
                    /\ work'.pc \in {"push", "ensure"} =>
                         Reachable(seen) /\ work'.url = seen.url /\ copy.spec # "invalid"
                    /\ work'.pc = "status" /\ work'.verdict = "permanent" =>
                         copy.spec = "invalid" /\ work'.status.ready = "Invalid"
                    /\ ~(work'.pc = "status" /\ work'.verdict = "ok")
                    /\ work'.pc = "push" => work'.spec = "push"
                    /\ work'.pc = "ensure" => work'.spec # "push"
<1>5. Begun
  <2>1. CASE w.spec = "invalid"
    <3> DEFINE s == [w.status EXCEPT !.ready = "Invalid"]
    <3>1. s \in Status /\ s.ready = "Invalid"
      BY <1>2, <1>3 DEF Status
    <3>2. Ends(w, "permanent", s)
      BY <1>1, <2>1
    <3> HIDE DEF s
    <3>3. /\ work' \in Works /\ work'.pc = "status" /\ work'.gen = w.gen /\ work'.spec = w.spec
          /\ work'.verdict = "permanent" /\ work'.status = s
      BY <1>3, <3>1, <3>2, EndsFacts DEF Verdicts
    <3> QED BY <1>3, <2>1, <3>1, <3>3
  <2>2. CASE w.spec # "invalid" /\ ~Reachable(seen)
    <3> DEFINE s == IF seen.phase # "Running"
                    THEN [w.status EXCEPT !.ready = "False", !.agentReady = "False"]
                    ELSE [w.status EXCEPT !.agentReady = "False"]
    <3>1. s \in Status
      BY <1>2, <1>3 DEF Status
    <3>2. Ends(w, "dependency", s)
      <4>1. CASE seen.phase # "Running"
        BY <1>1, <2>2, <4>1
      <4>2. CASE seen.phase = "Running" /\ seen.url = 0
        BY <1>1, <2>2, <4>2
      <4> QED BY <2>2, <4>1, <4>2 DEF Reachable
    <3> HIDE DEF s
    <3>3. /\ work' \in Works /\ work'.pc = "status" /\ work'.gen = w.gen /\ work'.spec = w.spec
          /\ work'.verdict = "dependency"
      BY <1>3, <3>1, <3>2, EndsFacts DEF Verdicts
    <3> QED BY <1>3, <3>3
  <2>3. CASE w.spec # "invalid" /\ Reachable(seen)
    <3> DEFINE pc == IF w.spec = "push" THEN "push" ELSE "ensure"
               s == [w.status EXCEPT !.agentReady = "True"]
    <3>1. s \in Status
      BY <1>2, <1>3 DEF Status
    <3>2. Step(pc, [w EXCEPT !.url = seen.url, !.status.agentReady = "True"])
      BY <1>1, <2>3 DEF Reachable
    <3>3. work' = [w EXCEPT !.url = seen.url, !.status = s, !.pc = pc]
      BY <1>3, <3>2 DEF Step, Works
    <3>4. pc \in {"push", "ensure"} /\ (pc = "push" <=> w.spec = "push")
      OBVIOUS
    <3> HIDE DEF pc, s
    <3>5. /\ work' \in Works /\ work'.pc = pc /\ work'.gen = w.gen /\ work'.spec = w.spec
          /\ work'.url = seen.url
      BY <1>3, <1>4, <3>1, <3>3, <3>4 DEF Works
    <3> QED BY <1>3, <2>3, <3>4, <3>5
  <2> QED BY <2>1, <2>2, <2>3
<1>6. TypeOK'
  BY <1>1, <1>5, <1>t, IdleFacts DEF TypeOK
<1>7. HasRead' /\ CopyIsCurrent'
  BY <1>1, <1>2, <1>5, <1>i DEF HasRead, CopyIsCurrent, Reachable
<1>8. RestIsConfigured'
  BY <1>5 DEF RestIsConfigured
<1>9. WorkIsCurrent'
  <2> SUFFICES ASSUME Unmoved' PROVE WorkIsCurrent'
    BY DEF WorkIsCurrent
  <2>1. copy = trig
    BY <1>1, <1>i DEF Unmoved, CopyIsCurrent
  <2>2. Reachable(seen)' = Reachable(seen)
    BY <1>1 DEF Reachable
  <2> QED BY <1>1, <1>5, <2>1, <2>2 DEF WorkIsCurrent, GivesUp
<1> QED BY <1>6, <1>7, <1>8, <1>9 DEF TriggerIndInv

\* The push credentials are read live: a verdict or a value.
LEMMA PushInv ==
  ASSUME TriggerIndInv, ResolvePush \/ ResolveFails
  PROVE  TriggerIndInv'
<1>t. TypeOK
  BY DEF TriggerIndInv
<1>i. HasRead /\ WorkIsCurrent /\ CopyIsCurrent
  BY DEF TriggerIndInv
<1>1. /\ work.pc = "push"
      /\ UNCHANGED <<trig, copy, noticed, agent, seen, secret, cm, cmFresh, queued, timer, changes,
                     drift>>
  BY DEF ResolvePush, ResolveFails, world
<1>2. /\ work \in Works /\ work.status \in Status /\ work.spec = "push" /\ work.url # 0
      /\ secret.value \in 0..(MaxChanges + 1) /\ secret.has \in {"absent", "nokey", "key"}
  <2>1. secret.value \in 1..(MaxChanges + 1) /\ secret.has \in {"absent", "nokey", "key"}
    BY <1>t DEF TypeOK, Secrets
  <2> QED BY <2>1, <1>1, <1>i, <1>t, TriggerAssumption DEF TypeOK, Works, HasRead
<1>3. Unmoved' = Unmoved /\ Reachable(seen)' = Reachable(seen) /\ CopyIsCurrent'
  BY <1>1, <1>i DEF Unmoved, Live, Reachable, CopyIsCurrent
<1>4. CASE ResolveFails
  <2>1. Ends(work, "dependency", work.status) /\ Fault /\ last' = last
    BY <1>4 DEF ResolveFails
  <2>2. /\ work' \in Works /\ work'.pc = "status" /\ work'.gen = work.gen /\ work'.spec = work.spec
        /\ work'.verdict = "dependency"
    BY <1>2, <2>1, EndsFacts DEF Verdicts
  <2>3. TypeOK'
    BY <1>1, <1>t, <2>1, <2>2, FaultFacts DEF TypeOK
  <2>4. HasRead' /\ RestIsConfigured' /\ WorkIsCurrent'
    BY <1>1, <1>3, <1>i, <2>2 DEF HasRead, RestIsConfigured, WorkIsCurrent
  <2> QED BY <1>3, <2>3, <2>4 DEF TriggerIndInv
<1>5. CASE ResolvePush
  <2>1. /\ IF secret.has # "key" THEN Ends(work, PushVerdict(secret), work.status)
                                 ELSE Step("ensure", [work EXCEPT !.cred = secret.value])
        /\ last' = [last EXCEPT !.has = secret.has, !.value = secret.value] /\ faults' = faults
    BY <1>5 DEF ResolvePush
  <2>2. last' \in Reads /\ last'.has = secret.has /\ last'.value = secret.value
    BY <1>2, <1>t, <2>1 DEF TypeOK, Reads
  <2>3. CASE secret.has # "key"
    <3>1. /\ PushVerdict(secret) \in {"dependency", "permanent"}
          /\ PushVerdict(secret) = "permanent" => secret.has = "nokey"
      BY <1>2, <2>3 DEF PushVerdict
    <3>2. /\ work' \in Works /\ work'.pc = "status" /\ work'.gen = work.gen
          /\ work'.spec = work.spec /\ work'.verdict = PushVerdict(secret)
      BY <1>2, <2>1, <2>3, <3>1, EndsFacts DEF Verdicts
    <3>3. TypeOK'
      BY <1>1, <1>t, <2>1, <2>2, <3>2 DEF TypeOK
    <3>4. HasRead' /\ RestIsConfigured'
      BY <1>1, <1>i, <3>2 DEF HasRead, RestIsConfigured
    <3>5. WorkIsCurrent'
      BY <1>1, <1>2, <1>3, <1>i, <2>2, <3>1, <3>2 DEF WorkIsCurrent, GivesUp
    <3> QED BY <1>3, <3>3, <3>4, <3>5 DEF TriggerIndInv
  <2>4. CASE secret.has = "key"
    <3>1. work' = [work EXCEPT !.cred = secret.value, !.pc = "ensure"]
      BY <1>2, <2>1, <2>4 DEF Step, Works
    <3>2. /\ work' \in Works /\ work'.pc = "ensure" /\ work'.gen = work.gen
          /\ work'.spec = work.spec /\ work'.url = work.url /\ work'.cred = secret.value
      BY <1>2, <3>1 DEF Works
    <3>3. TypeOK'
      BY <1>1, <1>t, <2>1, <2>2, <3>2 DEF TypeOK
    <3>4. HasRead'
      BY <1>1, <1>2, <1>i, <2>2, <2>4, <3>2 DEF HasRead
    <3>5. RestIsConfigured' /\ WorkIsCurrent'
      BY <1>1, <1>3, <1>i, <3>2 DEF RestIsConfigured, WorkIsCurrent
    <3> QED BY <1>3, <3>3, <3>4, <3>5 DEF TriggerIndInv
  <2> QED BY <2>3, <2>4
<1> QED BY <1>4, <1>5

\* The ConfigMap is written as it was read, or the write fails.
LEMMA EnsureInv ==
  ASSUME TriggerIndInv, EnsureConfigMap \/ EnsureFails
  PROVE  TriggerIndInv'
<1>t. TypeOK
  BY DEF TriggerIndInv
<1>i. HasRead /\ WorkIsCurrent /\ CopyIsCurrent
  BY DEF TriggerIndInv
<1>1. /\ work.pc = "ensure"
      /\ UNCHANGED <<trig, copy, noticed, agent, seen, secret, queued, timer, last, changes, drift>>
  BY DEF EnsureConfigMap, Stored, EnsureFails, world
<1>2. /\ work \in Works /\ work.status \in Status /\ work.spec \in Specs
      /\ work.cred \in 0..(MaxChanges + 1) /\ work.gen \in 0..MaxGen
      /\ work.url \in 0..(MaxChanges + 1)
  BY <1>t DEF TypeOK, Works
<1>3. Unmoved' = Unmoved /\ Reachable(seen)' = Reachable(seen) /\ CopyIsCurrent'
  BY <1>1, <1>i DEF Unmoved, Live, Reachable, CopyIsCurrent
<1>4. CASE EnsureConfigMap
  <2> DEFINE s == [work.status EXCEPT !.ready = "True", !.endpoint = work.url]
             o == (cm = NULL \/ cm.owned)
             f == (cm # NULL /\ cm.foreign)
             c == Config(work.gen, work.url, work.cred, o, f)
  <2>1. cm' = c /\ cmFresh' = (cm = c) /\ Ends(work, "ok", s) /\ faults' = faults
    BY <1>4 DEF EnsureConfigMap, Stored
  <2>2. s \in Status /\ s.ready = "True" /\ s.endpoint = work.url
    BY <1>2 DEF Status
  <2>3. o \in BOOLEAN /\ f \in BOOLEAN
    BY <1>t DEF TypeOK, ConfigMaps
  <2> HIDE DEF s, o, f
  <2>4. c \in ConfigMaps /\ c.gen = work.gen /\ c.url = work.url /\ c.cred = work.cred /\ c # NULL
    BY <1>2, <2>3, WorldsAssumption DEF Config, ConfigMaps
  <2> HIDE DEF c
  <2>5. /\ work' \in Works /\ work'.pc = "status" /\ work'.gen = work.gen /\ work'.spec = work.spec
        /\ work'.verdict = "ok" /\ work'.status = s
    BY <1>2, <2>1, <2>2, EndsFacts DEF Verdicts
  <2>6. TypeOK'
    <3>1. cmFresh' \in BOOLEAN
      BY <2>1
    <3> QED BY <1>1, <1>t, <2>1, <2>4, <2>5, <3>1 DEF TypeOK
  <2>7. HasRead' /\ RestIsConfigured'
    BY <1>1, <1>i, <2>5 DEF HasRead, RestIsConfigured
  <2>8. WorkIsCurrent'
    <3> SUFFICES ASSUME Unmoved' PROVE WorkIsCurrent'
      BY DEF WorkIsCurrent
    <3>1. work.gen = trig.gen /\ work.spec = trig.spec /\ Reachable(seen) /\ work.url = seen.url
      BY <1>1, <1>3, <1>i DEF WorkIsCurrent
    <3>2. work.spec = "push" => last.has = "key" /\ work.cred = last.value
      BY <1>1, <1>i DEF HasRead
    <3>3. Succeeded(seen)'
      BY <1>1, <1>3, <2>1, <2>2, <2>4, <2>5, <3>1, <3>2 DEF Succeeded
    <3> QED BY <1>1, <2>5, <3>1, <3>3 DEF WorkIsCurrent
  <2> QED BY <1>3, <2>6, <2>7, <2>8 DEF TriggerIndInv
<1>5. CASE EnsureFails
  <2>1. UNCHANGED <<cm, cmFresh>> /\ Ends(work, "transient", work.status) /\ faults' \in 0..MaxFaults
    BY <1>5, <1>t, FaultFacts DEF EnsureFails, TypeOK
  <2>2. /\ work' \in Works /\ work'.pc = "status" /\ work'.gen = work.gen /\ work'.spec = work.spec
        /\ work'.verdict = "transient"
    BY <1>2, <2>1, EndsFacts DEF Verdicts
  <2>3. TypeOK'
    BY <1>1, <1>t, <2>1, <2>2 DEF TypeOK
  <2>4. HasRead' /\ RestIsConfigured' /\ WorkIsCurrent'
    BY <1>1, <1>3, <1>i, <2>2 DEF HasRead, WorkIsCurrent, RestIsConfigured
  <2> QED BY <1>3, <2>3, <2>4 DEF TriggerIndInv
<1> QED BY <1>4, <1>5

\* After a conflict the object is read again; nothing else moves.
LEMMA RefetchInv ==
  ASSUME TriggerIndInv, Refetch
  PROVE  TriggerIndInv'
<1>t. TypeOK
  BY DEF TriggerIndInv
<1>i. HasRead /\ WorkIsCurrent /\ CopyIsCurrent
  BY DEF TriggerIndInv
<1>1. /\ work.pc = "status" /\ work' = [work EXCEPT !.fresh = TRUE]
      /\ UNCHANGED <<trig, copy, noticed, agent, seen, secret, cm, cmFresh, queued, timer, last,
                     changes, faults, drift>>
  BY DEF Refetch, world
<1>2. /\ work' \in Works /\ work'.pc = "status" /\ work'.gen = work.gen /\ work'.spec = work.spec
      /\ work'.verdict = work.verdict /\ work'.status = work.status
  BY <1>1, <1>t DEF TypeOK, Works
<1>3. TypeOK'
  BY <1>1, <1>2, <1>t DEF TypeOK
<1>4. /\ HasRead' /\ CopyIsCurrent' /\ Unmoved' = Unmoved /\ RestIsConfigured'
      /\ GivesUp(seen)' = GivesUp(seen) /\ Succeeded(seen)' = Succeeded(seen)
  BY <1>1, <1>2, <1>i DEF HasRead, CopyIsCurrent, Unmoved, Live, RestIsConfigured, GivesUp, Succeeded,
                          Reachable
<1>5. WorkIsCurrent'
  BY <1>1, <1>2, <1>4, <1>i DEF WorkIsCurrent
<1> QED BY <1>3, <1>4, <1>5 DEF TriggerIndInv

\* The status is written, or not: the worker is idle again, and what it leaves is
\* configured, to be tried again, or given up on.
LEMMA StatusInv ==
  ASSUME TriggerIndInv, StatusWrite \/ StatusFails
  PROVE  TriggerIndInv'
<1>t. TypeOK
  BY DEF TriggerIndInv
<1>i. HasRead /\ WorkIsCurrent /\ CopyIsCurrent
  BY DEF TriggerIndInv
<1>1. /\ work.pc = "status" /\ work' = Idle
      /\ UNCHANGED <<copy, agent, seen, secret, cm, cmFresh, queued, changes, drift>>
  BY DEF StatusWrite, StatusFails, world
<1>2. work.status \in Status /\ work.gen \in 0..MaxGen /\ work.verdict \in Verdicts
      /\ work.spec \in Specs
  BY <1>t DEF TypeOK, Works
<1>3. work' \in Works /\ work'.pc = "idle"
  BY <1>1, IdleFacts
<1>4. HasRead' /\ WorkIsCurrent' /\ Reachable(seen)' = Reachable(seen)
  BY <1>1, <1>3 DEF HasRead, WorkIsCurrent, Reachable
<1>5. CASE StatusWrite
  <2> DEFINE s == [work.status EXCEPT !.gen = work.gen]
  <2>1. /\ trig # NULL /\ trig' = [trig EXCEPT !.status = s] /\ last' = last
        /\ noticed' = (noticed /\ trig.status = s) /\ timer' = (timer \/ Again(work.verdict))
        /\ faults' = faults
    BY <1>5 DEF StatusWrite
  <2>2. s \in Status /\ s.gen = work.gen /\ s.ready = work.status.ready
        /\ s.endpoint = work.status.endpoint
    BY <1>2 DEF Status
  <2> HIDE DEF s
  <2>3. /\ trig \in Triggers /\ trig' \in Triggers /\ trig'.status = s /\ trig'.gen = trig.gen
        /\ trig'.spec = trig.spec /\ trig'.deleting = trig.deleting
        /\ trig.status = s => trig' = trig
    BY <1>t, <2>1, <2>2 DEF TypeOK, Triggers
  <2>4. TypeOK'
    <3>1. noticed' \in BOOLEAN /\ timer' \in BOOLEAN
      BY <1>t, <2>1 DEF TypeOK, Again
    <3> QED BY <1>1, <1>3, <1>t, <2>1, <2>3, <3>1 DEF TypeOK
  <2>5. CopyIsCurrent'
    BY <1>1, <1>i, <2>1, <2>3 DEF CopyIsCurrent
  <2>6. RestIsConfigured'
    <3> SUFFICES ASSUME Unmoved', ~timer', drift' = 0
                 PROVE ConfiguredFor(seen)' \/ GivenUp(seen)'
      BY DEF RestIsConfigured
    <3>1. Unmoved /\ ~Again(work.verdict) /\ drift = 0
      BY <1>1, <2>1, <2>3 DEF Unmoved, Live
    <3>2. work.verdict \in {"ok", "permanent"} /\ work.gen = trig.gen /\ work.spec = trig.spec
      BY <1>1, <1>2, <1>i, <3>1 DEF Again, Verdicts, WorkIsCurrent
    <3>3. CASE work.verdict = "ok"
      <4>1. Succeeded(seen)
        BY <1>1, <1>i, <3>1, <3>3 DEF WorkIsCurrent
      <4>2. s.ready = "True" /\ CalculatePhase(s) = "Running"
        BY <2>2, <4>1 DEF CalculatePhase, Succeeded
      <4>3. ConfiguredFor(seen)'
        BY <1>1, <1>4, <2>1, <2>2, <2>3, <3>1, <3>2, <4>1, <4>2 DEF ConfiguredFor, Succeeded
      <4> QED BY <4>3
    <3>4. CASE work.verdict = "permanent"
      <4>1. GivesUp(seen)
        BY <1>1, <1>i, <3>1, <3>4 DEF WorkIsCurrent
      <4>2. work.status.ready = "Invalid" => CalculatePhase(s) = "Failed"
        BY <2>2 DEF CalculatePhase
      <4>3. GivenUp(seen)'
        BY <1>1, <1>4, <2>1, <2>2, <2>3, <3>2, <4>1, <4>2 DEF GivenUp, GivesUp
      <4> QED BY <4>3
    <3> QED BY <3>2, <3>3, <3>4
  <2> QED BY <1>4, <2>4, <2>5, <2>6 DEF TriggerIndInv
<1>6. CASE StatusFails
  <2>1. /\ timer' = (timer \/ work.verdict = "ok" \/ Again(work.verdict))
        /\ UNCHANGED <<trig, noticed>> /\ last' = [last EXCEPT !.told = FALSE]
        /\ faults' \in 0..MaxFaults
    BY <1>6, <1>t, FaultFacts DEF StatusFails, TypeOK
  <2>2. last' \in Reads /\ last'.told = FALSE /\ last'.has = last.has /\ last'.value = last.value
    BY <1>t, <2>1 DEF TypeOK, Reads
  <2>3. TypeOK' /\ CopyIsCurrent'
    <3>1. timer' \in BOOLEAN
      BY <1>t, <2>1 DEF TypeOK, Again
    <3> QED BY <1>1, <1>3, <1>i, <1>t, <2>1, <2>2, <3>1 DEF TypeOK, CopyIsCurrent
  <2>4. RestIsConfigured'
    <3> SUFFICES ASSUME Unmoved', ~timer' PROVE GivenUp(seen)'
      BY DEF RestIsConfigured
    <3>1. Unmoved /\ ~Again(work.verdict) /\ work.verdict # "ok" /\ trig # NULL
      BY <1>1, <2>1 DEF Unmoved, Live
    <3>2. work.verdict = "permanent" /\ work.spec = trig.spec
      BY <1>1, <1>2, <1>i, <3>1 DEF Again, Verdicts, WorkIsCurrent
    <3>3. GivesUp(seen)
      BY <1>1, <1>i, <3>1, <3>2 DEF WorkIsCurrent
    <3> QED BY <1>1, <1>4, <2>1, <2>2, <3>2, <3>3 DEF GivenUp, GivesUp
  <2> QED BY <1>4, <2>3, <2>4 DEF TriggerIndInv
<1> QED BY <1>5, <1>6

\* Every step keeps the invariant, where the controller hears of its agent.
LEMMA TriggerStep == SameNamespace /\ TriggerIndInv /\ [Next]_vars => TriggerIndInv'
<1> SUFFICES ASSUME SameNamespace, TriggerIndInv, [Next]_vars PROVE TriggerIndInv'
  OBVIOUS
<1>1. CASE UNCHANGED vars
  BY <1>1 DEF vars, TriggerIndInv, TypeOK, HasRead, CopyIsCurrent, WorkIsCurrent, RestIsConfigured,
              Unmoved, Live, ConfiguredFor, GivenUp, GivesUp, Succeeded, Reachable, CalculatePhase
<1>2. CASE ReconcileGone \/ RemoveFinalizer \/ AddFinalizer \/ FinalizerFails
  BY <1>2, FinalizerInv
<1>3. CASE ReconcileSpec
  BY <1>3, SpecInv
<1>4. CASE ResolvePush \/ ResolveFails
  BY <1>4, PushInv
<1>5. CASE EnsureConfigMap \/ EnsureFails
  BY <1>5, EnsureInv
<1>6. CASE StatusWrite \/ StatusFails
  BY <1>6, StatusInv
<1>7. CASE Refetch
  BY <1>7, RefetchInv
<1>8. CASE \/ ObserveTrigger \/ ObserveAgent \/ ObserveConfigMap \/ TimerFires \/ Restart
           \/ ChangeAgent \/ ChangeSecret
           \/ (\E s \in Specs : EditTrigger(s)) \/ DeleteTrigger \/ CollectConfigMap \/ Drift
  BY <1>8, OtherStepInv
<1> QED BY <1>1, <1>2, <1>3, <1>4, <1>5, <1>6, <1>7, <1>8 DEF Next, Reconcile

\* A new trigger.
LEMMA TriggerStart == Init => TriggerIndInv
<1> SUFFICES ASSUME Init PROVE TriggerIndInv
  OBVIOUS
<1>1. PICK x \in Worlds :
        /\ trig = [gen |-> 1, spec |-> x.spec, finalizer |-> FALSE, deleting |-> FALSE,
                   status |-> NoStatus]
        /\ agent = x.agent /\ secret = x.secret
        /\ cm = IF x.taken THEN ForeignConfigMap ELSE NULL
  BY DEF Init
<1>2. /\ copy = trig /\ noticed = TRUE /\ seen = agent /\ cmFresh = TRUE
      /\ queued = TRUE /\ timer = FALSE /\ work = Idle /\ last = Unread
      /\ changes = 0 /\ faults = 0 /\ drift = 0
  BY DEF Init
<1>3. NoStatus \in Status
  BY TriggerAssumption DEF NoStatus, Status
<1>4. /\ 1 \in 1..MaxGen /\ 0 \in 0..MaxChanges /\ 0 \in 0..MaxFaults /\ 0 \in 0..MaxDrift
      /\ 0 \in 0..MaxGen /\ 0 \in 0..(MaxChanges + 1)
  BY TriggerAssumption
<1>5. x.spec \in Specs /\ x.agent \in Agents /\ x.secret \in Secrets
  BY WorldsAssumption
<1>6. trig \in Triggers
  BY <1>1, <1>3, <1>4, <1>5 DEF Triggers
<1>7. cm \in ConfigMaps \cup {NULL}
  BY <1>1, <1>4 DEF ForeignConfigMap, Config, ConfigMaps
<1>8. TypeOK
  BY <1>1, <1>2, <1>4, <1>5, <1>6, <1>7, IdleFacts DEF TypeOK
<1> QED BY <1>2, <1>8, IdleFacts
        DEF TriggerIndInv, HasRead, CopyIsCurrent, WorkIsCurrent, RestIsConfigured, Unmoved

\* A trigger in its agent's namespace, with or without push credentials: whatever the
\* order of edits, of changes of the agent and of its Secret, of failed requests,
\* conflicts, restarts and retries, and however stale what the controller reads, it
\* comes to rest only with the ConfigMap, the status and the endpoint of the current
\* trigger and agent, or on an error it has given up on.
THEOREM TriggerRests ==
  ASSUME SameNamespace
  PROVE  Spec => []TriggerInv
<1>1. Init => TriggerIndInv
  BY TriggerStart
<1>2. TriggerIndInv /\ [Next]_vars => TriggerIndInv'
  BY TriggerStep
<1>3. TriggerIndInv => TriggerInv
  BY DEF TriggerIndInv, TriggerInv, RestsOnlyWhenConfigured, RestIsConfigured, AtRest, Unmoved
<1> QED BY <1>1, <1>2, <1>3, PTL DEF Spec

=============================================================================
