-------------------------- MODULE TriggerReconcile --------------------------
(***************************************************************************)
(* The AgentTrigger controller: it resolves the target agent's endpoint    *)
(* and the push secret, writes the trigger's ConfigMap for flokoa-server   *)
(* and reports in the trigger's status.  One trigger and the Agent it      *)
(* names, both read from the informer cache and watched; its ConfigMap,    *)
(* read from the cache but not watched; and the Secret its push            *)
(* notification names, read live and not watched.                          *)
(*                                                                         *)
(* resourceVersions appear as freshness flags: noticed, work.fresh and     *)
(* cmFresh say that the informer's copy of the trigger, the worker's copy  *)
(* of it and the informer's copy of the ConfigMap are the server's current *)
(* version.  A write from a copy that is not meets a conflict (NotFound,   *)
(* AlreadyExists); one that changes nothing raises no event.               *)
(***************************************************************************)
EXTENDS Integers

CONSTANTS
  SameNamespace, \* does the trigger live in the agent's namespace?
  Worlds,        \* how it may begin: the trigger's spec, its agent, its Secret and
                 \* whether somebody else's ConfigMap has its name
  MaxGen,        \* bound on the trigger's generations
  MaxChanges,    \* bound on changes of the agent and of the secret
  MaxFaults,     \* bound on failed API requests and restarts
  MaxDrift,      \* bound on foreign edits of the ConfigMap
  MaxMishaps,    \* bound on edits, changes, faults and drift together
  NULL

ASSUME TriggerAssumption ==
  /\ SameNamespace \in BOOLEAN
  /\ MaxGen \in Nat \ {0} /\ MaxChanges \in Nat
  /\ MaxFaults \in Nat /\ MaxDrift \in Nat /\ MaxMishaps \in Nat

VARIABLES
  trig,            \* the AgentTrigger, NULL once gone
  copy, noticed,   \* the informer's copy of it; is that the current version?
  agent, seen,     \* the Agent's status, and the informer's copy of it
  secret,          \* what reading the push credentials gives
  cm, cmFresh,     \* the trigger's ConfigMap; is the informer's copy current?
  queued, timer,   \* the workqueue: a request, and a delayed one
  work,            \* the reconcile under way
  last,            \* history: what the last reconcile read of the Secret, and
                   \* whether its outcome could be reported
  changes, faults, drift

world == <<agent, secret, changes>>
vars  == <<trig, copy, noticed, agent, seen, secret, cm, cmFresh, queued, timer, work,
           last, changes, faults, drift>>

-----------------------------------------------------------------------------
Specs == {"invalid", "plain", "push"}

\* The Agent's phase and its URL, 0 when the status has none.  One that is not
\* there is like one that is not Running, whose URL is not looked at.
Agents == {a \in [phase : {"Pending", "Running"}, url : 0..(MaxChanges + 1)] :
             a.phase = "Pending" => a.url = 0}

\* A Secret: is it there (and the push target agent, which need only exist), has it
\* the key the trigger names, and the value.
Secrets == [has : {"absent", "nokey", "key"}, value : 1..(MaxChanges + 1)]

Verdicts == {"ok", "permanent", "dependency", "transient"}

\* Conditions Ready and AgentReady, observedGeneration and agentEndpoint; the
\* phase follows from Ready.
Status == [ready : {"none", "True", "Invalid", "False"},
           agentReady : {"none", "True", "False"},
           gen : 0..MaxGen, endpoint : 0..(MaxChanges + 1)]

NoStatus == [ready |-> "none", agentReady |-> "none", gen |-> 0, endpoint |-> 0]

CalculatePhase(s) == CASE s.ready = "none"    -> "Pending"
                       [] s.ready = "True"    -> "Running"
                       [] s.ready = "Invalid" -> "Failed"
                       [] OTHER               -> "Pending"

\* The generation and the values a ConfigMap was written from, 0 for somebody
\* else's content; the owner reference; and whether the controller created it.
ConfigMaps == [gen : 0..MaxGen, url : 0..(MaxChanges + 1), cred : 0..(MaxChanges + 1),
               owned : BOOLEAN, foreign : BOOLEAN]

ASSUME WorldsAssumption ==
  /\ NULL \notin ConfigMaps
  /\ Worlds \subseteq [spec : Specs, agent : Agents, secret : Secrets, taken : BOOLEAN]

Config(g, u, c, o, f) == [gen |-> g, url |-> u, cred |-> c, owned |-> o, foreign |-> f]

\* A ConfigMap of this name that somebody else made.
ForeignConfigMap == Config(0, 0, 0, FALSE, TRUE)

Idle == [pc |-> "idle", gen |-> 0, spec |-> "plain", status |-> NoStatus,
         url |-> 0, cred |-> 0, verdict |-> "ok", fresh |-> TRUE]

Unread == [has |-> "unread", value |-> 0, told |-> TRUE]

Init ==
  /\ \E x \in Worlds :
       /\ trig = [gen |-> 1, spec |-> x.spec, finalizer |-> FALSE,
                  deleting |-> FALSE, status |-> NoStatus]
       /\ agent = x.agent /\ secret = x.secret
       /\ cm = IF x.taken THEN ForeignConfigMap ELSE NULL
  /\ copy = trig /\ noticed = TRUE /\ seen = agent /\ cmFresh = TRUE
  /\ queued = TRUE /\ timer = FALSE
  /\ work = Idle /\ last = Unread
  /\ changes = 0 /\ faults = 0 /\ drift = 0

Mishap ==
  (IF trig = NULL THEN MaxGen ELSE trig.gen) - 1 + changes + faults + drift < MaxMishaps

Fault  == Mishap /\ faults < MaxFaults /\ faults' = faults + 1
Change == Mishap /\ changes < MaxChanges /\ changes' = changes + 1

Step(pc, w) == work' = [w EXCEPT !.pc = pc]

-----------------------------------------------------------------------------
Take == work.pc = "idle" /\ queued /\ queued' = FALSE

\* The cached Get finds no trigger.
ReconcileGone ==
  /\ Take /\ copy = NULL
  /\ UNCHANGED <<trig, copy, noticed, seen, cm, cmFresh, timer, work, last, faults, drift, world>>

\* Deletion: what the trigger owns is left to the garbage collector.  The update
\* from a stale copy is refused and the request comes back.
RemoveFinalizer ==
  /\ Take /\ copy # NULL /\ copy.deleting
  /\ IF noticed THEN trig' = NULL /\ noticed' = FALSE /\ UNCHANGED timer
                ELSE timer' = TRUE /\ UNCHANGED <<trig, noticed>>
  /\ UNCHANGED <<copy, seen, cm, cmFresh, work, last, faults, drift, world>>

\* Mutant of AddFinalizer: it is added to the copy and never written.
AddFinalizerUnwritten ==
  /\ Take /\ copy # NULL /\ ~copy.deleting /\ ~copy.finalizer
  /\ timer' = TRUE
  /\ UNCHANGED <<trig, copy, noticed, seen, cm, cmFresh, work, last, faults, drift, world>>

\* Once it is set, or its update refused, the request comes back.
AddFinalizer ==
  /\ Take /\ copy # NULL /\ ~copy.deleting /\ ~copy.finalizer
  /\ IF noticed THEN trig' = [trig EXCEPT !.finalizer = TRUE] /\ noticed' = FALSE
                ELSE UNCHANGED <<trig, noticed>>
  /\ timer' = TRUE
  /\ UNCHANGED <<copy, seen, cm, cmFresh, work, last, faults, drift, world>>

\* Either update fails: controller-runtime tries again.
FinalizerFails ==
  /\ Take /\ copy # NULL /\ (copy.deleting \/ ~copy.finalizer)
  /\ Fault /\ timer' = TRUE
  /\ UNCHANGED <<trig, copy, noticed, seen, cm, cmFresh, work, last, drift, world>>

\* The outcome goes to the status write; conditions are set on the way.
Ends(w, v, s) == Step("status", [w EXCEPT !.verdict = v, !.status = s])

\* An agent that can be called.
Reachable(a) == a.phase = "Running" /\ a.url # 0

\* ValidateSpec, then the agent is read from the cache.  An agent without a URL
\* leaves the Ready condition as it was.
ReconcileSpec ==
  LET w == [Idle EXCEPT !.gen = copy.gen, !.spec = copy.spec, !.status = copy.status,
                        !.fresh = noticed] IN
  /\ Take /\ copy # NULL /\ ~copy.deleting /\ copy.finalizer
  /\ CASE w.spec = "invalid" ->
            Ends(w, "permanent", [w.status EXCEPT !.ready = "Invalid"])
       [] w.spec # "invalid" /\ seen.phase # "Running" ->
            Ends(w, "dependency", [w.status EXCEPT !.ready = "False",
                                                   !.agentReady = "False"])
       [] w.spec # "invalid" /\ seen.phase = "Running" /\ seen.url = 0 ->
            Ends(w, "dependency", [w.status EXCEPT !.agentReady = "False"])
       [] OTHER ->
            Step(IF w.spec = "push" THEN "push" ELSE "ensure",
                 [w EXCEPT !.url = seen.url, !.status.agentReady = "True"])
  /\ last' = Unread
  /\ UNCHANGED <<trig, copy, noticed, seen, cm, cmFresh, timer, faults, drift, world>>

\* resolvePushConfig: a missing secret may appear, a missing key may not.
PushVerdict(s) == IF s.has = "absent" THEN "dependency" ELSE "permanent"

\* Its errors set no condition.
ResolvePush ==
  /\ work.pc = "push"
  /\ IF secret.has # "key"
     THEN Ends(work, PushVerdict(secret), work.status)
     ELSE Step("ensure", [work EXCEPT !.cred = secret.value])
  /\ last' = [last EXCEPT !.has = secret.has, !.value = secret.value]
  /\ UNCHANGED <<trig, copy, noticed, seen, cm, cmFresh, queued, timer, faults, drift, world>>

\* A Secret that cannot be read is taken for a missing one.
ResolveFails ==
  /\ work.pc = "push" /\ Fault
  /\ Ends(work, "dependency", work.status)
  /\ UNCHANGED <<trig, copy, noticed, seen, cm, cmFresh, queued, timer, last, drift, world>>

\* The ConfigMap is written with content c, and the success recorded.
Stored(c) ==
  /\ work.pc = "ensure" /\ cmFresh
  /\ cm' = c /\ cmFresh' = (cm = c)
  /\ Ends(work, "ok", [work.status EXCEPT !.ready = "True", !.endpoint = work.url])
  /\ UNCHANGED <<trig, copy, noticed, seen, queued, timer, last, faults, drift, world>>

\* Mutant of EnsureConfigMap: no owner is set.
EnsureUnowned ==
  Stored(Config(work.gen, work.url, work.cred, FALSE, cm # NULL /\ cm.foreign))

\* Mutant of EnsureConfigMap: one that is there is kept.
EnsureOnce ==
  Stored(IF cm = NULL THEN Config(work.gen, work.url, work.cred, TRUE, FALSE) ELSE cm)

\* EnsureConfigMap creates the ConfigMap with its owner, or overwrites the
\* data of the one there is, whosever it is.
EnsureConfigMap ==
  Stored(Config(work.gen, work.url, work.cred, cm = NULL \/ cm.owned,
                cm # NULL /\ cm.foreign))

\* The create or update fails, or is refused because the copy is stale.
EnsureFails ==
  /\ work.pc = "ensure" /\ (IF cmFresh THEN Fault ELSE UNCHANGED faults)
  /\ Ends(work, "transient", work.status)
  /\ UNCHANGED <<trig, copy, noticed, seen, cm, cmFresh, queued, timer, last, drift, world>>

\* Mutant of Again: a missing dependency is not looked at again.
AgainTransientOnly(v) == v = "transient"

\* handleReconcileError: which outcomes are tried again after a delay.
Again(v) == v \in {"dependency", "transient"}

\* updateStatusWithRetry: the status computed from the copy read is written
\* over whatever the object is by now.
StatusWrite ==
  LET s == [work.status EXCEPT !.gen = work.gen] IN
  /\ work.pc = "status" /\ trig # NULL /\ work.fresh
  /\ trig' = [trig EXCEPT !.status = s]
  /\ noticed' = (noticed /\ trig.status = s)
  /\ timer' = (timer \/ Again(work.verdict))
  /\ work' = Idle
  /\ UNCHANGED <<copy, seen, cm, cmFresh, queued, last, faults, drift, world>>

\* ... after a conflict the object is read again, from the cache.
Refetch ==
  /\ work.pc = "status" /\ ~work.fresh /\ noticed /\ copy # NULL
  /\ work' = [work EXCEPT !.fresh = TRUE]
  /\ UNCHANGED <<trig, copy, noticed, seen, cm, cmFresh, queued, timer, last, faults, drift, world>>

\* The write fails, the conflicts do not end, or the trigger is gone: an error
\* after a success, only logged after an error.
StatusFails ==
  /\ work.pc = "status"
  /\ IF work.fresh /\ trig # NULL THEN Fault ELSE UNCHANGED faults
  /\ timer' = (timer \/ work.verdict = "ok" \/ Again(work.verdict))
  /\ work' = Idle /\ last' = [last EXCEPT !.told = FALSE]
  /\ UNCHANGED <<trig, copy, noticed, seen, cm, cmFresh, queued, drift, world>>

-----------------------------------------------------------------------------
\* The informer takes over the trigger (its status writes included).
ObserveTrigger ==
  /\ ~noticed /\ noticed' = TRUE /\ copy' = trig /\ queued' = TRUE
  /\ UNCHANGED <<trig, seen, cm, cmFresh, timer, work, last, faults, drift, world>>

\* findTriggersForAgent lists the agent's own namespace only.
FindTriggersForAgent == SameNamespace /\ copy # NULL

ObserveAgent ==
  /\ seen # agent /\ seen' = agent
  /\ queued' = (queued \/ FindTriggersForAgent)
  /\ UNCHANGED <<trig, copy, noticed, cm, cmFresh, timer, work, last, faults, drift, world>>

\* ConfigMaps are cached for another controller; a trigger's wakes nobody.
ObserveConfigMap ==
  /\ ~cmFresh /\ cmFresh' = TRUE
  /\ UNCHANGED <<trig, copy, noticed, seen, cm, queued, timer, work, last, faults, drift, world>>

TimerFires ==
  /\ timer /\ timer' = FALSE /\ queued' = TRUE
  /\ UNCHANGED <<trig, copy, noticed, seen, cm, cmFresh, work, last, faults, drift, world>>

\* The operator dies and a new process lists everything.
Restart ==
  /\ Fault
  /\ work' = Idle /\ timer' = FALSE /\ queued' = TRUE
  /\ copy' = trig /\ noticed' = TRUE /\ seen' = agent /\ cmFresh' = TRUE
  /\ UNCHANGED <<trig, cm, last, drift, world>>

ChangeAgent ==
  /\ Change
  /\ agent' \in {a \in Agents : a.url \in {0, agent.url, changes + 2}} \ {agent}
  /\ UNCHANGED <<trig, copy, noticed, seen, secret, cm, cmFresh, queued, timer, work, last,
                 faults, drift>>

ChangeSecret ==
  /\ Change
  /\ secret' \in {x \in Secrets : x.value = changes + 2}
  /\ UNCHANGED <<trig, copy, noticed, agent, seen, cm, cmFresh, queued, timer, work, last,
                 faults, drift>>

\* Somebody writes the trigger: copies of it are behind.
Outdated == noticed' = FALSE /\ work' = [work EXCEPT !.fresh = FALSE]

EditTrigger(s) ==
  /\ Mishap /\ trig # NULL /\ ~trig.deleting /\ trig.gen < MaxGen
  /\ trig' = [trig EXCEPT !.gen = @ + 1, !.spec = s]
  /\ Outdated
  /\ UNCHANGED <<copy, seen, cm, cmFresh, queued, timer, last, faults, drift, world>>

DeleteTrigger ==
  /\ trig # NULL /\ ~trig.deleting
  /\ trig' = IF trig.finalizer THEN [trig EXCEPT !.deleting = TRUE] ELSE NULL
  /\ Outdated
  /\ UNCHANGED <<copy, seen, cm, cmFresh, queued, timer, last, faults, drift, world>>

\* The garbage collector removes what a deleted trigger owned.
CollectConfigMap ==
  /\ trig = NULL /\ cm # NULL /\ cm.owned /\ cm' = NULL /\ cmFresh' = FALSE
  /\ UNCHANGED <<trig, copy, noticed, seen, queued, timer, work, last, faults, drift, world>>

\* Somebody makes, edits or deletes the ConfigMap; it is not watched.
Drift ==
  /\ Mishap /\ drift < MaxDrift /\ drift' = drift + 1
  /\ IF cm = NULL THEN cm' = ForeignConfigMap
     ELSE cm' \in {NULL, Config(0, 0, 0, cm.owned, cm.foreign)}
  /\ cmFresh' = FALSE
  /\ UNCHANGED <<trig, copy, noticed, seen, queued, timer, work, last, faults, world>>

Reconcile == \/ ReconcileGone \/ RemoveFinalizer \/ AddFinalizer \/ FinalizerFails
             \/ ReconcileSpec \/ ResolvePush \/ ResolveFails \/ EnsureConfigMap \/ EnsureFails
             \/ StatusWrite \/ Refetch \/ StatusFails

Next == \/ Reconcile
        \/ ObserveTrigger \/ ObserveAgent \/ ObserveConfigMap \/ TimerFires \/ Restart
        \/ ChangeAgent \/ ChangeSecret
        \/ \E s \in Specs : EditTrigger(s)
        \/ DeleteTrigger \/ CollectConfigMap \/ Drift

Spec == Init /\ [][Next]_vars

\* The worker runs, informers deliver, timers fire, garbage is collected.
FairSpec == /\ Spec /\ WF_vars(Reconcile) /\ WF_vars(ObserveTrigger)
            /\ WF_vars(ObserveAgent) /\ WF_vars(ObserveConfigMap) /\ WF_vars(TimerFires)
            /\ WF_vars(CollectConfigMap)

-----------------------------------------------------------------------------
Triggers == [gen : 1..MaxGen, spec : Specs, finalizer : BOOLEAN, deleting : BOOLEAN,
             status : Status]

Works == [pc : {"idle", "push", "ensure", "status"}, gen : 0..MaxGen, spec : Specs,
          status : Status, url : 0..(MaxChanges + 1), cred : 0..(MaxChanges + 1),
          verdict : Verdicts, fresh : BOOLEAN]

Reads == [has : {"unread", "absent", "nokey", "key"}, value : 0..(MaxChanges + 1),
          told : BOOLEAN]

\* The trigger, its copies, its ConfigMap and the reconcile under way have the shapes
\* of the code.
TypeOK ==
  /\ trig \in Triggers \cup {NULL} /\ copy \in Triggers \cup {NULL} /\ noticed \in BOOLEAN
  /\ agent \in Agents /\ seen \in Agents /\ secret \in Secrets
  /\ cm \in ConfigMaps \cup {NULL} /\ cmFresh \in BOOLEAN
  /\ queued \in BOOLEAN /\ timer \in BOOLEAN
  /\ work \in Works /\ last \in Reads
  /\ changes \in 0..MaxChanges /\ faults \in 0..MaxFaults /\ drift \in 0..MaxDrift

\* Nothing is under way and nothing is going to happen by itself.
AtRest == work.pc = "idle" /\ ~queued /\ ~timer /\ noticed /\ seen = agent

Live == trig # NULL /\ ~trig.deleting

\* The ConfigMap and the status are of the current trigger and of agent a, and of the
\* Secret as it was read last.
ConfiguredFor(a) ==
  /\ Reachable(a) /\ cm # NULL
  /\ cm.gen = trig.gen /\ cm.url = a.url
  /\ trig.spec = "push" => last.has = "key" /\ cm.cred = last.value
  /\ CalculatePhase(trig.status) = "Running"
  /\ trig.status.gen = trig.gen /\ trig.status.endpoint = a.url

\* An error the controller gives up on, with agent a: an invalid spec, or a Secret
\* in which the last reconcile did not find the key.  It is reported, unless that
\* status write failed: it is not tried again.
GivenUp(a) ==
  \/ /\ trig.spec = "invalid"
     /\ \/ ~last.told
        \/ CalculatePhase(trig.status) = "Failed" /\ trig.status.gen = trig.gen
  \/ /\ trig.spec = "push" /\ Reachable(a) /\ last.has = "nokey"
     /\ ~last.told \/ trig.status.gen = trig.gen

\* The controller comes to rest on a trigger only with the agent's current
\* endpoint, the current generation and the credentials last read in the ConfigMap,
\* and reported; or on an error it has given up on.
RestsOnlyWhenConfigured ==
  AtRest /\ Live /\ drift = 0 => ConfiguredFor(agent) \/ GivenUp(agent)

\* The trigger controller's state is well formed, and it rests only on a ConfigMap
\* that holds the current spec and endpoint.
TriggerInv == TypeOK /\ RestsOnlyWhenConfigured

\* A trigger whose agent stays reachable ends up configured for good, through stale
\* copies, failed requests, restarts and dependencies that come late; one with a push
\* Secret does unless the Secret ever lacked the key.
ConfigurationSettles ==
  /\ <>[](Live /\ Reachable(agent) /\ drift = 0)
  /\ \/ <>[](trig # NULL /\ trig.spec = "plain")
     \/ /\ [](secret.has # "nokey")
        /\ <>[](trig # NULL /\ trig.spec = "push" /\ secret.has = "key")
  => <>[](trig # NULL /\ cm # NULL /\ cm.gen = trig.gen /\ cm.url = agent.url
          /\ CalculatePhase(trig.status) = "Running")

\* A deleted trigger leaves no ConfigMap of its own behind: not even when a
\* reconcile that read it before the deletion writes the ConfigMap after it.
NothingLeftBehind == [](trig = NULL => <>[](cm = NULL \/ cm.foreign))
=============================================================================
