--------------------------- MODULE AgentReconcile ---------------------------
(***************************************************************************)
(* The Agent controller: one Agent object, the objects it references, the  *)
(* objects it owns, the informer cache between the API server and the      *)
(* operator, the work queue, and one worker that runs                      *)
(* AgentReconciler.Reconcile step by step.                                 *)
(*                                                                         *)
(* controller-runtime never runs two reconciles of one key at a time, and  *)
(* Agents share nothing but the objects they reference, so one Agent is    *)
(* the whole story of the control flow.                                    *)
(*                                                                         *)
(* resourceVersions appear as freshness flags: cFresh, wFresh and ofresh   *)
(* say that the informer's copy of the Agent, the worker's copy of the     *)
(* Agent and the informer's copy of an owned object still carry the        *)
(* server's current resourceVersion.  A write from a copy that does not is *)
(* the API server's Conflict, AlreadyExists or NotFound.  An update that   *)
(* changes nothing is dropped by the API server: no new resourceVersion    *)
(* and no watch event.                                                     *)
(***************************************************************************)
EXTENDS Integers, Sequences

CONSTANTS
  Deps,         \* the Model, ModelProvider, Instruction, AgentTool and
                \* Capability objects an Agent may reference, and the Services
                \* its AgentTools name with a port name
  Unwatched,    \* those Services: a change of theirs wakes nobody
  Contents,     \* what such an object may hold, its absence included
  Specs,        \* the Agent specs users may write
  NULL,         \* "no such object" / "not read"
  Drifted,      \* the content of an owned object after a foreign edit
  Workload,     \* a Service as built: it selects the Agent's own pods
  MaxGen,       \* bound on metadata.generation of the Agent
  MaxSecret,    \* bound on the versions of the referenced Secret
  StatusTries,  \* status writes updateStatusWithRetry makes before it gives up
  Budgets       \* scenarios: how often each kind of disturbance may happen

Verdicts == {"ok", "unmountable", "dependency", "permanent", "invalid", "error"}

\* References that resolve: with "unmountable" (a Capability whose name is no DNS
\* label) no Deployment can be built, with "invalid" the document is refused.
Resolvable == {"ok", "unmountable", "invalid"}

Disturbances == {"edit", "delete", "dep", "service", "rotate", "drift", "avail", "fault",
                 "restart"}

Owned == {"configmap", "deployment", "runtime", "published"}

\* The steps of one reconcile; a step named after an owned object ensures it.
Steps == {"idle", "compile", "secrets", "status"} \cup Owned

\* A referenced object: how compiling a reference to it ends, what it adds to
\* the document (doc) and to the pod template (art: env, images, mounts).
ASSUME ContentsAssumption ==
  /\ \A c \in Contents : c.verdict \in Verdicts
  /\ NULL \notin Contents
  /\ Unwatched \subseteq Deps

\* A Service has the named port or is still to get it.
ContentsOf(d) ==
  IF d \in Unwatched THEN {c \in Contents : c.verdict \in {"ok", "dependency"}}
                     ELSE Contents

\* An Agent spec: its references in the order Compile resolves them, and how
\* compiling ends when every reference resolves.
ASSUME SpecsAssumption ==
  \A s \in Specs : /\ s.refs \in Seq(Deps)
                   /\ s.verdict \in {"ok", "permanent", "invalid"}

ASSUME BoundsAssumption ==
  /\ MaxGen \in Nat \ {0} /\ MaxSecret \in Nat /\ StatusTries \in Nat
  /\ Budgets \subseteq [Disturbances -> Nat]

VARIABLES
  agent,    \* the Agent on the API server: life, fin, spec, gen, st (status)
  deps,     \* the referenced objects on the API server
  obj,      \* the owned objects on the API server
  avail,    \* the Deployment's status.availableReplicas > 0
  secret,   \* resourceVersion of the referenced Secret, 0 when missing
  cAgent, cFresh,   \* the Agent in the informer cache
  cDeps,            \* the referenced objects in the informer cache
  ofresh,           \* the informer's copies of the owned objects are current
  notify,   \* referenced objects whose watch event is not yet mapped to Agents
  dirty,    \* the Agent's key is in the work queue
  delayed,  \* a RequeueAfter or a rate-limited requeue is pending
  pc, w, wFresh,    \* the worker: its step and its in-memory state
  env       \* disturbances still to come

server == <<agent, deps, obj, avail, secret>>
cache  == <<cAgent, cFresh, cDeps, ofresh, notify>>
queue  == <<dirty, delayed>>
worker == <<pc, w, wFresh>>
vars   == <<server, cache, queue, worker, env>>

-----------------------------------------------------------------------------
(* Compiling. *)

Seen == [Deps -> Contents \cup {NULL}]

Refs(s) == {s.refs[i] : i \in 1..Len(s.refs)}

\* compiled.Hash covers the resolved document and nothing else.
Hash(s, seen) ==
  [doc  |-> s.doc,
   deps |-> [d \in Deps |-> IF seen[d] = NULL THEN NULL ELSE seen[d].doc]]

\* What EnsureDeployment writes: the pod template with its hashes and inputs.
Template(s, seen, sec) ==
  [hash    |-> Hash(s, seen),
   art     |-> [d \in Deps |-> IF seen[d] = NULL THEN NULL ELSE seen[d].art],
   runtime |-> s.runtime,
   secret  |-> sec]

\* The content the reconcile in progress gives to owned object k.
Desired(k, r) ==
  CASE k = "configmap"  -> [hash |-> Hash(r.spec, r.seen), card |-> r.spec.card]
    [] k = "deployment" -> Template(r.spec, r.seen, r.secret)
    [] OTHER            -> Workload

\* The view of the referenced objects f that an Agent with spec s has.
Visible(s, f) == [d \in Deps |-> IF d \in Refs(s) THEN f[d] ELSE NULL]

\* Does spec s compile when its references hold f?
Compiles(s, f) == /\ s.verdict = "ok"
                  /\ \A d \in Refs(s) : f[d].verdict \in {"ok", "unmountable"}

\* Can a Deployment be built from it?
Mounts(s, f) == \A d \in Refs(s) : f[d].verdict # "unmountable"

-----------------------------------------------------------------------------
(* Status. *)

Hashes == {Hash(s, f) : s \in Specs, f \in Seen}

Status ==
  [obs : 0..MaxGen, hash : {NULL} \cup Hashes,
   valid : {"none", "true", "false"}, validGen : 0..MaxGen,
   secrets : {"none", "true", "false"}, ready : {"none", "true", "false"},
   phase : {"", "Pending", "Running", "Failed"}, url : BOOLEAN]

NoStatus == [obs |-> 0, hash |-> NULL, valid |-> "none", validGen |-> 0,
             secrets |-> "none", ready |-> "none", phase |-> "", url |-> FALSE]

\* SetCondition(SpecValid, ...) stamps the generation the worker holds.
SpecValid(r, v) == [r.st EXCEPT !.valid = v, !.validGen = r.gen]

\* The status a failed compile leaves: only a permanent error moves the phase.
FailedCompile(r, verdict) ==
  IF verdict = "permanent" THEN [SpecValid(r, "false") EXCEPT !.phase = "Failed"]
                           ELSE SpecValid(r, "false")

\* The status of a reconcile that went through.
Reconciled(r) ==
  [r.st EXCEPT !.phase = IF r.avail THEN "Running" ELSE "Pending",
               !.url   = TRUE,
               !.obs   = r.gen,
               !.ready = IF r.avail THEN "true" ELSE "false"]

\* Mutant of Result: a missing dependency is not requeued.
ResultNoRequeue(verdict) == IF verdict = "error" THEN "error" ELSE "done"

\* How a reconcile ends: requeue after 30s, back off, or wait for an event.
Result(verdict) ==
  CASE verdict = "dependency" -> "dependency"
    [] verdict = "error"      -> "error"
    [] OTHER                  -> "done"

-----------------------------------------------------------------------------
Worker == [spec : Specs, gen : 0..MaxGen, st : Status, seen : Seen,
           next : Nat \ {0}, secret : 0..MaxSecret, avail : BOOLEAN,
           result : {"done", "dependency", "error"}, tries : Nat]

AgentType == [life : {"live", "deleting", "gone"}, fin : BOOLEAN,
              spec : Specs, gen : 0..MaxGen, st : Status]

Unseen == [d \in Deps |-> NULL]

\* The worker's state when it has just read copy a of the Agent.
Loaded(a) == [spec |-> a.spec, gen |-> a.gen, st |-> a.st, seen |-> Unseen,
              next |-> 1, secret |-> 0, avail |-> FALSE, result |-> "done",
              tries |-> StatusTries]

\* A new Agent, just listed by the informer; its references are arbitrary.
Init ==
  \E s \in Specs, f \in [Deps -> Contents] :
    /\ \A d \in Deps : f[d] \in ContentsOf(d)
    /\ agent = [life |-> "live", fin |-> FALSE, spec |-> s, gen |-> 1, st |-> NoStatus]
    /\ deps = f
    /\ obj = [k \in Owned |-> NULL]
    /\ avail = FALSE
    /\ secret \in 0..MaxSecret
    /\ cAgent = agent /\ cFresh = TRUE
    /\ cDeps = deps
    /\ ofresh = [k \in Owned |-> TRUE]
    /\ notify = {}
    /\ dirty = TRUE /\ delayed = FALSE
    /\ pc = "idle" /\ w = Loaded(agent) /\ wFresh = TRUE
    /\ env \in Budgets

-----------------------------------------------------------------------------
(* The worker: AgentReconciler.Reconcile.                                  *)

\* The cached Get finds no Agent.
ReconcileGone ==
  /\ pc = "idle" /\ dirty /\ cAgent.life = "gone"
  /\ dirty' = FALSE
  /\ UNCHANGED <<server, cache, delayed, worker, env>>

\* Mutant of RemoveFinalizer: a deleted Agent is left to somebody else.
RemoveFinalizerSkipped ==
  /\ pc = "idle" /\ dirty /\ cAgent.life = "deleting"
  /\ dirty' = FALSE
  /\ UNCHANGED <<server, cache, delayed, worker, env>>

\* Deletion: drop the finalizer; the Update conflicts when the copy is stale.
RemoveFinalizer ==
  /\ pc = "idle" /\ dirty /\ cAgent.life = "deleting"
  /\ dirty' = FALSE
  /\ IF cAgent.fin /\ cFresh
       THEN /\ agent' = [agent EXCEPT !.life = "gone", !.fin = FALSE]
            /\ cFresh' = FALSE /\ wFresh' = FALSE
            /\ UNCHANGED delayed
       ELSE /\ delayed' = (delayed \/ cAgent.fin)
            /\ UNCHANGED <<agent, cFresh, wFresh>>
  /\ UNCHANGED <<deps, obj, avail, secret, cAgent, cDeps, ofresh, notify, pc, w, env>>

\* First sight of a live Agent: add the finalizer and come back.
AddFinalizer ==
  /\ pc = "idle" /\ dirty /\ cAgent.life = "live" /\ ~cAgent.fin
  /\ dirty' = FALSE /\ delayed' = TRUE
  /\ IF cFresh
       THEN /\ agent' = [agent EXCEPT !.fin = TRUE]
            /\ cFresh' = FALSE /\ wFresh' = FALSE
       ELSE UNCHANGED <<agent, cFresh, wFresh>>
  /\ UNCHANGED <<deps, obj, avail, secret, cAgent, cDeps, ofresh, notify, pc, w, env>>

\* Mutant of StartReconcile: it does not insist on the finalizer.
StartReconcileUnguarded ==
  /\ pc = "idle" /\ dirty /\ cAgent.life = "live"
  /\ dirty' = FALSE
  /\ pc' = "compile" /\ w' = Loaded(cAgent) /\ wFresh' = cFresh
  /\ UNCHANGED <<server, cache, delayed, env>>

\* Service.Reconcile begins on the cached copy.
StartReconcile ==
  /\ pc = "idle" /\ dirty /\ cAgent.life = "live" /\ cAgent.fin
  /\ dirty' = FALSE
  /\ pc' = "compile" /\ w' = Loaded(cAgent) /\ wFresh' = cFresh
  /\ UNCHANGED <<server, cache, delayed, env>>

\* One reference is resolved from the cache and merged into the document.
CompileRead ==
  /\ pc = "compile" /\ w.spec.verdict # "permanent" /\ w.next <= Len(w.spec.refs)
  /\ LET d == w.spec.refs[w.next] IN
       /\ cDeps[d].verdict \in Resolvable
       /\ w' = [w EXCEPT !.seen[d] = cDeps[d], !.next = @ + 1]
  /\ UNCHANGED <<server, cache, queue, pc, wFresh, env>>

\* ValidateSpec rejects the spec before anything is resolved.
SpecRefused ==
  /\ pc = "compile" /\ w.spec.verdict = "permanent"
  /\ w' = [w EXCEPT !.st = FailedCompile(w, "permanent")]
  /\ pc' = "status"
  /\ UNCHANGED <<server, cache, queue, wFresh, env>>

\* A reference that does not resolve ends the compile.
CompileStops ==
  /\ pc = "compile" /\ w.spec.verdict # "permanent" /\ w.next <= Len(w.spec.refs)
  /\ LET d == w.spec.refs[w.next]
         v == cDeps[d].verdict
     IN /\ v \notin Resolvable
        /\ w' = [w EXCEPT !.seen[d] = cDeps[d], !.st = FailedCompile(w, v),
                          !.result = Result(v)]
  /\ pc' = "status"
  /\ UNCHANGED <<server, cache, queue, wFresh, env>>

\* Mutant of CompileInvalid: the invalid document is reported and rolled out.
CompileInvalidGoesOn ==
  /\ pc = "compile" /\ w.spec.verdict # "permanent" /\ w.next > Len(w.spec.refs)
  /\ ~Compiles(w.spec, w.seen)
  /\ w' = [w EXCEPT !.st = FailedCompile(w, "invalid")]
  /\ pc' = "configmap"
  /\ UNCHANGED <<server, cache, queue, wFresh, env>>

\* Everything resolved; the document fails schema validation.
CompileInvalid ==
  /\ pc = "compile" /\ w.spec.verdict # "permanent" /\ w.next > Len(w.spec.refs)
  /\ ~Compiles(w.spec, w.seen)
  /\ w' = [w EXCEPT !.st = FailedCompile(w, "invalid")]
  /\ pc' = "status"
  /\ UNCHANGED <<server, cache, queue, wFresh, env>>

\* The document is valid: SpecValid=True and its hash, then the owned objects.
CompileOk ==
  /\ pc = "compile" /\ w.next > Len(w.spec.refs) /\ Compiles(w.spec, w.seen)
  /\ w' = [w EXCEPT !.st = [SpecValid(w, "true") EXCEPT !.hash = Hash(w.spec, w.seen)]]
  /\ pc' = "configmap"
  /\ UNCHANGED <<server, cache, queue, wFresh, env>>

\* secretsState: an uncached read; a missing Secret is reported, not an error.
SecretsState ==
  /\ pc = "secrets"
  /\ w' = [w EXCEPT !.secret = secret,
                    !.st.secrets = IF secret = 0 THEN "false" ELSE "true"]
  /\ pc' = "deployment"
  /\ UNCHANGED <<server, cache, queue, wFresh, env>>

NextStep(k) ==
  CASE k = "configmap"  -> "secrets"
    [] k = "deployment" -> "runtime"
    [] k = "runtime"    -> "published"
    [] k = "published"  -> "status"

\* Create or Update of owned object k from a current copy.  Availability comes
\* back with the Deployment: none on Create, the server's on Update.
EnsureOk(k) ==
  /\ pc = k /\ ofresh[k] /\ (k = "deployment" => Mounts(w.spec, w.seen))
  /\ obj' = [obj EXCEPT ![k] = Desired(k, w)]
  /\ ofresh' = [ofresh EXCEPT ![k] = (obj[k] = Desired(k, w))]
  /\ w' = CASE k = "deployment" -> [w EXCEPT !.avail = (obj[k] # NULL /\ avail)]
            [] k = "published"  -> [w EXCEPT !.st = Reconciled(w)]
            [] OTHER            -> w
  /\ pc' = NextStep(k)
  /\ UNCHANGED <<agent, deps, avail, secret, cAgent, cFresh, cDeps, notify,
                 queue, wFresh, env>>

\* The write of k fails: Ready=False, the status is still persisted, requeue.
EnsureFailed(k) ==
  /\ pc = k
  /\ w' = [w EXCEPT !.st.ready = "false", !.result = "error"]
  /\ pc' = "status"
  /\ UNCHANGED <<server, cache, queue, wFresh>>

\* ... on a Conflict, AlreadyExists or NotFound answer
EnsureConflict(k) == ~ofresh[k] /\ EnsureFailed(k) /\ UNCHANGED env

\* ... or because a Capability cannot be mounted: tried again and again.
BuildRefused == EnsureFailed("deployment") /\ ~Mounts(w.spec, w.seen) /\ UNCHANGED env

\* updateStatusWithRetry: the write goes through.
StatusWrite ==
  /\ pc = "status" /\ wFresh
  /\ agent' = [agent EXCEPT !.st = w.st]
  /\ cFresh' = (cFresh /\ agent.st = w.st)
  /\ wFresh' = (agent.st = w.st)
  /\ pc' = "idle"
  /\ delayed' = (delayed \/ w.result # "done")
  /\ UNCHANGED <<deps, obj, avail, secret, cAgent, cDeps, ofresh, notify, dirty, w, env>>

\* Mutant of StatusRetry: no limit on the retries.
StatusRetryForever ==
  /\ pc = "status" /\ ~wFresh /\ cAgent.life # "gone"
  /\ wFresh' = cFresh
  /\ w' = [w EXCEPT !.tries = @ - 1]
  /\ UNCHANGED <<server, cache, queue, pc, env>>

\* Mutant of StatusRetry: the status is stamped with the generation re-read.
StatusRetryRestamped ==
  /\ pc = "status" /\ ~wFresh /\ w.tries > 0 /\ cAgent.life # "gone"
  /\ wFresh' = cFresh
  /\ w' = [w EXCEPT !.tries = @ - 1, !.st.obs = cAgent.gen]
  /\ UNCHANGED <<server, cache, queue, pc, env>>

\* Conflict: re-Get through the cache, reapply the status, try again.
StatusRetry ==
  /\ pc = "status" /\ ~wFresh /\ w.tries > 0 /\ cAgent.life # "gone"
  /\ wFresh' = cFresh
  /\ w' = [w EXCEPT !.tries = @ - 1]
  /\ UNCHANGED <<server, cache, queue, pc, env>>

\* The status write is given up; the reconcile returns the error.
StatusAbandoned ==
  /\ pc = "status"
  /\ pc' = "idle" /\ delayed' = TRUE
  /\ UNCHANGED <<server, cache, dirty, w, wFresh>>

\* ... retries used up, or the Agent is gone
StatusGiveUp == /\ ~wFresh /\ (w.tries = 0 \/ cAgent.life = "gone")
                /\ StatusAbandoned /\ UNCHANGED env

-----------------------------------------------------------------------------
(* The informers and the work queue. *)

ObserveAgent ==
  /\ ~cFresh
  /\ cAgent' = agent /\ cFresh' = TRUE
  /\ dirty' = TRUE
  /\ UNCHANGED <<server, cDeps, ofresh, notify, delayed, worker, env>>

ObserveDep(d) ==
  /\ cDeps[d] # deps[d]
  /\ cDeps' = [cDeps EXCEPT ![d] = deps[d]]
  /\ notify' = IF d \in Unwatched THEN notify ELSE notify \cup {d}
  /\ UNCHANGED <<server, cAgent, cFresh, ofresh, queue, worker, env>>

\* Mutant of FindAgents: an event that arrives during a reconcile is dropped.
FindAgentsIfIdle(d) ==
  /\ d \in notify
  /\ notify' = notify \ {d}
  /\ dirty' = (dirty \/ (pc = "idle" /\ cAgent.life # "gone" /\ d \in Refs(cAgent.spec)))
  /\ UNCHANGED <<server, cAgent, cFresh, cDeps, ofresh, delayed, worker, env>>

\* findAgentsFor*: enqueue the Agents whose cached spec references d.
FindAgents(d) ==
  /\ d \in notify
  /\ notify' = notify \ {d}
  /\ dirty' = (dirty \/ (cAgent.life # "gone" /\ d \in Refs(cAgent.spec)))
  /\ UNCHANGED <<server, cAgent, cFresh, cDeps, ofresh, delayed, worker, env>>

\* Owns(ConfigMap, Deployment, Service): an event enqueues the owner.
ObserveOwned(k) ==
  /\ ~ofresh[k]
  /\ ofresh' = [ofresh EXCEPT ![k] = TRUE]
  /\ dirty' = TRUE
  /\ UNCHANGED <<server, cAgent, cFresh, cDeps, notify, delayed, worker, env>>

RequeueFires ==
  /\ delayed
  /\ delayed' = FALSE /\ dirty' = TRUE
  /\ UNCHANGED <<server, cache, worker, env>>

-----------------------------------------------------------------------------
(* Users, other controllers and failures. *)

Spend(x) == env[x] > 0 /\ env' = [env EXCEPT ![x] = @ - 1]

EditSpec(s) ==
  /\ agent.life = "live" /\ s # agent.spec /\ agent.gen < MaxGen /\ Spend("edit")
  /\ agent' = [agent EXCEPT !.spec = s, !.gen = @ + 1]
  /\ cFresh' = FALSE /\ wFresh' = FALSE
  /\ UNCHANGED <<deps, obj, avail, secret, cAgent, cDeps, ofresh, notify, queue, pc, w>>

DeleteAgent ==
  /\ agent.life = "live" /\ Spend("delete")
  /\ agent' = [agent EXCEPT !.life = IF agent.fin THEN "deleting" ELSE "gone"]
  /\ cFresh' = FALSE /\ wFresh' = FALSE
  /\ UNCHANGED <<deps, obj, avail, secret, cAgent, cDeps, ofresh, notify, queue, pc, w>>

ChangeDep(d, c) ==
  /\ deps[d] # c /\ Spend(IF d \in Unwatched THEN "service" ELSE "dep")
  /\ deps' = [deps EXCEPT ![d] = c]
  /\ UNCHANGED <<agent, obj, avail, secret, cache, queue, worker>>

RotateSecret ==
  /\ secret < MaxSecret /\ Spend("rotate")
  /\ secret' = secret + 1
  /\ UNCHANGED <<agent, deps, obj, avail, cache, queue, worker>>

\* Somebody else edits (v = Drifted) or deletes (v = NULL) an owned object.
Drift(k, v) ==
  /\ obj[k] \notin {NULL, v} /\ Spend("drift")
  /\ obj' = [obj EXCEPT ![k] = v]
  /\ avail' = (avail /\ (k = "deployment" => v # NULL))
  /\ ofresh' = [ofresh EXCEPT ![k] = FALSE]
  /\ UNCHANGED <<agent, deps, secret, cAgent, cFresh, cDeps, notify, queue, worker>>

\* The Deployment controller reports pods coming up or going away.
Availability ==
  /\ obj["deployment"] # NULL /\ Spend("avail")
  /\ avail' = ~avail
  /\ ofresh' = [ofresh EXCEPT !["deployment"] = FALSE]
  /\ UNCHANGED <<agent, deps, obj, secret, cAgent, cFresh, cDeps, notify, queue, worker>>

\* The garbage collector removes what a deleted Agent owned.
CollectOwned(k) ==
  /\ agent.life = "gone" /\ obj[k] # NULL
  /\ obj' = [obj EXCEPT ![k] = NULL]
  /\ avail' = (avail /\ k # "deployment")
  /\ ofresh' = [ofresh EXCEPT ![k] = FALSE]
  /\ UNCHANGED <<agent, deps, secret, cAgent, cFresh, cDeps, notify, queue, worker, env>>

\* The Update that adds or drops the finalizer fails: back off.
FinalizerFailed ==
  /\ pc = "idle" /\ dirty
  /\ \/ cAgent.life = "deleting" /\ cAgent.fin
     \/ cAgent.life = "live" /\ ~cAgent.fin
  /\ dirty' = FALSE /\ delayed' = TRUE
  /\ UNCHANGED <<server, cache, worker>>

\* Any API write may fail for a reason of its own.
ApiFault ==
  /\ Spend("fault")
  /\ \/ \E k \in Owned : EnsureFailed(k)
     \/ StatusAbandoned
     \/ FinalizerFailed

\* The operator dies and a new process lists everything it watches.
Restart ==
  /\ Spend("restart")
  /\ cAgent' = agent /\ cFresh' = TRUE /\ cDeps' = deps
  /\ ofresh' = [k \in Owned |-> TRUE] /\ notify' = {}
  /\ dirty' = TRUE /\ delayed' = FALSE
  /\ pc' = "idle" /\ UNCHANGED <<server, w, wFresh>>

-----------------------------------------------------------------------------
Reconcile ==
  \/ ReconcileGone \/ RemoveFinalizer \/ AddFinalizer \/ StartReconcile
  \/ SpecRefused \/ CompileRead \/ CompileStops \/ CompileInvalid \/ CompileOk
  \/ SecretsState
  \/ (\E k \in Owned : EnsureOk(k) \/ EnsureConflict(k)) \/ BuildRefused
  \/ StatusWrite \/ StatusRetry \/ StatusGiveUp

Environment ==
  \/ \E s \in Specs : EditSpec(s)
  \/ DeleteAgent
  \/ \E d \in Deps : \E c \in ContentsOf(d) : ChangeDep(d, c)
  \/ RotateSecret
  \/ \E k \in Owned, v \in {NULL, Drifted} : Drift(k, v)
  \/ Availability
  \/ \E k \in Owned : CollectOwned(k)
  \/ ApiFault
  \/ Restart

Next ==
  \/ Reconcile
  \/ ObserveAgent
  \/ \E d \in Deps : ObserveDep(d) \/ FindAgents(d)
  \/ \E k \in Owned : ObserveOwned(k)
  \/ RequeueFires
  \/ Environment

\* The worker runs, watches deliver and requeue timers fire; users, other
\* controllers and failures owe nothing.
Fairness ==
  /\ WF_vars(Reconcile)
  /\ WF_vars(ObserveAgent)
  /\ \A d \in Deps : WF_vars(ObserveDep(d)) /\ WF_vars(FindAgents(d))
  /\ \A k \in Owned : WF_vars(ObserveOwned(k))
  /\ WF_vars(RequeueFires)

Spec == Init /\ [][Next]_vars

FairSpec == Spec /\ Fairness

-----------------------------------------------------------------------------
(* Properties. *)

Templates == {Template(s, f, v) : s \in Specs, f \in Seen, v \in 0..MaxSecret}
Payload   == {NULL, Drifted, Workload} \cup Templates
               \cup [hash : Hashes, card : {s.card : s \in Specs}]

\* Objects, cached copies and the worker's state have the shapes the API types
\* and Reconcile give them; an owned object is absent, foreign, or one the
\* operator could have written.
TypeOK ==
  /\ agent \in AgentType /\ cAgent \in AgentType
  /\ deps \in [Deps -> Contents] /\ cDeps \in [Deps -> Contents]
  /\ obj \in [Owned -> Payload]
  /\ secret \in 0..MaxSecret
  /\ notify \subseteq Deps
  /\ ofresh \in [Owned -> BOOLEAN]
  /\ avail \in BOOLEAN /\ cFresh \in BOOLEAN /\ wFresh \in BOOLEAN
  /\ dirty \in BOOLEAN /\ delayed \in BOOLEAN
  /\ pc \in Steps /\ w \in Worker
  /\ env \in [Disturbances -> Nat]

\* Nothing is queued, running or on its way from the API server.
Quiescent ==
  /\ pc = "idle" /\ ~dirty /\ ~delayed
  /\ cFresh /\ notify = {} /\ cDeps = deps
  /\ \A k \in Owned : ofresh[k]

\* The references as they are; a Service as the last reconcile read it, if it did.
LastSeen ==
  [d \in Deps |-> IF d \in Unwatched /\ w.seen[d] # NULL THEN w.seen[d] ELSE deps[d]]

\* When the controller comes to rest on an Agent whose composition compiles,
\* the ConfigMap, the Deployment and both Services are what that composition
\* calls for and the status says so: no interleaving of edits, watch events,
\* conflicts, faults and restarts loses the wake-up that would have repaired
\* them.  What nothing watches counts as it was last read: the Secret, and a
\* Service whose port an AgentTool names.
RestsOnlyWhenApplied ==
  Quiescent /\ agent.life = "live" /\ Compiles(agent.spec, LastSeen) =>
    LET seen == Visible(agent.spec, LastSeen) IN
    /\ agent.fin
    /\ obj["configmap"] = [hash |-> Hash(agent.spec, seen), card |-> agent.spec.card]
    /\ obj["deployment"] = Template(agent.spec, seen, w.secret)
    /\ obj["runtime"] = Workload /\ obj["published"] = Workload
    /\ agent.st.obs = agent.gen /\ agent.st.hash = Hash(agent.spec, seen)
    /\ agent.st.valid = "true" /\ agent.st.url

\* The controller's state is well formed, and it rests only on what is applied.
RestInv == TypeOK /\ RestsOnlyWhenApplied

\* When it comes to rest on an Agent that does not compile, SpecValid is False
\* for the current generation; and it never rests on a dependency that it found
\* missing, nor on a workload it could not build.
RestsOnlyWhenReported ==
  Quiescent /\ agent.life = "live" =>
    /\ ~Compiles(agent.spec, LastSeen) =>
         /\ agent.st.valid = "false" /\ agent.st.validGen = agent.gen
         /\ \/ agent.spec.verdict # "ok"
            \/ \E d \in Refs(agent.spec) : LastSeen[d].verdict \in {"permanent", "invalid"}
    /\ Compiles(agent.spec, LastSeen) => Mounts(agent.spec, LastSeen)

\* A workload the operator wrote always runs a composition that compiled and
\* could be mounted: a failed compile leaves the last good Deployment alone.
WorkloadCompiled ==
  obj["deployment"] \notin {NULL, Drifted} =>
    \E s \in Specs, f \in [Deps -> Contents], v \in 0..MaxSecret :
      /\ Compiles(s, f) /\ Mounts(s, f)
      /\ obj["deployment"] = Template(s, Visible(s, f), v)

\* status.observedGeneration = metadata.generation means that the Deployment
\* carries this generation's spec, whatever stale copies are still in use.
ObservedMeansApplied ==
  agent.st.obs = agent.gen /\ obj["deployment"] \notin {NULL, Drifted} =>
    /\ obj["deployment"].runtime = agent.spec.runtime
    /\ obj["deployment"].hash.doc = agent.spec.doc

\* Owned objects of a deleted Agent only disappear.
NoResurrection ==
  [][agent.life = "gone" =>
       \A k \in Owned : obj'[k] # obj[k] => obj'[k] \in {NULL, Drifted}]_vars

\* The pod templates that run spec s: compiled ones with its runtime and document.
Images ==
  [s \in Specs |-> {t \in Templates :
     /\ t.runtime = s.runtime /\ t.hash.doc = s.doc
     /\ \E s2 \in Specs, f \in [Deps -> Contents], v \in 0..MaxSecret :
          Compiles(s2, f) /\ Mounts(s2, f) /\ t = Template(s2, Visible(s2, f), v)}]

R == INSTANCE AgentRollout WITH
       spec <- agent.spec, gen <- agent.gen, life <- agent.life,
       claimed <- agent.st.obs, running <- obj["deployment"],
       None <- NULL, Foreign <- Drifted

\* Seen from outside, caches, conflicts, retries, faults and restarts do not
\* show: the controller rolls out compiled specs, never an older one over the
\* generation the status claims, and claims a generation only once it runs.
Rollout == R!Spec

\* The current composition is rolled out and reported.
Applied ==
  LET seen == Visible(agent.spec, LastSeen) IN
  /\ agent.st.obs = agent.gen /\ agent.st.hash = Hash(agent.spec, seen)
  /\ obj["configmap"] = [hash |-> Hash(agent.spec, seen), card |-> agent.spec.card]
  /\ obj["deployment"] \notin {NULL, Drifted}
  /\ obj["deployment"].hash = Hash(agent.spec, seen)
  /\ obj["runtime"] = Workload /\ obj["published"] = Workload

Converged ==
  CASE agent.life = "gone"     -> TRUE
    [] agent.life = "deleting" -> FALSE
    [] agent.life = "live"     ->
         CASE ~Compiles(agent.spec, LastSeen) -> agent.st.valid = "false"
           [] ~Mounts(agent.spec, LastSeen)   -> agent.st.ready = "false"
           [] OTHER                           -> Applied

\* Disturbances end; from then on the Agent converges: what compiles is rolled
\* out and reported, what does not compile or cannot be mounted is reported, and
\* what is deleted goes away.  A Service counts as it was last read.
Convergence == <>[]Converged

-----------------------------------------------------------------------------
(* Why the properties hold: the inductive invariant. *)

\* Copies are never ahead of the server, and a generation names one spec; no
\* copy of the status reports a generation the worker has not loaded.
Generations ==
  /\ w.gen <= cAgent.gen /\ cAgent.gen <= agent.gen
  /\ cAgent.gen = agent.gen => cAgent.spec = agent.spec
  /\ w.gen = agent.gen => w.spec = agent.spec
  /\ w.gen = cAgent.gen => w.spec = cAgent.spec
  /\ agent.st.obs <= w.gen /\ cAgent.st.obs <= w.gen /\ w.st.obs <= w.gen
  /\ cFresh => cAgent = agent

\* The finalizer pins the Agent while a reconcile is under way.
Pinned ==
  /\ agent.fin => agent.life # "gone"
  /\ cAgent.life = "live" /\ cAgent.fin => agent.fin
  /\ cAgent.life = "deleting" => agent.life # "live"
  /\ cAgent.life = "gone" => agent.life = "gone"
  /\ pc # "idle" => agent.fin

\* The Deployment, if the operator wrote it last, carries spec s.
Carries(s) == \/ obj["deployment"] \in {NULL, Drifted}
              \/ /\ obj["deployment"].runtime = s.runtime
                 /\ obj["deployment"].hash.doc = s.doc

\* Whoever reports, or is about to report, the current generation has applied it.
Reports ==
  \/ agent.st.obs = agent.gen \/ cAgent.st.obs = agent.gen \/ w.st.obs = agent.gen
  \/ pc \in {"runtime", "published"} /\ w.gen = agent.gen

\* Every reference of the spec was read, and they compile.
Resolved(r) == /\ Compiles(r.spec, r.seen)
               /\ \A d \in Refs(r.spec) : r.seen[d] # NULL

\* What the worker has read and concluded.
Bookkeeping ==
  /\ \A d \in Deps \ Refs(w.spec) : w.seen[d] = NULL
  /\ \A i \in 1..Len(w.spec.refs) : i < w.next => w.seen[w.spec.refs[i]] # NULL
  /\ pc = "compile" => /\ w.result = "done"
                       /\ \A d \in Deps : w.seen[d] # NULL =>
                            w.seen[d].verdict \in Resolvable
  /\ pc \in Owned \cup {"secrets"} =>
       /\ Resolved(w) /\ w.result = "done"
       /\ pc \in {"runtime", "published"} => Mounts(w.spec, w.seen)
       /\ w.st.valid = "true" /\ w.st.hash = Hash(w.spec, w.seen)

\* The owned objects written when the worker is at step p of a good reconcile.
Written(p) ==
  CASE p = "configmap"                 -> {}
    [] p \in {"secrets", "deployment"} -> {"configmap"}
    [] p = "runtime"                   -> {"configmap", "deployment"}
    [] p = "published"                 -> {"configmap", "deployment", "runtime"}
    [] OTHER                           -> Owned

\* A reconcile that went well so far: what it wrote is there, or has changed
\* since and the informer has yet to say so.
GoodSoFar ==
  /\ Resolved(w)
  /\ \A k \in Written(pc) : ~ofresh[k] \/ obj[k] = Desired(k, w)
  /\ pc \in {"status", "idle"} =>
       /\ w.st.obs = w.gen /\ w.st.url /\ Mounts(w.spec, w.seen)
       /\ w.st.valid = "true" /\ w.st.hash = Hash(w.spec, w.seen)

\* A reconcile that ended in a verdict no retry will change.
Rejects ==
  /\ pc \in {"status", "idle"}
  /\ w.st.valid = "false" /\ w.st.validGen = w.gen
  /\ \/ w.spec.verdict # "ok"
     \/ \E d \in Refs(w.spec) :
          w.seen[d] # NULL /\ w.seen[d].verdict \in {"permanent", "invalid"}

\* The worker's state still accounts for everything the informer has delivered.
Tracks ==
  /\ cAgent.fin /\ w.spec = cAgent.spec /\ w.gen = cAgent.gen
  /\ \A d \in Deps \ Unwatched :
       d \in notify \/ w.seen[d] = NULL \/ w.seen[d] = cDeps[d]
  /\ \/ pc = "compile"
     \/ w.result # "done" /\ pc = "status"
     \/ GoodSoFar
     \/ Rejects
  /\ pc = "idle" => w.result = "done" /\ agent.st = w.st

\* Another reconcile is certain, or the Agent is on its way out.
Rearmed == dirty \/ delayed \/ cAgent.life # "live"

InStep == Rearmed \/ Tracks

IInv == /\ TypeOK /\ Generations /\ Pinned /\ Bookkeeping
        /\ (Reports => Carries(agent.spec))
        /\ WorkloadCompiled
        /\ InStep

=============================================================================
