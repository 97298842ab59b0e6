------------------------- MODULE CatalogControllers -------------------------
(***************************************************************************)
(* The controllers of the resources an Agent is put together from: Model   *)
(* and ModelProvider, AgentTool, and Instruction with its ConfigMap.  Each *)
(* reads through the informer cache, which lags, and writes to the API     *)
(* server, which refuses a write that does not carry the current resource  *)
(* version.                                                                *)
(***************************************************************************)
EXTENDS Integers, FiniteSets, Sequences

CONSTANTS
  Groups,        \* objects looked at together, with bounds on what users do to
                 \* them and on the requests that fail
  StatusTries    \* attempts of one RetryOnConflict

ASSUME CatalogAssumption ==
  /\ \A g \in Groups : /\ g.objects \subseteq {"provider", "model", "tool", "instruction"}
                        /\ g.edits \in Nat /\ g.faults \in Nat
  /\ StatusTries \in Nat \ {0}

VARIABLES
  group,     \* the objects there are in this behaviour
  cross,     \* the Model names a provider of another namespace
  api,       \* object -> what the API server stores
  cache,     \* object -> what the informer has seen of it
  cm, cmCache, \* the Instruction's ConfigMap, and what the informer saw
  jobs,      \* object -> its reconcile under way
  waiting,   \* objects in a work queue
  timers,    \* objects with RequeueAfter or a backoff running
  specAt,    \* object -> its spec at each generation
  editsLeft, faultsLeft

catalogVars == <<group, cross, api, cache, cm, cmCache, jobs, waiting, timers, specAt,
                 editsLeft, faultsLeft>>

Objects == {"provider", "model", "tool", "instruction"}

\* A provider's spec names the blocks that are set, a tool's whether it is valid,
\* an instruction's its content.
SpecsOf(o) == CASE o = "provider"    -> {"openai", "google", "both"}
                [] o = "model"       -> {"ref"}
                [] o = "tool"        -> {"good", "bad"}
                [] o = "instruction" -> {"x", "y"}

\* ValidateProvider: exactly one block, which is the provider's type.
ValidateProvider(s) == IF s \in {"openai", "google"} THEN s ELSE "invalid"

\* tool.ValidateSpec.
ValidateSpec(s) == IF s = "good" THEN "valid" ELSE "invalid"

Resolved == {"openai", "google"}

\* What the Model controller makes of the provider p.
ResolveProvider(p) == IF ~p.exists THEN "NotFound"
                      ELSE IF p.status.verdict \in Resolved THEN p.status.verdict ELSE "NotReady"

NoVerdict == [verdict |-> "none", gen |-> 0]
Absent    == [exists |-> FALSE, deleting |-> FALSE, finalizer |-> FALSE, gen |-> 0,
              spec |-> "none", rv |-> 0, born |-> 0, status |-> NoVerdict]
New(s, v) == [Absent EXCEPT !.exists = TRUE, !.gen = 1, !.spec = s, !.rv = v,
                                   !.born = v]
Gone(o)   == [Absent EXCEPT !.rv = o.rv + 1]
NoMap     == [exists |-> FALSE, data |-> "none", ours |-> FALSE, rv |-> 0]
NoJob     == [pc |-> "idle", copy |-> Absent, verdict |-> "none", gen |-> 0, tries |-> 0]

\* An object at the start: its first version, or none.
FirstObjects == {New(s, 1) : s \in UNION {SpecsOf(o) : o \in Objects}} \cup {Absent}

CatalogInit ==
  /\ \E g \in Groups : group = g.objects /\ editsLeft = g.edits /\ faultsLeft = g.faults
  /\ cross \in BOOLEAN /\ (cross => "model" \in group)
  /\ api \in [Objects -> FirstObjects]
  /\ \A o \in Objects : IF o \in group THEN api[o].exists => api[o].spec \in SpecsOf(o)
                                       ELSE api[o] = Absent
  /\ \A o \in group \ {"provider"} : api[o].exists
  /\ cache = api
  /\ cm = NoMap /\ cmCache = NoMap
  /\ jobs = [o \in Objects |-> NoJob]
  /\ waiting = {o \in group : api[o].exists} /\ timers = {}
  /\ specAt = [o \in Objects |-> <<api[o].spec>>]

-----------------------------------------------------------------------------
\* The informers.

\* The watches: For each kind, and the Model controller's map function, which
\* lists the Models of the provider's own namespace.
Observe(o) ==
  /\ cache[o] # api[o] /\ cache' = [cache EXCEPT ![o] = api[o]]
  /\ waiting' = waiting \cup {o}
                  \cup (IF o = "provider" /\ ~cross /\ api["model"].exists THEN {"model"} ELSE {})
  /\ UNCHANGED <<group, cross, api, cm, cmCache, jobs, timers, specAt, editsLeft, faultsLeft>>

\* Owns(&ConfigMap{}): an event of a ConfigMap the Instruction controls.
ObserveConfigMap ==
  /\ cmCache # cm /\ cmCache' = cm
  /\ waiting' = IF cm.ours \/ cmCache.ours THEN waiting \cup {"instruction"} ELSE waiting
  /\ UNCHANGED <<group, cross, api, cache, cm, jobs, timers, specAt, editsLeft, faultsLeft>>

TimerEnds(o) ==
  /\ o \in timers /\ timers' = timers \ {o} /\ waiting' = waiting \cup {o}
  /\ UNCHANGED <<group, cross, api, cache, cm, cmCache, jobs, specAt, editsLeft, faultsLeft>>

-----------------------------------------------------------------------------
\* Reconcile, up to its first write.

Job(o, pc, verdict) == jobs' = [jobs EXCEPT ![o] = [pc |-> pc, copy |-> cache[o],
                                  verdict |-> verdict, gen |-> cache[o].gen, tries |-> 0]]
EndJob(o) == jobs' = [jobs EXCEPT ![o] = NoJob]

Taken(o) == /\ o \in waiting /\ jobs[o].pc = "idle" /\ waiting' = waiting \ {o}
            /\ UNCHANGED <<group, cross, api, cache, cm, cmCache, timers, specAt,
                           editsLeft, faultsLeft>>

\* The object is gone, or it is being deleted and nothing is left to do.
TakeGone(o) ==
  /\ Taken(o) /\ jobs' = jobs
  /\ ~cache[o].exists \/ (cache[o].deleting /\ ~cache[o].finalizer)

\* ModelProviderReconciler.Reconcile, ModelReconciler.Reconcile and
\* AgentToolReconciler.Reconcile decide on what the cache shows them.
TakeProvider == Taken("provider") /\ cache["provider"].exists
                /\ Job("provider", "status", ValidateProvider(cache["provider"].spec))
TakeModel    == Taken("model") /\ cache["model"].exists
                /\ Job("model", "status", ResolveProvider(cache["provider"]))
TakeTool     == Taken("tool") /\ cache["tool"].exists
                /\ Job("tool", "status", ValidateSpec(cache["tool"].spec))

\* InstructionReconciler.Reconcile: deletion, finalizer, or the ConfigMap.
TakeInstruction ==
  LET c == cache["instruction"] IN
  /\ Taken("instruction") /\ c.exists /\ (c.deleting => c.finalizer)
  /\ Job("instruction", IF c.deleting THEN "unstore"
                         ELSE IF ~c.finalizer THEN "finalizer" ELSE "store", "none")

-----------------------------------------------------------------------------
\* The writes.

\* The API server takes a write of the copy's version; one that changes nothing
\* makes no new version.
Current(o) == api[o].exists /\ api[o].rv = jobs[o].copy.rv
Put(o, new) == api' = [api EXCEPT ![o] = IF new = api[o] THEN new ELSE [new EXCEPT !.rv = @ + 1]]

\* Mutant of ObservedGeneration: every controller claims the generation it
\* re-read, as AgentTool's does.
ObservedGenerationLive(o) == jobs[o].copy.gen

\* applyStatus: AgentTool's and the Model's not-ready callback take the generation
\* of the copy at hand, the others restore the status they had made.
ObservedGeneration(o) ==
  IF o = "tool" \/ (o = "model" /\ jobs[o].verdict \notin Resolved)
  THEN jobs[o].copy.gen ELSE jobs[o].gen

\* Mutant of AfterStatus: a Model that is not ready waits for an event.
AfterStatusNoTimer(o) == timers' = IF jobs[o].verdict = "failed" THEN timers \cup {o} ELSE timers

\* A Model that is not ready is looked at again after modelRetryInterval; the
\* error of an Instruction that could not be stored is returned.
AfterStatus(o) == timers' = IF jobs[o].verdict \in {"NotFound", "NotReady", "failed"}
                            THEN timers \cup {o} ELSE timers

Error(o) == EndJob(o) /\ timers' = timers \cup {o}

\* updateStatusWithRetry, an attempt the API server takes.
StatusWritten(o) ==
  /\ jobs[o].pc = "status" /\ Current(o)
  /\ Put(o, [api[o] EXCEPT !.status = [verdict |-> jobs[o].verdict,
                                       gen |-> ObservedGeneration(o)]])
  /\ EndJob(o) /\ AfterStatus(o)
  /\ UNCHANGED <<group, cross, cache, cm, cmCache, waiting, specAt, editsLeft, faultsLeft>>

\* Mutant of StatusConflict: the same copy is sent again and again.
StatusConflictSpins(o) == jobs[o].pc = "status" /\ ~Current(o) /\ UNCHANGED catalogVars

\* Mutant of StatusConflict: one attempt too many.
StatusConflictOnceMore(o) ==
  /\ jobs[o].pc = "status" /\ ~Current(o)
  /\ IF api[o].exists /\ cache[o].exists /\ jobs[o].tries <= StatusTries
     THEN /\ jobs' = [jobs EXCEPT ![o].copy = cache[o], ![o].tries = @ + 1]
          /\ timers' = timers
     ELSE Error(o)
  /\ UNCHANGED <<group, cross, api, cache, cm, cmCache, waiting, specAt, editsLeft, faultsLeft>>

\* A conflict: the object is read again, through the cache, and the status
\* applied again, until the attempts are used up.
StatusConflict(o) ==
  /\ jobs[o].pc = "status" /\ ~Current(o)
  /\ IF api[o].exists /\ cache[o].exists /\ jobs[o].tries < StatusTries
     THEN /\ jobs' = [jobs EXCEPT ![o].copy = cache[o], ![o].tries = @ + 1]
          /\ timers' = timers
     ELSE Error(o)
  /\ UNCHANGED <<group, cross, api, cache, cm, cmCache, waiting, specAt, editsLeft, faultsLeft>>

\* The finalizer is written, or found to be written on an old version.
FinalizerWrite ==
  /\ jobs["instruction"].pc = "finalizer"
  /\ EndJob("instruction") /\ timers' = timers \cup {"instruction"}
  /\ IF Current("instruction") THEN Put("instruction", [api["instruction"] EXCEPT !.finalizer = TRUE])
                               ELSE api' = api
  /\ UNCHANGED <<group, cross, cache, cm, cmCache, waiting, specAt, editsLeft, faultsLeft>>

StoreJob(verdict) == jobs' = [jobs EXCEPT !["instruction"].pc = "status",
                                          !["instruction"].verdict = verdict]
\* reconcileConfigMap: create what the cache does not show, else update it,
\* whoever owns it.
Store ==
  /\ jobs["instruction"].pc = "store"
  /\ LET data == jobs["instruction"].copy.spec
         ok   == IF cmCache.exists THEN cm.exists /\ cm.rv = cmCache.rv ELSE ~cm.exists
     IN /\ cm' = IF ~ok \/ (cm.exists /\ cm.data = data) THEN cm
                 ELSE IF cm.exists THEN [cm EXCEPT !.data = data, !.rv = @ + 1]
                 ELSE [exists |-> TRUE, data |-> data, ours |-> TRUE, rv |-> cm.rv + 1]
        /\ StoreJob(IF ok THEN "stored" ELSE "failed")
  /\ UNCHANGED <<group, cross, api, cache, cmCache, waiting, timers, specAt, editsLeft, faultsLeft>>

\* Mutant of Unstore: a ConfigMap that is already gone is an error.
UnstoreStrict ==
  /\ jobs["instruction"].pc = "unstore"
  /\ IF cm.exists
     THEN /\ cm' = [NoMap EXCEPT !.rv = cm.rv + 1] /\ timers' = timers
          /\ jobs' = [jobs EXCEPT !["instruction"].pc = "unfinalize"]
     ELSE Error("instruction") /\ cm' = cm
  /\ UNCHANGED <<group, cross, api, cache, cmCache, waiting, specAt, editsLeft, faultsLeft>>

\* deleteConfigMap, by name.
Unstore ==
  /\ jobs["instruction"].pc = "unstore"
  /\ cm' = IF cm.exists THEN [NoMap EXCEPT !.rv = cm.rv + 1] ELSE cm
  /\ jobs' = [jobs EXCEPT !["instruction"].pc = "unfinalize"]
  /\ UNCHANGED <<group, cross, api, cache, cmCache, waiting, timers, specAt, editsLeft, faultsLeft>>

\* RemoveFinalizer, then Update: the object goes away.
RemoveFinalizer ==
  /\ jobs["instruction"].pc = "unfinalize"
  /\ IF Current("instruction")
     THEN EndJob("instruction") /\ api' = [api EXCEPT !["instruction"] = Gone(@)] /\ timers' = timers
     ELSE Error("instruction") /\ api' = api
  /\ UNCHANGED <<group, cross, cache, cm, cmCache, waiting, specAt, editsLeft, faultsLeft>>

\* A request fails outright: the error is returned; that of a ConfigMap is first
\* written to the status.
RequestFails(o) ==
  /\ faultsLeft > 0 /\ faultsLeft' = faultsLeft - 1
  /\ \/ jobs[o].pc \in {"status", "finalizer", "unstore", "unfinalize"} /\ Error(o)
     \/ jobs[o].pc = "store" /\ StoreJob("failed") /\ timers' = timers
  /\ UNCHANGED <<group, cross, api, cache, cm, cmCache, waiting, specAt, editsLeft>>

-----------------------------------------------------------------------------
\* The users.

UserEdit == editsLeft > 0 /\ editsLeft' = editsLeft - 1

\* A spec is edited; editing it back is a new generation too.
EditSpec(o) ==
  /\ UserEdit /\ api[o].exists /\ ~api[o].deleting
  /\ \E s \in SpecsOf(o) \ {api[o].spec} :
       /\ Put(o, [api[o] EXCEPT !.spec = s, !.gen = @ + 1])
       /\ specAt' = [specAt EXCEPT ![o] = Append(@, s)]
  /\ UNCHANGED <<group, cross, cache, cm, cmCache, jobs, waiting, timers, faultsLeft>>

\* An object without finalizers goes at once, one with them waits for them.
DeleteObject(o) ==
  /\ UserEdit /\ api[o].exists /\ ~api[o].deleting
  /\ IF api[o].finalizer THEN Put(o, [api[o] EXCEPT !.deleting = TRUE])
                         ELSE api' = [api EXCEPT ![o] = Gone(@)]
  /\ UNCHANGED <<group, cross, cache, cm, cmCache, jobs, waiting, timers, specAt, faultsLeft>>

\* The provider a Model waits for is created.
CreateProvider ==
  /\ UserEdit /\ "provider" \in group /\ ~api["provider"].exists /\ api["provider"] = cache["provider"]
  /\ \E s \in SpecsOf("provider") :
       /\ api' = [api EXCEPT !["provider"] = New(s, @.rv + 1)] /\ specAt' = [specAt EXCEPT !["provider"] = <<s>>]
  /\ UNCHANGED <<group, cross, cache, cm, cmCache, jobs, waiting, timers, faultsLeft>>

\* Somebody else writes, deletes or creates the ConfigMap.
ForeignConfigMap ==
  /\ UserEdit /\ "instruction" \in group
  /\ cm' \in {[cm EXCEPT !.data = "foreign", !.exists = TRUE, !.rv = @ + 1],
              [NoMap EXCEPT !.rv = cm.rv + 1]}
  /\ UNCHANGED <<group, cross, api, cache, cmCache, jobs, waiting, timers, specAt, faultsLeft>>

\* The garbage collector removes what a deleted Instruction controlled.
Collect ==
  /\ cm.exists /\ cm.ours /\ "instruction" \in group /\ ~api["instruction"].exists
  /\ cm' = [NoMap EXCEPT !.rv = cm.rv + 1]
  /\ UNCHANGED <<group, cross, api, cache, cmCache, jobs, waiting, timers, specAt, editsLeft, faultsLeft>>

Work(o) == \/ TakeGone(o) \/ StatusWritten(o) \/ StatusConflict(o)
           \/ o = "provider" /\ TakeProvider
           \/ o = "model" /\ TakeModel
           \/ o = "tool" /\ TakeTool
           \/ o = "instruction" /\ (TakeInstruction \/ FinalizerWrite \/ Store \/ Unstore
                                    \/ RemoveFinalizer)

CatalogNext ==
  \/ \E o \in Objects : \/ Observe(o) \/ TimerEnds(o) \/ Work(o) \/ RequestFails(o)
                        \/ EditSpec(o) \/ DeleteObject(o)
  \/ ObserveConfigMap \/ CreateProvider \/ ForeignConfigMap \/ Collect

\* Informers deliver, workers run, timers fire.
CatalogFairness == /\ \A o \in Objects : WF_catalogVars(Observe(o)) /\ WF_catalogVars(TimerEnds(o))
                                         /\ WF_catalogVars(Work(o))
                   /\ WF_catalogVars(ObserveConfigMap) /\ WF_catalogVars(Collect)

CatalogSpec == CatalogInit /\ [][CatalogNext]_catalogVars /\ CatalogFairness

-----------------------------------------------------------------------------
\* Versions only grow, so that a copy is never ahead of what it is a copy of, and
\* a reconcile has no more attempts than it is given.  An object that was not made
\* anew has no status of a generation to come: the retry of a reconcile of a deleted
\* ModelProvider stamps the generation it knew on the one that took its name.
CatalogTypeOK ==
  /\ group \subseteq Objects /\ cross \in BOOLEAN
  /\ waiting \subseteq group /\ timers \subseteq group
  /\ \A o \in Objects :
       /\ api[o].exists => /\ api[o].spec \in SpecsOf(o)
                           /\ api[o].born = 1 => api[o].status.gen <= api[o].gen
       /\ jobs[o].pc \in {"idle", "status", "finalizer", "store", "unstore", "unfinalize"}
       /\ jobs[o].tries \in 0..StatusTries
       /\ jobs[o].pc # "idle" => o \in group /\ jobs[o].copy.exists
  /\ cmCache.rv <= cm.rv /\ (cm.exists => cm.data \in {"x", "y", "foreign"})

\* What a ModelProvider's status says of a generation is what validation says of
\* that generation's spec, conflicts and re-reads included.  (Where a provider is
\* deleted and created again within a reconcile, the retry writes the verdict on
\* the old one to the new one, until its own event is handled.)
ProviderVerdictIsOfItsGeneration ==
  LET p == api["provider"] IN
  p.exists /\ p.born = 1 /\ p.status.gen # 0
  => p.status.verdict = ValidateProvider(specAt["provider"][p.status.gen])

\* Nothing is under way for o, nor anything it depends on.
Quiet(o) == \A q \in IF o = "model" THEN {"model", "provider"} ELSE {o} :
              jobs[q].pc = "idle" /\ q \notin waiting \cup timers /\ cache[q] = api[q]

StatusIsRight(o) ==
  CASE o = "provider"    -> api[o].status = [verdict |-> ValidateProvider(api[o].spec), gen |-> api[o].gen]
    [] o = "model"       -> api[o].status = [verdict |-> ResolveProvider(api["provider"]), gen |-> api[o].gen]
    [] o = "tool"        -> api[o].status = [verdict |-> ValidateSpec(api[o].spec), gen |-> api[o].gen]
    [] o = "instruction" -> /\ ~api[o].deleting
                            /\ api[o].status = [verdict |-> "stored", gen |-> api[o].gen]
                            /\ cm.exists /\ (cm.ours => cm.data = api[o].spec)

\* Two cases no event reaches the controller of: a Model that is ready with a
\* provider of another namespace, and a ConfigMap the Instruction does not own.
OutOfSight(o) == \/ o = "model" /\ cross /\ api[o].status.verdict \in Resolved
                 \/ o = "instruction" /\ ~cm.ours /\ api[o].status.verdict = "stored"

\* A controller rests only on a status that is right for the spec there is, the
\* provider of a Model and the ConfigMap of an Instruction included.
RestsOnlyWhenRight ==
  \A o \in group : Quiet(o) /\ (o = "instruction" => cmCache = cm) /\ api[o].exists
                    => StatusIsRight(o) \/ OutOfSight(o)

\* Stale copies and retried writes of the catalogue's controllers: a status says of
\* a generation what validation says of it, and they rest only on a right one.
CatalogInv == CatalogTypeOK /\ ProviderVerdictIsOfItsGeneration /\ RestsOnlyWhenRight

\* An Instruction that is deleted goes away, and its ConfigMap with it.
DeletionCompletes == api["instruction"].deleting ~> (~api["instruction"].exists /\ ~(cm.exists /\ cm.ours))

\* Once users leave it alone, every object comes to a right status and keeps it.
CatalogSettles ==
  <>[](\A o \in group : api[o].exists => StatusIsRight(o) \/ OutOfSight(o))
=============================================================================
