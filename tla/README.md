# Flokoa operator: TLA+ models, checks and proofs

Flokoa is a Kubernetes operator, written in Go, that runs AI agents. Users write
custom resources (Agent, Model, ModelProvider, Instruction, AgentTool,
Capability, AgentTrigger, AgentWorkflow). Controllers compile them into
Deployments, Services, ConfigMaps and Argo WorkflowTemplates and report back in
the resources' status; an API server takes events and serves a UI; a plugin runs
inside Argo and calls the agents.

This directory holds TLA+ models of the parts that have state or logic of their
own, TLC runs over small instances, and TLAPS proofs, for every value of the
constants: every safety property that a passing run checks is also a theorem, and
two controllers are proved to implement an abstract specification. `PROJECT.json`
maps every definition to its source lines. Paths below are relative to
`src/operator/`; `docs/` is `src/docs/`.

    cd tla
    tlc -workers 2 -config AgentReconcile_rest.cfg MCAgentReconcile
    tlapm AgentReconcileProofs.tla

Contents: 1 inventory; 2 the modules; 3 the runs; 4 fairness, deadlock and
symmetry; 5 the proofs; 6 where code and documents disagree; 7 what is not
modelled; 8 plan.

## 1. Inventory

### How the parts interact

    users ── kubectl / API server ──> Kubernetes API ──> webhooks (admission)
                                          │  ^
                        watches, caches   v  │  writes, status
       ModelProvider ─> Model ─┐
       Instruction, AgentTool ─┼─> Agent controller ──> ConfigMap, Deployment, Services
       Capability controller ──┘        │ status.url, phase
         │  verifier ─> registry, TUF   v
         └ Verified condition      AgentTrigger controller ──> ConfigMap ──> invoke endpoint
                                                                              └ limiter
       AgentWorkflow controller ──> WorkflowTemplate ──> Argo ──> A2A plugin ──> agents

       browser ── gRPC gateway, SSE ──> API server ── CRUD, watches ──> Kubernetes API
                                            └ playground, push gateway ──> agents

Controllers never call each other. They communicate through objects: one writes a
status or an object, the API server raises a watch event, the informer cache of
the other takes it over some time later, and a map function puts keys on a work
queue. A work queue runs one reconcile per key at a time and merges requests for a
key. Everything that is hard follows from this: reads are stale, writes are
optimistic and may conflict, a reconcile is many requests and may stop after any
of them, and an event that wakes nobody is lost for good.

### Components

**Agent controller** (`internal/controller/agent_controller.go`, `agent_watchers.go`,
`status.go`, `internal/app/agent/reconcile.go`, `internal/domain/agent`).
State: the Agent and its status, the informer cache, the work queue, four owned
objects (spec ConfigMap, Deployment, runtime Service, published Service). One
reconcile reads the Agent from the cache, handles deletion and the finalizer,
compiles, writes the owned objects in order, resolves Secrets live, and writes
the status with a bounded number of retries on conflict. Correct when no wake-up
is lost, a deleted Agent stays deleted, only compositions that compiled run, and
the status never claims more than was applied.

**Agent compiler** (`internal/app/agent/compiler`). Stateless. Resolves Model,
provider, instruction, tools and capabilities in order, merges layers and
validates the document. The first failure decides whether the reconcile waits
for a dependency, gives up, or retries.

**Builders and repositories** (`internal/infra/builder`, `internal/infra/repo`).
Create-or-update of the owned objects from desired content, with the rules of
which fields are put back after a foreign edit.

**Capability controller** (`internal/controller/capability_controller.go`). State:
the Capability's Verified condition, and per process a cache of the last verdict by
name with a re-check time and a backoff. Correct when the condition is about the
artifact the spec names, an outage is not taken for a verdict, and a signature
that appears later is found.

**Artifact verifier** (`internal/infra/verify`). State: the cached trusted root
with its TTL. Fetches the signature manifest of a digest, checks layer by layer,
and classifies each failure as missing, invalid or transient.

**AgentTrigger controller** (`internal/controller/agenttrigger_controller.go`,
`internal/app/trigger`, `internal/domain/trigger`). Resolves the target Agent's URL
and push credentials into a ConfigMap the API server reads. Correct when the
ConfigMap holds the current spec and endpoint, and goes away with the trigger.

**Invoke endpoint and limiter** (`internal/server/trigger_handler.go`,
`trigger_limiter.go`). State: per trigger, the times of recent invocations and a
count of active tasks, behind a mutex, lost on restart. Correct when the limits hold
over every rolling hour although each handler read its limits earlier.

**AgentWorkflow webhook and compiler**
(`internal/webhook/v1alpha1/agentworkflow_webhook.go`,
`internal/controller/agentworkflow_compiler.go`). Admission: the freeze of the
withdrawn `agentTask`, the search for dependency cycles, structural rules and
expressions. Compilation: DAG tasks, the branches of switches, templates,
parameters and translated references. Correct when cycles are found exactly and
what is admitted compiles to something Argo can run.

**AgentWorkflow controller** (`internal/controller/agentworkflow_controller.go`).
State: the status with the hash of the last compiled spec, which decides whether
to skip, and the WorkflowTemplate. Correct when ready means applied.

**A2A executor plugin** (`plugins/a2a`). State: per process a cache of the task
each Argo node started, behind a mutex, mirrored in a ConfigMap from which a
restarted process reads it back. Argo calls the same endpoint again and again;
the first call starts a task, the later ones poll it. Correct when a node returns
the result of its own task, a running task is not forgotten and every node ends.

**Model, ModelProvider, Instruction and AgentTool controllers**
(`internal/controller`). Each derives its own status from its object and at most
one other: a Model from the cached ModelProvider, an Instruction from the ConfigMap
it keeps under a finalizer. State: status, cache, queue, retry timer. Correct when
they rest only on a status that is right for the spec there is, and a deleted
Instruction goes away with its ConfigMap.

**Webhooks** (`internal/webhook`, `api/v1alpha1/*_webhook.go`), **capability rules**
(`internal/domain/capability`), **spec schemas** (`internal/spec`). Stateless checks,
but over objects that change between one read and the next, and repeated in
different order by the compiler. Correct when the two do not contradict each other
and what compiles is sound whatever was admitted.

**Delivery probe** (`internal/infra/delivery`, `cmd/main.go`). At start every replica
finds out, with a pod of a fixed name, whether the cluster mounts image volumes, and
publishes the mode. Correct when the verdict is about the cluster as it is, no pod
is left behind and every start ends.

**API server: services** (`internal/server/*_service.go`, `internal/converter`,
`auth.go`). Stateless RPCs: read, convert, write, answer. Correct when the answer
tells what happened, no update overwrites a write it did not see, and a client that
writes back what it read loses nothing.

**API server: watch streams** (`internal/server/watch*.go`, `server.go`,
`ui/src/app/composables/useListWatch.ts`). State: the handlers, the process and the
page's list, EventSource and reconnect timer. Correct when the page shows what there
is and shutdown ends.

**API server: playground and push gateway** (`internal/server/playground.go`,
`push_gateway.go`). State: one run with its candidates, polls and events. Correct
when every run ends and with the agent's verdict.

**Python SDK and runner**, **Helm charts**: outside the operator.

## 2. The modules

Each component module has its state as VARIABLES, one action per outcome of a step
of the code, `Next`, `Spec` and, where liveness is asked for, `FairSpec`. MC modules
only define constants. A definition marked "Mutant of X" is X with a plausible
mistake; it is used by no specification and serves to show that a property can fail.

| module | models | state and control it keeps |
|---|---|---|
| `AgentRollout` | what the Agent controller promises | spec, generation, claimed generation, what runs: no cache, queue or worker |
| `AgentReconcile` | Agent controller, compile step, owned objects | cache, queue, worker step, conflicts, faults, restarts; implements `AgentRollout` |
| `AgentAdmission` | Agent and Capability webhooks, capability rules, the compiler's capability part | one read per attachment, live in the webhook and cached in the compiler, Capabilities that change in between, both orders of the checks |
| `CatalogAdmission` | webhooks, validators and compile of AgentTool, ModelProvider, Model, Instruction, AgentTrigger | admission, the controller's verdict, the compile; merging of settings and texts as operators |
| `CatalogControllers` | Model, ModelProvider, AgentTool and Instruction controllers | cache per object, queue, status retries, finalizer, foreign ConfigMaps |
| `CapabilityVerify` | Capability controller, `checkVerified` of the compiler | verdict cache, re-check and backoff timers, status retry |
| `ArtifactVerifier` | `CosignVerifier.Verify`, trusted-root cache | classification of every failure, TTL, outages, rotation |
| `DeliveryProbe` | operator start, probe, mode resolver, state ConfigMap | several replicas and processes over one pod name, crashes, a cluster upgrade |
| `TriggerReconcile` | AgentTrigger controller | cached trigger, Agent and ConfigMap, live Secret, error classes, timers |
| `TriggerLimiter` | invoke handler and limiter | what each handler loaded, window, counters |
| `WorkflowAdmission` | AgentWorkflow webhook and compiler | the depth-first search call by call; rules and translation as operators |
| `WorkflowRollout` | what the AgentWorkflow controller promises | the workflow, the specs it has had, the template Argo runs: no cache, queue, hash or conflict |
| `WorkflowReconcile` | AgentWorkflow controller | skip rule, two status writes, refetch on conflict; implements `WorkflowRollout` |
| `A2APlugin` | the plugin and its store | handlers, mutex, snapshot, ConfigMap, several processes, restarts, Argo's retries |
| `ApiServices` | RPCs, converters, interceptors | every call of an RPC with its failures and lost answers, concurrent clients and writers |
| `WatchStream` | SSE handlers, server process, `useListWatch` | streams, lists under way, reconnect timers (leaked ones too), crash and shutdown |
| `AgentProxy` | playground and push gateway | candidates, answers lost or late, polls, events written |

Compositions. `MCServer` runs `WatchStream` and `AgentProxy`, `MCOperator` runs
`ArtifactVerifier`, `DeliveryProbe` and `CatalogControllers`, `MCAdmission` runs
`WorkflowAdmission`, `AgentAdmission`, `CatalogAdmission`, `ApiServices` and
`TriggerLimiter`. Their parts share no state in the code, so their product would
only multiply states: a behaviour picks one part (`part`), the others keep a quiet
initial state in which nothing is enabled. `AgentAdmission` and `CatalogAdmission`
compose what does interact: webhook, changing objects, controller and compiler.

### Conventions shared by the controller modules

*Copies.* A resourceVersion appears only as "is this copy still the server's?":
`cFresh`, `wFresh`, `ofresh` in `AgentReconcile` and `CapabilityVerify`, comparison
of records (`seen = awf`, `noticed`) elsewhere. A write from a copy that is not is
the API server's Conflict. A write that changes nothing raises no event, as on the
real server.

*Queue.* `dirty`/`queued` is "the key is in the queue", `delayed`/`timer` a
RequeueAfter or a rate-limited retry. Taking a key clears it; an event that arrives
while the key is processed sets it again. One worker per object: that is what
controller-runtime guarantees per key.

*Restart* empties the process state, fills the cache from the server and queues
every object, as an informer's initial list does.

*Disturbances.* User edits, deletions, foreign edits, failed requests and restarts
are actions that may happen at any step. `Budgets` (or `MaxFaults`, `MaxDrift`,
`MaxChanges`) say how many; they are bounds of the model, not of the code.

### Correspondence

`AgentReconcile`. `agent`, `deps`, `obj`, `avail`, `secret` are the API server;
`cAgent`, `cDeps`, `ofresh` the cache; `notify` the watch events not yet mapped to
Agents (`FindAgents` is `findAgentsFor…`); `pc` and `w` the reconcile. Actions:
`ReconcileGone`, `RemoveFinalizer`, `AddFinalizer`, `StartReconcile` for the head of
`Reconcile`; `SpecRefused`, `CompileRead` (one per reference), `CompileStops`,
`CompileInvalid`, `CompileOk` for the compile; the Secret steps; `EnsureOk`,
`EnsureFailed`, `EnsureConflict` per owned object; the status write, its retry and
giving up. The compiled document is represented by what it depends on: the spec's
own part and the part of each referenced object (`Hash`). The pod template adds
what is outside the hash: artifacts, runtime settings, Secret version. The Service an
AgentTool names with a port name (`compiler/tools.go:93-113`) is one more reference,
in `Unwatched`: the compile reads it, the controller polls it while it is missing, and a
change of it wakes nobody. `BuildRefused` is the Deployment that cannot be built, for a
Capability whose name is no DNS label: it fails every reconcile, not just once.

`CapabilityVerify`. `rec` is `verifyState[key]`: uid, generation, verdict, backoff,
and whether the re-check interval has passed. `verdicts` is a history variable.
`CompileAttach` is the Agent compiler's `checkVerified` at any time.

`ArtifactVerifier`. One call at a time; an input is a manifest of layers plus what
registry, credentials and TUF do. Cryptography is a field of the layer.

`A2APlugin`. `call[n]` is the handler that serves node n, with a step per point at
which another handler, a crash or Argo can intervene: send, store, take the
snapshot, write the ConfigMap, poll, reply. Keys are sequences of symbols so that
the two conversions (every `/` to `_`; the first `_` back to `/`) do what the code's
do.

`TriggerLimiter`. `handler[e]` remembers the limits loaded before the mutex;
`accepted` and `running` are history for the properties. The counters are per
process; the history restarts with them.

`TriggerReconcile`. `copy` is the informer's copy of the trigger, from which a reconcile
and the finalizer's updates start; `seen` that of the Agent; `cmFresh` tells whether
that of the ConfigMap is current. Endpoint, credentials and their versions are
numbers; the ConfigMap carries the generation and the values it was written from, and
may be somebody else's. `last` remembers what the last reconcile read of the Secret.

`WorkflowReconcile`. A spec is its own hash, which is the assumption that SHA-256
does not collide; the template is named by the spec it was compiled from.

`WorkflowAdmission`. `stack` holds the active calls of `visit()` with their loop
index, `color` the map of the code; `VisitRoot`, `VisitDep`, `VisitDone` are one
iteration each. Names are sequences of their `-`-separated segments, so that the
generated `<task>-<target>` can meet a name the user wrote.

`AgentRollout` sees of `AgentReconcile` the spec, generation and deletion of the
Agent on the server, `status.observedGeneration` (`claimed`) and the Deployment
(`running`). `Images[s]` are the compiled templates with the runtime and the document
of s. `EditSpec` is `Edit`, `DeleteAgent` and `RemoveFinalizer` are `Delete`,
`EnsureOk("deployment")` is `Roll`, `StatusWrite` is `Claim`, drift and garbage
collection are `Disturb`; every other step stutters.

`WorkflowRollout` sees of `WorkflowReconcile` the workflow without its hash (`View`),
the specs it has had (`had`, which is `used`) and the spec of its template; a template
that is gone or that somebody else edited is `None`. `EditSpec` is `Edit`,
`DeleteWorkflow` and `Finalize` are `Delete`, the status write before the compile is
`Mark`, the write of the template is `Apply`, a successful status write after it is
`Claim`; foreign changes, garbage collection and a `Finalize` that deletes the template
but meets a conflict are `Disturb`; every other step stutters.

`AgentAdmission`. `reads` are the answers of the Gets so far, `stage` the judgement
under way. The webhook reads `caps`, the Capabilities of the API server; the compiler
reads `cached`, which `ObserveCapability` brings up to date one by one, and a change of
a copy makes another compile due (`dirty`), as the watch does. A schema is a
combinator of members, each a leaf or a combinator of leaves, any number of both: what
`placeholderSatisfied` meets at a deeper level is the same rule again. Specifiers are
the set of versions they admit. Of the AgentSpec schema only the outcome is kept:
`conforms` says whether the document made of the Agent's own fragment and of what it
refers to would pass, `extra` whether the untyped part is an object, and `extraCaps` are
capability entries hidden in it.

`CatalogAdmission` has one `item` and its `fate`. A layer of a Model's settings is the
set of its keys; `refused` names the values, by layer and key, that the schema does not
allow, and the compile refuses the document when one of them wins (`DocumentRefused`).

`CatalogControllers`. `api` and `cache` by object, each with a version; `jobs` the
reconciles under way. One `Work(o)` per request a reconcile makes.

`DeliveryProbe`. `proc[r]` is a start of replica r from the delete of an old pod to
the manager; `pod` is at most one record because its name is fixed.

`ApiServices`. Conversions work field by field, so a behaviour follows one field of the
metadata or the spec of one kind through `nil`, zero and two values. `KnownLoss` lists the fields whose two
conversions do not match (section 6).

`WatchStream`. A version of a resource is the time of its last change; `page.view`
is what the list shows. `lists` are requests under way, which may return in any
order; `page.leaked` counts reconnect timers nobody holds a handle of.

`AgentProxy`. `tasks` are the tasks the agent started for one message; `events` the
AG-UI stream, in the order written.

## 3. The runs

| run | cfg | asks | bounds, and why they are enough |
|---|---|---|---|
| `agent_rest` | `AgentReconcile_rest` | `RestsOnlyWhenApplied` (`RestInv`), `NoResurrection`, refinement `Rollout` | one watched reference with two contents and a Service, a spec with each; disturbances (edit with reference change, a change of the Service with a restart, deletion with restart, drift, availability, deletion with a failed write) at every step. Two generations: a stale copy is either one behind or not stale. |
| `agent_live` | `AgentReconcile_live` | `RestsOnlyWhenReported`, `WorkloadCompiled`, `Convergence` | every outcome a reference can give (ok, missing, refused, schema violation, error, not mountable), a Service that comes and goes and a refused spec, one disturbance of each kind |
| `capability_settle` | `CapabilityVerify_settle` | `VerdictIsForThisDigest`, `OutageIsNoVerdict`, `VerificationSettles` | two digests, two lives of the object, edit with outage or restart, six outages in a row (15 s doubles until the sixth meets the cap of 300 s) |
| `capability_hole` | `CapabilityVerify_hole` | `DeployedIsVerified`: violated | one edit, nothing else |
| `operator_parts` | `Operator_parts` | verifier: `VerifiedIsSigned`, `NegativeIsDefinitive`, `RootOutlivesOutage`; start: `VerdictIsFresh`, `ProbePodIsCollected`, `RecordIsAModeInUse`, `StartEnds`; catalogue: `ProviderVerdictIsOfItsGeneration`, `RestsOnlyWhenRight`, `DeletionCompletes`, `CatalogSettles` | manifests of up to two layers, one layer per outcome (the loop keeps only whether a layer decided and the last failure); two replicas, up to three process starts, one failed request, every way a cluster treats image volumes before and after an upgrade; one or two edits and a failed request per controller, provider and Model together, a provider deleted and recreated (three edits) |
| `trigger_settle` | `TriggerReconcile_settle` | `RestsOnlyWhenConfigured`, `ConfigurationSettles`, `NothingLeftBehind` | three kinds of spec, two generations; `MCWorlds` begin with everything in order, with somebody else's ConfigMap, with an agent that is not there or has no URL, without the Secret or without its key; then any two (`MaxMishaps`) of an edit, a move of the agent or the Secret, a failed request or restart, a foreign edit, and a deletion at any step: two are what it takes to make a copy stale and a repair fail |
| `workflow_settle` | `WorkflowReconcile_settle` | `RestsOnlyWhenApplied`, `ReadyIsHonest`, refinement `TemplateRollout`, `WorkflowSettles`, `NothingLeftBehind` | two good specs and a bad one, three generations (an edit and its undoing), one failure or restart, one foreign change |
| `gates` | `Admission_gates` | workflow: `CyclesFound`, `OnlyFrozenFails`, `DagIsRunnable`, `ReferencesResolve`, `HeadersReadTheirKey`; Agent: `CompiledIsSound`, `DeniedWouldNotCompile`, `AdmittedIsNotRefused`, `PlaceholderStandsForAString`; catalogue: `AdmittedIsUsable`, `HeadersAreDistinct`, `DocumentPrecedence`, `ProviderAsValidated`; RPCs: `AnswerMatchesEffect`, `NothingOverwrittenUnseen`, `OnlyAuthenticatedWrites`, `RoundTripKeeps`; limiter: `RollingHourHolds`, `ConcurrencyHolds` | all graphs of three tasks with up to two dependencies each, missing and doubled names, switches of two cases whose generated names may be those of other tasks, also of one the switch waits for, headers from two ConfigMaps; two Capabilities with up to two pins, every schema of two leaves and of a leaf beside a nested combinator of two, one edit of a Capability, copies that lag or have never seen it, a Capability for every rule and an Agent for everything the webhook leaves to the compiler; tasks called like the entrypoint and parameters called like a header's; every combination of the fields the validators look at; every field of the metadata and the spec of every kind with two RPCs, fields of each sort with a writer beside them; three events, two ticks to the hour, two hours, limits 1 and 2, one edit or restart |
| `a2a_faults` | `A2APlugin_faults` | `RunningIsTracked`, `ResultIsOwn`, `OrphansArePaidFor`, `NodesSettle` | one node with any two of eleven kinds of failure, two endpoint candidates, one Argo retry, two poll errors to give up; two nodes beside a restart; two plugins over one ConfigMap beside a restart: each counter can reach its limit |
| `a2a_shared` | `A2APlugin_shared` | `ResultIsOwn`: violated | two nodes of one template, no failure |
| `server_streams` | `Server_streams` | page: `ViewIsCurrent`, `KeepsCatchingUp`, `DrainEnds`; proxy: `OneTaskPerRoute`, `PolledFinishIsSuccess`, `EveryRunEnds` | two resources, three changes, two streams (the old one ends while the new one is served), two failures, refreshes or shutdowns; both endpoints, every lost answer, two polls to the limit |
| `server_sync` | `Server_sync` | `StaysInSync`: violated | one resource, created and deleted |

A cfg checks the invariants of a component under one name, the conjunction of the
named parts and of the component's type invariant; each part has a mutant of its own
that breaks it.

| invariant | module | parts |
|---|---|---|
| `RestInv` | `AgentReconcile` | `RestsOnlyWhenApplied` |
| `StoreInv` | `A2APlugin` | `RunningIsTracked` |
| `VerdictInv` | `CapabilityVerify` | `OutageIsNoVerdict` |
| `TriggerInv` | `TriggerReconcile` | `RestsOnlyWhenConfigured` |
| `WorkflowInv` | `WorkflowReconcile` | `RestsOnlyWhenApplied`, `ReadyIsHonest` |
| `VerifierInv` | `ArtifactVerifier` | `VerifiedIsSigned`, `NegativeIsDefinitive` |
| `ProbeInv` | `DeliveryProbe` | `VerdictIsFresh`, `ProbePodIsCollected`, `RecordIsAModeInUse` |
| `CatalogInv` | `CatalogControllers` | `ProviderVerdictIsOfItsGeneration`, `RestsOnlyWhenRight` |
| `CompiledInv` | `WorkflowAdmission` | `DagIsRunnable`, `ReferencesResolve`, `HeadersReadTheirKey` |
| `AdmissionInv` | `AgentAdmission` | `CompiledIsSound`, `DeniedWouldNotCompile`, `AdmittedIsNotRefused`, `PlaceholderStandsForAString` |
| `CatalogueInv` | `CatalogAdmission` | `AdmittedIsUsable`, `HeadersAreDistinct`, `DocumentPrecedence`, `ProviderAsValidated` |
| `ApiInv` | `ApiServices` | `AnswerMatchesEffect`, `NothingOverwrittenUnseen`, `OnlyAuthenticatedWrites` |
| `LimiterInv` | `TriggerLimiter` | `RollingHourHolds`, `ConcurrencyHolds` |
| `PageInv` | `WatchStream` | `ViewIsCurrent` |
| `RunInv` | `AgentProxy` | `OneTaskPerRoute`, `PolledFinishIsSuccess` |

What the properties mean:

* `RestsOnlyWhenApplied` (Agent): when nothing is queued, running or on its way,
  an Agent that compiles has all four owned objects as its current composition
  calls for, and its status says so. A lost wake-up of anything watched breaks it.
  The Secret and the Service behind a port name are not watched and count as the last
  reconcile read them (`LastSeen`; disagreement 4). `RestsOnlyWhenReported` is the same
  for an Agent that does not compile; it also never rests on a dependency it found
  missing or on a Deployment it could not build.
* `ObservedMeansApplied` (proved; part of what `Rollout` says): the current generation
  is reported only when the Deployment carries it, although the status is written
  from copies and rewritten over re-read ones.
* `Rollout` (`AgentRollout!Spec`): a reader of the API server sees compiled specs rolled
  out, never an older one over the generation the status claims, and a claim only
  over a Deployment that runs it; caches, conflicts, retries and restarts do not show.
* `NoResurrection`: after the finalizer is gone no reconcile that started earlier
  writes an owned object.
* `WorkloadCompiled`: a failed compile leaves a good Deployment alone.
* `Convergence`: after the last disturbance the Agent becomes right for good, for the
  Service and the Secret as they were last read.
* `VerdictIsForThisDigest`: with no timer pending the condition is True and the
  verifier approved this very digest, through edits, recreation under one name,
  restarts and the verdict cache.
* `OutageIsNoVerdict`, `NegativeIsDefinitive`: no failure to look is ever reported
  as a fact about the artifact, in the controller and in the verifier.
* `VerifiedIsSigned`: success means a downloaded layer whose signature holds and
  that claims the pinned digest. `RootOutlivesOutage`: a root once fetched serves
  while TUF is away.
* `RollingHourHolds`: in every hour that ends with an acceptance there are no more
  acceptances than the laxest limit an event of that hour was checked under.
  `ConcurrencyHolds`: the same for tasks in flight, while limits do not change.
* `RestsOnlyWhenConfigured`, `ConfigurationSettles`: the ConfigMap has the current
  generation and endpoint, and for a push trigger the credentials last read, wherever
  the trigger controller rests without having given up (`GivenUp`: an invalid spec, a
  Secret without the key), and gets there. It holds until somebody else edits the
  ConfigMap, which nothing watches; a ConfigMap that was there before is overwritten.
* `RestsOnlyWhenApplied` (workflow): an undisturbed workflow at rest is ready and has the
  template of its spec. `ReadyIsHonest`: at every moment, a status ready for the current
  generation is about the template there is, unless somebody else changed that.
* `TemplateRollout` (`WorkflowRollout!Spec`): a template is written only while the status
  is not ready, never an older one over the generation the status observes, and ready
  is claimed only for the generation that was marked and applied. It holds also
  after undone edits and foreign changes, of which `RestsOnlyWhenApplied` says nothing.
* `WorkflowSettles`: an undisturbed workflow gets its template for good and its
  status keeps coming back to ready. Not "stays ready": the write that marks the
  status not ready wakes the controller, and a stale cache makes it compile again.
* `NothingLeftBehind` (twice): deletion leaves no ConfigMap and no template. A
  ConfigMap of the trigger's name that somebody else had made is never owned and stays.
* `CyclesFound`: `detectDAGCycles` reports an error exactly for cyclic
  dependencies. Cyclic is defined without a search: a non-empty set of names each
  of which depends on one of the set.
* `OnlyFrozenFails`: what is admitted fails to compile only for an `agentTask`
  that the stored object had.
* `DagIsRunnable`, `ReferencesResolve`, `HeadersReadTheirKey`: generated branches
  have one target, unless a task is called like the entrypoint, and, unless one took
  the name of a task, no cyclic waits; translated references name existing parameters
  and outputs, but for the two kinds of producer in section 6; a header reads the
  key it names, and no other parameter has its name unless the user declared one,
  although parameter names are joined from two strings.
* `RunningIsTracked`, `OrphansArePaidFor`: a task Argo was told about is not
  forgotten by a restart, and every task nobody polls cost a failure.
* `ResultIsOwn`: a node returns the output of a task sent for it. `NodesSettle`:
  every node ends though the agent may never finish.
* `CompiledIsSound`: what compiles installs one version per package, on a runner in
  range, from verified Capabilities when the policy asks for it, under entry names
  claimed once, with the platform's entries last, whatever the webhook let through.
  `DeniedWouldNotCompile`: what the webhook denies for a Capability would not compile
  from the same reads. `AdmittedIsNotRefused`: an Agent that was admitted without a
  warning is, once the compiler's copies are those of the API server and no compile is
  due, refused for good only (a) for what the webhook leaves to the compiler
  (`LeftToTheCompiler`: an `extra` that is no object, a document the AgentSpec schema
  refuses, as in `compiler_test.go:281`, an unknown runner version without attachments),
  (b) after a Capability changed, (c) for an entry name older than the Capability
  webhook's rule. `PlaceholderStandsForAString`: the schema check accepts a placeholder
  only where some string could stand, and wherever one could but for a `oneOf` in a
  `oneOf`, where it is stricter.
* `AdmittedIsUsable`, `HeadersAreDistinct`, `DocumentPrecedence`, `ProviderAsValidated`:
  the same for the catalogue: what is admitted its controller accepts; a compile fails
  for good over a Model exactly when a setting the AgentSpec schema does not allow wins
  its key or the Agent's extra block is no object, which the webhook leaves to the
  compiler (`docs/model.md:84-86`), and over a tool or a provider only when no webhook
  saw it; a secret's header is no other header's, no layer of a document is lost or jumps the queue, and
  the runner is pointed at the provider that was validated.
* `ProviderVerdictIsOfItsGeneration`, `RestsOnlyWhenRight`, `DeletionCompletes`,
  `CatalogSettles`: a status says of a generation what validation says of it, through
  conflicts and re-reads; the controllers rest only on a right status, reach it, and
  a deleted Instruction goes away with its ConfigMap.
* `VerdictIsFresh`: a replica on image volumes saw them work on the cluster as it has
  been since that process started, whichever replica's pod it read.
  `ProbePodIsCollected`: a pod nobody holds was lost by a crash, a lost answer or a
  failed delete, not by the race over its name. `RecordIsAModeInUse`: the published
  mode is one a replica works with. `StartEnds`: every start runs or exits.
* `AnswerMatchesEffect`: an RPC answered OK took effect once; one refused with any code
  but Internal did not. `NothingOverwrittenUnseen`: no write between an update's read
  and its write is lost. `OnlyAuthenticatedWrites`. `RoundTripKeeps`: writing back what
  was read with one field changed changes that field and keeps the rest of the spec,
  the labels, the annotations and the finalizers; `KnownLoss` names what is cleared
  (disagreement 22) and admits no other change of it.
* `ViewIsCurrent`: a page whose stream has delivered everything shows every resource
  at its latest version; what else it shows was deleted between its list and its
  watch. `KeepsCatchingUp`: it always comes back to such a stream. `DrainEnds`:
  shutdown ends once no live peer is left.
* `OneTaskPerRoute`: an agent that serves one endpoint works on a message once, lost
  answers included. `PolledFinishIsSuccess`: a polled run finishes only if the task
  ended without failing. `EveryRunEnds`: polls are bounded.

## 4. Fairness, deadlock, symmetry

Weak fairness on the reconcile: a work queue hands out its keys and requests
return. On `Observe…` and `FindAgents`: watches deliver, or are re-listed.
On `RequeueFires`, `TimerFires`, `RecheckDue`, `Expire`: time passes. On
`CollectConfigMap`, `CollectTemplate`: Kubernetes' garbage collector. On the plugin's
steps, `ExecuteTemplate` and `RetryNode`: Argo requeues a running node and makes the
retries it was configured for. `SyncBegin`, taking the store's mutex, has strong
fairness: Go's mutexes are starvation free, and the lock may be taken by others in
between. On the catalogue's `Work`, `Observe`, `TimerEnds` and `Collect` for the same
reasons; on every step of a starting process and on the probe's deadline (`Expire`).
On the handlers of a stream, the server's start and stop, answers to requests the
server holds, and the page's one kept timer (`TimerStart`); leaked timers
(`LeakedStart`) and the user's refreshes owe nothing. On the playground's sends and
polls, which carry their own timeouts. Nothing is assumed of users, failures, restarts, registries, or agents
finishing a task. No fairness is used for safety properties.

Every cfg says `CHECK_DEADLOCK FALSE`: a controller at rest, a verified artifact, a
finished node, a compiled workflow are states in which the system really stops, and
the `Rests…` properties say which of those states are right.

`SYMMETRY` is used in `agent_rest` only, which has no liveness property: the two
contents of the reference, which no action tells apart.

## 5. The proofs

### Agent controller (`AgentReconcileProofs`)

For every set of referenced objects, watched or not, contents and specs, every bound and every
budget of disturbances, from the three named assumptions of `AgentReconcile` (the
shape of contents and specs, bounds are numbers):

| theorem | states |
|---|---|
| `TypeCorrect` | `Spec => []TypeOK` |
| `AppliedBeforeRest` | `Spec => []RestInv`: `RestsOnlyWhenApplied` |
| `ReportedBeforeRest` | `Spec => []RestsOnlyWhenReported` |
| `OnlyCompiledRuns` | `Spec => []WorkloadCompiled` |
| `ObservedIsApplied` | `Spec => []ObservedMeansApplied` |
| `DeletedStaysDeleted` | `Spec => NoResurrection` |
| `RolloutImplemented` | `Spec => Rollout`, that is, `AgentReconcile` implements `AgentRollout` |

None of the properties is inductive. They speak of a controller at rest, and a step
that leads to rest is harmless only because of what the reconcile did many steps
earlier. `IInv`, at the end of `AgentReconcile`, adds:

* `Generations`: worker <= cache <= server, equal generations mean equal specs, and
  no copy of the status reports a generation the worker has not loaded. Without it
  a status rewritten over a newer copy could report what was never applied.
* `Pinned`: a reconcile past its first step implies the finalizer is on the
  server's object. This is all that `NoResurrection` needs.
* `Bookkeeping`: what the worker concluded follows from what it read.
* `Reports => Carries(agent.spec)`: whoever holds, or is about to write, a report of
  the current generation does so while the Deployment carries it.
* `InStep == Rearmed \/ Tracks`: either another reconcile is certain (queued,
  delayed, or the Agent is on its way out), or what the worker has read and written
  so far still accounts for everything the informer has delivered, except for
  watched objects in `notify` and owned objects whose event is outstanding. At
  rest both exceptions are empty, so the second disjunct gives the two `Rests`
  properties. Each action either keeps `Tracks` or sets `dirty`: that is the proof
  that no wake-up a watch owes is lost. Of what is not watched `Tracks` says nothing but
  what was read: hence `LastSeen` in the properties.

Each conjunct has a lemma for all steps (`TypeStep`, `GenerationsStep`, `PinnedStep`,
`BookkeepingStep`, `CarriesStep`, `WorkloadCompiledStep`, `InStepStep`); `StepCases`
splits `Next` into the worker's steps and the others once for all of them.

The refinement follows from the same invariant. `RolloutStep` shows that a step from a
state with `IInv` is a step of `AgentRollout` or leaves its variables alone:
`DeploymentStep` says who writes the Deployment; `EnsureRolls` uses `Generations` (a
worker that could overwrite a claimed generation would have loaded it, so it writes
that generation's spec) and `WorkloadCompiled`; `StatusClaims` uses
`Reports => Carries`. `Pinned` excludes both after deletion.

### Admission of workflows (`AdmissionProofs`)

For every set of workflows of any size:

| theorem | states |
|---|---|
| `TypeCorrect` | `Spec => []TypeOK`: also no name has two active calls |
| `SearchIsExact` | `Spec => []CyclesFound` |
| `AdmittedCompiles` | `Spec => []OnlyFrozenFails` |
| `CompiledRuns` | `Spec => []CompiledInv`: `DagIsRunnable`, `ReferencesResolve`, `HeadersReadTheirKey` |

`SearchInv` has, beside types: gray names are those with an active call; the
dependencies an active call has passed are black or the call above it; each call was
made for a dependency of the one below; black names depend on black names only and
contain no trap (a non-empty set each of whose members depends on a member); tasks
before the outer index are not white. *An error is right*: the calls from the gray
dependency up to the top are a trap. *No error is right*: when a call returns, its
dependencies are black and it is not among them, so a trap with it would, without
it, be one before. At the end every task is black, a name that is no task has no
dependencies, so no trap is left. Working with traps instead of paths keeps the
proof free of induction over the length of a cycle. `AdmittedCompiles` rests on
`FrozenInv`: what passed the freeze has only old `agentTask`s, and what is admitted
has exactly one type per task.

`CompiledRuns` rests on `AdmittedInv`: what is past the webhook is valid and, by
`SearchIsExact`, has no trap. `NoCircle` turns a circle of DAG tasks into a trap of
tasks: all that a DAG task waits for are names of tasks, and where no branch has such
a name (`Shadowed`), nodes of tasks. `TranslateSettled` goes through the two
grammars, `SomeFirst` finds the header a parameter got its value from, and
`CmParamIsOneToOne` shows that the name of a ConfigMap parameter tells ConfigMap and
key, because a ConfigMap's name has no `_` in it and so is one segment.

### Admission of Agents and of the catalogue (`AdmissionProofs`)

| theorem | states |
|---|---|
| `CatalogueAgrees` | `[]CatalogueInv`: `AdmittedIsUsable`, `HeadersAreDistinct`, `DocumentPrecedence`, `ProviderAsValidated` |
| `JudgesAgree` | `[]AdmissionInv`: `CompiledIsSound`, `DeniedWouldNotCompile`, `AdmittedIsNotRefused`, `PlaceholderStandsForAString` |

`CatalogueAgrees` is for every set of submissions of the shape `SubmissionsAssumption`
states: any number of headers, settings, texts and timeouts. `CatalogueIndInv` adds
only what is past admission (`PastAdmission`: with webhooks, it was admitted); the
work is in lemmas on the rules. `OneOf` turns "exactly one field is set", which the
code counts, into "this one and no other"; `ProviderTypes` and `HandlerFacts` follow
a provider from the validator's type to the handler's prefix and environment;
`SettingsFacts` and `InstructionFacts` show that no layer of the merge is lost or
jumps the queue, from which also follows which refused value reaches the schema check; `LargestTimeout` finds the maximum of a list of any length from a
minimal upper bound, without induction over the list.

`JudgesAgree` is for every set of Agents, Capabilities and runners, every edit of a
Capability between two reads and any number of attachments, from `WorldsAssumption`,
`EditsAssumption` and `InjectedAssumption` (shapes of those constants). The webhook
reads each Capability once, the compiler again, and they check in different order,
so `AdmissionIndInv` says what each read established: `AllPass`, every attachment the
compiler has passed satisfies all its rules; `Complete`, a compiled Agent had all of
them read and `out` is their document; `DeniedForCause`, a denial comes from something
read or from the Agent itself; `ReadsAreCurrent`, as long as no Capability changed and
the webhook found all it asked for, what was read is what is there; `AdmissionHolds`, then what was admitted is still
admissible; `CopiesAreCurrent`, as long as no compile is due, what the compile read is
what its copies say; `RefusedForCause`, a refusal comes from the Agent itself or from
something read. With the copies up to date (`UpToDate`) the last three contradict each
other but for the named exceptions. Two lemmas say what the algorithms compute: `ConflictsAreExact`, the
conflict detection, which compares each pin with the first one of its package and with
the runner's baseline, finds none exactly when every package has one version, for any
lists of pins; `PlaceholderRule`, a placeholder passes only where a string could, and
wherever one could but for a `oneOf` in a `oneOf`, for any number of members and leaves:
`CombinatorRule` does it for one combinator and `MemberRule` for the one below. `FourParts` places the entries of
the document: the platform's come last.

### Capability controller (`CapabilityVerifyProofs`)

`OutagesGiveNoVerdict` (`VerdictInv`) and `RestingVerdictIsForThisDigest`, from the
assumptions on the backoff, the bounds and NULL. `IndInv` adds: `Lineage`, no copy is
ahead of the server's object and UID with generation names one digest; `AllGiven`,
every outcome that a status, the cache or a reconcile carries was given by the
verifier; `CacheIsSound`, a cached True is about the digest of the version it is
filed under, so a recreated object of the same name does not inherit it;
`QuietIsRight`, while no event is queued, the worker's copy is the informer's and
what it is about to write is right for it.

### AgentWorkflow controller (`WorkflowReconcileProofs`)

| theorem | states |
|---|---|
| `ReadyMeansApplied` | `Spec => []WorkflowInv`: `RestsOnlyWhenApplied`, `ReadyIsHonest` |
| `TemplateRolloutImplemented` | `Spec => TemplateRollout`: `WorkflowReconcile` implements `WorkflowRollout` |

The controller skips when a ready status has the
hash of the spec, so the proof is about who can write such a status: `Marked`, the
write that takes readiness away precedes the apply; `Versions` and `Hashed`, a spec
names one generation in the cache and in the reconcile under way as long as no spec
came back; `Truthful`, a status that lets the controller skip, or that is about to be
written, belongs to the template there is; `QuietIsUpToDate`.

`Truthful` speaks only of undisturbed workflows. The refinement and `ReadyIsHonest` need
`Rolled`, which holds of all: from the mark to the status write nobody else writes the
status, so the generation that was marked is the one applied and reported, although
the mark may be written over a re-read copy. `WorkflowRolloutStep` maps each action.

### AgentTrigger controller (`TriggerReconcileProofs`)

`TriggerRests` (`TriggerInv`) has the hypothesis `SameNamespace`: an event of the
Agent wakes only the triggers of its own namespace (`findTriggersForAgent`), so a
trigger on an Agent of another namespace may rest on an old endpoint. The run has it
too. `HasRead` and `CopyIsCurrent` relate copies and reads to the server's objects.
`WorkIsCurrent`: what a reconcile has read still holds unless an event is queued or
the informer is behind; `RestIsConfigured`: the same once it has ended.

### API server (`ServerProofs`)

| theorem | states | what the induction needs |
|---|---|---|
| `RpcsTellTheTruth` | `[]ApiInv` | `RpcInOrder`: no effect before the last call, and a write beside an Update leaves its resourceVersion behind; `BodyIsOwn`: a message is the last answer its client got, or changes one field of it |
| `UpdatesKeepTheRest` | `RoundTripKeeps` | the same, and a round trip lemma for the metadata and per kind of converter |
| `RunsAreHonest` | `[]RunInv` | `AskedOnce`: only endpoints tried before can have started a task; `PollsItsTask`, `StreamInOrder`, `ReplyIsEarned` |
| `LimitsHold` | `[]LimiterInv` | `OnRecord`: what was accepted in the last hour is in the limiter's list, for any number of events and any limits; `CountedWithin` |
| `PageCatchesUp` | `[]PageInv` | see below |

`WatchIndInv`: `OneSource`, one live handler per page. `Budget` counts tokens, that
is, what will call `start` again (leaked timers, lists under way, the timer, the
EventSource); each but the first was paid for by a refresh or a fault, which bounds
the leak. `Honest`: a list that shows what is gone was taken before it went.
`Caught`: the last event of a resource in an open channel is its latest version, and
a resource without one is shown right or went between list and watch.

### Operator process and catalogue (`OperatorProofs`)

| theorem | states | what the induction needs |
|---|---|---|
| `AnswersAreEarned` | `[]VerifierInv` | the cached root is one TUF served; `VerdictFacts` on the loop over any number of layers |
| `OutagesCostNoVerdict` | `RootOutlivesOutage` | the same |
| `ProbesAgree` | `[]ProbeInv` | `Healthy`: when a process polls, every pod is younger than it, whoever made it; `PodHonest`: a pod tells what the cluster of its time does, and is somebody's or was lost; `Settles`: a replica holds the published mode, or is still to publish one without a conflict |
| `CatalogRests` | `[]CatalogInv` | `Behind` (copies), `History` (generations of an object that was not made anew), `Working` (a reconcile with no event since it began is about what the informer shows), `Rested` (its end) |

For any number of replicas, starts, layers, edits, deletions, recreations, failures
and tries. `ProbesAgree` needs at least one replica, else the record is nobody's.

### A2A plugin (`A2APluginProofs`)

`ResultsAreOwn` (`ResultIsOwn`), `StoreTracks` (`StoreInv`) and `OrphansCost`
(`OrphansArePaidFor`), for any nodes, processes and scenes of failures. All three have
the hypothesis `KeysApart`: nodes have keys of their own, which survive the way
through the ConfigMap. That is what `taskKey` promises and what two nodes of one
template do not have; `a2a_shared` shows what happens then. `PluginIndInv`:
`StoreIsOwn` and `CallIsOwn`, everything in the caches, in the ConfigMap, in a
snapshot or in a reply is about a task sent for that key; `CallIsTracked`, nothing is
sent while the cache has a task; `Persisted`, where one process serves the namespace
and only it fails, ConfigMap, snapshot and cache agree on every node that is not
waiting to be written. `OrphansCost` adds an argument on sets: `NothingLost` says
that a step makes at most one task of a key unknown, and such a step costs a failure,
so the orphans of a key never outnumber the failures.

### What the proofs changed

Assumptions were added where a proof needed them and the code has them: NULL, the
stand-in for "nothing", is no value of the sets it is added to (`NullAssumption`,
`AbsentAssumption`, `NoRecordAssumption`, `NoConfigMapAssumption`,
`NoCallAssumption`); the constants have the shapes the modules expect
(`SessionsAssumption`, `WatchAssumption`, `LimiterAssumption`). An absent text is
`"none"`. The limiter keeps one time per event (`invocations`), which is the code's
list up to its order. The shapes of the submitted objects are stated
(`SubmissionsAssumption`, `WorldsAssumption`, `EditsAssumption`, `InjectedAssumption`),
an unset string of theirs is `"empty"`, and the views of `WorkflowRollout` are no
absent value either (`AbsentAssumption`). A list of pins is no longer bounded by four,
and maxima and selections are defined by what they are rather than by how TLC finds
them. `DocumentPrecedence` now speaks of the fragment's texts too. Guards of a `CASE` that overlapped became an `IF`: the meaning
of such a `CASE` is a choice TLC resolves and a proof cannot.

Two invariants turned out to hold only within the bounds the runs had, and state now
what the code does; the runs reach the cases: the status of a ModelProvider that was
deleted and recreated within a reconcile may carry a generation the new one does not
have yet (`CatalogTypeOK`; disagreement 19), and the DAG of a switch that waits for a
task named like one of its branches is cyclic (`DagIsRunnable`; disagreement 15).

### Only model-checked

Liveness (`Convergence`, `VerificationSettles`, `ConfigurationSettles`,
`WorkflowSettles`, `NothingLeftBehind`, `NodesSettle`, `CatalogSettles`,
`DeletionCompletes`, `StartEnds`, `KeepsCatchingUp`, `DrainEnds`, `EveryRunEnds`):
fairness and ENABLED are out of the prover's reach. The three violated properties are
refuted by TLC's behaviours. Everything else a run checks is a theorem.

## 6. Where code and documents disagree

Shown by a run:

1. *Two nodes of one template share a task* (`a2a_shared`). `taskKey`
   (`plugins/a2a/plugin/plugin.go:41`: "generates a unique key") is workflow and
   template name; `buildSwitchDAGTasks` compiles a branch to a second DAG task with
   the template of its target. The second node finds the first one's progress, polls
   it and returns its result.
2. *A digest edited after verification is mounted under the old verdict*
   (`capability_hole`). `checkVerified` (`compiler.go:495`) looks at the condition's
   status, not at its `observedGeneration`.
3. *A page can show what is gone* (`server_sync`). `useListWatch.ts:37` promises an
   `items` that "stays in sync with the cluster"; the watch is opened without the
   list's resourceVersion, so a deletion between the two leaves the resource on the
   page until the next list.

Met while modelling; the models do what the code does, and the properties except
these cases by name:

4. The Agent's Secret is read in a reconcile but not watched
   (`agent_controller.go:121-149`; `docs/architecture.md:103`: "Secret/Model/...
   changes recompile"). Nor is the Service whose port an AgentTool names
   (`compiler/tools.go:93-113`; the controller only `Owns` its Services, while
   `agent_watchers.go:15-18` has Agents enqueued "when anything in their composition
   graph changes"): after a change of it the Agent rests on the old port, or on a
   document that no longer compiles, until something else wakes it. The properties
   take both as last read. A Capability whose name is no DNS label is compiled and
   then fails every build of the Deployment, with retries that cannot succeed.
5. `docs/reference/runtime-contract.md:67-68` says that the last good generation
   keeps running. The ConfigMap is written before the Deployment
   (`reconcile.go:147`), so a reconcile that fails in between leaves the new document
   under the old Deployment until a retry succeeds.
6. `status.observedGeneration` may move back when a stale copy is written over a
   re-read one (`agent_controller.go:94`; `api/v1alpha1/agent_types.go:351`).
7. `specHash` does not cover artifact digests (`compiler.go:250`;
   `agent_types.go:324-325`).
8. `reconcile.go:322-324` says EnsureService never rewrites an externally managed
   selector; `repo/service.go:41` does on every reconcile.
9. One good signature among several is enough, but a failed download of another one
   ends the verification first (`cosign.go:261-262`, `:267`).
10. Two sidecars in one namespace overwrite each other's entries in the state
    ConfigMap (`store.go:26-27`, `:169`). `RunningIsTracked` is stated for one process;
    `OrphansArePaidFor` shows that only the process that restarted loses tasks.
11. The count of poll errors survives giving up, so that a retried node gives up at
    its first error (`plugin.go:355-356`, `:368`).
12. `TaskCompleted` (`trigger_limiter.go:81`) has no caller: the count of active
    tasks only grows (`agenttrigger_types.go:239-241` promises tasks in flight).
13. A trigger whose push Secret cannot be resolved keeps the conditions of the last
    success with the new generation (`app/trigger/reconcile.go:129`); a missing key
    is treated as permanent although Secrets come late (`:240`). A failed write of the
    ConfigMap (`:186`) has the same effect: `handleReconcileError`
    (`agenttrigger_controller.go:128`) stamps the generation and keeps the conditions.
    That is why `TriggerReconcile` has no promise like `WorkflowRollout`: what its
    status says of a generation need not be about it until the controller rests. A
    ConfigMap of the trigger's name that somebody else made is overwritten and gets no
    owner: it survives the trigger (`NothingLeftBehind` is about the controller's own).
14. The workflow controller skips by hash: a foreign change of the template, or an
    edit undone after a reconcile applied the newer spec under the older one's hash
    (its first status write met a conflict and re-read the object), is not repaired
    (`agentworkflow_controller.go:153`, `:160`; `agentworkflow_types.go:663`, `:670`).
15. Compiler of workflows: the target of a switch also runs unconditionally as its
    own DAG task, and a default branch has no condition
    (`agentworkflow_types.go:629`, `:633`); a `then` without a condition is dropped
    silently (`:621`); a task whose name is that of a generated branch, or of the
    entrypoint, is admitted (`Shadowed`), and if the switch waits for that task the
    compiled DAG waits for itself although the webhook found no cycle. A task called
    `main` has the name of the entrypoint's template (`agentworkflow_compiler.go:212-219`),
    and a declared parameter may have the name generated for a header (`_cm_...`).
    References to the output of a switch, or of a container
    under artifact I/O, do not resolve (`NoParameters`).
16. Replicas may settle on different delivery modes, and the ConfigMap names one of
    them (`cmd/main.go:290`). A probe pod whose Create was answered with a lost
    connection is not deleted (`probe.go:57`: "deleted on every path").
17. `docs/capability.md:105-106` has native entries checked for collisions; the entries
    compiled from tools (`MCP`, `PrefixTools`) and those of the fragment's
    `extra.capabilities` are not: those come first in the document
    (`merge.go:42-48`), though `agent_types.go:204` has keys of `extra` lose to typed
    fields. An unsupported `runnerVersion` is denied only with
    attachments, an `extra` that is no object and a document the AgentSpec schema
    refuses only by the compiler. The webhook treats every error of a Get as "not found". Environment
    names of two Secrets can be made equal by `SecretEnvName`.
18. AgentTool's `ValidateSpec` accepts a `serviceRef` without a port (80 is taken) and
    URL schemes its webhook refuses; static headers that differ only in case are
    nobody's concern.
19. A Model that names a provider of another namespace rests on a stale status
    (`model_controller.go:187`). An Instruction's controller overwrites and deletes a
    ConfigMap of its name that it does not own. A ModelProvider deleted and recreated
    within a reconcile gets the old one's verdict, under the old one's generation, for a
    moment; AgentTool and Model
    stamp a re-read generation on the verdict of the old one. The compiler takes the
    first provider block set, and a Model's readiness that may be older.
20. The playground writes RUN_FINISHED for a task that is answered as failed at once
    (`playground.go:299` handles polled failures only); `PolledFinishIsSuccess` is
    about polled runs.
21. Of two lists that fail, the first one's reconnect timer is lost and cannot be
    stopped (`useListWatch.ts`).
22. `ObjectMetaFromProto` drops the `ownerReferences` that `ObjectMetaToProto` carries
    (`converter/common.go:35-68`), so every Update erases them. The ModelProvider
    converter loses `apiKeySecretRef`, `serviceAccountKey` and TLS settings; explicit
    `false` and 0 of `parallelToolCalls`, `seed` and `tokenBudgetPerEvent` become unset
    (`converter/modelprovider.go:124`, `converter/model.go`,
    `converter/agenttrigger.go`). `KnownLoss` lists them.
23. A placeholder under a `oneOf` in a `oneOf` may be refused although some string would
    pass (`capability.go:320-339`): the error tree does not tell that one more match
    would break the inner one.

## 7. Not modelled

The contents of compiled documents, manifests and messages beyond what they depend
on; cryptography and certificate identities; the AgentSpec schema itself, of which a
document's outcome is kept; text. The
scope rules by which Argo evaluates references inside a leaf template are external:
`Resolves` asks only whether the name exists. `TranslateExpressionsWithMode(true)`
has no caller. Generated protobuf, gateway and deepcopy code (about half of the Go
lines), the OIDC library, CORS and static files, telemetry, flag parsing, the views of
the UI, the Python SDK and runner, charts: `PROJECT.json` gives the reason per
component. Secret rotation and the unwatched Service (disagreement 4), the active-task count of the limiter that
nothing decrements (12), the trigger's unresolvable push Secret (13) and the
workflow's foreign template (14), the unread parts of an Agent (17) and the fields a
round trip clears (22) are modelled as the code has them; no property can
ask for more than the code does there.

## 8. Plan

What a next step would be, in this order:

1. Liveness of `AgentRollout` and `WorkflowRollout` (what runs becomes the spec), checked
   by TLC as a property of the detailed modules.
2. Composition of `CapabilityVerify` and `CatalogControllers` with `AgentReconcile`:
   the content of a reference becomes the status those controllers write.
