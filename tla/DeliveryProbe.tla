--------------------------- MODULE DeliveryProbe ---------------------------
(* The start of the operator process (cmd/main.go) and what it decides before *)
(* the manager runs: how capability artifacts reach the runner pods. In mode   *)
(* "auto" every replica probes for itself, before leader election, with a pod  *)
(* whose name is fixed (internal/infra/delivery). So replicas of one rollout   *)
(* delete each other's pod and read each other's verdict. The pod is the one   *)
(* object they share besides the state ConfigMap Publish writes.               *)
EXTENDS Naturals, FiniteSets

CONSTANTS
    Replicas,     \* operator processes of the Deployment
    Deployments,  \* the cases explored: the operator's flags, the cluster's
                  \* behaviour before and after its upgrade, and the bounds on
                  \* process starts and on API calls that fail
    WriteTries    \* stateConfigMapRetry.Steps

\* What the cluster does with a pod that mounts an image volume.
Behaviours == {"works", "fails", "stuck", "strips", "rejects"}

Modes == {"initContainer", "imageVolume", "auto", "typo"}

ASSUME ProbeAssumption ==
    /\ \A d \in Deployments :
          d \in [mode : Modes, requireVerified : BOOLEAN, cosign : BOOLEAN,
                cluster : [1..2 -> Behaviours], starts : Nat, faults : Nat]
    /\ WriteTries \in Nat \ {0}
    /\ Replicas # {}

VARIABLES
    flags,    \* the case: the Deployment's flags and the cluster it runs on
    version,  \* 1 before the upgrade, 2 after it
    pod,      \* the probe pod: {} or one record
    record,   \* the state ConfigMap: [rv, mode]; rv = 0 while there is none
    proc,     \* per replica, where its start is and what it found
    starts,   \* processes started so far
    apiFaults \* failed calls so far

probeVars == <<flags, version, pod, record, proc, starts, apiFaults>>

Off == [pc |-> "off", born |-> 1, expired |-> FALSE, effective |-> "none",
        earned |-> 0, seen |-> 0, tries |-> 0, wrote |-> "no"]

Pods == [maker : Replicas, version : 1..2, phase : {"Pending", "Succeeded", "Failed"},
         terminating : BOOLEAN, leaked : BOOLEAN]

ProbeInit ==
    /\ flags \in Deployments
    /\ version = 1
    /\ pod = {}
    /\ record = [rv |-> 0, mode |-> "none"]
    /\ proc = [r \in Replicas |-> Off]
    /\ starts = 0
    /\ apiFaults = 0

----------------------------------------------------------------------------
(* The process.                                                             *)

Set(r, p) == proc' = [proc EXCEPT ![r] = p]

Exit(r) == Set(r, [Off EXCEPT !.pc = "exited"])

\* A call of the API server fails: a fault of the environment.
CallFails == apiFaults < flags.faults /\ apiFaults' = apiFaults + 1

NoFault == UNCHANGED apiFaults

\* The kubelet starts the container, for the first time or again.
StartProcess(r) ==
    /\ proc[r].pc \in {"off", "exited"}
    /\ starts < flags.starts
    /\ starts' = starts + 1
    /\ Set(r, [Off EXCEPT !.pc = "boot", !.born = version])
    /\ UNCHANGED <<flags, version, pod, record, apiFaults>>

\* The process is killed wherever it is. What it left in the cluster stays: a
\* pod nobody will clean up any more is marked as leaked.
Abandon(r) == {[p EXCEPT !.leaked = @ \/ p.maker = r] : p \in pod}

Crash(r) ==
    /\ proc[r].pc \notin {"off", "exited"}
    /\ starts < flags.starts
    /\ Set(r, Off)
    /\ pod' = Abandon(r)
    /\ UNCHANGED <<flags, version, record, starts, apiFaults>>

\* main up to the resolution: the policy that needs verification is refused
\* without it, then tracing, certificates and the direct client are set up.
Boot(r) ==
    /\ proc[r].pc = "boot"
    /\ \/ flags.requireVerified /\ ~flags.cosign /\ Exit(r) /\ NoFault
       \/ CallFails /\ Exit(r)
       \/ /\ flags.requireVerified => flags.cosign
          /\ Set(r, [proc[r] EXCEPT !.pc = "resolve"])
          /\ NoFault
    /\ UNCHANGED <<flags, version, pod, record, starts>>

\* Resolve: an explicit mode is trusted, auto probes, anything else is fatal.
Resolve(r) ==
    /\ proc[r].pc = "resolve"
    /\ CASE flags.mode \in {"initContainer", "imageVolume"} ->
              Set(r, [proc[r] EXCEPT !.pc = "publish", !.effective = flags.mode])
         [] flags.mode = "auto" -> Set(r, [proc[r] EXCEPT !.pc = "delete"])
         [] OTHER -> Exit(r)
    /\ UNCHANGED <<flags, version, pod, record, starts, apiFaults>>

----------------------------------------------------------------------------
(* The probe. Every way out of it is a classification, never an error.      *)

\* The probe's context runs out (--capability-delivery-probe-timeout).
Expire(r) ==
    /\ proc[r].pc \in {"delete", "gone", "create", "poll"}
    /\ ~proc[r].expired
    /\ Set(r, [proc[r] EXCEPT !.expired = TRUE])
    /\ UNCHANGED <<flags, version, pod, record, starts, apiFaults>>

\* Mutant: the mode is taken over as configured.
UnsupportedKeepsMode(r, next) == [proc[r] EXCEPT !.pc = next, !.effective = flags.mode]

Unsupported(r, next) == [proc[r] EXCEPT !.pc = next, !.effective = "initContainer"]

Supported(r, p) ==
    [proc[r] EXCEPT !.pc = "cleanup", !.effective = "imageVolume", !.earned = p.version]

\* A call on the probe's context errors when the context is over, or by a fault.
CallErrors(r) == (proc[r].expired /\ NoFault) \/ CallFails

Terminate(pods) == {[p EXCEPT !.terminating = TRUE] : p \in pods}

\* Mutant: an existing pod is taken over instead of replaced.
DeleteOldKeeps(r) ==
    /\ proc[r].pc = "delete"
    /\ Set(r, [proc[r] EXCEPT !.pc = IF pod = {} THEN "create" ELSE "poll"])
    /\ UNCHANGED <<flags, version, pod, record, starts, apiFaults>>

\* deleteAndWaitGone, the Delete: by name, whoever made the pod.
DeleteOld(r) ==
    /\ proc[r].pc = "delete"
    /\ \/ /\ CallErrors(r)
          /\ Set(r, Unsupported(r, "publish"))
          /\ UNCHANGED pod
       \/ /\ ~proc[r].expired
          /\ Set(r, [proc[r] EXCEPT !.pc = IF pod = {} THEN "create" ELSE "gone"])
          /\ pod' = Terminate(pod)
          /\ NoFault
    /\ UNCHANGED <<flags, version, record, starts>>

\* Mutant: the wait for the old pod ignores its context.
AwaitGoneForever(r) ==
    /\ proc[r].pc = "gone" /\ pod = {}
    /\ Set(r, [proc[r] EXCEPT !.pc = "create"])
    /\ UNCHANGED <<flags, version, pod, record, starts, apiFaults>>

\* deleteAndWaitGone, the loop: it only leaves once the name is free.
AwaitGone(r) ==
    /\ proc[r].pc = "gone"
    /\ \/ /\ CallErrors(r)
          /\ Set(r, Unsupported(r, "publish"))
       \/ /\ ~proc[r].expired /\ pod = {}
          /\ Set(r, [proc[r] EXCEPT !.pc = "create"])
          /\ NoFault
    /\ UNCHANGED <<flags, version, pod, record, starts>>

NewPod(r, lost) == [maker |-> r, version |-> version, phase |-> "Pending",
                    terminating |-> FALSE, leaked |-> lost]

\* Mutant: the cleanup is deferred only after the check for a stripped field.
AfterCreateLateDefer(r) ==
    IF flags.cluster[version] = "strips" THEN Unsupported(r, "publish")
    ELSE [proc[r] EXCEPT !.pc = "poll"]

\* The pod was created and its cleanup deferred: a stripped image field is seen on
\* the returned object, anything else is polled for.
AfterCreate(r) ==
    IF flags.cluster[version] = "strips" THEN Unsupported(r, "cleanup")
    ELSE [proc[r] EXCEPT !.pc = "poll"]

\* The answer to Create: refused (name taken, volume rejected), accepted, or
\* accepted with the image field stripped. An answer that is lost looks like a
\* refusal: the deferred cleanup is not registered and the pod stays.
CreateProbe(r) ==
    /\ proc[r].pc = "create"
    /\ \/ /\ CallErrors(r)
          /\ Set(r, Unsupported(r, "publish"))
          /\ UNCHANGED pod
       \/ /\ ~proc[r].expired /\ (pod # {} \/ flags.cluster[version] = "rejects")
          /\ Set(r, Unsupported(r, "publish"))
          /\ UNCHANGED pod
          /\ NoFault
       \/ /\ ~proc[r].expired /\ pod = {} /\ flags.cluster[version] # "rejects"
          /\ \/ /\ CallFails
                /\ pod' = {NewPod(r, TRUE)}
                /\ Set(r, Unsupported(r, "publish"))
             \/ /\ NoFault
                /\ pod' = {NewPod(r, FALSE)}
                /\ Set(r, AfterCreate(r))
    /\ UNCHANGED <<flags, version, record, starts>>

\* waitForCompletion: one Get by name. A pending pod is polled again.
PollProbe(r) ==
    /\ proc[r].pc = "poll"
    /\ \/ /\ CallErrors(r)
          /\ Set(r, Unsupported(r, "cleanup"))
       \/ /\ ~proc[r].expired /\ pod = {}
          /\ Set(r, Unsupported(r, "cleanup"))
          /\ NoFault
       \/ /\ ~proc[r].expired
          /\ \E p \in pod :
                \/ p.phase = "Succeeded" /\ Set(r, Supported(r, p))
                \/ p.phase = "Failed" /\ Set(r, Unsupported(r, "cleanup"))
          /\ NoFault
    /\ UNCHANGED <<flags, version, pod, record, starts>>

\* The deferred cleanup, on a context of its own: by name again. Its failure is
\* only logged.
Cleanup(r) ==
    /\ proc[r].pc = "cleanup"
    /\ Set(r, [proc[r] EXCEPT !.pc = "publish"])
    /\ \/ CallFails /\ pod' = Abandon(r)
       \/ NoFault /\ pod' = Terminate(pod)
    /\ UNCHANGED <<flags, version, record, starts>>

----------------------------------------------------------------------------
(* Publish and the rest of main.                                            *)

\* Mutant: an existing ConfigMap is left as it is.
PublishGetOnce(r) ==
    /\ proc[r].pc = "publish"
    /\ Set(r, IF record.rv = 0 THEN [proc[r] EXCEPT !.pc = "write"]
              ELSE [proc[r] EXCEPT !.pc = "setup", !.wrote = "yes"])
    /\ UNCHANGED <<flags, version, pod, record, starts, apiFaults>>

\* writeStateConfigMap, the Get of one attempt. An error that is not a conflict
\* ends the write; Publish logs it and goes on.
PublishGet(r) ==
    /\ proc[r].pc = "publish"
    /\ \/ /\ CallFails
          /\ Set(r, [proc[r] EXCEPT !.pc = "setup", !.wrote = "failed"])
       \/ /\ NoFault
          /\ Set(r, [proc[r] EXCEPT !.pc = "write", !.seen = record.rv, !.tries = @ + 1])
    /\ UNCHANGED <<flags, version, pod, record, starts>>

\* The Create or Update of the attempt. A conflict is retried WriteTries times
\* in all; Create meeting another replica's ConfigMap is no conflict.
PublishWrite(r) ==
    LET p == proc[r] IN
    /\ p.pc = "write"
    /\ \/ /\ p.seen = record.rv
          /\ record' = [rv |-> record.rv + 1, mode |-> p.effective]
          /\ Set(r, [p EXCEPT !.pc = "setup", !.wrote = "yes"])
          /\ NoFault
       \/ /\ p.seen # record.rv
          /\ UNCHANGED record
          /\ Set(r, IF p.seen = 0 THEN [p EXCEPT !.pc = "setup", !.wrote = "lost"]
                    ELSE IF p.tries < WriteTries THEN [p EXCEPT !.pc = "publish"]
                    ELSE [p EXCEPT !.pc = "setup", !.wrote = "lost"])
          /\ NoFault
       \/ /\ CallFails
          /\ UNCHANGED record
          /\ Set(r, [p EXCEPT !.pc = "setup", !.wrote = "failed"])
    /\ UNCHANGED <<flags, version, pod, starts>>

\* The manager, the verifier, the controllers and the webhooks are set up; any
\* error among them ends the process. Then the manager runs.
Setup(r) ==
    /\ proc[r].pc = "setup"
    /\ \/ CallFails /\ Exit(r)
       \/ NoFault /\ Set(r, [proc[r] EXCEPT !.pc = "running"])
    /\ UNCHANGED <<flags, version, pod, record, starts>>

----------------------------------------------------------------------------
(* The cluster.                                                             *)

\* The kubelet runs the pod, in its grace period too. A stuck pod stays Pending.
PodRuns ==
    \E p \in pod :
       /\ p.phase = "Pending"
       /\ flags.cluster[p.version] \in {"works", "fails"}
       /\ pod' = {[p EXCEPT !.phase =
                     IF flags.cluster[p.version] = "works" THEN "Succeeded" ELSE "Failed"]}
       /\ UNCHANGED <<flags, version, record, proc, starts, apiFaults>>

PodGone ==
    /\ \E p \in pod : p.terminating
    /\ pod' = {}
    /\ UNCHANGED <<flags, version, record, proc, starts, apiFaults>>

\* The cluster is upgraded (or its feature gates are changed).
ClusterUpgrade ==
    /\ version = 1
    /\ \E r \in Replicas : proc[r].pc # "off"
    /\ version' = 2
    /\ UNCHANGED <<flags, pod, record, proc, starts, apiFaults>>

ProcessStep(r) ==
    \/ Boot(r) \/ Resolve(r) \/ DeleteOld(r) \/ AwaitGone(r) \/ CreateProbe(r)
    \/ PollProbe(r) \/ Cleanup(r) \/ PublishGet(r) \/ PublishWrite(r) \/ Setup(r)

ProbeNext ==
    \/ \E r \in Replicas : StartProcess(r) \/ Crash(r) \/ Expire(r) \/ ProcessStep(r)
    \/ PodRuns \/ PodGone \/ ClusterUpgrade

\* A running process is scheduled and its context's timer fires. Nothing is
\* assumed of the kubelet.
ProbeFairness == \A r \in Replicas : WF_probeVars(ProcessStep(r)) /\ WF_probeVars(Expire(r))

ProbeSpec == ProbeInit /\ [][ProbeNext]_probeVars /\ ProbeFairness

----------------------------------------------------------------------------
(* What makes it correct.                                                   *)

Resting == {"off", "exited", "running"}

\* Types; and no process gets past the resolution with "auto": EffectiveMode is
\* always initContainer or imageVolume (Result.EffectiveMode).
ProbeTypeOK ==
    /\ version \in 1..2
    /\ Cardinality(pod) <= 1 /\ pod \subseteq Pods
    /\ \A r \in Replicas :
          proc[r].pc \in {"cleanup", "publish", "write", "setup", "running"}
             => proc[r].effective \in {"initContainer", "imageVolume"}

\* A replica in auto mode that settled on image volumes saw them work on the
\* cluster as it has been since this process started, whichever replica's pod it
\* read: a pod left by a crashed process before an upgrade is no evidence.
VerdictIsFresh ==
    \A r \in Replicas :
       flags.mode = "auto" /\ proc[r].effective = "imageVolume"
          => proc[r].earned >= proc[r].born /\ flags.cluster[proc[r].earned] = "works"

\* The probe pod is deleted on every path: one that is neither terminating nor in
\* the hands of the replica that made it was lost by a crash, a lost answer or a
\* failed delete, never by the races of two replicas over its name.
ProbePodIsCollected ==
    \A p \in pod : p.terminating \/ p.leaked \/ proc[p.maker].pc \in {"poll", "cleanup"}

\* The state ConfigMap tells the truth: once all replicas run and none of them had
\* an API error while publishing, the mode it shows is one a replica works with.
RecordIsAModeInUse ==
    (\A r \in Replicas : proc[r].pc = "running" /\ proc[r].wrote # "failed")
       => \E r \in Replicas : proc[r].effective = record.mode

\* Replicas that race over one pod name decide on the cluster as it is, leave no
\* pod behind and publish a mode in use.
ProbeInv == ProbeTypeOK /\ VerdictIsFresh /\ ProbePodIsCollected /\ RecordIsAModeInUse

\* Every started process ends up running the manager or exits, however the
\* replicas race for the name and however stuck the pod is.
StartEnds == <>[](\A r \in Replicas : proc[r].pc \in Resting)

=============================================================================
