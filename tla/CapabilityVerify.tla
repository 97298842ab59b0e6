-------------------------- MODULE CapabilityVerify --------------------------
(***************************************************************************)
(* The Capability controller: one Capability, by name; its informer copy;  *)
(* the verdict cache of the operator process; the reconcile that verifies  *)
(* the artifact's signature and writes the Verified condition; and the     *)
(* Agent compiler that trusts that condition under requireVerified.        *)
(*                                                                         *)
(* As in AgentReconcile, cFresh and wFresh say that the informer's and the *)
(* worker's copies carry the server's resourceVersion.  Time is reduced to *)
(* what the code asks of it: whether a cached verdict is younger than the  *)
(* re-check interval, and whether a requeue timer is pending.              *)
(***************************************************************************)
EXTENDS Integers

CONSTANTS
  Digests,      \* artifact digests
  NULL,
  BackoffInitial, BackoffMax,  \* verifyBackoffInitial, verifyBackoffMax, in seconds
  MaxUid,       \* bound on how often the Capability is recreated
  MaxGen,       \* bound on metadata.generation
  StatusTries,  \* status writes after a conflict
  Budgets       \* scenarios: how often each kind of disturbance may happen

Disturbances == {"edit", "delete", "recreate", "blip", "restart"}

ASSUME BackoffAssumption ==
  BackoffInitial \in Nat \ {0} /\ BackoffMax \in Nat /\ BackoffInitial <= BackoffMax

ASSUME CapabilityBounds ==
  /\ MaxUid \in Nat \ {0} /\ MaxGen \in Nat \ {0} /\ StatusTries \in Nat
  /\ Budgets \subseteq [Disturbances -> Nat]
  /\ NULL \notin Digests

VARIABLES
  cap,              \* the Capability on the API server
  cCap, cFresh,     \* the informer's copy
  dirty, delayed,   \* the work queue
  pc, w, wFresh,    \* the worker: its step and its copy
  out,              \* the verification outcome the worker carries
  rec,              \* verifyState[key] of this process, NULL when absent
  enabled,          \* this process was given a Verifier
  sig,              \* the registry: what is published for each digest
  verdicts,         \* history: the definitive answers the verifier ever gave
  deployed,         \* the artifact the attaching Agent runs
  env               \* disturbances still to come

server == <<cap, sig>>
worker == <<pc, w, wFresh, out>>
vars == <<server, cCap, cFresh, dirty, delayed, worker, rec, enabled, verdicts,
          deployed, env>>

-----------------------------------------------------------------------------
Answers == {"ok", "missing", "invalid", "transient"}

\* The Verified condition: its status, its reason, and the artifact its message
\* names (only a True one names it).
Condition(ver, why, digest) == [ver |-> ver, why |-> why, digest |-> digest]

Disabled == Condition("Unknown", "disabled", NULL)

\* Mutant of ClassifyVerification: whatever is not a success is a failure.
ClassifyNoUnknown(digest, answer) ==
  IF answer = "ok" THEN Condition("True", "ok", digest)
                   ELSE Condition("False", "missing", NULL)

ClassifyVerification(digest, answer) ==
  CASE answer = "ok"                     -> Condition("True", "ok", digest)
    [] answer \in {"missing", "invalid"} -> Condition("False", answer, NULL)
    [] OTHER                             -> Condition("Unknown", "transient", NULL)

Conditions == {Disabled} \cup {ClassifyVerification(d, a) : d \in Digests, a \in Answers}

\* "No condition yet" is none of them.
ASSUME NullAssumption == NULL \notin Conditions

NoStatus == [obs |-> 0, cond |-> NULL]

\* The status written over copy c: the outcome, stamped with c's generation.
CapabilityStatus(c, o) == [obs |-> c.gen, cond |-> o]

CapType == [life : {"live", "deleting", "gone"}, uid : 1..MaxUid, gen : 1..MaxGen,
            digest : Digests, st : [obs : 0..MaxGen, cond : Conditions \cup {NULL}]]

Worker == [copy : CapType, tries : 0..StatusTries]

\* A verdict record; NULL condition: only the backoff progression is kept.
Record == [uid : 1..MaxUid, gen : 1..MaxGen, cond : Conditions \cup {NULL},
           young : BOOLEAN, backoff : 0..BackoffMax]

Init ==
  /\ \E d \in Digests :
       cap = [life |-> "live", uid |-> 1, gen |-> 1, digest |-> d, st |-> NoStatus]
  /\ cCap = cap /\ cFresh = TRUE
  /\ dirty = TRUE /\ delayed = FALSE
  /\ pc = "idle" /\ w = [copy |-> cap, tries |-> 0] /\ wFresh = TRUE /\ out = Disabled
  /\ rec = NULL
  /\ enabled \in BOOLEAN
  /\ sig \in [Digests -> {"ok", "missing", "invalid"}]
  /\ verdicts = {} /\ deployed = NULL
  /\ env \in Budgets

-----------------------------------------------------------------------------
(* CapabilityReconciler.Reconcile. *)

\* Mutant of CachedVerdict: a record is matched by its generation alone.
CachedVerdictByGeneration(c) ==
  /\ rec # NULL /\ rec.gen = c.gen
  /\ rec.cond # NULL /\ (rec.cond.ver = "True" \/ rec.young)

\* Mutant of CachedVerdict: a False verdict is settled like a True one.
CachedVerdictForever(c) ==
  rec # NULL /\ rec.uid = c.uid /\ rec.gen = c.gen /\ rec.cond # NULL

\* The record is for this object and generation, and needs no re-check.  A
\* record without a condition is older than any interval (verifiedAt is zero).
CachedVerdict(c) ==
  /\ rec # NULL /\ rec.uid = c.uid /\ rec.gen = c.gen
  /\ rec.cond # NULL /\ (rec.cond.ver = "True" \/ rec.young)

\* Gone or going: the verdict is forgotten.
Forget ==
  /\ pc = "idle" /\ dirty /\ cCap.life # "live"
  /\ dirty' = FALSE /\ rec' = NULL
  /\ UNCHANGED <<server, cCap, cFresh, delayed, worker, enabled, verdicts, deployed, env>>

\* The reconcile has its outcome o: it returns when the status says so already.
Conclude(c, o, again) ==
  /\ out' = o
  /\ IF c.st = CapabilityStatus(c, o)
       THEN pc' = "idle" /\ delayed' = (delayed \/ again)
       ELSE pc' = "status" /\ UNCHANGED delayed

\* Does outcome o come with a RequeueAfter?
Again(o) == o.ver = "False" \/ o.why = "transient"

\* No verifier, or a verdict that is still good.
ReconcileKnown ==
  /\ pc = "idle" /\ dirty /\ cCap.life = "live"
  /\ ~enabled \/ CachedVerdict(cCap)
  /\ dirty' = FALSE
  /\ w' = [copy |-> cCap, tries |-> StatusTries] /\ wFresh' = cFresh
  /\ LET o == IF enabled THEN rec.cond ELSE Disabled IN Conclude(cCap, o, Again(o))
  /\ UNCHANGED <<server, cCap, cFresh, rec, enabled, verdicts, deployed, env>>

\* The verifier is called; it answers in Verified.
ReconcileVerify ==
  /\ pc = "idle" /\ dirty /\ cCap.life = "live"
  /\ enabled /\ ~CachedVerdict(cCap)
  /\ dirty' = FALSE
  /\ w' = [copy |-> cCap, tries |-> StatusTries] /\ wFresh' = cFresh
  /\ pc' = "verify"
  /\ UNCHANGED <<server, cCap, cFresh, delayed, out, rec, enabled, verdicts, deployed, env>>

\* Mutant of RememberVerdict: the backoff doubles without a cap.
RememberUncapped(c, o) ==
  IF o.ver = "Unknown"
  THEN [uid |-> c.uid, gen |-> c.gen, cond |-> NULL, young |-> FALSE,
        backoff |-> IF rec # NULL /\ rec.backoff > 0 THEN 2 * rec.backoff ELSE BackoffInitial]
  ELSE [uid |-> c.uid, gen |-> c.gen, cond |-> o, young |-> TRUE, backoff |-> 0]

Least(a, b) == IF a <= b THEN a ELSE b

\* A definitive verdict is cached; a transient failure only doubles the backoff.
RememberVerdict(c, o) ==
  IF o.ver = "Unknown"
  THEN [uid |-> c.uid, gen |-> c.gen, cond |-> NULL, young |-> FALSE,
        backoff |-> IF rec # NULL /\ rec.backoff > 0
                      THEN Least(2 * rec.backoff, BackoffMax) ELSE BackoffInitial]
  ELSE [uid |-> c.uid, gen |-> c.gen, cond |-> o, young |-> TRUE, backoff |-> 0]

\* The verifier answers.
Verified(answer) ==
  /\ pc = "verify"
  /\ LET o == ClassifyVerification(w.copy.digest, answer)
     IN /\ rec' = RememberVerdict(w.copy, o)
        /\ Conclude(w.copy, o, Again(o))
  /\ verdicts' = IF answer = "transient" THEN verdicts
                                         ELSE verdicts \cup {<<w.copy.digest, answer>>}
  /\ UNCHANGED <<server, cCap, cFresh, dirty, w, wFresh, enabled, deployed>>

VerifierAnswers == Verified(sig[w.copy.digest]) /\ UNCHANGED env

\* updateStatusWithRetry.
StatusWrite ==
  /\ pc = "status" /\ wFresh
  /\ LET st == CapabilityStatus(w.copy, out)
     IN /\ cap' = [cap EXCEPT !.st = st]
        /\ cFresh' = (cFresh /\ cap.st = st) /\ wFresh' = (cap.st = st)
  /\ pc' = "idle" /\ delayed' = (delayed \/ Again(out))
  /\ UNCHANGED <<sig, cCap, dirty, w, out, rec, enabled, verdicts, deployed, env>>

\* Conflict: the outcome is applied to whatever copy the cache now holds.
StatusRetry ==
  /\ pc = "status" /\ ~wFresh /\ w.tries > 0 /\ cap.life # "gone" /\ cCap.life # "gone"
  /\ w' = [copy |-> cCap, tries |-> w.tries - 1] /\ wFresh' = cFresh
  /\ UNCHANGED <<server, cCap, cFresh, dirty, delayed, pc, out, rec, enabled, verdicts,
                 deployed, env>>

\* Not found, or too many conflicts: back off.
StatusGiveUp ==
  /\ pc = "status" /\ ~wFresh
  /\ cap.life = "gone" \/ cCap.life = "gone" \/ w.tries = 0
  /\ pc' = "idle" /\ delayed' = TRUE
  /\ UNCHANGED <<server, cCap, cFresh, dirty, w, wFresh, out, rec, enabled, verdicts,
                 deployed, env>>

-----------------------------------------------------------------------------
(* The informer, the queue, the clock and the Agent compiler. *)

Observe ==
  /\ ~cFresh
  /\ cCap' = cap /\ cFresh' = TRUE /\ dirty' = TRUE
  /\ UNCHANGED <<server, delayed, worker, rec, enabled, verdicts, deployed, env>>

RequeueFires ==
  /\ delayed
  /\ delayed' = FALSE /\ dirty' = TRUE
  /\ UNCHANGED <<server, cCap, cFresh, worker, rec, enabled, verdicts, deployed, env>>

\* verifyRecheckInterval has passed since the verdict.
RecheckDue ==
  /\ rec # NULL /\ rec.young
  /\ rec' = [rec EXCEPT !.young = FALSE]
  /\ UNCHANGED <<server, cCap, cFresh, dirty, delayed, worker, enabled, verdicts, deployed, env>>

\* resolveCapabilities under requireVerified: checkVerified looks at the status
\* of the condition, then the artifact of the same copy is mounted.
CompileAttach ==
  /\ cCap.life # "gone" /\ cCap.st.cond # NULL /\ cCap.st.cond.ver = "True"
  /\ deployed # cCap.digest
  /\ deployed' = cCap.digest
  /\ UNCHANGED <<server, cCap, cFresh, dirty, delayed, worker, rec, enabled, verdicts, env>>

-----------------------------------------------------------------------------
(* Users, registries and failures. *)

Spend(x) == env[x] > 0 /\ env' = [env EXCEPT ![x] = @ - 1]

EditDigest(d) ==
  /\ cap.life = "live" /\ d # cap.digest /\ cap.gen < MaxGen /\ Spend("edit")
  /\ cap' = [cap EXCEPT !.digest = d, !.gen = @ + 1]
  /\ cFresh' = FALSE /\ wFresh' = FALSE
  /\ UNCHANGED <<sig, cCap, dirty, delayed, pc, w, out, rec, enabled, verdicts, deployed>>

\* Deletion; "deleting" while a finalizer of somebody else's holds the object.
Delete ==
  /\ cap.life # "gone" /\ Spend("delete")
  /\ \E l \in {"deleting", "gone"} \ {cap.life} : cap' = [cap EXCEPT !.life = l]
  /\ cFresh' = FALSE /\ wFresh' = FALSE
  /\ UNCHANGED <<sig, cCap, dirty, delayed, pc, w, out, rec, enabled, verdicts, deployed>>

\* The same name again: a new UID, generation 1 and no status.
Recreate(d) ==
  /\ cap.life = "gone" /\ cap.uid < MaxUid /\ Spend("recreate")
  /\ cap' = [life |-> "live", uid |-> cap.uid + 1, gen |-> 1, digest |-> d, st |-> NoStatus]
  /\ cFresh' = FALSE /\ wFresh' = FALSE
  /\ UNCHANGED <<sig, cCap, dirty, delayed, pc, w, out, rec, enabled, verdicts, deployed>>

\* A signature is published after the artifact was.
Publish(d) ==
  /\ sig[d] # "ok"
  /\ sig' = [sig EXCEPT ![d] = "ok"]
  /\ UNCHANGED <<cap, cCap, cFresh, dirty, delayed, worker, rec, enabled, verdicts,
                 deployed, env>>

\* The registry or the trust infrastructure is unavailable.
RegistryBlip == Verified("transient") /\ Spend("blip")

\* A new process: no verdicts, perhaps another verifier configuration.
Restart ==
  /\ Spend("restart")
  /\ enabled' \in BOOLEAN /\ rec' = NULL
  /\ cCap' = cap /\ cFresh' = TRUE /\ dirty' = TRUE /\ delayed' = FALSE
  /\ pc' = "idle"
  /\ UNCHANGED <<server, w, wFresh, out, verdicts, deployed>>

-----------------------------------------------------------------------------
Reconcile ==
  \/ Forget \/ ReconcileKnown \/ ReconcileVerify \/ VerifierAnswers
  \/ StatusWrite \/ StatusRetry \/ StatusGiveUp

Next ==
  \/ Reconcile \/ Observe \/ RequeueFires \/ RecheckDue \/ CompileAttach
  \/ \E d \in Digests : EditDigest(d) \/ Recreate(d) \/ Publish(d)
  \/ Delete \/ RegistryBlip \/ Restart

\* The worker runs, the watch delivers, timers fire and time passes.
Fairness == /\ WF_vars(Reconcile) /\ WF_vars(Observe)
            /\ WF_vars(RequeueFires) /\ WF_vars(RecheckDue)

Spec == Init /\ [][Next]_vars

FairSpec == Spec /\ Fairness

-----------------------------------------------------------------------------
(* Properties. *)

\* The Capability, its copies and the verdict cache have the shapes of the code;
\* in particular the backoff of a cached outcome stays within its cap.
TypeOK ==
  /\ cap \in CapType /\ cCap \in CapType /\ w \in Worker
  /\ cFresh \in BOOLEAN /\ wFresh \in BOOLEAN /\ dirty \in BOOLEAN /\ delayed \in BOOLEAN
  /\ pc \in {"idle", "verify", "status"} /\ out \in Conditions
  /\ rec \in Record \cup {NULL}
  /\ enabled \in BOOLEAN
  /\ sig \in [Digests -> {"ok", "missing", "invalid"}]
  /\ verdicts \subseteq Digests \X {"ok", "missing", "invalid"}
  /\ deployed \in Digests \cup {NULL}
  /\ env \in [Disturbances -> Nat]

\* Nothing is queued, running or on its way; timers may be pending.
AtRest == pc = "idle" /\ ~dirty /\ cFresh

\* A controller with no timer pending reports True, and reports it for the
\* artifact the object names now: the verifier approved this very digest,
\* whatever edits, recreations, restarts and cached verdicts came in between.
\* Anything but True has a re-check coming.
VerdictIsForThisDigest ==
  AtRest /\ cap.life = "live" /\ ~delayed =>
    /\ cap.st.obs = cap.gen /\ cap.st.cond # NULL
    /\ cap.st.cond.ver = "True" => cap.st.cond.digest = cap.digest
    /\ enabled => <<cap.digest, "ok">> \in verdicts /\ cap.st.cond.ver = "True"

\* A condition of True or False is one the verifier gave: an outage never turns
\* into a verdict.
OutageIsNoVerdict ==
  LET cond == cap.st.cond IN
  cond # NULL /\ cond.ver # "Unknown" => \E d \in Digests : <<d, cond.why>> \in verdicts

\* What is recorded of a Capability: a delay within its cap, well-formed statuses,
\* and no verdict the verifier did not give.
VerdictInv == TypeOK /\ OutageIsNoVerdict

\* The condition of this generation says what the registry holds.
Settled ==
  cap.life = "live" /\ enabled =>
    /\ cap.st.cond # NULL /\ cap.st.obs = cap.gen
    /\ cap.st.cond.ver = "True" <=> sig[cap.digest] = "ok"

\* Once edits, outages and restarts end, the condition says what the registry
\* holds: a signature published after the artifact is found.
VerificationSettles == <>[]Settled

\* compiler.go: re-running the check at compile time "closes the hole where a
\* Capability digest is edited after Agent admission"; only a digest that the
\* verifier approved is ever deployed.
DeployedIsVerified == deployed # NULL => <<deployed, "ok">> \in verdicts

=============================================================================
