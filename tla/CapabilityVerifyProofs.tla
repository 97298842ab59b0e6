----------------------- MODULE CapabilityVerifyProofs -----------------------
(* TLAPS proofs about the Capability controller, for every value of its      *)
(* constants.                                                                *)
EXTENDS CapabilityVerify, TLAPS

-----------------------------------------------------------------------------
(* The inductive invariant. *)

\* The copies a reconcile or the compiler may hold.
Copies == {cap, cCap, w.copy}

\* Version x of the Capability (a copy or a verdict record) is not newer than c.
NotAfter(x, c) == x.uid < c.uid \/ (x.uid = c.uid /\ x.gen <= c.gen)

SameVersion(x, c) == x.uid = c.uid /\ x.gen = c.gen

\* A copy that carries the server's resourceVersion is the server's object; no
\* copy is ahead of it; UID and generation together name one digest.
Lineage ==
  /\ cFresh => cCap = cap
  /\ wFresh => w.copy = cap
  /\ \A c \in Copies : NotAfter(c, cap)
  /\ \A c, d \in Copies : SameVersion(c, d) => c.digest = d.digest

\* Outcome o is a verdict only if the verifier gave it.
Given(o) == o # NULL /\ o.ver # "Unknown" => \E d \in Digests : <<d, o.why>> \in verdicts

\* Every outcome the system remembers or carries was given by the verifier.
AllGiven ==
  /\ \A c \in Copies : Given(c.st.cond)
  /\ Given(out)
  /\ rec # NULL => Given(rec.cond)

\* A cached verdict is definitive; a cached True names the digest of the version
\* it is filed under, and the verifier approved that digest.
CacheIsSound ==
  rec # NULL =>
    /\ NotAfter(rec, cap)
    /\ rec.cond # NULL =>
         /\ rec.cond.ver # "Unknown"
         /\ rec.cond.ver = "True" =>
              /\ <<rec.cond.digest, "ok">> \in verdicts
              /\ \A c \in Copies : SameVersion(rec, c) => c.digest = rec.cond.digest

\* Outcome o is what a reconcile of copy c should report, given the verdicts vs and
\* whether a verifier is configured.
Proper(o, c, vs, on) ==
  /\ o \in Conditions
  /\ o.ver = "True" => o.digest = c.digest /\ <<o.digest, "ok">> \in vs
  /\ on => o.ver = "True" \/ Again(o)

Right(o, c) == Proper(o, c, verdicts, enabled)

\* While no event is queued the worker's copy is the informer's, the outcome it
\* is about to write is right for it, and an idle controller without a timer has
\* written the right outcome.
QuietIsRight ==
  ~dirty =>
    /\ pc # "idle" => w.copy = cCap
    /\ pc = "status" => Right(out, cCap)
    /\ pc = "idle" /\ ~delayed /\ cFresh /\ cCap.life = "live" =>
         /\ cCap.st.obs = cCap.gen
         /\ Right(cCap.st.cond, cCap)
         /\ ~Again(cCap.st.cond)

IndInv == TypeOK /\ Lineage /\ AllGiven /\ CacheIsSound /\ QuietIsRight

-----------------------------------------------------------------------------
(* What the operators yield. *)

\* An answer classifies to a condition: True only for the approved digest, a
\* verdict only for an answer that is one, and a re-check unless it is True.
LEMMA ClassifyFacts ==
  ASSUME NEW d \in Digests, NEW a \in Answers
  PROVE  LET o == ClassifyVerification(d, a) IN
         /\ o \in Conditions
         /\ o.ver = "True" => o.digest = d /\ a = "ok"
         /\ o.ver # "Unknown" => o.why = a /\ a # "transient"
         /\ o.ver = "True" \/ Again(o)
<1>1. ClassifyVerification(d, a) \in Conditions
  BY DEF Conditions
<1>2. CASE a = "ok"
  BY <1>1, <1>2 DEF ClassifyVerification, Condition, Again
<1>3. CASE a \in {"missing", "invalid"}
  BY <1>1, <1>3 DEF ClassifyVerification, Condition, Again
<1>4. CASE a = "transient"
  BY <1>1, <1>4 DEF ClassifyVerification, Condition, Again
<1> QED BY <1>2, <1>3, <1>4 DEF Answers

\* The outcome without a verifier is no verdict and asks for no re-check.
LEMMA DisabledFacts ==
  Disabled \in Conditions /\ Disabled.ver = "Unknown" /\ ~Again(Disabled)
BY DEF Disabled, Condition, Conditions, Again

\* A status written over a well-formed copy is well formed.
LEMMA StatusType ==
  ASSUME NEW c \in CapType, NEW o \in Conditions
  PROVE  CapabilityStatus(c, o) \in [obs : 0..MaxGen, cond : Conditions \cup {NULL}]
BY CapabilityBounds DEF CapabilityStatus, CapType

\* What is remembered of an outcome is a record, with its delay within the cap.
LEMMA RememberType ==
  ASSUME TypeOK, NEW c \in CapType, NEW o \in Conditions
  PROVE  RememberVerdict(c, o) \in Record
<1>1. CASE o.ver = "Unknown"
  <2> DEFINE b == IF rec # NULL /\ rec.backoff > 0
                    THEN Least(2 * rec.backoff, BackoffMax) ELSE BackoffInitial
  <2>1. b \in 0..BackoffMax
    <3>1. CASE rec # NULL /\ rec.backoff > 0
      <4>1. rec.backoff \in Nat /\ BackoffMax \in Nat
        BY <3>1, BackoffAssumption DEF TypeOK, Record
      <4>2. Least(2 * rec.backoff, BackoffMax) \in 0..BackoffMax
        BY <4>1 DEF Least
      <4> QED BY <3>1, <4>2
    <3>2. CASE ~(rec # NULL /\ rec.backoff > 0)
      <4>1. b = BackoffInitial
        BY <3>2
      <4> QED BY <4>1, BackoffAssumption
    <3> QED BY <3>1, <3>2
  <2>2. RememberVerdict(c, o) = [uid |-> c.uid, gen |-> c.gen, cond |-> NULL,
                                 young |-> FALSE, backoff |-> b]
    BY <1>1 DEF RememberVerdict
  <2> HIDE DEF b
  <2> QED BY <2>1, <2>2 DEF Record, CapType
<1>2. CASE o.ver # "Unknown"
  BY <1>2, BackoffAssumption DEF RememberVerdict, Record, CapType
<1> QED BY <1>1, <1>2

-----------------------------------------------------------------------------
(* Type correctness. *)

\* The initial states are well formed.
LEMMA InitType == Init => TypeOK
<1> SUFFICES ASSUME Init PROVE TypeOK
  OBVIOUS
<1>1. PICK d \in Digests :
        cap = [life |-> "live", uid |-> 1, gen |-> 1, digest |-> d, st |-> NoStatus]
  BY DEF Init
<1>2. cap \in CapType
  BY <1>1, CapabilityBounds DEF CapType, NoStatus
<1>3. cCap \in CapType /\ w \in Worker
  BY <1>2, CapabilityBounds DEF Init, Worker
<1> QED BY <1>2, <1>3, DisabledFacts, CapabilityBounds DEF Init, TypeOK

\* Concluding a reconcile of a copy with a condition keeps the worker well formed.
LEMMA ConcludeType ==
  ASSUME TypeOK, NEW c \in CapType, NEW o \in Conditions, NEW again \in BOOLEAN,
         Conclude(c, o, again)
  PROVE  pc' \in {"idle", "verify", "status"} /\ out' \in Conditions /\ delayed' \in BOOLEAN
BY DEF TypeOK, Conclude

\* Every step keeps the state well formed: one step per action.
LEMMA TypeStep ==
  ASSUME TypeOK, [Next]_vars
  PROVE  TypeOK'
<1> USE DEF TypeOK
<1>k. [copy |-> cCap, tries |-> StatusTries] \in Worker
  BY CapabilityBounds DEF Worker
<1>e. ASSUME NEW x \in Disturbances, Spend(x) PROVE env' \in [Disturbances -> Nat]
  BY <1>e DEF Spend
<1>1. CASE Forget
  BY <1>1 DEF Forget, server, worker
<1>2. CASE ReconcileKnown
  <2> DEFINE o == IF enabled THEN rec.cond ELSE Disabled
  <2>1. o \in Conditions
    BY <1>2, DisabledFacts DEF ReconcileKnown, CachedVerdict, Record
  <2>2. Conclude(cCap, o, Again(o)) /\ Again(o) \in BOOLEAN
    BY <1>2 DEF ReconcileKnown, Again
  <2> HIDE DEF o
  <2>3. pc' \in {"idle", "verify", "status"} /\ out' \in Conditions /\ delayed' \in BOOLEAN
    BY <2>1, <2>2, ConcludeType
  <2> QED BY <1>2, <1>k, <2>3 DEF ReconcileKnown, server
<1>3. CASE ReconcileVerify
  BY <1>3, <1>k DEF ReconcileVerify, server
<1>4. ASSUME NEW a \in Answers, Verified(a), env' \in [Disturbances -> Nat] PROVE TypeOK'
  <2> DEFINE o == ClassifyVerification(w.copy.digest, a)
  <2>0. w.copy \in CapType /\ w.copy.digest \in Digests
    BY DEF Worker, CapType
  <2>1. o \in Conditions
    BY <2>0, ClassifyFacts
  <2>2. /\ rec' = RememberVerdict(w.copy, o) /\ Conclude(w.copy, o, Again(o))
        /\ Again(o) \in BOOLEAN
    BY <1>4 DEF Verified, Again
  <2> HIDE DEF o
  <2>3. pc' \in {"idle", "verify", "status"} /\ out' \in Conditions /\ delayed' \in BOOLEAN
    BY <2>0, <2>1, <2>2, ConcludeType
  <2>4. rec' \in Record
    BY <2>0, <2>1, <2>2, RememberType
  <2>5. verdicts' \subseteq Digests \X {"ok", "missing", "invalid"}
    BY <1>4, <2>0 DEF Verified, Answers
  <2> QED BY <1>4, <2>3, <2>4, <2>5 DEF Verified, server
<1>5. CASE VerifierAnswers
  <2>1. sig[w.copy.digest] \in Answers
    BY DEF Worker, CapType, Answers
  <2> QED BY <1>5, <2>1, <1>4 DEF VerifierAnswers
<1>6. CASE RegistryBlip
  BY <1>6, <1>4, <1>e DEF RegistryBlip, Answers, Disturbances
<1>7. CASE StatusWrite
  <2>1. CapabilityStatus(w.copy, out) \in [obs : 0..MaxGen, cond : Conditions \cup {NULL}]
    BY StatusType DEF Worker
  <2>2. cap' \in CapType
    BY <1>7, <2>1 DEF StatusWrite, CapType
  <2> QED BY <1>7, <2>2 DEF StatusWrite
<1>8. CASE StatusRetry
  <2>1. w' \in Worker
    BY <1>8, CapabilityBounds DEF StatusRetry, Worker
  <2> QED BY <1>8, <2>1 DEF StatusRetry, server
<1>9. CASE StatusGiveUp
  BY <1>9 DEF StatusGiveUp, server
<1>10. CASE Observe
  BY <1>10 DEF Observe, server, worker
<1>11. CASE RequeueFires
  BY <1>11 DEF RequeueFires, server, worker
<1>12. CASE RecheckDue
  BY <1>12 DEF RecheckDue, server, worker, Record
<1>13. CASE CompileAttach
  BY <1>13 DEF CompileAttach, server, worker, CapType
<1>14. ASSUME NEW d \in Digests, EditDigest(d) PROVE TypeOK'
  <2>1. cap.gen + 1 \in 1..MaxGen
    BY <1>14, CapabilityBounds DEF EditDigest, CapType
  <2>2. cap' \in CapType
    BY <1>14, <2>1 DEF EditDigest, CapType
  <2> QED BY <1>14, <2>2, <1>e DEF EditDigest, Disturbances
<1>15. CASE Delete
  <2>1. cap' \in CapType
    BY <1>15 DEF Delete, CapType
  <2> QED BY <1>15, <2>1, <1>e DEF Delete, Disturbances
<1>16. ASSUME NEW d \in Digests, Recreate(d) PROVE TypeOK'
  <2>1. cap.uid + 1 \in 1..MaxUid
    BY <1>16, CapabilityBounds DEF Recreate, CapType
  <2>2. cap' \in CapType
    BY <1>16, <2>1, CapabilityBounds DEF Recreate, CapType, NoStatus
  <2> QED BY <1>16, <2>2, <1>e DEF Recreate, Disturbances
<1>17. ASSUME NEW d \in Digests, Publish(d) PROVE TypeOK'
  BY <1>17 DEF Publish, worker
<1>18. CASE Restart
  BY <1>18, <1>e DEF Restart, server, Disturbances
<1>19. CASE UNCHANGED vars
  BY <1>19 DEF vars, server, worker
<1> QED
  BY <1>1, <1>2, <1>3, <1>5, <1>6, <1>7, <1>8, <1>9, <1>10, <1>11, <1>12, <1>13,
     <1>14, <1>15, <1>16, <1>17, <1>18, <1>19 DEF Next, Reconcile

-----------------------------------------------------------------------------
(* What a step may do to the copies. *)

\* No copy changes.
CopiesStay == UNCHANGED <<cap, cCap, cFresh, w, wFresh>>

\* The worker takes the informer's copy.
WorkerTakes == w'.copy = cCap /\ wFresh' = cFresh /\ UNCHANGED <<cap, cCap, cFresh>>

\* The informer takes the server's object.
InformerTakes == cCap' = cap /\ cFresh' = TRUE /\ UNCHANGED <<cap, w, wFresh>>

\* A user writes the object: it stays the same version, or becomes a later one.
UserWrites ==
  /\ \/ cap'.uid = cap.uid /\ cap'.gen = cap.gen /\ cap'.digest = cap.digest /\ cap'.st = cap.st
     \/ cap'.uid = cap.uid /\ cap'.gen = cap.gen + 1 /\ cap'.st = cap.st
     \/ cap'.uid = cap.uid + 1 /\ cap'.st.cond = NULL
  /\ cFresh' = FALSE /\ wFresh' = FALSE /\ UNCHANGED <<cCap, w>>

\* The actions that touch no copy.
Aside ==
  \/ Forget \/ VerifierAnswers \/ RegistryBlip \/ StatusGiveUp
  \/ RequeueFires \/ RecheckDue \/ CompileAttach \/ \E d \in Digests : Publish(d)

\* Every step is of one of these kinds, or writes the status.
LEMMA CopySteps ==
  ASSUME TypeOK, [Next]_vars
  PROVE  CopiesStay \/ WorkerTakes \/ InformerTakes \/ UserWrites \/ StatusWrite
<1>1. CASE Aside \/ UNCHANGED vars
  BY <1>1 DEF Aside, CopiesStay, Forget, VerifierAnswers, RegistryBlip, Verified, StatusGiveUp,
     RequeueFires, RecheckDue, CompileAttach, Publish, vars, server, worker
<1>2. CASE ReconcileKnown \/ ReconcileVerify \/ StatusRetry
  BY <1>2 DEF WorkerTakes, ReconcileKnown, ReconcileVerify, StatusRetry, server
<1>3. CASE Observe \/ Restart
  BY <1>3 DEF InformerTakes, Observe, Restart, server, worker
<1>4. ASSUME NEW d \in Digests, EditDigest(d) PROVE UserWrites
  BY <1>4 DEF UserWrites, EditDigest, TypeOK, CapType
<1>5. CASE Delete
  BY <1>5 DEF UserWrites, Delete, TypeOK, CapType
<1>6. ASSUME NEW d \in Digests, Recreate(d) PROVE UserWrites
  BY <1>6 DEF UserWrites, Recreate, NoStatus, TypeOK, CapType
<1> QED BY <1>1, <1>2, <1>3, <1>4, <1>5, <1>6 DEF Next, Reconcile, Aside

\* Versions are numbers.
LEMMA VersionTypes ==
  ASSUME TypeOK
  PROVE  /\ \A c \in Copies : c \in CapType /\ c.uid \in Int /\ c.gen \in Int
         /\ rec # NULL => rec \in Record /\ rec.uid \in Int /\ rec.gen \in Int
<1>1. \A c \in CapType : c.uid \in Int /\ c.gen \in Int
  BY CapabilityBounds DEF CapType
<1>2. \A r \in Record : r.uid \in Int /\ r.gen \in Int
  BY CapabilityBounds DEF Record
<1> QED BY <1>1, <1>2 DEF Copies, TypeOK, Worker

\* A status write changes nothing of the object but its status, and the worker's
\* copy is the object.
LEMMA StatusWriteFacts ==
  ASSUME TypeOK, Lineage, StatusWrite
  PROVE  /\ w.copy = cap
         /\ cap'.uid = cap.uid /\ cap'.gen = cap.gen /\ cap'.digest = cap.digest
         /\ cap'.life = cap.life
         /\ cap'.st = CapabilityStatus(cap, out)
         /\ cFresh' = (cFresh /\ cap' = cap) /\ wFresh' = (cap' = cap)
         /\ UNCHANGED <<cCap, w>>
<1>1. w.copy = cap
  BY DEF Lineage, StatusWrite
<1>2. cap' = [cap EXCEPT !.st = CapabilityStatus(cap, out)]
  BY <1>1 DEF StatusWrite
<1>3. cap \in CapType
  BY DEF TypeOK
<1>4. (cap' = cap) <=> (cap.st = CapabilityStatus(cap, out))
  BY <1>2, <1>3 DEF CapType
<1>5. /\ cap'.uid = cap.uid /\ cap'.gen = cap.gen /\ cap'.digest = cap.digest
      /\ cap'.life = cap.life /\ cap'.st = CapabilityStatus(cap, out)
  BY <1>2, <1>3 DEF CapType
<1>6. /\ cFresh' = (cFresh /\ cap.st = CapabilityStatus(cap, out))
      /\ wFresh' = (cap.st = CapabilityStatus(cap, out))
      /\ UNCHANGED <<cCap, w>>
  BY <1>1 DEF StatusWrite
<1> QED BY <1>1, <1>4, <1>5, <1>6

\* No step lets a copy overtake the object or two digests share a version.
LEMMA LineageStep ==
  ASSUME TypeOK, Lineage, [Next]_vars
  PROVE  Lineage'
<1> USE DEF Copies, NotAfter, SameVersion
<1>t. \A c \in Copies : c.uid \in Int /\ c.gen \in Int
  BY VersionTypes
<1>1. CASE CopiesStay
  BY <1>1 DEF CopiesStay, Lineage
<1>2. CASE WorkerTakes
  BY <1>2, <1>t DEF WorkerTakes, Lineage
<1>3. CASE InformerTakes
  BY <1>3, <1>t DEF InformerTakes, Lineage
<1>4. CASE UserWrites
  <2>0. cFresh' = FALSE /\ wFresh' = FALSE /\ cCap' = cCap /\ w'.copy = w.copy
    BY <1>4 DEF UserWrites
  <2>1. \/ cap'.uid = cap.uid /\ cap'.gen = cap.gen /\ cap'.digest = cap.digest
        \/ cap'.uid = cap.uid /\ cap'.gen = cap.gen + 1
        \/ cap'.uid = cap.uid + 1
    BY <1>4 DEF UserWrites
  <2>2. /\ \A c \in {cCap, w.copy} : c.uid \in Int /\ c.gen \in Int
        /\ cap.uid \in Int /\ cap.gen \in Int /\ cap'.uid \in Int /\ cap'.gen \in Int
    BY <1>t, <2>1, <1>4, TypeStep, VersionTypes, CapabilityBounds DEF TypeOK, CapType
  <2>3. \A c \in {cCap, w.copy} : NotAfter(c, cap)
    BY DEF Lineage
  <2>4. \A c \in {cCap, w.copy} : NotAfter(c, cap')
    BY <2>1, <2>2, <2>3
  <2>5. \A c \in {cCap, w.copy} : SameVersion(c, cap') => c.digest = cap'.digest
    BY <2>1, <2>2, <2>3 DEF Lineage
  <2>6. \A c, d \in {cCap, w.copy} : SameVersion(c, d) => c.digest = d.digest
    BY DEF Lineage
  <2>7. NotAfter(cap', cap')
    BY <2>2
  <2> QED BY <2>0, <2>4, <2>5, <2>6, <2>7 DEF Lineage
<1>5. CASE StatusWrite
  BY <1>5, <1>t, StatusWriteFacts DEF Lineage
<1> QED BY <1>1, <1>2, <1>3, <1>4, <1>5, CopySteps

-----------------------------------------------------------------------------
(* Outcomes. *)

\* What a step may do to the outcome carried, the cache and the verdicts.
LEMMA OutcomeSteps ==
  ASSUME TypeOK, [Next]_vars
  PROVE  \/ out' = out /\ (rec' = rec \/ rec' = NULL) /\ UNCHANGED verdicts
         \/ RecheckDue
         \/ ReconcileKnown
         \/ \E a \in Answers : Verified(a)
<1>1. CASE VerifierAnswers
  <2>1. sig[w.copy.digest] \in Answers
    BY DEF TypeOK, Worker, CapType, Answers
  <2> QED BY <1>1, <2>1 DEF VerifierAnswers
<1>2. CASE RegistryBlip
  BY <1>2 DEF RegistryBlip, Answers
<1>3. CASE Forget \/ ReconcileVerify \/ StatusWrite \/ StatusRetry \/ StatusGiveUp
           \/ Observe \/ RequeueFires \/ CompileAttach \/ UNCHANGED vars
  BY <1>3 DEF Forget, ReconcileVerify, StatusWrite, StatusRetry, StatusGiveUp, Observe,
     RequeueFires, CompileAttach, vars, worker
<1>4. CASE Delete \/ Restart \/ \E d \in Digests : EditDigest(d) \/ Recreate(d) \/ Publish(d)
  BY <1>4 DEF Delete, Restart, EditDigest, Recreate, Publish, worker
<1> QED BY <1>1, <1>2, <1>3, <1>4 DEF Next, Reconcile

\* The facts of an answered verification: what is recorded, carried and learned.
LEMMA VerifiedFacts ==
  ASSUME TypeOK, NEW a \in Answers, Verified(a)
  PROVE  LET o == ClassifyVerification(w.copy.digest, a) IN
         /\ out' = o /\ o \in Conditions
         /\ rec' # NULL => rec'.uid = w.copy.uid /\ rec'.gen = w.copy.gen
         /\ rec' # NULL /\ rec'.cond # NULL => rec'.cond = o /\ o.ver # "Unknown"
         /\ o.ver = "True" => o.digest = w.copy.digest /\ <<o.digest, "ok">> \in verdicts'
         /\ o.ver # "Unknown" => \E d \in Digests : <<d, o.why>> \in verdicts'
         /\ o.ver = "True" \/ Again(o)
         /\ verdicts \subseteq verdicts'
         /\ CopiesStay
<1> DEFINE o == ClassifyVerification(w.copy.digest, a)
<1>0. w.copy.digest \in Digests
  BY DEF TypeOK, Worker, CapType
<1>1. /\ o \in Conditions
      /\ o.ver = "True" => o.digest = w.copy.digest /\ a = "ok"
      /\ o.ver # "Unknown" => o.why = a /\ a # "transient"
      /\ o.ver = "True" \/ Again(o)
  BY <1>0, ClassifyFacts
<1>2. out' = o /\ rec' = RememberVerdict(w.copy, o)
  BY DEF Verified, Conclude
<1>3. verdicts' = IF a = "transient" THEN verdicts ELSE verdicts \cup {<<w.copy.digest, a>>}
  BY DEF Verified
<1>4. CopiesStay
  BY DEF Verified, CopiesStay, server
<1> HIDE DEF o
<1>5. /\ rec'.uid = w.copy.uid /\ rec'.gen = w.copy.gen
      /\ rec'.cond # NULL => rec'.cond = o /\ o.ver # "Unknown"
  BY <1>2 DEF RememberVerdict
<1> QED BY <1>0, <1>1, <1>2, <1>3, <1>4, <1>5 DEF o

\* The facts of a reconcile that needs no verification.
LEMMA KnownFacts ==
  ASSUME TypeOK, ReconcileKnown
  PROVE  /\ ~enabled => out' = Disabled
         /\ enabled => rec # NULL /\ SameVersion(rec, cCap) /\ rec.cond # NULL /\ out' = rec.cond
         /\ UNCHANGED <<rec, verdicts>>
BY DEF ReconcileKnown, CachedVerdict, Conclude, SameVersion, TypeOK

\* No step turns an outage into a verdict.
LEMMA GivenStep ==
  ASSUME TypeOK, Lineage, AllGiven, [Next]_vars
  PROVE  AllGiven'
<1>v. verdicts \subseteq verdicts'
  BY OutcomeSteps, VerifiedFacts, KnownFacts DEF RecheckDue
<1>g. \A o : Given(o) => Given(o)'
  BY <1>v DEF Given
<1>o. Given(out)' /\ (rec' # NULL => Given(rec.cond)')
  <2>1. CASE out' = out /\ (rec' = rec \/ rec' = NULL)
    BY <2>1, <1>g DEF AllGiven, Given
  <2>2. CASE RecheckDue
    <3>1. rec'.cond = rec.cond /\ out' = out
      BY <2>2 DEF RecheckDue, worker, TypeOK, Record
    <3> QED BY <2>2, <3>1, <1>v DEF RecheckDue, AllGiven, Given
  <2>3. CASE ReconcileKnown
    BY <2>3, <1>v, KnownFacts, DisabledFacts DEF AllGiven, Given
  <2>4. ASSUME NEW a \in Answers, Verified(a) PROVE Given(out)' /\ (rec' # NULL => Given(rec.cond)')
    BY <2>4, VerifiedFacts DEF Given
  <2> QED BY <2>1, <2>2, <2>3, <2>4, OutcomeSteps
<1>c. \A c \in Copies' : Given(c.st.cond)'
  <2> USE DEF Copies
  <2>1. CASE CopiesStay \/ WorkerTakes \/ InformerTakes
    <3>1. Copies' \subseteq Copies
      BY <2>1 DEF CopiesStay, WorkerTakes, InformerTakes
    <3> QED BY <3>1, <1>v DEF AllGiven, Given
  <2>2. CASE UserWrites
    BY <2>2, <1>v DEF UserWrites, AllGiven, Given
  <2>3. CASE StatusWrite
    <3>1. cap'.st.cond = out /\ UNCHANGED <<cCap, w, out>>
      BY <2>3, StatusWriteFacts DEF CapabilityStatus, StatusWrite
    <3> QED BY <3>1, <1>v DEF AllGiven, Given
  <2> QED BY <2>1, <2>2, <2>3, CopySteps
<1> QED BY <1>o, <1>c DEF AllGiven

\* A cached verdict stays one for the version it is filed under.
LEMMA CacheStep ==
  ASSUME TypeOK, Lineage, CacheIsSound, [Next]_vars
  PROVE  CacheIsSound'
<1> USE DEF Copies, NotAfter, SameVersion
<1>t. /\ \A c \in Copies : c.uid \in Int /\ c.gen \in Int
      /\ rec # NULL => rec.uid \in Int /\ rec.gen \in Int
  BY VersionTypes
<1>1. ASSUME NEW a \in Answers, Verified(a) PROVE CacheIsSound'
  <2>1. UNCHANGED <<cap, cCap, w>>
    BY <1>1, VerifiedFacts DEF CopiesStay
  <2>2. /\ rec' # NULL => rec'.uid = w.copy.uid /\ rec'.gen = w.copy.gen
        /\ rec' # NULL /\ rec'.cond # NULL =>
             /\ rec'.cond.ver # "Unknown"
             /\ rec'.cond.ver = "True" => /\ rec'.cond.digest = w.copy.digest
                                          /\ <<rec'.cond.digest, "ok">> \in verdicts'
    BY <1>1, VerifiedFacts
  <2> QED BY <2>1, <2>2 DEF CacheIsSound, Lineage
<1>2. CASE RecheckDue
  <2>1. rec'.cond = rec.cond /\ rec'.uid = rec.uid /\ rec'.gen = rec.gen
    BY <1>2 DEF RecheckDue, TypeOK, Record
  <2> QED BY <1>2, <2>1 DEF RecheckDue, CacheIsSound, server, worker
<1>3. CASE rec' = NULL
  BY <1>3 DEF CacheIsSound
<1>4. CASE rec # NULL /\ UNCHANGED <<rec, verdicts>>
  <2>1. CASE CopiesStay
    BY <1>4, <2>1 DEF CopiesStay, CacheIsSound
  <2>2. CASE WorkerTakes
    BY <1>4, <2>2 DEF WorkerTakes, CacheIsSound
  <2>3. CASE InformerTakes
    BY <1>4, <2>3 DEF InformerTakes, CacheIsSound
  <2>4. CASE StatusWrite
    BY <1>4, <2>4, StatusWriteFacts DEF CacheIsSound
  <2>5. CASE UserWrites
    <3>1. \/ cap'.uid = cap.uid /\ cap'.gen = cap.gen /\ cap'.digest = cap.digest
          \/ cap'.uid = cap.uid /\ cap'.gen = cap.gen + 1
          \/ cap'.uid = cap.uid + 1
      BY <2>5 DEF UserWrites
    <3>2. rec.uid \in Int /\ rec.gen \in Int /\ cap.uid \in Int /\ cap.gen \in Int
      BY <1>4, <1>t
    <3>3. NotAfter(rec, cap)
      BY <1>4 DEF CacheIsSound
    <3>4. /\ NotAfter(rec, cap')
          /\ SameVersion(rec, cap') => SameVersion(rec, cap) /\ cap'.digest = cap.digest
      BY <3>1, <3>2, <3>3
    <3>5. cCap' = cCap /\ w'.copy = w.copy
      BY <2>5 DEF UserWrites
    <3> QED BY <1>4, <3>4, <3>5 DEF CacheIsSound
  <2> QED BY <2>1, <2>2, <2>3, <2>4, <2>5, CopySteps
<1>5. CASE ReconcileKnown
  BY <1>3, <1>4, <1>5, KnownFacts
<1> QED BY <1>1, <1>2, <1>3, <1>4, <1>5, OutcomeSteps

-----------------------------------------------------------------------------
(* The quiet controller. *)

\* A reconcile that concludes with the right outcome for its copy is quiet, or
\* has the outcome left to write.
LEMMA ConcludeQuiet ==
  ASSUME NEW c \in CapType, NEW o, Proper(o, c, verdicts', enabled'), Conclude(c, o, Again(o)),
         ~dirty' => w'.copy = cCap' /\ c = cCap'
  PROVE  QuietIsRight'
<1>1. CASE c.st = CapabilityStatus(c, o)
  <2>1. pc' = "idle" /\ (~delayed' => ~Again(o))
    BY <1>1 DEF Conclude
  <2>2. c.st.obs = c.gen /\ c.st.cond = o
    BY <1>1 DEF CapabilityStatus
  <2>3. ~dirty' => /\ cCap'.st.obs = cCap'.gen /\ cCap'.st.cond = o
                   /\ Right(o, cCap)'
    BY <2>2 DEF Right, Proper
  <2> QED BY <2>1, <2>3 DEF QuietIsRight
<1>2. CASE c.st # CapabilityStatus(c, o)
  <2>1. pc' = "status" /\ out' = o
    BY <1>2 DEF Conclude
  <2>2. ~dirty' => Right(out, cCap)'
    BY <2>1 DEF Right, Proper
  <2> QED BY <2>1, <2>2 DEF QuietIsRight
<1> QED BY <1>1, <1>2

\* Every step keeps a quiet controller right: one step per action.
LEMMA QuietStep ==
  ASSUME TypeOK, Lineage, CacheIsSound, QuietIsRight, [Next]_vars
  PROVE  QuietIsRight'
<1>1. CASE Forget
  BY <1>1 DEF Forget, QuietIsRight, server, worker
<1>2. CASE ReconcileKnown
  <2> DEFINE o == IF enabled THEN rec.cond ELSE Disabled
  <2>1. Conclude(cCap, o, Again(o))
    BY <1>2 DEF ReconcileKnown
  <2>2. /\ w'.copy = cCap /\ cCap' = cCap /\ enabled' = enabled /\ cCap \in CapType
        /\ verdicts' = verdicts
    BY <1>2 DEF ReconcileKnown, TypeOK
  <2>3. CASE enabled
    <3>1. rec # NULL /\ SameVersion(rec, cCap) /\ rec.cond # NULL /\ rec.cond \in Conditions
      BY <1>2, <2>3, KnownFacts DEF TypeOK, Record
    <3>2. /\ rec.cond.ver # "Unknown"
          /\ rec.cond.ver = "True" => /\ <<rec.cond.digest, "ok">> \in verdicts
                                      /\ cCap.digest = rec.cond.digest
      BY <3>1 DEF CacheIsSound, Copies
    <3>3. rec.cond.ver \in {"True", "False", "Unknown"}
      BY <3>1 DEF Conditions, Disabled, ClassifyVerification, Condition, Answers
    <3>4. Proper(o, cCap, verdicts', enabled')
      BY <2>2, <2>3, <3>1, <3>2, <3>3 DEF Proper, Again
    <3> HIDE DEF o
    <3> QED BY <2>1, <2>2, <3>4, ConcludeQuiet
  <2>4. CASE ~enabled
    <3>1. Proper(o, cCap, verdicts', enabled')
      BY <2>2, <2>4, DisabledFacts DEF Proper
    <3> HIDE DEF o
    <3> QED BY <2>1, <2>2, <3>1, ConcludeQuiet
  <2> QED BY <2>3, <2>4
<1>3. CASE ReconcileVerify
  BY <1>3 DEF ReconcileVerify, QuietIsRight
<1>4. ASSUME NEW a \in Answers, Verified(a) PROVE QuietIsRight'
  <2> DEFINE o == ClassifyVerification(w.copy.digest, a)
  <2>1. Conclude(w.copy, o, Again(o)) /\ pc = "verify" /\ dirty' = dirty /\ enabled' = enabled
    BY <1>4 DEF Verified
  <2>2. /\ o \in Conditions
        /\ o.ver = "True" => o.digest = w.copy.digest /\ <<o.digest, "ok">> \in verdicts'
        /\ o.ver = "True" \/ Again(o)
        /\ UNCHANGED <<cap, cCap, cFresh, w, wFresh>>
    BY <1>4, VerifiedFacts DEF CopiesStay
  <2> HIDE DEF o
  <2>3. Proper(o, w.copy, verdicts', enabled')
    BY <2>2 DEF Proper
  <2>4. w.copy \in CapType
    BY DEF TypeOK, Worker
  <2>5. ~dirty' => w'.copy = cCap' /\ w.copy = cCap'
    BY <2>1, <2>2 DEF QuietIsRight
  <2> QED BY <2>1, <2>3, <2>4, <2>5, ConcludeQuiet
<1>5. CASE VerifierAnswers
  <2>1. sig[w.copy.digest] \in Answers
    BY DEF TypeOK, Worker, CapType, Answers
  <2> QED BY <1>5, <2>1, <1>4 DEF VerifierAnswers
<1>6. CASE RegistryBlip
  BY <1>6, <1>4 DEF RegistryBlip, Answers
<1>7. CASE StatusWrite
  <2>1. /\ pc' = "idle" /\ delayed' = (delayed \/ Again(out)) /\ dirty' = dirty
        /\ pc = "status" /\ UNCHANGED <<enabled, verdicts, cCap>>
    BY <1>7 DEF StatusWrite
  <2>2. cFresh' => cFresh /\ cap' = cap
    BY <1>7, StatusWriteFacts
  <2>3. cFresh' => cCap.st = CapabilityStatus(cCap, out)
    BY <1>7, <2>2, StatusWriteFacts DEF Lineage
  <2>4. cFresh' => cCap.st.obs = cCap.gen /\ cCap.st.cond = out
    BY <2>3 DEF CapabilityStatus
  <2>5. ~dirty => Right(out, cCap)
    BY <2>1 DEF QuietIsRight
  <2> QED BY <2>1, <2>4, <2>5 DEF QuietIsRight, Right, Proper
<1>8. CASE StatusRetry
  BY <1>8 DEF StatusRetry, QuietIsRight, Right, Proper, server
<1>9. CASE StatusGiveUp
  BY <1>9 DEF StatusGiveUp, QuietIsRight
<1>10. CASE Observe \/ RequeueFires \/ Restart
  BY <1>10 DEF Observe, RequeueFires, Restart, QuietIsRight
<1>11. CASE RecheckDue \/ CompileAttach \/ UNCHANGED vars \/ \E d \in Digests : Publish(d)
  BY <1>11 DEF RecheckDue, CompileAttach, Publish, vars, QuietIsRight, Right, Proper, server, worker
<1>12. CASE Delete \/ \E d \in Digests : EditDigest(d) \/ Recreate(d)
  <2>1. cFresh' = FALSE /\ UNCHANGED <<cCap, dirty, delayed, pc, w, out, enabled, verdicts>>
    BY <1>12 DEF Delete, EditDigest, Recreate
  <2> QED BY <2>1 DEF QuietIsRight, Right
<1> QED
  BY <1>1, <1>2, <1>3, <1>5, <1>6, <1>7, <1>8, <1>9, <1>10, <1>11, <1>12 DEF Next, Reconcile

-----------------------------------------------------------------------------
(* The theorems. *)

\* The invariant holds initially.
LEMMA InitInv == Init => IndInv
<1> SUFFICES ASSUME Init PROVE IndInv
  OBVIOUS
<1>1. TypeOK
  BY InitType
<1>2. /\ cCap = cap /\ w.copy = cap /\ dirty /\ rec = NULL /\ out = Disabled
      /\ cap.st.cond = NULL /\ cap.gen = 1 /\ cap.uid = 1
  BY DEF Init, NoStatus
<1>3. Lineage
  BY <1>2 DEF Lineage, Copies, NotAfter, SameVersion
<1>4. AllGiven /\ CacheIsSound /\ QuietIsRight
  BY <1>2, DisabledFacts DEF AllGiven, Given, CacheIsSound, QuietIsRight, Copies
<1> QED BY <1>1, <1>3, <1>4 DEF IndInv

\* It holds throughout every behaviour.
LEMMA Invariance == Spec => []IndInv
<1>1. ASSUME IndInv, [Next]_vars PROVE IndInv'
  BY <1>1, TypeStep, LineageStep, GivenStep, CacheStep, QuietStep DEF IndInv
<1> QED BY InitInv, <1>1, PTL DEF Spec

\* The Capability, its copies and the verdict cache keep their shapes (the delay of
\* rememberVerdict stays within verifyBackoffMax), and a Verified condition of True
\* or False is always one the verifier gave, never an outage.
THEOREM OutagesGiveNoVerdict == Spec => []VerdictInv
<1>1. IndInv => VerdictInv
  <2> SUFFICES ASSUME IndInv PROVE VerdictInv
    OBVIOUS
  <2>1. Given(cap.st.cond)
    BY DEF IndInv, AllGiven, Copies
  <2> QED BY <2>1 DEF IndInv, VerdictInv, OutageIsNoVerdict, Given
<1> QED BY Invariance, <1>1, PTL

\* A CapabilityReconciler at rest with no timer pending has reported on the
\* generation the object has now, and a True condition is the verifier's approval of
\* the very digest the object names, through edits, recreations under the same name,
\* restarts, status conflicts and cached verdicts.
THEOREM RestingVerdictIsForThisDigest == Spec => []VerdictIsForThisDigest
<1>1. IndInv => VerdictIsForThisDigest
  <2> SUFFICES ASSUME IndInv, AtRest, cap.life = "live", ~delayed
               PROVE  /\ cap.st.obs = cap.gen /\ cap.st.cond # NULL
                      /\ cap.st.cond.ver = "True" => cap.st.cond.digest = cap.digest
                      /\ enabled => <<cap.digest, "ok">> \in verdicts /\ cap.st.cond.ver = "True"
    BY DEF VerdictIsForThisDigest
  <2>1. cCap = cap
    BY DEF IndInv, Lineage, AtRest
  <2>2. cap.st.obs = cap.gen /\ Right(cap.st.cond, cap) /\ ~Again(cap.st.cond)
    BY <2>1 DEF IndInv, QuietIsRight, AtRest
  <2> QED BY <2>2, NullAssumption DEF Right, Proper
<1> QED BY Invariance, <1>1, PTL

=============================================================================
