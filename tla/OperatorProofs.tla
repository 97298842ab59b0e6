--------------------------- MODULE OperatorProofs ---------------------------
(* TLAPS proofs about parts of the operator process, for every value of      *)
(* their constants: the signature verifier, the delivery probe, the          *)
(* catalogue's controllers.                                                  *)
EXTENDS ArtifactVerifier, DeliveryProbe, CatalogControllers, FiniteSetTheorems, WellFoundedInduction, TLAPS

-----------------------------------------------------------------------------
(* The verifier: what a verdict on a manifest rests on. *)

\* A non-empty set of numbers has a least one.
LEMMA Least ==
  ASSUME NEW I \in SUBSET Nat, I # {}
  PROVE  \E i \in I : \A j \in I : i <= j
<1>1. IsWellFoundedOn(OpToRel(<, Nat), Nat)
  BY NatLessThanWellFounded
<1>2. PICK i \in I : \A j \in I : ~ (<<j, i>> \in OpToRel(<, Nat))
  BY <1>1, WFMin
<1>3. \A j \in I : i \in Nat /\ j \in Nat /\ ~ (j < i)
  BY <1>2 DEF OpToRel
<1> QED BY <1>3

\* A manifest is a sequence of layers.
LEMMA ManifestFacts ==
  ASSUME NEW m \in Manifests
  PROVE  DOMAIN m \subseteq Nat /\ \A i \in DOMAIN m : m[i] \in Layers
<1>1. PICK n \in 0..MaxLayers : m \in [1..n -> Layers]
  BY DEF Manifests
<1> QED BY <1>1

\* The layers' verdict is that of one signature layer, or "invalid" when none of
\* them decides.
LEMMA LayersFacts ==
  ASSUME NEW m \in Manifests, NEW r
  PROVE  \/ \E i \in DOMAIN m : /\ m[i].simple /\ LayersVerdict(m, r) = LayerVerdict(m[i], r)
                                /\ LayerVerdict(m[i], r) # "next"
         \/ /\ LayersVerdict(m, r) = "invalid"
            /\ \A i \in DOMAIN m : m[i].simple => LayerVerdict(m[i], r) = "next"
<1> DEFINE decided == {i \in SignatureLayers(m) : LayerVerdict(m[i], r) # "next"}
<1>1. decided \in SUBSET Nat /\ decided \subseteq SignatureLayers(m)
  BY ManifestFacts DEF SignatureLayers
<1>2. LayersVerdict(m, r) = IF decided = {} THEN "invalid"
        ELSE LayerVerdict(m[CHOOSE i \in decided : \A j \in decided : i <= j], r)
  BY DEF LayersVerdict
<1>3. CASE decided = {}
  BY <1>2, <1>3 DEF SignatureLayers
<1>4. CASE decided # {}
  <2>1. \E i \in decided : \A j \in decided : i <= j
    BY <1>1, <1>4, Least
  <2> DEFINE k == CHOOSE i \in decided : \A j \in decided : i <= j
  <2>2. k \in decided
    BY <2>1
  <2>3. LayersVerdict(m, r) = LayerVerdict(m[k], r)
    BY <1>2, <1>4
  <2> QED BY <2>2, <2>3 DEF SignatureLayers
<1> QED BY <1>3, <1>4

\* What each verdict of a layer says of it.
LEMMA LayerFacts ==
  ASSUME NEW l \in Layers, NEW r
  PROVE  /\ LayerVerdict(l, r) \in {"ok", "missing", "transient", "next"}
         /\ LayerVerdict(l, r) = "ok" => l.payload = "ok" /\ SignatureHolds(l, r) /\ l.claims
         /\ LayerVerdict(l, r) = "missing" => l.payload = "notfound"
         /\ LayerVerdict(l, r) = "transient" => l.payload = "error"
         /\ LayerVerdict(l, r) = "next" => l.payload = "ok"
<1>1. l.payload \in {"ok", "notfound", "error"} /\ l.claims \in BOOLEAN
  BY LayersAssumption
<1>2. SignatureHolds(l, r) \in BOOLEAN
  BY DEF SignatureHolds, BundleHolds
<1>3. CASE l.payload # "ok"
  <2>1. LayerVerdict(l, r) = IF l.payload = "notfound" THEN "missing" ELSE "transient"
    BY <1>3 DEF LayerVerdict, ClassifyFetchError
  <2> QED BY <1>1, <1>3, <2>1
<1>4. CASE l.payload = "ok" /\ SignatureHolds(l, r) /\ l.claims
  <2>1. LayerVerdict(l, r) = "ok"
    BY <1>4 DEF LayerVerdict
  <2> QED BY <1>4, <2>1
<1>5. CASE l.payload = "ok" /\ ~(SignatureHolds(l, r) /\ l.claims)
  <2>1. LayerVerdict(l, r) = "next"
    BY <1>5 DEF LayerVerdict
  <2> QED BY <1>5, <2>1
<1> QED BY <1>3, <1>4, <1>5

\* What each verdict of a call says of it.
Signed(c, r) == \E i \in DOMAIN c.layers : /\ c.layers[i].simple /\ c.layers[i].payload = "ok"
                                            /\ c.layers[i].claims /\ SignatureHolds(c.layers[i], r)

\* What each verdict of a call was given for.
LEMMA VerdictFacts ==
  ASSUME NEW c \in Calls, NEW r, keyMode \in BOOLEAN
  PROVE  /\ Verdict(c, r) \in Answers
         /\ Verdict(c, r) = "ok" => Signed(c, r) /\ (keyMode \/ r # NULL)
         /\ Verdict(c, r) = "transient" =>
              \/ ~c.keychain \/ c.fetch = "error" \/ (~keyMode /\ r = NULL)
              \/ \E i \in DOMAIN c.layers : c.layers[i].payload = "error"
         /\ Verdict(c, r) = "invalid" /\ c.pinned /\ c.refOk =>
              /\ c.keychain /\ c.fetch = "ok"
              /\ \A i \in DOMAIN c.layers : c.layers[i].simple => c.layers[i].payload = "ok"
         /\ Verdict(c, r) = "missing" =>
              /\ c.keychain /\ c.fetch \in {"ok", "notfound"}
              /\ c.fetch = "ok" => \A i \in DOMAIN c.layers : c.layers[i].simple =>
                   \E j \in DOMAIN c.layers :
                     c.layers[j].simple /\ c.layers[j].payload = "notfound"
<1>1. /\ c.pinned \in BOOLEAN /\ c.refOk \in BOOLEAN /\ c.keychain \in BOOLEAN
      /\ c.fetch \in {"ok", "notfound", "error"} /\ c.layers \in Manifests
  BY DEF Calls
<1>2. \A i \in DOMAIN c.layers : c.layers[i] \in Layers
  BY <1>1, ManifestFacts
<1>3. CASE ~c.pinned \/ ~c.refOk
  <2>1. Verdict(c, r) = "invalid"
    BY <1>3 DEF Verdict
  <2> QED BY <1>3, <2>1 DEF Answers
<1>4. CASE c.pinned /\ c.refOk /\ ~c.keychain
  <2>1. Verdict(c, r) = "transient"
    BY <1>4 DEF Verdict
  <2> QED BY <1>4, <2>1 DEF Answers
<1>5. CASE c.pinned /\ c.refOk /\ c.keychain /\ c.fetch # "ok"
  <2>1. Verdict(c, r) = IF c.fetch = "notfound" THEN "missing" ELSE "transient"
    BY <1>5 DEF Verdict, ClassifyFetchError
  <2> QED BY <1>1, <1>5, <2>1 DEF Answers
<1>6. CASE c.pinned /\ c.refOk /\ c.keychain /\ c.fetch = "ok" /\ SignatureLayers(c.layers) = {}
  BY <1>1, <1>6 DEF Verdict, Answers, SignatureLayers
<1>7. CASE /\ c.pinned /\ c.refOk /\ c.keychain /\ c.fetch = "ok" /\ SignatureLayers(c.layers) # {}
           /\ ~keyMode /\ r = NULL
  BY <1>1, <1>7 DEF Verdict, Answers
<1>8. CASE /\ c.pinned /\ c.refOk /\ c.keychain /\ c.fetch = "ok" /\ SignatureLayers(c.layers) # {}
           /\ (keyMode \/ r # NULL)
  <2>1. Verdict(c, r) = LayersVerdict(c.layers, r)
    BY <1>1, <1>8 DEF Verdict
  <2>2. CASE \E i \in DOMAIN c.layers : /\ c.layers[i].simple
                                        /\ LayersVerdict(c.layers, r) = LayerVerdict(c.layers[i], r)
                                        /\ LayerVerdict(c.layers[i], r) # "next"
    <3>1. PICK i \in DOMAIN c.layers : /\ c.layers[i].simple
                                       /\ Verdict(c, r) = LayerVerdict(c.layers[i], r)
                                       /\ LayerVerdict(c.layers[i], r) # "next"
      BY <2>1, <2>2
    <3>2. c.layers[i] \in Layers
      BY <1>2
    <3>3. /\ Verdict(c, r) \in {"ok", "missing", "transient"}
          /\ Verdict(c, r) = "ok" => c.layers[i].payload = "ok" /\ SignatureHolds(c.layers[i], r)
                                     /\ c.layers[i].claims
          /\ Verdict(c, r) = "missing" => c.layers[i].payload = "notfound"
          /\ Verdict(c, r) = "transient" => c.layers[i].payload = "error"
      BY <3>1, <3>2, LayerFacts
    <3> QED BY <1>8, <3>1, <3>3 DEF Answers, Signed
  <2>3. CASE /\ LayersVerdict(c.layers, r) = "invalid"
             /\ \A i \in DOMAIN c.layers : c.layers[i].simple => LayerVerdict(c.layers[i], r) = "next"
    <3>1. \A i \in DOMAIN c.layers : c.layers[i].simple => c.layers[i].payload = "ok"
      BY <1>2, <2>3, LayerFacts
    <3> QED BY <1>8, <2>1, <2>3, <3>1 DEF Answers
  <2> QED BY <1>1, <2>2, <2>3, LayersFacts
<1> QED BY <1>1, <1>3, <1>4, <1>5, <1>6, <1>7, <1>8

-----------------------------------------------------------------------------
(* The verifier: the invariant. *)

\* The cached root is one TUF has served, and there is an answer to each call.
VerifierIndInv ==
  /\ VerifierInv
  /\ root # NULL => root <= tuf
  /\ call = NULL <=> answer = NULL

\* The root a call gets is one TUF has served.
LEMMA ServedFacts ==
  ASSUME VerifierIndInv
  PROVE  /\ ServedRoot # NULL => ServedRoot \in 1..MaxRoot /\ ServedRoot <= tuf
         /\ root # NULL => ServedRoot # NULL
<1>1. root \in 1..MaxRoot \cup {NULL} /\ tuf \in 1..MaxRoot /\ (root # NULL => root <= tuf)
  BY DEF VerifierIndInv, VerifierInv, VerifierTypeOK
<1>2. tuf # NULL /\ tuf <= tuf
  BY <1>1, NoCallAssumption, VerifierBounds
<1> QED BY <1>1, <1>2 DEF ServedRoot

\* An answer is given, for a root TUF has served.
LEMMA VerifyInv ==
  ASSUME VerifierIndInv, NEW c \in Calls, Verify(c)
  PROVE  VerifierIndInv'
<1> DEFINE r == ServedRoot
<1>1. /\ call' = c /\ answer' = Verdict(c, r) /\ UNCHANGED <<keyMode, tuf, tufUp>>
      /\ \/ root' = root /\ rootFresh' = rootFresh
         \/ root' = tuf /\ rootFresh' = TRUE
  BY DEF Verify
<1>t. /\ keyMode \in BOOLEAN /\ rootFresh \in BOOLEAN /\ tufUp \in BOOLEAN
      /\ root \in 1..MaxRoot \cup {NULL} /\ tuf \in 1..MaxRoot /\ (root # NULL => root <= tuf)
  BY DEF VerifierIndInv, VerifierInv, VerifierTypeOK
<1>2. /\ r # NULL => r \in 1..MaxRoot /\ r <= tuf
  BY ServedFacts
<1> HIDE DEF r
<1>3. VerifierTypeOK'
  <2>1. Verdict(c, r) \in Answers
    BY <1>t, VerdictFacts
  <2> QED BY <1>1, <1>t, <2>1 DEF VerifierTypeOK
<1>4. VerifiedIsSigned'
  <2> SUFFICES ASSUME Verdict(c, r) = "ok"
               PROVE  \E i \in DOMAIN c.layers : Approves(c.layers[i])'
    BY <1>1 DEF VerifiedIsSigned
  <2>1. Signed(c, r) /\ (keyMode \/ r # NULL)
    BY <1>t, VerdictFacts
  <2>2. PICK i \in DOMAIN c.layers :
          /\ c.layers[i].simple /\ c.layers[i].payload = "ok"
          /\ c.layers[i].claims /\ SignatureHolds(c.layers[i], r)
    BY <2>1 DEF Signed
  <2>3. c.layers[i].since \in 1..MaxRoot
    <3>1. c.layers[i] \in Layers
      BY ManifestFacts DEF Calls
    <3> QED BY <3>1, LayersAssumption
  <2>4. c.layers[i].since <= r /\ ~keyMode => c.layers[i].since <= tuf
    BY <1>2, <1>t, <2>1, <2>3, VerifierBounds
  <2> QED BY <1>1, <1>t, <2>2, <2>4 DEF Approves, SignatureHolds, BundleHolds
<1>5. NegativeIsDefinitive'
  <2>1. /\ Verdict(c, r) = "invalid" /\ c.pinned /\ c.refOk =>
             /\ c.keychain /\ c.fetch = "ok"
             /\ \A i \in DOMAIN c.layers : c.layers[i].simple => c.layers[i].payload = "ok"
        /\ Verdict(c, r) = "missing" =>
             /\ c.keychain /\ c.fetch \in {"ok", "notfound"}
             /\ c.fetch = "ok" => \A i \in DOMAIN c.layers : c.layers[i].simple =>
                  \E j \in DOMAIN c.layers :
                    c.layers[j].simple /\ c.layers[j].payload = "notfound"
    BY <1>t, VerdictFacts
  <2> QED BY <1>1, <2>1 DEF NegativeIsDefinitive
<1>6. root' # NULL => root' <= tuf'
  BY <1>1, <1>t, VerifierBounds
<1>7. call' # NULL /\ answer' # NULL
  <2>1. Verdict(c, r) \in Answers
    BY <1>t, VerdictFacts
  <2> QED BY <1>1, <2>1, NoCallAssumption
<1> QED BY <1>3, <1>4, <1>5, <1>6, <1>7 DEF VerifierIndInv, VerifierInv

\* Every step keeps the invariant.
LEMMA VerifierStep == VerifierIndInv /\ [VerifierNext]_verifierVars => VerifierIndInv'
<1> SUFFICES ASSUME VerifierIndInv, [VerifierNext]_verifierVars PROVE VerifierIndInv'
  OBVIOUS
<1>t. /\ keyMode \in BOOLEAN /\ rootFresh \in BOOLEAN /\ tufUp \in BOOLEAN
      /\ root \in 1..MaxRoot \cup {NULL} /\ tuf \in 1..MaxRoot /\ (root # NULL => root <= tuf)
      /\ call \in Calls \cup {NULL} /\ answer \in Answers \cup {NULL}
      /\ (call = NULL <=> answer = NULL)
  BY DEF VerifierIndInv, VerifierInv, VerifierTypeOK
<1>i. VerifiedIsSigned /\ NegativeIsDefinitive
  BY DEF VerifierIndInv, VerifierInv
<1>1. ASSUME NEW c \in Calls, Verify(c) PROVE VerifierIndInv'
  BY <1>1, VerifyInv
<1>2. CASE Return
  <2>1. call' = NULL /\ answer' = NULL /\ UNCHANGED <<keyMode, root, rootFresh, tuf, tufUp>>
    BY <1>2 DEF Return
  <2>2. NULL \notin Answers
    BY NoCallAssumption
  <2>3. answer' # "ok" /\ answer' \notin {"missing", "invalid"}
    BY <2>1, <2>2 DEF Answers
  <2> QED BY <1>t, <2>1, <2>3 DEF VerifierIndInv, VerifierInv, VerifierTypeOK, VerifiedIsSigned,
                                  NegativeIsDefinitive
<1>3. CASE UNCHANGED <<keyMode, root, tuf, call, answer>> /\ rootFresh' \in BOOLEAN /\ tufUp' \in BOOLEAN
  BY <1>3, <1>i, <1>t DEF VerifierIndInv, VerifierInv, VerifierTypeOK, VerifiedIsSigned,
                          NegativeIsDefinitive, Approves
<1>4. CASE Rotate
  <2>1. tuf' = tuf + 1 /\ tuf < MaxRoot /\ UNCHANGED <<keyMode, root, rootFresh, tufUp, call, answer>>
    BY <1>4 DEF Rotate
  <2>2. tuf' \in 1..MaxRoot /\ (root # NULL => root <= tuf') /\ tuf <= tuf' /\ tuf \in Int /\ tuf' \in Int
    BY <1>t, <2>1, VerifierBounds
  <2>3. VerifiedIsSigned'
    <3> SUFFICES ASSUME answer = "ok" PROVE \E i \in DOMAIN call.layers : Approves(call.layers[i])'
      BY <2>1 DEF VerifiedIsSigned
    <3>1. PICK i \in DOMAIN call.layers : Approves(call.layers[i])
      BY <1>i DEF VerifiedIsSigned
    <3>2. call \in Calls
      <4>1. "ok" \in Answers /\ NULL \notin Answers
        BY NoCallAssumption DEF Answers
      <4> QED BY <1>t, <4>1
    <3>3. call.layers[i] \in Layers
      BY <3>2, ManifestFacts DEF Calls
    <3>4. call.layers[i].since \in 1..MaxRoot
      BY <3>3, LayersAssumption
    <3>5. call.layers[i].since <= tuf => call.layers[i].since <= tuf'
      BY <2>2, <3>4, VerifierBounds
    <3> QED BY <2>1, <3>1, <3>5 DEF Approves
  <2> QED BY <1>i, <1>t, <2>1, <2>2, <2>3 DEF VerifierIndInv, VerifierInv, VerifierTypeOK,
                                             NegativeIsDefinitive
<1> QED BY <1>1, <1>2, <1>3, <1>4, <1>t DEF VerifierNext, RootExpires, TufFlips, verifierVars

\* The verifier's first state.
LEMMA VerifierStart == VerifierInit => VerifierIndInv
<1>1. NULL \notin Answers /\ 1 \in 1..MaxRoot
  BY NoCallAssumption, VerifierBounds
<1> QED BY <1>1 DEF VerifierInit, VerifierIndInv, VerifierInv, VerifierTypeOK, VerifiedIsSigned,
                    NegativeIsDefinitive, Answers

\* The invariant of every behaviour.
LEMMA VerifierInvariance == VerifierSpec => []VerifierIndInv
BY VerifierStart, VerifierStep, PTL DEF VerifierSpec

\* For any registry content, credentials, rotations and outages: "ok" is earned by a
\* signature over the pinned digest, and a negative answer by having looked.
THEOREM AnswersAreEarned == VerifierSpec => []VerifierInv
<1>1. VerifierIndInv => VerifierInv
  BY DEF VerifierIndInv
<1> QED BY <1>1, VerifierInvariance, PTL

\* Once a trusted root is cached, an outage of TUF costs no verdict.
THEOREM OutagesCostNoVerdict == VerifierSpec => RootOutlivesOutage
<1> DEFINE Served == root # NULL /\ call = NULL /\ answer' = "transient" =>
                       \/ ~call'.keychain \/ call'.fetch = "error"
                       \/ \E i \in DOMAIN call'.layers : call'.layers[i].payload = "error"
<1>1. VerifierIndInv /\ [VerifierNext]_verifierVars => [Served]_verifierVars
  <2> SUFFICES ASSUME VerifierIndInv, VerifierNext, root # NULL, call = NULL, answer' = "transient"
               PROVE  \/ ~call'.keychain \/ call'.fetch = "error"
                      \/ \E i \in DOMAIN call'.layers : call'.layers[i].payload = "error"
    OBVIOUS
  <2>1. answer = NULL /\ keyMode \in BOOLEAN /\ NULL # "transient"
    BY NoCallAssumption DEF VerifierIndInv, VerifierInv, VerifierTypeOK, Answers
  <2>2. PICK c \in Calls : Verify(c)
    BY <2>1 DEF VerifierNext, Return, RootExpires, TufFlips, Rotate
  <2>3. call' = c /\ answer' = Verdict(c, ServedRoot)
    BY <2>2 DEF Verify
  <2>4. ServedRoot # NULL
    BY ServedFacts
  <2> QED BY <2>1, <2>3, <2>4, VerdictFacts
<1>2. VerifierSpec => [][Served]_verifierVars
  BY <1>1, VerifierInvariance, PTL DEF VerifierSpec
<1> QED BY <1>2 DEF RootOutlivesOutage

-----------------------------------------------------------------------------
(* The delivery probe. *)

Pcs == {"off", "exited", "boot", "resolve", "delete", "gone", "create", "poll", "cleanup",
        "publish", "write", "setup", "running"}
Effectives == {"initContainer", "imageVolume"}
Procs == [pc : Pcs, born : 1..2, expired : BOOLEAN, effective : Effectives \cup {"none"},
          earned : 0..2, seen : Nat, tries : Nat, wrote : {"no", "yes", "lost", "failed"}]

\* The state's parts.
ProbeShape ==
  /\ flags \in Deployments /\ version \in 1..2 /\ record.rv \in Nat
  /\ pod \subseteq Pods /\ \A p, o \in pod : p = o
  /\ proc \in [Replicas -> Procs]

\* A process q decided on evidence as new as itself: when it polls, every pod is
\* younger than q.
Healthy(q) ==
  /\ q.born <= version
  /\ q.pc \in {"cleanup", "publish", "write", "setup", "running"} => q.effective \in Effectives
  /\ flags.mode = "auto" /\ q.effective = "imageVolume" =>
       q.earned >= q.born /\ flags.cluster[q.earned] = "works"
  /\ q.pc \in {"create", "poll", "cleanup"} => \A p \in pod : p.version >= q.born
  /\ q.seen <= record.rv
  /\ q.wrote # "no" <=> q.pc \in {"setup", "running"}
  /\ q.wrote \in {"yes", "lost"} => record.rv > 0

\* A pod tells what the cluster of its version does, and is somebody's.
PodHonest(p) ==
  /\ p.version <= version
  /\ p.phase = "Succeeded" => flags.cluster[p.version] = "works"
  /\ p.terminating \/ p.leaked \/ proc[p.maker].pc \in {"poll", "cleanup"}

\* A process that wrote the mode the record shows, or that will still publish its own,
\* unless a call fails: its write cannot meet a conflict.
Settles(q) ==
  \/ q.wrote = "yes" /\ q.effective = record.mode
  \/ q.pc \in Pcs \ {"write", "setup", "running"}
  \/ q.pc = "write" /\ q.seen = record.rv
  \/ q.wrote = "failed"

RecordIsSomeones == record.rv > 0 => \E r \in Replicas : Settles(proc[r])

ProbeIndInv ==
  /\ ProbeShape
  /\ \A r \in Replicas : Healthy(proc[r])
  /\ \A p \in pod : PodHonest(p)
  /\ RecordIsSomeones

\* The constants of a deployment.
LEMMA DeploymentFacts ==
  ASSUME ProbeIndInv
  PROVE  /\ flags.mode \in Modes /\ flags.cluster \in [1..2 -> Behaviours]
         /\ \A r \in Replicas : proc[r] \in Procs /\ Healthy(proc[r])
BY ProbeAssumption DEF ProbeIndInv, ProbeShape

\* A pod p after a step of process r, now q, is one from before it, or one r made.
PodFollows(p, r, q) ==
  \/ \E o \in pod :
       /\ p.version = o.version /\ p.phase = o.phase /\ p.maker = o.maker
       /\ o.terminating => p.terminating
       /\ o.leaked => p.leaked
       /\ o.maker = r /\ proc[r].pc \in {"poll", "cleanup"} =>
            p.terminating \/ p.leaked \/ q.pc \in {"poll", "cleanup"}
  \/ /\ p.version = version /\ p.phase = "Pending" /\ p.maker = r
     /\ p.leaked \/ q.pc \in {"poll", "cleanup"}

\* A step of one process, seen by all: what is left to show is the process's own part.
LEMMA ProcessMove ==
  ASSUME ProbeIndInv, NEW r \in Replicas, NEW q \in Procs, Set(r, q),
         UNCHANGED <<flags, version, record>>,
         pod' \subseteq Pods, \A p, o \in pod' : p = o, \A p \in pod' : PodFollows(p, r, q),
         Healthy(q)', Settles(proc[r]) => Settles(q)
  PROVE  ProbeIndInv'
<1>1. ProbeShape /\ proc \in [Replicas -> Procs]
  BY DEF ProbeIndInv, ProbeShape
<1>2. proc' \in [Replicas -> Procs] /\ proc'[r] = q /\ \A s \in Replicas : s # r => proc'[s] = proc[s]
  BY <1>1 DEF Set
<1>3. ProbeShape'
  BY <1>1, <1>2 DEF ProbeShape
<1>n. version \in 1..2 /\ \A s \in Replicas : proc[s].born \in 1..2 /\ proc[s].born <= version
  BY <1>1 DEF ProbeIndInv, ProbeShape, Healthy, Procs
<1>4. ASSUME NEW s \in Replicas PROVE Healthy(proc[s])'
  <2>1. CASE s = r
    BY <1>2, <2>1 DEF Healthy
  <2>2. CASE s # r
    <3>1. proc'[s] = proc[s] /\ Healthy(proc[s])
      BY <1>2, <2>2 DEF ProbeIndInv
    <3>2. proc[s].pc \in {"create", "poll", "cleanup"} => \A p \in pod' : p.version >= proc[s].born
      <4> SUFFICES ASSUME proc[s].pc \in {"create", "poll", "cleanup"}, NEW p \in pod'
                   PROVE  p.version >= proc[s].born
        OBVIOUS
      <4>1. CASE \E o \in pod : p.version = o.version
        BY <3>1, <4>1 DEF Healthy
      <4>2. CASE p.version = version
        BY <1>n, <4>2
      <4> QED BY <4>1, <4>2 DEF PodFollows
    <3> QED BY <3>1, <3>2 DEF Healthy
  <2> QED BY <2>1, <2>2
<1>5. ASSUME NEW p \in pod' PROVE PodHonest(p)'
  <2>1. CASE p.version = version /\ p.phase = "Pending" /\ p.maker = r
             /\ (p.leaked \/ q.pc \in {"poll", "cleanup"})
    BY <1>2, <1>n, <2>1 DEF PodHonest
  <2>2. ASSUME NEW o \in pod,
               p.version = o.version /\ p.phase = o.phase /\ p.maker = o.maker,
               o.terminating => p.terminating,
               o.leaked => p.leaked,
               o.maker = r /\ proc[r].pc \in {"poll", "cleanup"} =>
                 p.terminating \/ p.leaked \/ q.pc \in {"poll", "cleanup"}
        PROVE  PodHonest(p)'
    <3>1. PodHonest(o) /\ o.maker \in Replicas
      BY <1>1 DEF ProbeIndInv, ProbeShape, Pods
    <3> QED BY <1>2, <2>2, <3>1 DEF PodHonest
  <2> QED BY <2>1, <2>2 DEF PodFollows
<1>6. RecordIsSomeones'
  <2> SUFFICES ASSUME record.rv > 0 PROVE \E s \in Replicas : Settles(proc[s])'
    BY DEF RecordIsSomeones
  <2>1. PICK s \in Replicas : Settles(proc[s])
    BY DEF ProbeIndInv, RecordIsSomeones
  <2>2. Settles(proc[s])'
    <3>1. CASE s = r
      <4>1. Settles(q)
        BY <2>1, <3>1
      <4> QED BY <1>2, <3>1, <4>1 DEF Settles
    <3>2. CASE s # r
      BY <1>2, <2>1, <3>2 DEF Settles
    <3> QED BY <3>1, <3>2
  <2> QED BY <2>2
<1> QED BY <1>3, <1>4, <1>5, <1>6 DEF ProbeIndInv

\* A step that does not touch the pod.
LEMMA ProcessOnly ==
  ASSUME ProbeIndInv, NEW r \in Replicas, NEW q \in Procs, Set(r, q),
         UNCHANGED <<flags, version, pod, record>>,
         proc[r].pc \in {"poll", "cleanup"} => q.pc \in {"poll", "cleanup"},
         Healthy(q), Settles(proc[r]) => Settles(q)
  PROVE  ProbeIndInv'
<1>1. pod' \subseteq Pods /\ \A p, o \in pod' : p = o
  BY DEF ProbeIndInv, ProbeShape
<1>2. \A p \in pod' : PodFollows(p, r, q)
  BY DEF PodFollows
<1>3. Healthy(q)'
  BY DEF Healthy
<1> QED BY <1>1, <1>2, <1>3, ProcessMove

\* A process that is off, or that only just starts.
Blank(q) ==
  /\ q \in Procs /\ q.pc \in {"off", "exited", "boot"} /\ q.born <= version
  /\ q.effective = "none" /\ q.seen = 0 /\ q.wrote = "no"

\* The record of a process that is off, and of one that starts, is blank.
LEMMA BlankFacts ==
  ASSUME ProbeIndInv
  PROVE  /\ Blank(Off) /\ Off.pc = "off"
         /\ Blank([Off EXCEPT !.pc = "exited"])
         /\ Blank([Off EXCEPT !.pc = "boot", !.born = version])
         /\ \A q : Blank(q) => Healthy(q) /\ Settles(q)
<1>1. version \in 1..2 /\ record.rv \in Nat
  BY DEF ProbeIndInv, ProbeShape
<1>2. Off \in Procs /\ Off.pc = "off" /\ Off.born = 1 /\ Off.effective = "none" /\ Off.seen = 0
      /\ Off.wrote = "no"
  BY DEF Off, Procs, Pcs, Effectives
<1>3. Blank(Off)
  BY <1>1, <1>2 DEF Blank
<1>4. Blank([Off EXCEPT !.pc = "exited"])
  <2> DEFINE q == [Off EXCEPT !.pc = "exited"]
  <2>1. q \in Procs /\ q.pc = "exited" /\ q.born = Off.born /\ q.effective = Off.effective
        /\ q.seen = Off.seen /\ q.wrote = Off.wrote
    BY <1>2 DEF Procs, Pcs
  <2> HIDE DEF q
  <2>2. Blank(q)
    BY <1>1, <1>2, <2>1 DEF Blank
  <2> QED BY <2>2 DEF q
<1>5. Blank([Off EXCEPT !.pc = "boot", !.born = version])
  <2> DEFINE q == [Off EXCEPT !.pc = "boot", !.born = version]
  <2>1. q \in Procs /\ q.pc = "boot" /\ q.born = version /\ q.effective = Off.effective
        /\ q.seen = Off.seen /\ q.wrote = Off.wrote
    BY <1>1, <1>2 DEF Procs, Pcs
  <2> HIDE DEF q
  <2>2. Blank(q)
    BY <1>1, <1>2, <2>1 DEF Blank
  <2> QED BY <2>2 DEF q
<1>6. \A q : Blank(q) => Healthy(q) /\ Settles(q)
  BY <1>1 DEF Blank, Healthy, Settles, Pcs, Effectives
<1> QED BY <1>2, <1>3, <1>4, <1>5, <1>6

\* A pod whose deletion was asked for, and one that is lost sight of.
LEMMA PodChanges ==
  ASSUME ProbeShape, NEW r \in Replicas
  PROVE  /\ Terminate(pod) \subseteq Pods /\ \A p, o \in Terminate(pod) : p = o
         /\ \A p \in Terminate(pod) : \E o \in pod :
              /\ p.version = o.version /\ p.phase = o.phase /\ p.maker = o.maker
              /\ (o.leaked => p.leaked) /\ p.terminating
         /\ Abandon(r) \subseteq Pods /\ \A p, o \in Abandon(r) : p = o
         /\ \A p \in Abandon(r) : \E o \in pod :
              /\ p.version = o.version /\ p.phase = o.phase /\ p.maker = o.maker
              /\ (o.terminating => p.terminating) /\ (o.leaked \/ o.maker = r => p.leaked)
<1>1. \A o \in pod : o \in Pods
  BY DEF ProbeShape
<1>2. ASSUME NEW o \in pod, NEW p, p = [o EXCEPT !.terminating = TRUE]
      PROVE  /\ p \in Pods /\ p.version = o.version /\ p.phase = o.phase /\ p.maker = o.maker
             /\ (o.leaked => p.leaked) /\ p.terminating
  <2>1. o \in Pods
    BY <1>1
  <2> QED BY <1>2, <2>1 DEF Pods
<1>3. ASSUME NEW o \in pod, NEW p, p = [o EXCEPT !.leaked = @ \/ o.maker = r]
      PROVE  /\ p \in Pods /\ p.version = o.version /\ p.phase = o.phase /\ p.maker = o.maker
             /\ (o.terminating => p.terminating) /\ (o.leaked \/ o.maker = r => p.leaked)
  <2> DEFINE l == o.leaked \/ o.maker = r
  <2>1. o \in Pods /\ l \in BOOLEAN /\ p = [o EXCEPT !.leaked = l]
    BY <1>1, <1>3
  <2> HIDE DEF l
  <2>2. /\ p \in Pods /\ p.version = o.version /\ p.phase = o.phase /\ p.maker = o.maker
        /\ p.terminating = o.terminating /\ p.leaked = l
    BY <2>1 DEF Pods
  <2> QED BY <2>2 DEF l
<1>4. \A p, o \in Terminate(pod) : p = o
  BY DEF Terminate, ProbeShape
<1>5. \A p, o \in Abandon(r) : p = o
  BY DEF Abandon, ProbeShape
<1>6. \A p \in Terminate(pod) : \E o \in pod : p = [o EXCEPT !.terminating = TRUE]
  BY DEF Terminate
<1>7. \A p \in Abandon(r) : \E o \in pod : p = [o EXCEPT !.leaked = @ \/ o.maker = r]
  BY DEF Abandon
<1>8. Terminate(pod) \subseteq Pods /\ Abandon(r) \subseteq Pods
  BY <1>2, <1>3, <1>6, <1>7
<1>9. \A p \in Terminate(pod) : \E o \in pod :
              /\ p.version = o.version /\ p.phase = o.phase /\ p.maker = o.maker
              /\ (o.leaked => p.leaked) /\ p.terminating
  BY <1>2, <1>6
<1>10. \A p \in Abandon(r) : \E o \in pod :
              /\ p.version = o.version /\ p.phase = o.phase /\ p.maker = o.maker
              /\ (o.terminating => p.terminating) /\ (o.leaked \/ o.maker = r => p.leaked)
  BY <1>3, <1>7
<1> QED BY <1>4, <1>5, <1>8, <1>9, <1>10

\* The process starts, exits, or is killed.
LEMMA LifeInv ==
  ASSUME ProbeIndInv, NEW r \in Replicas, NEW q, Blank(q), Set(r, q),
         UNCHANGED <<flags, version, record>>,
         \/ pod' = pod /\ proc[r].pc \notin {"poll", "cleanup"}
         \/ pod' = Abandon(r)
  PROVE  ProbeIndInv'
<1>1. ProbeShape /\ q \in Procs /\ q.pc \in {"off", "exited", "boot"}
  BY DEF ProbeIndInv, Blank
<1>2. Healthy(q) /\ Settles(q)
  BY BlankFacts
<1>3. Healthy(q)'
  BY <1>1, <1>2 DEF Healthy
<1>4. CASE pod' = pod /\ proc[r].pc \notin {"poll", "cleanup"}
  BY <1>1, <1>2, <1>4, ProcessOnly
<1>5. CASE pod' = Abandon(r)
  <2>1. \A p \in pod' : PodFollows(p, r, q)
    BY <1>1, <1>5, PodChanges DEF PodFollows
  <2> QED BY <1>1, <1>2, <1>3, <1>5, <2>1, PodChanges, ProcessMove
<1> QED BY <1>4, <1>5

\* StartProcess, Crash, Boot and Resolve.
LEMMA StartInv ==
  ASSUME ProbeIndInv, NEW r \in Replicas,
         StartProcess(r) \/ Crash(r) \/ Boot(r) \/ Resolve(r) \/ Setup(r)
  PROVE  ProbeIndInv'
<1>1. ProbeShape /\ proc[r] \in Procs /\ Healthy(proc[r])
  BY DeploymentFacts DEF ProbeIndInv
<1>2. CASE StartProcess(r) \/ Crash(r)
  <2>1. \E q : Blank(q) /\ Set(r, q)
    BY <1>2, BlankFacts DEF StartProcess, Crash
  <2> QED BY <1>2, <2>1, LifeInv DEF StartProcess, Crash
<1>3. ASSUME Exit(r), proc[r].pc \in {"boot", "resolve", "setup"},
             UNCHANGED <<flags, version, pod, record>>
      PROVE  ProbeIndInv'
  BY <1>3, BlankFacts, LifeInv DEF Exit
<1>4. ASSUME NEW q, q \in Procs, Set(r, q), UNCHANGED <<flags, version, pod, record>>,
             /\ q.born = proc[r].born /\ q.earned = proc[r].earned /\ q.seen = proc[r].seen
             /\ q.wrote = proc[r].wrote,
             \/ proc[r].pc = "boot" /\ q.pc = "resolve" /\ q.effective = proc[r].effective
             \/ proc[r].pc = "setup" /\ q.pc = "running" /\ q.effective = proc[r].effective
             \/ /\ proc[r].pc = "resolve" /\ q.pc = "publish"
                /\ q.effective \in Effectives /\ flags.mode # "auto"
             \/ proc[r].pc = "resolve" /\ q.pc = "delete" /\ q.effective = proc[r].effective
      PROVE  ProbeIndInv'
  <2>1. Healthy(q)
    BY <1>1, <1>4 DEF Healthy
  <2>2. Settles(proc[r]) => Settles(q)
    BY <1>1, <1>4 DEF Settles, Pcs
  <2> QED BY <1>4, <2>1, <2>2, ProcessOnly
<1>5. CASE Boot(r)
  <2>1. proc[r].pc = "boot" /\ UNCHANGED <<flags, version, pod, record>>
        /\ (Exit(r) \/ Set(r, [proc[r] EXCEPT !.pc = "resolve"]))
    BY <1>5 DEF Boot
  <2> DEFINE q == [proc[r] EXCEPT !.pc = "resolve"]
  <2>2. /\ q \in Procs /\ q.pc = "resolve" /\ q.born = proc[r].born /\ q.earned = proc[r].earned
        /\ q.seen = proc[r].seen /\ q.wrote = proc[r].wrote /\ q.effective = proc[r].effective
    BY <1>1 DEF Procs, Pcs
  <2> HIDE DEF q
  <2>3. Exit(r) \/ Set(r, q)
    BY <2>1 DEF q
  <2> QED BY <1>3, <1>4, <2>1, <2>2, <2>3
<1>6. CASE Setup(r)
  <2>1. proc[r].pc = "setup" /\ UNCHANGED <<flags, version, pod, record>>
        /\ (Exit(r) \/ Set(r, [proc[r] EXCEPT !.pc = "running"]))
    BY <1>6 DEF Setup
  <2> DEFINE q == [proc[r] EXCEPT !.pc = "running"]
  <2>2. /\ q \in Procs /\ q.pc = "running" /\ q.born = proc[r].born /\ q.earned = proc[r].earned
        /\ q.seen = proc[r].seen /\ q.wrote = proc[r].wrote /\ q.effective = proc[r].effective
    BY <1>1 DEF Procs, Pcs
  <2> HIDE DEF q
  <2>3. Exit(r) \/ Set(r, q)
    BY <2>1 DEF q
  <2> QED BY <1>3, <1>4, <2>1, <2>2, <2>3
<1>7. CASE Resolve(r)
  <2>1. proc[r].pc = "resolve" /\ UNCHANGED <<flags, version, pod, record>>
    BY <1>7 DEF Resolve
  <2>2. CASE flags.mode \in Effectives
    <3> DEFINE q == [proc[r] EXCEPT !.pc = "publish", !.effective = flags.mode]
    <3>1. Set(r, q)
      BY <1>7, <2>2 DEF Resolve, Effectives
    <3>2. /\ q \in Procs /\ q.pc = "publish" /\ q.born = proc[r].born /\ q.earned = proc[r].earned
          /\ q.seen = proc[r].seen /\ q.wrote = proc[r].wrote /\ q.effective = flags.mode
      BY <1>1, <2>2 DEF Procs, Pcs
    <3>3. flags.mode # "auto"
      BY <2>2 DEF Effectives
    <3> HIDE DEF q
    <3> QED BY <1>4, <2>1, <2>2, <3>1, <3>2, <3>3
  <2>3. CASE flags.mode = "auto"
    <3> DEFINE q == [proc[r] EXCEPT !.pc = "delete"]
    <3>1. Set(r, q)
      BY <1>7, <2>3 DEF Resolve
    <3>2. /\ q \in Procs /\ q.pc = "delete" /\ q.born = proc[r].born /\ q.earned = proc[r].earned
          /\ q.seen = proc[r].seen /\ q.wrote = proc[r].wrote /\ q.effective = proc[r].effective
      BY <1>1 DEF Procs, Pcs
    <3> HIDE DEF q
    <3> QED BY <1>4, <2>1, <3>1, <3>2
  <2>4. CASE flags.mode \notin Effectives /\ flags.mode # "auto"
    <3>1. Exit(r)
      BY <1>7, <2>4 DEF Resolve, Effectives
    <3> QED BY <1>3, <2>1, <3>1
  <2> QED BY <2>2, <2>3, <2>4
<1> QED BY <1>2, <1>5, <1>6, <1>7

\* A process that moves on with what it has.
LEMMA MovedFacts ==
  ASSUME ProbeIndInv, NEW r \in Replicas, NEW next \in Pcs, NEW q, q = [proc[r] EXCEPT !.pc = next]
  PROVE  /\ q \in Procs /\ q.pc = next /\ q.effective = proc[r].effective
         /\ q.born = proc[r].born /\ q.seen = proc[r].seen /\ q.wrote = proc[r].wrote
         /\ q.earned = proc[r].earned
<1>1. proc[r] \in Procs
  BY DeploymentFacts
<1> QED BY <1>1 DEF Procs

\* A process that found image volumes not supported.
LEMMA UnsupportedFacts ==
  ASSUME ProbeIndInv, NEW r \in Replicas, NEW next \in Pcs, NEW q, q = Unsupported(r, next)
  PROVE  /\ q \in Procs /\ q.pc = next /\ q.effective = "initContainer"
         /\ q.born = proc[r].born /\ q.seen = proc[r].seen /\ q.wrote = proc[r].wrote
         /\ q.earned = proc[r].earned
<1>1. proc[r] \in Procs /\ "initContainer" \in Effectives \cup {"none"}
  BY DeploymentFacts DEF Effectives
<1> QED BY <1>1 DEF Procs, Unsupported

\* The probe ends with "not supported": nothing more is claimed.
LEMMA UnsupportedInv ==
  ASSUME ProbeIndInv, NEW r \in Replicas, NEW next \in {"publish", "cleanup"},
         Set(r, Unsupported(r, next)), UNCHANGED <<flags, version, pod, record>>,
         proc[r].pc \in {"delete", "gone", "create", "poll"},
         proc[r].pc = "poll" <=> next = "cleanup"
  PROVE  ProbeIndInv'
<1>0. PICK q : q = Unsupported(r, next)
  OBVIOUS
<1>1. /\ q \in Procs /\ q.pc = next /\ q.effective = "initContainer"
      /\ q.born = proc[r].born /\ q.seen = proc[r].seen /\ q.wrote = proc[r].wrote
  BY <1>0, UnsupportedFacts DEF Pcs
<1>2. Healthy(proc[r]) /\ Set(r, q)
  BY <1>0, DeploymentFacts
<1>3. Healthy(q)
  BY <1>1, <1>2 DEF Healthy, Effectives
<1>4. Settles(q)
  BY <1>1 DEF Settles, Pcs
<1> QED BY <1>1, <1>2, <1>3, <1>4, ProcessOnly

\* The old pod is deleted, and the name awaited.
LEMMA DeleteInv ==
  ASSUME ProbeIndInv, NEW r \in Replicas, Expire(r) \/ DeleteOld(r) \/ AwaitGone(r)
  PROVE  ProbeIndInv'
<1>1. ProbeShape /\ proc[r] \in Procs /\ Healthy(proc[r])
  BY DeploymentFacts DEF ProbeIndInv
<1>2. CASE Expire(r)
  <2> DEFINE q == [proc[r] EXCEPT !.expired = TRUE]
  <2>1. /\ q \in Procs /\ q.pc = proc[r].pc /\ q.effective = proc[r].effective
        /\ q.born = proc[r].born /\ q.seen = proc[r].seen /\ q.wrote = proc[r].wrote
        /\ q.earned = proc[r].earned
    BY <1>1 DEF Procs
  <2>2. Set(r, q) /\ UNCHANGED <<flags, version, pod, record>>
    BY <1>2 DEF Expire
  <2> HIDE DEF q
  <2>3. Healthy(q) /\ (Settles(proc[r]) => Settles(q))
    BY <1>1, <2>1 DEF Healthy, Settles
  <2> QED BY <2>1, <2>2, <2>3, ProcessOnly
<1>3. ASSUME proc[r].pc \in {"delete", "gone"}, pod = {},
             Set(r, [proc[r] EXCEPT !.pc = "create"]), UNCHANGED <<flags, version, pod, record>>
      PROVE  ProbeIndInv'
  <2>0. PICK q : q = [proc[r] EXCEPT !.pc = "create"]
    OBVIOUS
  <2>1. /\ q \in Procs /\ q.pc = "create" /\ q.effective = proc[r].effective
        /\ q.born = proc[r].born /\ q.seen = proc[r].seen /\ q.wrote = proc[r].wrote
        /\ q.earned = proc[r].earned
    BY <2>0, MovedFacts DEF Pcs
  <2>2. Set(r, q)
    BY <1>3, <2>0
  <2>3. Healthy(q) /\ Settles(q)
    BY <1>1, <1>3, <2>1 DEF Healthy, Settles, Pcs
  <2> QED BY <1>3, <2>1, <2>2, <2>3, ProcessOnly
<1>4. CASE DeleteOld(r)
  <2>1. proc[r].pc = "delete" /\ UNCHANGED <<flags, version, record>>
    BY <1>4 DEF DeleteOld
  <2>2. CASE Set(r, Unsupported(r, "publish")) /\ UNCHANGED pod
    BY <2>1, <2>2, UnsupportedInv
  <2>3. CASE /\ Set(r, [proc[r] EXCEPT !.pc = IF pod = {} THEN "create" ELSE "gone"])
             /\ pod' = Terminate(pod)
    <3>1. CASE pod = {}
      <4>1. pod' = pod
        BY <2>3, <3>1 DEF Terminate
      <4> QED BY <1>3, <2>1, <2>3, <3>1, <4>1
    <3>2. CASE pod # {}
      <4>0. PICK q : q = [proc[r] EXCEPT !.pc = "gone"]
        OBVIOUS
      <4>1. /\ q \in Procs /\ q.pc = "gone" /\ q.effective = proc[r].effective
            /\ q.born = proc[r].born /\ q.seen = proc[r].seen /\ q.wrote = proc[r].wrote
            /\ q.earned = proc[r].earned
        BY <4>0, MovedFacts DEF Pcs
      <4>2. Set(r, q)
        BY <2>3, <3>2, <4>0
      <4>3. Healthy(q)' /\ Settles(q)
        BY <1>1, <2>1, <4>1 DEF Healthy, Settles, Pcs
      <4>4. \A p \in pod' : PodFollows(p, r, q)
        BY <1>1, <2>3, PodChanges DEF PodFollows
      <4> QED BY <1>1, <2>1, <2>3, <4>1, <4>2, <4>3, <4>4, PodChanges, ProcessMove
    <3> QED BY <3>1, <3>2
  <2> QED BY <1>4, <2>2, <2>3 DEF DeleteOld
<1>5. CASE AwaitGone(r)
  <2>1. proc[r].pc = "gone" /\ UNCHANGED <<flags, version, pod, record>>
    BY <1>5 DEF AwaitGone
  <2>2. CASE Set(r, Unsupported(r, "publish"))
    BY <2>1, <2>2, UnsupportedInv
  <2>3. CASE pod = {} /\ Set(r, [proc[r] EXCEPT !.pc = "create"])
    BY <1>3, <2>1, <2>3
  <2> QED BY <1>5, <2>2, <2>3 DEF AwaitGone
<1> QED BY <1>2, <1>4, <1>5

\* The probe pod is created.
LEMMA CreateInv ==
  ASSUME ProbeIndInv, NEW r \in Replicas, CreateProbe(r)
  PROVE  ProbeIndInv'
<1>1. ProbeShape /\ proc[r] \in Procs /\ Healthy(proc[r])
  BY DeploymentFacts DEF ProbeIndInv
<1>2. proc[r].pc = "create" /\ UNCHANGED <<flags, version, record>>
  BY DEF CreateProbe
<1>3. CASE Set(r, Unsupported(r, "publish")) /\ UNCHANGED pod
  BY <1>2, <1>3, UnsupportedInv
<1>4. ASSUME NEW lost \in BOOLEAN, NEW q \in Procs, Set(r, q), pod' = {NewPod(r, lost)},
             q.pc \in {"poll", "cleanup"} \/ (lost /\ q.pc = "publish"),
             q.pc # "poll" => q.effective = "initContainer",
             q.effective \in {"initContainer", proc[r].effective} /\ q.earned = proc[r].earned,
             q.born = proc[r].born /\ q.seen = proc[r].seen /\ q.wrote = proc[r].wrote
      PROVE  ProbeIndInv'
  <2>1. PICK p : p = NewPod(r, lost) /\ pod' = {p}
    BY <1>4
  <2>2. p \in Pods /\ p.version = version /\ p.phase = "Pending" /\ p.maker = r /\ p.leaked = lost
    BY <1>1, <2>1 DEF NewPod, Pods, ProbeShape
  <2>3. PodFollows(p, r, q)
    BY <1>4, <2>2 DEF PodFollows
  <2>4. proc[r].born <= version /\ proc[r].born \in 1..2 /\ version \in 1..2
    BY <1>1 DEF Healthy, Procs, ProbeShape
  <2>5. Healthy(q)'
    BY <1>1, <1>2, <1>4, <2>1, <2>2, <2>4 DEF Healthy, Effectives
  <2>6. Settles(q)
    BY <1>4 DEF Settles, Pcs
  <2> QED BY <1>2, <1>4, <2>1, <2>2, <2>3, <2>5, <2>6, ProcessMove
<1>5. CASE pod' = {NewPod(r, TRUE)} /\ Set(r, Unsupported(r, "publish"))
  <2>1. PICK q : q = Unsupported(r, "publish")
    OBVIOUS
  <2>2. /\ q \in Procs /\ q.pc = "publish" /\ q.effective = "initContainer"
        /\ q.born = proc[r].born /\ q.seen = proc[r].seen /\ q.wrote = proc[r].wrote
        /\ q.earned = proc[r].earned
    BY <2>1, UnsupportedFacts DEF Pcs
  <2> QED BY <1>4, <1>5, <2>1, <2>2
<1>6. CASE pod' = {NewPod(r, FALSE)} /\ Set(r, AfterCreate(r))
  <2>1. CASE flags.cluster[version] = "strips"
    <3>1. PICK q : q = Unsupported(r, "cleanup") /\ Set(r, q)
      BY <1>6, <2>1 DEF AfterCreate
    <3>2. /\ q \in Procs /\ q.pc = "cleanup" /\ q.effective = "initContainer"
          /\ q.born = proc[r].born /\ q.seen = proc[r].seen /\ q.wrote = proc[r].wrote
          /\ q.earned = proc[r].earned
      BY <3>1, UnsupportedFacts DEF Pcs
    <3> QED BY <1>4, <1>6, <3>1, <3>2
  <2>2. CASE flags.cluster[version] # "strips"
    <3>1. PICK q \in Procs : /\ Set(r, q) /\ q.pc = "poll" /\ q.effective = proc[r].effective
                             /\ q.born = proc[r].born /\ q.seen = proc[r].seen
                             /\ q.wrote = proc[r].wrote /\ q.earned = proc[r].earned
      BY <1>1, <1>6, <2>2 DEF AfterCreate, Procs, Pcs
    <3> QED BY <1>4, <1>6, <3>1
  <2> QED BY <2>1, <2>2
<1> QED BY <1>3, <1>5, <1>6 DEF CreateProbe

\* The pod is polled, and deleted in the end.
LEMMA PollInv ==
  ASSUME ProbeIndInv, NEW r \in Replicas, PollProbe(r) \/ Cleanup(r)
  PROVE  ProbeIndInv'
<1>1. ProbeShape /\ proc[r] \in Procs /\ Healthy(proc[r])
  BY DeploymentFacts DEF ProbeIndInv
<1>2. CASE PollProbe(r)
  <2>1. proc[r].pc = "poll" /\ UNCHANGED <<flags, version, pod, record>>
    BY <1>2 DEF PollProbe
  <2>2. CASE Set(r, Unsupported(r, "cleanup"))
    BY <2>1, <2>2, UnsupportedInv
  <2>3. CASE \E p \in pod : p.phase = "Succeeded" /\ Set(r, Supported(r, p))
    <3>1. PICK p \in pod : p.phase = "Succeeded" /\ Set(r, Supported(r, p))
      BY <2>3
    <3>2. p.version \in 1..2 /\ p.version >= proc[r].born /\ flags.cluster[p.version] = "works"
      BY <1>1, <2>1, <3>1 DEF ProbeShape, Pods, Healthy, ProbeIndInv, PodHonest
    <3>0. PICK q : q = Supported(r, p)
      OBVIOUS
    <3>3. /\ q \in Procs /\ q.pc = "cleanup" /\ q.effective = "imageVolume"
          /\ q.earned = p.version /\ q.born = proc[r].born /\ q.seen = proc[r].seen
          /\ q.wrote = proc[r].wrote
      <4>1. p.version \in 0..2 /\ "imageVolume" \in Effectives \cup {"none"} /\ "cleanup" \in Pcs
        BY <3>2 DEF Effectives, Pcs
      <4> QED BY <1>1, <3>0, <4>1 DEF Supported, Procs
    <3>4. Set(r, q)
      BY <3>0, <3>1
    <3>5. Healthy(q) /\ Settles(q)
      BY <1>1, <2>1, <3>2, <3>3 DEF Healthy, Settles, Effectives, Pcs
    <3> QED BY <2>1, <3>3, <3>4, <3>5, ProcessOnly
  <2> QED BY <1>2, <2>2, <2>3 DEF PollProbe
<1>3. CASE Cleanup(r)
  <2>0. PICK q : q = [proc[r] EXCEPT !.pc = "publish"]
    OBVIOUS
  <2>1. proc[r].pc = "cleanup" /\ UNCHANGED <<flags, version, record>> /\ Set(r, q)
        /\ (pod' = Abandon(r) \/ pod' = Terminate(pod))
    BY <1>3, <2>0 DEF Cleanup
  <2>2. /\ q \in Procs /\ q.pc = "publish" /\ q.effective = proc[r].effective
        /\ q.born = proc[r].born /\ q.seen = proc[r].seen /\ q.wrote = proc[r].wrote
        /\ q.earned = proc[r].earned
    BY <2>0, MovedFacts DEF Pcs
  <2>3. Healthy(q)' /\ Settles(q)
    BY <1>1, <2>1, <2>2 DEF Healthy, Settles, Pcs
  <2>4. \A p \in pod' : PodFollows(p, r, q)
    BY <1>1, <2>1, PodChanges DEF PodFollows
  <2> QED BY <1>1, <2>1, <2>2, <2>3, <2>4, PodChanges, ProcessMove
<1> QED BY <1>2, <1>3

\* Publish reads the record.
LEMMA PublishGetInv ==
  ASSUME ProbeIndInv, NEW r \in Replicas, PublishGet(r)
  PROVE  ProbeIndInv'
<1>1. ProbeShape /\ proc[r] \in Procs /\ Healthy(proc[r]) /\ record.rv \in Nat
  BY DeploymentFacts DEF ProbeIndInv, ProbeShape
<1>2. proc[r].pc = "publish" /\ UNCHANGED <<flags, version, pod, record>>
  BY DEF PublishGet
<1>3. CASE Set(r, [proc[r] EXCEPT !.pc = "setup", !.wrote = "failed"])
  <2>1. PICK q : q = [proc[r] EXCEPT !.pc = "setup", !.wrote = "failed"] /\ Set(r, q)
    BY <1>3
  <2>2. /\ q \in Procs /\ q.pc = "setup" /\ q.wrote = "failed" /\ q.effective = proc[r].effective
        /\ q.born = proc[r].born /\ q.seen = proc[r].seen /\ q.earned = proc[r].earned
    BY <1>1, <2>1 DEF Procs, Pcs
  <2>3. Healthy(q) /\ Settles(q)
    BY <1>1, <1>2, <2>2 DEF Healthy, Settles
  <2> QED BY <1>2, <2>1, <2>2, <2>3, ProcessOnly
<1>4. CASE Set(r, [proc[r] EXCEPT !.pc = "write", !.seen = record.rv, !.tries = @ + 1])
  <2>1. PICK q : q = [proc[r] EXCEPT !.pc = "write", !.seen = record.rv, !.tries = @ + 1] /\ Set(r, q)
    BY <1>4
  <2>2. /\ q \in Procs /\ q.pc = "write" /\ q.seen = record.rv /\ q.effective = proc[r].effective
        /\ q.born = proc[r].born /\ q.wrote = proc[r].wrote /\ q.earned = proc[r].earned
    <3>1. PICK v \in Nat, t \in Nat : v = record.rv /\ t = proc[r].tries + 1
      BY <1>1 DEF Procs
    <3>2. q = [proc[r] EXCEPT !.pc = "write", !.seen = v, !.tries = t]
      BY <2>1, <3>1
    <3>3. /\ q \in Procs /\ q.pc = "write" /\ q.seen = v /\ q.effective = proc[r].effective
          /\ q.born = proc[r].born /\ q.wrote = proc[r].wrote /\ q.earned = proc[r].earned
      BY <1>1, <3>2 DEF Procs, Pcs
    <3> QED BY <3>1, <3>3
  <2>3. Healthy(q) /\ Settles(q)
    BY <1>1, <1>2, <2>2 DEF Healthy, Settles
  <2> QED BY <1>2, <2>1, <2>2, <2>3, ProcessOnly
<1> QED BY <1>3, <1>4 DEF PublishGet

\* The write: it succeeds, meets a conflict, or fails.
LEMMA PublishWriteInv ==
  ASSUME ProbeIndInv, NEW r \in Replicas, PublishWrite(r)
  PROVE  ProbeIndInv'
<1>1. /\ ProbeShape /\ proc[r] \in Procs /\ Healthy(proc[r]) /\ record.rv \in Nat
      /\ proc[r].seen \in Nat /\ proc \in [Replicas -> Procs] /\ proc[r].effective \in Effectives
  BY DeploymentFacts DEF ProbeIndInv, ProbeShape, Procs, PublishWrite, Healthy
<1>2. proc[r].pc = "write" /\ UNCHANGED <<flags, version, pod>>
  BY DEF PublishWrite
<1>3. CASE record' = record
  <2>1. CASE Set(r, [proc[r] EXCEPT !.pc = "publish"])
    <3>1. PICK q : q = [proc[r] EXCEPT !.pc = "publish"] /\ Set(r, q)
      BY <2>1
    <3>2. /\ q \in Procs /\ q.pc = "publish" /\ q.effective = proc[r].effective
          /\ q.born = proc[r].born /\ q.seen = proc[r].seen /\ q.wrote = proc[r].wrote
          /\ q.earned = proc[r].earned
      BY <3>1, MovedFacts DEF Pcs
    <3>3. Healthy(q) /\ Settles(q)
      BY <1>1, <1>2, <3>2 DEF Healthy, Settles, Pcs
    <3> QED BY <1>2, <1>3, <3>1, <3>2, <3>3, ProcessOnly
  <2>2. ASSUME NEW w \in {"lost", "failed"}, Set(r, [proc[r] EXCEPT !.pc = "setup", !.wrote = w]),
               w = "lost" => proc[r].seen # record.rv
        PROVE  ProbeIndInv'
    <3>1. PICK q : q = [proc[r] EXCEPT !.pc = "setup", !.wrote = w] /\ Set(r, q)
      BY <2>2
    <3>2. /\ q \in Procs /\ q.pc = "setup" /\ q.wrote = w /\ q.effective = proc[r].effective
          /\ q.born = proc[r].born /\ q.seen = proc[r].seen /\ q.earned = proc[r].earned
      <4>1. w \in {"yes", "lost", "failed"}
        BY <2>2
      <4>2. q = [proc[r] EXCEPT !.pc = "setup", !.wrote = w]
        BY <3>1
      <4> QED BY <1>1, <4>1, <4>2 DEF Procs, Pcs
    <3>3. w = "lost" => record.rv > 0
      BY <1>1, <2>2 DEF Healthy
    <3>4. Healthy(q)
      BY <1>1, <1>2, <3>2, <3>3 DEF Healthy
    <3>5. Settles(proc[r]) => Settles(q)
      BY <1>1, <1>2, <2>2, <3>2 DEF Settles, Healthy, Pcs
    <3> QED BY <1>2, <1>3, <3>1, <3>2, <3>4, <3>5, ProcessOnly
  <2>3. CASE proc[r].seen # record.rv
    BY <1>3, <2>1, <2>2, <2>3 DEF PublishWrite
  <2>4. CASE proc[r].seen = record.rv
    <3>1. ~(record'.rv = record.rv + 1)
      BY <1>1, <1>3
    <3>2. Set(r, [proc[r] EXCEPT !.pc = "setup", !.wrote = "failed"])
      BY <2>4, <3>1 DEF PublishWrite
    <3> QED BY <2>2, <3>2
  <2> QED BY <2>3, <2>4
<1>4. CASE record' # record
  <2>1. PICK q : q = [proc[r] EXCEPT !.pc = "setup", !.wrote = "yes"] /\ Set(r, q)
    BY <1>4 DEF PublishWrite
  <2>2. /\ q \in Procs /\ q.pc = "setup" /\ q.wrote = "yes" /\ q.effective = proc[r].effective
        /\ q.born = proc[r].born /\ q.seen = proc[r].seen /\ q.earned = proc[r].earned
    <3>1. q = [proc[r] EXCEPT !.pc = "setup", !.wrote = "yes"]
      BY <2>1
    <3> QED BY <1>1, <3>1 DEF Procs, Pcs
  <2>3. record'.rv = record.rv + 1 /\ record'.mode = proc[r].effective /\ record'.rv \in Nat
    BY <1>1, <1>4 DEF PublishWrite
  <2>4. proc' \in [Replicas -> Procs] /\ proc'[r] = q /\ \A s \in Replicas : s # r => proc'[s] = proc[s]
    BY <1>1, <2>1, <2>2 DEF Set
  <2>5. ProbeShape'
    BY <1>1, <1>2, <2>3, <2>4 DEF ProbeShape
  <2>6. ASSUME NEW s \in Replicas PROVE Healthy(proc[s])'
    <3>1. proc[s] \in Procs /\ Healthy(proc[s])
      BY DeploymentFacts
    <3>2. proc[s].seen \in Nat /\ proc[s].seen <= record.rv
      BY <3>1 DEF Procs, Healthy
    <3>3. proc[s].seen <= record'.rv /\ record'.rv > 0
      BY <1>1, <2>3, <3>2
    <3>4. CASE s = r
      BY <1>1, <1>2, <2>2, <2>4, <3>1, <3>3, <3>4 DEF Healthy
    <3>5. CASE s # r
      BY <1>2, <2>4, <3>1, <3>3, <3>5 DEF Healthy
    <3> QED BY <3>4, <3>5
  <2>7. \A p \in pod' : PodHonest(p)'
    <3> SUFFICES ASSUME NEW p \in pod PROVE PodHonest(p)'
      BY <1>2
    <3>1. PodHonest(p) /\ p.maker \in Replicas
      BY <1>1 DEF ProbeIndInv, ProbeShape, Pods
    <3> QED BY <1>2, <2>4, <3>1 DEF PodHonest
  <2>8. Settles(proc[r])'
    BY <2>2, <2>3, <2>4 DEF Settles
  <2> QED BY <2>5, <2>6, <2>7, <2>8 DEF ProbeIndInv, RecordIsSomeones
<1> QED BY <1>3, <1>4

\* The cluster: the pod runs, goes away, or the nodes are upgraded.
LEMMA ClusterInv ==
  ASSUME ProbeIndInv, PodRuns \/ PodGone \/ ClusterUpgrade
  PROVE  ProbeIndInv'
<1>1. ProbeShape /\ UNCHANGED <<flags, record, proc>> /\ version \in 1..2
  BY DEF ProbeIndInv, PodRuns, PodGone, ClusterUpgrade, ProbeShape
<1>2. RecordIsSomeones'
  BY <1>1 DEF ProbeIndInv, RecordIsSomeones, Settles
<1>3. CASE PodRuns
  <2>1. PICK o \in pod :
           /\ o.phase = "Pending" /\ version' = version
           /\ pod' = {[o EXCEPT !.phase =
                         IF flags.cluster[o.version] = "works" THEN "Succeeded" ELSE "Failed"]}
    BY <1>3 DEF PodRuns
  <2> DEFINE f == IF flags.cluster[o.version] = "works" THEN "Succeeded" ELSE "Failed"
  <2>2. f \in {"Succeeded", "Failed"} /\ (f = "Succeeded" => flags.cluster[o.version] = "works")
    OBVIOUS
  <2>3. PICK p : p = [o EXCEPT !.phase = f] /\ pod' = {p}
    BY <2>1
  <2> HIDE DEF f
  <2>4. /\ p \in Pods /\ p.version = o.version /\ p.phase = f /\ p.maker = o.maker
        /\ p.terminating = o.terminating /\ p.leaked = o.leaked
    BY <1>1, <2>2, <2>3 DEF ProbeShape, Pods
  <2>5. PodHonest(o)
    BY DEF ProbeIndInv
  <2>6. PodHonest(p)'
    BY <1>1, <2>1, <2>2, <2>4, <2>5 DEF PodHonest
  <2>7. ASSUME NEW r \in Replicas PROVE Healthy(proc[r])'
    <3>1. Healthy(proc[r])
      BY DEF ProbeIndInv
    <3> QED BY <1>1, <2>1, <2>3, <2>4, <3>1 DEF Healthy
  <2>8. ProbeShape'
    BY <1>1, <2>1, <2>3, <2>4 DEF ProbeShape
  <2> QED BY <1>2, <2>3, <2>6, <2>7, <2>8 DEF ProbeIndInv
<1>4. CASE PodGone
  <2>1. pod' = {} /\ version' = version
    BY <1>4 DEF PodGone
  <2> QED BY <1>1, <1>2, <2>1 DEF ProbeIndInv, ProbeShape, Healthy
<1>5. CASE ClusterUpgrade
  <2>1. version = 1 /\ version' = 2 /\ pod' = pod
    BY <1>5 DEF ClusterUpgrade
  <2>2. ASSUME NEW r \in Replicas PROVE Healthy(proc[r])'
    <3>1. Healthy(proc[r]) /\ proc[r].born \in 1..2
      BY DeploymentFacts DEF Procs
    <3>2. proc[r].born <= 2
      BY <3>1
    <3> QED BY <1>1, <2>1, <3>1, <3>2 DEF Healthy
  <2>3. ASSUME NEW p \in pod PROVE PodHonest(p)'
    <3>1. PodHonest(p) /\ p.version \in 1..2
      BY <1>1 DEF ProbeIndInv, ProbeShape, Pods
    <3>2. p.version <= 2
      BY <3>1
    <3> QED BY <1>1, <2>1, <3>1, <3>2 DEF PodHonest
  <2> QED BY <1>1, <1>2, <2>1, <2>2, <2>3 DEF ProbeIndInv, ProbeShape
<1> QED BY <1>3, <1>4, <1>5

\* The invariant holds at the start ...
LEMMA ProbeStart == ProbeInit => ProbeIndInv
<1> SUFFICES ASSUME ProbeInit PROVE ProbeIndInv
  OBVIOUS
<1>1. /\ flags \in Deployments /\ version = 1 /\ pod = {} /\ record.rv = 0
      /\ proc = [r \in Replicas |-> Off]
  BY DEF ProbeInit
<1>2. Off \in Procs /\ Off.pc = "off" /\ Off.born = 1 /\ Off.effective = "none" /\ Off.seen = 0
      /\ Off.wrote = "no"
  BY DEF Off, Procs, Pcs, Effectives
<1>3. ProbeShape
  BY <1>1, <1>2 DEF ProbeShape
<1>4. \A r \in Replicas : Healthy(proc[r])
  BY <1>1, <1>2 DEF Healthy, Effectives
<1> QED BY <1>1, <1>3, <1>4 DEF ProbeIndInv, RecordIsSomeones

\* ... and is kept.
LEMMA ProbeStep == ProbeIndInv /\ [ProbeNext]_probeVars => ProbeIndInv'
<1> SUFFICES ASSUME ProbeIndInv, [ProbeNext]_probeVars PROVE ProbeIndInv'
  OBVIOUS
<1>1. CASE UNCHANGED probeVars
  BY <1>1 DEF probeVars, ProbeIndInv, ProbeShape, Healthy, PodHonest, RecordIsSomeones, Settles
<1>2. ASSUME NEW r \in Replicas, StartProcess(r) \/ Crash(r) \/ Expire(r) \/ ProcessStep(r)
      PROVE  ProbeIndInv'
  BY <1>2, StartInv, DeleteInv, CreateInv, PollInv, PublishGetInv, PublishWriteInv DEF ProcessStep
<1>3. CASE PodRuns \/ PodGone \/ ClusterUpgrade
  BY <1>3, ClusterInv
<1> QED BY <1>1, <1>2, <1>3 DEF ProbeNext

\* Replicas that race over one pod name decide on the cluster as it has been since they
\* started, lose no pod but by a failure, and publish a mode that one of them uses.
THEOREM ProbesAgree == ProbeSpec => []ProbeInv
<1>1. ProbeIndInv => ProbeInv
  <2> SUFFICES ASSUME ProbeIndInv PROVE ProbeInv
    OBVIOUS
  <2>1. Cardinality(pod) <= 1
    <3>1. CASE pod = {}
      BY <3>1, FS_EmptySet
    <3>2. CASE pod # {}
      <4>0. PICK p \in pod : \A o \in pod : o = p
        BY <3>2 DEF ProbeIndInv, ProbeShape
      <4>1. pod = {p}
        BY <4>0
      <4> QED BY <4>1, FS_Singleton
    <3> QED BY <3>1, <3>2
  <2>2. ProbeTypeOK
    BY <2>1 DEF ProbeTypeOK, ProbeIndInv, ProbeShape, Healthy, Effectives
  <2>3. VerdictIsFresh /\ ProbePodIsCollected
    BY DEF VerdictIsFresh, ProbePodIsCollected, ProbeIndInv, Healthy, PodHonest
  <2>4. RecordIsAModeInUse
    <3> SUFFICES ASSUME \A r \in Replicas : proc[r].pc = "running" /\ proc[r].wrote # "failed"
                 PROVE  \E r \in Replicas : proc[r].effective = record.mode
      BY DEF RecordIsAModeInUse
    <3>1. PICK s \in Replicas : TRUE
      BY ProbeAssumption
    <3>2. proc[s] \in Procs /\ Healthy(proc[s]) /\ proc[s].pc = "running"
      BY DeploymentFacts
    <3>3. record.rv > 0
      BY <3>2 DEF Procs, Healthy
    <3>4. PICK r \in Replicas : Settles(proc[r])
      BY <3>3 DEF ProbeIndInv, RecordIsSomeones
    <3> QED BY <3>4 DEF Settles
  <2> QED BY <2>2, <2>3, <2>4 DEF ProbeInv
<1> QED BY <1>1, ProbeStart, ProbeStep, PTL DEF ProbeSpec


-----------------------------------------------------------------------------
\* The catalogue's controllers.

SpecNames == {"none", "openai", "google", "both", "ref", "good", "bad", "x", "y"}
Verdicts  == {"none", "openai", "google", "invalid", "valid", "NotFound", "NotReady",
              "stored", "failed"}
JobPcs    == {"idle", "status", "finalizer", "store", "unstore", "unfinalize"}
Statuses  == [verdict : Verdicts, gen : Nat]
Stored    == [exists : BOOLEAN, deleting : BOOLEAN, finalizer : BOOLEAN, gen : Nat,
              spec : SpecNames, rv : Nat, born : Nat, status : Statuses]
ConfigMaps == [exists : BOOLEAN, data : {"none", "x", "y", "foreign"}, ours : BOOLEAN, rv : Nat]
JobRecs   == [pc : JobPcs, copy : Stored, verdict : Verdicts, gen : Nat, tries : 0..StatusTries]

CatalogShape ==
  /\ group \subseteq Objects /\ cross \in BOOLEAN
  /\ api \in [Objects -> Stored] /\ cache \in [Objects -> Stored]
  /\ cm \in ConfigMaps /\ cmCache \in ConfigMaps
  /\ jobs \in [Objects -> JobRecs]
  /\ waiting \subseteq group /\ timers \subseteq group
  /\ specAt \in [Objects -> Seq(SpecNames)]
  /\ editsLeft \in Nat /\ faultsLeft \in Nat

\* A copy is of this version only if it is the same.
Behind(x, y) == x.rv <= y.rv /\ (x.rv = y.rv => x = y)

Sane(o, r) == /\ r.exists => r.spec \in SpecsOf(o) /\ r.gen >= 1 /\ r.born >= 1 /\ r.rv >= r.born
              /\ r.deleting => r.finalizer

\* The generations of an object that was not made anew.
History(o) ==
  api[o].exists =>
    /\ Len(specAt[o]) = api[o].gen /\ specAt[o][api[o].gen] = api[o].spec
    /\ api[o].born = 1 =>
         /\ api[o].status.gen <= api[o].gen
         /\ cache[o].exists => cache[o].gen <= api[o].gen /\ cache[o].spec = specAt[o][cache[o].gen]
         /\ jobs[o].pc # "idle" => jobs[o].gen \in 1..api[o].gen
         /\ o = "provider" =>
              /\ api[o].status.gen # 0
                   => api[o].status.verdict = ValidateProvider(specAt[o][api[o].status.gen])
              /\ jobs[o].pc = "status"
                   => jobs[o].verdict = ValidateProvider(specAt[o][jobs[o].gen])

\* The verdicts a controller comes to.
Possible(o) == IF o = "provider" THEN {"openai", "google", "invalid"}
               ELSE IF o = "model" THEN {"openai", "google", "NotFound", "NotReady"}
               ELSE IF o = "tool" THEN {"valid", "invalid"} ELSE {"stored", "failed"}

\* The verdict v is on what the informer has delivered.
Aimed(o, v) == /\ o = "provider" => v = ValidateProvider(cache[o].spec)
               /\ o = "tool" => v = ValidateSpec(cache[o].spec)
               /\ o = "model" /\ ~cross => v = ResolveProvider(cache["provider"])

\* The ConfigMap holds the content the informer has delivered, unless its event is
\* still to come or somebody else owns it.
Kept(o) == o = "instruction" /\ cmCache = cm /\ cm.ours => cm.data = cache[o].spec

\* A reconcile under way, with no event since it began.
Working(o) ==
  jobs[o].pc # "idle" =>
    /\ jobs[o].copy.exists /\ Behind(jobs[o].copy, cache[o]) /\ Sane(o, jobs[o].copy)
    /\ o # "instruction" => jobs[o].pc = "status"
    /\ jobs[o].pc = "status" => jobs[o].verdict \in Possible(o)
    /\ o \notin waiting =>
         /\ jobs[o].copy = cache[o] /\ jobs[o].gen = cache[o].gen
         /\ jobs[o].pc = "status" /\ api[o].exists => Aimed(o, jobs[o].verdict)
         /\ o = "instruction" /\ jobs[o].pc \in {"store", "status"} => ~cache[o].deleting
         /\ jobs[o].pc = "status" /\ jobs[o].verdict = "stored" => Kept(o)

\* No reconcile under way or to come.
Rested(o) ==
  /\ jobs[o].pc = "idle" /\ o \notin waiting /\ o \notin timers
  /\ cache[o] = api[o] /\ api[o].exists
  => /\ api[o].status.gen = api[o].gen
     /\ api[o].status.verdict \in Possible(o) \ {"NotFound", "NotReady", "failed"}
     /\ Aimed(o, api[o].status.verdict)
     /\ o = "instruction" => ~api[o].deleting
     /\ Kept(o)

Grouped(o) == o \notin group => api[o] = Absent /\ cache[o] = Absent /\ jobs[o].pc = "idle"

ObjectInv(o) ==
  /\ Sane(o, api[o]) /\ Sane(o, cache[o]) /\ Behind(cache[o], api[o])
  /\ History(o) /\ Working(o) /\ Rested(o) /\ Grouped(o)

MapInv ==
  /\ Behind(cmCache, cm)
  /\ cm.ours => cm.exists
  /\ cm.exists => cm.data # "none"
  /\ "instruction" \notin group => cm = NoMap /\ cmCache = NoMap

CatalogIndInv == CatalogShape /\ MapInv /\ \A o \in Objects : ObjectInv(o)

-----------------------------------------------------------------------------
\* The fields of what there is of an object, and of its reconcile.
LEMMA ObjectTypes ==
  ASSUME CatalogShape, NEW o \in Objects
  PROVE  /\ api[o] \in Stored /\ cache[o] \in Stored /\ jobs[o] \in JobRecs /\ jobs[o].copy \in Stored
         /\ api[o].rv \in Nat /\ cache[o].rv \in Nat /\ jobs[o].copy.rv \in Nat
         /\ api[o].gen \in Nat /\ cache[o].gen \in Nat /\ jobs[o].gen \in Nat /\ jobs[o].copy.gen \in Nat
         /\ jobs[o].tries \in 0..StatusTries /\ jobs[o].verdict \in Verdicts /\ jobs[o].pc \in JobPcs
         /\ api[o].born \in Nat /\ api[o].status \in Statuses /\ api[o].status.gen \in Nat
         /\ api[o].status.verdict \in Verdicts
         /\ specAt[o] \in Seq(SpecNames) /\ Len(specAt[o]) \in Nat
<1>1. api[o] \in Stored /\ cache[o] \in Stored /\ jobs[o] \in JobRecs /\ specAt[o] \in Seq(SpecNames)
  BY DEF CatalogShape
<1>2. jobs[o].copy \in Stored
  BY <1>1 DEF JobRecs
<1>3. /\ jobs[o].gen \in Nat /\ jobs[o].tries \in 0..StatusTries /\ jobs[o].verdict \in Verdicts
      /\ jobs[o].pc \in JobPcs
  BY <1>1 DEF JobRecs
<1>4. \A r \in Stored : r.rv \in Nat /\ r.gen \in Nat /\ r.born \in Nat /\ r.status \in Statuses
  BY DEF Stored
<1>5. api[o].status.gen \in Nat /\ api[o].status.verdict \in Verdicts
  BY <1>1, <1>4 DEF Statuses
<1>6. Len(specAt[o]) \in Nat
  BY <1>1
<1> QED BY <1>1, <1>2, <1>3, <1>4, <1>5, <1>6

\* What a step leaves alone of an object keeps the object's part of the invariant;
\* it may be queued, or its timer set.
LEMMA ObjectFrame ==
  ASSUME NEW p \in Objects, ObjectInv(p), group' = group, cross' = cross,
         api'[p] = api[p], cache'[p] = cache[p], jobs'[p] = jobs[p], specAt'[p] = specAt[p],
         p \in waiting => p \in waiting', p \in timers => p \in timers',
         p = "model" => cache'["provider"] = cache["provider"],
         p = "instruction" => cm' = cm /\ cmCache' = cmCache
  PROVE  ObjectInv(p)'
<1>1. \A v : Aimed(p, v) => Aimed(p, v)'
  BY DEF Aimed
<1>2. Kept(p) => Kept(p)'
  BY DEF Kept
<1>3. History(p)'
  BY DEF ObjectInv, History
<1>4. Working(p)'
  BY <1>1, <1>2 DEF ObjectInv, Working, Behind, Sane
<1>5. Rested(p)'
  BY <1>1, <1>2 DEF ObjectInv, Rested
<1>6. Grouped(p)'
  BY DEF ObjectInv, Grouped
<1>7. Sane(p, api[p])' /\ Sane(p, cache[p])' /\ Behind(cache[p], api[p])'
  BY DEF ObjectInv, Sane, Behind
<1> QED BY <1>3, <1>4, <1>5, <1>6, <1>7 DEF ObjectInv

\* A step on the object o alone.
LEMMA OneObject ==
  ASSUME CatalogIndInv, NEW o \in Objects, CatalogShape', MapInv', ObjectInv(o)',
         group' = group, cross' = cross,
         \A p \in Objects : p # o =>
           /\ api'[p] = api[p] /\ cache'[p] = cache[p] /\ jobs'[p] = jobs[p] /\ specAt'[p] = specAt[p]
           /\ p \in waiting => p \in waiting'
           /\ p \in timers => p \in timers',
         cache'["provider"] = cache["provider"],
         o = "instruction" \/ (cm' = cm /\ cmCache' = cmCache)
  PROVE  CatalogIndInv'
<1>1. ASSUME NEW p \in Objects, p # o PROVE ObjectInv(p)'
  <2>1. ObjectInv(p)
    BY DEF CatalogIndInv
  <2>2. /\ api'[p] = api[p] /\ cache'[p] = cache[p] /\ jobs'[p] = jobs[p] /\ specAt'[p] = specAt[p]
        /\ p \in waiting => p \in waiting'
        /\ p \in timers => p \in timers'
    BY <1>1
  <2>3. p = "instruction" => cm' = cm /\ cmCache' = cmCache
    BY <1>1
  <2> QED BY <2>1, <2>2, <2>3, ObjectFrame
<1>2. \A p \in Objects : ObjectInv(p)'
  BY <1>1
<1> QED BY <1>2 DEF CatalogIndInv

\* The API server moves the object o to a new version; its reconcile goes on, or ends.
LEMMA ApiMoved ==
  ASSUME CatalogShape, NEW o \in Objects, ObjectInv(o), NEW r \in Stored,
         r.rv = api[o].rv + 1, api' = [api EXCEPT ![o] = r], Sane(o, r), o \in group,
         UNCHANGED <<group, cross, cache, cm, cmCache, waiting>>,
         \/ jobs'[o].pc = "idle"
         \/ jobs'[o] = jobs[o] /\ (r.exists => api[o].exists)
         \/ jobs'[o] = jobs[o] /\ ~cache[o].exists,
         History(o)'
  PROVE  ObjectInv(o)'
<1>1. api'[o] = r /\ api[o].rv \in Nat /\ cache[o].rv \in Nat
  BY ObjectTypes DEF CatalogShape
<1>2. Behind(cache[o], api[o])
  BY DEF ObjectInv
<1>3. cache[o].rv < r.rv
  BY <1>1, <1>2 DEF Behind
<1>4. cache[o] # r
  BY <1>1, <1>3
<1>5. Behind(cache[o], api[o])'
  BY <1>1, <1>3 DEF Behind
<1>6. Sane(o, api[o])' /\ Sane(o, cache[o])'
  BY <1>1 DEF ObjectInv, Sane
<1>7. Rested(o)'
  BY <1>1, <1>4 DEF Rested
<1>8. Grouped(o)'
  BY DEF Grouped
<1>9. Working(o)'
  <2>1. CASE jobs'[o].pc = "idle"
    BY <2>1 DEF Working
  <2>2. CASE jobs'[o] = jobs[o] /\ (r.exists => api[o].exists)
    <3>1. \A v : Aimed(o, v) => Aimed(o, v)'
      BY DEF Aimed
    <3>2. Kept(o) => Kept(o)'
      BY DEF Kept
    <3>3. Working(o)
      BY DEF ObjectInv
    <3> QED BY <1>1, <2>2, <3>1, <3>2, <3>3 DEF Working, Behind, Sane
  <2>3. CASE jobs'[o] = jobs[o] /\ ~cache[o].exists
    <3>1. Working(o)
      BY DEF ObjectInv
    <3>2. jobs[o].pc # "idle" => o \in waiting'
      BY <2>3, <3>1 DEF Working
    <3> QED BY <1>1, <2>3, <3>1, <3>2 DEF Working, Behind, Sane
  <2> QED BY <2>1, <2>2, <2>3
<1> QED BY <1>5, <1>6, <1>7, <1>8, <1>9 DEF ObjectInv

\* What Put makes of the object: a new version, unless nothing changed.
LEMMA PutFacts ==
  ASSUME CatalogShape, NEW o \in Objects, NEW new \in Stored, Put(o, new), new.rv = api[o].rv
  PROVE  \/ new = api[o] /\ api' = api
         \/ \E r \in Stored :
              /\ api' = [api EXCEPT ![o] = r] /\ r.rv = api[o].rv + 1
              /\ r.exists = new.exists /\ r.deleting = new.deleting /\ r.finalizer = new.finalizer
              /\ r.gen = new.gen /\ r.spec = new.spec /\ r.born = new.born /\ r.status = new.status
<1>1. api[o].rv \in Nat /\ api \in [Objects -> Stored]
  BY ObjectTypes DEF CatalogShape
<1>2. CASE new = api[o]
  BY <1>1, <1>2 DEF Put
<1>3. CASE new # api[o]
  <2>1. PICK v \in Nat : v = api[o].rv + 1
    BY <1>1
  <2>2. PICK r : r = [new EXCEPT !.rv = v]
    OBVIOUS
  <2>3. /\ r \in Stored /\ r.rv = v
        /\ r.exists = new.exists /\ r.deleting = new.deleting /\ r.finalizer = new.finalizer
        /\ r.gen = new.gen /\ r.spec = new.spec /\ r.born = new.born /\ r.status = new.status
    BY <2>2 DEF Stored
  <2>4. api' = [api EXCEPT ![o] = r]
    BY <1>3, <2>1, <2>2 DEF Put
  <2> QED BY <2>1, <2>3, <2>4
<1> QED BY <1>2, <1>3

\* An event of the object is delivered.
LEMMA ObserveInv ==
  ASSUME CatalogIndInv, NEW o \in Objects, Observe(o)
  PROVE  CatalogIndInv'
<1>1. CatalogShape /\ MapInv /\ ObjectInv(o) /\ "model" \in Objects /\ "provider" \in Objects
  BY DEF CatalogIndInv, Objects
<1>2. /\ cache' = [cache EXCEPT ![o] = api[o]] /\ cache[o] # api[o]
      /\ waiting \subseteq waiting' /\ o \in waiting'
      /\ UNCHANGED <<group, cross, api, cm, cmCache, jobs, timers, specAt, editsLeft, faultsLeft>>
  BY DEF Observe
<1>3. cache'[o] = api[o] /\ \A p \in Objects : p # o => cache'[p] = cache[p]
  BY <1>1, <1>2 DEF CatalogShape
<1>4. o \in group
  BY <1>1, <1>2 DEF ObjectInv, Grouped
<1>5. api["model"].exists => "model" \in group
  <2>1. ObjectInv("model")
    BY <1>1 DEF CatalogIndInv
  <2> QED BY <2>1 DEF ObjectInv, Grouped, Absent
<1>6. CatalogShape'
  <2>1. waiting' \subseteq group
    BY <1>1, <1>4, <1>5 DEF Observe, CatalogShape
  <2>2. cache' \in [Objects -> Stored]
    BY <1>1, <1>2 DEF CatalogShape
  <2> QED BY <1>1, <1>2, <2>1, <2>2 DEF CatalogShape
<1>7. MapInv'
  BY <1>1, <1>2 DEF MapInv
<1>8. ObjectInv(o)'
  <2>1. api[o].rv \in Nat /\ cache[o].rv \in Nat /\ jobs[o].copy.rv \in Nat /\ api[o].gen \in Nat
    BY <1>1, ObjectTypes
  <2>2. Sane(o, api[o])' /\ Sane(o, cache[o])' /\ Behind(cache[o], api[o])'
    BY <1>1, <1>2, <1>3, <2>1 DEF ObjectInv, Sane, Behind
  <2>3. History(o)'
    BY <1>1, <1>2, <1>3, <2>1 DEF ObjectInv, History
  <2>4. Working(o)'
    <3>1. Working(o) /\ Behind(cache[o], api[o])
      BY <1>1 DEF ObjectInv
    <3>2. jobs[o].pc # "idle" => Behind(jobs[o].copy, api[o])
      BY <2>1, <3>1 DEF Working, Behind
    <3>3. Behind(jobs[o].copy, api[o]) => Behind(jobs[o].copy, cache[o])'
      BY <1>2, <1>3 DEF Behind
    <3> QED BY <1>2, <3>1, <3>2, <3>3 DEF Working, Sane
  <2>5. Rested(o)' /\ Grouped(o)'
    BY <1>2, <1>4 DEF Rested, Grouped
  <2> QED BY <2>2, <2>3, <2>4, <2>5 DEF ObjectInv
<1>9. ASSUME NEW p \in Objects, p # o PROVE ObjectInv(p)'
  <2>1. ObjectInv(p) /\ cache'[p] = cache[p]
    BY <1>3, <1>9 DEF CatalogIndInv
  <2>2. CASE p = "model" /\ o = "provider"
    <3>1. "model" \in waiting' \/ cross \/ ~api["model"].exists
      BY <2>2 DEF Observe
    <3>2. Working(p)'
      BY <1>2, <2>1, <2>2, <3>1 DEF ObjectInv, Working, Aimed, Kept, Behind, Sane
    <3>3. Rested(p)'
      BY <1>2, <2>1, <2>2, <3>1 DEF ObjectInv, Rested, Aimed, Kept
    <3>4. History(p)' /\ Grouped(p)' /\ Sane(p, api[p])' /\ Sane(p, cache[p])' /\ Behind(cache[p], api[p])'
      BY <1>2, <2>1, <2>2 DEF ObjectInv, History, Grouped, Sane, Behind
    <3> QED BY <3>2, <3>3, <3>4 DEF ObjectInv
  <2>3. CASE ~(p = "model" /\ o = "provider")
    <3>1. p = "model" => cache'["provider"] = cache["provider"]
      BY <1>1, <1>3, <2>3
    <3>2. api'[p] = api[p] /\ jobs'[p] = jobs[p] /\ specAt'[p] = specAt[p]
      BY <1>2
    <3>3. (p \in waiting => p \in waiting') /\ (p \in timers => p \in timers')
      BY <1>2
    <3> QED BY <1>2, <2>1, <3>1, <3>2, <3>3, ObjectFrame
  <2> QED BY <2>2, <2>3
<1> QED BY <1>6, <1>7, <1>8, <1>9 DEF CatalogIndInv

\* An event of the ConfigMap is delivered: it queues the Instruction, unless nobody
\* owned it before or owns it now.
LEMMA ObserveConfigMapInv ==
  ASSUME CatalogIndInv, ObserveConfigMap
  PROVE  CatalogIndInv'
<1>1. CatalogShape /\ MapInv /\ "instruction" \in Objects /\ ObjectInv("instruction")
  BY DEF CatalogIndInv, Objects
<1>2. /\ cmCache' = cm /\ waiting \subseteq waiting'
      /\ UNCHANGED <<group, cross, api, cache, cm, jobs, timers, specAt, editsLeft, faultsLeft>>
  BY DEF ObserveConfigMap
<1>3. "instruction" \in group
  BY <1>1 DEF MapInv, ObserveConfigMap
<1>4. CatalogShape'
  BY <1>1, <1>2, <1>3 DEF CatalogShape, ObserveConfigMap
<1>5. cm.rv \in Nat
  BY <1>1 DEF CatalogShape, ConfigMaps
<1>6. MapInv'
  BY <1>1, <1>2, <1>3, <1>5 DEF MapInv, Behind
<1>7. ObjectInv("instruction")'
  <2> DEFINE i == "instruction"
  <2>1. i \in waiting' \/ ~cm.ours
    BY DEF ObserveConfigMap
  <2>2. i \in waiting' \/ Kept(i)'
    BY <1>2, <2>1 DEF Kept
  <2>3. \A v : Aimed(i, v) => Aimed(i, v)'
    BY <1>2 DEF Aimed
  <2>4. Working(i)'
    BY <1>1, <1>2, <2>2, <2>3 DEF ObjectInv, Working, Behind, Sane
  <2>5. Rested(i)'
    BY <1>1, <1>2, <2>2, <2>3 DEF ObjectInv, Rested
  <2>6. History(i)' /\ Grouped(i)' /\ Sane(i, api[i])' /\ Sane(i, cache[i])' /\ Behind(cache[i], api[i])'
    BY <1>1, <1>2 DEF ObjectInv, History, Grouped, Sane, Behind
  <2> QED BY <2>4, <2>5, <2>6 DEF ObjectInv
<1> QED BY <1>1, <1>2, <1>4, <1>6, <1>7, OneObject

\* The ConfigMap changes hands or content with nobody told yet.
LEMMA ConfigMapMoved ==
  ASSUME CatalogIndInv, NEW c \in ConfigMaps, cm' = c, c.rv = cm.rv + 1,
         c.ours => c.exists, c.exists => c.data # "none", "instruction" \in group,
         UNCHANGED <<group, cross, api, cache, cmCache, jobs, waiting, timers, specAt, faultsLeft>>,
         editsLeft' \in Nat
  PROVE  CatalogIndInv'
<1>1. CatalogShape /\ MapInv /\ "instruction" \in Objects /\ ObjectInv("instruction")
  BY DEF CatalogIndInv, Objects
<1>2. cm.rv \in Nat /\ cmCache.rv \in Nat
  BY <1>1 DEF CatalogShape, ConfigMaps
<1>3. cmCache.rv < c.rv
  BY <1>1, <1>2 DEF MapInv, Behind
<1>4. CatalogShape'
  BY <1>1 DEF CatalogShape
<1>5. MapInv'
  BY <1>1, <1>2, <1>3 DEF MapInv, Behind
<1>6. ObjectInv("instruction")'
  <2> DEFINE i == "instruction"
  <2>1. Kept(i)'
    BY <1>2, <1>3 DEF Kept
  <2>2. \A v : Aimed(i, v) => Aimed(i, v)'
    BY DEF Aimed
  <2>3. Working(i)'
    BY <1>1, <2>1, <2>2 DEF ObjectInv, Working, Behind, Sane
  <2>4. Rested(i)'
    BY <1>1, <2>1, <2>2 DEF ObjectInv, Rested
  <2>5. History(i)' /\ Grouped(i)' /\ Sane(i, api[i])' /\ Sane(i, cache[i])' /\ Behind(cache[i], api[i])'
    BY <1>1 DEF ObjectInv, History, Grouped, Sane, Behind
  <2> QED BY <2>3, <2>4, <2>5 DEF ObjectInv
<1> QED BY <1>1, <1>4, <1>5, <1>6, OneObject

\* Somebody else writes or deletes the ConfigMap.
LEMMA ForeignConfigMapInv ==
  ASSUME CatalogIndInv, ForeignConfigMap
  PROVE  CatalogIndInv'
<1>1. cm \in ConfigMaps /\ cm.rv \in Nat /\ editsLeft' \in Nat
  BY DEF CatalogIndInv, CatalogShape, ConfigMaps, ForeignConfigMap, UserEdit
<1>2. PICK v \in Nat : v = cm.rv + 1
  BY <1>1
<1>3. \/ cm' = [cm EXCEPT !.data = "foreign", !.exists = TRUE, !.rv = v]
      \/ cm' = [NoMap EXCEPT !.rv = v]
  BY <1>2 DEF ForeignConfigMap, NoMap
<1>4. PICK c : c = cm'
  OBVIOUS
<1>5. c \in ConfigMaps /\ c.rv = v /\ (c.ours => c.exists) /\ (c.exists => c.data # "none")
  BY <1>1, <1>3, <1>4 DEF ConfigMaps, NoMap
<1> QED BY <1>1, <1>2, <1>4, <1>5, ConfigMapMoved DEF ForeignConfigMap

\* The garbage collector removes it.
LEMMA CollectInv ==
  ASSUME CatalogIndInv, Collect
  PROVE  CatalogIndInv'
<1>1. cm \in ConfigMaps /\ cm.rv \in Nat /\ editsLeft' \in Nat
  BY DEF CatalogIndInv, CatalogShape, ConfigMaps, Collect
<1>2. PICK v \in Nat : v = cm.rv + 1
  BY <1>1
<1>3. PICK c : c = cm'
  OBVIOUS
<1>4. c = [NoMap EXCEPT !.rv = v]
  BY <1>2, <1>3 DEF Collect, NoMap
<1>5. c \in ConfigMaps /\ c.rv = v /\ ~c.ours /\ ~c.exists
  BY <1>4 DEF ConfigMaps, NoMap
<1> QED BY <1>1, <1>2, <1>3, <1>5, ConfigMapMoved DEF Collect

\* A timer puts the object in the queue.
LEMMA TimerEndsInv ==
  ASSUME CatalogIndInv, NEW o \in Objects, TimerEnds(o)
  PROVE  CatalogIndInv'
<1>1. CatalogShape /\ MapInv /\ ObjectInv(o) /\ "provider" \in Objects
  BY DEF CatalogIndInv, Objects
<1>2. /\ o \in timers /\ timers' = timers \ {o} /\ waiting' = waiting \cup {o}
      /\ UNCHANGED <<group, cross, api, cache, cm, cmCache, jobs, specAt, editsLeft, faultsLeft>>
  BY DEF TimerEnds
<1>3. CatalogShape'
  BY <1>1, <1>2 DEF CatalogShape
<1>4. MapInv'
  BY <1>1, <1>2 DEF MapInv
<1>5. ObjectInv(o)'
  <2>1. Rested(o)' /\ Working(o)'
    BY <1>1, <1>2 DEF ObjectInv, Rested, Working, Behind, Sane
  <2>2. History(o)' /\ Grouped(o)' /\ Sane(o, api[o])' /\ Sane(o, cache[o])' /\ Behind(cache[o], api[o])'
    BY <1>1, <1>2 DEF ObjectInv, History, Grouped, Sane, Behind
  <2> QED BY <2>1, <2>2 DEF ObjectInv
<1> QED BY <1>2, <1>3, <1>4, <1>5, OneObject

\* A step of the reconcile of o that writes no object but the ConfigMap.
LEMMA JobMoved ==
  ASSUME CatalogIndInv, NEW o \in Objects, NEW q \in JobRecs, jobs' = [jobs EXCEPT ![o] = q],
         UNCHANGED <<group, cross, api, cache, cmCache, specAt, editsLeft>>,
         cm' = cm \/ (o = "instruction" /\ cm' \in ConfigMaps /\ MapInv'),
         faultsLeft' \in Nat, o \in group,
         waiting' = waiting \/ waiting' = waiting \ {o},
         timers' = timers \/ timers' = timers \cup {o},
         Working(o)', Rested(o)',
         api[o].exists /\ api[o].born = 1 /\ q.pc # "idle" =>
           /\ q.gen \in 1..api[o].gen
           /\ o = "provider" /\ q.pc = "status" => q.verdict = ValidateProvider(specAt[o][q.gen])
  PROVE  CatalogIndInv'
<1>1. CatalogShape /\ MapInv /\ ObjectInv(o) /\ "provider" \in Objects
  BY DEF CatalogIndInv, Objects
<1>2. jobs'[o] = q /\ \A p \in Objects : p # o => jobs'[p] = jobs[p]
  BY <1>1 DEF CatalogShape
<1>3. CatalogShape'
  BY <1>1 DEF CatalogShape
<1>4. MapInv'
  <2>1. CASE cm' = cm
    BY <1>1, <2>1 DEF MapInv
  <2> QED BY <2>1
<1>5. History(o)'
  BY <1>1, <1>2 DEF ObjectInv, History
<1>6. Grouped(o)' /\ Sane(o, api[o])' /\ Sane(o, cache[o])' /\ Behind(cache[o], api[o])'
  BY <1>1 DEF ObjectInv, Grouped, Sane, Behind
<1>7. ObjectInv(o)'
  BY <1>5, <1>6 DEF ObjectInv
<1>8. \A p \in Objects : p # o =>
           /\ api'[p] = api[p] /\ cache'[p] = cache[p] /\ jobs'[p] = jobs[p] /\ specAt'[p] = specAt[p]
           /\ p \in waiting => p \in waiting'
           /\ p \in timers => p \in timers'
  BY <1>2
<1> QED BY <1>3, <1>4, <1>7, <1>8, OneObject

\* The object is gone for the informer: there is nothing to do, whatever comes an event
\* tells.
LEMMA TakeGoneInv ==
  ASSUME CatalogIndInv, NEW o \in Objects, TakeGone(o)
  PROVE  CatalogIndInv'
<1>1. CatalogShape /\ ObjectInv(o)
  BY DEF CatalogIndInv
<1>2. /\ o \in waiting /\ jobs[o].pc = "idle" /\ waiting' = waiting \ {o} /\ jobs' = jobs
      /\ UNCHANGED <<group, cross, api, cache, cm, cmCache, timers, specAt, editsLeft, faultsLeft>>
      /\ ~cache[o].exists \/ (cache[o].deleting /\ ~cache[o].finalizer)
  BY DEF TakeGone, Taken
<1>3. ~cache[o].exists
  BY <1>1, <1>2 DEF ObjectInv, Sane
<1>4. Rested(o)' /\ Working(o)'
  BY <1>2, <1>3 DEF Rested, Working
<1>5. PICK q \in JobRecs : q = jobs[o] /\ q.pc = "idle" /\ jobs' = [jobs EXCEPT ![o] = q]
  BY <1>1, <1>2, ObjectTypes DEF CatalogShape
<1>6. o \in group /\ faultsLeft' \in Nat
  BY <1>1, <1>2 DEF CatalogShape
<1> QED BY <1>2, <1>4, <1>5, <1>6, JobMoved

\* A reconcile begins, on what the informer has delivered.
LEMMA Begins ==
  ASSUME CatalogIndInv, NEW o \in Objects, Taken(o), cache[o].exists,
         NEW pc \in JobPcs, pc # "idle", NEW v \in Verdicts, Job(o, pc, v),
         o # "instruction" => pc = "status",
         pc = "status" => v \in Possible(o) /\ v # "stored" /\ Aimed(o, v),
         o = "instruction" /\ pc \in {"store", "status"} => ~cache[o].deleting
  PROVE  CatalogIndInv'
<1>1. CatalogShape /\ ObjectInv(o) /\ cache[o] \in Stored /\ cache[o].gen \in Nat /\ cache[o].rv \in Nat
      /\ api[o].gen \in Nat
  BY ObjectTypes DEF CatalogIndInv
<1>2. /\ o \in waiting /\ waiting' = waiting \ {o}
      /\ UNCHANGED <<group, cross, api, cache, cm, cmCache, timers, specAt, editsLeft, faultsLeft>>
  BY DEF Taken
<1>3. PICK q : /\ q = [pc |-> pc, copy |-> cache[o], verdict |-> v, gen |-> cache[o].gen, tries |-> 0]
               /\ jobs' = [jobs EXCEPT ![o] = q]
  BY DEF Job
<1>4. 0 \in 0..StatusTries
  BY CatalogAssumption
<1>5. /\ q \in JobRecs /\ q.pc = pc /\ q.copy = cache[o] /\ q.verdict = v /\ q.gen = cache[o].gen
  BY <1>1, <1>3, <1>4 DEF JobRecs
<1>6. jobs'[o] = q
  BY <1>1, <1>3 DEF CatalogShape
<1>7. Rested(o)'
  BY <1>5, <1>6 DEF Rested
<1>8. Working(o)'
  <2>1. Behind(jobs[o].copy, cache[o])'
    BY <1>1, <1>2, <1>5, <1>6 DEF Behind
  <2>2. Sane(o, jobs[o].copy)'
    BY <1>1, <1>2, <1>5, <1>6 DEF ObjectInv, Sane
  <2>3. Aimed(o, v) => Aimed(o, v)'
    BY <1>2 DEF Aimed
  <2> QED BY <1>2, <1>5, <1>6, <2>1, <2>2, <2>3 DEF Working
<1>9. api[o].exists /\ api[o].born = 1 =>
           /\ q.gen \in 1..api[o].gen
           /\ o = "provider" /\ q.pc = "status" => q.verdict = ValidateProvider(specAt[o][q.gen])
  <2>1. SUFFICES ASSUME api[o].exists, api[o].born = 1
                 PROVE  /\ q.gen \in 1..api[o].gen
                        /\ o = "provider" /\ q.pc = "status"
                             => q.verdict = ValidateProvider(specAt[o][q.gen])
    OBVIOUS
  <2>2. cache[o].gen <= api[o].gen /\ cache[o].spec = specAt[o][cache[o].gen] /\ cache[o].gen >= 1
    BY <1>1, <2>1 DEF ObjectInv, History, Sane
  <2>3. q.gen \in 1..api[o].gen
    BY <1>1, <1>5, <2>2
  <2>4. o = "provider" /\ q.pc = "status" => q.verdict = ValidateProvider(cache[o].spec)
    BY <1>5 DEF Aimed
  <2> QED BY <1>5, <2>2, <2>3, <2>4
<1>10. o \in group /\ faultsLeft' \in Nat
  BY <1>1, <1>2 DEF CatalogShape
<1> QED BY <1>2, <1>3, <1>5, <1>7, <1>8, <1>9, <1>10, JobMoved

\* The four heads of Reconcile.
LEMMA TakesInv ==
  ASSUME CatalogIndInv, TakeProvider \/ TakeModel \/ TakeTool \/ TakeInstruction
  PROVE  CatalogIndInv'
<1>1. Objects = {"provider", "model", "tool", "instruction"}
      /\ {"status", "store", "unstore", "finalizer"} \subseteq JobPcs
  BY DEF Objects, JobPcs
<1>2. CASE TakeProvider
  <2>1. PICK v \in Verdicts : v = ValidateProvider(cache["provider"].spec)
    BY DEF ValidateProvider, Verdicts
  <2>2. v \in Possible("provider") /\ v # "stored" /\ Aimed("provider", v)
    BY <2>1 DEF ValidateProvider, Possible, Aimed
  <2>3. Job("provider", "status", v) /\ Taken("provider") /\ cache["provider"].exists
    BY <1>2, <2>1 DEF TakeProvider
  <2> QED BY <1>1, <2>2, <2>3, Begins
<1>3. CASE TakeModel
  <2>1. ResolveProvider(cache["provider"]) \in {"openai", "google", "NotFound", "NotReady"}
    BY DEF ResolveProvider, Resolved
  <2>2. PICK v \in Verdicts : v = ResolveProvider(cache["provider"])
    BY <2>1 DEF Verdicts
  <2>3. v \in Possible("model") /\ v # "stored" /\ Aimed("model", v)
    BY <2>1, <2>2 DEF Possible, Aimed
  <2>4. Job("model", "status", v) /\ Taken("model") /\ cache["model"].exists
    BY <1>3, <2>2 DEF TakeModel
  <2> QED BY <1>1, <2>3, <2>4, Begins
<1>4. CASE TakeTool
  <2>1. PICK v \in Verdicts : v = ValidateSpec(cache["tool"].spec)
    BY DEF ValidateSpec, Verdicts
  <2>2. v \in Possible("tool") /\ v # "stored" /\ Aimed("tool", v)
    BY <2>1 DEF ValidateSpec, Possible, Aimed
  <2>3. Job("tool", "status", v) /\ Taken("tool") /\ cache["tool"].exists
    BY <1>4, <2>1 DEF TakeTool
  <2> QED BY <1>1, <2>2, <2>3, Begins
<1>5. CASE TakeInstruction
  <2>1. PICK pc \in {"unstore", "finalizer", "store"} :
          /\ Job("instruction", pc, "none") /\ (pc = "store" => ~cache["instruction"].deleting)
    BY <1>5 DEF TakeInstruction
  <2>2. Taken("instruction") /\ cache["instruction"].exists
    BY <1>5 DEF TakeInstruction
  <2>3. "none" \in Verdicts /\ pc \in JobPcs /\ pc # "idle" /\ pc # "status"
    BY DEF Verdicts, JobPcs
  <2> QED BY <1>1, <2>1, <2>2, <2>3, Begins
<1> QED BY <1>2, <1>3, <1>4, <1>5

\* No reconcile.
LEMMA NoJobFacts ==
  NoJob \in JobRecs /\ NoJob.pc = "idle" /\ Absent \in Stored
<1>1. Absent \in Stored
  BY DEF Absent, NoVerdict, Stored, Statuses, SpecNames, Verdicts
<1>2. 0 \in 0..StatusTries
  BY CatalogAssumption
<1> QED BY <1>1, <1>2 DEF NoJob, JobRecs, JobPcs, Verdicts

\* A reconcile that ends with an error comes again.
LEMMA ErrorInv ==
  ASSUME CatalogIndInv, NEW o \in Objects, jobs[o].pc # "idle", Error(o),
         UNCHANGED <<group, cross, api, cache, cm, cmCache, waiting, specAt, editsLeft>>,
         faultsLeft' \in Nat
  PROVE  CatalogIndInv'
<1>1. CatalogShape /\ ObjectInv(o)
  BY DEF CatalogIndInv
<1>2. jobs' = [jobs EXCEPT ![o] = NoJob] /\ timers' = timers \cup {o}
  BY DEF Error, EndJob
<1>3. jobs'[o] = NoJob
  BY <1>1, <1>2 DEF CatalogShape
<1>4. Working(o)' /\ Rested(o)'
  BY <1>2, <1>3, NoJobFacts DEF Working, Rested
<1>5. o \in group
  BY <1>1 DEF ObjectInv, Grouped
<1> QED BY <1>2, <1>4, <1>5, NoJobFacts, JobMoved

\* A write the API server takes is of the version there is.
LEMMA CurrentFacts ==
  ASSUME CatalogIndInv, NEW o \in Objects, jobs[o].pc # "idle", Current(o)
  PROVE  jobs[o].copy = api[o] /\ o \in group /\ api[o].exists
<1>1. CatalogShape /\ ObjectInv(o)
  BY DEF CatalogIndInv
<1>2. api[o].rv \in Nat /\ cache[o].rv \in Nat /\ jobs[o].copy.rv \in Nat
  BY <1>1, ObjectTypes
<1>3. Behind(jobs[o].copy, cache[o]) /\ Behind(cache[o], api[o])
  BY <1>1 DEF ObjectInv, Working
<1>4. jobs[o].copy.rv = api[o].rv
  BY DEF Current
<1>5. jobs[o].copy = api[o]
  BY <1>2, <1>3, <1>4 DEF Behind
<1> QED BY <1>1, <1>5 DEF ObjectInv, Grouped, Current

\* The status is written: the informer will tell, or it was right already.
LEMMA StatusWrittenInv ==
  ASSUME CatalogIndInv, NEW o \in Objects, StatusWritten(o)
  PROVE  CatalogIndInv'
<1>1. CatalogShape /\ MapInv /\ ObjectInv(o) /\ jobs[o].pc = "status" /\ Current(o)
  BY DEF CatalogIndInv, StatusWritten
<1>2. jobs[o].copy = api[o] /\ o \in group /\ api[o].exists
  BY <1>1, CurrentFacts
<1>3. /\ jobs' = [jobs EXCEPT ![o] = NoJob] /\ jobs'[o] = NoJob
      /\ \A p \in Objects : p # o => jobs'[p] = jobs[p]
  BY <1>1 DEF StatusWritten, EndJob, CatalogShape
<1>4. UNCHANGED <<group, cross, cache, cm, cmCache, waiting, specAt, editsLeft, faultsLeft>>
  BY DEF StatusWritten
<1>5. /\ api[o] \in Stored /\ jobs[o].verdict \in Verdicts /\ jobs[o].gen \in Nat /\ api[o].gen \in Nat
      /\ jobs[o] \in JobRecs /\ jobs[o].copy.gen \in Nat /\ api[o].rv \in Nat
  BY <1>1, ObjectTypes
<1>6. PICK g \in Nat : g = ObservedGeneration(o)
  BY <1>5 DEF ObservedGeneration
<1>7. PICK t : t = [verdict |-> jobs[o].verdict, gen |-> g]
  OBVIOUS
<1>8. t \in Statuses /\ t.verdict = jobs[o].verdict /\ t.gen = g
  BY <1>5, <1>7 DEF Statuses
<1>9. PICK new : new = [api[o] EXCEPT !.status = t]
  OBVIOUS
<1>10. /\ new \in Stored /\ new.status = t /\ new.exists = api[o].exists /\ new.deleting = api[o].deleting
       /\ new.finalizer = api[o].finalizer /\ new.gen = api[o].gen /\ new.spec = api[o].spec
       /\ new.born = api[o].born /\ new.rv = api[o].rv
  BY <1>5, <1>8, <1>9 DEF Stored
<1>11. Put(o, new)
  BY <1>6, <1>7, <1>9 DEF StatusWritten
<1>12. timers' = timers \/ timers' = timers \cup {o}
  BY DEF StatusWritten, AfterStatus
<1>13. g = api[o].gen \/ (g = jobs[o].gen /\ o # "tool")
  BY <1>2, <1>6 DEF ObservedGeneration
<1>14. o = "provider" => g = jobs[o].gen
  BY <1>6 DEF ObservedGeneration
<1>15. CASE new = api[o] /\ api' = api
  <2>1. api[o].status = t
    BY <1>10, <1>15
  <2>2. Working(o)'
    BY <1>3, NoJobFacts DEF Working
  <2>3. Rested(o)'
    <3>1. SUFFICES ASSUME o \notin waiting, o \notin timers', cache[o] = api[o]
                   PROVE  /\ api[o].status.gen = api[o].gen
                          /\ api[o].status.verdict \in Possible(o) \ {"NotFound", "NotReady", "failed"}
                          /\ Aimed(o, api[o].status.verdict)'
                          /\ o = "instruction" => ~api[o].deleting
                          /\ Kept(o)'
      BY <1>4, <1>15 DEF Rested, Aimed, Kept
    <3>2. jobs[o].gen = api[o].gen /\ Aimed(o, jobs[o].verdict) /\ jobs[o].verdict \in Possible(o)
      BY <1>1, <1>2, <3>1 DEF ObjectInv, Working
    <3>3. jobs[o].verdict \notin {"NotFound", "NotReady", "failed"}
      BY <3>1 DEF StatusWritten, AfterStatus
    <3>4. o = "instruction" => ~api[o].deleting /\ jobs[o].verdict = "stored"
      BY <1>1, <3>1, <3>2, <3>3 DEF ObjectInv, Working, Possible
    <3>5. Kept(o)
      BY <1>1, <3>1, <3>4 DEF ObjectInv, Working, Kept
    <3>6. Kept(o)' /\ \A v : Aimed(o, v) => Aimed(o, v)'
      BY <1>4, <3>5 DEF Aimed, Kept
    <3>7. Aimed(o, api[o].status.verdict)'
      <4>1. PICK v : v = jobs[o].verdict /\ Aimed(o, v)
        BY <3>2
      <4>2. Aimed(o, v)' /\ (api[o].status.verdict)' = v
        BY <1>8, <1>15, <2>1, <3>6, <4>1
      <4> QED BY <4>2
    <3> QED BY <1>8, <1>13, <2>1, <3>2, <3>3, <3>4, <3>6, <3>7
  <2>4. faultsLeft' \in Nat
    BY <1>1, <1>4 DEF CatalogShape
  <2> QED BY <1>2, <1>3, <1>4, <1>12, <1>15, <2>2, <2>3, <2>4, NoJobFacts, JobMoved
<1>16. ASSUME NEW r \in Stored, api' = [api EXCEPT ![o] = r], r.rv = api[o].rv + 1,
              r.exists = new.exists, r.deleting = new.deleting, r.finalizer = new.finalizer,
              r.gen = new.gen, r.spec = new.spec, r.born = new.born, r.status = new.status
       PROVE  CatalogIndInv'
  <2>1. api'[o] = r /\ \A p \in Objects : p # o => api'[p] = api[p]
    BY <1>1, <1>16 DEF CatalogShape
  <2>2. Sane(o, r)
    BY <1>1, <1>5, <1>10, <1>16, ObjectTypes DEF ObjectInv, Sane
  <2>3. History(o)'
    <3>1. History(o)
      BY <1>1 DEF ObjectInv
    <3>2. SUFFICES ASSUME api[o].born = 1
                   PROVE  /\ g <= api[o].gen
                          /\ o = "provider" =>
                               (g # 0 => jobs[o].verdict = ValidateProvider(specAt[o][g]))
      BY <1>2, <1>3, <1>4, <1>8, <1>10, <1>16, <2>1, <3>1, NoJobFacts DEF History
    <3>3. jobs[o].gen \in 1..api[o].gen
      BY <1>1, <1>2, <3>1, <3>2 DEF History
    <3>4. o = "provider" => jobs[o].verdict = ValidateProvider(specAt[o][jobs[o].gen])
      BY <1>1, <1>2, <3>1, <3>2 DEF History
    <3> QED BY <1>5, <1>13, <1>14, <3>3, <3>4
  <2>4. ObjectInv(o)'
    BY <1>1, <1>2, <1>3, <1>4, <1>16, <2>2, <2>3, NoJobFacts, ApiMoved
  <2>5. CatalogShape'
    BY <1>1, <1>2, <1>3, <1>4, <1>12, <1>16, NoJobFacts DEF CatalogShape
  <2>6. MapInv'
    BY <1>1, <1>4 DEF MapInv
  <2> QED BY <1>3, <1>4, <1>12, <2>1, <2>4, <2>5, <2>6, OneObject
<1> QED BY <1>1, <1>10, <1>11, <1>15, <1>16, PutFacts

\* A conflict: the object is read again, or the attempts are used up.
LEMMA StatusConflictInv ==
  ASSUME CatalogIndInv, NEW o \in Objects, StatusConflict(o)
  PROVE  CatalogIndInv'
<1>1. CatalogShape /\ ObjectInv(o) /\ jobs[o].pc = "status" /\ faultsLeft' \in Nat
  BY DEF CatalogIndInv, StatusConflict, CatalogShape
<1>2. UNCHANGED <<group, cross, api, cache, cm, cmCache, waiting, specAt, editsLeft, faultsLeft>>
  BY DEF StatusConflict
<1>3. /\ cache[o] \in Stored /\ jobs[o] \in JobRecs /\ jobs[o].tries \in 0..StatusTries
      /\ cache[o].rv \in Nat /\ jobs[o].gen \in Nat
  BY <1>1, ObjectTypes
<1>4. CASE Error(o)
  BY <1>1, <1>2, <1>4, ErrorInv
<1>5. CASE /\ cache[o].exists /\ jobs[o].tries < StatusTries /\ timers' = timers
           /\ jobs' = [jobs EXCEPT ![o].copy = cache[o], ![o].tries = @ + 1]
  <2>1. PICK n \in 0..StatusTries : n = jobs[o].tries + 1
    BY <1>3, <1>5, CatalogAssumption
  <2>2. PICK q : q = [jobs[o] EXCEPT !.copy = cache[o], !.tries = n]
    OBVIOUS
  <2>3. /\ q \in JobRecs /\ q.pc = "status" /\ q.copy = cache[o] /\ q.verdict = jobs[o].verdict
        /\ q.gen = jobs[o].gen
    BY <1>1, <1>3, <2>2 DEF JobRecs
  <2>4. jobs' = [jobs EXCEPT ![o] = q] /\ jobs'[o] = q
    BY <1>1, <1>3, <1>5, <2>1, <2>2 DEF CatalogShape, JobRecs
  <2>5. Rested(o)'
    BY <2>3, <2>4 DEF Rested
  <2>6. Working(o)'
    <3>1. Behind(jobs[o].copy, cache[o])' /\ Sane(o, jobs[o].copy)'
      BY <1>1, <1>2, <1>3, <2>3, <2>4 DEF ObjectInv, Behind, Sane
    <3>2. \A v : Aimed(o, v) => Aimed(o, v)'
      BY <1>2 DEF Aimed
    <3>3. Kept(o) => Kept(o)'
      BY <1>2 DEF Kept
    <3>4. Working(o)
      BY <1>1 DEF ObjectInv
    <3> QED BY <1>1, <1>2, <1>5, <2>3, <2>4, <3>1, <3>2, <3>3, <3>4 DEF Working
  <2>7. api[o].exists /\ api[o].born = 1 =>
           /\ q.gen \in 1..api[o].gen
           /\ o = "provider" => q.verdict = ValidateProvider(specAt[o][q.gen])
    BY <1>1, <2>3 DEF ObjectInv, History
  <2>8. o \in group
    BY <1>1 DEF ObjectInv, Grouped
  <2> QED BY <1>1, <1>2, <1>5, <2>3, <2>4, <2>5, <2>6, <2>7, <2>8, JobMoved
<1> QED BY <1>4, <1>5 DEF StatusConflict

\* What is left of an object that went.
LEMMA GoneFacts ==
  ASSUME CatalogShape, NEW o \in Objects
  PROVE  \E r \in Stored : /\ r = Gone(api[o]) /\ r.rv = api[o].rv + 1 /\ Sane(o, r) /\ ~r.exists
<1>1. PICK v \in Nat : v = api[o].rv + 1
  BY ObjectTypes
<1>2. PICK r : r = [Absent EXCEPT !.rv = v]
  OBVIOUS
<1>3. r \in Stored /\ r.rv = v /\ ~r.exists /\ ~r.deleting
  BY <1>2, NoJobFacts DEF Absent, Stored
<1>4. r = Gone(api[o])
  BY <1>1, <1>2 DEF Gone
<1> QED BY <1>1, <1>3, <1>4 DEF Sane

\* The end of a reconcile that moved the object, to one that is there only if it was.
LEMMA MovedAndDone ==
  ASSUME CatalogIndInv, NEW o \in Objects, o \in group, NEW r \in Stored,
         r.rv = api[o].rv + 1, api' = [api EXCEPT ![o] = r], Sane(o, r), History(o)',
         jobs' = [jobs EXCEPT ![o] = NoJob],
         UNCHANGED <<group, cross, cache, cm, cmCache, waiting, specAt, editsLeft, faultsLeft>>,
         timers' = timers \/ timers' = timers \cup {o}
  PROVE  CatalogIndInv'
<1>1. CatalogShape /\ MapInv /\ ObjectInv(o)
  BY DEF CatalogIndInv
<1>2. /\ api'[o] = r /\ \A p \in Objects : p # o => api'[p] = api[p]
      /\ jobs'[o] = NoJob /\ \A p \in Objects : p # o => jobs'[p] = jobs[p]
  BY <1>1 DEF CatalogShape
<1>3. ObjectInv(o)'
  BY <1>1, <1>2, NoJobFacts, ApiMoved
<1>4. CatalogShape'
  BY <1>1, NoJobFacts DEF CatalogShape
<1>5. MapInv'
  BY <1>1 DEF MapInv
<1> QED BY <1>2, <1>3, <1>4, <1>5, OneObject

\* The finalizer is written, or found to be written on an old version.
LEMMA FinalizerWriteInv ==
  ASSUME CatalogIndInv, FinalizerWrite
  PROVE  CatalogIndInv'
<1> DEFINE i == "instruction"
<1>1. /\ CatalogShape /\ i \in Objects /\ ObjectInv(i) /\ jobs[i].pc = "finalizer"
      /\ jobs' = [jobs EXCEPT ![i] = NoJob] /\ Error(i) /\ timers' = timers \cup {i}
      /\ faultsLeft' \in Nat
  BY DEF CatalogIndInv, Objects, FinalizerWrite, EndJob, Error, CatalogShape
<1>2. UNCHANGED <<group, cross, cache, cm, cmCache, waiting, specAt, editsLeft, faultsLeft>>
  BY DEF FinalizerWrite
<1>3. CASE api' = api
  BY <1>1, <1>2, <1>3, ErrorInv
<1>4. CASE Current(i) /\ Put(i, [api[i] EXCEPT !.finalizer = TRUE])
  <2>1. api[i] \in Stored /\ api[i].exists /\ i \in group /\ api[i].rv \in Nat /\ api[i].born \in Nat
    BY <1>1, <1>4, CurrentFacts, ObjectTypes
  <2>2. PICK new : new = [api[i] EXCEPT !.finalizer = TRUE] /\ Put(i, new)
    BY <1>4
  <2>3. /\ new \in Stored /\ new.status = api[i].status /\ new.exists = api[i].exists
        /\ new.finalizer /\ new.gen = api[i].gen /\ new.spec = api[i].spec
        /\ new.born = api[i].born /\ new.rv = api[i].rv
    BY <2>1, <2>2 DEF Stored
  <2>4. ASSUME NEW r \in Stored, api' = [api EXCEPT ![i] = r], r.rv = api[i].rv + 1,
               r.exists = new.exists, r.finalizer = new.finalizer,
               r.gen = new.gen, r.spec = new.spec, r.born = new.born, r.status = new.status
        PROVE  CatalogIndInv'
    <3>1. Sane(i, r)
      BY <1>1, <2>1, <2>3, <2>4 DEF ObjectInv, Sane
    <3>2. api'[i] = r /\ jobs'[i] = NoJob
      BY <1>1, <2>4 DEF CatalogShape
    <3>3. History(i)'
      BY <1>1, <1>2, <2>1, <2>3, <2>4, <3>2, NoJobFacts DEF ObjectInv, History
    <3> QED BY <1>1, <1>2, <2>1, <2>4, <3>1, <3>3, MovedAndDone
  <2>5. \/ new = api[i] /\ api' = api
        \/ \E r \in Stored :
              /\ api' = [api EXCEPT ![i] = r] /\ r.rv = api[i].rv + 1
              /\ r.exists = new.exists /\ r.deleting = new.deleting /\ r.finalizer = new.finalizer
              /\ r.gen = new.gen /\ r.spec = new.spec /\ r.born = new.born /\ r.status = new.status
    BY <1>1, <2>2, <2>3, PutFacts
  <2> QED BY <1>3, <2>4, <2>5
<1> QED BY <1>3, <1>4 DEF FinalizerWrite

\* RemoveFinalizer: the Instruction goes, or the reconcile comes again.
LEMMA RemoveFinalizerInv ==
  ASSUME CatalogIndInv, RemoveFinalizer
  PROVE  CatalogIndInv'
<1> DEFINE i == "instruction"
<1>1. /\ CatalogShape /\ i \in Objects /\ ObjectInv(i) /\ jobs[i].pc # "idle" /\ faultsLeft' \in Nat
      /\ UNCHANGED <<group, cross, cache, cm, cmCache, waiting, specAt, editsLeft, faultsLeft>>
  BY DEF CatalogIndInv, Objects, RemoveFinalizer, CatalogShape
<1>2. CASE Error(i) /\ api' = api
  BY <1>1, <1>2, ErrorInv
<1>3. CASE Current(i) /\ EndJob(i) /\ api' = [api EXCEPT ![i] = Gone(@)] /\ timers' = timers
  <2>1. PICK r \in Stored : /\ r = Gone(api[i]) /\ r.rv = api[i].rv + 1 /\ Sane(i, r) /\ ~r.exists
    BY <1>1, GoneFacts
  <2>2. i \in group
    BY <1>1, <1>3, CurrentFacts
  <2>3. api' = [api EXCEPT ![i] = r] /\ api'[i] = r /\ jobs' = [jobs EXCEPT ![i] = NoJob]
    BY <1>1, <1>3, <2>1 DEF CatalogShape, EndJob
  <2>4. History(i)'
    BY <2>1, <2>3 DEF History
  <2> QED BY <1>1, <1>3, <2>1, <2>2, <2>3, <2>4, MovedAndDone
<1> QED BY <1>2, <1>3 DEF RemoveFinalizer

\* The reconcile of the Instruction goes on, its ConfigMap written or deleted.
LEMMA InstructionMoved ==
  ASSUME CatalogIndInv, jobs["instruction"].pc # "idle",
         NEW q \in JobRecs, jobs' = [jobs EXCEPT !["instruction"] = q], q.pc # "idle",
         q.copy = jobs["instruction"].copy, q.gen = jobs["instruction"].gen,
         q.pc = "status" => q.verdict \in {"stored", "failed"} /\ jobs["instruction"].pc = "store",
         q.pc # "store",
         UNCHANGED <<group, cross, api, cache, cmCache, waiting, timers, specAt, editsLeft>>,
         faultsLeft' \in Nat, cm' = cm \/ (cm' \in ConfigMaps /\ MapInv'),
         "instruction" \notin waiting /\ q.pc = "status" /\ q.verdict = "stored"
           => Kept("instruction")'
  PROVE  CatalogIndInv'
<1> DEFINE i == "instruction"
<1>1. /\ CatalogShape /\ i \in Objects /\ ObjectInv(i)
  BY DEF CatalogIndInv, Objects
<1>2. jobs'[i] = q
  BY <1>1 DEF CatalogShape
<1>3. Rested(i)'
  BY <1>2 DEF Rested
<1>4. Working(i)'
  <2>1. Working(i)
    BY <1>1 DEF ObjectInv
  <2>2. Aimed(i, q.verdict)'
    BY DEF Aimed
  <2>3. Behind(jobs[i].copy, cache[i])' /\ Sane(i, jobs[i].copy)'
    BY <1>2, <2>1 DEF Working, Behind, Sane
  <2> QED BY <1>2, <2>1, <2>2, <2>3 DEF Working, Possible
<1>5. api[i].exists /\ api[i].born = 1 => q.gen \in 1..api[i].gen
  BY <1>1 DEF ObjectInv, History
<1>6. i \in group
  BY <1>1 DEF ObjectInv, Grouped
<1> QED BY <1>1, <1>3, <1>4, <1>5, <1>6, JobMoved

\* What StoreJob makes of the reconcile.
LEMMA StoreJobFacts ==
  ASSUME CatalogShape, NEW v \in {"stored", "failed"}, StoreJob(v)
  PROVE  \E q \in JobRecs : /\ jobs' = [jobs EXCEPT !["instruction"] = q]
                            /\ q.pc = "status" /\ q.verdict = v
                            /\ q.copy = jobs["instruction"].copy /\ q.gen = jobs["instruction"].gen
<1>1. "instruction" \in Objects /\ jobs["instruction"] \in JobRecs
  BY DEF CatalogShape, Objects
<1>2. PICK q : q = [jobs["instruction"] EXCEPT !.pc = "status", !.verdict = v]
  OBVIOUS
<1>3. /\ q \in JobRecs /\ q.pc = "status" /\ q.verdict = v
      /\ q.copy = jobs["instruction"].copy /\ q.gen = jobs["instruction"].gen
  BY <1>1, <1>2 DEF JobRecs, JobPcs, Verdicts
<1>4. jobs' = [jobs EXCEPT !["instruction"] = q]
  BY <1>1, <1>2 DEF StoreJob, CatalogShape, JobRecs
<1> QED BY <1>3, <1>4

\* The ConfigMap is written, unless the informer's view of it is old.
LEMMA StoreStepInv ==
  ASSUME CatalogIndInv, Store
  PROVE  CatalogIndInv'
<1> DEFINE i == "instruction"
<1>1. /\ CatalogShape /\ MapInv /\ i \in Objects /\ ObjectInv(i)
      /\ jobs[i].pc = "store" /\ faultsLeft' \in Nat
      /\ UNCHANGED <<group, cross, api, cache, cmCache, waiting, timers, specAt, editsLeft, faultsLeft>>
  BY DEF CatalogIndInv, Objects, Store, CatalogShape
<1>2. PICK d : d = jobs[i].copy.spec
  OBVIOUS
<1>3. d \in {"x", "y"} /\ i \in group
  BY <1>1, <1>2 DEF ObjectInv, Working, Sane, SpecsOf, Grouped
<1>4. cm \in ConfigMaps /\ cm.rv \in Nat /\ cmCache.rv \in Nat
  BY <1>1 DEF CatalogShape, ConfigMaps
<1>5. PICK n \in Nat : n = cm.rv + 1
  BY <1>4
<1>6. PICK w \in {"stored", "failed"} :
        /\ StoreJob(w)
        /\ \/ cm' = cm /\ (w = "stored" => cm.data = d)
           \/ cm' = [cm EXCEPT !.data = d, !.rv = n] /\ cm.exists
           \/ cm' = [exists |-> TRUE, data |-> d, ours |-> TRUE, rv |-> n]
  BY <1>2, <1>5 DEF Store
<1>7. PICK c : c = cm'
  OBVIOUS
<1>8. \/ c = cm /\ (w = "stored" => c.data = d)
      \/ c \in ConfigMaps /\ c.exists /\ c.data = d /\ c.rv = n
  <2>1. CASE cm' = [cm EXCEPT !.data = d, !.rv = n] /\ cm.exists
    BY <1>3, <1>4, <1>7, <2>1 DEF ConfigMaps
  <2>2. CASE cm' = [exists |-> TRUE, data |-> d, ours |-> TRUE, rv |-> n]
    BY <1>3, <1>7, <2>2 DEF ConfigMaps
  <2> QED BY <1>6, <1>7, <2>1, <2>2
<1>9. cm' = cm \/ (cm' \in ConfigMaps /\ MapInv')
  <2>1. CASE c \in ConfigMaps /\ c.exists /\ c.data = d /\ c.rv = n
    <3>1. cmCache.rv < c.rv
      BY <1>1, <1>4, <1>5, <2>1 DEF MapInv, Behind
    <3> QED BY <1>1, <1>3, <1>4, <1>5, <1>7, <2>1, <3>1 DEF MapInv, Behind
  <2> QED BY <1>7, <1>8, <2>1
<1>10. PICK q \in JobRecs : /\ jobs' = [jobs EXCEPT ![i] = q]
                            /\ q.pc = "status" /\ q.verdict = w
                            /\ q.copy = jobs[i].copy /\ q.gen = jobs[i].gen
  BY <1>1, <1>6, StoreJobFacts
<1>11. i \notin waiting /\ w = "stored" => Kept(i)'
  <2>1. SUFFICES ASSUME i \notin waiting, w = "stored" PROVE cm'.data = cache'[i].spec
    BY DEF Kept
  <2>2. cache[i].spec = d
    BY <1>1, <1>2, <2>1 DEF ObjectInv, Working
  <2> QED BY <1>1, <1>7, <1>8, <2>1, <2>2
<1> QED BY <1>1, <1>9, <1>10, <1>11, InstructionMoved

\* The ConfigMap of a deleted Instruction is deleted.
LEMMA UnstoreInv ==
  ASSUME CatalogIndInv, Unstore
  PROVE  CatalogIndInv'
<1> DEFINE i == "instruction"
<1>1. /\ CatalogShape /\ MapInv /\ i \in Objects /\ ObjectInv(i)
      /\ jobs[i].pc = "unstore" /\ faultsLeft' \in Nat
      /\ UNCHANGED <<group, cross, api, cache, cmCache, waiting, timers, specAt, editsLeft, faultsLeft>>
  BY DEF CatalogIndInv, Objects, Unstore, CatalogShape
<1>2. cm \in ConfigMaps /\ cm.rv \in Nat /\ cmCache.rv \in Nat /\ i \in group
  BY <1>1 DEF CatalogShape, ConfigMaps, ObjectInv, Grouped
<1>3. PICK n \in Nat : n = cm.rv + 1
  BY <1>2
<1>4. PICK c : c = cm'
  OBVIOUS
<1>5. c = cm \/ c = [NoMap EXCEPT !.rv = n]
  BY <1>3, <1>4 DEF Unstore, NoMap
<1>6. c = cm \/ (c \in ConfigMaps /\ ~c.exists /\ ~c.ours /\ c.rv = n)
  BY <1>5 DEF ConfigMaps, NoMap
<1>7. cm' = cm \/ (cm' \in ConfigMaps /\ MapInv')
  <2>1. CASE c \in ConfigMaps /\ ~c.exists /\ ~c.ours /\ c.rv = n
    <3>1. cmCache.rv < c.rv
      BY <1>1, <1>2, <1>3, <2>1 DEF MapInv, Behind
    <3> QED BY <1>1, <1>2, <1>3, <1>4, <2>1, <3>1 DEF MapInv, Behind
  <2> QED BY <1>4, <1>6, <2>1
<1>8. PICK q : q = [jobs[i] EXCEPT !.pc = "unfinalize"]
  OBVIOUS
<1>9. jobs[i] \in JobRecs
  BY <1>1, ObjectTypes
<1>10. q \in JobRecs /\ q.pc = "unfinalize" /\ q.copy = jobs[i].copy /\ q.gen = jobs[i].gen
  BY <1>8, <1>9 DEF JobRecs, JobPcs
<1>11. jobs' = [jobs EXCEPT ![i] = q]
  BY <1>1, <1>8, <1>9 DEF Unstore, CatalogShape, JobRecs
<1> QED BY <1>1, <1>7, <1>10, <1>11, InstructionMoved

\* A request fails outright.
LEMMA RequestFailsInv ==
  ASSUME CatalogIndInv, NEW o \in Objects, RequestFails(o)
  PROVE  CatalogIndInv'
<1>1. /\ CatalogShape /\ ObjectInv(o) /\ faultsLeft' \in Nat
      /\ UNCHANGED <<group, cross, api, cache, cm, cmCache, waiting, specAt, editsLeft>>
  BY DEF CatalogIndInv, RequestFails, CatalogShape
<1>2. CASE jobs[o].pc # "idle" /\ Error(o)
  BY <1>1, <1>2, ErrorInv
<1>3. CASE jobs[o].pc = "store" /\ StoreJob("failed") /\ timers' = timers
  <2>1. o = "instruction"
    BY <1>1, <1>3 DEF ObjectInv, Working
  <2>2. PICK q \in JobRecs : /\ jobs' = [jobs EXCEPT !["instruction"] = q]
                             /\ q.pc = "status" /\ q.verdict = "failed"
                             /\ q.copy = jobs["instruction"].copy /\ q.gen = jobs["instruction"].gen
    BY <1>1, <1>3, StoreJobFacts
  <2> QED BY <1>1, <1>3, <2>1, <2>2, InstructionMoved
<1> QED BY <1>2, <1>3 DEF RequestFails

\* A user moves the object to a new version; its reconcile goes on.
LEMMA UserMoved ==
  ASSUME CatalogIndInv, NEW o \in Objects, o \in group, NEW r \in Stored,
         r.rv = api[o].rv + 1, api' = [api EXCEPT ![o] = r], Sane(o, r), History(o)',
         (r.exists => api[o].exists) \/ ~cache[o].exists,
         NEW t \in Seq(SpecNames), specAt' = [specAt EXCEPT ![o] = t],
         UNCHANGED <<group, cross, cache, cm, cmCache, jobs, waiting, timers, faultsLeft>>,
         editsLeft' \in Nat
  PROVE  CatalogIndInv'
<1>1. CatalogShape /\ MapInv /\ ObjectInv(o)
  BY DEF CatalogIndInv
<1>2. /\ api'[o] = r /\ \A p \in Objects : p # o => api'[p] = api[p]
      /\ \A p \in Objects : p # o => specAt'[p] = specAt[p]
  BY <1>1 DEF CatalogShape
<1>3. ObjectInv(o)'
  BY <1>1, ApiMoved
<1>4. CatalogShape'
  BY <1>1 DEF CatalogShape
<1>5. MapInv'
  BY <1>1 DEF MapInv
<1> QED BY <1>2, <1>3, <1>4, <1>5, OneObject

\* The specs there are.
LEMMA SpecFacts == \A o \in Objects : SpecsOf(o) \subseteq SpecNames \ {"none"}
BY DEF Objects, SpecsOf, SpecNames

\* An edit makes a generation: what is said of the earlier ones stays so.
LEMMA EditSpecInv ==
  ASSUME CatalogIndInv, NEW o \in Objects, EditSpec(o)
  PROVE  CatalogIndInv'
<1>1. /\ CatalogShape /\ ObjectInv(o) /\ api[o].exists /\ ~api[o].deleting /\ editsLeft' \in Nat
      /\ UNCHANGED <<group, cross, cache, cm, cmCache, jobs, waiting, timers, faultsLeft>>
  BY DEF CatalogIndInv, EditSpec, UserEdit, CatalogShape
<1>2. PICK s \in SpecsOf(o) : /\ s # api[o].spec
                              /\ Put(o, [api[o] EXCEPT !.spec = s, !.gen = @ + 1])
                              /\ specAt' = [specAt EXCEPT ![o] = Append(@, s)]
  BY DEF EditSpec
<1>3. /\ api[o] \in Stored /\ api[o].gen \in Nat /\ api[o].rv \in Nat /\ api[o].born \in Nat
      /\ cache[o].gen \in Nat /\ jobs[o].gen \in Nat /\ api[o].status.gen \in Nat
      /\ specAt[o] \in Seq(SpecNames) /\ s \in SpecNames
  BY <1>1, ObjectTypes, SpecFacts
<1>4. PICK g \in Nat : g = api[o].gen + 1
  BY <1>3
<1>5. PICK new : new = [api[o] EXCEPT !.spec = s, !.gen = g] /\ Put(o, new)
  BY <1>2, <1>4
<1>6. /\ new \in Stored /\ new.status = api[o].status /\ new.exists = api[o].exists
      /\ new.deleting = api[o].deleting /\ new.finalizer = api[o].finalizer
      /\ new.gen = g /\ new.spec = s /\ new.born = api[o].born /\ new.rv = api[o].rv
  BY <1>3, <1>5 DEF Stored
<1>7. new # api[o]
  BY <1>2, <1>6
<1>8. PICK r \in Stored :
              /\ api' = [api EXCEPT ![o] = r] /\ r.rv = api[o].rv + 1
              /\ r.exists = new.exists /\ r.deleting = new.deleting /\ r.finalizer = new.finalizer
              /\ r.gen = new.gen /\ r.spec = new.spec /\ r.born = new.born /\ r.status = new.status
  BY <1>1, <1>5, <1>6, <1>7, PutFacts
<1>9. api'[o] = r
  BY <1>1, <1>8 DEF CatalogShape
<1>10. Sane(o, r)
  BY <1>1, <1>3, <1>4, <1>6, <1>8 DEF ObjectInv, Sane
<1>11. PICK t : t = Append(specAt[o], s)
  OBVIOUS
<1>12. /\ t \in Seq(SpecNames) /\ Len(t) = Len(specAt[o]) + 1 /\ t[Len(specAt[o]) + 1] = s
       /\ \A k \in 1..Len(specAt[o]) : t[k] = specAt[o][k]
  BY <1>3, <1>11
<1>13. specAt' = [specAt EXCEPT ![o] = t] /\ specAt'[o] = t
  BY <1>1, <1>2, <1>11 DEF CatalogShape
<1>14. History(o)'
  <2>1. History(o) /\ Len(specAt[o]) = api[o].gen
    BY <1>1 DEF ObjectInv, History
  <2>2. Len(t) = g /\ t[g] = s /\ \A k \in 1..api[o].gen : t[k] = specAt[o][k]
    BY <1>4, <1>12, <2>1
  <2>3. cache[o].exists => cache[o].gen >= 1
    BY <1>1 DEF ObjectInv, Sane
  <2>4. \A k \in Nat : k <= api[o].gen => k <= g
    BY <1>3, <1>4
  <2>5. \A k \in Nat : k # 0 /\ k <= api[o].gen => k \in 1..api[o].gen
    BY <1>3
  <2>6. \A k \in 1..api[o].gen : k \in 1..g
    BY <1>3, <1>4
  <2>7. api'[o].born = 1 =>
         /\ api'[o].status.gen <= api'[o].gen
         /\ cache'[o].exists => cache'[o].gen <= api'[o].gen /\ cache'[o].spec = t[cache'[o].gen]
         /\ jobs'[o].pc # "idle" => jobs'[o].gen \in 1..api'[o].gen
    <3>1. SUFFICES ASSUME api[o].born = 1
                   PROVE  /\ api[o].status.gen <= g
                          /\ cache[o].exists => cache[o].gen <= g /\ cache[o].spec = t[cache[o].gen]
                          /\ jobs[o].pc # "idle" => jobs[o].gen \in 1..g
      BY <1>1, <1>6, <1>8, <1>9
    <3> QED BY <1>1, <1>3, <2>1, <2>2, <2>3, <2>4, <2>5, <2>6, <3>1 DEF History
  <2>8. api'[o].born = 1 /\ o = "provider" =>
          /\ api'[o].status.gen # 0
               => api'[o].status.verdict = ValidateProvider(t[api'[o].status.gen])
          /\ jobs'[o].pc = "status" => jobs'[o].verdict = ValidateProvider(t[jobs'[o].gen])
    <3>1. SUFFICES ASSUME api[o].born = 1, o = "provider"
                   PROVE  /\ api[o].status.gen # 0
                               => api[o].status.verdict = ValidateProvider(t[api[o].status.gen])
                          /\ jobs[o].pc = "status" => jobs[o].verdict = ValidateProvider(t[jobs[o].gen])
      BY <1>1, <1>6, <1>8, <1>9
    <3>2. api[o].status.gen # 0 => api[o].status.gen \in 1..api[o].gen
      BY <1>1, <1>3, <2>1, <2>5, <3>1 DEF History
    <3>3. jobs[o].pc = "status" => jobs[o].gen \in 1..api[o].gen
      BY <1>1, <2>1, <3>1 DEF History
    <3> QED BY <1>1, <2>1, <2>2, <3>1, <3>2, <3>3 DEF History
  <2> QED BY <1>6, <1>8, <1>9, <1>13, <2>2, <2>7, <2>8 DEF History
<1>15. o \in group
  BY <1>1 DEF ObjectInv, Grouped, Absent
<1> QED BY <1>1, <1>8, <1>10, <1>12, <1>13, <1>14, <1>15, UserMoved

\* A deletion: at once, or by way of the finalizer.
LEMMA DeleteObjectInv ==
  ASSUME CatalogIndInv, NEW o \in Objects, DeleteObject(o)
  PROVE  CatalogIndInv'
<1>1. /\ CatalogShape /\ ObjectInv(o) /\ api[o].exists /\ editsLeft' \in Nat
      /\ UNCHANGED <<group, cross, cache, cm, cmCache, jobs, waiting, timers, specAt, faultsLeft>>
  BY DEF CatalogIndInv, DeleteObject, UserEdit, CatalogShape
<1>2. o \in group
  BY <1>1 DEF ObjectInv, Grouped, Absent
<1>3. PICK t \in Seq(SpecNames) : specAt' = [specAt EXCEPT ![o] = t]
  BY <1>1, ObjectTypes DEF CatalogShape
<1>4. CASE api' = [api EXCEPT ![o] = Gone(@)]
  <2>1. PICK r \in Stored : /\ r = Gone(api[o]) /\ r.rv = api[o].rv + 1 /\ Sane(o, r) /\ ~r.exists
    BY <1>1, GoneFacts
  <2>2. api' = [api EXCEPT ![o] = r] /\ api'[o] = r
    BY <1>1, <1>4, <2>1 DEF CatalogShape
  <2>3. History(o)'
    BY <2>1, <2>2 DEF History
  <2> QED BY <1>1, <1>2, <1>3, <2>1, <2>2, <2>3, UserMoved
<1>5. CASE api[o].finalizer /\ Put(o, [api[o] EXCEPT !.deleting = TRUE])
  <2>1. api[o] \in Stored /\ api[o].rv \in Nat /\ api[o].born \in Nat
    BY <1>1, ObjectTypes
  <2>2. PICK new : new = [api[o] EXCEPT !.deleting = TRUE] /\ Put(o, new)
    BY <1>5
  <2>3. /\ new \in Stored /\ new.status = api[o].status /\ new.exists = api[o].exists
        /\ new.deleting = TRUE /\ new.finalizer = api[o].finalizer
        /\ new.gen = api[o].gen /\ new.spec = api[o].spec /\ new.born = api[o].born
        /\ new.rv = api[o].rv
    BY <2>1, <2>2 DEF Stored
  <2>4. new # api[o]
    BY <2>3 DEF DeleteObject
  <2>5. PICK r \in Stored :
              /\ api' = [api EXCEPT ![o] = r] /\ r.rv = api[o].rv + 1
              /\ r.exists = new.exists /\ r.deleting = new.deleting /\ r.finalizer = new.finalizer
              /\ r.gen = new.gen /\ r.spec = new.spec /\ r.born = new.born /\ r.status = new.status
    BY <1>1, <2>2, <2>3, <2>4, PutFacts
  <2>6. api'[o] = r
    BY <1>1, <2>5 DEF CatalogShape
  <2>7. Sane(o, r)
    BY <1>1, <1>5, <2>1, <2>3, <2>5 DEF ObjectInv, Sane
  <2>8. History(o)'
    BY <1>1, <2>3, <2>5, <2>6 DEF ObjectInv, History
  <2> QED BY <1>1, <1>2, <1>3, <2>3, <2>5, <2>7, <2>8, UserMoved
<1> QED BY <1>4, <1>5 DEF DeleteObject

\* What New makes.
LEMMA NewFacts ==
  ASSUME NEW o \in Objects, NEW s \in SpecsOf(o), NEW v \in Nat, v >= 1
  PROVE  \E r \in Stored : /\ r = New(s, v) /\ r.exists /\ ~r.deleting /\ r.gen = 1 /\ r.spec = s
                           /\ r.rv = v /\ r.born = v /\ r.status = NoVerdict /\ Sane(o, r)
<1>1. PICK r : r = [Absent EXCEPT !.exists = TRUE, !.gen = 1, !.spec = s, !.rv = v, !.born = v]
  OBVIOUS
<1>2. s \in SpecNames /\ Absent \in Stored
  BY SpecFacts, NoJobFacts
<1>3. /\ r \in Stored /\ r.exists = TRUE /\ r.deleting = FALSE /\ r.gen = 1 /\ r.spec = s
      /\ r.rv = v /\ r.born = v /\ r.status = NoVerdict
  BY <1>1, <1>2 DEF Stored, Absent
<1>4. Sane(o, r)
  BY <1>3 DEF Sane
<1> QED BY <1>1, <1>3, <1>4 DEF New

\* A provider is created, under a name a deleted one may have had: a reconcile of that
\* one that is still under way has an event to come.
LEMMA CreateProviderInv ==
  ASSUME CatalogIndInv, CreateProvider
  PROVE  CatalogIndInv'
<1> DEFINE o == "provider"
<1>1. /\ CatalogShape /\ o \in Objects /\ ObjectInv(o) /\ ~api[o].exists /\ editsLeft' \in Nat
      /\ o \in group /\ api[o] = cache[o]
      /\ UNCHANGED <<group, cross, cache, cm, cmCache, jobs, waiting, timers, faultsLeft>>
  BY DEF CatalogIndInv, Objects, CreateProvider, UserEdit, CatalogShape
<1>2. PICK s \in SpecsOf(o) : /\ api' = [api EXCEPT ![o] = New(s, @.rv + 1)]
                              /\ specAt' = [specAt EXCEPT ![o] = <<s>>]
  BY DEF CreateProvider
<1>3. api[o].rv \in Nat /\ cache[o].rv \in Nat /\ jobs[o].copy.rv \in Nat /\ s \in SpecNames
      /\ jobs[o].copy.born \in Nat /\ jobs[o].pc \in JobPcs
  BY <1>1, ObjectTypes, SpecFacts DEF Stored
<1>4. PICK v \in Nat : v = api[o].rv + 1 /\ v >= 1
  BY <1>3
<1>5. PICK r \in Stored : /\ r = New(s, v) /\ r.exists /\ ~r.deleting /\ r.gen = 1 /\ r.spec = s
                          /\ r.rv = v /\ r.born = v /\ r.status = NoVerdict /\ Sane(o, r)
  BY <1>1, <1>4, NewFacts
<1>6. api' = [api EXCEPT ![o] = r] /\ api'[o] = r
  BY <1>1, <1>2, <1>4, <1>5 DEF CatalogShape
<1>7. PICK t : t = <<s>>
  OBVIOUS
<1>8. t \in Seq(SpecNames) /\ Len(t) = 1 /\ t[1] = s
  BY <1>3, <1>7
<1>9. specAt' = [specAt EXCEPT ![o] = t] /\ specAt'[o] = t
  BY <1>1, <1>2, <1>7 DEF CatalogShape
<1>10. v = 1 => jobs[o].pc = "idle"
  <2>1. SUFFICES ASSUME v = 1, jobs[o].pc # "idle" PROVE FALSE
    OBVIOUS
  <2>2. jobs[o].copy.rv >= 1 /\ jobs[o].copy.rv <= cache[o].rv
    BY <1>1, <1>3, <2>1 DEF ObjectInv, Working, Sane, Behind
  <2> QED BY <1>1, <1>3, <1>4, <2>1, <2>2
<1>11. NoVerdict.gen = 0
  BY DEF NoVerdict
<1>12. History(o)'
  <2>1. /\ api'[o].gen = 1 /\ api'[o].spec = s /\ api'[o].born = v /\ api'[o].status.gen = 0
        /\ cache'[o] = cache[o] /\ ~cache'[o].exists /\ jobs'[o] = jobs[o]
    BY <1>1, <1>5, <1>6, <1>11
  <2>2. Len(specAt'[o]) = 1 /\ specAt'[o][1] = s
    BY <1>8, <1>9
  <2>3. api'[o].born = 1 => jobs'[o].pc = "idle"
    BY <1>10, <2>1
  <2> QED BY <2>1, <2>2, <2>3 DEF History
<1> QED BY <1>1, <1>4, <1>5, <1>6, <1>8, <1>9, <1>12, UserMoved

\* At first every object there is is queued, and nothing is under way.
LEMMA CatalogStarts == CatalogInit => CatalogIndInv
<1> SUFFICES ASSUME CatalogInit PROVE CatalogIndInv
  OBVIOUS
<1>1. /\ cache = api /\ cm = NoMap /\ cmCache = NoMap /\ jobs = [o \in Objects |-> NoJob]
      /\ waiting = {o \in group : api[o].exists} /\ timers = {} /\ cross \in BOOLEAN
      /\ specAt = [o \in Objects |-> <<api[o].spec>>]
      /\ group \subseteq Objects /\ editsLeft \in Nat /\ faultsLeft \in Nat
  BY CatalogAssumption DEF CatalogInit, Objects
<1>2. ASSUME NEW o \in Objects
      PROVE  /\ api[o] \in Stored /\ api[o].status = NoVerdict /\ Sane(o, api[o])
             /\ o \notin group => api[o] = Absent
             /\ api[o].exists => api[o].gen = 1
  <2>1. api[o] = Absent \/ \E p \in Objects : \E s \in SpecsOf(p) : api[o] = New(s, 1)
    <3>1. api[o] \in FirstObjects
      BY DEF CatalogInit
    <3>2. CASE api[o] # Absent
      <4>1. PICK s \in UNION {SpecsOf(p) : p \in Objects} : api[o] = New(s, 1)
        BY <3>1, <3>2 DEF FirstObjects
      <4>2. PICK p \in Objects : s \in SpecsOf(p)
        OBVIOUS
      <4> QED BY <4>1, <4>2
    <3> QED BY <3>2
  <2>2. o \notin group => api[o] = Absent
    BY DEF CatalogInit
  <2>3. CASE api[o] = Absent
    BY <2>3, NoJobFacts DEF Absent, Sane
  <2>4. ASSUME NEW p \in Objects, NEW s \in SpecsOf(p), api[o] = New(s, 1), o \in group
        PROVE  /\ api[o] \in Stored /\ api[o].status = NoVerdict /\ Sane(o, api[o]) /\ api[o].gen = 1
    <3>1. PICK r \in Stored : /\ r = New(s, 1) /\ r.exists /\ ~r.deleting /\ r.gen = 1 /\ r.spec = s
                              /\ r.rv = 1 /\ r.born = 1 /\ r.status = NoVerdict /\ Sane(p, r)
      BY NewFacts
    <3>2. r.spec \in SpecsOf(o)
      BY <2>4, <3>1 DEF CatalogInit
    <3>3. Sane(o, r)
      BY <3>1, <3>2 DEF Sane
    <3> QED BY <2>4, <3>1, <3>3
  <2>5. CASE o \notin group
    BY <2>2, <2>3, <2>5 DEF Absent
  <2>6. ~Absent.exists
    BY DEF Absent
  <2> QED BY <2>1, <2>2, <2>3, <2>4, <2>5, <2>6
<1>3. NoMap \in ConfigMaps /\ ~NoMap.ours /\ ~NoMap.exists /\ NoMap.rv \in Nat
  BY DEF NoMap, ConfigMaps
<1>4. CatalogShape
  <2>1. api \in [Objects -> Stored]
    BY <1>2 DEF CatalogInit
  <2>2. specAt \in [Objects -> Seq(SpecNames)]
    <3>1. \A o \in Objects : api[o].spec \in SpecNames
      BY <2>1 DEF Stored
    <3> QED BY <1>1, <3>1
  <2>3. jobs \in [Objects -> JobRecs]
    BY <1>1, NoJobFacts
  <2> QED BY <1>1, <1>3, <2>1, <2>2, <2>3 DEF CatalogShape
<1>5. MapInv
  BY <1>1, <1>3 DEF MapInv, Behind
<1>6. ASSUME NEW o \in Objects PROVE ObjectInv(o)
  <2>1. /\ api[o] \in Stored /\ api[o].status = NoVerdict /\ Sane(o, api[o]) /\ api[o].rv \in Nat
        /\ jobs[o] = NoJob /\ cache[o] = api[o] /\ specAt[o] = <<api[o].spec>>
    BY <1>1, <1>2, <1>4, ObjectTypes
  <2>2. jobs[o].pc = "idle" /\ NoVerdict.gen = 0
    BY <2>1, NoJobFacts DEF NoVerdict
  <2>3. Behind(cache[o], api[o]) /\ Working(o) /\ Grouped(o)
    BY <1>2, <2>1, <2>2 DEF Behind, Working, Grouped
  <2>4. Rested(o)
    BY <1>1, <1>2 DEF Rested, Absent
  <2>5. History(o)
    <3>1. SUFFICES ASSUME api[o].exists PROVE History(o)
      BY DEF History
    <3>2. api[o].gen = 1 /\ Len(specAt[o]) = 1 /\ specAt[o][1] = api[o].spec
      BY <1>2, <2>1, <3>1
    <3> QED BY <2>1, <2>2, <3>2 DEF History
  <2> QED BY <2>1, <2>3, <2>4, <2>5 DEF ObjectInv
<1> QED BY <1>4, <1>5, <1>6 DEF CatalogIndInv

\* A step that changes nothing.
LEMMA CatalogStutters ==
  ASSUME CatalogIndInv, UNCHANGED catalogVars
  PROVE  CatalogIndInv'
<1>1. CatalogShape' /\ MapInv'
  BY DEF CatalogIndInv, catalogVars, CatalogShape, MapInv, Behind
<1>2. ASSUME NEW p \in Objects PROVE ObjectInv(p)'
  BY ObjectFrame DEF CatalogIndInv, catalogVars
<1> QED BY <1>1, <1>2 DEF CatalogIndInv

\* Every step keeps the invariant.
LEMMA CatalogStep ==
  ASSUME CatalogIndInv, [CatalogNext]_catalogVars
  PROVE  CatalogIndInv'
<1>1. ASSUME NEW o \in Objects, Work(o) PROVE CatalogIndInv'
  BY <1>1, TakeGoneInv, StatusWrittenInv, StatusConflictInv, TakesInv, FinalizerWriteInv,
     StoreStepInv, UnstoreInv, RemoveFinalizerInv DEF Work
<1>2. ASSUME NEW o \in Objects,
             Observe(o) \/ TimerEnds(o) \/ RequestFails(o) \/ EditSpec(o) \/ DeleteObject(o)
      PROVE  CatalogIndInv'
  BY <1>2, ObserveInv, TimerEndsInv, RequestFailsInv, EditSpecInv, DeleteObjectInv
<1>3. CASE ObserveConfigMap \/ CreateProvider \/ ForeignConfigMap \/ Collect
  BY <1>3, ObserveConfigMapInv, CreateProviderInv, ForeignConfigMapInv, CollectInv
<1> QED BY <1>1, <1>2, <1>3, CatalogStutters DEF CatalogNext

\* The invariant gives what the run checks: at rest both exceptions of Rested are
\* settled, the informer's view being the API server's.
LEMMA CatalogFollows == CatalogIndInv => CatalogInv
<1> SUFFICES ASSUME CatalogIndInv PROVE CatalogInv
  OBVIOUS
<1>1. CatalogShape /\ MapInv /\ \A o \in Objects : ObjectInv(o)
  BY DEF CatalogIndInv
<1>2. CatalogTypeOK
  <2>1. ASSUME NEW o \in Objects
        PROVE  /\ api[o].exists => /\ api[o].spec \in SpecsOf(o)
                                   /\ api[o].born = 1 => api[o].status.gen <= api[o].gen
               /\ jobs[o].pc \in JobPcs /\ jobs[o].tries \in 0..StatusTries
               /\ jobs[o].pc # "idle" => o \in group /\ jobs[o].copy.exists
    BY <1>1, ObjectTypes DEF ObjectInv, Sane, History, Working, Grouped
  <2>2. cmCache.rv <= cm.rv /\ (cm.exists => cm.data \in {"x", "y", "foreign"})
    BY <1>1 DEF CatalogShape, MapInv, Behind, ConfigMaps
  <2> QED BY <1>1, <2>1, <2>2 DEF CatalogTypeOK, CatalogShape, JobPcs
<1>3. ProviderVerdictIsOfItsGeneration
  BY <1>1 DEF ProviderVerdictIsOfItsGeneration, Objects, ObjectInv, History
<1>4. RestsOnlyWhenRight
  <2>1. SUFFICES ASSUME NEW o \in group, Quiet(o), o = "instruction" => cmCache = cm, api[o].exists
                 PROVE  StatusIsRight(o) \/ OutOfSight(o)
    BY DEF RestsOnlyWhenRight
  <2>2. o \in Objects /\ ObjectInv(o) /\ api[o].status \in Statuses
    BY <1>1, ObjectTypes DEF CatalogShape
  <2>3. /\ jobs[o].pc = "idle" /\ o \notin waiting /\ o \notin timers /\ cache[o] = api[o]
        /\ o = "model" => cache["provider"] = api["provider"]
    BY <2>1 DEF Quiet
  <2>4. /\ api[o].status.gen = api[o].gen
        /\ api[o].status.verdict \in Possible(o) \ {"NotFound", "NotReady", "failed"}
        /\ Aimed(o, api[o].status.verdict)
        /\ o = "instruction" => ~api[o].deleting
        /\ Kept(o)
    BY <2>1, <2>2, <2>3 DEF ObjectInv, Rested
  <2>5. api[o].status = [verdict |-> api[o].status.verdict, gen |-> api[o].gen]
    BY <2>2, <2>4 DEF Statuses
  <2>6. CASE o = "provider"
    BY <2>3, <2>4, <2>5, <2>6 DEF StatusIsRight, Aimed
  <2>7. CASE o = "tool"
    BY <2>3, <2>4, <2>5, <2>7 DEF StatusIsRight, Aimed
  <2>8. CASE o = "model"
    <3>1. CASE cross
      BY <2>4, <2>8, <3>1 DEF OutOfSight, Possible, Resolved
    <3>2. CASE ~cross
      BY <2>3, <2>4, <2>5, <2>8, <3>2 DEF StatusIsRight, Aimed
    <3> QED BY <3>1, <3>2
  <2>9. CASE o = "instruction"
    <3>1. api[o].status.verdict = "stored"
      BY <2>4, <2>9 DEF Possible
    <3>2. CASE ~cm.ours
      BY <2>9, <3>1, <3>2 DEF OutOfSight
    <3>3. CASE cm.ours
      <4>1. cm.exists /\ cm.data = api[o].spec
        BY <1>1, <2>1, <2>3, <2>4, <2>9, <3>3 DEF MapInv, Kept
      <4> QED BY <2>4, <2>5, <2>9, <3>1, <4>1 DEF StatusIsRight
    <3> QED BY <3>2, <3>3
  <2> QED BY <2>2, <2>6, <2>7, <2>8, <2>9 DEF Objects
<1> QED BY <1>2, <1>3, <1>4 DEF CatalogInv

\* The catalogue's controllers, for any edits, deletions, failed requests and attempts
\* per status write: what a ModelProvider's status says of a generation is what
\* validation says of it, and a controller rests only on a status that is right for
\* the spec, the provider and the ConfigMap there are.
THEOREM CatalogRests == CatalogSpec => []CatalogInv
<1>1. CatalogInit => CatalogIndInv
  BY CatalogStarts
<1>2. CatalogIndInv /\ [CatalogNext]_catalogVars => CatalogIndInv'
  BY CatalogStep
<1>3. CatalogIndInv => CatalogInv
  BY CatalogFollows
<1> QED BY <1>1, <1>2, <1>3, PTL DEF CatalogSpec
=============================================================================
