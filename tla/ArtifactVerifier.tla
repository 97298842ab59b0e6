-------------------------- MODULE ArtifactVerifier --------------------------
(***************************************************************************)
(* CosignVerifier: what Verify answers about one digest-pinned artifact,   *)
(* as a function of the registry, the credentials and the trusted root,    *)
(* and the in-process cache of the sigstore trusted root it depends on.    *)
(***************************************************************************)
EXTENDS Integers

CONSTANTS
  Layers,    \* layers a signature manifest may carry
  MaxLayers, \* bound on their number
  MaxRoot,   \* bound on the rotations of sigstore's key material
  NULL

\* A manifest layer: whether its media type is a cosign signature's, what
\* downloading its payload gives, who signed it and, keyless, which rotation
\* of the trusted root that needs, and whether it claims the pinned digest.
ASSUME LayersAssumption ==
  \A l \in Layers : /\ l.simple \in BOOLEAN /\ l.claims \in BOOLEAN
                    /\ l.payload \in {"ok", "notfound", "error"}
                    /\ l.signer \in {"nobody", "key", "keyless"}
                    /\ l.since \in 1..MaxRoot

ASSUME VerifierBounds == MaxLayers \in Nat /\ MaxRoot \in Nat \ {0}

VARIABLES
  keyMode,         \* configured with a public key, else keyless
  root, rootFresh, \* the cached trusted root (its rotation) and its TTL
  tuf, tufUp,      \* what TUF serves, and whether it can be reached
  call, answer     \* the Verify under way: its input and its answer

verifierVars == <<keyMode, root, rootFresh, tuf, tufUp, call, answer>>

-----------------------------------------------------------------------------
Manifests == UNION {[1..n -> Layers] : n \in 0..MaxLayers}

Calls == [pinned : BOOLEAN, refOk : BOOLEAN, keychain : BOOLEAN,
          fetch : {"ok", "notfound", "error"}, layers : Manifests]

Answers == {"ok", "missing", "invalid", "transient"}

ASSUME NoCallAssumption == NULL \notin Calls \cup Answers \cup 1..MaxRoot

\* Mutant of ClassifyFetchError: any failed download means "no signature".
ClassifyFetchMissing(e) == "missing"

\* A missing manifest or blob is a verdict, any other failure is not.
ClassifyFetchError(e) == IF e = "notfound" THEN "missing" ELSE "transient"

SignatureLayers(m) == {i \in DOMAIN m : m[i].simple}

\* The sigstore bundle in the layer's annotations is complete, and its
\* certificate and log entries are vouched for by root r.
BundleHolds(l, r) == l.signer = "keyless" /\ l.since <= r

\* Does the signature of layer l verify with the key, or against root r?
SignatureHolds(l, r) == IF keyMode THEN l.signer = "key" ELSE BundleHolds(l, r)

\* Mutant of LayerVerdict: the digest claim is not checked.
LayerVerdictAnyDigest(l, r) ==
  IF l.payload # "ok" THEN ClassifyFetchError(l.payload)
  ELSE IF SignatureHolds(l, r) THEN "ok" ELSE "next"

\* What one layer decides: an answer, or to look at the next.
LayerVerdict(l, r) ==
  IF l.payload # "ok" THEN ClassifyFetchError(l.payload)
  ELSE IF SignatureHolds(l, r) /\ l.claims THEN "ok" ELSE "next"

\* Mutant of LayersVerdict: the loop ends and nothing is returned.
LayersVerdictFallsOff(m, r) ==
  LET decided == {i \in SignatureLayers(m) : LayerVerdict(m[i], r) # "next"}
  IN IF decided = {} THEN "next"
     ELSE LayerVerdict(m[CHOOSE i \in decided : \A j \in decided : i <= j], r)

\* The loop over the signature layers: the first that decides, decides.
LayersVerdict(m, r) ==
  LET decided == {i \in SignatureLayers(m) : LayerVerdict(m[i], r) # "next"}
  IN IF decided = {} THEN "invalid"
     ELSE LayerVerdict(m[CHOOSE i \in decided : \A j \in decided : i <= j], r)

\* Verify, given the trusted root r it would use (NULL: not to be had).
Verdict(c, r) ==
  IF ~c.pinned \/ ~c.refOk THEN "invalid"
  ELSE IF ~c.keychain THEN "transient"
  ELSE IF c.fetch # "ok" THEN ClassifyFetchError(c.fetch)
  ELSE IF SignatureLayers(c.layers) = {} THEN "missing"
  ELSE IF ~keyMode /\ r = NULL THEN "transient"
  ELSE LayersVerdict(c.layers, r)

\* Is the trusted root asked for?
NeedsRoot(c) == /\ ~keyMode /\ c.pinned /\ c.refOk /\ c.keychain /\ c.fetch = "ok"
                /\ SignatureLayers(c.layers) # {}

\* Mutant of ServedRoot: an expired root is dropped when TUF is down.
ServedRootExpires == IF root # NULL /\ rootFresh THEN root ELSE IF tufUp THEN tuf ELSE NULL

\* fetchTrustedRoot: the cached root within its TTL, else TUF's, else the
\* stale one.
ServedRoot == IF root # NULL /\ rootFresh THEN root ELSE IF tufUp THEN tuf ELSE root

-----------------------------------------------------------------------------
VerifierInit ==
  /\ keyMode \in BOOLEAN
  /\ root = NULL /\ rootFresh = FALSE
  /\ tuf = 1 /\ tufUp \in BOOLEAN
  /\ call = NULL /\ answer = NULL

Verify(c) ==
  /\ call = NULL
  /\ call' = c
  /\ answer' = Verdict(c, ServedRoot)
  /\ IF NeedsRoot(c) /\ tufUp /\ (root = NULL \/ ~rootFresh)
       THEN root' = tuf /\ rootFresh' = TRUE
       ELSE UNCHANGED <<root, rootFresh>>
  /\ UNCHANGED <<keyMode, tuf, tufUp>>

\* The reconcile takes the answer away.
Return == /\ call # NULL /\ call' = NULL /\ answer' = NULL
          /\ UNCHANGED <<keyMode, root, rootFresh, tuf, tufUp>>

\* trustedRootTTL passes.
RootExpires == /\ rootFresh /\ rootFresh' = FALSE
               /\ UNCHANGED <<keyMode, root, tuf, tufUp, call, answer>>

\* TUF goes away or comes back.
TufFlips == /\ tufUp' = ~tufUp
            /\ UNCHANGED <<keyMode, root, rootFresh, tuf, call, answer>>

\* Sigstore rotates its key material.
Rotate == /\ tuf < MaxRoot /\ tuf' = tuf + 1
          /\ UNCHANGED <<keyMode, root, rootFresh, tufUp, call, answer>>

VerifierNext == (\E c \in Calls : Verify(c)) \/ Return \/ RootExpires \/ TufFlips \/ Rotate

VerifierSpec == VerifierInit /\ [][VerifierNext]_verifierVars

-----------------------------------------------------------------------------
(* Properties. *)

\* Verify gives one of its four answers, and the cached root is a rotation that
\* sigstore has had.
VerifierTypeOK ==
  /\ keyMode \in BOOLEAN /\ rootFresh \in BOOLEAN /\ tufUp \in BOOLEAN
  /\ root \in 1..MaxRoot \cup {NULL} /\ tuf \in 1..MaxRoot
  /\ call \in Calls \cup {NULL} /\ answer \in Answers \cup {NULL}

Approves(l) == /\ l.simple /\ l.payload = "ok" /\ l.claims
               /\ IF keyMode THEN l.signer = "key"
                             ELSE l.signer = "keyless" /\ l.since <= tuf

\* "ok" is an answer about this artifact: a signature layer was downloaded, its
\* signature holds under key material that is or was trusted, and it claims the
\* pinned digest; no other image's signature passes.
VerifiedIsSigned ==
  answer = "ok" => \E i \in DOMAIN call.layers : Approves(call.layers[i])

\* A negative answer is a verdict about what the registry holds: no credential
\* trouble, no failed download before the decision, no missing trust root.
NegativeIsDefinitive ==
  answer \in {"missing", "invalid"} /\ call.pinned /\ call.refOk =>
    /\ call.keychain /\ call.fetch # "error"
    /\ answer = "invalid" => \A i \in DOMAIN call.layers :
                               call.layers[i].simple => call.layers[i].payload = "ok"
    /\ answer = "missing" /\ call.fetch = "ok" =>
         \A i \in DOMAIN call.layers : call.layers[i].simple =>
           \E j \in DOMAIN call.layers :
             call.layers[j].simple /\ call.layers[j].payload = "notfound"

\* The verifier's answers are earned: "verified" by a signature over this very
\* digest, a negative verdict by having looked.
VerifierInv == VerifierTypeOK /\ VerifiedIsSigned /\ NegativeIsDefinitive

\* Once a trusted root was fetched, TUF being away costs no verdict: an answer
\* of "transient" is then the registry's or the credentials' fault.
RootOutlivesOutage ==
  [][root # NULL /\ call = NULL /\ answer' = "transient" =>
       \/ ~call'.keychain \/ call'.fetch = "error"
       \/ \E i \in DOMAIN call'.layers : call'.layers[i].payload = "error"]_verifierVars

=============================================================================
