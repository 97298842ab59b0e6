----------------------------- MODULE MCOperator -----------------------------
(* Parts of the operator process that share no state: a start of it with the *)
(* delivery probe, the controllers of the catalogue, and the signature        *)
(* verifier. A behaviour is one part's; the others keep a quiet state.        *)
EXTENDS ArtifactVerifier, DeliveryProbe, CatalogControllers

VARIABLE part

Parts == {"verifier", "probe", "catalog"}

----------------------------------------------------------------------------
\* One layer for every way a layer of a signature manifest can fare.
Layer(simple, payload, signer, since, claims) ==
    [simple |-> simple, payload |-> payload, signer |-> signer, since |-> since,
     claims |-> claims]
SomeLayers ==
    { Layer(FALSE, "ok", "nobody", 1, FALSE),   \* not a signature
      Layer(TRUE, "ok", "key", 1, TRUE),        \* good with the key
      Layer(TRUE, "ok", "keyless", 1, TRUE),    \* good under the first root
      Layer(TRUE, "ok", "keyless", 2, TRUE),    \* good after a rotation
      Layer(TRUE, "ok", "key", 1, FALSE),       \* another image's signature
      Layer(TRUE, "ok", "keyless", 1, FALSE),
      Layer(TRUE, "ok", "nobody", 1, TRUE),     \* does not verify
      Layer(TRUE, "error", "key", 1, TRUE),     \* payload cannot be had
      Layer(TRUE, "notfound", "key", 1, TRUE) }

\* The flags, how the cluster treats image volumes before and after its upgrade,
\* and the bounds on starts and on failed requests.
Deployment(mode, required, cosign, old, new, startLimit, faultLimit) ==
    [mode |-> mode, requireVerified |-> required, cosign |-> cosign,
     cluster |-> <<old, new>>, starts |-> startLimit, faults |-> faultLimit]
Idle == Deployment("auto", FALSE, FALSE, "works", "works", 0, 0)
SomeDeployments ==
    { Deployment("auto", FALSE, FALSE, "works", "stuck", 3, 0),
      Deployment("auto", FALSE, FALSE, "works", "fails", 2, 1),
      Deployment("auto", FALSE, FALSE, "strips", "works", 2, 1),
      Deployment("auto", FALSE, FALSE, "rejects", "works", 2, 1),
      Deployment("auto", TRUE, FALSE, "works", "works", 2, 0),
      Deployment("imageVolume", TRUE, TRUE, "stuck", "works", 2, 1),
      Deployment("typo", FALSE, FALSE, "works", "works", 2, 1), Idle }

\* Which objects there are, and the bounds on edits and failed requests.
Group(objects, edits, faultLimit) ==
    [objects |-> objects, edits |-> edits, faults |-> faultLimit]
SomeGroups ==
    { Group({"provider", "model"}, 1, 1), Group({"tool"}, 2, 1), Group({"provider"}, 3, 0),
      Group({"instruction"}, 2, 0), Group({"instruction"}, 1, 1), Group({}, 0, 0) }

----------------------------------------------------------------------------
NoVerifier == keyMode = TRUE /\ tufUp = TRUE /\ VerifierInit

MCInit ==
    /\ part \in Parts
    /\ IF part = "verifier" THEN VerifierInit ELSE NoVerifier
    /\ ProbeInit /\ (part = "probe" <=> flags # Idle)
    /\ CatalogInit /\ (part = "catalog" <=> group # {})

MCNext ==
    /\ part' = part
    /\ \/ part = "verifier" /\ VerifierNext /\ UNCHANGED <<probeVars, catalogVars>>
       \/ part = "probe" /\ ProbeNext /\ UNCHANGED <<verifierVars, catalogVars>>
       \/ part = "catalog" /\ CatalogNext /\ UNCHANGED <<verifierVars, probeVars>>

MCSpec == /\ MCInit /\ [][MCNext]_<<part, verifierVars, probeVars, catalogVars>>
          /\ ProbeFairness /\ CatalogFairness
=============================================================================
