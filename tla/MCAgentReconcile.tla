-------------------------- MODULE MCAgentReconcile --------------------------
(* Small instances of AgentReconcile for TLC. *)
EXTENDS AgentReconcile, TLC

CONSTANTS
  m,        \* a Model, or any other referenced object
  svc,      \* a Service whose port an AgentTool names
  v1, v2    \* two documents it may hold

Content(verdict, doc, art) == [verdict |-> verdict, doc |-> doc, art |-> art]

Version1 == Content("ok", v1, 1)
Version2 == Content("ok", v2, 1)
\* The object is missing (or the Model is not Ready), a rejected reference,
\* material the schema rejects, an unclassified error, a Capability that no
\* container can be named after.
Missing  == Content("dependency", 0, 0)
Rejected == Content("permanent", 0, 0)
BadDoc   == Content("invalid", 9, 1)
Broken   == Content("error", 0, 0)
Unnamed  == Content("unmountable", 7, 1)

Versions    == {Version1, Version2}
AnyContents == {Version1, Missing, Rejected, BadDoc, Broken, Unnamed}

\* The two versions differ in nothing the controller looks at.
Alike == Permutations({v1, v2})

SpecOf(refs, doc, card, runtime, verdict) ==
  [refs |-> refs, doc |-> doc, card |-> card, runtime |-> runtime, verdict |-> verdict]

PlainSpec   == SpecOf(<<m, svc>>, 1, 1, 1, "ok")
ModelSpec   == SpecOf(<<m>>, 1, 1, 1, "ok")
ToolSpec    == SpecOf(<<svc>>, 5, 2, 2, "ok")
RefusedSpec == SpecOf(<<>>, 4, 1, 1, "permanent")

RefSpecs == {ModelSpec, ToolSpec}
AnySpecs == {PlainSpec, RefusedSpec}

BothDeps == {m, svc}
Services == {svc}

With(S)    == [x \in Disturbances |-> IF x \in S THEN 1 ELSE 0]
Lifetimes  == {With({"edit", "dep"}), With({"service", "restart"}),
               With({"delete", "restart"}), With({"drift"}), With({"avail"}),
               With({"delete", "fault"})}
Recoveries == {With({"dep"}), With({"service"}), With({"edit"}), With({"fault"}),
               With({"delete"}), With({"rotate"})}
=============================================================================
