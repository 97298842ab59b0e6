-------------------------- MODULE MCAgentAdmission --------------------------
(* Worlds for AgentAdmission: two Capabilities k1 and k2 and an Agent, around *)
(* the schemas of a configuration, the dependency pins, and the other rules.  *)
EXTENDS AgentAdmission

Pin(spelling, version) == [as |-> spelling, version |-> version, pin |-> TRUE]
Schema(op, members) == [compiles |-> TRUE, op |-> op, kids |-> members]
Member(op, leaves) == [op |-> op, kids |-> leaves]
Leaf(x) == Member("leaf", <<x>>)
Branchings == {"allOf", "anyOf", "oneOf"}

\* A Capability nothing is wrong with.
Plain == [label |-> TRUE, digest |-> TRUE, attr |-> "KB", override |-> "empty", python |-> "empty",
          pydantic |-> NoSpecifier, runner |-> NoSpecifier, strict |-> TRUE,
          schema |-> Schema("leaf", <<Leaf("string")>>), pins |-> <<>>]

\* Every schema of one leaf, of two under a combinator, of a leaf beside two under
\* another combinator, and none.
SomeLeaves == {"integer", "string", "pattern"}
SchemaCatalog ==
    {[Plain EXCEPT !.schema = Schema("leaf", <<Leaf(x)>>), !.override = "S"] : x \in Leaves}
    \cup {[Plain EXCEPT !.schema = Schema(op, <<Leaf(x), Leaf(y)>>), !.override = "S"] :
             op \in Branchings, x, y \in Leaves}
    \cup {[Plain EXCEPT !.schema = Schema(op, <<Member(inner, <<x, y>>), Leaf(z)>>),
                        !.override = "S"] :
             op, inner \in Branchings, x, y, z \in SomeLeaves}
    \cup {[Plain EXCEPT !.schema = [compiles |-> FALSE, op |-> "leaf", kids |-> <<>>]],
          [Plain EXCEPT !.schema = NoSchema],
          [Plain EXCEPT !.schema = NoSchema, !.strict = FALSE]}

\* Up to two pins each: spellings of one package, versions, the baseline's own.
SomePins == {Pin("pydantic", "1"), Pin("Py_Dantic", "1"), Pin("pydantic", "2"),
             Pin("httpx", "1"), Pin("Httpx==", "2")}
PinCatalog ==
    {[Plain EXCEPT !.pins = <<p>>] : p \in SomePins}
    \cup {[Plain EXCEPT !.pins = <<p, q>>, !.override = "Q"] : p, q \in SomePins}

\* One Capability for every other rule.
OnlyFirst == [parses |-> TRUE, admits |-> {"r1"}]
RuleCatalog ==
    {Plain,
     [Plain EXCEPT !.override = "flokoa.platform/telemetry"],
     [Plain EXCEPT !.override = "MCP"],
     [Plain EXCEPT !.python = "3.12"],
     [Plain EXCEPT !.runner = OnlyFirst],
     [Plain EXCEPT !.runner = [parses |-> FALSE, admits |-> {}]],
     [Plain EXCEPT !.pydantic = [parses |-> TRUE, admits |-> {"1.107"}]],
     [Plain EXCEPT !.digest = FALSE], [Plain EXCEPT !.attr = "empty"], [Plain EXCEPT !.label = FALSE]}

SomeEdits ==
    {[Plain EXCEPT !.override = "MCP"],
     [Plain EXCEPT !.runner = OnlyFirst, !.override = "X"],
     [Plain EXCEPT !.pins = <<Pin("pydantic", "2")>>],
     [Plain EXCEPT !.digest = FALSE]}

Attach(ref, ns, config) == [ref |-> ref, ns |-> ns, config |-> config]
Both == <<Attach("k1", "own", "nil"), Attach("k2", "own", "nil")>>
AgentOf(frag, tools, attachments, runner) ==
    [frag |-> frag, extra |-> "none", extraCaps |-> <<>>, conforms |-> TRUE, tools |-> tools, attachments |-> attachments, runner |-> runner,
     isolation |-> "shared", secretRefs |-> TRUE, duplicateSkills |-> FALSE]

SomeAgents ==
    {AgentOf(<<>>, 0, Both, "r1"),
     AgentOf(<<"Web">>, 1, Both, "r2"),
     AgentOf(<<"KB">>, 1, <<Attach("k1", "own", "placeholder")>>, "r1"),
     AgentOf(<<>>, 0, <<Attach("k1", "own", "number")>>, "r1"),
     AgentOf(<<>>, 0, <<Attach("k1", "own", "nonobject")>>, "r1"),
     AgentOf(<<>>, 0, <<Attach("k1", "own", "nil"), Attach("k1", "own", "nil")>>, "r1"),
     AgentOf(<<>>, 0, <<Attach("k1", "other", "nil"), Attach("k1", "own", "text")>>, "r1"),
     [AgentOf(<<"Web">>, 0, Both, "r1") EXCEPT !.extra = "object", !.extraCaps = <<"KB">>],
     [AgentOf(<<>>, 0, <<Attach("k1", "own", "nil")>>, "r1") EXCEPT !.extra = "nonobject"],
     [AgentOf(<<"Web">>, 1, <<Attach("k1", "own", "nil")>>, "r1") EXCEPT !.conforms = FALSE],
     AgentOf(<<"Web">>, 2, <<>>, "r9"),
     AgentOf(<<"Web">>, 0, <<Attach("k1", "own", "text")>>, "r9"),
     [AgentOf(<<"KB">>, 1, <<Attach("k1", "own", "placeholder")>>, "r1")
        EXCEPT !.secretRefs = FALSE],
     [AgentOf(<<"pkg.Class">>, 1, <<>>, "r1") EXCEPT !.isolation = "session"]}

World(webhooks, requireVerified, k1, k2, applied, changes) ==
    [policy |-> [webhooks |-> webhooks, requireVerified |-> requireVerified],
     caps |-> [n \in Caps |-> IF n = "k1" THEN k1 ELSE k2],
     cached |-> [n \in Caps |-> IF n = "k1" THEN k1 ELSE k2],
     agent |-> applied, edits |-> changes]

Verified(c) == Stored(c, "true")

SchemaWorlds ==
    {World(TRUE, FALSE, Verified(c), NoCapability,
           AgentOf(<<>>, 0, <<Attach("k1", "own", v)>>, "r1"), 0) :
       c \in SchemaCatalog, v \in {"nil", "number", "text", "placeholder"}}

PinWorlds ==
    {World(w, FALSE, Verified(c), Verified(d), AgentOf(<<>>, 0, Both, "r1"), 0) :
       w \in BOOLEAN, c, d \in PinCatalog}

RuleWorlds ==
    {World(w, v, c, d, g, 1) :
       w, v \in BOOLEAN, g \in SomeAgents,
       c \in {NoCapability} \cup {Stored(x, y) : x \in RuleCatalog, y \in {"true", "unknown"}},
       d \in {NoCapability, Verified(Plain), Verified([Plain EXCEPT !.override = "MCP"])}}

\* The informer has not seen k1 yet, or an earlier edition of it.
LaggingWorlds ==
    {[World(TRUE, v, Verified(c), Verified(d), g, 1) EXCEPT !.cached["k1"] = old] :
       v \in BOOLEAN, g \in SomeAgents, c \in {Plain} \cup SomeEdits,
       d \in {Plain, [Plain EXCEPT !.override = "MCP"]},
       old \in {NoCapability, Stored(Plain, "unknown"), Verified([Plain EXCEPT !.python = "3.12"])}}

SomeWorlds == SchemaWorlds \cup PinWorlds \cup RuleWorlds \cup LaggingWorlds
NoWorld == World(TRUE, FALSE, NoCapability, NoCapability, AgentOf(<<>>, 0, <<>>, "r1"), 0)

SomeRunners ==
    [r \in {"r1", "r2"} |->
       [python |-> "3.13", pydantic |-> "1.107", baseline |-> [p \in {"httpx"} |-> "1"]]]
Telemetry == <<"flokoa.platform/telemetry">>
=============================================================================
