--------------------------- MODULE AgentAdmission ---------------------------
(* Two places judge an Agent's Capability attachments: the Agent webhook      *)
(* (internal/webhook/v1alpha1/agent_webhook.go), which reads the Capabilities  *)
(* one by one, collects every complaint and lets a missing one pass with a     *)
(* warning, and the compiler (internal/app/agent/compiler), which runs again   *)
(* whenever its copy of a Capability changes, stops at the first complaint and *)
(* decides between "retry" and "permanent". Both call                          *)
(* internal/domain/capability, but the webhook reads the API server and the    *)
(* compiler the informer's copies, which lag.                                  *)
(* Capabilities are created, edited and verified in between, and the           *)
(* Capability webhook may have been switched on after some of them existed.    *)
EXTENDS Naturals, Sequences, FiniteSets

CONSTANTS
    Caps,          \* Capability names of the Agent's namespace
    Worlds,        \* the cases explored: [policy, caps, cached, agent, edits], with
                   \* the cluster's flags, the Capabilities stored beforehand, the
                   \* operator's copies of them, the Agent that is applied and how
                   \* often a Capability changes
    Edits,         \* capability specs an edit may bring
    Injected,      \* names of the platform entries, in order
    Runners        \* supported runner version -> [python, pydantic, baseline]

VARIABLES
    policy,    \* the cluster's flags: [webhooks, requireVerified]
    caps,      \* Capability name -> [spec, verified] or NoCapability
    cached,    \* the informer's copies of them, which the compiler reads
    agent,     \* the Agent spec at hand
    stage,     \* idle, admitting, stored, denied, compiling, compiled, retrying, refused
    reads,     \* what the Gets of this judgement returned, in attachment order
    warned,    \* the webhook let an attachment pass unread
    changed,   \* a Capability changed since admission
    dirty,     \* a copy of a Capability changed since the last compile started
    out,       \* the compiled document's capability entries
    capEdits   \* changes of Capabilities still to come

admissionVars == <<policy, caps, cached, agent, stage, reads, warned, changed, dirty, out, capEdits>>

(* The objects as the two judgements read them; a string that is not set is    *)
(* "empty".                                                                    *)

\* An empty specifier: the check is skipped.
NoSpecifier == [parses |-> TRUE, admits |-> {"any"}]
Specifiers == [parses : BOOLEAN, admits : SUBSET STRING]

\* A schema combines members, and a member combines constraints; a single one is
\* a "leaf".
Leaves == {"integer", "string", "pattern", "enumText", "enumNumber"}
Combinators == {"leaf", "allOf", "anyOf", "oneOf"}
Members == [op : Combinators, kids : Seq(Leaves)]
NoSchema == [compiles |-> FALSE, op |-> "none", kids |-> <<>>]
Schemas == {NoSchema} \cup [compiles : BOOLEAN, op : Combinators, kids : Seq(Members)]

\* CapabilitySpec.
\*   digest: artifact is digest-pinned   attr/override: EntryName's inputs
\*   python/pydantic/runner: requires    schema/strict: configSchema, schemaPolicy
\*   pins: dependencies, each a spelling, a version, and whether it is well-formed
CapabilitySpecs ==
    [label : BOOLEAN, digest : BOOLEAN, attr : STRING, override : STRING, python : STRING,
     pydantic : Specifiers, runner : Specifiers, strict : BOOLEAN, schema : Schemas,
     pins : Seq([as : STRING, version : STRING, pin : BOOLEAN])]

NoCapability == [there |-> FALSE]
Capabilities ==
    {NoCapability} \cup [there : {TRUE}, spec : CapabilitySpecs,
                         verified : {"none", "unknown", "true", "false"}]

\* AgentSpec: the fragment's own entries, the number of tools, the attachments.
\*   extra: the fragment's untyped part, extraCaps the capability entries in it
\*   conforms: the document without attachments meets the runner's AgentSpec schema
AgentSpecs ==
    [frag : Seq(STRING), extra : {"none", "object", "nonobject"}, extraCaps : Seq(STRING),
     conforms : BOOLEAN, tools : Nat,
     attachments : Seq([ref : Caps, ns : {"own", "other"},
                        config : {"nil", "empty", "nonobject", "number", "text", "placeholder"}]),
     runner : STRING, isolation : {"shared", "session"}, secretRefs : BOOLEAN,
     duplicateSkills : BOOLEAN]

\* Names a class path or a platform entry would have.
PathPunctuation == {"flokoa.platform/telemetry", "pkg.Class"}

ASSUME WorldsAssumption ==
    \A w \in Worlds : /\ w.policy \in [webhooks : BOOLEAN, requireVerified : BOOLEAN]
                      /\ w.caps \in [Caps -> Capabilities]
                      /\ w.cached \in [Caps -> Capabilities]
                      /\ w.agent \in AgentSpecs /\ w.edits \in Nat
ASSUME EditsAssumption == Edits \subseteq CapabilitySpecs

\* main.go injects platform entries only, under the reserved prefix.
ASSUME InjectedAssumption == Injected \in Seq(PathPunctuation)

Stored(c, v) == [there |-> TRUE, spec |-> c, verified |-> v]

----------------------------------------------------------------------------
(* internal/domain/capability: the rules.                                   *)

\* NormalizePackageName: spellings of one package are one package.
Normalize(spelling) == IF spelling \in {"Py_Dantic", "pydantic"} THEN "pydantic" ELSE spelling

\* EntryName: the override, else the class of the entrypoint.
EntryName(c) == IF c.override # "empty" THEN c.override ELSE c.attr

\* ValidateEntryName.
EntryNameValid(name) == name # "empty" /\ name \notin PathPunctuation

\* A specifier set holds of a version; "any" stands for the empty one.
Admits(specifier, version) == "any" \in specifier.admits \/ version \in specifier.admits

\* CheckRequires: the Python minor is exact, both ranges must parse and hold.
CheckRequires(c, runner) ==
    /\ c.python \in {"empty", Runners[runner].python}
    /\ c.pydantic.parses /\ Admits(c.pydantic, Runners[runner].pydantic)
    /\ c.runner.parses /\ Admits(c.runner, runner)

\* Positions of the pins of a list of dependency lists, and what they pin.
PinsAt(deps) == UNION {{<<i, k>> : k \in 1..Len(deps[i])} : i \in 1..Len(deps)}
PinAt(deps, p) == deps[p[1]][p[2]]
Package(deps, p) == Normalize(PinAt(deps, p).as)
EntriesBefore(p, q) == p[1] < q[1] \/ (p[1] = q[1] /\ p[2] < q[2])

\* established: the first capability's first pin of the package.
Established(deps, p) ==
    CHOOSE q \in PinsAt(deps) :
       /\ PinAt(deps, q).pin /\ Package(deps, q) = Package(deps, p)
       /\ \A r \in PinsAt(deps) :
             PinAt(deps, r).pin /\ Package(deps, r) = Package(deps, p) => ~EntriesBefore(r, q)

\* local: this capability's own first pin of the package.
Local(deps, p) ==
    CHOOSE q \in PinsAt(deps) :
       /\ q[1] = p[1] /\ PinAt(deps, q).pin /\ Package(deps, q) = Package(deps, p)
       /\ \A r \in PinsAt(deps) :
             r[1] = p[1] /\ PinAt(deps, r).pin /\ Package(deps, r) = Package(deps, p)
                => ~EntriesBefore(r, q)

\* Mutant of DetectConflicts: only capabilities against each other, not one against
\* itself.
DetectConflictsAcross(deps, baseline) ==
    {p \in PinsAt(deps) :
        LET version == PinAt(deps, p).version IN
        \/ ~PinAt(deps, p).pin
        \/ Package(deps, p) \in DOMAIN baseline /\ baseline[Package(deps, p)] # version
        \/ LET q == Established(deps, p) IN
              q[1] # p[1] /\ PinAt(deps, q).version # version}

\* DetectConflicts: the pins complained about, in any of the four ways.
DetectConflicts(deps, baseline) ==
    {p \in PinsAt(deps) :
        LET version == PinAt(deps, p).version IN
        \/ ~PinAt(deps, p).pin
        \/ Package(deps, p) \in DOMAIN baseline /\ baseline[Package(deps, p)] # version
        \/ PinAt(deps, Local(deps, p)).version # version
        \/ LET q == Established(deps, p) IN
              q[1] # p[1] /\ PinAt(deps, q).version # version}

----------------------------------------------------------------------------
(* ValidateConfig. A config is absent, no object, or an object whose value is *)
(* a number, a text that meets the constraints, or a secret placeholder.      *)

\* EXTERNAL (the JSON Schema validator): does the constraint hold of the value?
LeafHolds(leaf, value) ==
    CASE value = "number" -> leaf \in {"integer", "pattern", "enumNumber"}
      [] value = "text" -> leaf \in {"string", "pattern", "enumText"}
      [] OTHER -> leaf = "string"

\* EXTERNAL: a combinator over n parts holds when the parts in held do.
Combined(op, n, held) ==
    CASE op = "anyOf" -> held # {}
      [] op = "oneOf" -> Cardinality(held) = 1
      [] OTHER -> held = 1..n

\* EXTERNAL: the constraints of a member, and the members of a schema, that hold.
HeldLeaves(member, value) == {j \in 1..Len(member.kids) : LeafHolds(member.kids[j], value)}
MemberHolds(member, value) ==
    Combined(member.op, Len(member.kids), HeldLeaves(member, value))
HeldMembers(schema, value) == {i \in 1..Len(schema.kids) : MemberHolds(schema.kids[i], value)}

\* suppressibleForPlaceholder: string-level constraints; an enum when it allows a
\* string at all.
Suppressible(leaf) == leaf \in {"pattern", "enumText"}

\* Mutant of placeholderSatisfied: every node passes as soon as one cause does.
PlaceholderSatisfiedAny(op, n, held, satisfied) == ((1..n) \ held) \cap satisfied # {}

\* placeholderSatisfied at one node of the error tree: any satisfied branch for
\* anyOf and oneOf, all causes otherwise. A oneOf that several branches meet is an
\* error without causes.
PlaceholderSatisfied(op, n, held, satisfied) ==
    LET causes == IF op = "oneOf" /\ held # {} THEN {} ELSE (1..n) \ held IN
    IF op \in {"anyOf", "oneOf"} THEN causes \cap satisfied # {} ELSE causes \subseteq satisfied

\* The recursion of placeholderSatisfied: the members of a schema it passes.
SatisfiedMembers(schema) ==
    {i \in 1..Len(schema.kids) :
        LET member == schema.kids[i] IN
        PlaceholderSatisfied(member.op, Len(member.kids), HeldLeaves(member, "placeholder"),
                             {j \in 1..Len(member.kids) : Suppressible(member.kids[j])})}

\* ValidateConfig.
ConfigValid(schema, config) ==
    LET n == Len(schema.kids)
        held == HeldMembers(schema, config) IN
    /\ schema.compiles
    /\ config # "nonobject"
    /\ \/ config \in {"nil", "empty"}
       \/ Combined(schema.op, n, held)
       \/ /\ config = "placeholder"
          /\ PlaceholderSatisfied(schema.op, n, held, SatisfiedMembers(schema))

----------------------------------------------------------------------------
(* The Capability webhook.                                                  *)

\* validateCapability; c.label is whether the name is a DNS label, which only
\* ValidateCreate checks.
CapabilityAdmitted(c, create) ==
    /\ create => c.label
    /\ c.digest
    /\ c.attr # "empty" /\ EntryNameValid(EntryName(c))
    /\ c.strict => c.schema # NoSchema
    /\ c.schema # NoSchema => c.schema.compiles
    /\ c.pydantic.parses /\ c.runner.parses
    /\ \A k \in 1..Len(c.pins) : c.pins[k].pin

\* A Capability is created or edited. The controller has to verify it anew.
EditCapability(n, c) ==
    /\ capEdits > 0
    /\ stage # "idle"
    /\ policy.webhooks => CapabilityAdmitted(c, ~caps[n].there)
    /\ caps' = [caps EXCEPT ![n] = Stored(c, "none")]
    /\ capEdits' = capEdits - 1
    /\ changed' = TRUE
    /\ UNCHANGED <<policy, cached, agent, stage, reads, warned, dirty, out>>

\* The Capability controller settles the Verified condition.
VerifyCapability(n, v) ==
    /\ stage # "idle"
    /\ caps[n].there /\ caps[n].verified # v /\ capEdits > 0
    /\ caps' = [caps EXCEPT ![n].verified = v]
    /\ capEdits' = capEdits - 1
    /\ changed' = TRUE
    /\ UNCHANGED <<policy, cached, agent, stage, reads, warned, dirty, out>>

\* The informer observes a Capability; its watch enqueues the Agent.
ObserveCapability(n) ==
    /\ cached[n] # caps[n]
    /\ cached' = [cached EXCEPT ![n] = caps[n]]
    /\ dirty' = TRUE
    /\ UNCHANGED <<policy, caps, agent, stage, reads, warned, changed, out, capEdits>>

----------------------------------------------------------------------------
(* The Agent webhook.                                                       *)

Attachments == agent.attachments

\* The reference names another namespace.
Foreign(i) == Attachments[i].ns # "own"

\* The Capability was attached before.
Repeated(i) == \E j \in 1..(i - 1) : ~Foreign(j) /\ Attachments[j].ref = Attachments[i].ref

Judged(i) == ~Foreign(i) /\ ~Repeated(i)

\* The attachments that were read, and the Capability each one read.
Found(i) == Judged(i) /\ reads[i].there
Cap(i) == reads[i].spec

FragmentNames == {agent.frag[k] : k \in 1..Len(agent.frag)}

\* Mutant of NameTaken: attachments are compared with the fragment only.
NameTakenByFragment(i) == EntryName(Cap(i)) \in FragmentNames

\* The entry name is the fragment's or an earlier attachment's.
NameTaken(i) ==
    \/ EntryName(Cap(i)) \in FragmentNames
    \/ \E j \in 1..(i - 1) : Found(j) /\ EntryName(Cap(j)) = EntryName(Cap(i))

\* Mutant of ConfigRefused: the schema policy is not looked at.
ConfigRefusedStrictly(i) ==
    \/ Attachments[i].config = "nonobject"
    \/ ~ConfigValid(Cap(i).schema, Attachments[i].config)

\* isJSONObject, and the schema unless the Capability's policy is permissive; a
\* strict Capability without a schema refuses every attachment.
ConfigRefused(i) ==
    \/ Attachments[i].config = "nonobject"
    \/ Cap(i).strict /\ ~ConfigValid(Cap(i).schema, Attachments[i].config)

\* The dependency lists of the attachments that were read, in order.
Deps == LET of(i) == IF Found(i) THEN Cap(i).pins ELSE <<>>
        IN [i \in 1..Len(reads) |-> of(i)]

RunnerKnown == agent.runner \in DOMAIN Runners

\* validateAgent: what concerns the Agent alone. A placeholder in an attachment's
\* config needs a secretRefs entry.
InlineRefused ==
    \/ agent.isolation = "session"
    \/ FragmentNames \cap PathPunctuation # {}
    \/ \E i \in 1..Len(Attachments) :
          Attachments[i].config = "placeholder" /\ ~agent.secretRefs
    \/ agent.duplicateSkills

\* validateCapabilities, once every attachment was read.
CapabilitiesRefused ==
    /\ Attachments # <<>>
    /\ \/ ~RunnerKnown
       \/ \E i \in 1..Len(Attachments) :
             \/ ~Judged(i)
             \/ Judged(i) /\ ~reads[i].there /\ policy.requireVerified
             \/ /\ Found(i)
                /\ \/ NameTaken(i)
                   \/ ~CheckRequires(Cap(i), agent.runner)
                   \/ policy.requireVerified /\ reads[i].verified # "true"
                   \/ ConfigRefused(i)
       \/ DetectConflicts(Deps, Runners[agent.runner].baseline) # {}

\* An Agent is applied; without webhooks it is stored unseen.
SubmitAgent ==
    /\ stage = "idle"
    /\ stage' = IF policy.webhooks THEN "admitting" ELSE "stored"
    /\ UNCHANGED <<policy, caps, cached, agent, reads, warned, changed, dirty, out, capEdits>>

\* The uncached Get of the next attachment's Capability. One that fails for any
\* reason counts as not found; an attachment already refused is not read.
AdmitGet(fails) ==
    /\ stage = "admitting" /\ Len(reads) < Len(Attachments)
    /\ LET i == Len(reads) + 1
           got == IF Judged(i) /\ ~fails THEN caps[Attachments[i].ref] ELSE NoCapability
       IN /\ fails => Judged(i)
          /\ reads' = Append(reads, got)
          /\ warned' = (warned \/ (Judged(i) /\ ~got.there))
    /\ UNCHANGED <<policy, caps, cached, agent, stage, changed, dirty, out, capEdits>>

\* All errors are aggregated into one answer.
AdmitDecide ==
    /\ stage = "admitting" /\ Len(reads) = Len(Attachments)
    /\ stage' = IF InlineRefused \/ CapabilitiesRefused THEN "denied" ELSE "stored"
    /\ UNCHANGED <<policy, caps, cached, agent, reads, warned, changed, dirty, out, capEdits>>

----------------------------------------------------------------------------
(* The compiler.                                                            *)

Settled == {"compiled", "retrying", "refused"}

\* A reconcile of the stored Agent, or one a Capability change brings. An extra that
\* is no JSON object ends it before anything is read.
CompileStart ==
    /\ stage = "stored" \/ (stage \in Settled /\ dirty)
    /\ stage' = IF agent.extra = "nonobject" THEN "refused" ELSE "compiling"
    /\ reads' = <<>> /\ out' = <<>> /\ dirty' = FALSE
    /\ UNCHANGED <<policy, caps, cached, agent, warned, changed, capEdits>>

\* resolveCapabilities' verdict on an attachment, in the order of its checks.
AttachmentVerdict(i, got) ==
    IF ~RunnerKnown \/ Foreign(i) \/ Repeated(i) THEN "refused"
    ELSE IF ~got.there \/ (policy.requireVerified /\ got.verified # "true") THEN "retrying"
    ELSE IF \/ ~CheckRequires(got.spec, agent.runner)
            \/ got.spec.strict /\ ~ConfigValid(got.spec.schema, Attachments[i].config)
            \/ Attachments[i].config = "nonobject"
            \/ ~EntryNameValid(EntryName(got.spec))
            \/ EntryName(got.spec) \in FragmentNames
            \/ \E k \in 1..Len(Injected) : Injected[k] = EntryName(got.spec)
            \/ \E j \in 1..(i - 1) : Found(j) /\ EntryName(Cap(j)) = EntryName(got.spec)
         THEN "refused"
    ELSE "compiling"

\* Mutant of CompileAttachment: a missing Capability is passed over, as at admission.
CompileAttachmentLenient ==
    /\ stage = "compiling" /\ Len(reads) < Len(Attachments)
    /\ LET i == Len(reads) + 1
           got == cached[Attachments[i].ref]
       IN /\ stage' = IF got.there THEN AttachmentVerdict(i, got) ELSE "compiling"
          /\ reads' = Append(reads, got)
    /\ UNCHANGED <<policy, caps, cached, agent, warned, changed, dirty, out, capEdits>>

\* The next attachment: the copy of its Capability is read and checked; the first
\* complaint ends the compile.
CompileAttachment ==
    /\ stage = "compiling" /\ Len(reads) < Len(Attachments)
    /\ LET i == Len(reads) + 1
           got == IF Judged(i) THEN cached[Attachments[i].ref] ELSE NoCapability
       IN /\ stage' = AttachmentVerdict(i, got)
          /\ reads' = Append(reads, got)
    /\ UNCHANGED <<policy, caps, cached, agent, warned, changed, dirty, out, capEdits>>

\* The entry an attachment becomes.
CapabilityEntry(i) == IF reads[i].there THEN EntryName(Cap(i)) ELSE "empty"

\* The fragment's entries, those of its extra first.
OwnEntries == agent.extraCaps \o agent.frag

\* Own entries, one MCP entry per tool, the attachments, the platform's.
Document ==
    OwnEntries \o [k \in 1..agent.tools |-> "MCP"]
    \o [i \in 1..Len(reads) |-> CapabilityEntry(i)] \o Injected

\* The conflict check, then spec.Validate of the document before the attachments are
\* spliced in: the runner version must have a schema and the document meet it.
CompileFinish ==
    /\ stage = "compiling" /\ Len(reads) = Len(Attachments)
    /\ IF \/ ~RunnerKnown \/ ~agent.conforms
          \/ DetectConflicts(Deps, Runners[agent.runner].baseline) # {}
       THEN stage' = "refused" /\ UNCHANGED out
       ELSE stage' = "compiled" /\ out' = Document
    /\ UNCHANGED <<policy, caps, cached, agent, reads, warned, changed, dirty, capEdits>>

----------------------------------------------------------------------------

AdmissionStart(world) ==
    /\ policy = world.policy /\ caps = world.caps /\ cached = world.cached
    /\ agent = world.agent /\ capEdits = world.edits
    /\ stage = "idle"
    /\ reads = <<>> /\ out = <<>>
    /\ warned = FALSE /\ changed = FALSE /\ dirty = FALSE

AdmissionInit == \E world \in Worlds : AdmissionStart(world)

AdmissionNext ==
    \/ SubmitAgent
    \/ \E fails \in BOOLEAN : AdmitGet(fails)
    \/ AdmitDecide
    \/ CompileStart \/ CompileAttachment \/ CompileFinish
    \/ \E n \in Caps : \/ ObserveCapability(n)
                       \/ \E c \in Edits : EditCapability(n, c)
                       \/ \E v \in {"true", "false"} : VerifyCapability(n, v)

AdmissionSpec == AdmissionInit /\ [][AdmissionNext]_admissionVars

----------------------------------------------------------------------------
(* What makes it correct.                                                   *)

\* Types; and a compiled Agent had every one of its attachments read and found.
AdmissionTypeOK ==
    /\ stage \in {"idle", "admitting", "stored", "denied", "compiling"} \cup Settled
    /\ Len(reads) <= Len(Attachments)
    /\ stage = "compiled" => /\ Len(reads) = Len(Attachments)
                             /\ \A i \in 1..Len(reads) : reads[i].there

\* The pins two Capabilities and the runner would install together are one
\* version per package. Stated over pairs, without DetectConflicts' bookkeeping.
OneVersionPerPackage ==
    LET all == PinsAt(Deps)
        baseline == Runners[agent.runner].baseline IN
    \A p \in all :
       /\ PinAt(Deps, p).pin
       /\ Package(Deps, p) \in DOMAIN baseline
             => baseline[Package(Deps, p)] = PinAt(Deps, p).version
       /\ \A q \in all : Package(Deps, p) = Package(Deps, q)
                            => PinAt(Deps, p).version = PinAt(Deps, q).version

\* "A bad composition surfaces as SpecValid=False, never as a broken pod"
\* (docs/capability.md), whatever admission let through and whatever happened to
\* the Capabilities since: what compiles installs one version per package, on a
\* runner in range, from verified Capabilities when the policy asks for it, under
\* entry names that are each claimed once, with the platform's entries last. Tools
\* all become MCP entries, and neither judgement looks at capability entries inside
\* the fragment's extra.
CompiledIsSound ==
    stage = "compiled" /\ Attachments # <<>> =>
       /\ OneVersionPerPackage
       /\ \A i \in 1..Len(Attachments) :
             /\ Attachments[i].ns = "own"
             /\ Admits(Cap(i).runner, agent.runner)
             /\ Admits(Cap(i).pydantic, Runners[agent.runner].pydantic)
             /\ policy.requireVerified => reads[i].verified = "true"
             /\ \A k \in 1..Len(out) :
                   out[k] = EntryName(Cap(i))
                      => \/ k = Len(OwnEntries) + agent.tools + i
                         \/ k \in (Len(OwnEntries) + 1)..(Len(OwnEntries) + agent.tools)
                         \/ k \in 1..Len(agent.extraCaps)
       /\ \A k \in 1..Len(Injected) : out[Len(out) - Len(Injected) + k] = Injected[k]

\* The webhook refuses nothing the compiler would take: when it denies for a
\* Capability it read, so does a compile of the same reads.
DeniedWouldNotCompile ==
    stage = "denied" /\ ~InlineRefused =>
       \/ \E i \in 1..Len(Attachments) : AttachmentVerdict(i, reads[i]) # "compiling"
       \/ ~OneVersionPerPackage

\* What the webhook leaves to the compiler: the untyped part of the fragment, the
\* runner's AgentSpec schema, and a runner version while there are no attachments.
LeftToTheCompiler ==
    agent.extra = "nonobject" \/ ~agent.conforms \/ (Attachments = <<>> /\ ~RunnerKnown)

\* The webhook lets nothing else pass that the compiler refuses for good: an Agent
\* it admitted without a warning, refused with every copy up to date and no compile
\* pending, is refused for what was left to the compiler, because a Capability
\* changed since, or for an entry name older than the Capability webhook's rule. A
\* refusal over a copy that lags is taken up again when the copy catches up.
AdmittedIsNotRefused ==
    policy.webhooks /\ stage = "refused" /\ cached = caps /\ ~dirty =>
       \/ LeftToTheCompiler
       \/ warned \/ changed
       \/ \E i \in 1..Len(reads) : reads[i].there /\ ~EntryNameValid(EntryName(reads[i].spec))

\* Parts that can be made to hold and parts that can be made to fail, each on its
\* own, let the combination come out as outcome.
CanCombine(op, n, may, mayNot, outcome) ==
    \E held \in SUBSET may : (1..n) \ held \subseteq mayNot /\ Combined(op, n, held) = outcome

\* The outcomes a member can have for a string: a string-level constraint holds or
\* not as the string is chosen, the others are settled by the type.
MemberCan(member, outcome) ==
    LET at(S) == {j \in 1..Len(member.kids) : member.kids[j] \in S} IN
    CanCombine(member.op, Len(member.kids), at({"string", "pattern", "enumText"}),
               at(Leaves \ {"string"}), outcome)

\* Some string satisfies the schema, as far as the constraints are independent.
StringCanPass(schema) ==
    LET can(outcome) == {i \in 1..Len(schema.kids) : MemberCan(schema.kids[i], outcome)} IN
    CanCombine(schema.op, Len(schema.kids), can(TRUE), can(FALSE), TRUE)

\* A string can break a oneOf by meeting more of it, which the error tree of a
\* placeholder does not show.
OneOfInOneOf(schema) ==
    schema.op = "oneOf" /\ \E i \in 1..Len(schema.kids) : schema.kids[i].op = "oneOf"

\* A secret placeholder may stand where a string may, through nested combinators: a
\* schema accepts it only when some string could pass, never where a number is
\* required or on another violation's account, and, but for a oneOf in a oneOf,
\* whenever some string could pass.
PlaceholderStandsForAString ==
    \A n \in Caps :
       caps[n].there /\ caps[n].spec.schema.compiles =>
          LET schema == caps[n].spec.schema
              accepted == ConfigValid(schema, "placeholder") IN
          /\ accepted => StringCanPass(schema)
          /\ StringCanPass(schema) => accepted \/ OneOfInOneOf(schema)

\* Webhook and compiler, over Capabilities that change between their reads: what
\* compiles is sound, and neither contradicts the other.
AdmissionInv ==
  /\ AdmissionTypeOK
  /\ CompiledIsSound
  /\ DeniedWouldNotCompile
  /\ AdmittedIsNotRefused
  /\ PlaceholderStandsForAString
=============================================================================
