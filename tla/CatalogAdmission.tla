-------------------------- MODULE CatalogAdmission --------------------------
(* What becomes of an object of the catalogue an Agent is put together from:  *)
(* its webhook (api/v1alpha1/*_webhook.go) admits or denies it, where webhooks *)
(* are on; its controller judges the stored object again with the rules of     *)
(* internal/domain; the compiler turns a ready one into a part of the Agent's  *)
(* document. The three were written apart and look at different fields. What   *)
(* the compile needs besides (a Service) comes and goes meanwhile.             *)
EXTENDS Naturals, Sequences, FiniteSets

CONSTANT Submissions    \* [kind, spec, webhooks, upheavals] that are explored

(* The specs of the five kinds; a string field that is not set is "empty".    *)
(* svc is what serviceRef gives of port and portName, or {"none"} without one; *)
(* google the fields the google block sets, region whether the bedrock block   *)
(* names one. A layer of a Model's settings is the set of keys it gives, raw    *)
(* that of the Agent's own extra block, and refused tells the values, as pairs   *)
(* of a layer and a key, that the runner's AgentSpec schema does not allow.      *)
HeaderNames == [spelling : STRING, lower : STRING]

ToolSpecs ==
    [type : {"mcp", "openapi"}, url : {"empty", "http", "bad"},
     svc : {{"none"}} \cup SUBSET {"port", "portName"},
     path : {"empty", "absolute", "relative"}, transport : {"/mcp", "/sse"},
     headers : SUBSET HeaderNames, secrets : Seq(HeaderNames)]

ProviderSpecs ==
    [blocks : SUBSET {"openai", "anthropic", "google", "bedrock"},
     baseURL : {"empty", "http", "bad"},
     google : SUBSET {"project", "location", "serviceAccountKey"},
     region : BOOLEAN, apiKey : BOOLEAN]

ModelSpecs ==
    [typed : SUBSET STRING, extra : SUBSET STRING, extraIsObject : BOOLEAN,
     fragTyped : SUBSET STRING, fragExtra : SUBSET STRING, raw : SUBSET STRING,
     rawIsObject : BOOLEAN, refused : SUBSET (STRING \X STRING),
     refs : Seq(STRING), instructions : Seq(STRING), rawInstructions : Seq(STRING),
     timeouts : Seq(Nat), ownTimeout : Nat]

TriggerSpecs ==
    [missing : SUBSET {"source", "eventName", "agent", "filterPath", "filterValue", "expr",
                       "sinkURI", "pushAgentName"},
     push : {{"none"}} \cup SUBSET {"url", "agentRef"}, pushURL : {"empty", "http", "bad"}]

ASSUME SubmissionsAssumption ==
    \A s \in Submissions :
       /\ s.webhooks \in BOOLEAN /\ s.upheavals \in Nat
       /\ \/ s.kind = "tool" /\ s.spec \in ToolSpecs
          \/ s.kind = "provider" /\ s.spec \in ProviderSpecs
          \/ s.kind = "model" /\ s.spec \in ModelSpecs
          \/ s.kind = "trigger" /\ s.spec \in TriggerSpecs
          \/ s.kind = "instruction" /\ s.spec \in [content : {"empty", "text"}]

VARIABLES
    item,        \* the object applied: its kind, its spec, and the cluster's flag
    fate,        \* applied, denied, stored, ready, invalid, compiled, retrying, failed
    servicePort, \* the Service a tool names has the port it names
    product,     \* what the compile made of it
    upheavals    \* changes of the Service still to come

catalogueVars == <<item, fate, servicePort, product, upheavals>>

Thing == item.spec

----------------------------------------------------------------------------
(* Rules several webhooks share (webhook_helpers.go).                       *)

\* validateExactlyOneOf, over the alternatives that are set.
ExactlyOneOf(set) == Cardinality(set) = 1

\* validateHTTPURL: empty is left to others, a bad scheme or host is refused.
HTTPURLValid(url) == url \in {"empty", "http"}

----------------------------------------------------------------------------
(* AgentTool. Header names are pairs of a spelling and the name it is without *)
(* regard to case.                                                             *)

HasService(t) == t.svc # {"none"}
Targets(t) == (IF t.url # "empty" THEN {"url"} ELSE {}) \cup (IF HasService(t) THEN {"serviceRef"} ELSE {})

\* Mutant of HeaderSecretsDistinct: spellings are compared, not names.
HeaderSecretsDistinctSpelled(t) ==
    \A i \in 1..Len(t.secrets) :
       /\ \A h \in t.headers : h.spelling # t.secrets[i].spelling
       /\ \A j \in 1..(i - 1) : t.secrets[j].spelling # t.secrets[i].spelling

\* A header secret is neither a static header nor another header secret.
HeaderSecretsDistinct(t) ==
    \A i \in 1..Len(t.secrets) :
       /\ \A h \in t.headers : h.lower # t.secrets[i].lower
       /\ \A j \in 1..(i - 1) : t.secrets[j].lower # t.secrets[i].lower

\* validateAgentTool: a retired type ends the check at once.
ToolAdmitted(t) ==
    /\ t.type # "openapi"
    /\ ExactlyOneOf(Targets(t))
    /\ HTTPURLValid(t.url)
    /\ t.path # "empty" => HasService(t) /\ t.path = "absolute"
    /\ HasService(t) => ExactlyOneOf(t.svc)
    /\ HeaderSecretsDistinct(t)

\* Mutant of ToolValid: a path needs no leading slash in front of a Service.
ToolValidAnyPath(t) ==
    /\ t.type # "openapi"
    /\ ExactlyOneOf(Targets(t))
    /\ t.path # "empty" => HasService(t)
    /\ t.svc # {"port", "portName"}

\* tool.ValidateSpec: no look at the URL or at the headers, and a serviceRef
\* without any port passes.
ToolValid(t) ==
    /\ t.type # "openapi"
    /\ ExactlyOneOf(Targets(t))
    /\ t.path # "empty" => HasService(t) /\ t.path = "absolute"
    /\ t.svc # {"port", "portName"}

\* resolveToolURL: where the runner will connect to.
ToolURL(t) ==
    IF t.url # "empty" THEN [host |-> t.url, port |-> "none", path |-> "empty"]
    ELSE IF ~HasService(t) THEN [host |-> "none", port |-> "none", path |-> "empty"]
    ELSE [host |-> "service",
          port |-> IF "port" \in t.svc THEN "given"
                   ELSE IF "portName" \notin t.svc THEN "default"
                   ELSE IF servicePort THEN "named" ELSE "missing",
          path |-> IF t.path # "empty" THEN t.path ELSE t.transport]

\* compileTool: the verdict, the endpoint, and the headers in the order written;
\* a later one of the same spelling replaces the earlier.
CompileTool(t) ==
    LET url == ToolURL(t) IN
    [verdict |-> CASE url.host = "none" -> "failed"
                   [] url.port = "missing" -> "retrying"
                   [] OTHER -> "compiled",
     url |-> url,
     headers |-> t.headers \cup {t.secrets[i] : i \in 1..Len(t.secrets)}]

----------------------------------------------------------------------------
(* ModelProvider. blocks is the set of provider blocks; baseURL is the openai  *)
(* or anthropic block's.                                                       *)

Order == <<"openai", "anthropic", "google", "bedrock">>

\* validateModelProvider.
ProviderAdmitted(p) ==
    /\ ExactlyOneOf(p.blocks)
    /\ p.blocks \cap {"openai", "anthropic"} # {} => HTTPURLValid(p.baseURL)

\* ValidateProvider: the last block counted is the type.
ProviderValid(p) == ExactlyOneOf(p.blocks)
ProviderVerdict(p) ==
    LET last == CHOOSE i \in 1..4 : /\ Order[i] \in p.blocks
                                    /\ \A j \in (i + 1)..4 : Order[j] \notin p.blocks
    IN Order[last]

\* GetProviderType: the first block that is set.
GetProviderType(p) ==
    LET first == CHOOSE i \in 1..4 : /\ Order[i] \in p.blocks
                                     /\ \A j \in 1..(i - 1) : Order[j] \notin p.blocks
    IN Order[first]

\* What the GoogleProviderHandler takes for the sign of Vertex AI.
OnVertex(p) == p.google \cap {"project", "serviceAccountKey"} # {}

\* The environment each handler gives the pod, and what it takes from Secrets.
OpenAIEnv(p) == IF p.baseURL # "empty" THEN {"baseURL"} ELSE {}
AnthropicEnv(p) == IF p.baseURL # "empty" THEN {"baseURL"} ELSE {}
GoogleEnv(p) == p.google \cap {"project", "location"}
BedrockEnv(p) == IF p.region THEN {"region"} ELSE {}

ProviderEnv(p, type) ==
    CASE type = "google" -> GoogleEnv(p)
      [] type = "bedrock" -> BedrockEnv(p)
      [] type = "anthropic" -> AnthropicEnv(p)
      [] OTHER -> OpenAIEnv(p)

\* AddAPIKeyEnvVar, which every handler but bedrock's calls.
APIKeyEnv(p) == IF p.apiKey THEN {"apiKey"} ELSE {}
ProviderSecretEnv(p, type) ==
    CASE type = "google" -> APIKeyEnv(p) \cup (p.google \cap {"serviceAccountKey"})
      [] type = "bedrock" -> {}
      [] OTHER -> APIKeyEnv(p)

\* Mutant of HandlerOf: only a project is taken for the sign of Vertex AI.
HandlerOfProject(p) ==
    LET type == GetProviderType(p) IN
    [prefix |-> IF type # "google" THEN type
                ELSE IF "project" \in p.google THEN "google-vertex" ELSE "google-gla",
     env |-> ProviderEnv(p, type), secretEnv |-> ProviderSecretEnv(p, type)]

\* The four ProviderHandlers: the model prefix and the environment.
HandlerOf(p) ==
    LET type == GetProviderType(p) IN
    [prefix |-> IF type # "google" THEN type
                ELSE IF OnVertex(p) THEN "google-vertex" ELSE "google-gla",
     env |-> ProviderEnv(p, type), secretEnv |-> ProviderSecretEnv(p, type)]

----------------------------------------------------------------------------
(* Model, and the Agent it is compiled into: typed keys have a field of their  *)
(* own; refs and instructions are texts in order, timeouts what the Agent's    *)
(* tools ask for (0: nothing).                                                 *)

TypedKeys == {"temperature", "max_tokens"}

\* validateModel: extra is an object without typed keys.
ModelAdmitted(m) == m.extraIsObject /\ m.extra \cap TypedKeys = {}

\* A settings map: key -> the layer its value comes from.
Layer(keys, name) == [k \in keys |-> name]
Over(upper, lower) ==
    [k \in DOMAIN upper \cup DOMAIN lower |-> IF k \in DOMAIN upper THEN upper[k] ELSE lower[k]]

\* settingsToMap: extra first, typed fields over it. An extra that is no object
\* is passed over.
ModelSettings(m) ==
    Over(Layer(m.typed, "modelTyped"), Layer(IF m.extraIsObject THEN m.extra ELSE {}, "modelExtra"))

\* applyFragment: the fragment's settings over those of the raw extra block.
FragmentSettings(m) ==
    Over(Over(Layer(m.fragTyped, "fragTyped"), Layer(m.fragExtra, "fragExtra")),
         Layer(m.raw, "raw"))

\* Mutant of CompileSettings: the Model's settings are laid over the fragment's.
CompileSettingsModelWins(m) == Over(ModelSettings(m), FragmentSettings(m))

\* applyModelRef merges the Model's settings beneath the document's.
CompileSettings(m) == Over(FragmentSettings(m), ModelSettings(m))

\* Where a raw list holds texts, and the place of the j-th.
TextsAt(list) == {i \in 1..Len(list) : list[i] # "number"}
NthText(list, j) ==
    CHOOSE i \in TextsAt(list) : Cardinality({k \in TextsAt(list) : k <= i}) = j

\* fragmentInstructions: the typed list, or else the extra block's own value,
\* of which only the texts are kept.
FragmentInstructions(m) ==
    IF m.instructions # <<>> THEN m.instructions
    ELSE [j \in 1..Cardinality(TextsAt(m.rawInstructions)) |->
            m.rawInstructions[NthText(m.rawInstructions, j)]]

\* applyInstructions: the texts referred to, then the fragment's.
CompileInstructions(m) == m.refs \o FragmentInstructions(m)

\* applyTools: the largest timeout asked for, unless the fragment names its own.
ToolTimeout(m) ==
    IF m.ownTimeout # 0 THEN m.ownTimeout
    ELSE LET asked == {0} \cup {m.timeouts[i] : i \in 1..Len(m.timeouts)}
         IN CHOOSE t \in asked : \A u \in asked : u <= t

\* spec.Validate refuses a value the schema does not allow, wherever it came from,
\* and Compile an extra block that is no object.
DocumentRefused(m) ==
    LET s == CompileSettings(m) IN
    ~m.rawIsObject \/ \E k \in DOMAIN s : <<s[k], k>> \in m.refused

\* The document of an Agent with this Model.
CompileModel(m) ==
    IF DocumentRefused(m) THEN [verdict |-> "failed"]
    ELSE [verdict |-> "compiled", settings |-> CompileSettings(m),
          instructions |-> CompileInstructions(m), toolTimeout |-> ToolTimeout(m)]

----------------------------------------------------------------------------
(* AgentTrigger and Instruction.                                            *)

\* Mutant of TriggerAdmitted: the push target's name is not looked at.
TriggerAdmittedUnnamed(t) ==
    /\ t.missing \subseteq {"pushAgentName", "sinkURI"}
    /\ t.push # {"none"} => ExactlyOneOf(t.push)
    /\ "url" \in t.push => HTTPURLValid(t.pushURL)

\* validateAgentTrigger; missing is the set of required fields left empty.
TriggerAdmitted(t) ==
    /\ t.missing \cap {"source", "eventName", "agent", "filterPath", "filterValue",
                       "expr", "sinkURI"} = {}
    /\ t.push # {"none"} => ExactlyOneOf(t.push)
    /\ "agentRef" \in t.push => "pushAgentName" \notin t.missing
    /\ "url" \in t.push => HTTPURLValid(t.pushURL)

\* trigger.ValidateSpec: neither the URL nor the dead letter sink.
TriggerValid(t) ==
    /\ t.missing \cap {"source", "eventName", "agent", "filterPath", "filterValue",
                       "expr"} = {}
    /\ t.push # {"none"} => ExactlyOneOf(t.push)
    /\ "agentRef" \in t.push => "pushAgentName" \notin t.missing

\* validateInstruction.
InstructionAdmitted(i) == i.content # "empty"

----------------------------------------------------------------------------
(* The way of one object.                                                   *)

NothingMade == [verdict |-> "none"]

CatalogueStart(s) ==
    /\ item = s /\ fate = "applied"
    /\ servicePort = TRUE /\ product = NothingMade /\ upheavals = s.upheavals

CatalogueInit == \E s \in Submissions : CatalogueStart(s)

Admitted(i) ==
    CASE i.kind = "tool" -> ToolAdmitted(i.spec)
      [] i.kind = "provider" -> ProviderAdmitted(i.spec)
      [] i.kind = "model" -> ModelAdmitted(i.spec)
      [] i.kind = "trigger" -> TriggerAdmitted(i.spec)
      [] OTHER -> InstructionAdmitted(i.spec)

\* ValidateCreate or ValidateUpdate; missing references are only warned of.
Apply ==
    /\ fate = "applied"
    /\ fate' = IF item.webhooks /\ ~Admitted(item) THEN "denied" ELSE "stored"
    /\ UNCHANGED <<item, servicePort, product, upheavals>>

\* The controller's own judgement.
Assess ==
    /\ fate = "stored"
    /\ fate' = CASE item.kind = "tool" -> IF ToolValid(Thing) THEN "ready" ELSE "invalid"
                 [] item.kind = "provider" -> IF ProviderValid(Thing) THEN "ready" ELSE "invalid"
                 [] item.kind = "trigger" -> IF TriggerValid(Thing) THEN "ready" ELSE "invalid"
                 [] OTHER -> "ready"
    /\ UNCHANGED <<item, servicePort, product, upheavals>>

\* An Agent that refers to the object is compiled. The compiler reads the spec of
\* a tool and of a provider, not their Ready conditions.
CompileWith ==
    /\ fate \in {"ready", "invalid", "retrying", "compiled"}
    /\ LET made == CASE item.kind = "tool" -> CompileTool(Thing)
                     [] item.kind = "provider" ->
                          IF Thing.blocks = {} THEN [verdict |-> "failed"]
                          ELSE [verdict |-> "compiled", handler |-> HandlerOf(Thing)]
                     [] item.kind = "model" -> CompileModel(Thing)
                     [] OTHER -> [verdict |-> "compiled"]
       IN product' = made /\ fate' = made.verdict
    /\ UNCHANGED <<item, servicePort, upheavals>>

\* The Service loses or gains the port.
ServiceChanges ==
    /\ upheavals > 0 /\ item.kind = "tool"
    /\ servicePort' = ~servicePort /\ upheavals' = upheavals - 1
    /\ UNCHANGED <<item, fate, product>>

CatalogueNext == Apply \/ Assess \/ CompileWith \/ ServiceChanges

CatalogueSpec == CatalogueInit /\ [][CatalogueNext]_catalogueVars

----------------------------------------------------------------------------
(* What makes it correct.                                                   *)

\* Types; and a compiled tool has an endpoint: a URL, or a Service with a port and
\* an absolute path, whether or not a webhook ever saw the tool, as long as its
\* controller accepted it.
CatalogueTypeOK ==
    /\ fate \in {"applied", "denied", "stored", "ready", "invalid", "compiled",
                 "retrying", "failed"}
    /\ item.kind = "tool" /\ fate = "compiled" /\ ToolValid(Thing) =>
          \/ product.url.host \in {"http", "bad"}
          \/ /\ product.url.host = "service"
             /\ product.url.port \in {"given", "named", "default"}
             /\ product.url.path \in {"absolute", "/mcp", "/sse"}

\* The layers a setting may come from, the highest first.
Precedence(m) ==
    << <<m.fragTyped, "fragTyped">>, <<m.fragExtra, "fragExtra">>, <<m.raw, "raw">>,
       <<m.typed, "modelTyped">>, <<IF m.extraIsObject THEN m.extra ELSE {}, "modelExtra">> >>

\* The i-th layer is the highest that gives the key.
Wins(m, i, k) ==
    k \in Precedence(m)[i][1] /\ \A j \in 1..(i - 1) : k \notin Precedence(m)[j][1]

\* A value the AgentSpec schema does not allow wins its key.
BadValueWins(m) ==
    \E i \in 1..5 : \E k \in Precedence(m)[i][1] :
       Wins(m, i, k) /\ <<Precedence(m)[i][2], k>> \in m.refused

\* What the webhook admits the controller accepts: no object gets through
\* admission only to be reported invalid. A compile fails for good over a tool or a
\* provider only when no webhook saw it and its controller calls it invalid; over
\* a Model's settings, which the webhook leaves to the AgentSpec schema
\* (docs/model.md), exactly when a value the schema does not allow is the one that
\* wins, or when the Agent's own extra block is no object.
AdmittedIsUsable ==
    /\ ~(item.webhooks /\ fate = "invalid")
    /\ fate = "failed" =>
          \/ item.kind = "tool" /\ ~item.webhooks /\ ~ToolValid(Thing)
          \/ item.kind = "provider" /\ ~item.webhooks /\ ~ProviderValid(Thing)
          \/ item.kind = "model" /\ (~Thing.rawIsObject \/ BadValueWins(Thing))
    /\ item.kind = "model" /\ fate = "compiled" => Thing.rawIsObject /\ ~BadValueWins(Thing)

\* A header of a compiled tool has one value: HTTP does not tell spellings apart,
\* so a secret's header is no other header's (static headers among themselves are
\* nobody's concern).
HeadersAreDistinct ==
    item.webhooks /\ item.kind = "tool" /\ fate = "compiled" =>
       \A h, g \in product.headers :
          (h \notin Thing.headers \/ g \notin Thing.headers) /\ h.lower = g.lower => h = g

\* Of the layers a document is merged from none is lost and none jumps the
\* queue: a setting comes from the highest layer that gives it (the fragment's
\* typed field, its extra, the raw block, the Model's typed field, its extra), the
\* texts referred to come first and the fragment's last, and no tool gets less
\* time than it asks for unless the fragment says so.
DocumentPrecedence ==
    item.kind = "model" /\ fate = "compiled" =>
       LET m == Thing
           s == product.settings
       IN /\ DOMAIN s = UNION {Precedence(m)[i][1] : i \in 1..5}
          /\ \A k \in DOMAIN s : \E i \in 1..5 : s[k] = Precedence(m)[i][2] /\ Wins(m, i, k)
          /\ \A i \in 1..Len(m.refs) : product.instructions[i] = m.refs[i]
          /\ m.instructions # <<>> =>
                \A i \in 1..Len(m.instructions) :
                   product.instructions[Len(m.refs) + i] = m.instructions[i]
          /\ \A i \in 1..Len(m.timeouts) :
                m.timeouts[i] <= product.toolTimeout \/ m.ownTimeout # 0

\* The runner is pointed at the provider that was validated: the type the
\* controller reported is the one compiled with, the Vertex model class is chosen
\* exactly when the pod is given something only Vertex uses, and the key reaches
\* the pod unless the provider takes none.
ProviderAsValidated ==
    item.kind = "provider" /\ fate = "compiled" /\ ProviderValid(Thing) =>
       LET h == product.handler
           type == ProviderVerdict(Thing)
       IN /\ type = "google" =>
                (h.prefix = "google-vertex"
                   <=> {"project", "serviceAccountKey"} \cap (h.env \cup h.secretEnv) # {})
          /\ type # "google" => h.prefix = type
          /\ Thing.apiKey /\ type # "bedrock" => "apiKey" \in h.secretEnv

\* Webhook, controller and compiler agree on an object of the catalogue, and the
\* compile keeps every layer, header and key it was given.
CatalogueInv ==
  /\ CatalogueTypeOK
  /\ AdmittedIsUsable
  /\ HeadersAreDistinct
  /\ DocumentPrecedence
  /\ ProviderAsValidated
=============================================================================
