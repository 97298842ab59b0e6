---------------------------- MODULE MCAdmission ----------------------------
(* Everything that decides whether a request gets in: the webhooks and the   *)
(* compilers behind them, the RPCs of the API server, the limiter of the     *)
(* trigger endpoint. They share no state, so a behaviour is one part's, and   *)
(* the others keep one initial state.                                        *)
EXTENDS MCWorkflowAdmission, MCAgentAdmission, CatalogAdmission, ApiServices, TriggerLimiter

VARIABLE part

Parts == {"workflow", "agent", "catalogue", "api", "limiter"}

----------------------------------------------------------------------------
(* Objects of the catalogue.                                                *)

H(spelling, lower) == [spelling |-> spelling, lower |-> lower]
HeaderSets == {{}, {H("X-Key", "x-key")}, {H("x-key", "x-key")}, {H("X-Other", "x-other")}}
SecretLists == {<<>>, <<H("X-Key", "x-key")>>,
                <<H("X-Key", "x-key"), H("x-key", "x-key")>>,
                <<H("X-Key", "x-key"), H("X-Other", "x-other")>>}

\* Every endpoint with one list of headers, every list with one endpoint.
Endpoints ==
    [type : {"mcp", "openapi"}, url : {"empty", "http", "bad"},
     svc : {{"none"}, {}, {"port"}, {"portName"}, {"port", "portName"}},
     path : {"empty", "absolute", "relative"}, transport : {"/mcp", "/sse"},
     headers : {{}}, secrets : {<<>>}]
Headed ==
    [type : {"mcp"}, url : {"http"}, svc : {{"none"}}, path : {"empty"}, transport : {"/mcp"},
     headers : HeaderSets, secrets : SecretLists]

Providers ==
    [blocks : SUBSET {"openai", "anthropic", "google", "bedrock"}, baseURL : {"empty", "http", "bad"},
     google : SUBSET {"project", "location", "serviceAccountKey"}, region : BOOLEAN,
     apiKey : BOOLEAN]

\* Every stack of settings, with values the schema does not allow in the Model's and
\* the fragment's extra, and every mix of texts and timeouts.
Keys == {"temperature", "other"}
Settings ==
    [typed : SUBSET {"temperature"}, extra : SUBSET Keys, extraIsObject : BOOLEAN,
     fragTyped : SUBSET {"temperature"}, fragExtra : SUBSET Keys, raw : SUBSET Keys,
     rawIsObject : {TRUE}, refused : SUBSET {<<"modelExtra", "other">>, <<"fragExtra", "other">>},
     refs : {<<>>}, instructions : {<<>>}, rawInstructions : {<<>>}, timeouts : {<<>>},
     ownTimeout : {0}]
Texts ==
    [typed : {{}}, extra : {{}}, extraIsObject : {TRUE}, fragTyped : {{}}, fragExtra : {{}},
     raw : {{}}, rawIsObject : BOOLEAN, refused : {{}}, refs : {<<>>, <<"r1">>, <<"r1", "r2">>}, instructions : {<<>>, <<"f">>},
     rawInstructions : {<<>>, <<"x", "number">>},
     timeouts : {<<>>, <<3>>, <<3, 0, 5>>, <<5, 3>>}, ownTimeout : {0, 1}]

Missing == {{}, {"source"}, {"expr"}, {"sinkURI"}, {"pushAgentName"}, {"agent", "sinkURI"}}
Triggers ==
    [missing : Missing, push : {{"none"}, {}, {"url"}, {"agentRef"}, {"url", "agentRef"}},
     pushURL : {"empty", "http", "bad"}]

Submitted(k, specs) ==
    {[kind |-> k, spec |-> s, webhooks |-> w, upheavals |-> IF k = "tool" THEN 1 ELSE 0] :
       s \in specs, w \in BOOLEAN}

SomeSubmissions ==
    Submitted("tool", Endpoints \cup Headed) \cup Submitted("provider", Providers)
    \cup Submitted("model", Settings \cup Texts) \cup Submitted("trigger", Triggers)
    \cup Submitted("instruction", [content : {"empty", "text"}])
NoSubmission == [kind |-> "instruction", spec |-> [content |-> "text"], webhooks |-> TRUE,
                 upheavals |-> 0]

----------------------------------------------------------------------------
(* RPCs: any field of any kind with two calls; fields of each sort with a     *)
(* writer beside them, and one without authentication.                       *)

Session(k, f, a, w) == [kind |-> k, field |-> f, auth |-> a, calls |-> 2, writes |-> w]
SomeSessions ==
    UNION {{Session(k, f, TRUE, 0) : f \in Fields(k)} : k \in ResourceKinds}
    \cup {Session("AgentTool", "headerSecrets", TRUE, 1), Session("AgentTool", "url", FALSE, 1),
          Session("Model", "seed", TRUE, 1), Session("ModelProvider", "tls", TRUE, 1),
          Session("AgentTrigger", "maxConcurrentTasks", TRUE, 1),
          Session("Agent", "runtime", TRUE, 1), Session("AgentWorkflow", "tasks", TRUE, 1)}
NoSession == [Session("AgentTool", "url", TRUE, 0) EXCEPT !.calls = 0]

----------------------------------------------------------------------------
NoWorkflow ==
    /\ wf = Submit(<<>>, <<>>, {}) /\ io = TRUE /\ pc = "freeze" /\ root = 1
    /\ color = <<>> /\ stack = <<>> /\ cycle = FALSE

MCInit ==
    /\ part \in Parts
    /\ IF part = "workflow" THEN Init ELSE NoWorkflow
    /\ IF part = "agent" THEN AdmissionInit ELSE AdmissionStart(NoWorld)
    /\ IF part = "catalogue" THEN CatalogueInit ELSE CatalogueStart(NoSubmission)
    /\ IF part = "api" THEN ApiInit ELSE ApiStart(NoSession)
    /\ IF part = "limiter" THEN LimiterInit ELSE config = NULL /\ LimiterInit

MCNext ==
    /\ part' = part
    /\ \/ part = "workflow" /\ Next
          /\ UNCHANGED <<admissionVars, catalogueVars, apiVars, limiterVars>>
       \/ part = "agent" /\ AdmissionNext
          /\ UNCHANGED <<vars, catalogueVars, apiVars, limiterVars>>
       \/ part = "catalogue" /\ CatalogueNext
          /\ UNCHANGED <<vars, admissionVars, apiVars, limiterVars>>
       \/ part = "api" /\ ApiNext
          /\ UNCHANGED <<vars, admissionVars, catalogueVars, limiterVars>>
       \/ part = "limiter" /\ LimiterNext
          /\ UNCHANGED <<vars, admissionVars, catalogueVars, apiVars>>

MCSpec == MCInit /\ [][MCNext]_<<part, vars, admissionVars, catalogueVars, apiVars, limiterVars>>
=============================================================================
