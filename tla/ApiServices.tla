----------------------------- MODULE ApiServices -----------------------------
(***************************************************************************)
(* The gRPC services of flokoa-server: clients read and write one custom   *)
(* resource through RPCs that pass the interceptor chain, convert between  *)
(* protobuf and Kubernetes types and call the Kubernetes API, while other  *)
(* writers (kubectl, the controllers) change the same resource.            *)
(*                                                                         *)
(* Conversions work field by field, so one field is followed at a time,    *)
(* whichever it is.  Its value is "nil" (a nil pointer), "zero" (the zero  *)
(* value), "a" or "b"; a protobuf message has no nil.                      *)
(***************************************************************************)
EXTENDS Integers

CONSTANTS
  Clients,
  Sessions     \* [kind, field, auth, calls, writes] explored: what the clients
               \* work on, whether they are authenticated, and the bounds on
               \* their RPCs and on the writes of others

VARIABLES
  kind,      \* the kind of resource the clients work on
  field,     \* the field of its metadata or spec that is followed
  auth,      \* authInterceptor # nil
  obj,       \* the stored resource, with the value of that field
  runs,      \* Argo Workflows submitted
  rpc,       \* client -> its RPC under way, with what it did
  copy,      \* client -> the message its last Get answered, and its origin
  calls,     \* RPCs still to come
  writes     \* writes of others still to come

apiVars == <<kind, field, auth, obj, runs, rpc, copy, calls, writes>>

-----------------------------------------------------------------------------
\* The metadata a writer may change.
Metadata          == {"labels", "annotations", "finalizers", "ownerReferences"}

\* The fields of the specs; the optional scalars are pointers.
AgentToolSpec     == {"type", "description", "url", "serviceRef", "port", "path",
                      "transport", "headers", "headerSecrets", "toolPrefix",
                      "allowedTools", "timeoutSeconds"}
ModelSpec         == {"model", "providerRef", "maxTokens", "temperature", "topP",
                      "topK", "modelTimeout", "parallelToolCalls", "seed",
                      "penalties", "logitBias", "stopSequences", "extraHeaders",
                      "extra"}
ModelProviderSpec == {"apiKeySecretRef", "openai", "anthropic", "google",
                      "serviceAccountKeySecretRef", "bedrock", "tls",
                      "defaultHeaders"}
AgentTriggerSpec  == {"eventSource", "eventBus", "filter", "agent", "task",
                      "pushNotification", "maxInvocationsPerHour",
                      "maxConcurrentTasks", "tokenBudgetPerEvent",
                      "tokenBudgetPerHour", "deadLetterSink"}
AgentSpec         == {"card", "runtime", "spec", "modelRef", "instructionRefs",
                      "tools", "capabilities", "secretRefs"}
AgentWorkflowSpec == {"description", "params", "tasks", "timeout"}

TriggerLimits == {"maxInvocationsPerHour", "maxConcurrentTasks", "tokenBudgetPerEvent",
           "tokenBudgetPerHour"}

\* The pointers that validation lets be set to their zero value.
ZeroPointers == {"parallelToolCalls", "seed"} \cup TriggerLimits
Pointers     == {"port", "timeoutSeconds", "maxTokens", "topK", "modelTimeout"}
                  \cup ZeroPointers

SpecOf(k) == CASE k = "AgentTool"     -> AgentToolSpec
               [] k = "Model"         -> ModelSpec
               [] k = "ModelProvider" -> ModelProviderSpec
               [] k = "AgentTrigger"  -> AgentTriggerSpec
               [] k = "Agent"         -> AgentSpec
               [] k = "AgentWorkflow" -> AgentWorkflowSpec

Fields(k) == Metadata \cup SpecOf(k)

Writable == {"AgentTool", "Model", "ModelProvider", "AgentTrigger"}
ResourceKinds == Writable \cup {"Agent", "AgentWorkflow"}

ASSUME SessionsAssumption ==
  \A s \in Sessions : /\ s.kind \in ResourceKinds /\ s.field \in Fields(s.kind)
                      /\ s.auth \in BOOLEAN /\ s.calls \in Nat /\ s.writes \in Nat

\* XSpecToProto: a nil pointer is answered as zero, a field it does not carry
\* too.
Carry(carried, f, v) == IF f \notin carried \/ v = "nil" THEN "zero" ELSE v

\* Mutant of ModelToProto: a nil pointer is passed on.
ModelToProtoNil(f, v) == v

AgentToolToProto(f, v)     == Carry(AgentToolSpec, f, v)
ModelToProto(f, v)         == Carry(ModelSpec, f, v)
ModelProviderToProto(f, v) == Carry(ModelProviderSpec \ {"serviceAccountKeySecretRef"}, f, v)
AgentTriggerToProto(f, v)  == Carry(AgentTriggerSpec, f, v)
AgentToProto(f, v)         == Carry(AgentSpec, f, v)
AgentWorkflowToProto(f, v) == Carry(AgentWorkflowSpec, f, v)

ObjectMetaToProto(f, v)    == Carry(Metadata, f, v)

ToProto(f, v) == IF f \in Metadata THEN ObjectMetaToProto(f, v) ELSE
                 CASE kind = "AgentTool"     -> AgentToolToProto(f, v)
                   [] kind = "Model"         -> ModelToProto(f, v)
                   [] kind = "ModelProvider" -> ModelProviderToProto(f, v)
                   [] kind = "AgentTrigger"  -> AgentTriggerToProto(f, v)
                   [] kind = "Agent"         -> AgentToProto(f, v)
                   [] kind = "AgentWorkflow" -> AgentWorkflowToProto(f, v)

\* XSpecFromProto: a pointer is set only for a non-zero value, a field it does
\* not take keeps the zero value of its type.
Restore(taken, f, v) ==
  IF f \in taken /\ ~(f \in Pointers /\ v = "zero") THEN v
  ELSE IF f \in Pointers THEN "nil" ELSE "zero"

\* Mutant of AgentToolFromProto: the header secrets are forgotten.
AgentToolFromProtoNoSecrets(f, v) == Restore(AgentToolSpec \ {"headerSecrets"}, f, v)

AgentToolFromProto(f, v)     == Restore(AgentToolSpec, f, v)
ModelFromProto(f, v)         == Restore(ModelSpec, f, v)
ModelProviderFromProto(f, v) == Restore({"defaultHeaders", "openai", "anthropic", "google",
                                         "bedrock"}, f, v)
AgentTriggerFromProto(f, v)  == Restore(AgentTriggerSpec, f, v)
ObjectMetaFromProto(f, v)    == Restore({"labels", "annotations", "finalizers"}, f, v)

FromProto(f, v) == IF f \in Metadata THEN ObjectMetaFromProto(f, v) ELSE
                   CASE kind = "AgentTool"     -> AgentToolFromProto(f, v)
                     [] kind = "Model"         -> ModelFromProto(f, v)
                     [] kind = "ModelProvider" -> ModelProviderFromProto(f, v)
                     [] kind = "AgentTrigger"  -> AgentTriggerFromProto(f, v)

-----------------------------------------------------------------------------
\* What a call of the Kubernetes API can be refused with, whatever it asks.
Refusals == {"ServiceUnavailable", "Other"}

\* Mutant of mapKubernetesError: an error of no known class is swallowed.
mapKubernetesErrorSwallowed(e) == IF e = "Other" THEN "OK" ELSE "Unavailable"

mapKubernetesError(e) ==
  CASE e = "NotFound"           -> "NotFound"
    [] e = "AlreadyExists"      -> "AlreadyExists"
    [] e = "Conflict"           -> "Aborted"
    [] e = "Invalid"            -> "InvalidArgument"
    [] e = "Forbidden"          -> "PermissionDenied"
    [] e = "Unauthorized"       -> "Unauthenticated"
    [] e = "ServiceUnavailable" -> "Unavailable"
    [] e = "TooManyRequests"    -> "ResourceExhausted"
    [] OTHER                    -> "Internal"

Codes == {"OK", "NotFound", "AlreadyExists", "Aborted", "InvalidArgument",
          "PermissionDenied", "Unauthenticated", "Unavailable",
          "ResourceExhausted", "Internal", "FailedPrecondition", "Unimplemented"}

Reads(k)  == {"Get", "List"} \cup (IF k = "AgentWorkflow" THEN {"GetRun"} ELSE {"Watch"})
Writes(k) == CASE k \in Writable        -> {"Create", "Update", "UpdateStatus", "Delete"}
               [] k = "AgentWorkflow"   -> {"Submit"}
               [] OTHER                 -> {}
Ops(k)    == Reads(k) \cup Writes(k) \cup {"Health"}

\* PublicGRPCMethods.
PublicMethods == {"Health"}

NoRpc == [pc |-> "idle", op |-> "List", token |-> "none", body |-> "none", changes |-> FALSE,
         rv |-> 0, code |-> "OK", raced |-> FALSE, effects |-> 0]

\* What the webhooks and the CRD schema admit for a field.
Initially(f) == {"a"} \cup (IF f \in Pointers THEN {"nil"} ELSE {})
                      \cup (IF f \in ZeroPointers THEN {"zero"} ELSE {})

NoCopy == [msg |-> "none", value |-> "none"]

ApiStart(s) ==
  /\ kind = s.kind /\ field = s.field /\ auth = s.auth
  /\ \E v \in Initially(field) : obj = [exists |-> TRUE, rv |-> 1, ready |-> FALSE, value |-> v]
  /\ runs = 0
  /\ rpc = [c \in Clients |-> NoRpc]
  /\ copy = [c \in Clients |-> NoCopy]
  /\ calls = s.calls /\ writes = s.writes

ApiInit == \E s \in Sessions : ApiStart(s)

Done(c, code)   == [rpc[c] EXCEPT !.pc = "done", !.code = code, !.body = "none", !.rv = 0]
Answer(c, code) == rpc' = [rpc EXCEPT ![c] = Done(c, code)]
\* c's RPC commits one write; RPCs of others that have read are overtaken.
Commit(c, code) ==
  rpc' = [d \in Clients |->
            IF d = c THEN [Done(c, code) EXCEPT !.effects = @ + 1]
            ELSE [rpc[d] EXCEPT !.raced = @ \/ rpc[d].pc = "write"]]

\* A client calls with a bearer token that verifies, one that does not, or none.
\* Update sends the last answer with the followed field changed or with another,
\* or sends metadata alone.
Receive(c) ==
  /\ rpc[c].pc \in {"idle", "done"} /\ calls > 0
  /\ calls' = calls - 1
  /\ \E op \in Ops(kind), token \in {"valid", "bad", "none"}, changes \in BOOLEAN :
       /\ changes => op = "Update" /\ copy[c] # NoCopy
       /\ rpc' = [rpc EXCEPT ![c] =
                    [NoRpc EXCEPT !.pc = "auth", !.op = op, !.token = token, !.changes = changes,
                                 !.body = IF op # "Update" \/ copy[c] = NoCopy THEN "none"
                                          ELSE IF changes THEN "b" ELSE copy[c].msg]]
  /\ UNCHANGED <<kind, field, auth, obj, runs, copy, writes>>

\* Mutant of Authenticated: any bearer token will do.
AuthenticatedUnverified(c) == ~auth \/ rpc[c].op \in PublicMethods \/ rpc[c].token # "none"

\* AuthInterceptor: metadata, the Bearer prefix, the OIDC verifier.
Authenticated(c) == ~auth \/ rpc[c].op \in PublicMethods \/ rpc[c].token = "valid"

\* The chain Logging, Recovery, Auth in front of every handler.
Intercept(c) ==
  /\ rpc[c].pc = "auth"
  /\ IF Authenticated(c) THEN rpc' = [rpc EXCEPT ![c].pc = "handle"]
                         ELSE Answer(c, "Unauthenticated")
  /\ UNCHANGED <<kind, field, auth, obj, runs, copy, calls, writes>>

\* The handler panics and RecoveryUnaryInterceptor answers for it.
Panic(c) ==
  /\ rpc[c].pc \in {"handle", "write"}
  /\ Answer(c, "Internal")
  /\ UNCHANGED <<kind, field, auth, obj, runs, copy, calls, writes>>

\* The early returns of the handlers: a request without name or namespace, a
\* selector that does not parse, and the watches that are not implemented.
Reject(c) ==
  /\ rpc[c].pc = "handle"
  /\ Answer(c, IF rpc[c].op = "Watch" THEN "Unimplemented" ELSE "InvalidArgument")
  /\ UNCHANGED <<kind, field, auth, obj, runs, copy, calls, writes>>

\* The Kubernetes API refuses the handler's call.
Refused(c) ==
  /\ rpc[c].pc \in {"handle", "write"} /\ rpc[c].op \notin {"Health", "Watch"}
  /\ \E e \in Refusals : Answer(c, mapKubernetesError(e))
  /\ UNCHANGED <<kind, field, auth, obj, runs, copy, calls, writes>>

\* GetX: the answer is a conversion of one read.
Get(c) ==
  /\ rpc[c].pc = "handle" /\ rpc[c].op = "Get"
  /\ IF obj.exists
     THEN /\ copy' = [copy EXCEPT ![c] = [msg |-> ToProto(field, obj.value), value |-> obj.value]]
          /\ Answer(c, "OK")
     ELSE copy' = copy /\ Answer(c, mapKubernetesError("NotFound"))
  /\ UNCHANGED <<kind, field, auth, obj, runs, calls, writes>>

\* ListX, ListWorkflowRuns and the health check change nothing.
List(c) ==
  /\ rpc[c].pc = "handle" /\ rpc[c].op \in {"List", "Health"}
  /\ Answer(c, "OK")
  /\ UNCHANGED <<kind, field, auth, obj, runs, copy, calls, writes>>

\* GetWorkflowRun: a run is found, unless its label names another workflow.
GetRun(c) ==
  /\ rpc[c].pc = "handle" /\ rpc[c].op = "GetRun"
  /\ Answer(c, IF runs > 0 THEN "OK" ELSE mapKubernetesError("NotFound"))
  /\ UNCHANGED <<kind, field, auth, obj, runs, copy, calls, writes>>

\* CreateX.
Create(c) ==
  /\ rpc[c].pc = "handle" /\ rpc[c].op = "Create"
  /\ IF obj.exists
     THEN Answer(c, mapKubernetesError("AlreadyExists")) /\ obj' = obj
     ELSE /\ obj' = [obj EXCEPT !.exists = TRUE, !.rv = @ + 1, !.ready = FALSE,
                                !.value = FromProto(field, "a")]
          /\ Commit(c, "OK")
  /\ UNCHANGED <<kind, field, auth, runs, copy, calls, writes>>

\* UpdateX, UpdateXStatus and SubmitWorkflowRun first read the resource.
ReadFirst(c) ==
  /\ rpc[c].pc = "handle" /\ rpc[c].op \in {"Update", "UpdateStatus", "Submit"}
  /\ IF ~obj.exists THEN Answer(c, mapKubernetesError("NotFound"))
     ELSE IF rpc[c].op = "Submit" /\ ~obj.ready THEN Answer(c, "FailedPrecondition")
     ELSE rpc' = [rpc EXCEPT ![c].pc = "write", ![c].rv = obj.rv]
  /\ UNCHANGED <<kind, field, auth, obj, runs, copy, calls, writes>>

\* The API server takes a write that carries the current resource version.
Fresh(c) == obj.exists /\ obj.rv = rpc[c].rv

\* Mutant of UpdateWrite: it does not carry the version that was read.
UpdateWriteBlind(c) ==
  /\ rpc[c].pc = "write" /\ rpc[c].op = "Update"
  /\ IF obj.exists /\ rpc[c].body # "none"
     THEN /\ obj' = [obj EXCEPT !.rv = @ + 1, !.value = FromProto(field, rpc[c].body)]
          /\ Commit(c, "OK")
     ELSE obj' = obj /\ Answer(c, mapKubernetesError("Conflict"))
  /\ UNCHANGED <<kind, field, auth, runs, copy, calls, writes>>

\* UpdateX writes the converted message with the version of its own read,
\* whatever version the message had.  Admission refuses an empty spec.
UpdateWrite(c) ==
  /\ rpc[c].pc = "write" /\ rpc[c].op = "Update"
  /\ IF Fresh(c) /\ rpc[c].body # "none"
     THEN /\ obj' = [obj EXCEPT !.rv = @ + 1, !.value = FromProto(field, rpc[c].body)]
          /\ Commit(c, "OK")
     ELSE /\ obj' = obj
          /\ Answer(c, mapKubernetesError(IF ~obj.exists THEN "NotFound"
                                          ELSE IF Fresh(c) THEN "Invalid" ELSE "Conflict"))
  /\ UNCHANGED <<kind, field, auth, runs, copy, calls, writes>>

\* UpdateXStatus writes the fields of the request into the status it read.
UpdateStatusWrite(c) ==
  /\ rpc[c].pc = "write" /\ rpc[c].op = "UpdateStatus"
  /\ IF Fresh(c)
     THEN /\ \E r \in BOOLEAN : obj' = [obj EXCEPT !.rv = @ + 1, !.ready = r]
          /\ Commit(c, "OK")
     ELSE /\ obj' = obj
          /\ Answer(c, mapKubernetesError(IF obj.exists THEN "Conflict" ELSE "NotFound"))
  /\ UNCHANGED <<kind, field, auth, runs, copy, calls, writes>>

\* SubmitWorkflowRun creates an Argo Workflow; nothing ties it to the read.
SubmitWrite(c) ==
  /\ rpc[c].pc = "write" /\ rpc[c].op = "Submit"
  /\ runs' = runs + 1
  /\ Commit(c, "OK")
  /\ UNCHANGED <<kind, field, auth, obj, copy, calls, writes>>

\* DeleteX carries no precondition.
Delete(c) ==
  /\ rpc[c].pc = "handle" /\ rpc[c].op = "Delete"
  /\ IF obj.exists THEN obj' = [obj EXCEPT !.exists = FALSE, !.rv = @ + 1] /\ Commit(c, "OK")
                   ELSE obj' = obj /\ Answer(c, mapKubernetesError("NotFound"))
  /\ UNCHANGED <<kind, field, auth, runs, copy, calls, writes>>

\* The API server commits a write and its answer is lost on the way back.
AnswerLost(c) ==
  /\ \/ rpc[c].pc = "handle" /\ rpc[c].op = "Create" /\ ~obj.exists /\ runs' = runs
        /\ obj' = [obj EXCEPT !.exists = TRUE, !.rv = @ + 1, !.ready = FALSE,
                              !.value = FromProto(field, "a")]
     \/ rpc[c].pc = "write" /\ rpc[c].op = "UpdateStatus" /\ Fresh(c) /\ runs' = runs
        /\ \E r \in BOOLEAN : obj' = [obj EXCEPT !.rv = @ + 1, !.ready = r]
     \/ rpc[c].pc = "handle" /\ rpc[c].op = "Delete" /\ obj.exists
        /\ obj' = [obj EXCEPT !.exists = FALSE, !.rv = @ + 1] /\ runs' = runs
     \/ rpc[c].pc = "write" /\ rpc[c].op = "Submit" /\ runs' = runs + 1 /\ obj' = obj
     \/ rpc[c].pc = "write" /\ rpc[c].op = "Update" /\ Fresh(c) /\ rpc[c].body # "none"
        /\ obj' = [obj EXCEPT !.rv = @ + 1, !.value = FromProto(field, rpc[c].body)]
        /\ runs' = runs
  /\ Commit(c, mapKubernetesError("Other"))
  /\ UNCHANGED <<kind, field, auth, copy, calls, writes>>

\* kubectl or a controller changes the resource, deletes it or creates it again.
OtherWrite ==
  /\ writes > 0 /\ writes' = writes - 1
  /\ \/ obj.exists /\ obj' = [obj EXCEPT !.rv = @ + 1, !.value = "b"]
     \/ obj.exists /\ obj' = [obj EXCEPT !.rv = @ + 1, !.ready = ~@]
     \/ obj' = [obj EXCEPT !.rv = @ + 1, !.exists = ~@]
  /\ rpc' = [d \in Clients |-> [rpc[d] EXCEPT !.raced = @ \/ rpc[d].pc = "write"]]
  /\ UNCHANGED <<kind, field, auth, runs, copy, calls>>

Handle(c) == \/ Intercept(c) \/ Panic(c) \/ Reject(c) \/ Refused(c) \/ Get(c) \/ List(c)
             \/ GetRun(c) \/ Create(c) \/ ReadFirst(c) \/ UpdateWrite(c)
             \/ UpdateStatusWrite(c) \/ SubmitWrite(c) \/ Delete(c) \/ AnswerLost(c)

ApiNext == OtherWrite \/ \E c \in Clients : Receive(c) \/ Handle(c)

ApiSpec == ApiInit /\ [][ApiNext]_apiVars

-----------------------------------------------------------------------------
\* Messages have the fields their kind carries, and an RPC holds one only
\* between its call and its end.
ApiTypeOK ==
  /\ kind \in ResourceKinds /\ auth \in BOOLEAN /\ runs \in Nat
  /\ obj.exists \in BOOLEAN /\ obj.ready \in BOOLEAN /\ obj.rv \in Nat
  /\ field \in Fields(kind)
  /\ obj.value \in {"zero", "a", "b"} \cup (IF field \in Pointers THEN {"nil"} ELSE {})
  /\ \A c \in Clients : /\ rpc[c].pc \in {"idle", "auth", "handle", "write", "done"}
                        /\ rpc[c].op \in Ops(kind) /\ rpc[c].code \in Codes
                        /\ rpc[c].pc = "write" => rpc[c].rv <= obj.rv
                        /\ copy[c] # NoCopy => copy[c].msg \in {"zero", "a", "b"}

\* The answer tells what happened: a write that is answered OK took effect, once,
\* and one that is refused with any code but Internal did not.  Internal leaves
\* it open, because the API server's answer may have been lost.
AnswerMatchesEffect ==
  \A c \in Clients :
     /\ rpc[c].effects <= 1
     /\ rpc[c].pc = "done" /\ rpc[c].op \in Writes(kind) =>
          /\ rpc[c].code = "OK" => rpc[c].effects = 1
          /\ rpc[c].code \notin {"OK", "Internal"} => rpc[c].effects = 0

\* Nobody's write is overwritten unseen inside an RPC: an update takes effect
\* only if nothing was written between its own read and its write.
NothingOverwrittenUnseen ==
  \A c \in Clients : rpc[c].op \in {"Update", "UpdateStatus"} /\ rpc[c].effects > 0
                       => ~rpc[c].raced

\* With authentication configured, whatever changed the cluster came with a
\* token that verifies.
OnlyAuthenticatedWrites ==
  \A c \in Clients : auth /\ rpc[c].effects > 0 => rpc[c].token = "valid"

\* An RPC's answer tells what it did, it overwrites nothing it did not read, and
\* it changes nothing for a caller who is not authenticated.
ApiInv ==
  /\ ApiTypeOK
  /\ AnswerMatchesEffect
  /\ NothingOverwrittenUnseen
  /\ OnlyAuthenticatedWrites

\* What a Get and an Update lose: ObjectMetaFromProto takes no owner references,
\* ModelProviderSpecFromProto neither the secrets nor the TLS settings, and a
\* pointer to false or 0 comes back as nil.
KnownLoss(f, v) ==
  \/ f \in {"ownerReferences", "apiKeySecretRef", "serviceAccountKeySecretRef", "tls"}
  \/ f \in {"parallelToolCalls", "seed", "tokenBudgetPerEvent"} /\ v = "zero"

\* For these limits of a trigger nil and 0 both mean unlimited.
SameMeaning(f, v, w) ==
  \/ v = w
  \/ f \in TriggerLimits \ {"tokenBudgetPerEvent"} /\ {v, w} \subseteq {"nil", "zero"}

\* A client that reads a resource, changes a field of its spec or metadata and
\* writes it back changes that field and leaves every other field of the spec,
\* and the labels, annotations and finalizers, as it read them.  The known losses
\* are the exception: such a field is cleared, never given another value.
RoundTripKeeps ==
  [][\A c \in Clients :
       rpc[c].pc = "write" /\ rpc[c].op = "Update" /\ rpc'[c].effects = 1 =>
         LET meant == IF rpc[c].changes THEN "b" ELSE copy[c].value IN
         \/ SameMeaning(field, obj'.value, meant)
         \/ KnownLoss(field, meant) /\ obj'.value \in {"nil", "zero"}
    ]_apiVars
=============================================================================
