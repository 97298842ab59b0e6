---------------------------- MODULE ServerProofs ----------------------------
(* TLAPS proofs about flokoa-server, for every value of its constants: the   *)
(* gRPC services, the playground proxy, the limiter of the invoke endpoint,  *)
(* and the watch streams with the page.                                      *)
EXTENDS ApiServices, AgentProxy, TriggerLimiter, WatchStream,
        FiniteSetTheorems, SequenceTheorems, TLAPS

-----------------------------------------------------------------------------
(* The gRPC services: the inductive invariant. *)

Messages == {"zero", "a", "b"}

\* What a field of a stored spec can be: zero only where the API lets it be.
StoredValues(f) == {"a", "b"} \cup (IF f \in Pointers THEN {"nil"} ELSE {"zero"})
                              \cup (IF f \in ZeroPointers THEN {"zero"} ELSE {})

RpcSteps == {"idle", "auth", "handle", "write", "done"}

AllOps == {"Get", "List", "Watch", "GetRun", "Create", "Update", "UpdateStatus", "Delete",
           "Submit", "Health"}

Rpcs == [pc : RpcSteps, op : AllOps, token : {"valid", "bad", "none"},
         body : Messages \cup {"none"}, changes : BOOLEAN, rv : Nat, code : Codes,
         raced : BOOLEAN, effects : {0, 1}]

Stores == [exists : BOOLEAN, rv : Nat, ready : BOOLEAN,
           value : {"nil", "zero", "a", "b"}]

\* The shapes of the state.
ApiShape ==
  /\ kind \in ResourceKinds /\ field \in Fields(kind) /\ auth \in BOOLEAN /\ runs \in Nat
  /\ obj \in Stores /\ obj.value \in StoredValues(field)
  /\ rpc \in [Clients -> Rpcs]
  /\ copy \in [Clients -> [msg : Messages \cup {"none"}, value : {"none", "nil", "zero", "a", "b"}]]
  /\ \A c \in Clients : rpc[c].op \in Ops(kind)

\* An RPC has no effect before it ends, what overtakes it makes its version stale,
\* and an authenticated server lets only a valid token past the interceptor.
RpcInOrder(r) ==
  /\ r.pc # "done" => r.effects = 0
  /\ r.pc \in {"auth", "handle"} => ~r.raced
  /\ r.pc = "write" => /\ r.op \in {"Update", "UpdateStatus", "Submit"} /\ r.rv <= obj.rv
                       /\ r.raced /\ r.op # "Submit" => r.rv < obj.rv
  /\ auth /\ (r.pc \in {"handle", "write"} \/ r.effects > 0) =>
       r.op \in PublicMethods \/ r.token = "valid"
  /\ r.effects > 0 => /\ r.op \notin PublicMethods
                      /\ r.op \in {"Update", "UpdateStatus"} => ~r.raced
  /\ r.pc = "done" /\ r.op \in Writes(kind) =>
       /\ r.code = "OK" => r.effects = 1
       /\ r.code \notin {"OK", "Internal"} => r.effects = 0

\* The message an Update carries is the last answer its client got, or changes it.
BodyIsOwn(c) ==
  /\ copy[c] # NoCopy => /\ copy[c].value \in StoredValues(field)
                         /\ copy[c].msg = ToProto(field, copy[c].value)
  /\ rpc[c].pc \in {"auth", "handle", "write"} /\ rpc[c].body # "none" =>
       /\ rpc[c].op = "Update" /\ copy[c] # NoCopy
       /\ rpc[c].body = IF rpc[c].changes THEN "b" ELSE copy[c].msg

ApiIndInv == ApiShape /\ \A c \in Clients : RpcInOrder(rpc[c]) /\ BodyIsOwn(c)

-----------------------------------------------------------------------------
(* The conversions. *)

\* The kinds whose converters carry every field of the spec both ways.
Faithful == {"AgentTool", "Model", "AgentTrigger"}

\* No spec has a field of the metadata.
LEMMA SpecIsNoMetadata ==
  ASSUME kind \in ResourceKinds, NEW f \in SpecOf(kind)
  PROVE  f \notin Metadata
<1>1. CASE kind = "AgentTool"
  BY <1>1 DEF SpecOf, AgentToolSpec, Metadata
<1>2. CASE kind = "Model"
  BY <1>2 DEF SpecOf, ModelSpec, Metadata
<1>3. CASE kind = "ModelProvider"
  BY <1>3 DEF SpecOf, ModelProviderSpec, Metadata
<1>4. CASE kind = "AgentTrigger"
  BY <1>4 DEF SpecOf, AgentTriggerSpec, Metadata
<1>5. CASE kind = "Agent"
  BY <1>5 DEF SpecOf, AgentSpec, Metadata
<1>6. CASE kind = "AgentWorkflow"
  BY <1>6 DEF SpecOf, AgentWorkflowSpec, Metadata
<1> QED BY <1>1, <1>2, <1>3, <1>4, <1>5, <1>6 DEF ResourceKinds, Writable

\* What the metadata converters do: the owner references do not come back.
LEMMA MetaConversion ==
  ASSUME NEW f \in Metadata, NEW v
  PROVE  /\ f \notin Pointers
         /\ ToProto(f, v) = IF v = "nil" THEN "zero" ELSE v
         /\ FromProto(f, v) = IF f = "ownerReferences" THEN "zero" ELSE v
<1>1. f \notin Pointers
  BY DEF Metadata, Pointers, ZeroPointers, TriggerLimits
<1>2. ToProto(f, v) = IF v = "nil" THEN "zero" ELSE v
  BY DEF ToProto, ObjectMetaToProto, Carry
<1>3. f \in {"labels", "annotations", "finalizers"} <=> f # "ownerReferences"
  BY DEF Metadata
<1>4. FromProto(f, v) = Restore({"labels", "annotations", "finalizers"}, f, v)
  BY DEF FromProto, ObjectMetaFromProto
<1> QED BY <1>1, <1>2, <1>3, <1>4 DEF Restore

\* What these converters do.
LEMMA FaithfulConversion ==
  ASSUME kind \in Faithful, NEW f \in SpecOf(kind), NEW v
  PROVE  /\ ToProto(f, v) = IF v = "nil" THEN "zero" ELSE v
         /\ FromProto(f, v) = IF f \in Pointers /\ v = "zero" THEN "nil" ELSE v
<1>0. f \notin Metadata
  BY SpecIsNoMetadata DEF Faithful, ResourceKinds, Writable
<1>1. CASE kind = "AgentTool"
  BY <1>0, <1>1 DEF SpecOf, ToProto, FromProto, AgentToolToProto, AgentToolFromProto, Carry, Restore
<1>2. CASE kind = "Model"
  BY <1>0, <1>2 DEF SpecOf, ToProto, FromProto, ModelToProto, ModelFromProto, Carry, Restore
<1>3. CASE kind = "AgentTrigger"
  BY <1>0, <1>3 DEF SpecOf, ToProto, FromProto, AgentTriggerToProto, AgentTriggerFromProto,
                    Carry, Restore
<1> QED BY <1>1, <1>2, <1>3 DEF Faithful

\* What the ModelProvider converters do: no field is a pointer, and the secrets
\* and TLS settings come back empty.
LEMMA ProviderConversion ==
  ASSUME kind = "ModelProvider", NEW f \in SpecOf(kind), NEW v \in {"zero", "a", "b"}
  PROVE  /\ f \notin Pointers
         /\ ToProto(f, v) \in {v, "zero"} /\ FromProto(f, v) \in {v, "zero"}
         /\ f \notin {"apiKeySecretRef", "serviceAccountKeySecretRef", "tls"} =>
              ToProto(f, v) = v /\ FromProto(f, v) = v
<1>1. f \in ModelProviderSpec /\ f \notin Metadata
  BY SpecIsNoMetadata DEF SpecOf, ResourceKinds, Writable
<1>2. f \notin Pointers
  BY <1>1 DEF ModelProviderSpec, Pointers, ZeroPointers, TriggerLimits
<1>3. ToProto(f, v) = Carry(ModelProviderSpec \ {"serviceAccountKeySecretRef"}, f, v)
  BY <1>1 DEF ToProto, ModelProviderToProto
<1>4. FromProto(f, v) = Restore({"defaultHeaders", "openai", "anthropic", "google", "bedrock"}, f, v)
  BY <1>1 DEF FromProto, ModelProviderFromProto
<1>5. f \notin {"apiKeySecretRef", "serviceAccountKeySecretRef", "tls"} =>
        f \in {"defaultHeaders", "openai", "anthropic", "google", "bedrock"}
  BY <1>1 DEF ModelProviderSpec
<1> QED BY <1>1, <1>2, <1>3, <1>4, <1>5 DEF Carry, Restore

\* An answer never carries nil, whatever is stored.
LEMMA ToProtoMessage ==
  ASSUME kind \in ResourceKinds, NEW f \in Fields(kind), NEW v \in StoredValues(f)
  PROVE  ToProto(f, v) \in Messages
<1>1. v \in {"nil", "zero", "a", "b"}
  BY DEF StoredValues
<1>0. CASE f \in Metadata
  BY <1>0, <1>1, MetaConversion DEF Messages
<1> SUFFICES ASSUME f \notin Metadata PROVE ToProto(f, v) \in Messages
  BY <1>0
<1>2. CASE kind \in Faithful
  BY <1>1, <1>2, FaithfulConversion DEF Messages, Fields
<1>3. CASE kind = "ModelProvider"
  <2>1. ToProto(f, v) = Carry(ModelProviderSpec \ {"serviceAccountKeySecretRef"}, f, v)
    BY <1>3 DEF ToProto, ModelProviderToProto
  <2> QED BY <1>1, <2>1 DEF Carry, Messages
<1>4. CASE kind = "Agent"
  BY <1>1, <1>4 DEF ToProto, AgentToProto, Carry, Messages
<1>5. CASE kind = "AgentWorkflow"
  BY <1>1, <1>5 DEF ToProto, AgentWorkflowToProto, Carry, Messages
<1> QED BY <1>2, <1>3, <1>4, <1>5 DEF ResourceKinds, Writable, Faithful

\* A message written back is stored as something the API allows.
LEMMA FromProtoStored ==
  ASSUME kind \in Writable, NEW f \in Fields(kind), NEW m \in Messages
  PROVE  FromProto(f, m) \in StoredValues(f)
<1>0. CASE f \in Metadata
  BY <1>0, MetaConversion DEF Messages, StoredValues
<1> SUFFICES ASSUME f \in SpecOf(kind) PROVE FromProto(f, m) \in StoredValues(f)
  BY <1>0 DEF Fields
<1>1. CASE kind \in Faithful
  BY <1>1, FaithfulConversion DEF Messages, StoredValues
<1>2. CASE kind = "ModelProvider"
  <2>1. f \notin Pointers /\ FromProto(f, m) \in {m, "zero"}
    BY <1>2, ProviderConversion DEF Messages
  <2> QED BY <2>1 DEF Messages, StoredValues
<1> QED BY <1>1, <1>2 DEF Writable, Faithful

\* v arrives as w: with the same meaning, or cleared where that is known.
Arrives(f, v, w) == \/ SameMeaning(f, v, w)
                    \/ KnownLoss(f, w) /\ v \in {"nil", "zero"}

\* A stored value that is answered and written back, and a changed field that is
\* written, arrive as meant but for the known losses.
LEMMA RoundTrip ==
  ASSUME kind \in Writable, NEW f \in Fields(kind)
  PROVE  /\ \A v \in StoredValues(f) : Arrives(f, FromProto(f, ToProto(f, v)), v)
         /\ Arrives(f, FromProto(f, "b"), "b")
<1>0. CASE f \in Metadata
  <2>1. /\ f \notin Pointers
        /\ \A v : /\ ToProto(f, v) = IF v = "nil" THEN "zero" ELSE v
                  /\ FromProto(f, v) = IF f = "ownerReferences" THEN "zero" ELSE v
    BY <1>0, MetaConversion
  <2>2. StoredValues(f) \subseteq {"zero", "a", "b"}
    BY <2>1 DEF StoredValues, Pointers
  <2>3. CASE f = "ownerReferences"
    BY <2>1, <2>3 DEF Arrives, KnownLoss
  <2>4. CASE f # "ownerReferences"
    BY <2>1, <2>2, <2>4 DEF Arrives, SameMeaning
  <2> QED BY <2>3, <2>4
<1> SUFFICES ASSUME f \in SpecOf(kind)
    PROVE  /\ \A v \in StoredValues(f) : Arrives(f, FromProto(f, ToProto(f, v)), v)
           /\ Arrives(f, FromProto(f, "b"), "b")
  BY <1>0 DEF Fields
<1>1. CASE kind \in Faithful
  <2>1. \A v : /\ ToProto(f, v) = IF v = "nil" THEN "zero" ELSE v
               /\ FromProto(f, v) = IF f \in Pointers /\ v = "zero" THEN "nil" ELSE v
    BY <1>1, FaithfulConversion
  <2>2. FromProto(f, "b") = "b"
    BY <2>1
  <2>3. ASSUME NEW v \in StoredValues(f) PROVE Arrives(f, FromProto(f, ToProto(f, v)), v)
    <3>1. CASE v \in {"a", "b"}
      <4>1. FromProto(f, ToProto(f, v)) = v
        BY <2>1, <3>1
      <4> QED BY <4>1 DEF SameMeaning, Arrives
    <3>2. CASE v = "nil"
      <4>1. f \in Pointers
        BY <2>3, <3>2 DEF StoredValues
      <4>2. FromProto(f, ToProto(f, v)) = v
        BY <2>1, <3>2, <4>1
      <4> QED BY <4>2 DEF SameMeaning, Arrives
    <3>3. CASE v = "zero" /\ f \notin Pointers
      <4>1. FromProto(f, ToProto(f, v)) = v
        BY <2>1, <3>3
      <4> QED BY <4>1 DEF SameMeaning, Arrives
    <3>4. CASE v = "zero" /\ f \in Pointers
      <4>1. f \in ZeroPointers
        BY <2>3, <3>4 DEF StoredValues
      <4>2. FromProto(f, ToProto(f, v)) = "nil"
        BY <2>1, <3>4
      <4> QED BY <3>4, <4>1, <4>2 DEF ZeroPointers, SameMeaning, KnownLoss, Arrives
    <3> QED BY <2>3, <3>1, <3>2, <3>3, <3>4 DEF StoredValues
  <2> QED BY <2>2, <2>3 DEF SameMeaning, Arrives
<1>2. CASE kind = "ModelProvider"
  <2>1. f \notin Pointers
    BY <1>2, ProviderConversion
  <2>2. StoredValues(f) = {"zero", "a", "b"}
    BY <2>1 DEF StoredValues, Pointers
  <2>3. CASE f \in {"apiKeySecretRef", "serviceAccountKeySecretRef", "tls"}
    <3>1. \A v : ToProto(f, v) \in {v, "zero"} \/ v \notin {"zero", "a", "b"}
      BY <1>2, ProviderConversion
    <3>2. \A v \in {"zero", "a", "b"} : FromProto(f, v) = "zero"
      <4>1. f \notin Metadata
        BY <1>2, SpecIsNoMetadata DEF ResourceKinds, Writable
      <4> QED BY <1>2, <2>1, <2>3, <4>1 DEF FromProto, ModelProviderFromProto, Restore
    <3> QED BY <2>2, <2>3, <3>1, <3>2 DEF KnownLoss, Arrives
  <2>4. CASE f \notin {"apiKeySecretRef", "serviceAccountKeySecretRef", "tls"}
    BY <1>2, <2>2, <2>4, ProviderConversion DEF SameMeaning, Arrives
  <2> QED BY <2>3, <2>4
<1> QED BY <1>1, <1>2 DEF Writable, Faithful

-----------------------------------------------------------------------------
(* What a step may do to the RPCs. *)

\* The cluster's writes are of the writable kinds and of workflows.
LEMMA OpFacts ==
  ASSUME kind \in ResourceKinds
  PROVE  /\ Ops(kind) \subseteq AllOps /\ Writes(kind) \subseteq Ops(kind)
         /\ {"Update", "UpdateStatus", "Create", "Delete"} \cap Ops(kind) # {} =>
              kind \in Writable /\ "Submit" \notin Ops(kind)
         /\ {"Update", "UpdateStatus", "Create", "Delete", "Submit"} \cap Ops(kind)
              \subseteq Writes(kind)
         /\ {"Get", "List", "Watch", "GetRun", "Health"} \cap Writes(kind) = {}
<1>1. CASE kind \in Writable
  BY <1>1 DEF Ops, Reads, Writes, AllOps, Writable
<1>2. CASE kind = "AgentWorkflow"
  BY <1>2 DEF Ops, Reads, Writes, AllOps, Writable
<1>3. CASE kind = "Agent"
  BY <1>3 DEF Ops, Reads, Writes, AllOps, Writable
<1> QED BY <1>1, <1>2, <1>3 DEF ResourceKinds

SameSession == UNCHANGED <<kind, field, auth>>

\* c's RPC ends with no effect: a write is not answered OK.
Ended(c) ==
  \E code \in Codes :
    /\ rpc[c].pc \in {"auth", "handle", "write"}
    /\ rpc[c].op \in Writes(kind) => code # "OK"
    /\ Answer(c, code)
    /\ SameSession /\ UNCHANGED <<obj, runs>>
    /\ \/ UNCHANGED copy
       \/ /\ rpc[c].op = "Get"
          /\ copy' = [copy EXCEPT ![c] = [msg |-> ToProto(field, obj.value), value |-> obj.value]]

\* c's RPC goes on to the handler, or from its read to its write.
Advanced(c) ==
  /\ \/ /\ rpc[c].pc = "auth" /\ Authenticated(c)
        /\ rpc' = [rpc EXCEPT ![c].pc = "handle"]
     \/ /\ rpc[c].pc = "handle" /\ rpc[c].op \in {"Update", "UpdateStatus", "Submit"}
        /\ rpc' = [rpc EXCEPT ![c].pc = "write", ![c].rv = obj.rv]
  /\ SameSession /\ UNCHANGED <<obj, runs, copy>>

\* c's RPC ends with its one effect.
Committed(c) ==
  \E code \in {"OK", "Internal"} :
    /\ rpc[c].pc \in {"handle", "write"} /\ rpc[c].op \in Writes(kind)
    /\ rpc[c].op \in {"Update", "UpdateStatus"} => rpc[c].pc = "write" /\ Fresh(c)
    /\ Commit(c, code)
    /\ SameSession /\ UNCHANGED copy
    /\ runs' \in Nat /\ obj' \in Stores /\ obj'.value \in StoredValues(field)
    /\ obj'.rv = obj.rv + 1 \/ (rpc[c].op = "Submit" /\ obj' = obj)
    /\ rpc[c].op = "Update" => rpc[c].body # "none" /\ obj'.value = FromProto(field, rpc[c].body)

\* Every code an error maps to is a code, and none is OK.
LEMMA MapFacts == \A e : mapKubernetesError(e) \in Codes \ {"OK"}
BY DEF mapKubernetesError, Codes

\* Every handler step ends, advances or commits its RPC.
LEMMA HandleSteps ==
  ASSUME ApiIndInv, NEW c \in Clients, Handle(c)
  PROVE  Ended(c) \/ Advanced(c) \/ Committed(c)
<1>t. /\ kind \in ResourceKinds /\ field \in Fields(kind) /\ obj \in Stores
      /\ rpc[c].op \in Ops(kind) /\ obj.value \in StoredValues(field) /\ runs \in Nat
      /\ rpc[c] \in Rpcs
  BY DEF ApiIndInv, ApiShape
<1>r. obj.rv \in Nat /\ obj.rv + 1 \in Nat
  BY <1>t DEF Stores
<1>v. \A f : StoredValues(f) \subseteq {"nil", "zero", "a", "b"}
  BY DEF StoredValues
<1>b. rpc[c].op = "Update" /\ rpc[c].body # "none" =>
        FromProto(field, rpc[c].body) \in StoredValues(field)
  BY <1>t, OpFacts, FromProtoStored DEF Rpcs
<1>a. ASSUME NEW code \in Codes, Answer(c, code), rpc[c].op \in Writes(kind) => code # "OK",
             rpc[c].pc \in {"auth", "handle", "write"},
             UNCHANGED <<kind, field, auth, obj, runs, copy>>
      PROVE  Ended(c)
  BY <1>a DEF Ended, SameSession
<1>1. CASE Intercept(c)
  BY <1>1, <1>a DEF Intercept, Advanced, Codes, SameSession
<1>2. CASE Panic(c)
  BY <1>2, <1>a DEF Panic, Codes
<1>3. CASE Reject(c)
  BY <1>3, <1>a DEF Reject, Codes
<1>4. CASE Refused(c)
  BY <1>4, <1>a, MapFacts DEF Refused
<1>5. CASE Get(c)
  <2>1. rpc[c].op \notin Writes(kind)
    BY <1>5, <1>t, OpFacts DEF Get
  <2>2. CASE obj.exists
    BY <1>5, <2>1, <2>2 DEF Get, Ended, SameSession, Codes
  <2>3. CASE ~obj.exists
    BY <1>5, <2>3, <1>a, MapFacts DEF Get
  <2> QED BY <2>2, <2>3
<1>6. CASE List(c)
  <2>1. rpc[c].op \notin Writes(kind)
    BY <1>6, <1>t, OpFacts DEF List
  <2> QED BY <1>6, <2>1, <1>a DEF List, Codes
<1>7. CASE GetRun(c)
  <2>1. rpc[c].op \notin Writes(kind)
    BY <1>7, <1>t, OpFacts DEF GetRun
  <2> QED BY <1>7, <2>1, <1>a, MapFacts DEF GetRun, Codes
<1>8. CASE Create(c)
  <2>1. CASE obj.exists
    BY <1>8, <2>1, <1>a, MapFacts DEF Create
  <2>2. CASE ~obj.exists
    <3>1. kind \in Writable /\ rpc[c].op \in Writes(kind)
      BY <1>8, <1>t, OpFacts DEF Create
    <3>2. FromProto(field, "a") \in StoredValues(field)
      BY <1>t, <3>1, FromProtoStored DEF Messages
    <3>3. obj' \in Stores /\ obj'.rv = obj.rv + 1 /\ obj'.value \in StoredValues(field)
      BY <1>8, <2>2, <1>t, <1>v, <3>2, <1>r DEF Create, Stores
    <3> QED BY <1>8, <2>2, <1>t, <3>1, <3>3 DEF Create, Committed, SameSession
  <2> QED BY <2>1, <2>2
<1>9. CASE ReadFirst(c)
  BY <1>9, <1>a, MapFacts DEF ReadFirst, Advanced, Codes, SameSession
<1>10. CASE UpdateWrite(c)
  <2>1. CASE Fresh(c) /\ rpc[c].body # "none"
    <3>1. obj' \in Stores /\ obj'.rv = obj.rv + 1 /\ obj'.value = FromProto(field, rpc[c].body)
      BY <1>10, <2>1, <1>t, <1>v, <1>b, <1>r DEF UpdateWrite, Stores
    <3>2. rpc[c].op \in Writes(kind)
      BY <1>10, <1>t, OpFacts DEF UpdateWrite
    <3> QED BY <1>10, <2>1, <1>t, <1>b, <3>1, <3>2 DEF UpdateWrite, Committed, SameSession
  <2>2. CASE ~(Fresh(c) /\ rpc[c].body # "none")
    BY <1>10, <2>2, <1>a, MapFacts DEF UpdateWrite
  <2> QED BY <2>1, <2>2
<1>11. CASE UpdateStatusWrite(c)
  <2>1. CASE Fresh(c)
    <3>1. obj' \in Stores /\ obj'.rv = obj.rv + 1 /\ obj'.value = obj.value
      BY <1>11, <2>1, <1>t, <1>r DEF UpdateStatusWrite, Stores
    <3>2. rpc[c].op \in Writes(kind)
      BY <1>11, <1>t, OpFacts DEF UpdateStatusWrite
    <3> QED BY <1>11, <2>1, <1>t, <3>1, <3>2 DEF UpdateStatusWrite, Committed, SameSession
  <2>2. CASE ~Fresh(c)
    BY <1>11, <2>2, <1>a, MapFacts DEF UpdateStatusWrite
  <2> QED BY <2>1, <2>2
<1>12. CASE SubmitWrite(c)
  <2>1. rpc[c].op \in Writes(kind)
    BY <1>12, <1>t, OpFacts DEF SubmitWrite
  <2> QED BY <1>12, <1>t, <2>1 DEF SubmitWrite, Committed, SameSession
<1>13. CASE Delete(c)
  <2>1. CASE obj.exists
    <3>1. obj' \in Stores /\ obj'.rv = obj.rv + 1 /\ obj'.value = obj.value
      BY <1>13, <2>1, <1>t, <1>r DEF Delete, Stores
    <3>2. rpc[c].op \in Writes(kind)
      BY <1>13, <1>t, OpFacts DEF Delete
    <3> QED BY <1>13, <2>1, <1>t, <3>1, <3>2 DEF Delete, Committed, SameSession
  <2>2. CASE ~obj.exists
    BY <1>13, <2>2, <1>a, MapFacts DEF Delete
  <2> QED BY <2>1, <2>2
<1>14. CASE AnswerLost(c)
  <2>1. /\ rpc[c].op \in {"Create", "UpdateStatus", "Delete", "Submit", "Update"}
        /\ rpc[c].op \in Writes(kind) /\ rpc[c].pc \in {"handle", "write"}
        /\ rpc[c].op \in {"Update", "UpdateStatus"} => rpc[c].pc = "write" /\ Fresh(c)
        /\ rpc[c].op = "Update" => rpc[c].body # "none"
    BY <1>14, <1>t, OpFacts DEF AnswerLost
  <2>2. Commit(c, "Internal") /\ SameSession /\ UNCHANGED copy
    BY <1>14 DEF AnswerLost, mapKubernetesError, SameSession
  <2>3. CASE rpc[c].op = "Delete"
    <3>1. obj' = [obj EXCEPT !.exists = FALSE, !.rv = @ + 1] /\ runs' = runs
      BY <1>14, <2>3 DEF AnswerLost
    <3>2. obj' \in Stores /\ obj'.rv = obj.rv + 1 /\ obj'.value = obj.value
      BY <1>t, <3>1, <1>r DEF Stores
    <3> QED BY <1>t, <2>1, <2>2, <2>3, <3>1, <3>2 DEF Committed
  <2>4. CASE rpc[c].op = "Submit"
    <3>1. obj' = obj /\ runs' = runs + 1
      BY <1>14, <2>4 DEF AnswerLost
    <3> QED BY <1>t, <2>1, <2>2, <2>4, <3>1 DEF Committed
  <2>5. CASE rpc[c].op = "Update"
    <3>1. /\ obj' = [obj EXCEPT !.rv = @ + 1, !.value = FromProto(field, rpc[c].body)]
          /\ runs' = runs
      BY <1>14, <2>5 DEF AnswerLost
    <3>2. obj' \in Stores /\ obj'.rv = obj.rv + 1 /\ obj'.value = FromProto(field, rpc[c].body)
      BY <1>t, <1>v, <1>b, <2>1, <2>5, <3>1, <1>r DEF Stores
    <3> QED BY <1>t, <1>b, <2>1, <2>2, <2>5, <3>1, <3>2 DEF Committed
  <2>6. CASE rpc[c].op = "Create"
    <3>1. /\ obj' = [obj EXCEPT !.exists = TRUE, !.rv = @ + 1, !.ready = FALSE,
                                !.value = FromProto(field, "a")]
          /\ runs' = runs
      BY <1>14, <2>6 DEF AnswerLost
    <3>2. FromProto(field, "a") \in StoredValues(field)
      BY <1>t, <2>1, <2>6, OpFacts, FromProtoStored DEF Messages
    <3>3. obj' \in Stores /\ obj'.rv = obj.rv + 1 /\ obj'.value \in StoredValues(field)
      BY <1>t, <1>v, <3>1, <3>2, <1>r DEF Stores
    <3> QED BY <1>t, <2>1, <2>2, <2>6, <3>1, <3>3 DEF Committed
  <2>7. CASE rpc[c].op = "UpdateStatus"
    <3>1. PICK r \in BOOLEAN : obj' = [obj EXCEPT !.rv = @ + 1, !.ready = r] /\ runs' = runs
      BY <1>14, <2>7 DEF AnswerLost
    <3>2. obj' \in Stores /\ obj'.rv = obj.rv + 1 /\ obj'.value = obj.value
      BY <1>t, <3>1, <1>r DEF Stores
    <3> QED BY <1>t, <2>1, <2>2, <2>7, <3>1, <3>2 DEF Committed
  <2> QED BY <2>1, <2>3, <2>4, <2>5, <2>6, <2>7
<1> QED
  BY <1>1, <1>2, <1>3, <1>4, <1>5, <1>6, <1>7, <1>8, <1>9, <1>10, <1>11, <1>12, <1>13, <1>14
     DEF Handle

-----------------------------------------------------------------------------
(* The invariant is inductive. *)

\* The shapes of one client's RPC and copy.
LEMMA ClientTypes ==
  ASSUME ApiIndInv, NEW c \in Clients
  PROVE  /\ rpc[c] \in Rpcs /\ rpc[c].op \in Ops(kind) /\ RpcInOrder(rpc[c]) /\ BodyIsOwn(c)
         /\ rpc[c].rv \in Nat /\ obj.rv \in Nat /\ rpc[c].effects \in {0, 1}
BY DEF ApiIndInv, ApiShape, Rpcs, Stores

\* What an RPC that ends without effect looks like afterwards.
LEMMA DoneFacts ==
  ASSUME ApiIndInv, NEW c \in Clients, NEW code \in Codes, rpc[c].pc # "done"
  PROVE  /\ Done(c, code) \in Rpcs
         /\ Done(c, code).pc = "done" /\ Done(c, code).code = code
         /\ Done(c, code).op = rpc[c].op /\ Done(c, code).token = rpc[c].token
         /\ Done(c, code).raced = rpc[c].raced /\ Done(c, code).effects = 0
<1>1. rpc[c] \in Rpcs /\ rpc[c].effects = 0
  BY ClientTypes DEF RpcInOrder
<1> QED BY <1>1 DEF Done, Rpcs, RpcSteps

\* An RPC that ends without effect keeps the invariant.
LEMMA EndedInv ==
  ASSUME ApiIndInv, NEW c \in Clients, Ended(c)
  PROVE  ApiIndInv'
<1>1. PICK code \in Codes :
        /\ rpc[c].pc \in {"auth", "handle", "write"}
        /\ rpc[c].op \in Writes(kind) => code # "OK"
        /\ rpc' = [rpc EXCEPT ![c] = Done(c, code)]
        /\ SameSession /\ UNCHANGED <<obj, runs>>
        /\ \/ UNCHANGED copy
           \/ copy' = [copy EXCEPT ![c] = [msg |-> ToProto(field, obj.value), value |-> obj.value]]
  BY DEF Ended, Answer
<1>t. /\ rpc \in [Clients -> Rpcs] /\ kind \in ResourceKinds /\ field \in Fields(kind)
      /\ obj.value \in StoredValues(field)
      /\ copy \in [Clients -> [msg : Messages \cup {"none"},
                               value : {"none", "nil", "zero", "a", "b"}]]
  BY DEF ApiIndInv, ApiShape
<1>2. /\ Done(c, code) \in Rpcs
      /\ Done(c, code).pc = "done" /\ Done(c, code).code = code
      /\ Done(c, code).op = rpc[c].op /\ Done(c, code).token = rpc[c].token
      /\ Done(c, code).raced = rpc[c].raced /\ Done(c, code).effects = 0
  BY <1>1, DoneFacts
<1>3. rpc' \in [Clients -> Rpcs] /\ rpc'[c] = Done(c, code)
      /\ \A d \in Clients \ {c} : rpc'[d] = rpc[d]
  BY <1>1, <1>2, <1>t
<1>4. ToProto(field, obj.value) \in Messages /\ obj.value \in {"nil", "zero", "a", "b"}
  BY <1>t, ToProtoMessage DEF StoredValues
<1>5. ApiShape'
  <2>1. copy' \in [Clients -> [msg : Messages \cup {"none"},
                               value : {"none", "nil", "zero", "a", "b"}]]
    BY <1>1, <1>t, <1>4
  <2>2. \A d \in Clients : rpc'[d].op = rpc[d].op
    BY <1>2, <1>3
  <2> QED BY <1>1, <1>3, <2>1, <2>2 DEF ApiIndInv, ApiShape, SameSession
<1>6. ASSUME NEW d \in Clients PROVE RpcInOrder(rpc[d])'
  <2>1. UNCHANGED <<kind, auth, obj>> /\ RpcInOrder(rpc[d])
    BY <1>1 DEF ApiIndInv, SameSession
  <2>2. CASE d # c
    BY <1>3, <2>1, <2>2 DEF RpcInOrder
  <2>3. CASE d = c
    BY <1>1, <1>2, <1>3, <2>1, <2>3 DEF RpcInOrder
  <2> QED BY <2>2, <2>3
<1>7. ASSUME NEW d \in Clients PROVE BodyIsOwn(d)'
  <2>1. UNCHANGED <<kind, field>> /\ BodyIsOwn(d)
    BY <1>1 DEF ApiIndInv, SameSession
  <2>2. CASE copy'[d] = copy[d]
    BY <1>2, <1>3, <2>1, <2>2 DEF BodyIsOwn, ToProto
  <2>3. CASE d = c /\ copy'[c] = [msg |-> ToProto(field, obj.value), value |-> obj.value]
    <3>1. copy'[c].msg = ToProto(field, obj.value) /\ copy'[c].value = obj.value
      BY <2>3
    <3>2. ToProto(field, copy[c].value)' = ToProto(field, obj.value)
      BY <2>1, <3>1 DEF ToProto
    <3>3. rpc'[c].pc = "done"
      BY <1>2, <1>3
    <3> QED BY <1>t, <2>1, <2>3, <3>1, <3>2, <3>3 DEF BodyIsOwn
  <2> QED BY <1>1, <1>t, <2>2, <2>3
<1> QED BY <1>5, <1>6, <1>7 DEF ApiIndInv

\* An RPC that advances keeps the invariant.
LEMMA AdvancedInv ==
  ASSUME ApiIndInv, NEW c \in Clients, Advanced(c)
  PROVE  ApiIndInv'
<1>t. /\ rpc \in [Clients -> Rpcs] /\ rpc[c] \in Rpcs /\ obj.rv \in Nat
      /\ RpcInOrder(rpc[c])
  BY ClientTypes DEF ApiIndInv, ApiShape
<1>0. UNCHANGED <<kind, field, auth, obj, runs, copy>>
  BY DEF Advanced, SameSession
<1>1. /\ rpc' \in [Clients -> Rpcs]
      /\ \A d \in Clients \ {c} : rpc'[d] = rpc[d]
      /\ rpc'[c].op = rpc[c].op /\ rpc'[c].token = rpc[c].token /\ rpc'[c].body = rpc[c].body
      /\ rpc'[c].changes = rpc[c].changes /\ rpc'[c].raced = rpc[c].raced
      /\ rpc'[c].effects = rpc[c].effects
  BY <1>t DEF Advanced, Rpcs, RpcSteps
<1>2. \/ rpc[c].pc = "auth" /\ rpc'[c].pc = "handle" /\ Authenticated(c)
      \/ /\ rpc[c].pc = "handle" /\ rpc'[c].pc = "write" /\ rpc'[c].rv = obj.rv
         /\ rpc[c].op \in {"Update", "UpdateStatus", "Submit"}
  BY <1>t DEF Advanced, Rpcs
<1>3. ApiShape'
  <2>1. \A d \in Clients : rpc'[d].op = rpc[d].op
    BY <1>1
  <2> QED BY <1>0, <1>1, <2>1 DEF ApiIndInv, ApiShape
<1>4. ASSUME NEW d \in Clients PROVE RpcInOrder(rpc[d])'
  <2>1. RpcInOrder(rpc[d])
    BY DEF ApiIndInv
  <2>2. CASE d # c
    BY <1>0, <1>1, <2>1, <2>2 DEF RpcInOrder
  <2>3. CASE d = c
    BY <1>0, <1>1, <1>2, <1>t, <2>3 DEF RpcInOrder, Authenticated
  <2> QED BY <2>2, <2>3
<1>5. ASSUME NEW d \in Clients PROVE BodyIsOwn(d)'
  <2>1. BodyIsOwn(d)
    BY DEF ApiIndInv
  <2> QED BY <1>0, <1>1, <1>2, <2>1 DEF BodyIsOwn, ToProto
<1> QED BY <1>3, <1>4, <1>5 DEF ApiIndInv

\* A write of somebody else leaves an RPC as it was, or overtaken.
Overtaken(r) == [r EXCEPT !.raced = @ \/ r.pc = "write"]

\* An RPC that is overtaken by a write that moves the version, or by a submitted
\* run, stays in order.
LEMMA OvertakenInv ==
  ASSUME ApiIndInv, SameSession, NEW d \in Clients, rpc'[d] = Overtaken(rpc[d]),
         copy'[d] = copy[d], obj'.rv \in Nat,
         obj'.rv = obj.rv + 1 \/ ("Submit" \in Ops(kind) /\ obj'.rv = obj.rv)
  PROVE  /\ rpc'[d] \in Rpcs /\ rpc'[d].op = rpc[d].op
         /\ RpcInOrder(rpc[d])' /\ BodyIsOwn(d)'
<1>t. /\ rpc[d] \in Rpcs /\ rpc[d].op \in Ops(kind) /\ RpcInOrder(rpc[d]) /\ BodyIsOwn(d)
      /\ rpc[d].rv \in Nat /\ obj.rv \in Nat /\ kind \in ResourceKinds
  BY ClientTypes DEF ApiIndInv, ApiShape
<1>1. /\ rpc'[d] \in Rpcs
      /\ rpc'[d].pc = rpc[d].pc /\ rpc'[d].op = rpc[d].op /\ rpc'[d].token = rpc[d].token
      /\ rpc'[d].body = rpc[d].body /\ rpc'[d].changes = rpc[d].changes
      /\ rpc'[d].rv = rpc[d].rv /\ rpc'[d].code = rpc[d].code
      /\ rpc'[d].effects = rpc[d].effects
      /\ rpc'[d].raced = (rpc[d].raced \/ rpc[d].pc = "write")
  BY <1>t DEF Overtaken, Rpcs
<1>2. UNCHANGED <<kind, field, auth>>
  BY DEF SameSession
<1>3. rpc[d].pc = "write" /\ rpc[d].op # "Submit" => rpc[d].rv < obj'.rv
  <2> SUFFICES ASSUME rpc[d].pc = "write", rpc[d].op # "Submit" PROVE rpc[d].rv < obj'.rv
    OBVIOUS
  <2>1. rpc[d].op \in {"Update", "UpdateStatus"} /\ rpc[d].rv <= obj.rv
    BY <1>t DEF RpcInOrder
  <2>2. "Submit" \notin Ops(kind)
    BY <1>t, <2>1, OpFacts
  <2> QED BY <1>t, <2>1, <2>2
<1>4. rpc[d].pc = "write" => rpc[d].rv <= obj'.rv
  BY <1>t DEF RpcInOrder
<1>b. rpc[d].raced \in BOOLEAN /\ rpc[d].effects \in {0, 1} /\ rpc[d].effects \in Int
  BY <1>t DEF Rpcs
<1>5. RpcInOrder(rpc[d])'
  <2>1. CASE rpc[d].pc = "write"
    <3>1. rpc[d].effects = 0 /\ rpc[d].op \in {"Update", "UpdateStatus", "Submit"}
      BY <1>t, <2>1 DEF RpcInOrder
    <3> QED BY <1>t, <1>1, <1>2, <1>3, <1>4, <2>1, <3>1 DEF RpcInOrder
  <2>2. CASE rpc[d].pc # "write"
    <3>1. rpc'[d].raced = rpc[d].raced
      BY <1>1, <1>b, <2>2
    <3> QED BY <1>t, <1>1, <1>2, <2>2, <3>1 DEF RpcInOrder
  <2> QED BY <2>1, <2>2
<1>6. BodyIsOwn(d)'
  BY <1>t, <1>1, <1>2 DEF BodyIsOwn, ToProto
<1> QED BY <1>1, <1>5, <1>6

\* An RPC that commits its write keeps the invariant.
LEMMA CommittedInv ==
  ASSUME ApiIndInv, NEW c \in Clients, Committed(c)
  PROVE  ApiIndInv'
<1>1. PICK code \in {"OK", "Internal"} :
        /\ rpc[c].pc \in {"handle", "write"} /\ rpc[c].op \in Writes(kind)
        /\ rpc[c].op \in {"Update", "UpdateStatus"} => rpc[c].pc = "write" /\ Fresh(c)
        /\ Commit(c, code)
        /\ SameSession /\ UNCHANGED copy
        /\ runs' \in Nat /\ obj' \in Stores /\ obj'.value \in StoredValues(field)
        /\ obj'.rv = obj.rv + 1 \/ (rpc[c].op = "Submit" /\ obj' = obj)
  BY DEF Committed
<1>t. /\ rpc[c] \in Rpcs /\ rpc[c].op \in Ops(kind) /\ RpcInOrder(rpc[c]) /\ BodyIsOwn(c)
      /\ obj'.rv \in Nat /\ rpc[c].rv \in Nat /\ obj.rv \in Nat /\ kind \in ResourceKinds
  BY <1>1, ClientTypes DEF ApiIndInv, ApiShape, Stores
<1>d. /\ Done(c, code) \in Rpcs
      /\ Done(c, code).pc = "done" /\ Done(c, code).code = code
      /\ Done(c, code).op = rpc[c].op /\ Done(c, code).token = rpc[c].token
      /\ Done(c, code).raced = rpc[c].raced /\ Done(c, code).effects = 0
  BY <1>1, DoneFacts DEF Codes
<1>2. /\ rpc'[c] = [Done(c, code) EXCEPT !.effects = @ + 1]
      /\ \A d \in Clients \ {c} : rpc'[d] = Overtaken(rpc[d])
      /\ DOMAIN rpc' = Clients /\ rpc' = [d \in Clients |-> rpc'[d]]
  BY <1>1 DEF Commit, Overtaken
<1>3. /\ rpc'[c] \in Rpcs
      /\ rpc'[c].pc = "done" /\ rpc'[c].code = code /\ rpc'[c].op = rpc[c].op
      /\ rpc'[c].token = rpc[c].token /\ rpc'[c].raced = rpc[c].raced /\ rpc'[c].effects = 1
  BY <1>d, <1>2 DEF Rpcs
<1>4. ASSUME NEW d \in Clients \ {c}
      PROVE  /\ rpc'[d] \in Rpcs /\ rpc'[d].op = rpc[d].op
             /\ RpcInOrder(rpc[d])' /\ BodyIsOwn(d)'
  <2>1. obj'.rv = obj.rv + 1 \/ ("Submit" \in Ops(kind) /\ obj'.rv = obj.rv)
    BY <1>1, <1>t
  <2> QED BY <1>1, <1>2, <1>t, <2>1, OvertakenInv
<1>5. RpcInOrder(rpc[c])'
  <2>1. rpc[c].op \in {"Update", "UpdateStatus"} => ~rpc[c].raced
    BY <1>1, <1>t DEF Fresh, RpcInOrder
  <2>2. rpc[c].op \notin PublicMethods
    BY <1>1, <1>t, OpFacts DEF PublicMethods
  <2>3. auth => rpc[c].token = "valid"
    BY <1>1, <1>t, <2>2 DEF RpcInOrder
  <2>4. UNCHANGED <<kind, auth>>
    BY <1>1 DEF SameSession
  <2> QED BY <1>1, <1>3, <2>1, <2>2, <2>3, <2>4 DEF RpcInOrder
<1>6. BodyIsOwn(c)'
  BY <1>1, <1>3, <1>t DEF BodyIsOwn, SameSession, ToProto
<1>7. ApiShape'
  <2>1. \A d \in Clients : rpc'[d] \in Rpcs /\ rpc'[d].op = rpc[d].op
    BY <1>3, <1>4
  <2>2. rpc' \in [Clients -> Rpcs]
    BY <1>2, <2>1
  <2> QED BY <1>1, <2>1, <2>2 DEF ApiIndInv, ApiShape, SameSession
<1> QED BY <1>4, <1>5, <1>6, <1>7 DEF ApiIndInv

\* A write of kubectl or a controller keeps the invariant.
LEMMA OtherWriteInv ==
  ASSUME ApiIndInv, OtherWrite
  PROVE  ApiIndInv'
<1>t. obj \in Stores /\ obj.rv \in Nat /\ obj.rv + 1 \in Nat /\ obj.value \in StoredValues(field)
  BY DEF ApiIndInv, ApiShape, Stores
<1>1. obj' \in Stores /\ obj'.rv = obj.rv + 1 /\ obj'.value \in {obj.value, "b"}
  BY <1>t DEF OtherWrite, Stores
<1>2. SameSession /\ UNCHANGED <<runs, copy>>
  BY DEF OtherWrite, SameSession
<1>3. \A d \in Clients : rpc'[d] = Overtaken(rpc[d])
  BY DEF OtherWrite, Overtaken
<1>4. ASSUME NEW d \in Clients
      PROVE  /\ rpc'[d] \in Rpcs /\ rpc'[d].op = rpc[d].op
             /\ RpcInOrder(rpc[d])' /\ BodyIsOwn(d)'
  BY <1>t, <1>1, <1>2, <1>3, OvertakenInv
<1>5. rpc' \in [Clients -> Rpcs]
  BY <1>4 DEF OtherWrite
<1>6. obj'.value \in StoredValues(field)
  BY <1>t, <1>1 DEF StoredValues
<1>7. ApiShape'
  BY <1>1, <1>2, <1>4, <1>5, <1>6 DEF ApiIndInv, ApiShape, SameSession
<1> QED BY <1>4, <1>7 DEF ApiIndInv

\* A new RPC keeps the invariant.
LEMMA ReceiveInv ==
  ASSUME ApiIndInv, NEW c \in Clients, Receive(c)
  PROVE  ApiIndInv'
<1>1. PICK op \in Ops(kind), token \in {"valid", "bad", "none"}, changes \in BOOLEAN :
        /\ changes => op = "Update" /\ copy[c] # NoCopy
        /\ rpc' = [rpc EXCEPT ![c] =
                     [NoRpc EXCEPT !.pc = "auth", !.op = op, !.token = token, !.changes = changes,
                                   !.body = IF op # "Update" \/ copy[c] = NoCopy THEN "none"
                                            ELSE IF changes THEN "b" ELSE copy[c].msg]]
  BY DEF Receive
<1>2. UNCHANGED <<kind, field, auth, obj, runs, copy>>
  BY DEF Receive
<1>t. /\ rpc \in [Clients -> Rpcs] /\ op \in AllOps /\ copy[c].msg \in Messages \cup {"none"}
  BY OpFacts DEF ApiIndInv, ApiShape
<1> DEFINE body == IF op # "Update" \/ copy[c] = NoCopy THEN "none"
                   ELSE IF changes THEN "b" ELSE copy[c].msg
<1>b. body \in Messages \cup {"none"}
  BY <1>t DEF Messages
<1>3. /\ \A d \in Clients \ {c} : rpc'[d] = rpc[d]
      /\ rpc'[c] = [NoRpc EXCEPT !.pc = "auth", !.op = op, !.token = token, !.changes = changes,
                                 !.body = body]
      /\ DOMAIN rpc' = Clients /\ rpc' = [d \in Clients |-> rpc'[d]]
  BY <1>1, <1>t
<1>4. body # "none" => /\ op = "Update" /\ copy[c] # NoCopy
                       /\ body = IF changes THEN "b" ELSE copy[c].msg
  OBVIOUS
<1> HIDE DEF body
<1>5. /\ rpc'[c] \in Rpcs
      /\ rpc'[c].pc = "auth" /\ rpc'[c].op = op /\ rpc'[c].changes = changes
      /\ rpc'[c].body = body /\ rpc'[c].effects = 0 /\ ~rpc'[c].raced
  <2>1. rpc'[c] = [pc |-> "auth", op |-> op, token |-> token, body |-> body, changes |-> changes,
                   rv |-> 0, code |-> "OK", raced |-> FALSE, effects |-> 0]
    BY <1>3 DEF NoRpc
  <2>2. "auth" \in RpcSteps /\ "OK" \in Codes
    BY DEF RpcSteps, Codes
  <2>3. rpc'[c] \in Rpcs
    BY <1>b, <1>t, <2>1, <2>2 DEF Rpcs
  <2> QED BY <2>1, <2>3
<1>6. ApiShape'
  <2>1. rpc' \in [Clients -> Rpcs]
    BY <1>3, <1>5, <1>t
  <2>2. \A d \in Clients : rpc'[d].op \in Ops(kind)
    BY <1>3, <1>5 DEF ApiIndInv, ApiShape
  <2>3. Ops(kind)' = Ops(kind)
    BY <1>2 DEF Ops, Reads, Writes
  <2> QED BY <1>2, <2>1, <2>2, <2>3 DEF ApiIndInv, ApiShape
<1>7. ASSUME NEW d \in Clients PROVE RpcInOrder(rpc[d])' /\ BodyIsOwn(d)'
  <2>1. RpcInOrder(rpc[d]) /\ BodyIsOwn(d)
    BY DEF ApiIndInv
  <2>2. CASE d # c
    BY <1>2, <1>3, <2>1, <2>2 DEF RpcInOrder, BodyIsOwn, ToProto
  <2>3. CASE d = c
    <3>1. RpcInOrder(rpc[c])'
      BY <1>5 DEF RpcInOrder
    <3>2. BodyIsOwn(c)'
      BY <1>2, <1>4, <1>5, <2>1, <2>3 DEF BodyIsOwn, ToProto
    <3> QED BY <2>3, <3>1, <3>2
  <2> QED BY <2>2, <2>3
<1> QED BY <1>6, <1>7 DEF ApiIndInv

\* Every step of the services keeps the invariant.
LEMMA ApiStep ==
  ASSUME ApiIndInv, [ApiNext]_apiVars
  PROVE  ApiIndInv'
<1>1. CASE UNCHANGED apiVars
  BY <1>1 DEF apiVars, ApiIndInv, ApiShape, RpcInOrder, BodyIsOwn, ToProto
<1>2. CASE OtherWrite
  BY <1>2, OtherWriteInv
<1>3. ASSUME NEW c \in Clients, Receive(c) \/ Handle(c) PROVE ApiIndInv'
  BY <1>3, ReceiveInv, HandleSteps, EndedInv, AdvancedInv, CommittedInv
<1> QED BY <1>1, <1>2, <1>3 DEF ApiNext

\* The clients start with nothing called.
LEMMA ApiStartInv == ApiInit => ApiIndInv
<1> SUFFICES ASSUME ApiInit PROVE ApiIndInv
  OBVIOUS
<1>1. PICK s \in Sessions : ApiStart(s)
  BY DEF ApiInit
<1>2. PICK v \in Initially(field) :
        obj = [exists |-> TRUE, rv |-> 1, ready |-> FALSE, value |-> v]
  BY <1>1 DEF ApiStart
<1>3. kind \in ResourceKinds /\ field \in Fields(kind) /\ auth \in BOOLEAN /\ runs = 0
  BY <1>1, SessionsAssumption DEF ApiStart
<1>4. v \in StoredValues(field) /\ v \in {"nil", "zero", "a", "b"}
  BY <1>2 DEF Initially, StoredValues
<1>5. NoRpc \in Rpcs /\ NoRpc.op \in Ops(kind)
  BY DEF NoRpc, Rpcs, RpcSteps, AllOps, Codes, Ops, Reads
<1>6. \A c \in Clients : rpc[c] = NoRpc /\ copy[c] = NoCopy
  BY <1>1 DEF ApiStart
<1>7. ApiShape
  <2>1. rpc \in [Clients -> Rpcs]
    BY <1>1, <1>5 DEF ApiStart
  <2>2. copy \in [Clients -> [msg : Messages \cup {"none"},
                             value : {"none", "nil", "zero", "a", "b"}]]
    BY <1>1 DEF ApiStart, NoCopy
  <2>3. obj \in Stores /\ obj.value \in StoredValues(field)
    BY <1>2, <1>4 DEF Stores
  <2> QED BY <1>3, <1>5, <1>6, <2>1, <2>2, <2>3 DEF ApiShape
<1>8. \A c \in Clients : RpcInOrder(rpc[c])
  <2> SUFFICES ASSUME NEW c \in Clients PROVE RpcInOrder(rpc[c])
    OBVIOUS
  <2>1. rpc[c].pc = "idle" /\ rpc[c].effects = 0
    BY <1>6 DEF NoRpc
  <2>2. ~(rpc[c].effects > 0)
    BY <2>1
  <2> QED BY <2>1, <2>2 DEF RpcInOrder
<1>9. \A c \in Clients : BodyIsOwn(c)
  <2>1. NoRpc.pc = "idle"
    BY DEF NoRpc
  <2> QED BY <1>6, <2>1 DEF BodyIsOwn
<1> QED BY <1>7, <1>8, <1>9 DEF ApiIndInv

\* The invariant holds throughout every behaviour of the services.
LEMMA ApiInvariance == ApiSpec => []ApiIndInv
BY ApiStartInv, ApiStep, PTL DEF ApiSpec

\* An RPC of flokoa-server answers what it did (OK only for a write that took effect
\* once, any error but Internal only for one that did not), an Update or UpdateStatus
\* overwrites nothing written since its own read, and with the auth interceptor
\* configured nothing is written without a token that verifies, for any number of
\* clients, calls and writers beside them.
THEOREM RpcsTellTheTruth == ApiSpec => []ApiInv
<1>1. ApiIndInv => ApiInv
  <2> SUFFICES ASSUME ApiIndInv PROVE ApiInv
    OBVIOUS
  <2>1. ASSUME NEW c \in Clients
        PROVE  /\ rpc[c] \in Rpcs /\ RpcInOrder(rpc[c]) /\ BodyIsOwn(c) /\ rpc[c].op \in Ops(kind)
               /\ copy[c].msg \in Messages \cup {"none"} /\ rpc[c].effects \in {0, 1}
    BY <2>1, ClientTypes DEF ApiIndInv, ApiShape
  <2>2. ApiTypeOK
    <3>1. /\ kind \in ResourceKinds /\ auth \in BOOLEAN /\ runs \in Nat
          /\ obj.exists \in BOOLEAN /\ obj.ready \in BOOLEAN /\ obj.rv \in Nat
          /\ field \in Fields(kind)
      BY DEF ApiIndInv, ApiShape, Stores
    <3>2. obj.value \in {"zero", "a", "b"} \cup (IF field \in Pointers THEN {"nil"} ELSE {})
      BY DEF ApiIndInv, ApiShape, StoredValues
    <3>3. ASSUME NEW c \in Clients
          PROVE  /\ rpc[c].pc \in {"idle", "auth", "handle", "write", "done"}
                 /\ rpc[c].op \in Ops(kind) /\ rpc[c].code \in Codes
                 /\ rpc[c].pc = "write" => rpc[c].rv <= obj.rv
      BY <2>1 DEF Rpcs, RpcSteps, RpcInOrder
    <3>4. ASSUME NEW c \in Clients, copy[c] # NoCopy PROVE copy[c].msg \in {"zero", "a", "b"}
      BY <2>1, <3>1, <3>4, ToProtoMessage DEF BodyIsOwn, Messages
    <3> QED BY <3>1, <3>2, <3>3, <3>4 DEF ApiTypeOK
  <2>3. AnswerMatchesEffect
    <3> SUFFICES ASSUME NEW c \in Clients
                 PROVE  /\ rpc[c].effects <= 1
                        /\ rpc[c].pc = "done" /\ rpc[c].op \in Writes(kind) =>
                             /\ rpc[c].code = "OK" => rpc[c].effects = 1
                             /\ rpc[c].code \notin {"OK", "Internal"} => rpc[c].effects = 0
      BY DEF AnswerMatchesEffect
    <3>1. rpc[c].effects <= 1
      BY <2>1
    <3> QED BY <2>1, <3>1 DEF RpcInOrder
  <2>4. NothingOverwrittenUnseen
    BY <2>1 DEF NothingOverwrittenUnseen, RpcInOrder
  <2>5. OnlyAuthenticatedWrites
    BY <2>1 DEF OnlyAuthenticatedWrites, RpcInOrder
  <2> QED BY <2>2, <2>3, <2>4, <2>5 DEF ApiInv
<1> QED BY ApiInvariance, <1>1, PTL

\* A client that reads a resource, changes one field and updates it changes that
\* field and leaves every other field of the spec, and the labels, annotations and
\* finalizers, as it read them.  The exceptions are the known losses of the
\* converters (owner references, a ModelProvider's secrets and TLS settings, an
\* explicit false or 0 of a Model's settings or a trigger's budget per event),
\* which are cleared.
THEOREM UpdatesKeepTheRest == ApiSpec => RoundTripKeeps
<1> DEFINE Kept == \A c \in Clients :
             rpc[c].pc = "write" /\ rpc[c].op = "Update" /\ rpc'[c].effects = 1 =>
               LET meant == IF rpc[c].changes THEN "b" ELSE copy[c].value IN
               \/ SameMeaning(field, obj'.value, meant)
               \/ KnownLoss(field, meant) /\ obj'.value \in {"nil", "zero"}
<1>1. ASSUME ApiIndInv, ApiNext PROVE Kept
  <2> SUFFICES ASSUME NEW c \in Clients, rpc[c].pc = "write", rpc[c].op = "Update",
                      rpc'[c].effects = 1
               PROVE  Arrives(field, obj'.value, IF rpc[c].changes THEN "b" ELSE copy[c].value)
    BY DEF Arrives
  <2>t. /\ rpc \in [Clients -> Rpcs] /\ rpc[c] \in Rpcs /\ rpc[c].op \in Ops(kind)
        /\ RpcInOrder(rpc[c]) /\ BodyIsOwn(c) /\ kind \in ResourceKinds
        /\ field \in Fields(kind) /\ rpc[c].effects = 0
    BY <1>1, ClientTypes DEF ApiIndInv, ApiShape, RpcInOrder
  <2>w. kind \in Writable
    BY <2>t, OpFacts
  <2>1. CASE Committed(c)
    <3>1. rpc[c].body # "none" /\ obj'.value = FromProto(field, rpc[c].body)
      BY <2>1 DEF Committed
    <3>2. /\ copy[c] # NoCopy /\ rpc[c].body = IF rpc[c].changes THEN "b" ELSE copy[c].msg
          /\ copy[c].value \in StoredValues(field)
          /\ copy[c].msg = ToProto(field, copy[c].value)
      BY <2>t, <3>1 DEF BodyIsOwn
    <3>3. CASE rpc[c].changes
      BY <2>t, <2>w, <3>1, <3>2, <3>3, RoundTrip
    <3>4. CASE ~rpc[c].changes
      BY <2>t, <2>w, <3>1, <3>2, <3>4, RoundTrip
    <3> QED BY <3>3, <3>4
  <2>2. ASSUME NEW d \in Clients, Receive(d) \/ Ended(d) \/ Advanced(d) PROVE FALSE
    <3>1. CASE d # c
      <4>1. rpc'[c] = rpc[c]
        BY <2>t, <2>2, <3>1 DEF Receive, Ended, Answer, Advanced
      <4> QED BY <2>t, <4>1
    <3>2. CASE d = c /\ Receive(c)
      BY <3>2 DEF Receive
    <3>3. CASE d = c /\ Ended(c)
      <4>1. rpc'[c].effects = rpc[c].effects
        BY <2>t, <3>3 DEF Ended, Answer, Done, Rpcs
      <4> QED BY <2>t, <4>1
    <3>4. CASE d = c /\ Advanced(c)
      BY <3>4 DEF Advanced
    <3> QED BY <2>2, <3>1, <3>2, <3>3, <3>4
  <2>3. ASSUME NEW d \in Clients \ {c}, Committed(d) PROVE FALSE
    <3>1. rpc'[c] = [rpc[c] EXCEPT !.raced = @ \/ rpc[c].pc = "write"]
      BY <2>3 DEF Committed, Commit
    <3> QED BY <2>t, <3>1 DEF Rpcs
  <2>4. ~OtherWrite
    <3> SUFFICES ASSUME OtherWrite PROVE FALSE
      OBVIOUS
    <3>1. rpc'[c] = [rpc[c] EXCEPT !.raced = @ \/ rpc[c].pc = "write"]
      BY DEF OtherWrite
    <3> QED BY <2>t, <3>1 DEF Rpcs
  <2> QED BY <1>1, <2>1, <2>2, <2>3, <2>4, HandleSteps DEF ApiNext
<1>2. ApiIndInv /\ [ApiNext]_apiVars => [Kept]_apiVars
  BY <1>1
<1>3. ApiSpec => [][Kept]_apiVars
  BY ApiInvariance, <1>2, PTL DEF ApiSpec
<1> QED BY <1>3 DEF RoundTripKeeps

-----------------------------------------------------------------------------
(* The playground and the push gateway. *)

Tasks == [state : Alive \cup Terminal, parts : SUBSET Places]

ErrorStream == <<"RUN_STARTED">> \o <<"RUN_ERROR">>
ReplyStream == <<"RUN_STARTED">> \o Reply

\* The shapes of the state.
ProxyShape ==
  /\ routes \in {{1}, {2}, {1, 2}} /\ tasks \in Seq(Tasks)
  /\ run \in [pc : {"none", "new", "refused", "send", "poll", "done"}, at : {1, 2}, task : Nat,
              polls : 0..MaxPolls, expired : BOOLEAN]
  /\ push \in [pc : {"none", "new", "forward", "done"},
               code : {0, 200, 202, 400, 403, 404, 405, 500, 502, 503, 599}]
  /\ push.code # 0 <=> push.pc = "done"

\* While the message is being sent, only endpoints tried before can have started
\* a task for it.
AskedOnce ==
  /\ run.pc \in {"none", "new", "refused"} => run.at = 1
  /\ run.pc \in {"none", "new", "refused"} \/ (run.pc = "send" /\ run.at = 1) => Len(tasks) = 0
  /\ run.pc = "send" /\ run.at = 2 => Len(tasks) <= 1 /\ (1 \notin routes => Len(tasks) = 0)
  /\ Len(tasks) <= 2 /\ (routes # {1, 2} => Len(tasks) <= 1)

\* The handler polls the task it was answered with, and no other.
PollsItsTask ==
  /\ run.task \in 0..Len(tasks)
  /\ run.pc \notin {"poll", "done"} => run.task = 0
  /\ run.pc = "poll" => run.task # 0

\* What has been written is decided by where the handler is.
StreamInOrder ==
  /\ run.pc \in {"none", "new", "refused"} => events = <<>>
  /\ run.pc \in {"send", "poll"} => events = <<"RUN_STARTED">>
  /\ run.pc = "done" => events \in {ErrorStream, ReplyStream}

\* A reply after polling was read off a task that had ended well.
ReplyIsEarned ==
  run.pc = "done" /\ run.task # 0 /\ events = ReplyStream =>
    tasks[run.task].state \in Terminal \ {"failed"} /\ tasks[run.task].parts # {}

ProxyIndInv == ProxyShape /\ AskedOnce /\ PollsItsTask /\ StreamInOrder /\ ReplyIsEarned

\* The streams as they are written.
LEMMA StreamsWritten == 
  /\ ErrorStream = <<"RUN_STARTED", "RUN_ERROR">> 
  /\ Len(ErrorStream) = 2 /\ ErrorStream[2] = "RUN_ERROR"
  /\ Len(ReplyStream) = 5 /\ ReplyStream[5] = "RUN_FINISHED"
  /\ ErrorStream # ReplyStream
<1>1. ErrorStream = <<"RUN_STARTED", "RUN_ERROR">>
  <2>1. Len(ErrorStream) = 2 /\ ErrorStream[1] = "RUN_STARTED" /\ ErrorStream[2] = "RUN_ERROR"
    <3>1. <<"RUN_STARTED">> \in Seq({"RUN_STARTED", "RUN_ERROR"})
          /\ <<"RUN_ERROR">> \in Seq({"RUN_STARTED", "RUN_ERROR"})
      OBVIOUS
    <3>2. Len(<<"RUN_STARTED">>) = 1 /\ Len(<<"RUN_ERROR">>) = 1
      OBVIOUS
    <3> QED BY <3>1, <3>2, ConcatProperties DEF ErrorStream
  <2>2. ErrorStream \in Seq({"RUN_STARTED", "RUN_ERROR"})
        /\ <<"RUN_STARTED", "RUN_ERROR">> \in Seq({"RUN_STARTED", "RUN_ERROR"})
    BY DEF ErrorStream
  <2> QED BY <2>1, <2>2, SeqEqual
<1>2. Len(ReplyStream) = 5 /\ ReplyStream[5] = "RUN_FINISHED"
  BY DEF ReplyStream, Reply
<1>3. Len(ErrorStream) = 2 /\ ErrorStream[2] = "RUN_ERROR"
  BY <1>1
<1> QED BY <1>1, <1>2, <1>3

\* How many endpoints the agent serves.
LEMMA RouteCount ==
  ASSUME NEW r \in {{1}, {2}, {1, 2}}
  PROVE  /\ r = {1, 2} => Cardinality(r) = 2
         /\ r # {1, 2} => Cardinality(r) = 1
<1>1. Cardinality({1}) = 1 /\ IsFiniteSet({1}) /\ Cardinality({2}) = 1
  BY FS_Singleton
<1>2. Cardinality({1} \cup {2}) = 2
  BY <1>1, FS_AddElement
<1>3. {1} \cup {2} = {1, 2} /\ {1} # {1, 2} /\ {2} # {1, 2}
  OBVIOUS
<1> QED BY <1>1, <1>2, <1>3

\* What Fails, Finishes and AnswerWith write.
LEMMA FailsFacts ==
  ASSUME ProxyShape, events = <<"RUN_STARTED">>
  PROVE  /\ Fails => /\ run' = [run EXCEPT !.pc = "done"] /\ events' = ErrorStream
         /\ Finishes => /\ run' = [run EXCEPT !.pc = "done"] /\ events' = ReplyStream
BY DEF Fails, Finishes, Goto, Emit, ErrorStream, ReplyStream

\* A handler that ends, with an error or with a reply, keeps the invariant.
LEMMA EndsInv ==
  ASSUME ProxyIndInv, run.pc \in {"send", "poll"}, run' = [run EXCEPT !.pc = "done"],
         UNCHANGED <<routes, push>>, tasks' \in Seq(Tasks),
         \/ events' = ErrorStream
         \/ events' = ReplyStream /\ run.task = 0
         \/ /\ events' = ReplyStream /\ run.task # 0 /\ tasks' = tasks
            /\ tasks[run.task].state \in Terminal \ {"failed"} /\ tasks[run.task].parts # {},
         \/ tasks' = tasks
         \/ run.pc = "send" /\ run.at \in routes /\ Len(tasks') = Len(tasks) + 1
  PROVE  ProxyIndInv'
<1>1. /\ run'.pc = "done" /\ run'.task = run.task /\ run'.at = run.at
      /\ run' \in [pc : {"none", "new", "refused", "send", "poll", "done"}, at : {1, 2}, task : Nat,
                   polls : 0..MaxPolls, expired : BOOLEAN]
  BY DEF ProxyIndInv, ProxyShape
<1>t. Len(tasks) \in Nat /\ Len(tasks') \in Nat /\ run.at \in {1, 2} /\ run.task \in Nat
      /\ routes \in {{1}, {2}, {1, 2}}
  BY DEF ProxyIndInv, ProxyShape
<1>2. ProxyShape'
  BY <1>1 DEF ProxyIndInv, ProxyShape
<1>3. AskedOnce'
  <2>1. Len(tasks') <= 2 /\ (routes # {1, 2} => Len(tasks') <= 1)
    <3>1. CASE tasks' = tasks
      BY <3>1 DEF ProxyIndInv, AskedOnce
    <3>2. CASE run.pc = "send" /\ run.at = 1 /\ Len(tasks') = Len(tasks) + 1
      BY <3>2 DEF ProxyIndInv, AskedOnce
    <3>3. CASE run.pc = "send" /\ run.at = 2 /\ 2 \in routes /\ Len(tasks') = Len(tasks) + 1
      <4>1. Len(tasks) <= 1 /\ (1 \notin routes => Len(tasks) = 0)
        BY <3>3 DEF ProxyIndInv, AskedOnce
      <4>2. 1 \in routes => routes = {1, 2}
        BY <3>3, <1>t
      <4> QED BY <1>t, <3>3, <4>1, <4>2
    <3> QED BY <1>t, <3>1, <3>2, <3>3
  <2> QED BY <1>1, <2>1 DEF AskedOnce
<1>4. PollsItsTask'
  BY <1>1, <1>t DEF ProxyIndInv, PollsItsTask
<1>5. StreamInOrder'
  BY <1>1 DEF StreamInOrder
<1>6. ReplyIsEarned'
  BY <1>1, StreamsWritten DEF ReplyIsEarned
<1> QED BY <1>2, <1>3, <1>4, <1>5, <1>6 DEF ProxyIndInv

\* So does one that tries the next endpoint, or gives up after the last.
LEMMA NextCandidateInv ==
  ASSUME ProxyIndInv, run.pc = "send", NextCandidate, UNCHANGED <<routes, push>>,
         tasks' \in Seq(Tasks),
         \/ tasks' = tasks
         \/ run.at \in routes /\ Len(tasks') = Len(tasks) + 1
  PROVE  ProxyIndInv'
<1>s. events = <<"RUN_STARTED">> /\ run.task = 0
  BY DEF ProxyIndInv, StreamInOrder, PollsItsTask
<1>1. CASE run.at = 2
  <2>1. Fails
    BY <1>1 DEF NextCandidate
  <2> QED BY <2>1, <1>s, FailsFacts, EndsInv DEF ProxyIndInv
<1>2. CASE run.at = 1
  <2>1. run' = [run EXCEPT !.at = @ + 1] /\ UNCHANGED events
    BY <1>2 DEF NextCandidate
  <2>2. /\ run'.pc = "send" /\ run'.task = 0 /\ run'.at = 2
        /\ run' \in [pc : {"none", "new", "refused", "send", "poll", "done"}, at : {1, 2},
                     task : Nat, polls : 0..MaxPolls, expired : BOOLEAN]
    BY <1>2, <1>s, <2>1 DEF ProxyIndInv, ProxyShape
  <2>3. ProxyShape'
    BY <2>2 DEF ProxyIndInv, ProxyShape
  <2>4. Len(tasks') \in Nat /\ Len(tasks) = 0 /\ routes \in {{1}, {2}, {1, 2}}
    BY <1>2 DEF ProxyIndInv, AskedOnce, ProxyShape
  <2>5. AskedOnce'
    <3>1. Len(tasks') <= 1 /\ (1 \notin routes => Len(tasks') = 0)
      <4>1. CASE tasks' = tasks
        BY <2>4, <4>1
      <4>2. CASE run.at \in routes /\ Len(tasks') = Len(tasks) + 1
        BY <1>2, <2>4, <4>2
      <4> QED BY <4>1, <4>2
    <3> QED BY <2>2, <2>4, <3>1 DEF AskedOnce
  <2>6. PollsItsTask' /\ StreamInOrder' /\ ReplyIsEarned'
    BY <1>s, <2>1, <2>2, <2>4 DEF PollsItsTask, StreamInOrder, ReplyIsEarned
  <2> QED BY <2>3, <2>5, <2>6 DEF ProxyIndInv
<1> QED BY <1>1, <1>2 DEF ProxyIndInv, ProxyShape

\* A task that is appended is a task.
LEMMA Appended ==
  ASSUME tasks \in Seq(Tasks), NEW s \in Alive \cup Terminal, NEW p \in SUBSET Places
  PROVE  /\ Append(tasks, NewTask(s, p)) \in Seq(Tasks)
         /\ Len(Append(tasks, NewTask(s, p))) = Len(tasks) + 1
BY DEF NewTask, Tasks

\* So does one that is answered with a task that goes on.
LEMMA PollsInv ==
  ASSUME ProxyIndInv, run.pc = "send", run.at \in routes, UNCHANGED <<routes, push, events>>,
         tasks' = Append(tasks, NewTask("working", {})), NEW n, n = Len(tasks) + 1,
         run' = [run EXCEPT !.pc = "poll", !.task = n, !.polls = 0]
  PROVE  ProxyIndInv'
<1>1. tasks' \in Seq(Tasks) /\ Len(tasks') = Len(tasks) + 1 /\ Len(tasks) \in Nat
  <2>1. "working" \in Alive \cup Terminal /\ {} \in SUBSET Places
    BY DEF Alive
  <2> QED BY <2>1, Appended DEF ProxyIndInv, ProxyShape
<1>2. 0 \in 0..MaxPolls /\ Len(tasks) + 1 \in Nat
  BY <1>1, ProxyAssumption
<1>3. /\ run'.pc = "poll" /\ run'.task = Len(tasks) + 1 /\ run'.at = run.at
      /\ run' \in [pc : {"none", "new", "refused", "send", "poll", "done"}, at : {1, 2}, task : Nat,
                   polls : 0..MaxPolls, expired : BOOLEAN]
  <2>1. n \in Nat
    BY <1>2
  <2>2. run \in [pc : {"none", "new", "refused", "send", "poll", "done"}, at : {1, 2},
                 task : Nat, polls : 0..MaxPolls, expired : BOOLEAN]
    BY DEF ProxyIndInv, ProxyShape
  <2> QED BY <1>2, <2>1, <2>2
<1>4. ProxyShape'
  BY <1>1, <1>3 DEF ProxyIndInv, ProxyShape
<1>5. AskedOnce'
  <2>1. routes \in {{1}, {2}, {1, 2}} /\ run.at \in {1, 2}
    BY DEF ProxyIndInv, ProxyShape
  <2>2. Len(tasks') <= 2 /\ (routes # {1, 2} => Len(tasks') <= 1)
    BY <1>1, <2>1 DEF ProxyIndInv, AskedOnce
  <2> QED BY <1>3, <2>2 DEF AskedOnce
<1>6. PollsItsTask' /\ StreamInOrder' /\ ReplyIsEarned'
  BY <1>1, <1>3 DEF ProxyIndInv, PollsItsTask, StreamInOrder, ReplyIsEarned
<1> QED BY <1>4, <1>5, <1>6 DEF ProxyIndInv

\* A terminal task is answered with a reply if it has parts, else with an error.
LEMMA AnswerFacts ==
  ASSUME NEW t \in Tasks, AnswerWith(t)
  PROVE  Fails \/ (Finishes /\ t.parts # {})
BY DEF AnswerWith, extractPartsFromTask

\* Every step of the proxied requests keeps the invariant.
LEMMA ProxyStep ==
  ASSUME ProxyIndInv, [ProxyNext]_proxyVars
  PROVE  ProxyIndInv'
<1>t. /\ tasks \in Seq(Tasks) /\ ProxyShape /\ run.task \in Nat /\ Len(tasks) \in Nat
      /\ run \in [pc : {"none", "new", "refused", "send", "poll", "done"}, at : {1, 2}, task : Nat,
                  polls : 0..MaxPolls, expired : BOOLEAN]
  BY DEF ProxyIndInv, ProxyShape
<1>e. run.pc \in {"send", "poll"} => events = <<"RUN_STARTED">>
  BY DEF ProxyIndInv, StreamInOrder
<1>z. run.pc = "send" => run.task = 0
  BY DEF ProxyIndInv, PollsItsTask
<1>w. "working" \in Alive \cup Terminal /\ "completed" \in Alive \cup Terminal
      /\ {} \in SUBSET Places /\ {"status"} \in SUBSET Places
  BY DEF Alive, Terminal, Places
<1>1. CASE UNCHANGED proxyVars
  BY <1>1 DEF proxyVars, ProxyIndInv, ProxyShape, AskedOnce, PollsItsTask, StreamInOrder,
              ReplyIsEarned
<1>2. CASE ServeHTTP
  <2>1. /\ run.pc = "new" /\ UNCHANGED <<routes, tasks, push>>
        /\ \/ run' = [run EXCEPT !.pc = "send"] /\ events' = <<>> \o <<"RUN_STARTED">>
           \/ run' = [run EXCEPT !.pc = "refused"] /\ events' = <<>>
    BY <1>2 DEF ServeHTTP, Goto, Emit, ProxyIndInv, StreamInOrder
  <2>2. <<>> \o <<"RUN_STARTED">> = <<"RUN_STARTED">>
    <3>1. <<"RUN_STARTED">> \in Seq({"RUN_STARTED"})
      OBVIOUS
    <3> QED BY <3>1, ConcatEmptySeq
  <2>3. /\ run' \in [pc : {"none", "new", "refused", "send", "poll", "done"}, at : {1, 2},
                     task : Nat, polls : 0..MaxPolls, expired : BOOLEAN]
        /\ run'.at = run.at /\ run'.task = run.task
        /\ \/ run'.pc = "send" /\ events' = <<"RUN_STARTED">>
           \/ run'.pc = "refused" /\ events' = <<>>
    BY <1>t, <2>1, <2>2
  <2>4. run.at = 1 /\ run.task = 0 /\ Len(tasks) = 0
    BY <2>1 DEF ProxyIndInv, AskedOnce, PollsItsTask
  <2>5. ProxyShape'
    BY <2>1, <2>3 DEF ProxyIndInv, ProxyShape
  <2>6. AskedOnce' /\ PollsItsTask' /\ StreamInOrder' /\ ReplyIsEarned'
    BY <2>1, <2>3, <2>4 DEF AskedOnce, PollsItsTask, StreamInOrder, ReplyIsEarned
  <2> QED BY <2>5, <2>6 DEF ProxyIndInv
<1>3. CASE SendFails
  BY <1>3, <1>t, NextCandidateInv DEF SendFails
<1>4. CASE SendLost
  <2>1. tasks' \in Seq(Tasks) /\ Len(tasks') = Len(tasks) + 1
    BY <1>4, <1>t, <1>w, Appended DEF SendLost
  <2> QED BY <1>4, <2>1, NextCandidateInv DEF SendLost
<1>5. CASE SendMessage
  <2>1. run.pc = "send" /\ run.at \in routes /\ UNCHANGED <<routes, push>>
    BY <1>5 DEF SendMessage
  <2>2. CASE Finishes /\ tasks' = Append(tasks, NewTask("completed", {"status"}))
    <3>1. tasks' \in Seq(Tasks) /\ Len(tasks') = Len(tasks) + 1
      BY <2>2, <1>t, <1>w, Appended
    <3>2. run' = [run EXCEPT !.pc = "done"] /\ events' = ReplyStream
      BY <2>1, <2>2, <1>t, <1>e, FailsFacts
    <3> QED BY <2>1, <3>1, <3>2, <1>z, EndsInv
  <2>3. CASE /\ run' = [run EXCEPT !.pc = "poll", !.task = Len(tasks) + 1, !.polls = 0]
             /\ tasks' = Append(tasks, NewTask("working", {})) /\ UNCHANGED events
    BY <2>1, <2>3, PollsInv
  <2>4. CASE Fails /\ tasks' = tasks
    <3>1. run' = [run EXCEPT !.pc = "done"] /\ events' = ErrorStream
      BY <2>1, <2>4, <1>t, <1>e, FailsFacts
    <3> QED BY <2>1, <2>4, <3>1, <1>t, EndsInv
  <2> QED BY <1>5, <2>2, <2>3, <2>4 DEF SendMessage
<1>6. CASE SendTask
  <2>1. run.pc = "send" /\ run.at \in routes /\ UNCHANGED <<routes, push>>
    BY <1>6 DEF SendTask
  <2>2. PICK state \in Alive \cup Terminal, parts \in SUBSET Places :
          /\ state \in Alive => parts = {}
          /\ tasks' = Append(tasks, NewTask(state, parts))
          /\ IF state \in Terminal
             THEN AnswerWith(NewTask(state, parts))
             ELSE /\ run' = [run EXCEPT !.pc = "poll", !.task = Len(tasks) + 1, !.polls = 0]
                  /\ UNCHANGED events
    BY <1>6 DEF SendTask
  <2>3. tasks' \in Seq(Tasks) /\ Len(tasks') = Len(tasks) + 1 /\ NewTask(state, parts) \in Tasks
    BY <2>2, <1>t, Appended DEF NewTask, Tasks
  <2>4. CASE state \in Terminal
    <3>1. Fails \/ Finishes
      BY <2>2, <2>3, <2>4, AnswerFacts
    <3>2. run' = [run EXCEPT !.pc = "done"] /\ events' \in {ErrorStream, ReplyStream}
      BY <2>1, <3>1, <1>t, <1>e, FailsFacts
    <3> QED BY <2>1, <2>3, <3>2, <1>z, EndsInv
  <2>5. CASE state \notin Terminal
    <3>1. state = "working" /\ parts = {}
      BY <2>2, <2>5 DEF Alive
    <3> QED BY <2>1, <2>2, <2>5, <3>1, PollsInv
  <2> QED BY <2>4, <2>5
<1>7. CASE PollTask
  <2>1. run.pc = "poll" /\ run.polls < MaxPolls /\ UNCHANGED <<routes, tasks, push>>
    BY <1>7 DEF PollTask
  <2>2. run.task \in 1..Len(tasks) /\ tasks[run.task] \in Tasks
    BY <2>1, <1>t DEF ProxyIndInv, PollsItsTask
  <2>3. CASE tasks[run.task].state \in Terminal /\ PollVerdict(tasks[run.task])
    <3>1. \/ Fails
          \/ /\ Finishes /\ tasks[run.task].parts # {}
             /\ tasks[run.task].state \in Terminal \ {"failed"}
      BY <2>2, <2>3, AnswerFacts DEF PollVerdict
    <3>2. /\ run' = [run EXCEPT !.pc = "done"]
          /\ \/ events' = ErrorStream
             \/ /\ events' = ReplyStream /\ tasks[run.task].parts # {}
                /\ tasks[run.task].state \in Terminal \ {"failed"}
      BY <2>1, <3>1, <1>t, <1>e, FailsFacts
    <3> QED BY <2>1, <2>2, <3>2, <1>t, EndsInv
  <2>4. CASE PollAgain /\ UNCHANGED events
    <3>1. run.polls \in 0..MaxPolls /\ run.polls + 1 \in 0..MaxPolls
      BY <1>t, <2>1, ProxyAssumption
    <3>2. /\ run' \in [pc : {"none", "new", "refused", "send", "poll", "done"}, at : {1, 2},
                       task : Nat, polls : 0..MaxPolls, expired : BOOLEAN]
          /\ run'.at = run.at /\ run'.task = run.task /\ run'.pc = run.pc
      BY <1>t, <2>4, <3>1 DEF PollAgain
    <3>3. ProxyShape'
      BY <2>1, <3>2 DEF ProxyIndInv, ProxyShape
    <3>4. AskedOnce' /\ PollsItsTask' /\ StreamInOrder' /\ ReplyIsEarned'
      BY <2>1, <2>4, <3>2 DEF ProxyIndInv, AskedOnce, PollsItsTask, StreamInOrder, ReplyIsEarned
    <3> QED BY <3>3, <3>4 DEF ProxyIndInv
  <2> QED BY <1>7, <2>3, <2>4 DEF PollTask
<1>8. CASE PollEnds
  <2>1. run.pc = "poll" /\ Fails /\ UNCHANGED <<routes, tasks, push>>
    BY <1>8 DEF PollEnds
  <2>2. run' = [run EXCEPT !.pc = "done"] /\ events' = ErrorStream
    BY <2>1, <1>t, <1>e, FailsFacts
  <2> QED BY <2>1, <2>2, <1>t, EndsInv
<1>9. CASE ContextOver
  <2>1. UNCHANGED <<routes, tasks, events, push>> /\ run' = [run EXCEPT !.expired = TRUE]
    BY <1>9 DEF ContextOver
  <2>2. /\ run' \in [pc : {"none", "new", "refused", "send", "poll", "done"}, at : {1, 2},
                     task : Nat, polls : 0..MaxPolls, expired : BOOLEAN]
        /\ run'.at = run.at /\ run'.task = run.task /\ run'.pc = run.pc
    BY <1>t, <2>1
  <2>3. ProxyShape'
    BY <2>1, <2>2 DEF ProxyIndInv, ProxyShape
  <2>4. AskedOnce' /\ PollsItsTask' /\ StreamInOrder' /\ ReplyIsEarned'
    BY <2>1, <2>2 DEF ProxyIndInv, AskedOnce, PollsItsTask, StreamInOrder, ReplyIsEarned
  <2> QED BY <2>3, <2>4 DEF ProxyIndInv
<1>10. ASSUME NEW i \in 1..Len(tasks), TaskEnded(i) PROVE ProxyIndInv'
  <2>1. PICK state \in Terminal, parts \in SUBSET Places :
          tasks' = [tasks EXCEPT ![i] = NewTask(state, parts)]
    BY <1>10 DEF TaskEnded
  <2>2. UNCHANGED <<routes, run, events, push>> /\ tasks[i].state \in Alive
    BY <1>10 DEF TaskEnded
  <2>3. NewTask(state, parts) \in Tasks
    BY DEF NewTask, Tasks
  <2>4. /\ tasks' \in Seq(Tasks) /\ Len(tasks') = Len(tasks)
        /\ \A j \in 1..Len(tasks) : j # i => tasks'[j] = tasks[j]
    BY <1>t, <2>1, <2>3, ExceptSeq
  <2>5. ProxyShape' /\ AskedOnce' /\ PollsItsTask' /\ StreamInOrder'
    BY <2>2, <2>4 DEF ProxyIndInv, ProxyShape, AskedOnce, PollsItsTask, StreamInOrder
  <2>6. ReplyIsEarned'
    <3> SUFFICES ASSUME run.pc = "done", run.task # 0, events = ReplyStream
                 PROVE  tasks'[run.task] = tasks[run.task]
      BY <2>2 DEF ProxyIndInv, ReplyIsEarned
    <3>1. tasks[run.task].state \in Terminal \ {"failed"} /\ run.task \in 1..Len(tasks)
      BY <1>t DEF ProxyIndInv, ReplyIsEarned, PollsItsTask
    <3>2. run.task # i
      BY <2>2, <3>1 DEF Alive, Terminal
    <3> QED BY <2>4, <3>1, <3>2
  <2> QED BY <2>5, <2>6 DEF ProxyIndInv
<1>11. CASE ServePush \/ Forwarded \/ ForwardFails
  <2>1. UNCHANGED <<routes, tasks, run, events>>
    BY <1>11 DEF ServePush, Forwarded, ForwardFails
  <2>2. \/ push.pc = "new" /\ push' = [push EXCEPT !.pc = "forward"]
        \/ \E code \in {200, 202, 400, 403, 404, 405, 500, 502, 503, 599} :
             push' = [pc |-> "done", code |-> code]
    BY <1>11 DEF ServePush, Forwarded, ForwardFails, Relay
  <2>3. /\ push' \in [pc : {"none", "new", "forward", "done"},
                      code : {0, 200, 202, 400, 403, 404, 405, 500, 502, 503, 599}]
        /\ push'.code # 0 <=> push'.pc = "done"
    <3>1. CASE push.pc = "new" /\ push' = [push EXCEPT !.pc = "forward"]
      BY <1>t, <3>1 DEF ProxyShape
    <3>2. ASSUME NEW code \in {200, 202, 400, 403, 404, 405, 500, 502, 503, 599},
                 push' = [pc |-> "done", code |-> code]
          PROVE  <2>3!1 /\ <2>3!2
      BY <3>2
    <3> QED BY <2>2, <3>1, <3>2
  <2>4. ProxyShape'
    BY <1>t, <2>1, <2>3 DEF ProxyShape
  <2>5. AskedOnce' /\ PollsItsTask' /\ StreamInOrder' /\ ReplyIsEarned'
    BY <2>1 DEF ProxyIndInv, AskedOnce, PollsItsTask, StreamInOrder, ReplyIsEarned
  <2> QED BY <2>4, <2>5 DEF ProxyIndInv
<1> QED BY <1>1, <1>2, <1>3, <1>4, <1>5, <1>6, <1>7, <1>8, <1>9, <1>10, <1>11 DEF ProxyNext

\* The handlers start with nothing sent.
LEMMA ProxyStart == ProxyInit => ProxyIndInv
<1> SUFFICES ASSUME ProxyInit PROVE ProxyIndInv
  OBVIOUS
<1>1. PICK asked \in {"playground", "push"} :
        /\ run = [pc |-> IF asked = "playground" THEN "new" ELSE "none", at |-> 1,
                  task |-> 0, polls |-> 0, expired |-> FALSE]
        /\ push = [pc |-> IF asked = "push" THEN "new" ELSE "none", code |-> 0]
  BY DEF ProxyInit
<1>2. routes \in {{1}, {2}, {1, 2}} /\ tasks = <<>> /\ events = <<>>
  BY DEF ProxyInit
<1>3. /\ run.pc \in {"new", "none"} /\ run.at = 1 /\ run.task = 0
      /\ run \in [pc : {"none", "new", "refused", "send", "poll", "done"}, at : {1, 2}, task : Nat,
                  polls : 0..MaxPolls, expired : BOOLEAN]
  BY <1>1, ProxyAssumption
<1>4. ProxyShape
  BY <1>1, <1>2, <1>3 DEF ProxyShape
<1>5. AskedOnce /\ PollsItsTask /\ StreamInOrder /\ ReplyIsEarned
  BY <1>2, <1>3 DEF AskedOnce, PollsItsTask, StreamInOrder, ReplyIsEarned
<1> QED BY <1>4, <1>5 DEF ProxyIndInv

\* The playground works on a message at most once per endpoint the agent serves, polls
\* the task it was answered with, writes one of four streams, and reports a polled
\* task as finished only if it ended well with something to say, for any number of polls.
THEOREM RunsAreHonest == ProxySpec => []RunInv
<1>1. ProxyIndInv => RunInv
  <2> SUFFICES ASSUME ProxyIndInv PROVE RunInv
    OBVIOUS
  <2>t. /\ routes \in {{1}, {2}, {1, 2}} /\ tasks \in Seq(Tasks) /\ Len(tasks) \in Nat
        /\ run \in [pc : {"none", "new", "refused", "send", "poll", "done"}, at : {1, 2},
                    task : Nat, polls : 0..MaxPolls, expired : BOOLEAN]
        /\ push \in [pc : {"none", "new", "forward", "done"},
                     code : {0, 200, 202, 400, 403, 404, 405, 500, 502, 503, 599}]
        /\ push.code # 0 <=> push.pc = "done"
    BY DEF ProxyIndInv, ProxyShape
  <2>a. Len(tasks) <= 2 /\ (routes # {1, 2} => Len(tasks) <= 1)
    BY DEF ProxyIndInv, AskedOnce
  <2>1. ProxyTypeOK
    <3>1. routes \subseteq Candidates /\ Len(tasks) <= 2 /\ run.at \in Candidates
      <4>1. routes \subseteq Candidates
        BY <2>t DEF Candidates
      <4>2. Len(tasks) <= 2
        BY <2>t, <2>a
      <4> QED BY <2>t, <4>1, <4>2 DEF Candidates
    <3>2. events \in {<<>>, <<"RUN_STARTED">>, <<"RUN_STARTED", "RUN_ERROR">>, <<"RUN_STARTED">> \o Reply}
      BY <2>t, StreamsWritten DEF ProxyIndInv, StreamInOrder, ReplyStream
    <3>3. run.pc = "poll" => run.task \in 1..Len(tasks)
      BY <2>t DEF ProxyIndInv, PollsItsTask
    <3> QED BY <2>t, <3>1, <3>2, <3>3 DEF ProxyTypeOK
  <2>2. OneTaskPerRoute
    <3>0. routes \in {{1}, {2}, {1, 2}}
      BY <2>t
    <3>1. /\ routes = {1, 2} => Cardinality(routes) = 2
          /\ routes # {1, 2} => Cardinality(routes) = 1
      BY <3>0, RouteCount
    <3>2. CASE routes = {1, 2}
      BY <2>t, <2>a, <3>1, <3>2 DEF OneTaskPerRoute
    <3>3. CASE routes # {1, 2}
      BY <2>t, <2>a, <3>1, <3>3 DEF OneTaskPerRoute
    <3> QED BY <3>2, <3>3
  <2>3. PolledFinishIsSuccess
    <3> SUFFICES ASSUME Finished, run.task # 0
                 PROVE  /\ tasks[run.task].state \in Terminal \ {"failed"}
                        /\ tasks[run.task].parts # {}
      BY DEF PolledFinishIsSuccess
    <3>1. events # <<>> /\ events[Len(events)] = "RUN_FINISHED"
      BY DEF Finished, Last
    <3>2. run.pc = "done" /\ events = ReplyStream
      <4>1. events # <<"RUN_STARTED">>
        BY <3>1
      <4>2. events # ErrorStream
        BY <3>1, StreamsWritten
      <4> QED BY <2>t, <3>1, <4>1, <4>2 DEF ProxyIndInv, StreamInOrder
    <3> QED BY <3>2 DEF ProxyIndInv, ReplyIsEarned
  <2> QED BY <2>1, <2>2, <2>3 DEF RunInv
<1> QED BY ProxyStart, ProxyStep, <1>1, PTL DEF ProxySpec

-----------------------------------------------------------------------------
(* The trigger limiter. *)

Handlers == [pc : {"new", "check"} \cup Outcomes, limits : Limits \cup {NULL}]

Acceptances == [at : Nat, limits : Limits]

Recorded == {e \in Events : invocations[e] # NULL}

\* The shapes of the state; what was recorded and what runs is finite.
LimiterShape ==
  /\ now \in 0..MaxTime /\ config \in Limits \cup {NULL} /\ edits \in 0..MaxEdits
  /\ handler \in [Events -> Handlers]
  /\ invocations \in [Events -> 0..now \cup {NULL}] /\ IsFiniteSet(Recorded)
  /\ activeTasks \in Nat
  /\ accepted \in [Events -> Acceptances \cup {NULL}]
  /\ running \subseteq Events /\ IsFiniteSet(running)

\* A handler that has not been answered has accepted nothing, and what was accepted
\* under limits in the last hour is on record.
OnRecord ==
  \A e \in Events :
    /\ handler[e].pc = "check" => handler[e].limits # NULL
    /\ handler[e].pc \in {"new", "check"} => accepted[e] = NULL
    /\ accepted[e] # NULL =>
         /\ accepted[e].at <= now
         /\ accepted[e].limits.set /\ accepted[e].at > now - Window =>
              invocations[e] = accepted[e].at

\* While nothing is edited the handlers have loaded the limits in force, and the
\* counter is within them and no less than what runs.
CountedWithin ==
  edits = 0 =>
    /\ \A e \in Events : handler[e].pc = "check" => handler[e].limits = config
    /\ config # NULL /\ config.concurrent > 0 =>
         Cardinality(running) <= activeTasks /\ activeTasks <= config.concurrent

LimiterIndInv == LimiterShape /\ OnRecord /\ RollingHourHolds /\ CountedWithin

\* What limits are.
LEMMA LimitFacts ==
  ASSUME NEW l \in Limits
  PROVE  /\ l.set \in BOOLEAN /\ l.hourly \in Nat /\ l.concurrent \in Nat /\ l # NULL
         /\ l.hourly > 0 \/ l.concurrent > 0 => l.set
<1>1. l # NULL
  BY NoRecordAssumption
<1>2. CASE l = [set |-> FALSE, hourly |-> 0, concurrent |-> 0]
  BY <1>1, <1>2
<1>3. CASE l \in [set : {TRUE}, hourly : Hourly, concurrent : Concurrent]
  BY <1>1, <1>3, LimiterAssumption
<1> QED BY <1>2, <1>3 DEF Limits

\* An acceptance is no absence.
LEMMA AcceptanceFacts ==
  ASSUME NEW a \in Acceptances
  PROVE  a # NULL /\ a.at \in Nat /\ a.limits \in Limits
BY NoRecordAssumption DEF Acceptances

\* What one more element does to a bound.
LEMMA OneMore ==
  ASSUME NEW S, IsFiniteSet(S), NEW x, NEW T, T \ {x} \subseteq S
  PROVE  /\ IsFiniteSet(T) /\ Cardinality(T) \in Nat /\ Cardinality(S) \in Nat
         /\ Cardinality(T) <= Cardinality(S) + 1
<1>1. IsFiniteSet(S \cup {x}) /\ Cardinality(S) \in Nat /\ Cardinality(S \cup {x}) <= Cardinality(S) + 1
  <2>1. IsFiniteSet(S \cup {x}) /\ Cardinality(S \cup {x}) =
          IF x \in S THEN Cardinality(S) ELSE Cardinality(S) + 1
    BY FS_AddElement
  <2>2. Cardinality(S) \in Nat
    BY FS_CardinalityType
  <2> QED BY <2>1, <2>2
<1>2. T \subseteq S \cup {x}
  OBVIOUS
<1>3. IsFiniteSet(T) /\ Cardinality(T) <= Cardinality(S \cup {x})
  BY <1>1, <1>2, FS_Subset
<1>4. Cardinality(T) \in Nat /\ Cardinality(S \cup {x}) \in Nat
  BY <1>1, <1>3, FS_CardinalityType
<1> QED BY <1>1, <1>3, <1>4

\* An event accepted now under l, with fewer than l's hourly limit on record, is
\* within the limit of every hour it belongs to.
LEMMA AcceptedInTheHour ==
  ASSUME LimiterIndInv, NEW e \in Events, accepted[e] = NULL, NEW l \in Limits,
         accepted' = [accepted EXCEPT ![e] = [at |-> now, limits |-> l]],
         l.hourly > 0 => Cardinality(Pruned) < l.hourly
  PROVE  RollingHourHolds'
<1> SUFFICES ASSUME NEW g \in Events, accepted'[g] # NULL,
                    \A f \in HourOf(g)' : accepted'[f].limits.hourly > 0
             PROVE  \E f \in HourOf(g)' : Cardinality(HourOf(g)') <= accepted'[f].limits.hourly
  BY DEF RollingHourHolds
<1>t. /\ accepted \in [Events -> Acceptances \cup {NULL}] /\ now \in Nat /\ Window \in Nat \ {0}
      /\ invocations \in [Events -> 0..now \cup {NULL}] /\ IsFiniteSet(Recorded)
  BY LimiterAssumption DEF LimiterIndInv, LimiterShape
<1>1. /\ accepted'[e] = [at |-> now, limits |-> l] /\ accepted'[e] # NULL
      /\ accepted'[e].at = now /\ accepted'[e].limits = l
      /\ \A f \in Events \ {e} : accepted'[f] = accepted[f]
  <2>1. [at |-> now, limits |-> l] \in Acceptances
    BY <1>t DEF Acceptances
  <2> QED BY <1>t, <2>1, AcceptanceFacts
<1>2. \A f \in Events : accepted[f] # NULL =>
        /\ accepted[f] \in Acceptances /\ accepted[f].at \in Nat /\ accepted[f].at <= now
        /\ accepted[f].limits \in Limits
        /\ accepted[f].limits.set /\ accepted[f].at > now - Window =>
             invocations[f] = accepted[f].at
  BY <1>t, AcceptanceFacts DEF LimiterIndInv, OnRecord
<1>3. CASE g # e /\ accepted[g].at # now
  <2>1. accepted'[g] = accepted[g] /\ accepted[g] # NULL /\ accepted[g].at \in Nat
        /\ accepted[g].at < now
    BY <1>1, <1>2, <1>3, <1>t
  <2>2. HourOf(g)' = {f \in Events : /\ accepted'[f] # NULL
                                     /\ accepted'[f].at <= accepted[g].at
                                     /\ accepted'[f].at > accepted[g].at - Window}
    BY <2>1 DEF HourOf
  <2>3. e \notin HourOf(g)'
    BY <1>1, <1>t, <2>1, <2>2
  <2>4. e \notin HourOf(g)
    BY DEF HourOf
  <2>5. \A f \in Events \ {e} : f \in HourOf(g)' <=> f \in HourOf(g)
    BY <1>1, <2>2 DEF HourOf
  <2>6. HourOf(g)' = HourOf(g) /\ HourOf(g) \subseteq Events \ {e}
    <3>1. HourOf(g)' \subseteq Events /\ HourOf(g) \subseteq Events
      BY <2>2 DEF HourOf
    <3>2. \A x : x \in HourOf(g)' <=> x \in HourOf(g)
      BY <2>3, <2>4, <2>5, <3>1
    <3>3. HourOf(g)' = HourOf(g)
      BY <3>2
    <3> QED BY <2>4, <3>1, <3>3
  <2>7. \A f \in HourOf(g) : accepted'[f] = accepted[f]
    BY <1>1, <2>6
  <2>8. \E f \in HourOf(g) : Cardinality(HourOf(g)) <= accepted[f].limits.hourly
    BY <2>1, <2>6, <2>7 DEF LimiterIndInv, RollingHourHolds
  <2> QED BY <2>6, <2>7, <2>8
<1>4. CASE g = e \/ accepted[g].at = now
  <2>1. accepted'[g].at = now
    BY <1>1, <1>4
  <2>2. HourOf(g)' = {f \in Events : /\ accepted'[f] # NULL
                                     /\ accepted'[f].at <= now /\ accepted'[f].at > now - Window}
    BY <2>1 DEF HourOf
  <2>3. e \in HourOf(g)'
    BY <1>1, <1>t, <2>2
  <2>4. HourOf(g)' \ {e} \subseteq Pruned
    <3> SUFFICES ASSUME NEW f \in HourOf(g)', f # e PROVE f \in Pruned
      OBVIOUS
    <3>1. /\ f \in Events /\ accepted[f] # NULL /\ accepted[f].at > now - Window
          /\ accepted'[f] = accepted[f]
      BY <1>1, <2>2
    <3>2. accepted[f].limits.set
      BY <1>2, <3>1, LimitFacts
    <3>3. invocations[f] = accepted[f].at /\ accepted[f].at \in Nat
      BY <1>2, <3>1, <3>2
    <3>4. invocations[f] # NULL
      BY <3>3, NoRecordAssumption
    <3> QED BY <3>1, <3>3, <3>4 DEF Pruned, Recent
  <2>5. IsFiniteSet(Pruned)
    <3>1. Pruned \subseteq Recorded
      BY DEF Pruned, Recent, Recorded
    <3> QED BY <1>t, <3>1, FS_Subset
  <2>6. Cardinality(HourOf(g)') <= Cardinality(Pruned) + 1 /\ Cardinality(Pruned) \in Nat
        /\ Cardinality(HourOf(g)') \in Nat
    BY <2>4, <2>5, OneMore
  <2>7. l.hourly > 0 /\ l.hourly \in Nat
    BY <1>1, <2>3, LimitFacts
  <2>8. Cardinality(HourOf(g)') <= l.hourly
    BY <2>6, <2>7
  <2> QED BY <1>1, <2>3, <2>8
<1> QED BY <1>3, <1>4

\* Loading the configuration keeps the invariant.
LEMMA LoadConfigInv ==
  ASSUME LimiterIndInv, NEW e \in Events, LoadConfig(e)
  PROVE  LimiterIndInv'
<1>1. /\ handler[e].pc = "new"
      /\ UNCHANGED <<now, config, invocations, activeTasks, accepted, running, edits>>
  BY DEF LoadConfig
<1>2. handler \in [Events -> Handlers] /\ config \in Limits \cup {NULL}
  BY DEF LimiterIndInv, LimiterShape
<1>3. /\ handler' \in [Events -> Handlers] /\ \A f \in Events \ {e} : handler'[f] = handler[f]
      /\ handler'[e].pc = "check" => handler'[e].limits = config /\ config # NULL
  BY <1>2 DEF LoadConfig, Handlers, Outcomes
<1>4. LimiterShape'
  BY <1>1, <1>3 DEF LimiterIndInv, LimiterShape, Recorded
<1>5. accepted[e] = NULL
  BY <1>1 DEF LimiterIndInv, OnRecord
<1>6. OnRecord'
  BY <1>1, <1>3, <1>5 DEF LimiterIndInv, OnRecord
<1>7. RollingHourHolds'
  BY <1>1 DEF LimiterIndInv, RollingHourHolds, HourOf
<1>8. CountedWithin'
  BY <1>1, <1>3 DEF LimiterIndInv, CountedWithin
<1> QED BY <1>4, <1>6, <1>7, <1>8 DEF LimiterIndInv

\* An event that is accepted keeps the invariant, recorded or not.
LEMMA AcceptInv ==
  ASSUME LimiterIndInv, NEW e \in Events, handler[e].pc = "check",
         handler' = [handler EXCEPT ![e].pc = "accepted"],
         accepted' = [accepted EXCEPT ![e] = [at |-> now, limits |-> handler[e].limits]],
         running' = running \cup {e}, UNCHANGED <<now, config, edits>>,
         handler[e].limits.hourly > 0 => Cardinality(Pruned) < handler[e].limits.hourly,
         \/ /\ ~handler[e].limits.set /\ UNCHANGED <<invocations, activeTasks>>
         \/ /\ handler[e].limits.set /\ activeTasks' = activeTasks + 1
            /\ handler[e].limits.concurrent > 0 => activeTasks < handler[e].limits.concurrent
            /\ invocations' = [f \in Events |-> IF f = e THEN now
                                 ELSE IF f \in Pruned THEN invocations[f] ELSE NULL]
  PROVE  LimiterIndInv'
<1> DEFINE l == handler[e].limits
<1>t. /\ handler \in [Events -> Handlers] /\ now \in Nat /\ activeTasks \in Nat
      /\ config \in Limits \cup {NULL} /\ running \subseteq Events /\ IsFiniteSet(running)
      /\ accepted \in [Events -> Acceptances \cup {NULL}] /\ Window \in Nat \ {0}
      /\ invocations \in [Events -> 0..now \cup {NULL}] /\ IsFiniteSet(Recorded)
  BY LimiterAssumption DEF LimiterIndInv, LimiterShape
<1>1. l \in Limits /\ accepted[e] = NULL
  <2>1. l \in Limits \cup {NULL}
    BY <1>t DEF Handlers
  <2> QED BY <2>1 DEF LimiterIndInv, OnRecord
<1>2. RollingHourHolds'
  BY <1>1, AcceptedInTheHour
<1>3. /\ handler' \in [Events -> Handlers] /\ \A f \in Events \ {e} : handler'[f] = handler[f]
      /\ handler'[e].pc = "accepted"
  BY <1>t DEF Handlers, Outcomes
<1>4. /\ accepted' \in [Events -> Acceptances \cup {NULL}]
      /\ \A f \in Events \ {e} : accepted'[f] = accepted[f]
      /\ accepted'[e].at = now /\ accepted'[e].limits = l
  BY <1>1, <1>t DEF Acceptances
<1>5. IsFiniteSet(running') /\ Cardinality(running') <= Cardinality(running) + 1
      /\ Cardinality(running') \in Nat /\ Cardinality(running) \in Nat
  BY <1>t, OneMore
<1>6. activeTasks' \in Nat
  BY <1>t
<1>7. invocations' \in [Events -> 0..now \cup {NULL}]
  <2>1. now \in 0..now
    BY <1>t
  <2> QED BY <1>t, <2>1
<1>8. IsFiniteSet(Recorded')
  <2>1. Recorded' \ {e} \subseteq Recorded
    BY DEF Recorded
  <2> QED BY <1>t, <2>1, OneMore
<1>9. LimiterShape'
  BY <1>3, <1>4, <1>5, <1>6, <1>7, <1>8 DEF LimiterIndInv, LimiterShape
<1>10. OnRecord'
  <2> SUFFICES ASSUME NEW f \in Events
               PROVE  /\ handler'[f].pc = "check" => handler'[f].limits # NULL
                      /\ handler'[f].pc \in {"new", "check"} => accepted'[f] = NULL
                      /\ accepted'[f] # NULL =>
                           /\ accepted'[f].at <= now
                           /\ accepted'[f].limits.set /\ accepted'[f].at > now - Window =>
                                invocations'[f] = accepted'[f].at
    BY DEF OnRecord
  <2>1. CASE f = e
    BY <1>3, <1>4, <1>t, <2>1
  <2>2. CASE f # e
    <3>1. /\ handler'[f] = handler[f] /\ accepted'[f] = accepted[f]
      BY <1>3, <1>4, <2>2
    <3>2. invocations'[f] = invocations[f] \/ f \notin Pruned
      BY <2>2
    <3>3. /\ handler[f].pc = "check" => handler[f].limits # NULL
          /\ handler[f].pc \in {"new", "check"} => accepted[f] = NULL
          /\ accepted[f] # NULL =>
               /\ accepted[f].at <= now
               /\ accepted[f].limits.set /\ accepted[f].at > now - Window =>
                    invocations[f] = accepted[f].at
      BY DEF LimiterIndInv, OnRecord
    <3>4. accepted[f] # NULL /\ invocations[f] = accepted[f].at /\ accepted[f].at > now - Window
            => f \in Pruned
      <4>1. accepted[f] # NULL => accepted[f].at # NULL
        BY <1>t, AcceptanceFacts, NoRecordAssumption
      <4> QED BY <4>1 DEF Pruned, Recent
    <3> QED BY <3>1, <3>2, <3>3, <3>4
  <2> QED BY <2>1, <2>2
<1>11. CountedWithin'
  <2> SUFFICES ASSUME edits = 0
               PROVE  /\ \A f \in Events : handler'[f].pc = "check" => handler'[f].limits = config
                      /\ config # NULL /\ config.concurrent > 0 =>
                           /\ Cardinality(running') <= activeTasks'
                           /\ activeTasks' <= config.concurrent
    BY DEF CountedWithin
  <2>1. /\ \A f \in Events : handler[f].pc = "check" => handler[f].limits = config
        /\ config # NULL /\ config.concurrent > 0 =>
             Cardinality(running) <= activeTasks /\ activeTasks <= config.concurrent
    BY DEF LimiterIndInv, CountedWithin
  <2>2. \A f \in Events : handler'[f].pc = "check" => handler'[f].limits = config
    BY <1>3, <2>1
  <2>3. ASSUME config # NULL, config.concurrent > 0
        PROVE  Cardinality(running') <= activeTasks' /\ activeTasks' <= config.concurrent
    <3>1. l = config /\ l.set /\ config.concurrent \in Nat
      BY <1>1, <2>1, <2>3, LimitFacts
    <3>2. activeTasks' = activeTasks + 1 /\ activeTasks < config.concurrent
      BY <2>3, <3>1
    <3> QED BY <1>5, <1>t, <2>1, <2>3, <3>1, <3>2
  <2> QED BY <2>2, <2>3
<1> QED BY <1>2, <1>9, <1>10, <1>11 DEF LimiterIndInv

\* An event that is refused keeps the invariant.
LEMMA RefuseInv ==
  ASSUME LimiterIndInv, NEW e \in Events, handler[e].pc = "check",
         NEW v \in {"hourly", "concurrent"}, handler' = [handler EXCEPT ![e].pc = v],
         UNCHANGED <<now, config, edits, accepted, running, activeTasks>>,
         invocations' = [f \in Events |-> IF f \in Pruned THEN invocations[f] ELSE NULL]
  PROVE  LimiterIndInv'
<1>t. /\ handler \in [Events -> Handlers] /\ now \in Nat
      /\ accepted \in [Events -> Acceptances \cup {NULL}] /\ Window \in Nat \ {0}
      /\ invocations \in [Events -> 0..now \cup {NULL}] /\ IsFiniteSet(Recorded)
  BY LimiterAssumption DEF LimiterIndInv, LimiterShape
<1>2. RollingHourHolds'
  BY DEF LimiterIndInv, RollingHourHolds, HourOf
<1>3. /\ handler' \in [Events -> Handlers] /\ \A f \in Events \ {e} : handler'[f] = handler[f]
      /\ handler'[e].pc = v
  BY <1>t DEF Handlers, Outcomes
<1>7. invocations' \in [Events -> 0..now \cup {NULL}]
  BY <1>t
<1>8. IsFiniteSet(Recorded')
  <2>1. Recorded' \subseteq Recorded
    BY DEF Recorded
  <2> QED BY <1>t, <2>1, FS_Subset
<1>9. LimiterShape'
  BY <1>3, <1>7, <1>8 DEF LimiterIndInv, LimiterShape
<1>10. OnRecord'
  <2> SUFFICES ASSUME NEW f \in Events
               PROVE  /\ handler'[f].pc = "check" => handler'[f].limits # NULL
                      /\ handler'[f].pc \in {"new", "check"} => accepted[f] = NULL
                      /\ accepted[f] # NULL =>
                           /\ accepted[f].at <= now
                           /\ accepted[f].limits.set /\ accepted[f].at > now - Window =>
                                invocations'[f] = accepted[f].at
    BY DEF OnRecord
  <2>1. \/ handler'[f].pc = handler[f].pc /\ handler'[f].limits = handler[f].limits
        \/ handler'[f].pc \in {"hourly", "concurrent"}
    BY <1>3
  <2>2. invocations'[f] = invocations[f] \/ f \notin Pruned
    OBVIOUS
  <2>3. /\ handler[f].pc = "check" => handler[f].limits # NULL
        /\ handler[f].pc \in {"new", "check"} => accepted[f] = NULL
        /\ accepted[f] # NULL =>
             /\ accepted[f].at <= now
             /\ accepted[f].limits.set /\ accepted[f].at > now - Window =>
                  invocations[f] = accepted[f].at
    BY DEF LimiterIndInv, OnRecord
  <2>4. accepted[f] # NULL /\ invocations[f] = accepted[f].at /\ accepted[f].at > now - Window
          => f \in Pruned
    <3>1. accepted[f] # NULL => accepted[f].at # NULL
      BY <1>t, AcceptanceFacts, NoRecordAssumption
    <3> QED BY <3>1 DEF Pruned, Recent
  <2> QED BY <2>1, <2>2, <2>3, <2>4
<1>11. CountedWithin'
  BY <1>3 DEF LimiterIndInv, CountedWithin
<1> QED BY <1>2, <1>9, <1>10, <1>11 DEF LimiterIndInv

\* The limiter's check, under its mutex, keeps the invariant.
LEMMA CheckInv ==
  ASSUME LimiterIndInv, NEW e \in Events, Check(e)
  PROVE  LimiterIndInv'
<1> DEFINE l == handler[e].limits
           v == Verdict(l)
<1>1. /\ handler[e].pc = "check" /\ l.set /\ handler' = [handler EXCEPT ![e].pc = v]
      /\ UNCHANGED <<now, config, edits>>
      /\ invocations' = [f \in Events |-> IF f = e /\ v = "accepted" THEN now
                                          ELSE IF f \in Pruned THEN invocations[f] ELSE NULL]
      /\ IF v = "accepted"
         THEN /\ activeTasks' = activeTasks + 1
              /\ accepted' = [accepted EXCEPT ![e] = [at |-> now, limits |-> l]]
              /\ running' = running \cup {e}
         ELSE UNCHANGED <<activeTasks, accepted, running>>
  BY DEF Check
<1>t. l.hourly \in Nat /\ l.concurrent \in Nat /\ activeTasks \in Nat
  <2>1. l \in Limits \cup {NULL} /\ activeTasks \in Nat
    BY DEF LimiterIndInv, LimiterShape, Handlers
  <2> QED BY <1>1, <2>1, LimitFacts DEF LimiterIndInv, OnRecord
<1>c. Cardinality(Pruned) \in Nat
  <2>1. Pruned \subseteq Recorded /\ IsFiniteSet(Recorded)
    BY DEF Pruned, Recent, Recorded, LimiterIndInv, LimiterShape
  <2> QED BY <2>1, FS_Subset, FS_CardinalityType
<1>2. /\ v \in {"hourly", "concurrent", "accepted"}
      /\ v = "accepted" => /\ l.hourly > 0 => Cardinality(Pruned) < l.hourly
                           /\ l.concurrent > 0 => activeTasks < l.concurrent
  BY <1>t, <1>c DEF Verdict
<1> HIDE DEF v
<1>3. CASE v = "accepted"
  <2>1. invocations' = [f \in Events |-> IF f = e THEN now
                          ELSE IF f \in Pruned THEN invocations[f] ELSE NULL]
    BY <1>1, <1>3
  <2> QED BY <1>1, <1>2, <1>3, <2>1, AcceptInv
<1>4. CASE v # "accepted"
  <2>1. invocations' = [f \in Events |-> IF f \in Pruned THEN invocations[f] ELSE NULL]
    BY <1>1, <1>4
  <2> QED BY <1>1, <1>2, <1>4, <2>1, RefuseInv
<1> QED BY <1>3, <1>4

\* Every step of the invoke endpoint keeps the invariant.
LEMMA LimiterStep ==
  ASSUME LimiterIndInv, [LimiterNext]_limiterVars
  PROVE  LimiterIndInv'
<1>t. /\ handler \in [Events -> Handlers] /\ now \in 0..MaxTime /\ MaxTime \in Nat
      /\ accepted \in [Events -> Acceptances \cup {NULL}] /\ Window \in Nat \ {0}
      /\ config \in Limits \cup {NULL} /\ edits \in 0..MaxEdits /\ MaxEdits \in Nat
      /\ running \subseteq Events /\ IsFiniteSet(running) /\ activeTasks \in Nat
      /\ invocations \in [Events -> 0..now \cup {NULL}] /\ IsFiniteSet(Recorded)
  BY LimiterAssumption DEF LimiterIndInv, LimiterShape
<1>1. CASE UNCHANGED limiterVars
  BY <1>1 DEF limiterVars, LimiterIndInv, LimiterShape, Recorded, OnRecord, RollingHourHolds,
              HourOf, CountedWithin
<1>2. ASSUME NEW e \in Events, LoadConfig(e) PROVE LimiterIndInv'
  BY <1>2, LoadConfigInv
<1>3. ASSUME NEW e \in Events, CheckUnlimited(e) PROVE LimiterIndInv'
  <2>1. handler[e].pc = "check" /\ ~handler[e].limits.set
    BY <1>3 DEF CheckUnlimited
  <2>2. handler[e].limits \in Limits
    BY <1>t, <2>1 DEF Handlers, LimiterIndInv, OnRecord
  <2>3. ~(handler[e].limits.hourly > 0)
    BY <2>1, <2>2, LimitFacts
  <2> QED BY <1>3, <2>1, <2>3, AcceptInv DEF CheckUnlimited
<1>4. ASSUME NEW e \in Events, Check(e) PROVE LimiterIndInv'
  BY <1>4, CheckInv
<1>5. ASSUME NEW e \in Events, TaskEnds(e) PROVE LimiterIndInv'
  <2>1. running' = running \ {e}
        /\ UNCHANGED <<now, config, handler, invocations, activeTasks, accepted, edits>>
    BY <1>5 DEF TaskEnds
  <2>2. IsFiniteSet(running') /\ Cardinality(running') <= Cardinality(running)
        /\ Cardinality(running') \in Nat /\ Cardinality(running) \in Nat
    BY <1>t, <2>1, FS_Subset, FS_CardinalityType
  <2>3. LimiterShape' /\ OnRecord' /\ RollingHourHolds'
    BY <1>t, <2>1, <2>2 DEF LimiterIndInv, LimiterShape, Recorded, OnRecord, RollingHourHolds, HourOf
  <2>4. CountedWithin'
    BY <1>t, <2>1, <2>2 DEF LimiterIndInv, CountedWithin
  <2> QED BY <2>3, <2>4 DEF LimiterIndInv
<1>6. CASE Tick
  <2>1. now' = now + 1 /\ now' \in 0..MaxTime
        /\ UNCHANGED <<config, handler, invocations, activeTasks, accepted, running, edits>>
    BY <1>6, <1>t DEF Tick
  <2>2. LimiterShape'
    <3>1. 0..now \subseteq 0..now'
      BY <1>t, <2>1
    <3>2. invocations \in [Events -> 0..now' \cup {NULL}]
      BY <1>t, <3>1
    <3> QED BY <1>t, <2>1, <3>2 DEF LimiterShape, Recorded
  <2>3. OnRecord'
    <3> SUFFICES ASSUME NEW f \in Events
                 PROVE  /\ handler[f].pc = "check" => handler[f].limits # NULL
                        /\ handler[f].pc \in {"new", "check"} => accepted[f] = NULL
                        /\ accepted[f] # NULL =>
                             /\ accepted[f].at <= now'
                             /\ accepted[f].limits.set /\ accepted[f].at > now' - Window =>
                                  invocations[f] = accepted[f].at
      BY <2>1 DEF OnRecord
    <3>1. accepted[f] # NULL => accepted[f].at \in Nat
      BY <1>t, AcceptanceFacts
    <3> QED BY <1>t, <2>1, <3>1 DEF LimiterIndInv, OnRecord
  <2>4. RollingHourHolds' /\ CountedWithin'
    BY <2>1 DEF LimiterIndInv, RollingHourHolds, HourOf, CountedWithin
  <2> QED BY <2>2, <2>3, <2>4 DEF LimiterIndInv
<1>7. CASE EditLimits
  <2>1. edits' \in 0..MaxEdits /\ edits' # 0 /\ config' \in Limits \cup {NULL}
        /\ UNCHANGED <<now, handler, invocations, activeTasks, accepted, running>>
    BY <1>7, <1>t DEF EditLimits
  <2>2. LimiterShape' /\ OnRecord' /\ RollingHourHolds'
    BY <1>t, <2>1 DEF LimiterIndInv, LimiterShape, Recorded, OnRecord, RollingHourHolds, HourOf
  <2>3. CountedWithin'
    BY <2>1 DEF CountedWithin
  <2> QED BY <2>2, <2>3 DEF LimiterIndInv
<1>8. CASE Restart
  <2>1. /\ edits' \in 0..MaxEdits /\ edits' # 0 /\ activeTasks' = 0
        /\ \A e \in Events : invocations'[e] = NULL /\ accepted'[e] = NULL
        /\ invocations' \in [Events -> 0..now \cup {NULL}]
        /\ accepted' \in [Events -> Acceptances \cup {NULL}]
        /\ UNCHANGED <<now, config, running>>
    BY <1>8, <1>t DEF Restart
  <2>2. handler' \in [Events -> Handlers] /\ \A e \in Events : handler'[e].pc # "check"
    BY <1>8, <1>t DEF Restart, Handlers, Outcomes
  <2>3. IsFiniteSet(Recorded')
    <3>1. Recorded' = {}
      BY <2>1 DEF Recorded
    <3> QED BY <3>1, FS_EmptySet
  <2>4. LimiterShape'
    BY <1>t, <2>1, <2>2, <2>3 DEF LimiterShape
  <2>5. OnRecord' /\ RollingHourHolds' /\ CountedWithin'
    BY <2>1, <2>2 DEF OnRecord, RollingHourHolds, CountedWithin
  <2> QED BY <2>4, <2>5 DEF LimiterIndInv
<1> QED BY <1>1, <1>2, <1>3, <1>4, <1>5, <1>6, <1>7, <1>8 DEF LimiterNext

\* The process starts with nothing recorded.
LEMMA LimiterStart == LimiterInit => LimiterIndInv
<1> SUFFICES ASSUME LimiterInit PROVE LimiterIndInv
  OBVIOUS
<1>1. /\ now = 0 /\ config \in Limits \cup {NULL} /\ edits = 0 /\ activeTasks = 0 /\ running = {}
      /\ handler = [e \in Events |-> [pc |-> "new", limits |-> NULL]]
      /\ invocations = [e \in Events |-> NULL] /\ accepted = [e \in Events |-> NULL]
  BY DEF LimiterInit
<1>2. handler \in [Events -> Handlers] /\ \A e \in Events : handler[e].pc = "new"
  BY <1>1 DEF Handlers
<1>3. IsFiniteSet(Recorded) /\ IsFiniteSet(running) /\ Cardinality(running) = 0
  <2>1. Recorded = {}
    BY <1>1 DEF Recorded
  <2> QED BY <1>1, <2>1, FS_EmptySet
<1>4. LimiterShape
  BY <1>1, <1>2, <1>3, LimiterAssumption DEF LimiterShape
<1>5. OnRecord
  BY <1>1, <1>2 DEF OnRecord
<1>6. RollingHourHolds
  BY <1>1 DEF RollingHourHolds
<1>7. CountedWithin
  <2>1. config # NULL => config.concurrent \in Nat
    BY <1>1, LimitFacts
  <2> QED BY <1>1, <1>2, <1>3, <2>1 DEF CountedWithin
<1> QED BY <1>4, <1>5, <1>6, <1>7 DEF LimiterIndInv

\* The trigger limiter holds maxInvocationsPerHour over every rolling hour that ends
\* with an acceptance, whatever limits the handlers loaded before they took the mutex,
\* and maxConcurrentTasks over the tasks in flight, for any events, limits and times.
THEOREM LimitsHold == LimiterSpec => []LimiterInv
<1>1. LimiterIndInv => LimiterInv
  <2> SUFFICES ASSUME LimiterIndInv PROVE LimiterInv
    OBVIOUS
  <2>1. LimiterTypeOK
    BY DEF LimiterIndInv, LimiterShape, OnRecord, LimiterTypeOK, Handlers, Acceptances
  <2>2. ConcurrencyHolds
    <3> SUFFICES ASSUME edits = 0, config # NULL, config.concurrent > 0
                 PROVE  Cardinality(running) <= config.concurrent
      BY DEF ConcurrencyHolds
    <3>1. Cardinality(running) \in Nat /\ activeTasks \in Nat /\ config.concurrent \in Nat
      BY FS_CardinalityType, LimitFacts DEF LimiterIndInv, LimiterShape
    <3>2. Cardinality(running) <= activeTasks /\ activeTasks <= config.concurrent
      BY DEF LimiterIndInv, CountedWithin
    <3> QED BY <3>1, <3>2
  <2> QED BY <2>1, <2>2 DEF LimiterIndInv, LimiterInv
<1> QED BY LimiterStart, LimiterStep, <1>1, PTL DEF LimiterSpec

-----------------------------------------------------------------------------
(* The watch streams and the page. *)

\* What a watch delivers: resources at a version, deletions, errors.
WatchEvents == [type : {"ADDED", "MODIFIED"}, name : Names, v : Nat]
                 \cup [type : {"DELETED"}, name : Names, v : {0}]
                 \cup {[type |-> "ERROR", name |-> "none", v |-> 0]}

WatchHandlers == [pc : {"none", "open"}, ch : Seq(WatchEvents), closed : BOOLEAN, peer : BOOLEAN,
                  openedAt : Nat]

Pages == [scope : {"new", "mounted", "disposed"}, view : [Names -> Nat], base : Nat,
          es : Streams \cup {"none", "connecting"}, timer : BOOLEAN, leaked : Nat]

ListAnswers == [snap : [Names -> Nat], at : Nat]

Phases == {"serving", "grpcDrain", "httpDrain", "stopped"}

\* The shapes of the state; no version is of the future.
WatchShape ==
  /\ clock \in 0..MaxChanges /\ faults \in 0..MaxFaults /\ phase \in Phases
  /\ objs \in [Names -> 0..clock] /\ deletedAt \in [Names -> 0..clock]
  /\ page \in Pages /\ page.view \in [Names -> 0..clock] /\ page.base \in 0..clock
  /\ lists \in Seq(ListAnswers) /\ Len(lists) <= 2
  /\ stream \in [Streams -> WatchHandlers]

\* The page holds the one handler whose peer is alive.
OneSource ==
  \A s \in Streams : /\ stream[s].peer <=> page.es = s
                     /\ stream[s].pc = "none" => stream[s] = NoStream
                     /\ \A i \in 1..Len(stream[s].ch) : stream[s].ch[i].v <= clock
                     /\ stream[s].openedAt <= clock

\* What will call start again: timers, lists under way, an EventSource.
Tokens(p, k) == p.leaked + k + (IF p.timer THEN 1 ELSE 0) + (IF p.es # "none" THEN 1 ELSE 0)

\* Each but the first comes from a refresh or a fault, and a mounted page has one.
Budget(p, k, f) ==
  /\ p.scope = "new" => Tokens(p, k) = 0
  /\ p.scope = "mounted" => Tokens(p, k) <= f + 1 /\ (p.timer \/ p.es # "none" \/ k > 0)
  /\ p.scope = "disposed" => Tokens(p, k) <= f

\* A list of time t that shows what is gone was taken before it went.
Honest(snap, t, o, d, c) ==
  /\ snap \in [Names -> 0..c] /\ t <= c
  /\ \A n \in Names : snap[n] # 0 /\ o[n] = 0 => t < d[n]

\* What r has still to deliver ends with the latest of every resource, and what it
\* will not mention is shown right, or went between the list and the watch.
Caught(r, p, o, d) ==
  \A n \in Names :
    \/ \E i \in 1..Len(r.ch) : /\ r.ch[i].name = n /\ r.ch[i].v = o[n]
                               /\ \A j \in 1..Len(r.ch) : j > i => r.ch[j].name # n
    \/ /\ \A i \in 1..Len(r.ch) : r.ch[i].name # n
       /\ \/ p.view[n] = o[n]
          \/ o[n] = 0 /\ p.base < d[n] /\ d[n] <= r.openedAt

WatchIndInv ==
  /\ WatchShape
  /\ OneSource
  /\ Budget(page, Len(lists), faults)
  /\ \A i \in 1..Len(lists) : Honest(lists[i].snap, lists[i].at, objs, deletedAt, clock)
  /\ page.es = "connecting" => Honest(page.view, page.base, objs, deletedAt, clock)
  /\ \A s \in Streams : page.es = s /\ ~stream[s].closed =>
                          Caught(stream[s], page, objs, deletedAt)

-----------------------------------------------------------------------------

\* The page's updates of itself, field by field.
LEMMA PageFacts ==
  ASSUME NEW p \in Pages
  PROVE  /\ OnError(p) \in Pages /\ ScheduleReconnect(p) \in Pages /\ Stopped(p) \in Pages
         /\ OnError(p).es = "none" /\ OnError(p).timer /\ OnError(p).leaked = p.leaked
         /\ ScheduleReconnect(p).es = p.es /\ ScheduleReconnect(p).timer
         /\ ScheduleReconnect(p).leaked = IF p.timer THEN p.leaked + 1 ELSE p.leaked
         /\ Stopped(p).es = "none" /\ ~Stopped(p).timer /\ Stopped(p).leaked = p.leaked
         /\ \A q \in {OnError(p), ScheduleReconnect(p), Stopped(p)} :
              q.view = p.view /\ q.base = p.base /\ q.scope = p.scope
<1>1. /\ OnError(p) \in Pages /\ OnError(p).es = "none" /\ OnError(p).timer
      /\ OnError(p).leaked = p.leaked /\ OnError(p).view = p.view /\ OnError(p).base = p.base
      /\ OnError(p).scope = p.scope
  BY DEF OnError, Pages
<1>2. /\ Stopped(p) \in Pages /\ Stopped(p).es = "none" /\ ~Stopped(p).timer
      /\ Stopped(p).leaked = p.leaked /\ Stopped(p).view = p.view /\ Stopped(p).base = p.base
      /\ Stopped(p).scope = p.scope
  BY DEF Stopped, Pages
<1>3. /\ ScheduleReconnect(p).es = p.es /\ ScheduleReconnect(p).timer
      /\ ScheduleReconnect(p).leaked = (IF p.timer THEN p.leaked + 1 ELSE p.leaked)
      /\ ScheduleReconnect(p).view = p.view /\ ScheduleReconnect(p).base = p.base
      /\ ScheduleReconnect(p).scope = p.scope
  BY DEF ScheduleReconnect, Pages
<1>4. ScheduleReconnect(p) \in Pages
  <2> DEFINE n == IF p.timer THEN p.leaked + 1 ELSE p.leaked
  <2>1. n \in Nat
    BY DEF Pages
  <2>2. ScheduleReconnect(p) = [p EXCEPT !.timer = TRUE, !.leaked = n]
    BY DEF ScheduleReconnect, Pages
  <2> HIDE DEF n
  <2> QED BY <2>1, <2>2 DEF Pages
<1> QED BY <1>1, <1>2, <1>3, <1>4

\* An error turns the EventSource into a timer, a failed list into another.
LEMMA BudgetFacts ==
  ASSUME NEW p \in Pages, NEW k \in Nat, NEW f \in Nat
  PROVE  /\ Budget(p, k, f) /\ p.es # "none" => Budget(OnError(p), k, f)
         /\ Budget(p, k + 1, f) => Budget(ScheduleReconnect(p), k, f)
         /\ Budget(p, k, f) => Budget(p, k, f + 1)
         /\ Budget(p, k, f) /\ p.scope # "new" => p.leaked <= f + 1
         /\ p.leaked \in Nat
<1>t. p.leaked \in Nat /\ p.timer \in BOOLEAN
      /\ p.scope \in {"new", "mounted", "disposed"}
  BY DEF Pages
<1>1. Budget(p, k, f) /\ p.es # "none" => Budget(OnError(p), k, f)
  BY <1>t, PageFacts DEF Budget, Tokens
<1>2. Budget(p, k + 1, f) => Budget(ScheduleReconnect(p), k, f)
  BY <1>t, PageFacts DEF Budget, Tokens
<1>3. Budget(p, k, f) => Budget(p, k, f + 1)
  BY <1>t DEF Budget, Tokens
<1>4. Budget(p, k, f) /\ p.scope # "new" => p.leaked <= f + 1
  BY <1>t DEF Budget, Tokens
<1> QED BY <1>1, <1>2, <1>3, <1>4, <1>t

\* Every element of a finite set is in one place of its sequence.
LEMMA SetToSeqFacts ==
  ASSUME NEW S, IsFiniteSet(S)
  PROVE  /\ SetToSeq(S) \in Seq(S) /\ Len(SetToSeq(S)) = Cardinality(S) /\ Cardinality(S) \in Nat
         /\ \A x \in S : \E i \in 1..Len(SetToSeq(S)) : SetToSeq(S)[i] = x
         /\ \A i, j \in 1..Len(SetToSeq(S)) : SetToSeq(S)[i] = SetToSeq(S)[j] => i = j
<1> DEFINE k == Cardinality(S)
           f == SetToSeq(S)
<1>1. k \in Nat /\ ExistsBijection(1..k, S)
  BY FS_CardinalityType
<1>2. \E g \in [1..k -> S] : IsInjective(g)
  BY <1>1 DEF ExistsBijection, Bijection, Injection
<1>3. f \in [1..k -> S] /\ IsInjective(f)
  BY <1>2 DEF SetToSeq
<1>4. f \in Injection(1..k, S)
  BY <1>3 DEF Injection
<1>5. Cardinality(1..k) = k
  BY <1>1, FS_Interval
<1> HIDE DEF f
<1>6. f \in Surjection(1..k, S)
  BY <1>4, <1>5, FS_Injection
<1>7. f \in Seq(S) /\ Len(f) = k
  BY <1>1, <1>3
<1>8. \A i, j \in 1..k : f[i] = f[j] => i = j
  BY <1>3 DEF IsInjective
<1> QED BY <1>1, <1>6, <1>7, <1>8 DEF Surjection, f

\* The list of a watch's first events names every resource there is, at its version.
LEMMA ExistingFacts ==
  ASSUME objs \in [Names -> 0..clock], clock \in Nat
  PROVE  /\ Existing \in Seq(WatchEvents)
         /\ \A i \in 1..Len(Existing) : /\ Existing[i].name \in Names
                                        /\ Existing[i].v = objs[Existing[i].name]
                                        /\ Existing[i].v # 0
         /\ \A n \in Names : objs[n] # 0 => \E i \in 1..Len(Existing) : Existing[i].name = n
         /\ \A i, j \in 1..Len(Existing) : Existing[i].name = Existing[j].name => i = j
<1> DEFINE S == {n \in Names : objs[n] # 0}
           ns == SetToSeq(S)
<1>1. IsFiniteSet(S)
  BY WatchAssumption, FS_Subset
<1>2. /\ ns \in Seq(S) /\ Len(ns) \in Nat /\ \A n \in S : \E i \in 1..Len(ns) : ns[i] = n
      /\ \A i, j \in 1..Len(ns) : ns[i] = ns[j] => i = j
  BY <1>1, SetToSeqFacts
<1>3. Existing = [i \in 1..Len(ns) |-> [type |-> "ADDED", name |-> ns[i], v |-> objs[ns[i]]]]
  BY DEF Existing
<1> HIDE DEF ns
<1>4. \A i \in 1..Len(ns) : ns[i] \in S /\ ns[i] \in Names /\ objs[ns[i]] # 0 /\ objs[ns[i]] \in Nat
  BY <1>2
<1>5. \A i \in 1..Len(ns) : [type |-> "ADDED", name |-> ns[i], v |-> objs[ns[i]]] \in WatchEvents
  BY <1>4 DEF WatchEvents
<1>6. Existing \in Seq(WatchEvents) /\ Len(Existing) = Len(ns)
  BY <1>2, <1>3, <1>5
<1>7. \A i \in 1..Len(ns) : Existing[i].name = ns[i] /\ Existing[i].v = objs[ns[i]]
  BY <1>3
<1>8. \A i \in 1..Len(Existing) : /\ Existing[i].name \in Names
                                  /\ Existing[i].v = objs[Existing[i].name]
                                  /\ Existing[i].v # 0
  BY <1>4, <1>6, <1>7
<1>9. ASSUME NEW n \in Names, objs[n] # 0
      PROVE  \E i \in 1..Len(Existing) : Existing[i].name = n
  <2>1. PICK i \in 1..Len(ns) : ns[i] = n
    BY <1>2, <1>9
  <2> QED BY <1>6, <1>7, <2>1
<1>10. \A i, j \in 1..Len(Existing) : Existing[i].name = Existing[j].name => i = j
  BY <1>2, <1>6, <1>7
<1> QED BY <1>6, <1>8, <1>9, <1>10

\* What merging an event does to the view.
LEMMA MergeFacts ==
  ASSUME NEW e \in WatchEvents, NEW c \in Nat, NEW view \in [Names -> 0..c], e.v <= c
  PROVE  /\ MergeEvent(view, e) \in [Names -> 0..c]
         /\ \A n \in Names : MergeEvent(view, e)[n] = IF e.name = n THEN e.v ELSE view[n]
<1>1. CASE e \in [type : {"ADDED", "MODIFIED"}, name : Names, v : Nat]
  BY <1>1 DEF MergeEvent
<1>2. CASE e \in [type : {"DELETED"}, name : Names, v : {0}]
  BY <1>2 DEF MergeEvent
<1>3. CASE e = [type |-> "ERROR", name |-> "none", v |-> 0]
  <2>1. e.name \notin Names /\ e.type = "ERROR"
    BY <1>3, WatchAssumption
  <2> QED BY <2>1 DEF MergeEvent
<1> QED BY <1>1, <1>2, <1>3 DEF WatchEvents

\* What a removal leaves of the lists.
LEMMA RemoveFacts ==
  ASSUME NEW S, NEW q \in Seq(S), Len(q) <= 2, NEW i \in 1..Len(q)
  PROVE  /\ RemoveAt(q, i) \in Seq(S) /\ Len(RemoveAt(q, i)) = Len(q) - 1
         /\ \A j \in 1..Len(RemoveAt(q, i)) : \E m \in 1..Len(q) : RemoveAt(q, i)[j] = q[m]
<1>t. Len(q) \in Nat
  OBVIOUS
<1>1. /\ SubSeq(q, 1, i - 1) \in Seq(S) /\ Len(SubSeq(q, 1, i - 1)) = i - 1
      /\ \A j \in 1..(i - 1) : SubSeq(q, 1, i - 1)[j] = q[j]
  BY <1>t, SubSeqProperties
<1>2. /\ SubSeq(q, i + 1, Len(q)) \in Seq(S) /\ Len(SubSeq(q, i + 1, Len(q))) = Len(q) - i
      /\ \A j \in 1..(Len(q) - i) : SubSeq(q, i + 1, Len(q))[j] = q[i + j]
  BY <1>t, SubSeqProperties
<1>3. /\ RemoveAt(q, i) \in Seq(S) /\ Len(RemoveAt(q, i)) = Len(q) - 1
      /\ \A j \in 1..(Len(q) - 1) :
           RemoveAt(q, i)[j] = IF j <= i - 1 THEN SubSeq(q, 1, i - 1)[j]
                               ELSE SubSeq(q, i + 1, Len(q))[j - (i - 1)]
  <2> DEFINE a == SubSeq(q, 1, i - 1)
             b == SubSeq(q, i + 1, Len(q))
  <2>1. a \in Seq(S) /\ Len(a) = i - 1 /\ b \in Seq(S) /\ Len(b) = Len(q) - i
    BY <1>1, <1>2
  <2>2. RemoveAt(q, i) = a \o b
    BY DEF RemoveAt
  <2> HIDE DEF a, b
  <2>3. /\ a \o b \in Seq(S) /\ Len(a \o b) = Len(a) + Len(b)
        /\ \A j \in 1..(Len(a) + Len(b)) : (a \o b)[j] = IF j <= Len(a) THEN a[j] ELSE b[j - Len(a)]
    BY <2>1, ConcatProperties
  <2>4. Len(a) + Len(b) = Len(q) - 1
    BY <1>t, <2>1
  <2>5. \A j \in 1..(Len(q) - 1) : (a \o b)[j] = IF j <= i - 1 THEN a[j] ELSE b[j - (i - 1)]
    BY <2>1, <2>3, <2>4
  <2>6. a \o b \in Seq(S) /\ Len(a \o b) = Len(q) - 1
    BY <2>3, <2>4
  <2> QED BY <2>2, <2>5, <2>6 DEF a, b
<1>4. ASSUME NEW j \in 1..(Len(q) - 1) PROVE \E m \in 1..Len(q) : RemoveAt(q, i)[j] = q[m]
  <2>1. CASE j <= i - 1
    BY <1>1, <1>3, <1>t, <2>1
  <2>2. CASE ~(j <= i - 1)
    <3>1. j - (i - 1) \in 1..(Len(q) - i) /\ i + (j - (i - 1)) \in 1..Len(q)
      BY <1>t, <2>2
    <3>2. RemoveAt(q, i)[j] = q[i + (j - (i - 1))]
      BY <1>2, <1>3, <2>2, <3>1
    <3> QED BY <3>1, <3>2
  <2> QED BY <2>1, <2>2
<1> QED BY <1>3, <1>4

\* A free slot.
LEMMA NoStreamFacts ==
  /\ NoStream \in WatchHandlers /\ ~NoStream.peer /\ Len(NoStream.ch) = 0 /\ NoStream.openedAt = 0
  /\ NoStream.pc = "none"
<1>1. <<>> \in Seq(WatchEvents) /\ Len(<<>>) = 0
  OBVIOUS
<1> QED BY <1>1 DEF NoStream, WatchHandlers

\* What the invariant says of the types.
LEMMA WatchTypes ==
  ASSUME WatchIndInv
  PROVE  /\ clock \in Nat /\ faults \in Nat /\ page \in Pages /\ Len(lists) \in Nat
         /\ objs \in [Names -> 0..clock] /\ deletedAt \in [Names -> 0..clock]
         /\ page.view \in [Names -> 0..clock] /\ page.base \in 0..clock
         /\ page.es \in Streams \cup {"none", "connecting"}
         /\ lists \in Seq(ListAnswers) /\ Len(lists) <= 2
         /\ stream \in [Streams -> WatchHandlers]
         /\ OneSource /\ Budget(page, Len(lists), faults)
         /\ \A i \in 1..Len(lists) : Honest(lists[i].snap, lists[i].at, objs, deletedAt, clock)
BY WatchAssumption DEF WatchIndInv, WatchShape, Pages

\* A step that leaves the cluster and what the page shows alone keeps the invariant,
\* if the page stays with its stream or gives it up.
LEMMA SameCluster ==
  ASSUME WatchIndInv, UNCHANGED <<objs, clock, deletedAt>>, phase' \in Phases,
         faults' \in 0..MaxFaults,
         page' \in Pages, page'.view = page.view, page'.base = page.base,
         lists' \in Seq(ListAnswers), Len(lists') <= 2,
         \A i \in 1..Len(lists') : Honest(lists'[i].snap, lists'[i].at, objs, deletedAt, clock),
         stream' \in [Streams -> WatchHandlers], OneSource', Budget(page', Len(lists'), faults'),
         page'.es \in {page.es, "none"},
         \A s \in Streams : page'.es = s /\ ~stream'[s].closed => stream'[s] = stream[s]
  PROVE  WatchIndInv'
<1>1. WatchShape'
  BY DEF WatchIndInv, WatchShape
<1>2. page'.es = "connecting" => Honest(page.view, page.base, objs, deletedAt, clock)
  BY DEF WatchIndInv
<1>3. ASSUME NEW s \in Streams, page'.es = s, ~stream'[s].closed
      PROVE  Caught(stream'[s], page', objs, deletedAt)
  <2>1. page.es = s /\ stream'[s] = stream[s]
    BY <1>3, WatchAssumption
  <2>2. Caught(stream[s], page, objs, deletedAt)
    BY <1>3, <2>1 DEF WatchIndInv
  <2> QED BY <2>1, <2>2 DEF Caught
<1>4. \A s \in Streams : page'.es = s /\ ~stream'[s].closed =>
                           Caught(stream'[s], page', objs', deletedAt')
  BY <1>3
<1>5. /\ \A i \in 1..Len(lists') : Honest(lists'[i].snap, lists'[i].at, objs', deletedAt', clock')
      /\ page'.es = "connecting" => Honest(page'.view, page'.base, objs', deletedAt', clock')
  BY <1>2
<1> QED BY <1>1, <1>4, <1>5 DEF WatchIndInv

\* The page closes the EventSource it has.
LEMMA DroppedFacts ==
  ASSUME WatchIndInv, stream' = Dropped, page'.es \notin Streams, clock' = clock
  PROVE  stream' \in [Streams -> WatchHandlers] /\ OneSource'
<1>t. stream \in [Streams -> WatchHandlers] /\ OneSource
  BY WatchTypes
<1>1. ASSUME NEW s \in Streams
      PROVE  /\ stream'[s] \in WatchHandlers /\ ~stream'[s].peer
             /\ stream'[s].pc = stream[s].pc /\ stream'[s].ch = stream[s].ch
             /\ stream'[s].openedAt = stream[s].openedAt
             /\ stream[s].pc = "none" => stream'[s] = stream[s]
  <2>1. CASE s = page.es
    <3>1. stream'[s] = [stream[s] EXCEPT !.peer = FALSE] /\ stream[s].pc # "none"
      BY <1>t, <2>1, NoStreamFacts DEF Dropped, OneSource
    <3> QED BY <1>t, <3>1 DEF WatchHandlers
  <2>2. CASE s # page.es
    BY <1>t, <2>2 DEF Dropped, OneSource
  <2> QED BY <2>1, <2>2
<1>2. stream' \in [Streams -> WatchHandlers]
  BY <1>1 DEF Dropped
<1> QED BY <1>t, <1>1, <1>2 DEF OneSource

\* A handler returns, and the page hears of it if it was its own.
LEMMA ReturnFacts ==
  ASSUME WatchIndInv, NEW s \in Streams, stream' = [stream EXCEPT ![s] = NoStream],
         page'.es = IF page.es = s THEN "none" ELSE page.es, clock' = clock
  PROVE  stream' \in [Streams -> WatchHandlers] /\ OneSource'
<1>t. stream \in [Streams -> WatchHandlers] /\ OneSource /\ clock \in Nat
  BY WatchTypes
<1>1. stream' \in [Streams -> WatchHandlers]
  BY <1>t, NoStreamFacts
<1>2. stream'[s] = NoStream /\ \A r \in Streams \ {s} : stream'[r] = stream[r]
  BY <1>t
<1>3. page'.es # s /\ \A r \in Streams \ {s} : page'.es = r <=> page.es = r
  BY WatchAssumption
<1> QED BY <1>t, <1>1, <1>2, <1>3, NoStreamFacts DEF OneSource

\* A list is as honest after a change as before.
LEMMA ChangeHonest ==
  ASSUME NEW c \in Nat, NEW o \in [Names -> 0..c], NEW d \in [Names -> 0..c], NEW n \in Names,
         NEW v \in {0, c + 1}, NEW snap, NEW t \in Nat, Honest(snap, t, o, d, c)
  PROVE  Honest(snap, t, [o EXCEPT ![n] = v], IF v = 0 THEN [d EXCEPT ![n] = c + 1] ELSE d, c + 1)
<1>1. snap \in [Names -> 0..(c + 1)] /\ t <= c + 1
  <2>1. 0..c \subseteq 0..(c + 1)
    OBVIOUS
  <2> QED BY <2>1 DEF Honest
<1>2. ASSUME NEW m \in Names, snap[m] # 0, [o EXCEPT ![n] = v][m] = 0
      PROVE  t < (IF v = 0 THEN [d EXCEPT ![n] = c + 1] ELSE d)[m]
  <2>1. CASE m = n
    <3>1. v = 0
      BY <1>2, <2>1
    <3>2. (IF v = 0 THEN [d EXCEPT ![n] = c + 1] ELSE d)[m] = c + 1
      BY <2>1, <3>1
    <3> QED BY <3>2 DEF Honest
  <2>2. CASE m # n
    <3>1. o[m] = 0 /\ (IF v = 0 THEN [d EXCEPT ![n] = c + 1] ELSE d)[m] = d[m]
      BY <1>2, <2>2
    <3> QED BY <1>2, <3>1 DEF Honest
  <2> QED BY <2>1, <2>2
<1> QED BY <1>1, <1>2 DEF Honest

\* A stream that is told of a change still ends with the latest of everything.
LEMMA ChangeCaught ==
  ASSUME NEW c \in Nat, NEW o \in [Names -> 0..c], NEW d \in [Names -> 0..c], NEW n \in Names,
         NEW v \in {0, c + 1}, NEW r \in WatchHandlers, NEW p, Caught(r, p, o, d), r.openedAt <= c,
         NEW q \in WatchHandlers, NEW e \in WatchEvents, q.ch = Append(r.ch, e), e.name = n, e.v = v,
         q.openedAt = r.openedAt
  PROVE  Caught(q, p, [o EXCEPT ![n] = v], IF v = 0 THEN [d EXCEPT ![n] = c + 1] ELSE d)
<1> DEFINE o2 == [o EXCEPT ![n] = v]
           d2 == IF v = 0 THEN [d EXCEPT ![n] = c + 1] ELSE d
           k == Len(r.ch)
           K == Len(q.ch)
<1>1. /\ r.ch \in Seq(WatchEvents) /\ k \in Nat /\ K = k + 1 /\ q.ch[k + 1] = e
      /\ \A i \in 1..k : q.ch[i] = r.ch[i]
  BY DEF WatchHandlers
<1>2. \A m \in Names : m # n => o2[m] = o[m] /\ d2[m] = d[m]
  OBVIOUS
<1>3. o2[n] = v
  OBVIOUS
<1> HIDE DEF o2, d2, k, K
<1>4. ASSUME NEW m \in Names
      PROVE  \/ \E i \in 1..K : /\ q.ch[i].name = m /\ q.ch[i].v = o2[m]
                                      /\ \A j \in 1..K : j > i => q.ch[j].name # m
             \/ /\ \A i \in 1..K : q.ch[i].name # m
                /\ p.view[m] = o2[m] \/ (o2[m] = 0 /\ p.base < d2[m] /\ d2[m] <= q.openedAt)
  <2>1. CASE m = n
    <3>1. k + 1 \in 1..K /\ \A j \in 1..K : ~(j > k + 1)
      BY <1>1
    <3>2. q.ch[k + 1].name = m /\ q.ch[k + 1].v = o2[m]
      BY <1>1, <1>3, <2>1
    <3> QED BY <3>1, <3>2
  <2>2. CASE m # n
    <3>1. \/ \E i \in 1..k : /\ r.ch[i].name = m /\ r.ch[i].v = o[m]
                             /\ \A j \in 1..k : j > i => r.ch[j].name # m
          \/ /\ \A i \in 1..k : r.ch[i].name # m
             /\ p.view[m] = o[m] \/ (o[m] = 0 /\ p.base < d[m] /\ d[m] <= r.openedAt)
      BY DEF Caught, k
    <3>2. o2[m] = o[m] /\ d2[m] = d[m] /\ q.ch[k + 1].name # m
      BY <1>1, <1>2, <2>2
    <3>3. \A j \in 1..K : j \in 1..k \/ j = k + 1
      BY <1>1
    <3>4. CASE \E i \in 1..k : /\ r.ch[i].name = m /\ r.ch[i].v = o[m]
                               /\ \A j \in 1..k : j > i => r.ch[j].name # m
      <4>1. PICK i \in 1..k : /\ r.ch[i].name = m /\ r.ch[i].v = o[m]
                              /\ \A j \in 1..k : j > i => r.ch[j].name # m
        BY <3>4
      <4>2. i \in 1..K /\ q.ch[i].name = m /\ q.ch[i].v = o2[m]
        <5>1. i \in 1..K
          BY <1>1
        <5>2. q.ch[i] = r.ch[i]
          BY <1>1
        <5> QED BY <3>2, <4>1, <5>1, <5>2
      <4>3. \A j \in 1..K : j > i => q.ch[j].name # m
        BY <1>1, <3>2, <3>3, <4>1
      <4> QED BY <4>2, <4>3
    <3>5. CASE /\ \A i \in 1..k : r.ch[i].name # m
               /\ p.view[m] = o[m] \/ (o[m] = 0 /\ p.base < d[m] /\ d[m] <= r.openedAt)
      <4>1. \A i \in 1..K : q.ch[i].name # m
        BY <1>1, <3>2, <3>3, <3>5
      <4> QED BY <3>2, <3>5, <4>1
    <3> QED BY <3>1, <3>4, <3>5
  <2> QED BY <2>1, <2>2
<1>6. Caught(q, p, o2, d2)
  BY <1>4 DEF Caught, K
<1> QED BY <1>6 DEF o2, d2

\* A change of a resource keeps the invariant.
LEMMA ChangeInv ==
  ASSUME WatchIndInv, NEW n \in Names, Change(n)
  PROVE  WatchIndInv'
<1>1. PICK v \in {0, clock + 1} :
        /\ v = 0 => objs[n] # 0
        /\ objs' = [objs EXCEPT ![n] = v]
        /\ deletedAt' = IF v = 0 THEN [deletedAt EXCEPT ![n] = clock + 1] ELSE deletedAt
        /\ stream' = [s \in Streams |->
             IF stream[s].pc = "none" \/ stream[s].closed THEN stream[s]
             ELSE [stream[s] EXCEPT !.ch = Append(@, [type |-> watchEventType(v, objs[n]),
                                                      name |-> n, v |-> v])]]
  BY DEF Change
<1>2. clock' = clock + 1 /\ clock' \in 0..MaxChanges /\ UNCHANGED <<phase, page, lists, faults>>
  BY WatchAssumption DEF Change, WatchIndInv, WatchShape
<1>t. /\ clock \in Nat /\ stream \in [Streams -> WatchHandlers] /\ OneSource
      /\ objs \in [Names -> 0..clock] /\ deletedAt \in [Names -> 0..clock]
      /\ page.view \in [Names -> 0..clock] /\ page.base \in 0..clock
      /\ lists \in Seq(ListAnswers)
  BY WatchTypes
<1> DEFINE e == [type |-> watchEventType(v, objs[n]), name |-> n, v |-> v]
<1>3. e \in WatchEvents /\ e.name = n /\ e.v = v /\ v <= clock' /\ v \in Nat
  BY <1>2, <1>t DEF WatchEvents, watchEventType
<1>4. \A s \in Streams : stream'[s] = IF stream[s].pc = "none" \/ stream[s].closed THEN stream[s]
                                      ELSE [stream[s] EXCEPT !.ch = Append(@, e)]
  BY <1>1
<1> HIDE DEF e
<1>5. ASSUME NEW s \in Streams, ~(stream[s].pc = "none" \/ stream[s].closed)
      PROVE  /\ stream'[s] \in WatchHandlers /\ stream'[s].ch = Append(stream[s].ch, e)
             /\ stream'[s].pc = stream[s].pc /\ stream'[s].peer = stream[s].peer
             /\ stream'[s].openedAt = stream[s].openedAt /\ stream'[s].closed = stream[s].closed
  <2>1. stream[s].ch \in Seq(WatchEvents) /\ Append(stream[s].ch, e) \in Seq(WatchEvents)
    BY <1>t, <1>3 DEF WatchHandlers
  <2>2. stream'[s] = [stream[s] EXCEPT !.ch = Append(stream[s].ch, e)]
    BY <1>4, <1>5, <1>t DEF WatchHandlers
  <2> QED BY <1>t, <2>1, <2>2 DEF WatchHandlers
<1>6. WatchShape'
  <2>1. 0..clock \subseteq 0..clock' /\ v \in 0..clock' /\ clock + 1 \in 0..clock'
    BY <1>2, <1>3, <1>t
  <2>2. objs' \in [Names -> 0..clock'] /\ deletedAt' \in [Names -> 0..clock']
    BY <1>1, <1>t, <2>1
  <2>3. page.view \in [Names -> 0..clock'] /\ page.base \in 0..clock'
    BY <1>t, <2>1
  <2>4. stream' \in [Streams -> WatchHandlers]
    <3>1. \A s \in Streams : stream'[s] \in WatchHandlers
      BY <1>4, <1>5, <1>t
    <3> QED BY <1>1, <3>1
  <2> QED BY <1>2, <2>2, <2>3, <2>4 DEF WatchIndInv, WatchShape
<1>7. OneSource'
  <2> SUFFICES ASSUME NEW s \in Streams
               PROVE  /\ stream'[s].peer <=> page.es = s
                      /\ stream'[s].pc = "none" => stream'[s] = NoStream
                      /\ \A i \in 1..Len(stream'[s].ch) : stream'[s].ch[i].v <= clock'
                      /\ stream'[s].openedAt <= clock'
    BY <1>2 DEF OneSource
  <2>1. /\ stream[s] \in WatchHandlers /\ stream[s].ch \in Seq(WatchEvents) 
        /\ stream[s].openedAt \in Nat
    BY <1>t DEF WatchHandlers
  <2>2. /\ stream[s].peer <=> page.es = s
        /\ stream[s].pc = "none" => stream[s] = NoStream
        /\ \A i \in 1..Len(stream[s].ch) : stream[s].ch[i].v <= clock
        /\ stream[s].openedAt <= clock
    BY <1>t DEF OneSource
  <2>3. \A i \in 1..Len(stream[s].ch) : stream[s].ch[i].v \in Nat
    <3>1. \A x \in WatchEvents : x.v \in Nat
      BY DEF WatchEvents
    <3> QED BY <2>1, <3>1
  <2>4. \A i \in 1..Len(stream[s].ch) : stream[s].ch[i].v <= clock'
    BY <1>2, <1>t, <2>2, <2>3
  <2>5. stream[s].openedAt <= clock'
    BY <1>2, <1>t, <2>1, <2>2
  <2>6. CASE stream[s].pc = "none" \/ stream[s].closed
    BY <1>4, <2>2, <2>4, <2>5, <2>6
  <2>7. CASE ~(stream[s].pc = "none" \/ stream[s].closed)
    <3>1. \A i \in 1..Len(Append(stream[s].ch, e)) :
            Append(stream[s].ch, e)[i] = e \/ (i \in 1..Len(stream[s].ch)
                                               /\ Append(stream[s].ch, e)[i] = stream[s].ch[i])
      BY <1>3, <2>1
    <3>2. \A i \in 1..Len(stream'[s].ch) : stream'[s].ch[i].v <= clock'
      BY <1>3, <1>5, <2>4, <2>7, <3>1
    <3> QED BY <1>5, <2>2, <2>5, <2>7, <3>2
  <2> QED BY <2>6, <2>7
<1>8. ASSUME NEW snap, NEW t \in Nat, Honest(snap, t, objs, deletedAt, clock)
      PROVE  Honest(snap, t, objs', deletedAt', clock')
  BY <1>1, <1>2, <1>t, <1>8, ChangeHonest
<1>9. \A i \in 1..Len(lists) : Honest(lists[i].snap, lists[i].at, objs', deletedAt', clock')
  <2>1. \A i \in 1..Len(lists) : lists[i].at \in Nat
    <3>1. \A i \in 1..Len(lists) : lists[i] \in ListAnswers
      BY <1>t
    <3> QED BY <3>1 DEF ListAnswers
  <2> QED BY <1>8, <2>1 DEF WatchIndInv
<1>10. page.es = "connecting" => Honest(page.view, page.base, objs', deletedAt', clock')
  BY <1>8, <1>t DEF WatchIndInv
<1>11. ASSUME NEW s \in Streams, page.es = s, ~stream'[s].closed
       PROVE  Caught(stream'[s], page, objs', deletedAt')
  <2>1. stream[s].pc # "none"
    BY <1>t, <1>11, NoStreamFacts DEF OneSource
  <2>2. ~stream[s].closed
    BY <1>4, <1>11, <2>1
  <2>3. Caught(stream[s], page, objs, deletedAt) /\ stream[s].openedAt <= clock
    BY <1>11, <1>t, <2>2 DEF WatchIndInv, OneSource
  <2>4. stream[s] \in WatchHandlers
    BY <1>t
  <2>5. /\ stream'[s] \in WatchHandlers /\ stream'[s].ch = Append(stream[s].ch, e)
        /\ stream'[s].openedAt = stream[s].openedAt
    BY <1>5, <2>1, <2>2
  <2>6. Caught(stream'[s], page, [objs EXCEPT ![n] = v],
               IF v = 0 THEN [deletedAt EXCEPT ![n] = clock + 1] ELSE deletedAt)
    BY <1>3, <1>t, <2>3, <2>4, <2>5, ChangeCaught
  <2> QED BY <1>1, <2>6
<1> QED BY <1>2, <1>6, <1>7, <1>9, <1>10, <1>11 DEF WatchIndInv

\* A watch that is opened keeps the invariant: it starts with every resource there is.
LEMMA ServeWatchInv ==
  ASSUME WatchIndInv, NEW s \in Streams, ServeWatch(s)
  PROVE  WatchIndInv'
<1>1. /\ page.es = "connecting" /\ stream[s].pc = "none"
      /\ stream' = [stream EXCEPT ![s] = [NoStream EXCEPT !.pc = "open", !.peer = TRUE,
                                                          !.ch = Existing, !.openedAt = clock]]
      /\ page' = [page EXCEPT !.es = s]
      /\ UNCHANGED <<objs, clock, deletedAt, phase, lists, faults>>
  BY DEF ServeWatch
<1>t. /\ clock \in Nat /\ stream \in [Streams -> WatchHandlers] /\ OneSource /\ page \in Pages
      /\ objs \in [Names -> 0..clock] /\ deletedAt \in [Names -> 0..clock]
      /\ page.view \in [Names -> 0..clock] /\ page.base \in 0..clock
      /\ Budget(page, Len(lists), faults)
  BY WatchTypes
<1>n. "none" \notin Streams /\ "connecting" \notin Streams
  BY WatchAssumption
<1>e. /\ Existing \in Seq(WatchEvents)
      /\ \A i \in 1..Len(Existing) : /\ Existing[i].name \in Names
                                     /\ Existing[i].v = objs[Existing[i].name]
                                     /\ Existing[i].v # 0
      /\ \A n \in Names : objs[n] # 0 => \E i \in 1..Len(Existing) : Existing[i].name = n
      /\ \A i, j \in 1..Len(Existing) : Existing[i].name = Existing[j].name => i = j
  BY <1>t, ExistingFacts
<1>u. \A r \in Streams : ~stream[r].peer
  BY <1>1, <1>n, <1>t DEF OneSource
<1>2. /\ page' \in Pages /\ page'.es = s /\ page'.view = page.view /\ page'.base = page.base
      /\ page'.timer = page.timer /\ page'.leaked = page.leaked /\ page'.scope = page.scope
  BY <1>1, <1>t DEF Pages
<1>3. /\ stream'[s] = [pc |-> "open", ch |-> Existing, closed |-> FALSE, peer |-> TRUE,
                       openedAt |-> clock]
      /\ \A r \in Streams \ {s} : stream'[r] = stream[r]
  BY <1>1, <1>t DEF NoStream
<1>4. stream' \in [Streams -> WatchHandlers]
  <2>1. stream'[s] \in WatchHandlers
    BY <1>3, <1>e, <1>t DEF WatchHandlers
  <2> QED BY <1>1, <1>3, <1>t, <2>1
<1>5. WatchShape'
  BY <1>1, <1>2, <1>4 DEF WatchIndInv, WatchShape
<1>6. OneSource'
  <2> SUFFICES ASSUME NEW r \in Streams
               PROVE  /\ stream'[r].peer <=> page'.es = r
                      /\ stream'[r].pc = "none" => stream'[r] = NoStream
                      /\ \A i \in 1..Len(stream'[r].ch) : stream'[r].ch[i].v <= clock
                      /\ stream'[r].openedAt <= clock
    BY <1>1 DEF OneSource
  <2>1. CASE r = s
    <3>1. \A n \in Names : objs[n] <= clock
      BY <1>t
    <3>2. \A i \in 1..Len(Existing) : Existing[i].v <= clock
      BY <1>e, <3>1
    <3> QED BY <1>2, <1>3, <1>t, <2>1, <3>2
  <2>2. CASE r # s
    BY <1>2, <1>3, <1>t, <1>u, <2>2 DEF OneSource
  <2> QED BY <2>1, <2>2
<1>7. Budget(page', Len(lists'), faults')
  BY <1>1, <1>2, <1>n, <1>t DEF Budget, Tokens
<1>8. Caught(stream'[s], page', objs, deletedAt)
  <2>1. stream'[s].ch = Existing /\ stream'[s].openedAt = clock
    BY <1>3
  <2>2. ASSUME NEW n \in Names, objs[n] # 0
        PROVE  \E i \in 1..Len(Existing) :
                 /\ Existing[i].name = n /\ Existing[i].v = objs[n]
                 /\ \A j \in 1..Len(Existing) : j > i => Existing[j].name # n
    <3>1. PICK i \in 1..Len(Existing) : Existing[i].name = n
      BY <1>e, <2>2
    <3>2. \A j \in 1..Len(Existing) : j > i => Existing[j].name # n
      BY <1>e, <3>1
    <3> QED BY <1>e, <3>1, <3>2
  <2>3. ASSUME NEW n \in Names, objs[n] = 0
        PROVE  /\ \A i \in 1..Len(Existing) : Existing[i].name # n
               /\ \/ page.view[n] = objs[n]
                  \/ objs[n] = 0 /\ page.base < deletedAt[n] /\ deletedAt[n] <= clock
    <3>1. \A i \in 1..Len(Existing) : Existing[i].name # n
      BY <1>e, <2>3
    <3>2. Honest(page.view, page.base, objs, deletedAt, clock)
      BY <1>1 DEF WatchIndInv
    <3>3. page.view[n] # 0 => page.base < deletedAt[n]
      BY <2>3, <3>2 DEF Honest
    <3>4. deletedAt[n] <= clock
      BY <1>t
    <3> QED BY <2>3, <3>1, <3>3, <3>4
  <2> QED BY <1>2, <2>1, <2>2, <2>3 DEF Caught
<1>9. \A r \in Streams : page'.es = r /\ ~stream'[r].closed => Caught(stream'[r], page', objs, deletedAt)
  BY <1>2, <1>8
<1>10. page'.es # "connecting"
  BY <1>2, <1>n
<1> QED BY <1>1, <1>5, <1>6, <1>7, <1>9, <1>10 DEF WatchIndInv

\* What a stream has to deliver after its next event.
LEMMA DeliveredCaught ==
  ASSUME NEW r \in WatchHandlers, r.ch # <<>>, NEW q \in WatchHandlers, q.ch = Tail(r.ch),
         q.openedAt = r.openedAt, NEW p, NEW o, NEW d, Caught(r, p, o, d),
         NEW u, u.base = p.base,
         \A n \in Names : u.view[n] = IF Head(r.ch).name = n THEN Head(r.ch).v ELSE p.view[n]
  PROVE  Caught(q, u, o, d)
<1> DEFINE k == Len(r.ch)
           K == Len(q.ch)
<1>1. /\ r.ch \in Seq(WatchEvents) /\ k \in Nat /\ k > 0 /\ K = k - 1 /\ Head(r.ch) = r.ch[1]
      /\ \A i \in 1..K : q.ch[i] = r.ch[i + 1]
  BY DEF WatchHandlers
<1> HIDE DEF k, K
<1>3. \A j \in 1..K : j + 1 \in 1..k /\ j + 1 > 1 /\ j \in Int
  BY <1>1
<1>2. ASSUME NEW m \in Names
      PROVE  \/ \E i \in 1..K : /\ q.ch[i].name = m /\ q.ch[i].v = o[m]
                                /\ \A j \in 1..K : j > i => q.ch[j].name # m
             \/ /\ \A i \in 1..K : q.ch[i].name # m
                /\ u.view[m] = o[m] \/ (o[m] = 0 /\ u.base < d[m] /\ d[m] <= q.openedAt)
  <2>1. \/ \E i \in 1..k : /\ r.ch[i].name = m /\ r.ch[i].v = o[m]
                           /\ \A j \in 1..k : j > i => r.ch[j].name # m
        \/ /\ \A i \in 1..k : r.ch[i].name # m
           /\ p.view[m] = o[m] \/ (o[m] = 0 /\ p.base < d[m] /\ d[m] <= r.openedAt)
    BY DEF Caught, k
  <2>2. CASE \E i \in 1..k : /\ r.ch[i].name = m /\ r.ch[i].v = o[m]
                             /\ \A j \in 1..k : j > i => r.ch[j].name # m
    <3>1. PICK i \in 1..k : /\ r.ch[i].name = m /\ r.ch[i].v = o[m]
                            /\ \A j \in 1..k : j > i => r.ch[j].name # m
      BY <2>2
    <3>2. CASE i = 1
      <4>1. \A j \in 1..K : q.ch[j].name # m
        <5> SUFFICES ASSUME NEW j \in 1..K PROVE r.ch[j + 1].name # m
          BY <1>1
        <5> QED BY <1>3, <3>1, <3>2
      <4>2. u.view[m] = o[m]
        BY <1>1, <3>1, <3>2
      <4> QED BY <4>1, <4>2
    <3>3. CASE i # 1
      <4>1. i - 1 \in 1..K /\ q.ch[i - 1] = r.ch[i]
        <5>1. i - 1 \in 1..K /\ (i - 1) + 1 = i
          BY <1>1, <3>3
        <5> QED BY <1>1, <5>1
      <4>2. \A j \in 1..K : j > i - 1 => q.ch[j].name # m
        <5> SUFFICES ASSUME NEW j \in 1..K, j > i - 1 PROVE r.ch[j + 1].name # m
          BY <1>1
        <5>1. j + 1 \in 1..k /\ j + 1 > i
          BY <1>1, <1>3
        <5> QED BY <3>1, <5>1
      <4> QED BY <3>1, <4>1, <4>2
    <3> QED BY <3>2, <3>3
  <2>3. CASE /\ \A i \in 1..k : r.ch[i].name # m
             /\ p.view[m] = o[m] \/ (o[m] = 0 /\ p.base < d[m] /\ d[m] <= r.openedAt)
    <3>1. \A i \in 1..K : q.ch[i].name # m
      <4> SUFFICES ASSUME NEW i \in 1..K PROVE r.ch[i + 1].name # m
        BY <1>1
      <4> QED BY <1>3, <2>3
    <3>2. 1 \in 1..k
      BY <1>1
    <3>3. Head(r.ch).name # m
      BY <1>1, <2>3, <3>2
    <3>4. u.view[m] = p.view[m]
      BY <3>3
    <3> QED BY <2>3, <3>1, <3>4
  <2> QED BY <2>1, <2>2, <2>3
<1> QED BY <1>2 DEF Caught, K

\* An event that is written keeps the invariant.
LEMMA StreamEventInv ==
  ASSUME WatchIndInv, NEW s \in Streams, StreamEvent(s)
  PROVE  WatchIndInv'
<1>1. /\ stream[s].pc = "open" /\ stream[s].ch # <<>>
      /\ stream' = [stream EXCEPT ![s].ch = Tail(@)]
      /\ page' = IF stream[s].peer THEN [page EXCEPT !.view = MergeEvent(@, Head(stream[s].ch))]
                                   ELSE page
      /\ UNCHANGED <<objs, clock, deletedAt, phase, lists, faults>>
  BY DEF StreamEvent
<1>t. /\ clock \in Nat /\ stream \in [Streams -> WatchHandlers] /\ OneSource /\ page \in Pages
      /\ page.view \in [Names -> 0..clock] /\ page.base \in 0..clock
      /\ Budget(page, Len(lists), faults) /\ stream[s] \in WatchHandlers
      /\ page.es \in Streams \cup {"none", "connecting"}
  BY WatchTypes
<1>2. /\ stream[s].ch \in Seq(WatchEvents) /\ Len(stream[s].ch) \in Nat /\ Len(stream[s].ch) > 0
      /\ Head(stream[s].ch) = stream[s].ch[1] /\ Head(stream[s].ch) \in WatchEvents
      /\ Tail(stream[s].ch) \in Seq(WatchEvents)
      /\ Len(Tail(stream[s].ch)) = Len(stream[s].ch) - 1
      /\ \A i \in 1..Len(Tail(stream[s].ch)) : Tail(stream[s].ch)[i] = stream[s].ch[i + 1]
  BY <1>1, <1>t DEF WatchHandlers
<1> DEFINE e == Head(stream[s].ch)
<1>3. \A i \in 1..Len(stream[s].ch) : stream[s].ch[i].v <= clock
  BY <1>t DEF OneSource
<1>4. e.v <= clock
  BY <1>2, <1>3
<1>5. /\ MergeEvent(page.view, e) \in [Names -> 0..clock]
      /\ \A n \in Names : MergeEvent(page.view, e)[n] = IF e.name = n THEN e.v ELSE page.view[n]
  BY <1>2, <1>4, <1>t, MergeFacts
<1>6. /\ stream'[s] \in WatchHandlers /\ stream'[s].ch = Tail(stream[s].ch)
      /\ stream'[s].pc = stream[s].pc /\ stream'[s].peer = stream[s].peer
      /\ stream'[s].openedAt = stream[s].openedAt /\ stream'[s].closed = stream[s].closed
      /\ \A r \in Streams \ {s} : stream'[r] = stream[r]
  <2>1. stream'[s] = [stream[s] EXCEPT !.ch = Tail(stream[s].ch)]
        /\ \A r \in Streams \ {s} : stream'[r] = stream[r]
    BY <1>1, <1>t
  <2> QED BY <1>2, <1>t, <2>1 DEF WatchHandlers
<1>7. /\ page' \in Pages /\ page'.es = page.es /\ page'.base = page.base
      /\ page'.timer = page.timer /\ page'.leaked = page.leaked /\ page'.scope = page.scope
      /\ page'.view = IF page.es = s THEN MergeEvent(page.view, e) ELSE page.view
  <2>1. stream[s].peer <=> page.es = s
    BY <1>t DEF OneSource
  <2>2. MergeEvent(page.view, e) \in [Names -> Nat]
    BY <1>5, <1>t
  <2>3. CASE page.es = s
    <3>1. page' = [page EXCEPT !.view = MergeEvent(page.view, e)]
      BY <1>1, <1>t, <2>1, <2>3 DEF Pages
    <3> QED BY <1>t, <2>2, <2>3, <3>1 DEF Pages
  <2>4. CASE page.es # s
    BY <1>1, <1>t, <2>1, <2>4
  <2> QED BY <2>3, <2>4
<1>8. WatchShape'
  <2>1. stream' \in [Streams -> WatchHandlers]
    BY <1>1, <1>6, <1>t
  <2>2. page'.view \in [Names -> 0..clock]
    BY <1>5, <1>7, <1>t
  <2> QED BY <1>1, <1>7, <2>1, <2>2 DEF WatchIndInv, WatchShape
<1>9. OneSource'
  <2> SUFFICES ASSUME NEW r \in Streams
               PROVE  /\ stream'[r].peer <=> page'.es = r
                      /\ stream'[r].pc = "none" => stream'[r] = NoStream
                      /\ \A i \in 1..Len(stream'[r].ch) : stream'[r].ch[i].v <= clock
                      /\ stream'[r].openedAt <= clock
    BY <1>1 DEF OneSource
  <2>1. CASE r # s
    BY <1>6, <1>7, <1>t, <2>1 DEF OneSource
  <2>2. CASE r = s
    <3>1. \A i \in 1..Len(stream'[s].ch) : stream'[s].ch[i].v <= clock
      BY <1>2, <1>3, <1>6
    <3> QED BY <1>1, <1>6, <1>7, <1>t, <2>2, <3>1 DEF OneSource
  <2> QED BY <2>1, <2>2
<1>10. Budget(page', Len(lists'), faults')
  BY <1>1, <1>7, <1>t DEF Budget, Tokens
<1>11. page'.es = "connecting" => Honest(page'.view, page'.base, objs, deletedAt, clock)
  BY <1>7, WatchAssumption DEF WatchIndInv
<1>12. ASSUME NEW r \in Streams, page'.es = r, ~stream'[r].closed
       PROVE  Caught(stream'[r], page', objs, deletedAt)
  <2>1. CASE r = s
    <3>1. page.es = s /\ ~stream[s].closed
      BY <1>6, <1>7, <1>12, <2>1
    <3>2. Caught(stream[s], page, objs, deletedAt)
      BY <3>1 DEF WatchIndInv
    <3>3. \A n \in Names : page'.view[n] = IF e.name = n THEN e.v ELSE page.view[n]
      BY <1>5, <1>7, <3>1
    <3>4. /\ stream[s] \in WatchHandlers /\ stream'[s] \in WatchHandlers /\ stream[s].ch # <<>>
          /\ stream'[s].ch = Tail(stream[s].ch) /\ stream'[s].openedAt = stream[s].openedAt
          /\ page'.base = page.base
      BY <1>1, <1>6, <1>7, <1>t
    <3>5. Caught(stream'[s], page', objs, deletedAt)
      BY <3>2, <3>3, <3>4, DeliveredCaught
    <3> QED BY <2>1, <3>5
  <2>2. CASE r # s
    <3>1. page.es = r /\ stream'[r] = stream[r] /\ page'.view = page.view
      BY <1>6, <1>7, <1>12, <2>2
    <3>2. Caught(stream[r], page, objs, deletedAt)
      BY <1>12, <3>1 DEF WatchIndInv
    <3> QED BY <1>7, <3>1, <3>2 DEF Caught
  <2> QED BY <2>1, <2>2
<1> QED BY <1>1, <1>8, <1>9, <1>10, <1>11, <1>12 DEF WatchIndInv

\* A list that comes back keeps the invariant: it is the view the next watch starts from.
LEMMA ListReturnsInv ==
  ASSUME WatchIndInv, NEW i \in 1..Len(lists), ListReturns(i)
  PROVE  WatchIndInv'
<1>1. /\ lists' = RemoveAt(lists, i) /\ stream' = Dropped
      /\ page' = [page EXCEPT !.view = lists[i].snap, !.base = lists[i].at, !.es = "connecting",
                              !.timer = FALSE]
      /\ UNCHANGED <<objs, clock, deletedAt, phase, faults>>
  BY DEF ListReturns
<1>t. /\ clock \in Nat /\ page \in Pages /\ lists \in Seq(ListAnswers) /\ Len(lists) <= 2
      /\ Len(lists) \in Nat /\ Budget(page, Len(lists), faults) /\ faults \in Nat
      /\ \A j \in 1..Len(lists) : Honest(lists[j].snap, lists[j].at, objs, deletedAt, clock)
  BY WatchTypes
<1>2. lists[i] \in ListAnswers /\ Honest(lists[i].snap, lists[i].at, objs, deletedAt, clock)
  BY <1>t
<1>3. lists[i].snap \in [Names -> Nat] /\ lists[i].at \in Nat /\ lists[i].at \in 0..clock
      /\ lists[i].snap \in [Names -> 0..clock]
  BY <1>2, <1>t DEF ListAnswers, Honest
<1>4. /\ page' \in Pages /\ page'.view = lists[i].snap /\ page'.base = lists[i].at
      /\ page'.es = "connecting" /\ ~page'.timer /\ page'.leaked = page.leaked
      /\ page'.scope = page.scope
  <2> DEFINE w == lists[i].snap
             b == lists[i].at
  <2>1. page' = [page EXCEPT !.view = w, !.base = b, !.es = "connecting", !.timer = FALSE]
        /\ w \in [Names -> Nat] /\ b \in Nat
    BY <1>1, <1>3
  <2> HIDE DEF w, b
  <2>2. /\ page' \in Pages /\ page'.view = w /\ page'.base = b
        /\ page'.es = "connecting" /\ ~page'.timer /\ page'.leaked = page.leaked
        /\ page'.scope = page.scope
    BY <1>t, <2>1 DEF Pages
  <2> QED BY <2>2 DEF w, b
<1>5. stream' \in [Streams -> WatchHandlers] /\ OneSource'
  BY <1>1, <1>4, DroppedFacts, WatchAssumption
<1>6. /\ lists' \in Seq(ListAnswers) /\ Len(lists') = Len(lists) - 1 /\ Len(lists') <= 2
      /\ \A j \in 1..Len(lists') : \E m \in 1..Len(lists) : lists'[j] = lists[m]
  <2> DEFINE r == RemoveAt(lists, i)
  <2>1. /\ r \in Seq(ListAnswers) /\ Len(r) = Len(lists) - 1
        /\ \A j \in 1..Len(r) : \E m \in 1..Len(lists) : r[j] = lists[m]
    BY <1>t, RemoveFacts
  <2>2. lists' = r
    BY <1>1
  <2> HIDE DEF r
  <2> QED BY <1>t, <2>1, <2>2
<1>7. WatchShape'
  BY <1>1, <1>3, <1>4, <1>5, <1>6 DEF WatchIndInv, WatchShape
<1>8. Budget(page', Len(lists'), faults')
  <2> DEFINE a == IF page.timer THEN 1 ELSE 0
             b == IF page.es # "none" THEN 1 ELSE 0
             n == Len(lists)
  <2>1. page.leaked \in Nat /\ a \in Nat /\ b \in Nat /\ n \in Nat /\ n >= 1
    BY <1>t DEF Pages
  <2>2. /\ page.scope = "new" => page.leaked + n + a + b = 0
        /\ page.scope = "mounted" => page.leaked + n + a + b <= faults + 1
        /\ page.scope = "disposed" => page.leaked + n + a + b <= faults
    BY <1>t DEF Budget, Tokens
  <2>3. Len(lists') = n - 1
    BY <1>6
  <2> HIDE DEF a, b, n
  <2>4. /\ page.scope # "new"
        /\ page.scope = "mounted" => page.leaked + (n - 1) + 1 <= faults + 1
        /\ page.scope = "disposed" => page.leaked + (n - 1) + 1 <= faults
    BY <1>t, <2>1, <2>2
  <2>5. Tokens(page', n - 1) = page.leaked + (n - 1) + 1
    BY <1>4, <2>1 DEF Tokens
  <2> QED BY <1>1, <1>4, <2>3, <2>4, <2>5 DEF Budget
<1>9. \A j \in 1..Len(lists') : Honest(lists'[j].snap, lists'[j].at, objs, deletedAt, clock)
  BY <1>6, <1>t
<1>10. \A s \in Streams : page'.es # s
  BY <1>4, WatchAssumption
<1> QED BY <1>1, <1>2, <1>4, <1>5, <1>7, <1>8, <1>9, <1>10 DEF WatchIndInv

\* A list that is sent keeps the invariant: start closes what there is first.
LEMMA ListSentInv ==
  ASSUME WatchIndInv, NEW p \in Pages, ListSent(p), p.view = page.view, p.base = page.base,
         p.scope = page.scope, p.scope # "new", faults' \in 0..MaxFaults,
         \/ p.leaked = page.leaked /\ p.timer = page.timer /\ faults' = faults /\ page.timer
         \/ p.leaked = page.leaked /\ p.timer = page.timer /\ faults' = faults + 1
            /\ p.scope = "mounted"
         \/ p.leaked = page.leaked - 1 /\ p.timer = page.timer /\ faults' = faults
  PROVE  WatchIndInv'
<1>1. stream' = Dropped /\ UNCHANGED <<objs, clock, deletedAt, phase>>
  BY DEF ListSent
<1>t. /\ clock \in Nat /\ page \in Pages /\ lists \in Seq(ListAnswers) /\ Len(lists) <= 2
      /\ Len(lists) \in Nat /\ Budget(page, Len(lists), faults) /\ faults \in Nat
      /\ objs \in [Names -> 0..clock]
      /\ \A j \in 1..Len(lists) : Honest(lists[j].snap, lists[j].at, objs, deletedAt, clock)
      /\ page.es \in Streams \cup {"none", "connecting"}
  BY WatchTypes
<1>b. page.leaked \in Nat /\ p.leaked \in Nat /\ page.timer \in BOOLEAN /\ phase \in Phases
      /\ page.scope \in {"mounted", "disposed"}
  BY <1>t DEF Pages, WatchIndInv, WatchShape
<1>k. Budget(Stopped(p), Len(lists) + 1, faults')
  <2>1. /\ Stopped(p).es = "none" /\ ~Stopped(p).timer /\ Stopped(p).leaked = p.leaked
        /\ Stopped(p).scope = page.scope
    BY PageFacts
  <2> DEFINE n == Len(lists)
             u == IF page.es # "none" THEN 1 ELSE 0
  <2>2. n \in Nat /\ u \in 0..1 /\ faults \in Nat /\ n + 1 > 0
    BY <1>t
  <2>3. /\ page.scope = "mounted" =>
             page.leaked + n + (IF page.timer THEN 1 ELSE 0) + u <= faults + 1
        /\ page.scope = "disposed" =>
             page.leaked + n + (IF page.timer THEN 1 ELSE 0) + u <= faults
    BY <1>t DEF Budget, Tokens
  <2> HIDE DEF n, u
  <2>4. /\ page.scope = "mounted" => p.leaked + (n + 1) <= faults' + 1
        /\ page.scope = "disposed" => p.leaked + (n + 1) <= faults'
    <3>1. CASE p.leaked = page.leaked /\ faults' = faults /\ page.timer
      BY <1>b, <2>2, <2>3, <3>1
    <3>2. CASE p.leaked = page.leaked /\ faults' = faults + 1 /\ p.scope = "mounted"
      BY <1>b, <2>2, <2>3, <3>2
    <3>3. CASE p.leaked = page.leaked - 1 /\ faults' = faults
      BY <1>b, <2>2, <2>3, <3>3
    <3> QED BY <3>1, <3>2, <3>3
  <2>5. faults' \in Nat
    BY WatchAssumption
  <2>6. Budget(Stopped(p), n + 1, faults')
    BY <1>b, <2>1, <2>2, <2>4, <2>5 DEF Budget, Tokens
  <2> QED BY <2>6 DEF n
<1>2. CASE phase = "serving"
  <2> DEFINE a == [snap |-> objs, at |-> clock]
  <2>1. Len(lists) < 2 /\ lists' = Append(lists, a) /\ page' = Stopped(p)
    BY <1>2 DEF ListSent
  <2>2. a \in ListAnswers /\ a.snap = objs /\ a.at = clock
    <3>1. objs \in [Names -> Nat]
      BY <1>t
    <3> QED BY <1>t, <3>1 DEF ListAnswers
  <2>3. Honest(a.snap, a.at, objs, deletedAt, clock)
    BY <1>t, <2>2 DEF Honest
  <2> HIDE DEF a
  <2>4. /\ lists' \in Seq(ListAnswers) /\ Len(lists') = Len(lists) + 1 /\ Len(lists') <= 2
        /\ \A j \in 1..Len(lists') : lists'[j] = a \/ (j \in 1..Len(lists) /\ lists'[j] = lists[j])
    BY <1>t, <2>1, <2>2
  <2>5. \A j \in 1..Len(lists') : Honest(lists'[j].snap, lists'[j].at, objs, deletedAt, clock)
    BY <1>t, <2>3, <2>4
  <2>6. page' \in Pages /\ page'.view = page.view /\ page'.base = page.base /\ page'.es = "none"
    BY <2>1, PageFacts
  <2>7. Budget(page', Len(lists'), faults')
    BY <1>k, <2>1, <2>4
  <2>8. stream' \in [Streams -> WatchHandlers] /\ OneSource'
    BY <1>1, <2>6, DroppedFacts, WatchAssumption
  <2> QED BY <1>1, <1>b, <2>4, <2>5, <2>6, <2>7, <2>8, SameCluster, WatchAssumption
<1>3. CASE phase # "serving"
  <2>1. lists' = lists /\ page' = ScheduleReconnect(Stopped(p))
    BY <1>3 DEF ListSent
  <2>2. Stopped(p) \in Pages /\ Stopped(p).es = "none" /\ Stopped(p).view = page.view
        /\ Stopped(p).base = page.base
    BY PageFacts
  <2>3. page' \in Pages /\ page'.view = page.view /\ page'.base = page.base /\ page'.es = "none"
    BY <2>1, <2>2, PageFacts
  <2>4. Budget(page', Len(lists'), faults')
    <3>1. faults' \in Nat
      BY WatchAssumption
    <3> QED BY <1>k, <1>t, <2>1, <2>2, <3>1, BudgetFacts
  <2>5. stream' \in [Streams -> WatchHandlers] /\ OneSource'
    BY <1>1, <2>3, DroppedFacts, WatchAssumption
  <2> QED BY <1>1, <1>b, <1>t, <2>1, <2>3, <2>4, <2>5, SameCluster, WatchAssumption
<1> QED BY <1>2, <1>3

\* A fault is counted, and the bound holds.
LEMMA FaultFacts ==
  ASSUME WatchIndInv, Fault
  PROVE  faults' = faults + 1 /\ faults' \in 0..MaxFaults /\ faults' \in Nat
         /\ Budget(page, Len(lists), faults')
<1>t. page \in Pages /\ Len(lists) \in Nat /\ faults \in Nat /\ Budget(page, Len(lists), faults)
  BY WatchTypes
<1>1. faults' = faults + 1 /\ faults' \in 0..MaxFaults
  BY <1>t, WatchAssumption DEF Fault
<1> QED BY <1>1, <1>t, BudgetFacts

\* Whatever makes a handler return, its live peer hears an error and the others stay.
LEMMA HandlerReturns ==
  ASSUME WatchIndInv, NEW s \in Streams, StreamClosed(s) \/ WriteFails(s) \/ ContextDone(s)
  PROVE  WatchIndInv'
<1>t. /\ clock \in Nat /\ stream \in [Streams -> WatchHandlers] /\ OneSource /\ page \in Pages
      /\ Len(lists) \in Nat /\ faults \in Nat /\ lists \in Seq(ListAnswers) /\ Len(lists) <= 2
      /\ \A i \in 1..Len(lists) : Honest(lists[i].snap, lists[i].at, objs, deletedAt, clock)
      /\ Budget(page, Len(lists), faults)
  BY WatchTypes
<1>1. /\ stream' = [stream EXCEPT ![s] = NoStream] /\ UNCHANGED <<objs, clock, deletedAt, phase, lists>>
      /\ page' = IF stream[s].peer THEN OnError(page) ELSE page
  BY DEF StreamClosed, WriteFails, ContextDone, Return, Hears
<1>2. /\ faults' \in 0..MaxFaults /\ faults' \in Nat /\ Budget(page, Len(lists), faults')
  <2>1. CASE faults' = faults
    BY <1>t, <2>1 DEF WatchIndInv, WatchShape
  <2>2. CASE Fault
    BY <2>2, FaultFacts
  <2> QED BY <2>1, <2>2 DEF StreamClosed, WriteFails, ContextDone
<1>3. stream[s].peer <=> page.es = s
  BY <1>t DEF OneSource
<1>4. /\ page' \in Pages /\ page'.view = page.view /\ page'.base = page.base
      /\ page'.es = IF page.es = s THEN "none" ELSE page.es
  BY <1>1, <1>3, <1>t, PageFacts
<1>5. Budget(page', Len(lists), faults')
  BY <1>1, <1>2, <1>3, <1>t, BudgetFacts, WatchAssumption
<1>6. stream' \in [Streams -> WatchHandlers] /\ OneSource'
  BY <1>1, <1>4, ReturnFacts
<1>7. phase' \in Phases
  BY <1>1 DEF WatchIndInv, WatchShape
<1>8. \A r \in Streams : page'.es = r => stream'[r] = stream[r]
  BY <1>1, <1>4, <1>t, WatchAssumption
<1>9. page'.es \in {page.es, "none"} /\ lists' = lists
  BY <1>1, <1>4
<1> QED BY <1>1, <1>2, <1>4, <1>5, <1>6, <1>7, <1>8, <1>9, <1>t, SameCluster

\* A watch that is not opened is heard as an error.
LEMMA NotOpened ==
  ASSUME WatchIndInv, RefuseWatch \/ NoServer
  PROVE  WatchIndInv'
<1>t. /\ clock \in Nat /\ stream \in [Streams -> WatchHandlers] /\ OneSource /\ page \in Pages
      /\ Len(lists) \in Nat /\ faults \in Nat /\ lists \in Seq(ListAnswers) /\ Len(lists) <= 2
      /\ \A i \in 1..Len(lists) : Honest(lists[i].snap, lists[i].at, objs, deletedAt, clock)
      /\ Budget(page, Len(lists), faults)
  BY WatchTypes
<1>1. /\ page.es = "connecting" /\ page' = OnError(page)
      /\ UNCHANGED <<objs, clock, deletedAt, stream, phase, lists>>
  BY DEF RefuseWatch, NoServer
<1>2. /\ faults' \in 0..MaxFaults /\ faults' \in Nat /\ Budget(page, Len(lists), faults')
  <2>1. CASE faults' = faults
    BY <1>t, <2>1 DEF WatchIndInv, WatchShape
  <2>2. CASE Fault
    BY <2>2, FaultFacts
  <2> QED BY <2>1, <2>2 DEF RefuseWatch, NoServer
<1>3. /\ page' \in Pages /\ page'.view = page.view /\ page'.base = page.base /\ page'.es = "none"
  BY <1>1, <1>t, PageFacts
<1>4. Budget(page', Len(lists), faults')
  BY <1>1, <1>2, <1>t, BudgetFacts
<1>5. OneSource'
  BY <1>1, <1>3, <1>t, WatchAssumption DEF OneSource
<1>6. phase' \in Phases
  BY <1>1 DEF WatchIndInv, WatchShape
<1>7. \A r \in Streams : page'.es # r
  BY <1>3, WatchAssumption
<1> QED BY <1>1, <1>2, <1>3, <1>4, <1>5, <1>6, <1>7, <1>t, SameCluster

\* The end of a watch closes the channel; what is in it stays.
LEMMA WatchEndsInv ==
  ASSUME WatchIndInv, NEW s \in Streams, WatchEnds(s)
  PROVE  WatchIndInv'
<1>t. /\ clock \in Nat /\ stream \in [Streams -> WatchHandlers] /\ OneSource /\ page \in Pages
      /\ Len(lists) \in Nat /\ faults \in Nat /\ lists \in Seq(ListAnswers) /\ Len(lists) <= 2
      /\ \A i \in 1..Len(lists) : Honest(lists[i].snap, lists[i].at, objs, deletedAt, clock)
  BY WatchTypes
<1> DEFINE bad == [type |-> "ERROR", name |-> "none", v |-> 0]
<1>1. PICK last \in {<<>>, <<bad>>} :
        stream' = [stream EXCEPT ![s].closed = TRUE, ![s].ch = @ \o last]
  BY DEF WatchEnds
<1>2. /\ stream[s].pc = "open" /\ Fault /\ UNCHANGED <<objs, clock, deletedAt, phase, page, lists>>
  BY DEF WatchEnds
<1>3. bad \in WatchEvents /\ bad.v = 0
  BY DEF WatchEvents
<1> HIDE DEF bad
<1>4. last \in Seq(WatchEvents) /\ Len(last) \in Nat /\ \A i \in 1..Len(last) : last[i].v = 0
  <2>1. CASE last = <<>>
    BY <2>1
  <2>2. CASE last = <<bad>>
    BY <1>3, <2>2
  <2> QED BY <2>1, <2>2
<1> DEFINE q == stream[s].ch
           r == q \o last
<1>5. q \in Seq(WatchEvents) /\ Len(q) \in Nat /\ stream[s] \in WatchHandlers
      /\ (\A i \in 1..Len(q) : q[i].v <= clock)
  BY <1>t DEF WatchHandlers, OneSource
<1>6. r \in Seq(WatchEvents) /\ \A i \in 1..Len(r) : r[i].v <= clock
  <2> HIDE DEF q
  <2>1. r \in Seq(WatchEvents) /\ Len(r) = Len(q) + Len(last)
    BY <1>4, <1>5
  <2>2. ASSUME NEW i \in 1..Len(r) PROVE r[i].v <= clock
    <3>1. CASE i <= Len(q)
      BY <1>4, <1>5, <3>1
    <3>2. CASE i > Len(q)
      <4>1. r[i] = last[i - Len(q)] /\ i - Len(q) \in 1..Len(last)
        BY <1>4, <1>5, <2>1, <3>2
      <4> QED BY <1>4, <1>t, <4>1
    <3> QED BY <3>1, <3>2, <1>5, <2>1
  <2> QED BY <2>1, <2>2
<1>7. /\ \A x \in Streams \ {s} : stream'[x] = stream[x]
      /\ stream'[s] = [stream[s] EXCEPT !.closed = TRUE, !.ch = r] /\ DOMAIN stream' = Streams
      /\ stream' = [x \in Streams |-> stream'[x]]
  BY <1>1, <1>t
<1> HIDE DEF r, q
<1>8. /\ stream'[s] \in WatchHandlers /\ stream'[s].closed /\ stream'[s].ch = r
      /\ stream'[s].pc = "open" /\ stream'[s].peer = stream[s].peer
      /\ stream'[s].openedAt = stream[s].openedAt
  BY <1>2, <1>5, <1>6, <1>7 DEF WatchHandlers
<1>9. \A x \in Streams : stream'[x] \in WatchHandlers
  BY <1>7, <1>8, <1>t
<1>10. stream' \in [Streams -> WatchHandlers]
  BY <1>7, <1>9
<1>11. OneSource'
  <2> SUFFICES ASSUME NEW x \in Streams
               PROVE  /\ stream'[x].peer <=> page.es = x
                      /\ stream'[x].pc = "none" => stream'[x] = NoStream
                      /\ \A i \in 1..Len(stream'[x].ch) : stream'[x].ch[i].v <= clock
                      /\ stream'[x].openedAt <= clock
    BY <1>2 DEF OneSource
  <2>1. CASE x = s
    BY <1>6, <1>8, <1>t, <2>1 DEF OneSource
  <2>2. CASE x # s
    BY <1>7, <1>t, <2>2 DEF OneSource
  <2> QED BY <2>1, <2>2
<1>12. \A x \in Streams : ~stream'[x].closed => stream'[x] = stream[x]
  BY <1>7, <1>8
<1>13. phase' \in Phases /\ page' = page /\ lists' = lists
  BY <1>2 DEF WatchIndInv, WatchShape
<1>14. Budget(page', Len(lists'), faults') /\ faults' \in 0..MaxFaults
  BY <1>2, <1>13, FaultFacts
<1> QED BY <1>2, <1>10, <1>11, <1>12, <1>13, <1>14, <1>t, SameCluster

\* What a dead server leaves of the page: no stream of it, and a timer for each list.
LEMMA LostFacts ==
  ASSUME NEW p \in Pages, NEW f \in Nat, NEW k \in Nat, Len(lists) \in Nat, Len(lists) <= 2
  PROVE  /\ StreamLost(p) \in Pages /\ StreamLost(p).view = p.view /\ StreamLost(p).base = p.base
         /\ StreamLost(p).es = IF p.es \in Streams THEN "none" ELSE p.es
         /\ Budget(p, k, f) => Budget(StreamLost(p), k, f)
         /\ ListsLost(p) \in Pages /\ ListsLost(p).view = p.view /\ ListsLost(p).base = p.base
         /\ ListsLost(p).es = p.es
         /\ Budget(p, Len(lists), f) => Budget(ListsLost(p), 0, f)
<1>1. /\ StreamLost(p) \in Pages /\ StreamLost(p).view = p.view /\ StreamLost(p).base = p.base
      /\ StreamLost(p).es = IF p.es \in Streams THEN "none" ELSE p.es
      /\ Budget(p, k, f) => Budget(StreamLost(p), k, f)
  BY PageFacts, BudgetFacts, WatchAssumption DEF StreamLost
<1> DEFINE a == ScheduleReconnect(p)
           b == ScheduleReconnect(a)
<1>2. a \in Pages /\ a.view = p.view /\ a.base = p.base /\ a.es = p.es
  BY PageFacts
<1>3. b \in Pages /\ b.view = p.view /\ b.base = p.base /\ b.es = p.es
  BY <1>2, PageFacts
<1>4. Budget(p, 1, f) => Budget(a, 0, f)
  <2>1. Budget(p, 0 + 1, f) => Budget(a, 0, f)
    BY BudgetFacts
  <2> QED BY <2>1
<1>5. Budget(p, 2, f) => Budget(b, 0, f)
  <2>1. Budget(p, 1 + 1, f) => Budget(a, 1, f)
    BY BudgetFacts
  <2>2. Budget(a, 0 + 1, f) => Budget(b, 0, f)
    BY <1>2, BudgetFacts
  <2> QED BY <2>1, <2>2
<1> HIDE DEF a
<1>6. CASE Len(lists) = 0
  <2>1. ListsLost(p) = p
    BY <1>6 DEF ListsLost
  <2> QED BY <1>1, <1>6, <2>1
<1>7. CASE Len(lists) = 1
  <2>1. ListsLost(p) = a
    BY <1>7 DEF ListsLost, a
  <2> QED BY <1>1, <1>2, <1>4, <1>7, <2>1
<1>8. CASE Len(lists) = 2
  <2>1. ListsLost(p) = b
    BY <1>8 DEF ListsLost, a
  <2> QED BY <1>1, <1>3, <1>5, <1>8, <2>1
<1>9. Len(lists) = 0 \/ Len(lists) = 1 \/ Len(lists) = 2
  <2>1. \A n \in Nat : n <= 2 => n = 0 \/ n = 1 \/ n = 2
    OBVIOUS
  <2> QED BY <2>1
<1> QED BY <1>6, <1>7, <1>8, <1>9

\* The death of the process: no handler is left and no list.
LEMMA CrashInv ==
  ASSUME WatchIndInv, Crash
  PROVE  WatchIndInv'
<1>t. /\ clock \in Nat /\ page \in Pages /\ Len(lists) \in Nat /\ Len(lists) <= 2
      /\ page.es \in Streams \cup {"none", "connecting"}
  BY WatchTypes
<1>1. /\ phase' = "stopped" /\ stream' = [s \in Streams |-> NoStream] /\ lists' = <<>>
      /\ page' \in {ListsLost(StreamLost(page)), StreamLost(ListsLost(page))}
      /\ UNCHANGED <<objs, clock, deletedAt>> /\ Fault
  BY DEF Crash
<1>2. /\ faults' \in 0..MaxFaults /\ faults' \in Nat /\ Budget(page, Len(lists), faults')
  BY <1>1, FaultFacts
<1> DEFINE f == faults'
<1> HIDE DEF f
<1>3. f \in Nat /\ Budget(page, Len(lists), f)
  BY <1>2 DEF f
<1> DEFINE P(q) == /\ q \in Pages /\ q.view = page.view /\ q.base = page.base
                   /\ q.es = (IF page.es \in Streams THEN "none" ELSE page.es)
                   /\ Budget(q, 0, f)
<1>4. P(ListsLost(StreamLost(page)))
  <2> DEFINE a == StreamLost(page)
  <2>1. /\ a \in Pages /\ a.view = page.view /\ a.base = page.base
        /\ a.es = IF page.es \in Streams THEN "none" ELSE page.es
        /\ Budget(a, Len(lists), f)
    BY <1>3, <1>t, LostFacts
  <2> HIDE DEF a
  <2>2. P(ListsLost(a))
    BY <1>3, <1>t, <2>1, LostFacts
  <2> QED BY <2>2 DEF a
<1>5. P(StreamLost(ListsLost(page)))
  <2> DEFINE a == ListsLost(page)
  <2>1. /\ a \in Pages /\ a.view = page.view /\ a.base = page.base /\ a.es = page.es
        /\ Budget(a, 0, f)
    BY <1>3, <1>t, LostFacts
  <2> HIDE DEF a
  <2>2. P(StreamLost(a))
    BY <1>3, <1>t, <2>1, LostFacts
  <2> QED BY <2>2 DEF a
<1>6. P(page')
  BY <1>1, <1>4, <1>5
<1>7. page'.es \notin Streams /\ page'.es \in {page.es, "none"}
  BY <1>6, <1>t, WatchAssumption
<1>8. lists' \in Seq(ListAnswers) /\ Len(lists') = 0
  BY <1>1
<1>9. stream' \in [Streams -> WatchHandlers]
  BY <1>1, NoStreamFacts
<1>10. OneSource'
  <2> SUFFICES ASSUME NEW x \in Streams
               PROVE  /\ stream'[x].peer <=> page'.es = x
                      /\ stream'[x].pc = "none" => stream'[x] = NoStream
                      /\ \A i \in 1..Len(stream'[x].ch) : stream'[x].ch[i].v <= clock'
                      /\ stream'[x].openedAt <= clock'
    BY DEF OneSource
  <2>1. stream'[x] = NoStream /\ page'.es # x /\ clock' \in Nat
    BY <1>1, <1>7, <1>t
  <2> QED BY <2>1, NoStreamFacts
<1>11. Budget(page', Len(lists'), faults')
  BY <1>6, <1>8 DEF f
<1>12. phase' \in Phases
  BY <1>1 DEF Phases
<1>13. /\ Len(lists') <= 2
       /\ \A i \in 1..Len(lists') : Honest(lists'[i].snap, lists'[i].at, objs, deletedAt, clock)
       /\ page' \in Pages /\ page'.view = page.view /\ page'.base = page.base
  BY <1>6, <1>8
<1> QED BY <1>1, <1>2, <1>7, <1>8, <1>9, <1>10, <1>11, <1>12, <1>13, SameCluster

\* A failed list becomes a timer, held or not.
LEMMA ListFailsInv ==
  ASSUME WatchIndInv, NEW i \in 1..Len(lists), ListFails(i)
  PROVE  WatchIndInv'
<1>t. /\ clock \in Nat /\ page \in Pages /\ Len(lists) \in Nat /\ Len(lists) <= 2
      /\ lists \in Seq(ListAnswers) /\ stream \in [Streams -> WatchHandlers] /\ OneSource
      /\ \A j \in 1..Len(lists) : Honest(lists[j].snap, lists[j].at, objs, deletedAt, clock)
  BY WatchTypes
<1>1. /\ lists' = RemoveAt(lists, i) /\ page' = ScheduleReconnect(page) /\ Fault
      /\ UNCHANGED <<objs, clock, deletedAt, stream, phase>>
  BY DEF ListFails
<1>2. /\ faults' \in 0..MaxFaults /\ faults' \in Nat /\ Budget(page, Len(lists), faults')
  BY <1>1, FaultFacts
<1>3. /\ lists' \in Seq(ListAnswers) /\ Len(lists') = Len(lists) - 1 /\ Len(lists') <= 2
      /\ \A j \in 1..Len(lists') : \E m \in 1..Len(lists) : lists'[j] = lists[m]
  <2> DEFINE r == RemoveAt(lists, i)
  <2>1. /\ r \in Seq(ListAnswers) /\ Len(r) = Len(lists) - 1
        /\ \A j \in 1..Len(r) : \E m \in 1..Len(lists) : r[j] = lists[m]
    BY <1>t, RemoveFacts
  <2>2. lists' = r
    BY <1>1
  <2> HIDE DEF r
  <2> QED BY <1>t, <2>1, <2>2
<1>4. /\ page' \in Pages /\ page'.view = page.view /\ page'.base = page.base /\ page'.es = page.es
  BY <1>1, <1>t, PageFacts
<1>5. Budget(page', Len(lists'), faults')
  <2>1. Len(lists') \in Nat /\ Len(lists) = Len(lists') + 1
    BY <1>3, <1>t
  <2> QED BY <1>1, <1>2, <1>t, <2>1, BudgetFacts
<1>6. OneSource'
  BY <1>1, <1>4, <1>t DEF OneSource
<1>7. \A j \in 1..Len(lists') : Honest(lists'[j].snap, lists'[j].at, objs, deletedAt, clock)
  BY <1>3, <1>t
<1>8. phase' \in Phases
  BY <1>1 DEF WatchIndInv, WatchShape
<1> QED BY <1>1, <1>2, <1>3, <1>4, <1>5, <1>6, <1>7, <1>8, <1>t, SameCluster

\* The page's own steps: it is mounted once and disposed once.
LEMMA MountInv ==
  ASSUME WatchIndInv, Mount \/ Unmount
  PROVE  WatchIndInv'
<1>t. /\ clock \in Nat /\ page \in Pages /\ Len(lists) \in Nat /\ Len(lists) <= 2 /\ faults \in Nat
      /\ lists \in Seq(ListAnswers) /\ stream \in [Streams -> WatchHandlers] /\ OneSource
      /\ Budget(page, Len(lists), faults)
      /\ \A j \in 1..Len(lists) : Honest(lists[j].snap, lists[j].at, objs, deletedAt, clock)
  BY WatchTypes
<1>b. page.leaked \in Nat /\ page.timer \in BOOLEAN
  BY <1>t DEF Pages
<1>1. CASE Mount
  <2>1. /\ page.scope = "new" /\ page' = [page EXCEPT !.scope = "mounted", !.timer = TRUE]
        /\ UNCHANGED <<objs, clock, deletedAt, stream, phase, lists, faults>>
    BY <1>1 DEF Mount
  <2>2. /\ page' \in Pages /\ page'.view = page.view /\ page'.base = page.base
        /\ page'.es = page.es /\ page'.scope = "mounted" /\ page'.timer /\ page'.leaked = page.leaked
    BY <1>t, <2>1 DEF Pages
  <2>3. page.leaked = 0 /\ Len(lists) = 0 /\ page.es = "none"
    <3> DEFINE a == IF page.timer THEN 1 ELSE 0
               b == IF page.es # "none" THEN 1 ELSE 0
    <3>1. page.leaked + Len(lists) + a + b = 0
      BY <1>t, <2>1 DEF Budget, Tokens
    <3>2. a \in Nat /\ b \in Nat /\ (b = 0 => page.es = "none")
      OBVIOUS
    <3> HIDE DEF a, b
    <3> QED BY <1>b, <1>t, <3>1, <3>2
  <2>4. Budget(page', Len(lists'), faults')
    BY <1>t, <2>1, <2>2, <2>3 DEF Budget, Tokens
  <2>5. OneSource'
    BY <1>t, <2>1, <2>2 DEF OneSource
  <2>6. phase' \in Phases /\ faults' \in 0..MaxFaults
    BY <2>1 DEF WatchIndInv, WatchShape
  <2> QED BY <1>t, <2>1, <2>2, <2>4, <2>5, <2>6, SameCluster
<1>2. CASE Unmount
  <2>1. /\ page.scope = "mounted" /\ stream' = Dropped /\ Fault
        /\ page' = [Stopped(page) EXCEPT !.scope = "disposed"]
        /\ UNCHANGED <<objs, clock, deletedAt, phase, lists>>
    BY <1>2 DEF Unmount
  <2>2. /\ page' \in Pages /\ page'.view = page.view /\ page'.base = page.base
        /\ page'.es = "none" /\ page'.scope = "disposed" /\ ~page'.timer
        /\ page'.leaked = page.leaked
    <3> DEFINE q == Stopped(page)
    <3>1. /\ q \in Pages /\ q.view = page.view /\ q.base = page.base /\ q.es = "none"
          /\ ~q.timer /\ q.leaked = page.leaked /\ page' = [q EXCEPT !.scope = "disposed"]
      BY <1>t, <2>1, PageFacts
    <3> HIDE DEF q
    <3> QED BY <3>1 DEF Pages
  <2>3. faults' \in 0..MaxFaults /\ faults' = faults + 1
    BY <2>1, FaultFacts
  <2>4. Budget(page', Len(lists'), faults')
    BY <1>b, <1>t, <2>1, <2>2, <2>3 DEF Budget, Tokens
  <2>5. stream' \in [Streams -> WatchHandlers] /\ OneSource'
    BY <2>1, <2>2, DroppedFacts, WatchAssumption
  <2>6. phase' \in Phases
    BY <2>1 DEF WatchIndInv, WatchShape
  <2> QED BY <1>t, <2>1, <2>2, <2>3, <2>4, <2>5, <2>6, SameCluster, WatchAssumption
<1> QED BY <1>1, <1>2

\* Every step keeps the invariant.
LEMMA WatchStep == WatchIndInv /\ [WatchNext]_watchVars => WatchIndInv'
<1> SUFFICES ASSUME WatchIndInv, [WatchNext]_watchVars PROVE WatchIndInv'
  OBVIOUS
<1>t. /\ clock \in Nat /\ page \in Pages /\ Len(lists) \in Nat /\ Len(lists) <= 2 /\ faults \in Nat
      /\ lists \in Seq(ListAnswers) /\ stream \in [Streams -> WatchHandlers] /\ OneSource
      /\ Budget(page, Len(lists), faults) /\ faults \in 0..MaxFaults /\ phase \in Phases
      /\ \A j \in 1..Len(lists) : Honest(lists[j].snap, lists[j].at, objs, deletedAt, clock)
  BY WatchTypes DEF WatchIndInv, WatchShape
<1>1. CASE UNCHANGED watchVars
  <2>1. UNCHANGED <<objs, clock, deletedAt, stream, phase, page, lists, faults>>
    BY <1>1 DEF watchVars
  <2> QED BY <2>1 DEF WatchIndInv, WatchShape, OneSource
<1>2. ASSUME NEW n \in Names, Change(n) PROVE WatchIndInv'
  BY <1>2, ChangeInv
<1>3. ASSUME NEW s \in Streams, WatchEnds(s) PROVE WatchIndInv'
  BY <1>3, WatchEndsInv
<1>4. ASSUME NEW s \in Streams, ServeWatch(s) PROVE WatchIndInv'
  BY <1>4, ServeWatchInv
<1>5. ASSUME NEW s \in Streams, StreamEvent(s) PROVE WatchIndInv'
  BY <1>5, StreamEventInv
<1>6. ASSUME NEW s \in Streams, StreamClosed(s) \/ WriteFails(s) \/ ContextDone(s)
      PROVE  WatchIndInv'
  BY <1>6, HandlerReturns
<1>7. CASE RefuseWatch \/ NoServer
  BY <1>7, NotOpened
<1>8. CASE Crash
  BY <1>8, CrashInv
<1>9. CASE Shutdown \/ GrpcStopped \/ HttpStopped \/ Start
  <2>1. /\ UNCHANGED <<objs, clock, deletedAt, stream, page, lists>> /\ phase' \in Phases
        /\ faults' = faults \/ Fault
    BY <1>9 DEF Shutdown, GrpcStopped, HttpStopped, Start, Phases
  <2>2. faults' \in 0..MaxFaults /\ Budget(page, Len(lists), faults')
    BY <1>t, <2>1, FaultFacts
  <2>3. OneSource'
    BY <1>t, <2>1 DEF OneSource
  <2> QED BY <1>t, <2>1, <2>2, <2>3, SameCluster
<1>10. CASE Mount \/ Unmount
  BY <1>10, MountInv
<1>11. CASE TimerStart
  <2>1. page.timer /\ ListSent(page) /\ faults' = faults
    BY <1>11 DEF TimerStart
  <2>2. page.scope # "new"
    <3> DEFINE b == IF page.es # "none" THEN 1 ELSE 0
    <3>1. page.scope = "new" => page.leaked + Len(lists) + 1 + b = 0
      BY <1>t, <2>1 DEF Budget, Tokens
    <3>2. b \in Nat /\ page.leaked \in Nat
      BY <1>t DEF Pages
    <3> HIDE DEF b
    <3> QED BY <1>t, <3>1, <3>2
  <2> QED BY <1>t, <2>1, <2>2, ListSentInv
<1>12. CASE LeakedStart
  <2> DEFINE n == page.leaked - 1
  <2>1. page.leaked > 0 /\ ListSent([page EXCEPT !.leaked = n]) /\ faults' = faults
    BY <1>12, <1>t DEF LeakedStart, Pages
  <2>2. n \in Nat /\ page.leaked \in Nat /\ n = page.leaked - 1
    BY <1>t, <2>1 DEF Pages
  <2> HIDE DEF n
  <2> DEFINE p == [page EXCEPT !.leaked = n]
  <2>3. /\ p \in Pages /\ p.view = page.view /\ p.base = page.base /\ p.scope = page.scope
        /\ p.leaked = n /\ p.timer = page.timer
    BY <1>t, <2>2 DEF Pages
  <2>4. page.scope # "new"
    <3> DEFINE b == IF page.es # "none" THEN 1 ELSE 0
               a == IF page.timer THEN 1 ELSE 0
    <3>1. page.scope = "new" => page.leaked + Len(lists) + a + b = 0
      BY <1>t DEF Budget, Tokens
    <3>2. b \in Nat /\ a \in Nat
      OBVIOUS
    <3> HIDE DEF a, b
    <3> QED BY <1>t, <2>1, <2>2, <3>1, <3>2
  <2>5. ListSent(p)
    BY <2>1
  <2> HIDE DEF p
  <2> QED BY <1>t, <2>1, <2>2, <2>3, <2>4, <2>5, ListSentInv
<1>13. CASE Refresh
  <2>1. page.scope = "mounted" /\ ListSent(page) /\ Fault
    BY <1>13 DEF Refresh
  <2>2. faults' = faults + 1 /\ faults' \in 0..MaxFaults
    BY <2>1, FaultFacts
  <2> QED BY <1>t, <2>1, <2>2, ListSentInv
<1>14. ASSUME NEW i \in 1..Len(lists), ListReturns(i) PROVE WatchIndInv'
  BY <1>14, ListReturnsInv
<1>15. ASSUME NEW i \in 1..Len(lists), ListFails(i) PROVE WatchIndInv'
  BY <1>15, ListFailsInv
<1> QED BY <1>1, <1>2, <1>3, <1>4, <1>5, <1>6, <1>7, <1>8, <1>9, <1>10, <1>11, <1>12, <1>13,
           <1>14, <1>15 DEF WatchNext

\* The page before it is mounted.
LEMMA WatchStart == WatchInit => WatchIndInv
<1> SUFFICES ASSUME WatchInit PROVE WatchIndInv
  OBVIOUS
<1>1. /\ objs = Nothing /\ clock = 0 /\ deletedAt = Nothing
      /\ stream = [s \in Streams |-> NoStream] /\ phase = "serving"
      /\ page = [scope |-> "new", view |-> Nothing, base |-> 0, es |-> "none", timer |-> FALSE,
                 leaked |-> 0]
      /\ lists = <<>> /\ faults = 0
  BY DEF WatchInit
<1>2. Nothing \in [Names -> 0..0] /\ Nothing \in [Names -> Nat]
  BY DEF Nothing
<1>3. /\ page \in Pages /\ page.view = Nothing /\ page.base = 0 /\ page.es = "none" /\ ~page.timer
      /\ page.leaked = 0 /\ page.scope = "new"
  BY <1>1, <1>2 DEF Pages
<1>4. lists \in Seq(ListAnswers) /\ Len(lists) = 0
  BY <1>1
<1>5. stream \in [Streams -> WatchHandlers] /\ \A s \in Streams : stream[s] = NoStream
  BY <1>1, NoStreamFacts
<1>6. WatchShape
  BY <1>1, <1>2, <1>3, <1>4, <1>5, WatchAssumption DEF WatchShape, Phases
<1>7. OneSource
  BY <1>1, <1>3, <1>5, NoStreamFacts, WatchAssumption DEF OneSource
<1>8. Budget(page, Len(lists), faults)
  BY <1>1, <1>3, <1>4 DEF Budget, Tokens
<1> QED BY <1>3, <1>4, <1>6, <1>7, <1>8, WatchAssumption DEF WatchIndInv

\* The bound on timers no longer held, and the drained stream, follow.
LEMMA WatchIndImplies == WatchIndInv => PageInv
<1> SUFFICES ASSUME WatchIndInv PROVE PageInv
  OBVIOUS
<1>t. /\ clock \in Nat /\ page \in Pages /\ Len(lists) \in Nat /\ Len(lists) <= 2 /\ faults \in Nat
      /\ Budget(page, Len(lists), faults) /\ faults \in 0..MaxFaults /\ OneSource /\ WatchShape
      /\ stream \in [Streams -> WatchHandlers]
  BY WatchTypes DEF WatchIndInv, WatchShape
<1>1. page.leaked \in 0..MaxFaults
  <2> DEFINE b == IF page.es # "none" THEN 1 ELSE 0
             a == IF page.timer THEN 1 ELSE 0
             n == Len(lists)
  <2>1. /\ page.scope = "new" => page.leaked + n + a + b = 0
        /\ page.scope = "mounted" => page.leaked + n + a + b <= faults + 1
        /\ page.scope = "disposed" => page.leaked + n + a + b <= faults
        /\ page.scope = "mounted" => a = 1 \/ b = 1 \/ n > 0
    BY <1>t DEF Budget, Tokens
  <2>2. b \in Nat /\ a \in Nat /\ n \in Nat
    BY <1>t
  <2>3. page.leaked \in Nat /\ page.scope \in {"new", "mounted", "disposed"}
    BY <1>t DEF Pages
  <2> HIDE DEF a, b, n
  <2> QED BY <1>t, <2>1, <2>2, <2>3, WatchAssumption
<1>2. WatchTypeOK
  BY <1>1, <1>t DEF WatchTypeOK, WatchShape, OneSource, Pages, Phases
<1>3. ViewIsCurrent
  <2> SUFFICES ASSUME page.es \in Streams, Drained(page.es), NEW n \in Names
               PROVE  page.view[n] = objs[n] \/ (objs[n] = 0 /\ page.base < deletedAt[n]
                                 /\ deletedAt[n] <= stream[page.es].openedAt)
    BY DEF ViewIsCurrent
  <2>1. stream[page.es].ch = <<>> /\ ~stream[page.es].closed
    BY DEF Drained
  <2>2. Caught(stream[page.es], page, objs, deletedAt)
    BY <2>1 DEF WatchIndInv
  <2>3. Len(stream[page.es].ch) = 0
    BY <2>1
  <2> QED BY <2>2, <2>3 DEF Caught
<1> QED BY <1>2, <1>3 DEF PageInv

\* Whatever order lists, refreshes, reconnects, faults and restarts come in, the page
\* has one stream, and a page whose stream is drained shows the cluster as it is but
\* for what went between its list and its watch.
THEOREM PageCatchesUp == WatchSpec => []PageInv
<1>1. WatchInit => WatchIndInv
  BY WatchStart
<1>2. WatchIndInv /\ [WatchNext]_watchVars => WatchIndInv'
  BY WatchStep
<1>3. WatchIndInv => PageInv
  BY WatchIndImplies
<1> QED BY <1>1, <1>2, <1>3, PTL DEF WatchSpec

=============================================================================
