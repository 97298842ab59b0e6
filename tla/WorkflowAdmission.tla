------------------------ MODULE WorkflowAdmission ------------------------
(***************************************************************************)
(* The way of one AgentWorkflow from kubectl to Argo: the validating       *)
(* webhook admits or rejects it, the compiler turns an admitted one into   *)
(* the nodes, templates and parameters of a WorkflowTemplate.              *)
(*                                                                         *)
(* The depth-first search for dependency cycles is a machine of its own,   *)
(* one step per loop iteration of visit(); the rest of the webhook and the *)
(* compiler are functions of the object.                                   *)
(*                                                                         *)
(* Text is abstracted to what the code looks for in it. A name is the      *)
(* sequence of its "-"-separated segments, so that the "<task>-<target>"   *)
(* of a switch branch is a concatenation and may meet another name. A      *)
(* parameter name is likewise cut at "_". Every "exactly one of" of a      *)
(* task's body (text or message, value or valueFrom, a non-empty image) is *)
(* the set of the alternatives given.                                      *)
(***************************************************************************)
EXTENDS Integers, Sequences, FiniteSets

CONSTANT Workflows    \* the objects that may be submitted

TaskTypes == {"agent", "agentTask", "container", "http", "switch"}
Name      == Seq(STRING)

(* A {{...}} expression: params.<of>, tasks.<of>.<suffix>, an Argo         *)
(* expression {{=...}}, or anything else.                                  *)
Ref == [kind : {"param", "task", "argo", "other"}, of : Name,
        suffix : {"none", "output", "field", "artifact", "other"}]

Absent == <<>>        \* an empty string: no target
Case   == [cond : BOOLEAN, then : Name, default : Name, refs : SUBSET Ref]
Header == [cm : STRING, key : Name]       \* a configMapKeyRef header

Task == [name : Name, types : SUBSET TaskTypes, choices : SUBSET SUBSET STRING,
         deps : Seq(Name), cases : Seq(Case), refs : SUBSET Ref,
         when : SUBSET Ref, headers : Seq(Header)]

(* A submitted object, with the names under which the stored object it     *)
(* replaces already had an agentTask.                                      *)
Workflow == [tasks : Seq(Task), params : Seq(Name), frozen : SUBSET Name]

ASSUME WorkflowsAssumption ==
  /\ Workflows \subseteq Workflow
  /\ \A w \in Workflows : \A i \in 1 .. Len(w.tasks) :
       "switch" \in w.tasks[i].types <=> w.tasks[i].cases # <<>>

-----------------------------------------------------------------------------
(* What the webhook and the compiler read off an object.                   *)

Indices(w)   == 1 .. Len(w.tasks)
TaskNames(w) == {w.tasks[i].name : i \in Indices(w)}
DepsOf(t)    == {t.deps[j] : j \in 1 .. Len(t.deps)}
CasesOf(t)   == {t.cases[j] : j \in 1 .. Len(t.cases)}
ParamNames(w) == {w.params[j] : j \in 1 .. Len(w.params)}

(* Everything the colours of the search are kept for: tasks, and names     *)
(* that only a dependsOn mentions.                                         *)
Vertices(w) == TaskNames(w) \cup UNION {DepsOf(w.tasks[i]) : i \in Indices(w)}

(* adj is a map filled in task order: of two tasks with one name the later *)
(* one stays; a name that is no task has no entry.                         *)
LastTask(w, n) ==
  CHOOSE i \in Indices(w) :
    /\ w.tasks[i].name = n
    /\ \A j \in Indices(w) : w.tasks[j].name = n => j <= i

Adj(w, n) == IF n \in TaskNames(w) THEN w.tasks[LastTask(w, n)].deps ELSE <<>>

-----------------------------------------------------------------------------
VARIABLES
  wf,      \* the submitted object
  io,      \* CompilerOptions.ArtifactIOEnabled
  pc,      \* how far the object has come
  root,    \* the next task the outer loop of the search looks at
  color,   \* the search's colours
  stack,   \* the active calls of visit(), each with its loop index
  cycle    \* the search returned an error

vars == <<wf, io, pc, root, color, stack, cycle>>

Init ==
  /\ wf \in Workflows
  /\ io \in BOOLEAN
  /\ pc = "freeze"
  /\ root = 1
  /\ color = [n \in Vertices(wf) |-> "white"]
  /\ stack = <<>>
  /\ cycle = FALSE

(* Mutant: an object that had an agentTask may get others.                 *)
ThawedOnCreate(w) ==
  w.frozen = {} /\ \E i \in Indices(w) : "agentTask" \in w.tasks[i].types

(* An agentTask is tolerated only under a name that had one before.        *)
Thawed(w) ==
  \E i \in Indices(w) : /\ "agentTask" \in w.tasks[i].types
                        /\ w.tasks[i].name \notin w.frozen

RejectFrozen ==
  /\ pc = "freeze"
  /\ Thawed(wf)
  /\ pc' = "rejected"
  /\ UNCHANGED <<wf, io, root, color, stack, cycle>>

PassFreeze ==
  /\ pc = "freeze"
  /\ ~Thawed(wf)
  /\ pc' = "visit"
  /\ UNCHANGED <<wf, io, root, color, stack, cycle>>

-----------------------------------------------------------------------------
(* detectDAGCycles.                                                        *)

Top == stack[Len(stack)]

(* An active call of visit(name), at the next of its dependencies.         *)
Call(name, next) == [name |-> name, next |-> next]

(* The outer loop: a white task starts a search, any other is passed over. *)
VisitRoot ==
  /\ pc = "visit" /\ ~cycle
  /\ stack = <<>>
  /\ root <= Len(wf.tasks)
  /\ LET n == wf.tasks[root].name IN
       IF color[n] = "white"
       THEN /\ stack' = <<Call(n, 1)>>
            /\ color' = [color EXCEPT ![n] = "gray"]
       ELSE UNCHANGED <<stack, color>>
  /\ root' = root + 1
  /\ UNCHANGED <<wf, io, pc, cycle>>

Advanced == [stack EXCEPT ![Len(stack)] = Call(Top.name, Top.next + 1)]

(* Mutant: a visited dependency is not marked gray.                        *)
VisitDepUnmarked ==
  /\ pc = "visit" /\ ~cycle
  /\ stack # <<>>
  /\ Top.next <= Len(Adj(wf, Top.name))
  /\ LET d == Adj(wf, Top.name)[Top.next] IN
       \/ color[d] = "gray" /\ cycle' = TRUE /\ UNCHANGED stack
       \/ color[d] = "white" /\ stack' = Append(Advanced, Call(d, 1)) /\ UNCHANGED cycle
       \/ color[d] = "black" /\ stack' = Advanced /\ UNCHANGED cycle
  /\ UNCHANGED <<wf, io, pc, root, color>>

(* One dependency of the innermost call: a gray one ends the search, a     *)
(* white one is visited, a black one is passed over.                       *)
VisitDep ==
  /\ pc = "visit" /\ ~cycle
  /\ stack # <<>>
  /\ Top.next <= Len(Adj(wf, Top.name))
  /\ LET d == Adj(wf, Top.name)[Top.next] IN
       \/ /\ color[d] = "gray"
          /\ cycle' = TRUE
          /\ UNCHANGED <<color, stack>>
       \/ /\ color[d] = "white"
          /\ color' = [color EXCEPT ![d] = "gray"]
          /\ stack' = Append(Advanced, Call(d, 1))
          /\ UNCHANGED cycle
       \/ /\ color[d] = "black"
          /\ stack' = Advanced
          /\ UNCHANGED <<color, cycle>>
  /\ UNCHANGED <<wf, io, pc, root>>

(* Mutant: a finished task stays gray.                                     *)
VisitDoneGray ==
  /\ pc = "visit" /\ ~cycle
  /\ stack # <<>>
  /\ Top.next > Len(Adj(wf, Top.name))
  /\ stack' = SubSeq(stack, 1, Len(stack) - 1)
  /\ UNCHANGED <<wf, io, pc, root, color, cycle>>

(* The innermost call returns.                                             *)
VisitDone ==
  /\ pc = "visit" /\ ~cycle
  /\ stack # <<>>
  /\ Top.next > Len(Adj(wf, Top.name))
  /\ color' = [color EXCEPT ![Top.name] = "black"]
  /\ stack' = SubSeq(stack, 1, Len(stack) - 1)
  /\ UNCHANGED <<wf, io, pc, root, cycle>>

Searched == pc = "visit" /\ (cycle \/ (stack = <<>> /\ root > Len(wf.tasks)))

-----------------------------------------------------------------------------
(* The other rules of ValidateAgentWorkflow.                               *)

UniqueNames(w) ==
  \A i, j \in Indices(w) : w.tasks[i].name = w.tasks[j].name => i = j

(* Exactly one type, and in the body exactly one of each alternative.      *)
OneOfEach(t) == Cardinality(t.types) = 1 /\ \A c \in t.choices : Cardinality(c) = 1

ValidDependencies(w, t) == \A d \in DepsOf(t) : d \in TaskNames(w) /\ d # t.name

(* Mutant: the default of a switch is not looked up.                       *)
ValidThens(w, t) == \A c \in CasesOf(t) : c.then \in TaskNames(w) \cup {Absent}

ValidTargets(w, t) ==
  \A c \in CasesOf(t) : {c.then, c.default} \subseteq TaskNames(w) \cup {Absent}

(* Mutant: any params. or tasks. expression passes.                        *)
IsValidByPrefix(w, r) == r.kind # "other"

IsValidExpression(w, r) ==
  \/ r.kind = "argo"
  \/ r.kind = "param" /\ r.of \in ParamNames(w)
  \/ /\ r.kind = "task"
     /\ r.of \in TaskNames(w)
     /\ r.suffix \in {"output", "field", "artifact"}

(* Text, environment, URL, body and header values (refs), the condition    *)
(* (when) and the condition of every switch case.                          *)
Expressions(t) == t.refs \cup t.when \cup UNION {c.refs : c \in CasesOf(t)}

Valid(w) ==
  /\ w.tasks # <<>>
  /\ UniqueNames(w)
  /\ \A i \in Indices(w) : LET t == w.tasks[i] IN
       /\ OneOfEach(t)
       /\ ValidDependencies(w, t)
       /\ ValidTargets(w, t)
       /\ \A r \in Expressions(t) : IsValidExpression(w, r)

Judge ==
  /\ Searched
  /\ pc' = IF Valid(wf) /\ ~cycle THEN "admitted" ELSE "rejected"
  /\ UNCHANGED <<wf, io, root, color, stack, cycle>>

-----------------------------------------------------------------------------
(* compileToArgoWorkflowTemplate.                                          *)

(* The first field set, in the order of buildTemplate's switch.            *)
KindOf(t) ==
  LET order == <<"agent", "agentTask", "container", "http", "switch">>
      Set(k) == order[k] \in t.types
  IN  IF \E k \in 1 .. 5 : Set(k)
      THEN order[CHOOSE k \in 1 .. 5 : Set(k) /\ \A l \in 1 .. (k - 1) : ~Set(l)]
      ELSE "none"

Buildable(t) == KindOf(t) \notin {"agentTask", "none"}

(* The outputs a template declares.                                        *)
Outputs(t, artifactIO) ==
  CASE KindOf(t) = "switch" -> {}
    [] KindOf(t) = "container" /\ artifactIO -> {"artifacts"} \X {"result", "artifact"}
    [] OTHER -> {"parameters"} \X {"result", "artifact"}

Traceparent == <<"_flokoa", "traceparent">>
Entrypoint  == <<"main">>

(* A reference of the compiled template: a workflow parameter, or an       *)
(* output of a DAG task. Output references are always to parameters.       *)
WorkflowParam(n) == [scope |-> "workflow", name |-> n, out |-> <<>>]
TaskOutput(n, o) == [scope |-> "tasks", name |-> n, out |-> <<"parameters", o>>]
Opaque           == [scope |-> "opaque", name |-> <<>>, out |-> <<>>]

Translate(r) ==
  CASE r.kind = "param" -> WorkflowParam(r.of)
    [] r.kind = "task" /\ r.suffix = "output" -> TaskOutput(r.of, "result")
    [] r.kind = "task" /\ r.suffix \in {"artifact", "field"} -> TaskOutput(r.of, "artifact")
    [] OTHER -> Opaque

(* Mutant: the parameter is named by the key alone.                        *)
CmParamByKey(h) == <<"_cm">> \o h.key

CmParam(h) == <<"_cm", h.cm>> \o h.key

(* One template per task, told apart by its position.                      *)
BuildTemplate(w, i, artifactIO) ==
  LET t == w.tasks[i] IN
  [at |-> i, name |-> t.name, outs |-> Outputs(t, artifactIO),
   refs |-> {Translate(r) : r \in t.refs}
            \cup {WorkflowParam(CmParam(t.headers[j])) : j \in 1 .. Len(t.headers)}
            \cup (IF KindOf(t) \in {"agent", "container"}
                  THEN {WorkflowParam(Traceparent)} ELSE {})]

PlainNode(w, i) ==
  [at |-> <<i, 0, "task">>, name |-> w.tasks[i].name, template |-> w.tasks[i].name,
   deps |-> DepsOf(w.tasks[i]), refs |-> {Translate(r) : r \in w.tasks[i].when}]

BranchNode(w, i, j, branch, target, refs) ==
  [at |-> <<i, j, branch>>, name |-> w.tasks[i].name \o target, template |-> target,
   deps |-> {w.tasks[i].name}, refs |-> {Translate(r) : r \in refs}]

BuildSwitchDAGTasks(w, i) ==
  LET t == w.tasks[i]
      J == 1 .. Len(t.cases)
  IN  {BranchNode(w, i, j, "then", t.cases[j].then, t.cases[j].refs) :
         j \in {k \in J : t.cases[k].then # Absent /\ t.cases[k].cond}}
      \cup
      {BranchNode(w, i, j, "default", t.cases[j].default, {}) :
         j \in {k \in J : t.cases[k].default # Absent}}

HeaderSpots(w) ==
  UNION {{<<i, j>> : j \in 1 .. Len(w.tasks[i].headers)} : i \in Indices(w)}

HeaderAt(w, s) == w.tasks[s[1]].headers[s[2]]

Before(s, u) == s[1] < u[1] \/ (s[1] = u[1] /\ s[2] < u[2])

(* cmParamsSeen: one parameter per name, valued by the first header.       *)
FirstOfItsName(w, s) ==
  \A u \in HeaderSpots(w) :
    CmParam(HeaderAt(w, u)) = CmParam(HeaderAt(w, s)) => ~Before(u, s)

Parameters(w) ==
  {[at |-> <<0, 0>>, name |-> Traceparent, from |-> <<>>]}
  \cup {[at |-> <<0, j>>, name |-> w.params[j], from |-> <<>>] : j \in 1 .. Len(w.params)}
  \cup {[at |-> s, name |-> CmParam(HeaderAt(w, s)), from |-> <<HeaderAt(w, s)>>] :
          s \in {u \in HeaderSpots(w) : FirstOfItsName(w, u)}}

Nodes(w) == {PlainNode(w, i) : i \in Indices(w)}
            \cup UNION {BuildSwitchDAGTasks(w, i) : i \in Indices(w)}

(* The template that holds the DAG, under a name of its own.               *)
Main == [at |-> 0, name |-> Entrypoint, outs |-> {}, refs |-> {}]

Templates(w, artifactIO) ==
  {Main} \cup {BuildTemplate(w, i, artifactIO) : i \in Indices(w)}

Compile ==
  /\ pc = "admitted"
  /\ pc' = IF \A i \in Indices(wf) : Buildable(wf.tasks[i]) THEN "compiled" ELSE "failed"
  /\ UNCHANGED <<wf, io, root, color, stack, cycle>>

-----------------------------------------------------------------------------
Next == RejectFrozen \/ PassFreeze \/ VisitRoot \/ VisitDep \/ VisitDone \/ Judge \/ Compile

Spec == Init /\ [][Next]_vars

-----------------------------------------------------------------------------
(* The search is always in a state detectDAGCycles can be in, and no name  *)
(* is ever visited by two active calls: the recursion is never deeper than *)
(* the workflow has names.                                                 *)
TypeOK ==
  /\ wf \in Workflow
  /\ io \in BOOLEAN
  /\ pc \in {"freeze", "visit", "rejected", "admitted", "compiled", "failed"}
  /\ root \in 1 .. (Len(wf.tasks) + 1)
  /\ color \in [Vertices(wf) -> {"white", "gray", "black"}]
  /\ stack \in Seq([name : Vertices(wf), next : Nat \ {0}])
  /\ \A k, l \in 1 .. Len(stack) : stack[k].name = stack[l].name => k = l
  /\ cycle \in BOOLEAN

(* Names of which each depends on another of them: there is such a set iff *)
(* the dependencies have a cycle.                                          *)
Trap(w, S) ==
  /\ S # {}
  /\ \A n \in S : \E j \in 1 .. Len(Adj(w, n)) : Adj(w, n)[j] \in S

Cyclic(w) == \E S \in SUBSET Vertices(w) : Trap(w, S)

(* detectDAGCycles reports an error iff the dependencies have a cycle,     *)
(* wherever the search starts, in whatever order the tasks and the         *)
(* dependencies are listed, also with names that are missing or doubled.   *)
CyclesFound == Searched => (cycle <=> Cyclic(wf))

(* What the webhook admits the compiler refuses only for an agentTask that *)
(* was in the object before: the guard of buildTemplate for pre-existing   *)
(* objects. Its "no recognized type" is never met.                         *)
OnlyFrozenFails ==
  pc = "failed" =>
    \E i \in Indices(wf) : /\ KindOf(wf.tasks[i]) = "agentTask"
                           /\ wf.tasks[i].name \in wf.frozen

(* A generated branch has the name of a task: "<task>-<target>" is not     *)
(* checked against the names of the object.                                *)
Shadowed(w) ==
  \E i \in Indices(w) : \E n \in BuildSwitchDAGTasks(w, i) : n.name \in TaskNames(w)

(* Argo runs the DAG of a compiled workflow: every DAG task, the generated *)
(* branches of a switch too, has one template of its name, unless a task   *)
(* is called like the entrypoint, waits for DAG tasks that are there, and  *)
(* is never waiting for itself, unless a branch took the name of a task    *)
(* the switch waits for.                                                   *)
DagIsRunnable ==
  pc = "compiled" =>
    /\ \A n \in Nodes(wf) :
         /\ \E t \in Templates(wf, io) :
              /\ t.name = n.template
              /\ \A u \in Templates(wf, io) :
                   u.name = t.name => u = t \/ Entrypoint \in TaskNames(wf)
         /\ \A d \in n.deps : \E m \in Nodes(wf) : m.name = d
    /\ Shadowed(wf)
       \/ ~ \E S \in SUBSET Nodes(wf) :
              S # {} /\ \A n \in S : \E m \in S : m.name \in n.deps

(* Output references are translated to parameters whatever the producer    *)
(* declares: a switch declares no output, and a container under artifact   *)
(* I/O declares artifacts.                                                 *)
NoParameters(w, n) ==
  \E i \in Indices(w) : /\ w.tasks[i].name = n
                        /\ \/ KindOf(w.tasks[i]) = "switch"
                           \/ KindOf(w.tasks[i]) = "container" /\ io

Resolves(w, r) ==
  CASE r.scope = "workflow" -> \E p \in Parameters(w) : p.name = r.name
    [] r.scope = "tasks" ->
         \E n \in Nodes(w) : \E t \in Templates(w, io) :
           n.name = r.name /\ t.name = n.template /\ r.out \in t.outs
    [] OTHER -> TRUE

(* Every reference the compiler writes, for an admitted expression or for  *)
(* its own traceparent and ConfigMap headers, names a parameter of the     *)
(* workflow or an output the named task declares.                          *)
ReferencesResolve ==
  pc = "compiled" =>
    \A r \in UNION ({n.refs : n \in Nodes(wf)} \cup {t.refs : t \in Templates(wf, io)}) :
      Resolves(wf, r) \/ (r.scope = "tasks" /\ NoParameters(wf, r.name))

(* A header taken from a ConfigMap key gets that key of that ConfigMap:    *)
(* headers that share a parameter name share the source, and no other      *)
(* parameter has that name, unless the object declares one like it.        *)
HeadersReadTheirKey ==
  pc = "compiled" =>
    \A s \in HeaderSpots(wf) :
      LET Read(p) == p.name = CmParam(HeaderAt(wf, s)) IN
      /\ \E p \in Parameters(wf) : Read(p) /\ p.from = <<HeaderAt(wf, s)>>
      /\ \A p \in Parameters(wf) :
           Read(p) => p.from = <<HeaderAt(wf, s)>> \/ p.name \in ParamNames(wf)

\* What an admitted workflow compiles to can run: tasks that wait for one another
\* without a cycle, references and headers that read what they name.
CompiledInv == TypeOK /\ DagIsRunnable /\ ReferencesResolve /\ HeadersReadTheirKey
=============================================================================
