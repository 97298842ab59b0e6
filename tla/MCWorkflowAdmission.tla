---------------------- MODULE MCWorkflowAdmission ----------------------
(* Families of workflows for WorkflowAdmission, each around one rule.      *)
EXTENDS WorkflowAdmission

A == <<"a">>
B == <<"b">>
C == <<"c">>
Ghost == <<"ghost">>       \* never a task

TaskOf(name, type) ==
  [name |-> name, types |-> {type}, choices |-> {}, deps |-> <<>>, cases |-> <<>>,
   refs |-> {}, when |-> {}, headers |-> <<>>]

Container(name, deps) == [TaskOf(name, "container") EXCEPT !.deps = deps]

Submit(tasks, params, frozen) == [tasks |-> tasks, params |-> params, frozen |-> frozen]

-----------------------------------------------------------------------------
(* Three tasks with any dependencies, in any order, on any of the tasks,   *)
(* also twice on one, and on a name that is no task.                       *)
DepLists == {<<>>, <<A>>, <<B>>, <<C>>, <<A, A>>, <<Ghost>>, <<B, Ghost>>}
            \cup {<<A, B>>, <<B, A>>, <<A, C>>, <<C, A>>, <<B, C>>, <<C, B>>}

Graphs ==
  {Submit(<<Container(A, x), Container(B, y), Container(C, z)>>, <<>>, {}) :
     x, y, z \in DepLists}

(* Tasks that share a name.                                                *)
Short == {<<>>, <<A>>, <<B>>}
Doubles ==
  {Submit(<<Container(n[1], d[1]), Container(n[2], d[2]), Container(n[3], d[3])>>, <<>>, {}) :
     n \in [1 .. 3 -> {A, B}], d \in [1 .. 3 -> Short]}

(* A router with two cases, targets that exist or do not, and a task whose *)
(* name is the one generated for a branch, or that of the entrypoint; the  *)
(* router may wait for that task.                                          *)
Refer(kind, of, suffix) == [kind |-> kind, of |-> of, suffix |-> suffix]
Output(n) == Refer("task", n, "output")

Cases == [cond : {FALSE}, then : {Absent, B, Ghost}, default : {Absent, B, Ghost}, refs : {{}}]
         \cup [cond : {TRUE}, then : {Absent, B, Ghost}, default : {Absent, B},
               refs : {{}, {Output(B)}, {Output(Ghost)}}]

Router(deps, cases) == [TaskOf(A, "switch") EXCEPT !.deps = deps, !.cases = cases]

Switches ==
  {Submit(<<Router(d, <<x, y>>), TaskOf(B, "agent"), TaskOf(n, "http")>>, <<>>, {}) :
     x, y \in Cases, n \in {C, A \o B, Entrypoint}, d \in {<<>>, <<A \o B>>}}

(* A consumer that refers to a producer of any kind, in its body or in its *)
(* condition.                                                              *)
Refs == {Refer("param", <<"topic">>, "none"), Refer("param", Ghost, "none"),
         Refer("argo", <<>>, "none"), Refer("other", <<>>, "none")}
        \cup {Refer("task", n, x) : n \in {A, Ghost},
                                   x \in {"none", "output", "field", "artifact", "other"}}

Producers == {TaskOf(A, k) : k \in {"agent", "container", "http"}}
             \cup {Router(<<>>, <<[cond |-> TRUE, then |-> B, default |-> Absent, refs |-> {}]>>)}

References ==
  {Submit(<<p, [Container(B, <<A>>) EXCEPT !.refs = {r}, !.when = {c}]>>, <<<<"topic">>>>, {}) :
     p \in Producers, r, c \in Refs}

(* Any set of types, bodies with too little or too much, and an agentTask  *)
(* that is new, kept, or joined by a second one.                           *)
OneCase == <<[cond |-> TRUE, then |-> B, default |-> Absent, refs |-> {}]>>
Typed(n, ts, cs) ==
  [TaskOf(n, "agent") EXCEPT !.types = ts, !.choices = cs,
                             !.cases = IF "switch" \in ts THEN OneCase ELSE <<>>]

Bodies == {{}, {{"text"}}, {{}}, {{"text", "message"}}, {{"value"}, {"secret", "configMap"}}}

Kinds ==
  {Submit(<<Typed(A, ts, cs), Typed(B, us, {})>>, <<>>, f) :
     ts \in SUBSET TaskTypes, us \in {{"agentTask"}, {"container"}}, cs \in Bodies,
     f \in SUBSET {A, B}}

(* Headers from ConfigMaps whose names and keys share segments, beside a   *)
(* declared parameter called like the one of a header.                     *)
Headers == {[cm |-> c, key |-> k] : c \in {"x", "y"}, k \in {<<"k">>, <<"y", "k">>}}
HeaderLists == UNION {[1 .. k -> Headers] : k \in 0 .. 2}

Requests ==
  {Submit(<<[TaskOf(A, "http") EXCEPT !.headers = h], [TaskOf(B, "http") EXCEPT !.headers = g]>>,
          ps, {}) : h, g \in HeaderLists, ps \in {<<>>, << <<"_cm", "x", "k">> >>}}

Everything == Graphs \cup Doubles \cup Switches \cup References \cup Kinds \cup Requests
              \cup {Submit(<<>>, <<>>, {})}
=============================================================================
