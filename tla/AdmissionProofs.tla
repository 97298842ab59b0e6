-------------------------- MODULE AdmissionProofs --------------------------
(* TLAPS proofs about what decides over a request to the API server, for     *)
(* every value of the constants: the workflow webhook's search for cycles and *)
(* the workflow compiler, the webhooks and the compile of the catalogue's     *)
(* objects, the judgement of an Agent's Capabilities.                        *)
EXTENDS WorkflowAdmission, CatalogAdmission, AgentAdmission, FiniteSetTheorems,
        SequenceTheorems, WellFoundedInduction, TLAPS

-----------------------------------------------------------------------------
(* The adjacency map.                                                       *)

\* A non-empty set of numbers up to N has a greatest one.
LEMMA Greatest ==
  ASSUME NEW N \in Nat, NEW I \in SUBSET (1 .. N), I # {}
  PROVE  \E i \in I : \A j \in I : j <= i
<1> DEFINE T == {N - i : i \in I}
<1>0. \A i \in I : i \in Nat /\ 1 <= i /\ i <= N /\ N - i \in Nat
  OBVIOUS
<1>1. T \subseteq Nat /\ T # {}
  BY <1>0
<1>2. IsWellFoundedOn(OpToRel(<, Nat), Nat)
  BY NatLessThanWellFounded
<1>3. PICK x \in T : \A y \in T : ~ (<<y, x>> \in OpToRel(<, Nat))
  BY <1>1, <1>2, WFMin
<1>4. \A y \in T : y \in Nat /\ x \in Nat /\ ~ (y < x)
  BY <1>1, <1>3 DEF OpToRel
<1>5. PICK i \in I : x = N - i
  OBVIOUS
<1>6. \A j \in I : N - j \in T
  OBVIOUS
<1>7. \A j \in I : j <= i
  <2> SUFFICES ASSUME NEW j \in I PROVE j <= i
    OBVIOUS
  <2>1. ~ (N - j < N - i)
    BY <1>4, <1>5, <1>6
  <2>2. j \in Nat /\ i \in Nat
    BY <1>0
  <2> QED BY <2>1, <2>2
<1> QED BY <1>7

\* The map holds names the search keeps colours for, and nothing for a name
\* that is no task.
LEMMA AdjType ==
  ASSUME NEW w \in Workflow, NEW n \in Vertices(w)
  PROVE  /\ Len(Adj(w, n)) \in Nat
         /\ \A j \in 1 .. Len(Adj(w, n)) : Adj(w, n)[j] \in Vertices(w)
         /\ n \notin TaskNames(w) => Len(Adj(w, n)) = 0
<1>1. CASE n \notin TaskNames(w)
  BY <1>1 DEF Adj
<1>2. CASE n \in TaskNames(w)
  <2> DEFINE I == {i \in Indices(w) : w.tasks[i].name = n}
  <2>1. w.tasks \in Seq(Task) /\ Len(w.tasks) \in Nat
    BY DEF Workflow
  <2>2. I \in SUBSET (1 .. Len(w.tasks)) /\ I # {}
    BY <1>2 DEF Indices, TaskNames
  <2>3. \E i \in I : \A j \in I : j <= i
    BY <2>1, <2>2, Greatest
  <2>4. LastTask(w, n) \in Indices(w)
    BY <2>3 DEF LastTask
  <2>5. w.tasks[LastTask(w, n)] \in Task
    BY <2>1, <2>4 DEF Indices
  <2>6. w.tasks[LastTask(w, n)].deps \in Seq(Name)
    BY <2>5 DEF Task
  <2>7. DepsOf(w.tasks[LastTask(w, n)]) \subseteq Vertices(w)
    BY <2>4 DEF Vertices
  <2>8. Adj(w, n) = w.tasks[LastTask(w, n)].deps
    BY <1>2 DEF Adj
  <2> QED BY <1>2, <2>6, <2>7, <2>8 DEF DepsOf
<1> QED BY <1>1, <1>2

-----------------------------------------------------------------------------
(* The invariant of the search.                                             *)

Black == {n \in Vertices(wf) : color[n] = "black"}

\* Gray are exactly the names with an active call.
GrayIsActive ==
  \A n \in Vertices(wf) :
    color[n] = "gray" <=> \E k \in 1 .. Len(stack) : stack[k].name = n

\* The dependencies an active call has passed are finished, but for the one
\* whose call it waits for.
Passed ==
  \A k \in 1 .. Len(stack) : \A j \in 1 .. Len(Adj(wf, stack[k].name)) :
    j < stack[k].next =>
      \/ Adj(wf, stack[k].name)[j] \in Black
      \/ k < Len(stack) /\ Adj(wf, stack[k].name)[j] = stack[k + 1].name

\* Each active call was made for a dependency of the one below it.
Chain ==
  \A k \in 1 .. (Len(stack) - 1) :
    \E j \in 1 .. Len(Adj(wf, stack[k].name)) :
      Adj(wf, stack[k].name)[j] = stack[k + 1].name

\* Finished names depend on finished names, and have no cycle among them.
Closed ==
  \A n \in Black : \A j \in 1 .. Len(Adj(wf, n)) : Adj(wf, n)[j] \in Black

NoTrap == \A S \in SUBSET Black : ~Trap(wf, S)

\* The outer loop leaves no white task behind.
Roots == \A i \in 1 .. (root - 1) : color[wf.tasks[i].name] # "white"

CycleIsThere == cycle => Cyclic(wf)

SearchInv ==
  TypeOK /\ GrayIsActive /\ Passed /\ Chain /\ Closed /\ NoTrap /\ Roots /\ CycleIsThere

-----------------------------------------------------------------------------
(* Steps of the stack.                                                      *)

Frames == [name : Vertices(wf), next : Nat \ {0}]

\* The innermost active call.
LEMMA TopType ==
  ASSUME TypeOK, stack # <<>>
  PROVE  /\ stack \in Seq(Frames) /\ Len(stack) \in Nat \ {0}
         /\ Top = stack[Len(stack)] /\ Top \in Frames
         /\ Top.name \in Vertices(wf) /\ Top.next \in Nat \ {0}
<1>1. stack \in Seq(Frames) /\ Len(stack) \in Nat \ {0}
  BY DEF TypeOK, Frames
<1>2. Top = stack[Len(stack)] /\ Top \in Frames
  BY <1>1 DEF Top
<1> QED BY <1>1, <1>2 DEF Frames

\* Advancing a loop index changes nothing else of the stack.
LEMMA AdvancedStack ==
  ASSUME TypeOK, stack # <<>>
  PROVE  /\ Advanced \in Seq(Frames) /\ Len(Advanced) = Len(stack)
         /\ \A k \in 1 .. Len(stack) :
              /\ Advanced[k].name = stack[k].name
              /\ k < Len(stack) => Advanced[k].next = stack[k].next
         /\ Advanced[Len(stack)].next = stack[Len(stack)].next + 1
<1>1. stack \in Seq(Frames) /\ Len(stack) \in Nat \ {0} /\ Top \in Frames
      /\ Top = stack[Len(stack)] /\ Top.next \in Nat \ {0}
  BY TopType
<1> DEFINE f == Call(Top.name, Top.next + 1)
<1>2. f \in Frames /\ f.name = stack[Len(stack)].name /\ f.next = stack[Len(stack)].next + 1
  BY <1>1 DEF Frames, Call
<1>3. Advanced = [stack EXCEPT ![Len(stack)] = f]
  BY DEF Advanced
<1> HIDE DEF f
<1>4. Advanced \in Seq(Frames) /\ Len(Advanced) = Len(stack)
      /\ \A k \in 1 .. Len(stack) :
           Advanced[k] = IF k = Len(stack) THEN f ELSE stack[k]
  BY <1>1, <1>2, <1>3
<1> QED BY <1>1, <1>2, <1>4

\* Nothing but the search changes what the invariant is about.
LEMMA OtherSteps ==
  ASSUME SearchInv, pc' \in {"freeze", "visit", "rejected", "admitted", "compiled", "failed"},
         UNCHANGED <<wf, io, root, color, stack, cycle>>
  PROVE  SearchInv'
BY DEF SearchInv, TypeOK, GrayIsActive, Passed, Chain, Closed, NoTrap, Roots, CycleIsThere, Black

-----------------------------------------------------------------------------
\* The outer loop starts a call for a white task and passes any other.
LEMMA RootStep ==
  ASSUME SearchInv, VisitRoot
  PROVE  SearchInv'
<1> DEFINE n == wf.tasks[root].name
<1> USE DEF SearchInv
<1>1. wf \in Workflow /\ root \in 1 .. Len(wf.tasks) /\ wf' = wf /\ stack = <<>> /\ root' = root + 1
  BY DEF VisitRoot, TypeOK, Workflow
<1>2. n \in TaskNames(wf) /\ n \in Vertices(wf)
  BY <1>1 DEF TaskNames, Vertices, Indices
<1>3. \A x \in Vertices(wf) : color[x] # "gray"
  BY <1>1 DEF GrayIsActive
<1>r. \A i \in 1 .. (root - 1) : wf.tasks[i].name \in Vertices(wf)
  BY <1>1 DEF TaskNames, Vertices, Indices
<1>4. CASE color[n] = "white"
  <2>1. stack' = <<Call(n, 1)>> /\ color' = [color EXCEPT ![n] = "gray"]
    BY <1>4 DEF VisitRoot
  <2>2. Len(stack') = 1 /\ stack'[1].name = n /\ stack'[1].next = 1
    BY <2>1 DEF Call
  <2>3. TypeOK'
    <3>1. stack' \in Seq([name : Vertices(wf), next : Nat \ {0}])
      BY <1>2, <2>1 DEF Call
    <3>2. root' \in 1 .. (Len(wf.tasks) + 1)
      BY <1>1 DEF Workflow
    <3> QED BY <1>1, <1>2, <2>1, <2>2, <3>1, <3>2 DEF TypeOK, VisitRoot
  <2>4. Black' = Black
    BY <1>1, <1>2, <1>4, <2>1 DEF Black, TypeOK
  <2>5. GrayIsActive'
    BY <1>1, <1>2, <1>3, <2>1, <2>2 DEF GrayIsActive, TypeOK
  <2>6. Passed'
    BY <2>2 DEF Passed
  <2>7. Chain'
    BY <2>2 DEF Chain
  <2>8. Closed' /\ NoTrap'
    BY <1>1, <2>4 DEF Closed, NoTrap
  <2>9. Roots'
    <3>1. color'[n] = "gray"
      BY <1>2, <2>1 DEF TypeOK
    <3>2. \A i \in 1 .. (root - 1) : color'[wf.tasks[i].name] # "white"
      BY <1>2, <1>r, <2>1 DEF Roots, TypeOK
    <3> QED BY <1>1, <3>1, <3>2 DEF Roots
  <2>10. CycleIsThere'
    BY <1>1 DEF CycleIsThere, VisitRoot
  <2> QED BY <2>3, <2>5, <2>6, <2>7, <2>8, <2>9, <2>10
<1>5. CASE color[n] # "white"
  <2>1. UNCHANGED <<wf, io, pc, color, stack, cycle>>
    BY <1>5 DEF VisitRoot
  <2>2. TypeOK'
    BY <1>1, <2>1 DEF TypeOK, Workflow
  <2>3. Roots'
    BY <1>1, <1>5, <2>1 DEF Roots
  <2> QED BY <2>1, <2>2, <2>3 DEF GrayIsActive, Passed, Chain, Closed, NoTrap, CycleIsThere, Black
<1> QED BY <1>4, <1>5

\* A gray dependency closes a cycle of active calls.
LEMMA GrayStep ==
  ASSUME SearchInv, stack # <<>>, Top.next \in 1 .. Len(Adj(wf, Top.name)),
         color[Adj(wf, Top.name)[Top.next]] = "gray"
  PROVE  Cyclic(wf)
<1> USE DEF SearchInv
<1> DEFINE d == Adj(wf, Top.name)[Top.next]
           L == Len(stack)
<1>1. stack \in Seq(Frames) /\ L \in Nat \ {0} /\ Top = stack[L] /\ Top.name \in Vertices(wf)
  BY TopType
<1>2. d \in Vertices(wf)
  BY <1>1, AdjType DEF TypeOK
<1>3. PICK m \in 1 .. L : stack[m].name = d
  BY <1>2 DEF GrayIsActive
<1> DEFINE S == {stack[k].name : k \in m .. L}
<1>4. S \in SUBSET Vertices(wf) /\ d \in S
  <2>1. \A k \in m .. L : k \in 1 .. L
    BY <1>1, <1>3
  <2>2. \A k \in 1 .. L : stack[k] \in Frames
    BY <1>1
  <2>3. \A k \in m .. L : stack[k].name \in Vertices(wf)
    BY <2>1, <2>2 DEF Frames
  <2>4. m \in m .. L
    BY <1>1, <1>3
  <2> QED BY <1>3, <2>3, <2>4
<1>5. ASSUME NEW x \in S
      PROVE  \E j \in 1 .. Len(Adj(wf, x)) : Adj(wf, x)[j] \in S
  <2>1. PICK k \in m .. L : x = stack[k].name
    OBVIOUS
  <2>2. CASE k = L
    BY <1>1, <1>4, <2>1, <2>2
  <2>3. CASE k < L
    <3>1. k \in 1 .. (L - 1) /\ k + 1 \in m .. L
      BY <1>1, <2>1, <2>3
    <3>2. PICK j \in 1 .. Len(Adj(wf, x)) : Adj(wf, x)[j] = stack[k + 1].name
      BY <2>1, <3>1 DEF Chain
    <3> QED BY <3>1, <3>2
  <2> QED BY <1>1, <2>1, <2>2, <2>3
<1>6. Trap(wf, S)
  BY <1>4, <1>5 DEF Trap
<1> QED BY <1>4, <1>6 DEF Cyclic

\* The loop over dependencies calls for a white one, passes a black one and
\* reports a gray one.
LEMMA DepStep ==
  ASSUME SearchInv, VisitDep
  PROVE  SearchInv'
<1> USE DEF SearchInv
<1> DEFINE d == Adj(wf, Top.name)[Top.next]
           L == Len(stack)
<1>1. /\ stack \in Seq(Frames) /\ L \in Nat \ {0} /\ Top = stack[L]
      /\ Top.name \in Vertices(wf) /\ Top.next \in Nat \ {0}
  BY TopType DEF VisitDep
<1>2. wf' = wf /\ io' = io /\ pc' = pc /\ root' = root /\ stack # <<>> /\ wf \in Workflow
  BY DEF VisitDep, TypeOK
<1>3. Top.next \in 1 .. Len(Adj(wf, Top.name)) /\ d \in Vertices(wf)
  BY <1>1, <1>2, AdjType DEF VisitDep
<1>4. CASE color[d] = "gray" /\ cycle' = TRUE /\ UNCHANGED <<color, stack>>
  <2>1. Cyclic(wf)
    BY <1>2, <1>3, <1>4, GrayStep
  <2>2. TypeOK'
    BY <1>2, <1>4 DEF TypeOK
  <2> QED BY <1>2, <1>4, <2>1, <2>2
           DEF GrayIsActive, Passed, Chain, Closed, NoTrap, Roots, CycleIsThere, Black
<1>a. /\ Advanced \in Seq(Frames) /\ Len(Advanced) = L
      /\ \A k \in 1 .. L : /\ Advanced[k].name = stack[k].name
                           /\ k < L => Advanced[k].next = stack[k].next
      /\ Advanced[L].next = Top.next + 1
  BY <1>1, <1>2, AdvancedStack
<1>5. CASE color[d] = "white" /\ color' = [color EXCEPT ![d] = "gray"]
           /\ stack' = Append(Advanced, Call(d, 1)) /\ UNCHANGED cycle
  <2>1. /\ stack' \in Seq(Frames) /\ Len(stack') = L + 1
        /\ \A k \in 1 .. L : stack'[k] = Advanced[k]
        /\ stack'[L + 1].name = d /\ stack'[L + 1].next = 1
    <3>1. Call(d, 1) \in Frames /\ Call(d, 1).name = d /\ Call(d, 1).next = 1
      BY <1>3 DEF Call, Frames
    <3> QED BY <1>1, <1>a, <1>5, <3>1
  <2>2. \A k \in 1 .. L : stack'[k].name = stack[k].name /\ stack[k].name # d
    BY <1>3, <1>5, <1>a, <2>1 DEF GrayIsActive
  <2>3. Black' = Black
    BY <1>2, <1>3, <1>5 DEF Black, TypeOK
  <2>4. \A k, l \in 1 .. Len(stack') : stack'[k].name = stack'[l].name => k = l
    <3>1. \A k, l \in 1 .. L : stack'[k].name = stack'[l].name => k = l
      BY <2>2 DEF TypeOK
    <3>2. \A k \in 1 .. L : stack'[k].name # stack'[L + 1].name
      BY <2>1, <2>2
    <3>3. \A k \in 1 .. Len(stack') : k \in 1 .. L \/ k = L + 1
      BY <1>1, <2>1
    <3> QED BY <3>1, <3>2, <3>3
  <2>5. TypeOK'
    BY <1>2, <1>3, <1>5, <2>1, <2>4 DEF TypeOK, Frames
  <2>6. GrayIsActive'
    <3> SUFFICES ASSUME NEW x \in Vertices(wf)
                 PROVE  color'[x] = "gray" <=> \E k \in 1 .. Len(stack') : stack'[k].name = x
      BY <1>2 DEF GrayIsActive
    <3>1. CASE x = d
      <4>1. color'[x] = "gray"
        BY <1>5, <3>1 DEF TypeOK
      <4>2. L + 1 \in 1 .. Len(stack') /\ stack'[L + 1].name = x
        BY <1>1, <2>1, <3>1
      <4> QED BY <4>1, <4>2
    <3>2. CASE x # d
      <4>1. color'[x] = color[x]
        BY <1>5, <3>2 DEF TypeOK
      <4>2. (\E k \in 1 .. Len(stack') : stack'[k].name = x) <=> \E k \in 1 .. L : stack[k].name = x
        BY <1>1, <2>1, <2>2, <3>2
      <4> QED BY <4>1, <4>2 DEF GrayIsActive
    <3> QED BY <3>1, <3>2
  <2>7. Passed'
    <3> SUFFICES ASSUME NEW k \in 1 .. (L + 1),
                        NEW j \in 1 .. Len(Adj(wf, stack'[k].name)), j < stack'[k].next
                 PROVE  \/ Adj(wf, stack'[k].name)[j] \in Black
                        \/ k < L + 1 /\ Adj(wf, stack'[k].name)[j] = stack'[k + 1].name
      BY <1>2, <2>1, <2>3 DEF Passed
    <3>1. CASE k = L + 1
      BY <2>1, <3>1
    <3>2. CASE k = L /\ j = Top.next
      BY <1>1, <2>1, <2>2, <3>2
    <3>3. CASE k = L /\ j # Top.next
      <4>1. j < stack[L].next /\ j \in 1 .. Len(Adj(wf, stack[L].name)) /\ L \in 1 .. L
        BY <1>1, <1>a, <2>1, <2>2, <3>3
      <4> QED BY <1>1, <2>2, <3>3, <4>1 DEF Passed
    <3>4. CASE k < L
      <4>1. k \in 1 .. L /\ k + 1 \in 1 .. L /\ stack'[k].name = stack[k].name
            /\ stack'[k].next = stack[k].next /\ stack'[k + 1].name = stack[k + 1].name
        BY <1>1, <1>a, <2>1, <2>2, <3>4
      <4> QED BY <4>1 DEF Passed
    <3> QED BY <1>1, <3>1, <3>2, <3>3, <3>4
  <2>8. Chain'
    <3> SUFFICES ASSUME NEW k \in 1 .. L
                 PROVE  \E j \in 1 .. Len(Adj(wf, stack[k].name)) :
                          Adj(wf, stack[k].name)[j] = stack'[k + 1].name
      <4>1. Len(stack') - 1 = L
        BY <1>1, <2>1
      <4> QED BY <1>2, <2>2, <4>1 DEF Chain
    <3>1. CASE k = L
      BY <1>1, <1>3, <2>1, <3>1
    <3>2. CASE k < L
      <4>1. k \in 1 .. (L - 1) /\ k + 1 \in 1 .. L
        BY <1>1, <3>2
      <4> QED BY <2>2, <4>1 DEF Chain
    <3> QED BY <1>1, <3>1, <3>2
  <2>9. Closed' /\ NoTrap'
    BY <1>2, <2>3 DEF Closed, NoTrap
  <2>10. Roots'
    <3>1. \A i \in 1 .. (root - 1) : wf.tasks[i].name \in Vertices(wf)
      BY <1>2 DEF TypeOK, TaskNames, Vertices, Indices, Workflow
    <3> QED BY <1>2, <1>5, <3>1 DEF Roots, TypeOK
  <2>11. CycleIsThere'
    BY <1>2, <1>5 DEF CycleIsThere
  <2> QED BY <2>5, <2>6, <2>7, <2>8, <2>9, <2>10, <2>11
<1>6. CASE color[d] = "black" /\ stack' = Advanced /\ UNCHANGED <<color, cycle>>
  <2>1. /\ stack' \in Seq(Frames) /\ Len(stack') = L
        /\ \A k \in 1 .. L : stack'[k].name = stack[k].name
    BY <1>6, <1>a
  <2>2. Black' = Black /\ d \in Black
    BY <1>2, <1>3, <1>6 DEF Black
  <2>3. TypeOK'
    BY <1>2, <1>6, <2>1 DEF TypeOK, Frames
  <2>4. GrayIsActive'
    BY <1>2, <1>6, <2>1 DEF GrayIsActive
  <2>5. Passed'
    <3> SUFFICES ASSUME NEW k \in 1 .. L,
                        NEW j \in 1 .. Len(Adj(wf, stack[k].name)), j < stack'[k].next
                 PROVE  \/ Adj(wf, stack[k].name)[j] \in Black
                        \/ k < L /\ Adj(wf, stack[k].name)[j] = stack'[k + 1].name
      BY <1>2, <2>1, <2>2 DEF Passed
    <3>1. CASE k = L /\ j = Top.next
      BY <1>1, <2>2, <3>1
    <3>2. CASE k = L /\ j # Top.next
      <4>1. j < stack[k].next
        BY <1>1, <1>6, <1>a, <3>2
      <4> QED BY <3>2, <4>1 DEF Passed
    <3>3. CASE k < L
      <4>1. j < stack[k].next /\ k + 1 \in 1 .. L
        BY <1>1, <1>6, <1>a, <3>3
      <4> QED BY <2>1, <4>1 DEF Passed
    <3> QED BY <1>1, <3>1, <3>2, <3>3
  <2>6. Chain'
    <3>1. \A k \in 1 .. (L - 1) : k \in 1 .. L /\ k + 1 \in 1 .. L
      BY <1>1
    <3> QED BY <1>2, <2>1, <3>1 DEF Chain
  <2>7. Closed' /\ NoTrap' /\ Roots' /\ CycleIsThere'
    BY <1>2, <1>6, <2>2 DEF Closed, NoTrap, Roots, CycleIsThere
  <2> QED BY <2>3, <2>4, <2>5, <2>6, <2>7
<1> QED BY <1>4, <1>5, <1>6 DEF VisitDep

\* The call that returns has only finished dependencies, none of them itself:
\* finishing it makes no trap, because without it a trap would be one before.
LEMMA DoneStep ==
  ASSUME SearchInv, VisitDone
  PROVE  SearchInv'
<1> USE DEF SearchInv
<1> DEFINE L == Len(stack)
           n == Top.name
<1>1. /\ stack \in Seq(Frames) /\ L \in Nat \ {0} /\ Top = stack[L]
      /\ n \in Vertices(wf) /\ Top.next \in Nat \ {0}
  BY TopType DEF VisitDone
<1>2. /\ UNCHANGED <<wf, io, pc, root, cycle>> /\ wf \in Workflow
      /\ color' = [color EXCEPT ![n] = "black"]
      /\ stack' = SubSeq(stack, 1, L - 1)
  BY DEF VisitDone, TypeOK
<1>3. /\ stack' \in Seq(Frames) /\ Len(stack') = L - 1
      /\ \A k \in 1 .. (L - 1) : stack'[k] = stack[k] /\ k \in 1 .. L
  <2>1. L - 1 \in Nat /\ L - 1 <= L /\ \A k \in 1 .. (L - 1) : k \in 1 .. L
    BY <1>1
  <2>2. \A k \in 1 .. (L - 1) : stack[k] \in Frames
    BY <1>1, <2>1
  <2>3. SubSeq(stack, 1, L - 1) = [k \in 1 .. (L - 1) |-> stack[k]]
    BY <1>1, <2>1
  <2> HIDE DEF L
  <2>4. [k \in 1 .. (L - 1) |-> stack[k]] \in Seq(Frames)
    BY <2>1, <2>2
  <2>5. Len([k \in 1 .. (L - 1) |-> stack[k]]) = L - 1
    BY <2>1
  <2> QED BY <1>2, <2>1, <2>3, <2>4, <2>5
<1>4. color[n] = "gray" /\ n \notin Black
  BY <1>1 DEF GrayIsActive, Black
<1>5. Black' = Black \cup {n}
  BY <1>1, <1>2 DEF Black, TypeOK
<1>6. \A j \in 1 .. Len(Adj(wf, n)) : Adj(wf, n)[j] \in Black
  <2> SUFFICES ASSUME NEW j \in 1 .. Len(Adj(wf, n)) PROVE Adj(wf, n)[j] \in Black
    OBVIOUS
  <2>1. Len(Adj(wf, n)) \in Nat
    BY <1>1, <1>2, AdjType
  <2>2. L \in 1 .. L /\ j < stack[L].next
    BY <1>1, <2>1 DEF VisitDone
  <2> QED BY <1>1, <2>2 DEF Passed
<1>7. \A k \in 1 .. (L - 1) : stack[k].name # n
  <2>1. \A k, l \in 1 .. L : stack[k].name = stack[l].name => k = l
    BY DEF TypeOK
  <2>2. \A k \in 1 .. (L - 1) : k \in 1 .. L /\ L \in 1 .. L /\ k # L
    BY <1>1
  <2>3. n = stack[L].name
    BY DEF Top
  <2> HIDE DEF L, n
  <2> QED BY <2>1, <2>2, <2>3
<1>8. TypeOK'
  <2>1. \A k, l \in 1 .. Len(stack') : stack'[k].name = stack'[l].name => k = l
    <3>1. \A k, l \in 1 .. L : stack[k].name = stack[l].name => k = l
      BY DEF TypeOK
    <3> QED BY <1>3, <3>1
  <2> QED BY <1>1, <1>2, <1>3, <2>1 DEF TypeOK, Frames
<1>9. GrayIsActive'
  <2> SUFFICES ASSUME NEW x \in Vertices(wf)
               PROVE  color'[x] = "gray" <=> \E k \in 1 .. (L - 1) : stack'[k].name = x
    BY <1>2, <1>3 DEF GrayIsActive
  <2>1. CASE x = n
    BY <1>1, <1>2, <1>3, <1>7, <2>1 DEF TypeOK
  <2>2. CASE x # n
    <3>1. color'[x] = color[x]
      BY <1>2, <2>2 DEF TypeOK
    <3>2. \A k \in 1 .. L : k \in 1 .. (L - 1) \/ stack[k].name = n
      BY <1>1
    <3>3. (\E k \in 1 .. (L - 1) : stack'[k].name = x) <=> \E k \in 1 .. L : stack[k].name = x
      BY <1>3, <2>2, <3>2
    <3> QED BY <3>1, <3>3 DEF GrayIsActive
  <2> QED BY <2>1, <2>2
<1>10. Passed'
  <2> SUFFICES ASSUME NEW k \in 1 .. (L - 1),
                      NEW j \in 1 .. Len(Adj(wf, stack[k].name)), j < stack[k].next
               PROVE  \/ Adj(wf, stack[k].name)[j] \in Black'
                      \/ k < L - 1 /\ Adj(wf, stack[k].name)[j] = stack'[k + 1].name
    BY <1>2, <1>3 DEF Passed
  <2>1. k \in 1 .. L /\ k < L
    BY <1>1
  <2>2. \/ Adj(wf, stack[k].name)[j] \in Black
        \/ Adj(wf, stack[k].name)[j] = stack[k + 1].name
    BY <2>1 DEF Passed
  <2>3. k = L - 1 \/ (k < L - 1 /\ k + 1 \in 1 .. (L - 1))
    BY <1>1
  <2> QED BY <1>1, <1>3, <1>5, <2>2, <2>3
<1>11. Chain'
  <2>1. \A k \in 1 .. (L - 1 - 1) : k \in 1 .. (L - 1) /\ k + 1 \in 1 .. (L - 1)
    BY <1>1
  <2>2. \A k \in 1 .. (Len(stack') - 1) : k \in 1 .. (L - 1) /\ k + 1 \in 1 .. (L - 1)
    BY <1>3, <2>1
  <2>3. \A k \in 1 .. (Len(stack') - 1) : stack'[k] = stack[k] /\ stack'[k + 1] = stack[k + 1]
    BY <1>3, <2>2
  <2> SUFFICES ASSUME NEW k \in 1 .. (Len(stack') - 1)
               PROVE  \E j \in 1 .. Len(Adj(wf, stack'[k].name)) :
                        Adj(wf, stack'[k].name)[j] = stack'[k + 1].name
    BY <1>2 DEF Chain
  <2>4. PICK j \in 1 .. Len(Adj(wf, stack[k].name)) :
          Adj(wf, stack[k].name)[j] = stack[k + 1].name
    BY <2>2 DEF Chain
  <2> QED BY <2>3, <2>4
<1>12. Closed'
  BY <1>2, <1>5, <1>6 DEF Closed
<1>13. NoTrap'
  <2> SUFFICES ASSUME NEW S \in SUBSET (Black \cup {n}), Trap(wf, S) PROVE FALSE
    BY <1>2, <1>5 DEF NoTrap
  <2> DEFINE R == S \ {n}
  <2>1. R \in SUBSET Black
    OBVIOUS
  <2>2. \A x \in R : \E j \in 1 .. Len(Adj(wf, x)) : Adj(wf, x)[j] \in R
    <3> SUFFICES ASSUME NEW x \in R
                 PROVE  \E j \in 1 .. Len(Adj(wf, x)) : Adj(wf, x)[j] \in R
      OBVIOUS
    <3>1. PICK j \in 1 .. Len(Adj(wf, x)) : Adj(wf, x)[j] \in S
      BY DEF Trap
    <3>2. Adj(wf, x)[j] \in Black
      BY <2>1 DEF Closed
    <3> QED BY <1>4, <3>1, <3>2
  <2>3. R # {}
    <3>1. CASE n \notin S
      BY <3>1 DEF Trap
    <3>2. CASE n \in S
      <4>1. PICK j \in 1 .. Len(Adj(wf, n)) : Adj(wf, n)[j] \in S
        BY <3>2 DEF Trap
      <4> QED BY <1>4, <1>6, <4>1
    <3> QED BY <3>1, <3>2
  <2>4. Trap(wf, R)
    BY <2>2, <2>3 DEF Trap
  <2> QED BY <2>1, <2>4 DEF NoTrap
<1>14. Roots' /\ CycleIsThere'
  <2>1. \A i \in 1 .. (root - 1) : wf.tasks[i].name \in Vertices(wf)
    BY <1>2 DEF TypeOK, TaskNames, Vertices, Indices, Workflow
  <2> QED BY <1>1, <1>2, <2>1 DEF Roots, CycleIsThere, TypeOK
<1> QED BY <1>8, <1>9, <1>10, <1>11, <1>12, <1>13, <1>14

-----------------------------------------------------------------------------
\* The search starts with nothing visited.
LEMMA InitSearch == Init => SearchInv
<1> SUFFICES ASSUME Init PROVE SearchInv
  OBVIOUS
<1>1. TypeOK
  <2>1. wf \in Workflow /\ Len(wf.tasks) \in Nat
    BY WorkflowsAssumption DEF Init, Workflow
  <2>2. root \in 1 .. (Len(wf.tasks) + 1)
    BY <2>1 DEF Init
  <2>3. stack \in Seq([name : Vertices(wf), next : Nat \ {0}])
        /\ \A k, l \in 1 .. Len(stack) : stack[k].name = stack[l].name => k = l
    BY DEF Init
  <2> QED BY <2>1, <2>2, <2>3 DEF Init, TypeOK
<1>2. Black = {}
  BY DEF Init, Black
<1> QED BY <1>1, <1>2 DEF SearchInv, GrayIsActive, Passed, Chain, Closed, NoTrap, Trap, Roots,
             CycleIsThere, Init

\* Every step preserves the invariant of the search.
LEMMA NextSearch == SearchInv /\ [Next]_vars => SearchInv'
<1> SUFFICES ASSUME SearchInv, [Next]_vars PROVE SearchInv'
  OBVIOUS
<1>1. CASE RejectFrozen
  BY <1>1, OtherSteps DEF RejectFrozen
<1>2. CASE PassFreeze
  BY <1>2, OtherSteps DEF PassFreeze
<1>3. CASE VisitRoot
  BY <1>3, RootStep
<1>4. CASE VisitDep
  BY <1>4, DepStep
<1>5. CASE VisitDone
  BY <1>5, DoneStep
<1>6. CASE Judge
  BY <1>6, OtherSteps DEF Judge
<1>7. CASE Compile
  BY <1>7, OtherSteps DEF Compile
<1>8. CASE UNCHANGED vars
  BY <1>8, OtherSteps DEF vars, SearchInv, TypeOK
<1> QED BY <1>1, <1>2, <1>3, <1>4, <1>5, <1>6, <1>7, <1>8 DEF Next

\* The invariant of the search answers the question: at the end every task
\* is black, and a trap could only be among tasks.
LEMMA SearchAnswers == SearchInv => CyclesFound
<1> SUFFICES ASSUME SearchInv, Searched, ~cycle, Cyclic(wf) PROVE FALSE
  BY DEF CyclesFound, SearchInv, CycleIsThere
<1> USE DEF SearchInv
<1>1. stack = <<>> /\ root > Len(wf.tasks) /\ wf \in Workflow
  BY DEF Searched, TypeOK
<1>2. TaskNames(wf) \subseteq Black
  <2> SUFFICES ASSUME NEW i \in Indices(wf) PROVE wf.tasks[i].name \in Black
    BY DEF TaskNames
  <2>1. i \in 1 .. (root - 1) /\ wf.tasks[i].name \in Vertices(wf)
    BY <1>1 DEF Indices, Vertices, TaskNames, TypeOK, Workflow
  <2>2. color[wf.tasks[i].name] # "white"
    BY <2>1 DEF Roots
  <2>3. color[wf.tasks[i].name] # "gray"
    BY <1>1, <2>1 DEF GrayIsActive
  <2> QED BY <2>1, <2>2, <2>3 DEF Black, TypeOK
<1>3. PICK S \in SUBSET Vertices(wf) : Trap(wf, S)
  BY DEF Cyclic
<1>4. S \subseteq TaskNames(wf)
  <2> SUFFICES ASSUME NEW n \in S, n \notin TaskNames(wf) PROVE FALSE
    OBVIOUS
  <2>1. Len(Adj(wf, n)) = 0
    BY <1>1, AdjType
  <2> QED BY <1>3, <2>1 DEF Trap
<1> QED BY <1>2, <1>3, <1>4 DEF NoTrap

\* The search of the webhook is well typed and never re-enters a name.
THEOREM TypeCorrect == Spec => []TypeOK
<1>1. SearchInv => TypeOK
  BY DEF SearchInv
<1> QED BY <1>1, InitSearch, NextSearch, PTL DEF Spec

\* For every workflow, detectDAGCycles reports an error iff the dependencies
\* have a cycle.
THEOREM SearchIsExact == Spec => []CyclesFound
BY InitSearch, NextSearch, SearchAnswers, PTL DEF Spec

\* What the compiler refuses was admitted, so every task has one type; the
\* refused one is an agentTask, which only a frozen name may carry.
FrozenInv ==
  /\ wf \in Workflow
  /\ pc \in {"visit", "admitted", "failed"} => ~Thawed(wf)
  /\ pc \in {"admitted", "failed"} => Valid(wf)
  /\ OnlyFrozenFails

\* A task with one type is built unless that type is agentTask.
LEMMA OneTypeIsBuilt ==
  ASSUME NEW t \in Task, OneOfEach(t), ~Buildable(t)
  PROVE  KindOf(t) = "agentTask" /\ "agentTask" \in t.types
<1> DEFINE order == <<"agent", "agentTask", "container", "http", "switch">>
           Set(k) == order[k] \in t.types
<1>1. t.types # {} /\ t.types \subseteq TaskTypes
  <2>1. Cardinality({}) = 0
    BY FS_EmptySet
  <2>2. Cardinality(t.types) = 1
    BY DEF OneOfEach
  <2>3. t.types # {}
    BY <2>1, <2>2
  <2>4. t.types \subseteq TaskTypes
    BY DEF Task
  <2> QED BY <2>3, <2>4
<1>2. \E k \in 1 .. 5 : Set(k)
  BY <1>1 DEF TaskTypes
<1>3. PICK k \in 1 .. 5 : Set(k) /\ \A l \in 1 .. (k - 1) : ~Set(l)
  BY <1>2
<1> DEFINE c == CHOOSE x \in 1 .. 5 : Set(x) /\ \A l \in 1 .. (x - 1) : ~Set(l)
<1>4. c \in 1 .. 5 /\ Set(c)
  BY <1>3
<1>5. KindOf(t) = order[c]
  BY <1>2 DEF KindOf
<1> HIDE DEF c
<1>6. order[c] \in t.types /\ order[c] # "none"
  BY <1>4
<1> QED BY <1>5, <1>6 DEF Buildable

\* Every step preserves the invariant of the freeze.
LEMMA NextFrozen == FrozenInv /\ [Next]_vars => FrozenInv'
<1> SUFFICES ASSUME FrozenInv, [Next]_vars PROVE FrozenInv'
  OBVIOUS
<1>1. CASE Compile
  <2>1. wf' = wf /\ ~Thawed(wf) /\ Valid(wf) /\ pc' \in {"compiled", "failed"}
    BY <1>1 DEF Compile, FrozenInv
  <2>2. ASSUME pc' = "failed"
        PROVE  \E i \in Indices(wf) : KindOf(wf.tasks[i]) = "agentTask" /\ wf.tasks[i].name \in wf.frozen
    <3>1. PICK i \in Indices(wf) : ~Buildable(wf.tasks[i])
      BY <1>1, <2>2 DEF Compile
    <3>2. wf.tasks[i] \in Task /\ OneOfEach(wf.tasks[i])
      BY <2>1 DEF Valid, FrozenInv, Workflow, Indices
    <3>3. KindOf(wf.tasks[i]) = "agentTask" /\ "agentTask" \in wf.tasks[i].types
      BY <3>1, <3>2, OneTypeIsBuilt
    <3> QED BY <2>1, <3>3 DEF Thawed
  <2> QED BY <2>1, <2>2 DEF FrozenInv, OnlyFrozenFails
<1>2. CASE ~Compile
  <2>1. (wf' = wf /\ pc' # "failed") \/ UNCHANGED <<wf, pc>>
    BY <1>2 DEF Next, vars, RejectFrozen, PassFreeze, VisitRoot, VisitDep, VisitDone, Judge
  <2>2. pc' \in {"visit", "admitted"} => ~Thawed(wf)
    BY <1>2 DEF FrozenInv, Next, vars, RejectFrozen, PassFreeze, VisitRoot, VisitDep, VisitDone,
                Judge, Searched
  <2>3. pc' = "admitted" => Valid(wf)
    BY <1>2 DEF FrozenInv, Next, vars, RejectFrozen, PassFreeze, VisitRoot, VisitDep, VisitDone,
                Judge
  <2> QED BY <2>1, <2>2, <2>3 DEF FrozenInv, OnlyFrozenFails
<1> QED BY <1>1, <1>2

\* The compiler refuses an admitted workflow only for an agentTask that the
\* stored object already had.
THEOREM AdmittedCompiles == Spec => []OnlyFrozenFails
<1>1. Init => FrozenInv
  BY WorkflowsAssumption DEF Init, FrozenInv, OnlyFrozenFails
<1>2. FrozenInv => OnlyFrozenFails
  BY DEF FrozenInv
<1> QED BY <1>1, <1>2, NextFrozen, PTL DEF Spec

-----------------------------------------------------------------------------
(* What an admitted workflow compiles to.                                   *)

\* With unique names, the map's entry for a task's name is that task's list.
LEMMA OwnEntry ==
  ASSUME NEW w \in Workflow, UniqueNames(w), NEW i \in Indices(w)
  PROVE  Adj(w, w.tasks[i].name) = w.tasks[i].deps
<1> DEFINE n == w.tasks[i].name
           Last(k) == /\ w.tasks[k].name = n
                      /\ \A j \in Indices(w) : w.tasks[j].name = n => j <= k
<1>1. i \in Nat
  BY DEF Indices, Workflow
<1>2. \A j \in Indices(w) : w.tasks[j].name = n => j = i
  BY DEF UniqueNames
<1>3. Last(i)
  BY <1>1, <1>2
<1>4. LastTask(w, n) \in Indices(w) /\ Last(LastTask(w, n))
  BY <1>3 DEF LastTask
<1>5. LastTask(w, n) = i
  BY <1>2, <1>4
<1>6. n \in TaskNames(w)
  BY DEF TaskNames
<1> QED BY <1>5, <1>6 DEF Adj

\* A branch of a switch runs its target's template and waits for the switch.
LEMMA BranchFacts ==
  ASSUME NEW w \in Workflow, NEW i \in Indices(w), NEW n \in BuildSwitchDAGTasks(w, i)
  PROVE  \E c \in CasesOf(w.tasks[i]) :
           /\ n.deps = {w.tasks[i].name}
           /\ n.template \in {c.then, c.default} \ {Absent}
           /\ \A x \in n.refs : \E r \in c.refs : x = Translate(r)
<1> DEFINE t == w.tasks[i]
           J == 1 .. Len(t.cases)
<1>1. CASE \E j \in J : /\ t.cases[j].then # Absent
                        /\ n = BranchNode(w, i, j, "then", t.cases[j].then, t.cases[j].refs)
  <2>1. PICK j \in J : /\ t.cases[j].then # Absent
                       /\ n = BranchNode(w, i, j, "then", t.cases[j].then, t.cases[j].refs)
    BY <1>1
  <2>2. t.cases[j] \in CasesOf(t)
    BY DEF CasesOf
  <2>3. n.deps = {t.name} /\ n.template = t.cases[j].then
        /\ n.refs = {Translate(r) : r \in t.cases[j].refs}
    BY <2>1 DEF BranchNode
  <2> QED BY <2>1, <2>2, <2>3
<1>2. CASE \E j \in J : /\ t.cases[j].default # Absent
                        /\ n = BranchNode(w, i, j, "default", t.cases[j].default, {})
  <2>1. PICK j \in J : /\ t.cases[j].default # Absent
                       /\ n = BranchNode(w, i, j, "default", t.cases[j].default, {})
    BY <1>2
  <2>2. t.cases[j] \in CasesOf(t)
    BY DEF CasesOf
  <2>3. n.deps = {t.name} /\ n.template = t.cases[j].default /\ n.refs = {}
    BY <2>1 DEF BranchNode
  <2> QED BY <2>1, <2>2, <2>3
<1> QED BY <1>1, <1>2 DEF BuildSwitchDAGTasks

\* A DAG task is the node of a task or a branch of a switch.
LEMMA NodeCases ==
  ASSUME NEW w, NEW n \in Nodes(w)
  PROVE  \/ \E i \in Indices(w) : n = PlainNode(w, i)
         \/ \E i \in Indices(w) : n \in BuildSwitchDAGTasks(w, i)
BY DEF Nodes

\* The DAG tasks of a valid workflow name tasks only, and carry translations
\* of valid expressions only.
LEMMA NodeFacts ==
  ASSUME NEW w \in Workflow, Valid(w), NEW n \in Nodes(w)
  PROVE  /\ n.template \in TaskNames(w)
         /\ n.deps \subseteq TaskNames(w)
         /\ \A x \in n.refs : \E i \in Indices(w) : \E r \in Expressions(w.tasks[i]) :
              x = Translate(r)
<1>1. \A i \in Indices(w) : w.tasks[i].name \in TaskNames(w)
  BY DEF TaskNames
<1>2. CASE \E i \in Indices(w) : n = PlainNode(w, i)
  <2>1. PICK i \in Indices(w) : n = PlainNode(w, i)
    BY <1>2
  <2>2. n.template = w.tasks[i].name /\ n.deps = DepsOf(w.tasks[i])
        /\ n.refs = {Translate(r) : r \in w.tasks[i].when}
    BY <2>1 DEF PlainNode
  <2>3. ValidDependencies(w, w.tasks[i])
    BY DEF Valid
  <2>4. w.tasks[i].when \subseteq Expressions(w.tasks[i])
    BY DEF Expressions
  <2> QED BY <1>1, <2>2, <2>3, <2>4 DEF ValidDependencies
<1>3. CASE \E i \in Indices(w) : n \in BuildSwitchDAGTasks(w, i)
  <2>1. PICK i \in Indices(w) : n \in BuildSwitchDAGTasks(w, i)
    BY <1>3
  <2>2. PICK c \in CasesOf(w.tasks[i]) :
           /\ n.deps = {w.tasks[i].name}
           /\ n.template \in {c.then, c.default} \ {Absent}
           /\ \A x \in n.refs : \E r \in c.refs : x = Translate(r)
    BY <2>1, BranchFacts
  <2>3. ValidTargets(w, w.tasks[i])
    BY DEF Valid
  <2>4. n.template \in TaskNames(w)
    BY <2>2, <2>3 DEF ValidTargets
  <2>5. c.refs \subseteq Expressions(w.tasks[i])
    BY DEF Expressions
  <2> QED BY <1>1, <2>2, <2>4, <2>5
<1> QED BY <1>2, <1>3, NodeCases

\* Every task has a node and a template of its name.
LEMMA TaskIsCompiled ==
  ASSUME NEW w, NEW b, NEW i \in Indices(w)
  PROVE  /\ PlainNode(w, i) \in Nodes(w)
         /\ PlainNode(w, i).name = w.tasks[i].name
         /\ PlainNode(w, i).template = w.tasks[i].name
         /\ PlainNode(w, i).deps = DepsOf(w.tasks[i])
         /\ BuildTemplate(w, i, b) \in Templates(w, b)
         /\ BuildTemplate(w, i, b).name = w.tasks[i].name
         /\ BuildTemplate(w, i, b).outs = Outputs(w.tasks[i], b)
<1>1. PlainNode(w, i) \in Nodes(w) /\ BuildTemplate(w, i, b) \in Templates(w, b)
  BY DEF Nodes, Templates
<1>2. /\ PlainNode(w, i).name = w.tasks[i].name
      /\ PlainNode(w, i).template = w.tasks[i].name
      /\ PlainNode(w, i).deps = DepsOf(w.tasks[i])
  BY DEF PlainNode
<1>3. /\ BuildTemplate(w, i, b).name = w.tasks[i].name
      /\ BuildTemplate(w, i, b).outs = Outputs(w.tasks[i], b)
  BY DEF BuildTemplate
<1> QED BY <1>1, <1>2, <1>3

\* A circle of DAG tasks is a circle of tasks: what a DAG task waits for are
\* names of tasks, and where no branch has such a name, the nodes of tasks.
LEMMA NoCircle ==
  ASSUME NEW w \in Workflow, Valid(w), ~Shadowed(w), NEW S \in SUBSET Nodes(w), S # {},
         \A n \in S : \E m \in S : m.name \in n.deps
  PROVE  Cyclic(w)
<1> DEFINE I == {i \in Indices(w) : PlainNode(w, i) \in S}
           T == {w.tasks[i].name : i \in I}
<1>1. ASSUME NEW n \in S
      PROVE  \E i \in I : w.tasks[i].name \in n.deps
  <2>1. PICK m \in S : m.name \in n.deps
    OBVIOUS
  <2>2. m.name \in TaskNames(w)
    BY <2>1, NodeFacts
  <2>3. ~ \E i \in Indices(w) : m \in BuildSwitchDAGTasks(w, i)
    BY <2>2 DEF Shadowed
  <2>4. PICK i \in Indices(w) : m = PlainNode(w, i)
    BY <2>3, NodeCases
  <2>5. m.name = w.tasks[i].name
    BY <2>4, TaskIsCompiled
  <2> QED BY <2>1, <2>4, <2>5
<1>2. T # {}
  BY <1>1
<1>3. T \in SUBSET Vertices(w)
  BY DEF Vertices, TaskNames
<1>4. ASSUME NEW x \in T
      PROVE  \E j \in 1 .. Len(Adj(w, x)) : Adj(w, x)[j] \in T
  <2>1. PICK i \in I : x = w.tasks[i].name
    OBVIOUS
  <2>2. PlainNode(w, i).deps = DepsOf(w.tasks[i]) /\ PlainNode(w, i) \in S
    BY TaskIsCompiled
  <2>3. PICK k \in I : w.tasks[k].name \in DepsOf(w.tasks[i])
    BY <1>1, <2>2
  <2>4. PICK j \in 1 .. Len(w.tasks[i].deps) : w.tasks[i].deps[j] = w.tasks[k].name
    BY <2>3 DEF DepsOf
  <2>5. Adj(w, x) = w.tasks[i].deps
    BY <2>1, OwnEntry DEF Valid
  <2> QED BY <2>4, <2>5
<1> QED BY <1>2, <1>3, <1>4 DEF Trap, Cyclic

-----------------------------------------------------------------------------
(* Parameters.                                                              *)

\* A non-empty set of numbers has a least one.
LEMMA Least ==
  ASSUME NEW T \in SUBSET Nat, T # {}
  PROVE  \E x \in T : \A y \in T : x <= y
<1>1. PICK x \in T : \A y \in T : ~ (<<y, x>> \in OpToRel(<, Nat))
  BY NatLessThanWellFounded, WFMin
<1>2. \A y \in T : ~ (y < x)
  BY <1>1 DEF OpToRel
<1>3. \A y \in T : x \in Nat /\ y \in Nat
  OBVIOUS
<1> QED BY <1>2, <1>3

\* Where the headers are.
LEMMA SpotFacts ==
  ASSUME NEW w \in Workflow
  PROVE  \A s \in HeaderSpots(w) :
           /\ s = <<s[1], s[2]>> /\ s[1] \in Nat /\ s[2] \in Nat
           /\ HeaderAt(w, s) \in Header
<1> SUFFICES ASSUME NEW s \in HeaderSpots(w)
             PROVE  /\ s = <<s[1], s[2]>> /\ s[1] \in Nat /\ s[2] \in Nat
                    /\ HeaderAt(w, s) \in Header
  OBVIOUS
<1>1. PICK i \in Indices(w) : \E j \in 1 .. Len(w.tasks[i].headers) : s = <<i, j>>
  BY DEF HeaderSpots
<1>2. PICK j \in 1 .. Len(w.tasks[i].headers) : s = <<i, j>>
  BY <1>1
<1>3. w.tasks \in Seq(Task) /\ i \in 1 .. Len(w.tasks)
  BY DEF Workflow, Indices
<1>4. w.tasks[i] \in Task
  BY <1>3
<1>5. w.tasks[i].headers \in Seq(Header)
  BY <1>4 DEF Task
<1>6. w.tasks[i].headers[j] \in Header
  BY <1>5
<1>7. HeaderAt(w, s) = w.tasks[i].headers[j]
  BY <1>2 DEF HeaderAt
<1>8. i \in Nat /\ j \in Nat
  BY <1>3, <1>5
<1> QED BY <1>2, <1>6, <1>7, <1>8

\* Of the headers that share a parameter name one is the first.
LEMMA SomeFirst ==
  ASSUME NEW w \in Workflow, NEW s \in HeaderSpots(w)
  PROVE  \E u \in HeaderSpots(w) : /\ CmParam(HeaderAt(w, u)) = CmParam(HeaderAt(w, s))
                                   /\ FirstOfItsName(w, u)
<1> DEFINE Same == {u \in HeaderSpots(w) : CmParam(HeaderAt(w, u)) = CmParam(HeaderAt(w, s))}
           R == {u[1] : u \in Same}
<1>1. \A u \in Same : u[1] \in Nat /\ u[2] \in Nat
  BY SpotFacts
<1>2. R \in SUBSET Nat /\ R # {}
  BY <1>1
<1>3. PICK a \in R : \A y \in R : a <= y
  BY <1>2, Least
<1> DEFINE Row == {u \in Same : u[1] = a}
           K == {u[2] : u \in Row}
<1>4. K \in SUBSET Nat /\ K # {}
  BY <1>1
<1>5. PICK b \in K : \A y \in K : b <= y
  BY <1>4, Least
<1>6. PICK u \in Row : u[2] = b
  OBVIOUS
<1>7. ASSUME NEW v \in Same PROVE ~Before(v, u)
  <2>1. a <= v[1] /\ v[1] \in Nat /\ v[2] \in Nat /\ u[1] = a /\ u[1] \in Nat /\ u[2] \in Nat
    BY <1>1, <1>3
  <2>2. v[1] = a => b <= v[2]
    BY <1>5
  <2> QED BY <1>6, <2>1, <2>2 DEF Before
<1>8. \A v \in HeaderSpots(w) :
        CmParam(HeaderAt(w, v)) = CmParam(HeaderAt(w, u)) => v \in Same
  OBVIOUS
<1>9. FirstOfItsName(w, u)
  BY <1>7, <1>8 DEF FirstOfItsName
<1> QED BY <1>9

\* Two names that start with one segment, and agree, agree in the second
\* segment and in the rest.
LEMMA SegmentsApart ==
  ASSUME NEW S, NEW a \in S, NEW b \in S, NEW c \in S, NEW k \in Seq(S), NEW l \in Seq(S),
         <<a, b>> \o k = <<a, c>> \o l
  PROVE  b = c /\ k = l
<1> DEFINE P == <<a, b>>
           Q == <<a, c>>
<1>1. P \in Seq(S) /\ Q \in Seq(S) /\ Len(P) = 2 /\ Len(Q) = 2 /\ P[2] = b /\ Q[2] = c
  OBVIOUS
<1>2. P \o k = Q \o l
  OBVIOUS
<1> HIDE DEF P, Q
<1>c. /\ Len(P \o k) = Len(P) + Len(k) /\ Len(Q \o l) = Len(Q) + Len(l)
      /\ \A i \in 1 .. Len(P) + Len(k) : (P \o k)[i] = IF i <= Len(P) THEN P[i] ELSE k[i - Len(P)]
      /\ \A i \in 1 .. Len(Q) + Len(l) : (Q \o l)[i] = IF i <= Len(Q) THEN Q[i] ELSE l[i - Len(Q)]
  BY <1>1, ConcatProperties
<1>3. Len(P \o k) = 2 + Len(k) /\ Len(Q \o l) = 2 + Len(l) /\ Len(k) \in Nat /\ Len(l) \in Nat
  BY <1>1, <1>c
<1>4. Len(k) = Len(l)
  BY <1>2, <1>3
<1>5. (P \o k)[2] = b /\ (Q \o l)[2] = c
  BY <1>1, <1>3, <1>c
<1>6. ASSUME NEW j \in 1 .. Len(k) PROVE k[j] = l[j]
  <2>1. (P \o k)[j + 2] = k[j] /\ (Q \o l)[j + 2] = l[j]
    <3>1. j + 2 \in 1 .. 2 + Len(k) /\ ~ (j + 2 <= 2) /\ j + 2 - 2 = j
      BY <1>3
    <3> QED BY <1>1, <1>4, <1>c, <3>1
  <2> QED BY <1>2, <2>1
<1>7. k = l
  BY <1>4, <1>6
<1> QED BY <1>2, <1>5, <1>7

\* The name of a ConfigMap parameter tells the ConfigMap and the key.
LEMMA CmParamIsOneToOne ==
  ASSUME NEW h \in Header, NEW g \in Header, CmParam(h) = CmParam(g)
  PROVE  h = g
<1> DEFINE S == STRING \cup {"_cm"}
<1>a. "_cm" \in S
  OBVIOUS
<1>b. h.cm \in S /\ h.key \in Seq(S) /\ g.cm \in S /\ g.key \in Seq(S)
  BY DEF Header, Name
<1> HIDE DEF S
<1>1. h = [cm |-> h.cm, key |-> h.key] /\ g = [cm |-> g.cm, key |-> g.key]
  BY DEF Header, Name
<1>c. PICK z \in S : z = "_cm"
  BY <1>a
<1>2. <<z, h.cm>> \o h.key = <<z, g.cm>> \o g.key
  BY <1>c DEF CmParam
<1> DEFINE b == h.cm
           c == g.cm
           k == h.key
           l == g.key
<1>d. b \in S /\ c \in S /\ k \in Seq(S) /\ l \in Seq(S) /\ <<z, b>> \o k = <<z, c>> \o l
  BY <1>b, <1>2
<1> HIDE DEF b, c, k, l
<1>e. b = c /\ k = l
  BY <1>d, SegmentsApart
<1>3. h.cm = g.cm /\ h.key = g.key
  BY <1>e DEF b, c, k, l
<1> QED BY <1>1, <1>3

\* Every header has the parameter it reads, valued by its own key.
LEMMA HeaderHasParameter ==
  ASSUME NEW w \in Workflow, NEW s \in HeaderSpots(w)
  PROVE  \E p \in Parameters(w) : /\ p.name = CmParam(HeaderAt(w, s))
                                  /\ p.from = <<HeaderAt(w, s)>>
<1>1. PICK u \in HeaderSpots(w) : /\ CmParam(HeaderAt(w, u)) = CmParam(HeaderAt(w, s))
                                  /\ FirstOfItsName(w, u)
  BY SomeFirst
<1>2. HeaderAt(w, u) = HeaderAt(w, s)
  BY <1>1, SpotFacts, CmParamIsOneToOne
<1> DEFINE p == [at |-> u, name |-> CmParam(HeaderAt(w, u)), from |-> <<HeaderAt(w, u)>>]
<1>3. p \in Parameters(w)
  BY <1>1 DEF Parameters
<1>4. p.name = CmParam(HeaderAt(w, s)) /\ p.from = <<HeaderAt(w, s)>>
  BY <1>2
<1> HIDE DEF p
<1> QED BY <1>3, <1>4

\* A parameter a header reads is valued by that header's key, or declared by the
\* object.
LEMMA HeaderParameters ==
  ASSUME NEW w \in Workflow, NEW s \in HeaderSpots(w), NEW p \in Parameters(w),
         p.name = CmParam(HeaderAt(w, s))
  PROVE  p.from = <<HeaderAt(w, s)>> \/ p.name \in ParamNames(w)
<1>1. CASE p = [at |-> <<0, 0>>, name |-> Traceparent, from |-> <<>>]
  <2>1. HeaderAt(w, s) \in Header
    BY SpotFacts
  <2>2. CmParam(HeaderAt(w, s))[1] = "_cm"
    <3> DEFINE h == HeaderAt(w, s)
               S == STRING \cup {"_cm"}
               P == <<"_cm", h.cm>>
    <3>1. h.cm \in S /\ h.key \in Seq(S) /\ "_cm" \in S
      BY <2>1 DEF Header, Name
    <3> HIDE DEF S, h
    <3>2. P \in Seq(S) /\ Len(P) = 2 /\ P[1] = "_cm" /\ Len(h.key) \in Nat
      BY <3>1
    <3> HIDE DEF P
    <3>3. (P \o h.key)[1] = P[1]
      BY <3>1, <3>2, ConcatProperties
    <3> QED BY <3>2, <3>3 DEF CmParam, P, h
  <2>3. Traceparent[1] = "_flokoa"
    BY DEF Traceparent
  <2>4. p.name = Traceparent
    BY <1>1
  <2> QED BY <2>2, <2>3, <2>4
<1>2. CASE p \in {[at |-> <<0, j>>, name |-> w.params[j], from |-> <<>>] : j \in 1 .. Len(w.params)}
  BY <1>2 DEF ParamNames
<1>3. CASE \E u \in HeaderSpots(w) :
             p = [at |-> u, name |-> CmParam(HeaderAt(w, u)), from |-> <<HeaderAt(w, u)>>]
  <2>1. PICK u \in HeaderSpots(w) :
             p = [at |-> u, name |-> CmParam(HeaderAt(w, u)), from |-> <<HeaderAt(w, u)>>]
    BY <1>3
  <2>2. CmParam(HeaderAt(w, u)) = CmParam(HeaderAt(w, s)) /\ p.from = <<HeaderAt(w, u)>>
    BY <2>1
  <2>3. HeaderAt(w, u) = HeaderAt(w, s)
    BY <2>2, SpotFacts, CmParamIsOneToOne
  <2> QED BY <2>2, <2>3
<1> QED BY <1>1, <1>2, <1>3 DEF Parameters

\* The traceparent and the parameters of the object are declared.
LEMMA DeclaredParameters ==
  ASSUME NEW w \in Workflow
  PROVE  /\ \E p \in Parameters(w) : p.name = Traceparent
         /\ \A n \in ParamNames(w) : \E p \in Parameters(w) : p.name = n
<1>1. \E p \in Parameters(w) : p.name = Traceparent
  <2> DEFINE p == [at |-> <<0, 0>>, name |-> Traceparent, from |-> <<>>]
  <2>1. p \in Parameters(w) /\ p.name = Traceparent
    BY DEF Parameters
  <2> HIDE DEF p
  <2> QED BY <2>1
<1>2. ASSUME NEW n \in ParamNames(w) PROVE \E p \in Parameters(w) : p.name = n
  <2>1. PICK j \in 1 .. Len(w.params) : n = w.params[j]
    BY DEF ParamNames
  <2> DEFINE p == [at |-> <<0, j>>, name |-> w.params[j], from |-> <<>>]
  <2>2. p \in Parameters(w) /\ p.name = n
    BY <2>1 DEF Parameters
  <2> HIDE DEF p
  <2> QED BY <2>2
<1> QED BY <1>1, <1>2

-----------------------------------------------------------------------------
(* References.                                                              *)

Accounted(x) == Resolves(wf, x) \/ (x.scope = "tasks" /\ NoParameters(wf, x.name))

\* A parameter reference resolves to a declared parameter.
LEMMA ParamSettled ==
  ASSUME NEW n, \E p \in Parameters(wf) : p.name = n
  PROVE  Accounted(WorkflowParam(n))
<1>1. WorkflowParam(n).scope = "workflow" /\ WorkflowParam(n).name = n
  BY DEF WorkflowParam
<1>2. Resolves(wf, WorkflowParam(n))
  BY <1>1 DEF Resolves
<1> QED BY <1>2 DEF Accounted

\* A reference to an output of a task resolves unless the task declares no
\* parameters.
LEMMA OutputSettled ==
  ASSUME io \in BOOLEAN, NEW i \in Indices(wf), NEW o \in {"result", "artifact"}
  PROVE  Accounted(TaskOutput(wf.tasks[i].name, o))
<1> DEFINE x == TaskOutput(wf.tasks[i].name, o)
           t == wf.tasks[i]
<1>1. x.scope = "tasks" /\ x.name = t.name /\ x.out = <<"parameters", o>>
  BY DEF TaskOutput
<1>2. CASE KindOf(t) = "switch" \/ (KindOf(t) = "container" /\ io)
  <2>1. NoParameters(wf, t.name)
    BY <1>2 DEF NoParameters
  <2> QED BY <1>1, <2>1 DEF Accounted
<1>3. CASE ~ (KindOf(t) = "switch" \/ (KindOf(t) = "container" /\ io))
  <2>1. Outputs(t, io) = {"parameters"} \X {"result", "artifact"}
    BY <1>3 DEF Outputs
  <2>2. x.out \in Outputs(t, io)
    BY <1>1, <2>1
  <2> HIDE DEF x
  <2>3. \E n \in Nodes(wf) : \E u \in Templates(wf, io) :
          n.name = x.name /\ u.name = n.template /\ x.out \in u.outs
    BY <1>1, <2>2, TaskIsCompiled
  <2>4. Resolves(wf, x)
    BY <1>1, <2>3 DEF Resolves
  <2> QED BY <2>4 DEF Accounted, x
<1> QED BY <1>2, <1>3

\* What a valid expression is translated to is settled.
LEMMA TranslateSettled ==
  ASSUME TypeOK, NEW r, IsValidExpression(wf, r)
  PROVE  Accounted(Translate(r))
<1>1. CASE r.kind = "argo"
  <2>1. Translate(r) = Opaque
    BY <1>1 DEF Translate
  <2>2. Opaque.scope = "opaque"
    BY DEF Opaque
  <2>3. Resolves(wf, Opaque)
    BY <2>2 DEF Resolves
  <2> QED BY <2>1, <2>3 DEF Accounted
<1>2. CASE r.kind = "param" /\ r.of \in ParamNames(wf)
  <2>1. Translate(r) = WorkflowParam(r.of)
    BY <1>2 DEF Translate
  <2>2. \E p \in Parameters(wf) : p.name = r.of
    BY <1>2, DeclaredParameters DEF TypeOK
  <2> QED BY <2>1, <2>2, ParamSettled
<1>3. CASE r.kind = "task" /\ r.of \in TaskNames(wf) /\ r.suffix \in {"output", "field", "artifact"}
  <2>1. PICK i \in Indices(wf) : r.of = wf.tasks[i].name
    BY <1>3 DEF TaskNames
  <2>2. \E o \in {"result", "artifact"} : Translate(r) = TaskOutput(r.of, o)
    BY <1>3 DEF Translate
  <2> QED BY <2>1, <2>2, OutputSettled DEF TypeOK
<1> QED BY <1>1, <1>2, <1>3 DEF IsValidExpression

\* What a template refers to.
LEMMA TemplateRefs ==
  ASSUME NEW w, NEW b, NEW t \in Templates(w, b), NEW x \in t.refs
  PROVE  \E i \in Indices(w) :
           \/ \E r \in Expressions(w.tasks[i]) : x = Translate(r)
           \/ \E j \in 1 .. Len(w.tasks[i].headers) :
                x = WorkflowParam(CmParam(w.tasks[i].headers[j]))
           \/ x = WorkflowParam(Traceparent)
<1>1. PICK i \in Indices(w) : t = BuildTemplate(w, i, b)
  <2>1. t # Main
    BY DEF Main
  <2> QED BY <2>1 DEF Templates
<1>2. t.refs = {Translate(r) : r \in w.tasks[i].refs}
               \cup {WorkflowParam(CmParam(w.tasks[i].headers[j])) :
                       j \in 1 .. Len(w.tasks[i].headers)}
               \cup (IF KindOf(w.tasks[i]) \in {"agent", "container"}
                     THEN {WorkflowParam(Traceparent)} ELSE {})
  BY <1>1 DEF BuildTemplate
<1>3. w.tasks[i].refs \subseteq Expressions(w.tasks[i])
  BY DEF Expressions
<1> QED BY <1>2, <1>3

\* Every reference of a compiled valid workflow is settled.
LEMMA AllSettled ==
  ASSUME TypeOK, Valid(wf)
  PROVE  /\ \A n \in Nodes(wf) : \A x \in n.refs : Accounted(x)
         /\ \A t \in Templates(wf, io) : \A x \in t.refs : Accounted(x)
<1>1. wf \in Workflow
  BY DEF TypeOK
<1>2. \A i \in Indices(wf) : \A r \in Expressions(wf.tasks[i]) : Accounted(Translate(r))
  BY TranslateSettled DEF Valid
<1>3. \A n \in Nodes(wf) : \A x \in n.refs : Accounted(x)
  BY <1>1, <1>2, NodeFacts
<1>4. ASSUME NEW t \in Templates(wf, io), NEW x \in t.refs PROVE Accounted(x)
  <2>1. PICK i \in Indices(wf) :
           \/ \E r \in Expressions(wf.tasks[i]) : x = Translate(r)
           \/ \E j \in 1 .. Len(wf.tasks[i].headers) :
                x = WorkflowParam(CmParam(wf.tasks[i].headers[j]))
           \/ x = WorkflowParam(Traceparent)
    BY TemplateRefs
  <2>2. CASE \E r \in Expressions(wf.tasks[i]) : x = Translate(r)
    BY <1>2, <2>2
  <2>3. CASE \E j \in 1 .. Len(wf.tasks[i].headers) :
                x = WorkflowParam(CmParam(wf.tasks[i].headers[j]))
    <3>1. PICK j \in 1 .. Len(wf.tasks[i].headers) :
                x = WorkflowParam(CmParam(wf.tasks[i].headers[j]))
      BY <2>3
    <3>2. <<i, j>> \in HeaderSpots(wf) /\ HeaderAt(wf, <<i, j>>) = wf.tasks[i].headers[j]
      BY DEF HeaderSpots, HeaderAt
    <3>3. \E p \in Parameters(wf) : p.name = CmParam(wf.tasks[i].headers[j])
      BY <1>1, <3>2, HeaderHasParameter
    <3> QED BY <3>1, <3>3, ParamSettled
  <2>4. CASE x = WorkflowParam(Traceparent)
    BY <1>1, <2>4, DeclaredParameters, ParamSettled
  <2> QED BY <2>1, <2>2, <2>3, <2>4
<1> QED BY <1>3, <1>4

-----------------------------------------------------------------------------
\* Only a valid workflow without cycles comes past the webhook.
AdmittedInv ==
  /\ SearchInv
  /\ pc \in {"admitted", "compiled", "failed"} => Valid(wf) /\ ~Cyclic(wf)

\* Every step preserves it: the verdict is given on a finished search.
LEMMA NextAdmitted == AdmittedInv /\ [Next]_vars => AdmittedInv'
<1> SUFFICES ASSUME AdmittedInv, [Next]_vars PROVE AdmittedInv'
  OBVIOUS
<1>1. SearchInv' /\ wf' = wf
  BY NextSearch DEF AdmittedInv, Next, vars, RejectFrozen, PassFreeze, VisitRoot, VisitDep,
                    VisitDone, Judge, Compile
<1>2. CASE Judge
  <2>1. Searched /\ (pc' \in {"admitted", "compiled", "failed"} => Valid(wf) /\ ~cycle)
    BY <1>2 DEF Judge
  <2>2. CyclesFound
    BY SearchAnswers DEF AdmittedInv
  <2>3. pc' \in {"admitted", "compiled", "failed"} => Valid(wf) /\ ~Cyclic(wf)
    BY <2>1, <2>2 DEF CyclesFound
  <2> QED BY <1>1, <2>3 DEF AdmittedInv
<1>3. CASE ~Judge
  <2>1. pc' \in {"admitted", "compiled", "failed"} => pc \in {"admitted", "compiled", "failed"}
    BY <1>3 DEF Next, vars, RejectFrozen, PassFreeze, VisitRoot, VisitDep, VisitDone, Compile
  <2> QED BY <1>1, <2>1 DEF AdmittedInv
<1> QED BY <1>2, <1>3

\* What the webhook admits compiles to something that runs.
LEMMA AdmittedRuns == AdmittedInv => CompiledInv
<1> SUFFICES ASSUME AdmittedInv PROVE CompiledInv
  OBVIOUS
<1>1. TypeOK /\ wf \in Workflow
  BY DEF AdmittedInv, SearchInv, TypeOK
<1>2. CASE pc # "compiled"
  BY <1>1, <1>2 DEF CompiledInv, DagIsRunnable, ReferencesResolve, HeadersReadTheirKey
<1>3. CASE pc = "compiled"
  <2>1. Valid(wf) /\ ~Cyclic(wf)
    BY <1>3 DEF AdmittedInv
  <2>2. DagIsRunnable
    <3>1. ASSUME NEW n \in Nodes(wf)
          PROVE  /\ \E t \in Templates(wf, io) :
                      /\ t.name = n.template
                      /\ \A u \in Templates(wf, io) :
                           u.name = t.name => u = t \/ Entrypoint \in TaskNames(wf)
                 /\ \A d \in n.deps : \E m \in Nodes(wf) : m.name = d
      <4>1. n.template \in TaskNames(wf) /\ n.deps \subseteq TaskNames(wf)
        BY <1>1, <2>1, NodeFacts
      <4>2. \A d \in TaskNames(wf) : \E m \in Nodes(wf) : m.name = d
        BY TaskIsCompiled DEF TaskNames
      <4>3. PICK i \in Indices(wf) : n.template = wf.tasks[i].name
        BY <4>1 DEF TaskNames
      <4> DEFINE t == BuildTemplate(wf, i, io)
      <4>4. t \in Templates(wf, io) /\ t.name = n.template
        BY <4>3, TaskIsCompiled
      <4>5. ASSUME NEW u \in Templates(wf, io), u.name = n.template
            PROVE  u = t \/ Entrypoint \in TaskNames(wf)
        <5>1. CASE u = Main
          BY <4>1, <4>5, <5>1 DEF Main
        <5>2. CASE \E j \in Indices(wf) : u = BuildTemplate(wf, j, io)
          <6>1. PICK j \in Indices(wf) : u = BuildTemplate(wf, j, io)
            BY <5>2
          <6>2. wf.tasks[j].name = wf.tasks[i].name
            BY <4>3, <4>5, <6>1, TaskIsCompiled
          <6> QED BY <2>1, <6>1, <6>2 DEF Valid, UniqueNames
        <5> QED BY <5>1, <5>2 DEF Templates
      <4> HIDE DEF t
      <4> QED BY <4>1, <4>2, <4>4, <4>5
    <3>2. \/ Shadowed(wf)
          \/ ~ \E S \in SUBSET Nodes(wf) : S # {} /\ \A n \in S : \E m \in S : m.name \in n.deps
      BY <1>1, <2>1, NoCircle
    <3> QED BY <3>1, <3>2 DEF DagIsRunnable
  <2>3. ReferencesResolve
    BY <1>1, <2>1, AllSettled DEF ReferencesResolve, Accounted
  <2>4. HeadersReadTheirKey
    BY <1>1, HeaderHasParameter, HeaderParameters DEF HeadersReadTheirKey
  <2> QED BY <1>1, <2>2, <2>3, <2>4 DEF CompiledInv
<1> QED BY <1>2, <1>3

\* Whatever workflows are submitted: what the webhook admits and the compiler
\* compiles has a template and a node for everything it names, the template the
\* only one of its name unless a task is called like the entrypoint, waits in no
\* circle unless a branch took a task's name, refers only to parameters and
\* outputs that are declared, and reads every header from its own key, unless a
\* declared parameter is called like the header's.
THEOREM CompiledRuns == Spec => []CompiledInv
<1>1. Init => AdmittedInv
  BY InitSearch DEF AdmittedInv, Init
<1> QED BY <1>1, NextAdmitted, AdmittedRuns, PTL DEF Spec

-----------------------------------------------------------------------------
(* The catalogue.                                                           *)

\* One of a set, and the sizes the webhook rules tell apart.
LEMMA OneOf ==
  /\ \A S : ExactlyOneOf(S) /\ IsFiniteSet(S) => \E x : S = {x}
  /\ ~ ExactlyOneOf({})
  /\ ~ ExactlyOneOf({"port", "portName"})
<1>1. \A S : ExactlyOneOf(S) /\ IsFiniteSet(S) => \E x : S = {x}
  BY FS_Singleton DEF ExactlyOneOf
<1>2. ~ ExactlyOneOf({})
  BY FS_EmptySet DEF ExactlyOneOf
<1>3. IsFiniteSet({"port", "portName"})
  <2>1. IsFiniteSet({"port"})
    BY FS_Singleton
  <2>2. IsFiniteSet({"port"} \cup {"portName"})
    BY <2>1, FS_AddElement
  <2>3. {"port"} \cup {"portName"} = {"port", "portName"}
    OBVIOUS
  <2> QED BY <2>2, <2>3
<1>4. ~ \E x : {"port", "portName"} = {x}
  OBVIOUS
<1> QED BY <1>1, <1>2, <1>3, <1>4

\* What the AgentTool webhook admits its controller accepts.
LEMMA AdmittedToolIsValid ==
  ASSUME NEW t \in ToolSpecs, ToolAdmitted(t)
  PROVE  ToolValid(t)
<1>1. t.svc # {"port", "portName"}
  BY OneOf DEF ToolAdmitted, HasService
<1> QED BY <1>1 DEF ToolAdmitted, ToolValid

\* What a compile makes of a tool, at whatever moment the Service is read.
LEMMA ToolFacts ==
  ASSUME NEW t \in ToolSpecs, servicePort \in BOOLEAN,
         NEW q, q = CompileTool(t)
  PROVE  /\ q.verdict \in {"compiled", "retrying", "failed"}
         /\ q.verdict = "failed" => ~ ToolValid(t)
         /\ q.verdict = "compiled" /\ ToolValid(t) =>
               \/ q.url.host \in {"http", "bad"}
               \/ /\ q.url.host = "service"
                  /\ q.url.port \in {"given", "named", "default"}
                  /\ q.url.path \in {"absolute", "/mcp", "/sse"}
         /\ q.headers = t.headers \cup {t.secrets[i] : i \in 1..Len(t.secrets)}
<1> DEFINE u == ToolURL(t)
<1>1. /\ t.url \in {"empty", "http", "bad"} /\ t.path \in {"empty", "absolute", "relative"}
      /\ t.transport \in {"/mcp", "/sse"}
  BY DEF ToolSpecs
<1>2. CASE t.url # "empty"
  <2>1. u.host = t.url /\ u.port = "none"
    BY <1>2 DEF ToolURL
  <2>2. q.verdict = "compiled" /\ q.url = u
    BY <1>1, <1>2, <2>1 DEF CompileTool
  <2> QED BY <1>1, <1>2, <2>1, <2>2 DEF CompileTool
<1>3. CASE t.url = "empty" /\ ~ HasService(t)
  <2>1. u.host = "none" /\ u.port = "none"
    BY <1>3 DEF ToolURL
  <2>2. q.verdict = "failed"
    BY <2>1 DEF CompileTool
  <2>3. Targets(t) = {}
    BY <1>3 DEF Targets
  <2>4. ~ ToolValid(t)
    BY <2>3, OneOf DEF ToolValid
  <2> QED BY <2>2, <2>4 DEF CompileTool
<1>4. CASE t.url = "empty" /\ HasService(t)
  <2>1. /\ u.host = "service" /\ u.port \in {"given", "default", "named", "missing"}
        /\ t.path # "empty" => u.path = t.path
        /\ t.path = "empty" => u.path = t.transport
    BY <1>4 DEF ToolURL
  <2>2. /\ u.port = "missing" => q.verdict = "retrying"
        /\ u.port # "missing" => q.verdict = "compiled"
        /\ q.url = u
    BY <2>1 DEF CompileTool
  <2>3. ToolValid(t) => u.path \in {"absolute", "/mcp", "/sse"}
    BY <1>1, <2>1 DEF ToolValid
  <2> QED BY <2>1, <2>2, <2>3 DEF CompileTool
<1> QED BY <1>2, <1>3, <1>4

\* The headers of an admitted tool.
LEMMA HeaderFacts ==
  ASSUME NEW t \in ToolSpecs, HeaderSecretsDistinct(t),
         NEW h \in t.headers \cup {t.secrets[i] : i \in 1..Len(t.secrets)},
         NEW g \in t.headers \cup {t.secrets[i] : i \in 1..Len(t.secrets)},
         h \notin t.headers, h.lower = g.lower
  PROVE  h = g
<1>1. PICK i \in 1..Len(t.secrets) : h = t.secrets[i]
  OBVIOUS
<1>2. g \notin t.headers
  BY <1>1 DEF HeaderSecretsDistinct
<1>3. PICK j \in 1..Len(t.secrets) : g = t.secrets[j]
  BY <1>2
<1>4. Len(t.secrets) \in Nat
  BY DEF ToolSpecs
<1>5. ~ (j < i) /\ ~ (i < j)
  <2>1. j < i => j \in 1..(i - 1)
    BY <1>4
  <2>2. i < j => i \in 1..(j - 1)
    BY <1>4
  <2> QED BY <1>1, <1>3, <2>1, <2>2 DEF HeaderSecretsDistinct
<1>6. i = j
  BY <1>4, <1>5
<1> QED BY <1>1, <1>3, <1>6

\* A provider with one block has the type both halves of the code find.
LEMMA ProviderTypes ==
  ASSUME NEW p \in ProviderSpecs, ProviderValid(p)
  PROVE  /\ GetProviderType(p) = ProviderVerdict(p)
         /\ ProviderVerdict(p) \in {"openai", "anthropic", "google", "bedrock"}
<1>1. IsFiniteSet({"openai", "anthropic", "google", "bedrock"})
  <2> DEFINE A == {"openai"} \cup {"anthropic"}
             B == A \cup {"google"}
             C == B \cup {"bedrock"}
  <2>1. IsFiniteSet({"openai"})
    BY FS_Singleton
  <2>2. IsFiniteSet(A)
    BY <2>1, FS_AddElement
  <2>3. IsFiniteSet(B)
    BY <2>2, FS_AddElement
  <2>4. IsFiniteSet(C)
    BY <2>3, FS_AddElement
  <2>5. C = {"openai", "anthropic", "google", "bedrock"}
    OBVIOUS
  <2> QED BY <2>4, <2>5
<1>2. p.blocks \subseteq {"openai", "anthropic", "google", "bedrock"}
  BY DEF ProviderSpecs
<1>3. IsFiniteSet(p.blocks)
  BY <1>1, <1>2, FS_Subset
<1>4. PICK b : p.blocks = {b}
  BY <1>3, OneOf DEF ProviderValid
<1>5. PICK i \in 1..4 : Order[i] = b
  BY <1>2, <1>4 DEF Order
<1>6. \A j \in 1..4 : Order[j] = b => j = i
  BY <1>5 DEF Order
<1>7. i = CHOOSE k \in 1..4 : /\ Order[k] \in p.blocks
                              /\ \A j \in (k + 1)..4 : Order[j] \notin p.blocks
  <2>1. \A k \in 1..4 : Order[k] \in p.blocks <=> k = i
    BY <1>4, <1>5, <1>6
  <2>2. \A j \in (i + 1)..4 : Order[j] \notin p.blocks
    BY <2>1
  <2> QED BY <2>1, <2>2
<1>8. i = CHOOSE k \in 1..4 : /\ Order[k] \in p.blocks
                              /\ \A j \in 1..(k - 1) : Order[j] \notin p.blocks
  <2>1. \A k \in 1..4 : Order[k] \in p.blocks <=> k = i
    BY <1>4, <1>5, <1>6
  <2>2. \A j \in 1..(i - 1) : Order[j] \notin p.blocks
    BY <2>1
  <2> QED BY <2>1, <2>2
<1>9. ProviderVerdict(p) = b /\ GetProviderType(p) = b
  BY <1>5, <1>7, <1>8 DEF ProviderVerdict, GetProviderType
<1> QED BY <1>2, <1>4, <1>9

\* What the handler of a valid provider yields: its prefix and where the key goes.
LEMMA HandlerFacts ==
  ASSUME NEW p \in ProviderSpecs, ProviderValid(p), NEW h, h = HandlerOf(p)
  PROVE  /\ ProviderVerdict(p) = "google" =>
              (h.prefix = "google-vertex"
                 <=> {"project", "serviceAccountKey"} \cap (h.env \cup h.secretEnv) # {})
         /\ ProviderVerdict(p) # "google" => h.prefix = ProviderVerdict(p)
         /\ p.apiKey /\ ProviderVerdict(p) # "bedrock" => "apiKey" \in h.secretEnv
<1> DEFINE ty == ProviderVerdict(p)
<1>1. GetProviderType(p) = ty /\ ty \in {"openai", "anthropic", "google", "bedrock"}
  BY ProviderTypes
<1>2. /\ h.prefix = IF ty # "google" THEN ty
                    ELSE IF OnVertex(p) THEN "google-vertex" ELSE "google-gla"
      /\ h.env = ProviderEnv(p, ty) /\ h.secretEnv = ProviderSecretEnv(p, ty)
  BY <1>1 DEF HandlerOf
<1>3. p.apiKey /\ ty # "bedrock" => "apiKey" \in h.secretEnv
  BY <1>2 DEF ProviderSecretEnv, APIKeyEnv
<1>4. ASSUME ty = "google"
      PROVE  OnVertex(p) <=> {"project", "serviceAccountKey"} \cap (h.env \cup h.secretEnv) # {}
  <2>1. h.env = p.google \cap {"project", "location"}
    BY <1>2, <1>4 DEF ProviderEnv, GoogleEnv
  <2>2. /\ h.secretEnv \subseteq {"apiKey"} \cup (p.google \cap {"serviceAccountKey"})
        /\ p.google \cap {"serviceAccountKey"} \subseteq h.secretEnv
    BY <1>2, <1>4 DEF ProviderSecretEnv, APIKeyEnv
  <2> QED BY <2>1, <2>2 DEF OnVertex
<1> QED BY <1>1, <1>2, <1>3, <1>4

\* A map laid over another.
LEMMA OverFacts ==
  ASSUME NEW f, NEW g
  PROVE  /\ DOMAIN Over(f, g) = DOMAIN f \cup DOMAIN g
         /\ \A k \in DOMAIN f : Over(f, g)[k] = f[k]
         /\ \A k \in DOMAIN g : k \notin DOMAIN f => Over(f, g)[k] = g[k]
BY DEF Over

\* The layers of the document's settings, the highest first.
Layered(m, s, E) ==
  /\ DOMAIN s = m.fragTyped \cup m.fragExtra \cup m.raw \cup m.typed \cup E
  /\ \A k \in DOMAIN s :
       /\ k \in m.fragTyped => s[k] = "fragTyped"
       /\ k \in m.fragExtra \ m.fragTyped => s[k] = "fragExtra"
       /\ k \in m.raw \ (m.fragTyped \cup m.fragExtra) => s[k] = "raw"
       /\ k \in m.typed \ (m.fragTyped \cup m.fragExtra \cup m.raw) => s[k] = "modelTyped"
       /\ k \in E \ (m.fragTyped \cup m.fragExtra \cup m.raw \cup m.typed)
            => s[k] = "modelExtra"

\* The merge of the settings keeps the precedence of its layers.
LEMMA SettingsFacts ==
  ASSUME NEW m \in ModelSpecs, NEW s, s = CompileSettings(m),
         NEW E, E = IF m.extraIsObject THEN m.extra ELSE {}
  PROVE  Layered(m, s, E)
<1> DEFINE A == Layer(m.fragTyped, "fragTyped")
           B == Layer(m.fragExtra, "fragExtra")
           C == Layer(m.raw, "raw")
           D == Layer(m.typed, "modelTyped")
           F == Layer(E, "modelExtra")
<1>1. s = Over(Over(Over(A, B), C), Over(D, F))
  BY DEF CompileSettings, FragmentSettings, ModelSettings
<1>2. /\ DOMAIN A = m.fragTyped /\ DOMAIN B = m.fragExtra /\ DOMAIN C = m.raw
      /\ DOMAIN D = m.typed /\ DOMAIN F = E
      /\ \A k \in m.fragTyped : A[k] = "fragTyped"
      /\ \A k \in m.fragExtra : B[k] = "fragExtra"
      /\ \A k \in m.raw : C[k] = "raw"
      /\ \A k \in m.typed : D[k] = "modelTyped"
      /\ \A k \in E : F[k] = "modelExtra"
  BY DEF Layer
<1> HIDE DEF A, B, C, D, F
<1> DEFINE P == Over(A, B)
           Q == Over(P, C)
           R == Over(D, F)
<1>3. /\ DOMAIN P = m.fragTyped \cup m.fragExtra
      /\ \A k \in m.fragTyped : P[k] = "fragTyped"
      /\ \A k \in m.fragExtra \ m.fragTyped : P[k] = "fragExtra"
  <2>1. /\ DOMAIN P = DOMAIN A \cup DOMAIN B
        /\ \A k \in DOMAIN A : P[k] = A[k]
        /\ \A k \in DOMAIN B : k \notin DOMAIN A => P[k] = B[k]
    BY OverFacts
  <2> HIDE DEF P
  <2> QED BY <1>2, <2>1
<1>4. /\ DOMAIN R = m.typed \cup E
      /\ \A k \in m.typed : R[k] = "modelTyped"
      /\ \A k \in E \ m.typed : R[k] = "modelExtra"
  <2>1. /\ DOMAIN R = DOMAIN D \cup DOMAIN F
        /\ \A k \in DOMAIN D : R[k] = D[k]
        /\ \A k \in DOMAIN F : k \notin DOMAIN D => R[k] = F[k]
    BY OverFacts
  <2> HIDE DEF R
  <2> QED BY <1>2, <2>1
<1> HIDE DEF P, R
<1>5. /\ DOMAIN Q = m.fragTyped \cup m.fragExtra \cup m.raw
      /\ \A k \in m.fragTyped : Q[k] = "fragTyped"
      /\ \A k \in m.fragExtra \ m.fragTyped : Q[k] = "fragExtra"
      /\ \A k \in m.raw \ (m.fragTyped \cup m.fragExtra) : Q[k] = "raw"
  <2>1. /\ DOMAIN Q = DOMAIN P \cup DOMAIN C
        /\ \A k \in DOMAIN P : Q[k] = P[k]
        /\ \A k \in DOMAIN C : k \notin DOMAIN P => Q[k] = C[k]
    BY OverFacts
  <2> HIDE DEF Q
  <2> QED BY <1>2, <1>3, <2>1
<1> HIDE DEF Q
<1>6. s = Over(Q, R)
  BY <1>1 DEF P, Q, R
<1>7. /\ DOMAIN s = DOMAIN Q \cup DOMAIN R
      /\ \A k \in DOMAIN Q : s[k] = Q[k]
      /\ \A k \in DOMAIN R : k \notin DOMAIN Q => s[k] = R[k]
  <2>1. /\ DOMAIN Over(Q, R) = DOMAIN Q \cup DOMAIN R
        /\ \A k \in DOMAIN Q : Over(Q, R)[k] = Q[k]
        /\ \A k \in DOMAIN R : k \notin DOMAIN Q => Over(Q, R)[k] = R[k]
    BY OverFacts
  <2> QED BY <1>6, <2>1
<1> QED BY <1>4, <1>5, <1>7 DEF Layered

\* The five layers, one by one.
LEMMA LayerFacts ==
  ASSUME NEW m, NEW E, E = IF m.extraIsObject THEN m.extra ELSE {}
  PROVE  /\ Precedence(m)[1] = <<m.fragTyped, "fragTyped">>
         /\ Precedence(m)[2] = <<m.fragExtra, "fragExtra">>
         /\ Precedence(m)[3] = <<m.raw, "raw">>
         /\ Precedence(m)[4] = <<m.typed, "modelTyped">>
         /\ Precedence(m)[5] = <<E, "modelExtra">>
BY DEF Precedence

\* A setting of the document is the highest layer's, and the highest layer that
\* gives a key has its value there.
ReadsLayers(m, s) ==
  /\ DOMAIN s = UNION {Precedence(m)[i][1] : i \in 1..5}
  /\ \A k \in DOMAIN s : \E i \in 1..5 : s[k] = Precedence(m)[i][2] /\ Wins(m, i, k)
  /\ \A i \in 1..5 : \A k \in Precedence(m)[i][1] :
        Wins(m, i, k) => k \in DOMAIN s /\ s[k] = Precedence(m)[i][2]

\* The settings of a compiled document read the layers so.
LEMMA PrecedenceFacts ==
  ASSUME NEW m \in ModelSpecs, NEW s, s = CompileSettings(m)
  PROVE  ReadsLayers(m, s)
<1> DEFINE E == IF m.extraIsObject THEN m.extra ELSE {}
           layers == Precedence(m)
<1>1. Layered(m, s, E)
  BY SettingsFacts
<1> HIDE DEF E
<1>2. /\ layers[1] = <<m.fragTyped, "fragTyped">> /\ layers[2] = <<m.fragExtra, "fragExtra">>
      /\ layers[3] = <<m.raw, "raw">> /\ layers[4] = <<m.typed, "modelTyped">>
      /\ layers[5] = <<E, "modelExtra">>
  BY LayerFacts DEF E
<1>w. \A i, k : Wins(m, i, k)
                 <=> k \in layers[i][1] /\ \A j \in 1..(i - 1) : k \notin layers[j][1]
  BY DEF Wins
<1> HIDE DEF layers
<1>3. \A i \in 1..5 : i = 1 \/ i = 2 \/ i = 3 \/ i = 4 \/ i = 5
  OBVIOUS
<1>4. 1 \in 1..5 /\ 2 \in 1..5 /\ 3 \in 1..5 /\ 4 \in 1..5 /\ 5 \in 1..5
  OBVIOUS
<1>5. DOMAIN s = UNION {layers[i][1] : i \in 1..5}
  BY <1>1, <1>2, <1>3, <1>4 DEF Layered
<1>6. ASSUME NEW k \in DOMAIN s
      PROVE  \E i \in 1..5 : s[k] = layers[i][2] /\ Wins(m, i, k)
  <2>1. CASE k \in m.fragTyped
    BY <1>1, <1>2, <1>w, <2>1 DEF Layered
  <2>2. CASE k \in m.fragExtra \ m.fragTyped
    BY <1>1, <1>2, <1>w, <2>2 DEF Layered
  <2>3. CASE k \in m.raw \ (m.fragTyped \cup m.fragExtra)
    BY <1>1, <1>2, <1>w, <2>3 DEF Layered
  <2>4. CASE k \in m.typed \ (m.fragTyped \cup m.fragExtra \cup m.raw)
    BY <1>1, <1>2, <1>w, <2>4 DEF Layered
  <2>5. CASE k \in E \ (m.fragTyped \cup m.fragExtra \cup m.raw \cup m.typed)
    BY <1>1, <1>2, <1>w, <2>5 DEF Layered
  <2> QED BY <1>1, <2>1, <2>2, <2>3, <2>4, <2>5 DEF Layered
<1>7. ASSUME NEW i \in 1..5, NEW k \in layers[i][1], Wins(m, i, k)
      PROVE  k \in DOMAIN s /\ s[k] = layers[i][2]
  <2>0. k \in DOMAIN s /\ \A j \in 1..(i - 1) : k \notin layers[j][1]
    BY <1>5, <1>7, <1>w
  <2>1. CASE i = 1
    BY <1>1, <1>2, <1>7, <2>0, <2>1 DEF Layered
  <2>2. CASE i = 2
    BY <1>1, <1>2, <1>7, <2>0, <2>2 DEF Layered
  <2>3. CASE i = 3
    BY <1>1, <1>2, <1>7, <2>0, <2>3 DEF Layered
  <2>4. CASE i = 4
    BY <1>1, <1>2, <1>7, <2>0, <2>4 DEF Layered
  <2>5. CASE i = 5
    BY <1>1, <1>2, <1>7, <2>0, <2>5 DEF Layered
  <2> QED BY <1>3, <2>1, <2>2, <2>3, <2>4, <2>5
<1> QED BY <1>5, <1>6, <1>7 DEF layers, ReadsLayers

\* The document is refused over a value that wins, or over the extra block.
LEMMA RefusedFacts ==
  ASSUME NEW m \in ModelSpecs
  PROVE  DocumentRefused(m) <=> ~m.rawIsObject \/ BadValueWins(m)
<1>s. PICK s : s = CompileSettings(m)
  OBVIOUS
<1>1. ReadsLayers(m, s)
  BY <1>s, PrecedenceFacts
<1>2. DocumentRefused(m) <=> ~m.rawIsObject \/ \E k \in DOMAIN s : <<s[k], k>> \in m.refused
  BY <1>s DEF DocumentRefused
<1>3. \A i, k : Wins(m, i, k) => k \in Precedence(m)[i][1]
  BY DEF Wins
<1> QED BY <1>1, <1>2, <1>3 DEF BadValueWins, ReadsLayers

\* The texts referred to, then the fragment's.
LEMMA InstructionFacts ==
  ASSUME NEW m \in ModelSpecs, NEW c, c = CompileInstructions(m)
  PROVE  /\ \A i \in 1..Len(m.refs) : c[i] = m.refs[i]
         /\ m.instructions # <<>> =>
              \A i \in 1..Len(m.instructions) : c[Len(m.refs) + i] = m.instructions[i]
<1>1. m.refs \in Seq(STRING) /\ m.instructions \in Seq(STRING) /\ m.rawInstructions \in Seq(STRING)
  BY DEF ModelSpecs
<1> DEFINE own == FragmentInstructions(m)
           at == TextsAt(m.rawInstructions)
<1>2. Cardinality(at) \in Nat
  <2>1. Len(m.rawInstructions) \in Nat
    BY <1>1
  <2>2. IsFiniteSet(1..Len(m.rawInstructions))
    BY <2>1, FS_Interval
  <2>3. at \subseteq 1..Len(m.rawInstructions)
    BY DEF TextsAt
  <2> QED BY <2>2, <2>3, FS_Subset, FS_CardinalityType
<1>3. CASE m.instructions # <<>>
  <2>1. own = m.instructions
    BY <1>3 DEF FragmentInstructions
  <2>2. c = m.refs \o m.instructions
    BY <2>1 DEF CompileInstructions
  <2> HIDE DEF own
  <2> DEFINE a == m.refs
             b == m.instructions
  <2>3. a \in Seq(STRING) /\ b \in Seq(STRING) /\ c = a \o b
    BY <1>1, <2>2
  <2> HIDE DEF a, b
  <2>4. \A i \in 1..(Len(a) + Len(b)) : c[i] = IF i <= Len(a) THEN a[i] ELSE b[i - Len(a)]
    BY <2>3, ConcatProperties
  <2>5. Len(a) \in Nat /\ Len(b) \in Nat
    BY <2>3
  <2>6. \A i \in 1..Len(a) : c[i] = a[i]
    BY <2>4, <2>5
  <2>7. ASSUME NEW i \in 1..Len(b)
        PROVE  c[Len(a) + i] = b[i]
    <3>1. Len(a) + i \in 1..(Len(a) + Len(b)) /\ ~ (Len(a) + i <= Len(a)) /\ Len(a) + i - Len(a) = i
      BY <2>5
    <3> QED BY <2>4, <3>1
  <2> QED BY <2>6, <2>7 DEF a, b
<1>4. CASE m.instructions = <<>>
  <2> DEFINE kept == [j \in 1..Cardinality(at) |->
                        m.rawInstructions[NthText(m.rawInstructions, j)]]
  <2>1. own = kept
    BY <1>4 DEF FragmentInstructions
  <2> DEFINE T == {kept[j] : j \in 1..Cardinality(at)}
  <2>2. kept \in [1..Cardinality(at) -> T]
    OBVIOUS
  <2> HIDE DEF kept, T, at
  <2>3. kept \in Seq(T)
    BY <1>2, <2>2
  <2>4. c = m.refs \o kept
    BY <2>1 DEF CompileInstructions
  <2>5. m.refs \in Seq(STRING \cup T) /\ kept \in Seq(STRING \cup T)
    BY <1>1, <2>3
  <2> QED BY <1>4, <2>4, <2>5, ConcatProperties
<1> QED BY <1>3, <1>4

\* Finitely many timeouts have a largest.
LEMMA BoundedTimeouts ==
  ASSUME NEW s \in Seq(Nat)
  PROVE  \E b \in Nat : \A i \in 1..Len(s) : s[i] <= b
<1> DEFINE Bad == {n \in Nat : n <= Len(s) /\ \A b \in Nat : \E i \in 1..n : ~ (s[i] <= b)}
<1>0. Len(s) \in Nat /\ \A i \in 1..Len(s) : s[i] \in Nat
  OBVIOUS
<1>1. Bad \in SUBSET Nat
  OBVIOUS
<1>2. \A n \in Nat : n \in Bad <=> n <= Len(s) /\ \A b \in Nat : \E i \in 1..n : ~ (s[i] <= b)
  OBVIOUS
<1> HIDE DEF Bad
<1>3. ASSUME NEW n \in Bad, \A y \in Bad : n <= y
      PROVE  FALSE
  <2>1. n \in Nat /\ n <= Len(s) /\ \A b \in Nat : \E i \in 1..n : ~ (s[i] <= b)
    BY <1>1, <1>2, <1>3
  <2>2. n # 0
    <3>1. PICK i \in 1..n : ~ (s[i] <= 0)
      BY <2>1
    <3> QED BY <2>1, <3>1
  <2>3. n - 1 \in Nat /\ n - 1 <= Len(s) /\ ~ (n <= n - 1) /\ n \in 1..Len(s)
    BY <1>0, <2>1, <2>2
  <2>4. n - 1 \notin Bad
    BY <1>3, <2>3
  <2>5. PICK b \in Nat : \A i \in 1..(n - 1) : s[i] <= b
    BY <1>2, <2>3, <2>4
  <2>6. s[n] \in Nat /\ b + s[n] \in Nat /\ b <= b + s[n] /\ s[n] <= b + s[n]
    <3>1. s[n] \in Nat
      BY <1>0, <2>3
    <3> QED BY <3>1
  <2>7. PICK i \in 1..n : ~ (s[i] <= b + s[n])
    BY <2>1, <2>6
  <2>8. i # n
    BY <2>6, <2>7
  <2>9. i \in 1..(n - 1) /\ i \in 1..Len(s)
    BY <1>0, <2>1, <2>8
  <2>10. s[i] <= b /\ s[i] \in Nat
    BY <1>0, <2>5, <2>9
  <2> QED BY <2>6, <2>7, <2>10
<1>4. Bad = {}
  BY <1>1, <1>3, Least
<1>5. Len(s) \in Nat /\ Len(s) <= Len(s) /\ Len(s) \notin Bad
  BY <1>0, <1>4
<1>6. ~ \A b \in Nat : \E i \in 1..Len(s) : ~ (s[i] <= b)
  BY <1>2, <1>5
<1> QED BY <1>6

\* Among the timeouts asked for, and zero, one is the largest.
LEMMA LargestTimeout ==
  ASSUME NEW s \in Seq(Nat), NEW asked, asked = {0} \cup {s[i] : i \in 1..Len(s)}
  PROVE  \E t \in asked : \A u \in asked : u <= t
<1>1. Len(s) \in Nat /\ \A i \in 1..Len(s) : s[i] \in Nat
  OBVIOUS
<1>2. 0 \in asked /\ \A u \in asked : u \in Nat /\ (u = 0 \/ \E i \in 1..Len(s) : u = s[i])
  BY <1>1
<1>3. PICK b \in Nat : \A i \in 1..Len(s) : s[i] <= b
  BY BoundedTimeouts
<1> DEFINE Above == {c \in Nat : \A u \in asked : u <= c}
<1>4. \A u \in asked : u <= b
  BY <1>1, <1>2, <1>3
<1>5. Above \in SUBSET Nat /\ b \in Above
  BY <1>4
<1>6. \A c \in Nat : c \in Above <=> \A u \in asked : u <= c
  OBVIOUS
<1> HIDE DEF Above
<1>7. PICK t \in Above : \A y \in Above : t <= y
  BY <1>5, Least
<1>8. t \in Nat /\ \A u \in asked : u <= t
  BY <1>5, <1>6
<1>9. t \in asked
  <2> SUFFICES ASSUME t \notin asked PROVE FALSE
    OBVIOUS
  <2>1. t - 1 \in Nat /\ ~ (t <= t - 1)
    BY <1>2, <1>8
  <2>2. \A u \in asked : u <= t - 1
    <3> SUFFICES ASSUME NEW u \in asked PROVE u <= t - 1
      OBVIOUS
    <3>1. u \in Nat /\ u <= t /\ u # t
      BY <1>2, <1>8
    <3> QED BY <1>8, <3>1
  <2> QED BY <1>6, <1>7, <2>1, <2>2
<1> QED BY <1>8, <1>9

\* The tool timeout covers every timeout asked for, unless the spec sets its own.
LEMMA TimeoutFacts ==
  ASSUME NEW m \in ModelSpecs
  PROVE  \A i \in 1..Len(m.timeouts) : m.timeouts[i] <= ToolTimeout(m) \/ m.ownTimeout # 0
<1> SUFFICES ASSUME m.ownTimeout = 0, NEW i \in 1..Len(m.timeouts)
             PROVE  m.timeouts[i] <= ToolTimeout(m)
  OBVIOUS
<1> DEFINE asked == {0} \cup {m.timeouts[j] : j \in 1..Len(m.timeouts)}
<1>1. m.timeouts \in Seq(Nat)
  BY DEF ModelSpecs
<1>2. m.timeouts[i] \in asked
  OBVIOUS
<1>3. ToolTimeout(m) = CHOOSE t \in asked : \A u \in asked : u <= t
  BY DEF ToolTimeout
<1>4. \E t \in asked : \A u \in asked : u <= t
  BY <1>1, LargestTimeout
<1> HIDE DEF asked
<1> QED BY <1>2, <1>3, <1>4

-----------------------------------------------------------------------------
(* The way of one object: what its verdicts rest on.                        *)

\* Past the webhook an object is one the webhook admitted.
PastAdmission ==
  item.webhooks /\ fate \notin {"applied", "denied"} => Admitted(item)

CatalogueIndInv ==
  /\ item \in Submissions /\ servicePort \in BOOLEAN /\ PastAdmission
  /\ CatalogueInv

\* The inductive invariant holds when a spec is submitted.
LEMMA CatalogueBegins == CatalogueInit => CatalogueIndInv
<1> SUFFICES ASSUME CatalogueInit PROVE CatalogueIndInv
  OBVIOUS
<1>1. item \in Submissions /\ fate = "applied" /\ servicePort = TRUE
  BY DEF CatalogueInit, CatalogueStart
<1> QED BY <1>1 DEF CatalogueIndInv, CatalogueInv, PastAdmission, CatalogueTypeOK, AdmittedIsUsable,
            HeadersAreDistinct, DocumentPrecedence, ProviderAsValidated

\* The kinds, and the spec that goes with each.
LEMMA KindFacts ==
  ASSUME NEW i \in Submissions
  PROVE  /\ i.webhooks \in BOOLEAN
         /\ i.kind \in {"tool", "provider", "model", "trigger", "instruction"}
         /\ i.kind = "tool" => i.spec \in ToolSpecs
         /\ i.kind = "provider" => i.spec \in ProviderSpecs
         /\ i.kind = "model" => i.spec \in ModelSpecs
BY SubmissionsAssumption

\* What the webhooks admit is valid to the controllers.
LEMMA AdmittedFacts ==
  ASSUME NEW i \in Submissions, Admitted(i)
  PROVE  /\ i.kind = "tool" => ToolAdmitted(i.spec) /\ ToolValid(i.spec)
         /\ i.kind = "provider" => ProviderValid(i.spec)
         /\ i.kind = "trigger" => TriggerValid(i.spec)
<1>1. ASSUME i.kind = "tool" PROVE ToolAdmitted(i.spec) /\ ToolValid(i.spec)
  <2>1. i.spec \in ToolSpecs
    BY <1>1, KindFacts
  <2>2. ToolAdmitted(i.spec)
    BY <1>1 DEF Admitted
  <2> QED BY <2>1, <2>2, AdmittedToolIsValid
<1>2. ASSUME i.kind = "provider" PROVE ProviderValid(i.spec)
  <2>1. ProviderAdmitted(i.spec)
    BY <1>2 DEF Admitted
  <2> QED BY <2>1 DEF ProviderAdmitted, ProviderValid
<1>3. ASSUME i.kind = "trigger" PROVE TriggerValid(i.spec)
  <2>1. TriggerAdmitted(i.spec)
    BY <1>3 DEF Admitted
  <2> QED BY <2>1 DEF TriggerAdmitted, TriggerValid
<1> QED BY <1>1, <1>2, <1>3

\* The webhooks' verdict keeps the invariant.
LEMMA ApplyInv == CatalogueIndInv /\ Apply => CatalogueIndInv'
<1> SUFFICES ASSUME CatalogueIndInv, Apply PROVE CatalogueIndInv'
  OBVIOUS
<1>1. /\ fate' \in {"denied", "stored"} /\ (fate' = "stored" => ~item.webhooks \/ Admitted(item))
      /\ item' = item /\ servicePort' = servicePort
  BY DEF Apply
<1>2. PastAdmission'
  <2>1. Admitted(item)' <=> Admitted(item)
    BY <1>1 DEF Admitted, ToolAdmitted, ProviderAdmitted, ModelAdmitted, TriggerAdmitted
  <2> QED BY <1>1, <2>1 DEF PastAdmission
<1> QED BY <1>1, <1>2 DEF CatalogueIndInv, CatalogueInv, CatalogueTypeOK, AdmittedIsUsable,
            HeadersAreDistinct, DocumentPrecedence, ProviderAsValidated

\* The controllers' verdict keeps the invariant.
LEMMA AssessInv == CatalogueIndInv /\ Assess => CatalogueIndInv'
<1> SUFFICES ASSUME CatalogueIndInv, Assess PROVE CatalogueIndInv'
  OBVIOUS
<1>1. /\ fate = "stored" /\ item' = item /\ servicePort' = servicePort /\ item \in Submissions
      /\ item.webhooks => Admitted(item)
  BY DEF Assess, CatalogueIndInv, PastAdmission
<1>2. fate' \in {"ready", "invalid"} /\ (item.webhooks => fate' # "invalid")
  <2>1. /\ item.kind = "tool" => fate' = IF ToolValid(Thing) THEN "ready" ELSE "invalid"
        /\ item.kind = "provider" => fate' = IF ProviderValid(Thing) THEN "ready" ELSE "invalid"
        /\ item.kind = "trigger" => fate' = IF TriggerValid(Thing) THEN "ready" ELSE "invalid"
        /\ item.kind \notin {"tool", "provider", "trigger"} => fate' = "ready"
    BY DEF Assess
  <2> QED BY <1>1, <2>1, AdmittedFacts DEF Thing
<1>3. PastAdmission'
  BY <1>1 DEF PastAdmission, Admitted, ToolAdmitted, ProviderAdmitted, ModelAdmitted, TriggerAdmitted
<1> QED BY <1>1, <1>2, <1>3 DEF CatalogueIndInv, CatalogueInv, CatalogueTypeOK, AdmittedIsUsable,
            HeadersAreDistinct, DocumentPrecedence, ProviderAsValidated

\* Compiling an agent that uses the object keeps the invariant.
LEMMA CompileInv == CatalogueIndInv /\ CompileWith => CatalogueIndInv'
<1> SUFFICES ASSUME CatalogueIndInv, CompileWith PROVE CatalogueIndInv'
  OBVIOUS
<1>1. /\ fate \notin {"applied", "denied"} /\ item' = item /\ servicePort' = servicePort
      /\ item \in Submissions /\ servicePort \in BOOLEAN
      /\ item.webhooks => Admitted(item)
  BY DEF CompileWith, CatalogueIndInv, PastAdmission
<1>2. PICK q : /\ product' = q /\ fate' = q.verdict
               /\ item.kind = "tool" => q = CompileTool(Thing)
               /\ item.kind = "provider" =>
                     q = IF Thing.blocks = {} THEN [verdict |-> "failed"]
                         ELSE [verdict |-> "compiled", handler |-> HandlerOf(Thing)]
               /\ item.kind = "model" => q = CompileModel(Thing)
               /\ item.kind \notin {"tool", "provider", "model"} => q = [verdict |-> "compiled"]
  BY DEF CompileWith
<1>3. Thing' = Thing /\ Thing = item.spec
  BY <1>1 DEF Thing
<1>4. PastAdmission'
  BY <1>1 DEF PastAdmission, Admitted, ToolAdmitted, ProviderAdmitted, ModelAdmitted, TriggerAdmitted
<1>5. CASE item.kind = "tool"
  <2>1. q = CompileTool(Thing) /\ Thing \in ToolSpecs
    BY <1>1, <1>2, <1>3, <1>5, KindFacts
  <2>2. item.webhooks => ToolAdmitted(Thing) /\ ToolValid(Thing)
    BY <1>1, <1>3, <1>5, AdmittedFacts
  <2>3. /\ q.verdict \in {"compiled", "retrying", "failed"}
        /\ q.verdict = "failed" => ~ ToolValid(Thing)
        /\ q.verdict = "compiled" /\ ToolValid(Thing) =>
              \/ q.url.host \in {"http", "bad"}
              \/ /\ q.url.host = "service"
                 /\ q.url.port \in {"given", "named", "default"}
                 /\ q.url.path \in {"absolute", "/mcp", "/sse"}
        /\ q.headers = Thing.headers \cup {Thing.secrets[i] : i \in 1..Len(Thing.secrets)}
    BY <1>1, <2>1, ToolFacts
  <2>4. ASSUME item.webhooks
        PROVE  \A h, g \in q.headers :
                 (h \notin Thing.headers \/ g \notin Thing.headers) /\ h.lower = g.lower => h = g
    <3>1. HeaderSecretsDistinct(Thing)
      BY <2>2, <2>4 DEF ToolAdmitted
    <3>2. SUFFICES ASSUME NEW h \in q.headers, NEW g \in q.headers, h.lower = g.lower,
                          h \notin Thing.headers \/ g \notin Thing.headers
                   PROVE  h = g
      OBVIOUS
    <3> QED BY <2>1, <2>3, <3>1, <3>2, HeaderFacts
  <2>5. /\ item.kind = "tool" /\ item.kind # "model" /\ item.kind # "provider"
        /\ item.webhooks \in BOOLEAN
    BY <1>1, <1>5, KindFacts
  <2>6. (ToolValid(Thing))' <=> ToolValid(Thing)
    BY <1>3 DEF ToolValid
  <2>7. CatalogueTypeOK'
    BY <1>1, <1>2, <1>3, <2>3, <2>5, <2>6 DEF CatalogueTypeOK
  <2>8. AdmittedIsUsable'
    BY <1>1, <1>2, <1>3, <2>2, <2>3, <2>5, <2>6 DEF AdmittedIsUsable
  <2>9. HeadersAreDistinct'
    BY <1>1, <1>2, <1>3, <2>4, <2>5 DEF HeadersAreDistinct
  <2>10. DocumentPrecedence' /\ ProviderAsValidated'
    BY <1>1, <2>5 DEF DocumentPrecedence, ProviderAsValidated
  <2> QED BY <1>1, <1>4, <2>7, <2>8, <2>9, <2>10 DEF CatalogueIndInv, CatalogueInv
<1>6. CASE item.kind = "provider"
  <2>1. Thing \in ProviderSpecs /\ (item.webhooks => ProviderValid(Thing))
    BY <1>1, <1>3, <1>6, KindFacts, AdmittedFacts
  <2>2. /\ q.verdict \in {"compiled", "failed"}
        /\ q.verdict = "failed" => Thing.blocks = {}
        /\ q.verdict = "compiled" => q.handler = HandlerOf(Thing)
    BY <1>2, <1>6
  <2>3. q.verdict = "failed" => ~ ProviderValid(Thing)
    BY <2>2, OneOf DEF ProviderValid
  <2>4. /\ item.kind # "tool" /\ item.kind # "model" /\ item.kind = "provider"
        /\ item.webhooks \in BOOLEAN
    BY <1>1, <1>6, KindFacts
  <2>5. CatalogueTypeOK' /\ HeadersAreDistinct' /\ DocumentPrecedence'
    BY <1>1, <1>2, <2>2, <2>4 DEF CatalogueTypeOK, HeadersAreDistinct, DocumentPrecedence
  <2>6. AdmittedIsUsable'
    BY <1>1, <1>2, <1>3, <2>1, <2>2, <2>3, <2>4 DEF AdmittedIsUsable, ProviderValid
  <2>7. ProviderAsValidated'
    <3> SUFFICES ASSUME q.verdict = "compiled", ProviderValid(Thing)
                 PROVE  ProviderAsValidated'
      BY <1>2, <1>3 DEF ProviderAsValidated, ProviderValid
    <3> DEFINE h == q.handler
    <3>1. h = HandlerOf(Thing)
      BY <2>2
    <3> HIDE DEF h
    <3>2. /\ ProviderVerdict(Thing) = "google" =>
              (h.prefix = "google-vertex"
                 <=> {"project", "serviceAccountKey"} \cap (h.env \cup h.secretEnv) # {})
          /\ ProviderVerdict(Thing) # "google" => h.prefix = ProviderVerdict(Thing)
          /\ Thing.apiKey /\ ProviderVerdict(Thing) # "bedrock" => "apiKey" \in h.secretEnv
      BY <2>1, <3>1, HandlerFacts
    <3>3. product'.handler = h /\ (ProviderVerdict(Thing))' = ProviderVerdict(Thing)
      BY <1>2, <1>3 DEF h, ProviderVerdict
    <3> QED BY <1>3, <3>2, <3>3 DEF ProviderAsValidated
  <2> QED BY <1>1, <1>4, <2>5, <2>6, <2>7 DEF CatalogueIndInv, CatalogueInv
<1>7. CASE item.kind = "model"
  <2>1. Thing \in ModelSpecs
    BY <1>1, <1>3, <1>7, KindFacts
  <2>2. /\ q.verdict \in {"compiled", "failed"}
        /\ q.verdict = "failed" <=> DocumentRefused(Thing)
        /\ q.verdict = "compiled" =>
             /\ q.settings = CompileSettings(Thing)
             /\ q.instructions = CompileInstructions(Thing) /\ q.toolTimeout = ToolTimeout(Thing)
    BY <1>2, <1>7 DEF CompileModel
  <2>3. item.kind # "tool" /\ item.kind # "provider"
    BY <1>7
  <2>4. CatalogueTypeOK' /\ HeadersAreDistinct' /\ ProviderAsValidated'
    BY <1>1, <1>2, <2>2, <2>3 DEF CatalogueTypeOK, HeadersAreDistinct, ProviderAsValidated
  <2>5. DocumentRefused(Thing) <=> ~Thing.rawIsObject \/ BadValueWins(Thing)
    BY <2>1, RefusedFacts
  <2>6. AdmittedIsUsable'
    <3>1. BadValueWins(Thing)' <=> BadValueWins(Thing)
      BY <1>3 DEF BadValueWins, Wins, Precedence
    <3>2. Thing.rawIsObject \in BOOLEAN
      BY <2>1 DEF ModelSpecs
    <3> QED BY <1>1, <1>2, <1>3, <1>7, <2>2, <2>5, <3>1, <3>2 DEF AdmittedIsUsable
  <2>7. DocumentPrecedence'
    <3> SUFFICES ASSUME q.verdict = "compiled" PROVE DocumentPrecedence'
      BY <1>2 DEF DocumentPrecedence
    <3> DEFINE m == Thing
               s == q.settings
               c == q.instructions
    <3>1. m \in ModelSpecs /\ s = CompileSettings(m) /\ c = CompileInstructions(m)
      BY <2>1, <2>2
    <3> HIDE DEF m, s, c
    <3>2. /\ DOMAIN s = UNION {Precedence(m)[i][1] : i \in 1..5}
          /\ \A k \in DOMAIN s : \E i \in 1..5 : s[k] = Precedence(m)[i][2] /\ Wins(m, i, k)
      BY <3>1, PrecedenceFacts DEF ReadsLayers
    <3>3. /\ \A i \in 1..Len(m.refs) : c[i] = m.refs[i]
          /\ m.instructions # <<>> =>
                \A i \in 1..Len(m.instructions) : c[Len(m.refs) + i] = m.instructions[i]
      BY <3>1, InstructionFacts
    <3>4. \A i \in 1..Len(m.timeouts) : m.timeouts[i] <= q.toolTimeout \/ m.ownTimeout # 0
      BY <2>2, <3>1, TimeoutFacts DEF m
    <3>5. product' = q /\ Thing' = m /\ product'.settings = s /\ product'.instructions = c
      BY <1>2, <1>3 DEF m, s, c
    <3> QED BY <3>2, <3>3, <3>4, <3>5 DEF DocumentPrecedence, Precedence, Wins
  <2> QED BY <1>1, <1>4, <2>4, <2>6, <2>7 DEF CatalogueIndInv, CatalogueInv
<1>8. CASE item.kind \notin {"tool", "provider", "model"}
  <2>1. q.verdict = "compiled"
    BY <1>2, <1>8
  <2>2. item.kind # "tool" /\ item.kind # "provider" /\ item.kind # "model"
    BY <1>8
  <2> QED BY <1>1, <1>2, <1>4, <2>1, <2>2
          DEF CatalogueIndInv, CatalogueInv, CatalogueTypeOK, AdmittedIsUsable,
              HeadersAreDistinct, DocumentPrecedence, ProviderAsValidated
<1> QED BY <1>5, <1>6, <1>7, <1>8

\* A change of the target Service, and a step of another part, keep the invariant.
LEMMA ServiceInv == CatalogueIndInv /\ (ServiceChanges \/ UNCHANGED catalogueVars) => CatalogueIndInv'
<1> SUFFICES ASSUME CatalogueIndInv, ServiceChanges \/ UNCHANGED catalogueVars
             PROVE  CatalogueIndInv'
  OBVIOUS
<1>1. item' = item /\ fate' = fate /\ product' = product /\ servicePort' \in BOOLEAN
  BY DEF CatalogueIndInv, ServiceChanges, catalogueVars
<1>2. CatalogueInv'
  <2>1. Thing' = Thing
    BY <1>1 DEF Thing
  <2>2. CatalogueTypeOK'
    BY <1>1, <2>1 DEF CatalogueIndInv, CatalogueInv, CatalogueTypeOK, ToolValid
  <2>3. AdmittedIsUsable' /\ HeadersAreDistinct'
    BY <1>1, <2>1 DEF CatalogueIndInv, CatalogueInv, AdmittedIsUsable, HeadersAreDistinct,
                      ToolValid, ProviderValid, BadValueWins, Wins, Precedence
  <2>4. DocumentPrecedence'
    BY <1>1, <2>1 DEF CatalogueIndInv, CatalogueInv, DocumentPrecedence, Wins, Precedence
  <2>5. ProviderAsValidated'
    BY <1>1, <2>1 DEF CatalogueIndInv, CatalogueInv, ProviderAsValidated, ProviderValid, ProviderVerdict
  <2> QED BY <2>2, <2>3, <2>4, <2>5 DEF CatalogueInv
<1>3. PastAdmission'
  BY <1>1 DEF CatalogueIndInv, PastAdmission, Admitted, ToolAdmitted, ProviderAdmitted,
              ModelAdmitted, TriggerAdmitted
<1> QED BY <1>1, <1>2, <1>3 DEF CatalogueIndInv

\* For any objects of the five kinds, whatever the Service does meanwhile: what a
\* webhook admits the controller accepts, and the compile refuses it for good only
\* over a setting the AgentSpec schema does not allow and that no higher layer
\* replaced, or over an extra block that is no object; a compiled tool has an endpoint and headers that HTTP tells apart; a document
\* takes every setting from the highest layer that gives it, all texts in order
\* and the largest timeout; a provider is the one that was validated.
THEOREM CatalogueAgrees == CatalogueSpec => []CatalogueInv
<1>1. CatalogueIndInv /\ [CatalogueNext]_catalogueVars => CatalogueIndInv'
  BY ApplyInv, AssessInv, CompileInv, ServiceInv DEF CatalogueNext
<1>2. CatalogueIndInv => CatalogueInv
  BY DEF CatalogueIndInv
<1> QED BY <1>1, <1>2, CatalogueBegins, PTL DEF CatalogueSpec

-----------------------------------------------------------------------------
(* The Agent webhook and the compiler: the dependency pins.                 *)

\* Of some places one is the first, and only one.
LEMMA FirstEntry ==
  ASSUME NEW T, T # {}, \A u \in T : u = <<u[1], u[2]>> /\ u[1] \in Nat /\ u[2] \in Nat
  PROVE  \E u \in T : \A v \in T : ~ EntriesBefore(v, u)
<1> DEFINE R == {u[1] : u \in T}
<1>1. \A u \in T : u[1] \in Nat /\ u[2] \in Nat
  OBVIOUS
<1>2. R \in SUBSET Nat /\ R # {}
  BY <1>1
<1>3. PICK a \in R : \A y \in R : a <= y
  BY <1>2, Least
<1> DEFINE Row == {u \in T : u[1] = a}
           K == {u[2] : u \in Row}
<1>4. K \in SUBSET Nat /\ K # {}
  BY <1>1
<1>5. PICK b \in K : \A y \in K : b <= y
  BY <1>4, Least
<1>6. PICK u \in Row : u[2] = b
  OBVIOUS
<1>7. ASSUME NEW v \in T PROVE ~ EntriesBefore(v, u)
  <2>1. a <= v[1] /\ v[1] \in Nat /\ v[2] \in Nat /\ u[1] = a /\ u[1] \in Nat /\ u[2] \in Nat
    BY <1>1, <1>3
  <2>2. v[1] = a => b <= v[2]
    BY <1>5
  <2> QED BY <1>6, <2>1, <2>2 DEF EntriesBefore
<1> QED BY <1>7

\* Two places neither of which comes before the other are the same place.
LEMMA FirstIsUnique ==
  ASSUME NEW u, u = <<u[1], u[2]>>, u[1] \in Nat, u[2] \in Nat,
         NEW v, v = <<v[1], v[2]>>, v[1] \in Nat, v[2] \in Nat,
         ~ EntriesBefore(u, v), ~ EntriesBefore(v, u)
  PROVE  u = v
<1>1. u[1] = v[1] /\ u[2] = v[2]
  BY DEF EntriesBefore
<1> QED BY <1>1

\* A place is a pair of numbers: the capability and the entry of its list.
LEMMA PlaceFacts ==
  ASSUME NEW deps, Len(deps) \in Nat, \A i \in 1..Len(deps) : Len(deps[i]) \in Nat,
         NEW p \in PinsAt(deps)
  PROVE  p = <<p[1], p[2]>> /\ p[1] \in Nat /\ p[2] \in Nat
<1>1. PICK i \in 1..Len(deps) : \E k \in 1..Len(deps[i]) : p = <<i, k>>
  BY DEF PinsAt
<1>2. PICK k \in 1..Len(deps[i]) : p = <<i, k>>
  BY <1>1
<1> QED BY <1>2

\* The places that pin a package, and those of one capability.
Pinning(deps, package) == {q \in PinsAt(deps) : PinAt(deps, q).pin /\ Package(deps, q) = package}

\* The established pin of a package is the first of those that pin it.
LEMMA EstablishedFacts ==
  ASSUME NEW deps, Len(deps) \in Nat, \A i \in 1..Len(deps) : Len(deps[i]) \in Nat,
         NEW p \in PinsAt(deps), PinAt(deps, p).pin
  PROVE  /\ Established(deps, p) \in Pinning(deps, Package(deps, p))
         /\ \A r \in Pinning(deps, Package(deps, p)) : ~ EntriesBefore(r, Established(deps, p))
<1> DEFINE T == Pinning(deps, Package(deps, p))
<1>1. p \in T
  BY DEF Pinning
<1>2. \A q : q \in T <=> q \in PinsAt(deps) /\ PinAt(deps, q).pin /\ Package(deps, q) = Package(deps, p)
  BY DEF Pinning
<1>3. \A u \in T : u = <<u[1], u[2]>> /\ u[1] \in Nat /\ u[2] \in Nat
  BY <1>2, PlaceFacts
<1> HIDE DEF T
<1>4. PICK u \in T : \A v \in T : ~ EntriesBefore(v, u)
  BY <1>1, <1>3, FirstEntry
<1>5. \E q \in PinsAt(deps) :
         /\ PinAt(deps, q).pin /\ Package(deps, q) = Package(deps, p)
         /\ \A r \in PinsAt(deps) :
               PinAt(deps, r).pin /\ Package(deps, r) = Package(deps, p) => ~ EntriesBefore(r, q)
  BY <1>2, <1>4
<1> DEFINE e == Established(deps, p)
<1>6. /\ e \in PinsAt(deps) /\ PinAt(deps, e).pin /\ Package(deps, e) = Package(deps, p)
      /\ \A r \in PinsAt(deps) :
            PinAt(deps, r).pin /\ Package(deps, r) = Package(deps, p) => ~ EntriesBefore(r, e)
  BY <1>5 DEF Established
<1> HIDE DEF e
<1>7. e \in T /\ \A r \in T : ~ EntriesBefore(r, e)
  BY <1>2, <1>6
<1> QED BY <1>7 DEF e, T

\* A capability's own pin of a package is the first of its pins of it.
LEMMA LocalFacts ==
  ASSUME NEW deps, Len(deps) \in Nat, \A i \in 1..Len(deps) : Len(deps[i]) \in Nat,
         NEW p \in PinsAt(deps), PinAt(deps, p).pin
  PROVE  /\ Local(deps, p) \in Pinning(deps, Package(deps, p)) /\ Local(deps, p)[1] = p[1]
         /\ \A r \in Pinning(deps, Package(deps, p)) :
               r[1] = p[1] => ~ EntriesBefore(r, Local(deps, p))
<1> DEFINE T == {q \in Pinning(deps, Package(deps, p)) : q[1] = p[1]}
<1>1. p \in T
  BY DEF Pinning
<1>2. \A q : q \in T <=> /\ q \in PinsAt(deps) /\ q[1] = p[1] /\ PinAt(deps, q).pin
                         /\ Package(deps, q) = Package(deps, p)
  BY DEF Pinning
<1>3. \A u \in T : u = <<u[1], u[2]>> /\ u[1] \in Nat /\ u[2] \in Nat
  BY <1>2, PlaceFacts
<1>4. \A q : q \in Pinning(deps, Package(deps, p)) /\ q[1] = p[1] <=> q \in T
  OBVIOUS
<1> HIDE DEF T
<1>5. PICK u \in T : \A v \in T : ~ EntriesBefore(v, u)
  BY <1>1, <1>3, FirstEntry
<1>6. \E q \in PinsAt(deps) :
         /\ q[1] = p[1] /\ PinAt(deps, q).pin /\ Package(deps, q) = Package(deps, p)
         /\ \A r \in PinsAt(deps) :
               r[1] = p[1] /\ PinAt(deps, r).pin /\ Package(deps, r) = Package(deps, p)
                  => ~ EntriesBefore(r, q)
  BY <1>2, <1>5
<1> DEFINE e == Local(deps, p)
<1>7. /\ e \in PinsAt(deps) /\ e[1] = p[1] /\ PinAt(deps, e).pin
      /\ Package(deps, e) = Package(deps, p)
      /\ \A r \in PinsAt(deps) :
            r[1] = p[1] /\ PinAt(deps, r).pin /\ Package(deps, r) = Package(deps, p)
               => ~ EntriesBefore(r, e)
  BY <1>6 DEF Local
<1> HIDE DEF e
<1>8. e \in T /\ \A r \in T : ~ EntriesBefore(r, e)
  BY <1>2, <1>7
<1> QED BY <1>4, <1>8 DEF e

\* What the pins of OneVersionPerPackage agree on.
OneVersion(deps, baseline) ==
  \A p \in PinsAt(deps) :
     /\ PinAt(deps, p).pin
     /\ Package(deps, p) \in DOMAIN baseline => baseline[Package(deps, p)] = PinAt(deps, p).version
     /\ \A q \in PinsAt(deps) : Package(deps, p) = Package(deps, q)
                                  => PinAt(deps, p).version = PinAt(deps, q).version

\* DetectConflicts, which compares every pin with two others only, finds a
\* conflict exactly when some two pins of a package disagree.
LEMMA ConflictsAreExact ==
  ASSUME NEW deps, Len(deps) \in Nat, \A i \in 1..Len(deps) : Len(deps[i]) \in Nat, NEW baseline
  PROVE  DetectConflicts(deps, baseline) = {} <=> OneVersion(deps, baseline)
<1> DEFINE Ps == PinsAt(deps)
           V(p) == PinAt(deps, p).version
<1>0. \A p : p \in DetectConflicts(deps, baseline) <=>
        /\ p \in Ps
        /\ \/ ~ PinAt(deps, p).pin
           \/ Package(deps, p) \in DOMAIN baseline /\ baseline[Package(deps, p)] # V(p)
           \/ V(Local(deps, p)) # V(p)
           \/ Established(deps, p)[1] # p[1] /\ V(Established(deps, p)) # V(p)
  BY DEF DetectConflicts
<1>1. ASSUME OneVersion(deps, baseline), NEW p \in DetectConflicts(deps, baseline)
      PROVE  FALSE
  <2>1. p \in Ps /\ PinAt(deps, p).pin
    BY <1>0, <1>1 DEF OneVersion
  <2>2. ~ (Package(deps, p) \in DOMAIN baseline /\ baseline[Package(deps, p)] # V(p))
    BY <1>1, <2>1 DEF OneVersion
  <2>3. /\ Established(deps, p) \in Pinning(deps, Package(deps, p))
        /\ Local(deps, p) \in Pinning(deps, Package(deps, p))
    BY <2>1, EstablishedFacts, LocalFacts
  <2>4. \A q \in Pinning(deps, Package(deps, p)) : q \in Ps /\ Package(deps, q) = Package(deps, p)
    BY DEF Pinning
  <2>5. \A q \in Ps : Package(deps, p) = Package(deps, q) => V(p) = V(q)
    BY <1>1, <2>1 DEF OneVersion
  <2>6. V(Local(deps, p)) = V(p) /\ V(Established(deps, p)) = V(p)
    BY <2>3, <2>4, <2>5
  <2> QED BY <1>0, <1>1, <2>1, <2>2, <2>6
<1>2. ASSUME DetectConflicts(deps, baseline) = {}
      PROVE  OneVersion(deps, baseline)
  <2>1. \A p \in Ps :
          /\ PinAt(deps, p).pin
          /\ Package(deps, p) \in DOMAIN baseline => baseline[Package(deps, p)] = V(p)
          /\ V(Local(deps, p)) = V(p)
          /\ Established(deps, p)[1] # p[1] => V(Established(deps, p)) = V(p)
    BY <1>0, <1>2
  <2>2. ASSUME NEW p \in Ps
        PROVE  V(Established(deps, p)) = V(p)
    <3> DEFINE e == Established(deps, p)
               l == Local(deps, p)
               T == Pinning(deps, Package(deps, p))
    <3>1. PinAt(deps, p).pin
      BY <2>1
    <3>2. /\ e \in T /\ l \in T /\ l[1] = p[1]
          /\ \A r \in T : ~ EntriesBefore(r, e)
          /\ \A r \in T : r[1] = p[1] => ~ EntriesBefore(r, l)
      BY <3>1, EstablishedFacts, LocalFacts
    <3>3. e \in Ps /\ l \in Ps
      BY <3>2 DEF Pinning
    <3>4. /\ e = <<e[1], e[2]>> /\ e[1] \in Nat /\ e[2] \in Nat
          /\ l = <<l[1], l[2]>> /\ l[1] \in Nat /\ l[2] \in Nat
      BY <3>3, PlaceFacts
    <3>5. V(l) = V(p) /\ (e[1] # p[1] => V(e) = V(p))
      BY <2>1
    <3> HIDE DEF e, l, T
    <3>6. e[1] = p[1] => e = l
      BY <3>2, <3>4, FirstIsUnique
    <3>7. V(e) = V(p)
      BY <3>5, <3>6
    <3> QED BY <3>7 DEF e
  <2>3. ASSUME NEW p \in Ps, NEW q \in Ps, Package(deps, p) = Package(deps, q)
        PROVE  V(p) = V(q)
    <3> DEFINE e == Established(deps, p)
               f == Established(deps, q)
               T == Pinning(deps, Package(deps, p))
    <3>1. PinAt(deps, p).pin /\ PinAt(deps, q).pin
      BY <2>1
    <3>2. e \in T /\ \A r \in T : ~ EntriesBefore(r, e)
      BY <3>1, EstablishedFacts
    <3>3. f \in T /\ \A r \in T : ~ EntriesBefore(r, f)
      BY <2>3, <3>1, EstablishedFacts
    <3>4. e \in Ps /\ f \in Ps
      BY <3>2, <3>3 DEF Pinning
    <3>5. /\ e = <<e[1], e[2]>> /\ e[1] \in Nat /\ e[2] \in Nat
          /\ f = <<f[1], f[2]>> /\ f[1] \in Nat /\ f[2] \in Nat
      BY <3>4, PlaceFacts
    <3>6. V(e) = V(p) /\ V(f) = V(q)
      BY <2>2
    <3> HIDE DEF e, f, T
    <3>7. e = f
      BY <3>2, <3>3, <3>5, FirstIsUnique
    <3> QED BY <3>6, <3>7
  <2> QED BY <2>1, <2>3 DEF OneVersion
<1> QED BY <1>1, <1>2
-----------------------------------------------------------------------------
(* The Agent webhook and the compiler: the schema of a configuration.       *)

\* What the combinators are.
LEMMA CombinedFacts ==
  ASSUME NEW op \in Combinators, NEW n, NEW held
  PROVE  /\ Combined(op, n, held) \in BOOLEAN
         /\ op = "anyOf" => (Combined(op, n, held) <=> held # {})
         /\ op = "oneOf" => (Combined(op, n, held) <=> Cardinality(held) = 1)
         /\ op \in {"leaf", "allOf"} => (Combined(op, n, held) <=> held = 1..n)
<1>1. CASE op = "anyOf"
  <2>1. Combined(op, n, held) = (held # {})
    BY <1>1 DEF Combined
  <2> QED BY <1>1, <2>1
<1>2. CASE op = "oneOf"
  <2>1. Combined(op, n, held) = (Cardinality(held) = 1)
    BY <1>2 DEF Combined
  <2> QED BY <1>2, <2>1
<1>3. CASE op \in {"leaf", "allOf"}
  <2>1. op # "anyOf" /\ op # "oneOf"
    BY <1>3
  <2>2. Combined(op, n, held) = (held = 1..n)
    BY <2>1 DEF Combined
  <2> QED BY <1>3, <2>1, <2>2
<1> QED BY <1>1, <1>2, <1>3 DEF Combinators

\* A combination that comes out so, with a witness.
LEMMA CanCombineTrue ==
  ASSUME NEW op \in Combinators, NEW n, NEW may, NEW mayNot
  PROVE  CanCombine(op, n, may, mayNot, TRUE)
           <=> \E P \in SUBSET may : (1..n) \ P \subseteq mayNot /\ Combined(op, n, P)
<1>1. \A P : Combined(op, n, P) = TRUE <=> Combined(op, n, P)
  BY CombinedFacts
<1> QED BY <1>1 DEF CanCombine

\* Part of 1..n with one element.
LEMMA OneElement ==
  ASSUME NEW n \in Nat, NEW S \in SUBSET (1..n)
  PROVE  Cardinality(S) = 1 <=> \E x : S = {x}
<1>1. IsFiniteSet(1..n)
  BY FS_Interval
<1>2. IsFiniteSet(S)
  BY <1>1, FS_Subset
<1> QED BY <1>2, FS_Singleton

\* At one node, over its parts: what placeholderSatisfied adds to the parts that
\* hold is what a choice of the string can add, unless a oneOf has a part that
\* holds and can be made to fail.
LEMMA CombinatorRule ==
  ASSUME NEW n \in Nat, NEW op \in Combinators,
         NEW held \in SUBSET (1..n), NEW excused \in SUBSET (1..n),
         NEW may, NEW mayNot,
         may = held \cup excused, (1..n) \ held \subseteq mayNot
  PROVE  /\ Combined(op, n, held) \/ PlaceholderSatisfied(op, n, held, excused)
              => CanCombine(op, n, may, mayNot, TRUE)
         /\ (op = "oneOf" => held \cap mayNot = {}) /\ CanCombine(op, n, may, mayNot, TRUE)
              => Combined(op, n, held) \/ PlaceholderSatisfied(op, n, held, excused)
<1>1. ASSUME Combined(op, n, held) PROVE CanCombine(op, n, may, mayNot, TRUE)
  BY <1>1, CanCombineTrue
<1>2. CASE op \in {"leaf", "allOf"}
  <2>1. \A P : Combined(op, n, P) <=> P = 1..n
    BY <1>2, CombinedFacts
  <2>2. PlaceholderSatisfied(op, n, held, excused) <=> (1..n) \ held \subseteq excused
    BY <1>2 DEF PlaceholderSatisfied
  <2>3. ASSUME (1..n) \ held \subseteq excused PROVE CanCombine(op, n, may, mayNot, TRUE)
    <3>1. 1..n \in SUBSET may /\ (1..n) \ (1..n) \subseteq mayNot
      BY <2>3
    <3> QED BY <2>1, <3>1, CanCombineTrue
  <2>4. ASSUME CanCombine(op, n, may, mayNot, TRUE) PROVE (1..n) \ held \subseteq excused
    <3>1. PICK P \in SUBSET may : Combined(op, n, P)
      BY <2>4, CanCombineTrue
    <3>2. P = 1..n
      BY <2>1, <3>1
    <3> QED BY <3>2
  <2> QED BY <1>1, <2>2, <2>3, <2>4
<1>3. CASE op = "anyOf"
  <2>1. \A P : Combined(op, n, P) <=> P # {}
    BY <1>3, CombinedFacts
  <2>2. PlaceholderSatisfied(op, n, held, excused) <=> ((1..n) \ held) \cap excused # {}
    BY <1>3 DEF PlaceholderSatisfied
  <2>3. ASSUME ((1..n) \ held) \cap excused # {} PROVE CanCombine(op, n, may, mayNot, TRUE)
    <3>1. PICK i : i \in (1..n) \ held /\ i \in excused
      BY <2>3
    <3>2. held \cup {i} \in SUBSET may /\ (1..n) \ (held \cup {i}) \subseteq mayNot
      BY <3>1
    <3>3. held \cup {i} # {}
      OBVIOUS
    <3> QED BY <2>1, <3>2, <3>3, CanCombineTrue
  <2>4. ASSUME CanCombine(op, n, may, mayNot, TRUE)
        PROVE  held # {} \/ ((1..n) \ held) \cap excused # {}
    <3>1. PICK P \in SUBSET may : Combined(op, n, P)
      BY <2>4, CanCombineTrue
    <3>2. P # {}
      BY <2>1, <3>1
    <3> QED BY <3>2
  <2> QED BY <1>1, <2>1, <2>2, <2>3, <2>4
<1>4. CASE op = "oneOf"
  <2>1. \A P : Combined(op, n, P) <=> Cardinality(P) = 1
    BY <1>4, CombinedFacts
  <2>2. PlaceholderSatisfied(op, n, held, excused) <=> held = {} /\ excused # {}
    BY <1>4 DEF PlaceholderSatisfied
  <2>3. ASSUME held = {}, excused # {} PROVE CanCombine(op, n, may, mayNot, TRUE)
    <3>1. PICK i : i \in excused
      BY <2>3
    <3>2. {i} \in SUBSET may /\ (1..n) \ {i} \subseteq mayNot /\ {i} \in SUBSET (1..n)
      BY <2>3, <3>1
    <3>3. Cardinality({i}) = 1
      BY <3>2, OneElement
    <3> QED BY <2>1, <3>2, <3>3, CanCombineTrue
  <2>4. ASSUME held \cap mayNot = {}, CanCombine(op, n, may, mayNot, TRUE)
        PROVE  Cardinality(held) = 1 \/ (held = {} /\ excused # {})
    <3>1. PICK P \in SUBSET may : (1..n) \ P \subseteq mayNot /\ Combined(op, n, P) = TRUE
      BY <2>4 DEF CanCombine
    <3>2. P \in SUBSET (1..n) /\ Cardinality(P) = 1
      BY <2>1, <3>1
    <3>3. PICK x : P = {x}
      BY <3>2, OneElement
    <3>4. held \subseteq {x}
      BY <2>4, <3>1, <3>3
    <3>5. held = {} => excused # {}
      BY <3>3
    <3>6. ASSUME held # {} PROVE Cardinality(held) = 1
      <4>1. held = {x}
        BY <3>4, <3>6
      <4>2. \E y : held = {y}
        BY <4>1
      <4> QED BY <4>2, OneElement
    <3> QED BY <3>5, <3>6
  <2> QED BY <1>1, <1>4, <2>1, <2>2, <2>3, <2>4
<1> QED BY <1>2, <1>3, <1>4 DEF Combinators

\* The constraints of a member a placeholder is excused from.
Excused(member) == {j \in 1..Len(member.kids) : Suppressible(member.kids[j])}

\* A member a placeholder meets or is excused from can hold of a string, and the
\* other way round; one it does not meet can fail; one it meets cannot, unless it is
\* a oneOf.
LEMMA MemberRule ==
  ASSUME NEW member \in Members
  PROVE  /\ MemberHolds(member, "placeholder")
            \/ PlaceholderSatisfied(member.op, Len(member.kids),
                                    HeldLeaves(member, "placeholder"), Excused(member))
              <=> MemberCan(member, TRUE)
         /\ ~ MemberHolds(member, "placeholder") => MemberCan(member, FALSE)
         /\ member.op # "oneOf" /\ MemberHolds(member, "placeholder") => ~ MemberCan(member, FALSE)
<1> DEFINE n == Len(member.kids)
           op == member.op
           held == HeldLeaves(member, "placeholder")
           excused == Excused(member)
           may == {j \in 1..n : member.kids[j] \in {"string", "pattern", "enumText"}}
           mayNot == {j \in 1..n : member.kids[j] \in Leaves \ {"string"}}
<1>1. member.op \in Combinators /\ member.kids \in Seq(Leaves)
  BY DEF Members
<1>2. n \in Nat /\ \A j \in 1..n : member.kids[j] \in Leaves
  BY <1>1
<1>3. \A leaf : LeafHolds(leaf, "placeholder") <=> leaf = "string"
  BY DEF LeafHolds
<1>4. \A j : j \in held <=> j \in 1..n /\ member.kids[j] = "string"
  BY <1>3 DEF HeldLeaves
<1>5. may = held \cup excused /\ held \in SUBSET (1..n) /\ excused \in SUBSET (1..n)
  BY <1>4 DEF Excused, Suppressible
<1>6. (1..n) \ held \subseteq mayNot /\ held \cap mayNot = {}
  BY <1>2, <1>4
<1>7. /\ MemberHolds(member, "placeholder") <=> Combined(op, n, held)
      /\ MemberCan(member, TRUE) <=> CanCombine(op, n, may, mayNot, TRUE)
      /\ MemberCan(member, FALSE) <=> CanCombine(op, n, may, mayNot, FALSE)
  BY DEF MemberHolds, MemberCan
<1> HIDE DEF n, op, held, excused, may, mayNot
<1>8. Combined(op, n, held) \/ PlaceholderSatisfied(op, n, held, excused)
        <=> CanCombine(op, n, may, mayNot, TRUE)
  BY <1>1, <1>2, <1>5, <1>6, CombinatorRule DEF op
<1>9. op \in Combinators
  BY <1>1 DEF op
<1>10. \A P : Combined(op, n, P) \in BOOLEAN
  BY <1>9, CombinedFacts
<1>11. ASSUME ~ Combined(op, n, held) PROVE CanCombine(op, n, may, mayNot, FALSE)
  <2>1. held \in SUBSET may /\ Combined(op, n, held) = FALSE
    BY <1>5, <1>10, <1>11
  <2> QED BY <1>6, <2>1 DEF CanCombine
<1>12. ASSUME op # "oneOf", Combined(op, n, held), CanCombine(op, n, may, mayNot, FALSE)
       PROVE  FALSE
  <2>1. PICK P \in SUBSET may : (1..n) \ P \subseteq mayNot /\ Combined(op, n, P) = FALSE
    BY <1>12 DEF CanCombine
  <2>2. ~ Combined(op, n, P)
    BY <2>1
  <2>3. held \subseteq P /\ P \subseteq 1..n
    BY <1>5, <1>6, <2>1
  <2>4. CASE op = "anyOf"
    <3>1. held # {} /\ P = {}
      BY <1>9, <1>12, <2>2, <2>4, CombinedFacts
    <3> QED BY <2>3, <3>1
  <2>5. CASE op \in {"leaf", "allOf"}
    <3>1. held = 1..n /\ P # 1..n
      BY <1>9, <1>12, <2>2, <2>5, CombinedFacts
    <3> QED BY <2>3, <3>1
  <2> QED BY <1>9, <1>12, <2>4, <2>5 DEF Combinators
<1> QED BY <1>7, <1>8, <1>11, <1>12 DEF op, n, held, excused

\* A placeholder passes only where some string could, and, but for a oneOf in a
\* oneOf, wherever one could, whatever the schema.
LEMMA PlaceholderRule ==
  ASSUME NEW s \in Schemas, s.compiles
  PROVE  /\ ConfigValid(s, "placeholder") => StringCanPass(s)
         /\ StringCanPass(s) => ConfigValid(s, "placeholder") \/ OneOfInOneOf(s)
<1> DEFINE n == Len(s.kids)
           op == s.op
           held == HeldMembers(s, "placeholder")
           excused == SatisfiedMembers(s)
           can(outcome) == {i \in 1..n : MemberCan(s.kids[i], outcome)}
           may == can(TRUE)
           mayNot == can(FALSE)
<1>1. s # NoSchema
  BY DEF NoSchema
<1>2. s \in [compiles : BOOLEAN, op : Combinators, kids : Seq(Members)]
  BY <1>1 DEF Schemas
<1>3. op \in Combinators /\ s.kids \in Seq(Members)
  BY <1>2
<1>4. n \in Nat /\ \A i \in 1..n : s.kids[i] \in Members
  BY <1>3
<1>5. /\ held \in SUBSET (1..n) /\ excused \in SUBSET (1..n)
      /\ \A i \in 1..n : i \in held <=> MemberHolds(s.kids[i], "placeholder")
      /\ \A i \in 1..n : i \in excused <=>
            PlaceholderSatisfied(s.kids[i].op, Len(s.kids[i].kids),
                                 HeldLeaves(s.kids[i], "placeholder"), Excused(s.kids[i]))
  BY DEF HeldMembers, SatisfiedMembers, Excused
<1>6. /\ may \in SUBSET (1..n) /\ mayNot \in SUBSET (1..n)
      /\ \A i \in 1..n : (i \in may <=> MemberCan(s.kids[i], TRUE))
                         /\ (i \in mayNot <=> MemberCan(s.kids[i], FALSE))
  OBVIOUS
<1>7. ConfigValid(s, "placeholder")
        <=> Combined(op, n, held) \/ PlaceholderSatisfied(op, n, held, excused)
  BY DEF ConfigValid
<1>8. StringCanPass(s) <=> CanCombine(op, n, may, mayNot, TRUE)
  BY DEF StringCanPass
<1>9. OneOfInOneOf(s) <=> op = "oneOf" /\ \E i \in 1..n : s.kids[i].op = "oneOf"
  BY DEF OneOfInOneOf
<1> HIDE DEF n, op, held, excused, can, may, mayNot
<1>10. \A i \in 1..n : i \in may <=> i \in held \/ i \in excused
  BY <1>4, <1>5, <1>6, MemberRule
<1>11. \A i \in 1..n : i \notin held => i \in mayNot
  BY <1>4, <1>5, <1>6, MemberRule
<1>12. \A i \in 1..n : i \in held /\ s.kids[i].op # "oneOf" => i \notin mayNot
  BY <1>4, <1>5, <1>6, MemberRule
<1>13. may = held \cup excused /\ (1..n) \ held \subseteq mayNot
  BY <1>5, <1>6, <1>10, <1>11
<1>14. ~ OneOfInOneOf(s) => (op = "oneOf" => held \cap mayNot = {})
  BY <1>5, <1>9, <1>12
<1>15. /\ Combined(op, n, held) \/ PlaceholderSatisfied(op, n, held, excused)
            => CanCombine(op, n, may, mayNot, TRUE)
       /\ (op = "oneOf" => held \cap mayNot = {}) /\ CanCombine(op, n, may, mayNot, TRUE)
            => Combined(op, n, held) \/ PlaceholderSatisfied(op, n, held, excused)
  BY <1>3, <1>4, <1>5, <1>13, CombinatorRule
<1> QED BY <1>7, <1>8, <1>14, <1>15

-----------------------------------------------------------------------------
(* The Agent webhook and the compiler: the inductive invariant.             *)

\* The Capability an attachment refers to, as it is now.
Now(i) == caps[Attachments[i].ref]

\* The compiler's copy of it.
Copy(i) == cached[Attachments[i].ref]

AdmissionTypes ==
  /\ policy \in [webhooks : BOOLEAN, requireVerified : BOOLEAN]
  /\ caps \in [Caps -> Capabilities] /\ cached \in [Caps -> Capabilities]
  /\ agent \in AgentSpecs
  /\ stage \in {"idle", "admitting", "stored", "denied", "compiling"} \cup Settled
  /\ reads \in Seq(Capabilities) /\ Len(reads) <= Len(Attachments)
  /\ warned \in BOOLEAN /\ changed \in BOOLEAN /\ dirty \in BOOLEAN

\* An attachment the compile went past.
Passes(i) ==
  /\ RunnerKnown /\ Judged(i) /\ reads[i].there
  /\ policy.requireVerified => reads[i].verified = "true"
  /\ CheckRequires(Cap(i), agent.runner)
  /\ EntryName(Cap(i)) \notin FragmentNames
  /\ \A k \in 1..Len(Injected) : Injected[k] # EntryName(Cap(i))
  /\ \A j \in 1..(i - 1) : EntryName(Cap(j)) # EntryName(Cap(i))

AllPass == stage \in {"compiling", "compiled"} => \A i \in 1..Len(reads) : Passes(i)

\* What a compiled document rests on.
Complete ==
  stage = "compiled" =>
     /\ Len(reads) = Len(Attachments) /\ RunnerKnown /\ out = Document
     /\ DetectConflicts(Deps, Runners[agent.runner].baseline) = {}

DeniedForCause ==
  stage = "denied" => Len(reads) = Len(Attachments) /\ (InlineRefused \/ CapabilitiesRefused)

\* The Capabilities stood still, and the webhook saw all it asked for.
Undisturbed == policy.webhooks /\ ~changed /\ ~warned

\* What the webhook read is what is there.
ReadsAreCurrent ==
  Undisturbed /\ stage = "admitting" =>
     \A i \in 1..Len(reads) :
        IF Judged(i) THEN reads[i] = Now(i) /\ reads[i].there ELSE reads[i] = NoCapability

\* What the compile read is what its copies say, until one of them changes.
CopiesAreCurrent ==
  ~dirty /\ stage \in {"compiling"} \cup Settled =>
     \A i \in 1..Len(reads) : reads[i] = IF Judged(i) THEN Copy(i) ELSE NoCapability

\* Why a compile was refused for good.
Refusal ==
  \/ agent.extra = "nonobject" \/ ~agent.conforms \/ ~RunnerKnown
  \/ \E i \in 1..Len(reads) : AttachmentVerdict(i, reads[i]) = "refused"
  \/ /\ Len(reads) = Len(Attachments)
     /\ DetectConflicts(Deps, Runners[agent.runner].baseline) # {}

RefusedForCause == stage = "refused" => Refusal

\* What the webhook's verdict says of the Capabilities as they are.
Admissible ==
  /\ RunnerKnown
  /\ \A i \in 1..Len(Attachments) :
        /\ Judged(i) /\ Now(i).there
        /\ EntryName(Now(i).spec) \notin FragmentNames
        /\ \A j \in 1..(i - 1) : EntryName(Now(j).spec) # EntryName(Now(i).spec)
        /\ CheckRequires(Now(i).spec, agent.runner)
        /\ Attachments[i].config # "nonobject"
        /\ Now(i).spec.strict => ConfigValid(Now(i).spec.schema, Attachments[i].config)
  /\ DetectConflicts([i \in 1..Len(Attachments) |-> Now(i).spec.pins],
                     Runners[agent.runner].baseline) = {}

AdmissionHolds ==
  Undisturbed /\ Attachments # <<>> /\ stage \in {"stored", "compiling"} \cup Settled => Admissible

AdmissionIndInv ==
  /\ AdmissionTypes /\ (stage = "idle" => reads = <<>>) /\ AllPass /\ Complete /\ DeniedForCause
  /\ ReadsAreCurrent /\ CopiesAreCurrent /\ AdmissionHolds /\ RefusedForCause

-----------------------------------------------------------------------------
(* What a step leaves alone. *)

\* Nobody changes the Agent or the flags.
LEMMA AgentStays ==
  ASSUME agent' = agent
  PROVE  /\ Attachments' = Attachments /\ (RunnerKnown' <=> RunnerKnown)
         /\ FragmentNames' = FragmentNames /\ (InlineRefused' <=> InlineRefused)
         /\ \A i : Judged(i)' <=> Judged(i)
         /\ \A i : Foreign(i)' <=> Foreign(i)
         /\ \A i : Repeated(i)' <=> Repeated(i)
<1>1. Attachments' = Attachments /\ (RunnerKnown' <=> RunnerKnown) /\ FragmentNames' = FragmentNames
  BY DEF Attachments, RunnerKnown, FragmentNames
<1>2. InlineRefused' <=> InlineRefused
  BY <1>1 DEF InlineRefused
<1>3. \A i : Foreign(i)' <=> Foreign(i)
  BY <1>1 DEF Foreign
<1>4. \A i : Repeated(i)' <=> Repeated(i)
  BY <1>1, <1>3 DEF Repeated
<1>5. \A i : Judged(i)' <=> Judged(i)
  BY <1>3, <1>4 DEF Judged
<1> QED BY <1>1, <1>2, <1>3, <1>4, <1>5

\* A read stays what it was.
LEMMA PassStays ==
  ASSUME agent' = agent, policy' = policy, NEW i \in Nat,
         \A j \in 1..i : reads'[j] = reads[j], Passes(i), i >= 1
  PROVE  Passes(i)'
<1>1. i \in 1..i /\ \A j \in 1..(i - 1) : j \in 1..i
  OBVIOUS
<1>2. reads'[i] = reads[i] /\ \A j \in 1..(i - 1) : reads'[j] = reads[j]
  BY <1>1
<1>3. Cap(i)' = Cap(i) /\ \A j \in 1..(i - 1) : Cap(j)' = Cap(j)
  BY <1>2 DEF Cap
<1> QED BY <1>2, <1>3, AgentStays DEF Passes

\* The verdict on an attachment depends only on the agent, the policy and what was
\* read before it.
LEMMA VerdictStays ==
  ASSUME agent' = agent, policy' = policy, NEW i, NEW g,
         \A j \in 1..(i - 1) : reads'[j] = reads[j], reads'[i] = g
  PROVE  AttachmentVerdict(i, reads[i])' = AttachmentVerdict(i, g)
<1>1. \A j \in 1..(i - 1) : (Found(j)' <=> Found(j)) /\ Cap(j)' = Cap(j)
  BY AgentStays DEF Found, Cap
<1>2. (\E j \in 1..(i - 1) : Found(j) /\ EntryName(Cap(j)) = EntryName(g.spec))'
        <=> \E j \in 1..(i - 1) : Found(j) /\ EntryName(Cap(j)) = EntryName(g.spec)
  BY <1>1
<1> QED BY <1>2, AgentStays DEF AttachmentVerdict

\* The document depends only on the agent, the policy and what was read.
LEMMA ReadsStay ==
  ASSUME agent' = agent, policy' = policy, reads' = reads
  PROVE  /\ Deps' = Deps /\ Document' = Document
         /\ CapabilitiesRefused' <=> CapabilitiesRefused
         /\ Refusal' <=> Refusal
<1>1. \A i : (Found(i)' <=> Found(i)) /\ Cap(i)' = Cap(i) /\ CapabilityEntry(i)' = CapabilityEntry(i)
  BY AgentStays DEF Found, Cap, CapabilityEntry
<1>2. Deps' = Deps
  BY <1>1 DEF Deps
<1>3. Document' = Document
  BY <1>1 DEF Document, OwnEntries
<1>4. \A i : (NameTaken(i)' <=> NameTaken(i)) /\ (ConfigRefused(i)' <=> ConfigRefused(i))
  BY <1>1, AgentStays DEF NameTaken, ConfigRefused
<1>5. CapabilitiesRefused' <=> CapabilitiesRefused
  BY <1>1, <1>2, <1>4, AgentStays DEF CapabilitiesRefused
<1>6. \A i : AttachmentVerdict(i, reads[i])' = AttachmentVerdict(i, reads[i])
  BY VerdictStays
<1>7. Refusal' <=> Refusal
  BY <1>2, <1>6, AgentStays DEF Refusal
<1> QED BY <1>2, <1>3, <1>5, <1>7

\* What is there now depends only on the agent, the policy and the capabilities.
LEMMA NowStays ==
  ASSUME agent' = agent, policy' = policy, caps' = caps
  PROVE  /\ \A i : Now(i)' = Now(i)
         /\ Admissible' <=> Admissible
<1>1. \A i : Now(i)' = Now(i)
  BY AgentStays DEF Now
<1>2. Admissible' <=> Admissible
  BY <1>1, AgentStays DEF Admissible
<1> QED BY <1>1, <1>2

\* Types of what is at hand.
LEMMA HandTypes ==
  ASSUME AdmissionTypes
  PROVE  /\ Attachments \in Seq([ref : Caps, ns : {"own", "other"},
                 config : {"nil", "empty", "nonobject", "number", "text", "placeholder"}])
         /\ agent.frag \in Seq(STRING) /\ agent.extraCaps \in Seq(STRING) /\ agent.tools \in Nat
         /\ Len(Attachments) \in Nat /\ Len(reads) \in Nat
         /\ \A i \in 1..Len(reads) : reads[i] \in Capabilities /\ i \in 1..Len(Attachments)
         /\ \A i \in 1..Len(Attachments) : Now(i) \in Capabilities /\ Copy(i) \in Capabilities
<1>1. /\ Attachments \in Seq([ref : Caps, ns : {"own", "other"},
                config : {"nil", "empty", "nonobject", "number", "text", "placeholder"}])
      /\ agent.frag \in Seq(STRING) /\ agent.extraCaps \in Seq(STRING) /\ agent.tools \in Nat
  BY DEF AdmissionTypes, AgentSpecs, Attachments
<1>2. Len(Attachments) \in Nat /\ Len(reads) \in Nat /\ Len(reads) <= Len(Attachments)
  BY <1>1 DEF AdmissionTypes
<1>3. \A i \in 1..Len(reads) : reads[i] \in Capabilities
  BY DEF AdmissionTypes
<1>4. \A i \in 1..Len(Attachments) : Attachments[i].ref \in Caps
  <2> DEFINE X == [ref : Caps, ns : {"own", "other"},
                   config : {"nil", "empty", "nonobject", "number", "text", "placeholder"}]
  <2>1. \A x \in X : x.ref \in Caps
    OBVIOUS
  <2>2. Attachments \in Seq(X)
    BY <1>1
  <2> HIDE DEF X
  <2> QED BY <2>1, <2>2
<1>5. \A i \in 1..Len(Attachments) : Now(i) \in Capabilities /\ Copy(i) \in Capabilities
  BY <1>4 DEF Now, Copy, AdmissionTypes
<1> QED BY <1>1, <1>2, <1>3, <1>5

\* A capability is there with a spec, or is not there.
LEMMA CapabilityFacts ==
  ASSUME NEW c \in Capabilities
  PROVE  /\ c.there \in BOOLEAN
         /\ c.there => c.spec \in CapabilitySpecs
         /\ c = NoCapability <=> ~ c.there
<1>1. CASE c = NoCapability
  <2>1. NoCapability.there = FALSE
    BY DEF NoCapability
  <2> QED BY <1>1, <2>1
<1>2. CASE c # NoCapability
  <2>1. c.there = TRUE /\ c.spec \in CapabilitySpecs
    BY <1>2 DEF Capabilities
  <2> QED BY <1>2, <2>1
<1> QED BY <1>1, <1>2

\* The next read.
LEMMA AppendFacts ==
  ASSUME AdmissionTypes, Len(reads) < Len(Attachments), NEW g \in Capabilities,
         reads' = Append(reads, g)
  PROVE  /\ reads' \in Seq(Capabilities) /\ Len(reads') = Len(reads) + 1
         /\ Len(reads') <= Len(Attachments)
         /\ reads'[Len(reads) + 1] = g
         /\ \A j \in 1..Len(reads) : reads'[j] = reads[j]
<1>1. reads \in Seq(Capabilities) /\ Len(reads) \in Nat /\ Len(Attachments) \in Nat
  BY HandTypes DEF AdmissionTypes
<1> QED BY <1>1

\* The dependency lists are lists.
LEMMA DepsFacts ==
  ASSUME AdmissionTypes
  PROVE  /\ Len(Deps) = Len(reads) /\ Len(Deps) \in Nat
         /\ \A i \in 1..Len(Deps) : Len(Deps[i]) \in Nat
<1> DEFINE Y == Seq([as : STRING, version : STRING, pin : BOOLEAN])
           of(i) == IF Found(i) THEN Cap(i).pins ELSE <<>>
<1>1. Len(reads) \in Nat
  BY HandTypes
<1>2. \A i \in 1..Len(reads) : of(i) \in Y
  <2> SUFFICES ASSUME NEW i \in 1..Len(reads) PROVE of(i) \in Y
    OBVIOUS
  <2>1. reads[i] \in Capabilities
    BY HandTypes
  <2>2. Found(i) => Cap(i) \in CapabilitySpecs
    BY <2>1, CapabilityFacts DEF Found, Cap
  <2>3. Found(i) => Cap(i).pins \in Y
    BY <2>2 DEF CapabilitySpecs
  <2>4. <<>> \in Y
    OBVIOUS
  <2> QED BY <2>3, <2>4
<1>3. Deps = [i \in 1..Len(reads) |-> of(i)]
  BY DEF Deps
<1>4. \A y \in Y : Len(y) \in Nat
  OBVIOUS
<1> HIDE DEF Y, of
<1>5. Deps \in [1..Len(reads) -> Y]
  BY <1>2, <1>3
<1>6. Deps \in Seq(Y) /\ Len(Deps) = Len(reads)
  BY <1>1, <1>5
<1> QED BY <1>1, <1>4, <1>6

\* The compiler finds no conflict exactly when every package has one version.
LEMMA VersionsAgree ==
  ASSUME AdmissionTypes
  PROVE  OneVersionPerPackage <=> DetectConflicts(Deps, Runners[agent.runner].baseline) = {}
<1> DEFINE d == Deps
           b == Runners[agent.runner].baseline
<1>1. OneVersionPerPackage <=> OneVersion(d, b)
  BY DEF OneVersionPerPackage, OneVersion
<1>2. Len(d) \in Nat /\ \A i \in 1..Len(d) : Len(d[i]) \in Nat
  BY DepsFacts
<1> HIDE DEF d, b
<1>3. DetectConflicts(d, b) = {} <=> OneVersion(d, b)
  BY <1>2, ConflictsAreExact
<1> QED BY <1>1, <1>3 DEF d, b

\* A function on 1..n is a sequence of length n.
LEMMA FunctionIsSeq ==
  ASSUME NEW S, NEW n \in Nat, NEW f \in [1..n -> S]
  PROVE  f \in Seq(S) /\ Len(f) = n
OBVIOUS

\* Four lists, one after another.
InFourParts(o, a, b, c, d) ==
  /\ \A k \in 1..Len(o) :
       \/ k \in 1..Len(a) /\ o[k] = a[k]
       \/ k \in (Len(a) + 1)..(Len(a) + Len(b))
       \/ /\ k - (Len(a) + Len(b)) \in 1..Len(c)
          /\ o[k] = c[k - (Len(a) + Len(b))]
       \/ \E m \in 1..Len(d) : o[k] = d[m]
  /\ \A k \in 1..Len(d) : o[Len(o) - Len(d) + k] = d[k]

\* Where the elements of four concatenated lists are.
LEMMA FourParts ==
  ASSUME NEW S, NEW a \in Seq(S), NEW b \in Seq(S), NEW c \in Seq(S), NEW d \in Seq(S),
         NEW o, o = a \o b \o c \o d
  PROVE  InFourParts(o, a, b, c, d)
<1> DEFINE e == a \o b
           f == e \o c
<1>1. /\ Len(a) \in Nat /\ Len(b) \in Nat /\ Len(c) \in Nat /\ Len(d) \in Nat
  OBVIOUS
<1>2. /\ e \in Seq(S) /\ Len(e) = Len(a) + Len(b)
      /\ \A i \in 1..(Len(a) + Len(b)) : e[i] = IF i <= Len(a) THEN a[i] ELSE b[i - Len(a)]
  BY ConcatProperties
<1> HIDE DEF e
<1>3. /\ f \in Seq(S) /\ Len(f) = Len(e) + Len(c)
      /\ \A i \in 1..(Len(e) + Len(c)) : f[i] = IF i <= Len(e) THEN e[i] ELSE c[i - Len(e)]
  BY <1>2, ConcatProperties
<1>4. o = f \o d
  BY DEF e
<1> HIDE DEF f
<1>5. /\ Len(o) = Len(f) + Len(d)
      /\ \A i \in 1..(Len(f) + Len(d)) : o[i] = IF i <= Len(f) THEN f[i] ELSE d[i - Len(f)]
  BY <1>3, <1>4, ConcatProperties
<1>7. ASSUME NEW k \in 1..Len(o)
      PROVE  \/ k \in 1..Len(a) /\ o[k] = a[k]
             \/ k \in (Len(a) + 1)..(Len(a) + Len(b))
             \/ /\ k - (Len(a) + Len(b)) \in 1..Len(c)
                /\ o[k] = c[k - (Len(a) + Len(b))]
             \/ \E m \in 1..Len(d) : o[k] = d[m]
  <2>1. CASE k <= Len(a)
    <3>1. k \in 1..(Len(f) + Len(d)) /\ k <= Len(f) /\ k \in 1..(Len(e) + Len(c)) /\ k <= Len(e)
          /\ k \in 1..(Len(a) + Len(b)) /\ k \in 1..Len(a)
      BY <1>1, <1>2, <1>3, <1>5, <2>1
    <3>2. o[k] = f[k] /\ f[k] = e[k] /\ e[k] = a[k]
      BY <1>2, <1>3, <1>5, <2>1, <3>1
    <3> QED BY <3>1, <3>2
  <2>2. CASE ~ (k <= Len(a)) /\ k <= Len(a) + Len(b)
    BY <1>1, <2>2
  <2>3. CASE ~ (k <= Len(a) + Len(b)) /\ k <= Len(a) + Len(b) + Len(c)
    <3>1. /\ k \in 1..(Len(f) + Len(d)) /\ k <= Len(f) /\ k \in 1..(Len(e) + Len(c))
          /\ ~ (k <= Len(e)) /\ k - (Len(a) + Len(b)) \in 1..Len(c)
      BY <1>1, <1>2, <1>3, <1>5, <2>3
    <3>2. o[k] = f[k] /\ f[k] = c[k - Len(e)]
      BY <1>3, <1>5, <3>1
    <3> QED BY <1>2, <3>1, <3>2
  <2>4. CASE ~ (k <= Len(a) + Len(b) + Len(c))
    <3>1. k \in 1..(Len(f) + Len(d)) /\ ~ (k <= Len(f)) /\ k - Len(f) \in 1..Len(d)
      BY <1>1, <1>2, <1>3, <1>5, <2>4
    <3>2. o[k] = d[k - Len(f)]
      BY <1>5, <3>1
    <3> QED BY <3>1, <3>2
  <2> QED BY <1>1, <2>1, <2>2, <2>3, <2>4
<1>8. ASSUME NEW k \in 1..Len(d)
      PROVE  o[Len(o) - Len(d) + k] = d[k]
  <2> DEFINE x == Len(o) - Len(d) + k
  <2>1. x = Len(f) + k /\ x \in 1..(Len(f) + Len(d)) /\ ~ (x <= Len(f)) /\ x - Len(f) = k
    BY <1>1, <1>2, <1>3, <1>5
  <2> HIDE DEF x
  <2>2. o[x] = d[x - Len(f)]
    BY <1>5, <2>1
  <2> QED BY <2>1, <2>2 DEF x
<1> QED BY <1>7, <1>8 DEF InFourParts

\* Where an entry of the document comes from.
LEMMA DocumentFacts ==
  ASSUME AdmissionTypes, \A i \in 1..Len(reads) : reads[i].there, NEW o, o = Document
  PROVE  /\ \A k \in 1..Len(o) :
              \/ k \in 1..Len(agent.extraCaps)
              \/ o[k] \in FragmentNames
              \/ k \in (Len(OwnEntries) + 1)..(Len(OwnEntries) + agent.tools)
              \/ \E i \in 1..Len(reads) : /\ o[k] = EntryName(Cap(i))
                                          /\ k = Len(OwnEntries) + agent.tools + i
              \/ \E m \in 1..Len(Injected) : o[k] = Injected[m]
         /\ \A k \in 1..Len(Injected) : o[Len(o) - Len(Injected) + k] = Injected[k]
<1> DEFINE a == OwnEntries
           b == [k \in 1..agent.tools |-> "MCP"]
           c == [i \in 1..Len(reads) |-> CapabilityEntry(i)]
           d == Injected
           S == STRING \cup {"MCP"} \cup {CapabilityEntry(i) : i \in 1..Len(reads)}
                  \cup PathPunctuation
<1>1. a \in Seq(STRING) /\ agent.tools \in Nat /\ Len(reads) \in Nat
  BY HandTypes DEF OwnEntries
<1>2. b \in [1..agent.tools -> S] /\ c \in [1..Len(reads) -> S]
  OBVIOUS
<1>3. d \in Seq(PathPunctuation)
  BY InjectedAssumption
<1>4. \A x : x \in STRING \/ x \in PathPunctuation => x \in S
  OBVIOUS
<1>5. \A i \in 1..Len(reads) : c[i] = CapabilityEntry(i)
  OBVIOUS
<1>6. o = a \o b \o c \o d
  BY DEF Document
<1> HIDE DEF S, b, c, d
<1>7. a \in Seq(S) /\ d \in Seq(S)
  BY <1>1, <1>3, <1>4
<1>8. b \in Seq(S) /\ Len(b) = agent.tools /\ c \in Seq(S) /\ Len(c) = Len(reads)
  BY <1>1, <1>2, FunctionIsSeq
<1> HIDE DEF a
<1>9. InFourParts(o, a, b, c, d)
  BY <1>6, <1>7, <1>8, FourParts
<1>10. \A k \in 1..Len(a) : k \in 1..Len(agent.extraCaps) \/ a[k] \in FragmentNames
  <2>1. /\ agent.extraCaps \in Seq(STRING) /\ agent.frag \in Seq(STRING)
        /\ a = agent.extraCaps \o agent.frag
    BY HandTypes DEF OwnEntries, a
  <2>2. /\ Len(agent.extraCaps) \in Nat /\ Len(agent.frag) \in Nat
        /\ Len(a) = Len(agent.extraCaps) + Len(agent.frag)
    BY <2>1, ConcatProperties
  <2>3. ASSUME NEW k \in 1..Len(a), k \notin 1..Len(agent.extraCaps) PROVE a[k] \in FragmentNames
    <3>1. k - Len(agent.extraCaps) \in 1..Len(agent.frag) /\ ~ (k <= Len(agent.extraCaps))
      <4> DEFINE p == Len(agent.extraCaps)
                 q == Len(agent.frag)
      <4>1. p \in Nat /\ q \in Nat /\ k \in 1..(p + q) /\ k \notin 1..p
        BY <2>2, <2>3
      <4> HIDE DEF p, q
      <4>2. k - p \in 1..q /\ ~ (k <= p)
        BY <4>1
      <4> QED BY <4>2 DEF p, q
    <3>2. a[k] = agent.frag[k - Len(agent.extraCaps)]
      BY <2>1, <2>2, <3>1, ConcatProperties
    <3> QED BY <3>1, <3>2 DEF FragmentNames
  <2> QED BY <2>3
<1>11. \A i \in 1..Len(reads) : c[i] = EntryName(Cap(i))
  BY <1>5 DEF CapabilityEntry
<1>12. Len(a) \in Nat
  BY <1>7
<1>13. ASSUME NEW k \in 1..Len(o), k - (Len(a) + Len(b)) \in 1..Len(c),
              o[k] = c[k - (Len(a) + Len(b))]
       PROVE  \E i \in 1..Len(reads) : o[k] = EntryName(Cap(i)) /\ k = Len(a) + agent.tools + i
  <2> DEFINE i == k - (Len(a) + Len(b))
  <2>1. i \in 1..Len(reads) /\ k = Len(a) + agent.tools + i
    BY <1>1, <1>8, <1>12, <1>13
  <2>2. o[k] = EntryName(Cap(i))
    BY <1>11, <1>13, <2>1
  <2> QED BY <2>1, <2>2
<1>14. \A k \in 1..Len(o) :
          \/ k \in 1..Len(agent.extraCaps)
          \/ o[k] \in FragmentNames
          \/ k \in (Len(a) + 1)..(Len(a) + agent.tools)
          \/ \E i \in 1..Len(reads) : o[k] = EntryName(Cap(i)) /\ k = Len(a) + agent.tools + i
          \/ \E m \in 1..Len(d) : o[k] = d[m]
  BY <1>8, <1>9, <1>10, <1>13 DEF InFourParts
<1> QED BY <1>9, <1>14 DEF a, d, InFourParts

-----------------------------------------------------------------------------
(* The invariant says what is wanted. *)

\* What the checks passed adds up to a sound document.
LEMMA SoundlyCompiled ==
  ASSUME AdmissionTypes, AllPass, Complete
  PROVE  AdmissionTypeOK /\ CompiledIsSound
<1>1. AdmissionTypeOK
  BY HandTypes DEF AdmissionTypeOK, AdmissionTypes, AllPass, Complete, Passes
<1>2. CompiledIsSound
  <2> SUFFICES ASSUME stage = "compiled" PROVE CompiledIsSound
    BY DEF CompiledIsSound
  <2>1. /\ Len(reads) = Len(Attachments) /\ out = Document
        /\ DetectConflicts(Deps, Runners[agent.runner].baseline) = {}
        /\ \A i \in 1..Len(reads) : Passes(i)
    BY DEF AllPass, Complete
  <2>2. OneVersionPerPackage
    BY <2>1, VersionsAgree
  <2>3. \A i \in 1..Len(reads) : reads[i].there
    BY <2>1 DEF Passes
  <2> DEFINE f == Len(OwnEntries)
             g == agent.tools
  <2>4. /\ \A k \in 1..Len(out) :
             \/ k \in 1..Len(agent.extraCaps)
             \/ out[k] \in FragmentNames
             \/ k \in (f + 1)..(f + g)
             \/ \E i \in 1..Len(reads) : out[k] = EntryName(Cap(i)) /\ k = f + g + i
             \/ \E m \in 1..Len(Injected) : out[k] = Injected[m]
        /\ \A k \in 1..Len(Injected) : out[Len(out) - Len(Injected) + k] = Injected[k]
    BY <2>1, <2>3, DocumentFacts
  <2>5. ASSUME NEW i \in 1..Len(reads), NEW j \in 1..Len(reads), EntryName(Cap(j)) = EntryName(Cap(i))
        PROVE  i = j
    <3>1. /\ \A k \in 1..(i - 1) : EntryName(Cap(k)) # EntryName(Cap(i))
          /\ \A k \in 1..(j - 1) : EntryName(Cap(k)) # EntryName(Cap(j))
      BY <2>1 DEF Passes
    <3>2. Len(reads) \in Nat
      BY HandTypes
    <3>3. i < j => i \in 1..(j - 1)
      BY <3>2
    <3>4. j < i => j \in 1..(i - 1)
      BY <3>2
    <3>5. ~ (i < j) /\ ~ (j < i)
      BY <2>5, <3>1, <3>3, <3>4
    <3> QED BY <3>2, <3>5
  <2>6. ASSUME NEW i \in 1..Len(Attachments)
        PROVE  /\ Attachments[i].ns = "own"
               /\ Admits(Cap(i).runner, agent.runner)
               /\ Admits(Cap(i).pydantic, Runners[agent.runner].pydantic)
               /\ policy.requireVerified => reads[i].verified = "true"
               /\ \A k \in 1..Len(out) :
                     out[k] = EntryName(Cap(i))
                        => \/ k = f + g + i
                           \/ k \in (f + 1)..(f + g)
                           \/ k \in 1..Len(agent.extraCaps)
    <3>1. Passes(i) /\ i \in 1..Len(reads)
      BY <2>1
    <3>2. Attachments[i].ns = "own"
      BY <3>1 DEF Passes, Judged, Foreign
    <3>3. /\ Admits(Cap(i).runner, agent.runner)
          /\ Admits(Cap(i).pydantic, Runners[agent.runner].pydantic)
      BY <3>1 DEF Passes, CheckRequires
    <3>4. /\ EntryName(Cap(i)) \notin FragmentNames
          /\ \A m \in 1..Len(Injected) : Injected[m] # EntryName(Cap(i))
          /\ policy.requireVerified => reads[i].verified = "true"
      BY <3>1 DEF Passes
    <3>5. ASSUME NEW k \in 1..Len(out), out[k] = EntryName(Cap(i))
          PROVE  \/ k = f + g + i
                 \/ k \in (f + 1)..(f + g)
                 \/ k \in 1..Len(agent.extraCaps)
      <4>1. \/ k \in (f + 1)..(f + g)
            \/ k \in 1..Len(agent.extraCaps)
            \/ \E j \in 1..Len(reads) : out[k] = EntryName(Cap(j)) /\ k = f + g + j
        BY <2>4, <3>4, <3>5
      <4> QED BY <2>5, <3>1, <3>5, <4>1
    <3> QED BY <3>2, <3>3, <3>4, <3>5
  <2> QED BY <2>2, <2>4, <2>6 DEF CompiledIsSound
<1> QED BY <1>1, <1>2

\* What the webhook refused the compiler would not take.
LEMMA SoundlyDenied ==
  ASSUME AdmissionTypes, DeniedForCause
  PROVE  DeniedWouldNotCompile
<1> SUFFICES ASSUME stage = "denied", ~ InlineRefused,
                    OneVersionPerPackage,
                    \A i \in 1..Len(Attachments) : AttachmentVerdict(i, reads[i]) = "compiling"
             PROVE  FALSE
  BY DEF DeniedWouldNotCompile
<1>1. Len(reads) = Len(Attachments) /\ CapabilitiesRefused
  BY DEF DeniedForCause
<1>2. DetectConflicts(Deps, Runners[agent.runner].baseline) = {}
  BY VersionsAgree
<1>3. ASSUME NEW i \in 1..Len(Attachments)
      PROVE  /\ RunnerKnown /\ Judged(i) /\ reads[i].there
             /\ policy.requireVerified => reads[i].verified = "true"
             /\ CheckRequires(Cap(i), agent.runner)
             /\ ~ ConfigRefused(i) /\ ~ NameTaken(i)
  <2>1. AttachmentVerdict(i, reads[i]) = "compiling"
    OBVIOUS
  <2>2. ~ (~RunnerKnown \/ Foreign(i) \/ Repeated(i))
    BY <2>1 DEF AttachmentVerdict
  <2>3. ~ (~reads[i].there \/ (policy.requireVerified /\ reads[i].verified # "true"))
    BY <2>1, <2>2 DEF AttachmentVerdict
  <2>4. ~ (\/ ~CheckRequires(reads[i].spec, agent.runner)
           \/ reads[i].spec.strict /\ ~ConfigValid(reads[i].spec.schema, Attachments[i].config)
           \/ Attachments[i].config = "nonobject"
           \/ ~EntryNameValid(EntryName(reads[i].spec))
           \/ EntryName(reads[i].spec) \in FragmentNames
           \/ \E k \in 1..Len(Injected) : Injected[k] = EntryName(reads[i].spec)
           \/ \E j \in 1..(i - 1) : Found(j) /\ EntryName(Cap(j)) = EntryName(reads[i].spec))
    BY <2>1, <2>2, <2>3 DEF AttachmentVerdict
  <2> QED BY <2>2, <2>3, <2>4 DEF Judged, Cap, ConfigRefused, NameTaken
<1>4. Attachments # <<>>
  BY <1>1 DEF CapabilitiesRefused
<1>5. 1 \in 1..Len(Attachments)
  BY <1>4, HandTypes
<1>6. RunnerKnown
  BY <1>3, <1>5
<1>7. \E i \in 1..Len(Attachments) :
             \/ ~Judged(i)
             \/ Judged(i) /\ ~reads[i].there /\ policy.requireVerified
             \/ /\ Found(i)
                /\ \/ NameTaken(i)
                   \/ ~CheckRequires(Cap(i), agent.runner)
                   \/ policy.requireVerified /\ reads[i].verified # "true"
                   \/ ConfigRefused(i)
  BY <1>1, <1>2, <1>6 DEF CapabilitiesRefused
<1> QED BY <1>3, <1>7

\* Every schema a Capability may bring.
LEMMA PlaceholdersFit ==
  ASSUME AdmissionTypes
  PROVE  PlaceholderStandsForAString
<1> SUFFICES ASSUME NEW n \in Caps, caps[n].there, caps[n].spec.schema.compiles
             PROVE  /\ ConfigValid(caps[n].spec.schema, "placeholder")
                         => StringCanPass(caps[n].spec.schema)
                    /\ StringCanPass(caps[n].spec.schema)
                         => \/ ConfigValid(caps[n].spec.schema, "placeholder")
                            \/ OneOfInOneOf(caps[n].spec.schema)
  BY DEF PlaceholderStandsForAString
<1>1. caps[n] \in Capabilities
  BY DEF AdmissionTypes
<1>2. caps[n].spec \in CapabilitySpecs
  BY <1>1, CapabilityFacts
<1>3. caps[n].spec.schema \in Schemas
  BY <1>2 DEF CapabilitySpecs
<1> QED BY <1>3, PlaceholderRule

\* The verdict on an attachment.
LEMMA VerdictFacts ==
  ASSUME NEW i, NEW g, NEW v, v = AttachmentVerdict(i, g)
  PROVE  /\ v \in {"refused", "retrying", "compiling"}
         /\ v = "compiling" =>
              /\ RunnerKnown /\ Judged(i) /\ g.there
              /\ policy.requireVerified => g.verified = "true"
              /\ CheckRequires(g.spec, agent.runner)
              /\ EntryName(g.spec) \notin FragmentNames
              /\ \A k \in 1..Len(Injected) : Injected[k] # EntryName(g.spec)
              /\ \A j \in 1..(i - 1) : ~ (Found(j) /\ EntryName(Cap(j)) = EntryName(g.spec))
         /\ v = "refused" /\ RunnerKnown /\ Judged(i) =>
              /\ g.there
              /\ \/ ~CheckRequires(g.spec, agent.runner)
                 \/ g.spec.strict /\ ~ConfigValid(g.spec.schema, Attachments[i].config)
                 \/ Attachments[i].config = "nonobject"
                 \/ ~EntryNameValid(EntryName(g.spec))
                 \/ EntryName(g.spec) \in FragmentNames
                 \/ \E k \in 1..Len(Injected) : Injected[k] = EntryName(g.spec)
                 \/ \E j \in 1..(i - 1) : Found(j) /\ EntryName(Cap(j)) = EntryName(g.spec)
<1> DEFINE A == ~RunnerKnown \/ Foreign(i) \/ Repeated(i)
           B == ~g.there \/ (policy.requireVerified /\ g.verified # "true")
           C == \/ ~CheckRequires(g.spec, agent.runner)
                \/ g.spec.strict /\ ~ConfigValid(g.spec.schema, Attachments[i].config)
                \/ Attachments[i].config = "nonobject"
                \/ ~EntryNameValid(EntryName(g.spec))
                \/ EntryName(g.spec) \in FragmentNames
                \/ \E k \in 1..Len(Injected) : Injected[k] = EntryName(g.spec)
                \/ \E j \in 1..(i - 1) : Found(j) /\ EntryName(Cap(j)) = EntryName(g.spec)
<1>1. v = IF A THEN "refused" ELSE IF B THEN "retrying" ELSE IF C THEN "refused" ELSE "compiling"
  BY DEF AttachmentVerdict
<1>2. ~ A <=> RunnerKnown /\ Judged(i)
  BY DEF Judged
<1> HIDE DEF A, B, C
<1>3. /\ v \in {"refused", "retrying", "compiling"}
      /\ v = "compiling" => ~ A /\ ~ B /\ ~ C
      /\ v = "refused" /\ ~ A => ~ B /\ C
  BY <1>1
<1> QED BY <1>2, <1>3 DEF B, C

\* Copies that are up to date say what the Capabilities are.
LEMMA UpToDate ==
  ASSUME AdmissionTypes, CopiesAreCurrent, stage = "refused", cached = caps, ~dirty
  PROVE  \A i \in 1..Len(reads) : reads[i] = IF Judged(i) THEN Now(i) ELSE NoCapability
<1>1. \A i : Copy(i) = Now(i)
  BY DEF Copy, Now
<1>2. stage \in {"compiling"} \cup Settled
  BY DEF Settled
<1> QED BY <1>1, <1>2 DEF CopiesAreCurrent

\* What the webhook found admissible, the compiler refuses only for a name.
LEMMA VerdictOverCurrent ==
  ASSUME AdmissionTypes, CopiesAreCurrent, stage = "refused", cached = caps, ~dirty, Admissible,
         NEW i \in 1..Len(reads), AttachmentVerdict(i, reads[i]) = "refused"
  PROVE  reads[i].there /\ ~ EntryNameValid(EntryName(reads[i].spec))
<1>1. i \in 1..Len(Attachments) /\ Len(reads) \in Nat /\ Len(Attachments) \in Nat
  BY HandTypes
<1>2. /\ RunnerKnown /\ Judged(i) /\ EntryName(Now(i).spec) \notin FragmentNames
      /\ \A j \in 1..(i - 1) : EntryName(Now(j).spec) # EntryName(Now(i).spec)
      /\ CheckRequires(Now(i).spec, agent.runner)
      /\ Attachments[i].config # "nonobject"
      /\ Now(i).spec.strict => ConfigValid(Now(i).spec.schema, Attachments[i].config)
  BY <1>1 DEF Admissible
<1>3. reads[i] = Now(i)
  BY <1>2, UpToDate
<1>4. \A j \in 1..(i - 1) : Found(j) => Cap(j) = Now(j).spec
  <2>1. \A j \in 1..(i - 1) : j \in 1..Len(reads)
    BY <1>1
  <2> QED BY <2>1, UpToDate DEF Found, Cap
<1>5. /\ reads[i].there
      /\ \/ ~EntryNameValid(EntryName(reads[i].spec))
         \/ \E k \in 1..Len(Injected) : Injected[k] = EntryName(reads[i].spec)
  <2>1. \A j \in 1..(i - 1) : Found(j) => EntryName(Cap(j)) # EntryName(reads[i].spec)
    BY <1>2, <1>3, <1>4
  <2> QED BY <1>2, <1>3, <2>1, VerdictFacts
<1>6. \A k \in 1..Len(Injected) : Injected[k] \in PathPunctuation
  BY InjectedAssumption
<1> QED BY <1>5, <1>6 DEF EntryNameValid

\* Nor are there conflicts among what the webhook found admissible.
LEMMA NoConflictOverCurrent ==
  ASSUME AdmissionTypes, CopiesAreCurrent, stage = "refused", cached = caps, ~dirty, Admissible,
         Len(reads) = Len(Attachments)
  PROVE  DetectConflicts(Deps, Runners[agent.runner].baseline) = {}
<1>1. \A i \in 1..Len(Attachments) : Judged(i) /\ Now(i).there
  BY DEF Admissible
<1>2. \A i \in 1..Len(Attachments) : Found(i) /\ Cap(i) = Now(i).spec
  BY <1>1, UpToDate DEF Found, Cap
<1>3. Deps = [i \in 1..Len(Attachments) |-> Now(i).spec.pins]
  BY <1>2 DEF Deps
<1> QED BY <1>3 DEF Admissible

\* What was admitted, and stands still, is refused only for what was left to the
\* compiler or for a name.
LEMMA SoundlyRefused ==
  ASSUME AdmissionTypes, CopiesAreCurrent, AdmissionHolds, RefusedForCause
  PROVE  AdmittedIsNotRefused
<1> SUFFICES ASSUME policy.webhooks, stage = "refused", cached = caps, ~dirty,
                    ~ LeftToTheCompiler, ~ warned, ~ changed
             PROVE  \E i \in 1..Len(reads) :
                       reads[i].there /\ ~EntryNameValid(EntryName(reads[i].spec))
  BY DEF AdmittedIsNotRefused
<1>1. Refusal /\ Len(reads) \in Nat /\ Len(Attachments) \in Nat /\ Len(reads) <= Len(Attachments)
  BY HandTypes DEF RefusedForCause, AdmissionTypes
<1>2. CASE Attachments = <<>>
  <2>1. Len(reads) = 0 /\ Len(Deps) = 0
    BY <1>1, <1>2, DepsFacts
  <2>2. PinsAt(Deps) = {}
    BY <2>1 DEF PinsAt
  <2>3. DetectConflicts(Deps, Runners[agent.runner].baseline) = {}
    BY <2>2 DEF DetectConflicts
  <2> QED BY <1>1, <1>2, <2>1, <2>3 DEF Refusal, LeftToTheCompiler
<1>3. CASE Attachments # <<>>
  <2>1. Admissible
    BY <1>3 DEF AdmissionHolds, Undisturbed, Settled
  <2>2. RunnerKnown
    BY <2>1 DEF Admissible
  <2>3. \E i \in 1..Len(reads) : AttachmentVerdict(i, reads[i]) = "refused"
    BY <1>1, <2>1, <2>2, NoConflictOverCurrent DEF Refusal, LeftToTheCompiler
  <2> QED BY <2>1, <2>3, VerdictOverCurrent
<1> QED BY <1>2, <1>3

\* The inductive invariant implies the property of the runs.
LEMMA AdmissionIsSound == AdmissionIndInv => AdmissionInv
BY SoundlyCompiled, SoundlyDenied, SoundlyRefused, PlaceholdersFit DEF AdmissionIndInv, AdmissionInv

-----------------------------------------------------------------------------
(* The steps. *)

\* The inductive invariant holds when the agent is about to be submitted.
LEMMA AdmissionBegins == AdmissionInit => AdmissionIndInv
<1> SUFFICES ASSUME AdmissionInit PROVE AdmissionIndInv
  OBVIOUS
<1>1. PICK w \in Worlds : AdmissionStart(w)
  BY DEF AdmissionInit
<1>2. /\ policy \in [webhooks : BOOLEAN, requireVerified : BOOLEAN]
      /\ caps \in [Caps -> Capabilities] /\ cached \in [Caps -> Capabilities]
      /\ agent \in AgentSpecs
  BY <1>1, WorldsAssumption DEF AdmissionStart
<1>3. stage = "idle" /\ reads = <<>> /\ warned = FALSE /\ changed = FALSE /\ dirty = FALSE
  BY <1>1 DEF AdmissionStart
<1>4. Attachments \in Seq([ref : Caps, ns : {"own", "other"},
                config : {"nil", "empty", "nonobject", "number", "text", "placeholder"}])
  BY <1>2 DEF AgentSpecs, Attachments
<1>5. reads \in Seq(Capabilities) /\ Len(reads) = 0 /\ Len(Attachments) \in Nat
  BY <1>3, <1>4
<1>6. AdmissionTypes
  <2>1. warned \in BOOLEAN /\ changed \in BOOLEAN /\ dirty \in BOOLEAN
    BY <1>3
  <2>2. Len(reads) <= Len(Attachments)
    BY <1>5
  <2>3. stage \in {"idle", "admitting", "stored", "denied", "compiling"} \cup Settled
    BY <1>3
  <2> QED BY <1>2, <1>5, <2>1, <2>2, <2>3 DEF AdmissionTypes
<1> QED BY <1>3, <1>6 DEF AdmissionIndInv, AllPass, Complete, DeniedForCause, ReadsAreCurrent,
                          CopiesAreCurrent, AdmissionHolds, RefusedForCause, Settled

\* A Capability changes: nothing is undisturbed any more, and nothing else moves.
LEMMA EditInv ==
  ASSUME AdmissionIndInv, NEW n \in Caps,
         (\E c \in Edits : EditCapability(n, c)) \/ (\E v \in {"true", "false"} : VerifyCapability(n, v))
  PROVE  AdmissionIndInv'
<1>1. UNCHANGED <<policy, cached, agent, stage, reads, warned, dirty, out>> /\ changed' = TRUE
  BY DEF EditCapability, VerifyCapability
<1>2. caps' \in [Caps -> Capabilities]
  <2>1. caps \in [Caps -> Capabilities]
    BY DEF AdmissionIndInv, AdmissionTypes
  <2>2. CASE \E c \in Edits : EditCapability(n, c)
    <3>1. PICK c \in Edits : EditCapability(n, c)
      BY <2>2
    <3>2. Stored(c, "none") \in Capabilities
      BY EditsAssumption DEF Stored, Capabilities
    <3>3. caps' = [caps EXCEPT ![n] = Stored(c, "none")]
      BY <3>1 DEF EditCapability
    <3> QED BY <2>1, <3>2, <3>3
  <2>3. CASE \E v \in {"true", "false"} : VerifyCapability(n, v)
    <3>1. PICK v \in {"true", "false"} : VerifyCapability(n, v)
      BY <2>3
    <3>2. caps' = [caps EXCEPT ![n] = [caps[n] EXCEPT !.verified = v]] /\ caps[n].there
      BY <2>1, <3>1 DEF VerifyCapability
    <3>3. caps[n] \in [there : {TRUE}, spec : CapabilitySpecs,
                       verified : {"none", "unknown", "true", "false"}]
      <4>1. caps[n] \in Capabilities
        BY <2>1
      <4>2. caps[n] # NoCapability
        BY <3>2, <4>1, CapabilityFacts
      <4> QED BY <4>1, <4>2 DEF Capabilities
    <3>4. [caps[n] EXCEPT !.verified = v] \in Capabilities
      BY <3>3 DEF Capabilities
    <3> QED BY <2>1, <3>2, <3>4
  <2> QED BY <2>2, <2>3
<1>3. AdmissionTypes'
  BY <1>1, <1>2, AgentStays DEF AdmissionIndInv, AdmissionTypes
<1>4. AllPass'
  <2> SUFFICES ASSUME stage \in {"compiling", "compiled"}, NEW i \in 1..Len(reads)
               PROVE  Passes(i)'
    BY <1>1 DEF AllPass
  <2>1. Passes(i)
    BY DEF AdmissionIndInv, AllPass
  <2>2. i \in Nat /\ i >= 1
    OBVIOUS
  <2> QED BY <1>1, <2>1, <2>2, PassStays
<1>5. Complete' /\ DeniedForCause'
  BY <1>1, AgentStays, ReadsStay DEF AdmissionIndInv, Complete, DeniedForCause
<1>6. ReadsAreCurrent' /\ AdmissionHolds'
  BY <1>1 DEF ReadsAreCurrent, AdmissionHolds, Undisturbed
<1>7. stage' = "idle" => reads' = <<>>
  BY <1>1 DEF AdmissionIndInv
<1>8. CopiesAreCurrent'
  BY <1>1, AgentStays DEF AdmissionIndInv, CopiesAreCurrent, Copy
<1>9. RefusedForCause'
  BY <1>1, ReadsStay DEF AdmissionIndInv, RefusedForCause
<1> QED BY <1>3, <1>4, <1>5, <1>6, <1>7, <1>8, <1>9 DEF AdmissionIndInv

\* A copy catches up: the compile over the old one is no longer the last word.
LEMMA ObserveInv ==
  ASSUME AdmissionIndInv, NEW n \in Caps, ObserveCapability(n)
  PROVE  AdmissionIndInv'
<1>1. UNCHANGED <<policy, caps, agent, stage, reads, warned, changed, out>> /\ dirty' = TRUE
  BY DEF ObserveCapability
<1>2. cached' \in [Caps -> Capabilities]
  BY DEF AdmissionIndInv, AdmissionTypes, ObserveCapability
<1>3. AdmissionTypes'
  BY <1>1, <1>2, AgentStays DEF AdmissionIndInv, AdmissionTypes
<1>4. AllPass'
  <2> SUFFICES ASSUME stage \in {"compiling", "compiled"}, NEW i \in 1..Len(reads)
               PROVE  Passes(i)'
    BY <1>1 DEF AllPass
  <2>1. Passes(i)
    BY DEF AdmissionIndInv, AllPass
  <2>2. i \in Nat /\ i >= 1
    OBVIOUS
  <2> QED BY <1>1, <2>1, <2>2, PassStays
<1>5. Complete' /\ DeniedForCause' /\ RefusedForCause'
  BY <1>1, AgentStays, ReadsStay
     DEF AdmissionIndInv, Complete, DeniedForCause, RefusedForCause
<1>6. ReadsAreCurrent' /\ AdmissionHolds'
  BY <1>1, AgentStays, NowStays
     DEF AdmissionIndInv, ReadsAreCurrent, AdmissionHolds, Undisturbed
<1>7. CopiesAreCurrent'
  BY <1>1 DEF CopiesAreCurrent
<1>8. stage' = "idle" => reads' = <<>>
  BY <1>1 DEF AdmissionIndInv
<1> QED BY <1>3, <1>4, <1>5, <1>6, <1>7, <1>8 DEF AdmissionIndInv

\* Submitting the agent keeps the invariant.
LEMMA SubmitInv == AdmissionIndInv /\ SubmitAgent => AdmissionIndInv'
<1> SUFFICES ASSUME AdmissionIndInv, SubmitAgent PROVE AdmissionIndInv'
  OBVIOUS
<1>1. /\ stage = "idle" /\ reads = <<>>
      /\ policy' = policy /\ caps' = caps /\ agent' = agent /\ reads' = reads /\ warned' = warned
      /\ changed' = changed /\ cached' = cached /\ dirty' = dirty
      /\ stage' \in {"admitting", "stored"} /\ (policy.webhooks => stage' = "admitting")
  BY DEF AdmissionIndInv, SubmitAgent
<1>2. AdmissionTypes'
  BY <1>1, AgentStays DEF AdmissionIndInv, AdmissionTypes
<1>3. Len(reads') = 0
  BY <1>1
<1>4. ReadsAreCurrent'
  BY <1>3 DEF ReadsAreCurrent
<1>5. AdmissionHolds'
  BY <1>1 DEF AdmissionHolds, Undisturbed, Settled
<1>6. AllPass' /\ Complete' /\ DeniedForCause' /\ RefusedForCause' /\ CopiesAreCurrent'
  BY <1>1 DEF AllPass, Complete, DeniedForCause, RefusedForCause, CopiesAreCurrent, Settled
<1> QED BY <1>1, <1>2, <1>4, <1>5, <1>6 DEF AdmissionIndInv

\* One read by the webhook keeps the invariant.
LEMMA GetInv ==
  ASSUME AdmissionIndInv, NEW fails \in BOOLEAN, AdmitGet(fails)
  PROVE  AdmissionIndInv'
<1> DEFINE i == Len(reads) + 1
<1>1. PICK got : /\ got = IF Judged(i) /\ ~fails THEN caps[Attachments[i].ref] ELSE NoCapability
                 /\ fails => Judged(i)
                 /\ reads' = Append(reads, got)
                 /\ warned' = (warned \/ (Judged(i) /\ ~got.there))
  BY DEF AdmitGet
<1>2. /\ stage = "admitting" /\ Len(reads) < Len(Attachments)
      /\ policy' = policy /\ caps' = caps /\ agent' = agent /\ stage' = stage /\ changed' = changed
      /\ cached' = cached /\ dirty' = dirty
  BY DEF AdmitGet
<1>3. AdmissionTypes /\ Len(reads) \in Nat /\ Len(Attachments) \in Nat
  BY HandTypes DEF AdmissionIndInv
<1>4. i \in 1..Len(Attachments)
  BY <1>2, <1>3
<1>5. got \in Capabilities
  <2>1. Now(i) \in Capabilities /\ Now(i) = caps[Attachments[i].ref]
    BY <1>3, <1>4, HandTypes DEF Now
  <2>2. NoCapability \in Capabilities
    BY DEF Capabilities
  <2> QED BY <1>1, <2>1, <2>2
<1>6. /\ reads' \in Seq(Capabilities) /\ Len(reads') = i /\ Len(reads') <= Len(Attachments)
      /\ reads'[i] = got /\ \A j \in 1..Len(reads) : reads'[j] = reads[j]
  BY <1>1, <1>2, <1>3, <1>5, AppendFacts
<1>7. AdmissionTypes'
  <2>1. warned' \in BOOLEAN
    BY <1>1
  <2>2. Attachments' = Attachments
    BY <1>2, AgentStays
  <2> QED BY <1>2, <1>3, <1>6, <2>1, <2>2 DEF AdmissionTypes
<1>8. ReadsAreCurrent'
  <2> SUFFICES ASSUME policy.webhooks, ~changed, ~warned', NEW j \in 1..i
               PROVE  IF Judged(j) THEN reads'[j] = Now(j) /\ reads'[j].there
                                   ELSE reads'[j] = NoCapability
    BY <1>2, <1>6, AgentStays, NowStays DEF ReadsAreCurrent, Undisturbed
  <2>1. ~ warned /\ ~ (Judged(i) /\ ~ got.there)
    BY <1>1, <1>3 DEF AdmissionTypes
  <2>2. CASE j = i
    <3>1. Judged(i) => ~ fails
      <4>1. ~ NoCapability.there
        BY DEF NoCapability
      <4> QED BY <1>1, <2>1, <4>1
    <3> QED BY <1>1, <1>6, <2>1, <2>2, <3>1 DEF Now
  <2>3. CASE j # i
    <3>1. j \in 1..Len(reads)
      BY <1>3, <2>3
    <3>2. reads'[j] = reads[j]
      BY <1>6, <3>1
    <3>3. IF Judged(j) THEN reads[j] = Now(j) /\ reads[j].there ELSE reads[j] = NoCapability
      BY <1>2, <2>1, <3>1 DEF AdmissionIndInv, ReadsAreCurrent, Undisturbed
    <3> QED BY <3>2, <3>3
  <2> QED BY <2>2, <2>3
<1>9. /\ AllPass' /\ Complete' /\ DeniedForCause' /\ AdmissionHolds' /\ RefusedForCause'
      /\ CopiesAreCurrent'
  BY <1>2 DEF AllPass, Complete, DeniedForCause, AdmissionHolds, RefusedForCause,
              CopiesAreCurrent, Settled
<1> QED BY <1>2, <1>7, <1>8, <1>9 DEF AdmissionIndInv

\* An Agent that is let through, over reads that are current, is admissible.
LEMMA AdmittedOverCurrent ==
  ASSUME AdmissionIndInv, Undisturbed, stage = "admitting", Len(reads) = Len(Attachments),
         Attachments # <<>>, ~ CapabilitiesRefused
  PROVE  Admissible
<1>0. AdmissionTypes /\ Len(reads) \in Nat
  BY HandTypes DEF AdmissionIndInv
<1>1. RunnerKnown /\ DetectConflicts(Deps, Runners[agent.runner].baseline) = {}
  BY DEF CapabilitiesRefused
<1>2. ASSUME NEW i \in 1..Len(Attachments)
      PROVE  Judged(i) /\ reads[i] = Now(i) /\ Now(i).there /\ Found(i) /\ Cap(i) = Now(i).spec
  <2>1. Judged(i)
    BY DEF CapabilitiesRefused
  <2>2. reads[i] = Now(i) /\ reads[i].there
    BY <2>1 DEF AdmissionIndInv, ReadsAreCurrent
  <2> QED BY <2>1, <2>2 DEF Found, Cap
<1>3. ASSUME NEW i \in 1..Len(Attachments)
      PROVE  ~ NameTaken(i) /\ CheckRequires(Cap(i), agent.runner) /\ ~ ConfigRefused(i)
  BY <1>2 DEF CapabilitiesRefused
<1>4. ASSUME NEW i \in 1..Len(Attachments)
      PROVE  /\ EntryName(Now(i).spec) \notin FragmentNames
             /\ \A j \in 1..(i - 1) : EntryName(Now(j).spec) # EntryName(Now(i).spec)
  <2>1. \A j \in 1..(i - 1) : j \in 1..Len(Attachments)
    BY <1>0
  <2> QED BY <1>2, <1>3, <2>1 DEF NameTaken
<1>5. ASSUME NEW i \in 1..Len(Attachments)
      PROVE  /\ CheckRequires(Now(i).spec, agent.runner)
             /\ Attachments[i].config # "nonobject"
             /\ Now(i).spec.strict => ConfigValid(Now(i).spec.schema, Attachments[i].config)
  BY <1>2, <1>3 DEF ConfigRefused
<1>6. Deps = [i \in 1..Len(Attachments) |-> Now(i).spec.pins]
  BY <1>2 DEF Deps
<1> QED BY <1>1, <1>2, <1>4, <1>5, <1>6 DEF Admissible

\* The webhook's verdict keeps the invariant.
LEMMA DecideInv == AdmissionIndInv /\ AdmitDecide => AdmissionIndInv'
<1> SUFFICES ASSUME AdmissionIndInv, AdmitDecide PROVE AdmissionIndInv'
  OBVIOUS
<1>1. /\ stage = "admitting" /\ Len(reads) = Len(Attachments)
      /\ policy' = policy /\ caps' = caps /\ agent' = agent /\ reads' = reads /\ warned' = warned
      /\ changed' = changed /\ cached' = cached /\ dirty' = dirty
      /\ InlineRefused \/ CapabilitiesRefused => stage' = "denied"
      /\ ~ (InlineRefused \/ CapabilitiesRefused) => stage' = "stored"
  BY DEF AdmitDecide
<1>2. stage' \in {"denied", "stored"}
  BY <1>1
<1>3. AdmissionTypes'
  BY <1>1, <1>2, AgentStays DEF AdmissionIndInv, AdmissionTypes
<1>4. DeniedForCause'
  <2>1. /\ Attachments' = Attachments /\ (InlineRefused' <=> InlineRefused)
        /\ CapabilitiesRefused' <=> CapabilitiesRefused
    BY <1>1, AgentStays, ReadsStay
  <2> QED BY <1>1, <2>1 DEF DeniedForCause
<1>5. AdmissionHolds'
  <2> SUFFICES ASSUME Undisturbed', Attachments' # <<>>, stage' = "stored"
               PROVE  Admissible'
    BY <1>2 DEF AdmissionHolds, Settled
  <2>1. Undisturbed /\ Attachments # <<>> /\ ~ CapabilitiesRefused
    BY <1>1, AgentStays DEF Undisturbed
  <2>2. Admissible
    BY <1>1, <2>1, AdmittedOverCurrent
  <2> QED BY <1>1, <2>2, NowStays
<1>6. AllPass' /\ Complete' /\ ReadsAreCurrent' /\ CopiesAreCurrent' /\ RefusedForCause'
  BY <1>2 DEF AllPass, Complete, ReadsAreCurrent, CopiesAreCurrent, RefusedForCause, Settled
<1> QED BY <1>2, <1>3, <1>4, <1>5, <1>6 DEF AdmissionIndInv

\* The begin of a compilation keeps the invariant.
LEMMA StartInv == AdmissionIndInv /\ CompileStart => AdmissionIndInv'
<1> SUFFICES ASSUME AdmissionIndInv, CompileStart PROVE AdmissionIndInv'
  OBVIOUS
<1>1. /\ stage = "stored" \/ stage \in Settled
      /\ stage' \in {"compiling", "refused"} /\ reads' = <<>>
      /\ stage' = "refused" => agent.extra = "nonobject"
      /\ policy' = policy /\ caps' = caps /\ agent' = agent /\ warned' = warned
      /\ changed' = changed /\ cached' = cached /\ dirty' = FALSE
  BY DEF CompileStart
<1>2. Len(reads') = 0 /\ reads' \in Seq(Capabilities)
  BY <1>1
<1>3. AdmissionTypes'
  <2>1. Attachments' = Attachments /\ Len(Attachments) \in Nat
    BY <1>1, AgentStays, HandTypes DEF AdmissionIndInv
  <2>2. Len(reads') <= Len(Attachments')
    BY <1>2, <2>1
  <2> QED BY <1>1, <1>2, <2>2 DEF AdmissionIndInv, AdmissionTypes, Settled
<1>4. AdmissionHolds'
  <2> SUFFICES ASSUME Undisturbed', Attachments' # <<>> PROVE Admissible'
    BY DEF AdmissionHolds
  <2>1. Undisturbed /\ Attachments # <<>>
    BY <1>1, AgentStays DEF Undisturbed
  <2>2. Admissible
    BY <1>1, <2>1 DEF AdmissionIndInv, AdmissionHolds
  <2> QED BY <1>1, <2>2, NowStays
<1>5. AllPass' /\ ReadsAreCurrent' /\ CopiesAreCurrent'
  BY <1>2 DEF AllPass, ReadsAreCurrent, CopiesAreCurrent
<1>6. Complete' /\ DeniedForCause' /\ RefusedForCause'
  BY <1>1 DEF Complete, DeniedForCause, RefusedForCause, Refusal
<1> QED BY <1>1, <1>3, <1>4, <1>5, <1>6 DEF AdmissionIndInv

\* The compilation of one attachment keeps the invariant.
LEMMA AttachmentInv == AdmissionIndInv /\ CompileAttachment => AdmissionIndInv'
<1> SUFFICES ASSUME AdmissionIndInv, CompileAttachment PROVE AdmissionIndInv'
  OBVIOUS
<1> DEFINE i == Len(reads) + 1
<1>1. PICK got : /\ got = IF Judged(i) THEN cached[Attachments[i].ref] ELSE NoCapability
                 /\ stage' = AttachmentVerdict(i, got)
                 /\ reads' = Append(reads, got)
  BY DEF CompileAttachment
<1>2. /\ stage = "compiling" /\ Len(reads) < Len(Attachments)
      /\ policy' = policy /\ caps' = caps /\ agent' = agent /\ changed' = changed /\ warned' = warned
      /\ cached' = cached /\ dirty' = dirty
  BY DEF CompileAttachment
<1>3. AdmissionTypes /\ Len(reads) \in Nat /\ Len(Attachments) \in Nat
  BY HandTypes DEF AdmissionIndInv
<1>4. i \in 1..Len(Attachments)
  BY <1>2, <1>3
<1>5. got \in Capabilities /\ got = IF Judged(i) THEN Copy(i) ELSE NoCapability
  <2>1. Copy(i) \in Capabilities /\ Copy(i) = cached[Attachments[i].ref]
    BY <1>3, <1>4, HandTypes DEF Copy
  <2>2. NoCapability \in Capabilities
    BY DEF Capabilities
  <2> QED BY <1>1, <2>1, <2>2
<1>6. /\ reads' \in Seq(Capabilities) /\ Len(reads') = i /\ Len(reads') <= Len(Attachments)
      /\ reads'[i] = got /\ \A j \in 1..Len(reads) : reads'[j] = reads[j]
  BY <1>1, <1>2, <1>3, <1>5, AppendFacts
<1>7. stage' \in {"refused", "retrying", "compiling"}
  BY <1>1, VerdictFacts
<1>8. AdmissionTypes'
  <2>1. Attachments' = Attachments
    BY <1>2, AgentStays
  <2> QED BY <1>2, <1>3, <1>6, <1>7, <2>1 DEF AdmissionTypes, Settled
<1>9. \A j \in 1..Len(reads) : Passes(j)
  BY <1>2 DEF AdmissionIndInv, AllPass
<1>10. AllPass'
  <2> SUFFICES ASSUME stage' = "compiling", NEW j \in 1..i
               PROVE  Passes(j)'
    BY <1>6, <1>7 DEF AllPass
  <2>1. CASE j = i
    <3>1. /\ RunnerKnown /\ Judged(j) /\ got.there
          /\ policy.requireVerified => got.verified = "true"
          /\ CheckRequires(got.spec, agent.runner)
          /\ EntryName(got.spec) \notin FragmentNames
          /\ \A k \in 1..Len(Injected) : Injected[k] # EntryName(got.spec)
          /\ \A k \in 1..(j - 1) : ~ (Found(k) /\ EntryName(Cap(k)) = EntryName(got.spec))
      BY <1>1, <2>1, VerdictFacts
    <3>2. \A k \in 1..(j - 1) : k \in 1..Len(reads)
      BY <1>3, <2>1
    <3>3. \A k \in 1..(j - 1) : Found(k) /\ Cap(k)' = Cap(k)
      BY <1>6, <1>9, <3>2 DEF Passes, Found, Cap
    <3>4. Cap(j)' = got.spec /\ reads'[j] = got
      BY <1>6, <2>1 DEF Cap
    <3> QED BY <1>2, <3>1, <3>3, <3>4, AgentStays DEF Passes
  <2>2. CASE j # i
    <3>1. j \in 1..Len(reads) /\ j \in Nat /\ j >= 1
      BY <1>3, <2>2
    <3>2. \A k \in 1..j : reads'[k] = reads[k]
      BY <1>3, <1>6, <3>1
    <3> QED BY <1>2, <1>9, <3>1, <3>2, PassStays
  <2> QED BY <2>1, <2>2
<1>11. CopiesAreCurrent'
  <2> SUFFICES ASSUME ~dirty, NEW j \in 1..i
               PROVE  reads'[j] = IF Judged(j) THEN Copy(j) ELSE NoCapability
    BY <1>2, <1>6, AgentStays DEF CopiesAreCurrent, Copy
  <2>1. CASE j = i
    BY <1>5, <1>6, <2>1
  <2>2. CASE j # i
    <3>1. j \in 1..Len(reads)
      BY <1>3, <2>2
    <3>2. reads[j] = IF Judged(j) THEN Copy(j) ELSE NoCapability
      BY <1>2, <3>1 DEF AdmissionIndInv, CopiesAreCurrent
    <3> QED BY <1>6, <3>1, <3>2
  <2> QED BY <2>1, <2>2
<1>12. Undisturbed => Admissible
  <2>1. Attachments # <<>>
    BY <1>4
  <2> QED BY <1>2, <2>1 DEF AdmissionIndInv, AdmissionHolds
<1>13. AdmissionHolds'
  <2>1. Undisturbed' => Undisturbed
    BY <1>2 DEF Undisturbed
  <2> QED BY <1>2, <1>12, <2>1, NowStays DEF AdmissionHolds
<1>14. RefusedForCause'
  <2> SUFFICES ASSUME stage' = "refused" PROVE Refusal'
    BY DEF RefusedForCause
  <2>0. PICK k : k = i
    OBVIOUS
  <2>1. (\A j \in 1..(k - 1) : reads'[j] = reads[j]) /\ reads'[k] = got
    <3>1. \A j \in 1..(k - 1) : j \in 1..Len(reads)
      BY <1>3, <2>0
    <3> QED BY <1>6, <2>0, <3>1
  <2>2. AttachmentVerdict(k, reads[k])' = AttachmentVerdict(k, got)
    BY <1>2, <2>1, VerdictStays
  <2>3. k \in 1..Len(reads')
    BY <1>3, <1>6, <2>0
  <2>4. AttachmentVerdict(k, got) = "refused"
    BY <1>1, <2>0
  <2> QED BY <2>2, <2>3, <2>4 DEF Refusal
<1>15. Complete' /\ DeniedForCause' /\ ReadsAreCurrent' /\ (stage' = "idle" => reads' = <<>>)
  BY <1>7 DEF Complete, DeniedForCause, ReadsAreCurrent
<1> QED BY <1>8, <1>10, <1>11, <1>13, <1>14, <1>15 DEF AdmissionIndInv

\* The end of a compilation keeps the invariant.
LEMMA FinishInv == AdmissionIndInv /\ CompileFinish => AdmissionIndInv'
<1> SUFFICES ASSUME AdmissionIndInv, CompileFinish PROVE AdmissionIndInv'
  OBVIOUS
<1> DEFINE conflicts == DetectConflicts(Deps, Runners[agent.runner].baseline)
<1>1. /\ stage = "compiling" /\ Len(reads) = Len(Attachments)
      /\ policy' = policy /\ caps' = caps /\ agent' = agent /\ reads' = reads /\ warned' = warned
      /\ changed' = changed /\ cached' = cached /\ dirty' = dirty
  BY DEF CompileFinish
<1>2. \/ (~ RunnerKnown \/ ~ agent.conforms \/ conflicts # {}) /\ stage' = "refused"
      \/ RunnerKnown /\ conflicts = {} /\ stage' = "compiled" /\ out' = Document
  BY DEF CompileFinish
<1>3. AdmissionTypes /\ Len(reads) \in Nat
  BY HandTypes DEF AdmissionIndInv
<1>4. AdmissionTypes'
  BY <1>1, <1>2, AgentStays DEF AdmissionIndInv, AdmissionTypes, Settled
<1>5. AllPass'
  <2> SUFFICES ASSUME NEW i \in 1..Len(reads)
               PROVE  Passes(i)'
    BY <1>1 DEF AllPass
  <2>1. Passes(i)
    BY <1>1 DEF AdmissionIndInv, AllPass
  <2>2. i \in Nat /\ i >= 1
    OBVIOUS
  <2> QED BY <1>1, <2>1, <2>2, PassStays
<1>6. Complete'
  <2> SUFFICES ASSUME stage' = "compiled" PROVE Complete'
    BY DEF Complete
  <2>1. RunnerKnown /\ conflicts = {} /\ out' = Document
    BY <1>2
  <2>2. /\ Attachments' = Attachments /\ (RunnerKnown' <=> RunnerKnown) /\ Deps' = Deps
        /\ Document' = Document
    BY <1>1, AgentStays, ReadsStay
  <2> QED BY <1>1, <2>1, <2>2 DEF Complete
<1>7. AdmissionHolds'
  <2>1. Undisturbed' => Undisturbed
    BY <1>1 DEF Undisturbed
  <2>2. Attachments' = Attachments
    BY <1>1, AgentStays
  <2>3. Undisturbed /\ Attachments # <<>> => Admissible
    BY <1>1 DEF AdmissionIndInv, AdmissionHolds
  <2> QED BY <1>1, <2>1, <2>2, <2>3, NowStays DEF AdmissionHolds
<1>8. RefusedForCause'
  <2> SUFFICES ASSUME stage' = "refused" PROVE Refusal
    BY <1>1, ReadsStay DEF RefusedForCause
  <2> QED BY <1>1, <1>2 DEF Refusal
<1>9. CopiesAreCurrent'
  BY <1>1, AgentStays DEF AdmissionIndInv, CopiesAreCurrent, Copy
<1>10. DeniedForCause' /\ ReadsAreCurrent' /\ (stage' = "idle" => reads' = <<>>)
  BY <1>2 DEF DeniedForCause, ReadsAreCurrent
<1> QED BY <1>4, <1>5, <1>6, <1>7, <1>8, <1>9, <1>10 DEF AdmissionIndInv

\* A step of another part keeps the invariant.
LEMMA StutterInv == AdmissionIndInv /\ UNCHANGED admissionVars => AdmissionIndInv'
<1> SUFFICES ASSUME AdmissionIndInv, UNCHANGED admissionVars PROVE AdmissionIndInv'
  OBVIOUS
<1>1. UNCHANGED <<policy, caps, cached, agent, stage, reads, warned, changed, dirty, out>>
  BY DEF admissionVars
<1>2. AdmissionTypes'
  BY <1>1, AgentStays DEF AdmissionIndInv, AdmissionTypes
<1>3. AllPass'
  <2> SUFFICES ASSUME stage \in {"compiling", "compiled"}, NEW i \in 1..Len(reads)
               PROVE  Passes(i)'
    BY <1>1 DEF AllPass
  <2>1. Passes(i)
    BY DEF AdmissionIndInv, AllPass
  <2>2. i \in Nat /\ i >= 1
    OBVIOUS
  <2> QED BY <1>1, <2>1, <2>2, PassStays
<1>4. Complete' /\ DeniedForCause'
  BY <1>1, AgentStays, ReadsStay DEF AdmissionIndInv, Complete, DeniedForCause
<1>5. ReadsAreCurrent' /\ AdmissionHolds'
  BY <1>1, AgentStays, NowStays
     DEF AdmissionIndInv, ReadsAreCurrent, AdmissionHolds, Undisturbed
<1>6. CopiesAreCurrent' /\ RefusedForCause'
  BY <1>1, AgentStays, ReadsStay DEF AdmissionIndInv, CopiesAreCurrent, Copy, RefusedForCause
<1> QED BY <1>1, <1>2, <1>3, <1>4, <1>5, <1>6 DEF AdmissionIndInv

\* For any Agents, Capabilities, schemas, pins and edits, and copies that lag as
\* they like: what compiles is sound whatever admission saw, but for capability
\* entries hidden in the fragment's extra; the webhook denies nothing the compiler
\* would take from the same reads; what it admitted with every Capability read is,
\* once the compiler's copies are up to date and no compile is due, refused only for
\* what the webhook leaves to the compiler (extra, the AgentSpec schema, a runner
\* version without attachments), after a Capability changed, or for an entry name
\* older than the rule; and a placeholder passes only where a string could, and
\* wherever one could but for a oneOf in a oneOf.
THEOREM JudgesAgree == AdmissionSpec => []AdmissionInv
<1>1. AdmissionIndInv /\ [AdmissionNext]_admissionVars => AdmissionIndInv'
  BY SubmitInv, GetInv, DecideInv, StartInv, AttachmentInv, FinishInv, ObserveInv, EditInv,
     StutterInv
     DEF AdmissionNext
<1> QED BY <1>1, AdmissionBegins, AdmissionIsSound, PTL DEF AdmissionSpec
=============================================================================
