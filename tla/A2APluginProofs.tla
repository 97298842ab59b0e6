--------------------------- MODULE A2APluginProofs ---------------------------
(* TLAPS proofs about the A2A executor plugin, for every value of its         *)
(* constants: any nodes, plugin processes, scenes of failures and bounds.     *)
EXTENDS A2APlugin, FiniteSetTheorems, TLAPS

\* What taskKey promises: "a unique key" per node, and one that survives the way
\* through the ConfigMap.
KeysApart ==
  /\ \A n, m \in Nodes : KeyOf[n] = KeyOf[m] => n = m
  /\ \A k \in Keys : CmKeyToTaskKey(CmKey(k)) = k

-----------------------------------------------------------------------------
(* The inductive invariant. *)

Entry == Progress \cup {NULL}
States == {"working"} \cup Terminal
TaskRecs == [node : Nodes, state : States]
Pcs == {"idle", "send", "store", "sync", "write", "poll", "reply"}
CallRecs == [pc : Pcs, cand : 1..Candidates, progress : Entry, reply : Replies,
             fresh : BOOLEAN, snap : [Keys -> Entry] \cup {NULL}]
NodeRecs == [reply : Replies, retries : Nat]

\* Task t was sent for node n.
Sent(n, t) == task[t] # NULL /\ task[t].node = n

\* Entry x, if there is one, is about a task that was sent for key k.
For(k, x) == x # NULL => task[x.task] # NULL /\ KeyOf[task[x.task].node] = k

\* Every entry of the stores is about a task of its own key.
StoreIsOwn == /\ \A p \in Plugins, k \in Keys : For(k, cache[p][k])
              /\ \A k \in Keys : For(k, cm[CmKey(k)])

\* A reply to node n is about a task of n, and about a completed one if it says so.
Honest(n, r) ==
  /\ r.task # NULL => Sent(n, r.task)
  /\ r.phase = "Running" => r.task # NULL
  /\ r.phase = "Succeeded" => r.task # NULL /\ task[r.task].state = "completed"

\* All that the call of node n holds is about tasks of n, or of their keys.
CallIsOwn(n) ==
  /\ call[n].progress # NULL => Sent(n, call[n].progress.task)
  /\ call[n].pc = "write" => \A k \in Keys : For(k, call[n].snap[k])
  /\ Honest(n, call[n].reply) /\ Honest(n, node[n].reply)

Tracks(n, t) == Cached(n) # NULL /\ Cached(n).task = t

\* The call and the cache of its plugin agree on the task, until it is known to be
\* over: nothing is sent while the cache has a task.
CallIsTracked(n) ==
  LET c == call[n] IN
  /\ c.pc \in {"idle", "send", "reply"} => c.progress = NULL
  /\ c.pc \in {"send", "store"} => Cached(n) = NULL
  /\ c.pc \in {"store", "poll", "sync", "write"} => c.progress # NULL
  /\ c.pc = "poll" => Tracks(n, c.progress.task)
  /\ c.pc \in {"sync", "write"} =>
       Tracks(n, c.progress.task) \/ (Cached(n) = NULL /\ ~Live(c.progress.task))
  /\ c.pc = "write" => c.snap \in [Keys -> Entry] /\ lock[Host(n)] = n
  /\ n \notin scene.nodes => c.pc = "idle" /\ node[n].reply.phase = "Pending"

\* One process serves the namespace, and nothing fails but the process itself.
Alone == /\ scene.kinds \subseteq {"crash", "timeout"}
         /\ \A n, m \in scene.nodes : Host(n) = Host(m)

\* Two entries name the same task, if any.
Agree(x, y) == (x = NULL <=> y = NULL) /\ (x # NULL => x.task = y.task)

\* Where a process is alone, the ConfigMap and the copy that is about to replace it
\* agree with the cache on every node that is not waiting to be written, and a live
\* task that Argo was told of, or is about to be, is in the cache.
Persisted(n) ==
  /\ call[n].pc \notin {"sync", "write"} => Agree(cm[CmKey(KeyOf[n])], Cached(n))
  /\ \A m \in Nodes : call[m].pc = "write" =>
       /\ call[m].fresh
       /\ call[n].pc # "sync" => Agree(call[m].snap[KeyOf[n]], Cached(n))
  /\ node[n].reply.phase = "Running" /\ Live(node[n].reply.task) =>
       /\ Tracks(n, node[n].reply.task)
       /\ call[n].pc \notin {"send", "store", "sync", "write"}
  /\ /\ call[n].pc \in {"sync", "write", "reply"}
     /\ call[n].reply.phase = "Running" /\ Live(call[n].reply.task)
     => Tracks(n, call[n].reply.task)

PluginIndInv ==
  /\ TypeOK /\ StoreIsOwn
  /\ \A n \in Nodes : CallIsOwn(n) /\ CallIsTracked(n)
  /\ Alone => \A n \in scene.nodes : Persisted(n)

-----------------------------------------------------------------------------
(* Types, and what never changes. *)

\* The state's parts, one by one.
Shape ==
  /\ scene \in Scenes /\ node \in [Nodes -> NodeRecs]
  /\ \A n \in Nodes : node[n].retries <= scene.retries
  /\ call \in [Nodes -> CallRecs]
  /\ cache \in [Plugins -> [Keys -> Entry]] /\ lock \in [Plugins -> Nodes \cup {NULL}]
  /\ cm \in [DataKeys -> Entry] /\ task \in [Tasks -> TaskRecs \cup {NULL}]
  /\ late \subseteq Tasks /\ faults \in Nat /\ faults <= scene.faults

HoldsProgress ==
  \A n \in Nodes : call[n].pc \in {"store", "poll"} => call[n].progress # NULL

\* The scene, and where a node's entry is.
LEMMA SceneFacts ==
  ASSUME scene \in Scenes
  PROVE  /\ scene.host \in [Nodes -> Plugins] /\ scene.nodes \subseteq Nodes
         /\ scene.faults \in Nat /\ scene.retries \in Nat
         /\ \A n \in Nodes : Host(n) \in Plugins /\ KeyOf[n] \in Keys
         /\ \A k \in Keys : CmKey(k) \in DataKeys
BY PluginAssumption DEF Host, Keys, DataKeys

\* TypeOK, taken apart and put together again.
LEMMA TypesAreShape == TypeOK <=> Shape /\ HoldsProgress
<1>1. ASSUME scene \in Scenes
      PROVE  /\ faults \in 0..scene.faults <=> (faults \in Nat /\ faults <= scene.faults)
             /\ node \in [Nodes -> [reply : Replies, retries : 0..scene.retries]]
                  <=> /\ node \in [Nodes -> NodeRecs]
                      /\ \A n \in Nodes : node[n].retries <= scene.retries
  <2>1. scene.faults \in Nat /\ scene.retries \in Nat
    BY <1>1, SceneFacts
  <2>2. ASSUME NEW S \in Nat, node \in [Nodes -> [reply : Replies, retries : 0..S]]
        PROVE  node \in [Nodes -> NodeRecs] /\ \A n \in Nodes : node[n].retries <= S
    <3>1. ASSUME NEW n \in Nodes PROVE node[n] \in NodeRecs /\ node[n].retries <= S
      <4>1. node[n] \in [reply : Replies, retries : 0..S]
        BY <2>2
      <4> QED BY <4>1 DEF NodeRecs
    <3> QED BY <2>2, <3>1
  <2>3. ASSUME NEW S \in Nat, node \in [Nodes -> NodeRecs], \A n \in Nodes : node[n].retries <= S
        PROVE  node \in [Nodes -> [reply : Replies, retries : 0..S]]
    <3>1. ASSUME NEW n \in Nodes PROVE node[n] \in [reply : Replies, retries : 0..S]
      <4>1. node[n] \in NodeRecs /\ node[n].retries <= S
        BY <2>3
      <4> QED BY <4>1 DEF NodeRecs
    <3> QED BY <2>3, <3>1
  <2> QED BY <2>1, <2>2, <2>3
<1>2. TypeOK => Shape
  BY <1>1 DEF TypeOK, Shape, CallRecs, Pcs, Entry, TaskRecs, States
<1>3. Shape /\ HoldsProgress => TypeOK
  BY <1>1 DEF TypeOK, HoldsProgress, Shape, CallRecs, Pcs, Entry, TaskRecs, States
<1> QED BY <1>2, <1>3 DEF TypeOK, HoldsProgress

\* A record is not NULL.
LEMMA NotNull ==
  /\ \A t \in Tasks : t # NULL
  /\ \A x \in Progress : x # NULL /\ x.task \in Tasks /\ x.errors \in Nat
  /\ \A x \in TaskRecs : x # NULL
  /\ \A x \in Nodes : x # NULL
BY NullAssumption DEF Progress, TaskRecs, States, Terminal

\* Replies and idle calls.
LEMMA IdleFacts ==
  /\ \A p \in {"Pending", "Running", "Succeeded", "Failed"},
        m \in {"none", "refused", "send", "submitted", "timeout", "poll", "task"},
        t \in Tasks \cup {NULL} : 
       Reply(p, m, t) \in Replies /\ Reply(p, m, t).phase = p /\ Reply(p, m, t).task = t
  /\ Idle \in CallRecs /\ Idle.pc = "idle" /\ Idle.progress = NULL
  /\ Idle.reply.phase = "Pending" /\ Idle.reply.task = NULL /\ Idle.reply \in Replies
<1>1. \A p \in {"Pending", "Running", "Succeeded", "Failed"},
         m \in {"none", "refused", "send", "submitted", "timeout", "poll", "task"},
         t \in Tasks \cup {NULL} :
       Reply(p, m, t) \in Replies /\ Reply(p, m, t).phase = p /\ Reply(p, m, t).task = t
  BY DEF Reply, Replies
<1> DEFINE r == Reply("Pending", "none", NULL)
<1>2. r \in Replies /\ r.phase = "Pending" /\ r.task = NULL
  BY <1>1
<1>3. Idle = [pc |-> "idle", cand |-> 1, progress |-> NULL, reply |-> r, snap |-> NULL,
              fresh |-> TRUE]
  BY DEF Idle
<1> HIDE DEF r
<1>4. 1 \in 1..Candidates
  BY PluginAssumption
<1> QED BY <1>1, <1>2, <1>3, <1>4 DEF CallRecs, Pcs, Entry

\* Tasks keep their node and their end, and time does not go back.
Grows ==
  /\ \A t \in Tasks : task[t] # NULL =>
       /\ task'[t] # NULL /\ task'[t].node = task[t].node
       /\ task[t].state \in Terminal => task'[t].state = task[t].state
  /\ late \subseteq late'

\* So no task comes alive again.
LEMMA LiveBack ==
  ASSUME Shape, Shape', Grows, NEW t \in Tasks, task[t] # NULL, Live(t)'
  PROVE  Live(t)
BY DEF Shape, Grows, Live, TaskRecs, States

-----------------------------------------------------------------------------
(* A step of one node, seen by the others. *)

\* An entry stays about its key.
LEMMA ForStays ==
  ASSUME Shape, Grows, NEW k, NEW x \in Entry, NEW y \in Entry, For(k, x), Agree(y, x)
  PROVE  For(k, y)'
<1>1. y # NULL => x # NULL /\ x \in Progress /\ y.task = x.task /\ x.task \in Tasks
  BY NotNull DEF Agree, Entry
<1> QED BY <1>1 DEF For, Grows

\* A reply stays honest.
LEMMA HonestStays ==
  ASSUME Shape, Grows, NEW n, NEW r \in Replies, Honest(n, r)
  PROVE  Honest(n, r)'
<1>1. r.task \in Tasks \cup {NULL}
  BY DEF Replies
<1> QED BY <1>1 DEF Honest, Sent, Grows, Terminal, Shape, TaskRecs

\* Nothing of node m's call, nor of its entry, is touched.
Untouched(m) ==
  /\ call'[m].pc = call[m].pc /\ call'[m].progress = call[m].progress
  /\ call'[m].reply = call[m].reply /\ call'[m].snap = call[m].snap
  /\ node'[m] = node[m]
  /\ Agree(cache'[Host(m)][KeyOf[m]], Cached(m))
  /\ call[m].pc = "write" => lock'[Host(m)] = lock[Host(m)]

\* So its invariant holds as before.
LEMMA OtherNode ==
  ASSUME Shape, Shape', Grows, scene' = scene, NEW m \in Nodes, Untouched(m),
         CallIsOwn(m), CallIsTracked(m)
  PROVE  CallIsOwn(m)' /\ CallIsTracked(m)'
<1>t. /\ call[m] \in CallRecs /\ node[m] \in NodeRecs /\ Host(m) \in Plugins
      /\ KeyOf[m] \in Keys /\ Host(m)' = Host(m) /\ cache'[Host(m)][KeyOf[m]] \in Entry
      /\ Cached(m) \in Entry
  BY SceneFacts DEF Shape, Host, Cached
<1>f. /\ call[m].pc \in Pcs /\ call[m].progress \in Entry /\ call[m].reply \in Replies
      /\ node[m].reply \in Replies
  BY <1>t DEF CallRecs, NodeRecs
<1>c. Cached(m)' = cache'[Host(m)][KeyOf[m]]
  BY <1>t DEF Cached
<1>1. call[m].progress # NULL => /\ call[m].progress.task \in Tasks
                                 /\ Sent(m, call[m].progress.task)'
  BY <1>f, NotNull DEF Entry, CallIsOwn, Sent, Grows, Untouched
<1>2. call[m].pc = "write" => \A k \in Keys : For(k, call[m].snap[k])'
  <2> SUFFICES ASSUME call[m].pc = "write", NEW k \in Keys PROVE For(k, call[m].snap[k])'
    OBVIOUS
  <2>1. call[m].snap[k] \in Entry /\ For(k, call[m].snap[k])
    BY DEF CallIsOwn, CallIsTracked
  <2>2. Agree(call[m].snap[k], call[m].snap[k])
    BY DEF Agree
  <2>3. \A x \in Entry : For(k, x) /\ Agree(x, x) => For(k, x)'
    BY ForStays
  <2>4. \A x \in Entry : For(k, x) => For(k, x)'
    BY <2>3 DEF Agree
  <2>5. call'[m].snap[k] \in Entry /\ For(k, call'[m].snap[k])
    BY <2>1 DEF Untouched
  <2> QED BY <2>4, <2>5 DEF For
<1>3. Honest(m, call[m].reply)' /\ Honest(m, node[m].reply)'
  <2>1. \A r \in Replies : Honest(m, r) => Honest(m, r)'
    BY HonestStays
  <2>2. Honest(m, call[m].reply) /\ Honest(m, node[m].reply)
    BY DEF CallIsOwn
  <2> QED BY <1>f, <2>1, <2>2 DEF Honest, Untouched, Sent
<1>4. CallIsOwn(m)'
  BY <1>1, <1>2, <1>3 DEF CallIsOwn, Untouched, Sent, For
<1>5. call[m].progress # NULL /\ ~Live(call[m].progress.task) => ~Live(call[m].progress.task)'
  <2> SUFFICES ASSUME call[m].progress # NULL, ~Live(call[m].progress.task)
               PROVE  ~Live(call[m].progress.task)'
    OBVIOUS
  <2>1. PICK t \in Tasks : t = call[m].progress.task
    BY <1>1
  <2>2. task[t] # NULL /\ ~Live(t) /\ call'[m].progress.task = t
    BY <2>1 DEF CallIsOwn, Sent, Untouched
  <2>3. ~Live(t)'
    BY <2>2, LiveBack
  <2> QED BY <2>2, <2>3 DEF Live
<1>6. CallIsTracked(m)'
  BY <1>5, <1>c, <1>t DEF CallIsTracked, Untouched, Tracks, Agree
<1> QED BY <1>4, <1>6

\* A write under way is the same one as before.
SameWrites ==
  \A x \in Nodes : call'[x].pc = "write" =>
     call[x].pc = "write" /\ call'[x].snap = call[x].snap /\ call'[x].fresh = call[x].fresh

\* What Argo was told, or is about to be told, of a live task holds after the step if
\* it held before it.
LEMMA ToldStays ==
  ASSUME Shape, Shape', Grows, scene' = scene, NEW n \in Nodes, NEW r \in Replies,
         Honest(n, r), r.phase = "Running", Live(r.task)'
  PROVE  r.task \in Tasks /\ Live(r.task)
<1>1. r.task \in Tasks /\ task[r.task] # NULL
  BY NotNull DEF Honest, Sent, Replies
<1> QED BY <1>1, LiveBack

\* A node that is not touched, in a namespace whose ConfigMap and writes are not.
LEMMA OtherPersisted ==
  ASSUME Shape, Shape', Grows, scene' = scene, NEW m \in Nodes, Untouched(m), SameWrites,
         CallIsOwn(m), Persisted(m), cm' = cm
  PROVE  Persisted(m)'
<1>t. /\ call[m].reply \in Replies /\ node[m].reply \in Replies
      /\ Host(m)' = Host(m)
  BY DEF Shape, CallRecs, NodeRecs, Host
<1>c. Cached(m)' = cache'[Host(m)][KeyOf[m]]
  BY <1>t DEF Cached
<1>1. Agree(cm[CmKey(KeyOf[m])], Cached(m)) => Agree(cm[CmKey(KeyOf[m])], Cached(m))'
  BY <1>c DEF Agree, Untouched
<1>2. call[m].pc \notin {"sync", "write"} => Agree(cm[CmKey(KeyOf[m])], Cached(m))'
  BY <1>1 DEF Persisted
<1>3. ASSUME NEW x \in Nodes, call'[x].pc = "write"
      PROVE  call'[x].fresh /\ (call'[m].pc # "sync" => Agree(call[x].snap[KeyOf[m]], Cached(m))')
  <2>1. call[x].fresh /\ (call[m].pc # "sync" => Agree(call[x].snap[KeyOf[m]], Cached(m)))
    BY <1>3 DEF Persisted, SameWrites
  <2> QED BY <1>3, <1>c, <2>1 DEF SameWrites, Agree, Untouched
<1>4. \A t : Tracks(m, t) => Tracks(m, t)'
  BY <1>c DEF Tracks, Agree, Untouched
<1>5. PICK r \in Replies, q \in Replies : r = call[m].reply /\ q = node[m].reply
  BY <1>t
<1>6. /\ r.phase = "Running" /\ Live(r.task)' => Live(r.task)
      /\ q.phase = "Running" /\ Live(q.task)' => Live(q.task)
  BY <1>5, ToldStays DEF CallIsOwn
<1>7. call'[m].reply = r /\ node'[m].reply = q /\ call'[m].pc = call[m].pc
  BY <1>5 DEF Untouched
<1>8. q.phase = "Running" /\ Live(q.task)' =>
        Tracks(m, q.task)' /\ call[m].pc \notin {"send", "store", "sync", "write"}
  BY <1>4, <1>5, <1>6 DEF Persisted
<1>9. call[m].pc \in {"sync", "write", "reply"} /\ r.phase = "Running" /\ Live(r.task)' =>
        Tracks(m, r.task)'
  BY <1>4, <1>5, <1>6 DEF Persisted
<1>10. node'[m].reply.phase = "Running" /\ Live(node[m].reply.task)' =>
        Tracks(m, node[m].reply.task)' /\ call'[m].pc \notin {"send", "store", "sync", "write"}
  BY <1>7, <1>8 DEF Live, Tracks
<1>11. call'[m].pc \in {"sync", "write", "reply"} /\ call'[m].reply.phase = "Running"
         /\ Live(call[m].reply.task)' => Tracks(m, call[m].reply.task)'
  BY <1>7, <1>9 DEF Live, Tracks
<1> QED BY <1>2, <1>3, <1>7, <1>10, <1>11 DEF Persisted

\* Nothing at all happens to a store that keeps its tasks.
LEMMA StoreStays ==
  ASSUME Shape, Shape', Grows, StoreIsOwn, cm' = cm,
         \A p \in Plugins, k \in Keys : Agree(cache'[p][k], cache[p][k])
  PROVE  StoreIsOwn'
<1>1. ASSUME NEW p \in Plugins, NEW k \in Keys PROVE For(k, cache[p][k])'
  <2>1. PICK x \in Entry, y \in Entry : x = cache[p][k] /\ y = cache'[p][k]
    BY DEF Shape
  <2>2. For(k, x) /\ Agree(y, x)
    BY <2>1 DEF StoreIsOwn
  <2>3. For(k, y)'
    BY <2>2, ForStays
  <2> QED BY <2>1, <2>3 DEF For
<1>2. ASSUME NEW k \in Keys PROVE For(k, cm[CmKey(k)])'
  <2>1. PICK x \in Entry : x = cm[CmKey(k)]
    BY DEF Shape, DataKeys
  <2>2. For(k, x) /\ Agree(x, x)
    BY <2>1 DEF StoreIsOwn, Agree
  <2>3. For(k, x)'
    BY <2>2, ForStays
  <2> QED BY <2>1, <2>3 DEF For
<1> QED BY <1>1, <1>2 DEF StoreIsOwn

\* A step of node n that is not about the store: what is left to show is n's own part.
LEMMA QuietStep ==
  ASSUME PluginIndInv, NEW n \in Nodes, Shape', Grows, scene' = scene, cm' = cm, lock' = lock,
         \A p \in Plugins, k \in Keys : Agree(cache'[p][k], cache[p][k]),
         \A m \in Nodes : m # n => call'[m] = call[m] /\ node'[m] = node[m],
         call[n].pc \notin {"sync", "write"}, call'[n].pc \notin {"sync", "write"},
         CallIsOwn(n)', CallIsTracked(n)',
         Alone /\ n \in scene.nodes =>
           /\ node'[n].reply.phase = "Running" /\ Live(node[n].reply.task)' =>
                Tracks(n, node[n].reply.task)' /\ call'[n].pc \notin {"send", "store"}
           /\ call'[n].pc = "reply" /\ call'[n].reply.phase = "Running"
                /\ Live(call[n].reply.task)' => Tracks(n, call[n].reply.task)'
  PROVE  PluginIndInv'
<1>1. Shape /\ StoreIsOwn
  BY TypesAreShape DEF PluginIndInv
<1>t. \A m \in Nodes : Host(m) \in Plugins /\ KeyOf[m] \in Keys /\ Host(m)' = Host(m)
  BY <1>1, SceneFacts DEF Shape, Host
<1>2. StoreIsOwn'
  BY <1>1, StoreStays
<1>3. \A m \in Nodes : m # n => Untouched(m)
  BY <1>t DEF Untouched, Cached
<1>4. \A m \in Nodes : CallIsOwn(m)' /\ CallIsTracked(m)'
  BY <1>1, <1>3, OtherNode DEF PluginIndInv
<1>5. TypeOK'
  <2>1. HoldsProgress'
    BY <1>4 DEF CallIsTracked, HoldsProgress
  <2>2. TypeOK' <=> Shape' /\ HoldsProgress'
    BY TypesAreShape, PTL
  <2> QED BY <2>1, <2>2
<1>6. ASSUME Alone', NEW m \in scene.nodes PROVE Persisted(m)'
  <2>1. Alone /\ m \in Nodes /\ Persisted(m) /\ Host(m)' = Host(m)
    BY <1>1, <1>6, <1>t, SceneFacts DEF Alone, PluginIndInv, Shape, Host
  <2>2. SameWrites
    BY DEF SameWrites
  <2>3. CASE m # n
    BY <1>1, <1>3, <2>1, <2>2, <2>3, OtherPersisted DEF PluginIndInv
  <2>4. CASE m = n
    <3>1. Agree(cache'[Host(n)][KeyOf[n]], cache[Host(n)][KeyOf[n]])
      BY <1>t
    <3>2. Cached(n)' = cache'[Host(n)][KeyOf[n]] /\ Cached(n) = cache[Host(n)][KeyOf[n]]
      BY <1>t DEF Cached
    <3>3. Agree(cm[CmKey(KeyOf[n])], Cached(n))'
      BY <2>1, <2>4, <3>1, <3>2 DEF Agree, Persisted
    <3>4. ASSUME NEW x \in Nodes, call'[x].pc = "write"
          PROVE  call'[x].fresh /\ Agree(call[x].snap[KeyOf[n]], Cached(n))'
      <4>1. call'[x] = call[x] /\ call[x].fresh /\ Agree(call[x].snap[KeyOf[n]], Cached(n))
        BY <2>1, <2>4, <3>4 DEF Persisted
      <4> QED BY <3>1, <3>2, <4>1 DEF Agree
    <3> QED BY <2>1, <2>4, <3>3, <3>4 DEF Persisted
  <2> QED BY <2>3, <2>4
<1> QED BY <1>2, <1>4, <1>5, <1>6 DEF PluginIndInv

-----------------------------------------------------------------------------
(* The steps that leave the store alone. *)

\* Node n's call moves on, Argo's view of n does not.
LEMMA QuietCall ==
  ASSUME PluginIndInv, NEW n \in Nodes, Shape', Grows, scene' = scene, cm' = cm, lock' = lock,
         node' = node,
         \A p \in Plugins, k \in Keys : Agree(cache'[p][k], cache[p][k]),
         \A m \in Nodes : m # n => call'[m] = call[m],
         call[n].pc \notin {"sync", "write"}, call'[n].pc \notin {"sync", "write"},
         CallIsOwn(n)', CallIsTracked(n)',
         call'[n].pc = "reply" /\ call'[n].reply.phase = "Running" =>
           Tracks(n, call[n].reply.task)'
  PROVE  PluginIndInv'
<1>1. Shape
  BY TypesAreShape DEF PluginIndInv
<1>2. ASSUME Alone, n \in scene.nodes, node'[n].reply.phase = "Running", Live(node[n].reply.task)'
      PROVE  Tracks(n, node[n].reply.task)' /\ call'[n].pc \notin {"send", "store"}
  <2>1. PICK r \in Replies : r = node[n].reply
    BY <1>1 DEF Shape, NodeRecs
  <2>2. Honest(n, r) /\ r.phase = "Running" /\ Live(r.task)'
    BY <1>2, <2>1 DEF PluginIndInv, CallIsOwn, Live
  <2>3. Live(r.task)
    BY <1>1, <2>2, ToldStays
  <2>4. Tracks(n, r.task)
    BY <1>2, <2>1, <2>2, <2>3 DEF PluginIndInv, Persisted
  <2>5. Agree(Cached(n)', Cached(n))
    <3>1. Host(n) \in Plugins /\ KeyOf[n] \in Keys /\ Host(n)' = Host(n)
      BY <1>1, SceneFacts DEF Shape, Host
    <3> QED BY <3>1 DEF Cached
  <2>6. Tracks(n, r.task)' /\ Cached(n)' # NULL
    BY <2>4, <2>5 DEF Tracks, Agree
  <2> QED BY <2>1, <2>6 DEF Tracks, CallIsTracked
<1> QED BY <1>2, QuietStep

\* What Answer leaves of a call.
LEMMA AnswerFacts ==
  ASSUME Shape, NEW n \in Nodes, NEW r \in Replies, Answer(n, r)
  PROVE  /\ call' \in [Nodes -> CallRecs] /\ call'[n].pc = "reply" /\ call'[n].progress = NULL
         /\ call'[n].reply = r
         /\ \A m \in Nodes : m # n => call'[m] = call[m]
<1> DEFINE c == [Idle EXCEPT !.pc = "reply", !.reply = r]
<1>1. c \in CallRecs /\ c.pc = "reply" /\ c.progress = NULL /\ c.reply = r
  BY IdleFacts DEF CallRecs, Pcs
<1>2. call' = [call EXCEPT ![n] = c]
  BY DEF Answer
<1> HIDE DEF c
<1> QED BY <1>1, <1>2 DEF Shape

\* A node whose call is past the lookup is one that is called.
LEMMA CalledNode ==
  ASSUME PluginIndInv, NEW n \in Nodes, call[n].pc # "idle"
  PROVE  n \in scene.nodes
BY DEF PluginIndInv, CallIsTracked

\* The handler answers and leaves the store alone.
LEMMA AnswerStep ==
  ASSUME PluginIndInv, NEW n \in Nodes, NEW r \in Replies, Answer(n, r), Shape', Grows,
         scene' = scene, cm' = cm, lock' = lock, node' = node, n \in scene.nodes,
         \A p \in Plugins, k \in Keys : Agree(cache'[p][k], cache[p][k]),
         call[n].pc \in {"idle", "send", "poll"}, Honest(n, r)',
         r.phase = "Running" => Tracks(n, r.task)
  PROVE  PluginIndInv'
<1>1. Shape
  BY TypesAreShape DEF PluginIndInv
<1>2. /\ call'[n].pc = "reply" /\ call'[n].progress = NULL /\ call'[n].reply = r
      /\ \A m \in Nodes : m # n => call'[m] = call[m]
  BY <1>1, AnswerFacts
<1>3. Honest(n, node[n].reply)'
  <2>1. PICK q \in Replies : q = node[n].reply
    BY <1>1 DEF Shape, NodeRecs
  <2>2. Honest(n, q)'
    BY <1>1, <2>1, HonestStays DEF PluginIndInv, CallIsOwn
  <2> QED BY <2>1, <2>2 DEF Honest, Sent
<1>4. CallIsOwn(n)'
  BY <1>2, <1>3 DEF CallIsOwn, Honest, Sent
<1>5. CallIsTracked(n)'
  BY <1>2 DEF CallIsTracked
<1>6. r.phase = "Running" => Tracks(n, r.task)'
  <2>1. Host(n) \in Plugins /\ KeyOf[n] \in Keys /\ Host(n)' = Host(n)
    BY <1>1, SceneFacts DEF Shape, Host
  <2>2. Agree(Cached(n)', Cached(n))
    BY <2>1 DEF Cached
  <2> QED BY <2>2 DEF Tracks, Agree
<1>7. call'[n].reply.phase = "Running" => Tracks(n, call[n].reply.task)'
  BY <1>2, <1>6 DEF Tracks
<1> QED BY <1>2, <1>4, <1>5, <1>7, QuietCall

\* Faults are counted.
LEMMA FaultFacts ==
  ASSUME Shape, NEW kind, Fault(kind)
  PROVE  faults' = faults + 1 /\ faults' \in Nat /\ faults' <= scene.faults /\ kind \in scene.kinds
<1>1. faults \in Nat /\ scene.faults \in Nat
  BY SceneFacts DEF Shape
<1> QED BY <1>1 DEF Fault

\* No tasks change.
LEMMA TasksStay ==
  ASSUME task' = task, late' = late
  PROVE  Grows
BY DEF Grows

\* ExecuteTemplate looks its key up.
LEMMA ExecuteInv ==
  ASSUME KeysApart, PluginIndInv, NEW n \in Nodes, ExecuteTemplate(n)
  PROVE  PluginIndInv'
<1>1. Shape /\ CallIsOwn(n) /\ CallIsTracked(n) /\ StoreIsOwn
  BY TypesAreShape DEF PluginIndInv
<1>2. /\ n \in scene.nodes /\ call[n].pc = "idle"
      /\ UNCHANGED <<scene, node, cache, lock, cm, task, late, faults>>
  BY DEF ExecuteTemplate, Calls
<1>t. Host(n) \in Plugins /\ KeyOf[n] \in Keys /\ Cached(n) \in Entry /\ Cached(n)' = Cached(n)
      /\ call \in [Nodes -> CallRecs]
  BY <1>1, <1>2, SceneFacts DEF Shape, Host, Cached
<1> DEFINE c == IF Cached(n) # NULL THEN [Idle EXCEPT !.pc = "poll", !.progress = Cached(n)]
                ELSE [Idle EXCEPT !.pc = "send"]
<1>3. c \in CallRecs /\ c.reply = Idle.reply
      /\ IF Cached(n) # NULL THEN c.pc = "poll" /\ c.progress = Cached(n)
         ELSE c.pc = "send" /\ c.progress = NULL
  BY <1>t, IdleFacts DEF CallRecs, Pcs
<1>4. call' = [call EXCEPT ![n] = c]
  BY DEF ExecuteTemplate
<1> HIDE DEF c
<1>5. call' \in [Nodes -> CallRecs] /\ call'[n] = c /\ \A m \in Nodes : m # n => call'[m] = call[m]
  BY <1>3, <1>4, <1>t
<1>6. Shape' /\ Grows
  BY <1>1, <1>2, <1>5, TasksStay DEF Shape
<1>7. CallIsOwn(n)'
  <2>1. Honest(n, call[n].reply)'
    BY <1>3, <1>5, IdleFacts DEF Honest
  <2>2. Honest(n, node[n].reply)'
    BY <1>1, <1>2 DEF Honest, CallIsOwn, Sent
  <2>3. Cached(n) # NULL => KeyOf[task[Cached(n).task].node] = KeyOf[n] /\ task[Cached(n).task] # NULL
    BY <1>1, <1>t DEF StoreIsOwn, For, Cached
  <2>4. Cached(n) # NULL => Cached(n).task \in Tasks /\ Sent(n, Cached(n).task)
    <3>1. Cached(n) # NULL => Cached(n).task \in Tasks
      BY <1>t, NotNull DEF Entry
    <3>2. \A t \in Tasks : task[t] # NULL => task[t].node \in Nodes
      BY <1>1 DEF Shape, TaskRecs
    <3> QED BY <2>3, <3>1, <3>2 DEF KeysApart, Sent
  <2>5. call'[n].progress # NULL => Sent(n, call[n].progress.task)'
    BY <1>2, <1>3, <1>5, <2>4 DEF Sent
  <2> QED BY <1>3, <1>5, <2>1, <2>2, <2>5 DEF CallIsOwn
<1>8. CallIsTracked(n)'
  BY <1>2, <1>3, <1>5, <1>t DEF CallIsTracked, Tracks
<1> QED BY <1>2, <1>3, <1>5, <1>6, <1>7, <1>8, QuietCall DEF Agree

\* An agent starts a task.
LEMMA StartsFacts ==
  ASSUME Shape, NEW n \in Nodes, NEW t \in Tasks, NEW s \in States, Starts(n, t, s), late' = late
  PROVE  /\ Grows /\ task' \in [Tasks -> TaskRecs \cup {NULL}]
         /\ task[t] = NULL /\ task'[t] # NULL /\ task'[t].node = n /\ task'[t].state = s
         /\ \A u \in Tasks : u # t => task'[u] = task[u]
<1> DEFINE x == [node |-> n, state |-> s]
<1>1. x \in TaskRecs /\ x.node = n /\ x.state = s /\ x # NULL
  BY NotNull DEF TaskRecs
<1>2. task[t] = NULL /\ task' = [task EXCEPT ![t] = x] /\ task \in [Tasks -> TaskRecs \cup {NULL}]
  BY DEF Starts, Shape
<1> HIDE DEF x
<1> QED BY <1>1, <1>2 DEF Grows

\* The next candidate is tried with the same call.
LEMMA CandidateStep ==
  ASSUME PluginIndInv, NEW n \in Nodes, call[n].pc = "send", NextCandidate(n), Grows,
         task' \in [Tasks -> TaskRecs \cup {NULL}], faults' \in Nat, faults' <= scene.faults,
         UNCHANGED <<scene, node, cache, lock, cm, late>>
  PROVE  PluginIndInv'
<1>1. Shape /\ CallIsOwn(n) /\ CallIsTracked(n) /\ n \in scene.nodes
  BY TypesAreShape, CalledNode DEF PluginIndInv
<1>2. \A p \in Plugins, k \in Keys : Agree(cache'[p][k], cache[p][k])
  BY DEF Agree
<1>3. CASE call[n].cand < Candidates
  <2>1. call' = [call EXCEPT ![n].cand = @ + 1]
    BY <1>3 DEF NextCandidate
  <2>2. call[n].cand + 1 \in 1..Candidates
    BY <1>1, <1>3, PluginAssumption DEF Shape, CallRecs
  <2>3. /\ call' \in [Nodes -> CallRecs]
        /\ \A m \in Nodes : m # n => call'[m] = call[m]
        /\ call'[n].pc = "send" /\ call'[n].progress = call[n].progress
        /\ call'[n].reply = call[n].reply /\ call'[n].snap = call[n].snap
    BY <1>1, <2>1, <2>2 DEF Shape, CallRecs
  <2>4. Shape'
    BY <1>1, <2>3 DEF Shape
  <2>5. Untouched(n)
    BY <2>3 DEF Untouched, Agree, Cached
  <2>6. CallIsOwn(n)' /\ CallIsTracked(n)'
    BY <1>1, <2>4, <2>5, OtherNode
  <2> QED BY <1>2, <2>3, <2>4, <2>6, QuietCall
<1>4. CASE ~(call[n].cand < Candidates)
  <2>1. PICK r \in Replies : r = Reply("Failed", "send", NULL)
    BY IdleFacts
  <2>2. Answer(n, r) /\ r.phase = "Failed" /\ r.task = NULL
    BY <1>4, <2>1, IdleFacts DEF NextCandidate
  <2>3. Shape'
    BY <1>1, <2>2, AnswerFacts DEF Shape
  <2>4. Honest(n, r)'
    BY <2>2 DEF Honest
  <2> QED BY <1>1, <1>2, <2>2, <2>3, <2>4, AnswerStep
<1> QED BY <1>3, <1>4

\* sendTask gets its answer.
LEMMA SendOkInv ==
  ASSUME PluginIndInv, NEW n \in Nodes, NEW t \in Tasks, NEW s \in States, SendOk(n, t, s)
  PROVE  PluginIndInv'
<1>1. Shape /\ CallIsOwn(n) /\ CallIsTracked(n)
  BY TypesAreShape DEF PluginIndInv
<1>2. /\ call[n].pc = "send" /\ Starts(n, t, s)
      /\ UNCHANGED <<scene, node, cache, lock, cm, late, faults>>
  BY DEF SendOk
<1>3. /\ Grows /\ task' \in [Tasks -> TaskRecs \cup {NULL}]
      /\ task'[t] # NULL /\ task'[t].node = n /\ task'[t].state = s
  BY <1>1, <1>2, StartsFacts
<1>4. \A p \in Plugins, k \in Keys : Agree(cache'[p][k], cache[p][k])
  BY <1>2 DEF Agree
<1>5. CASE s \in Terminal
  <2>1. PICK r \in Replies : r = TaskToReply(t, s)
    BY IdleFacts DEF TaskToReply
  <2>2. /\ Answer(n, r) /\ r.task = t /\ r.phase \in {"Succeeded", "Failed"}
        /\ r.phase = "Succeeded" => s = "completed"
    BY <1>5, <2>1, IdleFacts DEF SendOk, TaskToReply
  <2>3. Shape'
    BY <1>1, <1>2, <1>3, <2>2, AnswerFacts DEF Shape
  <2>4. Honest(n, r)'
    BY <1>3, <2>2, NotNull DEF Honest, Sent
  <2>5. n \in scene.nodes
    BY <1>2, CalledNode
  <2> QED BY <1>2, <1>3, <1>4, <2>2, <2>3, <2>4, <2>5, AnswerStep
<1>6. CASE s \notin Terminal
  <2> DEFINE x == [task |-> t, errors |-> 0]
  <2>1. x \in Progress /\ x.task = t /\ x # NULL /\ x \in Entry
    <3>1. x \in Progress /\ x.task = t
      BY DEF Progress
    <3> QED BY <3>1, NotNull DEF Entry
  <2>2. call' = [call EXCEPT ![n].pc = "store", ![n].progress = x]
    BY <1>6 DEF SendOk
  <2> HIDE DEF x
  <2>3. /\ call' \in [Nodes -> CallRecs] /\ \A m \in Nodes : m # n => call'[m] = call[m]
        /\ call'[n].pc = "store" /\ call'[n].progress = x /\ call'[n].reply = call[n].reply
    BY <1>1, <2>1, <2>2 DEF Shape, CallRecs, Pcs
  <2>4. Shape'
    BY <1>1, <1>2, <1>3, <2>3 DEF Shape
  <2>5. CallIsOwn(n)'
    <3>1. PICK r \in Replies, q \in Replies : r = call[n].reply /\ q = node[n].reply
      BY <1>1 DEF Shape, CallRecs, NodeRecs
    <3>2. Honest(n, r)' /\ Honest(n, q)'
      BY <1>1, <1>3, <3>1, HonestStays DEF CallIsOwn
    <3>3. Honest(n, call[n].reply)' /\ Honest(n, node[n].reply)'
      BY <1>2, <2>3, <3>1, <3>2 DEF Honest, Sent
    <3> QED BY <1>3, <2>1, <2>3, <3>3 DEF CallIsOwn, Sent
  <2>6. Cached(n) = NULL /\ Cached(n)' = Cached(n) /\ n \in scene.nodes
    BY <1>1, <1>2, CalledNode DEF CallIsTracked, Cached, Host
  <2>7. CallIsTracked(n)'
    BY <1>2, <2>1, <2>3, <2>6 DEF CallIsTracked
  <2> QED BY <1>2, <1>3, <1>4, <2>3, <2>4, <2>5, <2>7, QuietCall
<1> QED BY <1>5, <1>6

\* The other ends of a send.
LEMMA SendInv ==
  ASSUME PluginIndInv, NEW n \in Nodes,
         SendFails(n) \/ SendNoTask(n) \/ Refuse(n) \/ \E t \in Tasks : AnswerLost(n, t)
  PROVE  PluginIndInv'
<1>1. Shape
  BY TypesAreShape DEF PluginIndInv
<1>2. /\ UNCHANGED <<scene, node, cache, lock, cm, late>> /\ faults' \in Nat /\ faults' <= scene.faults
      /\ task \in [Tasks -> TaskRecs \cup {NULL}]
  BY <1>1, FaultFacts DEF SendFails, SendNoTask, Refuse, AnswerLost, Shape
<1>3. CASE SendFails(n)
  <2>1. task' = task /\ Grows
    BY <1>2, <1>3, TasksStay DEF SendFails
  <2> QED BY <1>2, <1>3, <2>1, CandidateStep DEF SendFails
<1>4. CASE SendNoTask(n) \/ Refuse(n)
  <2>1. PICK r \in Replies : /\ Answer(n, r) /\ r.phase = "Failed" /\ r.task = NULL
    BY <1>4, IdleFacts DEF SendNoTask, Refuse
  <2>2. task' = task /\ Grows /\ call[n].pc \in {"idle", "send"} /\ n \in scene.nodes
    BY <1>2, <1>4, TasksStay, CalledNode DEF SendNoTask, Refuse, Calls
  <2>3. Shape'
    BY <1>1, <1>2, <2>1, <2>2, AnswerFacts DEF Shape
  <2>4. Honest(n, r)'
    BY <2>1 DEF Honest
  <2> QED BY <1>2, <2>1, <2>2, <2>3, <2>4, AnswerStep DEF Agree
<1>5. CASE \E t \in Tasks : AnswerLost(n, t)
  <2>1. PICK t \in Tasks : AnswerLost(n, t)
    BY <1>5
  <2>2. Grows /\ task' \in [Tasks -> TaskRecs \cup {NULL}]
    BY <1>1, <1>2, <2>1, StartsFacts DEF AnswerLost, States
  <2> QED BY <1>2, <2>1, <2>2, CandidateStep DEF AnswerLost
<1> QED BY <1>3, <1>4, <1>5

\* Counting poll errors keeps every task of the cache.
LEMMA SetErrorsFacts ==
  ASSUME Shape, NEW n \in Nodes, NEW e \in Nat, SetErrors(n, e)
  PROVE  /\ cache' \in [Plugins -> [Keys -> Entry]]
         /\ \A p \in Plugins, k \in Keys : Agree(cache'[p][k], cache[p][k])
<1>t. Host(n) \in Plugins /\ KeyOf[n] \in Keys /\ cache \in [Plugins -> [Keys -> Entry]]
  BY SceneFacts DEF Shape
<1>1. CASE Shared(n)
  <2> DEFINE x == [cache[Host(n)][KeyOf[n]] EXCEPT !.errors = e]
  <2>1. cache[Host(n)][KeyOf[n]] \in Progress
    BY <1>1, <1>t DEF Shared, Cached, Entry
  <2>2. x \in Progress /\ x.task = cache[Host(n)][KeyOf[n]].task
    BY <2>1 DEF Progress
  <2>3. cache' = [cache EXCEPT ![Host(n)][KeyOf[n]] = x]
    BY <1>1 DEF SetErrors
  <2> HIDE DEF x
  <2>4. x # NULL /\ x \in Entry /\ cache[Host(n)][KeyOf[n]] # NULL
    BY <2>1, <2>2, NotNull DEF Entry
  <2>5. cache' \in [Plugins -> [Keys -> Entry]]
    BY <1>t, <2>3, <2>4
  <2>6. ASSUME NEW p \in Plugins, NEW k \in Keys
        PROVE  cache'[p][k] = IF p = Host(n) /\ k = KeyOf[n] THEN x ELSE cache[p][k]
    BY <1>t, <2>3
  <2> QED BY <2>2, <2>4, <2>5, <2>6 DEF Agree
<1>2. CASE ~Shared(n)
  BY <1>2, <1>t DEF SetErrors, Agree
<1> QED BY <1>1, <1>2

\* A poll that keeps its task.
LEMMA PollInv ==
  ASSUME PluginIndInv, NEW n \in Nodes, PollNoClient(n) \/ PollError(n) \/ PollRunning(n)
  PROVE  PluginIndInv'
<1>1. Shape /\ CallIsOwn(n) /\ CallIsTracked(n)
  BY TypesAreShape DEF PluginIndInv
<1>2. /\ UNCHANGED <<scene, node, lock, cm, task, late>> /\ call[n].pc = "poll"
      /\ faults' \in Nat /\ faults' <= scene.faults
  BY <1>1, FaultFacts DEF PollNoClient, PollError, PollRunning, Shape
<1>3. n \in scene.nodes /\ Grows
  BY <1>2, CalledNode, TasksStay
<1>4. /\ call[n].progress \in Progress /\ call[n].progress.task \in Tasks
      /\ call[n].progress.errors \in Nat /\ Sent(n, call[n].progress.task)
      /\ Tracks(n, call[n].progress.task)
  BY <1>1, <1>2, NotNull DEF CallIsTracked, CallIsOwn, Shape, CallRecs, Entry
<1>5. Errors(n) \in Nat
  <2>1. Shared(n) => Cached(n) \in Progress
    BY <1>1, SceneFacts DEF Shared, Cached, Shape, Entry
  <2> QED BY <1>4, <2>1, NotNull DEF Errors
<1>6. /\ cache' \in [Plugins -> [Keys -> Entry]]
      /\ \A p \in Plugins, k \in Keys : Agree(cache'[p][k], cache[p][k])
  <2>1. CASE PollNoClient(n)
    BY <1>1, <2>1 DEF PollNoClient, Agree, Shape
  <2>2. CASE ~PollNoClient(n)
    <3>1. PICK e \in Nat : SetErrors(n, e)
      BY <1>5, <2>2 DEF PollError, PollRunning
    <3> QED BY <1>1, <3>1, SetErrorsFacts
  <2> QED BY <2>1, <2>2
<1>7. PICK r \in Replies : /\ Answer(n, r) /\ r.phase \in {"Running", "Failed"}
                           /\ r.task = call[n].progress.task \/ (r.task = NULL /\ r.phase = "Failed")
  <2>1. CASE PollNoClient(n)
    BY <2>1, IdleFacts DEF PollNoClient
  <2>2. CASE PollError(n)
    <3> DEFINE p == IF Errors(n) + 1 < MaxPollErrors THEN "Running" ELSE "Failed"
    <3>1. p \in {"Running", "Failed"}
      OBVIOUS
    <3>2. Answer(n, Reply(p, "poll", call[n].progress.task))
      BY <2>2 DEF PollError
    <3> HIDE DEF p
    <3> QED BY <1>4, <3>1, <3>2, IdleFacts
  <2>3. CASE PollRunning(n)
    BY <1>4, <2>3, IdleFacts DEF PollRunning
  <2> QED BY <2>1, <2>2, <2>3
<1>8. Shape'
  BY <1>1, <1>2, <1>6, <1>7, AnswerFacts DEF Shape
<1>9. Honest(n, r)'
  BY <1>2, <1>4, <1>7, NotNull DEF Honest, Sent
<1>10. r.phase = "Running" => Tracks(n, r.task)
  BY <1>4, <1>7
<1> QED BY <1>2, <1>3, <1>6, <1>7, <1>8, <1>9, <1>10, AnswerStep

\* The reply arrives, is lost, or is forgotten by a retry.
LEMMA ReplyInv ==
  ASSUME PluginIndInv, NEW n \in Nodes, Deliver(n) \/ ReplyLost(n) \/ RetryNode(n)
  PROVE  PluginIndInv'
<1>1. Shape /\ CallIsOwn(n) /\ CallIsTracked(n)
  BY TypesAreShape DEF PluginIndInv
<1>2. /\ UNCHANGED <<scene, cache, lock, cm, task, late>> /\ faults' \in Nat /\ faults' <= scene.faults
  BY <1>1, FaultFacts DEF Deliver, ReplyLost, RetryNode, Shape
<1>3. Grows /\ \A p \in Plugins, k \in Keys : Agree(cache'[p][k], cache[p][k])
  BY <1>2, TasksStay DEF Agree
<1>t. /\ call \in [Nodes -> CallRecs] /\ node \in [Nodes -> NodeRecs]
      /\ call[n].reply \in Replies /\ node[n].reply \in Replies /\ node[n].retries \in Nat
      /\ node[n].retries <= scene.retries /\ scene.retries \in Nat
  BY <1>1, SceneFacts DEF Shape, CallRecs, NodeRecs
<1>c. Cached(n)' = Cached(n)
  BY <1>2 DEF Cached, Host
<1>4. CASE Deliver(n)
  <2>1. /\ call[n].pc = "reply" /\ node' = [node EXCEPT ![n].reply = call[n].reply]
        /\ call' = [call EXCEPT ![n] = Idle] /\ faults' = faults
    BY <1>4 DEF Deliver
  <2>2. /\ call' \in [Nodes -> CallRecs] /\ call'[n] = Idle
        /\ \A m \in Nodes : m # n => call'[m] = call[m]
    BY <1>t, <2>1, IdleFacts
  <2>3. /\ node' \in [Nodes -> NodeRecs] /\ node'[n].reply = call[n].reply
        /\ node'[n].retries = node[n].retries /\ \A m \in Nodes : m # n => node'[m] = node[m]
    BY <1>t, <2>1 DEF NodeRecs
  <2>4. Shape'
    BY <1>1, <1>2, <2>2, <2>3 DEF Shape
  <2>5. CallIsOwn(n)'
    BY <1>1, <1>2, <2>2, <2>3, IdleFacts DEF CallIsOwn, Honest, Sent
  <2>6. CallIsTracked(n)'
    BY <1>1, <1>2, <2>1, <2>2, IdleFacts DEF CallIsTracked
  <2>7. ASSUME Alone, n \in scene.nodes, node'[n].reply.phase = "Running",
               Live(node[n].reply.task)'
        PROVE  Tracks(n, node[n].reply.task)' /\ call'[n].pc \notin {"send", "store"}
    <3>1. call[n].reply.phase = "Running" /\ Live(call[n].reply.task)
      BY <1>2, <2>3, <2>7 DEF Live
    <3>2. Tracks(n, call[n].reply.task)
      BY <2>1, <2>7, <3>1 DEF PluginIndInv, Persisted
    <3> QED BY <1>c, <2>2, <2>3, <3>2, IdleFacts DEF Tracks
  <2> QED BY <1>2, <1>3, <2>1, <2>2, <2>3, <2>4, <2>5, <2>6, <2>7, IdleFacts, QuietStep
<1>5. CASE ReplyLost(n)
  <2>1. call[n].pc = "reply" /\ call' = [call EXCEPT ![n] = Idle] /\ node' = node
    BY <1>5 DEF ReplyLost
  <2>2. /\ call' \in [Nodes -> CallRecs] /\ call'[n] = Idle
        /\ \A m \in Nodes : m # n => call'[m] = call[m]
    BY <1>t, <2>1, IdleFacts
  <2>3. Shape'
    BY <1>1, <1>2, <2>1, <2>2 DEF Shape
  <2>4. CallIsOwn(n)'
    BY <1>1, <1>2, <2>1, <2>2, IdleFacts DEF CallIsOwn, Honest, Sent
  <2>5. CallIsTracked(n)'
    BY <1>1, <1>2, <2>1, <2>2, IdleFacts DEF CallIsTracked
  <2> QED BY <1>2, <1>3, <2>1, <2>2, <2>3, <2>4, <2>5, IdleFacts, QuietCall
<1>6. CASE RetryNode(n)
  <2> DEFINE x == [reply |-> Idle.reply, retries |-> node[n].retries + 1]
  <2>1. x \in NodeRecs /\ x.retries <= scene.retries /\ x.reply = Idle.reply
    BY <1>6, <1>t, IdleFacts DEF RetryNode, NodeRecs
  <2>2. node' = [node EXCEPT ![n] = x] /\ call' = call /\ faults' = faults
        /\ node[n].reply.phase = "Failed"
    BY <1>6 DEF RetryNode
  <2> HIDE DEF x
  <2>3. node' \in [Nodes -> NodeRecs] /\ node'[n] = x /\ \A m \in Nodes : m # n => node'[m] = node[m]
    BY <1>t, <2>1, <2>2
  <2>4. Shape'
    BY <1>1, <1>2, <2>1, <2>2, <2>3 DEF Shape
  <2>5. CallIsOwn(n)'
    BY <1>1, <1>2, <2>1, <2>2, <2>3, IdleFacts DEF CallIsOwn, Honest, Sent, For
  <2>6. CallIsTracked(n)'
    BY <1>1, <1>2, <1>c, <2>1, <2>2, <2>3, IdleFacts DEF CallIsTracked, Tracks, Live, Host
  <2>7. PluginIndInv'
    <3>1. StoreIsOwn' /\ \A m \in Nodes : Untouched(m) \/ m = n
      BY <1>1, <1>2, <1>3, <2>2, <2>3, <2>4, StoreStays DEF PluginIndInv, Untouched, Cached, Agree
    <3>2. \A m \in Nodes : CallIsOwn(m)' /\ CallIsTracked(m)'
      BY <1>1, <1>2, <1>3, <2>4, <2>5, <2>6, <3>1, OtherNode DEF PluginIndInv
    <3>3. TypeOK'
      <4>1. HoldsProgress'
        BY <3>2 DEF CallIsTracked, HoldsProgress
      <4>2. TypeOK' <=> Shape' /\ HoldsProgress'
        BY TypesAreShape, PTL
      <4> QED BY <2>4, <4>1, <4>2
    <3>4. ASSUME Alone', NEW m \in scene.nodes PROVE Persisted(m)'
      <4>1. Alone /\ m \in Nodes /\ Persisted(m)
        BY <1>1, <1>2, <3>4, SceneFacts DEF Alone, PluginIndInv, Shape, Host
      <4>3. CASE m # n
        <5>1. SameWrites
          BY <2>2 DEF SameWrites
        <5> QED BY <1>1, <1>2, <1>3, <2>4, <3>1, <4>1, <4>3, <5>1, OtherPersisted DEF PluginIndInv
      <4>4. CASE m = n
        BY <1>2, <2>1, <2>2, <2>3, <4>1, <4>4, IdleFacts DEF Persisted, Agree, Cached, Host, Live, Tracks
      <4> QED BY <4>3, <4>4
    <3> QED BY <1>2, <3>1, <3>2, <3>3, <3>4 DEF PluginIndInv
  <2> QED BY <2>7
<1> QED BY <1>4, <1>5, <1>6

\* Time passes and agents work.
LEMMA TimeInv ==
  ASSUME PluginIndInv, Shape', Grows, UNCHANGED <<scene, node, call, cache, lock, cm>>
  PROVE  PluginIndInv'
<1>1. Shape
  BY TypesAreShape DEF PluginIndInv
<1>2. SameWrites /\ \A m \in Nodes : Untouched(m)
  BY DEF SameWrites, Untouched, Agree, Cached
<1>3. StoreIsOwn' /\ \A m \in Nodes : CallIsOwn(m)' /\ CallIsTracked(m)'
  <2>1. \A p \in Plugins, k \in Keys : Agree(cache'[p][k], cache[p][k])
    BY DEF Agree
  <2> QED BY <1>1, <1>2, <2>1, StoreStays, OtherNode DEF PluginIndInv
<1>4. TypeOK'
  <2>1. HoldsProgress'
    BY <1>3 DEF CallIsTracked, HoldsProgress
  <2>2. TypeOK' <=> Shape' /\ HoldsProgress'
    BY TypesAreShape, PTL
  <2> QED BY <2>1, <2>2
<1>5. ASSUME Alone', NEW m \in scene.nodes PROVE Persisted(m)'
  <2>1. Alone /\ m \in Nodes /\ Persisted(m)
    BY <1>1, <1>5, SceneFacts DEF Alone, PluginIndInv, Shape, Host
  <2> QED BY <1>1, <1>2, <2>1, OtherPersisted DEF PluginIndInv
<1> QED BY <1>3, <1>4, <1>5 DEF PluginIndInv

-----------------------------------------------------------------------------
(* The steps of the store. *)

\* The invariant, put together from its parts.
LEMMA Assemble ==
  ASSUME Shape', StoreIsOwn', scene' = scene,
         \A m \in Nodes : CallIsOwn(m)' /\ CallIsTracked(m)',
         Alone => \A m \in scene.nodes : Persisted(m)'
  PROVE  PluginIndInv'
<1>1. HoldsProgress'
  BY DEF CallIsTracked, HoldsProgress
<1>2. TypeOK' <=> Shape' /\ HoldsProgress'
  BY TypesAreShape, PTL
<1>3. Alone' <=> Alone
  BY DEF Alone, Host
<1> QED BY <1>1, <1>2, <1>3 DEF PluginIndInv

\* Store and Delete change the cache of the key, and go on to write it.
LEMMA ToSyncInv ==
  ASSUME KeysApart, PluginIndInv, NEW n \in Nodes, NEW v \in Entry, NEW r \in Replies,
         ToSync(n, v, r), UNCHANGED <<scene, node, lock, cm, task, late, faults>>,
         \/ call[n].pc = "store" /\ v = call[n].progress
         \/ call[n].pc = "poll" /\ v = NULL /\ ~Live(call[n].progress.task),
         Honest(n, r), r.phase = "Running" => v # NULL /\ r.task = v.task
  PROVE  PluginIndInv'
<1>1. Shape /\ CallIsOwn(n) /\ CallIsTracked(n) /\ StoreIsOwn
  BY TypesAreShape DEF PluginIndInv
<1>t. /\ call \in [Nodes -> CallRecs] /\ cache \in [Plugins -> [Keys -> Entry]]
      /\ \A m \in Nodes : Host(m) \in Plugins /\ KeyOf[m] \in Keys /\ Host(m)' = Host(m)
      /\ cm \in [DataKeys -> Entry]
  BY <1>1, SceneFacts DEF Shape, Host
<1>2. /\ cache' = [cache EXCEPT ![Host(n)][KeyOf[n]] = v]
      /\ call' = [call EXCEPT ![n].pc = "sync", ![n].reply = r]
  BY DEF ToSync
<1>3. /\ call' \in [Nodes -> CallRecs] /\ call'[n].pc = "sync" /\ call'[n].reply = r
      /\ call'[n].progress = call[n].progress /\ call'[n].snap = call[n].snap
      /\ \A m \in Nodes : m # n => call'[m] = call[m]
  BY <1>2, <1>t DEF CallRecs, Pcs
<1>4. /\ cache' \in [Plugins -> [Keys -> Entry]] /\ cache'[Host(n)][KeyOf[n]] = v
      /\ \A p \in Plugins, k \in Keys : (p # Host(n) \/ k # KeyOf[n]) => cache'[p][k] = cache[p][k]
  BY <1>2, <1>t
<1>5. Shape' /\ Grows
  BY <1>1, <1>3, <1>4, TasksStay DEF Shape
<1>6. call[n].progress # NULL /\ Sent(n, call[n].progress.task)
  BY <1>1 DEF CallIsTracked, CallIsOwn
<1>7. StoreIsOwn'
  <2>1. ASSUME NEW p \in Plugins, NEW k \in Keys PROVE For(k, cache[p][k])'
    <3>1. CASE p = Host(n) /\ k = KeyOf[n]
      BY <1>4, <1>6, <3>1 DEF For, Sent
    <3>2. CASE p # Host(n) \/ k # KeyOf[n]
      BY <1>1, <1>4, <3>2 DEF For, StoreIsOwn
    <3> QED BY <3>1, <3>2
  <2>2. \A k \in Keys : For(k, cm[CmKey(k)])'
    BY <1>1 DEF StoreIsOwn, For
  <2> QED BY <2>1, <2>2 DEF StoreIsOwn
<1>8. \A m \in Nodes : m # n => Untouched(m)
  <2> SUFFICES ASSUME NEW m \in Nodes, m # n PROVE Untouched(m)
    OBVIOUS
  <2>1. KeyOf[m] # KeyOf[n]
    BY DEF KeysApart
  <2> QED BY <1>3, <1>4, <1>t, <2>1 DEF Untouched, Agree, Cached
<1>c. Cached(n)' = v
  BY <1>4, <1>t DEF Cached
<1>9. CallIsOwn(n)'
  BY <1>1, <1>3, <1>6 DEF CallIsOwn, Honest, Sent
<1>10. CallIsTracked(n)'
  BY <1>1, <1>3, <1>6, <1>c, CalledNode DEF CallIsTracked, Tracks, Live
<1>11. \A m \in Nodes : CallIsOwn(m)' /\ CallIsTracked(m)'
  BY <1>1, <1>5, <1>8, <1>9, <1>10, OtherNode DEF PluginIndInv
<1>12. ASSUME Alone, NEW m \in scene.nodes PROVE Persisted(m)'
  <2>1. m \in Nodes /\ Persisted(m)
    BY <1>1, <1>12, SceneFacts DEF PluginIndInv, Shape
  <2>2. SameWrites
    BY <1>3 DEF SameWrites
  <2>3. CASE m # n
    BY <1>1, <1>5, <1>8, <2>1, <2>2, <2>3, OtherPersisted DEF PluginIndInv
  <2>4. CASE m = n
    <3>1. ~(node[n].reply.phase = "Running" /\ Live(node[n].reply.task))
      <4> SUFFICES ASSUME node[n].reply.phase = "Running", Live(node[n].reply.task) PROVE FALSE
        OBVIOUS
      <4>1. Tracks(n, node[n].reply.task) /\ call[n].pc = "poll"
        BY <2>1, <2>4 DEF Persisted
      <4>2. Tracks(n, call[n].progress.task) /\ ~Live(call[n].progress.task)
        BY <1>1, <4>1 DEF CallIsTracked
      <4> QED BY <4>1, <4>2 DEF Tracks
    <3>2. ~(node'[n].reply.phase = "Running" /\ Live(node[n].reply.task)')
      BY <3>1 DEF Live
    <3>3. r.phase = "Running" => Tracks(n, call[n].reply.task)'
      BY <1>3, <1>c DEF Tracks
    <3>4. \A x \in Nodes : call'[x].pc = "write" => call'[x].fresh
      BY <1>3, <2>1 DEF Persisted
    <3> QED BY <1>3, <2>4, <3>2, <3>3, <3>4 DEF Persisted
  <2> QED BY <2>3, <2>4
<1> QED BY <1>5, <1>7, <1>11, <1>12, Assemble

\* StoreTask, and the polls that end a task.
LEMMA StoreInvStep ==
  ASSUME KeysApart, PluginIndInv, NEW n \in Nodes,
         StoreTask(n) \/ PollTimeout(n) \/ PollTerminal(n)
  PROVE  PluginIndInv'
<1>1. Shape /\ CallIsOwn(n) /\ CallIsTracked(n)
  BY TypesAreShape DEF PluginIndInv
<1>2. /\ UNCHANGED <<scene, node, lock, cm, task, late, faults>>
      /\ call[n].pc \in {"store", "poll"}
  BY DEF StoreTask, PollTimeout, PollTerminal
<1>3. PICK x \in Progress : /\ x = call[n].progress /\ x # NULL /\ x \in Entry
                            /\ x.task \in Tasks /\ Sent(n, x.task)
  BY <1>1, <1>2, NotNull DEF CallIsTracked, CallIsOwn, Shape, CallRecs, Entry
<1>4. CASE StoreTask(n)
  <2>1. PICK r \in Replies : r = Reply("Running", "submitted", x.task)
    BY <1>3, IdleFacts
  <2>2. ToSync(n, x, r) /\ call[n].pc = "store" /\ r.phase = "Running" /\ r.task = x.task
    BY <1>3, <1>4, <2>1, IdleFacts DEF StoreTask
  <2>3. Honest(n, r)
    BY <1>3, <2>2, NotNull DEF Honest
  <2> QED BY <1>2, <1>3, <2>2, <2>3, ToSyncInv
<1>5. CASE PollTimeout(n)
  <2>1. PICK r \in Replies : r = Reply("Failed", "timeout", NULL)
    BY IdleFacts
  <2>2. ToSync(n, NULL, r) /\ call[n].pc = "poll" /\ r.phase = "Failed" /\ r.task = NULL
        /\ x.task \in late
    BY <1>3, <1>5, <2>1, IdleFacts DEF PollTimeout, IsTimedOut
  <2>3. Honest(n, r) /\ ~Live(call[n].progress.task) /\ NULL \in Entry
    BY <1>3, <2>2 DEF Honest, Live, Entry
  <2> QED BY <1>2, <2>2, <2>3, ToSyncInv
<1>6. CASE PollTerminal(n)
  <2>1. PICK r \in Replies : r = TaskToReply(x.task, task[x.task].state)
    BY <1>3, IdleFacts DEF TaskToReply
  <2>2. /\ ToSync(n, NULL, r) /\ call[n].pc = "poll" /\ r.phase \in {"Failed", "Succeeded"}
        /\ r.task = x.task /\ task[x.task].state \in Terminal
        /\ r.phase = "Succeeded" => task[x.task].state = "completed"
    BY <1>3, <1>6, <2>1, IdleFacts DEF PollTerminal, TaskToReply
  <2>3. Honest(n, r) /\ ~Live(call[n].progress.task) /\ NULL \in Entry
    BY <1>3, <2>2, NotNull DEF Honest, Live, Entry, Terminal
  <2> QED BY <1>2, <2>2, <2>3, ToSyncInv
<1> QED BY <1>4, <1>5, <1>6

\* The way to the ConfigMap loses nothing, where keys are apart ...
LEMMA MarshalFacts ==
  ASSUME KeysApart, NEW c \in [Keys -> Entry]
  PROVE  /\ Marshalled(c) \in [DataKeys -> Entry]
         /\ \A k \in Keys : Marshalled(c)[CmKey(k)] = c[k]
<1> DEFINE ks(d) == {k \in Keys : CmKey(k) = d /\ c[k] # NULL}
           v(d) == IF ks(d) = {} THEN NULL ELSE c[CHOOSE k \in ks(d) : TRUE]
<1>1. Marshalled(c) = [d \in DataKeys |-> v(d)]
  BY DEF Marshalled
<1>2. ASSUME NEW d \in DataKeys PROVE v(d) \in Entry
  <2>1. CASE ks(d) = {}
    BY <2>1 DEF Entry
  <2>2. CASE ks(d) # {}
    <3>1. (CHOOSE k \in ks(d) : TRUE) \in ks(d)
      BY <2>2
    <3> QED BY <2>2, <3>1
  <2> QED BY <2>1, <2>2
<1>3. ASSUME NEW k \in Keys PROVE v(CmKey(k)) = c[k]
  <2>1. \A j \in ks(CmKey(k)) : j = k
    BY DEF KeysApart
  <2>2. CASE c[k] = NULL
    <3>1. ks(CmKey(k)) = {}
      BY <2>1, <2>2
    <3> QED BY <2>2, <3>1
  <2>3. CASE c[k] # NULL
    <3>1. k \in ks(CmKey(k))
      BY <2>3
    <3>2. (CHOOSE j \in ks(CmKey(k)) : TRUE) \in ks(CmKey(k))
      BY <3>1
    <3>3. (CHOOSE j \in ks(CmKey(k)) : TRUE) = k
      BY <2>1, <3>2
    <3> QED BY <3>1, <3>3
  <2> QED BY <2>2, <2>3
<1> HIDE DEF v
<1>4. \A k \in Keys : CmKey(k) \in DataKeys
  BY DEF DataKeys
<1> QED BY <1>1, <1>2, <1>3, <1>4

\* ... and back.
LEMMA RestoredFacts ==
  ASSUME KeysApart, cm \in [DataKeys -> Entry]
  PROVE  /\ Restored \in [Keys -> Entry]
         /\ \A k \in Keys : Restored[k] = cm[CmKey(k)]
<1> DEFINE ds(k) == {d \in DataKeys : CmKeyToTaskKey(d) = k}
           v(k) == IF ds(k) = {} THEN NULL ELSE cm[CHOOSE d \in ds(k) : TRUE]
<1>1. Restored = [k \in Keys |-> v(k)]
  BY DEF Restored
<1>2. ASSUME NEW k \in Keys PROVE v(k) = cm[CmKey(k)] /\ CmKey(k) \in DataKeys
  <2>1. CmKey(k) \in ds(k)
    BY DEF KeysApart, DataKeys
  <2>2. \A d \in ds(k) : d = CmKey(k)
    BY DEF KeysApart, DataKeys
  <2>3. (CHOOSE d \in ds(k) : TRUE) \in ds(k)
    BY <2>1
  <2>4. (CHOOSE d \in ds(k) : TRUE) = CmKey(k)
    BY <2>2, <2>3
  <2> QED BY <2>1, <2>4
<1> HIDE DEF v
<1> QED BY <1>1, <1>2

\* The mutex is taken and the cache copied.
LEMMA SyncBeginInv ==
  ASSUME PluginIndInv, NEW n \in Nodes, SyncBegin(n)
  PROVE  PluginIndInv'
<1>1. Shape /\ CallIsOwn(n) /\ CallIsTracked(n) /\ StoreIsOwn
  BY TypesAreShape DEF PluginIndInv
<1>t. /\ call \in [Nodes -> CallRecs] /\ cache \in [Plugins -> [Keys -> Entry]]
      /\ lock \in [Plugins -> Nodes \cup {NULL}]
      /\ \A m \in Nodes : Host(m) \in Plugins /\ KeyOf[m] \in Keys
  BY <1>1, SceneFacts DEF Shape
<1>2. /\ call[n].pc = "sync" /\ lock[Host(n)] = NULL
      /\ UNCHANGED <<scene, node, cache, cm, task, late, faults>>
      /\ lock' = [lock EXCEPT ![Host(n)] = n]
      /\ call' = [call EXCEPT ![n].pc = "write", ![n].snap = cache[Host(n)], ![n].fresh = TRUE]
  BY DEF SyncBegin
<1>3. /\ call' \in [Nodes -> CallRecs] /\ call'[n].pc = "write" /\ call'[n].reply = call[n].reply
      /\ call'[n].progress = call[n].progress /\ call'[n].snap = cache[Host(n)]
      /\ call'[n].fresh = TRUE
      /\ \A m \in Nodes : m # n => call'[m] = call[m]
  <2> DEFINE s == cache[Host(n)]
  <2>1. s \in [Keys -> Entry] \cup {NULL}
    BY <1>t
  <2>2. call' = [call EXCEPT ![n].pc = "write", ![n].snap = s, ![n].fresh = TRUE]
    BY <1>2
  <2> HIDE DEF s
  <2>3. PICK T : T = [Keys -> Entry] \cup {NULL}
    OBVIOUS
  <2>4. CallRecs = [pc : Pcs, cand : 1..Candidates, progress : Entry, reply : Replies,
                    fresh : BOOLEAN, snap : T] /\ s \in T
    BY <2>1, <2>3 DEF CallRecs
  <2>5. /\ call' \in [Nodes -> CallRecs] /\ call'[n].pc = "write" /\ call'[n].reply = call[n].reply
        /\ call'[n].progress = call[n].progress /\ call'[n].snap = s
        /\ call'[n].fresh = TRUE
        /\ \A m \in Nodes : m # n => call'[m] = call[m]
    BY <1>t, <2>2, <2>4 DEF Pcs
  <2> QED BY <2>5 DEF s
<1>4. lock' \in [Plugins -> Nodes \cup {NULL}] /\ lock'[Host(n)] = n
      /\ \A p \in Plugins : p # Host(n) => lock'[p] = lock[p]
  BY <1>2, <1>t
<1>5. Shape' /\ Grows
  BY <1>1, <1>2, <1>3, <1>4, TasksStay DEF Shape
<1>6. \A m \in Nodes : call[m].pc = "write" => Host(m) # Host(n)
  <2>1. \A m \in Nodes : call[m].pc = "write" => lock[Host(m)] = m /\ m # NULL
    BY NotNull DEF PluginIndInv, CallIsTracked
  <2> QED BY <1>2, <2>1
<1>7. \A m \in Nodes : Cached(m)' = Cached(m) /\ (m # n => Untouched(m))
  BY <1>2, <1>3, <1>4, <1>6, <1>t DEF Untouched, Agree, Cached, Host
<1>8. StoreIsOwn'
  BY <1>1, <1>2 DEF StoreIsOwn, For
<1>9. CallIsOwn(n)'
  <2>1. \A k \in Keys : For(k, call[n].snap[k])'
    BY <1>1, <1>2, <1>3, <1>t DEF StoreIsOwn, For
  <2> QED BY <1>1, <1>2, <1>3, <2>1 DEF CallIsOwn, Honest, Sent
<1>10. CallIsTracked(n)'
  <2>1. Host(n)' = Host(n)
    BY <1>2 DEF Host
  <2> QED BY <1>1, <1>2, <1>3, <1>4, <1>7, <1>t, <2>1, CalledNode DEF CallIsTracked, Tracks, Live
<1>11. \A m \in Nodes : CallIsOwn(m)' /\ CallIsTracked(m)'
  BY <1>1, <1>2, <1>5, <1>7, <1>9, <1>10, OtherNode DEF PluginIndInv
<1>12. ASSUME Alone, NEW m \in scene.nodes PROVE Persisted(m)'
  <2>1. m \in Nodes /\ n \in scene.nodes /\ Persisted(m) /\ Persisted(n) /\ Host(m) = Host(n)
        /\ scene.nodes \subseteq Nodes
    BY <1>1, <1>2, <1>12, SceneFacts, CalledNode DEF PluginIndInv, Shape, Alone
  <2>2. \A x \in Nodes : call'[x].pc = "write" => x = n
    BY <1>2, <1>3, <1>6, <1>12, <2>1, CalledNode DEF Alone
  <2>3. Agree(call[n].snap[KeyOf[m]], Cached(m))'
    <3>1. call'[n].snap[KeyOf[m]] = Cached(m)
      BY <1>3, <2>1 DEF Cached
    <3> QED BY <1>7, <2>1, <3>1 DEF Agree
  <2>4. CASE m = n
    <3>1. ~(node'[n].reply.phase = "Running" /\ Live(node[n].reply.task)')
      BY <1>2, <2>1 DEF Persisted, Live
    <3>2. call'[n].reply.phase = "Running" /\ Live(call[n].reply.task)' =>
            Tracks(n, call[n].reply.task)'
      BY <1>2, <1>3, <1>7, <2>1 DEF Persisted, Live, Tracks
    <3> QED BY <1>3, <2>2, <2>3, <2>4, <3>1, <3>2 DEF Persisted
  <2>5. CASE m # n
    <3>1. call'[m] = call[m] /\ Cached(m)' = Cached(m)
      BY <1>3, <1>7, <2>1, <2>5
    <3>2. call[m].pc \notin {"sync", "write"} => Agree(cm[CmKey(KeyOf[m])], Cached(m))'
      BY <1>2, <2>1, <3>1 DEF Persisted, Agree
    <3>3. node'[m].reply.phase = "Running" /\ Live(node[m].reply.task)' =>
            Tracks(m, node[m].reply.task)' /\ call'[m].pc \notin {"send", "store", "sync", "write"}
      BY <1>2, <2>1, <3>1 DEF Persisted, Live, Tracks
    <3>4. call'[m].pc \in {"sync", "write", "reply"} /\ call'[m].reply.phase = "Running"
            /\ Live(call[m].reply.task)' => Tracks(m, call[m].reply.task)'
      BY <1>2, <2>1, <3>1 DEF Persisted, Live, Tracks
    <3> QED BY <1>3, <2>2, <2>3, <3>1, <3>2, <3>3, <3>4 DEF Persisted
  <2> QED BY <2>4, <2>5
<1> QED BY <1>2, <1>5, <1>8, <1>11, <1>12, Assemble

\* The whole of the copy replaces the ConfigMap, unless another process wrote it.
LEMMA SyncWriteInv ==
  ASSUME KeysApart, PluginIndInv, NEW n \in Nodes, SyncWrite(n)
  PROVE  PluginIndInv'
<1>1. Shape /\ CallIsOwn(n) /\ CallIsTracked(n) /\ StoreIsOwn
  BY TypesAreShape DEF PluginIndInv
<1> DEFINE r == call[n].reply
           done == [Idle EXCEPT !.pc = "reply", !.reply = r]
<1>2. /\ call[n].pc = "write" /\ UNCHANGED <<scene, node, cache, task, late, faults>>
      /\ lock' = [lock EXCEPT ![Host(n)] = NULL]
      /\ cm' = IF call[n].fresh THEN Marshalled(call[n].snap) ELSE cm
      /\ call' = [m \in Nodes |->
                    IF m = n THEN done
                    ELSE IF call[n].fresh /\ call[m].pc = "write"
                         THEN [call[m] EXCEPT !.fresh = FALSE] ELSE call[m]]
  BY DEF SyncWrite
<1>t. /\ call \in [Nodes -> CallRecs] /\ cache \in [Plugins -> [Keys -> Entry]]
      /\ lock \in [Plugins -> Nodes \cup {NULL}] /\ cm \in [DataKeys -> Entry]
      /\ \A m \in Nodes : Host(m) \in Plugins /\ KeyOf[m] \in Keys /\ Host(m)' = Host(m)
      /\ call[n].snap \in [Keys -> Entry] /\ lock[Host(n)] = n
  BY <1>1, <1>2, SceneFacts DEF Shape, CallIsTracked, Host
<1>d. done \in CallRecs /\ done.pc = "reply" /\ done.reply = r /\ done.progress = NULL
  <2>1. r \in Replies
    BY <1>t DEF CallRecs
  <2> HIDE DEF r
  <2> QED BY <2>1, IdleFacts DEF CallRecs, Pcs
<1> HIDE DEF done
<1>3. ASSUME NEW m \in Nodes, m # n
      PROVE  /\ call'[m] \in CallRecs /\ call'[m].pc = call[m].pc
             /\ call'[m].progress = call[m].progress /\ call'[m].reply = call[m].reply
             /\ call'[m].snap = call[m].snap
  <2> DEFINE c == [call[m] EXCEPT !.fresh = FALSE]
  <2>1. /\ c \in CallRecs /\ c.pc = call[m].pc /\ c.progress = call[m].progress
        /\ c.reply = call[m].reply /\ c.snap = call[m].snap
    <3>1. PICK T : T = [Keys -> Entry] \cup {NULL}
      OBVIOUS
    <3>2. CallRecs = [pc : Pcs, cand : 1..Candidates, progress : Entry, reply : Replies,
                      fresh : BOOLEAN, snap : T] /\ call[m] \in CallRecs
      BY <1>t, <3>1 DEF CallRecs
    <3> QED BY <3>2
  <2>2. call'[m] = IF call[n].fresh /\ call[m].pc = "write" THEN c ELSE call[m]
    BY <1>2, <1>3
  <2> HIDE DEF c
  <2> QED BY <1>t, <2>1, <2>2
<1>4. call'[n] = done /\ call' \in [Nodes -> CallRecs]
  <2>1. call'[n] = done
    BY <1>2
  <2>2. \A m \in Nodes : call'[m] \in CallRecs
    BY <1>3, <1>d, <2>1
  <2>3. call' = [m \in Nodes |-> call'[m]]
    BY <1>2
  <2> QED BY <2>1, <2>2, <2>3
<1>5. lock' \in [Plugins -> Nodes \cup {NULL}]
      /\ \A p \in Plugins : p # Host(n) => lock'[p] = lock[p]
  BY <1>2, <1>t
<1>6. \A m \in Nodes : m # n /\ call[m].pc = "write" => Host(m) # Host(n)
  <2>1. \A m \in Nodes : call[m].pc = "write" => lock[Host(m)] = m
    BY DEF PluginIndInv, CallIsTracked
  <2> QED BY <1>t, <2>1
<1>7. cm' \in [DataKeys -> Entry]
      /\ \A k \in Keys : cm'[CmKey(k)] = IF call[n].fresh THEN call[n].snap[k] ELSE cm[CmKey(k)]
  BY <1>2, <1>t, MarshalFacts
<1>8. Shape' /\ Grows
  BY <1>1, <1>2, <1>4, <1>5, <1>7, TasksStay DEF Shape
<1>9. StoreIsOwn'
  <2>1. \A k \in Keys : For(k, cm[CmKey(k)])'
    BY <1>1, <1>2, <1>7 DEF StoreIsOwn, For, CallIsOwn
  <2> QED BY <1>1, <1>2, <2>1 DEF StoreIsOwn, For
<1>10. \A m \in Nodes : Cached(m)' = Cached(m) /\ (m # n => Untouched(m))
  BY <1>2, <1>3, <1>5, <1>6, <1>t DEF Untouched, Agree, Cached
<1>11. CallIsOwn(n)' /\ CallIsTracked(n)'
  BY <1>1, <1>2, <1>4, <1>d, CalledNode DEF CallIsOwn, CallIsTracked, Honest, Sent
<1>12. \A m \in Nodes : CallIsOwn(m)' /\ CallIsTracked(m)'
  BY <1>1, <1>2, <1>8, <1>10, <1>11, OtherNode DEF PluginIndInv
<1>13. ASSUME Alone, NEW m \in scene.nodes PROVE Persisted(m)'
  <2>1. m \in Nodes /\ n \in scene.nodes /\ Persisted(m)
    BY <1>1, <1>2, <1>13, SceneFacts, CalledNode DEF PluginIndInv, Shape
  <2>2. \A x \in Nodes : call[x].pc = "write" => x = n
    BY <1>2, <1>6, <1>13, <2>1, CalledNode DEF Alone
  <2>3. \A x \in Nodes : call'[x].pc # "write"
    BY <1>3, <1>4, <1>d, <2>2
  <2>4. call[m].pc # "sync" => Agree(cm[CmKey(KeyOf[m])], Cached(m))'
    <3>1. call[n].fresh /\ (call[m].pc # "sync" => Agree(call[n].snap[KeyOf[m]], Cached(m)))
      BY <1>2, <2>1 DEF Persisted
    <3> QED BY <1>7, <1>10, <1>t, <2>1, <3>1 DEF Agree
  <2>5. CASE m = n
    <3>1. ~(node'[n].reply.phase = "Running" /\ Live(node[n].reply.task)')
      BY <1>2, <2>1, <2>5 DEF Persisted, Live
    <3>2. call'[n].reply.phase = "Running" /\ Live(call[n].reply.task)' =>
            Tracks(n, call[n].reply.task)'
      BY <1>2, <1>4, <1>10, <1>d, <2>1, <2>5 DEF Persisted, Live, Tracks
    <3> QED BY <1>2, <2>3, <2>4, <2>5, <3>1, <3>2 DEF Persisted
  <2>6. CASE m # n
    <3>1. /\ call'[m].pc = call[m].pc /\ call'[m].reply = call[m].reply /\ node'[m] = node[m]
          /\ Cached(m)' = Cached(m)
      BY <1>2, <1>3, <1>10, <2>1, <2>6
    <3>2. call'[m].pc \notin {"sync", "write"} => Agree(cm[CmKey(KeyOf[m])], Cached(m))'
      BY <2>4, <3>1
    <3>3. node'[m].reply.phase = "Running" /\ Live(node[m].reply.task)' =>
            Tracks(m, node[m].reply.task)' /\ call'[m].pc \notin {"send", "store", "sync", "write"}
      BY <1>2, <2>1, <3>1 DEF Persisted, Live, Tracks
    <3>4. call'[m].pc \in {"sync", "write", "reply"} /\ call'[m].reply.phase = "Running"
            /\ Live(call[m].reply.task)' => Tracks(m, call[m].reply.task)'
      BY <1>2, <2>1, <3>1 DEF Persisted, Live, Tracks
    <3> QED BY <2>3, <3>2, <3>3, <3>4 DEF Persisted
  <2> QED BY <2>5, <2>6
<1> QED BY <1>2, <1>8, <1>9, <1>12, <1>13, Assemble

\* The write fails: a failure, so the process is not alone.
LEMMA SyncFailsInv ==
  ASSUME PluginIndInv, NEW n \in Nodes, SyncFails(n)
  PROVE  PluginIndInv'
<1>1. Shape /\ CallIsOwn(n) /\ CallIsTracked(n) /\ StoreIsOwn
  BY TypesAreShape DEF PluginIndInv
<1>2. /\ call[n].pc = "write" /\ UNCHANGED <<scene, node, cache, cm, task, late>>
      /\ lock' = [lock EXCEPT ![Host(n)] = NULL] /\ Answer(n, call[n].reply) /\ Fault("sync")
  BY DEF SyncFails
<1>t. /\ call \in [Nodes -> CallRecs] /\ lock \in [Plugins -> Nodes \cup {NULL}]
      /\ \A m \in Nodes : Host(m) \in Plugins /\ KeyOf[m] \in Keys /\ Host(m)' = Host(m)
      /\ call[n].reply \in Replies /\ lock[Host(n)] = n
  BY <1>1, <1>2, SceneFacts DEF Shape, CallIsTracked, Host, CallRecs
<1>3. /\ call' \in [Nodes -> CallRecs] /\ call'[n].pc = "reply" /\ call'[n].progress = NULL
      /\ call'[n].reply = call[n].reply /\ \A m \in Nodes : m # n => call'[m] = call[m]
  BY <1>1, <1>2, <1>t, AnswerFacts
<1>4. lock' \in [Plugins -> Nodes \cup {NULL}]
      /\ \A p \in Plugins : p # Host(n) => lock'[p] = lock[p]
  BY <1>2, <1>t
<1>5. \A m \in Nodes : m # n /\ call[m].pc = "write" => Host(m) # Host(n)
  <2>1. \A m \in Nodes : call[m].pc = "write" => lock[Host(m)] = m
    BY DEF PluginIndInv, CallIsTracked
  <2> QED BY <1>t, <2>1
<1>6. faults' \in Nat /\ faults' <= scene.faults /\ "sync" \in scene.kinds
  BY <1>1, <1>2, FaultFacts
<1>7. Shape' /\ Grows
  BY <1>1, <1>2, <1>3, <1>4, <1>6, TasksStay DEF Shape
<1>8. StoreIsOwn' /\ \A m \in Nodes : m # n => Untouched(m)
  BY <1>1, <1>2, <1>3, <1>4, <1>5, <1>t DEF Untouched, Agree, Cached, StoreIsOwn, For
<1>9. CallIsOwn(n)' /\ CallIsTracked(n)'
  BY <1>1, <1>2, <1>3, CalledNode DEF CallIsOwn, CallIsTracked, Honest, Sent
<1>10. \A m \in Nodes : CallIsOwn(m)' /\ CallIsTracked(m)'
  BY <1>1, <1>2, <1>7, <1>8, <1>9, OtherNode DEF PluginIndInv
<1> QED BY <1>2, <1>6, <1>7, <1>8, <1>10, Assemble DEF Alone

\* A plugin restarts with a cache of entries of their own keys, and with the
\* ConfigMap's where it is alone.
LEMMA RestartedInv ==
  ASSUME PluginIndInv, NEW p \in Plugins, NEW loaded \in [Keys -> Entry], Restarted(p, loaded),
         faults' \in Nat, faults' <= scene.faults,
         \A k \in Keys : For(k, loaded[k]),
         Alone => \A k \in Keys : loaded[k] = cm[CmKey(k)]
  PROVE  PluginIndInv'
<1>1. Shape /\ StoreIsOwn
  BY TypesAreShape DEF PluginIndInv
<1>2. /\ cache' = [cache EXCEPT ![p] = loaded] /\ lock' = [lock EXCEPT ![p] = NULL]
      /\ call' = [n \in Nodes |-> IF Host(n) = p THEN Idle ELSE call[n]]
      /\ UNCHANGED <<scene, node, cm, task, late>>
  BY DEF Restarted
<1>t. /\ call \in [Nodes -> CallRecs] /\ cache \in [Plugins -> [Keys -> Entry]]
      /\ lock \in [Plugins -> Nodes \cup {NULL}]
      /\ \A m \in Nodes : Host(m) \in Plugins /\ KeyOf[m] \in Keys /\ Host(m)' = Host(m)
  BY <1>1, <1>2, SceneFacts DEF Shape, Host
<1>3. /\ cache' \in [Plugins -> [Keys -> Entry]] /\ cache'[p] = loaded
      /\ \A q \in Plugins : q # p => cache'[q] = cache[q]
  BY <1>2, <1>t
<1>4. /\ lock' \in [Plugins -> Nodes \cup {NULL}] /\ \A q \in Plugins : q # p => lock'[q] = lock[q]
  BY <1>2, <1>t
<1>5. /\ call' \in [Nodes -> CallRecs]
      /\ \A m \in Nodes : call'[m] = IF Host(m) = p THEN Idle ELSE call[m]
  BY <1>2, <1>t, IdleFacts
<1>6. Shape' /\ Grows
  BY <1>1, <1>2, <1>3, <1>4, <1>5, TasksStay DEF Shape
<1>7. StoreIsOwn'
  <2>1. ASSUME NEW q \in Plugins, NEW k \in Keys PROVE For(k, cache[q][k])'
    BY <1>1, <1>2, <1>3 DEF For, StoreIsOwn
  <2> QED BY <1>1, <1>2, <2>1 DEF StoreIsOwn, For
<1>8. \A m \in Nodes : Host(m) # p => Untouched(m)
  BY <1>2, <1>3, <1>4, <1>5, <1>t DEF Untouched, Agree, Cached
<1>9. ASSUME NEW m \in Nodes PROVE CallIsOwn(m)' /\ CallIsTracked(m)'
  <2>1. CASE Host(m) # p
    BY <1>1, <1>2, <1>6, <1>8, <2>1, OtherNode DEF PluginIndInv
  <2>2. CASE Host(m) = p
    <3>1. call'[m] = Idle /\ CallIsOwn(m) /\ CallIsTracked(m)
      BY <1>5, <2>2 DEF PluginIndInv
    <3> QED BY <1>2, <3>1, IdleFacts DEF CallIsOwn, CallIsTracked, Honest, Sent
  <2> QED BY <2>1, <2>2
<1>10. ASSUME Alone, NEW m \in scene.nodes PROVE Persisted(m)'
  <2>1. m \in Nodes /\ Persisted(m) /\ CallIsOwn(m)
    BY <1>1, <1>10, SceneFacts DEF PluginIndInv, Shape
  <2>2. CASE Host(m) # p
    <3>1. SameWrites
      BY <1>5, IdleFacts DEF SameWrites
    <3> QED BY <1>1, <1>2, <1>6, <1>8, <2>1, <2>2, <3>1, OtherPersisted
  <2>3. CASE Host(m) = p
    <3>1. call'[m] = Idle /\ Cached(m)' = cm[CmKey(KeyOf[m])]
      BY <1>3, <1>5, <1>10, <1>t, <2>1, <2>3 DEF Cached
    <3>2. \A x \in Nodes : call'[x].pc # "write"
      BY <1>5, <1>10, <2>3, IdleFacts, CalledNode DEF Alone
    <3>3. Agree(cm[CmKey(KeyOf[m])], Cached(m))'
      BY <1>2, <3>1 DEF Agree
    <3>4. ASSUME node'[m].reply.phase = "Running", Live(node[m].reply.task)'
          PROVE  Tracks(m, node[m].reply.task)'
      <4>1. /\ Tracks(m, node[m].reply.task)
            /\ call[m].pc \notin {"sync", "write"}
        BY <1>2, <2>1, <3>4 DEF Persisted, Live
      <4>2. Agree(cm[CmKey(KeyOf[m])], Cached(m))
        BY <2>1, <4>1 DEF Persisted
      <4> QED BY <1>2, <3>1, <4>1, <4>2 DEF Tracks, Agree
    <3> QED BY <3>1, <3>2, <3>3, <3>4, IdleFacts DEF Persisted
  <2> QED BY <2>2, <2>3
<1> QED BY <1>2, <1>6, <1>7, <1>9, <1>10, Assemble

\* So does a restart, whether or not the ConfigMap could be read.
LEMMA RestartInv ==
  ASSUME KeysApart, PluginIndInv, NEW p \in Plugins, Restart(p) \/ RestartBlind(p)
  PROVE  PluginIndInv'
<1>1. Shape /\ StoreIsOwn
  BY TypesAreShape DEF PluginIndInv
<1>2. CASE Restart(p)
  <2>1. Restarted(p, Restored) /\ faults' \in Nat /\ faults' <= scene.faults
    BY <1>1, <1>2, FaultFacts DEF Restart
  <2>2. PICK x \in [Keys -> Entry] : x = Restored /\ \A k \in Keys : x[k] = cm[CmKey(k)]
    BY <1>1, RestoredFacts DEF Shape
  <2>3. \A k \in Keys : For(k, x[k])
    BY <1>1, <2>2 DEF StoreIsOwn
  <2> QED BY <2>1, <2>2, <2>3, RestartedInv
<1>3. CASE RestartBlind(p)
  <2>1. PICK x \in [Keys -> Entry] : x = [k \in Keys |-> NULL]
    BY DEF Entry
  <2>2. Restarted(p, x) /\ faults' \in Nat /\ faults' <= scene.faults /\ ~Alone
    BY <1>1, <1>3, <2>1, FaultFacts DEF RestartBlind, Alone
  <2>3. \A k \in Keys : For(k, x[k])
    BY <2>1 DEF For
  <2> QED BY <2>2, <2>3, RestartedInv
<1> QED BY <1>2, <1>3

-----------------------------------------------------------------------------
(* Every step, and the theorems. *)

\* The first state.
LEMMA PluginStart == Init => PluginIndInv
<1> SUFFICES ASSUME Init PROVE PluginIndInv
  OBVIOUS
<1>1. /\ scene \in Scenes /\ call = [n \in Nodes |-> Idle]
      /\ cache = [p \in Plugins |-> [k \in Keys |-> NULL]]
      /\ lock = [p \in Plugins |-> NULL] /\ cm = [d \in DataKeys |-> NULL]
      /\ task = [t \in Tasks |-> NULL] /\ late = {} /\ faults = 0
  BY DEF Init
<1> DEFINE x == [reply |-> Idle.reply, retries |-> 0]
<1>2. node = [n \in Nodes |-> x]
  BY DEF Init
<1>3. x \in NodeRecs /\ x.reply = Idle.reply /\ x.retries = 0
  BY IdleFacts DEF NodeRecs
<1> HIDE DEF x
<1>4. /\ scene.faults \in Nat /\ scene.retries \in Nat /\ scene.nodes \subseteq Nodes
      /\ \A n \in Nodes : Host(n) \in Plugins /\ KeyOf[n] \in Keys
      /\ \A k \in Keys : CmKey(k) \in DataKeys
  BY <1>1, SceneFacts
<1>5. \A n \in Nodes : call[n] = Idle /\ node[n] = x /\ Cached(n) = NULL
                       /\ cm[CmKey(KeyOf[n])] = NULL
  BY <1>1, <1>2, <1>4 DEF Cached
<1>6. Shape
  <2>1. call \in [Nodes -> CallRecs] /\ node \in [Nodes -> NodeRecs]
    BY <1>1, <1>2, <1>3, IdleFacts
  <2>2. \A n \in Nodes : node[n].retries <= scene.retries
    BY <1>3, <1>4, <1>5
  <2> QED BY <1>1, <1>4, <2>1, <2>2 DEF Shape, Entry
<1>7. StoreIsOwn
  BY <1>1, <1>4 DEF StoreIsOwn, For
<1>8. \A n \in Nodes : CallIsOwn(n) /\ CallIsTracked(n) /\ Persisted(n)
  BY <1>3, <1>5, IdleFacts DEF CallIsOwn, CallIsTracked, Persisted, Honest, Agree
<1>9. HoldsProgress
  BY <1>8 DEF CallIsTracked, HoldsProgress
<1> QED BY <1>4, <1>6, <1>7, <1>8, <1>9, TypesAreShape DEF PluginIndInv

\* Every step keeps the invariant.
LEMMA PluginStep ==
  ASSUME KeysApart, PluginIndInv, [Next]_vars
  PROVE  PluginIndInv'
<1>1. Shape
  BY TypesAreShape DEF PluginIndInv
<1>2. CASE UNCHANGED vars
  <2>1. UNCHANGED <<scene, node, call, cache, lock, cm, task, late, faults>>
    BY <1>2 DEF vars
  <2>2. Shape' /\ Grows
    BY <1>1, <2>1, TasksStay DEF Shape
  <2> QED BY <2>1, <2>2, TimeInv
<1>3. CASE \E n \in Nodes : ExecuteTemplate(n)
  BY <1>3, ExecuteInv
<1>4. CASE \E n \in Nodes : SendStep(n)
  <2>1. PICK n \in Nodes, t \in Tasks, s \in States : SendOk(n, t, s)
    BY <1>4 DEF SendStep, States
  <2> QED BY <2>1, SendOkInv
<1>5. CASE \E n \in Nodes : SendFails(n) \/ SendNoTask(n) \/ Refuse(n)
                            \/ \E t \in Tasks : AnswerLost(n, t)
  BY <1>5, SendInv
<1>6. CASE \E n \in Nodes : StoreTask(n) \/ PollTimeout(n) \/ PollTerminal(n)
  BY <1>6, StoreInvStep
<1>7. CASE \E n \in Nodes : SyncBegin(n) \/ SyncWrite(n) \/ SyncFails(n)
  BY <1>7, SyncBeginInv, SyncWriteInv, SyncFailsInv
<1>8. CASE \E n \in Nodes : PollNoClient(n) \/ PollError(n) \/ PollRunning(n)
  BY <1>8, PollInv
<1>9. CASE \E n \in Nodes : Deliver(n) \/ ReplyLost(n) \/ RetryNode(n)
  BY <1>9, ReplyInv
<1>10. CASE \E p \in Plugins : Restart(p) \/ RestartBlind(p)
  BY <1>10, RestartInv
<1>11. CASE \E t \in Tasks : Expire(t) \/ \E s \in Terminal : TaskEnds(t, s)
  <2>1. PICK t \in Tasks : Expire(t) \/ \E s \in Terminal : TaskEnds(t, s)
    BY <1>11
  <2>2. UNCHANGED <<scene, node, call, cache, lock, cm, faults>>
    BY <2>1 DEF Expire, TaskEnds
  <2>3. task \in [Tasks -> TaskRecs \cup {NULL}] /\ late \subseteq Tasks
    BY <1>1 DEF Shape
  <2>4. CASE Expire(t)
    <3>1. task' = task /\ late' = late \cup {t}
      BY <2>4 DEF Expire
    <3>2. Shape' /\ Grows
      BY <1>1, <2>2, <3>1 DEF Shape, Grows
    <3> QED BY <2>2, <3>2, TimeInv
  <2>5. CASE \E s \in Terminal : TaskEnds(t, s)
    <3>1. PICK s \in Terminal : /\ task[t] # NULL /\ task[t].state = "working"
                                /\ task' = [task EXCEPT ![t].state = s] /\ late' = late
      BY <2>5 DEF TaskEnds
    <3>2. task[t] \in TaskRecs /\ s \in States
      BY <2>3, <3>1 DEF States
    <3> DEFINE x == [task[t] EXCEPT !.state = s]
    <3>3. x \in TaskRecs /\ x.node = task[t].node
      BY <3>2 DEF TaskRecs
    <3>4. task' = [task EXCEPT ![t] = x]
      BY <2>3, <3>1
    <3> HIDE DEF x
    <3>5. task' \in [Tasks -> TaskRecs \cup {NULL}] /\ task'[t] = x /\ x # NULL
          /\ \A u \in Tasks : u # t => task'[u] = task[u]
      BY <2>3, <3>3, <3>4, NotNull
    <3>6. Grows
      BY <3>1, <3>3, <3>5 DEF Grows, Terminal
    <3>7. Shape'
      BY <1>1, <2>2, <3>1, <3>5 DEF Shape
    <3> QED BY <2>2, <3>6, <3>7, TimeInv
  <2> QED BY <2>1, <2>4, <2>5
<1> QED BY <1>2, <1>3, <1>4, <1>5, <1>6, <1>7, <1>8, <1>9, <1>10, <1>11 DEF Next, PollStep

\* The inductive invariant holds in every state.
LEMMA PluginAlways ==
  ASSUME KeysApart
  PROVE  Spec => []PluginIndInv
<1>1. PluginIndInv /\ [Next]_vars => PluginIndInv'
  BY PluginStep
<1> QED BY <1>1, PluginStart, PTL DEF Spec

\* Where every node has a key of its own, a node that succeeded hands on the output of
\* a completed task that was sent for that very node: no restart, lost answer, stale
\* ConfigMap or timeout ever mixes two nodes' tasks up.
THEOREM ResultsAreOwn ==
  ASSUME KeysApart
  PROVE  Spec => []ResultIsOwn
<1>1. PluginIndInv => ResultIsOwn
  BY DEF PluginIndInv, CallIsOwn, Honest, Sent, ResultIsOwn
<1> QED BY <1>1, PluginAlways, PTL

\* Where keys are apart, one process serves the namespace and nothing else fails, the
\* store holds every live task that Argo was told is running, whenever it restarted.
THEOREM StoreTracks ==
  ASSUME KeysApart
  PROVE  Spec => []StoreInv
<1>1. PluginIndInv => StoreInv
  <2> SUFFICES ASSUME PluginIndInv PROVE RunningIsTracked
    BY DEF PluginIndInv, StoreInv
  <2>1. ASSUME Alone, NEW n \in Nodes, node[n].reply.phase = "Running",
               Live(node[n].reply.task)
        PROVE  Tracks(n, node[n].reply.task)
    <3>1. n \in scene.nodes
      BY <2>1 DEF PluginIndInv, CallIsTracked
    <3> QED BY <2>1, <3>1 DEF PluginIndInv, Persisted
  <2> QED BY <2>1 DEF RunningIsTracked, Alone, Tracks
<1> QED BY <1>1, PluginAlways, PTL

-----------------------------------------------------------------------------
(* The tasks nobody knows of. *)

\* A store entry or a call knows of task t, sent for key k.
Knows(k, t) ==
  \/ \E p \in Plugins : cache[p][k] # NULL /\ cache[p][k].task = t
  \/ \E n \in Nodes : call[n].progress # NULL /\ call[n].progress.task = t

\* Task t of key k runs within its timeout.
Runs(k, t) == Live(t) /\ KeyOf[task[t].node] = k

\* What was known stays so, but for the tasks of S, and what is new is known.
NothingLost(k, S) ==
  \A t \in Tasks \ S :
    /\ Runs(k, t) /\ Knows(k, t) => Knows(k, t)'
    /\ task[t] = NULL /\ Live(t)' => Knows(k, t)'

\* Then every new orphan is one of S.
LEMMA NewOrphans ==
  ASSUME Shape, Shape', Grows, NEW k \in Keys, NEW S, NothingLost(k, S)
  PROVE  Orphans(k)' \subseteq Orphans(k) \cup S
<1>1. \A t : t \in Orphans(k) <=> t \in Tasks /\ Runs(k, t) /\ ~Knows(k, t)
  BY DEF Orphans, Runs, Knows
<1>2. \A t : t \in Orphans(k)' <=> t \in Tasks /\ Runs(k, t)' /\ ~Knows(k, t)'
  BY DEF Orphans, Runs, Knows
<1> SUFFICES ASSUME NEW t \in Tasks, t \notin S, Runs(k, t)', ~Knows(k, t)'
             PROVE  Runs(k, t) /\ ~Knows(k, t)
  BY <1>1, <1>2
<1>3. task[t] # NULL
  BY DEF NothingLost, Runs, Live
<1>4. Live(t)
  BY <1>3, LiveBack DEF Runs
<1>5. Runs(k, t)
  BY <1>3, <1>4 DEF Runs, Grows
<1> QED BY <1>5 DEF NothingLost

\* A call that drops its task leaves it in the cache, or the task is over.
LEMMA QuietKnows ==
  ASSUME KeysApart, PluginIndInv, scene' = scene, NEW n \in Nodes, NEW k \in Keys, NEW S,
         \A p \in Plugins, j \in Keys : Agree(cache'[p][j], cache[p][j]),
         \A m \in Nodes : m # n => call'[m].progress = call[m].progress,
         call[n].progress # NULL => \/ call'[n].progress = call[n].progress
                                    \/ Tracks(n, call[n].progress.task)
                                    \/ ~Live(call[n].progress.task),
         \A t \in Tasks \ S : task[t] = NULL /\ Live(t)' => Knows(k, t)'
  PROVE  NothingLost(k, S)
<1> SUFFICES ASSUME NEW t \in Tasks, Runs(k, t), Knows(k, t) PROVE Knows(k, t)'
  BY DEF NothingLost
<1>t. \A m \in Nodes : Host(m) \in Plugins /\ KeyOf[m] \in Keys
  BY SceneFacts, TypesAreShape DEF PluginIndInv, Shape
<1>1. CASE \E p \in Plugins : cache[p][k] # NULL /\ cache[p][k].task = t
  BY <1>1 DEF Knows, Agree
<1>2. CASE \E m \in Nodes : call[m].progress # NULL /\ call[m].progress.task = t
  <2>1. PICK m \in Nodes : call[m].progress # NULL /\ call[m].progress.task = t
    BY <1>2
  <2>2. CASE call'[m].progress = call[m].progress
    BY <2>1, <2>2 DEF Knows
  <2>3. CASE call'[m].progress # call[m].progress
    <3>1. m = n /\ Tracks(n, t)
      BY <2>1, <2>3 DEF Runs
    <3>2. k = KeyOf[n]
      BY <2>1, <3>1 DEF Runs, PluginIndInv, CallIsOwn, Sent
    <3>3. cache[Host(n)][k] # NULL /\ cache[Host(n)][k].task = t
      BY <3>1, <3>2 DEF Tracks, Cached
    <3> QED BY <1>1, <1>t, <3>3
  <2> QED BY <2>2, <2>3
<1> QED BY <1>1, <1>2 DEF Knows

\* Only a failure loses a task, and one at a time.
LEMMA OrphanStep ==
  ASSUME KeysApart, PluginIndInv, PluginIndInv', [Next]_vars, NEW k \in Keys
  PROVE  /\ Grows
         /\ \/ faults' = faults /\ NothingLost(k, {})
            \/ faults' = faults + 1 /\ \E x : NothingLost(k, {x})
<1>1. Shape /\ \A n \in Nodes : CallIsOwn(n) /\ CallIsTracked(n)
  BY TypesAreShape DEF PluginIndInv
<1>t. /\ call \in [Nodes -> CallRecs] /\ cache \in [Plugins -> [Keys -> Entry]]
      /\ task \in [Tasks -> TaskRecs \cup {NULL}]
      /\ \A m \in Nodes : Host(m) \in Plugins /\ KeyOf[m] \in Keys
  BY <1>1, SceneFacts DEF Shape
<1>3. ASSUME UNCHANGED <<cache, call>>, \A t \in Tasks : task[t] = NULL => task'[t] = NULL
      PROVE  \A S : NothingLost(k, S)
  BY <1>3 DEF NothingLost, Knows, Live
<1>4. ASSUME NEW n \in Nodes, UNCHANGED <<scene, task, late>>,
             \A p \in Plugins, j \in Keys : Agree(cache'[p][j], cache[p][j]),
             \A m \in Nodes : m # n => call'[m].progress = call[m].progress,
             call[n].pc \in {"idle", "send", "poll", "write", "reply"}
      PROVE  Grows /\ \A S : NothingLost(k, S)
  <2>1. call[n].progress # NULL => Tracks(n, call[n].progress.task) \/ ~Live(call[n].progress.task)
    BY <1>1, <1>4 DEF CallIsTracked
  <2>2. \A t \in Tasks : ~(task[t] = NULL /\ Live(t)')
    BY <1>4 DEF Live
  <2> QED BY <1>4, <2>1, <2>2, QuietKnows, TasksStay
<1>5. ASSUME UNCHANGED cache PROVE \A p \in Plugins, j \in Keys : Agree(cache'[p][j], cache[p][j])
  BY <1>5 DEF Agree
<1>6. CASE UNCHANGED vars \/ \E n \in Nodes : RetryNode(n)
  <2>1. UNCHANGED <<cache, call, task, late, faults>>
    BY <1>6 DEF vars, RetryNode
  <2> QED BY <1>3, <2>1, TasksStay
<1>7. CASE \E t \in Tasks : Expire(t) \/ \E s \in Terminal : TaskEnds(t, s)
  <2>1. UNCHANGED <<cache, call, faults>>
    BY <1>7 DEF Expire, TaskEnds
  <2>2. Grows /\ \A t \in Tasks : task[t] = NULL => task'[t] = NULL
    <3>1. CASE \E t \in Tasks : Expire(t)
      BY <3>1 DEF Expire, Grows
    <3>2. CASE \E t \in Tasks, s \in Terminal : TaskEnds(t, s)
      <4>1. PICK t \in Tasks, s \in Terminal : TaskEnds(t, s)
        BY <3>2
      <4>2. /\ task[t] \in TaskRecs /\ task[t].state = "working" /\ late' = late
            /\ task' = [task EXCEPT ![t].state = s]
        BY <1>t, <4>1 DEF TaskEnds
      <4>3. task'[t] \in TaskRecs /\ task'[t].node = task[t].node
            /\ \A u \in Tasks : u # t => task'[u] = task[u]
        BY <1>t, <4>2 DEF TaskRecs, States
      <4> QED BY <4>2, <4>3, NotNull DEF Grows, Terminal
    <3> QED BY <1>7, <3>1, <3>2
  <2> QED BY <1>3, <2>1, <2>2
<1>8. CASE \E n \in Nodes : ExecuteTemplate(n) \/ Deliver(n) \/ SyncWrite(n)
  <2>1. PICK n \in Nodes : ExecuteTemplate(n) \/ Deliver(n) \/ SyncWrite(n)
    BY <1>8
  <2>2. UNCHANGED <<scene, cache, task, late, faults>>
        /\ call[n].pc \in {"idle", "reply", "write"}
    BY <2>1 DEF ExecuteTemplate, Calls, Deliver, SyncWrite
  <2>3. ASSUME NEW m \in Nodes, m # n PROVE call'[m].progress = call[m].progress
    <3>1. CASE ExecuteTemplate(n) \/ Deliver(n)
      BY <1>t, <2>3, <3>1 DEF ExecuteTemplate, Deliver
    <3>2. CASE SyncWrite(n)
      <4>1. call'[m] = IF call[n].fresh /\ call[m].pc = "write"
                       THEN [call[m] EXCEPT !.fresh = FALSE] ELSE call[m]
        BY <2>3, <3>2 DEF SyncWrite
      <4>2. call[m] \in CallRecs
        BY <1>t
      <4> QED BY <4>1, <4>2 DEF CallRecs
    <3> QED BY <2>1, <3>1, <3>2
  <2> QED BY <1>4, <1>5, <2>2, <2>3
<1>9. CASE \E n \in Nodes : \/ Refuse(n) \/ SendFails(n) \/ SendNoTask(n) \/ SyncFails(n)
                            \/ PollNoClient(n) \/ PollError(n) \/ PollRunning(n) \/ ReplyLost(n)
  <2>1. PICK n \in Nodes : \/ Refuse(n) \/ SendFails(n) \/ SendNoTask(n) \/ SyncFails(n)
                           \/ PollNoClient(n) \/ PollError(n) \/ PollRunning(n) \/ ReplyLost(n)
    BY <1>9
  <2>2. /\ UNCHANGED <<scene, task, late>> /\ (faults' = faults \/ faults' = faults + 1)
        /\ call[n].pc \in {"idle", "send", "poll", "write", "reply"}
    BY <2>1 DEF Refuse, Calls, SendFails, SendNoTask, SyncFails, PollNoClient, PollError,
                PollRunning, ReplyLost, Fault
  <2>3. \A m \in Nodes : m # n => call'[m].progress = call[m].progress
    BY <1>t, <2>1 DEF Refuse, SendFails, SendNoTask, SyncFails, PollNoClient, PollError,
                      PollRunning, ReplyLost, NextCandidate, Answer
  <2>4. \A p \in Plugins, j \in Keys : Agree(cache'[p][j], cache[p][j])
    <3>1. CASE UNCHANGED cache
      BY <1>5, <3>1
    <3>2. CASE PollError(n) \/ PollRunning(n)
      <4>1. Errors(n) \in Nat
        <5>1. call[n].progress \in Progress /\ Cached(n) \in Entry
          BY <1>1, <1>t, <3>2 DEF PollError, PollRunning, CallIsTracked, CallRecs, Cached, Entry
        <5> QED BY <5>1, NotNull DEF Errors, Shared, Entry
      <4>2. PICK e \in Nat : SetErrors(n, e)
        BY <3>2, <4>1 DEF PollError, PollRunning
      <4> QED BY <1>1, <4>2, SetErrorsFacts
    <3> QED BY <2>1, <3>1, <3>2 DEF Refuse, SendFails, SendNoTask, SyncFails, PollNoClient, ReplyLost
  <2> QED BY <1>4, <2>2, <2>3, <2>4
<1>10. CASE \E n \in Nodes : SyncBegin(n)
  <2>1. PICK n \in Nodes : SyncBegin(n)
    BY <1>10
  <2>2. UNCHANGED <<scene, cache, task, late, faults>>
    BY <2>1 DEF SyncBegin
  <2>3. \A m \in Nodes : call'[m].progress = call[m].progress
    BY <1>t, <2>1 DEF SyncBegin, CallRecs
  <2>4. \A t \in Tasks : ~(task[t] = NULL /\ Live(t)')
    BY <2>2 DEF Live
  <2>5. NothingLost(k, {})
    BY <1>5, <2>2, <2>3, <2>4, QuietKnows
  <2> QED BY <2>2, <2>5, TasksStay
<1>11. CASE \E n \in Nodes : SendStep(n)
  <2>1. PICK n \in Nodes, t \in Tasks, s \in States : SendOk(n, t, s)
    BY <1>11 DEF SendStep, States
  <2>2. /\ UNCHANGED <<scene, cache, late, faults>> /\ call[n].pc = "send" /\ Starts(n, t, s)
    BY <2>1 DEF SendOk
  <2>3. /\ Grows /\ task'[t].state = s /\ \A u \in Tasks : u # t => task'[u] = task[u]
    BY <1>1, <2>2, StartsFacts
  <2>4. (\A m \in Nodes : m # n => call'[m].progress = call[m].progress) /\ call[n].progress = NULL
    BY <1>1, <1>t, <2>1, <2>2 DEF SendOk, Answer, CallIsTracked
  <2>5. Live(t)' => Knows(k, t)'
    <3> SUFFICES ASSUME s = "working" PROVE Knows(k, t)'
      BY <2>3 DEF Live
    <3> DEFINE x == [task |-> t, errors |-> 0]
    <3>1. x # NULL /\ x.task = t /\ x \in Progress
      BY NotNull DEF Progress
    <3>2. call' = [call EXCEPT ![n].pc = "store", ![n].progress = x]
      BY <2>1 DEF SendOk, Terminal
    <3> HIDE DEF x
    <3>3. call'[n].progress = x
      BY <1>t, <3>2 DEF CallRecs
    <3> QED BY <3>1, <3>3 DEF Knows
  <2>6. \A u \in Tasks : task[u] = NULL /\ Live(u)' => Knows(k, u)'
    BY <2>3, <2>5 DEF Live
  <2>7. NothingLost(k, {})
    BY <1>5, <2>2, <2>4, <2>6, QuietKnows
  <2> QED BY <2>2, <2>3, <2>7
<1>12. CASE \E n \in Nodes, t \in Tasks : AnswerLost(n, t)
  <2>1. PICK n \in Nodes, t \in Tasks : AnswerLost(n, t)
    BY <1>12
  <2>2. /\ UNCHANGED <<scene, cache, late>> /\ call[n].pc = "send" /\ Starts(n, t, "working")
        /\ faults' = faults + 1
    BY <2>1 DEF AnswerLost, Fault
  <2>3. Grows /\ \A u \in Tasks : u # t => task'[u] = task[u]
    BY <1>1, <2>2, StartsFacts DEF States
  <2>4. (\A m \in Nodes : m # n => call'[m].progress = call[m].progress) /\ call[n].progress = NULL
    BY <1>1, <1>t, <2>1, <2>2 DEF AnswerLost, NextCandidate, Answer, CallIsTracked
  <2>5. \A u \in Tasks \ {t} : ~(task[u] = NULL /\ Live(u)')
    BY <2>3 DEF Live
  <2>6. NothingLost(k, {t})
    BY <1>5, <2>2, <2>4, <2>5, QuietKnows
  <2> QED BY <2>2, <2>3, <2>6
<1>13. CASE \E n \in Nodes : StoreTask(n) \/ PollTimeout(n) \/ PollTerminal(n)
  <2>1. PICK n \in Nodes : StoreTask(n) \/ PollTimeout(n) \/ PollTerminal(n)
    BY <1>13
  <2>2. /\ UNCHANGED <<scene, task, late, faults>> /\ call[n].pc \in {"store", "poll"}
        /\ \E v, r : ToSync(n, v, r)
    BY <2>1 DEF StoreTask, PollTimeout, PollTerminal
  <2>3. PICK v, r : ToSync(n, v, r)
    BY <2>2
  <2>4. \A m \in Nodes : call'[m].progress = call[m].progress
    BY <1>t, <2>3 DEF ToSync, CallRecs
  <2>5. \A p \in Plugins, j \in Keys : (p # Host(n) \/ j # KeyOf[n]) => cache'[p][j] = cache[p][j]
    BY <1>t, <2>3 DEF ToSync
  <2>6. call[n].progress # NULL /\ (Cached(n) # NULL => Cached(n).task = call[n].progress.task)
    BY <1>1, <2>2 DEF CallIsTracked, Tracks
  <2>7. NothingLost(k, {})
    <3> SUFFICES ASSUME NEW t \in Tasks, Knows(k, t) PROVE Knows(k, t)'
      BY <2>2 DEF NothingLost, Live
    <3>1. CASE \E m \in Nodes : call[m].progress # NULL /\ call[m].progress.task = t
      BY <2>4, <3>1 DEF Knows
    <3>2. CASE \E p \in Plugins : cache[p][k] # NULL /\ cache[p][k].task = t
      <4>1. PICK p \in Plugins : cache[p][k] # NULL /\ cache[p][k].task = t
        BY <3>2
      <4>2. CASE p # Host(n) \/ k # KeyOf[n]
        BY <2>5, <4>1, <4>2 DEF Knows
      <4>3. CASE p = Host(n) /\ k = KeyOf[n]
        BY <2>6, <3>1, <4>1, <4>3 DEF Cached
      <4> QED BY <4>2, <4>3
    <3> QED BY <3>1, <3>2 DEF Knows
  <2> QED BY <2>2, <2>7, TasksStay
<1>14. CASE \E p \in Plugins : Restart(p) \/ RestartBlind(p)
  <2>0. PICK p \in Plugins : \E loaded : Restarted(p, loaded)
    BY <1>14 DEF Restart, RestartBlind
  <2>1. PICK loaded : Restarted(p, loaded)
    BY <2>0
  <2>2. UNCHANGED <<scene, task, late>> /\ faults' = faults + 1
    BY <1>14 DEF Restart, RestartBlind, Restarted, Fault
  <2>3. \A m \in Nodes : Host(m) # p => call'[m] = call[m]
    BY <2>1 DEF Restarted
  <2>4. \A q \in Plugins : q # p => cache'[q] = cache[q]
    BY <1>t, <2>1 DEF Restarted
  <2>5. PICK n \in Nodes : k = KeyOf[n]
    BY DEF Keys
  <2> DEFINE x == IF Host(n) = p /\ call[n].progress # NULL THEN call[n].progress.task
                  ELSE cache[p][k].task
  <2>6. ASSUME NEW t \in Tasks, t # x, Runs(k, t), Knows(k, t)
        PROVE  Knows(k, t)'
    <3>1. CASE \E m \in Nodes : call[m].progress # NULL /\ call[m].progress.task = t
      <4>1. PICK m \in Nodes : call[m].progress # NULL /\ call[m].progress.task = t
        BY <3>1
      <4>2. m = n
        BY <1>1, <2>5, <2>6, <4>1 DEF CallIsOwn, Sent, Runs, KeysApart
      <4>3. Host(m) # p
        BY <2>6, <4>1, <4>2
      <4> QED BY <2>3, <4>1, <4>3 DEF Knows
    <3>2. CASE \E q \in Plugins : cache[q][k] # NULL /\ cache[q][k].task = t
      <4>1. PICK q \in Plugins : cache[q][k] # NULL /\ cache[q][k].task = t
        BY <3>2
      <4>2. CASE q # p
        BY <2>4, <4>1, <4>2 DEF Knows
      <4>3. CASE q = p
        <5>1. Host(n) = p /\ call[n].progress # NULL /\ Cached(n) = cache[p][k]
          BY <2>5, <2>6, <4>1, <4>3 DEF Cached
        <5>2. Cached(n) # NULL /\ Cached(n).task = t
          BY <4>1, <4>3, <5>1
        <5>3. call[n].progress.task = t
          BY <1>1, <1>t, <5>1, <5>2 DEF CallIsTracked, Tracks, CallRecs, Pcs
        <5> QED BY <2>6, <5>1, <5>3
      <4> QED BY <4>2, <4>3
    <3> QED BY <2>6, <3>1, <3>2 DEF Knows
  <2>7. NothingLost(k, {x})
    BY <2>2, <2>6 DEF NothingLost, Live
  <2> QED BY <2>2, <2>7, TasksStay
<1> QED BY <1>6, <1>7, <1>8, <1>9, <1>10, <1>11, <1>12, <1>13, <1>14 DEF Next, PollStep

\* Where every node has a key of its own, a running task that the plugin lost sight of
\* has cost a restart or a failed request: no sequence of legal calls loses one.
THEOREM OrphansCost ==
  ASSUME KeysApart
  PROVE  Spec => []OrphansArePaidFor
<1>1. Init => OrphansArePaidFor
  <2> SUFFICES ASSUME Init, NEW k \in Keys PROVE Cardinality(Orphans(k)) <= faults
    BY DEF OrphansArePaidFor
  <2>1. Orphans(k) = {}
    BY DEF Init, Orphans, Live
  <2> QED BY <2>1, FS_EmptySet DEF Init
<1>2. PluginIndInv /\ PluginIndInv' /\ OrphansArePaidFor /\ [Next]_vars => OrphansArePaidFor'
  <2> SUFFICES ASSUME PluginIndInv, PluginIndInv', OrphansArePaidFor, [Next]_vars, NEW k \in Keys
               PROVE  Cardinality(Orphans(k)') <= faults'
    BY DEF OrphansArePaidFor
  <2>1. Shape /\ Shape'
    <3>1. TypeOK' => Shape'
      BY TypesAreShape, PTL
    <3> QED BY <3>1, TypesAreShape DEF PluginIndInv
  <2>2. Grows /\ \/ faults' = faults /\ NothingLost(k, {})
                 \/ faults' = faults + 1 /\ \E x : NothingLost(k, {x})
    BY OrphanStep
  <2>3. IsFiniteSet(Orphans(k)) /\ Cardinality(Orphans(k)) \in Nat
    <3>1. IsFiniteSet(Tasks)
      <4>1. 1 \in Int /\ MaxTasks \in Int
        BY PluginAssumption
      <4> QED BY <4>1, FS_Interval DEF Tasks
    <3>2. Orphans(k) \subseteq Tasks
      BY DEF Orphans
    <3> QED BY <3>1, <3>2, FS_Subset, FS_CardinalityType
  <2>4. Cardinality(Orphans(k)) <= faults /\ faults \in Nat
    BY <2>1 DEF OrphansArePaidFor, Shape
  <2>5. CASE faults' = faults /\ NothingLost(k, {})
    <3>1. Orphans(k)' \subseteq Orphans(k)
      BY <2>1, <2>2, <2>5, NewOrphans
    <3>2. Cardinality(Orphans(k)') <= Cardinality(Orphans(k)) /\ Cardinality(Orphans(k)') \in Nat
      BY <2>3, <3>1, FS_Subset, FS_CardinalityType
    <3> QED BY <2>3, <2>4, <2>5, <3>2
  <2>6. CASE faults' = faults + 1 /\ \E x : NothingLost(k, {x})
    <3>1. PICK x : NothingLost(k, {x})
      BY <2>6
    <3>2. Orphans(k)' \subseteq Orphans(k) \cup {x}
      BY <2>1, <2>2, <3>1, NewOrphans
    <3>3. /\ IsFiniteSet(Orphans(k) \cup {x})
          /\ Cardinality(Orphans(k) \cup {x}) <= Cardinality(Orphans(k)) + 1
          /\ Cardinality(Orphans(k) \cup {x}) \in Nat
      <4>1. Cardinality(Orphans(k) \cup {x}) =
              IF x \in Orphans(k) THEN Cardinality(Orphans(k)) ELSE Cardinality(Orphans(k)) + 1
        BY <2>3, FS_AddElement
      <4>2. IsFiniteSet(Orphans(k) \cup {x})
        BY <2>3, FS_AddElement
      <4> QED BY <2>3, <4>1, <4>2
    <3>4. Cardinality(Orphans(k)') <= Cardinality(Orphans(k) \cup {x})
          /\ Cardinality(Orphans(k)') \in Nat
      BY <3>2, <3>3, FS_Subset, FS_CardinalityType
    <3> QED BY <2>3, <2>4, <2>6, <3>3, <3>4
  <2> QED BY <2>2, <2>5, <2>6
<1> QED BY <1>1, <1>2, PluginAlways, PTL DEF Spec

=============================================================================
