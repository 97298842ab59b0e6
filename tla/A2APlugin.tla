------------------------------ MODULE A2APlugin ------------------------------
(***************************************************************************)
(* The A2A executor plugin: an Argo node calls ExecuteTemplate again and   *)
(* again; the first call sends a task to the agent and remembers it in the *)
(* StateStore, the later ones poll it.  A plugin process is a sidecar of   *)
(* one workflow's agent pod; all of a namespace write one state ConfigMap. *)
(***************************************************************************)
EXTENDS Integers, Sequences, FiniteSets

CONSTANTS
  Nodes, Plugins, \* Argo nodes, and plugin processes
  KeyOf,          \* node -> its task key, "<workflow UID>/<template name>"
  Scenes,         \* [nodes, host, kinds, faults, retries, tasks] explored: the nodes
                  \* that are called, the plugin process each has, which failures,
                  \* timeouts among them, may happen, how many failures, Argo's retryStrategy.limit, and a
                  \* bound on the tasks
  MaxTasks,       \* bound on the tasks the agents are sent
  Candidates,     \* number of endpoint candidates a send tries
  MaxPollErrors,  \* polls that may fail in a row
  NULL

Tasks == 1..MaxTasks
Keys == {KeyOf[n] : n \in Nodes}

\* Keys are sequences of symbols: every "/" becomes "_" in the ConfigMap ...
CmKey(k) == [i \in DOMAIN k |-> IF k[i] = "/" THEN "_" ELSE k[i]]

\* ... and the first "_" becomes "/" when the state is read back.
CmKeyToTaskKey(d) ==
  [i \in DOMAIN d |->
     IF d[i] = "_" /\ \A j \in 1..(i - 1) : d[j] # "_" THEN "/" ELSE d[i]]

DataKeys == {CmKey(k) : k \in Keys}

ASSUME PluginAssumption ==
  /\ DOMAIN KeyOf = Nodes
  /\ \A s \in Scenes :
       /\ s.nodes \subseteq Nodes /\ s.host \in [Nodes -> Plugins]
       /\ \A n, m \in Nodes : KeyOf[n] = KeyOf[m] => s.host[n] = s.host[m]
       /\ s.kinds \subseteq {"resolve", "send", "answer", "noTask", "sync",
                             "poll", "client", "reply", "crash", "load", "timeout"}
       /\ s.faults \in Nat /\ s.retries \in Nat /\ s.tasks \in 0..MaxTasks
  /\ MaxTasks \in Nat /\ Candidates \in Nat \ {0}
  /\ MaxPollErrors \in Nat \ {0}

\* A missing entry, lock holder, task or copy is none of the things it stands for.
ASSUME NullAssumption ==
  /\ NULL \notin Nodes \cup Tasks
  /\ NULL \notin [task : Tasks, errors : Nat]
  /\ NULL \notin [node : Nodes, state : {"working", "completed", "failed"}]

VARIABLES
  scene,           \* the scene that is played
  node,            \* Argo's view of a node
  call,            \* the ExecuteTemplate call a node has under way
  cache, lock,     \* per plugin: the store's cache and its mutex
  cm,              \* data of the state ConfigMap
  task, late,      \* the agents' tasks, and those past their timeout
  faults           \* failures so far

vars == <<scene, node, call, cache, lock, cm, task, late, faults>>

-----------------------------------------------------------------------------
\* ProgressState: the task and its consecutive poll errors.
Progress == [task : Tasks, errors : Nat]

Replies == [phase : {"Pending", "Running", "Succeeded", "Failed"},
            msg : {"none", "refused", "send", "submitted", "timeout", "poll",
                   "task"},
            task : Tasks \cup {NULL}]

\* t: the task the reply is about; its output is in the reply once it is over.
Reply(p, m, t) == [phase |-> p, msg |-> m, task |-> t]

Idle == [pc |-> "idle", cand |-> 1, progress |-> NULL,
         reply |-> Reply("Pending", "none", NULL), snap |-> NULL, fresh |-> TRUE]

Host(n) == scene.host[n]
Cached(n) == cache[Host(n)][KeyOf[n]]

\* taskToReply: only a completed task makes the node succeed.
TaskToReply(t, state) ==
  Reply(IF state = "completed" THEN "Succeeded" ELSE "Failed", "task", t)

Terminal == {"completed", "failed"}

Init ==
  /\ scene \in Scenes
  /\ node = [n \in Nodes |-> [reply |-> Idle.reply, retries |-> 0]]
  /\ call = [n \in Nodes |-> Idle]
  /\ cache = [p \in Plugins |-> [k \in Keys |-> NULL]]
  /\ lock = [p \in Plugins |-> NULL]
  /\ cm = [d \in DataKeys |-> NULL]
  /\ task = [t \in Tasks |-> NULL]
  /\ late = {} /\ faults = 0

Fault(kind) == /\ kind \in scene.kinds /\ faults < scene.faults
               /\ faults' = faults + 1

\* The handler is done: all that is left of the call is its reply.
Answer(n, r) == call' = [call EXCEPT ![n] = [Idle EXCEPT !.pc = "reply",
                                                         !.reply = r]]

-----------------------------------------------------------------------------
\* Argo calls ExecuteTemplate: the first time, and on every requeue.
Calls(n) == /\ n \in scene.nodes /\ call[n].pc = "idle"
            /\ node[n].reply.phase \in {"Pending", "Running"}

\* A known key is polled, an unknown one is resolved and sent.
ExecuteTemplate(n) ==
  /\ Calls(n)
  /\ call' = [call EXCEPT ![n] =
       IF Cached(n) # NULL
       THEN [Idle EXCEPT !.pc = "poll", !.progress = Cached(n)]
       ELSE [Idle EXCEPT !.pc = "send"]]
  /\ UNCHANGED <<scene, node, cache, lock, cm, task, late, faults>>

\* The spec does not parse, or the agent publishes no endpoint.
Refuse(n) ==
  /\ Calls(n) /\ Cached(n) = NULL
  /\ Fault("resolve")
  /\ Answer(n, Reply("Failed", "refused", NULL))
  /\ UNCHANGED <<scene, node, cache, lock, cm, task, late>>

-----------------------------------------------------------------------------
\* The agent accepts a message from n and starts task t.
Starts(n, t, state) ==
  /\ t <= scene.tasks /\ task[t] = NULL /\ \A u \in 1..(t - 1) : task[u] # NULL
  /\ task' = [task EXCEPT ![t] = [node |-> n, state |-> state]]

\* sendTask gets a task back.  A task that is over at once is the reply;
\* any other is stored.
SendOk(n, t, state) ==
  /\ call[n].pc = "send"
  /\ Starts(n, t, state)
  /\ IF state \in Terminal
     THEN Answer(n, TaskToReply(t, state))
     ELSE call' = [call EXCEPT ![n].pc = "store",
                     ![n].progress = [task |-> t, errors |-> 0]]
  /\ UNCHANGED <<scene, node, cache, lock, cm, late, faults>>

\* Mutant of NextCandidate: one candidate too many.
NextCandidateOffByOne(n) ==
  IF call[n].cand <= Candidates
  THEN call' = [call EXCEPT ![n].cand = @ + 1]
  ELSE Answer(n, Reply("Failed", "send", NULL))

\* The next endpoint candidate, if there is one.
NextCandidate(n) ==
  IF call[n].cand < Candidates
  THEN call' = [call EXCEPT ![n].cand = @ + 1]
  ELSE Answer(n, Reply("Failed", "send", NULL))

\* One candidate fails: the message did not arrive ...
SendFails(n) ==
  /\ call[n].pc = "send" /\ Fault("send")
  /\ NextCandidate(n)
  /\ UNCHANGED <<scene, node, cache, lock, cm, task, late>>

\* ... or it did, and the answer was lost: the next candidate sends again.
AnswerLost(n, t) ==
  /\ call[n].pc = "send" /\ Fault("answer")
  /\ Starts(n, t, "working")
  /\ NextCandidate(n)
  /\ UNCHANGED <<scene, node, cache, lock, cm, late>>

\* The answer names no task: nothing to poll.
SendNoTask(n) ==
  /\ call[n].pc = "send" /\ Fault("noTask")
  /\ Answer(n, Reply("Failed", "send", NULL))
  /\ UNCHANGED <<scene, node, cache, lock, cm, task, late>>

-----------------------------------------------------------------------------
\* StateStore.Store and Delete: the cache first, then syncToConfigMap.
ToSync(n, v, r) ==
  /\ cache' = [cache EXCEPT ![Host(n)][KeyOf[n]] = v]
  /\ call' = [call EXCEPT ![n].pc = "sync", ![n].reply = r]

\* Mutant of StoreTask: the reply goes out before anything is stored.
StoreNothing(n) ==
  /\ call[n].pc = "store"
  /\ Answer(n, Reply("Running", "submitted", call[n].progress.task))
  /\ UNCHANGED <<scene, node, cache, lock, cm, task, late, faults>>

StoreTask(n) ==
  /\ call[n].pc = "store"
  /\ ToSync(n, call[n].progress,
            Reply("Running", "submitted", call[n].progress.task))
  /\ UNCHANGED <<scene, node, lock, cm, task, late, faults>>

\* Mutant of SyncBegin: the mutex is not taken.
SyncBeginUnlocked(n) ==
  /\ call[n].pc = "sync"
  /\ call' = [call EXCEPT ![n].pc = "write", ![n].snap = cache[Host(n)],
                          ![n].fresh = TRUE]
  /\ UNCHANGED <<scene, node, cache, lock, cm, task, late, faults>>

\* Under the mutex: copy the whole cache and read the ConfigMap's version.
SyncBegin(n) ==
  /\ call[n].pc = "sync" /\ lock[Host(n)] = NULL
  /\ lock' = [lock EXCEPT ![Host(n)] = n]
  /\ call' = [call EXCEPT ![n].pc = "write", ![n].snap = cache[Host(n)],
                          ![n].fresh = TRUE]
  /\ UNCHANGED <<scene, node, cache, cm, task, late, faults>>

\* The data of a ConfigMap that holds cache c.
Marshalled(c) ==
  [d \in DataKeys |->
     LET ks == {k \in Keys : CmKey(k) = d /\ c[k] # NULL}
     IN  IF ks = {} THEN NULL ELSE c[CHOOSE k \in ks : TRUE]]

\* Create or Update: refused (and only logged) when another process wrote
\* since the read, else it replaces all of the data.
SyncWrite(n) ==
  LET done == [Idle EXCEPT !.pc = "reply", !.reply = call[n].reply] IN
  /\ call[n].pc = "write"
  /\ lock' = [lock EXCEPT ![Host(n)] = NULL]
  /\ cm' = IF call[n].fresh THEN Marshalled(call[n].snap) ELSE cm
  /\ call' = [m \in Nodes |->
                IF m = n THEN done
                ELSE IF call[n].fresh /\ call[m].pc = "write"
                     THEN [call[m] EXCEPT !.fresh = FALSE] ELSE call[m]]
  /\ UNCHANGED <<scene, node, cache, task, late, faults>>

\* The API server is not reached: the failure is only logged.
SyncFails(n) ==
  /\ call[n].pc = "write" /\ Fault("sync")
  /\ lock' = [lock EXCEPT ![Host(n)] = NULL]
  /\ Answer(n, call[n].reply)
  /\ UNCHANGED <<scene, node, cache, cm, task, late>>

-----------------------------------------------------------------------------
\* The ProgressState the poll holds is the cached one, unless it was replaced.
Shared(n) == Cached(n) # NULL /\ Cached(n).task = call[n].progress.task
Errors(n) == IF Shared(n) THEN Cached(n).errors ELSE call[n].progress.errors

SetErrors(n, e) ==
  cache' = IF Shared(n)
           THEN [cache EXCEPT ![Host(n)][KeyOf[n]].errors = e] ELSE cache

\* Mutant of IsTimedOut: the timeout never comes.
NeverTimedOut(t) == FALSE

\* ProgressState.IsTimedOut.
IsTimedOut(t) == t \in late

PollTimeout(n) ==
  /\ call[n].pc = "poll" /\ IsTimedOut(call[n].progress.task)
  /\ ToSync(n, NULL, Reply("Failed", "timeout", NULL))
  /\ UNCHANGED <<scene, node, lock, cm, task, late, faults>>

PollNoClient(n) ==
  /\ call[n].pc = "poll" /\ ~IsTimedOut(call[n].progress.task)
  /\ Fault("client")
  /\ Answer(n, Reply("Failed", "refused", NULL))
  /\ UNCHANGED <<scene, node, cache, lock, cm, task, late>>

\* GetTask fails: requeue until MaxPollErrors in a row.  The entry stays.
PollError(n) ==
  /\ call[n].pc = "poll" /\ ~IsTimedOut(call[n].progress.task)
  /\ Fault("poll")
  /\ SetErrors(n, Errors(n) + 1)
  /\ Answer(n, Reply(IF Errors(n) + 1 < MaxPollErrors
                     THEN "Running" ELSE "Failed", "poll", call[n].progress.task))
  /\ UNCHANGED <<scene, node, lock, cm, task, late>>

PollRunning(n) ==
  /\ call[n].pc = "poll" /\ ~IsTimedOut(call[n].progress.task)
  /\ task[call[n].progress.task].state = "working"
  /\ SetErrors(n, 0)
  /\ Answer(n, Reply("Running", "task", call[n].progress.task))
  /\ UNCHANGED <<scene, node, lock, cm, task, late, faults>>

\* Mutant of PollTerminal: every finished task counts as a success.
PollTerminalSucceeds(n) ==
  LET t == call[n].progress.task IN
  /\ call[n].pc = "poll" /\ ~IsTimedOut(t)
  /\ task[t].state \in Terminal
  /\ ToSync(n, NULL, Reply("Succeeded", "task", t))
  /\ UNCHANGED <<scene, node, lock, cm, task, late, faults>>

PollTerminal(n) ==
  LET t == call[n].progress.task IN
  /\ call[n].pc = "poll" /\ ~IsTimedOut(t)
  /\ task[t].state \in Terminal
  /\ ToSync(n, NULL, TaskToReply(t, task[t].state))
  /\ UNCHANGED <<scene, node, lock, cm, task, late, faults>>

-----------------------------------------------------------------------------
\* The reply is written and Argo records it ...
Deliver(n) ==
  /\ call[n].pc = "reply"
  /\ node' = [node EXCEPT ![n].reply = call[n].reply]
  /\ call' = [call EXCEPT ![n] = Idle]
  /\ UNCHANGED <<scene, cache, lock, cm, task, late, faults>>

\* ... or the handler outlived the server's write timeout: Argo gets nothing
\* and calls again.
ReplyLost(n) ==
  /\ call[n].pc = "reply" /\ Fault("reply")
  /\ call' = [call EXCEPT ![n] = Idle]
  /\ UNCHANGED <<scene, node, cache, lock, cm, task, late>>

\* loadFromConfigMap.
Restored ==
  [k \in Keys |->
     LET ds == {d \in DataKeys : CmKeyToTaskKey(d) = k}
     IN  IF ds = {} THEN NULL ELSE cm[CHOOSE d \in ds : TRUE]]

\* Plugin p restarts in place: its calls are gone, its cache is what the
\* ConfigMap holds (what is loaded is every process's, not only its own).
Restarted(p, loaded) ==
  /\ cache' = [cache EXCEPT ![p] = loaded]
  /\ lock' = [lock EXCEPT ![p] = NULL]
  /\ call' = [n \in Nodes |-> IF Host(n) = p THEN Idle ELSE call[n]]
  /\ UNCHANGED <<scene, node, cm, task, late>>

Restart(p) == Restarted(p, Restored) /\ Fault("crash")

\* ... or nothing, when the ConfigMap cannot be read.
RestartBlind(p) == Restarted(p, [k \in Keys |-> NULL]) /\ Fault("load")

-----------------------------------------------------------------------------
TaskEnds(t, state) ==
  /\ task[t] # NULL /\ task[t].state = "working"
  /\ task' = [task EXCEPT ![t].state = state]
  /\ UNCHANGED <<scene, node, call, cache, lock, cm, late, faults>>

\* The timeout counted from StartTime, which restarts do not move.
Expire(t) ==
  /\ "timeout" \in scene.kinds /\ task[t] # NULL /\ t \notin late
  /\ late' = late \cup {t}
  /\ UNCHANGED <<scene, node, call, cache, lock, cm, task, faults>>

\* Argo retries a failed node: same workflow, same template, same key.
RetryNode(n) ==
  /\ node[n].reply.phase = "Failed" /\ node[n].retries < scene.retries
  /\ node' = [node EXCEPT ![n] = [reply |-> Idle.reply, retries |-> @.retries + 1]]
  /\ UNCHANGED <<scene, call, cache, lock, cm, task, late, faults>>

PollStep(n) == PollTimeout(n) \/ PollRunning(n) \/ PollTerminal(n)

SendStep(n) == \E t \in Tasks, s \in {"working"} \cup Terminal : SendOk(n, t, s)

Next ==
  \/ \E n \in Nodes :
       \/ ExecuteTemplate(n) \/ Refuse(n)
       \/ SendStep(n) \/ SendFails(n) \/ SendNoTask(n)
       \/ \E t \in Tasks : AnswerLost(n, t)
       \/ StoreTask(n) \/ SyncBegin(n) \/ SyncWrite(n) \/ SyncFails(n)
       \/ PollStep(n) \/ PollNoClient(n) \/ PollError(n)
       \/ Deliver(n) \/ ReplyLost(n) \/ RetryNode(n)
  \/ \E p \in Plugins : Restart(p) \/ RestartBlind(p)
  \/ \E t \in Tasks : Expire(t) \/ \E s \in Terminal : TaskEnds(t, s)

Spec == Init /\ [][Next]_vars

\* Argo requeues, handlers run, agents answer a send, retries are made and
\* time passes; no agent need ever finish its task.
FairSpec ==
  /\ Spec
  /\ \A n \in Nodes :
       /\ WF_vars(ExecuteTemplate(n)) /\ WF_vars(SendStep(n))
       /\ WF_vars(StoreTask(n)) /\ SF_vars(SyncBegin(n))
       /\ WF_vars(SyncWrite(n)) /\ WF_vars(PollStep(n))
       /\ WF_vars(RetryNode(n)) /\ WF_vars(Deliver(n))
  /\ \A t \in Tasks : WF_vars(Expire(t))

-----------------------------------------------------------------------------
\* The state is well formed: a handler past the lookup holds the progress it
\* stores or polls (ProgressState), and every store entry names a task.
TypeOK ==
  /\ scene \in Scenes /\ node \in [Nodes -> [reply : Replies, retries : 0..scene.retries]]
  /\ call \in [Nodes -> [pc : {"idle", "send", "store", "sync", "write", "poll",
                                "reply"},
                         cand : 1..Candidates, progress : Progress \cup {NULL},
                         reply : Replies, fresh : BOOLEAN,
                         snap : [Keys -> Progress \cup {NULL}] \cup {NULL}]]
  /\ cache \in [Plugins -> [Keys -> Progress \cup {NULL}]]
  /\ lock \in [Plugins -> Nodes \cup {NULL}]
  /\ cm \in [DataKeys -> Progress \cup {NULL}]
  /\ task \in [Tasks -> [node : Nodes, state : {"working"} \cup Terminal] \cup {NULL}]
  /\ late \subseteq Tasks /\ faults \in 0..scene.faults
  /\ \A n \in Nodes : call[n].pc \in {"store", "poll"} => call[n].progress # NULL

\* A node that succeeded hands on the output of a completed task that was sent
\* for that very node ("taskKey generates a unique key").
ResultIsOwn ==
  \A n \in Nodes : node[n].reply.phase = "Succeeded" =>
     LET t == node[n].reply.task IN
     t # NULL /\ task[t].node = n /\ task[t].state = "completed"

\* Task t still runs, within its timeout.
Live(t) == task[t] # NULL /\ task[t].state = "working" /\ t \notin late

\* A live task Argo was told is running is the one the plugin's store holds
\* whenever no call is under way: the next call polls it and sends nothing,
\* whatever restarted in between ("persists ... across plugin restarts"), where
\* one process serves the namespace and nothing else fails.
RunningIsTracked ==
  scene.kinds \subseteq {"crash", "timeout"} /\ (\A n, m \in scene.nodes : Host(n) = Host(m)) =>
  \A n \in Nodes :
     LET r == node[n].reply IN
     r.phase = "Running" /\ call[n].pc = "idle" /\ Live(r.task)
     => Cached(n) # NULL /\ Cached(n).task = r.task

\* What the store promises: well-formed entries, and none missing for a live task
\* Argo was told is running.
StoreInv == TypeOK /\ RunningIsTracked

\* Tasks sent for key k that still run within their timeout, and that no store
\* entry and no call knows of.
Orphans(k) ==
  {t \in Tasks : /\ Live(t)
                 /\ KeyOf[task[t].node] = k
                 /\ ~\E p \in Plugins : cache[p][k] # NULL /\ cache[p][k].task = t
                 /\ ~\E n \in Nodes : call[n].progress # NULL
                                      /\ call[n].progress.task = t}

\* Duplicate work has a price: every running task the plugin lost sight of
\* cost a restart or a failed request.  No sequence of legal calls loses one.
OrphansArePaidFor ==
  \A k \in Keys : Cardinality(Orphans(k)) <= faults

\* Every node settles, although the agent may never finish its task: the
\* timeout ends the polling whatever fails or restarts on the way.
NodesSettle ==
  \A n \in Nodes :
    <>[](\/ node[n].reply.phase \in {"Succeeded", "Failed"}
         \/ n \notin scene.nodes \/ "timeout" \notin scene.kinds)
=============================================================================
