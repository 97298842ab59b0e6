----------------------------- MODULE AgentProxy -----------------------------
(***************************************************************************)
(* The two handlers of flokoa-server that talk to an agent for somebody:   *)
(* the playground, which bridges one chat message to the agent's A2A       *)
(* endpoint and streams AG-UI events back, and the push gateway, which     *)
(* forwards a notification.  The agent may refuse, fail, hang, end its     *)
(* task at any time, and its answers may be lost.                          *)
(***************************************************************************)
EXTENDS Integers, Sequences, SequencesExt, FiniteSets

CONSTANT
  MaxPolls   \* playgroundMaxPolls, 150 in the source

ASSUME ProxyAssumption == MaxPolls \in Nat \ {0}

VARIABLES
  routes,  \* the candidate endpoints the agent serves
  tasks,   \* the tasks the agent started for this message, in order
  run,     \* the playground's handler
  events,  \* what it has written
  push     \* the push gateway's handler

proxyVars == <<routes, tasks, run, events, push>>

\* playgroundEndpointCandidates: the URL, and the URL with or without /a2a.
Candidates == 1..2

Alive    == {"working"}
Terminal == {"completed", "canceled", "rejected", "failed"}

\* Where a task holds parts that are not empty.
Places == {"status", "history", "artifacts"}

NewTask(state, parts) == [state |-> state, parts |-> parts]

ProxyInit ==
  /\ routes \in {{1}, {2}, {1, 2}}
  /\ tasks = <<>> /\ events = <<>>
  /\ \E asked \in {"playground", "push"} :
       /\ run = [pc |-> IF asked = "playground" THEN "new" ELSE "none", at |-> 1,
                 task |-> 0, polls |-> 0, expired |-> FALSE]
       /\ push = [pc |-> IF asked = "push" THEN "new" ELSE "none", code |-> 0]

Goto(pc)   == run' = [run EXCEPT !.pc = pc]
Emit(es)   == events' = events \o es

\* What ServeHTTP writes for an answer.
Reply == <<"TEXT_MESSAGE_START", "CONTENT", "TEXT_MESSAGE_END", "RUN_FINISHED">>

\* Mutant of Fails: no return after the error.
FailsOn == Goto("done") /\ Emit(<<"RUN_ERROR">> \o Reply)

Fails    == Goto("done") /\ Emit(<<"RUN_ERROR">>)
Finishes == Goto("done") /\ Emit(Reply)

-----------------------------------------------------------------------------
\* ServeHTTP: method, path, body, agent and endpoint, then the stream starts.
ServeHTTP ==
  /\ run.pc = "new"
  /\ \/ Goto("send") /\ Emit(<<"RUN_STARTED">>)
     \/ Goto("refused") /\ UNCHANGED events
  /\ UNCHANGED <<routes, tasks, push>>

\* extractPartsFromTask: the status message, else the last agent message of the
\* history, else the first artifact that has parts.
extractPartsFromTask(t) ==
  IF "status" \in t.parts THEN "status"
  ELSE IF "history" \in t.parts THEN "history"
  ELSE IF "artifacts" \in t.parts THEN "artifacts" ELSE "nowhere"

\* A task that is terminal in the answer to SendMessage, or in the answer to a
\* poll that does not look at failures.
AnswerWith(t) == IF extractPartsFromTask(t) = "nowhere" THEN Fails ELSE Finishes

\* Mutant of NextCandidate: the same endpoint is tried again.
NextCandidateSame ==
  IF run.polls < 1 THEN run' = [run EXCEPT !.polls = 1] /\ UNCHANGED events ELSE Fails

\* The loop over the candidates after an error.
NextCandidate ==
  IF run.at < 2 THEN run' = [run EXCEPT !.at = @ + 1] /\ UNCHANGED events ELSE Fails

\* SendMessage fails: no such route, no connection, or the context is over.
SendFails ==
  /\ run.pc = "send"
  /\ NextCandidate
  /\ UNCHANGED <<routes, tasks, push>>

\* The agent starts a task and its answer is lost.
SendLost ==
  /\ run.pc = "send" /\ run.at \in routes /\ ~run.expired
  /\ tasks' = Append(tasks, NewTask("working", {}))
  /\ NextCandidate
  /\ UNCHANGED <<routes, push>>

\* The agent answers with a message: its parts, a task to poll, or nothing.
SendMessage ==
  /\ run.pc = "send" /\ run.at \in routes /\ ~run.expired
  /\ \/ Finishes /\ tasks' = Append(tasks, NewTask("completed", {"status"}))
     \/ /\ run' = [run EXCEPT !.pc = "poll", !.task = Len(tasks) + 1, !.polls = 0]
        /\ tasks' = Append(tasks, NewTask("working", {})) /\ UNCHANGED events
     \/ Fails /\ tasks' = tasks
  /\ UNCHANGED <<routes, push>>

\* The agent answers with a task, already terminal or not.
SendTask ==
  /\ run.pc = "send" /\ run.at \in routes /\ ~run.expired
  /\ \E state \in Alive \cup Terminal, parts \in SUBSET Places :
       /\ state \in Alive => parts = {}
       /\ tasks' = Append(tasks, NewTask(state, parts))
       /\ IF state \in Terminal
          THEN AnswerWith(NewTask(state, parts))
          ELSE /\ run' = [run EXCEPT !.pc = "poll", !.task = Len(tasks) + 1, !.polls = 0]
               /\ UNCHANGED events
  /\ UNCHANGED <<routes, push>>

\* Mutant of PollVerdict: failure is not looked at.
PollVerdictBlind(t) == AnswerWith(t)

\* pollTask on a terminal task: a failure is an error.
PollVerdict(t) == IF t.state = "failed" THEN Fails ELSE AnswerWith(t)

\* Mutant of PollAgain: a poll that fails is not counted.
PollAgainUncounted == run' = run

PollAgain == run' = [run EXCEPT !.polls = @ + 1]

\* pollTask, one round: it waits, asks, and goes on when there is no verdict.  A
\* client of a given endpoint can always be created.
PollTask ==
  /\ run.pc = "poll" /\ run.polls < MaxPolls /\ ~run.expired
  /\ \/ /\ tasks[run.task].state \in Terminal
        /\ PollVerdict(tasks[run.task])
     \/ PollAgain /\ UNCHANGED events
  /\ UNCHANGED <<routes, tasks, push>>

\* The polls are used up, or the context is over while it waits.
PollEnds ==
  /\ run.pc = "poll" /\ (run.polls = MaxPolls \/ run.expired)
  /\ Fails
  /\ UNCHANGED <<routes, tasks, push>>

\* playgroundTimeout, or the client of the playground leaves.
ContextOver ==
  /\ run.pc \in {"send", "poll"} /\ ~run.expired
  /\ run' = [run EXCEPT !.expired = TRUE]
  /\ UNCHANGED <<routes, tasks, events, push>>

\* The agent ends a task.
TaskEnded(i) ==
  /\ tasks[i].state \in Alive
  /\ \E state \in Terminal, parts \in SUBSET Places :
       tasks' = [tasks EXCEPT ![i] = NewTask(state, parts)]
  /\ UNCHANGED <<routes, run, events, push>>

-----------------------------------------------------------------------------
\* PushGatewayHandler.ServeHTTP up to the request: 405, 400, 404, 500 or 503.
ServePush ==
  /\ push.pc = "new"
  /\ \/ push' = [push EXCEPT !.pc = "forward"]
     \/ \E code \in {400, 404, 405, 500, 503} : push' = [pc |-> "done", code |-> code]
  /\ UNCHANGED <<routes, tasks, run, events>>

Relay(code) == push' = [pc |-> "done", code |-> code]

\* The agent answers and its status is relayed.
Forwarded ==
  /\ push.pc = "forward"
  /\ \E code \in {200, 202, 403, 599} : Relay(code)
  /\ UNCHANGED <<routes, tasks, run, events>>

\* The agent cannot be reached, or its answer is lost.
ForwardFails ==
  /\ push.pc = "forward"
  /\ Relay(502)
  /\ UNCHANGED <<routes, tasks, run, events>>

ProxyNext ==
  \/ ServeHTTP \/ SendFails \/ SendLost \/ SendMessage \/ SendTask \/ PollTask \/ PollEnds
  \/ ContextOver \/ \E i \in 1..Len(tasks) : TaskEnded(i)
  \/ ServePush \/ Forwarded \/ ForwardFails

\* The handler's goroutine runs: calls return, timers fire.
ProxyFairness == /\ WF_proxyVars(SendFails \/ SendLost \/ SendMessage \/ SendTask)
                 /\ WF_proxyVars(PollTask) /\ WF_proxyVars(PollEnds)

ProxySpec == ProxyInit /\ [][ProxyNext]_proxyVars /\ ProxyFairness

-----------------------------------------------------------------------------
\* A poll is of a task the agent started, and a stream has one of four shapes.
ProxyTypeOK ==
  /\ routes \subseteq Candidates /\ Len(tasks) <= 2
  /\ run.pc \in {"none", "new", "refused", "send", "poll", "done"}
  /\ run.at \in Candidates /\ run.polls \in 0..MaxPolls /\ run.expired \in BOOLEAN
  /\ run.pc = "poll" => run.task \in 1..Len(tasks)
  /\ events \in {<<>>, <<"RUN_STARTED">>, <<"RUN_STARTED", "RUN_ERROR">>,
                 <<"RUN_STARTED">> \o Reply}
  /\ push.pc \in {"none", "new", "forward", "done"}
  /\ push.code # 0 <=> push.pc = "done"

\* A message is put to the agent at both endpoints at most once each: an agent
\* that serves one of them works on it once, lost answers included.
OneTaskPerRoute == Len(tasks) <= Cardinality(routes)

Finished == events # <<>> /\ Last(events) = "RUN_FINISHED"

\* A run that is polled to its end finishes only if the agent's task ended
\* without failing and had something to say.
PolledFinishIsSuccess ==
  Finished /\ run.task # 0 => /\ tasks[run.task].state \in Terminal \ {"failed"}
                              /\ tasks[run.task].parts # {}

\* A playground run polls its own task, works on a message once per endpoint the
\* agent serves, and reports a polled task as finished only if it succeeded.
RunInv == ProxyTypeOK /\ OneTaskPerRoute /\ PolledFinishIsSuccess

\* Every run that started ends with RUN_ERROR or RUN_FINISHED, whatever the
\* agent does: polls are bounded.
EveryRunEnds == run.pc = "send" ~> run.pc = "done"
=============================================================================
