----------------------------- MODULE WatchStream -----------------------------
(***************************************************************************)
(* flokoa-server's SSE watch endpoints, the life of the server that serves *)
(* them, and the page that lists a kind of resource and then watches it.   *)
(* A list goes through the gateway to gRPC; a watch is an HTTP handler of  *)
(* its own that forwards what a Kubernetes watch delivers.                 *)
(***************************************************************************)
EXTENDS Integers, Sequences, SequencesExt

CONSTANTS
  Names,       \* names of the resources
  Streams,     \* slots for watch handlers, at most so many at a time
  MaxChanges,  \* bound on changes of the resources
  MaxFaults    \* bound on failures, shutdowns, refreshes and unmounts

ASSUME WatchAssumption ==
  /\ IsFiniteSet(Names) /\ "none" \notin Names /\ {"none", "connecting"} \cap Streams = {}
  /\ MaxChanges \in Nat /\ MaxFaults \in Nat

VARIABLES
  objs,      \* name -> version of the resource, 0 when there is none
  clock,     \* changes so far; a version is the clock of its change
  deletedAt, \* name -> clock of its last deletion
  stream,    \* slot -> its handler
  phase,     \* of the server process
  page,      \* the list-watch composable
  lists,     \* its list requests under way, oldest first
  faults

watchVars == <<objs, clock, deletedAt, stream, phase, page, lists, faults>>

NoStream == [pc |-> "none", ch |-> <<>>, closed |-> FALSE, peer |-> FALSE, openedAt |-> 0]
Nothing  == [n \in Names |-> 0]

WatchInit ==
  /\ objs = Nothing /\ clock = 0 /\ deletedAt = Nothing
  /\ stream = [s \in Streams |-> NoStream]
  /\ phase = "serving"
  /\ page = [scope |-> "new", view |-> Nothing, base |-> 0, es |-> "none", timer |-> FALSE,
             leaked |-> 0]
  /\ lists = <<>> /\ faults = 0

Fault == faults < MaxFaults /\ faults' = faults + 1

-----------------------------------------------------------------------------
\* The cluster.

\* watchEventType: the type of an event is passed on by name.
watchEventType(v, was) == CASE v = 0               -> "DELETED"
                            [] v # 0 /\ was = 0    -> "ADDED"
                            [] OTHER               -> "MODIFIED"

\* A resource is created, changed or deleted; every open watch is told.
Change(n) ==
  /\ clock < MaxChanges /\ clock' = clock + 1
  /\ \E v \in {0, clock + 1} :
       /\ v = 0 => objs[n] # 0
       /\ objs' = [objs EXCEPT ![n] = v]
       /\ deletedAt' = IF v = 0 THEN [deletedAt EXCEPT ![n] = clock + 1] ELSE deletedAt
       /\ stream' = [s \in Streams |->
            IF stream[s].pc = "none" \/ stream[s].closed THEN stream[s]
            ELSE [stream[s] EXCEPT !.ch = Append(@, [type |-> watchEventType(v, objs[n]),
                                                     name |-> n, v |-> v])]]
  /\ UNCHANGED <<phase, page, lists, faults>>

\* The API server ends a watch, after an event that holds no resource or without.
WatchEnds(s) ==
  /\ Fault /\ stream[s].pc = "open" /\ ~stream[s].closed
  /\ \E last \in {<<>>, <<[type |-> "ERROR", name |-> "none", v |-> 0]>>} :
       stream' = [stream EXCEPT ![s].closed = TRUE, ![s].ch = @ \o last]
  /\ UNCHANGED <<objs, clock, deletedAt, phase, page, lists>>

-----------------------------------------------------------------------------
\* The server.

\* A watch of no particular version starts with an ADDED for each resource.
Existing == LET ns == SetToSeq({n \in Names : objs[n] # 0})
            IN [i \in 1..Len(ns) |-> [type |-> "ADDED", name |-> ns[i], v |-> objs[ns[i]]]]

\* Mutant of ServeWatch: the watch starts with the next change.
ServeWatchBare(s) ==
  /\ phase \in {"serving", "grpcDrain"} /\ page.es = "connecting"
  /\ stream[s].pc = "none"
  /\ stream' = [stream EXCEPT ![s] = [NoStream EXCEPT !.pc = "open", !.peer = TRUE,
                                                      !.openedAt = clock]]
  /\ page' = [page EXCEPT !.es = s]
  /\ UNCHANGED <<objs, clock, deletedAt, phase, lists, faults>>

\* watchXHandler: past authMiddleware, the watch is opened and streamSSE starts.
ServeWatch(s) ==
  /\ phase \in {"serving", "grpcDrain"} /\ page.es = "connecting"
  /\ stream[s].pc = "none"
  /\ stream' = [stream EXCEPT ![s] = [NoStream EXCEPT !.pc = "open", !.peer = TRUE,
                                                      !.ch = Existing, !.openedAt = clock]]
  /\ page' = [page EXCEPT !.es = s]
  /\ UNCHANGED <<objs, clock, deletedAt, phase, lists, faults>>

\* eventSource.onerror: close and schedule a reconnect.
OnError(p) == [p EXCEPT !.es = "none", !.timer = TRUE]

\* scheduleReconnect after a failed list: a timer that is pending is no longer
\* held, and fires all the same.
ScheduleReconnect(p) == [p EXCEPT !.timer = TRUE, !.leaked = IF p.timer THEN @ + 1 ELSE @]

Return(s) == stream' = [stream EXCEPT ![s] = NoStream]

\* 401 or 500: the page hears an error.
RefuseWatch ==
  /\ page.es = "connecting" /\ Fault
  /\ page' = OnError(page)
  /\ UNCHANGED <<objs, clock, deletedAt, stream, phase, lists>>

\* Nobody listens.
NoServer ==
  /\ page.es = "connecting" /\ phase \in {"httpDrain", "stopped"}
  /\ page' = OnError(page)
  /\ UNCHANGED <<objs, clock, deletedAt, stream, phase, lists, faults>>

Hears(s) == page' = IF stream[s].peer THEN OnError(page) ELSE page

\* mergeEvent.
MergeEvent(view, e) ==
  CASE e.type = "DELETED"             -> [view EXCEPT ![e.name] = 0]
    [] e.type \in {"ADDED", "MODIFIED"} -> [view EXCEPT ![e.name] = e.v]
    [] OTHER                          -> view

\* streamSSE takes an event and writes it, or skips one that holds no resource.
\* A write to a peer that is gone may still succeed.
StreamEvent(s) ==
  /\ stream[s].pc = "open" /\ stream[s].ch # <<>>
  /\ stream' = [stream EXCEPT ![s].ch = Tail(@)]
  /\ page' = IF stream[s].peer THEN [page EXCEPT !.view = MergeEvent(@, Head(stream[s].ch))]
                               ELSE page
  /\ UNCHANGED <<objs, clock, deletedAt, phase, lists, faults>>

\* Mutant of StreamClosed: the loop goes on without a channel.
StreamClosedSpins(s) ==
  /\ stream[s].pc = "open" /\ stream[s].ch = <<>> /\ stream[s].closed
  /\ UNCHANGED watchVars

\* The result channel is closed and empty: the handler returns.
StreamClosed(s) ==
  /\ stream[s].pc = "open" /\ stream[s].ch = <<>> /\ stream[s].closed
  /\ Return(s) /\ Hears(s)
  /\ UNCHANGED <<objs, clock, deletedAt, phase, lists, faults>>

\* Mutant of WriteFails: a failed heartbeat is ignored.
WriteFailsOnEventsOnly(s) ==
  /\ stream[s].pc = "open" /\ ~stream[s].peer /\ stream[s].ch # <<>>
  /\ Return(s)
  /\ UNCHANGED <<objs, clock, deletedAt, phase, page, lists, faults>>

\* A heartbeat or an event cannot be written to a peer that is gone.
WriteFails(s) ==
  /\ stream[s].pc = "open" /\ ~stream[s].peer
  /\ Return(s)
  /\ UNCHANGED <<objs, clock, deletedAt, phase, page, lists, faults>>

\* The request's context ends under a live peer (a read timeout, a proxy).
ContextDone(s) ==
  /\ Fault /\ stream[s].pc = "open" /\ stream[s].peer
  /\ Return(s) /\ Hears(s)
  /\ UNCHANGED <<objs, clock, deletedAt, phase, lists>>

\* Server.Start after ctx.Done: NOT_SERVING, then GracefulStop.
Shutdown ==
  /\ Fault /\ phase = "serving" /\ phase' = "grpcDrain"
  /\ UNCHANGED <<objs, clock, deletedAt, stream, page, lists>>

\* GracefulStop has waited for the RPCs: the HTTP server stops listening.
GrpcStopped ==
  /\ phase = "grpcDrain" /\ lists = <<>> /\ phase' = "httpDrain"
  /\ UNCHANGED <<objs, clock, deletedAt, stream, page, lists, faults>>

\* httpServer.Shutdown(context.Background()) has waited for the handlers.
HttpStopped ==
  /\ phase = "httpDrain" /\ \A s \in Streams : stream[s].pc = "none"
  /\ phase' = "stopped"
  /\ UNCHANGED <<objs, clock, deletedAt, stream, page, lists, faults>>

\* Kubernetes starts the server again: Server.Start, startHTTPGateway.
Start ==
  /\ phase = "stopped" /\ phase' = "serving"
  /\ UNCHANGED <<objs, clock, deletedAt, stream, page, lists, faults>>

\* What the page hears of a server that dies: its stream and its lists fail.
StreamLost(p) == IF p.es \in Streams THEN OnError(p) ELSE p
ListsLost(p)  == CASE Len(lists) = 0 -> p
                   [] Len(lists) = 1 -> ScheduleReconnect(p)
                   [] Len(lists) = 2 -> ScheduleReconnect(ScheduleReconnect(p))

\* The process dies, with its handlers and RPCs.
Crash ==
  /\ Fault /\ phase # "stopped" /\ phase' = "stopped"
  /\ stream' = [s \in Streams |-> NoStream] /\ lists' = <<>>
  /\ page' \in {ListsLost(StreamLost(page)), StreamLost(ListsLost(page))}
  /\ UNCHANGED <<objs, clock, deletedAt>>

-----------------------------------------------------------------------------
\* The page: useListWatch.

\* stopWatch closes the EventSource and clears the timer.
Dropped == [s \in Streams |-> IF s = page.es THEN [stream[s] EXCEPT !.peer = FALSE]
                                             ELSE stream[s]]
Stopped(p) == [p EXCEPT !.es = "none", !.timer = FALSE]

\* start: stopWatch, then ask for the list; the server answers it as of now.
\* Without a gRPC server behind the gateway the request fails.
ListSent(p) ==
  /\ stream' = Dropped
  /\ IF phase = "serving"
     THEN /\ Len(lists) < 2 /\ lists' = Append(lists, [snap |-> objs, at |-> clock])
          /\ page' = Stopped(p)
     ELSE lists' = lists /\ page' = ScheduleReconnect(Stopped(p))
  /\ UNCHANGED <<objs, clock, deletedAt, phase>>

\* onMounted calls start, and so does a reconnect timer.
Mount ==
  /\ page.scope = "new" /\ page' = [page EXCEPT !.scope = "mounted", !.timer = TRUE]
  /\ UNCHANGED <<objs, clock, deletedAt, stream, phase, lists, faults>>
TimerStart == page.timer /\ ListSent(page) /\ UNCHANGED faults
LeakedStart == /\ page.leaked > 0 /\ ListSent([page EXCEPT !.leaked = @ - 1])
               /\ UNCHANGED faults
\* The refresh button.
Refresh == page.scope = "mounted" /\ Fault /\ ListSent(page)

\* Mutant of ListReturns: the former EventSource is not closed.
ListReturnsUnstopped(i) ==
  /\ lists' = RemoveAt(lists, i)
  /\ page' = [page EXCEPT !.view = lists[i].snap, !.base = lists[i].at, !.es = "connecting",
                          !.timer = FALSE]
  /\ UNCHANGED <<objs, clock, deletedAt, stream, phase, faults>>

\* A list comes back, in whatever order: it becomes the view, and startWatch
\* opens an EventSource instead of the one there may be.
ListReturns(i) ==
  /\ lists' = RemoveAt(lists, i)
  /\ stream' = Dropped
  /\ page' = [page EXCEPT !.view = lists[i].snap, !.base = lists[i].at, !.es = "connecting",
                          !.timer = FALSE]
  /\ UNCHANGED <<objs, clock, deletedAt, phase, faults>>

\* A list fails: scheduleReconnect.
ListFails(i) ==
  /\ Fault /\ lists' = RemoveAt(lists, i)
  /\ page' = ScheduleReconnect(page)
  /\ UNCHANGED <<objs, clock, deletedAt, stream, phase>>

\* onScopeDispose calls stop.
Unmount ==
  /\ Fault /\ page.scope = "mounted"
  /\ stream' = Dropped /\ page' = [Stopped(page) EXCEPT !.scope = "disposed"]
  /\ UNCHANGED <<objs, clock, deletedAt, phase, lists>>

Serve == \E s \in Streams : ServeWatch(s)
Answered == \E i \in 1..Len(lists) : ListReturns(i)

WatchNext ==
  \/ \E n \in Names : Change(n)
  \/ \E s \in Streams : \/ WatchEnds(s) \/ ServeWatch(s) \/ StreamEvent(s)
                        \/ StreamClosed(s) \/ WriteFails(s) \/ ContextDone(s)
  \/ RefuseWatch \/ NoServer \/ Crash \/ Shutdown \/ GrpcStopped \/ HttpStopped \/ Start
  \/ Mount \/ TimerStart \/ LeakedStart \/ Refresh \/ Unmount
  \/ \E i \in 1..Len(lists) : ListReturns(i) \/ ListFails(i)

\* Handlers run, the heartbeat ticks, timers fire and requests are answered;
\* nothing makes a live peer leave.
WatchFairness ==
  /\ \A s \in Streams : /\ WF_watchVars(StreamEvent(s))
                        /\ WF_watchVars(StreamClosed(s))
                        /\ WF_watchVars(WriteFails(s))
  /\ WF_watchVars(Serve) /\ WF_watchVars(Answered)
  /\ WF_watchVars(NoServer) /\ WF_watchVars(TimerStart)
  /\ WF_watchVars(GrpcStopped) /\ WF_watchVars(HttpStopped)
  /\ WF_watchVars(Start)

WatchSpec == WatchInit /\ [][WatchNext]_watchVars /\ WatchFairness

-----------------------------------------------------------------------------
\* One EventSource at a time: the handler with a live peer is the one the page
\* holds, and a channel is closed only under a handler.
WatchTypeOK ==
  /\ objs \in [Names -> 0..clock] /\ clock \in 0..MaxChanges
  /\ deletedAt \in [Names -> 0..clock]
  /\ phase \in {"serving", "grpcDrain", "httpDrain", "stopped"}
  /\ page.es \in Streams \cup {"none", "connecting"}
  /\ page.scope \in {"new", "mounted", "disposed"} /\ page.timer \in BOOLEAN
  /\ page.leaked \in 0..MaxFaults
  /\ page.view \in [Names -> 0..clock] /\ page.base \in 0..clock
  /\ Len(lists) <= 2 /\ faults \in 0..MaxFaults
  /\ \A s \in Streams : /\ stream[s].peer <=> page.es = s
                        /\ stream[s].pc = "none" => stream[s] = NoStream

Drained(s) == stream[s].pc = "open" /\ stream[s].ch = <<>> /\ ~stream[s].closed

\* A page whose stream has delivered everything shows every resource at its
\* latest version.  What else it shows was deleted after its list was taken and
\* before its watch was opened, whatever order lists, refreshes and reconnects
\* came in.
ViewIsCurrent ==
  page.es \in Streams /\ Drained(page.es) =>
    \A n \in Names :
      page.view[n] = objs[n] \/ (objs[n] = 0 /\ page.base < deletedAt[n]
                                 /\ deletedAt[n] <= stream[page.es].openedAt)

\* One stream per page, and a page that is up to date once the stream is drained.
PageInv == WatchTypeOK /\ ViewIsCurrent

\* "Returns a reactive `items` ref that stays in sync with the cluster": once
\* the stream has delivered everything the page shows what there is.
StaysInSync ==
  page.es \in Streams /\ Drained(page.es) => page.view = objs

\* Whatever fails, as long as the page is there and the server is, the page
\* comes back to a stream that has delivered everything.
KeepsCatchingUp ==
  []<>(\/ page.scope # "mounted" \/ phase # "serving"
       \/ (page.es \in Streams /\ Drained(page.es)))

\* Shutdown ends once no live peer is left: the heartbeat finds the dead ones.
DrainEnds ==
  (phase = "httpDrain" /\ \A s \in Streams : ~stream[s].peer) ~> phase = "stopped"
=============================================================================
