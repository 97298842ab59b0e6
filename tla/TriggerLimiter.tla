--------------------------- MODULE TriggerLimiter ---------------------------
(***************************************************************************)
(* flokoa-server's invoke endpoint: concurrent HTTP handlers load the      *)
(* trigger's configuration from its ConfigMap, then ask the in-memory      *)
(* limiter, whose counters belong to the process and to the trigger's      *)
(* name.  Time is counted in ticks; Window ticks are an hour.              *)
(***************************************************************************)
EXTENDS Integers, FiniteSets

CONSTANTS
  Events,       \* events a Sensor delivers, one handler each
  Hourly,       \* values of limits.maxInvocationsPerHour; 0 means unlimited
  Concurrent,   \* values of limits.maxConcurrentTasks; 0 means unlimited
  Window,       \* ticks in an hour
  MaxTime,      \* bound on the ticks
  MaxEdits,     \* bound on edits of the limits, and on restarts of the server
  NULL

ASSUME LimiterAssumption ==
  /\ Hourly \subseteq Nat /\ Concurrent \subseteq Nat
  /\ Window \in Nat \ {0} /\ MaxTime \in Nat /\ MaxEdits \in Nat

VARIABLES
  now,
  config,      \* what the ConfigMap says, or NULL while there is none
  handler,     \* event -> where its handler is and the limits it loaded
  invocations, \* event -> when the limiter recorded it, NULL if it holds no record
  activeTasks, \* tasks it believes in flight
  accepted,    \* event -> when it was accepted and under which limits
  running,     \* accepted events whose agent task has not ended
  edits

limiterVars == <<now, config, handler, invocations, activeTasks, accepted, running, edits>>

-----------------------------------------------------------------------------
\* spec.limits: absent, or present with either limit (0 means unlimited).
Limits == [set : {TRUE}, hourly : Hourly, concurrent : Concurrent]
            \cup {[set |-> FALSE, hourly |-> 0, concurrent |-> 0]}

ASSUME NoRecordAssumption == NULL \notin Nat \cup Limits \cup [at : Nat, limits : Limits]

Outcomes == {"accepted", "hourly", "concurrent", "notfound"}

\* Mutant of Recent: the window is an hour that starts when it is exceeded.
RecentFixedWindow(t) == t # NULL /\ t \div Window = now \div Window

\* t.After(oneHourAgo): an invocation the pruning keeps.
Recent(t) == t # NULL /\ t > now - Window

\* What pruning leaves of the invocations.
Pruned == {f \in Events : Recent(invocations[f])}

\* Mutant of Verdict: in-flight tasks are not limited.
VerdictNoConcurrency(l) ==
  IF l.hourly > 0 /\ Cardinality(Pruned) >= l.hourly THEN "hourly" ELSE "accepted"

\* Check's verdict under limits l.
Verdict(l) ==
  IF l.hourly > 0 /\ Cardinality(Pruned) >= l.hourly THEN "hourly"
  ELSE IF l.concurrent > 0 /\ activeTasks >= l.concurrent THEN "concurrent" ELSE "accepted"

LimiterInit ==
  /\ now = 0
  /\ config \in Limits \cup {NULL}
  /\ handler = [e \in Events |-> [pc |-> "new", limits |-> NULL]]
  /\ invocations = [e \in Events |-> NULL] /\ activeTasks = 0
  /\ accepted = [e \in Events |-> NULL]
  /\ running = {} /\ edits = 0

\* Mutant of LoadConfig: a missing ConfigMap goes unnoticed.
LoadConfigUnchecked(e) ==
  /\ handler[e].pc = "new"
  /\ handler' = [handler EXCEPT ![e] = [pc |-> "check", limits |-> config]]
  /\ UNCHANGED <<now, config, invocations, activeTasks, accepted, running, edits>>

\* loadTriggerConfig, without a lock: a missing ConfigMap is a 404.
LoadConfig(e) ==
  /\ handler[e].pc = "new"
  /\ handler' = [handler EXCEPT ![e] =
       IF config = NULL THEN [pc |-> "notfound", limits |-> NULL]
                        ELSE [pc |-> "check", limits |-> config]]
  /\ UNCHANGED <<now, config, invocations, activeTasks, accepted, running, edits>>

\* An event of a trigger with no limits passes and is not recorded.
CheckUnlimited(e) ==
  /\ handler[e].pc = "check" /\ ~handler[e].limits.set
  /\ handler' = [handler EXCEPT ![e].pc = "accepted"]
  /\ accepted' = [accepted EXCEPT ![e] = [at |-> now, limits |-> handler[e].limits]]
  /\ running' = running \cup {e}
  /\ UNCHANGED <<now, config, invocations, activeTasks, edits>>

\* limiter.Check, under its mutex: prune, decide, record.
Check(e) ==
  LET l == handler[e].limits
      v == Verdict(l)
  IN
  /\ handler[e].pc = "check" /\ l.set
  /\ handler' = [handler EXCEPT ![e].pc = v]
  /\ invocations' = [f \in Events |-> IF f = e /\ v = "accepted" THEN now
                                      ELSE IF f \in Pruned THEN invocations[f] ELSE NULL]
  /\ IF v = "accepted"
     THEN /\ activeTasks' = activeTasks + 1
          /\ accepted' = [accepted EXCEPT ![e] = [at |-> now, limits |-> l]]
          /\ running' = running \cup {e}
     ELSE UNCHANGED <<activeTasks, accepted, running>>
  /\ UNCHANGED <<now, config, edits>>

\* The agent's task for e ends.  Nothing tells the limiter: TaskCompleted has
\* no caller.
TaskEnds(e) ==
  /\ e \in running
  /\ running' = running \ {e}
  /\ UNCHANGED <<now, config, handler, invocations, activeTasks, accepted, edits>>

Tick ==
  /\ now < MaxTime /\ now' = now + 1
  /\ UNCHANGED <<config, handler, invocations, activeTasks, accepted, running, edits>>

\* The trigger's reconciler rewrites the ConfigMap, or it is collected.
EditLimits ==
  /\ edits < MaxEdits /\ edits' = edits + 1
  /\ config' \in (Limits \cup {NULL}) \ {config}
  /\ UNCHANGED <<now, handler, invocations, activeTasks, accepted, running>>

\* The server restarts: the counters are gone, with the handlers under way.
Restart ==
  /\ edits < MaxEdits /\ edits' = edits + 1
  /\ invocations' = [e \in Events |-> NULL] /\ activeTasks' = 0
  /\ accepted' = [e \in Events |-> NULL]
  /\ handler' = [e \in Events |-> IF handler[e].pc = "check"
                                  THEN [handler[e] EXCEPT !.pc = "new"]
                                  ELSE handler[e]]
  /\ UNCHANGED <<now, config, running>>

LimiterNext ==
  \/ \E e \in Events : LoadConfig(e) \/ CheckUnlimited(e) \/ Check(e) \/ TaskEnds(e)
  \/ Tick \/ EditLimits \/ Restart

LimiterSpec == LimiterInit /\ [][LimiterNext]_limiterVars

-----------------------------------------------------------------------------
\* The limiter records no time of the future, and a handler that asks it has
\* loaded limits.
LimiterTypeOK ==
  /\ now \in 0..MaxTime
  /\ config \in Limits \cup {NULL}
  /\ handler \in [Events -> [pc : {"new", "check"} \cup Outcomes,
                             limits : Limits \cup {NULL}]]
  /\ invocations \in [Events -> 0..now \cup {NULL}]
  /\ activeTasks \in Nat
  /\ accepted \in [Events -> [at : Nat, limits : Limits] \cup {NULL}]
  /\ running \subseteq Events /\ edits \in 0..MaxEdits
  /\ \A e \in Events : handler[e].pc = "check" => handler[e].limits # NULL

\* The events accepted by this process in the hour that ends when e was.
HourOf(e) == {f \in Events : /\ accepted[f] # NULL
                             /\ accepted[f].at <= accepted[e].at
                             /\ accepted[f].at > accepted[e].at - Window}

\* "The maximum number of A2A tasks this trigger can create per rolling hour":
\* in every hour that ends with an acceptance, and whatever the limits were
\* before, there are no more acceptances than the laxest limit under which one
\* of that hour's events was accepted allows.
RollingHourHolds ==
  \A e \in Events :
     LET hour == HourOf(e) IN
     accepted[e] # NULL /\ (\A f \in hour : accepted[f].limits.hourly > 0)
     => \E f \in hour : Cardinality(hour) <= accepted[f].limits.hourly

\* "The maximum number of in-flight A2A tasks": no more are ever in flight.
ConcurrencyHolds ==
  (edits = 0 /\ config # NULL /\ config.concurrent > 0)
  => Cardinality(running) <= config.concurrent

\* The limits hold over every rolling hour and over the tasks in flight, although
\* each handler read its limits before it took the mutex.
LimiterInv == LimiterTypeOK /\ RollingHourHolds /\ ConcurrencyHolds
=============================================================================
