--------------------------- MODULE MonitorScheduler ---------------------------
(***************************************************************************)
(* The scheduler of one worker process: it keeps the pg-boss schedules and *)
(* the polling workers of the monitors in step with Monitor.state.  Its    *)
(* start reconciles a list read once; requests reconcile one monitor each, *)
(* as soon as the process listens; its stop takes the pollers off.         *)
(*                                                                         *)
(* A task is one asynchronous invocation.  Its pc names the await it       *)
(* stands at: an action is the effect of a call (Unschedule, Upsert, Work) *)
(* or what the code does when the call returns (TakeOff, Poll, Register).  *)
(* What a run does with its lease is the subject of MonitorRun: here a job *)
(* holds it while it runs, or finds it taken and ends.                     *)
(***************************************************************************)
EXTENDS Naturals, FiniteSets

CONSTANTS
  Monitor,
  Requester,  \* invocations of the monitor-create and monitor-set-state handlers
  MaxPollers, \* bound: pg-boss workers of a queue, named again once nobody holds them
  MaxTrouble, \* bound: failed calls and crashes
  Starter, Stopper, None

Poller == 1..MaxPollers
Task == Requester \cup {Starter, Stopper}
Visitor == {Starter, Stopper}
MonitorState == {"active", "paused", "archived"}

ASSUME TasksAreDistinct ==
  /\ Starter \notin Requester /\ Stopper \notin Requester /\ Starter # Stopper
  /\ Task \cap Poller = {}
ASSUME NoneIsNothing ==
  /\ None \notin Monitor \cup Task \cup Poller
  /\ None \notin MonitorState
ASSUME BoundsAreNaturals == MaxTrouble \in Nat /\ MaxPollers \in Nat \ {0}

VARIABLES
  state,     \* Monitor.state, or None while there is no such row
  schedule,  \* monitors with a row in pg-boss's schedule table
  pending,   \* monitors with a job waiting in their queue
  lease,     \* the request or the poller that holds a monitor's run lease
  poller,    \* what the pollers of a monitor's queue do
  leaving,   \* pollers taken off while they had a job
  workerIds, \* MonitorScheduler.workerIds
  pc, ctx,   \* where a task stands, and its local variables
  todo,      \* what start() has still to visit: the states it read
  snapshot,  \* what stop() has still to visit: the entries it copied
  trouble,   \* how much trouble there has been
  failed,    \* history: monitors whose last reconciliation was cut short
  contended  \* history: monitors that two tasks reconciled at once

vars == <<state, schedule, pending, lease, poller, leaving, workerIds, pc, ctx, todo,
          snapshot, trouble, failed, contended>>
monitors == <<state, schedule, pending>>
process == <<poller, leaving, workerIds>>
visits == <<todo, snapshot>>
tasks == <<pc, ctx, visits>>
history == <<trouble, failed, contended>>

Idle == [monitor |-> None, seen |-> None, worker |-> None]
Nothing == [m \in Monitor |-> None]

\* Earlier processes may have left the schedules behind the states.
Init ==
  /\ state \in [Monitor -> {"active", "paused", None}]
  /\ schedule \in SUBSET {m \in Monitor : state[m] # None} /\ pending = {}
  /\ lease = Nothing
  /\ poller = [m \in Monitor |-> [p \in Poller |-> "none"]]
  /\ leaving = {}
  /\ workerIds = Nothing
  /\ pc = [x \in Task |-> IF x = Starter THEN "down" ELSE "idle"]
  /\ ctx = [x \in Task |-> Idle]
  /\ todo = Nothing /\ snapshot = Nothing
  /\ trouble = 0 /\ failed = {} /\ contended = {}

-----------------------------------------------------------------------------
At(x, label) == pc[x] = label
Goto(x, label) == pc' = [pc EXCEPT ![x] = label]
Listening == pc[Starter] # "down"

\* The monitors a task is about to reconcile, or in the middle of it.
Visits(x, m) ==
  \/ ctx[x].monitor = m
  \/ x = Starter /\ todo[m] # None
  \/ x = Stopper /\ snapshot[m] # None
OnMind(m) == {x \in Task : Visits(x, m)}

\* When a reconciliation ends, start() goes on to the next monitor and a request
\* answers; its finally block gives back the lease, if it took one.
Proceed(x) ==
  /\ Goto(x, IF x \in Visitor THEN "next" ELSE "idle")
  /\ ctx' = [ctx EXCEPT ![x] = Idle]
  /\ lease' = [m \in Monitor |-> IF lease[m] = x THEN None ELSE lease[m]]
Settle(x) ==
  /\ Proceed(x)
  /\ failed' = IF x = Stopper THEN failed ELSE failed \ {ctx[x].monitor}
  /\ UNCHANGED <<trouble, contended>>

-----------------------------------------------------------------------------
\* pg-boss.

Alive(m) == {p \in Poller : poller[m][p] # "none"}
Unclaimed(m) ==
  {p \in Poller \ Alive(m) : workerIds[m] # p
     /\ \A x \in Task : ~(ctx[x].monitor = m /\ ctx[x].worker = p)
     /\ snapshot[m] # p}
Least(S) == CHOOSE p \in S : \A q \in S : p <= q

\* Every task that may still ask for a poller finds a name (bound MaxPollers).
Room(m) == Cardinality(Unclaimed(m)) > Cardinality(OnMind(m))

\* offWork: an idle poller is gone at once, one that has a job when the job ends.
Off(m, p) ==
  IF poller[m][p] \in {"none", "idle"}
  THEN /\ poller' = [poller EXCEPT ![m][p] = "none"]
       /\ UNCHANGED leaving
  ELSE /\ leaving' = leaving \cup {<<m, p>>}
       /\ UNCHANGED poller

\* The cron monitor sends a job for a schedule that is due.
Cron(m) ==
  /\ Listening /\ m \in schedule
  /\ pending' = pending \cup {m}
  /\ UNCHANGED <<state, schedule, lease, process, tasks, history>>

TakeJob(m, p) ==
  /\ m \in pending /\ poller[m][p] = "idle"
  /\ pending' = pending \ {m}
  /\ poller' = [poller EXCEPT ![m][p] = "fetched"]
  /\ UNCHANGED <<state, schedule, lease, leaving, workerIds, tasks, history>>

\* The executor asks for the lease once; without it the run ends as overlapping.
TryLeaseAndWait(m, p) ==  \* mutant: pg_advisory_lock, which waits for its turn
  lease[m] = None /\ lease' = [lease EXCEPT ![m] = p]
TryLease(m, p) ==
  lease' = IF lease[m] = None THEN [lease EXCEPT ![m] = p] ELSE lease

BeginRun(m, p) ==
  /\ poller[m][p] = "fetched"
  /\ TryLease(m, p)
  /\ poller' = [poller EXCEPT ![m][p] = "running"]
  /\ UNCHANGED <<monitors, leaving, workerIds, tasks, history>>

\* A job that fails is sent again (retryLimit 2): its queue holds it as before.
EndRun(m, p) ==
  /\ poller[m][p] = "running"
  /\ lease' = [lease EXCEPT ![m] = IF @ = p THEN None ELSE @]
  /\ poller' = [poller EXCEPT ![m][p] = IF <<m, p>> \in leaving THEN "none" ELSE "idle"]
  /\ leaving' = leaving \ {<<m, p>>}
  /\ pending' \in {pending, pending \cup {m}}
  /\ UNCHANGED <<state, schedule, workerIds, tasks, history>>

-----------------------------------------------------------------------------
\* MonitorScheduler.reconcile.

MayFail == trouble < MaxTrouble

Unschedule(x) ==
  /\ At(x, "reconcile") /\ ctx[x].seen # "active"
  /\ schedule' = schedule \ {ctx[x].monitor}
  /\ Goto(x, "unscheduled")
  /\ UNCHANGED <<state, pending, lease, process, ctx, visits, history>>

\* removeSchedule has returned: is there a poller to take off?
TakeOff(x) ==
  LET m == ctx[x].monitor
      p == workerIds[m] IN
  /\ At(x, "unscheduled")
  /\ UNCHANGED <<monitors, workerIds, visits>>
  /\ IF p = None
     THEN Settle(x) /\ UNCHANGED <<poller, leaving>>
     ELSE /\ Off(m, p)
          /\ ctx' = [ctx EXCEPT ![x].worker = p]
          /\ Goto(x, "off")
          /\ UNCHANGED <<lease, history>>

\* offWork was asked to wait.  The entry goes, whatever it is by now.
KeepPollerId(m) == UNCHANGED workerIds  \* mutant: no workerIds.delete
ForgetPoller(m) == workerIds' = [workerIds EXCEPT ![m] = None]
QueueIsQuiet(x) ==  \* mutant: offWork without the id, which means every poller
  Alive(ctx[x].monitor) = {}
IsOff(x) == ctx[x].worker \notin Alive(ctx[x].monitor)

Forget(x) ==
  /\ At(x, "off") /\ IsOff(x)
  /\ ForgetPoller(ctx[x].monitor)
  /\ Settle(x)
  /\ UNCHANGED <<monitors, poller, leaving, visits>>

\* hasQueue, createQueue and schedule; the queue itself is never removed.
Upsert(x) ==
  /\ At(x, "reconcile") /\ ctx[x].seen = "active"
  /\ schedule' = schedule \cup {ctx[x].monitor}
  /\ Goto(x, "scheduled")
  /\ UNCHANGED <<state, pending, lease, process, ctx, visits, history>>

\* schedule has returned: is there a poller already?
Poll(x) ==
  /\ At(x, "scheduled")
  /\ IF workerIds[ctx[x].monitor] # None
     THEN Settle(x)
     ELSE Goto(x, "work") /\ UNCHANGED <<ctx, lease, history>>
  /\ UNCHANGED <<monitors, process, visits>>

Work(x) ==
  LET m == ctx[x].monitor
      p == Least(Unclaimed(m)) IN
  /\ At(x, "work")
  /\ poller' = [poller EXCEPT ![m][p] = "idle"]
  /\ ctx' = [ctx EXCEPT ![x].worker = p]
  /\ Goto(x, "working")
  /\ UNCHANGED <<monitors, lease, leaving, workerIds, visits, history>>

Register(x) ==
  /\ At(x, "working")
  /\ workerIds' = [workerIds EXCEPT ![ctx[x].monitor] = ctx[x].worker]
  /\ Settle(x)
  /\ UNCHANGED <<monitors, poller, leaving, visits>>

\* A call to the database or to pg-boss is rejected, before or after its effect:
\* start() journals it and goes on to the next monitor, a request answers with an error.
Fail(x) ==
  /\ MayFail /\ x # Stopper
  /\ pc[x] \in {"find", "reconcile", "unscheduled", "scheduled", "work"}
  /\ Proceed(x)
  /\ trouble' = trouble + 1
  /\ failed' = failed \cup {ctx[x].monitor}
  /\ UNCHANGED <<monitors, process, visits, contended>>

Reconcile(x) ==
  \/ Unschedule(x) \/ TakeOff(x) \/ Forget(x)
  \/ Upsert(x) \/ Poll(x) \/ Work(x) \/ Register(x)

-----------------------------------------------------------------------------
\* Requests.  The process answers them from its first moment on.

Begins(r, m) ==
  /\ Listening /\ At(r, "idle") /\ Room(m)
  /\ ctx' = [ctx EXCEPT ![r].monitor = m]
  /\ Goto(r, "find")
  /\ contended' = IF OnMind(m) = {} THEN contended ELSE contended \cup {m}
  /\ UNCHANGED <<schedule, pending, process, visits, trouble, failed>>

\* createMonitorConfigAndSync inserts the row, which is active, and takes no lease.
Create(r, m) ==
  /\ Begins(r, m)
  /\ state[m] = None
  /\ state' = [state EXCEPT ![m] = "active"]
  /\ UNCHANGED lease

\* setMonitorStateAndSync: a request that finds the lease taken, the monitor archived
\* (unless it restores it) or the update refused changes nothing and is no step.
SetState(r, m, s) ==
  /\ Begins(r, m)
  /\ state[m] # None /\ lease[m] = None
  /\ state[m] = "archived" => s # "paused"
  /\ lease' = [lease EXCEPT ![m] = r]
  /\ state' = [state EXCEPT ![m] = s]

\* syncMonitor reads the row it reconciles.
Find(r) ==
  /\ At(r, "find")
  /\ ctx' = [ctx EXCEPT ![r].seen = state[ctx[r].monitor]]
  /\ Goto(r, "reconcile")
  /\ UNCHANGED <<monitors, lease, process, visits, history>>

-----------------------------------------------------------------------------
\* start and stop.

Boot ==
  /\ At(Starter, "down")
  /\ Goto(Starter, "list")
  /\ UNCHANGED <<monitors, lease, process, ctx, visits, history>>

\* What earlier processes left undone is mended by reconciling every monitor.
List ==
  /\ At(Starter, "list")
  /\ todo' = state
  /\ Goto(Starter, "next")
  /\ contended' = contended \cup {m \in Monitor : OnMind(m) # {}}
  /\ UNCHANGED <<monitors, lease, process, ctx, trouble, failed, snapshot>>

VisitNext(m) ==
  /\ At(Starter, "next") /\ todo[m] # None
  /\ ctx' = [ctx EXCEPT ![Starter] = [Idle EXCEPT !.monitor = m, !.seen = todo[m]]]
  /\ todo' = [todo EXCEPT ![m] = None]
  /\ Goto(Starter, "reconcile")
  /\ UNCHANGED <<monitors, lease, process, history, snapshot>>

Ready ==
  /\ At(Starter, "next") /\ todo = Nothing
  /\ Goto(Starter, "serving")
  /\ UNCHANGED <<monitors, lease, process, ctx, visits, history>>

\* A shutdown asked for earlier is carried out once start() has ended.
Shutdown ==
  /\ At(Starter, "serving") /\ At(Stopper, "idle")
  /\ snapshot' = workerIds
  /\ Goto(Stopper, "next")
  /\ contended' = contended \cup {m \in Monitor : OnMind(m) # {}}
  /\ UNCHANGED <<monitors, lease, process, ctx, trouble, failed, todo>>

StopNext(m) ==
  /\ At(Stopper, "next") /\ snapshot[m] # None
  /\ Off(m, snapshot[m])
  /\ ctx' = [ctx EXCEPT ![Stopper] = [Idle EXCEPT !.monitor = m, !.worker = snapshot[m]]]
  /\ snapshot' = [snapshot EXCEPT ![m] = None]
  /\ Goto(Stopper, "off")
  /\ UNCHANGED <<monitors, lease, workerIds, history, todo>>

\* The process ends: its memory, its pollers and its sessions' locks are gone.
Gone ==
  /\ lease' = Nothing
  /\ poller' = [m \in Monitor |-> [p \in Poller |-> "none"]]
  /\ leaving' = {}
  /\ workerIds' = Nothing
  /\ pc' = [x \in Task |-> IF x = Starter THEN "down" ELSE "idle"]
  /\ ctx' = [x \in Task |-> Idle]
  /\ todo' = Nothing /\ snapshot' = Nothing
  /\ contended' = {}
  /\ UNCHANGED <<state, schedule, failed>>

Exit ==
  /\ At(Stopper, "next") /\ snapshot = Nothing
  /\ Gone
  /\ UNCHANGED <<pending, trouble>>

\* Also what a start that fails and a stop that overruns its five seconds come to.  The
\* jobs in hand expire and are sent again.
Crash ==
  /\ Listening /\ MayFail
  /\ trouble' = trouble + 1
  /\ pending' = pending \cup {m \in Monitor : \E p \in Poller : poller[m][p] = "running"}
  /\ Gone

-----------------------------------------------------------------------------
Start == Boot \/ List \/ Ready \/ \E m \in Monitor : VisitNext(m)
Stop == Exit \/ \E m \in Monitor : StopNext(m)
Request(r) == Find(r) \/ Reconcile(r)
Jobs == \E m \in Monitor, p \in Poller : BeginRun(m, p) \/ EndRun(m, p)

Next ==
  \/ Start \/ Stop \/ Shutdown \/ Crash
  \/ \E r \in Requester : Find(r)
  \/ \E x \in Task : Reconcile(x) \/ Fail(x)
  \/ \E r \in Requester, m \in Monitor :
       Create(r, m) \/ \E s \in MonitorState : SetState(r, m, s)
  \/ \E m \in Monitor : Cron(m) \/ \E p \in Poller : TakeJob(m, p)
  \/ Jobs

\* The event loop runs what is ready, calls return, and a run ends: every page and every
\* description it waits for has a timeout.  Nobody has to ask for anything.
Fairness ==
  /\ WF_vars(Start \/ Reconcile(Starter)) /\ WF_vars(Stop \/ Reconcile(Stopper))
  /\ \A r \in Requester : WF_vars(Request(r))
  /\ \A m \in Monitor, p \in Poller : WF_vars(BeginRun(m, p) \/ EndRun(m, p))

Spec == Init /\ [][Next]_vars /\ Fairness

-----------------------------------------------------------------------------
\* Properties.

\* Every variable has the type the code gives it.
TypeOK ==
  /\ state \in [Monitor -> MonitorState \cup {None}]
  /\ schedule \subseteq Monitor /\ pending \subseteq Monitor
  /\ lease \in [Monitor -> Requester \cup Poller \cup {None}]
  /\ poller \in [Monitor -> [Poller -> {"none", "idle", "fetched", "running"}]]
  /\ leaving \subseteq Monitor \X Poller
  /\ workerIds \in [Monitor -> Poller \cup {None}]
  /\ pc \in [Task -> {"down", "list", "next", "serving", "idle", "find", "reconcile",
                      "unscheduled", "off", "scheduled", "work", "working"}]
  /\ ctx \in [Task -> [monitor : Monitor \cup {None}, seen : MonitorState \cup {None},
                       worker : Poller \cup {None}]]
  /\ todo \in [Monitor -> MonitorState \cup {None}]
  /\ snapshot \in [Monitor -> Poller \cup {None}]
  /\ trouble \in 0..MaxTrouble
  /\ failed \subseteq Monitor /\ contended \subseteq Monitor

\* A monitor nobody is reconciling any more, in a process that has started.
Settled(m) == At(Starter, "serving") /\ At(Stopper, "idle") /\ OnMind(m) = {}

\* Whatever mixture of requests, failures, restarts and running jobs came before, a
\* monitor whose last reconciliation ran alone and to its end is scheduled and polled,
\* by the poller the scheduler knows, if it is active, and neither if it is not.
ScheduleFollowsState ==
  \A m \in Monitor : Settled(m) /\ m \notin failed \cup contended =>
    IF state[m] = "active"
    THEN m \in schedule /\ workerIds[m] # None /\ Alive(m) = {workerIds[m]}
    ELSE m \notin schedule /\ workerIds[m] = None /\ Alive(m) = {}

\* docs/tasks/2-4-1-schedules.md: after start there is a schedule for every enabled
\* monitor.  No exception is made for a request served while start() was at work.
ActiveMonitorsAreScheduled ==
  \A m \in Monitor : Settled(m) /\ m \notin failed /\ state[m] = "active" => m \in schedule

\* A request that takes a poller off waits for its job with the monitor's lease in its
\* hands, while the job asks for the same lease: every request is answered nevertheless.
RequestsAreAnswered == \A r \in Requester : []<>(pc[r] = "idle")

\* stop() takes off every poller it knows and waits for the jobs they have in hand,
\* whatever the requests still in flight do meanwhile.  It comes to its end.
StopEnds == []<>At(Stopper, "idle")
=============================================================================
