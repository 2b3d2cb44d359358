------------------------ MODULE MonitorSchedulerProofs ------------------------
(***************************************************************************)
(* What MonitorScheduler guarantees for any number of monitors, requests,  *)
(* failed calls and crashes: a monitor whose last reconciliation ran alone *)
(* and to its end is scheduled and polled as its state says.               *)
(***************************************************************************)
EXTENDS MonitorScheduler, TLAPS

USE TasksAreDistinct, NoneIsNothing

-----------------------------------------------------------------------------
\* Tasks and their variables.

Resting == {"down", "list", "next", "serving", "idle"}
Asking == {"find", "reconcile", "unscheduled", "scheduled", "work"}

\* A poller's name, or whatever the last resort of Least is.
Handle == {None} \cup Poller \cup {Least(S) : S \in SUBSET Poller}
Context == [monitor : Monitor \cup {None}, seen : MonitorState \cup {None}, worker : Handle]

Types ==
  /\ state \in [Monitor -> MonitorState \cup {None}]
  /\ poller \in [Monitor -> [Poller -> {"none", "idle", "fetched", "running"}]]
  /\ workerIds \in [Monitor -> Handle]
  /\ pc \in [Task -> Resting \cup Asking \cup {"off", "working"}]
  /\ ctx \in [Task -> Context]
  /\ todo \in [Monitor -> MonitorState \cup {None}]
  /\ snapshot \in [Monitor -> Handle]

TasksKnow ==
  /\ \A x \in Task : pc[x] \in Resting => ctx[x] = Idle
  /\ \A x \in Task : pc[x] \notin Resting => ctx[x].monitor \in Monitor
  /\ \A x \in Task : pc[x] \in Asking => ctx[x].worker = None
  /\ At(Stopper, "idle") => snapshot = Nothing

\* A monitor without a row has left no trace in the process.
NoRowNoTrace ==
  \A m \in Monitor : state[m] = None =>
    /\ m \notin schedule /\ workerIds[m] = None
    /\ \A x \in Task : ~Visits(x, m)

-----------------------------------------------------------------------------
\* One monitor, as long as no two tasks met there.

Alone(m) == \A x, y \in Task : Visits(x, m) /\ Visits(y, m) => x = y

\* The poller the scheduler knows is the one there is, but for the moments in which a task
\* starts one or takes one off.
Polled(m) ==
  /\ (\A x \in Task : ctx[x].monitor = m => pc[x] \notin {"work", "working", "off"}) =>
       Alive(m) = {workerIds[m]} \ {None}
  /\ \A x \in Task : ctx[x].monitor = m =>
       /\ At(x, "work") => workerIds[m] = None /\ Alive(m) = {}
       /\ At(x, "working") => ctx[x].worker # None /\ Alive(m) = {ctx[x].worker}
       /\ At(x, "off") => Alive(m) \subseteq {ctx[x].worker}
  /\ \A p : <<m, p>> \in leaving =>
       /\ p \in Alive(m)
       /\ \E x \in Task : ctx[x].monitor = m /\ At(x, "off")

\* A task has seen the state there is and what it has done so far fits that state.
Scheduled(m) ==
  /\ todo[m] # None => todo[m] = state[m]
  /\ \A x \in Task : ctx[x].monitor = m =>
       /\ At(x, "reconcile") => ctx[x].seen = state[m]
       /\ pc[x] \in {"unscheduled", "off"} => state[m] # "active" /\ m \notin schedule
       /\ pc[x] \in {"scheduled", "work", "working"} => state[m] = "active" /\ m \in schedule
  /\ (\A x \in Task : ~Visits(x, m)) /\ m \notin failed /\ pc[Starter] \notin {"down", "list"} =>
       /\ m \in schedule <=> state[m] = "active"
       /\ workerIds[m] # None <=> state[m] = "active"

MonitorInv(m) ==
  At(Stopper, "idle") /\ m \notin contended => Alone(m) /\ Polled(m) /\ Scheduled(m)

SchedulerInv ==
  Types /\ TasksKnow /\ NoRowNoTrace /\ \A m \in Monitor : MonitorInv(m)

Nobody ==
  /\ pc = [x \in Task |-> IF x = Starter THEN "down" ELSE "idle"]
  /\ ctx = [x \in Task |-> Idle] /\ todo = Nothing /\ snapshot = Nothing
  /\ workerIds = Nothing /\ leaving = {}
  /\ poller = [m \in Monitor |-> [p \in Poller |-> "none"]]
  /\ state \in [Monitor -> MonitorState \cup {None}]
  /\ \A m \in Monitor : state[m] = None => m \notin schedule

\* Every process begins with nobody at work.
LEMMA NobodyBegins == Nobody => SchedulerInv
<1> SUFFICES ASSUME Nobody PROVE SchedulerInv
  OBVIOUS
<1> USE DEF Nobody
<1>1. None \in Handle /\ Idle \in Context
  BY DEF Handle, Context, Idle
<1>2. Types
  BY <1>1 DEF Types, Nothing, Resting, Asking
<1>3. \A x \in Task, m \in Monitor : ~Visits(x, m)
  BY DEF Visits, Idle, Nothing
<1>4. Starter \in Task /\ Stopper \in Task
  BY DEF Task
<1>5. TasksKnow
  BY DEF TasksKnow, Resting, Asking, Idle
<1>6. NoRowNoTrace
  BY <1>3 DEF NoRowNoTrace, Nothing
<1>7. ASSUME NEW m \in Monitor PROVE MonitorInv(m)
  <2>1. Alone(m)
    BY <1>3 DEF Alone
  <2>2. Alive(m) = {} /\ workerIds[m] = None
    BY DEF Alive, Nothing
  <2>3. \A x \in Task : ctx[x].monitor # m
    BY DEF Idle
  <2>4. Polled(m)
    BY <2>2, <2>3 DEF Polled
  <2>5. Scheduled(m)
    BY <1>4, <2>3 DEF Scheduled, Nothing
  <2> QED
    BY <2>1, <2>4, <2>5 DEF MonitorInv
<1> QED
  BY <1>2, <1>5, <1>6, <1>7 DEF SchedulerInv

LEMMA InitScheduler == Init => SchedulerInv
<1> SUFFICES ASSUME Init PROVE SchedulerInv
  OBVIOUS
<1>1. state \in [Monitor -> MonitorState \cup {None}]
  BY DEF Init, MonitorState
<1>2. \A m \in Monitor : state[m] = None => m \notin schedule
  BY DEF Init
<1> QED
  BY <1>1, <1>2, NobodyBegins DEF Init, Nobody

LEMMA GoneKeeps ==
  ASSUME SchedulerInv, Gone
  PROVE  SchedulerInv'
<1>1. state' = state /\ schedule' = schedule
  BY DEF Gone
<1>2. state' \in [Monitor -> MonitorState \cup {None}]
  BY <1>1 DEF SchedulerInv, Types
<1>3. \A m \in Monitor : state'[m] = None => m \notin schedule'
  BY <1>1 DEF SchedulerInv, NoRowNoTrace
<1>4. Nobody'
  BY <1>2, <1>3 DEF Gone, Nobody, Nothing, Idle
<1>5. Nobody' => SchedulerInv'
  BY NobodyBegins, PTL
<1> QED
  BY <1>4, <1>5

-----------------------------------------------------------------------------
\* Types, and what tasks know.

LEMMA PollerSet ==
  ASSUME Types, NEW m, NEW p, NEW v \in {"none", "idle", "fetched", "running"}
  PROVE  [poller EXCEPT ![m][p] = v]
           \in [Monitor -> [Poller -> {"none", "idle", "fetched", "running"}]]
<1>1. \A q \in Monitor : [poller[q] EXCEPT ![p] = v]
                          \in [Poller -> {"none", "idle", "fetched", "running"}]
  BY DEF Types
<1> QED
  BY <1>1 DEF Types

LEMMA TaskSet ==
  ASSUME Types, NEW x \in Task
  PROVE  /\ \A label \in Resting \cup Asking \cup {"off", "working"} :
              [pc EXCEPT ![x] = label] \in [Task -> Resting \cup Asking \cup {"off", "working"}]
         /\ \A c \in Context : [ctx EXCEPT ![x] = c] \in [Task -> Context]
         /\ Idle \in Context
         /\ \A p \in Handle : [ctx EXCEPT ![x].worker = p] \in [Task -> Context]
         /\ \A m \in Monitor : [ctx EXCEPT ![x].monitor = m] \in [Task -> Context]
         /\ \A s \in MonitorState \cup {None} : [ctx EXCEPT ![x].seen = s] \in [Task -> Context]
<1>1. ctx[x] \in Context
  BY DEF Types
<1>2. None \in Handle
  BY DEF Handle
<1>3. Idle \in Context
  BY <1>2 DEF Context, Idle
<1>4. /\ \A p \in Handle : [ctx[x] EXCEPT !.worker = p] \in Context
      /\ \A m \in Monitor : [ctx[x] EXCEPT !.monitor = m] \in Context
      /\ \A s \in MonitorState \cup {None} : [ctx[x] EXCEPT !.seen = s] \in Context
  BY <1>1 DEF Context
<1> QED
  BY <1>3, <1>4 DEF Types

LEMMA LeastIsAHandle == ASSUME NEW m PROVE Least(Unclaimed(m)) \in Handle
<1>1. Unclaimed(m) \in SUBSET Poller
  BY DEF Unclaimed
<1> HIDE DEF Unclaimed, Least
<1> QED
  BY <1>1 DEF Handle

LEMMA ProceedTypes ==
  ASSUME Types, NEW x \in Task, Proceed(x)
  PROVE  /\ pc' \in [Task -> Resting \cup Asking \cup {"off", "working"}]
         /\ ctx' \in [Task -> Context]
BY TaskSet DEF Proceed, Goto, Resting

LEMMA OffTypes ==
  ASSUME Types, NEW m, NEW p, Off(m, p)
  PROVE  poller' \in [Monitor -> [Poller -> {"none", "idle", "fetched", "running"}]]
BY PollerSet DEF Off, Types

LEMMA TypesStep ==
  ASSUME Types, TasksKnow, [Next]_vars
  PROVE  Types'
<1>0. Starter \in Task /\ Stopper \in Task /\ Requester \subseteq Task /\ None \in Handle
  BY DEF Task, Handle
<1>1. CASE Gone /\ UNCHANGED state
  BY <1>0, <1>1, TaskSet DEF Gone, Types, Nothing, Resting
<1>2. ASSUME NEW x \in Task, Reconcile(x) \/ Fail(x) PROVE Types'
  <2>0. pc[x] \notin Resting => ctx[x].monitor \in Monitor
    BY DEF TasksKnow
  <2>1. CASE Unschedule(x) \/ Upsert(x)
    BY <2>1, TaskSet DEF Unschedule, Upsert, Goto, Types, process, visits, Asking
  <2>2. CASE TakeOff(x)
    <3>1. CASE Settle(x) /\ UNCHANGED poller
      BY <2>2, <3>1, ProceedTypes DEF TakeOff, Settle, Types, monitors, visits
    <3>2. CASE workerIds[ctx[x].monitor] # None
      <4>0. workerIds[ctx[x].monitor] \in Handle
        BY <2>0, <2>2 DEF TakeOff, Types, Resting, At
      <4>1. /\ Off(ctx[x].monitor, workerIds[ctx[x].monitor]) /\ Goto(x, "off")
            /\ ctx' = [ctx EXCEPT ![x].worker = workerIds[ctx[x].monitor]]
            /\ UNCHANGED <<monitors, workerIds, visits>>
        BY <2>2, <3>2 DEF TakeOff
      <4>2. ctx' \in [Task -> Context]
        BY <4>0, <4>1, TaskSet
      <4>3. pc' \in [Task -> Resting \cup Asking \cup {"off", "working"}]
        BY <4>1, TaskSet DEF Goto
      <4> QED
        BY <4>1, <4>2, <4>3, OffTypes DEF Types, monitors, visits
    <3> QED
      BY <2>2, <3>1, <3>2 DEF TakeOff
  <2>3. CASE Forget(x)
    BY <1>0, <2>3, ProceedTypes DEF Forget, ForgetPoller, Settle, Types, monitors, visits
  <2>4. CASE Poll(x)
    BY <2>4, ProceedTypes, TaskSet DEF Poll, Settle, Goto, Types, monitors, process, visits, Asking
  <2>5. CASE Work(x)
    <3>1. Least(Unclaimed(ctx[x].monitor)) \in Handle
      BY LeastIsAHandle
    <3>2. /\ ctx' = [ctx EXCEPT ![x].worker = Least(Unclaimed(ctx[x].monitor))]
          /\ poller' = [poller EXCEPT ![ctx[x].monitor][Least(Unclaimed(ctx[x].monitor))] = "idle"]
          /\ Goto(x, "working") /\ UNCHANGED <<monitors, workerIds, visits>>
      BY <2>5 DEF Work
    <3> HIDE DEF Least, Unclaimed
    <3>3. ctx' \in [Task -> Context]
      BY <3>1, <3>2, TaskSet
    <3>4. poller' \in [Monitor -> [Poller -> {"none", "idle", "fetched", "running"}]]
      BY <3>2, PollerSet
    <3>5. pc' \in [Task -> Resting \cup Asking \cup {"off", "working"}]
      BY <3>2, TaskSet DEF Goto
    <3> QED
      BY <3>2, <3>3, <3>4, <3>5 DEF Types, monitors, visits
  <2>6. CASE Register(x)
    <3>1. ctx[x].worker \in Handle
      BY DEF Types, Context
    <3> QED
      BY <2>6, <3>1, ProceedTypes DEF Register, Settle, Types, monitors, visits
  <2>7. CASE Fail(x)
    BY <2>7, ProceedTypes DEF Fail, Types, monitors, process, visits
  <2> QED
    BY <1>2, <2>1, <2>2, <2>3, <2>4, <2>5, <2>6, <2>7 DEF Reconcile
<1>3. ASSUME NEW r \in Requester, NEW m \in Monitor, NEW s \in MonitorState,
             Create(r, m) \/ SetState(r, m, s)
      PROVE  Types'
  <2>1. Begins(r, m) /\ \E v \in MonitorState : state' = [state EXCEPT ![m] = v]
    BY <1>3 DEF Create, SetState, MonitorState
  <2>2. pc' \in [Task -> Resting \cup Asking \cup {"off", "working"}] /\ ctx' \in [Task -> Context]
    BY <1>0, <2>1, TaskSet DEF Begins, Goto, Asking
  <2> QED
    BY <2>1, <2>2 DEF Begins, Types, process, visits
<1>4. ASSUME NEW r \in Requester, Find(r) PROVE Types'
  <2>1. ctx[r].monitor \in Monitor
    BY <1>0, <1>4 DEF Find, TasksKnow, At, Resting
  <2>2. state[ctx[r].monitor] \in MonitorState \cup {None}
    BY <2>1 DEF Types
  <2> QED
    BY <1>0, <1>4, <2>2, TaskSet DEF Find, Goto, Types, monitors, process, visits, Asking
<1>5. CASE Boot \/ List \/ Ready \/ Shutdown
  BY <1>0, <1>5, TaskSet DEF Boot, List, Ready, Shutdown, Goto, Types, monitors, process, visits,
     Resting
<1>6. ASSUME NEW m \in Monitor, VisitNext(m) PROVE Types'
  <2>1. [Idle EXCEPT !.monitor = m, !.seen = todo[m]] \in Context
    BY <1>0 DEF Types, Context, Idle
  <2> QED
    BY <1>0, <1>6, <2>1, TaskSet DEF VisitNext, Goto, Types, monitors, process, Asking
<1>7. ASSUME NEW m \in Monitor, StopNext(m) PROVE Types'
  <2>1. [Idle EXCEPT !.monitor = m, !.worker = snapshot[m]] \in Context
    BY DEF Types, Context, Idle
  <2>2. pc' \in [Task -> Resting \cup Asking \cup {"off", "working"}] /\ ctx' \in [Task -> Context]
    BY <1>0, <1>7, <2>1, TaskSet DEF StopNext, Goto
  <2> QED
    BY <1>0, <1>7, <2>2, OffTypes DEF StopNext, Types, monitors
<1>8. ASSUME NEW m \in Monitor, NEW p \in Poller,
             TakeJob(m, p) \/ BeginRun(m, p) \/ EndRun(m, p) \/ Cron(m)
      PROVE  Types'
  BY <1>8, PollerSet DEF TakeJob, BeginRun, EndRun, Cron, Types, monitors, process, tasks, visits
<1>9. CASE UNCHANGED vars
  BY <1>9 DEF vars, Types
<1>10. CASE Exit \/ Crash
  BY <1>1, <1>10 DEF Exit, Crash, Gone
<1>11. ASSUME NEW m \in Monitor, Cron(m) PROVE Types'
  BY <1>11 DEF Cron, Types, process, tasks, visits
<1> QED
  BY <1>2, <1>3, <1>4, <1>5, <1>6, <1>7, <1>8, <1>9, <1>10, <1>11
  DEF Next, Start, Stop, Jobs, MonitorState

LEMMA ProceedKnows ==
  ASSUME Types, TasksKnow, NEW x \in Task, Proceed(x), snapshot' = snapshot,
         pc[x] \notin Resting
  PROVE  TasksKnow'
<1>1. /\ pc' = [pc EXCEPT ![x] = IF x \in Visitor THEN "next" ELSE "idle"]
      /\ ctx' = [ctx EXCEPT ![x] = Idle]
  BY DEF Proceed, Goto
<1>2. /\ pc'[x] \in {"next", "idle"} /\ ctx'[x] = Idle /\ (x = Stopper => pc'[x] = "next")
      /\ \A y \in Task \ {x} : pc'[y] = pc[y] /\ ctx'[y] = ctx[y]
  BY <1>1 DEF Types, Visitor
<1> QED
  BY <1>2 DEF TasksKnow, Resting, Asking, At, Task, Nothing

\* A task that goes on.
LEMMA GoingOnKnows ==
  ASSUME Types, TasksKnow, NEW x \in Task, NEW label, Goto(x, label),
         \A y \in Task \ {x} : ctx'[y] = ctx[y],
         label \in Resting => ctx'[x] = Idle,
         label \notin Resting => ctx'[x].monitor \in Monitor,
         label \in Asking => ctx'[x].worker = None,
         x = Stopper => label # "idle", x # Stopper => snapshot' = snapshot
  PROVE  TasksKnow'
<1>1. /\ pc'[x] = label
      /\ \A y \in Task \ {x} : pc'[y] = pc[y]
  BY DEF Goto, Types
<1>2. At(Stopper, "idle")' => snapshot' = Nothing
  BY <1>1 DEF TasksKnow, At, Task
<1> QED
  BY <1>1, <1>2 DEF TasksKnow, Nothing, Idle

LEMMA KnowsStep ==
  ASSUME Types, TasksKnow, [Next]_vars
  PROVE  TasksKnow'
<1>0. Starter \in Task /\ Stopper \in Task /\ Requester \subseteq Task /\ Starter # Stopper
      /\ Stopper \notin Requester
  BY DEF Task
<1>a. \A x \in Task : ctx[x] \in Context
  BY DEF Types
<1>b. \A x \in Task : pc[x] \notin Resting => ctx[x].monitor \in Monitor
  BY DEF TasksKnow
<1>1. CASE Gone
  BY <1>1 DEF Gone, TasksKnow, Nothing, Resting, Asking, Idle
<1>2. ASSUME NEW x \in Task, Reconcile(x) \/ Fail(x) PROVE TasksKnow'
  <2>0. pc[x] \in {"find", "reconcile", "unscheduled", "scheduled", "work", "off", "working"}
    BY <1>2 DEF Reconcile, Fail, Unschedule, TakeOff, Forget, Upsert, Poll, Work, Register, At
  <2>1. pc[x] \notin Resting /\ ctx[x].monitor \in Monitor
        /\ (pc[x] \in Asking => ctx[x].worker = None)
    BY <1>b, <2>0 DEF Resting, TasksKnow
  <2>2. CASE Proceed(x)
    BY <1>2, <2>1, <2>2, ProceedKnows
    DEF Reconcile, Fail, Unschedule, TakeOff, Forget, Upsert, Poll, Work, Register, visits
  <2>3. ASSUME NEW label \in {"unscheduled", "scheduled", "work"}, Goto(x, label), ctx' = ctx,
               snapshot' = snapshot, At(x, "reconcile") \/ At(x, "scheduled")
        PROVE  TasksKnow'
    <3>1. ctx'[x].worker = None
      BY <2>1, <2>3 DEF Asking, At
    <3>2. x # Stopper => snapshot' = snapshot
      BY <2>3
    <3> QED
      BY <2>1, <2>3, <3>1, <3>2, GoingOnKnows DEF Resting, Asking
  <2>4. ASSUME NEW label \in {"off", "working"}, NEW p, Goto(x, label),
               ctx' = [ctx EXCEPT ![x].worker = p], snapshot' = snapshot
        PROVE  TasksKnow'
    <3>1. ctx'[x].monitor = ctx[x].monitor /\ \A y \in Task \ {x} : ctx'[y] = ctx[y]
      BY <1>a, <2>4 DEF Types, Context
    <3> QED
      BY <2>1, <2>4, <3>1, GoingOnKnows DEF Resting, Asking
  <2>5. CASE Unschedule(x) \/ Upsert(x)
    BY <2>3, <2>5 DEF Unschedule, Upsert, visits
  <2>6. CASE TakeOff(x)
    BY <2>2, <2>4, <2>6 DEF TakeOff, Settle, visits
  <2>7. CASE Poll(x)
    BY <2>2, <2>3, <2>7 DEF Poll, Settle, visits
  <2>8. CASE Work(x)
    BY <2>4, <2>8 DEF Work, visits
  <2> QED
    BY <1>2, <2>2, <2>5, <2>6, <2>7, <2>8 DEF Reconcile, Forget, Register, Fail, Settle
<1>3. ASSUME NEW r \in Requester, NEW m \in Monitor, Begins(r, m) PROVE TasksKnow'
  <2>1. ctx[r] = Idle /\ snapshot' = snapshot
    BY <1>0, <1>3 DEF Begins, TasksKnow, At, Resting, visits
  <2>2. ctx'[r].monitor = m /\ ctx'[r].worker = None /\ \A y \in Task \ {r} : ctx'[y] = ctx[y]
    BY <1>0, <1>3, <2>1 DEF Begins, Types, Idle
  <2> QED
    BY <1>0, <1>3, <2>1, <2>2, GoingOnKnows DEF Begins, Resting
<1>4. ASSUME NEW r \in Requester, Find(r) PROVE TasksKnow'
  <2>1. ctx[r].monitor \in Monitor /\ ctx[r].worker = None
    BY <1>0, <1>4 DEF Find, TasksKnow, At, Resting, Asking
  <2>2. /\ ctx'[r].monitor \in Monitor /\ ctx'[r].worker = None
        /\ \A y \in Task \ {r} : ctx'[y] = ctx[y]
    BY <1>0, <1>4, <1>a, <2>1 DEF Find, Types, Context
  <2> QED
    BY <1>0, <1>4, <2>2, GoingOnKnows DEF Find, Resting, visits
<1>5. CASE Boot \/ List \/ Ready
  <2>1. ctx[Starter] = Idle
    BY <1>0, <1>5 DEF Boot, List, Ready, TasksKnow, At, Resting
  <2> QED
    BY <1>0, <1>5, <2>1, GoingOnKnows DEF Boot, List, Ready, Resting, Asking, visits
<1>6. ASSUME NEW m \in Monitor, VisitNext(m) PROVE TasksKnow'
  <2>1. ctx'[Starter].monitor = m /\ ctx'[Starter].worker = None
        /\ \A y \in Task \ {Starter} : ctx'[y] = ctx[y]
    BY <1>0, <1>6 DEF VisitNext, Types, Idle
  <2> QED
    BY <1>0, <1>6, <2>1, GoingOnKnows DEF VisitNext, Resting
<1>7. ASSUME NEW m \in Monitor, StopNext(m) PROVE TasksKnow'
  <2>1. ctx'[Stopper].monitor = m /\ \A y \in Task \ {Stopper} : ctx'[y] = ctx[y]
    BY <1>0, <1>7 DEF StopNext, Types, Idle
  <2> QED
    BY <1>0, <1>7, <2>1, GoingOnKnows DEF StopNext, Resting, Asking
<1>8. CASE Shutdown
  <2>1. ctx[Stopper] = Idle
    BY <1>0, <1>8 DEF Shutdown, TasksKnow, At, Resting
  <2> QED
    BY <1>0, <1>8, <2>1, GoingOnKnows DEF Shutdown, Resting, Asking
<1>9. CASE UNCHANGED <<pc, ctx, snapshot>>
  BY <1>9 DEF TasksKnow, At, Nothing, Idle
<1> QED
  BY <1>1, <1>2, <1>3, <1>4, <1>5, <1>6, <1>7, <1>8, <1>9
  DEF Next, Start, Stop, Jobs, Exit, Crash, Create, SetState, Cron, TakeJob, BeginRun, EndRun,
      tasks, visits, vars

-----------------------------------------------------------------------------
\* What a task does concerns the monitor it reconciles.

Acts(x) == Reconcile(x) \/ Fail(x) \/ Find(x)

\* Of another monitor nothing changes, and the task does not begin to look at it.
LEMMA ActsAtHome ==
  ASSUME Types, TasksKnow, NEW x \in Task, Acts(x)
  PROVE  /\ ctx[x].monitor \in Monitor /\ pc[x] \notin Resting
         /\ ctx'[x].monitor \in {ctx[x].monitor, None}
         /\ \A y \in Task \ {x} : ctx'[y] = ctx[y] /\ pc'[y] = pc[y]
         /\ \A m \in Monitor \ {ctx[x].monitor} :
              /\ m \in schedule' <=> m \in schedule
              /\ workerIds'[m] = workerIds[m] /\ poller'[m] = poller[m]
              /\ \A p : <<m, p>> \in leaving' <=> <<m, p>> \in leaving
              /\ m \in failed' <=> m \in failed
         /\ UNCHANGED <<state, todo, snapshot, contended>>
         /\ pc'[x] \notin {"down", "list"}
<1>0. pc[x] \in {"find", "reconcile", "unscheduled", "scheduled", "work", "off", "working"}
  BY DEF Acts, Reconcile, Fail, Find, Unschedule, TakeOff, Forget, Upsert, Poll, Work, Register, At
<1>1. ctx[x].monitor \in Monitor /\ pc[x] \notin Resting
  BY <1>0 DEF Resting, TasksKnow
<1>2. ctx[x] \in Context
  BY DEF Types
<1>3. /\ ctx'[x].monitor \in {ctx[x].monitor, None}
      /\ \A y \in Task \ {x} : ctx'[y] = ctx[y]
  <2>1. CASE ctx' = [ctx EXCEPT ![x] = Idle]
    BY <2>1 DEF Types, Idle
  <2>2. CASE ctx' = ctx
    BY <2>2
  <2>3. CASE \E p : ctx' = [ctx EXCEPT ![x].worker = p]
    BY <1>2, <2>3 DEF Types, Context
  <2>4. CASE \E s : ctx' = [ctx EXCEPT ![x].seen = s]
    BY <1>2, <2>4 DEF Types, Context
  <2>5. \/ ctx' = ctx \/ ctx' = [ctx EXCEPT ![x] = Idle]
        \/ \E p : ctx' = [ctx EXCEPT ![x].worker = p]
        \/ \E s : ctx' = [ctx EXCEPT ![x].seen = s]
    BY DEF Acts, Reconcile, Fail, Find, Unschedule, TakeOff, Forget, Upsert, Poll, Work, Register,
           Settle, Proceed
  <2> QED
    BY <2>1, <2>2, <2>3, <2>4, <2>5
<1>4. \E label \in {"next", "idle", "reconcile", "unscheduled", "scheduled", "work", "off",
                   "working"} : Goto(x, label)
  BY DEF Acts, Reconcile, Fail, Find, Unschedule, TakeOff, Forget, Upsert, Poll, Work, Register,
         Settle, Proceed
<1>5. /\ pc'[x] \notin {"down", "list"} /\ \A y \in Task \ {x} : pc'[y] = pc[y]
  BY <1>4 DEF Goto, Types
<1>6. UNCHANGED <<state, todo, snapshot, contended>>
  BY DEF Acts, Reconcile, Fail, Find, Unschedule, TakeOff, Forget, Upsert, Poll, Work, Register,
         Settle, monitors, visits, history
<1>7. ASSUME NEW m \in Monitor \ {ctx[x].monitor}
      PROVE  /\ m \in schedule' <=> m \in schedule
             /\ m \in failed' <=> m \in failed
             /\ workerIds'[m] = workerIds[m]
  BY <1>7 DEF Acts, Reconcile, Fail, Find, Unschedule, TakeOff, Forget, ForgetPoller, Upsert, Poll,
         Work, Register, Settle, monitors, visits, history, process, Types
<1>8. ASSUME NEW m \in Monitor \ {ctx[x].monitor}
      PROVE  /\ poller'[m] = poller[m]
             /\ \A p : <<m, p>> \in leaving' <=> <<m, p>> \in leaving
  <2>1. CASE UNCHANGED <<poller, leaving>>
    BY <2>1
  <2>2. CASE Off(ctx[x].monitor, workerIds[ctx[x].monitor])
    BY <1>8, <2>2 DEF Off, Types
  <2>3. CASE Work(x)
    BY <1>8, <2>3 DEF Work, Types
  <2> QED
    BY <2>1, <2>2, <2>3 DEF Acts, Reconcile, Fail, Find, Unschedule, TakeOff, Forget, Upsert,
       Poll, Register, process
<1> QED
  BY <1>1, <1>3, <1>5, <1>6, <1>7, <1>8

LEMMA NoRowStep ==
  ASSUME Types, TasksKnow, NoRowNoTrace, [Next]_vars
  PROVE  NoRowNoTrace'
<1>0. Starter \in Task /\ Stopper \in Task /\ Requester \subseteq Task
  BY DEF Task
<1>1. ASSUME NEW x \in Task, Acts(x) PROVE NoRowNoTrace'
  BY <1>1, ActsAtHome DEF NoRowNoTrace, Visits
<1>2. CASE Gone
  BY <1>2 DEF Gone, NoRowNoTrace, Visits, Nothing, Idle
<1>3. ASSUME NEW r \in Requester, NEW m \in Monitor, NEW s \in MonitorState,
             Create(r, m) \/ SetState(r, m, s)
      PROVE  NoRowNoTrace'
  <2>1. /\ Begins(r, m) /\ state'[m] # None /\ \A n \in Monitor \ {m} : state'[n] = state[n]
    BY <1>3 DEF Create, SetState, MonitorState, Types
  <2>2. /\ UNCHANGED <<schedule, workerIds, todo, snapshot>>
        /\ \A y \in Task \ {r} : ctx'[y] = ctx[y]
        /\ ctx'[r].monitor = m
    BY <1>0, <2>1 DEF Begins, process, visits, Types, Context
  <2> QED
    BY <2>1, <2>2 DEF NoRowNoTrace, Visits
<1>4. CASE Boot \/ Ready
  BY <1>4 DEF Boot, Ready, NoRowNoTrace, Visits, monitors, process, visits
<1>5. CASE List
  BY <1>5 DEF List, NoRowNoTrace, Visits, monitors, process
<1>6. CASE Shutdown
  BY <1>6 DEF Shutdown, NoRowNoTrace, Visits, monitors, process
<1>7. ASSUME NEW m \in Monitor, VisitNext(m) PROVE NoRowNoTrace'
  <2>1. /\ todo[m] # None /\ UNCHANGED <<state, schedule, workerIds, snapshot>>
        /\ \A n \in Monitor : todo'[n] \in {todo[n], None}
        /\ ctx'[Starter].monitor = m /\ \A y \in Task \ {Starter} : ctx'[y] = ctx[y]
    BY <1>0, <1>7 DEF VisitNext, Types, Idle, monitors, process
  <2> QED
    BY <1>0, <2>1 DEF NoRowNoTrace, Visits
<1>8. ASSUME NEW m \in Monitor, StopNext(m) PROVE NoRowNoTrace'
  <2>1. /\ snapshot[m] # None /\ UNCHANGED <<state, schedule, workerIds, todo>>
        /\ \A n \in Monitor : snapshot'[n] \in {snapshot[n], None}
        /\ ctx'[Stopper].monitor = m /\ \A y \in Task \ {Stopper} : ctx'[y] = ctx[y]
    BY <1>0, <1>8 DEF StopNext, Types, Idle, monitors
  <2> QED
    BY <1>0, <2>1 DEF NoRowNoTrace, Visits
<1>9. CASE UNCHANGED <<state, schedule, workerIds, ctx, todo, snapshot>>
  BY <1>9 DEF NoRowNoTrace, Visits
<1> QED
  BY <1>0, <1>1, <1>2, <1>3, <1>4, <1>5, <1>6, <1>7, <1>8, <1>9
  DEF Next, Start, Stop, Jobs, Exit, Crash, Cron, TakeJob, BeginRun, EndRun, Acts,
      tasks, visits, process, monitors, vars, MonitorState

-----------------------------------------------------------------------------
\* The monitor a task is alone with.

Clean(m) == At(Stopper, "idle") /\ m \notin contended

\* What the invariant says of a monitor that only x may visit, and x in the middle of it.
Midway(x, m) ==
  /\ pc[x] \notin {"work", "working", "off"} => Alive(m) = {workerIds[m]} \ {None}
  /\ At(x, "work") => workerIds[m] = None /\ Alive(m) = {}
  /\ At(x, "working") => ctx[x].worker # None /\ Alive(m) = {ctx[x].worker}
  /\ At(x, "off") => Alive(m) \subseteq {ctx[x].worker}
  /\ \A p : <<m, p>> \in leaving => p \in Alive(m) /\ At(x, "off")
  /\ todo[m] # None => todo[m] = state[m]
  /\ At(x, "reconcile") => ctx[x].seen = state[m]
  /\ pc[x] \in {"unscheduled", "off"} => state[m] # "active" /\ m \notin schedule
  /\ pc[x] \in {"scheduled", "work", "working"} => state[m] = "active" /\ m \in schedule

\* And of a monitor that x has just left.
Done(m) ==
  /\ Alive(m) = {workerIds[m]} \ {None}
  /\ \A p : <<m, p>> \notin leaving
  /\ todo[m] # None => todo[m] = state[m]
  /\ m \notin failed =>
       /\ m \in schedule <=> state[m] = "active"
       /\ workerIds[m] # None <=> state[m] = "active"

MidwayIsMeant ==
  \A m \in Monitor, x \in Task :
    ctx[x].monitor = m /\ (\A y \in Task \ {x} : ~Visits(y, m)) =>
      (Midway(x, m) <=> Alone(m) /\ Polled(m) /\ Scheduled(m))
DoneIsMeant ==
  \A m \in Monitor, x \in Task :
    ctx[x].monitor # m /\ (\A y \in Task \ {x} : ~Visits(y, m)) /\ Done(m) =>
      Alone(m) /\ Polled(m) /\ Scheduled(m)

LEMMA MidwayIs == MidwayIsMeant
<1> SUFFICES ASSUME NEW m \in Monitor, NEW x \in Task, ctx[x].monitor = m,
                    \A y \in Task \ {x} : ~Visits(y, m)
             PROVE  Midway(x, m) <=> Alone(m) /\ Polled(m) /\ Scheduled(m)
  BY DEF MidwayIsMeant
<1>1. \A y \in Task : ctx[y].monitor = m => y = x
  BY DEF Visits
<1>2. Alone(m) /\ Visits(x, m)
  BY DEF Alone, Visits
<1> QED
  BY <1>1, <1>2 DEF Midway, Polled, Scheduled, At

LEMMA DoneIsEnough == DoneIsMeant
<1> SUFFICES ASSUME NEW m \in Monitor, NEW x \in Task, ctx[x].monitor # m,
                    \A y \in Task \ {x} : ~Visits(y, m), Done(m)
             PROVE  Alone(m) /\ Polled(m) /\ Scheduled(m)
  BY DEF DoneIsMeant
<1>1. \A y \in Task : ctx[y].monitor # m
  BY DEF Visits
<1>2. Alone(m)
  BY DEF Alone
<1>3. Polled(m)
  BY <1>1 DEF Done, Polled
<1>4. Scheduled(m)
  BY <1>1 DEF Done, Scheduled
<1> QED
  BY <1>2, <1>3, <1>4

LEMMA AloneWith ==
  ASSUME SchedulerInv, NEW x \in Task, Acts(x), NEW m \in Monitor, ctx[x].monitor = m, Clean(m)
  PROVE  /\ x # Stopper /\ pc[x] \notin Resting /\ Midway(x, m)
         /\ \A y \in Task \ {x} : ~Visits(y, m) /\ ~Visits(y, m)'
<1>0. Types /\ TasksKnow /\ MonitorInv(m)
  BY DEF SchedulerInv
<1>1. /\ pc[x] \notin Resting /\ UNCHANGED <<todo, snapshot>>
      /\ \A y \in Task \ {x} : ctx'[y] = ctx[y]
  BY <1>0, ActsAtHome
<1>2. x # Stopper
  BY <1>1 DEF Clean, At, Resting
<1>3. Alone(m) /\ Polled(m) /\ Scheduled(m)
  BY <1>0 DEF MonitorInv, Clean
<1>4. \A y \in Task \ {x} : ~Visits(y, m)
  BY <1>3 DEF Alone, Visits
<1>5. \A y \in Task \ {x} : ~Visits(y, m)'
  BY <1>1, <1>4 DEF Visits
<1> QED
  BY <1>1, <1>2, <1>3, <1>4, <1>5, MidwayIs DEF MidwayIsMeant

LEMMA StopperStays ==
  ASSUME Types, TasksKnow, NEW x \in Task, Acts(x)
  PROVE  At(Stopper, "idle")' => At(Stopper, "idle")
<1>1. CASE x = Stopper
  <2>1. At(Stopper, "idle")' => Proceed(x)
    BY <1>1 DEF Acts, Reconcile, Fail, Find, Unschedule, TakeOff, Forget, Upsert, Poll, Work,
                Register, Settle, Goto, At, Types
  <2>2. Proceed(x) => pc'[x] = "next"
    BY <1>1 DEF Proceed, Goto, Visitor, Types
  <2> QED
    BY <1>1, <2>1, <2>2 DEF At
<1>2. CASE x # Stopper
  <2>1. Stopper \in Task
    BY DEF Task
  <2> QED
    BY <1>2, <2>1, ActsAtHome DEF At
<1> QED
  BY <1>1, <1>2

LEMMA OwnStep ==
  ASSUME SchedulerInv, NEW x \in Task, Acts(x), NEW m \in Monitor, ctx[x].monitor = m
  PROVE  MonitorInv(m)'
<1>0. Types /\ TasksKnow /\ MonitorInv(m)
  BY DEF SchedulerInv
<1>1. /\ UNCHANGED <<state, todo, snapshot, contended>>
      /\ pc[x] \notin Resting
  BY <1>0, ActsAtHome
<1>2. SUFFICES ASSUME Clean(m) PROVE (Alone(m) /\ Polled(m) /\ Scheduled(m))'
  <2>1. Clean(m)' => Clean(m)
    BY <1>0, <1>1, StopperStays DEF Clean
  <2> QED
    BY <2>1 DEF MonitorInv, Clean
<1>3. /\ x # Stopper /\ Midway(x, m)
      /\ \A y \in Task \ {x} : ~Visits(y, m) /\ ~Visits(y, m)'
  BY <1>2, AloneWith
<1>4. /\ ctx'[x].monitor = m /\ Midway(x, m)' => (Alone(m) /\ Polled(m) /\ Scheduled(m))'
      /\ ctx'[x].monitor # m /\ Done(m)' => (Alone(m) /\ Polled(m) /\ Scheduled(m))'
  <2>1. MidwayIsMeant' /\ DoneIsMeant'
    BY MidwayIs, DoneIsEnough, PTL
  <2> QED
    BY <1>3, <2>1 DEF MidwayIsMeant, DoneIsMeant
<1> DEFINE Goal == (Alone(m) /\ Polled(m) /\ Scheduled(m))'
<1>5. pc \in [Task -> Resting \cup Asking \cup {"off", "working"}] /\ ctx \in [Task -> Context]
  BY <1>0 DEF Types
<1>6. ASSUME Settle(x), Alive(m)' = {workerIds'[m]} \ {None}, \A p : <<m, p>> \notin leaving',
             m \in schedule' <=> state[m] = "active", workerIds'[m] # None <=> state[m] = "active"
      PROVE  Goal
  <2>1. ctx'[x].monitor # m
    BY <1>5, <1>6 DEF Settle, Proceed, Idle
  <2>2. Done(m)'
    BY <1>1, <1>3, <1>6 DEF Done, Midway
  <2> QED
    BY <1>4, <2>1, <2>2
<1>7. ASSUME NEW label, Goto(x, label), ctx' = ctx, Midway(x, m)' PROVE Goal
  BY <1>4, <1>7
<1>8. CASE Unschedule(x)
  <2>1. /\ At(x, "reconcile") /\ state[m] # "active" /\ m \notin schedule'
        /\ UNCHANGED <<poller, leaving, workerIds, ctx>> /\ pc'[x] = "unscheduled"
    BY <1>3, <1>5, <1>8 DEF Unschedule, Midway, Goto, At, process
  <2>2. Midway(x, m)'
    BY <1>1, <1>3, <2>1 DEF Midway, Alive, At
  <2> QED
    BY <1>7, <1>8, <2>2 DEF Unschedule
<1>9. CASE TakeOff(x)
  <2>1. /\ At(x, "unscheduled") /\ state[m] # "active" /\ m \notin schedule
        /\ UNCHANGED <<schedule, workerIds>> /\ Alive(m) = {workerIds[m]} \ {None}
        /\ \A p : <<m, p>> \notin leaving
    BY <1>3, <1>9 DEF TakeOff, Midway, At, monitors
  <2>2. CASE workerIds[m] = None
    <3>1. Settle(x) /\ UNCHANGED <<poller, leaving>>
      BY <1>9, <2>2 DEF TakeOff
    <3> QED
      BY <1>6, <2>1, <2>2, <3>1 DEF Alive
  <2>3. CASE workerIds[m] # None
    <3> DEFINE p == workerIds[m]
    <3>1. Off(m, p) /\ ctx' = [ctx EXCEPT ![x].worker = p] /\ Goto(x, "off")
      BY <1>9, <2>3 DEF TakeOff
    <3>2. pc'[x] = "off" /\ ctx'[x].worker = p /\ ctx'[x].monitor = m
      BY <1>5, <3>1 DEF Goto, Context
    <3>3. Alive(m) = {p} /\ p \in Poller
      BY <2>1, <2>3 DEF Alive
    <3>4. Alive(m)' \subseteq {p} /\ \A q : <<m, q>> \in leaving' => q \in Alive(m)'
      <4>1. CASE poller' = [poller EXCEPT ![m][p] = "none"] /\ leaving' = leaving
        BY <1>0, <2>1, <3>3, <4>1 DEF Alive, Types
      <4>2. CASE poller' = poller /\ leaving' = leaving \cup {<<m, p>>}
        BY <2>1, <3>3, <4>2 DEF Alive
      <4> QED
        BY <3>1, <4>1, <4>2 DEF Off
    <3>5. Midway(x, m)'
      BY <1>1, <1>3, <2>1, <3>2, <3>4 DEF Midway, At
    <3> QED
      BY <1>4, <3>2, <3>5
  <2> QED
    BY <2>2, <2>3
<1>10. CASE Forget(x)
  <2>1. /\ At(x, "off") /\ Alive(m) = {} /\ state[m] # "active" /\ m \notin schedule
        /\ UNCHANGED <<schedule, poller, leaving>> /\ Settle(x)
        /\ \A p : <<m, p>> \notin leaving
    BY <1>3, <1>10 DEF Forget, IsOff, Midway, At, monitors
  <2>2. workerIds'[m] = None
    BY <1>0, <1>10 DEF Forget, ForgetPoller, Types
  <2> QED
    BY <1>6, <2>1, <2>2 DEF Alive
<1>11. CASE Upsert(x)
  <2>1. /\ At(x, "reconcile") /\ state[m] = "active" /\ m \in schedule'
        /\ UNCHANGED <<poller, leaving, workerIds, ctx>> /\ pc'[x] = "scheduled"
    BY <1>3, <1>5, <1>11 DEF Upsert, Midway, Goto, At, process
  <2>2. Midway(x, m)'
    BY <1>1, <1>3, <2>1 DEF Midway, Alive, At
  <2> QED
    BY <1>7, <1>11, <2>2 DEF Upsert
<1>12. CASE Poll(x)
  <2>1. /\ At(x, "scheduled") /\ state[m] = "active" /\ m \in schedule
        /\ UNCHANGED <<schedule, poller, leaving, workerIds>>
        /\ Alive(m) = {workerIds[m]} \ {None} /\ \A p : <<m, p>> \notin leaving
    BY <1>3, <1>12 DEF Poll, Midway, At, monitors, process
  <2>2. CASE workerIds[m] # None
    <3>1. Settle(x)
      BY <1>12, <2>2 DEF Poll
    <3> QED
      BY <1>6, <2>1, <2>2, <3>1 DEF Alive
  <2>3. CASE workerIds[m] = None
    <3>1. Goto(x, "work") /\ UNCHANGED ctx /\ pc'[x] = "work"
      BY <1>5, <1>12, <2>3 DEF Poll, Goto
    <3>2. Midway(x, m)'
      BY <1>1, <1>3, <2>1, <2>3, <3>1 DEF Midway, Alive, At
    <3> QED
      BY <1>7, <3>1, <3>2
  <2> QED
    BY <2>2, <2>3
<1>13. CASE Work(x)
  <2>1. /\ At(x, "work") /\ state[m] = "active" /\ m \in schedule
        /\ workerIds[m] = None /\ Alive(m) = {} /\ \A p : <<m, p>> \notin leaving
        /\ UNCHANGED <<schedule, leaving, workerIds>>
    BY <1>3, <1>13 DEF Work, Midway, At, monitors
  <2>2. Unclaimed(m) = Poller
    <3>1. ctx[x].worker = None
      BY <1>0, <2>1 DEF TasksKnow, Asking, At
    <3>2. \A y \in Task : ctx[y].monitor = m => ctx[y].worker = None
      BY <1>3, <3>1 DEF Visits
    <3>3. snapshot[m] = None
      BY <1>0, <1>2 DEF TasksKnow, Clean, Nothing
    <3> QED
      BY <2>1, <3>2, <3>3 DEF Unclaimed
  <2> DEFINE p == Least(Poller)
  <2>3. p \in Poller
    <3>1. 1 \in Poller /\ \A q \in Poller : 1 <= q
      BY BoundsAreNaturals DEF Poller
    <3> QED
      BY <3>1 DEF Least
  <2>4. /\ poller' = [poller EXCEPT ![m][p] = "idle"]
        /\ ctx' = [ctx EXCEPT ![x].worker = p] /\ Goto(x, "working")
    BY <1>13, <2>2 DEF Work
  <2> HIDE DEF p
  <2>5. pc'[x] = "working" /\ ctx'[x].worker = p /\ ctx'[x].monitor = m
    BY <1>5, <2>4 DEF Goto, Context
  <2>6. Alive(m)' = {p}
    BY <1>0, <2>1, <2>3, <2>4 DEF Alive, Types
  <2>7. Midway(x, m)'
    BY <1>1, <1>3, <2>1, <2>3, <2>5, <2>6 DEF Midway, At
  <2> QED
    BY <1>4, <2>5, <2>7
<1>14. CASE Register(x)
  <2>1. /\ At(x, "working") /\ state[m] = "active" /\ m \in schedule
        /\ ctx[x].worker # None /\ Alive(m) = {ctx[x].worker} /\ \A p : <<m, p>> \notin leaving
        /\ UNCHANGED <<schedule, leaving, poller>> /\ Settle(x)
    BY <1>3, <1>14 DEF Register, Midway, At, monitors
  <2>2. workerIds'[m] = ctx[x].worker
    BY <1>0, <1>14 DEF Register, Types
  <2> QED
    BY <1>6, <2>1, <2>2 DEF Alive
<1>15. CASE Fail(x)
  <2>1. ctx'[x].monitor # m
    BY <1>5, <1>15 DEF Fail, Proceed, Idle
  <2>2. UNCHANGED <<poller, leaving, workerIds>> /\ m \in failed'
    BY <1>15 DEF Fail, process
  <2>3. Alive(m) = {workerIds[m]} \ {None} /\ \A p : <<m, p>> \notin leaving
    BY <1>3, <1>15 DEF Fail, Midway, At
  <2>4. Done(m)'
    BY <1>1, <1>3, <2>2, <2>3 DEF Done, Midway, Alive
  <2> QED
    BY <1>4, <2>1, <2>4
<1>16. CASE Find(x)
  <2>1. /\ At(x, "find") /\ UNCHANGED <<schedule, poller, leaving, workerIds>>
        /\ ctx'[x].monitor = m /\ ctx'[x].seen = state[m] /\ pc'[x] = "reconcile"
    BY <1>5, <1>16 DEF Find, Goto, Context, monitors, process
  <2>2. Midway(x, m)'
    BY <1>1, <1>3, <2>1 DEF Midway, Alive, At
  <2> QED
    BY <1>4, <2>1, <2>2
<1> QED
  BY <1>8, <1>9, <1>10, <1>11, <1>12, <1>13, <1>14, <1>15, <1>16 DEF Acts, Reconcile

-----------------------------------------------------------------------------
\* The other monitors, and the steps that are nobody's reconciliation.

LEMMA OthersKeep ==
  ASSUME SchedulerInv, NEW m \in Monitor, TasksKnow',
         At(Stopper, "idle")' => At(Stopper, "idle"),
         state'[m] = state[m], workerIds'[m] = workerIds[m], poller'[m] = poller[m],
         todo'[m] = todo[m], m \in schedule' <=> m \in schedule,
         \A p : <<m, p>> \in leaving' <=> <<m, p>> \in leaving,
         m \in contended => m \in contended', m \in failed => m \in failed',
         pc'[Starter] \notin {"down", "list"} => pc[Starter] \notin {"down", "list"},
         \A y \in Task : ctx'[y].monitor = m <=> ctx[y].monitor = m,
         \A y \in Task : ctx[y].monitor = m => ctx'[y] = ctx[y] /\ pc'[y] = pc[y]
  PROVE  MonitorInv(m)'
<1>1. SUFFICES ASSUME Clean(m)' PROVE (Alone(m) /\ Polled(m) /\ Scheduled(m))'
  BY DEF MonitorInv, Clean
<1>2. Alone(m) /\ Polled(m) /\ Scheduled(m) /\ TasksKnow /\ At(Stopper, "idle")
  BY <1>1 DEF SchedulerInv, MonitorInv, Clean
<1>3. snapshot = Nothing /\ snapshot' = Nothing
  BY <1>1, <1>2 DEF TasksKnow, Clean, Nothing
<1>4. \A y \in Task : Visits(y, m)' <=> Visits(y, m)
  BY <1>3 DEF Visits, Nothing
<1>5. Alone(m)'
  BY <1>2, <1>4 DEF Alone
<1>6. Alive(m)' = Alive(m)
  BY DEF Alive
<1>7. Polled(m)'
  <2>1. (\A x \in Task : ctx'[x].monitor = m => pc'[x] \notin {"work", "working", "off"}) =>
          Alive(m)' = {workerIds'[m]} \ {None}
    BY <1>2, <1>6 DEF Polled
  <2>2. \A x \in Task : ctx'[x].monitor = m =>
         /\ At(x, "work")' => workerIds'[m] = None /\ Alive(m)' = {}
         /\ At(x, "working")' => ctx'[x].worker # None /\ Alive(m)' = {ctx'[x].worker}
         /\ At(x, "off")' => Alive(m)' \subseteq {ctx'[x].worker}
    BY <1>2, <1>6 DEF Polled, At
  <2>3. \A p : <<m, p>> \in leaving' =>
         /\ p \in Alive(m)'
         /\ \E x \in Task : ctx'[x].monitor = m /\ At(x, "off")'
    BY <1>2, <1>6 DEF Polled, At
  <2> QED
    BY <2>1, <2>2, <2>3 DEF Polled
<1>8. Scheduled(m)'
  BY <1>2, <1>4 DEF Scheduled, At
<1> QED
  BY <1>5, <1>7, <1>8

LEMMA ActsStep ==
  ASSUME SchedulerInv, TasksKnow', NEW x \in Task, Acts(x), NEW m \in Monitor
  PROVE  MonitorInv(m)'
<1>0. Types /\ TasksKnow
  BY DEF SchedulerInv
<1>1. CASE ctx[x].monitor = m
  BY <1>1, OwnStep
<1>2. CASE ctx[x].monitor # m
  <2>1. At(Stopper, "idle")' => At(Stopper, "idle")
    BY <1>0, StopperStays
  <2>2. /\ ctx'[x].monitor \in {ctx[x].monitor, None}
        /\ \A y \in Task \ {x} : ctx'[y] = ctx[y] /\ pc'[y] = pc[y]
        /\ m \in schedule' <=> m \in schedule
        /\ workerIds'[m] = workerIds[m] /\ poller'[m] = poller[m]
        /\ \A p : <<m, p>> \in leaving' <=> <<m, p>> \in leaving
        /\ m \in failed' <=> m \in failed
        /\ UNCHANGED <<state, todo, snapshot, contended>>
        /\ pc[x] \notin Resting
    BY <1>0, <1>2, ActsAtHome
  <2>3. \A y \in Task : ctx'[y].monitor = m <=> ctx[y].monitor = m
    BY <1>2, <2>2
  <2>4. \A y \in Task : ctx[y].monitor = m => ctx'[y] = ctx[y] /\ pc'[y] = pc[y]
    BY <1>2, <2>2
  <2>5. pc'[Starter] \notin {"down", "list"} => pc[Starter] \notin {"down", "list"}
    BY <2>2 DEF Task, Resting
  <2> QED
    BY <2>1, <2>2, <2>3, <2>4, <2>5, OthersKeep
<1> QED
  BY <1>1, <1>2

LEMMA BeginsStep ==
  ASSUME SchedulerInv, TasksKnow', NEW r \in Requester, NEW n \in Monitor, NEW s \in MonitorState,
         Create(r, n) \/ SetState(r, n, s), NEW m \in Monitor
  PROVE  MonitorInv(m)'
<1>0. Types /\ TasksKnow /\ MonitorInv(m) /\ r \in Task /\ r # Starter /\ r # Stopper
  BY DEF SchedulerInv, Task
<1>1. Begins(r, n) /\ \A q \in Monitor \ {n} : state'[q] = state[q]
  BY <1>0 DEF Create, SetState, Types
<1>2. /\ ctx[r] = Idle /\ ctx'[r].monitor = n /\ pc'[r] = "find"
      /\ \A y \in Task \ {r} : ctx'[y] = ctx[y] /\ pc'[y] = pc[y]
      /\ UNCHANGED <<schedule, poller, leaving, workerIds, todo, snapshot, failed>>
      /\ contended \subseteq contended'
      /\ OnMind(n) = {} \/ n \in contended'
  BY <1>0, <1>1 DEF Begins, Goto, Types, Context, TasksKnow, At, Resting, process, visits
<1>3. Starter \in Task /\ Stopper \in Task
  BY DEF Task
<1>4. CASE m # n
  <2>1. \A y \in Task : ctx'[y].monitor = m <=> ctx[y].monitor = m
    BY <1>2, <1>4 DEF Idle
  <2>2. \A y \in Task : ctx[y].monitor = m => ctx'[y] = ctx[y] /\ pc'[y] = pc[y]
    BY <1>2, <1>4 DEF Idle
  <2>3. /\ At(Stopper, "idle")' => At(Stopper, "idle")
        /\ pc'[Starter] = pc[Starter]
    BY <1>0, <1>2, <1>3 DEF At
  <2> QED
    BY <1>1, <1>2, <1>4, <2>1, <2>2, <2>3, OthersKeep
<1>5. CASE m = n /\ Clean(m)'
  <2>1. Clean(m) /\ Alone(m) /\ Polled(m) /\ Scheduled(m)
    BY <1>0, <1>2, <1>3, <1>5 DEF Clean, At, MonitorInv
  <2>2. \A y \in Task : ~Visits(y, m)
    BY <1>2, <1>5 DEF Clean, OnMind
  <2>3. \A y \in Task \ {r} : ~Visits(y, m)'
    BY <1>2, <2>2 DEF Visits
  <2>4. \A y \in Task : ctx[y].monitor # m
    BY <2>2 DEF Visits
  <2>5. todo[m] = None
    BY <1>3, <2>2 DEF Visits
  <2>6. Alive(m) = {workerIds[m]} \ {None} /\ \A p : <<m, p>> \notin leaving
    BY <2>1, <2>4 DEF Polled
  <2>7. Midway(r, m)'
    BY <1>2, <2>5, <2>6 DEF Midway, Alive, At
  <2>8. MidwayIsMeant'
    BY MidwayIs, PTL
  <2> QED
    BY <1>0, <1>2, <1>5, <2>3, <2>7, <2>8 DEF MidwayIsMeant, MonitorInv
<1> QED
  BY <1>4, <1>5 DEF MonitorInv, Clean

\* start() reads its list while nobody is at a monitor, if nobody met there.
LEMMA ListStep ==
  ASSUME SchedulerInv, List, NEW m \in Monitor
  PROVE  MonitorInv(m)'
<1>0. /\ Types /\ TasksKnow /\ NoRowNoTrace /\ MonitorInv(m)
      /\ Starter \in Task /\ Stopper \in Task /\ Starter # Stopper
  BY DEF SchedulerInv, Task
<1>1. SUFFICES ASSUME Clean(m)' PROVE (Alone(m) /\ Polled(m) /\ Scheduled(m))'
  BY DEF MonitorInv, Clean
<1>2. /\ todo' = state /\ UNCHANGED <<state, schedule, ctx, snapshot, poller, leaving, workerIds, failed>>
      /\ \A y \in Task \ {Starter} : pc'[y] = pc[y]
      /\ contended' = contended \cup {q \in Monitor : OnMind(q) # {}}
      /\ ctx[Starter] = Idle
  BY <1>0 DEF List, Goto, Types, TasksKnow, At, Resting, monitors, process
<1>3. Alone(m) /\ Polled(m) /\ Scheduled(m) /\ \A y \in Task : ~Visits(y, m)
  BY <1>0, <1>1, <1>2 DEF MonitorInv, Clean, At, OnMind
<1>4. \A y \in Task : ctx[y].monitor # m
  BY <1>3 DEF Visits
<1>5. \A y \in Task : Visits(y, m)' => y = Starter
  BY <1>2, <1>3 DEF Visits
<1>6. Alive(m)' = Alive(m)
  BY <1>2 DEF Alive
<1>7. Polled(m)'
  BY <1>2, <1>3, <1>4, <1>6 DEF Polled
<1>8. Scheduled(m)'
  <2>1. CASE state[m] = None
    BY <1>0, <1>2, <1>4, <2>1 DEF Scheduled, NoRowNoTrace, MonitorState
  <2>2. CASE state[m] # None
    <3>1. Visits(Starter, m)'
      BY <1>2, <2>2 DEF Visits
    <3> QED
      BY <1>0, <1>2, <1>4, <3>1 DEF Scheduled
  <2> QED
    BY <2>1, <2>2
<1> QED
  BY <1>5, <1>7, <1>8 DEF Alone

LEMMA VisitStep ==
  ASSUME SchedulerInv, TasksKnow', NEW n \in Monitor, VisitNext(n), NEW m \in Monitor
  PROVE  MonitorInv(m)'
<1>0. /\ Types /\ TasksKnow /\ MonitorInv(m)
      /\ Starter \in Task /\ Stopper \in Task /\ Starter # Stopper
  BY DEF SchedulerInv, Task
<1>1. /\ ctx[Starter] = Idle /\ pc[Starter] = "next" /\ pc'[Starter] = "reconcile"
      /\ ctx'[Starter].monitor = n /\ ctx'[Starter].seen = todo[n] /\ todo[n] # None
      /\ \A y \in Task \ {Starter} : ctx'[y] = ctx[y] /\ pc'[y] = pc[y]
      /\ todo'[n] = None /\ \A q \in Monitor \ {n} : todo'[q] = todo[q]
      /\ UNCHANGED <<state, schedule, snapshot, poller, leaving, workerIds, failed, contended>>
  BY <1>0 DEF VisitNext, Goto, Types, TasksKnow, At, Resting, monitors, process, history, Idle
<1>2. At(Stopper, "idle")' => At(Stopper, "idle")
  BY <1>0, <1>1 DEF At
<1>3. CASE m # n
  <2>1. \A y \in Task : ctx'[y].monitor = m <=> ctx[y].monitor = m
    BY <1>1, <1>3 DEF Idle
  <2>2. \A y \in Task : ctx[y].monitor = m => ctx'[y] = ctx[y] /\ pc'[y] = pc[y]
    BY <1>1, <1>3 DEF Idle
  <2> QED
    BY <1>1, <1>2, <1>3, <2>1, <2>2, OthersKeep
<1>4. CASE m = n /\ Clean(m)'
  <2>1. Alone(m) /\ Polled(m) /\ Scheduled(m)
    BY <1>0, <1>1, <1>2, <1>4 DEF Clean, MonitorInv
  <2>2. Visits(Starter, m)
    BY <1>1, <1>4 DEF Visits
  <2>3. \A y \in Task \ {Starter} : ~Visits(y, m)
    BY <1>0, <2>1, <2>2 DEF Alone
  <2>4. \A y \in Task \ {Starter} : ~Visits(y, m)'
    BY <1>1, <2>3 DEF Visits
  <2>5. \A y \in Task : ctx[y].monitor # m
    BY <1>1, <2>3 DEF Visits, Idle
  <2>6. Alive(m) = {workerIds[m]} \ {None} /\ \A p : <<m, p>> \notin leaving
    BY <2>1, <2>5 DEF Polled
  <2>7. todo[m] = state[m]
    BY <1>1, <1>4, <2>1 DEF Scheduled
  <2>8. Midway(Starter, m)'
    BY <1>1, <1>4, <2>6, <2>7 DEF Midway, Alive, At
  <2>9. MidwayIsMeant'
    BY MidwayIs, PTL
  <2> QED
    BY <1>0, <1>1, <1>4, <2>4, <2>8, <2>9 DEF MidwayIsMeant, MonitorInv
<1> QED
  BY <1>3, <1>4 DEF MonitorInv, Clean

\* A poller that was taken off is gone when its job ends; its task waits for that alone.
LEMMA JobsStep ==
  ASSUME SchedulerInv, TasksKnow', NEW n \in Monitor, NEW q \in Poller,
         TakeJob(n, q) \/ BeginRun(n, q) \/ EndRun(n, q), NEW m \in Monitor
  PROVE  MonitorInv(m)'
<1>0. Types /\ MonitorInv(m)
  BY DEF SchedulerInv
<1>1. UNCHANGED <<state, schedule, workerIds, pc, ctx, todo, snapshot, failed, contended>>
  BY DEF TakeJob, BeginRun, EndRun, monitors, tasks, visits, history
<1>2. \A p \in Poller : /\ m # n \/ p # q => poller'[m][p] = poller[m][p]
                        /\ <<m, p>> \in leaving' => <<m, p>> \in leaving
  BY <1>0 DEF TakeJob, BeginRun, EndRun, Types
<1>3. SUFFICES ASSUME Clean(m)' PROVE (Alone(m) /\ Polled(m) /\ Scheduled(m))'
  BY DEF MonitorInv, Clean
<1>4. Alone(m) /\ Polled(m) /\ Scheduled(m)
  BY <1>0, <1>1, <1>3 DEF MonitorInv, Clean, At
<1>5. Alone(m)'
  BY <1>1, <1>4 DEF Alone, Visits
<1>6. Scheduled(m)'
  BY <1>1, <1>4 DEF Scheduled, At, Visits
<1>7. leaving' \subseteq leaving
  BY DEF TakeJob, BeginRun, EndRun
<1>8. CASE Alive(m)' = Alive(m)
  <2>1. \A p : <<m, p>> \in leaving' =>
         p \in Alive(m)' /\ \E x \in Task : ctx'[x].monitor = m /\ At(x, "off")'
    BY <1>1, <1>4, <1>7, <1>8 DEF Polled, At
  <2>2. \A x \in Task : ctx'[x].monitor = m =>
         /\ At(x, "work")' => workerIds'[m] = None /\ Alive(m)' = {}
         /\ At(x, "working")' => ctx'[x].worker # None /\ Alive(m)' = {ctx'[x].worker}
         /\ At(x, "off")' => Alive(m)' \subseteq {ctx'[x].worker}
    BY <1>1, <1>4, <1>8 DEF Polled, At
  <2>3. (\A x \in Task : ctx'[x].monitor = m => pc'[x] \notin {"work", "working", "off"}) =>
          Alive(m)' = {workerIds'[m]} \ {None}
    BY <1>1, <1>4, <1>8 DEF Polled
  <2> QED
    BY <1>5, <1>6, <2>1, <2>2, <2>3 DEF Polled
<1>9. CASE Alive(m)' # Alive(m)
  <2>1. m = n /\ EndRun(m, q) /\ <<m, q>> \in leaving
    <3>1. ASSUME m # n \/ (poller'[m][q] # "none" /\ poller[m][q] # "none") PROVE FALSE
      <4>1. \A p \in Poller : poller'[m][p] = "none" <=> poller[m][p] = "none"
        BY <1>2, <3>1
      <4> QED
        BY <1>9, <4>1 DEF Alive
    <3>2. m = n /\ poller[m][q] # "none" /\ poller'[m][q] = "none"
      BY <3>1 DEF TakeJob, BeginRun, EndRun
    <3> QED
      BY <1>0, <3>2 DEF TakeJob, BeginRun, EndRun, Types
  <2>2. Alive(m)' = Alive(m) \ {q} /\ \A p : <<m, p>> \in leaving' => <<m, p>> \in leaving /\ p # q
    BY <1>0, <2>1 DEF Alive, EndRun, Types
  <2>3. PICK x \in Task : ctx[x].monitor = m /\ At(x, "off")
    BY <1>4, <2>1 DEF Polled
  <2>4. \A y \in Task : ctx[y].monitor = m => y = x
    BY <1>4, <2>3 DEF Alone, Visits
  <2>5. Alive(m) \subseteq {ctx[x].worker} /\ \A p : <<m, p>> \in leaving => p \in Alive(m)
    BY <1>4, <2>3 DEF Polled
  <2>6. \A p : <<m, p>> \in leaving' => FALSE
    BY <2>1, <2>2, <2>5
  <2> QED
    BY <1>1, <1>5, <1>6, <2>2, <2>3, <2>4, <2>5, <2>6 DEF Polled, At
<1> QED
  BY <1>5, <1>6, <1>8, <1>9

LEMMA MonitorStep ==
  ASSUME SchedulerInv, TasksKnow', [Next]_vars, ~Gone, NEW m \in Monitor
  PROVE  MonitorInv(m)'
<1>0. /\ Types /\ TasksKnow /\ Requester \subseteq Task
      /\ Starter \in Task /\ Stopper \in Task /\ Starter # Stopper
  BY DEF SchedulerInv, Task
<1>1. CASE UNCHANGED <<state, schedule, poller, leaving, workerIds, pc, ctx, todo, snapshot,
                       failed, contended>>
  BY <1>1, OthersKeep DEF At
<1>2. CASE Boot \/ Ready
  <2>1. /\ ctx[Starter] = Idle /\ ctx' = ctx /\ \A y \in Task \ {Starter} : pc'[y] = pc[y]
        /\ UNCHANGED <<state, schedule, poller, leaving, workerIds, todo, failed, contended>>
        /\ pc'[Starter] \notin {"down", "list"} => pc[Starter] \notin {"down", "list"}
    BY <1>0, <1>2 DEF Boot, Ready, Goto, Types, TasksKnow, At, Resting, monitors, process, visits,
       history
  <2>2. /\ At(Stopper, "idle")' => At(Stopper, "idle")
        /\ \A y \in Task : ctx[y].monitor = m => ctx'[y] = ctx[y] /\ pc'[y] = pc[y]
    BY <1>0, <2>1 DEF At, Idle
  <2> QED
    BY <2>1, <2>2, OthersKeep
<1>3. CASE Shutdown \/ \E n \in Monitor : StopNext(n)
  BY <1>0, <1>3 DEF Shutdown, StopNext, Goto, Types, At, MonitorInv
<1> QED
  BY <1>0, <1>1, <1>2, <1>3, ActsStep, BeginsStep, ListStep, VisitStep, JobsStep
  DEF Next, Start, Stop, Jobs, Exit, Crash, Cron, Acts, monitors, process, tasks, visits, history,
      vars, MonitorState

LEMMA SchedulerStep == SchedulerInv /\ [Next]_vars => SchedulerInv'
<1> SUFFICES ASSUME SchedulerInv, [Next]_vars PROVE SchedulerInv'
  OBVIOUS
<1>1. CASE Gone
  BY <1>1, GoneKeeps
<1>2. CASE ~Gone
  <2>1. Types /\ TasksKnow /\ NoRowNoTrace
    BY DEF SchedulerInv
  <2>2. Types' /\ TasksKnow' /\ NoRowNoTrace'
    BY <2>1, TypesStep, KnowsStep, NoRowStep
  <2>3. \A m \in Monitor : MonitorInv(m)'
    BY <1>2, <2>2, MonitorStep
  <2> QED
    BY <2>2, <2>3 DEF SchedulerInv
<1> QED
  BY <1>1, <1>2

\* ScheduleFollowsState: for any number of monitors and requests, through failed calls, jobs
\* that run on, shutdowns and crashes, the schedule and the poller of a monitor whose last
\* reconciliation ran alone and to its end are the ones its state asks for.
THEOREM SchedulesFollowStates == Spec => []ScheduleFollowsState
<1>1. SchedulerInv => ScheduleFollowsState
  <2> SUFFICES ASSUME SchedulerInv, NEW m \in Monitor, Settled(m), m \notin failed \cup contended
               PROVE  IF state[m] = "active"
                      THEN m \in schedule /\ workerIds[m] # None /\ Alive(m) = {workerIds[m]}
                      ELSE m \notin schedule /\ workerIds[m] = None /\ Alive(m) = {}
    BY DEF ScheduleFollowsState
  <2>1. Polled(m) /\ Scheduled(m) /\ pc[Starter] = "serving"
    BY DEF SchedulerInv, MonitorInv, Settled, At
  <2>2. \A y \in Task : ~Visits(y, m) /\ ctx[y].monitor # m
    BY DEF Settled, OnMind, Visits
  <2>3. Alive(m) = {workerIds[m]} \ {None}
    BY <2>1, <2>2 DEF Polled
  <2>4. m \in schedule <=> state[m] = "active"
    BY <2>1, <2>2 DEF Scheduled
  <2>5. workerIds[m] # None <=> state[m] = "active"
    BY <2>1, <2>2 DEF Scheduled
  <2> QED
    BY <2>3, <2>4, <2>5
<1> QED
  BY <1>1, InitScheduler, SchedulerStep, PTL DEF Spec
=============================================================================
