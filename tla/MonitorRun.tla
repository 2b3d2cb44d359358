----------------------------- MODULE MonitorRun -----------------------------
(***************************************************************************)
(* One traversal of one monitor, from the job handler's attempt to take    *)
(* the monitor's lease to the release of that lease, together with         *)
(* everything that competes with it for the same rows: other workers'      *)
(* handlers, monitor-set-state requests, source edits, and the recovery a  *)
(* starting worker performs.                                               *)
(*                                                                         *)
(* An actor is one asynchronous invocation.  Its pc names the await it     *)
(* stands at; one action is what the code does between two awaits.  A      *)
(* PostgreSQL transaction is one action, because it locks the Monitor row  *)
(* first.  The Kufar feed is reduced to the time of its newest listing     *)
(* (top); pages, ties and the boundary ids are the subject of Traversal.   *)
(***************************************************************************)
EXTENDS Naturals

CONSTANTS
  Worker,      \* utility worker processes that may be alive at the same time
  Executor,    \* invocations of the scheduled-run executor
  Requester,   \* invocations of the monitor-set-state handler
  Editor,      \* invocations of updateMonitorConfig that patch the source
  HostOf,      \* the worker an invocation runs in
  Monitor, Source,
  MaxRuns,     \* bound: rows of the Run table
  MaxRevision, \* values of MonitorCursor.updatedAt, reused once nobody remembers them
  MaxTop,      \* bound: how far the feed advances
  Nobody, Lingering, None

Invocation == Executor \cup Requester \cup Editor
Actor == Worker \cup Invocation
RunId == 1..MaxRuns
Revision == 1..MaxRevision
Time == 0..MaxTop  \* 0 stands for no time at all
MonitorState == {"active", "paused", "archived"}
Terminal == {"success", "catchup", "skipped", "error", "interrupted"}

\* Nobody: the lease is free.  Lingering: a dead process's session still holds it.
ASSUME ActorsAreDistinct ==
  /\ Worker \cap Invocation = {}
  /\ Executor \cap Requester = {}
  /\ Executor \cap Editor = {}
  /\ Requester \cap Editor = {}
  /\ Nobody \notin Actor /\ Lingering \notin Actor /\ Nobody # Lingering
ASSUME HostsAreWorkers == HostOf \in [Invocation -> Worker]
ASSUME BoundsAreNaturals == MaxRuns \in Nat /\ MaxTop \in Nat \ {0}
  /\ MaxRevision \in Nat
ASSUME NoneIsNoValue ==
  /\ None \notin Source /\ None \notin Revision /\ None \notin Monitor
  /\ None \notin RunId /\ None \notin MonitorState /\ None \notin Terminal

\* No deployed caller edits a source; edits are taken one at a time.
ASSUME OneEditor == \A d, e \in Editor : d = e

VARIABLES
  state,       \* Monitor.state
  source,      \* Monitor.sourceUrl and Monitor.query, as one identity
  cursor,      \* the monitor's MonitorCursor row, or NoCursor
  run,         \* the Run table
  lease,       \* who holds the monitor's advisory lock
  up,          \* the phase of a worker process
  todo,        \* the monitors a recovering worker has still to look at
  pc, ctx,     \* where an invocation stands, and its local variables
  top,         \* time of the newest listing on Kufar
  dropped,     \* history: monitors whose lock the database once took back
  restoredAt   \* history: top when the monitor last left the archive

vars == <<state, source, cursor, run, lease, up, todo, pc, ctx, top, dropped,
          restoredAt>>
config == <<state, source, restoredAt>>
workers == <<up, todo>>
world == <<top, dropped>>

NoCursor == [rev |-> None, source |-> None, boundary |-> 0, pending |-> 0]
Absent == [monitor |-> None, outcome |-> None]
Blank == [monitor |-> None, run |-> None, source |-> None, state |-> None,
          rev |-> None, boundary |-> 0, pending |-> 0, since |-> 0, target |-> None]

Init ==
  /\ state = [m \in Monitor |-> "active"]
  /\ source \in [Monitor -> Source]
  /\ cursor = [m \in Monitor |-> NoCursor]
  /\ run = [r \in RunId |-> Absent]
  /\ lease = [m \in Monitor |-> Nobody]
  /\ up = [w \in Worker |-> "down"]
  /\ todo = [w \in Worker |-> {}]
  /\ pc = [x \in Actor |-> "idle"]
  /\ ctx = [x \in Actor |-> Blank]
  /\ top = 1
  /\ dropped = {}
  /\ restoredAt = [m \in Monitor |-> 0]

-----------------------------------------------------------------------------
\* Shared steps.

At(x, label) == pc[x] = label
Goto(x, label) == pc' = [pc EXCEPT ![x] = label]
Remember(x, fields) == ctx' = [ctx EXCEPT ![x] = fields]

\* Leaving for the finally block, or for the catch block, forgets the rest.
Leave(x) ==
  /\ Goto(x, "release")
  /\ Remember(x, [Blank EXCEPT !.monitor = ctx[x].monitor])
Throw(x) ==
  /\ Goto(x, "failing")
  /\ Remember(x, [Blank EXCEPT !.monitor = ctx[x].monitor, !.run = ctx[x].run])

Row(m, outcome) == [monitor |-> m, outcome |-> outcome]

\* Run rows are numbered in the order they are created.
Fresh(r) ==
  /\ run[r] = Absent
  /\ \A q \in RunId : q < r => run[q] # Absent

SetOutcome(r, outcome) == run' = [run EXCEPT ![r].outcome = outcome]

\* A timestamp that neither the row nor any running traversal has seen; which one
\* makes no difference, so the least.
Remembered(m, v) == cursor[m].rev = v \/ \E x \in Actor : ctx[x].rev = v
NewRevision(m, v) ==
  /\ ~Remembered(m, v)
  /\ \A u \in Revision : u < v => Remembered(m, u)

TakeSharedLease(x, m) ==  \* mutant: pg_try_advisory_lock_shared
  lease' = [lease EXCEPT ![m] = x]

\* pg_try_advisory_lock in a session of the invocation's own.
TakeLease(x, m) ==
  /\ lease[m] = Nobody
  /\ lease' = [lease EXCEPT ![m] = x]

KeepLease(x, m) == UNCHANGED lease  \* mutant: no finally block

\* finally { await lease.release() }: ends the invocation's own session only.
GiveBackLease(x, m) ==
  lease' = [lease EXCEPT ![m] = IF @ = x THEN Nobody ELSE @]

Finish(x) ==
  /\ Goto(x, "idle")
  /\ Remember(x, Blank)

Release(x) ==
  /\ At(x, "release")
  /\ GiveBackLease(x, ctx[x].monitor)
  /\ Finish(x)
  /\ UNCHANGED <<config, cursor, run, workers, world>>

-----------------------------------------------------------------------------
\* The scheduled-run executor.

\* pg-boss hands a job to the handler, which tries the lock without waiting.
\* Nothing ties the job to the monitor's present state: it may be a late one.
StartJob(a, m) ==
  /\ At(a, "idle") /\ up[HostOf[a]] = "serving"
  /\ Remember(a, [Blank EXCEPT !.monitor = m])
  /\ \/ TakeLease(a, m) /\ Goto(a, "admit")
     \/ lease[m] # Nobody /\ Goto(a, "skip") /\ UNCHANGED lease
  /\ UNCHANGED <<config, cursor, run, workers, world>>

\* recordSkippedOverlap; if the insert fails the job fails and leaves no row.
RecordSkippedOverlap(a) ==
  /\ At(a, "skip")
  /\ \/ \E r \in RunId :
          /\ Fresh(r)
          /\ run' = [run EXCEPT ![r] = Row(ctx[a].monitor, "skipped")]
     \/ UNCHANGED run
  /\ Finish(a)
  /\ UNCHANGED <<config, cursor, lease, workers, world>>

MayRunAnyState(m) == TRUE  \* mutant: the state is not looked at
MayRun(m) == state[m] = "active"

\* The monitor's state is read under the lease; the read itself may fail.
Admit(a) ==
  /\ At(a, "admit")
  /\ \/ MayRun(ctx[a].monitor) /\ Goto(a, "create") /\ UNCHANGED ctx
     \/ Leave(a)
  /\ UNCHANGED <<config, cursor, run, lease, workers, world>>

CreateRun(a) ==
  /\ At(a, "create")
  /\ \/ \E r \in RunId :
          /\ Fresh(r)
          /\ run' = [run EXCEPT ![r] = Row(ctx[a].monitor, "running")]
          /\ Remember(a, [ctx[a] EXCEPT !.run = r])
          /\ Goto(a, "cycle")
     \/ Leave(a) /\ UNCHANGED run
  /\ UNCHANGED <<config, cursor, lease, workers, world>>

\* runMonitorCycle: the kind of cycle is chosen from one read of the cursor,
\* which the chosen cycle then repeats.
ChooseCycle(a) ==
  /\ At(a, "cycle")
  /\ Goto(a, IF cursor[ctx[a].monitor] = NoCursor THEN "coldRead" ELSE "incRead")
  /\ UNCHANGED <<config, cursor, run, lease, workers, ctx, world>>

\* runColdStartMonitor's snapshot; ColdStartNotRequiredError if a baseline exists.
ColdRead(a) ==
  LET m == ctx[a].monitor IN
  /\ At(a, "coldRead")
  /\ \/ /\ cursor[m] = NoCursor
        /\ Remember(a, [ctx[a] EXCEPT !.source = source[m], !.state = state[m],
                                      !.since = top])
        /\ Goto(a, "coldCommit")
     \/ cursor[m] # NoCursor /\ Throw(a)
  /\ UNCHANGED <<config, cursor, run, lease, workers, world>>

ShouldResetOnSource(before, after) ==  \* mutant: a restore keeps the cursor
  before.source # after.source
ShouldReset(before, after) ==
  \/ before.source # after.source
  \/ before.state = "archived" /\ after.state # "archived"

ConfigNow(m) == [source |-> source[m], state |-> state[m]]

ColdStartIsCurrentForAnySource(a) ==  \* mutant: the source is not compared
  cursor[ctx[a].monitor] = NoCursor
ColdStartIsCurrent(a) ==
  LET m == ctx[a].monitor IN
  /\ ~ShouldReset([source |-> ctx[a].source, state |-> ctx[a].state], ConfigNow(m))
  /\ cursor[m] = NoCursor

WriteCursor(a, boundary, pending) ==
  LET m == ctx[a].monitor IN
  \E v \in Revision :
    /\ NewRevision(m, v)
    /\ cursor' = [cursor EXCEPT ![m] = [rev |-> v, source |-> ctx[a].source,
                                       boundary |-> boundary, pending |-> pending]]

Commit(a, outcome) == SetOutcome(ctx[a].run, outcome) /\ Leave(a)

Stale(a) == Throw(a) /\ UNCHANGED <<cursor, run>>

\* traverseColdStartBaseline: the newest listing at some moment since the snapshot is
\* the baseline.  Then persistColdStartBaselineTransaction, or StaleColdStartError.
ColdCommit(a) ==
  /\ At(a, "coldCommit")
  /\ \/ /\ ColdStartIsCurrent(a)
        /\ \E newest \in ctx[a].since..top : WriteCursor(a, newest, 0)
        /\ Commit(a, "success")
     \/ ~ColdStartIsCurrent(a) /\ Stale(a)
  /\ UNCHANGED <<config, lease, workers, world>>

\* runIncrementalMonitor's snapshot of query and cursor; ColdStartRequiredError
\* if the cursor has gone.
IncRead(a) ==
  LET m == ctx[a].monitor IN
  /\ At(a, "incRead")
  /\ \/ /\ cursor[m] # NoCursor
        /\ Remember(a, [ctx[a] EXCEPT !.source = source[m], !.rev = cursor[m].rev,
                                      !.boundary = cursor[m].boundary,
                                      !.pending = cursor[m].pending, !.since = top])
        /\ Goto(a, "incCommit")
     \/ cursor[m] = NoCursor /\ Throw(a)
  /\ UNCHANGED <<config, cursor, run, lease, workers, world>>

\* traverseWithRecovery.  The watermark to promote is the one saved with the
\* checkpoint, or the newest listing when there is no checkpoint or it has gone stale.
Reached(a) == ctx[a].since..top \cup ({ctx[a].pending} \ {0})

\* A traversal cut at the page cap keeps the boundary and saves a checkpoint.
CommitTraversal(a) ==
  \E reached \in Reached(a) :
    \/ WriteCursor(a, reached, 0) /\ Commit(a, "success")
    \/ WriteCursor(a, ctx[a].boundary, reached) /\ Commit(a, "catchup")

RevisionUnchecked(a) ==  \* mutant: updatedAt is not compared
  cursor[ctx[a].monitor] # NoCursor
RevisionIsCurrent(a) ==
  LET m == ctx[a].monitor IN cursor[m] # NoCursor /\ cursor[m].rev = ctx[a].rev

\* persistMonitorRunTransaction, or StaleMonitorRunError.
IncCommit(a) ==
  /\ At(a, "incCommit")
  /\ \/ RevisionIsCurrent(a) /\ CommitTraversal(a)
     \/ ~RevisionIsCurrent(a) /\ Stale(a)
  /\ UNCHANGED <<config, lease, workers, world>>

\* A source, parse, detail or database error at any await of the cycle.
CycleStep == {"cycle", "coldRead", "coldCommit", "incRead", "incCommit"}
Traversing == CycleStep \cup {"failing"}

CycleFails(a) ==
  /\ pc[a] \in CycleStep
  /\ Throw(a)
  /\ UNCHANGED <<config, cursor, run, lease, workers, world>>

\* The catch block's update names the row by id only; it may fail in its turn,
\* which leaves the row "running" in a worker that lives on.
JournalFailure(a) ==
  /\ At(a, "failing")
  /\ SetOutcome(ctx[a].run, "error") \/ UNCHANGED run
  /\ Leave(a)
  /\ UNCHANGED <<config, cursor, lease, workers, world>>

RunStep(a) ==
  \/ RecordSkippedOverlap(a) \/ Admit(a) \/ CreateRun(a) \/ ChooseCycle(a)
  \/ ColdRead(a) \/ ColdCommit(a) \/ IncRead(a) \/ IncCommit(a)
  \/ CycleFails(a) \/ JournalFailure(a) \/ Release(a)

-----------------------------------------------------------------------------
\* Changes of a monitor's configuration.

\* setMonitorStateAndSync.  A busy lease is MonitorStateBusyError: no change.
\* Requests are served from the moment the process listens, before start() ends.
StartSetState(q, m, s) ==
  /\ At(q, "idle") /\ up[HostOf[q]] # "down"
  /\ TakeLease(q, m)
  /\ Remember(q, [Blank EXCEPT !.monitor = m, !.target = s])
  /\ Goto(q, "check")
  /\ UNCHANGED <<config, cursor, run, workers, world>>

\* MonitorStateTransitionError, or a legacy query with no API mapping, or a failed
\* read, releases without a change.
CheckTransition(q) ==
  /\ At(q, "check")
  /\ \/ /\ state[ctx[q].monitor] = "archived" => ctx[q].target # "paused"
        /\ Goto(q, "configRead")
        /\ UNCHANGED ctx
     \/ Leave(q)
  /\ UNCHANGED <<config, cursor, run, lease, workers, world>>

\* updateMonitorConfig({sourceUrl, query}): takes no lease.
StartEdit(e, m, s) ==
  /\ At(e, "idle") /\ up[HostOf[e]] # "down"
  /\ Remember(e, [Blank EXCEPT !.monitor = m, !.target = s])
  /\ Goto(e, "configRead")
  /\ UNCHANGED <<config, cursor, run, lease, workers, world>>

\* updateMonitorConfigTransaction reads the row without locking it, so another
\* transaction can run between the read and the write.
ConfigRead(x) ==
  LET m == ctx[x].monitor IN
  /\ At(x, "configRead")
  /\ \/ /\ Remember(x, [ctx[x] EXCEPT !.source = source[m], !.state = state[m]])
        /\ Goto(x, "configWrite")
     \/ Leave(x)
  /\ UNCHANGED <<config, cursor, run, lease, workers, world>>

Before(x) == [source |-> ctx[x].source, state |-> ctx[x].state]
After(x) ==
  IF x \in Editor THEN [source |-> ctx[x].target, state |-> ctx[x].state]
                  ELSE [source |-> ctx[x].source, state |-> ctx[x].target]
Patch(x, m) ==
  IF x \in Editor
  THEN source' = [source EXCEPT ![m] = ctx[x].target] /\ UNCHANGED state
  ELSE state' = [state EXCEPT ![m] = ctx[x].target] /\ UNCHANGED source

\* The write, the reset of the cursor, and the scheduler sync that follows (the
\* schedule is modelled in MonitorScheduler).
ConfigWrite(x) ==
  LET m == ctx[x].monitor IN
  /\ At(x, "configWrite")
  /\ Patch(x, m)
  /\ cursor' = [cursor EXCEPT ![m] =
       IF ShouldReset(Before(x), After(x)) THEN NoCursor ELSE @]
  /\ restoredAt' = [restoredAt EXCEPT ![m] =
       IF state[m] = "archived" /\ state'[m] # "archived" THEN top ELSE @]
  /\ Leave(x)
  /\ UNCHANGED <<run, lease, workers, world>>

ConfigStep(x) == CheckTransition(x) \/ ConfigRead(x) \/ ConfigWrite(x) \/ Release(x)

-----------------------------------------------------------------------------
\* Worker processes and the recovery a starting worker performs.

Spawn(w) ==
  /\ up[w] = "down"
  /\ up' = [up EXCEPT ![w] = "starting"]
  /\ UNCHANGED <<config, cursor, run, lease, todo, pc, ctx, world>>

UnfinishedOrNot(m) ==  \* mutant: the outcome predicate is lost
  {r \in RunId : run[r].monitor = m}
Unfinished(m) == {r \in RunId : run[r] = Row(m, "running")}

ListCandidates(w) ==
  /\ up[w] = "starting"
  /\ up' = [up EXCEPT ![w] = "recovering"]
  /\ todo' = [todo EXCEPT ![w] = {m \in Monitor : Unfinished(m) # {}}]
  /\ UNCHANGED <<config, cursor, run, lease, pc, ctx, world>>

\* A busy lease is a sign of a live owner: the monitor is passed over.
TryRecover(w, m) ==
  /\ up[w] = "recovering" /\ At(w, "idle") /\ m \in todo[w]
  /\ todo' = [todo EXCEPT ![w] = @ \ {m}]
  /\ \/ /\ TakeLease(w, m)
        /\ Remember(w, [Blank EXCEPT !.monitor = m])
        /\ Goto(w, "recover")
     \/ lease[m] # Nobody /\ UNCHANGED <<lease, pc, ctx>>
  /\ UNCHANGED <<config, cursor, run, up, world>>

RecoverRows(w) ==
  /\ At(w, "recover")
  /\ run' = [r \in RunId |-> IF r \in Unfinished(ctx[w].monitor)
                             THEN [run[r] EXCEPT !.outcome = "interrupted"]
                             ELSE run[r]]
  /\ Leave(w)
  /\ UNCHANGED <<config, cursor, lease, workers, world>>

\* recovery is over: scheduler.start() lets jobs in.
Serve(w) ==
  /\ up[w] = "recovering" /\ At(w, "idle") /\ todo[w] = {}
  /\ up' = [up EXCEPT ![w] = "serving"]
  /\ UNCHANGED <<config, cursor, run, lease, todo, pc, ctx, world>>

RecoveryStep(w) ==
  \/ ListCandidates(w) \/ RecoverRows(w) \/ Release(w) \/ Serve(w)
  \/ \E m \in Monitor : TryRecover(w, m)

\* The process ends between any two steps: killed, an uncaught error, a failed
\* start, or exit(0) with requests still in flight.  Its sessions outlive it.
Dies(x, w) == x = w \/ (x # w /\ x \in Invocation /\ HostOf[x] = w)

Crash(w) ==
  /\ up[w] # "down"
  /\ up' = [up EXCEPT ![w] = "down"]
  /\ todo' = [todo EXCEPT ![w] = {}]
  /\ pc' = [x \in Actor |-> IF Dies(x, w) THEN "idle" ELSE pc[x]]
  /\ ctx' = [x \in Actor |-> IF Dies(x, w) THEN Blank ELSE ctx[x]]
  /\ lease' = [m \in Monitor |->
       IF lease[m] \in Actor /\ Dies(lease[m], w) THEN Lingering ELSE lease[m]]
  /\ UNCHANGED <<config, cursor, run, world>>

-----------------------------------------------------------------------------
\* PostgreSQL sessions and the feed.

\* The server notices that the client is gone and frees its advisory lock.
SessionEnds(m) ==
  /\ lease[m] = Lingering
  /\ lease' = [lease EXCEPT ![m] = Nobody]
  /\ UNCHANGED <<config, cursor, run, workers, pc, ctx, world>>

\* The server ends the session of a living client, which goes on unaware of it.
SessionDropped(m) ==
  /\ lease[m] \in Actor
  /\ lease' = [lease EXCEPT ![m] = Nobody]
  /\ dropped' = dropped \cup {m}
  /\ UNCHANGED <<config, cursor, run, workers, pc, ctx, top>>

NewListing ==
  /\ top < MaxTop
  /\ top' = top + 1
  /\ UNCHANGED <<config, cursor, run, lease, workers, pc, ctx, dropped>>

-----------------------------------------------------------------------------
Next ==
  \/ \E a \in Executor : RunStep(a) \/ \E m \in Monitor : StartJob(a, m)
  \/ \E q \in Requester :
       \/ ConfigStep(q)
       \/ \E m \in Monitor, s \in MonitorState : StartSetState(q, m, s)
  \/ \E e \in Editor :
       ConfigStep(e) \/ \E m \in Monitor, s \in Source : StartEdit(e, m, s)
  \/ \E w \in Worker : Spawn(w) \/ RecoveryStep(w) \/ Crash(w)
  \/ \E m \in Monitor : SessionEnds(m) \/ SessionDropped(m)
  \/ NewListing

\* The event loop resumes every await: requests time out, queries return or fail.
\* Jobs, requests, crashes, dropped sessions and new listings need not happen.
Fairness ==
  /\ \A a \in Executor : WF_vars(RunStep(a))
  /\ \A x \in Requester \cup Editor : WF_vars(ConfigStep(x))
  /\ \A w \in Worker : WF_vars(RecoveryStep(w))
  /\ \A m \in Monitor : WF_vars(SessionEnds(m))

Spec == Init /\ [][Next]_vars /\ Fairness

-----------------------------------------------------------------------------
\* Properties.

Holding ==  \* steps at which an invocation believes that it holds the lease
  Traversing \cup {"admit", "create", "check", "recover", "release"}
Leased(x, m) ==
  /\ ctx[x].monitor = m
  /\ \/ x \in Worker \cup Executor /\ pc[x] \in Holding
     \/ x \in Requester /\ pc[x] \in Holding \cup {"configRead", "configWrite"}

Owns(x, r) == x \in Executor /\ pc[x] \in Traversing /\ ctx[x].run = r

Label == {"idle", "skip", "admit", "create", "check", "configRead", "configWrite",
          "recover", "release"} \cup Traversing
Context == [monitor : Monitor \cup {None}, run : RunId \cup {None},
            source : Source \cup {None}, state : MonitorState \cup {None},
            rev : Revision \cup {None}, boundary : Time, pending : Time, since : Time,
            target : MonitorState \cup Source \cup {None}]
CursorRow == [rev : Revision \cup {None}, source : Source \cup {None},
              boundary : Time, pending : Time]
RunRow == {Absent} \cup [monitor : Monitor, outcome : Terminal \cup {"running"}]

TypeOK ==
  /\ state \in [Monitor -> MonitorState]
  /\ source \in [Monitor -> Source]
  /\ cursor \in [Monitor -> CursorRow]
  /\ run \in [RunId -> RunRow]
  /\ lease \in [Monitor -> Actor \cup {Nobody, Lingering}]
  /\ up \in [Worker -> {"down", "starting", "recovering", "serving"}]
  /\ todo \in [Worker -> SUBSET Monitor]
  /\ pc \in [Actor -> Label]
  /\ ctx \in [Actor -> Context]
  /\ top \in Time
  /\ dropped \in SUBSET Monitor
  /\ restoredAt \in [Monitor -> Time]

\* At most one traversal, state change or recovery of a monitor is past its lease,
\* across all worker processes, through crashes and restarts, as long as the
\* database has never taken the monitor's lock back from a living client.
OneOwnerPerMonitor ==
  \A m \in Monitor \ dropped : \A x, y \in Actor :
    Leased(x, m) /\ Leased(y, m) => x = y

\* The Run row of a traversal still under way is "running": neither another
\* worker's recovery nor another traversal has finished it.
LiveRunStaysRunning ==
  \A x \in Executor, r \in RunId :
    Owns(x, r) /\ ctx[x].monitor \notin dropped
      => run[r] = Row(ctx[x].monitor, "running")

\* A traversal never works for a paused or archived monitor: a state read under the
\* lease cannot have changed since.
TraversedMonitorIsActive ==
  \A x \in Executor :
    pc[x] \in Traversing /\ ctx[x].monitor \notin dropped
      => state[ctx[x].monitor] = "active"

\* A stored watermark always belongs to the source the monitor has now, although
\* edits take no lease and traversals outlast them.  Holds with dropped sessions too.
CursorMatchesSource ==
  \A m \in Monitor : cursor[m] # NoCursor => cursor[m].source = source[m]

\* A monitor back from the archive starts from a baseline taken after its return: it
\* never reports what was published while it was archived.
NoBacklogAfterRestore ==
  \A m \in Monitor \ dropped :
    cursor[m] # NoCursor => cursor[m].boundary >= restoredAt[m]

\* The outcome of a finished run is never rewritten.
OutcomeIsFinal ==
  [][\A r \in RunId :
       run[r].outcome \in Terminal /\ run[r].monitor \notin dropped
         => run'[r] = run[r]]_run

\* A watermark that is not reset never moves backwards, even when two traversals
\* overlap because a session was dropped.
WatermarkNeverRegresses ==
  [][\A m \in Monitor :
       cursor[m] # NoCursor /\ cursor'[m] # NoCursor
         => cursor'[m].boundary >= cursor[m].boundary]_cursor

\* A lease always comes free again: every path of every handler gives it back, and a
\* dead process does not keep it.
LeaseComesFree ==
  \A m \in Monitor : []<>(lease[m] = Nobody)

\* What the rest of the program may assume of the Run table: RunJournal.
Journal == INSTANCE RunJournal WITH
  owned <- {r \in RunId : \E x \in Executor : Owns(x, r)}, suspect <- dropped
KeepsRunJournal == Journal!Spec

\* Startup recovery leaves no orphan behind: when it is over, every "running" row has
\* a living owner.
StartupRecoversOrphans ==
  [][\A w \in Worker :
       up[w] = "recovering" /\ up'[w] = "serving"
         => \A r \in RunId :
              run[r].outcome = "running" /\ run[r].monitor \notin dropped
                => \E x \in Executor : Owns(x, r)]_up
=============================================================================
