-------------------------- MODULE MonitorRunProofs --------------------------
(***************************************************************************)
(* What MonitorRun guarantees for any number of workers, invocations,      *)
(* monitors and sources, and for any bounds.                               *)
(***************************************************************************)
EXTENDS MonitorRun, TLAPS

Safety == Init /\ [][Next]_vars

\* An invocation stands only at the steps of its own handler, and its local variables
\* hold what the steps behind it have put there.
InRecovery(w) ==
  /\ pc[w] \in {"idle", "recover", "release"}
  /\ pc[w] # "idle" => ctx[w].monitor \in Monitor
InSetState(q) ==
  /\ pc[q] \in {"idle", "check", "configRead", "configWrite", "release"}
  /\ pc[q] # "idle" => ctx[q].monitor \in Monitor
  /\ pc[q] \in {"check", "configRead", "configWrite"} => ctx[q].target \in MonitorState
InEdit(e) ==
  /\ pc[e] \in {"idle", "configRead", "configWrite", "release"}
  /\ pc[e] # "idle" => ctx[e].monitor \in Monitor
  /\ pc[e] \in {"configRead", "configWrite"} => ctx[e].target \in Source
InRun(a) ==
  /\ pc[a] \in {"idle", "skip", "admit", "create", "release"} \cup Traversing
  /\ pc[a] # "idle" => ctx[a].monitor \in Monitor
  /\ pc[a] \in Traversing =>
       ctx[a].run \in RunId /\ run[ctx[a].run].monitor = ctx[a].monitor

HandlersKeepState ==
  /\ \A w \in Worker : InRecovery(w)
  /\ \A q \in Requester : InSetState(q)
  /\ \A e \in Editor : InEdit(e)
  /\ \A a \in Executor : InRun(a)

TypeInv == TypeOK /\ HandlersKeepState

\* The lock names the invocation that believes in it.
LeaseNamesHolder ==
  \A m \in Monitor \ dropped : \A x \in Actor : Leased(x, m) => lease[m] = x

AdmittedIsActive ==
  \A a \in Executor :
    pc[a] = "create" /\ ctx[a].monitor \notin dropped => state[ctx[a].monitor] = "active"

-----------------------------------------------------------------------------
USE DEF Actor, Invocation

\* A step of x alone: every other invocation stays where it is.
Moves(x) ==
  /\ pc' \in [Actor -> Label] /\ ctx' \in [Actor -> Context]
  /\ \A y \in Actor \ {x} : pc'[y] = pc[y] /\ ctx'[y] = ctx[y]

\* What a step of x may do to the lease: keep a claim, make one, or give it up.
UsesLease(x) ==
  \/ lease' = lease /\ \A m \in Monitor : Leased(x, m)' => Leased(x, m)
  \/ \E m \in Monitor : TakeLease(x, m) /\ ctx'[x].monitor = m
  \/ \E m \in Monitor :
       GiveBackLease(x, m) /\ \A n \in Monitor : ~Leased(x, n)'

\* Rows are only added, except by their owner, which then has done with them, and by
\* a recovery under the lease of their monitor.
UsesRuns(x) ==
  /\ run' \in [RunId -> RunRow]
  /\ \A r \in RunId : run[r] # Absent => run'[r].monitor = run[r].monitor
  /\ \A r \in RunId :
       \/ run'[r] = run[r] \/ run[r] = Absent
       \/ Owns(x, r) /\ pc'[x] = "release"
       \/ pc[x] = "recover" /\ x \in Worker /\ run[r] = Row(ctx[x].monitor, "running")
  /\ \A r \in RunId : Owns(x, r)' =>
       \/ run' = run /\ Owns(x, r) /\ ctx'[x].monitor = ctx[x].monitor
       \/ run'[r] = Row(ctx'[x].monitor, "running")

Effect(x) == Moves(x) /\ UsesLease(x) /\ UsesRuns(x)

LEMMA BlankIsContext ==
  ASSUME NEW m \in Monitor, NEW t \in MonitorState \cup Source \cup {None},
         NEW r \in RunId \cup {None}
  PROVE  /\ Blank \in Context
         /\ [Blank EXCEPT !.monitor = m] \in Context
         /\ [Blank EXCEPT !.monitor = m, !.target = t] \in Context
         /\ [Blank EXCEPT !.monitor = m, !.run = r] \in Context
  <1>0. 0 \in Time
    BY BoundsAreNaturals DEF Time
  <1>1. Blank \in Context
    BY <1>0 DEF Blank, Context
  <1>2. [Blank EXCEPT !.monitor = m] \in Context
    BY <1>0 DEF Blank, Context
  <1>3. [Blank EXCEPT !.monitor = m, !.target = t] \in Context
    BY <1>0 DEF Blank, Context
  <1>4. [Blank EXCEPT !.monitor = m, !.run = r] \in Context
    BY <1>0 DEF Blank, Context
  <1> QED
    BY <1>1, <1>2, <1>3, <1>4

LEMMA GoingMoves ==
  ASSUME pc \in [Actor -> Label], ctx \in [Actor -> Context], NEW x \in Actor,
         NEW l \in Label, NEW c \in Context,
         pc' = [pc EXCEPT ![x] = l], ctx' = [ctx EXCEPT ![x] = c]
  PROVE  Moves(x) /\ pc'[x] = l /\ ctx'[x] = c
  BY DEF Moves

LEMMA LeaveMoves ==
  ASSUME pc \in [Actor -> Label], ctx \in [Actor -> Context], NEW x \in Actor,
         ctx[x].monitor \in Monitor, Leave(x)
  PROVE  Moves(x) /\ pc'[x] = "release" /\ ctx'[x].monitor = ctx[x].monitor
  <1>1. [Blank EXCEPT !.monitor = ctx[x].monitor] \in Context
    BY BlankIsContext
  <1>2. [Blank EXCEPT !.monitor = ctx[x].monitor].monitor = ctx[x].monitor
    BY DEF Blank
  <1> QED
    BY <1>1, <1>2 DEF Leave, Goto, Remember, Moves, Label

LEMMA ThrowMoves ==
  ASSUME pc \in [Actor -> Label], ctx \in [Actor -> Context], NEW x \in Actor,
         ctx[x].monitor \in Monitor, Throw(x)
  PROVE  /\ Moves(x) /\ pc'[x] = "failing"
         /\ ctx'[x].monitor = ctx[x].monitor /\ ctx'[x].run = ctx[x].run
  <1> DEFINE c == [Blank EXCEPT !.monitor = ctx[x].monitor, !.run = ctx[x].run]
  <1>1. c \in Context
    BY BlankIsContext DEF Context
  <1>2. c.monitor = ctx[x].monitor /\ c.run = ctx[x].run
    BY DEF Blank
  <1>3. pc' = [pc EXCEPT ![x] = "failing"] /\ ctx' = [ctx EXCEPT ![x] = c]
    BY DEF Throw, Goto, Remember
  <1> HIDE DEF c
  <1> QED
    BY <1>1, <1>2, <1>3 DEF Moves, Label, Traversing

LEMMA FinishMoves ==
  ASSUME pc \in [Actor -> Label], ctx \in [Actor -> Context], NEW x \in Actor, Finish(x)
  PROVE  Moves(x) /\ pc'[x] = "idle"
  <1>1. Blank \in Context
    BY BoundsAreNaturals DEF Blank, Context, Time
  <1> QED
    BY <1>1 DEF Finish, Goto, Remember, Moves, Label

LEMMA RunsUntouched ==
  ASSUME TypeOK, NEW x \in Actor, Moves(x), run' = run,
         \A r \in RunId : Owns(x, r)' => Owns(x, r) /\ ctx'[x].monitor = ctx[x].monitor
  PROVE  UsesRuns(x)
  BY DEF UsesRuns, TypeOK

LEMMA LeaseUntouched ==
  ASSUME NEW x \in Actor, Moves(x), lease' = lease,
         pc'[x] \in Holding => pc[x] \in Holding /\ ctx'[x].monitor = ctx[x].monitor,
         x \in Requester /\ pc'[x] \in {"configRead", "configWrite"} =>
           /\ pc[x] \in Holding \cup {"configRead", "configWrite"}
           /\ ctx'[x].monitor = ctx[x].monitor,
         x \in Requester /\ pc'[x] \in Holding => pc[x] \in Holding \cup {"configRead", "configWrite"}
  PROVE  UsesLease(x)
  BY DEF UsesLease, Leased

LEMMA RowAdded ==
  ASSUME TypeOK, NEW x \in Actor, Moves(x), NEW r \in RunId, Fresh(r), NEW m \in Monitor,
         NEW o \in Terminal \cup {"running"}, run' = [run EXCEPT ![r] = Row(m, o)],
         \A q \in RunId : Owns(x, q)' => q = r /\ o = "running" /\ ctx'[x].monitor = m
  PROVE  UsesRuns(x)
  <1>1. Row(m, o) \in RunRow
    BY DEF Row, RunRow
  <1>2. run[r] = Absent
    BY DEF Fresh
  <1> QED
    BY <1>1, <1>2 DEF UsesRuns, TypeOK

LEMMA OutcomeSet ==
  ASSUME TypeOK, NEW x \in Executor, Moves(x), InRun(x), pc[x] \in Traversing,
         NEW o \in Terminal, SetOutcome(ctx[x].run, o), pc'[x] = "release"
  PROVE  UsesRuns(x)
  <1> DEFINE r == ctx[x].run
             row == [run[r] EXCEPT !.outcome = o]
  <1>1. r \in RunId /\ run[r].monitor = ctx[x].monitor /\ ctx[x].monitor \in Monitor
    BY DEF InRun, Traversing, CycleStep
  <1>2. run[r] \in [monitor : Monitor, outcome : Terminal \cup {"running"}]
    BY <1>1, NoneIsNoValue DEF TypeOK, RunRow, Absent
  <1>3. row \in RunRow /\ row.monitor = run[r].monitor
    BY <1>2 DEF RunRow
  <1>4. run' = [run EXCEPT ![r] = row]
    BY <1>1 DEF SetOutcome, TypeOK
  <1>5. \A q \in RunId : ~Owns(x, q)'
    BY DEF Owns, Traversing, CycleStep
  <1>6. Owns(x, r)
    BY DEF Owns
  <1> HIDE DEF row
  <1> QED
    BY <1>1, <1>3, <1>4, <1>5, <1>6 DEF UsesRuns, TypeOK

-----------------------------------------------------------------------------
\* One lemma per action: what it does, and that it keeps its handler's state.

LEMMA StartJobEffect ==
  ASSUME TypeInv, NEW a \in Executor, NEW m \in Monitor, StartJob(a, m)
  PROVE  TypeOK' /\ InRun(a)' /\ Effect(a)
  <1>1. [Blank EXCEPT !.monitor = m] \in Context /\ [Blank EXCEPT !.monitor = m].monitor = m
    BY BlankIsContext DEF Blank
  <1>2. PICK l \in {"admit", "skip"} :
          /\ ctx' = [ctx EXCEPT ![a] = [Blank EXCEPT !.monitor = m]]
          /\ pc' = [pc EXCEPT ![a] = l]
    BY DEF StartJob, Remember, Goto
  <1>3. Moves(a) /\ ctx'[a].monitor = m /\ pc'[a] \in {"admit", "skip"}
    BY <1>1, <1>2, GoingMoves DEF TypeInv, TypeOK, Label
  <1>4. UsesRuns(a)
    <2>1. ~(pc'[a] \in Traversing)
      BY <1>3 DEF Traversing, CycleStep
    <2> QED
      BY <1>3, <2>1, RunsUntouched DEF TypeInv, StartJob, Owns
  <1>5. UsesLease(a)
    <2>1. CASE TakeLease(a, m)
      BY <1>3, <2>1 DEF UsesLease
    <2>2. CASE ~TakeLease(a, m)
      <3>1. lease' = lease /\ pc' = [pc EXCEPT ![a] = "skip"]
        BY <2>2 DEF StartJob, Goto
      <3>2. pc'[a] = "skip"
        BY <3>1 DEF TypeInv, TypeOK
      <3> QED
        BY <3>1, <3>2 DEF UsesLease, Leased, Holding, Traversing, CycleStep
    <2> QED
      BY <2>1, <2>2
  <1>6. TypeOK'
    BY <1>3, <1>4 DEF TypeInv, TypeOK, Moves, UsesRuns, StartJob, TakeLease, config,
       workers, world
  <1>7. InRun(a)'
    BY <1>3 DEF InRun, Traversing, CycleStep
  <1> QED
    BY <1>3, <1>4, <1>5, <1>6, <1>7 DEF Effect

LEMMA ReleaseEffect ==
  ASSUME TypeInv, NEW x \in Actor, Release(x), ctx[x].monitor \in Monitor
  PROVE  TypeOK' /\ pc'[x] = "idle" /\ Effect(x)
  <1>1. Moves(x) /\ pc'[x] = "idle"
    BY FinishMoves DEF Release, TypeInv, TypeOK
  <1>2. UsesRuns(x)
    BY <1>1, RunsUntouched DEF TypeInv, Release, Owns, Traversing, CycleStep
  <1>3. UsesLease(x)
    BY <1>1 DEF UsesLease, Leased, Holding, Traversing, CycleStep, Release
  <1>4. TypeOK'
    BY <1>1, <1>2 DEF TypeInv, TypeOK, Moves, UsesRuns, Release, GiveBackLease, config,
       workers, world
  <1> QED
    BY <1>1, <1>2, <1>3, <1>4 DEF Effect

LEMMA RecordSkippedOverlapEffect ==
  ASSUME TypeInv, NEW a \in Executor, RecordSkippedOverlap(a)
  PROVE  TypeOK' /\ InRun(a)' /\ Effect(a)
  <1>1. Moves(a) /\ pc'[a] = "idle"
    BY FinishMoves DEF RecordSkippedOverlap, TypeInv, TypeOK
  <1>2. ctx[a].monitor \in Monitor
    BY DEF RecordSkippedOverlap, At, TypeInv, HandlersKeepState, InRun
  <1>3. \A r \in RunId : ~Owns(a, r)'
    BY <1>1 DEF Owns, Traversing, CycleStep
  <1>4. UsesRuns(a)
    BY <1>1, <1>2, <1>3, RowAdded, RunsUntouched DEF RecordSkippedOverlap, TypeInv, Terminal
  <1>5. UsesLease(a)
    BY <1>1 DEF UsesLease, Leased, Holding, Traversing, CycleStep, RecordSkippedOverlap
  <1>6. TypeOK'
    BY <1>1, <1>4 DEF TypeInv, TypeOK, Moves, UsesRuns, RecordSkippedOverlap, config,
       workers, world
  <1>7. InRun(a)'
    BY <1>1 DEF InRun, Traversing, CycleStep
  <1> QED
    BY <1>1, <1>4, <1>5, <1>6, <1>7 DEF Effect

LEMMA AdmitEffect ==
  ASSUME TypeInv, NEW a \in Executor, Admit(a)
  PROVE  TypeOK' /\ InRun(a)' /\ Effect(a)
  <1>1. pc[a] = "admit" /\ ctx[a].monitor \in Monitor
    BY DEF Admit, At, TypeInv, HandlersKeepState, InRun
  <1>2. /\ Moves(a) /\ pc'[a] \in {"create", "release"}
        /\ ctx'[a].monitor = ctx[a].monitor
    <2>1. CASE Leave(a)
      BY <1>1, <2>1, LeaveMoves DEF TypeInv, TypeOK
    <2>2. CASE Goto(a, "create") /\ ctx' = ctx
      BY <2>2 DEF Goto, Moves, TypeInv, TypeOK, Label
    <2> QED
      BY <2>1, <2>2 DEF Admit
  <1>3. UsesRuns(a)
    BY <1>2, RunsUntouched DEF Admit, Owns, Traversing, CycleStep, TypeInv
  <1>4. UsesLease(a)
    BY <1>1, <1>2, ActorsAreDistinct, LeaseUntouched DEF Admit, Holding
  <1>5. TypeOK'
    BY <1>2, <1>3 DEF TypeInv, TypeOK, Moves, UsesRuns, Admit, config, workers, world
  <1>6. InRun(a)'
    BY <1>1, <1>2 DEF InRun, Traversing, CycleStep
  <1> QED
    BY <1>2, <1>3, <1>4, <1>5, <1>6 DEF Effect

LEMMA CreateRunEffect ==
  ASSUME TypeInv, NEW a \in Executor, CreateRun(a)
  PROVE  TypeOK' /\ InRun(a)' /\ Effect(a)
  <1>1. pc[a] = "create" /\ ctx[a].monitor \in Monitor
    BY DEF CreateRun, At, TypeInv, HandlersKeepState, InRun
  <1>2. CASE Leave(a) /\ run' = run
    <2>1. Moves(a) /\ pc'[a] = "release" /\ ctx'[a].monitor = ctx[a].monitor
      BY <1>1, <1>2, LeaveMoves DEF TypeInv, TypeOK
    <2>2. UsesRuns(a)
      BY <1>2, <2>1, RunsUntouched DEF Owns, Traversing, CycleStep, TypeInv
    <2>3. UsesLease(a)
      BY <1>1, <2>1, ActorsAreDistinct, LeaseUntouched DEF CreateRun, Holding
    <2>4. TypeOK'
      BY <2>1, <2>2 DEF TypeInv, TypeOK, Moves, UsesRuns, CreateRun, config, workers, world
    <2>5. InRun(a)'
      BY <1>1, <2>1 DEF InRun, Traversing, CycleStep
    <2> QED
      BY <2>1, <2>2, <2>3, <2>4, <2>5 DEF Effect
  <1>3. CASE \E r \in RunId :
               /\ Fresh(r) /\ run' = [run EXCEPT ![r] = Row(ctx[a].monitor, "running")]
               /\ Remember(a, [ctx[a] EXCEPT !.run = r]) /\ Goto(a, "cycle")
    <2>1. PICK r \in RunId :
            /\ Fresh(r) /\ run' = [run EXCEPT ![r] = Row(ctx[a].monitor, "running")]
            /\ Remember(a, [ctx[a] EXCEPT !.run = r]) /\ Goto(a, "cycle")
      BY <1>3
    <2> DEFINE c == [ctx[a] EXCEPT !.run = r]
    <2>2. c \in Context /\ c.run = r /\ c.monitor = ctx[a].monitor
      BY DEF TypeInv, TypeOK, Context
    <2>3. ctx' = [ctx EXCEPT ![a] = c]
      BY <2>1 DEF Remember
    <2> HIDE DEF c
    <2>4. /\ Moves(a) /\ pc'[a] = "cycle" /\ ctx'[a].run = r
          /\ ctx'[a].monitor = ctx[a].monitor
      BY <2>1, <2>2, <2>3, GoingMoves DEF Goto, TypeInv, TypeOK, Label, Traversing, CycleStep
    <2>5. UsesRuns(a)
      BY <1>1, <2>1, <2>4, RowAdded DEF Owns, TypeInv
    <2>6. UsesLease(a)
      BY <1>1, <2>4, ActorsAreDistinct, LeaseUntouched DEF CreateRun, Holding
    <2>7. TypeOK'
      BY <2>4, <2>5 DEF TypeInv, TypeOK, Moves, UsesRuns, CreateRun, config, workers, world
    <2>8. InRun(a)'
      BY <1>1, <2>1, <2>4 DEF InRun, Traversing, CycleStep, Row, TypeInv, TypeOK
    <2> QED
      BY <2>4, <2>5, <2>6, <2>7, <2>8 DEF Effect
  <1> QED
    BY <1>2, <1>3 DEF CreateRun

\* A step inside the cycle that neither writes the Run table nor leaves it.
LEMMA CycleMoveEffect ==
  ASSUME TypeInv, NEW a \in Executor, pc[a] \in CycleStep, NEW l \in Traversing,
         Moves(a), pc'[a] = l, ctx'[a].run = ctx[a].run, ctx'[a].monitor = ctx[a].monitor,
         UNCHANGED <<config, cursor, run, lease, workers, world>>
  PROVE  TypeOK' /\ InRun(a)' /\ Effect(a)
  <1>1. InRun(a) /\ pc[a] \in Traversing
    BY DEF TypeInv, HandlersKeepState, Traversing
  <1>2. UsesRuns(a)
    BY <1>1, RunsUntouched DEF Owns, TypeInv
  <1>3. UsesLease(a)
    BY <1>1, ActorsAreDistinct, LeaseUntouched DEF Holding
  <1>4. TypeOK'
    BY <1>2 DEF TypeInv, TypeOK, Moves, UsesRuns, config, workers, world
  <1>5. InRun(a)'
    BY <1>1 DEF InRun, Traversing, CycleStep
  <1> QED
    BY <1>2, <1>3, <1>4, <1>5 DEF Effect

LEMMA ThrowEffect ==
  ASSUME TypeInv, NEW a \in Executor, pc[a] \in CycleStep, Throw(a),
         UNCHANGED <<config, cursor, run, lease, workers, world>>
  PROVE  TypeOK' /\ InRun(a)' /\ Effect(a)
  <1>1. ctx[a].monitor \in Monitor
    BY DEF TypeInv, HandlersKeepState, InRun, CycleStep
  <1>2. /\ Moves(a) /\ pc'[a] = "failing"
        /\ ctx'[a].monitor = ctx[a].monitor /\ ctx'[a].run = ctx[a].run
    BY <1>1, ThrowMoves DEF TypeInv, TypeOK
  <1> QED
    BY <1>2, CycleMoveEffect DEF Traversing

LEMMA ChooseCycleEffect ==
  ASSUME TypeInv, NEW a \in Executor, ChooseCycle(a)
  PROVE  TypeOK' /\ InRun(a)' /\ Effect(a)
  <1>1. pc[a] \in CycleStep
    BY DEF ChooseCycle, At, CycleStep
  <1>2. PICK l \in {"coldRead", "incRead"} : pc' = [pc EXCEPT ![a] = l]
    BY DEF ChooseCycle, Goto
  <1>3. Moves(a) /\ pc'[a] = l /\ ctx' = ctx
    BY <1>2 DEF ChooseCycle, Moves, TypeInv, TypeOK, Label, Traversing, CycleStep
  <1> QED
    BY <1>1, <1>3, CycleMoveEffect DEF ChooseCycle, Traversing, CycleStep

LEMMA ColdReadEffect ==
  ASSUME TypeInv, NEW a \in Executor, ColdRead(a)
  PROVE  TypeOK' /\ InRun(a)' /\ Effect(a)
  <1> DEFINE m == ctx[a].monitor
             c == [ctx[a] EXCEPT !.source = source[m], !.state = state[m], !.since = top]
  <1>1. pc[a] \in CycleStep /\ m \in Monitor
    BY DEF ColdRead, At, CycleStep, TypeInv, HandlersKeepState, InRun
  <1>2. CASE Throw(a)
    BY <1>1, <1>2, ThrowEffect DEF ColdRead
  <1>3. CASE Goto(a, "coldCommit") /\ ctx' = [ctx EXCEPT ![a] = c]
    <2>1. c \in Context /\ c.run = ctx[a].run /\ c.monitor = ctx[a].monitor
      BY <1>1 DEF TypeInv, TypeOK, Context
    <2> HIDE DEF c
    <2>2. Moves(a) /\ pc'[a] = "coldCommit" /\ ctx'[a] = c
      BY <1>3, <2>1, GoingMoves DEF Goto, TypeInv, TypeOK, Label, Traversing, CycleStep
    <2> QED
      BY <1>1, <2>1, <2>2, CycleMoveEffect DEF ColdRead, Traversing, CycleStep
  <1>4. Throw(a) \/ (Goto(a, "coldCommit") /\ ctx' = [ctx EXCEPT ![a] = c])
    BY DEF ColdRead, Remember
  <1> QED
    BY <1>2, <1>3, <1>4

LEMMA IncReadEffect ==
  ASSUME TypeInv, NEW a \in Executor, IncRead(a)
  PROVE  TypeOK' /\ InRun(a)' /\ Effect(a)
  <1> DEFINE m == ctx[a].monitor
             c == [ctx[a] EXCEPT !.source = source[m], !.rev = cursor[m].rev,
                                 !.boundary = cursor[m].boundary,
                                 !.pending = cursor[m].pending, !.since = top]
  <1>1. pc[a] \in CycleStep /\ m \in Monitor
    BY DEF IncRead, At, CycleStep, TypeInv, HandlersKeepState, InRun
  <1>2. CASE Throw(a)
    BY <1>1, <1>2, ThrowEffect DEF IncRead
  <1>3. CASE Goto(a, "incCommit") /\ ctx' = [ctx EXCEPT ![a] = c]
    <2>1. cursor[m] \in CursorRow
      BY <1>1 DEF TypeInv, TypeOK
    <2>2. c \in Context /\ c.run = ctx[a].run /\ c.monitor = ctx[a].monitor
      <3>1. source[m] \in Source /\ top \in Time /\ ctx[a] \in Context
        BY <1>1 DEF TypeInv, TypeOK
      <3>2. /\ cursor[m].rev \in Revision \cup {None}
            /\ cursor[m].boundary \in Time /\ cursor[m].pending \in Time
        BY <2>1 DEF CursorRow
      <3> QED
        BY <3>1, <3>2 DEF Context
    <2> HIDE DEF c
    <2>3. Moves(a) /\ pc'[a] = "incCommit" /\ ctx'[a] = c
      BY <1>3, <2>2, GoingMoves DEF Goto, TypeInv, TypeOK, Label, Traversing, CycleStep
    <2> QED
      BY <1>1, <2>2, <2>3, CycleMoveEffect DEF IncRead, Traversing, CycleStep
  <1>4. Throw(a) \/ (Goto(a, "incCommit") /\ ctx' = [ctx EXCEPT ![a] = c])
    BY DEF IncRead, Remember
  <1> QED
    BY <1>2, <1>3, <1>4

\* The last write of a run, with or without a cursor.
LEMMA OutcomeEffect ==
  ASSUME TypeInv, NEW a \in Executor, pc[a] \in Traversing, Leave(a),
         \/ run' = run
         \/ \E o \in Terminal : SetOutcome(ctx[a].run, o),
         cursor' \in [Monitor -> CursorRow],
         UNCHANGED <<config, lease, workers, world>>
  PROVE  TypeOK' /\ InRun(a)' /\ Effect(a)
  <1>1. ctx[a].monitor \in Monitor /\ InRun(a)
    BY DEF TypeInv, HandlersKeepState, InRun, Traversing, CycleStep
  <1>2. Moves(a) /\ pc'[a] = "release" /\ ctx'[a].monitor = ctx[a].monitor
    BY <1>1, LeaveMoves DEF TypeInv, TypeOK
  <1>3. \A q \in RunId : ~Owns(a, q)'
    BY <1>2 DEF Owns, Traversing, CycleStep
  <1>4. UsesRuns(a)
    BY <1>1, <1>2, <1>3, OutcomeSet, RunsUntouched DEF TypeInv
  <1>5. UsesLease(a)
    BY <1>2, ActorsAreDistinct, LeaseUntouched DEF Holding
  <1>6. TypeOK'
    BY <1>2, <1>4 DEF TypeInv, TypeOK, Moves, UsesRuns, config, workers, world
  <1>7. InRun(a)'
    BY <1>1, <1>2 DEF InRun, Traversing, CycleStep
  <1> QED
    BY <1>2, <1>4, <1>5, <1>6, <1>7 DEF Effect

LEMMA CursorWritten ==
  ASSUME TypeOK, NEW a \in Executor, NEW b \in Time, NEW p \in Time, WriteCursor(a, b, p)
  PROVE  cursor' \in [Monitor -> CursorRow]
  <1> DEFINE row(v) == [rev |-> v, source |-> ctx[a].source, boundary |-> b, pending |-> p]
  <1>1. ctx[a].source \in Source \cup {None}
    BY DEF TypeOK, Context
  <1>2. \A v \in Revision : row(v) \in CursorRow
    BY <1>1 DEF CursorRow
  <1>3. PICK v \in Revision : cursor' = [cursor EXCEPT ![ctx[a].monitor] = row(v)]
    BY DEF WriteCursor
  <1> HIDE DEF row
  <1> QED
    BY <1>2, <1>3 DEF TypeOK

LEMMA TimesAreTimes ==
  ASSUME TypeOK, NEW a \in Executor
  PROVE  /\ ctx[a].since..top \subseteq Time /\ 0 \in Time
         /\ ctx[a].boundary \in Time /\ Reached(a) \subseteq Time
  <1>1. ctx[a].since \in Time /\ ctx[a].boundary \in Time /\ ctx[a].pending \in Time
    BY DEF TypeOK, Context
  <1>2. top \in Time
    BY DEF TypeOK
  <1> QED
    BY <1>1, <1>2, BoundsAreNaturals DEF Time, Reached

LEMMA ColdCommitEffect ==
  ASSUME TypeInv, NEW a \in Executor, ColdCommit(a)
  PROVE  TypeOK' /\ InRun(a)' /\ Effect(a)
  <1>1. pc[a] \in CycleStep
    BY DEF ColdCommit, At, CycleStep
  <1>2. CASE Stale(a)
    BY <1>1, <1>2, ThrowEffect DEF ColdCommit, Stale
  <1>3. CASE /\ \E newest \in ctx[a].since..top : WriteCursor(a, newest, 0)
             /\ Commit(a, "success")
    <2>1. cursor' \in [Monitor -> CursorRow]
      BY <1>3, CursorWritten, TimesAreTimes DEF TypeInv
    <2> QED
      BY <1>1, <1>3, <2>1, OutcomeEffect DEF ColdCommit, Commit, Terminal, Traversing
  <1> QED
    BY <1>2, <1>3 DEF ColdCommit

LEMMA IncCommitEffect ==
  ASSUME TypeInv, NEW a \in Executor, IncCommit(a)
  PROVE  TypeOK' /\ InRun(a)' /\ Effect(a)
  <1>1. pc[a] \in CycleStep
    BY DEF IncCommit, At, CycleStep
  <1>2. CASE Stale(a)
    BY <1>1, <1>2, ThrowEffect DEF IncCommit, Stale
  <1>3. CASE CommitTraversal(a)
    <2>1. cursor' \in [Monitor -> CursorRow]
      BY <1>3, CursorWritten, TimesAreTimes DEF TypeInv, CommitTraversal
    <2>2. Leave(a) /\ \E o \in Terminal : SetOutcome(ctx[a].run, o)
      BY <1>3 DEF CommitTraversal, Commit, Terminal
    <2> QED
      BY <1>1, <2>1, <2>2, OutcomeEffect DEF IncCommit, Traversing
  <1> QED
    BY <1>2, <1>3 DEF IncCommit

LEMMA RunStepEffect ==
  ASSUME TypeInv, NEW a \in Executor, RunStep(a)
  PROVE  TypeOK' /\ InRun(a)' /\ Effect(a)
  <1>1. CASE CycleFails(a)
    BY <1>1, ThrowEffect DEF CycleFails
  <1>2. CASE JournalFailure(a)
    <2>1. cursor' \in [Monitor -> CursorRow]
      BY <1>2 DEF JournalFailure, TypeInv, TypeOK
    <2> QED
      BY <1>2, <2>1, OutcomeEffect DEF JournalFailure, At, Traversing, Terminal
  <1>3. CASE Release(a)
    <2>1. ctx[a].monitor \in Monitor
      BY <1>3 DEF Release, At, TypeInv, HandlersKeepState, InRun
    <2> QED
      BY <1>3, <2>1, ReleaseEffect DEF InRun, Traversing, CycleStep
  <1> QED
    BY <1>1, <1>2, <1>3, RecordSkippedOverlapEffect, AdmitEffect, CreateRunEffect,
       ChooseCycleEffect, ColdReadEffect, ColdCommitEffect, IncReadEffect, IncCommitEffect
       DEF RunStep

Configures(x) == (x \in Requester => InSetState(x)') /\ (x \in Editor => InEdit(x)')

LEMMA NoRunOfItsOwn ==
  ASSUME TypeOK, NEW x \in Actor, x \notin Executor, Moves(x), run' = run
  PROVE  UsesRuns(x)
  BY RunsUntouched DEF Owns

LEMMA StartSetStateEffect ==
  ASSUME TypeInv, NEW q \in Requester, NEW m \in Monitor, NEW s \in MonitorState,
         StartSetState(q, m, s)
  PROVE  TypeOK' /\ InSetState(q)' /\ Effect(q)
  <1> DEFINE c == [Blank EXCEPT !.monitor = m, !.target = s]
  <1>1. c \in Context /\ c.monitor = m /\ c.target = s
    BY BlankIsContext DEF Blank
  <1>2. ctx' = [ctx EXCEPT ![q] = c] /\ pc' = [pc EXCEPT ![q] = "check"]
    BY DEF StartSetState, Remember, Goto
  <1> HIDE DEF c
  <1>3. Moves(q) /\ ctx'[q] = c /\ pc'[q] = "check"
    BY <1>1, <1>2, GoingMoves DEF TypeInv, TypeOK, Label
  <1>4. UsesRuns(q)
    BY <1>3, ActorsAreDistinct, NoRunOfItsOwn DEF TypeInv, StartSetState
  <1>5. UsesLease(q)
    BY <1>1, <1>3 DEF UsesLease, StartSetState
  <1>6. TypeOK'
    BY <1>3, <1>4 DEF TypeInv, TypeOK, Moves, UsesRuns, StartSetState, TakeLease, config,
       workers, world
  <1>7. InSetState(q)'
    BY <1>1, <1>3 DEF InSetState
  <1> QED
    BY <1>3, <1>4, <1>5, <1>6, <1>7 DEF Effect

LEMMA StartEditEffect ==
  ASSUME TypeInv, NEW e \in Editor, NEW m \in Monitor, NEW s \in Source,
         StartEdit(e, m, s)
  PROVE  TypeOK' /\ InEdit(e)' /\ Effect(e)
  <1> DEFINE c == [Blank EXCEPT !.monitor = m, !.target = s]
  <1>1. c \in Context /\ c.monitor = m /\ c.target = s
    BY BlankIsContext DEF Blank
  <1>2. ctx' = [ctx EXCEPT ![e] = c] /\ pc' = [pc EXCEPT ![e] = "configRead"]
    BY DEF StartEdit, Remember, Goto
  <1> HIDE DEF c
  <1>3. Moves(e) /\ ctx'[e] = c /\ pc'[e] = "configRead"
    BY <1>1, <1>2, GoingMoves DEF TypeInv, TypeOK, Label
  <1>4. UsesRuns(e)
    BY <1>3, ActorsAreDistinct, NoRunOfItsOwn DEF TypeInv, StartEdit
  <1>5. UsesLease(e)
    BY <1>3, ActorsAreDistinct DEF UsesLease, StartEdit, Leased
  <1>6. TypeOK'
    BY <1>3, <1>4 DEF TypeInv, TypeOK, Moves, UsesRuns, StartEdit, config, workers, world
  <1>7. InEdit(e)'
    BY <1>1, <1>3 DEF InEdit
  <1> QED
    BY <1>3, <1>4, <1>5, <1>6, <1>7 DEF Effect

\* A configuration step that leaves the handler's target and monitor alone.
LEMMA ConfigMoveEffect ==
  ASSUME TypeInv, NEW x \in Requester \cup Editor,
         pc[x] \in {"check", "configRead", "configWrite"},
         Moves(x), ctx'[x].monitor = ctx[x].monitor,
         pc'[x] = "release" \/
           (pc'[x] \in {"configRead", "configWrite"} /\ ctx'[x].target = ctx[x].target),
         UNCHANGED <<run, lease>>
  PROVE  Configures(x) /\ Effect(x)
  <1>1. ctx[x].monitor \in Monitor
    BY DEF TypeInv, HandlersKeepState, InSetState, InEdit
  <1>2. UsesRuns(x)
    BY ActorsAreDistinct, NoRunOfItsOwn DEF TypeInv
  <1>3. UsesLease(x)
    BY ActorsAreDistinct DEF UsesLease, Leased, Holding
  <1>4. Configures(x)
    BY <1>1 DEF Configures, TypeInv, HandlersKeepState, InSetState, InEdit
  <1> QED
    BY <1>2, <1>3, <1>4 DEF Effect

LEMMA CheckTransitionEffect ==
  ASSUME TypeInv, NEW x \in Requester \cup Editor, CheckTransition(x)
  PROVE  TypeOK' /\ Configures(x) /\ Effect(x)
  <1>1. pc[x] = "check" /\ ctx[x].monitor \in Monitor
    BY DEF CheckTransition, At, TypeInv, HandlersKeepState, InSetState, InEdit
  <1>2. /\ Moves(x) /\ ctx'[x].monitor = ctx[x].monitor
        /\ pc'[x] = "release" \/ (pc'[x] = "configRead" /\ ctx' = ctx)
    <2>1. CASE Leave(x)
      BY <1>1, <2>1, LeaveMoves DEF TypeInv, TypeOK
    <2>2. CASE Goto(x, "configRead") /\ ctx' = ctx
      BY <2>2 DEF Goto, Moves, TypeInv, TypeOK, Label
    <2> QED
      BY <2>1, <2>2 DEF CheckTransition
  <1>3. Configures(x) /\ Effect(x)
    BY <1>1, <1>2, ConfigMoveEffect DEF CheckTransition
  <1>4. TypeOK'
    BY <1>2 DEF TypeInv, TypeOK, Moves, CheckTransition, config, workers, world
  <1> QED
    BY <1>3, <1>4

LEMMA ConfigReadEffect ==
  ASSUME TypeInv, NEW x \in Requester \cup Editor, ConfigRead(x)
  PROVE  TypeOK' /\ Configures(x) /\ Effect(x)
  <1> DEFINE m == ctx[x].monitor
             c == [ctx[x] EXCEPT !.source = source[m], !.state = state[m]]
  <1>1. pc[x] = "configRead" /\ m \in Monitor
    BY DEF ConfigRead, At, TypeInv, HandlersKeepState, InSetState, InEdit
  <1>2. c \in Context /\ c.target = ctx[x].target /\ c.monitor = ctx[x].monitor
    BY <1>1 DEF TypeInv, TypeOK, Context
  <1>3. Leave(x) \/ (Goto(x, "configWrite") /\ ctx' = [ctx EXCEPT ![x] = c])
    BY DEF ConfigRead, Remember
  <1> HIDE DEF c
  <1>4. /\ Moves(x) /\ ctx'[x].monitor = ctx[x].monitor
        /\ pc'[x] = "release" \/ (pc'[x] = "configWrite" /\ ctx'[x].target = ctx[x].target)
    <2>1. CASE Leave(x)
      BY <1>1, <2>1, LeaveMoves DEF TypeInv, TypeOK
    <2>2. CASE Goto(x, "configWrite") /\ ctx' = [ctx EXCEPT ![x] = c]
      BY <1>2, <2>2, GoingMoves DEF Goto, TypeInv, TypeOK, Label
    <2> QED
      BY <1>3, <2>1, <2>2
  <1>5. Configures(x) /\ Effect(x)
    BY <1>1, <1>4, ConfigMoveEffect DEF ConfigRead
  <1>6. TypeOK'
    BY <1>4 DEF TypeInv, TypeOK, Moves, ConfigRead, config, workers, world
  <1> QED
    BY <1>5, <1>6

LEMMA ConfigWriteEffect ==
  ASSUME TypeInv, NEW x \in Requester \cup Editor, ConfigWrite(x)
  PROVE  TypeOK' /\ Configures(x) /\ Effect(x)
  <1> DEFINE m == ctx[x].monitor
  <1>1. pc[x] = "configWrite" /\ m \in Monitor
    BY DEF ConfigWrite, At, TypeInv, HandlersKeepState, InSetState, InEdit
  <1>2. Moves(x) /\ ctx'[x].monitor = ctx[x].monitor /\ pc'[x] = "release"
    BY <1>1, LeaveMoves DEF ConfigWrite, TypeInv, TypeOK
  <1>3. Configures(x) /\ Effect(x)
    BY <1>1, <1>2, ConfigMoveEffect DEF ConfigWrite
  <1>4. state' \in [Monitor -> MonitorState] /\ source' \in [Monitor -> Source]
    BY <1>1, ActorsAreDistinct DEF ConfigWrite, Patch, TypeInv, TypeOK,
       HandlersKeepState, InSetState, InEdit
  <1>5. cursor' \in [Monitor -> CursorRow]
    <2>1. NoCursor \in CursorRow
      BY TimesAreTimes, BoundsAreNaturals DEF NoCursor, CursorRow, Time
    <2> QED
      BY <2>1 DEF ConfigWrite, TypeInv, TypeOK
  <1>6. TypeOK'
    BY <1>2, <1>4, <1>5 DEF TypeInv, TypeOK, Moves, ConfigWrite, workers, world
  <1> QED
    BY <1>3, <1>6

LEMMA ConfigStepEffect ==
  ASSUME TypeInv, NEW x \in Requester \cup Editor, ConfigStep(x)
  PROVE  TypeOK' /\ Configures(x) /\ Effect(x)
  <1>1. CASE Release(x)
    <2>1. ctx[x].monitor \in Monitor
      BY <1>1 DEF Release, At, TypeInv, HandlersKeepState, InSetState, InEdit
    <2> QED
      BY <1>1, <2>1, ReleaseEffect DEF Configures, InSetState, InEdit
  <1> QED
    BY <1>1, CheckTransitionEffect, ConfigReadEffect, ConfigWriteEffect DEF ConfigStep

\* A step of a worker that leaves its process, its lease and its locals alone.
LEMMA WorkerStands ==
  ASSUME TypeInv, NEW w \in Worker, pc' = pc, ctx' = ctx, UNCHANGED <<run, lease>>
  PROVE  InRecovery(w)' /\ Effect(w)
  <1>1. Moves(w)
    BY DEF Moves, TypeInv, TypeOK
  <1>2. UsesRuns(w)
    BY <1>1, ActorsAreDistinct, NoRunOfItsOwn DEF TypeInv
  <1>3. UsesLease(w)
    BY DEF UsesLease, Leased
  <1>4. InRecovery(w)'
    BY DEF TypeInv, HandlersKeepState, InRecovery
  <1> QED
    BY <1>1, <1>2, <1>3, <1>4 DEF Effect

LEMMA TryRecoverEffect ==
  ASSUME TypeInv, NEW w \in Worker, NEW m \in Monitor, TryRecover(w, m)
  PROVE  TypeOK' /\ InRecovery(w)' /\ Effect(w)
  <1>1. todo' \in [Worker -> SUBSET Monitor]
    BY DEF TryRecover, TypeInv, TypeOK
  <1>2. CASE UNCHANGED <<lease, pc, ctx>>
    <2>1. InRecovery(w)' /\ Effect(w)
      BY <1>2, WorkerStands DEF TryRecover
    <2> QED
      BY <1>1, <1>2, <2>1 DEF TypeInv, TypeOK, TryRecover, config, world
  <1>3. CASE /\ TakeLease(w, m) /\ Remember(w, [Blank EXCEPT !.monitor = m])
             /\ Goto(w, "recover")
    <2>1. [Blank EXCEPT !.monitor = m] \in Context /\ [Blank EXCEPT !.monitor = m].monitor = m
      BY BlankIsContext DEF Blank
    <2>2. Moves(w) /\ ctx'[w].monitor = m /\ pc'[w] = "recover"
      BY <1>3, <2>1, GoingMoves DEF Remember, Goto, TypeInv, TypeOK, Label
    <2>3. UsesRuns(w)
      BY <2>2, ActorsAreDistinct, NoRunOfItsOwn DEF TryRecover, TypeInv
    <2>4. UsesLease(w)
      BY <1>3, <2>2 DEF UsesLease
    <2>5. TypeOK'
      BY <1>1, <1>3, <2>2, <2>3 DEF TypeInv, TypeOK, Moves, UsesRuns, TryRecover, TakeLease,
         config, world
    <2> QED
      BY <2>2, <2>3, <2>4, <2>5 DEF Effect, InRecovery
  <1> QED
    BY <1>2, <1>3 DEF TryRecover

LEMMA RecoverRowsEffect ==
  ASSUME TypeInv, NEW w \in Worker, RecoverRows(w)
  PROVE  TypeOK' /\ InRecovery(w)' /\ Effect(w)
  <1>1. pc[w] = "recover" /\ ctx[w].monitor \in Monitor
    BY DEF RecoverRows, At, TypeInv, HandlersKeepState, InRecovery
  <1>2. Moves(w) /\ pc'[w] = "release" /\ ctx'[w].monitor = ctx[w].monitor
    BY <1>1, LeaveMoves DEF RecoverRows, TypeInv, TypeOK
  <1>3. UsesRuns(w)
    <2> DEFINE done(r) == [run[r] EXCEPT !.outcome = "interrupted"]
    <2>1. \A r \in RunId : run[r] = Row(ctx[w].monitor, "running") =>
            done(r) \in RunRow /\ done(r).monitor = run[r].monitor
      BY <1>1 DEF Row, RunRow, Terminal
    <2>2. /\ run' = [r \in RunId |-> IF run[r] = Row(ctx[w].monitor, "running")
                                    THEN done(r) ELSE run[r]]
      BY DEF RecoverRows, Unfinished
    <2> HIDE DEF done
    <2>3. run' \in [RunId -> RunRow]
      BY <2>1, <2>2 DEF TypeInv, TypeOK
    <2>4. \A r \in RunId : run'[r] = run[r] \/ run[r] = Row(ctx[w].monitor, "running")
      BY <2>2
    <2>5. \A r \in RunId : run'[r].monitor = run[r].monitor
      BY <2>1, <2>2
    <2>6. \A r \in RunId : ~Owns(w, r)'
      BY ActorsAreDistinct DEF Owns
    <2> QED
      BY <1>1, <2>3, <2>4, <2>5, <2>6 DEF UsesRuns
  <1>4. UsesLease(w)
    BY <1>1, <1>2, ActorsAreDistinct, LeaseUntouched DEF RecoverRows, Holding
  <1>5. TypeOK'
    BY <1>2, <1>3 DEF TypeInv, TypeOK, Moves, UsesRuns, RecoverRows, config, workers, world
  <1> QED
    BY <1>1, <1>2, <1>3, <1>4, <1>5 DEF Effect, InRecovery

LEMMA WorkerStepEffect ==
  ASSUME TypeInv, NEW w \in Worker, Spawn(w) \/ RecoveryStep(w)
  PROVE  TypeOK' /\ InRecovery(w)' /\ Effect(w)
  <1>1. CASE Spawn(w) \/ ListCandidates(w) \/ Serve(w)
    <2>1. InRecovery(w)' /\ Effect(w)
      BY <1>1, WorkerStands DEF Spawn, ListCandidates, Serve
    <2> QED
      BY <1>1, <2>1 DEF TypeInv, TypeOK, Spawn, ListCandidates, Serve, config, world
  <1>2. CASE Release(w)
    <2>1. ctx[w].monitor \in Monitor
      BY <1>2 DEF Release, At, TypeInv, HandlersKeepState, InRecovery
    <2> QED
      BY <1>2, <2>1, ReleaseEffect DEF InRecovery
  <1> QED
    BY <1>1, <1>2, TryRecoverEffect, RecoverRowsEffect DEF RecoveryStep

-----------------------------------------------------------------------------
\* The types, and the state each handler keeps, in every reachable state.

Stays(x) ==
  /\ x \in Worker => InRecovery(x)'
  /\ x \in Executor => InRun(x)'
  /\ Configures(x)

LEMMA ActorSteps ==
  ASSUME TypeInv, Next
  PROVE  \/ \E x \in Actor : TypeOK' /\ Stays(x) /\ Effect(x) /\ dropped' = dropped
         \/ \E w \in Worker : Crash(w)
         \/ \E m \in Monitor : SessionEnds(m) \/ SessionDropped(m)
         \/ NewListing
  <1>1. ASSUME NEW a \in Executor, NEW m \in Monitor, StartJob(a, m)
        PROVE  TypeOK' /\ Stays(a) /\ Effect(a) /\ dropped' = dropped
    BY <1>1, StartJobEffect, ActorsAreDistinct DEF Stays, Configures, StartJob, world
  <1>2. ASSUME NEW a \in Executor, RunStep(a)
        PROVE  TypeOK' /\ Stays(a) /\ Effect(a) /\ dropped' = dropped
    <2>1. dropped' = dropped
      BY <1>2 DEF RunStep, RecordSkippedOverlap, Admit, CreateRun, ChooseCycle,
         ColdRead, ColdCommit, IncRead, IncCommit, CycleFails, JournalFailure, Release, world
    <2> QED
      BY <1>2, <2>1, RunStepEffect, ActorsAreDistinct DEF Stays, Configures
  <1>3. ASSUME NEW x \in Requester \cup Editor, ConfigStep(x)
        PROVE  TypeOK' /\ Stays(x) /\ Effect(x) /\ dropped' = dropped
    <2>1. dropped' = dropped
      BY <1>3 DEF ConfigStep, CheckTransition, ConfigRead, ConfigWrite, Release, world
    <2> QED
      BY <1>3, <2>1, ConfigStepEffect, ActorsAreDistinct DEF Stays
  <1>4. ASSUME NEW q \in Requester, NEW m \in Monitor, NEW s \in MonitorState,
               StartSetState(q, m, s)
        PROVE  TypeOK' /\ Stays(q) /\ Effect(q) /\ dropped' = dropped
    BY <1>4, StartSetStateEffect, ActorsAreDistinct DEF Stays, Configures, StartSetState, world
  <1>5. ASSUME NEW e \in Editor, NEW m \in Monitor, NEW s \in Source, StartEdit(e, m, s)
        PROVE  TypeOK' /\ Stays(e) /\ Effect(e) /\ dropped' = dropped
    BY <1>5, StartEditEffect, ActorsAreDistinct DEF Stays, Configures, StartEdit, world
  <1>6. ASSUME NEW w \in Worker, Spawn(w) \/ RecoveryStep(w)
        PROVE  TypeOK' /\ Stays(w) /\ Effect(w) /\ dropped' = dropped
    <2>1. dropped' = dropped
      BY <1>6 DEF Spawn, RecoveryStep, ListCandidates, RecoverRows, Release, Serve,
         TryRecover, world
    <2> QED
      BY <1>6, <2>1, WorkerStepEffect, ActorsAreDistinct DEF Stays, Configures
  <1> QED
    BY <1>1, <1>2, <1>3, <1>4, <1>5, <1>6 DEF Next

LEMMA FrameTypeInv ==
  ASSUME TypeInv, NEW x \in Actor, TypeOK', Stays(x), Effect(x)
  PROVE  TypeInv'
  <1>1. \A y \in Actor \ {x} : pc'[y] = pc[y] /\ ctx'[y] = ctx[y]
    BY DEF Effect, Moves
  <1>2. \A r \in RunId : run[r] # Absent => run'[r].monitor = run[r].monitor
    BY DEF Effect, UsesRuns
  <1>3. \A w \in Worker : InRecovery(w)'
    BY <1>1 DEF Stays, TypeInv, HandlersKeepState, InRecovery
  <1>4. \A q \in Requester : InSetState(q)'
    BY <1>1 DEF Stays, Configures, TypeInv, HandlersKeepState, InSetState
  <1>5. \A e \in Editor : InEdit(e)'
    BY <1>1 DEF Stays, Configures, TypeInv, HandlersKeepState, InEdit
  <1>6. ASSUME NEW a \in Executor PROVE InRun(a)'
    <2>1. CASE a = x
      BY <2>1 DEF Stays
    <2>2. CASE a # x
      <3>1. InRun(a) /\ pc'[a] = pc[a] /\ ctx'[a] = ctx[a]
        BY <1>1, <2>2 DEF TypeInv, HandlersKeepState
      <3>2. pc[a] \in Traversing => run[ctx[a].run] # Absent
        BY <3>1, NoneIsNoValue DEF InRun, Traversing, CycleStep, Absent
      <3> QED
        BY <1>2, <3>1, <3>2 DEF InRun
    <2> QED
      BY <2>1, <2>2
  <1> QED
    BY <1>3, <1>4, <1>5, <1>6 DEF TypeInv, HandlersKeepState

LEMMA CrashKeepsTypes ==
  ASSUME TypeInv, NEW w \in Worker, Crash(w)
  PROVE  TypeInv'
  <1>1. Blank \in Context
    BY BoundsAreNaturals DEF Blank, Context, Time
  <1>2. pc' \in [Actor -> Label] /\ ctx' \in [Actor -> Context]
    BY <1>1 DEF Crash, TypeInv, TypeOK, Label
  <1>3. lease' \in [Monitor -> Actor \cup {Nobody, Lingering}]
    BY DEF Crash, TypeInv, TypeOK
  <1>4. TypeOK'
    BY <1>2, <1>3 DEF Crash, TypeInv, TypeOK, config, world
  <1>5. \A y \in Actor : pc'[y] = "idle" \/ (pc'[y] = pc[y] /\ ctx'[y] = ctx[y])
    BY DEF Crash
  <1>6. run' = run
    BY DEF Crash
  <1>7. \A v \in Worker : InRecovery(v)'
    BY <1>5 DEF TypeInv, HandlersKeepState, InRecovery
  <1>8. \A q \in Requester : InSetState(q)'
    BY <1>5 DEF TypeInv, HandlersKeepState, InSetState
  <1>9. \A e \in Editor : InEdit(e)'
    BY <1>5 DEF TypeInv, HandlersKeepState, InEdit
  <1>10. \A a \in Executor : InRun(a)'
    BY <1>5, <1>6 DEF TypeInv, HandlersKeepState, InRun, Traversing, CycleStep
  <1> QED
    BY <1>4, <1>7, <1>8, <1>9, <1>10 DEF TypeInv, HandlersKeepState

LEMMA HandlersUntouched ==
  ASSUME HandlersKeepState, pc' = pc, ctx' = ctx, run' = run
  PROVE  HandlersKeepState'
  BY DEF HandlersKeepState, InRecovery, InSetState, InEdit, InRun

LEMMA TypeInvStep ==
  ASSUME TypeInv, [Next]_vars
  PROVE  TypeInv'
  <1>1. CASE Next
    <2>1. ASSUME NEW m \in Monitor, SessionEnds(m) \/ SessionDropped(m)
          PROVE  TypeInv'
      BY <2>1, HandlersUntouched DEF TypeInv, TypeOK, SessionEnds, SessionDropped, config,
         workers, world
    <2>2. CASE NewListing
      <3>1. top' \in Time
        BY <2>2, BoundsAreNaturals DEF NewListing, Time, TypeInv, TypeOK
      <3> QED
        BY <2>2, <3>1, HandlersUntouched DEF TypeInv, TypeOK, NewListing, config, workers
    <2> QED
      BY <1>1, <2>1, <2>2, ActorSteps, FrameTypeInv, CrashKeepsTypes
  <1>2. CASE UNCHANGED vars
    BY <1>2, HandlersUntouched DEF TypeInv, TypeOK, vars
  <1> QED
    BY <1>1, <1>2

LEMMA TypeInvInit == Init => TypeInv
  <1> SUFFICES ASSUME Init PROVE TypeInv
    OBVIOUS
  <1>1. pc \in [Actor -> Label] /\ ctx \in [Actor -> Context]
    BY BoundsAreNaturals DEF Init, Blank, Context, Time, Label
  <1>2. cursor \in [Monitor -> CursorRow] /\ run \in [RunId -> RunRow]
    BY BoundsAreNaturals DEF Init, NoCursor, CursorRow, Time, RunRow
  <1>3. top \in Time /\ restoredAt \in [Monitor -> Time]
    BY BoundsAreNaturals DEF Init, Time
  <1>4. state \in [Monitor -> MonitorState] /\ source \in [Monitor -> Source]
    BY DEF Init, MonitorState
  <1>5. TypeOK
    BY <1>1, <1>2, <1>3, <1>4 DEF Init, TypeOK
  <1>6. HandlersKeepState
    BY DEF Init, HandlersKeepState, InRecovery, InSetState, InEdit, InRun, Traversing,
       CycleStep
  <1> QED
    BY <1>5, <1>6 DEF TypeInv

\* Every variable keeps its type: in particular a run has an outcome, or none is there.
THEOREM TypesHold == Spec => []TypeOK
  <1>1. TypeInv => TypeOK
    BY DEF TypeInv
  <1> QED
    BY <1>1, TypeInvInit, TypeInvStep, PTL DEF Spec

-----------------------------------------------------------------------------
\* One owner per monitor: as long as the database keeps its word, the lock names
\* whoever believes in it.

LEMMA LeaseStep ==
  ASSUME TypeInv, LeaseNamesHolder, [Next]_vars
  PROVE  LeaseNamesHolder'
  <1>1. ASSUME NEW x \in Actor, Effect(x), dropped' = dropped
        PROVE  LeaseNamesHolder'
    <2> SUFFICES ASSUME NEW m \in Monitor \ dropped, NEW y \in Actor, Leased(y, m)'
                 PROVE  lease'[m] = y
      BY <1>1 DEF LeaseNamesHolder
    <2>1. y # x => Leased(y, m)
      BY <1>1 DEF Effect, Moves, Leased
    <2>2. Leased(y, m) => lease[m] = y
      BY DEF LeaseNamesHolder
    <2>3. CASE lease' = lease /\ \A n \in Monitor : Leased(x, n)' => Leased(x, n)
      BY <2>1, <2>2, <2>3
    <2>4. ASSUME NEW n \in Monitor, TakeLease(x, n), ctx'[x].monitor = n
          PROVE  lease'[m] = y
      <3>1. CASE y = x
        BY <2>4, <3>1 DEF Leased, TakeLease, TypeInv, TypeOK
      <3>2. CASE y # x
        BY <2>1, <2>2, <2>4, <3>2, ActorsAreDistinct DEF TakeLease, TypeInv, TypeOK
      <3> QED
        BY <3>1, <3>2
    <2>5. ASSUME NEW n \in Monitor, GiveBackLease(x, n),
                 \A k \in Monitor : ~Leased(x, k)'
          PROVE  lease'[m] = y
      BY <2>1, <2>2, <2>5 DEF GiveBackLease, TypeInv, TypeOK
    <2> QED
      BY <1>1, <2>3, <2>4, <2>5 DEF Effect, UsesLease
  <1>2. ASSUME NEW w \in Worker, Crash(w)
        PROVE  LeaseNamesHolder'
    <2> SUFFICES ASSUME NEW m \in Monitor \ dropped, NEW y \in Actor, Leased(y, m)'
                 PROVE  lease'[m] = y
      BY <1>2 DEF LeaseNamesHolder, Crash, world
    <2>1. ~Dies(y, w)
      BY <1>2 DEF Crash, Leased, Holding, Traversing, CycleStep
    <2>2. Leased(y, m)
      BY <1>2, <2>1 DEF Crash, Leased
    <2> QED
      BY <1>2, <2>1, <2>2 DEF Crash, LeaseNamesHolder
  <1>3. ASSUME NEW n \in Monitor, SessionEnds(n) \/ SessionDropped(n)
        PROVE  LeaseNamesHolder'
    BY <1>3, ActorsAreDistinct DEF SessionEnds, SessionDropped, LeaseNamesHolder, Leased,
       TypeInv, TypeOK, world
  <1>4. CASE NewListing
    BY <1>4 DEF NewListing, LeaseNamesHolder, Leased
  <1>5. CASE UNCHANGED vars
    BY <1>5 DEF vars, LeaseNamesHolder, Leased
  <1> QED
    BY <1>1, <1>2, <1>3, <1>4, <1>5, ActorSteps

LEMMA LeaseInit == Init => LeaseNamesHolder
  BY DEF Init, LeaseNamesHolder, Leased, Holding, Traversing, CycleStep

\* For any number of workers, jobs, requests and recoveries, and through any crashes:
\* at most one of them is past a monitor's lease.
THEOREM OneOwner == Spec => []OneOwnerPerMonitor
  <1>1. LeaseNamesHolder => OneOwnerPerMonitor
    BY DEF LeaseNamesHolder, OneOwnerPerMonitor
  <1> QED
    BY <1>1, TypeInvInit, TypeInvStep, LeaseInit, LeaseStep, PTL DEF Spec

-----------------------------------------------------------------------------
\* Nobody finishes a run but its owner, and a recovery that finds it orphaned.

LEMMA RunsStep ==
  ASSUME TypeInv, TypeInv', LeaseNamesHolder, LiveRunStaysRunning, [Next]_vars
  PROVE  LiveRunStaysRunning'
  <1>1. ASSUME NEW x \in Actor, Effect(x), dropped' = dropped
        PROVE  LiveRunStaysRunning'
    <2> SUFFICES ASSUME NEW y \in Executor, NEW r \in RunId, Owns(y, r)',
                        ctx'[y].monitor \notin dropped
                 PROVE  run'[r] = Row(ctx'[y].monitor, "running")
      BY <1>1 DEF LiveRunStaysRunning, Row
    <2>1. CASE y = x
      BY <1>1, <2>1 DEF Effect, UsesRuns, LiveRunStaysRunning
    <2>2. CASE y # x
      <3> DEFINE m == ctx[y].monitor
      <3>1. Owns(y, r) /\ ctx'[y].monitor = m
        BY <1>1, <2>2 DEF Effect, Moves, Owns
      <3>2. run[r] = Row(m, "running") /\ m \in Monitor \ dropped
        BY <3>1 DEF LiveRunStaysRunning, Owns, TypeInv, HandlersKeepState, InRun, Traversing,
           CycleStep
      <3>3. Leased(y, m)
        BY <3>1 DEF Owns, Leased, Holding
      <3>4. run[r] # Absent
        BY <3>2, NoneIsNoValue DEF Row, Absent
      <3>5. ASSUME x \in Executor, Owns(x, r) PROVE FALSE
        <4>1. ctx[x].monitor = m
          BY <3>2, <3>5 DEF Owns, TypeInv, HandlersKeepState, InRun, Row
        <4> QED
          BY <3>2, <3>3, <3>5, <4>1, <2>2 DEF LeaseNamesHolder, Leased, Owns, Holding
      <3>6. ASSUME x \in Worker, pc[x] = "recover", run[r] = Row(ctx[x].monitor, "running")
            PROVE  FALSE
        BY <3>2, <3>3, <3>6, <2>2 DEF LeaseNamesHolder, Leased, Holding, Row
      <3>7. run'[r] = run[r]
        BY <1>1, <3>4, <3>5, <3>6 DEF Effect, UsesRuns, Owns
      <3> QED
        BY <3>1, <3>2, <3>7
    <2> QED
      BY <2>1, <2>2
  <1>2. ASSUME NEW w \in Worker, Crash(w)
        PROVE  LiveRunStaysRunning'
    BY <1>2 DEF Crash, LiveRunStaysRunning, Owns, Traversing, CycleStep, Row, world
  <1>3. ASSUME NEW n \in Monitor, SessionEnds(n) \/ SessionDropped(n)
        PROVE  LiveRunStaysRunning'
    BY <1>3 DEF SessionEnds, SessionDropped, LiveRunStaysRunning, Owns, Row, world
  <1>4. CASE NewListing
    BY <1>4 DEF NewListing, LiveRunStaysRunning, Owns, Row
  <1>5. CASE UNCHANGED vars
    BY <1>5 DEF vars, LiveRunStaysRunning, Owns, Row
  <1> QED
    BY <1>1, <1>2, <1>3, <1>4, <1>5, ActorSteps

LEMMA RunsInit == Init => LiveRunStaysRunning
  BY DEF Init, LiveRunStaysRunning, Owns, Traversing, CycleStep

\* The row of a traversal under way stays "running": no recovery and no other traversal
\* finishes it, however many workers start, stop and overlap.
THEOREM LiveRunsStayRunning == Spec => []LiveRunStaysRunning
  BY TypeInvInit, TypeInvStep, LeaseInit, LeaseStep, RunsInit, RunsStep, PTL DEF Spec

LEMMA OutcomesStep ==
  ASSUME TypeInv, LiveRunStaysRunning, [Next]_vars, NEW r \in RunId,
         run[r].outcome \in Terminal, run[r].monitor \notin dropped
  PROVE  run'[r] = run[r]
  <1>1. run[r] # Absent
    BY NoneIsNoValue DEF Absent
  <1>2. \A m : run[r] # Row(m, "running")
    BY DEF Row, Terminal
  <1>3. ASSUME NEW x \in Actor, Owns(x, r) PROVE FALSE
    <2>1. ctx[x].monitor = run[r].monitor
      BY <1>3 DEF Owns, TypeInv, HandlersKeepState, InRun
    <2> QED
      BY <1>2, <1>3, <2>1 DEF LiveRunStaysRunning, Owns
  <1>4. ASSUME NEW x \in Actor, Effect(x) PROVE run'[r] = run[r]
    BY <1>1, <1>2, <1>3, <1>4 DEF Effect, UsesRuns
  <1>5. CASE run' = run
    BY <1>5
  <1> QED
    BY <1>4, <1>5, ActorSteps DEF Crash, SessionEnds, SessionDropped, NewListing, vars

\* A finished run is finished for good: recoveries and traversals of other workers never
\* rewrite its outcome.
THEOREM OutcomesAreFinal == Spec => OutcomeIsFinal
  <1>1. TypeInv /\ LiveRunStaysRunning /\ [Next]_vars
          => [\A r \in RunId : run[r].outcome \in Terminal /\ run[r].monitor \notin dropped
                => run'[r] = run[r]]_run
    BY OutcomesStep
  <1> QED
    BY <1>1, TypeInvInit, TypeInvStep, LeaseInit, LeaseStep, RunsInit, RunsStep, PTL
       DEF Spec, OutcomeIsFinal

-----------------------------------------------------------------------------
\* A state read under the lease stays true: only a state request changes it, and it
\* would need the same lease.

Admitted == Traversing \cup {"create"}

LEMMA RunStepAdmission ==
  ASSUME TypeInv, NEW a \in Executor, RunStep(a), pc'[a] \in Admitted
  PROVE  /\ ctx'[a].monitor = ctx[a].monitor
         /\ pc[a] \in Admitted \/ (pc[a] = "admit" /\ state[ctx[a].monitor] = "active")
  <1> USE DEF Admitted, Traversing, CycleStep, At, Goto
  <1>0. pc \in [Actor -> Label] /\ ctx \in [Actor -> Context] /\ InRun(a)
    BY DEF TypeInv, TypeOK, HandlersKeepState
  <1>1. Finish(a) \/ Leave(a) => pc'[a] \in {"idle", "release"}
    BY <1>0 DEF Finish, Leave
  <1>2. ~Finish(a) /\ ~Leave(a)
    BY <1>1
  <1>3. pc[a] \in Admitted \/ (pc[a] = "admit" /\ state[ctx[a].monitor] = "active")
    BY <1>2 DEF RunStep, RecordSkippedOverlap, Admit, MayRun, CreateRun, ChooseCycle, ColdRead,
       ColdCommit, IncRead, IncCommit, CycleFails, JournalFailure, Release
  <1>4. CASE Throw(a)
    BY <1>0, <1>3, <1>4, ThrowMoves DEF InRun
  <1>5. CASE ~Throw(a)
    <2>1. CASE Admit(a)
      BY <1>2, <1>3, <2>1 DEF Admit
    <2>2. CASE CreateRun(a)
      <3>1. PICK r \in RunId : ctx' = [ctx EXCEPT ![a] = [ctx[a] EXCEPT !.run = r]]
        BY <1>2, <2>2 DEF CreateRun, Remember
      <3>2. [ctx[a] EXCEPT !.run = r].monitor = ctx[a].monitor
        BY <1>0 DEF Context
      <3> QED
        BY <1>0, <1>3, <3>1, <3>2
    <2>3. CASE ChooseCycle(a)
      BY <1>3, <2>3 DEF ChooseCycle
    <2>4. CASE ColdRead(a)
      <3> DEFINE m == ctx[a].monitor
                 c == [ctx[a] EXCEPT !.source = source[m], !.state = state[m], !.since = top]
      <3>1. ctx' = [ctx EXCEPT ![a] = c]
        BY <1>5, <2>4 DEF ColdRead, Remember
      <3>2. c.monitor = ctx[a].monitor
        BY <1>0 DEF Context
      <3> QED
        BY <1>0, <1>3, <3>1, <3>2
    <2>5. CASE IncRead(a)
      <3> DEFINE m == ctx[a].monitor
                 c == [ctx[a] EXCEPT !.source = source[m], !.rev = cursor[m].rev,
                                     !.boundary = cursor[m].boundary,
                                     !.pending = cursor[m].pending, !.since = top]
      <3>1. ctx' = [ctx EXCEPT ![a] = c]
        BY <1>5, <2>5 DEF IncRead, Remember
      <3>2. c.monitor = ctx[a].monitor
        BY <1>0 DEF Context
      <3> QED
        BY <1>0, <1>3, <3>1, <3>2
    <2>6. ctx'[a].monitor = ctx[a].monitor
      BY <1>2, <1>5, <2>1, <2>2, <2>3, <2>4, <2>5 DEF RunStep, RecordSkippedOverlap,
         ColdCommit, IncCommit, Commit, CommitTraversal, Stale, CycleFails, JournalFailure,
         Release
    <2> QED
      BY <1>3, <2>6
  <1> QED
    BY <1>4, <1>5

LEMMA StateWriters ==
  ASSUME TypeInv, [Next]_vars, NEW m \in Monitor, state'[m] # state[m]
  PROVE  \E q \in Requester : ConfigWrite(q) /\ Leased(q, m)
  <1>1. PICK x \in Requester \cup Editor : ConfigWrite(x)
    BY DEF Next, RunStep, StartJob, RecordSkippedOverlap, Admit, CreateRun, ChooseCycle,
       ColdRead, ColdCommit, IncRead, IncCommit, CycleFails, JournalFailure, Release,
       ConfigStep, CheckTransition, ConfigRead, StartSetState, StartEdit, Spawn,
       RecoveryStep, ListCandidates, RecoverRows, Serve, TryRecover, Crash, SessionEnds,
       SessionDropped, NewListing, config, vars
  <1>2. x \in Requester /\ ctx[x].monitor = m
    BY <1>1, ActorsAreDistinct DEF ConfigWrite, Patch, TypeInv, TypeOK
  <1> QED
    BY <1>1, <1>2 DEF ConfigWrite, At, Leased

ActiveInv == AdmittedIsActive /\ TraversedMonitorIsActive

LEMMA ActiveStep ==
  ASSUME TypeInv, LeaseNamesHolder, ActiveInv, [Next]_vars
  PROVE  ActiveInv'
  <1> SUFFICES ASSUME NEW a \in Executor, pc'[a] \in Admitted, ctx'[a].monitor \notin dropped'
               PROVE  state'[ctx'[a].monitor] = "active"
    BY DEF ActiveInv, AdmittedIsActive, TraversedMonitorIsActive, Admitted
  <1> DEFINE m == ctx[a].monitor
  <1>1. dropped \subseteq dropped'
    BY ActorSteps DEF Crash, SessionEnds, SessionDropped, NewListing, world, vars
  <1>2. CASE RunStep(a)
    <2>1. /\ ctx'[a].monitor = m
          /\ pc[a] \in Admitted \/ (pc[a] = "admit" /\ state[m] = "active")
      BY <1>2, RunStepAdmission
    <2>2. m \in Monitor \ dropped /\ state[m] = "active"
      BY <1>1, <2>1 DEF ActiveInv, AdmittedIsActive, TraversedMonitorIsActive, Admitted,
         TypeInv, HandlersKeepState, InRun, Traversing, CycleStep
    <2>3. state' = state
      BY <1>2 DEF RunStep, RecordSkippedOverlap, Admit, CreateRun, ChooseCycle,
         ColdRead, ColdCommit, IncRead, IncCommit, CycleFails, JournalFailure, Release, config
    <2> QED
      BY <2>1, <2>2, <2>3
  <1>3. CASE pc'[a] = pc[a] /\ ctx'[a] = ctx[a]
    <2>1. m \in Monitor \ dropped /\ state[m] = "active" /\ pc[a] \in Admitted
      BY <1>1, <1>3 DEF ActiveInv, AdmittedIsActive, TraversedMonitorIsActive, Admitted,
         TypeInv, HandlersKeepState, InRun, Traversing, CycleStep
    <2>2. Leased(a, m)
      BY <2>1 DEF Leased, Admitted, Holding
    <2>3. state'[m] = state[m]
      BY <2>1, <2>2, StateWriters, ActorsAreDistinct DEF LeaseNamesHolder
    <2> QED
      BY <1>3, <2>1, <2>3
  <1>4. CASE \E n \in Monitor : StartJob(a, n)
    <2>1. pc'[a] \in {"admit", "skip"}
      BY <1>4 DEF StartJob, Goto, TypeInv, TypeOK
    <2> QED
      BY <2>1 DEF Admitted, Traversing, CycleStep
  <1>5. CASE \E w \in Worker : Crash(w)
    <2>1. pc'[a] = "idle" \/ (pc'[a] = pc[a] /\ ctx'[a] = ctx[a])
      BY <1>5 DEF Crash
    <2> QED
      BY <1>3, <2>1 DEF Admitted, Traversing, CycleStep
  <1>6. ASSUME NEW b \in Executor \ {a},
               RunStep(b) \/ \E n \in Monitor : StartJob(b, n)
        PROVE  pc'[a] = pc[a] /\ ctx'[a] = ctx[a]
    BY <1>6, RunStepEffect, StartJobEffect DEF Effect, Moves
  <1>7. ASSUME NEW x \in Requester \cup Editor,
               \/ ConfigStep(x)
               \/ x \in Requester /\ \E n \in Monitor, s \in MonitorState : StartSetState(x, n, s)
               \/ x \in Editor /\ \E n \in Monitor, s \in Source : StartEdit(x, n, s)
        PROVE  pc'[a] = pc[a] /\ ctx'[a] = ctx[a]
    BY <1>7, ConfigStepEffect, StartSetStateEffect, StartEditEffect, ActorsAreDistinct
       DEF Effect, Moves
  <1>8. ASSUME NEW w \in Worker, Spawn(w) \/ RecoveryStep(w)
        PROVE  pc'[a] = pc[a] /\ ctx'[a] = ctx[a]
    BY <1>8, WorkerStepEffect, ActorsAreDistinct DEF Effect, Moves
  <1>9. CASE UNCHANGED <<pc, ctx>>
    BY <1>3, <1>9
  <1> QED
    BY <1>2, <1>3, <1>4, <1>5, <1>6, <1>7, <1>8, <1>9
       DEF Next, SessionEnds, SessionDropped, NewListing, vars

LEMMA ActiveInit == Init => ActiveInv
  BY DEF Init, ActiveInv, AdmittedIsActive, TraversedMonitorIsActive, Traversing, CycleStep

\* No traversal of a paused or archived monitor: whatever requests, crashes and restarts
\* overlap with it, a run that was admitted is a run of an active monitor to its end.
THEOREM TraversedIsActive == Spec => []TraversedMonitorIsActive
  <1>1. ActiveInv => TraversedMonitorIsActive
    BY DEF ActiveInv
  <1> QED
    BY <1>1, TypeInvInit, TypeInvStep, LeaseInit, LeaseStep, ActiveInit, ActiveStep, PTL
       DEF Spec

-----------------------------------------------------------------------------
\* The refinement: what a step does to the Run table and to who owns its rows.

OwnedRows == {r \in RunId : \E x \in Executor : Owns(x, r)}

\* A row has one owner, dropped sessions or not: its number is given out once.
RowHasOneOwner ==
  \A x, y \in Executor, r \in RunId : Owns(x, r) /\ Owns(y, r) => x = y

JournalInv ==
  TypeInv /\ LeaseNamesHolder /\ LiveRunStaysRunning /\ RowHasOneOwner

NewRow(a) ==
  \E r \in RunId :
    /\ pc[a] = "create" /\ run[r] = Absent
    /\ run' = [run EXCEPT ![r] = Row(ctx[a].monitor, "running")]
    /\ \A q \in RunId : Owns(a, q)' <=> q = r
SkippedRow(a) ==
  \E r \in RunId :
    /\ pc[a] = "skip" /\ run[r] = Absent
    /\ run' = [run EXCEPT ![r] = Row(ctx[a].monitor, "skipped")]
    /\ \A q \in RunId : ~Owns(a, q)'
LastWrite(a) ==
  \E o \in {"success", "catchup", "error"} :
    /\ pc[a] \in Traversing /\ SetOutcome(ctx[a].run, o)
    /\ \A q \in RunId : ~Owns(a, q)'
OwnsNoMore(a) == run' = run /\ \A q \in RunId : Owns(a, q)' => Owns(a, q)

Journals(a) == NewRow(a) \/ SkippedRow(a) \/ LastWrite(a) \/ OwnsNoMore(a)

LEMMA RunStepJournals ==
  ASSUME TypeInv, NEW a \in Executor, RunStep(a)
  PROVE  Journals(a)
  <1>1. CASE RecordSkippedOverlap(a)
    <2>1. \A q \in RunId : ~Owns(a, q)'
      BY <1>1 DEF RecordSkippedOverlap, Finish, Goto, TypeInv, TypeOK, Owns, Traversing, CycleStep
    <2> QED
      BY <1>1, <2>1 DEF RecordSkippedOverlap, Journals, SkippedRow, OwnsNoMore, Fresh, At
  <1>2. CASE Admit(a)
    <2>1. \A q \in RunId : ~Owns(a, q)'
      BY <1>2 DEF Admit, Leave, Goto, TypeInv, TypeOK, Owns, Traversing, CycleStep
    <2> QED
      BY <1>2, <2>1 DEF Admit, Journals, OwnsNoMore
  <1>3. CASE CreateRun(a)
    <2>1. CASE Leave(a) /\ run' = run
      <3>1. \A q \in RunId : ~Owns(a, q)'
        BY <2>1 DEF Leave, Goto, TypeInv, TypeOK, Owns, Traversing, CycleStep
      <3> QED
        BY <2>1, <3>1 DEF Journals, OwnsNoMore
    <2>2. CASE ~(Leave(a) /\ run' = run)
      <3>1. PICK r \in RunId :
              /\ Fresh(r)
              /\ run' = [run EXCEPT ![r] = Row(ctx[a].monitor, "running")]
              /\ ctx' = [ctx EXCEPT ![a] = [ctx[a] EXCEPT !.run = r]]
              /\ pc' = [pc EXCEPT ![a] = "cycle"]
        BY <1>3, <2>2 DEF CreateRun, Remember, Goto
      <3>2. ctx[a] \in Context
        BY DEF TypeInv, TypeOK
      <3>3. [ctx[a] EXCEPT !.run = r].run = r
        BY <3>2 DEF Context
      <3>4. ctx'[a].run = r /\ pc'[a] = "cycle"
        BY <3>1, <3>3 DEF TypeInv, TypeOK
      <3>5. \A q \in RunId : Owns(a, q)' <=> q = r
        BY <3>4 DEF Owns, Traversing, CycleStep
      <3> QED
        BY <1>3, <3>1, <3>5 DEF CreateRun, At, Fresh, Journals, NewRow
    <2> QED
      BY <2>1, <2>2
  <1>4. CASE CycleFails(a)
    <2>1. pc[a] \in Traversing /\ run' = run /\ ctx'[a].run = ctx[a].run
      BY <1>4 DEF CycleFails, Throw, Remember, Blank, TypeInv, TypeOK, Traversing
    <2> QED
      BY <2>1 DEF Journals, OwnsNoMore, Owns
  <1>5. CASE ChooseCycle(a) \/ ColdRead(a) \/ IncRead(a)
    <2>1. pc[a] \in Traversing /\ run' = run
      BY <1>5 DEF ChooseCycle, ColdRead, IncRead, At, Traversing, CycleStep
    <2>2. ctx'[a].run = ctx[a].run
      <3>1. ctx[a] \in Context
        BY DEF TypeInv, TypeOK
      <3>2. CASE Throw(a)
        BY <3>2 DEF Throw, Remember, Blank, TypeInv, TypeOK
      <3>3. CASE ctx' = ctx
        BY <3>3
      <3>4. CASE ColdRead(a) /\ ~Throw(a)
        <4> DEFINE c == [ctx[a] EXCEPT !.source = source[ctx[a].monitor],
                                       !.state = state[ctx[a].monitor], !.since = top]
        <4>1. ctx' = [ctx EXCEPT ![a] = c]
          BY <3>4 DEF ColdRead, Remember
        <4>2. c.run = ctx[a].run
          BY <3>1 DEF Context
        <4> HIDE DEF c
        <4> QED
          BY <4>1, <4>2 DEF TypeInv, TypeOK
      <3>5. CASE IncRead(a) /\ ~Throw(a)
        <4> DEFINE n == ctx[a].monitor
                   c == [ctx[a] EXCEPT !.source = source[n], !.rev = cursor[n].rev,
                                       !.boundary = cursor[n].boundary,
                                       !.pending = cursor[n].pending, !.since = top]
        <4>1. ctx' = [ctx EXCEPT ![a] = c]
          BY <3>5 DEF IncRead, Remember
        <4>2. c.run = ctx[a].run
          BY <3>1 DEF Context
        <4> HIDE DEF c
        <4> QED
          BY <4>1, <4>2 DEF TypeInv, TypeOK
      <3> QED
        BY <1>5, <3>2, <3>3, <3>4, <3>5 DEF ChooseCycle
    <2> QED
      BY <2>1, <2>2 DEF Journals, OwnsNoMore, Owns
  <1>6. CASE ColdCommit(a) \/ IncCommit(a)
    <2>1. pc[a] \in Traversing
      BY <1>6 DEF ColdCommit, IncCommit, At, Traversing, CycleStep
    <2>2. CASE Stale(a)
      <3>1. run' = run /\ ctx'[a].run = ctx[a].run
        BY <2>2 DEF Stale, Throw, Remember, Blank, TypeInv, TypeOK
      <3> QED
        BY <2>1, <3>1 DEF Journals, OwnsNoMore, Owns
    <2>3. CASE \E o \in {"success", "catchup"} : Commit(a, o)
      <3>1. \A q \in RunId : ~Owns(a, q)'
        BY <2>3 DEF Commit, Leave, Goto, TypeInv, TypeOK, Owns, Traversing, CycleStep
      <3> QED
        BY <2>1, <2>3, <3>1 DEF Commit, Journals, LastWrite
    <2> QED
      BY <1>6, <2>2, <2>3 DEF ColdCommit, IncCommit, CommitTraversal
  <1>7. CASE JournalFailure(a)
    <2>1. \A q \in RunId : ~Owns(a, q)'
      BY <1>7 DEF JournalFailure, Leave, Goto, TypeInv, TypeOK, Owns, Traversing, CycleStep
    <2> QED
      BY <1>7, <2>1 DEF JournalFailure, At, Traversing, Journals, LastWrite, OwnsNoMore
  <1>8. CASE Release(a)
    <2>1. \A q \in RunId : ~Owns(a, q)'
      BY <1>8 DEF Release, Finish, Goto, TypeInv, TypeOK, Owns, Traversing, CycleStep
    <2> QED
      BY <1>8, <2>1 DEF Release, Journals, OwnsNoMore
  <1> QED
    BY <1>1, <1>2, <1>3, <1>4, <1>5, <1>6, <1>7, <1>8 DEF RunStep

\* Everything else leaves the table and its owners alone, or takes owners away.
LEMMA OtherStepsJournal ==
  ASSUME TypeInv, Next
  PROVE  \/ \E a \in Executor : RunStep(a) /\ Moves(a) /\ dropped' = dropped
         \/ /\ run' = run
            /\ \A a \in Executor, r \in RunId : Owns(a, r)' => Owns(a, r)
            /\ dropped' = dropped
         \/ \E w \in Worker : RecoverRows(w) /\ Moves(w) /\ dropped' = dropped
         \/ \E m \in Monitor : SessionDropped(m)
  <1>1. ASSUME NEW a \in Executor, NEW m \in Monitor, StartJob(a, m)
        PROVE  /\ UNCHANGED <<run, dropped>>
               /\ \A b \in Executor, r \in RunId : Owns(b, r)' => Owns(b, r)
    <2>1. Moves(a)
      BY <1>1, StartJobEffect DEF Effect
    <2>2. pc'[a] \in {"admit", "skip"}
      BY <1>1 DEF StartJob, Goto, TypeInv, TypeOK
    <2> QED
      BY <1>1, <2>1, <2>2 DEF StartJob, Owns, Traversing, CycleStep, Moves, world
  <1>2. ASSUME NEW a \in Executor, RunStep(a)
        PROVE  Moves(a) /\ dropped' = dropped
    BY <1>2, RunStepEffect DEF Effect, RunStep, RecordSkippedOverlap, Admit, CreateRun,
       ChooseCycle, ColdRead, ColdCommit, IncRead, IncCommit, CycleFails, JournalFailure,
       Release, world
  <1>3. ASSUME NEW x \in Actor \ Executor, Moves(x), NEW a \in Executor, NEW r \in RunId
        PROVE  Owns(a, r)' => Owns(a, r)
    BY <1>3 DEF Moves, Owns
  <1>4. ASSUME NEW x \in Requester \cup Editor, ConfigStep(x)
        PROVE  Moves(x) /\ UNCHANGED <<run, dropped>>
    BY <1>4, ConfigStepEffect DEF Effect, ConfigStep, CheckTransition, ConfigRead,
       ConfigWrite, Release, world
  <1>5. ASSUME NEW q \in Requester, NEW m \in Monitor, NEW s \in MonitorState,
               StartSetState(q, m, s)
        PROVE  Moves(q) /\ UNCHANGED <<run, dropped>>
    BY <1>5, StartSetStateEffect DEF Effect, StartSetState, world
  <1>6. ASSUME NEW e \in Editor, NEW m \in Monitor, NEW s \in Source, StartEdit(e, m, s)
        PROVE  Moves(e) /\ UNCHANGED <<run, dropped>>
    BY <1>6, StartEditEffect DEF Effect, StartEdit, world
  <1>7. ASSUME NEW w \in Worker, Spawn(w) \/ RecoveryStep(w)
        PROVE  Moves(w) /\ dropped' = dropped /\ (run' = run \/ RecoverRows(w))
    BY <1>7, WorkerStepEffect DEF Effect, Spawn, RecoveryStep, ListCandidates, RecoverRows,
       Release, Serve, TryRecover, world
  <1>8. ASSUME NEW w \in Worker, Crash(w)
        PROVE  /\ UNCHANGED <<run, dropped>>
               /\ \A a \in Executor, r \in RunId : Owns(a, r)' => Owns(a, r)
    BY <1>8 DEF Crash, Owns, Traversing, CycleStep, world
  <1>9. ASSUME NEW m \in Monitor, SessionEnds(m)
        PROVE  /\ UNCHANGED <<run, dropped>>
               /\ \A a \in Executor, r \in RunId : Owns(a, r)' => Owns(a, r)
    BY <1>9 DEF SessionEnds, Owns, world
  <1>10. CASE NewListing
    BY <1>10 DEF NewListing, Owns
  <1>11. \A w \in Worker : w \in Actor \ Executor
    BY ActorsAreDistinct
  <1>12. \A x \in Requester \cup Editor : x \in Actor \ Executor
    BY ActorsAreDistinct
  <1>13. ASSUME NEW w \in Worker, Spawn(w) \/ RecoveryStep(w)
         PROVE  \/ /\ UNCHANGED <<run, dropped>>
                   /\ \A a \in Executor, r \in RunId : Owns(a, r)' => Owns(a, r)
                \/ RecoverRows(w) /\ Moves(w) /\ dropped' = dropped
    BY <1>3, <1>7, <1>11, <1>13
  <1>14. ASSUME NEW x \in Requester \cup Editor, Moves(x)
         PROVE  \A a \in Executor, r \in RunId : Owns(a, r)' => Owns(a, r)
    BY <1>3, <1>12, <1>14
  <1> QED
    BY <1>1, <1>2, <1>4, <1>5, <1>6, <1>8, <1>9, <1>10, <1>13, <1>14 DEF Next

LEMMA OwnedRowIsNamed ==
  ASSUME TypeInv, NEW a \in Executor, NEW r \in RunId, Owns(a, r)
  PROVE  /\ run[r].monitor = ctx[a].monitor /\ ctx[a].monitor \in Monitor
         /\ run[r] # Absent /\ Leased(a, ctx[a].monitor)
  BY NoneIsNoValue DEF Owns, TypeInv, HandlersKeepState, InRun, Traversing, CycleStep,
     Absent, Leased, Holding

LEMMA OwnersStep ==
  ASSUME TypeInv, RowHasOneOwner, [Next]_vars
  PROVE  RowHasOneOwner'
  <1>1. ASSUME NEW a \in Executor, RunStep(a), Moves(a)
        PROVE  RowHasOneOwner'
    <2>1. \A y \in Executor \ {a}, r \in RunId : Owns(y, r)' => Owns(y, r)
      BY <1>1 DEF Moves, Owns
    <2>2. CASE \A r \in RunId : Owns(a, r)' => Owns(a, r)
      BY <2>1, <2>2 DEF RowHasOneOwner
    <2>3. ASSUME NEW r \in RunId, run[r] = Absent, \A q \in RunId : Owns(a, q)' <=> q = r
          PROVE  RowHasOneOwner'
      <3>1. \A y \in Executor : ~Owns(y, r)
        BY <2>3, OwnedRowIsNamed
      <3> QED
        BY <2>1, <2>3, <3>1 DEF RowHasOneOwner
    <2> QED
      BY <1>1, <2>2, <2>3, RunStepJournals DEF Journals, NewRow, SkippedRow, LastWrite,
         OwnsNoMore
  <1>2. CASE \A a \in Executor, r \in RunId : Owns(a, r)' => Owns(a, r)
    BY <1>2 DEF RowHasOneOwner
  <1>3. ASSUME NEW w \in Worker, Moves(w)
        PROVE  \A a \in Executor, r \in RunId : Owns(a, r)' => Owns(a, r)
    BY <1>3, ActorsAreDistinct DEF Moves, Owns
  <1>4. ASSUME NEW m \in Monitor, SessionDropped(m)
        PROVE  \A a \in Executor, r \in RunId : Owns(a, r)' => Owns(a, r)
    BY <1>4 DEF SessionDropped, Owns
  <1>5. CASE UNCHANGED vars
    BY <1>5 DEF vars, RowHasOneOwner, Owns
  <1> QED
    BY <1>1, <1>2, <1>3, <1>4, <1>5, OtherStepsJournal

LEMMA JournalInvInit == Init => JournalInv
  <1>1. Init => RowHasOneOwner
    BY DEF Init, RowHasOneOwner, Owns, Traversing, CycleStep
  <1> QED
    BY <1>1, TypeInvInit, LeaseInit, RunsInit DEF JournalInv

LEMMA JournalInvStep == JournalInv /\ [Next]_vars => JournalInv'
  BY TypeInvStep, LeaseStep, RunsStep, OwnersStep DEF JournalInv

\* Each kind of step is a step of the promise.
LEMMA SomeAreAbandoned ==
  ASSUME run' = run, dropped' = dropped,
         \A a \in Executor, r \in RunId : Owns(a, r)' => Owns(a, r)
  PROVE  Journal!Next
  <1> DEFINE R == OwnedRows \ OwnedRows'
  <1>1. R \in SUBSET RunId /\ R \subseteq OwnedRows /\ OwnedRows' = OwnedRows \ R
    BY DEF OwnedRows
  <1>2. Journal!Abandon(R)
    BY <1>1 DEF Journal!Abandon, OwnedRows
  <1> QED
    BY <1>1, <1>2 DEF Journal!Next

LEMMA RowIsBegun ==
  ASSUME JournalInv, NEW a \in Executor, Moves(a), dropped' = dropped, NewRow(a)
  PROVE  Journal!Next
  <1> DEFINE m == ctx[a].monitor
  <1>1. PICK r \in RunId :
          /\ pc[a] = "create" /\ run[r] = Absent /\ run' = [run EXCEPT ![r] = Row(m, "running")]
          /\ \A q \in RunId : Owns(a, q)' <=> q = r
    BY DEF NewRow
  <1>2. m \in Monitor /\ Leased(a, m) /\ \A q \in RunId : ~Owns(a, q)
    BY <1>1 DEF JournalInv, TypeInv, HandlersKeepState, InRun, Leased, Holding, Owns,
       Traversing, CycleStep
  <1>3. \A y \in Executor \ {a}, q \in RunId : Owns(y, q)' <=> Owns(y, q)
    BY DEF Moves, Owns
  <1>4. OwnedRows' = OwnedRows \cup {r}
    BY <1>1, <1>2, <1>3 DEF OwnedRows
  <1>5. ASSUME m \notin dropped, NEW q \in OwnedRows, run[q].monitor = m PROVE FALSE
    <2>1. PICK y \in Executor : Owns(y, q) /\ q \in RunId
      BY DEF OwnedRows
    <2>2. Leased(y, m)
      BY <1>5, <2>1, OwnedRowIsNamed DEF JournalInv
    <2>3. \A x \in Actor : Leased(x, m) => lease[m] = x
      BY <1>2, <1>5 DEF JournalInv, LeaseNamesHolder
    <2>4. y = a
      BY <1>2, <2>2, <2>3
    <2> QED
      BY <1>2, <2>1, <2>4
  <1>6. Journal!Begin(r, m)
    BY <1>1, <1>4, <1>5 DEF Journal!Begin, Journal!NoRow, Journal!Running, Absent, Row,
       OwnedRows
  <1> QED
    BY <1>2, <1>6 DEF Journal!Next

LEMMA RowIsSkipped ==
  ASSUME JournalInv, NEW a \in Executor, Moves(a), dropped' = dropped, SkippedRow(a)
  PROVE  Journal!Next
  <1> DEFINE m == ctx[a].monitor
  <1>1. PICK r \in RunId :
          /\ pc[a] = "skip" /\ run[r] = Absent /\ run' = [run EXCEPT ![r] = Row(m, "skipped")]
          /\ \A q \in RunId : ~Owns(a, q)'
    BY DEF SkippedRow
  <1>2. m \in Monitor /\ \A q \in RunId : ~Owns(a, q)
    BY <1>1 DEF JournalInv, TypeInv, HandlersKeepState, InRun, Owns, Traversing, CycleStep
  <1>3. \A y \in Executor \ {a}, q \in RunId : Owns(y, q)' <=> Owns(y, q)
    BY DEF Moves, Owns
  <1>4. OwnedRows' = OwnedRows
    BY <1>1, <1>2, <1>3 DEF OwnedRows
  <1>5. Journal!Skip(r, m)
    BY <1>1, <1>4 DEF Journal!Skip, Journal!NoRow, Absent, Row, OwnedRows
  <1> QED
    BY <1>2, <1>5 DEF Journal!Next

LEMMA RowIsFinished ==
  ASSUME JournalInv, NEW a \in Executor, Moves(a), dropped' = dropped, LastWrite(a)
  PROVE  Journal!Next
  <1> DEFINE r == ctx[a].run
  <1>1. PICK o \in {"success", "catchup", "error"} :
          /\ pc[a] \in Traversing /\ run' = [run EXCEPT ![r].outcome = o]
          /\ \A q \in RunId : ~Owns(a, q)'
    BY DEF LastWrite, SetOutcome
  <1>2. r \in RunId /\ Owns(a, r) /\ \A q \in RunId : Owns(a, q) => q = r
    BY <1>1 DEF JournalInv, TypeInv, HandlersKeepState, InRun, Owns
  <1>3. \A y \in Executor \ {a}, q \in RunId : Owns(y, q)' <=> Owns(y, q)
    BY DEF Moves, Owns
  <1>4. \A y \in Executor \ {a} : ~Owns(y, r)
    BY <1>2 DEF JournalInv, RowHasOneOwner
  <1>5. OwnedRows' = OwnedRows \ {r} /\ r \in OwnedRows
    BY <1>1, <1>2, <1>3, <1>4 DEF OwnedRows
  <1>6. run[r].monitor \notin dropped => run[r].outcome = "running"
    <2>1. run[r].monitor = ctx[a].monitor
      BY <1>2, OwnedRowIsNamed DEF JournalInv
    <2>2. ctx[a].monitor \notin dropped => run[r] = Row(ctx[a].monitor, "running")
      <3> HIDE DEF r
      <3> QED
        BY <1>2 DEF JournalInv, LiveRunStaysRunning
    <2> QED
      BY <2>1, <2>2 DEF Row
  <1>7. Journal!Finish(r, o)
    BY <1>1, <1>5, <1>6 DEF Journal!Finish, Journal!Trusted, OwnedRows
  <1> QED
    BY <1>2, <1>7 DEF Journal!Next

LEMMA RowsAreInterrupted ==
  ASSUME JournalInv, NEW w \in Worker, Moves(w), dropped' = dropped, RecoverRows(w)
  PROVE  Journal!Next
  <1> DEFINE m == ctx[w].monitor
  <1>1. m \in Monitor /\ Leased(w, m)
    BY DEF RecoverRows, At, JournalInv, TypeInv, HandlersKeepState, InRecovery, Leased,
       Holding
  <1>2. \A y \in Executor, q \in RunId : Owns(y, q)' <=> Owns(y, q)
    BY ActorsAreDistinct DEF Moves, Owns
  <1>3. OwnedRows' = OwnedRows
    BY <1>2 DEF OwnedRows
  <1>4. ASSUME m \notin dropped, NEW q \in OwnedRows, run[q].monitor = m PROVE FALSE
    <2>1. PICK y \in Executor : Owns(y, q) /\ q \in RunId
      BY DEF OwnedRows
    <2>2. Leased(y, m)
      BY <1>4, <2>1, OwnedRowIsNamed DEF JournalInv
    <2>3. y = w
      BY <1>1, <1>4, <2>2 DEF JournalInv, LeaseNamesHolder
    <2> QED
      BY <2>3, ActorsAreDistinct
  <1>5. run' = [r \in RunId |-> IF run[r] = Row(m, "running")
                                THEN [run[r] EXCEPT !.outcome = "interrupted"]
                                ELSE run[r]]
    BY DEF RecoverRows, Unfinished
  <1>6. Journal!Interrupt(m)
    BY <1>3, <1>4, <1>5 DEF Journal!Interrupt, Journal!Running, Row, OwnedRows
  <1> QED
    BY <1>1, <1>6 DEF Journal!Next

LEMMA JournalStep ==
  ASSUME JournalInv, [Next]_vars
  PROVE  [Journal!Next]_Journal!rvars
  <1>1. ASSUME NEW a \in Executor, RunStep(a), Moves(a), dropped' = dropped
        PROVE  Journal!Next
    <2>1. Journals(a)
      BY <1>1, RunStepJournals DEF JournalInv
    <2>2. CASE OwnsNoMore(a)
      <3>1. \A b \in Executor, r \in RunId : Owns(b, r)' => Owns(b, r)
        BY <1>1, <2>2 DEF Moves, Owns, OwnsNoMore
      <3> QED
        BY <1>1, <2>2, <3>1, SomeAreAbandoned DEF OwnsNoMore
    <2> QED
      BY <1>1, <2>1, <2>2, RowIsBegun, RowIsSkipped, RowIsFinished DEF Journals
  <1>2. ASSUME NEW m \in Monitor, SessionDropped(m)
        PROVE  Journal!Next
    <2>1. OwnedRows' = OwnedRows
      BY <1>2 DEF OwnedRows, Owns, SessionDropped
    <2>2. Journal!BecomeSuspect(m)
      BY <1>2, <2>1 DEF SessionDropped, Journal!BecomeSuspect, OwnedRows
    <2> QED
      BY <2>2 DEF Journal!Next
  <1>3. CASE Next
    BY <1>1, <1>2, <1>3, OtherStepsJournal, SomeAreAbandoned, RowsAreInterrupted DEF JournalInv
  <1>4. CASE UNCHANGED vars
    BY <1>4 DEF vars, Journal!rvars, Owns
  <1> QED
    BY <1>3, <1>4

\* Any number of workers, jobs and recoveries, through crashes and sessions taken back,
\* keep the promise of the Run table.
THEOREM RunJournalIsKept == Spec => KeepsRunJournal
  <1>1. Init => Journal!Init
    <2>1. Init => OwnedRows = {}
      BY DEF Init, OwnedRows, Owns, Traversing, CycleStep
    <2> QED
      BY <2>1 DEF Init, Journal!Init, Journal!NoRow, Absent, OwnedRows
  <1> QED
    BY <1>1, JournalInvInit, JournalInvStep, JournalStep, PTL
       DEF Spec, KeepsRunJournal, Journal!Spec

-----------------------------------------------------------------------------
\* Leases come back: what LeaseComesFree rests on.

\* A lease that an invocation of a living process has is one that it still works under.
NoLeaseIsLeaked == \A m \in Monitor : lease[m] \in Actor => Leased(lease[m], m)

\* How many steps a handler can still take from a label.
StepsLeft(label) ==
  CASE label = "idle" -> 0
    [] label \in {"release", "skip"} -> 1
    [] label \in {"failing", "recover", "configWrite"} -> 2
    [] label \in {"coldCommit", "incCommit", "configRead"} -> 3
    [] label \in {"coldRead", "incRead", "check"} -> 4
    [] label = "cycle" -> 5
    [] label = "create" -> 6
    [] label = "admit" -> 7

\* A step of a handler brings it nearer to its end and keeps its lease, or gives it back.
GoesOn(x) ==
  /\ StepsLeft(pc'[x]) < StepsLeft(pc[x])
  /\ \/ lease' = lease /\ \A m \in Monitor : Leased(x, m) => Leased(x, m)'
     \/ GiveBackLease(x, ctx[x].monitor)

HandlersCountDown ==
  [][/\ \A a \in Executor : RunStep(a) => GoesOn(a)
     /\ \A x \in Requester \cup Editor : ConfigStep(x) => GoesOn(x)
     /\ \A w \in Worker : RecoverRows(w) \/ Release(w) => GoesOn(w)
     /\ \A x \in Actor : pc[x] # "idle" => StepsLeft(pc'[x]) <= StepsLeft(pc[x])]_vars

LEMMA StepsAreLeft ==
  ASSUME NEW label \in Label
  PROVE  StepsLeft(label) \in 0..7
  BY DEF Label, Traversing, CycleStep, StepsLeft

\* Going on to a later step of the work that the lease is for.
LEMMA KeepsOn ==
  ASSUME NEW x \in Actor, pc \in [Actor -> Label], Moves(x), lease' = lease,
         ctx'[x].monitor = ctx[x].monitor,
         pc'[x] \in Holding \/ (x \in Requester /\ pc'[x] = "configWrite")
           \/ (x \in Requester /\ pc'[x] = "configRead"),
         StepsLeft(pc'[x]) < StepsLeft(pc[x])
  PROVE  GoesOn(x)
  BY DEF GoesOn, Leased

LEMMA ReleaseGoesOn ==
  ASSUME TypeInv, NEW x \in Actor, Release(x)
  PROVE  GoesOn(x)
  <1>1. pc[x] = "release" /\ pc'[x] = "idle"
    BY FinishMoves DEF Release, At, TypeInv, TypeOK
  <1> QED BY <1>1 DEF GoesOn, StepsLeft, Release

\* A step from one label to a later one of the same work, for the same monitor.
Advances(x, from, to) ==
  /\ pc[x] = from /\ Goto(x, to)
  /\ ctx' \in [Actor -> Context] /\ ctx'[x].monitor = ctx[x].monitor
  /\ \A y \in Actor \ {x} : ctx'[y] = ctx[y]

LEMMA AdvanceGoesOn ==
  ASSUME TypeInv, NEW x \in Actor, lease' = lease, NEW from \in Label, NEW to \in Label,
         to \in Holding \/ (x \in Requester /\ to \in {"configRead", "configWrite"}),
         StepsLeft(to) < StepsLeft(from), Advances(x, from, to)
  PROVE  GoesOn(x)
  <1>1. pc \in [Actor -> Label] /\ pc[x] = from
    BY DEF TypeInv, TypeOK, Advances
  <1>2. pc'[x] = to /\ Moves(x) /\ ctx'[x].monitor = ctx[x].monitor
    BY <1>1 DEF Advances, Goto, Moves
  <1> QED BY <1>1, <1>2, KeepsOn

LEMMA LeaveGoesOn ==
  ASSUME TypeInv, NEW x \in Actor, lease' = lease, ctx[x].monitor \in Monitor, Leave(x),
         pc[x] \notin {"idle", "skip", "release"}
  PROVE  GoesOn(x)
  <1>1. pc \in [Actor -> Label] /\ ctx \in [Actor -> Context]
    BY DEF TypeInv, TypeOK
  <1>2. Moves(x) /\ pc'[x] = "release" /\ ctx'[x].monitor = ctx[x].monitor
    BY <1>1, LeaveMoves
  <1>3. StepsLeft(pc'[x]) < StepsLeft(pc[x])
    BY <1>1, <1>2 DEF StepsLeft, Label, Traversing, CycleStep
  <1> QED BY <1>1, <1>2, <1>3, KeepsOn DEF Holding

LEMMA ThrowGoesOn ==
  ASSUME TypeInv, NEW a \in Executor, lease' = lease, ctx[a].monitor \in Monitor, Throw(a),
         pc[a] \in CycleStep
  PROVE  GoesOn(a)
  <1>1. pc \in [Actor -> Label] /\ ctx \in [Actor -> Context]
    BY DEF TypeInv, TypeOK
  <1>2. Moves(a) /\ pc'[a] = "failing" /\ ctx'[a].monitor = ctx[a].monitor
    BY <1>1, ThrowMoves
  <1>3. StepsLeft(pc'[a]) < StepsLeft(pc[a])
    BY <1>2 DEF StepsLeft, CycleStep
  <1> QED BY <1>1, <1>2, <1>3, KeepsOn DEF Holding, Traversing

LEMMA RunStepGoesOn ==
  ASSUME TypeInv, NEW a \in Executor, RunStep(a)
  PROVE  GoesOn(a)
  <1>1. /\ pc[a] # "idle" /\ pc[a] \in Label /\ ctx[a].monitor \in Monitor
        /\ ctx \in [Actor -> Context] /\ pc \in [Actor -> Label]
    BY DEF RunStep, RecordSkippedOverlap, Admit, CreateRun, ChooseCycle, ColdRead, ColdCommit,
           IncRead, IncCommit, CycleFails, JournalFailure, Release, At, TypeInv, TypeOK,
           HandlersKeepState, InRun, CycleStep
  <1>2. CASE RecordSkippedOverlap(a)
    <2>1. pc[a] = "skip" /\ pc'[a] = "idle" /\ lease' = lease
      BY <1>1, <1>2, FinishMoves DEF RecordSkippedOverlap, At
    <2>2. \A m \in Monitor : ~Leased(a, m)
      BY <2>1, ActorsAreDistinct DEF Leased, Holding, Traversing, CycleStep
    <2> QED BY <2>1, <2>2 DEF GoesOn, StepsLeft
  <1>3. CASE Admit(a)
    <2>1. lease' = lease /\ pc[a] = "admit"
      BY <1>3 DEF Admit, At
    <2>2. CASE Leave(a)
      BY <1>1, <2>1, <2>2, LeaveGoesOn
    <2>3. CASE Advances(a, "admit", "create")
      BY <2>1, <2>3, AdvanceGoesOn DEF Holding, Label, StepsLeft
    <2> QED BY <1>1, <1>3, <2>1, <2>2, <2>3 DEF Admit, Advances
  <1>4. CASE CreateRun(a)
    <2>1. lease' = lease /\ pc[a] = "create"
      BY <1>4 DEF CreateRun, At
    <2>2. CASE Leave(a)
      BY <1>1, <2>1, <2>2, LeaveGoesOn
    <2>3. ASSUME NEW r \in RunId, Remember(a, [ctx[a] EXCEPT !.run = r]), Goto(a, "cycle")
          PROVE  GoesOn(a)
      <3>1. [ctx[a] EXCEPT !.run = r] \in Context
            /\ [ctx[a] EXCEPT !.run = r].monitor = ctx[a].monitor
        BY <1>1 DEF Context
      <3>2. Advances(a, "create", "cycle")
        BY <1>1, <2>1, <2>3, <3>1 DEF Advances, Remember
      <3> QED BY <2>1, <3>2, AdvanceGoesOn DEF Holding, Label, StepsLeft, Traversing, CycleStep
    <2> QED BY <1>4, <2>2, <2>3 DEF CreateRun
  <1>5. CASE ChooseCycle(a)
    <2>1. lease' = lease /\ (Advances(a, "cycle", "coldRead") \/ Advances(a, "cycle", "incRead"))
      BY <1>1, <1>5 DEF ChooseCycle, At, Advances
    <2> QED BY <2>1, AdvanceGoesOn DEF Holding, Label, StepsLeft, Traversing, CycleStep
  <1>6. CASE ColdRead(a)
    <2> DEFINE m == ctx[a].monitor
               c == [ctx[a] EXCEPT !.source = source[m], !.state = state[m], !.since = top]
    <2>1. lease' = lease /\ pc[a] = "coldRead"
      BY <1>6 DEF ColdRead, At
    <2>2. CASE Throw(a)
      BY <1>1, <2>1, <2>2, ThrowGoesOn DEF CycleStep
    <2>3. CASE Remember(a, c) /\ Goto(a, "coldCommit")
      <3>1. /\ source[m] \in Source /\ state[m] \in MonitorState /\ top \in Time
            /\ ctx[a] \in Context /\ m \in Monitor
        BY <1>1 DEF TypeInv, TypeOK
      <3>2. c \in Context /\ c.monitor = m
        BY ONLY <3>1 DEF Context
      <3>3. Advances(a, "coldRead", "coldCommit")
        BY <1>1, <2>1, <2>3, <3>2 DEF Advances, Remember
      <3> QED BY <2>1, <3>3, AdvanceGoesOn DEF Holding, Label, StepsLeft, Traversing, CycleStep
    <2> QED BY <1>6, <2>2, <2>3 DEF ColdRead
  <1>7. CASE IncRead(a)
    <2> DEFINE m == ctx[a].monitor
               c == [ctx[a] EXCEPT !.source = source[m], !.rev = cursor[m].rev,
                                   !.boundary = cursor[m].boundary,
                                   !.pending = cursor[m].pending, !.since = top]
    <2>1. lease' = lease /\ pc[a] = "incRead"
      BY <1>7 DEF IncRead, At
    <2>2. CASE Throw(a)
      BY <1>1, <2>1, <2>2, ThrowGoesOn DEF CycleStep
    <2>3. CASE Remember(a, c) /\ Goto(a, "incCommit")
      <3>1. /\ source[m] \in Source /\ cursor[m] \in CursorRow /\ top \in Time
            /\ ctx[a] \in Context /\ m \in Monitor
        BY <1>1 DEF TypeInv, TypeOK
      <3>2. c \in Context /\ c.monitor = m
        BY ONLY <3>1 DEF Context, CursorRow
      <3>3. Advances(a, "incRead", "incCommit")
        BY <1>1, <2>1, <2>3, <3>2 DEF Advances, Remember
      <3> QED BY <2>1, <3>3, AdvanceGoesOn DEF Holding, Label, StepsLeft, Traversing, CycleStep
    <2> QED BY <1>7, <2>2, <2>3 DEF IncRead
  <1>8. CASE ColdCommit(a) \/ IncCommit(a) \/ CycleFails(a) \/ JournalFailure(a)
    <2>1. /\ lease' = lease
          /\ \/ Leave(a) /\ pc[a] \in Traversing
             \/ Throw(a) /\ pc[a] \in CycleStep
      BY <1>8 DEF ColdCommit, IncCommit, CommitTraversal, Commit, Stale, CycleFails,
         JournalFailure, At, Traversing, CycleStep
    <2> QED BY <1>1, <2>1, LeaveGoesOn, ThrowGoesOn DEF Traversing, CycleStep
  <1>9. CASE Release(a)
    BY <1>9, ReleaseGoesOn
  <1> QED BY <1>2, <1>3, <1>4, <1>5, <1>6, <1>7, <1>8, <1>9 DEF RunStep

LEMMA ConfigStepGoesOn ==
  ASSUME TypeInv, NEW x \in Requester \cup Editor, ConfigStep(x)
  PROVE  GoesOn(x)
  <1>1. /\ ctx \in [Actor -> Context] /\ pc \in [Actor -> Label]
        /\ ctx[x].monitor \in Monitor
    BY DEF ConfigStep, CheckTransition, ConfigRead, ConfigWrite, Release, At, TypeInv, TypeOK,
           HandlersKeepState, InSetState, InEdit
  <1>2. CASE Release(x)
    BY <1>2, ReleaseGoesOn
  <1>3. CASE Leave(x) /\ lease' = lease /\ pc[x] \in {"check", "configRead", "configWrite"}
    BY <1>1, <1>3, LeaveGoesOn
  <1>4. CASE x \in Editor
    <2>1. ASSUME NEW m \in Monitor PROVE ~Leased(x, m)
      BY <1>4, ActorsAreDistinct DEF Leased
    <2>2. pc[x] # "check"
      BY <1>4, ActorsAreDistinct DEF TypeInv, HandlersKeepState, InEdit
    <2>3. CASE pc[x] = "configRead" /\ Goto(x, "configWrite") /\ lease' = lease
      <3>1. pc'[x] = "configWrite"
        BY <1>1, <2>3 DEF Goto
      <3> QED BY <2>1, <2>3, <3>1 DEF GoesOn, StepsLeft
    <2> QED BY <1>2, <1>3, <2>2, <2>3 DEF ConfigStep, CheckTransition, ConfigRead, ConfigWrite, At
  <1>5. CASE x \in Requester
    <2>1. CASE CheckTransition(x) /\ ~Leave(x)
      <3>1. Advances(x, "check", "configRead") /\ lease' = lease
        BY <1>1, <2>1 DEF CheckTransition, At, Advances
      <3> QED BY <1>5, <3>1, AdvanceGoesOn DEF Label, StepsLeft
    <2>2. CASE ConfigRead(x) /\ ~Leave(x)
      <3> DEFINE m == ctx[x].monitor
                 c == [ctx[x] EXCEPT !.source = source[m], !.state = state[m]]
      <3>1. /\ source[m] \in Source /\ state[m] \in MonitorState
            /\ ctx[x] \in Context /\ m \in Monitor
        BY <1>1 DEF TypeInv, TypeOK
      <3>2. c \in Context /\ c.monitor = m
        BY ONLY <3>1 DEF Context
      <3>3. Remember(x, c) /\ Goto(x, "configWrite") /\ pc[x] = "configRead" /\ lease' = lease
        BY <2>2 DEF ConfigRead, At
      <3>4. Advances(x, "configRead", "configWrite")
        BY <1>1, <3>2, <3>3 DEF Advances, Remember
      <3> QED BY <1>5, <3>3, <3>4, AdvanceGoesOn DEF Label, StepsLeft
    <2> QED BY <1>2, <1>3, <2>1, <2>2 DEF ConfigStep, CheckTransition, ConfigRead, ConfigWrite, At
  <1> QED BY <1>4, <1>5

LEMMA RecoveryGoesOn ==
  ASSUME TypeInv, NEW w \in Worker, RecoverRows(w) \/ Release(w)
  PROVE  GoesOn(w)
  <1>1. CASE RecoverRows(w)
    <2>1. pc[w] = "recover" /\ ctx[w].monitor \in Monitor /\ Leave(w) /\ lease' = lease
      BY <1>1 DEF RecoverRows, At, TypeInv, HandlersKeepState, InRecovery
    <2> QED BY <2>1, LeaveGoesOn
  <1> QED BY <1>1, ReleaseGoesOn

\* A handler at rest starts a job or a request, and takes the lease or does without.
BeginsWork(x) ==
  /\ pc[x] = "idle"
  /\ \/ lease' = lease
     \/ \E m \in Monitor : TakeLease(x, m) /\ Leased(x, m)'

LEMMA WorkBegins ==
  ASSUME TypeInv, NEW m \in Monitor,
         \/ \E a \in Executor : StartJob(a, m)
         \/ \E q \in Requester, s \in MonitorState : StartSetState(q, m, s)
         \/ \E e \in Editor, s \in Source : StartEdit(e, m, s)
         \/ \E w \in Worker : TryRecover(w, m)
  PROVE  \E x \in Actor : BeginsWork(x) /\ Moves(x)
  <1>1. /\ pc \in [Actor -> Label] /\ ctx \in [Actor -> Context]
        /\ {"admit", "check", "recover"} \subseteq Label
    BY DEF TypeInv, TypeOK, Label
  <1>2. ASSUME NEW a \in Executor, StartJob(a, m)
        PROVE  BeginsWork(a) /\ Moves(a)
    <2>1. Moves(a)
      BY <1>2, StartJobEffect DEF Effect
    <2>2. pc[a] = "idle" /\ ctx'[a].monitor = m
      BY <1>1, <1>2 DEF StartJob, At, Remember, Blank
    <2>3. TakeLease(a, m) /\ Goto(a, "admit") => Leased(a, m)'
      BY <1>1, <2>2 DEF Goto, Leased, Holding
    <2> QED BY <1>2, <2>1, <2>2, <2>3 DEF BeginsWork, StartJob
  <1>3. ASSUME NEW q \in Requester, NEW s \in MonitorState, StartSetState(q, m, s)
        PROVE  BeginsWork(q) /\ Moves(q)
    <2>1. Moves(q)
      BY <1>3, StartSetStateEffect DEF Effect
    <2>2. pc[q] = "idle" /\ ctx'[q].monitor = m /\ pc'[q] = "check" /\ TakeLease(q, m)
      BY <1>1, <1>3 DEF StartSetState, At, Remember, Goto, Blank
    <2> QED BY <2>1, <2>2 DEF BeginsWork, Leased, Holding
  <1>4. ASSUME NEW e \in Editor, NEW s \in Source, StartEdit(e, m, s)
        PROVE  BeginsWork(e) /\ Moves(e)
    BY <1>4, StartEditEffect DEF BeginsWork, StartEdit, At, Effect
  <1>5. ASSUME NEW w \in Worker, TryRecover(w, m)
        PROVE  BeginsWork(w) /\ Moves(w)
    <2>1. Moves(w) /\ pc[w] = "idle"
      BY <1>5, TryRecoverEffect DEF Effect, TryRecover, At
    <2>2. CASE lease' = lease
      BY <2>1, <2>2 DEF BeginsWork
    <2>3. CASE TakeLease(w, m) /\ Remember(w, [Blank EXCEPT !.monitor = m]) /\ Goto(w, "recover")
      <3>1. ctx'[w].monitor = m /\ pc'[w] = "recover"
        BY <1>1, <2>3 DEF Remember, Goto, Blank
      <3> QED BY <2>1, <2>3, <3>1 DEF BeginsWork, Leased, Holding
    <2> QED BY <1>5, <2>1, <2>2, <2>3 DEF TryRecover
  <1> QED BY <1>2, <1>3, <1>4, <1>5

\* A worker's own step between two monitors.
WorkerLeavesHandlers(w) == Spawn(w) \/ ListCandidates(w) \/ Serve(w)

LEMMA LeaseMoves ==
  ASSUME TypeInv, Next
  PROVE  \/ \E x \in Actor : Moves(x) /\ (BeginsWork(x) \/ GoesOn(x))
         \/ pc' = pc /\ ctx' = ctx /\ \A m \in Monitor : lease'[m] \in {lease[m], Nobody}
         \/ \E w \in Worker : Crash(w)
  <1>1. ASSUME NEW a \in Executor, RunStep(a)
        PROVE  Moves(a) /\ GoesOn(a)
    BY <1>1, RunStepGoesOn, RunStepEffect DEF Effect
  <1>2. ASSUME NEW x \in Requester \cup Editor, ConfigStep(x)
        PROVE  Moves(x) /\ GoesOn(x)
    BY <1>2, ConfigStepGoesOn, ConfigStepEffect DEF Effect
  <1>3. ASSUME NEW w \in Worker, RecoverRows(w) \/ Release(w)
        PROVE  Moves(w) /\ GoesOn(w)
    BY <1>3, RecoveryGoesOn, WorkerStepEffect DEF Effect, RecoveryStep
  <1>4. ASSUME NEW w \in Worker, WorkerLeavesHandlers(w)
        PROVE  pc' = pc /\ ctx' = ctx /\ lease' = lease
    BY <1>4 DEF WorkerLeavesHandlers, Spawn, ListCandidates, Serve
  <1>5. ASSUME NEW m \in Monitor, SessionEnds(m) \/ SessionDropped(m)
        PROVE  pc' = pc /\ ctx' = ctx /\ \A n \in Monitor : lease'[n] \in {lease[n], Nobody}
    BY <1>5 DEF SessionEnds, SessionDropped, TypeInv, TypeOK
  <1>6. CASE NewListing
    BY <1>6 DEF NewListing
  <1> QED BY <1>1, <1>2, <1>3, <1>4, <1>5, <1>6, WorkBegins
          DEF Next, RecoveryStep, WorkerLeavesHandlers

LEMMA LeakStep ==
  ASSUME TypeInv, NoLeaseIsLeaked, [Next]_vars
  PROVE  NoLeaseIsLeaked'
  <1>1. /\ lease \in [Monitor -> Actor \cup {Nobody, Lingering}]
        /\ Nobody \notin Actor /\ Lingering \notin Actor
    BY ActorsAreDistinct DEF TypeInv, TypeOK
  <1>2. ASSUME NEW x \in Actor, Moves(x), BeginsWork(x) \/ GoesOn(x)
        PROVE  NoLeaseIsLeaked'
    <2> SUFFICES ASSUME NEW m \in Monitor, NEW y \in Actor, lease'[m] = y
                 PROVE  Leased(y, m)'
      BY DEF NoLeaseIsLeaked
    <2>1. lease[m] = y => Leased(y, m)
      BY DEF NoLeaseIsLeaked
    <2>2. y # x => (Leased(y, m) => Leased(y, m)')
      BY <1>2 DEF Moves, Leased
    <2>3. CASE BeginsWork(x)
      <3>1. lease[m] = y => y # x
        BY <2>1, <2>3, ActorsAreDistinct DEF BeginsWork, Leased, Holding, Traversing, CycleStep
      <3>2. ASSUME NEW n \in Monitor, TakeLease(x, n), Leased(x, n)'
            PROVE  Leased(y, m)'
        BY <1>1, <2>1, <2>2, <3>1, <3>2 DEF TakeLease
      <3> QED BY <2>1, <2>2, <2>3, <3>1, <3>2 DEF BeginsWork
    <2>4. CASE lease' = lease /\ \A n \in Monitor : Leased(x, n) => Leased(x, n)'
      BY <2>1, <2>2, <2>4
    <2>5. CASE GiveBackLease(x, ctx[x].monitor)
      <3>1. lease'[m] = lease[m] \/ lease'[m] = Nobody
        BY <1>1, <2>5 DEF GiveBackLease
      <3>2. lease[m] = y /\ (y = x => ctx[x].monitor # m)
        BY <1>1, <2>5, <3>1 DEF GiveBackLease
      <3>3. y # x
        BY <2>1, <3>2 DEF Leased
      <3> QED BY <2>1, <2>2, <3>2, <3>3
    <2> QED BY <1>2, <2>3, <2>4, <2>5 DEF GoesOn
  <1>3. CASE pc' = pc /\ ctx' = ctx /\ \A m \in Monitor : lease'[m] \in {lease[m], Nobody}
    BY <1>1, <1>3 DEF NoLeaseIsLeaked, Leased
  <1>4. ASSUME NEW w \in Worker, Crash(w)
        PROVE  NoLeaseIsLeaked'
    <2> SUFFICES ASSUME NEW m \in Monitor, NEW y \in Actor, lease'[m] = y
                 PROVE  Leased(y, m)'
      BY DEF NoLeaseIsLeaked
    <2>1. lease[m] = y /\ ~Dies(y, w)
      BY <1>1, <1>4 DEF Crash
    <2>2. pc'[y] = pc[y] /\ ctx'[y] = ctx[y]
      BY <1>4, <2>1 DEF Crash
    <2> QED BY <2>1, <2>2 DEF NoLeaseIsLeaked, Leased
  <1>5. CASE UNCHANGED vars
    BY <1>5 DEF vars, NoLeaseIsLeaked, Leased
  <1> QED BY <1>2, <1>3, <1>4, <1>5, LeaseMoves

\* However an invocation ends or fails, a lease names somebody who still works under it,
\* or a session that PostgreSQL is about to end: none is held by a living process that has
\* done with it (NoLeaseIsLeaked).  Holds with sessions taken back as well.
THEOREM LeasesAreNotLeaked == Spec => []NoLeaseIsLeaked
  <1>1. Init => NoLeaseIsLeaked
    BY ActorsAreDistinct DEF Init, NoLeaseIsLeaked
  <1> QED BY <1>1, TypeInvInit, TypeInvStep, LeakStep, PTL DEF Spec

LEMMA CountDownStep ==
  ASSUME TypeInv, [Next]_vars, NEW x \in Actor, pc[x] # "idle"
  PROVE  StepsLeft(pc'[x]) <= StepsLeft(pc[x])
  <1>1. pc \in [Actor -> Label]
    BY DEF TypeInv, TypeOK
  <1>2. StepsLeft(pc[x]) \in 0..7
    BY <1>1, StepsAreLeft
  <1>3. CASE pc'[x] = pc[x]
    BY <1>2, <1>3
  <1>4. ASSUME NEW y \in Actor, Moves(y), BeginsWork(y) \/ GoesOn(y)
        PROVE  StepsLeft(pc'[x]) <= StepsLeft(pc[x])
    <2>1. CASE y # x
      BY <1>3, <1>4, <2>1 DEF Moves
    <2>2. CASE y = x
      <3>1. StepsLeft(pc'[x]) < StepsLeft(pc[x]) /\ pc'[x] \in Label
        BY <1>4, <2>2 DEF BeginsWork, GoesOn, Moves
      <3> QED BY <1>2, <3>1, StepsAreLeft
    <2> QED BY <2>1, <2>2
  <1>5. ASSUME NEW w \in Worker, Crash(w)
        PROVE  StepsLeft(pc'[x]) <= StepsLeft(pc[x])
    <2>1. pc'[x] = "idle" \/ pc'[x] = pc[x]
      BY <1>5 DEF Crash
    <2>2. CASE pc'[x] = "idle"
      <3>1. StepsLeft(pc'[x]) = 0
        BY <2>2 DEF StepsLeft
      <3> QED BY <1>2, <3>1
    <2> QED BY <1>3, <2>1, <2>2
  <1>6. CASE UNCHANGED vars
    BY <1>3, <1>6 DEF vars
  <1> QED BY <1>3, <1>4, <1>5, <1>6, LeaseMoves

\* Every handler ends after seven steps at the latest, along whichever path, and the step
\* that ends it gives its lease back (HandlersCountDown); with the fairness of its steps
\* this is LeaseComesFree.
THEOREM HandlersEnd == Spec => HandlersCountDown
  <1>1. ASSUME TypeInv, [Next]_vars
        PROVE  [/\ \A a \in Executor : RunStep(a) => GoesOn(a)
                /\ \A x \in Requester \cup Editor : ConfigStep(x) => GoesOn(x)
                /\ \A w \in Worker : RecoverRows(w) \/ Release(w) => GoesOn(w)
                /\ \A x \in Actor : pc[x] # "idle" => StepsLeft(pc'[x]) <= StepsLeft(pc[x])]_vars
    BY <1>1, RunStepGoesOn, ConfigStepGoesOn, RecoveryGoesOn, CountDownStep
  <1> QED BY <1>1, TypeInvInit, TypeInvStep, PTL DEF Spec, HandlersCountDown
=============================================================================
