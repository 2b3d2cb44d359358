------------------------ MODULE MonitorCursorProofs ------------------------
(***************************************************************************)
(* The cursor of a monitor: whose source it belongs to, when it was taken, *)
(* and that it only moves forward.                                         *)
(***************************************************************************)
EXTENDS MonitorRunProofs

\* A stored row belongs to the present source, is not ahead of the feed, and a pending
\* watermark is not behind the one it will replace.
RowsAreSound ==
  \A m \in Monitor : cursor[m] # NoCursor =>
    /\ cursor[m].source = source[m]
    /\ cursor[m].boundary <= top /\ cursor[m].pending <= top
    /\ cursor[m].pending = 0 \/ cursor[m].pending >= cursor[m].boundary

\* A traversal whose revision is still current carries the row as it is, and what it
\* will reach is not behind it.
SnapshotIsCurrent(a) ==
  /\ pc[a] = "coldCommit" => ctx[a].since <= top
  /\ pc[a] = "incCommit" => ctx[a].boundary <= ctx[a].since /\ ctx[a].since <= top
  /\ pc[a] = "incCommit" /\ RevisionIsCurrent(a) =>
       /\ ctx[a].source = cursor[ctx[a].monitor].source
       /\ ctx[a].boundary = cursor[ctx[a].monitor].boundary
       /\ ctx[a].pending = cursor[ctx[a].monitor].pending

\* A baseline under way was begun after the monitor's return from the archive.
BegunSinceRestore(a) ==
  pc[a] = "coldCommit" /\ ctx[a].monitor \notin dropped
    => ctx[a].since >= restoredAt[ctx[a].monitor]

\* What a change of the configuration has read still holds when it writes: there is one
\* editor, and a state request holds the lease.
EditIsCurrent(e) == pc[e] = "configWrite" => ctx[e].source = source[ctx[e].monitor]
RequestIsCurrent(q) ==
  pc[q] = "configWrite" /\ ctx[q].monitor \notin dropped
    => ctx[q].state = state[ctx[q].monitor]

Current(x) ==
  /\ x \in Executor => SnapshotIsCurrent(x) /\ BegunSinceRestore(x)
  /\ x \in Editor => EditIsCurrent(x)
  /\ x \in Requester => RequestIsCurrent(x)

CursorInv ==
  /\ RowsAreSound
  /\ NoBacklogAfterRestore
  /\ \A m \in Monitor : restoredAt[m] <= top
  /\ \A x \in Actor : Current(x)

Deciding == {"coldCommit", "incCommit", "configWrite"}

\* A step that writes neither configuration nor cursor, and after which nobody stands
\* before such a write who did not stand there already.
Quiet ==
  /\ UNCHANGED <<state, source, cursor, restoredAt>>
  /\ top' \in Time /\ top <= top' /\ dropped \subseteq dropped'
  /\ \A x \in Actor : pc'[x] \in Deciding => pc'[x] = pc[x] /\ ctx'[x] = ctx[x]

USE DEF Actor, Invocation

LEMMA TimesAreNumbers ==
  ASSUME TypeOK
  PROVE  /\ top \in Nat
         /\ \A m \in Monitor : /\ cursor[m].boundary \in Nat /\ cursor[m].pending \in Nat
                               /\ restoredAt[m] \in Nat
         /\ \A x \in Actor : /\ ctx[x].since \in Nat /\ ctx[x].boundary \in Nat
                             /\ ctx[x].pending \in Nat
  <1>1. Time \subseteq Nat
    BY BoundsAreNaturals DEF Time
  <1>2. ASSUME NEW m \in Monitor
        PROVE  /\ cursor[m].boundary \in Time /\ cursor[m].pending \in Time
               /\ restoredAt[m] \in Time
    <2>1. cursor[m] \in CursorRow /\ restoredAt[m] \in Time
      BY DEF TypeOK
    <2> QED
      BY <2>1 DEF CursorRow
  <1>3. ASSUME NEW x \in Actor
        PROVE  /\ ctx[x].since \in Time /\ ctx[x].boundary \in Time
               /\ ctx[x].pending \in Time
    <2>1. ctx[x] \in Context
      BY DEF TypeOK
    <2> QED
      BY <2>1 DEF Context
  <1>4. top \in Time
    BY DEF TypeOK
  <1> QED
    BY <1>1, <1>2, <1>3, <1>4

LEMMA CtxMonitors ==
  ASSUME TypeInv, NEW x \in Invocation, pc[x] \in Deciding
  PROVE  ctx[x].monitor \in Monitor
  BY DEF TypeInv, HandlersKeepState, InRun, InSetState, InEdit, Deciding, Traversing,
     CycleStep

LEMMA RowsKept ==
  ASSUME TypeInv, CursorInv, UNCHANGED <<source, cursor, restoredAt>>,
         top' \in Time, top <= top', dropped \subseteq dropped'
  PROVE  /\ RowsAreSound' /\ NoBacklogAfterRestore'
         /\ (\A m \in Monitor : restoredAt[m] <= top)'
  <1>1. top \in Nat /\ top' \in Nat
    BY TimesAreNumbers, BoundsAreNaturals DEF Time, TypeInv
  <1>2. RowsAreSound'
    <2> SUFFICES ASSUME NEW m \in Monitor, cursor[m] # NoCursor
                 PROVE  /\ cursor[m].source = source[m]
                        /\ cursor[m].boundary <= top' /\ cursor[m].pending <= top'
                        /\ cursor[m].pending = 0 \/ cursor[m].pending >= cursor[m].boundary
      BY DEF RowsAreSound
    <2>1. /\ cursor[m].source = source[m]
          /\ cursor[m].boundary <= top /\ cursor[m].pending <= top
          /\ cursor[m].pending = 0 \/ cursor[m].pending >= cursor[m].boundary
      BY DEF CursorInv, RowsAreSound
    <2>2. cursor[m].boundary \in Nat /\ cursor[m].pending \in Nat
      BY TimesAreNumbers DEF TypeInv
    <2> QED
      BY <1>1, <2>1, <2>2
  <1>3. ASSUME NEW m \in Monitor PROVE restoredAt'[m] <= top'
    <2>1. restoredAt[m] \in Nat /\ restoredAt[m] <= top
      BY TimesAreNumbers DEF CursorInv, TypeInv
    <2> QED
      BY <1>1, <2>1
  <1>4. NoBacklogAfterRestore'
    BY DEF CursorInv, NoBacklogAfterRestore
  <1> QED
    BY <1>2, <1>3, <1>4

\* An invocation that stays where it is keeps what it knows of rows that stay.
LEMMA StandingStill ==
  ASSUME TypeInv, NEW x \in Actor, Current(x), pc'[x] = pc[x], ctx'[x] = ctx[x],
         UNCHANGED <<state, source, cursor, restoredAt>>,
         top' \in Time, top <= top', dropped \subseteq dropped'
  PROVE  Current(x)'
  <1>1. top \in Nat /\ top' \in Nat /\ ctx[x].since \in Nat
    BY TimesAreNumbers, BoundsAreNaturals DEF Time, TypeInv
  <1>2. RevisionIsCurrent(x)' => RevisionIsCurrent(x)
    BY DEF RevisionIsCurrent
  <1>3. SnapshotIsCurrent(x) => SnapshotIsCurrent(x)'
    BY <1>1, <1>2 DEF SnapshotIsCurrent
  <1>4. BegunSinceRestore(x) => BegunSinceRestore(x)'
    BY DEF BegunSinceRestore
  <1>5. EditIsCurrent(x) => EditIsCurrent(x)'
    BY DEF EditIsCurrent
  <1>6. RequestIsCurrent(x) => RequestIsCurrent(x)'
    BY DEF RequestIsCurrent
  <1> QED
    BY <1>3, <1>4, <1>5, <1>6 DEF Current

LEMMA NothingToDecide ==
  ASSUME NEW x \in Actor, pc'[x] \notin Deciding
  PROVE  Current(x)'
  BY DEF Current, SnapshotIsCurrent, BegunSinceRestore, EditIsCurrent, RequestIsCurrent,
     Deciding

LEMMA QuietStep ==
  ASSUME TypeInv, CursorInv, Quiet
  PROVE  CursorInv'
  <1>1. \A x \in Actor : Current(x)'
    BY StandingStill, NothingToDecide DEF Quiet, CursorInv
  <1> QED
    BY <1>1, RowsKept DEF Quiet, CursorInv

\* A step of one invocation that reads only: what it has read is what there is.
LEMMA ReadingStep ==
  ASSUME TypeInv, CursorInv, NEW x \in Actor, Moves(x), Current(x)',
         UNCHANGED <<state, source, cursor, restoredAt, world>>
  PROVE  CursorInv'
  <1>1. top' \in Time /\ top <= top' /\ dropped \subseteq dropped'
    BY TimesAreNumbers DEF world, TypeInv, TypeOK
  <1>2. \A y \in Actor \ {x} : Current(y)'
    BY <1>1, StandingStill DEF CursorInv, Moves
  <1> QED
    BY <1>1, <1>2, RowsKept DEF CursorInv

LEMMA IdleStep ==
  ASSUME TypeInv, CursorInv, NEW x \in Actor, Moves(x), pc'[x] \notin Deciding,
         UNCHANGED <<state, source, cursor, restoredAt, world>>
  PROVE  CursorInv'
  BY ReadingStep, NothingToDecide

LEMMA ColdReadCursor ==
  ASSUME TypeInv, CursorInv, NEW a \in Executor, ColdRead(a)
  PROVE  CursorInv'
  <1> DEFINE m == ctx[a].monitor
             c == [ctx[a] EXCEPT !.source = source[m], !.state = state[m], !.since = top]
  <1>1. Moves(a) /\ m \in Monitor
    BY ColdReadEffect DEF Effect, ColdRead, At, TypeInv, HandlersKeepState, InRun
  <1>2. CASE Throw(a)
    <2>1. pc'[a] = "failing"
      BY <1>1, <1>2, ThrowMoves DEF TypeInv, TypeOK
    <2> QED
      BY <1>1, <1>2, <2>1, IdleStep DEF ColdRead, config, Deciding
  <1>3. CASE Goto(a, "coldCommit") /\ ctx' = [ctx EXCEPT ![a] = c]
    <2>1. ctx[a] \in Context
      BY DEF TypeInv, TypeOK
    <2>2. c.since = top /\ c.monitor = m
      BY <2>1 DEF Context
    <2> HIDE DEF c
    <2>3. pc'[a] = "coldCommit" /\ ctx'[a].since = top /\ ctx'[a].monitor = m
      BY <1>3, <2>2 DEF Goto, TypeInv, TypeOK
    <2>4. UNCHANGED <<state, source, cursor, restoredAt, world>>
      BY DEF ColdRead, config
    <2>5. top \in Nat /\ restoredAt[m] \in Nat /\ restoredAt[m] <= top
      BY <1>1, TimesAreNumbers DEF CursorInv, TypeInv
    <2>6. SnapshotIsCurrent(a)' /\ BegunSinceRestore(a)'
      BY <2>3, <2>4, <2>5 DEF SnapshotIsCurrent, BegunSinceRestore, world
    <2> QED
      BY <1>1, <2>4, <2>6, ReadingStep, ActorsAreDistinct DEF Current
  <1> QED
    BY <1>2, <1>3 DEF ColdRead, Remember

LEMMA IncReadCursor ==
  ASSUME TypeInv, CursorInv, NEW a \in Executor, IncRead(a)
  PROVE  CursorInv'
  <1> DEFINE m == ctx[a].monitor
             c == [ctx[a] EXCEPT !.source = source[m], !.rev = cursor[m].rev,
                                 !.boundary = cursor[m].boundary,
                                 !.pending = cursor[m].pending, !.since = top]
  <1>1. Moves(a) /\ m \in Monitor
    BY IncReadEffect DEF Effect, IncRead, At, TypeInv, HandlersKeepState, InRun
  <1>2. CASE Throw(a)
    <2>1. pc'[a] = "failing"
      BY <1>1, <1>2, ThrowMoves DEF TypeInv, TypeOK
    <2> QED
      BY <1>1, <1>2, <2>1, IdleStep DEF IncRead, config, Deciding
  <1>3. CASE cursor[m] # NoCursor /\ Goto(a, "incCommit") /\ ctx' = [ctx EXCEPT ![a] = c]
    <2>1. ctx[a] \in Context
      BY DEF TypeInv, TypeOK
    <2>2. /\ c.since = top /\ c.monitor = m /\ c.source = source[m]
          /\ c.boundary = cursor[m].boundary /\ c.pending = cursor[m].pending
      BY <2>1 DEF Context
    <2> HIDE DEF c
    <2>3. pc'[a] = "incCommit" /\ ctx'[a] = c
      BY <1>3 DEF Goto, TypeInv, TypeOK
    <2>4. UNCHANGED <<state, source, cursor, restoredAt, world>>
      BY DEF IncRead, config
    <2>5. top \in Nat /\ cursor[m].boundary <= top /\ cursor[m].source = source[m]
      BY <1>1, <1>3, TimesAreNumbers DEF CursorInv, RowsAreSound, TypeInv
    <2>6. SnapshotIsCurrent(a)' /\ BegunSinceRestore(a)'
      BY <2>2, <2>3, <2>4, <2>5 DEF SnapshotIsCurrent, BegunSinceRestore, world
    <2> QED
      BY <1>1, <2>4, <2>6, ReadingStep, ActorsAreDistinct DEF Current
  <1> QED
    BY <1>2, <1>3 DEF IncRead, Remember

LEMMA ConfigReadCursor ==
  ASSUME TypeInv, CursorInv, NEW x \in Requester \cup Editor, ConfigRead(x)
  PROVE  CursorInv'
  <1> DEFINE m == ctx[x].monitor
             c == [ctx[x] EXCEPT !.source = source[m], !.state = state[m]]
  <1>1. Moves(x) /\ m \in Monitor
    BY ConfigReadEffect DEF Effect, ConfigRead, At, TypeInv, HandlersKeepState, InSetState, InEdit
  <1>2. UNCHANGED <<state, source, cursor, restoredAt, world>>
    BY DEF ConfigRead, config
  <1>3. CASE Leave(x)
    <2>1. pc'[x] = "release"
      BY <1>1, <1>3, LeaveMoves DEF TypeInv, TypeOK
    <2> QED
      BY <1>1, <1>2, <2>1, IdleStep DEF Deciding
  <1>4. CASE Goto(x, "configWrite") /\ ctx' = [ctx EXCEPT ![x] = c]
    <2>1. ctx[x] \in Context
      BY DEF TypeInv, TypeOK
    <2>2. c.monitor = m /\ c.source = source[m] /\ c.state = state[m]
      BY <2>1 DEF Context
    <2> HIDE DEF c
    <2>3. pc'[x] = "configWrite" /\ ctx'[x] = c
      BY <1>4 DEF Goto, TypeInv, TypeOK
    <2>4. EditIsCurrent(x)' /\ RequestIsCurrent(x)'
      BY <1>2, <2>2, <2>3 DEF EditIsCurrent, RequestIsCurrent
    <2> QED
      BY <1>1, <1>2, <2>4, ReadingStep, ActorsAreDistinct DEF Current
  <1> QED
    BY <1>3, <1>4 DEF ConfigRead, Remember

-----------------------------------------------------------------------------
\* The writes.

\* A row written with a fresh revision makes every other traversal's snapshot stale.
LEMMA WrittenCursor ==
  ASSUME TypeInv, CursorInv, NEW a \in Executor, Moves(a), pc'[a] \notin Deciding,
         ctx[a].monitor \in Monitor, ctx[a].source = source[ctx[a].monitor],
         NEW b \in Nat, NEW p \in Nat, b <= top, p <= top, p = 0 \/ p >= b,
         ctx[a].monitor \notin dropped => b >= restoredAt[ctx[a].monitor],
         WriteCursor(a, b, p), UNCHANGED <<state, source, restoredAt, world>>
  PROVE  CursorInv'
  <1> DEFINE m == ctx[a].monitor
             row(v) == [rev |-> v, source |-> ctx[a].source, boundary |-> b, pending |-> p]
  <1>1. PICK v \in Revision : NewRevision(m, v) /\ cursor' = [cursor EXCEPT ![m] = row(v)]
    BY DEF WriteCursor
  <1>2. /\ row(v).rev = v /\ row(v).source = source[m]
        /\ row(v).boundary = b /\ row(v).pending = p
    OBVIOUS
  <1> HIDE DEF row
  <1>3. cursor'[m] = row(v) /\ \A n \in Monitor \ {m} : cursor'[n] = cursor[n]
    BY <1>1 DEF TypeInv, TypeOK
  <1>4. top' = top /\ dropped' = dropped
    BY DEF world
  <1>5. RowsAreSound'
    BY <1>2, <1>3, <1>4 DEF RowsAreSound, CursorInv
  <1>6. NoBacklogAfterRestore'
    BY <1>2, <1>3, <1>4 DEF NoBacklogAfterRestore, CursorInv
  <1>7. \A n \in Monitor : restoredAt'[n] <= top'
    BY <1>4 DEF CursorInv
  <1>8. ASSUME NEW y \in Actor \ {a} PROVE Current(y)'
    <2>1. pc'[y] = pc[y] /\ ctx'[y] = ctx[y] /\ Current(y)
      BY DEF Moves, CursorInv
    <2>2. ASSUME y \in Executor, pc[y] = "incCommit", RevisionIsCurrent(y)'
          PROVE  ctx[y].monitor # m /\ ctx[y].monitor \in Monitor
      <3>1. ctx[y].rev # v
        BY <1>1 DEF NewRevision, Remembered
      <3> QED
        BY <1>2, <1>3, <2>1, <2>2, <3>1, CtxMonitors DEF RevisionIsCurrent, Deciding
    <2>3. y \in Executor /\ pc[y] = "incCommit" /\ RevisionIsCurrent(y)' =>
            RevisionIsCurrent(y) /\ cursor'[ctx[y].monitor] = cursor[ctx[y].monitor]
      BY <1>3, <2>1, <2>2 DEF RevisionIsCurrent
    <2>4. y \in Executor => SnapshotIsCurrent(y)'
      BY <1>4, <2>1, <2>3 DEF Current, SnapshotIsCurrent
    <2>5. y \in Executor => BegunSinceRestore(y)'
      BY <1>4, <2>1 DEF Current, BegunSinceRestore
    <2>6. y \in Editor => EditIsCurrent(y)'
      BY <2>1 DEF Current, EditIsCurrent
    <2>7. y \in Requester => RequestIsCurrent(y)'
      BY <1>4, <2>1 DEF Current, RequestIsCurrent
    <2> QED
      BY <2>4, <2>5, <2>6, <2>7 DEF Current
  <1> QED
    BY <1>5, <1>6, <1>7, <1>8, NothingToDecide DEF CursorInv

LEMMA ColdCommitCursor ==
  ASSUME TypeInv, CursorInv, NEW a \in Executor, ColdCommit(a)
  PROVE  CursorInv'
  <1> DEFINE m == ctx[a].monitor
  <1>1. Moves(a) /\ m \in Monitor /\ pc[a] = "coldCommit"
    BY ColdCommitEffect DEF Effect, ColdCommit, At, TypeInv, HandlersKeepState, InRun
  <1>2. UNCHANGED <<state, source, restoredAt, world>>
    BY DEF ColdCommit, config
  <1>3. CASE Stale(a)
    <2>1. pc'[a] = "failing"
      BY <1>1, <1>3, ThrowMoves DEF Stale, TypeInv, TypeOK
    <2> QED
      BY <1>1, <1>2, <1>3, <2>1, IdleStep DEF Stale, Deciding
  <1>4. CASE /\ ColdStartIsCurrent(a) /\ Commit(a, "success")
             /\ \E newest \in ctx[a].since..top : WriteCursor(a, newest, 0)
    <2>1. pc'[a] = "release"
      BY <1>1, <1>4, LeaveMoves DEF Commit, TypeInv, TypeOK
    <2>2. PICK newest \in ctx[a].since..top : WriteCursor(a, newest, 0)
      BY <1>4
    <2>3. top \in Nat /\ ctx[a].since \in Nat /\ restoredAt[m] \in Nat
      BY <1>1, TimesAreNumbers DEF TypeInv
    <2>4. newest \in Nat /\ newest <= top /\ newest >= ctx[a].since /\ 0 \in Nat /\ 0 <= top
      BY <2>2, <2>3
    <2>5. m \notin dropped => newest >= restoredAt[m]
      BY <1>1, <2>3, <2>4 DEF CursorInv, Current, BegunSinceRestore
    <2>6. ctx[a].source = source[m]
      BY <1>4 DEF ColdStartIsCurrent, ShouldReset, ConfigNow
    <2> QED
      BY <1>1, <1>2, <2>1, <2>2, <2>4, <2>5, <2>6, WrittenCursor DEF Deciding
  <1> QED
    BY <1>3, <1>4 DEF ColdCommit

\* What an incremental traversal may write is not behind the row it read.
LEMMA ReachedIsAhead ==
  ASSUME TypeInv, CursorInv, NEW a \in Executor, pc[a] = "incCommit",
         RevisionIsCurrent(a), NEW reached \in Reached(a)
  PROVE  LET m == ctx[a].monitor IN
         /\ m \in Monitor /\ ctx[a].source = source[m]
         /\ ctx[a].boundary = cursor[m].boundary
         /\ reached \in Nat /\ reached <= top /\ reached >= cursor[m].boundary
  <1> DEFINE m == ctx[a].monitor
  <1>1. m \in Monitor /\ cursor[m] # NoCursor
    BY CtxMonitors DEF Deciding, RevisionIsCurrent
  <1>2. /\ top \in Nat /\ ctx[a].since \in Nat /\ ctx[a].pending \in Nat
        /\ cursor[m].boundary \in Nat
    BY <1>1, TimesAreNumbers DEF TypeInv
  <1>3. /\ ctx[a].source = cursor[m].source /\ ctx[a].boundary = cursor[m].boundary
        /\ ctx[a].pending = cursor[m].pending
        /\ ctx[a].boundary <= ctx[a].since /\ ctx[a].since <= top
    BY DEF CursorInv, Current, SnapshotIsCurrent
  <1>4. /\ cursor[m].source = source[m] /\ cursor[m].pending <= top
        /\ cursor[m].pending = 0 \/ cursor[m].pending >= cursor[m].boundary
    BY <1>1 DEF CursorInv, RowsAreSound
  <1>5. CASE reached \in ctx[a].since..top
    BY <1>1, <1>2, <1>3, <1>4, <1>5
  <1>6. CASE reached = ctx[a].pending /\ reached # 0
    BY <1>1, <1>2, <1>3, <1>4, <1>6
  <1> QED
    BY <1>5, <1>6 DEF Reached

LEMMA IncCommitCursor ==
  ASSUME TypeInv, CursorInv, NEW a \in Executor, IncCommit(a)
  PROVE  CursorInv'
  <1> DEFINE m == ctx[a].monitor
  <1>1. Moves(a) /\ m \in Monitor /\ pc[a] = "incCommit"
    BY IncCommitEffect DEF Effect, IncCommit, At, TypeInv, HandlersKeepState, InRun
  <1>2. UNCHANGED <<state, source, restoredAt, world>>
    BY DEF IncCommit, config
  <1>3. CASE Stale(a)
    <2>1. pc'[a] = "failing"
      BY <1>1, <1>3, ThrowMoves DEF Stale, TypeInv, TypeOK
    <2> QED
      BY <1>1, <1>2, <1>3, <2>1, IdleStep DEF Stale, Deciding
  <1>4. CASE RevisionIsCurrent(a) /\ CommitTraversal(a)
    <2>1. pc'[a] = "release"
      <3>1. Leave(a)
        BY <1>4 DEF CommitTraversal, Commit
      <3> QED
        BY <1>1, <3>1, LeaveMoves DEF TypeInv, TypeOK
    <2>2. PICK reached \in Reached(a) :
            WriteCursor(a, reached, 0) \/ WriteCursor(a, ctx[a].boundary, reached)
      BY <1>4 DEF CommitTraversal
    <2>3. /\ ctx[a].source = source[m] /\ ctx[a].boundary = cursor[m].boundary
          /\ reached \in Nat /\ reached <= top /\ reached >= cursor[m].boundary
      BY <1>1, <1>4, ReachedIsAhead
    <2>4. cursor[m].boundary \in Nat /\ restoredAt[m] \in Nat /\ top \in Nat
      BY <1>1, TimesAreNumbers DEF TypeInv
    <2>5. m \notin dropped => cursor[m].boundary >= restoredAt[m]
      BY <1>1, <1>4 DEF CursorInv, NoBacklogAfterRestore, RevisionIsCurrent
    <2>6. CASE WriteCursor(a, reached, 0)
      <3>1. 0 \in Nat /\ 0 <= top /\ (m \notin dropped => reached >= restoredAt[m])
        BY <2>3, <2>4, <2>5
      <3> QED
        BY <1>1, <1>2, <2>1, <2>3, <2>6, <3>1, WrittenCursor DEF Deciding
    <2>7. CASE WriteCursor(a, ctx[a].boundary, reached)
      <3>1. /\ ctx[a].boundary \in Nat /\ ctx[a].boundary <= top
            /\ reached >= ctx[a].boundary
            /\ m \notin dropped => ctx[a].boundary >= restoredAt[m]
        BY <2>3, <2>4, <2>5
      <3> QED
        BY <1>1, <1>2, <2>1, <2>3, <2>7, <3>1, WrittenCursor DEF Deciding
    <2> QED
      BY <2>2, <2>6, <2>7
  <1> QED
    BY <1>3, <1>4 DEF IncCommit

\* A change of the configuration: the row goes when the source changes or the monitor
\* comes back from the archive, and whoever stands before a write of his own works for
\* another monitor or knows.
LEMMA ConfigWriteCursor ==
  ASSUME TypeInv, LeaseNamesHolder, CursorInv, NEW x \in Requester \cup Editor,
         ConfigWrite(x)
  PROVE  CursorInv'
  <1> DEFINE m == ctx[x].monitor
             gone == ShouldReset(Before(x), After(x))
             restored == state[m] = "archived" /\ state'[m] # "archived"
  <1>1. Moves(x) /\ m \in Monitor /\ pc[x] = "configWrite" /\ pc'[x] = "release"
    <2>1. m \in Monitor /\ pc[x] = "configWrite"
      BY CtxMonitors DEF ConfigWrite, At, Deciding
    <2> QED
      BY <2>1, LeaveMoves DEF ConfigWrite, TypeInv, TypeOK
  <1>2. top' = top /\ dropped' = dropped /\ top \in Nat
    BY TimesAreNumbers DEF ConfigWrite, world, TypeInv
  <1>3. /\ cursor'[m] = IF gone THEN NoCursor ELSE cursor[m]
        /\ \A n \in Monitor \ {m} : cursor'[n] = cursor[n]
    BY <1>1 DEF ConfigWrite, TypeInv, TypeOK
  <1>4. /\ restoredAt'[m] = IF restored THEN top ELSE restoredAt[m]
        /\ \A n \in Monitor \ {m} : restoredAt'[n] = restoredAt[n]
    BY <1>1 DEF ConfigWrite, TypeInv, TypeOK
  <1>5. /\ x \in Editor => state' = state /\ source'[m] = ctx[x].target
        /\ x \in Requester => source' = source /\ state'[m] = ctx[x].target
        /\ \A n \in Monitor \ {m} : state'[n] = state[n] /\ source'[n] = source[n]
    BY <1>1, ActorsAreDistinct DEF ConfigWrite, Patch, TypeInv, TypeOK
  <1>6. ~gone => source'[m] = source[m]
    BY <1>1, <1>5, ActorsAreDistinct DEF ShouldReset, Before, After, CursorInv, Current,
       EditIsCurrent
  <1>7. m \notin dropped /\ restored => gone
    BY <1>1, <1>5, ActorsAreDistinct DEF ShouldReset, Before, After, CursorInv, Current,
       RequestIsCurrent
  <1>8. RowsAreSound'
    BY <1>2, <1>3, <1>5, <1>6 DEF RowsAreSound, CursorInv
  <1>9. NoBacklogAfterRestore'
    BY <1>2, <1>3, <1>4, <1>7 DEF NoBacklogAfterRestore, CursorInv
  <1>10. \A n \in Monitor : restoredAt'[n] <= top'
    BY <1>2, <1>4 DEF CursorInv
  <1>11. ASSUME NEW y \in Actor \ {x} PROVE Current(y)'
    <2>1. pc'[y] = pc[y] /\ ctx'[y] = ctx[y] /\ Current(y)
      BY <1>1 DEF Moves, CursorInv
    <2>2. SUFFICES ASSUME y \in Invocation, pc[y] \in Deciding PROVE Current(y)'
      BY <2>1, NothingToDecide, ActorsAreDistinct DEF Current
    <2> DEFINE n == ctx[y].monitor
    <2>3. n \in Monitor
      BY <2>2, CtxMonitors
    <2>4. ASSUME y \in Executor PROVE SnapshotIsCurrent(y)'
      <3>1. pc[y] = "incCommit" /\ RevisionIsCurrent(y)' =>
              RevisionIsCurrent(y) /\ cursor'[n] = cursor[n]
        BY <1>3, <2>1, <2>3 DEF RevisionIsCurrent
      <3> QED
        BY <1>2, <2>1, <2>4, <3>1 DEF Current, SnapshotIsCurrent
    <2>5. x \in Requester /\ y \notin Editor /\ n \notin dropped => n # m
      <3>1. x \in Requester => Leased(x, m)
        BY <1>1 DEF Leased
      <3>2. y \notin Editor => Leased(y, n)
        <4>1. CASE y \in Executor
          <5>1. pc[y] \in {"coldCommit", "incCommit"}
            BY <2>2, <4>1 DEF Deciding, TypeInv, HandlersKeepState, InRun, Traversing, CycleStep
          <5> QED
            BY <4>1, <5>1 DEF Leased, Holding, Traversing, CycleStep
        <4>2. CASE y \in Requester
          <5>1. pc[y] = "configWrite"
            BY <2>2, <4>2 DEF Deciding, TypeInv, HandlersKeepState, InSetState
          <5> QED
            BY <4>2, <5>1 DEF Leased
        <4> QED
          BY <2>2, <4>1, <4>2
      <3> QED
        BY <2>3, <3>1, <3>2 DEF LeaseNamesHolder
    <2>6. ASSUME y \in Executor PROVE BegunSinceRestore(y)'
      <3>1. x \in Editor => restoredAt'[n] = restoredAt[n]
        BY <1>4, <1>5, <2>3
      <3> QED
        BY <1>2, <1>4, <2>1, <2>3, <2>5, <2>6, <3>1, ActorsAreDistinct
           DEF Current, BegunSinceRestore
    <2>7. ASSUME y \in Editor PROVE EditIsCurrent(y)'
      <3>1. x \in Requester
        BY <2>7, OneEditor
      <3> QED
        BY <1>5, <2>1, <2>7, <3>1 DEF Current, EditIsCurrent
    <2>8. ASSUME y \in Requester PROVE RequestIsCurrent(y)'
      BY <1>2, <1>5, <2>1, <2>3, <2>5, <2>8, ActorsAreDistinct DEF Current, RequestIsCurrent
    <2> QED
      BY <2>4, <2>6, <2>7, <2>8 DEF Current
  <1> QED
    BY <1>1, <1>8, <1>9, <1>10, <1>11, NothingToDecide DEF CursorInv, Deciding

-----------------------------------------------------------------------------
\* Every other step is quiet.

LEMMA OtherRunStepCursor ==
  ASSUME TypeInv, CursorInv, NEW a \in Executor, RunStep(a),
         ~ColdRead(a), ~IncRead(a), ~ColdCommit(a), ~IncCommit(a)
  PROVE  CursorInv'
  <1>1. Moves(a) /\ pc \in [Actor -> Label] /\ ctx \in [Actor -> Context]
    BY RunStepEffect DEF Effect, TypeInv, TypeOK
  <1>2. UNCHANGED <<state, source, cursor, restoredAt, world>>
    BY DEF RunStep, RecordSkippedOverlap, Admit, CreateRun, ChooseCycle, CycleFails,
       JournalFailure, Release, config
  <1>3. Finish(a) \/ Leave(a) \/ Throw(a) => pc'[a] \in {"idle", "release", "failing"}
    BY <1>1 DEF Finish, Leave, Throw, Goto
  <1>4. Admit(a) \/ CreateRun(a) \/ ChooseCycle(a) =>
          pc'[a] \in {"create", "cycle", "coldRead", "incRead", "release"}
    BY <1>1, <1>3 DEF Admit, CreateRun, ChooseCycle, Goto, Leave
  <1>5. pc'[a] \notin Deciding
    BY <1>3, <1>4 DEF RunStep, RecordSkippedOverlap, CycleFails, JournalFailure, Release,
       Deciding
  <1> QED
    BY <1>1, <1>2, <1>5, IdleStep

LEMMA RunStepCursor ==
  ASSUME TypeInv, CursorInv, NEW a \in Executor, RunStep(a)
  PROVE  CursorInv'
  BY ColdReadCursor, IncReadCursor, ColdCommitCursor, IncCommitCursor, OtherRunStepCursor

LEMMA ConfigStepCursor ==
  ASSUME TypeInv, LeaseNamesHolder, CursorInv, NEW x \in Requester \cup Editor,
         ConfigStep(x)
  PROVE  CursorInv'
  <1>1. Moves(x) /\ pc \in [Actor -> Label]
    BY ConfigStepEffect DEF Effect, TypeInv, TypeOK
  <1>2. CASE CheckTransition(x) \/ Release(x)
    <2>1. UNCHANGED <<state, source, cursor, restoredAt, world>>
      BY <1>2 DEF CheckTransition, Release, config
    <2>2. pc'[x] \in {"configRead", "idle", "release"}
      BY <1>1, <1>2 DEF CheckTransition, Release, Finish, Leave, Goto
    <2> QED
      BY <1>1, <2>1, <2>2, IdleStep DEF Deciding
  <1> QED
    BY <1>2, ConfigReadCursor, ConfigWriteCursor DEF ConfigStep

LEMMA StartCursor ==
  ASSUME TypeInv, CursorInv, NEW x \in Invocation, NEW m \in Monitor,
         \/ x \in Executor /\ StartJob(x, m)
         \/ x \in Requester /\ \E s \in MonitorState : StartSetState(x, m, s)
         \/ x \in Editor /\ \E s \in Source : StartEdit(x, m, s)
  PROVE  CursorInv'
  <1>1. Moves(x) /\ pc \in [Actor -> Label]
    BY StartJobEffect, StartSetStateEffect, StartEditEffect DEF Effect, TypeInv, TypeOK
  <1>2. UNCHANGED <<state, source, cursor, restoredAt, world>>
    BY DEF StartJob, StartSetState, StartEdit, config
  <1>3. pc'[x] \in {"admit", "skip", "check", "configRead"}
    BY <1>1 DEF StartJob, StartSetState, StartEdit, Goto
  <1> QED
    BY <1>1, <1>2, <1>3, IdleStep DEF Deciding

LEMMA WorkerCursor ==
  ASSUME TypeInv, CursorInv, NEW w \in Worker, Spawn(w) \/ RecoveryStep(w)
  PROVE  CursorInv'
  <1>1. Moves(w) /\ InRecovery(w)'
    BY WorkerStepEffect DEF Effect
  <1>2. UNCHANGED <<state, source, cursor, restoredAt, world>>
    BY DEF Spawn, RecoveryStep, ListCandidates, RecoverRows, Release, Serve, TryRecover,
       config
  <1> QED
    BY <1>1, <1>2, IdleStep DEF InRecovery, Deciding

LEMMA WorldCursor ==
  ASSUME TypeInv, TypeInv', CursorInv,
         \/ \E w \in Worker : Crash(w)
         \/ \E m \in Monitor : SessionEnds(m) \/ SessionDropped(m)
         \/ NewListing \/ UNCHANGED vars
  PROVE  CursorInv'
  <1>1. UNCHANGED <<state, source, cursor, restoredAt>>
    BY DEF Crash, SessionEnds, SessionDropped, NewListing, config, vars
  <1>2. top' \in Time /\ top \in Nat /\ (top' = top \/ top' = top + 1)
    BY TimesAreNumbers DEF Crash, SessionEnds, SessionDropped, NewListing, world, vars,
       TypeInv, TypeOK
  <1>3. dropped \subseteq dropped'
    BY DEF Crash, SessionEnds, SessionDropped, NewListing, world, vars
  <1>4. \A x \in Actor : pc'[x] \in Deciding => pc'[x] = pc[x] /\ ctx'[x] = ctx[x]
    BY DEF Crash, SessionEnds, SessionDropped, NewListing, vars, Deciding
  <1> QED
    BY <1>1, <1>2, <1>3, <1>4, QuietStep DEF Quiet

LEMMA CursorStep ==
  ASSUME TypeInv, TypeInv', LeaseNamesHolder, CursorInv, [Next]_vars
  PROVE  CursorInv'
  BY RunStepCursor, ConfigStepCursor, StartCursor, WorkerCursor, WorldCursor DEF Next

LEMMA CursorInit == Init => CursorInv
  <1> SUFFICES ASSUME Init PROVE CursorInv
    OBVIOUS
  <1>1. RowsAreSound /\ NoBacklogAfterRestore
    BY DEF Init, RowsAreSound, NoBacklogAfterRestore
  <1>2. \A m \in Monitor : restoredAt[m] <= top
    BY DEF Init
  <1>3. \A x \in Actor : Current(x)
    BY DEF Init, Current, SnapshotIsCurrent, BegunSinceRestore, EditIsCurrent,
       RequestIsCurrent
  <1> QED
    BY <1>1, <1>2, <1>3 DEF CursorInv

LEMMA CursorHolds == Spec => []CursorInv
  BY TypeInvInit, TypeInvStep, LeaseInit, LeaseStep, CursorInit, CursorStep, PTL DEF Spec

-----------------------------------------------------------------------------
\* A watermark never belongs to a source the monitor no longer has: an edit takes no
\* lease and a traversal outlasts it, but its row is compared before it is written.
THEOREM CursorsMatch == Spec => []CursorMatchesSource
  <1>1. CursorInv => CursorMatchesSource
    BY DEF CursorInv, RowsAreSound, CursorMatchesSource
  <1> QED
    BY <1>1, CursorHolds, PTL

\* A monitor that comes back from the archive takes its baseline after its return.
THEOREM NoBacklog == Spec => []NoBacklogAfterRestore
  <1>1. CursorInv => NoBacklogAfterRestore
    BY DEF CursorInv
  <1> QED
    BY <1>1, CursorHolds, PTL

LEMMA WatermarkStep ==
  ASSUME TypeInv, CursorInv, [Next]_vars, NEW m \in Monitor,
         cursor[m] # NoCursor, cursor'[m] # NoCursor
  PROVE  cursor'[m].boundary >= cursor[m].boundary
  <1>1. cursor[m].boundary \in Nat
    BY TimesAreNumbers DEF TypeInv
  <1>2. CASE cursor'[m] = cursor[m]
    BY <1>1, <1>2
  <1>3. ASSUME NEW a \in Executor, ColdCommit(a), cursor'[m] # cursor[m]
        PROVE  FALSE
    BY <1>3 DEF ColdCommit, ColdStartIsCurrent, Stale, WriteCursor, TypeInv, TypeOK
  <1>4. ASSUME NEW a \in Executor, IncCommit(a), cursor'[m] # cursor[m]
        PROVE  cursor'[m].boundary >= cursor[m].boundary
    <2>1. PICK reached \in Reached(a) :
            WriteCursor(a, reached, 0) \/ WriteCursor(a, ctx[a].boundary, reached)
      BY <1>4 DEF IncCommit, Stale, CommitTraversal
    <2>2. RevisionIsCurrent(a) /\ pc[a] = "incCommit" /\ ctx[a].monitor = m
      BY <1>4, <2>1 DEF IncCommit, Stale, WriteCursor, At, TypeInv, TypeOK
    <2>3. reached >= cursor[m].boundary /\ ctx[a].boundary = cursor[m].boundary
      BY <2>2, ReachedIsAhead
    <2>4. cursor'[m].boundary = reached \/ cursor'[m].boundary = ctx[a].boundary
      BY <2>1, <2>2 DEF WriteCursor, TypeInv, TypeOK
    <2> QED
      BY <1>1, <2>3, <2>4
  <1>5. ASSUME NEW x \in Requester \cup Editor, ConfigWrite(x), cursor'[m] # cursor[m]
        PROVE  FALSE
    BY <1>5 DEF ConfigWrite, TypeInv, TypeOK
  <1>6. \/ cursor' = cursor
        \/ \E a \in Executor : ColdCommit(a) \/ IncCommit(a)
        \/ \E x \in Requester \cup Editor : ConfigWrite(x)
    BY DEF Next, RunStep, StartJob, RecordSkippedOverlap, Admit, CreateRun, ChooseCycle,
       ColdRead, IncRead, CycleFails, JournalFailure, Release,
       ConfigStep, CheckTransition, ConfigRead, StartSetState, StartEdit, Spawn,
       RecoveryStep, ListCandidates, RecoverRows, Serve, TryRecover, Crash, SessionEnds,
       SessionDropped, NewListing, vars
  <1> QED
    BY <1>2, <1>3, <1>4, <1>5, <1>6

\* A watermark that is not reset only moves forward, even when two traversals overlap
\* because a session was dropped: the revision is compared under the row lock.
THEOREM WatermarkMovesForward == Spec => WatermarkNeverRegresses
  <1>1. TypeInv /\ CursorInv /\ [Next]_vars
          => [\A m \in Monitor : cursor[m] # NoCursor /\ cursor'[m] # NoCursor
                => cursor'[m].boundary >= cursor[m].boundary]_cursor
    BY WatermarkStep
  <1> QED
    BY <1>1, CursorHolds, TypeInvInit, TypeInvStep, PTL DEF Spec, WatermarkNeverRegresses
=============================================================================
