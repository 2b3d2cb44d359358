----------------------- MODULE WorkerSupervisorProofs -----------------------
(***************************************************************************)
(* What WorkerSupervisor guarantees for any number of processes, calls and *)
(* tokens, for any restart policy, and for any number of accidents.        *)
(***************************************************************************)
EXTENDS WorkerSupervisor, TLAPS

USE NoneIsNothing, BoundsAreNaturals DEF Process, Bootstrap

\* A worker said shutdown-complete: it did so as it ended.
SaidComplete(p) ==
  \E i \in DOMAIN outbox[p] : outbox[p][i].type = "shutdown-complete"
CompleteMeansGone ==
  \A p \in Process :
    /\ SaidComplete(p) => ~Alive(p)
    /\ worker[p] = "none" => outbox[p] = <<>>

\* Without an unexpected failure there is one way to a worker at a time: a bootstrap, the
\* worker itself, a restart timer, or the error screen.
OneWayToAWorker ==
  unexpected = 0 =>
    /\ \A p \in Process : worker[p] # "none" => p = current
    /\ \A b, c \in boots : b = c
    /\ boots # {} => current = None /\ timers = 0 /\ phase = "starting"
    /\ phase = "error" => current = None /\ timers = 0
    /\ timers # 0 => timers = 1 /\ current = None

\* Once a worker has been asked to stop nothing starts another.
NothingStartsAfterStop ==
  /\ shutdown # "no" => stopping
  /\ quit => shutdown = "done"
  /\ target # None => stopping
  /\ unexpected = 0 /\ target # None =>
       /\ boots = {} /\ timers = 0 /\ phase # "error"
       /\ shutdown = "done" => ~Alive(target)

-----------------------------------------------------------------------------
LEMMA InitTypes == Init => TypeOK
<1> SUFFICES ASSUME Init PROVE TypeOK
  OBVIOUS
<1>1. /\ inbox \in [Process -> Seq(ToWorker)]
      /\ outbox \in [Process -> Seq(FromWorker)]
  BY DEF Init
<1>2. MaxTrouble \in Nat /\ MaxUnexpected \in Nat
  OBVIOUS
<1>3. /\ trouble \in 0..MaxTrouble /\ unexpected \in 0..MaxUnexpected
      /\ timers \in Nat /\ crashes \in Nat
  BY <1>2 DEF Init
<1>4. /\ phase \in {"starting", "ready", "error"} /\ boots \subseteq Bootstrap
      /\ current \in Process \cup {None}
      /\ wanted \in Token \cup {None} /\ sent \in BOOLEAN
      /\ stopping \in BOOLEAN /\ shutdown \in {"no", "waiting", "done"}
      /\ target \in Process \cup {None} /\ quit \in BOOLEAN
      /\ (shutdown = "waiting" => target # None)
      /\ ready \subseteq Process
  BY DEF Init
<1>5. /\ pending \in [Request -> Process \cup {None}]
      /\ worker \in [Process -> {"none", "starting", "serving", "stopping", "exited"}]
      /\ leaveAsked \in [Process -> BOOLEAN]
      /\ hand \in [Process -> SUBSET Request]
      /\ config \in [Process -> Token \cup {None}]
  BY DEF Init
<1> QED
  BY <1>1, <1>3, <1>4, <1>5 DEF TypeOK

\* The name a spawn takes was nobody's, and it is nobody else's afterwards.
LEMMA SpawnTypes ==
  ASSUME TypeOK, Spawn
  PROVE  /\ current' \in Process
         /\ worker[current'] = "none"
         /\ worker' = [worker EXCEPT ![current'] = "starting"]
         /\ worker' \in [Process -> {"none", "starting", "serving", "stopping", "exited"}]
         /\ sent' = FALSE
BY DEF Spawn, TypeOK, ForgetSent

LEMMA PostTypes ==
  ASSUME TypeOK, NEW p \in Process, NEW t, NEW c, Post(p, t, c),
         [type |-> t, content |-> c] \in ToWorker
  PROVE  inbox' \in [Process -> Seq(ToWorker)]
<1>1. inbox[p] \in Seq(ToWorker)
  BY DEF TypeOK
<1>2. Append(inbox[p], [type |-> t, content |-> c]) \in Seq(ToWorker)
  BY <1>1
<1> QED
  BY <1>1, <1>2 DEF Post, Message, TypeOK

LEMMA SayTypes ==
  ASSUME TypeOK, NEW p \in Process, NEW t, NEW c, Say(p, t, c),
         [type |-> t, content |-> c] \in FromWorker
  PROVE  outbox' \in [Process -> Seq(FromWorker)]
<1>1. outbox[p] \in Seq(FromWorker)
  BY DEF TypeOK
<1>2. Append(outbox[p], [type |-> t, content |-> c]) \in Seq(FromWorker)
  BY <1>1
<1> QED
  BY <1>1, <1>2 DEF Say, Message, TypeOK

LEMMA ForgetsTypes ==
  ASSUME TypeOK, NEW p \in Process, Forgets(p)
  PROVE  /\ leaveAsked' \in [Process -> BOOLEAN]
         /\ hand' \in [Process -> SUBSET Request]
         /\ config' \in [Process -> Token \cup {None}]
         /\ inbox' \in [Process -> Seq(ToWorker)]
BY DEF Forgets, TypeOK

\* Every action keeps every variable in its type.
LEMMA TypeStep == TypeOK /\ [Next]_vars => TypeOK'
<1> SUFFICES ASSUME TypeOK, [Next]_vars PROVE TypeOK'
  OBVIOUS
<1> USE DEF desktop, policy, telegram, leaving, inside, wires, bounds, vars
<1>1. ASSUME NEW b \in Bootstrap, BootstrapGoesOn(b) PROVE TypeOK'
  BY <1>1 DEF BootstrapGoesOn, TypeOK
<1>2. ASSUME NEW b \in Bootstrap, BootstrapFails(b) PROVE TypeOK'
  BY <1>2 DEF BootstrapFails, Trouble, TypeOK
<1>3. ASSUME NEW b \in Bootstrap, BootstrapEnds(b) PROVE TypeOK'
  BY <1>3, SpawnTypes DEF BootstrapEnds, TypeOK
<1>4. CASE Retry
  BY <1>4 DEF Retry, TypeOK
<1>5. CASE UnexpectedFailure
  BY <1>5 DEF UnexpectedFailure, TypeOK
<1>6. ASSUME NEW t \in Token, ConfigureTelegram(t) PROVE TypeOK'
  <2>1. Message("configure", t) \in ToWorker
    BY DEF Message, ToWorker
  <2>2. inbox' \in [Process -> Seq(ToWorker)]
    BY <1>6, <2>1, PostTypes DEF ConfigureTelegram, Message, TypeOK
  <2> QED
    BY <1>6, <2>2 DEF ConfigureTelegram, TypeOK
<1>7. ASSUME NEW r \in Request, Call(r) PROVE TypeOK'
  <2>1. Message("request", r) \in ToWorker
    BY DEF Message, ToWorker
  <2>2. inbox' \in [Process -> Seq(ToWorker)]
    BY <1>7, <2>1, PostTypes DEF Call, Message, TypeOK
  <2> QED
    BY <1>7, <2>2 DEF Call, TypeOK
<1>8. CASE RestartTimer
  <2>1. timers' \in Nat
    BY <1>8 DEF RestartTimer, TypeOK
  <2> QED
    BY <1>8, <2>1, SpawnTypes DEF RestartTimer, TypeOK
<1>9. CASE Shutdown
  <2>1. Message("shutdown", None) \in ToWorker
    BY DEF Message, ToWorker
  <2>2. inbox' \in [Process -> Seq(ToWorker)]
    BY <1>9, <2>1, PostTypes DEF Shutdown, Message, TypeOK
  <2> QED
    BY <1>9, <2>2 DEF Shutdown, RejectPending, TypeOK
<1>10. CASE ShutdownTimeout
  <2>1. CASE target \in Process /\ Alive(target)
    <3>1. /\ leaveAsked' \in [Process -> BOOLEAN]
          /\ hand' \in [Process -> SUBSET Request]
          /\ config' \in [Process -> Token \cup {None}]
          /\ inbox' \in [Process -> Seq(ToWorker)]
      BY <1>10, <2>1, ForgetsTypes DEF ShutdownTimeout, Kill
    <3> QED
      BY <1>10, <2>1, <3>1 DEF ShutdownTimeout, Kill, Finish, TypeOK
  <2>2. CASE ~Alive(target)
    BY <1>10, <2>2 DEF ShutdownTimeout, Kill, Finish, TypeOK
  <2>3. target \in Process
    BY <1>10 DEF ShutdownTimeout, TypeOK
  <2> QED
    BY <2>1, <2>2, <2>3
<1>11. CASE Quit
  BY <1>11 DEF Quit, TypeOK
<1>12. ASSUME NEW p \in Process, HandleMessage(p) PROVE TypeOK'
  <2>1. outbox[p] \in Seq(FromWorker) /\ outbox[p] # <<>>
    BY <1>12 DEF HandleMessage, TypeOK
  <2>2. Head(outbox[p]) \in FromWorker /\ Tail(outbox[p]) \in Seq(FromWorker)
    BY <2>1
  <2>3. outbox' \in [Process -> Seq(FromWorker)]
    BY <1>12, <2>2 DEF HandleMessage, TypeOK
  <2>4. CASE HandleReady(p)
    <3>1. sent' \in BOOLEAN /\ inbox' \in [Process -> Seq(ToWorker)]
      <4>1. CASE wanted = None \/ sent \/ current # p
        BY <2>4, <4>1 DEF HandleReady, SendConfiguration, TypeOK
      <4>2. CASE ~(wanted = None \/ sent \/ current # p)
        <5>1. Message("configure", wanted) \in ToWorker
          BY <4>2 DEF Message, ToWorker, TypeOK
        <5> QED
          BY <2>4, <4>2, <5>1, PostTypes DEF HandleReady, SendConfiguration, Message
      <4> QED
        BY <4>1, <4>2
    <3> QED
      BY <1>12, <2>3, <2>4, <3>1 DEF HandleMessage, HandleReady, TypeOK
  <2>5. ASSUME NEW r, HandleAnswer(r) PROVE TypeOK'
    BY <1>12, <2>3, <2>5 DEF HandleMessage, HandleAnswer, TypeOK
  <2>6. CASE HandleShutdownComplete(p)
    BY <1>12, <2>3, <2>6 DEF HandleMessage, HandleShutdownComplete, TypeOK
  <2> QED
    BY <1>12, <2>4, <2>5, <2>6 DEF HandleMessage
<1>13. ASSUME NEW p \in Process, HandleExit(p) PROVE TypeOK'
  <2>1. outbox' \in [Process -> Seq(FromWorker)]
    BY <1>13 DEF HandleExit, TypeOK
  <2>2. /\ worker' \in [Process -> {"none", "starting", "serving", "stopping", "exited"}]
        /\ ready' \subseteq Process
    BY <1>13 DEF HandleExit, TypeOK
  <2>3. /\ phase' \in {"starting", "ready", "error"}
        /\ timers' \in Nat /\ crashes' \in Nat
    <3>1. /\ phase \in {"starting", "ready", "error"}
          /\ timers \in Nat /\ crashes \in Nat
      BY DEF TypeOK
    <3>2. CASE stopping
      BY <1>13, <3>1, <3>2 DEF HandleExit
    <3>3. CASE ~stopping
      <4>1. crashes' \in Nat
        BY <1>13, <3>1, <3>3 DEF HandleExit
      <4>2. timers' \in {timers, timers + 1}
        BY <1>13, <3>3 DEF HandleExit
      <4>3. phase' \in {phase, "error"}
        BY <1>13, <3>3 DEF HandleExit, MarkWorkerBootFailed
      <4> QED
        BY <3>1, <4>1, <4>2, <4>3
    <3> QED
      BY <3>2, <3>3
  <2>4. /\ current' \in Process \cup {None} /\ sent' \in BOOLEAN
        /\ pending' \in [Request -> Process \cup {None}]
    BY <1>13 DEF HandleExit, ForgetSent, RejectPending, TypeOK
  <2> QED
    BY <1>13, <2>1, <2>2, <2>3, <2>4 DEF HandleExit, TypeOK
<1>14. ASSUME NEW p \in Process, TakeMessage(p) PROVE TypeOK'
  <2>1. inbox[p] \in Seq(ToWorker) /\ inbox[p] # <<>>
    BY <1>14 DEF TakeMessage, TypeOK
  <2>2. Head(inbox[p]) \in ToWorker /\ Tail(inbox[p]) \in Seq(ToWorker)
    BY <2>1
  <2>3. inbox' \in [Process -> Seq(ToWorker)]
    BY <1>14, <2>2 DEF TakeMessage, TypeOK
  <2>4. /\ Head(inbox[p]).type = "configure" => Head(inbox[p]).content \in Token
        /\ Head(inbox[p]).type = "request" => Head(inbox[p]).content \in Request
    BY <2>2 DEF ToWorker
  <2>5. /\ config' \in [Process -> Token \cup {None}]
        /\ hand' \in [Process -> SUBSET Request]
    BY <1>14, <2>4 DEF TakeMessage, TypeOK
  <2> QED
    BY <1>14, <2>3, <2>5 DEF TakeMessage, TypeOK
<1>15. ASSUME NEW p \in Process, NEW r \in Request, Answer(p, r) PROVE TypeOK'
  <2>1. Message("answer", r) \in FromWorker
    BY DEF Message, FromWorker
  <2>2. outbox' \in [Process -> Seq(FromWorker)]
    BY <1>15, <2>1, SayTypes DEF Answer, Message
  <2> QED
    BY <1>15, <2>2 DEF Answer, TypeOK
<1>16. ASSUME NEW p \in Process, Started(p) PROVE TypeOK'
  <2>1. Message("ready", None) \in FromWorker
    BY DEF Message, FromWorker
  <2>2. outbox' \in [Process -> Seq(FromWorker)]
    BY <1>16, <2>1, SayTypes DEF Started, Message, TypeOK
  <2> QED
    BY <1>16, <2>2 DEF Started, TypeOK
<1>17. ASSUME NEW p \in Process, Stopped(p) PROVE TypeOK'
  <2>1. Message("shutdown-complete", None) \in FromWorker
    BY DEF Message, FromWorker
  <2>2. outbox' \in [Process -> Seq(FromWorker)]
    BY <1>17, <2>1, SayTypes DEF Stopped, Message
  <2> QED
    BY <1>17, <2>2, ForgetsTypes DEF Stopped, TypeOK
<1>18. ASSUME NEW p \in Process, Crash(p) PROVE TypeOK'
  <2>1. trouble' \in 0..MaxTrouble
    BY <1>18 DEF Crash, Trouble, TypeOK
  <2> QED
    BY <1>18, <2>1, ForgetsTypes DEF Crash, TypeOK
<1>19. CASE UNCHANGED vars
  BY <1>19 DEF TypeOK
<1> QED
  BY <1>1, <1>2, <1>3, <1>4, <1>5, <1>6, <1>7, <1>8, <1>9, <1>10, <1>11, <1>12, <1>13,
     <1>14, <1>15, <1>16, <1>17, <1>18, <1>19 DEF Next, Step, Terminated

\* Every variable has its type for as long as the application runs.
THEOREM TypesHold == Spec => []TypeOK
<1> QED
  BY InitTypes, TypeStep, PTL DEF Spec

-----------------------------------------------------------------------------
\* The ready screen.

LEMMA ReadyMeansServedStep ==
  TypeOK /\ ReadyMeansServed /\ [Next]_vars => ReadyMeansServed'
<1> SUFFICES ASSUME TypeOK, ReadyMeansServed, [Next]_vars PROVE ReadyMeansServed'
  OBVIOUS
<1> USE DEF desktop, policy, telegram, leaving, inside, wires, bounds, vars
<1>1. ASSUME NEW b \in Bootstrap,
             BootstrapGoesOn(b) \/ BootstrapFails(b) PROVE ReadyMeansServed'
  BY <1>1 DEF BootstrapGoesOn, BootstrapFails, ReadyMeansServed
<1>2. ASSUME NEW b \in Bootstrap, BootstrapEnds(b) PROVE ReadyMeansServed'
  BY <1>2, SpawnTypes DEF BootstrapEnds, ReadyMeansServed
<1>3. CASE RestartTimer
  BY <1>3, SpawnTypes DEF RestartTimer, ReadyMeansServed
<1>4. ASSUME NEW p \in Process, HandleExit(p) PROVE ReadyMeansServed'
  <2>1. CASE stopping
    BY <1>4, <2>1 DEF HandleExit, ReadyMeansServed
  <2>2. CASE ~stopping /\ crashes' > MaxRestarts
    BY <1>4, <2>2 DEF HandleExit, MarkWorkerBootFailed, ReadyMeansServed
  <2>3. CASE ~stopping /\ ~(crashes' > MaxRestarts)
    <3>1. timers' = timers + 1
      BY <1>4, <2>3 DEF HandleExit
    <3>2. timers' > 0
      BY <3>1 DEF TypeOK
    <3> QED
      BY <3>2 DEF ReadyMeansServed
  <2> QED
    BY <2>1, <2>2, <2>3
<1>5. CASE Retry \/ UnexpectedFailure \/ Shutdown
  BY <1>5 DEF Retry, UnexpectedFailure, Shutdown, ReadyMeansServed
<1>6. ASSUME UNCHANGED <<phase, stopping, current, timers>> PROVE ReadyMeansServed'
  BY <1>6 DEF ReadyMeansServed
<1>7. ASSUME NEW p \in Process, HandleMessage(p) PROVE UNCHANGED <<phase, stopping, current, timers>>
  BY <1>7 DEF HandleMessage
<1>8. ASSUME NEW p \in Process,
             \/ TakeMessage(p) \/ Started(p) \/ Stopped(p) \/ Crash(p)
             \/ \E r \in Request : Answer(p, r)
      PROVE UNCHANGED <<phase, stopping, current, timers>>
  BY <1>8 DEF TakeMessage, Started, Stopped, Crash, Answer
<1>9. CASE ShutdownTimeout \/ Quit \/ (\E t \in Token : ConfigureTelegram(t))
           \/ (\E r \in Request : Call(r)) \/ UNCHANGED vars
  BY <1>6, <1>9 DEF ShutdownTimeout, Quit, ConfigureTelegram, Call
<1> QED
  BY <1>1, <1>2, <1>3, <1>4, <1>5, <1>6, <1>7, <1>8, <1>9 DEF Next, Step, Terminated

\* ReadyMeansServed holds whatever fails, unexpectedly or not: the ready screen is never
\* left standing without a worker or a timer that brings one.
THEOREM ReadyScreenIsServed == Spec => []ReadyMeansServed
<1>1. Init => ReadyMeansServed
  BY DEF Init, ReadyMeansServed
<1> QED
  BY <1>1, InitTypes, TypeStep, ReadyMeansServedStep, PTL DEF Spec

-----------------------------------------------------------------------------
\* One worker.

LEMMA OneWayStep == TypeOK /\ OneWayToAWorker /\ [Next]_vars => OneWayToAWorker'
<1> SUFFICES ASSUME TypeOK, OneWayToAWorker, [Next]_vars, unexpected' = 0
             PROVE  OneWayToAWorker'
  BY DEF OneWayToAWorker
<1> USE DEF desktop, policy, telegram, leaving, inside, wires, bounds, vars
<1>0. unexpected = 0 /\ ~UnexpectedFailure
  <2>1. unexpected \in Nat
    BY DEF TypeOK
  <2>2. CASE UnexpectedFailure
    BY <2>1, <2>2 DEF UnexpectedFailure
  <2>3. CASE ~UnexpectedFailure
    BY <2>3 DEF Next, Step, Terminated, BootstrapGoesOn, BootstrapFails, BootstrapEnds,
       Retry, ConfigureTelegram, Call, RestartTimer, Shutdown, ShutdownTimeout, Quit,
       HandleMessage, HandleExit, TakeMessage, Started, Stopped, Crash, Answer
  <2> QED
    BY <2>2, <2>3
<1>A. /\ \A p \in Process : worker[p] # "none" => p = current
      /\ \A b, c \in boots : b = c
      /\ boots # {} => current = None /\ timers = 0 /\ phase = "starting"
      /\ phase = "error" => current = None /\ timers = 0
      /\ timers # 0 => timers = 1 /\ current = None
  BY <1>0 DEF OneWayToAWorker
<1>1. ASSUME NEW b \in Bootstrap, BootstrapGoesOn(b) PROVE OneWayToAWorker'
  BY <1>1, <1>A DEF BootstrapGoesOn, OneWayToAWorker
<1>2. ASSUME NEW b \in Bootstrap, BootstrapFails(b) PROVE OneWayToAWorker'
  BY <1>2, <1>A DEF BootstrapFails, OneWayToAWorker
<1>3. ASSUME NEW b \in Bootstrap, BootstrapEnds(b) PROVE OneWayToAWorker'
  <2>1. boots' = {} /\ phase' = "ready" /\ timers' = 0
    BY <1>3, <1>A DEF BootstrapEnds
  <2>2. current = None
    BY <1>3, <1>A DEF BootstrapEnds
  <2>3. \A p \in Process : worker[p] = "none"
    BY <2>2, <1>A
  <2>4. Spawn
    BY <1>3 DEF BootstrapEnds
  <2>5. \A p \in Process : worker'[p] # "none" => p = current'
    BY <2>3, <2>4, SpawnTypes DEF TypeOK
  <2> QED
    BY <2>1, <2>5 DEF OneWayToAWorker
<1>4. CASE Retry
  BY <1>4, <1>A DEF Retry, MayRetry, OneWayToAWorker
<1>5. CASE RestartTimer
  <2>1. timers' = 0 /\ boots' = {} /\ phase' # "error" /\ current = None
    BY <1>5, <1>A DEF RestartTimer, TypeOK
  <2>2. \A p \in Process : worker'[p] # "none" => p = current'
    BY <1>5, <1>A, <2>1, SpawnTypes DEF RestartTimer, TypeOK
  <2> QED
    BY <2>1, <2>2 DEF OneWayToAWorker
<1>6. CASE Shutdown
  BY <1>6, <1>A DEF Shutdown, OneWayToAWorker
<1>7. CASE ShutdownTimeout
  <2>1. \A p \in Process : worker'[p] # "none" => worker[p] # "none"
    BY <1>7 DEF ShutdownTimeout, Kill, Alive, TypeOK
  <2> QED
    BY <1>7, <1>A, <2>1 DEF ShutdownTimeout, OneWayToAWorker
<1>8. ASSUME NEW p \in Process, HandleExit(p) PROVE OneWayToAWorker'
  <2>1. p = current /\ current # None
    BY <1>8, <1>A DEF HandleExit
  <2>2. boots = {} /\ timers = 0 /\ phase # "error"
    BY <2>1, <1>A
  <2>3. /\ boots' = {} /\ current' = None
        /\ \A q \in Process : worker'[q] # "none" => worker[q] # "none" /\ q # p
    BY <1>8, <2>1, <2>2 DEF HandleExit, TypeOK
  <2>4. \A q \in Process : worker'[q] = "none"
    BY <2>1, <2>3, <1>A DEF TypeOK
  <2>5. \/ phase' = phase /\ timers' \in {0, 1}
        \/ phase' = "error" /\ timers' = 0
    BY <1>8, <2>2 DEF HandleExit, MarkWorkerBootFailed
  <2> QED
    BY <2>2, <2>3, <2>4, <2>5 DEF OneWayToAWorker
<1>9. ASSUME NEW p \in Process,
             \/ TakeMessage(p) \/ Started(p) \/ Stopped(p) \/ Crash(p)
             \/ \E r \in Request : Answer(p, r)
      PROVE OneWayToAWorker'
  <2>1. \A q \in Process : worker'[q] # "none" => worker[q] # "none"
    BY <1>9 DEF TakeMessage, Started, Stopped, Crash, Answer, Alive, TypeOK
  <2>2. UNCHANGED <<phase, boots, current, timers>>
    BY <1>9 DEF TakeMessage, Started, Stopped, Crash, Answer
  <2> QED
    BY <2>1, <2>2, <1>A DEF OneWayToAWorker
<1>10. ASSUME UNCHANGED <<worker, phase, boots, current, timers>> PROVE OneWayToAWorker'
  BY <1>10, <1>A DEF OneWayToAWorker
<1>11. ASSUME NEW p \in Process, HandleMessage(p)
       PROVE UNCHANGED <<worker, phase, boots, current, timers>>
  BY <1>11 DEF HandleMessage
<1>12. CASE Quit \/ (\E t \in Token : ConfigureTelegram(t))
           \/ (\E r \in Request : Call(r)) \/ UNCHANGED vars
  BY <1>10, <1>12 DEF Quit, ConfigureTelegram, Call
<1> QED
  BY <1>0, <1>1, <1>2, <1>3, <1>4, <1>5, <1>6, <1>7, <1>8, <1>9, <1>10, <1>11, <1>12
     DEF Next, Step, Terminated

LEMMA InitOneWay == Init => OneWayToAWorker
BY DEF Init, OneWayToAWorker

\* OneWorker: as long as the error screen shows for nothing but a failed bootstrap or a
\* worker that gave out, there is never a second worker, nor a timer about to start one.
THEOREM OneWorkerAtATime == Spec => []OneWorker
<1>1. TypeOK /\ OneWayToAWorker => OneWorker
  BY DEF TypeOK, OneWayToAWorker, OneWorker, Alive
<1> QED
  BY <1>1, InitTypes, TypeStep, InitOneWay, OneWayStep, PTL DEF Spec

-----------------------------------------------------------------------------
\* The worker is gone when the application quits.

LEMMA CompleteStep == TypeOK /\ CompleteMeansGone /\ [Next]_vars => CompleteMeansGone'
<1> SUFFICES ASSUME TypeOK, CompleteMeansGone, [Next]_vars PROVE CompleteMeansGone'
  OBVIOUS
<1> USE DEF desktop, policy, telegram, leaving, inside, wires, bounds, vars
<1>1. ASSUME NEW p \in Process, worker'[p] = worker[p], outbox'[p] = outbox[p]
      PROVE  /\ SaidComplete(p)' => ~Alive(p)'
             /\ worker'[p] = "none" => outbox'[p] = <<>>
  BY <1>1 DEF CompleteMeansGone, SaidComplete, Alive
<1>2. ASSUME UNCHANGED <<worker, outbox>> PROVE CompleteMeansGone'
  BY <1>1, <1>2 DEF CompleteMeansGone
<1>3. ASSUME Spawn, UNCHANGED outbox PROVE CompleteMeansGone'
  <2>1. PICK n \in Process :
          worker[n] = "none" /\ worker' = [worker EXCEPT ![n] = "starting"]
    BY <1>3, SpawnTypes
  <2>2. \A q \in Process : q # n => worker'[q] = worker[q]
    BY <2>1 DEF TypeOK
  <2>3. outbox'[n] = <<>> /\ worker'[n] = "starting"
    BY <1>3, <2>1 DEF CompleteMeansGone, TypeOK
  <2>4. ~SaidComplete(n)'
    BY <2>3 DEF SaidComplete
  <2> QED
    BY <1>1, <1>3, <2>2, <2>3, <2>4 DEF CompleteMeansGone
<1>4. ASSUME NEW p \in Process, HandleExit(p) PROVE CompleteMeansGone'
  <2>1. \A q \in Process : q # p => worker'[q] = worker[q] /\ outbox'[q] = outbox[q]
    BY <1>4 DEF HandleExit, TypeOK
  <2>2. worker'[p] = "none" /\ outbox'[p] = <<>>
    BY <1>4 DEF HandleExit, TypeOK
  <2> QED
    BY <1>1, <2>1, <2>2 DEF CompleteMeansGone, Alive
<1>5. ASSUME NEW p \in Process, HandleMessage(p) PROVE CompleteMeansGone'
  <2>1. UNCHANGED worker
    BY <1>5 DEF HandleMessage
  <2>2. outbox' = [outbox EXCEPT ![p] = Tail(@)] /\ outbox[p] # <<>>
    BY <1>5 DEF HandleMessage
  <2>3. \A q \in Process : q # p => outbox'[q] = outbox[q]
    BY <2>2 DEF TypeOK
  <2>4. outbox[p] \in Seq(FromWorker) /\ outbox'[p] = Tail(outbox[p])
    BY <2>2 DEF TypeOK
  <2>5. \A i \in DOMAIN outbox'[p] :
          i + 1 \in DOMAIN outbox[p] /\ outbox'[p][i] = outbox[p][i + 1]
    <3>1. \A s \in Seq(FromWorker) : s # <<>> =>
            \A i \in DOMAIN Tail(s) : i + 1 \in DOMAIN s /\ Tail(s)[i] = s[i + 1]
      OBVIOUS
    <3> QED
      BY <2>2, <2>4, <3>1
  <2>6. SaidComplete(p)' => SaidComplete(p)
    BY <2>5 DEF SaidComplete
  <2>7. worker[p] # "none"
    BY <2>2 DEF CompleteMeansGone
  <2>8. SaidComplete(p)' => ~Alive(p)'
    BY <2>1, <2>6 DEF CompleteMeansGone, Alive
  <2> QED
    BY <1>1, <2>1, <2>3, <2>7, <2>8 DEF CompleteMeansGone
<1>6. ASSUME NEW p \in Process, Stopped(p) \/ Crash(p) PROVE CompleteMeansGone'
  <2>1. /\ worker'[p] = "exited"
        /\ \A q \in Process : q # p => worker'[q] = worker[q] /\ outbox'[q] = outbox[q]
    BY <1>6 DEF Stopped, Crash, Say, TypeOK
  <2> QED
    BY <1>1, <2>1 DEF CompleteMeansGone, Alive
<1>7. ASSUME NEW p \in Process, NEW m \in FromWorker, m.type # "shutdown-complete",
             Alive(p), worker'[p] # "none", outbox' = [outbox EXCEPT ![p] = Append(@, m)],
             \A q \in Process : q # p => worker'[q] = worker[q]
      PROVE CompleteMeansGone'
  <2>1. \A q \in Process : q # p => outbox'[q] = outbox[q]
    BY <1>7 DEF TypeOK
  <2>2. outbox[p] \in Seq(FromWorker) /\ outbox'[p] = Append(outbox[p], m)
    BY <1>7 DEF TypeOK
  <2>3. \A i \in DOMAIN outbox'[p] :
          \/ i \in DOMAIN outbox[p] /\ outbox'[p][i] = outbox[p][i]
          \/ outbox'[p][i] = m
    BY <2>2
  <2>4. SaidComplete(p)' => SaidComplete(p)
    BY <1>7, <2>3 DEF SaidComplete
  <2>5. ~SaidComplete(p)'
    BY <1>7, <2>4 DEF CompleteMeansGone
  <2> QED
    BY <1>1, <1>7, <2>1, <2>5 DEF CompleteMeansGone
<1>8. ASSUME NEW p \in Process, NEW r \in Request, Answer(p, r) PROVE CompleteMeansGone'
  <2>1. Message("answer", r) \in FromWorker /\ Message("answer", r).type = "answer"
    BY DEF Message, FromWorker
  <2>2. /\ Alive(p) /\ UNCHANGED worker
        /\ outbox' = [outbox EXCEPT ![p] = Append(@, Message("answer", r))]
    BY <1>8 DEF Answer, Say
  <2>3. worker'[p] # "none"
    BY <2>2 DEF Alive
  <2> QED
    BY <1>7, <2>1, <2>2, <2>3
<1>9. ASSUME NEW p \in Process, Started(p) PROVE CompleteMeansGone'
  <2>1. worker[p] = "starting" /\ \A q \in Process : q # p => worker'[q] = worker[q]
    BY <1>9 DEF Started, TypeOK
  <2>2. CASE leaveAsked[p]
    <3>1. ~SaidComplete(p)' /\ UNCHANGED outbox
      BY <1>9, <2>1, <2>2 DEF Started, CompleteMeansGone, SaidComplete, Alive
    <3>2. worker'[p] = "stopping"
      BY <1>9, <2>2 DEF Started, TypeOK
    <3> QED
      BY <1>1, <2>1, <3>1, <3>2 DEF CompleteMeansGone
  <2>3. CASE ~leaveAsked[p]
    <3>1. Message("ready", None) \in FromWorker /\ Message("ready", None).type = "ready"
      BY DEF Message, FromWorker
    <3>2. /\ Alive(p) /\ worker'[p] # "none"
          /\ outbox' = [outbox EXCEPT ![p] = Append(@, Message("ready", None))]
      BY <1>9, <2>1, <2>3 DEF Started, Say, Alive, TypeOK
    <3> QED
      BY <1>7, <2>1, <3>1, <3>2
  <2> QED
    BY <2>2, <2>3
<1>10. ASSUME NEW p \in Process, TakeMessage(p) PROVE CompleteMeansGone'
  <2>1. UNCHANGED outbox /\ Alive(p)
    BY <1>10 DEF TakeMessage
  <2>2. /\ worker'[p] = worker[p] \/ worker'[p] = "stopping"
        /\ \A q \in Process : q # p => worker'[q] = worker[q]
    BY <1>10 DEF TakeMessage, TypeOK
  <2>3. ~SaidComplete(p)' /\ worker'[p] # "none"
    BY <2>1, <2>2 DEF CompleteMeansGone, SaidComplete, Alive
  <2> QED
    BY <1>1, <2>1, <2>2, <2>3 DEF CompleteMeansGone
<1>11. CASE ShutdownTimeout
  <2>1. UNCHANGED outbox /\ target \in Process
    BY <1>11 DEF ShutdownTimeout, TypeOK
  <2>2. \A q \in Process :
          worker'[q] = worker[q] \/ (worker[q] # "none" /\ worker'[q] = "exited")
    <3>1. Kill(target) /\ worker \in [Process -> {"none", "starting", "serving", "stopping",
                                                 "exited"}]
      BY <1>11 DEF ShutdownTimeout, TypeOK
    <3>2. CASE Alive(target)
      <4>1. worker' = [worker EXCEPT ![target] = "exited"] /\ worker[target] # "none"
        BY <3>1, <3>2 DEF Kill, Alive
      <4> QED
        BY <2>1, <3>1, <4>1
    <3>3. CASE ~Alive(target)
      BY <3>1, <3>3 DEF Kill
    <3> QED
      BY <3>2, <3>3
  <2> QED
    BY <1>1, <2>1, <2>2 DEF CompleteMeansGone, Alive
<1>12. ASSUME NEW b \in Bootstrap,
              BootstrapGoesOn(b) \/ BootstrapFails(b) \/ BootstrapEnds(b)
       PROVE CompleteMeansGone'
  BY <1>2, <1>3, <1>12 DEF BootstrapGoesOn, BootstrapFails, BootstrapEnds
<1>13. CASE \/ Retry \/ UnexpectedFailure \/ RestartTimer \/ Shutdown \/ Quit
            \/ \E t \in Token : ConfigureTelegram(t)
            \/ \E r \in Request : Call(r)
            \/ UNCHANGED vars
  BY <1>2, <1>3, <1>13 DEF Retry, UnexpectedFailure, RestartTimer, Shutdown, Quit,
     ConfigureTelegram, Call
<1> QED
  BY <1>4, <1>5, <1>6, <1>8, <1>9, <1>10, <1>11, <1>12, <1>13 DEF Next, Step, Terminated

LEMMA StopStep ==
  TypeOK /\ CompleteMeansGone /\ OneWayToAWorker /\ NothingStartsAfterStop /\ [Next]_vars
    => NothingStartsAfterStop'
<1> SUFFICES ASSUME TypeOK, CompleteMeansGone, OneWayToAWorker, NothingStartsAfterStop,
                    [Next]_vars
             PROVE  NothingStartsAfterStop'
  OBVIOUS
<1> USE DEF desktop, policy, telegram, leaving, inside, wires, bounds, vars
<1>A. /\ shutdown # "no" => stopping
      /\ quit => shutdown = "done"
      /\ target # None => stopping
      /\ unexpected = 0 /\ target # None =>
           /\ boots = {} /\ timers = 0 /\ phase # "error"
           /\ shutdown = "done" => ~Alive(target)
  BY DEF NothingStartsAfterStop
<1>1. ASSUME UNCHANGED <<phase, boots, timers, stopping, shutdown, target, quit>>,
             unexpected' = unexpected,
             \A p \in Process : ~Alive(p) => ~Alive(p)'
      PROVE NothingStartsAfterStop'
  BY <1>1, <1>A DEF NothingStartsAfterStop, TypeOK, Alive
<1>2. ASSUME NEW p \in Process,
             \/ TakeMessage(p) \/ Started(p) \/ Stopped(p) \/ Crash(p)
             \/ \E r \in Request : Answer(p, r)
      PROVE NothingStartsAfterStop'
  <2>1. \A q \in Process : ~Alive(q) => ~Alive(q)'
    BY <1>2 DEF TakeMessage, Started, Stopped, Crash, Answer, Alive, TypeOK
  <2>2. UNCHANGED <<phase, boots, timers, stopping, shutdown, target, quit, unexpected>>
    BY <1>2 DEF TakeMessage, Started, Stopped, Crash, Answer
  <2> QED
    BY <1>1, <2>1, <2>2
<1>3. ASSUME NEW b \in Bootstrap,
             BootstrapGoesOn(b) \/ BootstrapFails(b) \/ BootstrapEnds(b)
      PROVE NothingStartsAfterStop'
  <2>1. boots # {} /\ UNCHANGED <<stopping, shutdown, target, quit, unexpected>>
    BY <1>3 DEF BootstrapGoesOn, BootstrapFails, BootstrapEnds
  <2> QED
    BY <2>1, <1>A DEF NothingStartsAfterStop
<1>4. CASE Retry \/ RestartTimer
  <2>1. phase = "error" \/ timers # 0
    BY <1>4 DEF Retry, MayRetry, RestartTimer, TypeOK
  <2>2. UNCHANGED <<stopping, shutdown, target, quit, unexpected>>
    BY <1>4 DEF Retry, RestartTimer
  <2> QED
    BY <2>1, <2>2, <1>A DEF NothingStartsAfterStop
<1>5. CASE UnexpectedFailure
  <2>1. unexpected' # 0 /\ UNCHANGED <<stopping, shutdown, target, quit>>
    BY <1>5 DEF UnexpectedFailure, TypeOK
  <2> QED
    BY <2>1, <1>A DEF NothingStartsAfterStop
<1>6. CASE Shutdown
  <2>1. /\ stopping' /\ timers' = 0 /\ target' = current /\ ~quit' /\ ~stopping
        /\ UNCHANGED <<phase, boots, worker, unexpected>>
    BY <1>6, <1>A DEF Shutdown
  <2>2. current # None => shutdown' = "waiting"
    BY <1>6 DEF Shutdown
  <2> QED
    BY <2>1, <2>2, <1>A DEF NothingStartsAfterStop, OneWayToAWorker
<1>7. CASE ShutdownTimeout
  <2>1. /\ shutdown = "waiting" /\ target \in Process /\ stopping
        /\ UNCHANGED <<phase, boots, timers, stopping, target, quit, unexpected>>
    BY <1>7, <1>A DEF ShutdownTimeout, TypeOK
  <2>2. shutdown' = "done" /\ ~Alive(target)'
    BY <1>7, <2>1 DEF ShutdownTimeout, Kill, Finish, Alive, TypeOK
  <2> QED
    BY <2>1, <2>2, <1>A DEF NothingStartsAfterStop
<1>8. CASE Quit
  BY <1>8, <1>A DEF Quit, NothingStartsAfterStop, Alive
<1>9. ASSUME NEW p \in Process, HandleMessage(p) PROVE NothingStartsAfterStop'
  <2>1. UNCHANGED <<phase, boots, timers, stopping, target, quit, unexpected, worker>>
    BY <1>9 DEF HandleMessage
  <2>2. \A q \in Process : ~Alive(q) => ~Alive(q)'
    BY <2>1 DEF Alive
  <2>3. CASE shutdown' = shutdown
    BY <1>1, <2>1, <2>2, <2>3
  <2>4. CASE shutdown' # shutdown
    <3>1. /\ Head(outbox[p]).type \notin {"ready", "answer"}
          /\ shutdown = "waiting" /\ shutdown' = "done" /\ target = p
          /\ outbox[p] # <<>>
      BY <1>9, <2>4 DEF HandleMessage, HandleReady, HandleAnswer, HandleShutdownComplete
    <3>2. outbox[p] \in Seq(FromWorker)
      BY DEF TypeOK
    <3>3. 1 \in DOMAIN outbox[p] /\ outbox[p][1] \in FromWorker
          /\ Head(outbox[p]) = outbox[p][1]
      BY <3>1, <3>2
    <3>4. outbox[p][1].type = "shutdown-complete"
      BY <3>1, <3>3 DEF FromWorker
    <3>5. SaidComplete(p)
      BY <3>3, <3>4 DEF SaidComplete
    <3>6. ~Alive(target)'
      BY <2>1, <3>1, <3>5 DEF CompleteMeansGone, Alive
    <3> QED
      BY <2>1, <3>1, <3>6, <1>A DEF NothingStartsAfterStop
  <2> QED
    BY <2>3, <2>4
<1>10. ASSUME NEW p \in Process, HandleExit(p) PROVE NothingStartsAfterStop'
  <2>1. /\ UNCHANGED <<boots, stopping, shutdown, target, quit, unexpected>>
        /\ stopping => UNCHANGED <<phase, timers>>
    BY <1>10 DEF HandleExit
  <2>2. \A q \in Process : ~Alive(q) => ~Alive(q)'
    BY <1>10 DEF HandleExit, Alive, TypeOK
  <2>3. CASE stopping
    BY <1>1, <2>1, <2>2, <2>3
  <2>4. CASE ~stopping
    BY <2>1, <2>4, <1>A DEF NothingStartsAfterStop
  <2> QED
    BY <2>3, <2>4
<1>11. CASE \/ \E t \in Token : ConfigureTelegram(t)
            \/ \E r \in Request : Call(r)
            \/ UNCHANGED vars
  BY <1>1, <1>11 DEF ConfigureTelegram, Call, Alive
<1> QED
  BY <1>2, <1>3, <1>4, <1>5, <1>6, <1>7, <1>8, <1>9, <1>10, <1>11 DEF Next, Step, Terminated

\* WorkerIsGone: when the application quits, the worker it asked to stop has ended, by
\* itself or killed, and no bootstrap, retry or timer has started it anew.
THEOREM WorkerGoneAtQuit == Spec => []WorkerIsGone
<1>1. Init => CompleteMeansGone /\ NothingStartsAfterStop
  BY DEF Init, CompleteMeansGone, SaidComplete, NothingStartsAfterStop
<1>2. NothingStartsAfterStop => WorkerIsGone
  BY DEF NothingStartsAfterStop, WorkerIsGone
<1> QED
  BY <1>1, <1>2, InitTypes, TypeStep, InitOneWay, OneWayStep, CompleteStep, StopStep, PTL
     DEF Spec

-----------------------------------------------------------------------------
\* The Telegram configuration on its way.

\* What a worker with configuration c has when it has read the messages of s is t.
Gets(s, c, t) ==
  LET updates == {i \in DOMAIN s : s[i].type = "configure"} IN
  \/ updates = {} /\ c = t
  \/ \E i \in updates : s[i].content = t /\ \A j \in updates : j <= i

\* While the flag says that the current worker was sent the configuration, it was sent
\* the latest; a worker whose ready was handled was sent it.
SentIsLatest ==
  /\ \A p \in ready : worker[p] # "none"
  /\ current # None /\ sent /\ wanted # None /\ Alive(current) => WillHave(current, wanted)
  /\ current \in ready /\ wanted # None => sent

LEMMA GetsAppended ==
  ASSUME NEW s \in Seq(ToWorker), NEW m \in ToWorker, NEW c, NEW t
  PROVE  /\ m.type = "configure" => Gets(Append(s, m), c, m.content)
         /\ m.type # "configure" /\ Gets(s, c, t) => Gets(Append(s, m), c, t)
<1> DEFINE u == Append(s, m)
           n == Len(s) + 1
<1>1. /\ n \in Nat /\ DOMAIN s = 1..Len(s) /\ DOMAIN u = 1..n /\ u[n] = m
      /\ \A i \in DOMAIN s : i \in DOMAIN u /\ u[i] = s[i]
  OBVIOUS
<1> HIDE DEF u
<1>2. \A i \in DOMAIN u : i <= n /\ (i # n => i \in DOMAIN s)
  BY <1>1
<1>3. m.type = "configure" => Gets(u, c, m.content)
  BY <1>1, <1>2 DEF Gets
<1>4. ASSUME m.type # "configure", Gets(s, c, t) PROVE Gets(u, c, t)
  <2>1. {i \in DOMAIN u : u[i].type = "configure"} = {i \in DOMAIN s : s[i].type = "configure"}
    BY <1>1, <1>2, <1>4
  <2> QED
    BY <1>1, <1>4, <2>1 DEF Gets
<1> QED
  BY <1>3, <1>4 DEF u

LEMMA GetsTaken ==
  ASSUME NEW s \in Seq(ToWorker), s # <<>>, NEW c, NEW t, Gets(s, c, t)
  PROVE  /\ Head(s).type = "configure" => Gets(Tail(s), Head(s).content, t)
         /\ Head(s).type # "configure" => Gets(Tail(s), c, t)
<1> DEFINE u == Tail(s)
<1>1. /\ Len(s) \in Nat \ {0} /\ DOMAIN s = 1..Len(s) /\ DOMAIN u = 1..(Len(s) - 1)
      /\ \A i \in DOMAIN u : i + 1 \in DOMAIN s /\ u[i] = s[i + 1]
      /\ Head(s) = s[1] /\ 1 \in DOMAIN s
  OBVIOUS
<1> HIDE DEF u
<1>2. \A i \in DOMAIN s : i # 1 => i - 1 \in DOMAIN u /\ u[i - 1] = s[i]
  BY <1>1
<1>3. CASE {i \in DOMAIN s : s[i].type = "configure"} = {} /\ c = t
  BY <1>1, <1>3 DEF Gets
<1>4. ASSUME NEW i \in DOMAIN s, s[i].type = "configure", s[i].content = t,
             \A j \in DOMAIN s : s[j].type = "configure" => j <= i
      PROVE  /\ Head(s).type = "configure" => Gets(u, Head(s).content, t)
             /\ Head(s).type # "configure" => Gets(u, c, t)
  <2>1. CASE i = 1
    <3>1. \A j \in DOMAIN u : u[j].type # "configure"
      BY <1>1, <1>4, <2>1
    <3> QED
      BY <1>1, <1>4, <2>1, <3>1 DEF Gets
  <2>2. CASE i # 1
    <3>1. i - 1 \in DOMAIN u /\ u[i - 1].type = "configure" /\ u[i - 1].content = t
      BY <1>2, <1>4, <2>2
    <3>2. \A j \in DOMAIN u : u[j].type = "configure" => j <= i - 1
      BY <1>1, <1>4
    <3>3. \A d : Gets(u, d, t)
      BY <3>1, <3>2 DEF Gets
    <3> QED
      BY <3>3
  <2> QED
    BY <2>1, <2>2
<1> QED
  BY <1>3, <1>4 DEF Gets, u

LEMMA WillHaveGets ==
  ASSUME NEW p, NEW t
  PROVE  WillHave(p, t) <=> Gets(inbox[p], config[p], t)
BY DEF WillHave, Gets

LEMMA WillHaveGetsNext ==
  ASSUME NEW p, NEW t
  PROVE  WillHave(p, t)' <=> Gets(inbox'[p], config'[p], t')
BY DEF WillHave, Gets

\* A message posted to a living worker.
LEMMA PostedWillBeHad ==
  ASSUME TypeOK, NEW p \in Process, Alive(p), NEW type, NEW content, Post(p, type, content),
         Message(type, content) \in ToWorker, config' = config
  PROVE  /\ type = "configure" => Gets(inbox'[p], config'[p], content)
         /\ \A t : type # "configure" /\ WillHave(p, t) => Gets(inbox'[p], config'[p], t)
<1> DEFINE m == Message(type, content)
<1>1. inbox[p] \in Seq(ToWorker) /\ inbox'[p] = Append(inbox[p], m)
  BY DEF TypeOK, Post
<1>2. m \in ToWorker /\ m.type = type /\ m.content = content
  BY DEF Message
<1> HIDE DEF m
<1> QED
  BY <1>1, <1>2, GetsAppended, WillHaveGets

LEMMA SentStep ==
  TypeOK /\ CompleteMeansGone /\ SentIsLatest /\ [Next]_vars => SentIsLatest'
<1> SUFFICES ASSUME TypeOK, CompleteMeansGone, SentIsLatest, [Next]_vars
             PROVE  SentIsLatest'
  OBVIOUS
<1> USE DEF desktop, policy, telegram, leaving, inside, wires, bounds, vars
<1>A. /\ \A p \in ready : worker[p] # "none"
      /\ current # None /\ sent /\ wanted # None /\ Alive(current) => WillHave(current, wanted)
      /\ current \in ready /\ wanted # None => sent
  BY DEF SentIsLatest
<1>T. ready \subseteq Process /\ current \in Process \cup {None}
  BY DEF TypeOK
<1>1. ASSUME UNCHANGED <<ready, current, sent, wanted, inbox, config>>,
             \A p \in Process : worker[p] # "none" => worker'[p] # "none",
             \A p \in Process : Alive(p)' => Alive(p)
      PROVE  SentIsLatest'
  <2>1. current # None /\ Alive(current)' => Alive(current)
    BY <1>1, <1>T DEF Alive
  <2>2. WillHave(current, wanted)' <=> WillHave(current, wanted)
    BY <1>1 DEF WillHave
  <2>3. ASSUME NEW p \in ready' PROVE worker'[p] # "none"
    <3>1. p \in Process /\ worker[p] # "none"
      BY <1>1, <1>A, <1>T
    <3> QED
      BY <1>1, <3>1
  <2>4. current' \in ready' /\ wanted' # None => sent'
    BY <1>1, <1>A
  <2>5. current' # None /\ sent' /\ wanted' # None /\ Alive(current)' => WillHave(current, wanted)'
    BY <1>1, <1>A, <2>1, <2>2
  <2> QED
    BY <2>3, <2>4, <2>5 DEF SentIsLatest
<1>2. ASSUME Spawn, ready' = ready, wanted' = wanted PROVE SentIsLatest'
  <2>1. current' \notin ready /\ sent' = FALSE
    BY <1>2, <1>A, SpawnTypes
  <2>2. \A p \in ready : worker'[p] # "none"
    BY <1>2, <1>A, <1>T, SpawnTypes DEF TypeOK
  <2> QED
    BY <1>2, <2>1, <2>2 DEF SentIsLatest
<1>3. ASSUME NEW b \in Bootstrap,
             BootstrapGoesOn(b) \/ BootstrapFails(b) \/ BootstrapEnds(b)
      PROVE  SentIsLatest'
  <2>1. CASE BootstrapEnds(b)
    <3>1. Spawn /\ ready' = ready /\ wanted' = wanted
      BY <2>1 DEF BootstrapEnds
    <3> QED
      BY <3>1, <1>2
  <2>2. CASE BootstrapGoesOn(b) \/ BootstrapFails(b)
    <3>1. UNCHANGED <<ready, current, sent, wanted, inbox, config, worker>>
      BY <2>2 DEF BootstrapGoesOn, BootstrapFails
    <3> QED
      BY <3>1, <1>1 DEF Alive
  <2> QED
    BY <1>3, <2>1, <2>2
<1>4. CASE Retry \/ UnexpectedFailure \/ RestartTimer \/ Quit \/ UNCHANGED vars
  <2>1. CASE RestartTimer
    <3>1. Spawn /\ ready' = ready /\ wanted' = wanted
      BY <2>1 DEF RestartTimer
    <3> QED
      BY <3>1, <1>2
  <2>2. CASE Retry \/ UnexpectedFailure \/ Quit \/ UNCHANGED vars
    <3>1. UNCHANGED <<ready, current, sent, wanted, inbox, config, worker>>
      BY <2>2 DEF Retry, UnexpectedFailure, Quit
    <3> QED
      BY <3>1, <1>1 DEF Alive
  <2> QED
    BY <1>4, <2>1, <2>2
\* A message to the current worker: the configuration itself, or any other.
<1>5. ASSUME current # None, NEW type, NEW content, Message(type, content) \in ToWorker,
             Post(current, type, content),
             UNCHANGED <<current, ready, worker, config>>,
             \/ type = "configure" /\ content = wanted' /\ sent'
             \/ type # "configure" /\ UNCHANGED <<wanted, sent>>
      PROVE  SentIsLatest'
  <2>1. ASSUME Alive(current), sent', wanted' # None PROVE WillHave(current, wanted)'
    <3>1. current \in Process
      BY <1>5, <1>T
    <3>2. Gets(inbox'[current], config'[current], wanted')
      BY <1>5, <1>A, <2>1, <3>1, PostedWillBeHad
    <3> QED
      BY <1>5, <3>2, WillHaveGetsNext DEF WillHave, Gets
  <2>2. Alive(current)' <=> Alive(current)
    BY <1>5 DEF Alive
  <2>3. current' \in ready' /\ wanted' # None => sent'
    BY <1>5, <1>A
  <2> QED
    BY <1>5, <1>A, <2>1, <2>2, <2>3 DEF SentIsLatest
<1>6. ASSUME NEW t \in Token, ConfigureTelegram(t) PROVE SentIsLatest'
  <2>1. CASE current = None
    BY <1>6, <1>A, <1>T, <2>1 DEF ConfigureTelegram, SentIsLatest
  <2>2. CASE current # None
    <3>1. Message("configure", t) \in ToWorker
      BY DEF Message, ToWorker
    <3>2. /\ Post(current, "configure", t) /\ wanted' = t /\ sent'
          /\ UNCHANGED <<current, ready, worker, config>>
      BY <1>6, <2>2 DEF ConfigureTelegram
    <3> QED
      BY <2>2, <3>1, <3>2, <1>5
  <2> QED
    BY <2>1, <2>2
<1>7. ASSUME NEW r \in Request, Call(r) PROVE SentIsLatest'
  <2>1. Message("request", r) \in ToWorker
    BY DEF Message, ToWorker
  <2>2. /\ current # None /\ Post(current, "request", r)
        /\ UNCHANGED <<current, ready, worker, config, wanted, sent>>
    BY <1>7 DEF Call
  <2> QED
    BY <2>1, <2>2, <1>5
<1>8. CASE Shutdown
  <2>1. Message("shutdown", None) \in ToWorker
    BY DEF Message, ToWorker
  <2>2. UNCHANGED <<current, ready, worker, config, wanted, sent>>
    BY <1>8 DEF Shutdown
  <2>3. CASE current = None
    BY <1>8, <1>1, <2>2, <2>3 DEF Shutdown, Alive
  <2>4. CASE current # None
    <3>1. Post(current, "shutdown", None)
      BY <1>8, <2>4 DEF Shutdown
    <3> QED
      BY <2>1, <2>2, <2>4, <3>1, <1>5
  <2> QED
    BY <2>3, <2>4
\* A worker that ends needs nothing any more.
<1>9. ASSUME NEW p \in Process, worker' = [worker EXCEPT ![p] = "exited"], Forgets(p),
             UNCHANGED <<ready, current, sent, wanted>>
      PROVE  SentIsLatest'
  <2>1. \A q \in Process : worker[q] # "none" => worker'[q] # "none"
    BY <1>9 DEF TypeOK
  <2>2. ASSUME current # None, Alive(current)'
        PROVE  Alive(current) /\ (WillHave(current, wanted) => WillHave(current, wanted)')
    <3>1. current # p /\ current \in Process
      BY <1>9, <1>T, <2>2 DEF Alive, TypeOK
    <3>2. inbox'[current] = inbox[current] /\ config'[current] = config[current]
      BY <1>9, <3>1 DEF Forgets, TypeOK
    <3> QED
      BY <1>9, <2>2, <3>1, <3>2 DEF Alive, WillHave, TypeOK
  <2> QED
    BY <1>9, <1>A, <1>T, <2>1, <2>2 DEF SentIsLatest
<1>10. CASE ShutdownTimeout
  <2>1. target \in Process
    BY <1>10 DEF ShutdownTimeout, TypeOK
  <2> QED
    BY <1>1, <1>9, <1>10, <2>1 DEF ShutdownTimeout, Kill, Alive
<1>11. ASSUME NEW p \in Process, Stopped(p) \/ Crash(p) PROVE SentIsLatest'
  BY <1>9, <1>11 DEF Stopped, Crash
<1>12. ASSUME NEW p \in Process, Started(p) \/ \E r \in Request : Answer(p, r)
       PROVE  SentIsLatest'
  <2>1. UNCHANGED <<ready, current, sent, wanted, inbox, config>>
    BY <1>12 DEF Started, Answer
  <2>2. /\ \A q \in Process : worker[q] # "none" => worker'[q] # "none"
        /\ \A q \in Process : Alive(q)' => Alive(q)
    BY <1>12 DEF Started, Answer, Alive, TypeOK
  <2> QED
    BY <1>1, <2>1, <2>2
<1>13. ASSUME NEW p \in Process, TakeMessage(p) PROVE SentIsLatest'
  <2>1. UNCHANGED <<ready, current, sent, wanted>>
    BY <1>13 DEF TakeMessage
  <2>2. /\ \A q \in Process : worker[q] # "none" => worker'[q] # "none"
        /\ \A q \in Process : Alive(q)' => Alive(q)
    BY <1>13 DEF TakeMessage, Alive, TypeOK
  <2>3. ASSUME current # None, WillHave(current, wanted) PROVE WillHave(current, wanted)'
    <3>1. current \in Process /\ Gets(inbox[current], config[current], wanted)
      BY <1>T, <2>3, WillHaveGets
    <3>2. CASE current # p
      <4>1. inbox'[current] = inbox[current] /\ config'[current] = config[current]
        BY <1>13, <3>1, <3>2 DEF TakeMessage, TypeOK
      <4> QED
        BY <2>1, <2>3, <4>1 DEF WillHave
    <3>3. CASE current = p
      <4>1. /\ inbox[p] \in Seq(ToWorker) /\ inbox[p] # <<>>
            /\ inbox'[p] = Tail(inbox[p])
            /\ config'[p] = IF Head(inbox[p]).type = "configure"
                            THEN Head(inbox[p]).content ELSE config[p]
        BY <1>13 DEF TakeMessage, TypeOK
      <4>2. Gets(inbox'[p], config'[p], wanted)
        BY <3>1, <3>3, <4>1, GetsTaken
      <4> QED
        BY <2>1, <3>3, <4>2, WillHaveGetsNext DEF WillHave, Gets
    <3> QED
      BY <3>2, <3>3
  <2>4. current # None /\ Alive(current)' => Alive(current)
    BY <1>T, <2>1, <2>2 DEF Alive
  <2>5. ASSUME NEW q \in ready' PROVE worker'[q] # "none"
    <3>1. q \in Process /\ worker[q] # "none"
      BY <1>A, <1>T, <2>1
    <3> QED
      BY <2>2, <3>1
  <2>6. current' \in ready' /\ wanted' # None => sent'
    BY <1>A, <2>1
  <2>7. current' # None /\ sent' /\ wanted' # None /\ Alive(current)' => WillHave(current, wanted)'
    BY <1>A, <2>1, <2>3, <2>4
  <2> QED
    BY <2>5, <2>6, <2>7 DEF SentIsLatest
<1>14. ASSUME NEW p \in Process, HandleMessage(p) PROVE SentIsLatest'
  <2>1. UNCHANGED <<current, wanted, worker, config>>
    BY <1>14 DEF HandleMessage
  <2>2. CASE UNCHANGED <<sent, inbox, ready>>
    BY <1>1, <2>1, <2>2 DEF Alive
  <2>3. CASE HandleReady(p)
    <3>1. worker[p] # "none" /\ ready' = ready \cup {p}
      BY <1>14, <2>3 DEF HandleMessage, HandleReady, CompleteMeansGone
    <3>2. CASE wanted = None \/ sent \/ current # p
      <4>1. UNCHANGED <<sent, inbox>>
        BY <2>3, <3>2 DEF HandleReady, SendConfiguration
      <4>2. WillHave(current, wanted)' <=> WillHave(current, wanted)
        BY <2>1, <4>1 DEF WillHave
      <4>3. Alive(current)' <=> Alive(current)
        BY <2>1 DEF Alive
      <4>4. \A q \in ready' : worker'[q] # "none"
        BY <1>A, <2>1, <3>1
      <4>5. current' \in ready' /\ wanted' # None => sent'
        BY <1>A, <2>1, <3>1, <3>2, <4>1
      <4> QED
        BY <1>A, <2>1, <4>1, <4>2, <4>3, <4>4, <4>5 DEF SentIsLatest
    <3>3. CASE ~(wanted = None \/ sent \/ current # p)
      <4>1. Post(p, "configure", wanted) /\ sent' = TRUE /\ current = p /\ wanted # None
        BY <2>3, <3>3 DEF HandleReady, SendConfiguration
      <4>2. Message("configure", wanted) \in ToWorker
        BY <4>1 DEF Message, ToWorker, TypeOK
      <4>3. Alive(p) => WillHave(p, wanted)'
        <5>1. Alive(p) => Gets(inbox'[p], config'[p], wanted)
          BY <2>1, <4>1, <4>2, PostedWillBeHad
        <5> QED
          BY <2>1, <5>1, WillHaveGetsNext DEF WillHave, Gets
      <4> QED
        BY <1>A, <2>1, <3>1, <4>1, <4>3 DEF SentIsLatest, Alive
    <3> QED
      BY <3>2, <3>3
  <2> QED
    BY <1>14, <2>2, <2>3 DEF HandleMessage, HandleAnswer, HandleShutdownComplete
<1>15. ASSUME NEW p \in Process, HandleExit(p) PROVE SentIsLatest'
  <2>1. /\ worker' = [worker EXCEPT ![p] = "none"] /\ ready' = ready \ {p}
        /\ UNCHANGED <<wanted, inbox, config>>
        /\ IF current = p THEN current' = None ELSE UNCHANGED <<current, sent>>
    BY <1>15 DEF HandleExit
  <2>2. \A q \in ready' : worker'[q] # "none"
    BY <1>A, <1>T, <2>1 DEF TypeOK
  <2>3. CASE current = p
    BY <1>T, <2>1, <2>2, <2>3 DEF SentIsLatest
  <2>4. CASE current # p
    <3>1. current # None => worker'[current] = worker[current]
      BY <1>T, <2>1, <2>4 DEF TypeOK
    <3>2. WillHave(current, wanted)' <=> WillHave(current, wanted)
      BY <2>1, <2>4 DEF WillHave
    <3> QED
      BY <1>A, <2>1, <2>2, <2>4, <3>1, <3>2 DEF SentIsLatest, Alive
  <2> QED
    BY <2>3, <2>4
<1> QED
  BY <1>3, <1>4, <1>6, <1>7, <1>8, <1>10, <1>11, <1>12, <1>13, <1>14, <1>15
     DEF Next, Step, Terminated

\* ConfigurationArrives: the latest Telegram configuration is never lost between the
\* processes, whichever way saving a token, restarting and becoming ready interleave.
THEOREM LatestConfigurationArrives == Spec => []ConfigurationArrives
<1>1. Init => CompleteMeansGone /\ SentIsLatest
  BY DEF Init, CompleteMeansGone, SaidComplete, SentIsLatest
<1>2. TypeOK /\ SentIsLatest => ConfigurationArrives
  BY DEF TypeOK, SentIsLatest, ConfigurationArrives
<1> QED
  BY <1>1, <1>2, InitTypes, TypeStep, CompleteStep, SentStep, PTL DEF Spec
=============================================================================
