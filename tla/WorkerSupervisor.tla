--------------------------- MODULE WorkerSupervisor ---------------------------
(***************************************************************************)
(* The desktop process and its worker processes: the bootstrap that leads  *)
(* to the first worker and the retry of a failed one, the supervisor that  *)
(* restarts a worker that exits, hands it the Telegram configuration and   *)
(* passes requests to it, and the handshake that stops it.                 *)
(*                                                                         *)
(* The two sides share nothing but messages, delivered in the order they   *)
(* were posted.  A process that exits may take messages with it that it    *)
(* has posted and the supervisor has not handled yet.                      *)
(***************************************************************************)
EXTENDS Naturals, Sequences

CONSTANTS
  Request,       \* calls of verifyTelegramToken, createMonitor, setMonitorState ...
  Token,         \* values of configureTelegram's argument, null among them
  MaxProcesses,  \* bound: worker processes at the same time
  MaxRestarts,   \* createRestartPolicy's argument
  MaxTrouble,    \* bound: failed bootstraps, failed starts and crashes of workers
  MaxUnexpected, \* bound: unhandled rejections in the desktop process
  MaxUnread,     \* bound: messages to a worker it has not read, when one more is sent
  None

Process == 1..MaxProcesses
Bootstrap == {"first", "retry"}

ASSUME NoneIsNothing == None \notin Request \cup Token \cup Process
ASSUME BoundsAreNaturals ==
  {MaxProcesses, MaxRestarts, MaxTrouble, MaxUnexpected, MaxUnread} \subseteq Nat

VARIABLES
  phase,      \* bootState.phase
  boots,      \* invocations of runBootstrap that have not ended
  current,    \* currentWorker
  timers,     \* how many restart timers are armed
  crashes,    \* the restart policy's count
  wanted,     \* telegramToken, or None before hasTelegramConfiguration
  sent,       \* currentWorkerConfigurationSent
  pending,    \* the process a pending request was sent to
  stopping,   \* stopping
  shutdown,   \* requestWorkerShutdown: not asked for, waiting, or done
  target,     \* the process requestWorkerShutdown asked
  quit,       \* the application has quit
  worker,     \* what a worker process does
  leaveAsked, \* shutdownRequested, in the worker
  hand,       \* requests a worker works on
  config,     \* the configuration a worker received last
  inbox,      \* messages to a worker
  outbox,     \* messages from a worker
  ready,      \* history: workers whose ready the supervisor has handled
  trouble, unexpected  \* how much trouble there has been

desktop == <<phase, boots>>
policy == <<timers, crashes>>
telegram == <<wanted, sent>>
leaving == <<stopping, shutdown, target, quit>>
inside == <<worker, leaveAsked, hand, config>>
wires == <<inbox, outbox>>
bounds == <<trouble, unexpected>>
vars == <<desktop, current, policy, telegram, pending, leaving, inside, wires, ready,
          bounds>>

Init ==
  /\ phase = "starting" /\ boots = {"first"}
  /\ current = None
  /\ timers = 0 /\ crashes = 0
  /\ wanted = None /\ sent = FALSE
  /\ pending = [r \in Request |-> None]
  /\ stopping = FALSE /\ shutdown = "no" /\ target = None /\ quit = FALSE
  /\ worker = [p \in Process |-> "none"]
  /\ leaveAsked = [p \in Process |-> FALSE]
  /\ hand = [p \in Process |-> {}]
  /\ config = [p \in Process |-> None]
  /\ inbox = [p \in Process |-> <<>>]
  /\ outbox = [p \in Process |-> <<>>]
  /\ ready = {}
  /\ trouble = 0 /\ unexpected = 0

-----------------------------------------------------------------------------
Alive(p) == worker[p] \in {"starting", "serving", "stopping"}
Message(type, content) == [type |-> type, content |-> content]
Post(p, type, content) ==
  inbox' = [inbox EXCEPT ![p] = IF Alive(p) THEN Append(@, Message(type, content)) ELSE @]
Say(p, type, content) ==
  outbox' = [outbox EXCEPT ![p] = Append(@, Message(type, content))]
Unread == IF current = None THEN 0 ELSE Len(inbox[current])

\* What a process knew is gone with it; what it said may still arrive.
Forgets(p) ==
  /\ leaveAsked' = [leaveAsked EXCEPT ![p] = FALSE]
  /\ hand' = [hand EXCEPT ![p] = {}]
  /\ config' = [config EXCEPT ![p] = None]
  /\ inbox' = [inbox EXCEPT ![p] = <<>>]
Trouble == trouble < MaxTrouble /\ trouble' = trouble + 1

KeepSent == UNCHANGED sent  \* mutant: the flag outlives the worker it was about
ForgetSent == sent' = FALSE

KeepPending == UNCHANGED pending  \* mutant: callers of a dead worker wait on
RejectPending == pending' = [r \in Request |-> None]

\* spawn.  A process name is free again when its exit has been handled.
Spawn ==
  \E p \in Process :
    /\ worker[p] = "none" /\ \A q \in Process : q < p => worker[q] # "none"
    /\ worker' = [worker EXCEPT ![p] = "starting"]
    /\ current' = p
    /\ ForgetSent

\* sendTelegramConfiguration
SendConfiguration(p) ==
  IF wanted = None \/ sent \/ current # p
  THEN UNCHANGED <<sent, inbox>>
  ELSE Post(p, "configure", wanted) /\ sent' = TRUE

-----------------------------------------------------------------------------
\* Bootstrap.

\* Every step it completes publishes a state whose phase is 'starting'.
BootstrapGoesOn(b) ==
  /\ b \in boots /\ phase' = "starting"
  /\ UNCHANGED <<boots, current, policy, telegram, pending, leaving, inside, wires,
                 ready, bounds>>

\* Docker, the container, the migrations.
BootstrapFails(b) ==
  /\ b \in boots /\ Trouble
  /\ boots' = boots \ {b} /\ phase' = "error"
  /\ UNCHANGED <<current, policy, telegram, pending, leaving, inside, wires, ready,
                 unexpected>>

\* supervisor.start() spawns without a look at what there is.
BootstrapEnds(b) ==
  /\ b \in boots
  /\ boots' = boots \ {b} /\ phase' = "ready"
  /\ Spawn
  /\ UNCHANGED <<policy, wanted, pending, leaving, leaveAsked, hand, config, wires,
                 ready, bounds>>

RetryAlways == TRUE  \* mutant: the phase is not looked at
MayRetry == phase = "error"

Retry ==
  /\ MayRetry /\ "retry" \notin boots
  /\ boots' = boots \cup {"retry"} /\ phase' = "starting"
  /\ UNCHANGED <<current, policy, telegram, pending, leaving, inside, wires, ready,
                 bounds>>

\* reportUnexpectedFailure: an unhandled rejection shows the error screen, and its
\* retry button, whatever the supervisor is doing.
UnexpectedFailure ==
  /\ unexpected < MaxUnexpected
  /\ unexpected' = unexpected + 1 /\ phase' = "error"
  /\ UNCHANGED <<boots, current, policy, telegram, pending, leaving, inside, wires,
                 ready, trouble>>

-----------------------------------------------------------------------------
\* Calls.

ConfigureTelegram(t) ==
  /\ Unread <= MaxUnread
  /\ wanted' = t
  /\ IF current = None
     THEN UNCHANGED <<sent, inbox>>
     ELSE Post(current, "configure", t) /\ sent' = TRUE
  /\ UNCHANGED <<desktop, current, policy, pending, leaving, inside, outbox, ready,
                 bounds>>

\* Without a worker the call is rejected at once, which is no step.
Call(r) ==
  /\ Unread <= MaxUnread /\ pending[r] = None /\ current # None
  /\ \A p \in Process : r \notin hand[p]  \* the names of calls are used again
  /\ \A p \in Process : \A w \in {inbox, outbox} :
       \A i \in DOMAIN w[p] : w[p][i].content # r
  /\ pending' = [pending EXCEPT ![r] = current]
  /\ Post(current, "request", r)
  /\ UNCHANGED <<desktop, current, policy, telegram, leaving, inside, outbox, ready,
                 bounds>>

-----------------------------------------------------------------------------
\* Events of a worker.

HandleReady(p) ==
  /\ crashes' = 0
  /\ SendConfiguration(p)
  /\ ready' = ready \cup {p}
  /\ UNCHANGED <<pending, shutdown>>

HandleAnswer(r) ==
  /\ pending' = [pending EXCEPT ![r] = None]
  /\ UNCHANGED <<crashes, sent, inbox, ready, shutdown>>

HandleShutdownComplete(p) ==
  /\ shutdown' = IF shutdown = "waiting" /\ p = target THEN "done" ELSE shutdown
  /\ UNCHANGED <<crashes, sent, inbox, ready, pending>>

HandleMessage(p) ==
  /\ outbox[p] # <<>>
  /\ outbox' = [outbox EXCEPT ![p] = Tail(@)]
  /\ CASE Head(outbox[p]).type = "ready" -> HandleReady(p)
       [] Head(outbox[p]).type = "answer" -> HandleAnswer(Head(outbox[p]).content)
       [] OTHER -> HandleShutdownComplete(p)
  /\ UNCHANGED <<desktop, current, timers, wanted, stopping, target, quit, inside,
                 bounds>>

FatalInTheJournalOnly == UNCHANGED phase  \* mutant: onFatal is not wired
MarkWorkerBootFailed == phase' = "error"

HandleExit(p) ==
  /\ worker[p] = "exited"
  /\ worker' = [worker EXCEPT ![p] = "none"]
  /\ outbox' = [outbox EXCEPT ![p] = <<>>]
  /\ ready' = ready \ {p}
  /\ IF current = p
     THEN current' = None /\ ForgetSent /\ RejectPending
     ELSE UNCHANGED <<current, sent, pending>>
  /\ IF stopping
     THEN UNCHANGED <<phase, policy>>
     ELSE /\ crashes' = crashes + 1
          /\ IF crashes' > MaxRestarts
             THEN MarkWorkerBootFailed /\ UNCHANGED timers
             ELSE timers' = timers + 1 /\ UNCHANGED phase
  /\ UNCHANGED <<boots, wanted, leaving, leaveAsked, hand, config, inbox, bounds>>

RestartTimer ==
  /\ timers > 0
  /\ timers' = timers - 1
  /\ Spawn
  /\ UNCHANGED <<desktop, crashes, wanted, pending, leaving, leaveAsked, hand, config,
                 wires, ready, bounds>>

-----------------------------------------------------------------------------
\* Quitting.

\* before-quit.  An armed timer is cleared or finds stopping set.
Shutdown ==
  /\ ~stopping /\ stopping' = TRUE
  /\ RejectPending
  /\ timers' = 0
  /\ target' = current
  /\ IF current = None
     THEN shutdown' = "done" /\ UNCHANGED inbox
     ELSE shutdown' = "waiting" /\ Post(current, "shutdown", None)
  /\ UNCHANGED <<desktop, current, crashes, telegram, quit, inside, outbox, ready,
                 bounds>>

\* The timer of requestWorkerShutdown.  A worker that crashed is not noticed sooner.
KillAndWaitOn == UNCHANGED shutdown  \* mutant: kill() without finish()
Finish == shutdown' = "done"
NoKill(p) == UNCHANGED <<inside, inbox>>  \* mutant: finish() without kill()
Kill(p) ==
  IF Alive(p)
  THEN worker' = [worker EXCEPT ![p] = "exited"] /\ Forgets(p)
  ELSE UNCHANGED <<inside, inbox>>

ShutdownTimeout ==
  /\ shutdown = "waiting"
  /\ Kill(target) /\ Finish
  /\ UNCHANGED <<desktop, current, policy, telegram, pending, stopping, target, quit,
                 outbox, ready, bounds>>

Quit ==
  /\ shutdown = "done"
  /\ quit' = TRUE
  /\ UNCHANGED <<desktop, current, policy, telegram, pending, stopping, shutdown,
                 target, inside, wires, ready, bounds>>

-----------------------------------------------------------------------------
\* The worker: startWorkerRuntime.

TakeMessage(p) ==
  LET m == Head(inbox[p]) IN
  /\ Alive(p) /\ inbox[p] # <<>>
  /\ inbox' = [inbox EXCEPT ![p] = Tail(@)]
  /\ config' = IF m.type = "configure" THEN [config EXCEPT ![p] = m.content] ELSE config
  /\ hand' = IF m.type = "request" THEN [hand EXCEPT ![p] = @ \cup {m.content}] ELSE hand
  /\ leaveAsked' = IF m.type = "shutdown" THEN [leaveAsked EXCEPT ![p] = TRUE]
                   ELSE leaveAsked
  /\ worker' = IF m.type = "shutdown" /\ worker[p] = "serving"
               THEN [worker EXCEPT ![p] = "stopping"] ELSE worker
  /\ UNCHANGED <<desktop, current, policy, telegram, pending, leaving, outbox, ready,
                 bounds>>

\* The listener answers whether or not services.start() has ended.
Answer(p, r) ==
  /\ Alive(p) /\ r \in hand[p]
  /\ hand' = [hand EXCEPT ![p] = @ \ {r}]
  /\ Say(p, "answer", r)
  /\ UNCHANGED <<desktop, current, policy, telegram, pending, leaving, worker, config,
                 leaveAsked, inbox, ready, bounds>>

Started(p) ==
  /\ worker[p] = "starting"
  /\ IF leaveAsked[p]
     THEN worker' = [worker EXCEPT ![p] = "stopping"] /\ UNCHANGED outbox
     ELSE worker' = [worker EXCEPT ![p] = "serving"] /\ Say(p, "ready", None)
  /\ UNCHANGED <<desktop, current, policy, telegram, pending, leaving, leaveAsked,
                 hand, config, inbox, ready, bounds>>

Stopped(p) ==
  /\ worker[p] = "stopping"
  /\ worker' = [worker EXCEPT ![p] = "exited"]
  /\ Forgets(p)
  /\ Say(p, "shutdown-complete", None)
  /\ UNCHANGED <<desktop, current, policy, telegram, pending, leaving, ready, bounds>>

\* A start that fails exits with code 1, which looks the same from outside.
Crash(p) ==
  /\ Alive(p) /\ Trouble
  /\ worker' = [worker EXCEPT ![p] = "exited"]
  /\ Forgets(p)
  /\ UNCHANGED <<desktop, current, policy, telegram, pending, leaving, outbox, ready,
                 unexpected>>

-----------------------------------------------------------------------------
\* Nothing happens after the desktop process has quit.
Terminated == quit /\ UNCHANGED vars

Step ==
  \/ \E b \in Bootstrap : BootstrapGoesOn(b) \/ BootstrapFails(b) \/ BootstrapEnds(b)
  \/ Retry \/ UnexpectedFailure
  \/ \E t \in Token : ConfigureTelegram(t)
  \/ \E r \in Request : Call(r)
  \/ RestartTimer \/ Shutdown \/ ShutdownTimeout \/ Quit
  \/ \E p \in Process :
       \/ HandleMessage(p) \/ HandleExit(p)
       \/ TakeMessage(p) \/ Started(p) \/ Stopped(p) \/ Crash(p)
       \/ \E r \in Request : Answer(p, r)

Next ==
  \/ ~quit /\ Step
  \/ Terminated

\* Both event loops run, timers fire, and what a worker was asked to do ends: every call
\* it makes has a timeout or an error.  All of it only until the desktop process quits:
\* what is then on its way or unhandled stays so.
Fairness ==
  /\ WF_vars(~quit /\ RestartTimer) /\ WF_vars(~quit /\ ShutdownTimeout)
  /\ WF_vars(~quit /\ Quit)
  /\ \A p \in Process :
       /\ WF_vars(~quit /\ HandleMessage(p)) /\ WF_vars(~quit /\ HandleExit(p))
       /\ WF_vars(~quit /\ TakeMessage(p))
       /\ \A r \in Request : WF_vars(~quit /\ Answer(p, r))

Spec == Init /\ [][Next]_vars /\ Fairness

-----------------------------------------------------------------------------
\* Properties.

\* What parseWorkerEvent and isWorkerControlMessage let through.
ToWorker ==
  [type : {"configure"}, content : Token] \cup [type : {"request"}, content : Request]
    \cup [type : {"shutdown"}, content : {None}]
FromWorker ==
  [type : {"ready", "shutdown-complete"}, content : {None}]
    \cup [type : {"answer"}, content : Request]

\* Every variable has the type the code gives it.
TypeOK ==
  /\ phase \in {"starting", "ready", "error"} /\ boots \subseteq Bootstrap
  /\ current \in Process \cup {None}
  /\ timers \in Nat /\ crashes \in Nat
  /\ wanted \in Token \cup {None} /\ sent \in BOOLEAN
  /\ pending \in [Request -> Process \cup {None}]
  /\ stopping \in BOOLEAN /\ shutdown \in {"no", "waiting", "done"}
  /\ target \in Process \cup {None} /\ quit \in BOOLEAN
  /\ shutdown = "waiting" => target # None
  /\ worker \in [Process -> {"none", "starting", "serving", "stopping", "exited"}]
  /\ leaveAsked \in [Process -> BOOLEAN]
  /\ hand \in [Process -> SUBSET Request]
  /\ config \in [Process -> Token \cup {None}]
  /\ inbox \in [Process -> Seq(ToWorker)]
  /\ outbox \in [Process -> Seq(FromWorker)]
  /\ ready \subseteq Process
  /\ trouble \in 0..MaxTrouble /\ unexpected \in 0..MaxUnexpected

\* One worker at a time: a second one would run every monitor and poll Telegram beside
\* the first.  No bootstrap, retry or restart brings it about, as long as the error
\* screen only shows for a bootstrap that failed or workers that gave out.
OneWorker ==
  unexpected = 0 =>
    /\ \A p, q \in Process : Alive(p) /\ Alive(q) => p = q
    /\ \A p \in Process : Alive(p) => p = current /\ timers = 0

\* While the status screen says the application is ready there is a worker, or one will
\* be started without anybody's help.
ReadyMeansServed == phase = "ready" /\ ~stopping => current # None \/ timers > 0

\* The configuration a worker has when it has read its messages is t.
WillHave(p, t) ==
  LET updates == {i \in DOMAIN inbox[p] : inbox[p][i].type = "configure"} IN
  \/ updates = {} /\ config[p] = t
  \/ \E i \in updates : inbox[p][i].content = t /\ \A j \in updates : j <= i

\* The worker in charge has the latest Telegram configuration, or will have when it has
\* read its messages: across restarts, and for tokens saved while it starts.
ConfigurationArrives ==
  \A p \in ready :
    Alive(p) /\ p = current /\ wanted # None => WillHave(p, wanted)

\* Every call is answered or rejected, whatever becomes of the worker it went to, or the
\* desktop process that waits for it is gone: a call is taken after quitting has begun,
\* too, and the process may quit before its answer or the worker's exit is handled.
CallsSettle == \A r \in Request : []<>(pending[r] = None \/ quit \/ unexpected > 0)

\* Quitting comes to its end, worker or no worker, ...
QuitEnds == []<>(~stopping \/ quit)

\* ... and the worker that was asked to stop is gone by then.
WorkerIsGone == quit /\ unexpected = 0 /\ target # None => ~Alive(target)
=============================================================================
