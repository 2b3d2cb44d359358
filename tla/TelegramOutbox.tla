---------------------------- MODULE TelegramOutbox ----------------------------
(***************************************************************************)
(* The outbox of notifications and the worker processes that deliver it:   *)
(* a job of the queue telegram-outbox for each match, attempts that read   *)
(* and mark the match and send through the bot service of TelegramBot,     *)
(* retries, expiry, and what a worker that crashes, is restarted or shut   *)
(* down does to all of them.                                               *)
(*                                                                         *)
(* pg-boss is modelled by what it does for this queue: it hands one job at *)
(* a time to the worker, takes a rejected handler for a failure, retries   *)
(* it RetryLimit times, and gives an active job up after a time, whether   *)
(* its handler still runs or its process is gone.  The answer of a handler *)
(* whose job was given up changes nothing.  The producer is not in the     *)
(* repository: Enqueue stands for it.  The pause between two messages to a *)
(* chat has no duration here.                                              *)
(***************************************************************************)
EXTENDS TelegramBot

CONSTANTS
  Match,       \* matches to be notified of
  RetryLimit,  \* OUTBOX_QUEUE_OPTIONS.retryLimit
  MaxAsked     \* bound: tokens saved, computers woken, monitors archived, exits

ASSUME LimitsAreNaturals == RetryLimit \in Nat /\ MaxAsked \in Nat

VARIABLES
  phase,      \* the worker process: down, up, draining its queue, or stopping the bot
  wanted,     \* the token main has for a worker, or None
  archived,   \* the matches' monitor is archived
  job,        \* the job of a match
  tries,      \* how often its job was handed to a worker
  recipient,  \* payload.chatId
  deliveries, \* attempts in progress in the process
  notified,   \* Match.notifiedAt is set
  sending,    \* Match.notificationSendingAt is set
  sent,       \* history: how many messages Telegram accepted
  explained,  \* history: how many attempts journaled an uncertain state
  expired,    \* history: how many attempts lost their job while they ran
  reasons,    \* history: why an attempt ended without sending
  asked

match == <<notified, sending>>
queue == <<job, tries, recipient>>
history == <<sent, explained, expired, reasons>>
outboxVars == <<queue, deliveries, match, history>>
vars == <<botVars, outboxVars, phase, wanted, archived, asked>>

Step == {"look", "check", "peek", "recheck", "mark", "send", "answer", "confirm"}
Reason == {"archived", "elsewhere", "early", "unbound", "refused"}
Delivery == [match : Match, try : Nat, at : Step]

TypeOK ==
  /\ BotTypeOK
  /\ phase \in {"down", "up", "draining", "stopping"}
  /\ wanted \in Token \cup {None}
  /\ archived \in BOOLEAN
  /\ job \in [Match -> {"none", "queued", "active", "completed", "failed"}]
  /\ tries \in [Match -> 0..RetryLimit + 1]
  /\ recipient \in [Match -> Chat \cup {None}]
  /\ deliveries \subseteq Delivery
  /\ notified \in [Match -> BOOLEAN] /\ sending \in [Match -> BOOLEAN]
  /\ sent \in [Match -> Nat] /\ explained \in [Match -> Nat] /\ expired \in [Match -> Nat]
  /\ reasons \in [Match -> SUBSET Reason]
  /\ asked \in 0..MaxAsked

Init ==
  /\ ServiceIsNew /\ trouble = 0 /\ asked = 0
  /\ stored \in Chat \cup {None}
  /\ wanted \in Token \cup {None}
  /\ phase = "up" /\ archived = FALSE
  /\ job = [m \in Match |-> IF stored = None THEN "none" ELSE "queued"]
  /\ recipient = [m \in Match |-> stored]
  /\ tries = [m \in Match |-> 0]
  /\ deliveries = {}
  /\ notified = [m \in Match |-> FALSE] /\ sending = [m \in Match |-> FALSE]
  /\ sent = [m \in Match |-> 0] /\ explained = [m \in Match |-> 0]
  /\ expired = [m \in Match |-> 0] /\ reasons = [m \in Match |-> {}]

(***************************************************************************)
(* The queue.                                                              *)
(***************************************************************************)
Running == phase \in {"up", "draining", "stopping"}

Live(d) == job[d.match] = "active" /\ d.try = tries[d.match]
NoneLive == \A d \in deliveries : ~Live(d)

AfterFailure(m) == IF tries[m] > RetryLimit THEN "failed" ELSE "queued"

(* The handler's promise is settled.                                       *)
Settle(d, outcome) ==
  /\ deliveries' = deliveries \ {d}
  /\ job' = IF Live(d) THEN [job EXCEPT ![d.match] = outcome] ELSE job
  /\ UNCHANGED <<tries, recipient>>

Resolve(d) == Settle(d, "completed")

Swallow(d) == Resolve(d)  \* mutant: every failure is caught

Reject(d) == Settle(d, AfterFailure(d.match))

(* The handler reaches its next await.                                     *)
Reach(d, step) ==
  /\ deliveries' = (deliveries \ {d}) \cup {[d EXCEPT !.at = step]}
  /\ UNCHANGED queue

(* It returns without sending.                                             *)
GiveUp(d, reason) ==
  /\ Resolve(d)
  /\ reasons' = [reasons EXCEPT ![d.match] = @ \cup {reason}]
  /\ UNCHANGED <<sent, explained, expired>>

Enqueue(m) ==
  /\ job[m] = "none" /\ bound # None
  /\ job' = [job EXCEPT ![m] = "queued"]
  /\ recipient' = [recipient EXCEPT ![m] = bound]
  /\ UNCHANGED <<tries, deliveries, match, history, botVars>>

Fetch(m) ==
  /\ phase = "up" /\ job[m] = "queued" /\ NoneLive
  /\ job' = [job EXCEPT ![m] = "active"]
  /\ tries' = [tries EXCEPT ![m] = @ + 1]
  /\ deliveries' = deliveries \cup {[match |-> m, try |-> tries[m] + 1, at |-> "look"]}
  /\ UNCHANGED <<recipient, match, history, botVars>>

(* A computer that slept, or a database that hangs, for longer than a job  *)
(* may be active; and the jobs of a process that is gone.                  *)
Expire(m) ==
  /\ Running /\ job[m] = "active"
  /\ job' = [job EXCEPT ![m] = AfterFailure(m)]
  /\ \/ /\ NoneLive
        /\ UNCHANGED <<expired, trouble>>
     \/ /\ \E d \in deliveries : d.match = m /\ Live(d)
        /\ GoesWrong
        /\ expired' = [expired EXCEPT ![m] = @ + 1]
  /\ UNCHANGED <<tries, recipient, deliveries, match, sent, explained, reasons, untroubled>>

(***************************************************************************)
(* An attempt to deliver, from await to await.                             *)
(***************************************************************************)

(* getNotifiedAt                                                           *)
Look(d) ==
  /\ d.at = "look"
  /\ IF notified[d.match] THEN Resolve(d) ELSE Reach(d, "check")
  /\ UNCHANGED <<match, history, botVars>>

(* isMonitorNotArchived, before and after the pause                        *)
Check(d) ==
  /\ d.at \in {"check", "recheck"}
  /\ \/ archived /\ GiveUp(d, "archived")
     \/ /\ ~archived
        /\ Reach(d, IF d.at = "check" THEN "peek" ELSE "mark")
        /\ UNCHANGED history
  /\ UNCHANGED <<match, botVars>>

(* getSendingAt: a state left uncertain is journaled                       *)
Peek(d) ==
  /\ d.at = "peek"
  /\ Reach(d, "recheck")
  /\ explained' = IF sending[d.match] THEN [explained EXCEPT ![d.match] = @ + 1]
                                      ELSE explained
  /\ UNCHANGED <<match, sent, expired, reasons, botVars>>

MarkedNotified(m) ==  \* mutant: the final mark before the message
  notified' = [notified EXCEPT ![m] = TRUE] /\ UNCHANGED sending
NothingMarked(m) == UNCHANGED match  \* mutant: no intermediate mark

MarkedSending(m) ==
  sending' = [sending EXCEPT ![m] = @ \/ ~notified[m]] /\ UNCHANGED notified

MarkSending(d) ==
  /\ d.at = "mark"
  /\ MarkedSending(d.match)
  /\ Reach(d, "send")
  /\ UNCHANGED <<history, botVars>>

(* A statement of the database fails before it has an effect.              *)
DatabaseFails(d) ==
  /\ d.at \notin {"send", "answer"} /\ GoesWrong
  /\ Reject(d)
  /\ UNCHANGED <<match, history, untroubled>>

(* The service may not know the binding: it has no token yet, a lifecycle  *)
(* call or a binding is under way, calls overlapped, or the setting could  *)
(* not be read.                                                            *)
InDoubt == token = None \/ calls # {} \/ binding # None \/ unsure \/ overlapped

NotBoundTo ==
  IF bound # None THEN "elsewhere" ELSE IF InDoubt THEN "early" ELSE "unbound"

SendWaits(d) ==  \* mutant: without a transport it waits for one
  /\ d.at = "send"
  /\ \/ bound # recipient[d.match] /\ GiveUp(d, NotBoundTo)
     \/ /\ bound = recipient[d.match] /\ transport # None
        /\ Reach(d, "answer") /\ UNCHANGED history
  /\ UNCHANGED <<match, botVars>>

(* TelegramBotService.sendMessage: any other binding is a permanent        *)
(* failure, that none is known included; no transport is a transient one.  *)
Send(d) ==
  /\ d.at = "send"
  /\ \/ bound # recipient[d.match] /\ GiveUp(d, NotBoundTo)
     \/ /\ bound = recipient[d.match] /\ transport = None
        /\ Reject(d) /\ UNCHANGED history
     \/ /\ bound = recipient[d.match] /\ transport # None
        /\ Reach(d, "answer") /\ UNCHANGED history
  /\ UNCHANGED <<match, botVars>>

(* Telegram accepts the message, accepts it and the answer is lost,        *)
(* refuses it for good (4xx), or for now (429, 5xx, no network).           *)
Answer(d) ==
  /\ d.at = "answer"
  /\ \/ /\ sent' = [sent EXCEPT ![d.match] = @ + 1]
        /\ \/ Reach(d, "confirm") /\ UNCHANGED trouble
           \/ Reject(d) /\ GoesWrong
        /\ UNCHANGED <<explained, expired, reasons>>
     \/ GoesWrong /\ GiveUp(d, "refused")
     \/ GoesWrong /\ Reject(d) /\ UNCHANGED history
  /\ UNCHANGED <<match, untroubled>>

(* markNotified; its answer may be lost, too                               *)
MarkNotified(d) ==
  /\ d.at = "confirm"
  /\ sending' = [sending EXCEPT ![d.match] = @ /\ notified[d.match]]
  /\ notified' = [notified EXCEPT ![d.match] = TRUE]
  /\ \/ Resolve(d) /\ UNCHANGED trouble
     \/ Reject(d) /\ GoesWrong
  /\ UNCHANGED <<history, untroubled>>

Deliver(d) ==
  \/ Look(d) \/ Check(d) \/ Peek(d) \/ MarkSending(d) \/ Send(d) \/ Answer(d)
  \/ MarkNotified(d) \/ DatabaseFails(d)

(***************************************************************************)
(* The worker process and those who ask it for something.                  *)
(***************************************************************************)
(* The supervisor answers a worker's ready with the token it has.          *)
ReadyIsAnswered ==
  /\ phase = "up" /\ gen = 0
  /\ Configure(wanted)
  /\ UNCHANGED <<outboxVars, phase, wanted, archived, asked>>

Asks == asked < MaxAsked /\ asked' = asked + 1

SaveToken(t) ==
  /\ phase = "up" /\ Asks
  /\ wanted' = t
  /\ Configure(t)
  /\ UNCHANGED <<outboxVars, phase, archived>>

WakeUp ==
  /\ phase = "up" /\ Asks
  /\ Resume
  /\ UNCHANGED <<outboxVars, phase, wanted, archived>>

AskToBind(chat) ==
  /\ phase = "up"
  /\ BindCandidate(chat)
  /\ UNCHANGED <<outboxVars, phase, wanted, archived, asked>>

SetArchived ==
  /\ phase = "up" /\ Asks
  /\ archived' = ~archived
  /\ UNCHANGED <<botVars, outboxVars, phase, wanted>>

(* shutdown: the queue is drained, then the bot service is stopped         *)
Shutdown ==
  /\ phase = "up" /\ Asks
  /\ phase' = "draining"
  /\ UNCHANGED <<botVars, outboxVars, wanted, archived>>

Drained ==
  /\ phase = "draining" /\ NoneLive
  /\ phase' = "stopping"
  /\ Stop
  /\ UNCHANGED <<outboxVars, wanted, archived, asked>>

(* The process is gone, and what it had in memory.                         *)
Gone ==
  /\ phase' = "down"
  /\ deliveries' = {}
  /\ ServiceIsReset
  /\ UNCHANGED <<stored, queue, match, history, wanted, archived, asked>>

Exit ==
  /\ phase = "stopping" /\ \A c \in calls : c.kind # "stop"
  /\ Gone /\ UNCHANGED trouble

Crash == Running /\ GoesWrong /\ Gone

Launch ==
  /\ phase = "down"
  /\ phase' = "up"
  /\ UNCHANGED <<botVars, outboxVars, wanted, archived, asked>>

OutboxStep ==
  \/ \E m \in Match : Enqueue(m) \/ Fetch(m) \/ Expire(m)
  \/ \E d \in deliveries : Deliver(d)

Next ==
  \/ ServiceStep /\ UNCHANGED <<outboxVars, phase, wanted, archived, asked>>
  \/ /\ NoMicrotask
     /\ \/ OutboxStep /\ UNCHANGED <<phase, wanted, archived, asked>>
        \/ ReadyIsAnswered \/ WakeUp \/ SetArchived \/ Shutdown \/ Drained \/ Exit \/ Crash
        \/ Launch
        \/ \E t \in Token : SaveToken(t)
        \/ \E chat \in Chat : AskToBind(chat)

(***************************************************************************)
(* Statements to the database, requests to Telegram and runners that stop  *)
(* come to an end; the queue is polled; timers fire; the supervisor        *)
(* answers a ready.  Nothing says that the user does anything.             *)
(***************************************************************************)
ServiceProceeds == \E c \in calls : Proceed(c)
QueueProceeds == \E d \in deliveries : Deliver(d)

Fairness ==
  /\ WF_vars(ServiceProceeds /\ UNCHANGED <<outboxVars, phase, wanted, archived, asked>>)
  /\ WF_vars(Reconnect /\ UNCHANGED <<outboxVars, phase, wanted, archived, asked>>)
  /\ WF_vars(QueueProceeds /\ UNCHANGED <<phase, wanted, archived, asked>>)
  /\ WF_vars((\E m \in Match : Fetch(m)) /\ UNCHANGED <<phase, wanted, archived, asked>>)
  /\ \A m \in Match : WF_vars(Expire(m) /\ UNCHANGED <<phase, wanted, archived, asked>>)
  /\ WF_vars(ReadyIsAnswered)

Spec == Init /\ [][Next]_vars /\ Fairness

(***************************************************************************)
(* Properties.                                                             *)
(***************************************************************************)

(* A match marked as notified was accepted by Telegram: no order of        *)
(* marking, sending, crashing and retrying marks it without a message      *)
(* (telegram-outbox-delivery).                                             *)
NotifiedMeansSent == \A m \in Match : notified[m] => sent[m] > 0

(* As long as no attempt outlives its job, every repeated message is one   *)
(* that an attempt journaled before it sent: it found the uncertain state  *)
(* an earlier one left (docs/tasks/3-2-3-send-idempotency: a rare double   *)
(* is explicable).                                                         *)
RepeatsAreExplained ==
  \A m \in Match : expired[m] = 0 => sent[m] <= 1 + explained[m]

(* A job is completed only if its match was notified or an attempt ended   *)
(* for good: the monitor archived, another chat bound, the message         *)
(* refused; or early, when the service did not know the binding yet, the   *)
(* one condition that passes and that the code takes for final (see        *)
(* NoMatchIsLost).  A service at rest with a token knows the binding of    *)
(* every job, and what else may pass - no transport, no network, 429 or    *)
(* 5xx, the database, a crash - completes no job: it fails, after the last *)
(* of its tries.                                                           *)
DoneMeansHandled ==
  \A m \in Match :
    /\ job[m] = "completed" =>
         notified[m] \/ reasons[m] \cap {"archived", "elsewhere", "refused", "early"} # {}
    /\ job[m] = "failed" => tries[m] = RetryLimit + 1
    /\ "unbound" \notin reasons[m]

(* "No scenario leads to the loss of a match" (3-2-3-send-idempotency:47): *)
(* the job of a match for the chat that is bound, whose monitor was not    *)
(* archived and whose message Telegram did not refuse, ends with a         *)
(* message.                                                                *)
NoMatchIsLost ==
  \A m \in Match : job[m] = "completed" /\ stored = recipient[m] =>
    notified[m] \/ reasons[m] \cap {"archived", "refused"} # {}

(* A worker that stays up ends each job it has: nothing that fails leaves  *)
(* a job active or queued for ever.                                        *)
JobsSettle ==
  <>[](phase = "up") =>
    \A m \in Match : [](job[m] \in {"queued", "active"} => <>(job[m] \in {"completed", "failed"}))

(* In a worker that stays up and has a token that makes a bot, polling     *)
(* comes back, unless the setting could not be read.                       *)
ConnectionReturns ==
  <>[](phase = "up" /\ wanted \in Token \ Refused) => []<>(transport # None \/ unsure)

=============================================================================
