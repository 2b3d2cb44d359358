------------------------------ MODULE TelegramBot ------------------------------
(***************************************************************************)
(* The Telegram bot service of one worker process: the calls configure,    *)
(* resume and stop at their awaits, the long polling they start and stop,  *)
(* the timer that reconnects it, the candidate for a binding and the       *)
(* binding itself.                                                         *)
(*                                                                         *)
(* Calls are not queued: main posts messages, the worker starts a call for *)
(* each, and only lifecycleGeneration tells an old call from the last one. *)
(* A bot is named by the generation and the token it was created for.      *)
(* Delays, the text of messages and what the journal says are left out.    *)
(***************************************************************************)
EXTENDS Naturals

CONSTANTS
  Token,       \* bot tokens
  Refused,     \* tokens the constructor of the bot throws for: the empty one
  Chat,        \* chats that may write to the bot
  MaxTrouble,  \* bound: failures of polling, of calls to Telegram, of the database
  None

ASSUME NoneIsNoToken == None \notin Token \cup Chat
ASSUME NoneIsNoBot == None \notin [gen : Nat, token : Token]
ASSUME NoneIsNoBinding == None \notin [chat : Chat, written : BOOLEAN]
ASSUME RefusedAreTokens == Refused \subseteq Token
ASSUME TroubleIsBounded == MaxTrouble \in Nat

VARIABLES
  gen,        \* lifecycleGeneration
  token,      \* activeToken
  transport,  \* transport: the bot, or None
  bots,       \* runners that are alive, polling or being stopped
  timer,      \* reconnectTimer: the generation and token it was armed for, or None
  candidate,  \* candidate.chatId, or None
  bound,      \* boundChatId, or None
  state,      \* TelegramRuntimeState, as last published
  channel,    \* TelegramChannelState, as last published
  calls,      \* calls of configure, resume and stop that wait at an await
  binding,    \* the call of bindCandidate that waits, or None
  acking,     \* bots whose handler waits for the acknowledgement to be sent
  stored,     \* the setting telegram.bound-chat, or None
  unsure,     \* history: the last configure could not read the setting, or an answer to
              \*   its being written was lost
  overlapped, \* history: a lifecycle call began while another, or a binding, waited
  trouble     \* how much has gone wrong

serviceVars == <<gen, token, transport, timer, candidate, bound, state, channel>>
ghosts == <<unsure, overlapped>>
untroubled == <<serviceVars, bots, calls, binding, acking, stored, ghosts>>
botVars == <<untroubled, trouble>>

(* What a fresh process has in memory, and the values the variables take. *)
ServiceIsNew ==
  /\ gen = 0 /\ token = None /\ transport = None /\ timer = None
  /\ candidate = None /\ bound = None
  /\ state = "not-configured" /\ channel = "disconnected"
  /\ bots = {} /\ calls = {} /\ binding = None /\ acking = {}
  /\ unsure = FALSE /\ overlapped = FALSE

ServiceIsReset ==
  /\ gen' = 0 /\ token' = None /\ transport' = None /\ timer' = None
  /\ candidate' = None /\ bound' = None
  /\ state' = "not-configured" /\ channel' = "disconnected"
  /\ bots' = {} /\ calls' = {} /\ binding' = None /\ acking' = {}
  /\ unsure' = FALSE /\ overlapped' = FALSE

Bot == [gen : Nat, token : Token]
Runner == [bot : Bot, polling : BOOLEAN]
Call == [gen : Nat, token : Token \cup {None}, kind : {"configure", "resume", "stop"},
         at : {"stopping", "read", "reply"},
         bot : Bot \cup {None}, value : Chat \cup {None}]

BotTypeOK ==
  /\ gen \in Nat
  /\ token \in Token \cup {None}
  /\ transport \in Bot \cup {None}
  /\ timer \in Bot \cup {None}
  /\ candidate \in Chat \cup {None}
  /\ bound \in Chat \cup {None}
  /\ state \in {"not-configured", "starting", "waiting-for-binding", "ready", "degraded"}
  /\ channel \in {"disconnected", "connected", "reconnecting", "error"}
  /\ bots \subseteq Runner
  /\ calls \subseteq Call
  /\ binding \in {None} \cup [chat : Chat, written : BOOLEAN]
  /\ acking \subseteq Bot
  /\ stored \in Chat \cup {None}
  /\ {unsure, overlapped} \subseteq BOOLEAN
  /\ trouble \in 0..MaxTrouble

(***************************************************************************)
(* Helpers.                                                                *)
(***************************************************************************)

TokenIsCurrent(g, t) == token = t  \* mutant: the generation is not compared

(* The generation guard. *)
IsCurrent(g, t) == gen = g /\ token = t

RunnerOf(bot) == {r \in bots : r.bot = bot}

(* A call with nothing to stop goes on in a microtask, before any event.   *)
NoMicrotask == \A c \in calls : c.at = "stopping" => c.bot # None

GoesWrong == trouble < MaxTrouble /\ trouble' = trouble + 1

(* stopTransport, up to its await: the runner is told to stop.  The await  *)
(* ends when the runner has.                                               *)
StopTransport ==
  /\ transport' = None
  /\ bots' = {[r EXCEPT !.polling = @ /\ r.bot # transport] : r \in bots}

(* A lifecycle call up to its first await.                                 *)
Begin(kind, t) ==
  /\ gen' = gen + 1
  /\ token' = IF kind = "stop" THEN None ELSE t
  /\ timer' = None
  /\ StopTransport
  /\ calls' = calls \cup {[gen |-> gen + 1, token |-> t, kind |-> kind, at |-> "stopping",
                           bot |-> transport, value |-> None]}
  /\ unsure' = (unsure /\ kind # "configure")
  /\ overlapped' = (overlapped \/ calls # {} \/ binding # None)

(* The await of stopTransport in call c returns.                           *)
Stopped(c) ==
  /\ c.at = "stopping"
  /\ bots' = bots \ RunnerOf(c.bot)

(* startTransport: the bot is created and polls, or cannot be created.     *)
StartTransport(g, t, running) ==
  \/ /\ t \notin Refused
     /\ transport' = [gen |-> g, token |-> t]
     /\ bots' = running \cup {[bot |-> transport', polling |-> TRUE]}
     /\ channel' = "connected"
  \/ /\ t \in Refused
     /\ transport' = None /\ bots' = running /\ channel' = "error"

(***************************************************************************)
(* configure(t), from main: at the start of a worker and when a token is   *)
(* saved.                                                                  *)
(***************************************************************************)
Configure(t) ==
  /\ Begin("configure", t)
  /\ UNCHANGED <<candidate, bound, state, channel, binding, acking, stored, trouble>>

ConfigureStopped(c) ==
  /\ c.kind = "configure" /\ Stopped(c)
  /\ candidate' = None
  /\ \/ /\ ~IsCurrent(c.gen, c.token)
        /\ calls' = calls \ {c}
        /\ UNCHANGED <<bound, state, channel>>
     \/ /\ IsCurrent(c.gen, c.token) /\ c.token = None
        /\ calls' = calls \ {c}
        /\ bound' = None
        /\ state' = "not-configured" /\ channel' = "disconnected"
     \/ /\ IsCurrent(c.gen, c.token) /\ c.token # None
        /\ calls' = (calls \ {c}) \cup {[c EXCEPT !.at = "read", !.bot = None]}
        /\ state' = "starting"
        /\ UNCHANGED <<bound, channel>>
  /\ UNCHANGED <<gen, token, transport, timer, binding, acking, stored, ghosts, trouble>>

(* getBoundChatId reads the setting ...                                    *)
BindingRead(c) ==
  /\ c.at = "read"
  /\ calls' = (calls \ {c}) \cup {[c EXCEPT !.at = "reply", !.value = stored]}
  /\ UNCHANGED <<serviceVars, bots, binding, acking, stored, ghosts, trouble>>

(* ... and may fail: configure rejects, with nothing started.              *)
BindingReadFails(c) ==
  /\ c.at = "read" /\ GoesWrong
  /\ calls' = calls \ {c}
  /\ unsure' = (unsure \/ IsCurrent(c.gen, c.token))
  /\ UNCHANGED <<serviceVars, bots, binding, acking, stored, overlapped>>

ShowOldBinding(chat) ==  \* mutant: the binding from before the read
  IF bound = None THEN "waiting-for-binding" ELSE "ready"

StateFor(chat) == IF chat = None THEN "waiting-for-binding" ELSE "ready"

(* The value is assigned before the generation is looked at.               *)
Configured(c) ==
  /\ c.at = "reply"
  /\ calls' = calls \ {c}
  /\ bound' = c.value
  /\ \/ /\ ~IsCurrent(c.gen, c.token)
        /\ UNCHANGED <<transport, bots, channel, state>>
     \/ /\ IsCurrent(c.gen, c.token)
        /\ StartTransport(c.gen, c.token, bots)
        /\ state' = StateFor(c.value)
  /\ UNCHANGED <<gen, token, timer, candidate, binding, acking, stored, ghosts, trouble>>

(***************************************************************************)
(* resume, when the computer wakes up.                                     *)
(***************************************************************************)
Resume ==
  \/ /\ token = None
     /\ channel' = "disconnected"
     /\ UNCHANGED <<gen, token, transport, timer, candidate, bound, state, bots, calls,
                    binding, acking, stored, ghosts, trouble>>
  \/ /\ token # None
     /\ Begin("resume", token)
     /\ UNCHANGED <<candidate, bound, state, channel, binding, acking, stored, trouble>>

ResumeStopped(c) ==
  /\ c.kind = "resume" /\ c.at = "stopping"
  /\ calls' = calls \ {c}
  /\ \/ /\ ~IsCurrent(c.gen, c.token)
        /\ Stopped(c)
        /\ UNCHANGED <<transport, channel>>
     \/ /\ IsCurrent(c.gen, c.token)
        /\ StartTransport(c.gen, c.token, bots \ RunnerOf(c.bot))
  /\ UNCHANGED <<gen, token, timer, candidate, bound, state, binding, acking, stored,
                 ghosts, trouble>>

(***************************************************************************)
(* stop, when the worker is shut down.                                     *)
(***************************************************************************)
Stop ==
  /\ Begin("stop", None)
  /\ UNCHANGED <<candidate, bound, state, channel, binding, acking, stored, trouble>>

ServiceStopped(c) ==
  /\ c.kind = "stop" /\ Stopped(c)
  /\ calls' = calls \ {c}
  /\ channel' = "disconnected"
  /\ UNCHANGED <<gen, token, transport, timer, candidate, bound, state, binding, acking,
                 stored, ghosts, trouble>>

(***************************************************************************)
(* Polling fails, of the current bot or of one that no longer counts; the  *)
(* reconnect timer fires.                                                  *)
(***************************************************************************)
ArmNothing(bot) ==  \* mutant: no timer
  channel' = "reconnecting" /\ UNCHANGED timer

ScheduleReconnect(bot) == channel' = "reconnecting" /\ timer' = bot

PollingFails(r) ==
  /\ r.polling /\ GoesWrong
  /\ bots' = bots \ {r}
  /\ \/ /\ IsCurrent(r.bot.gen, r.bot.token) /\ transport = r.bot
        /\ transport' = None
        /\ ScheduleReconnect(r.bot)
     \/ /\ ~(IsCurrent(r.bot.gen, r.bot.token) /\ transport = r.bot)
        /\ UNCHANGED <<transport, timer, channel>>
  /\ UNCHANGED <<gen, token, candidate, bound, state, calls, binding, acking, stored,
                 ghosts>>

Reconnect ==
  /\ timer # None
  /\ timer' = None
  /\ \/ /\ ~IsCurrent(timer.gen, timer.token)
        /\ UNCHANGED <<transport, bots, channel>>
     \/ /\ IsCurrent(timer.gen, timer.token)
        /\ StartTransport(timer.gen, timer.token, bots)
  /\ UNCHANGED <<gen, token, candidate, bound, state, calls, binding, acking, stored,
                 ghosts, trouble>>

(***************************************************************************)
(* A message of a chat, to a bot that polls or is being stopped; runners   *)
(* handle one update at a time.  The acknowledgement goes out through the  *)
(* current transport.                                                      *)
(***************************************************************************)
Message(r, chat) ==
  /\ r.bot \notin acking
  /\ channel' = "connected"
  /\ \/ /\ bound # None
        /\ UNCHANGED <<candidate, acking>>
     \/ /\ bound = None
        /\ candidate' = chat
        /\ acking' = IF transport = None THEN acking ELSE acking \cup {r.bot}
  /\ UNCHANGED <<gen, token, transport, timer, bound, state, bots, calls, binding, stored,
                 ghosts, trouble>>

Acknowledged(bot) ==
  /\ acking' = acking \ {bot}
  /\ \/ UNCHANGED <<state, trouble>>
     \/ GoesWrong /\ state' = "degraded"
  /\ UNCHANGED <<gen, token, transport, timer, candidate, bound, channel, bots, calls,
                 binding, stored, ghosts>>

(***************************************************************************)
(* bindCandidate(chat), one at a time: the settings page waits for the     *)
(* answer.  The setting is written, then the answer arrives.               *)
(***************************************************************************)
BindCandidate(chat) ==
  /\ binding = None /\ candidate = chat
  /\ binding' = [chat |-> chat, written |-> FALSE]
  /\ overlapped' = (overlapped \/ calls # {})
  /\ UNCHANGED <<serviceVars, bots, calls, acking, stored, unsure, trouble>>

BindingWritten ==
  /\ binding # None /\ ~binding.written
  /\ binding' = [binding EXCEPT !.written = TRUE]
  /\ stored' = binding.chat
  /\ UNCHANGED <<serviceVars, bots, calls, acking, ghosts, trouble>>

BindingFails ==
  /\ binding # None /\ GoesWrong
  /\ binding' = None
  /\ unsure' = (unsure \/ binding.written)
  /\ UNCHANGED <<serviceVars, bots, calls, acking, stored, overlapped>>

Bound ==
  /\ binding # None /\ binding.written
  /\ binding' = None
  /\ bound' = binding.chat
  /\ candidate' = None
  /\ state' = "ready"
  /\ UNCHANGED <<gen, token, transport, timer, channel, bots, calls, acking, stored,
                 ghosts, trouble>>

(* What the service does by itself.                                        *)
Proceed(c) ==
  \/ ConfigureStopped(c) \/ ResumeStopped(c) \/ ServiceStopped(c)
  \/ NoMicrotask /\ (BindingRead(c) \/ BindingReadFails(c) \/ Configured(c))

ServiceStep ==
  \/ \E c \in calls : Proceed(c)
  \/ /\ NoMicrotask
     /\ \/ \E r \in bots : PollingFails(r) \/ \E chat \in Chat : Message(r, chat)
        \/ Reconnect
        \/ \E bot \in acking : Acknowledged(bot)
        \/ BindingWritten \/ BindingFails \/ Bound

(***************************************************************************)
(* Properties.                                                             *)
(***************************************************************************)

(* At most one bot is polled that has not been told to stop, and it is the *)
(* transport, of the last generation with the token configured last; a     *)
(* reconnect is armed only for that generation, while there is no          *)
(* transport (startTransport, scheduleReconnect, the generation guards).   *)
OneConnection ==
  /\ \A r \in bots : r.polling => r.bot = transport
  /\ transport # None => transport = [gen |-> gen, token |-> token]
  /\ timer # None => transport = None /\ timer = [gen |-> gen, token |-> token]

(* Once every call has returned, and as long as lifecycle calls have not   *)
(* overlapped, what was published agrees with what is: the channel with    *)
(* the transport and the timer, the state with the token and the binding,  *)
(* the binding with the setting in the database.                           *)
AtRest == calls = {} /\ binding = None /\ acking = {}

ShownIsTrue ==
  AtRest /\ ~overlapped /\ gen > 0 /\ ~unsure =>
    /\ (channel = "connected") <=> (transport # None)
    /\ (channel = "reconnecting") <=> (timer # None)
    /\ token # None =>
         /\ bound = stored
         /\ state \in {"degraded", IF bound = None THEN "waiting-for-binding" ELSE "ready"}

=============================================================================
