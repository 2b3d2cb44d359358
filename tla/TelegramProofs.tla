----------------------------- MODULE TelegramProofs -----------------------------
(***************************************************************************)
(* What the bot service and the outbox guarantee for any number of tokens, *)
(* chats, matches, retries, calls and accidents.                           *)
(***************************************************************************)
EXTENDS TelegramOutbox, TLAPS

USE NoneIsNoToken, NoneIsNoBot, RefusedAreTokens, TroubleIsBounded, LimitsAreNaturals

\* A call of the current generation finds nothing polling, and nothing that is going to:
\* it stopped what there was when it took the generation, which no other call shares.
CallsStand ==
  /\ \A c \in calls : c.gen <= gen
  /\ \A c, d \in calls : c.gen = d.gen => c = d
  /\ \A c \in calls : c.gen = gen => transport = None /\ timer = None
  /\ \A c \in calls : c.kind = "resume" \/ c.at # "stopping" => c.token # None

BotInv == BotTypeOK /\ OneConnection /\ CallsStand

\* The part of BotTypeOK that OneConnection stands on.
LinkTypes ==
  /\ gen \in Nat /\ token \in Token \cup {None}
  /\ transport \in Bot \cup {None} /\ timer \in Bot \cup {None}
  /\ bots \subseteq Runner /\ calls \subseteq Call

\* What the connection does not depend on.
RestTypes ==
  /\ candidate \in Chat \cup {None} /\ bound \in Chat \cup {None}
  /\ state \in {"not-configured", "starting", "waiting-for-binding", "ready", "degraded"}
  /\ channel \in {"disconnected", "connected", "reconnecting", "error"}
  /\ binding \in {None} \cup [chat : Chat, written : BOOLEAN]
  /\ acking \subseteq Bot
  /\ stored \in Chat \cup {None}
  /\ {unsure, overlapped} \subseteq BOOLEAN
  /\ trouble \in 0..MaxTrouble

LinkInv == LinkTypes /\ OneConnection /\ CallsStand

link == <<gen, token, transport, timer, bots, calls>>

-----------------------------------------------------------------------------
\* The steps of the service, one lemma for each kind: the connection first.

LEMMA NoLinkStep ==
  ASSUME LinkInv, UNCHANGED link
  PROVE  LinkInv'
BY DEF LinkInv, LinkTypes, OneConnection, CallsStand, link

LEMMA BeginLink ==
  ASSUME LinkInv, NEW kind \in {"configure", "resume", "stop"}, NEW t \in Token \cup {None},
         Begin(kind, t), kind = "resume" => t # None,
         kind = "stop" => t = None
  PROVE  LinkInv'
<1> DEFINE new == [gen |-> gen + 1, token |-> t, kind |-> kind, at |-> "stopping",
                   bot |-> transport, value |-> None]
<1>1. new \in Call
  BY DEF LinkInv, LinkTypes, Call
<1>2. /\ gen' = gen + 1 /\ token' \in Token \cup {None}
      /\ timer' = None /\ transport' = None /\ calls' = calls \cup {new}
      /\ bots' = {[r EXCEPT !.polling = @ /\ r.bot # transport] : r \in bots}
  BY DEF Begin, StopTransport
<1>3. bots' \subseteq Runner /\ \A r \in bots' : ~r.polling
  <2>1. \A r \in bots : (r.polling /\ r.bot # transport) = FALSE
    BY DEF LinkInv, OneConnection
  <2>2. \A r \in bots : [r EXCEPT !.polling = FALSE] \in Runner
                       /\ [r EXCEPT !.polling = FALSE].polling = FALSE
    BY DEF LinkInv, LinkTypes, Runner
  <2>3. \A s \in bots' : \E r \in bots : s = [r EXCEPT !.polling = FALSE]
    BY <1>2, <2>1
  <2> QED
    BY <2>2, <2>3
<1>4. LinkTypes'
  BY <1>1, <1>2, <1>3 DEF LinkInv, LinkTypes
<1>5. OneConnection'
  BY <1>2, <1>3 DEF OneConnection
<1>6. CallsStand'
  <2>1. \A c \in calls : c.gen \in Nat /\ c.gen < gen + 1
    BY DEF LinkInv, LinkTypes, CallsStand, Call
  <2>2. new.gen = gen + 1 /\ new.at = "stopping" /\ (new.kind = "resume" => new.token # None)
    OBVIOUS
  <2> QED
    BY <1>2, <2>1, <2>2 DEF LinkInv, LinkTypes, CallsStand
<1> QED
  BY <1>4, <1>5, <1>6 DEF LinkInv

\* A call that returns, or goes on with its own generation, and starts nothing.
LEMMA QuietCall ==
  ASSUME LinkInv, NEW c \in calls, NEW bots1 \in SUBSET bots, bots' = bots1,
         UNCHANGED <<gen, token, transport, timer>>,
         \/ calls' = calls \ {c}
         \/ \E d \in Call : /\ calls' = (calls \ {c}) \cup {d}
                            /\ d.gen = c.gen /\ d.token # None
  PROVE  LinkInv'
<1>1. LinkTypes'
  BY DEF LinkInv, LinkTypes
<1>2. OneConnection'
  BY DEF LinkInv, OneConnection
<1>3. CallsStand'
  BY DEF LinkInv, CallsStand
<1> QED
  BY <1>1, <1>2, <1>3 DEF LinkInv

\* A bot is created for the current generation when nothing polls.
LEMMA Started ==
  ASSUME LinkInv, NEW running \in SUBSET bots, NEW t \in Token,
         transport = None, StartTransport(gen, t, running), t = token,
         UNCHANGED <<gen, token>>, timer' = None,
         calls' \subseteq calls, \A c \in calls' : c.gen # gen
  PROVE  LinkInv'
<1> DEFINE new == [gen |-> gen, token |-> t]
<1>1. new \in Bot
  BY DEF LinkInv, LinkTypes, Bot
<1>2. \A r \in running : ~r.polling
  <2>1. \A r \in running : r.bot \in Bot
    BY DEF LinkInv, LinkTypes, Runner
  <2>2. None \notin Bot
    BY DEF Bot
  <2> QED
    BY <2>1, <2>2 DEF LinkInv, OneConnection
<1>3. CASE t \notin Refused /\ transport' = new
           /\ bots' = running \cup {[bot |-> new, polling |-> TRUE]}
  <2>1. [bot |-> new, polling |-> TRUE] \in Runner
    BY <1>1 DEF Runner
  <2>2. LinkTypes'
    BY <1>1, <1>3, <2>1 DEF LinkInv, LinkTypes
  <2>3. OneConnection'
    BY <1>2, <1>3 DEF OneConnection
  <2>4. CallsStand'
    BY <1>3 DEF LinkInv, CallsStand
  <2> QED
    BY <2>2, <2>3, <2>4 DEF LinkInv
<1>4. CASE transport' = None /\ bots' = running
  <2>1. LinkTypes'
    BY <1>4 DEF LinkInv, LinkTypes
  <2>2. OneConnection'
    BY <1>2, <1>4 DEF OneConnection
  <2>3. CallsStand'
    BY <1>4 DEF LinkInv, CallsStand
  <2> QED
    BY <2>1, <2>2, <2>3 DEF LinkInv
<1> QED
  BY <1>3, <1>4 DEF StartTransport

LEMMA ProceedLink ==
  ASSUME LinkInv, stored \in Chat \cup {None}, NEW c \in calls, Proceed(c)
  PROVE  LinkInv'
<1>0. c \in Call /\ calls \subseteq Call
  BY DEF LinkInv, LinkTypes
<1>1. CASE ConfigureStopped(c)
  <2>1. bots' \in SUBSET bots /\ UNCHANGED <<gen, token, transport, timer>>
    BY <1>1 DEF ConfigureStopped, Stopped
  <2>2. CASE calls' = calls \ {c}
    BY <2>1, <2>2, QuietCall
  <2>3. CASE c.token # None /\ calls' = (calls \ {c}) \cup {[c EXCEPT !.at = "read", !.bot = None]}
    <3>1. [c EXCEPT !.at = "read", !.bot = None] \in Call
      BY <1>0 DEF Call
    <3> QED
      BY <1>0, <2>1, <2>3, <3>1, QuietCall DEF Call
  <2> QED
    BY <1>1, <2>2, <2>3 DEF ConfigureStopped
<1>2. CASE ServiceStopped(c)
  BY <1>2, QuietCall DEF ServiceStopped, Stopped
<1>3. CASE ResumeStopped(c)
  <2>1. CASE ~IsCurrent(c.gen, c.token)
    BY <1>3, <2>1, QuietCall DEF ResumeStopped, Stopped
  <2>2. CASE IsCurrent(c.gen, c.token)
    <3>1. /\ c.gen = gen /\ c.token = token /\ c.token \in Token
          /\ transport = None /\ timer = None
      BY <1>0, <1>3, <2>2 DEF IsCurrent, ResumeStopped, LinkInv, CallsStand, Call
    <3>2. /\ StartTransport(gen, c.token, bots \ RunnerOf(c.bot))
          /\ UNCHANGED <<gen, token, timer>> /\ calls' = calls \ {c}
      BY <1>3, <2>2, <3>1 DEF ResumeStopped
    <3>3. \A d \in calls' : d.gen # gen
      BY <3>1, <3>2 DEF LinkInv, CallsStand
    <3> QED
      BY <3>1, <3>2, <3>3, Started
  <2> QED
    BY <2>1, <2>2
<1>4. CASE BindingRead(c)
  <2> DEFINE d == [c EXCEPT !.at = "reply", !.value = stored]
  <2>1. d \in Call /\ d.gen = c.gen /\ d.token = c.token
    BY <1>0 DEF Call
  <2>2. c.token # None
    BY <1>4 DEF BindingRead, LinkInv, CallsStand
  <2>3. /\ bots' = bots /\ calls' = (calls \ {c}) \cup {d}
        /\ UNCHANGED <<gen, token, transport, timer>>
    BY <1>4 DEF BindingRead, serviceVars
  <2> HIDE DEF d
  <2> QED
    BY <2>1, <2>2, <2>3, QuietCall
<1>5. CASE BindingReadFails(c)
  BY <1>5, QuietCall DEF BindingReadFails, serviceVars
<1>6. CASE Configured(c)
  <2>1. CASE ~IsCurrent(c.gen, c.token)
    BY <1>6, <2>1, QuietCall DEF Configured
  <2>2. CASE IsCurrent(c.gen, c.token)
    <3>1. /\ c.gen = gen /\ c.token = token /\ c.token \in Token
          /\ transport = None /\ timer = None
      BY <1>0, <1>6, <2>2 DEF IsCurrent, Configured, LinkInv, CallsStand, Call
    <3>2. /\ StartTransport(gen, c.token, bots)
          /\ UNCHANGED <<gen, token, timer>> /\ calls' = calls \ {c}
      BY <1>6, <2>2, <3>1 DEF Configured
    <3>3. \A d \in calls' : d.gen # gen
      BY <3>1, <3>2 DEF LinkInv, CallsStand
    <3> QED
      BY <3>1, <3>2, <3>3, Started
  <2> QED
    BY <2>1, <2>2
<1> QED
  BY <1>1, <1>2, <1>3, <1>4, <1>5, <1>6 DEF Proceed

LEMMA ServiceLink ==
  ASSUME LinkInv, stored \in Chat \cup {None}, ServiceStep
  PROVE  LinkInv'
<1>1. CASE \E c \in calls : Proceed(c)
  BY <1>1, ProceedLink
<1>2. ASSUME NEW r \in bots, PollingFails(r)
      PROVE  LinkInv'
  <2>1. LinkTypes'
    BY <1>2 DEF PollingFails, ScheduleReconnect, LinkInv, LinkTypes
  <2>2. r.bot \in Bot /\ r.bot # None /\ r.polling /\ r.bot = transport
    BY <1>2 DEF PollingFails, LinkInv, LinkTypes, OneConnection, Runner, Bot
  <2>3. transport = [gen |-> gen, token |-> token]
    BY <2>2 DEF LinkInv, OneConnection
  <2>4. IsCurrent(r.bot.gen, r.bot.token)
    BY <2>2, <2>3 DEF IsCurrent
  <2>5. /\ transport' = None /\ timer' = r.bot /\ bots' = bots \ {r}
        /\ UNCHANGED <<gen, token, calls>>
    BY <1>2, <2>2, <2>4 DEF PollingFails, ScheduleReconnect
  <2>6. \A q \in bots' : ~q.polling
    <3>1. SUFFICES ASSUME NEW q \in bots, q # r, q.polling PROVE FALSE
      BY <2>5
    <3>2. q.bot = r.bot /\ q.polling = r.polling
      BY <1>2, <2>2, <3>1 DEF LinkInv, LinkTypes, OneConnection, Runner
    <3> QED
      BY <3>1, <3>2 DEF LinkInv, LinkTypes, Runner
  <2>7. OneConnection'
    BY <2>2, <2>3, <2>5, <2>6 DEF OneConnection
  <2>8. CallsStand'
    BY <2>2, <2>5 DEF LinkInv, CallsStand
  <2> QED
    BY <2>1, <2>7, <2>8 DEF LinkInv
<1>3. CASE Reconnect
  <2>1. /\ timer # None /\ transport = None
        /\ timer = [gen |-> gen, token |-> token] /\ timer \in Bot
    BY <1>3 DEF Reconnect, LinkInv, LinkTypes, OneConnection
  <2>2. token \in Token /\ timer.gen = gen /\ timer.token = token
    BY <2>1 DEF Bot
  <2>3. \A c \in calls : c.gen # gen
    BY <2>1 DEF LinkInv, CallsStand
  <2> QED
    BY <1>3, <2>1, <2>2, <2>3, Started DEF Reconnect, IsCurrent
<1>4. CASE \/ \E r \in bots : \E chat \in Chat : Message(r, chat)
           \/ \E bot \in acking : Acknowledged(bot)
           \/ BindingWritten \/ BindingFails \/ Bound
  <2>1. UNCHANGED link
    BY <1>4 DEF Message, Acknowledged, BindingWritten, BindingFails, Bound, link, serviceVars
  <2> QED
    BY <2>1, NoLinkStep
<1> QED
  BY <1>1, <1>2, <1>3, <1>4 DEF ServiceStep

LEMMA ServiceRest ==
  ASSUME LinkTypes, RestTypes, ServiceStep
  PROVE  RestTypes'
<1>1. ASSUME NEW c \in calls, Proceed(c)
      PROVE  RestTypes'
  <2>1. CASE ConfigureStopped(c)
    BY <2>1 DEF ConfigureStopped, RestTypes, ghosts
  <2>2. CASE ServiceStopped(c)
    BY <2>2 DEF ServiceStopped, RestTypes, ghosts
  <2>3. CASE ResumeStopped(c)
    BY <2>3 DEF ResumeStopped, StartTransport, RestTypes, ghosts
  <2>4. CASE BindingRead(c)
    BY <2>4 DEF BindingRead, RestTypes, ghosts, serviceVars
  <2>5. CASE BindingReadFails(c)
    BY <2>5 DEF BindingReadFails, GoesWrong, IsCurrent, RestTypes, serviceVars
  <2>6. CASE Configured(c)
    <3>1. c.value \in Chat \cup {None}
      BY DEF LinkTypes, Call
    <3> QED
      BY <2>6, <3>1 DEF Configured, StartTransport, StateFor, RestTypes, ghosts
  <2> QED
    BY <1>1, <2>1, <2>2, <2>3, <2>4, <2>5, <2>6 DEF Proceed
<1>2. ASSUME NEW r \in bots, PollingFails(r)
      PROVE  RestTypes'
  BY <1>2 DEF PollingFails, ScheduleReconnect, GoesWrong, RestTypes, ghosts
<1>3. CASE Reconnect
  BY <1>3 DEF Reconnect, StartTransport, RestTypes, ghosts
<1>4. ASSUME NEW r \in bots, NEW chat \in Chat, Message(r, chat)
      PROVE  RestTypes'
  <2>1. r.bot \in Bot
    BY DEF LinkTypes, Runner
  <2> QED
    BY <1>4, <2>1 DEF Message, RestTypes, ghosts
<1>5. ASSUME NEW bot \in acking, Acknowledged(bot)
      PROVE  RestTypes'
  BY <1>5 DEF Acknowledged, GoesWrong, RestTypes, ghosts
<1>6. CASE BindingWritten
  <2>1. binding \in [chat : Chat, written : BOOLEAN]
    BY <1>6 DEF BindingWritten, RestTypes
  <2>2. [binding EXCEPT !.written = TRUE] \in [chat : Chat, written : BOOLEAN]
        /\ binding.chat \in Chat
    BY <2>1
  <2> QED
    BY <1>6, <2>2 DEF BindingWritten, RestTypes, ghosts, serviceVars
<1>7. CASE BindingFails
  <2>1. binding \in [chat : Chat, written : BOOLEAN]
    BY <1>7 DEF BindingFails, RestTypes
  <2> QED
    BY <1>7, <2>1 DEF BindingFails, GoesWrong, RestTypes, serviceVars
<1>8. CASE Bound
  <2>1. binding \in [chat : Chat, written : BOOLEAN]
    BY <1>8 DEF Bound, RestTypes
  <2> QED
    BY <1>8, <2>1 DEF Bound, RestTypes, ghosts
<1> QED
  BY <1>1, <1>2, <1>3, <1>4, <1>5, <1>6, <1>7, <1>8 DEF ServiceStep

-----------------------------------------------------------------------------
\* The types of the outbox.

JobTypes ==
  /\ job \in [Match -> {"none", "queued", "active", "completed", "failed"}]
  /\ tries \in [Match -> 0..RetryLimit + 1]
  /\ recipient \in [Match -> Chat \cup {None}]
  /\ deliveries \subseteq Delivery
  \* a job that can be handed to a worker has a try left
  /\ \A m \in Match : job[m] \in {"none", "queued"} => tries[m] <= RetryLimit

MarkTypes == notified \in [Match -> BOOLEAN] /\ sending \in [Match -> BOOLEAN]

CountTypes ==
  /\ sent \in [Match -> Nat] /\ explained \in [Match -> Nat] /\ expired \in [Match -> Nat]
  /\ reasons \in [Match -> SUBSET Reason]

WorldTypes ==
  /\ phase \in {"down", "up", "draining", "stopping"}
  /\ wanted \in Token \cup {None}
  /\ archived \in BOOLEAN
  /\ asked \in 0..MaxAsked

OutboxTypes == JobTypes /\ MarkTypes /\ CountTypes

TypeInv == LinkInv /\ RestTypes /\ OutboxTypes /\ WorldTypes

LEMMA SettleTypes ==
  ASSUME JobTypes, NEW d \in deliveries, NEW outcome \in {"completed", AfterFailure(d.match)},
         Settle(d, outcome)
  PROVE  JobTypes'
<1>1. d.match \in Match /\ deliveries' \subseteq Delivery /\ UNCHANGED <<tries, recipient>>
  BY DEF JobTypes, Delivery, Settle
<1>2. tries[d.match] \in 0..RetryLimit + 1
  BY <1>1 DEF JobTypes
<1>3. /\ outcome \in {"queued", "completed", "failed"}
      /\ outcome = "queued" => tries[d.match] <= RetryLimit
  BY <1>1, <1>2 DEF AfterFailure
<1>4. job' = [job EXCEPT ![d.match] = outcome] \/ job' = job
  BY DEF Settle
<1> QED
  BY <1>1, <1>3, <1>4 DEF JobTypes

LEMMA ReachTypes ==
  ASSUME JobTypes, NEW d \in deliveries, NEW step \in Step, Reach(d, step)
  PROVE  JobTypes'
<1>1. [d EXCEPT !.at = step] \in Delivery
  BY DEF JobTypes, Delivery
<1> QED
  BY <1>1 DEF JobTypes, Reach, queue

LEMMA DeliverTypes ==
  ASSUME OutboxTypes, NEW d \in deliveries, Deliver(d)
  PROVE  OutboxTypes'
<1>0. d.match \in Match
  BY DEF OutboxTypes, JobTypes, Delivery
<1>1. JobTypes'
  <2>1. Resolve(d) => JobTypes'
    BY SettleTypes DEF Resolve, OutboxTypes
  <2>2. Reject(d) => JobTypes'
    BY SettleTypes DEF Reject, OutboxTypes
  <2>3. \A step \in Step : Reach(d, step) => JobTypes'
    BY ReachTypes DEF OutboxTypes
  <2>4. \/ Resolve(d) \/ Reject(d) \/ \E step \in Step : Reach(d, step)
    <3>1. CASE Look(d)
      BY <3>1 DEF Look, Step
    <3>2. CASE Check(d)
      BY <3>2 DEF Check, GiveUp, Step
    <3>3. CASE Peek(d)
      BY <3>3 DEF Peek, Step
    <3>4. CASE MarkSending(d)
      BY <3>4 DEF MarkSending, Step
    <3>5. CASE Send(d)
      BY <3>5 DEF Send, GiveUp, Step
    <3>6. CASE Answer(d)
      BY <3>6 DEF Answer, GiveUp, Step
    <3>7. CASE MarkNotified(d) \/ DatabaseFails(d)
      BY <3>7 DEF MarkNotified, DatabaseFails
    <3> QED
      BY <3>1, <3>2, <3>3, <3>4, <3>5, <3>6, <3>7 DEF Deliver
  <2> QED
    BY <2>1, <2>2, <2>3, <2>4
<1>2. MarkTypes'
  <2>1. CASE UNCHANGED match
    BY <2>1 DEF OutboxTypes, MarkTypes, match
  <2>2. CASE MarkSending(d)
    <3>1. (sending[d.match] \/ ~notified[d.match]) \in BOOLEAN
      OBVIOUS
    <3> QED
      BY <2>2, <3>1 DEF MarkSending, MarkedSending, OutboxTypes, MarkTypes
  <2>3. CASE MarkNotified(d)
    <3>1. (sending[d.match] /\ notified[d.match]) \in BOOLEAN
      OBVIOUS
    <3> QED
      BY <2>3, <3>1 DEF MarkNotified, OutboxTypes, MarkTypes
  <2> QED
    BY <2>1, <2>2, <2>3 DEF Deliver, Look, Check, Peek, Send, Answer, DatabaseFails
<1>3. CountTypes'
  <2>1. CASE UNCHANGED history
    BY <2>1 DEF OutboxTypes, CountTypes, history
  <2>2. ASSUME NEW reason \in Reason, GiveUp(d, reason)
        PROVE  CountTypes'
    BY <1>0, <2>2 DEF GiveUp, OutboxTypes, CountTypes
  <2>3. CASE Check(d)
    BY <2>1, <2>2, <2>3 DEF Check, Reason
  <2>4. CASE Peek(d)
    BY <1>0, <2>4 DEF Peek, OutboxTypes, CountTypes
  <2>5. CASE Send(d)
    BY <2>1, <2>2, <2>5 DEF Send, NotBoundTo, Reason
  <2>6. CASE Answer(d)
    BY <1>0, <2>1, <2>2, <2>6 DEF Answer, Reason, OutboxTypes, CountTypes
  <2>7. CASE Look(d) \/ MarkSending(d) \/ MarkNotified(d) \/ DatabaseFails(d)
    BY <2>1, <2>7 DEF Look, MarkSending, MarkNotified, DatabaseFails
  <2> QED
    BY <2>3, <2>4, <2>5, <2>6, <2>7 DEF Deliver
<1> QED
  BY <1>1, <1>2, <1>3 DEF OutboxTypes

LEMMA QueueTypes ==
  ASSUME OutboxTypes, RestTypes, NEW m \in Match, Enqueue(m) \/ Fetch(m) \/ Expire(m)
  PROVE  OutboxTypes'
<1>1. CASE Enqueue(m)
  <2>1. JobTypes'
    BY <1>1 DEF Enqueue, OutboxTypes, JobTypes, RestTypes
  <2> QED
    BY <1>1, <2>1 DEF Enqueue, OutboxTypes, MarkTypes, CountTypes, match, history
<1>2. CASE Fetch(m)
  <2>1. tries[m] \in Nat /\ tries[m] + 1 \in 0..RetryLimit + 1
    BY <1>2 DEF Fetch, OutboxTypes, JobTypes
  <2>2. [match |-> m, try |-> tries[m] + 1, at |-> "look"] \in Delivery
    BY <2>1 DEF Delivery, Step
  <2>3. JobTypes'
    BY <1>2, <2>1, <2>2 DEF Fetch, OutboxTypes, JobTypes
  <2> QED
    BY <1>2, <2>3 DEF Fetch, OutboxTypes, MarkTypes, CountTypes, match, history
<1>3. CASE Expire(m)
  <2>1. JobTypes'
    BY <1>3 DEF Expire, AfterFailure, OutboxTypes, JobTypes
  <2>2. CountTypes'
    BY <1>3 DEF Expire, OutboxTypes, CountTypes
  <2> QED
    BY <1>3, <2>1, <2>2 DEF Expire, OutboxTypes, MarkTypes, match
<1> QED
  BY <1>1, <1>2, <1>3

LEMMA InitInv == Init => TypeInv
<1> SUFFICES ASSUME Init PROVE TypeInv
  OBVIOUS
<1>1. LinkTypes /\ RestTypes
  <2>1. LinkTypes
    BY DEF Init, ServiceIsNew, LinkTypes
  <2>2. trouble \in 0..MaxTrouble
    BY DEF Init
  <2>3. {unsure, overlapped} \subseteq BOOLEAN
    BY DEF Init, ServiceIsNew
  <2>4. /\ candidate = None /\ bound = None /\ state = "not-configured"
        /\ channel = "disconnected" /\ binding = None /\ acking = {}
        /\ stored \in Chat \cup {None}
    BY DEF Init, ServiceIsNew
  <2> QED
    BY <2>1, <2>2, <2>3, <2>4 DEF RestTypes
<1>2. OneConnection /\ CallsStand
  BY DEF Init, ServiceIsNew, OneConnection, CallsStand
<1>3. JobTypes /\ MarkTypes
  BY DEF Init, JobTypes, MarkTypes
<1>4. CountTypes
  BY DEF Init, CountTypes
<1>5. WorldTypes
  <2>1. asked \in 0..MaxAsked
    BY DEF Init
  <2>2. archived \in BOOLEAN
    BY DEF Init
  <2>3. phase = "up" /\ wanted \in Token \cup {None}
    BY DEF Init
  <2> QED
    BY <2>1, <2>2, <2>3 DEF WorldTypes
<1> QED
  BY <1>1, <1>2, <1>3, <1>4, <1>5 DEF TypeInv, LinkInv, OutboxTypes

LEMMA OutboxStays ==
  ASSUME OutboxTypes, UNCHANGED outboxVars
  PROVE  OutboxTypes'
BY DEF OutboxTypes, JobTypes, MarkTypes, CountTypes, outboxVars, queue, match, history

\* A step of the queue or of an attempt leaves the service alone, but for its trouble.
LEMMA OutboxLeavesBot ==
  ASSUME OutboxStep
  PROVE  UNCHANGED untroubled /\ (UNCHANGED trouble \/ GoesWrong)
<1>1. ASSUME NEW m \in Match, Enqueue(m) \/ Fetch(m) \/ Expire(m)
      PROVE  UNCHANGED untroubled /\ (UNCHANGED trouble \/ GoesWrong)
  BY <1>1 DEF Enqueue, Fetch, Expire, botVars
<1>2. ASSUME NEW d \in deliveries, Deliver(d)
      PROVE  UNCHANGED untroubled /\ (UNCHANGED trouble \/ GoesWrong)
  <2>1. CASE Look(d) \/ Check(d) \/ Peek(d) \/ MarkSending(d) \/ Send(d)
    BY <2>1 DEF Look, Check, Peek, MarkSending, Send, botVars
  <2>2. CASE Answer(d)
    BY <2>2 DEF Answer
  <2>3. CASE MarkNotified(d) \/ DatabaseFails(d)
    BY <2>3 DEF MarkNotified, DatabaseFails
  <2> QED
    BY <1>2, <2>1, <2>2, <2>3 DEF Deliver
<1> QED
  BY <1>1, <1>2 DEF OutboxStep

\* Each of the lifecycle calls of the process that is up.
LEMMA LifecycleInv ==
  ASSUME LinkInv, RestTypes, NEW t \in Token \cup {None},
         Configure(t) \/ Resume \/ Stop
  PROVE  LinkInv' /\ RestTypes'
<1>1. CASE Configure(t)
  <2>1. LinkInv'
    BY <1>1, BeginLink DEF Configure
  <2>2. RestTypes'
    BY <1>1 DEF Configure, Begin, RestTypes
  <2> QED
    BY <2>1, <2>2
<1>2. CASE Stop
  <2>1. LinkInv'
    BY <1>2, BeginLink DEF Stop
  <2>2. RestTypes'
    BY <1>2 DEF Stop, Begin, RestTypes
  <2> QED
    BY <2>1, <2>2
<1>3. CASE Resume /\ token = None
  <2>1. UNCHANGED link /\ channel' = "disconnected"
    BY <1>3 DEF Resume, link
  <2>2. LinkInv'
    BY <2>1, NoLinkStep
  <2>3. RestTypes'
    BY <1>3, <2>1 DEF Resume, RestTypes, ghosts
  <2> QED
    BY <2>2, <2>3
<1>4. CASE Resume /\ token # None
  <2>1. Begin("resume", token) /\ token \in Token \cup {None}
        /\ UNCHANGED <<candidate, bound, state, channel, binding, acking, stored, trouble>>
    BY <1>4 DEF Resume, LinkInv, LinkTypes
  <2>2. LinkInv'
    BY <1>4, <2>1, BeginLink
  <2>3. RestTypes'
    BY <2>1 DEF Begin, RestTypes
  <2> QED
    BY <2>2, <2>3
<1> QED
  BY <1>1, <1>2, <1>3, <1>4

LEMMA GoneInv ==
  ASSUME TypeInv, Gone, UNCHANGED trouble \/ GoesWrong
  PROVE  TypeInv'
<1>1. LinkInv' /\ RestTypes'
  <2>1. LinkTypes' /\ OneConnection' /\ CallsStand'
    BY DEF Gone, ServiceIsReset, LinkTypes, OneConnection, CallsStand
  <2>2. trouble' \in 0..MaxTrouble
    BY DEF GoesWrong, TypeInv, RestTypes
  <2>3. {unsure', overlapped'} \subseteq BOOLEAN
    BY DEF Gone, ServiceIsReset
  <2>4. /\ candidate' = None /\ bound' = None /\ state' = "not-configured"
        /\ channel' = "disconnected" /\ binding' = None /\ acking' = {}
        /\ stored' \in Chat \cup {None}
    BY DEF Gone, ServiceIsReset, TypeInv, RestTypes
  <2>5. RestTypes'
    BY <2>2, <2>3, <2>4 DEF RestTypes
  <2> QED
    BY <2>1, <2>5 DEF LinkInv
<1>2. OutboxTypes'
  BY DEF Gone, TypeInv, OutboxTypes, JobTypes, MarkTypes, CountTypes, queue, match, history
<1>3. WorldTypes'
  BY DEF Gone, TypeInv, WorldTypes
<1> QED
  BY <1>1, <1>2, <1>3 DEF TypeInv

LEMMA StepInv == TypeInv /\ [Next]_vars => TypeInv'
<1> SUFFICES ASSUME TypeInv, [Next]_vars PROVE TypeInv'
  OBVIOUS
<1> USE DEF TypeInv
<1>1. CASE UNCHANGED vars
  <2>1. UNCHANGED link /\ UNCHANGED <<candidate, bound, state, channel, binding, acking, stored,
                                    unsure, overlapped, trouble>>
        /\ UNCHANGED outboxVars /\ UNCHANGED <<phase, wanted, archived, asked>>
    BY <1>1 DEF vars, link, botVars, untroubled, serviceVars, ghosts
  <2> QED
    BY <2>1, NoLinkStep, OutboxStays DEF RestTypes, WorldTypes
<1>2. CASE ServiceStep /\ UNCHANGED <<outboxVars, phase, wanted, archived, asked>>
  <2>1. LinkInv' /\ RestTypes'
    BY <1>2, ServiceLink, ServiceRest DEF LinkInv, RestTypes
  <2> QED
    BY <1>2, <2>1, OutboxStays DEF WorldTypes
<1>3. CASE OutboxStep /\ UNCHANGED <<phase, wanted, archived, asked>>
  <2>1. UNCHANGED untroubled /\ (UNCHANGED trouble \/ GoesWrong)
    BY <1>3, OutboxLeavesBot
  <2>2. UNCHANGED link /\ UNCHANGED <<candidate, bound, state, channel, binding, acking, stored,
                                    unsure, overlapped>>
    BY <2>1 DEF untroubled, serviceVars, link, ghosts
  <2>3. LinkInv' /\ RestTypes'
    BY <2>1, <2>2, NoLinkStep DEF RestTypes, GoesWrong
  <2>4. OutboxTypes'
    BY <1>3, QueueTypes, DeliverTypes DEF OutboxStep
  <2> QED
    BY <1>3, <2>3, <2>4 DEF WorldTypes
<1>4. CASE \/ ReadyIsAnswered \/ WakeUp \/ Drained \/ \E t \in Token : SaveToken(t)
  <2>1. \/ \E t \in Token \cup {None} : Configure(t) \/ Resume \/ Stop
    BY <1>4 DEF ReadyIsAnswered, WakeUp, Drained, SaveToken, WorldTypes
  <2>2. LinkInv' /\ RestTypes'
    BY <2>1, LifecycleInv
  <2>3. UNCHANGED outboxVars
    BY <1>4 DEF ReadyIsAnswered, WakeUp, Drained, SaveToken
  <2>4. WorldTypes'
    BY <1>4 DEF ReadyIsAnswered, WakeUp, Drained, SaveToken, Asks, WorldTypes
  <2> QED
    BY <2>2, <2>3, <2>4, OutboxStays
<1>5. CASE \/ SetArchived \/ Shutdown \/ Launch \/ \E chat \in Chat : AskToBind(chat)
  <2>1. UNCHANGED link
    BY <1>5 DEF SetArchived, Shutdown, Launch, AskToBind, BindCandidate, link, botVars,
                untroubled, serviceVars
  <2>2. RestTypes'
    <3>1. CASE SetArchived \/ Shutdown \/ Launch
      BY <3>1 DEF SetArchived, Shutdown, Launch, RestTypes, botVars, untroubled, serviceVars,
                  ghosts
    <3>2. ASSUME NEW chat \in Chat, AskToBind(chat)
          PROVE  RestTypes'
      BY <3>2 DEF AskToBind, BindCandidate, RestTypes, serviceVars
    <3> QED
      BY <1>5, <3>1, <3>2
  <2>3. UNCHANGED outboxVars
    BY <1>5 DEF SetArchived, Shutdown, Launch, AskToBind
  <2>4. WorldTypes'
    <3>1. archived' \in BOOLEAN
      BY <1>5 DEF SetArchived, Shutdown, Launch, AskToBind, WorldTypes
    <3>2. asked' \in 0..MaxAsked /\ phase' \in {"down", "up", "draining", "stopping"}
          /\ wanted' \in Token \cup {None}
      BY <1>5 DEF SetArchived, Shutdown, Launch, AskToBind, Asks, WorldTypes
    <3> QED
      BY <3>1, <3>2 DEF WorldTypes
  <2> QED
    BY <2>1, <2>2, <2>3, <2>4, NoLinkStep, OutboxStays
<1>6. CASE Exit \/ Crash
  BY <1>6, GoneInv DEF Exit, Crash
<1> QED
  BY <1>1, <1>2, <1>3, <1>4, <1>5, <1>6 DEF Next

\* Every variable keeps its type, whatever fails and in whatever order the calls, the
\* messages and the attempts of the worker go on.
THEOREM TypesHold == Spec => []TypeOK
<1>1. TypeInv => TypeOK
  BY DEF TypeInv, LinkInv, LinkTypes, RestTypes, OutboxTypes, JobTypes, MarkTypes, CountTypes,
         WorldTypes, TypeOK, BotTypeOK
<1> QED
  BY <1>1, InitInv, StepInv, PTL DEF Spec

\* However lifecycle calls, failures and reconnects overlap, at most one bot is polled
\* that has not been told to stop, and it is the one configured last (startTransport,
\* scheduleReconnect and the generation guards of the bot service).
THEOREM OneBotPolls == Spec => []OneConnection
<1>1. TypeInv => OneConnection
  BY DEF TypeInv, LinkInv
<1> QED
  BY <1>1, InitInv, StepInv, PTL DEF Spec

-----------------------------------------------------------------------------
\* What is true of each match by itself.

Of(m) == {d \in deliveries : d.match = m}

\* An attempt that is about to mark the match has sent its message.
SentFirst(m) ==
  /\ notified[m] => sent[m] > 0
  /\ \A d \in Of(m) : d.at = "confirm" => sent[m] > 0

\* A completed job's match was notified or gave up, a failed job has no try left.
Handled(m) ==
  /\ job[m] = "completed" => notified[m] \/ reasons[m] # {}
  /\ job[m] = "failed" => tries[m] > RetryLimit

\* While no attempt outlived its job there is at most one, and it has the job.
Alone(m) ==
  expired[m] = 0 =>
    /\ \A d \in Of(m) : Live(d)
    /\ \A d, e \in Of(m) : d = e

\* Then a message left a mark, and an attempt past its look at the mark, if there was a
\* message before, has journaled that.
Counted(m) ==
  expired[m] = 0 =>
    /\ sent[m] <= 1 + explained[m]
    /\ sent[m] > 0 => sending[m] \/ notified[m]
    /\ \A d \in Of(m) :
         /\ d.at # "look" => ~notified[m]
         /\ d.at \in {"recheck", "mark", "send", "answer"} => sent[m] <= explained[m]
         /\ d.at \in {"send", "answer", "confirm"} => sending[m]

MatchInv(m) == SentFirst(m) /\ Handled(m) /\ Alone(m) /\ Counted(m)

MatchTypes(m) ==
  /\ m \in Match
  /\ notified[m] \in BOOLEAN /\ sending[m] \in BOOLEAN
  /\ sent[m] \in Nat /\ explained[m] \in Nat /\ expired[m] \in Nat
  /\ tries[m] \in Nat

LEMMA TypesOfMatch ==
  ASSUME OutboxTypes, NEW m \in Match
  PROVE  MatchTypes(m)
BY DEF OutboxTypes, JobTypes, MarkTypes, CountTypes, MatchTypes

\* What a step does not touch of a match stays true of it.
LEMMA Untouched ==
  ASSUME NEW m, MatchInv(m), Of(m)' = Of(m) \/ Of(m)' = {},
         job'[m] = job[m], tries'[m] = tries[m],
         notified'[m] = notified[m], sending'[m] = sending[m],
         sent'[m] = sent[m], explained'[m] = explained[m], expired'[m] = expired[m],
         reasons'[m] = reasons[m]
  PROVE  MatchInv(m)'
<1>1. SentFirst(m)'
  BY DEF MatchInv, SentFirst
<1>2. Handled(m)'
  BY DEF MatchInv, Handled
<1>3. Alone(m)'
  BY DEF MatchInv, Alone, Live, Of
<1>4. Counted(m)'
  BY DEF MatchInv, Counted
<1> QED
  BY <1>1, <1>2, <1>3, <1>4 DEF MatchInv

LEMMA SettleView ==
  ASSUME OutboxTypes, NEW d \in deliveries, NEW outcome, Settle(d, outcome)
  PROVE  /\ d.match \in Match /\ d \in Of(d.match) /\ Of(d.match)' = Of(d.match) \ {d}
         /\ UNCHANGED tries
         /\ IF Live(d) THEN job'[d.match] = outcome ELSE job'[d.match] = job[d.match]
         /\ \A m \in Match \ {d.match} : Of(m)' = Of(m) /\ job'[m] = job[m]
BY DEF OutboxTypes, JobTypes, Delivery, Settle, Of

LEMMA ReachView ==
  ASSUME OutboxTypes, NEW d \in deliveries, NEW step \in Step, Reach(d, step)
  PROVE  /\ d.match \in Match /\ d \in Of(d.match)
         /\ \E e \in Delivery :
              /\ e.match = d.match /\ e.try = d.try /\ e.at = step
              /\ Of(d.match)' = (Of(d.match) \ {d}) \cup {e}
         /\ UNCHANGED <<job, tries>>
         /\ \A m \in Match \ {d.match} : Of(m)' = Of(m)
<1> DEFINE e == [d EXCEPT !.at = step]
<1>1. e \in Delivery /\ e.match = d.match /\ e.try = d.try /\ e.at = step
  BY DEF OutboxTypes, JobTypes, Delivery
<1>2. d.match \in Match /\ deliveries' = (deliveries \ {d}) \cup {e} /\ UNCHANGED <<job, tries>>
  BY DEF OutboxTypes, JobTypes, Delivery, Reach, queue
<1> HIDE DEF e
<1>3. Of(d.match)' = (Of(d.match) \ {d}) \cup {e}
  BY <1>1, <1>2 DEF Of
<1>4. \A m \in Match \ {d.match} : Of(m)' = Of(m)
  BY <1>1, <1>2 DEF Of
<1> QED
  BY <1>1, <1>2, <1>3, <1>4 DEF Of

\* An attempt ends: what has to be shown of its match.
LEMMA Settled ==
  ASSUME OutboxTypes, OutboxTypes', NEW d \in deliveries, NEW outcome, Settle(d, outcome),
         NEW m \in Match, m = d.match, MatchInv(m),
         outcome = "completed" => notified'[m] \/ reasons'[m] # {},
         outcome = "failed" => tries[m] > RetryLimit,
         notified[m] => notified'[m], reasons[m] \subseteq reasons'[m],
         notified'[m] => sent'[m] > 0, sent[m] <= sent'[m],
         expired'[m] = expired[m],
         expired[m] = 0 => /\ sent'[m] <= 1 + explained'[m]
                           /\ sent'[m] > 0 => sending'[m] \/ notified'[m]
  PROVE  MatchInv(m)'
<1>1. d \in Of(m) /\ Of(m)' = Of(m) \ {d}
      /\ (job'[m] = outcome \/ job'[m] = job[m]) /\ tries' = tries
  BY SettleView
<1>2. MatchTypes(m) /\ MatchTypes(m)'
  BY TypesOfMatch DEF OutboxTypes, JobTypes, MarkTypes, CountTypes, MatchTypes
<1>3. SentFirst(m)'
  BY <1>1, <1>2 DEF MatchInv, SentFirst, MatchTypes
<1>4. Handled(m)'
  BY <1>1 DEF MatchInv, Handled
<1>5. expired'[m] = 0 => Of(m)' = {}
  BY <1>1 DEF MatchInv, Alone
<1>6. Alone(m)'
  BY <1>5 DEF Alone
<1>7. Counted(m)'
  BY <1>5 DEF Counted
<1> QED
  BY <1>3, <1>4, <1>6, <1>7 DEF MatchInv

\* An attempt goes on.
LEMMA Reached ==
  ASSUME OutboxTypes, OutboxTypes', NEW d \in deliveries, NEW step \in Step, Reach(d, step),
         NEW m \in Match, m = d.match, MatchInv(m),
         notified'[m] = notified[m], reasons'[m] = reasons[m],
         sent[m] <= sent'[m], step = "confirm" => sent'[m] > 0,
         expired'[m] = expired[m],
         expired[m] = 0 =>
           /\ sent'[m] <= 1 + explained'[m]
           /\ sent'[m] > 0 => sending'[m] \/ notified'[m]
           /\ step # "look" => ~notified'[m]
           /\ step \in {"recheck", "mark", "send", "answer"} => sent'[m] <= explained'[m]
           /\ step \in {"send", "answer", "confirm"} => sending'[m]
  PROVE  MatchInv(m)'
<1>1. PICK e \in Delivery : /\ e.match = m /\ e.try = d.try /\ e.at = step
                            /\ Of(m)' = (Of(m) \ {d}) \cup {e}
  BY ReachView
<1>2. d \in Of(m) /\ UNCHANGED <<job, tries>>
  BY ReachView
<1>3. MatchTypes(m) /\ MatchTypes(m)'
  BY TypesOfMatch DEF OutboxTypes, JobTypes, MarkTypes, CountTypes, MatchTypes
<1>4. SentFirst(m)'
  BY <1>1, <1>2, <1>3 DEF MatchInv, SentFirst, MatchTypes
<1>5. Handled(m)'
  BY <1>2 DEF MatchInv, Handled
<1>6. expired'[m] = 0 => Of(m)' = {e} /\ Live(d)
  BY <1>1, <1>2 DEF MatchInv, Alone
<1>7. Alone(m)'
  BY <1>1, <1>2, <1>6 DEF Alone, Live
<1>8. Counted(m)'
  BY <1>1, <1>6 DEF Counted
<1> QED
  BY <1>4, <1>5, <1>7, <1>8 DEF MatchInv

\* The other matches have nothing to do with an attempt.
LEMMA OtherMatches ==
  ASSUME OutboxTypes, NEW d \in deliveries, Deliver(d), NEW m \in Match, m # d.match,
         MatchInv(m)
  PROVE  MatchInv(m)'
<1>1. Of(m)' = Of(m) /\ job'[m] = job[m] /\ tries' = tries
  <2>1. CASE \/ \E outcome \in {"completed", AfterFailure(d.match)} : Settle(d, outcome)
    BY <2>1, SettleView
  <2>2. CASE \E step \in Step : Reach(d, step)
    BY <2>2, ReachView
  <2>3. \/ \E outcome \in {"completed", AfterFailure(d.match)} : Settle(d, outcome)
        \/ \E step \in Step : Reach(d, step)
    <3>1. CASE Look(d) \/ Check(d)
      BY <3>1 DEF Look, Check, GiveUp, Resolve, Step
    <3>2. CASE Peek(d) \/ MarkSending(d)
      BY <3>2 DEF Peek, MarkSending, Step
    <3>3. CASE Send(d)
      BY <3>3 DEF Send, GiveUp, Resolve, Reject, Step
    <3>4. CASE Answer(d)
      BY <3>4 DEF Answer, GiveUp, Resolve, Reject, Step
    <3>5. CASE MarkNotified(d) \/ DatabaseFails(d)
      BY <3>5 DEF MarkNotified, DatabaseFails, Resolve, Reject
    <3> QED
      BY <3>1, <3>2, <3>3, <3>4, <3>5 DEF Deliver
  <2> QED
    BY <2>1, <2>2, <2>3
<1>2. notified'[m] = notified[m] /\ sending'[m] = sending[m]
  BY DEF Deliver, Look, Check, Peek, MarkSending, MarkedSending, Send, Answer, MarkNotified,
         DatabaseFails, match, OutboxTypes, MarkTypes
<1>3. /\ sent'[m] = sent[m] /\ explained'[m] = explained[m] /\ expired'[m] = expired[m]
      /\ reasons'[m] = reasons[m]
  <2>1. CASE Look(d) \/ Check(d) \/ Peek(d) \/ MarkSending(d)
    BY <2>1 DEF Look, Check, Peek, MarkSending, GiveUp, history, OutboxTypes, CountTypes
  <2>2. CASE Send(d)
    BY <2>2 DEF Send, GiveUp, history, OutboxTypes, CountTypes
  <2>3. CASE Answer(d)
    BY <2>3 DEF Answer, GiveUp, history, OutboxTypes, CountTypes
  <2>4. CASE MarkNotified(d) \/ DatabaseFails(d)
    BY <2>4 DEF MarkNotified, DatabaseFails, history, OutboxTypes, CountTypes
  <2> QED
    BY <2>1, <2>2, <2>3, <2>4 DEF Deliver
<1> QED
  BY <1>1, <1>2, <1>3, Untouched

LEMMA DeliverMatch ==
  ASSUME OutboxTypes, OutboxTypes', NEW d \in deliveries, Deliver(d),
         NEW m \in Match, m = d.match, MatchInv(m)
  PROVE  MatchInv(m)'
<1>1. m \in Match /\ m = d.match
  OBVIOUS
<1>2. MatchTypes(m)
  BY <1>1, TypesOfMatch
<1>3. MatchInv(m)
  OBVIOUS
<1>4. (notified[m] => sent[m] > 0) /\ (d.at = "confirm" => sent[m] > 0)
  BY <1>1, <1>3 DEF MatchInv, SentFirst, Of
<1>5. expired[m] = 0 =>
        /\ sent[m] <= 1 + explained[m]
        /\ sent[m] > 0 => sending[m] \/ notified[m]
        /\ d.at # "look" => ~notified[m]
        /\ d.at \in {"recheck", "mark", "send", "answer"} => sent[m] <= explained[m]
        /\ d.at \in {"send", "answer", "confirm"} => sending[m]
  BY <1>1, <1>3 DEF MatchInv, Counted, Of
<1>6. CASE Look(d)
  <2>1. UNCHANGED <<notified, sending, sent, explained, expired, reasons>> /\ d.at = "look"
    BY <1>6 DEF Look, match, history
  <2>2. CASE notified[m] /\ Settle(d, "completed")
    BY <1>1, <1>2, <1>3, <1>4, <1>5, <2>1, <2>2, Settled DEF MatchTypes
  <2>3. CASE ~notified[m] /\ Reach(d, "check")
    BY <1>1, <1>2, <1>3, <1>5, <2>1, <2>3, Reached DEF MatchTypes, Step
  <2> QED
    BY <1>1, <1>6, <2>2, <2>3 DEF Look, Resolve
\* Given up, for whatever reason.
<1>7. ASSUME NEW reason \in Reason, GiveUp(d, reason), UNCHANGED match
      PROVE  MatchInv(m)'
  <2>1. reasons'[m] = reasons[m] \cup {reason}
    BY <1>1, <1>7 DEF GiveUp, OutboxTypes, CountTypes
  <2>2. reasons[m] \subseteq reasons'[m] /\ reasons'[m] # {}
    BY <2>1
  <2>3. Settle(d, "completed") /\ UNCHANGED <<notified, sending, sent, explained, expired>>
    BY <1>7 DEF GiveUp, Resolve, match
  <2> QED
    BY <1>1, <1>2, <1>3, <1>4, <1>5, <2>2, <2>3, Settled DEF MatchTypes
<1>8. "archived" \in Reason /\ NotBoundTo \in Reason /\ "refused" \in Reason
  BY DEF Reason, NotBoundTo
\* Rejected with nothing changed but the job.
<1>9. ASSUME Reject(d), UNCHANGED <<notified, sending, sent, explained, expired, reasons>>
      PROVE  MatchInv(m)'
  <2>1. /\ Settle(d, AfterFailure(m)) /\ AfterFailure(m) # "completed"
        /\ AfterFailure(m) = "failed" => tries[m] > RetryLimit
    BY <1>1, <1>9 DEF Reject, AfterFailure
  <2> QED
    BY <1>1, <1>2, <1>3, <1>4, <1>5, <1>9, <2>1, Settled DEF MatchTypes
<1>10. CASE Check(d)
  <2>1. CASE GiveUp(d, "archived") /\ UNCHANGED match
    BY <1>7, <1>8, <2>1
  <2>2. CASE d.at = "check" /\ Reach(d, "peek") /\ UNCHANGED <<match, history>>
    <3>1. UNCHANGED <<notified, sending, sent, explained, expired, reasons>>
      BY <2>2 DEF match, history
    <3> QED
      BY <1>1, <1>2, <1>3, <1>5, <2>2, <3>1, Reached DEF MatchTypes, Step
  <2>3. CASE d.at = "recheck" /\ Reach(d, "mark") /\ UNCHANGED <<match, history>>
    <3>1. UNCHANGED <<notified, sending, sent, explained, expired, reasons>>
      BY <2>3 DEF match, history
    <3> QED
      BY <1>1, <1>2, <1>3, <1>5, <2>3, <3>1, Reached DEF MatchTypes, Step
  <2> QED
    BY <1>10, <2>1, <2>2, <2>3 DEF Check
<1>11. CASE Peek(d)
  <2>1. /\ UNCHANGED <<notified, sending, sent, expired, reasons>>
        /\ d.at = "peek" /\ Reach(d, "recheck")
    BY <1>11 DEF Peek, match
  <2>2. IF sending[m] THEN explained'[m] = explained[m] + 1 ELSE explained'[m] = explained[m]
    BY <1>1, <1>11 DEF Peek, OutboxTypes, CountTypes
  <2>3. expired[m] = 0 => sent[m] <= explained'[m] /\ ~notified[m]
    BY <1>2, <1>5, <2>1, <2>2 DEF MatchTypes
  <2> QED
    BY <1>1, <1>2, <1>3, <1>5, <2>1, <2>2, <2>3, Reached DEF MatchTypes, Step
<1>12. CASE MarkSending(d)
  <2>1. /\ UNCHANGED <<notified, sent, explained, expired, reasons>>
        /\ d.at = "mark" /\ Reach(d, "send")
    BY <1>12 DEF MarkSending, MarkedSending, history
  <2>2. sending'[m] <=> sending[m] \/ ~notified[m]
    BY <1>1, <1>12 DEF MarkSending, MarkedSending, OutboxTypes, MarkTypes
  <2> QED
    BY <1>1, <1>2, <1>3, <1>5, <2>1, <2>2, Reached DEF MatchTypes, Step
<1>13. CASE Send(d)
  <2>1. CASE GiveUp(d, NotBoundTo) /\ UNCHANGED match
    BY <1>7, <1>8, <2>1
  <2>2. CASE Reject(d) /\ UNCHANGED <<match, history>>
    <3>1. UNCHANGED <<notified, sending, sent, explained, expired, reasons>>
      BY <2>2 DEF match, history
    <3> QED
      BY <1>9, <2>2, <3>1
  <2>3. CASE d.at = "send" /\ Reach(d, "answer") /\ UNCHANGED <<match, history>>
    <3>1. UNCHANGED <<notified, sending, sent, explained, expired, reasons>>
      BY <2>3 DEF match, history
    <3> QED
      BY <1>1, <1>2, <1>3, <1>5, <2>3, <3>1, Reached DEF MatchTypes, Step
  <2> QED
    BY <1>13, <2>1, <2>2, <2>3 DEF Send
<1>14. CASE Answer(d)
  <2>1. d.at = "answer" /\ UNCHANGED <<notified, sending>>
    BY <1>14 DEF Answer, match
  <2>2. CASE /\ sent' = [sent EXCEPT ![m] = @ + 1] /\ UNCHANGED <<explained, expired, reasons>>
             /\ Reach(d, "confirm") \/ Reject(d)
    <3>1. sent'[m] = sent[m] + 1
      BY <1>1, <2>2 DEF OutboxTypes, CountTypes
    <3>2. CASE Reach(d, "confirm")
      BY <1>1, <1>2, <1>3, <1>5, <2>1, <2>2, <3>1, <3>2, Reached DEF MatchTypes, Step
    <3>3. CASE Reject(d)
      <4>1. /\ Settle(d, AfterFailure(m)) /\ AfterFailure(m) # "completed"
            /\ AfterFailure(m) = "failed" => tries[m] > RetryLimit
        BY <1>1, <3>3 DEF Reject, AfterFailure
      <4> QED
        BY <1>1, <1>2, <1>3, <1>4, <1>5, <2>1, <2>2, <3>1, <4>1, Settled DEF MatchTypes
    <3> QED
      BY <2>2, <3>2, <3>3
  <2>3. CASE GiveUp(d, "refused") /\ UNCHANGED match
    BY <1>7, <1>8, <2>3
  <2>4. CASE Reject(d) /\ UNCHANGED <<match, history>>
    <3>1. UNCHANGED <<notified, sending, sent, explained, expired, reasons>>
      BY <2>4 DEF match, history
    <3> QED
      BY <1>9, <2>4, <3>1
  <2> QED
    BY <1>1, <1>14, <2>2, <2>3, <2>4 DEF Answer
<1>15. CASE MarkNotified(d)
  <2>1. UNCHANGED <<sent, explained, expired, reasons>> /\ d.at = "confirm"
    BY <1>15 DEF MarkNotified, history
  <2>2. notified'[m] = TRUE
    BY <1>1, <1>15 DEF MarkNotified, OutboxTypes, MarkTypes
  <2>3. CASE Resolve(d)
    BY <1>1, <1>2, <1>3, <1>4, <1>5, <2>1, <2>2, <2>3, Settled DEF MatchTypes, Resolve
  <2>4. CASE Reject(d)
    BY <1>1, <1>2, <1>3, <1>4, <1>5, <2>1, <2>2, <2>4, Settled
       DEF MatchTypes, Reject, AfterFailure
  <2> QED
    BY <1>15, <2>3, <2>4 DEF MarkNotified
<1>16. CASE DatabaseFails(d)
  <2>1. UNCHANGED <<notified, sending, sent, explained, expired, reasons>> /\ Reject(d)
    BY <1>16 DEF DatabaseFails, match, history
  <2> QED
    BY <1>9, <2>1
<1> QED
  BY <1>6, <1>10, <1>11, <1>12, <1>13, <1>14, <1>15, <1>16 DEF Deliver

LEMMA QueueMatch ==
  ASSUME OutboxTypes, OutboxTypes', NEW n \in Match, Enqueue(n) \/ Fetch(n) \/ Expire(n),
         NEW m \in Match, MatchInv(m)
  PROVE  MatchInv(m)'
<1>1. MatchTypes(m)
  BY TypesOfMatch
<1>2. UNCHANGED <<notified, sending, sent, explained, reasons>>
  BY DEF Enqueue, Fetch, Expire, match, history
<1>3. CASE Enqueue(n)
  <2>1. CASE m # n
    <3>1. Of(m)' = Of(m) /\ job'[m] = job[m] /\ tries' = tries /\ expired' = expired
      BY <1>3, <2>1 DEF Enqueue, Of, OutboxTypes, JobTypes, history
    <3> QED
      BY <1>2, <3>1, Untouched
  <2>2. CASE m = n
    <3>1. /\ job[m] = "none" /\ job'[m] = "queued" /\ tries' = tries /\ expired' = expired
          /\ Of(m)' = Of(m)
      BY <1>3, <2>2 DEF Enqueue, Of, OutboxTypes, JobTypes, history
    <3>2. expired[m] = 0 => Of(m) = {}
      BY <3>1 DEF MatchInv, Alone, Live, Of
    <3> QED
      BY <1>2, <3>1, <3>2 DEF MatchInv, SentFirst, Handled, Alone, Counted
  <2> QED
    BY <2>1, <2>2
<1>4. CASE Fetch(n)
  <2>1. CASE m # n
    <3>1. Of(m)' = Of(m) /\ job'[m] = job[m] /\ tries'[m] = tries[m] /\ expired' = expired
      BY <1>4, <2>1 DEF Fetch, Of, OutboxTypes, JobTypes, history
    <3> QED
      BY <1>2, <3>1, Untouched
  <2>2. CASE m = n
    <3> DEFINE e == [match |-> m, try |-> tries[m] + 1, at |-> "look"]
    <3>1. e.match = m /\ e.try = tries[m] + 1 /\ e.at = "look"
      OBVIOUS
    <3>2. job[m] = "queued" /\ NoneLive /\ deliveries' = deliveries \cup {e} /\ expired' = expired
      BY <1>4, <2>2 DEF Fetch, history
    <3>3. job'[m] = "active" /\ tries'[m] = tries[m] + 1
      BY <1>4, <2>2 DEF Fetch, OutboxTypes, JobTypes
    <3> HIDE DEF e
    <3>4. Of(m)' = Of(m) \cup {e}
      BY <3>1, <3>2 DEF Of
    <3>5. expired[m] = 0 => Of(m)' = {e}
      BY <3>2, <3>4 DEF MatchInv, Alone, NoneLive, Of
    <3>6. Alone(m)'
      BY <3>1, <3>3, <3>5, <3>2 DEF Alone, Live
    <3>7. SentFirst(m)' /\ Handled(m)'
      BY <1>2, <3>1, <3>3, <3>4 DEF MatchInv, SentFirst, Handled
    <3>8. Counted(m)'
      BY <1>2, <3>1, <3>2, <3>5 DEF MatchInv, Counted
    <3> QED
      BY <3>6, <3>7, <3>8 DEF MatchInv
  <2> QED
    BY <2>1, <2>2
<1>5. CASE Expire(n)
  <2>1. CASE m # n
    <3>1. Of(m)' = Of(m) /\ job'[m] = job[m] /\ tries' = tries /\ expired'[m] = expired[m]
      BY <1>5, <2>1 DEF Expire, Of, OutboxTypes, JobTypes, CountTypes
    <3> QED
      BY <1>2, <3>1, Untouched
  <2>2. CASE m = n
    <3>1. /\ Of(m)' = Of(m) /\ job'[m] # "completed" /\ tries' = tries
          /\ job'[m] = "failed" => tries[m] > RetryLimit
      BY <1>5, <2>2 DEF Expire, AfterFailure, Of, OutboxTypes, JobTypes
    <3>2. \/ expired'[m] = expired[m] + 1
          \/ expired'[m] = expired[m] /\ NoneLive
      BY <1>5, <2>2 DEF Expire, OutboxTypes, CountTypes
    <3>3. expired'[m] = 0 => expired[m] = 0 /\ Of(m) = {}
      BY <1>1, <3>2 DEF MatchInv, Alone, NoneLive, Of, MatchTypes
    <3>4. Alone(m)' /\ SentFirst(m)' /\ Handled(m)'
      BY <1>2, <3>1, <3>3 DEF MatchInv, Alone, SentFirst, Handled
    <3>5. Counted(m)'
      BY <1>2, <3>1, <3>3 DEF MatchInv, Counted
    <3> QED
      BY <3>4, <3>5 DEF MatchInv
  <2> QED
    BY <2>1, <2>2
<1> QED
  BY <1>3, <1>4, <1>5

MatchesInv == TypeInv /\ \A m \in Match : MatchInv(m)

LEMMA InitMatches == Init => MatchesInv
<1> SUFFICES ASSUME Init, NEW m \in Match PROVE MatchInv(m)
  BY InitInv DEF MatchesInv
<1>1. Of(m) = {} /\ ~notified[m] /\ job[m] \in {"none", "queued"} /\ sent[m] = 0 /\ explained[m] = 0
  BY DEF Init, Of
<1> QED
  BY <1>1 DEF MatchInv, SentFirst, Handled, Alone, Counted

LEMMA StepMatches == MatchesInv /\ [Next]_vars => MatchesInv'
<1> SUFFICES ASSUME MatchesInv, [Next]_vars, NEW m \in Match PROVE MatchInv(m)'
  BY StepInv DEF MatchesInv
<1>1. TypeInv /\ TypeInv' /\ MatchInv(m) /\ \A n \in Match : MatchInv(n)
  BY StepInv DEF MatchesInv
<1>2. OutboxTypes /\ OutboxTypes'
  BY <1>1 DEF TypeInv
<1>3. CASE UNCHANGED outboxVars
  <2>1. Of(m)' = Of(m)
    BY <1>3 DEF Of, outboxVars
  <2> QED
    BY <1>1, <1>3, <2>1, Untouched DEF outboxVars, queue, match, history
<1>4. CASE Gone
  <2>1. Of(m)' = {}
    BY <1>4 DEF Gone, Of
  <2> QED
    BY <1>1, <1>4, <2>1, Untouched DEF Gone, queue, match, history
<1>5. CASE OutboxStep
  <2>1. ASSUME NEW n \in Match, Enqueue(n) \/ Fetch(n) \/ Expire(n)
        PROVE  MatchInv(m)'
    BY <1>1, <1>2, <2>1, QueueMatch
  <2>2. ASSUME NEW d \in deliveries, Deliver(d)
        PROVE  MatchInv(m)'
    <3>1. CASE m # d.match
      BY <1>1, <1>2, <2>2, <3>1, OtherMatches
    <3>2. CASE m = d.match
      BY <1>1, <1>2, <2>2, <3>2, DeliverMatch
    <3> QED
      BY <3>1, <3>2
  <2> QED
    BY <1>5, <2>1, <2>2 DEF OutboxStep
<1>6. UNCHANGED outboxVars \/ Gone \/ OutboxStep
  <2>1. CASE UNCHANGED vars
    BY <2>1 DEF vars
  <2>2. CASE Next
    BY <2>2 DEF Next, ReadyIsAnswered, WakeUp, SetArchived, Shutdown, Drained, Exit, Crash,
                Launch, SaveToken, AskToBind
  <2> QED
    BY <2>1, <2>2
<1> QED
  BY <1>3, <1>4, <1>5, <1>6

\* A match is marked as notified only after Telegram accepted its message, in every order
\* of marking, sending, crashing and retrying (telegram-outbox-delivery).
THEOREM SentBeforeMarked == Spec => []NotifiedMeansSent
<1>1. MatchesInv => NotifiedMeansSent
  BY DEF MatchesInv, MatchInv, SentFirst, NotifiedMeansSent
<1> QED
  BY <1>1, InitMatches, StepMatches, PTL DEF Spec

\* As long as no attempt outlives its job, a message is repeated only after an attempt
\* journaled that an earlier one left the match in doubt (getSendingAt, markSending).
THEOREM DoublesAreExplained == Spec => []RepeatsAreExplained
<1>1. MatchesInv => RepeatsAreExplained
  BY DEF MatchesInv, MatchInv, Counted, RepeatsAreExplained
<1> QED
  BY <1>1, InitMatches, StepMatches, PTL DEF Spec

-----------------------------------------------------------------------------
\* What the bot service publishes, while calls follow one another.

\* Calls that do not overlap: there is one, of the current generation, with the setting as
\* it is, and a bot that is alive polls, or this call stops it.
OneCall ==
  /\ \A c, d \in calls : c = d
  /\ calls # {} => binding = None
  /\ \A c \in calls : c.gen = gen /\ c.token = token
  /\ \A c \in calls : c.at = "reply" => c.value = stored
  /\ \A r \in bots : ~r.polling => \E c \in calls : c.at = "stopping" /\ c.bot = r.bot

ChannelShown ==
  calls = {} =>
    /\ (channel = "connected") <=> (transport # None)
    /\ (channel = "reconnecting") <=> (timer # None)

\* A setting that is written is the binding's until its answer has arrived.
StateShown ==
  token # None /\ (\A c \in calls : c.kind # "configure") =>
    /\ state \in {"degraded", StateFor(bound)}
    /\ IF binding # None /\ binding.written THEN stored = binding.chat ELSE bound = stored

ShownInv ==
  ~overlapped => OneCall /\ (~unsure => ChannelShown /\ StateShown)

shown == <<gen, token, transport, timer, bots, calls, bound, state, channel, binding, stored,
           unsure, overlapped>>

LEMMA NothingShown ==
  ASSUME ShownInv, UNCHANGED shown
  PROVE  ShownInv'
BY DEF ShownInv, OneCall, ChannelShown, StateShown, StateFor, shown

\* A lifecycle call begins.  If it overlaps nothing, it is the only one.
LEMMA BeginShown ==
  ASSUME LinkInv, RestTypes, ShownInv, NEW kind \in {"configure", "resume", "stop"},
         NEW t \in Token \cup {None}, Begin(kind, t), kind = "stop" => t = None,
         kind = "resume" => t = token,
         UNCHANGED <<bound, state, binding, stored>>
  PROVE  ShownInv'
<1> SUFFICES ASSUME ~overlapped' PROVE OneCall' /\ (~unsure' => ChannelShown' /\ StateShown')
  BY DEF ShownInv
<1> DEFINE new == [gen |-> gen + 1, token |-> t, kind |-> kind, at |-> "stopping",
                   bot |-> transport, value |-> None]
<1>1. ~overlapped /\ calls = {} /\ binding = None
  BY DEF Begin
<1>2. OneCall /\ (~unsure => StateShown)
  BY <1>1 DEF ShownInv
<1>3. calls' = {new} /\ binding' = None
  BY <1>1 DEF Begin
<1>4. gen' = gen + 1 /\ token' = t /\ transport' = None
  BY DEF Begin, StopTransport
<1>5. new.at = "stopping" /\ new.bot = transport /\ new.gen = gen + 1 /\ new.token = t
      /\ new.kind = kind
  OBVIOUS
<1>6. \A r \in bots' : r.bot = transport
  <2>1. ASSUME NEW r \in bots PROVE [r EXCEPT !.polling = @ /\ r.bot # transport].bot = transport
    <3>1. r \in Runner /\ r.bot = transport
      BY <1>1, <1>2 DEF OneCall, LinkInv, LinkTypes, OneConnection
    <3> QED
      BY <3>1 DEF Runner
  <2>2. bots' = {[r EXCEPT !.polling = @ /\ r.bot # transport] : r \in bots}
    BY DEF Begin, StopTransport
  <2> QED
    BY <2>1, <2>2
<1> HIDE DEF new
<1>7. OneCall'
  BY <1>3, <1>4, <1>5, <1>6 DEF OneCall
<1>8. ChannelShown'
  BY <1>3 DEF ChannelShown
<1>9. ASSUME ~unsure' PROVE StateShown'
  <2>1. CASE kind = "configure"
    BY <2>1, <1>3, <1>5 DEF StateShown
  <2>2. CASE kind = "stop"
    BY <2>2, <1>4 DEF StateShown
  <2>3. CASE kind = "resume"
    <3>1. ~unsure /\ token' = token
      BY <1>9, <1>4, <2>3 DEF Begin
    <3>2. token # None => state \in {"degraded", StateFor(bound)} /\ bound = stored
      BY <1>1, <1>2, <3>1 DEF StateShown
    <3> QED
      BY <1>3, <3>1, <3>2 DEF StateShown, StateFor
  <2> QED
    BY <2>1, <2>2, <2>3
<1> QED
  BY <1>7, <1>8, <1>9

\* A transport that starts, or cannot, says so.
LEMMA StartShown ==
  ASSUME NEW g \in Nat, NEW t \in Token, NEW running, StartTransport(g, t, running)
  PROVE  /\ (channel' = "connected") <=> (transport' # None)
         /\ channel' # "reconnecting"
         /\ \A r \in bots' : r \in running \/ r.polling
<1>1. [gen |-> g, token |-> t] # None
  BY DEF Bot
<1> QED
  BY <1>1 DEF StartTransport

\* A call goes on.
LEMMA ProceedShown ==
  ASSUME LinkInv, RestTypes, ShownInv, NEW c \in calls, Proceed(c)
  PROVE  ShownInv'
<1> SUFFICES ASSUME ~overlapped' PROVE OneCall' /\ (~unsure' => ChannelShown' /\ StateShown')
  BY DEF ShownInv
<1>1. ~overlapped
  BY DEF Proceed, ConfigureStopped, ResumeStopped, ServiceStopped, BindingRead, BindingReadFails,
         Configured, ghosts
<1>2. OneCall /\ (~unsure => StateShown)
  BY <1>1 DEF ShownInv
<1>3. calls = {c} /\ binding = None /\ c.gen = gen /\ c.token = token
  BY <1>2 DEF OneCall
<1>4. transport = None /\ timer = None /\ IsCurrent(c.gen, c.token)
  BY <1>3 DEF LinkInv, CallsStand, IsCurrent
<1>5. c \in Call /\ gen \in Nat /\ token \in Token \cup {None}
  BY DEF LinkInv, LinkTypes
<1>6. \A r \in bots : r.bot # None /\ c.at = "stopping" /\ c.bot = r.bot
  BY <1>2, <1>3, <1>4 DEF OneCall, LinkInv, LinkTypes, OneConnection, Runner, Bot
<1>7. c.at = "stopping" => bots \ RunnerOf(c.bot) = {}
  BY <1>6 DEF RunnerOf
<1>8. c.at # "stopping" => bots = {}
  BY <1>6
<1>9. c.kind = "resume" \/ c.at # "stopping" => token \in Token
  BY <1>3, <1>5 DEF LinkInv, CallsStand
<1>10. CASE ConfigureStopped(c)
  <2>1. /\ bots' = {} /\ UNCHANGED <<gen, token, transport, timer, binding, stored, unsure>>
    BY <1>7, <1>10 DEF ConfigureStopped, Stopped, ghosts
  <2>2. CASE calls' = calls \ {c} /\ c.token = None /\ channel' = "disconnected"
    <3>1. calls' = {}
      BY <1>3, <2>2
    <3>2. OneCall'
      BY <2>1, <3>1 DEF OneCall
    <3>3. ChannelShown' /\ StateShown'
      BY <1>3, <1>4, <2>1, <2>2 DEF ChannelShown, StateShown
    <3> QED
      BY <3>2, <3>3
  <2>3. CASE calls' = (calls \ {c}) \cup {[c EXCEPT !.at = "read", !.bot = None]}
    <3> DEFINE d == [c EXCEPT !.at = "read", !.bot = None]
    <3>1. d.at = "read" /\ d.gen = c.gen /\ d.token = c.token /\ d.kind = "configure"
      BY <1>5, <1>10 DEF Call, ConfigureStopped
    <3>2. calls' = {d}
      BY <1>3, <2>3
    <3> HIDE DEF d
    <3>3. OneCall'
      BY <1>3, <2>1, <3>1, <3>2 DEF OneCall
    <3>4. ChannelShown' /\ StateShown'
      BY <3>1, <3>2 DEF ChannelShown, StateShown
    <3> QED
      BY <3>3, <3>4
  <2> QED
    BY <1>4, <1>10, <2>2, <2>3 DEF ConfigureStopped
<1>11. CASE ResumeStopped(c)
  <2>1. /\ StartTransport(gen, token, {}) /\ calls' = {}
        /\ UNCHANGED <<gen, token, timer, bound, state, binding, stored, unsure>>
    BY <1>3, <1>4, <1>7, <1>11 DEF ResumeStopped, ghosts
  <2>2. token \in Token /\ c.kind = "resume"
    BY <1>9, <1>11 DEF ResumeStopped
  <2>3. /\ (channel' = "connected") <=> (transport' # None)
        /\ channel' # "reconnecting"
        /\ \A r \in bots' : r.polling
    BY <1>5, <2>1, <2>2, StartShown
  <2>4. OneCall'
    BY <2>1, <2>3 DEF OneCall
  <2>5. ChannelShown'
    BY <1>4, <2>1, <2>3 DEF ChannelShown
  <2>6. ~unsure' => StateShown'
    BY <1>2, <1>3, <2>1, <2>2 DEF StateShown, StateFor
  <2> QED
    BY <2>4, <2>5, <2>6
<1>12. CASE ServiceStopped(c)
  <2>1. /\ calls' = {} /\ bots' = {} /\ channel' = "disconnected" /\ c.kind = "stop"
        /\ UNCHANGED <<gen, token, transport, timer, bound, state, binding, stored, unsure>>
    BY <1>3, <1>7, <1>12 DEF ServiceStopped, Stopped, ghosts
  <2>2. OneCall'
    BY <2>1 DEF OneCall
  <2>3. ChannelShown'
    BY <1>4, <2>1 DEF ChannelShown
  <2>4. ~unsure' => StateShown'
    BY <1>2, <1>3, <2>1 DEF StateShown, StateFor
  <2> QED
    BY <2>2, <2>3, <2>4
<1>13. CASE BindingRead(c)
  <2> DEFINE d == [c EXCEPT !.at = "reply", !.value = stored]
  <2>1. d.at = "reply" /\ d.gen = c.gen /\ d.token = c.token /\ d.kind = c.kind /\ d.value = stored
    BY <1>5 DEF Call
  <2>2. calls' = {d}
    BY <1>3, <1>13 DEF BindingRead
  <2> HIDE DEF d
  <2>3. /\ bots' = {}
        /\ UNCHANGED <<gen, token, transport, timer, bound, state, binding, stored, unsure>>
    BY <1>8, <1>13 DEF BindingRead, serviceVars, ghosts
  <2>4. OneCall'
    BY <1>3, <2>1, <2>2, <2>3 DEF OneCall
  <2>5. ChannelShown'
    BY <2>2 DEF ChannelShown
  <2>6. ~unsure' => StateShown'
    BY <1>2, <1>3, <2>1, <2>2, <2>3 DEF StateShown, StateFor
  <2> QED
    BY <2>4, <2>5, <2>6
<1>14. CASE BindingReadFails(c)
  <2>1. unsure' /\ calls' = {} /\ bots' = {}
    BY <1>3, <1>4, <1>8, <1>14 DEF BindingReadFails
  <2> QED
    BY <2>1 DEF OneCall
<1>15. CASE Configured(c)
  <2>1. /\ StartTransport(gen, token, {}) /\ calls' = {} /\ bound' = c.value
        /\ state' = StateFor(c.value)
        /\ UNCHANGED <<gen, token, timer, binding, stored, unsure>>
    BY <1>3, <1>4, <1>8, <1>15 DEF Configured, ghosts
  <2>2. token \in Token /\ c.value = stored
    BY <1>2, <1>9, <1>15 DEF Configured, OneCall
  <2>3. /\ (channel' = "connected") <=> (transport' # None)
        /\ channel' # "reconnecting"
        /\ \A r \in bots' : r.polling
    BY <1>5, <2>1, <2>2, StartShown
  <2>4. OneCall'
    BY <2>1, <2>3 DEF OneCall
  <2>5. ChannelShown'
    BY <1>4, <2>1, <2>3 DEF ChannelShown
  <2>6. StateShown'
    BY <1>3, <2>1, <2>2 DEF StateShown, StateFor
  <2> QED
    BY <2>4, <2>5, <2>6
<1> QED
  BY <1>10, <1>11, <1>12, <1>13, <1>14, <1>15 DEF Proceed

-----------------------------------------------------------------------------
\* Polling fails, a timer fires, a message or an answer arrives.

LEMMA EventShown ==
  ASSUME LinkInv, RestTypes, ShownInv, ServiceStep, ~\E c \in calls : Proceed(c)
  PROVE  ShownInv'
<1> SUFFICES ASSUME ~overlapped' PROVE OneCall' /\ (~unsure' => ChannelShown' /\ StateShown')
  BY DEF ShownInv
<1>1. ASSUME NEW r \in bots, PollingFails(r)
      PROVE  OneCall' /\ (~unsure' => ChannelShown' /\ StateShown')
  <2>1. OneCall /\ (~unsure => StateShown) /\ unsure' = unsure
    BY <1>1 DEF PollingFails, ghosts, ShownInv
  <2>2. r.bot = transport /\ r.bot \in Bot /\ r.bot # None
    BY <1>1 DEF PollingFails, LinkInv, LinkTypes, OneConnection, Runner, Bot
  <2>3. transport = [gen |-> gen, token |-> token]
    BY <2>2 DEF LinkInv, OneConnection
  <2>4. calls = {}
    BY <2>1, <2>2 DEF OneCall, LinkInv, CallsStand
  <2>5. /\ transport' = None /\ timer' = r.bot /\ channel' = "reconnecting"
        /\ bots' = bots \ {r} /\ calls' = {}
        /\ UNCHANGED <<gen, token, bound, state, binding, stored>>
    BY <1>1, <2>2, <2>3, <2>4 DEF PollingFails, ScheduleReconnect, IsCurrent
  <2>6. \A q \in bots : q.polling /\ q.bot = r.bot
    BY <2>1, <2>2, <2>4 DEF OneCall, LinkInv, OneConnection
  <2>7. OneCall'
    BY <2>1, <2>4, <2>5, <2>6 DEF OneCall
  <2>8. ChannelShown'
    BY <2>2, <2>5 DEF ChannelShown
  <2>9. ~unsure' => StateShown'
    BY <2>1, <2>4, <2>5 DEF StateShown, StateFor
  <2> QED
    BY <2>7, <2>8, <2>9
<1>2. CASE Reconnect
  <2>1. OneCall /\ (~unsure => StateShown) /\ unsure' = unsure
    BY <1>2 DEF Reconnect, ghosts, ShownInv
  <2>2. /\ timer # None /\ transport = None
        /\ timer = [gen |-> gen, token |-> token] /\ timer \in Bot
    BY <1>2 DEF Reconnect, LinkInv, LinkTypes, OneConnection
  <2>3. token \in Token /\ gen \in Nat /\ timer.gen = gen /\ timer.token = token
    BY <2>2 DEF Bot
  <2>4. calls = {}
    BY <2>1, <2>2 DEF OneCall, LinkInv, CallsStand
  <2>5. /\ StartTransport(gen, token, bots) /\ timer' = None /\ calls' = {}
        /\ UNCHANGED <<gen, token, bound, state, binding, stored>>
    BY <1>2, <2>3, <2>4 DEF Reconnect, IsCurrent
  <2>6. /\ (channel' = "connected") <=> (transport' # None)
        /\ channel' # "reconnecting"
        /\ \A r \in bots' : r \in bots \/ r.polling
    BY <2>3, <2>5, StartShown
  <2>7. bots = {}
    BY <2>1, <2>2, <2>4 DEF OneCall, LinkInv, LinkTypes, OneConnection, Runner, Bot
  <2> QED
    BY <2>1, <2>4, <2>5, <2>6, <2>7 DEF OneCall, ChannelShown, StateShown, StateFor
<1>3. ASSUME NEW r \in bots, NEW chat \in Chat, Message(r, chat)
      PROVE  OneCall' /\ (~unsure' => ChannelShown' /\ StateShown')
  <2>1. OneCall /\ (~unsure => ChannelShown /\ StateShown)
    BY <1>3 DEF Message, ghosts, ShownInv
  <2>2. /\ channel' = "connected"
        /\ UNCHANGED <<gen, token, transport, timer, bound, state, bots, calls, binding, stored,
                       unsure>>
    BY <1>3 DEF Message, ghosts
  <2>3. OneCall' /\ (~unsure' => StateShown')
    BY <2>1, <2>2 DEF OneCall, StateShown, StateFor
  <2>4. ChannelShown'
    <3>1. calls = {} => r.bot = transport /\ r.bot # None
      BY <2>1 DEF OneCall, LinkInv, LinkTypes, OneConnection, Runner, Bot
    <3> QED
      BY <2>2, <3>1 DEF ChannelShown, LinkInv, OneConnection
  <2> QED
    BY <2>3, <2>4
<1>4. ASSUME NEW bot \in acking, Acknowledged(bot)
      PROVE  OneCall' /\ (~unsure' => ChannelShown' /\ StateShown')
  <2>1. /\ OneCall /\ (~unsure => ChannelShown /\ StateShown)
        /\ state' \in {"degraded", state}
        /\ UNCHANGED <<gen, token, transport, timer, bound, channel, bots, calls, binding, stored,
                       unsure>>
    BY <1>4 DEF Acknowledged, ghosts, ShownInv
  <2> QED
    BY <2>1 DEF OneCall, ChannelShown, StateShown, StateFor
<1>5. CASE BindingWritten
  <2>1. /\ OneCall /\ (~unsure => ChannelShown /\ StateShown)
        /\ UNCHANGED <<gen, token, transport, timer, bound, state, channel, bots, calls, unsure>>
    BY <1>5 DEF BindingWritten, serviceVars, ghosts, ShownInv
  <2>2. binding # None /\ calls = {}
    BY <1>5, <2>1 DEF BindingWritten, OneCall
  <2>3. binding' # None /\ binding'.written /\ stored' = binding'.chat
    BY <1>5, <2>2, NoneIsNoBinding DEF BindingWritten, RestTypes
  <2> QED
    BY <2>1, <2>2, <2>3 DEF OneCall, ChannelShown, StateShown, StateFor
<1>6. CASE BindingFails
  <2>1. /\ OneCall /\ (~unsure => ChannelShown /\ StateShown)
        /\ binding # None /\ binding' = None
        /\ ~unsure' => ~unsure /\ ~binding.written
        /\ UNCHANGED <<gen, token, transport, timer, bound, state, channel, bots, calls, stored>>
    BY <1>6 DEF BindingFails, serviceVars, ShownInv
  <2>2. OneCall' /\ (~unsure' => ChannelShown')
    BY <2>1 DEF OneCall, ChannelShown
  <2>3. ~unsure' => StateShown'
    BY <2>1 DEF StateShown, StateFor
  <2> QED
    BY <2>2, <2>3
<1>7. CASE Bound
  <2>1. /\ OneCall /\ (~unsure => ChannelShown /\ StateShown)
        /\ binding # None /\ binding.written /\ binding' = None
        /\ bound' = binding.chat /\ state' = "ready"
        /\ UNCHANGED <<gen, token, transport, timer, channel, bots, calls, stored, unsure>>
    BY <1>7 DEF Bound, ghosts, ShownInv
  <2>2. binding.chat # None
    BY <2>1 DEF RestTypes
  <2> QED
    BY <2>1, <2>2 DEF OneCall, ChannelShown, StateShown, StateFor
<1> QED
  BY <1>1, <1>2, <1>3, <1>4, <1>5, <1>6, <1>7 DEF ServiceStep

-----------------------------------------------------------------------------
\* All steps.

LEMMA LifecycleShown ==
  ASSUME LinkInv, RestTypes, ShownInv, NEW t \in Token \cup {None},
         Configure(t) \/ Resume \/ Stop
  PROVE  ShownInv'
<1>1. CASE Configure(t)
  BY <1>1, BeginShown DEF Configure
<1>2. CASE Stop
  BY <1>2, BeginShown DEF Stop
<1>3. CASE Resume /\ token # None
  <2>1. Begin("resume", token) /\ UNCHANGED <<bound, state, binding, stored>>
    BY <1>3 DEF Resume
  <2> QED
    BY <2>1, BeginShown DEF LinkInv, LinkTypes
<1>4. CASE Resume /\ token = None
  <2>1. /\ channel' = "disconnected"
        /\ UNCHANGED <<gen, token, transport, timer, bots, calls, bound, state, binding, stored,
                       unsure, overlapped>>
    BY <1>4 DEF Resume, ghosts
  <2>2. transport = None /\ timer = None
    BY <1>4 DEF LinkInv, LinkTypes, OneConnection, Bot
  <2> QED
    BY <1>4, <2>1, <2>2 DEF ShownInv, OneCall, ChannelShown, StateShown
<1> QED
  BY <1>1, <1>2, <1>3, <1>4

LEMMA InitShown == Init => ShownInv
BY DEF Init, ServiceIsNew, ShownInv, OneCall, ChannelShown, StateShown

LEMMA StepShown == TypeInv /\ ShownInv /\ [Next]_vars => ShownInv'
<1> SUFFICES ASSUME TypeInv, ShownInv, [Next]_vars PROVE ShownInv'
  OBVIOUS
<1> USE DEF TypeInv
<1>1. CASE UNCHANGED vars
  BY <1>1, NothingShown DEF vars, botVars, untroubled, serviceVars, ghosts, shown
<1>2. CASE ServiceStep
  BY <1>2, ProceedShown, EventShown
<1>3. CASE OutboxStep
  <2>1. UNCHANGED untroubled
    BY <1>3, OutboxLeavesBot
  <2> QED
    BY <2>1, NothingShown DEF untroubled, serviceVars, ghosts, shown
<1>4. CASE ReadyIsAnswered \/ WakeUp \/ Drained \/ \E t \in Token : SaveToken(t)
  <2>1. \E t \in Token \cup {None} : Configure(t) \/ Resume \/ Stop
    BY <1>4 DEF ReadyIsAnswered, WakeUp, Drained, SaveToken, WorldTypes
  <2> QED
    BY <2>1, LifecycleShown
<1>5. CASE SetArchived \/ Shutdown \/ Launch
  BY <1>5, NothingShown DEF SetArchived, Shutdown, Launch, botVars, untroubled, serviceVars,
                            ghosts, shown
<1>6. ASSUME NEW chat \in Chat, AskToBind(chat) PROVE ShownInv'
  <2>1. /\ binding = None /\ binding' = [chat |-> chat, written |-> FALSE]
        /\ overlapped' = (overlapped \/ calls # {})
        /\ UNCHANGED <<gen, token, transport, timer, bots, calls, bound, state, channel, stored,
                       unsure>>
    BY <1>6 DEF AskToBind, BindCandidate, serviceVars
  <2>2. binding'.written = FALSE
    BY <2>1
  <2> QED
    BY <2>1, <2>2 DEF ShownInv, OneCall, ChannelShown, StateShown, StateFor
<1>7. CASE Exit \/ Crash
  <2>1. ServiceIsReset
    BY <1>7 DEF Exit, Crash, Gone
  <2> QED
    BY <2>1 DEF ServiceIsReset, ShownInv, OneCall, ChannelShown, StateShown
<1> QED
  BY <1>1, <1>2, <1>3, <1>4, <1>5, <1>6, <1>7 DEF Next

\* As long as lifecycle calls do not overlap and the setting could be read, a service at
\* rest has published its connection, its binding and the setting as they are, whatever
\* failed, reconnected, was bound or resumed before (configure, resume, bindCandidate and
\* the handlers of the bot service).
THEOREM WhatIsShownIsTrue == Spec => []ShownIsTrue
<1>1. ShownInv => ShownIsTrue
  BY DEF ShownInv, ChannelShown, StateShown, StateFor, ShownIsTrue, AtRest
<1>2. TypeInv /\ ShownInv /\ [Next]_vars => (TypeInv /\ ShownInv)'
  BY StepInv, StepShown
<1> QED
  BY <1>1, <1>2, InitInv, InitShown, PTL DEF Spec

-----------------------------------------------------------------------------
\* Why a job is completed.

\* A chat that is known anywhere, or that a job is for, has been stored: nothing removes a
\* binding.
Recorded ==
  /\ bound # None \/ deliveries # {} => stored # None
  /\ \A c \in calls : c.value # None => stored # None
  /\ binding # None /\ binding.written => stored # None
  /\ \A m \in Match : job[m] # "none" => stored # None

NeverUnbound == \A m \in Match : "unbound" \notin reasons[m]

LEMMA NothingRecorded ==
  ASSUME Recorded, UNCHANGED <<bound, deliveries, stored, calls, binding, job>>
  PROVE  Recorded'
BY DEF Recorded

\* The service neither forgets a binding that is stored nor makes one up.
LEMMA ServiceRecords ==
  ASSUME LinkInv, RestTypes, Recorded, ServiceStep, UNCHANGED <<deliveries, job>>
  PROVE  Recorded'
<1>1. ASSUME NEW c \in calls, Proceed(c) PROVE Recorded'
  <2>1. CASE ConfigureStopped(c)
    <3>1. \A e \in calls' : e \in calls \/ e = [c EXCEPT !.at = "read", !.bot = None]
      BY <2>1 DEF ConfigureStopped
    <3>2. c \in Call
      BY DEF RestTypes, LinkInv, LinkTypes
    <3>3. \A e \in calls' : e.value # None => stored # None
      BY <3>1, <3>2 DEF Recorded, Call
    <3> QED
      BY <2>1, <3>3 DEF ConfigureStopped, Recorded
  <2>2. CASE ResumeStopped(c) \/ ServiceStopped(c)
    BY <2>2 DEF ResumeStopped, ServiceStopped, Recorded
  <2>3. CASE BindingRead(c)
    <3>1. \A e \in calls' : e \in calls \/ e = [c EXCEPT !.at = "reply", !.value = stored]
      BY <2>3 DEF BindingRead
    <3>2. c \in Call
      BY DEF RestTypes, LinkInv, LinkTypes
    <3>3. \A e \in calls' : e.value # None => stored # None
      BY <3>1, <3>2 DEF Recorded, Call
    <3> QED
      BY <2>3, <3>3 DEF BindingRead, serviceVars, Recorded
  <2>4. CASE BindingReadFails(c)
    BY <2>4 DEF BindingReadFails, serviceVars, Recorded
  <2>5. CASE Configured(c)
    BY <2>5 DEF Configured, Recorded
  <2> QED
    BY <1>1, <2>1, <2>2, <2>3, <2>4, <2>5 DEF Proceed
<1>2. CASE BindingWritten
  BY <1>2, NoneIsNoBinding DEF BindingWritten, serviceVars, RestTypes, Recorded
<1>3. CASE BindingFails \/ Bound
  BY <1>3 DEF BindingFails, Bound, serviceVars, Recorded
<1>4. ASSUME NEW r \in bots, PollingFails(r) \/ \E chat \in Chat : Message(r, chat)
      PROVE  Recorded'
  BY <1>4 DEF PollingFails, Message, Recorded
<1>5. CASE Reconnect \/ \E bot \in acking : Acknowledged(bot)
  BY <1>5 DEF Reconnect, Acknowledged, Recorded
<1> QED
  BY <1>1, <1>2, <1>3, <1>4, <1>5 DEF ServiceStep

LEMMA LifecycleRecords ==
  ASSUME Recorded, NEW kind, NEW t, Begin(kind, t),
         UNCHANGED <<bound, deliveries, stored, binding, job>>
  PROVE  Recorded'
<1>1. \A c \in calls' : c \in calls \/ c.value = None
  BY DEF Begin
<1> QED
  BY <1>1 DEF Recorded

LEMMA OutboxRecords ==
  ASSUME OutboxTypes, Recorded, OutboxStep, UNCHANGED <<bound, stored, calls, binding>>
  PROVE  Recorded'
<1>1. ASSUME NEW m \in Match, Enqueue(m) \/ Fetch(m) \/ Expire(m) PROVE Recorded'
  <2>1. stored # None
    BY <1>1 DEF Enqueue, Fetch, Expire, Recorded
  <2> QED
    BY <2>1 DEF Recorded
<1>2. ASSUME NEW d \in deliveries, Deliver(d) PROVE Recorded'
  <2>1. stored # None
    BY <1>2 DEF Recorded
  <2> QED
    BY <2>1 DEF Recorded
<1> QED
  BY <1>1, <1>2 DEF OutboxStep

LEMMA InitRecorded == Init => Recorded /\ NeverUnbound
BY DEF Init, ServiceIsNew, Recorded, NeverUnbound

LEMMA StepRecorded ==
  ASSUME TypeInv, Recorded, [Next]_vars
  PROVE  Recorded'
<1> USE DEF TypeInv
<1>1. CASE UNCHANGED vars
  BY <1>1, NothingRecorded DEF vars, botVars, untroubled, serviceVars, outboxVars, queue
<1>2. CASE ServiceStep /\ UNCHANGED outboxVars
  BY <1>2, ServiceRecords DEF outboxVars, queue
<1>3. CASE OutboxStep
  <2>1. UNCHANGED untroubled
    BY <1>3, OutboxLeavesBot
  <2> QED
    BY <1>3, <2>1, OutboxRecords DEF untroubled, serviceVars
<1>4. CASE ReadyIsAnswered \/ WakeUp \/ Drained \/ \E t \in Token : SaveToken(t)
  <2>1. UNCHANGED <<bound, deliveries, stored, binding, job>>
    BY <1>4 DEF ReadyIsAnswered, WakeUp, Drained, SaveToken, Configure, Resume, Stop,
                outboxVars, queue
  <2>2. UNCHANGED calls \/ \E kind, t : Begin(kind, t)
    BY <1>4 DEF ReadyIsAnswered, WakeUp, Drained, SaveToken, Configure, Resume, Stop
  <2> QED
    BY <2>1, <2>2, LifecycleRecords, NothingRecorded
<1>5. CASE SetArchived \/ Shutdown \/ Launch
  BY <1>5, NothingRecorded DEF SetArchived, Shutdown, Launch, botVars, untroubled,
                               serviceVars, outboxVars, queue
<1>6. ASSUME NEW chat \in Chat, AskToBind(chat) PROVE Recorded'
  <2>1. /\ binding' = [chat |-> chat, written |-> FALSE]
        /\ UNCHANGED <<bound, deliveries, stored, calls, job>>
    BY <1>6 DEF AskToBind, BindCandidate, serviceVars, outboxVars, queue
  <2>2. ~binding'.written
    BY <2>1
  <2> QED
    BY <2>1, <2>2 DEF Recorded
<1>7. CASE Exit \/ Crash
  BY <1>7 DEF Exit, Crash, Gone, ServiceIsReset, queue, Recorded
<1> QED
  BY <1>1, <1>2, <1>3, <1>4, <1>5, <1>6, <1>7 DEF Next

\* A service that is not in doubt has the binding that is stored, so it knows one.
LEMMA NoneIsDoubted ==
  ASSUME ShownInv, stored # None
  PROVE  NotBoundTo # "unbound"
<1>1. ASSUME ~InDoubt PROVE bound = stored
  <2>1. token # None /\ calls = {} /\ binding = None /\ ~unsure /\ ~overlapped
    BY <1>1 DEF InDoubt
  <2> QED
    BY <2>1 DEF ShownInv, StateShown
<1> QED
  BY <1>1 DEF NotBoundTo

LEMMA StepNeverUnbound ==
  ASSUME TypeInv, ShownInv, Recorded, NeverUnbound, [Next]_vars
  PROVE  NeverUnbound'
<1> SUFFICES ASSUME NEW m \in Match PROVE "unbound" \notin reasons'[m]
  BY DEF NeverUnbound
<1>1. reasons \in [Match -> SUBSET Reason] /\ "unbound" \notin reasons[m]
  BY DEF TypeInv, OutboxTypes, CountTypes, NeverUnbound
<1>2. CASE UNCHANGED reasons
  BY <1>1, <1>2
<1>3. ASSUME NEW d \in deliveries, NEW reason, GiveUp(d, reason), reason # "unbound"
      PROVE  "unbound" \notin reasons'[m]
  BY <1>1, <1>3 DEF GiveUp
<1>4. ASSUME NEW d \in deliveries, Deliver(d)
      PROVE  "unbound" \notin reasons'[m]
  <2>1. stored # None
    BY DEF Recorded
  <2>2. NotBoundTo # "unbound"
    BY <2>1, NoneIsDoubted
  <2>3. \/ UNCHANGED reasons
        \/ GiveUp(d, "archived") \/ GiveUp(d, NotBoundTo) \/ GiveUp(d, "refused")
    BY <1>4 DEF Deliver, Look, Check, Peek, MarkSending, Send, Answer, MarkNotified,
                DatabaseFails, history
  <2> QED
    BY <1>2, <1>3, <2>2, <2>3
<1>5. UNCHANGED reasons \/ \E d \in deliveries : Deliver(d)
  <2>1. CASE UNCHANGED outboxVars
    BY <2>1 DEF outboxVars, history
  <2>2. CASE Gone
    BY <2>2 DEF Gone, history
  <2>3. CASE OutboxStep
    BY <2>3 DEF OutboxStep, Enqueue, Fetch, Expire, history
  <2>4. UNCHANGED outboxVars \/ Gone \/ OutboxStep
    BY DEF Next, ReadyIsAnswered, WakeUp, SetArchived, Shutdown, Drained, Exit, Crash,
           Launch, SaveToken, AskToBind, vars
  <2> QED
    BY <2>1, <2>2, <2>3, <2>4
<1> QED
  BY <1>2, <1>4, <1>5

\* A job is completed only when its match was notified, its monitor archived, its message
\* refused, another chat bound, or the service in doubt about its binding: token not there
\* yet, a call under way, calls that overlapped, a setting that could not be read.  That is
\* the one passing condition the code takes for final (TelegramBotService.sendMessage); a
\* service at rest knows the binding of every job, and whatever else may pass is left to a
\* retry, until the last one (the handler's rejections).
THEOREM CompletedIsHandled == Spec => []DoneMeansHandled
<1> DEFINE Inv == MatchesInv /\ ShownInv /\ Recorded /\ NeverUnbound
<1>1. Init => Inv
  BY InitMatches, InitShown, InitRecorded
<1>2. Inv /\ [Next]_vars => Inv'
  BY StepMatches, StepShown, StepRecorded, StepNeverUnbound DEF MatchesInv
<1>3. Inv => DoneMeansHandled
  <2> SUFFICES ASSUME Inv, NEW m \in Match
               PROVE  /\ job[m] = "completed" =>
                           \/ notified[m]
                           \/ reasons[m] \cap {"archived", "elsewhere", "refused", "early"} # {}
                      /\ job[m] = "failed" => tries[m] = RetryLimit + 1
                      /\ "unbound" \notin reasons[m]
    BY DEF DoneMeansHandled
  <2>1. reasons[m] \subseteq Reason /\ tries[m] \in 0..RetryLimit + 1
    BY DEF MatchesInv, TypeInv, OutboxTypes, CountTypes, JobTypes
  <2>2. Handled(m) /\ "unbound" \notin reasons[m]
    BY DEF MatchesInv, MatchInv, NeverUnbound
  <2>3. RetryLimit \in Nat
    BY LimitsAreNaturals
  <2> QED
    BY <2>1, <2>2, <2>3 DEF Handled, Reason
<1> QED
  BY <1>1, <1>2, <1>3, PTL DEF Spec
=============================================================================
