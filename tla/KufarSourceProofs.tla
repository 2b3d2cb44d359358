--------------------------- MODULE KufarSourceProofs ---------------------------
(***************************************************************************)
(* What KufarSource guarantees for any number of runs and listings, any    *)
(* limits of the client and the queue, and any number of failures: types,  *)
(* one request for a description, and the pace of the requests.            *)
(***************************************************************************)
EXTENDS KufarSource, FiniteSetTheorems, TLAPS

USE LimitsAreNatural, NoneIsNothing

Label == {"idle", "retry", "page", "html", "mark", "describe", "shared", "lookup",
          "detail", "store", "store gone"}
Loading == {"lookup", "detail", "store", "store gone"}
Calling == {"page", "html", "detail"}
Stages == {"none", "queued", "turn", "flight", "backoff", "answered"}
Call == [stage : Stages, attempt : 0..MaxAttempts, answer : Answer \cup {None}]

\* A job can be sent as often as tries says, and a call repeated as its attempt says.
Left ==
  \A r \in Run :
    /\ pc[r] = "idle" => tries[r] = 0
    /\ pc[r] = "retry" => tries[r] <= RetryLimit
    /\ call[r].stage = "backoff" => call[r].attempt < MaxAttempts
TypeInv == TypeOK /\ Left

\* The chain has the calls that are queued, have their turn, or are under way, once each;
\* only the first one goes on.
Queued(r) == call[r].stage \in {"queued", "turn", "flight"}
Queue ==
  /\ \A r \in Run :
       /\ Queued(r) <=> \E i \in 1..Len(queue) : queue[i] = r
       /\ call[r].stage \in {"turn", "flight"} => queue # <<>> /\ queue[1] = r
       /\ call[r].stage = "turn" => delay >= MinInterval
       /\ pc[r] \notin Calling => call[r].stage = "none"
  /\ \A i, j \in 1..Len(queue) : queue[i] = queue[j] => i = j
  /\ quiet <= cooldown

\* Who loads the description of a listing, and for whom.
Fills ==
  /\ \A r \in Run :
       /\ about[r] # None <=> pc[r] \in Loading \cup {"shared"}
       /\ pc[r] \in Loading => filler[about[r]] = r
       /\ pc[r] \in Loading \ {"lookup"} => stored[about[r]] = "no"
  /\ \A l \in Listing :
       filler[l] # None => about[filler[l]] = l /\ pc[filler[l]] \in Loading

-----------------------------------------------------------------------------
\* Types.

LEMMA InitTypes == Init => TypeInv
<1> SUFFICES ASSUME Init PROVE TypeInv
  OBVIOUS
<1>1. NoCall \in Call
  BY DEF NoCall, Call, Stages
<1>2. MaxDelay \in 0..MaxDelay /\ 0 \in 0..MaxDelay
  BY DEF MaxDelay
<1>3. call \in [Run -> Call] /\ \A r \in Run : call[r].stage = "none"
  BY <1>1 DEF Init, NoCall
<1>4. pc \in [Run -> Label] /\ tries \in [Run -> 0..RetryLimit + 1] /\ spent \in [Run -> 0..DescriptionLimit]
  BY DEF Init, Label
<1>5. TypeOK
  BY <1>2, <1>3, <1>4 DEF Init, TypeOK, Label, Call, Stages
<1>6. Left
  BY <1>3 DEF Init, Left
<1> QED
  BY <1>5, <1>6 DEF TypeInv

LEMMA GetTypes ==
  ASSUME TypeInv, NEW r \in Run, Get(r)
  PROVE  /\ call' \in [Run -> Call]
         /\ queue' \in Seq(Run)
         /\ \A q \in Run : call'[q].stage = "backoff" => call'[q].attempt < MaxAttempts
         /\ UNCHANGED <<delay, since, cooldown, quiet>>
<1>1. [stage |-> "queued", attempt |-> 1, answer |-> None] \in Call
  BY DEF Call, Stages
<1>2. call \in [Run -> Call] /\ queue \in Seq(Run)
  BY DEF TypeInv, TypeOK, Call, Stages
<1>3. Append(queue, r) \in Seq(Run)
  BY <1>2
<1> QED
  BY <1>1, <1>2, <1>3 DEF Get, Schedule, TypeInv, Left

LEMMA HangupTypes ==
  ASSUME TypeInv, NEW r \in Run, Hangup(r)
  PROVE  /\ call' \in [Run -> Call]
         /\ \A q \in Run : call'[q].stage = "backoff" => call'[q].attempt < MaxAttempts
         /\ UNCHANGED limiter
<1>1. NoCall \in Call /\ NoCall.stage = "none"
  BY DEF NoCall, Call, Stages
<1>2. call \in [Run -> Call]
  BY DEF TypeInv, TypeOK, Call, Stages
<1> QED
  BY <1>1, <1>2 DEF Hangup, TypeInv, Left

\* What a job is afterwards, in types.
JobTypes ==
  /\ pc \in [Run -> Label] /\ tries \in [Run -> 0..RetryLimit + 1]
  /\ todo \in [Run -> SUBSET Listing] /\ about \in [Run -> Listing \cup {None}]
  /\ spent \in [Run -> 0..DescriptionLimit]
  /\ degraded \subseteq Run
  /\ \A r \in Run : (pc[r] = "idle" => tries[r] = 0) /\ (pc[r] = "retry" => tries[r] <= RetryLimit)
CallTypes ==
  /\ call \in [Run -> Call]
  /\ \A r \in Run : call[r].stage = "backoff" => call[r].attempt < MaxAttempts
LimiterTypes ==
  /\ queue \in Seq(Run)
  /\ delay \in 0..MaxDelay /\ since \in 0..MaxDelay
  /\ cooldown \in 0..MaxCooldown /\ quiet \in 0..MaxCooldown
CacheTypes ==
  /\ filler \in [Listing -> Run \cup {None}]
  /\ stored \in [Listing -> {"no", "known", "gone"}]

LEMMA TypesByParts ==
  TypeInv <=> JobTypes /\ CallTypes /\ LimiterTypes /\ CacheTypes /\ trouble \in 0..MaxTrouble
BY DEF TypeInv, TypeOK, Left, JobTypes, CallTypes, LimiterTypes, CacheTypes, Label, Call, Stages

LEMMA TypesNext ==
  ASSUME JobTypes', CallTypes', LimiterTypes', CacheTypes', trouble' \in 0..MaxTrouble
  PROVE  TypeInv'
BY DEF TypeInv, TypeOK, Left, JobTypes, CallTypes, LimiterTypes, CacheTypes, Label, Call, Stages

LEMMA HurtTypes == trouble \in 0..MaxTrouble /\ Hurt => trouble' \in 0..MaxTrouble
BY DEF Hurt, MayFail

LEMMA EndsTypes ==
  ASSUME JobTypes, NEW R \in SUBSET Run, NEW retried \in BOOLEAN, Ends(R, retried)
  PROVE  JobTypes'
<1> USE DEF JobTypes
<1>1. \A r \in R : pc'[r] \in {"retry", "idle"} /\ (pc'[r] = "retry" => tries[r] <= RetryLimit)
  BY DEF Ends, SentAgain
<1>2. pc' \in [Run -> Label]
  BY <1>1 DEF Ends, Label
<1>3. tries' \in [Run -> 0..RetryLimit + 1]
  BY DEF Ends
<1>4. /\ todo' \in [Run -> SUBSET Listing] /\ about' \in [Run -> Listing \cup {None}]
      /\ spent' \in [Run -> 0..DescriptionLimit] /\ degraded' \subseteq Run
  BY DEF Ends
<1>5. \A r \in Run : (pc'[r] = "idle" => tries'[r] = 0) /\ (pc'[r] = "retry" => tries'[r] <= RetryLimit)
  BY <1>1 DEF Ends
<1> QED
  BY <1>2, <1>3, <1>4, <1>5

LEMMA DescribedTypes ==
  ASSUME JobTypes, NEW l, Described(l)
  PROVE  JobTypes'
BY DEF JobTypes, Described, Label

LEMMA ForgetTypes ==
  ASSUME CacheTypes, NEW l, ForgetFill(l)
  PROVE  filler' \in [Listing -> Run \cup {None}]
BY DEF CacheTypes, ForgetFill


\* A step of a job that does not end it.
LEMMA GoesOnTypes ==
  ASSUME JobTypes, NEW r \in Run, NEW step \in Label \ {"idle", "retry"},
         pc' = [pc EXCEPT ![r] = step], UNCHANGED tries,
         UNCHANGED todo \/ todo' = [todo EXCEPT ![r] = Listing],
         UNCHANGED about \/ \E l \in Listing : about' = [about EXCEPT ![r] = l],
         UNCHANGED spent,
         UNCHANGED degraded \/ degraded' = degraded \cup {r}
  PROVE  JobTypes'
<1> USE DEF JobTypes
<1>1. pc' \in [Run -> Label]
  OBVIOUS
<1>2. todo' \in [Run -> SUBSET Listing] /\ about' \in [Run -> Listing \cup {None}]
  OBVIOUS
<1> QED
  BY <1>1, <1>2

LEMMA LimiterStays == LimiterTypes /\ UNCHANGED limiter => LimiterTypes'
BY DEF LimiterTypes, limiter

LEMMA GetLimiter ==
  ASSUME TypeInv, NEW r \in Run, Get(r)
  PROVE  CallTypes' /\ LimiterTypes'
BY GetTypes, TypesByParts DEF CallTypes, LimiterTypes

LEMMA HangupLimiter ==
  ASSUME TypeInv, NEW r \in Run, Hangup(r)
  PROVE  CallTypes' /\ LimiterTypes'
BY HangupTypes, LimiterStays, TypesByParts DEF CallTypes

LEMMA RequestTypes ==
  ASSUME TypeInv, Queue, NEW r \in Run, Request(r)
  PROVE  TypeInv'
<1> SUFFICES JobTypes' /\ CallTypes' /\ LimiterTypes' /\ CacheTypes' /\ trouble' \in 0..MaxTrouble
  BY TypesNext
<1>0. JobTypes /\ CallTypes /\ LimiterTypes /\ CacheTypes /\ trouble \in 0..MaxTrouble
  BY TypesByParts
<1>1. JobTypes' /\ CacheTypes'
  BY <1>0 DEF Request, Take, Start, Respond, Repeat, job, cache, JobTypes, CacheTypes
<1>2. trouble' \in 0..MaxTrouble
  BY <1>0, HurtTypes DEF Request, Take, Start, Respond, Repeat
<1>3. CASE Take(r)
  <2>1. delay' \in 0..MaxDelay
    BY <1>3 DEF Take, MaxDelay
  <2>2. CallTypes'
    BY <1>0, <1>3 DEF Take, Stage, CallTypes, Call, Stages
  <2> QED
    BY <1>0, <1>1, <1>2, <1>3, <2>1, <2>2 DEF Take, LimiterTypes
<1>4. CASE Start(r)
  <2>1. since' \in 0..MaxDelay /\ delay' \in 0..MaxDelay
    BY <1>4 DEF Start, MaxDelay
  <2>2. CallTypes'
    BY <1>0, <1>4 DEF Start, Stage, CallTypes, Call, Stages
  <2> QED
    BY <1>0, <1>1, <1>2, <1>4, <2>1, <2>2 DEF Start, LimiterTypes
<1>5. CASE Respond(r)
  <2>1. PICK a \in HttpFailure \cup Body(r) :
          /\ call' = [call EXCEPT ![r].stage =
                        IF a \in Repeatable /\ call[r].attempt < MaxAttempts
                        THEN "backoff" ELSE "answered",
                                  ![r].answer = a]
          /\ IF a = "429"
             THEN \E asked \in 0..MaxRetryAfter :
                    /\ cooldown' = Maximum(cooldown, RetryAfter(asked))
                    /\ quiet' = Maximum(quiet, Minimum(asked, MaxCooldown))
             ELSE UNCHANGED <<cooldown, quiet>>
    BY <1>5 DEF Respond
  <2>2. a \in Answer
    BY DEF Answer, HttpFailure, Body
  <2>3. CallTypes'
    <3>1. PICK stage \in {"backoff", "answered"} :
            /\ call' = [call EXCEPT ![r].stage = stage, ![r].answer = a]
            /\ stage = "backoff" => call[r].attempt < MaxAttempts
      BY <2>1
    <3>2. [call[r] EXCEPT !.stage = stage, !.answer = a] \in Call
      BY <1>0, <2>2 DEF CallTypes, Call, Stages
    <3>3. call' = [call EXCEPT ![r] = [call[r] EXCEPT !.stage = stage, !.answer = a]]
      BY <1>0, <3>1 DEF CallTypes
    <3>4. [call[r] EXCEPT !.stage = stage, !.answer = a].stage = stage
      BY <1>0 DEF CallTypes, Call
    <3>5. [call[r] EXCEPT !.stage = stage, !.answer = a].attempt = call[r].attempt
      BY <1>0 DEF CallTypes, Call
    <3> DEFINE c == [call[r] EXCEPT !.stage = stage, !.answer = a]
    <3> HIDE DEF c
    <3>6. call'[r] = c /\ \A q \in Run \ {r} : call'[q] = call[q]
      BY <1>0, <3>3 DEF CallTypes, c
    <3>7. call' \in [Run -> Call]
      BY <1>0, <3>2, <3>3 DEF CallTypes, c
    <3>8. c.stage = "backoff" => c.attempt < MaxAttempts
      BY <3>1, <3>4, <3>5 DEF c
    <3> QED
      BY <1>0, <3>6, <3>7, <3>8 DEF CallTypes
  <2>4. cooldown' \in 0..MaxCooldown /\ quiet' \in 0..MaxCooldown
    BY <1>0, <2>1 DEF LimiterTypes, Maximum, Minimum, RetryAfter
  <2>5. queue' \in Seq(Run)
    <3>1. queue' = Tail(queue) /\ queue \in Seq(Run) /\ queue # <<>>
      BY <1>0, <1>5 DEF Respond, LimiterTypes, Queue
    <3> QED
      BY <3>1
  <2> QED
    BY <1>0, <1>1, <1>2, <1>5, <2>3, <2>4, <2>5 DEF Respond, LimiterTypes
<1>6. CASE Repeat(r)
  <2>1. call[r].attempt + 1 \in 0..MaxAttempts
    BY <1>0, <1>6 DEF Repeat, CallTypes, Call
  <2>2. CallTypes'
    BY <1>0, <1>6, <2>1 DEF Repeat, CallTypes, Call, Stages
  <2>3. queue' \in Seq(Run)
    BY <1>0, <1>6 DEF Repeat, Schedule, LimiterTypes
  <2> QED
    BY <1>0, <1>1, <1>2, <1>6, <2>2, <2>3 DEF Repeat, LimiterTypes
<1> QED
  BY <1>3, <1>4, <1>5, <1>6 DEF Request

LEMMA PageTypes ==
  ASSUME TypeInv, NEW r \in Run, Page(r)
  PROVE  TypeInv'
<1> SUFFICES JobTypes' /\ CallTypes' /\ LimiterTypes' /\ CacheTypes' /\ trouble' \in 0..MaxTrouble
  BY TypesNext
<1>0. JobTypes /\ CallTypes /\ LimiterTypes /\ CacheTypes /\ trouble \in 0..MaxTrouble
  BY TypesByParts
<1>1. CacheTypes'
  BY <1>0 DEF Page, PageRead, HtmlRead, Mark, cache, CacheTypes
<1>2. trouble' \in 0..MaxTrouble
  BY <1>0, HurtTypes DEF Page, PageRead, HtmlRead, Mark
<1>3. CASE PageRead(r)
  <2>1. CallTypes' /\ LimiterTypes'
    BY <1>3, GetLimiter, HangupLimiter DEF PageRead, AskHtml
  <2>2. CASE Listed(r) /\ UNCHANGED degraded
    BY <1>0, <1>1, <1>2, <2>1, <2>2, GoesOnTypes DEF Listed, Label
  <2>3. CASE Stops(r)
    BY <1>0, <1>1, <1>2, <2>1, <2>3, EndsTypes DEF Stops
  <2>4. CASE AskHtml(r) /\ UNCHANGED <<tries, todo, about, spent, degraded>>
    BY <1>0, <1>1, <1>2, <2>1, <2>4, GoesOnTypes DEF AskHtml, Label
  <2> QED
    BY <1>3, <2>2, <2>3, <2>4 DEF PageRead
<1>4. CASE HtmlRead(r)
  <2>1. CallTypes' /\ LimiterTypes'
    BY <1>4, HangupLimiter DEF HtmlRead
  <2>2. CASE pc' = [pc EXCEPT ![r] = "mark"] /\ UNCHANGED <<tries, todo, about, spent, degraded>>
    BY <1>0, <1>1, <1>2, <2>1, <2>2, GoesOnTypes DEF Label
  <2>3. CASE Stops(r) \/ Fails(r)
    BY <1>0, <1>1, <1>2, <2>1, <2>3, EndsTypes DEF Stops, Fails
  <2> QED
    BY <1>4, <2>2, <2>3 DEF HtmlRead
<1>5. CASE Mark(r)
  <2>1. CallTypes' /\ LimiterTypes'
    BY <1>0, <1>5, LimiterStays DEF Mark, CallTypes
  <2>2. CASE Listed(r) /\ degraded' = degraded \cup {r}
    BY <1>0, <1>1, <1>2, <2>1, <2>2, GoesOnTypes DEF Listed, Label
  <2>3. CASE Fails(r)
    BY <1>0, <1>1, <1>2, <2>1, <2>3, EndsTypes DEF Fails
  <2> QED
    BY <1>5, <2>2, <2>3 DEF Mark
<1> QED
  BY <1>3, <1>4, <1>5 DEF Page

LEMMA DescriptionTypes ==
  ASSUME TypeInv, NEW r \in Run, Descriptions(r)
  PROVE  TypeInv'
<1> SUFFICES JobTypes' /\ CallTypes' /\ LimiterTypes' /\ CacheTypes' /\ trouble' \in 0..MaxTrouble
  BY TypesNext
<1>0. JobTypes /\ CallTypes /\ LimiterTypes /\ CacheTypes /\ trouble \in 0..MaxTrouble
  BY TypesByParts
<1>2. trouble' \in 0..MaxTrouble
  BY <1>0, HurtTypes DEF Descriptions, Lookup, DetailRead, Store, Commit, Describe
<1>3. ASSUME UNCHANGED <<call, limiter>> PROVE CallTypes' /\ LimiterTypes'
  BY <1>0, <1>3, LimiterStays DEF CallTypes
<1>4. Waiting(about[r]) \in SUBSET Run
  BY DEF Waiting
<1>5. CASE Lookup(r)
  <2>1. UNCHANGED stored
    BY <1>5 DEF Lookup
  <2>2. CASE Described(about[r]) /\ UNCHANGED <<call, limiter>>
    BY <1>0, <1>2, <1>3, <2>1, <2>2, DescribedTypes, ForgetTypes DEF Described, CacheTypes
  <2>3. CASE \E retried \in BOOLEAN : Undescribed(about[r], retried) /\ UNCHANGED <<call, limiter>>
    BY <1>0, <1>2, <1>3, <1>4, <2>1, <2>3, EndsTypes, ForgetTypes DEF Undescribed, CacheTypes
  <2>4. CASE /\ spent[r] < DescriptionLimit
             /\ spent' = [spent EXCEPT ![r] = @ + 1]
             /\ AskDetail(r)
             /\ UNCHANGED <<tries, todo, about, degraded, filler>>
    <3>1. spent' \in [Run -> 0..DescriptionLimit]
      BY <1>0, <2>4 DEF JobTypes
    <3>2. pc' = [pc EXCEPT ![r] = "detail"]
      BY <2>4 DEF AskDetail
    <3>3. JobTypes'
      BY <1>0, <2>4, <3>1, <3>2 DEF JobTypes, Label
    <3> QED
      BY <1>0, <1>2, <2>1, <2>4, <3>3, GetLimiter DEF AskDetail, CacheTypes
  <2> QED
    BY <1>5, <2>2, <2>3, <2>4 DEF Lookup
<1>6. CASE DetailRead(r)
  <2>1. CallTypes' /\ LimiterTypes' /\ UNCHANGED stored
    BY <1>6, HangupLimiter DEF DetailRead
  <2>2. CASE \E step \in {"store", "store gone"} :
               /\ pc' = [pc EXCEPT ![r] = step]
               /\ UNCHANGED <<tries, todo, about, spent, degraded, filler>>
    BY <1>0, <1>2, <2>1, <2>2, GoesOnTypes DEF Label, CacheTypes
  <2>3. CASE \E retried \in BOOLEAN : Undescribed(about[r], retried)
    BY <1>0, <1>2, <1>4, <2>1, <2>3, EndsTypes, ForgetTypes DEF Undescribed, CacheTypes
  <2> QED
    BY <1>6, <2>2, <2>3 DEF DetailRead
<1>7. CASE Store(r)
  <2>1. CallTypes' /\ LimiterTypes'
    BY <1>3, <1>7 DEF Store
  <2>2. stored' \in [Listing -> {"no", "known", "gone"}]
    BY <1>0, <1>7 DEF Store, Keep, CacheTypes
  <2>3. CASE Described(about[r])
    BY <1>0, <1>2, <2>1, <2>2, <2>3, DescribedTypes, ForgetTypes DEF Described, CacheTypes
  <2>4. CASE Undescribed(about[r], TRUE)
    BY <1>0, <1>2, <1>4, <2>1, <2>2, <2>4, EndsTypes, ForgetTypes DEF Undescribed, CacheTypes
  <2> QED
    BY <1>7, <2>3, <2>4 DEF Store
<1>8. CASE Commit(r)
  BY <1>0, <1>2, <1>3, <1>8, EndsTypes DEF Commit, Stops, cache, CacheTypes
<1>9. ASSUME NEW l \in Listing, Describe(r, l) PROVE CallTypes' /\ LimiterTypes' /\ JobTypes' /\ CacheTypes'
  <2>1. CallTypes' /\ LimiterTypes'
    BY <1>3, <1>9 DEF Describe
  <2>2. CacheTypes'
    BY <1>0, <1>9 DEF Describe, CacheTypes
  <2>3. PICK step \in {"lookup", "shared"} : pc' = [pc EXCEPT ![r] = step]
    BY <1>9 DEF Describe
  <2>4. JobTypes'
    BY <1>0, <1>9, <2>3, GoesOnTypes DEF Describe, Label
  <2> QED
    BY <2>1, <2>2, <2>4
<1> QED
  BY <1>2, <1>5, <1>6, <1>7, <1>8, <1>9 DEF Descriptions

\* Every action keeps every variable in its type.
LEMMA TypeStep == TypeInv /\ Queue /\ [Next]_vars => TypeInv'
<1> SUFFICES ASSUME TypeInv, Queue, [Next]_vars PROVE TypeInv'
  OBVIOUS
<1>0. JobTypes /\ CallTypes /\ LimiterTypes /\ CacheTypes /\ trouble \in 0..MaxTrouble
  BY TypesByParts
<1>1. ASSUME NEW r \in Run, Begin(r) PROVE TypeInv'
  <2>1. CallTypes' /\ LimiterTypes'
    BY <1>1, GetLimiter DEF Begin, AskPage
  <2>2. tries[r] + 1 \in 0..RetryLimit + 1
    BY <1>0, <1>1 DEF Begin, JobTypes
  <2>3. pc' = [pc EXCEPT ![r] = "page"] /\ tries' = [tries EXCEPT ![r] = @ + 1]
    BY <1>1 DEF Begin, AskPage
  <2>4. JobTypes'
    BY <1>0, <1>1, <2>2, <2>3 DEF Begin, JobTypes, Label
  <2> QED
    BY <1>0, <1>1, <2>1, <2>4, TypesNext DEF Begin, cache, CacheTypes
<1>2. CASE Tick
  <2>1. since' \in 0..MaxDelay /\ cooldown' \in 0..MaxCooldown /\ quiet' \in 0..MaxCooldown
    BY <1>0, <1>2 DEF Tick, Minimum, LimiterTypes, MaxDelay
  <2> QED
    BY <1>0, <1>2, <2>1, TypesNext
    DEF Tick, job, cache, JobTypes, CallTypes, LimiterTypes, CacheTypes
<1>3. CASE UNCHANGED vars
  BY <1>0, <1>3, TypesNext
  DEF vars, job, cache, limiter, JobTypes, CallTypes, LimiterTypes, CacheTypes
<1> QED
  BY <1>1, <1>2, <1>3, RequestTypes, PageTypes, DescriptionTypes DEF Next, Step

-----------------------------------------------------------------------------
\* The limiter.

LEMMA InitQueue == Init => Queue
BY DEF Init, Queue, Queued, NoCall, Calling

\* A call that goes to the end of the chain.
LEMMA Joins ==
  ASSUME TypeInv, Queue, NEW r \in Run, ~Queued(r),
         queue' = Append(queue, r),
         call' \in [Run -> Call], call'[r].stage = "queued",
         \A q \in Run \ {r} : call'[q] = call[q],
         \A q \in Run : pc'[q] \notin Calling => call'[q].stage = "none",
         UNCHANGED <<delay, cooldown, quiet>>
  PROVE  Queue'
<1>0. queue \in Seq(Run)
  BY DEF TypeInv, TypeOK
<1>1. /\ Len(queue') = Len(queue) + 1 /\ queue'[Len(queue) + 1] = r
      /\ \A i \in 1..Len(queue) : queue'[i] = queue[i]
      /\ queue' # <<>> /\ Len(queue) \in Nat
  BY <1>0
<1>2. \A q \in Run : Queued(q)' <=> Queued(q) \/ q = r
  BY DEF Queued
<1>3. ASSUME NEW q \in Run PROVE Queued(q)' <=> \E i \in 1..Len(queue') : queue'[i] = q
  <2>1. Queued(q) <=> \E i \in 1..Len(queue) : queue[i] = q
    BY DEF Queue
  <2> QED
    BY <1>1, <1>2, <2>1
<1>4. ASSUME NEW q \in Run, call'[q].stage \in {"turn", "flight"} PROVE queue'[1] = q
  <2>1. queue # <<>> /\ queue[1] = q
    BY <1>4 DEF Queue
  <2>2. Len(queue) >= 1
    BY <1>0, <2>1
  <2> QED
    BY <1>1, <2>1, <2>2
<1>5. \A i, j \in 1..Len(queue') : queue'[i] = queue'[j] => i = j
  <2>1. \A i \in 1..Len(queue) : queue[i] # r
    BY DEF Queue
  <2> QED
    BY <1>1, <2>1 DEF Queue
<1>6. ASSUME NEW q \in Run, call'[q].stage = "turn" PROVE delay' >= MinInterval
  BY <1>6 DEF Queue
<1> QED
  BY <1>1, <1>3, <1>4, <1>5, <1>6 DEF Queue

\* The first call leaves the chain.
LEMMA Leaves ==
  ASSUME TypeInv, Queue, NEW r \in Run, call[r].stage = "flight",
         queue' = Tail(queue),
         call' \in [Run -> Call], call'[r].stage \in {"backoff", "answered"},
         \A q \in Run \ {r} : call'[q] = call[q],
         UNCHANGED <<delay, pc>>, quiet' <= cooldown'
  PROVE  Queue'
<1>0. queue \in Seq(Run) /\ queue # <<>> /\ queue[1] = r
  BY DEF TypeInv, TypeOK, Queue
<1>1. /\ Len(queue') = Len(queue) - 1 /\ Len(queue) \in Nat \ {0}
      /\ \A i \in 1..Len(queue') : queue'[i] = queue[i + 1]
  BY <1>0
<1>2. \A i \in 2..Len(queue) : queue[i] # r
  BY <1>0, <1>1 DEF Queue
<1>3. ASSUME NEW q \in Run PROVE Queued(q)' <=> \E i \in 1..Len(queue') : queue'[i] = q
  <2>1. CASE q = r
    BY <1>1, <1>2, <2>1 DEF Queued
  <2>2. CASE q # r
    <3>1. Queued(q)' <=> Queued(q)
      BY <2>2 DEF Queued
    <3>2. Queued(q) <=> \E i \in 1..Len(queue) : queue[i] = q
      BY DEF Queue
    <3>3. ASSUME NEW i \in 1..Len(queue), queue[i] = q
          PROVE  i - 1 \in 1..Len(queue') /\ queue'[i - 1] = q
      BY <1>0, <1>1, <2>2, <3>3
    <3>4. ASSUME NEW i \in 1..Len(queue'), queue'[i] = q
          PROVE  i + 1 \in 1..Len(queue) /\ queue[i + 1] = q
      BY <1>1, <3>4
    <3> QED
      BY <3>1, <3>2, <3>3, <3>4
  <2> QED
    BY <2>1, <2>2
<1>4. \A q \in Run : call'[q].stage \notin {"turn", "flight"}
  BY <1>0 DEF Queue
<1>5. \A i, j \in 1..Len(queue') : queue'[i] = queue'[j] => i = j
  <2>1. ASSUME NEW i \in 1..Len(queue'), NEW j \in 1..Len(queue'), queue'[i] = queue'[j]
        PROVE  i = j
    <3>1. i + 1 \in 1..Len(queue) /\ j + 1 \in 1..Len(queue) /\ queue[i + 1] = queue[j + 1]
      BY <1>1, <2>1
    <3>2. i + 1 = j + 1
      BY <3>1 DEF Queue
    <3> QED
      BY <3>2
  <2> QED
    BY <2>1
<1>6. \A q \in Run : pc'[q] \notin Calling => call'[q].stage = "none"
  BY DEF Queue, Calling
<1> QED
  BY <1>3, <1>4, <1>5, <1>6 DEF Queue

\* Whatever a run does when it waits for no call, or has its answer.
LEMMA OutsideQueue ==
  ASSUME TypeInv, Queue, UNCHANGED limiter,
         \A q \in Run : call'[q] = call[q] \/ (~Queued(q) /\ call'[q] = NoCall),
         \A q \in Run : pc'[q] \notin Calling => call'[q].stage = "none"
  PROVE  Queue'
<1>1. \A q \in Run : Queued(q)' <=> Queued(q)
  BY DEF Queued, NoCall
<1>2. \A q \in Run : call'[q].stage \in {"turn", "flight"} => call'[q] = call[q]
  BY DEF NoCall
<1>3. UNCHANGED <<queue, delay, cooldown, quiet>>
  BY DEF limiter
<1>4. \A q \in Run : Queued(q)' <=> \E i \in 1..Len(queue') : queue'[i] = q
  BY <1>1, <1>3 DEF Queue
<1>5. ASSUME NEW q \in Run, call'[q].stage \in {"turn", "flight"}
      PROVE  /\ queue' # <<>> /\ queue'[1] = q
             /\ call'[q].stage = "turn" => delay' >= MinInterval
  BY <1>2, <1>3, <1>5 DEF Queue
<1> QED
  BY <1>3, <1>4, <1>5 DEF Queue

\* The runs that wait for a description, but for the one that loads it, wait for no call.
LEMMA WaitersDoNotCall ==
  ASSUME Fills, Queue, NEW r \in Run, pc[r] \in Loading,
         NEW q \in Waiting(about[r]), q # r
  PROVE  pc[q] = "shared" /\ call[q].stage = "none"
<1>1. q \in Run /\ about[q] = about[r]
  BY DEF Waiting
<1>2. about[r] # None /\ filler[about[r]] = r
  BY DEF Fills
<1>3. pc[q] = "shared"
  BY <1>1, <1>2 DEF Fills
<1> QED
  BY <1>1, <1>3 DEF Queue, Calling

LEMMA QueueStep == TypeInv /\ Fills /\ Queue /\ [Next]_vars => Queue'
<1> SUFFICES ASSUME TypeInv, Fills, Queue, [Next]_vars PROVE Queue'
  OBVIOUS
<1>0. /\ pc \in [Run -> Label] /\ call \in [Run -> Call] /\ queue \in Seq(Run)
      /\ cooldown \in Nat /\ quiet \in Nat
  <2>1. JobTypes /\ CallTypes /\ LimiterTypes
    BY TypesByParts
  <2> QED
    BY <2>1 DEF JobTypes, CallTypes, LimiterTypes
<1>a. ASSUME NEW r \in Run, ~Queued(r), Get(r),
             pc'[r] \in Calling, \A q \in Run \ {r} : pc'[q] = pc[q]
      PROVE  Queue'
  <2>1. /\ call' \in [Run -> Call] /\ call'[r].stage = "queued"
        /\ \A q \in Run \ {r} : call'[q] = call[q]
    BY <1>0, <1>a, GetTypes DEF Get
  <2>2. \A q \in Run : pc'[q] \notin Calling => call'[q].stage = "none"
    BY <1>a, <2>1 DEF Queue
  <2> QED
    BY <1>a, <2>1, <2>2, Joins DEF Get, Schedule
<1>b. ASSUME NEW r \in Run, ~Queued(r), Hangup(r),
             \A q \in Run \ {r} : pc'[q] = pc[q] \/ call[q].stage = "none"
      PROVE  Queue'
  <2>1. \A q \in Run : call'[q] = IF q = r THEN NoCall ELSE call[q]
    BY <1>0, <1>b DEF Hangup
  <2>2. \A q \in Run : pc'[q] \notin Calling => call'[q].stage = "none"
    BY <1>b, <2>1 DEF Queue, NoCall
  <2> QED
    BY <1>b, <2>1, <2>2, OutsideQueue DEF Hangup
<1>c. ASSUME UNCHANGED <<call, limiter>>,
             \A q \in Run : pc'[q] = pc[q] \/ call[q].stage = "none"
      PROVE  Queue'
  <2>1. \A q \in Run : pc'[q] \notin Calling => call'[q].stage = "none"
    BY <1>c DEF Queue
  <2> QED
    BY <1>c, <2>1, OutsideQueue
<1>1. ASSUME NEW r \in Run, Begin(r) PROVE Queue'
  BY <1>0, <1>1, <1>a DEF Begin, AskPage, Queue, Queued, Calling
<1>2. ASSUME NEW r \in Run, Request(r) PROVE Queue'
  <2>1. CASE Take(r)
    <3>1. /\ call[r].stage = "queued" /\ call' = [call EXCEPT ![r].stage = "turn"]
          /\ UNCHANGED <<pc, queue, cooldown, quiet>> /\ delay' >= MinInterval
      BY <2>1 DEF Take, Stage, job
    <3>2. queue # <<>> /\ queue[1] = r
      <4>1. PICK i \in 1..Len(queue) : queue[i] = r
        BY <3>1 DEF Queue, Queued
      <4> QED
        BY <1>0, <2>1, <4>1 DEF Take
    <3>3. \A q \in Run \ {r} : call'[q] = call[q]
      BY <1>0, <3>1
    <3>4. call'[r].stage = "turn" /\ pc[r] \in Calling
      BY <1>0, <3>1 DEF Call, Queue
    <3>5. \A q \in Run : Queued(q)' <=> Queued(q)
      BY <3>1, <3>3, <3>4 DEF Queued
    <3> QED
      BY <3>1, <3>2, <3>3, <3>4, <3>5 DEF Queue
  <2>2. CASE Start(r)
    <3>1. /\ call[r].stage = "turn" /\ call' = [call EXCEPT ![r].stage = "flight"]
          /\ UNCHANGED <<pc, queue, cooldown, quiet>> /\ queue # <<>> /\ queue[1] = r
      BY <2>2 DEF Start, Stage, job, Queue
    <3>3. \A q \in Run \ {r} : call'[q] = call[q] /\ call[q].stage # "turn"
      BY <1>0, <3>1 DEF Queue
    <3>4. call'[r].stage = "flight" /\ pc[r] \in Calling
      BY <1>0, <3>1 DEF Call, Queue
    <3>5. \A q \in Run : Queued(q)' <=> Queued(q)
      BY <3>1, <3>3, <3>4 DEF Queued
    <3> QED
      BY <3>1, <3>3, <3>4, <3>5 DEF Queue
  <2>3. CASE Respond(r)
    <3>1. PICK a \in HttpFailure \cup Body(r) :
            /\ call' = [call EXCEPT ![r].stage =
                          IF a \in Repeatable /\ call[r].attempt < MaxAttempts
                          THEN "backoff" ELSE "answered",
                                    ![r].answer = a]
            /\ IF a = "429"
               THEN \E asked \in 0..MaxRetryAfter :
                      /\ cooldown' = Maximum(cooldown, RetryAfter(asked))
                      /\ quiet' = Maximum(quiet, Minimum(asked, MaxCooldown))
               ELSE UNCHANGED <<cooldown, quiet>>
      BY <2>3 DEF Respond
    <3>2. quiet' <= cooldown'
      BY <1>0, <3>1 DEF Queue, Maximum, Minimum, RetryAfter
    <3>3. call' \in [Run -> Call]
      <4>1. a \in Answer
        BY DEF Answer, HttpFailure, Body
      <4>2. PICK stage \in Stages :
              call' = [call EXCEPT ![r] = [@ EXCEPT !.stage = stage, !.answer = a]]
        BY <1>0, <3>1 DEF Stages
      <4>3. [call[r] EXCEPT !.stage = stage, !.answer = a] \in Call
        BY <1>0, <4>1 DEF Call
      <4> QED
        BY <1>0, <4>2, <4>3
    <3>4. /\ call'[r].stage \in {"backoff", "answered"}
          /\ \A q \in Run \ {r} : call'[q] = call[q]
      BY <1>0, <3>1 DEF Call
    <3> QED
      BY <2>3, <3>2, <3>3, <3>4, Leaves DEF Respond, job
  <2>4. CASE Repeat(r)
    <3>1. /\ call[r].stage = "backoff"
          /\ call' = [call EXCEPT ![r].stage = "queued", ![r].attempt = @ + 1, ![r].answer = None]
      BY <2>4 DEF Repeat
    <3>2. call[r].attempt + 1 \in 0..MaxAttempts
      BY <1>0, <3>1 DEF TypeInv, Left, Call
    <3>3. /\ call' \in [Run -> Call] /\ call'[r].stage = "queued"
          /\ \A q \in Run \ {r} : call'[q] = call[q]
      BY <1>0, <3>1, <3>2 DEF Call, Stages
    <3>4. ~Queued(r) /\ pc[r] \in Calling /\ UNCHANGED pc
      BY <2>4, <3>1 DEF Queue, Queued, Repeat, job
    <3>5. \A q \in Run : pc'[q] \notin Calling => call'[q].stage = "none"
      BY <3>3, <3>4 DEF Queue
    <3> QED
      BY <2>4, <3>3, <3>4, <3>5, Joins DEF Repeat, Schedule
  <2> QED
    BY <1>2, <2>1, <2>2, <2>3, <2>4 DEF Request
<1>3. ASSUME NEW r \in Run, Page(r) PROVE Queue'
  <2>1. CASE PageRead(r)
    <3>1. ~Queued(r)
      BY <2>1 DEF PageRead, Gets, Queued
    <3>2. \A q \in Run \ {r} : pc'[q] = pc[q]
      BY <1>0, <2>1 DEF PageRead, Listed, Stops, Ends, AskHtml
    <3>3. CASE AskHtml(r)
      <4>1. pc'[r] \in Calling
        BY <1>0, <3>3 DEF AskHtml, Calling
      <4> QED
        BY <3>1, <3>2, <3>3, <4>1, <1>a DEF AskHtml
    <3> QED
      BY <2>1, <3>1, <3>2, <3>3, <1>b DEF PageRead
  <2>2. CASE HtmlRead(r)
    <3>1. ~Queued(r)
      BY <2>2 DEF HtmlRead, Gets, Queued
    <3>2. \A q \in Run \ {r} : pc'[q] = pc[q]
      BY <1>0, <2>2 DEF HtmlRead, Stops, Fails, Ends
    <3> QED
      BY <2>2, <3>1, <3>2, <1>b DEF HtmlRead
  <2>3. CASE Mark(r)
    <3>1. call[r].stage = "none"
      BY <2>3 DEF Mark, At, Queue, Calling
    <3>2. \A q \in Run \ {r} : pc'[q] = pc[q]
      BY <1>0, <2>3 DEF Mark, Listed, Fails, Ends
    <3> QED
      BY <2>3, <3>1, <3>2, <1>c DEF Mark
  <2> QED
    BY <1>3, <2>1, <2>2, <2>3 DEF Page
<1>4. ASSUME NEW r \in Run, Descriptions(r) PROVE Queue'
  <2>1. CASE Lookup(r)
    <3>1. pc[r] = "lookup" /\ call[r].stage = "none"
      BY <2>1 DEF Lookup, At, Queue, Calling
    <3>2. CASE AskDetail(r)
      BY <1>0, <1>a, <3>1, <3>2 DEF AskDetail, Queued, Calling
    <3>3. CASE ~AskDetail(r)
      <4>1. UNCHANGED <<call, limiter>> /\ \A q \in Run \ Waiting(about[r]) : pc'[q] = pc[q]
        BY <1>0, <2>1, <3>3 DEF Lookup, Described, Undescribed, Ends
      <4> QED
        BY <1>c, <3>1, <4>1, WaitersDoNotCall DEF Loading
    <3> QED
      BY <3>2, <3>3
  <2>2. CASE DetailRead(r)
    <3>1. pc[r] = "detail" /\ ~Queued(r) /\ Hangup(r)
      BY <2>2 DEF DetailRead, At, Gets, Queued
    <3>2. \A q \in Run \ Waiting(about[r]) : q # r => pc'[q] = pc[q]
      BY <1>0, <2>2 DEF DetailRead, Undescribed, Ends
    <3> QED
      BY <1>b, <3>1, <3>2, WaitersDoNotCall DEF Loading
  <2>3. CASE Store(r)
    <3>1. pc[r] \in Loading /\ call[r].stage = "none"
      BY <2>3 DEF Store, Queue, Calling, Loading
    <3>2. UNCHANGED <<call, limiter>> /\ \A q \in Run \ Waiting(about[r]) : pc'[q] = pc[q]
      BY <1>0, <2>3 DEF Store, Described, Undescribed, Ends
    <3> QED
      BY <1>c, <3>1, <3>2, WaitersDoNotCall
  <2>4. CASE Commit(r)
    <3>1. call[r].stage = "none"
      BY <2>4 DEF Commit, At, Queue, Calling
    <3>2. \A q \in Run \ {r} : pc'[q] = pc[q]
      BY <1>0, <2>4 DEF Commit, Stops, Ends
    <3> QED
      BY <1>c, <2>4, <3>1, <3>2 DEF Commit
  <2>5. ASSUME NEW l \in Listing, Describe(r, l) PROVE Queue'
    <3>1. call[r].stage = "none"
      BY <2>5 DEF Describe, At, Queue, Calling
    <3>2. \A q \in Run \ {r} : pc'[q] = pc[q]
      BY <1>0, <2>5 DEF Describe
    <3> QED
      BY <1>c, <2>5, <3>1, <3>2 DEF Describe
  <2> QED
    BY <1>4, <2>1, <2>2, <2>3, <2>4, <2>5 DEF Descriptions
<1>5. CASE Tick
  <2>1. quiet' <= cooldown'
    BY <1>0, <1>5 DEF Tick, Queue
  <2> QED
    BY <1>5, <2>1 DEF Tick, job, Queue, Queued
<1>6. CASE UNCHANGED vars
  BY <1>6 DEF vars, job, limiter, Queue, Queued
<1> QED
  BY <1>1, <1>2, <1>3, <1>4, <1>5, <1>6 DEF Next, Step

-----------------------------------------------------------------------------
\* The descriptions.

LEMMA InitFills == Init => Fills
BY DEF Init, Fills, Loading

\* A run that neither waits for a description nor begins to.
LEMMA Elsewhere ==
  ASSUME TypeInv, Fills, NEW r \in Run, pc[r] \notin Loading \cup {"shared"},
         pc'[r] \notin Loading \cup {"shared"}, about'[r] = None,
         \A q \in Run \ {r} : pc'[q] = pc[q] /\ about'[q] = about[q],
         UNCHANGED cache
  PROVE  Fills'
<1>1. filler \in [Listing -> Run \cup {None}] /\ UNCHANGED <<filler, stored>>
  BY TypesByParts DEF CacheTypes, cache
<1>2. \A q \in Run :
        /\ about'[q] # None <=> pc'[q] \in Loading \cup {"shared"}
        /\ pc'[q] \in Loading => q # r
  BY DEF Fills
<1>3. \A l \in Listing : filler[l] # None => filler[l] \in Run \ {r}
  BY <1>1 DEF Fills
<1> QED
  BY <1>1, <1>2, <1>3 DEF Fills

\* All that wait for a description that is settled go on.
LEMMA Settles ==
  ASSUME TypeInv, Fills, NEW r \in Run, pc[r] \in Loading,
         \A q \in Waiting(about[r]) : about'[q] = None /\ pc'[q] \notin Loading \cup {"shared"},
         \A q \in Run \ Waiting(about[r]) : pc'[q] = pc[q] /\ about'[q] = about[q],
         ForgetFill(about[r]),
         \A k \in Listing \ {about[r]} : stored'[k] = stored[k]
  PROVE  Fills'
<1>1. /\ filler \in [Listing -> Run \cup {None}] /\ about \in [Run -> Listing \cup {None}]
      /\ about[r] \in Listing
  <2>1. about[r] # None
    BY DEF Fills
  <2> QED
    BY <2>1, TypesByParts DEF JobTypes, CacheTypes
<1>2. filler'[about[r]] = None /\ \A k \in Listing \ {about[r]} : filler'[k] = filler[k]
  BY <1>1 DEF ForgetFill
<1>3. \A q \in Run : about[q] = about[r] <=> q \in Waiting(about[r])
  BY DEF Waiting
<1>4. ASSUME NEW q \in Run
      PROVE  /\ about'[q] # None <=> pc'[q] \in Loading \cup {"shared"}
             /\ pc'[q] \in Loading => filler'[about'[q]] = q
             /\ pc'[q] \in Loading \ {"lookup"} => stored'[about'[q]] = "no"
  <2>1. CASE q \in Waiting(about[r])
    BY <2>1
  <2>2. CASE q \notin Waiting(about[r])
    <3>1. pc'[q] = pc[q] /\ about'[q] = about[q] /\ about[q] # about[r]
      BY <1>3, <2>2
    <3>2. about[q] # None => about[q] \in Listing \ {about[r]}
      BY <1>1, <3>1
    <3>3. pc[q] \in Loading => about[q] # None
      BY DEF Fills
    <3> QED
      BY <1>2, <3>1, <3>2, <3>3 DEF Fills
  <2> QED
    BY <2>1, <2>2
<1>5. ASSUME NEW k \in Listing, filler'[k] # None
      PROVE  about'[filler'[k]] = k /\ pc'[filler'[k]] \in Loading
  <2>1. k # about[r] /\ filler'[k] = filler[k] /\ filler[k] \in Run
    BY <1>1, <1>2, <1>5
  <2>2. about[filler[k]] = k /\ pc[filler[k]] \in Loading
    BY <1>5, <2>1 DEF Fills
  <2>3. filler[k] \notin Waiting(about[r])
    BY <2>1, <2>2 DEF Waiting
  <2> QED
    BY <2>1, <2>2, <2>3
<1> QED
  BY <1>4, <1>5 DEF Fills

LEMMA FillStep == TypeInv /\ Fills /\ [Next]_vars => Fills'
<1> SUFFICES ASSUME TypeInv, Fills, [Next]_vars PROVE Fills'
  OBVIOUS
<1>0. /\ pc \in [Run -> Label] /\ about \in [Run -> Listing \cup {None}]
      /\ filler \in [Listing -> Run \cup {None}] /\ stored \in [Listing -> {"no", "known", "gone"}]
  BY TypesByParts DEF JobTypes, CacheTypes
<1>1. ASSUME NEW r \in Run, Begin(r) PROVE Fills'
  <2>1. pc[r] \in {"idle", "retry"} /\ pc' = [pc EXCEPT ![r] = "page"] /\ UNCHANGED <<about, cache>>
    BY <1>1 DEF Begin, AskPage
  <2>2. about'[r] = None
    BY <2>1 DEF Fills, Loading
  <2> QED
    BY <1>0, <2>1, <2>2, Elsewhere DEF Loading
<1>2. ASSUME NEW r \in Run, Request(r) PROVE Fills'
  BY <1>2 DEF Request, Take, Start, Respond, Repeat, job, cache, Fills
<1>3. ASSUME NEW r \in Run, Page(r) PROVE Fills'
  <2>1. pc[r] \in {"page", "html", "mark"} /\ UNCHANGED cache /\ about[r] = None
    BY <1>3 DEF Page, PageRead, HtmlRead, Mark, At, Fills, Loading
  <2>2. \A q \in Run \ {r} : pc'[q] = pc[q] /\ about'[q] = about[q]
    BY <1>0, <1>3 DEF Page, PageRead, HtmlRead, Mark, Listed, AskHtml, Fails, Stops, Ends
  <2>3. pc'[r] \in {"describe", "html", "mark", "retry", "idle"} /\ about'[r] = None
    BY <1>0, <1>3, <2>1 DEF Page, PageRead, HtmlRead, Mark, Listed, AskHtml, Fails, Stops, Ends
  <2> QED
    BY <2>1, <2>2, <2>3, Elsewhere DEF Loading
<1>4. ASSUME NEW r \in Run, pc[r] \in Loading, UNCHANGED stored \/ Store(r),
             Described(about[r]) \/ \E retried \in BOOLEAN : Undescribed(about[r], retried)
      PROVE  Fills'
  <2>1. Waiting(about[r]) \subseteq Run
    BY DEF Waiting
  <2>2. \A q \in Waiting(about[r]) : about'[q] = None /\ pc'[q] \in {"describe", "retry", "idle"}
    BY <1>0, <1>4, <2>1 DEF Described, Undescribed, Ends
  <2>3. \A q \in Run \ Waiting(about[r]) : pc'[q] = pc[q] /\ about'[q] = about[q]
    BY <1>0, <1>4 DEF Described, Undescribed, Ends
  <2>4. ForgetFill(about[r])
    BY <1>4 DEF Described, Undescribed
  <2>5. \A k \in Listing \ {about[r]} : stored'[k] = stored[k]
    BY <1>0, <1>4 DEF Store, Keep
  <2> QED
    BY <1>4, <2>2, <2>3, <2>4, <2>5, Settles DEF Loading
<1>5. ASSUME NEW r \in Run, pc[r] \in Loading, NEW step \in Loading,
             pc' = [pc EXCEPT ![r] = step], UNCHANGED <<about, filler, stored>>,
             stored[about[r]] = "no"
      PROVE  Fills'
  <2>1. pc'[r] = step /\ \A q \in Run \ {r} : pc'[q] = pc[q]
    BY <1>0, <1>5
  <2> QED
    BY <1>5, <2>1 DEF Fills
<1>6. ASSUME NEW r \in Run, Descriptions(r) PROVE Fills'
  <2>1. CASE Lookup(r)
    BY <1>4, <1>5, <2>1 DEF Lookup, At, AskDetail, Loading
  <2>2. CASE DetailRead(r)
    <3>1. pc[r] = "detail" /\ stored[about[r]] = "no" /\ UNCHANGED stored
      BY <2>2 DEF DetailRead, At, Fills, Loading
    <3> QED
      BY <1>4, <1>5, <2>2, <3>1 DEF DetailRead, Loading
  <2>3. CASE Store(r)
    BY <1>4, <2>3 DEF Store, Loading
  <2>4. CASE Commit(r)
    <3>1. \A q \in Run \ {r} : pc'[q] = pc[q] /\ about'[q] = about[q]
      BY <1>0, <2>4 DEF Commit, Stops, Ends
    <3>2. pc[r] = "describe" /\ pc'[r] = "idle" /\ about'[r] = None /\ UNCHANGED cache
      BY <1>0, <2>4 DEF Commit, At, Stops, Ends
    <3> QED
      BY <3>1, <3>2, Elsewhere DEF Loading
  <2>5. ASSUME NEW l \in Listing, Describe(r, l) PROVE Fills'
    <3>1. /\ pc[r] = "describe" /\ about' = [about EXCEPT ![r] = l] /\ UNCHANGED stored
          /\ \/ /\ filler[l] = None /\ filler' = [filler EXCEPT ![l] = r]
                /\ pc' = [pc EXCEPT ![r] = "lookup"]
             \/ UNCHANGED filler /\ pc' = [pc EXCEPT ![r] = "shared"]
      BY <2>5 DEF Describe, At, NobodyFills
    <3>2. /\ \A q \in Run \ {r} : pc'[q] = pc[q] /\ about'[q] = about[q]
          /\ about'[r] = l /\ pc'[r] \in {"lookup", "shared"}
      BY <1>0, <3>1
    <3>3. \A q \in Run : pc[q] \in Loading => about[q] \in Listing /\ filler[about[q]] = q
      BY <1>0 DEF Fills
    <3>4. \A k \in Listing : filler[k] # None => filler[k] # r
      BY <3>1 DEF Fills, Loading
    <3>5. CASE UNCHANGED filler /\ pc' = [pc EXCEPT ![r] = "shared"]
      <4>1. pc'[r] = "shared"
        BY <1>0, <3>5
      <4>2. ASSUME NEW q \in Run
            PROVE  /\ about'[q] # None <=> pc'[q] \in Loading \cup {"shared"}
                   /\ pc'[q] \in Loading => filler'[about'[q]] = q
                   /\ pc'[q] \in Loading \ {"lookup"} => stored'[about'[q]] = "no"
        <5>1. CASE q = r
          BY <3>2, <4>1, <5>1 DEF Loading
        <5>2. CASE q # r
          BY <3>1, <3>2, <3>5, <5>2 DEF Fills
        <5> QED
          BY <5>1, <5>2
      <4>3. \A k \in Listing : filler[k] # None => filler[k] \in Run \ {r}
        BY <1>0, <3>4
      <4> QED
        BY <3>2, <3>5, <4>2, <4>3 DEF Fills
    <3>6. CASE filler[l] = None /\ filler' = [filler EXCEPT ![l] = r] /\ pc' = [pc EXCEPT ![r] = "lookup"]
      <4>1. pc'[r] = "lookup" /\ filler'[l] = r /\ \A k \in Listing \ {l} : filler'[k] = filler[k]
        BY <1>0, <3>6
      <4>2. \A q \in Run \ {r} : pc[q] \in Loading => about[q] # l
        BY <3>3, <3>6
      <4>3. ASSUME NEW q \in Run
            PROVE  /\ about'[q] # None <=> pc'[q] \in Loading \cup {"shared"}
                   /\ pc'[q] \in Loading => filler'[about'[q]] = q
                   /\ pc'[q] \in Loading \ {"lookup"} => stored'[about'[q]] = "no"
        <5>1. CASE q = r
          BY <3>2, <4>1, <5>1 DEF Loading
        <5>2. CASE q # r
          BY <3>1, <3>2, <3>3, <4>1, <4>2, <5>2 DEF Fills
        <5> QED
          BY <5>1, <5>2
      <4>4. ASSUME NEW k \in Listing, filler'[k] # None
            PROVE  about'[filler'[k]] = k /\ pc'[filler'[k]] \in Loading
        <5>1. CASE k = l
          BY <3>2, <4>1, <5>1 DEF Loading
        <5>2. CASE k # l
          <6>1. filler'[k] = filler[k] /\ filler[k] \in Run \ {r}
            BY <1>0, <3>4, <4>1, <4>4, <5>2
          <6> QED
            BY <3>2, <4>4, <6>1 DEF Fills
        <5> QED
          BY <5>1, <5>2
      <4> QED
        BY <4>3, <4>4 DEF Fills
    <3> QED
      BY <3>1, <3>5, <3>6
  <2> QED
    BY <1>6, <2>1, <2>2, <2>3, <2>4, <2>5 DEF Descriptions
<1>7. CASE Tick \/ UNCHANGED vars
  BY <1>7 DEF Tick, vars, job, cache, Fills
<1> QED
  BY <1>1, <1>2, <1>3, <1>6, <1>7 DEF Next, Step

-----------------------------------------------------------------------------
SourceInv == TypeInv /\ Queue /\ Fills

LEMMA StartsInvariant == Init => SourceInv
BY InitTypes, InitQueue, InitFills DEF SourceInv

LEMMA KeepsInvariant == SourceInv /\ [Next]_vars => SourceInv'
BY TypeStep, QueueStep, FillStep DEF SourceInv

\* TypeOK: however runs, repetitions and shared requests interleave.
THEOREM TypesHold == Spec => []TypeOK
<1>1. SourceInv => TypeOK
  BY DEF SourceInv, TypeInv
<1> QED
  BY <1>1, StartsInvariant, KeepsInvariant, PTL DEF Spec

\* DetailIsFetchedOnce: whoever finds nobody loading a description loads it for all that come
\* after, and finds it stored if it was loaded before.
THEOREM DetailsAreFetchedOnce == Spec => []DetailIsFetchedOnce
<1>1. ASSUME SourceInv PROVE DetailIsFetchedOnce
  <2> SUFFICES ASSUME NEW l \in Listing
               PROVE  LET loading == {r \in Waiting(l) : pc[r] # "shared"} IN
                      /\ Cardinality(loading) <= 1
                      /\ loading = {} <=> filler[l] = None
                      /\ \A r \in loading : pc[r] # "lookup" => stored[l] = "no"
    BY DEF DetailIsFetchedOnce
  <2> DEFINE loading == {r \in Waiting(l) : pc[r] # "shared"}
  <2>0. filler \in [Listing -> Run \cup {None}]
    BY <1>1, TypesByParts DEF SourceInv, CacheTypes
  <2>1. ASSUME NEW r \in loading
        PROVE  r \in Run /\ pc[r] \in Loading /\ about[r] = l /\ filler[l] = r
    <3>1. r \in Run /\ about[r] = l /\ about[r] # None /\ pc[r] # "shared"
      BY DEF Waiting
    <3> QED
      BY <1>1, <3>1 DEF SourceInv, Fills
  <2>2. filler[l] # None => filler[l] \in loading
    <3>1. SUFFICES ASSUME filler[l] # None PROVE filler[l] \in loading
      OBVIOUS
    <3>2. filler[l] \in Run /\ about[filler[l]] = l /\ pc[filler[l]] \in Loading
      BY <1>1, <2>0, <3>1 DEF SourceInv, Fills
    <3> QED
      BY <3>2 DEF Waiting, Loading
  <2>3. CASE filler[l] = None
    <3>1. loading = {}
      BY <2>1, <2>3
    <3> QED
      BY <2>3, <3>1, FS_EmptySet
  <2>4. CASE filler[l] # None
    <3>1. loading = {filler[l]}
      BY <2>1, <2>2, <2>4
    <3>2. Cardinality(loading) = 1
      BY <3>1, FS_Singleton
    <3>3. \A r \in loading : pc[r] # "lookup" => stored[l] = "no"
      BY <1>1, <2>1 DEF SourceInv, Fills
    <3> QED
      BY <2>4, <3>1, <3>2, <3>3
  <2> QED
    BY <2>3, <2>4
<1> QED
  BY <1>1, StartsInvariant, KeepsInvariant, PTL DEF Spec

\* Paced: a request that starts is the first of the chain and the only one under way, after
\* its cadence, and after the pause its predecessors were asked for.
THEOREM RequestsArePaced == Spec => Paced
<1>1. ASSUME SourceInv, [Next]_vars
      PROVE  [\A r \in InFlight' \ InFlight :
                InFlight = {} /\ since >= MinInterval /\ quiet = 0]_vars
  <2> SUFFICES ASSUME NEW r \in InFlight' \ InFlight
               PROVE  InFlight = {} /\ since >= MinInterval /\ quiet = 0
    OBVIOUS
  <2>0. /\ r \in Run /\ call \in [Run -> Call] /\ since \in Nat /\ delay \in Nat
        /\ quiet \in Nat
    BY <1>1, TypesByParts DEF SourceInv, CallTypes, LimiterTypes, MaxDelay, InFlight
  <2>1. call[r].stage # "flight" /\ call'[r].stage = "flight"
    BY DEF InFlight
  <2>2. Start(r)
    <3>1. call' # call
      BY <2>1
    <3>2. PICK q \in Run : Step(q)
      BY <1>1, <3>1 DEF Next, Tick, vars
    <3>3. ASSUME Get(q) \/ Hangup(q) \/ Take(q) \/ Repeat(q) PROVE FALSE
      BY <2>0, <2>1, <3>3 DEF Get, Hangup, Take, Repeat, Stage, NoCall, Call
    <3>4. ASSUME Respond(q) PROVE FALSE
      <4>1. call'[q].stage \in {"backoff", "answered"} /\ (q # r => call'[r] = call[r])
        BY <2>0, <3>4 DEF Respond, Call
      <4> QED
        BY <2>1, <4>1
    <3>5. Start(q)
      BY <3>1, <3>2, <3>3, <3>4
      DEF Step, Begin, AskPage, Request, Page, PageRead, AskHtml, HtmlRead, Mark, Descriptions,
          Lookup, AskDetail, DetailRead, Store, Commit, Describe
    <3> QED
      BY <2>0, <2>1, <3>5 DEF Start, Stage
  <2>3. call[r].stage = "turn" /\ since >= delay /\ cooldown = 0
    BY <2>2 DEF Start, MayStart
  <2>4. delay >= MinInterval /\ quiet <= cooldown /\ queue[1] = r
    BY <1>1, <2>0, <2>3 DEF SourceInv, Queue
  <2>5. InFlight = {}
    BY <1>1, <2>3, <2>4 DEF SourceInv, Queue, InFlight
  <2> QED
    BY <2>0, <2>3, <2>4, <2>5
<1> QED
  BY <1>1, StartsInvariant, KeepsInvariant, PTL DEF Spec, Paced
=============================================================================
