------------------------------ MODULE KufarSource ------------------------------
(***************************************************************************)
(* What the runs of one worker process ask of Kufar.  Every request goes   *)
(* through one limiter, in the order the runs ask; the client repeats an   *)
(* answer that is worth repeating; a page that stays out of reach is read  *)
(* from the site's HTML instead; descriptions are cached in the database,  *)
(* loaded once for every run that waits for them and charged to the budget *)
(* of the run that asked first.  A run is a job of its monitor's queue:    *)
(* some failures send the job again, others end it until the next tick.    *)
(*                                                                         *)
(* The runs of different monitors overlap: every queue has a poller of its *)
(* own.  A run reads one page here; what more pages do is in Traversal.    *)
(***************************************************************************)
EXTENDS Naturals, Sequences, FiniteSets

CONSTANTS
  Run,              \* the jobs of the monitors, one at a time each
  Listing,          \* what a run finds new on its page
  MaxAttempts,      \* KUFAR_HTTP_DEFAULTS.maxAttempts
  RetryLimit,       \* MONITOR_RETRY_OPTIONS.retryLimit
  DescriptionLimit, \* DESCRIPTION_REQUEST_LIMIT_PER_RUN
  MinInterval, MaxJitter,         \* KUFAR_RATE_LIMITER_DEFAULTS
  DefaultCooldown, MaxCooldown,   \* of KUFAR_HTTP_DEFAULTS
  MaxRetryAfter,    \* bound: the longest pause Kufar asks for
  MaxTrouble,       \* bound: answers other than the one asked for, and failed queries
  None

ASSUME LimitsAreNatural ==
  /\ MaxAttempts \in Nat \ {0} /\ RetryLimit \in Nat /\ DescriptionLimit \in Nat \ {0}
  /\ MinInterval \in Nat /\ MaxJitter \in Nat
  /\ DefaultCooldown \in Nat \ {0} /\ MaxCooldown \in Nat /\ MaxRetryAfter \in Nat
  /\ MaxTrouble \in Nat
ASSUME NoneIsNothing == None \notin Run \cup Listing

VARIABLES
  pc,         \* what a run is doing
  tries,      \* times its job has been sent
  todo,       \* new listings it has still to describe
  about,      \* the listing it is describing
  spent,      \* DescriptionRequestBudget.consumed
  degraded,   \* runs whose row says html-fallback
  call,       \* the call of the HTTP client a run waits for
  queue,      \* the chain RateLimiter.tail: the first one has its turn
  delay,      \* the cadence the first one has drawn
  since,      \* Date.now() - lastStartedAt, up to the longest cadence
  cooldown,   \* what is left of cooldownUntil
  filler,     \* ListingDescriptionCache.inFlight: who loads a listing's description
  stored,     \* the description columns of the listing's row
  trouble,    \* how much trouble there has been
  quiet       \* history: what is left of the pause Kufar asked for

limiter == <<queue, delay, since, cooldown, quiet>>
job == <<pc, tries, todo, about, spent, degraded>>
cache == <<filler, stored>>
vars == <<job, call, limiter, cache, trouble>>

Minimum(a, b) == IF a <= b THEN a ELSE b
Maximum(a, b) == IF a >= b THEN a ELSE b

MaxDelay == MinInterval + MaxJitter

\* How a response may end a call: what the HTTP client makes of it, and what a body it
\* accepts turns out to be.  "lost" is a network error or a timeout; "4xx" is any answer
\* that is neither a success nor one of the others; a detail may be "gone" (ASR0006).
Repeatable == {"5xx", "lost"}
HttpFailure == {"4xx", "429"} \cup Repeatable
PageBody == {"ok", "drift"}
HtmlBody == {"ok", "drift"}
DetailBody == {"ok", "gone", "drift"}
Answer == HttpFailure \cup PageBody \cup HtmlBody \cup DetailBody

FallsBack == {"5xx", "lost"}  \* fallbackFailureCode
Retryable == {"5xx", "lost"}  \* isRetryableSourceRequest
NoCall == [stage |-> "none", attempt |-> 0, answer |-> None]

Init ==
  /\ pc = [r \in Run |-> "idle"] /\ tries = [r \in Run |-> 0]
  /\ todo = [r \in Run |-> {}] /\ about = [r \in Run |-> None]
  /\ spent = [r \in Run |-> 0]
  /\ degraded = {}
  /\ call = [r \in Run |-> NoCall]
  /\ queue = <<>> /\ delay = 0 /\ since = MaxDelay /\ cooldown = 0 /\ quiet = 0
  /\ filler = [l \in Listing |-> None] /\ stored = [l \in Listing |-> "no"]
  /\ trouble = 0

At(r, label) == pc[r] = label
MayFail == trouble < MaxTrouble
Hurt == MayFail /\ trouble' = trouble + 1

-----------------------------------------------------------------------------
\* RateLimiter.

Stage(r, label) == call' = [call EXCEPT ![r].stage = label]

Schedule(r) == queue' = Append(queue, r)

\* The one before has settled: run() draws its cadence.
Take(r) ==
  /\ call[r].stage = "queued" /\ Head(queue) = r
  /\ Stage(r, "turn")
  /\ delay' \in MinInterval..MaxDelay
  /\ UNCHANGED <<job, queue, since, cooldown, quiet, cache, trouble>>

\* It sleeps and looks again until both the cadence and the cooldown are over.
CadenceOnly == since >= delay  \* mutant: the cooldown is not looked at
MayStart == since >= delay /\ cooldown = 0

Start(r) ==
  /\ call[r].stage = "turn" /\ MayStart
  /\ Stage(r, "flight")
  /\ since' = 0 /\ delay' = 0
  /\ UNCHANGED <<job, queue, cooldown, quiet, cache, trouble>>

-----------------------------------------------------------------------------
\* KufarHttpClient.get.

Get(r) ==
  /\ call' = [call EXCEPT ![r] = [stage |-> "queued", attempt |-> 1, answer |-> None]]
  /\ Schedule(r)
  /\ UNCHANGED <<delay, since, cooldown, quiet>>

\* parseRetryAfterMs: 0 stands for a header that is missing or makes no sense.
RetryAfter(asked) ==
  Minimum(IF asked = 0 THEN DefaultCooldown ELSE asked, MaxCooldown)

\* The answer frees the limiter; get() goes on before the next one has its turn, so the
\* cooldown is there when that one looks.
Body(r) ==
  CASE At(r, "page") -> PageBody [] At(r, "html") -> HtmlBody [] OTHER -> DetailBody

Respond(r) ==
  /\ call[r].stage = "flight"
  /\ queue' = Tail(queue)
  /\ \E a \in HttpFailure \cup Body(r) :
       /\ IF a \in {"ok", "gone"} THEN UNCHANGED trouble ELSE Hurt
       /\ call' = [call EXCEPT ![r].stage =
                     IF a \in Repeatable /\ call[r].attempt < MaxAttempts THEN "backoff" ELSE "answered",
                               ![r].answer = a]
       /\ IF a = "429"
          THEN \E asked \in 0..MaxRetryAfter :
                 /\ cooldown' = Maximum(cooldown, RetryAfter(asked))
                 /\ quiet' = Maximum(quiet, Minimum(asked, MaxCooldown))
          ELSE UNCHANGED <<cooldown, quiet>>
  /\ UNCHANGED <<job, delay, since, cache>>

\* The pause before the next attempt is spent outside the limiter.
Repeat(r) ==
  /\ call[r].stage = "backoff"
  /\ call' = [call EXCEPT ![r].stage = "queued", ![r].attempt = @ + 1, ![r].answer = None]
  /\ Schedule(r)
  /\ UNCHANGED <<job, delay, since, cooldown, quiet, cache, trouble>>

\* What get() resolves to once the response is journalled.
Gets(r, answers) == call[r].stage = "answered" /\ call[r].answer \in answers
Hangup(r) == call' = [call EXCEPT ![r] = NoCall] /\ UNCHANGED limiter

-----------------------------------------------------------------------------
\* The end of a job.

SentAgain(r) == tries[r] <= RetryLimit

\* What createScheduledMonitorRunExecutor rethrows makes pg-boss send the job again.
Ends(R, retried) ==
  /\ pc' = [r \in Run |-> IF r \notin R THEN pc[r]
                          ELSE IF retried /\ SentAgain(r) THEN "retry" ELSE "idle"]
  /\ todo' = [r \in Run |-> IF r \in R THEN {} ELSE todo[r]]
  /\ about' = [r \in Run |-> IF r \in R THEN None ELSE about[r]]
  /\ spent' = [r \in Run |-> IF r \in R THEN 0 ELSE spent[r]]
  /\ tries' = [r \in Run |-> IF r \in R /\ pc'[r] = "idle" THEN 0 ELSE tries[r]]
  /\ degraded' = degraded \ R
Fails(r) == Ends({r}, TRUE)
Stops(r) == Ends({r}, FALSE)

AskPage(r) == Get(r) /\ pc' = [pc EXCEPT ![r] = "page"]

\* The tick of the schedule sends a job; pg-boss sends one again that has failed.
Begin(r) ==
  /\ pc[r] \in {"idle", "retry"}
  /\ tries' = [tries EXCEPT ![r] = @ + 1]
  /\ AskPage(r)
  /\ UNCHANGED <<todo, about, spent, degraded, cache, trouble>>

-----------------------------------------------------------------------------
\* KufarResilientSource.fetchPage.

Listed(r) ==
  /\ pc' = [pc EXCEPT ![r] = "describe"]
  /\ todo' = [todo EXCEPT ![r] = Listing]
  /\ UNCHANGED <<tries, about, spent>>

AskHtml(r) == Get(r) /\ pc' = [pc EXCEPT ![r] = "html"]

PageRead(r) ==
  /\ At(r, "page")
  /\ \/ Gets(r, {"ok"}) /\ Listed(r) /\ UNCHANGED degraded /\ Hangup(r)
     \/ Gets(r, Answer \ (FallsBack \cup {"ok"})) /\ Stops(r) /\ Hangup(r)
     \/ /\ Gets(r, FallsBack) /\ AskHtml(r)
        /\ UNCHANGED <<tries, todo, about, spent, degraded>>
  /\ UNCHANGED <<cache, trouble>>

\* A page that cannot be had this way either fails the run, for whatever reason; one that
\* cannot be understood asks for a pause.
HtmlRead(r) ==
  /\ At(r, "html")
  /\ \/ /\ Gets(r, {"ok"})
        /\ pc' = [pc EXCEPT ![r] = "mark"]
        /\ UNCHANGED <<tries, todo, about, spent, degraded>>
     \/ Gets(r, {"drift"}) /\ Stops(r)
     \/ Gets(r, HttpFailure) /\ Fails(r)
  /\ Hangup(r)
  /\ UNCHANGED <<cache, trouble>>

\* onDegradation writes degradedLevel before the page is used.
Mark(r) ==
  /\ At(r, "mark")
  /\ \/ /\ degraded' = degraded \cup {r}
        /\ Listed(r)
        /\ UNCHANGED trouble
     \/ Hurt /\ Fails(r)
  /\ UNCHANGED <<call, limiter, cache>>

-----------------------------------------------------------------------------
\* ListingDescriptionCache.ensureDescription.

AlwaysFill(l) == TRUE  \* mutant: no inFlight.get
NobodyFills(l) == filler[l] = None

Describe(r, l) ==
  /\ At(r, "describe") /\ l \in todo[r]
  /\ about' = [about EXCEPT ![r] = l]
  /\ IF NobodyFills(l)
     THEN filler' = [filler EXCEPT ![l] = r] /\ pc' = [pc EXCEPT ![r] = "lookup"]
     ELSE UNCHANGED filler /\ pc' = [pc EXCEPT ![r] = "shared"]
  /\ UNCHANGED <<tries, todo, spent, degraded, call, limiter, stored, trouble>>

\* The promise settles for all that wait for it, and its finally block forgets it.
Waiting(l) == {r \in Run : about[r] = l}
ForgetFill(l) == filler' = [filler EXCEPT ![l] = None]

Described(l) ==
  /\ pc' = [r \in Run |-> IF r \in Waiting(l) THEN "describe" ELSE pc[r]]
  /\ todo' = [r \in Run |-> IF r \in Waiting(l) THEN todo[r] \ {l} ELSE todo[r]]
  /\ about' = [r \in Run |-> IF r \in Waiting(l) THEN None ELSE about[r]]
  /\ ForgetFill(l)
  /\ UNCHANGED <<tries, spent, degraded>>
Undescribed(l, retried) == Ends(Waiting(l), retried) /\ ForgetFill(l)

AskDetail(r) == Get(r) /\ pc' = [pc EXCEPT ![r] = "detail"]

\* findUnique has returned: a description that is known costs nothing.
Lookup(r) ==
  LET l == about[r] IN
  /\ At(r, "lookup")
  /\ \/ /\ stored[l] # "no" /\ Described(l)
        /\ UNCHANGED <<call, limiter, trouble>>
     \/ /\ stored[l] = "no" /\ spent[r] < DescriptionLimit
        /\ spent' = [spent EXCEPT ![r] = @ + 1]
        /\ AskDetail(r)
        /\ UNCHANGED <<tries, todo, about, degraded, filler, trouble>>
     \/ /\ stored[l] = "no" /\ spent[r] >= DescriptionLimit
        /\ Undescribed(l, FALSE)
        /\ UNCHANGED <<call, limiter, trouble>>
     \/ /\ Hurt /\ Undescribed(l, TRUE)
        /\ UNCHANGED <<call, limiter>>
  /\ UNCHANGED stored

DetailRead(r) ==
  LET l == about[r] IN
  /\ At(r, "detail")
  /\ \/ /\ Gets(r, {"ok", "gone"})
        /\ pc' = [pc EXCEPT ![r] = IF call[r].answer = "ok" THEN "store" ELSE "store gone"]
        /\ UNCHANGED <<tries, todo, about, spent, degraded, filler>>
     \/ Gets(r, HttpFailure \ Retryable) /\ Undescribed(l, FALSE)
     \/ Gets(r, Retryable \cup {"drift"}) /\ Undescribed(l, TRUE)
  /\ Hangup(r)
  /\ UNCHANGED <<stored, trouble>>

\* The upsert of the listing's row.
Discard(l, what) == UNCHANGED stored  \* mutant: the description is only returned
Keep(l, what) == stored' = [stored EXCEPT ![l] = what]

Store(r) ==
  LET l == about[r] IN
  /\ pc[r] \in {"store", "store gone"}
  /\ \/ /\ Keep(l, IF At(r, "store") THEN "known" ELSE "gone")
        /\ Described(l)
        /\ UNCHANGED trouble
     \/ /\ Hurt
        /\ Undescribed(l, TRUE)
        /\ UNCHANGED stored
  /\ UNCHANGED <<call, limiter>>

\* Every new listing has its description: the run selects, and commits what it found.
Commit(r) ==
  /\ At(r, "describe") /\ todo[r] = {}
  /\ Stops(r)
  /\ UNCHANGED <<call, limiter, cache, trouble>>

-----------------------------------------------------------------------------
\* Time passes, one unit of it at a time.
Tick ==
  /\ since < MaxDelay \/ cooldown > 0 \/ quiet > 0
  /\ since' = Minimum(since + 1, MaxDelay)
  /\ cooldown' = IF cooldown > 0 THEN cooldown - 1 ELSE 0
  /\ quiet' = IF quiet > 0 THEN quiet - 1 ELSE 0
  /\ UNCHANGED <<job, call, queue, delay, cache, trouble>>

Request(r) == Take(r) \/ Start(r) \/ Respond(r) \/ Repeat(r)
Page(r) == PageRead(r) \/ HtmlRead(r) \/ Mark(r)
Descriptions(r) ==
  \/ Lookup(r) \/ DetailRead(r) \/ Store(r) \/ Commit(r)
  \/ \E l \in Listing : Describe(r, l)
Step(r) == Begin(r) \/ Request(r) \/ Page(r) \/ Descriptions(r)

Next == Tick \/ \E r \in Run : Step(r)

\* Time passes; the schedule of an active monitor is due again and again; a request has
\* timeouts for connecting, for the headers and for the body.
Fairness == WF_vars(Tick) /\ \A r \in Run : WF_vars(Step(r))

Spec == Init /\ [][Next]_vars /\ Fairness

-----------------------------------------------------------------------------
\* Properties.

\* Every variable has the type the code gives it.
TypeOK ==
  /\ pc \in [Run -> {"idle", "retry", "page", "html", "mark", "describe", "shared", "lookup",
                     "detail", "store", "store gone"}]
  /\ tries \in [Run -> 0..RetryLimit + 1]
  /\ todo \in [Run -> SUBSET Listing] /\ about \in [Run -> Listing \cup {None}]
  /\ spent \in [Run -> 0..DescriptionLimit]
  /\ degraded \subseteq Run
  /\ call \in [Run -> [stage : {"none", "queued", "turn", "flight", "backoff", "answered"},
                       attempt : 0..MaxAttempts, answer : Answer \cup {None}]]
  /\ queue \in Seq(Run)
  /\ delay \in 0..MaxDelay /\ since \in 0..MaxDelay
  /\ cooldown \in 0..MaxCooldown /\ quiet \in 0..MaxCooldown
  /\ filler \in [Listing -> Run \cup {None}]
  /\ stored \in [Listing -> {"no", "known", "gone"}]
  /\ trouble \in 0..MaxTrouble

InFlight == {r \in Run : call[r].stage = "flight"}

\* However many runs ask, retry and change to the HTML page at once: a request starts only
\* while no other is under way, two seconds or more after the last one started, and never
\* in a pause Kufar has asked for.
Paced ==
  [][\A r \in InFlight' \ InFlight :
       InFlight = {} /\ since >= MinInterval /\ quiet = 0]_vars

\* One request loads a listing's description for all the runs that wait for it, and none
\* is sent for a description that is stored.
DetailIsFetchedOnce ==
  \A l \in Listing :
    LET loading == {r \in Waiting(l) : pc[r] # "shared"} IN
    /\ Cardinality(loading) <= 1
    /\ loading = {} <=> filler[l] = None
    /\ \A r \in loading : pc[r] # "lookup" => stored[l] = "no"

\* A backlog larger than the budget, overloads, pauses and shared failures put a run off:
\* again and again, every monitor's run gets its page and all the descriptions it needs.
RunsComplete == \A r \in Run : []<>(At(r, "describe") /\ todo[r] = {})

\* tests/unit/scheduled-monitor-retry-disposition.test.ts:138, docs/superpowers/specs/
\* kufar-api-contract.md: after a 429 the job ends and is not sent again.
RefusalEndsTheJob ==
  [][\A r \in Run : Gets(r, {"429"}) => pc'[r] # "retry"]_vars
=============================================================================
