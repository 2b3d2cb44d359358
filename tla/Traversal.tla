------------------------------ MODULE Traversal ------------------------------
(***************************************************************************)
(* How one monitor reads the Kufar feed: the cold-start baseline, the      *)
(* incremental traversal down to the stored watermark, the catch-up        *)
(* checkpoint of a traversal cut at the page cap, the loading of           *)
(* descriptions for the candidates, and the transaction that stores it     *)
(* all.  The runs of a monitor follow one another (MonitorRun).            *)
(*                                                                         *)
(* Listings are numbered as they are published, so the feed shows larger   *)
(* numbers first; TimeOf gives their list time, with ties.  A number is a  *)
(* place in the feed: a seller who raises a listing moves it to the next   *)
(* place, under its old list id and at a newer list time.  The feed moves  *)
(* between any two fetches.  Kufar's opaque page cursor is taken to lead   *)
(* to the listings older than the last one shown, or a little higher up,   *)
(* never lower: pages may overlap.                                         *)
(***************************************************************************)
EXTENDS Integers, FiniteSets, FiniteSetsExt

CONSTANTS
  MaxListing,       \* bound: listings ever published or raised
  TimeOf,           \* list time of a listing
  PageSize,         \* listings a page may hold
  MaxPages,         \* pages a traversal may fetch
  DescriptionLimit, \* detail requests a run may make
  MaxSlip,          \* how far pages may overlap
  MaxTrouble,       \* bound: failures, overlapping pages, listings taken down or raised
  CursorsExpire,    \* whether Kufar may forget a page cursor
  None

Listing == 1..MaxListing

ASSUME BoundsAreNaturals ==
  /\ {MaxListing, PageSize, MaxPages, DescriptionLimit} \subseteq Nat \ {0}
  /\ {MaxSlip, MaxTrouble} \subseteq Nat
  /\ CursorsExpire \in BOOLEAN
ASSUME PublishedInTimeOrder ==
  /\ TimeOf \in [Listing -> Nat \ {0}]
  /\ \A k, l \in Listing : k < l => TimeOf[k] <= TimeOf[l]

\* The watermark: a time, and the listings at that very time already dealt with.  The code
\* keeps their list ids; with the time they stand for the same places, as a raise changes
\* the time.
Watermark == [time : Nat, ids : SUBSET Listing]
Checkpoint == [cursor : Listing, pending : Watermark, last : Listing]
Row == [watermark : Watermark, checkpoint : Checkpoint \cup {None}]

ASSUME NoneIsNoRecord == None \notin Listing \cup Checkpoint \cup Row

VARIABLES
  published,  \* the newest listing
  gone,       \* listings taken off the site, and places left by listings raised since
  listId,     \* the list id of what stands at a place
  row,        \* the MonitorCursor row, or None
  described,  \* list ids whose description, or absence, is cached
  reported,   \* candidates stored by incremental runs
  t,          \* the traversal under way
  baseline,   \* history: listings on show when the baseline was begun, or read for it
  expired,    \* whether Kufar has forgotten the stored resume cursor
  trouble     \* how much trouble there has been

vars == <<published, gone, listId, row, described, reported, t, baseline, expired, trouble>>
feed == <<published, gone, listId>>

Idle == [phase |-> "idle"]

Init ==
  /\ published = 0 /\ gone = {} /\ listId = [l \in Listing |-> l]
  /\ row = None
  /\ described = {} /\ reported = {}
  /\ t = Idle
  /\ baseline = {}
  /\ expired = FALSE /\ trouble = 0

-----------------------------------------------------------------------------
\* Kufar.

OnShow == (1..published) \ gone

\* The page a cursor leads to (None: the first), and whether another follows.
Older(cursor, slip) == {l \in OnShow : cursor # None => l < cursor + slip}
Top(listings, size) ==
  {l \in listings : Cardinality(listings \cap (l + 1)..published) < size}
NextCursor(page, older) == IF page = older THEN None ELSE Min(page)

Publish ==
  /\ published < MaxListing
  /\ published' = published + 1
  /\ UNCHANGED <<gone, listId, row, described, reported, t, baseline, expired, trouble>>

\* The listing at l is raised: it leaves its place for the next one.
Raise(l) ==
  /\ l \in OnShow /\ published < MaxListing
  /\ trouble < MaxTrouble /\ trouble' = trouble + 1
  /\ TimeOf[published + 1] > TimeOf[l]
  /\ published' = published + 1
  /\ listId' = [listId EXCEPT ![published + 1] = listId[l]]
  /\ gone' = gone \cup {l}
  /\ UNCHANGED <<row, described, reported, t, baseline, expired>>

TakeDown(l) ==
  /\ l \in OnShow /\ trouble < MaxTrouble /\ trouble' = trouble + 1
  /\ gone' = gone \cup {l}
  /\ UNCHANGED <<published, listId, row, described, reported, t, baseline, expired>>

Expire ==
  /\ CursorsExpire /\ ~expired /\ row # None
  /\ row.checkpoint # None
  /\ expired' = TRUE
  /\ UNCHANGED <<feed, row, described, reported, t, baseline, trouble>>

-----------------------------------------------------------------------------
\* The traversal.

NoMaximum == [time |-> -1, ids |-> {}]

\* A traversal from the first page.
FromTop(phase) ==
  [phase |-> phase, cursor |-> None, pages |-> 0, seen |-> {}, found |-> {},
   maximum |-> NoMaximum, last |-> None, resumed |-> FALSE, left |-> DescriptionLimit,
   shown |-> {}, next |-> None]

\* parseCatchupCheckpoint: the traversal goes on where the last run stopped, with the
\* maximum it had reached and the last listing it had observed.
FromCheckpoint ==
  LET c == row.checkpoint IN
  IF c = None THEN FromTop("page")
  ELSE [FromTop("page") EXCEPT !.cursor = c.cursor, !.maximum = c.pending,
                               !.last = c.last, !.resumed = TRUE]

\* runMonitorCycle: no row, no baseline.
Start ==
  /\ t.phase = "idle"
  /\ t' = IF row = None THEN FromTop("baseline") ELSE FromCheckpoint
  /\ UNCHANGED <<feed, row, described, reported, baseline, expired, trouble>>

\* A listing seen before in this traversal, by its list id, is passed over; the rest must
\* not be newer than the one observed last.
Fresh(page) == {l \in page : \A k \in t.seen : listId[k] # listId[l]}
Rises(page) ==
  /\ t.last # None /\ Fresh(page) # {}
  /\ TimeOf[Max(Fresh(page))] > TimeOf[t.last]
LastSeenOnPage(processed) ==  \* mutant: the observation before an empty page is lost
  IF processed = {} THEN None ELSE Min(processed)
LastSeen(processed) == IF processed = {} THEN t.last ELSE Min(processed)

\* The newest time so far, and who has it.
WithMaximum(max, processed) ==
  LET time == Max({max.time} \cup {TimeOf[l] : l \in processed}) IN
  [time |-> time,
   ids |-> {l \in processed : TimeOf[l] = time} \cup IF time = max.time THEN max.ids ELSE {}]

\* A throw anywhere in the cycle ends the run; nothing has been stored.
Give == t' = Idle /\ UNCHANGED <<feed, row, described, reported, baseline, expired>>

-----------------------------------------------------------------------------
\* traverseColdStartBaseline reads until the tie at the newest time is closed.

StopsAtFirstPage(page, time) == TRUE  \* mutant: the tie may go on
TieClosed(page, time) == \E l \in page : TimeOf[l] < time

\* An empty first page makes the local time of the start the watermark; the clocks
\* agree, so it lies between the times of past and future listings.
LocalTime == IF published = 0 THEN 0 ELSE TimeOf[published]

BaselinePage(slip, size) ==
  LET older == Older(t.cursor, slip)
      page == Top(older, size)
      next == NextCursor(page, older)
      maximum == WithMaximum(t.maximum, Fresh(page))
      closed == TieClosed(Fresh(page), maximum.time) \/ next = None
      pages == t.pages + 1 IN
  /\ t.phase = "baseline"
  /\ t' = IF t.pages = 0 /\ page = {}
          THEN [t EXCEPT !.phase = "store", !.maximum = [time |-> LocalTime, ids |-> {}]]
          ELSE IF Rises(page) \/ (~closed /\ pages = MaxPages) THEN Idle
          ELSE [t EXCEPT !.phase = IF closed THEN "store" ELSE @,
                         !.cursor = next, !.pages = pages, !.seen = @ \cup Fresh(page),
                         !.maximum = maximum, !.last = LastSeen(Fresh(page)),
                         !.shown = IF t.pages = 0 THEN OnShow ELSE @]
  /\ UNCHANGED <<feed, row, described, reported, baseline, expired>>

\* persistColdStartBaselineTransaction.
StoreBaseline ==
  /\ t.phase = "store"
  /\ row' = [watermark |-> t.maximum, checkpoint |-> None]
  /\ baseline' = t.shown \cup t.seen
  /\ t' = Idle
  /\ UNCHANGED <<feed, described, reported, expired, trouble>>

-----------------------------------------------------------------------------
\* traverseWatermark reads until it has gone below the stored watermark.

Previous == row.watermark

\* The page up to and including the first listing below the watermark.
Below(page) == {l \in page : TimeOf[l] < Previous.time}
UpToBoundary(page) == LET below == Below(page) IN
  IF below = {} THEN page ELSE page \ {l \in below : l < Max(below)}
IsNewer(l) == TimeOf[l] > Previous.time  \* mutant: a tie with the boundary is known
IsNew(l) ==
  TimeOf[l] > Previous.time \/ (TimeOf[l] = Previous.time /\ l \notin Previous.ids)

AccumulatedWithoutUnion(maximum) ==  \* mutant: the boundary ids known before are lost
  IF maximum.time < Previous.time THEN Previous ELSE maximum
Accumulated(maximum) ==
  IF maximum.time < Previous.time THEN Previous
  ELSE IF maximum.time = Previous.time
       THEN [time |-> Previous.time, ids |-> Previous.ids \cup maximum.ids]
       ELSE maximum

\* What the run will store: the promoted watermark, or the old one and a checkpoint.
PromotesAnyway(maximum, last, cursor, crossed) ==  \* mutant: a cut traversal promotes too
  [watermark |-> Accumulated(maximum), checkpoint |-> None]
RowAfter(maximum, last, cursor, crossed) ==
  IF crossed \/ cursor = None
  THEN [watermark |-> Accumulated(maximum), checkpoint |-> None]
  ELSE [watermark |-> Previous,
        checkpoint |-> [cursor |-> cursor, pending |-> Accumulated(maximum), last |-> last]]

\* isStaleCatchupCheckpointError: it is the checkpoint's own last observation that the
\* page contradicts.  The traversal is made once more, from the top.
StaleCheckpoint == t.resumed /\ t.seen = {}

CursorAlive == ~(t.resumed /\ t.pages = 0 /\ expired)

IncrementalPage(slip, size) ==
  LET older == Older(t.cursor, slip)
      page == Top(older, size)
      next == NextCursor(page, older)
      processed == UpToBoundary(Fresh(page))
      crossed == Below(Fresh(page)) # {}
      maximum == WithMaximum(t.maximum, processed)
      pages == t.pages + 1
      done == crossed \/ next = None \/ pages = MaxPages IN
  /\ t.phase = "page" /\ CursorAlive
  /\ t' = IF Rises(page)
          THEN IF StaleCheckpoint THEN FromTop("page") ELSE Idle
          ELSE [t EXCEPT
                  !.phase = IF done THEN "describe" ELSE @,
                  !.cursor = next, !.pages = pages,
                  !.seen = @ \cup processed, !.found = @ \cup {l \in processed : IsNew(l)},
                  !.maximum = maximum, !.last = LastSeen(processed),
                  !.next = IF done THEN RowAfter(maximum, LastSeen(processed), next, crossed)
                                   ELSE @]
  /\ UNCHANGED <<feed, row, described, reported, baseline, expired>>

\* ensureDescription for the candidates, newest first; only what is not in the cache
\* costs a request, and the request too many fails the run.
Undescribed == {l \in t.found : listId[l] \notin described}
CacheNothing == UNCHANGED described  \* mutant: what was loaded is not stored
Cache == described' = described \cup {listId[Max(Undescribed)]}

Describe ==
  /\ t.phase = "describe" /\ Undescribed # {}
  /\ \/ /\ t.left > 0
        /\ t' = [t EXCEPT !.left = @ - 1]
        /\ Cache
     \/ /\ t.left = 0
        /\ t' = Idle
        /\ UNCHANGED described
  /\ UNCHANGED <<feed, row, reported, baseline, expired, trouble>>

\* persistMonitorRunTransaction: candidates, cursor and run together.
Store ==
  /\ t.phase = "describe" /\ Undescribed = {}
  /\ row' = t.next
  /\ reported' = reported \cup t.found
  /\ expired' = FALSE
  /\ t' = Idle
  /\ UNCHANGED <<feed, described, baseline, trouble>>

-----------------------------------------------------------------------------
\* A page in its place, or one that overlaps with what came before it.
ReadPage ==
  /\ \E size \in 1..PageSize : BaselinePage(0, size) \/ IncrementalPage(0, size)
  /\ UNCHANGED trouble
ReadOverlappingPage ==
  /\ trouble < MaxTrouble /\ trouble' = trouble + 1
  /\ t.phase \in {"baseline", "page"} /\ t.cursor # None
  /\ \E slip \in 1..MaxSlip, size \in 1..PageSize :
       BaselinePage(slip, size) \/ IncrementalPage(slip, size)

\* A forgotten cursor is a source error like any other.
CursorRefused ==
  /\ t.phase = "page" /\ ~CursorAlive
  /\ Give /\ UNCHANGED trouble

\* The source, the database or the process fails.
Fail ==
  /\ t.phase # "idle"
  /\ trouble < MaxTrouble /\ trouble' = trouble + 1
  /\ Give

Run == Start \/ ReadPage \/ StoreBaseline \/ Describe \/ Store \/ CursorRefused

Next ==
  \/ Run \/ ReadOverlappingPage \/ Fail
  \/ Publish \/ Expire \/ \E l \in Listing : Raise(l) \/ TakeDown(l)

\* pg-boss starts run after run, and every await ends; publications are finite here,
\* and so is the trouble the source makes.
Spec == Init /\ [][Next]_vars /\ WF_vars(Run)

-----------------------------------------------------------------------------
\* Properties.

\* A traversal under way.
Traversing ==
  [phase : {"baseline", "store", "page", "describe"}, cursor : Listing \cup {None},
   pages : 0..MaxPages, seen : SUBSET Listing, found : SUBSET Listing,
   maximum : Watermark \cup {NoMaximum}, last : Listing \cup {None},
   resumed : BOOLEAN, left : 0..DescriptionLimit, shown : SUBSET Listing,
   next : Row \cup {None}]

TypeOK ==
  /\ published \in 0..MaxListing
  /\ {gone, described, reported, baseline} \subseteq SUBSET Listing
  /\ listId \in [Listing -> Listing]
  /\ row \in Row \cup {None}
  /\ expired \in BOOLEAN /\ trouble \in 0..MaxTrouble
  /\ t \in {Idle} \cup Traversing

Dealt(w, l) == TimeOf[l] < w.time \/ l \in w.ids

\* A watermark never passes a listing that no run has stored: whatever lies below it
\* was there before the baseline, was reported, or left its place.  Through page caps,
\* resumed checkpoints, failed runs, ties, overlapping pages and a moving feed.  A listing
\* raised to a newer time counts as any other there: it has to be reported once more.
NothingMissed ==
  row # None =>
    \A l \in 1..published :
      Dealt(row.watermark, l) => l \in baseline \cup reported \cup gone

\* A listing that was on show when the monitor took its baseline is never reported, unless
\* it was raised since: what is reported of it has another place, at a newer list time.
BaselineStaysSilent ==
  \A l \in reported, k \in baseline :
    listId[l] = listId[k] => k < l /\ TimeOf[k] < TimeOf[l]

\* A stored watermark only grows: in time, or in the listings it knows at its time.
WatermarkGrows ==
  [][row # None =>
       LET old == row.watermark
           new == row'.watermark IN
       new.time > old.time \/ (new.time = old.time /\ old.ids \subseteq new.ids)]_row

\* What all of this is for: FeedWatch.  The monitor has passed what its stored watermark
\* has dealt with.
Passed == IF row = None THEN {} ELSE {l \in 1..published : Dealt(row.watermark, l)}
Watch == INSTANCE FeedWatch WITH
  published <- 1..published, begun <- row # None, silent <- baseline, passed <- Passed
KeepsFeedWatch == Watch!Spec

\* Catch-up converges: what was published after the baseline is reported in the end, and
\* no checkpoint is left of the way there, however deep the gap, however small the page
\* cap and the description budget, unless Kufar has forgotten the cursor to go on from.
CaughtUp ==
  (1..published) \ baseline \subseteq reported \cup gone /\ row.checkpoint = None
CatchesUp == []<>(row # None => CaughtUp \/ expired)
=============================================================================
