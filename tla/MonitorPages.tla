----------------------------- MODULE MonitorPages -----------------------------
(***************************************************************************)
(* The home page and the list of monitors, as they ask the worker for what *)
(* they show.  A page asks when it is mounted, when the worker says that a *)
(* monitor has changed, and after a change of its own; its requests are    *)
(* answered in any order, and each answer is what the database said at     *)
(* some moment in between.  One monitor with its last run; the worker      *)
(* answers or fails, and changes the row with a word to the window or      *)
(* without.                                                                *)
(***************************************************************************)
EXTENDS Integers, Sequences, FiniteSets

CONSTANTS
  MaxRuns,      \* bound: runs of the monitor
  MaxRequests,  \* bound: requests of a page under way when one more is made
  Unread,       \* a list that has not been read yet
  Failed,       \* a list that could not be read
  Absent        \* no monitor in a list, no page mounted, no call under way

ASSUME AbsentIsNoCall ==
  Absent \notin [to : {"active", "paused", "archived"}, step : {"sent", "answered"},
                 mine : BOOLEAN, creates : BOOLEAN]

\* What the database has of the monitor, a list of monitors, and the page of the monitors.
MonitorRow == [state : {"active", "paused", "archived"}, runs : Nat, running : BOOLEAN]
MonitorList == {Unread, Failed, Absent} \cup MonitorRow
ListRequest == [id : Nat, live : MonitorList, archived : MonitorList]
MonitorsRecord ==
  [kind : {"monitors"}, latest : Nat, requests : SUBSET ListRequest, live : MonitorList,
   archived : MonitorList, error : BOOLEAN, busy : {"no", "call", "refresh"}, awaits : Nat]

ASSUME AbsentIsNoMonitor == Absent \notin MonitorRow
ASSUME AbsentIsNoMonitorsPage == Absent \notin MonitorsRecord

VARIABLES
  route,   \* the route of the window
  page,    \* the page mounted on it, with what it keeps
  strays,  \* what the unanswered requests of abandoned home pages have read so far
  row,     \* the monitor in the database
  change,  \* the call of createMonitor or setMonitorState under way
  news,    \* what the worker has sent and the page has not handled: events and results
  silent   \* history: what changed unannounced since lists were asked for last

pagesVars == <<route, page, strays, row, change, news, silent>>

Route == {"home", "monitors", "settings"}

\* listMonitors and listMonitors(true).
Live == IF row # Absent /\ row.state # "archived" THEN row ELSE Absent
Archived == IF row # Absent /\ row.state = "archived" THEN row ELSE Absent

On(kind) == page # Absent /\ page.kind = kind

-----------------------------------------------------------------------------
\* Requests.  monitorRequest and monitorListRequest number them from 1 for each page.

Request(id) == [id |-> id, live |-> Unread, archived |-> Unread]
Asking(p) ==
  [p EXCEPT !.latest = @ + 1, !.requests = @ \cup {Request(p.latest + 1)}]

\* refreshMonitors
Refreshed(p) ==
  CASE p.kind = "home" -> [Asking(p) EXCEPT !.state = "loading"]
    [] p.kind = "monitors" -> Asking(p)
    [] OTHER -> p

Home == [kind |-> "home", latest |-> 0, requests |-> {}, state |-> "loading"]
Monitors ==
  [kind |-> "monitors", latest |-> 0, requests |-> {}, live |-> Absent,
   archived |-> Absent, error |-> FALSE, busy |-> "no", awaits |-> 0]
Settings ==
  [kind |-> "settings", input |-> Absent, verified |-> Absent, consent |-> FALSE,
   busy |-> "no"]

\* onMounted
Mounted(r) ==
  Refreshed(CASE r = "home" -> Home [] r = "monitors" -> Monitors [] OTHER -> Settings)

\* onUnmounted ends subscriptions, not requests.
Left ==
  /\ change' = IF change = Absent THEN Absent ELSE [change EXCEPT !.mine = FALSE]
  /\ strays' = strays \cup IF On("home")
                           THEN {q.live : q \in {q \in page.requests : q.id = page.latest}}
                           ELSE {}

Mount(r) == page' = Mounted(r) /\ silent' = IF r = "settings" THEN silent ELSE {}
Unmount == page' = Absent /\ Left

\* A navigation to where one is does nothing.
Navigate(r) ==
  IF r = route THEN UNCHANGED <<route, page, strays, change, silent>>
  ELSE /\ route' = r
       /\ IF page = Absent THEN UNCHANGED <<page, strays, change, silent>>
          ELSE Mount(r) /\ Left

-----------------------------------------------------------------------------
\* The worker.

\* The two lists are read one by one.
ReadLive(q) ==
  /\ q.live = Unread
  /\ page' = [page EXCEPT !.requests = (@ \ {q}) \cup {[q EXCEPT !.live = Live]}]
ReadArchived(q) ==
  /\ page.kind = "monitors" /\ q.archived = Unread
  /\ page' = [page EXCEPT !.requests = (@ \ {q}) \cup {[q EXCEPT !.archived = Archived]}]
FailToRead(q) ==
  /\ q.live = Unread
  /\ page' = [page EXCEPT !.requests = (@ \ {q}) \cup {[q EXCEPT !.live = Failed]}]

\* One that fails goes unheard.
ReadStray(list) ==
  /\ list = Unread /\ \E l \in {{Live}, {}} : strays' = (strays \ {list}) \cup l

RowWith(state) ==
  IF row = Absent THEN [state |-> state, runs |-> 0, running |-> FALSE]
  ELSE [row EXCEPT !.state = state]

\* The database has the change; the schedule follows or fails.  Only a call that
\* succeeds is announced.
Committed ==
  /\ change # Absent /\ change.step = "sent"
  /\ row' = RowWith(change.to)
  /\ change' = [change EXCEPT !.step = "answered"]

Commits == Committed /\ news' = news \o <<"changed", "done">> /\ UNCHANGED silent

CommitsUnannounced ==
  Committed /\ news' = Append(news, "failed") /\ silent' = silent \cup {"state"}

Refuses ==
  /\ change # Absent /\ change.step = "sent"
  /\ change' = [change EXCEPT !.step = "answered"]
  /\ news' = Append(news, "failed") /\ UNCHANGED <<row, silent>>

\* The start of a run is recorded and not announced.
RunStarts ==
  /\ row # Absent /\ row.state = "active" /\ ~row.running /\ row.runs < MaxRuns
  /\ row' = [row EXCEPT !.runs = @ + 1, !.running = TRUE]
  /\ silent' = silent \cup {"run"} /\ UNCHANGED news

\* Its end is announced ...
RunEnds ==
  /\ row # Absent /\ row.running
  /\ row' = [row EXCEPT !.running = FALSE]
  /\ news' = Append(news, "changed") /\ UNCHANGED silent

\* ... unless the worker dies before the event is out, or at any moment of the run, and the
\* next one records the end, in its startup recovery; or the run is another process's.
RunEndsUnheard ==
  /\ row # Absent /\ row.running
  /\ row' = [row EXCEPT !.running = FALSE]
  /\ silent' = silent \cup {"run"} /\ UNCHANGED news

\* The worker of another desktop process, which tells its own window.
ChangesElsewhere ==
  /\ \E to \in {"active", "paused", "archived"} : row' = RowWith(to) /\ row' # row
  /\ silent' = silent \cup {"state"} /\ UNCHANGED news

-----------------------------------------------------------------------------
\* The window.

AlwaysLatest(q) == TRUE  \* mutant: the answer of an older request is taken as well
IsLatest(q) == q.id = page.latest

Read(q) == q.live = Failed \/ Unread \notin {q.live, q.archived}

\* After an await: is this request still the last one?
SettleHome(q) ==
  /\ On("home") /\ q.live # Unread
  /\ IF ~IsLatest(q)
     THEN page' = [page EXCEPT !.requests = @ \ {q}]
          /\ UNCHANGED <<route, strays, change, silent>>
     ELSE IF q.live \in {Failed, Absent}
     THEN page' = [page EXCEPT !.requests = @ \ {q},
                               !.state = IF q.live = Failed THEN "error" ELSE "ready"]
          /\ UNCHANGED <<route, strays, change, silent>>
     ELSE Navigate("monitors")

\* The await of a change ends with its refresh, whether that one is the last or not.
SettleMonitors(q) ==
  /\ On("monitors") /\ Read(q)
  /\ LET p == [page EXCEPT !.requests = @ \ {q},
                           !.busy = IF @ = "refresh" /\ page.awaits = q.id THEN "no" ELSE @]
     IN page' = IF ~IsLatest(q) THEN p
                ELSE IF q.live = Failed THEN [p EXCEPT !.error = TRUE]
                ELSE [p EXCEPT !.live = q.live, !.archived = q.archived, !.error = FALSE]
  /\ UNCHANGED <<route, strays, change, silent>>

\* Nobody looks whether the page that asked is still there.
SettleStray(list) ==
  /\ list # Unread
  /\ IF list \in {Failed, Absent} \/ route = "monitors"
     THEN strays' = strays \ {list} /\ UNCHANGED <<route, page, change, silent>>
     ELSE /\ route' = "monitors" /\ strays' = strays \ {list}
          /\ IF page = Absent THEN UNCHANGED <<page, change, silent>>
             ELSE /\ Mount("monitors")
                  /\ change' = IF change = Absent THEN Absent
                               ELSE [change EXCEPT !.mine = FALSE]

\* toggleMonitorState, archiveMonitor, restoreMonitor, submit: what is offered is what
\* the page shows.
Offered ==
  (IF page.live = Absent THEN {}
   ELSE {IF page.live.state = "active" THEN "paused" ELSE "active", "archived"})
    \cup (IF page.archived = Absent /\ row # Absent THEN {} ELSE {"active"})

Change(to) ==
  /\ On("monitors") /\ page.busy = "no" /\ change = Absent
  /\ to \in Offered
  /\ change' = [to |-> to, step |-> "sent", mine |-> TRUE, creates |-> row = Absent]
  /\ page' = [page EXCEPT !.busy = "call", !.error = @ /\ row = Absent]
  /\ UNCHANGED <<route, strays, row, news, silent>>

\* onChanged, and the results of a change.  A failed creation has a message of its own.
Hear ==
  /\ news # <<>> /\ news' = Tail(news)
  /\ On("home") \/ On("monitors") => Cardinality(page.requests) < MaxRequests
  /\ CASE Head(news) = "changed" ->
            /\ page' = IF page = Absent THEN Absent ELSE Refreshed(page)
            /\ silent' = IF On("home") \/ On("monitors") THEN {} ELSE silent
            /\ UNCHANGED change
       [] Head(news) = "done" ->
            /\ page' = IF change.mine
                       THEN [Refreshed(page) EXCEPT !.busy = "refresh",
                                                    !.awaits = page.latest + 1]
                       ELSE page
            /\ silent' = IF change.mine THEN {} ELSE silent
            /\ change' = Absent
       [] OTHER ->
            /\ page' = IF change.mine
                       THEN [page EXCEPT !.busy = "no", !.error = @ \/ ~change.creates]
                       ELSE page
            /\ change' = Absent
            /\ UNCHANGED silent
  /\ UNCHANGED <<route, strays, row>>

-----------------------------------------------------------------------------
SameState(shown, there) ==
  /\ shown = Absent <=> there = Absent
  /\ shown # Absent => shown.state = there.state

\* A page with nothing under way shows the state that the database has, or says that it
\* could not ask: whatever the order of answers, changes, runs and failures.  It shows the
\* last run as well, unless that has changed unannounced: at its start, or when its worker
\* died.  A state committed and reported as failed, or changed by another desktop process,
\* is unannounced, too.  What is unannounced is shown by the next request, which nothing
\* causes.
PagesShowTheDatabase ==
  change = Absent /\ news = <<>> /\ "state" \notin silent =>
    /\ On("monitors") /\ page.requests = {} =>
         \/ page.error
         \/ /\ SameState(page.live, Live) /\ SameState(page.archived, Archived)
            /\ "run" \notin silent => page.live = Live /\ page.archived = Archived
    /\ On("home") /\ page.state = "ready" => Live = Absent
=============================================================================
