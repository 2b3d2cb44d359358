------------------------------ MODULE DesktopApp ------------------------------
(***************************************************************************)
(* Desktop processes, one of them with its window: the boot screen that    *)
(* follows the phases of the bootstrap (boot-screen-session, -visibility   *)
(* and -controller), and the pages that are mounted while it shows the     *)
(* application.  The window hears of phases by messages, in order.         *)
(***************************************************************************)
EXTENDS DesktopBoot, SettingsPage

CONSTANTS
  Windowed,  \* the desktop process whose window is modelled
  MaxMail    \* bound: unread messages when the user asks for a retry

ASSUME WindowedIsADesktop == Windowed \in Desktop
ASSUME NoneIsNoPhase == None \notin {"starting", "ready", "error"}

VARIABLES
  asked,  \* getBootState: not asked and nobody listens, asked, answered
  mail,   \* phases sent to the window
  shown,  \* the phase in the model of the boot screen
  timer,  \* the visibility timer is armed
  view,   \* 'pending', 'boot' or 'app'
  abroad  \* the token another process is writing to the file, or Absent

screen == <<asked, mail, shown, timer, view>>
vars == <<bootVars, pagesVars, secretVars, screen, abroad>>

NoScreen ==
  /\ asked' = "no" /\ mail' = <<>>
  /\ shown' = None /\ timer' = FALSE /\ view' = "pending"
NoPages ==
  /\ route' = "home" /\ page' = Absent /\ strays' = {}
  /\ change' = Absent /\ news' = <<>> /\ silent' = {}
  /\ UNCHANGED row

Init ==
  /\ BootInit
  /\ route = "home" /\ page = Absent /\ strays = {} /\ row = Absent
  /\ change = Absent /\ news = <<>> /\ silent = {}
  /\ secret = Absent /\ configured = Readable /\ saves = {} /\ clash = FALSE
  /\ asked = "no" /\ mail = <<>>
  /\ shown = None /\ timer = FALSE /\ view = "pending"
  /\ abroad = [p \in Desktop |-> Absent]

-----------------------------------------------------------------------------
\* The desktop processes.  Every phase that differs from the last is sent; the same
\* phase again changes nothing on the screen.
Sends ==
  mail' = IF PhaseAt(pc'[Windowed]) = Phase(Windowed) \/ At(Windowed, "off")
          THEN mail ELSE Append(mail, PhaseAt(pc'[Windowed]))

Boots(p) ==
  /\ Boot(p) /\ Smoothly /\ Sends
  /\ UNCHANGED <<pagesVars, secretVars, asked, shown, timer, view, abroad>>

\* A process without a window modelled is retried by its user all the same.
RetryElsewhere(p) ==
  /\ p # Windowed /\ Retry(p) /\ Smoothly
  /\ UNCHANGED <<pagesVars, secretVars, screen, abroad>>

Launches(p) ==
  /\ Launch(p) /\ IF p = Windowed THEN Smoothly ELSE Incident
  /\ IF p = Windowed
     THEN configured' = Readable ELSE UNCHANGED configured
  /\ UNCHANGED <<pagesVars, secret, saves, clash, screen, abroad>>

Repairs ==
  /\ Repair /\ Smoothly
  /\ UNCHANGED <<pagesVars, secretVars, screen, abroad>>

\* A worker that gives out takes its calls with it; they are rejected as failed.  A
\* process that dies while it writes leaves the file as it is.
Accidents ==
  /\ Accident /\ Incident
  /\ abroad' = [p \in Desktop |-> IF pc'[p] = "off" THEN Absent ELSE abroad[p]]
  /\ IF At(Windowed, "off") \/ pc'[Windowed] # "off"
     THEN Sends /\ UNCHANGED <<pagesVars, secretVars, asked, shown, timer, view>>
     ELSE /\ NoScreen /\ NoPages
          /\ saves' = {} /\ configured' = Absent /\ clash' = FALSE
          /\ UNCHANGED secret

-----------------------------------------------------------------------------
\* The boot screen.

\* onMounted of the root: createBootScreenSession.start subscribes, then asks.
Mounts ==
  /\ ~At(Windowed, "off") /\ asked = "no"
  /\ asked' = "asked"
  /\ UNCHANGED <<bootVars, pagesVars, secretVars, mail, shown, timer, view, abroad>>

AnswersBootState ==
  /\ asked = "asked" /\ asked' = "answered"
  /\ mail' = Append(mail, Phase(Windowed))
  /\ UNCHANGED <<bootVars, pagesVars, secretVars, shown, timer, view, abroad>>

\* hide() mounts the page of the route, show() unmounts it.
Hide ==
  /\ view' = "app"
  /\ IF view = "app" THEN UNCHANGED <<pagesVars, saves>>
     ELSE Mount(route) /\ UNCHANGED <<route, strays, row, change, news, saves>>
Reveal ==
  /\ view' = "boot"
  /\ IF view = "app"
     THEN Unmount /\ saves' = Disowned /\ UNCHANGED <<route, row, news, silent>>
     ELSE UNCHANGED <<pagesVars, saves>>

LeaveTimer == UNCHANGED timer  \* mutant: the timer runs on
CancelPending == timer' = FALSE

Update(phase) ==
  CASE phase = "ready" -> CancelPending /\ Hide
    [] phase = "error" -> CancelPending /\ Reveal
    [] OTHER -> timer' = TRUE /\ UNCHANGED <<view, pagesVars, saves>>

\* forwardState
Reads ==
  /\ mail # <<>> /\ mail' = Tail(mail)
  /\ IF asked # "no" THEN shown' = Head(mail) /\ Update(Head(mail))
     ELSE UNCHANGED <<shown, timer, view, pagesVars, saves>>
  /\ UNCHANGED <<bootVars, secret, configured, clash, asked, abroad>>

TimerFires ==
  /\ timer /\ timer' = FALSE
  /\ Reveal
  /\ UNCHANGED <<bootVars, secret, configured, clash, asked, mail, shown, abroad>>

\* The button is on the error screen; retryBoot does nothing in another phase.
Retries ==
  /\ view = "boot" /\ shown = "error" /\ Len(mail) <= MaxMail
  /\ Retry(Windowed) /\ Smoothly /\ Sends
  /\ UNCHANGED <<pagesVars, secretVars, asked, shown, timer, view, abroad>>

Window == Mounts \/ AnswersBootState \/ Reads \/ TimerFires \/ Retries

-----------------------------------------------------------------------------
\* The pages.

Served == Phase(Windowed) = "ready"

\* The worker reads the lists, makes the change, starts and ends runs; or fails to.  One
\* that has given out fails every call.
Rejected == IF Served THEN Incident ELSE Smoothly

Answers ==
  /\ \/ /\ page # Absent /\ page.kind # "settings"
        /\ \E q \in page.requests :
             \/ Served /\ (ReadLive(q) \/ ReadArchived(q)) /\ Smoothly
             \/ FailToRead(q) /\ Rejected
        /\ UNCHANGED <<strays, row, change, news, silent>>
     \/ /\ \E list \in strays : Served /\ ReadStray(list)
        /\ Smoothly /\ UNCHANGED <<page, row, change, news, silent>>
     \/ /\ \/ Served /\ Commits /\ Smoothly
           \/ Served /\ CommitsUnannounced /\ Incident
           \/ Refuses /\ Rejected
        /\ UNCHANGED <<page, strays>>
     \/ /\ \/ Served /\ RunStarts /\ Incident
           \/ Served /\ RunEnds /\ Smoothly
           \/ RunEndsUnheard /\ Smoothly
           \/ (\E p \in Desktop \ {Windowed} : At(p, "up")) /\ ChangesElsewhere /\ Incident
        /\ UNCHANGED <<page, strays, change>>
  /\ UNCHANGED <<host, process, route, secretVars, screen, abroad>>

\* Navigating away disowns the calls of a settings page.
Moves == saves' = IF On("settings") /\ route' # route THEN Disowned ELSE saves

Settles ==
  /\ view = "app"
  /\ \/ \E q \in IF page.kind = "settings" THEN {} ELSE page.requests :
          (SettleHome(q) \/ SettleMonitors(q)) /\ UNCHANGED saves
     \/ \E list \in strays : SettleStray(list) /\ Moves
  /\ UNCHANGED <<bootVars, row, news, secret, configured, clash, screen, abroad>>

Hears == Hear /\ UNCHANGED <<bootVars, secretVars, screen, abroad>>

Go(r) ==
  /\ view = "app" /\ r # route /\ Incident
  /\ Navigate(r) /\ Moves
  /\ UNCHANGED <<host, process, row, news, secret, configured, clash, screen, abroad>>

Changes ==
  /\ Incident
  /\ \E to \in {"active", "paused", "archived"} : Change(to)
  /\ UNCHANGED <<host, process, secretVars, screen, abroad>>

Enters ==
  /\ \/ (\E t \in Token : Type(t)) /\ Smoothly
     \/ (VerifyAndSave \/ ConfirmUnprotectedSave \/ CancelUnprotectedSave) /\ Smoothly
  /\ UNCHANGED <<host, process, route, strays, row, change, news, silent, screen, abroad>>

Saves ==
  /\ \E s \in saves :
       \/ (Verifies(s) \/ Checks(s) \/ Writes(s) \/ Configures(s)) /\ Smoothly
       \/ (VerifyFails(s) \/ CannotOpen(s) \/ WriteFails(s)) /\ Incident
  /\ UNCHANGED <<host, process, route, strays, row, change, news, silent, screen, abroad>>

\* Another process saves a token: it has the same file, and a supervisor of its own.
SavesElsewhere ==
  \E p \in Desktop \ {Windowed} :
    /\ ~At(p, "off") /\ Backend # "missing" /\ clash' = ~At(Windowed, "off")
    /\ \/ \E t \in Token :
            /\ abroad[p] = Absent /\ abroad' = [abroad EXCEPT ![p] = t]
            /\ secret' = Broken /\ Incident
       \/ /\ abroad[p] # Absent /\ abroad' = [abroad EXCEPT ![p] = Absent]
          /\ \/ secret' = [token |-> abroad[p], protection |-> Protection] /\ Smoothly
             \/ UNCHANGED secret /\ Incident
    /\ UNCHANGED <<host, process, pagesVars, configured, saves, screen>>

-----------------------------------------------------------------------------
Next ==
  \/ \E p \in Desktop : Boots(p) \/ RetryElsewhere(p) \/ Launches(p)
  \/ Repairs \/ Accidents
  \/ Window
  \/ Answers \/ Settles \/ Hears
  \/ \E r \in Route : Go(r)
  \/ Changes \/ Enters \/ Saves \/ SavesElsewhere

\* Calls to Docker end, messages arrive, timers fire; and whoever sees an error presses
\* the button, after he has removed a file the error complains about.
Fairness ==
  /\ \A p \in Desktop : WF_vars(Boots(p) \/ RetryElsewhere(p))
  /\ WF_vars(Window) /\ WF_vars(Repairs)

Spec == Init /\ [][Next]_vars /\ Fairness

-----------------------------------------------------------------------------
\* Properties.

\* The credentials in the file open what is in the volume and match the container, in
\* every order in which processes create them, die and start again.
OneSetOfCredentials ==
  /\ container # None => credentials = container.password
  /\ volume # None => credentials = volume

\* A window with no message and no timer left to come shows the phase of its process.
ScreenFollowsPhase ==
  asked = "answered" /\ mail = <<>> /\ ~timer =>
    /\ shown = Phase(Windowed)
    /\ view = IF shown = "ready" THEN "app" ELSE "boot"

\* With no save under way a running process uses the token in the file: through restarts
\* between the writing of the file and its use, pages left and asked again, saves of other
\* processes while it was off.  Excepted until it starts again are two saves that meet, a
\* writing that fails, and a save of another process while this one runs: nobody tells it.
SecretIsConfigured ==
  ~At(Windowed, "off") /\ saves = {} /\ ~clash => configured = Readable

\* Wherever a process, or another one beside it, died or failed, and whatever was stopped
\* or removed: the next one that is retried serves in the end.
ServedInTheEnd == []<>(pc[Windowed] \in {"off", "up"})
=============================================================================
