-------------------------- MODULE DesktopAppProofs --------------------------
(***************************************************************************)
(* What DesktopApp guarantees for any number of desktop processes, tokens, *)
(* saves, requests, changes and accidents: the credentials fit what Docker *)
(* has, the window shows the phase of its process, the warning is about    *)
(* the token in the field, the token in use is the one in the file, and    *)
(* the lists are what the database has.                                    *)
(***************************************************************************)
EXTENDS DesktopApp, TLAPS

USE NothingIsNoPassword, WindowedIsADesktop

-----------------------------------------------------------------------------
\* The credentials.

PastCredentials == {"inspect", "create", "start", "health", "migrate"}

HostTypes ==
  /\ credentials \in Password \cup {None, Torn}
  /\ volume \in Password \cup {None}
  /\ container = None \/ container \in [password : Password, running : BOOLEAN]
  /\ pc \in [Desktop -> {"off", "read", "open", "write", "up", "error"} \cup PastCredentials]
  /\ key \in [Desktop -> Password \cup {None}]

\* A file that is complete stays, and whoever is past it has its password; one that is not
\* is written by nobody but the process that has opened it, over an empty host.
Owned ==
  \A p \in Desktop :
    /\ pc[p] \in PastCredentials => key[p] = credentials /\ key[p] \in Password
    /\ At(p, "write") => credentials = Torn /\ key[p] \in Password
    /\ At(p, "write") => \A q \in Desktop : At(q, "write") => q = p

HostInv == HostTypes /\ Owned /\ OneSetOfCredentials

LEMMA InitHost == Init => HostInv
<1> SUFFICES ASSUME Init PROVE HostInv
  OBVIOUS
<1>1. 1 \in Password
  BY BootBounds DEF Password
<1>2. HostTypes
  <2>1. credentials \in Password \cup {None, Torn} /\ volume \in Password \cup {None}
    BY <1>1 DEF Init, BootInit
  <2>2. container = None \/ container \in [password : Password, running : BOOLEAN]
    <3>1. CASE volume = None
      <4>1. container \in {None} \cup {}
        BY <3>1 DEF Init, BootInit
      <4> QED
        BY <4>1
    <3>2. CASE volume # None
      <4>1. container \in {None} \cup {[password |-> volume, running |-> FALSE]}
        BY <3>2 DEF Init, BootInit
      <4>2. volume \in Password
        BY <2>1, <3>2
      <4> HIDE DEF Init
      <4>3. [password |-> volume, running |-> FALSE] \in [password : Password, running : BOOLEAN]
        BY <4>2
      <4> QED
        BY <4>1, <4>3
    <3> QED
      BY <3>1, <3>2
  <2> QED
    BY <2>1, <2>2 DEF Init, BootInit, HostTypes
<1>3. Owned
  BY DEF Init, BootInit, Owned, At, PastCredentials
<1>4. OneSetOfCredentials
  BY DEF Init, BootInit, OneSetOfCredentials
<1> QED
  BY <1>2, <1>3, <1>4 DEF HostInv

\* A process that gives up leaves the host alone.
LEMMA FailKeepsHost ==
  ASSUME HostInv, NEW p \in Desktop, NEW step \in {"off", "error"},
         Goto(p, step), Forget(p), UNCHANGED host
  PROVE  HostInv'
BY DEF HostInv, HostTypes, Owned, OneSetOfCredentials, Goto, Forget, host, At, PastCredentials

LEMMA UseKeepsHost ==
  ASSUME HostInv, NEW p \in Desktop, credentials # None, Use(p, credentials)
  PROVE  HostInv'
<1>1. CASE credentials = Torn
  BY <1>1, FailKeepsHost DEF Use, Fail
<1>2. CASE credentials # Torn
  BY <1>2 DEF Use, HostInv, HostTypes, Owned, OneSetOfCredentials, Goto, host, At,
              PastCredentials
<1> QED
  BY <1>1, <1>2

\* No step of a bootstrap mixes two sets of credentials.
LEMMA BootKeepsHost ==
  ASSUME HostInv, NEW p \in Desktop, Boot(p)
  PROVE  HostInv'
<1> USE DEF HostInv, HostTypes, Owned, OneSetOfCredentials, Goto, host, At, PastCredentials
<1>1. CASE ReadCredentials(p)
  BY <1>1, UseKeepsHost DEF ReadCredentials
<1>2. CASE OpenCredentials(p)
  <2>1. CASE credentials # None
    BY <1>2, <2>1, UseKeepsHost DEF OpenCredentials, OpenExclusively
  <2>2. CASE credentials = None
    <3>1. PICK w \in Password : key' = [key EXCEPT ![p] = w]
      BY <1>2, <2>2 DEF OpenCredentials, OpenExclusively, OpenAnyway, Fresh
    <3>2. \A q \in Desktop : ~At(q, "write")
      BY <2>2
    <3>3. /\ credentials' = Torn /\ pc' = [pc EXCEPT ![p] = "write"]
          /\ UNCHANGED <<container, volume>>
      BY <1>2, <2>2 DEF OpenCredentials, OpenExclusively, OpenAnyway
    <3>4. HostTypes'
      BY <3>1, <3>3
    <3>5. \A q \in Desktop : pc[q] \notin PastCredentials
      BY <2>2
    <3>6. Owned'
      BY <3>1, <3>2, <3>3, <3>5
    <3>7. OneSetOfCredentials'
      BY <2>2, <3>3
    <3> QED
      BY <3>4, <3>6, <3>7
  <2> QED
    BY <2>1, <2>2
<1>3. CASE WriteCredentials(p)
  <2>1. \A q \in Desktop : pc[q] \notin PastCredentials
    BY <1>3 DEF WriteCredentials
  <2> QED
    BY <1>3, <2>1 DEF WriteCredentials
<1>4. CASE Inspect(p)
  BY <1>4, FailKeepsHost DEF Inspect, StartIfStopped
<1>5. CASE CreateContainer(p)
  <2>1. CASE container # None
    BY <1>5, <2>1, FailKeepsHost DEF CreateContainer, Fail
  <2>2. CASE container = None
    <3>1. key[p] = credentials /\ key[p] \in Password
      BY <1>5, <2>2 DEF CreateContainer
    <3>2. /\ container' = [password |-> key[p], running |-> FALSE]
          /\ pc' = [pc EXCEPT ![p] = "start"]
          /\ UNCHANGED <<credentials, volume, key>>
      BY <1>5, <2>2 DEF CreateContainer
    <3>3. HostTypes'
      BY <3>1, <3>2
    <3> QED
      BY <3>1, <3>2, <3>3
  <2> QED
    BY <2>1, <2>2
<1>6. CASE StartContainer(p)
  <2>1. CASE Fail(p)
    BY <2>1, FailKeepsHost DEF Fail
  <2>2. CASE ~Fail(p)
    BY <1>6, <2>2 DEF StartContainer
  <2> QED
    BY <2>1, <2>2
<1>7. CASE Healthy(p)
  BY <1>7 DEF Healthy
<1>8. CASE HealthTimesOut(p)
  BY <1>8, FailKeepsHost DEF HealthTimesOut, Fail
<1>9. CASE Migrate(p)
  BY <1>9 DEF Migrate, Forget
<1> QED
  BY <1>1, <1>2, <1>3, <1>4, <1>5, <1>6, <1>7, <1>8, <1>9 DEF Boot

\* Neither does anything that befalls the host.
LEMMA AccidentKeepsHost ==
  ASSUME HostInv, Accident
  PROVE  HostInv'
<1> USE DEF HostInv, HostTypes, Owned, OneSetOfCredentials, process, At, PastCredentials
<1>1. CASE DockerStops
  BY <1>1 DEF DockerStops, Serves
<1>2. CASE RemoveContainer
  BY <1>2 DEF RemoveContainer
<1>3. CASE RemoveVolume
  BY <1>3 DEF RemoveVolume
<1>4. ASSUME NEW p \in Desktop, Fault(p) PROVE HostInv'
  BY <1>4, FailKeepsHost DEF Fault, Fail
<1>5. ASSUME NEW p \in Desktop, Die(p) PROVE HostInv'
  BY <1>5, FailKeepsHost DEF Die
<1> QED
  BY <1>1, <1>2, <1>3, <1>4, <1>5 DEF Accident

LEMMA IdleKeepsHost == HostInv /\ UNCHANGED <<host, process>> => HostInv'
BY DEF HostInv, HostTypes, Owned, OneSetOfCredentials, host, process, At, PastCredentials

LEMMA HostStep == HostInv /\ [Next]_vars => HostInv'
<1> SUFFICES ASSUME HostInv, [Next]_vars PROVE HostInv'
  OBVIOUS
<1> USE DEF bootVars
<1>1. ASSUME NEW p \in Desktop, Boots(p) PROVE HostInv'
  BY <1>1, BootKeepsHost DEF Boots
<1>2. ASSUME NEW p \in Desktop, Retry(p) PROVE HostInv'
  BY <1>2 DEF Retry, HostInv, HostTypes, Owned, OneSetOfCredentials, Goto, host, At,
              PastCredentials
<1>3. ASSUME NEW p \in Desktop, Launches(p) PROVE HostInv'
  BY <1>3 DEF Launches, Launch, HostInv, HostTypes, Owned, OneSetOfCredentials, Goto, host,
              At, PastCredentials
<1>4. CASE Repairs
  BY <1>4 DEF Repairs, Repair, HostInv, HostTypes, Owned, OneSetOfCredentials, process, At,
              PastCredentials
<1>5. CASE Accidents
  BY <1>5, AccidentKeepsHost DEF Accidents
<1>6. CASE Window
  <2>1. CASE Retries
    BY <1>2, <2>1 DEF Retries
  <2>2. CASE ~Retries
    BY <1>6, <2>2, IdleKeepsHost DEF Window, Mounts, AnswersBootState, Reads, TimerFires
  <2> QED
    BY <2>1, <2>2
<1>7. CASE Answers \/ Settles \/ Hears \/ Changes \/ Enters \/ Saves \/ SavesElsewhere
  BY <1>7, IdleKeepsHost DEF Answers, Settles, Hears, Changes, Enters, Saves, SavesElsewhere
<1>8. ASSUME NEW r \in Route, Go(r) PROVE HostInv'
  BY <1>8, IdleKeepsHost DEF Go
<1>9. CASE UNCHANGED vars
  BY <1>9, IdleKeepsHost DEF vars
<1> QED
  BY <1>1, <1>2, <1>3, <1>4, <1>5, <1>6, <1>7, <1>8, <1>9 DEF Next, RetryElsewhere

\* OneSetOfCredentials: a process that starts, dies or finds the file of another never gives
\* container or volume a password that is not the one in the file.
THEOREM CredentialsFit == Spec => []OneSetOfCredentials
<1>1. HostInv => OneSetOfCredentials
  BY DEF HostInv
<1> QED
  BY <1>1, InitHost, HostStep, PTL DEF Spec

-----------------------------------------------------------------------------
\* The boot screen.

PhaseName == {"starting", "ready", "error"}

\* The last word on the way to the window is the phase of its process, and what the window
\* has heard decides what it shows.
LastWord ==
  asked = "answered" =>
    Phase(Windowed) = IF mail = <<>> THEN shown ELSE mail[Len(mail)]
ShowsWhatItHeard ==
  /\ shown = "ready" => view = "app" /\ ~timer
  /\ shown = "error" => view = "boot" /\ ~timer
  /\ shown = "starting" => timer \/ view = "boot"
NoWindowWithoutProcess == At(Windowed, "off") => asked = "no"

ScreenInv ==
  /\ mail \in Seq(PhaseName) /\ shown \in PhaseName \cup {None}
  /\ LastWord /\ ShowsWhatItHeard /\ NoWindowWithoutProcess

LEMMA PhaseIsAName == \A step : PhaseAt(step) \in PhaseName
BY DEF PhaseAt, PhaseName

LEMMA InitScreen == Init => ScreenInv
BY NoneIsNoPhase DEF Init, ScreenInv, LastWord, ShowsWhatItHeard, NoWindowWithoutProcess, PhaseName

\* What is sent becomes the last word.
LEMMA SendsTheLastWord ==
  ASSUME ScreenInv, Sends, UNCHANGED <<asked, shown, timer, view>>,
         At(Windowed, "off") \/ pc'[Windowed] # "off"
  PROVE  ScreenInv'
<1> USE DEF ScreenInv, NoWindowWithoutProcess, At
<1>1. CASE PhaseAt(pc'[Windowed]) = Phase(Windowed) \/ At(Windowed, "off")
  BY <1>1 DEF Sends, LastWord, ShowsWhatItHeard, Phase
<1>2. CASE ~(PhaseAt(pc'[Windowed]) = Phase(Windowed) \/ At(Windowed, "off"))
  <2>1. mail' = Append(mail, PhaseAt(pc'[Windowed])) /\ PhaseAt(pc'[Windowed]) \in PhaseName
    BY <1>2, PhaseIsAName DEF Sends
  <2>2. mail' \in Seq(PhaseName) /\ mail' # <<>> /\ mail'[Len(mail')] = PhaseAt(pc'[Windowed])
    BY <2>1
  <2> QED
    BY <1>2, <2>2 DEF LastWord, ShowsWhatItHeard, Phase
<1> QED
  BY <1>1, <1>2

LEMMA BootStaysOn ==
  ASSUME HostInv, NEW p \in Desktop, Boot(p), pc[Windowed] # "off"
  PROVE  pc'[Windowed] # "off"
<1>1. pc \in [Desktop -> {"off", "read", "open", "write", "up", "error"} \cup PastCredentials]
  BY DEF HostInv, HostTypes
<1>2. \E step : Goto(p, step) /\ step # "off"
  BY DEF Boot, ReadCredentials, OpenCredentials, OpenExclusively, OpenAnyway, Use, Fail,
         WriteCredentials, Inspect, StartIfStopped, CreateContainer, StartContainer, Healthy,
         HealthTimesOut, Migrate
<1> QED
  BY <1>1, <1>2 DEF Goto

LEMMA ReadingFollows ==
  ASSUME ScreenInv, Reads
  PROVE  ScreenInv'
<1> USE DEF ScreenInv
<1>1. mail # <<>> /\ mail' = Tail(mail) /\ mail' \in Seq(PhaseName) /\ Head(mail) \in PhaseName
  BY DEF Reads
<1>2. mail' = <<>> => mail[Len(mail)] = Head(mail)
  <2>1. Len(mail') = Len(mail) - 1 /\ Len(mail) \in Nat
    BY <1>1
  <2>2. mail' = <<>> => Len(mail') = 0
    OBVIOUS
  <2>3. mail' = <<>> => Len(mail) = 1
    BY <2>1, <2>2
  <2> QED
    BY <1>1, <2>3
<1>3. mail' # <<>> => mail'[Len(mail')] = mail[Len(mail)]
  BY <1>1
<1>4. UNCHANGED <<asked, pc>>
  BY DEF Reads, bootVars, process
<1>5. CASE asked # "no"
  <2>1. shown' = Head(mail) /\ Update(Head(mail))
    BY <1>5 DEF Reads
  <2>2. ShowsWhatItHeard'
    BY <1>1, <2>1, NoneIsNoPhase
    DEF Update, CancelPending, Hide, Reveal, ShowsWhatItHeard, PhaseName
  <2>3. LastWord'
    BY <1>1, <1>2, <1>3, <1>4, <2>1 DEF LastWord, Phase
  <2> QED
    BY <1>1, <1>4, <2>1, <2>2, <2>3 DEF NoWindowWithoutProcess, At
<1>6. CASE asked = "no"
  <2>1. UNCHANGED <<shown, timer, view>>
    BY <1>6 DEF Reads
  <2> QED
    BY <1>1, <1>4, <1>6, <2>1 DEF LastWord, ShowsWhatItHeard, NoWindowWithoutProcess, At
<1> QED
  BY <1>5, <1>6

LEMMA IdleScreen == ScreenInv /\ UNCHANGED <<screen, pc[Windowed]>> => ScreenInv'
BY DEF ScreenInv, LastWord, ShowsWhatItHeard, NoWindowWithoutProcess, screen, Phase, At

LEMMA ScreenStep == HostInv /\ ScreenInv /\ [Next]_vars => ScreenInv'
<1> SUFFICES ASSUME HostInv, ScreenInv, [Next]_vars PROVE ScreenInv'
  OBVIOUS
<1> USE DEF bootVars, process
<1>0. pc \in [Desktop -> {"off", "read", "open", "write", "up", "error"} \cup PastCredentials]
  BY DEF HostInv, HostTypes
<1>1. ASSUME NEW p \in Desktop, Boots(p) PROVE ScreenInv'
  BY <1>1, BootStaysOn, SendsTheLastWord DEF Boots, At
<1>2. ASSUME NEW p \in Desktop, RetryElsewhere(p) PROVE ScreenInv'
  BY <1>0, <1>2, IdleScreen DEF RetryElsewhere, Retry, Goto
<1>3. ASSUME NEW p \in Desktop, Launches(p) PROVE ScreenInv'
  <2>1. CASE p = Windowed
    <3>1. UNCHANGED screen /\ asked = "no"
      BY <1>3, <2>1 DEF Launches, Launch, ScreenInv, NoWindowWithoutProcess
    <3> QED
      BY <3>1 DEF ScreenInv, LastWord, ShowsWhatItHeard, NoWindowWithoutProcess, screen
  <2>2. CASE p # Windowed
    BY <1>0, <1>3, <2>2, IdleScreen DEF Launches, Launch, Goto
  <2> QED
    BY <2>1, <2>2
<1>4. CASE Accidents
  <2>1. CASE At(Windowed, "off") \/ pc'[Windowed] # "off"
    BY <1>4, <2>1, SendsTheLastWord DEF Accidents
  <2>2. CASE ~(At(Windowed, "off") \/ pc'[Windowed] # "off")
    <3>1. NoScreen
      BY <1>4, <2>2 DEF Accidents
    <3> QED
      BY <3>1, NoneIsNoPhase
      DEF NoScreen, ScreenInv, LastWord, ShowsWhatItHeard, NoWindowWithoutProcess, PhaseName
  <2> QED
    BY <2>1, <2>2
<1>5. CASE Window
  <2>1. CASE Mounts
    BY <2>1 DEF Mounts, ScreenInv, LastWord, ShowsWhatItHeard, NoWindowWithoutProcess, At
  <2>2. CASE AnswersBootState
    <3>1. mail' = Append(mail, Phase(Windowed)) /\ Phase(Windowed) \in PhaseName
      BY <2>2, PhaseIsAName DEF AnswersBootState, Phase
    <3>2. mail' \in Seq(PhaseName) /\ mail' # <<>> /\ mail'[Len(mail')] = Phase(Windowed)
      BY <3>1 DEF ScreenInv
    <3>3. UNCHANGED <<pc, shown, timer, view>> /\ asked = "asked"
      BY <2>2 DEF AnswersBootState
    <3> QED
      BY <3>2, <3>3
      DEF ScreenInv, LastWord, ShowsWhatItHeard, NoWindowWithoutProcess, Phase, At
  <2>3. CASE Reads
    BY <2>3, ReadingFollows
  <2>4. CASE TimerFires
    BY <2>4 DEF TimerFires, Reveal, ScreenInv, LastWord, ShowsWhatItHeard,
                NoWindowWithoutProcess, Phase, At
  <2>5. CASE Retries
    <3>1. pc'[Windowed] = "read"
      BY <1>0, <2>5 DEF Retries, Retry, Goto
    <3> QED
      BY <2>5, <3>1, SendsTheLastWord DEF Retries
  <2> QED
    BY <1>5, <2>1, <2>2, <2>3, <2>4, <2>5 DEF Window
<1>6. CASE \/ Repairs \/ Answers \/ Settles \/ Hears \/ Changes \/ Enters \/ Saves
           \/ SavesElsewhere
  BY <1>6, IdleScreen DEF Repairs, Repair, Answers, Settles, Hears, Changes, Enters, Saves,
                          SavesElsewhere
<1>7. ASSUME NEW r \in Route, Go(r) PROVE ScreenInv'
  BY <1>7, IdleScreen DEF Go
<1>8. CASE UNCHANGED vars
  BY <1>8, IdleScreen DEF vars
<1> QED
  BY <1>1, <1>2, <1>3, <1>4, <1>5, <1>6, <1>7, <1>8 DEF Next

\* ScreenFollowsPhase: however phases, the answer to the first question and the timer follow
\* one another, a window that has heard everything shows the phase there is.
THEOREM ScreenIsRight == Spec => []ScreenFollowsPhase
<1>1. ScreenInv => ScreenFollowsPhase
  <2>1. Phase(Windowed) \in PhaseName
    BY PhaseIsAName DEF Phase
  <2> QED
    BY <2>1 DEF ScreenInv, LastWord, ShowsWhatItHeard, ScreenFollowsPhase, PhaseName
<1> QED
  BY <1>1, InitHost, HostStep, InitScreen, ScreenStep, PTL DEF Spec

-----------------------------------------------------------------------------
\* The settings page and its saves.

USE AbsentIsNoCall, AbsentIsNoPage, AbsentIsNoMonitorsPage

SettingsRecord ==
  [kind : {"settings"}, input : Token \cup {Absent}, verified : Token \cup {Absent},
   consent : BOOLEAN, busy : {"no", "verify", "save"}]
SaveRecord ==
  [token : Token, step : {"verify", "check", "write", "written"}, allow : BOOLEAN,
   mine : BOOLEAN]

\* The page waits for the one save it owns, and its field stays as that save took it.
SavesInv ==
  /\ On("settings") => page \in SettingsRecord
  /\ saves \subseteq SaveRecord
  /\ \A s, o \in saves : s.mine /\ o.mine => s = o
  /\ \A s \in saves : s.mine =>
       /\ On("settings") /\ page.busy # "no" /\ page.input = s.token
       /\ s.step # "verify" => page.verified = s.token
  /\ ConsentIsForTheTokenShown

-----------------------------------------------------------------------------
\* The window: what a page is and whose a change is.

ChangeRecord ==
  [to : {"active", "paused", "archived"}, step : {"sent", "answered"}, mine : BOOLEAN,
   creates : BOOLEAN]

PageKinds ==
  /\ change = Absent \/ change \in ChangeRecord
  /\ page # Absent \/ (change # Absent /\ change.mine) => "kind" \in DOMAIN page
  /\ change # Absent /\ change.mine => page.kind = "monitors" /\ view = "app"
  /\ view # "app" => page = Absent

NothingWithoutProcess ==
  At(Windowed, "off") => page = Absent /\ change = Absent /\ news = <<>> /\ saves = {}

\* There is one result to hear of a change, once it is answered.
ResultsAreHeardOnce ==
  /\ news \in Seq({"changed", "done", "failed"})
  /\ change = Absent \/ change.step = "sent" => \A i \in 1..Len(news) : news[i] = "changed"
  /\ \A i, j \in 1..Len(news) : news[i] # "changed" /\ news[j] # "changed" => i = j

WindowInv == PageKinds /\ NothingWithoutProcess /\ ResultsAreHeardOnce

LEMMA InitWindow == Init => WindowInv
BY DEF Init, WindowInv, PageKinds, NothingWithoutProcess, ResultsAreHeardOnce

LEMMA MountedKinds ==
  ASSUME NEW r \in Route
  PROVE  /\ "kind" \in DOMAIN Mounted(r) /\ Mounted(r).kind = r
         /\ r = "settings" => Mounted(r) = Settings
<1>1. CASE r = "home"
  BY <1>1 DEF Mounted, Refreshed, Asking, Home, Route
<1>2. CASE r = "monitors"
  BY <1>2 DEF Mounted, Refreshed, Asking, Monitors, Route
<1>3. CASE r = "settings"
  BY <1>3 DEF Mounted, Refreshed, Settings, Route
<1> QED
  BY <1>1, <1>2, <1>3 DEF Route

LEMMA RefreshedKinds ==
  ASSUME "kind" \in DOMAIN page
  PROVE  /\ "kind" \in DOMAIN Refreshed(page) /\ Refreshed(page).kind = page.kind
         /\ page.kind \notin {"home", "monitors"} => Refreshed(page) = page
<1>1. CASE page.kind = "home"
  BY <1>1 DEF Refreshed, Asking
<1>2. CASE page.kind = "monitors"
  BY <1>2 DEF Refreshed, Asking
<1>3. CASE page.kind \notin {"home", "monitors"}
  BY <1>3 DEF Refreshed
<1> QED
  BY <1>1, <1>2, <1>3

\* A page that is left owns no change any more.
LEMMA LeftDisowns ==
  ASSUME PageKinds, Left
  PROVE  /\ change' = Absent \/ change' \in ChangeRecord
         /\ change' # Absent => ~change'.mine
BY DEF PageKinds, Left, ChangeRecord

LEMMA NavigateKinds ==
  ASSUME PageKinds, NEW r \in Route, Navigate(r), view = "app", view' = view
  PROVE  PageKinds'
<1>1. CASE UNCHANGED <<page, change>>
  BY <1>1 DEF PageKinds
<1>2. CASE Mount(r) /\ Left
  BY <1>2, LeftDisowns, MountedKinds DEF Mount, PageKinds
<1> QED
  BY <1>1, <1>2 DEF Navigate

LEMMA FreshSettings == Settings \in SettingsRecord /\ ~Settings.consent
BY DEF Settings, SettingsRecord

\* A step of a save changes its own page alone, and leaves a settings page.
LEMMA SavingShows ==
  ASSUME SavesInv, NEW s \in saves,
         \/ Verifies(s) \/ Checks(s) \/ Writes(s) \/ Configures(s)
         \/ VerifyFails(s) \/ CannotOpen(s) \/ WriteFails(s)
  PROVE  \E p : /\ page' = page \/ (s.mine /\ page' = p)
                /\ s.mine => p \in SettingsRecord
<1>1. s.mine => page \in SettingsRecord
  BY DEF SavesInv
<1>2. s.token \in Token
  BY DEF SavesInv, SaveRecord
<1>3. ASSUME NEW p, Show(s, p), s.mine => p \in SettingsRecord
      PROVE  \E q : (page' = page \/ (s.mine /\ page' = q)) /\ (s.mine => q \in SettingsRecord)
  BY <1>3 DEF Show
<1>4. CASE page' = page
  <2>1. (page' = page \/ (s.mine /\ page' = page)) /\ (s.mine => page \in SettingsRecord)
    BY <1>1, <1>4
  <2> QED
    BY <2>1
<1>5. s.mine => /\ [page EXCEPT !.verified = s.token, !.busy = "save"] \in SettingsRecord
                /\ [page EXCEPT !.verified = Absent, !.busy = "no"] \in SettingsRecord
                /\ [page EXCEPT !.consent = TRUE, !.busy = "no"] \in SettingsRecord
                /\ [page EXCEPT !.consent = FALSE, !.input = Absent, !.verified = Absent,
                                !.busy = "no"] \in SettingsRecord
  BY <1>1, <1>2 DEF SettingsRecord
<1>6. CASE Verifies(s)
  BY <1>3, <1>5, <1>6 DEF Verifies
<1>7. CASE Unavailable(s) \/ VerifyFails(s)
  BY <1>3, <1>5, <1>7 DEF Unavailable, VerifyFails
<1>8. CASE Configures(s)
  BY <1>3, <1>5, <1>8 DEF Configures
<1>9. CASE Show(s, [page EXCEPT !.consent = TRUE, !.busy = "no"])
  BY <1>3, <1>5, <1>9
<1>10. CASE Checks(s)
  BY <1>4, <1>7, <1>9, <1>10 DEF Checks
<1>11. CASE Writes(s) \/ CannotOpen(s) \/ WriteFails(s)
  BY <1>4, <1>7, <1>11 DEF Writes, CannotOpen, WriteFails
<1> QED
  BY <1>6, <1>7, <1>8, <1>10, <1>11

LEMMA KindsStep ==
  ASSUME HostInv, ScreenInv, WindowInv, SavesInv, [Next]_vars
  PROVE  PageKinds' /\ NothingWithoutProcess'
<1> DEFINE Kinds == PageKinds /\ NothingWithoutProcess
<1> SUFFICES Kinds'
  OBVIOUS
<1> USE DEF bootVars, process
<1>0. pc \in [Desktop -> {"off", "read", "open", "write", "up", "error"} \cup PastCredentials]
  BY DEF HostInv, HostTypes
<1>a. PageKinds /\ NothingWithoutProcess /\ ResultsAreHeardOnce
  BY DEF WindowInv
<1>b. ASSUME UNCHANGED <<page, change, news, saves, view>>, At(Windowed, "off")' => At(Windowed, "off")
      PROVE  Kinds'
  BY <1>a, <1>b DEF PageKinds, NothingWithoutProcess
<1>1. ASSUME NEW p \in Desktop, Boots(p) PROVE Kinds'
  BY <1>1, <1>b, BootStaysOn DEF Boots, At, pagesVars, secretVars
<1>2. ASSUME NEW p \in Desktop, RetryElsewhere(p) PROVE Kinds'
  BY <1>0, <1>2, <1>b DEF RetryElsewhere, Retry, Goto, At, pagesVars, secretVars, screen
<1>3. ASSUME NEW p \in Desktop, Launches(p) PROVE Kinds'
  <2>1. At(Windowed, "off")' => At(Windowed, "off")
    BY <1>0, <1>3 DEF Launches, Launch, Goto, At
  <2> QED
    BY <1>3, <1>b, <2>1 DEF Launches, pagesVars, screen
<1>4. CASE Accidents
  <2>1. CASE At(Windowed, "off") \/ pc'[Windowed] # "off"
    BY <1>4, <1>b, <2>1 DEF Accidents, At, pagesVars, secretVars
  <2>2. CASE ~(At(Windowed, "off") \/ pc'[Windowed] # "off")
    BY <1>4, <2>2 DEF Accidents, NoPages, NoScreen, PageKinds, NothingWithoutProcess
  <2> QED
    BY <2>1, <2>2
<1>5. CASE Window
  <2>1. CASE Mounts \/ AnswersBootState
    BY <1>b, <2>1 DEF Mounts, AnswersBootState, At, pagesVars, secretVars
  <2>2. CASE Retries
    BY <1>0, <1>b, <2>2 DEF Retries, Retry, Goto, At, pagesVars, secretVars
  <2>3. CASE UNCHANGED pc /\ UNCHANGED <<view, pagesVars, saves>>
    BY <1>b, <2>3 DEF At, pagesVars
  <2>4. CASE UNCHANGED pc /\ Hide /\ ~At(Windowed, "off")
    <3>1. CASE view = "app"
      BY <1>b, <2>4, <3>1 DEF Hide, At, pagesVars
    <3>2. CASE view # "app"
      <4>1. page' = Mounted(route) /\ UNCHANGED change /\ view' = "app"
        BY <2>4, <3>2 DEF Hide, Mount
      <4>2. change = Absent \/ ~change.mine
        BY <1>a, <3>2 DEF PageKinds
      <4>3. "kind" \in DOMAIN Mounted(route)
        BY DEF Mounted, Refreshed, Asking, Home, Monitors, Settings
      <4> QED
        BY <1>a, <2>4, <4>1, <4>2, <4>3 DEF PageKinds, NothingWithoutProcess, At
    <3> QED
      BY <3>1, <3>2
  <2>5. CASE UNCHANGED pc /\ Reveal
    <3>1. CASE view # "app"
      <4>1. UNCHANGED <<page, change, news, saves>> /\ view' = "boot"
        BY <2>5, <3>1 DEF Reveal, pagesVars
      <4> QED
        BY <1>a, <2>5, <3>1, <4>1 DEF PageKinds, NothingWithoutProcess, At
    <3>2. CASE view = "app"
      <4>1. Left /\ page' = Absent /\ news' = news /\ saves' = Disowned
        BY <2>5, <3>2 DEF Reveal, Unmount
      <4>2. PageKinds'
        BY <1>a, <4>1, LeftDisowns DEF PageKinds
      <4>3. NothingWithoutProcess'
        BY <1>a, <2>5, <4>1 DEF NothingWithoutProcess, At, Left, Disowned
      <4> QED
        BY <4>2, <4>3 DEF PageKinds
    <3> QED
      BY <3>1, <3>2
  <2>6. CASE Reads
    <3>1. UNCHANGED pc
      BY <2>6 DEF Reads
    <3>2. CASE asked = "no"
      BY <2>6, <2>3, <3>1, <3>2 DEF Reads
    <3>3. CASE asked # "no"
      <4>1. ~At(Windowed, "off")
        BY <3>3 DEF ScreenInv, NoWindowWithoutProcess
      <4>2. Update(Head(mail))
        BY <2>6, <3>3 DEF Reads
      <4> QED
        BY <2>3, <2>4, <2>5, <3>1, <4>1, <4>2 DEF Update
    <3> QED
      BY <3>2, <3>3
  <2>7. CASE TimerFires
    BY <2>5, <2>7 DEF TimerFires
  <2> QED
    BY <1>5, <2>1, <2>2, <2>6, <2>7 DEF Window
<1>6. CASE Answers
  <2>0. UNCHANGED <<pc, saves, view>>
    BY <1>6 DEF Answers, secretVars, screen
  <2>1. CASE UNCHANGED <<page, change, news>>
    BY <1>b, <2>0, <2>1 DEF At
  <2>2. CASE page # Absent /\ UNCHANGED <<change, news>>
             /\ \E x : page' = [page EXCEPT !.requests = x]
    BY <1>a, <2>0, <2>2 DEF PageKinds, NothingWithoutProcess, At
  <2>3. CASE change # Absent /\ change' = [change EXCEPT !.step = "answered"] /\ UNCHANGED page
    <3>1. change' \in ChangeRecord /\ change'.mine = change.mine
      BY <1>a, <2>3 DEF PageKinds, ChangeRecord
    <3> QED
      BY <1>a, <2>0, <2>3, <3>1 DEF PageKinds, NothingWithoutProcess, At
  <2>4. CASE Served /\ UNCHANGED <<page, change>>
    BY <1>a, <2>0, <2>4 DEF PageKinds, NothingWithoutProcess, At, Served, Phase, PhaseAt
  <2> QED
    BY <1>6, <2>1, <2>2, <2>3, <2>4
    DEF Answers, ReadLive, ReadArchived, FailToRead, ReadStray, Commits, CommitsUnannounced,
        Committed, Refuses, RunStarts, RunEnds, RunEndsUnheard, ChangesElsewhere
<1>7. CASE Settles
  <2>0. UNCHANGED <<pc, news>> /\ view = "app" /\ view' = view
    BY <1>7 DEF Settles, screen
  <2>1. PageKinds'
    <3>1. CASE page # Absent /\ UNCHANGED change
               /\ "kind" \in DOMAIN page' /\ page'.kind = page.kind
      BY <1>a, <2>0, <3>1 DEF PageKinds
    <3>2. ASSUME NEW q, SettleHome(q) PROVE PageKinds'
      <4>1. CASE Navigate("monitors")
        BY <1>a, <2>0, <4>1, NavigateKinds DEF Route
      <4>2. CASE UNCHANGED <<route, strays, change, silent>>
        <5>1. page # Absent /\ "kind" \in DOMAIN page
          BY <1>a, <3>2 DEF SettleHome, On, PageKinds
        <5>2. CASE \E x : page' = [page EXCEPT !.requests = x]
          BY <4>2, <5>1, <5>2, <3>1
        <5>3. CASE \E x, y : page' = [page EXCEPT !.requests = x, !.state = y]
          BY <4>2, <5>1, <5>3, <3>1
        <5>4. CASE Navigate("monitors")
          BY <4>1, <5>4
        <5> QED
          BY <3>2, <5>2, <5>3, <5>4 DEF SettleHome
      <4> QED
        BY <3>2, <4>1, <4>2 DEF SettleHome
    <3>3. ASSUME NEW q, SettleMonitors(q) PROVE PageKinds'
      <4>1. page # Absent /\ "kind" \in DOMAIN page /\ UNCHANGED change
        BY <1>a, <3>3 DEF SettleMonitors, On, PageKinds
      <4> DEFINE p == [page EXCEPT !.requests = @ \ {q},
                         !.busy = IF @ = "refresh" /\ page.awaits = q.id THEN "no" ELSE @]
      <4>2. "kind" \in DOMAIN p /\ p.kind = page.kind
        BY <4>1
      <4>3. page' = IF ~IsLatest(q) THEN p
                    ELSE IF q.live = Failed THEN [p EXCEPT !.error = TRUE]
                    ELSE [p EXCEPT !.live = q.live, !.archived = q.archived, !.error = FALSE]
        BY <3>3 DEF SettleMonitors
      <4> HIDE DEF p
      <4>4. "kind" \in DOMAIN page' /\ page'.kind = page.kind
        BY <4>2, <4>3
      <4> QED
        BY <3>1, <4>1, <4>4
    <3>4. ASSUME NEW list, SettleStray(list) PROVE PageKinds'
      <4>1. CASE UNCHANGED <<page, change>>
        BY <1>a, <2>0, <4>1 DEF PageKinds
      <4>2. CASE Mount("monitors") /\ change' = IF change = Absent THEN Absent
                                                 ELSE [change EXCEPT !.mine = FALSE]
        <5>1. page' = Mounted("monitors") /\ "kind" \in DOMAIN Mounted("monitors")
          BY <4>2, MountedKinds DEF Mount, Route
        <5>2. /\ change' = Absent \/ change' \in ChangeRecord
              /\ change' # Absent => ~change'.mine
          BY <1>a, <4>2 DEF PageKinds, ChangeRecord
        <5> QED
          BY <2>0, <5>1, <5>2 DEF PageKinds
      <4> QED
        BY <3>4, <4>1, <4>2 DEF SettleStray
    <3> QED
      BY <1>7, <3>2, <3>3, <3>4 DEF Settles
  <2>2. NothingWithoutProcess'
    <3>1. CASE ~At(Windowed, "off")
      BY <2>0, <3>1 DEF NothingWithoutProcess, At
    <3>2. CASE At(Windowed, "off")
      <4>1. page = Absent /\ change = Absent /\ news = <<>> /\ saves = {}
        BY <1>a, <3>2 DEF NothingWithoutProcess
      <4>2. PICK list \in strays : SettleStray(list) /\ Moves
        BY <1>7, <4>1 DEF Settles, SettleHome, SettleMonitors, On
      <4> QED
        BY <2>0, <4>1, <4>2 DEF SettleStray, Moves, Disowned, NothingWithoutProcess, On
    <3> QED
      BY <3>1, <3>2
  <2> QED
    BY <2>1, <2>2 DEF PageKinds
<1>8. CASE Hears
  <2>0. UNCHANGED <<pc, saves, view>> /\ Hear /\ news # <<>>
    BY <1>8 DEF Hears, Hear, secretVars, screen
  <2>1. ~At(Windowed, "off") /\ ~At(Windowed, "off")'
    BY <1>a, <2>0 DEF NothingWithoutProcess, At
  <2>2. PageKinds'
    <3>1. CASE Head(news) = "changed"
      <4>1. change' = change /\ page' = IF page = Absent THEN Absent ELSE Refreshed(page)
        BY <2>0, <3>1 DEF Hear
      <4> QED
        BY <1>a, <2>0, <4>1, RefreshedKinds DEF PageKinds
    <3>2. CASE Head(news) # "changed" /\ change.mine
      <4>0. change # Absent
        BY <1>a, <2>0, <3>2 DEF ResultsAreHeardOnce
      <4>1. "kind" \in DOMAIN page /\ view = "app" /\ "kind" \in DOMAIN Refreshed(page)
        BY <1>a, <3>2, <4>0, RefreshedKinds DEF PageKinds
      <4>2. change' = Absent
        BY <2>0, <3>2 DEF Hear
      <4>3. CASE Head(news) = "done"
        <5>1. page' = [Refreshed(page) EXCEPT !.busy = "refresh", !.awaits = page.latest + 1]
          BY <2>0, <3>2, <4>3 DEF Hear
        <5> QED
          BY <2>0, <4>1, <4>2, <5>1 DEF PageKinds
      <4>4. CASE Head(news) # "done"
        <5>1. page' = [page EXCEPT !.busy = "no", !.error = @ \/ ~change.creates]
          BY <2>0, <3>2, <4>4 DEF Hear
        <5> QED
          BY <2>0, <4>1, <4>2, <5>1 DEF PageKinds
      <4> QED
        BY <4>3, <4>4
    <3>3. CASE Head(news) # "changed" /\ ~change.mine
      <4>1. page' = page /\ change' = Absent
        BY <2>0, <3>3 DEF Hear
      <4> QED
        BY <1>a, <2>0, <4>1 DEF PageKinds
    <3> QED
      BY <3>1, <3>2, <3>3
  <2> QED
    BY <2>1, <2>2 DEF PageKinds, NothingWithoutProcess
<1>9. ASSUME NEW r \in Route, Go(r) PROVE Kinds'
  <2>0. UNCHANGED <<pc, news>> /\ view = "app" /\ view' = view
    BY <1>9 DEF Go, screen
  <2>1. PageKinds'
    BY <1>9, <1>a, <2>0, NavigateKinds DEF Go
  <2>2. CASE At(Windowed, "off")
    <3>1. page = Absent /\ change = Absent /\ news = <<>> /\ saves = {}
      BY <1>a, <2>2 DEF NothingWithoutProcess
    <3>2. UNCHANGED <<page, change>> /\ saves' = {}
      BY <1>9, <3>1 DEF Go, Navigate, Moves, On
    <3> QED
      BY <2>0, <2>1, <3>1, <3>2 DEF PageKinds, NothingWithoutProcess
  <2>3. CASE ~At(Windowed, "off")
    BY <2>0, <2>1, <2>3 DEF PageKinds, NothingWithoutProcess, At
  <2> QED
    BY <2>2, <2>3
<1>10. CASE Changes
  <2>1. PICK to \in {"active", "paused", "archived"} : Change(to)
    BY <1>10 DEF Changes
  <2>2. /\ page # Absent /\ page.kind = "monitors" /\ "kind" \in DOMAIN page /\ view = "app"
        /\ ~At(Windowed, "off")
    BY <1>a, <2>1 DEF Change, On, PageKinds, NothingWithoutProcess
  <2>3. /\ change' = [to |-> to, step |-> "sent", mine |-> TRUE, creates |-> (row = Absent)]
        /\ page' = [page EXCEPT !.busy = "call", !.error = @ /\ row = Absent]
        /\ UNCHANGED <<pc, view, saves, news>>
    BY <1>10, <2>1 DEF Changes, Change, secretVars, screen
  <2>4. change' \in ChangeRecord
    BY <2>3 DEF ChangeRecord
  <2>5. "kind" \in DOMAIN page' /\ page'.kind = "monitors"
    BY <2>2, <2>3
  <2> QED
    BY <2>2, <2>3, <2>4, <2>5 DEF PageKinds, NothingWithoutProcess, At
<1>11. CASE Enters \/ Saves
  <2>1. UNCHANGED <<pc, view, change, news>>
    BY <1>11 DEF Enters, Saves, screen
  <2>2. ~At(Windowed, "off")
    BY <1>11, <1>a DEF Enters, Saves, Type, VerifyAndSave, ConfirmUnprotectedSave,
                       CancelUnprotectedSave, On, NothingWithoutProcess
  <2>3. \/ page' = page
        \/ page' \in SettingsRecord /\ page # Absent /\ page.kind = "settings"
    <3>1. CASE Enters
      BY <3>1 DEF Enters, Type, VerifyAndSave, ConfirmUnprotectedSave, CancelUnprotectedSave,
                  WithdrawConsent, SavesInv, SettingsRecord, On
    <3>2. ASSUME NEW s \in saves,
                 \/ Verifies(s) \/ Checks(s) \/ Writes(s) \/ Configures(s)
                 \/ VerifyFails(s) \/ CannotOpen(s) \/ WriteFails(s)
          PROVE  \/ page' = page
                 \/ page' \in SettingsRecord /\ page # Absent /\ page.kind = "settings"
      <4>1. PICK p : /\ page' = page \/ (s.mine /\ page' = p)
                     /\ s.mine => p \in SettingsRecord
        BY <3>2, SavingShows
      <4> QED
        BY <3>2, <4>1 DEF SavesInv, On
    <3> QED
      BY <1>11, <3>1, <3>2 DEF Saves
  <2>4. page' # page => "kind" \in DOMAIN page'
    BY <2>3 DEF SettingsRecord
  <2> QED
    BY <1>a, <2>1, <2>2, <2>3, <2>4 DEF PageKinds, NothingWithoutProcess, At
<1>12. CASE UNCHANGED vars
  BY <1>12, <1>b DEF vars, pagesVars, secretVars, screen, At
<1>13. CASE Repairs
  BY <1>13, <1>b DEF Repairs, Repair, pagesVars, secretVars, screen, At
<1>14. CASE SavesElsewhere
  BY <1>14, <1>b DEF SavesElsewhere, pagesVars, screen, At
<1> QED
  BY <1>1, <1>2, <1>3, <1>4, <1>5, <1>6, <1>7, <1>8, <1>9, <1>10, <1>11, <1>12, <1>13, <1>14 DEF Next

LEMMA LeavingKeepsStep ==
  ASSUME PageKinds, change # Absent, change' = [change EXCEPT !.mine = FALSE]
  PROVE  change' # Absent /\ change'.step = change.step
BY DEF PageKinds, ChangeRecord

LEMMA NewsStep ==
  ASSUME WindowInv, [Next]_vars
  PROVE  ResultsAreHeardOnce'
<1>0. PageKinds /\ NothingWithoutProcess /\ ResultsAreHeardOnce
  BY DEF WindowInv
<1>1. CASE UNCHANGED <<change, news>>
  BY <1>0, <1>1 DEF ResultsAreHeardOnce
<1>2. CASE UNCHANGED news /\ change' = IF change = Absent THEN Absent
                                       ELSE [change EXCEPT !.mine = FALSE]
  BY <1>0, <1>2, LeavingKeepsStep DEF ResultsAreHeardOnce
<1>3. CASE news' = Append(news, "changed") /\ UNCHANGED change
  BY <1>0, <1>3 DEF ResultsAreHeardOnce
<1>4. ASSUME change # Absent, change.step = "sent", change' = [change EXCEPT !.step = "answered"],
             \/ news' = news \o <<"changed", "done">>
             \/ news' = Append(news, "failed")
      PROVE  ResultsAreHeardOnce'
  <2>1. change' # Absent /\ change'.step = "answered"
    BY <1>0, <1>4 DEF PageKinds, ChangeRecord
  <2>2. /\ news \in Seq({"changed", "done", "failed"})
        /\ \A i \in 1..Len(news) : news[i] = "changed"
    BY <1>0, <1>4 DEF ResultsAreHeardOnce
  <2>3. CASE news' = Append(news, "failed")
    <3>1. /\ news' \in Seq({"changed", "done", "failed"})
          /\ \A i \in 1..Len(news') : news'[i] # "changed" => i = Len(news')
      BY <2>2, <2>3
    <3> QED
      BY <2>1, <3>1 DEF ResultsAreHeardOnce
  <2>4. CASE news' = news \o <<"changed", "done">>
    <3>1. /\ news' \in Seq({"changed", "done", "failed"})
          /\ \A i \in 1..Len(news') : news'[i] # "changed" => i = Len(news')
      BY <2>2, <2>4
    <3> QED
      BY <2>1, <3>1 DEF ResultsAreHeardOnce
  <2> QED
    BY <1>4, <2>3, <2>4
<1>5. CASE Hears
  <2>1. news # <<>> /\ news' = Tail(news) /\ Hear
    BY <1>5 DEF Hears, Hear
  <2>2. /\ news' \in Seq({"changed", "done", "failed"}) /\ Len(news') = Len(news) - 1
        /\ \A i \in 1..Len(news') : i + 1 \in 1..Len(news) /\ news'[i] = news[i + 1]
        /\ 1 \in 1..Len(news) /\ Head(news) = news[1]
    BY <1>0, <2>1 DEF ResultsAreHeardOnce
  <2>3. \A i, j \in 1..Len(news') : news'[i] # "changed" /\ news'[j] # "changed" => i = j
    <3>1. ASSUME NEW i \in 1..Len(news'), NEW j \in 1..Len(news'),
                 news'[i] # "changed", news'[j] # "changed"
          PROVE  i = j
      <4>1. i + 1 = j + 1
        BY <1>0, <2>2, <3>1 DEF ResultsAreHeardOnce
      <4> QED
        BY <2>2, <4>1
    <3> QED
      BY <3>1
  <2>4. CASE Head(news) = "changed"
    <3>1. change' = change
      BY <2>1, <2>4 DEF Hear
    <3> QED
      BY <1>0, <2>2, <2>3, <3>1 DEF ResultsAreHeardOnce
  <2>5. CASE Head(news) # "changed"
    <3>1. \A i \in 1..Len(news') : news'[i] = "changed"
      <4>1. ASSUME NEW i \in 1..Len(news'), news'[i] # "changed" PROVE FALSE
        <5>1. i + 1 = 1
          BY <1>0, <2>2, <2>5, <4>1 DEF ResultsAreHeardOnce
        <5> QED
          BY <2>2, <5>1
      <4> QED
        BY <4>1
    <3> QED
      BY <2>2, <2>3, <3>1 DEF ResultsAreHeardOnce
  <2> QED
    BY <2>4, <2>5
<1>6. CASE Answers
  <2>1. CASE change # Absent /\ change.step = "sent"
    BY <1>1, <1>3, <1>4, <1>6, <2>1
    DEF Answers, Commits, CommitsUnannounced, Committed, Refuses, RunStarts, RunEnds,
        RunEndsUnheard, ChangesElsewhere
  <2>2. CASE ~(change # Absent /\ change.step = "sent")
    BY <1>1, <1>3, <1>6, <2>2
    DEF Answers, Commits, CommitsUnannounced, Committed, Refuses, RunStarts, RunEnds,
        RunEndsUnheard, ChangesElsewhere
  <2> QED
    BY <2>1, <2>2
<1>7. CASE Settles \/ \E r \in Route : Go(r)
  <2>1. ASSUME NEW r, Navigate(r), UNCHANGED news PROVE ResultsAreHeardOnce'
    BY <1>1, <1>2, <2>1 DEF Navigate, Left
  <2>2. CASE \E q : SettleHome(q) /\ UNCHANGED news
    BY <1>1, <2>1, <2>2 DEF SettleHome
  <2>3. CASE \E q : SettleMonitors(q) /\ UNCHANGED news
    BY <1>1, <2>3 DEF SettleMonitors
  <2>4. CASE \E list : SettleStray(list) /\ UNCHANGED news
    BY <1>1, <1>2, <2>4 DEF SettleStray
  <2> QED
    BY <1>7, <2>1, <2>2, <2>3, <2>4 DEF Settles, Go
<1>8. CASE Changes
  <2>1. PICK to : Change(to)
    BY <1>8 DEF Changes
  <2>2. change = Absent /\ change'.step = "sent" /\ UNCHANGED news
    BY <2>1 DEF Change
  <2> QED
    BY <1>0, <2>2 DEF ResultsAreHeardOnce
<1>9. CASE Window
  <2>1. CASE UNCHANGED pagesVars
    BY <1>1, <2>1 DEF pagesVars
  <2>2. CASE Hide
    BY <1>1, <2>2 DEF Hide, pagesVars
  <2>3. CASE Reveal
    BY <1>1, <1>2, <2>3 DEF Reveal, Unmount, Left, pagesVars
  <2>4. CASE Reads
    <3>1. CASE asked = "no"
      BY <2>1, <2>4, <3>1 DEF Reads
    <3>2. CASE asked # "no"
      <4>1. Update(Head(mail))
        BY <2>4, <3>2 DEF Reads
      <4> QED
        BY <2>1, <2>2, <2>3, <4>1 DEF Update
    <3> QED
      BY <3>1, <3>2
  <2> QED
    BY <1>9, <2>1, <2>3, <2>4 DEF Window, Mounts, AnswersBootState, TimerFires, Retries
<1>10. CASE Accidents
  <2>1. CASE NoPages
    BY <2>1 DEF NoPages, ResultsAreHeardOnce
  <2> QED
    BY <1>1, <1>10, <2>1 DEF Accidents, pagesVars
<1>11. CASE \/ \E p \in Desktop : Boots(p) \/ RetryElsewhere(p) \/ Launches(p)
            \/ Repairs \/ Enters \/ Saves \/ SavesElsewhere \/ UNCHANGED vars
  BY <1>1, <1>11 DEF Boots, RetryElsewhere, Launches, Repairs, Enters, Saves, SavesElsewhere,
                     vars, pagesVars
<1> QED
  BY <1>5, <1>6, <1>7, <1>8, <1>9, <1>10, <1>11 DEF Next

-----------------------------------------------------------------------------
\* The saves.

LEMMA InitSaves == Init => SavesInv
BY DEF Init, SavesInv, On, ConsentIsForTheTokenShown

LEMMA SavesStay ==
  ASSUME SavesInv, UNCHANGED saves,
         page' = page \/ (~On("settings") /\ ~On("settings")')
  PROVE  SavesInv'
<1>1. CASE page' = page
  BY <1>1 DEF SavesInv, On, ConsentIsForTheTokenShown
<1>2. CASE ~On("settings") /\ ~On("settings")'
  BY <1>2 DEF SavesInv, ConsentIsForTheTokenShown
<1> QED
  BY <1>1, <1>2

\* A page that is mounted asks for nothing, and what its predecessor waits for is disowned.
LEMMA MountedSaves ==
  ASSUME SavesInv, page' = Absent \/ \E r \in Route : page' = Mounted(r),
         saves' = IF On("settings") THEN Disowned ELSE saves
  PROVE  SavesInv'
<1>1. On("settings")' => page' = Settings
  BY MountedKinds DEF On
<1>2. On("settings")' => page' \in SettingsRecord /\ ~page'.consent
  BY <1>1, FreshSettings
<1>3. saves' \subseteq SaveRecord /\ \A s \in saves' : ~s.mine
  <2>1. CASE ~On("settings")
    BY <2>1 DEF SavesInv
  <2>2. CASE On("settings")
    <3>1. ASSUME NEW o \in SaveRecord PROVE [o EXCEPT !.mine = FALSE] \in SaveRecord
                                            /\ ~[o EXCEPT !.mine = FALSE].mine
      BY <3>1 DEF SaveRecord
    <3> QED
      BY <2>2, <3>1 DEF SavesInv, Disowned
  <2> QED
    BY <2>1, <2>2
<1> QED
  BY <1>2, <1>3 DEF SavesInv, ConsentIsForTheTokenShown

\* A save ends, and its page has shown the result.
LEMMA OverSaves ==
  ASSUME SavesInv, NEW s \in saves, Over(s), NEW p, Show(s, p),
         s.mine => /\ p \in SettingsRecord
                   /\ p.consent => p.verified \in {p.input, Absent} /\ Backend = "plain"
  PROVE  SavesInv'
<1>1. CASE s.mine
  <2>1. page' = p /\ p \in SettingsRecord /\ \A o \in saves' : ~o.mine
    BY <1>1 DEF SavesInv, Over, Show
  <2> QED
    BY <1>1, <2>1 DEF SavesInv, Over, ConsentIsForTheTokenShown
<1>2. CASE ~s.mine
  BY <1>2 DEF SavesInv, Over, Show, ConsentIsForTheTokenShown, On
<1> QED
  BY <1>1, <1>2

\* A save goes on, past its verification.
LEMMA StepSaves ==
  ASSUME SavesInv, NEW s \in saves, NEW step \in {"check", "write", "written"}, Step(s, step),
         NEW p, Show(s, p),
         s.mine => /\ p \in SettingsRecord /\ p.busy # "no"
                   /\ p.input = s.token /\ p.verified = s.token
                   /\ p.consent => Backend = "plain"
  PROVE  SavesInv'
<1> DEFINE n == [s EXCEPT !.step = step]
<1>0. s \in SaveRecord
  BY DEF SavesInv
<1>1. n \in SaveRecord /\ n.mine = s.mine /\ n.token = s.token
  BY <1>0 DEF SaveRecord
<1>2. saves' = (saves \ {s}) \cup {n}
  BY DEF Step
<1> HIDE DEF n
<1>3. CASE s.mine
  <2>1. page' = p /\ p \in SettingsRecord /\ \A o \in saves' : o.mine => o = n
    BY <1>2, <1>3 DEF SavesInv, Show
  <2>2. On("settings")'
    BY <2>1, AbsentIsNoPage DEF On, SettingsRecord
  <2> QED
    BY <1>1, <1>2, <1>3, <2>1, <2>2 DEF SavesInv, ConsentIsForTheTokenShown
<1>4. CASE ~s.mine
  <2>1. page' = page
    BY <1>4 DEF Show
  <2> QED
    BY <1>1, <1>2, <1>4, <2>1 DEF SavesInv, ConsentIsForTheTokenShown, On
<1> QED
  BY <1>3, <1>4

LEMMA EntersSaves ==
  ASSUME SavesInv, Enters
  PROVE  SavesInv'
<1>1. On("settings") /\ page.busy = "no" /\ page \in SettingsRecord
  BY DEF Enters, Type, VerifyAndSave, ConfirmUnprotectedSave, CancelUnprotectedSave, SavesInv
<1>2. \A s \in saves : ~s.mine
  BY <1>1 DEF SavesInv
<1>3. ASSUME NEW t \in Token, Type(t) PROVE SavesInv'
  <2>1. page' \in SettingsRecord /\ ~page'.consent /\ UNCHANGED saves
    BY <1>1, <1>3 DEF Type, WithdrawConsent, SettingsRecord
  <2> QED
    BY <1>2, <2>1 DEF SavesInv, ConsentIsForTheTokenShown
<1>4. CASE CancelUnprotectedSave
  <2>1. page' \in SettingsRecord /\ ~page'.consent /\ UNCHANGED saves
    BY <1>1, <1>4 DEF CancelUnprotectedSave, SettingsRecord
  <2> QED
    BY <1>2, <2>1 DEF SavesInv, ConsentIsForTheTokenShown
<1>5. ASSUME NEW n \in SaveRecord, n.mine, saves' = saves \cup {n}, page' \in SettingsRecord,
             page'.busy # "no", page'.input = n.token,
             n.step # "verify" => page'.verified = n.token,
             page'.consent => page'.verified \in {page'.input, Absent} /\ Backend = "plain"
      PROVE  SavesInv'
  <2>1. On("settings")'
    BY <1>5, AbsentIsNoPage DEF On, SettingsRecord
  <2>2. \A o \in saves' : o.mine => o = n
    BY <1>2, <1>5
  <2> QED
    BY <1>5, <2>1, <2>2 DEF SavesInv, ConsentIsForTheTokenShown
<1>6. CASE VerifyAndSave
  <2> DEFINE n == Save(page.input, "verify", FALSE, TRUE)
  <2>1. n \in SaveRecord /\ n.mine /\ n.token = page.input /\ n.step = "verify"
    BY <1>1, <1>6 DEF VerifyAndSave, Save, SaveRecord, SettingsRecord
  <2>2. /\ page' \in SettingsRecord /\ page'.busy = "verify" /\ page'.input = page.input
        /\ ~page'.consent /\ saves' = saves \cup {n}
    BY <1>1, <1>6 DEF VerifyAndSave, SettingsRecord
  <2> HIDE DEF n
  <2> QED
    BY <1>5, <2>1, <2>2
<1>7. CASE ConfirmUnprotectedSave
  <2> DEFINE n == Save(page.verified, "check", TRUE, TRUE)
  <2>1. n \in SaveRecord /\ n.mine /\ n.token = page.verified /\ n.step = "check"
    BY <1>1, <1>7 DEF ConfirmUnprotectedSave, Save, SaveRecord, SettingsRecord
  <2>2. page.verified = page.input /\ Backend = "plain"
    BY <1>1, <1>7 DEF ConfirmUnprotectedSave, SavesInv, ConsentIsForTheTokenShown
  <2>3. /\ page' \in SettingsRecord /\ page'.busy = "save" /\ page'.input = page.input
        /\ page'.verified = page.verified /\ saves' = saves \cup {n}
    BY <1>1, <1>7 DEF ConfirmUnprotectedSave, SettingsRecord
  <2> HIDE DEF n
  <2> QED
    BY <1>5, <2>1, <2>2, <2>3
<1> QED
  BY <1>3, <1>4, <1>6, <1>7 DEF Enters

LEMMA SavingSaves ==
  ASSUME SavesInv, NEW s \in saves,
         \/ Verifies(s) \/ Checks(s) \/ Writes(s) \/ Configures(s)
         \/ VerifyFails(s) \/ CannotOpen(s) \/ WriteFails(s)
  PROVE  SavesInv'
<1>0. s \in SaveRecord
  BY DEF SavesInv
<1>1. s.mine => /\ page \in SettingsRecord /\ page.busy # "no" /\ page.input = s.token
                /\ s.step # "verify" => page.verified = s.token
                /\ page.consent => page.verified \in {page.input, Absent} /\ Backend = "plain"
  BY DEF SavesInv, ConsentIsForTheTokenShown
<1>2. s.token \in Token
  BY <1>0 DEF SaveRecord
<1>3. CASE Verifies(s)
  <2> DEFINE p == [page EXCEPT !.verified = s.token, !.busy = "save"]
  <2>1. s.mine => /\ p \in SettingsRecord /\ p.busy # "no"
                  /\ p.input = s.token /\ p.verified = s.token
                  /\ p.consent => Backend = "plain"
    BY <1>1, <1>2 DEF SettingsRecord
  <2>2. Step(s, "check") /\ Show(s, p)
    BY <1>3 DEF Verifies
  <2> HIDE DEF p
  <2> QED
    BY <2>1, <2>2, StepSaves
<1>4. ASSUME NEW step \in {"write", "written"}, Step(s, step), page' = page, s.step # "verify"
      PROVE  SavesInv'
  BY <1>1, <1>4, StepSaves DEF Show
<1>5. CASE VerifyFails(s)
  <2> DEFINE p == [page EXCEPT !.verified = Absent, !.busy = "no"]
  <2>1. s.mine => /\ p \in SettingsRecord
                  /\ p.consent => p.verified \in {p.input, Absent} /\ Backend = "plain"
    BY <1>1 DEF SettingsRecord
  <2>2. Over(s) /\ Show(s, p)
    BY <1>5 DEF VerifyFails
  <2> HIDE DEF p
  <2> QED
    BY <2>1, <2>2, OverSaves
<1>6. CASE Unavailable(s)
  <2> DEFINE p == [page EXCEPT !.verified = Absent, !.busy = "no"]
  <2>1. s.mine => /\ p \in SettingsRecord
                  /\ p.consent => p.verified \in {p.input, Absent} /\ Backend = "plain"
    BY <1>1 DEF SettingsRecord
  <2>2. Over(s) /\ Show(s, p)
    BY <1>6 DEF Unavailable
  <2> HIDE DEF p
  <2> QED
    BY <2>1, <2>2, OverSaves
<1>7. CASE Checks(s)
  <2>1. CASE Backend = "plain" /\ Over(s) /\ Show(s, [page EXCEPT !.consent = TRUE, !.busy = "no"])
    <3> DEFINE p == [page EXCEPT !.consent = TRUE, !.busy = "no"]
    <3>1. s.mine => /\ p \in SettingsRecord
                    /\ p.consent => p.verified \in {p.input, Absent} /\ Backend = "plain"
      BY <1>1, <1>7, <2>1 DEF SettingsRecord, Checks
    <3> HIDE DEF p
    <3> QED
      BY <2>1, <3>1, OverSaves DEF p
  <2> QED
    BY <1>4, <1>6, <1>7, <2>1 DEF Checks
<1>8. CASE Configures(s)
  <2> DEFINE p == [page EXCEPT !.consent = FALSE, !.input = Absent, !.verified = Absent,
                               !.busy = "no"]
  <2>1. s.mine => /\ p \in SettingsRecord
                  /\ p.consent => p.verified \in {p.input, Absent} /\ Backend = "plain"
    BY <1>1 DEF SettingsRecord
  <2>2. Over(s) /\ Show(s, p)
    BY <1>8 DEF Configures
  <2> HIDE DEF p
  <2> QED
    BY <2>1, <2>2, OverSaves
<1>9. CASE Writes(s)
  BY <1>4, <1>9 DEF Writes
<1> QED
  BY <1>3, <1>5, <1>6, <1>7, <1>8, <1>9 DEF CannotOpen, WriteFails

LEMMA SavesStep ==
  ASSUME WindowInv, SavesInv, [Next]_vars
  PROVE  SavesInv'
<1>0. PageKinds /\ ResultsAreHeardOnce
  BY DEF WindowInv
<1>1. CASE UNCHANGED <<page, saves>>
  BY <1>1, SavesStay
<1>2. CASE Window
  <2>1. CASE Hide
    <3>1. CASE view = "app"
      BY <1>1, <2>1, <3>1 DEF Hide, pagesVars
    <3>2. CASE view # "app"
      <4>1. page' = Mounted(route) /\ saves' = saves /\ ~On("settings")
        BY <1>0, <2>1, <3>2 DEF Hide, Mount, PageKinds, On
      <4>2. Mounted(route) = Settings \/ Mounted(route).kind # "settings"
        BY DEF Mounted, Refreshed, Asking, Home, Monitors, Settings
      <4>3. \A s \in saves : ~s.mine
        BY <4>1 DEF SavesInv
      <4>4. On("settings")' => page' \in SettingsRecord /\ ~page'.consent
        BY <4>1, <4>2, FreshSettings DEF On
      <4> QED
        BY <4>1, <4>3, <4>4 DEF SavesInv, ConsentIsForTheTokenShown
    <3> QED
      BY <3>1, <3>2
  <2>2. CASE Reveal
    <3>1. CASE view # "app"
      BY <1>1, <2>2, <3>1 DEF Reveal, pagesVars
    <3>2. CASE view = "app"
      <4>1. page' = Absent /\ saves' = Disowned
        BY <2>2, <3>2 DEF Reveal, Unmount
      <4>2. CASE On("settings")
        BY <4>1, <4>2, MountedSaves
      <4>3. CASE ~On("settings")
        <5>1. \A s \in saves : s \in SaveRecord /\ ~s.mine
          BY <4>3 DEF SavesInv
        <5>2. \A s \in saves : [s EXCEPT !.mine = FALSE] = s
          BY <5>1 DEF SaveRecord
        <5>3. saves' = saves
          BY <4>1, <5>2 DEF Disowned
        <5> QED
          BY <4>1, <4>3, <5>3, MountedSaves
      <4> QED
        BY <4>2, <4>3
    <3> QED
      BY <3>1, <3>2
  <2>3. CASE UNCHANGED <<pagesVars, saves>>
    BY <1>1, <2>3 DEF pagesVars
  <2>4. CASE Reads
    <3>1. CASE asked = "no"
      BY <2>3, <2>4, <3>1 DEF Reads
    <3>2. CASE asked # "no"
      <4>1. Update(Head(mail))
        BY <2>4, <3>2 DEF Reads
      <4> QED
        BY <2>1, <2>2, <2>3, <4>1 DEF Update
    <3> QED
      BY <3>1, <3>2
  <2> QED
    BY <1>2, <2>2, <2>3, <2>4
    DEF Window, Mounts, AnswersBootState, TimerFires, Retries, secretVars
<1>3. CASE Answers
  <2>1. UNCHANGED saves
    BY <1>3 DEF Answers, secretVars
  <2>2. CASE page # Absent /\ page.kind # "settings" /\ \E x : page' = [page EXCEPT !.requests = x]
    <3>1. page'.kind = page.kind
      BY <1>0, <2>2 DEF PageKinds
    <3> QED
      BY <2>1, <2>2, <3>1, SavesStay DEF On
  <2> QED
    BY <1>1, <1>3, <2>1, <2>2 DEF Answers, ReadLive, ReadArchived, FailToRead
<1>4. ASSUME NEW r \in Route, Navigate(r), Moves PROVE SavesInv'
  <2>1. CASE UNCHANGED <<route, page>>
    BY <1>1, <1>4, <2>1 DEF Moves
  <2>2. CASE route' # route /\ page = Absent /\ page' = page
    BY <1>1, <1>4, <2>2 DEF Moves, On
  <2>3. CASE route' # route /\ page' = Mounted(r)
    BY <1>4, <2>3, MountedSaves DEF Moves
  <2> QED
    BY <1>4, <2>1, <2>2, <2>3 DEF Navigate, Mount
<1>5. CASE Settles
  <2>1. ASSUME NEW q, SettleHome(q), UNCHANGED saves PROVE SavesInv'
    <3>1. page # Absent /\ page.kind = "home" /\ "kind" \in DOMAIN page
      BY <1>0, <2>1 DEF SettleHome, On, PageKinds
    <3>2. CASE \E x : page' = [page EXCEPT !.requests = x]
      BY <2>1, <3>1, <3>2, SavesStay DEF On
    <3>3. CASE \E x, y : page' = [page EXCEPT !.requests = x, !.state = y]
      BY <2>1, <3>1, <3>3, SavesStay DEF On
    <3>4. CASE Navigate("monitors")
      BY <1>1, <2>1, <3>1, <3>4, MountedSaves DEF Navigate, Mount, On, Route
    <3> QED
      BY <2>1, <3>2, <3>3, <3>4 DEF SettleHome
  <2>2. ASSUME NEW q, SettleMonitors(q), UNCHANGED saves PROVE SavesInv'
    <3>1. page # Absent /\ page.kind = "monitors" /\ "kind" \in DOMAIN page
      BY <1>0, <2>2 DEF SettleMonitors, On, PageKinds
    <3> DEFINE p == [page EXCEPT !.requests = @ \ {q},
                       !.busy = IF @ = "refresh" /\ page.awaits = q.id THEN "no" ELSE @]
    <3>2. "kind" \in DOMAIN p /\ p.kind = "monitors"
      BY <3>1
    <3>3. page' = IF ~IsLatest(q) THEN p
                  ELSE IF q.live = Failed THEN [p EXCEPT !.error = TRUE]
                  ELSE [p EXCEPT !.live = q.live, !.archived = q.archived, !.error = FALSE]
      BY <2>2 DEF SettleMonitors
    <3> HIDE DEF p
    <3>4. page'.kind = "monitors"
      BY <3>2, <3>3
    <3> QED
      BY <2>2, <3>1, <3>4, SavesStay DEF On
  <2>3. ASSUME NEW list, SettleStray(list), Moves PROVE SavesInv'
    <3>1. CASE UNCHANGED <<route, page>>
      BY <1>1, <2>3, <3>1 DEF Moves
    <3>2. CASE route' # route /\ page = Absent /\ page' = page
      BY <1>1, <2>3, <3>2 DEF Moves, On
    <3>3. CASE route' # route /\ page' = Mounted("monitors")
      BY <2>3, <3>3, MountedSaves DEF Moves, Route
    <3> QED
      BY <2>3, <3>1, <3>2, <3>3 DEF SettleStray, Mount
  <2> QED
    BY <1>5, <2>1, <2>2, <2>3 DEF Settles
<1>6. ASSUME NEW r \in Route, Go(r) PROVE SavesInv'
  BY <1>4, <1>6 DEF Go
<1>7. CASE Hears
  <2>0. UNCHANGED saves /\ Hear /\ news # <<>>
    BY <1>7 DEF Hears, Hear, secretVars
  <2>1. CASE page' = page
    BY <1>1, <2>0, <2>1
  <2>2. CASE page # Absent /\ page' = Refreshed(page)
    <3>1. Refreshed(page).kind = page.kind /\ (page.kind \notin {"home", "monitors"} => page' = page)
      BY <1>0, <2>2, RefreshedKinds DEF PageKinds
    <3> QED
      BY <2>0, <2>1, <2>2, <3>1, SavesStay DEF On
  <2>3. CASE Head(news) # "changed" /\ change.mine
    <3>1. change # Absent
      BY <1>0, <2>0, <2>3 DEF ResultsAreHeardOnce
    <3>2. "kind" \in DOMAIN page /\ page.kind = "monitors"
      BY <1>0, <2>3, <3>1 DEF PageKinds
    <3>3. "kind" \in DOMAIN Refreshed(page) /\ Refreshed(page).kind = "monitors"
      BY <3>2, RefreshedKinds
    <3>4. CASE page' = [Refreshed(page) EXCEPT !.busy = "refresh", !.awaits = page.latest + 1]
      BY <2>0, <3>2, <3>3, <3>4, SavesStay DEF On
    <3>5. CASE page' = [page EXCEPT !.busy = "no", !.error = @ \/ ~change.creates]
      BY <2>0, <3>2, <3>5, SavesStay DEF On
    <3> QED
      BY <2>0, <2>3, <3>4, <3>5 DEF Hear
  <2> QED
    BY <2>0, <2>1, <2>2, <2>3 DEF Hear
<1>8. CASE Changes
  <2>1. PICK to : Change(to)
    BY <1>8 DEF Changes
  <2>2. /\ page # Absent /\ page.kind = "monitors" /\ "kind" \in DOMAIN page /\ saves' = saves
        /\ page' = [page EXCEPT !.busy = "call", !.error = @ /\ row = Absent]
    BY <1>0, <1>8, <2>1 DEF Changes, Change, On, PageKinds, secretVars
  <2> QED
    BY <2>2, SavesStay DEF On
<1>9. CASE Enters
  BY <1>9, EntersSaves
<1>10. CASE Saves
  BY <1>10, SavingSaves DEF Saves
<1>11. CASE Accidents
  <2>1. CASE UNCHANGED <<pagesVars, secretVars>>
    BY <1>1, <2>1 DEF pagesVars, secretVars
  <2>2. CASE NoPages /\ saves' = {}
    BY <2>2 DEF NoPages, SavesInv, On, ConsentIsForTheTokenShown
  <2> QED
    BY <1>11, <2>1, <2>2 DEF Accidents
<1>12. CASE \/ \E p \in Desktop : Boots(p) \/ RetryElsewhere(p) \/ Launches(p)
            \/ Repairs \/ SavesElsewhere \/ UNCHANGED vars
  BY <1>1, <1>12 DEF Boots, RetryElsewhere, Launches, Repairs, SavesElsewhere, vars, pagesVars,
                     secretVars
<1> QED
  BY <1>2, <1>3, <1>5, <1>6, <1>7, <1>8, <1>9, <1>10, <1>11, <1>12 DEF Next

\* ConsentIsForTheTokenShown: in every order of typing, verifying, saving, failing, leaving the
\* page and coming back, the warning is about the token in the field.
THEOREM ConsentIsForWhatIsShown == Spec => []ConsentIsForTheTokenShown
<1>1. Init => HostInv /\ ScreenInv /\ WindowInv /\ SavesInv
  BY InitHost, InitScreen, InitWindow, InitSaves
<1>2. HostInv /\ ScreenInv /\ WindowInv /\ SavesInv /\ [Next]_vars
        => (HostInv /\ ScreenInv /\ WindowInv /\ SavesInv)'
  BY HostStep, ScreenStep, KindsStep, NewsStep, SavesStep DEF WindowInv
<1>3. SavesInv => ConsentIsForTheTokenShown
  BY DEF SavesInv
<1> QED
  BY <1>1, <1>2, <1>3, PTL DEF Spec

-----------------------------------------------------------------------------
\* The file and the supervisor.

Writing(s) == s.step \in {"write", "written"}

\* While no writing met another, one save at most is about to write, or has written and not
\* configured; but for its token, the supervisor has the one in the file.
SecretInv ==
  ~clash =>
    /\ \A s, o \in saves : Writing(s) /\ Writing(o) => s = o
    /\ \A s \in saves : s.step = "written" => Readable = s.token
    /\ ~At(Windowed, "off") /\ (\A s \in saves : ~Writing(s)) => configured = Readable

LEMMA InitSecret == Init => SecretInv
BY DEF Init, SecretInv

\* A process that is off stays off until it is launched.
LEMMA OffStaysOff ==
  ASSUME HostInv, At(Windowed, "off"), (\E p \in Desktop : Boot(p) \/ Retry(p)) \/ Accident
  PROVE  At(Windowed, "off")'
<1>1. pc \in [Desktop -> {"off", "read", "open", "write", "up", "error"} \cup PastCredentials]
  BY DEF HostInv, HostTypes
<1>2. ASSUME NEW p \in Desktop, pc[p] # "off", NEW step, Goto(p, step)
      PROVE  At(Windowed, "off")'
  BY <1>1, <1>2 DEF Goto, At
<1>3. ASSUME NEW p \in Desktop, Boot(p)
      PROVE  pc[p] # "off" /\ \E step : Goto(p, step)
  BY <1>3 DEF Boot, ReadCredentials, OpenCredentials, OpenExclusively, OpenAnyway, Use, Fail,
              WriteCredentials, Inspect, StartIfStopped, CreateContainer, StartContainer, Healthy,
              HealthTimesOut, Migrate, At
<1>4. ASSUME NEW p \in Desktop, Retry(p)
      PROVE  pc[p] # "off" /\ \E step : Goto(p, step)
  BY <1>4 DEF Retry, Phase, PhaseAt
<1>5. ASSUME NEW p \in Desktop, Fault(p) \/ Die(p)
      PROVE  pc[p] # "off" /\ \E step : Goto(p, step)
  BY <1>5 DEF Fault, Die, Fail, InProgress, At
<1>6. CASE UNCHANGED pc
  BY <1>6 DEF At
<1> QED
  BY <1>2, <1>3, <1>4, <1>5, <1>6
  DEF Accident, DockerStops, RemoveContainer, RemoveVolume, process

LEMMA SecretStays ==
  ASSUME SecretInv, UNCHANGED secretVars, At(Windowed, "off") => At(Windowed, "off")'
  PROVE  SecretInv'
BY DEF SecretInv, secretVars, Readable, Writing

\* A save that is disowned writes on.
LEMMA DisowningKeepsSecret ==
  ASSUME SavesInv, SecretInv, saves' = Disowned, UNCHANGED <<secret, configured, clash, pc>>
  PROVE  SecretInv'
<1>1. ASSUME NEW s \in saves
      PROVE  /\ [s EXCEPT !.mine = FALSE].step = s.step
             /\ [s EXCEPT !.mine = FALSE].token = s.token
  <2>1. s \in SaveRecord
    BY DEF SavesInv
  <2> QED
    BY <2>1 DEF SaveRecord
<1>2. \A s \in saves' : \E o \in saves :
        s = [o EXCEPT !.mine = FALSE] /\ s.step = o.step /\ s.token = o.token
  BY <1>1 DEF Disowned
<1>3. \A o \in saves : \E s \in saves' : s.step = o.step
  BY <1>1 DEF Disowned
<1>4. Readable' = Readable /\ (At(Windowed, "off")' <=> At(Windowed, "off"))
  BY DEF Readable, At
<1>5. ASSUME ~clash, NEW s \in saves', NEW o \in saves', Writing(s), Writing(o) PROVE s = o
  <2>1. PICK a \in saves : s = [a EXCEPT !.mine = FALSE] /\ s.step = a.step
    BY <1>2
  <2>2. PICK b \in saves : o = [b EXCEPT !.mine = FALSE] /\ o.step = b.step
    BY <1>2
  <2>3. a = b
    BY <1>5, <2>1, <2>2 DEF SecretInv, Writing
  <2> QED
    BY <2>1, <2>2, <2>3
<1>6. ASSUME ~clash, NEW s \in saves', s.step = "written" PROVE Readable = s.token
  BY <1>2, <1>6 DEF SecretInv
<1>7. ASSUME ~clash, ~At(Windowed, "off"), \A s \in saves' : ~Writing(s)
      PROVE  configured = Readable
  BY <1>3, <1>7 DEF SecretInv, Writing
<1> QED
  BY <1>4, <1>5, <1>6, <1>7 DEF SecretInv

\* A save that does not write yet changes nothing.
LEMMA PlainSaveKeepsSecret ==
  ASSUME SecretInv, KeepFile, UNCHANGED pc,
         \A s \in saves : Writing(s) => s \in saves',
         \A s \in saves' : Writing(s) => s \in saves
  PROVE  SecretInv'
<1>1. Readable' = Readable /\ (At(Windowed, "off")' <=> At(Windowed, "off"))
  BY DEF Readable, At, KeepFile
<1>2. UNCHANGED <<configured, clash>>
  BY DEF KeepFile
<1>3. \A s \in saves' : s.step = "written" => Writing(s)
  BY DEF Writing
<1> QED
  BY <1>1, <1>2, <1>3 DEF SecretInv

LEMMA SavingKeepsSecret ==
  ASSUME SavesInv, SecretInv, UNCHANGED pc, NEW s \in saves,
         \/ Verifies(s) \/ Checks(s) \/ Writes(s) \/ Configures(s)
         \/ VerifyFails(s) \/ CannotOpen(s) \/ WriteFails(s)
  PROVE  SecretInv'
<1>0. s \in SaveRecord
  BY DEF SavesInv
<1>1. ASSUME NEW step \in {"check", "write", "written"}
      PROVE  [s EXCEPT !.step = step].step = step /\ [s EXCEPT !.step = step].token = s.token
  BY <1>0 DEF SaveRecord
<1>2. At(Windowed, "off")' <=> At(Windowed, "off")
  BY DEF At
<1>3. ASSUME ~Writing(s), Over(s), KeepFile PROVE SecretInv'
  BY <1>3, PlainSaveKeepsSecret DEF Over
<1>4. CASE Verifies(s)
  <2>1. /\ saves' = (saves \ {s}) \cup {[s EXCEPT !.step = "check"]} /\ KeepFile
        /\ ~Writing(s) /\ ~Writing([s EXCEPT !.step = "check"])
    BY <1>1, <1>4 DEF Verifies, Step, Writing
  <2> QED
    BY <2>1, PlainSaveKeepsSecret
<1>5. CASE VerifyFails(s)
  BY <1>3, <1>5 DEF VerifyFails, Writing
<1>6. CASE CannotOpen(s)
  BY <1>3, <1>6 DEF CannotOpen, Unavailable, Writing
<1>7. CASE Checks(s)
  <2>1. CASE Over(s) /\ UNCHANGED <<secret, clash>>
    BY <1>3, <1>7, <2>1 DEF Checks, KeepFile, Writing
  <2>2. CASE /\ Step(s, "write")
             /\ clash' = (clash \/ \E o \in saves : o.step \in {"write", "written"})
    <3> DEFINE n == [s EXCEPT !.step = "write"]
    <3>1. saves' = (saves \ {s}) \cup {n} /\ n.step = "write"
      BY <1>1, <2>2 DEF Step
    <3> HIDE DEF n
    <3>2. ~clash' => \A o \in saves : ~Writing(o)
      BY <2>2 DEF Writing
    <3>3. ~clash' => \A o \in saves' : Writing(o) => o = n
      BY <3>1, <3>2
    <3>4. n \in saves' /\ Writing(n)
      BY <3>1 DEF Writing
    <3>5. ~clash' => \A o \in saves' : o.step # "written"
      BY <3>1, <3>3 DEF Writing
    <3> QED
      BY <3>3, <3>4, <3>5 DEF SecretInv
  <2> QED
    BY <1>7, <2>1, <2>2 DEF Checks, Unavailable
<1>8. CASE Writes(s)
  <2> DEFINE n == [s EXCEPT !.step = "written"]
  <2>1. saves' = (saves \ {s}) \cup {n} /\ n.step = "written" /\ n.token = s.token
    BY <1>1, <1>8 DEF Writes, Step
  <2> HIDE DEF n
  <2>2. Readable' = s.token
    BY <1>0, <1>8, AKeptTokenCanBeRead DEF Writes, Readable, Protection, SaveRecord
  <2>3. Writing(s) /\ Writing(n) /\ clash' = clash
    BY <1>8, <2>1 DEF Writes, Writing
  <2>4. ~clash => \A o \in saves' : Writing(o) => o = n
    BY <2>1, <2>3 DEF SecretInv
  <2>5. ~clash => \A o \in saves' : o.step = "written" => o = n
    BY <2>4 DEF Writing
  <2> QED
    BY <2>1, <2>2, <2>3, <2>4, <2>5 DEF SecretInv
<1>9. CASE WriteFails(s)
  BY <1>9 DEF WriteFails, SecretInv
<1>10. CASE Configures(s)
  <2>1. /\ s.step = "written" /\ saves' = saves \ {s} /\ configured' = s.token
        /\ clash' = clash /\ Readable' = Readable
    BY <1>10 DEF Configures, Over, ConfigureNow, Readable
  <2>2. ~clash => \A o \in saves' : ~Writing(o) /\ o.step # "written"
    BY <2>1 DEF SecretInv, Writing
  <2>3. ~clash => configured' = Readable'
    BY <2>1 DEF SecretInv
  <2> QED
    BY <2>1, <2>2, <2>3 DEF SecretInv
<1> QED
  BY <1>4, <1>5, <1>6, <1>7, <1>8, <1>9, <1>10

LEMMA SecretStep ==
  ASSUME HostInv, ScreenInv, WindowInv, SavesInv, SecretInv, [Next]_vars
  PROVE  SecretInv'
<1>0. pc \in [Desktop -> {"off", "read", "open", "write", "up", "error"} \cup PastCredentials]
  BY DEF HostInv, HostTypes
<1>1. CASE UNCHANGED <<pc, secretVars>>
  BY <1>1, SecretStays DEF At
<1>2. CASE UNCHANGED <<pc, secret, configured, clash>>
           /\ (saves' = saves \/ saves' = Disowned)
  BY <1>1, <1>2, DisowningKeepsSecret DEF secretVars
<1>3. ASSUME NEW p \in Desktop, Boots(p) \/ RetryElsewhere(p) PROVE SecretInv'
  BY <1>3, OffStaysOff, SecretStays DEF Boots, RetryElsewhere
<1>4. ASSUME NEW p \in Desktop, Launches(p) PROVE SecretInv'
  <2>1. CASE p = Windowed
    <3>1. saves = {} /\ saves' = {} /\ configured' = Readable /\ Readable' = Readable
      BY <1>4, <2>1 DEF Launches, Launch, WindowInv, NothingWithoutProcess, Readable
    <3> QED
      BY <3>1 DEF SecretInv
  <2>2. CASE p # Windowed
    <3>1. UNCHANGED <<pc[Windowed], secretVars>>
      BY <1>0, <1>4, <2>2 DEF Launches, Launch, Goto, secretVars
    <3> QED
      BY <3>1, SecretStays DEF At
  <2> QED
    BY <2>1, <2>2
<1>5. CASE Accidents
  <2>1. CASE At(Windowed, "off") \/ pc'[Windowed] # "off"
    BY <1>5, <2>1, OffStaysOff, SecretStays DEF Accidents
  <2>2. CASE ~(At(Windowed, "off") \/ pc'[Windowed] # "off")
    BY <1>5, <2>2 DEF Accidents, SecretInv, At
  <2> QED
    BY <2>1, <2>2
<1>6. CASE Window
  <2>1. CASE Mounts \/ AnswersBootState
    BY <1>1, <2>1 DEF Mounts, AnswersBootState, bootVars, process
  <2>2. CASE Retries
    BY <2>2, OffStaysOff, SecretStays, WindowedIsADesktop DEF Retries
  <2>3. CASE Reads
    BY <1>2, <2>3 DEF Reads, Update, Hide, Reveal, bootVars, process
  <2>4. CASE TimerFires
    BY <1>2, <2>4 DEF TimerFires, Reveal, bootVars, process
  <2> QED
    BY <1>6, <2>1, <2>2, <2>3, <2>4 DEF Window
<1>7. CASE Settles
  BY <1>2, <1>7 DEF Settles, Moves, bootVars, process
<1>8. ASSUME NEW r \in Route, Go(r) PROVE SecretInv'
  BY <1>2, <1>8 DEF Go, Moves, process
<1>9. CASE Enters
  <2>1. UNCHANGED pc /\ KeepFile
    BY <1>9 DEF Enters, Type, VerifyAndSave, ConfirmUnprotectedSave, CancelUnprotectedSave, process
  <2>2. \/ saves' = saves
        \/ \E token, allow : \E step \in {"verify", "check"} :
             saves' = saves \cup {Save(token, step, allow, TRUE)}
    BY <1>9 DEF Enters, Type, VerifyAndSave, ConfirmUnprotectedSave, CancelUnprotectedSave
  <2>3. \A token, allow : \A step \in {"verify", "check"} : ~Writing(Save(token, step, allow, TRUE))
    BY DEF Writing, Save
  <2>4. /\ \A s \in saves : Writing(s) => s \in saves'
        /\ \A s \in saves' : Writing(s) => s \in saves
    <3>1. CASE saves' = saves
      BY <3>1
    <3>2. ASSUME NEW n, ~Writing(n), saves' = saves \cup {n}
          PROVE  /\ \A s \in saves : Writing(s) => s \in saves'
                 /\ \A s \in saves' : Writing(s) => s \in saves
      BY <3>2
    <3> QED
      BY <2>2, <2>3, <3>1, <3>2
  <2> QED
    BY <2>1, <2>4, PlainSaveKeepsSecret
<1>10. CASE Saves
  BY <1>10, SavingKeepsSecret DEF Saves, process
<1>11. CASE Repairs \/ Answers \/ Hears \/ Changes \/ UNCHANGED vars
  BY <1>1, <1>11 DEF Repairs, Repair, Answers, Hears, Changes, vars, bootVars, process
<1>12. CASE SavesElsewhere
  <2>1. clash' = ~At(Windowed, "off") /\ UNCHANGED <<pc, saves>>
    BY <1>12 DEF SavesElsewhere, process
  <2>2. CASE At(Windowed, "off")
    <3>1. saves' = {} /\ At(Windowed, "off")'
      BY <2>1, <2>2 DEF WindowInv, NothingWithoutProcess, At
    <3> QED
      BY <3>1 DEF SecretInv
  <2>3. CASE ~At(Windowed, "off")
    BY <2>1, <2>3 DEF SecretInv
  <2> QED
    BY <2>2, <2>3
<1> QED
  BY <1>3, <1>4, <1>5, <1>6, <1>7, <1>8, <1>9, <1>10, <1>11, <1>12 DEF Next

\* SecretIsConfigured: in every order of saves, failures, restarts and pages left, and of the
\* saves of other processes, a process uses the token in the file; unless, since its start, two
\* writings met, one failed, or one was another process's.
THEOREM TokenInUseIsTheOneKept == Spec => []SecretIsConfigured
<1>1. Init => HostInv /\ ScreenInv /\ WindowInv /\ SavesInv /\ SecretInv
  BY InitHost, InitScreen, InitWindow, InitSaves, InitSecret
<1>2. HostInv /\ ScreenInv /\ WindowInv /\ SavesInv /\ SecretInv /\ [Next]_vars
        => (HostInv /\ ScreenInv /\ WindowInv /\ SavesInv /\ SecretInv)'
  BY HostStep, ScreenStep, KindsStep, NewsStep, SavesStep, SecretStep DEF WindowInv
<1>3. SecretInv => SecretIsConfigured
  BY DEF SecretInv, SecretIsConfigured
<1> QED
  BY <1>1, <1>2, <1>3, PTL DEF Spec

-----------------------------------------------------------------------------
\* What the pages show, and what their last request has brought so far.

Quiet == \A i \in 1..Len(news) : news[i] # "changed"

RequestsStand(p) ==
  /\ p.latest \in Nat /\ p.requests \subseteq ListRequest
  /\ \A q \in p.requests : q.id <= p.latest

HomeStands(p) ==
  /\ "kind" \in DOMAIN p /\ "latest" \in DOMAIN p /\ "requests" \in DOMAIN p
  /\ "state" \in DOMAIN p
  /\ RequestsStand(p)
MonitorsStand(p) == p \in MonitorsRecord /\ RequestsStand(p)

Up(p, q) == q.id = p.latest

\* But for a run that has started or ended unannounced.
Agrees(list, there) == SameState(list, there) /\ ("run" \notin silent => list = there)

HomeIsCurrent(p) ==
  /\ \A q \in p.requests : Up(p, q) => q.live \in {Unread, Failed} \/ Agrees(q.live, Live)
  /\ p.state = "ready" => Live = Absent

\* A failure to be shown: by the page, or as the answer to the change it waits for.
FailureShows(p) == p.error = TRUE \/ (change # Absent /\ change.mine /\ ~change.creates)
MonitorsAreCurrent(p) ==
  /\ \A q \in p.requests : Up(p, q) =>
       /\ q.live \in {Unread, Failed} \/ Agrees(q.live, Live)
       /\ q.archived = Unread \/ Agrees(q.archived, Archived)
  /\ \/ \E q \in p.requests : Up(p, q)
     \/ Agrees(p.live, Live) /\ Agrees(p.archived, Archived)
     \/ FailureShows(p)

\* No event is needed to bring the last request up to date.
ListsShown ==
  /\ On("home") => HomeStands(page)
  /\ On("monitors") => MonitorsStand(page)
  /\ "state" \notin silent /\ Quiet =>
       /\ On("home") => HomeIsCurrent(page)
       /\ On("monitors") => MonitorsAreCurrent(page)

\* The monitor, and the page of a change that has one.
OwnerShows == change # Absent /\ change.mine => page # Absent
ListsInv == row \in {Absent} \cup MonitorRow /\ OwnerShows /\ ListsShown

LEMMA InitLists == Init => ListsInv
BY DEF Init, ListsInv, OwnerShows, ListsShown, On

LEMMA NoListShown ==
  ASSUME page' = Absent \/ page'.kind = "settings"
  PROVE  ListsShown'
BY DEF ListsShown, On

\* As it was, and nothing has become wrong.
LEMMA ListsStay ==
  ASSUME ListsShown, UNCHANGED <<page, row, change, silent>>, Quiet' => Quiet
  PROVE  ListsShown'
<1>1. UNCHANGED <<Live, Archived>>
  BY DEF Live, Archived
<1> QED
  BY <1>1 DEF ListsShown, On, HomeIsCurrent, MonitorsAreCurrent, FailureShows, Agrees, SameState

LEMMA ListsUnsure ==
  ASSUME ListsShown, page' = page, "state" \in silent' \/ ~Quiet'
  PROVE  ListsShown'
BY DEF ListsShown, On

\* A page that asks waits for an answer from now on.
LEMMA AskingStands ==
  ASSUME NEW p, "latest" \in DOMAIN p, "requests" \in DOMAIN p, RequestsStand(p)
  PROVE  LET n == Asking(p) IN
         /\ DOMAIN n = DOMAIN p /\ RequestsStand(n)
         /\ \A f \in DOMAIN p \ {"latest", "requests"} : n[f] = p[f]
         /\ \E q \in n.requests : Up(n, q)
         /\ \A q \in n.requests : Up(n, q) => q.live = Unread /\ q.archived = Unread
<1> DEFINE n == Asking(p)
           new == Request(p.latest + 1)
<1>1. /\ new.id = p.latest + 1 /\ new.live = Unread /\ new.archived = Unread
      /\ new \in ListRequest
  BY DEF Request, RequestsStand, ListRequest, MonitorList
<1>2. n = [p EXCEPT !.latest = @ + 1, !.requests = @ \cup {new}]
  BY DEF Asking
<1> HIDE DEF new
<1>3. /\ DOMAIN n = DOMAIN p
      /\ n.latest = p.latest + 1 /\ n.requests = p.requests \cup {new}
      /\ \A f \in DOMAIN p \ {"latest", "requests"} : n[f] = p[f]
  BY <1>2
<1> HIDE DEF n
<1>4. RequestsStand(n)
  BY <1>1, <1>3 DEF RequestsStand, ListRequest
<1>5. new \in n.requests /\ Up(n, new)
  BY <1>1, <1>3 DEF Up
<1>6. \A q \in n.requests : Up(n, q) => q = new
  BY <1>1, <1>3 DEF RequestsStand, ListRequest, Up
<1> QED
  BY <1>1, <1>3, <1>4, <1>5, <1>6 DEF n

LEMMA HomeAsks ==
  ASSUME NEW p, p.kind = "home", HomeStands(p), page' = Refreshed(p)
  PROVE  ListsShown'
<1> DEFINE n == Asking(p)
<1>1. /\ DOMAIN n = DOMAIN p /\ RequestsStand(n) /\ n.kind = "home"
      /\ \A q \in n.requests : Up(n, q) => q.live = Unread
  BY AskingStands DEF HomeStands
<1>2. page' = [n EXCEPT !.state = "loading"]
  BY DEF Refreshed
<1> HIDE DEF n
<1>3. /\ DOMAIN page' = DOMAIN n /\ page'.kind = "home" /\ page'.state = "loading"
      /\ page'.latest = n.latest /\ page'.requests = n.requests
  BY <1>1, <1>2 DEF HomeStands
<1>4. HomeStands(page)'
  BY <1>1, <1>3 DEF HomeStands, RequestsStand
<1>5. HomeIsCurrent(page)'
  BY <1>1, <1>3 DEF HomeIsCurrent, Up
<1> QED
  BY <1>3, <1>4, <1>5 DEF ListsShown, On

LEMMA MonitorsAsk ==
  ASSUME NEW p, p.kind = "monitors", MonitorsStand(p),
         \/ page' = Refreshed(p)
         \/ page' = [Refreshed(p) EXCEPT !.busy = "refresh", !.awaits = p.latest + 1]
  PROVE  ListsShown' /\ page' # Absent
<1> DEFINE n == Asking(p)
<1>0. p \in MonitorsRecord /\ p.latest + 1 \in Nat
  BY DEF MonitorsStand, RequestsStand
<1>1. /\ DOMAIN n = DOMAIN p /\ RequestsStand(n)
      /\ \A f \in DOMAIN p \ {"latest", "requests"} : n[f] = p[f]
      /\ \E q \in n.requests : Up(n, q)
      /\ \A q \in n.requests : Up(n, q) => q.live = Unread /\ q.archived = Unread
  BY <1>0, AskingStands DEF MonitorsStand, MonitorsRecord
<1>2. n \in MonitorsRecord
  <2>1. n = [p EXCEPT !.latest = p.latest + 1, !.requests = n.requests]
    BY <1>0 DEF Asking, MonitorsRecord
  <2>2. n.requests \in SUBSET ListRequest
    BY <1>1 DEF RequestsStand
  <2> HIDE DEF n
  <2> QED
    BY <1>0, <2>1, <2>2 DEF MonitorsRecord
<1>3. \/ page' = n
      \/ page' = [n EXCEPT !.busy = "refresh", !.awaits = p.latest + 1]
  BY DEF Refreshed
<1> HIDE DEF n
<1>4. /\ page' \in MonitorsRecord /\ page'.latest = n.latest
      /\ page'.requests = n.requests
  BY <1>0, <1>2, <1>3 DEF MonitorsRecord
<1>5. MonitorsStand(page)' /\ page'.kind = "monitors" /\ page' # Absent
  BY <1>1, <1>4 DEF MonitorsStand, RequestsStand, MonitorsRecord
<1>6. MonitorsAreCurrent(page)'
  BY <1>1, <1>4 DEF MonitorsAreCurrent, Up
<1> QED
  BY <1>5, <1>6 DEF ListsShown, On

LEMMA MountedLists ==
  ASSUME NEW r \in Route, page' = Mounted(r)
  PROVE  ListsShown'
<1>1. CASE r = "home"
  <2>1. HomeStands(Home) /\ Home.kind = "home"
    BY DEF Home, HomeStands, RequestsStand, ListRequest
  <2> QED
    BY <1>1, <2>1, HomeAsks DEF Mounted
<1>2. CASE r = "monitors"
  <2>1. MonitorsStand(Monitors) /\ Monitors.kind = "monitors"
    BY DEF Monitors, MonitorsStand, RequestsStand, MonitorsRecord, MonitorList, ListRequest
  <2> QED
    BY <1>2, <2>1, MonitorsAsk DEF Mounted
<1>3. CASE r = "settings"
  BY <1>3, MountedKinds, NoListShown
<1> QED
  BY <1>1, <1>2, <1>3 DEF Route

LEMMA ListsAreLists ==
  ASSUME row \in {Absent} \cup MonitorRow
  PROVE  Live \in MonitorList /\ Archived \in MonitorList
BY DEF Live, Archived, MonitorList

\* An answer, or a part of one, to one of the page's requests.
LEMMA AnswerLists ==
  ASSUME ListsShown, page # Absent, page.kind # "settings", PageKinds, NEW q \in page.requests,
         ReadLive(q) \/ ReadArchived(q) \/ FailToRead(q),
         row \in {Absent} \cup MonitorRow, UNCHANGED <<row, change, news, silent>>
  PROVE  ListsShown' /\ (On("monitors") => page' # Absent)
<1>0. "kind" \in DOMAIN page /\ UNCHANGED <<Live, Archived>> /\ (Quiet' <=> Quiet)
  BY DEF PageKinds, Live, Archived, Quiet
<1>1. CASE ~On("home") /\ ~On("monitors")
  BY <1>0, <1>1 DEF ListsShown, On, ReadLive, ReadArchived, FailToRead
<1>2. CASE On("home") \/ On("monitors")
  <2>1. /\ q \in ListRequest /\ Live \in MonitorList /\ Archived \in MonitorList
        /\ "requests" \in DOMAIN page /\ RequestsStand(page)
    BY <1>2, ListsAreLists
    DEF ListsShown, HomeStands, MonitorsStand, RequestsStand, MonitorsRecord
  <2>2. PICK a : /\ page' = [page EXCEPT !.requests = (@ \ {q}) \cup {a}]
                 /\ a.id = q.id /\ a \in ListRequest
                 /\ a.live \in {q.live, Live, Failed}
                 /\ a.archived \in {q.archived, Archived}
    <3>1. CASE ReadLive(q)
      <4> DEFINE a == [q EXCEPT !.live = Live]
      <4>1. /\ page' = [page EXCEPT !.requests = (@ \ {q}) \cup {a}]
            /\ a.id = q.id /\ a \in ListRequest
            /\ a.live = Live /\ a.archived = q.archived
        BY <2>1, <3>1 DEF ReadLive, ListRequest, MonitorList
      <4> HIDE DEF a
      <4> QED
        BY <4>1
    <3>2. CASE ReadArchived(q)
      <4> DEFINE a == [q EXCEPT !.archived = Archived]
      <4>1. /\ page' = [page EXCEPT !.requests = (@ \ {q}) \cup {a}]
            /\ a.id = q.id /\ a \in ListRequest
            /\ a.live = q.live /\ a.archived = Archived
        BY <2>1, <3>2 DEF ReadArchived, ListRequest, MonitorList
      <4> HIDE DEF a
      <4> QED
        BY <4>1
    <3>3. CASE FailToRead(q)
      <4> DEFINE a == [q EXCEPT !.live = Failed]
      <4>1. /\ page' = [page EXCEPT !.requests = (@ \ {q}) \cup {a}]
            /\ a.id = q.id /\ a \in ListRequest
            /\ a.live = Failed /\ a.archived = q.archived
        BY <2>1, <3>3 DEF FailToRead, ListRequest, MonitorList
      <4> HIDE DEF a
      <4> QED
        BY <4>1
    <3> QED
      BY <3>1, <3>2, <3>3
  <2>3. /\ DOMAIN page' = DOMAIN page /\ page'.kind = page.kind
        /\ \A f \in DOMAIN page \ {"requests"} : page'[f] = page[f]
        /\ page'.requests = (page.requests \ {q}) \cup {a}
    BY <1>0, <2>1, <2>2
  <2>4. CASE On("home")
    <3>1. HomeStands(page) /\ "latest" \in DOMAIN page /\ "state" \in DOMAIN page
      BY <2>4 DEF ListsShown, HomeStands
    <3>2. page'.latest = page.latest /\ page'.state = page.state
      BY <2>3, <3>1
    <3>3. HomeStands(page)'
      BY <2>1, <2>2, <2>3, <3>1, <3>2 DEF HomeStands, RequestsStand
    <3>4. "state" \notin silent /\ Quiet => HomeIsCurrent(page)'
      BY <1>0, <2>2, <2>3, <2>4, <3>2
      DEF ListsShown, HomeIsCurrent, Up, Agrees, SameState
    <3> QED
      BY <1>0, <2>3, <2>4, <3>3, <3>4 DEF ListsShown, On
  <2>5. CASE On("monitors")
    <3>1. MonitorsStand(page)
      BY <2>5 DEF ListsShown
    <3>2. /\ page' \in MonitorsRecord /\ page' # Absent
          /\ page'.latest = page.latest /\ page'.live = page.live
          /\ page'.archived = page.archived /\ page'.error = page.error
      <4>1. page' = [page EXCEPT !.requests = page'.requests]
        BY <2>2, <2>3, <3>1 DEF MonitorsStand, MonitorsRecord
      <4>2. page'.requests \in SUBSET ListRequest
        BY <2>1, <2>2, <2>3 DEF RequestsStand
      <4> QED
        BY <3>1, <4>1, <4>2 DEF MonitorsStand, MonitorsRecord
    <3>3. MonitorsStand(page)'
      BY <2>1, <2>2, <2>3, <3>1, <3>2 DEF MonitorsStand, RequestsStand
    <3>4. ASSUME "state" \notin silent, Quiet PROVE MonitorsAreCurrent(page)'
      <4>1. MonitorsAreCurrent(page)
        BY <2>5, <3>4 DEF ListsShown
      <4>2. \A o \in page'.requests : Up(page', o) =>
              /\ o.live \in {Unread, Failed} \/ Agrees(o.live, Live)
              /\ o.archived = Unread \/ Agrees(o.archived, Archived)
        BY <2>2, <2>3, <3>2, <4>1 DEF MonitorsAreCurrent, Up, Agrees, SameState
      <4>3. (\E o \in page.requests : Up(page, o)) => \E o \in page'.requests : Up(page', o)
        BY <2>2, <2>3, <3>2 DEF Up
      <4>4. FailureShows(page)' <=> FailureShows(page)
        BY <3>2 DEF FailureShows
      <4> QED
        BY <1>0, <3>2, <4>1, <4>2, <4>3, <4>4 DEF MonitorsAreCurrent, Agrees, SameState
    <3> QED
      BY <1>0, <2>3, <2>5, <3>2, <3>3, <3>4 DEF ListsShown, On
  <2> QED
    BY <1>2, <2>4, <2>5
<1> QED
  BY <1>1, <1>2

\* The page takes the answer to its last request, and drops the others.
LEMMA HomeSettles ==
  ASSUME ListsShown, NEW q \in page.requests, SettleHome(q), UNCHANGED <<row, news>>
  PROVE  ListsShown'
<1>0. /\ On("home") /\ HomeStands(page) /\ UNCHANGED <<Live, Archived>> /\ (Quiet' <=> Quiet)
      /\ page # Absent /\ page.kind = "home"
  BY DEF SettleHome, ListsShown, Live, Archived, Quiet, On
<1>1. CASE Navigate("monitors")
  <2>1. CASE UNCHANGED <<page, change, silent>>
    BY <1>0, <2>1, ListsStay
  <2>2. CASE page' = Mounted("monitors")
    BY <2>2, MountedLists DEF Route
  <2> QED
    BY <1>0, <1>1, <2>1, <2>2 DEF Navigate, Mount
<1>2. CASE ~Navigate("monitors")
  <2>1. /\ UNCHANGED <<change, silent>>
        /\ \/ ~IsLatest(q) /\ page' = [page EXCEPT !.requests = @ \ {q}]
           \/ /\ IsLatest(q) /\ q.live \in {Failed, Absent} /\ q.live # Unread
              /\ page' = [page EXCEPT !.requests = @ \ {q},
                                      !.state = IF q.live = Failed THEN "error" ELSE "ready"]
    BY <1>2 DEF SettleHome
  <2>2. /\ DOMAIN page' = DOMAIN page /\ page'.kind = "home" /\ page'.latest = page.latest
        /\ page'.requests = page.requests \ {q}
        /\ \/ page'.state = page.state
           \/ /\ IsLatest(q) /\ q.live \in {Failed, Absent} /\ q.live # Unread
              /\ page'.state = "ready" => q.live # Failed
    BY <1>0, <2>1 DEF HomeStands
  <2>3. HomeStands(page)'
    BY <1>0, <2>2 DEF HomeStands, RequestsStand
  <2>4. "state" \notin silent /\ Quiet => HomeIsCurrent(page)'
    BY <1>0, <2>1, <2>2 DEF ListsShown, HomeIsCurrent, Up, IsLatest, Agrees, SameState
  <2> QED
    BY <1>0, <2>1, <2>2, <2>3, <2>4 DEF ListsShown, On
<1> QED
  BY <1>1, <1>2

LEMMA MonitorsSettle ==
  ASSUME ListsShown, NEW q \in page.requests, SettleMonitors(q), UNCHANGED <<row, news>>
  PROVE  ListsShown' /\ page' # Absent
<1>0. /\ On("monitors") /\ MonitorsStand(page) /\ UNCHANGED <<Live, Archived>>
      /\ (Quiet' <=> Quiet) /\ page # Absent /\ page.kind = "monitors" /\ Read(q)
      /\ UNCHANGED <<change, silent>>
  BY DEF SettleMonitors, ListsShown, Live, Archived, Quiet, On
<1> DEFINE p == [page EXCEPT !.requests = @ \ {q},
                             !.busy = IF @ = "refresh" /\ page.awaits = q.id THEN "no" ELSE @]
<1>1. /\ p \in MonitorsRecord /\ p.latest = page.latest
      /\ p.requests = page.requests \ {q} /\ p.live = page.live
      /\ p.archived = page.archived /\ p.error = page.error
  BY <1>0 DEF MonitorsStand, MonitorsRecord
<1>2. page' = IF ~IsLatest(q) THEN p
              ELSE IF q.live = Failed THEN [p EXCEPT !.error = TRUE]
              ELSE [p EXCEPT !.live = q.live, !.archived = q.archived, !.error = FALSE]
  BY DEF SettleMonitors
<1> HIDE DEF p
<1>3. /\ page' \in MonitorsRecord /\ page'.latest = page.latest
      /\ page'.requests = page.requests \ {q}
      /\ \/ /\ ~IsLatest(q) /\ page'.live = page.live /\ page'.archived = page.archived
            /\ page'.error = page.error
         \/ IsLatest(q) /\ page'.error = TRUE
         \/ /\ IsLatest(q) /\ q.live # Failed
            /\ page'.live = q.live /\ page'.archived = q.archived
  <2>1. q.live \in MonitorList /\ q.archived \in MonitorList
    BY <1>0 DEF MonitorsStand, RequestsStand, ListRequest
  <2> QED
    BY <1>1, <1>2, <2>1 DEF MonitorsRecord
<1>4. MonitorsStand(page)' /\ page'.kind = "monitors" /\ page' # Absent
  BY <1>0, <1>3 DEF MonitorsStand, RequestsStand, MonitorsRecord
<1>5. ASSUME "state" \notin silent, Quiet PROVE MonitorsAreCurrent(page)'
  <2>1. MonitorsAreCurrent(page)
    BY <1>0, <1>5 DEF ListsShown
  <2>2. \A o \in page'.requests : Up(page', o) =>
          /\ o.live \in {Unread, Failed} \/ Agrees(o.live, Live)
          /\ o.archived = Unread \/ Agrees(o.archived, Archived)
    BY <1>3, <2>1 DEF MonitorsAreCurrent, Up
  <2>3. \/ \E o \in page'.requests : Up(page', o)
        \/ Agrees(page'.live, Live) /\ Agrees(page'.archived, Archived)
        \/ FailureShows(page)'
    <3>1. CASE ~IsLatest(q)
      <4>1. (\E o \in page.requests : Up(page, o)) => \E o \in page'.requests : Up(page', o)
        BY <1>3, <3>1 DEF Up, IsLatest
      <4>2. page'.error = page.error /\ page'.live = page.live /\ page'.archived = page.archived
        BY <1>3, <3>1
      <4> QED
        BY <1>0, <2>1, <4>1, <4>2 DEF MonitorsAreCurrent, FailureShows
    <3>2. CASE page'.error = TRUE
      BY <3>2 DEF FailureShows
    <3>3. CASE IsLatest(q) /\ q.live # Failed /\ page'.live = q.live /\ page'.archived = q.archived
      BY <1>0, <2>1, <3>3 DEF MonitorsAreCurrent, Up, IsLatest, Read
    <3> QED
      BY <1>3, <3>1, <3>2, <3>3
  <2> QED
    BY <1>0, <2>2, <2>3 DEF MonitorsAreCurrent, Agrees, SameState
<1> QED
  BY <1>0, <1>3, <1>4, <1>5 DEF ListsShown, On

LEMMA ChangeLists ==
  ASSUME ListsShown, NEW to \in {"active", "paused", "archived"}, Change(to)
  PROVE  ListsShown' /\ page' # Absent
<1>0. /\ On("monitors") /\ MonitorsStand(page) /\ UNCHANGED <<Live, Archived, row, silent>>
      /\ (Quiet' <=> Quiet) /\ page # Absent /\ page.kind = "monitors" /\ change = Absent
      /\ change' = [to |-> to, step |-> "sent", mine |-> TRUE, creates |-> (row = Absent)]
      /\ page' = [page EXCEPT !.busy = "call", !.error = @ /\ row = Absent]
  BY DEF Change, ListsShown, Live, Archived, Quiet, On
<1>1. /\ page' \in MonitorsRecord /\ page'.latest = page.latest
      /\ page'.requests = page.requests /\ page'.live = page.live
      /\ page'.archived = page.archived
      /\ row # Absent \/ page'.error = page.error
  <2>1. page \in MonitorsRecord
    BY <1>0 DEF MonitorsStand
  <2>2. CASE row = Absent
    <3>1. (page.error /\ row = Absent) = page.error /\ page.error \in BOOLEAN
      BY <2>1, <2>2 DEF MonitorsRecord
    <3>2. page' = [page EXCEPT !.busy = "call", !.error = page.error]
      BY <1>0, <2>1, <3>1 DEF MonitorsRecord
    <3> QED
      BY <2>1, <3>1, <3>2 DEF MonitorsRecord
  <2>3. CASE row # Absent
    <3>1. (page.error /\ row = Absent) = FALSE
      BY <2>3
    <3>2. page' = [page EXCEPT !.busy = "call", !.error = FALSE]
      BY <1>0, <2>1, <3>1 DEF MonitorsRecord
    <3> QED
      BY <2>1, <2>3, <3>2 DEF MonitorsRecord
  <2> QED
    BY <2>2, <2>3
<1>2. change' # Absent /\ change'.mine /\ (change'.creates <=> row = Absent)
  <2>1. change' \in ChangeRecord
    BY <1>0 DEF ChangeRecord
  <2> QED
    BY <1>0, <2>1 DEF ChangeRecord
<1>3. MonitorsStand(page)' /\ page'.kind = "monitors" /\ page' # Absent
  BY <1>0, <1>1 DEF MonitorsStand, RequestsStand, MonitorsRecord
<1>4. ASSUME "state" \notin silent, Quiet PROVE MonitorsAreCurrent(page)'
  <2>1. MonitorsAreCurrent(page)
    BY <1>0, <1>4 DEF ListsShown
  <2>2. FailureShows(page) => FailureShows(page)'
    <3>1. CASE row = Absent
      <4>1. page'.error = page.error
        BY <1>1, <3>1
      <4> QED
        BY <1>0, <4>1 DEF FailureShows
    <3>2. CASE row # Absent
      BY <1>2, <3>2 DEF FailureShows
    <3> QED
      BY <3>1, <3>2
  <2> QED
    BY <1>0, <1>1, <2>1, <2>2 DEF MonitorsAreCurrent, Up, Agrees, SameState
<1> QED
  BY <1>0, <1>1, <1>3, <1>4 DEF ListsShown, On

LEMMA HearLists ==
  ASSUME WindowInv, OwnerShows, ListsShown, Hear
  PROVE  ListsShown'
<1>0. /\ PageKinds /\ ResultsAreHeardOnce /\ UNCHANGED <<Live, Archived, row>>
      /\ news # <<>> /\ news' = Tail(news)
  BY DEF WindowInv, Hear, Live, Archived
<1>1. Head(news) # "changed" /\ Quiet' => Quiet
  <2>1. /\ Len(news') = Len(news) - 1 /\ Head(news) = news[1]
        /\ \A i \in 1..Len(news') : news'[i] = news[i + 1]
    BY <1>0 DEF ResultsAreHeardOnce
  <2> SUFFICES ASSUME Head(news) # "changed", Quiet', NEW i \in 1..Len(news)
               PROVE  news[i] # "changed"
    BY DEF Quiet
  <2>2. CASE i = 1
    BY <2>1, <2>2
  <2>3. CASE i # 1
    <3>1. i - 1 \in 1..Len(news') /\ (i - 1) + 1 = i
      BY <1>0, <2>1, <2>3 DEF ResultsAreHeardOnce
    <3>2. news'[i - 1] # "changed"
      BY <3>1 DEF Quiet
    <3> QED
      BY <2>1, <3>1, <3>2
  <2> QED
    BY <2>2, <2>3
<1>2. Head(news) # "changed" => change # Absent /\ change \in ChangeRecord
  BY <1>0 DEF ResultsAreHeardOnce, PageKinds
<1>3. CASE Head(news) = "changed"
  <2>1. page' = IF page = Absent THEN Absent ELSE Refreshed(page)
    BY <1>3 DEF Hear
  <2>2. CASE page = Absent
    BY <2>1, <2>2, NoListShown
  <2>3. CASE page # Absent /\ page.kind = "home"
    BY <2>1, <2>3, HomeAsks DEF ListsShown, On
  <2>4. CASE page # Absent /\ page.kind = "monitors"
    BY <2>1, <2>4, MonitorsAsk DEF ListsShown, On
  <2>5. CASE page # Absent /\ page.kind \notin {"home", "monitors"}
    BY <1>0, <2>1, <2>5, RefreshedKinds DEF ListsShown, On, PageKinds
  <2> QED
    BY <2>2, <2>3, <2>4, <2>5
<1>4. CASE Head(news) # "changed" /\ change.mine
  <2>0. page # Absent /\ page.kind = "monitors" /\ MonitorsStand(page)
    <3>1. page.kind = "monitors" /\ view = "app"
      BY <1>0, <1>2, <1>4 DEF PageKinds
    <3>2. page # Absent
      BY <1>2, <1>4 DEF OwnerShows
    <3> QED
      BY <3>1, <3>2 DEF ListsShown, On
  <2>1. CASE Head(news) = "done"
    <3>1. page' = [Refreshed(page) EXCEPT !.busy = "refresh", !.awaits = page.latest + 1]
      BY <1>4, <2>1 DEF Hear
    <3> QED
      BY <2>0, <3>1, MonitorsAsk
  <2>2. CASE Head(news) # "done"
    <3>1. /\ page' = [page EXCEPT !.busy = "no", !.error = @ \/ ~change.creates]
          /\ change' = Absent /\ UNCHANGED silent
      BY <1>4, <2>2 DEF Hear
    <3>2. /\ page' \in MonitorsRecord
          /\ page'.latest = page.latest /\ page'.requests = page.requests
          /\ page'.live = page.live /\ page'.archived = page.archived
          /\ page.error = TRUE \/ ~change.creates => page'.error = TRUE
      <4> DEFINE e == page.error \/ ~change.creates
      <4>1. e \in BOOLEAN /\ (page.error = TRUE \/ ~change.creates => e = TRUE)
        OBVIOUS
      <4>2. page \in MonitorsRecord
        BY <2>0 DEF MonitorsStand
      <4>3. page' = [page EXCEPT !.busy = "no", !.error = e]
        BY <3>1, <4>2 DEF MonitorsRecord
      <4> HIDE DEF e
      <4> QED
        BY <4>1, <4>2, <4>3 DEF MonitorsRecord
    <3>3. MonitorsStand(page)' /\ page'.kind = "monitors"
      BY <2>0, <3>2 DEF MonitorsStand, RequestsStand, MonitorsRecord
    <3>4. ASSUME "state" \notin silent, Quiet PROVE MonitorsAreCurrent(page)'
      <4>1. MonitorsAreCurrent(page)
        BY <2>0, <3>4 DEF ListsShown, On
      <4>2. FailureShows(page) => FailureShows(page)'
        BY <3>2 DEF FailureShows
      <4> QED
        BY <1>0, <3>1, <3>2, <4>1, <4>2 DEF MonitorsAreCurrent, Up, Agrees, SameState
    <3> QED
      BY <1>1, <1>4, <2>0, <3>1, <3>2, <3>3, <3>4 DEF ListsShown, On
  <2> QED
    BY <2>1, <2>2
<1>5. CASE Head(news) # "changed" /\ ~change.mine
  <2>1. page' = page /\ change' = Absent /\ UNCHANGED silent
    BY <1>5 DEF Hear
  <2>2. FailureShows(page) => FailureShows(page)'
    BY <1>5, <2>1 DEF FailureShows
  <2> QED
    BY <1>0, <1>1, <1>5, <2>1, <2>2
    DEF ListsShown, On, HomeIsCurrent, MonitorsAreCurrent, Agrees, SameState
<1> QED
  BY <1>3, <1>4, <1>5

LEMMA RunsKeepTheState ==
  ASSUME row \in {Absent} \cup MonitorRow, RunStarts \/ RunEnds \/ RunEndsUnheard
  PROVE  row' \in MonitorRow /\ row'.state = row.state
<1>1. row \in MonitorRow
  BY DEF RunStarts, RunEnds, RunEndsUnheard
<1>2. PICK n \in {row.runs, row.runs + 1}, on \in BOOLEAN :
        row' = [row EXCEPT !.runs = n, !.running = on]
  <2>1. CASE RunStarts
    BY <2>1 DEF RunStarts
  <2>2. CASE RunEnds \/ RunEndsUnheard
    <3>1. row' = [row EXCEPT !.running = FALSE]
      BY <2>2 DEF RunEnds, RunEndsUnheard
    <3>2. row' = [row EXCEPT !.runs = row.runs, !.running = FALSE]
      BY <1>1, <3>1 DEF MonitorRow
    <3> QED
      BY <3>2
  <2> QED
    BY <2>1, <2>2
<1>3. n \in Nat
  BY <1>1 DEF MonitorRow
<1> QED
  BY <1>1, <1>2, <1>3 DEF MonitorRow

LEMMA RowStep ==
  ASSUME WindowInv, row \in {Absent} \cup MonitorRow, [Next]_vars
  PROVE  row' \in {Absent} \cup MonitorRow
<1>1. CASE row' = row
  BY <1>1
<1>2. ASSUME NEW to \in {"active", "paused", "archived"} PROVE RowWith(to) \in MonitorRow
  BY DEF RowWith, MonitorRow
<1>3. CASE Committed
  BY <1>2, <1>3 DEF Committed, WindowInv, PageKinds, ChangeRecord
<1>4. CASE Answers
  <2>1. CASE RunStarts \/ RunEnds \/ RunEndsUnheard
    BY <2>1, RunsKeepTheState
  <2>2. CASE ChangesElsewhere
    BY <1>2, <2>2 DEF ChangesElsewhere
  <2> QED
    BY <1>1, <1>3, <1>4, <2>1, <2>2 DEF Answers, Commits, CommitsUnannounced, Refuses
<1>5. ASSUME NEW p \in Desktop, Boots(p) \/ RetryElsewhere(p) \/ Launches(p) PROVE row' = row
  BY <1>5 DEF Boots, RetryElsewhere, Launches, pagesVars
<1>6. CASE Accidents
  BY <1>6 DEF Accidents, NoPages, pagesVars
<1>7. CASE Window
  BY <1>7 DEF Window, Mounts, AnswersBootState, Reads, TimerFires, Retries, Update, Hide,
              Reveal, pagesVars
<1>8. CASE \/ Repairs \/ Settles \/ Hears \/ Changes \/ Enters \/ Saves \/ SavesElsewhere
           \/ UNCHANGED vars
  BY <1>8 DEF Repairs, Settles, Hears, Hear, Changes, Change, Enters, Saves, SavesElsewhere,
              vars, pagesVars
<1>9. ASSUME NEW r \in Route, Go(r) PROVE row' = row
  BY <1>9 DEF Go
<1> QED
  BY <1>1, <1>4, <1>5, <1>6, <1>7, <1>8, <1>9 DEF Next

\* The worker's results, and what they announce.
LEMMA WorkerLists ==
  ASSUME WindowInv, ListsInv, UNCHANGED <<page, strays>>,
         \/ Commits \/ CommitsUnannounced \/ Refuses
         \/ (RunStarts \/ RunEnds \/ RunEndsUnheard \/ ChangesElsewhere) /\ UNCHANGED change
  PROVE  OwnerShows' /\ ListsShown'
<1>0. PageKinds /\ ResultsAreHeardOnce /\ OwnerShows /\ ListsShown /\ page' = page
  BY DEF WindowInv, ListsInv
<1>1. news \in Seq({"changed", "done", "failed"})
  BY <1>0 DEF ResultsAreHeardOnce
<1>2. /\ change' # Absent => change # Absent
      /\ change # Absent => /\ change' # Absent /\ change'.mine = change.mine
                            /\ change'.creates = change.creates
  <2>1. CASE UNCHANGED change
    BY <2>1
  <2>2. CASE change # Absent /\ change' = [change EXCEPT !.step = "answered"]
    <3>1. change \in ChangeRecord
      BY <1>0, <2>2 DEF PageKinds
    <3>2. change' \in ChangeRecord /\ change'.mine = change.mine /\ change'.creates = change.creates
      BY <2>2, <3>1 DEF ChangeRecord
    <3> QED
      BY <2>2, <3>2 DEF ChangeRecord
  <2> QED
    BY <2>1, <2>2 DEF Commits, CommitsUnannounced, Committed, Refuses
<1>3. OwnerShows'
  BY <1>0, <1>2 DEF OwnerShows
<1>4. CASE CommitsUnannounced \/ ChangesElsewhere
  BY <1>0, <1>3, <1>4, ListsUnsure DEF CommitsUnannounced, ChangesElsewhere
<1>5. CASE news' = news \o <<"changed", "done">> \/ news' = Append(news, "changed")
  <2>1. Len(news) + 1 \in 1..Len(news') /\ news'[Len(news) + 1] = "changed"
    BY <1>1, <1>5
  <2>2. ~Quiet'
    BY <2>1 DEF Quiet
  <2> QED
    BY <1>0, <1>3, <2>2, ListsUnsure
<1>6. CASE Refuses
  <2>1. news' = Append(news, "failed") /\ UNCHANGED <<row, silent>>
    BY <1>6 DEF Refuses
  <2>2. \A i \in 1..Len(news) : i \in 1..Len(news') /\ news'[i] = news[i]
    BY <1>1, <2>1
  <2>3. Quiet' => Quiet
    BY <2>2 DEF Quiet
  <2>4. UNCHANGED <<Live, Archived>> /\ (FailureShows(page) <=> FailureShows(page)')
    BY <1>0, <1>2, <2>1 DEF Live, Archived, FailureShows
  <2>5. HomeIsCurrent(page) => HomeIsCurrent(page)'
    BY <1>0, <2>1, <2>4 DEF HomeIsCurrent, Agrees, SameState
  <2>6. MonitorsAreCurrent(page) => MonitorsAreCurrent(page)'
    BY <1>0, <2>1, <2>4 DEF MonitorsAreCurrent, Agrees, SameState
  <2> QED
    BY <1>0, <1>3, <2>1, <2>3, <2>5, <2>6 DEF ListsShown, On
<1>7. CASE (RunStarts \/ RunEndsUnheard) /\ UNCHANGED change
  <2>1. /\ row # Absent /\ row' \in MonitorRow /\ row'.state = row.state
        /\ silent' = silent \cup {"run"} /\ UNCHANGED <<news, change, page>>
    BY <1>0, <1>7, RunsKeepTheState DEF ListsInv, RunStarts, RunEndsUnheard
  <2>2. row' # Absent
    BY <2>1, AbsentIsNoMonitor
  <2>3. SameState(Live, Live') /\ SameState(Archived, Archived')
    BY <2>1, <2>2 DEF Live, Archived, SameState
  <2>4. ASSUME NEW list, NEW there, NEW now, Agrees(list, there), SameState(there, now)
        PROVE  SameState(list, now)
    BY <2>4 DEF Agrees, SameState
  <2>5. HomeIsCurrent(page) => HomeIsCurrent(page)'
    <3> SUFFICES ASSUME HomeIsCurrent(page) PROVE HomeIsCurrent(page)'
      OBVIOUS
    <3>1. \A q \in page.requests : Up(page, q) =>
            q.live \in {Unread, Failed} \/ SameState(q.live, Live')
      BY <2>3, <2>4 DEF HomeIsCurrent
    <3>2. page.state = "ready" => Live' = Absent
      BY <2>3 DEF HomeIsCurrent, SameState
    <3> QED
      BY <2>1, <3>1, <3>2 DEF HomeIsCurrent, Agrees, SameState, Up
  <2>6. MonitorsAreCurrent(page) => MonitorsAreCurrent(page)'
    <3> SUFFICES ASSUME MonitorsAreCurrent(page) PROVE MonitorsAreCurrent(page)'
      OBVIOUS
    <3>1. \A q \in page.requests : Up(page, q) =>
            /\ q.live \in {Unread, Failed} \/ SameState(q.live, Live')
            /\ q.archived = Unread \/ SameState(q.archived, Archived')
      BY <2>3, <2>4 DEF MonitorsAreCurrent
    <3>2. \/ \E q \in page.requests : Up(page, q)
          \/ SameState(page.live, Live') /\ SameState(page.archived, Archived')
          \/ FailureShows(page)
      BY <2>3, <2>4 DEF MonitorsAreCurrent
    <3> QED
      BY <2>1, <3>1, <3>2 DEF MonitorsAreCurrent, FailureShows, Agrees, SameState, Up
  <2> QED
    BY <1>0, <1>3, <2>1, <2>5, <2>6 DEF ListsShown, On, Quiet
<1> QED
  BY <1>3, <1>4, <1>5, <1>6, <1>7 DEF Commits, RunEnds

LEMMA NavigateLists ==
  ASSUME ListsInv, NEW r \in Route, Navigate(r), PageKinds, UNCHANGED <<row, news>>
  PROVE  OwnerShows' /\ ListsShown'
<1>0. OwnerShows /\ ListsShown /\ (Quiet' => Quiet)
  BY DEF ListsInv, Quiet
<1>1. CASE UNCHANGED <<page, change, silent>>
  BY <1>0, <1>1, ListsStay DEF OwnerShows
<1>2. CASE Mount(r) /\ Left
  BY <1>2, MountedLists, LeftDisowns DEF Mount, OwnerShows
<1> QED
  BY <1>1, <1>2 DEF Navigate

LEMMA ListsStep ==
  ASSUME HostInv, ScreenInv, WindowInv, SavesInv, ListsInv, [Next]_vars
  PROVE  ListsInv'
<1>0. PageKinds /\ OwnerShows /\ ListsShown /\ row \in {Absent} \cup MonitorRow
  BY DEF WindowInv, ListsInv
<1> DEFINE Kept == OwnerShows /\ ListsShown
<1> SUFFICES Kept'
  BY RowStep DEF ListsInv
<1>1. ASSUME UNCHANGED <<page, row, change, silent, news>> PROVE Kept'
  BY <1>0, <1>1, ListsStay DEF Quiet, OwnerShows
<1>2. ASSUME NEW p \in Desktop, Boots(p) \/ RetryElsewhere(p) \/ Launches(p) PROVE Kept'
  BY <1>1, <1>2 DEF Boots, RetryElsewhere, Launches, pagesVars
<1>3. CASE Accidents
  <2>1. CASE NoPages
    BY <2>1, NoListShown DEF NoPages, OwnerShows
  <2> QED
    BY <1>1, <1>3, <2>1 DEF Accidents, pagesVars
<1>4. CASE Window
  <2>1. CASE Hide
    <3>1. CASE view = "app"
      BY <1>1, <2>1, <3>1 DEF Hide, pagesVars
    <3>2. CASE view # "app"
      <4>1. page' = Mounted(route) /\ UNCHANGED change
        BY <2>1, <3>2 DEF Hide, Mount
      <4>2. change # Absent => ~change.mine
        BY <1>0, <3>2 DEF PageKinds
      <4>3. ListsShown'
        <5>1. CASE route \in Route
          BY <4>1, <5>1, MountedLists
        <5>2. CASE route \notin Route
          <6>1. Mounted(route) = Settings
            BY <5>2 DEF Mounted, Route, Refreshed, Settings
          <6> QED
            BY <4>1, <6>1, NoListShown DEF Settings
        <5> QED
          BY <5>1, <5>2
      <4> QED
        BY <4>1, <4>2, <4>3 DEF OwnerShows
    <3> QED
      BY <3>1, <3>2
  <2>2. CASE Reveal
    <3>1. CASE view = "app"
      BY <1>0, <2>2, <3>1, NoListShown, LeftDisowns DEF Reveal, Unmount, OwnerShows
    <3> QED
      BY <1>1, <2>2, <3>1 DEF Reveal, pagesVars
  <2> QED
    BY <1>1, <1>4, <2>1, <2>2
    DEF Window, Mounts, AnswersBootState, Retries, Reads, TimerFires, Update, pagesVars
<1>5. CASE Answers
  <2>1. ASSUME page # Absent, page.kind # "settings", NEW q \in page.requests,
               ReadLive(q) \/ ReadArchived(q) \/ FailToRead(q),
               UNCHANGED <<row, change, news, silent>>
        PROVE  Kept'
    <3>1. ListsShown' /\ (On("monitors") => page' # Absent)
      BY <1>0, <2>1, AnswerLists
    <3> QED
      BY <1>0, <2>1, <3>1 DEF OwnerShows, PageKinds, On
  <2>2. CASE UNCHANGED <<page, row, change, news, silent>>
    BY <1>1, <2>2
  <2> QED
    BY <1>5, <2>1, <2>2, WorkerLists DEF Answers, ReadStray
<1>6. CASE Settles
  <2>0. UNCHANGED <<row, news>> /\ (Quiet' => Quiet) /\ view = "app"
    BY <1>6 DEF Settles, Quiet
  <2>1. ASSUME NEW q \in page.requests, SettleHome(q) PROVE Kept'
    <3>1. ListsShown'
      BY <1>0, <2>0, <2>1, HomeSettles
    <3>2. CASE UNCHANGED change
      BY <1>0, <2>1, <3>1, <3>2 DEF OwnerShows, PageKinds, SettleHome, On
    <3>3. CASE Navigate("monitors")
      BY <1>0, <2>0, <3>3, NavigateLists DEF Route
    <3> QED
      BY <2>1, <3>2, <3>3 DEF SettleHome
  <2>2. ASSUME NEW q \in page.requests, SettleMonitors(q) PROVE Kept'
    BY <1>0, <2>0, <2>2, MonitorsSettle DEF OwnerShows
  <2>3. ASSUME NEW list \in strays, SettleStray(list) PROVE Kept'
    <3>1. CASE UNCHANGED <<page, change, silent>>
      BY <1>0, <2>0, <3>1, ListsStay DEF OwnerShows
    <3>2. CASE Mount("monitors") /\ change' = IF change = Absent THEN Absent
                                              ELSE [change EXCEPT !.mine = FALSE]
      <4>1. ListsShown'
        BY <3>2, MountedLists DEF Mount, Route
      <4>2. change' # Absent => ~change'.mine
        BY <1>0, <3>2 DEF PageKinds, ChangeRecord
      <4> QED
        BY <4>1, <4>2 DEF OwnerShows
    <3> QED
      BY <2>3, <3>1, <3>2 DEF SettleStray
  <2> QED
    BY <1>6, <2>1, <2>2, <2>3 DEF Settles
<1>7. CASE Hears
  <2>1. Hear
    BY <1>7 DEF Hears
  <2>2. ListsShown'
    BY <1>0, <2>1, HearLists
  <2>3. CASE change' = Absent
    BY <2>2, <2>3 DEF OwnerShows
  <2>4. CASE UNCHANGED change /\ page' = IF page = Absent THEN Absent ELSE Refreshed(page)
    <3>1. SUFFICES ASSUME change # Absent, change.mine PROVE page' # Absent
      BY <2>2, <2>4 DEF OwnerShows
    <3>2. page # Absent /\ page.kind = "monitors" /\ MonitorsStand(page)
      BY <1>0, <3>1 DEF PageKinds, OwnerShows, ListsShown, On
    <3> QED
      BY <2>4, <3>2, MonitorsAsk
  <2> QED
    BY <2>1, <2>3, <2>4 DEF Hear
<1>8. ASSUME NEW r \in Route, Go(r) PROVE Kept'
  BY <1>0, <1>8, NavigateLists DEF Go
<1>9. CASE Changes
  BY <1>0, <1>9, ChangeLists DEF Changes, OwnerShows
<1>10. CASE Enters \/ Saves
  <2>1. UNCHANGED <<row, change, news, silent>>
    BY <1>10 DEF Enters, Saves
  <2>2. \/ page' = page
        \/ page' \in SettingsRecord /\ page # Absent /\ page.kind = "settings"
    <3>1. CASE Enters
      BY <3>1 DEF Enters, Type, VerifyAndSave, ConfirmUnprotectedSave, CancelUnprotectedSave,
                  WithdrawConsent, SavesInv, SettingsRecord, On
    <3>2. ASSUME NEW s \in saves,
                 \/ Verifies(s) \/ Checks(s) \/ Writes(s) \/ Configures(s)
                 \/ VerifyFails(s) \/ CannotOpen(s) \/ WriteFails(s)
          PROVE  \/ page' = page
                 \/ page' \in SettingsRecord /\ page # Absent /\ page.kind = "settings"
      <4>1. PICK p : /\ page' = page \/ (s.mine /\ page' = p)
                     /\ s.mine => p \in SettingsRecord
        BY <3>2, SavingShows
      <4> QED
        BY <3>2, <4>1 DEF SavesInv, On
    <3> QED
      BY <1>10, <3>1, <3>2 DEF Saves
  <2>3. CASE page' = page
    BY <1>1, <2>1, <2>3
  <2>4. CASE page' \in SettingsRecord /\ page.kind = "settings"
    BY <1>0, <2>1, <2>4, NoListShown DEF PageKinds, OwnerShows, SettingsRecord
  <2> QED
    BY <2>2, <2>3, <2>4
<1>11. CASE Repairs \/ SavesElsewhere \/ UNCHANGED vars
  BY <1>1, <1>11 DEF Repairs, SavesElsewhere, vars, pagesVars
<1> QED
  BY <1>2, <1>3, <1>4, <1>5, <1>6, <1>7, <1>8, <1>9, <1>10, <1>11 DEF Next

\* PagesShowTheDatabase: whatever the order of answers, changes, runs, failures and pages left,
\* a page for which nothing is on its way shows the state that the database has, or an error,
\* and its last run; but for what has changed unannounced since the page asked.
THEOREM PagesAreTrue == Spec => []PagesShowTheDatabase
<1>1. Init => HostInv /\ ScreenInv /\ WindowInv /\ SavesInv /\ ListsInv
  BY InitHost, InitScreen, InitWindow, InitSaves, InitLists
<1>2. HostInv /\ ScreenInv /\ WindowInv /\ SavesInv /\ ListsInv /\ [Next]_vars
        => (HostInv /\ ScreenInv /\ WindowInv /\ SavesInv /\ ListsInv)'
  BY HostStep, ScreenStep, KindsStep, NewsStep, SavesStep, ListsStep DEF WindowInv
<1>3. ListsInv => PagesShowTheDatabase
  BY DEF ListsInv, ListsShown, PagesShowTheDatabase, Quiet, HomeIsCurrent,
         MonitorsAreCurrent, FailureShows, Agrees
<1> QED
  BY <1>1, <1>2, <1>3, PTL DEF Spec
=============================================================================
