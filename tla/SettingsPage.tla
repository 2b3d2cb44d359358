----------------------------- MODULE SettingsPage -----------------------------
(***************************************************************************)
(* The settings page and the file that keeps the Telegram token: a token   *)
(* is verified with Telegram, written to the file, encrypted or, where the *)
(* system has no encryption, after the user has agreed, and handed to the  *)
(* supervisor.  A page that is left does not take its calls with it.       *)
(*                                                                         *)
(* The file is written in place: it is broken from the opening of the file *)
(* to the end of the writing.                                              *)
(***************************************************************************)
EXTENDS MonitorPages

CONSTANTS
  Token,     \* what a user may enter
  Backend,   \* "encrypts", "plain" (basic_text) or "missing"
  MaxSaves,  \* bound: calls of a token under way
  Broken     \* a file that cannot be read

ASSUME AKeptTokenCanBeRead ==
  /\ Absent \notin Token
  /\ \A t \in Token, how \in {"protected", "unprotected"} :
       [token |-> t, protection |-> how] \notin {Absent, Broken}

ASSUME AbsentIsNoPage ==
  Absent \notin [kind : {"settings"}, input : Token \cup {Absent}, verified : Token \cup {Absent},
                 consent : BOOLEAN, busy : {"no", "verify", "save"}]

VARIABLES
  secret,      \* the file: Absent, Broken, or a token and its protection
  configured,  \* telegramToken of the supervisor; Absent is null
  saves,       \* tokens on their way from the page to the file
  clash        \* history: a writing failed, met another or was another process's, since
               \* this one read the file

secretVars == <<secret, configured, saves, clash>>

\* configureTelegramFromSecret
Readable == IF secret \in {Absent, Broken} THEN Absent ELSE secret.token

Save(token, step, allow, mine) ==
  [token |-> token, step |-> step, allow |-> allow, mine |-> mine]
Step(s, step) == saves' = (saves \ {s}) \cup {[s EXCEPT !.step = step]}
Over(s) == saves' = saves \ {s}

\* What the page does with a result, if it is still the page that asked.
Show(s, p) == page' = IF s.mine THEN p ELSE page
KeepFile == UNCHANGED <<secret, configured, clash>>

-----------------------------------------------------------------------------
\* The user.

KeepConsent(p) == p.consent  \* mutant: the warning stays while the field changes
WithdrawConsent(p) == FALSE

Type(t) ==
  /\ On("settings") /\ page.busy = "no" /\ page.input # t
  /\ page' = [page EXCEPT !.input = t, !.consent = WithdrawConsent(page)]
  /\ UNCHANGED saves /\ KeepFile

VerifyAndSave ==
  /\ On("settings") /\ page.busy = "no" /\ page.input # Absent
  /\ Cardinality(saves) < MaxSaves
  /\ page' = [page EXCEPT !.consent = FALSE, !.verified = Absent, !.busy = "verify"]
  /\ saves' = saves \cup {Save(page.input, "verify", FALSE, TRUE)}
  /\ KeepFile

ConfirmUnprotectedSave ==
  /\ On("settings") /\ page.busy = "no" /\ page.consent /\ page.verified # Absent
  /\ Cardinality(saves) < MaxSaves
  /\ page' = [page EXCEPT !.busy = "save"]
  /\ saves' = saves \cup {Save(page.verified, "check", TRUE, TRUE)}
  /\ KeepFile

CancelUnprotectedSave ==
  /\ On("settings") /\ page.busy = "no" /\ page.consent
  /\ page' = [page EXCEPT !.consent = FALSE, !.verified = Absent]
  /\ UNCHANGED saves /\ KeepFile

-----------------------------------------------------------------------------
\* verifyToken and saveToken, a step for each await.

Verifies(s) ==
  /\ s.step = "verify" /\ Step(s, "check")
  /\ Show(s, [page EXCEPT !.verified = s.token, !.busy = "save"])
  /\ KeepFile

\* Also when the page asks without a worker.
VerifyFails(s) ==
  /\ s.step = "verify" /\ Over(s)
  /\ Show(s, [page EXCEPT !.verified = Absent, !.busy = "no"])
  /\ KeepFile

\* Whatever keeps the token from the file, the warning stays where it is.
Unavailable(s) == Over(s) /\ Show(s, [page EXCEPT !.verified = Absent, !.busy = "no"])

\* createTelegramSecretStore.write, up to the opening of the file.
Checks(s) ==
  /\ s.step = "check"
  /\ CASE Backend = "missing" -> Unavailable(s) /\ UNCHANGED <<secret, clash>>
       [] Backend = "plain" /\ ~s.allow ->
            /\ Over(s) /\ Show(s, [page EXCEPT !.consent = TRUE, !.busy = "no"])
            /\ UNCHANGED <<secret, clash>>
       [] OTHER ->
            /\ Step(s, "write") /\ secret' = Broken
            /\ clash' = (clash \/ \E o \in saves : o.step \in {"write", "written"})
            /\ UNCHANGED page
  /\ UNCHANGED configured

Protection == IF Backend = "plain" THEN "unprotected" ELSE "protected"

Writes(s) ==
  /\ s.step = "write" /\ Step(s, "written")
  /\ secret' = [token |-> s.token, protection |-> Protection]
  /\ UNCHANGED <<configured, clash, page>>

WriteFails(s) ==
  /\ s.step = "write" /\ Unavailable(s)
  /\ clash' = TRUE
  /\ UNCHANGED <<secret, configured>>

\* The encryption, or the opening of the file.
CannotOpen(s) ==
  /\ s.step = "check" /\ (Backend = "encrypts" \/ (Backend = "plain" /\ s.allow))
  /\ Unavailable(s) /\ KeepFile

ConfigureLater(s) == UNCHANGED configured  \* mutant: at the next start only
ConfigureNow(s) == configured' = s.token

\* saveTelegramToken, and the page's notice of success.
Configures(s) ==
  /\ s.step = "written" /\ Over(s)
  /\ ConfigureNow(s)
  /\ Show(s, [page EXCEPT !.consent = FALSE, !.input = Absent, !.verified = Absent,
                          !.busy = "no"])
  /\ UNCHANGED <<secret, clash>>

Disowned == {[s EXCEPT !.mine = FALSE] : s \in saves}

-----------------------------------------------------------------------------
\* While the page asks for consent to keep a token unencrypted, the token it would save
\* is the one in the field, if any is left after a failure, and the system really has no
\* encryption.
ConsentIsForTheTokenShown ==
  On("settings") /\ page.consent =>
    page.verified \in {page.input, Absent} /\ Backend = "plain"
=============================================================================
