\* Two processes on one host; a user who changes a monitor and saves a token.
SPECIFICATION Spec
CONSTANTS
  d1 = d1
  d2 = d2
  tA = tA
  tB = tB
  Desktop = {d1, d2}
  Windowed = d1
  Token = {tA, tB}
  Backend = "plain"
  MaxPasswords = 3
  MaxIncidents = 3
  MaxRuns = 1
  MaxRequests = 2
  MaxSaves = 2
  MaxMail = 1
  None = None
  Torn = Torn
  Unread = Unread
  Failed = Failed
  Absent = Absent
  Broken = Broken
INVARIANTS
  OneSetOfCredentials
  ScreenFollowsPhase
  PagesShowTheDatabase
  ConsentIsForTheTokenShown
  SecretIsConfigured
PROPERTIES
  ServedInTheEnd
CHECK_DEADLOCK FALSE
