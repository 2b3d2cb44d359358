\* One restart before the failure is fatal, two accidents, one unexpected failure.
SPECIFICATION Spec
CONSTANTS
  r1 = r1
  tA = tA
  tB = tB
  Request = {r1}
  Token = {tA, tB}
  MaxProcesses = 2
  MaxRestarts = 1
  MaxTrouble = 2
  MaxUnexpected = 1
  MaxUnread = 0
  None = None
INVARIANTS
  OneWorker
  ReadyMeansServed
  ConfigurationArrives
  WorkerIsGone
PROPERTIES
  CallsSettle
  QuitEnds
