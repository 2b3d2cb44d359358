\* The worker crashes, restarts and is shut down; overlapping lifecycle calls; retries.
SPECIFICATION Spec
CHECK_DEADLOCK FALSE
CONSTANTS
  t1 = t1
  t2 = t2
  c1 = c1
  c2 = c2
  m1 = m1
  m2 = m2
  Token = {t1, t2}
  Refused = {t2}
  Chat = {c1}
  Match = {m1}
  RetryLimit = 1
  MaxAsked = 1
  MaxTrouble = 2
  None = None
INVARIANTS
  OneConnection
  ShownIsTrue
  NotifiedMeansSent
  RepeatsAreExplained
  DoneMeansHandled
PROPERTIES
  JobsSettle
  ConnectionReturns
