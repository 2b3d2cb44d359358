\* What the task calls a scenario that does not exist.
SPECIFICATION Spec
CHECK_DEADLOCK FALSE
CONSTANTS
  t1 = t1
  t2 = t2
  c1 = c1
  c2 = c2
  m1 = m1
  m2 = m2
  Token = {t1}
  Refused = {}
  Chat = {c1}
  Match = {m1}
  RetryLimit = 1
  MaxAsked = 1
  MaxTrouble = 1
  None = None
INVARIANTS
  NoMatchIsLost
