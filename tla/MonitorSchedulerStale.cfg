\* One request while start() works through its list.
SPECIFICATION Spec
CONSTANTS
  m1 = m1
  r1 = r1
  r2 = r2
  Monitor = {m1}
  Requester = {r1}
  MaxPollers = 3
  MaxTrouble = 0
  Starter = Starter
  Stopper = Stopper
  None = None
INVARIANTS
  ActiveMonitorsAreScheduled
