\* A process that starts, serves, stops and crashes; failed calls; two requests at once.
SPECIFICATION Spec
CONSTANTS
  m1 = m1
  r1 = r1
  r2 = r2
  Monitor = {m1}
  Requester = {r1, r2}
  MaxPollers = 3
  MaxTrouble = 1
  Starter = Starter
  Stopper = Stopper
  None = None
INVARIANTS
  ScheduleFollowsState
PROPERTIES
  RequestsAreAnswered
  StopEnds
