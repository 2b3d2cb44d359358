\* A state request overlaps the recovery of a restarted worker.
SPECIFICATION Spec
CONSTANTS
  w1 = w1
  w2 = w2
  e1 = e1
  e2 = e2
  q1 = q1
  d1 = d1
  m1 = m1
  sA = sA
  sB = sB
  Worker = {w1}
  Executor = {e1}
  Requester = {q1}
  Editor = {d1}
  HostOf <- MCOneHost
  Monitor = {m1}
  Source = {sA, sB}
  MaxRuns = 2
  MaxRevision = 4
  MaxTop = 2
  Nobody = Nobody
  Lingering = Lingering
  None = None
ACTION_CONSTRAINT SessionsEndBeforeRestart
PROPERTY StartupRecoversOrphans
