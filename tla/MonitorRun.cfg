\* Two worker processes with a job handler each: leases, crashes, recovery.
SPECIFICATION Spec
CONSTANTS
  w1 = w1
  w2 = w2
  e1 = e1
  e2 = e2
  q1 = q1
  d1 = d1
  m1 = m1
  sA = sA
  sB = sB
  Worker = {w1, w2}
  Executor = {e1, e2}
  Requester = {}
  Editor = {}
  HostOf <- MCHostOf
  Monitor = {m1}
  Source = {sA}
  MaxRuns = 3
  MaxRevision = 4
  MaxTop = 2
  Nobody = Nobody
  Lingering = Lingering
  None = None
INVARIANTS
  OneOwnerPerMonitor
  LiveRunStaysRunning
PROPERTIES
  OutcomeIsFinal
  WatermarkNeverRegresses
  LeaseComesFree
  KeepsRunJournal
