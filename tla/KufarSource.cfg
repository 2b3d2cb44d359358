\* Two attempts per request, one retry per job, budgets of one description.
SPECIFICATION Spec
CONSTANTS
  r1 = r1
  r2 = r2
  l1 = l1
  l2 = l2
  Run = {r1, r2}
  Listing = {l1, l2}
  MaxAttempts = 2
  RetryLimit = 1
  DescriptionLimit = 1
  MinInterval = 1
  MaxJitter = 1
  DefaultCooldown = 1
  MaxCooldown = 2
  MaxRetryAfter = 3
  MaxTrouble = 3
  None = None
INVARIANTS
  DetailIsFetchedOnce
PROPERTIES
  Paced
  RunsComplete
