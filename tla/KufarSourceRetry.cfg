\* What the 429 of the HTML page does to the job.
SPECIFICATION Spec
CONSTANTS
  r1 = r1
  r2 = r2
  l1 = l1
  l2 = l2
  Run = {r1}
  Listing = {l1}
  MaxAttempts = 2
  RetryLimit = 1
  DescriptionLimit = 1
  MinInterval = 1
  MaxJitter = 1
  DefaultCooldown = 1
  MaxCooldown = 2
  MaxRetryAfter = 3
  MaxTrouble = 3
  None = None
PROPERTIES
  RefusalEndsTheJob
