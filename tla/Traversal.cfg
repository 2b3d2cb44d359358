\* Gaps, cuts, ties, overlapping pages, failures, forgotten cursors, listings taken down.
SPECIFICATION Spec
CONSTANTS
  MaxListing = 5
  TimeOf <- MCTimeOf
  PageSize = 2
  MaxPages = 2
  DescriptionLimit = 2
  MaxSlip = 2
  MaxTrouble = 2
  CursorsExpire = TRUE
  None = None
INVARIANTS
  TypeOK
  NothingMissed
  BaselineStaysSilent
PROPERTIES
  WatermarkGrows
  KeepsFeedWatch
  CatchesUp
