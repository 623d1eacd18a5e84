SPECIFICATION FairSpec
CONSTANTS
  d0 = d0 c1 = c1 far = far old = old new = new b1 = b1 b2 = b2 None = None
  Disputes = {d0, c1, far}
  Claims = {d0, far}
  Models = {old, new}
  Model = new
  Backfills = {b1, b2}
  OutcomeBefore <- FarWon
  EmbeddedBefore <- FarByTheOld
  BatchSize = 1
  MaxCuts = 1
  Names = {1}
  Uploading = {1}
  Contents <- PagesOrScan
  FilesBefore <- TwoFiles
  Seconds = {1}
  MaxPosts = 1
  Drafted = {d0}
  Extras = {"precedent"}
  FileLimit = 2
  BlockLimit = 3
  Ends = {"lost"}
  MaxFaults = 1
INVARIANTS PaidOnce RecordWhole FitsBlock
PROPERTY Answered
CHECK_DEADLOCK FALSE
