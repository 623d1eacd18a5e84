SPECIFICATION Spec
CONSTANTS
  d1 = d1 d2 = d2 p1 = p1 p2 = p2 Absent = Absent Free = Free Orphan = Orphan
  Disputes = {d1}
  Pools = {p1, p2}
  Deadline <- DueInTwo
  Lookahead = 1
  RetryBackoff = 1
  BatchSize = 1
  Refundable = {}
  Concurrency = 1
  MaxBatches = 1
  MaxVersion <- Once
  MaxDeliveries = 1
  MaxFaults = 0
  MaxStops = 1
  MaxTrouble = 1
  Crashes = FALSE
INVARIANTS LockHeld Tracked
PROPERTIES OnlyDeadlinesInWindow
CHECK_DEADLOCK FALSE
