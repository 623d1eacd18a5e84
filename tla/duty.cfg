SPECIFICATION FairSpec
CONSTANTS
  d1 = d1 d2 = d2 p1 = p1 p2 = p2 Absent = Absent Free = Free Orphan = Orphan
  Disputes = {d1, d2}
  Pools = {p1}
  Deadline <- OneSoon
  Lookahead = 1
  RetryBackoff = 1
  BatchSize = 1
  Refundable = {d1}
  Concurrency = 1
  MaxBatches = 1
  MaxVersion <- Drafted
  MaxDeliveries = 0
  MaxFaults = 1
  MaxStops = 1
  MaxTrouble = 1
  Crashes = TRUE
PROPERTIES DoesItsDuty
CHECK_DEADLOCK FALSE
