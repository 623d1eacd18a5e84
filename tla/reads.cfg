SPECIFICATION FairSpec
CONSTANTS
  None = None
  Disputes = {1, 2, 3, 4}
  DeadlineOf <- Deadlines
  HistoryBefore <- DraftedOrNot
  ClaimedBefore = {2}
  Booked = {1, 4}
  Due = 1
  DefaultLimit = 1
  MaxLimit = 2
  MaxOffset = 1
  Limits = {None, 0, 1, 3}
  MaxWrites = 1
  MaxFaults = 1
  Asks <- SomeAsks
  MaxUses = 2
  MaxParallel = 2
  DefaultRows = 1
  MaxRows = 2
  MaxSize = 1
  MaxTurns = 2
  MaxAttempts = 2
  MaxCost = 2
  Prices = {1, 2}
  MaxPrice = 2
INVARIANTS ListsWhole HangsTogether SpendHolds NoteTold
PROPERTIES TraceTrue Returns
CHECK_DEADLOCK FALSE
