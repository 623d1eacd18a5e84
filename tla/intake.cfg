SPECIFICATION FairSpec
CONSTANTS
  e1 = e1 e2 = e2 e3 = e3 d1 = d1 d2 = d2 NoEvent = NoEvent
  Events = {e1, e2}
  DisputeOf <- TwoOfOne
  Slots = {1, 2}
  Breaks = {"hangup", "redis", "crash"}
  MaxBreaks = 1
  MaxFailures = 1
INVARIANTS AcceptedOnce ClaimBacked
PROPERTY NoneForgotten
CHECK_DEADLOCK FALSE
