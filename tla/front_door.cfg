SPECIFICATION FairSpec
CONSTANTS
  q1 = q1 q2 = q2 k1 = k1 k2 = k2 forged = forged None = None
  Deliveries = {q1, q2}
  Keys = {k1, k2, forged}
  Forged = forged
  KeysBefore = {k1}
  SignedAt = {0, 2}
  Tolerance = 2
  CacheTtl = 1
  MaxRotations = 1
  MaxCalls = 1
  MaxFaults = 1
  Token = 2
  Burst = 1
  Rate = 1
  FullAfter = 2
  Slack = 1
  MaxSkew = 1
  Starts = {0}
  MaxTime = 3
INVARIANTS Bounded OneFetch
PROPERTIES RotationTakesEffect Answered
CHECK_DEADLOCK FALSE
