SPECIFICATION Spec
CONSTANTS
  f1 = f1 f2 = f2 ghost = ghost None = None
  Files = {f1, f2}
  Invented = ghost
  MaxAttempts = 2
  Ceiling = 8
  FixedPrice = 1
  Prices = {1, 3}
  MaxPrice = 3
  MaxRuns = 4
  MaxReturns = 1
  MaxFaults = 1
INVARIANTS CeilingHolds Checked Accounted
CHECK_DEADLOCK FALSE
