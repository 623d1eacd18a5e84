SPECIFICATION FairSpec
CONSTANTS
  r1 = r1 r2 = r2 w1 = w1 o1 = o1 None = None Nothing = Nothing
  Rows = {1, 2}
  Copies = {1, 2, 3, 4, 5, 6}
  MaxReceives = 2
  MaxFaults = 1
  Relays = {r1, r2}
  BatchSize = 2
  Refused = {}
  Workers = {w1}
  MaxMessages = 1
  Unhandled = {2}
  Operators = {o1}
  ReplayLimit = 1
  MaxRedrives = 1
  ReceiveMax = 1
INVARIANTS NeverLost OnceUntilAFault
PROPERTIES StaysDead KeepsPromise
CHECK_DEADLOCK FALSE
