SPECIFICATION Spec
CONSTANTS
  d1 = d1 d2 = d2  d3 = d3  c1 = c1  Elsewhere = Elsewhere  Nil = Nil
  ChargebackFee = 1
  Disputes = {d1, d2}
  Charges = {c1}
  KindOf <- AlertAndChargeback
  ChargeOf <- OneCharge
  AmountOf <- AmountTwo
  CapturedOf <- CapturedThree
  CeilingOf <- CeilingFive
  AccountsOf <- AllBooked
  Deliveries <- OneOfEach
  Workers = {w1}
  Agents = {a1}
  Reviewers = {r1}
  MaxAttempts = 1
  Manual = {d2}
  Fails = TRUE
  Crashes = TRUE
  MaxVersion = 2
INVARIANTS Inv HeldMoney
PROPERTIES KeepsPromise
CHECK_DEADLOCK FALSE
