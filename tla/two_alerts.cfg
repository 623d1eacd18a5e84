SPECIFICATION Spec
CONSTANTS
  d1 = d1 d2 = d2  d3 = d3  c1 = c1  Elsewhere = Elsewhere  Nil = Nil
  ChargebackFee = 1
  Disputes = {d1, d2, d3}
  Charges = {c1}
  KindOf <- AllAlerts
  ChargeOf <- ThirdElsewhere
  AmountOf <- AmountTwo
  CapturedOf <- CapturedThree
  CeilingOf <- CeilingFive
  AccountsOf <- AllBooked
  Deliveries <- OpenedTwice
  Workers = {w1, w2}
  Agents = {}
  Reviewers = {}
  MaxAttempts = 1
  Manual = {}
  Fails = FALSE
  Crashes = FALSE
  MaxVersion = 3
INVARIANTS RefundsAddUp Announced
CHECK_DEADLOCK FALSE
