SPECIFICATION Spec
CONSTANTS
  d1 = d1 d2 = d2  d3 = d3  c1 = c1  Elsewhere = Elsewhere  Nil = Nil
  ChargebackFee = 1
  Disputes = {d1}
  Charges = {c1}
  KindOf <- AllChargebacks
  ChargeOf <- OneCharge
  AmountOf <- AmountTwo
  CapturedOf <- CapturedThree
  CeilingOf <- CeilingFive
  AccountsOf <- AllBooked
  Deliveries <- OneOfEach
  Workers = {w1}
  Agents = {a1, a2}
  Reviewers = {r1, r2}
  MaxAttempts = 2
  Manual = {}
  Fails = TRUE
  Crashes = TRUE
  MaxVersion = 4
INVARIANTS MerchantCharge ClaimGuards OneLetter AuditTrail RulingStands ClaimsReturned
PROPERTIES TerminalFinal
CHECK_DEADLOCK FALSE
