--------------------------- MODULE MCDisputeSystem ---------------------------
(***************************************************************************)
(* Instances of DisputeSystem for TLC.                                     *)
(***************************************************************************)
EXTENDS DisputeInvariants, TLC

CONSTANTS d1, d2, d3, c1, Elsewhere

(* Every dispute on the one charge, unless a run says otherwise.           *)
OneCharge == [d \in Disputes |-> c1]
(* d3 names a charge the platform has never seen.                          *)
ThirdElsewhere == [d \in Disputes |-> IF d = d3 THEN Elsewhere ELSE c1]
AllAlerts == [d \in Disputes |-> "alert"]
AllChargebacks == [d \in Disputes |-> "chargeback"]
AlertAndChargeback == d1 :> "alert" @@ d2 :> "chargeback"
AllBooked == [d \in Disputes |-> Account]
(* A currency neither the merchant nor the platform keeps accounts in.     *)
NoneBooked == [d \in Disputes |-> {}]

(* Amounts against a capture of 3: one refund leaves 1, which the other    *)
(* alert exceeds; two of them would make 4.                                *)
AmountTwo == [d \in Disputes |-> 2]
CapturedThree == [c \in Charges |-> 3]
CapturedOne == [c \in Charges |-> 1]
CeilingFive == [d \in Disputes |-> 5]

OneOfEach == [dispute : Disputes, body : Body, copy : {1}]
OpenedOnce == [dispute : Disputes, body : {"opened"}, copy : {1}]
OpenedTwice == [dispute : Disputes, body : {"opened"}, copy : {1, 2}]
=============================================================================
