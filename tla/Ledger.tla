------------------------------- MODULE Ledger -------------------------------
(***************************************************************************)
(* The double-entry book (internal/ledger/postings.go and the tables of    *)
(* db/migrations/000002_ledger.up.sql).  An entry is the net amount it     *)
(* credits to each account: negative where the code posts a debit.  No     *)
(* entry has two legs on one account, so nothing is lost by netting.       *)
(***************************************************************************)
EXTENDS Integers, FiniteSets

CONSTANT ChargebackFee      (* chargebackFeeMinor, the network's flat fee *)

ASSUME FeeAssumption == ChargebackFee \in Nat \ {0}

(* ledger_accounts.kind, for the accounts a dispute ever touches.  The     *)
(* first two exist once per merchant, in the merchant's currency; the last *)
(* two belong to the platform and exist once per currency.                 *)
Account == {"merchant_balance", "disputes_payable",
            "settlement_clearing", "fee_revenue"}

PlatformAccount == {"settlement_clearing", "fee_revenue"}

(* The suffix of ledger_transactions.external_ref: 'dispute:N:<suffix>'.   *)
Ref == {"hold", "release", "chargeback", "refund"}

Nothing == [a \in Account |-> 0]

Transfer(from, to, amount) ==
  [a \in Account |-> IF a = from THEN -amount ELSE IF a = to THEN amount ELSE 0]

Plus(x, y) == [a \in Account |-> x[a] + y[a]]

Hold(amount) == Transfer("merchant_balance", "disputes_payable", amount)

ReleaseHold(amount) == Transfer("disputes_payable", "merchant_balance", amount)

Refund(amount) == Transfer("merchant_balance", "settlement_clearing", amount)

(* A seeded bug: the loss is settled and the network's fee is forgotten.   *)
SettleLossNoFee(amount) ==
  Transfer("disputes_payable", "settlement_clearing", amount)

SettleLoss(amount) ==
  Plus(Transfer("disputes_payable", "settlement_clearing", amount),
       Transfer("merchant_balance", "fee_revenue", ChargebackFee))

Legs(ref, amount) ==
  IF ref = "hold" THEN Hold(amount)
  ELSE IF ref = "release" THEN ReleaseHold(amount)
  ELSE IF ref = "chargeback" THEN SettleLoss(amount)
  ELSE Refund(amount)

(* Each leg is an INSERT ... SELECT over the accounts of the entry's own   *)
(* currency: a leg whose account does not exist inserts no row and raises  *)
(* no error.                                                               *)
Written(legs, present) == [a \in Account |-> IF a \in present THEN legs[a] ELSE 0]

Postings(legs) == {a \in Account : legs[a] # 0}

Balance(book) == book["merchant_balance"] + book["disputes_payable"]
                   + book["settlement_clearing"] + book["fee_revenue"]

(* assert_ledger_balanced, the deferred trigger: it fires per inserted     *)
(* row, so an entry that wrote no row at all is never looked at.           *)
AcceptedAtCommit(legs) ==
  Postings(legs) # {} => /\ Cardinality(Postings(legs)) >= 2
                         /\ Balance(legs) = 0
=============================================================================
