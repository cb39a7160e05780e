------------------------------ MODULE Billing ------------------------------
(***************************************************************************)
(* What a bill comes to once the student's exemption is taken off, and     *)
(* which invoices and receipts financial-validation.service.ts lets        *)
(* through before they are saved.  Of a bill only two sums matter: the     *)
(* food fee and all other fees.                                            *)
(***************************************************************************)
EXTENDS Integers

CONSTANTS
    MaxPayment,      \* 1,000,000: the most one receipt may be for
    MinPayment       \* 0.01: the least

ASSUME PaymentLimits == MaxPayment \in Nat /\ MinPayment \in Nat \ {0}

\* "None" also stands for an exemption that is not active.
NoExemption == [type |-> "None", amount |-> 0]

\* What saveExemption accepts: a percentage is one, and a staff sibling has no amount.
ExemptionRows ==
    {NoExemption, [type |-> "StaffSibling", amount |-> 0]}
        \union [type : {"Percentage"}, amount : 0..100]
        \union [type : {"Fixed"}, amount : Nat]

Gross(bill) == bill.food + bill.other

\* The amount exempted, in hundredths of the unit, so that a percentage is exact.
Exempted(bill, exemption) ==
    CASE exemption.type = "None"         -> 0
      [] exemption.type = "Fixed"        -> 100 * exemption.amount
      [] exemption.type = "Percentage"   -> Gross(bill) * exemption.amount
      [] exemption.type = "StaffSibling" -> 100 * bill.other + 50 * bill.food

\* What remains to be paid, in hundredths of the unit: nothing when all is exempted.
Net(bill, exemption) ==
    LET left == 100 * Gross(bill) - Exempted(bill, exemption)
    IN IF left > 0 THEN left ELSE 0

\* The column keeps whole units, rounded half up.
NetBill(bill, exemption) == (Net(bill, exemption) + 50) \div 100

\* validateInvoiceBeforeSave.  There is something to bill, it falls due no earlier than it
\* is dated, and the exempted amount is compared with what REMAINS to be paid.
InvoiceIsValid(bill, exemption, date, due) ==
    /\ Gross(bill) > 0
    /\ date <= due
    /\ Exempted(bill, exemption) <= Net(bill, exemption)

\* validateReceiptBeforeSave: the receipt is new, dated now and not allocated yet.
ReceiptIsValid(amount) == amount \in MinPayment..MaxPayment
=============================================================================
