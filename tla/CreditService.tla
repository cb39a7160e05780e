--------------------------- MODULE CreditService ---------------------------
(***************************************************************************)
(* credit.service.ts: the stored credit balance of a student, the balance  *)
(* its rows imply, and the three ways a service changes it.                *)
(***************************************************************************)
EXTENDS LedgerDb

CONSTANT CreditLimit    \* 100,000: the most credit one student may hold

ASSUME LimitAssumption == CreditLimit \in Nat

-----------------------------------------------------------------------------
(* verifyStudentCreditBalance                                              *)

\* A credit row that names a receipt which also pays the invoice directly is
\* not counted again.
CountedPaid(d, i) ==
    LET counted == {c \in RowsOf(d, i) :
                       c.src = NoReceipt \/ d.alloc[c.src][i] = 0}
    IN ReceiptPaid(d, i) + AmountOf(counted)

OverpaidBy(d, i) ==
    IF CountedPaid(d, i) > d.total[i] + Tol THEN CountedPaid(d, i) - d.total[i] ELSE 0

\* Mutant: credit already applied is forgotten.
ExpectedMutant(d) ==
    SumFunctionOnSet(d.rcred, Receipts)
      + SumFunction([i \in LiveInvoices(d) |-> OverpaidBy(d, i)])

\* The balance the rows imply, clamped at zero.
Expected(d) ==
    Monus(SumFunctionOnSet(d.rcred, Receipts)
            + SumFunction([i \in LiveInvoices(d) |-> OverpaidBy(d, i)]),
          AmountOf(d.calloc))

\* What verification leaves where the row holds x: x itself unless it is off by
\* more than the tolerance.
Verified(d, x) ==
    IF Expected(d) - x > Tol \/ x - Expected(d) > Tol THEN Expected(d) ELSE x

VerifyCredit(d) ==
    IF d.hasCredit THEN [d EXCEPT !.credit = Verified(d, @)] ELSE d

-----------------------------------------------------------------------------
(* createOrUpdateStudentCredit and deductStudentCredit: both verify before *)
(* the caller has written the row that explains the change.                *)

WithinLimit(d, x) == d.credit + x <= CreditLimit

AddCredit(d, x) ==
    VerifyCredit([d EXCEPT !.hasCredit = TRUE, !.credit = @ + x])

DeductCredit(d, x) ==
    VerifyCredit([d EXCEPT !.credit = @ - x])

\* determineReceiptSourceForCredit: the oldest receipt whose credit, with that of
\* the older ones, covers x; failing that the oldest of all.
CreditSource(d, x) ==
    LET rows   == {r \in Receipts : d.rcred[r] > 0}
        upTo(r) == SumFunctionOnSet(d.rcred, {q \in rows : q <= r})
        covers == {r \in rows : upTo(r) >= x}
    IN CASE covers # {}                -> Min(covers)
         [] covers = {} /\ rows # {}   -> Min(rows)
         [] rows = {}                  -> NoReceipt

-----------------------------------------------------------------------------
(* applyStudentCreditToInvoice, for an invoice that owes `owed'.           *)

CreditToApply(d, owed) ==
    LET x == Least(owed, d.credit)
    IN IF d.hasCredit /\ d.credit > Tol /\ x > Tol THEN x ELSE 0

\* With the save of the allocation, which every caller makes next.
ApplyCredit(d, i, owed) ==
    LET x == CreditToApply(d, owed)
    IN IF x = 0 THEN d
       ELSE [DeductCredit(d, x) EXCEPT
               !.calloc = @ \union {CreditRow(d, i, x, CreditSource(d, x))}]
=============================================================================
