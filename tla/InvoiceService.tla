--------------------------- MODULE InvoiceService ---------------------------
(***************************************************************************)
(* invoice.service.ts: saving and voiding an invoice, the reconciliation   *)
(* that follows, the rebuild from scratch, and the exemption refresh.      *)
(*                                                                         *)
(* An operation that may throw returns [ok, db]: db is the database at the *)
(* point of the throw (a caller that swallows the error keeps it).         *)
(***************************************************************************)
EXTENDS CreditService, Billing

CONSTANT TermLimit    \* 500,000: the most that may be billed for a term

ASSUME TermLimitAssumption == TermLimit \in Nat

-----------------------------------------------------------------------------
(* reconcileStudentFinances                                                *)

\* Step 1.5: enrolments are unlinked from voided invoices.
UnlinkVoided(d) ==
    [d EXCEPT !.term = [i \in Invoices |->
                          IF i \in d.voidedInvoices THEN NoTerm ELSE @[i]]]

\* Step 2: correctInvoiceOverpayment.  The overpayment beyond what was credited for it
\* before becomes credit.
Overpayment(d, i) == TotalPaid(d, i) - d.total[i]

CorrectOverpayment(d, i, p) ==
    LET extra == Overpayment(d, i) - d.credited[i]
    IN CASE ~p.ok                   -> p
         [] p.ok /\ extra <= Tol    -> [p EXCEPT !.capped = @ \union {i}]
         [] p.ok /\ extra > Tol /\ p.credit + extra > CreditLimit
                                    -> [p EXCEPT !.ok = FALSE]
         [] OTHER -> [p EXCEPT !.capped = @ \union {i},
                               !.grown  = @ \union {i},
                               !.credit = Verified(d, @ + extra)]

\* On each invoice of S, oldest first.  It changes no allocation, so the credit each
\* verification expects is the same throughout.
CorrectionPlan(d, S) ==
    FoldInOrder(LAMBDA i, p : CorrectOverpayment(d, i, p),
                [ok |-> TRUE, credit |-> d.credit, capped |-> {}, grown |-> {}],
                {i \in S : Overpayment(d, i) > Tol}, d.date)

Corrected(d, p) ==
    [ok |-> p.ok,
     db |-> [d EXCEPT
              !.paid      = [i \in Invoices |-> IF i \in p.capped THEN d.total[i] ELSE @[i]],
              !.balance   = [i \in Invoices |-> IF i \in p.capped THEN 0 ELSE @[i]],
              !.credit    = p.credit,
              !.hasCredit = @ \/ p.grown # {},
              !.credited  = [i \in Invoices |->
                  IF i \in p.grown THEN Overpayment(d, i) ELSE @[i]]]]

CorrectOverpayments(d, S) == Corrected(d, CorrectionPlan(d, S))

\* Step 5: credit goes to the one oldest invoice that owes anything.
SpendCredit(d) ==
    LET oldest == First({i \in LiveInvoices(d) : d.balance[i] > Tol}, d.date)
        i      == CHOOSE i \in oldest : TRUE
    IN IF oldest = {} THEN d ELSE ApplyCredit(d, i, d.balance[i])

\* Mutant: no final pass over the balances.
SettleMutant(corrected, live) ==
    IF ~corrected.ok THEN corrected
    ELSE [ok |-> TRUE,
          db |-> SpendCredit(VerifyCredit(Recalculate(corrected.db, live)))]

\* Steps 3 to 5 and the final pass over the balances, unless step 2 threw.
Settle(corrected, live) ==
    IF ~corrected.ok THEN corrected
    ELSE [ok |-> TRUE,
          db |-> Recalculate(SpendCredit(VerifyCredit(Recalculate(corrected.db, live))),
                             live)]

\* Step 2 corrects the invoices S that were loaded first; the later steps load again.
ReconcileOf(d, S) == Settle(CorrectOverpayments(UnlinkVoided(d), S), LiveInvoices(d))

Reconcile(d) == ReconcileOf(d, LiveInvoices(d))

-----------------------------------------------------------------------------
(* reconcileStudentFinancesFromScratch                                     *)

\* Mutant: an invoice is paid whole or not at all.
AllocateMutant(r, i, p) ==
    LET x == IF p.balance[i] > Tol /\ p.left >= p.balance[i] THEN p.balance[i] ELSE 0
    IN [p EXCEPT !.left = @ - x, !.balance[i] = @ - x, !.alloc[r][i] = x]

\* What is left of receipt r goes to invoice i, as far as i owes anything.
Allocate(r, i, p) ==
    LET x == IF p.balance[i] > Tol THEN Least(p.left, p.balance[i]) ELSE 0
    IN [p EXCEPT !.left = @ - x, !.balance[i] = @ - x, !.alloc[r][i] = x]

\* A receipt goes over the invoices in order of date.  What it does not apply, beyond
\* the tolerance, is its credit.
Spread(d, r, p) ==
    LET q == FoldInOrder(LAMBDA i, s : Allocate(r, i, s), [p EXCEPT !.left = d.amount[r]],
                         LiveInvoices(d), d.date)
    IN [q EXCEPT !.rcred[r] = IF q.left > Tol THEN q.left ELSE 0]

\* Mutant: the balances are not reset to the bills first.
UnpaidMutant(d) ==
    [left    |-> 0,
     balance |-> d.balance,
     alloc   |-> [r \in Receipts |-> [i \in Invoices |-> 0]],
     rcred   |-> [r \in Receipts |-> 0]]

\* What the rebuild starts from: nothing paid, every invoice owing its bill.
Unpaid(d) ==
    [left    |-> 0,
     balance |-> d.total,
     alloc   |-> [r \in Receipts |-> [i \in Invoices |-> 0]],
     rcred   |-> [r \in Receipts |-> 0]]

\* The receipts one by one, in order of payment.
FifoPlan(d) ==
    FoldInOrder(LAMBDA r, p : Spread(d, r, p), Unpaid(d),
                LiveReceipts(d), [r \in Receipts |-> r])

\* What the rebuild deletes: every derived row of a live receipt or a live invoice.  Rows
\* of voided receipts to voided invoices are not deleted.
DeleteDerived(d) ==
    [d EXCEPT
      !.hasCredit = TRUE,
      !.credit    = 0,
      !.credited  = [i \in Invoices |-> 0],
      !.calloc    = {c \in @ : c.inv \notin LiveInvoices(d)},
      !.alloc     = [r \in Receipts |->
                       IF r \in LiveReceipts(d) THEN [i \in Invoices |-> 0] ELSE @[r]],
      !.rcred     = [r \in Receipts |-> IF r \in LiveReceipts(d) THEN 0 ELSE @[r]]]

\* Credit left over here meets no unpaid invoice, so the code's last credit loop finds
\* none.
Rebuild(d) ==
    LET plan == FifoPlan(d)
        live == LiveReceipts(d)
        e == [DeleteDerived(d) EXCEPT
               !.credit = SumFunctionOnSet(plan.rcred, live),
               !.alloc  = [r \in Receipts |-> [i \in Invoices |->
                             IF r \in live /\ i \in LiveInvoices(d)
                             THEN plan.alloc[r][i] ELSE @[r][i]]],
               !.rcred  = [r \in Receipts |-> IF r \in live THEN plan.rcred[r] ELSE @[r]]]
    IN VerifyCredit(Recalculate(e, LiveInvoices(d)))

-----------------------------------------------------------------------------
(* saveInvoice                                                             *)

BilledFor(d, t) ==
    SumFunctionOnSet(d.total, {i \in LiveInvoices(d) : d.term[i] = t})

WithinTermLimit(d, t, net) == BilledFor(d, t) + net <= TermLimit

InvoicesFor(d, t) == {i \in LiveInvoices(d) : d.term[i] = t}

\* A reconciliation, then the credit row of the new invoice if it applied less.
WithCreditRow(after, i, pre, src) ==
    [ok |-> after.ok,
     db |-> IF CreditPaid(after.db, i) < pre
            THEN [after.db EXCEPT !.calloc = @ \union {CreditRow(after.db, i, pre, src)}]
            ELSE after.db]

\* No invoice for the term yet.  Credit is deducted before the invoice exists; the
\* row for it is written at the end, if reconciliation applied less.  Net is never 0:
\* validateInvoiceBeforeSave refuses an exemption above the net bill.
SaveNewInvoice(d, i, t, net, date, due) ==
    LET pre      == CreditToApply(d, net)
        src      == CreditSource(d, pre)
        deducted == IF pre > 0 THEN DeductCredit(d, pre) ELSE d
        inserted == [deducted EXCEPT
                       !.invoices = @ \union {i},
                       !.term[i] = t, !.date[i] = date, !.due[i] = due,
                       !.total[i] = net, !.paid[i] = 0, !.balance[i] = net,
                       !.status[i] = StatusOf(FALSE, net)]
    IN WithCreditRow(Reconcile(inserted), i, pre, src)

\* The term has an invoice: credit is applied against the balance stored before the
\* edit, then the new bill replaces the old one.
EditInvoice(d, i, net, date, due) ==
    LET credited == ApplyCredit(d, i, d.balance[i])
        edited   == [credited EXCEPT !.total[i] = net, !.date[i] = date, !.due[i] = due]
    IN Reconcile(Recalculate(edited, {i}))

-----------------------------------------------------------------------------
(* voidInvoice.  Its query does not load the students of the receipts, so  *)
(* receiptAmountsToCredit stays empty: receipt rows are removed, and only  *)
(* credit rows give their amount back.                                     *)

\* Mutant: the credit rows are left on the voided invoice.
ReverseCreditAllocationsMutant(d, i) ==
    [d EXCEPT !.credit = @ + (IF CreditPaid(d, i) > Tol THEN CreditPaid(d, i) ELSE 0)]

\* The credit the invoice was paid with is given back, unless it is no more than the
\* tolerance, and its rows are removed.
ReverseCreditAllocations(d, i) ==
    [d EXCEPT
      !.credit = @ + (IF CreditPaid(d, i) > Tol THEN CreditPaid(d, i) ELSE 0),
      !.calloc = {c \in @ : c.inv # i}]

\* The balance is computed from the rows as they were loaded.
VoidInvoice(d, i) ==
    LET updated == Recalculate([d EXCEPT !.voidedInvoices = @ \union {i}], {i})
        cleared == [ReverseCreditAllocations(updated, i) EXCEPT
                      !.term[i] = NoTerm,
                      !.alloc   = [r \in Receipts |->
                                   [j \in Invoices |-> IF j = i THEN 0 ELSE @[r][j]]]]
    IN Reconcile(cleared)

\* applyExemptionToExistingInvoices loads no allocation of any invoice.
RefreshExemption(d) ==
    [d EXCEPT
      !.paid    = [i \in Invoices |-> IF i \in d.invoices THEN 0 ELSE @[i]],
      !.balance = [i \in Invoices |-> IF i \in d.invoices THEN d.total[i] ELSE @[i]],
      !.status  = [i \in Invoices |->
                    IF i \in d.invoices
                    THEN StatusOf(i \in d.voidedInvoices, d.total[i]) ELSE @[i]]]
=============================================================================
