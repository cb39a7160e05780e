--------------------------- MODULE InvoiceLedger ---------------------------
(***************************************************************************)
(* ledger/invoice-ledger.ts: the pure, in-memory ledger its authors wrote  *)
(* as the reference for the services (only its unit tests run it).  The    *)
(* functions take a database for their input: its invoices, receipts and   *)
(* rows, never its cached fields.                                          *)
(***************************************************************************)
EXTENDS LedgerDb

\* computeInvoiceLedger.balance: within the tolerance of nothing is nothing.
LedgerBalance(total, paid) == IF total - paid > Tol THEN total - paid ELSE 0

\* simulateFromScratchFifoRebuild.  Unlike the service it gives up on a receipt as
\* soon as no more than the tolerance is left of it, and skips a share that small.
SimulatedShare(d, i, p) ==
    LET owed == d.total[i] - p.receiptPaid[i]
        x    == Least(p.remaining, owed)
    IN IF p.remaining <= Tol \/ owed <= Tol \/ x <= Tol THEN p
       ELSE [p EXCEPT !.remaining = @ - x, !.receiptPaid[i] = @ + x]

SimulatedReceipt(d, r, p) ==
    LET q == FoldInOrder(LAMBDA i, s : SimulatedShare(d, i, s),
                         [p EXCEPT !.remaining = d.amount[r]], LiveInvoices(d), d.date)
    IN [q EXCEPT !.receiptCredit[r] = IF q.remaining > Tol THEN q.remaining ELSE 0]

SimulatedRebuild(d) ==
    FoldInOrder(LAMBDA r, p : SimulatedReceipt(d, r, p),
                [remaining     |-> 0,
                 receiptPaid   |-> [i \in Invoices |-> 0],
                 receiptCredit |-> [r \in Receipts |-> 0]],
                LiveReceipts(d), [r \in Receipts |-> r])

\* simulateReconciliationRun, its second half: credit over the balances, oldest
\* invoice first.  The result is the balance each invoice is left with.
SimulatedPayment(d, i, p) ==
    LET owed == LedgerBalance(d.total[i], TotalPaid(d, i))
        x    == Least(owed, p.credit)
    IN IF p.credit <= Tol \/ owed <= Tol \/ x <= Tol
       THEN [p EXCEPT !.balance[i] = owed]
       ELSE [p EXCEPT !.balance[i] = owed - x, !.credit = @ - x]

SimulatedCreditRun(d, credit) ==
    FoldInOrder(LAMBDA i, p : SimulatedPayment(d, i, p),
                [credit |-> credit, balance |-> [i \in Invoices |-> 0]],
                LiveInvoices(d), d.date).balance
=============================================================================
