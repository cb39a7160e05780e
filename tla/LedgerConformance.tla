------------------------- MODULE LedgerConformance -------------------------
(***************************************************************************)
(* The services against the reference ledger: in every state a student's   *)
(* finances can reach, what the services compute is what the pure          *)
(* functions say, up to the tolerance.                                     *)
(***************************************************************************)
EXTENDS StudentLedger, InvoiceLedger

Near(x, y, n) == x - y <= n * Tol /\ y - x <= n * Tol

\* The rebuild pays every invoice, and credits every receipt, as the reference FIFO
\* does.  The two treat a remainder within the tolerance differently: the service spends
\* it, and may then owe as little on the invoice; the reference drops it.  So they drift
\* by up to twice the tolerance for each receipt.
RebuildMatchesReference ==
    LET d   == Rebuild(db)
        ref == SimulatedRebuild(db)
        n   == 2 * Cardinality(LiveReceipts(db))
    IN /\ \A i \in LiveInvoices(db) :
            Near(SumFunction([r \in LiveReceipts(db) |-> d.alloc[r][i]]),
                 ref.receiptPaid[i], n)
       /\ \A r \in LiveReceipts(db) : Near(d.rcred[r], ref.receiptCredit[r], n)

\* Reconciliation gives credit to one invoice per run; run often enough it leaves
\* each invoice the balance the reference leaves it in a single run over all of them,
\* and getStudentBalance asks for the sum of those.  Each spends a credit that is the
\* one the rows imply up to the tolerance, and neither spends the last of it: they
\* differ by three times the tolerance on an invoice and by four on the sum, however
\* many invoices there are.
ReconcileMatchesReference ==
    LET start == VerifyCredit(db)
        ref   == SimulatedCreditRun(start, start.credit)
        runs  == ReconcileRuns(db, Cardinality(Invoices) + 1)
    IN Reconcile(db).ok =>
         /\ \A i \in LiveInvoices(db) : Near(runs.balance[i], ref[i], 3)
         /\ Near(AmountDue(runs), SumFunctionOnSet(ref, LiveInvoices(db)), 4)

\* The rebuild does what the reference ledger does; so does reconciliation once it has
\* been run often enough, and by then it has settled.
ServicesMatchReference ==
    RebuildMatchesReference /\ ReconcileMatchesReference /\ ReconcileConverges
=============================================================================
