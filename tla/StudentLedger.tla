--------------------------- MODULE StudentLedger ---------------------------
(***************************************************************************)
(* The finances of one student under the operations of payment.controller: *)
(* every operation is one database transaction, and this module lets them  *)
(* follow one another in any order.  An operation that throws is rolled    *)
(* back, so it is a step the system does not take.                         *)
(***************************************************************************)
EXTENDS ReceiptService

CONSTANTS
    Bills,       \* the fees an invoice is made for
    Exemptions,  \* the exemptions the student may have when it is made
    Payments     \* amounts a receipt is made for

ASSUME InputsAssumption ==
    /\ Bills \subseteq [food : Nat, other : Nat]
    /\ Exemptions \subseteq ExemptionRows
    /\ Payments \subseteq Nat \ {0}

VARIABLE db

vars == <<db>>

Init == db = EmptyDb

\* Ids come from a sequence: the next one is the least not used.
IsNext(x, used, ids) == x \in ids \ used /\ \A y \in ids \ used : x <= y

Commit(result) == result.ok /\ db' = result.db

-----------------------------------------------------------------------------
TakePayment ==
    \E r \in Receipts, x \in Payments :
        /\ IsNext(r, db.receipts, Receipts)
        /\ ReceiptIsValid(x)
        /\ Commit(CreateReceipt(db, r, x))

CancelReceipt ==
    \E r \in LiveReceipts(db) : db' = VoidReceipt(db, r)

IssueInvoice ==
    \E i \in Invoices, t \in Terms, bill \in Bills, x \in Exemptions, date, due \in Dates :
        LET net == NetBill(bill, x)
        IN /\ IsNext(i, db.invoices, Invoices)
           /\ InvoicesFor(db, t) = {}
           /\ WithinTermLimit(db, t, net)
           /\ InvoiceIsValid(bill, x, date, due)
           /\ Commit(SaveNewInvoice(db, i, t, net, date, due))

ReviseInvoice ==
    \E t \in Terms, bill \in Bills, x \in Exemptions, date, due \in Dates :
        \E i \in InvoicesFor(db, t) :
            LET net == NetBill(bill, x)
            IN /\ WithinTermLimit(db, t, net)
               /\ InvoiceIsValid(bill, x, date, due)
               /\ Commit(EditInvoice(db, i, net, date, due))

CancelInvoice ==
    \E i \in LiveInvoices(db) : Commit(VoidInvoice(db, i))

ReconcileNow == Commit(Reconcile(db))

RebuildNow == db' = Rebuild(db)

ChangeExemption == db' = RefreshExemption(db)

Next ==
    \/ TakePayment
    \/ CancelReceipt
    \/ IssueInvoice
    \/ ReviseInvoice
    \/ CancelInvoice
    \/ ReconcileNow
    \/ RebuildNow
    \/ ChangeExemption

Spec == Init /\ [][Next]_vars

-----------------------------------------------------------------------------
(* Properties                                                              *)

CreditRows == [seq : Nat, inv : Invoices, amt : Nat, src : Receipts \union {NoReceipt}]

\* The columns hold what their types and CHECK constraints allow: in particular no
\* operation takes a balance, a paid amount or the credit below zero.
TypeOK ==
    /\ db.invoices \subseteq Invoices /\ db.voidedInvoices \subseteq db.invoices
    /\ db.receipts \subseteq Receipts /\ db.voidedReceipts \subseteq db.receipts
    /\ db.term \in [Invoices -> Terms \union {NoTerm}]
    /\ db.date \in [Invoices -> Dates] /\ db.due \in [Invoices -> Dates]
    /\ db.status \in [Invoices -> Statuses]
    /\ db.total \in [Invoices -> Nat]
    /\ db.paid \in [Invoices -> Nat]
    /\ db.balance \in [Invoices -> Nat]
    /\ db.credited \in [Invoices -> Nat]
    /\ db.amount \in [Receipts -> Nat]
    /\ db.alloc \in [Receipts -> [Invoices -> Nat]]
    /\ db.rcred \in [Receipts -> Nat]
    /\ db.hasCredit \in BOOLEAN /\ db.credit \in Nat
    /\ db.calloc \subseteq CreditRows

\* No receipt is spent beyond its amount, counting what it pays to invoices and the
\* credit it was given for the rest (the check in verifyReceiptAllocations).
ReceiptNeverOverspent ==
    \A r \in Receipts : Allocated(db, r) + db.rcred[r] <= db.amount[r]

\* No payment or credit row points at a voided invoice.
VoidedInvoiceHoldsNoMoney ==
    \A i \in db.voidedInvoices :
        /\ \A r \in Receipts : db.alloc[r][i] = 0
        /\ RowsOf(db, i) = {}

\* A voided receipt leaves no credit behind under its own name.
VoidedReceiptHoldsNoCredit ==
    \A r \in db.voidedReceipts : ~(db.rcred[r] > 0)

\* What is void holds nothing: voidInvoice leaves neither payment nor credit on its
\* invoice, voidReceipt no credit of its receipt, and no later operation puts any back.
VoidedHoldsNothing == VoidedInvoiceHoldsNoMoney /\ VoidedReceiptHoldsNoCredit

\* What an invoice caches is what its rows add up to (invoice.entity.ts:69).
CachedIsLedger(d, i) ==
    /\ d.paid[i] = Least(TotalPaid(d, i), d.total[i])
    /\ d.balance[i] = Monus(d.total[i], TotalPaid(d, i))
    /\ d.status[i] = StatusOf(FALSE, d.balance[i])

\* Whatever happened before, an explicit reconciliation, a rebuild, an edit or a void
\* leaves every live invoice's cached fields equal to its rows.
ReconciledIsCoherent ==
    [][ReconcileNow \/ RebuildNow \/ ReviseInvoice \/ CancelInvoice
        => \A i \in LiveInvoices(db') : CachedIsLedger(db', i)]_vars

\* A rebuild is idempotent in every reachable state.
RebuildIdempotent == Rebuild(Rebuild(db)) = Rebuild(db)

\* All of a live receipt is somewhere, up to the tolerance, and no live invoice is
\* unpaid while a receipt still has credit.
AllMoneyPlaced(d) ==
    /\ \A r \in LiveReceipts(d) : Monus(d.amount[r], Allocated(d, r) + d.rcred[r]) <= Tol
    /\ (\E r \in LiveReceipts(d) : d.rcred[r] > 0)
         => \A i \in LiveInvoices(d) : d.balance[i] <= Tol

\* A rebuild places all the money of the live receipts, invoices first.
RebuildPlacesAllMoney == AllMoneyPlaced(Rebuild(db))

\* Reconciliation converges: after one run per invoice and one more to settle the
\* credit, another run changes nothing (unless the credit limit stops it).
ReconcileRuns(d, n) ==
    LET run[k \in 0..n] == IF k = 0 THEN d ELSE Reconcile(run[k - 1]).db IN run[n]

ReconcileConverges ==
    LET d == ReconcileRuns(db, Cardinality(Invoices) + 1)
    IN Reconcile(d).ok => Reconcile(d).db = d

\* What live invoices were paid, with the credit, is what live receipts brought, up to
\* the tolerance on each receipt.
MoneyConserved(d) ==
    LET received == SumFunctionOnSet(d.amount, LiveReceipts(d))
        held     == d.credit + SumFunctionOnSet(d.paid, LiveInvoices(d))
    IN held <= received /\ received <= held + Tol * Cardinality(d.receipts)

\* A rebuild makes and loses no money.  It cannot hold while rows of a voided receipt
\* remain, which a rebuild does not remove.
RebuildConservesMoney ==
    (\A r \in db.voidedReceipts : Allocated(db, r) = 0) => MoneyConserved(Rebuild(db))

\* rebuildStudentLedger, in every state the other operations can leave: a second run
\* changes nothing, all the money is placed, and none is made or lost.
RebuildIsSound == RebuildIdempotent /\ RebuildPlacesAllMoney /\ RebuildConservesMoney

\* Money of a live receipt that is in no row.
Unplaced(d, r) == d.amount[r] - Allocated(d, r) - d.rcred[r]

\* The only operation that makes money of a live receipt vanish from the rows is the
\* voiding of an invoice it paid.
OnlyInvoiceVoidLosesMoney ==
    [][~CancelInvoice =>
        \A r \in LiveReceipts(db') :
            Unplaced(db', r) <= Tol \/ Unplaced(db', r) <= Unplaced(db, r)]_vars

-----------------------------------------------------------------------------
(* What the code's documentation says and the code does not do             *)

\* payment.service.ts:44: voiding a receipt reverses all its allocations.  So what a
\* later reconciliation holds paid never counts it.
VoidedReceiptPaysNothing ==
    LET d == Reconcile(db).db
    IN \A i \in LiveInvoices(d) :
         d.paid[i] <= SumFunction([r \in LiveReceipts(d) |-> d.alloc[r][i]])
                        + CreditPaid(d, i)

\* payment.service.ts:116: voiding an invoice reverses all payments; the money of a
\* live receipt is then still applied elsewhere or credit.
ReceiptMoneyIsKept == \A r \in LiveReceipts(db) : Unplaced(db, r) <= Tol

\* receipt.service.ts:484: reconciliation is idempotent.
ReconcileIdempotent ==
    LET once == Reconcile(db) IN once.ok => Reconcile(once.db) = once

\* credit.service.ts:73: the credit balance, verified after every change to it, is
\* what the receipt credits come to, less the credit allocations.
StoredCreditMatchesRows == db.hasCredit => Verified(db, db.credit) = db.credit
=============================================================================
