--------------------------- MODULE ReceiptService ---------------------------
(***************************************************************************)
(* receipt.service.ts: taking a payment and voiding a receipt.             *)
(***************************************************************************)
EXTENDS InvoiceService

-----------------------------------------------------------------------------
(* allocateReceiptToInvoices                                               *)

\* What receipts may still pay towards an invoice: never more than the bill less ALL
\* receipt rows, those of voided receipts included.
Headroom(d, i) ==
    LET h == Monus(d.total[i], ReceiptPaid(d, i))
    IN IF h > Tol THEN Least(h, d.balance[i]) ELSE 0

\* Mutant: what earlier invoices took is not subtracted.
SharesMutant(d, x) ==
    LET open      == {i \in LiveInvoices(d) : d.status[i] = "Open" /\ d.balance[i] > Tol}
        left(i)   == x
    IN [i \in Invoices |->
          IF i \in open /\ left(i) > Tol THEN Least(left(i), Headroom(d, i)) ELSE 0]

\* The share of a payment x each invoice gets: open invoices by due date, each up to
\* its headroom, until no more than the tolerance is left.
Shares(d, x) ==
    LET open      == {i \in LiveInvoices(d) : d.status[i] = "Open" /\ d.balance[i] > Tol}
        before(i) == {j \in open : Before(j, i, d.due)}
        left(i)   == Monus(x, SumFunction([j \in before(i) |-> Headroom(d, j)]))
    IN [i \in Invoices |->
          IF i \in open /\ left(i) > Tol THEN Least(left(i), Headroom(d, i)) ELSE 0]

\* The receipt row, its allocations, and the invoices they reduce.
PayInvoices(d, r, x) ==
    LET share == Shares(d, x)
    IN [d EXCEPT
         !.receipts  = @ \union {r},
         !.amount[r] = x,
         !.alloc[r]  = share,
         !.paid      = [i \in Invoices |-> @[i] + share[i]],
         !.balance   = [i \in Invoices |-> @[i] - share[i]],
         !.status    = [i \in Invoices |->
                         IF share[i] > 0 THEN StatusOf(FALSE, d.balance[i] - share[i]) ELSE @[i]]]

\* Mutant: the row that explains the credit is not saved.
BankRestMutant(paid, r, left) ==
    [ok |-> left <= Tol \/ WithinLimit(paid, left),
     db |-> Reconcile(IF left > Tol THEN AddCredit(paid, left) ELSE paid).db]

\* What is left of the payment becomes credit.  Too much credit fails the whole
\* transaction; a reconciliation that throws is swallowed, and what it had done so
\* far is committed.
BankRest(paid, r, left) ==
    [ok |-> left <= Tol \/ WithinLimit(paid, left),
     db |-> Reconcile(IF left > Tol
                      THEN [AddCredit(paid, left) EXCEPT !.rcred[r] = left]
                      ELSE paid).db]

CreateReceipt(d, r, x) ==
    LET paid == PayInvoices(d, r, x)
    IN BankRest(paid, r, x - Allocated(paid, r))

-----------------------------------------------------------------------------
(* voidReceipt                                                             *)

\* Mutant: the paid amount is not kept at zero or above.
ReleaseInvoicesMutant(d, r) ==
    [d EXCEPT
      !.voidedReceipts = @ \union {r},
      !.paid    = [i \in Invoices |-> @[i] - d.alloc[r][i]],
      !.balance = [i \in Invoices |-> @[i] + d.alloc[r][i]],
      !.status  = [i \in Invoices |->
                    IF d.alloc[r][i] > 0
                    THEN StatusOf(i \in d.voidedInvoices, d.balance[i] + d.alloc[r][i])
                    ELSE @[i]]]

\* The rows stay; only the cached fields of the invoices are moved back.
ReleaseInvoices(d, r) ==
    [d EXCEPT
      !.voidedReceipts = @ \union {r},
      !.paid    = [i \in Invoices |-> Monus(@[i], d.alloc[r][i])],
      !.balance = [i \in Invoices |-> @[i] + d.alloc[r][i]],
      !.status  = [i \in Invoices |->
                    IF d.alloc[r][i] > 0
                    THEN StatusOf(i \in d.voidedInvoices, d.balance[i] + d.alloc[r][i])
                    ELSE @[i]]]

\* How much of each credit row is taken back to free `spent': newest rows first.
Reversed(d, spent) ==
    LET newer(c) == {b \in d.calloc : b.seq > c.seq}
    IN [c \in d.calloc |->
          Least(Monus(spent, AmountOf(newer(c))), c.amt)]

\* Each reversed row carries its own copy of the invoice as it was loaded, and all
\* copies are saved: of several, the one of the oldest row is the last written.
ReverseCredit(d, spent) ==
    LET back    == Reversed(d, spent)
        touched == {c \in d.calloc : back[c] > 0}
        last(i) == CHOOSE c \in touched :
                     c.inv = i /\ \A b \in touched : b.inv = i => c.seq <= b.seq
        freed(i) == IF \E c \in touched : c.inv = i THEN back[last(i)] ELSE 0
    IN [d EXCEPT
         !.calloc  = {[seq |-> c.seq, inv |-> c.inv, amt |-> c.amt - back[c], src |-> c.src] :
                         c \in {b \in @ : back[b] < b.amt}},
         !.credit  = @ + SumFunctionOnSet(back, touched),
         !.paid    = [i \in Invoices |-> Monus(@[i], freed(i))],
         !.balance = [i \in Invoices |-> @[i] + freed(i)],
         !.status  = [i \in Invoices |->
                       IF freed(i) > 0
                       THEN StatusOf(i \in d.voidedInvoices, d.balance[i] + freed(i))
                       ELSE @[i]]]

VoidReceipt(d, r) ==
    LET released == ReleaseInvoices(d, r)
        created  == d.rcred[r]
        freed    == IF created > d.credit THEN ReverseCredit(released, created - d.credit)
                                          ELSE released
        over     == Monus(d.amount[r], Allocated(d, r))
    IN IF created > 0
       THEN [freed EXCEPT !.credit = Monus(@, created), !.rcred[r] = 0]
       ELSE [released EXCEPT !.credit = Monus(@, over)]

-----------------------------------------------------------------------------
\* getStudentBalance: what the student is asked to pay, from cached fields only.
AmountDue(d) ==
    SumFunctionOnSet(d.balance, {i \in d.invoices : d.status[i] = "Open"})
=============================================================================
