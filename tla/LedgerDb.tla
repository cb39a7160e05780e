------------------------------ MODULE LedgerDb ------------------------------
(***************************************************************************)
(* The rows that hold the finances of ONE student, and the helpers every   *)
(* payment service computes from them.                                     *)
(*                                                                         *)
(* A database is a record of columns.  An id is a number, issued in order, *)
(* so an id also orders rows by creation.  Amounts are in the smallest     *)
(* unit the code stores (decimal(10,2): a cent), and Tol is its tolerance  *)
(* of 0.01.  A missing allocation or receipt-credit row is an amount 0:    *)
(* the entities' CHECK constraints forbid a row with amount 0, and one     *)
(* transaction never makes two rows for one (receipt, invoice) pair        *)
(* (LedgerTransactions says what overlapping ones do).                     *)
(***************************************************************************)
EXTENDS Integers, FiniteSets, FiniteSetsExt, SequencesExt

CONSTANTS
    Invoices,    \* ids the invoice table can hold, 1..n
    Receipts,    \* ids the receipt table can hold, 1..m
    Terms,       \* the enrolments of the student (one per term)
    NoTerm,      \* enrolId IS NULL
    Dates,       \* invoice dates and due dates, all in the past
    Tol          \* 0.01

ASSUME IdsAssumption ==
    /\ Invoices \subseteq Nat \ {0} /\ IsFiniteSet(Invoices)
    /\ Receipts \subseteq Nat \ {0} /\ IsFiniteSet(Receipts)
ASSUME TermsAssumption == NoTerm \notin Terms
ASSUME AmountsAssumption == Tol \in Nat /\ Dates \subseteq Nat /\ Dates # {}

NoReceipt == 0   \* relatedReceiptId IS NULL

\* "Open" stands for Pending, PartiallyPaid and Overdue: the code queries them
\* together and tells them apart for display only.
Statuses == {"Unissued", "Open", "Paid", "Voided"}

Least(x, y) == IF x <= y THEN x ELSE y
Monus(x, y) == IF x > y THEN x - y ELSE 0    \* Math.max(0, x - y)

EmptyDb ==
    [ \* invoice
      invoices       |-> {},
      voidedInvoices |-> {},
      term           |-> [i \in Invoices |-> NoTerm],
      date           |-> [i \in Invoices |-> Min(Dates)],
      due            |-> [i \in Invoices |-> Min(Dates)],
      total          |-> [i \in Invoices |-> 0],
      paid           |-> [i \in Invoices |-> 0],
      balance        |-> [i \in Invoices |-> 0],
      status         |-> [i \in Invoices |-> "Unissued"],
      \* receipt, receipt_invoice_allocations, receipt_credits
      receipts       |-> {},
      voidedReceipts |-> {},
      amount         |-> [r \in Receipts |-> 0],
      alloc          |-> [r \in Receipts |-> [i \in Invoices |-> 0]],
      rcred          |-> [r \in Receipts |-> 0],
      \* student_credits (at most one row), credit_invoice_allocations, and
      \* per invoice the sum of its CREDIT rows in credit_transactions
      hasCredit      |-> FALSE,
      credit         |-> 0,
      calloc         |-> {},
      credited       |-> [i \in Invoices |-> 0] ]

LiveInvoices(d) == d.invoices \ d.voidedInvoices
LiveReceipts(d) == d.receipts \ d.voidedReceipts

\* ORDER BY invoiceDate / invoiceDueDate; the id decides a tie, which SQL leaves open.
Before(i, j, key) == key[i] < key[j] \/ (key[i] = key[j] /\ i < j)
First(S, key)     == {i \in S : \A j \in S \ {i} : Before(i, j, key)}
Latest(S, key)    == CHOOSE i \in S : \A j \in S \ {i} : Before(j, i, key)

\* `for (const i of sorted)': op(i, p) on each i of S in order, p from `start' on.
FoldInOrder(op(_, _), start, S, key) ==
    MapThenFoldSet(op, start, LAMBDA i : i, LAMBDA s : Latest(s, key), S)

PaidTo(alloc, i)  == SumFunction([r \in Receipts |-> alloc[r][i]])
AmountOf(rows)    == SumFunction([c \in rows |-> c.amt])
RowsOf(d, i)      == {c \in d.calloc : c.inv = i}
ReceiptPaid(d, i) == PaidTo(d.alloc, i)
CreditPaid(d, i)  == AmountOf(RowsOf(d, i))
TotalPaid(d, i)   == ReceiptPaid(d, i) + CreditPaid(d, i)
Allocated(d, r)   == SumFunctionOnSet(d.alloc[r], Invoices)

\* getInvoiceStatus: paid plays no part once Overdue and PartiallyPaid are merged.
StatusOf(voided, balance) ==
    IF voided THEN "Voided" ELSE IF balance <= Tol THEN "Paid" ELSE "Open"

\* verifyAndRecalculateInvoiceBalance on each invoice of S, and
\* calculateInvoiceBalance: every row counts, whoever its receipt is.
Recalculate(d, S) ==
    LET paid(i)    == Least(TotalPaid(d, i), d.total[i])
        balance(i) == Monus(d.total[i], TotalPaid(d, i))
    IN [d EXCEPT
          !.paid    = [i \in Invoices |-> IF i \in S THEN paid(i) ELSE @[i]],
          !.balance = [i \in Invoices |-> IF i \in S THEN balance(i) ELSE @[i]],
          !.status  = [i \in Invoices |->
                        IF i \in S THEN StatusOf(i \in d.voidedInvoices, balance(i))
                                   ELSE @[i]]]

CreditRow(d, i, amt, src) ==
    [seq |-> 1 + Max({0} \union {c.seq : c \in d.calloc}),
     inv |-> i, amt |-> amt, src |-> src]
=============================================================================
