------------------------ MODULE StudentLedgerProofs ------------------------
(***************************************************************************)
(* What holds of a student's finances for any number of invoices and       *)
(* receipts, any amounts and any tolerance and limits: first when one      *)
(* operation follows another, then when any number of transactions overlap.*)
(***************************************************************************)
EXTENDS LedgerTransactions, SetLemmas

-----------------------------------------------------------------------------
(* The order of a loop                                                     *)

\* `Latest' and so the order of a loop is well defined: ids decide ties.
LEMMA LatestExists ==
    ASSUME NEW S, IsFiniteSet(S), S # {}, S \subseteq Nat, NEW key, \A i \in S : key[i] \in Nat
    PROVE  Latest(S, key) \in S /\ \A j \in S \ {Latest(S, key)} : Before(j, Latest(S, key), key)
<1> DEFINE W == {p \in S \X S : Before(p[1], p[2], key)}
<1>1. \A x, y \in S : <<x, y>> \in W <=> Before(x, y, key)
    OBVIOUS
<1>2. \A x, y \in S : x # y => <<x, y>> \in W \/ <<y, x>> \in W
    BY <1>1 DEF Before
<1>3. \A x, y, z \in S : <<x, y>> \in W /\ <<y, z>> \in W => <<x, z>> \in W
    BY <1>1 DEF Before
<1> HIDE DEF W
<1>4. PICK x \in S : \A y \in S \ {x} : <<y, x>> \in W
    BY <1>2, <1>3, LastExists
<1>5. \A y \in S \ {x} : Before(y, x, key)
    BY <1>1, <1>4
<1> QED
    BY <1>5 DEF Latest

-----------------------------------------------------------------------------
(* Exemptions                                                              *)

\* An exemption comes to a number, never to less than nothing.
LEMMA ExemptedIsNatural ==
    ASSUME NEW bill \in [food : Nat, other : Nat], NEW x \in ExemptionRows
    PROVE  Exempted(bill, x) \in Nat /\ Gross(bill) \in Nat
<1>1. bill.food \in Nat /\ bill.other \in Nat /\ x.amount \in Nat
    BY DEF ExemptionRows, NoExemption
<1>2. Gross(bill) \in Nat
    BY <1>1 DEF Gross
<1>3. \A a, b \in Nat : a * b \in Nat
    OBVIOUS
<1>4. Gross(bill) * x.amount \in Nat
    BY <1>1, <1>2, <1>3
<1>5. 100 * x.amount \in Nat /\ 100 * bill.other + 50 * bill.food \in Nat
    BY <1>1
<1>6. x.type \in {"None", "Fixed", "Percentage", "StaffSibling"}
    BY DEF ExemptionRows, NoExemption
<1>7. QED
    BY <1>2, <1>4, <1>5, <1>6 DEF Exempted

\* validateInvoiceBeforeSave refuses every exemption above half of the bill, because it
\* compares the exempted amount with what is left; and so what it lets through is never
\* a bill of nothing (financial-validation.service.ts:183).
THEOREM ExemptedAtMostHalf ==
    ASSUME NEW bill \in [food : Nat, other : Nat], NEW x \in ExemptionRows,
           NEW date, NEW due, InvoiceIsValid(bill, x, date, due)
    PROVE  /\ 2 * Exempted(bill, x) <= 100 * Gross(bill)
           /\ NetBill(bill, x) \in Nat \ {0}
<1>1. Exempted(bill, x) \in Nat /\ Gross(bill) \in Nat
    BY ExemptedIsNatural
<1>2. Gross(bill) > 0 /\ Exempted(bill, x) <= Net(bill, x)
    BY DEF InvoiceIsValid
<1>3. 2 * Exempted(bill, x) <= 100 * Gross(bill)
    BY <1>1, <1>2 DEF Net
<1>4. Net(bill, x) \in Nat /\ Net(bill, x) >= 50
    BY <1>1, <1>2, <1>3 DEF Net
<1>5. \A n \in Nat : n >= 50 => (n + 50) \div 100 \in Nat \ {0}
    OBVIOUS
<1>6. QED
    BY <1>3, <1>4, <1>5 DEF NetBill

\* A staff sibling who has any fee but food cannot be billed at all: the exemption covers
\* all of it and half of the food, and so more than what remains
\* (invoice.service.ts:4561, financial-validation.service.ts:183).
THEOREM StaffSiblingIsRefused ==
    ASSUME NEW bill \in [food : Nat, other : Nat], bill.other > 0, NEW date, NEW due
    PROVE  ~InvoiceIsValid(bill, [type |-> "StaffSibling", amount |-> 0], date, due)
<1> DEFINE x == [type |-> "StaffSibling", amount |-> 0]
<1>1. Exempted(bill, x) = 100 * bill.other + 50 * bill.food
    BY DEF Exempted
<1>2. Net(bill, x) = 50 * bill.food
    BY <1>1 DEF Net, Gross
<1>3. QED
    BY <1>1, <1>2 DEF InvoiceIsValid
Columns == {"invoices", "voidedInvoices", "term", "date", "due", "total", "paid",
            "balance", "status", "receipts", "voidedReceipts", "amount", "alloc",
            "rcred", "hasCredit", "credit", "calloc", "credited"}

\* d and e hold the same invoices and receipts, voided or not.
SameIds(d, e) ==
    /\ DOMAIN e = DOMAIN d
    /\ e.invoices = d.invoices /\ e.voidedInvoices = d.voidedInvoices
    /\ e.receipts = d.receipts /\ e.voidedReceipts = d.voidedReceipts

\* d and e hold the same invoices, receipts and rows; cached fields may differ.
SameRows(d, e) ==
    /\ SameIds(d, e)
    /\ e.alloc = d.alloc /\ e.calloc = d.calloc /\ e.rcred = d.rcred

Ids(d) ==
    /\ DOMAIN d = Columns
    /\ d.invoices \subseteq Invoices /\ d.voidedInvoices \subseteq d.invoices
    /\ d.receipts \subseteq Receipts /\ d.voidedReceipts \subseteq d.receipts
    /\ DOMAIN d.alloc = Receipts
    /\ \A r \in Receipts : DOMAIN d.alloc[r] = Invoices
    /\ DOMAIN d.rcred = Receipts

RowsOnLive(d) ==
    /\ \A i \in d.voidedInvoices :
         (\A r \in Receipts : d.alloc[r][i] = 0) /\ (\A c \in d.calloc : c.inv # i)
    /\ \A c \in d.calloc : c.inv \in d.invoices

NoCreditOnVoided(d) == \A r \in d.voidedReceipts : ~(d.rcred[r] > 0)

\* The inductive invariant, as a predicate on a database.
Sound(d) == Ids(d) /\ RowsOnLive(d) /\ NoCreditOnVoided(d)

-----------------------------------------------------------------------------
(* Operations that write cached fields only                                *)

\* Soundness is about rows and ids only.
LEMMA SameRowsSound ==
    ASSUME NEW d, NEW e, SameRows(d, e), Sound(d)
    PROVE  Sound(e)
BY DEF SameRows, SameIds, Sound, Ids, RowsOnLive, NoCreditOnVoided

\* Recalculating balances touches no row.
LEMMA RecalculateRows ==
    ASSUME NEW d, NEW S, DOMAIN d = Columns
    PROVE  SameRows(d, Recalculate(d, S))
BY DEF SameRows, SameIds, Recalculate, Columns

\* Verifying the credit touches no row.
LEMMA VerifyCreditRows ==
    ASSUME NEW d, DOMAIN d = Columns
    PROVE  SameRows(d, VerifyCredit(d))
BY DEF SameRows, SameIds, VerifyCredit, Columns

\* Unlinking terms from voided invoices touches no row.
LEMMA UnlinkVoidedRows ==
    ASSUME NEW d, DOMAIN d = Columns
    PROVE  SameRows(d, UnlinkVoided(d))
BY DEF SameRows, SameIds, UnlinkVoided, Columns

\* Correcting overpayments touches no row.
LEMMA CorrectOverpaymentsRows ==
    ASSUME NEW d, DOMAIN d = Columns, NEW S
    PROVE  SameRows(d, CorrectOverpayments(d, S).db)
BY DEF SameRows, SameIds, CorrectOverpayments, Corrected, Columns

\* The exemption refresh touches no row.
LEMMA RefreshExemptionRows ==
    ASSUME NEW d, DOMAIN d = Columns
    PROVE  SameRows(d, RefreshExemption(d))
BY DEF SameRows, SameIds, RefreshExemption, Columns

\* What keeps the ids twice keeps the ids.
LEMMA SameIdsTransitive ==
    ASSUME NEW d, NEW e, NEW f, SameIds(d, e), SameIds(e, f)
    PROVE  SameIds(d, f)
BY DEF SameIds

-----------------------------------------------------------------------------
(* Reconciliation                                                          *)

\* Credit applied to a live invoice is a row on a live invoice.
LEMMA ApplyCreditSound ==
    ASSUME NEW d, NEW i, NEW owed, Sound(d), i \in LiveInvoices(d)
    PROVE  Sound(ApplyCredit(d, i, owed)) /\ SameIds(d, ApplyCredit(d, i, owed))
<1> DEFINE x   == CreditToApply(d, owed)
           row == CreditRow(d, i, x, CreditSource(d, x))
           e   == [d EXCEPT !.credit = @ - x]
           f   == VerifyCredit(e)
<1>1. DOMAIN d = Columns
    BY DEF Sound, Ids
<1>2. DOMAIN e = Columns /\ SameRows(d, e)
    BY <1>1 DEF SameRows, SameIds, Columns
<1>3. SameRows(e, f)
    BY <1>2, VerifyCreditRows
<1>4. Sound(f) /\ SameIds(d, f) /\ DOMAIN f = Columns
    BY <1>2, <1>3, SameRowsSound, SameIdsTransitive DEF SameRows, SameIds
<1>5. row.inv = i
    BY DEF CreditRow
<1> HIDE DEF row, f
<1>6. Sound([f EXCEPT !.calloc = @ \union {row}])
    BY <1>4, <1>5
       DEF Sound, Ids, RowsOnLive, NoCreditOnVoided, SameIds, LiveInvoices, Columns
<1>7. SameIds(d, [f EXCEPT !.calloc = @ \union {row}])
    BY <1>4 DEF SameIds, Columns
<1>8. CASE x = 0
    BY <1>8 DEF ApplyCredit, SameIds
<1>9. CASE x # 0
    BY <1>6, <1>7, <1>9 DEF ApplyCredit, DeductCredit, row, f
<1>10. QED
    BY <1>8, <1>9

\* Reconciliation gives its credit to a live invoice, if to any.
LEMMA SpendCreditSound ==
    ASSUME NEW d, Sound(d)
    PROVE  Sound(SpendCredit(d)) /\ SameIds(d, SpendCredit(d))
<1> DEFINE oldest == First({i \in LiveInvoices(d) : d.balance[i] > Tol}, d.date)
           i      == CHOOSE i \in oldest : TRUE
<1>1. CASE oldest = {}
    BY <1>1 DEF SpendCredit, SameIds
<1>2. CASE oldest # {}
    <2>1. i \in oldest
        BY <1>2
    <2>2. i \in LiveInvoices(d)
        BY <2>1 DEF First
    <2>3. QED
        BY <1>2, <2>2, ApplyCreditSound DEF SpendCredit
<1>3. QED
    BY <1>1, <1>2

\* A reconciliation, complete or cut short, changes no id; and when it is complete
\* the cached fields of the live invoices are those of a recalculation.
LEMMA ReconcileSound ==
    ASSUME NEW d, Sound(d)
    PROVE  /\ Sound(Reconcile(d).db) /\ SameIds(d, Reconcile(d).db)
           /\ Reconcile(d).ok => \E e : /\ Sound(e) /\ SameIds(d, e)
                                        /\ Reconcile(d).db = Recalculate(e, LiveInvoices(d))
<1> DEFINE corrected == CorrectOverpayments(UnlinkVoided(d), LiveInvoices(d))
           e == corrected.db
           f == VerifyCredit(Recalculate(e, LiveInvoices(d)))
           g == SpendCredit(f)
           h == Recalculate(g, LiveInvoices(d))
<1>1. DOMAIN d = Columns
    BY DEF Sound, Ids
<1>2. SameRows(d, UnlinkVoided(d)) /\ DOMAIN UnlinkVoided(d) = Columns
    BY <1>1, UnlinkVoidedRows DEF SameRows, SameIds
<1>3. SameRows(UnlinkVoided(d), e) /\ DOMAIN e = Columns
    BY <1>2, CorrectOverpaymentsRows DEF SameRows, SameIds
<1>4. Sound(e) /\ SameIds(d, e)
    BY <1>2, <1>3, SameRowsSound, SameIdsTransitive DEF SameRows
<1>5. SameRows(e, Recalculate(e, LiveInvoices(d)))
    BY <1>3, RecalculateRows
<1>6. SameRows(Recalculate(e, LiveInvoices(d)), f)
    BY <1>3, <1>5, VerifyCreditRows DEF SameRows, SameIds
<1>7. Sound(f) /\ SameIds(d, f)
    BY <1>4, <1>5, <1>6, SameRowsSound, SameIdsTransitive DEF SameRows
<1>8. Sound(g) /\ SameIds(d, g) /\ DOMAIN g = Columns
    BY <1>7, SpendCreditSound, SameIdsTransitive DEF Sound, Ids
<1>9. SameRows(g, h)
    BY <1>8, RecalculateRows
<1>10. Sound(h) /\ SameIds(d, h)
    BY <1>8, <1>9, SameRowsSound, SameIdsTransitive DEF SameRows
<1>11. CASE ~corrected.ok
    BY <1>4, <1>11 DEF Reconcile, ReconcileOf, Settle
<1>12. CASE corrected.ok
    <2>1. Reconcile(d) = [ok |-> TRUE, db |-> h]
        BY <1>12 DEF Reconcile, ReconcileOf, Settle
    <2>2. QED
        BY <2>1, <1>8, <1>10
<1>13. QED
    BY <1>11, <1>12

-----------------------------------------------------------------------------
(* Recalculated balances                                                   *)

\* A recalculated live invoice caches what its rows add up to.
LEMMA RecalculateCoherent ==
    ASSUME NEW d, DOMAIN d = Columns, NEW i \in Invoices \cap LiveInvoices(d)
    PROVE  CachedIsLedger(Recalculate(d, LiveInvoices(d)), i)
<1> DEFINE e       == Recalculate(d, LiveInvoices(d))
           paid    == Least(TotalPaid(d, i), d.total[i])
           balance == Monus(d.total[i], TotalPaid(d, i))
<1>1. e.total = d.total /\ e.alloc = d.alloc /\ e.calloc = d.calloc
    BY DEF Recalculate, Columns
<1>2. TotalPaid(e, i) = TotalPaid(d, i)
    BY <1>1 DEF TotalPaid, ReceiptPaid, CreditPaid, RowsOf
<1>3. e.paid[i] = paid /\ e.balance[i] = balance
    BY DEF Recalculate, Columns
<1>4. i \notin d.voidedInvoices
    BY DEF LiveInvoices
<1>5. e.status[i] = StatusOf(i \in d.voidedInvoices, balance)
    BY DEF Recalculate, Columns
<1>6. e.status[i] = StatusOf(FALSE, balance)
    BY <1>4, <1>5 DEF StatusOf
<1>7. QED
    BY <1>1, <1>2, <1>3, <1>6 DEF CachedIsLedger

\* Reconciliation leaves every live invoice coherent.
LEMMA ReconcileCoherent ==
    ASSUME NEW d, Sound(d), Reconcile(d).ok,
           NEW i \in LiveInvoices(Reconcile(d).db)
    PROVE  CachedIsLedger(Reconcile(d).db, i)
<1>1. PICK e : /\ Sound(e) /\ SameIds(d, e)
               /\ Reconcile(d).db = Recalculate(e, LiveInvoices(d))
    BY ReconcileSound
<1>2. LiveInvoices(d) = LiveInvoices(e)
    BY <1>1 DEF LiveInvoices, SameIds
<1>3. SameIds(e, Recalculate(e, LiveInvoices(e))) /\ DOMAIN e = Columns
    BY <1>1, RecalculateRows DEF Sound, Ids, SameRows
<1>4. i \in Invoices \cap LiveInvoices(e)
    BY <1>1, <1>2, <1>3 DEF LiveInvoices, SameIds, Sound, Ids
<1>5. QED
    BY <1>1, <1>2, <1>3, <1>4, RecalculateCoherent

-----------------------------------------------------------------------------
(* The rebuild                                                             *)

\* Only rows of live receipts and live invoices are written.
LEMMA RebuildSound ==
    ASSUME NEW d, Sound(d)
    PROVE  /\ Sound(Rebuild(d))
           /\ \A i \in LiveInvoices(Rebuild(d)) : CachedIsLedger(Rebuild(d), i)
<1> DEFINE plan == FifoPlan(d)
           live == LiveReceipts(d)
           start == DeleteDerived(d)
           e    == [start EXCEPT
                     !.credit = SumFunctionOnSet(plan.rcred, live),
                     !.alloc  = [r \in Receipts |-> [i \in Invoices |->
                                   IF r \in live /\ i \in LiveInvoices(d)
                                   THEN plan.alloc[r][i] ELSE @[r][i]]],
                     !.rcred  = [r \in Receipts |-> IF r \in live THEN plan.rcred[r] ELSE @[r]]]
           f    == Recalculate(e, LiveInvoices(d))
           g    == VerifyCredit(f)
<1>1. DOMAIN d = Columns
    BY DEF Sound, Ids
<1>1a. /\ SameIds(d, start) /\ DOMAIN start = Columns
      /\ start.calloc = {c \in d.calloc : c.inv \notin LiveInvoices(d)}
      /\ start.alloc = [r \in Receipts |->
             IF r \in LiveReceipts(d) THEN [i \in Invoices |-> 0] ELSE d.alloc[r]]
      /\ start.rcred = [r \in Receipts |-> IF r \in LiveReceipts(d) THEN 0 ELSE d.rcred[r]]
    BY <1>1 DEF SameIds, DeleteDerived, Columns
<1> HIDE DEF start
<1>2. SameIds(d, e) /\ DOMAIN e = Columns
    BY <1>1a DEF SameIds, Columns
<1>2a. /\ e.calloc = {c \in d.calloc : c.inv \notin LiveInvoices(d)}
       /\ DOMAIN e.rcred = Receipts
       /\ \A r \in Receipts : r \notin live => e.rcred[r] = d.rcred[r]
       /\ DOMAIN e.alloc = Receipts
       /\ \A r \in Receipts : DOMAIN e.alloc[r] = Invoices
       /\ \A r \in Receipts, i \in Invoices \ LiveInvoices(d) :
              e.alloc[r][i] = IF r \in live THEN 0 ELSE d.alloc[r][i]
    BY <1>1a DEF Columns
<1>3. Ids(e)
    BY <1>2, <1>2a DEF Sound, Ids, SameIds
<1>4. RowsOnLive(e)
    BY <1>2, <1>2a DEF Sound, Ids, RowsOnLive, SameIds, LiveInvoices
<1>5. NoCreditOnVoided(e)
    BY <1>2, <1>2a DEF Sound, Ids, NoCreditOnVoided, SameIds, LiveReceipts
<1>6. Rebuild(d) = g
    BY DEF Rebuild, start
<1>7. LiveInvoices(e) = LiveInvoices(d)
    BY <1>2 DEF LiveInvoices, SameIds
<1> HIDE DEF e
<1>8. SameRows(e, f) /\ DOMAIN f = Columns
    BY <1>2, RecalculateRows DEF SameRows, SameIds
<1>9. SameRows(f, g)
    BY <1>8, VerifyCreditRows
<1>10. Sound(g)
    BY <1>3, <1>4, <1>5, <1>8, <1>9, SameRowsSound DEF Sound
<1>11. ASSUME NEW i \in LiveInvoices(g)
       PROVE  CachedIsLedger(g, i)
    <2>1. i \in Invoices \cap LiveInvoices(e)
        BY <1>3, <1>8, <1>9 DEF LiveInvoices, SameRows, SameIds, Ids
    <2>2. CachedIsLedger(f, i)
        BY <1>2, <1>7, <2>1, RecalculateCoherent
    <2>3. /\ g.alloc = f.alloc /\ g.calloc = f.calloc /\ g.total = f.total
          /\ g.paid = f.paid /\ g.balance = f.balance /\ g.status = f.status
        BY <1>8 DEF VerifyCredit, Columns
    <2> HIDE DEF f, g
    <2>4. TotalPaid(g, i) = TotalPaid(f, i)
        BY <2>3 DEF TotalPaid, ReceiptPaid, CreditPaid, RowsOf
    <2>5. QED
        BY <2>2, <2>3, <2>4 DEF CachedIsLedger
<1>12. QED
    BY <1>6, <1>10, <1>11

-----------------------------------------------------------------------------
(* Invoices                                                                *)

\* A new invoice, owing its bill.
Inserted(d, i, t, net, date, due) ==
    [d EXCEPT !.invoices = @ \union {i},
              !.term[i] = t, !.date[i] = date, !.due[i] = due,
              !.total[i] = net, !.paid[i] = 0, !.balance[i] = net,
              !.status[i] = StatusOf(FALSE, net)]

\* The end of saveInvoice for a term without an invoice, with the credit pre drawn.
Billed(d, i, t, net, date, due, pre, src) ==
    WithCreditRow(Reconcile(Inserted(d, i, t, net, date, due)), i, pre, src)

\* The database after it, with the row of the credit if there is one to write.
LEMMA BilledIs ==
    ASSUME NEW d, NEW i, NEW t, NEW net, NEW date, NEW due, NEW pre, NEW src
    PROVE  LET e == Reconcile(Inserted(d, i, t, net, date, due)).db
           IN Billed(d, i, t, net, date, due, pre, src).db
                \in {e, [e EXCEPT !.calloc = @ \union {CreditRow(e, i, pre, src)}]}
BY DEF Billed, WithCreditRow

\* Billing keeps soundness.
LEMMA BilledSound ==
    ASSUME NEW d, Sound(d), NEW i \in Invoices \ d.invoices,
           NEW t, NEW net, NEW date, NEW due, NEW pre, NEW src
    PROVE  Sound(Billed(d, i, t, net, date, due, pre, src).db)
<1> DEFINE inserted == Inserted(d, i, t, net, date, due)
           e == Reconcile(inserted).db
           row == CreditRow(e, i, pre, src)
           f == [e EXCEPT !.calloc = @ \union {row}]
<1>1. /\ DOMAIN inserted = Columns
      /\ inserted.invoices = d.invoices \union {i}
      /\ inserted.voidedInvoices = d.voidedInvoices
      /\ inserted.receipts = d.receipts /\ inserted.voidedReceipts = d.voidedReceipts
      /\ inserted.alloc = d.alloc /\ inserted.calloc = d.calloc
      /\ inserted.rcred = d.rcred
    <2>1. DOMAIN d = Columns
        BY DEF Sound, Ids
    <2> QED
        BY <2>1 DEF Inserted, Columns
<1> HIDE DEF inserted
<1>2. Sound(inserted) /\ inserted.voidedInvoices = d.voidedInvoices
    BY <1>1 DEF Sound, Ids, RowsOnLive, NoCreditOnVoided
<1>3. Sound(e) /\ e.voidedInvoices = d.voidedInvoices /\ e.invoices = inserted.invoices
    BY <1>2, ReconcileSound DEF SameIds
<1>4. i \notin e.voidedInvoices /\ i \in e.invoices
    BY <1>1, <1>3 DEF Sound, Ids
<1>5. row.inv = i
    BY DEF CreditRow
<1> HIDE DEF e, row
<1>6. Sound(f)
    BY <1>3, <1>4, <1>5 DEF Sound, Ids, RowsOnLive, NoCreditOnVoided, Columns
<1>7. Billed(d, i, t, net, date, due, pre, src).db \in {e, f}
    BY BilledIs DEF e, row, inserted
<1> QED
    BY <1>3, <1>6, <1>7

\* Issuing an invoice keeps soundness.
LEMMA SaveNewInvoiceSound ==
    ASSUME NEW d, Sound(d), NEW i \in Invoices \ d.invoices,
           NEW t, NEW net, NEW date, NEW due
    PROVE  Sound(SaveNewInvoice(d, i, t, net, date, due).db)
<1> DEFINE pre == CreditToApply(d, net)
           src == CreditSource(d, pre)
           drawn == [d EXCEPT !.credit = @ - pre]
           deducted == IF pre > 0 THEN DeductCredit(d, pre) ELSE d
<1>1. DOMAIN d = Columns
    BY DEF Sound, Ids
<1>2. SameRows(d, drawn)
    BY <1>1 DEF SameRows, SameIds, Columns
<1>3. SameRows(drawn, DeductCredit(d, pre))
    BY <1>1, VerifyCreditRows DEF DeductCredit
<1>4. Sound(deducted) /\ SameIds(d, deducted)
    BY <1>2, <1>3, SameRowsSound, SameIdsTransitive DEF SameRows, SameIds
<1>5. SaveNewInvoice(d, i, t, net, date, due) = Billed(deducted, i, t, net, date, due, pre, src)
    BY DEF SaveNewInvoice, Billed, Inserted
<1> HIDE DEF deducted
<1> QED
    BY <1>4, <1>5, BilledSound DEF SameIds

\* Editing an invoice keeps soundness and leaves every live invoice coherent.
LEMMA EditInvoiceSound ==
    ASSUME NEW d, Sound(d), NEW i \in LiveInvoices(d), NEW net, NEW date, NEW due,
           EditInvoice(d, i, net, date, due).ok
    PROVE  LET e == EditInvoice(d, i, net, date, due).db
           IN Sound(e) /\ \A j \in LiveInvoices(e) : CachedIsLedger(e, j)
<1> DEFINE credited == ApplyCredit(d, i, d.balance[i])
           edited   == [credited EXCEPT !.total[i] = net, !.date[i] = date, !.due[i] = due]
           recalculated == Recalculate(edited, {i})
<1>1. Sound(credited)
    BY ApplyCreditSound DEF LiveInvoices
<1> HIDE DEF credited
<1>2. SameRows(credited, edited) /\ DOMAIN edited = Columns
    BY <1>1 DEF Sound, Ids, SameRows, SameIds, Columns
<1> HIDE DEF edited
<1>3. Sound(recalculated)
    BY <1>1, <1>2, RecalculateRows, SameRowsSound
<1> HIDE DEF recalculated
<1>4. EditInvoice(d, i, net, date, due) = Reconcile(recalculated)
    BY DEF EditInvoice, credited, edited, recalculated
<1>5. QED
    BY <1>3, <1>4, ReconcileSound, ReconcileCoherent

\* Every row on the invoice is gone before it is reconciled as voided.
LEMMA VoidInvoiceSound ==
    ASSUME NEW d, Sound(d), NEW i \in LiveInvoices(d), VoidInvoice(d, i).ok
    PROVE  LET e == VoidInvoice(d, i).db
           IN Sound(e) /\ \A j \in LiveInvoices(e) : CachedIsLedger(e, j)
<1> DEFINE marked   == [d EXCEPT !.voidedInvoices = @ \union {i}]
           updated  == Recalculate(marked, {i})
           reversed == ReverseCreditAllocations(updated, i)
           cleared  == [reversed EXCEPT
                         !.term[i] = NoTerm,
                         !.alloc   = [r \in Receipts |->
                                      [j \in Invoices |-> IF j = i THEN 0 ELSE @[r][j]]]]
<1>1. DOMAIN d = Columns
    BY DEF Sound, Ids
<1>2. /\ DOMAIN marked = Columns
      /\ marked.voidedInvoices = d.voidedInvoices \union {i}
      /\ marked.invoices = d.invoices
      /\ marked.receipts = d.receipts /\ marked.voidedReceipts = d.voidedReceipts
      /\ marked.alloc = d.alloc /\ marked.calloc = d.calloc /\ marked.rcred = d.rcred
    BY <1>1 DEF Columns
<1> HIDE DEF marked
<1>3. SameRows(marked, updated)
    BY <1>2, RecalculateRows
<1> HIDE DEF updated
<1>3a. /\ SameIds(updated, reversed) /\ DOMAIN reversed = Columns
       /\ reversed.alloc = updated.alloc /\ reversed.rcred = updated.rcred
       /\ reversed.calloc = {c \in updated.calloc : c.inv # i}
    BY <1>2, <1>3 DEF SameRows, SameIds, ReverseCreditAllocations, Columns
<1> HIDE DEF reversed
<1>4. /\ DOMAIN cleared = Columns
      /\ cleared.invoices = d.invoices
      /\ cleared.voidedInvoices = d.voidedInvoices \union {i}
      /\ cleared.receipts = d.receipts /\ cleared.voidedReceipts = d.voidedReceipts
      /\ cleared.alloc = [r \in Receipts |->
                            [j \in Invoices |-> IF j = i THEN 0 ELSE d.alloc[r][j]]]
      /\ cleared.calloc = {c \in d.calloc : c.inv # i}
      /\ cleared.rcred = d.rcred
    BY <1>2, <1>3, <1>3a DEF SameRows, SameIds, Columns
<1>5. VoidInvoice(d, i) = Reconcile(cleared)
    BY DEF VoidInvoice, reversed, updated, marked
<1> HIDE DEF cleared
<1>6. Ids(cleared) /\ NoCreditOnVoided(cleared)
    BY <1>4 DEF Sound, Ids, NoCreditOnVoided, LiveInvoices
<1>7. ASSUME NEW j \in cleared.voidedInvoices
      PROVE  /\ \A r \in Receipts : cleared.alloc[r][j] = 0
             /\ \A c \in cleared.calloc : c.inv # j
    <2>1. j \in Invoices
        BY <1>4, <1>6 DEF Ids
    <2>2. CASE j = i
        BY <1>4, <2>1, <2>2
    <2>3. CASE j # i
        <3>1. j \in d.voidedInvoices
            BY <1>4, <2>3
        <3>2. \A r \in Receipts : cleared.alloc[r][j] = d.alloc[r][j]
            BY <1>4, <2>1, <2>3
        <3>3. QED
            BY <1>4, <3>1, <3>2 DEF Sound, RowsOnLive
    <2>4. QED
        BY <2>2, <2>3
<1>8. \A c \in cleared.calloc : c.inv \in cleared.invoices
    BY <1>4 DEF Sound, RowsOnLive
<1>8a. Sound(cleared)
    BY <1>6, <1>7, <1>8 DEF Sound, RowsOnLive
<1>9. QED
    BY <1>5, <1>8a, ReconcileSound, ReconcileCoherent

-----------------------------------------------------------------------------
(* Receipts                                                                *)

\* A payment goes to live invoices only.
LEMMA PayInvoicesSound ==
    ASSUME NEW d, Sound(d), NEW r \in Receipts \ d.receipts, NEW x
    PROVE  LET e == PayInvoices(d, r, x)
           IN /\ Sound(e) /\ e.receipts = d.receipts \union {r}
              /\ e.voidedReceipts = d.voidedReceipts
<1> DEFINE share == Shares(d, x)
           e     == PayInvoices(d, r, x)
<1>1. /\ DOMAIN share = Invoices
      /\ \A i \in d.voidedInvoices : i \in Invoices => share[i] = 0
    BY DEF Shares, LiveInvoices
<1> HIDE DEF share
<1>2. DOMAIN d = Columns /\ DOMAIN d.alloc = Receipts
    BY DEF Sound, Ids
<1>3. /\ DOMAIN e = Columns
      /\ e.invoices = d.invoices /\ e.voidedInvoices = d.voidedInvoices
      /\ e.receipts = d.receipts \union {r} /\ e.voidedReceipts = d.voidedReceipts
      /\ e.alloc = [d.alloc EXCEPT ![r] = share]
      /\ e.calloc = d.calloc /\ e.rcred = d.rcred
    BY <1>2 DEF PayInvoices, Columns, share
<1> HIDE DEF e
<1>4. Ids(e) /\ NoCreditOnVoided(e)
    BY <1>1, <1>3 DEF Sound, Ids, NoCreditOnVoided
<1>5. ASSUME NEW i \in e.voidedInvoices
      PROVE  /\ \A q \in Receipts : e.alloc[q][i] = 0
             /\ \A c \in e.calloc : c.inv # i
    <2>1. i \in Invoices /\ i \in d.voidedInvoices
        BY <1>3, <1>4 DEF Ids
    <2>2. \A q \in Receipts : e.alloc[q] = IF q = r THEN share ELSE d.alloc[q]
        BY <1>2, <1>3
    <2>3. QED
        BY <1>1, <1>3, <2>1, <2>2 DEF Sound, RowsOnLive
<1>6. QED
    BY <1>3, <1>4, <1>5 DEF Sound, RowsOnLive, e

\* The credit goes to a receipt that is not void.
LEMMA BankRestSound ==
    ASSUME NEW paid, Sound(paid), NEW r \in Receipts, r \notin paid.voidedReceipts, NEW left
    PROVE  Sound(BankRest(paid, r, left).db)
<1> DEFINE raised   == [paid EXCEPT !.hasCredit = TRUE, !.credit = @ + left]
           added    == AddCredit(paid, left)
           credited == IF left > Tol THEN [added EXCEPT !.rcred[r] = left] ELSE paid
<1>1. BankRest(paid, r, left).db = Reconcile(credited).db
    BY DEF BankRest
<1>2. SameRows(paid, raised) /\ DOMAIN raised = Columns
    BY DEF Sound, Ids, SameRows, SameIds, Columns
<1>3. SameRows(raised, added)
    BY <1>2, VerifyCreditRows DEF AddCredit
<1>4. Sound(added) /\ r \notin added.voidedReceipts
    BY <1>2, <1>3, SameRowsSound DEF SameRows, SameIds
<1> HIDE DEF added
<1>5. Sound([added EXCEPT !.rcred[r] = left])
    BY <1>4 DEF Sound, Ids, RowsOnLive, NoCreditOnVoided, Columns
<1>6. Sound(credited)
    BY <1>5
<1> QED
    BY <1>1, <1>6, ReconcileSound

\* Taking a payment keeps soundness: only live invoices are paid.
LEMMA CreateReceiptSound ==
    ASSUME NEW d, Sound(d), NEW r \in Receipts \ d.receipts, NEW x
    PROVE  Sound(CreateReceipt(d, r, x).db)
<1> DEFINE paid == PayInvoices(d, r, x)
<1>1. Sound(paid) /\ r \notin paid.voidedReceipts
    BY PayInvoicesSound DEF Sound, Ids
<1> HIDE DEF paid
<1> QED
    BY <1>1, BankRestSound DEF CreateReceipt, paid

\* Releasing the invoices of a receipt changes no row and voids the receipt.
LEMMA ReleaseInvoicesFrame ==
    ASSUME NEW d, DOMAIN d = Columns, NEW r
    PROVE  LET e == ReleaseInvoices(d, r)
           IN /\ DOMAIN e = Columns
              /\ e.invoices = d.invoices /\ e.voidedInvoices = d.voidedInvoices
              /\ e.receipts = d.receipts /\ e.voidedReceipts = d.voidedReceipts \union {r}
              /\ e.alloc = d.alloc /\ e.calloc = d.calloc /\ e.rcred = d.rcred
BY DEF ReleaseInvoices, Columns

\* Credit rows shrink or go; none moves to another invoice.
LEMMA ReverseCreditFrame ==
    ASSUME NEW d, DOMAIN d = Columns, NEW spent
    PROVE  LET e == ReverseCredit(d, spent)
           IN /\ SameIds(d, e) /\ e.alloc = d.alloc /\ e.rcred = d.rcred
              /\ \A c \in e.calloc : \E b \in d.calloc : c.inv = b.inv
<1> DEFINE back == Reversed(d, spent)
           e    == ReverseCredit(d, spent)
           rows == {[seq |-> c.seq, inv |-> c.inv, amt |-> c.amt - back[c], src |-> c.src] :
                       c \in {b \in d.calloc : back[b] < b.amt}}
<1>1. SameIds(d, e) /\ e.alloc = d.alloc /\ e.rcred = d.rcred
    BY DEF ReverseCredit, SameIds, Columns
<1>2. e.calloc = rows
    BY DEF ReverseCredit, Columns
<1> HIDE DEF e, back
<1>3. \A c \in rows : \E b \in d.calloc : c.inv = b.inv
    OBVIOUS
<1>4. QED
    BY <1>1, <1>2, <1>3 DEF e

\* The credit of a receipt, or what it did not allocate, taken back.
TakenBack(d, r, over) ==
    LET created == d.rcred[r]
        freed   == IF created > d.credit THEN ReverseCredit(d, created - d.credit) ELSE d
    IN IF created > 0
       THEN [freed EXCEPT !.credit = Monus(@, created), !.rcred[r] = 0]
       ELSE [d EXCEPT !.credit = Monus(@, over)]

\* Voiding a receipt is to release its invoices, then to take its credit back.
LEMMA VoidIsTakenBack ==
    ASSUME NEW d, DOMAIN d = Columns, NEW r
    PROVE  VoidReceipt(d, r) =
             TakenBack(ReleaseInvoices(d, r), r, Monus(d.amount[r], Allocated(d, r)))
<1> DEFINE e == ReleaseInvoices(d, r)
<1>1. e.rcred = d.rcred /\ e.credit = d.credit
    BY DEF ReleaseInvoices, Columns
<1> HIDE DEF e
<1>2. VoidReceipt(d, r) =
        LET created == d.rcred[r]
            freed   == IF created > d.credit THEN ReverseCredit(e, created - d.credit) ELSE e
            over    == Monus(d.amount[r], Allocated(d, r))
        IN IF created > 0
           THEN [freed EXCEPT !.credit = Monus(@, created), !.rcred[r] = 0]
           ELSE [e EXCEPT !.credit = Monus(@, over)]
    BY DEF VoidReceipt, e
<1> QED
    BY <1>1, <1>2 DEF TakenBack, e

\* Once its credit is taken back, a receipt may be void.
LEMMA TakenBackSound ==
    ASSUME NEW d, Ids(d), RowsOnLive(d), NEW r \in Receipts, NEW over,
           \A q \in d.voidedReceipts \ {r} : ~(d.rcred[q] > 0)
    PROVE  Sound(TakenBack(d, r, over))
<1> DEFINE created  == d.rcred[r]
           spent    == created - d.credit
           freed    == IF created > d.credit THEN ReverseCredit(d, spent) ELSE d
           taken    == [freed EXCEPT !.credit = Monus(@, created), !.rcred[r] = 0]
           kept     == [d EXCEPT !.credit = Monus(@, over)]
<1>1. DOMAIN d = Columns
    BY DEF Ids
<1>2. TakenBack(d, r, over) = IF created > 0 THEN taken ELSE kept
    BY DEF TakenBack
<1>3. /\ SameIds(d, freed) /\ freed.alloc = d.alloc /\ freed.rcred = d.rcred
      /\ \A c \in freed.calloc : \E b \in d.calloc : c.inv = b.inv
    BY <1>1, ReverseCreditFrame DEF SameIds
<1> HIDE DEF freed
<1>4. CASE created > 0
    <2>1. /\ SameIds(d, taken) /\ taken.alloc = d.alloc /\ taken.calloc = freed.calloc
          /\ taken.rcred = [d.rcred EXCEPT ![r] = 0]
        BY <1>1, <1>3 DEF SameIds, Columns
    <2> HIDE DEF taken
    <2>2. Ids(taken)
        BY <2>1 DEF Ids, SameIds
    <2>3. RowsOnLive(taken)
        BY <1>3, <2>1 DEF RowsOnLive, SameIds
    <2>4. NoCreditOnVoided(taken)
        BY <2>1 DEF Ids, NoCreditOnVoided, SameIds
    <2> QED
        BY <1>2, <1>4, <2>2, <2>3, <2>4 DEF Sound
<1>5. CASE ~(created > 0)
    <2>1. /\ SameIds(d, kept) /\ kept.alloc = d.alloc /\ kept.calloc = d.calloc
          /\ kept.rcred = d.rcred
        BY <1>1 DEF SameIds, Columns
    <2> HIDE DEF kept
    <2>2. Sound(kept)
        BY <1>5, <2>1 DEF Sound, Ids, RowsOnLive, NoCreditOnVoided, SameIds
    <2> QED
        BY <1>2, <1>5, <2>2
<1> QED
    BY <1>4, <1>5

\* Voiding a receipt keeps soundness: its credit is gone.
LEMMA VoidReceiptSound ==
    ASSUME NEW d, Sound(d), NEW r \in LiveReceipts(d)
    PROVE  Sound(VoidReceipt(d, r))
<1> DEFINE released == ReleaseInvoices(d, r)
<1>1. DOMAIN d = Columns /\ r \in Receipts
    BY DEF Sound, Ids, LiveReceipts
<1>2. /\ DOMAIN released = Columns
      /\ released.invoices = d.invoices /\ released.voidedInvoices = d.voidedInvoices
      /\ released.receipts = d.receipts
      /\ released.voidedReceipts = d.voidedReceipts \union {r}
      /\ released.alloc = d.alloc /\ released.calloc = d.calloc /\ released.rcred = d.rcred
    BY <1>1, ReleaseInvoicesFrame
<1>3. VoidReceipt(d, r) = TakenBack(released, r, Monus(d.amount[r], Allocated(d, r)))
    BY <1>1, VoidIsTakenBack
<1> HIDE DEF released
<1>4. Ids(released) /\ RowsOnLive(released)
    BY <1>2 DEF Sound, Ids, RowsOnLive, LiveReceipts
<1>5. \A q \in released.voidedReceipts \ {r} : ~(released.rcred[q] > 0)
    BY <1>2 DEF Sound, NoCreditOnVoided
<1> QED
    BY <1>1, <1>3, <1>4, <1>5, TakenBackSound

-----------------------------------------------------------------------------
(* Amounts are natural numbers                                             *)

TypedBills(d) ==
    /\ d.term \in [Invoices -> Terms \union {NoTerm}]
    /\ d.date \in [Invoices -> Dates] /\ d.due \in [Invoices -> Dates]
    /\ d.total \in [Invoices -> Nat]

TypedCaches(d) ==
    /\ d.paid \in [Invoices -> Nat] /\ d.balance \in [Invoices -> Nat]
    /\ d.status \in [Invoices -> Statuses]

TypedRows(d) ==
    /\ d.amount \in [Receipts -> Nat]
    /\ d.alloc \in [Receipts -> [Invoices -> Nat]]
    /\ d.rcred \in [Receipts -> Nat]
    /\ d.calloc \subseteq CreditRows /\ IsFiniteSet(d.calloc)

TypedCredit(d) ==
    /\ d.hasCredit \in BOOLEAN /\ d.credit \in Nat
    /\ d.credited \in [Invoices -> Nat]

Typed(d) == Ids(d) /\ TypedBills(d) /\ TypedCaches(d) /\ TypedRows(d) /\ TypedCredit(d)

SameBills(d, e) ==
    e.term = d.term /\ e.date = d.date /\ e.due = d.due /\ e.total = d.total

SameCaches(d, e) == e.paid = d.paid /\ e.balance = d.balance /\ e.status = d.status

SameReceipts(d, e) == e.amount = d.amount /\ e.alloc = d.alloc /\ e.rcred = d.rcred

SameCredit(d, e) ==
    e.hasCredit = d.hasCredit /\ e.credit = d.credit /\ e.credited = d.credited

\* What receipts pay an invoice is an amount.
LEMMA PaidToIsNat ==
    ASSUME NEW alloc \in [Receipts -> [Invoices -> Nat]], NEW i \in Invoices
    PROVE  PaidTo(alloc, i) \in Nat
<1> DEFINE f == [r \in Receipts |-> alloc[r][i]]
<1>1. \A r \in Receipts : f[r] \in Nat
    OBVIOUS
<1>2. PaidTo(alloc, i) = SumFunctionOnSet(f, Receipts)
    BY DEF PaidTo, SumFunction
<1> HIDE DEF f
<1> QED
    BY <1>1, <1>2, SumNat, IdsAssumption

\* The sum of credit rows is an amount.
LEMMA AmountOfIsNat ==
    ASSUME NEW rows, IsFiniteSet(rows), \A c \in rows : c.amt \in Nat
    PROVE  AmountOf(rows) \in Nat
<1> DEFINE f == [c \in rows |-> c.amt]
<1>1. \A c \in rows : f[c] \in Nat
    OBVIOUS
<1>2. AmountOf(rows) = SumFunctionOnSet(f, rows)
    BY DEF AmountOf, SumFunction
<1> HIDE DEF f
<1> QED
    BY <1>1, <1>2, SumNat

\* What a receipt pays is an amount.
LEMMA AllocatedIsNat ==
    ASSUME NEW d, d.alloc \in [Receipts -> [Invoices -> Nat]], NEW r \in Receipts
    PROVE  Allocated(d, r) \in Nat
<1>1. \A i \in Invoices : d.alloc[r][i] \in Nat
    OBVIOUS
<1> QED
    BY <1>1, SumNat, IdsAssumption DEF Allocated

\* Every credit row has an amount, a number and an invoice, and they are finitely many.
LEMMA RowAmounts ==
    ASSUME NEW d, TypedRows(d)
    PROVE  /\ \A c \in d.calloc : c.amt \in Nat /\ c.seq \in Nat /\ c.inv \in Invoices
           /\ IsFiniteSet(d.calloc)
BY DEF TypedRows, CreditRows

\* What an invoice was paid, by receipts and by credit, is an amount.
LEMMA PaidIsNat ==
    ASSUME NEW d, TypedRows(d), NEW i \in Invoices
    PROVE  ReceiptPaid(d, i) \in Nat /\ CreditPaid(d, i) \in Nat /\ TotalPaid(d, i) \in Nat
<1>1. ReceiptPaid(d, i) \in Nat
    BY PaidToIsNat DEF ReceiptPaid, TypedRows
<1>2. IsFiniteSet(RowsOf(d, i)) /\ \A c \in RowsOf(d, i) : c.amt \in Nat
    BY RowAmounts, FS_Subset DEF RowsOf
<1>3. CreditPaid(d, i) \in Nat
    BY <1>2, AmountOfIsNat DEF CreditPaid
<1> QED
    BY <1>1, <1>3 DEF TotalPaid

\* The credit the rows imply is an amount.
LEMMA ExpectedIsNat ==
    ASSUME NEW d, TypedRows(d), TypedBills(d), d.invoices \subseteq Invoices
    PROVE  Expected(d) \in Nat
<1> DEFINE f == [i \in LiveInvoices(d) |-> OverpaidBy(d, i)]
<1>1. ASSUME NEW i \in LiveInvoices(d)
      PROVE  OverpaidBy(d, i) \in Nat
    <2> DEFINE counted == {c \in RowsOf(d, i) : c.src = NoReceipt \/ d.alloc[c.src][i] = 0}
    <2>1. i \in Invoices
        BY DEF LiveInvoices
    <2>2. IsFiniteSet(counted) /\ \A c \in counted : c.amt \in Nat
        BY RowAmounts, FS_Subset DEF RowsOf
    <2>3. CountedPaid(d, i) = ReceiptPaid(d, i) + AmountOf(counted)
        BY DEF CountedPaid
    <2> HIDE DEF counted
    <2>4. CountedPaid(d, i) \in Nat
        BY <2>1, <2>2, <2>3, AmountOfIsNat, PaidIsNat
    <2>5. d.total[i] \in Nat /\ Tol \in Nat
        BY <2>1, AmountsAssumption DEF TypedBills
    <2> QED
        BY <2>4, <2>5 DEF OverpaidBy
<1>2. IsFiniteSet(LiveInvoices(d)) /\ \A i \in LiveInvoices(d) : f[i] \in Nat
    BY <1>1, FS_Subset, IdsAssumption DEF LiveInvoices
<1>3. Expected(d) = Monus(SumFunctionOnSet(d.rcred, Receipts)
                            + SumFunctionOnSet(f, LiveInvoices(d)), AmountOf(d.calloc))
    BY DEF Expected, SumFunction
<1> HIDE DEF f
<1>4. SumFunctionOnSet(f, LiveInvoices(d)) \in Nat
    BY <1>2, SumNat
<1>5. SumFunctionOnSet(d.rcred, Receipts) \in Nat
    BY SumNat, IdsAssumption DEF TypedRows
<1>6. AmountOf(d.calloc) \in Nat
    BY RowAmounts, AmountOfIsNat
<1> QED
    BY <1>3, <1>4, <1>5, <1>6 DEF Monus

\* So is the credit after verification.
LEMMA VerifiedIsNat ==
    ASSUME NEW d, TypedRows(d), TypedBills(d), d.invoices \subseteq Invoices, NEW x \in Nat
    PROVE  Verified(d, x) \in Nat
BY ExpectedIsNat DEF Verified

\* Verification changes the stored credit only.
LEMMA VerifyCreditFrame ==
    ASSUME NEW d, DOMAIN d = Columns
    PROVE  LET e == VerifyCredit(d)
           IN /\ SameIds(d, e) /\ SameBills(d, e) /\ SameCaches(d, e) /\ SameReceipts(d, e)
              /\ e.calloc = d.calloc /\ e.hasCredit = d.hasCredit /\ e.credited = d.credited
              /\ e.credit = IF d.hasCredit THEN Verified(d, d.credit) ELSE d.credit
BY DEF VerifyCredit, SameIds, SameBills, SameCaches, SameReceipts, Columns

\* Verification keeps the types.
LEMMA VerifyCreditTyped ==
    ASSUME NEW d, Typed(d)
    PROVE  Typed(VerifyCredit(d))
<1> DEFINE e == VerifyCredit(d)
<1>1. DOMAIN d = Columns
    BY DEF Typed, Ids
<1>2. /\ SameIds(d, e) /\ SameBills(d, e) /\ SameCaches(d, e) /\ SameReceipts(d, e)
      /\ e.calloc = d.calloc /\ e.hasCredit = d.hasCredit /\ e.credited = d.credited
      /\ e.credit = IF d.hasCredit THEN Verified(d, d.credit) ELSE d.credit
    BY <1>1, VerifyCreditFrame
<1> HIDE DEF e
<1>3. e.credit \in Nat
    BY <1>2, VerifiedIsNat DEF Typed, Ids, TypedCredit
<1>4. Ids(e) /\ TypedBills(e) /\ TypedCaches(e)
    BY <1>2 DEF Typed, Ids, TypedBills, TypedCaches, SameIds, SameBills, SameCaches, SameReceipts
<1>5. TypedRows(e) /\ TypedCredit(e)
    BY <1>2, <1>3 DEF Typed, TypedRows, TypedCredit, SameReceipts
<1> QED
    BY <1>4, <1>5 DEF Typed, e

\* Recalculating changes the cached fields of the invoices asked for, and what to.
LEMMA RecalculateFrame ==
    ASSUME NEW d, DOMAIN d = Columns, NEW S
    PROVE  LET e == Recalculate(d, S)
           IN /\ SameIds(d, e) /\ SameBills(d, e) /\ SameReceipts(d, e)
              /\ e.calloc = d.calloc /\ SameCredit(d, e)
              /\ e.paid = [i \in Invoices |->
                   IF i \in S THEN Least(TotalPaid(d, i), d.total[i]) ELSE d.paid[i]]
              /\ e.balance = [i \in Invoices |->
                   IF i \in S THEN Monus(d.total[i], TotalPaid(d, i)) ELSE d.balance[i]]
              /\ e.status = [i \in Invoices |->
                   IF i \in S
                   THEN StatusOf(i \in d.voidedInvoices, Monus(d.total[i], TotalPaid(d, i)))
                   ELSE d.status[i]]
BY DEF Recalculate, SameIds, SameBills, SameReceipts, SameCredit, Columns

\* Recalculating keeps the types: no balance is below zero.
LEMMA RecalculateTyped ==
    ASSUME NEW d, Typed(d), NEW S
    PROVE  Typed(Recalculate(d, S))
<1> DEFINE e == Recalculate(d, S)
<1>1. DOMAIN d = Columns
    BY DEF Typed, Ids
<1>2. /\ SameIds(d, e) /\ SameBills(d, e) /\ SameReceipts(d, e)
      /\ e.calloc = d.calloc /\ SameCredit(d, e)
      /\ e.paid = [i \in Invoices |->
           IF i \in S THEN Least(TotalPaid(d, i), d.total[i]) ELSE d.paid[i]]
      /\ e.balance = [i \in Invoices |->
           IF i \in S THEN Monus(d.total[i], TotalPaid(d, i)) ELSE d.balance[i]]
      /\ e.status = [i \in Invoices |->
           IF i \in S
           THEN StatusOf(i \in d.voidedInvoices, Monus(d.total[i], TotalPaid(d, i)))
           ELSE d.status[i]]
    BY <1>1, RecalculateFrame
<1> HIDE DEF e
<1>3. \A i \in Invoices : TotalPaid(d, i) \in Nat /\ d.total[i] \in Nat
    BY PaidIsNat DEF Typed, TypedBills
<1>4. \A x, y \in Nat : Least(x, y) \in Nat /\ Monus(x, y) \in Nat
    BY DEF Least, Monus
<1>5. \A v, b : StatusOf(v, b) \in Statuses
    BY DEF StatusOf, Statuses
<1>6. e.paid \in [Invoices -> Nat] /\ e.balance \in [Invoices -> Nat]
    <2>1. \A i \in Invoices : /\ Least(TotalPaid(d, i), d.total[i]) \in Nat
                              /\ Monus(d.total[i], TotalPaid(d, i)) \in Nat
        BY <1>3, <1>4
    <2>2. d.paid \in [Invoices -> Nat] /\ d.balance \in [Invoices -> Nat]
        BY DEF Typed, TypedCaches
    <2> QED
        BY <1>2, <2>1, <2>2
<1>7. e.status \in [Invoices -> Statuses]
    BY <1>2, <1>5 DEF Typed, TypedCaches
<1>8. Ids(e) /\ TypedBills(e)
    BY <1>2 DEF Typed, Ids, TypedBills, SameIds, SameBills, SameReceipts
<1>9. TypedRows(e) /\ TypedCredit(e)
    BY <1>2 DEF Typed, TypedRows, TypedCredit, SameReceipts, SameCredit
<1> QED
    BY <1>6, <1>7, <1>8, <1>9 DEF Typed, TypedCaches, e

\* The source of credit is a receipt or none.
LEMMA CreditSourceTyped ==
    ASSUME NEW d, TypedRows(d), NEW x \in Nat
    PROVE  CreditSource(d, x) \in Receipts \union {NoReceipt}
<1> DEFINE rows    == {r \in Receipts : d.rcred[r] > 0}
           upTo(r) == SumFunctionOnSet(d.rcred, {q \in rows : q <= r})
           covers  == {r \in rows : upTo(r) >= x}
<1>1. rows \subseteq Nat /\ covers \subseteq Nat /\ rows \subseteq Receipts /\ covers \subseteq rows
    BY IdsAssumption
<1>2. CreditSource(d, x) = CASE covers # {}                -> Min(covers)
                             [] covers = {} /\ rows # {}   -> Min(rows)
                             [] rows = {}                  -> NoReceipt
    BY DEF CreditSource
<1> HIDE DEF rows, covers
<1>3. CASE covers # {}
    BY <1>1, <1>2, <1>3, MinIsNat
<1>4. CASE covers = {} /\ rows # {}
    BY <1>1, <1>2, <1>4, MinIsNat
<1>5. CASE rows = {}
    <2>1. covers = {}
        BY <1>1, <1>5
    <2> QED
        BY <1>2, <1>5, <2>1
<1> QED
    BY <1>3, <1>4, <1>5

\* A new credit row has its types.
LEMMA CreditRowTyped ==
    ASSUME NEW d, TypedRows(d), NEW i \in Invoices, NEW x \in Nat,
           NEW src \in Receipts \union {NoReceipt}
    PROVE  CreditRow(d, i, x, src) \in CreditRows
<1> DEFINE seqs == {0} \union {c.seq : c \in d.calloc}
           f    == [c \in d.calloc |-> c.seq]
<1>1. IsFiniteSet({f[c] : c \in d.calloc})
    BY RowAmounts, ImageIsFinite
<1>2. {f[c] : c \in d.calloc} = {c.seq : c \in d.calloc}
    OBVIOUS
<1>3. IsFiniteSet({c.seq : c \in d.calloc} \union {0})
    BY <1>1, <1>2, FS_AddElement
<1>4. {c.seq : c \in d.calloc} \union {0} = seqs
    OBVIOUS
<1>5. IsFiniteSet(seqs) /\ seqs # {} /\ seqs \subseteq Nat
    BY <1>3, <1>4, RowAmounts
<1>6. Max(seqs) \in seqs
    BY <1>5, MaxIsNat
<1>7. 1 + Max(seqs) \in Nat
    BY <1>5, <1>6
<1> HIDE DEF seqs
<1>8. [seq |-> 1 + Max(seqs), inv |-> i, amt |-> x, src |-> src] \in CreditRows
    BY <1>7 DEF CreditRows
<1> QED
    BY <1>8 DEF CreditRow, seqs

\* Rows may be added, as long as they are credit rows.
LEMMA AddRowTyped ==
    ASSUME NEW d, Typed(d), NEW row \in CreditRows
    PROVE  LET e == [d EXCEPT !.calloc = @ \union {row}]
           IN Typed(e) /\ SameIds(d, e) /\ SameBills(d, e) /\ SameReceipts(d, e)
<1> DEFINE e == [d EXCEPT !.calloc = @ \union {row}]
<1>1. DOMAIN d = Columns
    BY DEF Typed, Ids
<1>2. /\ SameIds(d, e) /\ SameBills(d, e) /\ SameCaches(d, e) /\ SameReceipts(d, e)
      /\ e.calloc = d.calloc \union {row} /\ SameCredit(d, e)
    BY <1>1 DEF SameIds, SameBills, SameCaches, SameReceipts, SameCredit, Columns
<1> HIDE DEF e
<1>3. IsFiniteSet(e.calloc)
    <2>1. IsFiniteSet(d.calloc)
        BY DEF Typed, TypedRows
    <2>2. IsFiniteSet(d.calloc \union {row})
        BY <2>1, FS_AddElement
    <2> QED
        BY <1>2, <2>2
<1>4. Ids(e) /\ TypedBills(e) /\ TypedCaches(e)
    BY <1>2 DEF Typed, Ids, TypedBills, TypedCaches, SameIds, SameBills, SameCaches, SameReceipts
<1>5. TypedRows(e) /\ TypedCredit(e)
    BY <1>2, <1>3 DEF Typed, TypedRows, TypedCredit, SameReceipts, SameCredit
<1> QED
    BY <1>2, <1>4, <1>5 DEF Typed, e

\* Storing another amount of credit keeps the types.
LEMMA SetCreditTyped ==
    ASSUME NEW d, Typed(d), NEW x \in Nat
    PROVE  LET e == [d EXCEPT !.credit = x]
           IN /\ Typed(e) /\ SameIds(d, e) /\ SameBills(d, e) /\ SameReceipts(d, e)
              /\ e.calloc = d.calloc
<1> DEFINE e == [d EXCEPT !.credit = x]
<1>1. DOMAIN d = Columns
    BY DEF Typed, Ids
<1>2. /\ SameIds(d, e) /\ SameBills(d, e) /\ SameCaches(d, e) /\ SameReceipts(d, e)
      /\ e.calloc = d.calloc
      /\ e.hasCredit = d.hasCredit /\ e.credit = x /\ e.credited = d.credited
    BY <1>1 DEF SameIds, SameBills, SameCaches, SameReceipts, Columns
<1> HIDE DEF e
<1>3. Ids(e) /\ TypedBills(e) /\ TypedCaches(e)
    BY <1>2 DEF Typed, Ids, TypedBills, TypedCaches, SameIds, SameBills, SameCaches, SameReceipts
<1>4. TypedRows(e) /\ TypedCredit(e)
    BY <1>2 DEF Typed, TypedRows, TypedCredit, SameReceipts
<1> QED
    BY <1>2, <1>3, <1>4 DEF Typed, e

\* No more is applied than is owed, and no more than there is.
LEMMA CreditToApplyIsNat ==
    ASSUME NEW d, TypedCredit(d), NEW owed \in Nat
    PROVE  /\ CreditToApply(d, owed) \in Nat /\ d.credit - CreditToApply(d, owed) \in Nat
           /\ CreditToApply(d, owed) <= owed
BY AmountsAssumption DEF CreditToApply, Least, TypedCredit

\* Deducting at most the stored credit keeps the types.
LEMMA DeductCreditTyped ==
    ASSUME NEW d, Typed(d), NEW x \in Nat, d.credit - x \in Nat
    PROVE  LET e == DeductCredit(d, x)
           IN /\ Typed(e) /\ SameIds(d, e) /\ SameBills(d, e) /\ SameReceipts(d, e)
              /\ e.calloc = d.calloc
<1> DEFINE y == d.credit - x
           e == [d EXCEPT !.credit = y]
           f == VerifyCredit(e)
<1>1. Typed(e) /\ SameIds(d, e) /\ SameBills(d, e) /\ SameReceipts(d, e) /\ e.calloc = d.calloc
    BY SetCreditTyped
<1>2. DeductCredit(d, x) = f
    BY DEF DeductCredit
<1> HIDE DEF e
<1>3. DOMAIN e = Columns
    BY <1>1 DEF Typed, Ids
<1>4. Typed(f) /\ SameIds(e, f) /\ SameBills(e, f) /\ SameReceipts(e, f) /\ f.calloc = e.calloc
    BY <1>1, <1>3, VerifyCreditTyped, VerifyCreditFrame
<1> HIDE DEF f
<1> QED
    BY <1>1, <1>2, <1>4 DEF SameIds, SameBills, SameReceipts

\* Applying credit keeps the types and changes no receipt.
LEMMA ApplyCreditTyped ==
    ASSUME NEW d, Typed(d), NEW i \in Invoices, NEW owed \in Nat
    PROVE  LET e == ApplyCredit(d, i, owed)
           IN Typed(e) /\ SameIds(d, e) /\ SameBills(d, e) /\ SameReceipts(d, e)
<1> DEFINE x   == CreditToApply(d, owed)
           e   == DeductCredit(d, x)
           row == CreditRow(d, i, x, CreditSource(d, x))
<1>1. x \in Nat /\ d.credit - x \in Nat
    BY CreditToApplyIsNat DEF Typed
<1>2. row \in CreditRows
    BY <1>1, CreditSourceTyped, CreditRowTyped DEF Typed
<1>3. ApplyCredit(d, i, owed) = IF x = 0 THEN d ELSE [e EXCEPT !.calloc = @ \union {row}]
    BY DEF ApplyCredit
<1>4. Typed(e) /\ SameIds(d, e) /\ SameBills(d, e) /\ SameReceipts(d, e)
    BY <1>1, DeductCreditTyped
<1> HIDE DEF e, row, x
<1>5. LET f == [e EXCEPT !.calloc = @ \union {row}]
      IN Typed(f) /\ SameIds(d, f) /\ SameBills(d, f) /\ SameReceipts(d, f)
    BY <1>2, <1>4, AddRowTyped DEF SameIds, SameBills, SameReceipts
<1>6. SameIds(d, d) /\ SameBills(d, d) /\ SameReceipts(d, d)
    BY DEF SameIds, SameBills, SameReceipts
<1> QED
    BY <1>3, <1>5, <1>6

-----------------------------------------------------------------------------
(* Reconciliation keeps the types                                          *)

\* Unlinking voided invoices keeps the types.
LEMMA UnlinkVoidedTyped ==
    ASSUME NEW d, Typed(d)
    PROVE  LET e == UnlinkVoided(d)
           IN Typed(e) /\ SameIds(d, e) /\ SameReceipts(d, e) /\ e.calloc = d.calloc
<1> DEFINE e == UnlinkVoided(d)
<1>1. DOMAIN d = Columns
    BY DEF Typed, Ids
<1>2. /\ SameIds(d, e) /\ SameCaches(d, e) /\ SameReceipts(d, e)
      /\ e.calloc = d.calloc /\ SameCredit(d, e)
      /\ e.date = d.date /\ e.due = d.due /\ e.total = d.total
      /\ e.term = [i \in Invoices |-> IF i \in d.voidedInvoices THEN NoTerm ELSE d.term[i]]
    BY <1>1 DEF UnlinkVoided, SameIds, SameCaches, SameReceipts, SameCredit, Columns
<1> HIDE DEF e
<1>3. TypedBills(e)
    BY <1>2 DEF Typed, TypedBills
<1>4. Ids(e) /\ TypedCaches(e)
    BY <1>2 DEF Typed, Ids, TypedCaches, SameIds, SameCaches, SameReceipts
<1>5. TypedRows(e) /\ TypedCredit(e)
    BY <1>2 DEF Typed, TypedRows, TypedCredit, SameReceipts, SameCredit
<1> QED
    BY <1>2, <1>3, <1>4, <1>5 DEF Typed, e

Overpaid(d, L) == {i \in L : Overpayment(d, i) > Tol}

Corrections(S) == [ok : BOOLEAN, credit : Nat, capped : SUBSET S, grown : SUBSET S]

CorrectionTable(d, L, g) ==
    g = [s \in SUBSET Overpaid(d, L) |->
           IF s = {} THEN [ok |-> TRUE, credit |-> d.credit, capped |-> {}, grown |-> {}]
           ELSE CorrectOverpayment(d, Latest(s, d.date), g[s \ {Latest(s, d.date)}])]

\* The loop over overpaid invoices as a table.
LEMMA CorrectionPlanIsFold ==
    ASSUME NEW d, NEW L
    PROVE  CorrectionPlan(d, L) = (CHOOSE g : CorrectionTable(d, L, g))[Overpaid(d, L)]
BY DEF CorrectionPlan, FoldInOrder, MapThenFoldSet, CorrectionTable, Overpaid

\* One round of it keeps the types of the plan.
LEMMA CorrectOverpaymentTyped ==
    ASSUME NEW d, Typed(d), NEW L \in SUBSET Invoices, NEW i \in Overpaid(d, L),
           NEW p \in Corrections(Overpaid(d, L))
    PROVE  CorrectOverpayment(d, i, p) \in Corrections(Overpaid(d, L))
<1> DEFINE S     == Overpaid(d, L)
           extra == Overpayment(d, i) - d.credited[i]
           q     == CorrectOverpayment(d, i, p)
<1>1. i \in Invoices
    BY DEF Overpaid
<1>2. extra \in Int
    BY <1>1, PaidIsNat DEF Overpayment, Typed, TypedBills, TypedCredit
<1>3. Tol \in Nat /\ p.credit \in Nat
    BY AmountsAssumption DEF Corrections
<1>4. extra > Tol => p.credit + extra \in Nat
    BY <1>2, <1>3
<1>5. extra > Tol => Verified(d, p.credit + extra) \in Nat
    BY <1>4, VerifiedIsNat DEF Typed, Ids
<1>6. i \in S
    OBVIOUS
<1>7. q = CASE ~p.ok                   -> p
            [] p.ok /\ extra <= Tol    -> [p EXCEPT !.capped = @ \union {i}]
            [] p.ok /\ extra > Tol /\ p.credit + extra > CreditLimit
                                       -> [p EXCEPT !.ok = FALSE]
            [] OTHER -> [p EXCEPT !.capped = @ \union {i}, !.grown  = @ \union {i},
                                  !.credit = Verified(d, p.credit + extra)]
    BY DEF CorrectOverpayment, Corrections
<1> HIDE DEF extra, q, S
<1>8. p \in Corrections(S)
    BY DEF S
<1>9. [p EXCEPT !.capped = @ \union {i}] \in Corrections(S)
    BY <1>6, <1>8 DEF Corrections
<1>10. [p EXCEPT !.ok = FALSE] \in Corrections(S)
    BY <1>8 DEF Corrections
<1>11. extra > Tol => [p EXCEPT !.capped = @ \union {i}, !.grown  = @ \union {i},
                                !.credit = Verified(d, p.credit + extra)] \in Corrections(S)
    BY <1>5, <1>6, <1>8 DEF Corrections
<1>12. extra <= Tol \/ extra > Tol
    BY <1>2, <1>3
<1>13. q \in Corrections(S)
    BY <1>7, <1>8, <1>9, <1>10, <1>11, <1>12
<1> QED
    BY <1>13 DEF q, S

\* The latest of some overpaid invoices is one of them.
LEMMA OverpaidOrder ==
    ASSUME NEW d, Typed(d), NEW L \in SUBSET Invoices, NEW s \in SUBSET Overpaid(d, L), s # {}
    PROVE  Latest(s, d.date) \in s
<1>1. s \subseteq Invoices
    BY DEF Overpaid
<1>2. IsFiniteSet(s) /\ s \subseteq Nat
    BY <1>1, FS_Subset, IdsAssumption
<1>3. \A i \in s : d.date[i] \in Nat
    BY <1>1, AmountsAssumption DEF Typed, TypedBills
<1> QED
    BY <1>2, <1>3, LatestExists

\* So the whole loop keeps them.
LEMMA CorrectionPlanTyped ==
    ASSUME NEW d, Typed(d), NEW L \in SUBSET Invoices
    PROVE  CorrectionPlan(d, L) \in Corrections(Overpaid(d, L))
<1> DEFINE S     == Overpaid(d, L)
           P     == Corrections(S)
           start == [ok |-> TRUE, credit |-> d.credit, capped |-> {}, grown |-> {}]
           last  == [s \in SUBSET S |-> Latest(s, d.date)]
           F     == [s \in SUBSET S |-> [p \in P |-> CorrectOverpayment(d, last[s], p)]]
           G     == CHOOSE g : CorrectionTable(d, L, g)
<1>1. IsFiniteSet(S)
    <2>1. S \subseteq Invoices
        BY DEF Overpaid
    <2> QED
        BY <2>1, FS_Subset, IdsAssumption
<1>2. \A s \in SUBSET S : s # {} => last[s] \in s
    BY OverpaidOrder
<1>3. start \in P
    BY DEF Corrections, Typed, TypedCredit
<1>4. \A s \in SUBSET S, p \in P : s # {} => F[s][p] \in P
    <2>1. ASSUME NEW s \in SUBSET S, NEW p \in P, s # {}
          PROVE  F[s][p] \in P
        <3>1. F[s][p] = CorrectOverpayment(d, last[s], p) /\ last[s] \in S
            BY <1>2, <2>1
        <3> QED
            BY <3>1, CorrectOverpaymentTyped
    <2> QED
        BY <2>1
<1>5. PICK g \in [SUBSET S -> P] : Folds(g, S, start, F, last)
    <2> HIDE DEF S, P, start, last, F
    <2> QED
        BY <1>1, <1>2, <1>3, <1>4, SetRecursion
<1>6. CorrectionTable(d, L, g)
    <2>1. \A s \in SUBSET S : g[s] =
             IF s = {} THEN start ELSE CorrectOverpayment(d, last[s], g[s \ {last[s]}])
        BY <1>5 DEF Folds
    <2> QED
        BY <2>1 DEF CorrectionTable
<1>7. CorrectionTable(d, L, G)
    BY <1>6
<1>8. FoldsWithin(G, S, P, start, F, last)
    <2>1. G[{}] = start
        BY <1>7 DEF CorrectionTable
    <2>2. ASSUME NEW s \in SUBSET S, s # {}, G[s \ {last[s]}] \in P
          PROVE  G[s] = F[s][G[s \ {last[s]}]]
        <3>1. G[s] = CorrectOverpayment(d, last[s], G[s \ {last[s]}])
            BY <1>7, <2>2 DEF CorrectionTable
        <3> QED
            BY <2>2, <3>1
    <2> HIDE DEF S, P, start, last, F, G
    <2> QED
        BY <2>1, <2>2 DEF FoldsWithin
<1>9. G[S] \in P
    <2> HIDE DEF S, P, start, last, F, G
    <2> QED
        BY <1>1, <1>2, <1>3, <1>4, <1>8, FoldStays
<1> QED
    BY <1>9, CorrectionPlanIsFold

\* Correcting overpayments keeps the types of the database.
LEMMA CorrectOverpaymentsTyped ==
    ASSUME NEW d, Typed(d), NEW L \in SUBSET Invoices
    PROVE  LET e == CorrectOverpayments(d, L).db
           IN Typed(e) /\ SameIds(d, e) /\ SameBills(d, e) /\ SameReceipts(d, e)
<1> DEFINE p == CorrectionPlan(d, L)
           e == CorrectOverpayments(d, L).db
<1>1. DOMAIN d = Columns
    BY DEF Typed, Ids
<1>2. /\ SameIds(d, e) /\ SameBills(d, e) /\ SameReceipts(d, e) /\ e.calloc = d.calloc
      /\ e.paid = [i \in Invoices |-> IF i \in p.capped THEN d.total[i] ELSE d.paid[i]]
      /\ e.balance = [i \in Invoices |-> IF i \in p.capped THEN 0 ELSE d.balance[i]]
      /\ e.status = d.status
      /\ e.hasCredit = (d.hasCredit \/ p.grown # {}) /\ e.credit = p.credit
      /\ e.credited = [i \in Invoices |->
                         IF i \in p.grown THEN Overpayment(d, i) ELSE d.credited[i]]
    BY <1>1 DEF CorrectOverpayments, Corrected, SameIds, SameBills, SameReceipts, Columns
<1>3. p.credit \in Nat /\ p.grown \subseteq Overpaid(d, L)
    BY CorrectionPlanTyped DEF Corrections
<1> HIDE DEF e, p
<1>4. \A i \in Invoices : i \in Overpaid(d, L) => Overpayment(d, i) \in Nat
    <2>1. ASSUME NEW i \in Invoices, i \in Overpaid(d, L)
          PROVE  Overpayment(d, i) \in Nat
        <3>1. Overpayment(d, i) \in Int
            BY PaidIsNat DEF Overpayment, Typed, TypedBills
        <3> QED
            BY <2>1, <3>1, AmountsAssumption DEF Overpaid
    <2> QED
        BY <2>1
<1>5. e.credited \in [Invoices -> Nat]
    <2>1. \A i \in Invoices : i \in p.grown => Overpayment(d, i) \in Nat
        BY <1>3, <1>4
    <2> QED
        BY <1>2, <2>1 DEF Typed, TypedCredit
<1>6. TypedCaches(e)
    BY <1>2 DEF Typed, TypedCaches, TypedBills
<1>7. Ids(e) /\ TypedBills(e)
    BY <1>2 DEF Typed, Ids, TypedBills, SameIds, SameBills, SameReceipts
<1>8. TypedRows(e)
    BY <1>2 DEF Typed, TypedRows, SameReceipts
<1>9. e.hasCredit \in BOOLEAN
    BY <1>2 DEF Typed, TypedCredit
<1>10. TypedCredit(e)
    BY <1>2, <1>3, <1>5, <1>9 DEF TypedCredit
<1> QED
    BY <1>2, <1>6, <1>7, <1>8, <1>10 DEF Typed, e

\* Spending the credit keeps the types.
LEMMA SpendCreditTyped ==
    ASSUME NEW d, Typed(d)
    PROVE  LET e == SpendCredit(d)
           IN Typed(e) /\ SameIds(d, e) /\ SameBills(d, e) /\ SameReceipts(d, e)
<1> DEFINE oldest == First({i \in LiveInvoices(d) : d.balance[i] > Tol}, d.date)
           i      == CHOOSE i \in oldest : TRUE
<1>1. SpendCredit(d) = IF oldest = {} THEN d ELSE ApplyCredit(d, i, d.balance[i])
    BY DEF SpendCredit
<1>2. CASE oldest = {}
    BY <1>1, <1>2 DEF SameIds, SameBills, SameReceipts
<1>3. CASE oldest # {}
    <2>1. i \in oldest
        BY <1>3
    <2>2. i \in Invoices
        BY <2>1 DEF First, LiveInvoices, Typed, Ids
    <2>3. d.balance[i] \in Nat
        BY <2>2 DEF Typed, TypedCaches
    <2> QED
        BY <1>1, <1>3, <2>2, <2>3, ApplyCreditTyped
<1> QED
    BY <1>2, <1>3

\* Reconciliation keeps the types and changes no receipt.
LEMMA ReconcileOfTyped ==
    ASSUME NEW d, Typed(d), NEW S \in SUBSET Invoices
    PROVE  LET e == ReconcileOf(d, S).db
           IN Typed(e) /\ SameIds(d, e) /\ SameReceipts(d, e)
<1> DEFINE L == LiveInvoices(d)
           b == UnlinkVoided(d)
           c == CorrectOverpayments(b, S)
           f == Recalculate(c.db, L)
           g == VerifyCredit(f)
           h == SpendCredit(g)
           k == Recalculate(h, L)
           Keeps(x) == Typed(x) /\ SameIds(d, x) /\ SameReceipts(d, x)
<1>0. ReconcileOf(d, S) = IF ~c.ok THEN c ELSE [ok |-> TRUE, db |-> k]
    BY DEF ReconcileOf, Settle
<1>1. Keeps(b)
    BY UnlinkVoidedTyped
<1> HIDE DEF b
<1>2. Keeps(c.db)
    BY <1>1, CorrectOverpaymentsTyped DEF SameIds, SameReceipts
<1> HIDE DEF c
<1>3. Keeps(f)
    <2>1. DOMAIN c.db = Columns
        BY <1>2 DEF Typed, Ids
    <2>2. Typed(f) /\ SameIds(c.db, f) /\ SameReceipts(c.db, f)
        BY <1>2, <2>1, RecalculateTyped, RecalculateFrame
    <2> HIDE DEF f
    <2> QED
        BY <1>2, <2>2 DEF SameIds, SameReceipts
<1> HIDE DEF f
<1>4. Keeps(g)
    <2>1. DOMAIN f = Columns
        BY <1>3 DEF Typed, Ids
    <2>2. Typed(g) /\ SameIds(f, g) /\ SameReceipts(f, g)
        BY <1>3, <2>1, VerifyCreditTyped, VerifyCreditFrame
    <2> HIDE DEF g
    <2> QED
        BY <1>3, <2>2 DEF SameIds, SameReceipts
<1> HIDE DEF g
<1>5. Keeps(h)
    BY <1>4, SpendCreditTyped DEF SameIds, SameReceipts
<1> HIDE DEF h
<1>6. Keeps(k)
    <2>1. DOMAIN h = Columns
        BY <1>5 DEF Typed, Ids
    <2>2. Typed(k) /\ SameIds(h, k) /\ SameReceipts(h, k)
        BY <1>5, <2>1, RecalculateTyped, RecalculateFrame
    <2> HIDE DEF k
    <2> QED
        BY <1>5, <2>2 DEF SameIds, SameReceipts
<1> HIDE DEF k
<1> QED
    BY <1>0, <1>2, <1>6

\* A term has one invoice: an enrolment is linked to one at most.
TermsOnce(d) ==
    \A i, j \in d.invoices : d.term[i] = d.term[j] => i = j \/ d.term[i] = NoTerm

\* After a reconciliation the terms are those of the invoices that are not voided.
LEMMA ReconcileOfTerms ==
    ASSUME NEW d, Typed(d), NEW S \in SUBSET Invoices
    PROVE  ReconcileOf(d, S).db.term = [i \in Invoices |->
              IF i \in d.voidedInvoices THEN NoTerm ELSE d.term[i]]
<1> DEFINE L == LiveInvoices(d)
           b == UnlinkVoided(d)
           c == CorrectOverpayments(b, S)
           f == Recalculate(c.db, L)
           g == VerifyCredit(f)
           h == SpendCredit(g)
           k == Recalculate(h, L)
           terms == [i \in Invoices |-> IF i \in d.voidedInvoices THEN NoTerm ELSE d.term[i]]
           Keeps(x) == Typed(x) /\ DOMAIN x = Columns /\ x.term = terms
<1>0. ReconcileOf(d, S) = IF ~c.ok THEN c ELSE [ok |-> TRUE, db |-> k]
    BY DEF ReconcileOf, Settle
<1>1. Keeps(b)
    <2>1. DOMAIN d = Columns
        BY DEF Typed, Ids
    <2>2. b.term = terms
        BY <2>1 DEF UnlinkVoided, Columns
    <2> HIDE DEF b, terms
    <2> QED
        BY <2>2, UnlinkVoidedTyped DEF b, Typed, Ids
<1> HIDE DEF b, terms
<1>2. Keeps(c.db)
    BY <1>1, CorrectOverpaymentsTyped DEF SameBills, Typed, Ids
<1> HIDE DEF c
<1>3. Keeps(f)
    <2>1. Typed(f) /\ SameBills(c.db, f)
        BY <1>2, RecalculateTyped, RecalculateFrame
    <2> HIDE DEF f
    <2> QED
        BY <1>2, <2>1 DEF SameBills, Typed, Ids
<1> HIDE DEF f
<1>4. Keeps(g)
    BY <1>3, VerifyCreditTyped, VerifyCreditFrame DEF SameBills, Typed, Ids
<1> HIDE DEF g
<1>5. Keeps(h)
    BY <1>4, SpendCreditTyped DEF SameBills, Typed, Ids
<1> HIDE DEF h
<1>6. Keeps(k)
    <2>1. Typed(k) /\ SameBills(h, k)
        BY <1>5, RecalculateTyped, RecalculateFrame
    <2> HIDE DEF k
    <2> QED
        BY <1>5, <2>1 DEF SameBills, Typed, Ids
<1> HIDE DEF k
<1> QED
    BY <1>0, <1>2, <1>6 DEF terms

\* Unchanged terms of the same invoices stay one each.
LEMMA SameTermsOnce ==
    ASSUME NEW d, NEW e, TermsOnce(d), e.invoices = d.invoices, e.term = d.term
    PROVE  TermsOnce(e)
BY DEF TermsOnce

\* A reconciliation gives no invoice a term.
LEMMA ReconcileOfTermsOnce ==
    ASSUME NEW d, Typed(d), TermsOnce(d), NEW S \in SUBSET Invoices
    PROVE  TermsOnce(ReconcileOf(d, S).db)
<1> DEFINE e == ReconcileOf(d, S).db
<1>0. Typed(e) /\ SameIds(d, e) /\ SameReceipts(d, e)
    BY ReconcileOfTyped
<1>1. e.invoices = d.invoices /\ d.invoices \subseteq Invoices
    BY <1>0 DEF SameIds, Typed, Ids
<1>2. e.term = [i \in Invoices |-> IF i \in d.voidedInvoices THEN NoTerm ELSE d.term[i]]
    BY ReconcileOfTerms
<1> HIDE DEF e
<1>3. TermsOnce(e)
    BY <1>1, <1>2 DEF TermsOnce
<1> QED
    BY <1>3 DEF e

\* All of it holds of a reconciliation of the live invoices.
LEMMA ReconcileTyped ==
    ASSUME NEW d, Typed(d)
    PROVE  LET e == Reconcile(d).db
           IN Typed(e) /\ SameIds(d, e) /\ SameReceipts(d, e)
<1>1. LiveInvoices(d) \in SUBSET Invoices
    BY DEF LiveInvoices, Typed, Ids
<1> QED
    BY <1>1, ReconcileOfTyped DEF Reconcile

\* Its terms too.
LEMMA ReconcileTerms ==
    ASSUME NEW d, Typed(d)
    PROVE  Reconcile(d).db.term = [i \in Invoices |->
              IF i \in d.voidedInvoices THEN NoTerm ELSE d.term[i]]
<1>1. LiveInvoices(d) \in SUBSET Invoices
    BY DEF LiveInvoices, Typed, Ids
<1> QED
    BY <1>1, ReconcileOfTerms DEF Reconcile

\* And they stay one each.
LEMMA ReconcileTermsOnce ==
    ASSUME NEW d, Typed(d), TermsOnce(d)
    PROVE  TermsOnce(Reconcile(d).db)
<1>1. LiveInvoices(d) \in SUBSET Invoices
    BY DEF LiveInvoices, Typed, Ids
<1> QED
    BY <1>1, ReconcileOfTermsOnce DEF Reconcile

-----------------------------------------------------------------------------
(* The FIFO plan of a rebuild                                              *)

Plans == [left : Nat, balance : [Invoices -> Nat],
          alloc : [Receipts -> [Invoices -> Nat]], rcred : [Receipts -> Nat]]

Share(p, i) == IF p.balance[i] > Tol THEN Least(p.left, p.balance[i]) ELSE 0

\* What one allocation moves: a share of what is left, to one invoice.
LEMMA AllocateFields ==
    ASSUME NEW p \in Plans, NEW r \in Receipts, NEW i \in Invoices
    PROVE  LET q == Allocate(r, i, p)
               x == Share(p, i)
           IN /\ q \in Plans /\ x \in Nat /\ x <= p.left /\ x <= p.balance[i]
              /\ q.left = p.left - x /\ q.rcred = p.rcred
              /\ \A j \in Invoices : q.balance[j] = IF j = i THEN p.balance[i] - x ELSE p.balance[j]
              /\ \A o \in Receipts \ {r} : q.alloc[o] = p.alloc[o]
              /\ \A j \in Invoices : q.alloc[r][j] = IF j = i THEN x ELSE p.alloc[r][j]
<1> DEFINE q == Allocate(r, i, p)
           x == Share(p, i)
           l == p.left - x
           b == [p.balance EXCEPT ![i] = @ - x]
           a == [p.alloc EXCEPT ![r] = [@ EXCEPT ![i] = x]]
<1>1. p.left \in Nat /\ p.balance \in [Invoices -> Nat] /\ p.balance[i] \in Nat
      /\ p.alloc \in [Receipts -> [Invoices -> Nat]]
    BY DEF Plans
<1>2. x \in Nat /\ x <= p.left /\ x <= p.balance[i]
    BY <1>1, AmountsAssumption DEF Share, Least
<1>3. q = [p EXCEPT !.left = @ - x, !.balance[i] = @ - x, !.alloc[r][i] = x]
    BY DEF Allocate, Share
<1> HIDE DEF x
<1>4. q = [p EXCEPT !.left = l, !.balance = b, !.alloc = a]
    BY <1>3 DEF Plans
<1>5. l \in Nat /\ p.balance[i] - x \in Nat
    BY <1>1, <1>2
<1>6. b \in [Invoices -> Nat] /\ a \in [Receipts -> [Invoices -> Nat]]
    BY <1>1, <1>2, <1>5
<1>7. /\ \A j \in Invoices : b[j] = IF j = i THEN p.balance[i] - x ELSE p.balance[j]
      /\ \A o \in Receipts \ {r} : a[o] = p.alloc[o]
      /\ \A j \in Invoices : a[r][j] = IF j = i THEN x ELSE p.alloc[r][j]
    BY <1>1
<1> HIDE DEF q, l, b, a
<1>8. q \in Plans /\ q.left = l /\ q.balance = b /\ q.alloc = a /\ q.rcred = p.rcred
    BY <1>4, <1>5, <1>6 DEF Plans
<1> QED
    BY <1>2, <1>7, <1>8 DEF q, l, x

SpreadTable(d, r, start, g) ==
    g = [s \in SUBSET LiveInvoices(d) |->
           IF s = {} THEN start
           ELSE Allocate(r, Latest(s, d.date), g[s \ {Latest(s, d.date)}])]

\* The loop of a receipt over the invoices as a table.
LEMMA SpreadIsFold ==
    ASSUME NEW d, NEW r, NEW p
    PROVE  LET start == [p EXCEPT !.left = d.amount[r]]
               q     == (CHOOSE g : SpreadTable(d, r, start, g))[LiveInvoices(d)]
           IN Spread(d, r, p) = [q EXCEPT !.rcred[r] = IF q.left > Tol THEN q.left ELSE 0]
BY DEF Spread, FoldInOrder, MapThenFoldSet, SpreadTable

\* The live invoices are finitely many ids of the table.
LEMMA LiveInvoicesFinite ==
    ASSUME NEW d, Ids(d)
    PROVE  LiveInvoices(d) \subseteq Invoices /\ IsFiniteSet(LiveInvoices(d))
BY FS_Subset, IdsAssumption DEF Ids, LiveInvoices

\* So are the live receipts.
LEMMA LiveReceiptsFinite ==
    ASSUME NEW d, Ids(d)
    PROVE  LiveReceipts(d) \subseteq Receipts /\ IsFiniteSet(LiveReceipts(d))
BY FS_Subset, IdsAssumption DEF Ids, LiveReceipts

\* The latest of some live invoices is one of them.
LEMMA InvoiceOrder ==
    ASSUME NEW d, Typed(d), NEW s \in SUBSET LiveInvoices(d), s # {}
    PROVE  Latest(s, d.date) \in s
<1>1. s \subseteq Invoices
    BY LiveInvoicesFinite DEF Typed
<1>2. IsFiniteSet(s) /\ s \subseteq Nat
    BY <1>1, FS_Subset, IdsAssumption
<1>3. \A i \in s : d.date[i] \in Nat
    BY <1>1, AmountsAssumption DEF Typed, TypedBills
<1> QED
    BY <1>2, <1>3, LatestExists

\* One receipt over the live invoices: a sequence of plans, one for each set of invoices
\* it has come to.
SpreadsBy(d, r, p, g) ==
    /\ g[{}] = [p EXCEPT !.left = d.amount[r]]
    /\ \A s \in SUBSET LiveInvoices(d) : s # {} =>
         \E i \in s : i = Latest(s, d.date) /\ g[s] = Allocate(r, i, g[s \ {i}])
    /\ LET q == g[LiveInvoices(d)]
       IN Spread(d, r, p) = [q EXCEPT !.rcred[r] = IF q.left > Tol THEN q.left ELSE 0]

\* The loop of a receipt over the invoices has a table, step by step.
LEMMA SpreadSteps ==
    ASSUME NEW d, Typed(d), NEW r \in LiveReceipts(d), NEW p \in Plans
    PROVE  \E g \in [SUBSET LiveInvoices(d) -> Plans] : SpreadsBy(d, r, p, g)
<1> DEFINE S     == LiveInvoices(d)
           start == [p EXCEPT !.left = d.amount[r]]
           last  == [s \in SUBSET S |-> Latest(s, d.date)]
           F     == [s \in SUBSET S |-> [q \in Plans |-> Allocate(r, last[s], q)]]
           G     == CHOOSE g : SpreadTable(d, r, start, g)
<1>1. IsFiniteSet(S) /\ S \subseteq Invoices
    BY LiveInvoicesFinite DEF Typed
<1>2. \A s \in SUBSET S : s # {} => last[s] \in s
    BY InvoiceOrder
<1>3. r \in Receipts /\ d.amount[r] \in Nat
    BY LiveReceiptsFinite DEF Typed, TypedRows
<1>4. start \in Plans
    BY <1>3 DEF Plans
<1>5. \A s \in SUBSET S, q \in Plans : s # {} => F[s][q] \in Plans
    <2>1. ASSUME NEW s \in SUBSET S, NEW q \in Plans, s # {}
          PROVE  F[s][q] \in Plans
        <3>1. F[s][q] = Allocate(r, last[s], q) /\ last[s] \in Invoices
            BY <1>1, <1>2, <2>1
        <3> QED
            BY <1>3, <3>1, AllocateFields
    <2> QED
        BY <2>1
<1>6. PICK h \in [SUBSET S -> Plans] : Folds(h, S, start, F, last)
    <2> HIDE DEF S, start, last, F
    <2> QED
        BY <1>1, <1>2, <1>4, <1>5, SetRecursion
<1>7. SpreadTable(d, r, start, h)
    <2>1. \A s \in SUBSET S : h[s] =
             IF s = {} THEN start ELSE Allocate(r, last[s], h[s \ {last[s]}])
        BY <1>6 DEF Folds
    <2> QED
        BY <2>1 DEF SpreadTable
<1>8. SpreadTable(d, r, start, G)
    BY <1>7
<1>9. FoldsWithin(G, S, Plans, start, F, last)
    <2>1. G[{}] = start
        BY <1>8 DEF SpreadTable
    <2>2. ASSUME NEW s \in SUBSET S, s # {}, G[s \ {last[s]}] \in Plans
          PROVE  G[s] = F[s][G[s \ {last[s]}]]
        <3>1. G[s] = Allocate(r, last[s], G[s \ {last[s]}])
            BY <1>8, <2>2 DEF SpreadTable
        <3> QED
            BY <2>2, <3>1
    <2> HIDE DEF S, start, last, F, G
    <2> QED
        BY <2>1, <2>2 DEF FoldsWithin
<1>9a. \A s \in SUBSET S : G[s] \in Plans
    <2> HIDE DEF S, start, last, F, G
    <2> QED
        BY <1>1, <1>2, <1>4, <1>5, <1>9, FoldStays
<1>10. G \in [SUBSET S -> Plans]
    BY <1>8, <1>9a DEF SpreadTable
<1>11. G[{}] = start
    BY <1>8 DEF SpreadTable
<1>12. ASSUME NEW s \in SUBSET S, s # {}
       PROVE  \E i \in s : i = Latest(s, d.date) /\ G[s] = Allocate(r, i, G[s \ {i}])
    <2>1. last[s] = Latest(s, d.date) /\ G[s] = Allocate(r, last[s], G[s \ {last[s]}])
        BY <1>8, <1>12 DEF SpreadTable
    <2> QED
        BY <1>2, <1>12, <2>1
<1>13. Spread(d, r, p) = [G[S] EXCEPT !.rcred[r] = IF G[S].left > Tol THEN G[S].left ELSE 0]
    BY SpreadIsFold
<1> HIDE DEF G
<1> QED
    BY <1>10, <1>11, <1>12, <1>13 DEF SpreadsBy

\* What a receipt r has left of its amount and what it paid, once it has come to the
\* invoices of s.
Poured(d, r, p, q, s) ==
    /\ q \in Plans
    /\ q.left + Allocated(q, r) = d.amount[r]
    /\ \A i \in Invoices : q.balance[i] + q.alloc[r][i] = p.balance[i]
    /\ \A o \in Receipts \ {r} : q.alloc[o] = p.alloc[o]
    /\ q.rcred = p.rcred
    /\ \A i \in Invoices \ s : q.alloc[r][i] = 0
    /\ q.left > 0 => \A i \in s : q.balance[i] <= Tol

\* One more invoice of that loop takes from what is left of the receipt.
LEMMA AllocatePours ==
    ASSUME NEW d, NEW r \in Receipts, NEW p \in Plans, NEW q, NEW s \in SUBSET Invoices,
           NEW i \in s, Poured(d, r, p, q, s \ {i}), d.amount[r] \in Nat
    PROVE  Poured(d, r, p, Allocate(r, i, q), s)
<1> DEFINE e == Allocate(r, i, q)
           x == Share(q, i)
<1>1. q \in Plans /\ i \in Invoices
    BY DEF Poured
<1>2. /\ e \in Plans /\ x \in Nat /\ x <= q.left /\ x <= q.balance[i]
      /\ e.left = q.left - x /\ e.rcred = q.rcred
      /\ \A j \in Invoices : e.balance[j] = IF j = i THEN q.balance[i] - x ELSE q.balance[j]
      /\ \A o \in Receipts \ {r} : e.alloc[o] = q.alloc[o]
      /\ \A j \in Invoices : e.alloc[r][j] = IF j = i THEN x ELSE q.alloc[r][j]
    BY <1>1, AllocateFields
<1>3. /\ q.left \in Nat /\ q.balance \in [Invoices -> Nat] /\ q.alloc[r] \in [Invoices -> Nat]
      /\ e.left \in Nat /\ e.balance \in [Invoices -> Nat] /\ e.alloc[r] \in [Invoices -> Nat]
      /\ p.balance \in [Invoices -> Nat]
    BY <1>1, <1>2 DEF Plans
<1>4. x = IF q.balance[i] > Tol THEN Least(q.left, q.balance[i]) ELSE 0
    BY DEF Share
<1> HIDE DEF e, x
<1>5. q.alloc[r][i] = 0
    BY <1>1 DEF Poured
<1>6. Allocated(e, r) = Allocated(q, r) + x
    <2>1. \A j \in Invoices : e.alloc[r][j] \in Int /\ q.alloc[r][j] \in Int
        BY <1>3
    <2>2. \A j \in Invoices \ {i} : e.alloc[r][j] = q.alloc[r][j]
        BY <1>2
    <2>3. SumFunctionOnSet(e.alloc[r], Invoices)
            = SumFunctionOnSet(q.alloc[r], Invoices) - q.alloc[r][i] + e.alloc[r][i]
        <3> DEFINE f == q.alloc[r]
                   h == e.alloc[r]
        <3>1. DifferAt(f, h, Invoices, i)
            BY <2>1, <2>2 DEF DifferAt
        <3> HIDE DEF f, h
        <3>2. i \in Invoices /\ IsFiniteSet(Invoices)
            BY <1>1, IdsAssumption
        <3>3. SumFunctionOnSet(h, Invoices) = SumFunctionOnSet(f, Invoices) - f[i] + h[i]
            BY <3>1, <3>2, SumUpdate
        <3> QED
            BY <3>3 DEF f, h
    <2>4. SumFunctionOnSet(q.alloc[r], Invoices) \in Int
        BY <2>1, SumInt, IdsAssumption
    <2>5. e.alloc[r][i] = x
        BY <1>1, <1>2
    <2> QED
        BY <1>2, <1>5, <2>3, <2>4, <2>5 DEF Allocated
<1>7. e.left + Allocated(e, r) = d.amount[r]
    <2>1. Allocated(q, r) \in Int
        BY <1>3, SumInt, IdsAssumption DEF Allocated
    <2>2. q.left + Allocated(q, r) = d.amount[r]
        BY DEF Poured
    <2> QED
        BY <1>2, <1>3, <1>6, <2>1, <2>2
<1>8. ASSUME NEW j \in Invoices
      PROVE  e.balance[j] + e.alloc[r][j] = p.balance[j]
    <2>1. q.balance[j] + q.alloc[r][j] = p.balance[j]
        BY DEF Poured
    <2>2. q.balance[j] \in Nat /\ p.balance[j] \in Nat
        BY <1>3
    <2>3. CASE j = i
        BY <1>2, <1>5, <2>1, <2>2, <2>3
    <2>4. CASE j # i
        BY <1>2, <2>1, <2>4
    <2> QED
        BY <2>3, <2>4
<1>9. \A j \in Invoices \ s : e.alloc[r][j] = 0
    BY <1>2 DEF Poured
<1>10. ASSUME e.left > 0, NEW j \in s
       PROVE  e.balance[j] <= Tol
    <2>1. q.left > 0 /\ Tol \in Nat
        BY <1>2, <1>3, <1>10, AmountsAssumption
    <2>2. CASE j = i
        <3>1. e.balance[i] = q.balance[i] - x /\ q.balance[i] \in Nat
            BY <1>1, <1>2, <1>3
        <3>2. x # q.left
            BY <1>2, <1>3, <1>10
        <3>3. x = q.balance[i] \/ q.balance[i] <= Tol
            BY <1>3, <1>4, <2>1, <3>1, <3>2 DEF Least
        <3> QED
            BY <1>2, <2>1, <2>2, <3>1, <3>3
    <2>3. CASE j # i
        <3>1. q.balance[j] <= Tol
            BY <2>1, <2>3 DEF Poured
        <3> QED
            BY <1>2, <2>3, <3>1
    <2> QED
        BY <2>2, <2>3
<1>11. e.rcred = p.rcred /\ \A o \in Receipts \ {r} : e.alloc[o] = p.alloc[o]
    BY <1>2 DEF Poured
<1> QED
    BY <1>2, <1>7, <1>8, <1>9, <1>10, <1>11 DEF Poured, e

\* The loop splits the receipt into what it pays and what is left.
LEMMA SpreadPours ==
    ASSUME NEW d, Typed(d), NEW r \in LiveReceipts(d), NEW p \in Plans,
           \A i \in Invoices : p.alloc[r][i] = 0
    PROVE  \E q : /\ Poured(d, r, p, q, LiveInvoices(d))
                  /\ Spread(d, r, p) =
                        [q EXCEPT !.rcred[r] = IF q.left > Tol THEN q.left ELSE 0]
<1> DEFINE S == LiveInvoices(d)
<1>0. PICK g \in [SUBSET S -> Plans] : SpreadsBy(d, r, p, g)
    BY SpreadSteps
<1>1. /\ g[{}] = [p EXCEPT !.left = d.amount[r]]
      /\ \A s \in SUBSET S : s # {} =>
           \E i \in s : i = Latest(s, d.date) /\ g[s] = Allocate(r, i, g[s \ {i}])
      /\ LET q == g[S]
         IN Spread(d, r, p) = [q EXCEPT !.rcred[r] = IF q.left > Tol THEN q.left ELSE 0]
    BY <1>0 DEF SpreadsBy
<1>2. IsFiniteSet(S) /\ S \subseteq Invoices
    BY LiveInvoicesFinite DEF Typed
<1>3. r \in Receipts /\ d.amount[r] \in Nat
    BY LiveReceiptsFinite DEF Typed, TypedRows
<1> HIDE DEF S
<1> DEFINE T == {s \in SUBSET S : Poured(d, r, p, g[s], s)}
<1>4. {} \in T
    <2> DEFINE q == g[{}]
    <2>1. /\ q \in Plans /\ q.left = d.amount[r] /\ q.balance = p.balance
          /\ q.alloc = p.alloc /\ q.rcred = p.rcred
        BY <1>1, <1>3 DEF Plans
    <2> HIDE DEF q
    <2>2. Allocated(q, r) = 0
        BY <2>1, SumZero, IdsAssumption DEF Allocated
    <2>3. \A i \in Invoices : q.balance[i] + q.alloc[r][i] = p.balance[i]
        BY <2>1 DEF Plans
    <2>4. Poured(d, r, p, q, {})
        BY <1>3, <2>1, <2>2, <2>3 DEF Poured
    <2> QED
        BY <2>4 DEF q
<1>5. ASSUME NEW s \in SUBSET S, s # {}, \A x \in s : s \ {x} \in T
      PROVE  s \in T
    <2>1. PICK i \in s : g[s] = Allocate(r, i, g[s \ {i}])
        BY <1>1, <1>5
    <2>2. Poured(d, r, p, g[s \ {i}], s \ {i})
        BY <1>5
    <2>3. Poured(d, r, p, g[s], s)
        BY <1>2, <1>3, <2>1, <2>2, AllocatePours
    <2> QED
        BY <2>3
<1>6. T \subseteq SUBSET S
    OBVIOUS
<1> HIDE DEF T
<1>7. T = SUBSET S
    BY <1>2, <1>4, <1>5, <1>6, SubsetInduction
<1>8. Poured(d, r, p, g[S], S)
    BY <1>7 DEF T
<1> QED
    BY <1>1, <1>8 DEF S

-----------------------------------------------------------------------------
(* All receipts, one after another                                         *)

\* Setting a receipt's credit changes nothing else of a plan.
LEMMA SetReceiptCredit ==
    ASSUME NEW q \in Plans, NEW r \in Receipts, NEW x \in Nat
    PROVE  LET e == [q EXCEPT !.rcred[r] = x]
           IN /\ e \in Plans /\ e.left = q.left /\ e.balance = q.balance /\ e.alloc = q.alloc
              /\ e.rcred[r] = x /\ \A o \in Receipts \ {r} : e.rcred[o] = q.rcred[o]
<1> DEFINE c == [q.rcred EXCEPT ![r] = x]
           e == [q EXCEPT !.rcred[r] = x]
<1>1. c \in [Receipts -> Nat] /\ c[r] = x /\ \A o \in Receipts \ {r} : c[o] = q.rcred[o]
    BY DEF Plans
<1>2. e = [q EXCEPT !.rcred = c]
    BY DEF Plans
<1> HIDE DEF e, c
<1>3. e \in Plans /\ e.left = q.left /\ e.balance = q.balance /\ e.alloc = q.alloc
      /\ e.rcred = c
    BY <1>1, <1>2 DEF Plans
<1> QED
    BY <1>1, <1>3 DEF e

\* What is left is a credit, unless it is no more than the tolerance.
LEMMA LeftIsCredit ==
    ASSUME NEW q \in Plans
    PROVE  LET x == IF q.left > Tol THEN q.left ELSE 0
           IN x \in Nat /\ x <= q.left /\ q.left <= x + Tol /\ (x > 0 => q.left > 0)
BY AmountsAssumption DEF Plans

\* It keeps the types of the plan.
LEMMA SpreadTyped ==
    ASSUME NEW d, Typed(d), NEW r \in LiveReceipts(d), NEW p \in Plans
    PROVE  Spread(d, r, p) \in Plans
<1>1. PICK g \in [SUBSET LiveInvoices(d) -> Plans] : SpreadsBy(d, r, p, g)
    BY SpreadSteps
<1> DEFINE q == g[LiveInvoices(d)]
           x == IF q.left > Tol THEN q.left ELSE 0
<1>2. q \in Plans /\ r \in Receipts
    BY LiveReceiptsFinite DEF Typed
<1>3. Spread(d, r, p) = [q EXCEPT !.rcred[r] = x]
    BY <1>1 DEF SpreadsBy
<1> HIDE DEF q
<1>4. x \in Nat
    BY <1>2, LeftIsCredit
<1> HIDE DEF x
<1> QED
    BY <1>2, <1>3, <1>4, SetReceiptCredit

\* Changing the row of one receipt changes what its invoice was paid by the difference.
LEMMA PaidToUpdate ==
    ASSUME NEW a \in [Receipts -> [Invoices -> Nat]], NEW b \in [Receipts -> [Invoices -> Nat]],
           NEW r \in Receipts, NEW i \in Invoices,
           \A o \in Receipts \ {r} : b[o][i] = a[o][i]
    PROVE  PaidTo(b, i) = PaidTo(a, i) - a[r][i] + b[r][i]
<1> DEFINE f == [o \in Receipts |-> a[o][i]]
           g == [o \in Receipts |-> b[o][i]]
<1>1. DifferAt(f, g, Receipts, r)
    BY DEF DifferAt
<1>1a. f[r] = a[r][i] /\ g[r] = b[r][i]
    OBVIOUS
<1>2. PaidTo(a, i) = SumFunctionOnSet(f, Receipts) /\ PaidTo(b, i) = SumFunctionOnSet(g, Receipts)
    BY DEF PaidTo, SumFunction
<1> HIDE DEF f, g
<1>3. IsFiniteSet(Receipts)
    BY IdsAssumption
<1>4. SumFunctionOnSet(g, Receipts) = SumFunctionOnSet(f, Receipts) - f[r] + g[r]
    BY <1>1, <1>3, SumUpdate
<1> QED
    BY <1>1a, <1>2, <1>4

\* What the receipts of s, one by one, make of the bills: each pays the live invoices or
\* is credit, up to the tolerance, and is credit only if they owe nothing.
Filled(d, p, s) ==
    /\ p \in Plans
    /\ \A r \in s : /\ Allocated(p, r) + p.rcred[r] <= d.amount[r]
                    /\ d.amount[r] <= Allocated(p, r) + p.rcred[r] + Tol
    /\ \A r \in Receipts \ s : p.rcred[r] = 0 /\ \A i \in Invoices : p.alloc[r][i] = 0
    /\ \A r \in Receipts : \A i \in Invoices \ LiveInvoices(d) : p.alloc[r][i] = 0
    /\ \A i \in Invoices : p.balance[i] + PaidTo(p.alloc, i) = d.total[i]
    /\ (\E r \in s : p.rcred[r] > 0) => \A i \in LiveInvoices(d) : p.balance[i] <= Tol

\* One more receipt of the rebuild leaves the plan filled.
LEMMA SpreadFills ==
    ASSUME NEW d, Typed(d), NEW s \in SUBSET LiveReceipts(d), NEW r \in s, NEW p,
           Filled(d, p, s \ {r})
    PROVE  Filled(d, Spread(d, r, p), s)
<1> DEFINE L == LiveInvoices(d)
<1>1. r \in LiveReceipts(d) /\ r \in Receipts /\ s \subseteq Receipts
    BY LiveReceiptsFinite DEF Typed
<1>2. p \in Plans /\ \A i \in Invoices : p.alloc[r][i] = 0
    BY <1>1 DEF Filled
<1>3. PICK q : /\ Poured(d, r, p, q, L)
               /\ Spread(d, r, p) = [q EXCEPT !.rcred[r] = IF q.left > Tol THEN q.left ELSE 0]
    BY <1>1, <1>2, SpreadPours
<1> DEFINE x == IF q.left > Tol THEN q.left ELSE 0
           e == Spread(d, r, p)
<1>4. q \in Plans
    BY <1>3 DEF Poured
<1>5. x \in Nat /\ x <= q.left /\ q.left <= x + Tol /\ (x > 0 => q.left > 0)
    BY <1>4, LeftIsCredit
<1>6. e = [q EXCEPT !.rcred[r] = x]
    BY <1>3
<1> HIDE DEF x, e
<1>7. /\ e \in Plans /\ e.balance = q.balance /\ e.alloc = q.alloc
      /\ e.rcred[r] = x /\ \A o \in Receipts \ {r} : e.rcred[o] = q.rcred[o]
    BY <1>1, <1>4, <1>5, <1>6, SetReceiptCredit
<1>8. ASSUME NEW o \in s
      PROVE  /\ Allocated(e, o) + e.rcred[o] <= d.amount[o]
             /\ d.amount[o] <= Allocated(e, o) + e.rcred[o] + Tol
    <2>1. CASE o = r
        <3>1. Allocated(e, r) = Allocated(q, r)
            BY <1>7 DEF Allocated
        <3>2. q.left + Allocated(q, r) = d.amount[r]
            BY <1>3 DEF Poured
        <3>3. Allocated(q, r) \in Nat /\ q.left \in Nat /\ Tol \in Nat
            BY <1>1, <1>4, AllocatedIsNat, AmountsAssumption DEF Plans
        <3> HIDE <1>3
        <3>4. e.rcred[o] = x /\ Allocated(e, o) = Allocated(q, r) /\ d.amount[o] = d.amount[r]
            BY <1>7, <2>1, <3>1
        <3>5. Allocated(q, r) + x <= q.left + Allocated(q, r)
              /\ q.left + Allocated(q, r) <= Allocated(q, r) + x + Tol
            BY <1>5, <3>3
        <3> QED
            BY <3>2, <3>4, <3>5
    <2>2. CASE o # r
        <3>1. o \in s \ {r} /\ o \in Receipts \ {r}
            BY <1>1, <2>2
        <3>2. e.alloc[o] = p.alloc[o] /\ e.rcred[o] = p.rcred[o]
            BY <1>3, <1>7, <3>1 DEF Poured
        <3>3. Allocated(e, o) = Allocated(p, o)
            BY <3>2 DEF Allocated
        <3> QED
            BY <3>1, <3>2, <3>3 DEF Filled
    <2> QED
        BY <2>1, <2>2
<1>9. ASSUME NEW o \in Receipts \ s
      PROVE  e.rcred[o] = 0 /\ \A i \in Invoices : e.alloc[o][i] = 0
    <2>1. o \in Receipts \ {r} /\ o \in Receipts \ (s \ {r})
        OBVIOUS
    <2>2. e.alloc[o] = p.alloc[o] /\ e.rcred[o] = p.rcred[o]
        BY <1>3, <1>7, <2>1 DEF Poured
    <2> QED
        BY <2>1, <2>2 DEF Filled
<1>10. ASSUME NEW o \in Receipts, NEW i \in Invoices \ L
       PROVE  e.alloc[o][i] = 0
    <2>1. CASE o = r
        BY <1>3, <1>7, <2>1 DEF Poured
    <2>2. CASE o # r
        BY <1>3, <1>7, <2>2 DEF Poured, Filled
    <2> QED
        BY <2>1, <2>2
<1>11. ASSUME NEW i \in Invoices
       PROVE  e.balance[i] + PaidTo(e.alloc, i) = d.total[i]
    <2>1. /\ p.alloc \in [Receipts -> [Invoices -> Nat]]
          /\ e.alloc \in [Receipts -> [Invoices -> Nat]]
          /\ \A o \in Receipts \ {r} : e.alloc[o][i] = p.alloc[o][i]
        BY <1>2, <1>3, <1>7 DEF Poured, Plans
    <2>2. PaidTo(e.alloc, i) = PaidTo(p.alloc, i) - p.alloc[r][i] + e.alloc[r][i]
        BY <1>1, <2>1, PaidToUpdate
    <2>3. e.balance[i] + e.alloc[r][i] = p.balance[i]
        BY <1>3, <1>7 DEF Poured
    <2>4. p.balance[i] + PaidTo(p.alloc, i) = d.total[i]
        BY DEF Filled
    <2>5. /\ PaidTo(p.alloc, i) \in Nat /\ e.alloc[r][i] \in Nat
          /\ e.balance[i] \in Nat /\ p.balance[i] \in Nat
        BY <1>1, <1>2, <1>7, <2>1, PaidToIsNat DEF Plans
    <2>6. p.alloc[r][i] = 0
        BY <1>2
    <2> HIDE <1>3
    <2>7. PaidTo(e.alloc, i) = PaidTo(p.alloc, i) + e.alloc[r][i]
        BY <2>2, <2>5, <2>6
    <2> QED
        BY <2>3, <2>4, <2>5, <2>7
<1>12. ASSUME NEW o \in s, e.rcred[o] > 0, NEW i \in L
       PROVE  e.balance[i] <= Tol
    <2>0. i \in Invoices
        BY LiveInvoicesFinite DEF Typed
    <2>1. CASE o = r
        <3>1. q.left > 0
            BY <1>5, <1>7, <1>12, <2>1
        <3> QED
            BY <1>3, <1>7, <3>1 DEF Poured
    <2>2. CASE o # r
        <3>1. o \in s \ {r} /\ e.rcred[o] = p.rcred[o]
            BY <1>1, <1>3, <1>7, <2>2 DEF Poured
        <3>2. p.rcred[o] > 0
            BY <1>12, <3>1
        <3>3. p.balance[i] <= Tol
            BY <3>1, <3>2 DEF Filled
        <3>4. e.balance[i] + e.alloc[r][i] = p.balance[i]
            BY <1>3, <1>7, <2>0 DEF Poured
        <3>5. e.balance[i] \in Nat /\ e.alloc[r][i] \in Nat /\ p.balance[i] \in Nat
            BY <1>1, <1>2, <1>7, <2>0 DEF Plans
        <3> QED
            BY <3>3, <3>4, <3>5, AmountsAssumption
    <2> QED
        BY <2>1, <2>2
<1>13. Filled(d, e, s)
    BY <1>7, <1>8, <1>9, <1>10, <1>11, <1>12 DEF Filled
<1> QED
    BY <1>13 DEF e

FifoTable(d, g) ==
    g = [s \in SUBSET LiveReceipts(d) |->
           IF s = {} THEN Unpaid(d)
           ELSE Spread(d, Latest(s, [r \in Receipts |-> r]),
                       g[s \ {Latest(s, [r \in Receipts |-> r])}])]

\* The loop over the receipts as a table.
LEMMA FifoIsFold ==
    ASSUME NEW d
    PROVE  FifoPlan(d) = (CHOOSE g : FifoTable(d, g))[LiveReceipts(d)]
BY DEF FifoPlan, FoldInOrder, MapThenFoldSet, FifoTable

\* The latest of some live receipts is one of them.
LEMMA ReceiptOrder ==
    ASSUME NEW d, Typed(d), NEW s \in SUBSET LiveReceipts(d), s # {}
    PROVE  Latest(s, [r \in Receipts |-> r]) \in s
<1> DEFINE key == [r \in Receipts |-> r]
<1>1. s \subseteq Receipts
    BY LiveReceiptsFinite DEF Typed
<1>2. IsFiniteSet(s) /\ s \subseteq Nat
    BY <1>1, FS_Subset, IdsAssumption
<1>3. \A r \in s : key[r] \in Nat
    BY <1>1, <1>2
<1> HIDE DEF key
<1>4. Latest(s, key) \in s
    BY <1>2, <1>3, LatestExists
<1> QED
    BY <1>4 DEF key

\* Before the first receipt nothing is paid and everything owed.
LEMMA UnpaidFills ==
    ASSUME NEW d, Typed(d)
    PROVE  Filled(d, Unpaid(d), {})
<1> DEFINE p == Unpaid(d)
<1>1. /\ p \in Plans /\ p.balance = d.total
      /\ \A r \in Receipts : p.rcred[r] = 0 /\ \A i \in Invoices : p.alloc[r][i] = 0
    BY DEF Unpaid, Plans, Typed, TypedBills
<1> HIDE DEF p
<1>2. ASSUME NEW i \in Invoices
      PROVE  p.balance[i] + PaidTo(p.alloc, i) = d.total[i]
    <2> DEFINE f == [r \in Receipts |-> p.alloc[r][i]]
    <2>1. \A r \in Receipts : f[r] = 0
        BY <1>1
    <2>2. PaidTo(p.alloc, i) = SumFunctionOnSet(f, Receipts)
        BY DEF PaidTo, SumFunction
    <2> HIDE DEF f
    <2>3. PaidTo(p.alloc, i) = 0
        BY <2>1, <2>2, SumZero, IdsAssumption
    <2>4. d.total[i] \in Nat
        BY DEF Typed, TypedBills
    <2> QED
        BY <1>1, <2>3, <2>4
<1>3. Filled(d, p, {})
    BY <1>1, <1>2 DEF Filled
<1> QED
    BY <1>3 DEF p

\* The receipts one by one: a sequence of plans, one for each set of receipts.
FifoBy(d, g) ==
    /\ g[{}] = Unpaid(d)
    /\ \A s \in SUBSET LiveReceipts(d) : s # {} =>
         \E r \in s : r = Latest(s, [o \in Receipts |-> o]) /\ g[s] = Spread(d, r, g[s \ {r}])
    /\ FifoPlan(d) = g[LiveReceipts(d)]

\* The loop over the receipts has a table, step by step.
LEMMA FifoSteps ==
    ASSUME NEW d, Typed(d)
    PROVE  \E g \in [SUBSET LiveReceipts(d) -> Plans] : FifoBy(d, g)
<1> DEFINE R     == LiveReceipts(d)
           start == Unpaid(d)
           last  == [s \in SUBSET R |-> Latest(s, [r \in Receipts |-> r])]
           F     == [s \in SUBSET R |-> [q \in Plans |-> Spread(d, last[s], q)]]
           G     == CHOOSE g : FifoTable(d, g)
<1>1. IsFiniteSet(R) /\ R \subseteq Receipts
    BY LiveReceiptsFinite DEF Typed
<1>2. \A s \in SUBSET R : s # {} => last[s] \in s
    BY ReceiptOrder
<1>3. start \in Plans
    BY UnpaidFills DEF Filled
<1>4. \A s \in SUBSET R, q \in Plans : s # {} => F[s][q] \in Plans
    <2>1. ASSUME NEW s \in SUBSET R, NEW q \in Plans, s # {}
          PROVE  F[s][q] \in Plans
        <3>1. F[s][q] = Spread(d, last[s], q) /\ last[s] \in R
            BY <1>2, <2>1
        <3> QED
            BY <3>1, SpreadTyped
    <2> QED
        BY <2>1
<1>5. PICK h \in [SUBSET R -> Plans] : Folds(h, R, start, F, last)
    <2> HIDE DEF R, start, last, F
    <2> QED
        BY <1>1, <1>2, <1>3, <1>4, SetRecursion
<1>6. FifoTable(d, h)
    <2>1. \A s \in SUBSET R : h[s] =
             IF s = {} THEN start ELSE Spread(d, last[s], h[s \ {last[s]}])
        BY <1>5 DEF Folds
    <2> QED
        BY <2>1 DEF FifoTable
<1>7. FifoTable(d, G)
    BY <1>6
<1>7a. FoldsWithin(G, R, Plans, start, F, last)
    <2>1. G[{}] = start
        BY <1>7 DEF FifoTable
    <2>2. ASSUME NEW s \in SUBSET R, s # {}, G[s \ {last[s]}] \in Plans
          PROVE  G[s] = F[s][G[s \ {last[s]}]]
        <3>1. G[s] = Spread(d, last[s], G[s \ {last[s]}])
            BY <1>7, <2>2 DEF FifoTable
        <3> QED
            BY <2>2, <3>1
    <2> HIDE DEF R, start, last, F, G
    <2> QED
        BY <2>1, <2>2 DEF FoldsWithin
<1>7b. \A s \in SUBSET R : G[s] \in Plans
    <2> HIDE DEF R, start, last, F, G
    <2> QED
        BY <1>1, <1>2, <1>3, <1>4, <1>7a, FoldStays
<1>7c. G \in [SUBSET R -> Plans]
    BY <1>7, <1>7b DEF FifoTable
<1>8. G[{}] = start
    BY <1>7 DEF FifoTable
<1>9. ASSUME NEW s \in SUBSET R, s # {}
      PROVE  \E r \in s : r = Latest(s, [o \in Receipts |-> o]) /\ G[s] = Spread(d, r, G[s \ {r}])
    <2>1. last[s] = Latest(s, [o \in Receipts |-> o]) /\ G[s] = Spread(d, last[s], G[s \ {last[s]}])
        BY <1>7, <1>9 DEF FifoTable
    <2> QED
        BY <1>2, <1>9, <2>1
<1>10. FifoPlan(d) = G[R]
    BY FifoIsFold
<1> HIDE DEF G
<1> QED
    BY <1>7c, <1>8, <1>9, <1>10 DEF FifoBy

\* The plan of a rebuild places all the money of the live receipts.
LEMMA FifoPlanFills ==
    ASSUME NEW d, Typed(d)
    PROVE  Filled(d, FifoPlan(d), LiveReceipts(d))
<1> DEFINE R == LiveReceipts(d)
<1>1. IsFiniteSet(R)
    BY LiveReceiptsFinite DEF Typed
<1>2. PICK G \in [SUBSET R -> Plans] : FifoBy(d, G)
    BY FifoSteps
<1>3. G[{}] = Unpaid(d)
    BY <1>2 DEF FifoBy
<1>4. ASSUME NEW s \in SUBSET R, s # {}
      PROVE  \E r \in s : G[s] = Spread(d, r, G[s \ {r}])
    BY <1>2, <1>4 DEF FifoBy
<1>5. FifoPlan(d) = G[R]
    BY <1>2 DEF FifoBy
<1> HIDE DEF R
<1> DEFINE T == {s \in SUBSET R : Filled(d, G[s], s)}
<1>6. {} \in T
    BY <1>3, UnpaidFills
<1>7. ASSUME NEW s \in SUBSET R, s # {}, \A x \in s : s \ {x} \in T
       PROVE  s \in T
    <2>1. PICK r \in s : G[s] = Spread(d, r, G[s \ {r}])
        BY <1>4, <1>7
    <2>2. Filled(d, G[s \ {r}], s \ {r})
        BY <1>7
    <2>3. Filled(d, G[s], s)
        BY <2>1, <2>2, SpreadFills DEF R
    <2> QED
        BY <2>3
<1>8. T \subseteq SUBSET R
    OBVIOUS
<1> HIDE DEF T
<1>9. T = SUBSET R
    BY <1>1, <1>6, <1>7, <1>8, SubsetInduction
<1>10. Filled(d, G[R], R)
    BY <1>9 DEF T
<1> QED
    BY <1>5, <1>10 DEF R

-----------------------------------------------------------------------------
(* A rebuild keeps the types                                               *)

\* The database of a rebuild before the balances are recalculated.
Placed(d) ==
    LET plan == FifoPlan(d)
        live == LiveReceipts(d)
    IN [DeleteDerived(d) EXCEPT
          !.credit = SumFunctionOnSet(plan.rcred, live),
          !.alloc  = [r \in Receipts |-> [i \in Invoices |->
                        IF r \in live /\ i \in LiveInvoices(d)
                        THEN plan.alloc[r][i] ELSE @[r][i]]],
          !.rcred  = [r \in Receipts |-> IF r \in live THEN plan.rcred[r] ELSE @[r]]]

\* A rebuild places the plan, recalculates and verifies.
LEMMA RebuildIsPlaced ==
    ASSUME NEW d
    PROVE  Rebuild(d) = VerifyCredit(Recalculate(Placed(d), LiveInvoices(d)))
BY DEF Rebuild, Placed

\* What deleting the derived rows leaves.
LEMMA DeleteDerivedFields ==
    ASSUME NEW d, DOMAIN d = Columns
    PROVE  LET e == DeleteDerived(d)
           IN /\ SameIds(d, e) /\ SameBills(d, e) /\ SameCaches(d, e) /\ e.amount = d.amount
              /\ e.calloc = {c \in d.calloc : c.inv \notin LiveInvoices(d)}
              /\ e.hasCredit = TRUE /\ e.credited = [i \in Invoices |-> 0]
              /\ e.alloc = [r \in Receipts |-> IF r \in LiveReceipts(d)
                                               THEN [i \in Invoices |-> 0] ELSE d.alloc[r]]
              /\ e.rcred = [r \in Receipts |-> IF r \in LiveReceipts(d) THEN 0 ELSE d.rcred[r]]
BY DEF DeleteDerived, SameIds, SameBills, SameCaches, Columns

\* What placing the plan writes over that.
LEMMA PlacedFrame ==
    ASSUME NEW d, DOMAIN d = Columns
    PROVE  LET c    == DeleteDerived(d)
               e    == Placed(d)
               plan == FifoPlan(d)
               live == LiveReceipts(d)
           IN /\ SameIds(c, e) /\ SameBills(c, e) /\ SameCaches(c, e) /\ e.amount = c.amount
              /\ e.calloc = c.calloc /\ e.hasCredit = c.hasCredit /\ e.credited = c.credited
              /\ e.credit = SumFunctionOnSet(plan.rcred, live)
              /\ e.alloc = [r \in Receipts |-> [i \in Invoices |->
                              IF r \in live /\ i \in LiveInvoices(d)
                              THEN plan.alloc[r][i] ELSE c.alloc[r][i]]]
              /\ e.rcred = [r \in Receipts |->
                              IF r \in live THEN plan.rcred[r] ELSE c.rcred[r]]
<1> DEFINE c == DeleteDerived(d)
           e == Placed(d)
<1>1. DOMAIN c = Columns
    BY DeleteDerivedFields DEF SameIds
<1>2. e = [c EXCEPT
             !.credit = SumFunctionOnSet(FifoPlan(d).rcred, LiveReceipts(d)),
             !.alloc  = [r \in Receipts |-> [i \in Invoices |->
                           IF r \in LiveReceipts(d) /\ i \in LiveInvoices(d)
                           THEN FifoPlan(d).alloc[r][i] ELSE @[r][i]]],
             !.rcred  = [r \in Receipts |->
                           IF r \in LiveReceipts(d) THEN FifoPlan(d).rcred[r] ELSE @[r]]]
    BY DEF Placed
<1> HIDE DEF c, e
<1>3. /\ SameIds(c, e) /\ SameBills(c, e) /\ SameCaches(c, e) /\ e.amount = c.amount
      /\ e.calloc = c.calloc /\ e.hasCredit = c.hasCredit /\ e.credited = c.credited
      /\ e.credit = SumFunctionOnSet(FifoPlan(d).rcred, LiveReceipts(d))
      /\ e.alloc = [r \in Receipts |-> [i \in Invoices |->
                      IF r \in LiveReceipts(d) /\ i \in LiveInvoices(d)
                      THEN FifoPlan(d).alloc[r][i] ELSE c.alloc[r][i]]]
      /\ e.rcred = [r \in Receipts |->
                      IF r \in LiveReceipts(d) THEN FifoPlan(d).rcred[r] ELSE c.rcred[r]]
    BY <1>1, <1>2 DEF SameIds, SameBills, SameCaches, Columns
<1> QED
    BY <1>3 DEF c, e

\* Live receipts have the rows of the plan, and the others keep theirs.
LEMMA PlacedFields ==
    ASSUME NEW d, Typed(d)
    PROVE  LET e    == Placed(d)
               plan == FifoPlan(d)
               live == LiveReceipts(d)
           IN /\ SameIds(d, e) /\ SameBills(d, e) /\ SameCaches(d, e) /\ e.amount = d.amount
              /\ e.calloc = {c \in d.calloc : c.inv \notin LiveInvoices(d)}
              /\ e.hasCredit = TRUE /\ e.credited = [i \in Invoices |-> 0]
              /\ e.credit = SumFunctionOnSet(plan.rcred, live)
              /\ e.alloc = [r \in Receipts |-> IF r \in live THEN plan.alloc[r] ELSE d.alloc[r]]
              /\ e.rcred = [r \in Receipts |-> IF r \in live THEN plan.rcred[r] ELSE d.rcred[r]]
<1> DEFINE c == DeleteDerived(d)
           e == Placed(d)
           plan == FifoPlan(d)
           live == LiveReceipts(d)
           L == LiveInvoices(d)
<1>1. DOMAIN d = Columns
    BY DEF Typed, Ids
<1>2. /\ SameIds(d, c) /\ SameBills(d, c) /\ SameCaches(d, c) /\ c.amount = d.amount
      /\ c.calloc = {x \in d.calloc : x.inv \notin L}
      /\ c.hasCredit = TRUE /\ c.credited = [i \in Invoices |-> 0]
      /\ c.alloc = [r \in Receipts |-> IF r \in live THEN [i \in Invoices |-> 0] ELSE d.alloc[r]]
      /\ c.rcred = [r \in Receipts |-> IF r \in live THEN 0 ELSE d.rcred[r]]
    BY <1>1, DeleteDerivedFields
<1>3. /\ SameIds(c, e) /\ SameBills(c, e) /\ SameCaches(c, e) /\ e.amount = c.amount
      /\ e.calloc = c.calloc /\ e.hasCredit = c.hasCredit /\ e.credited = c.credited
      /\ e.credit = SumFunctionOnSet(plan.rcred, live)
      /\ e.alloc = [r \in Receipts |-> [i \in Invoices |->
                      IF r \in live /\ i \in L THEN plan.alloc[r][i] ELSE c.alloc[r][i]]]
      /\ e.rcred = [r \in Receipts |-> IF r \in live THEN plan.rcred[r] ELSE c.rcred[r]]
    BY <1>1, PlacedFrame
<1>4. Filled(d, plan, live)
    BY FifoPlanFills
<1> HIDE DEF c, e, plan, live, L
<1>5. /\ \A r \in Receipts : plan.alloc[r] \in [Invoices -> Nat] /\ d.alloc[r] \in [Invoices -> Nat]
      /\ \A r \in Receipts : \A i \in Invoices \ L : plan.alloc[r][i] = 0
    BY <1>4 DEF Filled, Plans, Typed, TypedRows, L
<1>6. ASSUME NEW r \in Receipts
      PROVE  e.alloc[r] = IF r \in live THEN plan.alloc[r] ELSE d.alloc[r]
    <2>1. e.alloc[r] = [i \in Invoices |->
                          IF r \in live /\ i \in L THEN plan.alloc[r][i] ELSE c.alloc[r][i]]
        BY <1>3
    <2>2. CASE r \in live
        <3>1. \A i \in Invoices : c.alloc[r][i] = 0
            BY <1>2, <2>2
        <3>2. plan.alloc[r] = [i \in Invoices |-> plan.alloc[r][i]]
            BY <1>5
        <3>3. \A i \in Invoices : e.alloc[r][i] = plan.alloc[r][i]
            BY <1>5, <2>1, <2>2, <3>1
        <3>4. e.alloc[r] = [i \in Invoices |-> e.alloc[r][i]]
            BY <2>1
        <3> QED
            BY <2>2, <3>2, <3>3, <3>4
    <2>3. CASE r \notin live
        <3>1. c.alloc[r] = d.alloc[r]
            BY <1>2, <2>3
        <3>2. d.alloc[r] = [i \in Invoices |-> d.alloc[r][i]]
            BY <1>5
        <3> QED
            BY <2>1, <2>3, <3>1, <3>2
    <2> QED
        BY <2>2, <2>3
<1>7. e.alloc = [r \in Receipts |-> IF r \in live THEN plan.alloc[r] ELSE d.alloc[r]]
    <2>1. e.alloc = [r \in Receipts |-> e.alloc[r]]
        BY <1>3
    <2> QED
        BY <1>6, <2>1
<1>8. e.rcred = [r \in Receipts |-> IF r \in live THEN plan.rcred[r] ELSE d.rcred[r]]
    BY <1>2, <1>3
<1>9. SameIds(d, e) /\ SameBills(d, e) /\ SameCaches(d, e) /\ e.amount = d.amount
    BY <1>2, <1>3 DEF SameIds, SameBills, SameCaches
<1>10. /\ e.calloc = {x \in d.calloc : x.inv \notin L}
       /\ e.hasCredit = TRUE /\ e.credited = [i \in Invoices |-> 0]
    BY <1>2, <1>3
<1> QED
    BY <1>3, <1>7, <1>8, <1>9, <1>10 DEF e, plan, live, L

\* Placing the plan keeps the types.
LEMMA PlacedTyped ==
    ASSUME NEW d, Typed(d)
    PROVE  Typed(Placed(d))
<1> DEFINE e == Placed(d)
           plan == FifoPlan(d)
           live == LiveReceipts(d)
<1>1. /\ SameIds(d, e) /\ SameBills(d, e) /\ SameCaches(d, e) /\ e.amount = d.amount
      /\ e.calloc = {c \in d.calloc : c.inv \notin LiveInvoices(d)}
      /\ e.hasCredit = TRUE /\ e.credited = [i \in Invoices |-> 0]
      /\ e.credit = SumFunctionOnSet(plan.rcred, live)
      /\ e.alloc = [r \in Receipts |-> IF r \in live THEN plan.alloc[r] ELSE d.alloc[r]]
      /\ e.rcred = [r \in Receipts |-> IF r \in live THEN plan.rcred[r] ELSE d.rcred[r]]
    BY PlacedFields
<1>2. plan \in Plans
    BY FifoPlanFills DEF Filled
<1>3. live \subseteq Receipts /\ IsFiniteSet(live)
    BY LiveReceiptsFinite DEF Typed
<1> HIDE DEF e, plan, live
<1>3a. /\ plan.alloc \in [Receipts -> [Invoices -> Nat]] /\ plan.rcred \in [Receipts -> Nat]
       /\ d.alloc \in [Receipts -> [Invoices -> Nat]] /\ d.rcred \in [Receipts -> Nat]
    BY <1>2 DEF Plans, Typed, TypedRows
<1>4a. e.alloc \in [Receipts -> [Invoices -> Nat]]
    <2>1. e.alloc = [r \in Receipts |-> IF r \in live THEN plan.alloc[r] ELSE d.alloc[r]]
        BY <1>1
    <2> HIDE <1>1
    <2>2. \A r \in Receipts : e.alloc[r] \in [Invoices -> Nat]
        BY <1>3a, <2>1
    <2> QED
        BY <2>1, <2>2
<1>4b. e.rcred \in [Receipts -> Nat]
    <2>1. e.rcred = [r \in Receipts |-> IF r \in live THEN plan.rcred[r] ELSE d.rcred[r]]
        BY <1>1
    <2> QED
        BY <1>3a, <2>1
<1>4. e.alloc \in [Receipts -> [Invoices -> Nat]] /\ e.rcred \in [Receipts -> Nat]
    BY <1>4a, <1>4b
<1>5. \A r \in live : plan.rcred[r] \in Nat
    BY <1>2, <1>3 DEF Plans
<1>6. e.credit \in Nat
    BY <1>1, <1>3, <1>5, SumNat
<1>7. e.calloc \subseteq CreditRows /\ IsFiniteSet(e.calloc)
    BY <1>1, FS_Subset DEF Typed, TypedRows
<1>8. TypedRows(e)
    BY <1>1, <1>4, <1>7 DEF Typed, TypedRows
<1>8a. e.hasCredit \in BOOLEAN
    BY <1>1
<1>8b. e.credited \in [Invoices -> Nat]
    BY <1>1
<1>9. TypedCredit(e)
    BY <1>6, <1>8a, <1>8b DEF TypedCredit
<1>10. Ids(e)
    BY <1>1, <1>4 DEF Typed, Ids, SameIds
<1>11. TypedBills(e) /\ TypedCaches(e)
    BY <1>1 DEF Typed, TypedBills, TypedCaches, SameBills, SameCaches
<1> QED
    BY <1>8, <1>9, <1>10, <1>11 DEF Typed, e

\* A rebuild keeps the types and changes no bill.
LEMMA RebuildTyped ==
    ASSUME NEW d, Typed(d)
    PROVE  LET e == Rebuild(d)
               c == Placed(d)
           IN /\ Typed(e) /\ SameIds(d, e) /\ SameBills(c, e) /\ SameReceipts(c, e)
              /\ e.calloc = c.calloc
<1> DEFINE c == Placed(d)
           b == Recalculate(c, LiveInvoices(d))
           e == VerifyCredit(b)
<1>0. Rebuild(d) = e
    BY RebuildIsPlaced
<1>1. Typed(c) /\ SameIds(d, c) /\ DOMAIN c = Columns
    BY PlacedTyped, PlacedFields DEF Typed, Ids
<1> HIDE DEF c
<1>2. /\ Typed(b) /\ SameIds(c, b) /\ SameBills(c, b) /\ SameReceipts(c, b)
      /\ b.calloc = c.calloc
    BY <1>1, RecalculateTyped, RecalculateFrame
<1> HIDE DEF b
<1>3. DOMAIN b = Columns
    BY <1>2 DEF Typed, Ids
<1>4. /\ Typed(e) /\ SameIds(b, e) /\ SameBills(b, e) /\ SameReceipts(b, e)
      /\ e.calloc = b.calloc
    BY <1>2, <1>3, VerifyCreditTyped, VerifyCreditFrame
<1> HIDE DEF e
<1>5. SameIds(d, e) /\ SameBills(c, e) /\ SameReceipts(c, e) /\ e.calloc = c.calloc
    BY <1>1, <1>2, <1>4 DEF SameIds, SameBills, SameReceipts
<1> QED
    BY <1>0, <1>4, <1>5 DEF c

-----------------------------------------------------------------------------
(* The operations on invoices keep the types                               *)

\* Inserting an invoice keeps the types.
LEMMA InsertedTyped ==
    ASSUME NEW d, Typed(d), NEW i \in Invoices, NEW t \in Terms, NEW net \in Nat,
           NEW date \in Dates, NEW due \in Dates
    PROVE  LET e == Inserted(d, i, t, net, date, due)
           IN /\ Typed(e) /\ SameReceipts(d, e)
              /\ e.invoices = d.invoices \union {i} /\ e.voidedInvoices = d.voidedInvoices
              /\ e.receipts = d.receipts /\ e.voidedReceipts = d.voidedReceipts
<1> DEFINE status == StatusOf(FALSE, net)
           e == [d EXCEPT
                   !.invoices = @ \union {i},
                   !.term[i] = t, !.date[i] = date, !.due[i] = due,
                   !.total[i] = net, !.paid[i] = 0, !.balance[i] = net,
                   !.status[i] = status]
<1>1. DOMAIN d = Columns
    BY DEF Typed, Ids
<1>2. status \in Statuses
    BY DEF StatusOf, Statuses
<1> HIDE DEF status
<1>3. /\ DOMAIN e = Columns
      /\ e.invoices = d.invoices \union {i} /\ e.voidedInvoices = d.voidedInvoices
      /\ e.receipts = d.receipts /\ e.voidedReceipts = d.voidedReceipts
      /\ SameReceipts(d, e) /\ SameCredit(d, e) /\ e.calloc = d.calloc
      /\ e.term = [d.term EXCEPT ![i] = t] /\ e.date = [d.date EXCEPT ![i] = date]
      /\ e.due = [d.due EXCEPT ![i] = due] /\ e.total = [d.total EXCEPT ![i] = net]
      /\ e.paid = [d.paid EXCEPT ![i] = 0] /\ e.balance = [d.balance EXCEPT ![i] = net]
      /\ e.status = [d.status EXCEPT ![i] = status]
    BY <1>1 DEF SameReceipts, SameCredit, Columns
<1> HIDE DEF e
<1>4. Ids(e)
    BY <1>3 DEF Typed, Ids, SameReceipts
<1>5. TypedBills(e)
    BY <1>3 DEF Typed, TypedBills
<1>6. TypedCaches(e)
    BY <1>2, <1>3 DEF Typed, TypedCaches
<1>7. TypedRows(e) /\ TypedCredit(e)
    BY <1>3 DEF Typed, TypedRows, TypedCredit, SameReceipts, SameCredit
<1> QED
    BY <1>3, <1>4, <1>5, <1>6, <1>7 DEF Typed, Inserted, e, status

\* Billing keeps the types, changes no receipt and bills a term that had no invoice.
LEMMA BilledTyped ==
    ASSUME NEW d, Typed(d), NEW i \in Invoices, NEW t \in Terms, NEW net \in Nat,
           NEW date \in Dates, NEW due \in Dates, NEW pre \in Nat,
           NEW src \in Receipts \union {NoReceipt}
    PROVE  LET e == Billed(d, i, t, net, date, due, pre, src).db
           IN /\ Typed(e) /\ SameReceipts(d, e)
              /\ e.invoices = d.invoices \union {i}
              /\ e.receipts = d.receipts /\ e.voidedReceipts = d.voidedReceipts
              /\ TermsOnce(d) /\ (\A j \in d.invoices : d.term[j] # t) => TermsOnce(e)
<1> DEFINE inserted == Inserted(d, i, t, net, date, due)
           e == Reconcile(inserted).db
           row == CreditRow(e, i, pre, src)
           f == [e EXCEPT !.calloc = @ \union {row}]
           Once == TermsOnce(d) /\ \A j \in d.invoices : d.term[j] # t
           Keeps(x) == /\ Typed(x) /\ SameReceipts(d, x)
                       /\ x.invoices = d.invoices \union {i}
                       /\ x.receipts = d.receipts /\ x.voidedReceipts = d.voidedReceipts
                       /\ Once => TermsOnce(x)
<1>0. Billed(d, i, t, net, date, due, pre, src).db \in {e, f}
    BY BilledIs
<1>1. /\ Typed(inserted) /\ SameReceipts(d, inserted)
      /\ inserted.invoices = d.invoices \union {i}
      /\ inserted.receipts = d.receipts /\ inserted.voidedReceipts = d.voidedReceipts
    BY InsertedTyped
<1>2. Once => TermsOnce(inserted)
    <2>1. DOMAIN d = Columns /\ d.term \in [Invoices -> Terms \union {NoTerm}]
          /\ d.invoices \subseteq Invoices
        BY DEF Typed, Ids, TypedBills
    <2>2. inserted.term = [d.term EXCEPT ![i] = t]
        BY <2>1 DEF Inserted, Columns
    <2> HIDE DEF inserted
    <2>3. \A j \in Invoices : inserted.term[j] = IF j = i THEN t ELSE d.term[j]
        BY <2>1, <2>2
    <2> QED
        BY <1>1, <2>1, <2>3 DEF TermsOnce
<1> HIDE DEF inserted, Once
<1>3. Typed(e) /\ SameIds(inserted, e) /\ SameReceipts(inserted, e)
    BY <1>1, ReconcileTyped
<1>4. Once => TermsOnce(e)
    BY <1>1, <1>2, ReconcileTermsOnce
<1> HIDE DEF e
<1>5. Keeps(e)
    <2>1. /\ e.invoices = d.invoices \union {i}
          /\ e.receipts = d.receipts /\ e.voidedReceipts = d.voidedReceipts
        BY <1>1, <1>3 DEF SameIds
    <2>2. SameReceipts(d, e)
        BY <1>1, <1>3 DEF SameReceipts
    <2> QED
        BY <1>3, <1>4, <2>1, <2>2
<1>6. row \in CreditRows
    BY <1>3, CreditRowTyped DEF Typed
<1> HIDE DEF row
<1>7. Typed(f) /\ SameIds(e, f) /\ SameBills(e, f) /\ SameReceipts(e, f)
    BY <1>3, <1>6, AddRowTyped
<1> HIDE DEF f
<1>8. Keeps(f)
    <2>1. Once => TermsOnce(f)
        BY <1>5, <1>7, SameTermsOnce DEF SameIds, SameBills
    <2> QED
        BY <1>5, <1>7, <2>1 DEF SameIds, SameReceipts
<1> QED
    BY <1>0, <1>5, <1>8 DEF Once

\* Issuing an invoice keeps the types and changes no receipt.
LEMMA SaveNewInvoiceTyped ==
    ASSUME NEW d, Typed(d), NEW i \in Invoices, NEW t \in Terms, NEW net \in Nat,
           NEW date \in Dates, NEW due \in Dates
    PROVE  LET e == SaveNewInvoice(d, i, t, net, date, due).db
           IN /\ Typed(e) /\ SameReceipts(d, e)
              /\ e.receipts = d.receipts /\ e.voidedReceipts = d.voidedReceipts
<1> DEFINE pre == CreditToApply(d, net)
           src == CreditSource(d, pre)
           deducted == IF pre > 0 THEN DeductCredit(d, pre) ELSE d
           e == Billed(deducted, i, t, net, date, due, pre, src).db
<1>0. SaveNewInvoice(d, i, t, net, date, due).db = e
    BY DEF SaveNewInvoice, Billed, Inserted
<1>1. pre \in Nat /\ d.credit - pre \in Nat
    BY CreditToApplyIsNat DEF Typed
<1>2. src \in Receipts \union {NoReceipt}
    BY <1>1, CreditSourceTyped DEF Typed
<1>3. Typed(deducted) /\ SameIds(d, deducted) /\ SameReceipts(d, deducted)
    <2>1. LET c == DeductCredit(d, pre) IN Typed(c) /\ SameIds(d, c) /\ SameReceipts(d, c)
        BY <1>1, DeductCreditTyped
    <2>2. Typed(d) /\ SameIds(d, d) /\ SameReceipts(d, d)
        BY DEF SameIds, SameReceipts
    <2> QED
        BY <2>1, <2>2
<1> HIDE DEF deducted, pre, src
<1>4. /\ Typed(e) /\ SameReceipts(deducted, e)
      /\ e.receipts = deducted.receipts /\ e.voidedReceipts = deducted.voidedReceipts
    BY <1>1, <1>2, <1>3, BilledTyped
<1> HIDE DEF e
<1> QED
    BY <1>0, <1>3, <1>4 DEF SameIds, SameReceipts

\* Editing an invoice keeps the types and changes no receipt.
LEMMA EditInvoiceTyped ==
    ASSUME NEW d, Typed(d), NEW i \in LiveInvoices(d), NEW net \in Nat,
           NEW date \in Dates, NEW due \in Dates
    PROVE  LET e == EditInvoice(d, i, net, date, due).db
           IN Typed(e) /\ SameIds(d, e) /\ SameReceipts(d, e)
<1> DEFINE credited == ApplyCredit(d, i, d.balance[i])
           edited   == [credited EXCEPT !.total[i] = net, !.date[i] = date, !.due[i] = due]
           recalculated == Recalculate(edited, {i})
<1>0. EditInvoice(d, i, net, date, due) = Reconcile(recalculated)
    BY DEF EditInvoice
<1>1. i \in Invoices
    BY LiveInvoicesFinite DEF Typed
<1>2. d.balance[i] \in Nat
    BY <1>1 DEF Typed, TypedCaches
<1>3. Typed(credited) /\ SameIds(d, credited) /\ SameReceipts(d, credited)
    BY <1>1, <1>2, ApplyCreditTyped
<1> HIDE DEF credited
<1>4. Typed(edited) /\ SameIds(credited, edited) /\ SameReceipts(credited, edited)
    <2>1. DOMAIN credited = Columns
        BY <1>3 DEF Typed, Ids
    <2>2. /\ SameIds(credited, edited) /\ SameReceipts(credited, edited)
          /\ SameCaches(credited, edited) /\ SameCredit(credited, edited)
          /\ edited.calloc = credited.calloc /\ edited.term = credited.term
          /\ edited.date = [credited.date EXCEPT ![i] = date]
          /\ edited.due = [credited.due EXCEPT ![i] = due]
          /\ edited.total = [credited.total EXCEPT ![i] = net]
        BY <2>1 DEF SameIds, SameReceipts, SameCaches, SameCredit, Columns
    <2> HIDE DEF edited
    <2>3. TypedBills(edited)
        <3>1. TypedBills(credited)
            BY <1>3 DEF Typed
        <3>2. /\ edited.term = credited.term
              /\ edited.date = [credited.date EXCEPT ![i] = date]
              /\ edited.due = [credited.due EXCEPT ![i] = due]
              /\ edited.total = [credited.total EXCEPT ![i] = net]
            BY <2>2
        <3> HIDE <1>3, <2>2
        <3> QED
            BY <1>1, <3>1, <3>2 DEF TypedBills
    <2>4. Ids(edited) /\ TypedCaches(edited)
        BY <1>3, <2>2 DEF Typed, Ids, TypedCaches, SameIds, SameCaches, SameReceipts
    <2>5. TypedRows(edited) /\ TypedCredit(edited)
        BY <1>3, <2>2 DEF Typed, TypedRows, TypedCredit, SameReceipts, SameCredit
    <2> QED
        BY <2>2, <2>3, <2>4, <2>5 DEF Typed
<1> HIDE DEF edited
<1>5. Typed(recalculated) /\ SameIds(edited, recalculated) /\ SameReceipts(edited, recalculated)
    <2>1. DOMAIN edited = Columns
        BY <1>4 DEF Typed, Ids
    <2> QED
        BY <1>4, <2>1, RecalculateTyped, RecalculateFrame
<1> HIDE DEF recalculated
<1> DEFINE e == Reconcile(recalculated).db
<1>6. Typed(e) /\ SameIds(recalculated, e) /\ SameReceipts(recalculated, e)
    BY <1>5, ReconcileTyped
<1> HIDE DEF e
<1>7. SameIds(d, e) /\ SameReceipts(d, e)
    BY <1>3, <1>4, <1>5, <1>6 DEF SameIds, SameReceipts
<1> QED
    BY <1>0, <1>6, <1>7 DEF e

\* Giving credit back to the student keeps the types.
LEMMA ReverseCreditAllocationsTyped ==
    ASSUME NEW d, Typed(d), NEW i \in Invoices
    PROVE  LET e == ReverseCreditAllocations(d, i)
           IN Typed(e) /\ SameIds(d, e) /\ SameBills(d, e) /\ SameReceipts(d, e)
<1> DEFINE back == IF CreditPaid(d, i) > Tol THEN CreditPaid(d, i) ELSE 0
           e == ReverseCreditAllocations(d, i)
<1>1. DOMAIN d = Columns
    BY DEF Typed, Ids
<1>2. CreditPaid(d, i) \in Nat
    BY PaidIsNat DEF Typed
<1>3. back \in Nat
    BY <1>2
<1>4. /\ SameIds(d, e) /\ SameBills(d, e) /\ SameCaches(d, e) /\ SameReceipts(d, e)
      /\ e.hasCredit = d.hasCredit /\ e.credited = d.credited
      /\ e.credit = d.credit + back
      /\ e.calloc = {c \in d.calloc : c.inv # i}
    BY <1>1 DEF ReverseCreditAllocations, SameIds, SameBills, SameCaches, SameReceipts, Columns
<1> HIDE DEF e, back
<1>5. d.credit \in Nat
    BY DEF Typed, TypedCredit
<1>6. e.credit \in Nat
    BY <1>3, <1>4, <1>5
<1>7. TypedCredit(e)
    BY <1>4, <1>6 DEF Typed, TypedCredit
<1>8. e.calloc \subseteq CreditRows /\ IsFiniteSet(e.calloc)
    BY <1>4, FS_Subset DEF Typed, TypedRows
<1>9. TypedRows(e)
    BY <1>4, <1>8 DEF Typed, TypedRows, SameReceipts
<1>10. Ids(e) /\ TypedBills(e) /\ TypedCaches(e)
    BY <1>4 DEF Typed, Ids, TypedBills, TypedCaches, SameIds, SameBills, SameCaches, SameReceipts
<1> QED
    BY <1>4, <1>7, <1>9, <1>10 DEF Typed, e

\* The payments an invoice had are taken from its receipts, and no others.
LEMMA VoidInvoiceTyped ==
    ASSUME NEW d, Typed(d), NEW i \in LiveInvoices(d)
    PROVE  LET e == VoidInvoice(d, i).db
           IN /\ Typed(e) /\ e.amount = d.amount /\ e.rcred = d.rcred
              /\ e.receipts = d.receipts /\ e.voidedReceipts = d.voidedReceipts
              /\ e.alloc = [r \in Receipts |->
                              [j \in Invoices |-> IF j = i THEN 0 ELSE d.alloc[r][j]]]
              /\ e.invoices = d.invoices /\ (TermsOnce(d) => TermsOnce(e))
<1> DEFINE marked   == [d EXCEPT !.voidedInvoices = @ \union {i}]
           updated  == Recalculate(marked, {i})
           reversed == ReverseCreditAllocations(updated, i)
           cleared  == [reversed EXCEPT
                         !.term[i] = NoTerm,
                         !.alloc   = [r \in Receipts |->
                                      [j \in Invoices |-> IF j = i THEN 0 ELSE @[r][j]]]]
           e == Reconcile(cleared).db
<1>0. VoidInvoice(d, i) = Reconcile(cleared)
    BY DEF VoidInvoice
<1>1. i \in Invoices /\ i \in d.invoices
    BY LiveInvoicesFinite DEF Typed, LiveInvoices
<1>2. /\ Typed(marked) /\ SameReceipts(d, marked) /\ SameBills(d, marked)
      /\ marked.invoices = d.invoices
      /\ marked.receipts = d.receipts /\ marked.voidedReceipts = d.voidedReceipts
    <2>1. DOMAIN d = Columns
        BY DEF Typed, Ids
    <2>2. /\ DOMAIN marked = Columns /\ marked.voidedInvoices = d.voidedInvoices \union {i}
          /\ marked.invoices = d.invoices /\ marked.receipts = d.receipts
          /\ marked.voidedReceipts = d.voidedReceipts
          /\ SameBills(d, marked) /\ SameCaches(d, marked) /\ SameReceipts(d, marked)
          /\ SameCredit(d, marked) /\ marked.calloc = d.calloc
        BY <2>1 DEF SameBills, SameCaches, SameReceipts, SameCredit, Columns
    <2> HIDE DEF marked
    <2>3. Ids(marked)
        BY <1>1, <2>2 DEF Typed, Ids, SameReceipts
    <2>4. TypedBills(marked) /\ TypedCaches(marked)
        BY <2>2 DEF Typed, TypedBills, TypedCaches, SameBills, SameCaches
    <2>5. TypedRows(marked) /\ TypedCredit(marked)
        BY <2>2 DEF Typed, TypedRows, TypedCredit, SameReceipts, SameCredit
    <2> QED
        BY <2>2, <2>3, <2>4, <2>5 DEF Typed
<1> HIDE DEF marked
<1>3. /\ Typed(updated) /\ SameIds(marked, updated)
      /\ SameBills(marked, updated) /\ SameReceipts(marked, updated)
    <2>1. DOMAIN marked = Columns
        BY <1>2 DEF Typed, Ids
    <2> QED
        BY <1>2, <2>1, RecalculateTyped, RecalculateFrame
<1> HIDE DEF updated
<1>4. /\ Typed(reversed) /\ SameIds(updated, reversed)
      /\ SameBills(updated, reversed) /\ SameReceipts(updated, reversed)
    BY <1>1, <1>3, ReverseCreditAllocationsTyped
<1> HIDE DEF reversed
<1>5. /\ Typed(cleared) /\ SameIds(reversed, cleared)
      /\ cleared.term = [reversed.term EXCEPT ![i] = NoTerm]
      /\ cleared.amount = reversed.amount /\ cleared.rcred = reversed.rcred
      /\ cleared.alloc = [r \in Receipts |->
                            [j \in Invoices |-> IF j = i THEN 0 ELSE reversed.alloc[r][j]]]
    <2>1. DOMAIN reversed = Columns
        BY <1>4 DEF Typed, Ids
    <2>2. /\ SameIds(reversed, cleared) /\ SameCaches(reversed, cleared)
          /\ SameCredit(reversed, cleared) /\ cleared.calloc = reversed.calloc
          /\ cleared.term = [reversed.term EXCEPT ![i] = NoTerm]
          /\ cleared.date = reversed.date /\ cleared.due = reversed.due
          /\ cleared.total = reversed.total
          /\ cleared.amount = reversed.amount /\ cleared.rcred = reversed.rcred
          /\ cleared.alloc = [r \in Receipts |->
                                [j \in Invoices |-> IF j = i THEN 0 ELSE reversed.alloc[r][j]]]
        BY <2>1 DEF SameIds, SameCaches, SameCredit, Columns
    <2> HIDE DEF cleared
    <2>3. TypedBills(cleared)
        BY <1>4, <2>2 DEF Typed, TypedBills
    <2>4. cleared.alloc \in [Receipts -> [Invoices -> Nat]]
        <3>1. reversed.alloc \in [Receipts -> [Invoices -> Nat]]
            BY <1>4 DEF Typed, TypedRows
        <3>2. \A r \in Receipts :
                 [j \in Invoices |-> IF j = i THEN 0 ELSE reversed.alloc[r][j]]
                    \in [Invoices -> Nat]
            BY <3>1
        <3>3. cleared.alloc = [r \in Receipts |->
                                [j \in Invoices |-> IF j = i THEN 0 ELSE reversed.alloc[r][j]]]
            BY <2>2
        <3> HIDE <2>2
        <3> QED
            BY <3>2, <3>3
    <2>5. TypedRows(cleared)
        BY <1>4, <2>2, <2>4 DEF Typed, TypedRows
    <2>6. Ids(cleared)
        BY <1>4, <2>2, <2>4 DEF Typed, Ids, SameIds
    <2>7. TypedCaches(cleared) /\ TypedCredit(cleared)
        BY <1>4, <2>2 DEF Typed, TypedCaches, TypedCredit, SameCaches, SameCredit
    <2> QED
        BY <2>2, <2>3, <2>5, <2>6, <2>7 DEF Typed
<1> HIDE DEF cleared
<1>6. Typed(e) /\ SameIds(cleared, e) /\ SameReceipts(cleared, e)
    BY <1>5, ReconcileTyped
<1>10. TermsOnce(cleared) => TermsOnce(e)
    BY <1>5, ReconcileTermsOnce
<1> HIDE DEF e
<1>7. reversed.alloc = d.alloc /\ reversed.amount = d.amount /\ reversed.rcred = d.rcred
      /\ reversed.receipts = d.receipts /\ reversed.voidedReceipts = d.voidedReceipts
    BY <1>2, <1>3, <1>4 DEF SameIds, SameReceipts
<1>8. /\ e.amount = d.amount /\ e.rcred = d.rcred
      /\ e.receipts = d.receipts /\ e.voidedReceipts = d.voidedReceipts
    BY <1>5, <1>6, <1>7 DEF SameIds, SameReceipts
<1>9. e.alloc = [r \in Receipts |-> [j \in Invoices |-> IF j = i THEN 0 ELSE d.alloc[r][j]]]
    BY <1>5, <1>6, <1>7 DEF SameReceipts
<1>11. e.invoices = d.invoices /\ cleared.invoices = d.invoices
    BY <1>2, <1>3, <1>4, <1>5, <1>6 DEF SameIds
<1>12. TermsOnce(d) => TermsOnce(cleared)
    <2>1. reversed.term = d.term
        BY <1>2, <1>3, <1>4 DEF SameBills
    <2>2. d.term \in [Invoices -> Terms \union {NoTerm}] /\ d.invoices \subseteq Invoices
        BY DEF Typed, TypedBills, Ids
    <2>3. \A j \in Invoices : cleared.term[j] = IF j = i THEN NoTerm ELSE d.term[j]
        BY <1>5, <2>1, <2>2
    <2> QED
        BY <1>11, <2>2, <2>3 DEF TermsOnce
<1> QED
    BY <1>0, <1>6, <1>8, <1>9, <1>10, <1>11, <1>12 DEF e

\* The exemption refresh keeps the types and changes no receipt.
LEMMA RefreshExemptionTyped ==
    ASSUME NEW d, Typed(d)
    PROVE  LET e == RefreshExemption(d)
           IN Typed(e) /\ SameIds(d, e) /\ SameReceipts(d, e)
<1> DEFINE e == RefreshExemption(d)
<1>1. DOMAIN d = Columns
    BY DEF Typed, Ids
<1>2. /\ SameIds(d, e) /\ SameBills(d, e) /\ SameReceipts(d, e)
      /\ e.calloc = d.calloc /\ SameCredit(d, e)
      /\ e.paid = [i \in Invoices |-> IF i \in d.invoices THEN 0 ELSE d.paid[i]]
      /\ e.balance = [i \in Invoices |-> IF i \in d.invoices THEN d.total[i] ELSE d.balance[i]]
      /\ e.status = [i \in Invoices |->
           IF i \in d.invoices THEN StatusOf(i \in d.voidedInvoices, d.total[i]) ELSE d.status[i]]
    BY <1>1 DEF RefreshExemption, SameIds, SameBills, SameReceipts, SameCredit, Columns
<1> HIDE DEF e
<1>3. \A v, b : StatusOf(v, b) \in Statuses
    BY DEF StatusOf, Statuses
<1>4. e.paid \in [Invoices -> Nat] /\ e.balance \in [Invoices -> Nat]
    BY <1>2 DEF Typed, TypedCaches, TypedBills
<1>5. e.status \in [Invoices -> Statuses]
    BY <1>2, <1>3 DEF Typed, TypedCaches
<1>6. Ids(e) /\ TypedBills(e)
    BY <1>2 DEF Typed, Ids, TypedBills, SameIds, SameBills, SameReceipts
<1>7. TypedRows(e) /\ TypedCredit(e)
    BY <1>2 DEF Typed, TypedRows, TypedCredit, SameReceipts, SameCredit
<1> QED
    BY <1>2, <1>4, <1>5, <1>6, <1>7 DEF Typed, TypedCaches, e

-----------------------------------------------------------------------------
(* Taking a payment                                                        *)

\* What receipts may still pay an invoice is an amount, at most its balance.
LEMMA HeadroomIsNat ==
    ASSUME NEW d, Typed(d), NEW i \in Invoices
    PROVE  Headroom(d, i) \in Nat /\ Headroom(d, i) <= d.balance[i]
<1>1. ReceiptPaid(d, i) \in Nat
    BY PaidIsNat DEF Typed
<1>2. d.total[i] \in Nat /\ d.balance[i] \in Nat
    BY DEF Typed, TypedBills, TypedCaches
<1> QED
    BY <1>1, <1>2, AmountsAssumption DEF Headroom, Monus, Least

\* What payment x leaves for an invoice once the invoices due before it have had theirs.
OpenFor(d)     == {i \in LiveInvoices(d) : d.status[i] = "Open" /\ d.balance[i] > Tol}
DueBefore(d, i) == {j \in OpenFor(d) : Before(j, i, d.due)}
LeftFor(d, x, i) == Monus(x, SumFunction([j \in DueBefore(d, i) |-> Headroom(d, j)]))

\* A share of a payment, invoice by invoice.
LEMMA ShareOf ==
    ASSUME NEW d, NEW x
    PROVE  Shares(d, x) = [i \in Invoices |->
             IF i \in OpenFor(d) /\ LeftFor(d, x, i) > Tol
             THEN Least(LeftFor(d, x, i), Headroom(d, i)) ELSE 0]
BY DEF Shares, OpenFor, DueBefore, LeftFor

\* Shares are amounts, each at most what the invoice owes.
LEMMA SharesTyped ==
    ASSUME NEW d, Typed(d), NEW x \in Nat
    PROVE  /\ Shares(d, x) \in [Invoices -> Nat]
           /\ \A i \in Invoices : /\ Shares(d, x)[i] <= Headroom(d, i)
                                  /\ Shares(d, x)[i] <= d.balance[i]
                                  /\ Shares(d, x)[i] <= LeftFor(d, x, i)
                                  /\ i \notin OpenFor(d) => Shares(d, x)[i] = 0
           /\ \A i \in Invoices : LeftFor(d, x, i) \in Nat
<1>1. ASSUME NEW i \in Invoices
      PROVE  LeftFor(d, x, i) \in Nat
    <2> DEFINE B == DueBefore(d, i)
               f == [j \in B |-> Headroom(d, j)]
    <2>1. B \subseteq Invoices
        BY LiveInvoicesFinite DEF Typed, DueBefore, OpenFor
    <2>2. IsFiniteSet(B) /\ \A j \in B : f[j] \in Nat
        BY <2>1, FS_Subset, IdsAssumption, HeadroomIsNat
    <2>3. LeftFor(d, x, i) = Monus(x, SumFunctionOnSet(f, B))
        BY DEF LeftFor, SumFunction
    <2> HIDE DEF B, f
    <2>4. SumFunctionOnSet(f, B) \in Nat
        BY <2>2, SumNat
    <2> QED
        BY <2>3, <2>4 DEF Monus
<1>2. ASSUME NEW i \in Invoices
      PROVE  LET y == Shares(d, x)[i]
             IN /\ y \in Nat /\ y <= Headroom(d, i) /\ y <= LeftFor(d, x, i)
                /\ i \notin OpenFor(d) => y = 0
    <2>1. Shares(d, x)[i] = IF i \in OpenFor(d) /\ LeftFor(d, x, i) > Tol
                            THEN Least(LeftFor(d, x, i), Headroom(d, i)) ELSE 0
        BY ShareOf
    <2>2. Headroom(d, i) \in Nat /\ LeftFor(d, x, i) \in Nat
        BY <1>1, HeadroomIsNat
    <2> QED
        BY <2>1, <2>2 DEF Least
<1>3. \A i \in Invoices : Shares(d, x)[i] <= d.balance[i]
    <2>1. ASSUME NEW i \in Invoices
          PROVE  Shares(d, x)[i] <= d.balance[i]
        <3>1. Headroom(d, i) \in Nat /\ Headroom(d, i) <= d.balance[i] /\ d.balance[i] \in Nat
            BY HeadroomIsNat DEF Typed, TypedCaches
        <3>2. Shares(d, x)[i] \in Nat /\ Shares(d, x)[i] <= Headroom(d, i)
            BY <1>2
        <3> QED
            BY <3>1, <3>2
    <2> QED
        BY <2>1
<1>4. Shares(d, x) \in [Invoices -> Nat]
    <2>1. Shares(d, x) = [i \in Invoices |-> Shares(d, x)[i]]
        BY ShareOf
    <2>2. \A i \in Invoices : Shares(d, x)[i] \in Nat
        BY <1>2
    <2> QED
        BY <2>1, <2>2
<1> QED
    BY <1>1, <1>2, <1>3, <1>4

\* A payment is never shared out beyond its amount.
LEMMA SharesWithinPayment ==
    ASSUME NEW d, Typed(d), NEW x \in Nat
    PROVE  SumFunctionOnSet(Shares(d, x), Invoices) <= x
<1> DEFINE share == Shares(d, x)
           O == OpenFor(d)
           h == [i \in Invoices |-> Headroom(d, i)]
           Sum(f, s) == SumFunctionOnSet(f, s)
           T == {s \in SUBSET O : Sum(share, s) <= x}
<1>1. O \subseteq Invoices /\ IsFiniteSet(O) /\ O \subseteq Nat
    BY LiveInvoicesFinite, FS_Subset, IdsAssumption DEF Typed, OpenFor
<1>2. /\ \A i \in Invoices : share[i] \in Nat /\ h[i] \in Nat /\ share[i] <= h[i]
      /\ \A i \in Invoices : share[i] <= LeftFor(d, x, i)
      /\ \A i \in Invoices \ O : share[i] = 0
    BY SharesTyped, HeadroomIsNat
<1>3. \A i \in Invoices : d.due[i] \in Nat
    BY AmountsAssumption DEF Typed, TypedBills
<1>4. ASSUME NEW i \in Invoices
      PROVE  LeftFor(d, x, i) = Monus(x, Sum(h, DueBefore(d, i)))
    <2> DEFINE B == DueBefore(d, i)
               f == [j \in B |-> Headroom(d, j)]
    <2>1. B \subseteq Invoices
        BY <1>1 DEF DueBefore
    <2>2. LeftFor(d, x, i) = Monus(x, SumFunctionOnSet(f, B))
        BY DEF LeftFor, SumFunction
    <2>3. \A j \in B : h[j] \in Int /\ f[j] = h[j]
        BY <1>2, <2>1
    <2>3a. IsFiniteSet(B)
        BY <2>1, FS_Subset, IdsAssumption
    <2> HIDE DEF B, f, h
    <2>4. SumFunctionOnSet(f, B) = SumFunctionOnSet(h, B)
        BY <2>3, <2>3a, SumCongruent
    <2> QED
        BY <2>2, <2>4 DEF B
<1> HIDE DEF share, O, h
<1>5. \A s \in SUBSET O : IsFiniteSet(s) /\ Sum(share, s) \in Nat /\ Sum(h, s) \in Nat
    <2>1. ASSUME NEW s \in SUBSET O
          PROVE  IsFiniteSet(s) /\ Sum(share, s) \in Nat /\ Sum(h, s) \in Nat
        <3>1. IsFiniteSet(s) /\ \A i \in s : share[i] \in Nat /\ h[i] \in Nat
            BY <1>1, <1>2, FS_Subset
        <3> QED
            BY <3>1, SumNat
    <2> QED
        BY <2>1
<1>6. {} \in T
    BY SumEmpty
<1>7. ASSUME NEW s \in SUBSET O, s # {}, \A y \in s : s \ {y} \in T
      PROVE  s \in T
    <2> DEFINE l == Latest(s, d.due)
               r == s \ {l}
               B == DueBefore(d, l)
    <2>1. s \subseteq Nat /\ \A i \in s : d.due[i] \in Nat
        BY <1>1, <1>3
    <2>2. l \in s /\ \A j \in s \ {l} : Before(j, l, d.due)
        BY <1>5, <1>7, <2>1, LatestExists
    <2> HIDE DEF l
    <2>3. r \subseteq B /\ B \subseteq O
        BY <2>2 DEF DueBefore, O
    <2>4. Sum(share, s) = share[l] + Sum(share, r)
        <3>1. IsFiniteSet(s) /\ \A i \in s : share[i] \in Int
            BY <1>1, <1>2, <1>5
        <3> QED
            BY <2>2, <3>1, SumStep
    <2>5. Sum(share, r) <= x /\ l \in Invoices /\ l \in O
        BY <1>1, <1>7, <2>2
    <2>6. Sum(share, r) <= Sum(h, B)
        <3> HIDE DEF r, B
        <3>1. IsFiniteSet(r) /\ IsFiniteSet(B)
            BY <1>5, <2>3
        <3>1a. \A i \in B : h[i] \in Nat
            BY <1>1, <1>2, <2>3
        <3>1b. \A i \in r : share[i] \in Int /\ h[i] \in Int /\ share[i] <= h[i]
            <4>1. r \subseteq Invoices
                BY <1>1, <2>3
            <4> QED
                BY <1>2, <4>1
        <3>2. Sum(share, r) <= Sum(h, r)
            BY <3>1, <3>1b, SumMonotone
        <3>3. Sum(h, r) <= Sum(h, B)
            BY <2>3, <3>1, <3>1a, SumSubset
        <3>4. Sum(share, r) \in Nat /\ Sum(h, r) \in Nat /\ Sum(h, B) \in Nat
            BY <1>5, <2>3 DEF r
        <3> HIDE DEF Sum
        <3> QED
            BY <3>2, <3>3, <3>4
    <2>7. share[l] <= Monus(x, Sum(h, B))
        BY <1>2, <1>4, <2>5
    <2>8. Sum(share, r) \in Nat /\ Sum(h, B) \in Nat /\ share[l] \in Nat
        BY <1>2, <1>5, <2>3, <2>5
    <2> HIDE DEF Sum, r, B
    <2>9. Sum(share, s) <= x
        <3>1. CASE x > Sum(h, B)
            <4>1. share[l] <= x - Sum(h, B)
                BY <2>7, <3>1 DEF Monus
            <4> QED
                BY <2>4, <2>6, <2>8, <4>1
        <3>2. CASE ~(x > Sum(h, B))
            <4>1. share[l] <= 0
                BY <2>7, <3>2 DEF Monus
            <4> QED
                BY <2>4, <2>5, <2>8, <4>1
        <3> QED
            BY <3>1, <3>2
    <2> QED
        BY <2>9
<1>8. T \subseteq SUBSET O
    OBVIOUS
<1>9. Sum(share, O) <= x
    <2> HIDE DEF T
    <2>1. T = SUBSET O
        BY <1>1, <1>6, <1>7, <1>8, SubsetInduction
    <2> QED
        BY <2>1 DEF T
<1>10. Sum(share, Invoices) = Sum(share, O)
    <2>1. /\ IsFiniteSet(Invoices) /\ O \in SUBSET Invoices
          /\ \A i \in O : share[i] \in Int
          /\ \A i \in Invoices \ O : share[i] = 0
        BY <1>1, <1>2, IdsAssumption
    <2> QED
        BY <2>1, SumRestrict
<1> QED
    BY <1>9, <1>10 DEF share

\* Paying invoices keeps the types: no balance goes below zero.
LEMMA PayInvoicesTyped ==
    ASSUME NEW d, Typed(d), NEW r \in Receipts, NEW x \in Nat
    PROVE  LET e == PayInvoices(d, r, x)
           IN /\ Typed(e) /\ e.rcred = d.rcred
              /\ e.receipts = d.receipts \union {r} /\ e.voidedReceipts = d.voidedReceipts
              /\ e.amount = [d.amount EXCEPT ![r] = x]
              /\ e.alloc = [d.alloc EXCEPT ![r] = Shares(d, x)]
<1> DEFINE share == Shares(d, x)
           e     == PayInvoices(d, r, x)
<1>1. DOMAIN d = Columns
    BY DEF Typed, Ids
<1>2. share \in [Invoices -> Nat] /\ \A i \in Invoices : share[i] <= d.balance[i]
    BY SharesTyped
<1>3. /\ DOMAIN e = Columns
      /\ e.invoices = d.invoices /\ e.voidedInvoices = d.voidedInvoices
      /\ e.receipts = d.receipts \union {r} /\ e.voidedReceipts = d.voidedReceipts
      /\ SameBills(d, e) /\ SameCredit(d, e) /\ e.calloc = d.calloc /\ e.rcred = d.rcred
      /\ e.amount = [d.amount EXCEPT ![r] = x]
      /\ e.alloc = [d.alloc EXCEPT ![r] = share]
      /\ e.paid = [i \in Invoices |-> d.paid[i] + share[i]]
      /\ e.balance = [i \in Invoices |-> d.balance[i] - share[i]]
      /\ e.status = [i \in Invoices |->
           IF share[i] > 0 THEN StatusOf(FALSE, d.balance[i] - share[i]) ELSE d.status[i]]
    BY <1>1 DEF PayInvoices, SameBills, SameCredit, Columns
<1> HIDE DEF e, share
<1>4. d.paid \in [Invoices -> Nat] /\ d.balance \in [Invoices -> Nat]
      /\ d.status \in [Invoices -> Statuses]
    BY DEF Typed, TypedCaches
<1>5. \A i \in Invoices : d.paid[i] + share[i] \in Nat /\ d.balance[i] - share[i] \in Nat
    BY <1>2, <1>4
<1>6. \A v, b : StatusOf(v, b) \in Statuses
    BY DEF StatusOf, Statuses
<1>7. e.paid \in [Invoices -> Nat] /\ e.balance \in [Invoices -> Nat]
    BY <1>3, <1>5
<1>8. e.status \in [Invoices -> Statuses]
    <2>1. e.status = [i \in Invoices |->
            IF share[i] > 0 THEN StatusOf(FALSE, d.balance[i] - share[i]) ELSE d.status[i]]
        BY <1>3
    <2> DEFINE f == [i \in Invoices |-> StatusOf(FALSE, d.balance[i] - share[i])]
    <2>2. \A i \in Invoices : f[i] \in Statuses
        BY <1>6
    <2>3. e.status = [i \in Invoices |-> IF share[i] > 0 THEN f[i] ELSE d.status[i]]
        BY <2>1
    <2> HIDE DEF f
    <2> QED
        BY <1>4, <2>2, <2>3
<1>8a. d.amount \in [Receipts -> Nat] /\ d.alloc \in [Receipts -> [Invoices -> Nat]]
    BY DEF Typed, TypedRows
<1>8b. e.amount = [d.amount EXCEPT ![r] = x] /\ e.alloc = [d.alloc EXCEPT ![r] = share]
    BY <1>3
<1>9. e.amount \in [Receipts -> Nat] /\ e.alloc \in [Receipts -> [Invoices -> Nat]]
    BY <1>2, <1>8a, <1>8b
<1>10. TypedRows(e)
    BY <1>3, <1>9 DEF Typed, TypedRows
<1>11. Ids(e)
    <2>1. DOMAIN e.alloc = Receipts /\ (\A q \in Receipts : DOMAIN e.alloc[q] = Invoices)
          /\ DOMAIN e.rcred = Receipts
        BY <1>9, <1>10 DEF TypedRows
    <2> QED
        BY <1>3, <2>1 DEF Typed, Ids
<1>12. TypedBills(e) /\ TypedCredit(e)
    BY <1>3 DEF Typed, TypedBills, TypedCredit, SameBills, SameCredit
<1> QED
    BY <1>3, <1>7, <1>8, <1>10, <1>11, <1>12 DEF Typed, TypedCaches, e, share

\* Adding credit keeps the types.
LEMMA AddCreditTyped ==
    ASSUME NEW d, Typed(d), NEW x \in Nat
    PROVE  LET e == AddCredit(d, x)
           IN Typed(e) /\ SameIds(d, e) /\ SameBills(d, e) /\ SameReceipts(d, e)
<1> DEFINE raised == [d EXCEPT !.hasCredit = TRUE, !.credit = @ + x]
           e == VerifyCredit(raised)
<1>0. AddCredit(d, x) = e
    BY DEF AddCredit
<1>1. DOMAIN d = Columns
    BY DEF Typed, Ids
<1>2. /\ SameIds(d, raised) /\ SameBills(d, raised) /\ SameCaches(d, raised)
      /\ SameReceipts(d, raised) /\ raised.calloc = d.calloc
      /\ raised.hasCredit = TRUE /\ raised.credit = d.credit + x
      /\ raised.credited = d.credited
    BY <1>1 DEF SameIds, SameBills, SameCaches, SameReceipts, Columns
<1> HIDE DEF raised
<1>3. d.credit \in Nat
    BY DEF Typed, TypedCredit
<1>4. raised.credit \in Nat
    BY <1>2, <1>3
<1>5. raised.hasCredit \in BOOLEAN
    BY <1>2
<1>6. TypedCredit(raised)
    BY <1>2, <1>4, <1>5 DEF Typed, TypedCredit
<1>7. TypedRows(raised)
    BY <1>2 DEF Typed, TypedRows, SameReceipts
<1>8. Ids(raised) /\ TypedBills(raised) /\ TypedCaches(raised) /\ DOMAIN raised = Columns
    BY <1>2 DEF Typed, Ids, TypedBills, TypedCaches, SameIds, SameBills, SameCaches, SameReceipts
<1>9. Typed(raised)
    BY <1>6, <1>7, <1>8 DEF Typed
<1>10. Typed(e) /\ SameIds(raised, e) /\ SameBills(raised, e) /\ SameReceipts(raised, e)
    BY <1>8, <1>9, VerifyCreditTyped, VerifyCreditFrame
<1> HIDE DEF e
<1> QED
    BY <1>0, <1>2, <1>10 DEF SameIds, SameBills, SameReceipts

\* Writing the credit of a receipt keeps the types.
LEMMA SetReceiptCreditTyped ==
    ASSUME NEW d, Typed(d), NEW r \in Receipts, NEW x \in Nat
    PROVE  LET e == [d EXCEPT !.rcred[r] = x]
           IN /\ Typed(e) /\ SameIds(d, e) /\ SameBills(d, e)
              /\ e.amount = d.amount /\ e.alloc = d.alloc
              /\ e.rcred = [d.rcred EXCEPT ![r] = x]
<1> DEFINE e == [d EXCEPT !.rcred[r] = x]
<1>1. DOMAIN d = Columns
    BY DEF Typed, Ids
<1>2. /\ SameIds(d, e) /\ SameBills(d, e) /\ SameCaches(d, e) /\ SameCredit(d, e)
      /\ e.amount = d.amount /\ e.alloc = d.alloc /\ e.calloc = d.calloc
      /\ e.rcred = [d.rcred EXCEPT ![r] = x]
    BY <1>1 DEF SameIds, SameBills, SameCaches, SameCredit, Columns
<1> HIDE DEF e
<1>3. e.rcred \in [Receipts -> Nat]
    BY <1>2 DEF Typed, TypedRows
<1>4. TypedRows(e)
    BY <1>2, <1>3 DEF Typed, TypedRows
<1>5. Ids(e)
    BY <1>2, <1>3 DEF Typed, Ids, SameIds
<1>6. TypedBills(e) /\ TypedCaches(e) /\ TypedCredit(e)
    BY <1>2 DEF Typed, TypedBills, TypedCaches, TypedCredit, SameBills, SameCaches, SameCredit
<1> QED
    BY <1>2, <1>4, <1>5, <1>6 DEF Typed, e

\* What is left of a payment becomes the credit of its receipt, unless it is no more than
\* the tolerance; types, ids and the other receipts stay.
LEMMA BankRestTyped ==
    ASSUME NEW paid, Typed(paid), NEW r \in Receipts, NEW left \in Nat
    PROVE  LET e == BankRest(paid, r, left).db
           IN /\ Typed(e) /\ SameIds(paid, e) /\ e.amount = paid.amount /\ e.alloc = paid.alloc
              /\ e.rcred = IF left > Tol THEN [paid.rcred EXCEPT ![r] = left] ELSE paid.rcred
              /\ TermsOnce(paid) => TermsOnce(e)
<1> DEFINE added    == AddCredit(paid, left)
           noted    == [added EXCEPT !.rcred[r] = left]
           credited == IF left > Tol THEN noted ELSE paid
           e        == Reconcile(credited).db
<1>0. BankRest(paid, r, left).db = e
    BY DEF BankRest
<1>1. Typed(added) /\ SameIds(paid, added) /\ SameBills(paid, added) /\ SameReceipts(paid, added)
    BY AddCreditTyped
<1> HIDE DEF added
<1>2. /\ Typed(noted) /\ SameIds(added, noted) /\ SameBills(added, noted)
      /\ noted.amount = added.amount
      /\ noted.alloc = added.alloc /\ noted.rcred = [added.rcred EXCEPT ![r] = left]
    BY <1>1, SetReceiptCreditTyped
<1> HIDE DEF noted
<1>3. /\ Typed(credited) /\ SameIds(paid, credited)
      /\ credited.amount = paid.amount /\ credited.alloc = paid.alloc
      /\ credited.rcred = IF left > Tol THEN [paid.rcred EXCEPT ![r] = left] ELSE paid.rcred
    BY <1>1, <1>2 DEF SameIds, SameReceipts
<1>4. credited.invoices = paid.invoices /\ credited.term = paid.term
    BY <1>1, <1>2 DEF SameIds, SameBills
<1> HIDE DEF credited
<1>5. Typed(e) /\ SameIds(credited, e) /\ SameReceipts(credited, e)
    BY <1>3, ReconcileTyped
<1>6. TermsOnce(paid) => TermsOnce(e)
    BY <1>3, <1>4, SameTermsOnce, ReconcileTermsOnce
<1> HIDE DEF e
<1> QED
    BY <1>0, <1>3, <1>5, <1>6 DEF SameIds, SameReceipts

\* Of the payment, what the shares leave becomes the receipt's credit, unless it is no
\* more than the tolerance.
LEMMA CreateReceiptTyped ==
    ASSUME NEW d, Typed(d), NEW r \in Receipts, NEW x \in Nat
    PROVE  LET e    == CreateReceipt(d, r, x).db
               left == x - SumFunctionOnSet(Shares(d, x), Invoices)
           IN /\ Typed(e) /\ left \in Nat
              /\ e.receipts = d.receipts \union {r} /\ e.voidedReceipts = d.voidedReceipts
              /\ e.amount = [d.amount EXCEPT ![r] = x]
              /\ e.alloc = [d.alloc EXCEPT ![r] = Shares(d, x)]
              /\ e.rcred = IF left > Tol THEN [d.rcred EXCEPT ![r] = left] ELSE d.rcred
<1> DEFINE paid     == PayInvoices(d, r, x)
           left     == x - Allocated(paid, r)
           rest     == x - SumFunctionOnSet(Shares(d, x), Invoices)
           e        == BankRest(paid, r, left).db
<1>0. CreateReceipt(d, r, x).db = e
    BY DEF CreateReceipt
<1>1. /\ Typed(paid) /\ paid.rcred = d.rcred
      /\ paid.receipts = d.receipts \union {r} /\ paid.voidedReceipts = d.voidedReceipts
      /\ paid.amount = [d.amount EXCEPT ![r] = x]
      /\ paid.alloc = [d.alloc EXCEPT ![r] = Shares(d, x)]
    BY PayInvoicesTyped
<1> HIDE DEF paid
<1>2. paid.alloc[r] = Shares(d, x)
    BY <1>1 DEF Typed, TypedRows
<1>3. left = rest
    BY <1>2 DEF Allocated
<1>4. left \in Nat
    <2>1. Shares(d, x) \in [Invoices -> Nat]
        BY SharesTyped
    <2>2. \A i \in Invoices : Shares(d, x)[i] \in Nat
        BY <2>1
    <2>3. SumFunctionOnSet(Shares(d, x), Invoices) \in Nat
        BY <2>2, SumNat, IdsAssumption
    <2>4. SumFunctionOnSet(Shares(d, x), Invoices) <= x
        BY SharesWithinPayment
    <2>5. rest \in Nat
        BY <2>3, <2>4
    <2> QED
        BY <1>3, <2>5
<1> HIDE DEF left, rest
<1>5. /\ Typed(e) /\ SameIds(paid, e) /\ e.amount = paid.amount /\ e.alloc = paid.alloc
      /\ e.rcred = IF left > Tol THEN [paid.rcred EXCEPT ![r] = left] ELSE paid.rcred
    BY <1>1, <1>4, BankRestTyped
<1> HIDE DEF e
<1>6. e.receipts = d.receipts \union {r} /\ e.voidedReceipts = d.voidedReceipts
    BY <1>1, <1>5 DEF SameIds
<1>7. e.rcred = IF left > Tol THEN [d.rcred EXCEPT ![r] = left] ELSE d.rcred
    BY <1>1, <1>5
<1> QED
    BY <1>0, <1>1, <1>3, <1>4, <1>5, <1>6, <1>7 DEF rest

-----------------------------------------------------------------------------
(* Voiding a receipt                                                       *)

\* Releasing invoices keeps the types.
LEMMA ReleaseInvoicesTyped ==
    ASSUME NEW d, Typed(d), NEW r \in LiveReceipts(d)
    PROVE  LET e == ReleaseInvoices(d, r)
           IN /\ Typed(e) /\ SameReceipts(d, e) /\ e.calloc = d.calloc /\ SameCredit(d, e)
              /\ e.receipts = d.receipts /\ e.voidedReceipts = d.voidedReceipts \union {r}
<1> DEFINE e == ReleaseInvoices(d, r)
           paid    == [i \in Invoices |-> Monus(d.paid[i], d.alloc[r][i])]
           balance == [i \in Invoices |-> d.balance[i] + d.alloc[r][i]]
           status  == [i \in Invoices |->
                         StatusOf(i \in d.voidedInvoices, d.balance[i] + d.alloc[r][i])]
<1>1. DOMAIN d = Columns /\ r \in Receipts /\ r \in d.receipts
    BY LiveReceiptsFinite DEF Typed, Ids, LiveReceipts
<1>2. /\ DOMAIN e = Columns
      /\ e.invoices = d.invoices /\ e.voidedInvoices = d.voidedInvoices
      /\ e.receipts = d.receipts /\ e.voidedReceipts = d.voidedReceipts \union {r}
      /\ SameBills(d, e) /\ SameReceipts(d, e) /\ SameCredit(d, e) /\ e.calloc = d.calloc
      /\ e.paid = paid /\ e.balance = balance
      /\ e.status = [i \in Invoices |->
           IF d.alloc[r][i] > 0
           THEN StatusOf(i \in d.voidedInvoices, d.balance[i] + d.alloc[r][i])
           ELSE d.status[i]]
    BY <1>1 DEF ReleaseInvoices, SameBills, SameReceipts, SameCredit, Columns
<1>3. \A i \in Invoices : d.paid[i] \in Nat /\ d.balance[i] \in Nat /\ d.alloc[r][i] \in Nat
    BY <1>1 DEF Typed, TypedCaches, TypedRows
<1>4. paid \in [Invoices -> Nat] /\ balance \in [Invoices -> Nat]
    BY <1>3 DEF Monus
<1>5. \A v, b : StatusOf(v, b) \in Statuses
    BY DEF StatusOf, Statuses
<1>6. \A i \in Invoices : status[i] \in Statuses
    BY <1>5
<1>7. e.status = [i \in Invoices |-> IF d.alloc[r][i] > 0 THEN status[i] ELSE d.status[i]]
    BY <1>2
<1> HIDE DEF e, paid, balance, status
<1>8. e.status \in [Invoices -> Statuses]
    BY <1>6, <1>7 DEF Typed, TypedCaches
<1>9. Ids(e)
    BY <1>1, <1>2 DEF Typed, Ids, SameReceipts
<1>10. TypedBills(e)
    BY <1>2 DEF Typed, TypedBills, SameBills
<1>11. TypedRows(e) /\ TypedCredit(e)
    BY <1>2 DEF Typed, TypedRows, TypedCredit, SameReceipts, SameCredit
<1> QED
    BY <1>2, <1>4, <1>8, <1>9, <1>10, <1>11 DEF Typed, TypedCaches, e

\* Of a credit row, no more is taken back than it holds.
LEMMA ReversedTyped ==
    ASSUME NEW d, Typed(d), NEW spent \in Nat
    PROVE  \A c \in d.calloc : /\ Reversed(d, spent)[c] \in Nat
                               /\ Reversed(d, spent)[c] <= c.amt
<1>1. ASSUME NEW c \in d.calloc
      PROVE  Reversed(d, spent)[c] \in Nat /\ Reversed(d, spent)[c] <= c.amt
    <2> DEFINE newer == {b \in d.calloc : b.seq > c.seq}
    <2>1. IsFiniteSet(newer) /\ \A b \in newer : b.amt \in Nat
        BY RowAmounts, FS_Subset DEF Typed
    <2>2. Reversed(d, spent)[c] = Least(Monus(spent, AmountOf(newer)), c.amt)
        BY DEF Reversed
    <2> HIDE DEF newer
    <2>3. AmountOf(newer) \in Nat
        BY <2>1, AmountOfIsNat
    <2>4. c.amt \in Nat
        BY RowAmounts DEF Typed
    <2>5. Monus(spent, AmountOf(newer)) \in Nat
        BY <2>3 DEF Monus
    <2> QED
        BY <2>2, <2>4, <2>5 DEF Least
<1> QED
    BY <1>1

\* Reversing credit rows keeps the types: none is reversed beyond its amount.
LEMMA ReverseCreditTyped ==
    ASSUME NEW d, Typed(d), NEW spent \in Nat
    PROVE  LET e == ReverseCredit(d, spent)
           IN Typed(e) /\ SameIds(d, e) /\ SameBills(d, e) /\ SameReceipts(d, e)
<1> DEFINE back    == Reversed(d, spent)
           touched == {c \in d.calloc : back[c] > 0}
           last(i) == CHOOSE c \in touched :
                        c.inv = i /\ \A b \in touched : b.inv = i => c.seq <= b.seq
           freed(i) == IF \E c \in touched : c.inv = i THEN back[last(i)] ELSE 0
           smaller(c) == [seq |-> c.seq, inv |-> c.inv, amt |-> c.amt - back[c], src |-> c.src]
           kept    == {b \in d.calloc : back[b] < b.amt}
           f       == [c \in kept |-> smaller(c)]
           rows    == {smaller(c) : c \in kept}
           paid    == [i \in Invoices |-> Monus(d.paid[i], freed(i))]
           balance == [i \in Invoices |-> d.balance[i] + freed(i)]
           status  == [i \in Invoices |->
                         StatusOf(i \in d.voidedInvoices, d.balance[i] + freed(i))]
           e       == ReverseCredit(d, spent)
<1>1. DOMAIN d = Columns
    BY DEF Typed, Ids
<1>2. /\ SameIds(d, e) /\ SameBills(d, e) /\ SameReceipts(d, e)
      /\ e.hasCredit = d.hasCredit /\ e.credited = d.credited
      /\ e.calloc = rows
      /\ e.credit = d.credit + SumFunctionOnSet(back, touched)
      /\ e.paid = paid /\ e.balance = balance
      /\ e.status = [i \in Invoices |->
           IF freed(i) > 0
           THEN StatusOf(i \in d.voidedInvoices, d.balance[i] + freed(i))
           ELSE d.status[i]]
    BY <1>1 DEF ReverseCredit, SameIds, SameBills, SameReceipts, Columns
<1> HIDE DEF e
<1>3. \A c \in d.calloc : back[c] \in Nat /\ back[c] <= c.amt
    BY ReversedTyped
<1> HIDE DEF back
<1>4. /\ \A c \in d.calloc : c \in CreditRows /\ c.amt \in Nat /\ c.seq \in Nat
      /\ IsFiniteSet(d.calloc)
    BY RowAmounts DEF Typed, TypedRows
<1>5. ASSUME NEW i \in Invoices
      PROVE  freed(i) \in Nat
    <2>1. CASE ~\E c \in touched : c.inv = i
        BY <2>1
    <2>2. CASE \E c \in touched : c.inv = i
        <3> DEFINE seqs == {c.seq : c \in {b \in touched : b.inv = i}}
        <3>1. seqs \subseteq Nat /\ seqs # {}
            BY <1>4, <2>2
        <3>2. PICK n \in seqs : \A m \in seqs : n <= m
            BY <3>1, LeastOf
        <3>3. PICK c \in touched : c.inv = i /\ c.seq = n
            BY <3>2
        <3>4. \A b \in touched : b.inv = i => c.seq <= b.seq
            BY <3>2, <3>3
        <3>5. last(i) \in touched
            BY <3>3, <3>4
        <3>6. freed(i) = back[last(i)]
            BY <2>2
        <3> HIDE DEF last, freed
        <3> QED
            BY <1>3, <3>5, <3>6
    <2> QED
        BY <2>1, <2>2
<1>6. rows \subseteq CreditRows
    <2>1. ASSUME NEW c \in kept
          PROVE  smaller(c) \in CreditRows
        <3>1. c.amt - back[c] \in Nat
            BY <1>3, <1>4
        <3> DEFINE y == c.amt - back[c]
        <3>2. c \in CreditRows
            BY <1>4
        <3> HIDE DEF y
        <3>3. [seq |-> c.seq, inv |-> c.inv, amt |-> y, src |-> c.src] \in CreditRows
            BY <3>1, <3>2 DEF CreditRows, y
        <3> QED
            BY <3>3 DEF y
    <2> QED
        BY <2>1
<1>7. IsFiniteSet(rows)
    <2>1. IsFiniteSet(kept)
        BY <1>4, FS_Subset
    <2>2. rows = {f[c] : c \in kept}
        OBVIOUS
    <2> HIDE DEF kept, f, rows
    <2> QED
        BY <2>1, <2>2, ImageIsFinite
<1>8. e.credit \in Nat
    <2>1. IsFiniteSet(touched) /\ \A c \in touched : back[c] \in Nat
        BY <1>3, <1>4, FS_Subset
    <2> HIDE DEF touched
    <2>2. SumFunctionOnSet(back, touched) \in Nat
        BY <2>1, SumNat
    <2>3. d.credit \in Nat
        BY DEF Typed, TypedCredit
    <2> QED
        BY <1>2, <2>2, <2>3
<1> HIDE DEF freed, rows, touched, kept, f
<1>9. \A i \in Invoices : d.paid[i] \in Nat /\ d.balance[i] \in Nat
    BY DEF Typed, TypedCaches
<1>10. paid \in [Invoices -> Nat] /\ balance \in [Invoices -> Nat]
    BY <1>5, <1>9 DEF Monus
<1>11. \A v, b : StatusOf(v, b) \in Statuses
    BY DEF StatusOf, Statuses
<1>12. \A i \in Invoices : status[i] \in Statuses
    BY <1>11
<1>13. e.status = [i \in Invoices |-> IF freed(i) > 0 THEN status[i] ELSE d.status[i]]
    BY <1>2
<1> HIDE DEF paid, balance, status
<1>14. e.status \in [Invoices -> Statuses]
    BY <1>12, <1>13 DEF Typed, TypedCaches
<1>15. TypedCaches(e)
    BY <1>2, <1>10, <1>14 DEF TypedCaches
<1>16. TypedRows(e)
    BY <1>2, <1>6, <1>7 DEF Typed, TypedRows, SameReceipts
<1>17. TypedCredit(e)
    BY <1>2, <1>8 DEF Typed, TypedCredit
<1>18. Ids(e) /\ TypedBills(e)
    BY <1>2 DEF Typed, Ids, TypedBills, SameIds, SameBills, SameReceipts
<1> QED
    BY <1>2, <1>15, <1>16, <1>17, <1>18 DEF Typed, e

\* Taking back the credit of a receipt keeps types, ids, terms and what receipts pay.
LEMMA TakenBackTyped ==
    ASSUME NEW d, Typed(d), NEW r \in Receipts, NEW over \in Nat
    PROVE  LET e == TakenBack(d, r, over)
           IN /\ Typed(e) /\ SameIds(d, e) /\ e.term = d.term
              /\ e.amount = d.amount /\ e.alloc = d.alloc
              /\ e.rcred = IF d.rcred[r] > 0 THEN [d.rcred EXCEPT ![r] = 0] ELSE d.rcred
<1> DEFINE created  == d.rcred[r]
           spent    == created - d.credit
           freed    == IF created > d.credit THEN ReverseCredit(d, spent) ELSE d
           x        == Monus(freed.credit, created)
           y        == Monus(d.credit, over)
           drawn    == [freed EXCEPT !.credit = x]
           taken    == [drawn EXCEPT !.rcred[r] = 0]
           kept     == [d EXCEPT !.credit = y]
<1>1. created \in Nat /\ d.credit \in Nat
    BY DEF Typed, TypedRows, TypedCredit
<1>2. TakenBack(d, r, over) = IF created > 0 THEN taken ELSE kept
    <2>1. DOMAIN d = Columns
        BY DEF Typed, Ids
    <2>2. TakenBack(d, r, over) = IF created > 0
             THEN [freed EXCEPT !.credit = Monus(@, created), !.rcred[r] = 0] ELSE kept
        BY DEF TakenBack
    <2> HIDE DEF created
    <2>3. DOMAIN freed = Columns
        BY <2>1 DEF ReverseCredit
    <2> HIDE DEF freed
    <2>4. [freed EXCEPT !.credit = Monus(@, created), !.rcred[r] = 0] = taken
        BY <2>3 DEF Columns
    <2> QED
        BY <2>2, <2>4
<1>3. Typed(freed) /\ SameIds(d, freed) /\ SameBills(d, freed) /\ SameReceipts(d, freed)
    <2>1. CASE created > d.credit
        <3>1. spent \in Nat
            BY <1>1, <2>1
        <3> HIDE DEF spent
        <3> QED
            BY <2>1, <3>1, ReverseCreditTyped
    <2>2. CASE ~(created > d.credit)
        BY <2>2 DEF SameIds, SameBills, SameReceipts
    <2> QED
        BY <2>1, <2>2
<1> HIDE DEF freed
<1>4. x \in Nat /\ y \in Nat
    <2>1. freed.credit \in Nat
        BY <1>3 DEF Typed, TypedCredit
    <2> HIDE DEF created
    <2> QED
        BY <1>1, <2>1 DEF Monus
<1> HIDE DEF x, y
<1>5. Typed(drawn) /\ SameIds(freed, drawn) /\ SameBills(freed, drawn) /\ SameReceipts(freed, drawn)
    BY <1>3, <1>4, SetCreditTyped
<1> HIDE DEF drawn
<1>6. /\ Typed(taken) /\ SameIds(drawn, taken) /\ SameBills(drawn, taken)
      /\ taken.amount = drawn.amount
      /\ taken.alloc = drawn.alloc /\ taken.rcred = [drawn.rcred EXCEPT ![r] = 0]
    BY <1>5, SetReceiptCreditTyped
<1> HIDE DEF taken
<1>7. Typed(kept) /\ SameIds(d, kept) /\ SameBills(d, kept) /\ SameReceipts(d, kept)
    BY <1>4, SetCreditTyped
<1> HIDE DEF kept
<1>8. /\ SameIds(d, taken) /\ taken.term = d.term /\ taken.amount = d.amount
      /\ taken.alloc = d.alloc /\ taken.rcred = [d.rcred EXCEPT ![r] = 0]
    BY <1>3, <1>5, <1>6 DEF SameIds, SameBills, SameReceipts
<1>9. kept.term = d.term /\ kept.amount = d.amount /\ kept.alloc = d.alloc /\ kept.rcred = d.rcred
    BY <1>7 DEF SameBills, SameReceipts
<1> QED
    BY <1>2, <1>6, <1>7, <1>8, <1>9

\* The rows of a voided receipt stay; its credit goes.
LEMMA VoidReceiptTyped ==
    ASSUME NEW d, Typed(d), NEW r \in LiveReceipts(d)
    PROVE  LET e == VoidReceipt(d, r)
           IN /\ Typed(e) /\ e.amount = d.amount /\ e.alloc = d.alloc
              /\ e.receipts = d.receipts /\ e.voidedReceipts = d.voidedReceipts \union {r}
              /\ e.rcred = IF d.rcred[r] > 0 THEN [d.rcred EXCEPT ![r] = 0] ELSE d.rcred
<1> DEFINE released == ReleaseInvoices(d, r)
           over     == Monus(d.amount[r], Allocated(d, r))
<1>1. r \in Receipts
    BY LiveReceiptsFinite DEF Typed
<1>2. /\ Typed(released) /\ SameReceipts(d, released)
      /\ released.receipts = d.receipts
      /\ released.voidedReceipts = d.voidedReceipts \union {r}
    BY ReleaseInvoicesTyped
<1>3. VoidReceipt(d, r) = TakenBack(released, r, over)
    BY VoidIsTakenBack DEF Typed, Ids
<1>4. over \in Nat
    <2>1. Allocated(d, r) \in Nat /\ d.amount[r] \in Nat
        BY <1>1, AllocatedIsNat DEF Typed, TypedRows
    <2> QED
        BY <2>1 DEF Monus
<1> DEFINE e == TakenBack(released, r, over)
<1> HIDE DEF released, over
<1>5. /\ Typed(e) /\ SameIds(released, e)
      /\ e.amount = released.amount /\ e.alloc = released.alloc
      /\ e.rcred = IF released.rcred[r] > 0
                   THEN [released.rcred EXCEPT ![r] = 0] ELSE released.rcred
    BY <1>1, <1>2, <1>4, TakenBackTyped
<1> HIDE DEF e
<1> QED
    BY <1>2, <1>3, <1>5 DEF SameIds, SameReceipts, e

-----------------------------------------------------------------------------
(* What a receipt holds                                                    *)

\* The inductive invariant of the amounts.  A receipt that was not issued has amount 0, so
\* that issuing it finds no credit under its id.
Balanced(d) ==
    /\ Typed(d)
    /\ \A r \in Receipts : Allocated(d, r) + d.rcred[r] <= d.amount[r]
    /\ \A r \in Receipts \ d.receipts : d.amount[r] = 0

\* No money of a live receipt of e is in no row, beyond the tolerance, that was in one in d.
LosesNothing(d, e) ==
    \A r \in LiveReceipts(e) : Unplaced(e, r) <= Tol \/ Unplaced(e, r) <= Unplaced(d, r)

\* What a receipt pays, its credit and its amount are amounts.
LEMMA HeldIsInt ==
    ASSUME NEW d, Typed(d), NEW r \in Receipts
    PROVE  /\ Allocated(d, r) \in Nat /\ d.rcred[r] \in Nat /\ d.amount[r] \in Nat
           /\ Unplaced(d, r) \in Int
<1>1. Allocated(d, r) \in Nat /\ d.rcred[r] \in Nat /\ d.amount[r] \in Nat
    BY AllocatedIsNat DEF Typed, TypedRows
<1> QED
    BY <1>1 DEF Unplaced

\* What changes no receipt keeps every receipt balanced and loses nothing.
LEMMA SameReceiptsBalanced ==
    ASSUME NEW d, NEW e, Balanced(d), Typed(e), SameReceipts(d, e),
           e.receipts = d.receipts, e.voidedReceipts = d.voidedReceipts
    PROVE  Balanced(e) /\ LosesNothing(d, e)
<1>1. \A r \in Receipts : /\ Allocated(e, r) = Allocated(d, r) /\ e.rcred[r] = d.rcred[r]
                          /\ e.amount[r] = d.amount[r]
    BY DEF SameReceipts, Allocated
<1>2. Balanced(e)
    BY <1>1 DEF Balanced
<1>3. ASSUME NEW r \in LiveReceipts(e)
      PROVE  Unplaced(e, r) <= Unplaced(d, r)
    <2>1. r \in Receipts
        BY LiveReceiptsFinite DEF Typed
    <2>2. Unplaced(e, r) = Unplaced(d, r)
        BY <1>1, <2>1 DEF Unplaced
    <2>3. Unplaced(d, r) \in Int
        BY <2>1, HeldIsInt DEF Balanced
    <2> QED
        BY <2>2, <2>3
<1> QED
    BY <1>2, <1>3 DEF LosesNothing

\* A new receipt whose shares and credit are within its amount keeps receipts balanced.
LEMMA PaymentBalanced ==
    ASSUME NEW d, Balanced(d), NEW e, Typed(e), NEW r \in Receipts \ d.receipts, NEW x \in Nat,
           NEW share \in [Invoices -> Nat], NEW left \in Nat,
           left = x - SumFunctionOnSet(share, Invoices),
           e.receipts = d.receipts \union {r}, e.voidedReceipts = d.voidedReceipts,
           e.amount = [d.amount EXCEPT ![r] = x], e.alloc = [d.alloc EXCEPT ![r] = share],
           e.rcred = IF left > Tol THEN [d.rcred EXCEPT ![r] = left] ELSE d.rcred
    PROVE  Balanced(e) /\ LosesNothing(d, e)
<1>2. SumFunctionOnSet(share, Invoices) \in Nat
    <2>1. \A i \in Invoices : share[i] \in Nat
        OBVIOUS
    <2> QED
        BY <2>1, SumNat, IdsAssumption
<1>2b. SumFunctionOnSet(share, Invoices) + left = x
    BY <1>2
<1>3. /\ d.amount \in [Receipts -> Nat] /\ d.rcred \in [Receipts -> Nat]
      /\ d.alloc \in [Receipts -> [Invoices -> Nat]]
    BY DEF Balanced, Typed, TypedRows
<1>4. d.rcred[r] = 0
    <2>1. d.amount[r] = 0 /\ Allocated(d, r) + d.rcred[r] <= d.amount[r]
        BY DEF Balanced
    <2>2. Allocated(d, r) \in Nat /\ d.rcred[r] \in Nat
        BY HeldIsInt DEF Balanced
    <2> QED
        BY <2>1, <2>2
<1>5. e.rcred[r] = (IF left > Tol THEN left ELSE 0)
    BY <1>3, <1>4
<1>6. Allocated(e, r) = SumFunctionOnSet(share, Invoices) /\ e.amount[r] = x
    BY <1>3 DEF Allocated
<1>7. \A q \in Receipts \ {r} : /\ e.rcred[q] = d.rcred[q] /\ e.amount[q] = d.amount[q]
                                /\ e.alloc[q] = d.alloc[q]
    BY <1>3
<1>8. \A q \in Receipts \ {r} : /\ Allocated(e, q) = Allocated(d, q)
                                /\ Unplaced(e, q) = Unplaced(d, q)
    BY <1>7 DEF Allocated, Unplaced
<1>9. Allocated(e, r) + e.rcred[r] <= e.amount[r] /\ Unplaced(e, r) <= Tol
    <2>1. left \in Nat /\ Tol \in Nat
        BY AmountsAssumption
    <2> QED
        BY <1>2, <1>2b, <1>5, <1>6, <2>1 DEF Unplaced
<1>10. Balanced(e)
    <2>1. ASSUME NEW q \in Receipts
          PROVE  Allocated(e, q) + e.rcred[q] <= e.amount[q]
        <3>1. CASE q = r
            BY <1>9, <3>1
        <3>2. CASE q # r
            BY <1>7, <1>8, <3>2 DEF Balanced
        <3> QED
            BY <3>1, <3>2
    <2>2. \A q \in Receipts \ e.receipts : e.amount[q] = 0
        BY <1>7 DEF Balanced
    <2> QED
        BY <2>1, <2>2 DEF Balanced
<1>11. ASSUME NEW q \in LiveReceipts(e)
       PROVE  Unplaced(e, q) <= Tol \/ Unplaced(e, q) <= Unplaced(d, q)
    <2>1. CASE q = r
        BY <1>9, <2>1
    <2>2. CASE q # r
        <3>1. q \in Receipts \ {r}
            BY <2>2, LiveReceiptsFinite DEF Typed
        <3>2. Unplaced(d, q) \in Int
            BY <3>1, HeldIsInt DEF Balanced
        <3> QED
            BY <1>8, <3>1, <3>2
    <2> QED
        BY <2>1, <2>2
<1> QED
    BY <1>10, <1>11 DEF LosesNothing

\* Taking a payment places it all, and no more than it.
LEMMA CreateReceiptBalanced ==
    ASSUME NEW d, Balanced(d), NEW r \in Receipts \ d.receipts, NEW x \in Nat
    PROVE  LET e == CreateReceipt(d, r, x).db
           IN Balanced(e) /\ LosesNothing(d, e)
<1> DEFINE e     == CreateReceipt(d, r, x).db
           share == Shares(d, x)
           left  == x - SumFunctionOnSet(share, Invoices)
<1>1. /\ Typed(e) /\ left \in Nat
      /\ e.receipts = d.receipts \union {r} /\ e.voidedReceipts = d.voidedReceipts
      /\ e.amount = [d.amount EXCEPT ![r] = x]
      /\ e.alloc = [d.alloc EXCEPT ![r] = share]
      /\ e.rcred = IF left > Tol THEN [d.rcred EXCEPT ![r] = left] ELSE d.rcred
    BY CreateReceiptTyped DEF Balanced
<1>2. share \in [Invoices -> Nat]
    BY SharesTyped DEF Balanced
<1>3. left = x - SumFunctionOnSet(share, Invoices)
    OBVIOUS
<1> HIDE DEF e, share, left
<1>4. Balanced(e) /\ LosesNothing(d, e)
    BY <1>1, <1>2, <1>3, PaymentBalanced
<1> QED
    BY <1>4 DEF e

\* Less credit on the same receipts keeps them balanced.
LEMMA LessCreditBalanced ==
    ASSUME NEW d, Balanced(d), NEW e, Typed(e), e.receipts = d.receipts,
           e.amount = d.amount, e.alloc = d.alloc, \A q \in Receipts : e.rcred[q] <= d.rcred[q]
    PROVE  Balanced(e)
<1>1. ASSUME NEW q \in Receipts
      PROVE  Allocated(e, q) + e.rcred[q] <= e.amount[q]
    <2>1. Allocated(d, q) + d.rcred[q] <= d.amount[q]
        BY DEF Balanced
    <2>2. Allocated(d, q) \in Nat /\ d.rcred[q] \in Nat /\ d.amount[q] \in Nat
        BY HeldIsInt DEF Balanced
    <2>3. Allocated(e, q) = Allocated(d, q) /\ e.amount[q] = d.amount[q]
        BY DEF Allocated
    <2>4. e.rcred[q] <= d.rcred[q] /\ e.rcred[q] \in Nat
        BY HeldIsInt
    <2> QED
        BY <2>1, <2>2, <2>3, <2>4
<1> QED
    BY <1>1 DEF Balanced

\* A receipt without credit holds what it held less its credit.
LEMMA TakenBackBalanced ==
    ASSUME NEW d, Balanced(d), NEW e, Typed(e), NEW r \in Receipts, e.receipts = d.receipts,
           e.amount = d.amount, e.alloc = d.alloc,
           e.rcred = IF d.rcred[r] > 0 THEN [d.rcred EXCEPT ![r] = 0] ELSE d.rcred
    PROVE  Balanced(e)
<1>1. d.rcred \in [Receipts -> Nat]
    BY DEF Balanced, Typed, TypedRows
<1>2. \A q \in Receipts : e.rcred[q] <= d.rcred[q]
    BY <1>1
<1> QED
    BY <1>2, LessCreditBalanced

\* Voiding a receipt frees its credit and loses nothing of the others.
LEMMA VoidReceiptBalanced ==
    ASSUME NEW d, Balanced(d), NEW r \in LiveReceipts(d)
    PROVE  LET e == VoidReceipt(d, r)
           IN Balanced(e) /\ LosesNothing(d, e)
<1> DEFINE e == VoidReceipt(d, r)
<1>1. /\ Typed(e) /\ e.amount = d.amount /\ e.alloc = d.alloc
      /\ e.receipts = d.receipts /\ e.voidedReceipts = d.voidedReceipts \union {r}
      /\ e.rcred = IF d.rcred[r] > 0 THEN [d.rcred EXCEPT ![r] = 0] ELSE d.rcred
    BY VoidReceiptTyped DEF Balanced
<1> HIDE DEF e
<1>2. \A q \in Receipts : Allocated(e, q) = Allocated(d, q)
    BY <1>1 DEF Allocated
<1>3. d.rcred \in [Receipts -> Nat]
    BY DEF Balanced, Typed, TypedRows
<1>5. \A q \in Receipts \ {r} : e.rcred[q] = d.rcred[q]
    BY <1>1, <1>3
<1>7. Balanced(e)
    BY <1>1, LiveReceiptsFinite, TakenBackBalanced DEF Balanced, Typed
<1>8. ASSUME NEW q \in LiveReceipts(e)
      PROVE  Unplaced(e, q) <= Unplaced(d, q)
    <2>1. q \in Receipts \ {r}
        BY <1>1, LiveReceiptsFinite DEF Typed, LiveReceipts
    <2>2. Unplaced(e, q) = Unplaced(d, q)
        BY <1>1, <1>2, <1>5, <2>1 DEF Unplaced
    <2>3. Unplaced(d, q) \in Int
        BY <2>1, HeldIsInt DEF Balanced
    <2> QED
        BY <2>2, <2>3
<1> QED
    BY <1>7, <1>8 DEF LosesNothing, e

\* Money leaves the rows here, but no receipt is spent beyond its amount.
LEMMA VoidInvoiceBalanced ==
    ASSUME NEW d, Balanced(d), NEW i \in LiveInvoices(d)
    PROVE  Balanced(VoidInvoice(d, i).db)
<1> DEFINE e == VoidInvoice(d, i).db
<1>1. /\ Typed(e) /\ e.amount = d.amount /\ e.rcred = d.rcred
      /\ e.receipts = d.receipts
      /\ e.alloc = [r \in Receipts |-> [j \in Invoices |-> IF j = i THEN 0 ELSE d.alloc[r][j]]]
    BY VoidInvoiceTyped DEF Balanced
<1> HIDE DEF e
<1>2. ASSUME NEW r \in Receipts
      PROVE  Allocated(e, r) <= Allocated(d, r)
    <2> DEFINE f == e.alloc[r]
               g == d.alloc[r]
    <2>1. d.alloc[r] \in [Invoices -> Nat]
        BY DEF Balanced, Typed, TypedRows
    <2>2. \A j \in Invoices : f[j] = IF j = i THEN 0 ELSE g[j]
        BY <1>1
    <2>3. \A j \in Invoices : f[j] \in Int /\ g[j] \in Int /\ f[j] <= g[j]
        BY <2>1, <2>2
    <2> HIDE DEF f, g
    <2>4. SumFunctionOnSet(f, Invoices) <= SumFunctionOnSet(g, Invoices)
        BY <2>3, SumMonotone, IdsAssumption
    <2> QED
        BY <2>4 DEF Allocated, f, g
<1>3. ASSUME NEW r \in Receipts
      PROVE  Allocated(e, r) + e.rcred[r] <= e.amount[r]
    <2>1. Allocated(d, r) + d.rcred[r] <= d.amount[r]
        BY DEF Balanced
    <2>2. Allocated(d, r) \in Nat /\ d.rcred[r] \in Nat /\ d.amount[r] \in Nat
        BY HeldIsInt DEF Balanced
    <2>3. e.rcred[r] = d.rcred[r] /\ e.amount[r] = d.amount[r]
        BY <1>1
    <2>4. Allocated(e, r) <= Allocated(d, r) /\ Allocated(e, r) \in Nat
        BY <1>1, <1>2, HeldIsInt
    <2> QED
        BY <2>1, <2>2, <2>3, <2>4
<1>4. Balanced(e)
    BY <1>1, <1>3 DEF Balanced
<1> QED
    BY <1>4 DEF e

\* What a rebuild leaves: live receipts have the rows of the plan, the others theirs.
LEMMA RebuildFields ==
    ASSUME NEW d, Typed(d)
    PROVE  LET e    == Rebuild(d)
               plan == FifoPlan(d)
               live == LiveReceipts(d)
           IN /\ Typed(e) /\ SameIds(d, e) /\ SameBills(d, e) /\ e.amount = d.amount
              /\ e.alloc = [r \in Receipts |-> IF r \in live THEN plan.alloc[r] ELSE d.alloc[r]]
              /\ e.rcred = [r \in Receipts |-> IF r \in live THEN plan.rcred[r] ELSE d.rcred[r]]
              /\ e.calloc = {c \in d.calloc : c.inv \notin LiveInvoices(d)}
<1> DEFINE e    == Rebuild(d)
           c    == Placed(d)
           plan == FifoPlan(d)
           live == LiveReceipts(d)
           L    == LiveInvoices(d)
<1>1. /\ SameBills(d, c) /\ c.amount = d.amount
      /\ c.alloc = [r \in Receipts |-> IF r \in live THEN plan.alloc[r] ELSE d.alloc[r]]
      /\ c.rcred = [r \in Receipts |-> IF r \in live THEN plan.rcred[r] ELSE d.rcred[r]]
      /\ c.calloc = {x \in d.calloc : x.inv \notin L}
    BY PlacedFields
<1>2. Typed(e) /\ SameIds(d, e) /\ SameBills(c, e) /\ SameReceipts(c, e) /\ e.calloc = c.calloc
    BY RebuildTyped
<1> HIDE DEF c, e, plan, live, L
<1>3. SameBills(d, e)
    BY <1>1, <1>2 DEF SameBills
<1>4. e.amount = c.amount /\ e.alloc = c.alloc /\ e.rcred = c.rcred
    BY <1>2 DEF SameReceipts
<1>5. e.calloc = {x \in d.calloc : x.inv \notin L}
    BY <1>1, <1>2
<1> QED
    BY <1>1, <1>2, <1>3, <1>4, <1>5 DEF e, plan, live, L

\* A rebuild places all of every live receipt, up to the tolerance.
LEMMA RebuildPlacesReceipts ==
    ASSUME NEW d, Typed(d), NEW r \in LiveReceipts(d)
    PROVE  LET e == Rebuild(d)
           IN /\ Allocated(e, r) + e.rcred[r] <= e.amount[r]
              /\ e.amount[r] <= Allocated(e, r) + e.rcred[r] + Tol
<1> DEFINE e    == Rebuild(d)
           plan == FifoPlan(d)
           live == LiveReceipts(d)
<1>1. /\ e.amount = d.amount
      /\ e.alloc = [q \in Receipts |-> IF q \in live THEN plan.alloc[q] ELSE d.alloc[q]]
      /\ e.rcred = [q \in Receipts |-> IF q \in live THEN plan.rcred[q] ELSE d.rcred[q]]
    BY RebuildFields
<1>2. /\ Allocated(plan, r) + plan.rcred[r] <= d.amount[r]
      /\ d.amount[r] <= Allocated(plan, r) + plan.rcred[r] + Tol
    BY FifoPlanFills DEF Filled
<1> HIDE DEF e, plan
<1>3. r \in Receipts
    BY LiveReceiptsFinite DEF Typed
<1>4. e.alloc[r] = plan.alloc[r] /\ e.rcred[r] = plan.rcred[r] /\ e.amount[r] = d.amount[r]
    BY <1>1, <1>3
<1>5. Allocated(e, r) = Allocated(plan, r)
    BY <1>4 DEF Allocated
<1>6. Allocated(e, r) + e.rcred[r] <= e.amount[r]
    BY <1>2, <1>4, <1>5
<1>7. e.amount[r] <= Allocated(e, r) + e.rcred[r] + Tol
    BY <1>2, <1>4, <1>5
<1> QED
    BY <1>6, <1>7 DEF e

\* A rebuild places every live receipt, and no more than it.
LEMMA RebuildBalanced ==
    ASSUME NEW d, Balanced(d)
    PROVE  LET e == Rebuild(d)
           IN Balanced(e) /\ LosesNothing(d, e)
<1> DEFINE e    == Rebuild(d)
           plan == FifoPlan(d)
           live == LiveReceipts(d)
<1>1. /\ Typed(e) /\ SameIds(d, e) /\ e.amount = d.amount
      /\ e.alloc = [r \in Receipts |-> IF r \in live THEN plan.alloc[r] ELSE d.alloc[r]]
      /\ e.rcred = [r \in Receipts |-> IF r \in live THEN plan.rcred[r] ELSE d.rcred[r]]
    BY RebuildFields DEF Balanced
<1>2. \A r \in live : /\ Allocated(e, r) + e.rcred[r] <= e.amount[r]
                      /\ e.amount[r] <= Allocated(e, r) + e.rcred[r] + Tol
    BY RebuildPlacesReceipts DEF Balanced
<1> HIDE DEF e, plan
<1>3. ASSUME NEW r \in live
      PROVE  Unplaced(e, r) <= Tol
    <2>1. r \in Receipts
        BY LiveReceiptsFinite DEF Balanced, Typed
    <2>2. Allocated(e, r) \in Nat /\ e.rcred[r] \in Nat /\ e.amount[r] \in Nat /\ Tol \in Nat
        BY <1>1, <2>1, HeldIsInt, AmountsAssumption
    <2> QED
        BY <1>2, <2>2 DEF Unplaced
<1>4. ASSUME NEW r \in Receipts \ live
      PROVE  Allocated(e, r) + e.rcred[r] <= e.amount[r]
    <2>1. e.alloc[r] = d.alloc[r] /\ e.rcred[r] = d.rcred[r] /\ e.amount[r] = d.amount[r]
        BY <1>1
    <2>2. Allocated(e, r) = Allocated(d, r)
        BY <2>1 DEF Allocated
    <2> QED
        BY <2>1, <2>2 DEF Balanced
<1>5. Balanced(e)
    BY <1>1, <1>2, <1>4 DEF Balanced, SameIds
<1>6. LiveReceipts(e) = live
    BY <1>1 DEF SameIds, LiveReceipts
<1> QED
    BY <1>3, <1>5, <1>6 DEF LosesNothing, e

\* The empty database is balanced.
LEMMA EmptyDbBalanced == Balanced(EmptyDb)
<1> DEFINE d == EmptyDb
<1>1. Min(Dates) \in Dates
    BY MinIsNat, AmountsAssumption
<1>2. /\ DOMAIN d = Columns
      /\ d.invoices = {} /\ d.voidedInvoices = {} /\ d.receipts = {} /\ d.voidedReceipts = {}
      /\ d.term = [i \in Invoices |-> NoTerm] /\ d.date = [i \in Invoices |-> Min(Dates)]
      /\ d.due = [i \in Invoices |-> Min(Dates)] /\ d.total = [i \in Invoices |-> 0]
      /\ d.paid = [i \in Invoices |-> 0] /\ d.balance = [i \in Invoices |-> 0]
      /\ d.status = [i \in Invoices |-> "Unissued"]
      /\ d.amount = [r \in Receipts |-> 0]
      /\ d.alloc = [r \in Receipts |-> [i \in Invoices |-> 0]]
      /\ d.rcred = [r \in Receipts |-> 0]
      /\ d.hasCredit = FALSE /\ d.credit = 0 /\ d.calloc = {}
      /\ d.credited = [i \in Invoices |-> 0]
    BY DEF EmptyDb, Columns
<1> HIDE DEF d
<1>3. Ids(d)
    BY <1>2 DEF Ids
<1>4. TypedBills(d)
    BY <1>1, <1>2 DEF TypedBills
<1>5. TypedCaches(d)
    BY <1>2 DEF TypedCaches, Statuses
<1>6. d.calloc \subseteq CreditRows /\ IsFiniteSet(d.calloc)
    BY <1>2, FS_EmptySet
<1>7. TypedRows(d)
    BY <1>2, <1>6 DEF TypedRows
<1>8. d.hasCredit \in BOOLEAN
    BY <1>2
<1>9. TypedCredit(d)
    BY <1>2, <1>8 DEF TypedCredit
<1>10. ASSUME NEW r \in Receipts
       PROVE  Allocated(d, r) = 0
    <2> DEFINE f == d.alloc[r]
    <2>1. \A i \in Invoices : f[i] = 0
        BY <1>2
    <2> HIDE DEF f
    <2>2. SumFunctionOnSet(f, Invoices) = 0
        BY <2>1, SumZero, IdsAssumption
    <2> QED
        BY <2>2 DEF Allocated, f
<1>11. \A r \in Receipts : d.rcred[r] = 0 /\ d.amount[r] = 0
    BY <1>2
<1>12. Balanced(d)
    BY <1>3, <1>4, <1>5, <1>7, <1>9, <1>10, <1>11 DEF Balanced, Typed
<1> QED
    BY <1>12 DEF d

-----------------------------------------------------------------------------
(* What a rebuild leaves                                                   *)

\* Every credit row is of a live invoice, so a rebuild deletes them all.
LEMMA RebuildClearsRows ==
    ASSUME NEW d, Typed(d), Sound(d)
    PROVE  Rebuild(d).calloc = {}
<1>1. Rebuild(d).calloc = {c \in d.calloc : c.inv \notin LiveInvoices(d)}
    BY RebuildFields
<1>2. \A c \in d.calloc : c.inv \in LiveInvoices(d)
    BY DEF Sound, RowsOnLive, LiveInvoices
<1> QED
    BY <1>1, <1>2

\* An invoice without credit rows was paid nothing by credit.
LEMMA NoRowsPayNothing ==
    ASSUME NEW d, NEW i, RowsOf(d, i) = {}
    PROVE  CreditPaid(d, i) = 0
<1>1. AmountOf({}) = 0
    BY SumEmpty DEF AmountOf, SumFunction
<1> QED
    BY <1>1 DEF CreditPaid

\* Without credit rows no invoice was.
LEMMA NoRowsNoCreditPaid ==
    ASSUME NEW d, d.calloc = {}, NEW i
    PROVE  CreditPaid(d, i) = 0
<1>1. RowsOf(d, i) = {}
    BY DEF RowsOf
<1> QED
    BY <1>1, NoRowsPayNothing

\* What a rebuild leaves of a live invoice is coherent, whatever it started from.
LEMMA RebuildCoherent ==
    ASSUME NEW d, Typed(d), NEW i \in LiveInvoices(Rebuild(d))
    PROVE  CachedIsLedger(Rebuild(d), i)
<1> DEFINE e == Placed(d)
           f == Recalculate(e, LiveInvoices(d))
           g == VerifyCredit(f)
<1>1. Typed(e) /\ SameIds(d, e)
    BY PlacedTyped, PlacedFields
<1>2. Rebuild(d) = g
    BY RebuildIsPlaced
<1> HIDE DEF e
<1>3. DOMAIN e = Columns /\ LiveInvoices(e) = LiveInvoices(d)
    BY <1>1 DEF Typed, Ids, LiveInvoices, SameIds
<1>4. SameIds(e, f) /\ DOMAIN f = Columns
    BY <1>3, RecalculateRows DEF SameRows, SameIds
<1>5. /\ SameIds(f, g)
      /\ g.alloc = f.alloc /\ g.calloc = f.calloc /\ g.total = f.total
      /\ g.paid = f.paid /\ g.balance = f.balance /\ g.status = f.status
    BY <1>4 DEF VerifyCredit, SameIds, Columns
<1>6. i \in Invoices \cap LiveInvoices(e)
    BY <1>1, <1>2, <1>4, <1>5 DEF LiveInvoices, SameIds, Typed, Ids
<1>7. CachedIsLedger(f, i)
    BY <1>3, <1>6, RecalculateCoherent
<1> HIDE DEF f, g
<1>8. TotalPaid(g, i) = TotalPaid(f, i)
    BY <1>5 DEF TotalPaid, ReceiptPaid, CreditPaid, RowsOf
<1> QED
    BY <1>2, <1>5, <1>7, <1>8 DEF CachedIsLedger

\* More in every row is more paid.
LEMMA PaidToMonotone ==
    ASSUME NEW a \in [Receipts -> [Invoices -> Nat]], NEW b \in [Receipts -> [Invoices -> Nat]],
           NEW i \in Invoices, \A r \in Receipts : a[r][i] <= b[r][i]
    PROVE  PaidTo(a, i) <= PaidTo(b, i)
<1> DEFINE f == [r \in Receipts |-> a[r][i]]
           g == [r \in Receipts |-> b[r][i]]
<1>1. \A r \in Receipts : f[r] \in Int /\ g[r] \in Int /\ f[r] <= g[r]
    OBVIOUS
<1>2. PaidTo(a, i) = SumFunctionOnSet(f, Receipts) /\ PaidTo(b, i) = SumFunctionOnSet(g, Receipts)
    BY DEF PaidTo, SumFunction
<1> HIDE DEF f, g
<1>3. SumFunctionOnSet(f, Receipts) <= SumFunctionOnSet(g, Receipts)
    BY <1>1, SumMonotone, IdsAssumption
<1> QED
    BY <1>2, <1>3

\* Credit is left only if the live invoices are paid: the invoices come first.
LEMMA RebuildPlaces ==
    ASSUME NEW d, Typed(d)
    PROVE  AllMoneyPlaced(Rebuild(d))
<1> DEFINE e    == Rebuild(d)
           plan == FifoPlan(d)
           live == LiveReceipts(d)
           L    == LiveInvoices(d)
<1>1. /\ Typed(e) /\ SameIds(d, e) /\ SameBills(d, e)
      /\ e.alloc = [r \in Receipts |-> IF r \in live THEN plan.alloc[r] ELSE d.alloc[r]]
      /\ e.rcred = [r \in Receipts |-> IF r \in live THEN plan.rcred[r] ELSE d.rcred[r]]
    BY RebuildFields
<1>2. \A r \in live : /\ Allocated(e, r) + e.rcred[r] <= e.amount[r]
                      /\ e.amount[r] <= Allocated(e, r) + e.rcred[r] + Tol
    BY RebuildPlacesReceipts
<1>3. \A i \in LiveInvoices(e) : CachedIsLedger(e, i)
    BY RebuildCoherent
<1>4. e.calloc = {c \in d.calloc : c.inv \notin L}
    BY RebuildFields
<1>5. Filled(d, plan, live)
    BY FifoPlanFills
<1> HIDE DEF e, plan
<1>6. LiveReceipts(e) = live /\ LiveInvoices(e) = L /\ live \subseteq Receipts /\ L \subseteq Invoices
    BY <1>1, LiveReceiptsFinite, LiveInvoicesFinite
       DEF SameIds, LiveReceipts, LiveInvoices, Typed
<1>7. ASSUME NEW r \in live
      PROVE  Monus(e.amount[r], Allocated(e, r) + e.rcred[r]) <= Tol
    <2>1. Allocated(e, r) \in Nat /\ e.rcred[r] \in Nat /\ e.amount[r] \in Nat /\ Tol \in Nat
        BY <1>1, <1>6, HeldIsInt, AmountsAssumption
    <2> QED
        BY <1>2, <2>1 DEF Monus
<1>8. ASSUME NEW r \in live, e.rcred[r] > 0, NEW i \in L
      PROVE  e.balance[i] <= Tol
    <2>1. plan.rcred[r] > 0
        BY <1>1, <1>6, <1>8
    <2>2. i \in Invoices /\ plan.balance[i] <= Tol
        BY <1>5, <1>6, <2>1 DEF Filled
    <2>3. plan.balance[i] + PaidTo(plan.alloc, i) = d.total[i]
        BY <1>5, <2>2 DEF Filled
    <2>4. e.balance[i] = Monus(e.total[i], TotalPaid(e, i)) /\ e.total[i] = d.total[i]
        BY <1>1, <1>3, <1>6 DEF CachedIsLedger, SameBills
    <2>5. TotalPaid(e, i) = PaidTo(e.alloc, i) + 0
        <3>1. RowsOf(e, i) = {}
            BY <1>4 DEF RowsOf
        <3> QED
            BY <3>1, NoRowsPayNothing DEF TotalPaid, ReceiptPaid
    <2>6. /\ plan.alloc \in [Receipts -> [Invoices -> Nat]]
          /\ e.alloc \in [Receipts -> [Invoices -> Nat]]
          /\ plan.balance[i] \in Nat
        BY <1>1, <1>5, <2>2 DEF Filled, Plans, Typed, TypedRows
    <2>7. \A q \in Receipts : plan.alloc[q][i] <= e.alloc[q][i]
        <3>1. ASSUME NEW q \in Receipts
              PROVE  plan.alloc[q][i] <= e.alloc[q][i]
            <4>1. plan.alloc[q][i] \in Nat /\ e.alloc[q][i] \in Nat
                BY <2>2, <2>6
            <4>2. CASE q \in live
                BY <1>1, <4>1, <4>2
            <4>3. CASE q \notin live
                <5>1. plan.alloc[q][i] = 0
                    BY <1>5, <2>2, <4>3 DEF Filled
                <5> QED
                    BY <4>1, <5>1
            <4> QED
                BY <4>2, <4>3
        <3> QED
            BY <3>1
    <2>8. PaidTo(plan.alloc, i) <= PaidTo(e.alloc, i)
        BY <2>2, <2>6, <2>7, PaidToMonotone
    <2>9. /\ PaidTo(plan.alloc, i) \in Nat /\ PaidTo(e.alloc, i) \in Nat
          /\ d.total[i] \in Nat /\ Tol \in Nat
        BY <2>2, <2>6, PaidToIsNat, AmountsAssumption DEF Typed, TypedBills
    <2> HIDE <1>1, <1>2, <1>3, <1>5
    <2>10. e.balance[i] = Monus(d.total[i], PaidTo(e.alloc, i))
        BY <2>4, <2>5, <2>9
    <2> QED
        BY <2>2, <2>3, <2>6, <2>8, <2>9, <2>10 DEF Monus
<1>9. AllMoneyPlaced(e)
    BY <1>6, <1>7, <1>8 DEF AllMoneyPlaced
<1> QED
    BY <1>9 DEF e

-----------------------------------------------------------------------------
(* A rebuild makes and loses no money                                      *)

\* The sums of the rows a: col[s] by invoice over the receipts of s, row by receipt.
Margins(a, f, col, row) ==
    /\ a \in [Receipts -> [Invoices -> Nat]]
    /\ f = [i \in Invoices |-> [r \in Receipts |-> a[r][i]]]
    /\ col = [s \in SUBSET Receipts |-> [i \in Invoices |-> SumFunctionOnSet(f[i], s)]]
    /\ row = [r \in Receipts |-> SumFunctionOnSet(a[r], Invoices)]

\* The rows of some receipts add up to as much by invoice as by receipt.
LEMMA SumSwap ==
    ASSUME NEW a, NEW f, NEW col, NEW row, Margins(a, f, col, row), NEW R \in SUBSET Receipts
    PROVE  SumFunctionOnSet(col[R], Invoices) = SumFunctionOnSet(row, R)
<1> USE DEF Margins
<1> DEFINE T == {s \in SUBSET Receipts :
                   SumFunctionOnSet(col[s], Invoices) = SumFunctionOnSet(row, s)}
<1>1. IsFiniteSet(Invoices) /\ IsFiniteSet(Receipts)
      /\ \A s \in SUBSET Receipts : IsFiniteSet(s)
    BY IdsAssumption, FS_Subset
<1>2. \A r \in Receipts : \A i \in Invoices : a[r][i] \in Int /\ f[i][r] = a[r][i]
    OBVIOUS
<1>3. \A r \in Receipts : row[r] \in Int /\ row[r] = SumFunctionOnSet(a[r], Invoices)
    BY <1>1, <1>2, SumInt
<1>4. \A s \in SUBSET Receipts : \A i \in Invoices :
          col[s][i] = SumFunctionOnSet(f[i], s) /\ col[s][i] \in Int
    BY <1>1, <1>2, SumInt
<1>5. {} \in T
    <2>1. \A i \in Invoices : col[{}][i] = 0
        BY <1>4, SumEmpty
    <2>2. SumFunctionOnSet(col[{}], Invoices) = 0
        BY <1>1, <2>1, SumZero
    <2> QED
        BY <2>2, SumEmpty
<1>6. ASSUME NEW s \in SUBSET Receipts, s # {}, \A x \in s : s \ {x} \in T
      PROVE  s \in T
    <2>1. PICK x \in s : TRUE
        BY <1>6
    <2> DEFINE t == s \ {x}
    <2>2. t \in SUBSET Receipts /\ SumFunctionOnSet(col[t], Invoices) = SumFunctionOnSet(row, t)
        BY <1>6
    <2>3. ASSUME NEW i \in Invoices
          PROVE  SumFunctionOnSet(f[i], s) = f[i][x] + SumFunctionOnSet(f[i], t)
        <3>1. IsFiniteSet(s) /\ \A r \in s : f[i][r] \in Int
            BY <1>1, <1>2
        <3> QED
            BY <3>1, SumStep
    <2>4. SumFunctionOnSet(row, s) = row[x] + SumFunctionOnSet(row, t)
        <3>1. IsFiniteSet(s) /\ \A r \in s : row[r] \in Int
            BY <1>1, <1>3
        <3> QED
            BY <3>1, SumStep
    <2> HIDE DEF t
    <2>5. \A i \in Invoices : /\ a[x][i] \in Int /\ col[t][i] \in Int
                              /\ col[s][i] = a[x][i] + col[t][i]
        BY <1>2, <1>4, <2>2, <2>3
    <2>6. SumFunctionOnSet(col[s], Invoices)
            = SumFunctionOnSet(a[x], Invoices) + SumFunctionOnSet(col[t], Invoices)
        <3> DEFINE ax == a[x]  ct == col[t]  cs == col[s]
        <3>1. \A i \in Invoices : ax[i] \in Int /\ ct[i] \in Int /\ cs[i] = ax[i] + ct[i]
            BY <2>5
        <3> HIDE DEF ax, ct, cs
        <3>2. SumFunctionOnSet(cs, Invoices)
                = SumFunctionOnSet(ax, Invoices) + SumFunctionOnSet(ct, Invoices)
            BY <1>1, <3>1, SumAdd
        <3> QED
            BY <3>2 DEF ax, ct, cs
    <2>7. row[x] = SumFunctionOnSet(a[x], Invoices)
        BY <1>3
    <2> QED
        BY <2>2, <2>4, <2>6, <2>7
<1>7. T \subseteq SUBSET Receipts
    OBVIOUS
<1> HIDE DEF T
<1>8. T = SUBSET Receipts
    BY <1>1, <1>5, <1>6, <1>7, SubsetInduction
<1> QED
    BY <1>8 DEF T

\* No row of a voided receipt is left.
VoidedPayNothing(d) == \A r \in d.voidedReceipts : Allocated(d, r) = 0

\* Then the rows a rebuild leaves are those of its plan.
LEMMA OnlyLiveHold ==
    ASSUME NEW d, Balanced(d), Sound(d), VoidedPayNothing(d), NEW r \in Receipts \ LiveReceipts(d)
    PROVE  d.rcred[r] = 0 /\ \A i \in Invoices : d.alloc[r][i] = 0
<1>1. /\ Allocated(d, r) \in Nat /\ d.rcred[r] \in Nat /\ d.amount[r] \in Nat
      /\ Allocated(d, r) + d.rcred[r] <= d.amount[r]
    BY HeldIsInt DEF Balanced
<1>2. Allocated(d, r) = 0 /\ d.rcred[r] = 0
    <2>1. CASE r \in d.voidedReceipts
        BY <1>1, <2>1 DEF VoidedPayNothing, Sound, NoCreditOnVoided
    <2>2. CASE r \notin d.voidedReceipts
        <3>1. d.amount[r] = 0
            BY <2>2 DEF LiveReceipts, Balanced
        <3> QED
            BY <1>1, <3>1
    <2> QED
        BY <2>1, <2>2
<1>3. \A i \in Invoices : d.alloc[r][i] \in Nat
    BY DEF Balanced, Typed, TypedRows
<1>4. \A i \in Invoices : d.alloc[r][i] <= 0
    <2>1. \A i \in Invoices : d.alloc[r][i] <= SumFunctionOnSet(d.alloc[r], Invoices)
        BY <1>3, SumElement, IdsAssumption
    <2> QED
        BY <1>2, <2>1 DEF Allocated
<1> QED
    BY <1>2, <1>3, <1>4

\* Where no voided receipt pays, the rows of a rebuild are those of its plan.
LEMMA PlanIsAll ==
    ASSUME NEW d, Balanced(d), Sound(d), VoidedPayNothing(d)
    PROVE  LET c == Placed(d) plan == FifoPlan(d)
           IN c.alloc = plan.alloc /\ c.rcred = plan.rcred
<1> DEFINE c    == Placed(d)
           plan == FifoPlan(d)
           live == LiveReceipts(d)
<1>1. /\ c.alloc = [r \in Receipts |-> IF r \in live THEN plan.alloc[r] ELSE d.alloc[r]]
      /\ c.rcred = [r \in Receipts |-> IF r \in live THEN plan.rcred[r] ELSE d.rcred[r]]
    BY PlacedFields DEF Balanced
<1>2. Filled(d, plan, live)
    BY FifoPlanFills DEF Balanced
<1> HIDE DEF c, plan, live
<1>3. /\ plan.alloc \in [Receipts -> [Invoices -> Nat]] /\ plan.rcred \in [Receipts -> Nat]
      /\ d.alloc \in [Receipts -> [Invoices -> Nat]]
    BY <1>2 DEF Filled, Plans, Balanced, Typed, TypedRows
<1>4. ASSUME NEW r \in Receipts
      PROVE  c.alloc[r] = plan.alloc[r] /\ c.rcred[r] = plan.rcred[r]
    <2>1. CASE r \in live
        BY <1>1, <2>1
    <2>2. CASE r \notin live
        <3>1. d.rcred[r] = 0 /\ \A i \in Invoices : d.alloc[r][i] = 0
            BY <2>2, OnlyLiveHold DEF live
        <3>2. plan.rcred[r] = 0 /\ \A i \in Invoices : plan.alloc[r][i] = 0
            BY <1>2, <2>2 DEF Filled
        <3>3. d.alloc[r] = [i \in Invoices |-> d.alloc[r][i]]
            BY <1>3
        <3>4. plan.alloc[r] = [i \in Invoices |-> plan.alloc[r][i]]
            BY <1>3
        <3>5. d.alloc[r] = plan.alloc[r]
            BY <3>1, <3>2, <3>3, <3>4
        <3> QED
            BY <1>1, <2>2, <3>1, <3>2, <3>5
    <2> QED
        BY <2>1, <2>2
<1>5. c.alloc = [r \in Receipts |-> c.alloc[r]] /\ c.rcred = [r \in Receipts |-> c.rcred[r]]
    BY <1>1
<1>6. plan.alloc = [r \in Receipts |-> plan.alloc[r]]
      /\ plan.rcred = [r \in Receipts |-> plan.rcred[r]]
    BY <1>3
<1>7. c.alloc = plan.alloc /\ c.rcred = plan.rcred
    BY <1>4, <1>5, <1>6
<1> QED
    BY <1>7 DEF c, plan

\* What the plan pays an invoice is at most its bill.
LEMMA PlanPaysBills ==
    ASSUME NEW d, Typed(d), NEW i \in Invoices
    PROVE  PaidTo(FifoPlan(d).alloc, i) \in Nat /\ PaidTo(FifoPlan(d).alloc, i) <= d.total[i]
<1> DEFINE plan == FifoPlan(d)
<1>1. Filled(d, plan, LiveReceipts(d))
    BY FifoPlanFills
<1> HIDE DEF plan
<1>2. plan.alloc \in [Receipts -> [Invoices -> Nat]] /\ plan.balance[i] \in Nat
    BY <1>1 DEF Filled, Plans
<1>3. plan.balance[i] + PaidTo(plan.alloc, i) = d.total[i] /\ d.total[i] \in Nat
    BY <1>1 DEF Filled, Typed, TypedBills
<1>4. PaidTo(plan.alloc, i) \in Nat
    BY <1>2, PaidToIsNat
<1>5. PaidTo(plan.alloc, i) <= d.total[i]
    BY <1>2, <1>3, <1>4
<1> QED
    BY <1>4, <1>5 DEF plan

\* Where no credit row is left and no invoice is overpaid, the balance that verification
\* expects is the credit of the receipts.
LEMMA ExpectedIsCredit ==
    ASSUME NEW f, Typed(f), f.calloc = {},
           \A i \in LiveInvoices(f) : ReceiptPaid(f, i) <= f.total[i]
    PROVE  Expected(f) = SumFunctionOnSet(f.rcred, Receipts)
<1> DEFINE o == [i \in LiveInvoices(f) |-> OverpaidBy(f, i)]
<1>1. ASSUME NEW i \in LiveInvoices(f)
      PROVE  OverpaidBy(f, i) = 0
    <2>1. i \in Invoices
        BY LiveInvoicesFinite DEF Typed
    <2>2. CountedPaid(f, i) = ReceiptPaid(f, i) + AmountOf({})
        <3>1. {c \in RowsOf(f, i) : c.src = NoReceipt \/ f.alloc[c.src][i] = 0} = {}
            BY DEF RowsOf
        <3> QED
            BY <3>1 DEF CountedPaid
    <2>3. AmountOf({}) = 0
        BY SumEmpty DEF AmountOf, SumFunction
    <2>4. ReceiptPaid(f, i) \in Nat /\ f.total[i] \in Nat /\ Tol \in Nat
        BY <2>1, PaidIsNat, AmountsAssumption DEF Typed, TypedBills
    <2> QED
        BY <2>2, <2>3, <2>4 DEF OverpaidBy
<1>2. /\ \A i \in LiveInvoices(f) : o[i] = 0
      /\ DOMAIN o = LiveInvoices(f)
    BY <1>1
<1>3. Expected(f) = Monus(SumFunctionOnSet(f.rcred, Receipts)
                            + SumFunctionOnSet(o, LiveInvoices(f)), AmountOf({}))
    BY DEF Expected, SumFunction
<1> HIDE DEF o
<1>4. SumFunctionOnSet(o, LiveInvoices(f)) = 0
    BY <1>2, LiveInvoicesFinite, SumZero DEF Typed
<1>5. AmountOf({}) = 0
    BY SumEmpty DEF AmountOf, SumFunction
<1>6. SumFunctionOnSet(f.rcred, Receipts) \in Nat
    BY SumNat, IdsAssumption DEF Typed, TypedRows
<1> QED
    BY <1>3, <1>4, <1>5, <1>6 DEF Monus

\* So the last verification of a rebuild finds the credit it stored right.
LEMMA RebuildCredit ==
    ASSUME NEW d, Balanced(d), Sound(d), VoidedPayNothing(d)
    PROVE  LET b == Recalculate(Placed(d), LiveInvoices(d))
           IN /\ Rebuild(d).credit = SumFunctionOnSet(FifoPlan(d).rcred, LiveReceipts(d))
              /\ b.hasCredit = TRUE /\ b.credit = Rebuild(d).credit
              /\ Verified(b, b.credit) = b.credit
<1> DEFINE c    == Placed(d)
           L    == LiveInvoices(d)
           b    == Recalculate(c, L)
           e    == VerifyCredit(b)
           plan == FifoPlan(d)
           live == LiveReceipts(d)
<1>1. /\ SameIds(d, c) /\ SameBills(d, c)
      /\ c.calloc = {x \in d.calloc : x.inv \notin L}
      /\ c.hasCredit = TRUE
      /\ c.credit = SumFunctionOnSet(plan.rcred, live)
    BY PlacedFields DEF Balanced
<1>2. c.alloc = plan.alloc /\ c.rcred = plan.rcred
    BY PlanIsAll
<1>3. Typed(c)
    BY PlacedTyped DEF Balanced
<1>4. Rebuild(d) = e
    BY RebuildIsPlaced
<1>5. \A x \in d.calloc : x.inv \in L
    BY DEF Sound, RowsOnLive, LiveInvoices
<1>6. Filled(d, plan, live)
    BY FifoPlanFills DEF Balanced
<1>7. live \in SUBSET Receipts
    BY LiveReceiptsFinite DEF Balanced, Typed
<1>8. \A i \in L : PaidTo(plan.alloc, i) <= d.total[i]
    BY PlanPaysBills, LiveInvoicesFinite DEF Balanced, Typed
<1> HIDE DEF c, plan, live
<1>9. Typed(b) /\ SameIds(c, b) /\ SameBills(c, b) /\ SameReceipts(c, b) /\ b.calloc = c.calloc
      /\ SameCredit(c, b)
    <2>1. DOMAIN c = Columns
        BY <1>3 DEF Typed, Ids
    <2> QED
        BY <1>3, <2>1, RecalculateTyped, RecalculateFrame
<1> HIDE DEF b
<1>10. b.calloc = {} /\ LiveInvoices(b) = L
    BY <1>1, <1>5, <1>9 DEF SameIds, LiveInvoices, L
<1>11. \A i \in L : ReceiptPaid(b, i) <= b.total[i]
    BY <1>1, <1>2, <1>8, <1>9 DEF SameReceipts, SameBills, ReceiptPaid
<1>12. Expected(b) = SumFunctionOnSet(plan.rcred, Receipts)
    <2>1. Expected(b) = SumFunctionOnSet(b.rcred, Receipts)
        BY <1>9, <1>10, <1>11, ExpectedIsCredit
    <2> QED
        BY <1>2, <1>9, <2>1 DEF SameReceipts
<1>13. SumFunctionOnSet(plan.rcred, Receipts) = SumFunctionOnSet(plan.rcred, live)
    <2> DEFINE k == plan.rcred
    <2>1. \A r \in live : k[r] \in Int
        BY <1>6, <1>7 DEF Filled, Plans
    <2>2. \A r \in Receipts \ live : k[r] = 0
        BY <1>6 DEF Filled
    <2>3. IsFiniteSet(Receipts)
        BY IdsAssumption
    <2> HIDE DEF k
    <2>4. SumFunctionOnSet(k, Receipts) = SumFunctionOnSet(k, live)
        BY <1>7, <2>1, <2>2, <2>3, SumRestrict
    <2> QED
        BY <2>4 DEF k
<1>14. b.credit = SumFunctionOnSet(plan.rcred, live) /\ b.hasCredit = TRUE
    BY <1>1, <1>9 DEF SameCredit
<1>15. b.credit = Expected(b) /\ b.credit \in Nat
    BY <1>9, <1>12, <1>13, <1>14 DEF Typed, TypedCredit
<1>16. Verified(b, b.credit) = b.credit
    BY <1>15 DEF Verified
<1>17. e.credit = b.credit
    <2>1. DOMAIN b = Columns
        BY <1>9 DEF Typed, Ids
    <2> QED
        BY <1>14, <1>16, <2>1, VerifyCreditFrame
<1> HIDE DEF e
<1> QED
    BY <1>4, <1>14, <1>16, <1>17 DEF b, c, plan, live, L

\* Then each live invoice caches what the plan pays it.
LEMMA RebuildPaid ==
    ASSUME NEW d, Balanced(d), Sound(d), VoidedPayNothing(d), NEW i \in LiveInvoices(d)
    PROVE  Rebuild(d).paid[i] = PaidTo(FifoPlan(d).alloc, i)
<1> DEFINE e == Rebuild(d)
           plan == FifoPlan(d)
<1>1. SameIds(d, e) /\ SameBills(d, e)
    BY RebuildFields DEF Balanced
<1>2. e.alloc = plan.alloc
    <2>1. e.alloc = Placed(d).alloc
        BY RebuildTyped DEF Balanced, SameReceipts
    <2> QED
        BY <2>1, PlanIsAll
<1>3. \A j \in LiveInvoices(e) : CachedIsLedger(e, j)
    BY RebuildSound
<1>4. e.calloc = {}
    BY RebuildClearsRows DEF Balanced
<1>5. i \in Invoices
    BY LiveInvoicesFinite DEF Balanced, Typed
<1>6. PaidTo(plan.alloc, i) \in Nat /\ PaidTo(plan.alloc, i) <= d.total[i]
    BY <1>5, PlanPaysBills DEF Balanced
<1> HIDE DEF e, plan
<1>7. e.paid[i] = Least(TotalPaid(e, i), d.total[i])
    BY <1>1, <1>3 DEF CachedIsLedger, SameIds, SameBills, LiveInvoices
<1>8. TotalPaid(e, i) = PaidTo(plan.alloc, i) + 0
    BY <1>2, <1>4, NoRowsNoCreditPaid DEF TotalPaid, ReceiptPaid
<1>9. e.paid[i] = PaidTo(plan.alloc, i)
    BY <1>6, <1>7, <1>8 DEF Least
<1> QED
    BY <1>9 DEF e, plan

\* So live invoices hold, with the credit, what the live receipts brought.
LEMMA RebuildConserves ==
    ASSUME NEW d, Balanced(d), Sound(d), VoidedPayNothing(d)
    PROVE  MoneyConserved(Rebuild(d))
<1> DEFINE e    == Rebuild(d)
           plan == FifoPlan(d)
           live == LiveReceipts(d)
           L    == LiveInvoices(d)
           a    == plan.alloc
           k    == plan.rcred
           f    == [i \in Invoices |-> [r \in Receipts |-> a[r][i]]]
           col  == [s \in SUBSET Receipts |-> [i \in Invoices |-> SumFunctionOnSet(f[i], s)]]
           row  == [r \in Receipts |-> SumFunctionOnSet(a[r], Invoices)]
           h    == [r \in Receipts |-> row[r] + k[r]]
           tol  == [r \in Receipts |-> Tol]
           top  == [r \in Receipts |-> h[r] + tol[r]]
           m    == d.amount
           p    == e.paid
           x    == col[Receipts]
<1>1. SameIds(d, e) /\ e.amount = m
    BY RebuildFields DEF Balanced
<1>2. Filled(d, plan, live)
    BY FifoPlanFills DEF Balanced
<1>3. e.credit = SumFunctionOnSet(k, live)
    BY RebuildCredit
<1>4. \A i \in L : p[i] = PaidTo(a, i)
    BY RebuildPaid
<1>5. /\ live \in SUBSET Receipts /\ IsFiniteSet(live) /\ L \in SUBSET Invoices
      /\ IsFiniteSet(Invoices) /\ IsFiniteSet(Receipts) /\ Tol \in Nat
      /\ IsFiniteSet(d.receipts) /\ live \subseteq d.receipts
    BY LiveReceiptsFinite, LiveInvoicesFinite, IdsAssumption, AmountsAssumption, FS_Subset
       DEF Balanced, Typed, Ids, LiveReceipts
<1>6. a \in [Receipts -> [Invoices -> Nat]] /\ k \in [Receipts -> Nat] /\ m \in [Receipts -> Nat]
    BY <1>2 DEF Filled, Plans, Balanced, Typed, TypedRows
<1>7. \A r \in Receipts : row[r] = Allocated(plan, r)
    BY DEF Allocated
<1>8. \A i \in Invoices : x[i] = PaidTo(a, i)
    <2>1. \A i \in Invoices : PaidTo(a, i) = SumFunctionOnSet(f[i], Receipts)
        BY DEF PaidTo, SumFunction
    <2>2. \A i \in Invoices : x[i] = SumFunctionOnSet(f[i], Receipts)
        OBVIOUS
    <2> QED
        BY <2>1, <2>2
<1> HIDE DEF e, plan, live, L, a, k, m, p
<1>9. SumFunctionOnSet(x, Invoices) = SumFunctionOnSet(row, Receipts)
    <2>1. Receipts \in SUBSET Receipts
        OBVIOUS
    <2>2. Margins(a, f, col, row)
        BY <1>6 DEF Margins
    <2> HIDE DEF f, col, row
    <2>3. SumFunctionOnSet(col[Receipts], Invoices) = SumFunctionOnSet(row, Receipts)
        BY <2>1, <2>2, SumSwap
    <2> QED
        BY <2>3
<1>10. \A r \in Receipts : row[r] \in Nat /\ k[r] \in Nat /\ m[r] \in Nat
    <2>1. \A r \in Receipts : SumFunctionOnSet(a[r], Invoices) \in Nat
        <3>1. ASSUME NEW r \in Receipts
              PROVE  SumFunctionOnSet(a[r], Invoices) \in Nat
            <4>1. \A i \in Invoices : a[r][i] \in Nat
                BY <1>6
            <4> QED
                BY <1>5, <4>1, SumNat
        <3> QED
            BY <3>1
    <2> QED
        BY <1>6, <2>1
<1>11. \A r \in Receipts : /\ h[r] = row[r] + k[r] /\ h[r] \in Nat
                           /\ tol[r] = Tol /\ top[r] = h[r] + Tol
    BY <1>10
<1>12. \A r \in live : h[r] <= m[r] /\ m[r] <= top[r]
    BY <1>2, <1>5, <1>7, <1>11 DEF Filled, a, k, m
<1>13. \A r \in Receipts \ live : row[r] = 0
    <2>1. ASSUME NEW r \in Receipts \ live
          PROVE  SumFunctionOnSet(a[r], Invoices) = 0
        <3>1. \A i \in Invoices : a[r][i] = 0
            BY <1>2, <2>1 DEF Filled, a
        <3> QED
            BY <1>5, <3>1, SumZero
    <2> QED
        BY <2>1
<1>14. /\ \A i \in L : x[i] = p[i] /\ x[i] \in Nat /\ p[i] \in Int
       /\ \A i \in Invoices \ L : x[i] = 0
    <2>1. \A i \in Invoices : PaidTo(a, i) \in Nat
        BY <1>6, PaidToIsNat
    <2>2. ASSUME NEW i \in Invoices \ L
          PROVE  PaidTo(a, i) = 0
        <3> DEFINE z == [r \in Receipts |-> a[r][i]]
        <3>1. \A r \in Receipts : z[r] = 0
            BY <1>2, <2>2 DEF Filled, a, L
        <3>2. PaidTo(a, i) = SumFunctionOnSet(z, Receipts)
            BY DEF PaidTo, SumFunction
        <3> HIDE DEF z
        <3> QED
            BY <1>5, <3>1, <3>2, SumZero
    <2> HIDE DEF x
    <2> QED
        BY <1>4, <1>5, <1>8, <2>1, <2>2
<1> HIDE DEF f, col, row, h, tol, top, x
<1>15. SumFunctionOnSet(p, L) = SumFunctionOnSet(x, L)
    BY <1>5, <1>14, FS_Subset, SumCongruent
<1>16. SumFunctionOnSet(x, Invoices) = SumFunctionOnSet(x, L)
    BY <1>5, <1>14, SumRestrict
<1>17. SumFunctionOnSet(row, Receipts) = SumFunctionOnSet(row, live)
    BY <1>5, <1>10, <1>13, SumRestrict
<1>18. SumFunctionOnSet(h, live) = SumFunctionOnSet(row, live) + SumFunctionOnSet(k, live)
    <2>1. \A r \in live : row[r] \in Int /\ k[r] \in Int /\ h[r] = row[r] + k[r]
        BY <1>5, <1>10, <1>11
    <2> QED
        BY <1>5, <2>1, SumAdd
<1>19. SumFunctionOnSet(top, live) = SumFunctionOnSet(h, live) + SumFunctionOnSet(tol, live)
    <2>1. \A r \in live : h[r] \in Int /\ tol[r] \in Int /\ top[r] = h[r] + tol[r]
        BY <1>5, <1>11
    <2> QED
        BY <1>5, <2>1, SumAdd
<1>20. SumFunctionOnSet(tol, live) = Tol * Cardinality(live)
    BY <1>5, <1>11, SumConstant
<1>21. SumFunctionOnSet(h, live) <= SumFunctionOnSet(m, live)
       /\ SumFunctionOnSet(m, live) <= SumFunctionOnSet(top, live)
    <2>1. \A r \in live : h[r] \in Int /\ m[r] \in Int /\ top[r] \in Int
        BY <1>5, <1>10, <1>11
    <2> QED
        BY <1>5, <1>12, <2>1, SumMonotone
<1>22. Tol * Cardinality(live) <= Tol * Cardinality(d.receipts)
    <2>1. /\ Cardinality(live) \in Nat /\ Cardinality(d.receipts) \in Nat
          /\ Cardinality(live) <= Cardinality(d.receipts)
        BY <1>5, FS_Subset, FS_CardinalityType
    <2>2. \A n, q \in Nat : n <= q => Tol * n <= Tol * q
        <3>1. ASSUME NEW n \in Nat, NEW q \in Nat, n <= q
              PROVE  Tol * n <= Tol * q
            <4>1. Tol * q = Tol * n + Tol * (q - n)
                BY <1>5
            <4>2. q - n \in Nat /\ Tol * (q - n) \in Nat /\ Tol * n \in Nat
                BY <1>5, <3>1
            <4> QED
                BY <4>1, <4>2
        <3> QED
            BY <3>1
    <2> QED
        BY <2>1, <2>2
<1>23. /\ SumFunctionOnSet(h, live) \in Int /\ SumFunctionOnSet(m, live) \in Int
       /\ SumFunctionOnSet(row, live) \in Int /\ SumFunctionOnSet(k, live) \in Int
       /\ Tol * Cardinality(live) \in Int /\ Tol * Cardinality(d.receipts) \in Int
    <2>1. \A r \in live : h[r] \in Int /\ m[r] \in Int /\ row[r] \in Int /\ k[r] \in Int
        BY <1>5, <1>10, <1>11
    <2>2. Cardinality(live) \in Nat /\ Cardinality(d.receipts) \in Nat
        BY <1>5, FS_CardinalityType
    <2>3. Tol * Cardinality(live) \in Int /\ Tol * Cardinality(d.receipts) \in Int
        BY <1>5, <2>2
    <2> QED
        BY <1>5, <2>1, <2>3, SumInt
<1>24. /\ SumFunctionOnSet(m, live) = SumFunctionOnSet(e.amount, LiveReceipts(e))
       /\ SumFunctionOnSet(p, L) = SumFunctionOnSet(e.paid, LiveInvoices(e))
       /\ e.receipts = d.receipts
    BY <1>1 DEF SameIds, LiveReceipts, LiveInvoices, live, L, p
<1>25. SumFunctionOnSet(h, live) = e.credit + SumFunctionOnSet(p, L)
    <2>1. SumFunctionOnSet(p, L) = SumFunctionOnSet(row, live)
        BY <1>9, <1>15, <1>16, <1>17
    <2>2. \A n, q \in Int : n + q = q + n
        OBVIOUS
    <2> QED
        BY <1>3, <1>18, <1>23, <2>1, <2>2
<1>26. /\ e.credit + SumFunctionOnSet(p, L) <= SumFunctionOnSet(m, live)
       /\ SumFunctionOnSet(m, live)
            <= e.credit + SumFunctionOnSet(p, L) + Tol * Cardinality(d.receipts)
    BY <1>19, <1>20, <1>21, <1>22, <1>23, <1>25
<1> QED
    BY <1>24, <1>26 DEF MoneyConserved, e

-----------------------------------------------------------------------------
(* A second rebuild changes nothing                                        *)

\* The plan as a function of all it reads: no row and no cached field.
PlanOf(R, L, date, amount, total) ==
    FoldInOrder(
        LAMBDA r, p :
            LET q == FoldInOrder(LAMBDA i, s : Allocate(r, i, s), [p EXCEPT !.left = amount[r]],
                                 L, date)
            IN [q EXCEPT !.rcred[r] = IF q.left > Tol THEN q.left ELSE 0],
        [left    |-> 0,
         balance |-> total,
         alloc   |-> [r \in Receipts |-> [i \in Invoices |-> 0]],
         rcred   |-> [r \in Receipts |-> 0]],
        R, [r \in Receipts |-> r])

\* It reads no row and no cached field.
LEMMA FifoPlanReads ==
    ASSUME NEW d
    PROVE  FifoPlan(d) = PlanOf(LiveReceipts(d), LiveInvoices(d), d.date, d.amount, d.total)
BY DEF FifoPlan, Spread, Unpaid, PlanOf, FoldInOrder, MapThenFoldSet

\* Two databases with the same columns are the same.
LEMMA SameColumns ==
    ASSUME NEW d, NEW e,
           d = [x \in Columns |-> d[x]], e = [x \in Columns |-> e[x]],
           SameIds(d, e), SameBills(d, e), SameCaches(d, e), SameReceipts(d, e),
           SameCredit(d, e), e.calloc = d.calloc
    PROVE  e = d
<1>1. \A x \in Columns : e[x] = d[x]
    BY DEF SameIds, SameBills, SameCaches, SameReceipts, SameCredit, Columns
<1> QED
    BY <1>1

\* What recalculating returns is determined by its columns.
LEMMA RecalculateIsRecord ==
    ASSUME NEW d, DOMAIN d = Columns, NEW S
    PROVE  Recalculate(d, S) = [x \in Columns |-> Recalculate(d, S)[x]]
BY DEF Recalculate

\* A second rebuild places the same plan over the same bills.
LEMMA RebuildTwice ==
    ASSUME NEW d, Typed(d), Sound(d)
    PROVE  Rebuild(Rebuild(d)) = Rebuild(d)
<1> DEFINE e    == Rebuild(d)
           plan == FifoPlan(d)
           live == LiveReceipts(d)
           L    == LiveInvoices(d)
           c    == Placed(d)
           b    == Recalculate(c, L)
           c2   == Placed(e)
           b2   == Recalculate(c2, L)
<1>1. /\ Typed(e) /\ SameIds(d, e) /\ SameBills(d, e) /\ e.amount = d.amount
      /\ e.alloc = [r \in Receipts |-> IF r \in live THEN plan.alloc[r] ELSE d.alloc[r]]
      /\ e.rcred = [r \in Receipts |-> IF r \in live THEN plan.rcred[r] ELSE d.rcred[r]]
    BY RebuildFields
<1>2. e.calloc = {}
    BY RebuildClearsRows
<1>3. /\ SameIds(d, c) /\ SameBills(d, c) /\ SameCaches(d, c) /\ c.amount = d.amount
      /\ c.calloc = {x \in d.calloc : x.inv \notin L}
      /\ c.hasCredit = TRUE /\ c.credited = [i \in Invoices |-> 0]
      /\ c.credit = SumFunctionOnSet(plan.rcred, live)
      /\ c.alloc = [r \in Receipts |-> IF r \in live THEN plan.alloc[r] ELSE d.alloc[r]]
      /\ c.rcred = [r \in Receipts |-> IF r \in live THEN plan.rcred[r] ELSE d.rcred[r]]
    BY PlacedFields
<1>4. LiveReceipts(e) = live /\ LiveInvoices(e) = L
    BY <1>1 DEF SameIds, LiveReceipts, LiveInvoices
<1>5. FifoPlan(e) = plan
    <2>1. e.date = d.date /\ e.total = d.total /\ e.amount = d.amount
        BY <1>1 DEF SameBills
    <2> HIDE DEF e
    <2> QED
        BY <1>4, <2>1, FifoPlanReads
<1>6. /\ SameIds(e, c2) /\ SameBills(e, c2) /\ SameCaches(e, c2) /\ c2.amount = e.amount
      /\ c2.calloc = {x \in e.calloc : x.inv \notin LiveInvoices(e)}
      /\ c2.hasCredit = TRUE /\ c2.credited = [i \in Invoices |-> 0]
      /\ c2.credit = SumFunctionOnSet(FifoPlan(e).rcred, LiveReceipts(e))
      /\ c2.alloc = [r \in Receipts |->
                       IF r \in LiveReceipts(e) THEN FifoPlan(e).alloc[r] ELSE e.alloc[r]]
      /\ c2.rcred = [r \in Receipts |->
                       IF r \in LiveReceipts(e) THEN FifoPlan(e).rcred[r] ELSE e.rcred[r]]
    BY <1>1, PlacedFields
<1>7. Typed(c) /\ Typed(c2)
    BY <1>1, PlacedTyped
<1>8. e = VerifyCredit(b)
    BY RebuildIsPlaced
<1>9. Rebuild(e) = VerifyCredit(b2)
    BY <1>4, RebuildIsPlaced
<1>10. \A x \in d.calloc : x.inv \in L
    BY DEF Sound, RowsOnLive, LiveInvoices
<1> HIDE DEF e, plan, live, L, c, c2
<1>11. DOMAIN c = Columns /\ DOMAIN c2 = Columns
    BY <1>7 DEF Typed, Ids
<1>12. c2.alloc = c.alloc /\ c2.rcred = c.rcred /\ c2.calloc = c.calloc
    <2>1. \A r \in Receipts : c2.alloc[r] = c.alloc[r] /\ c2.rcred[r] = c.rcred[r]
        BY <1>1, <1>3, <1>4, <1>5, <1>6
    <2>2. /\ c2.alloc = [r \in Receipts |-> c2.alloc[r]]
          /\ c.alloc = [r \in Receipts |-> c.alloc[r]]
          /\ c2.rcred = [r \in Receipts |-> c2.rcred[r]]
          /\ c.rcred = [r \in Receipts |-> c.rcred[r]]
        BY <1>3, <1>6
    <2>3. c2.calloc = {} /\ c.calloc = {}
        BY <1>2, <1>3, <1>6, <1>10
    <2> QED
        BY <2>1, <2>2, <2>3
<1>13. SameIds(c, c2)
    BY <1>1, <1>3, <1>6 DEF SameIds
<1>14. SameBills(c, c2) /\ c2.amount = c.amount
    BY <1>1, <1>3, <1>6 DEF SameBills
<1>15. SameCredit(c, c2)
    BY <1>3, <1>4, <1>5, <1>6 DEF SameCredit
<1>16. /\ SameIds(c, b) /\ SameBills(c, b) /\ SameReceipts(c, b)
       /\ b.calloc = c.calloc /\ SameCredit(c, b)
       /\ b.paid = [i \in Invoices |->
                      IF i \in L THEN Least(TotalPaid(c, i), c.total[i]) ELSE c.paid[i]]
       /\ b.balance = [i \in Invoices |->
                      IF i \in L THEN Monus(c.total[i], TotalPaid(c, i)) ELSE c.balance[i]]
       /\ b.status = [i \in Invoices |->
                      IF i \in L THEN StatusOf(i \in c.voidedInvoices,
                                               Monus(c.total[i], TotalPaid(c, i)))
                                 ELSE c.status[i]]
    BY <1>11, RecalculateFrame
<1>17. /\ SameIds(c2, b2) /\ SameBills(c2, b2) /\ SameReceipts(c2, b2)
       /\ b2.calloc = c2.calloc /\ SameCredit(c2, b2)
       /\ b2.paid = [i \in Invoices |->
                      IF i \in L THEN Least(TotalPaid(c2, i), c2.total[i]) ELSE c2.paid[i]]
       /\ b2.balance = [i \in Invoices |->
                      IF i \in L THEN Monus(c2.total[i], TotalPaid(c2, i)) ELSE c2.balance[i]]
       /\ b2.status = [i \in Invoices |->
                      IF i \in L THEN StatusOf(i \in c2.voidedInvoices,
                                               Monus(c2.total[i], TotalPaid(c2, i)))
                                 ELSE c2.status[i]]
    BY <1>11, RecalculateFrame
<1>18. b = [x \in Columns |-> b[x]] /\ b2 = [x \in Columns |-> b2[x]]
    BY <1>11, RecalculateIsRecord
<1>19. \A i \in Invoices : TotalPaid(c2, i) = TotalPaid(c, i)
    BY <1>12 DEF TotalPaid, ReceiptPaid, CreditPaid, RowsOf
<1> HIDE DEF b, b2
<1>20. SameCaches(c2, b)
    <2>1. DOMAIN b = Columns
        BY <1>18
    <2>2. e.paid = b.paid /\ e.balance = b.balance /\ e.status = b.status
        BY <1>8, <2>1, VerifyCreditFrame DEF SameCaches
    <2> QED
        BY <1>6, <2>2 DEF SameCaches
<1>21. SameCaches(b, b2)
    <2>1. c2.paid = b.paid /\ c2.balance = b.balance /\ c2.status = b.status
        BY <1>20 DEF SameCaches
    <2>2. c2.total = c.total /\ c2.voidedInvoices = c.voidedInvoices
        BY <1>13, <1>14 DEF SameIds, SameBills
    <2>3. b2.paid = b.paid
        BY <1>16, <1>17, <1>19, <2>1, <2>2
    <2>4. b2.balance = b.balance
        BY <1>16, <1>17, <1>19, <2>1, <2>2
    <2>5. b2.status = b.status
        BY <1>16, <1>17, <1>19, <2>1, <2>2
    <2> QED
        BY <2>3, <2>4, <2>5 DEF SameCaches
<1>22. SameIds(b, b2)
    BY <1>13, <1>16, <1>17 DEF SameIds
<1>23. SameBills(b, b2) /\ SameReceipts(b, b2) /\ b2.calloc = b.calloc
    BY <1>12, <1>14, <1>16, <1>17 DEF SameBills, SameReceipts
<1>24. SameCredit(b, b2)
    BY <1>15, <1>16, <1>17 DEF SameCredit
<1>25. b2 = b
    BY <1>18, <1>21, <1>22, <1>23, <1>24, SameColumns
<1> QED
    BY <1>8, <1>9, <1>25 DEF e
-----------------------------------------------------------------------------
(* The theorems                                                            *)

IInv == Sound(db)

\* The invariant holds of the empty database.
LEMMA InitIInv == Init => IInv
BY DEF Init, EmptyDb, IInv, Sound, Ids, RowsOnLive, NoCreditOnVoided, Columns

\* Every operation keeps it.
LEMMA NextIInv == IInv /\ [Next]_vars => IInv'
<1> SUFFICES ASSUME IInv, [Next]_vars
             PROVE  IInv'
    OBVIOUS
<1> USE DEF IInv
<1>1. CASE TakePayment
    BY <1>1, CreateReceiptSound DEF TakePayment, Commit, IsNext
<1>2. CASE CancelReceipt
    BY <1>2, VoidReceiptSound DEF CancelReceipt
<1>3. CASE IssueInvoice
    BY <1>3, SaveNewInvoiceSound DEF IssueInvoice, Commit, IsNext
<1>4. CASE ReviseInvoice
    BY <1>4, EditInvoiceSound DEF ReviseInvoice, Commit, InvoicesFor
<1>5. CASE CancelInvoice
    BY <1>5, VoidInvoiceSound DEF CancelInvoice, Commit
<1>6. CASE ReconcileNow
    BY <1>6, ReconcileSound DEF ReconcileNow, Commit
<1>7. CASE RebuildNow
    BY <1>7, RebuildSound DEF RebuildNow
<1>8. CASE ChangeExemption
    BY <1>8, RefreshExemptionRows, SameRowsSound DEF ChangeExemption, Sound, Ids
<1>9. CASE UNCHANGED vars
    BY <1>9 DEF vars
<1>10. QED
    BY <1>1, <1>2, <1>3, <1>4, <1>5, <1>6, <1>7, <1>8, <1>9 DEF Next

\* The rows and ids are sound in every reachable state: in particular a voided
\* document was issued, and every row belongs to the tables' ids.
THEOREM SoundAlways == Spec => []IInv
BY InitIInv, NextIInv, PTL DEF Spec

\* voidInvoice, and every operation after it, leaves no payment and no credit row on
\* the voided invoice.
THEOREM VoidedInvoicesStayEmpty == Spec => []VoidedInvoiceHoldsNoMoney
<1>1. IInv => VoidedInvoiceHoldsNoMoney
    BY DEF IInv, Sound, RowsOnLive, VoidedInvoiceHoldsNoMoney, RowsOf
<1>2. QED
    BY <1>1, SoundAlways, PTL

\* voidReceipt takes back the credit the receipt was given, and nothing (not even a
\* rebuild) gives it any again.
THEOREM VoidedReceiptsGiveNoCredit == Spec => []VoidedReceiptHoldsNoCredit
<1>1. IInv => VoidedReceiptHoldsNoCredit
    BY DEF IInv, Sound, NoCreditOnVoided, VoidedReceiptHoldsNoCredit
<1>2. QED
    BY <1>1, SoundAlways, PTL

\* After an explicit reconciliation, a rebuild, an edit or the voiding of an invoice,
\* the cached fields of every live invoice are what its rows add up to.
THEOREM ReconciliationRestoresCaches == Spec => ReconciledIsCoherent
<1> DEFINE Step == ReconcileNow \/ RebuildNow \/ ReviseInvoice \/ CancelInvoice
                      => \A i \in LiveInvoices(db') : CachedIsLedger(db', i)
<1>1. ASSUME IInv, [Next]_vars
      PROVE  [Step]_vars
    <2> USE DEF IInv
    <2>1. ASSUME ReconcileNow
          PROVE  \A i \in LiveInvoices(db') : CachedIsLedger(db', i)
        BY <1>1, <2>1, ReconcileCoherent DEF ReconcileNow, Commit
    <2>2. ASSUME RebuildNow
          PROVE  \A i \in LiveInvoices(db') : CachedIsLedger(db', i)
        BY <1>1, <2>2, RebuildSound DEF RebuildNow
    <2>3. ASSUME ReviseInvoice
          PROVE  \A i \in LiveInvoices(db') : CachedIsLedger(db', i)
        BY <1>1, <2>3, EditInvoiceSound DEF ReviseInvoice, Commit, InvoicesFor
    <2>4. ASSUME CancelInvoice
          PROVE  \A i \in LiveInvoices(db') : CachedIsLedger(db', i)
        BY <1>1, <2>4, VoidInvoiceSound DEF CancelInvoice, Commit
    <2>5. QED
        BY <2>1, <2>2, <2>3, <2>4
<1>2. QED
    BY <1>1, SoundAlways, PTL DEF Spec, ReconciledIsCoherent

\* So what voidInvoice and voidReceipt voided holds nothing, whatever follows.
THEOREM VoidedStayEmpty == Spec => []VoidedHoldsNothing
<1>1. VoidedInvoiceHoldsNoMoney /\ VoidedReceiptHoldsNoCredit => VoidedHoldsNothing
    BY DEF VoidedHoldsNothing
<1>2. QED
    BY <1>1, VoidedInvoicesStayEmpty, VoidedReceiptsGiveNoCredit, PTL

-----------------------------------------------------------------------------
(* Amounts                                                                 *)

\* The bill after an exemption that is accepted is an amount.
LEMMA InputsTyped ==
    ASSUME NEW bill \in Bills, NEW x \in Exemptions, NEW date, NEW due,
           InvoiceIsValid(bill, x, date, due)
    PROVE  NetBill(bill, x) \in Nat
<1>1. bill \in [food : Nat, other : Nat] /\ x \in ExemptionRows
    BY InputsAssumption
<1> QED
    BY <1>1, ExemptedAtMostHalf

\* Every operation keeps the receipts balanced, and none but voiding an invoice loses money.
LEMMA BalancedStep ==
    ASSUME Balanced(db), [Next]_vars
    PROVE  /\ Balanced(db)'
           /\ CancelInvoice \/ LosesNothing(db, db')
<1> USE DEF Balanced
<1>1. CASE TakePayment
    BY <1>1, CreateReceiptBalanced, InputsAssumption DEF TakePayment, Commit, IsNext
<1>2. CASE CancelReceipt
    BY <1>2, VoidReceiptBalanced DEF CancelReceipt
<1>3. CASE IssueInvoice
    <2>1. PICK i \in Invoices, t \in Terms, bill \in Bills, x \in Exemptions,
               date \in Dates, due \in Dates :
                 /\ InvoiceIsValid(bill, x, date, due)
                 /\ db' = SaveNewInvoice(db, i, t, NetBill(bill, x), date, due).db
        BY <1>3 DEF IssueInvoice, Commit
    <2>2. NetBill(bill, x) \in Nat
        BY <2>1, InputsTyped
    <2> QED
        BY <2>1, <2>2, SaveNewInvoiceTyped, SameReceiptsBalanced
<1>4. CASE ReviseInvoice
    <2>1. PICK t \in Terms, bill \in Bills, x \in Exemptions, date \in Dates, due \in Dates :
            \E i \in InvoicesFor(db, t) :
                 /\ InvoiceIsValid(bill, x, date, due)
                 /\ db' = EditInvoice(db, i, NetBill(bill, x), date, due).db
        BY <1>4 DEF ReviseInvoice, Commit
    <2>2. PICK i \in LiveInvoices(db) :
                 /\ InvoiceIsValid(bill, x, date, due)
                 /\ db' = EditInvoice(db, i, NetBill(bill, x), date, due).db
        BY <2>1 DEF InvoicesFor
    <2>3. NetBill(bill, x) \in Nat
        BY <2>2, InputsTyped
    <2> QED
        BY <2>2, <2>3, EditInvoiceTyped, SameReceiptsBalanced DEF SameIds
<1>5. CASE CancelInvoice
    BY <1>5, VoidInvoiceBalanced DEF CancelInvoice, Commit
<1>6. CASE ReconcileNow
    BY <1>6, ReconcileTyped, SameReceiptsBalanced DEF ReconcileNow, Commit, SameIds
<1>7. CASE RebuildNow
    BY <1>7, RebuildBalanced DEF RebuildNow
<1>8. CASE ChangeExemption
    BY <1>8, RefreshExemptionTyped, SameReceiptsBalanced DEF ChangeExemption, SameIds
<1>9. CASE UNCHANGED vars
    BY <1>9, SameReceiptsBalanced DEF vars, SameReceipts
<1> QED
    BY <1>1, <1>2, <1>3, <1>4, <1>5, <1>6, <1>7, <1>8, <1>9 DEF Next

\* The inductive invariant of the amounts holds in every reachable state.
THEOREM BalancedAlways == Spec => []Balanced(db)
<1>1. Init => Balanced(db)
    BY EmptyDbBalanced DEF Init
<1>2. Balanced(db) /\ [Next]_vars => Balanced(db)'
    BY BalancedStep
<1> QED
    BY <1>1, <1>2, PTL DEF Spec

\* Whatever operations follow one another, the columns hold what their types allow: no
\* operation takes a balance, a paid amount, a row or the credit below zero.
THEOREM LedgerTypeCorrect == Spec => []TypeOK
<1>1. Balanced(db) => TypeOK
    BY DEF Balanced, Typed, Ids, TypedBills, TypedCaches, TypedRows, TypedCredit, TypeOK
<1> QED
    BY <1>1, BalancedAlways, PTL

\* No receipt is ever spent beyond its amount, counting the invoices it pays and the
\* credit it was given (what verifyReceiptAllocations checks for each receipt).
THEOREM ReceiptsNeverOverspent == Spec => []ReceiptNeverOverspent
<1>1. Balanced(db) => ReceiptNeverOverspent
    BY DEF Balanced, ReceiptNeverOverspent
<1> QED
    BY <1>1, BalancedAlways, PTL

\* No operation but the voiding of an invoice makes money of a live receipt vanish from
\* the rows, beyond the tolerance.
THEOREM OnlyVoidingLosesMoney == Spec => OnlyInvoiceVoidLosesMoney
<1> DEFINE Step == ~CancelInvoice =>
                     \A r \in LiveReceipts(db') :
                         Unplaced(db', r) <= Tol \/ Unplaced(db', r) <= Unplaced(db, r)
<1>1. Balanced(db) /\ [Next]_vars => [Step]_vars
    BY BalancedStep DEF LosesNothing
<1> QED
    BY <1>1, BalancedAlways, PTL DEF Spec, OnlyInvoiceVoidLosesMoney

\* In every state that payments, invoices, edits, voids, reconciliations and rebuilds can
\* leave, a rebuild is idempotent, places all the money of the live receipts with the
\* invoices first, and makes and loses none.
THEOREM RebuildsAreSound == Spec => []RebuildIsSound
<1>1. ASSUME Balanced(db), IInv
      PROVE  RebuildIsSound
    <2>1. SUFFICES ASSUME NEW d, d = db
                   PROVE  /\ Rebuild(Rebuild(d)) = Rebuild(d)
                          /\ AllMoneyPlaced(Rebuild(d))
                          /\ VoidedPayNothing(d) => MoneyConserved(Rebuild(d))
        BY DEF RebuildIsSound, RebuildIdempotent, RebuildPlacesAllMoney, RebuildConservesMoney,
               VoidedPayNothing
    <2>2. Balanced(d) /\ Typed(d) /\ Sound(d)
        BY <1>1, <2>1 DEF Balanced, IInv
    <2> QED
        BY <2>2, RebuildTwice, RebuildPlaces, RebuildConserves
<1> QED
    BY <1>1, BalancedAlways, SoundAlways, PTL

-----------------------------------------------------------------------------
(* Where credit rows come from                                             *)

\* Every credit row of e is of an invoice of L or of one that has a credit row in d.
RowsFrom(d, e, L) == \A c \in e.calloc : c.inv \in L \/ \E b \in d.calloc : b.inv = c.inv

\* Credit applied to an invoice is at most a row of that invoice.
LEMMA ApplyCreditRowsFrom ==
    ASSUME NEW d, DOMAIN d = Columns, NEW i, NEW owed
    PROVE  RowsFrom(d, ApplyCredit(d, i, owed), {i})
<1> DEFINE x   == CreditToApply(d, owed)
           row == CreditRow(d, i, x, CreditSource(d, x))
           e   == [d EXCEPT !.credit = @ - x]
           f   == VerifyCredit(e)
           g   == [f EXCEPT !.calloc = @ \union {row}]
<1>1. SameRows(e, f) /\ DOMAIN e = Columns /\ e.calloc = d.calloc
    BY VerifyCreditRows DEF Columns
<1>2. f.calloc = d.calloc /\ DOMAIN f = Columns
    BY <1>1 DEF SameRows, SameIds
<1>3. row.inv = i
    BY DEF CreditRow
<1> HIDE DEF row, f
<1>4. g.calloc = d.calloc \union {row}
    BY <1>2 DEF Columns
<1>5. ApplyCredit(d, i, owed) = IF x = 0 THEN d ELSE g
    BY DEF ApplyCredit, DeductCredit, row, f
<1> HIDE DEF g, x
<1> QED
    BY <1>3, <1>4, <1>5 DEF RowsFrom

\* What a reconciliation spends goes to a live invoice.
LEMMA SpendCreditRowsFrom ==
    ASSUME NEW d, DOMAIN d = Columns
    PROVE  RowsFrom(d, SpendCredit(d), LiveInvoices(d))
<1> DEFINE oldest == First({i \in LiveInvoices(d) : d.balance[i] > Tol}, d.date)
           i      == CHOOSE i \in oldest : TRUE
<1>1. CASE oldest = {}
    BY <1>1 DEF SpendCredit, RowsFrom
<1>2. CASE oldest # {}
    <2>1. i \in oldest
        BY <1>2
    <2>2. i \in LiveInvoices(d)
        BY <2>1 DEF First
    <2>3. SpendCredit(d) = ApplyCredit(d, i, d.balance[i])
        BY <1>2 DEF SpendCredit
    <2> HIDE DEF i, oldest
    <2>4. RowsFrom(d, ApplyCredit(d, i, d.balance[i]), {i})
        BY ApplyCreditRowsFrom
    <2> QED
        BY <2>2, <2>3, <2>4 DEF RowsFrom
<1> QED
    BY <1>1, <1>2

\* A reconciliation adds rows to live invoices only.
LEMMA ReconcileOfRowsFrom ==
    ASSUME NEW d, Typed(d), NEW S \in SUBSET Invoices
    PROVE  RowsFrom(d, ReconcileOf(d, S).db, LiveInvoices(d))
<1> DEFINE L == LiveInvoices(d)
           b == UnlinkVoided(d)
           c == CorrectOverpayments(b, S)
           f == Recalculate(c.db, L)
           g == VerifyCredit(f)
           h == SpendCredit(g)
           k == Recalculate(h, L)
<1>0. ReconcileOf(d, S) = IF ~c.ok THEN c ELSE [ok |-> TRUE, db |-> k]
    BY DEF ReconcileOf, Settle
<1>1. SameRows(d, b) /\ DOMAIN b = Columns
    BY UnlinkVoidedRows DEF SameRows, SameIds, Typed, Ids
<1> HIDE DEF b
<1>2. SameRows(b, c.db) /\ DOMAIN c.db = Columns
    BY <1>1, CorrectOverpaymentsRows DEF SameRows, SameIds
<1> HIDE DEF c
<1>3. SameRows(c.db, f) /\ DOMAIN f = Columns
    BY <1>2, RecalculateRows DEF SameRows, SameIds
<1> HIDE DEF f
<1>4. SameRows(f, g) /\ DOMAIN g = Columns
    BY <1>3, VerifyCreditRows DEF SameRows, SameIds
<1> HIDE DEF g
<1>5. g.calloc = d.calloc /\ LiveInvoices(g) = L /\ c.db.calloc = d.calloc
    BY <1>1, <1>2, <1>3, <1>4 DEF SameRows, SameIds, LiveInvoices
<1>6. RowsFrom(g, h, LiveInvoices(g)) /\ DOMAIN h = Columns
    BY <1>4, SpendCreditRowsFrom DEF SpendCredit, ApplyCredit, DeductCredit, VerifyCredit
<1> HIDE DEF h
<1>7. k.calloc = h.calloc
    BY <1>6, RecalculateRows DEF SameRows
<1> HIDE DEF k, L
<1> QED
    BY <1>0, <1>5, <1>6, <1>7 DEF RowsFrom, L

\* Neither does banking what is left of a payment.
LEMMA BankRestRowsFrom ==
    ASSUME NEW paid, Typed(paid), NEW r \in Receipts, NEW left \in Nat
    PROVE  RowsFrom(paid, BankRest(paid, r, left).db, LiveInvoices(paid))
<1> DEFINE raised   == [paid EXCEPT !.hasCredit = TRUE, !.credit = @ + left]
           added    == AddCredit(paid, left)
           banked   == [added EXCEPT !.rcred[r] = left]
           credited == IF left > Tol THEN banked ELSE paid
<1>1. BankRest(paid, r, left).db = ReconcileOf(credited, LiveInvoices(credited)).db
    BY DEF BankRest, Reconcile
<1>2. SameRows(paid, raised) /\ DOMAIN raised = Columns
    BY DEF Typed, Ids, SameRows, SameIds, Columns
<1>3. SameRows(raised, added)
    BY <1>2, VerifyCreditRows DEF AddCredit
<1>4. Typed(added)
    BY AddCreditTyped
<1> HIDE DEF added
<1>5. /\ Typed(banked) /\ SameIds(added, banked) /\ SameBills(added, banked)
      /\ banked.amount = added.amount
      /\ banked.alloc = added.alloc /\ banked.rcred = [added.rcred EXCEPT ![r] = left]
    BY <1>4, SetReceiptCreditTyped
<1>6. banked.calloc = added.calloc
    BY <1>4 DEF Typed, Ids, Columns
<1> HIDE DEF banked
<1>7. /\ Typed(credited) /\ credited.calloc = paid.calloc
      /\ LiveInvoices(credited) = LiveInvoices(paid)
    BY <1>2, <1>3, <1>5, <1>6 DEF SameRows, SameIds, LiveInvoices
<1> HIDE DEF credited
<1>8. LiveInvoices(credited) \in SUBSET Invoices
    BY <1>7 DEF LiveInvoices, Typed, Ids
<1>9. RowsFrom(credited, ReconcileOf(credited, LiveInvoices(credited)).db, LiveInvoices(credited))
    BY <1>7, <1>8, ReconcileOfRowsFrom
<1> QED
    BY <1>1, <1>7, <1>9 DEF RowsFrom

\* A new invoice may get a row besides.
LEMMA BilledRowsFrom ==
    ASSUME NEW d, Typed(d), NEW i \in Invoices \ d.invoices, NEW t \in Terms, NEW net \in Nat,
           NEW date \in Dates, NEW due \in Dates, NEW pre, NEW src
    PROVE  RowsFrom(d, Billed(d, i, t, net, date, due, pre, src).db, LiveInvoices(d) \union {i})
<1> DEFINE inserted == Inserted(d, i, t, net, date, due)
           e == Reconcile(inserted).db
           row == CreditRow(e, i, pre, src)
           f == [e EXCEPT !.calloc = @ \union {row}]
<1>1. /\ Typed(inserted) /\ SameReceipts(d, inserted)
      /\ inserted.invoices = d.invoices \union {i} /\ inserted.voidedInvoices = d.voidedInvoices
      /\ inserted.receipts = d.receipts /\ inserted.voidedReceipts = d.voidedReceipts
    BY InsertedTyped
<1>2. inserted.calloc = d.calloc
    BY DEF Inserted, Typed, Ids, Columns
<1> HIDE DEF inserted
<1>3. LiveInvoices(inserted) \in SUBSET Invoices
    BY <1>1 DEF LiveInvoices, Typed, Ids
<1>4. RowsFrom(inserted, e, LiveInvoices(inserted)) /\ Typed(e)
    BY <1>1, <1>3, ReconcileOfRowsFrom, ReconcileTyped DEF Reconcile
<1>5. row.inv = i
    BY DEF CreditRow
<1> HIDE DEF e, row
<1>6. f.calloc = e.calloc \union {row}
    BY <1>4 DEF Typed, Ids, Columns
<1>7. Billed(d, i, t, net, date, due, pre, src).db \in {e, f}
    BY BilledIs DEF e, row, inserted
<1>8. LiveInvoices(inserted) \subseteq LiveInvoices(d) \union {i}
    BY <1>1 DEF LiveInvoices
<1> HIDE DEF f
<1> QED
    BY <1>2, <1>4, <1>5, <1>6, <1>7, <1>8 DEF RowsFrom

-----------------------------------------------------------------------------
(* Overlapping transactions: what an open one holds                        *)

DeskFields == {"kind", "id", "amount", "term", "touched", "voided", "rows", "terms", "receipts",
               "share", "applied", "credit", "source", "renewed", "fresh", "alone"}

TypedCopies(rows) ==
    /\ rows.date \in [Invoices -> Dates] /\ rows.due \in [Invoices -> Dates]
    /\ rows.total \in [Invoices -> Nat] /\ rows.paid \in [Invoices -> Nat]
    /\ rows.balance \in [Invoices -> Nat] /\ rows.status \in [Invoices -> Statuses]

TypedDesk(t) ==
    /\ DOMAIN t = DeskFields
    /\ t.kind \in {"idle", "payment", "void", "invoice", "cancel", "reconcile", "rebuild"}
    /\ t.amount \in Nat /\ t.applied \in Nat /\ t.credit \in Nat
    /\ t.source \in Receipts \union {NoReceipt}
    /\ t.share \in [Invoices -> Nat]
    /\ t.terms \in [Invoices -> Terms \union {NoTerm}]
    /\ TypedCopies(t.rows)

\* No row puts money on invoice i.
Bare(d, i) == (\A r \in Receipts : d.alloc[r][i] = 0) /\ \A c \in d.calloc : c.inv # i

\* Receipt r is not overspent, and gives no credit once it is void.
Within(d, r) ==
    /\ Allocated(d, r) + d.rcred[r] <= d.amount[r]
    /\ r \in d.voidedReceipts => ~(d.rcred[r] > 0)

\* d is in order, the invoices and receipts of X aside.
Excused(d, X) ==
    /\ Typed(d) /\ TermsOnce(d)
    /\ \A i \in d.voidedInvoices : i \notin X.invoices => Bare(d, i)
    /\ \A r \in Receipts : r \notin X.receipts => Within(d, r)
    /\ \A r \in Receipts \ d.receipts : d.amount[r] = 0

\* What no other transaction can take from an open one: its id is still free, or still
\* issued; its shares are within its amount, and on invoices it writes; the voided invoices
\* of a receipt it voids held money then.
Holds(d, X, t) ==
    /\ t.voided \subseteq d.invoices
    /\ t.kind = "payment" =>
          /\ t.id \in Receipts \ d.receipts
          /\ SumFunctionOnSet(t.share, Invoices) <= t.amount
          /\ \A i \in Invoices \ t.touched : t.share[i] = 0
    /\ t.kind = "void" => t.id \in d.receipts /\ t.voided \subseteq X.invoices
    /\ t.kind = "invoice" => t.id \in Invoices \ d.invoices /\ t.term \in Terms
    /\ t.kind = "cancel" => t.id \in d.invoices /\ t.voided = {t.id}
    /\ t.kind = "reconcile" => t.touched \in SUBSET Invoices
    /\ t.kind = "rebuild" => t.touched \subseteq d.invoices /\ t.receipts \subseteq d.receipts

\* What it read is what d has, and nobody has added a row.
Current(d, t) ==
    /\ t.renewed = {} /\ t.fresh = {}
    /\ t.kind = "payment" =>
          /\ t.share = Shares(d, t.amount) /\ t.voided = {}
          /\ t.touched = {i \in Invoices : t.share[i] > 0}
          /\ t.rows = Rows(PayInvoices(d, t.id, t.amount), t.touched)
    /\ t.kind = "void" =>
          /\ t.id \in LiveReceipts(d)
          /\ t.touched = {i \in Invoices : d.alloc[t.id][i] > 0}
          /\ t.voided = t.touched \intersect d.voidedInvoices
          /\ t.rows = Rows(ReleaseInvoices(d, t.id), t.touched)
          /\ t.amount = Monus(d.amount[t.id], Allocated(d, t.id))
    /\ t.kind = "invoice" =>
          /\ t.applied = CreditToApply(d, t.amount)
          /\ t.credit = d.credit - t.applied
          /\ t.source = CreditSource(d, t.applied)
    /\ t.kind = "cancel" =>
          /\ t.id \in LiveInvoices(d) /\ t.touched = {t.id} /\ t.voided = {t.id}
          /\ t.amount = CreditPaid(d, t.id)
          /\ t.rows = Rows(Recalculate([d EXCEPT !.voidedInvoices = @ \union {t.id}], {t.id}), {t.id})
    /\ t.kind = "reconcile" => t.touched = LiveInvoices(d)
    /\ t.kind = "rebuild" =>
          /\ t.touched = LiveInvoices(d) /\ t.receipts = LiveReceipts(d)
          /\ t.terms = [i \in Invoices |-> IF i \in LiveInvoices(d) THEN d.term[i] ELSE NoTerm]

\* Ids come from sequences, and a transaction keeps the one it drew.
OwnIds ==
    \A p, q \in Requests :
        p # q /\ desk[p].kind = desk[q].kind /\ desk[p].kind \in {"payment", "invoice"}
        => desk[p].id # desk[q].id

DesksInv ==
    /\ DOMAIN desk = Requests
    /\ OwnIds
    /\ \A q \in Requests : /\ TypedDesk(desk[q]) /\ Holds(db, crossed, desk[q])
                           /\ desk[q].alone => Current(db, desk[q])

\* Only a receipt that is crossed has several credit rows.
Doubled(ds, X) ==
    /\ DOMAIN X = {"invoices", "receipts"}
    /\ ds \in [Receipts -> SUBSET Nat]
    /\ \A r \in Receipts : ds[r] # {} => r \in X.receipts

\* The inductive invariant of the overlapping transactions.
TxInv == Excused(db, crossed) /\ Doubled(doubles, crossed) /\ DesksInv

-----------------------------------------------------------------------------
(* Writing what was read                                                   *)

\* Copies of invoices, written back, bring no type down; they may make a voided invoice live.
LEMMA WriteInvoicesTyped ==
    ASSUME NEW d, Typed(d), NEW t, TypedCopies(t.rows), t.voided \subseteq d.invoices, NEW W
    PROVE  LET e == WriteInvoices(d, t, W)
           IN /\ Typed(e) /\ SameReceipts(d, e) /\ SameCredit(d, e) /\ e.calloc = d.calloc
              /\ e.term = d.term /\ e.invoices = d.invoices
              /\ e.voidedInvoices = (d.voidedInvoices \ W) \union (W \intersect t.voided)
              /\ e.receipts = d.receipts /\ e.voidedReceipts = d.voidedReceipts
<1> DEFINE rows == t.rows
           S == t.touched
           V == (d.voidedInvoices \ W) \union (W \intersect t.voided)
           kept(new, old) == [i \in Invoices |-> IF i \in S THEN new[i] ELSE old[i]]
           date == kept(rows.date, d.date)
           due == kept(rows.due, d.due)
           total == kept(rows.total, d.total)
           paid == kept(rows.paid, d.paid)
           balance == kept(rows.balance, d.balance)
           status == kept(rows.status, d.status)
           e == WriteInvoices(d, t, W)
<1>1. DOMAIN d = Columns
    BY DEF Typed, Ids
<1>2. /\ DOMAIN e = Columns
      /\ e.invoices = d.invoices /\ e.voidedInvoices = V
      /\ e.receipts = d.receipts /\ e.voidedReceipts = d.voidedReceipts
      /\ SameReceipts(d, e) /\ SameCredit(d, e) /\ e.calloc = d.calloc /\ e.term = d.term
      /\ e.date = date /\ e.due = due /\ e.total = total
      /\ e.paid = paid /\ e.balance = balance /\ e.status = status
    BY <1>1 DEF WriteInvoices, SameReceipts, SameCredit, Columns
<1>2a. V \subseteq d.invoices
    BY DEF Typed, Ids
<1> HIDE DEF e, rows, V
<1>3. date \in [Invoices -> Dates] /\ due \in [Invoices -> Dates]
    BY DEF TypedCopies, Typed, TypedBills, rows
<1>4. total \in [Invoices -> Nat]
    BY DEF TypedCopies, Typed, TypedBills, rows
<1>5. paid \in [Invoices -> Nat] /\ balance \in [Invoices -> Nat]
    BY DEF TypedCopies, Typed, TypedCaches, rows
<1>6. status \in [Invoices -> Statuses]
    BY DEF TypedCopies, Typed, TypedCaches, rows
<1> HIDE DEF date, due, total, paid, balance, status
<1>7. Ids(e)
    BY <1>2, <1>2a DEF Typed, Ids, SameReceipts
<1>8. TypedBills(e)
    BY <1>2, <1>3, <1>4 DEF Typed, TypedBills
<1>9. TypedCaches(e)
    BY <1>2, <1>5, <1>6 DEF TypedCaches
<1>10. TypedRows(e) /\ TypedCredit(e)
    BY <1>2 DEF Typed, TypedRows, TypedCredit, SameReceipts, SameCredit
<1> QED
    BY <1>2, <1>7, <1>8, <1>9, <1>10 DEF Typed, e, V

\* The receipt row and its allocations.
Recorded(d, r, x, share) ==
    [d EXCEPT !.receipts = @ \union {r}, !.amount[r] = x, !.alloc[r] = share]

\* What a database with them has of the one without.
HasRecorded(d, r, x, share, e) ==
    /\ Typed(e) /\ SameBills(d, e) /\ e.calloc = d.calloc /\ e.rcred = d.rcred
    /\ e.invoices = d.invoices /\ e.voidedInvoices = d.voidedInvoices
    /\ e.receipts = d.receipts \union {r} /\ e.voidedReceipts = d.voidedReceipts
    /\ e.amount = [d.amount EXCEPT ![r] = x]
    /\ e.alloc = [d.alloc EXCEPT ![r] = share]

\* Saving them keeps the types.
LEMMA RecordedTyped ==
    ASSUME NEW d, Typed(d), NEW r \in Receipts, NEW x \in Nat, NEW share \in [Invoices -> Nat]
    PROVE  HasRecorded(d, r, x, share, Recorded(d, r, x, share))
<1> DEFINE e == Recorded(d, r, x, share)
<1>1. DOMAIN d = Columns
    BY DEF Typed, Ids
<1>2. /\ DOMAIN e = Columns
      /\ e.invoices = d.invoices /\ e.voidedInvoices = d.voidedInvoices
      /\ e.receipts = d.receipts \union {r} /\ e.voidedReceipts = d.voidedReceipts
      /\ SameBills(d, e) /\ SameCaches(d, e) /\ SameCredit(d, e)
      /\ e.calloc = d.calloc /\ e.rcred = d.rcred
      /\ e.amount = [d.amount EXCEPT ![r] = x]
      /\ e.alloc = [d.alloc EXCEPT ![r] = share]
    BY <1>1 DEF Recorded, SameBills, SameCaches, SameCredit, Columns
<1> HIDE DEF e
<1>3. e.amount \in [Receipts -> Nat] /\ e.alloc \in [Receipts -> [Invoices -> Nat]]
    <2>1. d.amount \in [Receipts -> Nat] /\ d.alloc \in [Receipts -> [Invoices -> Nat]]
        BY DEF Typed, TypedRows
    <2>2. e.amount = [d.amount EXCEPT ![r] = x] /\ e.alloc = [d.alloc EXCEPT ![r] = share]
        BY <1>2
    <2> QED
        BY <2>1, <2>2
<1>4. TypedRows(e)
    BY <1>2, <1>3 DEF Typed, TypedRows
<1>5. Ids(e)
    <2>1. DOMAIN e.alloc = Receipts /\ (\A q \in Receipts : DOMAIN e.alloc[q] = Invoices)
        BY <1>3
    <2> QED
        BY <1>2, <2>1 DEF Typed, Ids
<1>6. TypedBills(e) /\ TypedCaches(e) /\ TypedCredit(e)
    BY <1>2 DEF Typed, TypedBills, TypedCaches, TypedCredit, SameBills, SameCaches, SameCredit
<1>7. Typed(e)
    BY <1>4, <1>5, <1>6 DEF Typed
<1>8. HasRecorded(d, r, x, share, e)
    BY <1>2, <1>7 DEF HasRecorded
<1> QED
    BY <1>8 DEF e

\* The receipt marked void.
Voiding(d, r) == [d EXCEPT !.voidedReceipts = @ \union {r}]

\* Marking an issued receipt void keeps the types and every other column.
LEMMA VoidingTyped ==
    ASSUME NEW d, Typed(d), NEW r \in d.receipts
    PROVE  LET e == Voiding(d, r)
           IN /\ Typed(e) /\ SameReceipts(d, e) /\ e.term = d.term /\ e.calloc = d.calloc
              /\ e.invoices = d.invoices /\ e.voidedInvoices = d.voidedInvoices
              /\ e.receipts = d.receipts /\ e.voidedReceipts = d.voidedReceipts \union {r}
<1> DEFINE e == Voiding(d, r)
<1>1. DOMAIN d = Columns
    BY DEF Typed, Ids
<1>2. /\ DOMAIN e = Columns /\ SameReceipts(d, e) /\ SameBills(d, e) /\ SameCaches(d, e)
      /\ SameCredit(d, e) /\ e.calloc = d.calloc
      /\ e.invoices = d.invoices /\ e.voidedInvoices = d.voidedInvoices
      /\ e.receipts = d.receipts /\ e.voidedReceipts = d.voidedReceipts \union {r}
    BY <1>1 DEF Voiding, SameReceipts, SameBills, SameCaches, SameCredit, Columns
<1> HIDE DEF e
<1>3. Ids(e) /\ TypedRows(e)
    BY <1>2 DEF Typed, Ids, TypedRows, SameReceipts
<1>4. TypedBills(e) /\ TypedCaches(e) /\ TypedCredit(e)
    BY <1>2 DEF Typed, TypedBills, TypedCaches, TypedCredit, SameBills, SameCaches, SameCredit
<1> QED
    BY <1>2, <1>3, <1>4 DEF Typed, SameBills, e

-----------------------------------------------------------------------------
(* What a transaction commits                                              *)

\* e is in order, Y aside, and has the invoice or the receipt of the transaction t besides
\* those of d; what was crossed stays crossed.
Kept(d, X, t, e, Y) ==
    /\ Excused(e, Y) /\ X.invoices \subseteq Y.invoices /\ X.receipts \subseteq Y.receipts
    /\ e.invoices = d.invoices \union (IF t.kind = "invoice" THEN {t.id} ELSE {})
    /\ e.receipts = d.receipts \union (IF t.kind = "payment" THEN {t.id} ELSE {})

\* Y crosses the invoices I and receipts R besides those of X.
Crossing(X, I, R, Y) == Y.invoices = X.invoices \union I /\ Y.receipts = X.receipts \union R

\* Bare invoices stay bare where a database has the same allocations, and credit rows of
\* other invoices only.
LEMMA BareStays ==
    ASSUME NEW d, NEW e, NEW L, RowsFrom(d, e, L), NEW i, i \notin L, Bare(d, i),
           \A r \in Receipts : e.alloc[r][i] = d.alloc[r][i]
    PROVE  Bare(e, i)
BY DEF Bare, RowsFrom

\* Receipts stay within their amounts where nothing of them moves.
LEMMA SameWithin ==
    ASSUME NEW d, NEW e, NEW r, Within(d, r), e.alloc[r] = d.alloc[r],
           e.rcred[r] = d.rcred[r], e.amount[r] = d.amount[r],
           r \in e.voidedReceipts => r \in d.voidedReceipts
    PROVE  Within(e, r)
BY DEF Within, Allocated

\* A new receipt is within its amount if its shares are and the rest is its credit.
LEMMA NewReceiptWithin ==
    ASSUME NEW d, Typed(d), NEW r \in Receipts \ d.receipts, Within(d, r), d.amount[r] = 0,
           NEW x \in Nat, NEW share \in [Invoices -> Nat], NEW left \in Nat,
           left = x - SumFunctionOnSet(share, Invoices),
           NEW e, e.amount[r] = x, e.alloc[r] = share, r \notin e.voidedReceipts,
           e.rcred[r] = IF left > Tol THEN left ELSE d.rcred[r]
    PROVE  Within(e, r)
<1> DEFINE s == SumFunctionOnSet(share, Invoices)
<1>1. \A i \in Invoices : share[i] \in Nat
    OBVIOUS
<1>2. s \in Nat
    BY <1>1, SumNat, IdsAssumption
<1>3. d.rcred[r] = 0
    <2>1. Allocated(d, r) \in Nat /\ d.rcred[r] \in Nat
        BY HeldIsInt
    <2>2. Allocated(d, r) + d.rcred[r] <= 0
        BY DEF Within
    <2> QED
        BY <2>1, <2>2
<1>4. Allocated(e, r) = s
    BY DEF Allocated
<1>5. left = x - s
    OBVIOUS
<1> HIDE DEF s
<1>6. Allocated(e, r) + e.rcred[r] <= e.amount[r]
    <2>1. CASE left > Tol
        BY <1>2, <1>4, <1>5, <2>1
    <2>2. CASE ~(left > Tol)
        BY <1>2, <1>3, <1>4, <1>5, <2>2
    <2> QED
        BY <2>1, <2>2
<1> QED
    BY <1>6 DEF Within

\* A payment that finishes on a database that others changed is banked as it was shared out.
\* A voided invoice that it writes is crossed.
LEMMA PaymentKeeps ==
    ASSUME NEW d, NEW X, Excused(d, X), NEW t, TypedDesk(t), Holds(d, X, t), t.kind = "payment",
           NEW W \in SUBSET t.touched
    PROVE  LET onto == Recorded(WriteInvoices(d, t, W), t.id, t.amount, t.share)
               e    == BankRest(onto, t.id, t.amount - Allocated(onto, t.id)).db
           IN \A Y : Crossing(X, t.touched \ LiveInvoices(e), {}, Y) => Kept(d, X, t, e, Y)
<1> DEFINE r    == t.id
           share == t.share
           x    == t.amount
           w    == WriteInvoices(d, t, W)
           onto == Recorded(w, r, x, share)
           left == x - Allocated(onto, r)
           e    == BankRest(onto, r, left).db
<1>1. /\ r \in Receipts \ d.receipts /\ x \in Nat /\ share \in [Invoices -> Nat]
      /\ SumFunctionOnSet(share, Invoices) <= x /\ t.kind = "payment"
      /\ \A i \in Invoices \ t.touched : share[i] = 0
      /\ TypedCopies(t.rows) /\ Typed(d) /\ TermsOnce(d) /\ t.voided \subseteq d.invoices
    BY DEF TypedDesk, Holds, Excused
<1>2. /\ Typed(w) /\ SameReceipts(d, w) /\ w.term = d.term /\ w.calloc = d.calloc
      /\ w.invoices = d.invoices
      /\ w.voidedInvoices = (d.voidedInvoices \ W) \union (W \intersect t.voided)
      /\ w.receipts = d.receipts /\ w.voidedReceipts = d.voidedReceipts
    BY <1>1, WriteInvoicesTyped
<1> HIDE DEF w, r, share, x
<1>4. /\ Typed(onto) /\ SameBills(w, onto) /\ onto.rcred = w.rcred /\ onto.calloc = w.calloc
      /\ onto.invoices = w.invoices /\ onto.receipts = w.receipts \union {r}
      /\ onto.voidedInvoices = w.voidedInvoices /\ onto.voidedReceipts = w.voidedReceipts
      /\ onto.amount = [w.amount EXCEPT ![r] = x]
      /\ onto.alloc = [w.alloc EXCEPT ![r] = share]
    <2>1. HasRecorded(w, r, x, share, onto)
        BY <1>1, <1>2, RecordedTyped
    <2> HIDE DEF onto
    <2> QED
        BY <2>1 DEF HasRecorded
<1>6. TermsOnce(onto)
    BY <1>1, <1>2, <1>4, SameTermsOnce DEF SameBills
<1> HIDE DEF onto
<1>7. left = x - SumFunctionOnSet(share, Invoices) /\ left \in Nat
    <2>1. onto.alloc[r] = share
        BY <1>1, <1>2, <1>4 DEF Typed, TypedRows
    <2>2. left = x - SumFunctionOnSet(share, Invoices)
        BY <2>1 DEF Allocated
    <2>3. \A i \in Invoices : share[i] \in Nat
        BY <1>1
    <2>4. SumFunctionOnSet(share, Invoices) \in Nat
        BY <2>3, SumNat, IdsAssumption
    <2> HIDE DEF left
    <2> QED
        BY <1>1, <2>2, <2>4
<1> HIDE DEF left
<1>8. /\ Typed(e) /\ SameIds(onto, e) /\ e.amount = onto.amount /\ e.alloc = onto.alloc
      /\ e.rcred = IF left > Tol THEN [onto.rcred EXCEPT ![r] = left] ELSE onto.rcred
      /\ (TermsOnce(onto) => TermsOnce(e))
    BY <1>1, <1>4, <1>7, BankRestTyped
<1>9. RowsFrom(onto, e, LiveInvoices(onto))
    BY <1>1, <1>4, <1>7, BankRestRowsFrom
<1> HIDE DEF e
<1>10. /\ e.receipts = d.receipts \union {r} /\ e.voidedReceipts = d.voidedReceipts
       /\ e.invoices = d.invoices /\ e.voidedInvoices = onto.voidedInvoices
       /\ LiveInvoices(onto) = LiveInvoices(e)
    BY <1>2, <1>4, <1>8 DEF SameIds, LiveInvoices
<1>11. /\ e.amount = [d.amount EXCEPT ![r] = x] /\ e.alloc = [d.alloc EXCEPT ![r] = share]
       /\ e.rcred = IF left > Tol THEN [d.rcred EXCEPT ![r] = left] ELSE d.rcred
    BY <1>2, <1>4, <1>8 DEF SameReceipts
<1>11a. /\ d.alloc \in [Receipts -> [Invoices -> Nat]] /\ d.amount \in [Receipts -> Nat]
        /\ d.rcred \in [Receipts -> Nat]
    BY <1>1 DEF Typed, TypedRows
<1>12. ASSUME NEW i \in e.voidedInvoices, i \notin X.invoices, i \notin t.touched \ LiveInvoices(e)
       PROVE  Bare(e, i)
    <2>1. i \notin LiveInvoices(e) /\ i \notin t.touched /\ i \in Invoices
        BY <1>8, <1>12 DEF LiveInvoices, Typed, Ids
    <2>2. i \in d.voidedInvoices
        BY <1>2, <1>4, <1>10, <1>12, <2>1
    <2>3. Bare(d, i)
        BY <1>12, <2>2 DEF Excused
    <2>4. share[i] = 0
        BY <1>1, <2>1
    <2>5. \A q \in Receipts : e.alloc[q][i] = 0
        BY <1>1, <1>11, <1>11a, <2>3, <2>4 DEF Bare
    <2>6. \A c \in e.calloc : c.inv # i
        BY <1>2, <1>4, <1>9, <1>10, <2>1, <2>3 DEF RowsFrom, Bare
    <2> QED
        BY <2>5, <2>6 DEF Bare
<1>13. ASSUME NEW q \in Receipts, q \notin X.receipts
       PROVE  Within(e, q)
    <2>1. Within(d, q)
        BY <1>13 DEF Excused
    <2>2. CASE q = r
        <3>1. d.amount[r] = 0 /\ r \notin e.voidedReceipts
            BY <1>1, <1>10 DEF Excused, Typed, Ids
        <3>2. e.amount[r] = x /\ e.alloc[r] = share
              /\ e.rcred[r] = IF left > Tol THEN left ELSE d.rcred[r]
            BY <1>1, <1>11, <1>11a
        <3>3. Within(d, r)
            BY <2>1, <2>2
        <3>4. Within(e, r)
            BY <1>1, <1>7, <3>1, <3>2, <3>3, NewReceiptWithin
        <3> QED
            BY <2>2, <3>4
    <2>3. CASE q # r
        <3>1. e.alloc[q] = d.alloc[q] /\ e.rcred[q] = d.rcred[q] /\ e.amount[q] = d.amount[q]
            BY <1>11, <1>11a, <2>3
        <3> QED
            BY <1>10, <2>1, <3>1, SameWithin
    <2> QED
        BY <2>2, <2>3
<1>14. \A q \in Receipts \ e.receipts : e.amount[q] = 0
    BY <1>10, <1>11, <1>11a DEF Excused
<1>15. ASSUME NEW Y, Crossing(X, t.touched \ LiveInvoices(e), {}, Y)
       PROVE  Kept(d, X, t, e, Y)
    <2>1. Excused(e, Y)
        BY <1>6, <1>8, <1>12, <1>13, <1>14, <1>15 DEF Excused, Crossing
    <2> QED
        BY <1>1, <1>10, <1>15, <2>1 DEF Kept, Crossing, r
<1> QED
    BY <1>15 DEF e, left, onto, w, r, x, share

\* Taking back one of the credit rows of a receipt keeps types, ids, terms and what receipts
\* pay; credit rows of the invoices shrink or go.
LEMMA TakeBackCreditTyped ==
    ASSUME NEW d, Typed(d), NEW r \in Receipts, NEW over \in Nat, NEW created \in Nat,
           created <= d.rcred[r]
    PROVE  LET e == TakeBackCredit(d, r, over, created)
           IN /\ Typed(e) /\ SameIds(d, e) /\ e.term = d.term
              /\ e.amount = d.amount /\ e.alloc = d.alloc
              /\ e.rcred = [d.rcred EXCEPT ![r] = @ - created]
              /\ RowsFrom(d, e, {})
<1> DEFINE spent    == created - d.credit
           freed    == IF created > d.credit THEN ReverseCredit(d, spent) ELSE d
           x        == Monus(freed.credit, created)
           y        == Monus(d.credit, over)
           z        == d.rcred[r] - created
           drawn    == [freed EXCEPT !.credit = x]
           taken    == [drawn EXCEPT !.rcred[r] = z]
           kept     == [d EXCEPT !.credit = y]
<1>0. DOMAIN d = Columns
    BY DEF Typed, Ids
<1>1. d.rcred[r] \in Nat /\ d.credit \in Nat /\ z \in Nat
    BY DEF Typed, TypedRows, TypedCredit
<1>1a. /\ SameIds(d, freed) /\ freed.rcred = d.rcred /\ DOMAIN freed = Columns
       /\ RowsFrom(d, freed, {})
    <2>1. CASE created > d.credit
        <3>1. /\ SameIds(d, ReverseCredit(d, spent))
              /\ ReverseCredit(d, spent).alloc = d.alloc /\ ReverseCredit(d, spent).rcred = d.rcred
              /\ \A c \in ReverseCredit(d, spent).calloc : \E b \in d.calloc : c.inv = b.inv
            BY <1>0, ReverseCreditFrame
        <3> QED
            BY <1>0, <2>1, <3>1 DEF RowsFrom, SameIds
    <2>2. CASE ~(created > d.credit)
        BY <1>0, <2>2 DEF SameIds, RowsFrom
    <2> QED
        BY <2>1, <2>2
<1>2. TakeBackCredit(d, r, over, created) = IF created > 0 THEN taken ELSE kept
    <2>2. TakeBackCredit(d, r, over, created) = IF created > 0
             THEN [freed EXCEPT !.credit = Monus(@, created), !.rcred[r] = @ - created] ELSE kept
        BY DEF TakeBackCredit
    <2> HIDE DEF freed
    <2>4. [freed EXCEPT !.credit = Monus(@, created), !.rcred[r] = @ - created] = taken
        BY <1>1a DEF Columns
    <2> QED
        BY <2>2, <2>4
<1>3. Typed(freed) /\ SameIds(d, freed) /\ SameBills(d, freed) /\ SameReceipts(d, freed)
    <2>1. CASE created > d.credit
        <3>1. spent \in Nat
            BY <1>1, <2>1
        <3> HIDE DEF spent
        <3> QED
            BY <2>1, <3>1, ReverseCreditTyped
    <2>2. CASE ~(created > d.credit)
        BY <2>2 DEF SameIds, SameBills, SameReceipts
    <2> QED
        BY <2>1, <2>2
<1> HIDE DEF freed
<1>4. x \in Nat /\ y \in Nat
    <2>1. freed.credit \in Nat
        BY <1>3 DEF Typed, TypedCredit
    <2> QED
        BY <1>1, <2>1 DEF Monus
<1> HIDE DEF x, y, z
<1>5. Typed(drawn) /\ SameIds(freed, drawn) /\ SameBills(freed, drawn) /\ SameReceipts(freed, drawn)
      /\ drawn.calloc = freed.calloc
    BY <1>3, <1>4, SetCreditTyped
<1> HIDE DEF drawn
<1>6. /\ Typed(taken) /\ SameIds(drawn, taken) /\ SameBills(drawn, taken)
      /\ taken.amount = drawn.amount
      /\ taken.alloc = drawn.alloc /\ taken.rcred = [drawn.rcred EXCEPT ![r] = z]
    BY <1>1, <1>5, SetReceiptCreditTyped
<1>6a. taken.calloc = drawn.calloc
    BY <1>5 DEF Typed, Ids, Columns
<1> HIDE DEF taken
<1>7. Typed(kept) /\ SameIds(d, kept) /\ SameBills(d, kept) /\ SameReceipts(d, kept)
      /\ kept.calloc = d.calloc
    BY <1>4, SetCreditTyped
<1> HIDE DEF kept
<1>8. /\ SameIds(d, taken) /\ taken.term = d.term /\ taken.amount = d.amount
      /\ taken.alloc = d.alloc /\ taken.rcred = [d.rcred EXCEPT ![r] = z]
      /\ RowsFrom(d, taken, {})
    BY <1>1a, <1>3, <1>5, <1>6, <1>6a DEF SameIds, SameBills, SameReceipts, RowsFrom
<1>9. /\ kept.term = d.term /\ kept.amount = d.amount /\ kept.alloc = d.alloc
      /\ kept.rcred = d.rcred /\ RowsFrom(d, kept, {})
    BY <1>7 DEF SameBills, SameReceipts, RowsFrom
<1>10. CASE created > 0
    BY <1>2, <1>6, <1>8, <1>10 DEF z
<1>11. CASE ~(created > 0)
    <2>1. created = 0
        BY <1>11
    <2>2. d.rcred = [d.rcred EXCEPT ![r] = @ - created]
        BY <1>1, <2>1 DEF Typed, TypedRows
    <2> QED
        BY <1>2, <1>7, <1>9, <1>11, <2>2
<1> QED
    BY <1>10, <1>11

\* With the whole credit of the receipt it does what voidReceipt does in one step.
LEMMA TakeBackIsTakenBack ==
    ASSUME NEW d, Typed(d), NEW r \in Receipts, NEW over
    PROVE  TakeBackCredit(d, r, over, d.rcred[r]) = TakenBack(d, r, over)
<1> DEFINE created == d.rcred[r]
           freed   == IF created > d.credit THEN ReverseCredit(d, created - d.credit) ELSE d
<1>1. DOMAIN d = Columns /\ created \in Nat
    BY DEF Typed, Ids, TypedRows
<1>2. freed.rcred[r] = created
    <2>1. ReverseCredit(d, created - d.credit).rcred = d.rcred
        BY <1>1, ReverseCreditFrame
    <2> QED
        BY <2>1
<1>3. [freed EXCEPT !.credit = Monus(@, created), !.rcred[r] = @ - created]
        = [freed EXCEPT !.credit = Monus(@, created), !.rcred[r] = 0]
    <2>1. freed.rcred[r] - created = 0
        BY <1>1, <1>2
    <2> HIDE DEF freed, created
    <2>2. DOMAIN freed = Columns
        BY <1>1 DEF freed, ReverseCredit
    <2> QED
        BY <2>1, <2>2 DEF Columns
<1> QED
    BY <1>3 DEF TakeBackCredit, TakenBack

\* A void that finishes on a database that others changed takes the receipt's credit back: all
\* of it, unless there are several rows.
LEMMA VoidKeeps ==
    ASSUME NEW d, NEW X, Excused(d, X), NEW t, TypedDesk(t), Holds(d, X, t), t.kind = "void",
           NEW W, NEW created \in Nat, created <= d.rcred[t.id],
           t.id \notin X.receipts => created = d.rcred[t.id]
    PROVE  LET onto == Voiding(WriteInvoices(d, t, W), t.id)
           IN Kept(d, X, t, TakeBackCredit(onto, t.id, t.amount, created), X)
<1> DEFINE r    == t.id
           x    == t.amount
           w    == WriteInvoices(d, t, W)
           onto == Voiding(w, r)
           e    == TakeBackCredit(onto, r, x, created)
<1>1. /\ r \in d.receipts /\ r \in Receipts /\ x \in Nat /\ TypedCopies(t.rows) /\ Typed(d)
      /\ TermsOnce(d) /\ t.voided \subseteq d.invoices /\ t.voided \subseteq X.invoices
      /\ t.kind = "void"
    BY DEF TypedDesk, Holds, Excused, Typed, Ids
<1>2. /\ Typed(w) /\ SameReceipts(d, w) /\ w.term = d.term /\ w.calloc = d.calloc
      /\ w.invoices = d.invoices
      /\ w.voidedInvoices = (d.voidedInvoices \ W) \union (W \intersect t.voided)
      /\ w.receipts = d.receipts /\ w.voidedReceipts = d.voidedReceipts
    BY <1>1, WriteInvoicesTyped
<1> HIDE DEF w, x
<1>3. /\ Typed(onto) /\ SameReceipts(w, onto) /\ onto.term = w.term /\ onto.calloc = w.calloc
      /\ onto.invoices = w.invoices /\ onto.voidedInvoices = w.voidedInvoices
      /\ onto.receipts = w.receipts /\ onto.voidedReceipts = w.voidedReceipts \union {r}
    BY <1>1, <1>2, VoidingTyped
<1> HIDE DEF onto
<1>4. TermsOnce(onto) /\ SameReceipts(d, onto) /\ created <= onto.rcred[r]
    BY <1>1, <1>2, <1>3, SameTermsOnce DEF SameReceipts
<1>5. /\ Typed(e) /\ SameIds(onto, e) /\ e.term = onto.term
      /\ e.amount = onto.amount /\ e.alloc = onto.alloc
      /\ e.rcred = [onto.rcred EXCEPT ![r] = @ - created]
      /\ RowsFrom(onto, e, {})
    BY <1>1, <1>3, <1>4, TakeBackCreditTyped
<1> HIDE DEF e, r
<1>7. /\ e.receipts = d.receipts /\ e.invoices = d.invoices
      /\ e.voidedInvoices = (d.voidedInvoices \ W) \union (W \intersect t.voided)
      /\ e.voidedReceipts = d.voidedReceipts \union {r}
    BY <1>2, <1>3, <1>5 DEF SameIds
<1>8. /\ e.amount = d.amount /\ e.alloc = d.alloc
      /\ e.rcred = [d.rcred EXCEPT ![r] = @ - created]
    BY <1>4, <1>5 DEF SameReceipts
<1>9. TermsOnce(e)
    BY <1>4, <1>5, SameTermsOnce DEF SameIds
<1>10. ASSUME NEW i \in e.voidedInvoices, i \notin X.invoices
       PROVE  Bare(e, i)
    <2>1. Bare(d, i)
        BY <1>1, <1>7, <1>10 DEF Excused
    <2>2. RowsFrom(d, e, {})
        BY <1>2, <1>3, <1>5 DEF RowsFrom
    <2> QED
        BY <1>8, <2>1, <2>2, BareStays
<1>11. ASSUME NEW q \in Receipts, q \notin X.receipts
       PROVE  Within(e, q)
    <2>1. Within(d, q)
        BY <1>11 DEF Excused
    <2>2. d.rcred \in [Receipts -> Nat] /\ e.alloc[q] = d.alloc[q] /\ e.amount[q] = d.amount[q]
        BY <1>1, <1>8 DEF Typed, TypedRows
    <2>3. CASE q = r
        <3>1. e.rcred[q] = d.rcred[q] - d.rcred[q]
            BY <1>8, <1>11, <2>2, <2>3 DEF r
        <3>2. d.rcred[q] \in Nat
            BY <2>2
        <3>3. e.rcred[q] = 0
            BY <3>1, <3>2
        <3>4. Allocated(e, q) = Allocated(d, q) /\ Allocated(d, q) \in Nat /\ d.amount[q] \in Nat
            BY <1>1, <2>2, HeldIsInt DEF Allocated
        <3>5. Allocated(d, q) + d.rcred[q] <= d.amount[q]
            BY <2>1 DEF Within
        <3>6. Allocated(e, q) + e.rcred[q] <= e.amount[q]
            BY <2>2, <3>2, <3>3, <3>4, <3>5
        <3> QED
            BY <3>3, <3>6 DEF Within
    <2>4. CASE q # r
        <3>1. e.rcred[q] = d.rcred[q] /\ (q \in e.voidedReceipts => q \in d.voidedReceipts)
            BY <1>7, <1>8, <2>2, <2>4
        <3> QED
            BY <2>1, <2>2, <3>1, SameWithin
    <2> QED
        BY <2>3, <2>4
<1>12. Excused(e, X)
    <2>1. \A q \in Receipts \ e.receipts : e.amount[q] = 0
        BY <1>7, <1>8 DEF Excused
    <2> QED
        BY <1>5, <1>9, <1>10, <1>11, <2>1 DEF Excused
<1>13. Kept(d, X, t, e, X)
    BY <1>1, <1>7, <1>12 DEF Kept
<1> QED
    BY <1>13 DEF e, onto, w, r, x

\* The credit as it was read less what is applied, written and verified.
Drew(d, t) ==
    IF t.applied = 0 THEN d ELSE VerifyCredit([d EXCEPT !.credit = t.credit])

\* A database whose receipts are those of d, and whose credit rows are of live invoices or of
\* those that had one, is in order if d is.
LEMMA ExcusedStays ==
    ASSUME NEW d, NEW X, Excused(d, X), NEW e, Typed(e), TermsOnce(e), SameReceipts(d, e),
           e.receipts = d.receipts, e.voidedReceipts = d.voidedReceipts,
           e.voidedInvoices = d.voidedInvoices, RowsFrom(d, e, e.invoices \ d.voidedInvoices)
    PROVE  Excused(e, X)
<1>1. ASSUME NEW i \in e.voidedInvoices, i \notin X.invoices
      PROVE  Bare(e, i)
    BY <1>1, BareStays DEF Excused, SameReceipts
<1>2. ASSUME NEW r \in Receipts, r \notin X.receipts
      PROVE  Within(e, r)
    BY <1>2, SameWithin DEF Excused, SameReceipts
<1> QED
    BY <1>1, <1>2 DEF Excused, SameReceipts

\* Billing voids nothing.
LEMMA BilledVoids ==
    ASSUME NEW d, Typed(d), NEW i \in Invoices \ d.invoices, NEW t \in Terms, NEW net \in Nat,
           NEW date \in Dates, NEW due \in Dates, NEW pre, NEW src
    PROVE  Billed(d, i, t, net, date, due, pre, src).db.voidedInvoices = d.voidedInvoices
<1> DEFINE inserted == Inserted(d, i, t, net, date, due)
           e == Reconcile(inserted).db
           row == CreditRow(e, i, pre, src)
           f == [e EXCEPT !.calloc = @ \union {row}]
<1>1. /\ Typed(inserted) /\ SameReceipts(d, inserted)
      /\ inserted.invoices = d.invoices \union {i} /\ inserted.voidedInvoices = d.voidedInvoices
      /\ inserted.receipts = d.receipts /\ inserted.voidedReceipts = d.voidedReceipts
    BY InsertedTyped
<1> HIDE DEF inserted
<1>2. Typed(e) /\ SameIds(inserted, e)
    BY <1>1, ReconcileTyped
<1> HIDE DEF e, row
<1>3. f.voidedInvoices = e.voidedInvoices
    BY <1>2 DEF Typed, Ids, Columns
<1>4. Billed(d, i, t, net, date, due, pre, src).db \in {e, f}
    BY BilledIs DEF e, row, inserted
<1> HIDE DEF f
<1> QED
    BY <1>1, <1>2, <1>3, <1>4 DEF SameIds

\* An invoice that is saved on a database that others changed is billed as usual, once its
\* term has no invoice.
LEMMA InvoiceKeeps ==
    ASSUME NEW d, NEW X, Excused(d, X), NEW t, TypedDesk(t), Holds(d, X, t), t.kind = "invoice",
           \A j \in d.invoices : d.term[j] # t.term
    PROVE  Kept(d, X, t, Billed(Drew(d, t), t.id, t.term, t.amount, Min(Dates), Min(Dates),
                                t.applied, t.source).db, X)
<1> DEFINE i     == t.id
           set   == [d EXCEPT !.credit = t.credit]
           c     == VerifyCredit(set)
           paid  == Drew(d, t)
           e     == Billed(paid, i, t.term, t.amount, Min(Dates), Min(Dates), t.applied, t.source).db
<1>1. /\ i \in Invoices \ d.invoices /\ t.term \in Terms /\ t.amount \in Nat /\ t.applied \in Nat
      /\ t.credit \in Nat /\ t.source \in Receipts \union {NoReceipt} /\ Typed(d) /\ TermsOnce(d)
      /\ t.kind = "invoice"
    BY DEF TypedDesk, Holds, Excused
<1>2. Min(Dates) \in Dates
    BY MinIsNat, AmountsAssumption
<1>3. /\ Typed(set) /\ SameIds(d, set) /\ SameBills(d, set) /\ SameReceipts(d, set)
      /\ set.calloc = d.calloc
    BY <1>1, SetCreditTyped
<1> HIDE DEF set
<1>4. /\ Typed(c) /\ SameIds(set, c) /\ SameBills(set, c) /\ SameReceipts(set, c)
      /\ c.calloc = set.calloc
    BY <1>3, VerifyCreditTyped, VerifyCreditFrame DEF Typed, Ids
<1> HIDE DEF c
<1>5. /\ Typed(c) /\ SameIds(d, c) /\ SameBills(d, c) /\ SameReceipts(d, c)
      /\ c.calloc = d.calloc
    BY <1>3, <1>4 DEF SameIds, SameBills, SameReceipts
<1>6. /\ Typed(paid) /\ SameIds(d, paid) /\ SameBills(d, paid) /\ SameReceipts(d, paid)
      /\ paid.calloc = d.calloc
    <2>1. paid = d \/ paid = c
        BY DEF Drew, c, set
    <2> HIDE DEF paid
    <2>2. CASE paid = d
        BY <1>1, <2>2 DEF SameIds, SameBills, SameReceipts
    <2> QED
        BY <1>5, <2>1, <2>2
<1> HIDE DEF paid
<1>7. TermsOnce(paid) /\ \A j \in paid.invoices : paid.term[j] # t.term
    BY <1>1, <1>6, SameTermsOnce DEF SameIds, SameBills
<1>8. i \in Invoices \ paid.invoices
    BY <1>1, <1>6 DEF SameIds
<1>9. /\ Typed(e) /\ SameReceipts(paid, e)
      /\ e.invoices = paid.invoices \union {i}
      /\ e.receipts = paid.receipts /\ e.voidedReceipts = paid.voidedReceipts
      /\ (TermsOnce(paid) /\ (\A j \in paid.invoices : paid.term[j] # t.term) => TermsOnce(e))
    BY <1>1, <1>2, <1>6, BilledTyped
<1>10. RowsFrom(paid, e, LiveInvoices(paid) \union {i})
    BY <1>1, <1>2, <1>6, <1>8, BilledRowsFrom
<1>11. e.voidedInvoices = paid.voidedInvoices
    BY <1>1, <1>2, <1>6, <1>8, BilledVoids
<1> HIDE DEF e, i
<1>12. Excused(e, X)
    <2>1. /\ SameReceipts(d, e) /\ e.receipts = d.receipts /\ e.voidedReceipts = d.voidedReceipts
          /\ e.voidedInvoices = d.voidedInvoices /\ e.invoices = d.invoices \union {i}
        BY <1>6, <1>9, <1>11 DEF SameIds, SameReceipts
    <2>2. RowsFrom(d, e, e.invoices \ d.voidedInvoices)
        BY <1>1, <1>6, <1>10, <2>1 DEF RowsFrom, LiveInvoices, SameIds, Typed, Ids
    <2> QED
        BY <1>7, <1>9, <2>1, <2>2, ExcusedStays
<1>13. Kept(d, X, t, e, X)
    BY <1>1, <1>6, <1>9, <1>12 DEF Kept, SameIds, i
<1> QED
    BY <1>13 DEF e, paid, i

\* A reconciliation that finishes on a database that others changed corrects the invoices it
\* loaded and moves no receipt.
LEMMA ReconcileKeeps ==
    ASSUME NEW d, NEW X, Excused(d, X), NEW t, t.kind = "reconcile", Holds(d, X, t)
    PROVE  Kept(d, X, t, ReconcileOf(d, t.touched).db, X)
<1> DEFINE e == ReconcileOf(d, t.touched).db
<1>1. Typed(d) /\ TermsOnce(d) /\ t.touched \in SUBSET Invoices
    BY DEF Excused, Holds
<1>2. Typed(e) /\ SameIds(d, e) /\ SameReceipts(d, e)
    BY <1>1, ReconcileOfTyped
<1>3. TermsOnce(e)
    BY <1>1, ReconcileOfTermsOnce
<1>4. RowsFrom(d, e, LiveInvoices(d))
    BY <1>1, ReconcileOfRowsFrom
<1> HIDE DEF e
<1>5. RowsFrom(d, e, e.invoices \ d.voidedInvoices)
    BY <1>2, <1>4 DEF SameIds, LiveInvoices
<1>6. Excused(e, X)
    BY <1>2, <1>3, <1>5, ExcusedStays DEF SameIds
<1>7. Kept(d, X, t, e, X)
    BY <1>2, <1>6 DEF Kept, SameIds
<1> QED
    BY <1>7 DEF e

\* The invoice voided, its loaded rows removed and the credit among them given back.
Cancelled(d, t) ==
    [RemoveRows(WriteInvoices(d, t, {t.id}), t.id, t) EXCEPT
       !.term[t.id] = NoTerm,
       !.credit     = @ + (IF t.amount > Tol THEN t.amount ELSE 0)]

\* What has been removed by then.
HasCancelled(d, t, e) ==
    /\ e.invoices = d.invoices /\ e.voidedInvoices = d.voidedInvoices \union {t.id}
    /\ e.receipts = d.receipts /\ e.voidedReceipts = d.voidedReceipts
    /\ e.term = [d.term EXCEPT ![t.id] = NoTerm]
    /\ e.amount = d.amount /\ e.rcred = d.rcred
    /\ e.alloc = [r \in Receipts |-> [j \in Invoices |->
                    IF j = t.id /\ r \notin t.renewed THEN 0 ELSE d.alloc[r][j]]]
    /\ e.calloc = {c \in d.calloc : c.inv # t.id \/ c.seq \in t.fresh}

\* Types stay.
LEMMA CancelledTyped ==
    ASSUME NEW d, Typed(d), NEW X, NEW t, TypedDesk(t), Holds(d, X, t), t.kind = "cancel"
    PROVE  Typed(Cancelled(d, t)) /\ HasCancelled(d, t, Cancelled(d, t))
<1> DEFINE i == t.id
           w == WriteInvoices(d, t, {i})
           v == RemoveRows(w, i, t)
           x == IF t.amount > Tol THEN t.amount ELSE 0
           alloc == [r \in Receipts |-> [j \in Invoices |->
                       IF j = i /\ r \notin t.renewed THEN 0 ELSE d.alloc[r][j]]]
           e == Cancelled(d, t)
<1>1. /\ t.voided \subseteq d.invoices /\ t.voided = {i} /\ i \in d.invoices /\ i \in Invoices
      /\ TypedCopies(t.rows) /\ x \in Nat
    BY DEF TypedDesk, Holds, Typed, Ids
<1>2. /\ Typed(w) /\ SameReceipts(d, w) /\ SameCredit(d, w) /\ w.calloc = d.calloc
      /\ w.term = d.term /\ w.invoices = d.invoices
      /\ w.voidedInvoices = (d.voidedInvoices \ {i}) \union ({i} \intersect t.voided)
      /\ w.receipts = d.receipts /\ w.voidedReceipts = d.voidedReceipts
    BY <1>1, WriteInvoicesTyped
<1> HIDE DEF w, x
<1>3. /\ DOMAIN v = Columns /\ SameIds(w, v) /\ SameBills(w, v) /\ SameCaches(w, v)
      /\ SameCredit(w, v) /\ v.amount = w.amount /\ v.rcred = w.rcred
      /\ v.alloc = [r \in Receipts |-> [j \in Invoices |->
                      IF j = i /\ r \notin t.renewed THEN 0 ELSE w.alloc[r][j]]]
      /\ v.calloc = {c \in w.calloc : c.inv # i \/ c.seq \in t.fresh}
    <2>1. DOMAIN w = Columns
        BY <1>2 DEF Typed, Ids
    <2> QED
        BY <2>1 DEF RemoveRows, SameIds, SameBills, SameCaches, SameCredit, Columns
<1>3a. e = [v EXCEPT !.term[i] = NoTerm, !.credit = @ + x]
    BY DEF Cancelled, v, w, x
<1> HIDE DEF v, e
<1>4. /\ DOMAIN e = Columns /\ SameIds(w, e) /\ SameCaches(w, e)
      /\ e.term = [w.term EXCEPT ![i] = NoTerm]
      /\ e.date = w.date /\ e.due = w.due /\ e.total = w.total
      /\ e.hasCredit = w.hasCredit /\ e.credited = w.credited /\ e.credit = w.credit + x
      /\ e.amount = w.amount /\ e.rcred = w.rcred /\ e.alloc = v.alloc /\ e.calloc = v.calloc
    BY <1>3, <1>3a DEF SameIds, SameBills, SameCaches, SameCredit, Columns
<1>5. e.alloc = alloc /\ e.calloc = {c \in d.calloc : c.inv # i \/ c.seq \in t.fresh}
    BY <1>2, <1>3, <1>4 DEF SameReceipts
<1>6. alloc \in [Receipts -> [Invoices -> Nat]]
    <2>1. d.alloc \in [Receipts -> [Invoices -> Nat]]
        BY DEF Typed, TypedRows
    <2>2. \A r \in Receipts :
             [j \in Invoices |-> IF j = i /\ r \notin t.renewed THEN 0 ELSE d.alloc[r][j]]
               \in [Invoices -> Nat]
        BY <2>1
    <2> QED
        BY <2>2
<1>7. HasCancelled(d, t, e)
    BY <1>1, <1>2, <1>4, <1>5 DEF HasCancelled, SameIds, SameReceipts
<1> HIDE DEF alloc
<1>8. TypedRows(e)
    <2>1. e.calloc \subseteq CreditRows /\ IsFiniteSet(e.calloc)
        BY <1>5, FS_Subset DEF Typed, TypedRows
    <2> QED
        BY <1>2, <1>4, <1>5, <1>6, <2>1 DEF Typed, TypedRows
<1>9. TypedBills(e)
    BY <1>1, <1>2, <1>4 DEF Typed, TypedBills
<1>10. TypedCaches(e)
    BY <1>2, <1>4 DEF Typed, TypedCaches, SameCaches
<1>11. TypedCredit(e)
    BY <1>1, <1>2, <1>4 DEF Typed, TypedCredit
<1>12. Ids(e)
    <2>1. DOMAIN e.alloc = Receipts /\ (\A r \in Receipts : DOMAIN e.alloc[r] = Invoices)
          /\ DOMAIN e.rcred = Receipts
        BY <1>8 DEF TypedRows
    <2> QED
        BY <1>2, <1>4, <2>1 DEF Typed, Ids, SameIds
<1> QED
    BY <1>7, <1>8, <1>9, <1>10, <1>11, <1>12 DEF Typed, e

\* A voidInvoice that finishes on a database that others changed leaves the invoice bare,
\* unless a row came onto it since.
LEMMA CancelKeeps ==
    ASSUME NEW d, NEW X, Excused(d, X), NEW t, TypedDesk(t), Holds(d, X, t), t.kind = "cancel",
           NEW I, t.id \notin I => /\ \A r \in t.renewed : ~(d.alloc[r][t.id] > 0)
                                   /\ \A c \in RowsOf(d, t.id) : c.seq \notin t.fresh
    PROVE  \A Y : Crossing(X, I, {}, Y) => Kept(d, X, t, Reconcile(Cancelled(d, t)).db, Y)
<1> DEFINE i == t.id
           onto == Cancelled(d, t)
           e == Reconcile(onto).db
<1>1. Typed(d) /\ TermsOnce(d) /\ t.kind = "cancel" /\ i \in Invoices
    BY DEF Excused, Holds, Typed, Ids
<1>2. Typed(onto) /\ HasCancelled(d, t, onto)
    BY <1>1, CancelledTyped
<1> HIDE DEF onto
<1>3. /\ onto.invoices = d.invoices /\ onto.voidedInvoices = d.voidedInvoices \union {i}
      /\ onto.receipts = d.receipts /\ onto.voidedReceipts = d.voidedReceipts
      /\ onto.term = [d.term EXCEPT ![i] = NoTerm]
      /\ onto.amount = d.amount /\ onto.rcred = d.rcred
      /\ onto.alloc = [r \in Receipts |-> [j \in Invoices |->
                         IF j = i /\ r \notin t.renewed THEN 0 ELSE d.alloc[r][j]]]
      /\ onto.calloc = {c \in d.calloc : c.inv # i \/ c.seq \in t.fresh}
    BY <1>2 DEF HasCancelled
<1>4. TermsOnce(onto)
    <2>1. d.term \in [Invoices -> Terms \union {NoTerm}] /\ d.invoices \subseteq Invoices
        BY <1>1 DEF Typed, TypedBills, Ids
    <2>2. \A j \in Invoices : onto.term[j] = IF j = i THEN NoTerm ELSE d.term[j]
        BY <1>3, <2>1
    <2> QED
        BY <1>1, <1>3, <2>1, <2>2 DEF TermsOnce
<1>5. Typed(e) /\ SameIds(onto, e) /\ SameReceipts(onto, e) /\ TermsOnce(e)
    BY <1>2, <1>4, ReconcileTyped, ReconcileTermsOnce
<1>6. RowsFrom(onto, e, LiveInvoices(onto))
    <2>1. LiveInvoices(onto) \in SUBSET Invoices
        BY <1>2 DEF LiveInvoices, Typed, Ids
    <2> QED
        BY <1>2, <2>1, ReconcileOfRowsFrom DEF Reconcile
<1> HIDE DEF e
<1>7. ASSUME NEW r \in Receipts, NEW j \in Invoices
      PROVE  /\ d.alloc[r][j] \in Nat
             /\ e.alloc[r][j] = IF j = i /\ r \notin t.renewed THEN 0 ELSE d.alloc[r][j]
    BY <1>1, <1>3, <1>5 DEF Typed, TypedRows, SameReceipts
<1>8. ASSUME NEW j \in e.voidedInvoices, j \notin X.invoices, j \notin I
      PROVE  Bare(e, j)
    <2>1. j \in Invoices /\ j \notin LiveInvoices(onto)
        BY <1>5, <1>8 DEF LiveInvoices, Typed, Ids, SameIds
    <2>2. CASE j = i
        <3>1. \A r \in Receipts : e.alloc[r][j] = 0
            BY <1>7, <1>8, <2>1, <2>2
        <3>2. \A c \in onto.calloc : c.inv # j
            BY <1>3, <1>8, <2>2 DEF RowsOf
        <3> QED
            BY <1>6, <2>1, <3>1, <3>2 DEF Bare, RowsFrom
    <2>3. CASE j # i
        <3>1. Bare(d, j)
            BY <1>3, <1>5, <1>8, <2>3 DEF Excused, SameIds
        <3>2. \A r \in Receipts : e.alloc[r][j] = 0
            BY <1>7, <2>1, <3>1 DEF Bare
        <3>3. \A c \in onto.calloc : c.inv # j
            BY <1>3, <3>1 DEF Bare
        <3> QED
            BY <1>6, <2>1, <3>2, <3>3 DEF Bare, RowsFrom
    <2> QED
        BY <2>2, <2>3
<1>9. ASSUME NEW r \in Receipts, r \notin X.receipts
      PROVE  Within(e, r)
    <2> DEFINE f == e.alloc[r]
               g == d.alloc[r]
    <2>1. \A j \in Invoices : f[j] \in Int /\ g[j] \in Int /\ f[j] <= g[j]
        BY <1>7
    <2> HIDE DEF f, g
    <2>2. SumFunctionOnSet(f, Invoices) <= SumFunctionOnSet(g, Invoices)
        BY <2>1, SumMonotone, IdsAssumption
    <2>3. Allocated(e, r) <= Allocated(d, r)
        BY <2>2 DEF Allocated, f, g
    <2>4. Within(d, r)
        BY <1>9 DEF Excused
    <2>5. e.rcred = d.rcred /\ e.amount = d.amount /\ e.voidedReceipts = d.voidedReceipts
        BY <1>3, <1>5 DEF SameReceipts, SameIds
    <2>6. /\ Allocated(e, r) \in Nat /\ Allocated(d, r) \in Nat
          /\ d.rcred[r] \in Nat /\ d.amount[r] \in Nat
        BY <1>1, <1>5, HeldIsInt
    <2>7. Allocated(e, r) + e.rcred[r] <= e.amount[r]
        BY <2>3, <2>4, <2>5, <2>6 DEF Within
    <2> QED
        BY <2>4, <2>5, <2>7 DEF Within
<1>10. ASSUME NEW Y, Crossing(X, I, {}, Y)
       PROVE  Kept(d, X, t, e, Y)
    <2>1. \A q \in Receipts \ e.receipts : e.amount[q] = 0
        BY <1>3, <1>5 DEF Excused, SameIds, SameReceipts
    <2>2. Excused(e, Y)
        BY <1>5, <1>8, <1>9, <1>10, <2>1 DEF Excused, Crossing
    <2> QED
        BY <1>1, <1>3, <1>5, <1>10, <2>2 DEF Kept, Crossing, SameIds
<1> QED
    BY <1>10 DEF e, onto

\* The database as a rebuild loaded it.
Loaded(t) ==
    [db EXCEPT !.voidedInvoices = db.invoices \ t.touched,
               !.voidedReceipts = db.receipts \ t.receipts]

\* The plan for what was loaded gives nothing else, and its receipts what they brought.
LEMMA LoadedPlanFills ==
    ASSUME Typed(db), NEW t, t.touched \subseteq db.invoices, t.receipts \subseteq db.receipts
    PROVE  /\ LoadedPlan(t) \in Plans
           /\ \A r \in t.receipts :
                 Allocated(LoadedPlan(t), r) + LoadedPlan(t).rcred[r] <= db.amount[r]
           /\ \A r \in Receipts : \A i \in Invoices \ t.touched : LoadedPlan(t).alloc[r][i] = 0
<1> DEFINE d == Loaded(t)
           plan == LoadedPlan(t)
<1>1. /\ DOMAIN d = Columns /\ d.invoices = db.invoices /\ d.receipts = db.receipts
      /\ d.voidedInvoices = db.invoices \ t.touched
      /\ d.voidedReceipts = db.receipts \ t.receipts
      /\ SameBills(db, d) /\ SameCaches(db, d) /\ SameReceipts(db, d) /\ SameCredit(db, d)
      /\ d.calloc = db.calloc
    BY DEF Loaded, Typed, Ids, SameBills, SameCaches, SameReceipts, SameCredit, Columns
<1>2. plan = FifoPlan(d)
    BY DEF LoadedPlan, Loaded
<1> HIDE DEF d, plan
<1>3. Ids(d)
    BY <1>1 DEF Typed, Ids, SameReceipts
<1>4. TypedBills(d) /\ TypedCaches(d)
    BY <1>1 DEF Typed, TypedBills, TypedCaches, SameBills, SameCaches
<1>5. TypedRows(d) /\ TypedCredit(d)
    BY <1>1 DEF Typed, TypedRows, TypedCredit, SameReceipts, SameCredit
<1>6. Typed(d)
    BY <1>3, <1>4, <1>5 DEF Typed
<1>7. Filled(d, plan, LiveReceipts(d))
    BY <1>2, <1>6, FifoPlanFills
<1>8. LiveReceipts(d) = t.receipts /\ LiveInvoices(d) = t.touched /\ d.amount = db.amount
    BY <1>1 DEF LiveReceipts, LiveInvoices, SameReceipts
<1>9. /\ plan \in Plans
      /\ \A r \in t.receipts : Allocated(plan, r) + plan.rcred[r] <= db.amount[r]
      /\ \A r \in Receipts : \A i \in Invoices \ t.touched : plan.alloc[r][i] = 0
    BY <1>7, <1>8 DEF Filled
<1> QED
    BY <1>9 DEF plan

\* The columns of the rebuild before the balances are recalculated.
HasRebuilt(t, plan, W, fresh, paying, giving, e) ==
    /\ e.invoices = db.invoices /\ e.voidedInvoices = db.voidedInvoices \ W
    /\ e.receipts = db.receipts /\ e.voidedReceipts = db.voidedReceipts
    /\ e.amount = db.amount
    /\ e.calloc = {c \in db.calloc : c.inv \notin t.touched \/ c.seq \in fresh}
    /\ e.alloc = [r \in Receipts |-> [i \in Invoices |->
                    IF r \notin t.receipts \/ (r \in paying /\ db.alloc[r][i] > 0)
                    THEN db.alloc[r][i] ELSE plan.alloc[r][i]]]
    /\ e.rcred = [r \in Receipts |->
                    IF r \notin t.receipts THEN db.rcred[r]
                    ELSE plan.rcred[r] + (IF r \in giving THEN db.rcred[r] ELSE 0)]

\* Types stay.
LEMMA RebuiltTyped ==
    ASSUME Typed(db), NEW t, TypedDesk(t), t.receipts \subseteq Receipts, NEW plan \in Plans,
           NEW W, NEW fresh, NEW paying, NEW giving
    PROVE  LET e == Rebuilt(t, plan, W, fresh, paying, giving)
           IN Typed(e) /\ HasRebuilt(t, plan, W, fresh, paying, giving, e)
<1> DEFINE e == Rebuilt(t, plan, W, fresh, paying, giving)
           term == [i \in Invoices |-> IF i \in W THEN t.terms[i] ELSE db.term[i]]
           rows == {c \in db.calloc : c.inv \notin t.touched \/ c.seq \in fresh}
           credit == SumFunctionOnSet(plan.rcred, t.receipts)
           alloc == [r \in Receipts |-> [i \in Invoices |->
                       IF r \notin t.receipts \/ (r \in paying /\ db.alloc[r][i] > 0)
                       THEN db.alloc[r][i] ELSE plan.alloc[r][i]]]
           rcred == [r \in Receipts |->
                       IF r \notin t.receipts THEN db.rcred[r]
                       ELSE plan.rcred[r] + (IF r \in giving THEN db.rcred[r] ELSE 0)]
<1>1. DOMAIN db = Columns
    BY DEF Typed, Ids
<1>2. /\ DOMAIN e = Columns /\ e.invoices = db.invoices
      /\ e.voidedInvoices = db.voidedInvoices \ W
      /\ e.receipts = db.receipts /\ e.voidedReceipts = db.voidedReceipts
      /\ e.term = term /\ e.date = db.date /\ e.due = db.due /\ e.total = db.total
      /\ SameCaches(db, e) /\ e.amount = db.amount /\ e.alloc = alloc /\ e.rcred = rcred
      /\ e.hasCredit = TRUE /\ e.credit = credit /\ e.credited = [i \in Invoices |-> 0]
      /\ e.calloc = rows
    BY <1>1 DEF Rebuilt, SameCaches, Columns
<1>3. HasRebuilt(t, plan, W, fresh, paying, giving, e)
    BY <1>2 DEF HasRebuilt
<1> HIDE DEF e
<1>4. /\ plan.alloc \in [Receipts -> [Invoices -> Nat]] /\ plan.rcred \in [Receipts -> Nat]
      /\ db.alloc \in [Receipts -> [Invoices -> Nat]] /\ db.rcred \in [Receipts -> Nat]
    BY DEF Plans, Typed, TypedRows
<1>5. alloc \in [Receipts -> [Invoices -> Nat]]
    <2>1. \A r \in Receipts :
             [i \in Invoices |-> IF r \notin t.receipts \/ (r \in paying /\ db.alloc[r][i] > 0)
                                 THEN db.alloc[r][i] ELSE plan.alloc[r][i]] \in [Invoices -> Nat]
        BY <1>4
    <2> QED
        BY <2>1
<1>6. rcred \in [Receipts -> Nat]
    <2>1. \A r \in Receipts : plan.rcred[r] \in Nat /\ db.rcred[r] \in Nat
        BY <1>4
    <2> QED
        BY <2>1
<1>7. credit \in Nat
    <2>1. \A r \in t.receipts : plan.rcred[r] \in Nat
        BY <1>4
    <2>2. IsFiniteSet(t.receipts)
        BY FS_Subset, IdsAssumption
    <2> QED
        BY <2>1, <2>2, SumNat
<1>8. term \in [Invoices -> Terms \union {NoTerm}]
    BY DEF Typed, TypedBills, TypedDesk
<1>9. rows \subseteq CreditRows /\ IsFiniteSet(rows)
    BY FS_Subset DEF Typed, TypedRows
<1> HIDE DEF term, rows, credit, alloc, rcred
<1>10. TypedRows(e)
    BY <1>2, <1>5, <1>6, <1>9 DEF Typed, TypedRows
<1>11. TypedBills(e) /\ TypedCaches(e)
    BY <1>2, <1>8 DEF Typed, TypedBills, TypedCaches, SameCaches
<1>12. e.credited \in [Invoices -> Nat]
    BY <1>2
<1>13. TypedCredit(e)
    BY <1>2, <1>7, <1>12 DEF TypedCredit
<1>14. Ids(e)
    <2>1. DOMAIN e.alloc = Receipts /\ (\A r \in Receipts : DOMAIN e.alloc[r] = Invoices)
          /\ DOMAIN e.rcred = Receipts
        BY <1>10 DEF TypedRows
    <2> QED
        BY <1>2, <2>1 DEF Typed, Ids
<1> QED
    BY <1>3, <1>10, <1>11, <1>13, <1>14 DEF Typed, e

\* A rebuild that finishes on a database that others changed crosses the invoices that it
\* writes and finds void, and the receipts that were voided or got rows since.
LEMMA RebuildKeeps ==
    ASSUME NEW X, Excused(db, X), NEW t, TypedDesk(t), Holds(db, X, t), t.kind = "rebuild",
           NEW W, NEW fresh, NEW paying \in SUBSET t.renewed, NEW giving \in SUBSET paying,
           TermsUnique(Rebuilt(t, LoadedPlan(t), W, fresh, paying, giving))
    PROVE  LET e == VerifyCredit(Recalculate(
                        Rebuilt(t, LoadedPlan(t), W, fresh, paying, giving), t.touched))
           IN \A Y : Crossing(X, t.touched \ LiveInvoices(e),
                              t.receipts \intersect (db.voidedReceipts \union t.renewed), Y)
                     => Kept(db, X, t, e, Y)
<1> DEFINE plan == LoadedPlan(t)
           b == Rebuilt(t, plan, W, fresh, paying, giving)
           c == Recalculate(b, t.touched)
           e == VerifyCredit(c)
<1>0. TermsUnique(b)
    OBVIOUS
<1>1. /\ Typed(db) /\ t.kind = "rebuild" /\ t.touched \subseteq db.invoices
      /\ t.receipts \subseteq db.receipts /\ t.receipts \subseteq Receipts
    BY DEF Excused, Holds, Typed, Ids
<1>2. /\ plan \in Plans
      /\ \A r \in t.receipts : Allocated(plan, r) + plan.rcred[r] <= db.amount[r]
      /\ \A r \in Receipts : \A i \in Invoices \ t.touched : plan.alloc[r][i] = 0
    BY <1>1, LoadedPlanFills
<1> HIDE DEF plan
<1>3. Typed(b) /\ HasRebuilt(t, plan, W, fresh, paying, giving, b)
    BY <1>1, <1>2, RebuiltTyped
<1> HIDE DEF b
<1>4. TermsOnce(b)
    BY <1>0 DEF TermsUnique, TermsOnce
<1>5. Typed(c) /\ SameIds(b, c) /\ SameBills(b, c) /\ SameReceipts(b, c) /\ c.calloc = b.calloc
    <2>1. DOMAIN b = Columns
        BY <1>3 DEF Typed, Ids
    <2>2. Typed(c)
        BY <1>3, RecalculateTyped
    <2> HIDE DEF c
    <2>3. /\ SameIds(b, c) /\ SameBills(b, c) /\ SameReceipts(b, c)
          /\ c.calloc = b.calloc /\ SameCredit(b, c)
        BY <2>1, RecalculateFrame DEF c
    <2> QED
        BY <2>2, <2>3
<1> HIDE DEF c
<1>6. Typed(e) /\ SameIds(c, e) /\ SameBills(c, e) /\ SameReceipts(c, e) /\ e.calloc = c.calloc
    BY <1>5, VerifyCreditTyped, VerifyCreditFrame DEF Typed, Ids
<1> HIDE DEF e
<1>7. TermsOnce(e)
    BY <1>4, <1>5, <1>6, SameTermsOnce DEF SameIds, SameBills
<1>8. /\ e.invoices = db.invoices /\ e.voidedInvoices = db.voidedInvoices \ W
      /\ e.receipts = db.receipts /\ e.voidedReceipts = db.voidedReceipts
      /\ e.amount = db.amount /\ e.calloc \subseteq db.calloc
      /\ e.alloc = [r \in Receipts |-> [i \in Invoices |->
                      IF r \notin t.receipts \/ (r \in paying /\ db.alloc[r][i] > 0)
                      THEN db.alloc[r][i] ELSE plan.alloc[r][i]]]
      /\ e.rcred = [r \in Receipts |->
                      IF r \notin t.receipts THEN db.rcred[r]
                      ELSE plan.rcred[r] + (IF r \in giving THEN db.rcred[r] ELSE 0)]
    BY <1>3, <1>5, <1>6 DEF HasRebuilt, SameIds, SameReceipts
<1>9. ASSUME NEW i \in e.voidedInvoices, i \notin X.invoices, i \notin t.touched \ LiveInvoices(e)
      PROVE  Bare(e, i)
    <2>1. i \notin t.touched /\ i \in db.voidedInvoices /\ i \in Invoices
        BY <1>1, <1>8, <1>9 DEF LiveInvoices, Typed, Ids
    <2>2. Bare(db, i)
        BY <1>9, <2>1 DEF Excused
    <2>3. \A r \in Receipts : e.alloc[r][i] = 0
        BY <1>2, <1>8, <2>1, <2>2 DEF Bare
    <2>4. \A x \in e.calloc : x.inv # i
        BY <1>8, <2>2 DEF Bare
    <2> QED
        BY <2>3, <2>4 DEF Bare
<1>10. ASSUME NEW r \in Receipts, r \notin X.receipts,
              r \notin t.receipts \intersect (db.voidedReceipts \union t.renewed)
       PROVE  Within(e, r)
    <2>0. /\ db.alloc \in [Receipts -> [Invoices -> Nat]]
          /\ plan.alloc \in [Receipts -> [Invoices -> Nat]] /\ plan.rcred \in [Receipts -> Nat]
        BY <1>1, <1>2 DEF Typed, TypedRows, Plans
    <2>1. CASE r \notin t.receipts
        <3>1. e.alloc[r] = [i \in Invoices |-> db.alloc[r][i]]
            BY <1>8, <2>1
        <3>2. e.alloc[r] = db.alloc[r] /\ e.rcred[r] = db.rcred[r]
            BY <1>8, <2>0, <2>1, <3>1
        <3>3. Within(db, r)
            BY <1>10 DEF Excused
        <3> QED
            BY <1>8, <3>2, <3>3, SameWithin
    <2>2. CASE r \in t.receipts
        <3>1. r \notin paying /\ r \notin giving /\ r \notin db.voidedReceipts
            BY <1>10, <2>2
        <3>2. e.alloc[r] = [i \in Invoices |-> plan.alloc[r][i]]
            BY <1>8, <2>2, <3>1
        <3>3. e.alloc[r] = plan.alloc[r]
            BY <2>0, <3>2
        <3>4. e.rcred[r] = plan.rcred[r]
            BY <1>8, <2>0, <2>2, <3>1
        <3>5. Allocated(e, r) = Allocated(plan, r)
            BY <3>3 DEF Allocated
        <3> QED
            BY <1>2, <1>8, <2>2, <3>1, <3>4, <3>5 DEF Within
    <2> QED
        BY <2>1, <2>2
<1>11. ASSUME NEW Y, Crossing(X, t.touched \ LiveInvoices(e),
                              t.receipts \intersect (db.voidedReceipts \union t.renewed), Y)
       PROVE  Kept(db, X, t, e, Y)
    <2>1. \A q \in Receipts \ e.receipts : e.amount[q] = 0
        BY <1>8 DEF Excused
    <2>2. Excused(e, Y)
        BY <1>6, <1>7, <1>9, <1>10, <1>11, <2>1 DEF Excused, Crossing
    <2> QED
        BY <1>1, <1>8, <1>11, <2>2 DEF Kept, Crossing
<1> QED
    BY <1>11 DEF e, c, b, plan

-----------------------------------------------------------------------------
(* The desks                                                               *)

\* The desk of a transaction that is not open.
LEMMA BlankDesk ==
    /\ TypedDesk(Blank) /\ Blank.kind = "idle"
    /\ \A d, X : Holds(d, X, Blank)
    /\ \A d : Current(d, Blank)
<1>1. Min(Dates) \in Dates
    BY MinIsNat, AmountsAssumption
<1>2. TypedCopies(NoRows)
    BY <1>1 DEF TypedCopies, NoRows, EmptyDb, Statuses
<1>3. EmptyDb.paid \in [Invoices -> Nat] /\ EmptyDb.term \in [Invoices -> Terms \union {NoTerm}]
    BY DEF EmptyDb
<1>4. /\ DOMAIN Blank = DeskFields /\ Blank.kind = "idle" /\ Blank.amount = 0
      /\ Blank.rows = NoRows /\ Blank.share = EmptyDb.paid /\ Blank.applied = 0
      /\ Blank.credit = 0 /\ Blank.source = NoReceipt /\ Blank.terms = EmptyDb.term
      /\ Blank.voided = {} /\ Blank.renewed = {} /\ Blank.fresh = {}
    BY DEF Blank, DeskFields
<1>5. TypedDesk(Blank)
    BY <1>2, <1>3, <1>4 DEF TypedDesk
<1>6. \A d, X : Holds(d, X, Blank)
    BY <1>4 DEF Holds
<1>7. \A d : Current(d, Blank)
    BY <1>4 DEF Current
<1> QED
    BY <1>4, <1>5, <1>6, <1>7

\* What others have committed since is noted.
Aged(t, a, b, c) == [t EXCEPT !.alone = a, !.renewed = b, !.fresh = c]

\* What others have committed since changes nothing of what a transaction holds.
LEMMA AgedDesk ==
    ASSUME NEW t, TypedDesk(t), NEW a, NEW b, NEW c,
           NEW u, u = Aged(t, a, b, c)
    PROVE  /\ TypedDesk(u) /\ u.alone = a /\ u.kind = t.kind /\ u.id = t.id
           /\ \A d, X : Holds(d, X, t) => Holds(d, X, u)
           /\ \A d : b = {} /\ c = {} /\ Current(d, t) => Current(d, u)
<1>1. /\ DOMAIN u = DeskFields /\ u.alone = a /\ u.kind = t.kind /\ u.id = t.id
      /\ u.amount = t.amount /\ u.term = t.term /\ u.touched = t.touched /\ u.rows = t.rows
      /\ u.share = t.share /\ u.applied = t.applied /\ u.credit = t.credit
      /\ u.source = t.source /\ u.voided = t.voided /\ u.terms = t.terms
      /\ u.receipts = t.receipts /\ u.renewed = b /\ u.fresh = c
    BY DEF TypedDesk, DeskFields, Aged
<1>2. TypedDesk(u)
    BY <1>1 DEF TypedDesk
<1>3. \A d, X : Holds(d, X, t) => Holds(d, X, u)
    BY <1>1 DEF Holds
<1>4. ASSUME b = {}, c = {}, NEW d, Current(d, t)
      PROVE  Current(d, u)
    BY <1>1, <1>4 DEF Current
<1> QED
    BY <1>1, <1>2, <1>3, <1>4

\* A commit with no row of d's left out is no news.
LEMMA NoNewRows ==
    ASSUME NEW d
    PROVE  {c.seq : c \in NewRows(d, d)} = {}
<1>1. NewRows(d, d) = {}
    BY DEF NewRows
<1> QED
    BY <1>1

\* A transaction that another one overtakes holds what it held, and is no longer alone unless
\* nothing has changed.
LEMMA OvertakenDesk ==
    ASSUME NEW t, TypedDesk(t), t.alone => Current(db, t), NEW renewed
    PROVE  LET u == Overtaken(t, renewed)
           IN /\ TypedDesk(u) /\ u.kind = t.kind /\ u.id = t.id
              /\ \A d, X : Holds(d, X, t) => Holds(d, X, u)
              /\ t.kind # "idle" /\ u.alone => db' = db /\ Current(db, u)
              /\ t.kind = "idle" => u = t
<1> DEFINE a == t.alone /\ db' = db /\ renewed = {}
           b == t.renewed \union renewed
           c == t.fresh \union {x.seq : x \in NewRows(db, db')}
           u == Aged(t, a, b, c)
<1>1. CASE t.kind = "idle"
    <2>1. Overtaken(t, renewed) = t
        BY <1>1 DEF Overtaken
    <2> QED
        BY <1>1, <2>1
<1>2. CASE t.kind # "idle"
    <2>1. Overtaken(t, renewed) = u
        BY <1>2 DEF Overtaken, Aged
    <2>2. ASSUME a
          PROVE  b = {} /\ c = {} /\ Current(db, t) /\ db' = db
        <3>1. Current(db, t) /\ db' = db /\ renewed = {}
            BY <2>2
        <3>2. t.renewed = {} /\ t.fresh = {}
            BY <3>1 DEF Current
        <3>3. {x.seq : x \in NewRows(db, db')} = {}
            BY <3>1, NoNewRows
        <3> QED
            BY <3>1, <3>2, <3>3
    <2>3. TypedDesk(t) /\ u = Aged(t, a, b, c)
        OBVIOUS
    <2> HIDE DEF a, b, c, u
    <2>4. /\ TypedDesk(u) /\ u.alone = a /\ u.kind = t.kind /\ u.id = t.id
          /\ \A d, X : Holds(d, X, t) => Holds(d, X, u)
          /\ \A d : b = {} /\ c = {} /\ Current(d, t) => Current(d, u)
        BY ONLY <2>3, AgedDesk
    <2>5. u.alone => db' = db /\ Current(db, u)
        BY <2>2, <2>4
    <2> QED
        BY <1>2, <2>1, <2>4, <2>5
<1> QED
    BY <1>1, <1>2

\* A transaction keeps what it holds when another one commits.
LEMMA HoldsStays ==
    ASSUME NEW d, NEW X, NEW t, NEW e, NEW Y, Kept(d, X, t, e, Y), NEW u, Holds(d, X, u),
           u.kind = t.kind /\ u.kind \in {"payment", "invoice"} => u.id # t.id
    PROVE  Holds(e, Y, u)
BY DEF Kept, Holds

\* A transaction that starts, or is rolled back, disturbs no other.
LEMMA OpensKeeps ==
    ASSUME TxInv, UNCHANGED <<db, doubles, crossed>>, NEW q \in Requests, NEW t,
           desk' = [desk EXCEPT ![q] = t],
           TypedDesk(t), Holds(db, crossed, t), Current(db, t),
           t.kind \in {"payment", "invoice"} => t.id \notin Drawn(t.kind)
    PROVE  TxInv'
<1>1. DOMAIN desk = Requests /\ OwnIds
    BY DEF TxInv, DesksInv
<1>2. DOMAIN desk' = Requests /\ \A p \in Requests : desk'[p] = IF p = q THEN t ELSE desk[p]
    BY <1>1
<1>3. OwnIds'
    <2>1. SUFFICES ASSUME NEW p1 \in Requests, NEW p2 \in Requests, p1 # p2,
                          desk'[p1].kind = desk'[p2].kind,
                          desk'[p1].kind \in {"payment", "invoice"}
                   PROVE  desk'[p1].id # desk'[p2].id
        BY DEF OwnIds
    <2>2. \A p \in Requests : t.kind \in {"payment", "invoice"} /\ desk[p].kind = t.kind
                              => desk[p].id # t.id
        BY DEF Drawn
    <2>3. CASE p1 = q
        BY <1>2, <2>1, <2>2, <2>3
    <2>4. CASE p2 = q
        BY <1>2, <2>1, <2>2, <2>4
    <2>5. CASE p1 # q /\ p2 # q
        BY <1>1, <1>2, <2>1, <2>5 DEF OwnIds
    <2> QED
        BY <2>3, <2>4, <2>5
<1>4. ASSUME NEW p \in Requests
      PROVE  /\ TypedDesk(desk'[p]) /\ Holds(db', crossed', desk'[p])
             /\ desk'[p].alone => Current(db', desk'[p])
    BY <1>2 DEF TxInv, DesksInv
<1>5. DesksInv'
    BY <1>2, <1>3, <1>4 DEF DesksInv
<1> QED
    BY <1>5 DEF TxInv

\* A transaction that finishes leaves every other one what it holds.
LEMMA FinishKeeps ==
    ASSUME TxInv, NEW q \in Requests, desk[q].kind # "idle",
           Kept(db, crossed, desk[q], db', crossed'), Doubled(doubles', crossed'),
           NEW result, NEW renewed, Finish(q, result, renewed)
    PROVE  TxInv'
<1> DEFINE t == desk[q]
           u(p) == Overtaken(desk[p], renewed)
<1>1. \A p \in Requests : /\ TypedDesk(desk[p]) /\ Holds(db, crossed, desk[p])
                          /\ desk[p].alone => Current(db, desk[p])
    BY DEF TxInv, DesksInv
<1>2. /\ desk' = [p \in Requests |-> IF p = q THEN Blank ELSE u(p)]
      /\ Kept(db, crossed, t, db', crossed')
    BY DEF Finish
<1>3. DOMAIN desk' = Requests /\ desk'[q] = Blank /\ \A p \in Requests : p # q => desk'[p] = u(p)
    BY <1>2
<1>4. ASSUME NEW p \in Requests
      PROVE  /\ TypedDesk(u(p)) /\ u(p).kind = desk[p].kind /\ u(p).id = desk[p].id
             /\ \A d, X : Holds(d, X, desk[p]) => Holds(d, X, u(p))
             /\ desk[p].kind # "idle" /\ u(p).alone => db' = db /\ Current(db, u(p))
             /\ desk[p].kind = "idle" => u(p) = desk[p]
    <2> DEFINE tp == desk[p]
               up == u(p)
    <2>1. TypedDesk(tp) /\ (tp.alone => Current(db, tp))
        BY <1>1
    <2>2. up = Overtaken(tp, renewed)
        OBVIOUS
    <2> HIDE DEF tp, up
    <2>3. /\ TypedDesk(up) /\ up.kind = tp.kind /\ up.id = tp.id
          /\ \A d, X : Holds(d, X, tp) => Holds(d, X, up)
          /\ tp.kind # "idle" /\ up.alone => db' = db /\ Current(db, up)
          /\ tp.kind = "idle" => up = tp
        BY <2>1, <2>2, OvertakenDesk
    <2> QED
        BY <2>3 DEF tp, up
<1>5. \A p \in Requests \ {q} :
          desk[p].kind = t.kind /\ t.kind \in {"payment", "invoice"} => desk[p].id # t.id
    BY DEF TxInv, DesksInv, OwnIds
<1> HIDE DEF u
<1>6. ASSUME NEW p \in Requests
      PROVE  /\ TypedDesk(desk'[p]) /\ Holds(db', crossed', desk'[p])
             /\ desk'[p].alone => Current(db', desk'[p])
    <2>1. CASE p = q
        BY <1>3, <2>1, BlankDesk
    <2>2. CASE p # q
        <3>1. Holds(db', crossed', desk[p])
            BY <1>1, <1>2, <1>5, <2>2, HoldsStays
        <3>2. desk'[p] = u(p)
            BY <1>3, <2>2
        <3>3. TypedDesk(u(p)) /\ Holds(db', crossed', u(p))
            BY <1>4, <3>1
        <3>4. ASSUME u(p).alone
              PROVE  Current(db', u(p))
            <4>1. CASE desk[p].kind = "idle"
                <5>1. u(p).renewed = {} /\ u(p).fresh = {} /\ u(p).kind = "idle"
                    BY <1>1, <1>4, <3>4, <4>1 DEF Current
                <5> QED
                    BY <5>1 DEF Current
            <4>2. CASE desk[p].kind # "idle"
                BY <1>4, <3>4, <4>2
            <4> QED
                BY <4>1, <4>2
        <3> QED
            BY <3>2, <3>3, <3>4
    <2> QED
        BY <2>1, <2>2
<1>7. OwnIds'
    <2>1. SUFFICES ASSUME NEW p1 \in Requests, NEW p2 \in Requests, p1 # p2,
                          desk'[p1].kind = desk'[p2].kind,
                          desk'[p1].kind \in {"payment", "invoice"}
                   PROVE  desk'[p1].id # desk'[p2].id
        BY DEF OwnIds
    <2>2. p1 # q /\ p2 # q
        BY <1>3, <2>1, BlankDesk
    <2>3. /\ desk'[p1].kind = desk[p1].kind /\ desk'[p1].id = desk[p1].id
          /\ desk'[p2].kind = desk[p2].kind /\ desk'[p2].id = desk[p2].id
        BY <1>3, <1>4, <2>2
    <2> QED
        BY <2>1, <2>3 DEF TxInv, DesksInv, OwnIds
<1>8. DesksInv'
    BY <1>3, <1>6, <1>7 DEF DesksInv
<1>9. Excused(db', crossed')
    BY DEF Kept
<1> QED
    BY <1>8, <1>9 DEF TxInv

-----------------------------------------------------------------------------
(* Opening and rolling back                                                *)

\* What is read of some invoices of a typed database are typed copies.
LEMMA RowsTyped ==
    ASSUME NEW d, Typed(d), NEW S
    PROVE  TypedCopies(Rows(d, S))
<1> DEFINE of(column, none) == [i \in Invoices |-> IF i \in S THEN column[i] ELSE none[i]]
<1>1. TypedCopies(NoRows)
    <2>1. Min(Dates) \in Dates
        BY MinIsNat, AmountsAssumption
    <2> QED
        BY <2>1 DEF TypedCopies, NoRows, EmptyDb, Statuses
<1>2. of(d.date, NoRows.date) \in [Invoices -> Dates]
      /\ of(d.due, NoRows.due) \in [Invoices -> Dates]
    BY <1>1 DEF TypedCopies, Typed, TypedBills
<1>3. of(d.total, NoRows.total) \in [Invoices -> Nat]
    BY <1>1 DEF TypedCopies, Typed, TypedBills
<1>4. of(d.paid, NoRows.paid) \in [Invoices -> Nat]
      /\ of(d.balance, NoRows.balance) \in [Invoices -> Nat]
    BY <1>1 DEF TypedCopies, Typed, TypedCaches
<1>5. of(d.status, NoRows.status) \in [Invoices -> Statuses]
    BY <1>1 DEF TypedCopies, Typed, TypedCaches
<1>6. Rows(d, S) = [date |-> of(d.date, NoRows.date), due |-> of(d.due, NoRows.due),
                    total |-> of(d.total, NoRows.total), paid |-> of(d.paid, NoRows.paid),
                    balance |-> of(d.balance, NoRows.balance),
                    status |-> of(d.status, NoRows.status)]
    BY DEF Rows
<1> HIDE DEF of
<1> QED
    BY <1>2, <1>3, <1>4, <1>5, <1>6 DEF TypedCopies

\* A payment that opens holds shares within its amount, of the database as it is.
LEMMA BeginPaymentKeeps ==
    ASSUME TxInv, NEW q \in Requests, BeginPayment(q)
    PROVE  TxInv'
<1>1. PICK r \in Receipts, x \in Payments :
        LET paid    == PayInvoices(db, r, x)
            touched == {i \in Invoices : paid.alloc[r][i] > 0}
        IN /\ IsNext(r, db.receipts \union Drawn("payment"), Receipts)
           /\ Begin(q, [Blank EXCEPT !.kind = "payment", !.id = r, !.amount = x,
                          !.touched = touched, !.rows = Rows(paid, touched),
                          !.share = paid.alloc[r]])
    BY DEF BeginPayment
<1> DEFINE paid    == PayInvoices(db, r, x)
           share   == paid.alloc[r]
           touched == {i \in Invoices : share[i] > 0}
           rows    == Rows(paid, touched)
           t       == [Blank EXCEPT !.kind = "payment", !.id = r, !.amount = x,
                         !.touched = touched, !.rows = rows, !.share = share]
<1>2. Typed(db) /\ x \in Nat
    BY InputsAssumption DEF TxInv, Excused
<1>3. Typed(paid) /\ paid.alloc = [db.alloc EXCEPT ![r] = Shares(db, x)]
    <2> HIDE DEF t, rows, touched, share
    <2>1. /\ Typed(paid) /\ paid.rcred = db.rcred
          /\ paid.receipts = db.receipts \union {r}
          /\ paid.voidedReceipts = db.voidedReceipts
          /\ paid.amount = [db.amount EXCEPT ![r] = x]
          /\ paid.alloc = [db.alloc EXCEPT ![r] = Shares(db, x)]
        BY <1>2, PayInvoicesTyped
    <2> HIDE DEF paid
    <2> QED
        BY <2>1
<1>4. /\ UNCHANGED <<db, doubles, crossed>> /\ desk' = [desk EXCEPT ![q] = t]
      /\ r \notin db.receipts /\ r \notin Drawn("payment")
    BY <1>1 DEF Begin, IsNext
<1>5. /\ DOMAIN t = DeskFields /\ t.kind = "payment" /\ t.id = r /\ t.amount = x
      /\ t.touched = touched /\ t.rows = rows /\ t.share = share /\ t.voided = {}
      /\ t.applied = Blank.applied /\ t.credit = Blank.credit /\ t.source = Blank.source
      /\ t.terms = Blank.terms /\ t.renewed = {} /\ t.fresh = {}
    BY DEF Blank, DeskFields
<1>6. rows = Rows(PayInvoices(db, r, x), touched)
    OBVIOUS
<1>7. touched = {i \in Invoices : share[i] > 0}
    OBVIOUS
<1>8. share = Shares(db, x)
    BY <1>2, <1>3 DEF Typed, TypedRows
<1>9. share \in [Invoices -> Nat]
    BY <1>2, <1>8, SharesTyped
<1>10. SumFunctionOnSet(share, Invoices) <= x
    BY <1>2, <1>8, SharesWithinPayment
<1>11. TypedCopies(rows)
    BY <1>3, RowsTyped
<1> HIDE DEF t, rows, share, touched, paid
<1>12. TypedDesk(t)
    BY <1>2, <1>5, <1>9, <1>11, BlankDesk DEF TypedDesk
<1>13. Holds(db, crossed, t)
    <2>1. \A i \in Invoices \ touched : share[i] = 0
        BY <1>7, <1>9
    <2> QED
        BY <1>4, <1>5, <1>10, <2>1 DEF Holds
<1>14. Current(db, t)
    BY <1>5, <1>6, <1>7, <1>8 DEF Current
<1>15. t.kind \in {"payment", "invoice"} => t.id \notin Drawn(t.kind)
    BY <1>4, <1>5
<1> QED
    BY <1>4, <1>12, <1>13, <1>14, <1>15, OpensKeeps

\* A void that opens holds an issued receipt; a voided invoice with money on it is crossed.
LEMMA BeginVoidKeeps ==
    ASSUME TxInv, NEW q \in Requests, BeginVoid(q)
    PROVE  TxInv'
<1>1. PICK r \in LiveReceipts(db) :
        LET touched == {i \in Invoices : db.alloc[r][i] > 0}
        IN Begin(q, [Blank EXCEPT !.kind = "void", !.id = r, !.touched = touched,
                       !.voided = touched \intersect db.voidedInvoices,
                       !.rows = Rows(ReleaseInvoices(db, r), touched),
                       !.amount = Monus(db.amount[r], Allocated(db, r))])
    BY DEF BeginVoid
<1> DEFINE touched == {i \in Invoices : db.alloc[r][i] > 0}
           voided  == touched \intersect db.voidedInvoices
           rows    == Rows(ReleaseInvoices(db, r), touched)
           over    == Monus(db.amount[r], Allocated(db, r))
           t       == [Blank EXCEPT !.kind = "void", !.id = r, !.touched = touched,
                         !.voided = voided, !.rows = rows, !.amount = over]
<1>2. Typed(db) /\ r \in db.receipts /\ r \in Receipts
    BY DEF TxInv, Excused, Typed, Ids, LiveReceipts
<1>3. Typed(ReleaseInvoices(db, r))
    BY <1>2, ReleaseInvoicesTyped
<1>4. UNCHANGED <<db, doubles, crossed>> /\ desk' = [desk EXCEPT ![q] = t]
    BY <1>1 DEF Begin
<1>5. /\ DOMAIN t = DeskFields /\ t.kind = "void" /\ t.id = r /\ t.amount = over
      /\ t.touched = touched /\ t.rows = rows /\ t.share = Blank.share /\ t.voided = voided
      /\ t.applied = Blank.applied /\ t.credit = Blank.credit /\ t.source = Blank.source
      /\ t.terms = Blank.terms /\ t.renewed = {} /\ t.fresh = {}
    BY DEF Blank, DeskFields
<1>6. /\ rows = Rows(ReleaseInvoices(db, r), touched)
      /\ touched = {i \in Invoices : db.alloc[r][i] > 0}
      /\ voided = touched \intersect db.voidedInvoices
      /\ over = Monus(db.amount[r], Allocated(db, r))
    OBVIOUS
<1>7. over \in Nat
    <2>1. db.amount[r] \in Nat /\ Allocated(db, r) \in Nat
        BY <1>2, AllocatedIsNat DEF Typed, TypedRows
    <2> QED
        BY <2>1 DEF Monus
<1>8. TypedCopies(rows)
    BY <1>3, RowsTyped
<1> HIDE DEF t, rows, touched, over, voided
<1>9. TypedDesk(t)
    BY <1>5, <1>7, <1>8, BlankDesk DEF TypedDesk
<1>10. voided \subseteq db.invoices
    BY <1>2, <1>6 DEF Typed, Ids
<1>11. voided \subseteq crossed.invoices
    <2> SUFFICES ASSUME NEW i \in voided, i \notin crossed.invoices
                 PROVE  FALSE
        OBVIOUS
    <2>1. i \in db.voidedInvoices /\ db.alloc[r][i] > 0
        BY <1>6
    <2>2. db.alloc[r][i] = 0
        BY <1>2, <2>1 DEF TxInv, Excused, Bare
    <2> QED
        BY <2>1, <2>2
<1>12. Holds(db, crossed, t)
    BY <1>2, <1>5, <1>10, <1>11 DEF Holds
<1>13. Current(db, t)
    BY <1>5, <1>6 DEF Current
<1>14. ~(t.kind \in {"payment", "invoice"})
    BY <1>5
<1> QED
    BY <1>4, <1>9, <1>12, <1>13, <1>14, OpensKeeps

\* The bill of a new invoice holds an id of its own and the credit as it is.
LEMMA BeginInvoiceKeeps ==
    ASSUME TxInv, NEW q \in Requests, BeginInvoice(q)
    PROVE  TxInv'
<1>1. PICK i \in Invoices, term \in Terms, bill \in Bills, exemption \in Exemptions :
        LET net == NetBill(bill, exemption)
            x   == CreditToApply(db, net)
        IN /\ IsNext(i, db.invoices \union Drawn("invoice"), Invoices)
           /\ InvoiceIsValid(bill, exemption, Min(Dates), Min(Dates))
           /\ Begin(q, [Blank EXCEPT !.kind = "invoice", !.id = i, !.amount = net,
                          !.term = term, !.applied = x, !.credit = db.credit - x,
                          !.source = CreditSource(db, x)])
    BY DEF BeginInvoice
<1> DEFINE net    == NetBill(bill, exemption)
           x      == CreditToApply(db, net)
           credit == db.credit - x
           source == CreditSource(db, x)
           t      == [Blank EXCEPT !.kind = "invoice", !.id = i, !.amount = net, !.term = term,
                        !.applied = x, !.credit = credit, !.source = source]
<1>2. Typed(db)
    BY DEF TxInv, Excused
<1>3. net \in Nat
    BY <1>1, InputsTyped
<1>4. /\ UNCHANGED <<db, doubles, crossed>> /\ desk' = [desk EXCEPT ![q] = t]
      /\ i \notin db.invoices /\ i \notin Drawn("invoice")
    BY <1>1 DEF Begin, IsNext
<1>5. /\ DOMAIN t = DeskFields /\ t.kind = "invoice" /\ t.id = i /\ t.amount = net
      /\ t.term = term /\ t.applied = x /\ t.credit = credit /\ t.source = source
      /\ t.share = Blank.share /\ t.rows = Blank.rows /\ t.voided = {}
      /\ t.terms = Blank.terms /\ t.renewed = {} /\ t.fresh = {}
    BY DEF Blank, DeskFields
<1> HIDE DEF t, net
<1>6. x = CreditToApply(db, net) /\ credit = db.credit - x /\ source = CreditSource(db, x)
    OBVIOUS
<1>7. x \in Nat /\ credit \in Nat
    BY <1>2, <1>3, CreditToApplyIsNat DEF Typed
<1> HIDE DEF x
<1>8. source \in Receipts \union {NoReceipt}
    BY <1>2, <1>7, CreditSourceTyped DEF Typed
<1> HIDE DEF credit, source
<1>9. TypedDesk(t)
    BY <1>3, <1>5, <1>7, <1>8, BlankDesk DEF TypedDesk
<1>10. Holds(db, crossed, t)
    BY <1>4, <1>5 DEF Holds
<1>11. Current(db, t)
    BY <1>5, <1>6 DEF Current
<1>12. t.kind \in {"payment", "invoice"} => t.id \notin Drawn(t.kind)
    BY <1>4, <1>5
<1> QED
    BY <1>4, <1>9, <1>10, <1>11, <1>12, OpensKeeps

\* An invoice marked void.
Struck(d, i) == [d EXCEPT !.voidedInvoices = @ \union {i}]

\* Marking an issued invoice void keeps the types and every other column.
LEMMA StruckTyped ==
    ASSUME NEW d, Typed(d), NEW i \in d.invoices
    PROVE  LET e == Struck(d, i)
           IN /\ Typed(e) /\ SameReceipts(d, e) /\ SameBills(d, e) /\ SameCaches(d, e)
              /\ SameCredit(d, e) /\ e.calloc = d.calloc
              /\ e.invoices = d.invoices /\ e.voidedInvoices = d.voidedInvoices \union {i}
              /\ e.receipts = d.receipts /\ e.voidedReceipts = d.voidedReceipts
<1> DEFINE e == Struck(d, i)
<1>1. DOMAIN d = Columns
    BY DEF Typed, Ids
<1>2. /\ DOMAIN e = Columns /\ SameReceipts(d, e) /\ SameBills(d, e) /\ SameCaches(d, e)
      /\ SameCredit(d, e) /\ e.calloc = d.calloc
      /\ e.invoices = d.invoices /\ e.voidedInvoices = d.voidedInvoices \union {i}
      /\ e.receipts = d.receipts /\ e.voidedReceipts = d.voidedReceipts
    BY <1>1 DEF Struck, SameReceipts, SameBills, SameCaches, SameCredit, Columns
<1> HIDE DEF e
<1>3. Ids(e) /\ TypedRows(e)
    BY <1>2 DEF Typed, Ids, TypedRows, SameReceipts
<1>4. TypedBills(e) /\ TypedCaches(e) /\ TypedCredit(e)
    BY <1>2 DEF Typed, TypedBills, TypedCaches, TypedCredit, SameBills, SameCaches, SameCredit
<1> QED
    BY <1>2, <1>3, <1>4 DEF Typed, e

\* A voidInvoice that opens holds its invoice as it is, marked void.
LEMMA BeginCancelKeeps ==
    ASSUME TxInv, NEW q \in Requests, BeginCancel(q)
    PROVE  TxInv'
<1>1. PICK i \in LiveInvoices(db) :
        LET marked == [db EXCEPT !.voidedInvoices = @ \union {i}]
        IN Begin(q, [Blank EXCEPT !.kind = "cancel", !.id = i, !.amount = CreditPaid(db, i),
                       !.touched = {i}, !.voided = {i},
                       !.rows = Rows(Recalculate(marked, {i}), {i})])
    BY DEF BeginCancel
<1> DEFINE rows == Rows(Recalculate(Struck(db, i), {i}), {i})
           paid == CreditPaid(db, i)
           t    == [Blank EXCEPT !.kind = "cancel", !.id = i, !.amount = paid,
                      !.touched = {i}, !.voided = {i}, !.rows = rows]
<1>2. Typed(db) /\ i \in db.invoices /\ i \in Invoices
    BY DEF TxInv, Excused, Typed, Ids, LiveInvoices
<1>3. UNCHANGED <<db, doubles, crossed>> /\ desk' = [desk EXCEPT ![q] = t]
    BY <1>1 DEF Begin, Struck
<1>4. /\ DOMAIN t = DeskFields /\ t.kind = "cancel" /\ t.id = i /\ t.amount = paid
      /\ t.touched = {i} /\ t.rows = rows /\ t.share = Blank.share /\ t.voided = {i}
      /\ t.applied = Blank.applied /\ t.credit = Blank.credit /\ t.source = Blank.source
      /\ t.terms = Blank.terms /\ t.renewed = {} /\ t.fresh = {}
    BY DEF Blank, DeskFields
<1>5. Typed(Struck(db, i))
    BY <1>2, StruckTyped
<1>6. TypedCopies(rows)
    BY <1>5, RecalculateTyped, RowsTyped
<1>7. paid \in Nat
    BY <1>2, PaidIsNat DEF CreditPaid, Typed
<1>8. /\ paid = CreditPaid(db, i)
      /\ rows = Rows(Recalculate([db EXCEPT !.voidedInvoices = @ \union {i}], {i}), {i})
    BY DEF Struck
<1> HIDE DEF t, rows, paid
<1>9. TypedDesk(t)
    BY <1>4, <1>6, <1>7, BlankDesk DEF TypedDesk
<1>10. Holds(db, crossed, t)
    BY <1>2, <1>4 DEF Holds
<1>11. Current(db, t)
    BY <1>4, <1>8 DEF Current
<1>12. ~(t.kind \in {"payment", "invoice"})
    BY <1>4
<1> QED
    BY <1>3, <1>9, <1>10, <1>11, <1>12, OpensKeeps

\* A reconciliation that opens holds the live invoices.
LEMMA BeginReconcileKeeps ==
    ASSUME TxInv, NEW q \in Requests, BeginReconcile(q)
    PROVE  TxInv'
<1> DEFINE live == LiveInvoices(db)
           t    == [Blank EXCEPT !.kind = "reconcile", !.touched = live]
<1>1. UNCHANGED <<db, doubles, crossed>> /\ desk' = [desk EXCEPT ![q] = t]
    BY DEF BeginReconcile, Begin
<1>2. /\ DOMAIN t = DeskFields /\ t.kind = "reconcile" /\ t.amount = Blank.amount
      /\ t.touched = live /\ t.rows = Blank.rows /\ t.share = Blank.share /\ t.voided = {}
      /\ t.applied = Blank.applied /\ t.credit = Blank.credit /\ t.source = Blank.source
      /\ t.terms = Blank.terms /\ t.renewed = {} /\ t.fresh = {}
    BY DEF Blank, DeskFields
<1>3. live \in SUBSET Invoices
    BY DEF TxInv, Excused, Typed, Ids, LiveInvoices
<1>4. live = LiveInvoices(db)
    OBVIOUS
<1> HIDE DEF t, live
<1>5. TypedDesk(t)
    BY <1>2, BlankDesk DEF TypedDesk
<1>6. Holds(db, crossed, t)
    BY <1>2, <1>3 DEF Holds
<1>7. Current(db, t)
    BY <1>2, <1>4 DEF Current
<1>8. ~(t.kind \in {"payment", "invoice"})
    BY <1>2
<1> QED
    BY <1>1, <1>5, <1>6, <1>7, <1>8, OpensKeeps

\* A rebuild that opens holds the live invoices and receipts.
LEMMA BeginRebuildKeeps ==
    ASSUME TxInv, NEW q \in Requests, BeginRebuild(q)
    PROVE  TxInv'
<1> DEFINE live  == LiveInvoices(db)
           terms == [i \in Invoices |-> IF i \in live THEN db.term[i] ELSE NoTerm]
           given == LiveReceipts(db)
           t     == [Blank EXCEPT !.kind = "rebuild", !.touched = live, !.terms = terms,
                       !.receipts = given]
<1>1. UNCHANGED <<db, doubles, crossed>> /\ desk' = [desk EXCEPT ![q] = t]
    BY DEF BeginRebuild, Begin
<1>2. /\ DOMAIN t = DeskFields /\ t.kind = "rebuild" /\ t.amount = Blank.amount
      /\ t.touched = live /\ t.rows = Blank.rows /\ t.share = Blank.share /\ t.voided = {}
      /\ t.applied = Blank.applied /\ t.credit = Blank.credit /\ t.source = Blank.source
      /\ t.terms = terms /\ t.receipts = given /\ t.renewed = {} /\ t.fresh = {}
    BY DEF Blank, DeskFields
<1>3. /\ live \subseteq db.invoices /\ given \subseteq db.receipts
      /\ terms \in [Invoices -> Terms \union {NoTerm}]
    BY DEF TxInv, Excused, Typed, TypedBills, LiveInvoices, LiveReceipts
<1>4. /\ live = LiveInvoices(db) /\ given = LiveReceipts(db)
      /\ terms = [i \in Invoices |-> IF i \in LiveInvoices(db) THEN db.term[i] ELSE NoTerm]
    OBVIOUS
<1> HIDE DEF t, terms, live, given
<1>5. TypedDesk(t)
    BY <1>2, <1>3, BlankDesk DEF TypedDesk
<1>6. Holds(db, crossed, t)
    BY <1>2, <1>3 DEF Holds
<1>7. Current(db, t)
    BY <1>2, <1>4 DEF Current
<1>8. ~(t.kind \in {"payment", "invoice"})
    BY <1>2
<1> QED
    BY <1>1, <1>5, <1>6, <1>7, <1>8, OpensKeeps

\* A transaction that is rolled back leaves nothing.
LEMMA RollBackKeeps ==
    ASSUME TxInv, NEW q \in Requests, RollBack(q)
    PROVE  TxInv'
<1>1. UNCHANGED <<db, doubles, crossed>> /\ desk' = [desk EXCEPT ![q] = Blank]
    BY DEF RollBack
<1>2. /\ Blank.kind = "idle" /\ TypedDesk(Blank) /\ Holds(db, crossed, Blank)
      /\ Current(db, Blank)
    BY BlankDesk
<1> QED
    BY <1>1, <1>2, OpensKeeps

-----------------------------------------------------------------------------
(* Committing                                                              *)

\* What the invariant says of a transaction that finishes.
LEMMA OpenDesk ==
    ASSUME TxInv, NEW q \in Requests
    PROVE  /\ Excused(db, crossed) /\ Typed(db)
           /\ TypedDesk(desk[q]) /\ Holds(db, crossed, desk[q])
           /\ DOMAIN crossed = {"invoices", "receipts"}
           /\ doubles \in [Receipts -> SUBSET Nat]
           /\ \A r \in Receipts : doubles[r] # {} => r \in crossed.receipts
BY DEF TxInv, DesksInv, Excused, Doubled

\* Every payment that finishes keeps the invariant.
LEMMA FinishPaymentKeeps ==
    ASSUME TxInv, NEW q \in Requests, FinishPayment(q)
    PROVE  TxInv'
<1> DEFINE t == desk[q]
           onto(W) == Recorded(WriteInvoices(db, t, W), t.id, t.amount, t.share)
           I == t.touched \ LiveInvoices(db')
<1>1. PICK W \in SUBSET Stale(t) :
          Finish(q, BankRest(onto(W), t.id, t.amount - Allocated(onto(W), t.id)), {t.id})
    BY DEF FinishPayment, Recorded
<1>2. /\ t.kind = "payment" /\ UNCHANGED doubles
      /\ crossed' = [crossed EXCEPT !.invoices = @ \union I]
    BY DEF FinishPayment
<1>3. /\ Excused(db, crossed) /\ TypedDesk(t) /\ Holds(db, crossed, t)
      /\ DOMAIN crossed = {"invoices", "receipts"} /\ Doubled(doubles, crossed)
    BY OpenDesk DEF TxInv
<1>4. W \in SUBSET t.touched
    BY DEF Stale
<1>5. db' = BankRest(onto(W), t.id, t.amount - Allocated(onto(W), t.id)).db
    BY <1>1 DEF Finish
<1>6. Crossing(crossed, I, {}, crossed') /\ DOMAIN crossed' = {"invoices", "receipts"}
    BY <1>2, <1>3 DEF Crossing
<1>7. Doubled(doubles', crossed')
    BY <1>2, <1>3, <1>6 DEF Doubled, Crossing
<1> HIDE DEF t, I
<1>8. \A Y : Crossing(crossed, t.touched \ LiveInvoices(db'), {}, Y)
             => Kept(db, crossed, t, db', Y)
    BY <1>2, <1>3, <1>4, <1>5, PaymentKeeps
<1>9. Kept(db, crossed, t, db', crossed')
    BY <1>6, <1>8 DEF I
<1> QED
    BY <1>1, <1>2, <1>7, <1>9, FinishKeeps DEF t

\* Every void that finishes does.
LEMMA FinishVoidKeeps ==
    ASSUME TxInv, NEW q \in Requests, FinishVoid(q)
    PROVE  TxInv'
<1> DEFINE t == desk[q]
           onto(W) == Voiding(WriteInvoices(db, t, W), t.id)
<1>1. PICK W \in SUBSET Stale(t), created \in Slips(t.id) :
          /\ created <= db.rcred[t.id]
          /\ Finish(q, [ok |-> TRUE,
                        db |-> TakeBackCredit(onto(W), t.id, t.amount, created)], {})
          /\ doubles' = [doubles EXCEPT ![t.id] = @ \ {created}]
    BY DEF FinishVoid, Voiding
<1>2. t.kind = "void" /\ UNCHANGED crossed
    BY DEF FinishVoid
<1>3. /\ Excused(db, crossed) /\ TypedDesk(t) /\ Holds(db, crossed, t) /\ Typed(db)
      /\ doubles \in [Receipts -> SUBSET Nat]
      /\ \A r \in Receipts : doubles[r] # {} => r \in crossed.receipts
      /\ DOMAIN crossed = {"invoices", "receipts"}
    BY OpenDesk
<1>4. db' = TakeBackCredit(onto(W), t.id, t.amount, created)
    BY <1>1 DEF Finish
<1> HIDE DEF t
<1>5. t.id \in Receipts
    BY <1>2, <1>3 DEF Holds, Typed, Ids
<1>6. created \in Nat /\ (t.id \notin crossed.receipts => created = db.rcred[t.id])
    BY <1>1, <1>3, <1>5 DEF Slips, Typed, TypedRows
<1>7. Doubled(doubles', crossed')
    BY <1>1, <1>2, <1>3, <1>5 DEF Doubled
<1>8. Kept(db, crossed, t, db', crossed)
    <2>1. created <= db.rcred[t.id]
        BY <1>1
    <2>2. Kept(db, crossed, t, TakeBackCredit(onto(W), t.id, t.amount, created), crossed)
        BY <1>2, <1>3, <1>6, <2>1, VoidKeeps
    <2> QED
        BY <1>4, <2>2
<1>9. Kept(db, crossed, t, db', crossed')
    BY <1>2, <1>8
<1> QED
    BY <1>1, <1>2, <1>7, <1>9, FinishKeeps DEF t

\* Every invoice that is saved does: the unique column keeps its term its own.
LEMMA FinishInvoiceKeeps ==
    ASSUME TxInv, NEW q \in Requests, FinishInvoice(q)
    PROVE  TxInv'
<1> DEFINE t    == desk[q]
           done == Billed(Drew(db, t), t.id, t.term, t.amount, Min(Dates), Min(Dates),
                          t.applied, t.source)
<1>1. /\ t.kind = "invoice" /\ TermFree(t.term) /\ Finish(q, done, {})
      /\ UNCHANGED <<doubles, crossed>>
    BY DEF FinishInvoice, Drew, Billed, Inserted
<1>2. Excused(db, crossed) /\ TypedDesk(t) /\ Holds(db, crossed, t)
    BY OpenDesk
<1>3. \A j \in db.invoices : db.term[j] # t.term
    BY <1>1 DEF TermFree
<1>4. Doubled(doubles', crossed')
    BY <1>1 DEF TxInv
<1> HIDE DEF t
<1>5. Kept(db, crossed, t, done.db, crossed)
    BY <1>1, <1>2, <1>3, InvoiceKeeps
<1> HIDE DEF done
<1>6. Kept(db, crossed, t, db', crossed')
    BY <1>1, <1>5 DEF Finish
<1> QED
    BY <1>1, <1>4, <1>6, FinishKeeps DEF t

\* Every voidInvoice does: an invoice that got a row meanwhile is crossed.
LEMMA FinishCancelKeeps ==
    ASSUME TxInv, NEW q \in Requests, FinishCancel(q)
    PROVE  TxInv'
<1> DEFINE t == desk[q]
           e == Reconcile(Cancelled(db, t))
           I == IF PaidMeanwhile(t.id, t) THEN {t.id} ELSE {}
<1>1. /\ t.kind = "cancel" /\ Finish(q, e, {}) /\ UNCHANGED doubles
      /\ crossed' = [crossed EXCEPT !.invoices = @ \union I]
    BY DEF FinishCancel, Cancelled
<1>2. /\ Excused(db, crossed) /\ TypedDesk(t) /\ Holds(db, crossed, t) /\ Typed(db)
      /\ DOMAIN crossed = {"invoices", "receipts"} /\ Doubled(doubles, crossed)
    BY OpenDesk DEF TxInv
<1>3. Crossing(crossed, I, {}, crossed') /\ DOMAIN crossed' = {"invoices", "receipts"}
    BY <1>1, <1>2 DEF Crossing
<1>4. Doubled(doubles', crossed')
    BY <1>1, <1>2, <1>3 DEF Doubled, Crossing
<1> HIDE DEF t
<1>5. t.id \notin I => /\ \A r \in t.renewed : ~(db.alloc[r][t.id] > 0)
                       /\ \A c \in RowsOf(db, t.id) : c.seq \notin t.fresh
    BY DEF PaidMeanwhile
<1> HIDE DEF I
<1>6. \A Y : Crossing(crossed, I, {}, Y) => Kept(db, crossed, t, e.db, Y)
    BY <1>1, <1>2, <1>5, CancelKeeps
<1> HIDE DEF e
<1>7. Kept(db, crossed, t, db', crossed')
    BY <1>1, <1>3, <1>6 DEF Finish
<1> QED
    BY <1>1, <1>4, <1>7, FinishKeeps DEF t

\* Every reconciliation does.
LEMMA FinishReconcileKeeps ==
    ASSUME TxInv, NEW q \in Requests, FinishReconcile(q)
    PROVE  TxInv'
<1> DEFINE t == desk[q]
           e == ReconcileOf(db, t.touched)
<1>1. t.kind = "reconcile" /\ Finish(q, e, {}) /\ UNCHANGED <<doubles, crossed>>
    BY DEF FinishReconcile
<1>2. Excused(db, crossed) /\ TypedDesk(t) /\ Holds(db, crossed, t)
    BY OpenDesk
<1>3. Doubled(doubles', crossed')
    BY <1>1 DEF TxInv
<1> HIDE DEF t
<1>4. Kept(db, crossed, t, e.db, crossed)
    BY <1>1, <1>2, ReconcileKeeps
<1> HIDE DEF e
<1>5. Kept(db, crossed, t, db', crossed')
    BY <1>1, <1>4 DEF Finish
<1> QED
    BY <1>1, <1>3, <1>5, FinishKeeps DEF t

\* Every rebuild does: what it wrote of voided rows is crossed.
LEMMA FinishRebuildKeeps ==
    ASSUME TxInv, NEW q \in Requests, FinishRebuild(q)
    PROVE  TxInv'
<1> DEFINE t    == desk[q]
           plan == LoadedPlan(t)
           b(W, fresh, paying, giving) == Rebuilt(t, plan, W, fresh, paying, giving)
           e(W, fresh, paying, giving) ==
               VerifyCredit(Recalculate(b(W, fresh, paying, giving), t.touched))
           doubled(giving) == {r \in giving : db.rcred[r] > 0 /\ plan.rcred[r] > 0}
           I == t.touched \ LiveInvoices(db')
           R == t.receipts \intersect (db.voidedReceipts \union t.renewed)
<1>0. PICK W \in SUBSET Outdated(t), fresh \in SUBSET t.fresh,
           paying \in SUBSET (t.renewed \intersect t.receipts) :
          \E giving \in SUBSET paying :
              /\ Finish(q, [ok |-> TermsUnique(b(W, fresh, paying, giving)),
                            db |-> e(W, fresh, paying, giving)], t.receipts)
              /\ doubles' = [r \in Receipts |->
                    CASE r \in doubled(giving)      -> Slips(r) \union {plan.rcred[r]}
                      [] r \in t.receipts \ giving  -> {}
                      [] OTHER                      -> doubles[r]]
    BY DEF FinishRebuild
<1>1. PICK giving \in SUBSET paying :
          /\ Finish(q, [ok |-> TermsUnique(b(W, fresh, paying, giving)),
                        db |-> e(W, fresh, paying, giving)], t.receipts)
          /\ doubles' = [r \in Receipts |->
                CASE r \in doubled(giving)      -> Slips(r) \union {plan.rcred[r]}
                  [] r \in t.receipts \ giving  -> {}
                  [] OTHER                      -> doubles[r]]
    BY <1>0
<1>2. /\ t.kind = "rebuild"
      /\ crossed' = [invoices |-> crossed.invoices \union I,
                     receipts |-> crossed.receipts \union R]
    BY DEF FinishRebuild
<1>3. /\ Excused(db, crossed) /\ TypedDesk(t) /\ Holds(db, crossed, t) /\ Typed(db)
      /\ doubles \in [Receipts -> SUBSET Nat]
      /\ \A r \in Receipts : doubles[r] # {} => r \in crossed.receipts
    BY OpenDesk
<1>4. /\ TermsUnique(b(W, fresh, paying, giving)) /\ db' = e(W, fresh, paying, giving)
    BY <1>1 DEF Finish
<1>5. Crossing(crossed, I, R, crossed') /\ DOMAIN crossed' = {"invoices", "receipts"}
    BY <1>2 DEF Crossing
<1>6. \A Y : Crossing(crossed, I, R, Y) => Kept(db, crossed, t, db', Y)
    <2>1. paying \in SUBSET t.renewed /\ giving \in SUBSET paying
        BY <1>1
    <2> HIDE DEF t
    <2>2. \A Y : Crossing(crossed, t.touched \ LiveInvoices(e(W, fresh, paying, giving)),
                          t.receipts \intersect (db.voidedReceipts \union t.renewed), Y)
                 => Kept(db, crossed, t, e(W, fresh, paying, giving), Y)
        BY <1>2, <1>3, <1>4, <2>1, RebuildKeeps
    <2> QED
        BY <1>4, <2>2
<1>7. Kept(db, crossed, t, db', crossed')
    BY <1>5, <1>6
<1>8. plan \in Plans
    BY <1>2, <1>3, LoadedPlanFills DEF Holds
<1>9. doubled(giving) \subseteq R /\ doubled(giving) \subseteq giving
    BY <1>1
<1> HIDE DEF t, plan, R, doubled
<1>10. ASSUME NEW r \in Receipts
       PROVE  doubles'[r] \in SUBSET Nat /\ (doubles'[r] # {} => r \in crossed'.receipts)
    <2>1. plan.rcred[r] \in Nat /\ Slips(r) \subseteq Nat /\ doubles[r] \subseteq Nat
        BY <1>3, <1>8 DEF Plans, Slips, Typed, TypedRows
    <2>2. crossed'.receipts = crossed.receipts \union R
        BY <1>5 DEF Crossing
    <2>3. CASE r \in doubled(giving)
        <3>1. doubles'[r] = Slips(r) \union {plan.rcred[r]}
            BY <1>1, <1>9, <2>3
        <3>2. r \in crossed'.receipts
            BY <1>9, <2>2, <2>3
        <3>3. doubles'[r] \subseteq Nat
            BY <2>1, <3>1
        <3> QED
            BY <3>2, <3>3
    <2>4. CASE r \notin doubled(giving)
        <3>1. doubles'[r] = {} \/ doubles'[r] = doubles[r]
            BY <1>1, <2>4
        <3> QED
            BY <1>3, <2>1, <2>2, <3>1
    <2> QED
        BY <2>3, <2>4
<1>11. Doubled(doubles', crossed')
    <2>1. DOMAIN doubles' = Receipts /\ doubles' = [r \in Receipts |-> doubles'[r]]
        BY <1>1
    <2>2. doubles' \in [Receipts -> SUBSET Nat]
        BY <1>10, <2>1
    <2> QED
        BY <1>5, <1>10, <2>2 DEF Doubled
<1>12. /\ desk[q].kind # "idle" /\ Kept(db, crossed, desk[q], db', crossed')
       /\ Finish(q, [ok |-> TermsUnique(b(W, fresh, paying, giving)),
                     db |-> e(W, fresh, paying, giving)], t.receipts)
    BY <1>1, <1>2, <1>7 DEF t
<1> HIDE DEF b, e
<1> QED
    BY <1>11, <1>12, FinishKeeps

\* What is committed is kept however the transactions overlap.
LEMMA TxStep ==
    ASSUME TxInv, [TxNext]_txVars
    PROVE  TxInv'
<1>1. CASE UNCHANGED txVars
    BY <1>1 DEF txVars, TxInv, DesksInv, OwnIds
<1>2. CASE TxNext
    BY <1>2, BeginPaymentKeeps, FinishPaymentKeeps, BeginVoidKeeps, FinishVoidKeeps,
       BeginInvoiceKeeps, FinishInvoiceKeeps, BeginCancelKeeps, FinishCancelKeeps,
       BeginReconcileKeeps, FinishReconcileKeeps, BeginRebuildKeeps, FinishRebuildKeeps,
       RollBackKeeps DEF TxNext
<1> QED
    BY <1>1, <1>2

\* Nothing is open to begin with.
LEMMA TxInitInv == TxInit => TxInv
<1> SUFFICES ASSUME TxInit PROVE TxInv
    OBVIOUS
<1>1. /\ db = EmptyDb /\ desk = [q \in Requests |-> Blank]
      /\ doubles = [r \in Receipts |-> {}] /\ crossed = [invoices |-> {}, receipts |-> {}]
    BY DEF TxInit, Init
<1>2. Typed(db) /\ \A r \in Receipts : Within(db, r)
    <2>1. Balanced(db)
        BY <1>1, EmptyDbBalanced
    <2>2. ASSUME NEW r \in Receipts
          PROVE  Within(db, r)
        <3>1. Allocated(db, r) + db.rcred[r] <= db.amount[r]
            BY <2>1 DEF Balanced
        <3>2. r \notin db.voidedReceipts
            BY <1>1 DEF EmptyDb
        <3> QED
            BY <3>1, <3>2 DEF Within
    <2> QED
        BY <2>1, <2>2 DEF Balanced
<1>3. TermsOnce(db) /\ db.voidedInvoices = {} /\ \A r \in Receipts : db.amount[r] = 0
    BY <1>1 DEF TermsOnce, EmptyDb
<1>4. Excused(db, crossed)
    BY <1>2, <1>3 DEF Excused
<1>5. Doubled(doubles, crossed)
    BY <1>1 DEF Doubled
<1>6. \A q \in Requests : desk[q] = Blank
    BY <1>1
<1>7. DesksInv
    BY <1>1, <1>6, BlankDesk DEF DesksInv, OwnIds
<1> QED
    BY <1>4, <1>5, <1>7 DEF TxInv

-----------------------------------------------------------------------------
(* A transaction that is alone                                             *)

\* Rows that are written back where they were read give the columns they were read from,
\* if only they were changed.
LEMMA WrittenBack ==
    ASSUME NEW d, Typed(d), NEW p, Typed(p), NEW t, t.rows = Rows(p, t.touched), NEW W,
           \A i \in Invoices \ t.touched :
               /\ p.date[i] = d.date[i] /\ p.due[i] = d.due[i] /\ p.total[i] = d.total[i]
               /\ p.paid[i] = d.paid[i] /\ p.balance[i] = d.balance[i]
               /\ p.status[i] = d.status[i]
    PROVE  LET e == WriteInvoices(d, t, W)
           IN /\ DOMAIN e = Columns /\ e.invoices = d.invoices
              /\ e.voidedInvoices = (d.voidedInvoices \ W) \union (W \intersect t.voided)
              /\ e.receipts = d.receipts /\ e.voidedReceipts = d.voidedReceipts
              /\ e.term = d.term /\ SameReceipts(d, e) /\ SameCredit(d, e) /\ e.calloc = d.calloc
              /\ e.date = p.date /\ e.due = p.due /\ e.total = p.total /\ SameCaches(p, e)
<1> DEFINE rows == t.rows
           S    == t.touched
           e    == WriteInvoices(d, t, W)
           V    == (d.voidedInvoices \ W) \union (W \intersect t.voided)
           kept(new, old) == [i \in Invoices |-> IF i \in S THEN new[i] ELSE old[i]]
<1>1. DOMAIN d = Columns
    BY DEF Typed, Ids
<1>3. \A i \in Invoices : i \in S =>
         /\ rows.date[i] = p.date[i] /\ rows.due[i] = p.due[i] /\ rows.total[i] = p.total[i]
         /\ rows.paid[i] = p.paid[i] /\ rows.balance[i] = p.balance[i]
         /\ rows.status[i] = p.status[i]
    BY DEF Rows
<1>4. /\ DOMAIN e = Columns
      /\ e.invoices = d.invoices /\ e.voidedInvoices = V
      /\ e.receipts = d.receipts /\ e.voidedReceipts = d.voidedReceipts
      /\ SameReceipts(d, e) /\ SameCredit(d, e) /\ e.calloc = d.calloc /\ e.term = d.term
      /\ e.date = kept(rows.date, d.date) /\ e.due = kept(rows.due, d.due)
      /\ e.total = kept(rows.total, d.total) /\ e.paid = kept(rows.paid, d.paid)
      /\ e.balance = kept(rows.balance, d.balance) /\ e.status = kept(rows.status, d.status)
    BY <1>1 DEF WriteInvoices, SameReceipts, SameCredit, Columns
<1>5. \A i \in Invoices \ S :
               /\ p.date[i] = d.date[i] /\ p.due[i] = d.due[i] /\ p.total[i] = d.total[i]
               /\ p.paid[i] = d.paid[i] /\ p.balance[i] = d.balance[i]
               /\ p.status[i] = d.status[i]
    OBVIOUS
<1> HIDE DEF e, rows, S
<1>6. e.date = p.date /\ e.due = p.due /\ e.total = p.total
    <2>1. p.date = [i \in Invoices |-> p.date[i]]
          /\ p.due = [i \in Invoices |-> p.due[i]]
          /\ p.total = [i \in Invoices |-> p.total[i]]
        BY DEF Typed, TypedBills
    <2> QED
        BY <1>3, <1>4, <1>5, <2>1
<1>7. e.paid = p.paid /\ e.balance = p.balance /\ e.status = p.status
    <2>1. p.paid = [i \in Invoices |-> p.paid[i]]
          /\ p.balance = [i \in Invoices |-> p.balance[i]]
          /\ p.status = [i \in Invoices |-> p.status[i]]
        BY DEF Typed, TypedCaches
    <2> QED
        BY <1>3, <1>4, <1>5, <2>1
<1> QED
    BY <1>4, <1>6, <1>7 DEF SameCaches, e

\* A payment that finishes on the database it read is the payment of one step.
LEMMA PaymentIsSerial ==
    ASSUME NEW d, Typed(d), NEW X, NEW t, TypedDesk(t), Holds(d, X, t), Current(d, t),
           t.kind = "payment"
    PROVE  Recorded(WriteInvoices(d, t, {}), t.id, t.amount, t.share)
             = PayInvoices(d, t.id, t.amount)
<1> DEFINE r     == t.id
           x     == t.amount
           share == t.share
           S     == t.touched
           p     == PayInvoices(d, r, x)
           w     == WriteInvoices(d, t, {})
           e     == Recorded(w, r, x, share)
<1>1. /\ r \in Receipts /\ x \in Nat /\ DOMAIN d = Columns
      /\ share = Shares(d, x) /\ S = {i \in Invoices : share[i] > 0}
      /\ t.rows = Rows(p, t.touched)
    BY DEF TypedDesk, Holds, Current, Typed, Ids
<1> HIDE DEF r, x, share
<1>2. /\ share \in [Invoices -> Nat]
      /\ \A i \in Invoices : i \notin OpenFor(d) => share[i] = 0
    <2>1. /\ Shares(d, x) \in [Invoices -> Nat]
          /\ \A i \in Invoices : /\ Shares(d, x)[i] <= Headroom(d, i)
                                 /\ Shares(d, x)[i] <= d.balance[i]
                                 /\ Shares(d, x)[i] <= LeftFor(d, x, i)
                                 /\ i \notin OpenFor(d) => Shares(d, x)[i] = 0
        BY <1>1, SharesTyped
    <2> QED
        BY <1>1, <2>1
<1>3. /\ Typed(p) /\ p.rcred = d.rcred
      /\ p.receipts = d.receipts \union {r} /\ p.voidedReceipts = d.voidedReceipts
      /\ p.amount = [d.amount EXCEPT ![r] = x]
      /\ p.alloc = [d.alloc EXCEPT ![r] = Shares(d, x)]
    BY <1>1, PayInvoicesTyped
<1>4. /\ DOMAIN p = Columns /\ p.invoices = d.invoices /\ p.voidedInvoices = d.voidedInvoices
      /\ SameBills(d, p) /\ SameCredit(d, p) /\ p.calloc = d.calloc
      /\ p.paid = [i \in Invoices |-> d.paid[i] + share[i]]
      /\ p.balance = [i \in Invoices |-> d.balance[i] - share[i]]
      /\ p.status = [i \in Invoices |->
                      IF share[i] > 0 THEN StatusOf(FALSE, d.balance[i] - share[i])
                      ELSE d.status[i]]
    BY <1>1 DEF PayInvoices, SameBills, SameCredit, Columns
<1>5. p = [y \in Columns |-> p[y]]
    BY <1>1 DEF PayInvoices
<1> HIDE DEF p
<1>7. \A i \in Invoices \ t.touched :
         /\ p.date[i] = d.date[i] /\ p.due[i] = d.due[i] /\ p.total[i] = d.total[i]
         /\ p.paid[i] = d.paid[i] /\ p.balance[i] = d.balance[i]
         /\ p.status[i] = d.status[i]
    <2>1. \A i \in Invoices \ S : share[i] = 0
        BY <1>1, <1>2
    <2>2. \A i \in Invoices : d.paid[i] \in Nat /\ d.balance[i] \in Nat
        BY DEF Typed, TypedCaches
    <2>3. \A i \in Invoices \ S : p.paid[i] = d.paid[i] /\ p.balance[i] = d.balance[i]
        BY <1>4, <2>1, <2>2
    <2>4. \A i \in Invoices \ S : p.status[i] = d.status[i]
        <3>1. \A i \in Invoices : i \notin S => ~(share[i] > 0)
            BY <1>1
        <3>2. \A i \in Invoices : ~(share[i] > 0) => p.status[i] = d.status[i]
            BY <1>4
        <3> QED
            BY <3>1, <3>2
    <2>5. p.date = d.date /\ p.due = d.due /\ p.total = d.total
        BY <1>4 DEF SameBills
    <2> QED
        BY <2>3, <2>4, <2>5
<1> HIDE DEF S
<1>8. /\ DOMAIN w = Columns /\ w.invoices = d.invoices
      /\ w.voidedInvoices = (d.voidedInvoices \ {}) \union ({} \intersect t.voided)
      /\ w.receipts = d.receipts /\ w.voidedReceipts = d.voidedReceipts
      /\ w.term = d.term /\ SameReceipts(d, w) /\ SameCredit(d, w) /\ w.calloc = d.calloc
      /\ w.date = p.date /\ w.due = p.due /\ w.total = p.total /\ SameCaches(p, w)
    BY <1>1, <1>3, <1>7, WrittenBack
<1> HIDE DEF w
<1>8a. w.voidedInvoices = d.voidedInvoices
    BY <1>8
<1>9. /\ e.invoices = w.invoices /\ e.voidedInvoices = w.voidedInvoices
      /\ e.receipts = w.receipts \union {r} /\ e.voidedReceipts = w.voidedReceipts
      /\ DOMAIN e = Columns /\ SameBills(w, e) /\ SameCaches(w, e) /\ SameCredit(w, e)
      /\ e.calloc = w.calloc /\ e.rcred = w.rcred
      /\ e.amount = [w.amount EXCEPT ![r] = x] /\ e.alloc = [w.alloc EXCEPT ![r] = share]
    BY <1>8 DEF Recorded, SameBills, SameCaches, SameCredit, Columns
<1>10. e = [y \in Columns |-> e[y]]
    BY <1>8 DEF Recorded
<1> HIDE DEF e
<1>11. SameIds(e, p)
    BY <1>3, <1>4, <1>8, <1>8a, <1>9 DEF SameIds
<1>12. SameBills(e, p) /\ SameCaches(e, p) /\ SameCredit(e, p) /\ p.calloc = e.calloc
    BY <1>4, <1>8, <1>9 DEF SameBills, SameCaches, SameCredit
<1>13. SameReceipts(e, p)
    BY <1>1, <1>3, <1>8, <1>9 DEF SameReceipts
<1>14. p = e
    BY <1>5, <1>10, <1>11, <1>12, <1>13, SameColumns
<1> QED
    BY <1>14 DEF e, w, p, r, x, share

\* A void that finishes on the database it read releases its invoices.
LEMMA VoidIsSerial ==
    ASSUME NEW d, Typed(d), NEW t, Current(d, t), t.kind = "void"
    PROVE  Voiding(WriteInvoices(d, t, {}), t.id) = ReleaseInvoices(d, t.id)
<1> DEFINE r == t.id
           S == t.touched
           p == ReleaseInvoices(d, r)
           w == WriteInvoices(d, t, {})
           e == Voiding(w, r)
<1>1. /\ r \in LiveReceipts(d) /\ r \in Receipts /\ DOMAIN d = Columns
      /\ S = {i \in Invoices : d.alloc[r][i] > 0} /\ t.rows = Rows(p, t.touched)
    BY DEF Current, Typed, Ids, LiveReceipts
<1> HIDE DEF r
<1>2. Typed(p)
    <2>1. /\ Typed(p) /\ SameReceipts(d, p) /\ p.calloc = d.calloc /\ SameCredit(d, p)
          /\ p.receipts = d.receipts /\ p.voidedReceipts = d.voidedReceipts \union {r}
        BY <1>1, ReleaseInvoicesTyped
    <2> QED
        BY <2>1
<1>3. /\ DOMAIN p = Columns
      /\ p.invoices = d.invoices /\ p.voidedInvoices = d.voidedInvoices
      /\ p.receipts = d.receipts /\ p.voidedReceipts = d.voidedReceipts \union {r}
      /\ SameBills(d, p) /\ SameReceipts(d, p) /\ SameCredit(d, p) /\ p.calloc = d.calloc
      /\ p.paid = [i \in Invoices |-> Monus(d.paid[i], d.alloc[r][i])]
      /\ p.balance = [i \in Invoices |-> d.balance[i] + d.alloc[r][i]]
      /\ p.status = [i \in Invoices |->
           IF d.alloc[r][i] > 0
           THEN StatusOf(i \in d.voidedInvoices, d.balance[i] + d.alloc[r][i])
           ELSE d.status[i]]
    BY <1>1 DEF ReleaseInvoices, SameBills, SameReceipts, SameCredit, Columns
<1>4. p = [y \in Columns |-> p[y]]
    BY <1>1 DEF ReleaseInvoices
<1> HIDE DEF p
<1>5. \A i \in Invoices : d.alloc[r][i] \in Nat
    BY <1>1 DEF Typed, TypedRows
<1>7. \A i \in Invoices \ t.touched :
         /\ p.date[i] = d.date[i] /\ p.due[i] = d.due[i] /\ p.total[i] = d.total[i]
         /\ p.paid[i] = d.paid[i] /\ p.balance[i] = d.balance[i]
         /\ p.status[i] = d.status[i]
    <2>1. \A i \in Invoices \ S : d.alloc[r][i] = 0
        BY <1>1, <1>5
    <2>2. \A i \in Invoices : d.paid[i] \in Nat /\ d.balance[i] \in Nat
        BY DEF Typed, TypedCaches
    <2>3. \A i \in Invoices \ S : p.paid[i] = d.paid[i] /\ p.balance[i] = d.balance[i]
        BY <1>3, <2>1, <2>2 DEF Monus
    <2>4. \A i \in Invoices \ S : p.status[i] = d.status[i]
        <3>1. \A i \in Invoices : i \notin S => ~(d.alloc[r][i] > 0)
            BY <1>1
        <3>2. \A i \in Invoices : ~(d.alloc[r][i] > 0) => p.status[i] = d.status[i]
            BY <1>3
        <3> QED
            BY <3>1, <3>2
    <2>5. p.date = d.date /\ p.due = d.due /\ p.total = d.total
        BY <1>3 DEF SameBills
    <2> QED
        BY <2>3, <2>4, <2>5
<1> HIDE DEF S
<1>8. /\ DOMAIN w = Columns /\ w.invoices = d.invoices
      /\ w.voidedInvoices = (d.voidedInvoices \ {}) \union ({} \intersect t.voided)
      /\ w.receipts = d.receipts /\ w.voidedReceipts = d.voidedReceipts
      /\ w.term = d.term /\ SameReceipts(d, w) /\ SameCredit(d, w) /\ w.calloc = d.calloc
      /\ w.date = p.date /\ w.due = p.due /\ w.total = p.total /\ SameCaches(p, w)
    BY <1>1, <1>2, <1>7, WrittenBack
<1> HIDE DEF w
<1>8a. w.voidedInvoices = d.voidedInvoices
    BY <1>8
<1>9. /\ e.invoices = w.invoices /\ e.voidedInvoices = w.voidedInvoices
      /\ e.receipts = w.receipts /\ e.voidedReceipts = w.voidedReceipts \union {r}
      /\ DOMAIN e = Columns /\ SameBills(w, e) /\ SameCaches(w, e) /\ SameCredit(w, e)
      /\ e.calloc = w.calloc /\ SameReceipts(w, e)
    BY <1>8 DEF Voiding, SameBills, SameCaches, SameCredit, SameReceipts, Columns
<1>10. e = [y \in Columns |-> e[y]]
    BY <1>8 DEF Voiding
<1> HIDE DEF e
<1>11. SameIds(e, p)
    BY <1>3, <1>8, <1>8a, <1>9 DEF SameIds
<1>12. SameBills(e, p) /\ SameCaches(e, p) /\ SameCredit(e, p) /\ p.calloc = e.calloc
    BY <1>3, <1>8, <1>9 DEF SameBills, SameCaches, SameCredit
<1>13. SameReceipts(e, p)
    BY <1>3, <1>8, <1>9 DEF SameReceipts
<1>14. p = e
    BY <1>4, <1>10, <1>11, <1>12, <1>13, SameColumns
<1> QED
    BY <1>14 DEF e, w, p, r

\* A voidInvoice that finishes on the database it read is the operation of one step.
LEMMA CancelIsSerial ==
    ASSUME NEW d, Typed(d), NEW t, Current(d, t), t.kind = "cancel"
    PROVE  Reconcile(Cancelled(d, t)) = VoidInvoice(d, t.id)
<1> DEFINE i  == t.id
           m  == Struck(d, i)
           p  == Recalculate(m, {i})
           w  == WriteInvoices(d, t, {i})
           pay(x) == IF x > Tol THEN x ELSE 0
           cleared == [ReverseCreditAllocations(p, i) EXCEPT
                         !.term[i] = NoTerm,
                         !.alloc   = [r \in Receipts |->
                                      [j \in Invoices |-> IF j = i THEN 0 ELSE @[r][j]]]]
           e == [RemoveRows(p, i, t) EXCEPT !.term[i] = NoTerm, !.credit = @ + pay(t.amount)]
<1>1. /\ i \in d.invoices /\ i \in Invoices /\ t.touched = {i} /\ t.voided = {i}
      /\ t.amount = CreditPaid(d, i) /\ DOMAIN d = Columns /\ t.renewed = {} /\ t.fresh = {}
      /\ t.rows = Rows(p, t.touched)
    BY DEF Current, Typed, Ids, LiveInvoices, Struck
<1>2. Cancelled(d, t) = [RemoveRows(w, i, t) EXCEPT !.term[i] = NoTerm, !.credit = @ + pay(t.amount)]
    BY DEF Cancelled
<1>3. VoidInvoice(d, i) = Reconcile(cleared)
    BY DEF VoidInvoice, Struck
<1>4. /\ Typed(m) /\ SameReceipts(d, m) /\ SameBills(d, m) /\ SameCaches(d, m)
      /\ SameCredit(d, m) /\ m.calloc = d.calloc
      /\ m.invoices = d.invoices /\ m.voidedInvoices = d.voidedInvoices \union {i}
      /\ m.receipts = d.receipts /\ m.voidedReceipts = d.voidedReceipts
    BY <1>1, StruckTyped
<1> HIDE DEF i, m
<1>5. DOMAIN m = Columns
    BY <1>4 DEF Typed, Ids
<1>6. Typed(p)
    BY <1>4, RecalculateTyped
<1>7. p = [y \in Columns |-> p[y]]
    BY <1>5, RecalculateIsRecord
<1>8. /\ SameIds(m, p) /\ SameBills(m, p) /\ SameReceipts(m, p)
      /\ p.calloc = m.calloc /\ SameCredit(m, p)
      /\ \A j \in Invoices \ {i} : /\ p.paid[j] = m.paid[j] /\ p.balance[j] = m.balance[j]
                                   /\ p.status[j] = m.status[j]
    BY <1>5 DEF Recalculate, SameIds, SameBills, SameReceipts, SameCredit, Columns
<1> HIDE DEF p
<1>9. \A j \in Invoices \ t.touched :
               /\ p.date[j] = d.date[j] /\ p.due[j] = d.due[j] /\ p.total[j] = d.total[j]
               /\ p.paid[j] = d.paid[j] /\ p.balance[j] = d.balance[j]
               /\ p.status[j] = d.status[j]
    BY <1>1, <1>4, <1>8 DEF SameBills, SameCaches
<1>10. /\ DOMAIN w = Columns /\ w.invoices = d.invoices
       /\ w.voidedInvoices = (d.voidedInvoices \ {i}) \union ({i} \intersect t.voided)
       /\ w.receipts = d.receipts /\ w.voidedReceipts = d.voidedReceipts
       /\ w.term = d.term /\ SameReceipts(d, w) /\ SameCredit(d, w) /\ w.calloc = d.calloc
       /\ w.date = p.date /\ w.due = p.due /\ w.total = p.total /\ SameCaches(p, w)
    BY <1>1, <1>6, <1>9, WrittenBack
<1>11. w = [y \in Columns |-> w[y]]
    BY <1>1 DEF WriteInvoices
<1> HIDE DEF w
<1>12. p = w
    <2>1. w.voidedInvoices = p.voidedInvoices
        BY <1>1, <1>4, <1>8, <1>10 DEF SameIds
    <2>2. SameIds(w, p)
        BY <1>4, <1>5, <1>8, <1>10, <2>1 DEF SameIds
    <2>3. SameBills(w, p) /\ SameReceipts(w, p) /\ SameCredit(w, p) /\ p.calloc = w.calloc
        BY <1>4, <1>8, <1>10 DEF SameBills, SameReceipts, SameCredit
    <2>4. SameCaches(w, p)
        BY <1>10 DEF SameCaches
    <2> QED
        BY <1>7, <1>11, <2>2, <2>3, <2>4, SameColumns
<1>13. e = cleared
    <2>1. p.calloc = d.calloc /\ DOMAIN p = Columns
        BY <1>4, <1>5, <1>8 DEF SameIds
    <2>2. CreditPaid(p, i) = t.amount
        BY <1>1, <2>1 DEF CreditPaid, RowsOf
    <2>3. e = [y \in Columns |-> e[y]] /\ cleared = [y \in Columns |-> cleared[y]]
        BY <2>1 DEF RemoveRows, ReverseCreditAllocations
    <2>4. /\ e.invoices = p.invoices /\ e.voidedInvoices = p.voidedInvoices
          /\ e.receipts = p.receipts /\ e.voidedReceipts = p.voidedReceipts
          /\ e.date = p.date /\ e.due = p.due /\ e.total = p.total
          /\ e.paid = p.paid /\ e.balance = p.balance /\ e.status = p.status
          /\ e.hasCredit = p.hasCredit /\ e.credited = p.credited
          /\ e.amount = p.amount /\ e.rcred = p.rcred /\ DOMAIN e = Columns
          /\ e.term = [p.term EXCEPT ![i] = NoTerm]
          /\ e.credit = p.credit + pay(t.amount)
          /\ e.alloc = [r \in Receipts |-> [j \in Invoices |->
                          IF j = i /\ r \notin t.renewed THEN 0 ELSE p.alloc[r][j]]]
          /\ e.calloc = {c \in p.calloc : c.inv # i \/ c.seq \in t.fresh}
        BY <2>1 DEF RemoveRows, Columns
    <2>5. /\ cleared.invoices = p.invoices /\ cleared.voidedInvoices = p.voidedInvoices
          /\ cleared.receipts = p.receipts /\ cleared.voidedReceipts = p.voidedReceipts
          /\ cleared.date = p.date /\ cleared.due = p.due /\ cleared.total = p.total
          /\ cleared.paid = p.paid /\ cleared.balance = p.balance /\ cleared.status = p.status
          /\ cleared.hasCredit = p.hasCredit /\ cleared.credited = p.credited
          /\ cleared.amount = p.amount /\ cleared.rcred = p.rcred /\ DOMAIN cleared = Columns
          /\ cleared.term = [p.term EXCEPT ![i] = NoTerm]
          /\ cleared.credit = p.credit + pay(CreditPaid(p, i))
          /\ cleared.alloc = [r \in Receipts |-> [j \in Invoices |->
                                IF j = i THEN 0 ELSE p.alloc[r][j]]]
          /\ cleared.calloc = {c \in p.calloc : c.inv # i}
        BY <2>1 DEF ReverseCreditAllocations, Columns
    <2> HIDE DEF e, cleared, pay
    <2>6. e.alloc = cleared.alloc
        BY <1>1, <2>4, <2>5
    <2>7. e.calloc = cleared.calloc
        BY <1>1, <2>4, <2>5
    <2>8. SameIds(cleared, e) /\ SameBills(cleared, e) /\ SameCaches(cleared, e)
          /\ SameReceipts(cleared, e) /\ SameCredit(cleared, e)
        BY <2>2, <2>4, <2>5, <2>6
           DEF SameIds, SameBills, SameCaches, SameReceipts, SameCredit
    <2> QED
        BY <2>3, <2>7, <2>8, SameColumns
<1> HIDE DEF e, cleared
<1>14. Cancelled(d, t) = cleared
    BY <1>2, <1>12, <1>13 DEF e
<1> QED
    BY <1>3, <1>14 DEF i

\* A rebuild that finishes on the database it read places its plan.
LEMMA RebuiltIsPlaced ==
    ASSUME Typed(db), NEW t, Current(db, t), t.kind = "rebuild"
    PROVE  Rebuilt(t, LoadedPlan(t), {}, {}, {}, {}) = Placed(db)
<1> DEFINE plan == FifoPlan(db)
           L    == LiveInvoices(db)
           live == LiveReceipts(db)
           ld   == Loaded(t)
           b    == Rebuilt(t, plan, {}, {}, {}, {})
           e    == Placed(db)
<1>1. t.touched = L /\ t.receipts = live /\ DOMAIN db = Columns
    BY DEF Current, Typed, Ids
<1>2. LoadedPlan(t) = FifoPlan(ld)
    BY DEF LoadedPlan, Loaded
<1>3. /\ LiveReceipts(ld) = live /\ LiveInvoices(ld) = L
      /\ ld.date = db.date /\ ld.amount = db.amount /\ ld.total = db.total
    <2>1. /\ ld.invoices = db.invoices /\ ld.voidedInvoices = db.invoices \ t.touched
          /\ ld.receipts = db.receipts /\ ld.voidedReceipts = db.receipts \ t.receipts
          /\ ld.date = db.date /\ ld.amount = db.amount /\ ld.total = db.total
        BY <1>1 DEF Loaded, Columns
    <2> HIDE DEF ld
    <2> QED
        BY <1>1, <2>1 DEF LiveReceipts, LiveInvoices
<1> HIDE DEF ld
<1>4. FifoPlan(ld) = plan
    <2>1. FifoPlan(ld) = PlanOf(LiveReceipts(ld), LiveInvoices(ld), ld.date, ld.amount, ld.total)
        BY FifoPlanReads
    <2>2. FifoPlan(db) = PlanOf(LiveReceipts(db), LiveInvoices(db), db.date, db.amount, db.total)
        BY FifoPlanReads
    <2> QED
        BY <1>3, <2>1, <2>2
<1>5. plan \in Plans
    BY FifoPlanFills DEF Filled
<1>6. /\ SameIds(db, e) /\ SameBills(db, e) /\ SameCaches(db, e) /\ e.amount = db.amount
      /\ e.calloc = {c \in db.calloc : c.inv \notin L}
      /\ e.hasCredit = TRUE /\ e.credited = [i \in Invoices |-> 0]
      /\ e.credit = SumFunctionOnSet(plan.rcred, live)
      /\ e.alloc = [r \in Receipts |-> IF r \in live THEN plan.alloc[r] ELSE db.alloc[r]]
      /\ e.rcred = [r \in Receipts |-> IF r \in live THEN plan.rcred[r] ELSE db.rcred[r]]
    BY PlacedFields
<1>7. e = [y \in Columns |-> e[y]]
    BY <1>1 DEF Placed, DeleteDerived
<1>8. b = [y \in Columns |-> b[y]]
    BY <1>1 DEF Rebuilt
<1> HIDE DEF e, plan, live, L
<1>9. /\ DOMAIN b = Columns /\ b.invoices = db.invoices
      /\ b.voidedInvoices = db.voidedInvoices \ {}
      /\ b.receipts = db.receipts /\ b.voidedReceipts = db.voidedReceipts
      /\ b.term = [i \in Invoices |-> IF i \in {} THEN t.terms[i] ELSE db.term[i]]
      /\ b.date = db.date /\ b.due = db.due /\ b.total = db.total
      /\ SameCaches(db, b) /\ b.amount = db.amount
      /\ b.hasCredit = TRUE /\ b.credited = [i \in Invoices |-> 0]
      /\ b.credit = SumFunctionOnSet(plan.rcred, t.receipts)
      /\ b.calloc = {c \in db.calloc : c.inv \notin t.touched \/ c.seq \in {}}
      /\ b.alloc = [r \in Receipts |-> [i \in Invoices |->
                      IF r \notin t.receipts \/ (r \in {} /\ db.alloc[r][i] > 0)
                      THEN db.alloc[r][i] ELSE plan.alloc[r][i]]]
      /\ b.rcred = [r \in Receipts |->
                      IF r \notin t.receipts THEN db.rcred[r]
                      ELSE plan.rcred[r] + (IF r \in {} THEN db.rcred[r] ELSE 0)]
    BY <1>1 DEF Rebuilt, SameCaches, Columns
<1> HIDE DEF b
<1>10. /\ db.alloc \in [Receipts -> [Invoices -> Nat]] /\ db.rcred \in [Receipts -> Nat]
       /\ plan.alloc \in [Receipts -> [Invoices -> Nat]] /\ plan.rcred \in [Receipts -> Nat]
       /\ db.term = [i \in Invoices |-> db.term[i]]
    BY <1>5 DEF Typed, TypedRows, TypedBills, Plans
<1>11. b.term = db.term
    BY <1>9, <1>10
<1>12. b.calloc = {c \in db.calloc : c.inv \notin L}
    BY <1>1, <1>9
<1>13. b.alloc = e.alloc
    <2>1. ASSUME NEW r \in Receipts
          PROVE  b.alloc[r] = IF r \in live THEN plan.alloc[r] ELSE db.alloc[r]
        <3>1. b.alloc[r] = [i \in Invoices |->
                              IF r \notin t.receipts THEN db.alloc[r][i] ELSE plan.alloc[r][i]]
            BY <1>9
        <3>2. /\ db.alloc[r] = [i \in Invoices |-> db.alloc[r][i]]
              /\ plan.alloc[r] = [i \in Invoices |-> plan.alloc[r][i]]
            BY <1>10
        <3> QED
            BY <1>1, <3>1, <3>2
    <2>2. b.alloc = [r \in Receipts |-> b.alloc[r]]
        BY <1>9
    <2> QED
        BY <1>6, <2>1, <2>2
<1>14. b.rcred = e.rcred
    <2>1. \A r \in Receipts : plan.rcred[r] + 0 = plan.rcred[r]
        BY <1>10
    <2> QED
        BY <1>1, <1>6, <1>9, <2>1
<1>15. SameIds(b, e) /\ SameBills(b, e) /\ SameCaches(b, e)
    BY <1>1, <1>6, <1>9, <1>11 DEF SameIds, SameBills, SameCaches
<1>16. SameReceipts(b, e) /\ SameCredit(b, e) /\ e.calloc = b.calloc
    BY <1>1, <1>6, <1>9, <1>12, <1>13, <1>14 DEF SameReceipts, SameCredit
<1>17. e = b
    BY <1>7, <1>8, <1>15, <1>16, SameColumns
<1> QED
    BY <1>2, <1>4, <1>17 DEF b, e

\* A transaction that finishes on the database it read does what its operation does in one
\* step.
LEMMA FinishIsSerial ==
    ASSUME TxInv, NEW q \in Requests, desk[q].alone,
           desk[q].kind = "void" => doubles[desk[q].id] = {},
           \/ FinishPayment(q) \/ FinishVoid(q) \/ FinishInvoice(q)
           \/ FinishCancel(q) \/ FinishReconcile(q) \/ FinishRebuild(q)
    PROVE  db' = Serial(db, desk[q])
<1> DEFINE t == desk[q]
<1>1. /\ Typed(db) /\ TypedDesk(t) /\ Holds(db, crossed, t) /\ Current(db, t)
      /\ DOMAIN db = Columns
    BY DEF TxInv, Excused, DesksInv, Typed, Ids
<1>2. CASE FinishPayment(q)
    <2> DEFINE onto(W) == Recorded(WriteInvoices(db, t, W), t.id, t.amount, t.share)
               paid == PayInvoices(db, t.id, t.amount)
    <2>1. PICK W \in SUBSET Stale(t) :
              Finish(q, BankRest(onto(W), t.id, t.amount - Allocated(onto(W), t.id)), {t.id})
        BY <1>2 DEF FinishPayment, Recorded
    <2>2. t.kind = "payment"
        BY <1>2 DEF FinishPayment
    <2>3. W = {}
        <3>1. t.voided = {} /\ t.share = Shares(db, t.amount) /\ t.amount \in Nat
              /\ t.touched = {i \in Invoices : t.share[i] > 0}
            BY <1>1, <2>2 DEF Current, TypedDesk
        <3>2. /\ Shares(db, t.amount) \in [Invoices -> Nat]
              /\ \A i \in Invoices : /\ Shares(db, t.amount)[i] <= Headroom(db, i)
                                     /\ Shares(db, t.amount)[i] <= db.balance[i]
                                     /\ Shares(db, t.amount)[i] <= LeftFor(db, t.amount, i)
                                     /\ i \notin OpenFor(db) => Shares(db, t.amount)[i] = 0
            BY <1>1, <3>1, SharesTyped
        <3>3. \A i \in t.touched : i \in OpenFor(db)
            BY <3>1, <3>2
        <3>4. \A i \in t.touched : i \notin db.voidedInvoices
            BY <3>3 DEF OpenFor, LiveInvoices
        <3> QED
            BY <2>1, <3>1, <3>4 DEF Stale
    <2>4. db' = BankRest(onto({}), t.id, t.amount - Allocated(onto({}), t.id)).db
        BY <2>1, <2>3 DEF Finish
    <2> HIDE DEF t
    <2>5. onto({}) = paid
        BY <1>1, <2>2, PaymentIsSerial
    <2>6. Serial(db, t) = BankRest(paid, t.id, t.amount - Allocated(paid, t.id)).db
        BY <2>2 DEF Serial, CreateReceipt
    <2> HIDE DEF onto, paid
    <2> QED
        BY <2>4, <2>5, <2>6 DEF t
<1>3. CASE FinishVoid(q)
    <2> DEFINE onto(W) == Voiding(WriteInvoices(db, t, W), t.id)
               p == ReleaseInvoices(db, t.id)
    <2>1. PICK W \in SUBSET Stale(t), created \in Slips(t.id) :
              Finish(q, [ok |-> TRUE,
                         db |-> TakeBackCredit(onto(W), t.id, t.amount, created)], {})
        BY <1>3 DEF FinishVoid, Voiding
    <2>2. t.kind = "void"
        BY <1>3 DEF FinishVoid
    <2>3. W = {}
        BY <1>1, <2>1, <2>2 DEF Current, Stale
    <2>4. created = db.rcred[t.id]
        BY <2>1, <2>2 DEF Slips
    <2>5. db' = TakeBackCredit(onto({}), t.id, t.amount, db.rcred[t.id])
        BY <2>1, <2>3, <2>4 DEF Finish
    <2> HIDE DEF t
    <2>6. onto({}) = p
        BY <1>1, <2>2, VoidIsSerial
    <2>7. /\ t.amount = Monus(db.amount[t.id], Allocated(db, t.id))
          /\ t.id \in LiveReceipts(db) /\ t.id \in Receipts
        BY <1>1, <2>2 DEF Current, LiveReceipts, Typed, Ids
    <2>8. Typed(p) /\ SameReceipts(db, p)
        <3>1. /\ Typed(p) /\ SameReceipts(db, p) /\ p.calloc = db.calloc /\ SameCredit(db, p)
              /\ p.receipts = db.receipts /\ p.voidedReceipts = db.voidedReceipts \union {t.id}
            BY <1>1, <2>7, ReleaseInvoicesTyped
        <3> QED
            BY <3>1
    <2>9. Serial(db, t) = TakenBack(p, t.id, t.amount)
        BY <1>1, <2>2, <2>7, VoidIsTakenBack DEF Serial
    <2> HIDE DEF onto, p
    <2>10. TakeBackCredit(p, t.id, t.amount, p.rcred[t.id]) = TakenBack(p, t.id, t.amount)
        BY <2>7, <2>8, TakeBackIsTakenBack
    <2> QED
        BY <2>5, <2>6, <2>8, <2>9, <2>10 DEF SameReceipts, t
<1>4. CASE FinishInvoice(q)
    <2> DEFINE x == t.applied
               paid == Drew(db, t)
               drawn == IF CreditToApply(db, t.amount) > 0
                        THEN DeductCredit(db, CreditToApply(db, t.amount)) ELSE db
    <2>1. /\ t.kind = "invoice"
          /\ db' = Billed(paid, t.id, t.term, t.amount, Min(Dates), Min(Dates),
                          t.applied, t.source).db
        BY <1>4 DEF FinishInvoice, Finish, Drew, Billed, Inserted
    <2> HIDE DEF t
    <2>2. /\ x = CreditToApply(db, t.amount) /\ t.credit = db.credit - x
          /\ t.source = CreditSource(db, x) /\ x \in Nat
        BY <1>1, <2>1 DEF Current, TypedDesk
    <2>3. Serial(db, t) = Billed(drawn, t.id, t.term, t.amount, Min(Dates), Min(Dates),
                                 x, t.source).db
        BY <2>1, <2>2 DEF Serial, SaveNewInvoice, Billed, Inserted
    <2>4. drawn = paid
        <3>1. CASE x = 0
            BY <2>2, <3>1 DEF Drew
        <3>2. CASE x > 0
            BY <2>2, <3>2 DEF Drew, DeductCredit
        <3> QED
            BY <2>2, <3>1, <3>2
    <2> HIDE DEF drawn, paid
    <2> QED
        BY <2>1, <2>3, <2>4 DEF t
<1>5. CASE FinishCancel(q)
    <2>1. t.kind = "cancel" /\ db' = Reconcile(Cancelled(db, t)).db
        BY <1>5 DEF FinishCancel, Finish, Cancelled
    <2> HIDE DEF t
    <2>2. Reconcile(Cancelled(db, t)) = VoidInvoice(db, t.id)
        BY <1>1, <2>1, CancelIsSerial
    <2>3. Serial(db, t) = VoidInvoice(db, t.id).db
        BY <2>1 DEF Serial
    <2> QED
        BY <2>1, <2>2, <2>3 DEF t
<1>6. CASE FinishReconcile(q)
    <2>1. t.kind = "reconcile" /\ db' = ReconcileOf(db, t.touched).db
        BY <1>6 DEF FinishReconcile, Finish
    <2> HIDE DEF t
    <2>2. t.touched = LiveInvoices(db)
        BY <1>1, <2>1 DEF Current
    <2>3. Serial(db, t) = ReconcileOf(db, LiveInvoices(db)).db
        BY <2>1 DEF Serial, Reconcile
    <2> QED
        BY <2>1, <2>2, <2>3 DEF t
<1>7. CASE FinishRebuild(q)
    <2> DEFINE b(W, fresh, paying, giving) == Rebuilt(t, LoadedPlan(t), W, fresh, paying, giving)
    <2>1. PICK W \in SUBSET Outdated(t), fresh \in SUBSET t.fresh,
               paying \in SUBSET (t.renewed \intersect t.receipts) :
              \E giving \in SUBSET paying :
                  db' = VerifyCredit(Recalculate(b(W, fresh, paying, giving), t.touched))
        BY <1>7 DEF FinishRebuild, Finish
    <2>2. PICK giving \in SUBSET paying :
              db' = VerifyCredit(Recalculate(b(W, fresh, paying, giving), t.touched))
        BY <2>1
    <2>3. t.kind = "rebuild"
        BY <1>7 DEF FinishRebuild
    <2>4. /\ t.renewed = {} /\ t.fresh = {} /\ t.touched = LiveInvoices(db)
          /\ \A i \in LiveInvoices(db) : i \in Invoices /\ t.terms[i] = db.term[i]
        BY <1>1, <2>3 DEF Current, LiveInvoices, Typed, Ids
    <2>5. W = {} /\ fresh = {} /\ paying = {} /\ giving = {}
        <3>1. Outdated(t) = {}
            BY <2>4 DEF Outdated, LiveInvoices
        <3> QED
            BY <2>1, <2>2, <2>4, <3>1
    <2>6. db' = VerifyCredit(Recalculate(b({}, {}, {}, {}), t.touched))
        BY <2>2, <2>5
    <2> HIDE DEF t
    <2>7. b({}, {}, {}, {}) = Placed(db)
        BY <1>1, <2>3, RebuiltIsPlaced
    <2>8. Serial(db, t) = VerifyCredit(Recalculate(Placed(db), LiveInvoices(db)))
        BY <2>3, RebuildIsPlaced DEF Serial
    <2> HIDE DEF b
    <2> QED
        BY <2>4, <2>6, <2>7, <2>8 DEF t
<1> QED
    BY <1>2, <1>3, <1>4, <1>5, <1>6, <1>7

-----------------------------------------------------------------------------
(* Theorems about the overlapping transactions                             *)

\* However transactions overlap, the ledger is in order but for what the history has crossed,
\* and an open transaction keeps its id, its shares and what it loaded.
THEOREM OverlapsKeepInv == TxSpec => []TxInv
<1>1. TxInit => TxInv
    BY TxInitInv
<1>2. TxInv /\ [TxNext]_txVars => TxInv'
    BY TxStep
<1> QED
    BY <1>1, <1>2, PTL DEF TxSpec

\* However transactions overlap, the columns keep their types and CHECK constraints, and an
\* enrolment has one invoice (the OneToOne column of invoice.entity).
THEOREM OverlapsTypeCorrect == TxSpec => []TxTypeOK
<1>1. TxInv => TxTypeOK
    <2> SUFFICES ASSUME TxInv PROVE TxTypeOK
        OBVIOUS
    <2>1. TypeOK
        BY DEF TxInv, Excused, Typed, Ids, TypedBills, TypedCaches, TypedRows, TypedCredit,
               TypeOK
    <2>2. \A q \in Requests : desk[q].kind \in {"idle", "payment", "void", "invoice",
                                                "cancel", "reconcile", "rebuild"}
        BY DEF TxInv, DesksInv, TypedDesk
    <2>3. TermsUnique(db)
        BY DEF TxInv, Excused, TermsOnce, TermsUnique
    <2> QED
        BY <2>1, <2>2, <2>3 DEF TxTypeOK
<1> QED
    BY <1>1, OverlapsKeepInv, PTL

\* However transactions overlap, a voided invoice holds money, a voided receipt gives credit
\* and a receipt is spent beyond its amount only where a commit came between the load and the
\* writes of a payment, a voidInvoice or a rebuild, as the history records.
THEOREM OverlapsKeepMoney == TxSpec => []MoneyMisplacedOnlyByOverlap
<1>1. TxInv => MoneyMisplacedOnlyByOverlap
    <2> SUFFICES ASSUME TxInv PROVE MoneyMisplacedOnlyByOverlap
        OBVIOUS
    <2>1. \A r \in Receipts \ crossed.receipts :
              /\ Allocated(db, r) + db.rcred[r] <= db.amount[r]
              /\ r \in db.voidedReceipts => ~(db.rcred[r] > 0)
        BY DEF TxInv, Excused, Within
    <2>2. \A i \in db.voidedInvoices \ crossed.invoices :
              /\ \A r \in Receipts : db.alloc[r][i] = 0
              /\ RowsOf(db, i) = {}
        BY DEF TxInv, Excused, Bare, RowsOf
    <2> QED
        BY <2>1, <2>2 DEF MoneyMisplacedOnlyByOverlap
<1> QED
    BY <1>1, OverlapsKeepInv, PTL

\* In every state that overlapping transactions can leave, a rebuild places the money of the
\* live receipts, invoices first, and makes what the live invoices cache their rows' sums.
THEOREM OverlapsAreRepaired == TxSpec => []RebuildRepairs
<1>1. TxInv => RebuildRepairs
    <2> SUFFICES ASSUME TxInv PROVE RebuildRepairs
        OBVIOUS
    <2>1. Typed(db)
        BY DEF TxInv, Excused
    <2>2. AllMoneyPlaced(Rebuild(db))
        BY <2>1, RebuildPlaces
    <2>3. \A i \in LiveInvoices(Rebuild(db)) : CachedIsLedger(Rebuild(db), i)
        BY <2>1, RebuildCoherent
    <2> QED
        BY <2>2, <2>3 DEF RebuildRepairs
<1> QED
    BY <1>1, OverlapsKeepInv, PTL

\* A transaction into which nobody commits is rolled back or does in its two steps what its
\* operation does in one, the void of a receipt with several credit rows aside.
THEOREM UndisturbedIsSerial == TxSpec => AloneIsSerial
<1> DEFINE Step == \A q \in Requests :
                     /\ desk[q].kind # "idle" /\ desk'[q].kind = "idle" /\ desk[q].alone
                     /\ desk[q].kind = "void" => doubles[desk[q].id] = {}
                     => db' \in {db, Serial(db, desk[q])}
<1>1. TxInv /\ [TxNext]_txVars => [Step]_txVars
    <2> SUFFICES ASSUME TxInv, TxNext, NEW q \in Requests,
                        desk[q].kind # "idle", desk'[q].kind = "idle", desk[q].alone,
                        desk[q].kind = "void" => doubles[desk[q].id] = {}
                 PROVE  db' \in {db, Serial(db, desk[q])}
        OBVIOUS
    <2>1. \A p \in Requests : DOMAIN desk[p] = DeskFields
        BY DEF TxInv, DesksInv, TypedDesk
    <2>2. PICK p \in Requests :
            \/ BeginPayment(p) \/ FinishPayment(p) \/ BeginVoid(p) \/ FinishVoid(p)
            \/ BeginInvoice(p) \/ FinishInvoice(p) \/ BeginCancel(p) \/ FinishCancel(p)
            \/ BeginReconcile(p) \/ FinishReconcile(p) \/ BeginRebuild(p) \/ FinishRebuild(p)
            \/ RollBack(p)
        BY DEF TxNext
    <2>3. CASE \/ BeginPayment(p) \/ BeginVoid(p) \/ BeginInvoice(p) \/ BeginCancel(p)
               \/ BeginReconcile(p) \/ BeginRebuild(p) \/ RollBack(p)
        BY <2>3 DEF BeginPayment, BeginVoid, BeginInvoice, BeginCancel, BeginReconcile,
                    BeginRebuild, Begin, RollBack
    <2>4. CASE \/ FinishPayment(p) \/ FinishVoid(p) \/ FinishInvoice(p) \/ FinishCancel(p)
               \/ FinishReconcile(p) \/ FinishRebuild(p)
        <3>1. \E renewed : desk' = [o \in Requests |->
                 IF o = p THEN Blank ELSE Overtaken(desk[o], renewed)]
            BY <2>4 DEF FinishPayment, FinishVoid, FinishInvoice, FinishCancel,
                        FinishReconcile, FinishRebuild, Finish
        <3>2. p = q
            <4> SUFFICES ASSUME p # q PROVE FALSE
                OBVIOUS
            <4>1. PICK renewed : desk'[q] = Overtaken(desk[q], renewed)
                BY <3>1
            <4>2. TypedDesk(desk[q]) /\ (desk[q].alone => Current(db, desk[q]))
                BY DEF TxInv, DesksInv
            <4>3. Overtaken(desk[q], renewed).kind = desk[q].kind
                BY <4>2, OvertakenDesk
            <4> QED
                BY <4>1, <4>3
        <3> QED
            BY <2>4, <3>2, FinishIsSerial
    <2> QED
        BY <2>2, <2>3, <2>4
<1> QED
    BY <1>1, OverlapsKeepInv, PTL DEF TxSpec, AloneIsSerial
=============================================================================
