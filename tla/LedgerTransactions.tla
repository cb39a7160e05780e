------------------------- MODULE LedgerTransactions -------------------------
(***************************************************************************)
(* The transactions of StudentLedger as they overlap.  They run READ       *)
(* COMMITTED and lock no row they read: each first loads rows              *)
(* (`Begin...'), then writes from what it loaded (`Finish...'), and others *)
(* may commit in between.  What a Finish reads again is what is committed  *)
(* by then, and it holds the locks of the rows written, so the rest of the *)
(* transaction is one step with its first write.                           *)
(***************************************************************************)
EXTENDS StudentLedger

CONSTANT Requests    \* transactions open at a time

VARIABLES
    desk,     \* what each transaction has read
    doubles,  \* of a receipt with several credit rows, their amounts
    crossed   \* history: invoices and receipts that overlapping writes may have upset

txVars == <<db, desk, doubles, crossed>>

NoRows == [date |-> EmptyDb.date, due |-> EmptyDb.due, total |-> EmptyDb.total,
           paid |-> EmptyDb.paid, balance |-> EmptyDb.balance, status |-> EmptyDb.status]

\* Of what was loaded: the invoices (`touched'), the copies to be written of them (`rows',
\* `terms', and isVoided of those in `voided'), the receipts of a rebuild, the shares of a
\* payment, the credit to be written and where it came from.  Of what others have committed
\* since: the receipts that got new rows (`renewed') and the new credit rows (`fresh').
\* History: `alone' is FALSE once anything was.
Blank ==
    [kind |-> "idle", id |-> 0, amount |-> 0, term |-> NoTerm,
     touched |-> {}, voided |-> {}, rows |-> NoRows, terms |-> EmptyDb.term, receipts |-> {},
     share |-> EmptyDb.paid, applied |-> 0, credit |-> 0, source |-> NoReceipt,
     renewed |-> {}, fresh |-> {}, alone |-> TRUE]

TxInit ==
    /\ Init
    /\ desk = [q \in Requests |-> Blank]
    /\ doubles = [r \in Receipts |-> {}]
    /\ crossed = [invoices |-> {}, receipts |-> {}]

Begin(q, t) ==
    /\ desk[q].kind = "idle"
    /\ desk' = [desk EXCEPT ![q] = t]
    /\ UNCHANGED <<db, doubles, crossed>>

\* The credit rows that e has and d has not.
NewRows(d, e) == {c \in e.calloc : \A b \in d.calloc : b.seq # c.seq \/ b.inv # c.inv}

\* An open transaction when another one commits, with new rows of the receipts renewed.
Overtaken(t, renewed) ==
    IF t.kind = "idle" THEN t
    ELSE [t EXCEPT
           !.alone   = @ /\ db' = db /\ renewed = {},
           !.renewed = @ \union renewed,
           !.fresh   = @ \union {c.seq : c \in NewRows(db, db')}]

\* The transaction commits unless it throws.
Finish(q, result, renewed) ==
    /\ result.ok
    /\ db' = result.db
    /\ desk' = [p \in Requests |-> IF p = q THEN Blank ELSE Overtaken(desk[p], renewed)]

\* Ids taken by rows not committed yet are taken.
Drawn(kind) == {desk[q].id : q \in {p \in Requests : desk[p].kind = kind}}

\* The rows S of the invoices as the database d has them.
Rows(d, S) ==
    LET of(column, none) == [i \in Invoices |-> IF i \in S THEN column[i] ELSE none[i]]
    IN [date |-> of(d.date, NoRows.date), due |-> of(d.due, NoRows.due),
        total |-> of(d.total, NoRows.total), paid |-> of(d.paid, NoRows.paid),
        balance |-> of(d.balance, NoRows.balance), status |-> of(d.status, NoRows.status)]

\* save(invoices) writes the loaded copies back.  TypeORM leaves out a column in which the
\* copy and the row are equal when it looks: isVoided, which nothing else moves, is written
\* to the invoices W.  The term is a relation that was not loaded.
WriteInvoices(d, t, W) ==
    LET kept(new, old) == [i \in Invoices |-> IF i \in t.touched THEN new[i] ELSE old[i]]
    IN [d EXCEPT
         !.voidedInvoices = (@ \ W) \union (W \intersect t.voided),
         !.date = kept(t.rows.date, @), !.due = kept(t.rows.due, @),
         !.total = kept(t.rows.total, @), !.paid = kept(t.rows.paid, @),
         !.balance = kept(t.rows.balance, @), !.status = kept(t.rows.status, @)]

\* Copies whose isVoided is not that of the row any more: whether save() looked before
\* or after the row changed is open.
Stale(t) == {i \in t.touched : (i \in t.voided) # (i \in db.voidedInvoices)}

-----------------------------------------------------------------------------
(* createReceipt: the open invoices and their headroom, then the rest.     *)

BeginPayment(q) ==
    \E r \in Receipts, x \in Payments :
        LET paid    == PayInvoices(db, r, x)
            touched == {i \in Invoices : paid.alloc[r][i] > 0}
        IN /\ IsNext(r, db.receipts \union Drawn("payment"), Receipts)
           /\ ReceiptIsValid(x)
           /\ Begin(q, [Blank EXCEPT !.kind = "payment", !.id = r, !.amount = x,
                          !.touched = touched, !.rows = Rows(paid, touched),
                          !.share = paid.alloc[r]])

FinishPayment(q) ==
    LET t       == desk[q]
        r       == t.id
        onto(W) == [WriteInvoices(db, t, W) EXCEPT
                      !.receipts = @ \union {r}, !.amount[r] = t.amount, !.alloc[r] = t.share]
    IN /\ t.kind = "payment"
       /\ \E W \in SUBSET Stale(t) :
             Finish(q, BankRest(onto(W), r, t.amount - Allocated(onto(W), r)), {r})
       /\ crossed' = [crossed EXCEPT !.invoices = @ \union (t.touched \ LiveInvoices(db'))]
       /\ UNCHANGED doubles

-----------------------------------------------------------------------------
(* voidReceipt: the receipt, its allocations and their invoices, then the  *)
(* credit as it is by then.                                                *)

BeginVoid(q) ==
    \E r \in LiveReceipts(db) :
        LET touched == {i \in Invoices : db.alloc[r][i] > 0}
        IN Begin(q, [Blank EXCEPT !.kind = "void", !.id = r, !.touched = touched,
                       !.voided = touched \intersect db.voidedInvoices,
                       !.rows = Rows(ReleaseInvoices(db, r), touched),
                       !.amount = Monus(db.amount[r], Allocated(db, r))])

\* The amounts of the credit rows of a receipt, none being 0.
Slips(r) == IF doubles[r] = {} THEN {db.rcred[r]} ELSE doubles[r]

\* Mutant: the credit row of the receipt is left.
TakeBackCreditMutant(d, r, over, created) ==
    [d EXCEPT !.credit = Monus(@, Max({over, created}))]

\* The credit of the receipt's own row, the one that findOne gives if there are several, or
\* what the receipt did not allocate.
TakeBackCredit(d, r, over, created) ==
    LET freed == IF created > d.credit THEN ReverseCredit(d, created - d.credit) ELSE d
    IN IF created > 0
       THEN [freed EXCEPT !.credit = Monus(@, created), !.rcred[r] = @ - created]
       ELSE [d EXCEPT !.credit = Monus(@, over)]

FinishVoid(q) ==
    LET t       == desk[q]
        onto(W) == [WriteInvoices(db, t, W) EXCEPT !.voidedReceipts = @ \union {t.id}]
    IN /\ t.kind = "void"
       /\ \E W \in SUBSET Stale(t), created \in Slips(t.id) :
             /\ created <= db.rcred[t.id]
             /\ Finish(q, [ok |-> TRUE,
                           db |-> TakeBackCredit(onto(W), t.id, t.amount, created)], {})
             /\ doubles' = [doubles EXCEPT ![t.id] = @ \ {created}]
       /\ UNCHANGED crossed

-----------------------------------------------------------------------------
(* saveInvoice of a term without an invoice: the lookup and the credit,    *)
(* then the credit as it was read less what is applied, and the invoice.   *)

BeginInvoice(q) ==
    \E i \in Invoices, t \in Terms, bill \in Bills, exemption \in Exemptions :
        LET net == NetBill(bill, exemption)
            x   == CreditToApply(db, net)
        IN /\ IsNext(i, db.invoices \union Drawn("invoice"), Invoices)
           /\ InvoicesFor(db, t) = {}
           /\ WithinTermLimit(db, t, net)
           /\ InvoiceIsValid(bill, exemption, Min(Dates), Min(Dates))
           /\ Begin(q, [Blank EXCEPT !.kind = "invoice", !.id = i, !.amount = net, !.term = t,
                          !.applied = x, !.credit = db.credit - x,
                          !.source = CreditSource(db, x)])

\* Mutant: an enrolment may have several invoices.
TermFreeMutant(t) == TRUE

\* The OneToOne column of the enrolment is unique.
TermFree(t) == \A i \in db.invoices : db.term[i] # t

FinishInvoice(q) ==
    LET t    == desk[q]
        i    == t.id
        paid == IF t.applied = 0 THEN db ELSE VerifyCredit([db EXCEPT !.credit = t.credit])
        onto == [paid EXCEPT
                   !.invoices = @ \union {i},
                   !.term[i] = t.term, !.date[i] = Min(Dates), !.due[i] = Min(Dates),
                   !.total[i] = t.amount, !.paid[i] = 0, !.balance[i] = t.amount,
                   !.status[i] = StatusOf(FALSE, t.amount)]
    IN /\ t.kind = "invoice"
       /\ TermFree(t.term)
       /\ Finish(q, WithCreditRow(Reconcile(onto), i, t.applied, t.source), {})
       /\ UNCHANGED <<doubles, crossed>>

-----------------------------------------------------------------------------
(* voidInvoice: the invoice and its rows, then the removal of those rows.  *)

BeginCancel(q) ==
    \E i \in LiveInvoices(db) :
        LET marked == [db EXCEPT !.voidedInvoices = @ \union {i}]
        IN Begin(q, [Blank EXCEPT !.kind = "cancel", !.id = i, !.amount = CreditPaid(db, i),
                       !.touched = {i}, !.voided = {i},
                       !.rows = Rows(Recalculate(marked, {i}), {i})])

\* Mutant: only the allocations of live receipts are removed.
RemoveRowsMutant(d, i, t) ==
    [d EXCEPT
      !.alloc  = [r \in Receipts |-> [j \in Invoices |->
                    IF j = i /\ r \in LiveReceipts(d) \ t.renewed THEN 0 ELSE @[r][j]]],
      !.calloc = {c \in @ : c.inv # i \/ c.seq \in t.fresh}]

\* remove() deletes the rows that were loaded; rows committed since stay.
RemoveRows(d, i, t) ==
    [d EXCEPT
      !.alloc  = [r \in Receipts |-> [j \in Invoices |->
                    IF j = i /\ r \notin t.renewed THEN 0 ELSE @[r][j]]],
      !.calloc = {c \in @ : c.inv # i \/ c.seq \in t.fresh}]

\* A row came onto invoice i while t was open.
PaidMeanwhile(i, t) ==
    \/ \E r \in t.renewed : db.alloc[r][i] > 0
    \/ \E c \in RowsOf(db, i) : c.seq \in t.fresh

FinishCancel(q) ==
    LET t    == desk[q]
        i    == t.id
        onto == [RemoveRows(WriteInvoices(db, t, {i}), i, t) EXCEPT
                   !.term[i] = NoTerm,
                   !.credit  = @ + (IF t.amount > Tol THEN t.amount ELSE 0)]
    IN /\ t.kind = "cancel"
       /\ Finish(q, Reconcile(onto), {})
       /\ crossed' = [crossed EXCEPT
                        !.invoices = @ \union (IF PaidMeanwhile(i, t) THEN {i} ELSE {})]
       /\ UNCHANGED doubles

-----------------------------------------------------------------------------
(* reconcileStudent: the live invoices, then every step, each of which     *)
(* loads again what it works on.                                           *)

BeginReconcile(q) ==
    Begin(q, [Blank EXCEPT !.kind = "reconcile", !.touched = LiveInvoices(db)])

FinishReconcile(q) ==
    /\ desk[q].kind = "reconcile"
    /\ Finish(q, ReconcileOf(db, desk[q].touched), {})
    /\ UNCHANGED <<doubles, crossed>>

-----------------------------------------------------------------------------
(* rebuildStudentLedger: the live invoices and receipts, then their rows   *)
(* from scratch.                                                           *)

BeginRebuild(q) ==
    Begin(q, [Blank EXCEPT !.kind = "rebuild", !.touched = LiveInvoices(db),
                !.terms = [i \in Invoices |->
                             IF i \in LiveInvoices(db) THEN db.term[i] ELSE NoTerm],
                !.receipts = LiveReceipts(db)])

\* The plan for what was loaded: the bills and dates of invoices and the amounts of receipts
\* stay as they were issued.
LoadedPlan(t) ==
    FifoPlan([db EXCEPT !.voidedInvoices = db.invoices \ t.touched,
                        !.voidedReceipts = db.receipts \ t.receipts])

\* Copies that are not what the row is any more, in isVoided or the term, which save()
\* writes or leaves.
Outdated(t) == {i \in t.touched : i \in db.voidedInvoices \/ db.term[i] # t.terms[i]}

\* What the rebuild comes to before the balances are recalculated.  Rows committed since the
\* load stay if the DELETE of their table came too early to see them: the credit rows `fresh',
\* the allocations of receipts in `paying', the receipt credits of those in `giving'.  Of two
\* allocations of a receipt to an invoice, recalculation removes the later one.
Rebuilt(t, plan, W, fresh, paying, giving) ==
    [db EXCEPT
      !.voidedInvoices = @ \ W,
      !.term      = [i \in Invoices |-> IF i \in W THEN t.terms[i] ELSE @[i]],
      !.hasCredit = TRUE,
      !.credit    = SumFunctionOnSet(plan.rcred, t.receipts),
      !.credited  = [i \in Invoices |-> 0],
      !.calloc    = {c \in @ : c.inv \notin t.touched \/ c.seq \in fresh},
      !.alloc     = [r \in Receipts |-> [i \in Invoices |->
                       IF r \notin t.receipts \/ (r \in paying /\ @[r][i] > 0)
                       THEN @[r][i] ELSE plan.alloc[r][i]]],
      !.rcred     = [r \in Receipts |->
                       IF r \notin t.receipts THEN @[r]
                       ELSE plan.rcred[r] + (IF r \in giving THEN @[r] ELSE 0)]]

TermsUnique(e) ==
    \A i, j \in e.invoices : e.term[i] = e.term[j] => i = j \/ e.term[i] = NoTerm

FinishRebuild(q) ==
    LET t    == desk[q]
        plan == LoadedPlan(t)
        doubled(giving) == {r \in giving : db.rcred[r] > 0 /\ plan.rcred[r] > 0}
    IN /\ t.kind = "rebuild"
       /\ \E W \in SUBSET Outdated(t), fresh \in SUBSET t.fresh,
             paying \in SUBSET (t.renewed \intersect t.receipts) :
          \E giving \in SUBSET paying :
              LET e == Rebuilt(t, plan, W, fresh, paying, giving)
              IN /\ Finish(q, [ok |-> TermsUnique(e),
                               db |-> VerifyCredit(Recalculate(e, t.touched))], t.receipts)
                 /\ doubles' = [r \in Receipts |->
                       CASE r \in doubled(giving)      -> Slips(r) \union {plan.rcred[r]}
                         [] r \in t.receipts \ giving  -> {}
                         [] OTHER                      -> doubles[r]]
       /\ crossed' = [invoices |-> crossed.invoices \union (t.touched \ LiveInvoices(db')),
                      receipts |-> crossed.receipts \union
                                     (t.receipts \intersect (db.voidedReceipts \union t.renewed))]

-----------------------------------------------------------------------------
\* A query fails, the transaction is chosen to end a deadlock or it throws: rolled back.
RollBack(q) ==
    /\ desk[q].kind # "idle"
    /\ desk' = [desk EXCEPT ![q] = Blank]
    /\ UNCHANGED <<db, doubles, crossed>>

TxNext ==
    \E q \in Requests :
        \/ BeginPayment(q)   \/ FinishPayment(q)
        \/ BeginVoid(q)      \/ FinishVoid(q)
        \/ BeginInvoice(q)   \/ FinishInvoice(q)
        \/ BeginCancel(q)    \/ FinishCancel(q)
        \/ BeginReconcile(q) \/ FinishReconcile(q)
        \/ BeginRebuild(q)   \/ FinishRebuild(q)
        \/ RollBack(q)

TxSpec == TxInit /\ [][TxNext]_txVars

-----------------------------------------------------------------------------
(* Properties                                                              *)

\* The columns keep their types and CHECK constraints, and an enrolment has one invoice,
\* whatever overlaps.
TxTypeOK ==
    /\ TypeOK
    /\ \A q \in Requests : desk[q].kind \in {"idle", "payment", "void", "invoice",
                                             "cancel", "reconcile", "rebuild"}
    /\ TermsUnique(db)

\* What the transaction comes to when it is one step.
Serial(d, t) ==
    CASE t.kind = "payment"   -> CreateReceipt(d, t.id, t.amount).db
      [] t.kind = "void"      -> VoidReceipt(d, t.id)
      [] t.kind = "invoice"   ->
             SaveNewInvoice(d, t.id, t.term, t.amount, Min(Dates), Min(Dates)).db
      [] t.kind = "cancel"    -> VoidInvoice(d, t.id).db
      [] t.kind = "reconcile" -> Reconcile(d).db
      [] t.kind = "rebuild"   -> Rebuild(d)

\* A transaction into which nobody commits is rolled back or does what the operation of
\* StudentLedger does, a receipt with several credit rows aside.
AloneIsSerial ==
    [][\A q \in Requests :
          /\ desk[q].kind # "idle" /\ desk'[q].kind = "idle" /\ desk[q].alone
          /\ desk[q].kind = "void" => doubles[desk[q].id] = {}
          => db' \in {db, Serial(db, desk[q])}]_txVars

\* However transactions overlap, money is misplaced only in three ways, each of which takes
\* a commit between the load and the writes of another transaction.  A voided invoice holds
\* money only when a payment or a rebuild loaded it before it was voided, or when a row came
\* onto it while it was being voided.  A voided receipt gives credit, and a receipt is spent
\* beyond its amount, only when a rebuild loaded it before it was voided or rebuilt
\* (createReceipt, voidReceipt, voidInvoice, rebuildStudentLedger).
MoneyMisplacedOnlyByOverlap ==
    /\ \A r \in Receipts \ crossed.receipts :
          /\ Allocated(db, r) + db.rcred[r] <= db.amount[r]
          /\ r \in db.voidedReceipts => ~(db.rcred[r] > 0)
    /\ \A i \in db.voidedInvoices \ crossed.invoices :
          /\ \A r \in Receipts : db.alloc[r][i] = 0
          /\ RowsOf(db, i) = {}

\* A rebuild repairs what overlapping transactions left: the money of the live receipts is
\* placed, invoices first, and what the live invoices cache is what their rows add up to.
RebuildRepairs ==
    LET d == Rebuild(db)
    IN /\ AllMoneyPlaced(d)
       /\ \A i \in LiveInvoices(d) : CachedIsLedger(d, i)
=============================================================================
