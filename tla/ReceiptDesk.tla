---------------------------- MODULE ReceiptDesk ----------------------------
(***************************************************************************)
(* createReceipt as several requests at once see it.  The search for a     *)
(* duplicate and the drawing of the receipt number are queries made BEFORE *)
(* the transaction that inserts the receipt, so other requests take their  *)
(* steps in between; a row is seen by them once its transaction commits.   *)
(* One step here is one query with the code that runs on until the next    *)
(* await.  What the transaction does to the ledger is StudentLedger.       *)
(***************************************************************************)
EXTENDS Integers

CONSTANTS
    Clerks,        \* requests served at a time
    Students,
    Amounts,
    Window,        \* 5 minutes
    YearLength     \* ticks of the clock in a year

ASSUME ClockAssumption == Window \in Nat \ {0} /\ YearLength \in Nat \ {0}
ASSUME RequestsAssumption == Students # {} /\ Amounts # {}

VARIABLES
    now,       \* the clock
    table,     \* committed receipts
    voided,    \* ids of those with isVoided
    lastId,    \* the id sequence; a transaction that fails burns its id
    drafts     \* what each clerk's request has read so far

deskVars == <<now, table, voided, lastId, drafts>>

Year(t) == t \div YearLength

Ids == {a.id : a \in table}

\* `seen' and `known' are history: the receipts committed when the request searched
\* for a duplicate and when it drew its number.
NoReceipt ==
    [id |-> 0, student |-> CHOOSE s \in Students : TRUE,
     amount |-> CHOOSE x \in Amounts : TRUE,
     date |-> 0, year |-> 0, seq |-> 0, seen |-> {}, known |-> {}]

DeskInit ==
    /\ now = 0
    /\ table = {} /\ voided = {}
    /\ lastId = 0
    /\ drafts = [c \in Clerks |-> [phase |-> "idle", receipt |-> NoReceipt]]

-----------------------------------------------------------------------------
\* Mutant: the window is one tick short.
DuplicatesMutant(s, x) ==
    {a \in table : a.student = s /\ a.amount = x /\ a.date > now - Window + 1
                    /\ a.id \notin voided}

\* The receipts that make a new one a duplicate.
Duplicates(s, x) ==
    {a \in table : a.student = s /\ a.amount = x /\ a.date > now - Window
                    /\ a.id \notin voided}

\* createReceipt up to the search for a duplicate, which throws if it finds one, and
\* the first line of generateReceiptNumber, which fixes the year.
SearchDuplicate(c, s, x) ==
    /\ drafts[c].phase = "idle"
    /\ Duplicates(s, x) = {}
    /\ drafts' = [drafts EXCEPT ![c] =
                    [phase   |-> "searched",
                     receipt |-> [NoReceipt EXCEPT !.student = s, !.amount = x, !.date = now,
                                                   !.year = Year(now), !.seen = Ids]]]
    /\ UNCHANGED <<now, table, voided, lastId>>

NumbersOf(year) == {a \in table : a.year = year}

\* Mutant: no ORDER BY id DESC.
FollowsMutant(n, year) ==
    \/ NumbersOf(year) = {} /\ n = 1
    \/ \E a \in NumbersOf(year) : n = a.seq + 1

\* n follows the number of the last receipt of the year, by id.
Follows(n, year) ==
    \/ NumbersOf(year) = {} /\ n = 1
    \/ \E a \in NumbersOf(year) :
          (\A b \in NumbersOf(year) : b.id <= a.id) /\ n = a.seq + 1

\* The query of generateReceiptNumber, then the creation of the receipt entity.
DrawNumber(c) ==
    /\ drafts[c].phase = "searched"
    /\ \E n \in {1} \union {a.seq + 1 : a \in table} :
          /\ Follows(n, drafts[c].receipt.year)
          /\ drafts' = [drafts EXCEPT ![c] =
                          [phase   |-> "numbered",
                           receipt |-> [@.receipt EXCEPT !.seq = n, !.date = now,
                                                         !.known = Ids]]]
    /\ UNCHANGED <<now, table, voided, lastId>>

\* Mutant: the sequence is read, not advanced.
InsertMutant(c) ==
    /\ drafts[c].phase = "numbered"
    /\ drafts' = [drafts EXCEPT ![c] = [phase   |-> "inserted",
                                      receipt |-> [@.receipt EXCEPT !.id = lastId + 1]]]
    /\ UNCHANGED <<now, table, voided, lastId>>

\* The INSERT: inside the transaction, so nobody else sees it yet.
Insert(c) ==
    /\ drafts[c].phase = "numbered"
    /\ lastId' = lastId + 1
    /\ drafts' = [drafts EXCEPT ![c] = [phase   |-> "inserted",
                                      receipt |-> [@.receipt EXCEPT !.id = lastId + 1]]]
    /\ UNCHANGED <<now, table, voided>>

\* Allocation succeeded, or reconciliation failed and was swallowed.
CommitReceipt(c) ==
    /\ drafts[c].phase = "inserted"
    /\ table' = table \union {drafts[c].receipt}
    /\ drafts' = [drafts EXCEPT ![c] = [phase |-> "idle", receipt |-> NoReceipt]]
    /\ UNCHANGED <<now, voided, lastId>>

\* Allocation threw (the credit limit, a failed query): everything but the id is undone.
RollBack(c) ==
    /\ drafts[c].phase = "inserted"
    /\ drafts' = [drafts EXCEPT ![c] = [phase |-> "idle", receipt |-> NoReceipt]]
    /\ UNCHANGED <<now, table, voided, lastId>>

\* voidReceipt: a second attempt throws.
VoidReceipt ==
    /\ \E r \in Ids \ voided : voided' = voided \union {r}
    /\ UNCHANGED <<now, table, lastId, drafts>>

Tick ==
    /\ now' = now + 1
    /\ UNCHANGED <<table, voided, lastId, drafts>>

DeskNext ==
    \/ \E c \in Clerks :
          \/ \E s \in Students, x \in Amounts : SearchDuplicate(c, s, x)
          \/ DrawNumber(c)
          \/ Insert(c)
          \/ CommitReceipt(c)
          \/ RollBack(c)
    \/ VoidReceipt
    \/ Tick

DeskSpec == DeskInit /\ [][DeskNext]_deskVars

-----------------------------------------------------------------------------
(* Properties                                                              *)

ReceiptRecords ==
    [id : Nat, student : Students, amount : Amounts, date : Nat, year : Nat, seq : Nat,
     seen : SUBSET Nat, known : SUBSET Nat]

\* An id is issued before it is used, and only a committed receipt can be voided.
DeskTypeOK ==
    /\ now \in Nat /\ lastId \in Nat
    /\ table \subseteq ReceiptRecords
    /\ \A a \in table : a.id \in 1..lastId
    /\ voided \subseteq Ids
    /\ drafts \in [Clerks -> [phase : {"idle", "searched", "numbered", "inserted"},
                              receipt : ReceiptRecords]]
    /\ \A c \in Clerks : drafts[c].receipt.id \in 0..lastId

SameMoney(a, b) ==
    /\ a.id # b.id /\ a.student = b.student /\ a.amount = b.amount
    /\ a.date - b.date < Window /\ b.date - a.date < Window

\* Two live receipts for the same money within five minutes exist only if neither had
\* committed when the other's request searched: the guard works for everyone it can see.
DuplicatesOnlyByOverlap ==
    \A a, b \in table :
        SameMoney(a, b) /\ {a.id, b.id} \cap voided = {}
            => a.id \notin b.seen /\ b.id \notin a.seen

\* The numbers of a year have no gap, whatever failed, was voided or overlapped.
NumbersHaveNoGap ==
    \A a \in table :
        a.seq = 1 \/ \E b \in table : b.year = a.year /\ b.seq = a.seq - 1

\* While every request draws its number after the receipts with smaller ids are
\* committed, numbers grow with the ids of a year, hence are unique.
DrawnInOrder == \A a, b \in table : a.id < b.id => a.id \in b.known

OrderlyNumbersGrow ==
    DrawnInOrder =>
        \A a, b \in table : a.year = b.year /\ a.id < b.id => a.seq < b.seq

\* What generateReceiptNumber gives by reading the last number of the year: no gap ever,
\* and unique growing numbers for requests that do not overlap.
NumbersInOrder == NumbersHaveNoGap /\ OrderlyNumbersGrow

-----------------------------------------------------------------------------
(* What the code's documentation says and the code does not do             *)

\* payment.exceptions.ts:45: a receipt with the same amount is refused when created
\* within a short time of another.
NoDuplicateReceipts ==
    \A a, b \in table : SameMoney(a, b) => {a.id, b.id} \cap voided # {}
=============================================================================
