------------------------ MODULE FindThenInsertProofs ------------------------
(***************************************************************************)
(* Three components whose steps find a row, or none, and then insert one   *)
(* in a query of its own.  The duplicate guard and the numbering of        *)
(* receipts (module ReceiptDesk), for any number of concurrent requests,   *)
(* students and amounts, and any window.  The start-up of module StartUp,  *)
(* which implements module Catalogue and keeps the configuration that was  *)
(* saved last, for any number of requests, columns, roles, permissions and *)
(* restarts.  The registers of module Registers, which double a row by     *)
(* overlap only and whose reports add up, for any requests, pupils, days,  *)
(* topics and scores.                                                      *)
(***************************************************************************)
EXTENDS ReceiptDesk, StartUp, Registers, SetLemmas

-----------------------------------------------------------------------------
(* The receipt desk                                                        *)

RequestRecords ==
    [phase : {"idle", "searched", "numbered", "inserted"}, receipt : ReceiptRecords]

\* What a receipt read was there to read, and not in the future.
Past(q, t, n, ids) ==
    q.id <= n /\ q.date <= t /\ q.seen \subseteq ids /\ q.known \subseteq ids

\* Every live receipt the search could see is a window older than the request.
Guarded(q, tab, gone) ==
    \A a \in tab :
        /\ a.id \in q.seen /\ a.student = q.student /\ a.amount = q.amount
        /\ a.id \notin gone
        => a.date + Window <= q.date

\* The number is 1, or one more than that of the last receipt of the year then known.
Drawn(q, tab) ==
    \/ /\ q.seq = 1
       /\ \A a \in tab : a.id \in q.known => a.year # q.year
    \/ \E a \in tab :
          /\ a.id \in q.known /\ a.year = q.year /\ q.seq = a.seq + 1
          /\ \A b \in tab : b.id \in q.known /\ b.year = q.year => b.id <= a.id

\* Ids are a primary key, for the inserts that are not committed too.
Unused(id, ids) == id >= 1 /\ id \notin ids

DeskOK ==
    \A c \in Clerks :
        /\ Past(drafts[c].receipt, now, lastId, Ids)
        /\ Guarded(drafts[c].receipt, table, voided)
        /\ drafts[c].phase \in {"numbered", "inserted"} => Drawn(drafts[c].receipt, table)
        /\ drafts[c].phase = "inserted" => Unused(drafts[c].receipt.id, Ids)

DistinctInserts ==
    \A c, d \in Clerks :
        /\ c # d /\ drafts[c].phase = "inserted" /\ drafts[d].phase = "inserted"
        => drafts[c].receipt.id # drafts[d].receipt.id

TableOK ==
    /\ \A a \in table : /\ a \in ReceiptRecords /\ a.id >= 1
                        /\ Past(a, now, lastId, Ids)
                        /\ Guarded(a, table, voided)
                        /\ Drawn(a, table)
    /\ \A a, b \in table : a.id = b.id => a = b

DeskInv ==
    /\ now \in Nat /\ lastId \in Nat
    /\ voided \subseteq Ids
    /\ drafts \in [Clerks -> RequestRecords]
    /\ DeskOK /\ DistinctInserts
    /\ TableOK
    /\ OrderlyNumbersGrow

-----------------------------------------------------------------------------
LEMMA NoReceiptOK ==
    /\ NoReceipt \in ReceiptRecords /\ NoReceipt.seen = {} /\ NoReceipt.known = {}
    /\ NoReceipt.id = 0 /\ NoReceipt.date = 0
BY RequestsAssumption DEF NoReceipt, ReceiptRecords

LEMMA NoReceiptReads ==
    ASSUME NEW t \in Nat, NEW n \in Nat, NEW ids, NEW tab, NEW gone
    PROVE  Past(NoReceipt, t, n, ids) /\ Guarded(NoReceipt, tab, gone)
BY NoReceiptOK DEF Past, Guarded

LEMMA YearType == ASSUME NEW t \in Nat PROVE Year(t) \in Nat
BY ClockAssumption DEF Year

LEMMA IdsType == DeskInv => Ids \subseteq Nat
BY DEF DeskInv, TableOK, Ids, ReceiptRecords

LEMMA DeskInvInit == DeskInit => DeskInv
<1> SUFFICES ASSUME DeskInit PROVE DeskInv
    OBVIOUS
<1>1. [phase |-> "idle", receipt |-> NoReceipt] \in RequestRecords
    BY NoReceiptOK DEF RequestRecords
<1>2. /\ now = 0 /\ lastId = 0 /\ table = {} /\ voided = {}
      /\ drafts \in [Clerks -> RequestRecords]
      /\ \A c \in Clerks : drafts[c].phase = "idle" /\ drafts[c].receipt = NoReceipt
    BY <1>1 DEF DeskInit
<1>3. DeskOK /\ DistinctInserts
    BY <1>2, NoReceiptReads DEF DeskOK, DistinctInserts
<1>4. TableOK /\ OrderlyNumbersGrow
    BY <1>2 DEF TableOK, OrderlyNumbersGrow
<1>5. QED
    BY <1>2, <1>3, <1>4 DEF DeskInv

-----------------------------------------------------------------------------
(* One lemma per step of a request                                         *)

LEMMA SearchDuplicateKeeps ==
    ASSUME DeskInv, NEW c \in Clerks, NEW s \in Students, NEW x \in Amounts,
           SearchDuplicate(c, s, x)
    PROVE  DeskInv'
<1>1. PICK q : q = [NoReceipt EXCEPT !.student = s, !.amount = x, !.date = now,
                                 !.year = Year(now), !.seen = Ids]
    OBVIOUS
<1>2. /\ table' = table /\ voided' = voided /\ now' = now /\ lastId' = lastId
      /\ Ids' = Ids
      /\ drafts' = [drafts EXCEPT ![c] = [phase |-> "searched", receipt |-> q]]
      /\ Duplicates(s, x) = {}
    BY <1>1 DEF SearchDuplicate, Ids
<1>3. /\ q \in ReceiptRecords /\ q.id = 0 /\ q.date = now /\ q.seen = Ids /\ q.known = {}
      /\ q.student = s /\ q.amount = x
    BY <1>1, NoReceiptOK, YearType, IdsType DEF DeskInv, NoReceipt, ReceiptRecords
<1>4. /\ drafts' \in [Clerks -> RequestRecords]
      /\ drafts'[c].phase = "searched" /\ drafts'[c].receipt = q
      /\ \A d \in Clerks \ {c} : drafts'[d] = drafts[d]
    BY <1>2, <1>3 DEF DeskInv, RequestRecords
<1>5. Past(q, now, lastId, Ids)
    BY <1>3 DEF DeskInv, Past
<1>6. Guarded(q, table, voided)
    <2>1. \A a \in table : a.date \in Nat
        BY DEF DeskInv, TableOK, ReceiptRecords
    <2>2. QED
        BY <1>2, <1>3, <2>1, ClockAssumption DEF DeskInv, Guarded, Duplicates
<1>7. DeskOK'
    BY <1>2, <1>4, <1>5, <1>6 DEF DeskInv, DeskOK
<1>8. DistinctInserts'
    BY <1>4 DEF DeskInv, DistinctInserts
<1>9. QED
    BY <1>2, <1>4, <1>7, <1>8 DEF DeskInv, TableOK, OrderlyNumbersGrow, DrawnInOrder

LEMMA DrawNumberKeeps ==
    ASSUME DeskInv, NEW c \in Clerks, DrawNumber(c)
    PROVE  DeskInv'
<1>1. PICK p : p = drafts[c].receipt
    OBVIOUS
<1>2. PICK n \in {1} \union {a.seq + 1 : a \in table} :
          /\ Follows(n, p.year)
          /\ drafts' = [drafts EXCEPT ![c] =
                        [phase   |-> "numbered",
                         receipt |-> [p EXCEPT !.seq = n, !.date = now, !.known = Ids]]]
    BY <1>1 DEF DrawNumber
<1>3. PICK q : q = [p EXCEPT !.seq = n, !.date = now, !.known = Ids]
    OBVIOUS
<1>4. table' = table /\ voided' = voided /\ now' = now /\ lastId' = lastId /\ Ids' = Ids
    BY DEF DrawNumber, Ids
<1>5. p \in ReceiptRecords /\ Past(p, now, lastId, Ids) /\ Guarded(p, table, voided)
    BY <1>1 DEF DeskInv, RequestRecords, DeskOK
<1>6. n \in Nat /\ Ids \subseteq Nat
    BY IdsType DEF DeskInv, TableOK, ReceiptRecords
<1>7. /\ q \in ReceiptRecords /\ q.seq = n /\ q.date = now /\ q.known = Ids
      /\ q.id = p.id /\ q.year = p.year /\ q.seen = p.seen
      /\ q.student = p.student /\ q.amount = p.amount
    BY <1>3, <1>5, <1>6 DEF DeskInv, ReceiptRecords
<1>8. /\ drafts' \in [Clerks -> RequestRecords]
      /\ drafts'[c].phase = "numbered" /\ drafts'[c].receipt = q
      /\ \A d \in Clerks \ {c} : drafts'[d] = drafts[d]
    BY <1>2, <1>3, <1>7 DEF DeskInv, RequestRecords
<1>9. Past(q, now, lastId, Ids)
    BY <1>5, <1>7 DEF DeskInv, Past
<1>10. Guarded(q, table, voided)
    <2>1. \A a \in table : a.date \in Nat
        BY DEF DeskInv, TableOK, ReceiptRecords
    <2>2. p.date \in Nat /\ p.date <= now /\ now \in Nat
        BY <1>5 DEF DeskInv, Past, ReceiptRecords
    <2>3. QED
        BY <1>5, <1>7, <2>1, <2>2, ClockAssumption DEF Guarded
<1>11. Drawn(q, table)
    BY <1>2, <1>7 DEF Follows, Drawn, NumbersOf, Ids
<1>12. DeskOK'
    BY <1>4, <1>8, <1>9, <1>10, <1>11 DEF DeskInv, DeskOK
<1>13. DistinctInserts'
    BY <1>8 DEF DeskInv, DistinctInserts
<1>14. QED
    BY <1>4, <1>8, <1>12, <1>13 DEF DeskInv, TableOK, OrderlyNumbersGrow, DrawnInOrder

LEMMA InsertKeeps ==
    ASSUME DeskInv, NEW c \in Clerks, Insert(c)
    PROVE  DeskInv'
<1>1. PICK p, q : p = drafts[c].receipt /\ q = [p EXCEPT !.id = lastId + 1]
    OBVIOUS
<1>2. /\ table' = table /\ voided' = voided /\ now' = now /\ lastId' = lastId + 1
      /\ Ids' = Ids
      /\ drafts' = [drafts EXCEPT ![c] = [phase |-> "inserted", receipt |-> q]]
      /\ drafts[c].phase = "numbered"
    BY <1>1 DEF Insert, Ids
<1>3. /\ p \in ReceiptRecords /\ lastId \in Nat
      /\ Past(p, now, lastId, Ids) /\ Guarded(p, table, voided) /\ Drawn(p, table)
    BY <1>1, <1>2 DEF DeskInv, RequestRecords, DeskOK
<1>4. /\ q \in ReceiptRecords /\ q.id = lastId + 1
      /\ q.seq = p.seq /\ q.date = p.date /\ q.known = p.known /\ q.year = p.year
      /\ q.seen = p.seen /\ q.student = p.student /\ q.amount = p.amount
    BY <1>1, <1>3 DEF ReceiptRecords
<1>5. /\ drafts' \in [Clerks -> RequestRecords]
      /\ drafts'[c].phase = "inserted" /\ drafts'[c].receipt = q
      /\ \A d \in Clerks \ {c} : drafts'[d] = drafts[d]
    BY <1>2, <1>4 DEF DeskInv, RequestRecords
<1>6. /\ \A a \in table : a.id \in Nat /\ a.id <= lastId
      /\ \A d \in Clerks : drafts[d].receipt.id \in Nat /\ drafts[d].receipt.id <= lastId
    BY DEF DeskInv, DeskOK, TableOK, RequestRecords, Past, ReceiptRecords
<1>7. /\ Past(q, now, lastId + 1, Ids) /\ Guarded(q, table, voided) /\ Drawn(q, table)
      /\ Unused(q.id, Ids)
    BY <1>3, <1>4, <1>6 DEF Past, Guarded, Drawn, Unused, Ids
<1>8. /\ \A d \in Clerks : Past(drafts[d].receipt, now, lastId + 1, Ids)
      /\ \A a \in table : Past(a, now, lastId + 1, Ids)
    BY <1>3, <1>6 DEF DeskInv, DeskOK, TableOK, Past
<1>9. DeskOK'
    BY <1>2, <1>5, <1>7, <1>8 DEF DeskInv, DeskOK
<1>10. DistinctInserts'
    BY <1>3, <1>4, <1>5, <1>6 DEF DeskInv, DistinctInserts
<1>11. QED
    BY <1>2, <1>3, <1>5, <1>8, <1>9, <1>10
       DEF DeskInv, TableOK, OrderlyNumbersGrow, DrawnInOrder

\* No request has seen or known the id of the receipt that is committed, so what was
\* said of the others stays; and the new receipt follows all it knew.
LEMMA CommitReceiptKeeps ==
    ASSUME DeskInv, NEW c \in Clerks, CommitReceipt(c)
    PROVE  DeskInv'
<1>1. PICK q : q = drafts[c].receipt
    OBVIOUS
<1>2. /\ table' = table \union {q} /\ voided' = voided /\ now' = now /\ lastId' = lastId
      /\ drafts' = [drafts EXCEPT ![c] = [phase |-> "idle", receipt |-> NoReceipt]]
      /\ drafts[c].phase = "inserted"
    BY <1>1 DEF CommitReceipt
<1>3. /\ q \in ReceiptRecords /\ Past(q, now, lastId, Ids)
      /\ Guarded(q, table, voided) /\ Drawn(q, table) /\ Unused(q.id, Ids)
    BY <1>1, <1>2 DEF DeskInv, RequestRecords, DeskOK
<1>4. /\ drafts' \in [Clerks -> RequestRecords]
      /\ drafts'[c].phase = "idle" /\ drafts'[c].receipt = NoReceipt
      /\ \A d \in Clerks \ {c} : drafts'[d] = drafts[d]
    BY <1>2, NoReceiptOK DEF DeskInv, RequestRecords
<1>5. Ids' = Ids \union {q.id}
    BY <1>2 DEF Ids
<1>6. ASSUME NEW p, Past(p, now, lastId, Ids)
      PROVE  /\ Past(p, now, lastId, Ids')
             /\ Guarded(p, table, voided) => Guarded(p, table', voided)
             /\ Drawn(p, table) => Drawn(p, table')
    <2>1. q.id \notin p.seen /\ q.id \notin p.known
        BY <1>3, <1>6 DEF Past, Unused
    <2>2. Past(p, now, lastId, Ids')
        BY <1>5, <1>6 DEF Past
    <2>3. Guarded(p, table, voided) => Guarded(p, table', voided)
        BY <1>2, <2>1 DEF Guarded
    <2>4. Drawn(p, table) => Drawn(p, table')
        BY <1>2, <2>1 DEF Drawn
    <2>5. QED
        BY <2>2, <2>3, <2>4
<1>7. DeskOK'
    <2>1. Past(NoReceipt, now, lastId, Ids') /\ Guarded(NoReceipt, table', voided)
        BY NoReceiptReads DEF DeskInv
    <2>2. ASSUME NEW d \in Clerks \ {c}, drafts[d].phase = "inserted"
          PROVE  Unused(drafts[d].receipt.id, Ids')
        BY <1>1, <1>2, <1>5, <2>2 DEF DeskInv, DeskOK, DistinctInserts, Unused
    <2>3. QED
        BY <1>2, <1>4, <1>6, <2>1, <2>2 DEF DeskInv, DeskOK
<1>8. DistinctInserts'
    BY <1>4 DEF DeskInv, DistinctInserts
<1>9. TableOK'
    <2>1. \A a \in table' : /\ a \in ReceiptRecords /\ a.id >= 1
                            /\ Past(a, now', lastId', Ids')
                            /\ Guarded(a, table', voided')
                            /\ Drawn(a, table')
        BY <1>2, <1>3, <1>6 DEF DeskInv, TableOK, Unused
    <2>2. \A a, b \in table' : a.id = b.id => a = b
        BY <1>2, <1>3 DEF DeskInv, TableOK, Unused, Ids
    <2>3. QED
        BY <2>1, <2>2 DEF TableOK
<1>10. ASSUME DrawnInOrder', NEW a \in table', NEW b \in table',
              a.year = b.year, a.id < b.id
       PROVE  a.seq < b.seq
    <2>1. DrawnInOrder
        BY <1>2, <1>10 DEF DrawnInOrder
    <2>2. CASE a \in table /\ b \in table
        BY <1>10, <2>1, <2>2 DEF DeskInv, OrderlyNumbersGrow
    <2>3. CASE a \in table /\ b = q
        <3>1. a.id \in q.known
            BY <1>10, <2>3 DEF DrawnInOrder
        <3>2. PICK l \in table : l.year = q.year /\ q.seq = l.seq + 1 /\ a.id <= l.id
            BY <1>3, <1>10, <2>3, <3>1 DEF Drawn
        <3>3. a.seq \in Nat /\ l.seq \in Nat /\ a.id \in Nat /\ l.id \in Nat
            BY <2>3, <3>2 DEF DeskInv, TableOK, ReceiptRecords
        <3>4. CASE a.id = l.id
            BY <2>3, <3>2, <3>3, <3>4 DEF DeskInv, TableOK
        <3>5. CASE a.id < l.id
            <4>1. a.seq < l.seq
                BY <1>10, <2>1, <2>3, <3>2, <3>5 DEF DeskInv, OrderlyNumbersGrow
            <4>2. QED
                BY <2>3, <3>2, <3>3, <4>1
        <3>6. QED
            BY <3>2, <3>3, <3>4, <3>5
    <2>4. CASE a = q
        <3>1. b \in table
            BY <1>2, <1>3, <1>10, <2>4 DEF ReceiptRecords
        <3>2. q.id \in b.known
            BY <1>10, <2>4 DEF DrawnInOrder
        <3>3. QED
            BY <1>3, <3>1, <3>2 DEF DeskInv, TableOK, Past, Unused
    <2>5. QED
        BY <1>2, <2>2, <2>3, <2>4
<1>11. OrderlyNumbersGrow'
    BY <1>10 DEF OrderlyNumbersGrow
<1>12. QED
    BY <1>2, <1>4, <1>5, <1>7, <1>8, <1>9, <1>11 DEF DeskInv

LEMMA RollBackKeeps ==
    ASSUME DeskInv, NEW c \in Clerks, RollBack(c)
    PROVE  DeskInv'
<1>1. /\ table' = table /\ voided' = voided /\ now' = now /\ lastId' = lastId
      /\ Ids' = Ids
      /\ drafts' = [drafts EXCEPT ![c] = [phase |-> "idle", receipt |-> NoReceipt]]
    BY DEF RollBack, Ids
<1>2. /\ drafts' \in [Clerks -> RequestRecords]
      /\ drafts'[c].phase = "idle" /\ drafts'[c].receipt = NoReceipt
      /\ \A d \in Clerks \ {c} : drafts'[d] = drafts[d]
    BY <1>1, NoReceiptOK DEF DeskInv, RequestRecords
<1>3. Past(NoReceipt, now, lastId, Ids) /\ Guarded(NoReceipt, table, voided)
    BY NoReceiptReads DEF DeskInv
<1>4. DeskOK' /\ DistinctInserts'
    BY <1>1, <1>2, <1>3 DEF DeskInv, DeskOK, DistinctInserts
<1>5. QED
    BY <1>1, <1>2, <1>4 DEF DeskInv, TableOK, OrderlyNumbersGrow, DrawnInOrder

LEMMA VoidReceiptKeeps ==
    ASSUME DeskInv, VoidReceipt
    PROVE  DeskInv'
<1>1. /\ table' = table /\ now' = now /\ lastId' = lastId /\ drafts' = drafts
      /\ Ids' = Ids
      /\ voided \subseteq voided' /\ voided' \subseteq Ids
    BY DEF DeskInv, VoidReceipt, Ids
<1>2. ASSUME NEW q, Guarded(q, table, voided)
      PROVE  Guarded(q, table, voided')
    BY <1>1, <1>2 DEF Guarded
<1>3. QED
    BY <1>1, <1>2
       DEF DeskInv, DeskOK, DistinctInserts, TableOK, OrderlyNumbersGrow, DrawnInOrder

LEMMA TickKeeps ==
    ASSUME DeskInv, Tick
    PROVE  DeskInv'
<1>1. /\ table' = table /\ now' = now + 1 /\ lastId' = lastId /\ drafts' = drafts
      /\ voided' = voided /\ Ids' = Ids
    BY DEF Tick, Ids
<1>2. ASSUME NEW q \in ReceiptRecords, Past(q, now, lastId, Ids)
      PROVE  Past(q, now + 1, lastId, Ids)
    BY <1>2 DEF DeskInv, Past, ReceiptRecords
<1>3. \A c \in Clerks : drafts[c].receipt \in ReceiptRecords
    BY DEF DeskInv, RequestRecords
<1>4. QED
    BY <1>1, <1>2, <1>3
       DEF DeskInv, DeskOK, DistinctInserts, TableOK, OrderlyNumbersGrow, DrawnInOrder

-----------------------------------------------------------------------------
(* The theorems                                                            *)

LEMMA DeskInvNext == DeskInv /\ [DeskNext]_deskVars => DeskInv'
<1> SUFFICES ASSUME DeskInv, [DeskNext]_deskVars
             PROVE  DeskInv'
    OBVIOUS
<1>1. ASSUME NEW c \in Clerks, NEW s \in Students, NEW x \in Amounts,
             SearchDuplicate(c, s, x)
      PROVE  DeskInv'
    BY <1>1, SearchDuplicateKeeps
<1>2. ASSUME NEW c \in Clerks, DrawNumber(c) PROVE DeskInv'
    BY <1>2, DrawNumberKeeps
<1>3. ASSUME NEW c \in Clerks, Insert(c) PROVE DeskInv'
    BY <1>3, InsertKeeps
<1>4. ASSUME NEW c \in Clerks, CommitReceipt(c) PROVE DeskInv'
    BY <1>4, CommitReceiptKeeps
<1>5. ASSUME NEW c \in Clerks, RollBack(c) PROVE DeskInv'
    BY <1>5, RollBackKeeps
<1>6. CASE VoidReceipt
    BY <1>6, VoidReceiptKeeps
<1>7. CASE Tick
    BY <1>7, TickKeeps
<1>8. CASE UNCHANGED deskVars
    BY <1>8 DEF deskVars, DeskInv, DeskOK, DistinctInserts, TableOK, OrderlyNumbersGrow,
                DrawnInOrder, Ids
<1>9. QED
    BY <1>1, <1>2, <1>3, <1>4, <1>5, <1>6, <1>7, <1>8 DEF DeskNext

LEMMA DeskInvariance == DeskSpec => []DeskInv
BY DeskInvInit, DeskInvNext, PTL DEF DeskSpec

\* Every id in use was issued by the sequence, and only a committed receipt is voided.
THEOREM DeskTypeCorrect == DeskSpec => []DeskTypeOK
<1>1. DeskInv => DeskTypeOK
    <2> SUFFICES ASSUME DeskInv PROVE DeskTypeOK
        OBVIOUS
    <2>1. \A a \in table : a \in ReceiptRecords /\ a.id \in 1..lastId
        BY DEF DeskInv, TableOK, Past, ReceiptRecords
    <2>2. \A c \in Clerks : drafts[c].receipt.id \in 0..lastId
        <3> SUFFICES ASSUME NEW c \in Clerks
                     PROVE  drafts[c].receipt.id \in 0..lastId
            OBVIOUS
        <3>1. drafts[c].receipt \in ReceiptRecords
            BY DEF DeskInv, RequestRecords
        <3>2. drafts[c].receipt.id \in Nat
            BY <3>1 DEF ReceiptRecords
        <3>3. drafts[c].receipt.id <= lastId /\ lastId \in Nat
            BY DEF DeskInv, DeskOK, Past
        <3>4. QED
            BY <3>2, <3>3
    <2>3. drafts \in [Clerks -> [phase : {"idle", "searched", "numbered", "inserted"},
                               receipt : ReceiptRecords]]
        BY DEF DeskInv, RequestRecords
    <2>4. QED
        BY <2>1, <2>2, <2>3 DEF DeskInv, DeskTypeOK
<1>2. QED
    BY <1>1, DeskInvariance, PTL

\* Two live receipts for the same money within the window come from requests of which
\* neither could see the other's receipt: the guard fails for overlapping requests only.
THEOREM GuardWorksForTheVisible == DeskSpec => []DuplicatesOnlyByOverlap
<1>1. DeskInv => DuplicatesOnlyByOverlap
    <2> SUFFICES ASSUME DeskInv, NEW a \in table, NEW b \in table,
                        SameMoney(a, b), {a.id, b.id} \cap voided = {}
                 PROVE  a.id \notin b.seen /\ b.id \notin a.seen
        BY DEF DuplicatesOnlyByOverlap
    <2>1. a.date \in Nat /\ b.date \in Nat /\ Window \in Nat
        BY ClockAssumption DEF DeskInv, TableOK, ReceiptRecords
    <2>2. Guarded(a, table, voided) /\ Guarded(b, table, voided)
        BY DEF DeskInv, TableOK
    <2>3. QED
        BY <2>1, <2>2 DEF SameMoney, Guarded
<1>2. QED
    BY <1>1, DeskInvariance, PTL

\* The receipt numbers of a year are 1, 2, 3, ... without a gap, though some may repeat.
THEOREM NoGapInNumbers == DeskSpec => []NumbersHaveNoGap
<1>1. DeskInv => NumbersHaveNoGap
    <2> SUFFICES ASSUME DeskInv, NEW a \in table, a.seq # 1
                 PROVE  \E b \in table : b.year = a.year /\ b.seq = a.seq - 1
        BY DEF NumbersHaveNoGap
    <2>1. PICK b \in table : b.year = a.year /\ a.seq = b.seq + 1
        BY DEF DeskInv, TableOK, Drawn
    <2>2. b.seq \in Nat
        BY DEF DeskInv, TableOK, ReceiptRecords
    <2>3. QED
        BY <2>1, <2>2
<1>2. QED
    BY <1>1, DeskInvariance, PTL

\* Numbers are unique and grow with the id as long as no request draws its number while
\* a receipt that gets a smaller id is uncommitted.
THEOREM OrderGivesUniqueNumbers == DeskSpec => []OrderlyNumbersGrow
<1>1. DeskInv => OrderlyNumbersGrow
    BY DEF DeskInv
<1>2. QED
    BY <1>1, DeskInvariance, PTL

\* Both together: the numbers of generateReceiptNumber are without gap, and in the order
\* of the ids for requests that do not overlap.
THEOREM NumbersStayInOrder == DeskSpec => []NumbersInOrder
<1>1. NumbersHaveNoGap /\ OrderlyNumbersGrow => NumbersInOrder
    BY DEF NumbersInOrder
<1>2. QED
    BY <1>1, NoGapInNumbers, OrderGivesUniqueNumbers, PTL

-----------------------------------------------------------------------------
(* The catalogue                                                           *)

\* The entries of the abstract catalogue that are there.
Listed == (1..NumRoles) \intersect ((roles \ own) \union taken)

LEMMA SameNames == UNCHANGED <<roles, own, taken>> => UNCHANGED Listed
BY DEF Listed

\* seedSystemRoles inserts one name; a name that is there already changes nothing.
LEMMA InsertGrows ==
    ASSUME NEW p \in Actors, InsertRole(p)
    PROVE  SystemRoles!Add \/ UNCHANGED Listed
<1> DEFINE n == desk[p].at
<1>1. roles' = roles \union {n} /\ own' = own /\ taken' = taken
    BY DEF InsertRole
<1>2. CASE n \in (1..NumRoles) \ Listed /\ n \notin own
    <2>1. Listed' = Listed \union {n}
        BY <1>1, <1>2 DEF Listed
    <2> QED
        BY <1>2, <2>1 DEF SystemRoles!Add, Listed
<1>3. CASE ~(n \in (1..NumRoles) \ Listed /\ n \notin own)
    BY <1>1, <1>3 DEF Listed
<1> QED
    BY <1>2, <1>3

\* createRole may take a name of the enum, which then stays taken.
LEMMA CreateGrows ==
    ASSUME NEW n \in 0..NumRoles, CreateRole(n)
    PROVE  SystemRoles!Add \/ UNCHANGED Listed
<1>1. /\ n \notin roles
      /\ roles' = roles \union {n} /\ own' = own \union {n} /\ taken' = taken \union {n}
    BY DEF CreateRole
<1>2. CASE n \in (1..NumRoles) \ Listed
    <2>1. Listed' = Listed \union {n}
        BY <1>1, <1>2 DEF Listed
    <2> QED
        BY <1>2, <2>1 DEF SystemRoles!Add, Listed
<1>3. CASE n \notin (1..NumRoles) \ Listed
    BY <1>1, <1>3 DEF Listed
<1> QED
    BY <1>2, <1>3

\* deleteRole refuses system roles: what it deletes is an administrator's own.
LEMMA DeleteKeeps ==
    ASSUME NEW n \in 0..NumRoles, DeleteRole(n)
    PROVE  UNCHANGED Listed
BY DEF DeleteRole, Listed

LEMMA StepGrows == [Next]_vars => SystemRoles!Add \/ UNCHANGED Listed
<1> SUFFICES ASSUME [Next]_vars
             PROVE  SystemRoles!Add \/ UNCHANGED Listed
    OBVIOUS
<1>1. ASSUME NEW p \in Actors, Proceed(p)
      PROVE  SystemRoles!Add \/ UNCHANGED Listed
    <2>1. CASE InsertRole(p)
        BY <2>1, InsertGrows
    <2>2. CASE ~InsertRole(p)
        <3>1. UNCHANGED <<roles, own, taken>>
            BY <1>1, <2>2 DEF Proceed, CountGrading, FindLevel, SaveLevel, FindSettings,
               CreateDefault, RemoveSettings, SaveSettings, FindRole, FindPermission,
               InsertPermission, names
        <3> QED
            BY <3>1, SameNames
    <2> QED
        BY <2>1, <2>2
<1>2. ASSUME NEW r \in Requests, Ask(r)
      PROVE  UNCHANGED Listed
    <2>1. UNCHANGED <<roles, own, taken>>
        BY <1>2 DEF Ask, EditGrading, FindSettings, LoadSettings, LoadToReset, CountRoles,
           CountPermissions, names
    <2> QED
        BY <2>1, SameNames
<1>3. ASSUME NEW n \in 0..NumRoles, CreateRole(n) \/ DeleteRole(n)
      PROVE  SystemRoles!Add \/ UNCHANGED Listed
    BY <1>3, CreateGrows, DeleteKeeps
<1>4. ASSUME NEW n \in 1..NumPermissions, CreatePermission(n) \/ DeletePermission(n)
      PROVE  UNCHANGED Listed
    BY <1>4, SameNames DEF CreatePermission, DeletePermission
<1>5. CASE Stop
    BY <1>5, SameNames DEF Stop
<1>6. CASE UNCHANGED vars
    BY <1>6, SameNames DEF vars, names
<1> QED
    BY <1>1, <1>2, <1>3, <1>4, <1>5, <1>6 DEF Next

\* The server at start-up, the requests that seed an empty table and the administrators
\* together implement the catalogue: a system role, once there, never disappears, through
\* any number of restarts.
THEOREM SeedingImplementsCatalogue == Spec => CatalogueOnlyGrows
<1>1. Init => SystemRoles!Init
    BY DEF Init, SystemRoles!Init
<1>2. [Next]_vars => [SystemRoles!Add]_Listed
    BY StepGrows
<1>3. Spec => [][SystemRoles!Add]_Listed
    BY <1>2, PTL DEF Spec
<1> QED
    BY <1>1, <1>3, PTL DEF Spec, CatalogueOnlyGrows, SystemRoles!Growth, Listed

-----------------------------------------------------------------------------
(* The configuration                                                       *)

DeskRows ==
    [phase : Phases, at : Nat, there : BOOLEAN, new : Scales \union {NoRow},
     row : Rows, stale : SUBSET (0..2)]

\* What an actor is about to do is inside its list, its table and its columns.
Placed(q, d) ==
    /\ d \in DeskRows
    /\ d.phase \in {"grading", "settings", "up"} => q = Server
    /\ d.phase \in {"level", "found"} =>
          d.at \in Levels /\ d.new \in Scales /\ (q = Server => d.new = SeededThresholds(d.at))
    /\ d.phase \in {"first", "updating"} => d.at \in Fields
    /\ d.phase = "first" => d.row.value = [Defaults EXCEPT ![d.at] = 1]
    /\ d.phase = "updating" => d.row.id \in 1..lastSettings
    /\ d.phase \in {"role", "newRole"} => d.at \in 1..NumRoles
    /\ d.phase \in {"permission", "newPermission"} => d.at \in 1..NumPermissions

\* What it read is still so unless somebody has saved since: levels without a row, a table
\* without a row, the newest row with one column changed.
Current(q, d) ==
    /\ q = Server /\ d.phase \in {"level", "found"} =>
          \A l \in Levels : d.at <= l /\ l \notin d.stale => grading[l] = NoRow
    /\ d.phase \in {"creating", "first"} /\ 0 \notin d.stale => settings = {}
    /\ d.phase = "updating" /\ 0 \notin d.stale =>
          \E s \in settings :
             /\ \A t \in settings : t.id <= s.id
             /\ d.row.id = s.id /\ d.row.value = [s.value EXCEPT ![d.at] = 1]

SettingsTyped ==
    /\ settings \subseteq Rows /\ lastSettings \in Nat
    /\ \A s \in settings : s.id \in 1..lastSettings
    /\ \A s, t \in settings : s.id = t.id => s = t

GradingTyped == grading \in [Levels -> Scales \union {NoRow}]

HistoryTyped ==
    /\ meant \in [0..2 -> [Fields -> 0..1] \union Scales]
    /\ meant[0] \in [Fields -> 0..1]
    /\ raced \subseteq 0..2

NamesTyped ==
    /\ own \subseteq roles /\ roles \subseteq 0..NumRoles /\ permissions \subseteq 1..NumPermissions
    /\ taken \subseteq 0..NumRoles /\ struck \subseteq 1..NumPermissions
    /\ clash \in BOOLEAN /\ cutShort \in BOOLEAN

\* A level never saved has the default as what is meant, and one saved has what is meant.
GradingKept ==
    \A l \in Levels :
       /\ grading[l] = NoRow => meant[l] = SeededThresholds(l) /\ l \notin raced
       /\ grading[l] # NoRow /\ l \notin raced => grading[l] = meant[l]

\* The newest row holds what is meant.
SettingsKept ==
    0 \notin raced =>
       /\ settings = {} => meant[0] = Defaults
       /\ \A s \in settings : (\A t \in settings : t.id <= s.id) => s.value = meant[0]

DesksOK ==
    /\ desk \in [Actors -> DeskRows]
    /\ \A q \in Actors : Placed(q, desk[q]) /\ Current(q, desk[q])

StartUpInv ==
    /\ SettingsTyped /\ GradingTyped /\ HistoryTyped /\ NamesTyped /\ stops \in 0..MaxStops
    /\ GradingKept /\ SettingsKept /\ DesksOK

\* Thresholds are never the missing row.
LEMMA ScaleFacts ==
    /\ \A l \in Levels : SeededThresholds(l) \in Scales
    /\ OwnThresholds \in Scales
    /\ NoRow \notin Scales
BY DEF Levels, Scales, SeededThresholds, OwnThresholds, NoRow

LEMMA FieldFacts ==
    /\ Defaults \in [Fields -> 0..1]
    /\ NoSettings \in Rows
    /\ NoSettings.value = Defaults
BY DEF Defaults, NoSettings, Rows

LEMMA BlankFacts ==
    /\ Blank \in DeskRows
    /\ Blank.phase = "idle" /\ Blank.stale = {} /\ Blank.new = NoRow
    /\ Blank.row = NoSettings
BY FieldFacts DEF Blank, DeskRows, Phases

\* Among rows numbered up to lastSettings one has the highest number.
LEMMA NewestExists ==
    ASSUME SettingsTyped, settings # {}
    PROVE  \E s \in settings : \A t \in settings : t.id <= s.id
<1> DEFINE R == {p \in Nat \X Nat : p[1] < p[2]}
           T == {lastSettings - s.id : s \in settings}
<1>1. T \subseteq Nat /\ T # {}
    BY DEF SettingsTyped
<1>6. IsWellFoundedOn(R, Nat)
    BY NatLessThanWellFounded DEF OpToRel
<1>7. \A m, n \in Nat : <<m, n>> \in R <=> m < n
    OBVIOUS
<1> HIDE DEF T, R
<1>2. PICK n \in T : \A m \in T : ~(<<m, n>> \in R)
    BY <1>1, <1>6, WFMin
<1>3. \A m \in T : n <= m
    <2>1. \A m \in T : ~(m < n)
        BY <1>1, <1>2, <1>7
    <2> QED
        BY <1>1, <2>1
<1>4. PICK s \in settings : n = lastSettings - s.id
    BY DEF T
<1>5. ASSUME NEW t \in settings
      PROVE  t.id <= s.id
    <2>1. n <= lastSettings - t.id
        BY <1>3 DEF T
    <2> QED
        BY <2>1, <1>4 DEF SettingsTyped
<1> QED
    BY <1>5

LEMMA NewestIsRow ==
    ASSUME SettingsTyped, settings # {}
    PROVE  Newest \in settings /\ \A t \in settings : t.id <= Newest.id
BY NewestExists DEF Newest

LEMMA BlankWith ==
    ASSUME NEW phase \in Phases, NEW at \in Nat
    PROVE  LET d == [Blank EXCEPT !.phase = phase, !.at = at] IN
           /\ d \in DeskRows
           /\ d.phase = phase /\ d.at = at /\ d.stale = {} /\ d.new = NoRow /\ d.row = NoSettings
BY BlankFacts DEF DeskRows

LEMMA BlankWithNew ==
    ASSUME NEW phase \in Phases, NEW at \in Nat, NEW new \in Scales
    PROVE  LET d == [Blank EXCEPT !.phase = phase, !.at = at, !.new = new] IN
           /\ d \in DeskRows
           /\ d.phase = phase /\ d.at = at /\ d.stale = {} /\ d.new = new /\ d.row = NoSettings
BY BlankFacts DEF DeskRows

LEMMA BlankWithRow ==
    ASSUME NEW phase \in Phases, NEW at \in Nat, NEW row \in Rows
    PROVE  LET d == [Blank EXCEPT !.phase = phase, !.at = at, !.row = row] IN
           /\ d \in DeskRows
           /\ d.phase = phase /\ d.at = at /\ d.stale = {} /\ d.new = NoRow /\ d.row = row
BY BlankFacts DEF DeskRows

LEMMA BlankGood ==
    ASSUME NEW p \in Actors
    PROVE  Placed(p, Blank) /\ Current(p, Blank)
BY BlankFacts DEF Placed, Current

LEMMA AfterGood ==
    ASSUME NEW p \in Actors, NEW phase \in {"settings", "role", "permission", "up"}
    PROVE  Placed(p, After(p, phase)) /\ Current(p, After(p, phase))
<1>1. CASE p # Server
    BY <1>1, BlankGood DEF After
<1>2. CASE p = Server
    <2> DEFINE d == [Blank EXCEPT !.phase = phase, !.at = 1]
    <2>1. d \in DeskRows /\ d.phase = phase /\ d.at = 1
        BY BlankFacts DEF DeskRows, Phases
    <2>2. 1 \in 1..NumRoles /\ 1 \in 1..NumPermissions
        BY NumAssumption
    <2>3. After(p, phase) = d
        BY <1>2 DEF After
    <2> HIDE DEF d
    <2>5. Placed(p, d) /\ Current(p, d)
        BY <2>1, <2>2, <1>2 DEF Placed, Current
    <2> QED
        BY <2>3, <2>5
<1> QED
    BY <1>1, <1>2

LEMMA AfterPhase ==
    ASSUME NEW p, NEW phase
    PROVE  After(p, phase).phase \in {phase, "idle"}
BY BlankFacts DEF After, DeskRows

LEMMA OnwardGood ==
    ASSUME NEW p \in Actors, Placed(p, desk[p])
    PROVE  /\ desk[p].phase \in {"role", "newRole"} =>
                Placed(p, Onward(p, NumRoles, RoleLoop)) /\ Current(p, Onward(p, NumRoles, RoleLoop))
           /\ desk[p].phase \in {"permission", "newPermission"} =>
                /\ Placed(p, Onward(p, NumPermissions, PermissionLoop))
                /\ Current(p, Onward(p, NumPermissions, PermissionLoop))
<1>1. ASSUME desk[p].phase \in {"role", "newRole"}
      PROVE  Placed(p, Onward(p, NumRoles, RoleLoop)) /\ Current(p, Onward(p, NumRoles, RoleLoop))
    <2> DEFINE next == desk[p].at + 1
    <2> DEFINE d == [Blank EXCEPT !.phase = "role", !.at = next]
    <2>1. desk[p].at \in 1..NumRoles
        BY <1>1 DEF Placed
    <2>2. CASE desk[p].at < NumRoles
        <3>1. d \in DeskRows /\ d.phase = "role" /\ d.at \in 1..NumRoles
            <4>1. next \in 1..NumRoles /\ next \in Nat
                BY <2>1, <2>2, NumAssumption
            <4> HIDE DEF next
            <4>2. d \in DeskRows /\ d.phase = "role" /\ d.at = next
                BY <4>1, BlankFacts DEF DeskRows, Phases
            <4> QED
                BY <4>1, <4>2
        <3>2. Onward(p, NumRoles, RoleLoop) = d
            BY <2>2 DEF Onward, RoleLoop
        <3> HIDE DEF d
        <3> QED
            BY <3>1, <3>2 DEF Placed, Current
    <2>3. CASE ~(desk[p].at < NumRoles)
        BY <2>3, AfterGood DEF Onward, RoleLoop
    <2> QED
        BY <2>2, <2>3
<1>2. ASSUME desk[p].phase \in {"permission", "newPermission"}
      PROVE  /\ Placed(p, Onward(p, NumPermissions, PermissionLoop))
             /\ Current(p, Onward(p, NumPermissions, PermissionLoop))
    <2> DEFINE next == desk[p].at + 1
    <2> DEFINE d == [Blank EXCEPT !.phase = "permission", !.at = next]
    <2>1. desk[p].at \in 1..NumPermissions
        BY <1>2 DEF Placed
    <2>2. CASE desk[p].at < NumPermissions
        <3>1. d \in DeskRows /\ d.phase = "permission" /\ d.at \in 1..NumPermissions
            <4>1. next \in 1..NumPermissions /\ next \in Nat
                BY <2>1, <2>2, NumAssumption
            <4> HIDE DEF next
            <4>2. d \in DeskRows /\ d.phase = "permission" /\ d.at = next
                BY <4>1, BlankFacts DEF DeskRows, Phases
            <4> QED
                BY <4>1, <4>2
        <3>2. Onward(p, NumPermissions, PermissionLoop) = d
            BY <2>2 DEF Onward, PermissionLoop
        <3> HIDE DEF d
        <3> QED
            BY <3>1, <3>2 DEF Placed, Current
    <2>3. CASE ~(desk[p].at < NumPermissions)
        BY <2>3, AfterGood DEF Onward, PermissionLoop
    <2> QED
        BY <2>2, <2>3
<1> QED
    BY <1>1, <1>2

\* A step by which one actor only moves on keeps every desk in order.
LEMMA BecomeKeepsDesks ==
    ASSUME DesksOK, UNCHANGED <<grading, settings, lastSettings>>,
           NEW p \in Actors, NEW d, Placed(p, d), Current(p, d), Become(p, d)
    PROVE  DesksOK'
<1>1. d \in DeskRows
    BY DEF Placed
<1>2. desk' \in [Actors -> DeskRows]
    BY <1>1 DEF Become, DesksOK
<1>3. ASSUME NEW q \in Actors
      PROVE  Placed(q, desk[q])' /\ Current(q, desk[q])'
    <2>1. desk'[q] = IF q = p THEN d ELSE desk[q]
        BY DEF Become, DesksOK
    <2>2. Placed(q, desk'[q]) /\ Current(q, desk'[q])
        BY <2>1 DEF DesksOK
    <2> QED
        BY <2>2 DEF Placed, Current
<1> QED
    BY <1>2, <1>3 DEF DesksOK

LEMMA BecomeKeeps ==
    ASSUME StartUpInv, NEW p \in Actors, NEW d, Placed(p, d), Current(p, d), Become(p, d),
           UNCHANGED <<config, names, stops>>
    PROVE  StartUpInv'
<1>1. DesksOK'
    BY BecomeKeepsDesks DEF StartUpInv, config
<1>2. /\ SettingsTyped' /\ GradingTyped' /\ HistoryTyped' /\ NamesTyped' /\ (stops \in 0..MaxStops)'
      /\ GradingKept' /\ SettingsKept'
    BY DEF StartUpInv, config, names, SettingsTyped, GradingTyped, HistoryTyped, NamesTyped,
       GradingKept, SettingsKept
<1> QED
    BY <1>1, <1>2 DEF StartUpInv

\* A step that saves `k' marks as stale whatever rests on it, and leaves the rest current.
LEMMA SavedKeepsDesks ==
    ASSUME DesksOK, NEW p \in Actors, NEW d, NEW k \in 0..2, Saved(p, d, k),
           Placed(p, d)', Current(p, d)',
           lastSettings \in Nat, lastSettings' \in Nat, lastSettings <= lastSettings',
           k # 0 => UNCHANGED settings,
           \A l \in Levels : l # k => grading'[l] = grading[l]
    PROVE  DesksOK'
<1>1. d \in DeskRows
    BY DEF Placed
<1>2. ASSUME NEW q \in Actors, q # p, NEW x, x = desk'[q]
      PROVE  x \in DeskRows /\ Placed(q, x)' /\ Current(q, x)'
    <2>1. x = IF RestsOn(q, k) THEN [desk[q] EXCEPT !.stale = @ \union {k}] ELSE desk[q]
        BY <1>2 DEF Saved
    <2>2. SUFFICES ASSUME NEW y, y = desk[q]
                   PROVE  x \in DeskRows /\ Placed(q, x)' /\ Current(q, x)'
        OBVIOUS
    <2>3. y \in DeskRows /\ Placed(q, y) /\ Current(q, y)
        BY <2>2 DEF DesksOK
    <2>4. RestsOn(q, k) <=>
            IF k = 0 THEN y.phase \in {"creating", "first", "updating", "removing", "resetting"}
            ELSE q = Server /\ y.phase \in {"level", "found"} /\ y.at <= k
        BY <2>2 DEF RestsOn
    <2>5. x = IF RestsOn(q, k) THEN [y EXCEPT !.stale = @ \union {k}] ELSE y
        BY <2>1, <2>2
    <2>6. /\ x \in DeskRows
          /\ x.phase = y.phase /\ x.at = y.at /\ x.new = y.new /\ x.row = y.row
          /\ y.stale \subseteq x.stale
          /\ RestsOn(q, k) => k \in x.stale
        <3>1. CASE RestsOn(q, k)
            <4>1. x = [y EXCEPT !.stale = y.stale \union {k}]
                BY <2>5, <3>1
            <4>2. y.stale \union {k} \in SUBSET (0..2)
                BY <2>3 DEF DeskRows
            <4> QED
                BY <4>1, <4>2, <2>3 DEF DeskRows
        <3>2. CASE ~RestsOn(q, k)
            BY <2>5, <2>3, <3>2
        <3> QED
            BY <3>1, <3>2
    <2>7. /\ k = 0 /\ y.phase \in {"creating", "first", "updating"} => 0 \in x.stale
          /\ k # 0 /\ q = Server /\ y.phase \in {"level", "found"} /\ y.at <= k => k \in x.stale
        BY <2>4, <2>6
    <2>8. Placed(q, x)'
        BY <2>3, <2>6 DEF Placed
    <2>9. (q = Server /\ x.phase \in {"level", "found"} =>
             \A l \in Levels : x.at <= l /\ l \notin x.stale => grading[l] = NoRow)'
        BY <2>3, <2>6, <2>7 DEF Current, Levels
    <2>10. (x.phase \in {"creating", "first"} /\ 0 \notin x.stale => settings = {})'
        BY <2>3, <2>6, <2>7 DEF Current
    <2>11. (x.phase = "updating" /\ 0 \notin x.stale =>
              \E s \in settings :
                 /\ \A t \in settings : t.id <= s.id
                 /\ x.row.id = s.id /\ x.row.value = [s.value EXCEPT ![x.at] = 1])'
        BY <2>3, <2>6, <2>7 DEF Current
    <2> QED
        BY <2>6, <2>8, <2>9, <2>10, <2>11 DEF Current
<1>3. desk'[p] = d /\ desk' = [q \in Actors |-> desk'[q]]
    BY DEF Saved
<1>4. ASSUME NEW q \in Actors, NEW x, x = desk'[q]
      PROVE  x \in DeskRows /\ Placed(q, x)' /\ Current(q, x)'
    BY <1>1, <1>2, <1>3, <1>4
<1>5. desk' \in [Actors -> DeskRows]
    BY <1>3, <1>4
<1>6. ASSUME NEW q \in Actors
      PROVE  (Placed(q, desk[q]) /\ Current(q, desk[q]))'
    <2>1. SUFFICES ASSUME NEW x, x = desk'[q]
                   PROVE  Placed(q, x)' /\ Current(q, x)'
        BY DEF Placed, Current
    <2> QED
        BY <2>1, <1>4
<1> QED
    BY <1>5, <1>6 DEF DesksOK

-----------------------------------------------------------------------------
(* Steps that only move an actor on                                        *)

LEMMA CountGradingKeeps ==
    ASSUME StartUpInv, NEW p \in Actors, CountGrading(p)
    PROVE  StartUpInv'
<1>1. p = Server
    BY DEF StartUpInv, DesksOK, Placed, CountGrading
<1>2. UNCHANGED <<config, names, stops>>
    BY DEF CountGrading
<1>3. CASE \E l \in Levels : grading[l] # NoRow
    <2>1. Become(p, After(p, "settings"))
        BY <1>3 DEF CountGrading
    <2> QED
        BY <1>2, <2>1, AfterGood, BecomeKeeps
<1>4. CASE ~\E l \in Levels : grading[l] # NoRow
    <2> DEFINE d == [Blank EXCEPT !.phase = "level", !.at = 1, !.new = SeededThresholds(1)]
    <2>1. Become(p, d)
        BY <1>4 DEF CountGrading
    <2>2. SeededThresholds(1) \in Scales /\ 1 \in Levels
        BY ScaleFacts DEF Levels
    <2>3. d \in DeskRows /\ d.phase = "level" /\ d.at = 1 /\ d.new = SeededThresholds(1)
        BY <2>2, BlankFacts DEF DeskRows, Phases
    <2> HIDE DEF d
    <2>4. Placed(p, d) /\ Current(p, d)
        BY <1>1, <1>4, <2>2, <2>3 DEF Placed, Current
    <2> QED
        BY <1>2, <2>1, <2>4, BecomeKeeps
<1> QED
    BY <1>3, <1>4

LEMMA EditGradingKeeps ==
    ASSUME StartUpInv, NEW r \in Requests, NEW l \in Levels, EditGrading(r, l)
    PROVE  StartUpInv'
<1> DEFINE d == [Blank EXCEPT !.phase = "level", !.at = l, !.new = OwnThresholds]
<1>1. r \in Actors /\ r # Server
    BY ServerAssumption DEF Actors
<1>2. Become(r, d) /\ UNCHANGED <<config, names, stops>>
    BY DEF EditGrading
<1>3. l \in Nat
    BY DEF Levels
<1>4. d \in DeskRows /\ d.phase = "level" /\ d.at = l /\ d.new = OwnThresholds
    BY <1>3, ScaleFacts, BlankFacts DEF DeskRows, Phases
<1> HIDE DEF d
<1>5. Placed(r, d) /\ Current(r, d)
    BY <1>1, <1>4, ScaleFacts DEF Placed, Current
<1> QED
    BY <1>1, <1>2, <1>5, BecomeKeeps

LEMMA FindLevelKeeps ==
    ASSUME StartUpInv, NEW p \in Actors, FindLevel(p)
    PROVE  StartUpInv'
<1> DEFINE d == [desk[p] EXCEPT !.phase = "found", !.there = grading[desk[p].at] # NoRow]
<1>1. desk[p] \in DeskRows /\ Placed(p, desk[p]) /\ Current(p, desk[p]) /\ desk[p].phase = "level"
    BY DEF StartUpInv, DesksOK, FindLevel
<1>2. Become(p, d) /\ UNCHANGED <<config, names, stops>>
    BY DEF FindLevel
<1>3. /\ d \in DeskRows /\ d.phase = "found" /\ d.at = desk[p].at /\ d.new = desk[p].new
      /\ d.stale = desk[p].stale
    BY <1>1 DEF DeskRows, Phases
<1> HIDE DEF d
<1>4. Placed(p, d) /\ Current(p, d)
    BY <1>1, <1>3 DEF Placed, Current
<1> QED
    BY <1>2, <1>4, BecomeKeeps

LEMMA FindSettingsKeeps ==
    ASSUME StartUpInv, NEW p \in Actors, FindSettings(p)
    PROVE  StartUpInv'
<1>1. UNCHANGED <<config, names, stops>>
    BY DEF FindSettings
<1>2. CASE settings = {}
    <2> DEFINE d == [Blank EXCEPT !.phase = "creating"]
    <2>1. Become(p, d)
        BY <1>2 DEF FindSettings
    <2>2. d \in DeskRows /\ d.phase = "creating"
        BY BlankFacts DEF DeskRows, Phases
    <2> HIDE DEF d
    <2>3. Placed(p, d) /\ Current(p, d)
        BY <1>2, <2>2 DEF Placed, Current
    <2> QED
        BY <1>1, <2>1, <2>3, BecomeKeeps
<1>3. CASE settings # {}
    <2>1. Become(p, After(p, "role"))
        BY <1>3 DEF FindSettings
    <2> QED
        BY <1>1, <2>1, AfterGood, BecomeKeeps
<1> QED
    BY <1>2, <1>3

LEMMA LoadSettingsKeeps ==
    ASSUME StartUpInv, NEW r \in Requests, NEW f \in Fields, LoadSettings(r, f)
    PROVE  StartUpInv'
<1>1. r \in Actors /\ r # Server /\ f \in Nat
    BY ServerAssumption, NumAssumption DEF Actors, Fields
<1>2. UNCHANGED <<config, names, stops>>
    BY DEF LoadSettings
<1>3. CASE settings = {}
    <2> DEFINE d == [Blank EXCEPT !.phase = "first", !.at = f, !.row.value[f] = 1]
    <2>1. Become(r, d)
        BY <1>3 DEF LoadSettings
    <2>2. [NoSettings EXCEPT !.value[f] = 1] \in Rows
        BY FieldFacts DEF Rows
    <2>3. d = [Blank EXCEPT !.phase = "first", !.at = f, !.row = [NoSettings EXCEPT !.value[f] = 1]]
        BY BlankFacts
    <2>4. /\ d \in DeskRows /\ d.phase = "first" /\ d.at = f
          /\ d.row = [NoSettings EXCEPT !.value[f] = 1]
        BY <1>1, <2>2, <2>3, BlankFacts DEF DeskRows, Phases
    <2>5. d.row.value = [Defaults EXCEPT ![f] = 1]
        BY <2>4, FieldFacts DEF Rows
    <2> HIDE DEF d
    <2>6. Placed(r, d) /\ Current(r, d)
        BY <1>3, <2>4, <2>5 DEF Placed, Current
    <2> QED
        BY <1>1, <1>2, <2>1, <2>6, BecomeKeeps
<1>4. CASE settings # {}
    <2>1. Newest \in settings /\ (\A t \in settings : t.id <= Newest.id) /\ settings \subseteq Rows
        BY <1>4, NewestIsRow DEF StartUpInv, SettingsTyped
    <2> DEFINE row == [Newest EXCEPT !.value[f] = 1]
               d == [Blank EXCEPT !.phase = "updating", !.at = f, !.row = row]
    <2>2. Become(r, d)
        BY <1>4 DEF LoadSettings
    <2>3. row \in Rows /\ row.id = Newest.id /\ row.value = [Newest.value EXCEPT ![f] = 1]
        BY <2>1 DEF Rows
    <2> HIDE DEF row
    <2>4. d \in DeskRows /\ d.phase = "updating" /\ d.at = f /\ d.row = row
        BY <1>1, <2>3, BlankFacts DEF DeskRows, Phases
    <2> HIDE DEF d
    <2>5. Newest.id \in 1..lastSettings
        BY <2>1 DEF StartUpInv, SettingsTyped
    <2>6. Placed(r, d)
        BY <2>3, <2>4, <2>5 DEF Placed
    <2>7. Current(r, d)
        BY <2>1, <2>3, <2>4 DEF Current
    <2> QED
        BY <1>1, <1>2, <2>2, <2>6, <2>7, BecomeKeeps
<1> QED
    BY <1>3, <1>4

LEMMA LoadToResetKeeps ==
    ASSUME StartUpInv, NEW r \in Requests, LoadToReset(r)
    PROVE  StartUpInv'
<1>1. r \in Actors
    BY DEF Actors
<1>2. UNCHANGED <<config, names, stops>>
    BY DEF LoadToReset
<1>3. CASE settings = {}
    <2> DEFINE d == [Blank EXCEPT !.phase = "resetting"]
    <2>1. Become(r, d)
        BY <1>3 DEF LoadToReset
    <2>2. d \in DeskRows /\ d.phase = "resetting"
        BY BlankFacts DEF DeskRows, Phases
    <2> HIDE DEF d
    <2>3. Placed(r, d) /\ Current(r, d)
        BY <2>2 DEF Placed, Current
    <2> QED
        BY <1>1, <1>2, <2>1, <2>3, BecomeKeeps
<1>4. CASE settings # {}
    <2>1. Newest \in Rows
        BY <1>4, NewestIsRow DEF StartUpInv, SettingsTyped
    <2> DEFINE d == [Blank EXCEPT !.phase = "removing", !.row = Newest]
    <2>2. Become(r, d)
        BY <1>4 DEF LoadToReset
    <2>3. d \in DeskRows /\ d.phase = "removing"
        BY <2>1, BlankFacts DEF DeskRows, Phases
    <2> HIDE DEF d
    <2>4. Placed(r, d) /\ Current(r, d)
        BY <2>3 DEF Placed, Current
    <2> QED
        BY <1>1, <1>2, <2>2, <2>4, BecomeKeeps
<1> QED
    BY <1>3, <1>4

\* findAllRoles and findAllPermissions begin their lists.
LEMMA CountNamesKeeps ==
    ASSUME StartUpInv, NEW r \in Requests, CountRoles(r) \/ CountPermissions(r)
    PROVE  StartUpInv'
<1> DEFINE d(phase) == [Blank EXCEPT !.phase = phase, !.at = 1]
<1>1. r \in Actors /\ 1 \in 1..NumRoles /\ 1 \in 1..NumPermissions
    BY NumAssumption DEF Actors
<1>2. UNCHANGED <<config, names, stops>>
    BY DEF CountRoles, CountPermissions
<1>3. CASE CountRoles(r)
    <2>1. Become(r, d("role"))
        BY <1>3 DEF CountRoles
    <2>2. d("role") \in DeskRows /\ d("role").phase = "role" /\ d("role").at = 1
        BY BlankFacts DEF DeskRows, Phases
    <2> HIDE DEF d
    <2>3. Placed(r, d("role")) /\ Current(r, d("role"))
        BY <1>1, <2>2 DEF Placed, Current
    <2> QED
        BY <1>1, <1>2, <2>1, <2>3, BecomeKeeps
<1>4. CASE CountPermissions(r)
    <2> DEFINE e == d("permission")
    <2>1. Become(r, e)
        BY <1>4 DEF CountPermissions
    <2>2. e \in DeskRows /\ e.phase = "permission" /\ e.at = 1
        BY BlankFacts DEF DeskRows, Phases
    <2> HIDE DEF e, d
    <2>3. Placed(r, e) /\ Current(r, e)
        BY <1>1, <2>2 DEF Placed, Current
    <2> QED
        BY <1>1, <1>2, <2>1, <2>3, BecomeKeeps
<1> QED
    BY <1>3, <1>4

LEMMA FindNamesKeeps ==
    ASSUME StartUpInv, NEW p \in Actors, FindRole(p) \/ FindPermission(p)
    PROVE  StartUpInv'
<1>1. desk[p] \in DeskRows /\ Placed(p, desk[p])
    BY DEF StartUpInv, DesksOK
<1>2. UNCHANGED <<config, names, stops>>
    BY DEF FindRole, FindPermission
<1>3. CASE FindRole(p)
    <2>1. desk[p].phase = "role"
        BY <1>3 DEF FindRole
    <2>2. CASE desk[p].at \in roles
        <3>1. Become(p, Onward(p, NumRoles, RoleLoop))
            BY <1>3, <2>2 DEF FindRole
        <3> QED
            BY <1>1, <1>2, <2>1, <3>1, OnwardGood, BecomeKeeps
    <2>3. CASE desk[p].at \notin roles
        <3> DEFINE d == [desk[p] EXCEPT !.phase = "newRole"]
        <3>1. Become(p, d)
            BY <1>3, <2>3 DEF FindRole
        <3>2. d \in DeskRows /\ d.phase = "newRole" /\ d.at = desk[p].at
            BY <1>1 DEF DeskRows, Phases
        <3> HIDE DEF d
        <3>3. Placed(p, d) /\ Current(p, d)
            BY <1>1, <2>1, <3>2 DEF Placed, Current
        <3> QED
            BY <1>2, <3>1, <3>3, BecomeKeeps
    <2> QED
        BY <2>2, <2>3
<1>4. CASE FindPermission(p)
    <2>1. desk[p].phase = "permission"
        BY <1>4 DEF FindPermission
    <2>2. CASE desk[p].at \in permissions
        <3>1. Become(p, Onward(p, NumPermissions, PermissionLoop))
            BY <1>4, <2>2 DEF FindPermission
        <3> QED
            BY <1>1, <1>2, <2>1, <3>1, OnwardGood, BecomeKeeps
    <2>3. CASE desk[p].at \notin permissions
        <3> DEFINE d == [desk[p] EXCEPT !.phase = "newPermission"]
        <3>1. Become(p, d)
            BY <1>4, <2>3 DEF FindPermission
        <3>2. d \in DeskRows /\ d.phase = "newPermission" /\ d.at = desk[p].at
            BY <1>1 DEF DeskRows, Phases
        <3> HIDE DEF d
        <3>3. Placed(p, d) /\ Current(p, d)
            BY <1>1, <2>1, <3>2 DEF Placed, Current
        <3> QED
            BY <1>2, <3>1, <3>3, BecomeKeeps
    <2> QED
        BY <2>2, <2>3
<1> QED
    BY <1>3, <1>4

-----------------------------------------------------------------------------
(* Steps that save                                                         *)

\* saveGradingSystem, and the defaults of start-up.
LEMMA SaveLevelKeeps ==
    ASSUME StartUpInv, NEW p \in Actors, SaveLevel(p)
    PROVE  StartUpInv'
<1> SUFFICES ASSUME NEW c, c = desk[p], NEW l, l = c.at
             PROVE  StartUpInv'
    OBVIOUS
<1>1. /\ c \in DeskRows /\ Placed(p, c) /\ Current(p, c) /\ c.phase = "found"
      /\ l \in Levels /\ c.new \in Scales /\ l \in 0..2 /\ l # 0
    BY DEF StartUpInv, DesksOK, SaveLevel, Placed, Levels
<1>2. CASE ~c.there /\ grading[l] # NoRow
    <2>1. Become(p, After(p, "settings")) /\ UNCHANGED <<config, names, stops>>
        BY <1>2 DEF SaveLevel, ScaleToSave
    <2> QED
        BY <2>1, AfterGood, BecomeKeeps
<1>3. CASE ~(~c.there /\ grading[l] # NoRow)
    <2> SUFFICES ASSUME NEW d,
                        d = IF p = Server /\ l = 1
                            THEN [c EXCEPT !.phase = "level", !.at = 2, !.there = FALSE,
                                           !.new = SeededThresholds(2)]
                            ELSE After(p, "settings")
                 PROVE  StartUpInv'
        OBVIOUS
    <2>1. /\ grading' = [grading EXCEPT ![l] = c.new]
          /\ meant' = IF p = Server THEN meant ELSE [meant EXCEPT ![l] = c.new]
          /\ raced' = IF p # Server THEN raced \ {l}
                      ELSE IF l \in c.stale THEN raced \union {l} ELSE raced
          /\ Saved(p, d, l)
          /\ UNCHANGED <<settings, lastSettings, names, stops>>
        BY <1>3 DEF SaveLevel, ScaleToSave
    <2>2. /\ GradingTyped /\ HistoryTyped /\ GradingKept /\ SettingsKept /\ SettingsTyped /\ DesksOK
          /\ NamesTyped /\ stops \in 0..MaxStops
        BY DEF StartUpInv
    <2>3. /\ \A k \in Levels : k # l => grading'[k] = grading[k]
          /\ grading'[l] = c.new /\ c.new # NoRow
        BY <1>1, <2>1, <2>2, ScaleFacts DEF GradingTyped
    <2>4. Placed(p, d)' /\ Current(p, d)'
        <3>1. CASE p = Server /\ l = 1
            <4>1. 2 \in Levels /\ SeededThresholds(2) \in Scales
                BY ScaleFacts DEF Levels
            <4>2. d = [c EXCEPT !.phase = "level", !.at = 2, !.there = FALSE,
                                !.new = SeededThresholds(2)]
                BY <3>1
            <4>3. /\ d \in DeskRows /\ d.phase = "level" /\ d.at = 2
                  /\ d.new = SeededThresholds(2) /\ d.stale = c.stale
                <5>1. c \in DeskRows /\ SeededThresholds(2) \in Scales
                    BY <1>1, <4>1
                <5>2. 2 \in Nat
                    OBVIOUS
                <5> QED
                    BY <4>2, <5>1, <5>2 DEF DeskRows, Phases
            <4>4. Placed(p, d)'
                BY <3>1, <4>1, <4>3 DEF Placed
            <4>5. \A k \in Levels : d.at <= k /\ k \notin d.stale => grading'[k] = NoRow
                BY <3>1, <4>3, <1>1, <2>3 DEF Current, Levels
            <4> QED
                BY <4>3, <4>4, <4>5 DEF Current
        <3>2. CASE ~(p = Server /\ l = 1)
            <4>1. d = After(p, "settings")
                BY <3>2
            <4>2. d.phase \in {"settings", "idle"}
                BY <4>1, AfterPhase
            <4>3. Placed(p, d)
                BY <4>1, AfterGood
            <4>4. Placed(p, d)'
                BY <4>3, <2>1 DEF Placed
            <4> QED
                BY <4>2, <4>4 DEF Current
        <3> QED
            BY <3>1, <3>2
    <2>5. DesksOK'
        <3>1. lastSettings \in Nat /\ lastSettings' \in Nat /\ lastSettings <= lastSettings'
            BY <2>1, <2>2 DEF SettingsTyped
        <3> QED
            BY <1>1, <2>1, <2>2, <2>3, <2>4, <3>1, SavedKeepsDesks
    <2>6. GradingTyped'
        BY <1>1, <2>1, <2>2 DEF GradingTyped
    <2>7. HistoryTyped' /\ meant'[0] = meant[0]
        <3>1. meant' \in [0..2 -> [Fields -> 0..1] \union Scales] /\ meant'[0] = meant[0]
            BY <1>1, <2>1, <2>2 DEF HistoryTyped
        <3>2. raced' \subseteq 0..2
            BY <1>1, <2>1, <2>2 DEF HistoryTyped
        <3> QED
            BY <3>1, <3>2, <2>2 DEF HistoryTyped
    <2>8. (0 \in raced' <=> 0 \in raced)
        BY <1>1, <2>1
    <2>9. SettingsKept'
        BY <2>1, <2>2, <2>7, <2>8 DEF SettingsKept
    <2>10. GradingKept'
        <3>1. ASSUME NEW k \in Levels, k # l
              PROVE  /\ grading'[k] = grading[k] /\ meant'[k] = meant[k]
                     /\ (k \in raced' <=> k \in raced)
            <4>1. k \in 0..2
                BY DEF Levels
            <4>2. meant'[k] = meant[k]
                BY <2>1, <2>2, <3>1, <4>1 DEF HistoryTyped
            <4> QED
                BY <2>1, <2>3, <3>1, <4>2
        <3>2. CASE p # Server
            <4>1. meant'[l] = c.new
                BY <1>1, <2>1, <2>2, <3>2 DEF HistoryTyped
            <4> QED
                BY <2>2, <2>3, <3>1, <4>1 DEF GradingKept
        <3>3. CASE p = Server
            <4>1. c.new = SeededThresholds(l)
                BY <1>1, <3>3 DEF Placed
            <4>2. l \notin raced' => grading[l] = NoRow
                BY <1>1, <2>1, <3>3 DEF Current, Levels
            <4>3. l \notin raced' => grading'[l] = meant'[l]
                BY <1>1, <2>1, <2>2, <2>3, <3>3, <4>1, <4>2 DEF GradingKept
            <4> QED
                BY <2>2, <2>3, <3>1, <4>3 DEF GradingKept
        <3> QED
            BY <3>2, <3>3
    <2>11. SettingsTyped' /\ NamesTyped' /\ (stops \in 0..MaxStops)'
        BY <2>1, <2>2 DEF SettingsTyped, NamesTyped, names
    <2> QED
        BY <2>5, <2>6, <2>7, <2>9, <2>10, <2>11 DEF StartUpInv
<1> QED
    BY <1>2, <1>3

\* Every save of settings leaves the levels alone.
LEMMA SettingsStep ==
    ASSUME StartUpInv, UNCHANGED <<grading, names, stops>>,
           meant'[0] \in [Fields -> 0..1],
           meant' = [meant EXCEPT ![0] = meant'[0]],
           raced' \in {raced, raced \union {0}, raced \ {0}}
    PROVE  /\ GradingTyped' /\ HistoryTyped' /\ NamesTyped' /\ (stops \in 0..MaxStops)'
           /\ GradingKept'
<1>1. GradingTyped /\ HistoryTyped /\ NamesTyped /\ stops \in 0..MaxStops /\ GradingKept
    BY DEF StartUpInv
<1>2. HistoryTyped'
    BY <1>1 DEF HistoryTyped
<1>3. ASSUME NEW l \in Levels
      PROVE  meant'[l] = meant[l] /\ (l \in raced' <=> l \in raced)
    BY <1>1 DEF HistoryTyped, Levels
<1>4. GradingKept'
    BY <1>1, <1>3 DEF GradingKept
<1> QED
    BY <1>1, <1>2, <1>4 DEF GradingTyped, NamesTyped, names

\* resetToDefaults, first half.
LEMMA RemoveSettingsKeeps ==
    ASSUME StartUpInv, NEW r \in Actors, RemoveSettings(r)
    PROVE  StartUpInv'
<1> SUFFICES ASSUME NEW d, d = [Blank EXCEPT !.phase = "resetting"]
             PROVE  StartUpInv'
    OBVIOUS
<1> DEFINE left == {s \in settings : s.id # desk[r].row.id}
<1>1. /\ settings' = left
      /\ meant' = [meant EXCEPT ![0] = Defaults]
      /\ raced' = IF left = {} THEN raced \ {0} ELSE raced \union {0}
      /\ Saved(r, d, 0)
      /\ UNCHANGED <<grading, lastSettings, names, stops>>
    BY DEF RemoveSettings
<1>2. SettingsTyped /\ HistoryTyped /\ DesksOK
    BY DEF StartUpInv
<1>3. d \in DeskRows /\ d.phase = "resetting"
    BY BlankFacts DEF DeskRows, Phases
<1>4. Placed(r, d)' /\ Current(r, d)'
    BY <1>3 DEF Placed, Current
<1>5. meant'[0] = Defaults
    BY <1>1, <1>2 DEF HistoryTyped
<1>6. /\ GradingTyped' /\ HistoryTyped' /\ NamesTyped' /\ (stops \in 0..MaxStops)'
      /\ GradingKept'
    BY <1>1, <1>5, FieldFacts, SettingsStep
<1>7. SettingsTyped'
    BY <1>1, <1>2 DEF SettingsTyped
<1>8. SettingsKept'
    BY <1>1, <1>5 DEF SettingsKept
<1>9. DesksOK'
    <2>1. lastSettings \in Nat /\ lastSettings' \in Nat /\ lastSettings <= lastSettings'
        BY <1>1, <1>2 DEF SettingsTyped
    <2>2. 0 \in 0..2
        OBVIOUS
    <2> QED
        BY <1>1, <1>2, <1>4, <2>1, <2>2, SavedKeepsDesks
<1> QED
    BY <1>6, <1>7, <1>8, <1>9 DEF StartUpInv

\* A row of defaults, by getSettings, updateSettings or resetToDefaults.
LEMMA CreateDefaultKeeps ==
    ASSUME StartUpInv, NEW p \in Actors, CreateDefault(p)
    PROVE  StartUpInv'
<1> SUFFICES ASSUME NEW c, c = desk[p], NEW id, id = lastSettings + 1, NEW row,
                    row = [id |-> id, value |-> Defaults], NEW d,
                    d = IF c.phase = "first"
                        THEN [c EXCEPT !.phase = "updating", !.row.id = id]
                        ELSE After(p, "role")
             PROVE  StartUpInv'
    OBVIOUS
<1>1. /\ c.phase \in {"creating", "first", "resetting"}
      /\ settings' = settings \union {row} /\ lastSettings' = id
      /\ IF c.phase = "resetting"
         THEN meant' = [meant EXCEPT ![0] = Defaults] /\ raced' = raced \ {0}
         ELSE raced' = (IF 0 \in c.stale THEN raced \union {0} ELSE raced) /\ meant' = meant
      /\ Saved(p, d, 0)
      /\ UNCHANGED <<grading, names, stops>>
    BY DEF CreateDefault
<1>2. SettingsTyped /\ HistoryTyped /\ DesksOK /\ SettingsKept
    BY DEF StartUpInv
<1>3. c \in DeskRows /\ Placed(p, c) /\ Current(p, c)
    BY <1>2 DEF DesksOK
<1>4. id \in Nat /\ lastSettings \in Nat /\ id = lastSettings + 1
    BY <1>2 DEF SettingsTyped
<1>5. row \in Rows /\ row.id = id /\ row.value = Defaults
    BY <1>4, FieldFacts DEF Rows
<1>6. SettingsTyped'
    <2>1. settings' \subseteq Rows /\ lastSettings' \in Nat
        BY <1>1, <1>2, <1>4, <1>5 DEF SettingsTyped
    <2>2. \A s \in settings : s.id \in 1..lastSettings
        BY <1>2 DEF SettingsTyped
    <2>3. \A s \in settings' : s.id \in 1..id
        BY <1>1, <1>4, <1>5, <2>2
    <2>4. \A s \in settings : s.id # row.id
        BY <1>4, <1>5, <2>2
    <2>5. \A s, t \in settings' : s.id = t.id => s = t
        BY <1>1, <1>2, <2>4 DEF SettingsTyped
    <2> QED
        BY <1>1, <2>1, <2>3, <2>5 DEF SettingsTyped
<1>7. \A t \in settings' : t.id <= row.id
    BY <1>1, <1>4, <1>5, <1>6 DEF SettingsTyped
<1>8. \A s \in settings' : (\A t \in settings' : t.id <= s.id) => s = row
    <2>1. row \in settings'
        BY <1>1
    <2>2. ASSUME NEW s \in settings', \A t \in settings' : t.id <= s.id
          PROVE  s.id = row.id
        BY <2>1, <2>2, <1>7, <1>5, <1>6 DEF SettingsTyped
    <2> QED
        BY <2>1, <2>2, <1>6 DEF SettingsTyped
<1>9. /\ meant' = [meant EXCEPT ![0] = meant'[0]] /\ meant'[0] \in [Fields -> 0..1]
      /\ raced' \in {raced, raced \union {0}, raced \ {0}}
      /\ c.phase = "resetting" => meant'[0] = Defaults
    <2>1. CASE c.phase = "resetting"
        BY <1>1, <1>2, <2>1, FieldFacts DEF HistoryTyped
    <2>2. CASE c.phase # "resetting"
        BY <1>1, <1>2, <2>2 DEF HistoryTyped
    <2> QED
        BY <2>1, <2>2
<1>10. /\ GradingTyped' /\ HistoryTyped' /\ NamesTyped' /\ (stops \in 0..MaxStops)'
       /\ GradingKept'
    BY <1>1, <1>9, SettingsStep
<1>11. SettingsKept'
    <2>1. ASSUME 0 \notin raced'
          PROVE  meant'[0] = Defaults
        <3>1. CASE c.phase = "resetting"
            BY <1>9, <3>1
        <3>2. CASE c.phase # "resetting"
            <4>1. 0 \notin c.stale /\ 0 \notin raced /\ meant' = meant
                BY <1>1, <2>1, <3>2
            <4>2. settings = {}
                BY <1>1, <1>3, <3>2, <4>1 DEF Current
            <4> QED
                BY <1>2, <4>1, <4>2 DEF SettingsKept
        <3> QED
            BY <3>1, <3>2
    <2>2. settings' # {}
        BY <1>1
    <2> QED
        BY <2>1, <2>2, <1>5, <1>8 DEF SettingsKept
<1>12. Placed(p, d)' /\ Current(p, d)'
    <2>1. CASE c.phase = "first"
        <3>1. d = [c EXCEPT !.phase = "updating", !.row = [c.row EXCEPT !.id = id]]
            BY <2>1
        <3>2. c.at \in Fields /\ c.row.value = [Defaults EXCEPT ![c.at] = 1] /\ c.row \in Rows
            BY <1>3, <2>1 DEF Placed, DeskRows
        <3>3. /\ [c.row EXCEPT !.id = id] \in Rows
              /\ [c.row EXCEPT !.id = id].id = id /\ [c.row EXCEPT !.id = id].value = c.row.value
            BY <3>2, <1>4 DEF Rows
        <3>4. /\ d \in DeskRows /\ d.phase = "updating" /\ d.at = c.at
              /\ d.row.id = id /\ d.row.value = c.row.value
            BY <1>3, <3>1, <3>3 DEF DeskRows, Phases
        <3>5. Placed(p, d)'
            BY <1>1, <1>4, <3>2, <3>4 DEF Placed
        <3>6. row \in settings'
            BY <1>1
        <3>7. d.row.value = [row.value EXCEPT ![d.at] = 1]
            BY <3>2, <3>4, <1>5
        <3> QED
            BY <3>4, <3>5, <3>6, <3>7, <1>5, <1>7 DEF Current
    <2>2. CASE c.phase # "first"
        <3>1. d = After(p, "role")
            BY <2>2
        <3>2. d.phase \in {"role", "idle"}
            BY <3>1, AfterPhase
        <3>3. Placed(p, d)
            BY <3>1, AfterGood
        <3>4. Placed(p, d)'
            BY <3>2, <3>3 DEF Placed
        <3> QED
            BY <3>2, <3>4 DEF Current
    <2> QED
        BY <2>1, <2>2
<1>13. DesksOK'
    <2>1. lastSettings' \in Nat /\ lastSettings <= lastSettings'
        BY <1>1, <1>4
    <2>2. \A l \in Levels : l # 0 => grading'[l] = grading[l]
        BY <1>1
    <2>3. 0 \in 0..2
        OBVIOUS
    <2> QED
        BY <1>1, <1>2, <1>4, <1>12, <2>1, <2>2, <2>3, SavedKeepsDesks
<1> QED
    BY <1>6, <1>10, <1>11, <1>13 DEF StartUpInv

\* save() of updateSettings.
LEMMA SaveSettingsKeeps ==
    ASSUME StartUpInv, NEW r \in Actors, SaveSettings(r)
    PROVE  StartUpInv'
<1> SUFFICES ASSUME NEW d, d = desk[r], NEW b, b = Blank
             PROVE  StartUpInv'
    OBVIOUS
<1>1. /\ d.phase = "updating"
      /\ settings' = {s \in settings : s.id # d.row.id} \union {d.row}
      /\ meant' = [meant EXCEPT ![0][d.at] = 1]
      /\ raced' = IF 0 \in d.stale THEN raced \union {0} ELSE raced
      /\ Saved(r, b, 0)
      /\ UNCHANGED <<grading, lastSettings, names, stops>>
    BY DEF SaveSettings
<1>2. SettingsTyped /\ HistoryTyped /\ DesksOK /\ SettingsKept
    BY DEF StartUpInv
<1>3. d \in DeskRows /\ Placed(r, d) /\ Current(r, d)
    BY <1>2 DEF DesksOK
<1>4. d.row \in Rows /\ d.row.id \in 1..lastSettings /\ d.at \in Fields
    BY <1>1, <1>3 DEF DeskRows, Placed
<1>5. SettingsTyped'
    BY <1>1, <1>2, <1>4 DEF SettingsTyped
<1>6. /\ meant'[0] = [meant[0] EXCEPT ![d.at] = 1] /\ meant'[0] \in [Fields -> 0..1]
      /\ meant' = [meant EXCEPT ![0] = meant'[0]]
    BY <1>1, <1>2, <1>4 DEF HistoryTyped
<1>7. /\ GradingTyped' /\ HistoryTyped' /\ NamesTyped' /\ (stops \in 0..MaxStops)'
      /\ GradingKept'
    BY <1>1, <1>6, SettingsStep
<1>8. SettingsKept'
    <2>1. SUFFICES ASSUME 0 \notin raced', NEW s \in settings', \A t \in settings' : t.id <= s.id
                   PROVE  s.value = meant'[0]
        BY <1>1 DEF SettingsKept
    <2>2. 0 \notin d.stale /\ 0 \notin raced
        BY <1>1, <2>1
    <2>3. PICK n \in settings :
             /\ \A t \in settings : t.id <= n.id
             /\ d.row.id = n.id /\ d.row.value = [n.value EXCEPT ![d.at] = 1]
        BY <1>1, <1>3, <2>2 DEF Current
    <2>4. n.value = meant[0]
        BY <1>2, <2>2, <2>3 DEF SettingsKept
    <2>5. \A t \in settings' : t.id <= d.row.id
        BY <1>1, <1>4, <2>3
    <2>6. s.id = d.row.id
        BY <1>1, <1>5, <2>1, <2>5 DEF SettingsTyped
    <2>7. s = d.row
        BY <1>1, <2>6
    <2> QED
        BY <1>6, <2>3, <2>4, <2>7
<1>9. Placed(r, b)' /\ Current(r, b)'
    BY BlankFacts DEF Placed, Current
<1>10. DesksOK'
    <2>1. lastSettings \in Nat /\ lastSettings' \in Nat /\ lastSettings <= lastSettings'
        BY <1>1, <1>2 DEF SettingsTyped
    <2>2. 0 \in 0..2
        OBVIOUS
    <2> QED
        BY <1>1, <1>2, <1>9, <2>1, <2>2, SavedKeepsDesks
<1> QED
    BY <1>5, <1>7, <1>8, <1>10 DEF StartUpInv

-----------------------------------------------------------------------------
(* Names, and restarts                                                     *)

\* A step on the names leaves the configuration and what rests on it alone.
LEMMA NamesStep ==
    ASSUME StartUpInv, UNCHANGED <<config, stops>>, NamesTyped', DesksOK'
    PROVE  StartUpInv'
BY DEF StartUpInv, config, SettingsTyped, GradingTyped, HistoryTyped, GradingKept, SettingsKept

LEMMA SameDesks ==
    ASSUME StartUpInv, UNCHANGED <<config, desk>>
    PROVE  DesksOK'
BY DEF StartUpInv, DesksOK, Placed, Current, config

LEMMA InsertRoleKeeps ==
    ASSUME StartUpInv, NEW p \in Actors, InsertRole(p)
    PROVE  StartUpInv'
<1> SUFFICES ASSUME NEW n, n = desk[p].at, NEW d,
                    d = IF n \in roles THEN After(p, "up") ELSE Onward(p, NumRoles, RoleLoop)
             PROVE  StartUpInv'
    OBVIOUS
<1>1. /\ desk[p].phase = "newRole" /\ roles' = roles \union {n} /\ Become(p, d)
      /\ cutShort' = (cutShort \/ (p = Server /\ n \in roles))
      /\ UNCHANGED <<config, own, permissions, taken, struck, clash, stops>>
    BY DEF InsertRole
<1>2. DesksOK /\ NamesTyped /\ Placed(p, desk[p])
    BY DEF StartUpInv, DesksOK
<1>3. n \in 1..NumRoles
    BY <1>1, <1>2 DEF Placed
<1>4. Placed(p, d) /\ Current(p, d)
    BY <1>1, <1>2, AfterGood, OnwardGood
<1>5. DesksOK'
    BY <1>1, <1>2, <1>4, BecomeKeepsDesks DEF config
<1>6. roles' \subseteq 0..NumRoles /\ own' \subseteq roles'
    <2>1. n \in 0..NumRoles
        BY <1>3
    <2>2. own' = own /\ own \subseteq roles /\ roles \subseteq 0..NumRoles
        BY <1>1, <1>2 DEF NamesTyped
    <2> QED
        BY <1>1, <2>1, <2>2
<1>7. cutShort' \in BOOLEAN
    BY <1>1
<1>8. NamesTyped'
    BY <1>1, <1>2, <1>6, <1>7 DEF NamesTyped
<1> QED
    BY <1>1, <1>5, <1>8, NamesStep

LEMMA InsertPermissionKeeps ==
    ASSUME StartUpInv, NEW p \in Actors, InsertPermission(p)
    PROVE  StartUpInv'
<1> SUFFICES ASSUME NEW n, n = desk[p].at, NEW d,
                    d = IF n \in permissions THEN After(p, "up")
                        ELSE Onward(p, NumPermissions, PermissionLoop)
             PROVE  StartUpInv'
    OBVIOUS
<1>1. /\ desk[p].phase = "newPermission" /\ permissions' = permissions \union {n} /\ Become(p, d)
      /\ UNCHANGED <<config, roles, own, taken, struck, clash, cutShort, stops>>
    BY DEF InsertPermission
<1>2. DesksOK /\ NamesTyped /\ Placed(p, desk[p])
    BY DEF StartUpInv, DesksOK
<1>3. n \in 1..NumPermissions
    BY <1>1, <1>2 DEF Placed
<1>4. Placed(p, d) /\ Current(p, d)
    BY <1>1, <1>2, AfterGood, OnwardGood
<1>5. DesksOK'
    BY <1>1, <1>2, <1>4, BecomeKeepsDesks DEF config
<1>6. NamesTyped'
    BY <1>1, <1>2, <1>3 DEF NamesTyped
<1> QED
    BY <1>1, <1>5, <1>6, NamesStep

\* createRole, deleteRole, createPermission, deletePermission.
LEMMA AdministratorKeeps ==
    ASSUME StartUpInv,
           \/ \E n \in 0..NumRoles : CreateRole(n) \/ DeleteRole(n)
           \/ \E n \in 1..NumPermissions : CreatePermission(n) \/ DeletePermission(n)
    PROVE  StartUpInv'
<1>1. UNCHANGED <<config, stops, desk>>
    BY DEF CreateRole, DeleteRole, CreatePermission, DeletePermission
<1>2. NamesTyped
    BY DEF StartUpInv
<1>3. NamesTyped'
    <2>1. ASSUME NEW n \in 0..NumRoles, CreateRole(n)
          PROVE  NamesTyped'
        <3>1. clash' \in BOOLEAN
            BY <2>1 DEF CreateRole
        <3> QED
            BY <2>1, <3>1, <1>2 DEF CreateRole, NamesTyped
    <2>2. ASSUME NEW n \in 0..NumRoles, DeleteRole(n)
          PROVE  NamesTyped'
        BY <2>2, <1>2 DEF DeleteRole, NamesTyped
    <2>3. ASSUME NEW n \in 1..NumPermissions, CreatePermission(n)
          PROVE  NamesTyped'
        <3>1. clash' \in BOOLEAN
            BY <2>3 DEF CreatePermission
        <3> QED
            BY <2>3, <3>1, <1>2 DEF CreatePermission, NamesTyped
    <2>4. ASSUME NEW n \in 1..NumPermissions, DeletePermission(n)
          PROVE  NamesTyped'
        BY <2>4, <1>2 DEF DeletePermission, NamesTyped
    <2> QED
        BY <2>1, <2>2, <2>3, <2>4
<1> QED
    BY <1>1, <1>3, SameDesks, NamesStep

\* The desks of a server that has just started.
LEMMA StartedGood ==
    ASSUME NEW q \in Actors, NEW d, d = Started[q]
    PROVE  d \in DeskRows /\ Placed(q, d) /\ Current(q, d)
<1>1. d = IF q = Server THEN [Blank EXCEPT !.phase = "grading"] ELSE Blank
    BY DEF Started
<1>2. d \in DeskRows /\ d.phase = IF q = Server THEN "grading" ELSE "idle"
    BY <1>1, BlankFacts DEF DeskRows, Phases
<1> QED
    BY <1>2 DEF Placed, Current

LEMMA StopKeeps ==
    ASSUME StartUpInv, Stop
    PROVE  StartUpInv'
<1>1. /\ stops < MaxStops /\ stops' = stops + 1 /\ desk' = Started /\ cutShort' = FALSE
      /\ UNCHANGED <<config, roles, own, permissions, taken, struck, clash>>
    BY DEF Stop
<1>2. NamesTyped'
    BY <1>1 DEF StartUpInv, NamesTyped
<1>3. ASSUME NEW q \in Actors, NEW x, x = desk'[q]
      PROVE  x \in DeskRows /\ Placed(q, x)' /\ Current(q, x)'
    <2>1. x \in DeskRows /\ Placed(q, x) /\ Current(q, x)
        BY <1>1, <1>3, StartedGood
    <2> QED
        BY <2>1, <1>1 DEF Placed, Current, config
<1>4. DesksOK'
    <2>1. desk' \in [Actors -> DeskRows]
        BY <1>1, <1>3 DEF Started
    <2>2. ASSUME NEW q \in Actors
          PROVE  (Placed(q, desk[q]) /\ Current(q, desk[q]))'
        <3>1. SUFFICES ASSUME NEW x, x = desk'[q]
                       PROVE  Placed(q, x)' /\ Current(q, x)'
            BY DEF Placed, Current
        <3> QED
            BY <3>1, <1>3
    <2> QED
        BY <2>1, <2>2 DEF DesksOK
<1>5. (stops \in 0..MaxStops)'
    BY <1>1, NumAssumption DEF StartUpInv
<1> QED
    BY <1>1, <1>2, <1>4, <1>5 DEF StartUpInv, config, SettingsTyped, GradingTyped, HistoryTyped,
       GradingKept, SettingsKept

LEMMA StartUpInit == Init => StartUpInv
<1> SUFFICES ASSUME Init
             PROVE  StartUpInv
    OBVIOUS
<1>1. SettingsTyped /\ GradingTyped
    BY DEF Init, SettingsTyped, GradingTyped
<1>2. \A k \in 0..2 : meant[k] = IF k = 0 THEN Defaults ELSE SeededThresholds(k)
    BY DEF Init
<1>3. HistoryTyped
    <2>1. meant \in [0..2 -> [Fields -> 0..1] \union Scales]
        BY FieldFacts, ScaleFacts DEF Init, Levels
    <2> QED
        BY <2>1, <1>2, FieldFacts DEF Init, HistoryTyped
<1>4. NamesTyped
    BY DEF Init, NamesTyped
<1>5. GradingKept
    BY <1>2 DEF Init, GradingKept, Levels
<1>6. SettingsKept
    BY <1>2 DEF Init, SettingsKept
<1>7. DesksOK
    <2>1. ASSUME NEW q \in Actors
          PROVE  desk[q] \in DeskRows /\ Placed(q, desk[q]) /\ Current(q, desk[q])
        BY StartedGood DEF Init
    <2>2. desk = [q \in Actors |-> desk[q]]
        BY DEF Init, Started
    <2> QED
        BY <2>1, <2>2 DEF DesksOK
<1>8. stops \in 0..MaxStops
    BY NumAssumption DEF Init
<1> QED
    BY <1>1, <1>3, <1>4, <1>5, <1>6, <1>7, <1>8 DEF StartUpInv

LEMMA StartUpNext == StartUpInv /\ [Next]_vars => StartUpInv'
<1> SUFFICES ASSUME StartUpInv, [Next]_vars
             PROVE  StartUpInv'
    OBVIOUS
<1>1. ASSUME NEW p \in Actors, Proceed(p)
      PROVE  StartUpInv'
    BY <1>1, CountGradingKeeps, FindLevelKeeps, SaveLevelKeeps, FindSettingsKeeps,
       CreateDefaultKeeps, RemoveSettingsKeeps, SaveSettingsKeeps, FindNamesKeeps,
       InsertRoleKeeps, InsertPermissionKeeps DEF Proceed
<1>2. ASSUME NEW r \in Requests, Ask(r)
      PROVE  StartUpInv'
    <2>1. r \in Actors
        BY DEF Actors
    <2> QED
        BY <1>2, <2>1, EditGradingKeeps, FindSettingsKeeps, LoadSettingsKeeps, LoadToResetKeeps,
           CountNamesKeeps DEF Ask
<1>3. ASSUME UNCHANGED vars
      PROVE  StartUpInv'
    <2>1. UNCHANGED <<config, stops, desk>> /\ UNCHANGED names
        BY <1>3 DEF vars
    <2>2. NamesTyped'
        BY <2>1 DEF StartUpInv, NamesTyped, names
    <2> QED
        BY <2>1, <2>2, SameDesks, NamesStep
<1> QED
    BY <1>1, <1>2, <1>3, AdministratorKeeps, StopKeeps DEF Next

LEMMA StartUpAlways == Spec => []StartUpInv
BY StartUpInit, StartUpNext, PTL DEF Spec

\* Whatever the requests, the administrators and the restarts do, every row and every step
\* under way is one the code can handle: levels and places inside their lists, columns that
\* exist, one settings row to a number.
THEOREM StartUpTypeCorrect == Spec => []TypeOK
<1>1. StartUpInv => TypeOK
    BY DEF StartUpInv, TypeOK, SettingsTyped, GradingTyped, HistoryTyped, NamesTyped, DesksOK,
       Placed, DeskRows
<1> QED
    BY <1>1, StartUpAlways, PTL

\* The scale computeGrade falls back on agrees with the default rows on every mark.
LEMMA FallbackIsSeeded ==
    ASSUME NEW l \in Levels
    PROVE  FallbackAgrees[l]
BY DEF Levels, FallbackAgrees, Fallback, SeededThresholds

\* saveGradingSystem, updateSettings and resetToDefaults against start-up and against each
\* other, with any number of requests and restarts: the grades and the settings in force are
\* the ones saved last, or the defaults, unless a step wrote that had read before that save.
THEOREM StartUpKeepsConfiguration == Spec => []ConfigurationLostOnlyByOverlap
<1>1. StartUpInv => ConfigurationLostOnlyByOverlap
    <2> SUFFICES ASSUME StartUpInv
                 PROVE  ConfigurationLostOnlyByOverlap
        OBVIOUS
    <2>1. SettingsTyped /\ GradingKept /\ SettingsKept
        BY DEF StartUpInv
    <2>2. \A l \in Levels : l \notin raced =>
             \/ grading[l] = meant[l]
             \/ grading[l] = NoRow /\ meant[l] = SeededThresholds(l) /\ FallbackAgrees[l]
        BY <2>1, FallbackIsSeeded DEF GradingKept
    <2>3. 0 \notin raced => InForce = meant[0]
        BY <2>1, NewestIsRow DEF SettingsKept, InForce
    <2> QED
        BY <2>2, <2>3 DEF ConfigurationLostOnlyByOverlap
<1> QED
    BY <1>1, StartUpAlways, PTL

-----------------------------------------------------------------------------
(* The registers: tables                                                   *)

\* A table has distinct ids without gaps.
Table(t) == IsFiniteSet(t) /\ Numbered(t) /\ \A m, n \in t : m.id = n.id => m = n

Others(t, id) == {m \in t : m.id # id}

\* A row saved under its own or the next id leaves such a table.
LEMMA SaveRow ==
    ASSUME NEW t, Table(t), NEW row, row.id = NextId(t) \/ \E m \in t : m.id = row.id
    PROVE  Table(Others(t, row.id) \union {row})
<1> DEFINE id == row.id
           rest == Others(t, id)
           u == rest \union {row}
           n == Cardinality(t)
<1>1. /\ IsFiniteSet(t) /\ n \in Nat /\ (\A m \in t : m.id \in 1..n)
      /\ (\A i \in 1..n : \E m \in t : m.id = i)
      /\ \A m, k \in t : m.id = k.id => m = k
    <2>1. {m.id : m \in t} = 1..n
        BY DEF Table, Numbered
    <2> QED
        BY <2>1, FS_CardinalityType DEF Table
<1>2. \A m, k \in u : m.id = k.id => m = k
    BY <1>1 DEF Others
<1>3. row \notin rest /\ rest \in SUBSET t
    BY DEF Others
<1>4. IsFiniteSet(rest) /\ IsFiniteSet(u) /\ Cardinality(u) = Cardinality(rest) + 1
    <2>1. IsFiniteSet(rest)
        BY <1>1, <1>3, FS_Subset
    <2> HIDE DEF rest
    <2> QED
        BY <1>3, <2>1, FS_AddElement
<1>5. CASE id = NextId(t)
    <2>1. id = n + 1
        BY <1>5 DEF NextId
    <2> HIDE DEF id
    <2>2. rest = t
        BY <1>1, <2>1 DEF Others
    <2>3. Cardinality(u) = n + 1
        BY <1>4, <2>2
    <2>4. {m.id : m \in u} = 1..(n + 1)
        <3>1. \A m \in u : m.id \in 1..(n + 1)
            BY <1>1, <2>1, <2>2 DEF id
        <3>2. \A i \in 1..(n + 1) : \E m \in u : m.id = i
            <4> SUFFICES ASSUME NEW i \in 1..(n + 1) PROVE \E m \in u : m.id = i
                OBVIOUS
            <4>1. CASE i \in 1..n
                BY <1>1, <2>2, <4>1
            <4>2. CASE i = n + 1
                BY <2>1, <4>2 DEF id
            <4> QED
                BY <1>1, <4>1, <4>2
        <3> HIDE DEF u
        <3> QED
            BY <3>1, <3>2
    <2> QED
        BY <1>2, <1>4, <2>3, <2>4 DEF Table, Numbered, id
<1>6. CASE \E m \in t : m.id = id
    <2>1. PICK m \in t : m.id = id
        BY <1>6
    <2>2. rest = t \ {m}
        BY <1>1, <2>1 DEF Others
    <2>3. Cardinality(u) = n
        <3>1. Cardinality(rest) = n - 1
            BY <1>1, <2>1, <2>2, FS_RemoveElement
        <3> QED
            BY <1>1, <1>4, <3>1
    <2>4. {k.id : k \in u} = 1..n
        <3>1. \A k \in u : k.id \in 1..n
            BY <1>1, <2>1, <2>2
        <3>2. \A i \in 1..n : \E k \in u : k.id = i
            <4> SUFFICES ASSUME NEW i \in 1..n PROVE \E k \in u : k.id = i
                OBVIOUS
            <4>1. PICK k \in t : k.id = i
                BY <1>1
            <4>2. CASE k = m
                BY <2>1, <4>1, <4>2
            <4>3. CASE k # m
                BY <2>2, <4>1, <4>3
            <4> QED
                BY <4>2, <4>3
        <3> HIDE DEF u
        <3> QED
            BY <3>1, <3>2
    <2> QED
        BY <1>2, <1>4, <2>3, <2>4 DEF Table, Numbered
<1> QED
    BY <1>5, <1>6

\* Ids of such a table are neither the mark for `no row' nor the next id.
LEMMA IdsOf ==
    ASSUME NEW t, Table(t)
    PROVE  /\ \A m \in t : m.id \in Nat /\ m.id # NotFound /\ m.id # NextId(t)
           /\ NextId(t) \in Nat /\ NextId(t) # NotFound
<1>1. Cardinality(t) \in Nat /\ {m.id : m \in t} = 1..Cardinality(t)
    BY FS_CardinalityType DEF Table, Numbered
<1>2. \A m \in t : m.id \in 1..Cardinality(t)
    BY <1>1
<1> QED
    BY <1>1, <1>2 DEF NextId, NotFound

-----------------------------------------------------------------------------
(* The registers: the invariant                                            *)

MarkRows == [id : Nat, student : Pupils, day : Days, present : BOOLEAN]
EntryRows == [id : Nat, student : Pupils, topic : Topics,
              subject : Subjects \union {NoSubject}, score : Scores]
Works == {Idle} \union Marking \union Assessing

Shape ==
    /\ enrolled \subseteq Pupils
    /\ attendance \subseteq MarkRows /\ assessments \subseteq EntryRows
    /\ Table(attendance) /\ Table(assessments)
    /\ work \in [Calls -> Works]
    /\ doubled \subseteq Keys
    /\ DOMAIN entered = Keys /\ entered = [k \in Keys |-> entered[k]]

IsMark(m, s, d) == m.student = s /\ m.day = d
IsEntry(e, s, t) == e.student = s /\ e.topic = t

\* A request that found a row will save that; one that did not will save the first, or
\* has missed it.
MarkingOK(d) ==
    d.phase = "marking" =>
        IF d.found = NotFound THEN d.missed \/ \A m \in attendance : ~IsMark(m, d.key[1], d.key[2])
        ELSE \E m \in attendance : m.id = d.found /\ IsMark(m, d.key[1], d.key[2])

AssessingOK(d) ==
    d.phase = "assessing" =>
        IF d.found = NotFound THEN d.missed \/ \A e \in assessments : ~IsEntry(e, d.key[1], d.key[2])
        ELSE \E e \in assessments : e.id = d.found /\ IsEntry(e, d.key[1], d.key[2])

\* A key nobody has doubled for has one row, which holds what was entered last, or none.
SheetOK ==
    \A s \in Pupils, d \in Days : <<s, d>> \notin doubled =>
        /\ \A m, n \in attendance : IsMark(m, s, d) /\ IsMark(n, s, d) => m = n
        /\ \A m \in attendance : IsMark(m, s, d) => entered[<<s, d>>] = <<m.present>>
        /\ (\A m \in attendance : ~IsMark(m, s, d)) => entered[<<s, d>>] = Nothing

RosterOK ==
    \A s \in Pupils, t \in Topics : <<s, t>> \notin doubled =>
        /\ \A e, f \in assessments : IsEntry(e, s, t) /\ IsEntry(f, s, t) => e = f
        /\ \A e \in assessments : IsEntry(e, s, t) => entered[<<s, t>>] = <<e.subject, e.score>>
        /\ (\A e \in assessments : ~IsEntry(e, s, t)) => entered[<<s, t>>] = Nothing

RInv ==
    /\ Shape /\ SheetOK /\ RosterOK
    /\ \A r \in Calls : MarkingOK(work[r]) /\ AssessingOK(work[r])

-----------------------------------------------------------------------------
(* The registers: steps                                                    *)

\* Both tables are empty at the beginning of a term.
LEMMA RInvInit == RegInit => RInv
<1> SUFFICES ASSUME RegInit PROVE RInv
    OBVIOUS
<1>1. Table({})
    <2>1. IsFiniteSet({}) /\ Cardinality({}) = 0
        BY FS_EmptySet
    <2> QED
        BY <2>1 DEF Table, Numbered
<1>2. Shape
    BY <1>1 DEF RegInit, Shape, Works
<1>3. SheetOK /\ RosterOK
    <2>1. \A s \in Pupils, d \in Days \union Topics : entered[<<s, d>>] = Nothing
        BY DEF RegInit, Keys, Slots
    <2> QED
        BY <2>1 DEF RegInit, SheetOK, RosterOK
<1>4. \A r \in Calls : MarkingOK(work[r]) /\ AssessingOK(work[r])
    BY DEF RegInit, MarkingOK, AssessingOK, Idle
<1> QED
    BY <1>2, <1>3, <1>4 DEF RInv

\* A search leaves the tables as they are.
LEMMA RSearch ==
    ASSUME RInv, NEW r \in Calls, NEW d \in Works, MarkingOK(d), AssessingOK(d),
           work' = [work EXCEPT ![r] = d],
           UNCHANGED <<enrolled, attendance, assessments, entered, doubled>>
    PROVE  RInv'
<1>1. /\ work \in [Calls -> Works] /\ enrolled' = enrolled /\ attendance' = attendance
      /\ assessments' = assessments /\ entered' = entered /\ doubled' = doubled
    BY DEF RInv, Shape
<1>2. work' \in [Calls -> Works] /\ \A q \in Calls : work'[q] = d \/ work'[q] = work[q]
    BY <1>1
<1>3. Shape'
    BY <1>1, <1>2 DEF RInv, Shape
<1>4. SheetOK' /\ RosterOK'
    BY <1>1 DEF RInv, SheetOK, RosterOK
<1>5. ASSUME NEW q \in Calls
      PROVE  MarkingOK(work[q])' /\ AssessingOK(work[q])'
    <2>1. MarkingOK(work'[q]) /\ AssessingOK(work'[q])
        BY <1>2 DEF RInv
    <2> QED
        BY <1>1, <2>1 DEF MarkingOK, AssessingOK
<1> QED
    BY <1>3, <1>4, <1>5 DEF RInv

\* Marking attendance looks for the pupil's row of the day.
LEMMA RFindMarked ==
    ASSUME RInv, NEW r \in Calls, NEW s \in Pupils, NEW d \in Days, NEW present \in BOOLEAN,
           FindMarked(r, s, d, present)
    PROVE  RInv'
<1>1. PICK found \in IF MarksOf(s, d) = {} THEN {NotFound} ELSE {m.id : m \in MarksOf(s, d)} :
          work' = [work EXCEPT ![r] = [phase |-> "marking", key |-> <<s, d>>, found |-> found,
                                       present |-> present, missed |-> FALSE]]
    BY DEF FindMarked
<1> DEFINE w == [phase |-> "marking", key |-> <<s, d>>, found |-> found,
                 present |-> present, missed |-> FALSE]
<1>2. \A m \in attendance : m.id \in Nat /\ m.id # NotFound
    BY IdsOf DEF RInv, Shape
<1>3. IF found = NotFound THEN \A m \in attendance : ~IsMark(m, s, d)
      ELSE \E m \in attendance : m.id = found /\ IsMark(m, s, d)
    BY <1>2 DEF MarksOf, IsMark
<1>4. found \in Nat
    BY <1>2 DEF MarksOf, NotFound
<1>5. /\ w \in Works /\ w.phase = "marking" /\ w.found = found
      /\ w.key[1] = s /\ w.key[2] = d
    BY <1>4 DEF Works, Marking
<1>6. work' = [work EXCEPT ![r] = w]
    BY <1>1
<1> HIDE DEF w
<1>7. MarkingOK(w) /\ AssessingOK(w)
    BY <1>3, <1>5 DEF MarkingOK, AssessingOK
<1> QED
    BY <1>5, <1>6, <1>7, RSearch DEF FindMarked

\* Entering an assessment looks for the row of pupil and topic.
LEMMA RFindAssessment ==
    ASSUME RInv, NEW r \in Calls, NEW s \in Pupils, NEW t \in Topics,
           NEW subject \in Subjects \union {NoSubject}, NEW score \in Scores,
           FindAssessment(r, s, t, subject, score)
    PROVE  RInv'
<1>1. PICK found \in IF EntriesOf(s, t) = {} THEN {NotFound} ELSE {e.id : e \in EntriesOf(s, t)} :
          work' = [work EXCEPT ![r] = [phase |-> "assessing", key |-> <<s, t>>, found |-> found,
                                       subject |-> subject, score |-> score, missed |-> FALSE]]
    BY DEF FindAssessment
<1> DEFINE w == [phase |-> "assessing", key |-> <<s, t>>, found |-> found,
                 subject |-> subject, score |-> score, missed |-> FALSE]
<1>2. \A e \in assessments : e.id \in Nat /\ e.id # NotFound
    BY IdsOf DEF RInv, Shape
<1>3. IF found = NotFound THEN \A e \in assessments : ~IsEntry(e, s, t)
      ELSE \E e \in assessments : e.id = found /\ IsEntry(e, s, t)
    BY <1>2 DEF EntriesOf, IsEntry
<1>4. found \in Nat
    BY <1>2 DEF EntriesOf, NotFound
<1>5. /\ w \in Works /\ w.phase = "assessing" /\ w.found = found
      /\ w.key[1] = s /\ w.key[2] = t
    BY <1>4 DEF Works, Assessing
<1>6. work' = [work EXCEPT ![r] = w]
    BY <1>1
<1> HIDE DEF w
<1>7. MarkingOK(w) /\ AssessingOK(w)
    BY <1>3, <1>5 DEF MarkingOK, AssessingOK
<1> QED
    BY <1>5, <1>6, <1>7, RSearch DEF FindAssessment

\* After a save whoever was about to insert the same has missed a row.
LEMMA RInserted ==
    ASSUME Shape, NEW r \in Calls, NEW k, Inserted(r, k)
    PROVE  /\ work' \in [Calls -> Works]
           /\ \A q \in Calls :
                 \/ work'[q] = Idle
                 \/ /\ work'[q].phase = work[q].phase /\ work'[q].key = work[q].key
                    /\ work'[q].found = work[q].found
                    /\ work[q].missed => work'[q].missed
                    /\ work[q].phase # "idle" /\ work[q].key = k /\ work[q].found = NotFound
                          => work'[q].missed
<1> DEFINE hit(q) == work[q].phase # "idle" /\ work[q].key = k /\ work[q].found = NotFound
           told(q) == [work[q] EXCEPT !.missed = TRUE]
<1>1. ASSUME NEW q \in Calls, hit(q)
      PROVE  /\ told(q) \in Works /\ told(q).phase = work[q].phase /\ told(q).key = work[q].key
             /\ told(q).found = work[q].found /\ told(q).missed = TRUE
    <2>1. work[q] \in Marking \/ work[q] \in Assessing
        BY <1>1 DEF Shape, Works, Idle
    <2>2. CASE work[q] \in Marking
        BY <2>2 DEF Marking, Works
    <2>3. CASE work[q] \in Assessing
        BY <2>3 DEF Assessing, Works
    <2> QED
        BY <2>1, <2>2, <2>3
<1>2. work' = [q \in Calls |-> IF q = r THEN Idle ELSE IF hit(q) THEN told(q) ELSE work[q]]
    BY DEF Inserted
<1>3. \A q \in Calls : work[q] \in Works
    BY DEF Shape
<1>4. Idle \in Works
    BY DEF Works
<1> HIDE DEF told
<1>5. work' \in [Calls -> Works]
    BY <1>1, <1>2, <1>3, <1>4
<1>6. ASSUME NEW q \in Calls
      PROVE  \/ work'[q] = Idle
             \/ hit(q) /\ work'[q] = told(q)
             \/ ~hit(q) /\ work'[q] = work[q]
    BY <1>2
<1> HIDE DEF hit
<1>7. ASSUME NEW q \in Calls
      PROVE  \/ work'[q] = Idle
             \/ /\ work'[q].phase = work[q].phase /\ work'[q].key = work[q].key
                /\ work'[q].found = work[q].found
                /\ work[q].missed => work'[q].missed
                /\ hit(q) => work'[q].missed
    BY <1>1, <1>6
<1> QED
    BY <1>5, <1>7 DEF hit

\* What the history says of the other keys.
LEMMA REntered ==
    ASSUME Shape, NEW k \in Keys, NEW v, entered' = [entered EXCEPT ![k] = v]
    PROVE  /\ DOMAIN entered' = Keys /\ entered' = [j \in Keys |-> entered'[j]]
           /\ entered'[k] = v
           /\ \A j \in Keys : j # k => entered'[j] = entered[j]
BY DEF Shape

\* The save of attendance: over the row found, or as the next row.
LEMMA RSaveMarked ==
    ASSUME RInv, NEW r \in Calls, SaveMarked(r)
    PROVE  RInv'
<1> DEFINE d == work[r]
           s == d.key[1]
           day == d.key[2]
           id == IF d.found = NotFound THEN NextId(attendance) ELSE d.found
           row == [id |-> id, student |-> s, day |-> day, present |-> d.present]
<1>1. /\ d.phase = "marking"
      /\ attendance' = Others(attendance, id) \union {row}
      /\ entered' = [entered EXCEPT ![d.key] = <<d.present>>]
      /\ doubled' = IF d.missed THEN doubled \union {d.key} ELSE doubled
      /\ Inserted(r, d.key)
      /\ enrolled' = enrolled /\ assessments' = assessments
    BY DEF SaveMarked, Others
<1>2. Shape /\ Table(attendance) /\ attendance \subseteq MarkRows /\ MarkingOK(d)
    BY DEF RInv, Shape
<1>3. /\ d \in Marking /\ s \in Pupils /\ day \in Days /\ d.key = <<s, day>>
      /\ d.key \in Keys /\ d.found \in Nat /\ d.present \in BOOLEAN
    <2>1. d \in Marking
        BY <1>1, <1>2 DEF Shape, Works, Idle, Assessing
    <2> HIDE DEF d
    <2> QED
        BY <2>1 DEF Marking, Keys, Slots
<1>4. /\ \A m \in attendance : m.id \in Nat /\ m.id # NotFound /\ m.id # NextId(attendance)
      /\ NextId(attendance) \in Nat
    BY <1>2, IdsOf
<1> HIDE DEF d
<1>5. /\ row \in MarkRows /\ row.id = id /\ row.present = d.present
      /\ row.student = s /\ row.day = day
    BY <1>3, <1>4 DEF MarkRows
<1>6. /\ d.found # NotFound => \E m \in attendance : m.id = id /\ IsMark(m, s, day)
      /\ d.found = NotFound => \A m \in attendance : m.id # id
      /\ d.found = NotFound /\ ~d.missed => \A m \in attendance : ~IsMark(m, s, day)
    BY <1>1, <1>2, <1>4 DEF MarkingOK
<1>7. id = NextId(attendance) \/ \E m \in attendance : m.id = id
    BY <1>6
<1> HIDE DEF row, id, s, day
<1>8. Table(attendance')
    BY <1>1, <1>2, <1>5, <1>7, SaveRow
<1>9. \A m, n \in attendance : m.id = n.id => m = n
    BY <1>2 DEF Table
<1>10. row \in attendance' /\ IsMark(row, s, day)
    BY <1>1, <1>5 DEF IsMark
<1>11. \A m : m \in attendance' /\ m # row <=> m \in attendance /\ m.id # id
    BY <1>1, <1>5 DEF Others
<1>12. ASSUME NEW p \in Pupils, NEW e \in Days, <<p, e>> # d.key
       PROVE  \A m : m \in attendance' /\ IsMark(m, p, e)
                         <=> m \in attendance /\ IsMark(m, p, e)
    <2>1. ~IsMark(row, p, e)
        BY <1>3, <1>5, <1>12 DEF IsMark
    <2>2. \A m \in attendance : IsMark(m, p, e) => m.id # id
        BY <1>3, <1>6, <1>9, <1>12 DEF IsMark
    <2> QED
        BY <1>11, <2>1, <2>2
<1>13. /\ DOMAIN entered' = Keys /\ entered' = [j \in Keys |-> entered'[j]]
       /\ entered'[d.key] = <<d.present>>
       /\ \A j \in Keys : j # d.key => entered'[j] = entered[j]
    BY <1>1, <1>2, <1>3, REntered
<1>14. doubled \subseteq doubled' /\ doubled' \subseteq Keys
    BY <1>1, <1>2, <1>3 DEF Shape
<1>15. /\ work' \in [Calls -> Works]
       /\ \A q \in Calls :
             \/ work'[q] = Idle
             \/ /\ work'[q].phase = work[q].phase /\ work'[q].key = work[q].key
                /\ work'[q].found = work[q].found
                /\ work[q].missed => work'[q].missed
                /\ work[q].phase # "idle" /\ work[q].key = d.key /\ work[q].found = NotFound
                      => work'[q].missed
    BY <1>1, <1>2, RInserted
<1>16. Shape'
    <2>1. attendance' \subseteq MarkRows
        BY <1>1, <1>2, <1>5 DEF Others
    <2> QED
        BY <1>1, <1>2, <1>8, <1>13, <1>14, <1>15, <2>1 DEF Shape
<1>17. SheetOK'
    <2> SUFFICES ASSUME NEW p \in Pupils, NEW e \in Days, <<p, e>> \notin doubled'
                 PROVE  /\ \A m, n \in attendance' : IsMark(m, p, e) /\ IsMark(n, p, e) => m = n
                        /\ \A m \in attendance' :
                              IsMark(m, p, e) => entered'[<<p, e>>] = <<m.present>>
                        /\ (\A m \in attendance' : ~IsMark(m, p, e))
                              => entered'[<<p, e>>] = Nothing
        BY DEF SheetOK
    <2>1. /\ \A m, n \in attendance : IsMark(m, p, e) /\ IsMark(n, p, e) => m = n
          /\ \A m \in attendance : IsMark(m, p, e) => entered[<<p, e>>] = <<m.present>>
          /\ (\A m \in attendance : ~IsMark(m, p, e)) => entered[<<p, e>>] = Nothing
        BY <1>14 DEF RInv, SheetOK
    <2>2. CASE <<p, e>> # d.key
        <3>1. entered'[<<p, e>>] = entered[<<p, e>>]
            BY <1>13, <2>2 DEF Keys, Slots
        <3> QED
            BY <1>12, <2>1, <2>2, <3>1
    <2>3. CASE <<p, e>> = d.key
        <3>1. p = s /\ e = day /\ ~d.missed
            BY <1>1, <1>3, <2>3
        <3>2. \A m \in attendance' : IsMark(m, p, e) => m = row
            BY <1>6, <1>11, <2>1, <3>1
        <3> QED
            BY <1>5, <1>10, <1>13, <2>3, <3>1, <3>2
    <2> QED
        BY <2>2, <2>3
<1>18. RosterOK'
    <2>1. ASSUME NEW p \in Pupils, NEW t \in Topics, <<p, t>> \notin doubled'
          PROVE  entered'[<<p, t>>] = entered[<<p, t>>] /\ <<p, t>> \notin doubled
        <3>1. <<p, t>> # d.key /\ <<p, t>> \in Keys
            BY <1>3, SlotsAssumption DEF Keys, Slots
        <3> QED
            BY <1>13, <1>14, <2>1, <3>1
    <2>2. RosterOK
        BY DEF RInv
    <2> QED
        BY <1>1, <2>1, <2>2 DEF RosterOK
<1>19. ASSUME NEW q \in Calls
       PROVE  MarkingOK(work[q])' /\ AssessingOK(work[q])'
    <2>1. MarkingOK(work[q]) /\ AssessingOK(work[q]) /\ work[q] \in Works
        BY DEF RInv, Shape
    <2>2. CASE work'[q] = Idle
        BY <2>2 DEF MarkingOK, AssessingOK, Idle
    <2>3. CASE work'[q] # Idle
        <3>1. AssessingOK(work[q])'
            BY <1>1, <1>15, <2>1, <2>3 DEF AssessingOK
        <3>2. MarkingOK(work[q])'
            <4> DEFINE c == work[q]
                       x == c.key[1]
                       y == c.key[2]
            <4> SUFFICES ASSUME c.phase = "marking"
                         PROVE  IF c.found = NotFound
                                THEN \/ work'[q].missed
                                     \/ \A m \in attendance' : ~IsMark(m, x, y)
                                ELSE \E m \in attendance' : m.id = c.found /\ IsMark(m, x, y)
                BY <1>15, <2>3 DEF MarkingOK
            <4>1. c.key = <<x, y>> /\ x \in Pupils /\ y \in Days
                <5>1. c \in Marking
                    BY <2>1 DEF Works, Idle, Assessing
                <5> HIDE DEF c
                <5> QED
                    BY <5>1 DEF Marking
            <4>2. CASE c.found = NotFound
                <5>1. CASE c.key = d.key
                    BY <1>15, <2>3, <4>2, <5>1
                <5>2. CASE c.key # d.key
                    <6>1. c.missed \/ \A m \in attendance : ~IsMark(m, x, y)
                        BY <2>1, <4>2 DEF MarkingOK
                    <6>2. c.missed => work'[q].missed
                        BY <1>15, <2>3
                    <6> HIDE DEF c, x, y
                    <6> QED
                        BY <1>12, <4>1, <4>2, <5>2, <6>1, <6>2
                <5> QED
                    BY <5>1, <5>2
            <4>3. CASE c.found # NotFound
                <5>1. PICK m \in attendance : m.id = c.found /\ IsMark(m, x, y)
                    BY <2>1, <4>3 DEF MarkingOK
                <5> HIDE DEF c, x, y
                <5>2. CASE m.id # id
                    BY <1>11, <4>3, <5>1, <5>2
                <5>3. CASE m.id = id
                    <6>1. IsMark(m, s, day)
                        BY <1>6, <1>9, <5>3
                    <6>2. x = s /\ y = day
                        BY <5>1, <6>1 DEF IsMark
                    <6> QED
                        BY <1>5, <1>10, <4>3, <5>1, <5>3, <6>2
                <5> QED
                    BY <5>2, <5>3
            <4> QED
                BY <4>2, <4>3
        <3> QED
            BY <3>1, <3>2
    <2> QED
        BY <2>2, <2>3
<1> QED
    BY <1>16, <1>17, <1>18, <1>19 DEF RInv

\* The save of an assessment: over the row found, or as the next row.
LEMMA RSaveAssessment ==
    ASSUME RInv, NEW r \in Calls, SaveAssessment(r)
    PROVE  RInv'
<1> DEFINE d == work[r]
           s == d.key[1]
           topic == d.key[2]
           id == IF d.found = NotFound THEN NextId(assessments) ELSE d.found
           row == [id |-> id, student |-> s, topic |-> topic, subject |-> SubjectSaved(d), score |-> d.score]
<1>1. /\ d.phase = "assessing"
      /\ assessments' = Others(assessments, id) \union {row}
      /\ entered' = [entered EXCEPT ![d.key] = <<row.subject, row.score>>]
      /\ doubled' = IF d.missed THEN doubled \union {d.key} ELSE doubled
      /\ Inserted(r, d.key)
      /\ enrolled' = enrolled /\ attendance' = attendance
    BY DEF SaveAssessment, Others
<1>2. Shape /\ Table(assessments) /\ assessments \subseteq EntryRows /\ AssessingOK(d)
    BY DEF RInv, Shape
<1>3. /\ d \in Assessing /\ s \in Pupils /\ topic \in Topics /\ d.key = <<s, topic>>
      /\ d.key \in Keys /\ d.found \in Nat
      /\ d.subject \in Subjects \union {NoSubject} /\ d.score \in Scores
    <2>1. d \in Assessing
        BY <1>1, <1>2 DEF Shape, Works, Idle, Marking
    <2> HIDE DEF d
    <2> QED
        BY <2>1 DEF Assessing, Keys, Slots
<1>4. /\ \A m \in assessments : m.id \in Nat /\ m.id # NotFound /\ m.id # NextId(assessments)
      /\ NextId(assessments) \in Nat
    BY <1>2, IdsOf
<1> HIDE DEF d
<1>5. /\ d.found # NotFound => \E m \in assessments : m.id = id /\ IsEntry(m, s, topic)
      /\ d.found = NotFound => \A m \in assessments : m.id # id
      /\ d.found = NotFound /\ ~d.missed => \A m \in assessments : ~IsEntry(m, s, topic)
    BY <1>1, <1>2, <1>4 DEF AssessingOK
<1>6. SubjectSaved(d) \in Subjects \union {NoSubject}
    <2>1. CASE d.found # NotFound
        <3> DEFINE e == CHOOSE x \in assessments : x.id = d.found
        <3>1. e \in assessments
            BY <1>5, <2>1 DEF id
        <3>2. e.subject \in Subjects \union {NoSubject}
            BY <1>2, <3>1 DEF EntryRows
        <3> QED
            BY <1>3, <3>2 DEF SubjectSaved
    <2>2. CASE d.found = NotFound
        BY <1>3, <2>2 DEF SubjectSaved
    <2> QED
        BY <2>1, <2>2
<1>6a. /\ row \in EntryRows /\ row.id = id
      /\ row.student = s /\ row.topic = topic
    <2> DEFINE subject == SubjectSaved(d)
    <2> HIDE DEF subject, s, topic
    <2> QED
        BY <1>3, <1>4, <1>6 DEF EntryRows, subject, s, topic
<1>7. id = NextId(assessments) \/ \E m \in assessments : m.id = id
    BY <1>5
<1> HIDE DEF row, id, s, topic
<1>8. Table(assessments')
    BY <1>1, <1>2, <1>6a, <1>7, SaveRow
<1>9. \A m, n \in assessments : m.id = n.id => m = n
    BY <1>2 DEF Table
<1>10. row \in assessments' /\ IsEntry(row, s, topic)
    BY <1>1, <1>6a DEF IsEntry
<1>11. \A m : m \in assessments' /\ m # row <=> m \in assessments /\ m.id # id
    BY <1>1, <1>6a DEF Others
<1>12. ASSUME NEW p \in Pupils, NEW e \in Topics, <<p, e>> # d.key
       PROVE  \A m : m \in assessments' /\ IsEntry(m, p, e)
                         <=> m \in assessments /\ IsEntry(m, p, e)
    <2>1. ~IsEntry(row, p, e)
        BY <1>3, <1>6a, <1>12 DEF IsEntry
    <2>2. \A m \in assessments : IsEntry(m, p, e) => m.id # id
        BY <1>3, <1>5, <1>9, <1>12 DEF IsEntry
    <2> QED
        BY <1>11, <2>1, <2>2
<1>13. /\ DOMAIN entered' = Keys /\ entered' = [j \in Keys |-> entered'[j]]
       /\ entered'[d.key] = <<row.subject, row.score>>
       /\ \A j \in Keys : j # d.key => entered'[j] = entered[j]
    BY <1>1, <1>2, <1>3, REntered
<1>14. doubled \subseteq doubled' /\ doubled' \subseteq Keys
    BY <1>1, <1>2, <1>3 DEF Shape
<1>15. /\ work' \in [Calls -> Works]
       /\ \A q \in Calls :
             \/ work'[q] = Idle
             \/ /\ work'[q].phase = work[q].phase /\ work'[q].key = work[q].key
                /\ work'[q].found = work[q].found
                /\ work[q].missed => work'[q].missed
                /\ work[q].phase # "idle" /\ work[q].key = d.key /\ work[q].found = NotFound
                      => work'[q].missed
    BY <1>1, <1>2, RInserted
<1>16. Shape'
    <2>1. assessments' \subseteq EntryRows
        BY <1>1, <1>2, <1>6a DEF Others
    <2> QED
        BY <1>1, <1>2, <1>8, <1>13, <1>14, <1>15, <2>1 DEF Shape
<1>17. RosterOK'
    <2> SUFFICES ASSUME NEW p \in Pupils, NEW e \in Topics, <<p, e>> \notin doubled'
                 PROVE  /\ \A m, n \in assessments' : IsEntry(m, p, e) /\ IsEntry(n, p, e) => m = n
                        /\ \A m \in assessments' :
                              IsEntry(m, p, e) => entered'[<<p, e>>] = <<m.subject, m.score>>
                        /\ (\A m \in assessments' : ~IsEntry(m, p, e))
                              => entered'[<<p, e>>] = Nothing
        BY DEF RosterOK
    <2>1. /\ \A m, n \in assessments : IsEntry(m, p, e) /\ IsEntry(n, p, e) => m = n
          /\ \A m \in assessments : IsEntry(m, p, e) => entered[<<p, e>>] = <<m.subject, m.score>>
          /\ (\A m \in assessments : ~IsEntry(m, p, e)) => entered[<<p, e>>] = Nothing
        BY <1>14 DEF RInv, RosterOK
    <2>2. CASE <<p, e>> # d.key
        <3>1. entered'[<<p, e>>] = entered[<<p, e>>]
            BY <1>13, <2>2 DEF Keys, Slots
        <3> QED
            BY <1>12, <2>1, <2>2, <3>1
    <2>3. CASE <<p, e>> = d.key
        <3>1. p = s /\ e = topic /\ ~d.missed
            BY <1>1, <1>3, <2>3
        <3>2. \A m \in assessments' : IsEntry(m, p, e) => m = row
            BY <1>5, <1>11, <2>1, <3>1
        <3> QED
            BY <1>6a, <1>10, <1>13, <2>3, <3>1, <3>2
    <2> QED
        BY <2>2, <2>3
<1>18. SheetOK'
    <2>1. ASSUME NEW p \in Pupils, NEW e \in Days, <<p, e>> \notin doubled'
          PROVE  entered'[<<p, e>>] = entered[<<p, e>>] /\ <<p, e>> \notin doubled
        <3>1. <<p, e>> # d.key /\ <<p, e>> \in Keys
            BY <1>3, SlotsAssumption DEF Keys, Slots
        <3> QED
            BY <1>13, <1>14, <2>1, <3>1
    <2>2. SheetOK
        BY DEF RInv
    <2> QED
        BY <1>1, <2>1, <2>2 DEF SheetOK
<1>19. ASSUME NEW q \in Calls
       PROVE  AssessingOK(work[q])' /\ MarkingOK(work[q])'
    <2>1. AssessingOK(work[q]) /\ MarkingOK(work[q]) /\ work[q] \in Works
        BY DEF RInv, Shape
    <2>2. CASE work'[q] = Idle
        BY <2>2 DEF AssessingOK, MarkingOK, Idle
    <2>3. CASE work'[q] # Idle
        <3>1. MarkingOK(work[q])'
            BY <1>1, <1>15, <2>1, <2>3 DEF MarkingOK
        <3>2. AssessingOK(work[q])'
            <4> DEFINE c == work[q]
                       x == c.key[1]
                       y == c.key[2]
            <4> SUFFICES ASSUME c.phase = "assessing"
                         PROVE  IF c.found = NotFound
                                THEN \/ work'[q].missed
                                     \/ \A m \in assessments' : ~IsEntry(m, x, y)
                                ELSE \E m \in assessments' : m.id = c.found /\ IsEntry(m, x, y)
                BY <1>15, <2>3 DEF AssessingOK
            <4>1. c.key = <<x, y>> /\ x \in Pupils /\ y \in Topics
                <5>1. c \in Assessing
                    BY <2>1 DEF Works, Idle, Marking
                <5> HIDE DEF c
                <5> QED
                    BY <5>1 DEF Assessing
            <4>2. CASE c.found = NotFound
                <5>1. CASE c.key = d.key
                    BY <1>15, <2>3, <4>2, <5>1
                <5>2. CASE c.key # d.key
                    <6>1. c.missed \/ \A m \in assessments : ~IsEntry(m, x, y)
                        BY <2>1, <4>2 DEF AssessingOK
                    <6>2. c.missed => work'[q].missed
                        BY <1>15, <2>3
                    <6> HIDE DEF c, x, y
                    <6> QED
                        BY <1>12, <4>1, <4>2, <5>2, <6>1, <6>2
                <5> QED
                    BY <5>1, <5>2
            <4>3. CASE c.found # NotFound
                <5>1. PICK m \in assessments : m.id = c.found /\ IsEntry(m, x, y)
                    BY <2>1, <4>3 DEF AssessingOK
                <5> HIDE DEF c, x, y
                <5>2. CASE m.id # id
                    BY <1>11, <4>3, <5>1, <5>2
                <5>3. CASE m.id = id
                    <6>1. IsEntry(m, s, topic)
                        BY <1>5, <1>9, <5>3
                    <6>2. x = s /\ y = topic
                        BY <5>1, <6>1 DEF IsEntry
                    <6> QED
                        BY <1>6a, <1>10, <4>3, <5>1, <5>3, <6>2
                <5> QED
                    BY <5>2, <5>3
            <4> QED
                BY <4>2, <4>3
        <3> QED
            BY <3>1, <3>2
    <2> QED
        BY <2>2, <2>3
<1> QED
    BY <1>16, <1>17, <1>18, <1>19 DEF RInv

\* The invariant does not depend on who is enrolled.
LEMMA RUnchanged ==
    ASSUME RInv, enrolled' \subseteq Pupils,
           UNCHANGED <<attendance, assessments, work, entered, doubled>>
    PROVE  RInv'
<1>1. /\ attendance' = attendance /\ assessments' = assessments /\ work' = work
      /\ entered' = entered /\ doubled' = doubled
    OBVIOUS
<1>2. Shape'
    BY <1>1 DEF RInv, Shape
<1>3. SheetOK'
    BY <1>1 DEF RInv, SheetOK
<1>4. RosterOK'
    BY <1>1 DEF RInv, RosterOK
<1>5. ASSUME NEW q \in Calls
      PROVE  MarkingOK(work[q])' /\ AssessingOK(work[q])'
    BY <1>1 DEF RInv, MarkingOK, AssessingOK
<1> QED
    BY <1>2, <1>3, <1>4, <1>5 DEF RInv

\* Pupils join and leave.
LEMMA REnrolled ==
    ASSUME RInv, NEW s \in Pupils, Enrol(s) \/ Leave(s)
    PROVE  RInv'
<1>1. enrolled' \subseteq Pupils
    BY DEF Enrol, Leave, RInv, Shape
<1>2. UNCHANGED <<attendance, assessments, work, entered, doubled>>
    BY DEF Enrol, Leave
<1> QED
    BY <1>1, <1>2, RUnchanged

\* Every step keeps the invariant.
LEMMA RInvNext == RInv /\ [RegNext]_regVars => RInv'
<1> SUFFICES ASSUME RInv, [RegNext]_regVars PROVE RInv'
    OBVIOUS
<1>1. CASE UNCHANGED regVars
    <2>1. enrolled' \subseteq Pupils
        BY <1>1 DEF regVars, RInv, Shape
    <2> QED
        BY <1>1, <2>1, RUnchanged DEF regVars
<1> QED
    BY <1>1, REnrolled, RFindMarked, RFindAssessment, RSaveMarked, RSaveAssessment DEF RegNext

\* The invariant holds in every state, for any requests, pupils, days, topics and scores.
THEOREM RegistersKeepInv == RegSpec => []RInv
BY RInvInit, RInvNext, PTL DEF RegSpec

\* Both tables have distinct ids without gaps, and requests hold rows of the kind they
\* look for: no save of attendance.service.ts or continuous-assessment.service.ts skips an id.
THEOREM RegistersTypeCorrect == RegSpec => []RegTypeOK
<1>1. RInv => RegTypeOK
    BY DEF RInv, Shape, RegTypeOK, MarkRows, EntryRows, Works, Table
<1> QED
    BY <1>1, RegistersKeepInv, PTL

\* Histories of one entry are equal if the entries are, and none is empty.
LEMMA OneEntry ==
    /\ \A x : <<>> # <<x>>
    /\ \A x, y : <<x>> = <<y>> => x = y
OBVIOUS

\* The class sheet shows what was marked last of whoever nobody has doubled for.
LEMMA SheetShowsIt == RInv => SheetShowsLast
<1> SUFFICES ASSUME RInv, NEW s \in Pupils, NEW d \in Days, <<s, d>> \notin doubled
             PROVE  /\ Cardinality(MarksOf(s, d)) <= 1
                    /\ \A present \in BOOLEAN : SheetShows(s, d, present) =>
                           present = (entered[<<s, d>>] = <<TRUE>>)
    BY DEF SheetShowsLast
<1> DEFINE e == entered[<<s, d>>]
           Right(present) == present = (e = <<TRUE>>)
<1>1. \A m, n \in MarksOf(s, d) : m = n
    BY DEF RInv, SheetOK, MarksOf, IsMark
<1>2. \A m \in MarksOf(s, d) : e = <<m.present>>
    BY DEF RInv, SheetOK, MarksOf, IsMark
<1>3. MarksOf(s, d) = {} => e = Nothing
    BY DEF RInv, SheetOK, MarksOf, IsMark
<1> HIDE DEF e
<1>4. CASE MarksOf(s, d) = {}
    <2>1. e # <<TRUE>>
        BY <1>3, <1>4, OneEntry DEF Nothing
    <2>2. Right(FALSE)
        BY <2>1
    <2>3. ~SheetShows(s, d, TRUE)
        BY <1>4 DEF SheetShows
    <2>4. Cardinality(MarksOf(s, d)) = 0
        BY <1>4, FS_EmptySet
    <2> HIDE DEF Right
    <2>5. \A present \in BOOLEAN : SheetShows(s, d, present) => Right(present)
        BY <2>2, <2>3
    <2>6. Cardinality(MarksOf(s, d)) <= 1
        BY <2>4
    <2>7. \A present \in BOOLEAN : SheetShows(s, d, present) =>
              present = (entered[<<s, d>>] = <<TRUE>>)
        BY <2>5, Zenon DEF Right, e
    <2> QED
        BY <2>6, <2>7, Zenon
<1>5. CASE MarksOf(s, d) # {}
    <2>1. PICK m \in MarksOf(s, d) : TRUE
        BY <1>5
    <2>2. MarksOf(s, d) = {m} /\ e = <<m.present>>
        BY <1>1, <1>2
    <2>3. Cardinality(MarksOf(s, d)) = 1
        BY <2>2, FS_Singleton
    <2>4. ASSUME NEW present \in BOOLEAN, SheetShows(s, d, present)
          PROVE  Right(present)
        <3>1. m.present = present
            BY <1>5, <2>2, <2>4 DEF SheetShows
        <3>2. e = <<present>>
            BY <2>2, <3>1
        <3>3. CASE present = TRUE
            BY <3>2, <3>3
        <3>4. CASE present = FALSE
            <4>1. e # <<TRUE>>
                BY <3>2, <3>4, OneEntry
            <4> QED
                BY <3>4, <4>1
        <3> QED
            BY <3>3, <3>4
    <2> HIDE DEF Right
    <2>5. \A present \in BOOLEAN : SheetShows(s, d, present) => Right(present)
        BY <2>4
    <2>6. Cardinality(MarksOf(s, d)) <= 1
        BY <2>3
    <2>7. \A present \in BOOLEAN : SheetShows(s, d, present) =>
              present = (entered[<<s, d>>] = <<TRUE>>)
        BY <2>5, Zenon DEF Right, e
    <2> QED
        BY <2>6, <2>7, Zenon
<1> QED
    BY <1>4, <1>5

\* The roster shows the score entered last of whoever nobody has doubled for.
LEMMA RosterShowsIt == RInv => RosterShowsLast
<1> SUFFICES ASSUME RInv, NEW s \in Pupils, NEW t \in Topics, <<s, t>> \notin doubled,
                    NEW filter \in Subjects \union {NoSubject}
             PROVE  RosterScores(s, t, filter) =
                        LET e == entered[<<s, t>>] IN
                        IF e = Nothing \/ (filter # NoSubject /\ filter # e[1]) THEN {} ELSE {e[2]}
    BY DEF RosterShowsLast
<1>1. /\ \A e, f \in EntriesOf(s, t) : e = f
      /\ \A e \in EntriesOf(s, t) : entered[<<s, t>>] = <<e.subject, e.score>>
      /\ EntriesOf(s, t) = {} => entered[<<s, t>>] = Nothing
    BY DEF RInv, RosterOK, EntriesOf, IsEntry
<1>2. CASE EntriesOf(s, t) = {}
    BY <1>1, <1>2 DEF RosterScores
<1>3. CASE EntriesOf(s, t) # {}
    <2>1. PICK e \in EntriesOf(s, t) : TRUE
        BY <1>3
    <2>2. /\ EntriesOf(s, t) = {e} /\ entered[<<s, t>>] = <<e.subject, e.score>>
          /\ entered[<<s, t>>] # Nothing
        BY <1>1 DEF Nothing
    <2>3. RosterScores(s, t, filter) =
              IF filter = NoSubject \/ e.subject = filter THEN {e.score} ELSE {}
        BY <2>2 DEF RosterScores
    <2> QED
        BY <2>2, <2>3
<1> QED
    BY <1>2, <1>3

\* A pupil has two rows for one day or topic only after a request inserted although another
\* had inserted since its search; for all others the sheets of getClassAttendance and
\* getClassRoster show what markAttendance and createAssessment saved last.
THEOREM EnteredTwice == RegSpec => []EnteredTwiceOnlyByOverlap
<1>1. RInv => EnteredTwiceOnlyByOverlap
    BY SheetShowsIt, RosterShowsIt DEF EnteredTwiceOnlyByOverlap
<1> QED
    BY <1>1, RegistersKeepInv, PTL

-----------------------------------------------------------------------------
(* Reports: rounded rates                                                  *)

\* Products grow with their factors.
LEMMA Products ==
    /\ \A p, x, y \in Nat : x <= y => p * x <= p * y
    /\ \A p, x \in Nat : p * x \in Nat
    /\ \A p, x \in Nat : p > 0 /\ x > 0 => p * x > 0
OBVIOUS

\* Products distribute over sums.
LEMMA Distribute ==
    /\ \A p, q \in Nat, r \in Int : (p + q) * r = p * r + q * r
    /\ \A p, q \in Nat, r \in Int : p * (q + r) = p * q + p * r
OBVIOUS

\* A quotient is the greatest number whose product with the divisor stays below.
LEMMA Quotient ==
    ASSUME NEW x \in Nat, NEW y \in Nat, y > 0
    PROVE  /\ x \div y \in Nat
           /\ y * (x \div y) <= x /\ x < y * (x \div y) + y
OBVIOUS

\* What is at most a quotient.
LEMMA QuotientIs ==
    ASSUME NEW x \in Nat, NEW y \in Nat, y > 0, NEW r \in Nat
    PROVE  r <= x \div y <=> y * r <= x
<1> DEFINE q == x \div y
<1>1. q \in Nat /\ y * q <= x /\ x < y * q + y
    BY Quotient
<1> HIDE DEF q
<1>2. ASSUME r <= q PROVE y * r <= x
    <2>1. y * r <= y * q
        BY <1>1, <1>2, Products
    <2>2. y * r \in Nat /\ y * q \in Nat
        BY <1>1, Products
    <2> QED
        BY <1>1, <2>1, <2>2
<1>3. ASSUME ~(r <= q) PROVE ~(y * r <= x)
    <2>1. q + 1 <= r /\ q + 1 \in Nat
        BY <1>1, <1>3
    <2>2. y * (q + 1) <= y * r
        BY <2>1, Products
    <2>3. y * (q + 1) = y * q + y
        BY <1>1, Distribute
    <2>4. y * r \in Nat /\ y * q \in Nat
        BY <1>1, Products
    <2> QED
        BY <1>1, <2>2, <2>3, <2>4
<1> QED
    BY <1>2, <1>3 DEF q

\* `Rate' as a bound, without its quotient.
LEMMA RateIs ==
    ASSUME NEW a \in Nat, NEW p \in Nat, NEW r \in Nat
    PROVE  /\ Rate(a, p) \in Nat
           /\ p = 0 => Rate(a, p) = 0
           /\ p > 0 => (r <= Rate(a, p) <=> 2 * (p * r) <= 20000 * a + p)
<1>1. CASE p = 0
    BY <1>1 DEF Rate
<1>2. CASE p > 0
    <2> DEFINE x == 20000 * a + p
               y == 2 * p
    <2>1. x \in Nat /\ y \in Nat /\ y > 0
        BY <1>2
    <2>2. Rate(a, p) = x \div y
        BY <1>2 DEF Rate
    <2>3. y * r = 2 * (p * r)
        OBVIOUS
    <2> HIDE DEF x, y
    <2>4. x \div y \in Nat /\ (r <= x \div y <=> y * r <= x)
        BY <2>1, Quotient, QuotientIs
    <2>5. Rate(a, p) \in Nat /\ (r <= Rate(a, p) <=> y * r <= x)
        BY <2>2, <2>4
    <2>6. r <= Rate(a, p) <=> 2 * (p * r) <= x
        BY <2>3, <2>5
    <2> QED
        BY <1>2, <2>5, <2>6 DEF x
<1> QED
    BY <1>1, <1>2

\* A rate is a number, and 0 of nothing.
LEMMA RateIsNat ==
    ASSUME NEW a \in Nat, NEW p \in Nat
    PROVE  Rate(a, p) \in Nat /\ (p = 0 => Rate(a, p) = 0)
<1>1. 0 \in Nat
    OBVIOUS
<1> QED
    BY <1>1, RateIs

\* More presences of as many places are no lower rate.
LEMMA RateGrows ==
    ASSUME NEW a \in Nat, NEW b \in Nat, NEW p \in Nat, a <= b
    PROVE  Rate(a, p) <= Rate(b, p)
<1> DEFINE r == Rate(a, p)
<1>1. r \in Nat /\ Rate(b, p) \in Nat
    BY RateIsNat
<1>2. CASE p = 0
    BY <1>2, RateIsNat
<1>3. CASE p > 0
    <2>1. r <= r
        BY <1>1
    <2> HIDE DEF r
    <2>2. 2 * (p * r) <= 20000 * a + p
        BY <1>1, <1>3, <2>1, RateIs DEF r
    <2>3. p * r \in Nat
        BY <1>1, Products
    <2>4. 2 * (p * r) <= 20000 * b + p
        BY <2>2, <2>3
    <2>5. r <= Rate(b, p) <=> 2 * (p * r) <= 20000 * b + p
        BY <1>1, <1>3, RateIs
    <2> QED
        BY <2>4, <2>5 DEF r
<1> QED
    BY <1>2, <1>3

\* As many presences of more places are no higher rate.
LEMMA RateFalls ==
    ASSUME NEW a \in Nat, NEW p \in Nat, NEW q \in Nat, 0 < q, q <= p
    PROVE  Rate(a, p) <= Rate(a, q)
<1> DEFINE r == Rate(a, p)
<1>1. r \in Nat /\ Rate(a, q) \in Nat
    BY RateIsNat
<1> HIDE DEF r
<1>2. 2 * (p * r) <= 20000 * a + p
    <2>1. p > 0 /\ r <= r
        BY <1>1
    <2> QED
        BY <1>1, <2>1, RateIs DEF r
<1>3. 2 * (q * r) <= 20000 * a + q
    <2>1. CASE r = 0
        <3>1. q * r = 0
            BY <2>1
        <3> QED
            BY <3>1
    <2>2. CASE r > 0
        <3> DEFINE u == 2 * r - 1
        <3>1. u \in Nat
            BY <1>1, <2>2
        <3>2. u * q <= u * p
            BY <3>1, Products
        <3>3. u * q = 2 * (q * r) - q /\ u * p = 2 * (p * r) - p
            BY <1>1
        <3>4. q * r \in Nat /\ p * r \in Nat
            BY <1>1, Products
        <3> HIDE DEF u
        <3> QED
            BY <1>2, <3>2, <3>3, <3>4
    <2> QED
        BY <1>1, <2>1, <2>2
<1>4. r <= Rate(a, q) <=> 2 * (q * r) <= 20000 * a + q
    BY <1>1, RateIs
<1> QED
    BY <1>3, <1>4 DEF r

\* Nobody is present more often than he could: never above a hundred per cent.
LEMMA RateAtMostAll ==
    ASSUME NEW a \in Nat, NEW p \in Nat, a <= p
    PROVE  Rate(a, p) <= 10000
<1>1. Rate(a, p) \in Nat
    BY RateIsNat
<1>2. CASE p = 0
    BY <1>2, RateIsNat
<1>3. CASE p > 0
    <2>1. 10001 <= Rate(a, p) <=> 2 * (p * 10001) <= 20000 * a + p
        BY <1>3, RateIs
    <2> QED
        BY <1>1, <1>3, <2>1
<1> QED
    BY <1>2, <1>3

-----------------------------------------------------------------------------
(* Reports: days and weeks                                                 *)

\* The days of a report, of rows M with reported days k, in a class of n.
DaysOK(D, M, k, n) ==
    /\ IsFiniteSet(D) /\ IsFiniteSet(M) /\ n \in Nat
    /\ \A d \in D :
          /\ d.possible = n
          /\ d.actual = Cardinality({m \in M : m.present /\ k[m] = d.day})
          /\ d.absent = Cardinality({m \in M : ~m.present /\ k[m] = d.day})
    /\ \A d, e \in D : d.day = e.day => d = e
    /\ \A m \in M : \E d \in D : d.day = k[m]
    /\ \A d \in D : \E m \in M : k[m] = d.day

\* The weeks of a report with the days D.
WeeksOK(W, D, M, k, n) ==
    /\ IsFiniteSet(W)
    /\ \A w \in W :
          /\ w.actual = Cardinality({m \in M : m.present /\ WeekStart(k[m]) = w.start})
          /\ w.days = Cardinality({d \in D : WeekStart(d.day) = w.start})
          /\ w.rate = Rate(w.actual, n * w.days)
    /\ \A v, w \in W : v.start = w.start => v = w
    /\ \A d \in D : \E w \in W : w.start = WeekStart(d.day)
    /\ \A w \in W : \E d \in D : w.start = WeekStart(d.day)

\* getAttendanceReports has a record of each day with rows.
LEMMA DailyIs ==
    ASSUME NEW M, IsFiniteSet(M), NEW east, Cardinality(enrolled) \in Nat, NEW k,
           \A m \in M : k[m] = ReportedDay(east, m.day)
    PROVE  DaysOK(DailyMetrics(east, M), M, k, Cardinality(enrolled))
<1> DEFINE n == Cardinality(enrolled)
           These(day) == {m \in M : ReportedDay(east, m.day) = day}
           Rec(day) == [day |-> day, possible |-> n, actual |-> Cardinality(Present(These(day))),
                        absent |-> Cardinality(These(day) \ Present(These(day)))]
           D == DailyMetrics(east, M)
           rec == [m \in M |-> Rec(ReportedDay(east, m.day))]
<1>1. D = {Rec(day) : day \in {ReportedDay(east, m.day) : m \in M}}
    BY DEF DailyMetrics
<1>2. D = {rec[m] : m \in M}
    <2>1. D = {Rec(ReportedDay(east, m.day)) : m \in M}
        <3> HIDE DEF Rec, D
        <3> QED
            BY <1>1
    <2>2. \A m \in M : rec[m] = Rec(ReportedDay(east, m.day))
        OBVIOUS
    <2> HIDE DEF Rec, D, rec
    <2> QED
        BY <2>1, <2>2
<1>3. IsFiniteSet(D)
    <2> HIDE DEF D, rec
    <2> QED
        BY <1>2, ImageIsFinite
<1>4. \A day : /\ Present(These(day)) = {m \in M : m.present /\ k[m] = day}
               /\ These(day) \ Present(These(day)) = {m \in M : ~m.present /\ k[m] = day}
    BY DEF Present
<1>5. ASSUME NEW d \in D
      PROVE  /\ d.possible = n
             /\ d.actual = Cardinality({m \in M : m.present /\ k[m] = d.day})
             /\ d.absent = Cardinality({m \in M : ~m.present /\ k[m] = d.day})
             /\ d = Rec(d.day)
             /\ \E m \in M : k[m] = d.day
    <2>1. PICK m \in M : d = Rec(ReportedDay(east, m.day))
        BY <1>1
    <2>2. d.day = ReportedDay(east, m.day) /\ d = Rec(d.day)
        BY <2>1
    <2>3. k[m] = d.day
        BY <2>2
    <2>4. /\ d.possible = n
          /\ d.actual = Cardinality(Present(These(d.day)))
          /\ d.absent = Cardinality(These(d.day) \ Present(These(d.day)))
        BY <2>1, <2>2
    <2> HIDE DEF These, Rec
    <2> QED
        BY <1>4, <2>2, <2>3, <2>4
<1>6. \A m \in M : \E d \in D : d.day = k[m]
    <2>1. \A m \in M : Rec(ReportedDay(east, m.day)) \in D
        BY <1>1
    <2>2. \A day : Rec(day).day = day
        OBVIOUS
    <2> HIDE DEF D, Rec
    <2> QED
        BY <2>1, <2>2
<1>7. \A d, e \in D : d.day = e.day => d = e
    <2> HIDE DEF D, Rec
    <2> QED
        BY <1>5
<1> HIDE DEF D, Rec, These, rec
<1>8. DaysOK(D, M, k, n)
    BY <1>3, <1>5, <1>6, <1>7 DEF DaysOK
<1> QED
    BY <1>8 DEF D

\* The presences reported on one of the days S.
PresentOn(M, k, S) == {m \in M : m.present /\ \E d \in S : d.day = k[m]}

\* A total over some of the days counts the rows of these days, each once.
LEMMA TotalsAre ==
    ASSUME NEW D, NEW M, NEW k, NEW n, DaysOK(D, M, k, n), NEW S \in SUBSET D
    PROVE  /\ IsFiniteSet(S)
           /\ Actual(S) = Cardinality(PresentOn(M, k, S))
           /\ Possible(S) = n * Cardinality(S)
<1> DEFINE P == {m \in M : m.present}
           key == [m \in M |-> CHOOSE d \in D : d.day = k[m]]
           f == [d \in S |-> d.actual]
           g == [d \in S |-> d.possible]
<1>1. IsFiniteSet(S) /\ IsFiniteSet(P)
    <2>1. IsFiniteSet(D) /\ IsFiniteSet(M) /\ P \in SUBSET M
        BY DEF DaysOK
    <2> HIDE DEF P
    <2> QED
        BY <2>1, FS_Subset
<1>2. \A m \in M : \A d \in D : key[m] = d <=> d.day = k[m]
    BY DEF DaysOK
<1>3. \A d \in S : f[d] = Cardinality(AtKey(P, key, d))
    <2> SUFFICES ASSUME NEW d \in S PROVE f[d] = Cardinality(AtKey(P, key, d))
        OBVIOUS
    <2>1. f[d] = Cardinality({m \in M : m.present /\ k[m] = d.day})
        BY DEF DaysOK
    <2>2. AtKey(P, key, d) = {m \in M : m.present /\ k[m] = d.day}
        <3> HIDE DEF key
        <3> QED
            BY <1>2 DEF AtKey
    <2> QED
        BY <2>1, <2>2
<1>4. AtKeys(P, key, S) = PresentOn(M, k, S)
    <2>1. \A m \in M : key[m] \in S <=> \E d \in S : d.day = k[m]
        <3> HIDE DEF key
        <3> QED
            BY <1>2
    <2> HIDE DEF key
    <2> QED
        BY <2>1 DEF AtKeys, PresentOn
<1>5. Actual(S) = SumFunctionOnSet(f, S) /\ Possible(S) = SumFunctionOnSet(g, S)
    BY DEF Actual, Possible, SumFunction
<1>6. n \in Int /\ \A d \in S : g[d] = n
    <2>1. n \in Nat /\ \A d \in D : d.possible = n
        BY DEF DaysOK
    <2> QED
        BY <2>1
<1> HIDE DEF P, key, f, g
<1>7. SumFunctionOnSet(f, S) = Cardinality(AtKeys(P, key, S))
    BY <1>1, <1>3, SumByKey
<1>8. SumFunctionOnSet(g, S) = n * Cardinality(S)
    BY <1>1, <1>6, SumConstant
<1> QED
    BY <1>1, <1>4, <1>5, <1>7, <1>8

\* calculateWeeklySummaries has a record of each week with days.
LEMMA WeeklyIs ==
    ASSUME NEW D, NEW M, NEW k, NEW n, DaysOK(D, M, k, n)
    PROVE  WeeksOK(WeeklySummaries(D), D, M, k, n)
<1> DEFINE Of(start) == {d \in D : WeekStart(d.day) = start}
           Rec(start) == [start |-> start, actual |-> Actual(Of(start)),
                          days |-> Cardinality(Of(start)), rate |-> RateOver(Of(start))]
           W == WeeklySummaries(D)
           rec == [d \in D |-> Rec(WeekStart(d.day))]
<1>1. W = {Rec(start) : start \in {WeekStart(d.day) : d \in D}}
    BY DEF WeeklySummaries
<1>2. W = {rec[d] : d \in D}
    BY <1>1
<1>3. IsFiniteSet(W)
    <2>1. IsFiniteSet(D)
        BY DEF DaysOK
    <2> HIDE DEF W, rec
    <2> QED
        BY <1>2, <2>1, ImageIsFinite
<1>4. ASSUME NEW start
      PROVE  /\ Actual(Of(start)) = Cardinality({m \in M : m.present /\ WeekStart(k[m]) = start})
             /\ RateOver(Of(start)) = Rate(Actual(Of(start)), n * Cardinality(Of(start)))
    <2>1. Of(start) \in SUBSET D
        OBVIOUS
    <2>2. PresentOn(M, k, Of(start))
              = {m \in M : m.present /\ WeekStart(k[m]) = start}
        <3>1. \A m \in M : \E d \in D : d.day = k[m]
            BY DEF DaysOK
        <3>2. \A m \in M : (\E d \in Of(start) : d.day = k[m]) <=> WeekStart(k[m]) = start
            BY <3>1
        <3> HIDE DEF Of
        <3> QED
            BY <3>2 DEF PresentOn
    <2> HIDE DEF Of
    <2>3. /\ Actual(Of(start)) = Cardinality(PresentOn(M, k, Of(start)))
          /\ Possible(Of(start)) = n * Cardinality(Of(start))
        BY <2>1, TotalsAre
    <2> QED
        BY <2>2, <2>3 DEF RateOver
<1>5. ASSUME NEW w \in W
      PROVE  /\ w.actual = Cardinality({m \in M : m.present /\ WeekStart(k[m]) = w.start})
             /\ w.days = Cardinality({d \in D : WeekStart(d.day) = w.start})
             /\ w.rate = Rate(w.actual, n * w.days)
             /\ w = Rec(w.start)
             /\ \E d \in D : w.start = WeekStart(d.day)
    <2>1. PICK d \in D : w = Rec(WeekStart(d.day))
        BY <1>1
    <2>2. w.start = WeekStart(d.day) /\ w = Rec(w.start)
        BY <2>1
    <2>3. /\ w.actual = Actual(Of(w.start)) /\ w.days = Cardinality(Of(w.start))
          /\ w.rate = RateOver(Of(w.start))
        BY <2>1, <2>2
    <2>4. Of(w.start) = {e \in D : WeekStart(e.day) = w.start}
        OBVIOUS
    <2> HIDE DEF Of, Rec
    <2> QED
        BY <1>4, <2>2, <2>3, <2>4
<1>6. \A d \in D : \E w \in W : w.start = WeekStart(d.day)
    <2>1. \A d \in D : Rec(WeekStart(d.day)) \in W
        BY <1>1
    <2>2. \A start : Rec(start).start = start
        OBVIOUS
    <2> HIDE DEF W, Rec
    <2> QED
        BY <2>1, <2>2
<1>7. \A v, w \in W : v.start = w.start => v = w
    <2> HIDE DEF W, Rec
    <2> QED
        BY <1>5
<1> HIDE DEF W, Rec, Of, rec
<1>8. WeeksOK(W, D, M, k, n)
    BY <1>3, <1>5, <1>6, <1>7 DEF WeeksOK
<1> QED
    BY <1>8 DEF W

\* A week lasts from a Monday to the Sunday after it.
LEMMA WeekIs ==
    ASSUME NEW x \in Nat, NEW y \in Nat
    PROVE  /\ WeekStart(y) \in Int
           /\ WeekStart(x) = WeekStart(y) <=> x \in WeekStart(y)..(WeekStart(y) + 6)
<1>1. ASSUME NEW d \in Nat
      PROVE  d % 7 \in 0..6 /\ d \div 7 \in Nat /\ d % 7 = d - 7 * (d \div 7)
    OBVIOUS
<1>2. ASSUME NEW d \in Nat
      PROVE  \E j \in Int : WeekStart(d) = 7 * j + 1 /\ 7 * j + 1 <= d /\ d <= 7 * j + 7
    <2> DEFINE j == d \div 7
               r == d % 7
    <2>0. r \in 0..6 /\ j \in Nat /\ r = d - 7 * j
        BY <1>1
    <2>2. WeekStart(d) = d - r + (IF r = 0 THEN -6 ELSE 1)
        BY DEF WeekStart
    <2> HIDE DEF j, r
    <2>1. r \in 0..6 /\ j \in Nat /\ d = 7 * j + r
        BY <2>0
    <2>3. CASE r = 0
        <3>1. /\ j - 1 \in Int /\ WeekStart(d) = 7 * (j - 1) + 1
              /\ 7 * (j - 1) + 1 <= d /\ d <= 7 * (j - 1) + 7
            BY <2>1, <2>2, <2>3
        <3> QED
            BY <3>1
    <2>4. CASE r # 0
        <3>1. j \in Int /\ WeekStart(d) = 7 * j + 1 /\ 7 * j + 1 <= d /\ d <= 7 * j + 7
            BY <2>1, <2>2, <2>4
        <3> QED
            BY <3>1
    <2> QED
        BY <2>3, <2>4
<1>3. PICK i \in Int : WeekStart(x) = 7 * i + 1 /\ 7 * i + 1 <= x /\ x <= 7 * i + 7
    BY <1>2
<1>4. PICK j \in Int : WeekStart(y) = 7 * j + 1 /\ 7 * j + 1 <= y /\ y <= 7 * j + 7
    BY <1>2
<1> QED
    BY <1>3, <1>4

\* The totals of the weeks are those of the days, and those of the rows.
LEMMA WeekTotals ==
    ASSUME NEW W, NEW D, NEW M, NEW k, NEW n, DaysOK(D, M, k, n), WeeksOK(W, D, M, k, n)
    PROVE  /\ Actual(D) = Cardinality(Present(M))
           /\ Actual(W) = Cardinality(Present(M))
           /\ SumFunctionOnSet([w \in W |-> w.days], W) = Cardinality(D)
<1> DEFINE P == Present(M)
           f == [w \in W |-> w.actual]
           q == [w \in W |-> w.days]
           weekOf == [m \in M |-> CHOOSE w \in W : w.start = WeekStart(k[m])]
           weekOn == [d \in D |-> CHOOSE w \in W : w.start = WeekStart(d.day)]
<1>1. IsFiniteSet(W) /\ IsFiniteSet(D) /\ IsFiniteSet(P)
    <2>1. IsFiniteSet(W) /\ IsFiniteSet(D) /\ IsFiniteSet(M) /\ P \in SUBSET M
        BY DEF DaysOK, WeeksOK, Present
    <2> HIDE DEF P
    <2> QED
        BY <2>1, FS_Subset
<1>2. \A d \in D : weekOn[d] \in W /\ \A w \in W : weekOn[d] = w <=> w.start = WeekStart(d.day)
    BY DEF WeeksOK
<1>3. \A m \in M : weekOf[m] \in W /\ \A w \in W : weekOf[m] = w <=> w.start = WeekStart(k[m])
    <2>1. \A m \in M : \E w \in W : w.start = WeekStart(k[m])
        BY DEF WeeksOK, DaysOK
    <2>2. \A v, w \in W : v.start = w.start => v = w
        BY DEF WeeksOK
    <2> QED
        BY <2>1, <2>2
<1> HIDE DEF weekOn, weekOf
<1>4. \A w \in W : f[w] = Cardinality(AtKey(P, weekOf, w))
    <2> SUFFICES ASSUME NEW w \in W PROVE f[w] = Cardinality(AtKey(P, weekOf, w))
        OBVIOUS
    <2>1. f[w] = Cardinality({m \in M : m.present /\ WeekStart(k[m]) = w.start})
        BY DEF WeeksOK
    <2>2. AtKey(P, weekOf, w) = {m \in M : m.present /\ WeekStart(k[m]) = w.start}
        BY <1>3 DEF AtKey, Present
    <2> QED
        BY <2>1, <2>2
<1>5. \A w \in W : q[w] = Cardinality(AtKey(D, weekOn, w))
    <2> SUFFICES ASSUME NEW w \in W PROVE q[w] = Cardinality(AtKey(D, weekOn, w))
        OBVIOUS
    <2>1. q[w] = Cardinality({d \in D : WeekStart(d.day) = w.start})
        BY DEF WeeksOK
    <2>2. AtKey(D, weekOn, w) = {d \in D : WeekStart(d.day) = w.start}
        BY <1>2 DEF AtKey
    <2> QED
        BY <2>1, <2>2
<1>6. AtKeys(P, weekOf, W) = P /\ AtKeys(D, weekOn, W) = D
    BY <1>2, <1>3 DEF AtKeys, Present
<1>7. Actual(W) = SumFunctionOnSet(f, W)
    BY DEF Actual, SumFunction
<1>8. Actual(D) = Cardinality(P)
    <2>1. D \in SUBSET D /\ PresentOn(M, k, D) = P
        BY DEF PresentOn, Present, DaysOK
    <2> QED
        BY <2>1, TotalsAre
<1> HIDE DEF P, f, q
<1>9. SumFunctionOnSet(f, W) = Cardinality(P)
    <2>1. SumFunctionOnSet(f, W) = Cardinality(AtKeys(P, weekOf, W))
        BY <1>1, <1>4, SumByKey
    <2> QED
        BY <1>6, <2>1
<1>10. SumFunctionOnSet(q, W) = Cardinality(D)
    <2>1. SumFunctionOnSet(q, W) = Cardinality(AtKeys(D, weekOn, W))
        BY <1>1, <1>5, SumByKey
    <2> QED
        BY <1>6, <2>1
<1> QED
    BY <1>7, <1>8, <1>9, <1>10 DEF P, q

\* Weeks have days, and presences, and there is one if there is a day.
LEMMA WeekNumbers ==
    ASSUME NEW W, NEW D, NEW M, NEW k, NEW n, DaysOK(D, M, k, n), WeeksOK(W, D, M, k, n)
    PROVE  /\ \A w \in W : /\ w.actual \in Nat /\ w.days \in Nat \ {0}
                           /\ w.rate \in Nat /\ w.rate = Rate(w.actual, n * w.days)
           /\ D # {} => W # {}
<1>1. IsFiniteSet(D) /\ IsFiniteSet(M) /\ n \in Nat
    BY DEF DaysOK
<1>2. ASSUME NEW w \in W
      PROVE  /\ w.actual \in Nat /\ w.days \in Nat \ {0}
             /\ w.rate \in Nat /\ w.rate = Rate(w.actual, n * w.days)
    <2> DEFINE A == {m \in M : m.present /\ WeekStart(k[m]) = w.start}
               B == {d \in D : WeekStart(d.day) = w.start}
    <2>1. w.actual = Cardinality(A) /\ w.days = Cardinality(B) /\ w.rate = Rate(w.actual, n * w.days)
        BY DEF WeeksOK
    <2>2. A \in SUBSET M /\ B \in SUBSET D /\ B # {}
        BY DEF WeeksOK
    <2> HIDE DEF A, B
    <2>3. IsFiniteSet(A) /\ IsFiniteSet(B)
        BY <1>1, <2>2, FS_Subset
    <2>4. Cardinality(A) \in Nat /\ Cardinality(B) \in Nat /\ Cardinality(B) # 0
        BY <2>2, <2>3, FS_CardinalityType, FS_EmptySet
    <2>5. w.actual \in Nat /\ w.days \in Nat \ {0}
        BY <2>1, <2>4
    <2>6. n * w.days \in Nat
        BY <1>1, <2>5, Products
    <2>7. w.rate \in Nat
        BY <2>1, <2>5, <2>6, RateIsNat
    <2> QED
        BY <2>1, <2>5, <2>7
<1>3. D # {} => W # {}
    BY DEF WeeksOK
<1> QED
    BY <1>2, <1>3

\* The rate of a report is between those of its weeks.
LEMMA RateBetweenWeeks ==
    ASSUME NEW W, NEW D, NEW M, NEW k, NEW n, DaysOK(D, M, k, n), WeeksOK(W, D, M, k, n), D # {}
    PROVE  LET rates == {w.rate : w \in W} IN RateOver(D) \in Min(rates)..Max(rates)
<1> DEFINE rates == {w.rate : w \in W}
           low == Min(rates)
           high == Max(rates)
           f == [w \in W |-> w.actual]
           q == [w \in W |-> w.days]
           A == SumFunctionOnSet(f, W)
           Q == SumFunctionOnSet(q, W)
<1>1. n \in Nat /\ IsFiniteSet(W) /\ W # {}
    BY WeekNumbers DEF DaysOK, WeeksOK
<1>2. \A w \in W : /\ f[w] \in Nat /\ q[w] \in Nat /\ q[w] > 0
                   /\ w.rate \in Nat /\ w.rate = Rate(f[w], n * q[w])
    BY WeekNumbers
<1>3. /\ low \in rates /\ high \in rates /\ low \in Nat /\ high \in Nat
      /\ \A w \in W : low <= w.rate /\ w.rate <= high
    <2>1. rates # {} /\ rates \subseteq Nat
        BY <1>1, <1>2
    <2>2. IsFiniteSet(rates)
        <3> DEFINE rate == [w \in W |-> w.rate]
        <3>1. rates = {rate[w] : w \in W}
            OBVIOUS
        <3> HIDE DEF rates, rate
        <3> QED
            BY <1>1, <3>1, ImageIsFinite
    <2>3. \A w \in W : w.rate \in rates
        OBVIOUS
    <2> HIDE DEF rates
    <2>4. low \in rates /\ \A r \in rates : low <= r
        BY <2>1, MinIsNat
    <2>5. high \in rates /\ \A r \in rates : r <= high
        BY <2>1, <2>2, MaxIsNat
    <2> HIDE DEF low, high
    <2> QED
        BY <2>1, <2>3, <2>4, <2>5
<1>4. A \in Nat /\ Q \in Nat /\ RateOver(D) = Rate(A, n * Q)
    <2>1. A \in Nat /\ Q \in Nat
        <3> HIDE DEF f, q
        <3> QED
            BY <1>1, <1>2, SumNat
    <2>2. Actual(D) = Actual(W) /\ Q = Cardinality(D)
        BY WeekTotals
    <2>3. Actual(W) = A
        BY DEF Actual, SumFunction
    <2>4. Possible(D) = n * Cardinality(D)
        BY TotalsAre
    <2> QED
        BY <2>1, <2>2, <2>3, <2>4 DEF RateOver
<1>5. n * Q \in Nat /\ \A w \in W : n * q[w] \in Nat
    <2> HIDE DEF q, Q
    <2> QED
        BY <1>1, <1>2, <1>4, Products
<1>6. RateOver(D) \in Nat
    <2> HIDE DEF A, Q
    <2> QED
        BY <1>4, <1>5, RateIsNat
<1> HIDE DEF f, q, A, Q, low, high
<1>7. CASE n = 0
    <2>1. n * Q = 0 /\ \A w \in W : n * q[w] = 0
        BY <1>2, <1>4, <1>7
    <2>2. RateOver(D) = 0 /\ \A w \in W : w.rate = 0
        <3>1. \A a \in Nat : Rate(a, 0) = 0
            BY RateIsNat
        <3> QED
            BY <1>2, <1>4, <2>1, <3>1
    <2>3. low = 0 /\ high = 0
        BY <1>3, <2>2
    <2> QED
        BY <1>6, <2>2, <2>3 DEF low, high
<1>8. CASE n > 0
    <2>1. \A w \in W : n * q[w] > 0
        BY <1>1, <1>2, <1>8, Products
    <2>2. low <= RateOver(D)
        <3> DEFINE c == n - 2 * (n * low)
                   h == [w \in W |-> 20000 * f[w] + c * q[w]]
        <3>1. c \in Int
            BY <1>1, <1>3
        <3>2. ASSUME NEW w \in W PROVE h[w] \in Nat
            <4>1. 2 * ((n * q[w]) * low) <= 20000 * f[w] + n * q[w]
                <5> DEFINE p == n * q[w]
                           a == f[w]
                <5>1. p \in Nat /\ p > 0 /\ a \in Nat /\ low \in Nat /\ low <= Rate(a, p)
                    BY <1>2, <1>3, <1>5, <2>1
                <5> HIDE DEF p, a
                <5>2. 2 * (p * low) <= 20000 * a + p
                    BY <5>1, RateIs
                <5> QED
                    BY <5>2 DEF p, a
            <4>2. c * q[w] = n * q[w] - 2 * ((n * q[w]) * low)
                BY <1>1, <1>2, <1>3
            <4>3. (n * q[w]) * low \in Nat
                BY <1>3, <1>5, Products
            <4>4. 20000 * f[w] + c * q[w] \in Nat
                BY <1>2, <1>5, <4>1, <4>2, <4>3
            <4> QED
                BY <4>4
        <3>3. \A w \in W : f[w] \in Int /\ q[w] \in Int /\ h[w] = 20000 * f[w] + c * q[w]
            BY <1>2
        <3> HIDE DEF c, h
        <3>4. SumFunctionOnSet(h, W) = 20000 * A + c * Q
            BY <1>1, <3>1, <3>3, SumLinear DEF A, Q
        <3>5. SumFunctionOnSet(h, W) \in Nat
            BY <1>1, <3>2, SumNat
        <3>6. c * Q = n * Q - 2 * ((n * Q) * low)
            BY <1>1, <1>3, <1>4 DEF c
        <3>7. (n * Q) * low \in Nat
            BY <1>3, <1>5, Products
        <3>8. 2 * ((n * Q) * low) <= 20000 * A + n * Q
            BY <1>4, <1>5, <3>4, <3>5, <3>6, <3>7
        <3>9. CASE n * Q > 0
            BY <1>3, <1>4, <1>5, <3>8, <3>9, RateIs
        <3>10. CASE n * Q = 0
            <4>1. W = {}
                <5>1. PICK w \in W : TRUE
                    BY <1>1
                <5>2. q[w] <= Q
                    BY <1>1, <1>2, SumElement DEF Q
                <5>3. n * q[w] <= n * Q
                    BY <1>1, <1>2, <1>4, <5>2, Products
                <5> QED
                    BY <1>5, <2>1, <3>10, <5>3
            <4> QED
                BY <1>1, <4>1
        <3> QED
            BY <1>5, <3>9, <3>10
    <2>3. RateOver(D) <= high
        <3> DEFINE r == high + 1
                   c == 2 * (n * r) - n
                   h == [w \in W |-> (-20000) * f[w] + c * q[w]]
        <3>1. c \in Int /\ r \in Nat
            BY <1>1, <1>3
        <3>2. ASSUME NEW w \in W PROVE h[w] \in Nat /\ h[w] > 0
            <4>1. ~(r <= w.rate)
                BY <1>2, <1>3
            <4>2. ~(2 * ((n * q[w]) * r) <= 20000 * f[w] + n * q[w])
                <5> DEFINE p == n * q[w]
                           a == f[w]
                <5> HIDE DEF r
                <5>1. p \in Nat /\ p > 0 /\ a \in Nat /\ r \in Nat /\ ~(r <= Rate(a, p))
                    BY <1>2, <1>5, <2>1, <3>1, <4>1
                <5> HIDE DEF p, a
                <5>2. ~(2 * (p * r) <= 20000 * a + p)
                    BY <5>1, RateIs
                <5> QED
                    BY <5>2 DEF p, a
            <4> HIDE DEF r
            <4>3. c * q[w] = 2 * ((n * q[w]) * r) - n * q[w]
                BY <1>1, <1>2, <3>1
            <4>4. (n * q[w]) * r \in Nat
                BY <1>5, <3>1, Products
            <4>5. (-20000) * f[w] + c * q[w] \in Nat /\ (-20000) * f[w] + c * q[w] > 0
                BY <1>2, <1>5, <4>2, <4>3, <4>4
            <4> QED
                BY <4>5
        <3>3. \A w \in W : f[w] \in Int /\ q[w] \in Int /\ h[w] = (-20000) * f[w] + c * q[w]
            BY <1>2
        <3> HIDE DEF c, h, r
        <3>4. SumFunctionOnSet(h, W) = (-20000) * A + c * Q
            <4> DEFINE b == -20000
            <4>1. b \in Int /\ \A w \in W : f[w] \in Int /\ q[w] \in Int /\ h[w] = b * f[w] + c * q[w]
                BY <3>3
            <4> HIDE DEF b
            <4>2. SumFunctionOnSet(h, W) = b * A + c * Q
                BY <1>1, <3>1, <4>1, SumLinear DEF A, Q
            <4> QED
                BY <4>2 DEF b
        <3>5. SumFunctionOnSet(h, W) > 0
            <4>1. PICK w \in W : TRUE
                BY <1>1
            <4>2. h[w] <= SumFunctionOnSet(h, W) /\ SumFunctionOnSet(h, W) \in Nat
                BY <1>1, <3>2, SumElement, SumNat
            <4> QED
                BY <3>2, <4>2
        <3>6. c * Q = 2 * ((n * Q) * r) - n * Q
            BY <1>1, <1>4, <3>1 DEF c
        <3>7. (n * Q) * r \in Nat
            BY <1>5, <3>1, Products
        <3>8. ~(2 * ((n * Q) * r) <= 20000 * A + n * Q)
            BY <1>4, <1>5, <3>4, <3>5, <3>6, <3>7
        <3>9. ~(r <= RateOver(D))
            <4>1. CASE n * Q > 0
                <5> DEFINE p == n * Q
                <5>1. p \in Nat /\ p > 0 /\ RateOver(D) = Rate(A, p) /\ ~(2 * (p * r) <= 20000 * A + p)
                    BY <1>4, <1>5, <3>8, <4>1
                <5> HIDE DEF p
                <5>2. ~(r <= Rate(A, p))
                    BY <1>4, <3>1, <5>1, RateIs
                <5> QED
                    BY <5>1, <5>2
            <4>2. CASE n * Q = 0
                <5>1. (n * Q) * r = 0
                    BY <3>1, <4>2
                <5> QED
                    BY <1>4, <3>8, <4>2, <5>1
            <4> QED
                BY <1>5, <4>1, <4>2
        <3> QED
            BY <1>3, <1>6, <3>1, <3>9 DEF r
    <2> QED
        BY <1>3, <1>6, <2>2, <2>3 DEF low, high
<1> QED
    BY <1>1, <1>7, <1>8

\* The rows of attendance, and their reported days, are such days and weeks.
LEMMA ReportIs ==
    ASSUME RInv, attendance # {}, NEW east \in BOOLEAN, NEW k,
           k = [m \in attendance |-> ReportedDay(east, m.day)],
           NEW daily, daily = DailyMetrics(east, attendance),
           NEW weekly, weekly = WeeklySummaries(daily),
           NEW n, n = Cardinality(enrolled)
    PROVE  /\ DaysOK(daily, attendance, k, n) /\ WeeksOK(weekly, daily, attendance, k, n)
           /\ daily # {} /\ n \in Nat /\ IsFiniteSet(enrolled) /\ IsFiniteSet(attendance)
<1>1. IsFiniteSet(enrolled) /\ IsFiniteSet(attendance)
    <2>1. enrolled \in SUBSET Pupils /\ IsFiniteSet(Pupils)
        BY PupilsAssumption DEF RInv, Shape
    <2>2. IsFiniteSet(attendance)
        BY DEF RInv, Shape, Table
    <2> QED
        BY <2>1, <2>2, FS_Subset
<1>2. n \in Nat
    BY <1>1, FS_CardinalityType
<1>3. \A m \in attendance : k[m] = ReportedDay(east, m.day)
    OBVIOUS
<1>4. DaysOK(daily, attendance, k, n)
    BY <1>1, <1>2, <1>3, DailyIs
<1>5. WeeksOK(weekly, daily, attendance, k, n)
    BY <1>4, WeeklyIs
<1>6. daily # {}
    BY <1>4 DEF DaysOK
<1> QED
    BY <1>1, <1>2, <1>4, <1>5, <1>6

\* With the clock of the rows a week counts the presences from its Monday to its Sunday.
LEMMA WeekHasItsDays ==
    ASSUME NEW W, NEW D, NEW M, NEW k, NEW n, DaysOK(D, M, k, n), WeeksOK(W, D, M, k, n),
           \A m \in M : k[m] = m.day /\ m.day \in Nat, NEW w \in W
    PROVE  w.actual = Cardinality({m \in Present(M) : m.day \in w.start..(w.start + 6)})
<1>1. PICK d \in D : w.start = WeekStart(d.day)
    BY DEF WeeksOK
<1>2. PICK x \in M : d.day = k[x]
    BY DEF DaysOK
<1>3. w.start = WeekStart(x.day) /\ x.day \in Nat
    BY <1>1, <1>2
<1>4. \A m \in M : WeekStart(k[m]) = w.start <=> m.day \in w.start..(w.start + 6)
    <2> SUFFICES ASSUME NEW m \in M
                 PROVE  WeekStart(k[m]) = w.start <=> m.day \in w.start..(w.start + 6)
        OBVIOUS
    <2>1. k[m] = m.day /\ m.day \in Nat
        OBVIOUS
    <2>2. WeekStart(m.day) = WeekStart(x.day)
              <=> m.day \in WeekStart(x.day)..(WeekStart(x.day) + 6)
        BY <1>3, <2>1, WeekIs
    <2> QED
        BY <1>3, <2>1, <2>2
<1>5. {m \in M : m.present /\ WeekStart(k[m]) = w.start}
          = {m \in Present(M) : m.day \in w.start..(w.start + 6)}
    BY <1>4 DEF Present
<1>6. w.actual = Cardinality({m \in M : m.present /\ WeekStart(k[m]) = w.start})
    BY DEF WeeksOK
<1> QED
    BY <1>5, <1>6

\* Between weeks of as many days the rate follows the presences.
LEMMA TrendsFollow ==
    ASSUME NEW W, NEW D, NEW M, NEW k, NEW n, DaysOK(D, M, k, n), WeeksOK(W, D, M, k, n)
    PROVE  TrendsFollowPresences(W)
<1> SUFFICES ASSUME NEW v \in W, NEW w \in W, v.days = w.days
             PROVE  /\ Trend(v, w) = "improving" => w.actual > v.actual
                    /\ Trend(v, w) = "declining" => w.actual < v.actual
    BY DEF TrendsFollowPresences
<1> DEFINE a == v.actual
           b == w.actual
           p == n * v.days
<1>1. /\ a \in Nat /\ b \in Nat /\ v.days \in Nat /\ n \in Nat
      /\ v.rate = Rate(a, p) /\ w.rate = Rate(b, p)
    <2>1. n \in Nat
        BY DEF DaysOK
    <2>2. \A u \in W : u.actual \in Nat /\ u.days \in Nat /\ u.rate = Rate(u.actual, n * u.days)
        BY WeekNumbers
    <2> QED
        BY <2>1, <2>2
<1>2. p \in Nat
    BY <1>1, Products
<1> HIDE DEF a, b, p
<1>3. Rate(a, p) \in Nat /\ Rate(b, p) \in Nat
    BY <1>1, <1>2, RateIsNat
<1>4. b <= a => Rate(b, p) <= Rate(a, p)
    BY <1>1, <1>2, RateGrows
<1>5. a <= b => Rate(a, p) <= Rate(b, p)
    BY <1>1, <1>2, RateGrows
<1>6. Trend(v, w) = "improving" => ~(b <= a)
    BY <1>1, <1>3, <1>4 DEF Trend
<1>7. Trend(v, w) = "declining" => ~(a <= b)
    BY <1>1, <1>3, <1>5 DEF Trend
<1>8. ~(b <= a) => b > a
    BY <1>1
<1>9. ~(a <= b) => b < a
    BY <1>1
<1> QED
    BY <1>6, <1>7, <1>8, <1>9 DEF a, b

\* Where each pupil enrolled has at most one row for a day, and nobody else has one, the
\* rows of a day are no more than the class, and all the rows no more than all its places.
LEMMA RowsHavePlaces ==
    ASSUME NEW D, NEW M, NEW k, NEW E, IsFiniteSet(E), DaysOK(D, M, k, Cardinality(E)),
           \A m \in M : m.student \in E,
           \A l, m \in M : l.student = m.student /\ k[l] = k[m] => l = m
    PROVE  /\ \A d \in D : /\ d.actual \in Nat /\ d.absent \in Nat
                           /\ d.actual + d.absent <= Cardinality(E)
           /\ Cardinality(M) <= Cardinality(E) * Cardinality(D)
<1> DEFINE n == Cardinality(E)
           At(d) == AtKey(M, k, d.day)
           dayOf == [m \in M |-> CHOOSE d \in D : d.day = k[m]]
           t == [d \in D |-> Cardinality(At(d))]
           c == [d \in D |-> n]
<1>1. IsFiniteSet(D) /\ IsFiniteSet(M) /\ n \in Nat
    BY DEF DaysOK
<1>2. \A d \in D : At(d) \in SUBSET M
    BY DEF AtKey
<1>3. \A R \in SUBSET M : IsFiniteSet(R) /\ Cardinality(R) \in Nat
    BY <1>1, FS_Subset, FS_CardinalityType
<1>4. ASSUME NEW d \in D
      PROVE  /\ d.actual \in Nat /\ d.absent \in Nat
             /\ d.actual + d.absent = Cardinality(At(d))
    <2> DEFINE u == {m \in M : m.present /\ k[m] = d.day}
               v == {m \in M : ~m.present /\ k[m] = d.day}
    <2>1. d.actual = Cardinality(u) /\ d.absent = Cardinality(v)
        BY DEF DaysOK
    <2>2. u \in SUBSET M /\ v \in SUBSET M
        OBVIOUS
    <2>3. At(d) = u \union v /\ u \intersect v = {}
        BY DEF AtKey
    <2> HIDE DEF u, v, At
    <2>4. /\ IsFiniteSet(u) /\ IsFiniteSet(v)
          /\ Cardinality(u) \in Nat /\ Cardinality(v) \in Nat
        BY <1>3, <2>2
    <2>5. Cardinality(u \union v) = Cardinality(u) + Cardinality(v)
        <3>1. Cardinality(u \intersect v) = 0
            BY <2>3, FS_EmptySet
        <3>2. Cardinality(u \union v)
                  = Cardinality(u) + Cardinality(v) - Cardinality(u \intersect v)
            BY <2>4, FS_Union
        <3> QED
            BY <2>4, <3>1, <3>2
    <2> QED
        BY <2>1, <2>3, <2>4, <2>5
<1>5. ASSUME NEW d \in D
      PROVE  Cardinality(At(d)) <= n
    <2> DEFINE r == At(d)
               who == [m \in r |-> m.student]
    <2>1. who \in Injection(r, E)
        <3>1. \A m \in r : m \in M /\ k[m] = d.day
            BY DEF AtKey
        <3>2. who \in [r -> E]
            BY <3>1
        <3>3. \A l, m \in r : who[l] = who[m] => l = m
            BY <3>1
        <3> HIDE DEF who, r
        <3> QED
            BY <3>2, <3>3 DEF Injection, IsInjective
    <2> HIDE DEF r, who
    <2>2. Cardinality(r) <= Cardinality(E)
        BY <2>1, FS_Injection
    <2> QED
        BY <2>2 DEF r
<1>6. Cardinality(M) <= n * Cardinality(D)
    <2>1. \A m \in M : dayOf[m] \in D /\ \A d \in D : dayOf[m] = d <=> d.day = k[m]
        BY DEF DaysOK
    <2> HIDE DEF dayOf
    <2>2. \A d \in D : AtKey(M, dayOf, d) = At(d)
        BY <2>1 DEF AtKey
    <2>3. AtKeys(M, dayOf, D) = M
        BY <2>1 DEF AtKeys
    <2>4. \A d \in D : /\ t[d] = Cardinality(AtKey(M, dayOf, d))
                       /\ t[d] \in Int /\ c[d] \in Int /\ t[d] <= c[d] /\ c[d] = n
        BY <1>1, <1>2, <1>3, <1>5, <2>2
    <2> HIDE DEF t, c, At
    <2>5. SumFunctionOnSet(t, D) = Cardinality(AtKeys(M, dayOf, D))
        BY <1>1, <2>4, SumByKey
    <2>6. SumFunctionOnSet(t, D) <= SumFunctionOnSet(c, D)
        BY <1>1, <2>4, SumMonotone
    <2>7. SumFunctionOnSet(c, D) = n * Cardinality(D)
        BY <1>1, <2>4, SumConstant
    <2> QED
        BY <2>3, <2>5, <2>6, <2>7
<1> QED
    BY <1>1, <1>4, <1>5, <1>6

\* Without rows entered twice or of pupils who left the report is never above the summary.
LEMMA StraysOnly ==
    ASSUME RInv, attendance # {}, NEW east \in BOOLEAN
    PROVE  FullOnlyByStrays(DailyMetrics(east, attendance))
<1> DEFINE D == DailyMetrics(east, attendance)
           M == attendance
           E == enrolled
           k == [m \in M |-> ReportedDay(east, m.day)]
           n == Cardinality(E)
           W == WeeklySummaries(D)
<1> SUFFICES ASSUME doubled = {}, \A m \in M : m.student \in E
             PROVE  /\ \A d \in D : d.actual + d.absent <= d.possible
                                     /\ Rate(d.actual, d.possible) <= 10000
                    /\ RateOver(D) <= SummaryRate
                    /\ Cardinality(M) = n * Cardinality(D) => RateOver(D) = SummaryRate
    BY DEF FullOnlyByStrays
<1>1. /\ DaysOK(D, M, k, n) /\ WeeksOK(W, D, M, k, n)
      /\ n \in Nat /\ IsFiniteSet(E) /\ IsFiniteSet(M)
    <2> HIDE DEF D, W, k, n
    <2> QED
        BY ReportIs DEF D, W, k, n
<1>2. \A l, m \in M : l.student = m.student /\ k[l] = k[m] => l = m
    <2> SUFFICES ASSUME NEW l \in M, NEW m \in M, l.student = m.student, k[l] = k[m]
                 PROVE  l = m
        OBVIOUS
    <2>1. /\ l.student \in Pupils /\ l.day \in Days /\ m.day \in Days
          /\ l.day \in Int /\ m.day \in Int
        BY DaysAssumption DEF RInv, Shape, MarkRows
    <2>2. l.day = m.day
        BY <2>1 DEF ReportedDay
    <2>3. \A x, y \in M : IsMark(x, l.student, l.day) /\ IsMark(y, l.student, l.day) => x = y
        BY <2>1 DEF RInv, SheetOK
    <2> QED
        BY <2>2, <2>3 DEF IsMark
<1> HIDE DEF D, W, k
<1>3. /\ \A d \in D : /\ d.actual \in Nat /\ d.absent \in Nat
                         /\ d.actual + d.absent <= n
      /\ Cardinality(M) <= n * Cardinality(D)
    BY <1>1, <1>2, RowsHavePlaces
<1>4. \A d \in D : d.possible = n
    BY <1>1 DEF DaysOK
<1> HIDE DEF n
<1>5. ASSUME NEW d \in D
      PROVE  d.actual + d.absent <= d.possible /\ Rate(d.actual, d.possible) <= 10000
    <2> DEFINE a == d.actual
               b == d.absent
    <2>1. a \in Nat /\ b \in Nat /\ a + b <= n /\ d.possible = n
        BY <1>3, <1>4
    <2> HIDE DEF a, b
    <2>2. a <= n
        BY <1>1, <2>1
    <2>3. Rate(a, n) <= 10000
        BY <1>1, <2>1, <2>2, RateAtMostAll
    <2> QED
        BY <2>1, <2>3 DEF a, b
<1> DEFINE A == Cardinality(Present(M))
           p == n * Cardinality(D)
           q == Cardinality(M)
<1>6. A \in Nat /\ p \in Nat /\ q \in Nat /\ 0 < q
    <2>1. Present(M) \in SUBSET M
        BY DEF Present
    <2>2. A \in Nat /\ q \in Nat
        BY <1>1, <2>1, FS_Subset, FS_CardinalityType
    <2>3. q # 0
        BY <1>1, FS_EmptySet
    <2>4. Cardinality(D) \in Nat
        BY <1>1, FS_CardinalityType DEF DaysOK
    <2>5. p \in Nat
        BY <1>1, <2>4, Products
    <2> QED
        BY <2>2, <2>3, <2>5
<1>7. RateOver(D) = Rate(A, p)
    <2>1. Actual(D) = A
        BY <1>1, WeekTotals
    <2>2. D \in SUBSET D
        OBVIOUS
    <2>3. Possible(D) = p
        BY <1>1, <2>2, TotalsAre
    <2> QED
        BY <2>1, <2>3 DEF RateOver
<1>8. SummaryRate = Rate(A, q)
    BY DEF SummaryRate
<1> HIDE DEF A, p, q
<1>9. q <= p
    BY <1>3 DEF p, q
<1>10. Rate(A, p) <= Rate(A, q)
    BY <1>6, <1>9, RateFalls
<1>11. q = p => Rate(A, p) = Rate(A, q)
    OBVIOUS
<1> QED
    BY <1>5, <1>7, <1>8, <1>10, <1>11 DEF p, q

\* The weeks of a report account for its presences.
LEMMA WeeksAccount ==
    ASSUME RInv, attendance # {}, NEW east \in BOOLEAN,
           NEW daily, daily = DailyMetrics(east, attendance),
           NEW weekly, weekly = WeeklySummaries(daily)
    PROVE  /\ WeeksAccountForAll(east, daily, weekly)
           /\ TrendsFollowPresences(weekly)
<1> DEFINE M == attendance
           k == [m \in M |-> ReportedDay(east, m.day)]
           n == Cardinality(enrolled)
<1>1. DaysOK(daily, M, k, n) /\ WeeksOK(weekly, daily, M, k, n) /\ daily # {}
    <2> HIDE DEF k, n
    <2> QED
        BY ReportIs DEF k, n
<1>2. ~east => \A m \in M : k[m] = m.day /\ m.day \in Nat
    BY DaysAssumption DEF ReportedDay, RInv, Shape, MarkRows
<1> HIDE DEF k, n, M
<1>3. Actual(daily) = Cardinality(Present(M)) /\ Actual(weekly) = Cardinality(Present(M))
    BY <1>1, WeekTotals
<1>4. ~east => \A w \in weekly :
          w.actual = Cardinality({m \in Present(M) : m.day \in w.start..(w.start + 6)})
    BY <1>1, <1>2, WeekHasItsDays
<1>5. LET rates == {w.rate : w \in weekly} IN RateOver(daily) \in Min(rates)..Max(rates)
    BY <1>1, RateBetweenWeeks
<1>6. TrendsFollowPresences(weekly)
    BY <1>1, TrendsFollow
<1> QED
    BY <1>3, <1>4, <1>5, <1>6 DEF WeeksAccountForAll, M

\* getAttendanceReports counts every presence once and in its week, its rate is between
\* those of its weeks, and it agrees with getAttendanceSummary, for any class and days and
\* whatever overlapping requests and leavers left in the table.
THEOREM ReportCounts == RegSpec => []ReportAddsUp
<1>1. RInv => ReportAddsUp
    BY StraysOnly, WeeksAccount DEF ReportAddsUp
<1> QED
    BY <1>1, RegistersKeepInv, PTL
=============================================================================
