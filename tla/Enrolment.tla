----------------------------- MODULE Enrolment -----------------------------
(***************************************************************************)
(* Terms and enrolments, as requests that overlap see them.  Every service *)
(* method reads with one query and writes with a later one, outside any    *)
(* transaction; one step here is one query and the code up to the next     *)
(* await.  Nothing is written before the last query of a request, so one   *)
(* that throws, on whatever ground, leaves no trace (GiveUp).              *)
(***************************************************************************)
EXTENDS Integers, FiniteSets

CONSTANTS
    Requests,      \* requests served at a time
    Students,
    Classes,
    Terms,         \* the pairs of num and year
    None,          \* what a request has not read or been given
    MaxBatch       \* students in the body of one enrolStudent

ASSUME NoneAssumption == None \notin Students \union Classes \union Terms
ASSUME FiniteAssumption == IsFiniteSet(Students)

VARIABLES
    terms,         \* the id of each term, 0 without a row
    lastTermId,
    rows,          \* table enrol
    lastId,        \* its id sequence
    desk,          \* what each request has read so far
    removed,       \* history: ids unenrolled
    contested,     \* history: those an update held at that moment
    raced          \* history: ids linked to a term between a deletion's count and its end

vars == <<terms, lastTermId, rows, lastId, desk, removed, contested, raced>>

TermIds == {terms[k] : k \in Terms} \ {0}

\* `seen' is history: every row up to this id was there for the check that let the
\* row in.  A row without its term has termId 0; num and year (`term') stay.
NoRow ==
    [id |-> 0, name |-> None, term |-> None, termId |-> 0, student |-> None,
     seen |-> 0, migrated |-> FALSE]

\* The rows to save are numbered from 1; `movers' are the students migrateClass found,
\* `fresh' the rows linked to a term since the deletion of `row.termId' counted.
Blank ==
    [phase |-> "idle", row |-> NoRow, batch |-> {}, size |-> 0, movers |-> {},
     fresh |-> {}]

Init ==
    /\ terms = [k \in Terms |-> 0] /\ lastTermId = 0
    /\ rows = {} /\ lastId = 0
    /\ desk = [r \in Requests |-> Blank]
    /\ removed = {} /\ contested = {} /\ raced = {}

Become(r, d) == desk' = [desk EXCEPT ![r] = d]

\* The rows `ids' get a term: a deletion that has counted misses them.
Linked(r, ids) ==
    desk' = [q \in Requests |->
                IF q = r THEN Blank
                ELSE IF desk[q].phase = "counted"
                     THEN [desk[q] EXCEPT !.fresh = @ \union ids]
                     ELSE desk[q]]

Same(a, n, k, s) == a.name = n /\ a.term = k /\ a.student = s

-----------------------------------------------------------------------------
(* enrolStudent: the dtos of the body one after the other, then one save    *)

\* The term of the next dto, by id or by number and year; without one it throws.
ResolveDto(r, n, k, s) ==
    /\ desk[r].phase \in {"idle", "enrolling"} /\ desk[r].size < MaxBatch
    /\ terms[k] # 0
    /\ Become(r, [desk[r] EXCEPT !.phase = "checking",
                                 !.row = [NoRow EXCEPT !.name = n, !.term = k,
                                             !.termId = terms[k], !.student = s]])
    /\ UNCHANGED <<terms, lastTermId, rows, lastId, removed, contested, raced>>

\* Mutant: looks for a row linked to the term, and misses one that lost its link.
CheckDtoMutant(r) ==
    LET d == desk[r].row IN
    /\ desk[r].phase = "checking"
    /\ IF \E a \in rows : Same(a, d.name, d.term, d.student) /\ a.termId = d.termId
       THEN Become(r, [desk[r] EXCEPT !.phase = "enrolling", !.row = NoRow])
       ELSE Become(r, [desk[r] EXCEPT !.phase = "enrolling", !.row = NoRow, !.size = @ + 1,
                          !.batch = @ \union {[d EXCEPT !.id = desk[r].size + 1,
                                                        !.seen = lastId]}])
    /\ UNCHANGED <<terms, lastTermId, rows, lastId, removed, contested, raced>>

\* A dto whose student is in that class already is skipped.
CheckDto(r) ==
    LET d == desk[r].row IN
    /\ desk[r].phase = "checking"
    /\ IF \E a \in rows : Same(a, d.name, d.term, d.student)
       THEN Become(r, [desk[r] EXCEPT !.phase = "enrolling", !.row = NoRow])
       ELSE Become(r, [desk[r] EXCEPT !.phase = "enrolling", !.row = NoRow, !.size = @ + 1,
                          !.batch = @ \union {[d EXCEPT !.id = desk[r].size + 1,
                                                        !.seen = lastId]}])
    /\ UNCHANGED <<terms, lastTermId, rows, lastId, removed, contested, raced>>

\* Mutant: the sequence counts saves, not rows.
InsertMutant(r) ==
    LET new == {[e EXCEPT !.id = lastId + e.id] : e \in desk[r].batch} IN
    /\ \A e \in new : e.termId \in TermIds
    /\ rows' = rows \union new
    /\ lastId' = lastId + 1
    /\ Linked(r, {e.id : e \in new})
    /\ UNCHANGED <<terms, lastTermId, removed, contested, raced>>

\* The foreign key refuses a term that is gone, and the whole batch with it.
Insert(r) ==
    LET new == {[e EXCEPT !.id = lastId + e.id] : e \in desk[r].batch} IN
    /\ \A e \in new : e.termId \in TermIds
    /\ rows' = rows \union new
    /\ lastId' = lastId + desk[r].size
    /\ Linked(r, {e.id : e \in new})
    /\ UNCHANGED <<terms, lastTermId, removed, contested, raced>>

SaveEnrolments(r) == desk[r].phase = "enrolling" /\ Insert(r)

-----------------------------------------------------------------------------
(* migrateClass, updateEnrolment, unenrolStudent                           *)

\* The students of the source class; without any it throws.
ReadSource(r, n, k, to, next) ==
    LET movers == {a.student : a \in {b \in rows : b.name = n /\ b.term = k}} IN
    /\ desk[r].phase = "idle" /\ movers # {}
    /\ Become(r, [Blank EXCEPT !.phase = "migrating", !.movers = movers,
                               !.row = [NoRow EXCEPT !.name = to, !.term = next,
                                                     !.migrated = TRUE]])
    /\ UNCHANGED <<terms, lastTermId, rows, lastId, removed, contested, raced>>

\* A student in any class of the destination term stays where he is.
ReadDestination(r) ==
    LET d == desk[r].row
        there == {a.student : a \in {b \in rows : b.term = d.term}} IN
    /\ desk[r].phase = "migrating"
    /\ Become(r, [desk[r] EXCEPT !.phase = "compared", !.movers = @ \ there,
                                 !.row.seen = lastId])
    /\ UNCHANGED <<terms, lastTermId, rows, lastId, removed, contested, raced>>

\* The destination term, then one new enrolment for each student, in some order.
ResolveDestination(r) ==
    LET d == desk[r].row
        movers == desk[r].movers IN
    /\ desk[r].phase = "compared" /\ movers # {}
    /\ terms[d.term] # 0
    /\ \E place \in [movers -> 1..Cardinality(movers)] :
          /\ \A s, t \in movers : s # t => place[s] # place[t]
          /\ Become(r, [desk[r] EXCEPT
                !.phase = "placing", !.size = Cardinality(movers),
                !.batch = {[d EXCEPT !.id = place[s], !.student = s,
                                     !.termId = terms[d.term]] : s \in movers}])
    /\ UNCHANGED <<terms, lastTermId, rows, lastId, removed, contested, raced>>

SaveMigration(r) == desk[r].phase = "placing" /\ Insert(r)

ResolveUpdate(r, n, k, s) ==
    /\ desk[r].phase = "idle" /\ terms[k] # 0
    /\ Become(r, [Blank EXCEPT !.phase = "updating",
                               !.row = [NoRow EXCEPT !.name = n, !.term = k,
                                           !.termId = terms[k], !.student = s]])
    /\ UNCHANGED <<terms, lastTermId, rows, lastId, removed, contested, raced>>

\* Mutant: number and year left out of the search.
FindEnrolmentMutant(r) ==
    LET d == desk[r].row IN
    /\ desk[r].phase = "updating"
    /\ \E a \in rows :
          /\ a.name = d.name /\ a.student = d.student
          /\ Become(r, [desk[r] EXCEPT !.phase = "found",
                                       !.row = [a EXCEPT !.termId = d.termId]])
    /\ UNCHANGED <<terms, lastTermId, rows, lastId, removed, contested, raced>>

\* The first row that matches, whichever that is, linked to the term resolved.
FindEnrolment(r) ==
    LET d == desk[r].row IN
    /\ desk[r].phase = "updating"
    /\ \E a \in rows :
          /\ Same(a, d.name, d.term, d.student)
          /\ Become(r, [desk[r] EXCEPT !.phase = "found",
                                       !.row = [a EXCEPT !.termId = d.termId]])
    /\ UNCHANGED <<terms, lastTermId, rows, lastId, removed, contested, raced>>

\* save() of a loaded row: an UPDATE, or an INSERT with its id if the row is gone.
SaveUpdate(r) ==
    LET d == desk[r].row IN
    /\ desk[r].phase = "found" /\ d.termId \in TermIds
    /\ rows' = {a \in rows : a.id # d.id} \union {d}
    /\ Linked(r, {d.id})
    /\ UNCHANGED <<terms, lastTermId, lastId, removed, contested, raced>>

\* Mutant: the row is returned, and not deleted.
UnenrolMutant(a) ==
    /\ a \in rows
    /\ removed' = removed \union {a.id}
    /\ contested' = contested \union
          {i \in {a.id} : \E r \in Requests : desk[r].phase = "found" /\ desk[r].row.id = i}
    /\ UNCHANGED <<terms, lastTermId, rows, lastId, desk, raced>>

\* The find before the DELETE only gives the value returned.
Unenrol(a) ==
    /\ a \in rows
    /\ rows' = {b \in rows : b.id # a.id}
    /\ removed' = removed \union {a.id}
    /\ contested' = contested \union
          {i \in {a.id} : \E r \in Requests : desk[r].phase = "found" /\ desk[r].row.id = i}
    /\ UNCHANGED <<terms, lastTermId, lastId, desk, raced>>

-----------------------------------------------------------------------------
(* Terms                                                                   *)

\* Number and year are unique: a second createTerm fails.
CreateTerm(k) ==
    /\ terms[k] = 0
    /\ terms' = [terms EXCEPT ![k] = lastTermId + 1]
    /\ lastTermId' = lastTermId + 1
    /\ UNCHANGED <<rows, lastId, desk, removed, contested, raced>>

\* deleteTerm and deleteTermById find the same row.
FindTerm(r, k, next) ==
    /\ desk[r].phase = "idle" /\ terms[k] # 0
    /\ Become(r, [Blank EXCEPT !.phase = next,
                               !.row = [NoRow EXCEPT !.term = k, !.termId = terms[k]]])
    /\ UNCHANGED <<terms, lastTermId, rows, lastId, removed, contested, raced>>

\* ensureTermHasNoEnrolments: rows linked to the term or with its number and year.
CountEnrolments(r) ==
    LET d == desk[r].row IN
    /\ desk[r].phase = "deleting"
    /\ \A a \in rows : a.termId # d.termId /\ a.term # d.term
    /\ Become(r, [desk[r] EXCEPT !.phase = "counted"])
    /\ UNCHANGED <<terms, lastTermId, rows, lastId, removed, contested, raced>>

\* DELETE by id, which sets termId of the rows linked to it to NULL.
RemoveTerm(r) ==
    LET d == desk[r].row IN
    /\ desk[r].phase = "counted"
    /\ terms' = [k \in Terms |-> IF terms[k] = d.termId THEN 0 ELSE terms[k]]
    /\ rows' = {IF a.termId = d.termId THEN [a EXCEPT !.termId = 0] ELSE a : a \in rows}
    /\ raced' = raced \union desk[r].fresh
    /\ Become(r, Blank)
    /\ UNCHANGED <<lastTermId, lastId, removed, contested>>

\* editTerm saves the row it loaded: a term deleted meanwhile is inserted again with
\* its id, unless another has taken its number and year.
SaveTerm(r) ==
    LET d == desk[r].row IN
    /\ desk[r].phase = "editing" /\ terms[d.term] \in {0, d.termId}
    /\ terms' = [terms EXCEPT ![d.term] = d.termId]
    /\ Become(r, Blank)
    /\ UNCHANGED <<lastTermId, rows, lastId, removed, contested, raced>>

\* An exception of the service, a constraint, a failed query: nothing was written.
GiveUp(r) ==
    /\ desk[r].phase # "idle"
    /\ Become(r, Blank)
    /\ UNCHANGED <<terms, lastTermId, rows, lastId, removed, contested, raced>>

Next ==
    \/ \E r \in Requests :
          \/ \E n \in Classes, k \in Terms, s \in Students : ResolveDto(r, n, k, s)
          \/ CheckDto(r)
          \/ SaveEnrolments(r)
          \/ \E n, to \in Classes, k, next \in Terms : ReadSource(r, n, k, to, next)
          \/ ReadDestination(r)
          \/ ResolveDestination(r)
          \/ SaveMigration(r)
          \/ \E n \in Classes, k \in Terms, s \in Students : ResolveUpdate(r, n, k, s)
          \/ FindEnrolment(r)
          \/ SaveUpdate(r)
          \/ \E k \in Terms, next \in {"deleting", "editing"} : FindTerm(r, k, next)
          \/ CountEnrolments(r)
          \/ RemoveTerm(r)
          \/ SaveTerm(r)
          \/ GiveUp(r)
    \/ \E a \in rows : Unenrol(a)
    \/ \E k \in Terms : CreateTerm(k)

Spec == Init /\ [][Next]_vars

-----------------------------------------------------------------------------
(* Properties                                                              *)

EnrolRecords ==
    [id : Nat, name : Classes, term : Terms, termId : Nat, student : Students,
     seen : Nat, migrated : BOOLEAN]

PartialRecords ==
    [id : Nat, name : Classes \union {None}, term : Terms \union {None}, termId : Nat,
     student : Students \union {None}, seen : Nat, migrated : BOOLEAN]

Phases ==
    {"idle", "enrolling", "checking", "migrating", "compared", "placing", "updating",
     "found", "deleting", "counted", "editing"}

\* Ids come from the sequences and are those of one row or of one term.
TypeOK ==
    /\ terms \in [Terms -> Nat] /\ lastTermId \in Nat /\ lastId \in Nat
    /\ \A k \in Terms : terms[k] <= lastTermId
    /\ rows \subseteq EnrolRecords
    /\ \A a \in rows : a.id \in 1..lastId
    /\ \A a, b \in rows : a.id = b.id => a = b
    /\ desk \in [Requests -> [phase : Phases, row : PartialRecords,
                              batch : SUBSET EnrolRecords, size : Nat,
                              movers : SUBSET Students, fresh : SUBSET Nat]]
    /\ removed \subseteq Nat /\ contested \subseteq Nat /\ raced \subseteq Nat

\* A student is twice in a class only if the second row was checked before the first
\* was saved (overlapping requests, or one body that names the student twice), or if
\* the first had been unenrolled and an update brought it back.
EnrolledTwiceOnlyByOverlap ==
    \A a, b \in rows :
        Same(a, b.name, b.term, b.student) /\ a.id < b.id /\ ~b.migrated
            => a.id > b.seen \/ a.id \in removed

\* Migration adds nobody who was in any class of the destination term when it looked.
MigratedIntoOneClass ==
    \A a, b \in rows :
        a.term = b.term /\ a.student = b.student /\ a.id < b.id /\ b.migrated
            => a.id > b.seen \/ a.id \in removed

\* Neither enrolling nor migrating places a student twice, but for the overlaps and
\* revivals the two parts name.
PlacedOnce == EnrolledTwiceOnlyByOverlap /\ MigratedIntoOneClass

\* termId and the copies of number and year never name different terms, through
\* deletion, re-creation and revival of terms.
LinkAgreesWithTerm ==
    \A a \in rows : a.termId # 0 => terms[a.term] = a.termId

\* Only an enrolment saved between the count and the end of a deletion loses its term.
OrphansOnlyByRace ==
    \A a \in rows : a.termId = 0 => a.id \in raced

\* Every enrolment is linked to the term it names, except one saved while that term was
\* being deleted.
TermLinksSound == LinkAgreesWithTerm /\ OrphansOnlyByRace

\* A row that was deleted is back only if an update had loaded it before.
UnenrolledStaysOut ==
    \A a \in rows : a.id \in removed => a.id \in contested
=============================================================================
