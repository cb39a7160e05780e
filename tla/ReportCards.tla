---------------------------- MODULE ReportCards ----------------------------
(***************************************************************************)
(* Marks and report cards of one class, term and exam, as requests that    *)
(* overlap see them.  No method uses a transaction: one step is one query  *)
(* and the code up to the next await.  A teacher's session generates cards *)
(* with one request, writes on them at the client, and saves them with     *)
(* another.  A card is stored as one JSON document, of which the model     *)
(* keeps the note: the comments of head and form teacher.                  *)
(***************************************************************************)
EXTENDS Integers, FiniteSets, FiniteSetsExt, Folds

CONSTANTS
    Requests,      \* requests and sessions at a time
    Students,
    Subjects,
    Scores,
    None,          \* no student, no subject, no note
    MaxEnrolled    \* rows of one student in the class list

ASSUME ScoresAssumption == Scores \subseteq Nat /\ 0 \in Scores
ASSUME NoneAssumption == None \notin Students \union Subjects \union Requests
ASSUME StudentsAssumption == IsFiniteSet(Students) /\ MaxEnrolled \in Nat

VARIABLES
    classList,     \* how often each student is enrolled in the class
    marks,         \* table marks
    lastMark,      \* its id sequence
    reports,       \* table reports
    lastReport,    \* its id sequence
    release,       \* the row of report_releases, if there is one
    desk,          \* what each request has read so far
    saves          \* history: how often reports were saved

vars == <<classList, marks, lastMark, reports, lastReport, release, desk, saves>>

\* `seen' is history: rows up to this id were there for the search before the insert.
NoMark == [id |-> 0, student |-> None, subject |-> None, score |-> 0, seen |-> 0]

\* `open' and `viewed' are history: whether the cards were released at some moment of
\* the request, and how often reports had been saved when it merged the stored notes.
Blank ==
    [phase |-> "idle", mark |-> NoMark, marks |-> {}, cards |-> {}, rows |-> {},
     shown |-> {}, flag |-> FALSE, open |-> FALSE, viewed |-> 0]

Init ==
    /\ classList \in [Students -> 0..MaxEnrolled]
    /\ marks = {} /\ lastMark = 0
    /\ reports = {} /\ lastReport = 0 /\ release = "none"
    /\ desk = [r \in Requests |-> Blank]
    /\ saves = 0

Become(r, d) == desk' = [desk EXCEPT ![r] = d]

-----------------------------------------------------------------------------
(* createMark, deleteMark                                                  *)

\* The row of that student and subject, or else a new one.
FindMark(r, s, u, v) ==
    LET there == {m \in marks : m.student = s /\ m.subject = u} IN
    /\ desk[r].phase = "idle"
    /\ \E m \in IF there # {} THEN there
                ELSE {[id |-> 0, student |-> s, subject |-> u, score |-> v, seen |-> lastMark]} :
          Become(r, [Blank EXCEPT !.phase = "marking", !.mark = [m EXCEPT !.score = v]])
    /\ UNCHANGED <<classList, marks, lastMark, reports, lastReport, release, saves>>

\* The UPDATE of a row deleted meanwhile changes nothing, and is no error.
UpdateMark(r) ==
    LET m == desk[r].mark IN
    /\ desk[r].phase = "marking" /\ m.id # 0
    /\ marks' = {IF a.id = m.id THEN [a EXCEPT !.score = m.score] ELSE a : a \in marks}
    /\ Become(r, Blank)
    /\ UNCHANGED <<classList, lastMark, reports, lastReport, release, saves>>

InsertMark(r) ==
    /\ desk[r].phase = "marking" /\ desk[r].mark.id = 0
    /\ marks' = marks \union {[desk[r].mark EXCEPT !.id = lastMark + 1]}
    /\ lastMark' = lastMark + 1
    /\ Become(r, Blank)
    /\ UNCHANGED <<classList, reports, lastReport, release, saves>>

DeleteMark(m) ==
    /\ m \in marks
    /\ marks' = marks \ {m}
    /\ UNCHANGED <<classList, lastMark, reports, lastReport, release, desk, saves>>

-----------------------------------------------------------------------------
(* generateReports                                                         *)

ReadMarks(r) ==
    /\ desk[r].phase = "idle"
    /\ Become(r, [Blank EXCEPT !.phase = "marked", !.marks = marks])
    /\ UNCHANGED <<classList, marks, lastMark, reports, lastReport, release, saves>>

\* The ranking loop over the marks of a subject, the lowest coming last: equal marks
\* share a rank, the next one counts them all.
Position(read, m) ==
    LET lowest(s) == CHOOSE a \in s : \A b \in s : a.score <= b.score
        next(a, acc) == IF a.score < acc.last THEN acc.index + 1 ELSE acc.rank
        step(a, acc) == [rank |-> next(a, acc), last |-> a.score, index |-> acc.index + 1,
                         own |-> IF a = m THEN next(a, acc) ELSE acc.own]
    IN MapThenFoldSet(step, [rank |-> 1, last |-> -1, index |-> 0, own |-> 0],
                      LAMBDA a : a, lowest, {a \in read : a.subject = m.subject}).own

Of(read, s) == {m \in read : m.student = s}

Total(read, s) == MapThenSumSet(LAMBDA m : m.score, Of(read, s))

\* The average of s is above that of t.
Higher(read, s, t) ==
    Total(read, s) * Cardinality(Of(read, t)) > Total(read, t) * Cardinality(Of(read, s))

\* The enrolments with a mark above 0: all others get no card.
Listed(read) ==
    {e \in Students \X (1..MaxEnrolled) :
        e[2] <= classList[e[1]] /\ \E m \in Of(read, e[1]) : m.score > 0}

\* The notes a search may return for s, rows coming in any order and the last deciding.
Notes(s) ==
    IF \E a \in reports : a.student = s THEN {a.note : a \in {b \in reports : b.student = s}}
    ELSE {None}

\* Mutant: the merge of the stored notes is forgotten.
DraftMutant(r) ==
    LET read == desk[r].marks
        listed == Listed(read) IN
    /\ desk[r].phase = "marked"
    /\ \E place \in [listed -> 1..Cardinality(listed)] :
          /\ \A e, f \in listed : e # f => place[e] # place[f]
          /\ \A e, f \in listed : Higher(read, e[1], f[1]) => place[e] < place[f]
          /\ Become(r, [desk[r] EXCEPT
                !.phase = "drafted", !.viewed = saves,
                !.cards = {[student |-> e[1], place |-> place[e], note |-> None,
                            mine |-> FALSE, seen |-> 0] : e \in listed}])
    /\ UNCHANGED <<classList, marks, lastMark, reports, lastReport, release, saves>>

\* Positions by average, then the notes of the stored cards.
Draft(r) ==
    LET read == desk[r].marks
        listed == Listed(read) IN
    /\ desk[r].phase = "marked"
    /\ \E place \in [listed -> 1..Cardinality(listed)], note \in [Students -> Requests \union {None}] :
          /\ \A e, f \in listed : e # f => place[e] # place[f]
          /\ \A e, f \in listed : Higher(read, e[1], f[1]) => place[e] < place[f]
          /\ \A s \in Students : note[s] \in Notes(s)
          /\ Become(r, [desk[r] EXCEPT
                !.phase = "drafted", !.viewed = saves,
                !.cards = {[student |-> e[1], place |-> place[e], note |-> note[e[1]],
                            mine |-> FALSE, seen |-> 0] : e \in listed}])
    /\ UNCHANGED <<classList, marks, lastMark, reports, lastReport, release, saves>>

\* At the client: the session r writes a note of its own on a card.
WriteNote(r, c) ==
    /\ desk[r].phase = "drafted" /\ c \in desk[r].cards
    /\ Become(r, [desk[r] EXCEPT
          !.cards = (@ \ {c}) \union {[c EXCEPT !.note = r, !.mine = TRUE]}])
    /\ UNCHANGED <<classList, marks, lastMark, reports, lastReport, release, saves>>

-----------------------------------------------------------------------------
(* saveReports                                                             *)

\* Mutant: only reports without a note are looked for.
FindStoredMutant(r) ==
    LET held == {a \in reports : a.note = None /\ \E c \in desk[r].cards : c.student = a.student} IN
    /\ desk[r].phase = "drafted" /\ desk[r].cards # {}
    /\ \E rows \in SUBSET held :
          /\ \A a \in held : \E b \in rows : a.student = b.student
          /\ \A a, b \in rows : a.student = b.student => a = b
          /\ Become(r, [desk[r] EXCEPT
                !.phase = "saving", !.marks = {}, !.rows = {a.id : a \in rows},
                !.cards = {[c EXCEPT !.seen = lastReport] : c \in @}])
    /\ UNCHANGED <<classList, marks, lastMark, reports, lastReport, release, saves>>

\* One stored row for each student who has any: the last the query returns.
FindStored(r) ==
    LET held == {a \in reports : \E c \in desk[r].cards : c.student = a.student} IN
    /\ desk[r].phase = "drafted" /\ desk[r].cards # {}
    /\ \E rows \in SUBSET held :
          /\ \A a \in held : \E b \in rows : a.student = b.student
          /\ \A a, b \in rows : a.student = b.student => a = b
          /\ Become(r, [desk[r] EXCEPT
                !.phase = "saving", !.marks = {}, !.rows = {a.id : a \in rows},
                !.cards = {[c EXCEPT !.seen = lastReport] : c \in @}])
    /\ UNCHANGED <<classList, marks, lastMark, reports, lastReport, release, saves>>

\* Mutant: the card replaces the row, instead of its document.
RewrittenMutant(a, cards) ==
    LET card == CHOOSE c \in cards : c.student = a.student
    IN [a EXCEPT !.id = lastReport + 1, !.note = card.note, !.since = saves + 1]

\* The row `a' with the last card of its student.
Rewritten(a, cards) ==
    LET card == CHOOSE c \in cards :
                   c.student = a.student /\ \A d \in cards : d.student = a.student => d.place <= c.place
    IN [a EXCEPT !.note = card.note, !.since = IF card.note = a.note THEN @ ELSE saves + 1]

\* The rows found are overwritten whole; every other card becomes a row of its own.
StoreReports(r) ==
    LET cards == desk[r].cards
        found == {a \in reports : a.id \in desk[r].rows}
        fresh == {c \in cards : \A a \in found : a.student # c.student} IN
    /\ desk[r].phase = "saving"
    /\ reports' = (reports \ found) \union {Rewritten(a, cards) : a \in found}
          \union {[id |-> lastReport + Cardinality({d \in fresh : d.place <= c.place}),
                   student |-> c.student, note |-> c.note, seen |-> c.seen,
                   since |-> saves + 1] : c \in fresh}
    /\ lastReport' = lastReport + Cardinality(fresh)
    /\ saves' = saves + 1
    /\ Become(r, Blank)
    /\ UNCHANGED <<classList, marks, lastMark, release>>

-----------------------------------------------------------------------------
(* Release, and what pupils and parents see                                *)

FindRelease(r, released) ==
    /\ desk[r].phase = "idle"
    /\ Become(r, [Blank EXCEPT !.phase = IF release = "none" THEN "announcing" ELSE "releasing",
                               !.flag = released])
    /\ UNCHANGED <<classList, marks, lastMark, reports, lastReport, release, saves>>

\* A second row for the class, term and exam violates the unique index.
SaveRelease(r) ==
    /\ desk[r].phase \in {"announcing", "releasing"}
    /\ desk[r].phase = "announcing" => release = "none"
    /\ release' = IF desk[r].flag THEN "released" ELSE "hidden"
    /\ desk' = [q \in Requests |-> IF q = r THEN Blank
                                   ELSE [desk[q] EXCEPT !.open = @ \/ desk[r].flag]]
    /\ UNCHANGED <<classList, marks, lastMark, reports, lastReport, saves>>

Ask(next, rows) ==
    [Blank EXCEPT !.phase = next, !.rows = rows, !.open = (release = "released")]

\* getStudentReports: the rows, then for each whether it is released.
ListReports(r, s) ==
    /\ desk[r].phase = "idle"
    /\ Become(r, Ask("listing", {a.id : a \in {b \in reports : b.student = s}}))
    /\ UNCHANGED <<classList, marks, lastMark, reports, lastReport, release, saves>>

\* Mutant: any row of report_releases will do.
IsReleasedMutant(r, i) ==
    /\ desk[r].phase = "listing" /\ i \in desk[r].rows
    /\ Become(r, [desk[r] EXCEPT !.rows = @ \ {i},
                                 !.shown = IF release # "none" THEN @ \union {i} ELSE @])
    /\ UNCHANGED <<classList, marks, lastMark, reports, lastReport, release, saves>>

IsReleased(r, i) ==
    /\ desk[r].phase = "listing" /\ i \in desk[r].rows
    /\ Become(r, [desk[r] EXCEPT !.rows = @ \ {i},
                                 !.shown = IF release = "released" THEN @ \union {i} ELSE @])
    /\ UNCHANGED <<classList, marks, lastMark, reports, lastReport, release, saves>>

\* downloadReport: whether it is released, then a row of the student, who may be any.
AskDownload(r) ==
    /\ desk[r].phase = "idle" /\ release = "released"
    /\ Become(r, Ask("cleared", {}))
    /\ UNCHANGED <<classList, marks, lastMark, reports, lastReport, release, saves>>

Download(r) ==
    /\ desk[r].phase = "cleared"
    /\ \E a \in reports : Become(r, [desk[r] EXCEPT !.phase = "listing", !.shown = {a.id}])
    /\ UNCHANGED <<classList, marks, lastMark, reports, lastReport, release, saves>>

\* The request is answered, or fails, or the session is abandoned.
Finish(r) ==
    /\ desk[r].phase # "idle"
    /\ Become(r, Blank)
    /\ UNCHANGED <<classList, marks, lastMark, reports, lastReport, release, saves>>

Next ==
    \/ \E r \in Requests :
          \/ \E s \in Students, u \in Subjects, v \in Scores : FindMark(r, s, u, v)
          \/ UpdateMark(r)
          \/ InsertMark(r)
          \/ ReadMarks(r)
          \/ Draft(r)
          \/ \E c \in desk[r].cards : WriteNote(r, c)
          \/ FindStored(r)
          \/ StoreReports(r)
          \/ \E released \in BOOLEAN : FindRelease(r, released)
          \/ SaveRelease(r)
          \/ \E s \in Students : ListReports(r, s)
          \/ \E i \in desk[r].rows : IsReleased(r, i)
          \/ AskDownload(r)
          \/ Download(r)
          \/ Finish(r)
    \/ \E m \in marks : DeleteMark(m)

Spec == Init /\ [][Next]_vars

-----------------------------------------------------------------------------
(* Properties                                                              *)

MarkRecords ==
    [id : Nat, student : Students, subject : Subjects, score : Scores, seen : Nat]

ReportRecords ==
    [id : Nat, student : Students, note : Requests \union {None}, seen : Nat, since : Nat]

CardRecords ==
    [student : Students, place : Nat, note : Requests \union {None}, mine : BOOLEAN, seen : Nat]

DeskRecords ==
    [phase : {"idle", "marking", "marked", "drafted", "saving", "announcing", "releasing",
              "listing", "cleared"},
     mark : MarkRecords \union {NoMark}, marks : SUBSET MarkRecords, cards : SUBSET CardRecords,
     rows : SUBSET Nat, shown : SUBSET Nat, flag : BOOLEAN, open : BOOLEAN, viewed : Nat]

\* Ids come from the sequences and are those of one row; reports are never deleted, so
\* what a request holds of them exists.
TypeOK ==
    /\ classList \in [Students -> 0..MaxEnrolled]
    /\ lastMark \in Nat /\ lastReport \in Nat /\ saves \in Nat
    /\ marks \subseteq MarkRecords /\ reports \subseteq ReportRecords
    /\ \A a \in marks : a.id \in 1..lastMark
    /\ \A a, b \in marks : a.id = b.id => a = b
    /\ {a.id : a \in reports} = 1..lastReport
    /\ \A a, b \in reports : a.id = b.id => a = b
    /\ release \in {"none", "hidden", "released"}
    /\ desk \in [Requests -> DeskRecords]
    /\ \A r \in Requests : desk[r].rows \union desk[r].shown \subseteq {a.id : a \in reports}

\* A student has two marks in a subject only if the second teacher searched before the
\* first had saved.
MarkedTwiceOnlyByOverlap ==
    \A a, b \in marks :
        a.student = b.student /\ a.subject = b.subject /\ a.id < b.id => a.id > b.seen

\* A student has two reports only if they come of saves that overlap, or of one save of
\* a class list that names the student twice.
ReportedTwiceOnlyByOverlap ==
    \A a, b \in reports : a.student = b.student /\ a.id < b.id => a.id > b.seen

\* Find-then-insert, in marks and in reports, copies a row only through an overlap.
CopiedOnlyByOverlap == MarkedTwiceOnlyByOverlap /\ ReportedTwiceOnlyByOverlap

\* A position counts those strictly above, whatever the ties; and whoever is above
\* another in the only subject both took has the better place in the class as well.
PositionsFair ==
    \A r \in Requests :
        LET read == desk[r].marks IN
        /\ \A m \in read :
              Position(read, m) = 1 + Cardinality({a \in read : a.subject = m.subject
                                                                /\ a.score > m.score})
        /\ \A c, d \in desk[r].cards :
              \A m, n \in read :
                  /\ Of(read, c.student) = {m} /\ Of(read, d.student) = {n}
                  /\ m.subject = n.subject /\ Position(read, m) < Position(read, n)
                  => c.place < d.place

\* A save of other cards takes the note off a stored report only if they were generated
\* before the note was stored, or if the student has two reports.
NotesLostOnlyByStaleDraft ==
    [][\A a \in reports, b \in reports' :
          a.id = b.id /\ a.note # None /\ a.note # b.note =>
             \E r \in Requests :
                /\ desk[r].phase = "saving" /\ desk'[r].phase = "idle"
                /\ \/ desk[r].viewed < a.since
                   \/ \E c \in desk[r].cards : c.student = a.student /\ c.mine
                   \/ \E d \in reports : d.student = a.student /\ d.id # a.id]_vars

\* Pupils and parents are shown a report only if the cards were released at some moment
\* of their request, however it overlaps with announcements and withdrawals.
ShownIsReleased ==
    \A r \in Requests : desk[r].shown # {} => desk[r].open

\* What a family sees: a released report, with the place its marks deserve.
ShownIsFair == ShownIsReleased /\ PositionsFair
=============================================================================
