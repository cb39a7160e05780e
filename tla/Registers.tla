----------------------------- MODULE Registers -----------------------------
(***************************************************************************)
(* The two registers teachers keep of a class in a term: attendance, one   *)
(* row per pupil and day, and continuous assessment, one row per pupil and *)
(* topic of a day.  Both search for a row and then update or insert one,   *)
(* in separate queries; neither table has a unique constraint.  Reports    *)
(* are computed from the rows and from who is enrolled when one asks.      *)
(***************************************************************************)
EXTENDS Integers, FiniteSetsExt, Functions

CONSTANTS
    Calls,     \* requests served at a time
    Pupils,
    Days,         \* days by number; 0, 7, 14 ... are Sundays
    Topics,       \* topics assessed on one day
    Subjects,
    NoSubject,    \* a dto without subject, or with an unknown code
    Scores

ASSUME DaysAssumption == Days \subseteq Nat \ {0}
ASSUME PupilsAssumption == IsFiniteSet(Pupils)
ASSUME SlotsAssumption == Days \intersect Topics = {}
ASSUME SubjectsAssumption == NoSubject \notin Subjects
ASSUME ScoresAssumption == Scores \subseteq Nat

VARIABLES
    enrolled,     \* pupils of the class in that term, now
    attendance,   \* rows [id, student, day, present]
    assessments,  \* rows [id, student, topic, subject, score]
    work,         \* what each request is doing
    entered,      \* history: what was saved last, by key
    doubled         \* history: keys inserted by a request that had missed a row

regVars == <<enrolled, attendance, assessments, work, entered, doubled>>

NotFound == 0
Idle == [phase |-> "idle"]
Nothing == <<>>

\* A row of attendance is found by pupil and day, one of assessment by pupil and topic.
Slots == Days \union Topics
Keys == Pupils \X Slots

RegInit ==
    /\ enrolled \in SUBSET Pupils
    /\ attendance = {} /\ assessments = {}
    /\ work = [r \in Calls |-> Idle]
    /\ entered = [k \in Keys |-> Nothing]
    /\ doubled = {}

\* Rows are never deleted, so the next id of a table is one more than it has rows.
NextId(table) == Cardinality(table) + 1

\* Request r saves a row of key k that it did not find: others that are about to insert
\* the same have missed it.
Inserted(r, k) ==
    work' = [q \in Calls |->
                IF q = r THEN Idle
                ELSE IF work[q].phase # "idle" /\ work[q].key = k /\ work[q].found = NotFound
                     THEN [work[q] EXCEPT !.missed = TRUE]
                     ELSE work[q]]

-----------------------------------------------------------------------------
(* Enrolments change meanwhile (module Enrolment has their steps).         *)

Enrol(s) ==
    /\ s \notin enrolled
    /\ enrolled' = enrolled \union {s}
    /\ UNCHANGED <<attendance, assessments, work, entered, doubled>>

Leave(s) ==
    /\ s \in enrolled
    /\ enrolled' = enrolled \ {s}
    /\ UNCHANGED <<attendance, assessments, work, entered, doubled>>

-----------------------------------------------------------------------------
(* Attendance                                                              *)

MarksOf(s, d) == {m \in attendance : m.student = s /\ m.day = d}

\* Mutant: the search is for the moment of the request, not for its day.
FindMarkedMutant(r, s, d, present) ==
    /\ work[r].phase = "idle"
    /\ work' = [work EXCEPT ![r] = [phase |-> "marking", key |-> <<s, d>>, found |-> NotFound,
                                    present |-> present, missed |-> FALSE]]
    /\ UNCHANGED <<enrolled, attendance, assessments, entered, doubled>>

\* markAttendance: any of the rows, if there are several.  Nobody asks whether the pupil
\* is enrolled in that class.
FindMarked(r, s, d, present) ==
    /\ work[r].phase = "idle"
    /\ \E found \in IF MarksOf(s, d) = {} THEN {NotFound} ELSE {m.id : m \in MarksOf(s, d)} :
           work' = [work EXCEPT ![r] = [phase |-> "marking", key |-> <<s, d>>, found |-> found,
                                        present |-> present, missed |-> FALSE]]
    /\ UNCHANGED <<enrolled, attendance, assessments, entered, doubled>>

\* Mutant: a row is inserted in any case, with the id that was found.
SaveMarkedMutant(r) ==
    LET d  == work[r]
        id == IF d.found = NotFound THEN NextId(attendance) ELSE d.found IN
    /\ d.phase = "marking"
    /\ attendance' = attendance \union
           {[id |-> id, student |-> d.key[1], day |-> d.key[2], present |-> d.present]}
    /\ entered' = [entered EXCEPT ![d.key] = <<d.present>>]
    /\ doubled' = doubled
    /\ Inserted(r, d.key)
    /\ UNCHANGED <<enrolled, assessments>>

SaveMarked(r) ==
    LET d  == work[r]
        id == IF d.found = NotFound THEN NextId(attendance) ELSE d.found IN
    /\ d.phase = "marking"
    /\ attendance' = {m \in attendance : m.id # id} \union
           {[id |-> id, student |-> d.key[1], day |-> d.key[2], present |-> d.present]}
    /\ entered' = [entered EXCEPT ![d.key] = <<d.present>>]
    /\ doubled' = IF d.missed THEN doubled \union {d.key} ELSE doubled
    /\ Inserted(r, d.key)
    /\ UNCHANGED <<enrolled, assessments>>

\* getClassAttendance: a pupil without a row is shown absent.  Of several rows the one
\* the query returns last counts.
SheetShows(s, d, present) ==
    IF MarksOf(s, d) = {} THEN ~present ELSE \E m \in MarksOf(s, d) : m.present = present

-----------------------------------------------------------------------------
(* Attendance reports: percentages are in hundredths                       *)

Rate(actual, possible) ==
    IF possible = 0 THEN 0 ELSE (20000 * actual + possible) \div (2 * possible)

\* Mutant: a Sunday belongs to the week that begins the day after.
WeekStartMutant(d) == d - (d % 7) + 1

\* getWeekStart: weeks begin on Monday.
WeekStart(d) == d - (d % 7) + (IF d % 7 = 0 THEN -6 ELSE 1)

\* Rows hold midnight by the server's clock and are grouped by their day in UTC, the day
\* before if the server's clock is east of it.
ReportedDay(east, d) == IF east THEN d - 1 ELSE d

Present(marks) == {m \in marks : m.present}

\* getAttendanceReports, a record for each day with rows: possible is who is enrolled now,
\* whatever the day.
DailyMetrics(east, marks) ==
    {LET these == {m \in marks : ReportedDay(east, m.day) = day} IN
     [day      |-> day,
      possible |-> Cardinality(enrolled),
      actual   |-> Cardinality(Present(these)),
      absent   |-> Cardinality(these \ Present(these))]
        : day \in {ReportedDay(east, m.day) : m \in marks}}

Possible(days) == SumFunction([d \in days |-> d.possible])
Actual(days) == SumFunction([d \in days |-> d.actual])
RateOver(days) == Rate(Actual(days), Possible(days))

WeeklySummaries(daily) ==
    {LET days == {d \in daily : WeekStart(d.day) = start} IN
     [start  |-> start,
      actual |-> Actual(days),
      days   |-> Cardinality(days),
      rate   |-> RateOver(days)]
        : start \in {WeekStart(d.day) : d \in daily}}

\* Week v comes right before w in the list.
Adjacent(weekly, v, w) ==
    v.start < w.start /\ ~\E u \in weekly : v.start < u.start /\ u.start < w.start

\* calculateTrends: w against the week v before it in the list, by more than two points.
Trend(v, w) ==
    IF w.rate - v.rate > 200 THEN "improving"
    ELSE IF w.rate - v.rate < -200 THEN "declining" ELSE "stable"

\* getAttendanceSummary: the rate among the rows there are.
SummaryRate == Rate(Cardinality(Present(attendance)), Cardinality(attendance))

-----------------------------------------------------------------------------
(* Continuous assessment                                                   *)

EntriesOf(s, t) == {e \in assessments : e.student = s /\ e.topic = t}

\* createAssessment: the search leaves the subject out.
FindAssessment(r, s, t, subject, score) ==
    /\ work[r].phase = "idle"
    /\ \E found \in IF EntriesOf(s, t) = {} THEN {NotFound} ELSE {e.id : e \in EntriesOf(s, t)} :
           work' = [work EXCEPT ![r] = [phase |-> "assessing", key |-> <<s, t>>, found |-> found,
                                        subject |-> subject, score |-> score, missed |-> FALSE]]
    /\ UNCHANGED <<enrolled, attendance, assessments, entered, doubled>>

\* An update without a subject keeps the one in the table.
SubjectSaved(d) ==
    IF d.found # NotFound /\ d.subject = NoSubject
    THEN (CHOOSE e \in assessments : e.id = d.found).subject
    ELSE d.subject

SaveAssessment(r) ==
    LET d   == work[r]
        id  == IF d.found = NotFound THEN NextId(assessments) ELSE d.found
        row == [id |-> id, student |-> d.key[1], topic |-> d.key[2],
                subject |-> SubjectSaved(d), score |-> d.score] IN
    /\ d.phase = "assessing"
    /\ assessments' = {e \in assessments : e.id # id} \union {row}
    /\ entered' = [entered EXCEPT ![d.key] = <<row.subject, row.score>>]
    /\ doubled' = IF d.missed THEN doubled \union {d.key} ELSE doubled
    /\ Inserted(r, d.key)
    /\ UNCHANGED <<enrolled, attendance>>

\* getClassRoster, with a subject to filter by or without: what it may show of a pupil.
RosterScores(s, t, filter) ==
    {e.score : e \in {x \in EntriesOf(s, t) : filter = NoSubject \/ x.subject = filter}}

-----------------------------------------------------------------------------
RegNext ==
    \/ \E s \in Pupils : Enrol(s) \/ Leave(s)
    \/ \E r \in Calls, s \in Pupils, d \in Days, present \in BOOLEAN :
           FindMarked(r, s, d, present)
    \/ \E r \in Calls, s \in Pupils, t \in Topics, subject \in Subjects \union {NoSubject},
          score \in Scores : FindAssessment(r, s, t, subject, score)
    \/ \E r \in Calls : SaveMarked(r) \/ SaveAssessment(r)

RegSpec == RegInit /\ [][RegNext]_regVars

-----------------------------------------------------------------------------
(* Properties                                                              *)

Marking ==
    [phase : {"marking"}, key : Pupils \X Days, found : Nat, present : BOOLEAN,
     missed : BOOLEAN]
Assessing ==
    [phase : {"assessing"}, key : Pupils \X Topics, found : Nat,
     subject : Subjects \union {NoSubject}, score : Scores, missed : BOOLEAN]

Numbered(table) == {row.id : row \in table} = 1..Cardinality(table)

RegTypeOK ==
    /\ enrolled \subseteq Pupils
    /\ attendance \subseteq [id : Nat, student : Pupils, day : Days, present : BOOLEAN]
    /\ assessments \subseteq [id : Nat, student : Pupils, topic : Topics,
                              subject : Subjects \union {NoSubject}, score : Scores]
    /\ Numbered(attendance) /\ Numbered(assessments)
    /\ work \in [Calls -> {Idle} \union Marking \union Assessing]
    /\ doubled \subseteq Keys

\* Unless two requests overlapped on that pupil and day, the sheet shows what was entered
\* last and nothing else.
SheetShowsLast ==
    \A s \in Pupils, d \in Days : <<s, d>> \notin doubled =>
        /\ Cardinality(MarksOf(s, d)) <= 1
        /\ \A present \in BOOLEAN : SheetShows(s, d, present) =>
               present = (entered[<<s, d>>] = <<TRUE>>)

\* Nor does the roster show a score but the last one, under the subject it was last
\* entered for: a subject whose topic of the day has the same name takes the row over.
RosterShowsLast ==
    \A s \in Pupils, t \in Topics : <<s, t>> \notin doubled =>
        \A filter \in Subjects \union {NoSubject} :
            RosterScores(s, t, filter) =
                LET e == entered[<<s, t>>] IN
                IF e = Nothing \/ (filter # NoSubject /\ filter # e[1]) THEN {} ELSE {e[2]}

\* A register holds two rows for one, or shows what was not entered last, only after
\* requests that overlapped (find, then insert, and no constraint).
EnteredTwiceOnlyByOverlap == SheetShowsLast /\ RosterShowsLast

\* The weeks of a report account for every presence in it, once, and in the right week if
\* the server's clock is that of its rows.
WeeksAccountForAll(east, daily, weekly) ==
    LET present == Present(attendance)
        rates   == {w.rate : w \in weekly} IN
    /\ Actual(daily) = Cardinality(present)
    /\ Actual(weekly) = Cardinality(present)
    /\ ~east => \A w \in weekly :
           w.actual = Cardinality({m \in present : m.day \in w.start..(w.start + 6)})
    /\ RateOver(daily) \in Min(rates)..Max(rates)

\* More presences than places on a day come from rows entered twice or of pupils who are
\* not enrolled (any more).  Without such rows the report, which counts who was not marked
\* as absent, is never above the summary, which leaves him out, and says the same if every
\* pupil was marked on every day.
FullOnlyByStrays(daily) ==
    (doubled = {} /\ \A m \in attendance : m.student \in enrolled) =>
        /\ \A d \in daily :
               d.actual + d.absent <= d.possible /\ Rate(d.actual, d.possible) <= 10000
        /\ RateOver(daily) <= SummaryRate
        /\ Cardinality(attendance) = Cardinality(enrolled) * Cardinality(daily)
              => RateOver(daily) = SummaryRate

\* Between weeks of as many days a class improves only by more presences, and declines
\* only by fewer.
TrendsFollowPresences(weekly) ==
    \A v, w \in weekly : Adjacent(weekly, v, w) /\ v.days = w.days =>
        /\ Trend(v, w) = "improving" => w.actual > v.actual
        /\ Trend(v, w) = "declining" => w.actual < v.actual

\* The report of getAttendanceReports adds up, whatever overlaps and leavers left in the
\* table, and agrees with getAttendanceSummary where both are defined on the same rows.
ReportAddsUp ==
    attendance # {} =>
        \A east \in BOOLEAN :
            LET daily  == DailyMetrics(east, attendance)
                weekly == WeeklySummaries(daily) IN
            /\ WeeksAccountForAll(east, daily, weekly)
            /\ FullOnlyByStrays(daily)
            /\ TrendsFollowPresences(weekly)
=============================================================================
