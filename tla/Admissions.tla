----------------------------- MODULE Admissions -----------------------------
(***************************************************************************)
(* Applications, the students registered when one is accepted, and what    *)
(* the applicants are told, as requests that overlap see them.  Accepting  *)
(* is a chain of saves without a transaction: the student, the application *)
(* with his number, the application again, the notice.  One step is one    *)
(* query and the code up to the next await; `save' of a loaded row writes  *)
(* the whole copy, and inserts it again if it is gone.                     *)
(***************************************************************************)
EXTENDS Integers, Sequences

CONSTANTS
    Calls,         \* requests served at a time
    People,        \* who may apply, or be registered at the reception
    Names,
    NoName,        \* one that is nobody's
    NameOf,        \* name and surname each gives
    Cautious,      \* those who give an e-mail address or an id number
    Reviews,       \* statuses a review gives
    MaxSeq,        \* the last number of three digits
    Lead,          \* the number whose digits MaxSeq + 1 starts with: 100 for 1000
    Before,        \* students registered earlier in the month
    Nobody         \* one of those

ASSUME PeopleAssumption ==
    /\ Nobody \notin People
    /\ NameOf \in [People -> Names]
    /\ NoName \notin Names
    /\ Cautious \subseteq People
ASSUME NumberAssumption ==
    /\ MaxSeq \in Nat /\ Lead \in 0..MaxSeq /\ Before \in 0..(MaxSeq + 1)

VARIABLES
    applications,  \* table applications, in the order of their creation
    students,      \* table students
    work,          \* what each request has read and set so far
    told,          \* by application, the last notice about it
    lastSeq,       \* history: names given so far, by a registration or an update
    replaced,      \* history: numbers drawn twice, or whose row an old copy replaced
    deleted,       \* history: numbers of deleted students
    loose          \* history: applications saved from an old copy, or left halfway

admVars == <<applications, students, work, told, lastSeq, replaced, deleted, loose>>

Statuses == {"pending", "on_hold", "accepted", "declined"}
ASSUME ReviewAssumption == Reviews \subseteq Statuses

\* studentNo -1 is NULL.  `by' is the application a student was registered for, 0 for the
\* reception.  History: `seq' says when the student was given his name, `seen' up to when
\* the names were looked through before, 0 if they were not.
NoStudent == [no |-> -1, person |-> Nobody, name |-> NoName, by |-> 0, seq |-> 0, seen |-> 0]
NoApplication == [id |-> 0, person |-> Nobody, status |-> "pending", studentNo |-> -1]

\* History: `old' and `stale' say that the application, or the student (the number found
\* free), has been written by another request since, `over' that the number was drawn
\* beyond the last one.
Idle ==
    [phase |-> "idle", app |-> NoApplication, student |-> NoStudent,
     old |-> FALSE, stale |-> FALSE, over |-> FALSE]

AdmInit ==
    /\ applications = <<>>
    /\ students = {[NoStudent EXCEPT !.no = n] : n \in 0..(Before - 1)}
    /\ work = [r \in Calls |-> Idle]
    /\ told = <<>>
    /\ lastSeq = 0 /\ replaced = {} /\ deleted = {} /\ loose = {}

Numbers == {s.no : s \in students}
LinkedNos == {applications[i].studentNo : i \in DOMAIN applications}

AdmBecome(r, d) == work' = [work EXCEPT ![r] = d]

Reads(r, d) ==
    /\ AdmBecome(r, d)
    /\ UNCHANGED <<applications, students, told, lastSeq, replaced, deleted, loose>>

-----------------------------------------------------------------------------
(* createApplication                                                       *)

\* Someone who gives an address or an id number applies once.
CheckApplicant(r, p) ==
    /\ work[r].phase = "idle"
    /\ p \in Cautious => \A i \in DOMAIN applications : applications[i].person # p
    /\ Reads(r, [Idle EXCEPT !.phase = "applying", !.app.person = p])

\* The reference number after that of the application created last.
GenerateApplicationId(r) ==
    /\ work[r].phase = "applying"
    /\ Reads(r, [work[r] EXCEPT !.phase = "numbered", !.app.id = Len(applications) + 1])

\* The column applicationId is unique.
SaveNewApplication(r) ==
    /\ work[r].phase = "numbered"
    /\ work[r].app.id > Len(applications)
    /\ applications' = Append(applications, work[r].app)
    /\ told' = Append(told, <<"nothing", -1>>)
    /\ AdmBecome(r, [work[r] EXCEPT !.phase = "created"])
    /\ UNCHANGED <<students, lastSeq, replaced, deleted, loose>>

-----------------------------------------------------------------------------
(* nextStudentNumber and createStudent                                     *)

\* Student numbers are compared as strings: MaxSeq + 1 has a digit more, and comes where
\* Lead does, before or after it by the check digits.
SortsAfter(m, n) ==
    \/ m = MaxSeq + 1 /\ n < Lead
    \/ n = MaxSeq + 1 /\ m # n /\ m > Lead
    \/ MaxSeq + 1 \notin {m, n} /\ m > n

\* ORDER BY studentNumber DESC.
LastNumbers == {n \in Numbers : \A m \in Numbers : ~SortsAfter(m, n)}

\* Mutant: the numbers start again one too early.
NumberAfterMutant(n) == (n % MaxSeq) + 1

\* The three digits before the check digit, plus one.
NumberAfter(n) == (n % (MaxSeq + 1)) + 1

DrawNumber(r, n) ==
    /\ work[r].phase = "unnumbered"
    /\ IF Numbers = {} THEN n = 0 ELSE \E m \in LastNumbers : n = NumberAfter(m)
    /\ Reads(r, [work[r] EXCEPT !.phase = "drawn", !.student.no = n, !.stale = FALSE,
                                !.over = MaxSeq + 1 \in Numbers])

\* Mutant: the name is not looked up.
NameIsFreeMutant(p) == TRUE

NameIsFree(p) == \A s \in students : s.name # NameOf[p]

\* The student of p, for application i, when his name is found free.
NewStudent(p, i) ==
    [NoStudent EXCEPT !.person = p, !.name = NameOf[p], !.by = i, !.seen = lastSeq]

\* createStudent at the reception, up to the name check.
CreateStudent(r, p) ==
    /\ work[r].phase = "idle"
    /\ NameIsFree(p)
    /\ Reads(r, [Idle EXCEPT !.phase = "unnumbered", !.student = NewStudent(p, 0)])

\* Row n is written or deleted: copies of it and draws of n are old from here.
Outdated(q, n) ==
    [work[q] EXCEPT !.stale = @ \/ (work[q].phase \in {"drawn", "updating"}
                                       /\ work[q].student.no = n)]

WriteStudent(r, d, s) ==
    /\ students' = {t \in students : t.no # s.no} \union {s}
    /\ work' = [q \in Calls |-> IF q = r THEN d ELSE Outdated(q, s.no)]

\* save of a new object whose primary key is given: a row with that key is overwritten.
SaveStudent(r) ==
    LET d == work[r] s == [d.student EXCEPT !.seq = lastSeq + 1] IN
    /\ d.phase = "drawn"
    /\ WriteStudent(r, IF d.app.id = 0 THEN Idle
                       ELSE [d EXCEPT !.phase = "registered", !.student = s,
                                      !.stale = FALSE, !.over = FALSE], s)
    /\ lastSeq' = lastSeq + 1
    /\ replaced' = replaced \union ({s.no} \intersect Numbers)
    /\ loose' = IF s.no \in Numbers THEN loose \union {t.by : t \in {u \in students : u.no = s.no}}
                ELSE loose
    /\ UNCHANGED <<applications, told, deleted>>

\* updateStudent and updateStudentByParent: getStudent, then save of the copy it returned.
\* Staff may change the name, and nobody looks it up.
LoadStudent(r, s) ==
    /\ work[r].phase = "idle"
    /\ Reads(r, [Idle EXCEPT !.phase = "updating", !.student = s])

Renamed(s, name) ==
    IF name = s.name THEN s ELSE [s EXCEPT !.name = name, !.seq = lastSeq + 1, !.seen = 0]

UpdateStudent(r, name) ==
    LET d == work[r] old == {t \in students : t.no = d.student.no} IN
    /\ work[r].phase = "updating"
    /\ WriteStudent(r, Idle, Renamed(d.student, name))
    /\ lastSeq' = IF name = d.student.name THEN lastSeq ELSE lastSeq + 1
    /\ replaced' = IF old \subseteq {d.student} THEN replaced
                   ELSE replaced \union {d.student.no}
    /\ loose' = IF old = {d.student} THEN loose
                ELSE loose \union {t.by : t \in old \union {d.student}}
    /\ UNCHANGED <<applications, told, deleted>>

\* Mutant: the foreign key of the application is not in the way.
DeleteStudentMutant(s) ==
    /\ students' = students \ {s}
    /\ deleted' = deleted \union {s.no}
    /\ loose' = loose \union {s.by}
    /\ work' = [q \in Calls |-> Outdated(q, s.no)]
    /\ UNCHANGED <<applications, told, lastSeq, replaced>>

\* An application that refers to the student keeps him.
DeleteStudent(s) ==
    /\ s.no \notin LinkedNos
    /\ students' = students \ {s}
    /\ deleted' = deleted \union {s.no}
    /\ loose' = loose \union {s.by}
    /\ work' = [q \in Calls |-> Outdated(q, s.no)]
    /\ UNCHANGED <<applications, told, lastSeq, replaced>>

-----------------------------------------------------------------------------
(* updateApplicationStatus and autoRegisterStudent                         *)

\* The status is set on the copy; a first acceptance goes through a registration.
LoadApplication(r, a, status) ==
    LET registers == status = "accepted" /\ a.status # "accepted" /\ a.studentNo = -1 IN
    /\ work[r].phase = "idle"
    /\ Reads(r, [Idle EXCEPT !.phase = IF registers THEN "accepting" ELSE "reviewed",
                             !.app = [a EXCEPT !.status = status]])

AutoRegisterStudent(r) ==
    LET a == work[r].app IN
    /\ work[r].phase = "accepting"
    /\ NameIsFree(a.person)
    /\ Reads(r, [work[r] EXCEPT !.phase = "unnumbered",
                                !.student = NewStudent(a.person, a.id)])

\* save(application): a student is referred to once, and exists.  Saved from an old copy,
\* the application may contradict the students and what the applicant was told.
WriteApplication(r, d, old) ==
    LET a == d.app IN
    /\ a.studentNo # -1 => /\ a.studentNo \in Numbers
                           /\ \A i \in DOMAIN applications \ {a.id} :
                                  applications[i].studentNo # a.studentNo
    /\ applications' = [applications EXCEPT ![a.id] = a]
    /\ work' = [q \in Calls |->
                   IF q = r THEN d
                   ELSE IF a # applications[a.id] /\ work[q].app.id = a.id
                            THEN [work[q] EXCEPT !.old = TRUE]
                   ELSE work[q]]
    /\ loose' = IF old THEN loose \union {a.id} ELSE loose
    /\ UNCHANGED <<students, told, lastSeq, replaced, deleted>>

\* Mutant: the application keeps the number it had.
LinkApplicationMutant(r) ==
    /\ work[r].phase = "registered"
    /\ WriteApplication(r, [work[r] EXCEPT !.phase = "reviewed"], work[r].old)

LinkApplication(r) ==
    /\ work[r].phase = "registered"
    /\ WriteApplication(r, [work[r] EXCEPT !.phase = "reviewed", !.student = NoStudent,
                                           !.app.studentNo = work[r].student.no], work[r].old)

SaveApplication(r) ==
    /\ work[r].phase = "reviewed"
    /\ WriteApplication(r, [work[r] EXCEPT !.phase = "updated"], work[r].old)

-----------------------------------------------------------------------------
(* notification.service                                                    *)

\* sendApplicationConfirmation
Confirmation(a) == <<"pending", -1>>

\* sendApplicationStatusUpdate says nothing of an application put back to pending.
StatusUpdate(a) == IF a.status = "pending" THEN told[a.id] ELSE <<a.status, -1>>

\* sendAcceptanceNotification
Acceptance(a) == IF a.studentNo = -1 THEN told[a.id] ELSE <<"accepted", a.studentNo>>

Notify(r) ==
    LET a == work[r].app IN
    /\ work[r].phase \in {"created", "updated"}
    /\ told' = [told EXCEPT ![a.id] =
           IF work[r].phase = "created" THEN Confirmation(a)
           ELSE IF a.status = "accepted" /\ a.studentNo # -1 THEN Acceptance(a)
           ELSE StatusUpdate(a)]
    /\ loose' = IF work[r].old THEN loose \union {a.id} ELSE loose
    /\ AdmBecome(r, Idle)
    /\ UNCHANGED <<applications, students, lastSeq, replaced, deleted>>

\* A query fails, a row is missing or a notice is not delivered: what was saved stays.
AdmGiveUp(r) ==
    /\ work[r].phase # "idle"
    /\ AdmBecome(r, Idle)
    /\ loose' = IF work[r].phase \in {"registered", "reviewed", "created", "updated"}
                    THEN loose \union {work[r].app.id} ELSE loose
    /\ UNCHANGED <<applications, students, told, lastSeq, replaced, deleted>>

-----------------------------------------------------------------------------
AdmNext ==
    \/ \E r \in Calls, p \in People : CheckApplicant(r, p) \/ CreateStudent(r, p)
    \/ \E r \in Calls : \/ GenerateApplicationId(r) \/ SaveNewApplication(r)
                        \/ AutoRegisterStudent(r) \/ SaveStudent(r) \/ LinkApplication(r)
                        \/ SaveApplication(r) \/ Notify(r) \/ AdmGiveUp(r)
                        \/ \E name \in Names \union {work[r].student.name} :
                               UpdateStudent(r, name)
    \/ \E r \in Calls, n \in 0..(MaxSeq + 1) : DrawNumber(r, n)
    \/ \E r \in Calls, s \in students : LoadStudent(r, s)
    \/ \E s \in students : DeleteStudent(s)
    \/ \E r \in Calls, i \in DOMAIN applications, status \in Reviews :
           LoadApplication(r, applications[i], status)

AdmSpec == AdmInit /\ [][AdmNext]_admVars

-----------------------------------------------------------------------------
(* Properties                                                              *)

Ids == DOMAIN applications
PersonOrNone == People \union {Nobody}
StudentRecords ==
    [no : Int, person : PersonOrNone, name : Names \union {NoName}, by : Nat, seq : Nat,
     seen : Nat]
AdmPhases ==
    {"idle", "applying", "numbered", "created", "accepting", "unnumbered", "drawn", "registered",
     "updating", "reviewed", "updated"}
ApplicationRecords == [id : Nat, person : PersonOrNone, status : Statuses, studentNo : Int]

\* The tables hold rows of their shape, one student for a number and reference numbers
\* without a gap; a number is linked to one application, and its student exists.
AdmTypeOK ==
    /\ applications \in Seq(ApplicationRecords)
    /\ \A i \in Ids : applications[i].id = i
    /\ students \subseteq StudentRecords
    /\ \A s, t \in students : s.no = t.no => s = t
    /\ work \in [Calls -> [phase : AdmPhases, app : ApplicationRecords, student : StudentRecords,
                            old : BOOLEAN, stale : BOOLEAN, over : BOOLEAN]]
    /\ told \in Seq((Statuses \union {"nothing"}) \X Int) /\ Len(told) = Len(applications)
    /\ LinkedNos \subseteq Numbers \union {-1}
    /\ \A i, j \in Ids : applications[i].studentNo = applications[j].studentNo
                          => i = j \/ applications[i].studentNo = -1

\* A student's row becomes another person's only when a request drew the number, or loaded
\* the row, before another request wrote it, or drew a number with one above MaxSeq in the
\* table (nextStudentNumber, the save by primary key of createStudent).
RowTakenOnlyByOverlap ==
    [][\A s \in students, t \in students' :
          s.no = t.no /\ s.person # t.person =>
              \E r \in Calls : /\ work[r].student.no = s.no
                               /\ work[r].stale \/ work[r].over]_admVars

\* Two students share a name only when neither, at the time he was given it, could see the
\* other with it: the names were looked through before the other had it, or not at all, as
\* when an update gives a name; or an old copy put one of them back.  So no registration
\* passes over a name that some student has by then, from an update or his registration
\* (createStudent, updateStudent).
SharedNameUnseen ==
    \A s, t \in students :
        /\ s.no # t.no /\ s.name = t.name /\ s.name # NoName
        => \/ s.no \in deleted \union replaced \/ t.no \in deleted \union replaced
           \/ t.seen < s.seq /\ s.seen < t.seq

\* The student linked to an application is the applicant, unless the number was
\* drawn twice or its student deleted before the link.
LinkedStudentIsApplicant ==
    \A i \in Ids : applications[i].studentNo # -1 =>
        \E s \in students : /\ s.no = applications[i].studentNo
                            /\ s.person = applications[i].person \/ s.no \in replaced \union deleted

Busy(i) == \E r \in Calls : work[r].phase # "idle" /\ work[r].app.id = i

\* What the applicant was told last is the status, and the number if he was accepted.
ToldIsStatus(i) ==
    LET a == applications[i] IN
    a.status # "pending" =>
        told[i] = <<a.status, IF a.status = "accepted" THEN a.studentNo ELSE -1>>

\* An application nobody is at work on agrees with the students and the notices: if it is
\* accepted it is linked, the student registered for it is the linked one, and the applicant
\* knows; an old copy saved over it or a request that failed halfway are the exceptions.
QuietApplicationsAgree ==
    \A i \in Ids : i \in loose \/ Busy(i) \/
        /\ applications[i].status = "accepted" => applications[i].studentNo # -1
        /\ \A s \in students : s.by = i <=> s.no = applications[i].studentNo
        /\ ToldIsStatus(i)

\* What accepting, declining and registering leave behind when requests overlap and fail
\* (updateApplicationStatus, autoRegisterStudent, deleteStudent).
RegistrationAgrees == LinkedStudentIsApplicant /\ QuietApplicationsAgree
=============================================================================
