------------------------- MODULE RegistrationProofs -------------------------
(***************************************************************************)
(* Who is a student, and in which class: admissions and enrolment for any  *)
(* number of overlapping requests.  First admissions, whose names are      *)
(* prefixed: the invariant says of the tables what the properties say of   *)
(* them while requests are under way, and of every request what it still   *)
(* knows: the number it drew, the row and the application it holds.  Then  *)
(* enrolment, whose invariant is built in layers: types and ids; which     *)
(* term an id names; what a deletion misses; what unenrolment leaves       *)
(* behind; what a check has ruled out.                                     *)
(***************************************************************************)
EXTENDS Admissions, Enrolment, SequenceTheorems, FiniteSetTheorems, TLAPS

-----------------------------------------------------------------------------
(* Admissions: what the records hold                                       *)

Nos == 0..(MaxSeq + 1)

Notices == (Statuses \union {"nothing"}) \X Int

WorkRecords ==
    [phase : AdmPhases, app : ApplicationRecords, student : StudentRecords,
     old : BOOLEAN, stale : BOOLEAN, over : BOOLEAN]

\* Nothing of number n was deleted, drawn twice or saved from an old copy.
Clean(n) == n \notin deleted \union replaced

\* Phases in which a request is about an application of the table.
Accepting == {"accepting", "unnumbered", "drawn", "registered"}
AtWork == Accepting \union {"reviewed", "created", "updated"}

Tells(r, i) == work[r].phase \in {"reviewed", "updated"} /\ ~work[r].old /\ work[r].app.id = i

Registers(r, i, s) ==
    work[r].phase = "registered" /\ work[r].app.id = i /\ work[r].student.no = s.no

-----------------------------------------------------------------------------
(* What holds of the tables                                                *)

ShapeOK ==
    /\ applications \in Seq(ApplicationRecords)
    /\ told \in Seq(Notices) /\ Len(told) = Len(applications)
    /\ lastSeq \in Nat
    /\ students \subseteq StudentRecords
    /\ \A i \in 1..Len(applications) : applications[i].id = i /\ applications[i].person \in People
    /\ \A s, t \in students : s.no = t.no => s = t

RowOK(s) ==
    /\ s.no \in Nos /\ s.by \in 0..Len(applications)
    /\ s.seq <= lastSeq /\ s.seen <= lastSeq
    /\ s.name # NoName => s.seq > 0

\* Two students of one name.
Namesakes(s, t) == s.name = t.name /\ s.name # NoName

\* Two rows of one student, whatever name they give him.
SameOwner(s, t) == s.no = t.no /\ s.person = t.person /\ s.by = t.by

Kept(s) == \E t \in students : SameOwner(t, s)

NamesOK ==
    \A s, t \in students :
        s.no # t.no /\ Namesakes(s, t) /\ Clean(s.no) /\ Clean(t.no)
        => t.seen < s.seq /\ s.seen < t.seq

\* A number given to someone is a student's, and his unless something happened to it.
Owned(n, person) ==
    \E s \in students : s.no = n /\ (Clean(n) => s.person = person)

LinksOK ==
    /\ \A i \in 1..Len(applications) :
           LET a == applications[i] IN a.studentNo # -1 => Owned(a.studentNo, a.person)
    /\ \A i, j \in 1..Len(applications) :
           applications[i].studentNo = applications[j].studentNo
           => i = j \/ applications[i].studentNo = -1

AgreesOK(i) ==
    LET a == applications[i] IN
    /\ a.status = "accepted" => a.studentNo # -1
    /\ \A s \in students :
          /\ s.no = a.studentNo => s.by = i
          /\ s.by = i => s.no = a.studentNo \/ \E r \in Calls : Registers(r, i, s)
    /\ ToldIsStatus(i) \/ \E r \in Calls : Tells(r, i)

TablesOK ==
    /\ ShapeOK
    /\ \A s \in students : RowOK(s)
    /\ NamesOK
    /\ LinksOK
    /\ \A i \in (1..Len(applications)) \ loose : AgreesOK(i)

-----------------------------------------------------------------------------
(* What a request knows                                                    *)

KnowsStudent(d) ==
    /\ d.phase \in {"unnumbered", "drawn"} =>
          /\ d.student.by = d.app.id
          /\ d.app.id # 0 => d.student.person = d.app.person
          /\ d.student.seen <= lastSeq
          /\ \A s \in students :
                Clean(s.no) /\ Namesakes(s, d.student) => d.student.seen < s.seq
    /\ d.phase = "drawn" =>
          d.student.no \in Nos /\ (d.stale \/ d.over \/ d.student.no \notin Numbers)
    /\ d.phase = "updating" =>
          /\ RowOK(d.student)
          /\ ~d.stale => d.student \in students
          /\ Clean(d.student.no) => d.student.no \in Numbers
    /\ d.phase = "registered" =>
          /\ d.student.person = d.app.person /\ d.student.by = d.app.id
          /\ Clean(d.student.no) \/ d.app.id \notin loose => Kept(d.student)

KnowsApplication(d) ==
    /\ d.phase \in {"applying", "numbered", "created"} =>
          d.app.status = "pending" /\ d.app.studentNo = -1
    /\ d.phase \in {"applying", "numbered"} => d.app.person \in People
    /\ d.phase = "numbered" => d.app.id \in 1..(Len(applications) + 1)
    /\ d.phase \in AtWork =>
          /\ d.app.id \in 0..Len(applications)
          /\ d.app.id = 0 => d.phase \in {"unnumbered", "drawn"}
          /\ d.app.id # 0 =>
                /\ d.app.person = applications[d.app.id].person
                /\ d.app.studentNo # -1 /\ Clean(d.app.studentNo) =>
                      Owned(d.app.studentNo, d.app.person)
    /\ d.phase \in AtWork /\ d.app.id \notin loose \union {0} /\ ~d.old =>
          /\ d.phase \in Accepting =>
                d.app.studentNo = -1 /\ applications[d.app.id].studentNo = -1
          /\ d.phase = "reviewed" =>
                /\ d.app.studentNo = applications[d.app.id].studentNo
                /\ d.app.status = "accepted" => d.app.studentNo # -1
          /\ d.phase \in {"created", "updated"} => d.app = applications[d.app.id]

Knows(d) == KnowsStudent(d) /\ KnowsApplication(d)

Inv == TablesOK /\ work \in [Calls -> WorkRecords] /\ \A r \in Calls : Knows(work[r])

-----------------------------------------------------------------------------
(* Requests that read                                                      *)

LEMMA NoFields ==
    /\ NoApplication \in ApplicationRecords /\ NoApplication.id = 0
    /\ NoApplication.studentNo = -1 /\ NoApplication.status = "pending"
    /\ NoStudent \in StudentRecords /\ NoStudent.by = 0 /\ NoStudent.person = Nobody
    /\ NoStudent.seen = 0 /\ NoStudent.seq = 0 /\ NoStudent.name = NoName
BY DEF NoApplication, NoStudent, ApplicationRecords, StudentRecords, PersonOrNone, Statuses

LEMMA BlankFields ==
    /\ Idle \in WorkRecords /\ Idle.phase = "idle"
    /\ Idle.old = FALSE /\ Idle.stale = FALSE /\ Idle.over = FALSE
    /\ Idle.app = NoApplication /\ Idle.student = NoStudent
<1>1. NoApplication \in ApplicationRecords /\ NoStudent \in StudentRecords
    BY NoFields
<1>2. "idle" \in AdmPhases
    BY DEF AdmPhases
<1>3. Idle = [phase |-> "idle", app |-> NoApplication, student |-> NoStudent,
              old |-> FALSE, stale |-> FALSE, over |-> FALSE]
    BY DEF Idle
<1>4. Idle \in WorkRecords
    BY <1>1, <1>2, <1>3 DEF WorkRecords
<1> QED
    BY <1>3, <1>4

LEMMA IdleKnows == ASSUME NEW d, d.phase = "idle" PROVE Knows(d) /\ Knows(d)'
BY DEF Knows, KnowsStudent, KnowsApplication, AtWork, Accepting

LEMMA InitInv == AdmInit => Inv
<1> SUFFICES ASSUME AdmInit
             PROVE  Inv
    OBVIOUS
<1> DEFINE row(n) == [NoStudent EXCEPT !.no = n]
<1>1. /\ applications = <<>> /\ told = <<>> /\ lastSeq = 0
      /\ \A s \in students : \E n \in 0..(Before - 1) : s = row(n)
    BY DEF AdmInit
<1>2. ASSUME NEW n \in 0..(Before - 1)
      PROVE  /\ row(n) \in StudentRecords /\ row(n).no = n /\ n \in Nos
             /\ row(n).by = 0 /\ row(n).seq = 0 /\ row(n).seen = 0 /\ row(n).name = NoName
    <2>1. n \in Nos /\ n \in Int
        BY NumberAssumption DEF Nos
    <2> QED
        BY <2>1 DEF NoStudent, StudentRecords, PersonOrNone
<1> HIDE DEF row
<1>3. \A s \in students : /\ s \in StudentRecords /\ s = row(s.no) /\ RowOK(s)
                          /\ s.name = NoName
    BY <1>1, <1>2, EmptySeq DEF RowOK
<1>4. ShapeOK /\ Len(applications) = 0
    BY <1>1, <1>3, EmptySeq DEF ShapeOK
<1>5. TablesOK
    BY <1>3, <1>4 DEF TablesOK, NamesOK, Namesakes, LinksOK
<1>6. work = [r \in Calls |-> Idle]
    BY DEF AdmInit
<1> QED
    BY <1>5, <1>6, BlankFields, IdleKnows DEF Inv

\* While the tables rest, what they say and what is known of them stays.
LEMMA SameTables ==
    ASSUME UNCHANGED <<applications, students, lastSeq, replaced, deleted>>, loose \subseteq loose'
    PROVE  /\ \A d : Knows(d) => Knows(d)'
           /\ \A s \in students : RowOK(s)' <=> RowOK(s)
           /\ NamesOK' <=> NamesOK
           /\ LinksOK' <=> LinksOK
<1>1. \A n : Clean(n)' <=> Clean(n)
    BY DEF Clean
<1>2. \A s : RowOK(s)' <=> RowOK(s)
    BY DEF RowOK
<1>3. \A d : KnowsStudent(d) => KnowsStudent(d)'
    BY <1>1, <1>2 DEF KnowsStudent, Kept, Numbers
<1>4. \A n, p : Owned(n, p)' <=> Owned(n, p)
    BY <1>1 DEF Owned
<1>5. \A d : KnowsApplication(d) => KnowsApplication(d)'
    BY <1>1, <1>4 DEF KnowsApplication
<1>6. NamesOK' <=> NamesOK
    BY <1>1 DEF NamesOK
<1>7. LinksOK' <=> LinksOK
    BY <1>4 DEF LinksOK
<1> QED
    BY <1>2, <1>3, <1>5, <1>6, <1>7 DEF Knows

LEMMA ReadInv ==
    ASSUME Inv, NEW r \in Calls, NEW d, d \in WorkRecords, Knows(d), Reads(r, d),
           work[r].phase \notin {"registered", "reviewed", "updated"}
    PROVE  Inv'
<1>1. /\ UNCHANGED <<applications, students, told, lastSeq, replaced, deleted, loose>>
      /\ work' = [work EXCEPT ![r] = d]
    BY DEF Reads, AdmBecome
<1>2. work' \in [Calls -> WorkRecords] /\ \A q \in Calls : Knows(work'[q])
    BY <1>1 DEF Inv
<1>3. \A q \in Calls : Knows(work[q])'
    BY <1>1, <1>2, SameTables
<1>4. ASSUME NEW i \in (1..Len(applications)) \ loose
      PROVE  AgreesOK(i)'
    <2>1. \A q \in Calls : \A s : Registers(q, i, s) => Registers(q, i, s)'
        BY <1>1 DEF Registers, Inv
    <2>2. \A q \in Calls : Tells(q, i) => Tells(q, i)'
        BY <1>1 DEF Tells, Inv
    <2>3. ToldIsStatus(i)' <=> ToldIsStatus(i)
        BY <1>1 DEF ToldIsStatus
    <2> QED
        BY <1>1, <2>1, <2>2, <2>3 DEF Inv, TablesOK, AgreesOK
<1>5. TablesOK'
    BY <1>1, <1>4, SameTables DEF Inv, TablesOK, ShapeOK
<1> QED
    BY <1>2, <1>3, <1>5 DEF Inv

LEMMA Held ==
    ASSUME Inv, NEW r \in Calls
    PROVE  /\ work[r] \in WorkRecords /\ Knows(work[r])
           /\ work[r].app \in ApplicationRecords /\ work[r].student \in StudentRecords
BY DEF Inv, WorkRecords

LEMMA Lengths ==
    ASSUME Inv
    PROVE  /\ Len(applications) \in Nat /\ DOMAIN applications = 1..Len(applications)
           /\ \A i \in 1..Len(applications) :
                 /\ applications[i] \in ApplicationRecords /\ applications[i].id = i
                 /\ applications[i].person \in People
           /\ lastSeq \in Nat
           /\ \A s \in students : s \in StudentRecords /\ RowOK(s)
<1>1. applications \in Seq(ApplicationRecords)
    BY DEF Inv, TablesOK, ShapeOK
<1>2. Len(applications) \in Nat /\ DOMAIN applications = 1..Len(applications)
    BY <1>1, LenProperties
<1>3. \A i \in 1..Len(applications) : applications[i] \in ApplicationRecords
    BY <1>1, ElementOfSeq
<1> QED
    BY <1>2, <1>3 DEF Inv, TablesOK, ShapeOK

\* A request about an application of the table has its number.
LEMMA AppInTable ==
    ASSUME Inv, NEW r \in Calls,
           work[r].phase \in {"accepting", "registered", "reviewed", "created", "updated"}
    PROVE  /\ work[r].app.id \in 1..Len(applications)
           /\ work[r].app.person = applications[work[r].app.id].person
           /\ work[r].app.person \in People
BY Held, Lengths DEF Knows, KnowsApplication, AtWork, Accepting

LEMMA CheckApplicantInv ==
    ASSUME Inv, NEW r \in Calls, NEW p \in People, CheckApplicant(r, p) PROVE Inv'
<1> DEFINE a == [NoApplication EXCEPT !.person = p]
           d == [Idle EXCEPT !.phase = "applying", !.app = a]
<1>1. a \in ApplicationRecords /\ a.status = "pending" /\ a.studentNo = -1 /\ a.person = p
    BY NoFields DEF ApplicationRecords, PersonOrNone
<1>2. work[r].phase = "idle" /\ Reads(r, d)
    BY BlankFields DEF CheckApplicant, Idle
<1> HIDE DEF a
<1>3. d.phase = "applying" /\ d.app = a /\ d \in WorkRecords
    BY <1>1, BlankFields DEF WorkRecords, AdmPhases
<1> HIDE DEF d
<1>4. Knows(d)
    BY <1>1, <1>3 DEF Knows, KnowsStudent, KnowsApplication, AtWork, Accepting
<1> QED
    BY <1>2, <1>3, <1>4, ReadInv

LEMMA GenerateApplicationIdInv ==
    ASSUME Inv, NEW r \in Calls, GenerateApplicationId(r) PROVE Inv'
<1> DEFINE a == [work[r].app EXCEPT !.id = Len(applications) + 1]
           d == [work[r] EXCEPT !.phase = "numbered", !.app = a]
<1>1. /\ a \in ApplicationRecords /\ a.id \in 1..(Len(applications) + 1)
      /\ a.status = work[r].app.status /\ a.person = work[r].app.person
      /\ a.studentNo = work[r].app.studentNo
    BY Held, Lengths DEF ApplicationRecords
<1>2. work[r].phase = "applying" /\ Reads(r, d)
    BY Held DEF GenerateApplicationId, WorkRecords
<1> HIDE DEF a
<1>3. d.phase = "numbered" /\ d.app = a /\ d \in WorkRecords
    BY <1>1, Held DEF WorkRecords, AdmPhases
<1> HIDE DEF d
<1>4. Knows(d)
    BY <1>1, <1>2, <1>3, Held DEF Knows, KnowsStudent, KnowsApplication, AtWork, Accepting
<1> QED
    BY <1>2, <1>3, <1>4, ReadInv

LEMMA CreateStudentInv ==
    ASSUME Inv, NEW r \in Calls, NEW p \in People, CreateStudent(r, p) PROVE Inv'
<1> DEFINE s == NewStudent(p, 0)
           d == [Idle EXCEPT !.phase = "unnumbered", !.student = s]
<1>1. /\ s \in StudentRecords /\ s.person = p /\ s.seen = lastSeq /\ s.by = 0
      /\ s.name = NameOf[p]
    BY NoFields, Lengths, PeopleAssumption DEF NewStudent, StudentRecords, PersonOrNone
<1>2. work[r].phase = "idle" /\ Reads(r, d) /\ NameIsFree(p)
    BY BlankFields DEF CreateStudent
<1> HIDE DEF s
<1>3. d.phase = "unnumbered" /\ d.student = s /\ d.app = NoApplication /\ d \in WorkRecords
    BY <1>1, BlankFields, NoFields DEF WorkRecords, AdmPhases
<1> HIDE DEF d
<1>4. KnowsStudent(d)
    BY <1>1, <1>2, <1>3, NoFields, Lengths DEF KnowsStudent, NameIsFree, Namesakes
<1>5. KnowsApplication(d)
    BY <1>3, NoFields, Lengths DEF KnowsApplication, AtWork, Accepting
<1> QED
    BY <1>2, <1>3, <1>4, <1>5, ReadInv DEF Knows

LEMMA AutoRegisterStudentInv ==
    ASSUME Inv, NEW r \in Calls, AutoRegisterStudent(r) PROVE Inv'
<1> DEFINE a == work[r].app
           s == NewStudent(a.person, a.id)
           d == [work[r] EXCEPT !.phase = "unnumbered", !.student = s]
<1>1. /\ s \in StudentRecords /\ s.person = a.person /\ s.seen = lastSeq /\ s.by = a.id
      /\ s.name = NameOf[a.person] /\ a \in ApplicationRecords
    <2>1. a \in ApplicationRecords /\ a.person \in People
        BY Held, AppInTable DEF AutoRegisterStudent
    <2> QED
        BY <2>1, NoFields, Lengths, PeopleAssumption
        DEF NewStudent, StudentRecords, ApplicationRecords
<1>2. work[r].phase = "accepting" /\ Reads(r, d) /\ NameIsFree(a.person)
    BY DEF AutoRegisterStudent
<1> HIDE DEF s
<1>3. d.phase = "unnumbered" /\ d.student = s /\ d.app = a /\ d.old = work[r].old
      /\ d \in WorkRecords
    BY <1>1, Held DEF WorkRecords, AdmPhases
<1> HIDE DEF d
<1>4. KnowsStudent(d)
    BY <1>1, <1>2, <1>3, Lengths DEF KnowsStudent, NameIsFree, Namesakes
<1>5. KnowsApplication(d)
    BY <1>2, <1>3, Held DEF Knows, KnowsApplication, AtWork, Accepting
<1> QED
    BY <1>2, <1>3, <1>4, <1>5, ReadInv DEF Knows

\* Unless a number beyond MaxSeq is in the table, the number drawn is nobody's.
LEMMA NextIsFree ==
    ASSUME Inv, NEW m \in LastNumbers, MaxSeq + 1 \notin Numbers
    PROVE  NumberAfter(m) \notin Numbers
<1>1. \A n \in Numbers : n \in 0..MaxSeq
    BY Lengths, NumberAssumption DEF Numbers, RowOK, Nos
<1>2. m \in Numbers /\ \A n \in Numbers : ~SortsAfter(n, m)
    BY DEF LastNumbers
<1>3. \A n \in Numbers : ~(n > m)
    BY <1>1, <1>2, NumberAssumption DEF SortsAfter
<1>4. m % (MaxSeq + 1) = m
    BY <1>1, <1>2, NumberAssumption
<1>5. NumberAfter(m) = m + 1
    BY <1>4 DEF NumberAfter
<1> QED
    BY <1>1, <1>2, <1>3, <1>5

LEMMA DrawNumberInv ==
    ASSUME Inv, NEW r \in Calls, NEW n \in 0..(MaxSeq + 1), DrawNumber(r, n) PROVE Inv'
<1> DEFINE s == [work[r].student EXCEPT !.no = n]
           beyond == MaxSeq + 1 \in Numbers
           d == [work[r] EXCEPT !.phase = "drawn", !.student = s, !.stale = FALSE,
                                !.over = beyond]
<1>1. /\ s \in StudentRecords /\ s.no = n /\ s.person = work[r].student.person
      /\ s.seen = work[r].student.seen /\ s.by = work[r].student.by
      /\ s.name = work[r].student.name
    BY Held, NumberAssumption DEF StudentRecords
<1>2. work[r].phase = "unnumbered" /\ Reads(r, d) /\ beyond \in BOOLEAN
    BY Held DEF DrawNumber, WorkRecords
<1>3. beyond \/ n \notin Numbers
    BY NextIsFree DEF DrawNumber
<1> HIDE DEF s, beyond
<1>4. /\ d.phase = "drawn" /\ d.student = s /\ d.app = work[r].app /\ d.old = work[r].old
      /\ d.over = beyond /\ d \in WorkRecords
    BY <1>1, <1>2, Held DEF WorkRecords, AdmPhases
<1> HIDE DEF d
<1>5. KnowsStudent(d)
    BY <1>1, <1>2, <1>3, <1>4, Held DEF Knows, KnowsStudent, Namesakes, Nos
<1>6. KnowsApplication(d)
    BY <1>2, <1>4, Held DEF Knows, KnowsApplication, AtWork, Accepting
<1> QED
    BY <1>2, <1>4, <1>5, <1>6, ReadInv DEF Knows

LEMMA LoadStudentInv ==
    ASSUME Inv, NEW r \in Calls, NEW s \in students, LoadStudent(r, s) PROVE Inv'
<1> DEFINE d == [Idle EXCEPT !.phase = "updating", !.student = s]
<1>1. s \in StudentRecords /\ RowOK(s) /\ work[r].phase = "idle" /\ Reads(r, d)
    BY Lengths DEF LoadStudent
<1>2. d.phase = "updating" /\ d.student = s /\ d \in WorkRecords
    BY <1>1, BlankFields DEF WorkRecords, AdmPhases
<1> HIDE DEF d
<1>3. Knows(d)
    BY <1>1, <1>2 DEF Knows, KnowsStudent, KnowsApplication, AtWork, Accepting, Numbers
<1> QED
    BY <1>1, <1>2, <1>3, ReadInv

LEMMA LoadApplicationInv ==
    ASSUME Inv, NEW r \in Calls, NEW i \in DOMAIN applications, NEW status \in Reviews,
           LoadApplication(r, applications[i], status)
    PROVE  Inv'
<1> DEFINE a == applications[i]
           registers == status = "accepted" /\ a.status # "accepted" /\ a.studentNo = -1
           b == [a EXCEPT !.status = status]
           d == [Idle EXCEPT !.phase = IF registers THEN "accepting" ELSE "reviewed",
                             !.app = b]
<1>1. i \in 1..Len(applications) /\ a \in ApplicationRecords /\ a.id = i
    BY Lengths
<1>2. /\ b \in ApplicationRecords /\ b.id = i /\ b.person = a.person /\ b.status = status
      /\ b.studentNo = a.studentNo
    BY <1>1, ReviewAssumption DEF ApplicationRecords
<1>3. work[r].phase = "idle" /\ Reads(r, d)
    BY DEF LoadApplication
<1> HIDE DEF b
<1>4. /\ d.phase = (IF registers THEN "accepting" ELSE "reviewed") /\ d.app = b
      /\ d.old = FALSE /\ d \in WorkRecords
    BY <1>2, BlankFields DEF WorkRecords, AdmPhases
<1> HIDE DEF d
<1>5. a.studentNo # -1 => Owned(a.studentNo, a.person)
    BY <1>1 DEF Inv, TablesOK, LinksOK
<1>6. i \notin loose => (a.status = "accepted" => a.studentNo # -1)
    BY <1>1 DEF Inv, TablesOK, AgreesOK
<1>7. KnowsStudent(d)
    BY <1>4 DEF KnowsStudent
<1>8. KnowsApplication(d)
    BY <1>1, <1>2, <1>4, <1>5, <1>6, Lengths DEF KnowsApplication, AtWork, Accepting
<1> QED
    BY <1>3, <1>4, <1>7, <1>8, ReadInv DEF Knows

-----------------------------------------------------------------------------
(* Requests that fail or tell                                              *)

LEMMA GiveUpInv ==
    ASSUME Inv, NEW r \in Calls, AdmGiveUp(r) PROVE Inv'
<1>1. /\ UNCHANGED <<applications, students, told, lastSeq, replaced, deleted>>
      /\ work' = [work EXCEPT ![r] = Idle] /\ loose \subseteq loose'
    BY DEF AdmGiveUp, AdmBecome
<1>2. /\ work' \in [Calls -> WorkRecords]
      /\ \A q \in Calls : Knows(work'[q])
    BY <1>1, BlankFields, IdleKnows DEF Inv
<1>3. \A q \in Calls : Knows(work[q])'
    BY <1>1, <1>2, SameTables
<1>4. ASSUME NEW i \in (1..Len(applications)) \ loose'
      PROVE  AgreesOK(i)'
    <2>1. work[r].phase \in {"registered", "reviewed", "updated"} => work[r].app.id # i
        BY DEF AdmGiveUp
    <2>2. \A q \in Calls : \A s : Registers(q, i, s) => Registers(q, i, s)'
        BY <1>1, <2>1 DEF Registers, Inv
    <2>3. \A q \in Calls : Tells(q, i) => Tells(q, i)'
        BY <1>1, <2>1 DEF Tells, Inv
    <2>4. ToldIsStatus(i)' <=> ToldIsStatus(i)
        BY <1>1 DEF ToldIsStatus
    <2> QED
        BY <1>1, <2>2, <2>3, <2>4 DEF Inv, TablesOK, AgreesOK
<1>5. TablesOK'
    BY <1>1, <1>4, SameTables DEF Inv, TablesOK, ShapeOK
<1> QED
    BY <1>2, <1>3, <1>5 DEF Inv

LEMMA NotifyInv ==
    ASSUME Inv, NEW r \in Calls, Notify(r) PROVE Inv'
<1> DEFINE a == work[r].app
           notice == IF work[r].phase = "created" THEN Confirmation(a)
                     ELSE IF a.status = "accepted" /\ a.studentNo # -1 THEN Acceptance(a)
                     ELSE StatusUpdate(a)
<1>1. /\ UNCHANGED <<applications, students, lastSeq, replaced, deleted>>
      /\ work' = [work EXCEPT ![r] = Idle] /\ loose \subseteq loose'
      /\ told' = [told EXCEPT ![a.id] = notice]
      /\ work[r].phase \in {"created", "updated"}
    BY DEF Notify, AdmBecome
<1>2. /\ work' \in [Calls -> WorkRecords]
      /\ \A q \in Calls : Knows(work'[q])
    BY <1>1, BlankFields, IdleKnows DEF Inv
<1>3. \A q \in Calls : Knows(work[q])'
    BY <1>1, <1>2, SameTables
<1>4. /\ a.id \in 1..Len(told) /\ told \in Seq(Notices) /\ Len(told) = Len(applications)
      /\ a \in ApplicationRecords
    BY <1>1, AppInTable, Held DEF Inv, TablesOK, ShapeOK
<1>5. told[a.id] \in Notices
    BY <1>4, ElementOfSeq
<1>6. notice \in Notices
    BY <1>4, <1>5 DEF Confirmation, Acceptance, StatusUpdate, Notices, ApplicationRecords, Statuses
<1>7. a.id \notin loose' => a = applications[a.id]
    <2>1. a.id \notin loose' => ~work[r].old /\ a.id \notin loose
        BY <1>4, Held DEF Notify, WorkRecords
    <2> QED
        BY <1>1, <1>4, <2>1, Held DEF Knows, KnowsApplication, AtWork
<1>8. work[r].phase = "created" => a.status = "pending"
    BY Held DEF Knows, KnowsApplication
<1> HIDE DEF notice
<1>9. /\ told' \in Seq(Notices) /\ Len(told') = Len(applications)
      /\ \A j \in 1..Len(applications) : told'[j] = IF j = a.id THEN notice ELSE told[j]
    BY <1>1, <1>4, <1>6, ExceptSeq
<1>10. ASSUME NEW i \in (1..Len(applications)) \ loose'
       PROVE  AgreesOK(i)'
    <2>1. \A q \in Calls : \A s : Registers(q, i, s) => Registers(q, i, s)'
        BY <1>1 DEF Registers, Inv
    <2>2. AgreesOK(i)
        BY <1>1 DEF Inv, TablesOK
    <2>3. CASE i = a.id
        <3>1. a.status # "pending" =>
                  notice = <<a.status, IF a.status = "accepted" THEN a.studentNo ELSE -1>>
            BY <1>7, <1>8, <2>2, <2>3
            DEF AgreesOK, notice, Confirmation, Acceptance, StatusUpdate
        <3>2. ToldIsStatus(i)'
            BY <1>1, <1>7, <1>9, <2>3, <3>1 DEF ToldIsStatus
        <3> QED
            BY <1>1, <2>1, <2>2, <3>2 DEF AgreesOK
    <2>4. CASE i # a.id
        <3>1. \A q \in Calls : Tells(q, i) => Tells(q, i)'
            BY <1>1, <2>4 DEF Tells, Inv
        <3>2. ToldIsStatus(i)' <=> ToldIsStatus(i)
            BY <1>1, <1>9, <2>4 DEF ToldIsStatus
        <3> QED
            BY <1>1, <2>1, <2>2, <3>1, <3>2 DEF AgreesOK
    <2> QED
        BY <2>3, <2>4
<1>11. TablesOK'
    BY <1>1, <1>9, <1>10, SameTables DEF Inv, TablesOK, ShapeOK
<1> QED
    BY <1>2, <1>3, <1>11 DEF Inv

-----------------------------------------------------------------------------
(* Applications written                                                    *)

LEMMA SaveNewApplicationInv ==
    ASSUME Inv, NEW r \in Calls, SaveNewApplication(r) PROVE Inv'
<1> SUFFICES ASSUME NEW n, n = Len(applications), NEW a, a = work[r].app,
                    NEW d, d = [work[r] EXCEPT !.phase = "created"]
             PROVE  Inv'
    OBVIOUS
<1>1. /\ UNCHANGED <<students, lastSeq, replaced, deleted, loose>>
      /\ work' = [work EXCEPT ![r] = d]
      /\ applications' = Append(applications, a)
      /\ told' = Append(told, <<"nothing", -1>>)
      /\ work[r].phase = "numbered" /\ a.id > n
    BY DEF SaveNewApplication, AdmBecome
<1>2. /\ d.phase = "created" /\ d.app = a /\ d \in WorkRecords /\ a \in ApplicationRecords
      /\ n \in Nat
    BY Held, Lengths DEF WorkRecords, AdmPhases
<1>3. a.id = n + 1 /\ a.status = "pending" /\ a.studentNo = -1 /\ a.person \in People
    BY <1>1, <1>2, Held DEF Knows, KnowsApplication
<1>4. /\ applications \in Seq(ApplicationRecords) /\ told \in Seq(Notices)
      /\ Len(told) = n /\ <<"nothing", -1>> \in Notices
    BY DEF Inv, TablesOK, ShapeOK, Notices
<1>5. /\ applications' \in Seq(ApplicationRecords) /\ Len(applications)' = n + 1
      /\ \A i \in 1..n : applications'[i] = applications[i]
      /\ applications'[n + 1] = a
    BY <1>1, <1>2, <1>4, AppendProperties
<1>6. /\ told' \in Seq(Notices) /\ Len(told)' = n + 1
      /\ \A i \in 1..n : told'[i] = told[i]
    BY <1>1, <1>4, AppendProperties
<1>7. \A i \in 1..(n + 1) : i \in 1..n \/ i = n + 1
    BY <1>2
<1>8. ShapeOK'
    BY <1>1, <1>2, <1>3, <1>5, <1>6, <1>7 DEF Inv, TablesOK, ShapeOK
<1>9. \A s : RowOK(s) => RowOK(s)'
    BY <1>1, <1>2, <1>5 DEF RowOK
<1>10. /\ \A m : Clean(m)' <=> Clean(m)
       /\ \A m, p : Owned(m, p)' <=> Owned(m, p)
    BY <1>1 DEF Clean, Owned
<1>11. NamesOK'
    BY <1>1, <1>10 DEF Inv, TablesOK, NamesOK
<1>12. LinksOK'
    BY <1>3, <1>5, <1>7, <1>10 DEF Inv, TablesOK, LinksOK
<1>13. ASSUME NEW i \in 1..n, i \notin loose'
       PROVE  AgreesOK(i)'
    <2>1. \A q \in Calls : \A s : Registers(q, i, s) => Registers(q, i, s)'
        BY <1>1 DEF Registers, Inv
    <2>2. \A q \in Calls : Tells(q, i) => Tells(q, i)'
        BY <1>1 DEF Tells, Inv
    <2>3. ToldIsStatus(i)' <=> ToldIsStatus(i)
        BY <1>5, <1>6 DEF ToldIsStatus
    <2>4. i \in (1..Len(applications)) \ loose
        BY <1>1, <1>13
    <2>5. AgreesOK(i) /\ applications'[i] = applications[i]
        BY <1>5, <2>4 DEF Inv, TablesOK
    <2> QED
        BY <1>1, <2>1, <2>2, <2>3, <2>5 DEF AgreesOK
<1>14. AgreesOK(n + 1)'
    <2>1. \A s \in students : s.no # -1 /\ s.by # n + 1
        BY <1>2, Lengths, NumberAssumption DEF RowOK, Nos
    <2> QED
        BY <1>1, <1>3, <1>5, <2>1 DEF AgreesOK, ToldIsStatus
<1>15. TablesOK'
    BY <1>1, <1>5, <1>7, <1>8, <1>9, <1>11, <1>12, <1>13, <1>14 DEF Inv, TablesOK
<1>16. Knows(d)'
    BY <1>2, <1>3, <1>5 DEF Knows, KnowsStudent, KnowsApplication, AtWork, Accepting
<1>17. \A k \in 0..n : k \in 0..(n + 1) /\ (k # 0 => applications'[k] = applications[k])
    BY <1>2, <1>5
<1>18. \A k \in 1..(n + 1) : k \in 1..(n + 2)
    BY <1>2
<1>19. \A e : KnowsStudent(e) => KnowsStudent(e)'
    BY <1>1, <1>9, <1>10 DEF KnowsStudent, Kept, Numbers
<1>20. \A e : KnowsApplication(e) => KnowsApplication(e)'
    <2> SUFFICES ASSUME NEW e, KnowsApplication(e)
                 PROVE  KnowsApplication(e)'
        OBVIOUS
    <2>1. e.phase = "numbered" => e.app.id \in 1..(Len(applications)' + 1)
        BY <1>2, <1>5, <1>18 DEF KnowsApplication
    <2> QED
        BY <1>1, <1>5, <1>10, <1>17, <2>1 DEF KnowsApplication
<1>21. /\ work' \in [Calls -> WorkRecords]
       /\ \A q \in Calls : work'[q] = d \/ (work'[q] = work[q] /\ Knows(work[q]))
    BY <1>1, <1>2 DEF Inv
<1>22. \A e : Knows(e) => Knows(e)'
    BY <1>19, <1>20 DEF Knows
<1>23. \A q \in Calls : Knows(work[q])'
    BY <1>16, <1>21, <1>22
<1> QED
    BY <1>15, <1>21, <1>23 DEF Inv

\* An application saved by a request that holds e: what e says of it must be true, unless
\* it is an old copy.
LEMMA WriteApplicationInv ==
    ASSUME Inv, NEW r \in Calls, NEW e \in WorkRecords,
           work[r].phase \in {"registered", "reviewed"}, e.phase \in {"reviewed", "updated"},
           e.app.id = work[r].app.id, e.app.person = work[r].app.person, e.old = work[r].old,
           e.app.studentNo # -1 /\ Clean(e.app.studentNo)
               => Owned(e.app.studentNo, e.app.person),
           e.app.id \notin loose /\ ~e.old =>
               /\ e.app.status = "accepted" => e.app.studentNo # -1
               /\ \A s \in students :
                     /\ s.no = e.app.studentNo => s.by = e.app.id
                     /\ s.by = e.app.id =>
                           \/ s.no = e.app.studentNo
                           \/ \E q \in Calls : q # r /\ Registers(q, e.app.id, s),
           WriteApplication(r, e, e.old)
    PROVE  Inv'
<1> SUFFICES ASSUME NEW a, a = e.app, NEW i, i = a.id, NEW n, n = Len(applications)
             PROVE  Inv'
    OBVIOUS
<1>1. /\ UNCHANGED <<students, told, lastSeq, replaced, deleted>>
      /\ applications' = [applications EXCEPT ![i] = a]
      /\ a.studentNo # -1 => /\ a.studentNo \in Numbers
                             /\ \A j \in DOMAIN applications \ {i} :
                                    applications[j].studentNo # a.studentNo
      /\ loose' = IF e.old THEN loose \union {i} ELSE loose
      /\ work' = [q \in Calls |->
                   IF q = r THEN e
                   ELSE IF a # applications[i] /\ work[q].app.id = i
                            THEN [work[q] EXCEPT !.old = TRUE]
                   ELSE work[q]]
    BY DEF WriteApplication
<1>2. /\ i \in 1..n /\ a \in ApplicationRecords /\ a.person = applications[i].person
      /\ n \in Nat /\ DOMAIN applications = 1..n
    BY AppInTable, Lengths DEF WorkRecords
<1>3. /\ applications' \in Seq(ApplicationRecords) /\ Len(applications)' = n
      /\ \A j \in 1..n : applications'[j] = IF j = i THEN a ELSE applications[j]
    BY <1>1, <1>2, ExceptSeq DEF Inv, TablesOK, ShapeOK
<1>4. \A q \in Calls :
         /\ work'[q] \in WorkRecords
         /\ q = r => work'[q] = e
         /\ q # r => /\ work'[q].phase = work[q].phase /\ work'[q].app = work[q].app
                     /\ work'[q].student = work[q].student
                     /\ work'[q].stale = work[q].stale /\ work'[q].over = work[q].over
                     /\ ~work'[q].old => ~work[q].old
                     /\ ~work'[q].old => a = applications[i] \/ work[q].app.id # i
    BY <1>1, Held DEF WorkRecords
<1>5. work' \in [Calls -> WorkRecords]
    BY <1>1, <1>4
<1>6. loose \subseteq loose' /\ (i \notin loose' => i \notin loose /\ ~e.old)
    BY <1>1
<1>7. ShapeOK'
    BY <1>1, <1>2, <1>3 DEF Inv, TablesOK, ShapeOK
<1>8. \A s : RowOK(s) => RowOK(s)'
    BY <1>1, <1>2, <1>3 DEF RowOK
<1>9. /\ \A m : Clean(m)' <=> Clean(m)
      /\ \A m, p : Owned(m, p)' <=> Owned(m, p)
    BY <1>1 DEF Clean, Owned
<1>10. NamesOK'
    BY <1>1, <1>9 DEF Inv, TablesOK, NamesOK
<1>11. a.studentNo # -1 => Owned(a.studentNo, a.person)
    BY <1>1 DEF Owned, Numbers
<1>12. LinksOK'
    BY <1>1, <1>2, <1>3, <1>9, <1>11 DEF Inv, TablesOK, LinksOK
<1>13. ASSUME NEW j \in 1..n, j \notin loose'
       PROVE  AgreesOK(j)'
    <2>1. \A q \in Calls : \A s : q # r /\ Registers(q, j, s) => Registers(q, j, s)'
        BY <1>4 DEF Registers
    <2>2. CASE j = i
        <3>1. i \notin loose /\ ~e.old
            BY <1>6, <1>13, <2>2
        <3>2. Tells(r, i)'
            BY <1>4, <3>1 DEF Tells
        <3> QED
            BY <1>1, <1>2, <1>3, <2>1, <2>2, <3>1, <3>2 DEF AgreesOK
    <2>3. CASE j # i
        <3>1. AgreesOK(j) /\ applications'[j] = applications[j]
            BY <1>3, <1>6, <1>13, <2>3 DEF Inv, TablesOK
        <3>2. \A s : ~Registers(r, j, s)
            BY <2>3 DEF Registers
        <3>3. \A q \in Calls : Tells(q, j) => \E p \in Calls : Tells(p, j)'
            BY <1>1, <1>4, <2>3 DEF Tells
        <3>4. ToldIsStatus(j)' <=> ToldIsStatus(j)
            BY <1>1, <3>1 DEF ToldIsStatus
        <3> QED
            BY <1>1, <2>1, <3>1, <3>2, <3>3, <3>4 DEF AgreesOK
    <2> QED
        BY <2>2, <2>3
<1>14. TablesOK'
    BY <1>1, <1>3, <1>7, <1>8, <1>10, <1>12, <1>13 DEF Inv, TablesOK
<1>15. ASSUME NEW q \in Calls
       PROVE  Knows(work[q])'
    <2>1. CASE q = r
        <3>1. Knows(e)'
            BY <1>2, <1>3, <1>6, <1>9, <1>11
            DEF Knows, KnowsStudent, KnowsApplication, AtWork, Accepting
        <3> QED
            BY <1>4, <2>1, <3>1
    <2>2. CASE q # r
        <3>1. KnowsStudent(work[q]) => KnowsStudent(work[q])'
            BY <1>1, <1>4, <1>6, <1>8, <1>9, <2>2 DEF KnowsStudent, Kept, Numbers
        <3>2. \A k \in 1..n : applications'[k].person = applications[k].person
            BY <1>2, <1>3
        <3>3. ~work'[q].old /\ work[q].app.id \in 1..n
                  => applications'[work[q].app.id] = applications[work[q].app.id]
            BY <1>2, <1>3, <1>4, <2>2
        <3>4. KnowsApplication(work[q]) => KnowsApplication(work[q])'
            <4> SUFFICES ASSUME NEW f, f = work[q], NEW g, g = work'[q], KnowsApplication(f)
                         PROVE  KnowsApplication(g)'
                OBVIOUS
            <4>1. g.phase = f.phase /\ g.app = f.app /\ (~g.old => ~f.old)
                BY <1>4, <2>2
            <4>2. \A k \in 0..n : k # 0 => k \in 1..n
                BY <1>2
            <4>3. ~g.old /\ f.app.id \in 1..n
                      => applications'[f.app.id] = applications[f.app.id]
                BY <3>3
            <4> QED
                BY <1>3, <1>6, <1>9, <3>2, <4>1, <4>2, <4>3 DEF KnowsApplication
        <3> QED
            BY <3>1, <3>4, Held DEF Knows
    <2> QED
        BY <2>1, <2>2
<1> QED
    BY <1>5, <1>14, <1>15 DEF Inv

LEMMA LinkApplicationInv ==
    ASSUME Inv, NEW r \in Calls, LinkApplication(r) PROVE Inv'
<1> SUFFICES ASSUME NEW h, h = work[r],
                    NEW a, a = [h.app EXCEPT !.studentNo = h.student.no],
                    NEW e, e = [h EXCEPT !.phase = "reviewed", !.student = NoStudent,
                                         !.app = a]
             PROVE  Inv'
    OBVIOUS
<1>1. h.phase = "registered" /\ h \in WorkRecords /\ Knows(h)
    BY Held DEF LinkApplication
<1>2. /\ a \in ApplicationRecords /\ a.id = h.app.id /\ a.person = h.app.person
      /\ a.studentNo = h.student.no
    BY <1>1 DEF WorkRecords, ApplicationRecords, StudentRecords
<1>3. /\ e \in WorkRecords /\ e.phase = "reviewed" /\ e.app = a /\ e.old = h.old
    BY <1>1, <1>2, NoFields DEF WorkRecords, AdmPhases
<1>4. WriteApplication(r, e, e.old)
    BY <1>1, <1>3 DEF LinkApplication, WorkRecords
<1>5. h.app.id \in 1..Len(applications)
    BY <1>1, AppInTable
<1>6. a.studentNo # -1 /\ Clean(a.studentNo) => Owned(a.studentNo, a.person)
    BY <1>1, <1>2 DEF Knows, KnowsStudent, Kept, SameOwner, Owned
<1>7. ASSUME a.id \notin loose, ~e.old
      PROVE  /\ a.studentNo # -1
             /\ \A s \in students :
                   /\ s.no = a.studentNo => s.by = a.id
                   /\ s.by = a.id => \/ s.no = a.studentNo
                                     \/ \E q \in Calls : q # r /\ Registers(q, a.id, s)
    <2>1. PICK k \in students : k.no = a.studentNo /\ k.by = a.id
        BY <1>1, <1>2, <1>7 DEF Knows, KnowsStudent, Kept, SameOwner
    <2>2. applications[a.id].studentNo = -1
        BY <1>1, <1>2, <1>3, <1>5, <1>7 DEF Knows, KnowsApplication, AtWork, Accepting
    <2>3. AgreesOK(a.id)
        BY <1>2, <1>5, <1>7 DEF Inv, TablesOK
    <2>4. \A s \in students : s.no # -1
        BY Lengths, NumberAssumption DEF RowOK, Nos
    <2>5. \A s \in students : s.no = a.studentNo => s = k
        BY <1>2, <2>1 DEF Inv, TablesOK, ShapeOK
    <2>6. ASSUME NEW s \in students, s.by = a.id
          PROVE  \/ s.no = a.studentNo
                 \/ \E q \in Calls : q # r /\ Registers(q, a.id, s)
        <3>1. PICK q \in Calls : Registers(q, a.id, s)
            BY <2>2, <2>3, <2>4, <2>6 DEF AgreesOK
        <3>2. q = r => s.no = a.studentNo
            BY <1>2, <3>1 DEF Registers
        <3> QED
            BY <3>1, <3>2
    <2> QED
        BY <1>2, <2>1, <2>4, <2>5, <2>6
<1>8. /\ work[r].phase = "registered" /\ e.app.id = work[r].app.id
      /\ e.app.person = work[r].app.person /\ e.old = work[r].old
    BY <1>1, <1>2, <1>3
<1>9. \A s \in students : e.app.id \notin loose /\ ~e.old =>
         /\ s.no = e.app.studentNo => s.by = e.app.id
         /\ s.by = e.app.id => \/ s.no = e.app.studentNo
                               \/ \E q \in Calls : q # r /\ Registers(q, e.app.id, s)
    BY <1>3, <1>7
<1>10. e.app.id \notin loose /\ ~e.old => e.app.studentNo # -1
    BY <1>3, <1>7
<1>11. e.app.studentNo # -1 /\ Clean(e.app.studentNo) => Owned(e.app.studentNo, e.app.person)
    BY <1>3, <1>6
<1> QED
    BY <1>3, <1>4, <1>8, <1>9, <1>10, <1>11, WriteApplicationInv

LEMMA SaveApplicationInv ==
    ASSUME Inv, NEW r \in Calls, SaveApplication(r) PROVE Inv'
<1> SUFFICES ASSUME NEW h, h = work[r], NEW e, e = [h EXCEPT !.phase = "updated"]
             PROVE  Inv'
    OBVIOUS
<1>1. h.phase = "reviewed" /\ h \in WorkRecords /\ Knows(h)
    BY Held DEF SaveApplication
<1>2. e \in WorkRecords /\ e.phase = "updated" /\ e.app = h.app /\ e.old = h.old
    BY <1>1 DEF WorkRecords, AdmPhases
<1>3. WriteApplication(r, e, e.old)
    BY <1>1, <1>2 DEF SaveApplication
<1>4. h.app.id \in 1..Len(applications)
    BY <1>1, AppInTable
<1>5. h.app.id # 0
    BY <1>4
<1>6. h.app.studentNo # -1 /\ Clean(h.app.studentNo) => Owned(h.app.studentNo, h.app.person)
    BY <1>1, <1>5 DEF Knows, KnowsApplication, AtWork
<1>7. ASSUME h.app.id \notin loose, ~h.old
      PROVE  /\ h.app.status = "accepted" => h.app.studentNo # -1
             /\ \A s \in students :
                   /\ s.no = h.app.studentNo => s.by = h.app.id
                   /\ s.by = h.app.id =>
                         \/ s.no = h.app.studentNo
                         \/ \E q \in Calls : q # r /\ Registers(q, h.app.id, s)
    <2>1. /\ h.app.studentNo = applications[h.app.id].studentNo
          /\ h.app.status = "accepted" => h.app.studentNo # -1
        BY <1>1, <1>5, <1>7 DEF Knows, KnowsApplication, AtWork
    <2>2. AgreesOK(h.app.id)
        BY <1>4, <1>7 DEF Inv, TablesOK
    <2>3. \A s : ~Registers(r, h.app.id, s)
        BY <1>1 DEF Registers
    <2> QED
        BY <2>1, <2>2, <2>3 DEF AgreesOK
<1> QED
    BY <1>1, <1>2, <1>3, <1>6, <1>7, WriteApplicationInv

-----------------------------------------------------------------------------
(* Students written                                                        *)

\* The row of number n is written or deleted: what goes is recorded, and a row put in
\* place of another student's is no longer clean.
RowWritten(n) ==
    /\ UNCHANGED <<applications, told>>
    /\ lastSeq' \in Nat /\ lastSeq <= lastSeq'
    /\ replaced \subseteq replaced' /\ deleted \subseteq deleted' /\ loose \subseteq loose'
    /\ \A t \in students : t.no # n => t \in students'
    /\ \A t \in students' \ students : t \in StudentRecords /\ t.no = n /\ RowOK(t)'
    /\ \A t, u \in students' : t.no = n /\ u.no = n => t = u
    /\ \A t \in students : t.no = n /\ (Clean(n)' \/ t.by \notin loose') =>
          \E u \in students' : SameOwner(u, t)
    /\ Clean(n)' => \A t \in students' \ students : lastSeq < t.seq

LEMMA CleanBefore ==
    ASSUME NEW n, RowWritten(n)
    PROVE  \A m : Clean(m)' => Clean(m)
BY DEF RowWritten, Clean

LEMMA OwnedAfter ==
    ASSUME Inv, NEW n, RowWritten(n), NEW m, NEW p, Clean(m)', Owned(m, p)
    PROVE  Owned(m, p)'
<1>1. PICK s \in students : s.no = m /\ s.person = p
    BY CleanBefore DEF Owned
<1>2. PICK u \in students' : SameOwner(u, s)
    BY <1>1 DEF RowWritten, SameOwner
<1> QED
    BY <1>1, <1>2 DEF Owned, SameOwner

LEMMA RowsOK ==
    ASSUME Inv, NEW n, RowWritten(n)
    PROVE  ShapeOK' /\ \A s \in students' : RowOK(s)'
<1>1. students' \subseteq StudentRecords
    BY DEF RowWritten, Inv, TablesOK, ShapeOK
<1>2. \A s, t \in students' : s.no = t.no => s = t
    BY DEF RowWritten, Inv, TablesOK, ShapeOK
<1>3. ShapeOK'
    BY <1>1, <1>2 DEF RowWritten, Inv, TablesOK, ShapeOK
<1>4. ASSUME NEW s \in students'
      PROVE  RowOK(s)'
    <2>1. CASE s \in students
        <3>1. /\ s.seq \in Nat /\ s.seen \in Nat /\ lastSeq \in Nat /\ RowOK(s)
            BY <2>1, Lengths DEF StudentRecords
        <3> QED
            BY <3>1 DEF RowOK, RowWritten
    <2>2. CASE s \notin students
        BY <2>2 DEF RowWritten
    <2> QED
        BY <2>1, <2>2
<1> QED
    BY <1>3, <1>4

LEMMA StillKnows ==
    ASSUME Inv, NEW n, RowWritten(n), NEW q \in Calls, NEW e, e.phase = work[q].phase,
           e.app = work[q].app, e.student = work[q].student, e.old = work[q].old,
           e.over = work[q].over, e.stale \in BOOLEAN,
           e.stale <=> \/ work[q].stale
                       \/ work[q].phase \in {"drawn", "updating"} /\ work[q].student.no = n
    PROVE  Knows(e)'
<1> SUFFICES ASSUME NEW f, f = work[q]
             PROVE  Knows(e)'
    OBVIOUS
<1>1. f \in WorkRecords /\ f.student \in StudentRecords /\ KnowsStudent(f) /\ KnowsApplication(f)
    BY Held DEF Knows
<1>2. /\ lastSeq \in Nat /\ lastSeq' \in Nat /\ lastSeq <= lastSeq'
      /\ f.student.seen \in Nat /\ f.student.seq \in Nat
    BY <1>1, Lengths DEF RowWritten, StudentRecords
<1>3. f.phase \in {"unnumbered", "drawn"} =>
          /\ e.student.seen <= lastSeq'
          /\ \A s \in students' :
                Clean(s.no)' /\ Namesakes(s, e.student) => e.student.seen < s.seq
    <2> SUFFICES ASSUME f.phase \in {"unnumbered", "drawn"}
                 PROVE  /\ e.student.seen <= lastSeq'
                        /\ \A s \in students' :
                              Clean(s.no)' /\ Namesakes(s, e.student) => e.student.seen < s.seq
        OBVIOUS
    <2>1. f.student.seen <= lastSeq
        BY <1>1 DEF KnowsStudent
    <2>2. ASSUME NEW s \in students', Clean(s.no)', Namesakes(s, f.student)
          PROVE  f.student.seen < s.seq
        <3>1. CASE s \in students
            BY <1>1, <2>2, <3>1, CleanBefore DEF KnowsStudent
        <3>2. CASE s \notin students
            <4>1. s.seq \in Nat /\ lastSeq < s.seq
                BY <2>2, <3>2 DEF RowWritten, StudentRecords
            <4> QED
                BY <1>2, <2>1, <4>1
        <3> QED
            BY <3>1, <3>2
    <2> QED
        BY <1>2, <2>1, <2>2
<1>4. f.phase = "drawn" => e.stale \/ e.over \/ e.student.no \notin Numbers'
    BY <1>1 DEF KnowsStudent, Numbers, RowWritten
<1>5. f.phase = "updating" =>
          /\ RowOK(e.student)' /\ (~e.stale => e.student \in students')
          /\ Clean(e.student.no)' => e.student.no \in Numbers'
    <2> SUFFICES ASSUME f.phase = "updating"
                 PROVE  /\ RowOK(f.student)' /\ (~e.stale => f.student \in students')
                        /\ Clean(f.student.no)' => f.student.no \in Numbers'
        OBVIOUS
    <2>1. RowOK(f.student)'
        BY <1>1, <1>2 DEF KnowsStudent, RowOK, RowWritten
    <2>2. ~e.stale => f.student \in students /\ f.student.no # n
        BY <1>1 DEF KnowsStudent
    <2>3. ASSUME Clean(f.student.no)'
          PROVE  f.student.no \in Numbers'
        <3>1. PICK t \in students : t.no = f.student.no
            BY <1>1, <2>3, CleanBefore DEF KnowsStudent, Numbers
        <3>2. PICK u \in students' : SameOwner(u, t)
            BY <2>3, <3>1 DEF RowWritten, SameOwner
        <3> QED
            BY <3>1, <3>2 DEF SameOwner, Numbers
    <2> QED
        BY <2>1, <2>2, <2>3 DEF RowWritten
<1>6. f.phase = "registered" =>
          (Clean(e.student.no)' \/ e.app.id \notin loose' => Kept(e.student)')
    <2> SUFFICES ASSUME f.phase = "registered",
                        Clean(f.student.no)' \/ f.app.id \notin loose'
                 PROVE  Kept(f.student)'
        OBVIOUS
    <2>1. Kept(f.student) /\ f.student.by = f.app.id
        BY <1>1, CleanBefore DEF KnowsStudent, RowWritten
    <2>2. PICK t \in students : SameOwner(t, f.student)
        BY <2>1 DEF Kept
    <2>3. PICK u \in students' : SameOwner(u, t)
        BY <2>1, <2>2 DEF RowWritten, SameOwner
    <2> QED
        BY <2>2, <2>3 DEF SameOwner, Kept
<1>7. KnowsStudent(e)'
    BY <1>1, <1>3, <1>4, <1>5, <1>6 DEF KnowsStudent
<1>8. e.app.studentNo # -1 /\ Clean(e.app.studentNo)' =>
          (Owned(e.app.studentNo, e.app.person) => Owned(e.app.studentNo, e.app.person)')
    BY OwnedAfter
<1>9. KnowsApplication(e)'
    BY <1>1, <1>8, CleanBefore DEF KnowsApplication, RowWritten
<1> QED
    BY <1>7, <1>9 DEF Knows

LEMMA Outdating ==
    ASSUME Inv, NEW q \in Calls, NEW n, NEW e, e = Outdated(q, n)
    PROVE  /\ e \in WorkRecords /\ e.phase = work[q].phase /\ e.app = work[q].app
           /\ e.student = work[q].student /\ e.old = work[q].old /\ e.over = work[q].over
           /\ e.stale <=> \/ work[q].stale
                          \/ work[q].phase \in {"drawn", "updating"} /\ work[q].student.no = n
<1> SUFFICES ASSUME NEW f \in WorkRecords, f = work[q]
             PROVE  /\ e \in WorkRecords /\ e.phase = f.phase /\ e.app = f.app
                    /\ e.student = f.student /\ e.old = f.old /\ e.over = f.over
                    /\ e.stale <=> \/ f.stale
                                   \/ f.phase \in {"drawn", "updating"} /\ f.student.no = n
    BY Held
<1> DEFINE b == f.stale \/ (f.phase \in {"drawn", "updating"} /\ f.student.no = n)
<1>1. e = [f EXCEPT !.stale = b] /\ b \in BOOLEAN
    BY DEF Outdated, WorkRecords
<1>2. b <=> \/ f.stale
            \/ f.phase \in {"drawn", "updating"} /\ f.student.no = n
    OBVIOUS
<1> HIDE DEF b
<1>3. /\ e \in WorkRecords /\ e.phase = f.phase /\ e.app = f.app /\ e.student = f.student
      /\ e.old = f.old /\ e.over = f.over /\ e.stale = b
    BY <1>1 DEF WorkRecords
<1> QED
    BY <1>2, <1>3

\* What the tables say after a student is written by a request that becomes d.
LEMMA StudentWritten ==
    ASSUME Inv, NEW n, RowWritten(n), NEW d \in WorkRecords, Knows(d)',
           work' = [q \in Calls |-> work'[q]],
           \A q \in Calls :
               \/ work'[q] = Outdated(q, n)
               \/ work'[q] = d /\ work[q].phase \notin {"registered", "reviewed", "updated"},
           LinkedNos \subseteq Numbers' \union {-1},
           \A t \in students' \ students :
               /\ Clean(n)' => \A u \in students :
                                  Clean(u.no) /\ u.no # n /\ Namesakes(t, u)
                                      => t.seen < u.seq
               /\ \/ t.by \in loose' \union {0} \/ \E q \in Calls : Registers(q, t.by, t)'
                  \/ \E u \in students : SameOwner(u, t)
    PROVE  Inv'
<1>1. \A q \in Calls : work'[q] = Outdated(q, n) =>
         /\ work'[q] \in WorkRecords /\ work'[q].phase = work[q].phase
         /\ work'[q].app = work[q].app /\ work'[q].student = work[q].student
         /\ work'[q].old = work[q].old
    BY Outdating
<1>2. work' \in [Calls -> WorkRecords]
    BY <1>1
<1>3. ASSUME NEW q \in Calls
      PROVE  Knows(work[q])'
    <2>1. CASE work'[q] # Outdated(q, n)
        <3>1. work'[q] = d
            BY <2>1
        <3> QED
            BY <3>1
    <2>2. CASE work'[q] = Outdated(q, n)
        <3>1. work'[q] = Outdated(q, n)
            BY <2>2
        <3> SUFFICES ASSUME NEW e, e = Outdated(q, n)
                     PROVE  Knows(e)'
            BY <3>1
        <3> QED
            BY Outdating, StillKnows DEF WorkRecords
    <2> QED
        BY <2>1, <2>2
<1>4. NamesOK'
    <2> SUFFICES ASSUME NEW s \in students', NEW t \in students', s.no # t.no,
                        Namesakes(s, t), Clean(s.no)', Clean(t.no)'
                 PROVE  t.seen < s.seq /\ s.seen < t.seq
        BY DEF NamesOK
    <2>1. ASSUME NEW u \in students', NEW v \in students', u \in students, v \notin students,
                 Namesakes(v, u), u.no # v.no, Clean(u.no)', Clean(v.no)'
          PROVE  u.seen < v.seq /\ v.seen < u.seq
        <3>1. v.no = n /\ v.seq \in Nat /\ lastSeq < v.seq
            BY <2>1 DEF RowWritten, StudentRecords
        <3>2. u.seen \in Nat /\ u.seen <= lastSeq /\ lastSeq \in Nat
            BY <2>1, Lengths DEF StudentRecords, RowOK
        <3> QED
            BY <2>1, <3>1, <3>2, CleanBefore
    <2>2. CASE s \in students /\ t \in students
        BY <2>2, CleanBefore DEF Inv, TablesOK, NamesOK
    <2>3. CASE s \in students /\ t \notin students
        BY <2>1, <2>3 DEF Namesakes
    <2>4. CASE s \notin students /\ t \in students
        BY <2>1, <2>4 DEF Namesakes
    <2>5. CASE s \notin students /\ t \notin students
        BY <2>5 DEF RowWritten
    <2> QED
        BY <2>2, <2>3, <2>4, <2>5
<1>5. ASSUME NEW m, NEW p, Owned(m, p), \E s \in students' : s.no = m
      PROVE  Owned(m, p)'
    <2>1. Clean(m)' => Owned(m, p)'
        BY <1>5, OwnedAfter
    <2>2. ~Clean(m)' => Owned(m, p)'
        BY <1>5 DEF Owned
    <2> QED
        BY <2>1, <2>2
<1>6. ASSUME NEW i \in 1..Len(applications), i \notin loose'
      PROVE  AgreesOK(i)'
    <2>1. AgreesOK(i)
        BY <1>6 DEF RowWritten, Inv, TablesOK
    <2>2. \A q \in Calls : \A s : Registers(q, i, s) => Registers(q, i, s)'
        BY <1>1 DEF Registers
    <2>3. \A q \in Calls : Tells(q, i) => Tells(q, i)'
        BY <1>1 DEF Tells
    <2>4. ToldIsStatus(i)' <=> ToldIsStatus(i)
        BY DEF RowWritten, ToldIsStatus
    <2>5. ASSUME NEW s \in students'
          PROVE  /\ s.no = applications[i].studentNo => s.by = i
                 /\ s.by = i => \/ s.no = applications[i].studentNo
                                \/ \E q \in Calls : Registers(q, i, s)'
        <3>1. CASE s \in students
            BY <2>1, <2>2, <3>1 DEF AgreesOK
        <3>2. CASE s \notin students
            <4>1. s.no = n /\ RowOK(s)'
                BY <3>2 DEF RowWritten
            <4>2. s.no = applications[i].studentNo => s.by = i
                <5> SUFFICES ASSUME applications[i].studentNo = n
                             PROVE  s.by = i
                    BY <4>1
                <5>1. n # -1
                    BY <4>1, NumberAssumption DEF RowOK, Nos
                <5>2. PICK u \in students : u.no = n
                    BY <5>1 DEF Inv, TablesOK, LinksOK, Owned
                <5>3. u.by = i
                    BY <2>1, <5>2 DEF AgreesOK
                <5>4. PICK w \in students' : SameOwner(w, u)
                    BY <1>6, <5>2, <5>3 DEF RowWritten
                <5>5. w = s
                    BY <4>1, <5>2, <5>4 DEF RowWritten, SameOwner
                <5> QED
                    BY <5>3, <5>4, <5>5 DEF SameOwner
            <4>3. CASE \E q \in Calls : Registers(q, i, s)'
                BY <4>3, <4>2
            <4>4. CASE \E u \in students : SameOwner(u, s)
                <5>1. PICK u \in students : u.no = s.no /\ u.by = s.by
                    BY <4>4 DEF SameOwner
                <5>2. u.by = i => \/ u.no = applications[i].studentNo
                                 \/ \E q \in Calls : Registers(q, i, u)'
                    BY <2>1, <2>2 DEF AgreesOK
                <5>3. \A q \in Calls : Registers(q, i, u)' => Registers(q, i, s)'
                    BY <5>1 DEF Registers
                <5> QED
                    BY <4>2, <5>1, <5>2, <5>3
            <4>5. CASE s.by # i
                BY <4>2, <4>5
            <4> QED
                BY <1>6, <3>2, <4>3, <4>4, <4>5
        <3> QED
            BY <3>1, <3>2
    <2>6. applications' = applications
        BY DEF RowWritten
    <2> QED
        BY <2>1, <2>3, <2>4, <2>5, <2>6 DEF AgreesOK
<1>7. \A i \in 1..Len(applications) :
          applications[i].studentNo # -1 => applications[i].studentNo \in Numbers'
    BY Lengths DEF LinkedNos
<1>8. LinksOK'
    BY <1>5, <1>7 DEF LinksOK, Numbers, RowWritten, Inv, TablesOK
<1>9. TablesOK'
    BY <1>4, <1>6, <1>8, RowsOK DEF TablesOK, RowWritten
<1> QED
    BY <1>2, <1>3, <1>9 DEF Inv

LEMMA LinkedStand == Inv => LinkedNos \subseteq Numbers \union {-1}
BY Lengths DEF LinkedNos, Numbers, Owned, Inv, TablesOK, LinksOK

LEMMA SaveStudentInv ==
    ASSUME Inv, NEW r \in Calls, SaveStudent(r) PROVE Inv'
<1> SUFFICES ASSUME NEW h, h = work[r], NEW s, s = [h.student EXCEPT !.seq = lastSeq + 1],
                    NEW n, n = s.no,
                    NEW d, d = IF h.app.id = 0 THEN Idle
                               ELSE [h EXCEPT !.phase = "registered", !.student = s,
                                              !.stale = FALSE, !.over = FALSE]
             PROVE  Inv'
    OBVIOUS
<1>1. h.phase = "drawn" /\ h \in WorkRecords /\ Knows(h)
    BY Held DEF SaveStudent
<1>2. lastSeq \in Nat /\ lastSeq' = lastSeq + 1
    BY Lengths DEF SaveStudent
<1>3. /\ s \in StudentRecords /\ s.no = h.student.no /\ s.person = h.student.person
      /\ s.by = h.student.by /\ s.seen = h.student.seen /\ s.seq = lastSeq + 1
      /\ s.name = h.student.name
    BY <1>1, <1>2 DEF WorkRecords, StudentRecords
<1>4. /\ d \in WorkRecords
      /\ h.app.id = 0 => d.phase = "idle"
      /\ h.app.id # 0 => d.phase = "registered" /\ d.student = s /\ d.app = h.app /\ d.old = h.old
    BY <1>1, <1>3, BlankFields DEF WorkRecords, AdmPhases
<1>5. /\ UNCHANGED <<applications, told, deleted>>
      /\ students' = {t \in students : t.no # n} \union {s}
      /\ work' = [q \in Calls |-> IF q = r THEN d ELSE Outdated(q, n)]
      /\ replaced' = replaced \union ({n} \intersect Numbers)
      /\ loose' = IF n \in Numbers
                  THEN loose \union {t.by : t \in {u \in students : u.no = n}} ELSE loose
    BY <1>3 DEF SaveStudent, WriteStudent
<1>6. /\ h.student.no \in Nos /\ h.student.by = h.app.id /\ h.app.id \in 0..Len(applications)
      /\ h.student.seen <= lastSeq /\ h.student.seen \in Nat
      /\ h.app.id # 0 => h.student.person = h.app.person
      /\ \A t \in students : Clean(t.no) /\ Namesakes(t, h.student) => h.student.seen < t.seq
    BY <1>1 DEF Knows, KnowsStudent, KnowsApplication, AtWork, Accepting, WorkRecords, StudentRecords
<1>7. RowOK(s)'
    BY <1>2, <1>3, <1>5, <1>6 DEF RowOK
<1>8. Clean(n)' => n \notin Numbers
    BY <1>5 DEF Clean
<1>9. RowWritten(n)
    <2>1. n \notin Numbers => \A t \in students : t.no # n
        BY DEF Numbers
    <2>2. n \in Numbers => \A t \in students : t.no = n => t.by \in loose'
        BY <1>5
    <2>3. replaced \subseteq replaced' /\ loose \subseteq loose'
        BY <1>5
    <2>4. /\ \A t \in students : t.no # n => t \in students'
          /\ \A t \in students' \ students : t = s
          /\ \A t \in students' : t.no = n => t = s
          /\ \A t \in students \ students' : t.no = n
        BY <1>5
    <2>5. lastSeq < s.seq /\ lastSeq <= lastSeq' /\ lastSeq' \in Nat
        BY <1>2, <1>3
    <2>6. UNCHANGED <<applications, told, deleted>>
        BY <1>5
    <2> QED
        BY <1>3, <1>7, <1>8, <2>1, <2>2, <2>3, <2>4, <2>5, <2>6 DEF RowWritten
<1>10. Knows(d)'
    <2>1. CASE h.app.id = 0
        BY <1>4, <2>1, IdleKnows
    <2>2. CASE h.app.id # 0
        <3>1. KnowsStudent(d)'
            <4>1. d.phase = "registered" /\ d.student = s /\ d.app = h.app /\ s \in students'
                BY <1>4, <1>5, <2>2
            <4>2. s.person = h.app.person /\ s.by = h.app.id
                BY <1>3, <1>6, <2>2
            <4>3. SameOwner(s, s)
                BY DEF SameOwner
            <4> QED
                BY <4>1, <4>2, <4>3 DEF KnowsStudent, Kept
        <3>2. d.app.studentNo # -1 /\ Clean(d.app.studentNo)' => Owned(d.app.studentNo, d.app.person)'
            BY <1>1, <1>4, <1>9, <2>2, OwnedAfter, CleanBefore
            DEF Knows, KnowsApplication, AtWork, Accepting
        <3>3. loose \subseteq loose'
            BY <1>9 DEF RowWritten
        <3>4. KnowsApplication(d)'
            BY <1>1, <1>4, <1>5, <2>2, <3>2, <3>3 DEF Knows, KnowsApplication, AtWork, Accepting
        <3> QED
            BY <3>1, <3>4 DEF Knows
    <2> QED
        BY <2>1, <2>2
<1>11. \A u \in students : Clean(u.no) /\ Namesakes(s, u) => s.seen < u.seq
    BY <1>3, <1>6 DEF Namesakes
<1>12. s.by = 0 \/ Registers(r, s.by, s)'
    BY <1>3, <1>4, <1>5, <1>6 DEF Registers
<1>13. \A t \in students' \ students : t = s
    BY <1>5
<1>14. LinkedNos \subseteq Numbers' \union {-1}
    <2>1. Numbers \subseteq Numbers'
        BY <1>5 DEF Numbers
    <2> QED
        BY <2>1, LinkedStand
<1>15. /\ work' = [q \in Calls |-> work'[q]]
       /\ \A q \in Calls :
              \/ work'[q] = Outdated(q, n)
              \/ work'[q] = d /\ work[q].phase \notin {"registered", "reviewed", "updated"}
    BY <1>1, <1>5
<1>16. d \in WorkRecords
    BY <1>4
<1>17. \A t \in students' \ students :
          /\ \A u \in students : Clean(u.no) /\ Namesakes(t, u) => t.seen < u.seq
          /\ t.by \in loose' \union {0} \/ \E q \in Calls : Registers(q, t.by, t)'
    BY <1>11, <1>12, <1>13
<1> QED
    BY <1>9, <1>10, <1>14, <1>15, <1>16, <1>17, StudentWritten

LEMMA RenamedFields ==
    ASSUME NEW c \in StudentRecords, lastSeq \in Nat, NEW name \in Names \union {c.name}
    PROVE  LET s == Renamed(c, name)
           IN /\ s \in StudentRecords /\ SameOwner(s, c) /\ s.no = c.no
              /\ s = c \/ (s.name # c.name /\ s.seen = 0 /\ s.seq = lastSeq + 1)
              /\ name = c.name => s = c
              /\ name # c.name => s # c
<1> DEFINE e == [c EXCEPT !.name = name, !.seq = lastSeq + 1, !.seen = 0]
<1>1. /\ e \in StudentRecords /\ e.no = c.no /\ e.person = c.person /\ e.by = c.by
      /\ e.name = name /\ e.seen = 0 /\ e.seq = lastSeq + 1
    <2>1. name \in Names \union {NoName} /\ lastSeq + 1 \in Nat
        BY DEF StudentRecords
    <2> QED
        BY <2>1 DEF StudentRecords
<1>2. Renamed(c, name) = IF name = c.name THEN c ELSE e
    BY DEF Renamed
<1>3. e.name # c.name => e # c
    OBVIOUS
<1> HIDE DEF e
<1> QED
    BY <1>1, <1>2, <1>3 DEF SameOwner

LEMMA UpdateStudentInv ==
    ASSUME Inv, NEW r \in Calls, NEW name \in Names \union {work[r].student.name},
           UpdateStudent(r, name)
    PROVE  Inv'
<1> SUFFICES ASSUME NEW h, h = work[r], NEW c, c = h.student, NEW n, n = c.no,
                    NEW s, s = Renamed(c, name)
             PROVE  Inv'
    OBVIOUS
<1> DEFINE old == {t \in students : t.no = n}
<1>1. /\ h.phase = "updating" /\ h \in WorkRecords /\ Knows(h) /\ c \in StudentRecords
      /\ lastSeq \in Nat
    BY Held, Lengths DEF UpdateStudent
<1>2. /\ s \in StudentRecords /\ SameOwner(s, c) /\ s.no = n
      /\ s = c \/ (s.name # c.name /\ s.seen = 0 /\ s.seq = lastSeq + 1)
      /\ name = c.name => s = c
      /\ name # c.name => s # c
    BY <1>1, RenamedFields
<1>3. /\ UNCHANGED <<applications, told, deleted>>
      /\ students' = {t \in students : t.no # n} \union {s}
      /\ work' = [q \in Calls |-> IF q = r THEN Idle ELSE Outdated(q, n)]
      /\ lastSeq' = IF s = c THEN lastSeq ELSE lastSeq + 1
      /\ replaced' = IF old \subseteq {c} THEN replaced ELSE replaced \union {n}
      /\ loose' = IF old = {c} THEN loose ELSE loose \union {t.by : t \in old \union {c}}
    BY <1>2 DEF UpdateStudent, WriteStudent
<1>4. RowOK(c) /\ (Clean(n) => n \in Numbers)
    BY <1>1 DEF Knows, KnowsStudent
<1>5. c.seen \in Nat /\ c.seq \in Nat /\ s.seen \in Nat /\ s.seq \in Nat /\ lastSeq' \in Nat
    BY <1>1, <1>2, <1>3 DEF StudentRecords
<1>6. RowOK(s)'
    BY <1>1, <1>2, <1>3, <1>4, <1>5 DEF RowOK, SameOwner
<1>7. \A t, u \in students : t.no = u.no => t = u
    BY DEF Inv, TablesOK, ShapeOK
<1>8. Clean(n)' => c \in students
    BY <1>3, <1>4 DEF Clean, Numbers
<1>9. s.by \in loose' \/ c \in students
    BY <1>2, <1>3 DEF SameOwner
<1>10. RowWritten(n)
    <2>1. UNCHANGED <<applications, told>> /\ lastSeq' \in Nat /\ lastSeq <= lastSeq'
        BY <1>1, <1>3, <1>5
    <2>2. replaced \subseteq replaced' /\ deleted \subseteq deleted' /\ loose \subseteq loose'
        BY <1>3
    <2>3. \A t \in students : t.no # n => t \in students'
        BY <1>3
    <2>4. \A t \in students' \ students : t \in StudentRecords /\ t.no = n /\ RowOK(t)'
        BY <1>2, <1>3, <1>6
    <2>5. \A t, u \in students' : t.no = n /\ u.no = n => t = u
        BY <1>3
    <2>6. ASSUME NEW t \in students, t.no = n, Clean(n)' \/ t.by \notin loose'
          PROVE  \E u \in students' : SameOwner(u, t)
        <3>1. t = c
            BY <1>3, <1>7, <1>8, <2>6
        <3> QED
            BY <1>2, <1>3, <3>1
    <2>7. Clean(n)' => \A t \in students' \ students : lastSeq < t.seq
        BY <1>1, <1>2, <1>3, <1>8
    <2> QED
        BY <2>1, <2>2, <2>3, <2>4, <2>5, <2>6, <2>7 DEF RowWritten
<1>11. LinkedNos \subseteq Numbers' \union {-1}
    <2>1. Numbers \subseteq Numbers'
        BY <1>2, <1>3 DEF Numbers
    <2> QED
        BY <2>1, LinkedStand
<1>12. /\ work' = [q \in Calls |-> work'[q]]
       /\ \A q \in Calls :
              \/ work'[q] = Outdated(q, n)
              \/ work'[q] = Idle /\ work[q].phase \notin {"registered", "reviewed", "updated"}
    BY <1>1, <1>3
\* A new name was looked up by nobody, and is older where somebody else has it.
<1>13. ASSUME NEW t \in students' \ students
       PROVE  /\ Clean(n)' => \A u \in students :
                                 Clean(u.no) /\ u.no # n /\ Namesakes(t, u) => t.seen < u.seq
              /\ t.by \in loose' \/ \E u \in students : SameOwner(u, t)
    <2>1. t = s
        BY <1>3, <1>13
    <2>2. ASSUME Clean(n)', NEW u \in students, Namesakes(s, u)
          PROVE  s.seen < u.seq
        <3>1. s.seen = 0
            BY <1>2, <1>8, <1>13, <2>1, <2>2
        <3>2. u.name # NoName /\ RowOK(u)
            BY <2>2, Lengths DEF Namesakes
        <3> QED
            BY <3>1, <3>2 DEF RowOK
    <2>3. c \in students => SameOwner(c, s)
        BY <1>2 DEF SameOwner
    <2> QED
        BY <1>9, <2>1, <2>2, <2>3
<1>14. Idle \in WorkRecords /\ \A e : e = Idle => Knows(e)'
    BY BlankFields, IdleKnows
<1> SUFFICES ASSUME NEW d, d = Idle
             PROVE  Inv'
    OBVIOUS
<1>15. d \in WorkRecords /\ Knows(d)'
    BY <1>14
<1> QED
    BY <1>10, <1>11, <1>12, <1>13, <1>15, StudentWritten

LEMMA DeleteStudentInv ==
    ASSUME Inv, NEW s \in students, DeleteStudent(s) PROVE Inv'
<1> SUFFICES ASSUME NEW n, n = s.no
             PROVE  Inv'
    OBVIOUS
<1>1. /\ UNCHANGED <<applications, told, lastSeq, replaced>>
      /\ students' = students \ {s} /\ n \notin LinkedNos
      /\ deleted' = deleted \union {n} /\ loose' = loose \union {s.by}
      /\ work' = [q \in Calls |-> Outdated(q, n)]
    BY DEF DeleteStudent
<1>2. RowWritten(n)
    BY <1>1, Lengths DEF RowWritten, Clean, Inv, TablesOK, ShapeOK
<1>3. LinkedNos \subseteq Numbers' \union {-1}
    BY <1>1, LinkedStand DEF Numbers
<1>4. /\ work' = [q \in Calls |-> work'[q]]
      /\ \A q \in Calls : work'[q] = Outdated(q, n)
    BY <1>1
<1>5. Idle \in WorkRecords /\ \A e : e = Idle => Knows(e)'
    BY BlankFields, IdleKnows
<1>6. students' \ students = {}
    BY <1>1
<1> SUFFICES ASSUME NEW d, d = Idle
             PROVE  Inv'
    OBVIOUS
<1>7. d \in WorkRecords /\ Knows(d)'
    BY <1>5
<1> QED
    BY <1>2, <1>3, <1>4, <1>6, <1>7, StudentWritten

-----------------------------------------------------------------------------
(* The invariant and what follows from it                                  *)

LEMMA NextInv == Inv /\ [AdmNext]_admVars => Inv'
<1> SUFFICES ASSUME Inv, [AdmNext]_admVars
             PROVE  Inv'
    OBVIOUS
<1>1. CASE UNCHANGED admVars
    <2>1. /\ UNCHANGED <<applications, students, told, lastSeq, replaced, deleted, loose, work>>
        BY <1>1 DEF admVars
    <2>2. \A q \in Calls : Knows(work[q]) /\ work'[q] = work[q]
        BY <2>1 DEF Inv
    <2>3. \A q \in Calls : Knows(work[q])'
        BY <2>1, <2>2, SameTables
    <2>4. ASSUME NEW i \in (1..Len(applications)) \ loose
          PROVE  AgreesOK(i)'
        <3>1. \A q \in Calls : Tells(q, i)' <=> Tells(q, i)
            BY <2>1 DEF Tells
        <3>2. \A q \in Calls : \A s : Registers(q, i, s)' <=> Registers(q, i, s)
            BY <2>1 DEF Registers
        <3>3. ToldIsStatus(i)' <=> ToldIsStatus(i)
            BY <2>1 DEF ToldIsStatus
        <3> QED
            BY <2>1, <3>1, <3>2, <3>3 DEF AgreesOK, Inv, TablesOK
    <2>5. TablesOK'
        BY <2>1, <2>4, SameTables DEF Inv, TablesOK, ShapeOK
    <2> QED
        BY <2>1, <2>3, <2>5 DEF Inv
<1>2. ASSUME NEW r \in Calls, NEW p \in People, CheckApplicant(r, p) \/ CreateStudent(r, p)
      PROVE  Inv'
    BY <1>2, CheckApplicantInv, CreateStudentInv
<1>3. ASSUME NEW r \in Calls,
             \/ GenerateApplicationId(r) \/ SaveNewApplication(r)
             \/ AutoRegisterStudent(r) \/ SaveStudent(r) \/ LinkApplication(r)
             \/ SaveApplication(r) \/ Notify(r) \/ AdmGiveUp(r)
      PROVE  Inv'
    BY <1>3, GenerateApplicationIdInv, SaveNewApplicationInv, AutoRegisterStudentInv,
       SaveStudentInv, LinkApplicationInv, SaveApplicationInv, NotifyInv, GiveUpInv
<1>4. ASSUME NEW r \in Calls, NEW n \in 0..(MaxSeq + 1), DrawNumber(r, n)
      PROVE  Inv'
    BY <1>4, DrawNumberInv
<1>5. ASSUME NEW r \in Calls, NEW s \in students, LoadStudent(r, s)
      PROVE  Inv'
    BY <1>5, LoadStudentInv
<1>6. ASSUME NEW s \in students, DeleteStudent(s)
      PROVE  Inv'
    BY <1>6, DeleteStudentInv
<1>7. ASSUME NEW r \in Calls, NEW i \in DOMAIN applications, NEW status \in Reviews,
             LoadApplication(r, applications[i], status)
      PROVE  Inv'
    BY <1>7, LoadApplicationInv
<1>8. ASSUME NEW r \in Calls, NEW name \in Names \union {work[r].student.name},
             UpdateStudent(r, name)
      PROVE  Inv'
    BY <1>8, UpdateStudentInv
<1> QED
    BY <1>1, <1>2, <1>3, <1>4, <1>5, <1>6, <1>7, <1>8 DEF AdmNext

LEMMA Invariance == AdmSpec => []Inv
BY InitInv, NextInv, PTL DEF AdmSpec

LEMMA InvTypes == Inv => AdmTypeOK
<1> SUFFICES ASSUME Inv
             PROVE  AdmTypeOK
    OBVIOUS
<1>1. LinkedNos \subseteq Numbers \union {-1}
    BY LinkedStand
<1>2. \A i, j \in Ids : applications[i].studentNo = applications[j].studentNo
                          => i = j \/ applications[i].studentNo = -1
    BY Lengths DEF Ids, Inv, TablesOK, LinksOK
<1> QED
    BY <1>1, <1>2, Lengths DEF AdmTypeOK, Ids, Notices, WorkRecords, Inv, TablesOK, ShapeOK

\* The tables of applications, students and notices keep their shape: reference numbers
\* without a gap, one student for a number, a number linked to one application.
THEOREM AdmissionsTypeCorrect == AdmSpec => []AdmTypeOK
BY Invariance, InvTypes, PTL

LEMMA InvNames == Inv => SharedNameUnseen
BY DEF Inv, TablesOK, NamesOK, Namesakes, Clean, SharedNameUnseen

\* However many requests register students and change their names, two students share a
\* name only when neither could see the other with it at the time he was given it (looked up
\* earlier, or not at all, by an update), or an old copy or a number drawn twice was saved.
THEOREM SharedNamesUnseen == AdmSpec => []SharedNameUnseen
BY Invariance, InvNames, PTL

LEMMA InvAgrees == Inv => RegistrationAgrees
<1> SUFFICES ASSUME Inv
             PROVE  RegistrationAgrees
    OBVIOUS
<1>1. LinkedStudentIsApplicant
    <2> SUFFICES ASSUME NEW i \in Ids, applications[i].studentNo # -1
                 PROVE  \E s \in students :
                            /\ s.no = applications[i].studentNo
                            /\ s.person = applications[i].person \/ s.no \in replaced \union deleted
        BY DEF LinkedStudentIsApplicant
    <2>1. Owned(applications[i].studentNo, applications[i].person)
        BY Lengths DEF Ids, Inv, TablesOK, LinksOK
    <2> QED
        BY <2>1 DEF Owned, Clean
<1>2. QuietApplicationsAgree
    <2> SUFFICES ASSUME NEW i \in Ids, i \notin loose, ~Busy(i)
                 PROVE  /\ applications[i].status = "accepted" => applications[i].studentNo # -1
                        /\ \A s \in students : s.by = i <=> s.no = applications[i].studentNo
                        /\ ToldIsStatus(i)
        BY DEF QuietApplicationsAgree
    <2>1. AgreesOK(i)
        BY Lengths DEF Ids, Inv, TablesOK
    <2>2. \A r \in Calls : ~Tells(r, i) /\ \A s : ~Registers(r, i, s)
        BY DEF Busy, Tells, Registers
    <2> QED
        BY <2>1, <2>2 DEF AgreesOK
<1> QED
    BY <1>1, <1>2 DEF RegistrationAgrees

\* An application nobody is at work on agrees with the students and the notices, and its
\* student is the applicant, whatever overlaps and fails, but for old copies saved over it
\* and requests that failed halfway.
THEOREM RegistrationStaysAgreed == AdmSpec => []RegistrationAgrees
BY Invariance, InvAgrees, PTL

RowTaken ==
    \E s \in students, t \in students' :
        /\ s.no = t.no /\ s.person # t.person
        /\ \A r \in Calls : work[r].student.no = s.no => ~(work[r].stale \/ work[r].over)

LEMMA NextKeepsRows == Inv /\ [AdmNext]_admVars => ~RowTaken
<1> SUFFICES ASSUME Inv, [AdmNext]_admVars, NEW s \in students, NEW t \in students', s.no = t.no,
                    s.person # t.person,
                    \A r \in Calls : work[r].student.no = s.no
                                         => ~(work[r].stale \/ work[r].over)
             PROVE  FALSE
    BY DEF RowTaken
<1>1. \A u \in students : u.no = s.no => u = s
    BY DEF Inv, TablesOK, ShapeOK
<1>2. t \notin students
    BY <1>1
<1>3. CASE \E r \in Calls : SaveStudent(r)
    <2>1. PICK r \in Calls : SaveStudent(r)
        BY <1>3
    <2>2. work[r].phase = "drawn" /\ work[r].student \in StudentRecords /\ KnowsStudent(work[r])
        BY <2>1, Held DEF SaveStudent, Knows
    <2>3. t = [work[r].student EXCEPT !.seq = lastSeq + 1]
        BY <1>2, <2>1 DEF SaveStudent, WriteStudent
    <2>4. t.no = work[r].student.no
        BY <2>2, <2>3 DEF StudentRecords
    <2> QED
        BY <2>2, <2>4 DEF KnowsStudent, Numbers
<1>4. CASE \E r \in Calls : \E name \in Names \union {work[r].student.name} :
                UpdateStudent(r, name)
    <2>1. PICK r \in Calls : \E name \in Names \union {work[r].student.name} :
                                UpdateStudent(r, name)
        BY <1>4
    <2>2. PICK name \in Names \union {work[r].student.name} : UpdateStudent(r, name)
        BY <2>1
    <2>3. work[r].phase = "updating" /\ KnowsStudent(work[r]) /\ work[r].student \in StudentRecords
        BY <2>2, Held DEF UpdateStudent, Knows
    <2>4. t = Renamed(work[r].student, name)
        BY <1>2, <2>2 DEF UpdateStudent, WriteStudent
    <2>5. SameOwner(t, work[r].student)
        BY <2>3, <2>4, RenamedFields, Lengths
    <2> QED
        BY <1>1, <2>3, <2>5 DEF KnowsStudent, SameOwner
<1>5. CASE \E u \in students : DeleteStudent(u)
    BY <1>2, <1>5 DEF DeleteStudent
<1>6. CASE UNCHANGED students
    BY <1>2, <1>6
<1> QED
    BY <1>3, <1>4, <1>5, <1>6
    DEF AdmNext, admVars, CheckApplicant, CreateStudent, GenerateApplicationId, SaveNewApplication,
        AutoRegisterStudent, LinkApplication, SaveApplication, Notify, AdmGiveUp, DrawNumber,
        LoadStudent, LoadApplication, Reads, WriteApplication

\* A student's row becomes another person's only through a request that drew the number, or
\* loaded the row, before another request wrote it, or drew a number while one beyond the
\* last was in use.
THEOREM RowsTakenByOverlap == AdmSpec => RowTakenOnlyByOverlap
<1>1. Inv /\ [AdmNext]_admVars =>
        [\A s \in students, t \in students' :
            s.no = t.no /\ s.person # t.person =>
                \E r \in Calls : /\ work[r].student.no = s.no
                                 /\ work[r].stale \/ work[r].over]_admVars
    BY NextKeepsRows DEF RowTaken
<1> QED
    BY <1>1, Invariance, PTL DEF AdmSpec, RowTakenOnlyByOverlap

-----------------------------------------------------------------------------
(* Enrolment: what the records hold                                        *)

DeskRecords ==
    [phase : Phases, row : PartialRecords, batch : SUBSET EnrolRecords, size : Nat,
     movers : SUBSET Students, fresh : SUBSET Nat]

\* What a request holds fits its phase; ids are those issued so far.
DeskType(d, n, t) ==
    /\ d \in DeskRecords
    /\ d.row.termId <= t /\ d.row.seen <= n
    /\ d.phase \in {"checking", "updating", "found"} => d.row \in EnrolRecords
    /\ d.phase \in {"migrating", "compared"} =>
          d.row.name \in Classes /\ d.row.term \in Terms
    /\ d.phase \in {"deleting", "counted", "editing"} => d.row.term \in Terms
    /\ d.phase \in {"checking", "updating", "found", "deleting", "counted", "editing"} =>
          d.row.termId # 0
    /\ d.phase = "found" => d.row.id \in 1..n
    /\ \A e \in d.batch : e.id \in 1..d.size /\ e.termId \in 1..t /\ e.seen <= n
    /\ \A e, f \in d.batch : e.id = f.id => e = f

TInv ==
    /\ TypeOK
    /\ \A r \in Requests : DeskType(desk[r], lastId, lastTermId)
    /\ removed \subseteq 1..lastId
    /\ \A a \in rows : a.seen <= lastId

\* A term, a row or a request that still holds the id says it is the id of term k.
Claim(i, k) ==
    \/ terms[k] = i
    \/ \E a \in rows : a.termId = i /\ a.term = k
    \/ \E r \in Requests : desk[r].row.termId = i /\ desk[r].row.term = k
    \/ \E r \in Requests : \E e \in desk[r].batch : e.termId = i /\ e.term = k

LinkInv ==
    /\ LinkAgreesWithTerm
    /\ \A i \in Nat \ {0} : \A k, l \in Terms : Claim(i, k) /\ Claim(i, l) => k = l

\* A deletion that has counted knows every row it will cut off.
OrphanInv ==
    /\ OrphansOnlyByRace
    /\ \A r \in Requests : desk[r].phase = "counted" =>
          \A a \in rows : a.termId = desk[r].row.termId => a.id \in desk[r].fresh

\* So does an update that holds a row deleted meanwhile.
ContestInv ==
    /\ UnenrolledStaysOut
    /\ \A r \in Requests :
          desk[r].phase = "found" /\ desk[r].row.id \in removed => desk[r].row.id \in contested

\* What the check of e looks for, and what it cannot have seen.
Conflict(a, e) ==
    a.term = e.term /\ a.student = e.student /\ (e.migrated \/ a.name = e.name)

Clear(a, e) == a.id > e.seen \/ a.id \in removed

\* The same enrolment, but for the link to its term.
Kin(a, b) ==
    /\ a.id = b.id /\ a.name = b.name /\ a.term = b.term /\ a.student = b.student
    /\ a.seen = b.seen /\ a.migrated = b.migrated

Guarded(a, b) == a.id < b.id /\ Conflict(a, b) => Clear(a, b)

GuardInv ==
    /\ \A a, b \in rows : Guarded(a, b)
    /\ \A r \in Requests :
          /\ \A a \in rows, e \in desk[r].batch : Conflict(a, e) => Clear(a, e)
          /\ desk[r].phase = "checking" => ~desk[r].row.migrated
          /\ desk[r].phase = "compared" =>
                \A a \in rows : a.term = desk[r].row.term /\ a.student \in desk[r].movers
                                   => Clear(a, desk[r].row)
          /\ desk[r].phase = "found" =>
                /\ \A a \in rows : Guarded(a, desk[r].row)
                /\ desk[r].row.id \in removed \/ \E a \in rows : Kin(a, desk[r].row)

-----------------------------------------------------------------------------
(* Types and ids                                                           *)

LEMMA PartialType == EnrolRecords \subseteq PartialRecords /\ NoRow \in PartialRecords
BY DEF EnrolRecords, PartialRecords, NoRow

LEMMA BlankType ==
    ASSUME NEW n \in Nat, NEW t \in Nat
    PROVE  DeskType(Blank, n, t)
BY PartialType DEF DeskType, DeskRecords, Blank, NoRow, Phases

LEMMA TypeGrows ==
    ASSUME NEW d, NEW n \in Nat, NEW t \in Nat, NEW m \in Nat, NEW u \in Nat,
           n <= m, t <= u, DeskType(d, n, t)
    PROVE  DeskType(d, m, u)
<1>1. d.row.termId \in Nat /\ d.row.seen \in Nat /\ d.row.id \in Nat
    BY DEF DeskType, DeskRecords, PartialRecords
<1>2. \A e \in d.batch : e.seen \in Nat /\ e.termId \in Nat
    BY DEF DeskType, DeskRecords, EnrolRecords
<1> QED
    BY <1>1, <1>2 DEF DeskType

\* One request takes a step that issues no id.
LEMMA BecomeType ==
    ASSUME TInv, NEW r \in Requests, NEW d, Become(r, d),
           DeskType(d, lastId, lastTermId)
    PROVE  /\ desk' \in [Requests -> DeskRecords]
           /\ \A q \in Requests : DeskType(desk'[q], lastId, lastTermId)
<1>1. desk \in [Requests -> DeskRecords] /\ d \in DeskRecords
    BY DEF TInv, TypeOK, DeskType, DeskRecords
<1> QED
    BY <1>1 DEF TInv, Become

\* One request saves rows: the deletions that have counted take note.
LEMMA LinkedType ==
    ASSUME TInv, NEW r \in Requests, NEW ids \in SUBSET Nat, Linked(r, ids),
           NEW n \in Nat, lastId <= n
    PROVE  /\ desk' \in [Requests -> DeskRecords]
           /\ \A q \in Requests : DeskType(desk'[q], n, lastTermId)
<1>1. desk \in [Requests -> DeskRecords] /\ lastId \in Nat /\ lastTermId \in Nat
    BY DEF TInv, TypeOK, DeskRecords
<1>2. ASSUME NEW q \in Requests
      PROVE  DeskType(desk'[q], n, lastTermId)
    <2>1. DeskType(Blank, n, lastTermId) /\ DeskType(desk[q], n, lastTermId)
        BY <1>1, BlankType, TypeGrows DEF TInv
    <2>2. DeskType([desk[q] EXCEPT !.fresh = @ \union ids], n, lastTermId)
        BY <1>1, <2>1 DEF DeskType, DeskRecords
    <2> QED
        BY <2>1, <2>2 DEF Linked
<1>3. desk' = [q \in Requests |-> desk'[q]]
    BY DEF Linked
<1> QED
    BY <1>2, <1>3 DEF DeskType

\* The rows a save inserts.
New(r) == {[e EXCEPT !.id = lastId + e.id] : e \in desk[r].batch}

LEMMA NewRows ==
    ASSUME TInv, NEW r \in Requests
    PROVE  /\ New(r) \subseteq EnrolRecords
           /\ \A a \in New(r) : /\ a.id \in (lastId + 1)..(lastId + desk[r].size)
                                /\ a.termId \in 1..lastTermId /\ a.seen <= lastId
           /\ \A a, b \in New(r) : a.id = b.id => a = b
           /\ {a.id : a \in New(r)} \subseteq Nat
           /\ desk[r].size \in Nat /\ lastId \in Nat /\ lastTermId \in Nat
<1>1. /\ desk[r].size \in Nat /\ lastId \in Nat /\ lastTermId \in Nat
      /\ desk[r].batch \subseteq EnrolRecords
      /\ DeskType(desk[r], lastId, lastTermId)
    BY DEF TInv, TypeOK
<1> DEFINE new(e) == [e EXCEPT !.id = lastId + e.id]
<1>2. ASSUME NEW e \in desk[r].batch
      PROVE  /\ new(e) \in EnrolRecords
             /\ new(e).id = lastId + e.id /\ new(e).termId = e.termId /\ new(e).seen = e.seen
             /\ e.id \in 1..desk[r].size /\ e.termId \in 1..lastTermId
             /\ e.seen <= lastId /\ e.id \in Nat
    BY <1>1 DEF EnrolRecords, DeskType
<1>3. \A e, f \in desk[r].batch : lastId + e.id = lastId + f.id => e = f
    BY <1>1, <1>2 DEF DeskType
<1>4. New(r) = {new(e) : e \in desk[r].batch}
    BY DEF New
<1> HIDE DEF new
<1>5. \A a, b \in New(r) : a.id = b.id => a = b
    BY <1>2, <1>3, <1>4
<1>6. \A a \in New(r) : /\ a \in EnrolRecords
                        /\ a.id \in (lastId + 1)..(lastId + desk[r].size)
                        /\ a.termId \in 1..lastTermId /\ a.seen <= lastId /\ a.id \in Nat
    BY <1>1, <1>2, <1>4
<1> QED
    BY <1>1, <1>5, <1>6

LEMMA InsertType ==
    ASSUME TInv, NEW r \in Requests, Insert(r)
    PROVE  TInv'
<1> DEFINE n == lastId + desk[r].size
<1>1. /\ rows' = rows \union New(r) /\ lastId' = n
      /\ Linked(r, {a.id : a \in New(r)})
      /\ UNCHANGED <<terms, lastTermId, removed, contested, raced>>
    BY DEF Insert, New
<1>2. n \in Nat /\ lastId <= n
    BY NewRows
<1>3. /\ desk' \in [Requests -> DeskRecords]
      /\ \A q \in Requests : DeskType(desk'[q], n, lastTermId)
    BY <1>1, <1>2, NewRows, LinkedType
<1>4. \A a \in rows : a \in EnrolRecords /\ a.id \in 1..lastId
    BY DEF TInv, TypeOK
<1>5. \A a \in rows' : a \in EnrolRecords /\ a.id \in 1..n /\ a.seen <= n
    <2>1. \A a \in rows : a.seen \in Nat /\ a.seen <= lastId
        BY <1>4 DEF TInv, EnrolRecords
    <2>2. \A a \in New(r) : a.seen \in Nat
        BY NewRows DEF EnrolRecords
    <2> QED
        BY <1>1, <1>2, <1>4, <2>1, <2>2, NewRows
<1>6. \A a, b \in rows' : a.id = b.id => a = b
    BY <1>1, <1>4, NewRows DEF TInv, TypeOK
<1> QED
    BY <1>1, <1>2, <1>3, <1>5, <1>6, NewRows DEF TInv, TypeOK, DeskRecords

LEMMA InitTInv == Init => TInv
<1> SUFFICES ASSUME Init PROVE TInv
    OBVIOUS
<1>1. DeskType(Blank, 0, 0)
    BY BlankType
<1>2. desk \in [Requests -> DeskRecords]
    BY <1>1 DEF Init, DeskType
<1> QED
    BY <1>1, <1>2 DEF Init, TInv, TypeOK, DeskRecords

\* A step that only moves one request on.
LEMMA ReadType ==
    ASSUME TInv, NEW r \in Requests, NEW d, Become(r, d),
           DeskType(d, lastId, lastTermId),
           UNCHANGED <<terms, lastTermId, rows, lastId, removed, contested, raced>>
    PROVE  TInv'
BY BecomeType DEF TInv, TypeOK, DeskRecords

LEMMA NextTInv == TInv /\ [Next]_vars => TInv'
<1> SUFFICES ASSUME TInv, [Next]_vars PROVE TInv'
    OBVIOUS
<1>0. /\ terms \in [Terms -> Nat] /\ lastTermId \in Nat /\ lastId \in Nat
      /\ \A k \in Terms : terms[k] <= lastTermId
      /\ \A a \in rows : a \in EnrolRecords /\ a.id \in 1..lastId
      /\ \A r \in Requests : desk[r] \in DeskRecords /\ DeskType(desk[r], lastId, lastTermId)
    BY DEF TInv, TypeOK, DeskType
<1>1. CASE UNCHANGED vars
    BY <1>1 DEF vars, TInv, TypeOK
<1>2. ASSUME NEW r \in Requests, NEW n \in Classes, NEW k \in Terms, NEW s \in Students,
             ResolveDto(r, n, k, s)
      PROVE  TInv'
    <2> DEFINE row == [NoRow EXCEPT !.name = n, !.term = k, !.termId = terms[k],
                                    !.student = s]
               d == [desk[r] EXCEPT !.phase = "checking", !.row = row]
    <2>1. row \in EnrolRecords /\ row.termId = terms[k] /\ row.seen = 0
        BY <1>0 DEF NoRow, EnrolRecords
    <2>2. terms[k] # 0 /\ desk[r].phase \in {"idle", "enrolling"}
        BY <1>2 DEF ResolveDto
    <2>3. row \in PartialRecords /\ d \in DeskRecords /\ d.phase = "checking" /\ d.row = row
          /\ d.batch = desk[r].batch /\ d.size = desk[r].size
        BY <1>0, <2>1, PartialType DEF DeskRecords, Phases
    <2> HIDE DEF row
    <2>4. DeskType(d, lastId, lastTermId)
        <3> HIDE DEF d
        <3> QED BY <1>0, <2>1, <2>2, <2>3 DEF DeskType
    <2> QED
        BY <1>2, <2>4, ReadType DEF ResolveDto, row
<1>3. ASSUME NEW r \in Requests, CheckDto(r)
      PROVE  TInv'
    <2> DEFINE e == [desk[r].row EXCEPT !.id = desk[r].size + 1, !.seen = lastId]
               d == [desk[r] EXCEPT !.phase = "enrolling", !.row = NoRow]
               f == [desk[r] EXCEPT !.phase = "enrolling", !.row = NoRow, !.size = @ + 1,
                                    !.batch = @ \union {e}]
    <2>0. desk[r].phase = "checking"
        BY <1>3 DEF CheckDto
    <2>1. /\ desk[r].row \in EnrolRecords /\ desk[r].size \in Nat
          /\ desk[r].row.termId \in 1..lastTermId
        BY <1>0, <2>0 DEF EnrolRecords, DeskType, DeskRecords
    <2>2. /\ e \in EnrolRecords /\ e.id = desk[r].size + 1 /\ e.seen = lastId
          /\ e.termId = desk[r].row.termId
        <3> DEFINE i == desk[r].size + 1
        <3>1. i \in Nat
            BY <2>1
        <3> HIDE DEF i
        <3>2. [desk[r].row EXCEPT !.id = i, !.seen = lastId] \in EnrolRecords
            BY <1>0, <2>1, <3>1 DEF EnrolRecords
        <3> QED
            BY <2>1, <3>2 DEF i, EnrolRecords
    <2>3. NoRow.termId = 0 /\ NoRow.seen = 0
        BY DEF NoRow
    <2>4. d \in DeskRecords /\ d.phase = "enrolling" /\ d.row = NoRow
          /\ d.batch = desk[r].batch /\ d.size = desk[r].size
        BY <1>0, PartialType DEF DeskRecords, Phases
    <2> HIDE DEF e
    <2>5. f \in DeskRecords /\ f.phase = "enrolling" /\ f.row = NoRow
          /\ f.batch = desk[r].batch \union {e} /\ f.size = desk[r].size + 1
        <3> DEFINE b == desk[r].batch \union {e}
                   i == desk[r].size + 1
        <3>1. b \in SUBSET EnrolRecords /\ i \in Nat
            BY <1>0, <2>1, <2>2 DEF DeskRecords
        <3> HIDE DEF b, i
        <3>2. f = [desk[r] EXCEPT !.phase = "enrolling", !.row = NoRow, !.size = i,
                                  !.batch = b]
            BY <1>0 DEF DeskRecords, b, i
        <3>3. f \in DeskRecords /\ f.phase = "enrolling" /\ f.row = NoRow
              /\ f.batch = b /\ f.size = i
            <4> HIDE DEF f
            <4>1. NoRow \in PartialRecords /\ desk[r] \in DeskRecords
                BY <1>0, PartialType
            <4> QED
                BY <3>1, <3>2, <4>1 DEF DeskRecords, Phases
        <3> QED
            BY <3>3 DEF b, i
    <2> HIDE DEF d, f
    <2>6. DeskType(d, lastId, lastTermId)
        BY <1>0, <2>3, <2>4 DEF DeskType
    <2>7. \A g \in f.batch : g.id \in 1..f.size /\ g.termId \in 1..lastTermId /\ g.seen <= lastId
        BY <1>0, <2>1, <2>2, <2>5 DEF DeskType
    <2>8. \A g, h \in f.batch : g.id = h.id => g = h
        BY <1>0, <2>1, <2>2, <2>5 DEF DeskType
    <2>9. DeskType(f, lastId, lastTermId)
        BY <1>0, <2>3, <2>5, <2>7, <2>8 DEF DeskType
    <2> QED
        BY <1>3, <2>6, <2>9, ReadType DEF CheckDto, d, e, f
<1>4. ASSUME NEW r \in Requests, SaveEnrolments(r) \/ SaveMigration(r)
      PROVE  TInv'
    BY <1>4, InsertType DEF SaveEnrolments, SaveMigration
<1>5. ASSUME NEW r \in Requests, NEW n \in Classes, NEW to \in Classes, NEW k \in Terms,
             NEW next \in Terms, ReadSource(r, n, k, to, next)
      PROVE  TInv'
    <2> DEFINE m == {a.student : a \in {b \in rows : b.name = n /\ b.term = k}}
               row == [NoRow EXCEPT !.name = to, !.term = next, !.migrated = TRUE]
               d == [Blank EXCEPT !.phase = "migrating", !.movers = m, !.row = row]
    <2>1. m \subseteq Students
        BY <1>0 DEF EnrolRecords
    <2>2. row \in PartialRecords /\ row.termId = 0 /\ row.seen = 0
        BY DEF NoRow, PartialRecords
    <2>3. row.name = to /\ row.term = next
        BY DEF NoRow
    <2> HIDE DEF m, row
    <2>4. d \in DeskRecords /\ d.phase = "migrating" /\ d.row = row /\ d.batch = {}
        BY <2>1, <2>2 DEF DeskRecords, Phases, Blank
    <2>5. DeskType(d, lastId, lastTermId)
        <3> HIDE DEF d
        <3> QED BY <1>0, <2>2, <2>3, <2>4 DEF DeskType
    <2> QED
        BY <1>5, <2>5, ReadType DEF ReadSource, m, row
<1>6. ASSUME NEW r \in Requests, ReadDestination(r)
      PROVE  TInv'
    <2> DEFINE there == {a.student : a \in {b \in rows : b.term = desk[r].row.term}}
               row == [desk[r].row EXCEPT !.seen = lastId]
               d == [desk[r] EXCEPT !.phase = "compared", !.movers = @ \ there,
                                    !.row.seen = lastId]
    <2>0. desk[r] \in DeskRecords /\ desk[r].row \in PartialRecords /\ lastId \in Nat
        BY <1>0 DEF DeskRecords
    <2> HIDE DEF there
    <2>1. d \in DeskRecords
        <3>1. row \in PartialRecords
            BY <2>0 DEF PartialRecords
        <3>2. d = [desk[r] EXCEPT !.phase = "compared", !.movers = @ \ there, !.row = row]
            BY <2>0 DEF DeskRecords
        <3> HIDE DEF row, d
        <3>3. desk[r].movers \ there \in SUBSET Students
            BY <2>0 DEF DeskRecords
        <3> QED
            BY <2>0, <3>1, <3>2, <3>3 DEF DeskRecords, Phases
    <2>2. /\ d.phase = "compared" /\ d.row.termId = desk[r].row.termId /\ d.row.seen = lastId
          /\ d.row.name = desk[r].row.name /\ d.row.term = desk[r].row.term
          /\ d.batch = desk[r].batch /\ d.size = desk[r].size
        BY <2>0 DEF DeskRecords, PartialRecords
    <2>3. desk[r].phase = "migrating"
        BY <1>6 DEF ReadDestination
    <2>4. DeskType(d, lastId, lastTermId)
        <3> HIDE DEF d
        <3> QED BY <1>0, <2>1, <2>2, <2>3 DEF DeskType
    <2> QED
        BY <1>6, <2>4, ReadType DEF ReadDestination, there
<1>7. ASSUME NEW r \in Requests, ResolveDestination(r)
      PROVE  TInv'
    <2> DEFINE movers == desk[r].movers
               row == desk[r].row
    <2>1. PICK place \in [movers -> 1..Cardinality(movers)] :
             /\ \A s, t \in movers : s # t => place[s] # place[t]
             /\ Become(r, [desk[r] EXCEPT
                   !.phase = "placing", !.size = Cardinality(movers),
                   !.batch = {[row EXCEPT !.id = place[s], !.student = s,
                                          !.termId = terms[row.term]] : s \in movers}])
        BY <1>7 DEF ResolveDestination
    <2> DEFINE new(s) == [row EXCEPT !.id = place[s], !.student = s,
                                     !.termId = terms[row.term]]
               d == [desk[r] EXCEPT !.phase = "placing", !.size = Cardinality(movers),
                                    !.batch = {new(s) : s \in movers}]
    <2>2. movers \subseteq Students /\ Cardinality(movers) \in Nat
        BY <1>0, FiniteAssumption, FS_Subset, FS_CardinalityType DEF DeskRecords
    <2>3. /\ row \in PartialRecords /\ row.name \in Classes /\ row.term \in Terms
          /\ row.seen <= lastId /\ terms[row.term] \in 1..lastTermId
        BY <1>0, <1>7 DEF ResolveDestination, DeskType, DeskRecords
    <2>4. ASSUME NEW s \in movers
          PROVE  /\ new(s) \in EnrolRecords /\ new(s).id = place[s]
                 /\ new(s).termId = terms[row.term] /\ new(s).seen = row.seen
        <3>1. s \in Students /\ place[s] \in Nat /\ terms[row.term] \in Nat
            BY <2>2, <2>3
        <3> QED
            BY <2>3, <3>1 DEF EnrolRecords, PartialRecords
    <2> HIDE DEF new
    <2>5. \A s \in movers : place[s] \in 1..Cardinality(movers)
        OBVIOUS
    <2>6. /\ d \in DeskRecords /\ d.phase = "placing" /\ d.row = row
          /\ d.batch = {new(s) : s \in movers} /\ d.size = Cardinality(movers)
        <3> DEFINE b == {new(s) : s \in movers}
                   c == Cardinality(movers)
        <3>1. b \in SUBSET EnrolRecords /\ c \in Nat
            BY <2>2, <2>4
        <3>2. desk[r] \in DeskRecords
            BY <1>0
        <3>3. d = [desk[r] EXCEPT !.phase = "placing", !.size = c, !.batch = b]
            OBVIOUS
        <3> HIDE DEF b, c, d, movers
        <3>4. /\ d \in DeskRecords /\ d.phase = "placing" /\ d.row = row
              /\ d.batch = b /\ d.size = c
            BY <3>1, <3>2, <3>3 DEF DeskRecords, Phases
        <3> QED
            BY <3>4 DEF b, c, movers
    <2> HIDE DEF d
    <2>7. /\ \A e \in d.batch : /\ e.id \in 1..d.size /\ e.termId \in 1..lastTermId
                                /\ e.seen <= lastId
          /\ \A e, f \in d.batch : e.id = f.id => e = f
        BY <2>1, <2>3, <2>4, <2>5, <2>6
    <2>8. row.termId <= lastTermId
        BY <1>0 DEF DeskType
    <2>9. DeskType(d, lastId, lastTermId)
        BY <2>3, <2>6, <2>7, <2>8 DEF DeskType
    <2> QED
        BY <1>7, <2>1, <2>9, ReadType DEF ResolveDestination, d, new
<1>8. ASSUME NEW r \in Requests, NEW n \in Classes, NEW k \in Terms, NEW s \in Students,
             ResolveUpdate(r, n, k, s)
      PROVE  TInv'
    <2> DEFINE row == [NoRow EXCEPT !.name = n, !.term = k, !.termId = terms[k],
                                    !.student = s]
               d == [Blank EXCEPT !.phase = "updating", !.row = row]
    <2>1. row \in EnrolRecords /\ row.termId = terms[k] /\ row.seen = 0
        BY <1>0 DEF NoRow, EnrolRecords
    <2>2. terms[k] # 0
        BY <1>8 DEF ResolveUpdate
    <2> HIDE DEF row
    <2>3. d \in DeskRecords /\ d.phase = "updating" /\ d.row = row /\ d.batch = {}
        BY <2>1, PartialType DEF DeskRecords, Phases, Blank
    <2>4. DeskType(d, lastId, lastTermId)
        <3> HIDE DEF d
        <3> QED BY <1>0, <2>1, <2>2, <2>3 DEF DeskType
    <2> QED
        BY <1>8, <2>4, ReadType DEF ResolveUpdate, row
<1>9. ASSUME NEW r \in Requests, FindEnrolment(r)
      PROVE  TInv'
    <2>1. PICK a \in rows :
             Become(r, [desk[r] EXCEPT !.phase = "found",
                           !.row = [a EXCEPT !.termId = desk[r].row.termId]])
        BY <1>9 DEF FindEnrolment
    <2> DEFINE row == [a EXCEPT !.termId = desk[r].row.termId]
               d == [desk[r] EXCEPT !.phase = "found", !.row = row]
    <2>2. /\ a \in EnrolRecords /\ a.id \in 1..lastId
          /\ desk[r].row.termId \in 1..lastTermId
        BY <1>0, <1>9 DEF FindEnrolment, DeskType, DeskRecords, PartialRecords
    <2>3. /\ row \in EnrolRecords /\ row.id = a.id /\ row.seen = a.seen
          /\ row.termId = desk[r].row.termId
        BY <2>2 DEF EnrolRecords
    <2>4. a.seen <= lastId
        BY DEF TInv
    <2> HIDE DEF row
    <2>5. d \in DeskRecords /\ d.phase = "found" /\ d.row = row
          /\ d.batch = desk[r].batch /\ d.size = desk[r].size
        BY <1>0, <2>3, PartialType DEF DeskRecords, Phases
    <2>6. DeskType(d, lastId, lastTermId)
        <3> HIDE DEF d
        <3> QED BY <1>0, <2>2, <2>3, <2>4, <2>5 DEF DeskType
    <2> QED
        BY <1>9, <2>1, <2>6, ReadType DEF FindEnrolment, row
<1>10. ASSUME NEW r \in Requests, SaveUpdate(r)
       PROVE  TInv'
    <2> DEFINE d == desk[r].row
    <2>1. d \in EnrolRecords /\ d.id \in 1..lastId /\ d.seen <= lastId /\ d.id \in Nat
        BY <1>0, <1>10 DEF SaveUpdate, DeskType
    <2>2. /\ rows' = {a \in rows : a.id # d.id} \union {d}
          /\ Linked(r, {d.id})
          /\ UNCHANGED <<terms, lastTermId, lastId, removed, contested, raced>>
        BY <1>10 DEF SaveUpdate
    <2>3. /\ desk' \in [Requests -> DeskRecords]
          /\ \A q \in Requests : DeskType(desk'[q], lastId, lastTermId)
        BY <1>0, <2>1, <2>2, LinkedType
    <2> HIDE DEF d
    <2>4. rows' \subseteq EnrolRecords /\ \A a \in rows' : a.id \in 1..lastId /\ a.seen <= lastId
        BY <1>0, <2>1, <2>2 DEF TInv
    <2>5. \A a, b \in rows' : a.id = b.id => a = b
        BY <2>2 DEF TInv, TypeOK
    <2> QED
        BY <2>2, <2>3, <2>4, <2>5 DEF TInv, TypeOK, DeskRecords
<1>11. ASSUME NEW a \in rows, Unenrol(a)
       PROVE  TInv'
    <2>1. a.id \in 1..lastId /\ a.id \in Nat
        BY <1>0
    <2>2. /\ rows' \subseteq rows /\ removed' = removed \union {a.id}
          /\ contested' \subseteq contested \union {a.id}
          /\ UNCHANGED <<terms, lastTermId, lastId, desk, raced>>
        BY <1>11 DEF Unenrol
    <2> QED
        BY <2>1, <2>2 DEF TInv, TypeOK
<1>12. ASSUME NEW r \in Requests, NEW k \in Terms, NEW next \in {"deleting", "editing"},
              FindTerm(r, k, next)
       PROVE  TInv'
    <2> DEFINE row == [NoRow EXCEPT !.term = k, !.termId = terms[k]]
               d == [Blank EXCEPT !.phase = next, !.row = row]
    <2>1. /\ row \in PartialRecords /\ row.termId = terms[k] /\ row.seen = 0
          /\ row.term = k
        BY <1>0 DEF NoRow, PartialRecords
    <2>2. terms[k] # 0
        BY <1>12 DEF FindTerm
    <2> HIDE DEF row
    <2>3. d \in DeskRecords /\ d.phase = next /\ d.row = row /\ d.batch = {}
        BY <2>1 DEF DeskRecords, Phases, Blank
    <2>4. DeskType(d, lastId, lastTermId)
        <3> HIDE DEF d
        <3> QED BY <1>0, <2>1, <2>2, <2>3 DEF DeskType
    <2> QED
        BY <1>12, <2>4, ReadType DEF FindTerm, row
<1>13. ASSUME NEW r \in Requests, CountEnrolments(r)
       PROVE  TInv'
    <2> DEFINE d == [desk[r] EXCEPT !.phase = "counted"]
    <2>1. DeskType(d, lastId, lastTermId)
        BY <1>0, <1>13 DEF CountEnrolments, DeskType, DeskRecords, Phases
    <2> QED
        BY <1>13, <2>1, ReadType DEF CountEnrolments
<1>14. ASSUME NEW r \in Requests, RemoveTerm(r)
       PROVE  TInv'
    <2> DEFINE d == desk[r].row
               cut(a) == IF a.termId = d.termId THEN [a EXCEPT !.termId = 0] ELSE a
    <2>1. /\ terms' = [k \in Terms |-> IF terms[k] = d.termId THEN 0 ELSE terms[k]]
          /\ rows' = {cut(a) : a \in rows}
          /\ raced' = raced \union desk[r].fresh
          /\ Become(r, Blank)
          /\ UNCHANGED <<lastTermId, lastId, removed, contested>>
        BY <1>14 DEF RemoveTerm
    <2>2. /\ desk' \in [Requests -> DeskRecords]
          /\ \A q \in Requests : DeskType(desk'[q], lastId, lastTermId)
        BY <1>0, <2>1, BlankType, BecomeType
    <2>3. \A a \in rows : cut(a) \in EnrolRecords /\ cut(a).id = a.id /\ cut(a).seen = a.seen
        BY <1>0 DEF EnrolRecords
    <2> HIDE DEF cut
    <2>4. \A b \in rows' : \E a \in rows : b = cut(a)
        BY <2>1
    <2>5. /\ rows' \subseteq EnrolRecords
          /\ \A a \in rows' : a.id \in 1..lastId /\ a.seen <= lastId
          /\ \A a, b \in rows' : a.id = b.id => a = b
        BY <1>0, <2>3, <2>4 DEF TInv, TypeOK
    <2>6. terms' \in [Terms -> Nat] /\ \A k \in Terms : terms'[k] <= lastTermId
        BY <1>0, <2>1
    <2>7. desk[r].fresh \subseteq Nat
        BY <1>0 DEF DeskRecords
    <2> QED
        BY <2>1, <2>2, <2>5, <2>6, <2>7 DEF TInv, TypeOK, DeskRecords
<1>15. ASSUME NEW r \in Requests, SaveTerm(r)
       PROVE  TInv'
    <2>1. /\ desk[r].row.term \in Terms /\ desk[r].row.termId \in Nat
          /\ desk[r].row.termId <= lastTermId
        BY <1>0, <1>15 DEF SaveTerm, DeskType, DeskRecords, PartialRecords
    <2>2. /\ desk' \in [Requests -> DeskRecords]
          /\ \A q \in Requests : DeskType(desk'[q], lastId, lastTermId)
        BY <1>0, <1>15, BlankType, BecomeType DEF SaveTerm
    <2>3. terms' \in [Terms -> Nat] /\ \A k \in Terms : terms'[k] <= lastTermId
        BY <1>0, <1>15, <2>1 DEF SaveTerm
    <2> QED
        BY <1>15, <2>2, <2>3 DEF SaveTerm, TInv, TypeOK, DeskRecords
<1>16. ASSUME NEW r \in Requests, GiveUp(r)
       PROVE  TInv'
    BY <1>0, <1>16, BlankType, ReadType DEF GiveUp
<1>17. ASSUME NEW k \in Terms, CreateTerm(k)
       PROVE  TInv'
    <2>1. \A q \in Requests : DeskType(desk[q], lastId, lastTermId + 1)
        BY <1>0, TypeGrows
    <2> QED
        BY <1>0, <1>17, <2>1 DEF CreateTerm, TInv, TypeOK
<1> QED
    BY <1>1, <1>2, <1>3, <1>4, <1>5, <1>6, <1>7, <1>8, <1>9, <1>10, <1>11, <1>12, <1>13,
       <1>14, <1>15, <1>16, <1>17 DEF Next

\* Every identifier the application issues is used for one row or one term.
THEOREM EnrolmentTypeCorrect == Spec => []TypeOK
<1>1. TInv => TypeOK
    BY DEF TInv
<1> QED
    BY InitTInv, NextTInv, <1>1, PTL DEF Spec

-----------------------------------------------------------------------------
(* What a query adds to what its request holds                             *)

Read(r, d) ==
    /\ Become(r, d) /\ d \in DeskRecords
    /\ UNCHANGED <<terms, lastTermId, rows, lastId, removed, contested, raced>>
    /\ \/ d.row.termId = 0
       \/ terms[d.row.term] = d.row.termId
       \/ d.row.termId = desk[r].row.termId /\ d.row.term = desk[r].row.term
    /\ \A e \in d.batch :
          \/ e \in desk[r].batch
          \/ /\ desk[r].phase = "checking"
             /\ e.termId = desk[r].row.termId /\ e.term = desk[r].row.term
             /\ e.migrated = desk[r].row.migrated
             /\ \A a \in rows : ~Same(a, e.name, e.term, e.student)
          \/ /\ desk[r].phase = "compared"
             /\ terms[e.term] = e.termId /\ e.term = desk[r].row.term
             /\ e.student \in desk[r].movers /\ e.seen = desk[r].row.seen
    /\ d.phase = "counted" => \A a \in rows : a.termId # d.row.termId
    /\ d.phase = "found" => \E a \in rows : Kin(a, d.row)
    /\ d.phase = "checking" => ~d.row.migrated
    /\ d.phase = "compared" =>
          \A a \in rows : a.term = d.row.term => a.student \notin d.movers

LEMMA Steps ==
    ASSUME TInv, [Next]_vars
    PROVE  \/ UNCHANGED vars
           \/ \E r \in Requests, d \in DeskRecords : Read(r, d)
           \/ \E r \in Requests : Insert(r) \/ SaveUpdate(r) \/ RemoveTerm(r) \/ SaveTerm(r)
           \/ \E a \in rows : Unenrol(a)
           \/ \E k \in Terms : CreateTerm(k)
<1> DEFINE Looks == \E r \in Requests, d \in DeskRecords : Read(r, d)
<1>0. /\ terms \in [Terms -> Nat] /\ lastId \in Nat
      /\ rows \subseteq EnrolRecords
      /\ desk \in [Requests -> DeskRecords]
      /\ \A r \in Requests : desk[r] \in DeskRecords /\ DeskType(desk[r], lastId, lastTermId)
    BY DEF TInv, TypeOK, DeskType, DeskRecords
<1>a. ASSUME NEW r \in Requests, NEW d, Become(r, d), TInv'
      PROVE  d \in DeskRecords
    <2>1. desk'[r] = d
        BY <1>0, <1>a DEF Become
    <2>2. DeskType(desk'[r], lastId', lastTermId')
        BY <1>a DEF TInv
    <2> QED
        BY <2>1, <2>2 DEF DeskType
<1>b. TInv'
    BY NextTInv
<1>2. ASSUME NEW r \in Requests, NEW n \in Classes, NEW k \in Terms, NEW s \in Students,
             ResolveDto(r, n, k, s)
      PROVE  Looks
    <2> DEFINE d == [desk[r] EXCEPT !.phase = "checking",
                         !.row = [NoRow EXCEPT !.name = n, !.term = k, !.termId = terms[k],
                                               !.student = s]]
    <2>1. Become(r, d)
        BY <1>2 DEF ResolveDto
    <2>2. d \in DeskRecords
        BY <1>a, <1>b, <2>1
    <2>3. /\ d.phase = "checking" /\ d.batch = desk[r].batch
          /\ d.row.term = k /\ d.row.termId = terms[k] /\ ~d.row.migrated
        BY <1>0 DEF DeskRecords, NoRow
    <2> HIDE DEF d
    <2>4. Read(r, d)
        BY <1>2, <2>1, <2>2, <2>3 DEF ResolveDto, Read
    <2> QED
        BY <2>2, <2>4
<1>3. ASSUME NEW r \in Requests, CheckDto(r)
      PROVE  Looks
    <2> DEFINE e == [desk[r].row EXCEPT !.id = desk[r].size + 1, !.seen = lastId]
               d == [desk[r] EXCEPT !.phase = "enrolling", !.row = NoRow]
               f == [desk[r] EXCEPT !.phase = "enrolling", !.row = NoRow, !.size = @ + 1,
                                    !.batch = @ \union {e}]
    <2>1. desk[r].phase = "checking" /\ desk[r].row \in EnrolRecords
        BY <1>0, <1>3 DEF CheckDto, DeskType
    <2>2. /\ e.termId = desk[r].row.termId /\ e.term = desk[r].row.term
          /\ e.migrated = desk[r].row.migrated /\ e.name = desk[r].row.name
          /\ e.student = desk[r].row.student
        BY <2>1 DEF EnrolRecords
    <2> HIDE DEF e
    <2>3. NoRow.termId = 0
        BY DEF NoRow
    <2>4. /\ d.phase = "enrolling" /\ d.batch = desk[r].batch /\ d.row = NoRow
          /\ f.phase = "enrolling" /\ f.batch = desk[r].batch \union {e} /\ f.row = NoRow
        BY <1>0 DEF DeskRecords
    <2> HIDE DEF d, f
    <2>5. CASE \E a \in rows : Same(a, desk[r].row.name, desk[r].row.term, desk[r].row.student)
        <3>1. Become(r, d)
            BY <1>3, <2>5 DEF CheckDto, d
        <3>2. d \in DeskRecords
            BY <1>a, <1>b, <3>1
        <3>3. Read(r, d)
            BY <1>3, <2>3, <2>4, <3>1, <3>2 DEF CheckDto, Read
        <3> QED
            BY <3>2, <3>3
    <2>6. CASE ~\E a \in rows : Same(a, desk[r].row.name, desk[r].row.term, desk[r].row.student)
        <3>1. Become(r, f)
            BY <1>3, <2>6 DEF CheckDto, f, e
        <3>2. f \in DeskRecords
            BY <1>a, <1>b, <3>1
        <3>3. Read(r, f)
            BY <1>3, <2>1, <2>2, <2>3, <2>4, <2>6, <3>1, <3>2 DEF CheckDto, Read
        <3> QED
            BY <3>2, <3>3
    <2> QED
        BY <2>5, <2>6
<1>5. ASSUME NEW r \in Requests, NEW n \in Classes, NEW to \in Classes, NEW k \in Terms,
             NEW next \in Terms, ReadSource(r, n, k, to, next)
      PROVE  Looks
    <2> DEFINE d == [Blank EXCEPT !.phase = "migrating",
                         !.movers = {a.student : a \in {b \in rows : b.name = n /\ b.term = k}},
                         !.row = [NoRow EXCEPT !.name = to, !.term = next, !.migrated = TRUE]]
    <2>1. Become(r, d)
        BY <1>5 DEF ReadSource
    <2>2. d \in DeskRecords
        BY <1>a, <1>b, <2>1
    <2>3. d.phase = "migrating" /\ d.batch = {} /\ d.row.termId = 0
        BY DEF Blank, NoRow
    <2> HIDE DEF d
    <2>4. Read(r, d)
        BY <1>5, <2>1, <2>2, <2>3 DEF ReadSource, Read
    <2> QED
        BY <2>2, <2>4
<1>6. ASSUME NEW r \in Requests, ReadDestination(r)
      PROVE  Looks
    <2> DEFINE there == {a.student : a \in {b \in rows : b.term = desk[r].row.term}}
               d == [desk[r] EXCEPT !.phase = "compared", !.movers = @ \ there,
                                    !.row.seen = lastId]
    <2>1. Become(r, d)
        BY <1>6 DEF ReadDestination
    <2>2. d \in DeskRecords
        BY <1>a, <1>b, <2>1
    <2>3. \A a \in rows : a.term = desk[r].row.term => a.student \in there
        OBVIOUS
    <2>4. /\ d.phase = "compared" /\ d.batch = desk[r].batch
          /\ d.row.term = desk[r].row.term /\ d.row.termId = desk[r].row.termId
          /\ d.movers = desk[r].movers \ there
        BY <1>0 DEF DeskRecords, PartialRecords
    <2> HIDE DEF d, there
    <2>5. Read(r, d)
        BY <1>6, <2>1, <2>2, <2>3, <2>4 DEF ReadDestination, Read
    <2> QED
        BY <2>2, <2>5
<1>7. ASSUME NEW r \in Requests, ResolveDestination(r)
      PROVE  Looks
    <2> DEFINE movers == desk[r].movers
               row == desk[r].row
    <2>1. PICK place \in [movers -> 1..Cardinality(movers)] :
             Become(r, [desk[r] EXCEPT
                !.phase = "placing", !.size = Cardinality(movers),
                !.batch = {[row EXCEPT !.id = place[s], !.student = s,
                                       !.termId = terms[row.term]] : s \in movers}])
        BY <1>7 DEF ResolveDestination
    <2> DEFINE new(s) == [row EXCEPT !.id = place[s], !.student = s,
                                     !.termId = terms[row.term]]
               d == [desk[r] EXCEPT !.phase = "placing", !.size = Cardinality(movers),
                                    !.batch = {new(s) : s \in movers}]
    <2>2. d \in DeskRecords
        BY <1>a, <1>b, <2>1
    <2>3. /\ d.phase = "placing" /\ d.row = row
          /\ d.batch = {new(s) : s \in movers}
        BY <1>0 DEF DeskRecords
    <2>4. \A s \in movers : /\ new(s).termId = terms[row.term] /\ new(s).term = row.term
                            /\ new(s).student = s /\ new(s).seen = row.seen
        BY <1>0 DEF DeskRecords, PartialRecords
    <2>5. Become(r, d) /\ desk[r].phase = "compared"
        BY <1>7, <2>1 DEF ResolveDestination
    <2> HIDE DEF d, new
    <2>6. Read(r, d)
        BY <1>7, <2>2, <2>3, <2>4, <2>5 DEF ResolveDestination, Read
    <2> QED
        BY <2>2, <2>6
<1>8. ASSUME NEW r \in Requests, NEW n \in Classes, NEW k \in Terms, NEW s \in Students,
             ResolveUpdate(r, n, k, s)
      PROVE  Looks
    <2> DEFINE d == [Blank EXCEPT !.phase = "updating",
                         !.row = [NoRow EXCEPT !.name = n, !.term = k, !.termId = terms[k],
                                               !.student = s]]
    <2>1. Become(r, d)
        BY <1>8 DEF ResolveUpdate
    <2>2. d \in DeskRecords
        BY <1>a, <1>b, <2>1
    <2>3. d.phase = "updating" /\ d.batch = {} /\ d.row.term = k /\ d.row.termId = terms[k]
        BY DEF Blank, NoRow
    <2> HIDE DEF d
    <2>4. Read(r, d)
        BY <1>8, <2>1, <2>2, <2>3 DEF ResolveUpdate, Read
    <2> QED
        BY <2>2, <2>4
<1>9. ASSUME NEW r \in Requests, FindEnrolment(r)
      PROVE  Looks
    <2>1. PICK a \in rows :
             /\ Same(a, desk[r].row.name, desk[r].row.term, desk[r].row.student)
             /\ Become(r, [desk[r] EXCEPT !.phase = "found",
                              !.row = [a EXCEPT !.termId = desk[r].row.termId]])
        BY <1>9 DEF FindEnrolment
    <2> DEFINE row == [a EXCEPT !.termId = desk[r].row.termId]
               d == [desk[r] EXCEPT !.phase = "found", !.row = row]
    <2>2. d \in DeskRecords
        BY <1>a, <1>b, <2>1
    <2>3. Kin(a, row) /\ row.termId = desk[r].row.termId /\ row.term = desk[r].row.term
        BY <1>0, <2>1 DEF EnrolRecords, Kin, Same
    <2> HIDE DEF row
    <2>4. d.phase = "found" /\ d.batch = desk[r].batch /\ d.row = row
        BY <1>0 DEF DeskRecords
    <2>5. Become(r, d)
        BY <2>1 DEF row
    <2> HIDE DEF d
    <2>6. Read(r, d)
        BY <1>9, <2>2, <2>3, <2>4, <2>5 DEF FindEnrolment, Read
    <2> QED
        BY <2>2, <2>6
<1>12. ASSUME NEW r \in Requests, NEW k \in Terms, NEW next \in {"deleting", "editing"},
              FindTerm(r, k, next)
       PROVE  Looks
    <2> DEFINE d == [Blank EXCEPT !.phase = next,
                         !.row = [NoRow EXCEPT !.term = k, !.termId = terms[k]]]
    <2>1. Become(r, d)
        BY <1>12 DEF FindTerm
    <2>2. d \in DeskRecords
        BY <1>a, <1>b, <2>1
    <2>3. d.phase = next /\ d.batch = {} /\ d.row.term = k /\ d.row.termId = terms[k]
        BY DEF Blank, NoRow
    <2> HIDE DEF d
    <2>4. Read(r, d)
        BY <1>12, <2>1, <2>2, <2>3 DEF FindTerm, Read
    <2> QED
        BY <2>2, <2>4
<1>13. ASSUME NEW r \in Requests, CountEnrolments(r)
       PROVE  Looks
    <2> DEFINE d == [desk[r] EXCEPT !.phase = "counted"]
    <2>1. Become(r, d)
        BY <1>13 DEF CountEnrolments
    <2>2. d \in DeskRecords
        BY <1>a, <1>b, <2>1
    <2>3. d.phase = "counted" /\ d.batch = desk[r].batch /\ d.row = desk[r].row
        BY <1>0 DEF DeskRecords
    <2> HIDE DEF d
    <2>4. Read(r, d)
        BY <1>13, <2>1, <2>2, <2>3 DEF CountEnrolments, Read
    <2> QED
        BY <2>2, <2>4
<1>16. ASSUME NEW r \in Requests, GiveUp(r)
       PROVE  Looks
    <2>1. Become(r, Blank)
        BY <1>16 DEF GiveUp
    <2>2. Blank \in DeskRecords
        BY <1>a, <1>b, <2>1
    <2>3. Blank.phase = "idle" /\ Blank.batch = {} /\ Blank.row.termId = 0
        BY DEF Blank, NoRow
    <2>4. Read(r, Blank)
        BY <1>16, <2>1, <2>2, <2>3 DEF GiveUp, Read
    <2> QED
        BY <2>2, <2>4
<1> HIDE DEF Looks
<1>17. Looks \/ UNCHANGED vars
           \/ (\E r \in Requests : Insert(r) \/ SaveUpdate(r) \/ RemoveTerm(r) \/ SaveTerm(r))
           \/ (\E a \in rows : Unenrol(a)) \/ (\E k \in Terms : CreateTerm(k))
    BY <1>2, <1>3, <1>5, <1>6, <1>7, <1>8, <1>9, <1>12, <1>13, <1>16
       DEF Next, SaveEnrolments, SaveMigration
<1> QED
    BY <1>17 DEF Looks

\* What a save changes on the desks.
LEMMA LinkedDesk ==
    ASSUME TInv, NEW r \in Requests, NEW ids, Linked(r, ids)
    PROVE  /\ desk'[r] = Blank
           /\ \A q \in Requests \ {r} :
                 /\ desk'[q].phase = desk[q].phase /\ desk'[q].row = desk[q].row
                 /\ desk'[q].batch = desk[q].batch /\ desk'[q].movers = desk[q].movers
                 /\ desk[q].phase = "counted" => desk'[q].fresh = desk[q].fresh \union ids
<1>1. desk \in [Requests -> DeskRecords]
    BY DEF TInv, TypeOK, DeskRecords
<1> QED
    BY <1>1 DEF Linked, DeskRecords

LEMMA BecomeDesk ==
    ASSUME TInv, NEW r \in Requests, NEW d, Become(r, d)
    PROVE  desk'[r] = d /\ \A q \in Requests \ {r} : desk'[q] = desk[q]
BY DEF TInv, TypeOK, Become

LEMMA BlankDesk ==
    /\ Blank.phase = "idle" /\ Blank.batch = {} /\ Blank.row.termId = 0
    /\ \A e \in Blank.batch : FALSE
BY DEF Blank, NoRow

-----------------------------------------------------------------------------
(* What a deletion misses                                                  *)

LEMMA InitOrphan == Init => OrphanInv
BY BlankDesk DEF Init, OrphanInv, OrphansOnlyByRace

LEMMA NextOrphan == TInv /\ OrphanInv /\ [Next]_vars => OrphanInv'
<1> SUFFICES ASSUME TInv, OrphanInv, [Next]_vars PROVE OrphanInv'
    OBVIOUS
<1>0. /\ rows \subseteq EnrolRecords
      /\ \A r \in Requests : DeskType(desk[r], lastId, lastTermId)
    BY DEF TInv, TypeOK
<1>1. CASE UNCHANGED vars
    BY <1>1 DEF vars, OrphanInv, OrphansOnlyByRace
<1>2. ASSUME NEW r \in Requests, NEW d \in DeskRecords, Read(r, d)
      PROVE  OrphanInv'
    BY <1>2, BecomeDesk DEF Read, OrphanInv, OrphansOnlyByRace
<1>3. ASSUME NEW r \in Requests, Insert(r)
      PROVE  OrphanInv'
    <2>1. /\ rows' = rows \union New(r) /\ Linked(r, {a.id : a \in New(r)})
          /\ raced' = raced
        BY <1>3 DEF Insert, New
    <2>2. \A a \in New(r) : a.termId # 0
        BY NewRows
    <2> QED
        BY <2>1, <2>2, LinkedDesk, BlankDesk DEF OrphanInv, OrphansOnlyByRace
<1>4. ASSUME NEW r \in Requests, SaveUpdate(r)
      PROVE  OrphanInv'
    <2> DEFINE d == desk[r].row
    <2>1. /\ rows' = {a \in rows : a.id # d.id} \union {d}
          /\ Linked(r, {d.id}) /\ raced' = raced /\ d.termId # 0
        BY <1>4 DEF SaveUpdate, TermIds
    <2> QED
        BY <2>1, LinkedDesk, BlankDesk DEF OrphanInv, OrphansOnlyByRace
<1>5. ASSUME NEW r \in Requests, RemoveTerm(r)
      PROVE  OrphanInv'
    <2> DEFINE i == desk[r].row.termId
               cut(a) == IF a.termId = i THEN [a EXCEPT !.termId = 0] ELSE a
    <2>1. /\ rows' = {cut(a) : a \in rows} /\ Become(r, Blank)
          /\ raced' = raced \union desk[r].fresh /\ desk[r].phase = "counted"
        BY <1>5 DEF RemoveTerm
    <2>2. \A a \in rows : /\ cut(a).id = a.id
                          /\ cut(a).termId = IF a.termId = i THEN 0 ELSE a.termId
        BY <1>0 DEF EnrolRecords
    <2>3. \A q \in Requests : desk[q].phase = "counted" => desk[q].row.termId # 0
        BY <1>0 DEF DeskType
    <2> HIDE DEF cut
    <2>4. \A b \in rows' : \E a \in rows : b = cut(a)
        BY <2>1
    <2>5. OrphansOnlyByRace'
        BY <2>1, <2>2, <2>4 DEF OrphanInv, OrphansOnlyByRace
    <2>6. ASSUME NEW q \in Requests, desk'[q].phase = "counted", NEW b \in rows',
                 b.termId = desk'[q].row.termId
          PROVE  b.id \in desk'[q].fresh
        BY <2>1, <2>2, <2>3, <2>4, <2>6, BecomeDesk, BlankDesk DEF OrphanInv
    <2> QED
        BY <2>5, <2>6 DEF OrphanInv
<1>6. ASSUME NEW r \in Requests, SaveTerm(r)
      PROVE  OrphanInv'
    BY <1>6, BecomeDesk, BlankDesk DEF SaveTerm, OrphanInv, OrphansOnlyByRace
<1>7. ASSUME NEW a \in rows, Unenrol(a)
      PROVE  OrphanInv'
    BY <1>7 DEF Unenrol, OrphanInv, OrphansOnlyByRace
<1>8. ASSUME NEW k \in Terms, CreateTerm(k)
      PROVE  OrphanInv'
    BY <1>8 DEF CreateTerm, OrphanInv, OrphansOnlyByRace
<1> QED
    BY <1>1, <1>2, <1>3, <1>4, <1>5, <1>6, <1>7, <1>8, Steps

\* Deleting a term leaves no enrolment without its term, except those saved after the
\* deletion counted: ensureTermHasNoEnrolments and onDelete SET NULL together.
THEOREM OrphansRaced == Spec => []OrphansOnlyByRace
<1>1. TInv /\ OrphanInv => OrphansOnlyByRace
    BY DEF OrphanInv
<1> QED
    BY InitTInv, NextTInv, InitOrphan, NextOrphan, <1>1, PTL DEF Spec

-----------------------------------------------------------------------------
(* What unenrolment leaves behind                                          *)

LEMMA InitContest == Init => ContestInv
BY BlankDesk DEF Init, ContestInv, UnenrolledStaysOut

LEMMA NextContest == TInv /\ ContestInv /\ [Next]_vars => ContestInv'
<1> SUFFICES ASSUME TInv, ContestInv, [Next]_vars PROVE ContestInv'
    OBVIOUS
<1>0. /\ rows \subseteq EnrolRecords /\ removed \subseteq 1..lastId
      /\ desk \in [Requests -> DeskRecords]
    BY DEF TInv, TypeOK, DeskRecords
<1>1. CASE UNCHANGED vars
    BY <1>1 DEF vars, ContestInv, UnenrolledStaysOut
<1>2. ASSUME NEW r \in Requests, NEW d \in DeskRecords, Read(r, d)
      PROVE  ContestInv'
    BY <1>2, BecomeDesk DEF Read, Kin, ContestInv, UnenrolledStaysOut
<1>3. ASSUME NEW r \in Requests, Insert(r)
      PROVE  ContestInv'
    <2>1. /\ rows' = rows \union New(r) /\ Linked(r, {a.id : a \in New(r)})
          /\ removed' = removed /\ contested' = contested
        BY <1>3 DEF Insert, New
    <2>2. \A a \in New(r) : a.id \notin removed
        BY <1>0, NewRows
    <2> QED
        BY <2>1, <2>2, LinkedDesk, BlankDesk DEF ContestInv, UnenrolledStaysOut
<1>4. ASSUME NEW r \in Requests, SaveUpdate(r)
      PROVE  ContestInv'
    <2> DEFINE d == desk[r].row
    <2>1. /\ rows' = {a \in rows : a.id # d.id} \union {d} /\ desk[r].phase = "found"
          /\ Linked(r, {d.id}) /\ removed' = removed /\ contested' = contested
        BY <1>4 DEF SaveUpdate
    <2> QED
        BY <2>1, LinkedDesk, BlankDesk DEF ContestInv, UnenrolledStaysOut
<1>5. ASSUME NEW r \in Requests, RemoveTerm(r)
      PROVE  ContestInv'
    <2> DEFINE i == desk[r].row.termId
               cut(a) == IF a.termId = i THEN [a EXCEPT !.termId = 0] ELSE a
    <2>1. /\ rows' = {cut(a) : a \in rows} /\ Become(r, Blank)
          /\ removed' = removed /\ contested' = contested
        BY <1>5 DEF RemoveTerm
    <2>2. \A a \in rows : cut(a).id = a.id
        BY <1>0 DEF EnrolRecords
    <2> HIDE DEF cut
    <2> QED
        BY <2>1, <2>2, BecomeDesk, BlankDesk DEF ContestInv, UnenrolledStaysOut
<1>6. ASSUME NEW r \in Requests, SaveTerm(r)
      PROVE  ContestInv'
    BY <1>6, BecomeDesk, BlankDesk DEF SaveTerm, ContestInv, UnenrolledStaysOut
<1>7. ASSUME NEW a \in rows, Unenrol(a)
      PROVE  ContestInv'
    <2>1. /\ rows' = {b \in rows : b.id # a.id} /\ removed' = removed \union {a.id}
          /\ contested' = contested \union
                {i \in {a.id} : \E r \in Requests : desk[r].phase = "found" /\ desk[r].row.id = i}
          /\ desk' = desk
        BY <1>7 DEF Unenrol
    <2> QED
        BY <2>1 DEF ContestInv, UnenrolledStaysOut
<1>8. ASSUME NEW k \in Terms, CreateTerm(k)
      PROVE  ContestInv'
    BY <1>8 DEF CreateTerm, ContestInv, UnenrolledStaysOut
<1> QED
    BY <1>1, <1>2, <1>3, <1>4, <1>5, <1>6, <1>7, <1>8, Steps

\* An enrolment deleted by unenrolStudent comes back only through an updateEnrolment
\* that had loaded it at that moment.
THEOREM UnenrolledStaysDeleted == Spec => []UnenrolledStaysOut
<1>1. TInv /\ ContestInv => UnenrolledStaysOut
    BY DEF ContestInv
<1> QED
    BY InitTInv, NextTInv, InitContest, NextContest, <1>1, PTL DEF Spec

-----------------------------------------------------------------------------
(* Which term an id names                                                  *)

LEMMA InitLink == Init => LinkInv
<1> SUFFICES ASSUME Init PROVE LinkInv
    OBVIOUS
<1>1. \A i \in Nat \ {0}, k \in Terms : ~Claim(i, k)
    BY BlankDesk DEF Init, Claim
<1> QED
    BY <1>1 DEF Init, LinkInv, LinkAgreesWithTerm

\* No id is issued, and nobody says of one what nobody said before.
LEMMA ClaimsStay ==
    ASSUME LinkInv, LinkAgreesWithTerm',
           \A i \in Nat \ {0} : \A k \in Terms : Claim(i, k)' => Claim(i, k)
    PROVE  LinkInv'
BY DEF LinkInv

LEMMA NextLink == TInv /\ LinkInv /\ [Next]_vars => LinkInv'
<1> SUFFICES ASSUME TInv, LinkInv, [Next]_vars PROVE LinkInv'
    OBVIOUS
<1>0. /\ terms \in [Terms -> Nat] /\ lastTermId \in Nat
      /\ \A k \in Terms : terms[k] <= lastTermId
      /\ rows \subseteq EnrolRecords
      /\ \A r \in Requests : desk[r] \in DeskRecords /\ DeskType(desk[r], lastId, lastTermId)
    BY DEF TInv, TypeOK, DeskType
<1>1. CASE UNCHANGED vars
    <2>1. LinkAgreesWithTerm'
        BY <1>1 DEF vars, LinkInv, LinkAgreesWithTerm
    <2>2. \A i \in Nat \ {0} : \A k \in Terms : Claim(i, k)' => Claim(i, k)
        BY <1>1 DEF vars, Claim
    <2> QED
        BY <2>1, <2>2, ClaimsStay
<1>2. ASSUME NEW r \in Requests, NEW d \in DeskRecords, Read(r, d)
      PROVE  LinkInv'
    <2>1. LinkAgreesWithTerm'
        BY <1>2 DEF Read, LinkInv, LinkAgreesWithTerm
    <2>2. Become(r, d) /\ UNCHANGED <<terms, rows>>
        BY <1>2 DEF Read
    <2>3. ASSUME NEW i \in Nat \ {0}, NEW k \in Terms, Claim(i, k)'
          PROVE  Claim(i, k)
        <3>1. CASE d.row.termId = i /\ d.row.term = k
            BY <1>2, <3>1 DEF Read, Claim
        <3>2. CASE \E e \in d.batch : e.termId = i /\ e.term = k
            BY <1>2, <3>2 DEF Read, Claim
        <3>3. CASE \/ terms[k] = i
                   \/ \E a \in rows : a.termId = i /\ a.term = k
                   \/ \E q \in Requests \ {r} : desk[q].row.termId = i /\ desk[q].row.term = k
                   \/ \E q \in Requests \ {r} : \E e \in desk[q].batch :
                         e.termId = i /\ e.term = k
            BY <3>3 DEF Claim
        <3> QED
            BY <2>2, <2>3, <3>1, <3>2, <3>3, BecomeDesk DEF Claim
    <2> QED
        BY <2>1, <2>3, ClaimsStay
<1>3. ASSUME NEW r \in Requests, Insert(r)
      PROVE  LinkInv'
    <2>1. /\ rows' = rows \union New(r) /\ Linked(r, {a.id : a \in New(r)})
          /\ terms' = terms /\ \A a \in New(r) : a.termId \in TermIds
        BY <1>3 DEF Insert, New
    <2>2. \A a \in New(r) : \E e \in desk[r].batch : a.termId = e.termId /\ a.term = e.term
        BY <1>0 DEF New, EnrolRecords, DeskRecords
    <2>3. \A a \in New(r) : Claim(a.termId, a.term)
        BY <2>2 DEF Claim
    <2>4. \A i \in Nat \ {0} : \A k \in Terms : Claim(i, k)' => Claim(i, k)
        BY <2>1, <2>3, LinkedDesk, BlankDesk DEF Claim
    <2>5. ASSUME NEW a \in New(r)
          PROVE  terms[a.term] = a.termId
        <3>1. PICK k \in Terms : terms[k] = a.termId /\ a.termId # 0
            BY <2>1 DEF TermIds
        <3>2. Claim(a.termId, k) /\ Claim(a.termId, a.term)
            BY <2>3, <3>1 DEF Claim
        <3>3. a.term \in Terms /\ a.termId \in Nat
            BY NewRows DEF EnrolRecords
        <3> QED
            BY <3>1, <3>2, <3>3 DEF LinkInv
    <2>6. LinkAgreesWithTerm'
        BY <2>1, <2>5 DEF LinkInv, LinkAgreesWithTerm
    <2> QED
        BY <2>4, <2>6, ClaimsStay
<1>4. ASSUME NEW r \in Requests, SaveUpdate(r)
      PROVE  LinkInv'
    <2> DEFINE d == desk[r].row
    <2>1. /\ rows' = {a \in rows : a.id # d.id} \union {d}
          /\ Linked(r, {d.id}) /\ terms' = terms /\ d.termId \in TermIds
          /\ desk[r].phase = "found"
        BY <1>4 DEF SaveUpdate
    <2>2. d.termId \in Nat \ {0} /\ d.term \in Terms
        BY <1>0, <2>1 DEF DeskType, EnrolRecords
    <2>3. Claim(d.termId, d.term)
        BY DEF Claim
    <2>4. PICK k \in Terms : terms[k] = d.termId
        BY <2>1 DEF TermIds
    <2>5. Claim(d.termId, k)
        BY <2>4 DEF Claim
    <2>6. terms[d.term] = d.termId
        BY <2>2, <2>3, <2>4, <2>5 DEF LinkInv
    <2> HIDE DEF d
    <2>7. \A i \in Nat \ {0} : \A l \in Terms : Claim(i, l)' => Claim(i, l)
        BY <2>1, <2>3, LinkedDesk, BlankDesk DEF Claim
    <2>8. LinkAgreesWithTerm'
        BY <2>1, <2>6 DEF LinkInv, LinkAgreesWithTerm
    <2> QED
        BY <2>7, <2>8, ClaimsStay
<1>5. ASSUME NEW r \in Requests, RemoveTerm(r)
      PROVE  LinkInv'
    <2> DEFINE i == desk[r].row.termId
               cut(a) == IF a.termId = i THEN [a EXCEPT !.termId = 0] ELSE a
    <2>1. /\ rows' = {cut(a) : a \in rows} /\ Become(r, Blank)
          /\ terms' = [k \in Terms |-> IF terms[k] = i THEN 0 ELSE terms[k]]
        BY <1>5 DEF RemoveTerm
    <2>2. \A a \in rows : /\ cut(a).term = a.term /\ a.term \in Terms
                          /\ cut(a).termId = IF a.termId = i THEN 0 ELSE a.termId
        BY <1>0 DEF EnrolRecords
    <2> HIDE DEF cut
    <2>3. \A b \in rows' : \E a \in rows : b = cut(a)
        BY <2>1
    <2>4. ASSUME NEW b \in rows', b.termId # 0
          PROVE  terms'[b.term] = b.termId
        <3>1. PICK a \in rows : b = cut(a)
            BY <2>3
        <3> QED
            BY <2>1, <2>2, <2>4, <3>1 DEF LinkInv, LinkAgreesWithTerm
    <2>5. LinkAgreesWithTerm'
        BY <2>4 DEF LinkAgreesWithTerm
    <2>6. ASSUME NEW j \in Nat \ {0}, NEW k \in Terms, Claim(j, k)'
          PROVE  Claim(j, k)
        <3>1. terms'[k] = j => terms[k] = j
            BY <2>1
        <3>2. (\E b \in rows' : b.termId = j /\ b.term = k)
                 => \E a \in rows : a.termId = j /\ a.term = k
            BY <2>2, <2>3
        <3> QED
            BY <2>1, <2>6, <3>1, <3>2, BecomeDesk, BlankDesk DEF Claim
    <2> QED
        BY <2>5, <2>6, ClaimsStay
<1>6. ASSUME NEW r \in Requests, SaveTerm(r)
      PROVE  LinkInv'
    <2> DEFINE d == desk[r].row
    <2>1. /\ terms[d.term] \in {0, d.termId} /\ terms' = [terms EXCEPT ![d.term] = d.termId]
          /\ Become(r, Blank) /\ rows' = rows /\ desk[r].phase = "editing"
        BY <1>6 DEF SaveTerm
    <2>2. \A a \in rows : a.term \in Terms
        BY <1>0 DEF EnrolRecords
    <2>3. LinkAgreesWithTerm'
        BY <1>0, <2>1, <2>2 DEF LinkInv, LinkAgreesWithTerm
    <2>4. Claim(d.termId, d.term)
        BY DEF Claim
    <2>5. \A j \in Nat \ {0} : \A k \in Terms : Claim(j, k)' => Claim(j, k)
        BY <1>0, <2>1, <2>4, BecomeDesk, BlankDesk DEF Claim
    <2> QED
        BY <2>3, <2>5, ClaimsStay
<1>7. ASSUME NEW a \in rows, Unenrol(a)
      PROVE  LinkInv'
    <2>1. /\ rows' \subseteq rows /\ UNCHANGED <<terms, desk>>
        BY <1>7 DEF Unenrol
    <2>2. LinkAgreesWithTerm'
        BY <2>1 DEF LinkInv, LinkAgreesWithTerm
    <2>3. \A i \in Nat \ {0} : \A k \in Terms : Claim(i, k)' => Claim(i, k)
        BY <2>1 DEF Claim
    <2> QED
        BY <2>2, <2>3, ClaimsStay
<1>8. ASSUME NEW k \in Terms, CreateTerm(k)
      PROVE  LinkInv'
    <2>1. /\ terms[k] = 0 /\ terms' = [terms EXCEPT ![k] = lastTermId + 1]
          /\ UNCHANGED <<rows, desk>>
        BY <1>8 DEF CreateTerm
    <2>2. \A a \in rows : a.term \in Terms
        BY <1>0 DEF EnrolRecords
    <2>3. LinkAgreesWithTerm'
        BY <1>0, <2>1, <2>2 DEF LinkInv, LinkAgreesWithTerm
    <2>4. ASSUME NEW i \in Nat \ {0}, NEW l \in Terms, Claim(i, l)'
          PROVE  IF i = lastTermId + 1 THEN l = k ELSE Claim(i, l)
        <3>1. \A a \in rows : a.termId # 0 => a.termId <= lastTermId
            BY <1>0, <2>2 DEF LinkInv, LinkAgreesWithTerm
        <3>2. \A r \in Requests : desk[r].row.termId <= lastTermId
            BY <1>0 DEF DeskType
        <3>3. \A r \in Requests : \A e \in desk[r].batch : e.termId <= lastTermId
            BY <1>0 DEF DeskType
        <3>4. \A r \in Requests : desk[r].row.termId \in Nat
            BY <1>0 DEF DeskRecords, PartialRecords
        <3>5. CASE i = lastTermId + 1
            <4>1. terms'[l] = i
                BY <1>0, <2>1, <2>4, <3>1, <3>2, <3>3, <3>5 DEF Claim
            <4> QED
                BY <1>0, <2>1, <3>5, <4>1
        <3>6. CASE i # lastTermId + 1
            BY <1>0, <2>1, <2>4, <3>6 DEF Claim
        <3> QED
            BY <3>5, <3>6
    <2> QED
        BY <2>3, <2>4 DEF LinkInv
<1> QED
    BY <1>1, <1>2, <1>3, <1>4, <1>5, <1>6, <1>7, <1>8, Steps

\* An enrolment that has a term has the one its copies of number and year name,
\* through any overlap of updates, edits, deletions and re-creations of terms.
THEOREM LinkNamesTerm == Spec => []LinkAgreesWithTerm
<1>1. TInv /\ LinkInv => LinkAgreesWithTerm
    BY DEF LinkInv
<1> QED
    BY InitTInv, NextTInv, InitLink, NextLink, <1>1, PTL DEF Spec

-----------------------------------------------------------------------------
(* What a check has ruled out                                              *)

GuardDesk(d) ==
    /\ \A a \in rows, e \in d.batch : Conflict(a, e) => Clear(a, e)
    /\ d.phase = "checking" => ~d.row.migrated
    /\ d.phase = "compared" =>
          \A a \in rows : a.term = d.row.term /\ a.student \in d.movers => Clear(a, d.row)
    /\ d.phase = "found" =>
          /\ \A a \in rows : Guarded(a, d.row)
          /\ d.row.id \in removed \/ \E a \in rows : Kin(a, d.row)

LEMMA GuardParts ==
    GuardInv <=> /\ \A a, b \in rows : Guarded(a, b)
                 /\ \A r \in Requests : GuardDesk(desk[r])
BY DEF GuardInv, GuardDesk

\* Rows change their links only, or go for good, or are new and later than every
\* check: what the checks ruled out stays ruled out.
LEMMA GuardStays ==
    ASSUME NEW d, GuardDesk(d), removed \subseteq removed',
           d.row.id \in Int, d.row.seen \in Int, d.row.seen <= lastId,
           d.phase = "found" => d.row.id <= lastId,
           lastId \in Int,
           \A e \in d.batch : e.seen \in Int /\ e.seen <= lastId,
           \A b \in rows' : (\E a \in rows : Kin(a, b)) \/ b.id \in removed \/ b.id > lastId,
           \A b \in rows' : b.id \in Int,
           \A a \in rows : a.id \in removed' \/ \E b \in rows' : Kin(b, a)
    PROVE  GuardDesk(d)'
<1>1. ASSUME NEW b \in rows', NEW e, e.seen \in Int, e.seen <= lastId,
             \A a \in rows : Conflict(a, e) => Clear(a, e), Conflict(b, e)
      PROVE  Clear(b, e)'
    BY <1>1 DEF Conflict, Clear, Kin
<1>2. \A b \in rows', e \in d.batch : Conflict(b, e) => Clear(b, e)'
    BY <1>1 DEF GuardDesk
<1>3. ASSUME d.phase = "compared", NEW b \in rows', b.term = d.row.term,
             b.student \in d.movers
      PROVE  Clear(b, d.row)'
    BY <1>3 DEF GuardDesk, Clear, Kin
<1>4. ASSUME d.phase = "found", NEW b \in rows', b.id < d.row.id, Conflict(b, d.row)
      PROVE  Clear(b, d.row)'
    <2>1. CASE \E a \in rows : Kin(a, b)
        BY <1>4, <2>1 DEF GuardDesk, Guarded, Clear, Kin, Conflict
    <2>2. CASE b.id \in removed
        BY <2>2 DEF Clear
    <2>3. CASE b.id > lastId
        BY <1>4, <2>3
    <2> QED
        BY <2>1, <2>2, <2>3
<1>5. ASSUME d.phase = "found"
      PROVE  d.row.id \in removed' \/ \E a \in rows' : Kin(a, d.row)
    BY <1>5 DEF GuardDesk, Kin
<1> QED
    BY <1>2, <1>3, <1>4, <1>5 DEF GuardDesk, Guarded, Conflict, Kin

LEMMA InitGuard == Init => GuardInv
BY BlankDesk DEF Init, GuardInv

LEMMA NextGuard == TInv /\ GuardInv /\ [Next]_vars => GuardInv'
<1> SUFFICES ASSUME TInv, GuardInv, [Next]_vars PROVE GuardInv'
    OBVIOUS
<1>0. /\ rows \subseteq EnrolRecords /\ lastId \in Nat /\ removed \subseteq 1..lastId
      /\ \A a, b \in rows : a.id = b.id => a = b
      /\ \A a \in rows : a.id \in 1..lastId /\ a.seen \in Nat /\ a.seen <= lastId
      /\ \A r \in Requests : desk[r] \in DeskRecords /\ DeskType(desk[r], lastId, lastTermId)
    BY DEF TInv, TypeOK, DeskType, EnrolRecords
<1>a. /\ \A a, b \in rows : Guarded(a, b)
      /\ \A r \in Requests : GuardDesk(desk[r])
    BY GuardParts
<1>b. \A r \in Requests :
         /\ desk[r].row.id \in Int /\ desk[r].row.seen \in Int /\ desk[r].row.seen <= lastId
         /\ desk[r].phase = "found" => desk[r].row.id \in 1..lastId
         /\ \A e \in desk[r].batch : e.seen \in Int /\ e.seen <= lastId
    BY <1>0 DEF DeskType, DeskRecords, PartialRecords, EnrolRecords
<1>c. GuardDesk(Blank)'
    BY BlankDesk DEF GuardDesk
<1>d. ASSUME NEW q \in Requests, removed \subseteq removed',
             desk'[q].phase = desk[q].phase, desk'[q].row = desk[q].row,
             desk'[q].batch = desk[q].batch, desk'[q].movers = desk[q].movers,
             \A b \in rows' : (\E a \in rows : Kin(a, b)) \/ b.id \in removed \/ b.id > lastId,
             \A b \in rows' : b.id \in Int,
             \A a \in rows : a.id \in removed' \/ \E b \in rows' : Kin(b, a)
      PROVE  GuardDesk(desk[q])'
    <2>1. PICK d \in DeskRecords : d = desk[q]
        BY <1>0
    <2>2. GuardDesk(d)'
        BY <1>0, <1>a, <1>b, <1>d, <2>1, GuardStays
    <2> QED
        BY <1>d, <2>1, <2>2 DEF GuardDesk
<1>e. \A a : Kin(a, a)
    BY DEF Kin
<1>1. CASE UNCHANGED vars
    BY <1>1 DEF vars, GuardInv, Guarded, Conflict, Clear, Kin
<1>2. ASSUME NEW r \in Requests, NEW d \in DeskRecords, Read(r, d)
      PROVE  GuardInv'
    <2>1. Become(r, d) /\ UNCHANGED <<rows, removed>>
        BY <1>2 DEF Read
    <2>2. ASSUME NEW a \in rows, NEW e \in d.batch, Conflict(a, e)
          PROVE  Clear(a, e)
        <3>1. CASE e \in desk[r].batch
            BY <1>a, <2>2, <3>1 DEF GuardDesk
        <3>2. CASE /\ desk[r].phase = "checking" /\ e.migrated = desk[r].row.migrated
                   /\ \A c \in rows : ~Same(c, e.name, e.term, e.student)
            BY <1>a, <2>2, <3>2 DEF GuardDesk, Conflict, Same
        <3>3. CASE /\ desk[r].phase = "compared" /\ e.term = desk[r].row.term
                   /\ e.student \in desk[r].movers /\ e.seen = desk[r].row.seen
            BY <1>a, <2>2, <3>3 DEF GuardDesk, Conflict, Clear
        <3> QED
            BY <1>2, <3>1, <3>2, <3>3 DEF Read
    <2>3. ASSUME d.phase = "found"
          PROVE  /\ \A a \in rows : Guarded(a, d.row)
                 /\ \E a \in rows : Kin(a, d.row)
        BY <1>2, <1>a, <2>3 DEF Read, Kin, Guarded, Conflict, Clear
    <2>4. GuardDesk(d)
        BY <1>2, <2>2, <2>3 DEF Read, GuardDesk
    <2>5. \A q \in Requests : GuardDesk(desk[q])'
        <3>1. ASSUME NEW q \in Requests
              PROVE  GuardDesk(desk'[q])
            BY <1>a, <2>1, <2>4, BecomeDesk
        <3> QED
            BY <2>1, <3>1 DEF GuardDesk, Guarded, Conflict, Clear, Kin
    <2>6. \A a, b \in rows' : Guarded(a, b)'
        BY <1>a, <2>1 DEF Guarded, Conflict, Clear
    <2> QED
        BY <2>5, <2>6 DEF GuardInv, GuardDesk
<1>3. ASSUME NEW r \in Requests, Insert(r)
      PROVE  GuardInv'
    <2>1. /\ rows' = rows \union New(r) /\ Linked(r, {a.id : a \in New(r)})
          /\ removed' = removed
        BY <1>3 DEF Insert, New
    <2>2. \A a \in New(r) : a.id \in Int /\ a.id > lastId /\ a.seen \in Nat /\ a.seen <= lastId
        BY NewRows DEF EnrolRecords
    <2>3. \A q \in Requests \ {r} : GuardDesk(desk[q])'
        BY <1>0, <1>d, <1>e, <2>1, <2>2, LinkedDesk
    <2>4. GuardDesk(desk[r])'
        <3>1. desk'[r] = Blank
            BY <2>1, LinkedDesk
        <3> QED
            BY <3>1, BlankDesk DEF GuardDesk
    <2>5. ASSUME NEW a \in rows, NEW b \in New(r), Conflict(a, b)
          PROVE  Clear(a, b)
        <3>1. PICK e \in desk[r].batch : b = [e EXCEPT !.id = lastId + e.id]
            BY DEF New
        <3>2. e \in EnrolRecords
            BY <1>0 DEF DeskRecords
        <3>3. /\ b.name = e.name /\ b.term = e.term /\ b.student = e.student
              /\ b.seen = e.seen /\ b.migrated = e.migrated
            BY <3>1, <3>2 DEF EnrolRecords
        <3> QED
            BY <1>a, <2>5, <3>3 DEF GuardDesk, Conflict, Clear
    <2>6. ASSUME NEW a \in New(r), NEW b \in rows'
          PROVE  Guarded(a, b)
        BY <1>0, <2>1, <2>2 DEF Guarded, Clear
    <2>7. \A a, b \in rows' : Guarded(a, b)
        BY <1>a, <2>1, <2>5, <2>6 DEF Guarded
    <2>8. \A a, b \in rows' : Guarded(a, b)'
        BY <2>1, <2>7 DEF Guarded, Clear
    <2> QED
        BY <2>3, <2>4, <2>8 DEF GuardInv, GuardDesk
<1>4. ASSUME NEW r \in Requests, SaveUpdate(r)
      PROVE  GuardInv'
    <2>1. PICK d \in PartialRecords : d = desk[r].row
        BY <1>0 DEF DeskRecords
    <2>2. /\ rows' = {a \in rows : a.id # d.id} \union {d}
          /\ Linked(r, {d.id}) /\ removed' = removed /\ desk[r].phase = "found"
        BY <1>4, <2>1 DEF SaveUpdate
    <2>3. /\ d.id \in removed \/ \E a \in rows : Kin(a, d)
          /\ \A a \in rows : Guarded(a, d)
          /\ d.id \in 1..lastId
        BY <1>a, <1>b, <2>1, <2>2 DEF GuardDesk
    <2>4. ASSUME NEW a \in rows, a.id \notin removed'
          PROVE  \E b \in rows' : Kin(b, a)
        <3>1. CASE a.id # d.id
            BY <1>e, <2>2, <3>1
        <3>2. CASE a.id = d.id
            <4>1. PICK c \in rows : Kin(c, d)
                BY <2>2, <2>3, <2>4, <3>2
            <4>2. c = a
                BY <1>0, <3>2, <4>1 DEF Kin
            <4> QED
                BY <2>2, <4>1, <4>2 DEF Kin
        <3> QED
            BY <3>1, <3>2
    <2>5. \A b \in rows' : (\E a \in rows : Kin(a, b)) \/ b.id \in removed \/ b.id > lastId
        BY <1>e, <2>2, <2>3
    <2>6. \A b \in rows' : b.id \in Int
        BY <1>0, <2>2, <2>3
    <2>7. \A q \in Requests \ {r} : GuardDesk(desk[q])'
        BY <1>d, <2>2, <2>4, <2>5, <2>6, LinkedDesk
    <2>8. GuardDesk(desk[r])'
        <3>1. desk'[r] = Blank
            BY <2>2, LinkedDesk
        <3> QED
            BY <3>1, BlankDesk DEF GuardDesk
    <2>9. \A b \in rows : Guarded(d, b)
        BY <1>a, <2>3 DEF Guarded, Conflict, Clear, Kin
    <2>10. Guarded(d, d)
        BY <2>3 DEF Guarded
    <2>11. \A a, b \in rows' : Guarded(a, b)'
        BY <1>a, <2>2, <2>3, <2>9, <2>10 DEF Guarded, Clear
    <2> QED
        BY <2>7, <2>8, <2>11 DEF GuardInv, GuardDesk
<1>5. ASSUME NEW r \in Requests, RemoveTerm(r)
      PROVE  GuardInv'
    <2> DEFINE i == desk[r].row.termId
               cut(a) == IF a.termId = i THEN [a EXCEPT !.termId = 0] ELSE a
    <2>1. rows' = {cut(a) : a \in rows} /\ Become(r, Blank) /\ removed' = removed
        BY <1>5 DEF RemoveTerm
    <2>2. \A a \in rows : Kin(a, cut(a)) /\ Kin(cut(a), a)
        BY <1>0 DEF EnrolRecords, Kin
    <2> HIDE DEF cut
    <2>3. /\ \A b \in rows' : \E a \in rows : Kin(a, b)
          /\ \A a \in rows : \E b \in rows' : Kin(b, a)
        BY <2>1, <2>2
    <2>4. \A b \in rows' : b.id \in Int
        BY <1>0, <2>3 DEF Kin
    <2>5. \A q \in Requests \ {r} : GuardDesk(desk[q])'
        BY <1>d, <2>1, <2>3, <2>4, BecomeDesk
    <2>6. GuardDesk(desk[r])'
        <3>1. desk'[r] = Blank
            BY <2>1, BecomeDesk
        <3> QED
            BY <3>1, BlankDesk DEF GuardDesk
    <2>7. ASSUME NEW x \in rows', NEW y \in rows'
          PROVE  Guarded(x, y)'
        <3>1. PICK a \in rows, b \in rows : Kin(a, x) /\ Kin(b, y)
            BY <2>3
        <3>2. Guarded(a, b)
            BY <1>a
        <3> QED
            BY <2>1, <3>1, <3>2 DEF Guarded, Conflict, Clear, Kin
    <2> QED
        BY <2>5, <2>6, <2>7 DEF GuardInv, GuardDesk
<1>6. ASSUME NEW r \in Requests, SaveTerm(r)
      PROVE  GuardInv'
    <2>1. Become(r, Blank) /\ UNCHANGED <<rows, removed>>
        BY <1>6 DEF SaveTerm
    <2>2. \A q \in Requests \ {r} : GuardDesk(desk[q])'
        BY <1>0, <1>d, <1>e, <2>1, BecomeDesk
    <2>3. GuardDesk(desk[r])'
        <3>1. desk'[r] = Blank
            BY <2>1, BecomeDesk
        <3> QED
            BY <3>1, BlankDesk DEF GuardDesk
    <2>4. \A a, b \in rows' : Guarded(a, b)'
        BY <1>a, <2>1 DEF Guarded, Conflict, Clear
    <2> QED
        BY <2>2, <2>3, <2>4 DEF GuardInv, GuardDesk
<1>7. ASSUME NEW c \in rows, Unenrol(c)
      PROVE  GuardInv'
    <2>1. /\ rows' = {b \in rows : b.id # c.id} /\ removed' = removed \union {c.id}
          /\ desk' = desk
        BY <1>7 DEF Unenrol
    <2>2. \A q \in Requests : GuardDesk(desk[q])'
        BY <1>0, <1>d, <1>e, <2>1
    <2>3. \A a, b \in rows' : Guarded(a, b)'
        BY <1>a, <2>1 DEF Guarded, Conflict, Clear
    <2> QED
        BY <2>2, <2>3 DEF GuardInv, GuardDesk
<1>8. ASSUME NEW k \in Terms, CreateTerm(k)
      PROVE  GuardInv'
    BY <1>8 DEF CreateTerm, GuardInv, Guarded, Conflict, Clear, Kin
<1> QED
    BY <1>1, <1>2, <1>3, <1>4, <1>5, <1>6, <1>7, <1>8, Steps

\* A student is twice in a class only if the check that let in the later enrolment
\* ran before the earlier one was saved, or an update brought the earlier one back.
THEOREM TwiceOnlyByOverlap == Spec => []EnrolledTwiceOnlyByOverlap
<1>1. TInv /\ GuardInv => EnrolledTwiceOnlyByOverlap
    BY DEF GuardInv, Guarded, Conflict, Clear, Same, EnrolledTwiceOnlyByOverlap
<1> QED
    BY InitTInv, NextTInv, InitGuard, NextGuard, <1>1, PTL DEF Spec

\* migrateClass adds nobody to a second class of the destination term, but for those
\* saved after it looked; for any number of students moved at a time.
THEOREM MigratedOnce == Spec => []MigratedIntoOneClass
<1>1. TInv /\ GuardInv => MigratedIntoOneClass
    BY DEF GuardInv, Guarded, Conflict, Clear, MigratedIntoOneClass
<1> QED
    BY InitTInv, NextTInv, InitGuard, NextGuard, <1>1, PTL DEF Spec

\* The checks of enrolling and of migrating together.
THEOREM StaysPlacedOnce == Spec => []PlacedOnce
<1>1. EnrolledTwiceOnlyByOverlap /\ MigratedIntoOneClass => PlacedOnce
    BY DEF PlacedOnce
<1> QED
    BY <1>1, TwiceOnlyByOverlap, MigratedOnce, PTL

\* The link of an enrolment to its term: present, and the right one.
THEOREM TermLinksStaySound == Spec => []TermLinksSound
<1>1. LinkAgreesWithTerm /\ OrphansOnlyByRace => TermLinksSound
    BY DEF TermLinksSound
<1> QED
    BY <1>1, LinkNamesTerm, OrphansRaced, PTL
=============================================================================
