---------------------------- MODULE MCAdmissions ----------------------------
EXTENDS Admissions, FiniteSets, TLC

CONSTANTS
    MaxApplications,   \* applications received
    MaxRegistrations,  \* names given to students
    MaxRows,           \* both together
    MaxRemoved,        \* students deleted
    MaxLoose,          \* applications, or the reception, excused
    p1, p2, n1, n2

OfficeSymmetry == Permutations(Calls)

TheirNames == [p \in People |-> IF p = p1 THEN n1 ELSE n2]

\* The students of earlier in the month stay as they are.
Bounded ==
    /\ Len(applications) <= MaxApplications
    /\ lastSeq <= MaxRegistrations
    /\ Len(applications) + lastSeq <= MaxRows
    /\ Cardinality(deleted) <= MaxRemoved
    /\ deleted \intersect (0..(Before - 1)) = {}
    /\ Cardinality(loose) <= MaxLoose
    /\ \A r \in Calls : work[r].phase = "updating" => work[r].student.person # Nobody
=============================================================================
