---------------------------- MODULE MCEnrolment ----------------------------
EXTENDS Enrolment, TLC

CONSTANTS
    MaxChanges,    \* enrolments inserted, about to be inserted, and removed
    MaxTermId      \* terms created

SchoolSymmetry ==
    Permutations(Requests) \union Permutations(Students) \union Permutations(Classes)
        \union Permutations(Terms)

Bounded ==
    /\ \A r, q \in Requests :
          r # q => lastId + desk[r].size + desk[q].size + Cardinality(removed) <= MaxChanges
    /\ lastTermId <= MaxTermId
=============================================================================
