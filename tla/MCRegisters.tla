---------------------------- MODULE MCRegisters ----------------------------
EXTENDS Registers, TLC

CONSTANTS
    r1, r2, s1, s2,
    MaxMarks,      \* rows of attendance
    MaxEntries     \* rows of assessment

RegisterSymmetry == Permutations({r1, r2}) \union Permutations({s1, s2})

Busy == {r \in Calls : work[r].phase # "idle"}

\* A behaviour is about one of the registers, which share nothing but who is enrolled, and
\* assesses one pupil; requests overlap about one key, as others do not meet.
Bounded ==
    /\ Cardinality(attendance) <= MaxMarks
    /\ Cardinality(assessments) <= MaxEntries
    /\ \A q, r \in Busy : work[q].key = work[r].key
    /\ \/ assessments = {} /\ \A r \in Busy : work[r].phase = "marking"
       \/ attendance = {} /\ \A r \in Busy : work[r].phase = "assessing"
    /\ Cardinality({e.student : e \in assessments} \union {work[r].key[1] : r \in Busy}) <= 1
          \/ assessments = {}
=============================================================================
