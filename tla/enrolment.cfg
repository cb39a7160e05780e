SPECIFICATION Spec
CONSTANTS
    Requests = {r1, r2}
    Students = {s1}
    Classes = {n1, n2}
    Terms = {k1, k2}
    None = None
    MaxBatch = 2
    MaxChanges = 3
    MaxTermId = 2
SYMMETRY SchoolSymmetry
CONSTRAINT Bounded
INVARIANTS
    TypeOK
    PlacedOnce
    TermLinksSound
    UnenrolledStaysOut
CHECK_DEADLOCK FALSE
