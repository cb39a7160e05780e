SPECIFICATION DeskSpec
CONSTANTS
    Clerks = {c1, c2}
    Students = {s1}
    Amounts = {x1}
    Window = 2
    YearLength = 3
    MaxId = 4
    MaxTime = 3
SYMMETRY ClerkSymmetry
CONSTRAINT Bounded
INVARIANTS
    DeskTypeOK
    DuplicatesOnlyByOverlap
    NumbersInOrder
CHECK_DEADLOCK FALSE
