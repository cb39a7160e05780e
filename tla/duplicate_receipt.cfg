SPECIFICATION DeskSpec
CONSTANTS
    Clerks = {c1, c2}
    Students = {s1}
    Amounts = {x1}
    Window = 2
    YearLength = 3
    MaxId = 2
    MaxTime = 3
CONSTRAINT Bounded
INVARIANT NoDuplicateReceipts
CHECK_DEADLOCK FALSE
