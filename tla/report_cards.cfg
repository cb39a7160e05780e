SPECIFICATION Spec
CONSTANTS
    Requests = {r1, r2}
    Students = {s1, s2}
    Subjects = {u1}
    Scores = {0, 1, 2}
    None = None
    MaxEnrolled = 2
    MaxMarks = 2
    MaxSaves = 3
SYMMETRY SchoolSymmetry
CONSTRAINT Bounded
INVARIANTS
    TypeOK
    CopiedOnlyByOverlap
    ShownIsFair
PROPERTY
    NotesLostOnlyByStaleDraft
CHECK_DEADLOCK FALSE
