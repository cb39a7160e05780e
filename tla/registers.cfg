SPECIFICATION RegSpec
CONSTANTS
    r1 = r1
    r2 = r2
    s1 = s1
    s2 = s2
    Calls = {r1, r2}
    Pupils = {s1, s2}
    Days = {7, 8, 10}
    Topics = {topic}
    Subjects = {maths, science}
    NoSubject = none
    Scores = {4, 8}
    MaxMarks = 3
    MaxEntries = 2
SYMMETRY RegisterSymmetry
CONSTRAINT Bounded
INVARIANTS
    RegTypeOK
    EnteredTwiceOnlyByOverlap
    ReportAddsUp
CHECK_DEADLOCK FALSE
