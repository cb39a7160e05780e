SPECIFICATION AdmSpec
CONSTANTS
    r1 = r1
    r2 = r2
    p1 = p1
    p2 = p2
    n1 = n1
    n2 = n2
    Nobody = Nobody
    NoName = NoName
    Calls = {r1, r2}
    People = {p1, p2}
    Names = {n1, n2}
    NameOf <- TheirNames
    Cautious = {p1}
    Reviews = {"accepted", "declined"}
    MaxRemoved = 1
    MaxLoose = 1
    MaxSeq = 1
    Lead = 0
    Before = 1
    MaxApplications = 2
    MaxRows = 3
    MaxRegistrations = 3
SYMMETRY OfficeSymmetry
CONSTRAINT Bounded
INVARIANTS
    AdmTypeOK
    SharedNameUnseen
    RegistrationAgrees
PROPERTY RowTakenOnlyByOverlap
CHECK_DEADLOCK FALSE
