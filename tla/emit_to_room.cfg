SPECIFICATION Spec
CONSTANTS
    Users = {"t", "a", "p"}
    Role <- MCRole
    Active = {"t", "a", "p"}
    Classes = {7}
    NoClass = 0
    Pupils <- MCPupils
    Convs = {c1, c2}
    Msgs = {m1, m2}
    m1 = m1
    c1 = c1
    Earlier <- MCEarlier
    Requests = {r1, r2}
    MaxClock = 2
    Sockets = {s1}
    NoUser = none
    Invitations <- MCInvitations
CONSTRAINT SocketsFirst
SYMMETRY RequestSymmetry
PROPERTY EmitReachesParticipants
CHECK_DEADLOCK FALSE
