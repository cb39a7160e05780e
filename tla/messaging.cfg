SPECIFICATION Spec
CONSTANTS
    Users = {"t", "a", "p"}
    Role <- MCRole
    Active = {"t", "a", "p"}
    Classes = {7}
    NoClass = 0
    Pupils <- MCPupils
    Convs = {c1, c2}
    Msgs = {m1, m2}
    m1 = m1
    c1 = c1
    Earlier <- MCEarlier
    Requests = {r1, r2}
    MaxClock = 3
    Sockets = {s1}
    NoUser = none
    Invitations <- MCInvitations
CONSTRAINT SocketsFirst
SYMMETRY RequestSymmetry
INVARIANTS
    TypeOK
    ConversationsSound
    RoomsSound
PROPERTY ChangesStand
CHECK_DEADLOCK FALSE
