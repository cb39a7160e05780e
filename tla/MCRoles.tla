------------------------------ MODULE MCRoles ------------------------------
EXTENDS Roles, TLC

CONSTANTS
    MaxRole,           \* roles, permissions and logins given out
    MaxPermission,
    MaxLogin

OfficeSymmetry == Permutations(Requests) \union Permutations(Accounts)

\* Every system role starts with every permission of the constant.
EveryPermission == [n \in 1..NumSystem |-> 1..NumSeeded]

\* A role has the last name only by being renamed, while nobody changes permissions.  A
\* login changes while nobody changes names, of roles or of permissions.
Renamed == {x \in roles \union {desk[r].role : r \in Requests} : x.name = NumNames}

Bounded ==
    /\ lastRole <= MaxRole /\ lastPermission <= MaxPermission /\ lastLogin <= MaxLogin
    /\ \A x \in Renamed : x.id # 0
    /\ lastLogin > 1 => /\ Renamed = {}
                        /\ \A r \in Requests :
                               desk[r].phase \notin {"permission", "retitled", "unlisted"}
    /\ Renamed # {} => \A r \in Requests :
           desk[r].phase \notin {"permission", "retitled", "unlisted", "chosen", "seeding", "seeded"}
=============================================================================
