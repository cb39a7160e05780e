------------------------------- MODULE Roles -------------------------------
(***************************************************************************)
(* Accounts, roles and permissions, as requests that overlap see them.     *)
(* Every service method loads rows with one query and saves them whole     *)
(* with a later one, outside any transaction; one step is one query and    *)
(* the code up to the next await.  `save' compares the loaded copy, its    *)
(* relations included, with the tables as they are then, and writes every  *)
(* difference; a row that is gone is inserted again.                       *)
(***************************************************************************)
EXTENDS Integers, FiniteSets

CONSTANTS
    Requests,          \* requests served at a time
    Accounts,          \* ids of the people an account can be opened for
    NumSystem,         \* names 1..NumSystem are those of the enum ROLES
    NumNames,          \* and those up to NumNames an administrator can give
    NumSeeded,         \* the same for permissions and the constant PERMISSIONS
    NumPermissionNames,
    DefaultGrants,     \* the table of seedRolePermissions
    None               \* no account

ASSUME NumAssumption ==
    /\ NumSystem \in Nat /\ NumNames \in Nat /\ NumSystem <= NumNames
    /\ NumSeeded \in Nat /\ NumPermissionNames \in Nat /\ NumSeeded <= NumPermissionNames
ASSUME DefaultAssumption == DefaultGrants \in [1..NumSystem -> SUBSET (1..NumSeeded)]
ASSUME NoneAssumption == None \notin Accounts

VARIABLES
    roles,             \* table roles
    lastRole,          \* the ids given out so far
    permissions,       \* table permissions
    lastPermission,
    grants,            \* table role_permissions: pairs <<roleId, permissionId>>
    accounts,          \* table accounts, NoAccount without a row
    lastLogin,
    desk               \* what each request has loaded and set so far

vars == <<roles, lastRole, permissions, lastPermission, grants, accounts, lastLogin, desk>>

\* Username and password are one column, `login', new at each change; roleId 0 is NULL.
\* The name of a permission stands for its other columns too.
NoAccount == [login |-> 0, roleId |-> 0, active |-> FALSE]
Columns == {"login", "roleId", "active"}

NoRole == [id |-> 0, name |-> 0, active |-> FALSE, system |-> FALSE]
NoPermission == [id |-> 0, name |-> 0]

\* `links' and `holders' are the loaded relations.  History: the columns (`missed') and
\* the grants (`late') others have changed since this request loaded or looked.
Blank ==
    [phase |-> "idle", role |-> NoRole, perm |-> NoPermission, links |-> {}, holders |-> {},
     account |-> None, row |-> NoAccount, missed |-> {}, late |-> {}]

\* The tables as the seeding of a first start leaves them.
Init ==
    /\ roles = {[id |-> n, name |-> n, active |-> TRUE, system |-> TRUE] : n \in 1..NumSystem}
    /\ lastRole = NumSystem
    /\ permissions = {[id |-> n, name |-> n] : n \in 1..NumSeeded}
    /\ lastPermission = NumSeeded
    /\ grants = {g \in (1..NumSystem) \X (1..NumSeeded) : g[2] \in DefaultGrants[g[1]]}
    /\ accounts = [a \in Accounts |-> NoAccount]
    /\ lastLogin = 0
    /\ desk = [r \in Requests |-> Blank]

RoleIds == {x.id : x \in roles}
PermissionIds == {p.id : p \in permissions}
LinksOf(id) == {g[2] : g \in {h \in grants : h[1] = id}}
RolesOf(id) == {g[1] : g \in {h \in grants : h[2] = id}}
HoldersOf(id) == {a \in Accounts : accounts[a].roleId = id}

Become(r, d) ==
    /\ desk' = [desk EXCEPT ![r] = d]
    /\ UNCHANGED <<roles, lastRole, permissions, lastPermission, grants, accounts, lastLogin>>

\* Request r has written `cells' (pairs of account and column) and the grants `pairs'.
Written(r, cells, pairs) ==
    desk' = [q \in Requests |->
                IF q = r THEN Blank
                ELSE IF desk[q].phase = "idle" THEN desk[q]
                ELSE [desk[q] EXCEPT
                         !.missed = @ \union {x \in cells : x[1] = desk[q].account
                                                 \/ (x[2] = "roleId" /\ desk[q].role.id # 0)},
                         !.late = @ \union {g \in pairs : g[1] = desk[q].role.id
                                                 \/ g[2] = desk[q].perm.id}]]

Changed(s, t) == (s \ t) \union (t \ s)

-----------------------------------------------------------------------------
(* createRole, updateRole, seedRolePermissions                             *)

CheckRoleName(r, n, active) ==
    /\ desk[r].phase = "idle"
    /\ \A x \in roles : x.name # n
    /\ Become(r, [Blank EXCEPT !.phase = "naming",
                               !.role = [NoRole EXCEPT !.name = n, !.active = active]])

\* findRoleById with both relations, and what the dto may set at once.
LoadRole(r, x, active) ==
    /\ desk[r].phase = "idle"
    /\ x.system => active
    /\ Become(r, [Blank EXCEPT !.phase = "editing",
                               !.role = [x EXCEPT !.active = IF x.system THEN @ ELSE active],
                               !.links = LinksOf(x.id), !.holders = HoldersOf(x.id)])

RenameRole(r, n) ==
    /\ desk[r].phase = "editing" /\ ~desk[r].role.system /\ n # desk[r].role.name
    /\ \A x \in roles : x.name # n
    /\ Become(r, [desk[r] EXCEPT !.phase = "renamed", !.role.name = n])

\* permissionIds of the dto, those that exist.
ChoosePermissions(r, chosen) ==
    /\ desk[r].phase \in {"naming", "editing", "renamed"}
    /\ Become(r, [desk[r] EXCEPT !.phase = "chosen", !.links = chosen])

\* save(role): the row, the junction rows, and roleId of the accounts: those of the
\* loaded array get the role, others that have it by now lose it.  A name taken and a
\* permission that is gone violate a constraint.
SaveRole(r) ==
    LET d == desk[r]
        id == IF d.role.id = 0 THEN lastRole + 1 ELSE d.role.id
        kept == {g \in grants : g[1] # id} \union {<<id, p>> : p \in d.links}
        given == [a \in Accounts |->
                     IF a \in d.holders THEN [accounts[a] EXCEPT !.roleId = id]
                     ELSE IF accounts[a].roleId = id THEN [accounts[a] EXCEPT !.roleId = 0]
                     ELSE accounts[a]] IN
    /\ d.phase \in {"naming", "editing", "renamed", "chosen"}
    /\ \A x \in roles : x.name = d.role.name => x.id = id
    /\ d.links \subseteq PermissionIds
    /\ roles' = {x \in roles : x.id # id} \union {[d.role EXCEPT !.id = id]}
    /\ lastRole' = IF d.role.id = 0 THEN id ELSE lastRole
    /\ grants' = kept /\ accounts' = given
    /\ Written(r, {<<a, "roleId">> : a \in {b \in Accounts : given[b] # accounts[b]}},
               Changed(grants, kept))
    /\ UNCHANGED <<permissions, lastPermission, lastLogin>>

\* One round of the seeding loop: the role by its name, with its permissions only.
FindSystemRole(r, x) ==
    /\ desk[r].phase = "idle" /\ x.name \in 1..NumSystem
    /\ Become(r, [Blank EXCEPT !.phase = "seeding", !.role = x])

\* The permissions of the table by their names; without any the round ends.
FindDefaults(r) ==
    LET found == {p.id : p \in {q \in permissions : q.name \in DefaultGrants[desk[r].role.name]}} IN
    /\ desk[r].phase = "seeding" /\ found # {}
    /\ Become(r, [desk[r] EXCEPT !.phase = "seeded", !.links = found])

SaveDefaults(r) ==
    LET d == desk[r]
        kept == {g \in grants : g[1] # d.role.id} \union {<<d.role.id, p>> : p \in d.links} IN
    /\ d.phase = "seeded"
    /\ \A x \in roles : x.name = d.role.name => x.id = d.role.id
    /\ d.links \subseteq PermissionIds
    /\ roles' = {x \in roles : x.id # d.role.id} \union {d.role}
    /\ grants' = kept
    /\ Written(r, {}, Changed(grants, kept))
    /\ UNCHANGED <<lastRole, permissions, lastPermission, accounts, lastLogin>>

-----------------------------------------------------------------------------
(* deleteRole                                                              *)

LoadRoleToDelete(r, x) ==
    /\ desk[r].phase = "idle" /\ ~x.system
    /\ Become(r, [Blank EXCEPT !.phase = "deleting", !.role = x])

CountAccounts(r) ==
    /\ desk[r].phase = "deleting" /\ HoldersOf(desk[r].role.id) = {}
    /\ Become(r, [desk[r] EXCEPT !.phase = "counted"])

\* The foreign key of accounts refuses a role assigned since the count.
RemoveRole(r) ==
    LET id == desk[r].role.id
        kept == {g \in grants : g[1] # id} IN
    /\ desk[r].phase = "counted" /\ HoldersOf(id) = {}
    /\ roles' = {x \in roles : x.id # id}
    /\ grants' = kept
    /\ Written(r, {}, grants \ kept)
    /\ UNCHANGED <<lastRole, permissions, lastPermission, accounts, lastLogin>>

-----------------------------------------------------------------------------
(* Permissions                                                             *)

CheckPermissionName(r, n) ==
    /\ desk[r].phase = "idle"
    /\ \A p \in permissions : p.name # n
    /\ Become(r, [Blank EXCEPT !.phase = "permission",
                               !.perm = [id |-> 0, name |-> n]])

\* findPermissionById loads the roles too.
LoadPermission(r, p) ==
    /\ desk[r].phase = "idle"
    /\ Become(r, [Blank EXCEPT !.phase = "permission", !.perm = p,
                               !.links = RolesOf(p.id)])

RenamePermission(r, n) ==
    /\ desk[r].phase = "permission" /\ desk[r].perm.id # 0 /\ n # desk[r].perm.name
    /\ \A p \in permissions : p.name # n
    /\ Become(r, [desk[r] EXCEPT !.phase = "retitled", !.perm.name = n])

\* Mutant: names of permissions are not unique.
SavePermissionMutant(r) ==
    LET d == desk[r]
        id == IF d.perm.id = 0 THEN lastPermission + 1 ELSE d.perm.id
        kept == {g \in grants : g[2] # id} \union {<<x, id>> : x \in d.links} IN
    /\ d.phase \in {"permission", "retitled"}
    /\ d.links \subseteq RoleIds
    /\ permissions' = {p \in permissions : p.id # id} \union {[d.perm EXCEPT !.id = id]}
    /\ lastPermission' = IF d.perm.id = 0 THEN id ELSE lastPermission
    /\ grants' = kept
    /\ Written(r, {}, Changed(grants, kept))
    /\ UNCHANGED <<roles, lastRole, accounts, lastLogin>>

SavePermission(r) ==
    LET d == desk[r]
        id == IF d.perm.id = 0 THEN lastPermission + 1 ELSE d.perm.id
        kept == {g \in grants : g[2] # id} \union {<<x, id>> : x \in d.links} IN
    /\ d.phase \in {"permission", "retitled"}
    /\ \A p \in permissions : p.name = d.perm.name => p.id = id
    /\ d.links \subseteq RoleIds
    /\ permissions' = {p \in permissions : p.id # id} \union {[d.perm EXCEPT !.id = id]}
    /\ lastPermission' = IF d.perm.id = 0 THEN id ELSE lastPermission
    /\ grants' = kept
    /\ Written(r, {}, Changed(grants, kept))
    /\ UNCHANGED <<roles, lastRole, accounts, lastLogin>>

\* Mutant: deleted whether roles have it or not.
LoadPermissionToDeleteMutant(r, p) ==
    /\ desk[r].phase = "idle"
    /\ Become(r, [Blank EXCEPT !.phase = "unlisted", !.perm = p])

\* Refused while a role has it.
LoadPermissionToDelete(r, p) ==
    /\ desk[r].phase = "idle" /\ RolesOf(p.id) = {}
    /\ Become(r, [Blank EXCEPT !.phase = "unlisted", !.perm = p])

\* The junction rows made since go with it (ON DELETE CASCADE).
RemovePermission(r) ==
    LET kept == {g \in grants : g[2] # desk[r].perm.id} IN
    /\ desk[r].phase = "unlisted"
    /\ permissions' = {p \in permissions : p.id # desk[r].perm.id}
    /\ grants' = kept
    /\ Written(r, {}, grants \ kept)
    /\ UNCHANGED <<roles, lastRole, lastPermission, accounts, lastLogin>>

-----------------------------------------------------------------------------
(* Accounts                                                                *)

\* signup: nobody has an account with this id.
CheckSignup(r, a) ==
    /\ desk[r].phase = "idle" /\ accounts[a] = NoAccount
    /\ Become(r, [Blank EXCEPT !.phase = "signing", !.account = a])

\* Mutant: no foreign key from accounts to roles.
SaveRowMutant(r, row) ==
    LET a == desk[r].account IN
    /\ accounts' = [accounts EXCEPT ![a] = row]
    /\ Written(r, {<<a, c>> : c \in {k \in Columns : row[k] # accounts[a][k]}}, {})
    /\ UNCHANGED <<roles, lastRole, permissions, lastPermission, grants>>

\* save(account): the whole row.  The foreign key refuses a role that is gone.
SaveRow(r, row) ==
    LET a == desk[r].account IN
    /\ row.roleId \in RoleIds \union {0}
    /\ accounts' = [accounts EXCEPT ![a] = row]
    /\ Written(r, {<<a, c>> : c \in {k \in Columns : row[k] # accounts[a][k]}}, {})
    /\ UNCHANGED <<roles, lastRole, permissions, lastPermission, grants>>

\* The entity has its id already: a row inserted since the check is overwritten.
SaveSignup(r) ==
    /\ desk[r].phase = "signing"
    /\ SaveRow(r, [accounts[desk[r].account] EXCEPT !.login = lastLogin + 1, !.active = TRUE])
    /\ lastLogin' = lastLogin + 1

LoadAccount(r, a) ==
    /\ desk[r].phase = "idle" /\ accounts[a] # NoAccount
    /\ Become(r, [Blank EXCEPT !.phase = "account", !.account = a, !.row = accounts[a]])

\* resetPassword, setCustomPassword, updateAccount.
ChangeLogin(r) ==
    /\ desk[r].phase = "account"
    /\ SaveRow(r, [desk[r].row EXCEPT !.login = lastLogin + 1])
    /\ lastLogin' = lastLogin + 1

\* updateProfile; what it then saves of the profile is not part of this module.
SetActive(r, active) ==
    /\ desk[r].phase = "account"
    /\ SaveRow(r, [desk[r].row EXCEPT !.active = active])
    /\ UNCHANGED lastLogin

DeleteAccount(r) == desk[r].row.active /\ SetActive(r, FALSE)

RestoreAccount(r) == ~desk[r].row.active /\ SetActive(r, TRUE)

\* assignRoleToAccount loads the account, then the role, which has to be active.
FindRoleToAssign(r, x) ==
    /\ desk[r].phase = "account" /\ x.active
    /\ Become(r, [desk[r] EXCEPT !.phase = "assigning", !.row.roleId = x.id])

AssignRole(r) ==
    /\ desk[r].phase = "assigning"
    /\ SaveRow(r, desk[r].row)
    /\ UNCHANGED lastLogin

\* An exception of the service, a constraint, a failed query: nothing was written.
GiveUp(r) ==
    /\ desk[r].phase # "idle"
    /\ Become(r, Blank)

Next ==
    \E r \in Requests :
       \/ \E n \in 1..NumNames, active \in BOOLEAN : CheckRoleName(r, n, active)
       \/ \E x \in roles, active \in BOOLEAN : LoadRole(r, x, active)
       \/ \E n \in 1..NumNames : RenameRole(r, n)
       \/ \E chosen \in SUBSET PermissionIds : ChoosePermissions(r, chosen)
       \/ SaveRole(r)
       \/ \E x \in roles : FindSystemRole(r, x)
       \/ FindDefaults(r)
       \/ SaveDefaults(r)
       \/ \E x \in roles : LoadRoleToDelete(r, x)
       \/ CountAccounts(r)
       \/ RemoveRole(r)
       \/ \E n \in 1..NumPermissionNames : CheckPermissionName(r, n)
       \/ \E p \in permissions : LoadPermission(r, p)
       \/ \E n \in 1..NumPermissionNames : RenamePermission(r, n)
       \/ SavePermission(r)
       \/ \E p \in permissions : LoadPermissionToDelete(r, p)
       \/ RemovePermission(r)
       \/ \E a \in Accounts : CheckSignup(r, a)
       \/ SaveSignup(r)
       \/ \E a \in Accounts : LoadAccount(r, a)
       \/ ChangeLogin(r)
       \/ \E active \in BOOLEAN : SetActive(r, active)
       \/ DeleteAccount(r)
       \/ RestoreAccount(r)
       \/ \E x \in roles : FindRoleToAssign(r, x)
       \/ AssignRole(r)
       \/ GiveUp(r)

Spec == Init /\ [][Next]_vars

-----------------------------------------------------------------------------
(* Properties                                                              *)

RoleRecords == [id : Nat, name : Nat, active : BOOLEAN, system : BOOLEAN]
PermissionRecords == [id : Nat, name : Nat]
AccountRecords == [login : Nat, roleId : Nat, active : BOOLEAN]

Phases ==
    {"idle", "naming", "editing", "renamed", "chosen", "seeding", "seeded", "deleting", "counted",
     "permission", "retitled", "unlisted", "signing", "account", "assigning"}

\* Ids and names are those of one row; what a request holds is a copy of rows.
TypeOK ==
    /\ roles \subseteq RoleRecords /\ permissions \subseteq PermissionRecords
    /\ lastRole \in Nat /\ lastPermission \in Nat /\ lastLogin \in Nat
    /\ \A x \in roles : x.id \in 1..lastRole
    /\ \A x, y \in roles : x.id = y.id \/ x.name = y.name => x = y
    /\ \A p \in permissions : p.id \in 1..lastPermission
    /\ \A p, q \in permissions : p.id = q.id \/ p.name = q.name => p = q
    /\ grants \subseteq Nat \X Nat
    /\ accounts \in [Accounts -> AccountRecords]
    /\ desk \in [Requests ->
          [phase : Phases, role : RoleRecords, perm : PermissionRecords, links : SUBSET Nat,
           holders : SUBSET Accounts, account : Accounts \union {None}, row : AccountRecords,
           missed : SUBSET (Accounts \X Columns), late : SUBSET (Nat \X Nat)]]

\* Every system role is there, active and under its own name, and no account and no
\* grant names a row that is gone, whatever is deleted, revived or assigned meanwhile.
RolesStand ==
    /\ \A n \in 1..NumSystem : [id |-> n, name |-> n, active |-> TRUE, system |-> TRUE] \in roles
    /\ \A a \in Accounts : accounts[a].roleId \in RoleIds \union {0}
    /\ \A g \in grants : g[1] \in RoleIds /\ g[2] \in PermissionIds

\* The column a request was asked to write when its step changes `c' of account `a'.
Asked(r, a, c) ==
    /\ desk[r].account = a
    /\ \/ desk[r].phase = "signing" /\ accounts[a] = NoAccount
       \/ desk[r].phase = "account" /\ c = IF lastLogin' = lastLogin THEN "active" ELSE "login"
       \/ desk[r].phase = "assigning" /\ c = "roleId"

\* Roles whose permissions are given explicitly or by the seeding, or that are deleted.
Regranting(r, id) ==
    \/ desk[r].phase = "chosen" /\ desk[r].role.id \in {0, id}
    \/ desk[r].phase \in {"seeded", "counted"} /\ desk[r].role.id = id

\* An account keeps its role, login and state, and a role its permissions, until a
\* request asked to change them does: another one undoes only what was written between
\* its load and its save.  A deletion takes a permission from nobody who had it before.
OverwrittenOnlyByOverlap ==
    [][/\ \A a \in Accounts, c \in Columns :
             accounts'[a][c] # accounts[a][c] =>
                \E r \in Requests : desk[r].phase # "idle" /\ desk'[r] = Blank
                                      /\ (Asked(r, a, c) \/ <<a, c>> \in desk[r].missed)
       /\ \A g \in Changed(grants, grants') :
             \E r \in Requests : desk[r].phase # "idle" /\ desk'[r] = Blank
                                   /\ (Regranting(r, g[1]) \/ g \in desk[r].late)]_vars
=============================================================================
