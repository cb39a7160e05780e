---------------------------- MODULE RolesProofs ----------------------------
(***************************************************************************)
(* What overlapping requests cannot do to roles, permissions and accounts, *)
(* for any number of each.  The invariant says of the tables what TypeOK   *)
(* and RolesStand say, and of every request what it knows: where its copy  *)
(* differs from the table, another request has written since.              *)
(***************************************************************************)
EXTENDS Roles, TLAPS

SystemRow(n) == [id |-> n, name |-> n, active |-> TRUE, system |-> TRUE]

DeskRecords ==
    [phase : Phases, role : RoleRecords, perm : PermissionRecords, links : SUBSET Nat,
     holders : SUBSET Accounts, account : Accounts \union {None}, row : AccountRecords,
     missed : SUBSET (Accounts \X Columns), late : SUBSET (Nat \X Nat)]

RolesOK ==
    /\ roles \subseteq RoleRecords /\ lastRole \in Nat /\ NumSystem <= lastRole
    /\ \A x \in roles : x.id \in 1..lastRole
    /\ \A x, y \in roles : x.id = y.id \/ x.name = y.name => x = y
    /\ \A n \in 1..NumSystem : SystemRow(n) \in roles

PermissionsOK ==
    /\ permissions \subseteq PermissionRecords /\ lastPermission \in Nat
    /\ \A p \in permissions : p.id \in 1..lastPermission
    /\ \A p, q \in permissions : p.id = q.id \/ p.name = q.name => p = q

GrantsOK ==
    /\ grants \subseteq Nat \X Nat
    /\ \A g \in grants : g[1] \in RoleIds /\ g[2] \in PermissionIds

\* An account that was opened has a login ever after.
AccountsOK ==
    /\ accounts \in [Accounts -> AccountRecords] /\ lastLogin \in Nat
    /\ \A a \in Accounts : /\ accounts[a].roleId \in RoleIds \union {0}
                           /\ accounts[a] # NoAccount => accounts[a].login # 0

TablesOK == RolesOK /\ PermissionsOK /\ GrantsOK /\ AccountsOK

\* What a request holds fits its phase, and a system role is held as it is; n and m are
\* the last ids of roles and permissions.
Holds(d, n, m) ==
    /\ d \in DeskRecords
    /\ d.role.id <= n /\ d.perm.id <= m
    /\ d.role.id \in 1..NumSystem => d.role = SystemRow(d.role.id)
    /\ d.phase \in {"editing", "renamed", "seeding", "seeded", "deleting", "counted"} => d.role.id # 0
    /\ d.phase \in {"deleting", "counted"} => d.role.id > NumSystem
    /\ d.phase \in {"seeding", "seeded"} => d.role.name \in 1..NumSystem
    /\ d.phase \in {"signing", "account", "assigning"} => d.account \in Accounts
    /\ d.role.id = 0 => d.holders = {}
    /\ d.phase = "naming" => d.role.id = 0 /\ d.links = {}
    /\ d.phase = "permission" /\ d.perm.id = 0 => d.links = {}
    /\ d.phase = "retitled" => d.perm.id # 0
    /\ d.phase \in {"account", "assigning"} => d.row.login # 0

\* Where the copy of an account, or of a role's accounts, differs from the table A.
KnowsAccounts(d, A) ==
    /\ d.phase \in {"account", "assigning"} =>
          /\ d.row.login # A[d.account].login => <<d.account, "login">> \in d.missed
          /\ d.row.active # A[d.account].active => <<d.account, "active">> \in d.missed
          /\ A[d.account] # NoAccount
    /\ d.phase = "account" /\ d.row.roleId # A[d.account].roleId =>
          <<d.account, "roleId">> \in d.missed
    /\ d.phase = "signing" /\ A[d.account] # NoAccount =>
          <<d.account, "login">> \in d.missed /\ <<d.account, "active">> \in d.missed
    /\ d.phase \in {"editing", "renamed", "chosen"} /\ d.role.id # 0 =>
          \A a \in Accounts :
              /\ a \in d.holders => A[a] # NoAccount
              /\ (a \in d.holders) # (A[a].roleId = d.role.id) => <<a, "roleId">> \in d.missed

\* Where the copy of a role's permissions, or of a permission's roles, differs from G.
KnowsGrants(d, G) ==
    /\ d.phase \in {"editing", "renamed"} =>
          \A p \in Nat : (p \in d.links) # (<<d.role.id, p>> \in G) =>
                            <<d.role.id, p>> \in d.late
    /\ d.phase \in {"permission", "retitled"} /\ d.perm.id # 0 =>
          \A x \in Nat : (x \in d.links) # (<<x, d.perm.id>> \in G) =>
                            <<x, d.perm.id>> \in d.late
    /\ d.phase = "unlisted" =>
          d.perm.id # 0 /\ \A x \in Nat : <<x, d.perm.id>> \in G => <<x, d.perm.id>> \in d.late

DeskOK(d, n, m, A, G) == Holds(d, n, m) /\ KnowsAccounts(d, A) /\ KnowsGrants(d, G)

Knows(d) == DeskOK(d, lastRole, lastPermission, accounts, grants)

Inv == TablesOK /\ desk \in [Requests -> DeskRecords] /\ \A r \in Requests : Knows(desk[r])

-----------------------------------------------------------------------------
(* Requests that read, and requests that write                             *)

LEMMA BlankOK ==
    ASSUME NEW n \in Nat, NEW m \in Nat, NEW A, NEW G
    PROVE  DeskOK(Blank, n, m, A, G)
<1>1. /\ Blank \in DeskRecords /\ Blank.phase = "idle"
      /\ Blank.role.id = 0 /\ Blank.perm.id = 0 /\ Blank.holders = {} /\ Blank.links = {}
    BY DEF Blank, DeskRecords, NoRole, NoPermission, NoAccount, RoleRecords, PermissionRecords,
           AccountRecords, Phases
<1>2. NumSystem \in Nat
    BY NumAssumption
<1> QED
    BY <1>1, <1>2 DEF DeskOK, Holds, KnowsAccounts, KnowsGrants

LEMMA IdleKeeps ==
    ASSUME NEW d, NEW n \in Nat, NEW m \in Nat, NEW n1 \in Nat, NEW m1 \in Nat, n <= n1, m <= m1,
           NEW A, NEW A1, NEW G, NEW G1, DeskOK(d, n, m, A, G), d.phase = "idle"
    PROVE  DeskOK(d, n1, m1, A1, G1)
<1>1. d.role.id \in Nat /\ d.perm.id \in Nat
    BY DEF DeskOK, Holds, DeskRecords, RoleRecords, PermissionRecords
<1> QED
    BY <1>1 DEF DeskOK, Holds, KnowsAccounts, KnowsGrants

\* A query that only reads: one request moves on.
LEMMA ReadKeeps ==
    ASSUME Inv, NEW r \in Requests, NEW d, Become(r, d), Knows(d)
    PROVE  Inv'
<1>1. d \in DeskRecords
    BY DEF Knows, DeskOK, Holds
<1>2. /\ desk' = [desk EXCEPT ![r] = d]
      /\ UNCHANGED <<roles, lastRole, permissions, lastPermission, grants, accounts, lastLogin>>
    BY DEF Become
<1>3. TablesOK'
    BY <1>2 DEF Inv, TablesOK, RolesOK, PermissionsOK, GrantsOK, AccountsOK, RoleIds, PermissionIds
<1> QED
    BY <1>1, <1>2, <1>3 DEF Inv, Knows

\* What another request holds after cells and pairs were written.
Missed(d, cells, pairs) ==
    [d EXCEPT !.missed = @ \union {x \in cells : x[1] = d.account
                                        \/ (x[2] = "roleId" /\ d.role.id # 0)},
              !.late = @ \union {g \in pairs : g[1] = d.role.id \/ g[2] = d.perm.id}]

LEMMA MissKeeps ==
    ASSUME NEW d, NEW n \in Nat, NEW m \in Nat, NEW n1 \in Nat, NEW m1 \in Nat,
           NEW A \in [Accounts -> AccountRecords], NEW A1 \in [Accounts -> AccountRecords],
           NEW G, NEW G1, NEW cells \in SUBSET (Accounts \X Columns),
           NEW pairs \in SUBSET (Nat \X Nat),
           DeskOK(d, n, m, A, G), n <= n1, m <= m1,
           \A a \in Accounts : A1[a].login # A[a].login => <<a, "login">> \in cells,
           \A a \in Accounts : A1[a].active # A[a].active => <<a, "active">> \in cells,
           \A a \in Accounts : A1[a].roleId # A[a].roleId => <<a, "roleId">> \in cells,
           \A a \in Accounts : A[a] # NoAccount => A1[a] # NoAccount,
           \A a \in Accounts : A[a] = NoAccount /\ A1[a] # NoAccount =>
                                  <<a, "login">> \in cells /\ <<a, "active">> \in cells,
           Changed(G, G1) \subseteq pairs
    PROVE  DeskOK(Missed(d, cells, pairs), n1, m1, A1, G1)
<1> DEFINE e == Missed(d, cells, pairs)
           s == {x \in cells : x[1] = d.account \/ (x[2] = "roleId" /\ d.role.id # 0)}
           l == {g \in pairs : g[1] = d.role.id \/ g[2] = d.perm.id}
<1>1. d \in DeskRecords
    BY DEF DeskOK, Holds
<1>2. s \subseteq Accounts \X Columns /\ l \subseteq Nat \X Nat
    OBVIOUS
<1>3. e = [d EXCEPT !.missed = d.missed \union s, !.late = d.late \union l]
    BY <1>1 DEF Missed
<1>4. \A a \in Accounts, c \in Columns :
         <<a, c>> \in cells /\ (a = d.account \/ (c = "roleId" /\ d.role.id # 0)) => <<a, c>> \in s
    OBVIOUS
<1>5. \A x, y \in Nat :
         <<x, y>> \in pairs /\ (x = d.role.id \/ y = d.perm.id) => <<x, y>> \in l
    OBVIOUS
<1> HIDE DEF s, l, e
<1>6. /\ e \in DeskRecords
      /\ e.phase = d.phase /\ e.role = d.role /\ e.perm = d.perm /\ e.links = d.links
      /\ e.holders = d.holders /\ e.account = d.account /\ e.row = d.row
      /\ e.missed = d.missed \union s /\ e.late = d.late \union l
    <2> DEFINE ms == d.missed \union s
               ls == d.late \union l
    <2>1. ms \in SUBSET (Accounts \X Columns) /\ ls \in SUBSET (Nat \X Nat)
        BY <1>1, <1>2 DEF DeskRecords
    <2>2. e = [d EXCEPT !.missed = ms, !.late = ls]
        BY <1>3
    <2> HIDE DEF ms, ls
    <2>3. /\ e \in DeskRecords
          /\ e.phase = d.phase /\ e.role = d.role /\ e.perm = d.perm /\ e.links = d.links
          /\ e.holders = d.holders /\ e.account = d.account /\ e.row = d.row
          /\ e.missed = ms /\ e.late = ls
        BY <1>1, <2>1, <2>2 DEF DeskRecords
    <2> QED
        BY <2>3 DEF ms, ls
<1>7. d.role.id \in Nat /\ d.perm.id \in Nat /\ d.row \in AccountRecords
    BY <1>1 DEF DeskRecords, RoleRecords, PermissionRecords
<1>8. Holds(e, n1, m1)
    BY <1>6, <1>7 DEF DeskOK, Holds
<1>9. KnowsAccounts(e, A1)
    BY <1>4, <1>6, <1>7 DEF DeskOK, Holds, KnowsAccounts, Columns
<1>10. KnowsGrants(e, G1)
    BY <1>5, <1>6, <1>7 DEF DeskOK, KnowsGrants, Changed
<1> QED
    BY <1>8, <1>9, <1>10 DEF DeskOK, e

\* A query that writes: the request is done, and the others have missed what it wrote.
LEMMA WriteKeeps ==
    ASSUME Inv, TablesOK', NEW r \in Requests, NEW cells \in SUBSET (Accounts \X Columns),
           NEW pairs \in SUBSET (Nat \X Nat), Written(r, cells, pairs),
           lastRole <= lastRole', lastPermission <= lastPermission',
           \A a \in Accounts : accounts'[a].login # accounts[a].login => <<a, "login">> \in cells,
           \A a \in Accounts : accounts'[a].active # accounts[a].active => <<a, "active">> \in cells,
           \A a \in Accounts : accounts'[a].roleId # accounts[a].roleId => <<a, "roleId">> \in cells,
           \A a \in Accounts : accounts[a] # NoAccount => accounts'[a] # NoAccount,
           \A a \in Accounts : accounts[a] = NoAccount /\ accounts'[a] # NoAccount =>
                                  <<a, "login">> \in cells /\ <<a, "active">> \in cells,
           Changed(grants, grants') \subseteq pairs
    PROVE  Inv'
<1>1. /\ lastRole \in Nat /\ lastRole' \in Nat /\ lastPermission \in Nat /\ lastPermission' \in Nat
      /\ accounts \in [Accounts -> AccountRecords] /\ accounts' \in [Accounts -> AccountRecords]
    BY DEF Inv, TablesOK, RolesOK, PermissionsOK, AccountsOK
<1>2. ASSUME NEW q \in Requests
      PROVE  DeskOK(desk'[q], lastRole', lastPermission', accounts', grants')
    <2>1. CASE q = r
        <3>1. desk'[q] = Blank
            BY <2>1 DEF Written
        <3>2. DeskOK(Blank, lastRole', lastPermission', accounts', grants')
            BY <1>1, BlankOK
        <3> QED
            BY <3>1, <3>2
    <2>2. CASE q # r /\ desk[q].phase = "idle"
        <3>1. desk'[q] = desk[q]
            BY <2>2 DEF Written
        <3>2. DeskOK(desk[q], lastRole, lastPermission, accounts, grants)
            BY DEF Inv, Knows
        <3>3. DeskOK(desk[q], lastRole', lastPermission', accounts', grants')
            BY <1>1, <2>2, <3>2, IdleKeeps
        <3> QED
            BY <3>1, <3>3
    <2>3. CASE q # r /\ desk[q].phase # "idle"
        <3>1. DeskOK(desk[q], lastRole, lastPermission, accounts, grants)
            BY DEF Inv, Knows
        <3>2. desk'[q] = Missed(desk[q], cells, pairs)
            BY <2>3 DEF Written, Missed
        <3>3. DeskOK(Missed(desk[q], cells, pairs), lastRole', lastPermission', accounts', grants')
            BY <1>1, <3>1, MissKeeps
        <3> QED
            BY <3>2, <3>3
    <2> QED
        BY <2>1, <2>2, <2>3
<1>3. desk' = [q \in Requests |-> desk'[q]]
    BY DEF Written
<1>4. desk' \in [Requests -> DeskRecords]
    BY <1>2, <1>3 DEF DeskOK, Holds
<1> QED
    BY <1>2, <1>4 DEF Inv, Knows
-----------------------------------------------------------------------------
(* The queries that read                                                   *)

LEMMA BlankFields ==
    /\ Blank \in DeskRecords /\ Blank.role = NoRole /\ Blank.perm = NoPermission
    /\ Blank.links = {} /\ Blank.holders = {} /\ Blank.account = None /\ Blank.row = NoAccount
    /\ Blank.missed = {} /\ Blank.late = {} /\ Blank.phase = "idle"
    /\ NoRole \in RoleRecords /\ NoPermission \in PermissionRecords /\ NoAccount \in AccountRecords
    /\ NoRole.id = 0 /\ NoPermission.id = 0
BY DEF Blank, DeskRecords, NoRole, NoPermission, NoAccount, RoleRecords, PermissionRecords,
       AccountRecords, Phases

LEMMA Counts ==
    ASSUME Inv
    PROVE  /\ lastRole \in Nat /\ lastPermission \in Nat /\ lastLogin \in Nat /\ NumSystem \in Nat
           /\ accounts \in [Accounts -> AccountRecords]
           /\ \A r \in Requests : desk[r] \in DeskRecords /\ Knows(desk[r])
           /\ \A r \in Requests : desk[r].role \in RoleRecords /\ desk[r].perm \in PermissionRecords
                                  /\ desk[r].row \in AccountRecords
                                  /\ desk[r].role.id \in Nat /\ desk[r].perm.id \in Nat
<1>1. \A r \in Requests : desk[r] \in DeskRecords
    BY DEF Inv
<1>2. \A r \in Requests : desk[r].role \in RoleRecords /\ desk[r].perm \in PermissionRecords
                          /\ desk[r].row \in AccountRecords
    BY <1>1 DEF DeskRecords
<1> QED
    BY <1>1, <1>2, NumAssumption
       DEF Inv, TablesOK, RolesOK, PermissionsOK, AccountsOK, RoleRecords, PermissionRecords

\* A row of roles, and what it says if it is that of a system role.
LEMMA RoleRow ==
    ASSUME Inv, NEW x \in roles
    PROVE  /\ x \in RoleRecords /\ x.id \in 1..lastRole /\ x.id # 0
           /\ x.id \in 1..NumSystem \/ x.name \in 1..NumSystem
                 => x = SystemRow(x.id) /\ x.id \in 1..NumSystem
<1>1. x \in RoleRecords /\ x.id \in 1..lastRole
    BY DEF Inv, TablesOK, RolesOK
<1>2. ASSUME NEW n \in 1..NumSystem
      PROVE  SystemRow(n) \in roles /\ SystemRow(n).id = n /\ SystemRow(n).name = n
    BY DEF Inv, TablesOK, RolesOK, SystemRow
<1>3. ASSUME NEW n \in 1..NumSystem, x.id = n \/ x.name = n
      PROVE  x = SystemRow(n) /\ x.id = n
    BY <1>2, <1>3 DEF Inv, TablesOK, RolesOK
<1> QED
    BY <1>1, <1>3

LEMMA CheckRoleNameInv ==
    ASSUME Inv, NEW r \in Requests, NEW n \in 1..NumNames, NEW active \in BOOLEAN,
           CheckRoleName(r, n, active)
    PROVE  Inv'
<1> DEFINE x == [NoRole EXCEPT !.name = n, !.active = active]
           d == [Blank EXCEPT !.phase = "naming", !.role = x]
<1>1. x \in RoleRecords /\ x.id = 0
    <2>1. n \in Nat
        BY NumAssumption
    <2> QED
        BY <2>1, BlankFields DEF RoleRecords
<1> HIDE DEF x
<1>2. /\ d \in DeskRecords /\ d.phase = "naming" /\ d.role = x /\ d.links = {} /\ d.holders = {}
      /\ d.perm = NoPermission
    BY <1>1, BlankFields DEF DeskRecords, Phases
<1>3. Become(r, d)
    BY DEF CheckRoleName, x
<1> HIDE DEF d
<1>4. Knows(d)
    BY <1>1, <1>2, Counts, BlankFields DEF Knows, DeskOK, Holds, KnowsAccounts, KnowsGrants
<1> QED
    BY <1>3, <1>4, ReadKeeps

LEMMA LoadRoleInv ==
    ASSUME Inv, NEW r \in Requests, NEW x \in roles, NEW active \in BOOLEAN,
           LoadRole(r, x, active)
    PROVE  Inv'
<1> DEFINE y == [x EXCEPT !.active = IF x.system THEN @ ELSE active]
           l == LinksOf(x.id)
           h == HoldersOf(x.id)
           d == [Blank EXCEPT !.phase = "editing", !.role = y, !.links = l, !.holders = h]
<1>1. x \in RoleRecords /\ x.id \in 1..lastRole /\ x.id # 0
    BY RoleRow
<1>2. y \in RoleRecords /\ y.id = x.id
    BY <1>1 DEF RoleRecords
<1>3. y.id \in 1..NumSystem => y = SystemRow(y.id)
    <2>1. SUFFICES ASSUME x.id \in 1..NumSystem PROVE y = x /\ x = SystemRow(x.id)
        BY <1>2
    <2>2. x = SystemRow(x.id)
        BY <2>1, RoleRow
    <2>3. x.system
        BY <2>2 DEF SystemRow
    <2> QED
        BY <1>1, <2>2, <2>3 DEF RoleRecords
<1>4. grants \subseteq Nat \X Nat
    BY DEF Inv, TablesOK, GrantsOK
<1>5. l \subseteq Nat /\ \A p \in Nat : p \in l <=> <<x.id, p>> \in grants
    BY <1>1, <1>4 DEF LinksOf
<1>6. h \subseteq Accounts /\ \A a \in Accounts : a \in h <=> accounts[a].roleId = x.id
    BY DEF HoldersOf
<1>7. Become(r, d)
    BY DEF LoadRole
<1> HIDE DEF y, l, h
<1>8. /\ d \in DeskRecords /\ d.phase = "editing" /\ d.role = y /\ d.links = l /\ d.holders = h
      /\ d.perm = NoPermission
    BY <1>2, <1>5, <1>6, BlankFields DEF DeskRecords, Phases
<1> HIDE DEF d
<1>9. Holds(d, lastRole, lastPermission)
    BY <1>1, <1>2, <1>3, <1>8, Counts, BlankFields DEF Holds
<1>10. \A a \in h : accounts[a] # NoAccount
    BY <1>1, <1>6 DEF NoAccount
<1>11. KnowsAccounts(d, accounts) /\ KnowsGrants(d, grants)
    BY <1>2, <1>5, <1>6, <1>8, <1>10 DEF KnowsAccounts, KnowsGrants
<1> QED
    BY <1>7, <1>9, <1>11, ReadKeeps DEF Knows, DeskOK

LEMMA RenameRoleInv ==
    ASSUME Inv, NEW r \in Requests, NEW n \in 1..NumNames, RenameRole(r, n)
    PROVE  Inv'
<1> DEFINE c == desk[r]
           x == [c.role EXCEPT !.name = n]
           d == [c EXCEPT !.phase = "renamed", !.role = x]
<1>0. c \in DeskRecords /\ Knows(c) /\ c.role \in RoleRecords /\ c.phase = "editing"
      /\ ~c.role.system
    BY Counts DEF RenameRole
<1>1. x \in RoleRecords /\ x.id = c.role.id
    BY <1>0, NumAssumption DEF RoleRecords
<1>2. c.role.id \notin 1..NumSystem
    BY <1>0 DEF Knows, DeskOK, Holds, SystemRow
<1>3. Become(r, d)
    BY <1>0 DEF RenameRole, DeskRecords
<1> HIDE DEF x, c
<1>4. /\ d \in DeskRecords /\ d.phase = "renamed" /\ d.role = x /\ d.links = c.links
      /\ d.holders = c.holders /\ d.perm = c.perm /\ d.missed = c.missed /\ d.late = c.late
      /\ d.row = c.row /\ d.account = c.account
    BY <1>0, <1>1 DEF DeskRecords, Phases
<1> HIDE DEF d
<1>5. Knows(d)
    BY <1>0, <1>1, <1>2, <1>4 DEF Knows, DeskOK, Holds, KnowsAccounts, KnowsGrants
<1> QED
    BY <1>3, <1>5, ReadKeeps

LEMMA ChoosePermissionsInv ==
    ASSUME Inv, NEW r \in Requests, NEW chosen \in SUBSET PermissionIds,
           ChoosePermissions(r, chosen)
    PROVE  Inv'
<1> DEFINE c == desk[r]
           d == [c EXCEPT !.phase = "chosen", !.links = chosen]
<1>0. c \in DeskRecords /\ Knows(c) /\ c.phase \in {"naming", "editing", "renamed"}
    BY Counts DEF ChoosePermissions
<1>1. chosen \subseteq Nat
    BY DEF PermissionIds, Inv, TablesOK, PermissionsOK
<1>2. Become(r, d)
    BY DEF ChoosePermissions
<1> HIDE DEF c
<1>3. /\ d \in DeskRecords /\ d.phase = "chosen" /\ d.role = c.role /\ d.perm = c.perm
      /\ d.holders = c.holders /\ d.missed = c.missed
    BY <1>0, <1>1 DEF DeskRecords, Phases
<1> HIDE DEF d
<1>4. Knows(d)
    BY <1>0, <1>3 DEF Knows, DeskOK, Holds, KnowsAccounts, KnowsGrants
<1> QED
    BY <1>2, <1>4, ReadKeeps

\* A request that holds a role and nothing more: seeding or deleting it.
LEMMA HoldRole ==
    ASSUME Inv, NEW r \in Requests, NEW x \in roles, NEW p \in {"seeding", "deleting"},
           Become(r, [Blank EXCEPT !.phase = p, !.role = x]),
           p = "seeding" => x.name \in 1..NumSystem,
           p = "deleting" => ~x.system
    PROVE  Inv'
<1> DEFINE d == [Blank EXCEPT !.phase = p, !.role = x]
<1>1. /\ x \in RoleRecords /\ x.id \in 1..lastRole /\ x.id # 0
      /\ x.id \in 1..NumSystem => x = SystemRow(x.id)
    BY RoleRow
<1>2. p = "deleting" => x.id > NumSystem
    BY <1>1, Counts DEF SystemRow
<1>3. d \in DeskRecords /\ d.phase = p /\ d.role = x /\ d.holders = {} /\ d.perm = NoPermission
    BY <1>1, BlankFields DEF DeskRecords, Phases
<1>4. Become(r, d)
    OBVIOUS
<1> HIDE DEF d
<1>5. Knows(d)
    BY <1>1, <1>2, <1>3, Counts, BlankFields DEF Knows, DeskOK, Holds, KnowsAccounts, KnowsGrants
<1> QED
    BY <1>4, <1>5, ReadKeeps

LEMMA FindDefaultsInv ==
    ASSUME Inv, NEW r \in Requests, FindDefaults(r)
    PROVE  Inv'
<1> DEFINE c == desk[r]
           l == {p.id : p \in {q \in permissions : q.name \in DefaultGrants[c.role.name]}}
           d == [c EXCEPT !.phase = "seeded", !.links = l]
<1>0. c \in DeskRecords /\ Knows(c) /\ c.phase = "seeding"
    BY Counts DEF FindDefaults
<1>1. l \subseteq Nat
    BY DEF Inv, TablesOK, PermissionsOK
<1>2. Become(r, d)
    BY DEF FindDefaults
<1> HIDE DEF c, l
<1>3. /\ d \in DeskRecords /\ d.phase = "seeded" /\ d.role = c.role /\ d.perm = c.perm
      /\ d.holders = c.holders
    BY <1>0, <1>1 DEF DeskRecords, Phases
<1> HIDE DEF d
<1>4. Knows(d)
    BY <1>0, <1>3 DEF Knows, DeskOK, Holds, KnowsAccounts, KnowsGrants
<1> QED
    BY <1>2, <1>4, ReadKeeps

LEMMA CountAccountsInv ==
    ASSUME Inv, NEW r \in Requests, CountAccounts(r)
    PROVE  Inv'
<1> DEFINE c == desk[r]
           d == [c EXCEPT !.phase = "counted"]
<1>0. c \in DeskRecords /\ Knows(c) /\ c.phase = "deleting"
    BY Counts DEF CountAccounts
<1>1. Become(r, d)
    BY DEF CountAccounts
<1> HIDE DEF c
<1>2. /\ d \in DeskRecords /\ d.phase = "counted" /\ d.role = c.role /\ d.perm = c.perm
      /\ d.holders = c.holders
    BY <1>0 DEF DeskRecords, Phases
<1> HIDE DEF d
<1>3. Knows(d)
    BY <1>0, <1>2 DEF Knows, DeskOK, Holds, KnowsAccounts, KnowsGrants
<1> QED
    BY <1>1, <1>3, ReadKeeps

LEMMA CheckPermissionNameInv ==
    ASSUME Inv, NEW r \in Requests, NEW n \in 1..NumPermissionNames, CheckPermissionName(r, n)
    PROVE  Inv'
<1> DEFINE x == [id |-> 0, name |-> n]
           d == [Blank EXCEPT !.phase = "permission", !.perm = x]
<1>1. x \in PermissionRecords /\ x.id = 0
    BY NumAssumption DEF PermissionRecords
<1>2. Become(r, d)
    BY DEF CheckPermissionName
<1> HIDE DEF x
<1>3. /\ d \in DeskRecords /\ d.phase = "permission" /\ d.perm = x /\ d.role = NoRole
      /\ d.links = {} /\ d.holders = {}
    BY <1>1, BlankFields DEF DeskRecords, Phases
<1> HIDE DEF d
<1>4. Knows(d)
    BY <1>1, <1>3, Counts, BlankFields DEF Knows, DeskOK, Holds, KnowsAccounts, KnowsGrants
<1> QED
    BY <1>2, <1>4, ReadKeeps

LEMMA LoadPermissionInv ==
    ASSUME Inv, NEW r \in Requests, NEW x \in permissions, LoadPermission(r, x)
    PROVE  Inv'
<1> DEFINE l == RolesOf(x.id)
           d == [Blank EXCEPT !.phase = "permission", !.perm = x, !.links = l]
<1>1. x \in PermissionRecords /\ x.id \in 1..lastPermission
    BY DEF Inv, TablesOK, PermissionsOK
<1>2. grants \subseteq Nat \X Nat
    BY DEF Inv, TablesOK, GrantsOK
<1>3. l \subseteq Nat /\ \A p \in Nat : p \in l <=> <<p, x.id>> \in grants
    BY <1>1, <1>2 DEF RolesOf
<1>4. Become(r, d)
    BY DEF LoadPermission
<1> HIDE DEF l
<1>5. /\ d \in DeskRecords /\ d.phase = "permission" /\ d.perm = x /\ d.role = NoRole
      /\ d.links = l /\ d.holders = {}
    BY <1>1, <1>3, BlankFields DEF DeskRecords, Phases
<1> HIDE DEF d
<1>6. Knows(d)
    BY <1>1, <1>3, <1>5, Counts, BlankFields DEF Knows, DeskOK, Holds, KnowsAccounts, KnowsGrants
<1> QED
    BY <1>4, <1>6, ReadKeeps

LEMMA RenamePermissionInv ==
    ASSUME Inv, NEW r \in Requests, NEW n \in 1..NumPermissionNames, RenamePermission(r, n)
    PROVE  Inv'
<1> DEFINE c == desk[r]
           x == [c.perm EXCEPT !.name = n]
           d == [c EXCEPT !.phase = "retitled", !.perm = x]
<1>0. c \in DeskRecords /\ Knows(c) /\ c.perm \in PermissionRecords /\ c.phase = "permission"
      /\ c.perm.id # 0
    BY Counts DEF RenamePermission
<1>1. x \in PermissionRecords /\ x.id = c.perm.id
    BY <1>0, NumAssumption DEF PermissionRecords
<1>2. Become(r, d)
    BY <1>0 DEF RenamePermission, DeskRecords
<1> HIDE DEF x, c
<1>3. /\ d \in DeskRecords /\ d.phase = "retitled" /\ d.perm = x /\ d.links = c.links
      /\ d.holders = c.holders /\ d.role = c.role /\ d.late = c.late
    BY <1>0, <1>1 DEF DeskRecords, Phases
<1> HIDE DEF d
<1>4. Knows(d)
    BY <1>0, <1>1, <1>3 DEF Knows, DeskOK, Holds, KnowsAccounts, KnowsGrants
<1> QED
    BY <1>2, <1>4, ReadKeeps

LEMMA LoadPermissionToDeleteInv ==
    ASSUME Inv, NEW r \in Requests, NEW x \in permissions, LoadPermissionToDelete(r, x)
    PROVE  Inv'
<1> DEFINE d == [Blank EXCEPT !.phase = "unlisted", !.perm = x]
<1>1. x \in PermissionRecords /\ x.id \in 1..lastPermission
    BY DEF Inv, TablesOK, PermissionsOK
<1>2. \A p \in Nat : <<p, x.id>> \notin grants
    BY DEF LoadPermissionToDelete, RolesOf
<1>3. Become(r, d)
    BY DEF LoadPermissionToDelete
<1>4. /\ d \in DeskRecords /\ d.phase = "unlisted" /\ d.perm = x /\ d.role = NoRole
      /\ d.links = {} /\ d.holders = {}
    BY <1>1, BlankFields DEF DeskRecords, Phases
<1> HIDE DEF d
<1>5. Knows(d)
    BY <1>1, <1>2, <1>4, Counts, BlankFields DEF Knows, DeskOK, Holds, KnowsAccounts, KnowsGrants
<1> QED
    BY <1>3, <1>5, ReadKeeps

LEMMA CheckSignupInv ==
    ASSUME Inv, NEW r \in Requests, NEW a \in Accounts, CheckSignup(r, a)
    PROVE  Inv'
<1> DEFINE d == [Blank EXCEPT !.phase = "signing", !.account = a]
<1>1. Become(r, d) /\ accounts[a] = NoAccount
    BY DEF CheckSignup
<1>2. /\ d \in DeskRecords /\ d.phase = "signing" /\ d.perm = NoPermission /\ d.role = NoRole
      /\ d.links = {} /\ d.holders = {} /\ d.account = a
    BY BlankFields DEF DeskRecords, Phases
<1> HIDE DEF d
<1>3. Knows(d)
    BY <1>1, <1>2, Counts, BlankFields DEF Knows, DeskOK, Holds, KnowsAccounts, KnowsGrants
<1> QED
    BY <1>1, <1>3, ReadKeeps

LEMMA LoadAccountInv ==
    ASSUME Inv, NEW r \in Requests, NEW a \in Accounts, LoadAccount(r, a)
    PROVE  Inv'
<1> DEFINE row == accounts[a]
           d == [Blank EXCEPT !.phase = "account", !.account = a, !.row = row]
<1>1. Become(r, d) /\ accounts[a] # NoAccount
    BY DEF LoadAccount
<1>2. row \in AccountRecords /\ row.login # 0
    BY <1>1 DEF Inv, TablesOK, AccountsOK
<1> HIDE DEF row
<1>3. /\ d \in DeskRecords /\ d.phase = "account" /\ d.perm = NoPermission /\ d.role = NoRole
      /\ d.links = {} /\ d.holders = {} /\ d.account = a /\ d.row = row
    BY <1>2, BlankFields DEF DeskRecords, Phases
<1> HIDE DEF d
<1>4. Knows(d)
    BY <1>1, <1>2, <1>3, Counts, BlankFields DEF Knows, DeskOK, Holds, KnowsAccounts, KnowsGrants, row
<1> QED
    BY <1>1, <1>4, ReadKeeps

LEMMA FindRoleToAssignInv ==
    ASSUME Inv, NEW r \in Requests, NEW x \in roles, FindRoleToAssign(r, x)
    PROVE  Inv'
<1> DEFINE c == desk[r]
           row == [c.row EXCEPT !.roleId = x.id]
           d == [c EXCEPT !.phase = "assigning", !.row = row]
<1>0. c \in DeskRecords /\ Knows(c) /\ c.row \in AccountRecords /\ c.phase = "account"
    BY Counts DEF FindRoleToAssign
<1>1. x.id \in Nat
    BY RoleRow, Counts
<1>2. row \in AccountRecords /\ row.login = c.row.login /\ row.active = c.row.active
    BY <1>0, <1>1 DEF AccountRecords
<1>3. Become(r, d)
    BY <1>0 DEF FindRoleToAssign, DeskRecords
<1> HIDE DEF row, c
<1>4. /\ d \in DeskRecords /\ d.phase = "assigning" /\ d.row = row /\ d.account = c.account
      /\ d.holders = c.holders /\ d.role = c.role /\ d.perm = c.perm /\ d.missed = c.missed
    BY <1>0, <1>2 DEF DeskRecords, Phases
<1> HIDE DEF d
<1>5. Knows(d)
    BY <1>0, <1>2, <1>4 DEF Knows, DeskOK, Holds, KnowsAccounts, KnowsGrants
<1> QED
    BY <1>3, <1>5, ReadKeeps
-----------------------------------------------------------------------------
(* The queries that write                                                  *)

\* What OverwrittenOnlyByOverlap says of one step.
Justified ==
    /\ \A a \in Accounts, c \in Columns :
          accounts'[a][c] # accounts[a][c] =>
             \E r \in Requests : desk[r].phase # "idle" /\ desk'[r] = Blank
                                   /\ (Asked(r, a, c) \/ <<a, c>> \in desk[r].missed)
    /\ \A g \in Changed(grants, grants') :
          \E r \in Requests : desk[r].phase # "idle" /\ desk'[r] = Blank
                                /\ (Regranting(r, g[1]) \/ g \in desk[r].late)

LEMMA NothingToJustify ==
    ASSUME UNCHANGED <<accounts, grants>>
    PROVE  Justified
BY DEF Justified, Changed

LEMMA WritingDone ==
    ASSUME NEW r \in Requests, NEW cells, NEW pairs, Written(r, cells, pairs)
    PROVE  desk'[r] = Blank
BY DEF Written

\* save(account).
LEMMA SaveRowInv ==
    ASSUME Inv, NEW r \in Requests, NEW row \in AccountRecords, NEW a \in Accounts,
           a = desk[r].account, SaveRow(r, row), lastLogin' \in Nat, row.login # 0,
           accounts[a] = NoAccount => row.login # 0 /\ row.active
    PROVE  /\ Inv' /\ desk'[r] = Blank /\ grants' = grants
           /\ accounts' = [accounts EXCEPT ![a] = row]
<1> DEFINE cells == {<<a, c>> : c \in {k \in Columns : row[k] # accounts[a][k]}}
<1>1. /\ row.roleId \in RoleIds \union {0}
      /\ accounts' = [accounts EXCEPT ![a] = row]
      /\ Written(r, cells, {})
      /\ UNCHANGED <<roles, lastRole, permissions, lastPermission, grants>>
    BY DEF SaveRow
<1>2. cells \in SUBSET (Accounts \X Columns)
    OBVIOUS
<1>3. accounts \in [Accounts -> AccountRecords]
    BY Counts
<1>4. /\ row.login # accounts[a].login => <<a, "login">> \in cells
      /\ row.active # accounts[a].active => <<a, "active">> \in cells
      /\ row.roleId # accounts[a].roleId => <<a, "roleId">> \in cells
    BY DEF Columns
<1> HIDE DEF cells
<1>5. NoAccount.login = 0 /\ NoAccount.active = FALSE
    BY DEF NoAccount
<1>6. TablesOK'
    <2>1. RolesOK' /\ PermissionsOK' /\ GrantsOK'
        BY <1>1 DEF Inv, TablesOK, RolesOK, PermissionsOK, GrantsOK, RoleIds, PermissionIds
    <2>2. AccountsOK'
        BY <1>1, <1>3 DEF Inv, TablesOK, AccountsOK, RoleIds
    <2> QED
        BY <2>1, <2>2 DEF TablesOK
<1>7. /\ \A b \in Accounts : accounts'[b].login # accounts[b].login => <<b, "login">> \in cells
      /\ \A b \in Accounts : accounts'[b].active # accounts[b].active => <<b, "active">> \in cells
      /\ \A b \in Accounts : accounts'[b].roleId # accounts[b].roleId => <<b, "roleId">> \in cells
      /\ \A b \in Accounts : accounts[b] # NoAccount => accounts'[b] # NoAccount
      /\ \A b \in Accounts : accounts[b] = NoAccount /\ accounts'[b] # NoAccount =>
                                <<b, "login">> \in cells /\ <<b, "active">> \in cells
    BY <1>1, <1>3, <1>4, <1>5
<1>8. /\ lastRole <= lastRole' /\ lastPermission <= lastPermission'
      /\ Changed(grants, grants') = {}
    BY <1>1, Counts DEF Changed
<1>9. Inv'
    BY <1>1, <1>2, <1>6, <1>7, <1>8, WriteKeeps
<1> QED
    BY <1>1, <1>9, WritingDone

\* A step that writes the columns of one account only.
LEMMA RowJustified ==
    ASSUME NEW r \in Requests, NEW a \in Accounts, NEW row \in AccountRecords,
           accounts \in [Accounts -> AccountRecords],
           accounts' = [accounts EXCEPT ![a] = row], grants' = grants,
           desk[r].phase # "idle", desk'[r] = Blank,
           row.login # accounts[a].login =>
              Asked(r, a, "login") \/ <<a, "login">> \in desk[r].missed,
           row.active # accounts[a].active =>
              Asked(r, a, "active") \/ <<a, "active">> \in desk[r].missed,
           row.roleId # accounts[a].roleId =>
              Asked(r, a, "roleId") \/ <<a, "roleId">> \in desk[r].missed
    PROVE  Justified
<1>1. ASSUME NEW b \in Accounts, NEW c \in Columns, accounts'[b][c] # accounts[b][c]
      PROVE  Asked(r, b, c) \/ <<b, c>> \in desk[r].missed
    <2>1. b = a /\ row[c] # accounts[a][c]
        BY <1>1
    <2>2. c \in {"login", "active", "roleId"}
        BY DEF Columns
    <2> QED
        BY <2>1, <2>2
<1>2. Changed(grants, grants') = {}
    BY DEF Changed
<1> QED
    BY <1>1, <1>2 DEF Justified

LEMMA SaveSignupInv ==
    ASSUME Inv, NEW r \in Requests, SaveSignup(r)
    PROVE  Inv' /\ Justified
<1> DEFINE a == desk[r].account
           n == lastLogin + 1
           row == [accounts[a] EXCEPT !.login = n, !.active = TRUE]
<1>1. /\ a \in Accounts /\ Knows(desk[r]) /\ desk[r].phase = "signing"
      /\ accounts \in [Accounts -> AccountRecords] /\ n \in Nat /\ n # 0
    BY Counts DEF SaveSignup, Knows, DeskOK, Holds
<1>2. SaveRow(r, row) /\ lastLogin' = n
    BY DEF SaveSignup
<1> HIDE DEF n, a
<1>3. /\ row \in AccountRecords /\ row.login = n /\ row.active = TRUE
      /\ row.roleId = accounts[a].roleId
    BY <1>1 DEF AccountRecords
<1> HIDE DEF row
<1>4. /\ Inv' /\ desk'[r] = Blank /\ grants' = grants
      /\ accounts' = [accounts EXCEPT ![a] = row]
    BY <1>1, <1>2, <1>3, SaveRowInv DEF a
<1>5. accounts[a] # NoAccount => <<a, "login">> \in desk[r].missed /\ <<a, "active">> \in desk[r].missed
    BY <1>1 DEF Knows, DeskOK, KnowsAccounts, a
<1>6. accounts[a] = NoAccount => Asked(r, a, "login") /\ Asked(r, a, "active")
    BY <1>1 DEF Asked, a
<1>7. Justified
    BY <1>1, <1>3, <1>4, <1>5, <1>6, RowJustified
<1> QED
    BY <1>4, <1>7

LEMMA ChangeLoginInv ==
    ASSUME Inv, NEW r \in Requests, ChangeLogin(r)
    PROVE  Inv' /\ Justified
<1> DEFINE a == desk[r].account
           n == lastLogin + 1
           row == [desk[r].row EXCEPT !.login = n]
<1>1. /\ a \in Accounts /\ Knows(desk[r]) /\ desk[r].phase = "account"
      /\ desk[r].row \in AccountRecords /\ lastLogin \in Nat /\ n \in Nat /\ n # 0
      /\ accounts \in [Accounts -> AccountRecords]
    BY Counts DEF ChangeLogin, Knows, DeskOK, Holds
<1>2. SaveRow(r, row) /\ lastLogin' = n /\ lastLogin' # lastLogin
    BY <1>1 DEF ChangeLogin
<1> HIDE DEF n, a
<1>3. /\ row \in AccountRecords /\ row.login = n /\ row.active = desk[r].row.active
      /\ row.roleId = desk[r].row.roleId
    BY <1>1 DEF AccountRecords
<1> HIDE DEF row
<1>4. /\ accounts[a] # NoAccount
      /\ desk[r].row.active # accounts[a].active => <<a, "active">> \in desk[r].missed
      /\ desk[r].row.roleId # accounts[a].roleId => <<a, "roleId">> \in desk[r].missed
    BY <1>1 DEF Knows, DeskOK, KnowsAccounts, a
<1>5. /\ Inv' /\ desk'[r] = Blank /\ grants' = grants
      /\ accounts' = [accounts EXCEPT ![a] = row]
    BY <1>1, <1>2, <1>3, <1>4, SaveRowInv DEF a
<1>6. Asked(r, a, "login")
    BY <1>1, <1>2 DEF Asked, a
<1>7. Justified
    BY <1>1, <1>3, <1>4, <1>5, <1>6, RowJustified
<1> QED
    BY <1>5, <1>7

LEMMA SetActiveInv ==
    ASSUME Inv, NEW r \in Requests, NEW active \in BOOLEAN, SetActive(r, active)
    PROVE  Inv' /\ Justified
<1> DEFINE a == desk[r].account
           row == [desk[r].row EXCEPT !.active = active]
<1>1. /\ a \in Accounts /\ Knows(desk[r]) /\ desk[r].phase = "account"
      /\ desk[r].row \in AccountRecords /\ lastLogin \in Nat
      /\ accounts \in [Accounts -> AccountRecords]
    BY Counts DEF SetActive, Knows, DeskOK, Holds
<1>2. SaveRow(r, row) /\ lastLogin' = lastLogin
    BY DEF SetActive
<1> HIDE DEF a
<1>3. /\ row \in AccountRecords /\ row.login = desk[r].row.login /\ row.roleId = desk[r].row.roleId
    BY <1>1 DEF AccountRecords
<1> HIDE DEF row
<1>4. /\ accounts[a] # NoAccount /\ desk[r].row.login # 0
      /\ desk[r].row.login # accounts[a].login => <<a, "login">> \in desk[r].missed
      /\ desk[r].row.roleId # accounts[a].roleId => <<a, "roleId">> \in desk[r].missed
    BY <1>1 DEF Knows, DeskOK, Holds, KnowsAccounts, a
<1>5. /\ Inv' /\ desk'[r] = Blank /\ grants' = grants
      /\ accounts' = [accounts EXCEPT ![a] = row]
    BY <1>1, <1>2, <1>3, <1>4, SaveRowInv DEF a
<1>6. Asked(r, a, "active")
    BY <1>1, <1>2 DEF Asked, a
<1>7. Justified
    BY <1>1, <1>3, <1>4, <1>5, <1>6, RowJustified
<1> QED
    BY <1>5, <1>7

LEMMA AssignRoleInv ==
    ASSUME Inv, NEW r \in Requests, AssignRole(r)
    PROVE  Inv' /\ Justified
<1> DEFINE a == desk[r].account
           row == desk[r].row
<1>1. /\ a \in Accounts /\ Knows(desk[r]) /\ desk[r].phase = "assigning"
      /\ row \in AccountRecords /\ lastLogin \in Nat
      /\ accounts \in [Accounts -> AccountRecords]
    BY Counts DEF AssignRole, Knows, DeskOK, Holds
<1>2. SaveRow(r, row) /\ lastLogin' = lastLogin
    BY DEF AssignRole
<1>3. /\ accounts[a] # NoAccount /\ row.login # 0
      /\ row.login # accounts[a].login => <<a, "login">> \in desk[r].missed
      /\ row.active # accounts[a].active => <<a, "active">> \in desk[r].missed
    BY <1>1 DEF Knows, DeskOK, Holds, KnowsAccounts
<1> HIDE DEF a, row
<1>4. /\ Inv' /\ desk'[r] = Blank /\ grants' = grants
      /\ accounts' = [accounts EXCEPT ![a] = row]
    BY <1>1, <1>2, <1>3, SaveRowInv DEF a
<1>5. Asked(r, a, "roleId")
    BY <1>1 DEF Asked, a
<1>6. Justified
    BY <1>1, <1>3, <1>4, <1>5, RowJustified
<1> QED
    BY <1>4, <1>6

\* role_permissions after a save of a role, or of a permission, with its `links'.
RoleGrants(id, links) == {g \in grants : g[1] # id} \union {<<id, p>> : p \in links}
PermissionGrants(id, links) == {g \in grants : g[2] # id} \union {<<x, id>> : x \in links}

\* The pairs that a save of a role changes, and those that a save of a permission changes.
LEMMA ChangedOfRole ==
    ASSUME Inv, NEW links \in SUBSET Nat, NEW id \in Nat, NEW kept,
           kept = RoleGrants(id, links)
    PROVE  /\ kept \subseteq Nat \X Nat /\ Changed(grants, kept) \subseteq Nat \X Nat
           /\ \A g \in kept : g \in grants \/ (g[1] = id /\ g[2] \in links)
           /\ \A g \in Changed(grants, kept) :
                 g[1] = id /\ g = <<id, g[2]>> /\ g[2] \in Nat
                    /\ (g[2] \in links) # (<<id, g[2]>> \in grants)
<1>1. grants \subseteq Nat \X Nat
    BY DEF Inv, TablesOK, GrantsOK
<1> QED
    BY <1>1 DEF Changed, RoleGrants

LEMMA ChangedOfPermission ==
    ASSUME Inv, NEW links \in SUBSET Nat, NEW id \in Nat, NEW kept,
           kept = PermissionGrants(id, links)
    PROVE  /\ kept \subseteq Nat \X Nat /\ Changed(grants, kept) \subseteq Nat \X Nat
           /\ \A g \in kept : g \in grants \/ (g[2] = id /\ g[1] \in links)
           /\ \A g \in Changed(grants, kept) :
                 g[2] = id /\ g = <<g[1], id>> /\ g[1] \in Nat
                    /\ (g[1] \in links) # (<<g[1], id>> \in grants)
<1>1. grants \subseteq Nat \X Nat
    BY DEF Inv, TablesOK, GrantsOK
<1> QED
    BY <1>1 DEF Changed, PermissionGrants

\* A step that writes grants only.
LEMMA GrantsJustified ==
    ASSUME NEW r \in Requests, desk[r].phase # "idle", desk'[r] = Blank, accounts' = accounts,
           \A g \in Changed(grants, grants') : Regranting(r, g[1]) \/ g \in desk[r].late
    PROVE  Justified
BY DEF Justified

\* A step that writes grants, and rows of roles or permissions.
LEMMA GrantsKeep ==
    ASSUME Inv, TablesOK', NEW r \in Requests,
           Written(r, {}, Changed(grants, grants')), UNCHANGED accounts,
           lastRole <= lastRole', lastPermission <= lastPermission'
    PROVE  Inv'
<1>1. Changed(grants, grants') \in SUBSET (Nat \X Nat)
    BY DEF Inv, TablesOK, GrantsOK, Changed
<1>2. {} \in SUBSET (Accounts \X Columns)
    OBVIOUS
<1> HIDE DEF Changed
<1> QED
    BY <1>1, <1>2, WriteKeeps

\* The row of a role goes in under an id, and no other row has its name.
LEMMA RolePut ==
    ASSUME Inv, NEW id \in Nat \ {0}, NEW row \in RoleRecords, row.id = id,
           id \in 1..NumSystem => row = SystemRow(id),
           \A x \in roles : x.name = row.name => x.id = id,
           roles' = {x \in roles : x.id # id} \union {row},
           lastRole' \in Nat, lastRole <= lastRole', id <= lastRole'
    PROVE  RolesOK' /\ RoleIds' = RoleIds \union {id}
<1>1. /\ roles \subseteq RoleRecords /\ NumSystem <= lastRole /\ NumSystem \in Nat
      /\ \A x \in roles : x.id \in 1..lastRole
      /\ \A x, y \in roles : x.id = y.id \/ x.name = y.name => x = y
      /\ \A n \in 1..NumSystem : SystemRow(n) \in roles
      /\ lastRole \in Nat
    BY NumAssumption DEF Inv, TablesOK, RolesOK
<1>2. roles' \subseteq RoleRecords /\ \A x \in roles' : x.id \in 1..lastRole'
    BY <1>1 DEF RoleRecords
<1>3. \A x, y \in roles' : x.id = y.id \/ x.name = y.name => x = y
    BY <1>1
<1>4. \A n \in 1..NumSystem : SystemRow(n) \in roles'
    <2>1. \A n \in 1..NumSystem : SystemRow(n).id = n
        BY DEF SystemRow
    <2> QED
        BY <1>1, <2>1
<1>5. RoleIds' = RoleIds \union {id}
    BY DEF RoleIds
<1> QED
    BY <1>1, <1>2, <1>3, <1>4, <1>5 DEF RolesOK

LEMMA SaveDefaultsInv ==
    ASSUME Inv, NEW r \in Requests, SaveDefaults(r)
    PROVE  Inv' /\ Justified
<1> DEFINE id == desk[r].role.id
           links == desk[r].links
           kept == {g \in grants : g[1] # id} \union {<<id, p>> : p \in links}
<1>1. /\ Knows(desk[r]) /\ desk[r] \in DeskRecords /\ desk[r].phase = "seeded"
      /\ desk[r].role \in RoleRecords /\ id \in Nat \ {0} /\ id <= lastRole
      /\ id \in 1..NumSystem => desk[r].role = SystemRow(id)
      /\ links \in SUBSET Nat
    BY Counts DEF SaveDefaults, Knows, DeskOK, Holds, DeskRecords
<1>2. /\ \A x \in roles : x.name = desk[r].role.name => x.id = id
      /\ links \subseteq PermissionIds
      /\ roles' = {x \in roles : x.id # id} \union {desk[r].role}
      /\ grants' = kept /\ Written(r, {}, Changed(grants, kept))
      /\ UNCHANGED <<lastRole, permissions, lastPermission, accounts, lastLogin>>
    BY DEF SaveDefaults
<1>3. /\ kept \subseteq Nat \X Nat
      /\ \A g \in kept : g \in grants \/ (g[1] = id /\ g[2] \in links)
      /\ \A g \in Changed(grants, kept) :
            g[1] = id /\ g = <<id, g[2]>> /\ g[2] \in Nat /\ (g[2] \in links) # (<<id, g[2]>> \in grants)
    <2>1. kept = RoleGrants(id, links)
        BY DEF RoleGrants
    <2>2. id \in Nat /\ links \in SUBSET Nat
        BY <1>1
    <2> HIDE DEF id, links, kept
    <2> QED
        BY <2>1, <2>2, ChangedOfRole
<1> HIDE DEF id, kept, links
<1>4. RolesOK' /\ RoleIds' = RoleIds \union {id}
    BY <1>1, <1>2, Counts, RolePut DEF id
<1>5. TablesOK'
    <2>1. PermissionsOK' /\ PermissionIds' = PermissionIds
        BY <1>2 DEF Inv, TablesOK, PermissionsOK, PermissionIds
    <2>2. GrantsOK'
        BY <1>2, <1>3, <1>4, <2>1 DEF Inv, TablesOK, GrantsOK
    <2>3. AccountsOK'
        BY <1>2, <1>4 DEF Inv, TablesOK, AccountsOK
    <2> QED
        BY <1>4, <2>1, <2>2, <2>3 DEF TablesOK
<1>6. Inv'
    BY <1>2, <1>5, Counts, GrantsKeep
<1>7. \A g \in Changed(grants, grants') : Regranting(r, g[1])
    BY <1>1, <1>2, <1>3 DEF Regranting, id
<1>8. desk[r].phase # "idle" /\ desk'[r] = Blank
    BY <1>1, <1>2, WritingDone
<1> QED
    BY <1>2, <1>6, <1>7, <1>8, GrantsJustified

LEMMA RemoveRoleInv ==
    ASSUME Inv, NEW r \in Requests, RemoveRole(r)
    PROVE  Inv' /\ Justified
<1> DEFINE id == desk[r].role.id
           kept == {g \in grants : g[1] # id}
<1>1. /\ Knows(desk[r]) /\ desk[r].phase = "counted" /\ id \in Nat /\ id > NumSystem
      /\ NumSystem \in Nat
    BY Counts DEF RemoveRole, Knows, DeskOK, Holds
<1>2. /\ HoldersOf(id) = {}
      /\ roles' = {x \in roles : x.id # id}
      /\ grants' = kept /\ Written(r, {}, grants \ kept)
      /\ UNCHANGED <<lastRole, permissions, lastPermission, accounts, lastLogin>>
    BY DEF RemoveRole
<1>3. kept \subseteq grants /\ Changed(grants, kept) = grants \ kept
      /\ (\A g \in grants \ kept : g[1] = id) /\ (\A g \in kept : g[1] # id)
    BY DEF Changed
<1> HIDE DEF id, kept
<1>4. RolesOK' /\ RoleIds' = RoleIds \ {id}
    <2>1. RoleIds' = RoleIds \ {id}
        BY <1>2 DEF RoleIds
    <2>2. \A n \in 1..NumSystem : SystemRow(n).id = n
        BY DEF SystemRow
    <2>3. RolesOK'
        BY <1>1, <1>2, <2>2 DEF Inv, TablesOK, RolesOK
    <2> QED
        BY <2>1, <2>3
<1>5. TablesOK'
    <2>1. PermissionsOK' /\ PermissionIds' = PermissionIds
        BY <1>2 DEF Inv, TablesOK, PermissionsOK, PermissionIds
    <2>2. GrantsOK'
        BY <1>2, <1>3, <1>4, <2>1 DEF Inv, TablesOK, GrantsOK
    <2>3. AccountsOK'
        BY <1>1, <1>2, <1>4 DEF Inv, TablesOK, AccountsOK, HoldersOf
    <2> QED
        BY <1>4, <2>1, <2>2, <2>3 DEF TablesOK
<1>6. Inv'
    <2>1. Written(r, {}, Changed(grants, grants'))
        BY <1>2, <1>3
    <2>2. lastRole <= lastRole' /\ lastPermission <= lastPermission' /\ UNCHANGED accounts
        BY <1>2, Counts
    <2> QED
        BY <1>5, <2>1, <2>2, GrantsKeep
<1>7. \A g \in Changed(grants, grants') : Regranting(r, g[1])
    BY <1>1, <1>2, <1>3 DEF Regranting, id
<1>8. desk[r].phase # "idle" /\ desk'[r] = Blank
    BY <1>1, <1>2, WritingDone
<1> QED
    BY <1>2, <1>6, <1>7, <1>8, GrantsJustified

LEMMA SavePermissionInv ==
    ASSUME Inv, NEW r \in Requests, SavePermission(r)
    PROVE  Inv' /\ Justified
<1> DEFINE d == desk[r]
           id == IF d.perm.id = 0 THEN lastPermission + 1 ELSE d.perm.id
           links == d.links
           row == [d.perm EXCEPT !.id = id]
           kept == {g \in grants : g[2] # id} \union {<<x, id>> : x \in links}
<1>1. /\ Knows(d) /\ d \in DeskRecords /\ d.phase \in {"permission", "retitled"}
      /\ d.perm \in PermissionRecords /\ id \in Nat \ {0} /\ links \in SUBSET Nat
      /\ d.perm.id \in Nat /\ lastPermission \in Nat
    BY Counts DEF SavePermission, Knows, DeskOK, Holds, DeskRecords
<1>2. /\ \A p \in permissions : p.name = d.perm.name => p.id = id
      /\ links \subseteq RoleIds
      /\ permissions' = {p \in permissions : p.id # id} \union {row}
      /\ lastPermission' = IF d.perm.id = 0 THEN id ELSE lastPermission
      /\ grants' = kept /\ Written(r, {}, Changed(grants, kept))
      /\ UNCHANGED <<roles, lastRole, accounts, lastLogin>>
    BY DEF SavePermission
<1>3. /\ kept \subseteq Nat \X Nat
      /\ \A g \in kept : g \in grants \/ (g[2] = id /\ g[1] \in links)
      /\ \A g \in Changed(grants, kept) :
            g[2] = id /\ g = <<g[1], id>> /\ g[1] \in Nat /\ (g[1] \in links) # (<<g[1], id>> \in grants)
    <2>1. kept = PermissionGrants(id, links)
        BY DEF PermissionGrants
    <2>2. id \in Nat /\ links \in SUBSET Nat
        BY <1>1
    <2> HIDE DEF id, links, kept
    <2> QED
        BY <2>1, <2>2, ChangedOfPermission
<1>4. row \in PermissionRecords /\ row.id = id /\ row.name = d.perm.name
    BY <1>1 DEF PermissionRecords
<1>5. lastPermission' \in Nat /\ lastPermission <= lastPermission' /\ id <= lastPermission'
    BY <1>1, <1>2 DEF Knows, DeskOK, Holds
<1>6. \A g \in Changed(grants, kept) : g \in d.late
    <2>1. CASE d.perm.id = 0
        <3>1. links = {}
            BY <1>1, <2>1 DEF Knows, DeskOK, Holds
        <3>2. \A g \in grants : g[2] \in PermissionIds
            BY DEF Inv, TablesOK, GrantsOK
        <3>3. id \notin PermissionIds
            BY <1>1, <2>1 DEF Inv, TablesOK, PermissionsOK, PermissionIds
        <3>4. ASSUME NEW g \in Changed(grants, kept) PROVE FALSE
            <4>1. g[2] = id /\ g = <<g[1], id>> /\ <<g[1], id>> \in grants
                BY <1>3, <3>1
            <4> QED
                BY <3>2, <3>3, <4>1
        <3> QED
            BY <3>4
    <2>2. CASE d.perm.id # 0
        <3>1. id = d.perm.id
            BY <2>2
        <3>2. \A x \in Nat : (x \in links) # (<<x, id>> \in grants) => <<x, id>> \in d.late
            BY <1>1, <2>2, <3>1 DEF Knows, DeskOK, KnowsGrants
        <3> QED
            BY <1>3, <3>2
    <2> QED
        BY <2>1, <2>2
<1>7. d.phase # "idle"
    BY <1>1
<1> HIDE DEF row, id, links, kept, d
<1>8. PermissionsOK' /\ PermissionIds' = PermissionIds \union {id}
    <2>1. PermissionIds' = PermissionIds \union {id}
        BY <1>2, <1>4 DEF PermissionIds
    <2>2. PermissionsOK'
        BY <1>1, <1>2, <1>4, <1>5 DEF Inv, TablesOK, PermissionsOK
    <2> QED
        BY <2>1, <2>2
<1>9. TablesOK'
    <2>1. RolesOK' /\ RoleIds' = RoleIds
        BY <1>2 DEF Inv, TablesOK, RolesOK, RoleIds
    <2>2. GrantsOK'
        BY <1>2, <1>3, <1>8, <2>1 DEF Inv, TablesOK, GrantsOK
    <2>3. AccountsOK'
        BY <1>2, <2>1 DEF Inv, TablesOK, AccountsOK
    <2> QED
        BY <1>8, <2>1, <2>2, <2>3 DEF TablesOK
<1>10. Inv'
    BY <1>2, <1>5, <1>9, Counts, GrantsKeep
<1>11. desk'[r] = Blank
    BY <1>2, WritingDone
<1> QED
    BY <1>2, <1>6, <1>7, <1>10, <1>11, GrantsJustified DEF d

LEMMA RemovePermissionInv ==
    ASSUME Inv, NEW r \in Requests, RemovePermission(r)
    PROVE  Inv' /\ Justified
<1> DEFINE id == desk[r].perm.id
           kept == {g \in grants : g[2] # id}
<1>1. /\ Knows(desk[r]) /\ desk[r].phase = "unlisted" /\ id \in Nat
    BY Counts DEF RemovePermission
<1>2. /\ permissions' = {p \in permissions : p.id # id}
      /\ grants' = kept /\ Written(r, {}, grants \ kept)
      /\ UNCHANGED <<roles, lastRole, lastPermission, accounts, lastLogin>>
    BY DEF RemovePermission
<1>3. kept \subseteq grants /\ Changed(grants, kept) = grants \ kept
      /\ (\A g \in grants \ kept : g[2] = id) /\ (\A g \in kept : g[2] # id)
    BY DEF Changed
<1>4. grants \subseteq Nat \X Nat
    BY DEF Inv, TablesOK, GrantsOK
<1>5. \A x \in Nat : <<x, id>> \in grants => <<x, id>> \in desk[r].late
    BY <1>1 DEF Knows, DeskOK, KnowsGrants
<1>6. \A g \in grants \ kept : g \in desk[r].late
    <2>1. ASSUME NEW g \in grants \ kept
          PROVE  g = <<g[1], id>> /\ g[1] \in Nat
        BY <1>3, <1>4
    <2> QED
        BY <1>5, <2>1
<1> HIDE DEF id, kept
<1>7. TablesOK'
    <2>1. RolesOK' /\ RoleIds' = RoleIds
        BY <1>2 DEF Inv, TablesOK, RolesOK, RoleIds
    <2>2. PermissionsOK' /\ PermissionIds' = PermissionIds \ {id}
        BY <1>2 DEF Inv, TablesOK, PermissionsOK, PermissionIds
    <2>3. GrantsOK'
        BY <1>2, <1>3, <2>1, <2>2 DEF Inv, TablesOK, GrantsOK
    <2>4. AccountsOK'
        BY <1>2, <2>1 DEF Inv, TablesOK, AccountsOK
    <2> QED
        BY <2>1, <2>2, <2>3, <2>4 DEF TablesOK
<1>8. Inv'
    <2>1. Written(r, {}, Changed(grants, grants'))
        BY <1>2, <1>3
    <2>2. lastRole <= lastRole' /\ lastPermission <= lastPermission' /\ UNCHANGED accounts
        BY <1>2, Counts
    <2> QED
        BY <1>7, <2>1, <2>2, GrantsKeep
<1>9. desk[r].phase # "idle" /\ desk'[r] = Blank
    BY <1>1, <1>2, WritingDone
<1> QED
    BY <1>2, <1>3, <1>6, <1>8, <1>9, GrantsJustified

LEMMA SaveRoleInv ==
    ASSUME Inv, NEW r \in Requests, SaveRole(r)
    PROVE  Inv' /\ Justified
<1> DEFINE d == desk[r]
           id == IF d.role.id = 0 THEN lastRole + 1 ELSE d.role.id
           links == d.links
           row == [d.role EXCEPT !.id = id]
           kept == {g \in grants : g[1] # id} \union {<<id, p>> : p \in links}
           given == [a \in Accounts |->
                        IF a \in d.holders THEN [accounts[a] EXCEPT !.roleId = id]
                        ELSE IF accounts[a].roleId = id THEN [accounts[a] EXCEPT !.roleId = 0]
                        ELSE accounts[a]]
           cells == {<<a, "roleId">> : a \in {b \in Accounts : given[b] # accounts[b]}}
<1>1. /\ Knows(d) /\ d \in DeskRecords /\ d.phase \in {"naming", "editing", "renamed", "chosen"}
      /\ d.role \in RoleRecords /\ id \in Nat \ {0} /\ links \in SUBSET Nat
      /\ d.role.id \in Nat /\ lastRole \in Nat /\ accounts \in [Accounts -> AccountRecords]
    BY Counts DEF SaveRole, Knows, DeskOK, Holds, DeskRecords
<1>2. /\ \A x \in roles : x.name = d.role.name => x.id = id
      /\ links \subseteq PermissionIds
      /\ roles' = {x \in roles : x.id # id} \union {row}
      /\ lastRole' = IF d.role.id = 0 THEN id ELSE lastRole
      /\ grants' = kept /\ accounts' = given
      /\ Written(r, cells, Changed(grants, kept))
      /\ UNCHANGED <<permissions, lastPermission, lastLogin>>
    BY DEF SaveRole
<1>3. /\ kept \subseteq Nat \X Nat /\ Changed(grants, kept) \subseteq Nat \X Nat
      /\ \A g \in kept : g \in grants \/ (g[1] = id /\ g[2] \in links)
      /\ \A g \in Changed(grants, kept) :
            g[1] = id /\ g = <<id, g[2]>> /\ g[2] \in Nat /\ (g[2] \in links) # (<<id, g[2]>> \in grants)
    <2>1. kept = RoleGrants(id, links)
        BY DEF RoleGrants
    <2>2. id \in Nat /\ links \in SUBSET Nat
        BY <1>1
    <2> HIDE DEF id, links, kept
    <2> QED
        BY <2>1, <2>2, ChangedOfRole
<1>4. row \in RoleRecords /\ row.id = id /\ row.name = d.role.name
    <2> HIDE DEF id
    <2> QED
        BY <1>1 DEF RoleRecords
<1>5. lastRole' \in Nat /\ lastRole <= lastRole' /\ id <= lastRole'
    BY <1>1, <1>2 DEF Knows, DeskOK, Holds
<1>6. id \in 1..NumSystem => row = SystemRow(id)
    <2>1. NumSystem \in Nat /\ NumSystem <= lastRole
        BY NumAssumption DEF Inv, TablesOK, RolesOK
    <2>2. ASSUME id \in 1..NumSystem PROVE d.role.id = id
        BY <1>1, <2>1, <2>2
    <2>3. ASSUME id \in 1..NumSystem PROVE d.role = SystemRow(id)
        BY <1>1, <2>2, <2>3 DEF Knows, DeskOK, Holds
    <2>4. ASSUME id \in 1..NumSystem PROVE row = d.role
        <3> HIDE DEF id
        <3> QED
            BY <1>1, <2>2, <2>4 DEF RoleRecords
    <2> QED
        BY <2>3, <2>4
<1>7. d.role.id = 0 => /\ id \notin RoleIds /\ d.holders = {} /\ id = lastRole + 1
                       /\ (d.phase = "naming" => links = {})
    BY <1>1 DEF Knows, DeskOK, Holds, Inv, TablesOK, RolesOK, RoleIds
<1>8. d.role.id # 0 =>
         /\ id = d.role.id /\ d.phase # "naming"
         /\ \A a \in Accounts :
               /\ a \in d.holders => accounts[a] # NoAccount
               /\ (a \in d.holders) # (accounts[a].roleId = id) => <<a, "roleId">> \in d.missed
         /\ d.phase # "chosen" =>
               \A p \in Nat : (p \in links) # (<<id, p>> \in grants) => <<id, p>> \in d.late
    BY <1>1 DEF Knows, DeskOK, Holds, KnowsAccounts, KnowsGrants
<1>9. d.phase # "idle" /\ (d.phase = "chosen" => Regranting(r, id))
    BY <1>1 DEF Regranting
<1> HIDE DEF row, id, links, kept
<1>10. ASSUME NEW a \in Accounts
       PROVE  /\ given[a] \in AccountRecords
              /\ given[a].login = accounts[a].login /\ given[a].active = accounts[a].active
              /\ given[a].roleId \in {accounts[a].roleId, id, 0}
              /\ given[a].roleId # accounts[a].roleId =>
                     (a \in d.holders) # (accounts[a].roleId = id)
              /\ given[a].roleId = accounts[a].roleId => given[a] = accounts[a]
              /\ a \notin d.holders /\ accounts[a].roleId # id => given[a] = accounts[a]
    BY <1>1, <1>10 DEF AccountRecords
<1>11. cells \in SUBSET (Accounts \X Columns)
       /\ \A a \in Accounts : given[a] # accounts[a] => <<a, "roleId">> \in cells
    <2> HIDE DEF given
    <2> QED
        BY DEF Columns
<1>12. \A a \in Accounts : accounts[a].roleId \in RoleIds \union {0}
                            /\ (accounts[a] # NoAccount => accounts[a].login # 0)
    BY DEF Inv, TablesOK, AccountsOK
<1>13. given \in [Accounts -> AccountRecords]
    BY <1>10
<1> HIDE DEF given, cells
<1>14. \A a \in Accounts : accounts[a] = NoAccount => given[a] = NoAccount
    <2>1. SUFFICES ASSUME NEW a \in Accounts, accounts[a] = NoAccount PROVE given[a] = NoAccount
        OBVIOUS
    <2>2. a \notin d.holders
        BY <1>7, <1>8, <2>1
    <2>3. accounts[a].roleId # id
        BY <1>1, <2>1 DEF NoAccount
    <2> QED
        BY <1>10, <2>1, <2>2, <2>3
<1>15. \A a \in Accounts : accounts[a] # NoAccount => given[a] # NoAccount
    BY <1>10, <1>12 DEF NoAccount
<1>16. RolesOK' /\ RoleIds' = RoleIds \union {id}
    BY <1>1, <1>2, <1>4, <1>5, <1>6, RolePut
<1>17. TablesOK'
    <2>1. PermissionsOK' /\ PermissionIds' = PermissionIds
        BY <1>2 DEF Inv, TablesOK, PermissionsOK, PermissionIds
    <2>2. GrantsOK'
        BY <1>2, <1>3, <1>16, <2>1 DEF Inv, TablesOK, GrantsOK
    <2>3. \A a \in Accounts : /\ given[a].roleId \in RoleIds \union {id, 0}
                              /\ given[a] # NoAccount => given[a].login # 0
        BY <1>10, <1>12, <1>14
    <2>4. AccountsOK'
        BY <1>2, <1>13, <1>16, <2>3 DEF Inv, TablesOK, AccountsOK
    <2> QED
        BY <1>16, <2>1, <2>2, <2>4 DEF TablesOK
<1>18. Inv'
    <2>1. lastPermission <= lastPermission'
        BY <1>2, Counts
    <2>2. Changed(grants, kept) \in SUBSET (Nat \X Nat) /\ Changed(grants, grants') = Changed(grants, kept)
        BY <1>2, <1>3
    <2>3. /\ \A a \in Accounts : accounts'[a].login # accounts[a].login => <<a, "login">> \in cells
          /\ \A a \in Accounts : accounts'[a].active # accounts[a].active => <<a, "active">> \in cells
          /\ \A a \in Accounts : accounts'[a].roleId # accounts[a].roleId => <<a, "roleId">> \in cells
          /\ \A a \in Accounts : accounts[a] # NoAccount => accounts'[a] # NoAccount
          /\ \A a \in Accounts : accounts[a] = NoAccount /\ accounts'[a] # NoAccount =>
                                    <<a, "login">> \in cells /\ <<a, "active">> \in cells
        BY <1>2, <1>10, <1>11, <1>14, <1>15
    <2> QED
        BY <1>2, <1>5, <1>11, <1>17, <2>1, <2>2, <2>3, WriteKeeps
<1>19. desk'[r] = Blank
    BY <1>2, WritingDone
<1>20. ASSUME NEW a \in Accounts, NEW c \in Columns, accounts'[a][c] # accounts[a][c]
       PROVE  <<a, c>> \in d.missed
    <2>1. c = "roleId" /\ given[a].roleId # accounts[a].roleId
        BY <1>2, <1>10, <1>20 DEF Columns
    <2>2. (a \in d.holders) # (accounts[a].roleId = id)
        BY <1>10, <2>1
    <2>3. d.role.id # 0
        BY <1>1, <1>7, <1>12, <2>2
    <2> QED
        BY <1>8, <2>1, <2>2, <2>3
<1>21. ASSUME NEW g \in Changed(grants, grants')
       PROVE  Regranting(r, g[1]) \/ g \in d.late
    <2>1. g[1] = id /\ g = <<id, g[2]>> /\ g[2] \in Nat /\ (g[2] \in links) # (<<id, g[2]>> \in grants)
        BY <1>2, <1>3
    <2>2. CASE d.phase = "chosen"
        BY <1>9, <2>1, <2>2
    <2>3. CASE d.phase # "chosen" /\ d.role.id # 0
        BY <1>8, <2>1, <2>3
    <2>4. CASE d.phase # "chosen" /\ d.role.id = 0
        <3>1. d.phase = "naming"
            BY <1>1, <2>4 DEF Knows, DeskOK, Holds
        <3>2. links = {} /\ id \notin RoleIds
            BY <1>7, <2>4, <3>1
        <3>3. \A h \in grants : h[1] \in RoleIds
            BY DEF Inv, TablesOK, GrantsOK
        <3>4. g \in grants
            BY <2>1, <3>2
        <3> QED
            BY <2>1, <3>2, <3>3, <3>4
    <2> QED
        BY <2>2, <2>3, <2>4
<1>22. Justified
    BY <1>9, <1>19, <1>20, <1>21 DEF Justified, d
<1> QED
    BY <1>18, <1>22

-----------------------------------------------------------------------------
(* The theorems                                                            *)

LEMMA InitInv ==
    ASSUME Init
    PROVE  Inv
<1>1. NumSystem \in Nat /\ NumSeeded \in Nat
    BY NumAssumption
<1>2. /\ roles = {[id |-> n, name |-> n, active |-> TRUE, system |-> TRUE] : n \in 1..NumSystem}
      /\ lastRole = NumSystem
      /\ permissions = {[id |-> n, name |-> n] : n \in 1..NumSeeded}
      /\ lastPermission = NumSeeded
      /\ grants = {g \in (1..NumSystem) \X (1..NumSeeded) : g[2] \in DefaultGrants[g[1]]}
      /\ accounts = [a \in Accounts |-> NoAccount]
      /\ lastLogin = 0 /\ desk = [r \in Requests |-> Blank]
    BY DEF Init
<1>3. RolesOK
    <2>1. ASSUME NEW n \in 1..NumSystem
          PROVE  /\ SystemRow(n) \in RoleRecords
                 /\ SystemRow(n).id = n /\ SystemRow(n).name = n
        BY <1>1 DEF SystemRow, RoleRecords
    <2>2. roles = {SystemRow(n) : n \in 1..NumSystem}
        BY <1>2 DEF SystemRow
    <2> QED
        BY <1>1, <1>2, <2>1, <2>2 DEF RolesOK
<1>4. PermissionsOK
    BY <1>1, <1>2 DEF PermissionsOK, PermissionRecords
<1>5. 1..NumSystem \subseteq RoleIds /\ 1..NumSeeded \subseteq PermissionIds
    <2>1. ASSUME NEW n \in 1..NumSystem
          PROVE  n \in RoleIds
        <3>1. SystemRow(n) \in roles /\ SystemRow(n).id = n
            BY <1>2 DEF SystemRow
        <3> QED
            BY <3>1 DEF RoleIds
    <2>2. ASSUME NEW n \in 1..NumSeeded
          PROVE  n \in PermissionIds
        <3>1. [id |-> n, name |-> n] \in permissions /\ [id |-> n, name |-> n].id = n
            BY <1>2
        <3> QED
            BY <3>1 DEF PermissionIds
    <2> QED
        BY <2>1, <2>2
<1>6. GrantsOK
    BY <1>1, <1>2, <1>5 DEF GrantsOK
<1>7. AccountsOK
    BY <1>2 DEF AccountsOK, NoAccount, AccountRecords
<1>8. desk \in [Requests -> DeskRecords]
    BY <1>2, BlankFields
<1>9. \A r \in Requests : Knows(desk[r])
    BY <1>1, <1>2, BlankOK DEF Knows
<1> QED
    BY <1>3, <1>4, <1>6, <1>7, <1>8, <1>9 DEF Inv, TablesOK

\* An exception, a constraint, a failed query.
LEMMA GiveUpInv ==
    ASSUME Inv, NEW r \in Requests, GiveUp(r)
    PROVE  Inv'
<1>1. Become(r, Blank)
    BY DEF GiveUp
<1>2. Knows(Blank)
    BY Counts, BlankOK DEF Knows
<1> QED
    BY <1>1, <1>2, ReadKeeps

LEMMA ReadJustified ==
    ASSUME NEW r, NEW d, Become(r, d)
    PROVE  Justified
BY NothingToJustify DEF Become

\* One request moves: it keeps the invariant, and what it changes is justified.
LEMMA StepInv ==
    ASSUME Inv, Next
    PROVE  Inv' /\ Justified
<1>1. PICK r \in Requests :
       \/ \E n \in 1..NumNames, active \in BOOLEAN : CheckRoleName(r, n, active)
       \/ \E x \in roles, active \in BOOLEAN : LoadRole(r, x, active)
       \/ \E n \in 1..NumNames : RenameRole(r, n)
       \/ \E chosen \in SUBSET PermissionIds : ChoosePermissions(r, chosen)
       \/ SaveRole(r)
       \/ \E x \in roles : FindSystemRole(r, x)
       \/ FindDefaults(r)
       \/ SaveDefaults(r)
       \/ \E x \in roles : LoadRoleToDelete(r, x)
       \/ CountAccounts(r)
       \/ RemoveRole(r)
       \/ \E n \in 1..NumPermissionNames : CheckPermissionName(r, n)
       \/ \E p \in permissions : LoadPermission(r, p)
       \/ \E n \in 1..NumPermissionNames : RenamePermission(r, n)
       \/ SavePermission(r)
       \/ \E p \in permissions : LoadPermissionToDelete(r, p)
       \/ RemovePermission(r)
       \/ \E a \in Accounts : CheckSignup(r, a)
       \/ SaveSignup(r)
       \/ \E a \in Accounts : LoadAccount(r, a)
       \/ ChangeLogin(r)
       \/ \E active \in BOOLEAN : SetActive(r, active)
       \/ DeleteAccount(r)
       \/ RestoreAccount(r)
       \/ \E x \in roles : FindRoleToAssign(r, x)
       \/ AssignRole(r)
       \/ GiveUp(r)
    BY DEF Next
<1>2. CASE \E n \in 1..NumNames, active \in BOOLEAN : CheckRoleName(r, n, active)
    BY <1>2, CheckRoleNameInv, ReadJustified DEF CheckRoleName
<1>3. CASE \E x \in roles, active \in BOOLEAN : LoadRole(r, x, active)
    BY <1>3, LoadRoleInv, ReadJustified DEF LoadRole
<1>4. CASE \E n \in 1..NumNames : RenameRole(r, n)
    BY <1>4, RenameRoleInv, ReadJustified DEF RenameRole
<1>5. CASE \E chosen \in SUBSET PermissionIds : ChoosePermissions(r, chosen)
    BY <1>5, ChoosePermissionsInv, ReadJustified DEF ChoosePermissions
<1>6. CASE SaveRole(r)
    BY <1>6, SaveRoleInv
<1>7. CASE \E x \in roles : FindSystemRole(r, x)
    BY <1>7, HoldRole, ReadJustified DEF FindSystemRole
<1>8. CASE FindDefaults(r)
    BY <1>8, FindDefaultsInv, ReadJustified DEF FindDefaults
<1>9. CASE SaveDefaults(r)
    BY <1>9, SaveDefaultsInv
<1>10. CASE \E x \in roles : LoadRoleToDelete(r, x)
    BY <1>10, HoldRole, ReadJustified DEF LoadRoleToDelete
<1>11. CASE CountAccounts(r)
    BY <1>11, CountAccountsInv, ReadJustified DEF CountAccounts
<1>12. CASE RemoveRole(r)
    BY <1>12, RemoveRoleInv
<1>13. CASE \E n \in 1..NumPermissionNames : CheckPermissionName(r, n)
    BY <1>13, CheckPermissionNameInv, ReadJustified DEF CheckPermissionName
<1>14. CASE \E p \in permissions : LoadPermission(r, p)
    BY <1>14, LoadPermissionInv, ReadJustified DEF LoadPermission
<1>15. CASE \E n \in 1..NumPermissionNames : RenamePermission(r, n)
    BY <1>15, RenamePermissionInv, ReadJustified DEF RenamePermission
<1>16. CASE SavePermission(r)
    BY <1>16, SavePermissionInv
<1>17. CASE \E p \in permissions : LoadPermissionToDelete(r, p)
    BY <1>17, LoadPermissionToDeleteInv, ReadJustified DEF LoadPermissionToDelete
<1>18. CASE RemovePermission(r)
    BY <1>18, RemovePermissionInv
<1>19. CASE \E a \in Accounts : CheckSignup(r, a)
    BY <1>19, CheckSignupInv, ReadJustified DEF CheckSignup
<1>20. CASE SaveSignup(r)
    BY <1>20, SaveSignupInv
<1>21. CASE \E a \in Accounts : LoadAccount(r, a)
    BY <1>21, LoadAccountInv, ReadJustified DEF LoadAccount
<1>22. CASE ChangeLogin(r)
    BY <1>22, ChangeLoginInv
<1>23. CASE \E active \in BOOLEAN : SetActive(r, active)
    BY <1>23, SetActiveInv
<1>24. CASE DeleteAccount(r)
    BY <1>24, SetActiveInv DEF DeleteAccount
<1>25. CASE RestoreAccount(r)
    BY <1>25, SetActiveInv DEF RestoreAccount
<1>26. CASE \E x \in roles : FindRoleToAssign(r, x)
    BY <1>26, FindRoleToAssignInv, ReadJustified DEF FindRoleToAssign
<1>27. CASE AssignRole(r)
    BY <1>27, AssignRoleInv
<1>28. CASE GiveUp(r)
    BY <1>28, GiveUpInv, ReadJustified DEF GiveUp
<1> QED
    BY <1>1, <1>2, <1>3, <1>4, <1>5, <1>6, <1>7, <1>8, <1>9, <1>10, <1>11, <1>12, <1>13, <1>14,
       <1>15, <1>16, <1>17, <1>18, <1>19, <1>20, <1>21, <1>22, <1>23, <1>24, <1>25, <1>26, <1>27,
       <1>28

LEMMA StutterInv ==
    ASSUME Inv, UNCHANGED vars
    PROVE  Inv'
BY DEF vars, Inv, TablesOK, RolesOK, PermissionsOK, GrantsOK, AccountsOK, RoleIds, PermissionIds,
       Knows

LEMMA Invariance == Spec => []Inv
<1>1. Init => Inv
    BY InitInv
<1>2. Inv /\ [Next]_vars => Inv'
    BY StepInv, StutterInv
<1> QED
    BY <1>1, <1>2, PTL DEF Spec

\* Whatever requests overlap, ids and names of roles and of permissions stay those of one
\* row, and what a request of the services holds is a copy of rows.
THEOREM TypeCorrect == Spec => []TypeOK
<1>1. Inv => TypeOK
    BY DEF Inv, TablesOK, RolesOK, PermissionsOK, GrantsOK, AccountsOK, TypeOK, DeskRecords
<1> QED
    BY <1>1, Invariance, PTL

\* deleteRole, updateRole and the saves of stale copies leave every system role as it was
\* seeded, and no account and no junction row names a role or permission that is gone.
THEOREM RolesAlwaysStand == Spec => []RolesStand
<1>1. Inv => RolesStand
    BY DEF Inv, TablesOK, RolesOK, GrantsOK, AccountsOK, RolesStand, SystemRow
<1> QED
    BY <1>1, Invariance, PTL

\* What `save' writes beyond its request's purpose is what another request wrote after the
\* load: a role, a login or a permission is lost in no other way.
THEOREM OverwritesNeedOverlap == Spec => OverwrittenOnlyByOverlap
<1>1. Inv /\ [Next]_vars => [Justified]_vars
    BY StepInv
<1>2. Spec => [][Justified]_vars
    BY <1>1, Invariance, PTL DEF Spec
<1> QED
    BY <1>2 DEF OverwrittenOnlyByOverlap, Justified
=============================================================================
