------------------------------ MODULE StartUp ------------------------------
(***************************************************************************)
(* What the server prepares one second after it starts (onModuleInit of    *)
(* the system module): default grading systems, a row of settings, the     *)
(* system roles and permissions.  Requests are served meanwhile, prepare   *)
(* the same things when they find none, and change them.  The process may  *)
(* stop between any two queries and start again.                           *)
(***************************************************************************)
EXTENDS Integers, FiniteSets

CONSTANTS
    Requests,       \* requests served at a time
    Server,         \* the process itself, at start-up
    NumFields,      \* columns of the settings
    NumRoles,       \* names 1..NumRoles, in the order of the enum ROLES; 0 is any other
    NumPermissions, \* the same for the constant PERMISSIONS
    MaxStops        \* times the process stops

ASSUME ServerAssumption == Server \notin Requests
ASSUME NumAssumption ==
    NumFields \in Nat /\ NumRoles \in Nat \ {0} /\ NumPermissions \in Nat \ {0} /\ MaxStops \in Nat

VARIABLES
    grading,        \* thresholds by level, NoRow without a row
    settings,       \* rows of settings; the one created last counts
    lastSettings,
    roles,          \* names with a row
    own,            \* those an administrator created: not system roles
    permissions,    \* names with a row
    desk,           \* what the server and each request are doing
    stops,
    meant,          \* history: what an administrator saved last, or the default; 0 is settings
    raced,          \* history: what was then written by someone who had not seen that
    taken,          \* history: names administrators gave to roles
    struck,         \* history: permissions administrators deleted
    clash,          \* history: one of those names was taken while a seeder was about to
    cutShort        \* history: the last start lost the race for a role and gave up

config == <<grading, settings, lastSettings, meant, raced>>
names == <<roles, own, permissions, taken, struck, clash, cutShort>>
vars == <<config, names, desk, stops>>

Actors == Requests \union {Server}

NoRow == <<>>

\* 1 is A Level, 2 is O Level: the order in which they are initialised.
Levels == 1..2

\* Thresholds from A* to E, then the grade below E.
SeededThresholds(level) ==
    IF level = 1 THEN <<90, 75, 65, 50, 40, 35, "F">> ELSE <<90, 70, 60, 50, 40, 35, "U">>

\* What an administrator may save instead.
OwnThresholds == <<85, 75, 65, 55, 45, 35, "U">>

Letters == <<"A*", "A", "B", "C", "D", "E">>

GradeBy(t, mark) ==
    LET reached == {i \in 1..6 : mark >= t[i]} IN
    IF reached = {} THEN t[7] ELSE Letters[CHOOSE i \in reached : \A j \in reached : i <= j]

\* computeGradeDefault: the scales are written out a second time.
Fallback(level, mark) ==
    IF level = 1 THEN GradeBy(<<90, 75, 65, 50, 40, 35, "F">>, mark)
    ELSE GradeBy(<<90, 70, 60, 50, 40, 35, "U">>, mark)

\* computeGrade needs no row as long as the two agree on every mark.
FallbackAgrees ==
    [l \in Levels |-> \A mark \in 0..100 : Fallback(l, mark) = GradeBy(SeededThresholds(l), mark)]

\* A column holds its default, 0, or another value.
Fields == 1..NumFields
Defaults == [f \in Fields |-> 0]

\* The row with the highest id is the one created last.
Newest == CHOOSE s \in settings : \A t \in settings : t.id <= s.id

InForce == IF settings = {} THEN Defaults ELSE Newest.value

NoSettings == [id |-> 0, value |-> Defaults]

\* `at' is a level or a place in a list of names; `new' and `row' what is to be saved.
\* `there' is whether the row of that level was found.  `stale' is history: what others
\* have saved since this actor began to look.
Blank ==
    [phase |-> "idle", at |-> 0, there |-> FALSE, new |-> NoRow, row |-> NoSettings, stale |-> {}]

Started == [p \in Actors |-> IF p = Server THEN [Blank EXCEPT !.phase = "grading"] ELSE Blank]

Init ==
    /\ grading = [l \in Levels |-> NoRow]
    /\ settings = {} /\ lastSettings = 0
    /\ roles = {} /\ own = {} /\ permissions = {}
    /\ desk = Started /\ stops = 0
    /\ meant = [k \in 0..2 |-> IF k = 0 THEN Defaults ELSE SeededThresholds(k)]
    /\ raced = {} /\ taken = {} /\ struck = {} /\ clash = FALSE /\ cutShort = FALSE

Become(p, d) == desk' = [desk EXCEPT ![p] = d]

\* Whether what an actor is doing rests on what it read of `k'; only the server's defaults
\* for a level do, an administrator replaces the row whatever it holds.
RestsOn(q, k) ==
    IF k = 0 THEN desk[q].phase \in {"creating", "first", "updating", "removing", "resetting"}
    ELSE q = Server /\ desk[q].phase \in {"level", "found"} /\ desk[q].at <= k

\* Actor p has saved `k': the others that rest on it did not see that.
Saved(p, d, k) ==
    desk' = [q \in Actors |->
                IF q = p THEN d
                ELSE IF RestsOn(q, k) THEN [desk[q] EXCEPT !.stale = @ \union {k}]
                ELSE desk[q]]

\* Where an actor goes after a part: the server to the next one, a request back.
After(p, phase) == IF p = Server THEN [Blank EXCEPT !.phase = phase, !.at = 1] ELSE Blank

-----------------------------------------------------------------------------
(* Grading systems                                                         *)

\* Mutant: the defaults are saved at every start.
CountGradingMutant(p) ==
    /\ desk[p].phase = "grading"
    /\ Become(p, [Blank EXCEPT !.phase = "level", !.at = 1, !.new = SeededThresholds(1)])
    /\ UNCHANGED <<config, names, stops>>

\* initializeDefaultGradingSystems: nothing to do if there is any row.
CountGrading(p) ==
    /\ desk[p].phase = "grading"
    /\ IF \E l \in Levels : grading[l] # NoRow
       THEN Become(p, After(p, "settings"))
       ELSE Become(p, [Blank EXCEPT !.phase = "level", !.at = 1, !.new = SeededThresholds(1)])
    /\ UNCHANGED <<config, names, stops>>

\* An administrator's saveGradingSystem; the find is the next step, as at start-up.
EditGrading(r, l) ==
    /\ desk[r].phase = "idle"
    /\ Become(r, [Blank EXCEPT !.phase = "level", !.at = l, !.new = OwnThresholds])
    /\ UNCHANGED <<config, names, stops>>

FindLevel(p) ==
    /\ desk[p].phase = "level"
    /\ Become(p, [desk[p] EXCEPT !.phase = "found", !.there = grading[desk[p].at] # NoRow])
    /\ UNCHANGED <<config, names, stops>>

\* Mutant: of a row that was found only the thresholds are replaced.
ScaleToSaveMutant(p) ==
    IF desk[p].there THEN [desk[p].new EXCEPT ![7] = grading[desk[p].at][7]] ELSE desk[p].new

\* Thresholds and failing grade, over a row that was found or into a new one.
ScaleToSave(p) == desk[p].new

\* Level is unique: inserting a row that is there by now fails, which ends this part.
SaveLevel(p) ==
    LET l == desk[p].at IN
    /\ desk[p].phase = "found"
    /\ IF ~desk[p].there /\ grading[l] # NoRow
       THEN Become(p, After(p, "settings")) /\ UNCHANGED config
       ELSE /\ grading' = [grading EXCEPT ![l] = ScaleToSave(p)]
            /\ meant' = IF p = Server THEN meant ELSE [meant EXCEPT ![l] = desk[p].new]
            /\ raced' = IF p # Server THEN raced \ {l}
                        ELSE IF l \in desk[p].stale THEN raced \union {l} ELSE raced
            /\ Saved(p, IF p = Server /\ l = 1
                        THEN [desk[p] EXCEPT !.phase = "level", !.at = 2, !.there = FALSE,
                                             !.new = SeededThresholds(2)]
                        ELSE After(p, "settings"), l)
            /\ UNCHANGED <<settings, lastSettings>>
    /\ UNCHANGED <<names, stops>>

-----------------------------------------------------------------------------
(* Settings: getSettings, updateSettings, resetToDefaults                  *)

\* getSettings, by the server or by any request.
FindSettings(p) ==
    /\ desk[p].phase = IF p = Server THEN "settings" ELSE "idle"
    /\ Become(p, IF settings = {} THEN [Blank EXCEPT !.phase = "creating"]
                                  ELSE After(p, "role"))
    /\ UNCHANGED <<config, names, stops>>

\* updateSettings of column f: it changes the row loaded, or one it first creates.
LoadSettings(r, f) ==
    /\ desk[r].phase = "idle"
    /\ Become(r, IF settings = {}
                 THEN [Blank EXCEPT !.phase = "first", !.at = f, !.row.value[f] = 1]
                 ELSE [Blank EXCEPT !.phase = "updating", !.at = f,
                                    !.row = [Newest EXCEPT !.value[f] = 1]])
    /\ UNCHANGED <<config, names, stops>>

LoadToReset(r) ==
    /\ desk[r].phase = "idle"
    /\ Become(r, IF settings = {} THEN [Blank EXCEPT !.phase = "resetting"]
                 ELSE [Blank EXCEPT !.phase = "removing", !.row = Newest])
    /\ UNCHANGED <<config, names, stops>>

\* With the row gone an older one may show, if two had been created.
RemoveSettings(r) ==
    LET left == {s \in settings : s.id # desk[r].row.id} IN
    /\ desk[r].phase = "removing"
    /\ settings' = left
    /\ meant' = [meant EXCEPT ![0] = Defaults]
    /\ raced' = IF left = {} THEN raced \ {0} ELSE raced \union {0}
    /\ Saved(r, [Blank EXCEPT !.phase = "resetting"], 0)
    /\ UNCHANGED <<grading, lastSettings, names, stops>>

\* Another default row hides what was saved in one that came first.
CreateDefault(p) ==
    LET d == desk[p]
        id == lastSettings + 1 IN
    /\ d.phase \in {"creating", "first", "resetting"}
    /\ settings' = settings \union {[id |-> id, value |-> Defaults]}
    /\ lastSettings' = id
    /\ IF d.phase = "resetting"
       THEN meant' = [meant EXCEPT ![0] = Defaults] /\ raced' = raced \ {0}
       ELSE /\ raced' = IF 0 \in d.stale THEN raced \union {0} ELSE raced
            /\ UNCHANGED meant
    /\ Saved(p, IF d.phase = "first" THEN [d EXCEPT !.phase = "updating", !.row.id = id]
                ELSE After(p, "role"), 0)
    /\ UNCHANGED <<grading, names, stops>>

\* save(): the whole row, inserted again if it was removed.
SaveSettings(r) ==
    LET d == desk[r] IN
    /\ d.phase = "updating"
    /\ settings' = {s \in settings : s.id # d.row.id} \union {d.row}
    /\ meant' = [meant EXCEPT ![0][d.at] = 1]
    /\ raced' = IF 0 \in d.stale THEN raced \union {0} ELSE raced
    /\ Saved(r, Blank, 0)
    /\ UNCHANGED <<grading, lastSettings, names, stops>>

-----------------------------------------------------------------------------
(* Roles and permissions                                                   *)

\* The next place in the list of names, or what follows it.
Onward(p, last, phase) ==
    IF desk[p].at < last THEN [Blank EXCEPT !.phase = phase[1], !.at = desk[p].at + 1]
    ELSE After(p, phase[2])

\* Mutant: start-up leaves the permissions to the requests.
RoleLoopMutant == <<"role", "up">>

RoleLoop == <<"role", "permission">>
PermissionLoop == <<"permission", "up">>

\* findAllRoles and findAllPermissions seed an empty table.
CountRoles(r) ==
    /\ desk[r].phase = "idle" /\ roles = {}
    /\ Become(r, [Blank EXCEPT !.phase = "role", !.at = 1])
    /\ UNCHANGED <<config, names, stops>>

CountPermissions(r) ==
    /\ desk[r].phase = "idle" /\ permissions = {}
    /\ Become(r, [Blank EXCEPT !.phase = "permission", !.at = 1])
    /\ UNCHANGED <<config, names, stops>>

FindRole(p) ==
    /\ desk[p].phase = "role"
    /\ Become(p, IF desk[p].at \in roles THEN Onward(p, NumRoles, RoleLoop)
                 ELSE [desk[p] EXCEPT !.phase = "newRole"])
    /\ UNCHANGED <<config, names, stops>>

\* Names are unique: who comes second gets an error, and the server gives up what
\* follows, permissions included, until it starts again.
InsertRole(p) ==
    LET n == desk[p].at IN
    /\ desk[p].phase = "newRole"
    /\ roles' = roles \union {n}
    /\ Become(p, IF n \in roles THEN After(p, "up") ELSE Onward(p, NumRoles, RoleLoop))
    /\ cutShort' = (cutShort \/ (p = Server /\ n \in roles))
    /\ UNCHANGED <<config, own, permissions, taken, struck, clash, stops>>

FindPermission(p) ==
    /\ desk[p].phase = "permission"
    /\ Become(p, IF desk[p].at \in permissions THEN Onward(p, NumPermissions, PermissionLoop)
                 ELSE [desk[p] EXCEPT !.phase = "newPermission"])
    /\ UNCHANGED <<config, names, stops>>

InsertPermission(p) ==
    LET n == desk[p].at IN
    /\ desk[p].phase = "newPermission"
    /\ permissions' = permissions \union {n}
    /\ Become(p, IF n \in permissions THEN After(p, "up")
                 ELSE Onward(p, NumPermissions, PermissionLoop))
    /\ UNCHANGED <<config, roles, own, taken, struck, clash, cutShort, stops>>

\* An administrator's createRole and createPermission, deleteRole and deletePermission:
\* module Roles has their steps.  The name may be one of the enum.
CreateRole(n) ==
    /\ n \notin roles
    /\ roles' = roles \union {n} /\ own' = own \union {n} /\ taken' = taken \union {n}
    /\ clash' = (clash \/ \E p \in Actors : desk[p].phase = "newRole" /\ desk[p].at = n)
    /\ UNCHANGED <<config, permissions, struck, cutShort, desk, stops>>

\* Mutant: system roles can be deleted too.
DeleteRoleMutant(n) ==
    /\ n \in roles
    /\ roles' = roles \ {n} /\ own' = own \ {n}
    /\ UNCHANGED <<config, permissions, taken, struck, clash, cutShort, desk, stops>>

DeleteRole(n) ==
    /\ n \in own
    /\ roles' = roles \ {n} /\ own' = own \ {n}
    /\ UNCHANGED <<config, permissions, taken, struck, clash, cutShort, desk, stops>>

CreatePermission(n) ==
    /\ n \notin permissions
    /\ permissions' = permissions \union {n}
    /\ clash' = (clash \/ \E p \in Actors : desk[p].phase = "newPermission" /\ desk[p].at = n)
    /\ UNCHANGED <<config, roles, own, taken, struck, cutShort, desk, stops>>

DeletePermission(n) ==
    /\ n \in permissions
    /\ permissions' = permissions \ {n}
    /\ struck' = struck \union {n}
    /\ UNCHANGED <<config, roles, own, taken, clash, cutShort, desk, stops>>

-----------------------------------------------------------------------------

\* The process stops between two queries, and starts again.
Stop ==
    /\ stops < MaxStops
    /\ stops' = stops + 1
    /\ desk' = Started
    /\ cutShort' = FALSE
    /\ UNCHANGED <<config, roles, own, permissions, taken, struck, clash>>

\* What an actor does next without anybody's asking.
Proceed(p) ==
    \/ CountGrading(p) \/ FindLevel(p) \/ SaveLevel(p)
    \/ p = Server /\ FindSettings(p)
    \/ CreateDefault(p) \/ RemoveSettings(p) \/ SaveSettings(p)
    \/ FindRole(p) \/ InsertRole(p) \/ FindPermission(p) \/ InsertPermission(p)

Ask(r) ==
    \/ \E l \in Levels : EditGrading(r, l)
    \/ FindSettings(r)
    \/ \E f \in Fields : LoadSettings(r, f)
    \/ LoadToReset(r)
    \/ CountRoles(r)
    \/ CountPermissions(r)

Next ==
    \/ \E p \in Actors : Proceed(p)
    \/ \E r \in Requests : Ask(r)
    \/ \E n \in 0..NumRoles : CreateRole(n) \/ DeleteRole(n)
    \/ \E n \in 1..NumPermissions : CreatePermission(n) \/ DeletePermission(n)
    \/ Stop

\* The event loop runs whatever a query has answered, and PostgreSQL answers.
Fairness == \A p \in Actors : WF_vars(Proceed(p))

Spec == Init /\ [][Next]_vars /\ Fairness

-----------------------------------------------------------------------------
(* Properties                                                              *)

Rows == [id : Nat, value : [Fields -> 0..1]]
Scales == {SeededThresholds(1), SeededThresholds(2), OwnThresholds}

Phases ==
    {"idle", "grading", "level", "found", "settings", "creating", "first", "updating", "removing",
     "resetting", "role", "newRole", "permission", "newPermission", "up"}

TypeOK ==
    /\ grading \in [Levels -> Scales \union {NoRow}]
    /\ settings \subseteq Rows /\ lastSettings \in Nat
    /\ \A s \in settings : s.id \in 1..lastSettings
    /\ \A s, t \in settings : s.id = t.id => s = t
    /\ own \subseteq roles /\ roles \subseteq 0..NumRoles /\ permissions \subseteq 1..NumPermissions
    /\ desk \in [Actors -> [phase : Phases, at : Nat, there : BOOLEAN, new : Scales \union {NoRow},
                            row : Rows, stale : SUBSET (0..2)]]
    /\ \A p \in Actors : desk[p].phase \in {"grading", "settings", "up"} => p = Server
    /\ stops \in 0..MaxStops /\ raced \subseteq 0..2
    /\ taken \subseteq 0..NumRoles /\ struck \subseteq 1..NumPermissions
    /\ clash \in BOOLEAN /\ cutShort \in BOOLEAN

\* Grades and settings are the ones an administrator saved last, or the defaults, with
\* the rows there or not, however the process stops: something else is in force only if
\* it was written by a step that had read before that save.
ConfigurationLostOnlyByOverlap ==
    /\ \A l \in Levels : l \notin raced =>
          \/ grading[l] = meant[l]
          \/ grading[l] = NoRow /\ meant[l] = SeededThresholds(l) /\ FallbackAgrees[l]
    /\ 0 \notin raced => InForce = meant[0]

\* The abstract catalogue, entry by entry: a role with that name that cannot be deleted,
\* or that an administrator had made his own.
SystemRoles ==
    INSTANCE Catalogue WITH Entries <- 1..NumRoles,
                            present <- (1..NumRoles) \intersect ((roles \ own) \union taken)

\* Seeders and restarts, in whatever order, only ever add one system role at a time.
CatalogueOnlyGrows == SystemRoles!Growth

\* In spite of concurrent seeders and restarts every system role is there in the end, as
\* long as no administrator takes a name a seeder is about to insert; and every
\* permission that nobody deletes, unless the last start gave up at the roles.
SeedingCompletes ==
    []~clash =>
       /\ SystemRoles!Complete
       /\ <>[](cutShort \/ 1..NumPermissions \subseteq permissions \union struck)
=============================================================================
