----------------------------- MODULE Administration -----------------------------
(***************************************************************************)
(* The tables administrators keep: departments, their roles (titles) and   *)
(* heads, roles and permissions of the guard, and the administrators.      *)
(* Each create looks for a row of the same name, awaits, and inserts; an   *)
(* update loads, edits and saves without looking for namesakes.  Only some *)
(* of the tables have a unique index.  External: the indexes, the foreign  *)
(* keys, and save, which looks at the row and then writes what differs.    *)
(***************************************************************************)
EXTENDS Workplace

CONSTANTS
    Names,          \* of departments, titles, roles, permissions, people
    MaxRows,        \* rows a table gets
    MaxAdminCalls   \* requests in a behaviour

\* A department needs a name; the bounds are numbers; null is no name and no list
ASSUME AdminConstants ==
    /\ Names # {} /\ IsFiniteSet(Names) /\ None \notin Names
    /\ \A S \in SUBSET Names : S # None
    /\ MaxRows \in Nat \ {0} /\ MaxAdminCalls \in Nat

Tables == {"department", "title", "head", "role", "permission", "admin"}

VARIABLES
    table,     \* the rows of each table, by id
    given,     \* how many ids each table has given
    clerk,     \* the handler in each slot
    orders,    \* how many requests remain
    excused,   \* history: names two creates gave across each other, or an update
    granted,   \* history: the permissions a role was last given
    blurred    \* history: roles saved as loaded before another write of theirs

adminVars == <<table, given, clerk, orders, excused, granted, blurred>>

-----------------------------------------------------------------------------
(* Rows *)

\* name: of a head and of an administrator the person, or the address.  of: the
\* department of a title or a head, 0 for none.  grants: the permissions of a
\* role.  linked: an administrator has the staff row with that address
RegisterRow == [live : BOOLEAN, name : Names \cup {None}, of : 0..MaxRows,
                grants : SUBSET (1..MaxRows), linked : BOOLEAN]
Blank == [live |-> FALSE, name |-> None, of |-> 0, grants |-> {}, linked |-> FALSE]
NewRow(n, d, g) == [Blank EXCEPT !.live = TRUE, !.name = n, !.of = d, !.grants = g]

\* was: the row at the look of a save; fresh: permissions a role asks for that
\* were not found; decides: an update that names permissions; named: their ids
NoOrder == [op |-> "idle", in |-> "department", id |-> 0, object |-> Blank,
            was |-> Blank, fresh |-> {}, decides |-> FALSE, named |-> {},
            crossed |-> FALSE]
Ops == {"idle", "permit", "insert", "look", "write", "remove"}
Orders == [op : Ops, in : Tables, id : 0..MaxRows, object : RegisterRow,
           was : RegisterRow, fresh : SUBSET Names, decides : BOOLEAN,
           named : SUBSET (1..MaxRows), crossed : BOOLEAN]

Live(t) == {i \in 1..MaxRows : table[t][i].live}
InDepartment == {"title", "head"}

\* @Column({ unique: true }) of roles and permissions; the staff row of an
\* administrator is one to one, the address has no index
UniqueNames == {"role", "permission"}
Indexed(t, x, y) == x.name = y.name /\ (t \in UniqueNames \/ (x.linked /\ y.linked))

\* The row a create must not find: a head is a pair of staff and department,
\* the others go by name
Same(t, x, y) == x.name = y.name /\ (t = "head" => x.of = y.of)
Taken(t, x) == \E i \in Live(t) : Same(t, table[t][i], x)
TakenBy(t, x, id) == \E i \in Live(t) \ {id} : Same(t, table[t][i], x)

\* What the foreign keys ask of a row, and the unique indexes
Valid(t, x) == /\ x.of # 0 => x.of \in Live("department")
               /\ x.grants \subseteq Live("permission")
Accepted(t, x, id) ==
    Valid(t, x) /\ \A i \in Live(t) \ {id} : ~Indexed(t, table[t][i], x)

FirstDepartment == NewRow(CHOOSE n \in Names : TRUE, 0, {})

AdminInit ==
    /\ table = [t \in Tables |-> [i \in 1..MaxRows |->
          IF t = "department" /\ i = 1 THEN FirstDepartment ELSE Blank]]
    /\ given = [t \in Tables |-> IF t = "department" THEN 1 ELSE 0]
    /\ clerk = [s \in Slots |-> NoOrder]
    /\ orders = MaxAdminCalls
    /\ excused = {}
    /\ granted = [i \in 1..MaxRows |-> {}]
    /\ blurred = {}

-----------------------------------------------------------------------------
(* Requests of an administrator: isAdmin is looked up first *)

Ask(s, order) ==
    /\ orders > 0 /\ orders' = orders - 1
    /\ clerk[s].op = "idle"
    /\ clerk' = [clerk EXCEPT ![s] = order]
    /\ UNCHANGED <<table, given, excused, granted, blurred>>

Creation(t, x) == [NoOrder EXCEPT !.op = "insert", !.in = t, !.object = x]
AskCreateUnchecked(s, t, x) == Ask(s, Creation(t, x))
AskCreate(s, t, x) == ~Taken(t, x) /\ Ask(s, Creation(t, x))

\* DepartmentsService.create, DepartmentalRoleService.create,
\* HeadofdepartmentService.create, PermissionsService.create
CreateDepartment(s, n) == AskCreate(s, "department", NewRow(n, 0, {}))
CreateTitle(s, n, d) == /\ d \in Live("department")
                        /\ AskCreate(s, "title", NewRow(n, d, {}))
CreateHead(s, n, d)  == /\ d \in Live("department")
                        /\ AskCreate(s, "head", NewRow(n, d, {}))
CreatePermission(s, n) == AskCreate(s, "permission", NewRow(n, 0, {}))

\* AdminService.create, by anybody, and promoteStaffToAdmin look for the address
CreateAdmin(s, n) == AskCreate(s, "admin", NewRow(n, 0, {}))
PromoteStaff(s, n) == AskCreate(s, "admin", [NewRow(n, 0, {}) EXCEPT !.linked = TRUE])

\* RolesService.create and update: the permissions named, those there are and
\* those that must be made first
There(names) == {i \in Live("permission") : table["permission"][i].name \in names}
Missing(names) == {n \in names : \A i \in Live("permission") : table["permission"][i].name # n}
GrantsAdded(old, new) == old \cup new
Grants(old, new) == new
Permitting(order, names) ==
    [order EXCEPT !.op = IF Missing(names) = {} THEN @ ELSE "permit",
                  !.fresh = Missing(names), !.named = There(names),
                  !.object.grants = Grants(@, There(names))]
CreateRole(s, n, names) ==
    /\ ~Taken("role", NewRow(n, 0, {})) /\ names # {}
    /\ Ask(s, Permitting(Creation("role", NewRow(n, 0, {})), names))

\* update of each service: load, edit, save.  None and 0 are what the body leaves
\* out; a department it names must be there.
Or(asked, old) == IF asked = None THEN old ELSE asked
Update(t, i, x) == [NoOrder EXCEPT !.op = "look", !.in = t, !.id = i, !.object = x]
AskUpdate(s, t, i, n, d) ==
    /\ i \in Live(t) /\ t # "admin" /\ d \in Live("department") \cup {0}
    /\ d # 0 => t \in InDepartment
    /\ Ask(s, Update(t, i, [table[t][i] EXCEPT !.name = Or(n, @),
                                              !.of = IF d = 0 THEN @ ELSE d]))
\* RolesService.update that names permissions; the others save those it loaded
AskRegrant(s, i, n, names) ==
    /\ i \in Live("role") /\ names # {}
    /\ Ask(s, Permitting([Update("role", i, [table["role"][i] EXCEPT !.name = Or(n, @)])
                             EXCEPT !.decides = TRUE], names))

AskRemove(s, t, i) ==
    /\ i \in Live(t)
    /\ Ask(s, [NoOrder EXCEPT !.op = "remove", !.in = t, !.id = i])

-----------------------------------------------------------------------------
(* Writes *)

Goes(s, h) == clerk' = [clerk EXCEPT ![s] = h] /\ UNCHANGED orders
Finish(s) == Goes(s, NoOrder)
Refuse(s) == Finish(s) /\ UNCHANGED <<table, given, excused, granted, blurred>>

\* The same after a write: the handlers that learn nothing of it are marked
Crosses(s, Stale(_)) ==
    /\ clerk' = [c \in Slots |-> IF c = s THEN NoOrder
                                 ELSE [clerk[c] EXCEPT !.crossed = @ \/ Stale(clerk[c])]]
    /\ UNCHANGED orders

\* After row x is written under id: a create that has looked already and not found
\* x, and an update that has loaded the row
Written(s, t, id, x) ==
    Crosses(s, LAMBDA h : h.in = t /\ IF h.op = "insert" THEN Same(t, h.object, x)
                                                         ELSE h.id = id)

\* The missing permissions are made, all or none, and stay when the role is refused
Permit(s) ==
    LET h == clerk[s]
        ids == (given["permission"] + 1)..(given["permission"] + Cardinality(h.fresh)) IN
    /\ h.op = "permit" /\ ids \subseteq 1..MaxRows
    /\ IF \E i \in Live("permission") : table["permission"][i].name \in h.fresh
       THEN Refuse(s)
       ELSE /\ \E names \in [ids -> h.fresh] :
                 /\ \A i, j \in ids : names[i] = names[j] => i = j
                 /\ table' = [table EXCEPT !["permission"] = [i \in 1..MaxRows |->
                        IF i \in ids THEN NewRow(names[i], 0, {}) ELSE @[i]]]
            /\ given' = [given EXCEPT !["permission"] = @ + Cardinality(h.fresh)]
            /\ Goes(s, [h EXCEPT !.op = IF h.id = 0 THEN "insert" ELSE "look",
                                 !.fresh = {}, !.named = @ \cup ids,
                                 !.object.grants = @ \cup ids])
            /\ UNCHANGED <<excused, granted, blurred>>

\* save of a new row, under the next id, or refused
Excuse(h, x, due) == IF due THEN excused \cup {<<h.in, x.name>>} ELSE excused
Insert(s) ==
    LET h == clerk[s]  id == given[h.in] + 1 IN
    /\ h.op = "insert" /\ id <= MaxRows
    /\ IF Accepted(h.in, h.object, 0)
       THEN /\ table' = [table EXCEPT ![h.in][id] = h.object]
            /\ given' = [given EXCEPT ![h.in] = id]
            /\ excused' = Excuse(h, h.object, h.crossed)
            /\ granted' = IF h.in = "role" THEN [granted EXCEPT ![id] = h.named]
                                           ELSE granted
            /\ Written(s, h.in, id, h.object)
            /\ UNCHANGED blurred
       ELSE Refuse(s)

\* save of a loaded row: a look, then an update of what differs, the rows of the
\* join table of roles and permissions one by one; a row that was gone at the
\* look is inserted again
LookAtRow(s) ==
    /\ clerk[s].op = "look"
    /\ Goes(s, [clerk[s] EXCEPT !.op = "write", !.was = table[clerk[s].in][clerk[s].id]])
    /\ UNCHANGED <<table, given, excused, granted, blurred>>
Result(row, was, want) ==
    IF ~row.live THEN want
    ELSE [Merge(row, was, want) EXCEPT
            !.grants = (row.grants \ (was.grants \ want.grants))
                         \cup (want.grants \ was.grants)]
SaveRow(s) ==
    LET h == clerk[s]  row == table[h.in][h.id]  x == Result(row, h.was, h.object) IN
    /\ h.op = "write"
    /\ IF /\ row.live = h.was.live /\ Accepted(h.in, x, h.id)
          /\ (h.object.grants \ h.was.grants) \cap row.grants = {}
       THEN /\ table' = [table EXCEPT ![h.in][h.id] = x]
            /\ excused' = Excuse(h, x, TakenBy(h.in, x, h.id))
            /\ granted' = IF h.decides THEN [granted EXCEPT ![h.id] = h.named]
                                       ELSE granted
            /\ blurred' = CASE h.in = "role" /\ h.crossed -> blurred \cup {h.id}
                            [] h.decides /\ ~h.crossed -> blurred \ {h.id}
                            [] OTHER -> blurred
            /\ Written(s, h.in, h.id, x)
            /\ UNCHANGED given
       ELSE Refuse(s)

\* remove: a department with a head stays, and takes its titles with it when it
\* goes; a permission leaves the roles that grant it
Referenced(t, i) == t = "department" /\ \E j \in Live("head") : table["head"][j].of = i
Without(row, t, h) ==
    IF t = "role" /\ h.in = "permission" THEN [row EXCEPT !.grants = @ \ {h.id}] ELSE row
GoesWith(t, j, h) == \/ t = h.in /\ j = h.id
                     \/ t = "title" /\ h.in = "department" /\ table[t][j].of = h.id
RemoveRow(s) ==
    LET h == clerk[s] IN
    /\ h.op = "remove"
    /\ IF Referenced(h.in, h.id) THEN Refuse(s)
       ELSE /\ table' = [t \in Tables |-> [j \in 1..MaxRows |->
                 IF GoesWith(t, j, h) THEN Blank ELSE Without(table[t][j], t, h)]]
            /\ granted' = IF h.in = "permission"
                          THEN [i \in 1..MaxRows |-> granted[i] \ {h.id}] ELSE granted
            /\ Crosses(s, LAMBDA g :
                 \/ g.in = h.in /\ g.id = h.id
                 \/ g.in = "role" /\ h.in = "permission" /\ h.id \in g.object.grants \cup g.was.grants)
            /\ UNCHANGED <<given, excused, blurred>>

AdminNext ==
    \E s \in Slots :
        \/ \E n \in Names :
             \/ CreateDepartment(s, n) \/ CreatePermission(s, n)
             \/ CreateAdmin(s, n) \/ PromoteStaff(s, n)
             \/ \E d \in 1..MaxRows : CreateTitle(s, n, d) \/ CreateHead(s, n, d)
             \/ \E names \in SUBSET Names : CreateRole(s, n, names)
        \/ \E n \in Names \cup {None}, i \in 1..MaxRows :
             \/ \E t \in Tables, d \in 0..MaxRows : AskUpdate(s, t, i, n, d)
             \/ \E names \in SUBSET Names : AskRegrant(s, i, n, names)
        \/ \E t \in Tables, i \in 1..MaxRows : AskRemove(s, t, i)
        \/ Permit(s) \/ Insert(s) \/ LookAtRow(s) \/ SaveRow(s) \/ RemoveRow(s)

AdminSpec == AdminInit /\ [][AdminNext]_adminVars

\* PermissionGuard: some role the route asks for, and every permission, from the
\* rows as they are when the request comes in
GuardLetsIn(held, anyOf, allOf) ==
    /\ held # {}
    /\ anyOf # {} => \E i \in held : table["role"][i].name \in anyOf
    /\ \A p \in allOf : \E i \in held : \E g \in table["role"][i].grants :
           table["permission"][g].name = p

-----------------------------------------------------------------------------
(* Properties *)

AdminTypeOK ==
    /\ table \in [Tables -> [1..MaxRows -> RegisterRow]]
    /\ given \in [Tables -> 0..MaxRows]
    /\ clerk \in [Slots -> Orders]
    /\ orders \in 0..MaxAdminCalls
    /\ excused \subseteq Tables \X Names
    /\ granted \in [1..MaxRows -> SUBSET (1..MaxRows)]
    /\ blurred \subseteq 1..MaxRows

\* Two departments, titles, heads or administrators of one name come only from two
\* creates that looked before either had inserted, or from an update, which does
\* not look; two roles, two permissions or two administrators from one staff row
\* never do.  And no row outlives the department or the permission it points to,
\* whichever order they go in.
NamesakesAreExcused ==
    \A t \in Tables : \A i \in Live(t) :
        /\ \A j \in Live(t) \ {i} : Same(t, table[t][i], table[t][j])
               => /\ ~Indexed(t, table[t][i], table[t][j])
                  /\ <<t, table[t][i].name>> \in excused
        /\ Valid(t, table[t][i])

\* A permission opens a route to who holds a role that was last given it, by the
\* create or by an update that names permissions, while it is there, and to
\* nobody else: not when it was removed, nor when the role was given others.  But a
\* request that only renames the role writes the permissions it has loaded; where
\* it had loaded them before another write of the role, they are blurred.
RevokedOpensNothing ==
    \A held \in SUBSET (Live("role") \ blurred), p \in Names :
        GuardLetsIn(held, {}, {p}) <=>
            \E i \in held : \E g \in granted[i] \cap Live("permission") :
                table["permission"][g].name = p
================================================================================
