-------------------------------- MODULE Projects --------------------------------
(***************************************************************************)
(* ProjectsService: the projects, and who is assigned to them.  The rows   *)
(* of project_assignments and of task_assignments have one shape and no    *)
(* unique index, so assigned counts the rows a member of staff has for an  *)
(* item, and a list of a request counts its entries for each id, which may *)
(* be several of one person.  Roles and texts are left out, and so are     *)
(* requests whose name is taken, which are refused.                        *)
(*                                                                         *)
(* External: save of an entity that was loaded with its assignments writes *)
(* the list back as it was loaded: rows inserted meanwhile lose their item *)
(* (the orphaned rows of a OneToMany), rows deleted meanwhile come back.   *)
(***************************************************************************)
EXTENDS Workplace, FiniteSetsExt

CONSTANTS
    Projects,       \* ids of table projects
    Tasks,          \* ids of table tasks, 1..n
    Ghost,          \* a staff id that no row has
    Lists,          \* lists of assignees in a request: entries per staff id
    MaxWorkCalls    \* requests in a behaviour

ASSUME WorkConstants ==
    /\ IsFiniteSet(Staff) /\ Ghost \notin Staff
    /\ 1 \in Tasks /\ Tasks \subseteq Nat \ {0}
    /\ Projects \cap Tasks = {} /\ None \notin Projects \cup Tasks
    /\ Lists \subseteq [Staff \cup {Ghost} -> Nat] /\ None \notin Lists
    /\ MaxWorkCalls \in Nat \ {0}

VARIABLES
    project,    \* which projects there are
    assigned,   \* rows per item and member of staff
    desk,       \* the handler in each slot
    calls,      \* requests that remain
    decided,    \* history: the rows that the last list of an item asks for
    crossed     \* history: items on which a list met another request, or failed

projectVars == <<project, assigned, desk, calls, decided, crossed>>

Items == Projects \cup Tasks
Nobody == [u \in Staff |-> 0]
NoEntries == [u \in Staff \cup {Ghost} |-> 0]

\* What a list asks for: a row per entry of a task, a row per person of a
\* project, where the second entry finds the row of the first
PerEntry(list) == [u \in Staff |-> list[u]]
Once(list) == [u \in Staff |-> IF list[u] > 0 THEN 1 ELSE 0]

\* A handler: what it works on, the list it was given (None for no list), the
\* rows it loaded, the entries still to be done, the entity it will save
\* (tasks), and whether another handler has written since it read
Free == [op |-> "idle", pc |-> "idle", item |-> None, list |-> None,
         rows |-> Nobody, todo |-> NoEntries, object |-> None, late |-> FALSE]
Named(h) == h.list # None

Ready(s) == calls > 0 /\ desk[s].pc = "idle"

\* A request takes slot s.  History: it crosses another one of the same item,
\* when either has a list.
TakeDesk(s, h) ==
    LET with == {r \in Slots \ {s} : desk[r].item = h.item /\ h.item # None} IN
    /\ Ready(s) /\ calls' = calls - 1
    /\ desk' = [desk EXCEPT ![s] = h]
    /\ crossed' = IF \E r \in with : Named(h) \/ Named(desk[r])
                  THEN crossed \cup {h.item} ELSE crossed

\* Slot s goes on as h after a write
Wrote(s, h) == desk' = [r \in Slots |-> IF r = s THEN h
                           ELSE [desk[r] EXCEPT !.late = desk[r].pc # "idle"]]

ProjectInit ==
    /\ project = [p \in Projects |-> TRUE]
    /\ \E on \in [Projects -> [Staff -> {0, 1}]] :
         assigned = [i \in Items |-> IF i \in Projects THEN on[i] ELSE Nobody]
    /\ decided = assigned
    /\ desk = [s \in Slots |-> Free]
    /\ calls = MaxWorkCalls
    /\ crossed = {}

-----------------------------------------------------------------------------
(* assignMultipleStaff, alone or as part of updateProject *)

AskAssign(s, p, list) ==
    /\ project[p]
    /\ TakeDesk(s, [Free EXCEPT !.op = "assign", !.pc = "sweep", !.item = p,
                                !.list = list, !.todo = list])
    /\ UNCHANGED <<project, assigned, decided>>

\* updateProject: a list of as many entries as there are rows, all of them in
\* it with their roles, counts as none; so staff alone does not tell
Size(bag) == Cardinality(UNION {{u} \X (1..bag[u]) : u \in DOMAIN bag})
MaySame(p, list) ==
    /\ Size(assigned[p]) = Size(list)
    /\ \A u \in Staff : assigned[p][u] > 0 => list[u] > 0
AskUpdateProject(s, p, list, same) ==
    /\ project[p]
    /\ IF same THEN list # None => MaySame(p, list) ELSE list # None
    /\ TakeDesk(s, [Free EXCEPT !.op = "project", !.item = p, !.list = list,
                      !.rows = assigned[p],
                      !.pc = IF same THEN "save" ELSE "sweep",
                      !.todo = IF same THEN NoEntries ELSE list])
    /\ UNCHANGED <<project, assigned, decided>>

\* The rows of those who are not in the list are found and removed
Sweep(s) ==
    LET h == desk[s] IN
    /\ h.pc = "sweep"
    /\ assigned' = [assigned EXCEPT ![h.item] =
                      [u \in Staff |-> IF h.list[u] > 0 THEN @[u] ELSE 0]]
    /\ Wrote(s, [h EXCEPT !.pc = "each", !.rows = Once(h.list)])
    /\ UNCHANGED <<project, calls, decided, crossed>>

\* One entry: who already has a row keeps it
Look(s, u) ==
    LET h == desk[s] IN
    /\ h.pc = "each" /\ h.todo[u] > 0
    /\ desk' = [desk EXCEPT ![s] = IF assigned[h.item][u] > 0
                 THEN [h EXCEPT !.todo[u] = @ - 1] ELSE [h EXCEPT !.pc = "put", !.object = u]]
    /\ UNCHANGED <<project, assigned, calls, decided, crossed>>

\* and who has none gets one, unless the project is gone
Put(s) ==
    LET h == desk[s]  u == h.object IN
    /\ h.pc = "put"
    /\ IF project[h.item]
       THEN /\ assigned' = [assigned EXCEPT ![h.item][u] = @ + 1]
            /\ Wrote(s, [h EXCEPT !.pc = "each", !.todo[u] = @ - 1, !.object = None])
       ELSE Wrote(s, Free) /\ UNCHANGED assigned
    /\ UNCHANGED <<project, calls, decided, crossed>>

\* The entry of nobody: the request fails, what it has done stays done
NotFound(s) ==
    LET h == desk[s] IN
    /\ h.pc = "each" /\ h.todo[Ghost] > 0
    /\ desk' = [desk EXCEPT ![s] = Free]
    /\ crossed' = crossed \cup {h.item}
    /\ UNCHANGED <<project, assigned, calls, decided>>

Decide(i, rows) == decided' = [decided EXCEPT ![i] = rows]

\* The end of the loop: assign answers, updateProject saves the project
Assigned(s) ==
    LET h == desk[s] IN
    /\ h.pc = "each" /\ h.todo = NoEntries
    /\ IF h.op = "assign"
       THEN Decide(h.item, Once(h.list)) /\ desk' = [desk EXCEPT ![s] = Free]
       ELSE desk' = [desk EXCEPT ![s].pc = "save"] /\ UNCHANGED decided
    /\ UNCHANGED <<project, assigned, calls, crossed>>

\* projectRepo.save with the list as loaded, or as just made; a project that is
\* gone comes back
SaveProject(s) ==
    LET h == desk[s] IN
    /\ h.pc = "save" /\ h.op = "project"
    /\ project' = [project EXCEPT ![h.item] = TRUE]
    /\ assigned' = [assigned EXCEPT ![h.item] = h.rows]
    /\ IF Named(h) THEN Decide(h.item, Once(h.list)) ELSE UNCHANGED decided
    /\ Wrote(s, Free)
    /\ UNCHANGED <<calls, crossed>>

\* remove: the assignments go with the project, its tasks too (see Tasks)
RemoveProject(p, gone) ==
    /\ project[p] /\ calls > 0 /\ calls' = calls - 1
    /\ project' = [project EXCEPT ![p] = FALSE]
    /\ assigned' = [i \in Items |-> IF i \in gone THEN Nobody ELSE assigned[i]]
    /\ decided' = [i \in Items |-> IF i \in gone THEN Nobody ELSE decided[i]]
    /\ crossed' = crossed \cup {i \in gone : \E s \in Slots : desk[s].item = i}
    /\ desk' = [s \in Slots |-> [desk[s] EXCEPT !.late = desk[s].pc # "idle"]]

ProjectStep ==
    \E s \in Slots :
        \/ /\ Ready(s)
           /\ \E p \in Projects :
                \/ \E list \in Lists : AskAssign(s, p, list)
                \/ \E list \in Lists \cup {None}, same \in BOOLEAN :
                     AskUpdateProject(s, p, list, same)
        \/ Sweep(s) \/ Put(s) \/ NotFound(s) \/ Assigned(s) \/ SaveProject(s)
        \/ \E u \in Staff : Look(s, u)

-----------------------------------------------------------------------------

\* The rows of an item are those the last request with a list asked for: of a
\* project one for each person, however often the list names him and whoever
\* had rows before, of a task one for each entry.  No update without a list,
\* no removal and no other item's request changes that.  Left out are items on
\* which a list crossed another request (whose save then writes back what it
\* had loaded), or failed half way.
AssigneesAreDecided ==
    \A i \in Items \ crossed :
        (\A s \in Slots : desk[s].item # i) => assigned[i] = decided[i]
================================================================================
