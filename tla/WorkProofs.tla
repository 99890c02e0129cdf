------------------------------- MODULE WorkProofs -------------------------------
(***************************************************************************)
(* Proofs about Projects and Tasks, for any staff, projects, tasks,        *)
(* sprints, lists, bounds and number of handlers in flight.                *)
(*                                                                         *)
(* Sound says what a handler is at each await and what the tables hold.    *)
(* On it rest two more: Deciding, what each handler has done of its list,  *)
(* as long as its item is not crossed; and InSight, what a handler still   *)
(* knows of the tables as long as no other request's write has made it     *)
(* late.  Last, what the read-only endpoints answer: sums over tasks, and  *)
(* their rounding.                                                         *)
(***************************************************************************)
EXTENDS MCWork, Counting, FiniteSetTheorems, SequenceTheorems, TLAPS

-----------------------------------------------------------------------------
(* Types, and what a handler carries at each await *)

Ops == {"idle", "assign", "project", "create", "edit", "link", "move"}
Stages == {"idle", "sweep", "each", "put", "save", "insert", "update", "clear", "staff"}
WorkHandler == [op : Ops, pc : Stages, item : Items \cup {None}, list : Lists \cup {None},
                rows : [Staff -> Nat], todo : [Staff \cup {Ghost} -> Nat],
                object : TaskRow \cup Staff \cup {None}, late : BOOLEAN]

Typed ==
    /\ project \in [Projects -> BOOLEAN]
    /\ task \in [Tasks -> TaskRow]
    /\ assigned \in [Items -> [Staff -> Nat]]
    /\ decided \in [Items -> [Staff -> Nat]]
    /\ desk \in [Slots -> WorkHandler]
    /\ calls \in 0..MaxWorkCalls
    /\ crossed \subseteq Items /\ born \subseteq Tasks /\ touched \subseteq born

\* What is not there has nobody, and no task is in a project that is gone
RowsOK ==
    /\ \A t \in Live : t \in born /\ (task[t].project # None => project[task[t].project])
    /\ \A t \in Tasks \ Live : assigned[t] = Nobody
    /\ \A p \in Projects : ~project[p] => assigned[p] = Nobody
    /\ \A t \in Tasks \ born : decided[t] = Nobody

\* Entries of a list
Within(todo, list) == \A v \in Staff \cup {Ghost} : todo[v] > 0 => list[v] > 0

\* A handler, when B are born and T touched
HandlerOK(h, B, T) ==
    /\ h.pc = "idle" => h.item = None
    /\ h.pc \in {"sweep", "each", "put"} => /\ h.item \in Projects /\ h.op \in {"assign", "project"}
                                            /\ h.list \in Lists /\ Within(h.todo, h.list)
    /\ h.pc \in {"each", "put"} => h.rows = Once(h.list)
    /\ h.pc = "put" => h.object \in Staff /\ h.todo[h.object] > 0
    /\ h.pc = "save" => h.item \in Projects /\ h.op = "project"
    /\ h.pc = "insert" => /\ h.op = "create" /\ h.item = None /\ h.list \in Lists
                          /\ h.object \in TaskRow /\ h.object.live /\ h.rows = Nobody
    /\ h.pc = "update" => /\ h.op \in {"edit", "link", "move"} /\ h.item \in B
                          /\ h.object \in TaskRow /\ h.object.live
    /\ h.pc = "clear" => h.op # "create" /\ h.list \in Lists
    /\ h.pc \in {"clear", "staff"} => /\ h.item \in B /\ h.list \in Lists
                                      /\ h.op # "create" => h.item \in T

Sound == Typed /\ RowsOK /\ \A s \in Slots : HandlerOK(desk[s], born, touched)

-----------------------------------------------------------------------------
(* A step of slot s leaves the other handlers as they are, but for late *)

Alike(g, h) == /\ g.op = h.op /\ g.pc = h.pc /\ g.item = h.item /\ g.list = h.list
               /\ g.rows = h.rows /\ g.todo = h.todo /\ g.object = h.object
\* The desks E after a step of s that leaves h there, from D
Goes(D, E, s, h) ==
    /\ E \in [Slots -> WorkHandler] /\ E[s] = h
    /\ \A r \in Slots \ {s} : Alike(E[r], D[r])

LEMMA WroteIs ==
    ASSUME desk \in [Slots -> WorkHandler], NEW s \in Slots, NEW h \in WorkHandler,
           Wrote(s, h)
    PROVE  /\ Goes(desk, desk', s, h)
           /\ \A r \in Slots \ {s} : desk'[r].late = (desk[r].pc # "idle")
  <1>1. \A r \in Slots : desk'[r] = IF r = s THEN h ELSE
                                      [desk[r] EXCEPT !.late = desk[r].pc # "idle"]
    BY DEF Wrote
  <1>2. desk' \in [Slots -> WorkHandler]
    <2>1. \A r \in Slots : desk[r] \in WorkHandler /\ (desk[r].pc # "idle") \in BOOLEAN
      OBVIOUS
    <2>2. \A r \in Slots : [desk[r] EXCEPT !.late = desk[r].pc # "idle"] \in WorkHandler
      BY <2>1 DEF WorkHandler
    <2>3. \A r \in Slots : desk'[r] \in WorkHandler
      BY <1>1, <2>2
    <2> QED BY <2>3 DEF Wrote
  <1>3. \A r \in Slots \ {s} : /\ Alike(desk'[r], desk[r])
                               /\ desk'[r].late = (desk[r].pc # "idle")
    <2> TAKE r \in Slots \ {s}
    <2>1. desk'[r] = [desk[r] EXCEPT !.late = desk[r].pc # "idle"] /\ desk[r] \in WorkHandler
      BY <1>1
    <2> QED BY <2>1 DEF WorkHandler, Alike
  <1> QED BY <1>1, <1>2, <1>3 DEF Goes

LEMMA ReadIs ==
    ASSUME desk \in [Slots -> WorkHandler], NEW s \in Slots, NEW h \in WorkHandler,
           desk' = [desk EXCEPT ![s] = h]
    PROVE  /\ Goes(desk, desk', s, h)
           /\ \A r \in Slots \ {s} : desk'[r] = desk[r]
  BY DEF Goes, Alike

LEMMA AllLate ==
    ASSUME desk \in [Slots -> WorkHandler],
           desk' = [s \in Slots |-> [desk[s] EXCEPT !.late = desk[s].pc # "idle"]]
    PROVE  /\ desk' \in [Slots -> WorkHandler]
           /\ \A s \in Slots : Alike(desk'[s], desk[s]) /\ desk'[s].late = (desk[s].pc # "idle")
  <1>1. \A r \in Slots : desk[r] \in WorkHandler /\ (desk[r].pc # "idle") \in BOOLEAN
    OBVIOUS
  <1>2. \A r \in Slots : desk'[r] = [desk[r] EXCEPT !.late = desk[r].pc # "idle"]
    OBVIOUS
  <1>3. \A r \in Slots : desk'[r] \in WorkHandler
    <2>1. \A r \in Slots : [desk[r] EXCEPT !.late = desk[r].pc # "idle"] \in WorkHandler
      BY <1>1 DEF WorkHandler
    <2> QED BY <1>2, <2>1
  <1>4. \A s \in Slots : Alike(desk'[s], desk[s]) /\ desk'[s].late = (desk[s].pc # "idle")
    <2> TAKE r \in Slots
    <2>1. desk'[r] = [desk[r] EXCEPT !.late = desk[r].pc # "idle"] /\ desk[r] \in WorkHandler
      BY <1>1, <1>2
    <2> QED BY <2>1 DEF WorkHandler, Alike
  <1> QED BY <1>3, <1>4

\* Ids given and tasks touched only grow: the other handlers stay sound
LEMMA HandlerStays ==
    ASSUME NEW g, NEW h, NEW B, NEW T, NEW B1, NEW T1, Alike(g, h), HandlerOK(h, B, T),
           B \subseteq B1, T \subseteq T1
    PROVE  HandlerOK(g, B1, T1)
  <1>1. /\ g.op = h.op /\ g.pc = h.pc /\ g.item = h.item /\ g.list = h.list
        /\ g.rows = h.rows /\ g.todo = h.todo /\ g.object = h.object
    BY DEF Alike
  <1> QED BY <1>1 DEF HandlerOK

LEMMA HandlersStay ==
    ASSUME NEW D, NEW E, NEW s \in Slots, NEW h, NEW B, NEW T, NEW B1, NEW T1,
           \A r \in Slots : HandlerOK(D[r], B, T), Goes(D, E, s, h), HandlerOK(h, B1, T1),
           B \subseteq B1, T \subseteq T1
    PROVE  \A r \in Slots : HandlerOK(E[r], B1, T1)
  <1> SUFFICES ASSUME NEW r \in Slots PROVE HandlerOK(E[r], B1, T1)
    OBVIOUS
  <1>1. CASE r = s
    BY <1>1 DEF Goes
  <1>2. CASE r # s
    <2>1. Alike(E[r], D[r]) /\ HandlerOK(D[r], B, T)
      BY <1>2 DEF Goes
    <2> QED BY <2>1, HandlerStays
  <1> QED BY <1>1, <1>2

LEMMA ListIs ==
    ASSUME NEW list \in Lists
    PROVE  /\ list \in [Staff \cup {Ghost} -> Nat] /\ list # None
           /\ PerEntry(list) \in [Staff -> Nat] /\ Once(list) \in [Staff -> Nat]
           /\ \A u \in Staff : PerEntry(list)[u] = list[u] /\ list[u] \in Nat
           /\ \A u \in Staff : /\ list[u] > 0 => Once(list)[u] = 1
                               /\ ~(list[u] > 0) => Once(list)[u] = 0
  BY WorkConstants DEF PerEntry, Once

LEMMA FreeIs == /\ Free \in WorkHandler
                /\ \A B, T : HandlerOK(Free, B, T)
                /\ Nobody \in [Staff -> Nat] /\ \A list : Once(list) \in [Staff -> Nat]
                /\ Free.op = "idle" /\ Free.pc = "idle" /\ Free.item = None /\ Free.list = None
                /\ Free.rows = Nobody /\ Free.todo = NoEntries /\ Free.object = None /\ Free.late = FALSE
  <1>1. /\ Nobody \in [Staff -> Nat] /\ \A list : Once(list) \in [Staff -> Nat]
        /\ NoEntries \in [Staff \cup {Ghost} -> Nat]
    BY DEF Nobody, Once, NoEntries
  <1>2. Free \in WorkHandler
    BY <1>1 DEF Free, WorkHandler, Ops, Stages
  <1>3. \A B, T : HandlerOK(Free, B, T)
    BY DEF Free, HandlerOK
  <1> QED BY <1>1, <1>2, <1>3 DEF Free
-----------------------------------------------------------------------------
(* Sound: the steps of assignMultipleStaff and updateProject *)

\* What stays sound when the tables do
SameTables == UNCHANGED <<project, assigned, decided, taskVars>>

LEMMA DeskSound ==
    ASSUME Sound, NEW s \in Slots, NEW h, HandlerOK(h, born, touched), Goes(desk, desk', s, h),
           SameTables, calls' \in 0..MaxWorkCalls, crossed' \subseteq Items
    PROVE  Sound'
  <1>1. UNCHANGED <<project, assigned, decided, task, born, touched>>
    BY DEF SameTables, taskVars
  <1>2. Typed'
    BY <1>1 DEF Sound, Typed, Goes
  <1>3. Live' = Live
    BY <1>1 DEF Live
  <1>4. RowsOK'
    BY <1>1, <1>3 DEF Sound, RowsOK
  <1>5. \A r \in Slots : HandlerOK(desk[r], born, touched)
    BY DEF Sound
  <1>6. \A r \in Slots : HandlerOK(desk'[r], born, touched)
    BY <1>5, HandlersStay, Zenon
  <1> QED BY <1>1, <1>2, <1>4, <1>6 DEF Sound

LEMMA DeskOf ==
    ASSUME Sound, NEW s \in Slots
    PROVE  desk[s] \in WorkHandler /\ HandlerOK(desk[s], born, touched)
  BY DEF Sound, Typed

LEMMA TakeIs ==
    ASSUME Sound, NEW s \in Slots, NEW h \in WorkHandler, TakeDesk(s, h)
    PROVE  /\ Goes(desk, desk', s, h)
           /\ \A r \in Slots \ {s} : desk'[r] = desk[r]
           /\ desk[s].pc = "idle" /\ calls > 0 /\ calls' = calls - 1
           /\ calls' \in 0..MaxWorkCalls /\ crossed' \subseteq Items /\ crossed \subseteq crossed'
  <1>1. desk \in [Slots -> WorkHandler] /\ calls \in 0..MaxWorkCalls /\ crossed \subseteq Items
    BY DEF Sound, Typed
  <1>2. desk' = [desk EXCEPT ![s] = h] /\ desk[s].pc = "idle" /\ calls > 0 /\ calls' = calls - 1
    BY DEF TakeDesk, Ready
  <1>3. calls' \in 0..MaxWorkCalls
    BY <1>1, <1>2, WorkConstants
  <1>4. Goes(desk, desk', s, h) /\ \A r \in Slots \ {s} : desk'[r] = desk[r]
    BY <1>1, <1>2, ReadIs
  <1>5. crossed' \subseteq Items /\ crossed \subseteq crossed'
    <2>1. CASE crossed' = crossed
      BY <1>1, <2>1
    <2>2. CASE h.item # None /\ crossed' = crossed \cup {h.item}
      BY <1>1, <2>2 DEF WorkHandler
    <2> QED BY <2>1, <2>2 DEF TakeDesk
  <1> QED BY <1>2, <1>3, <1>4, <1>5

\* The handler of assignMultipleStaff as it starts
AssignHandler(h, p, list) ==
    /\ h.op = "assign" /\ h.pc = "sweep" /\ h.item = p /\ h.list = list
    /\ h.todo = list /\ h.rows = Nobody /\ h.late = FALSE

LEMMA AskAssignIs ==
    ASSUME Sound, NEW s \in Slots, NEW p \in Projects, NEW list \in Lists,
           AskAssign(s, p, list), UNCHANGED taskVars
    PROVE  \E h \in WorkHandler :
              /\ HandlerOK(h, born, touched) /\ TakeDesk(s, h) /\ SameTables
              /\ project[p] /\ AssignHandler(h, p, list)
  <1> DEFINE h == [Free EXCEPT !.op = "assign", !.pc = "sweep", !.item = p,
                                !.list = list, !.todo = list]
  <1>1. list \in [Staff \cup {Ghost} -> Nat] /\ p \in Items
    BY ListIs DEF Items
  <1>2. h \in WorkHandler
    BY <1>1, FreeIs DEF WorkHandler, Ops, Stages
  <1>3. /\ h.op = "assign" /\ h.pc = "sweep" /\ h.item = p /\ h.list = list
        /\ h.todo = list /\ h.rows = Nobody /\ h.late = FALSE
    BY FreeIs DEF WorkHandler
  <1>4. TakeDesk(s, h)
    BY DEF AskAssign
  <1>5. SameTables /\ project[p]
    BY DEF AskAssign, SameTables
  <1> HIDE DEF h
  <1>6. HandlerOK(h, born, touched)
    BY <1>3 DEF HandlerOK, Within
  <1>7. AssignHandler(h, p, list)
    BY <1>3 DEF AssignHandler
  <1> QED BY <1>2, <1>4, <1>5, <1>6, <1>7, Zenon
\* The handler of updateProject as it starts
ProjectHandler(h, p, list) ==
    /\ h.op = "project" /\ h.item = p /\ h.list = list /\ h.rows = assigned[p]
    /\ h.late = FALSE
    /\ \/ h.pc = "save" /\ (list = None \/ MaySame(p, list))
       \/ h.pc = "sweep" /\ list # None /\ h.todo = list

LEMMA AskUpdateProjectIs ==
    ASSUME Sound, NEW s \in Slots, NEW p \in Projects, NEW list \in Lists \cup {None},
           NEW same \in BOOLEAN, AskUpdateProject(s, p, list, same), UNCHANGED taskVars
    PROVE  \E h \in WorkHandler :
              /\ HandlerOK(h, born, touched) /\ TakeDesk(s, h) /\ SameTables
              /\ project[p] /\ ProjectHandler(h, p, list)
  <1>0. PICK rows, pc, todo : /\ rows = assigned[p]
                              /\ pc = (IF same THEN "save" ELSE "sweep")
                              /\ todo = IF same THEN NoEntries ELSE list
    OBVIOUS
  <1> DEFINE h == [Free EXCEPT !.op = "project", !.item = p, !.list = list,
                      !.rows = rows, !.pc = pc, !.todo = todo]
  <1>1. /\ \/ pc = "save" /\ (list = None \/ MaySame(p, list))
           \/ pc = "sweep" /\ list # None /\ list \in Lists /\ todo = list
        /\ p \in Items
    BY <1>0 DEF Items, AskUpdateProject
  <1>2. rows \in [Staff -> Nat] /\ todo \in [Staff \cup {Ghost} -> Nat]
    <2>1. rows \in [Staff -> Nat]
      BY <1>0, <1>1 DEF Sound, Typed
    <2>2. NoEntries \in [Staff \cup {Ghost} -> Nat]
      BY DEF NoEntries
    <2>3. ~same => list \in Lists
      BY DEF AskUpdateProject
    <2> QED BY <1>0, <2>1, <2>2, <2>3, ListIs
  <1>3. h \in WorkHandler
    BY <1>1, <1>2, FreeIs DEF WorkHandler, Ops, Stages
  <1>4. /\ h.op = "project" /\ h.pc = pc /\ h.item = p /\ h.list = list
        /\ h.todo = todo /\ h.rows = rows /\ h.late = FALSE
    BY FreeIs DEF WorkHandler
  <1>5. TakeDesk(s, h)
    BY <1>0 DEF AskUpdateProject
  <1>6. SameTables /\ project[p]
    BY DEF AskUpdateProject, SameTables
  <1> HIDE DEF h
  <1>7. HandlerOK(h, born, touched)
    BY <1>1, <1>4 DEF HandlerOK, Within
  <1>8. ProjectHandler(h, p, list)
    BY <1>0, <1>1, <1>4 DEF ProjectHandler
  <1> QED BY <1>3, <1>5, <1>6, <1>7, <1>8, Zenon

\* The rows of an item change, no other table
LEMMA RowsSound ==
    ASSUME Sound, NEW s \in Slots, NEW h, HandlerOK(h, born, touched), Goes(desk, desk', s, h),
           NEW i \in Items, NEW rows \in [Staff -> Nat], assigned' = [assigned EXCEPT ![i] = rows],
           project' \in [Projects -> BOOLEAN], \A p \in Projects : project[p] => project'[p],
           rows = Nobody \/ (i \in Projects /\ project'[i]) \/ i \in Live,
           \A p \in Projects \ {i} : project'[p] = project[p],
           UNCHANGED <<task, born, touched, calls>>,
           crossed' \subseteq Items, decided' \in [Items -> [Staff -> Nat]],
           \A t \in Tasks \ born : decided'[t] = decided[t]
    PROVE  Sound'
  <1>1. Typed'
    BY DEF Sound, Typed, Goes
  <1>2. Live' = Live
    BY DEF Live
  <1>3. \A j \in Items : j # i => assigned'[j] = assigned[j]
    BY DEF Sound, Typed
  <1>4. RowsOK'
    <2>1. assigned'[i] = rows
      BY DEF Sound, Typed
    <2>2. \A t \in Tasks : t \in Items /\ t \notin Projects
      BY WorkConstants DEF Items
    <2>3. \A t \in Live' : t \in born' /\ (task'[t].project # None => project'[task'[t].project])
      <3> TAKE t \in Live'
      <3>1. t \in Live /\ t \in Tasks
        BY <1>2 DEF Live
      <3>2. task[t].project \in Projects \cup {None}
        BY <3>1 DEF Sound, Typed, TaskRow
      <3> QED BY <3>1, <3>2 DEF Sound, RowsOK
    <2>4. \A t \in Tasks \ Live' : assigned'[t] = Nobody
      BY <1>2, <1>3, <2>1, <2>2 DEF Sound, RowsOK
    <2>5. \A p \in Projects : ~project'[p] => assigned'[p] = Nobody
      <3>1. \A p \in Projects : p \in Items /\ (p = i => p \notin Live)
        BY WorkConstants DEF Items, Live
      <3> QED BY <1>3, <2>1, <3>1 DEF Sound, RowsOK
    <2>6. \A t \in Tasks \ born' : decided'[t] = Nobody
      BY DEF Sound, RowsOK
    <2> QED BY <2>3, <2>4, <2>5, <2>6 DEF RowsOK
  <1>5. \A r \in Slots : HandlerOK(desk[r], born, touched)
    BY DEF Sound
  <1>6. \A r \in Slots : HandlerOK(desk'[r], born, touched)
    BY <1>5, HandlersStay, Zenon
  <1> QED BY <1>1, <1>4, <1>6 DEF Sound

LEMMA SweepIs ==
    ASSUME Sound, NEW s \in Slots, Sweep(s), UNCHANGED taskVars
    PROVE  \E h \in WorkHandler, g \in WorkHandler, rows \in [Staff -> Nat] :
              /\ h = desk[s] /\ HandlerOK(h, born, touched) /\ HandlerOK(g, born, touched)
              /\ h.pc = "sweep" /\ g = [h EXCEPT !.pc = "each", !.rows = Once(h.list)]
              /\ g.pc = "each" /\ g.rows = Once(h.list) /\ g.op = h.op /\ g.item = h.item
              /\ g.list = h.list /\ g.todo = h.todo
              /\ rows = [u \in Staff |-> IF h.list[u] > 0 THEN assigned[h.item][u] ELSE 0]
              /\ assigned' = [assigned EXCEPT ![h.item] = rows]
              /\ Wrote(s, g)
              /\ UNCHANGED <<project, calls, decided, crossed, taskVars>>
  <1>1. PICK h \in WorkHandler : h = desk[s] /\ HandlerOK(h, born, touched) /\ h.pc = "sweep"
    BY DeskOf DEF Sweep
  <1> DEFINE g == [h EXCEPT !.pc = "each", !.rows = Once(h.list)]
  <1>2. /\ h.item \in Projects /\ h.op \in {"assign", "project"}
        /\ h.list \in Lists /\ Within(h.todo, h.list) /\ h.item \in Items
    BY <1>1 DEF HandlerOK, Items
  <1>3. g \in WorkHandler /\ g.pc = "each" /\ g.rows = Once(h.list) /\ g.op = h.op
        /\ g.item = h.item /\ g.list = h.list /\ g.todo = h.todo
    BY <1>1, FreeIs DEF WorkHandler, Stages
  <1>4. assigned[h.item] \in [Staff -> Nat] /\ assigned \in [Items -> [Staff -> Nat]]
    BY <1>2 DEF Sound, Typed
  <1>5. PICK rows : rows = [u \in Staff |-> IF h.list[u] > 0 THEN assigned[h.item][u] ELSE 0]
    OBVIOUS
  <1>6. rows \in [Staff -> Nat]
    BY <1>4, <1>5
  <1>7. assigned' = [assigned EXCEPT ![h.item] = rows]
    BY <1>1, <1>2, <1>4, <1>5 DEF Sweep
  <1>8. Wrote(s, g)
    BY <1>1 DEF Sweep
  <1>9. UNCHANGED <<project, calls, decided, crossed, taskVars>>
    BY DEF Sweep
  <1> HIDE DEF g
  <1>10. HandlerOK(g, born, touched)
    BY <1>2, <1>3 DEF HandlerOK
  <1> QED BY <1>1, <1>2, <1>3, <1>5, <1>6, <1>7, <1>8, <1>9, <1>10 DEF g
LEMMA SweepSound == ASSUME Sound, NEW s \in Slots, Sweep(s), UNCHANGED taskVars PROVE Sound'
  <1>1. PICK h \in WorkHandler, g \in WorkHandler, rows \in [Staff -> Nat] :
              /\ h = desk[s] /\ HandlerOK(h, born, touched) /\ HandlerOK(g, born, touched)
              /\ h.pc = "sweep"
              /\ rows = [u \in Staff |-> IF h.list[u] > 0 THEN assigned[h.item][u] ELSE 0]
              /\ assigned' = [assigned EXCEPT ![h.item] = rows]
              /\ Wrote(s, g)
              /\ UNCHANGED <<project, calls, decided, crossed, taskVars>>
    BY SweepIs
  <1>2. h.item \in Projects /\ h.item \in Items
    BY <1>1 DEF HandlerOK, Items
  <1>3. rows = Nobody \/ project'[h.item]
    <2>1. CASE ~project[h.item]
      <3>1. assigned[h.item] = Nobody
        BY <1>2, <2>1 DEF Sound, RowsOK
      <3> QED BY <1>1, <3>1 DEF Nobody
    <2> QED BY <1>1, <2>1
  <1>4. Goes(desk, desk', s, g)
    BY <1>1, WroteIs DEF Sound, Typed
  <1>5. /\ UNCHANGED <<project, task, born, touched, calls, decided, crossed>>
        /\ project' \in [Projects -> BOOLEAN]
        /\ crossed' \subseteq Items /\ decided' \in [Items -> [Staff -> Nat]]
    BY <1>1 DEF taskVars, Sound, Typed
  <1> QED BY <1>1, <1>2, <1>3, <1>4, <1>5, RowsSound, Zenon

\* What Look does, to the handler h that g is then
LookDoes(s, u, h, g) ==
    /\ h = desk[s] /\ HandlerOK(h, born, touched) /\ HandlerOK(g, born, touched)
    /\ h.pc = "each" /\ h.todo[u] > 0
    /\ g.op = h.op /\ g.item = h.item /\ g.list = h.list /\ g.rows = h.rows
    /\ g.late = h.late
    /\ \/ assigned[h.item][u] > 0 /\ g.pc = "each" /\ g.todo = [h.todo EXCEPT ![u] = @ - 1]
       \/ ~(assigned[h.item][u] > 0) /\ g.pc = "put" /\ g.todo = h.todo /\ g.object = u
    /\ Goes(desk, desk', s, g) /\ \A r \in Slots \ {s} : desk'[r] = desk[r]
    /\ SameTables /\ UNCHANGED <<calls, crossed>>

LEMMA LookIs ==
    ASSUME Sound, NEW s \in Slots, NEW u \in Staff, Look(s, u), UNCHANGED taskVars
    PROVE  \E h \in WorkHandler, g \in WorkHandler : LookDoes(s, u, h, g)
  <1>1. PICK h \in WorkHandler : h = desk[s] /\ HandlerOK(h, born, touched)
    BY DeskOf
  <1>2. h.pc = "each" /\ h.todo[u] > 0
    BY <1>1 DEF Look
  <1>3. PICK g : g = IF assigned[h.item][u] > 0
                 THEN [h EXCEPT !.todo[u] = @ - 1] ELSE [h EXCEPT !.pc = "put", !.object = u]
    OBVIOUS
  <1>4. /\ g \in WorkHandler
        /\ g.op = h.op /\ g.item = h.item /\ g.list = h.list /\ g.rows = h.rows /\ g.late = h.late
        /\ \/ assigned[h.item][u] > 0 /\ g.pc = "each" /\ g.todo = [h.todo EXCEPT ![u] = @ - 1]
           \/ ~(assigned[h.item][u] > 0) /\ g.pc = "put" /\ g.todo = h.todo /\ g.object = u
    <2>1. CASE assigned[h.item][u] > 0
      <3>1. PICK todo : todo = [h.todo EXCEPT ![u] = @ - 1]
        OBVIOUS
      <3>2. g = [h EXCEPT !.todo = todo]
        BY <1>3, <2>1, <3>1
      <3>3. todo \in [Staff \cup {Ghost} -> Nat]
        <4>1. h.todo \in [Staff \cup {Ghost} -> Nat]
          BY DEF WorkHandler
        <4>2. h.todo[u] - 1 \in Nat
          BY <1>2, <4>1
        <4> QED BY <3>1, <4>1, <4>2
      <3> QED BY <1>2, <2>1, <3>1, <3>2, <3>3 DEF WorkHandler
    <2>2. CASE ~(assigned[h.item][u] > 0)
      <3>1. g = [h EXCEPT !.pc = "put", !.object = u]
        BY <1>3, <2>2
      <3> QED BY <1>2, <2>2, <3>1 DEF WorkHandler, Stages
    <2> QED BY <2>1, <2>2
  <1>5. HandlerOK(g, born, touched)
    <2>1. Within(h.todo, h.list) /\ h.item \in Projects /\ h.op \in {"assign", "project"}
          /\ h.list \in Lists /\ h.rows = Once(h.list)
      BY <1>1, <1>2 DEF HandlerOK
    <2>2. h.todo \in [Staff \cup {Ghost} -> Nat]
      BY DEF WorkHandler
    <2>3. Within(g.todo, g.list)
      BY <1>4, <2>1, <2>2 DEF Within
    <2> QED BY <1>2, <1>4, <2>1, <2>3 DEF HandlerOK
  <1>6. desk' = [desk EXCEPT ![s] = g]
    BY <1>1, <1>3 DEF Look
  <1>7. Goes(desk, desk', s, g) /\ \A r \in Slots \ {s} : desk'[r] = desk[r]
    BY <1>4, <1>6, ReadIs DEF Sound, Typed
  <1>8. SameTables /\ UNCHANGED <<calls, crossed>>
    BY DEF Look, SameTables
  <1> QED BY <1>1, <1>2, <1>4, <1>5, <1>7, <1>8 DEF LookDoes

LEMMA LookSound ==
    ASSUME Sound, NEW s \in Slots, NEW u \in Staff, Look(s, u), UNCHANGED taskVars
    PROVE  Sound'
  <1>1. PICK h \in WorkHandler, g \in WorkHandler : LookDoes(s, u, h, g)
    BY LookIs
  <1> USE DEF LookDoes
  <1>2. calls' \in 0..MaxWorkCalls /\ crossed' \subseteq Items
    BY <1>1 DEF Sound, Typed
  <1> QED BY <1>1, <1>2, DeskSound

\* What Put leaves in the slot: as before with one entry less, or nothing
PutDoes(s, u, h, g) ==
    /\ h = desk[s] /\ HandlerOK(h, born, touched) /\ HandlerOK(g, born, touched)
    /\ h.pc = "put" /\ u = h.object /\ h.todo[u] > 0
    /\ Wrote(s, g)
    /\ UNCHANGED <<project, calls, decided, crossed, taskVars>>
    /\ \/ /\ project[h.item]
          /\ g.pc = "each" /\ g.op = h.op /\ g.item = h.item /\ g.list = h.list
          /\ g.rows = h.rows /\ g.todo = [h.todo EXCEPT ![u] = @ - 1]
          /\ assigned' = [assigned EXCEPT ![h.item][u] = @ + 1]
       \/ ~project[h.item] /\ g = Free /\ assigned' = assigned

LEMMA PutIs ==
    ASSUME Sound, NEW s \in Slots, Put(s), UNCHANGED taskVars
    PROVE  \E h \in WorkHandler, g \in WorkHandler, u \in Staff : PutDoes(s, u, h, g)
  <1>1. PICK h \in WorkHandler : h = desk[s] /\ HandlerOK(h, born, touched) /\ h.pc = "put"
    BY DeskOf DEF Put
  <1>2. PICK u \in Staff : u = h.object /\ h.todo[u] > 0
    BY <1>1 DEF HandlerOK
  <1>3. /\ h.item \in Projects /\ h.op \in {"assign", "project"} /\ h.list \in Lists
        /\ Within(h.todo, h.list) /\ h.rows = Once(h.list)
    BY <1>1 DEF HandlerOK
  <1>4. UNCHANGED <<project, calls, decided, crossed, taskVars>>
    BY DEF Put
  <1>5. CASE project[h.item]
    <2>0. PICK todo \in [Staff \cup {Ghost} -> Nat] : todo = [h.todo EXCEPT ![u] = @ - 1]
      <3>1. h.todo \in [Staff \cup {Ghost} -> Nat]
        BY DEF WorkHandler
      <3>2. h.todo[u] - 1 \in Nat
        BY <1>2, <3>1
      <3>3. [h.todo EXCEPT ![u] = @ - 1] \in [Staff \cup {Ghost} -> Nat]
        BY <3>1, <3>2
      <3> QED BY <3>3
    <2> DEFINE g == [h EXCEPT !.pc = "each", !.todo = todo, !.object = None]
    <2>1. /\ g \in WorkHandler /\ g.pc = "each" /\ g.op = h.op /\ g.item = h.item
          /\ g.list = h.list /\ g.rows = h.rows /\ g.todo = [h.todo EXCEPT ![u] = @ - 1]
      BY <2>0 DEF WorkHandler, Stages
    <2>2. Wrote(s, g) /\ assigned' = [assigned EXCEPT ![h.item][u] = @ + 1]
      BY <1>1, <1>2, <1>5, <2>0 DEF Put
    <2> HIDE DEF g
    <2>3. HandlerOK(g, born, touched)
      <3>1. h.todo \in [Staff \cup {Ghost} -> Nat]
        BY DEF WorkHandler
      <3>2. Within(g.todo, g.list)
        BY <1>3, <2>1, <3>1 DEF Within
      <3> QED BY <1>3, <2>1, <3>2 DEF HandlerOK
    <2> QED BY <1>1, <1>2, <1>4, <1>5, <2>1, <2>2, <2>3 DEF PutDoes
  <1>6. CASE ~project[h.item]
    BY <1>1, <1>2, <1>4, <1>6, FreeIs DEF Put, PutDoes
  <1> QED BY <1>5, <1>6

LEMMA PutSound == ASSUME Sound, NEW s \in Slots, Put(s), UNCHANGED taskVars PROVE Sound'
  <1>1. PICK h \in WorkHandler, g \in WorkHandler, u \in Staff : PutDoes(s, u, h, g)
    BY PutIs
  <1> USE DEF PutDoes
  <1>2. h.item \in Projects /\ h.item \in Items
    BY <1>1 DEF HandlerOK, Items
  <1>3. Goes(desk, desk', s, g)
    BY <1>1, WroteIs DEF Sound, Typed
  <1>4. /\ UNCHANGED <<project, task, born, touched, calls, decided, crossed>>
        /\ project' \in [Projects -> BOOLEAN] /\ calls' \in 0..MaxWorkCalls
        /\ crossed' \subseteq Items /\ decided' \in [Items -> [Staff -> Nat]]
    BY <1>1 DEF taskVars, Sound, Typed
  <1>5. CASE assigned' = assigned
    <2>1. SameTables
      BY <1>1, <1>5 DEF SameTables
    <2> QED BY <1>1, <1>3, <1>4, <2>1, DeskSound
  <1>6. CASE project[h.item] /\ assigned' = [assigned EXCEPT ![h.item][u] = @ + 1]
    <2>1. PICK rows : rows = [assigned[h.item] EXCEPT ![u] = @ + 1]
      OBVIOUS
    <2>2. assigned[h.item] \in [Staff -> Nat]
      BY <1>2 DEF Sound, Typed
    <2>3. rows \in [Staff -> Nat] /\ assigned' = [assigned EXCEPT ![h.item] = rows]
      BY <1>6, <2>1, <2>2
    <2>4. /\ project'[h.item] /\ h.item \in Projects
          /\ \A p \in Projects : project'[p] = project[p]
      BY <1>2, <1>4, <1>6
    <2> QED BY <1>1, <1>2, <1>3, <1>4, <2>3, <2>4, RowsSound, Zenon
  <1> QED BY <1>1, <1>5, <1>6
LEMMA NotFoundIs ==
    ASSUME Sound, NEW s \in Slots, NotFound(s), UNCHANGED taskVars
    PROVE  /\ desk[s].pc = "each" /\ desk[s].item \in Projects /\ desk[s].todo[Ghost] > 0
           /\ crossed' = crossed \cup {desk[s].item}
           /\ Goes(desk, desk', s, Free) /\ \A r \in Slots \ {s} : desk'[r] = desk[r]
           /\ SameTables /\ UNCHANGED calls
  <1>1. /\ desk[s].pc = "each" /\ desk[s].todo[Ghost] > 0
        /\ crossed' = crossed \cup {desk[s].item} /\ desk' = [desk EXCEPT ![s] = Free]
        /\ SameTables /\ UNCHANGED calls
    BY DEF NotFound, SameTables
  <1>2. desk[s].item \in Projects
    BY <1>1, DeskOf DEF HandlerOK
  <1>3. Goes(desk, desk', s, Free) /\ \A r \in Slots \ {s} : desk'[r] = desk[r]
    BY <1>1, ReadIs, FreeIs DEF Sound, Typed
  <1> QED BY <1>1, <1>2, <1>3

LEMMA NotFoundSound == ASSUME Sound, NEW s \in Slots, NotFound(s), UNCHANGED taskVars PROVE Sound'
  <1>1. /\ desk[s].item \in Projects
        /\ crossed' = crossed \cup {desk[s].item}
        /\ Goes(desk, desk', s, Free) /\ SameTables /\ UNCHANGED calls
    BY NotFoundIs
  <1>2. calls' \in 0..MaxWorkCalls /\ crossed' \subseteq Items
    BY <1>1 DEF Sound, Typed, Items
  <1>3. HandlerOK(Free, born, touched)
    BY FreeIs
  <1> QED BY <1>1, <1>2, <1>3, DeskSound

LEMMA DecideIs ==
    ASSUME Sound, NEW i \in Items, NEW rows \in [Staff -> Nat], Decide(i, rows)
    PROVE  /\ decided' \in [Items -> [Staff -> Nat]] /\ decided'[i] = rows
           /\ \A j \in Items \ {i} : decided'[j] = decided[j]
  BY DEF Decide, Sound, Typed

LEMMA AssignedIs ==
    ASSUME Sound, NEW s \in Slots, Assigned(s), UNCHANGED taskVars
    PROVE  \E h \in WorkHandler, g \in WorkHandler :
              /\ h = desk[s] /\ HandlerOK(h, born, touched) /\ HandlerOK(g, born, touched)
              /\ h.pc = "each" /\ h.todo = NoEntries
              /\ Goes(desk, desk', s, g) /\ \A r \in Slots \ {s} : desk'[r] = desk[r]
              /\ UNCHANGED <<project, assigned, calls, crossed, taskVars>>
              /\ \/ /\ h.op = "assign" /\ g = Free
                    /\ decided' \in [Items -> [Staff -> Nat]]
                    /\ \A j \in Items \ {h.item} : decided'[j] = decided[j]
                    /\ decided'[h.item] = Once(h.list)
                 \/ /\ h.op = "project" /\ decided' = decided
                    /\ g.pc = "save" /\ g.op = h.op /\ g.item = h.item /\ g.list = h.list
                    /\ g.rows = h.rows /\ g.todo = h.todo /\ g.late = h.late
  <1>1. PICK h \in WorkHandler : h = desk[s] /\ HandlerOK(h, born, touched) /\ h.pc = "each"
    BY DeskOf DEF Assigned
  <1>2. /\ h.item \in Projects /\ h.op \in {"assign", "project"} /\ h.list \in Lists
        /\ h.item \in Items /\ h.list # None /\ h.todo = NoEntries
    BY <1>1, WorkConstants DEF HandlerOK, Items, Assigned
  <1>3. UNCHANGED <<project, assigned, calls, crossed, taskVars>>
    BY DEF Assigned
  <1>4. CASE h.op = "assign"
    <2>1. Decide(h.item, Once(h.list)) /\ desk' = [desk EXCEPT ![s] = Free]
      BY <1>1, <1>4 DEF Assigned
    <2>2. Goes(desk, desk', s, Free) /\ \A r \in Slots \ {s} : desk'[r] = desk[r]
      BY <2>1, ReadIs, FreeIs DEF Sound, Typed
    <2>3. /\ decided' \in [Items -> [Staff -> Nat]]
          /\ \A j \in Items \ {h.item} : decided'[j] = decided[j]
          /\ decided'[h.item] = Once(h.list)
      BY <1>2, <2>1, DecideIs, FreeIs
    <2> QED BY <1>1, <1>2, <1>3, <1>4, <2>2, <2>3, FreeIs
  <1>5. CASE h.op = "project"
    <2> DEFINE g == [h EXCEPT !.pc = "save"]
    <2>1. /\ g \in WorkHandler /\ g.pc = "save" /\ g.op = h.op /\ g.item = h.item
          /\ g.list = h.list /\ g.rows = h.rows /\ g.todo = h.todo /\ g.late = h.late
      BY DEF WorkHandler, Stages
    <2>2. desk' = [desk EXCEPT ![s] = g] /\ decided' = decided
      BY <1>1, <1>5 DEF Assigned
    <2> HIDE DEF g
    <2>3. Goes(desk, desk', s, g) /\ \A r \in Slots \ {s} : desk'[r] = desk[r]
      BY <2>1, <2>2, ReadIs DEF Sound, Typed
    <2>4. HandlerOK(g, born, touched)
      BY <1>2, <1>5, <2>1 DEF HandlerOK
    <2> QED BY <1>1, <1>2, <1>3, <1>5, <2>1, <2>2, <2>3, <2>4
  <1> QED BY <1>2, <1>4, <1>5

\* Only the history of a project that is there changes
LEMMA DecidedSound ==
    ASSUME Sound, NEW s \in Slots, NEW h, HandlerOK(h, born, touched), Goes(desk, desk', s, h),
           NEW p \in Projects, decided' \in [Items -> [Staff -> Nat]],
           \A j \in Items \ {p} : decided'[j] = decided[j],
           UNCHANGED <<project, assigned, calls, crossed, taskVars>>
    PROVE  Sound'
  <1>1. UNCHANGED <<project, assigned, calls, crossed, task, born, touched>>
    BY DEF taskVars
  <1>2. Typed'
    BY <1>1 DEF Sound, Typed, Goes
  <1>3. Live' = Live
    BY <1>1 DEF Live
  <1>4. RowsOK'
    <2>1. \A t \in Tasks : t \in Items /\ t # p
      BY WorkConstants DEF Items
    <2> QED BY <1>1, <1>3, <2>1 DEF Sound, RowsOK
  <1>5. \A r \in Slots : HandlerOK(desk[r], born, touched)
    BY DEF Sound
  <1>6. \A r \in Slots : HandlerOK(desk'[r], born, touched)
    BY <1>5, HandlersStay, Zenon
  <1> QED BY <1>1, <1>2, <1>4, <1>6 DEF Sound

LEMMA AssignedSound == ASSUME Sound, NEW s \in Slots, Assigned(s), UNCHANGED taskVars PROVE Sound'
  <1>1. PICK h \in WorkHandler, g \in WorkHandler :
              /\ h = desk[s] /\ HandlerOK(h, born, touched) /\ HandlerOK(g, born, touched)
              /\ h.pc = "each"
              /\ Goes(desk, desk', s, g)
              /\ UNCHANGED <<project, assigned, calls, crossed, taskVars>>
              /\ \/ /\ decided' \in [Items -> [Staff -> Nat]]
                    /\ \A j \in Items \ {h.item} : decided'[j] = decided[j]
                 \/ decided' = decided
    BY AssignedIs
  <1>2. h.item \in Projects
    BY <1>1 DEF HandlerOK
  <1>3. decided' \in [Items -> [Staff -> Nat]] /\ \A j \in Items \ {h.item} : decided'[j] = decided[j]
    BY <1>1 DEF Sound, Typed
  <1> QED BY <1>1, <1>2, <1>3, DecidedSound, Zenon

LEMMA SaveProjectIs ==
    ASSUME Sound, NEW s \in Slots, SaveProject(s), UNCHANGED taskVars
    PROVE  \E h \in WorkHandler :
              /\ h = desk[s] /\ HandlerOK(h, born, touched) /\ h.pc = "save"
              /\ h.item \in Projects /\ h.item \in Items /\ h.rows \in [Staff -> Nat]
              /\ Goes(desk, desk', s, Free)
              /\ \A r \in Slots \ {s} : desk'[r].late = (desk[r].pc # "idle")
              /\ project' = [project EXCEPT ![h.item] = TRUE]
              /\ assigned' = [assigned EXCEPT ![h.item] = h.rows]
              /\ decided' \in [Items -> [Staff -> Nat]]
              /\ \A j \in Items \ {h.item} : decided'[j] = decided[j]
              /\ h.list = None => decided' = decided
              /\ h.list # None => decided'[h.item] = Once(h.list)
              /\ UNCHANGED <<calls, crossed, taskVars>>
  <1>1. PICK h \in WorkHandler : h = desk[s] /\ HandlerOK(h, born, touched)
    BY DeskOf
  <1>2. h.pc = "save" /\ h.item \in Projects /\ h.item \in Items /\ h.rows \in [Staff -> Nat]
    BY <1>1 DEF SaveProject, HandlerOK, Items, WorkHandler
  <1>3. h.list \in Lists \cup {None}
    BY DEF WorkHandler
  <1>4. /\ project' = [project EXCEPT ![h.item] = TRUE]
        /\ assigned' = [assigned EXCEPT ![h.item] = h.rows]
        /\ IF Named(h) THEN Decide(h.item, Once(h.list)) ELSE UNCHANGED decided
        /\ Wrote(s, Free) /\ UNCHANGED <<calls, crossed, taskVars>>
    BY <1>1 DEF SaveProject
  <1>5. /\ Goes(desk, desk', s, Free)
        /\ \A r \in Slots \ {s} : desk'[r].late = (desk[r].pc # "idle")
    BY <1>4, WroteIs, FreeIs DEF Sound, Typed
  <1>6. /\ decided' \in [Items -> [Staff -> Nat]]
        /\ \A j \in Items \ {h.item} : decided'[j] = decided[j]
        /\ h.list = None => decided' = decided
        /\ h.list # None => decided'[h.item] = Once(h.list)
    <2>1. CASE h.list = None
      BY <1>4, <2>1 DEF Named, Sound, Typed
    <2>2. CASE h.list # None
      <3>1. Decide(h.item, Once(h.list)) /\ Once(h.list) \in [Staff -> Nat]
        BY <1>4, <2>2, FreeIs DEF Named
      <3> QED BY <1>2, <2>2, <3>1, DecideIs
    <2> QED BY <2>1, <2>2
  <1> QED BY <1>1, <1>2, <1>4, <1>5, <1>6

LEMMA SaveProjectSound ==
    ASSUME Sound, NEW s \in Slots, SaveProject(s), UNCHANGED taskVars
    PROVE  Sound'
  <1>1. PICK h \in WorkHandler :
              /\ h.item \in Projects /\ h.item \in Items /\ h.rows \in [Staff -> Nat]
              /\ Goes(desk, desk', s, Free)
              /\ project' = [project EXCEPT ![h.item] = TRUE]
              /\ assigned' = [assigned EXCEPT ![h.item] = h.rows]
              /\ decided' \in [Items -> [Staff -> Nat]]
              /\ \A j \in Items \ {h.item} : decided'[j] = decided[j]
              /\ UNCHANGED <<calls, crossed, taskVars>>
    BY SaveProjectIs
  <1>2. /\ project' \in [Projects -> BOOLEAN] /\ \A p \in Projects : project[p] => project'[p]
        /\ project'[h.item] /\ \A p \in Projects \ {h.item} : project'[p] = project[p]
    BY <1>1 DEF Sound, Typed
  <1>3. HandlerOK(Free, born, touched)
    BY FreeIs
  <1>4. /\ UNCHANGED <<task, born, touched, calls, crossed>>
        /\ crossed' \subseteq Items
        /\ \A t \in Tasks \ born : decided'[t] = decided[t]
    <2>1. \A t \in Tasks : t \in Items /\ t # h.item
      BY <1>1, WorkConstants DEF Items
    <2> QED BY <1>1, <2>1 DEF taskVars, Sound, Typed
  <1> QED BY <1>1, <1>2, <1>3, <1>4, RowsSound, Zenon
-----------------------------------------------------------------------------
(* Sound: the removals, and the steps of create and update *)

LEMMA NoTaskIs == /\ NoTask \in TaskRow /\ NoTask.live = FALSE /\ NoTask.project = None
                  /\ NoTask.linked = None /\ NoTask.sprint = 1
  BY TaskConstants DEF NoTask, TaskRow, TaskStatus

LEMMA LiveIs ==
    ASSUME Sound
    PROVE  /\ \A t \in Live : /\ t \in Tasks /\ t \in born /\ t \in Items /\ task[t] \in TaskRow
                              /\ task[t].project # None => task[t].project \in Projects
                                                           /\ project[task[t].project]
           /\ \A t \in Tasks : t \in Items /\ t \notin Projects /\ t \in Nat /\ t # None
           /\ \A p \in Projects : p \in Items /\ p # None /\ p \notin Live
           /\ None \notin Items
  BY WorkConstants DEF Sound, Typed, RowsOK, Live, Items, TaskRow

LEMMA AllStay ==
    ASSUME Sound, \A s \in Slots : Alike(desk'[s], desk[s])
    PROVE  \A s \in Slots : HandlerOK(desk'[s], born, touched)
  <1> SUFFICES ASSUME NEW s \in Slots PROVE HandlerOK(desk'[s], born, touched)
    OBVIOUS
  <1>1. HandlerOK(desk[s], born, touched)
    BY DEF Sound
  <1> QED BY <1>1, HandlerStays

\* The tasks among gone are dropped, nobody is assigned to gone any more
LEMMA GoneSound ==
    ASSUME Sound, NEW gone \in SUBSET Items, Drop(gone \cap Tasks),
           assigned' = [i \in Items |-> IF i \in gone THEN Nobody ELSE assigned[i]],
           decided' = [i \in Items |-> IF i \in gone THEN Nobody ELSE decided[i]],
           crossed' \subseteq Items, calls' \in 0..MaxWorkCalls,
           project' = [q \in Projects |-> project[q] /\ q \notin gone],
           \A t \in Live \ gone : task[t].project \notin gone,
           desk' \in [Slots -> WorkHandler],
           \A s \in Slots : Alike(desk'[s], desk[s]),
           UNCHANGED <<born, touched>>
    PROVE  Sound' /\ Live' = Live \ gone /\ \A t \in Tasks \ gone : task'[t] = task[t]
  <1>1. /\ task \in [Tasks -> TaskRow] /\ assigned \in [Items -> [Staff -> Nat]]
        /\ decided \in [Items -> [Staff -> Nat]] /\ project \in [Projects -> BOOLEAN]
    BY DEF Sound, Typed
  <1>2. task' = [t \in Tasks |-> IF t \in gone THEN NoTask ELSE task[t]]
    BY DEF Drop
  <1>3. task' \in [Tasks -> TaskRow]
    BY <1>1, <1>2, NoTaskIs
  <1>4. assigned' \in [Items -> [Staff -> Nat]] /\ decided' \in [Items -> [Staff -> Nat]]
    BY <1>1, FreeIs
  <1>5. Live' = Live \ gone
    <2>1. \A t \in Tasks : task'[t].live <=> (task[t].live /\ t \notin gone)
      BY <1>2, NoTaskIs
    <2> QED BY <2>1 DEF Live
  <1>6. Typed'
    <2>1. project' \in [Projects -> BOOLEAN]
      BY <1>1
    <2>2. born' \subseteq Tasks /\ touched' \subseteq born'
      BY DEF Sound, Typed
    <2> QED BY <1>3, <1>4, <2>1, <2>2 DEF Typed
  <1>7. RowsOK'
    <2>1. \A t \in Live' : t \in born' /\ (task'[t].project # None => project'[task'[t].project])
      <3> TAKE t \in Live'
      <3>1. t \in Live \ gone /\ t \in Tasks
        BY <1>5, LiveIs
      <3>2. task'[t] = task[t]
        BY <1>2, <3>1
      <3>3. t \in born /\ (task[t].project # None => task[t].project \in Projects
                                                     /\ project[task[t].project])
        BY <3>1, LiveIs
      <3> QED BY <3>1, <3>2, <3>3
    <2>2. \A t \in Tasks \ Live' : assigned'[t] = Nobody
      BY <1>5, LiveIs DEF Sound, RowsOK
    <2>3. \A p \in Projects : ~project'[p] => assigned'[p] = Nobody
      <3> TAKE p \in Projects
      <3>1. project'[p] = (project[p] /\ p \notin gone) /\ p \in Items
        BY LiveIs
      <3> QED BY <3>1 DEF Sound, RowsOK
    <2>4. \A t \in Tasks \ born' : decided'[t] = Nobody
      BY LiveIs DEF Sound, RowsOK
    <2> QED BY <2>1, <2>2, <2>3, <2>4 DEF RowsOK
  <1>8. \A s \in Slots : HandlerOK(desk'[s], born', touched')
    BY AllStay
  <1> QED BY <1>2, <1>5, <1>6, <1>7, <1>8 DEF Sound

RemovalIs(gone) ==
    /\ Live' = Live \ gone /\ \A t \in Tasks \ gone : task'[t] = task[t]
    /\ assigned' = [i \in Items |-> IF i \in gone THEN Nobody ELSE assigned[i]]
    /\ decided' = [i \in Items |-> IF i \in gone THEN Nobody ELSE decided[i]]
    /\ project' = [q \in Projects |-> project[q] /\ q \notin gone]
    /\ \A i \in gone : (\E s \in Slots : desk[s].item = i) => i \in crossed'
    /\ crossed \subseteq crossed'
    /\ \A s \in Slots : /\ Alike(desk'[s], desk[s])
                        /\ desk'[s].late = (desk[s].pc # "idle")
    /\ calls > 0 /\ calls' = calls - 1 /\ UNCHANGED <<born, touched>>

LEMMA RemoveTaskIs ==
    ASSUME Sound, NEW t \in Tasks, RemoveTask(t)
    PROVE  RemovalIs({t}) /\ Sound'
  <1>1. /\ t \in Live /\ t \in Items /\ {t} \in SUBSET Items /\ {t} \cap Tasks = {t}
        /\ \A q \in Projects : q \notin {t}
    BY LiveIs DEF RemoveTask
  <1>2. /\ calls > 0 /\ calls' = calls - 1 /\ Drop({t} \cap Tasks)
        /\ UNCHANGED <<project, born, touched>>
    BY <1>1 DEF RemoveTask
  <1>3. /\ calls' \in 0..MaxWorkCalls
        /\ project' = [q \in Projects |-> project[q] /\ q \notin {t}]
        /\ assigned' = [i \in Items |-> IF i \in {t} THEN Nobody ELSE assigned[i]]
        /\ decided' = [i \in Items |-> IF i \in {t} THEN Nobody ELSE decided[i]]
    <2>1. calls \in 0..MaxWorkCalls /\ project \in [Projects -> BOOLEAN]
      BY DEF Sound, Typed
    <2>2. project' = [q \in Projects |-> project[q] /\ q \notin {t}]
      BY <1>1, <1>2, <2>1
    <2>3. calls' \in 0..MaxWorkCalls
      BY <1>2, <2>1, WorkConstants
    <2>4. assigned' = [i \in Items |-> IF i \in {t} THEN Nobody ELSE assigned[i]]
      BY DEF RemoveTask, Sound, Typed
    <2>5. decided' = [i \in Items |-> IF i \in {t} THEN Nobody ELSE decided[i]]
      BY DEF RemoveTask, Sound, Typed
    <2> QED BY <2>2, <2>3, <2>4, <2>5
  <1>4. /\ crossed' \subseteq Items /\ crossed \subseteq crossed'
        /\ \A i \in {t} : (\E s \in Slots : desk[s].item = i) => i \in crossed'
    BY <1>1 DEF RemoveTask, Sound, Typed
  <1>5. /\ desk' \in [Slots -> WorkHandler]
        /\ \A s \in Slots : Alike(desk'[s], desk[s]) /\ desk'[s].late = (desk[s].pc # "idle")
    BY AllLate DEF RemoveTask, Sound, Typed
  <1>6. \A x \in Live \ {t} : task[x].project \notin {t}
    BY LiveIs
  <1>7. Sound' /\ Live' = Live \ {t} /\ \A x \in Tasks \ {t} : task'[x] = task[x]
    BY <1>1, <1>2, <1>3, <1>4, <1>5, <1>6, GoneSound
  <1> QED BY <1>2, <1>3, <1>4, <1>5, <1>7 DEF RemovalIs

LEMMA RemoveProjectIs ==
    ASSUME Sound, NEW p \in Projects, RemoveProjectAndTasks(p)
    PROVE  \E gone \in SUBSET Items :
              /\ gone = {p} \cup TasksOf(p) /\ RemovalIs(gone) /\ Sound'
  <1>1. PICK gone : gone = {p} \cup TasksOf(p)
    OBVIOUS
  <1>2. TasksOf(p) \subseteq Live /\ Live \subseteq Tasks /\ Live \subseteq Items
    BY LiveIs DEF TasksOf
  <1>3. /\ gone \in SUBSET Items /\ gone \cap Tasks = TasksOf(p)
        /\ \A q \in Projects : q \in gone <=> q = p
    BY <1>1, <1>2, LiveIs
  <1>4. /\ calls > 0 /\ calls' = calls - 1 /\ Drop(gone \cap Tasks)
        /\ assigned' = [i \in Items |-> IF i \in gone THEN Nobody ELSE assigned[i]]
        /\ decided' = [i \in Items |-> IF i \in gone THEN Nobody ELSE decided[i]]
        /\ project' = [project EXCEPT ![p] = FALSE]
        /\ crossed' = crossed \cup {i \in gone : \E s \in Slots : desk[s].item = i}
        /\ desk' = [s \in Slots |-> [desk[s] EXCEPT !.late = desk[s].pc # "idle"]]
        /\ UNCHANGED <<born, touched>>
    BY <1>1, <1>3 DEF RemoveProjectAndTasks, RemoveProject
  <1>5. project' = [q \in Projects |-> project[q] /\ q \notin gone]
    <2>1. project \in [Projects -> BOOLEAN]
      BY DEF Sound, Typed
    <2> QED BY <1>3, <1>4, <2>1
  <1>6. calls' \in 0..MaxWorkCalls
    BY <1>4, WorkConstants DEF Sound, Typed
  <1>7. /\ crossed' \subseteq Items /\ crossed \subseteq crossed'
        /\ \A i \in gone : (\E s \in Slots : desk[s].item = i) => i \in crossed'
    BY <1>3, <1>4 DEF Sound, Typed
  <1>8. /\ desk' \in [Slots -> WorkHandler]
        /\ \A s \in Slots : Alike(desk'[s], desk[s]) /\ desk'[s].late = (desk[s].pc # "idle")
    BY <1>4, AllLate DEF Sound, Typed
  <1>9. \A x \in Live \ gone : task[x].project \notin gone
    <2> TAKE x \in Live \ gone
    <2>1. task[x].project # p
      BY <1>1 DEF TasksOf
    <2>2. task[x].project \in Projects \/ task[x].project = None
      BY LiveIs
    <2> QED BY <1>3, <2>1, <2>2, LiveIs
  <1>10. Sound' /\ Live' = Live \ gone /\ \A x \in Tasks \ gone : task'[x] = task[x]
    BY <1>3, <1>4, <1>5, <1>6, <1>7, <1>8, <1>9, GoneSound
  <1> QED BY <1>1, <1>3, <1>4, <1>5, <1>7, <1>8, <1>10 DEF RemovalIs
\* Where create and update place a task
LEMMA PlacedIs ==
    ASSUME NEW row \in TaskRow, NEW p \in Projects \cup {None}
    PROVE  \E r \in TaskRow :
              /\ r = Placed(row, p)
              /\ r.live = row.live /\ r.sprint = row.sprint /\ r.dept = row.dept
              /\ \/ p = None /\ r = row
                 \/ p # None /\ IsProjectCompleted(p) /\ r.linked = p /\ r.project = row.project
                 \/ p # None /\ ~IsProjectCompleted(p) /\ r.project = p /\ r.linked = row.linked
  <1>1. CASE p = None
    <2>1. Placed(row, p) = row
      BY <1>1 DEF Placed
    <2> QED BY <1>1, <2>1
  <1>2. CASE p # None /\ IsProjectCompleted(p)
    <2> DEFINE r == [row EXCEPT !.linked = p]
    <2>1. /\ r \in TaskRow /\ r.live = row.live /\ r.sprint = row.sprint /\ r.dept = row.dept
          /\ r.linked = p /\ r.project = row.project
      BY DEF TaskRow
    <2>2. Placed(row, p) = r
      BY <1>2 DEF Placed
    <2> QED BY <1>2, <2>1, <2>2
  <1>3. CASE p # None /\ ~IsProjectCompleted(p)
    <2> DEFINE r == [row EXCEPT !.project = p]
    <2>1. /\ r \in TaskRow /\ r.live = row.live /\ r.sprint = row.sprint /\ r.dept = row.dept
          /\ r.project = p /\ r.linked = row.linked
      BY DEF TaskRow
    <2>2. Placed(row, p) = r
      BY <1>3 DEF Placed
    <2> QED BY <1>3, <2>1, <2>2
  <1> QED BY <1>1, <1>2, <1>3

\* The handler of create as it starts
CreateHandler(h, p, n, list, d) ==
    /\ h.op = "create" /\ h.pc = "insert" /\ h.item = None /\ h.list = list
    /\ h.rows = Nobody /\ h.todo = NoEntries /\ h.late = FALSE
    /\ h.object \in TaskRow /\ h.object.sprint = n /\ h.object.dept = d
    /\ \/ h.object.linked = None /\ h.object.project = p
          /\ (p # None => ~IsProjectCompleted(p))
       \/ h.object.linked # None /\ h.object.project = None

LEMMA AskCreateIs ==
    ASSUME Sound, NEW s \in Slots, NEW u \in Staff, NEW list \in Lists,
           NEW p \in Projects \cup {None}, NEW n \in Sprints, NEW x \in NewStatuses,
           NEW d \in Departments \cup {None}, AskCreateTask(s, u, p, n, x, list, d)
    PROVE  \E h \in WorkHandler :
              /\ HandlerOK(h, born, touched) /\ TakeDesk(s, h) /\ SameTables
              /\ GateOpen(p, n, list, d) /\ CreateHandler(h, p, n, list, d)
  <1> DEFINE new == [NoTask EXCEPT !.live = TRUE, !.sprint = n,
                                   !.status = StatusOrDefault(x), !.creator = u, !.dept = d]
  <1>1. /\ new \in TaskRow /\ new.live = TRUE /\ new.sprint = n /\ new.dept = d
        /\ new.project = None /\ new.linked = None
    <2>1. StatusOrDefault(x) \in TaskStatus
      BY TaskConstants DEF StatusOrDefault, TaskStatus
    <2> QED BY <2>1, NoTaskIs DEF TaskRow
  <1>2. /\ GateOpen(p, n, list, d) /\ SameTables
        /\ TakeDesk(s, [Free EXCEPT !.op = "create", !.pc = "insert", !.list = list,
                                    !.object = Placed(new, p)])
    BY DEF AskCreateTask, SameTables
  <1> HIDE DEF new
  <1>3. PICK r \in TaskRow :
              /\ r = Placed(new, p)
              /\ r.live = new.live /\ r.sprint = new.sprint /\ r.dept = new.dept
              /\ \/ p = None /\ r = new
                 \/ p # None /\ IsProjectCompleted(p) /\ r.linked = p /\ r.project = new.project
                 \/ p # None /\ ~IsProjectCompleted(p) /\ r.project = p /\ r.linked = new.linked
    BY <1>1, PlacedIs
  <1> DEFINE h == [Free EXCEPT !.op = "create", !.pc = "insert", !.list = list, !.object = r]
  <1>4. /\ h \in WorkHandler
        /\ h.op = "create" /\ h.pc = "insert" /\ h.item = None /\ h.list = list
        /\ h.rows = Nobody /\ h.todo = NoEntries /\ h.late = FALSE /\ h.object = r
    BY FreeIs DEF WorkHandler, Ops, Stages
  <1>5. TakeDesk(s, h)
    BY <1>2, <1>3
  <1> HIDE DEF h
  <1>6. HandlerOK(h, born, touched)
    BY <1>1, <1>3, <1>4 DEF HandlerOK
  <1>7. CreateHandler(h, p, n, list, d)
    BY <1>1, <1>3, <1>4 DEF CreateHandler
  <1> QED BY <1>2, <1>4, <1>5, <1>6, <1>7, Zenon

LEMMA ChangeIs ==
    ASSUME NEW change \in Changes
    PROVE  /\ change.status \in TaskStatus \cup {None} /\ change.sprint \in Sprints \cup {None}
           /\ change.project \in Projects \cup {None}
           /\ change.dept \in Departments \cup {None}
  BY TaskConstants DEF Changes, Same

\* The handler of update as it starts
UpdateHandler(h, t, list) ==
    /\ h.pc = "update" /\ h.item = t
    /\ h.list = IF list = NoEntries THEN None ELSE list
    /\ h.rows = assigned[t] /\ h.todo = NoEntries /\ h.late = FALSE
    /\ h.object \in TaskRow
    /\ \/ h.op = "edit" /\ h.object.project = task[t].project
       \/ h.op = "link"
       \/ h.op = "move" /\ h.object.project # None
          /\ ~IsProjectCompleted(h.object.project)

LEMMA AskUpdateIs ==
    ASSUME Sound, NEW s \in Slots, NEW u \in Staff, NEW list \in Lists, NEW t \in Tasks,
           NEW change \in Changes, AskUpdateTask(s, u, t, change, list)
    PROVE  \E h \in WorkHandler :
              /\ HandlerOK(h, born, touched) /\ TakeDesk(s, h) /\ SameTables /\ t \in Live
              /\ UpdateHandler(h, t, list)
  <1>1. PICK row, p : row = task[t] /\ p = change.project
    OBVIOUS
  <1>2. PICK edited : edited = [row EXCEPT
                     !.status = IF change.status = None THEN @ ELSE change.status,
                     !.sprint = IF change.sprint = None THEN @ ELSE change.sprint,
                     !.dept = IF change.dept = None THEN @ ELSE change.dept]
    OBVIOUS
  <1>3. t \in Live /\ row \in TaskRow /\ row.live /\ t \in born /\ t \in Items
    <2>1. t \in Live
      BY DEF AskUpdateTask
    <2> QED BY <1>1, <2>1, LiveIs DEF Live
  <1>4. p \in Projects \cup {None}
    BY <1>1, ChangeIs
  <1>5. edited \in TaskRow /\ edited.live = TRUE /\ edited.project = row.project
    <2>1. /\ (IF change.status = None THEN row.status ELSE change.status) \in TaskStatus
          /\ (IF change.sprint = None THEN row.sprint ELSE change.sprint) \in Sprints
          /\ (IF change.dept = None THEN row.dept ELSE change.dept) \in Departments \cup {None}
      BY <1>3, ChangeIs DEF TaskRow
    <2> QED BY <1>2, <1>3, <2>1 DEF TaskRow
  <1>6. PICK r \in TaskRow :
              /\ r = Placed(edited, p)
              /\ r.live = edited.live
              /\ \/ p = None /\ r = edited
                 \/ p # None /\ IsProjectCompleted(p) /\ r.linked = p
                 \/ p # None /\ ~IsProjectCompleted(p) /\ r.project = p
    BY <1>4, <1>5, PlacedIs
  <1>7. PICK op, l, rows :
              /\ op = (IF p = None THEN "edit" ELSE IF IsProjectCompleted(p)
                                       THEN "link" ELSE "move")
              /\ l = (IF list = NoEntries THEN None ELSE list)
              /\ rows = assigned[t]
    OBVIOUS
  <1> DEFINE h == [Free EXCEPT !.pc = "update", !.item = t, !.op = op, !.list = l,
                               !.rows = rows, !.object = r]
  <1>8. rows \in [Staff -> Nat]
    BY <1>3, <1>7 DEF Sound, Typed
  <1>9. /\ h \in WorkHandler
        /\ h.op = op /\ h.pc = "update" /\ h.item = t /\ h.list = l
        /\ h.rows = rows /\ h.todo = NoEntries /\ h.late = FALSE /\ h.object = r
    <2>1. op \in Ops /\ l \in Lists \cup {None}
      BY <1>7 DEF Ops
    <2> QED BY <1>3, <1>8, <2>1, FreeIs DEF WorkHandler, Stages
  <1>10. TakeDesk(s, h) /\ SameTables
    <2>1. TakeDesk(s, [Free EXCEPT !.pc = "update", !.item = t, !.op = op, !.list = l,
                                   !.rows = rows, !.object = Placed(edited, p)])
      BY <1>1, <1>2, <1>7 DEF AskUpdateTask
    <2> QED BY <1>6, <2>1 DEF AskUpdateTask, SameTables
  <1> HIDE DEF h
  <1>11. HandlerOK(h, born, touched)
    <2>1. op \in {"edit", "link", "move"}
      BY <1>7
    <2> QED BY <1>3, <1>5, <1>6, <1>9, <2>1 DEF HandlerOK
  <1>12. \/ h.op = "edit" /\ h.object.project = task[t].project
         \/ h.op = "link"
         \/ h.op = "move" /\ h.object.project # None /\ ~IsProjectCompleted(h.object.project)
    BY <1>1, <1>5, <1>6, <1>7, <1>9
  <1>13. UpdateHandler(h, t, list)
    BY <1>6, <1>7, <1>9, <1>12 DEF UpdateHandler
  <1> QED BY <1>3, <1>9, <1>10, <1>11, <1>13, Zenon
-----------------------------------------------------------------------------
(* The next id                                                               *)

LEMMA NextTask ==
    ASSUME Sound, Tasks \ born # {}
    PROVE  \E t \in Tasks \ born :
              /\ t = CHOOSE v \in Tasks : \A w \in Tasks \ born : v <= w /\ v \notin born
              /\ \A x \in Tasks \ born : t <= x
  <1>1. PICK n \in Tasks \ born : TRUE
    OBVIOUS
  <1> DEFINE T == {x \in Tasks \ born : x <= n}
  <1>2. n \in Nat /\ T \subseteq 1..n /\ T # {}
    <2>1. n \in Nat /\ \A x \in Tasks : x \in Nat /\ 1 <= x
      BY <1>1, WorkConstants
    <2>2. n \in T
      BY <1>1, <2>1
    <2>3. T \subseteq 1..n
      <3> SUFFICES ASSUME NEW y \in T PROVE y \in 1..n
        OBVIOUS
      <3>1. y \in Tasks /\ y <= n
        OBVIOUS
      <3>2. y \in Nat /\ 1 <= y
        BY <2>1, <3>1
      <3> QED BY <2>1, <3>1, <3>2
    <2>4. T # {}
      BY <2>2
    <2> QED BY <2>1, <2>3, <2>4
  <1>3. PICK x \in T : \A y \in T : x <= y
    <2> HIDE DEF T
    <2> QED BY <1>2, LeastNumber
  <1>4. \A y \in Tasks \ born : x <= y
    <2> TAKE y \in Tasks \ born
    <2>1. y \in Nat /\ x \in Nat /\ x <= n
      BY <1>3, WorkConstants
    <2> QED BY <1>2, <1>3, <2>1
  <1>5. x \in Tasks /\ \A y \in Tasks \ born : x <= y /\ x \notin born
    BY <1>3, <1>4
  <1>6. PICK t : t = CHOOSE v \in Tasks : \A w \in Tasks \ born : v <= w /\ v \notin born
    OBVIOUS
  <1>7. t \in Tasks /\ \A y \in Tasks \ born : t <= y /\ t \notin born
    BY <1>5, <1>6
  <1> QED BY <1>1, <1>6, <1>7

LEMMA InsertIs ==
    ASSUME Sound, NEW s \in Slots, InsertTask(s)
    PROVE  \E h \in WorkHandler, g \in WorkHandler, t \in Tasks \ born :
              /\ h = desk[s] /\ HandlerOK(h, born, touched) /\ HandlerOK(g, born', touched')
              /\ h.pc = "insert" /\ \A x \in Tasks \ born : t <= x
              /\ Goes(desk, desk', s, g)
              /\ \A r \in Slots \ {s} : desk'[r].late = (desk[r].pc # "idle")
              /\ UNCHANGED <<project, assigned, calls, decided, crossed>>
              /\ \/ /\ h.object.project # None => project[h.object.project]
                    /\ task' = [task EXCEPT ![t] = h.object] /\ born' = born \cup {t}
                    /\ touched' = IF h.late THEN touched \cup {t} ELSE touched
                    /\ \/ h.list = NoEntries /\ g = Free
                       \/ /\ g.op = "create" /\ g.pc = "staff" /\ g.item = t /\ g.list = h.list
                          /\ g.rows = Nobody /\ g.todo = h.todo /\ g.late = h.late
                 \/ UNCHANGED taskVars /\ g = Free
  <1>1. PICK h \in WorkHandler : h = desk[s] /\ HandlerOK(h, born, touched)
    BY DeskOf
  <1>2. h.pc = "insert" /\ Tasks \ born # {}
    BY <1>1 DEF InsertTask
  <1>3. PICK t \in Tasks \ born :
              /\ t = CHOOSE v \in Tasks : \A w \in Tasks \ born : v <= w /\ v \notin born
              /\ \A x \in Tasks \ born : t <= x
    BY <1>2, NextTask
  <1>4. /\ h.op = "create" /\ h.list \in Lists /\ h.rows = Nobody
    BY <1>1, <1>2 DEF HandlerOK
  <1>5. UNCHANGED <<project, assigned, calls, decided, crossed>>
    BY DEF InsertTask
  <1>6. desk \in [Slots -> WorkHandler]
    BY DEF Sound, Typed
  <1>7. CASE h.object.project = None \/ (h.object.project # None /\ project[h.object.project])
    <2> DEFINE k == [h EXCEPT !.pc = "staff", !.item = t, !.object = None]
    <2>1. PICK g : g = IF h.list = NoEntries THEN Free ELSE k
      OBVIOUS
    <2>2. /\ task' = [task EXCEPT ![t] = h.object] /\ born' = born \cup {t}
          /\ touched' = IF h.late THEN touched \cup {t} ELSE touched
          /\ Wrote(s, g)
      BY <1>1, <1>3, <1>7, <2>1 DEF InsertTask
    <2>3. /\ k \in WorkHandler /\ k.op = "create" /\ k.pc = "staff" /\ k.item = t
          /\ k.list = h.list /\ k.rows = Nobody /\ k.todo = h.todo /\ k.late = h.late
      BY <1>3, <1>4 DEF WorkHandler, Stages, Items
    <2> HIDE DEF k
    <2>4. HandlerOK(k, born', touched')
      BY <1>4, <2>2, <2>3 DEF HandlerOK
    <2>5. g \in WorkHandler /\ HandlerOK(g, born', touched')
      BY <2>1, <2>3, <2>4, FreeIs
    <2>6. /\ Goes(desk, desk', s, g)
          /\ \A r \in Slots \ {s} : desk'[r].late = (desk[r].pc # "idle")
      BY <1>6, <2>2, <2>5, WroteIs
    <2>7. \/ h.list = NoEntries /\ g = Free
          \/ /\ g.op = "create" /\ g.pc = "staff" /\ g.item = t /\ g.list = h.list
             /\ g.rows = Nobody /\ g.todo = h.todo /\ g.late = h.late
      BY <2>1, <2>3
    <2> QED BY <1>1, <1>2, <1>3, <1>5, <1>7, <2>2, <2>5, <2>6, <2>7
  <1>8. CASE ~(h.object.project = None \/ (h.object.project # None /\ project[h.object.project]))
    <2>1. Wrote(s, Free) /\ UNCHANGED taskVars
      BY <1>1, <1>8 DEF InsertTask
    <2>2. /\ Goes(desk, desk', s, Free)
          /\ \A r \in Slots \ {s} : desk'[r].late = (desk[r].pc # "idle")
      BY <1>6, <2>1, WroteIs, FreeIs
    <2> QED BY <1>1, <1>2, <1>3, <1>5, <2>1, <2>2, FreeIs
  <1> QED BY <1>7, <1>8

\* A task row is saved: the row r at t, and its assignments
LEMMA SavedSound ==
    ASSUME Sound, NEW s \in Slots, NEW h, HandlerOK(h, born', touched'),
           Goes(desk, desk', s, h),
           NEW t \in Tasks, NEW r \in TaskRow, r.live,
           r.project # None => project[r.project],
           task' = [task EXCEPT ![t] = r],
           NEW rows \in [Staff -> Nat], assigned' = [assigned EXCEPT ![t] = rows],
           born' = born \cup {t}, touched \subseteq touched', touched' \subseteq touched \cup {t},
           UNCHANGED <<project, calls, decided, crossed>>
    PROVE  Sound' /\ Live' = Live \cup {t} /\ \A x \in Tasks \ {t} : task'[x] = task[x]
  <1>1. /\ task \in [Tasks -> TaskRow] /\ assigned \in [Items -> [Staff -> Nat]] /\ t \in Items
        /\ task'[t] = r /\ assigned'[t] = rows
        /\ \A x \in Tasks \ {t} : task'[x] = task[x]
        /\ \A x \in Items \ {t} : assigned'[x] = assigned[x]
    BY LiveIs DEF Sound, Typed
  <1>2. Typed'
    BY <1>1 DEF Sound, Typed, Goes
  <1>3. Live' = Live \cup {t}
    BY <1>1 DEF Live
  <1>4. RowsOK'
    <2>1. \A x \in Live' : x \in born' /\ (task'[x].project # None => project'[task'[x].project])
      <3> TAKE x \in Live'
      <3>1. CASE x = t
        BY <1>1, <3>1
      <3>2. CASE x # t
        <4>1. x \in Live /\ x \in Tasks /\ task'[x] = task[x]
          BY <1>1, <1>3, <3>2, LiveIs
        <4> QED BY <4>1, LiveIs
      <3> QED BY <3>1, <3>2
    <2>2. \A x \in Tasks \ Live' : assigned'[x] = Nobody
      BY <1>1, <1>3, LiveIs DEF Sound, RowsOK
    <2>3. \A p \in Projects : ~project'[p] => assigned'[p] = Nobody
      BY <1>1, LiveIs DEF Sound, RowsOK
    <2>4. \A x \in Tasks \ born' : decided'[x] = Nobody
      BY DEF Sound, RowsOK
    <2> QED BY <2>1, <2>2, <2>3, <2>4 DEF RowsOK
  <1>5. \A q \in Slots : HandlerOK(desk[q], born, touched)
    BY DEF Sound
  <1>6. \A q \in Slots : HandlerOK(desk'[q], born', touched')
    <2> TAKE q \in Slots
    <2>1. CASE q = s
      BY <2>1 DEF Goes
    <2>2. CASE q # s
      <3>1. Alike(desk'[q], desk[q]) /\ HandlerOK(desk[q], born, touched) /\ born \subseteq born'
        BY <1>5, <2>2 DEF Goes
      <3> QED BY <3>1, HandlerStays
    <2> QED BY <2>1, <2>2
  <1> QED BY <1>1, <1>2, <1>3, <1>4, <1>6 DEF Sound

LEMMA InsertSound == ASSUME Sound, NEW s \in Slots, InsertTask(s) PROVE Sound'
  <1>1. PICK h \in WorkHandler, g \in WorkHandler, t \in Tasks \ born :
              /\ h = desk[s] /\ HandlerOK(h, born, touched) /\ HandlerOK(g, born', touched')
              /\ h.pc = "insert"
              /\ Goes(desk, desk', s, g)
              /\ UNCHANGED <<project, assigned, calls, decided, crossed>>
              /\ \/ /\ h.object.project # None => project[h.object.project]
                    /\ task' = [task EXCEPT ![t] = h.object] /\ born' = born \cup {t}
                    /\ touched' = IF h.late THEN touched \cup {t} ELSE touched
                 \/ UNCHANGED taskVars /\ g = Free
    BY InsertIs
  <1>2. CASE UNCHANGED taskVars /\ g = Free
    <2>1. SameTables /\ calls' \in 0..MaxWorkCalls /\ crossed' \subseteq Items
      BY <1>1, <1>2 DEF SameTables, Sound, Typed
    <2> QED BY <1>1, <1>2, <2>1, DeskSound, FreeIs
  <1>3. CASE /\ h.object.project # None => project[h.object.project]
             /\ task' = [task EXCEPT ![t] = h.object] /\ born' = born \cup {t}
             /\ touched' = IF h.late THEN touched \cup {t} ELSE touched
    <2>1. PICK rows : rows = assigned[t]
      OBVIOUS
    <2>2. rows \in [Staff -> Nat] /\ assigned' = [assigned EXCEPT ![t] = rows] /\ t \in Items
      BY <1>1, <2>1, LiveIs DEF Sound, Typed
    <2>3. h.object \in TaskRow /\ h.object.live
      BY <1>1 DEF HandlerOK
    <2>4. touched \subseteq touched' /\ touched' \subseteq touched \cup {t}
      BY <1>3
    <2> QED BY <1>1, <1>3, <2>2, <2>3, <2>4, SavedSound
  <1> QED BY <1>1, <1>2, <1>3
LEMMA KeptIs ==
    ASSUME NEW h \in WorkHandler, h.object \in TaskRow, h.op \in {"edit", "link", "move"},
           NEW row \in TaskRow
    PROVE  \E r \in TaskRow : /\ r = Kept(h, row) /\ r.live = h.object.live
                              /\ h.op = "edit" => r.project = h.object.project
                              /\ h.op = "link" => r.project = row.project
                              /\ h.op = "move" => r.project = h.object.project
  <1>1. CASE h.op = "edit"
    BY <1>1 DEF Kept
  <1>2. CASE h.op = "link"
    <2>1. [h.object EXCEPT !.project = row.project] = Kept(h, row)
      BY <1>2 DEF Kept
    <2>2. /\ [h.object EXCEPT !.project = row.project] \in TaskRow
          /\ [h.object EXCEPT !.project = row.project].live = h.object.live
          /\ [h.object EXCEPT !.project = row.project].project = row.project
      BY DEF TaskRow
    <2> QED BY <1>2, <2>1, <2>2
  <1>3. CASE h.op = "move"
    <2>1. [h.object EXCEPT !.linked = row.linked] = Kept(h, row)
      BY <1>3 DEF Kept
    <2>2. /\ [h.object EXCEPT !.linked = row.linked] \in TaskRow
          /\ [h.object EXCEPT !.linked = row.linked].live = h.object.live
          /\ [h.object EXCEPT !.linked = row.linked].project = h.object.project
      BY DEF TaskRow
    <2> QED BY <1>3, <2>1, <2>2
  <1> QED BY <1>1, <1>2, <1>3

LEMMA SaveTaskIs ==
    ASSUME Sound, NEW s \in Slots, SaveTask(s)
    PROVE  \E h \in WorkHandler, g \in WorkHandler, r \in TaskRow, t \in Tasks :
              /\ h = desk[s] /\ HandlerOK(h, born, touched) /\ HandlerOK(g, born', touched')
              /\ h.pc = "update" /\ t = h.item /\ t \in born /\ h.rows \in [Staff -> Nat]
              /\ r.live
              /\ h.op = "edit" => r.project = h.object.project
              /\ h.op = "link" => r.project = task[t].project
              /\ h.op = "move" => r.project = h.object.project
              /\ Goes(desk, desk', s, g)
              /\ \A q \in Slots \ {s} : desk'[q].late = (desk[q].pc # "idle")
              /\ UNCHANGED <<project, calls, decided, crossed, born>>
              /\ \/ /\ r.project # None => project[r.project]
                    /\ task' = [task EXCEPT ![t] = r] /\ touched' = touched \cup {t}
                    /\ assigned' = [assigned EXCEPT ![t] = h.rows]
                    /\ \/ h.list = None /\ g = Free
                       \/ /\ h.list # None /\ g.op = h.op /\ g.pc = "clear" /\ g.item = t
                          /\ g.list = h.list /\ g.rows = h.rows /\ g.todo = h.todo
                 \/ UNCHANGED <<assigned, task, touched>> /\ g = Free
  <1>1. PICK h \in WorkHandler : h = desk[s] /\ HandlerOK(h, born, touched)
    BY DeskOf
  <1>2. h.pc = "update"
    BY <1>1 DEF SaveTask
  <1>3. /\ h.op \in {"edit", "link", "move"} /\ h.item \in born
        /\ h.object \in TaskRow /\ h.object.live /\ h.rows \in [Staff -> Nat]
    BY <1>1, <1>2 DEF HandlerOK, WorkHandler
  <1>4. PICK t \in Tasks, old \in TaskRow : t = h.item /\ t \in born /\ old = task[t]
    BY <1>3 DEF Sound, Typed
  <1>5. PICK r \in TaskRow : /\ r = Kept(h, old) /\ r.live = h.object.live
                             /\ h.op = "edit" => r.project = h.object.project
                             /\ h.op = "link" => r.project = old.project
                             /\ h.op = "move" => r.project = h.object.project
    BY <1>3, KeptIs
  <1>6. UNCHANGED <<project, calls, decided, crossed, born>>
    BY DEF SaveTask
  <1>7. desk \in [Slots -> WorkHandler]
    BY DEF Sound, Typed
  <1>8. CASE r.project = None \/ (r.project # None /\ project[r.project])
    <2> DEFINE k == [h EXCEPT !.pc = "clear", !.object = None]
    <2>1. PICK g : g = IF Named(h) THEN k ELSE Free
      OBVIOUS
    <2>2. /\ task' = [task EXCEPT ![t] = r] /\ touched' = touched \cup {t}
          /\ assigned' = [assigned EXCEPT ![t] = h.rows] /\ Wrote(s, g)
      BY <1>1, <1>4, <1>5, <1>8, <2>1 DEF SaveTask
    <2>3. /\ k \in WorkHandler /\ k.op = h.op /\ k.pc = "clear" /\ k.item = t
          /\ k.list = h.list /\ k.rows = h.rows /\ k.todo = h.todo
      BY <1>4 DEF WorkHandler, Stages
    <2> HIDE DEF k
    <2>4. h.list # None => HandlerOK(k, born', touched')
      <3>1. h.list # None => h.list \in Lists
        BY DEF WorkHandler
      <3> QED BY <1>3, <1>4, <1>6, <2>2, <2>3, <3>1 DEF HandlerOK
    <2>5. g \in WorkHandler /\ HandlerOK(g, born', touched')
      BY <2>1, <2>3, <2>4, FreeIs DEF Named
    <2>6. /\ Goes(desk, desk', s, g)
          /\ \A q \in Slots \ {s} : desk'[q].late = (desk[q].pc # "idle")
      BY <1>7, <2>2, <2>5, WroteIs
    <2>7. \/ h.list = None /\ g = Free
          \/ /\ h.list # None /\ g.op = h.op /\ g.pc = "clear" /\ g.item = t
             /\ g.list = h.list /\ g.rows = h.rows /\ g.todo = h.todo
      BY <2>1, <2>3 DEF Named
    <2>8. /\ r.project # None => project[r.project]
          /\ task' = [task EXCEPT ![t] = r] /\ touched' = touched \cup {t}
          /\ assigned' = [assigned EXCEPT ![t] = h.rows]
      BY <1>8, <2>2
    <2>9. /\ r.live
          /\ h.op = "edit" => r.project = h.object.project
          /\ h.op = "link" => r.project = task[t].project
          /\ h.op = "move" => r.project = h.object.project
          /\ h.rows \in [Staff -> Nat]
      BY <1>3, <1>4, <1>5
    <2> QED BY <1>1, <1>2, <1>4, <1>6, <2>5, <2>6, <2>7, <2>8, <2>9, Zenon
  <1>9. CASE ~(r.project = None \/ (r.project # None /\ project[r.project]))
    <2>1. Wrote(s, Free) /\ UNCHANGED <<assigned, task, touched>>
      BY <1>1, <1>4, <1>5, <1>9 DEF SaveTask
    <2>2. /\ Goes(desk, desk', s, Free)
          /\ \A q \in Slots \ {s} : desk'[q].late = (desk[q].pc # "idle")
      BY <1>7, <2>1, WroteIs, FreeIs
    <2> QED BY <1>1, <1>2, <1>3, <1>4, <1>5, <1>6, <2>1, <2>2, FreeIs
  <1> QED BY <1>8, <1>9

LEMMA SaveTaskSound == ASSUME Sound, NEW s \in Slots, SaveTask(s) PROVE Sound'
  <1>1. PICK h \in WorkHandler, g \in WorkHandler, r \in TaskRow, t \in Tasks :
              /\ HandlerOK(g, born', touched')
              /\ t \in born /\ h.rows \in [Staff -> Nat] /\ r.live
              /\ Goes(desk, desk', s, g)
              /\ UNCHANGED <<project, calls, decided, crossed, born>>
              /\ \/ /\ r.project # None => project[r.project]
                    /\ task' = [task EXCEPT ![t] = r] /\ touched' = touched \cup {t}
                    /\ assigned' = [assigned EXCEPT ![t] = h.rows]
                 \/ UNCHANGED <<assigned, task, touched>> /\ g = Free
    BY SaveTaskIs
  <1>2. CASE UNCHANGED <<assigned, task, touched>> /\ g = Free
    <2>1. SameTables /\ calls' \in 0..MaxWorkCalls /\ crossed' \subseteq Items
      BY <1>1, <1>2 DEF SameTables, taskVars, Sound, Typed
    <2> QED BY <1>1, <1>2, <2>1, DeskSound, FreeIs
  <1>3. CASE /\ r.project # None => project[r.project]
             /\ task' = [task EXCEPT ![t] = r] /\ touched' = touched \cup {t}
             /\ assigned' = [assigned EXCEPT ![t] = h.rows]
    <2>1. born' = born \cup {t} /\ touched \subseteq touched' /\ touched' \subseteq touched \cup {t}
      BY <1>1, <1>3
    <2> QED BY <1>1, <1>3, <2>1, SavedSound
  <1> QED BY <1>1, <1>2, <1>3

LEMMA ClearIs ==
    ASSUME Sound, NEW s \in Slots, Clear(s)
    PROVE  \E h \in WorkHandler, g \in WorkHandler, t \in Tasks :
              /\ h = desk[s] /\ HandlerOK(h, born, touched) /\ HandlerOK(g, born, touched)
              /\ h.pc = "clear" /\ t = h.item /\ t \in born /\ t \in touched
              /\ g.op = h.op /\ g.pc = "staff" /\ g.item = t
              /\ g.list = h.list /\ g.rows = h.rows /\ g.todo = h.todo
              /\ Goes(desk, desk', s, g)
              /\ \A q \in Slots \ {s} : desk'[q].late = (desk[q].pc # "idle")
              /\ assigned' = [assigned EXCEPT ![t] = Nobody]
              /\ UNCHANGED <<project, calls, decided, crossed, taskVars>>
  <1>1. PICK h \in WorkHandler : h = desk[s] /\ HandlerOK(h, born, touched) /\ h.pc = "clear"
    BY DeskOf DEF Clear
  <1>2. /\ h.op # "create" /\ h.list \in Lists /\ h.item \in born /\ h.item \in touched
        /\ h.item \in Tasks
    BY <1>1 DEF HandlerOK, Sound, Typed
  <1> DEFINE g == [h EXCEPT !.pc = "staff"]
  <1>3. /\ g \in WorkHandler /\ g.op = h.op /\ g.pc = "staff" /\ g.item = h.item
        /\ g.list = h.list /\ g.rows = h.rows /\ g.todo = h.todo
    BY DEF WorkHandler, Stages
  <1>4. /\ Wrote(s, g) /\ assigned' = [assigned EXCEPT ![h.item] = Nobody]
        /\ UNCHANGED <<project, calls, decided, crossed, taskVars>>
    BY <1>1 DEF Clear, Cleared
  <1> HIDE DEF g
  <1>5. HandlerOK(g, born, touched)
    BY <1>2, <1>3 DEF HandlerOK
  <1>6. /\ Goes(desk, desk', s, g)
        /\ \A q \in Slots \ {s} : desk'[q].late = (desk[q].pc # "idle")
    BY <1>3, <1>4, WroteIs DEF Sound, Typed
  <1> QED BY <1>1, <1>2, <1>3, <1>4, <1>5, <1>6

LEMMA ClearSound == ASSUME Sound, NEW s \in Slots, Clear(s) PROVE Sound'
  <1>1. PICK g \in WorkHandler, t \in Tasks :
              /\ HandlerOK(g, born, touched)
              /\ Goes(desk, desk', s, g)
              /\ assigned' = [assigned EXCEPT ![t] = Nobody]
              /\ UNCHANGED <<project, calls, decided, crossed, taskVars>>
    BY ClearIs
  <1>2. /\ UNCHANGED <<task, born, touched, calls>> /\ t \in Items
        /\ project' \in [Projects -> BOOLEAN] /\ \A p \in Projects : project'[p] = project[p]
        /\ crossed' \subseteq Items /\ decided' \in [Items -> [Staff -> Nat]]
        /\ Nobody \in [Staff -> Nat]
        /\ \A x \in Tasks \ born : decided'[x] = decided[x]
    BY <1>1, LiveIs, FreeIs DEF taskVars, Sound, Typed
  <1> QED BY <1>1, <1>2, RowsSound, Zenon

LEMMA SaveStaffIs ==
    ASSUME Sound, NEW s \in Slots, SaveStaff(s)
    PROVE  \E h \in WorkHandler, t \in Tasks :
              /\ h = desk[s] /\ HandlerOK(h, born, touched)
              /\ h.pc = "staff" /\ t = h.item /\ t \in born /\ t \in Items /\ h.list \in Lists
              /\ Goes(desk, desk', s, Free)
              /\ \A q \in Slots \ {s} : desk'[q].late = (desk[q].pc # "idle")
              /\ touched' = IF h.late THEN touched \cup {t} ELSE touched
              /\ UNCHANGED <<project, calls, task, born>>
              /\ \/ /\ crossed' = crossed \cup {t} /\ UNCHANGED <<assigned, decided>>
                 \/ /\ ~(h.list[Ghost] > 0) /\ t \in Live /\ crossed' = crossed
                    /\ decided' \in [Items -> [Staff -> Nat]]
                    /\ \A j \in Items \ {t} : decided'[j] = decided[j]
                    /\ decided'[t] = PerEntry(h.list)
                    /\ \E rows \in [Staff -> Nat] :
                         /\ assigned' = [assigned EXCEPT ![t] = rows]
                         /\ \A u \in Staff : rows[u] = assigned[t][u] + h.list[u]
  <1>1. PICK h \in WorkHandler : h = desk[s] /\ HandlerOK(h, born, touched) /\ h.pc = "staff"
    BY DeskOf DEF SaveStaff
  <1>2. PICK t \in Tasks : t = h.item /\ t \in born /\ h.list \in Lists /\ t \in Items
    BY <1>1, LiveIs DEF HandlerOK, Sound, Typed
  <1>3. /\ Goes(desk, desk', s, Free)
        /\ \A q \in Slots \ {s} : desk'[q].late = (desk[q].pc # "idle")
    BY WroteIs, FreeIs DEF SaveStaff, Sound, Typed
  <1>4. /\ touched' = IF h.late THEN touched \cup {t} ELSE touched
        /\ UNCHANGED <<project, calls, task, born>>
    BY <1>1, <1>2 DEF SaveStaff
  <1>5. ASSUME h.list[Ghost] > 0 \/ ~task[t].live
        PROVE  crossed' = crossed \cup {t} /\ UNCHANGED <<assigned, decided>>
    BY <1>1, <1>2, <1>5 DEF SaveStaff
  <1>6. ASSUME ~(h.list[Ghost] > 0 \/ ~task[t].live)
        PROVE  /\ ~(h.list[Ghost] > 0) /\ t \in Live /\ crossed' = crossed
               /\ decided' \in [Items -> [Staff -> Nat]]
               /\ \A j \in Items \ {t} : decided'[j] = decided[j]
               /\ decided'[t] = PerEntry(h.list)
               /\ \E rows \in [Staff -> Nat] :
                    /\ assigned' = [assigned EXCEPT ![t] = rows]
                    /\ \A u \in Staff : rows[u] = assigned[t][u] + h.list[u]
    <2>1. /\ assigned' = [assigned EXCEPT ![t] = [u \in Staff |-> @[u] + h.list[u]]]
          /\ Decide(t, PerEntry(h.list)) /\ crossed' = crossed
      BY <1>1, <1>2, <1>6 DEF SaveStaff
    <2>2. assigned \in [Items -> [Staff -> Nat]]
      BY DEF Sound, Typed
    <2>3. PICK rows : rows = [u \in Staff |-> assigned[t][u] + h.list[u]]
      OBVIOUS
    <2>4. /\ rows \in [Staff -> Nat] /\ assigned' = [assigned EXCEPT ![t] = rows]
          /\ \A u \in Staff : rows[u] = assigned[t][u] + h.list[u]
      <3>1. \A u \in Staff : h.list[u] \in Nat
        BY <1>2, ListIs
      <3> QED BY <1>2, <2>1, <2>2, <2>3, <3>1
    <2>5. t \in Live
      BY <1>6 DEF Live
    <2>6. /\ decided' \in [Items -> [Staff -> Nat]]
          /\ \A j \in Items \ {t} : decided'[j] = decided[j]
          /\ decided'[t] = PerEntry(h.list)
      BY <1>2, <2>1, ListIs, DecideIs
    <2>7. ~(h.list[Ghost] > 0) /\ crossed' = crossed
      BY <1>6, <2>1
    <2>8. \E r \in [Staff -> Nat] :
             /\ assigned' = [assigned EXCEPT ![t] = r]
             /\ \A u \in Staff : r[u] = assigned[t][u] + h.list[u]
      BY <2>4
    <2> QED BY <2>5, <2>6, <2>7, <2>8
  <1>7. h = desk[s] /\ HandlerOK(h, born, touched) /\ h.pc = "staff"
    BY <1>1
  <1>8. t = h.item /\ t \in born /\ t \in Items /\ h.list \in Lists
    BY <1>2
  <1> QED BY <1>3, <1>4, <1>5, <1>6, <1>7, <1>8

LEMMA SaveStaffSound == ASSUME Sound, NEW s \in Slots, SaveStaff(s) PROVE Sound'
  <1>1. PICK h \in WorkHandler, t \in Tasks :
              /\ t \in born /\ t \in Items
              /\ Goes(desk, desk', s, Free)
              /\ touched' = IF h.late THEN touched \cup {t} ELSE touched
              /\ UNCHANGED <<project, calls, task, born>>
              /\ \/ /\ crossed' = crossed \cup {t} /\ UNCHANGED <<assigned, decided>>
                 \/ /\ t \in Live /\ crossed' = crossed
                    /\ decided' \in [Items -> [Staff -> Nat]]
                    /\ \A j \in Items \ {t} : decided'[j] = decided[j]
                    /\ \E rows \in [Staff -> Nat] : assigned' = [assigned EXCEPT ![t] = rows]
    BY SaveStaffIs
  <1>2. PICK rows \in [Staff -> Nat] : /\ assigned' = [assigned EXCEPT ![t] = rows]
                                       /\ t \in Live \/ rows = assigned[t]
    <2>1. assigned[t] \in [Staff -> Nat] /\ assigned = [assigned EXCEPT ![t] = assigned[t]]
      BY <1>1 DEF Sound, Typed
    <2> QED BY <1>1, <2>1
  <1>3. /\ crossed' \subseteq Items /\ decided' \in [Items -> [Staff -> Nat]]
        /\ \A j \in Items \ {t} : decided'[j] = decided[j]
    BY <1>1 DEF Sound, Typed
  <1>4. born' = born /\ touched \subseteq touched' /\ touched' \subseteq born'
    BY <1>1 DEF Sound, Typed
  <1>5. Typed'
    BY <1>1, <1>2, <1>3, <1>4 DEF Sound, Typed, Goes
  <1>6. Live' = Live
    BY <1>1 DEF Live
  <1>7. \A i \in Items : i # t \/ t \notin Live => assigned'[i] = assigned[i]
    BY <1>1, <1>2 DEF Sound, Typed
  <1>8. RowsOK'
    <2>1. \A x \in Tasks \ Live : assigned'[x] = Nobody
      BY <1>7, LiveIs DEF Sound, RowsOK
    <2>2. \A p \in Projects : ~project[p] => assigned'[p] = Nobody
      BY <1>7, LiveIs DEF Sound, RowsOK
    <2>3. \A x \in Tasks \ born : decided'[x] = Nobody
      BY <1>1, <1>3, LiveIs DEF Sound, RowsOK
    <2> QED BY <1>1, <1>6, <2>1, <2>2, <2>3 DEF Sound, RowsOK
  <1>9. \A q \in Slots : HandlerOK(desk'[q], born', touched')
    <2> TAKE q \in Slots
    <2>1. CASE q = s
      BY <1>1, <2>1, FreeIs DEF Goes
    <2>2. CASE q # s
      <3>1. /\ Alike(desk'[q], desk[q]) /\ HandlerOK(desk[q], born, touched)
            /\ born \subseteq born' /\ touched \subseteq touched'
        BY <1>1, <1>4, <2>2 DEF Goes, Sound
      <3> QED BY <3>1, HandlerStays
    <2> QED BY <2>1, <2>2
  <1> QED BY <1>5, <1>8, <1>9 DEF Sound
-----------------------------------------------------------------------------
(* Every step is one of these *)

LEMMA WorkSteps ==
    ASSUME WorkNext
    PROVE  \/ \E s \in Slots, p \in Projects, list \in Lists :
                AskAssign(s, p, list) /\ UNCHANGED taskVars
           \/ \E s \in Slots, p \in Projects, list \in Lists \cup {None}, same \in BOOLEAN :
                AskUpdateProject(s, p, list, same) /\ UNCHANGED taskVars
           \/ \E s \in Slots : Sweep(s) /\ UNCHANGED taskVars
           \/ \E s \in Slots, u \in Staff : Look(s, u) /\ UNCHANGED taskVars
           \/ \E s \in Slots : Put(s) /\ UNCHANGED taskVars
           \/ \E s \in Slots : NotFound(s) /\ UNCHANGED taskVars
           \/ \E s \in Slots : Assigned(s) /\ UNCHANGED taskVars
           \/ \E s \in Slots : SaveProject(s) /\ UNCHANGED taskVars
           \/ \E s \in Slots, u \in Staff, list \in Lists, p \in Projects \cup {None},
                 n \in Sprints, x \in NewStatuses, d \in Departments \cup {None} :
                AskCreateTask(s, u, p, n, x, list, d)
           \/ \E s \in Slots, u \in Staff, list \in Lists, t \in Tasks, change \in Changes :
                AskUpdateTask(s, u, t, change, list)
           \/ \E s \in Slots : InsertTask(s)
           \/ \E s \in Slots : SaveTask(s)
           \/ \E s \in Slots : Clear(s)
           \/ \E s \in Slots : SaveStaff(s)
           \/ \E t \in Tasks : RemoveTask(t)
           \/ \E p \in Projects : RemoveProjectAndTasks(p)
  <1>1. CASE ProjectStep /\ UNCHANGED taskVars
    BY <1>1, Zenon DEF ProjectStep
  <1>2. CASE TaskStep
    BY <1>2, Zenon DEF TaskStep
  <1>3. CASE \E p \in Projects : RemoveProjectAndTasks(p)
    BY <1>3
  <1> QED BY <1>1, <1>2, <1>3 DEF WorkNext

LEMMA TakeSound ==
    ASSUME Sound, NEW s \in Slots, NEW h \in WorkHandler, HandlerOK(h, born, touched),
           TakeDesk(s, h), SameTables
    PROVE  Sound'
  BY TakeIs, DeskSound

LEMMA SoundStep == ASSUME Sound, [WorkNext]_workVars PROVE Sound'
  <1>1. CASE UNCHANGED workVars
    <2>1. UNCHANGED <<project, assigned, desk, calls, decided, crossed, task, born, touched>>
      BY <1>1 DEF workVars, projectVars, taskVars
    <2> QED BY <2>1 DEF Sound, Typed, RowsOK, Live
  <1>2. ASSUME NEW s \in Slots, NEW p \in Projects, NEW list \in Lists,
               AskAssign(s, p, list), UNCHANGED taskVars
        PROVE  Sound'
    <2>1. PICK h \in WorkHandler :
             HandlerOK(h, born, touched) /\ TakeDesk(s, h) /\ SameTables
      BY <1>2, AskAssignIs, Zenon
    <2> QED BY <2>1, TakeSound
  <1>3. ASSUME NEW s \in Slots, NEW p \in Projects, NEW list \in Lists \cup {None},
               NEW same \in BOOLEAN, AskUpdateProject(s, p, list, same), UNCHANGED taskVars
        PROVE  Sound'
    <2>1. PICK h \in WorkHandler :
             HandlerOK(h, born, touched) /\ TakeDesk(s, h) /\ SameTables
      BY <1>3, AskUpdateProjectIs, Zenon
    <2> QED BY <2>1, TakeSound
  <1>4. ASSUME NEW s \in Slots, NEW u \in Staff, NEW list \in Lists,
               NEW p \in Projects \cup {None}, NEW n \in Sprints, NEW x \in NewStatuses,
               NEW d \in Departments \cup {None}, AskCreateTask(s, u, p, n, x, list, d)
        PROVE  Sound'
    <2>1. PICK h \in WorkHandler :
             HandlerOK(h, born, touched) /\ TakeDesk(s, h) /\ SameTables
      BY <1>4, AskCreateIs, Zenon
    <2> QED BY <2>1, TakeSound
  <1>5. ASSUME NEW s \in Slots, NEW u \in Staff, NEW list \in Lists, NEW t \in Tasks,
               NEW change \in Changes, AskUpdateTask(s, u, t, change, list)
        PROVE  Sound'
    <2>1. PICK h \in WorkHandler :
             HandlerOK(h, born, touched) /\ TakeDesk(s, h) /\ SameTables
      BY <1>5, AskUpdateIs, Zenon
    <2> QED BY <2>1, TakeSound
  <1>6. ASSUME NEW s \in Slots, UNCHANGED taskVars,
               \/ Sweep(s) \/ Put(s) \/ NotFound(s) \/ Assigned(s) \/ SaveProject(s)
               \/ \E u \in Staff : Look(s, u)
        PROVE  Sound'
    BY <1>6, SweepSound, PutSound, NotFoundSound, AssignedSound, SaveProjectSound, LookSound
  <1>7. ASSUME NEW s \in Slots, InsertTask(s) \/ SaveTask(s) \/ Clear(s) \/ SaveStaff(s)
        PROVE  Sound'
    BY <1>7, InsertSound, SaveTaskSound, ClearSound, SaveStaffSound
  <1>8. ASSUME NEW t \in Tasks, RemoveTask(t) PROVE Sound'
    BY <1>8, RemoveTaskIs
  <1>9. ASSUME NEW p \in Projects, RemoveProjectAndTasks(p) PROVE Sound'
    BY <1>9, RemoveProjectIs
  <1> QED BY <1>1, <1>2, <1>3, <1>4, <1>5, <1>6, <1>7, <1>8, <1>9, WorkSteps, Zenon

LEMMA SoundInit == WorkInit => Sound
  <1> SUFFICES ASSUME WorkInit PROVE Sound
    OBVIOUS
  <1>1. PICK on \in [Projects -> [Staff -> {0, 1}]] :
           /\ assigned = [i \in Items |-> IF i \in Projects THEN on[i] ELSE Nobody]
           /\ decided = assigned
    BY DEF WorkInit, ProjectInit
  <1>2. PICK first \in {NoTask} \cup {r \in TaskRow : r.live /\ r.linked = None} :
           /\ task = [t \in Tasks |-> IF t = 1 THEN first ELSE NoTask]
           /\ born = IF first.live THEN {1} ELSE {}
    BY DEF WorkInit, TaskInit
  <1>3. /\ project = [p \in Projects |-> TRUE] /\ desk = [s \in Slots |-> Free]
        /\ calls = MaxWorkCalls /\ crossed = {} /\ touched = {}
    BY DEF WorkInit, ProjectInit, TaskInit
  <1>4. first \in TaskRow /\ NoTask \in TaskRow /\ NoTask.live = FALSE
    BY <1>2, NoTaskIs
  <1>5. Typed
    <2>1. /\ project \in [Projects -> BOOLEAN] /\ task \in [Tasks -> TaskRow]
          /\ assigned \in [Items -> [Staff -> Nat]] /\ decided \in [Items -> [Staff -> Nat]]
      BY <1>1, <1>2, <1>3, <1>4, FreeIs
    <2>2. desk \in [Slots -> WorkHandler] /\ calls \in 0..MaxWorkCalls /\ crossed \subseteq Items
      BY <1>3, FreeIs, WorkConstants
    <2>3. born \subseteq Tasks /\ touched \subseteq born
      BY <1>2, <1>3, WorkConstants
    <2> QED BY <2>1, <2>2, <2>3 DEF Typed
  <1>6. RowsOK
    <2>0. \A t \in Tasks : t \in Items /\ t \notin Projects
      BY WorkConstants DEF Items
    <2>1. \A t \in Live : t \in born /\ (task[t].project # None => project[task[t].project])
      <3> TAKE t \in Live
      <3>1. t \in Tasks /\ task[t].live
        BY DEF Live
      <3>2. t = 1 /\ task[t] = first
        BY <1>2, <1>4, <3>1
      <3>3. first.project \in Projects \cup {None}
        BY <1>4 DEF TaskRow
      <3> QED BY <1>2, <1>3, <3>1, <3>2, <3>3
    <2>2. \A t \in Tasks : assigned[t] = Nobody /\ decided[t] = Nobody
      BY <1>1, <2>0
    <2>3. \A p \in Projects : project[p]
      BY <1>3
    <2> QED BY <2>1, <2>2, <2>3 DEF RowsOK
  <1> QED BY <1>3, <1>5, <1>6, FreeIs DEF Sound
-----------------------------------------------------------------------------
LEMMA TypesFollow == Sound => WorkTypeOK
  <1> SUFFICES ASSUME Sound PROVE WorkTypeOK
    OBVIOUS
  <1>1. \A t \in Tasks : task[t].live => t \in born
                        /\ (task[t].project # None => project[task[t].project])
    BY DEF Sound, RowsOK, Live
  <1>2. \A s \in Slots : /\ desk[s].item \in Items \cup {None}
                         /\ desk[s].todo \in [Staff \cup {Ghost} -> Nat]
    <2> TAKE s \in Slots
    <2>1. desk[s] \in WorkHandler
      BY DeskOf
    <2> QED BY <2>1 DEF WorkHandler
  <1> QED BY <1>1, <1>2 DEF Sound, Typed, RowsOK, WorkTypeOK

\* The tables of projects and tasks keep their types, nobody is assigned to what
\* is gone, and no task outlives its project.
THEOREM WorkTypeCorrect == Spec => []TypeOK
  <1>1. WorkInit => Sound
    BY SoundInit
  <1>2. Sound /\ [WorkNext]_workVars => Sound'
    BY SoundStep
  <1>3. Sound => TypeOK
    BY TypesFollow DEF TypeOK
  <1> QED BY <1>1, <1>2, <1>3, PTL DEF Spec, Init, Next
-----------------------------------------------------------------------------
(* AssigneesAreDecided: at an item that nothing crossed, what each handler   *)
(* has done of its list, and what it will save                               *)

\* Rows of the item, and rows as they were decided; whether its project is there
Doing(h, there, rows, as) ==
    /\ h.pc \in {"sweep", "each", "put", "save"} => there
    /\ h.pc = "sweep" => rows = as /\ h.todo = h.list
    /\ h.pc \in {"each", "put"} =>
         \A u \in Staff : /\ rows[u] \in {0, 1}
                          /\ h.list[u] = 0 => rows[u] = 0
                          /\ h.list[u] > 0 /\ h.todo[u] = 0 => rows[u] = 1
    /\ h.pc = "put" => rows[h.object] = 0
    /\ h.pc = "save" => IF Named(h) THEN h.rows = Once(h.list) ELSE rows = as /\ h.rows = rows
    /\ h.pc = "update" => rows = as /\ h.rows = rows
    /\ h.pc = "staff" => rows = Nobody
DoingAt(h, P, A, D) == Doing(h, P[h.item], A[h.item], D[h.item])

\* Handlers D at one item outside C have no list, or there is one
Apart(D, C) ==
    \A s, r \in Slots :
        s # r /\ D[s].item = D[r].item /\ D[s].item # None /\ D[s].item \notin C
        => ~Named(D[s]) /\ ~Named(D[r])
AllDoing ==
    \A s \in Slots : desk[s].item # None /\ desk[s].item \notin crossed
                     => DoingAt(desk[s], project, assigned, decided)

\* No list gives a member of staff two rows of a project
OneEach == \A p \in Projects, u \in Staff : decided[p][u] \in {0, 1}

Deciding == Apart(desk, crossed) /\ AllDoing /\ AssigneesAreDecided

\* A step that leaves item j as it is
Quiet(j) ==
    /\ assigned'[j] = assigned[j] /\ decided'[j] = decided[j]
    /\ j \in Projects => (project[j] => project'[j])

LEMMA ItemsOf ==
    ASSUME Sound, NEW s \in Slots
    PROVE  /\ desk[s].item \in Items \cup {None}
           /\ desk[s].pc \in {"sweep", "each", "put", "save"} => desk[s].item \in Projects
           /\ desk[s].item \in Tasks => desk[s].item \in born
           /\ desk[s].pc = "idle" => desk[s].item = None
  <1>1. PICK h \in WorkHandler : h = desk[s] /\ HandlerOK(h, born, touched)
    BY DeskOf
  <1>2. h.item \in Items \cup {None} /\ h.pc \in Stages
    BY DEF WorkHandler
  <1>3. /\ h.pc \in {"sweep", "each", "put", "save"} => h.item \in Projects
        /\ h.pc = "idle" => h.item = None
    BY <1>1 DEF HandlerOK
  <1>4. h.item \in Tasks => h.item \in born
    <2>1. h.pc = "insert" => h.item = None
      BY <1>1 DEF HandlerOK
    <2>2. h.pc \in {"update", "clear", "staff"} => h.item \in born
      BY <1>1 DEF HandlerOK
    <2> QED BY <1>2, <1>3, <2>1, <2>2, WorkConstants DEF Stages
  <1> QED BY <1>1, <1>2, <1>3, <1>4

LEMMA DoingStays ==
    ASSUME NEW g, NEW h, Alike(g, h), NEW p, NEW q, NEW rows, NEW as, Doing(h, p, rows, as),
           h.pc \in {"sweep", "each", "put", "save"} /\ p => q
    PROVE  Doing(g, q, rows, as)
  <1>1. /\ g.pc = h.pc /\ g.list = h.list /\ g.rows = h.rows /\ g.todo = h.todo
        /\ g.object = h.object /\ Named(g) = Named(h)
    BY DEF Alike, Named
  <1> QED BY <1>1 DEF Doing

LEMMA QuietStays ==
    ASSUME Sound, Deciding, NEW r \in Slots, Alike(desk'[r], desk[r]),
           desk[r].item # None, desk[r].item \notin crossed, Quiet(desk[r].item)
    PROVE  DoingAt(desk'[r], project', assigned', decided')
  <1>1. PICK i, g, h, p, q : /\ i = desk[r].item /\ g = desk'[r] /\ h = desk[r]
                             /\ p = project[i] /\ q = project'[i]
    OBVIOUS
  <1>2. PICK rows, as : rows = assigned[i] /\ as = decided[i]
    OBVIOUS
  <1>3. Doing(h, p, rows, as)
    BY <1>1, <1>2 DEF Deciding, AllDoing, DoingAt
  <1>4. h.pc \in {"sweep", "each", "put", "save"} /\ p => q
    BY <1>1, ItemsOf DEF Quiet
  <1>5. Doing(g, q, rows, as)
    BY <1>1, <1>3, <1>4, DoingStays
  <1>6. g.item = i /\ assigned'[i] = rows /\ decided'[i] = as
    BY <1>1, <1>2 DEF Quiet, Alike
  <1> QED BY <1>1, <1>5, <1>6 DEF DoingAt

\* A step of slot s from h to g
LEMMA DecidingMove ==
    ASSUME Sound, Deciding, NEW s \in Slots, NEW h, h = desk[s], NEW g,
           Goes(desk, desk', s, g), crossed \subseteq crossed',
           \/ g.item = h.item /\ g.list = h.list
           \/ g.item = None
           \/ h.item = None /\ \A r \in Slots : desk[r].item # g.item,
           \A j \in Items \ crossed' : j # h.item \/ ~Named(h) => Quiet(j),
           g.item # None /\ g.item \notin crossed' => DoingAt(g, project', assigned', decided'),
           g.item = None /\ h.item # None /\ h.item \notin crossed'
              => assigned'[h.item] = decided'[h.item]
    PROVE  Deciding'
  <1>1. /\ desk'[s] = g
        /\ \A r \in Slots \ {s} : /\ Alike(desk'[r], desk[r]) /\ desk'[r].item = desk[r].item
                                  /\ Named(desk'[r]) <=> Named(desk[r])
    BY DEF Goes, Alike, Named
  <1>2. \A r \in Slots \ {s} : desk[r].item = h.item /\ h.item # None /\ h.item \notin crossed
                               => ~Named(h) /\ ~Named(desk[r])
    BY DEF Deciding, Apart
  <1>3. Apart(desk', crossed')
    <2> SUFFICES ASSUME NEW q \in Slots, NEW r \in Slots, q # r, desk'[q].item = desk'[r].item,
                        desk'[q].item # None, desk'[q].item \notin crossed'
                 PROVE  ~Named(desk'[q]) /\ ~Named(desk'[r])
      BY DEF Apart
    <2>1. CASE q # s /\ r # s
      BY <1>1, <2>1 DEF Deciding, Apart
    <2>2. ASSUME NEW x \in Slots \ {s}, desk'[x].item = g.item, g.item # None, g.item \notin crossed'
          PROVE  ~Named(desk'[x]) /\ ~Named(g)
      <3>1. desk[x].item = g.item
        BY <1>1, <2>2
      <3>2. g.item = h.item /\ g.list = h.list
        BY <2>2, <3>1
      <3> QED BY <1>1, <1>2, <2>2, <3>1, <3>2 DEF Named
    <2> QED BY <1>1, <2>1, <2>2
  <1>4. AllDoing'
    <2> SUFFICES ASSUME NEW r \in Slots, desk'[r].item # None, desk'[r].item \notin crossed'
                 PROVE  DoingAt(desk'[r], project', assigned', decided')
      BY DEF AllDoing
    <2>1. CASE r = s
      BY <1>1, <2>1
    <2>2. CASE r # s
      <3>1. /\ Alike(desk'[r], desk[r]) /\ desk[r].item # None /\ desk[r].item \notin crossed'
            /\ desk[r].item \notin crossed /\ desk[r].item \in Items
        BY <1>1, <2>2, ItemsOf
      <3>2. Quiet(desk[r].item)
        BY <1>2, <2>2, <3>1
      <3> QED BY <3>1, <3>2, QuietStays
    <2> QED BY <2>1, <2>2
  <1>5. AssigneesAreDecided'
    <2> SUFFICES ASSUME NEW i \in Items \ crossed', \A r \in Slots : desk'[r].item # i
                 PROVE  assigned'[i] = decided'[i]
      BY DEF AssigneesAreDecided
    <2>1. \A r \in Slots \ {s} : desk[r].item # i
      BY <1>1
    <2>2. g.item # i /\ i # None
      BY <1>1, LiveIs
    <2>3. CASE h.item = i
      BY <2>2, <2>3
    <2>4. CASE h.item # i
      <3>1. assigned[i] = decided[i]
        BY <2>1, <2>4 DEF Deciding, AssigneesAreDecided
      <3> QED BY <2>4, <3>1 DEF Quiet
    <2> QED BY <2>3, <2>4
  <1> QED BY <1>3, <1>4, <1>5 DEF Deciding

\* A request that takes slot s, and finds what was decided, or is not alone
LEMMA DecidingTake ==
    ASSUME Sound, Deciding, NEW s \in Slots, NEW g \in WorkHandler, TakeDesk(s, g), SameTables,
           g.item # None /\ assigned[g.item] = decided[g.item]
              => DoingAt(g, project, assigned, decided)
    PROVE  Deciding'
  <1>1. /\ desk'[s] = g /\ \A r \in Slots \ {s} : desk'[r] = desk[r]
        /\ desk[s].pc = "idle" /\ desk[s].item = None /\ crossed \subseteq crossed'
    BY TakeIs, ItemsOf DEF Goes
  <1>2. \A r \in Slots \ {s} : desk[r].item = g.item /\ g.item # None /\ g.item \notin crossed'
                               => ~Named(g) /\ ~Named(desk[r])
    BY DEF TakeDesk
  <1>3. UNCHANGED <<project, assigned, decided>>
    BY DEF SameTables
  <1>4. Apart(desk', crossed')
    BY <1>1, <1>2 DEF Deciding, Apart
  <1>5. ASSUME g.item # None, g.item \notin crossed'
        PROVE  assigned[g.item] = decided[g.item]
    <2>1. g.item \in Items /\ g.item \notin crossed
      BY <1>1, <1>5 DEF WorkHandler
    <2>2. CASE \A r \in Slots \ {s} : desk[r].item # g.item
      BY <1>1, <1>5, <2>1, <2>2 DEF Deciding, AssigneesAreDecided
    <2>3. CASE \E r \in Slots \ {s} : desk[r].item = g.item
      <3>1. PICK r \in Slots \ {s} : desk[r].item = g.item
        BY <2>3
      <3>2. PICK k \in WorkHandler : k = desk[r] /\ HandlerOK(k, born, touched)
        BY DeskOf
      <3>3. k.list = None
        BY <1>2, <1>5, <3>1, <3>2 DEF Named
      <3>4. k.pc \in {"save", "update"}
        <4>1. k.pc # "idle" /\ k.pc # "insert"
          BY <1>5, <3>1, <3>2 DEF HandlerOK
        <4>2. k.pc \notin {"sweep", "each", "put", "clear", "staff"}
          BY <3>2, <3>3, WorkConstants DEF HandlerOK
        <4> QED BY <4>1, <4>2 DEF WorkHandler, Stages
      <3>5. DoingAt(k, project, assigned, decided)
        BY <1>5, <2>1, <3>1, <3>2 DEF Deciding, AllDoing
      <3> QED BY <3>1, <3>2, <3>3, <3>4, <3>5 DEF DoingAt, Doing, Named
    <2> QED BY <2>2, <2>3
  <1>6. AllDoing'
    <2> SUFFICES ASSUME NEW r \in Slots, desk'[r].item # None, desk'[r].item \notin crossed'
                 PROVE  DoingAt(desk'[r], project, assigned, decided)
      BY <1>3 DEF AllDoing
    <2>1. CASE r = s
      BY <1>1, <1>5, <2>1
    <2>2. CASE r # s
      BY <1>1, <2>2 DEF Deciding, AllDoing
    <2> QED BY <2>1, <2>2
  <1>7. AssigneesAreDecided'
    <2> SUFFICES ASSUME NEW i \in Items \ crossed', \A r \in Slots : desk'[r].item # i
                 PROVE  assigned[i] = decided[i]
      BY <1>3 DEF AssigneesAreDecided
    <2>1. \A r \in Slots : desk[r].item # i
      BY <1>1, LiveIs
    <2> QED BY <1>1, <2>1 DEF Deciding, AssigneesAreDecided
  <1> QED BY <1>4, <1>6, <1>7 DEF Deciding
LEMMA MaySameIs ==
    ASSUME Sound, NEW p \in Projects, NEW list \in Lists,
           \A u \in Staff : assigned[p][u] \in {0, 1}, MaySame(p, list)
    PROVE  assigned[p] = Once(list)
  <1>1. PICK rows \in [Staff -> Nat] : rows = assigned[p]
    BY LiveIs DEF Sound, Typed
  <1>2. list \in [Staff \cup {Ghost} -> Nat]
    BY ListIs
  <1>3. PICK R, L : /\ R = UNION {{u} \X (1..rows[u]) : u \in Staff}
                    /\ L = UNION {{u} \X (1..list[u]) : u \in Staff \cup {Ghost}}
    OBVIOUS
  <1>4. Cardinality(R) = Cardinality(L)
    BY <1>1, <1>2, <1>3 DEF MaySame, Size
  <1>5. R \subseteq L
    <2> SUFFICES ASSUME NEW x \in R PROVE x \in L
      OBVIOUS
    <2>1. PICK u \in Staff : x \in {u} \X (1..rows[u])
      BY <1>3
    <2>2. rows[u] \in {0, 1} /\ rows[u] \in Nat
      BY <1>1
    <2>3. rows[u] = 1
      BY <2>1, <2>2
    <2>4. list[u] > 0 /\ list[u] \in Nat
      BY <1>1, <1>2, <2>3 DEF MaySame
    <2>5. x \in {u} \X (1..list[u])
      BY <2>1, <2>3, <2>4
    <2> QED BY <1>3, <2>5
  <1>6. IsFiniteSet(L)
    <2>1. IsFiniteSet(Staff \cup {Ghost})
      BY WorkConstants, FS_AddElement
    <2>2. PICK F : F = {{u} \X (1..list[u]) : u \in Staff \cup {Ghost}}
      OBVIOUS
    <2>3. IsFiniteSet(F)
      <3>1. PICK f : f = [u \in Staff \cup {Ghost} |-> {u} \X (1..list[u])]
        OBVIOUS
      <3>2. f \in Surjection(Staff \cup {Ghost}, F)
        BY <2>2, <3>1 DEF Surjection
      <3> QED BY <2>1, <3>2, FS_Surjection
    <2>4. \A T \in F : IsFiniteSet(T)
      <3> SUFFICES ASSUME NEW u \in Staff \cup {Ghost} PROVE IsFiniteSet({u} \X (1..list[u]))
        BY <2>2
      <3>1. list[u] \in Int /\ 1 \in Int
        BY <1>2
      <3>2. IsFiniteSet(1..list[u]) /\ IsFiniteSet({u})
        BY <3>1, FS_Interval, FS_Singleton
      <3> QED BY <3>2, FS_Product
    <2> QED BY <1>3, <2>2, <2>3, <2>4, FS_UNION
  <1>7. R = L
    BY <1>4, <1>5, <1>6, FS_Subset
  <1>8. \A u \in Staff : rows[u] = IF list[u] > 0 THEN 1 ELSE 0
    <2> TAKE u \in Staff
    <2>1. rows[u] \in {0, 1} /\ rows[u] \in Nat
      BY <1>1
    <2>2. CASE list[u] > 0
      <3>1. <<u, 1>> \in {u} \X (1..list[u])
        BY <1>2, <2>2
      <3>2. <<u, 1>> \in R
        BY <1>3, <1>7, <3>1
      <3>3. PICK v \in Staff : <<u, 1>> \in {v} \X (1..rows[v])
        BY <1>3, <3>2
      <3>4. v = u /\ 1 \in 1..rows[u]
        BY <3>3
      <3> QED BY <2>1, <2>2, <3>4
    <2>3. CASE ~(list[u] > 0)
      BY <1>1, <2>1, <2>3 DEF MaySame
    <2> QED BY <2>2, <2>3
  <1> QED BY <1>1, <1>8 DEF Once

LEMMA DecidingAsk ==
    ASSUME Sound, OneEach, Deciding, NEW s \in Slots,
           \/ \E p \in Projects, list \in Lists :
                AskAssign(s, p, list) /\ UNCHANGED taskVars
           \/ \E p \in Projects, list \in Lists \cup {None}, same \in BOOLEAN :
                AskUpdateProject(s, p, list, same) /\ UNCHANGED taskVars
           \/ \E u \in Staff, list \in Lists, p \in Projects \cup {None},
                 n \in Sprints, x \in NewStatuses, d \in Departments \cup {None} :
                AskCreateTask(s, u, p, n, x, list, d)
           \/ \E u \in Staff, list \in Lists, t \in Tasks, change \in Changes :
                AskUpdateTask(s, u, t, change, list)
    PROVE  Deciding'
  <1>1. ASSUME NEW p \in Projects, NEW list \in Lists,
               AskAssign(s, p, list), UNCHANGED taskVars
        PROVE  Deciding'
    <2>1. PICK h \in WorkHandler : /\ TakeDesk(s, h) /\ SameTables
                                   /\ project[p] /\ AssignHandler(h, p, list)
      BY <1>1, AskAssignIs, Zenon
    <2>2. ASSUME assigned[h.item] = decided[h.item]
          PROVE  DoingAt(h, project, assigned, decided)
      BY <2>1, <2>2 DEF AssignHandler, DoingAt, Doing
    <2> QED BY <2>1, <2>2, DecidingTake
  <1>2. ASSUME NEW p \in Projects, NEW list \in Lists \cup {None},
               NEW same \in BOOLEAN, AskUpdateProject(s, p, list, same), UNCHANGED taskVars
        PROVE  Deciding'
    <2>1. PICK h \in WorkHandler : /\ TakeDesk(s, h) /\ SameTables
                                   /\ project[p] /\ ProjectHandler(h, p, list)
      BY <1>2, AskUpdateProjectIs, Zenon
    <2>2. /\ h.item = p /\ h.list = list /\ h.rows = assigned[p]
          /\ \/ h.pc = "save" /\ (list = None \/ MaySame(p, list))
             \/ h.pc = "sweep" /\ list # None /\ h.todo = list
      BY <2>1 DEF ProjectHandler
    <2>3. ASSUME assigned[h.item] = decided[h.item]
          PROVE  DoingAt(h, project, assigned, decided)
      <3>1. CASE h.pc = "save" /\ list = None
        BY <2>1, <2>2, <2>3, <3>1 DEF DoingAt, Doing, Named
      <3>2. CASE h.pc = "sweep"
        BY <2>1, <2>2, <2>3, <3>2 DEF DoingAt, Doing, Named
      <3>3. CASE h.pc = "save" /\ list # None /\ MaySame(p, list)
        <4>1. \A u \in Staff : assigned[p][u] \in {0, 1}
          BY <2>2, <2>3 DEF OneEach
        <4>2. h.rows = Once(list)
          BY <2>2, <3>3, <4>1, MaySameIs
        <4> QED BY <2>1, <2>2, <3>3, <4>2 DEF DoingAt, Doing, Named
      <3> QED BY <2>2, <3>1, <3>2, <3>3
    <2> QED BY <2>1, <2>3, DecidingTake
  <1>3. ASSUME NEW u \in Staff, NEW list \in Lists,
               NEW p \in Projects \cup {None}, NEW n \in Sprints, NEW x \in NewStatuses,
               NEW d \in Departments \cup {None}, AskCreateTask(s, u, p, n, x, list, d)
        PROVE  Deciding'
    <2>1. PICK h \in WorkHandler : TakeDesk(s, h) /\ SameTables /\ CreateHandler(h, p, n, list, d)
      BY <1>3, AskCreateIs, Zenon
    <2>2. h.item = None
      BY <2>1 DEF CreateHandler
    <2> QED BY <2>1, <2>2, DecidingTake
  <1>4. ASSUME NEW u \in Staff, NEW list \in Lists, NEW t \in Tasks,
               NEW change \in Changes, AskUpdateTask(s, u, t, change, list)
        PROVE  Deciding'
    <2>1. PICK h \in WorkHandler : TakeDesk(s, h) /\ SameTables /\ UpdateHandler(h, t, list)
      BY <1>4, AskUpdateIs, Zenon
    <2>2. ASSUME assigned[h.item] = decided[h.item]
          PROVE  DoingAt(h, project, assigned, decided)
      BY <2>1, <2>2 DEF UpdateHandler, DoingAt, Doing
    <2> QED BY <2>1, <2>2, DecidingTake
  <1> QED BY <1>1, <1>2, <1>3, <1>4

LEMMA DecidingSweep ==
    ASSUME Sound, OneEach, Deciding, NEW s \in Slots, Sweep(s), UNCHANGED taskVars
    PROVE  Deciding'
  <1>1. PICK h \in WorkHandler, g \in WorkHandler, rows \in [Staff -> Nat] :
              /\ h = desk[s] /\ HandlerOK(h, born, touched)
              /\ h.pc = "sweep" /\ g.pc = "each" /\ g.item = h.item
              /\ g.list = h.list /\ g.todo = h.todo
              /\ rows = [u \in Staff |-> IF h.list[u] > 0 THEN assigned[h.item][u] ELSE 0]
              /\ assigned' = [assigned EXCEPT ![h.item] = rows]
              /\ Wrote(s, g)
              /\ UNCHANGED <<project, calls, decided, crossed, taskVars>>
    BY SweepIs
  <1>2. /\ Goes(desk, desk', s, g) /\ h.item \in Items /\ h.item # None
        /\ h.list \in Lists /\ Named(h)
    BY <1>1, WroteIs, LiveIs, WorkConstants DEF Sound, Typed, HandlerOK, Items, Named
  <1>3. \A j \in Items \ crossed' : j # h.item \/ ~Named(h) => Quiet(j)
    BY <1>1, <1>2 DEF Quiet, Sound, Typed
  <1>4. ASSUME g.item \notin crossed'
        PROVE  DoingAt(g, project', assigned', decided')
    <2>1. DoingAt(h, project, assigned, decided)
      BY <1>1, <1>2, <1>4 DEF Deciding, AllDoing
    <2>2. /\ project[h.item] /\ assigned[h.item] = decided[h.item] /\ h.todo = h.list
      BY <1>1, <2>1 DEF DoingAt, Doing
    <2>3. assigned'[h.item] = rows /\ project'[h.item]
      BY <1>1, <1>2, <2>2 DEF Sound, Typed
    <2>4. \A u \in Staff : rows[u] \in {0, 1} /\ (~(h.list[u] > 0) => rows[u] = 0)
      BY <1>1, <2>2 DEF OneEach, HandlerOK
    <2>5. \A u \in Staff : /\ h.list[u] = 0 => rows[u] = 0
                          /\ ~(h.list[u] > 0 /\ g.todo[u] = 0)
      BY <1>1, <1>2, <2>2, <2>4, ListIs
    <2> QED BY <1>1, <2>2, <2>3, <2>4, <2>5 DEF DoingAt, Doing
  <1> QED BY <1>1, <1>2, <1>3, <1>4, DecidingMove
LEMMA DecidingLook ==
    ASSUME Sound, Deciding, NEW s \in Slots, NEW u \in Staff, Look(s, u), UNCHANGED taskVars
    PROVE  Deciding'
  <1>1. PICK h \in WorkHandler, g \in WorkHandler : LookDoes(s, u, h, g)
    BY LookIs
  <1> USE DEF LookDoes
  <1>2. h.item \in Items /\ h.item # None
    BY <1>1, LiveIs DEF HandlerOK
  <1>3. \A j \in Items \ crossed' : Quiet(j)
    BY <1>1 DEF Quiet, SameTables
  <1>4. ASSUME g.item \notin crossed'
        PROVE  DoingAt(g, project', assigned', decided')
    <2>1. DoingAt(h, project, assigned, decided)
      BY <1>1, <1>2, <1>4 DEF Deciding, AllDoing
    <2>2. PICK rows : rows = assigned[h.item]
      OBVIOUS
    <2>3. /\ project[h.item]
          /\ \A v \in Staff : /\ rows[v] \in {0, 1}
                              /\ h.list[v] = 0 => rows[v] = 0
                              /\ h.list[v] > 0 /\ h.todo[v] = 0 => rows[v] = 1
          /\ h.todo \in [Staff \cup {Ghost} -> Nat]
      BY <1>1, <2>1, <2>2 DEF DoingAt, Doing, WorkHandler
    <2>4. UNCHANGED <<project, assigned, decided>>
      BY <1>1 DEF SameTables
    <2>5. CASE rows[u] > 0 /\ g.pc = "each" /\ g.todo = [h.todo EXCEPT ![u] = @ - 1]
      <3>1. rows[u] = 1
        BY <2>3, <2>5
      <3>2. \A v \in Staff : v # u => g.todo[v] = h.todo[v]
        BY <2>3, <2>5
      <3>3. \A v \in Staff : g.list[v] > 0 /\ g.todo[v] = 0 => rows[v] = 1
        BY <1>1, <2>3, <3>1, <3>2
      <3> QED BY <1>1, <2>2, <2>3, <2>4, <2>5, <3>1, <3>3 DEF DoingAt, Doing
    <2>6. CASE ~(rows[u] > 0) /\ g.pc = "put" /\ g.todo = h.todo /\ g.object = u
      <3>1. rows[u] = 0
        BY <2>3, <2>6
      <3> QED BY <1>1, <2>2, <2>3, <2>4, <2>6, <3>1 DEF DoingAt, Doing
    <2> QED BY <1>1, <2>2, <2>5, <2>6
  <1> QED BY <1>1, <1>2, <1>3, <1>4, DecidingMove

LEMMA DecidingPut ==
    ASSUME Sound, Deciding, NEW s \in Slots, Put(s), UNCHANGED taskVars
    PROVE  Deciding'
  <1>1. PICK h \in WorkHandler, g \in WorkHandler, u \in Staff : PutDoes(s, u, h, g)
    BY PutIs
  <1> USE DEF PutDoes
  <1>2. /\ Goes(desk, desk', s, g) /\ h.item \in Items /\ h.item # None
        /\ h.list \in Lists /\ Named(h)
    BY <1>1, WroteIs, LiveIs, WorkConstants DEF Sound, Typed, HandlerOK, Items, Named
  <1>3. \A j \in Items \ crossed' : j # h.item \/ ~Named(h) => Quiet(j)
    BY <1>1, <1>2 DEF Quiet, Sound, Typed
  <1>4. ASSUME h.item \notin crossed
        PROVE  /\ g.item = h.item /\ g.list = h.list /\ DoingAt(g, project', assigned', decided')
    <2>1. DoingAt(h, project, assigned, decided)
      BY <1>1, <1>2, <1>4 DEF Deciding, AllDoing
    <2>2. PICK rows : rows = assigned[h.item]
      OBVIOUS
    <2>3. /\ project[h.item]
          /\ \A v \in Staff : /\ rows[v] \in {0, 1}
                              /\ h.list[v] = 0 => rows[v] = 0
                              /\ h.list[v] > 0 /\ h.todo[v] = 0 => rows[v] = 1
          /\ h.todo \in [Staff \cup {Ghost} -> Nat]
          /\ rows[u] = 0
      BY <1>1, <2>1, <2>2 DEF DoingAt, Doing, WorkHandler
    <2>4. /\ g.pc = "each" /\ g.item = h.item /\ g.list = h.list /\ g.todo = [h.todo EXCEPT ![u] = @ - 1]
          /\ assigned' = [assigned EXCEPT ![h.item][u] = @ + 1]
      BY <1>1, <2>3
    <2>5. PICK new : new = assigned'[h.item]
      OBVIOUS
    <2>6. \A v \in Staff : new[v] = IF v = u THEN 1 ELSE rows[v]
      BY <1>2, <2>2, <2>3, <2>4, <2>5 DEF Sound, Typed
    <2>7. h.list[u] > 0
      BY <1>1 DEF HandlerOK, Within
    <2>8. \A v \in Staff : /\ new[v] \in {0, 1}
                           /\ h.list[v] = 0 => new[v] = 0
                           /\ h.list[v] > 0 /\ g.todo[v] = 0 => new[v] = 1
      BY <2>3, <2>4, <2>6, <2>7
    <2> QED BY <1>1, <2>3, <2>4, <2>5, <2>7, <2>8 DEF DoingAt, Doing
  <1>5. (g.item = h.item /\ g.list = h.list) \/ g.item = None
    BY <1>1, FreeIs
  <1>6. crossed' = crossed
    BY <1>1
  <1> QED BY <1>1, <1>2, <1>3, <1>4, <1>5, <1>6, DecidingMove

LEMMA DecidingNotFound ==
    ASSUME Sound, Deciding, NEW s \in Slots, NotFound(s), UNCHANGED taskVars
    PROVE  Deciding'
  <1>1. /\ desk[s].item \in Projects /\ crossed' = crossed \cup {desk[s].item}
        /\ Goes(desk, desk', s, Free) /\ SameTables
    BY NotFoundIs
  <1>2. PICK h : h = desk[s]
    OBVIOUS
  <1>3. \A j \in Items \ crossed' : Quiet(j)
    BY <1>1 DEF Quiet, SameTables
  <1> QED BY <1>1, <1>2, <1>3, FreeIs, DecidingMove

LEMMA DecidingAssigned ==
    ASSUME Sound, Deciding, NEW s \in Slots, Assigned(s), UNCHANGED taskVars
    PROVE  Deciding'
  <1>1. PICK h \in WorkHandler, g \in WorkHandler :
              /\ h = desk[s] /\ HandlerOK(h, born, touched) /\ HandlerOK(g, born, touched)
              /\ h.pc = "each" /\ h.todo = NoEntries
              /\ Goes(desk, desk', s, g) /\ \A r \in Slots \ {s} : desk'[r] = desk[r]
              /\ UNCHANGED <<project, assigned, calls, crossed, taskVars>>
              /\ \/ /\ h.op = "assign" /\ g = Free
                    /\ decided' \in [Items -> [Staff -> Nat]]
                    /\ \A j \in Items \ {h.item} : decided'[j] = decided[j]
                    /\ decided'[h.item] = Once(h.list)
                 \/ /\ h.op = "project" /\ decided' = decided
                    /\ g.pc = "save" /\ g.op = h.op /\ g.item = h.item /\ g.list = h.list
                    /\ g.rows = h.rows /\ g.todo = h.todo /\ g.late = h.late
    BY AssignedIs
  <1>2. /\ h.item \in Items /\ h.item # None /\ h.list \in Lists /\ Named(h)
        /\ h.rows = Once(h.list) /\ h.list \in [Staff \cup {Ghost} -> Nat]
    BY <1>1, LiveIs, WorkConstants DEF HandlerOK, Items, Named
  <1>3. \A j \in Items \ crossed' : j # h.item \/ ~Named(h) => Quiet(j)
    BY <1>1, <1>2 DEF Quiet
  <1>4. ASSUME h.item \notin crossed
        PROVE  project[h.item] /\ assigned[h.item] = Once(h.list)
    <2>1. DoingAt(h, project, assigned, decided)
      BY <1>1, <1>2, <1>4 DEF Deciding, AllDoing
    <2>2. PICK rows \in [Staff -> Nat] : rows = assigned[h.item]
      BY <1>2 DEF Sound, Typed
    <2>3. /\ project[h.item]
          /\ \A v \in Staff : /\ h.list[v] = 0 => rows[v] = 0
                              /\ h.list[v] > 0 /\ h.todo[v] = 0 => rows[v] = 1
      BY <1>1, <2>1, <2>2 DEF DoingAt, Doing
    <2>4. \A v \in Staff : rows[v] = IF h.list[v] > 0 THEN 1 ELSE 0
      <3> TAKE v \in Staff
      <3>1. h.list[v] \in Nat /\ h.todo[v] = 0
        BY <1>1, <1>2 DEF NoEntries
      <3> QED BY <2>3, <3>1
    <2>5. rows = Once(h.list)
      BY <2>2, <2>4 DEF Once
    <2> QED BY <2>2, <2>3, <2>5
  <1>5. CASE g = Free
    <2>1. ASSUME h.item \notin crossed'
          PROVE  assigned'[h.item] = decided'[h.item]
      <3>1. decided'[h.item] = Once(h.list)
        BY <1>1, <1>2, <1>5, FreeIs
      <3> QED BY <1>1, <1>4, <2>1, <3>1
    <2> QED BY <1>1, <1>2, <1>3, <1>5, <2>1, FreeIs, DecidingMove
  <1>6. CASE /\ decided' = decided
             /\ g.pc = "save" /\ g.item = h.item /\ g.list = h.list /\ g.rows = h.rows
    <2>1. ASSUME h.item \notin crossed'
          PROVE  DoingAt(g, project', assigned', decided')
      <3>1. project'[h.item] /\ h.rows = Once(h.list) /\ Named(g)
        BY <1>1, <1>2, <1>4, <1>6, <2>1 DEF Named
      <3> QED BY <1>6, <3>1 DEF DoingAt, Doing
    <2> QED BY <1>1, <1>2, <1>3, <1>6, <2>1, DecidingMove
  <1> QED BY <1>1, <1>5, <1>6
LEMMA DecidingSaveProject ==
    ASSUME Sound, Deciding, NEW s \in Slots, SaveProject(s), UNCHANGED taskVars
    PROVE  Deciding'
  <1>1. PICK h \in WorkHandler :
              /\ h = desk[s] /\ HandlerOK(h, born, touched) /\ h.pc = "save"
              /\ h.item \in Projects /\ h.item \in Items /\ h.rows \in [Staff -> Nat]
              /\ Goes(desk, desk', s, Free)
              /\ \A r \in Slots \ {s} : desk'[r].late = (desk[r].pc # "idle")
              /\ project' = [project EXCEPT ![h.item] = TRUE]
              /\ assigned' = [assigned EXCEPT ![h.item] = h.rows]
              /\ decided' \in [Items -> [Staff -> Nat]]
              /\ \A j \in Items \ {h.item} : decided'[j] = decided[j]
              /\ h.list = None => decided' = decided
              /\ h.list # None => decided'[h.item] = Once(h.list)
              /\ UNCHANGED <<calls, crossed, taskVars>>
    BY SaveProjectIs
  <1>2. h.item # None /\ crossed' = crossed /\ assigned'[h.item] = h.rows
    BY <1>1, LiveIs DEF Sound, Typed
  <1>3. ASSUME h.item \notin crossed
        PROVE  /\ assigned'[h.item] = decided'[h.item]
               /\ ~Named(h) => assigned'[h.item] = assigned[h.item]
    <2>1. DoingAt(h, project, assigned, decided)
      BY <1>1, <1>2, <1>3 DEF Deciding, AllDoing
    <2>2. CASE Named(h)
      <3>1. h.rows = Once(h.list)
        BY <1>1, <2>1, <2>2 DEF DoingAt, Doing
      <3> QED BY <1>1, <1>2, <2>2, <3>1 DEF Named
    <2>3. CASE ~Named(h)
      <3>1. assigned[h.item] = decided[h.item] /\ h.rows = assigned[h.item]
        BY <1>1, <2>1, <2>3 DEF DoingAt, Doing
      <3> QED BY <1>1, <1>2, <2>3, <3>1 DEF Named
    <2> QED BY <2>2, <2>3
  <1>4. \A j \in Items \ crossed' : j # h.item \/ ~Named(h) => Quiet(j)
    <2> SUFFICES ASSUME NEW j \in Items \ crossed', j # h.item \/ ~Named(h) PROVE Quiet(j)
      OBVIOUS
    <2>1. j \in Projects => (project[j] => project'[j])
      BY <1>1 DEF Sound, Typed
    <2>2. CASE j # h.item
      BY <1>1, <2>1, <2>2 DEF Quiet, Sound, Typed
    <2>3. CASE j = h.item
      BY <1>1, <1>2, <1>3, <2>1, <2>3 DEF Quiet, Named
    <2> QED BY <2>2, <2>3
  <1> QED BY <1>1, <1>2, <1>3, <1>4, FreeIs, DecidingMove

LEMMA DecidingInsert ==
    ASSUME Sound, Deciding, NEW s \in Slots, InsertTask(s) PROVE Deciding'
  <1>1. PICK h \in WorkHandler, g \in WorkHandler, t \in Tasks \ born :
              /\ h = desk[s] /\ HandlerOK(h, born, touched)
              /\ h.pc = "insert"
              /\ Goes(desk, desk', s, g)
              /\ UNCHANGED <<project, assigned, calls, decided, crossed>>
              /\ g = Free \/ (g.pc = "staff" /\ g.item = t)
    BY InsertIs
  <1>2. h.item = None /\ t \in Items
    BY <1>1, LiveIs DEF HandlerOK
  <1>3. \A r \in Slots : desk[r].item # t
    BY <1>1, ItemsOf
  <1>4. \A j \in Items : Quiet(j)
    BY <1>1 DEF Quiet
  <1>5. CASE g = Free
    BY <1>1, <1>2, <1>4, <1>5, FreeIs, DecidingMove
  <1>6. CASE g.pc = "staff" /\ g.item = t
    <2>1. t \notin Live /\ assigned[t] = Nobody
      BY <1>1, LiveIs DEF Sound, RowsOK
    <2>2. DoingAt(g, project', assigned', decided')
      BY <1>1, <1>6, <2>1 DEF DoingAt, Doing
    <2> QED BY <1>1, <1>2, <1>3, <1>4, <1>6, <2>2, LiveIs, DecidingMove
  <1> QED BY <1>1, <1>5, <1>6

LEMMA DecidingSaveTask ==
    ASSUME Sound, Deciding, NEW s \in Slots, SaveTask(s) PROVE Deciding'
  <1>1. PICK h \in WorkHandler, g \in WorkHandler, t \in Tasks :
              /\ h = desk[s] /\ h.pc = "update" /\ t = h.item
              /\ Goes(desk, desk', s, g)
              /\ UNCHANGED <<project, calls, decided, crossed, born>>
              /\ \/ /\ assigned' = [assigned EXCEPT ![t] = h.rows]
                    /\ \/ h.list = None /\ g = Free
                       \/ h.list # None /\ g.pc = "clear" /\ g.item = t /\ g.list = h.list
                 \/ UNCHANGED <<assigned, task, touched>> /\ g = Free
    BY SaveTaskIs
  <1>2. /\ h.item \in Items /\ h.item # None /\ crossed' = crossed
        /\ assigned \in [Items -> [Staff -> Nat]]
    BY <1>1, LiveIs DEF Sound, Typed
  <1>3. ASSUME h.item \notin crossed
        PROVE  /\ assigned'[h.item] = assigned[h.item]
               /\ assigned[h.item] = decided[h.item]
    <2>1. DoingAt(h, project, assigned, decided)
      BY <1>1, <1>2, <1>3 DEF Deciding, AllDoing
    <2>2. assigned[h.item] = decided[h.item] /\ h.rows = assigned[h.item]
      BY <1>1, <2>1 DEF DoingAt, Doing
    <2> QED BY <1>1, <1>2, <2>2
  <1>4. \A j \in Items \ crossed' : j # h.item \/ ~Named(h) => Quiet(j)
    <2> SUFFICES ASSUME NEW j \in Items \ crossed' PROVE Quiet(j)
      OBVIOUS
    <2>1. CASE j # h.item
      BY <1>1, <1>2, <2>1 DEF Quiet
    <2>2. CASE j = h.item
      BY <1>1, <1>2, <1>3, <2>2 DEF Quiet
    <2> QED BY <2>1, <2>2
  <1>5. CASE g = Free
    BY <1>1, <1>2, <1>3, <1>4, <1>5, FreeIs, DecidingMove
  <1>6. CASE g.pc = "clear" /\ g.item = t /\ g.list = h.list
    <2>1. DoingAt(g, project', assigned', decided')
      BY <1>6 DEF DoingAt, Doing
    <2> QED BY <1>1, <1>2, <1>4, <1>6, <2>1, DecidingMove
  <1> QED BY <1>1, <1>5, <1>6

LEMMA DecidingClear ==
    ASSUME Sound, Deciding, NEW s \in Slots, Clear(s) PROVE Deciding'
  <1>1. PICK h \in WorkHandler, g \in WorkHandler, t \in Tasks :
              /\ h = desk[s] /\ HandlerOK(h, born, touched)
              /\ h.pc = "clear" /\ t = h.item
              /\ g.pc = "staff" /\ g.item = t /\ g.list = h.list
              /\ Goes(desk, desk', s, g)
              /\ assigned' = [assigned EXCEPT ![t] = Nobody]
              /\ UNCHANGED <<project, calls, decided, crossed, taskVars>>
    BY ClearIs
  <1>2. /\ h.item \in Items /\ h.item # None /\ crossed' = crossed /\ Named(h)
        /\ assigned \in [Items -> [Staff -> Nat]]
    BY <1>1, LiveIs, WorkConstants DEF Sound, Typed, HandlerOK, Named
  <1>3. \A j \in Items \ crossed' : j # h.item \/ ~Named(h) => Quiet(j)
    BY <1>1, <1>2 DEF Quiet
  <1>4. DoingAt(g, project', assigned', decided')
    BY <1>1, <1>2 DEF DoingAt, Doing
  <1> QED BY <1>1, <1>2, <1>3, <1>4, DecidingMove

LEMMA DecidingSaveStaff ==
    ASSUME Sound, Deciding, NEW s \in Slots, SaveStaff(s) PROVE Deciding'
  <1>1. PICK h \in WorkHandler, t \in Tasks :
              /\ h = desk[s] /\ HandlerOK(h, born, touched)
              /\ h.pc = "staff" /\ t = h.item /\ t \in Items /\ h.list \in Lists
              /\ Goes(desk, desk', s, Free)
              /\ UNCHANGED <<project, calls, task, born>>
              /\ \/ /\ crossed' = crossed \cup {t} /\ UNCHANGED <<assigned, decided>>
                 \/ /\ crossed' = crossed
                    /\ decided' \in [Items -> [Staff -> Nat]]
                    /\ \A j \in Items \ {t} : decided'[j] = decided[j]
                    /\ decided'[t] = PerEntry(h.list)
                    /\ \E rows \in [Staff -> Nat] :
                         /\ assigned' = [assigned EXCEPT ![t] = rows]
                         /\ \A u \in Staff : rows[u] = assigned[t][u] + h.list[u]
    BY SaveStaffIs
  <1>2. /\ h.item \in Items /\ h.item # None /\ Named(h) /\ crossed \subseteq crossed'
        /\ assigned \in [Items -> [Staff -> Nat]]
    BY <1>1, LiveIs, WorkConstants DEF Sound, Typed, Named
  <1>3. CASE crossed' = crossed \cup {t} /\ UNCHANGED <<assigned, decided>>
    <2>1. \A j \in Items : Quiet(j)
      BY <1>1, <1>3 DEF Quiet
    <2> QED BY <1>1, <1>2, <1>3, <2>1, FreeIs, DecidingMove
  <1>4. ASSUME crossed' = crossed,
               \A j \in Items \ {t} : decided'[j] = decided[j], decided'[t] = PerEntry(h.list),
               NEW rows \in [Staff -> Nat], assigned' = [assigned EXCEPT ![t] = rows],
               \A u \in Staff : rows[u] = assigned[t][u] + h.list[u]
        PROVE  Deciding'
    <2>1. \A j \in Items \ crossed' : j # h.item \/ ~Named(h) => Quiet(j)
      BY <1>1, <1>2, <1>4 DEF Quiet
    <2>2. ASSUME h.item \notin crossed'
          PROVE  assigned'[h.item] = decided'[h.item]
      <3>1. DoingAt(h, project, assigned, decided)
        BY <1>1, <1>2, <1>4, <2>2 DEF Deciding, AllDoing
      <3>2. assigned[t] = Nobody
        BY <1>1, <3>1 DEF DoingAt, Doing
      <3>3. \A u \in Staff : rows[u] = 0 + h.list[u] /\ h.list[u] \in Nat
        BY <1>1, <1>4, <3>2, ListIs DEF Nobody
      <3>4. rows = PerEntry(h.list)
        <4>1. \A u \in Staff : rows[u] = h.list[u]
          BY <3>3
        <4> QED BY <1>4, <4>1 DEF PerEntry
      <3> QED BY <1>1, <1>2, <1>4, <3>4
    <2> QED BY <1>1, <1>2, <2>1, <2>2, FreeIs, DecidingMove
  <1> QED BY <1>1, <1>3, <1>4

LEMMA DecidingRemoval ==
    ASSUME Sound, Deciding, NEW gone \in SUBSET Items, RemovalIs(gone)
    PROVE  Deciding'
  <1>1. /\ crossed \subseteq crossed'
        /\ \A i \in gone : (\E s \in Slots : desk[s].item = i) => i \in crossed'
        /\ \A r \in Slots : /\ Alike(desk'[r], desk[r]) /\ desk'[r].item = desk[r].item
                            /\ Named(desk'[r]) <=> Named(desk[r])
    BY DEF RemovalIs, Alike, Named
  <1>2. \A j \in Items \ gone : Quiet(j)
    BY DEF RemovalIs, Quiet
  <1>3. Apart(desk', crossed')
    BY <1>1 DEF Deciding, Apart
  <1>4. AllDoing'
    <2> SUFFICES ASSUME NEW r \in Slots, desk'[r].item # None, desk'[r].item \notin crossed'
                 PROVE  DoingAt(desk'[r], project', assigned', decided')
      BY DEF AllDoing
    <2>1. /\ Alike(desk'[r], desk[r]) /\ desk[r].item # None /\ desk[r].item \notin crossed
          /\ desk[r].item \in Items \ gone
      BY <1>1, ItemsOf
    <2> QED BY <1>2, <2>1, QuietStays
  <1>5. AssigneesAreDecided'
    <2> SUFFICES ASSUME NEW i \in Items \ crossed', \A r \in Slots : desk'[r].item # i
                 PROVE  assigned'[i] = decided'[i]
      BY DEF AssigneesAreDecided
    <2>1. CASE i \in gone
      BY <2>1 DEF RemovalIs
    <2>2. CASE i \notin gone
      <3>1. assigned[i] = decided[i]
        BY <1>1 DEF Deciding, AssigneesAreDecided
      <3> QED BY <1>2, <2>2, <3>1 DEF Quiet
    <2> QED BY <2>1, <2>2
  <1> QED BY <1>3, <1>4, <1>5 DEF Deciding

LEMMA OneEachStep == ASSUME Sound, OneEach, [WorkNext]_workVars PROVE OneEach'
  <1>1. CASE decided' = decided
    BY <1>1 DEF OneEach
  <1>2. ASSUME NEW s \in Slots, Assigned(s) \/ SaveProject(s), UNCHANGED taskVars
        PROVE  OneEach'
    <2>1. decided' = decided \/ \E h \in WorkHandler :
             /\ \A j \in Items \ {h.item} : decided'[j] = decided[j]
             /\ h.item \in Items /\ decided'[h.item] = Once(h.list)
      <3>1. CASE Assigned(s)
        <4>1. PICK h \in WorkHandler :
                 /\ h = desk[s] /\ HandlerOK(h, born, touched) /\ h.pc = "each"
                 /\ \/ /\ \A j \in Items \ {h.item} : decided'[j] = decided[j]
                       /\ decided'[h.item] = Once(h.list)
                    \/ decided' = decided
          BY <1>2, <3>1, AssignedIs
        <4>2. h.item \in Items
          BY <4>1 DEF HandlerOK, Items
        <4> QED BY <4>1, <4>2
      <3>2. CASE SaveProject(s)
        BY <1>2, <3>2, SaveProjectIs
      <3> QED BY <1>2, <3>1, <3>2
    <2>2. CASE decided' = decided
      BY <1>1, <2>2
    <2>3. ASSUME NEW h \in WorkHandler,
                 \A j \in Items \ {h.item} : decided'[j] = decided[j],
                 h.item \in Items, decided'[h.item] = Once(h.list)
          PROVE  OneEach'
      <3> SUFFICES ASSUME NEW p \in Projects, NEW u \in Staff PROVE decided'[p][u] \in {0, 1}
        BY DEF OneEach
      <3>1. CASE p = h.item
        BY <2>3, <3>1 DEF Once
      <3>2. CASE p # h.item
        <4>1. p \in Items
          BY DEF Items
        <4> QED BY <2>3, <3>2, <4>1 DEF OneEach
      <3> QED BY <3>1, <3>2
    <2> QED BY <2>1, <2>2, <2>3
  <1>3. ASSUME NEW s \in Slots, SaveStaff(s) PROVE OneEach'
    <2>1. PICK t \in Tasks : decided' = decided \/ \A j \in Items \ {t} : decided'[j] = decided[j]
      BY <1>3, SaveStaffIs
    <2>2. \A p \in Projects : p \in Items \ {t}
      BY WorkConstants DEF Items
    <2> QED BY <2>1, <2>2 DEF OneEach
  <1>4. ASSUME NEW gone \in SUBSET Items, RemovalIs(gone) PROVE OneEach'
    <2> SUFFICES ASSUME NEW p \in Projects, NEW u \in Staff PROVE decided'[p][u] \in {0, 1}
      BY DEF OneEach
    <2>1. p \in Items /\ decided'[p] = IF p \in gone THEN Nobody ELSE decided[p]
      BY <1>4 DEF RemovalIs, Items
    <2> QED BY <2>1 DEF OneEach, Nobody
  <1>5. ASSUME NEW t \in Tasks, RemoveTask(t) PROVE OneEach'
    BY <1>4, <1>5, RemoveTaskIs, LiveIs
  <1>6. ASSUME NEW p \in Projects, RemoveProjectAndTasks(p) PROVE OneEach'
    BY <1>4, <1>6, RemoveProjectIs
  <1>7. \/ decided' = decided
        \/ \E s \in Slots : (Assigned(s) \/ SaveProject(s)) /\ UNCHANGED taskVars
        \/ \E s \in Slots : SaveStaff(s)
        \/ \E t \in Tasks : RemoveTask(t)
        \/ \E p \in Projects : RemoveProjectAndTasks(p)
    <2>1. CASE UNCHANGED workVars
      BY <2>1 DEF workVars, projectVars
    <2>2. CASE WorkNext
      BY <2>2, WorkSteps DEF AskAssign, AskUpdateProject, Sweep, Look, Put, NotFound,
         AskCreateTask, AskUpdateTask, InsertTask, SaveTask, Clear
    <2> QED BY <2>1, <2>2
  <1> QED BY <1>1, <1>2, <1>3, <1>5, <1>6, <1>7

LEMMA DecidingStep == ASSUME Sound, OneEach, Deciding, [WorkNext]_workVars PROVE Deciding'
  <1>1. CASE UNCHANGED workVars
    <2>1. UNCHANGED <<project, assigned, desk, decided, crossed>>
      BY <1>1 DEF workVars, projectVars
    <2> QED BY <2>1 DEF Deciding, Apart, AllDoing, AssigneesAreDecided
  <1>2. ASSUME NEW s \in Slots, UNCHANGED taskVars,
               \/ Sweep(s) \/ Put(s) \/ NotFound(s) \/ Assigned(s) \/ SaveProject(s)
               \/ \E u \in Staff : Look(s, u)
        PROVE  Deciding'
    BY <1>2, DecidingSweep, DecidingPut, DecidingNotFound, DecidingAssigned,
       DecidingSaveProject, DecidingLook
  <1>3. ASSUME NEW s \in Slots, InsertTask(s) \/ SaveTask(s) \/ Clear(s) \/ SaveStaff(s)
        PROVE  Deciding'
    BY <1>3, DecidingInsert, DecidingSaveTask, DecidingClear, DecidingSaveStaff
  <1>4. ASSUME NEW t \in Tasks, RemoveTask(t) PROVE Deciding'
    BY <1>4, RemoveTaskIs, DecidingRemoval, LiveIs
  <1>5. ASSUME NEW p \in Projects, RemoveProjectAndTasks(p) PROVE Deciding'
    BY <1>5, RemoveProjectIs, DecidingRemoval
  <1> QED BY <1>1, <1>2, <1>3, <1>4, <1>5, DecidingAsk, WorkSteps, Zenon

LEMMA OneEachInit == WorkInit => OneEach
  <1> SUFFICES ASSUME WorkInit, NEW p \in Projects, NEW u \in Staff
               PROVE  decided[p][u] \in {0, 1}
    BY DEF OneEach
  <1>1. PICK on \in [Projects -> [Staff -> {0, 1}]] :
           /\ assigned = [i \in Items |-> IF i \in Projects THEN on[i] ELSE Nobody]
           /\ decided = assigned
    BY DEF WorkInit, ProjectInit
  <1> QED BY <1>1 DEF Items

LEMMA DecidingInit == WorkInit => Deciding
  <1> SUFFICES ASSUME WorkInit PROVE Deciding
    OBVIOUS
  <1>1. Sound
    BY SoundInit
  <1>2. desk = [s \in Slots |-> Free]
    BY DEF WorkInit, ProjectInit
  <1>3. \A s \in Slots : desk[s].item = None
    BY <1>2, FreeIs
  <1>4. \A i \in Items : assigned[i] = decided[i]
    <2>1. decided = assigned
      BY DEF WorkInit, ProjectInit
    <2> QED BY <2>1
  <1> QED BY <1>3, <1>4 DEF Deciding, Apart, AllDoing, AssigneesAreDecided

\* The rows of a project or a task are those the last request with a list asked
\* for, one per person of a project and one per entry of a task, unless a list
\* crossed another request of that item or failed half way: no update without a
\* list, no removal and no other item's request changes that, for any staff,
\* lists (with anybody named any number of times) and number of handlers.
THEOREM AssigneesDecided == Spec => []AssigneesAreDecided
  <1>1. WorkInit => Sound /\ OneEach /\ Deciding
    BY SoundInit, OneEachInit, DecidingInit
  <1>2. Sound /\ OneEach /\ Deciding /\ [WorkNext]_workVars => (Sound /\ OneEach /\ Deciding)'
    BY SoundStep, OneEachStep, DecidingStep
  <1>3. Sound /\ Deciding => AssigneesAreDecided
    BY DEF Deciding
  <1> QED BY <1>1, <1>2, <1>3, PTL DEF Spec, Init, Next
-----------------------------------------------------------------------------
(* SprintsInOrder and NewWorkIsLinked: what a handler that no write was late *)
(* for still knows of the tables                                             *)

Gated(row, list) == row.linked = None => GateOpen(row.project, row.sprint, list, row.dept)
Seeing(h) ==
    /\ h.pc = "insert" => /\ Gated(h.object, h.list)
                          /\ h.object.project # None => ~IsProjectCompleted(h.object.project)
    /\ h.pc = "update" => /\ h.op = "edit" => h.object.project = task[h.item].project
                          /\ h.op = "move" => /\ h.object.project # None
                                              /\ ~IsProjectCompleted(h.object.project)
    /\ h.pc = "staff" /\ h.op = "create" /\ h.item \notin touched =>
         /\ assigned[h.item] = Nobody /\ \A t \in born : t <= h.item
         /\ Gated(task[h.item], h.list)
AllSeeing == \A s \in Slots : ~desk[s].late => Seeing(desk[s])
IdsInOrder == \A t \in born, x \in Tasks \ born : t < x

InSight == IdsInOrder /\ AllSeeing /\ SprintsInOrder

\* A member of staff has a task that no update touched
Held(t, u) == t \in Live /\ t \notin touched /\ assigned[t][u] > 0

LEMMA Unseeing ==
    ASSUME NEW h, h.pc \notin {"insert", "update", "staff"}
    PROVE  Seeing(h) /\ Seeing(h)'
  BY DEF Seeing

\* A write of slot s makes every handler late that is still at work
LEMMA SeeingWrite ==
    ASSUME desk \in [Slots -> WorkHandler], NEW s \in Slots, NEW g, Goes(desk, desk', s, g),
           \A r \in Slots \ {s} : desk'[r].late = (desk[r].pc # "idle"),
           ~g.late => Seeing(g)'
    PROVE  AllSeeing'
  <1> SUFFICES ASSUME NEW r \in Slots, ~desk'[r].late PROVE Seeing(desk[r])'
    BY DEF AllSeeing
  <1>1. PICK h : h = desk'[r]
    OBVIOUS
  <1>2. CASE r = s
    <2>1. h = g
      BY <1>1, <1>2 DEF Goes
    <2>2. Seeing(h)'
      BY <1>1, <2>1
    <2> QED BY <1>1, <2>2 DEF Seeing
  <1>3. CASE r # s
    <2>1. desk[r].pc = "idle" /\ h.pc = desk[r].pc
      BY <1>1, <1>3 DEF Goes, Alike
    <2>2. Seeing(h)'
      BY <2>1, Unseeing
    <2> QED BY <1>1, <2>2 DEF Seeing
  <1> QED BY <1>2, <1>3

LEMMA SeeingSame ==
    ASSUME NEW h, UNCHANGED <<task, assigned, born, touched>>
    PROVE  Seeing(h)' <=> Seeing(h)
  <1>1. Live' = Live
    BY DEF Live
  <1>2. \A p : TasksOf(p)' = TasksOf(p)
    BY <1>1 DEF TasksOf
  <1>3. \A p : IsProjectCompleted(p)' <=> IsProjectCompleted(p)
    BY <1>2 DEF IsProjectCompleted
  <1>4. \A p, n, list, d : GateOpen(p, n, list, d)' <=> GateOpen(p, n, list, d)
    <2>1. \A n, p, list : Waiting(n, p, list)' = Waiting(n, p, list)
      BY <1>1 DEF Waiting
    <2> QED BY <1>1, <2>1 DEF GateOpen
  <1>5. \A row, list : Gated(row, list)' <=> Gated(row, list)
    BY <1>4 DEF Gated
  <1> QED BY <1>3, <1>5 DEF Seeing

LEMMA SeeingRead ==
    ASSUME AllSeeing, NEW s \in Slots, NEW g, Goes(desk, desk', s, g),
           \A r \in Slots \ {s} : desk'[r] = desk[r],
           UNCHANGED <<task, assigned, born, touched>>, ~g.late => Seeing(g)
    PROVE  AllSeeing'
  <1> SUFFICES ASSUME NEW r \in Slots, ~desk'[r].late PROVE Seeing(desk[r])'
    BY DEF AllSeeing
  <1>1. PICK h : h = desk'[r]
    OBVIOUS
  <1>2. Seeing(h)
    BY <1>1 DEF AllSeeing, Goes
  <1>3. Seeing(h)'
    BY <1>2, SeeingSame
  <1> QED BY <1>1, <1>3 DEF Seeing

\* The order of the sprints stays, when nobody gets a task
LEMMA SprintsKept ==
    ASSUME SprintsInOrder, NEW T, \A t \in Live' : t \in T,
           \A t \in T, u \in Staff : Held(t, u)' => Held(t, u) /\ task'[t] = task[t]
    PROVE  SprintsInOrder'
  <1> SUFFICES ASSUME NEW t \in Live', NEW v \in Live', v < t, {t, v} \cap touched' = {},
                      task'[t].linked = None, task'[t].project = task'[v].project,
                      task'[t].dept \in {None, task'[v].dept},
                      task'[t].sprint = task'[v].sprint + 1,
                      NEW u \in Staff, assigned'[t][u] > 0, assigned'[v][u] > 0
               PROVE  task'[v].status \in Started
    BY DEF SprintsInOrder
  <1>1. Held(t, u)' /\ Held(v, u)'
    BY DEF Held
  <1>2. /\ t \in Live /\ v \in Live /\ t \notin touched /\ v \notin touched
        /\ assigned[t][u] > 0 /\ assigned[v][u] > 0
        /\ task'[t] = task[t] /\ task'[v] = task[v]
    BY <1>1 DEF Held
  <1> QED BY <1>2 DEF SprintsInOrder

\* What no write that touches a task changes
LEMMA InSightSame ==
    ASSUME InSight, AllSeeing', UNCHANGED <<task, assigned, born, touched>>
    PROVE  InSight'
  <1>1. Live' = Live
    BY DEF Live
  <1> QED BY <1>1 DEF InSight, IdsInOrder, SprintsInOrder

LEMMA InSightTake ==
    ASSUME Sound, InSight, NEW s \in Slots, NEW h \in WorkHandler, TakeDesk(s, h), SameTables,
           Seeing(h)
    PROVE  InSight'
  <1>1. Goes(desk, desk', s, h) /\ \A r \in Slots \ {s} : desk'[r] = desk[r]
    BY TakeIs
  <1>2. UNCHANGED <<task, assigned, born, touched>>
    BY DEF SameTables, taskVars
  <1>3. AllSeeing'
    BY <1>1, <1>2, SeeingRead DEF InSight
  <1> QED BY <1>2, <1>3, InSightSame

LEMMA InSightRead ==
    ASSUME InSight, NEW s \in Slots, NEW g, Goes(desk, desk', s, g),
           \A r \in Slots \ {s} : desk'[r] = desk[r],
           UNCHANGED <<task, assigned, born, touched>>,
           g.pc \notin {"insert", "update", "staff"}
    PROVE  InSight'
  <1>1. AllSeeing'
    BY Unseeing, SeeingRead DEF InSight
  <1> QED BY <1>1, InSightSame

\* A write to the rows of a project
LEMMA InSightProject ==
    ASSUME Sound, InSight, NEW s \in Slots, NEW g, Goes(desk, desk', s, g),
           \A r \in Slots \ {s} : desk'[r].late = (desk[r].pc # "idle"),
           g.pc \notin {"insert", "update", "staff"},
           UNCHANGED taskVars, \A t \in Tasks : assigned'[t] = assigned[t]
    PROVE  InSight'
  <1>1. AllSeeing'
    BY Unseeing, SeeingWrite DEF Sound, Typed
  <1>2. UNCHANGED <<task, born, touched>> /\ Live' = Live /\ Live \subseteq Tasks
    BY DEF taskVars, Live
  <1>3. \A t \in Tasks, u \in Staff : Held(t, u)' => Held(t, u) /\ task'[t] = task[t]
    BY <1>2 DEF Held
  <1>4. SprintsInOrder'
    BY <1>2, <1>3, SprintsKept DEF InSight
  <1> QED BY <1>1, <1>2, <1>4 DEF InSight, IdsInOrder

LEMMA InSightAsk ==
    ASSUME Sound, InSight, NEW s \in Slots,
           \/ \E p \in Projects, list \in Lists : AskAssign(s, p, list) /\ UNCHANGED taskVars
           \/ \E p \in Projects, list \in Lists \cup {None}, same \in BOOLEAN :
                AskUpdateProject(s, p, list, same) /\ UNCHANGED taskVars
           \/ \E u \in Staff, list \in Lists, p \in Projects \cup {None}, n \in Sprints,
                 x \in NewStatuses, d \in Departments \cup {None} :
                AskCreateTask(s, u, p, n, x, list, d)
           \/ \E u \in Staff, list \in Lists, t \in Tasks, change \in Changes :
                AskUpdateTask(s, u, t, change, list)
    PROVE  InSight'
  <1>1. ASSUME NEW p \in Projects, NEW list \in Lists, AskAssign(s, p, list), UNCHANGED taskVars
        PROVE  InSight'
    <2>1. PICK h \in WorkHandler : TakeDesk(s, h) /\ SameTables /\ AssignHandler(h, p, list)
      BY <1>1, AskAssignIs
    <2>2. Seeing(h)
      BY <2>1, Unseeing DEF AssignHandler
    <2> QED BY <2>1, <2>2, InSightTake
  <1>2. ASSUME NEW p \in Projects, NEW list \in Lists \cup {None},
               NEW same \in BOOLEAN, AskUpdateProject(s, p, list, same),
               UNCHANGED taskVars
        PROVE  InSight'
    <2>1. PICK h \in WorkHandler : TakeDesk(s, h) /\ SameTables /\ ProjectHandler(h, p, list)
      BY <1>2, AskUpdateProjectIs
    <2>2. Seeing(h)
      BY <2>1, Unseeing DEF ProjectHandler
    <2> QED BY <2>1, <2>2, InSightTake
  <1>3. ASSUME NEW u \in Staff, NEW list \in Lists, NEW p \in Projects \cup {None},
               NEW n \in Sprints, NEW x \in NewStatuses,
               NEW d \in Departments \cup {None}, AskCreateTask(s, u, p, n, x, list, d)
        PROVE  InSight'
    <2>1. PICK h \in WorkHandler : TakeDesk(s, h) /\ SameTables
                                   /\ GateOpen(p, n, list, d) /\ CreateHandler(h, p, n, list, d)
      BY <1>3, AskCreateIs
    <2>2. h.pc = "insert" /\ Gated(h.object, h.list)
      BY <2>1 DEF CreateHandler, Gated
    <2>3. h.object.project # None => ~IsProjectCompleted(h.object.project)
      BY <2>1 DEF CreateHandler
    <2>4. Seeing(h)
      BY <2>2, <2>3 DEF Seeing
    <2> QED BY <2>1, <2>4, InSightTake
  <1>4. ASSUME NEW u \in Staff, NEW list \in Lists, NEW t \in Tasks, NEW change \in Changes,
               AskUpdateTask(s, u, t, change, list)
        PROVE  InSight'
    <2>1. PICK h \in WorkHandler : TakeDesk(s, h) /\ SameTables /\ UpdateHandler(h, t, list)
      BY <1>4, AskUpdateIs
    <2>2. Seeing(h)
      BY <2>1 DEF UpdateHandler, Seeing
    <2> QED BY <2>1, <2>2, InSightTake
  <1> QED BY <1>1, <1>2, <1>3, <1>4

LEMMA InSightSweep ==
    ASSUME Sound, InSight, NEW s \in Slots, Sweep(s), UNCHANGED taskVars PROVE InSight'
  <1>1. PICK h \in WorkHandler, g \in WorkHandler, rows \in [Staff -> Nat] :
              /\ h = desk[s] /\ HandlerOK(h, born, touched) /\ HandlerOK(g, born, touched)
              /\ h.pc = "sweep" /\ g = [h EXCEPT !.pc = "each", !.rows = Once(h.list)]
              /\ g.pc = "each" /\ g.rows = Once(h.list) /\ g.op = h.op /\ g.item = h.item
              /\ g.list = h.list /\ g.todo = h.todo
              /\ rows = [u \in Staff |-> IF h.list[u] > 0 THEN assigned[h.item][u] ELSE 0]
              /\ assigned' = [assigned EXCEPT ![h.item] = rows]
              /\ Wrote(s, g)
              /\ UNCHANGED <<project, calls, decided, crossed, taskVars>>
    BY SweepIs, Zenon
  <1>2. h.item \in Projects
    BY <1>1 DEF HandlerOK
  <1>3. \A t \in Tasks : assigned'[t] = assigned[t]
    BY <1>1, <1>2, LiveIs DEF Sound, Typed
  <1>4. Goes(desk, desk', s, g) /\ \A r \in Slots \ {s} : desk'[r].late = (desk[r].pc # "idle")
    BY <1>1, WroteIs DEF Sound, Typed
  <1> QED BY <1>1, <1>3, <1>4, InSightProject

LEMMA InSightPut ==
    ASSUME Sound, InSight, NEW s \in Slots, Put(s), UNCHANGED taskVars PROVE InSight'
  <1>1. PICK h \in WorkHandler, g \in WorkHandler, u \in Staff : PutDoes(s, u, h, g)
    BY PutIs
  <1> USE DEF PutDoes
  <1>2. h.item \in Projects /\ g.pc \in {"each", "idle"}
    BY <1>1, FreeIs DEF HandlerOK
  <1>3. \A t \in Tasks : assigned'[t] = assigned[t]
    BY <1>1, <1>2, LiveIs DEF Sound, Typed
  <1>4. Goes(desk, desk', s, g) /\ \A r \in Slots \ {s} : desk'[r].late = (desk[r].pc # "idle")
    BY <1>1, WroteIs DEF Sound, Typed
  <1> QED BY <1>2, <1>3, <1>4, InSightProject

LEMMA InSightSaveProject ==
    ASSUME Sound, InSight, NEW s \in Slots, SaveProject(s), UNCHANGED taskVars PROVE InSight'
  <1>1. PICK h \in WorkHandler :
              /\ h.item \in Projects /\ Goes(desk, desk', s, Free)
              /\ \A r \in Slots \ {s} : desk'[r].late = (desk[r].pc # "idle")
              /\ assigned' = [assigned EXCEPT ![h.item] = h.rows]
    BY SaveProjectIs
  <1>2. \A t \in Tasks : assigned'[t] = assigned[t]
    BY <1>1, LiveIs DEF Sound, Typed
  <1> QED BY <1>1, <1>2, FreeIs, InSightProject

LEMMA InSightReads ==
    ASSUME Sound, InSight, NEW s \in Slots, UNCHANGED taskVars,
           NotFound(s) \/ Assigned(s) \/ \E u \in Staff : Look(s, u)
    PROVE  InSight'
  <1> USE DEF taskVars, SameTables
  <1>1. CASE NotFound(s)
    BY <1>1, NotFoundIs, FreeIs, InSightRead
  <1>2. CASE Assigned(s)
    <2>1. PICK g \in WorkHandler :
              /\ Goes(desk, desk', s, g) /\ \A r \in Slots \ {s} : desk'[r] = desk[r]
              /\ UNCHANGED <<project, assigned, calls, crossed, taskVars>>
              /\ g = Free \/ g.pc = "save"
      BY <1>2, AssignedIs
    <2> QED BY <2>1, FreeIs, InSightRead
  <1>3. ASSUME NEW u \in Staff, Look(s, u) PROVE InSight'
    <2>1. PICK h \in WorkHandler, g \in WorkHandler : LookDoes(s, u, h, g)
      BY <1>3, LookIs
    <2>2. /\ Goes(desk, desk', s, g) /\ \A r \in Slots \ {s} : desk'[r] = desk[r]
          /\ SameTables /\ g.pc \in {"each", "put"}
      BY <2>1 DEF LookDoes
    <2> QED BY <2>2, InSightRead
  <1> QED BY <1>1, <1>2, <1>3

LEMMA InSightSaveTask ==
    ASSUME Sound, InSight, NEW s \in Slots, SaveTask(s) PROVE InSight'
  <1>1. PICK h \in WorkHandler, g \in WorkHandler, r \in TaskRow, t \in Tasks :
              /\ t \in born /\ r.live
              /\ Goes(desk, desk', s, g)
              /\ \A q \in Slots \ {s} : desk'[q].late = (desk[q].pc # "idle")
              /\ born' = born
              /\ \/ /\ task' = [task EXCEPT ![t] = r] /\ touched' = touched \cup {t}
                    /\ assigned' = [assigned EXCEPT ![t] = h.rows]
                    /\ g = Free \/ g.pc = "clear"
                 \/ UNCHANGED <<assigned, task, touched>> /\ g = Free
    BY SaveTaskIs
  <1>2. g.pc \in {"idle", "clear"}
    BY <1>1, FreeIs
  <1>3. AllSeeing'
    BY <1>1, <1>2, Unseeing, SeeingWrite DEF Sound, Typed
  <1>4. Live' \subseteq Tasks
    BY DEF Live
  <1>5. \A x \in Tasks, u \in Staff : Held(x, u)' => Held(x, u) /\ task'[x] = task[x]
    <2> SUFFICES ASSUME NEW x \in Tasks, NEW u \in Staff, Held(x, u)'
                 PROVE  Held(x, u) /\ task'[x] = task[x]
      OBVIOUS
    <2>1. x \in Live' /\ x \notin touched' /\ assigned'[x][u] > 0
      BY DEF Held
    <2>2. CASE UNCHANGED <<assigned, task, touched>>
      BY <2>1, <2>2 DEF Held, Live
    <2>3. CASE /\ task' = [task EXCEPT ![t] = r] /\ touched' = touched \cup {t}
               /\ assigned' = [assigned EXCEPT ![t] = h.rows]
      <3>1. x # t /\ x \notin touched
        BY <2>1, <2>3
      <3>2. task'[x] = task[x] /\ assigned'[x] = assigned[x]
        BY <2>3, <3>1, LiveIs DEF Sound, Typed
      <3> QED BY <2>1, <3>1, <3>2 DEF Held, Live
    <2> QED BY <1>1, <2>2, <2>3
  <1>6. SprintsInOrder'
    BY <1>4, <1>5, SprintsKept DEF InSight
  <1> QED BY <1>1, <1>3, <1>6 DEF InSight, IdsInOrder

LEMMA InSightClear ==
    ASSUME Sound, InSight, NEW s \in Slots, Clear(s) PROVE InSight'
  <1>1. PICK h \in WorkHandler, g \in WorkHandler, t \in Tasks :
              /\ h = desk[s] /\ HandlerOK(h, born, touched)
              /\ h.pc = "clear" /\ t \in touched
              /\ g.op = h.op /\ g.pc = "staff"
              /\ Goes(desk, desk', s, g)
              /\ \A q \in Slots \ {s} : desk'[q].late = (desk[q].pc # "idle")
              /\ assigned' = [assigned EXCEPT ![t] = Nobody]
              /\ UNCHANGED taskVars
    BY ClearIs
  <1>2. UNCHANGED <<task, born, touched>> /\ Live' = Live /\ Live \subseteq Tasks
    BY <1>1 DEF taskVars, Live
  <1>3. g.op # "create"
    BY <1>1 DEF HandlerOK
  <1>4. Seeing(g)'
    BY <1>1, <1>3 DEF Seeing
  <1>5. AllSeeing'
    BY <1>1, <1>4, SeeingWrite DEF Sound, Typed
  <1>6. \A x \in Tasks, u \in Staff : Held(x, u)' => Held(x, u) /\ task'[x] = task[x]
    BY <1>1, <1>2, LiveIs DEF Held, Sound, Typed
  <1>7. SprintsInOrder'
    BY <1>2, <1>6, SprintsKept DEF InSight
  <1> QED BY <1>2, <1>5, <1>7 DEF InSight, IdsInOrder

LEMMA InSightRemoval ==
    ASSUME Sound, Sound', InSight, NEW gone \in SUBSET Items, RemovalIs(gone)
    PROVE  InSight'
  <1>1. /\ Live' = Live \ gone /\ \A t \in Tasks \ gone : task'[t] = task[t]
        /\ assigned' = [i \in Items |-> IF i \in gone THEN Nobody ELSE assigned[i]]
        /\ \A r \in Slots : Alike(desk'[r], desk[r]) /\ desk'[r].late = (desk[r].pc # "idle")
        /\ UNCHANGED <<born, touched>>
    BY DEF RemovalIs
  <1>2. AllSeeing'
    <2> SUFFICES ASSUME NEW r \in Slots, ~desk'[r].late PROVE Seeing(desk[r])'
      BY DEF AllSeeing
    <2>1. PICK h : h = desk'[r]
      OBVIOUS
    <2>2. h.pc = "idle"
      BY <1>1, <2>1 DEF Alike
    <2>3. Seeing(h)'
      BY <2>2, Unseeing
    <2> QED BY <2>1, <2>3 DEF Seeing
  <1>3. Live \subseteq Tasks
    BY DEF Live
  <1>4. \A x \in Tasks \ gone, u \in Staff : Held(x, u)' => Held(x, u) /\ task'[x] = task[x]
    BY <1>1, LiveIs DEF Held
  <1>5. SprintsInOrder'
    BY <1>1, <1>3, <1>4, SprintsKept DEF InSight
  <1> QED BY <1>1, <1>2, <1>5 DEF InSight, IdsInOrder

\* A new task of the sprint that its gate found open leaves the gate open
LEMMA GateStays ==
    ASSUME Sound, NEW t \in Tasks, NEW row \in TaskRow, task' = [task EXCEPT ![t] = row],
           assigned' = assigned, NEW list, Gated(row, list)
    PROVE  Gated(row, list)'
  <1> SUFFICES ASSUME row.linked = None, row.sprint > 1, NEW v \in Live',
                      task'[v].sprint = row.sprint - 1, task'[v].project = row.project,
                      \E u \in Staff : list[u] > 0 /\ assigned[v][u] > 0,
                      task'[v].status \notin Started, row.dept \in {None, task'[v].dept}
               PROVE  FALSE
    BY DEF Gated, GateOpen, Waiting
  <1>1. v # t
    <2>1. row.sprint \in Nat
      BY TaskConstants DEF TaskRow
    <2>2. task'[t].sprint = row.sprint
      BY DEF Sound, Typed
    <2> QED BY <2>1, <2>2
  <1>2. v \in Live /\ task'[v] = task[v]
    BY <1>1 DEF Live, Sound, Typed
  <1>3. v \in Waiting(row.sprint - 1, row.project, list)
    BY <1>2 DEF Waiting
  <1> QED BY <1>2, <1>3 DEF Gated, GateOpen

LEMMA InSightInsert ==
    ASSUME Sound, Sound', InSight, NEW s \in Slots, InsertTask(s) PROVE InSight'
  <1>1. PICK h \in WorkHandler, g \in WorkHandler, t \in Tasks \ born :
              /\ h = desk[s] /\ HandlerOK(h, born, touched) /\ HandlerOK(g, born', touched')
              /\ h.pc = "insert" /\ \A x \in Tasks \ born : t <= x
              /\ Goes(desk, desk', s, g)
              /\ \A r \in Slots \ {s} : desk'[r].late = (desk[r].pc # "idle")
              /\ UNCHANGED <<project, assigned, calls, decided, crossed>>
              /\ \/ /\ h.object.project # None => project[h.object.project]
                    /\ task' = [task EXCEPT ![t] = h.object] /\ born' = born \cup {t}
                    /\ touched' = IF h.late THEN touched \cup {t} ELSE touched
                    /\ \/ h.list = NoEntries /\ g = Free
                       \/ /\ g.op = "create" /\ g.pc = "staff" /\ g.item = t /\ g.list = h.list
                          /\ g.rows = Nobody /\ g.todo = h.todo /\ g.late = h.late
                 \/ UNCHANGED taskVars /\ g = Free
    BY InsertIs
  <1>2. CASE UNCHANGED taskVars /\ g = Free
    <2>1. AllSeeing'
      BY <1>1, <1>2, FreeIs, Unseeing, SeeingWrite DEF Sound, Typed
    <2> QED BY <1>1, <1>2, <2>1, InSightSame DEF taskVars
  <1>3. CASE /\ task' = [task EXCEPT ![t] = h.object] /\ born' = born \cup {t}
             /\ touched' = IF h.late THEN touched \cup {t} ELSE touched
             /\ \/ g = Free
                \/ /\ g.op = "create" /\ g.pc = "staff" /\ g.item = t /\ g.list = h.list
                   /\ g.late = h.late
    <2>1. h.object \in TaskRow /\ h.object.live
      BY <1>1 DEF HandlerOK
    <2>2. t \notin Live /\ assigned[t] = Nobody /\ Live \subseteq Tasks /\ Live' \subseteq Tasks
      BY LiveIs DEF Sound, RowsOK, Live
    <2>3. /\ task'[t] = h.object /\ touched \subseteq touched'
          /\ \A x \in Tasks \ {t} : task'[x] = task[x]
      BY <1>3 DEF Sound, Typed
    <2>4. \A x \in born : x \in Nat /\ t \in Nat /\ x < t
      BY LiveIs DEF InSight, IdsInOrder, Sound, Typed
    <2>5. \A x \in Tasks \ born' : t < x
      <3> SUFFICES ASSUME NEW x \in Tasks \ born' PROVE t < x
        OBVIOUS
      <3>1. x # t /\ t <= x /\ x \in Nat /\ t \in Nat
        BY <1>1, <1>3, LiveIs
      <3> QED BY <3>1
    <2>6. IdsInOrder'
      BY <1>3, <2>5 DEF InSight, IdsInOrder
    <2>7. ASSUME ~g.late PROVE Seeing(g)'
      <3>1. CASE g = Free
        BY <3>1, FreeIs, Unseeing
      <3>2. CASE /\ g.op = "create" /\ g.pc = "staff" /\ g.item = t /\ g.list = h.list
                 /\ g.late = h.late
        <4>1. Seeing(h)
          BY <1>1, <2>7, <3>2 DEF InSight, AllSeeing
        <4>2. Gated(h.object, h.list)
          BY <1>1, <4>1 DEF Seeing
        <4>3. Gated(h.object, h.list)'
          BY <1>1, <1>3, <2>1, <4>2, GateStays
        <4>4. \A x \in born' : x <= t
          <5> SUFFICES ASSUME NEW x \in born' PROVE x <= t
            OBVIOUS
          <5>1. x = t \/ x < t
            BY <1>3, <2>4
          <5>2. x \in Nat /\ t \in Nat
            BY <1>3, LiveIs DEF Sound, Typed
          <5> QED BY <5>1, <5>2
        <4>5. assigned'[t] = Nobody
          BY <1>1, <2>2
        <4>6. Gated(task[g.item], g.list)'
          BY <3>2, <4>3, <2>3 DEF Gated, GateOpen, Waiting
        <4> QED BY <3>2, <4>4, <4>5, <4>6 DEF Seeing
      <3> QED BY <1>3, <3>1, <3>2
    <2>8. AllSeeing'
      BY <1>1, <2>7, SeeingWrite DEF Sound, Typed
    <2>9. \A x \in Tasks, u \in Staff : Held(x, u)' => Held(x, u) /\ task'[x] = task[x]
      <3> SUFFICES ASSUME NEW x \in Tasks, NEW u \in Staff, Held(x, u)'
                   PROVE  Held(x, u) /\ task'[x] = task[x]
        OBVIOUS
      <3>1. x \in Live' /\ x \notin touched' /\ assigned[x][u] > 0
        BY <1>1 DEF Held
      <3>2. x # t
        BY <2>2, <3>1 DEF Nobody
      <3> QED BY <2>3, <3>1, <3>2 DEF Held, Live
    <2>10. SprintsInOrder'
      BY <2>2, <2>9, SprintsKept DEF InSight
    <2> QED BY <2>6, <2>8, <2>10 DEF InSight
  <1> QED BY <1>1, <1>2, <1>3

LEMMA InSightSaveStaff ==
    ASSUME Sound, Sound', InSight, NEW s \in Slots, SaveStaff(s) PROVE InSight'
  <1>1. PICK h \in WorkHandler, t \in Tasks :
              /\ h = desk[s] /\ HandlerOK(h, born, touched)
              /\ h.pc = "staff" /\ t = h.item /\ t \in born /\ t \in Items /\ h.list \in Lists
              /\ Goes(desk, desk', s, Free)
              /\ \A q \in Slots \ {s} : desk'[q].late = (desk[q].pc # "idle")
              /\ touched' = IF h.late THEN touched \cup {t} ELSE touched
              /\ UNCHANGED <<project, calls, task, born>>
              /\ \/ /\ crossed' = crossed \cup {t} /\ UNCHANGED <<assigned, decided>>
                 \/ /\ ~(h.list[Ghost] > 0) /\ t \in Live /\ crossed' = crossed
                    /\ decided' \in [Items -> [Staff -> Nat]]
                    /\ \A j \in Items \ {t} : decided'[j] = decided[j]
                    /\ decided'[t] = PerEntry(h.list)
                    /\ \E rows \in [Staff -> Nat] :
                         /\ assigned' = [assigned EXCEPT ![t] = rows]
                         /\ \A u \in Staff : rows[u] = assigned[t][u] + h.list[u]
    BY SaveStaffIs
  <1>2. AllSeeing'
    BY <1>1, FreeIs, Unseeing, SeeingWrite DEF Sound, Typed
  <1>3. Live' = Live /\ Live \subseteq Tasks /\ touched \subseteq touched' /\ born' = born
    BY <1>1 DEF Live
  <1>4. \A x \in Tasks \ {t} : assigned'[x] = assigned[x]
    BY <1>1, LiveIs DEF Sound, Typed
  <1>5. CASE t \in touched' \/ assigned' = assigned
    <2>1. \A x \in Tasks, u \in Staff : Held(x, u)' => Held(x, u) /\ task'[x] = task[x]
      BY <1>1, <1>3, <1>4, <1>5 DEF Held
    <2>2. SprintsInOrder'
      BY <1>3, <2>1, SprintsKept DEF InSight
    <2> QED BY <1>2, <1>3, <2>2 DEF InSight, IdsInOrder
  <1>6. ASSUME t \notin touched', t \in Live, NEW rows \in [Staff -> Nat],
               assigned' = [assigned EXCEPT ![t] = rows],
               \A u \in Staff : rows[u] = assigned[t][u] + h.list[u]
        PROVE  InSight'
    <2>1. ~h.late /\ t \notin touched
      BY <1>1, <1>6
    <2>2. h.op = "create"
      BY <1>1, <2>1 DEF HandlerOK
    <2>3. Seeing(h)
      BY <1>1, <2>1 DEF InSight, AllSeeing
    <2>4. /\ assigned[t] = Nobody /\ \A x \in born : x <= t
          /\ Gated(task[t], h.list)
      BY <1>1, <2>1, <2>2, <2>3 DEF Seeing
    <2>5. \A u \in Staff : assigned'[t][u] > 0 => h.list[u] > 0
      <3>1. \A u \in Staff : rows[u] = 0 + h.list[u]
        BY <1>6, <2>4 DEF Nobody
      <3>2. assigned'[t] = rows
        BY <1>1, <1>6 DEF Sound, Typed
      <3>3. \A u \in Staff : h.list[u] \in Nat
        BY <1>1, ListIs
      <3> QED BY <3>1, <3>2, <3>3
    <2>6. SprintsInOrder'
      <3> SUFFICES ASSUME NEW x \in Live, NEW v \in Live, v < x, {x, v} \cap touched' = {},
                          task[x].linked = None, task[x].project = task[v].project,
                          task[x].dept \in {None, task[v].dept},
                          task[x].sprint = task[v].sprint + 1,
                          NEW u \in Staff, assigned'[x][u] > 0, assigned'[v][u] > 0
                   PROVE  task[v].status \in Started
        BY <1>1, <1>3 DEF SprintsInOrder
      <3>1. CASE x # t /\ v # t
        <4>1. assigned[x][u] > 0 /\ assigned[v][u] > 0
          BY <1>3, <1>4, <3>1
        <4> QED BY <1>3, <4>1 DEF InSight, SprintsInOrder
      <3>2. v # t
        <4>1. x \in Nat /\ v \in Nat /\ x \in born
          BY LiveIs
        <4>2. x <= t
          BY <2>4, <4>1
        <4> QED BY <4>1, <4>2
      <3>3. CASE x = t
        <4>1. h.list[u] > 0 /\ assigned[v][u] > 0
          BY <1>3, <1>4, <2>5, <3>2, <3>3
        <4>2. task[v].sprint \in Nat \ {0}
          BY LiveIs, TaskConstants DEF TaskRow
        <4>3. task[t].sprint > 1 /\ task[v].sprint = task[t].sprint - 1
          BY <3>3, <4>2
        <4>4. GateOpen(task[t].project, task[t].sprint, h.list, task[t].dept)
          BY <2>4, <3>3 DEF Gated
        <4> QED BY <3>3, <4>1, <4>3, <4>4 DEF GateOpen, Waiting
      <3> QED BY <3>1, <3>2, <3>3
    <2> QED BY <1>2, <1>3, <2>6 DEF InSight, IdsInOrder
  <1> QED BY <1>1, <1>5, <1>6

LEMMA InSightStep == ASSUME Sound, InSight, [WorkNext]_workVars PROVE InSight'
  <1> SUFFICES ASSUME Sound' PROVE InSight'
    BY SoundStep
  <1>1. CASE UNCHANGED workVars
    <2>1. UNCHANGED <<assigned, desk, task, born, touched>>
      BY <1>1 DEF workVars, projectVars, taskVars
    <2>2. AllSeeing'
      <3> SUFFICES ASSUME NEW r \in Slots, ~desk'[r].late PROVE Seeing(desk[r])'
        BY DEF AllSeeing
      <3>1. PICK h : h = desk[r] /\ h = desk'[r]
        BY <2>1
      <3>2. Seeing(h)'
        BY <2>1, <3>1, SeeingSame DEF InSight, AllSeeing
      <3> QED BY <3>1, <3>2 DEF Seeing
    <2> QED BY <2>1, <2>2, InSightSame
  <1>2. ASSUME NEW s \in Slots, UNCHANGED taskVars,
               \/ Sweep(s) \/ Put(s) \/ NotFound(s) \/ Assigned(s) \/ SaveProject(s)
               \/ \E u \in Staff : Look(s, u)
        PROVE  InSight'
    BY <1>2, InSightSweep, InSightPut, InSightReads, InSightSaveProject
  <1>3. ASSUME NEW s \in Slots, InsertTask(s) \/ SaveTask(s) \/ Clear(s) \/ SaveStaff(s)
        PROVE  InSight'
    BY <1>3, InSightInsert, InSightSaveTask, InSightClear, InSightSaveStaff
  <1>4. ASSUME NEW t \in Tasks, RemoveTask(t) PROVE InSight'
    BY <1>4, RemoveTaskIs, InSightRemoval, LiveIs
  <1>5. ASSUME NEW p \in Projects, RemoveProjectAndTasks(p) PROVE InSight'
    BY <1>5, RemoveProjectIs, InSightRemoval
  <1> QED BY <1>1, <1>2, <1>3, <1>4, <1>5, InSightAsk, WorkSteps, Zenon

LEMMA InSightInit == WorkInit => InSight
  <1> SUFFICES ASSUME WorkInit PROVE InSight
    OBVIOUS
  <1>1. Sound
    BY SoundInit
  <1>2. desk = [s \in Slots |-> Free]
    BY DEF WorkInit, ProjectInit
  <1>3. AllSeeing
    BY <1>2, FreeIs, Unseeing DEF AllSeeing
  <1>4. PICK first : /\ task = [t \in Tasks |-> IF t = 1 THEN first ELSE NoTask]
                     /\ born = IF first.live THEN {1} ELSE {}
    BY DEF WorkInit, TaskInit
  <1>5. born \subseteq {1} /\ Live \subseteq {1}
    BY <1>1, <1>4, NoTaskIs DEF Live
  <1>6. IdsInOrder
    <2> SUFFICES ASSUME NEW t \in born, NEW x \in Tasks \ born PROVE t < x
      BY DEF IdsInOrder
    <2>1. t = 1 /\ x # 1 /\ x \in Nat \ {0}
      BY <1>5, WorkConstants
    <2> QED BY <2>1
  <1>7. SprintsInOrder
    <2> SUFFICES ASSUME NEW t \in Live, NEW v \in Live, v < t PROVE FALSE
      BY DEF SprintsInOrder
    <2>1. t = 1 /\ v = 1
      BY <1>5
    <2> QED BY <2>1
  <1> QED BY <1>3, <1>6, <1>7 DEF InSight

\* A member of staff who has a task of the next sprint has every task of a lower
\* id, of the sprint before in the same project, ready for test or further: no
\* two creations, removals and assignments undo the gate, unless a task was
\* updated, or saved after another request's write.
THEOREM SprintsStayInOrder == Spec => []SprintsInOrder
  <1>1. WorkInit => Sound /\ InSight
    BY SoundInit, InSightInit
  <1>2. Sound /\ InSight /\ [WorkNext]_workVars => (Sound /\ InSight)'
    BY SoundStep, InSightStep
  <1>3. Sound /\ InSight => SprintsInOrder
    BY DEF InSight
  <1> QED BY <1>1, <1>2, <1>3, PTL DEF Spec, Init, Next

-----------------------------------------------------------------------------
(* NewWorkIsLinked: who may open a project whose tasks are all done          *)

Opens(p) ==
    /\ TasksOf(p) # {} /\ \A t \in TasksOf(p) : task[t].status \in Completed
    /\ \E t \in TasksOf(p)' : task'[t].status \notin Completed
Excused(p) ==
    \E s \in Slots : /\ desk[s].pc \in {"insert", "update"}
                     /\ desk[s] # desk'[s]
                     /\ \/ desk[s].late
                        \/ /\ desk[s].item \in Tasks
                           /\ task[desk[s].item].project = p

\* A step after which every task has the row it had opens nothing
LEMMA OpensNothing ==
    ASSUME NEW p, Live' \subseteq Live, \A t \in Live' : task'[t] = task[t]
    PROVE  ~Opens(p)
  BY DEF Opens, TasksOf

\* The task that opens a project is the one that was written
LEMMA OpensWritten ==
    ASSUME Sound, NEW p \in Projects, Opens(p), NEW t \in Tasks, NEW row \in TaskRow,
           task' = [task EXCEPT ![t] = row]
    PROVE  row.project = p /\ IsProjectCompleted(p)
  <1>1. PICK x \in TasksOf(p)' : task'[x].status \notin Completed
    BY DEF Opens
  <1>2. x \in Tasks /\ task'[x].live /\ task'[x].project = p
    BY <1>1 DEF TasksOf, Live
  <1>3. x = t
    <2> SUFFICES ASSUME x # t PROVE FALSE
      OBVIOUS
    <2>1. task'[x] = task[x]
      BY <1>2 DEF Sound, Typed
    <2>2. x \in TasksOf(p)
      BY <1>2, <2>1 DEF TasksOf, Live
    <2> QED BY <1>1, <2>1, <2>2 DEF Opens
  <1>4. task'[t] = row
    BY DEF Sound, Typed
  <1> QED BY <1>2, <1>3, <1>4 DEF Opens, IsProjectCompleted

LEMMA InsertExcused ==
    ASSUME Sound, InSight, NEW p \in Projects, Opens(p), NEW s \in Slots, InsertTask(s)
    PROVE  Excused(p)
  <1>1. PICK h \in WorkHandler, g \in WorkHandler, t \in Tasks \ born :
              /\ h = desk[s] /\ HandlerOK(h, born, touched) /\ HandlerOK(g, born', touched')
              /\ h.pc = "insert" /\ \A x \in Tasks \ born : t <= x
              /\ Goes(desk, desk', s, g)
              /\ \A r \in Slots \ {s} : desk'[r].late = (desk[r].pc # "idle")
              /\ UNCHANGED <<project, assigned, calls, decided, crossed>>
              /\ \/ /\ h.object.project # None => project[h.object.project]
                    /\ task' = [task EXCEPT ![t] = h.object] /\ born' = born \cup {t}
                    /\ touched' = IF h.late THEN touched \cup {t} ELSE touched
                    /\ \/ h.list = NoEntries /\ g = Free
                       \/ /\ g.op = "create" /\ g.pc = "staff" /\ g.item = t /\ g.list = h.list
                          /\ g.rows = Nobody /\ g.todo = h.todo /\ g.late = h.late
                 \/ UNCHANGED taskVars /\ g = Free
    BY InsertIs
  <1>2. task' = [task EXCEPT ![t] = h.object]
    <2> SUFFICES ASSUME UNCHANGED taskVars PROVE FALSE
      BY <1>1
    <2> QED BY OpensNothing DEF taskVars, Live
  <1>3. h.object \in TaskRow
    BY <1>1 DEF HandlerOK
  <1>4. h.object.project = p /\ IsProjectCompleted(p)
    BY <1>2, <1>3, OpensWritten
  <1>5. h.late
    BY <1>1, <1>4, LiveIs DEF InSight, AllSeeing, Seeing
  <1>6. desk[s] # desk'[s]
    <2>1. g.pc \in {"idle", "staff"} /\ desk'[s] = g
      BY <1>1, FreeIs DEF Goes
    <2> QED BY <1>1, <2>1
  <1> QED BY <1>1, <1>5, <1>6 DEF Excused

LEMMA SaveTaskExcused ==
    ASSUME Sound, InSight, NEW p \in Projects, Opens(p), NEW s \in Slots, SaveTask(s)
    PROVE  Excused(p)
  <1>1. PICK h \in WorkHandler, g \in WorkHandler, r \in TaskRow, t \in Tasks :
              /\ h = desk[s] /\ h.pc = "update" /\ t = h.item
              /\ h.op = "edit" => r.project = h.object.project
              /\ h.op = "link" => r.project = task[t].project
              /\ h.op = "move" => r.project = h.object.project
              /\ HandlerOK(h, born, touched)
              /\ Goes(desk, desk', s, g)
              /\ \/ /\ task' = [task EXCEPT ![t] = r]
                    /\ g = Free \/ g.pc = "clear"
                 \/ UNCHANGED <<assigned, task, touched>> /\ g = Free
    BY SaveTaskIs
  <1>2. task' = [task EXCEPT ![t] = r]
    <2> SUFFICES ASSUME UNCHANGED task PROVE FALSE
      BY <1>1
    <2> QED BY OpensNothing DEF Live
  <1>3. r.project = p /\ IsProjectCompleted(p)
    BY <1>2, OpensWritten
  <1>4. h.late \/ task[t].project = p
    <2>1. h.op \in {"edit", "link", "move"}
      BY <1>1 DEF HandlerOK
    <2>2. CASE h.late
      BY <2>2
    <2>3. CASE ~h.late
      <3>1. Seeing(h)
        BY <1>1, <2>3 DEF InSight, AllSeeing
      <3> QED BY <1>1, <1>3, <2>1, <3>1 DEF Seeing
    <2> QED BY <2>2, <2>3
  <1>5. desk[s] # desk'[s]
    <2>1. g.pc \in {"idle", "clear"} /\ desk'[s] = g
      BY <1>1, FreeIs DEF Goes
    <2> QED BY <1>1, <2>1
  <1> QED BY <1>1, <1>4, <1>5 DEF Excused

LEMMA OpensStep ==
    ASSUME Sound, InSight, [WorkNext]_workVars, NEW p \in Projects, Opens(p)
    PROVE  Excused(p)
  <1>1. ASSUME UNCHANGED task PROVE FALSE
    BY <1>1, OpensNothing DEF Live
  <1>2. ASSUME NEW s \in Slots, InsertTask(s) PROVE Excused(p)
    BY <1>2, InsertExcused
  <1>3. ASSUME NEW s \in Slots, SaveTask(s) PROVE Excused(p)
    BY <1>3, SaveTaskExcused
  <1>4. ASSUME NEW gone \in SUBSET Items, RemovalIs(gone) PROVE FALSE
    <2>1. Live' = Live \ gone /\ \A t \in Tasks \ gone : task'[t] = task[t]
      BY <1>4 DEF RemovalIs
    <2> QED BY <2>1, OpensNothing DEF Live
  <1>5. ASSUME NEW t \in Tasks, RemoveTask(t) PROVE FALSE
    BY <1>4, <1>5, RemoveTaskIs, LiveIs
  <1>6. ASSUME NEW q \in Projects, RemoveProjectAndTasks(q) PROVE FALSE
    BY <1>4, <1>6, RemoveProjectIs
  <1>7. CASE UNCHANGED workVars
    BY <1>1, <1>7 DEF workVars, taskVars
  <1>8. ASSUME UNCHANGED taskVars PROVE FALSE
    BY <1>1, <1>8 DEF taskVars
  <1>9. ASSUME NEW s \in Slots, Clear(s) \/ SaveStaff(s) PROVE FALSE
    BY <1>1, <1>9 DEF Clear, SaveStaff, taskVars
  <1>10. ASSUME NEW s \in Slots, NEW u \in Staff, NEW list \in Lists, NEW q \in Projects \cup {None},
                NEW n \in Sprints, NEW x \in NewStatuses,
               NEW d \in Departments \cup {None}, AskCreateTask(s, u, q, n, x, list, d)
         PROVE  FALSE
    <2>1. SameTables
      BY <1>10, AskCreateIs
    <2> QED BY <1>8, <2>1 DEF SameTables
  <1>11. ASSUME NEW s \in Slots, NEW u \in Staff, NEW list \in Lists, NEW t \in Tasks,
                NEW change \in Changes, AskUpdateTask(s, u, t, change, list)
         PROVE  FALSE
    <2>1. SameTables
      BY <1>11, AskUpdateIs
    <2> QED BY <1>8, <2>1 DEF SameTables
  <1> QED BY <1>2, <1>3, <1>5, <1>6, <1>7, <1>8, <1>9, <1>10, <1>11, WorkSteps, Zenon

\* A project whose tasks are all done gets a task that is not done only from a
\* request that another's write made stale, or from an update of a task that is
\* its own already: what is created or moved there is linked instead.
THEOREM CompletedWorkStays == Spec => NewWorkIsLinked
  <1>1. WorkInit => Sound /\ InSight
    BY SoundInit, InSightInit
  <1>2. Sound /\ InSight /\ [WorkNext]_workVars => (Sound /\ InSight)'
    BY SoundStep, InSightStep
  <1>3. Sound /\ InSight /\ [WorkNext]_workVars
        => \A p \in Projects :
             /\ TasksOf(p) # {} /\ \A t \in TasksOf(p) : task[t].status \in Completed
             /\ \E t \in TasksOf(p)' : task'[t].status \notin Completed
             => \E s \in Slots : /\ desk[s].pc \in {"insert", "update"}
                                 /\ desk[s] # desk'[s]
                                 /\ \/ desk[s].late
                                    \/ /\ desk[s].item \in Tasks
                                       /\ task[desk[s].item].project = p
    BY OpensStep DEF Opens, Excused
  <1> QED BY <1>1, <1>2, <1>3, PTL DEF Spec, Init, Next, NewWorkIsLinked

-----------------------------------------------------------------------------
(* WorkViewsAgree: what the read-only endpoints answer in one state.  A      *)
(* project's progress and a member's lists are sums over tasks, and what     *)
(* they say of each other is what such sums and their rounding do.           *)

\* The least a rounded percentage, or mean, is
LEMMA PercentAtLeast ==
    ASSUME NEW part \in Nat, NEW whole \in Nat \ {0}, NEW c \in Nat
    PROVE  /\ Percent(part, whole) \in Nat
           /\ c <= Percent(part, whole) <=> 2 * (c * whole) <= 200 * part + whole
  <1>1. PICK x, k : x = 200 * part + whole /\ k = 2 * whole
    OBVIOUS
  <1>2. x \in Nat /\ k \in Nat \ {0} /\ c * k = 2 * (c * whole)
    BY <1>1
  <1>3. Percent(part, whole) = x \div k
    BY <1>1 DEF Percent
  <1>4. x \div k \in Nat /\ (c <= x \div k <=> c * k <= x)
    BY <1>2, QuotientAtLeast
  <1> QED BY <1>1, <1>2, <1>3, <1>4

LEMMA MeanAtLeast ==
    ASSUME NEW sum \in Nat, NEW n \in Nat \ {0}, NEW c \in Nat
    PROVE  /\ Mean(sum, n) \in Nat
           /\ c <= Mean(sum, n) <=> 2 * (c * n) <= 2 * sum + n
  <1>1. PICK x, k : x = 2 * sum + n /\ k = 2 * n
    OBVIOUS
  <1>2. x \in Nat /\ k \in Nat \ {0} /\ c * k = 2 * (c * n)
    BY <1>1
  <1>3. Mean(sum, n) = x \div k
    BY <1>1 DEF Mean
  <1>4. x \div k \in Nat /\ (c <= x \div k <=> c * k <= x)
    BY <1>2, QuotientAtLeast
  <1> QED BY <1>1, <1>2, <1>3, <1>4

\* Done tasks count a hundred, others eighty at most
LEMMA ProgressIs ==
    ASSUME NEW status \in TaskStatus
    PROVE  /\ Progress(status) \in 0..100
           /\ status \in Completed => Progress(status) = 100
           /\ status \notin Completed => Progress(status) <= 80
  BY DEF Progress, TaskStatus, Completed

LEMMA DerivedIs ==
    ASSUME NEW progress \in 0..100
    PROVE  DerivedStatus(progress) = "completed" <=> progress = 100
  <1>1. progress = 0 \/ progress \in 1..74 \/ progress \in 75..99 \/ progress = 100
    OBVIOUS
  <1>2. CASE progress = 0
    BY <1>2 DEF DerivedStatus
  <1>3. CASE progress \in 1..74
    <2>1. progress # 0 /\ progress # 100
      BY <1>3
    <2> QED BY <1>3, <2>1 DEF DerivedStatus
  <1>4. CASE progress \in 75..99
    <2>1. progress # 0 /\ progress # 100 /\ progress \notin 1..74
      BY <1>4
    <2> QED BY <1>4, <2>1 DEF DerivedStatus
  <1>5. CASE progress = 100
    <2>1. progress # 0 /\ progress \notin 1..74 /\ progress \notin 75..99
      BY <1>5
    <2> QED BY <1>5, <2>1 DEF DerivedStatus
  <1> QED BY <1>1, <1>2, <1>3, <1>4, <1>5

\* A mean is a hundred when everything is done, and, of fewer than forty tasks,
\* only then
LEMMA MeanIs ==
    ASSUME NEW sum \in Nat, NEW n \in Nat \ {0}, sum <= 100 * n
    PROVE  /\ Mean(sum, n) \in 0..100
           /\ sum = 100 * n => Mean(sum, n) = 100
           /\ sum + 20 <= 100 * n /\ n <= 39 => Mean(sum, n) # 100
  <1>1. PICK m : m = Mean(sum, n)
    OBVIOUS
  <1>2. /\ m \in Nat
        /\ 100 <= m <=> 2 * (100 * n) <= 2 * sum + n
        /\ 101 <= m <=> 2 * (101 * n) <= 2 * sum + n
    <2>1. \A c \in Nat : /\ Mean(sum, n) \in Nat
                         /\ c <= Mean(sum, n) <=> 2 * (c * n) <= 2 * sum + n
      BY MeanAtLeast
    <2>2. 100 \in Nat /\ 101 \in Nat
      OBVIOUS
    <2> HIDE DEF Mean
    <2> QED BY <1>1, <2>1, <2>2
  <1>3. ~(101 <= m)
    BY <1>2
  <1>4. m \in 0..100
    BY <1>2, <1>3
  <1>5. sum = 100 * n => 100 <= m
    BY <1>2
  <1>6. sum + 20 <= 100 * n /\ n <= 39 => ~(100 <= m)
    BY <1>2
  <1> QED BY <1>1, <1>4, <1>5, <1>6

-----------------------------------------------------------------------------
(* Projects *)

TasksTyped == task \in [Tasks -> TaskRow] /\ assigned \in [Items -> [Staff -> Nat]]

LEMMA TasksFinite == IsFiniteSet(Tasks) /\ \A T \in SUBSET Tasks : IsFiniteSet(T)
  BY ViewConstants, FS_Subset

LEMMA ProjectProgressIs ==
    ASSUME TasksTyped, NEW p \in Projects
    PROVE  /\ ProjectProgress(p) \in 0..100
           /\ Cardinality(TasksOf(p)) \in 1..39 =>
                (ProjectProgress(p) = 100 <=> IsProjectCompleted(p))
  <1>1. PICK T, n : T = TasksOf(p) /\ n = Cardinality(T)
    OBVIOUS
  <1>2. T \in SUBSET Tasks /\ IsFiniteSet(T) /\ n \in Nat
    <2>1. T \in SUBSET Tasks
      BY <1>1 DEF TasksOf, Live
    <2> QED BY <1>1, <2>1, TasksFinite, FS_CardinalityType
  <1> DEFINE g == [t \in T |-> Progress(task[t].status)]
  <1>3. \A t \in T : task[t].status \in TaskStatus
    BY <1>2 DEF TasksTyped, TaskRow
  <1>4. \A t \in T : /\ g[t] \in 0..100
                     /\ task[t].status \in Completed => g[t] = 100
                     /\ task[t].status \notin Completed => g[t] <= 80
    BY <1>3, ProgressIs
  <1>5. MapThenSumSet(LAMBDA t : Progress(task[t].status), T) = Total(g, T)
    BY DEF Total, MapThenSumSet, MapThenFoldSet
  <1> HIDE DEF g
  <1>6. PICK sum : sum = Total(g, T)
    OBVIOUS
  <1>7. ProjectProgress(p) = Mean(sum, n)
    BY <1>1, <1>5, <1>6 DEF ProjectProgress
  <1>8. /\ sum \in 0..(100 * n)
        /\ (\A t \in T : g[t] = 100) => sum = 100 * n
        /\ \A t \in T : g[t] <= 80 => sum + 20 <= 100 * n
    <2>1. 100 \in Nat /\ 80 \in 0..100 /\ 100 - 80 = 20
      OBVIOUS
    <2>2. /\ sum \in 0..(100 * n)
          /\ (\A t \in T : g[t] = 100) => sum = 100 * n
          /\ \A t \in T, l \in 0..100 : g[t] <= l => sum + (100 - l) <= 100 * n
      BY <1>1, <1>2, <1>4, <1>6, <2>1, SumAtMost
    <2> QED BY <2>1, <2>2
  <1>9. CASE n = 0
    <2>1. Mean(sum, n) = 0
      BY <1>9 DEF Mean
    <2> QED BY <1>1, <1>7, <1>9, <2>1
  <1>10. CASE n # 0
    <2>1. n \in Nat \ {0} /\ sum \in Nat /\ sum <= 100 * n
      BY <1>2, <1>8, <1>10
    <2>2. T # {}
      BY <1>1, <1>10, FS_EmptySet
    <2>3. /\ Mean(sum, n) \in 0..100
          /\ sum = 100 * n => Mean(sum, n) = 100
          /\ sum + 20 <= 100 * n /\ n <= 39 => Mean(sum, n) # 100
      BY <2>1, MeanIs
    <2>4. IsProjectCompleted(p) <=> \A t \in T : task[t].status \in Completed
      BY <1>1, <2>2 DEF IsProjectCompleted
    <2>5. IsProjectCompleted(p) => Mean(sum, n) = 100
      BY <1>4, <1>8, <2>3, <2>4
    <2>6. ~IsProjectCompleted(p) /\ n <= 39 => Mean(sum, n) # 100
      BY <1>4, <1>8, <2>3, <2>4
    <2> QED BY <1>1, <1>2, <1>7, <2>3, <2>5, <2>6
  <1> QED BY <1>9, <1>10

\* The statistics divide the projects there are
LEMMA StatsAddUp ==
    ASSUME TasksTyped
    PROVE  ProjectStats.total = ProjectStats.planning + ProjectStats.active
                                + ProjectStats.completed
  <1>1. PICK there : there = {p \in Projects : project[p]}
    OBVIOUS
  <1> DEFINE with(S) == {p \in there : ProjectProgress(p) \in S}
  <1>2. PICK A, B, C : A = with({0}) /\ B = with(1..99) /\ C = with({100})
    OBVIOUS
  <1>3. /\ ProjectStats.total = Cardinality(there)
        /\ ProjectStats.planning = Cardinality(A)
        /\ ProjectStats.active = Cardinality(B)
        /\ ProjectStats.completed = Cardinality(C)
    BY <1>1, <1>2 DEF ProjectStats
  <1>4. IsFiniteSet(there)
    BY <1>1, ViewConstants, FS_Subset
  <1>5. \A p \in there : ProjectProgress(p) \in 0..100
    BY <1>1, ProjectProgressIs
  <1>6. A \subseteq there /\ B \subseteq there /\ C \subseteq there
    BY <1>2
  <1>7. there = A \cup B \cup C /\ A \cap B = {} /\ (A \cup B) \cap C = {}
    BY <1>2, <1>5
  <1>8. IsFiniteSet(A) /\ IsFiniteSet(B) /\ IsFiniteSet(C)
    BY <1>4, <1>6, FS_Subset
  <1>9. /\ IsFiniteSet(A \cup B)
        /\ Cardinality(A \cup B) = Cardinality(A) + Cardinality(B) - Cardinality(A \cap B)
    BY <1>8, FS_Union
  <1>10. Cardinality((A \cup B) \cup C)
           = Cardinality(A \cup B) + Cardinality(C) - Cardinality((A \cup B) \cap C)
    BY <1>8, <1>9, FS_Union
  <1>11. /\ Cardinality(A) \in Nat /\ Cardinality(B) \in Nat /\ Cardinality(C) \in Nat
         /\ Cardinality({}) = 0
    BY <1>8, FS_CardinalityType, FS_EmptySet
  <1> HIDE DEF with
  <1>12. Cardinality(A \cup B) = Cardinality(A) + Cardinality(B)
    <2>1. Cardinality(A \cap B) = 0
      BY <1>7, <1>11, Zenon
    <2> QED BY <1>9, <1>11, <2>1
  <1>13. Cardinality(there) = Cardinality(A \cup B) + Cardinality(C)
    <2>1. Cardinality((A \cup B) \cap C) = 0 /\ there = (A \cup B) \cup C
      BY <1>7, <1>11, Zenon
    <2>2. PICK D : D = A \cup B
      OBVIOUS
    <2>3. Cardinality(there) = Cardinality(D) + Cardinality(C) - 0
      BY <1>10, <2>1, <2>2, Zenon
    <2> QED BY <1>11, <1>12, <2>2, <2>3
  <1>14. Cardinality(there) = Cardinality(A) + Cardinality(B) + Cardinality(C)
    BY <1>11, <1>12, <1>13
  <1> QED BY <1>3, <1>14

-----------------------------------------------------------------------------
(* Members of staff *)

\* The live tasks in one of some statuses, and how often each has u
In(S) == {t \in Live : task[t].status \in S}
Times(u) == [t \in Tasks |-> assigned[t][u]]

LEMMA InIs ==
    ASSUME NEW S
    PROVE  In(S) \in SUBSET Tasks /\ IsFiniteSet(In(S))
  <1>1. In(S) \in SUBSET Tasks
    BY DEF In, Live
  <1> QED BY <1>1, TasksFinite

LEMMA RowsIs ==
    ASSUME TasksTyped, NEW u \in Staff, NEW S
    PROVE  /\ \A t \in Tasks : Times(u)[t] = assigned[t][u] /\ Times(u)[t] \in Nat
           /\ Rows(u, S) = Total(Times(u), In(S))
           /\ Rows(u, S) \in Nat
  <1>1. \A t \in Tasks : Times(u)[t] = assigned[t][u] /\ Times(u)[t] \in Nat
    BY DEF TasksTyped, Times, Items
  <1>2. PICK T : T = In(S)
    OBVIOUS
  <1>3. T \in SUBSET Tasks /\ IsFiniteSet(T)
    BY <1>2, InIs
  <1>4. MapThenSumSet(LAMBDA t : assigned[t][u], T) = Total(Times(u), T)
    <2> DEFINE g == [t \in T |-> assigned[t][u]]
    <2>1. MapThenSumSet(LAMBDA t : assigned[t][u], T) = Total(g, T)
      BY DEF Total, MapThenSumSet, MapThenFoldSet
    <2>2. \A t \in T : g[t] = Times(u)[t] /\ Times(u)[t] \in Nat
      BY <1>1, <1>3
    <2> HIDE DEF g
    <2>3. Total(g, T) = Total(Times(u), T)
      BY <1>3, <2>2, SameSum
    <2> QED BY <2>1, <2>3
  <1>5. Rows(u, S) = Total(Times(u), T)
    BY <1>2, <1>4 DEF Rows, In
  <1>6. IsFiniteSet({}) /\ T \cap {} = {} /\ T \cup {} = T
    BY FS_EmptySet
  <1>7. Total(Times(u), T) \in Nat
    BY <1>1, <1>3, <1>6, SumOfTwo
  <1> QED BY <1>1, <1>2, <1>5, <1>7

\* A task is in one of the three groups of statuses
LEMMA Groups ==
    ASSUME TasksTyped
    PROVE  /\ In(TaskStatus) = (In(Active) \cup In(Open)) \cup In(Completed)
           /\ In(Active) \cap In(Open) = {}
           /\ (In(Active) \cup In(Open)) \cap In(Completed) = {}
  <1>1. TaskStatus = Active \cup Open \cup Completed
    BY DEF TaskStatus, Active, Open, Completed
  <1>2. /\ Active \cap Open = {} /\ (Active \cup Open) \cap Completed = {}
    BY DEF Active, Open, Completed
  <1> QED BY <1>1, <1>2 DEF In

LEMMA DashboardAddsUp ==
    ASSUME TasksTyped, NEW u \in Staff
    PROVE  /\ Rows(u, Active) \in Nat /\ Rows(u, Open) \in Nat /\ Rows(u, Completed) \in Nat
           /\ Rows(u, TaskStatus) = Rows(u, Active) + Rows(u, Open) + Rows(u, Completed)
  <1>1. PICK g, A, B, C : /\ g = Times(u)
                          /\ A = In(Active) /\ B = In(Open) /\ C = In(Completed)
    OBVIOUS
  <1>2. /\ A \in SUBSET Tasks /\ B \in SUBSET Tasks /\ C \in SUBSET Tasks
        /\ IsFiniteSet(A) /\ IsFiniteSet(B) /\ IsFiniteSet(C)
    BY <1>1, InIs
  <1>3. \A t \in Tasks : g[t] \in Nat
    BY <1>1, RowsIs
  <1>4. PICK D : D = A \cup B
    OBVIOUS
  <1>5. In(TaskStatus) = D \cup C /\ A \cap B = {} /\ D \cap C = {}
    BY <1>1, <1>4, Groups
  <1>6. IsFiniteSet(D) /\ D \in SUBSET Tasks
    BY <1>2, <1>4, FS_Union
  <1>7. Total(g, D) = Total(g, A) + Total(g, B)
    <2>1. \A t \in A \cup B : g[t] \in Nat
      BY <1>2, <1>3
    <2> QED BY <1>2, <1>4, <1>5, <2>1, SumOfTwo
  <1>8. Total(g, D \cup C) = Total(g, D) + Total(g, C)
    <2>1. \A t \in D \cup C : g[t] \in Nat
      BY <1>2, <1>3, <1>6
    <2> QED BY <1>2, <1>5, <1>6, <2>1, SumOfTwo
  <1>9. /\ Rows(u, Active) = Total(g, A) /\ Rows(u, Open) = Total(g, B)
        /\ Rows(u, Completed) = Total(g, C) /\ Rows(u, TaskStatus) = Total(g, D \cup C)
    BY <1>1, <1>5, RowsIs
  <1>10. Rows(u, Active) \in Nat /\ Rows(u, Open) \in Nat /\ Rows(u, Completed) \in Nat
    BY RowsIs
  <1> QED BY <1>7, <1>8, <1>9, <1>10

\* Who has done nearly everything has little left
LEMMA GreenIsLow ==
    ASSUME TasksTyped, NEW u \in Staff, CompletionLevel(u) = "GREEN"
    PROVE  Capacity(u) = "Low"
  <1>1. PICK left, done, total : /\ left = Rows(u, Active) + Rows(u, Open)
                                 /\ done = Rows(u, Completed)
                                 /\ total = Rows(u, TaskStatus)
    OBVIOUS
  <1>2. left \in Nat /\ done \in Nat /\ total \in Nat /\ total = left + done
    BY <1>1, DashboardAddsUp
  <1>3. total # 0
    BY <1>1 DEF CompletionLevel
  <1>4. PICK rate, load : rate = Percent(done, total) /\ load = Percent(left, total)
    OBVIOUS
  <1>5. /\ rate \in Nat /\ load \in Nat
        /\ 86 <= rate => 2 * (86 * total) <= 200 * done + total
        /\ 30 <= load => 2 * (30 * total) <= 200 * left + total
    BY <1>2, <1>3, <1>4, PercentAtLeast
  <1>6. 86 <= rate
    <2>1. \/ rate >= 86
          \/ (IF rate \in 50..85 THEN "YELLOW" ELSE "RED") = "GREEN"
      BY <1>1, <1>3, <1>4 DEF CompletionLevel
    <2> QED BY <1>5, <2>1
  <1>7. load < 30
    BY <1>2, <1>3, <1>5, <1>6
  <1>8. Utilization(u) = load
    BY <1>1, <1>4 DEF Utilization
  <1>9. ~(load >= 85) /\ load \notin 60..84 /\ load \notin 30..59
    BY <1>5, <1>7
  <1> QED BY <1>8, <1>9 DEF Capacity

\* The list of the one who is logged in is that of their tasks
LEMMA LoginListsOwn ==
    ASSUME TasksTyped, NEW u \in Staff, Rows(u, TaskStatus) # 0, NEW p \in Projects
    PROVE  StaffTasksByProject(u, p) = LoginTasks(u, None, TaskStatus) \cap TasksOf(p)
  <1>1. \A t \in Live : task[t].status \in TaskStatus
    BY DEF TasksTyped, TaskRow, Live
  <1>2. LoginTasks(u, None, TaskStatus) = {t \in Live : assigned[t][u] > 0}
    BY <1>1, ViewConstants DEF LoginTasks
  <1> QED BY <1>2 DEF StaffTasksByProject, TasksOf

-----------------------------------------------------------------------------
(* The lists: their length, and their pages *)

\* The list up to task n
Copies(F, u, S, n) ==
    F = [t \in 0..n |->
            IF t = 0 THEN <<>>
            ELSE F[t - 1] \o IF task[t].live /\ task[t].status \in S
                             THEN [i \in 1..assigned[t][u] |-> t] ELSE <<>>]

\* A task at a time
LEMMA CopiesExist ==
    ASSUME NEW u, NEW S, NEW n \in Nat
    PROVE  \E F : Copies(F, u, S, n)
  <1> DEFINE T == {k \in 0..n : \E F : Copies(F, u, S, k)}
             more(t) == IF task[t].live /\ task[t].status \in S
                        THEN [i \in 1..assigned[t][u] |-> t] ELSE <<>>
  <1> HIDE DEF more
  <1>0. \A F, k : Copies(F, u, S, k) <=>
            F = [t \in 0..k |-> IF t = 0 THEN <<>> ELSE F[t - 1] \o more(t)]
    BY DEF Copies, more
  <1>1. 0 \in T
    <2> DEFINE F == [t \in 0..0 |-> <<>>]
    <2>1. F = [t \in 0..0 |-> IF t = 0 THEN <<>> ELSE F[t - 1] \o more(t)]
      OBVIOUS
    <2> HIDE DEF F
    <2>2. Copies(F, u, S, 0)
      BY <1>0, <2>1
    <2> QED BY <2>2
  <1>2. ASSUME NEW m \in 0..(n - 1), m \in T PROVE m + 1 \in T
    <2>1. PICK F : Copies(F, u, S, m)
      BY <1>2
    <2> DEFINE next == F[m] \o more(m + 1)
               G == [t \in 0..(m + 1) |-> IF t = m + 1 THEN next ELSE F[t]]
    <2> HIDE DEF next
    <2>2. \A t \in 0..m : F[t] = IF t = 0 THEN <<>> ELSE F[t - 1] \o more(t)
      BY <1>0, <2>1
    <2>3. G[m + 1] = next /\ \A t \in 0..m : G[t] = F[t]
      OBVIOUS
    <2>4. G = [t \in 0..(m + 1) |-> G[t]]
      OBVIOUS
    <2> HIDE DEF G
    <2>5. ASSUME NEW t \in 0..(m + 1)
          PROVE  G[t] = IF t = 0 THEN <<>> ELSE G[t - 1] \o more(t)
      <3>1. CASE t = m + 1
        <4>1. t - 1 = m /\ m \in 0..m /\ t # 0
          BY <3>1
        <4> QED BY <2>3, <3>1, <4>1 DEF next
      <3>2. CASE t \in 1..m
        <4>1. t - 1 \in 0..m /\ t \in 0..m /\ t # 0
          BY <3>2
        <4> QED BY <2>2, <2>3, <4>1
      <3>3. CASE t = 0
        BY <2>2, <2>3, <3>3
      <3> QED BY <3>1, <3>2, <3>3
    <2>6. G = [t \in 0..(m + 1) |-> IF t = 0 THEN <<>> ELSE G[t - 1] \o more(t)]
      BY <2>4, <2>5
    <2>7. Copies(G, u, S, m + 1)
      BY <1>0, <2>6
    <2> QED BY <2>7
  <1>3. 0..n \subseteq T
    <2> HIDE DEF T
    <2> QED BY <1>1, <1>2, UpTo
  <1> QED BY <1>3

\* A list has a place for each row
LEMMA ListingLength ==
    ASSUME TasksTyped, NEW u \in Staff, NEW S
    PROVE  Listing(u, S) \in Seq(Tasks) /\ Len(Listing(u, S)) = Rows(u, S)
  <1>1. PICK n : n = Cardinality(Tasks) /\ n \in Nat
    BY ViewConstants, FS_CardinalityType
  <1>2. Tasks = 1..n
    BY <1>1, ViewConstants
  <1>3. PICK F : F = CHOOSE G : Copies(G, u, S, n)
    OBVIOUS
  <1>4. Listing(u, S) = F[n]
    BY <1>1, <1>3 DEF Listing, Copies
  <1>5. Copies(F, u, S, n)
    BY <1>1, <1>3, CopiesExist
  <1> DEFINE more(t) == IF task[t].live /\ task[t].status \in S
                        THEN [i \in 1..assigned[t][u] |-> t] ELSE <<>>
  <1>6. \A t \in 0..n : F[t] = IF t = 0 THEN <<>> ELSE F[t - 1] \o more(t)
    BY <1>5 DEF Copies
  <1>7. PICK g, A : g = Times(u) /\ A = In(S)
    OBVIOUS
  <1>8. /\ \A t \in Tasks : g[t] = assigned[t][u] /\ g[t] \in Nat
        /\ Rows(u, S) = Total(g, A) /\ A \in SUBSET Tasks /\ IsFiniteSet(A)
    BY <1>7, RowsIs, InIs
  <1>9. ASSUME NEW t \in Tasks
        PROVE  more(t) \in Seq(Tasks) /\ Len(more(t)) = IF t \in A THEN g[t] ELSE 0
    <2>1. t \in A <=> task[t].live /\ task[t].status \in S
      BY <1>7 DEF In, Live
    <2>2. PICK m \in Nat : m = assigned[t][u]
      BY <1>8
    <2>3. [i \in 1..m |-> t] \in Seq(Tasks) /\ Len([i \in 1..m |-> t]) = m
      OBVIOUS
    <2>4. <<>> \in Seq(Tasks) /\ Len(<<>>) = 0
      OBVIOUS
    <2>5. CASE t \in A
      <3>1. more(t) = [i \in 1..m |-> t]
        BY <2>1, <2>2, <2>5
      <3> HIDE DEF more
      <3> QED BY <1>8, <2>2, <2>3, <2>5, <3>1
    <2>6. CASE t \notin A
      <3>1. more(t) = <<>>
        BY <2>1, <2>6
      <3> HIDE DEF more
      <3> QED BY <2>4, <2>6, <3>1
    <2> QED BY <2>5, <2>6
  <1> HIDE DEF more
  <1> DEFINE Good(q, k) == q \in Seq(Tasks) /\ Len(q) = Total(g, A \cap (1..k))
             T == {k \in 0..n : Good(F[k], k)}
  <1>10. 0 \in T
    <2>1. F[0] = <<>> /\ 0 \in 0..n
      BY <1>1, <1>6
    <2>2. A \cap (1..0) = {}
      OBVIOUS
    <2>3. Total(g, {}) = 0
      <3>1. \E t : g[t] \in Nat
        BY <1>8, WorkConstants
      <3> QED BY <3>1, SumOfFew
    <2>4. Good(<<>>, 0)
      BY <2>2, <2>3
    <2> HIDE DEF Good
    <2> QED BY <2>1, <2>4
  <1>11. ASSUME NEW k \in 0..(n - 1), k \in T PROVE k + 1 \in T
    <2>1. PICK t, q, r, e : t = k + 1 /\ q = F[k] /\ e = more(t) /\ r = F[k + 1]
      OBVIOUS
    <2>2. t \in 1..n /\ t - 1 = k /\ t # 0 /\ t \in 0..n
      BY <1>1, <2>1
    <2>3. r = q \o e
      BY <1>6, <2>1, <2>2
    <2>4. q \in Seq(Tasks) /\ Len(q) = Total(g, A \cap (1..k))
      <3>1. Good(F[k], k)
        BY <1>11
      <3> QED BY <2>1, <3>1
    <2>5. e \in Seq(Tasks) /\ Len(e) = IF t \in A THEN g[t] ELSE 0
      BY <1>2, <1>9, <2>1, <2>2
    <2>6. r \in Seq(Tasks) /\ Len(r) = Len(q) + Len(e)
      BY <2>3, <2>4, <2>5, ConcatProperties
    <2>7. PICK B : B = A \cap (1..k)
      OBVIOUS
    <2>8. /\ IsFiniteSet(B) /\ B \in SUBSET Tasks /\ t \notin B /\ t \in Tasks
          /\ A \cap (1..(k + 1)) = IF t \in A THEN B \cup {t} ELSE B
      <3>1. 1..(k + 1) = (1..k) \cup {t}
        BY <2>1
      <3>2. t \notin 1..k
        BY <2>1
      <3>3. B \in SUBSET A
        BY <2>7
      <3> QED BY <1>2, <1>8, <2>2, <2>7, <3>1, <3>2, <3>3, FS_Subset
    <2>9. Len(r) = Total(g, A \cap (1..(k + 1)))
      <3>1. CASE t \in A
        <4>1. IsFiniteSet({t}) /\ B \cap {t} = {}
          BY <2>8, FS_Singleton
        <4>2. \A x \in B \cup {t} : g[x] \in Nat
          BY <1>8, <2>8
        <4>3. Total(g, B \cup {t}) = Total(g, B) + Total(g, {t})
          BY <2>8, <4>1, <4>2, SumOfTwo
        <4>4. Total(g, {t}) = g[t]
          BY <4>2, SumOfFew
        <4> QED BY <2>4, <2>5, <2>6, <2>7, <2>8, <3>1, <4>3, <4>4
      <3>2. CASE t \notin A
        <4>1. Len(r) = Len(q)
          BY <2>4, <2>5, <2>6, <3>2
        <4> QED BY <2>4, <2>7, <2>8, <3>2, <4>1
      <3> QED BY <3>1, <3>2
    <2>10. Good(r, k + 1) /\ k + 1 \in 0..n
      BY <2>1, <2>2, <2>6, <2>9
    <2> HIDE DEF Good
    <2> QED BY <2>1, <2>10
  <1>12. n \in T
    <2>1. 0..n \subseteq T
      <3> HIDE DEF T
      <3> QED BY <1>1, <1>10, <1>11, UpTo
    <2> HIDE DEF T
    <2> QED BY <1>1, <2>1
  <1>13. Good(F[n], n)
    BY <1>12
  <1>14. A \cap (1..n) = A
    BY <1>2, <1>8
  <1> QED BY <1>4, <1>8, <1>13, <1>14

\* The pages cut a list into parts
LEMMA PagesAddUp ==
    ASSUME NEW R, NEW rows \in Seq(R), NEW size \in 1..2, NEW g,
           \A page \in 1..TotalPages(Len(rows), size) : g[page] = Len(Page(rows, page, size))
    PROVE  Total(g, 1..TotalPages(Len(rows), size)) = Len(rows)
  <1>1. PICK n, last : n = Len(rows) /\ n \in Nat /\ last = TotalPages(n, size)
    OBVIOUS
  <1> DEFINE from(page) == (page - 1) * size + 1
             to(page) == IF page * size < n THEN page * size ELSE n
             P == [page \in 1..last |-> from(page)..to(page)]
  <1>2. last \in Nat
    <2>1. CASE size = 1
      BY <1>1, <2>1 DEF TotalPages
    <2>2. CASE size = 2
      BY <1>1, <2>2 DEF TotalPages
    <2> QED BY <2>1, <2>2
  <1>3. \A page \in 1..last : /\ from(page) \in 1..n /\ to(page) \in 1..n
                              /\ from(page) <= to(page)
    <2>1. CASE size = 1
      BY <1>1, <2>1 DEF TotalPages
    <2>2. CASE size = 2
      BY <1>1, <2>2 DEF TotalPages
    <2>3. size = 1 \/ size = 2
      OBVIOUS
    <2> HIDE DEF from, to
    <2> QED BY <2>1, <2>2, <2>3
  <1>4. \A k \in 1..n : \E page \in 1..last : k \in from(page)..to(page)
    <2>1. CASE size = 1
      <3>1. ASSUME NEW k \in 1..n PROVE k \in 1..last /\ k \in from(k)..to(k)
        BY <1>1, <2>1 DEF TotalPages
      <3> QED BY <3>1
    <2>2. CASE size = 2
      <3>1. ASSUME NEW k \in 1..n PROVE \E page \in 1..last : k \in from(page)..to(page)
        <4>1. PICK page : page = (k + 1) \div 2
          OBVIOUS
        <4>2. page \in 1..last /\ k \in from(page)..to(page)
          BY <1>1, <2>2, <4>1 DEF TotalPages
        <4> QED BY <4>2
      <3> QED BY <3>1
    <2>3. size = 1 \/ size = 2
      OBVIOUS
    <2> HIDE DEF from, to
    <2> QED BY <2>1, <2>2, <2>3
  <1>5. \A x, y \in 1..last : x # y => (from(x)..to(x)) \cap (from(y)..to(y)) = {}
    <2>1. CASE size = 1
      BY <1>1, <1>2, <2>1
    <2>2. CASE size = 2
      BY <1>1, <1>2, <2>2
    <2> QED BY <2>1, <2>2
  <1>6. ASSUME NEW page \in 1..last
        PROVE  g[page] = Cardinality(P[page]) /\ IsFiniteSet(P[page])
    <2>1. PICK f, l : f = from(page) /\ l = to(page)
      OBVIOUS
    <2>2. f \in 1..n /\ l \in 1..n /\ f <= l /\ f \in Int /\ l \in Int
      BY <1>1, <1>3, <2>1
    <2>3. \A i \in f..l : rows[i] \in R
      BY <1>1, <2>2
    <2>4. Len(SubSeq(rows, f, l)) = l - f + 1
      BY <2>2, <2>3, SubSeqProperties
    <2>5. Cardinality(f..l) = l - f + 1 /\ IsFiniteSet(f..l)
      BY <2>2, FS_Interval
    <2>6. g[page] = Len(SubSeq(rows, f, l))
      BY <1>1, <2>1 DEF Page
    <2>7. P[page] = f..l
      BY <2>1
    <2> QED BY <2>4, <2>5, <2>6, <2>7
  <1>7. UNION {P[page] : page \in 1..last} = 1..n
    <2>1. \A page \in 1..last : P[page] = from(page)..to(page)
      OBVIOUS
    <2>2. \A page \in 1..last : P[page] \subseteq 1..n
      <3> SUFFICES ASSUME NEW page \in 1..last PROVE P[page] \subseteq 1..n
        OBVIOUS
      <3>1. PICK f, l : f = from(page) /\ l = to(page)
        OBVIOUS
      <3>2. f \in 1..n /\ l \in 1..n
        BY <1>3, <3>1
      <3>3. f..l \subseteq 1..n
        BY <1>1, <3>2
      <3>4. P[page] = f..l
        BY <3>1
      <3> HIDE DEF P
      <3> QED BY <3>3, <3>4
    <2> HIDE DEF P, from, to
    <2> QED BY <1>4, <2>1, <2>2
  <1>8. \A x, y \in 1..last : x # y => P[x] \cap P[y] = {}
    <2> HIDE DEF from, to
    <2> QED BY <1>5
  <1>9. IsFiniteSet(1..last) /\ IsFiniteSet(1..n) /\ Cardinality(1..n) = n
    <2>1. 1 \in Int /\ last \in Int /\ n \in Int
      BY <1>1, <1>2
    <2>2. IsFiniteSet(1..last) /\ IsFiniteSet(1..n)
      BY <2>1, FS_Interval
    <2>3. Cardinality(1..n) = IF 1 > n THEN 0 ELSE n - 1 + 1
      BY <2>1, FS_Interval
    <2> QED BY <1>1, <2>2, <2>3
  <1>10. Total(g, 1..last) = Cardinality(UNION {P[page] : page \in 1..last})
    <2>2. \A page \in 1..last : g[page] = Cardinality(P[page]) /\ IsFiniteSet(P[page])
      BY <1>6
    <2> HIDE DEF P
    <2>3. PICK pages : pages = 1..last
      OBVIOUS
    <2>4. /\ IsFiniteSet(pages)
          /\ \A x, y \in pages : x # y => P[x] \cap P[y] = {}
          /\ \A page \in pages : g[page] = Cardinality(P[page]) /\ IsFiniteSet(P[page])
      BY <1>8, <1>9, <2>2, <2>3, Zenon
    <2>5. Total(g, pages) = Cardinality(UNION {P[page] : page \in pages})
      BY <2>4, SumOfParts
    <2> QED BY <2>3, <2>5, Zenon
  <1> HIDE DEF P
  <1> QED BY <1>1, <1>7, <1>9, <1>10

LEMMA ListsAddUp ==
    ASSUME TasksTyped, NEW u \in Staff, NEW S, NEW size \in 1..2
    PROVE  Rows(u, S) = MapThenSumSet(LAMBDA page : Len(StatusPage(u, S, page, size).data),
                                      1..StatusPage(u, S, 1, size).totalPages)
  <1>1. PICK rows : rows = Listing(u, S)
    OBVIOUS
  <1>2. rows \in Seq(Tasks) /\ Len(rows) = Rows(u, S)
    BY <1>1, ListingLength
  <1>3. PICK last : last = TotalPages(Len(rows), size)
    OBVIOUS
  <1>4. /\ \A page : StatusPage(u, S, page, size).data = Page(rows, page, size)
        /\ StatusPage(u, S, 1, size).totalPages = last
    BY <1>1, <1>3 DEF StatusPage
  <1> DEFINE g == [page \in 1..last |-> Len(StatusPage(u, S, page, size).data)]
  <1>5. \A page \in 1..last : g[page] = Len(Page(rows, page, size))
    BY <1>4
  <1>6. MapThenSumSet(LAMBDA page : Len(StatusPage(u, S, page, size).data), 1..last)
          = Total(g, 1..last)
    BY DEF Total, MapThenSumSet, MapThenFoldSet
  <1> HIDE DEF g
  <1>7. Total(g, 1..last) = Len(rows)
    BY <1>2, <1>3, <1>5, PagesAddUp
  <1> QED BY <1>2, <1>4, <1>6, <1>7

-----------------------------------------------------------------------------
(* Rounding and due dates: what holds of every number of tasks and every     *)
(* horizon, whatever the state                                               *)

LEMMA Rounding ==
    ASSUME NEW n \in 1..39, NEW status \in TaskStatus \ Completed
    PROVE  DerivedStatus(Mean(100 * (n - 1) + Progress(status), n)) # "completed"
  <1>1. PICK g, sum : g = Progress(status) /\ sum = 100 * (n - 1) + g
    OBVIOUS
  <1>2. g \in 0..80
    BY <1>1, ProgressIs
  <1>3. /\ sum \in Nat /\ n \in Nat \ {0} /\ n <= 39
        /\ sum + 20 <= 100 * n /\ sum <= 100 * n
    BY <1>1, <1>2
  <1>4. Mean(sum, n) \in 0..100 /\ Mean(sum, n) # 100
    BY <1>3, MeanIs
  <1> QED BY <1>1, <1>4, DerivedIs

LEMMA Deadlines ==
    ASSUME NEW due \in 0..Horizon
    PROVE  /\ \E now \in Midnights : /\ now - due \in 0..23
                                     /\ DeadlineNotice(due, now, "In_progress") = "overdue"
           /\ Cardinality({now \in Midnights :
                  DeadlineNotice(due, now, "In_progress") = "approaching"}) <= 1
           /\ \A now \in Midnights : DeadlineNotice(due, now, "Completed") = None
  <1>1. Horizon \in Nat /\ due \in Nat /\ due <= Horizon
    BY ViewConstants
  <1>2. \A now \in Midnights : \E d \in Nat : now = 24 * d
    BY <1>1 DEF Midnights
  <1>3. \E now \in Midnights : /\ now - due \in 0..23
                               /\ DeadlineNotice(due, now, "In_progress") = "overdue"
    <2>1. PICK d, top : d = (due + 23) \div 24 /\ top = Horizon \div 24 + 1
      OBVIOUS
    <2>2. d \in 0..top /\ 24 * d - due \in 0..23 /\ due <= 24 * d
      BY <1>1, <2>1
    <2>3. 24 * d \in Midnights
      BY <2>1, <2>2 DEF Midnights
    <2>4. DeadlineNotice(due, 24 * d, "In_progress") = "overdue"
      BY <1>1, <2>2 DEF DeadlineNotice
    <2> QED BY <2>2, <2>3, <2>4
  <1>4. Cardinality({now \in Midnights :
            DeadlineNotice(due, now, "In_progress") = "approaching"}) <= 1
    <2>1. PICK A : A = {now \in Midnights :
                           DeadlineNotice(due, now, "In_progress") = "approaching"}
      OBVIOUS
    <2>2. ASSUME NEW now \in A PROVE \E d \in Nat : now = 24 * d /\ due > now /\ due - now <= 6
      <3>1. PICK d \in Nat : now = 24 * d
        BY <1>2, <2>1
      <3>2. DeadlineNotice(due, now, "In_progress") = "approaching"
        BY <2>1
      <3>3. ASSUME due <= now PROVE FALSE
        <4>1. ~(due > now)
          BY <1>1, <3>1, <3>3
        <4>2. DeadlineNotice(due, now, "In_progress") = "overdue"
          BY <3>3, <4>1 DEF DeadlineNotice
        <4> QED BY <3>2, <4>2
      <3>4. due > now
        BY <1>1, <3>1, <3>3
      <3>5. due - now <= 6
        BY <3>2, <3>3, ViewConstants DEF DeadlineNotice
      <3> QED BY <3>1, <3>4, <3>5
    <2>3. \A x, y \in A : x = y
      <3> SUFFICES ASSUME NEW x \in A, NEW y \in A PROVE x = y
        OBVIOUS
      <3>1. PICK d \in Nat : x = 24 * d /\ due > x /\ due - x <= 6
        BY <2>2
      <3>2. PICK e \in Nat : y = 24 * e /\ due > y /\ due - y <= 6
        BY <2>2
      <3> QED BY <1>1, <3>1, <3>2
    <2>4. CASE A = {}
      BY <2>1, <2>4, FS_EmptySet
    <2>5. CASE A # {}
      <3>1. PICK x \in A : TRUE
        BY <2>5
      <3>2. A = {x}
        BY <2>3, <3>1
      <3> QED BY <2>1, <3>2, FS_Singleton
    <2> QED BY <2>4, <2>5
  <1>5. \A now : DeadlineNotice(due, now, "Completed") = None
    BY DEF DeadlineNotice
  <1> QED BY <1>3, <1>4, <1>5

\* Whatever the tasks, projects and staff, and half way through handlers too:
\* the progress of a project, the statistics, and each member's dashboard, lists
\* and pages fit together.
THEOREM WorkViewsFit == Spec => []WorkViewsAgree
  <1>1. Sound => WorkViewsAgree
    <2> SUFFICES ASSUME Sound PROVE WorkViewsAgree
      OBVIOUS
    <2>1. TasksTyped
      BY DEF Sound, Typed, TasksTyped
    <2>2. \A p \in Projects : Cardinality(TasksOf(p)) \in 1..39 =>
            (DerivedStatus(ProjectProgress(p)) = "completed" <=> IsProjectCompleted(p))
      BY <2>1, ProjectProgressIs, DerivedIs
    <2>3. ProjectStats.total = ProjectStats.planning + ProjectStats.active
                               + ProjectStats.completed
      BY <2>1, StatsAddUp
    <2>4. ASSUME NEW u \in Staff
          PROVE  /\ Dashboard(u).total = Dashboard(u).active + Dashboard(u).open
                                         + Dashboard(u).done
                 /\ CompletionLevel(u) = "GREEN" => Dashboard(u).capacity = "Low"
                 /\ Dashboard(u).total > 0 =>
                      \A p \in Projects :
                        StaffTasksByProject(u, p) = LoginTasks(u, None, TaskStatus) \cap TasksOf(p)
      <3>1. /\ Dashboard(u).total = Rows(u, TaskStatus) /\ Dashboard(u).active = Rows(u, Active)
            /\ Dashboard(u).open = Rows(u, Open) /\ Dashboard(u).done = Rows(u, Completed)
            /\ Dashboard(u).capacity = Capacity(u)
        BY DEF Dashboard
      <3>2. Dashboard(u).total > 0 => Rows(u, TaskStatus) # 0
        BY <3>1
      <3> QED BY <2>1, <3>1, <3>2, DashboardAddsUp, GreenIsLow, LoginListsOwn
    <2>5. \A u \in Staff, size \in 1..2, S \in {Active, Open, Completed} :
            Rows(u, S) = MapThenSumSet(LAMBDA page : Len(StatusPage(u, S, page, size).data),
                                       1..StatusPage(u, S, 1, size).totalPages)
      BY <2>1, ListsAddUp
    <2>6. \A u \in Staff, t \in Live :
            /\ MayComment(u, t) => MayUpdate(u, t)
            /\ task[t].project # None => (MayUpdate(u, t) => MayComment(u, t))
      BY DEF MayComment, MayUpdate
    <2>7. RoundingAndDeadlines
      BY Rounding, Deadlines DEF RoundingAndDeadlines
    <2> QED BY <2>2, <2>3, <2>4, <2>5, <2>6, <2>7 DEF WorkViewsAgree
  <1>2. WorkInit => Sound
    BY SoundInit
  <1>3. Sound /\ [WorkNext]_workVars => Sound'
    BY SoundStep
  <1> QED BY <1>1, <1>2, <1>3, PTL DEF Spec, Init, Next
================================================================================
