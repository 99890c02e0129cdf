--------------------------------- MODULE Tasks ---------------------------------
(***************************************************************************)
(* TaskService: tasks of a project, tasks linked to a project that was     *)
(* complete when they were made, and tasks of nobody's project.  A request *)
(* reads what it needs, awaits, saves the task, and then its assignments.  *)
(*                                                                         *)
(* External: save leaves alone a column whose property is undefined, so    *)
(* update, which sets project or linkedProjectId to undefined, keeps them. *)
(***************************************************************************)
EXTENDS Projects

CONSTANTS
    NewStatuses,  \* the statuses create may be given, None for none,
    Statuses,     \* and update, of TaskStatus
    Sprints,      \* 1..n
    Departments   \* ids of table departments

VARIABLES
    task,      \* table tasks
    born,      \* ids given so far
    touched    \* history: tasks updated, or saved after another request's write

taskVars == <<task, born, touched>>
workVars == <<projectVars, taskVars>>

-----------------------------------------------------------------------------
(* Statuses *)

TaskStatus == {"Not_started", "In_progress", "Ready_To_Test", "Testing_In_Progress",
               "On_Hold", "Failed_Test", "Passed_Test", "Dev_Completed", "Completed"}
Completed == {"Passed_Test", "Dev_Completed", "Completed"}
Started == Completed \cup {"Ready_To_Test", "Testing_In_Progress"}

ASSUME TaskConstants ==
    /\ 1 \in Sprints /\ Sprints \subseteq Nat \ {0} /\ None \notin Sprints
    /\ None \notin TaskStatus \cup Departments
    /\ Statuses \subseteq TaskStatus /\ NewStatuses \subseteq TaskStatus \cup {None}

TaskRow == [live : BOOLEAN, status : TaskStatus, sprint : Sprints,
            project : Projects \cup {None}, linked : Projects \cup {None},
            creator : Staff \cup {None}, dept : Departments \cup {None}]
NoTask == [live |-> FALSE, status |-> "Not_started", sprint |-> 1, project |-> None,
           linked |-> None, creator |-> None, dept |-> None]

Live == {t \in Tasks : task[t].live}
TasksOf(p) == {t \in Live : task[t].project = p}

\* isProjectCompleted: tasks that are only linked do not count
IsProjectCompleted(p) ==
    TasksOf(p) # {} /\ \A t \in TasksOf(p) : task[t].status \in Completed

TaskInit ==
    /\ \E first \in {NoTask} \cup {r \in TaskRow :
                        /\ r.live /\ r.linked = None /\ r.creator = CHOOSE u \in Staff : TRUE
                        /\ r.status \in Statuses /\ r.sprint = 1 /\ r.dept # None} :
         /\ task = [t \in Tasks |-> IF t = 1 THEN first ELSE NoTask]
         /\ born = IF first.live THEN {1} ELSE {}
    /\ touched = {}

-----------------------------------------------------------------------------
(* create *)

\* checkPreviousSprintStatus: the assignees' tasks of the sprint before, in the
\* same project, are all in test at least; of those in the department of the new
\* task only, when it has one
Waiting(sprint, p, list) ==
    {t \in Live : /\ task[t].sprint = sprint /\ task[t].project = p
                  /\ \E u \in Staff : list[u] > 0 /\ assigned[t][u] > 0
                  /\ task[t].status \notin Started}
GateSameSprint(p, sprint, list, dept) ==
    sprint > 1 => \A t \in Waiting(sprint, p, list) : dept \notin {None, task[t].dept}
GateOpen(p, sprint, list, dept) ==
    sprint > 1 => \A t \in Waiting(sprint - 1, p, list) : dept \notin {None, task[t].dept}

GivenStatus(status) == status
StatusOrDefault(status) == IF status = None THEN "Not_started" ELSE status

\* A new task of a project that is complete is linked to it, not added
AlwaysAdded(row, p) == [row EXCEPT !.project = p]
Placed(row, p) == IF p = None THEN row
                  ELSE IF IsProjectCompleted(p) THEN [row EXCEPT !.linked = p]
                  ELSE [row EXCEPT !.project = p]

AskCreateTask(s, u, p, sprint, status, list, dept) ==
    /\ p # None => project[p] /\ assigned[p][u] > 0
    /\ GateOpen(p, sprint, list, dept)
    /\ TakeDesk(s, [Free EXCEPT !.op = "create", !.pc = "insert", !.list = list,
                      !.object = Placed([NoTask EXCEPT !.live = TRUE, !.sprint = sprint,
                                           !.status = StatusOrDefault(status),
                                           !.creator = u, !.dept = dept], p)])
    /\ UNCHANGED <<project, assigned, decided, taskVars>>

\* taskRepo.save of the new task; a project that is gone refuses it
InsertTask(s) ==
    LET h == desk[s]  p == h.object.project
        t == CHOOSE t \in Tasks : \A x \in Tasks \ born : t <= x /\ t \notin born IN
    /\ h.pc = "insert" /\ Tasks \ born # {}
    /\ IF p = None \/ (p # None /\ project[p])
       THEN /\ task' = [task EXCEPT ![t] = h.object]
            /\ born' = born \cup {t}
            /\ touched' = IF h.late THEN touched \cup {t} ELSE touched
            /\ Wrote(s, IF h.list = NoEntries THEN Free
                        ELSE [h EXCEPT !.pc = "staff", !.item = t, !.object = None])
       ELSE Wrote(s, Free) /\ UNCHANGED taskVars
    /\ UNCHANGED <<project, assigned, calls, decided, crossed>>

-----------------------------------------------------------------------------
(* update *)

\* Assigned to the project of the task; without one, its creator or assignee
MayUpdate(u, t) ==
    IF task[t].project # None THEN assigned[task[t].project][u] > 0
    ELSE assigned[t][u] > 0 \/ task[t].creator = u

\* addComment loads no assignments: without a project, the creator only
MayComment(u, t) ==
    IF task[t].project # None THEN assigned[task[t].project][u] > 0
    ELSE task[t].creator = u

\* What a request changes: here one column, or only the list.  An empty list
\* counts as none.
Same == [status |-> None, sprint |-> None, project |-> None, dept |-> None]
Changes == {Same} \cup {[Same EXCEPT !.status = x] : x \in Statuses}
                  \cup {[Same EXCEPT !.sprint = n] : n \in Sprints}
                  \cup {[Same EXCEPT !.project = p] : p \in Projects}
                  \cup {[Same EXCEPT !.dept = d] : d \in Departments}
AskUpdateTask(s, u, t, change, list) ==
    LET row == task[t]  p == change.project
        edited == [row EXCEPT
                     !.status = IF change.status = None THEN @ ELSE change.status,
                     !.sprint = IF change.sprint = None THEN @ ELSE change.sprint,
                     !.dept = IF change.dept = None THEN @ ELSE change.dept] IN
    /\ t \in Live /\ MayUpdate(u, t)
    /\ p # None => project[p] /\ assigned[p][u] > 0
    /\ TakeDesk(s, [Free EXCEPT !.pc = "update", !.item = t,
                      !.op = IF p = None THEN "edit" ELSE IF IsProjectCompleted(p)
                             THEN "link" ELSE "move",
                      !.list = IF list = NoEntries THEN None ELSE list,
                      !.rows = assigned[t], !.object = Placed(edited, p)])
    /\ UNCHANGED <<project, assigned, decided, taskVars>>

\* What save leaves as it is in the row: the project of a task that is linked,
\* the link of one that is moved
Kept(h, row) == CASE h.op = "edit" -> h.object
                  [] h.op = "link" -> [h.object EXCEPT !.project = row.project]
                  [] h.op = "move" -> [h.object EXCEPT !.linked = row.linked]

\* taskRepo.save: the columns and the assignments as loaded; a task that is gone
\* comes back, unless its project is gone too
SaveTask(s) ==
    LET h == desk[s]  t == h.item IN
    /\ h.pc = "update"
    /\ LET row == Kept(h, task[t])  p == row.project IN
       IF p = None \/ (p # None /\ project[p])
       THEN /\ task' = [task EXCEPT ![t] = row]
            /\ touched' = touched \cup {t}
            /\ assigned' = [assigned EXCEPT ![t] = h.rows]
            /\ Wrote(s, IF Named(h) THEN [h EXCEPT !.pc = "clear", !.object = None]
                                    ELSE Free)
       ELSE Wrote(s, Free) /\ UNCHANGED <<assigned, task, touched>>
    /\ UNCHANGED <<project, calls, decided, crossed, born>>

\* assignmentRepo.delete({ task })
NotCleared(rows) == rows
Cleared(rows) == Nobody
Clear(s) ==
    LET h == desk[s] IN
    /\ h.pc = "clear"
    /\ assigned' = [assigned EXCEPT ![h.item] = Cleared(@)]
    /\ Wrote(s, [h EXCEPT !.pc = "staff"])
    /\ UNCHANGED <<project, calls, decided, crossed, taskVars>>

\* Everyone in the list is looked up, then all the rows are saved; one who is
\* not found, or a task that is gone, and there are none
SaveStaff(s) ==
    LET h == desk[s]  t == h.item IN
    /\ h.pc = "staff"
    /\ IF h.list[Ghost] > 0 \/ ~task[t].live
       THEN /\ crossed' = crossed \cup {t}
            /\ UNCHANGED <<assigned, decided>>
       ELSE /\ assigned' = [assigned EXCEPT ![t] =
                              [u \in Staff |-> @[u] + h.list[u]]]
            /\ Decide(t, PerEntry(h.list))
            /\ UNCHANGED crossed
    /\ touched' = IF h.late THEN touched \cup {t} ELSE touched
    /\ Wrote(s, Free)
    /\ UNCHANGED <<project, calls, task, born>>

-----------------------------------------------------------------------------
(* remove, deleteTask; and the tasks of a project that is removed *)

Drop(gone) == task' = [t \in Tasks |-> IF t \in gone THEN NoTask ELSE task[t]]

RemoveTask(t) ==
    /\ t \in Live /\ calls > 0 /\ calls' = calls - 1
    /\ Drop({t})
    /\ assigned' = [assigned EXCEPT ![t] = Nobody]
    /\ decided' = [decided EXCEPT ![t] = Nobody]
    /\ crossed' = IF \E s \in Slots : desk[s].item = t THEN crossed \cup {t} ELSE crossed
    /\ desk' = [s \in Slots |-> [desk[s] EXCEPT !.late = desk[s].pc # "idle"]]
    /\ UNCHANGED <<project, born, touched>>

RemoveProjectAndTasks(p) ==
    /\ RemoveProject(p, {p} \cup TasksOf(p))
    /\ Drop(TasksOf(p))
    /\ UNCHANGED <<born, touched>>

-----------------------------------------------------------------------------

TaskStep ==
    \/ \E s \in Slots :
         /\ Ready(s)
         /\ \E u \in Staff, list \in Lists :
              \/ \E p \in Projects \cup {None}, n \in Sprints, x \in NewStatuses,
                   d \in Departments \cup {None} : AskCreateTask(s, u, p, n, x, list, d)
              \/ \E t \in Tasks, change \in Changes : AskUpdateTask(s, u, t, change, list)
    \/ \E s \in Slots : InsertTask(s) \/ SaveTask(s) \/ Clear(s) \/ SaveStaff(s)
    \/ \E t \in Tasks : RemoveTask(t)

WorkInit == ProjectInit /\ TaskInit
WorkNext == \/ ProjectStep /\ UNCHANGED taskVars
            \/ TaskStep
            \/ \E p \in Projects : RemoveProjectAndTasks(p)
WorkSpec == WorkInit /\ [][WorkNext]_workVars

-----------------------------------------------------------------------------
(* Properties *)

\* Rows are rows, nobody is assigned to what is not there, no task is in a
\* project that is gone.
WorkTypeOK ==
    /\ project \in [Projects -> BOOLEAN]
    /\ task \in [Tasks -> TaskRow]
    /\ assigned \in [Items -> [Staff -> Nat]]
    /\ \A t \in Tasks : task[t].live => t \in born
                        /\ (task[t].project # None => project[task[t].project])
    /\ \A t \in Tasks \ Live : assigned[t] = Nobody
    /\ \A p \in Projects : ~project[p] => assigned[p] = Nobody
    /\ calls \in 0..MaxWorkCalls
    /\ \A s \in Slots : /\ desk[s].item \in Items \cup {None}
                          /\ desk[s].todo \in [Staff \cup {Ghost} -> Nat]
    /\ crossed \subseteq Items /\ touched \subseteq born

\* Nobody is given a task of the next sprint while one of theirs in the sprint
\* before waits in the same project and, if the new task has a department, in
\* the same department: such a pair has a task that was updated, which no gate
\* looks at, or two creates that crossed.  A new task of another department goes
\* past the one that waits.  A linked task is gated by the tasks of its project
\* and not by other linked ones.
SprintsInOrder ==
    \A t, before \in Live :
        /\ before < t /\ {t, before} \cap touched = {}
        /\ task[t].linked = None
        /\ task[t].project = task[before].project
        /\ task[t].dept \in {None, task[before].dept}
        /\ task[t].sprint = task[before].sprint + 1
        /\ \E u \in Staff : assigned[t][u] > 0 /\ assigned[before][u] > 0
        => task[before].status \in Started

\* A project that is complete is not reopened by new work: a step that leaves it
\* with a task that is not complete updates one of its own tasks, or saves one
\* whose handler had looked before another write.
NewWorkIsLinked ==
    [][\A p \in Projects :
         /\ TasksOf(p) # {} /\ \A t \in TasksOf(p) : task[t].status \in Completed
         /\ \E t \in TasksOf(p)' : task'[t].status \notin Completed
         => \E s \in Slots : /\ desk[s].pc \in {"insert", "update"}
                             /\ desk[s] # desk'[s]
                             /\ \/ desk[s].late
                                \/ /\ desk[s].item \in Tasks
                                   /\ task[desk[s].item].project = p]_workVars
================================================================================
