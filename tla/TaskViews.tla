------------------------------- MODULE TaskViews -------------------------------
(***************************************************************************)
(* What the read-only endpoints of TaskService and ProjectsService say of  *)
(* the tasks: the progress of a project, the dashboard and the pages of a  *)
(* member of staff, the completion level, the list for the one who is      *)
(* logged in; and whom the midnight job reminds of a due date.  Filters by *)
(* department, date and text narrow these lists and are left out.          *)
(***************************************************************************)
EXTENDS Tasks

CONSTANT Horizon    \* hours a due date may be away

\* Ids of tasks are given from 1 on
ASSUME ViewConstants ==
    /\ IsFiniteSet(Projects) /\ None \notin {"all", "approaching"} /\ Horizon \in Nat
    /\ IsFiniteSet(Tasks) /\ Tasks = 1..Cardinality(Tasks)

-----------------------------------------------------------------------------
(* Projects *)

\* statusProgressMap of the project endpoints
ProgressNoSetup(status) ==
    CASE status = "In_progress" -> 50      [] status = "Ready_To_Test" -> 75
      [] status = "Failed_Test" -> 25      [] status = "Testing_In_Progress" -> 80
      [] status = "On_Hold" -> 40          [] status \in {"Passed_Test", "Completed"} -> 100
      [] OTHER -> 0
Progress(status) ==
    CASE status = "In_progress" -> 50      [] status = "Ready_To_Test" -> 75
      [] status = "Failed_Test" -> 25      [] status = "Testing_In_Progress" -> 80
      [] status = "On_Hold" -> 40          [] status \in Completed -> 100
      [] OTHER -> 0

\* Math.round(sum / n), 0 of no tasks
Mean(sum, n) == IF n = 0 THEN 0 ELSE (2 * sum + n) \div (2 * n)
ProjectProgress(p) ==
    Mean(MapThenSumSet(LAMBDA t : Progress(task[t].status), TasksOf(p)),
         Cardinality(TasksOf(p)))
DerivedStatus(progress) ==
    CASE progress = 0 -> "not_started"
      [] progress \in 1..74 -> "in_progress"
      [] progress \in 75..99 -> "testing"
      [] OTHER -> "completed"

\* getProjectStats
ProjectStats ==
    LET there == {p \in Projects : project[p]}
        with(S) == Cardinality({p \in there : ProjectProgress(p) \in S})
    IN [total |-> Cardinality(there), planning |-> with({0}),
        active |-> with(1..99), completed |-> with({100})]

-----------------------------------------------------------------------------
(* Members of staff.  A task counts once per row of task_assignments. *)

Active == {"In_progress", "Ready_To_Test", "Testing_In_Progress", "On_Hold",
           "Failed_Test"}
Open == {"Not_started"}
Rows(u, S) == MapThenSumSet(LAMBDA t : assigned[t][u],
                            {t \in Live : task[t].status \in S})

\* getStaffTaskDashboard
Utilization(u) == Percent(Rows(u, Active) + Rows(u, Open), Rows(u, TaskStatus))
Capacity(u) == CASE Utilization(u) >= 85 -> "At capacity"
                 [] Utilization(u) \in 60..84 -> "High"
                 [] Utilization(u) \in 30..59 -> "Moderate"
                 [] OTHER -> "Low"
Dashboard(u) ==
    [active |-> Rows(u, Active), open |-> Rows(u, Open), done |-> Rows(u, Completed),
     total |-> Rows(u, TaskStatus), rate |-> Percent(Rows(u, Completed), Rows(u, TaskStatus)),
     capacity |-> Capacity(u)]

\* getStaffCompletionLevel
CompletionLevel(u) ==
    LET total == Rows(u, TaskStatus)  rate == Percent(Rows(u, Completed), total) IN
    IF total = 0 THEN "PINK"
    ELSE CASE rate >= 86 -> "GREEN" [] rate \in 50..85 -> "YELLOW" [] OTHER -> "RED"

\* getStaffTasksByStatusWithPagination: one list per group, in the order of rows
Listing(u, S) ==
    LET copies[t \in 0..Cardinality(Tasks)] ==
          IF t = 0 THEN <<>>
          ELSE copies[t - 1] \o IF task[t].live /\ task[t].status \in S
                                THEN [i \in 1..assigned[t][u] |-> t] ELSE <<>>
    IN copies[Cardinality(Tasks)]
StatusPage(u, S, page, size) ==
    [data |-> Page(Listing(u, S), page, size),
     totalPages |-> TotalPages(Len(Listing(u, S)), size)]

\* findByProject, getStaffTasksByProject
StaffTasksByProject(u, p) == {t \in TasksOf(p) : assigned[t][u] > 0}

\* findByLoginStaffTask, for who heads no department: of oneself when no member
\* is named, of everyone for 'all'; who has no row at all is shown every task
LoginTasks(me, asked, S) ==
    LET wanted == {t \in Live : task[t].status \in S}
        target == IF asked = None THEN me ELSE asked
    IN IF asked = "all" THEN wanted
       ELSE IF Rows(target, TaskStatus) = 0 THEN wanted
       ELSE {t \in wanted : assigned[t][target] > 0}

-----------------------------------------------------------------------------
(* checkTaskDeadlines, at midnight: hours are counted from the first one *)

Midnights == {24 * d : d \in 0..(Horizon \div 24 + 1)}
DeadlineNotice(due, now, status) ==
    IF status \in {"Completed", "Passed_Test"} THEN None
    ELSE CASE due <= now -> "overdue"
           [] due > now /\ due - now <= 6 -> "approaching"
           [] OTHER -> None

-----------------------------------------------------------------------------

\* Rounding could show a project that is one task short of complete as complete
\* from forty tasks on; and a task that stays open past its due date is
\* announced as overdue by the next midnight, as approaching at most once, and
\* never when it is completed.
RoundingAndDeadlines ==
    /\ \A n \in 1..39, status \in TaskStatus \ Completed :
         DerivedStatus(Mean(100 * (n - 1) + Progress(status), n)) # "completed"
    /\ \A due \in 0..Horizon :
         /\ \E now \in Midnights : /\ now - due \in 0..23
                                   /\ DeadlineNotice(due, now, "In_progress") = "overdue"
         /\ Cardinality({now \in Midnights :
                DeadlineNotice(due, now, "In_progress") = "approaching"}) <= 1
         /\ \A now \in Midnights : DeadlineNotice(due, now, "Completed") = None

\* The views of one state fit together, while handlers are half way too.
\*  - A project of fewer than forty tasks is shown as completed when
\*    isProjectCompleted says so, and the statistics count each project once.
\*  - The parts of a dashboard are its total, and a row is on one page of one
\*    of the lists; the level agrees with the rate.
\*  - Who has tasks is shown those, in the list and by project alike.
\*  - Who may comment on a task may update it, the same people in a project.
WorkViewsAgree ==
    /\ \A p \in Projects : Cardinality(TasksOf(p)) \in 1..39 =>
         (DerivedStatus(ProjectProgress(p)) = "completed" <=> IsProjectCompleted(p))
    /\ LET stats == ProjectStats IN
         stats.total = stats.planning + stats.active + stats.completed
    /\ \A u \in Staff : LET d == Dashboard(u) IN
         /\ d.total = d.active + d.open + d.done
         /\ CompletionLevel(u) = "GREEN" => d.capacity = "Low"
         /\ d.total > 0 =>
              /\ \A size \in 1..2 : \A S \in {Active, Open, Completed} :
                   Rows(u, S) = MapThenSumSet(
                       LAMBDA page : Len(StatusPage(u, S, page, size).data),
                       1..StatusPage(u, S, 1, size).totalPages)
              /\ \A p \in Projects :
                   StaffTasksByProject(u, p) = LoginTasks(u, None, TaskStatus) \cap TasksOf(p)
         /\ \A t \in Live : /\ MayComment(u, t) => MayUpdate(u, t)
                            /\ task[t].project # None =>
                                 (MayUpdate(u, t) => MayComment(u, t))
    /\ calls = MaxWorkCalls => RoundingAndDeadlines
================================================================================
