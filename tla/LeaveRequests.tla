------------------------------ MODULE LeaveRequests ------------------------------
(***************************************************************************)
(* LeaveRequestService: requests for leave, their edits by the applicant   *)
(* and the decisions on them.  A day is a number.  Mails and pushes, whose *)
(* failures are caught, texts and files are left out.                      *)
(***************************************************************************)
EXTENDS Handlers

CONSTANTS
    Requests,         \* ids of table leave_requests, 1..n
    Days              \* days a request can name

ASSUME LeaveConstants ==
    /\ IsFiniteSet(Requests) /\ Days \subseteq Int
    /\ \A S \in SUBSET Requests : S # None

VARIABLES
    leave,      \* the rows
    decided,    \* history: the status and the reviewer of the last decision
    emptied,    \* history: requests whose supervisors an edit took away
    stated,     \* history: requests for which the applicant stated what the
                \* service computes or a decision sets
    mixed       \* history: rows written between the look and the write of a save

leaveVars == <<leave, decided, emptied, stated, mixed>>

LeaveStatuses == {"Pending", "Approved", "Declined", "Cancelled", "Completed"}
NoLeave == [live |-> FALSE, staffId |-> None, start |-> 0, end |-> 0, days |-> 0,
            handover |-> None, supervisors |-> {}, status |-> "Pending", reviewer |-> None]
Filed == {r \in Requests : leave[r].live}

LeaveInit ==
    /\ leave = [r \in Requests |-> NoLeave]
    /\ decided = [r \in Requests |-> <<"Pending", None>>]
    /\ emptied = {} /\ stated = {} /\ mixed = {}

\* durationDays = end.diff(start, 'day') + 1
Duration(start, end) == end - start + 1

\* The body of a request is JSON that nothing validates: besides the columns of
\* CreateLeaveRequestDto it may name a status, a length and a reviewer.  None is
\* what it leaves out; ids and relations in it are not modelled.
Or(given, old) == IF given = None THEN old ELSE given
States(dto) == dto.status # None \/ dto.days # None \/ dto.reviewer # None
Stating(r, dto) == stated' = IF States(dto) THEN stated \cup {r} ELSE stated

\* create: the supervisors are those of the request and those whom the names in
\* the applicant's employment find; there must be one.  The dto is spread into
\* the row, the length is computed after it.
Listed(list, found) == list \cup found
Supervisors(list, found) == (list \cup found) \ {Ghost}
CreateLeave(u, v, dto, found) ==
    LET r == Cardinality(Filed) + 1 IN
    /\ r \in Requests /\ v # Ghost
    /\ Duration(dto.start, dto.end) > 0
    /\ Supervisors(dto.list, found) # {}
    /\ Quick(<<"leave", r>>)
    /\ leave' = [leave EXCEPT ![r] =
           [live |-> TRUE, staffId |-> u, start |-> dto.start, end |-> dto.end,
            days |-> Duration(dto.start, dto.end), handover |-> v,
            supervisors |-> Supervisors(dto.list, found),
            status |-> Or(dto.status, "Pending"), reviewer |-> dto.reviewer]]
    /\ Stating(r, dto)
    /\ UNCHANGED <<decided, emptied, mixed>>

\* update, by the applicant, whatever the status: a list of supervisors replaces
\* the old one, even by nothing; one date of two is taken from the row; what the
\* dto names is assigned last.  The handover it names is not written: the row is
\* loaded with the relation, which save takes before the column.
DatedByStart(dto) == dto.start # None
Dated(dto) == dto.start # None \/ dto.end # None
Edited(row, dto) ==
    LET from == Or(dto.start, row.start)  to == Or(dto.end, row.end) IN
    [row EXCEPT !.start = from, !.end = to,
                !.days = Or(dto.days, IF Dated(dto) THEN Duration(from, to) ELSE @),
                !.supervisors = IF dto.list = None THEN @ ELSE dto.list \ {Ghost},
                !.status = Or(dto.status, @), !.reviewer = Or(dto.reviewer, @)]
AskUpdateLeave(s, r, dto) ==
    LET row == Edited(leave[r], dto) IN
    /\ r \in Filed /\ (Dated(dto) => Duration(row.start, row.end) > 0)
    /\ Take(s, At("leave.update", <<"leave", r>>, row.staffId, row))
    /\ emptied' = IF dto.list # None /\ row.supervisors = {} THEN emptied \cup {r} ELSE emptied
    /\ Stating(r, dto)
    /\ UNCHANGED <<leave, decided, mixed>>

\* updateStatus, from any status to any other.  The reviewer may be an
\* administrator, whose id need not be one of staff.
AskUpdateStatus(s, r, u, status) ==
    /\ r \in Filed
    /\ Take(s, At("leave.decide", <<"leave", r>>, u,
                  [leave[r] EXCEPT !.status = status, !.reviewer = u]))
    /\ UNCHANGED leaveVars

\* The save of either: a look at the row, then a write of what differed from it.
\* A decision has not loaded the supervisors, so its save leaves them alone.
LookAtLeave(s) ==
    LET h == desk[s]  row == leave[h.on[2]] IN
    /\ h.pc \in {"leave.update", "leave.decide"}
    /\ Goes(s, [h EXCEPT !.pc = "leave.write",
                  !.object = [decides |-> h.pc = "leave.decide", was |-> row,
                    want |-> IF h.pc = "leave.update" THEN h.object
                             ELSE [h.object EXCEPT !.supervisors = row.supervisors]]])
    /\ UNCHANGED leaveVars

\* The supervisors are rows of a join table, inserted and deleted one by one
Written(row, was, want) ==
    [Merge(row, was, want) EXCEPT
        !.supervisors = (row.supervisors \ (was.supervisors \ want.supervisors))
                          \cup (want.supervisors \ was.supervisors)]

\* The key of the join table, or that of the reviewer, refuses the write
LeaveRefused(row, was, want) ==
    \/ (want.supervisors \ was.supervisors) \cap row.supervisors # {}
    \/ want.reviewer \notin Staff \cup {None}
SaveLeave(s) ==
    LET h == desk[s]  r == h.on[2]  was == h.object.was  want == h.object.want IN
    /\ h.pc = "leave.write"
    /\ IF LeaveRefused(leave[r], was, want)
       THEN UNCHANGED leaveVars
       ELSE /\ leave' = [leave EXCEPT ![r] = Written(@, was, want)]
            /\ decided' = IF h.object.decides
                          THEN [decided EXCEPT ![r] = <<want.status, h.by>>] ELSE decided
            /\ mixed' = IF \E t \in Slots \ {s} : desk[t].on = h.on /\ desk[t].pc = "leave.write"
                        THEN mixed \cup {r} ELSE mixed
            /\ UNCHANGED <<emptied, stated>>
    /\ Ends(s)

\* Bodies of requests: one that edits, and one that states
Edits == [start : Days \cup {None}, end : Days \cup {None},
          list : {None, {Ghost}} \cup {{u} : u \in Staff},
          status : {None}, days : {None}, reviewer : {None}]
Statements == [start : {None}, end : {None}, list : {None}, status : {"Approved"},
               days : {None, 0}, reviewer : {None} \cup Staff]
Filings == [start : Days, end : Days, list : {{}, {Ghost}} \cup {{u} : u \in Staff},
            status : {None, "Approved"}, days : {None}, reviewer : {None}]

LeaveStep ==
    \/ /\ calls > 0
       /\ \E u \in Staff, v \in Staff \cup {Ghost}, dto \in Filings, found \in {{}, Staff} :
              CreateLeave(u, v, dto, found)
    \/ \E s \in Slots :
         \/ /\ Ready(s)
            /\ \E r \in Requests :
                 \/ \E dto \in Edits \cup Statements : AskUpdateLeave(s, r, dto)
                 \/ \E u \in Staff \cup {Ghost}, status \in LeaveStatuses :
                      AskUpdateStatus(s, r, u, status)
         \/ LookAtLeave(s) \/ SaveLeave(s)

-----------------------------------------------------------------------------
(* The lists and the counts *)

MyLeave(u, status) ==
    {r \in Filed : leave[r].staffId = u
                   /\ (status \in {None, "All"} \/ leave[r].status = status)}
ForSupervisor(u) == {r \in Filed : u \in leave[r].supervisors}
IsSupervisor(u) == \E r \in Filed : u \in leave[r].supervisors
\* findSupervisorMe refuses who supervises nobody
SupervisorMe(u, status) ==
    IF IsSupervisor(u)
    THEN {r \in ForSupervisor(u) : status \in {None, "All"} \/ leave[r].status = status}
    ELSE None

LeaveCount(rows) ==
    [x \in LeaveStatuses \cup {"total"} |->
        Cardinality({r \in rows : x \in {"total", leave[r].status}})]
AdminStats == LeaveCount(Filed)
SupervisorStats(u) == LeaveCount(ForSupervisor(u))
StaffStats(u) == LeaveCount(MyLeave(u, None))

-----------------------------------------------------------------------------
(* Properties *)

\* Types; nobody supervises or applies who is not staff
LeaveTypeOK ==
    /\ leave \in [Requests ->
         [live : BOOLEAN, staffId : Staff \cup {None}, start : Days \cup {0},
          end : Days \cup {0}, days : Int, handover : Staff \cup {None},
          supervisors : SUBSET Staff, status : LeaveStatuses, reviewer : Staff \cup {None}]]
    /\ decided \in [Requests -> LeaveStatuses \X (Staff \cup {None})]
    /\ emptied \subseteq Requests /\ stated \subseteq Requests /\ mixed \subseteq Requests

\* A request lasts from its first to its last day, at least one, and somebody
\* supervises it unless an edit named nobody, although edits and decisions save
\* rows they read before others changed them: as long as no save wrote between
\* the look and the write of another, and the body did not state a length.  It
\* carries the last decision and who took it, unless a request crossed that one
\* and saved the row it had read.  The counts agree.
LeaveHolds ==
    /\ \A r \in Filed :
         /\ r \notin mixed \cup stated =>
              leave[r].days = leave[r].end + 1 - leave[r].start /\ leave[r].days > 0
         /\ r \notin mixed => (leave[r].supervisors = {} => r \in emptied)
         /\ <<"leave", r>> \notin crossed /\ r \notin stated =>
              decided[r] = <<leave[r].status, leave[r].reviewer>>
    /\ AdminStats.total = MapThenSumSet(LAMBDA u : StaffStats(u).total, Staff)
    /\ AdminStats.total = MapThenSumSet(LAMBDA x : AdminStats[x], LeaveStatuses)
    /\ \A u \in Staff : SupervisorMe(u, None) = None <=> SupervisorStats(u)["total"] = 0
================================================================================
