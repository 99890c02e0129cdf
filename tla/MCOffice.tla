-------------------------------- MODULE MCOffice --------------------------------
EXTENDS LeaveRequests, Pipeline, Marks, Threads, ScheduledMessages, Notices, TLC

CONSTANTS a, b, s1, s2, e1, d1, d2

\* The services share no table, so a behaviour is of one of them
VARIABLES scene
officeVars == <<handlerVars, leaveVars, ticketVars, pipelineVars, markVars, threadVars,
                scheduleVars, noticeVars, scene>>
Scenes == {"leave", "tickets", "ideas", "marks", "threads", "schedules", "notices"}

\* Requests in a behaviour
Most == [leave |-> 3, tickets |-> 3, ideas |-> 5, marks |-> 4, threads |-> 4,
         schedules |-> 3, notices |-> 3]

Init == /\ LeaveInit /\ TicketInit /\ PipelineInit /\ MarksInit /\ ThreadInit
        /\ ScheduleInit /\ NoticesInit
        /\ scene \in Scenes /\ HandlersInit(Most[scene])
        /\ heads[d2] = {} /\ heads[d1] # {b} /\ chiefs \subseteq {b}
        /\ scene # "tickets" => chiefs = {} /\ heads[d1] = {}

Next ==
    /\ UNCHANGED scene
    /\ CASE scene = "leave" ->
              LeaveStep /\ UNCHANGED <<ticketVars, pipelineVars, markVars, threadVars,
                                       scheduleVars, noticeVars>>
         [] scene = "tickets" ->
              TicketStep /\ UNCHANGED <<leaveVars, pipelineVars, markVars, threadVars,
                                        scheduleVars, noticeVars>>
         [] scene = "ideas" ->
              PipelineStep /\ UNCHANGED <<leaveVars, ticketVars, markVars, threadVars,
                                          scheduleVars, noticeVars>>
         [] scene = "marks" ->
              MarkStep /\ UNCHANGED <<leaveVars, ticketVars, pipelineVars, threadVars,
                                      scheduleVars, noticeVars>>
         [] scene = "threads" ->
              ThreadStep /\ UNCHANGED <<leaveVars, ticketVars, pipelineVars, markVars,
                                        scheduleVars, noticeVars>>
         [] scene = "schedules" ->
              ScheduleStep /\ UNCHANGED <<leaveVars, ticketVars, pipelineVars, markVars,
                                          threadVars, noticeVars>>
         [] scene = "notices" ->
              NoticeStep /\ UNCHANGED <<leaveVars, ticketVars, pipelineVars, markVars,
                                        threadVars, scheduleVars>>
Spec == Init /\ [][Next]_officeVars

\* Types of all the rows: every id in them is one of its table
TypeOK ==
    /\ LeaveTypeOK
    /\ ticket \in [TicketIds -> [ref : 0..Cardinality(TicketIds), dept : Depts \cup {None},
                                 creator : Staff \cup {None}, status : TicketStatuses]]
    /\ idea \in [Ideas -> [ref : 0..Cardinality(Ideas), author : Staff \cup {None},
                         comments : 0..Most.ideas]]
    /\ rows \in [Kinds -> [Staff -> SUBSET (1..made)]]
    /\ reply \in [Replies -> [author : Staff \cup {None}, at : 0..clock]]
    /\ lastRead \in [Staff -> 0..clock]
    /\ schedule \in [Schedules -> [live : BOOLEAN, frequency : Frequencies, dayOfWeek : 0..2,
                                   active : BOOLEAN, lastRun : 0..day]]
    /\ tick.left \subseteq Schedules /\ unsure \subseteq Schedules
    /\ notices \in [NoticeIds -> [live : BOOLEAN, to : Staff \cup {None}, type : Types,
                                  isRead : BOOLEAN, related : BOOLEAN]]
    /\ announcement.selected \subseteq Staff /\ message.to \subseteq Staff
    /\ subscription \in [Endpoints -> Staff \cup {None}]
    /\ \A s \in Slots : desk[s].by \in Staff \cup {None, Ghost} /\ desk[s].todo \subseteq Staff
    /\ \A s \in Slots : desk[s].pc = "idle" <=> desk[s] = Idle
    /\ calls \in 0..Most[scene]

\* References can be drawn and are unique (Pipeline!RefsStayUsable), and the log
\* of a ticket tells its status (Tickets!LogTellsStatus, TicketListsAgree)
RefsAndLogsHold == RefsStayUsable /\ LogTellsStatus /\ TicketListsAgree

\* Readers and reactions are single rows (Marks!MarksAreSingle), and a reader of a
\* thread misses no reply (Threads!UnseenIsUnread)
MarksHold == MarksAreSingle /\ UnseenIsUnread

\* What a step may do to the notices and what they tell (Notices)
NoticesHold == [][MutedStaysQuiet /\ OnlyReadOnesGo /\ RepliesStay]_officeVars
Symmetry == Permutations(Slots)
================================================================================
