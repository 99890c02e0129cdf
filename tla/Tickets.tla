-------------------------------- MODULE Tickets --------------------------------
(***************************************************************************)
(* TicketingService: tickets to a department, their status and the log of  *)
(* what was done to them.  The heads of the departments, of which one may  *)
(* have several, and the staff with the role of project manager or the CEO *)
(* flag are fixed here; the texts, the priority, attachments and links are *)
(* left out.                                                               *)
(***************************************************************************)
EXTENDS Handlers

CONSTANTS
    TicketIds,        \* ids of table tickets, 1..n
    Depts             \* ids of departments

ASSUME TicketConstants ==
    TicketIds \subseteq Nat \ {0} /\ IsFiniteSet(TicketIds) /\ None \notin Staff

VARIABLES
    ticket,     \* the rows
    log,        \* the activities of each ticket, in order
    heads,      \* table headofdepartment: the heads of each department
    chiefs      \* who may complete any ticket

ticketVars == <<ticket, log, heads, chiefs>>

TicketStatuses == {"Open", "In_Progress", "Completed"}
NoTicket == [ref |-> 0, dept |-> None, creator |-> None, status |-> "Open"]
Opened == {t \in TicketIds : ticket[t].ref # 0}

TicketInit ==
    /\ ticket = [t \in TicketIds |-> NoTicket]
    /\ log = [t \in TicketIds |-> <<>>]
    /\ heads \in [Depts -> SUBSET Staff]
    /\ chiefs \in SUBSET Staff

\* generateTicketRef; the reference is unique
CountOfRows(n) == n
NextRef(n) == n + 1

\* createTicket: the reference, the row, then the first line of the log
AskCreateTicket(s, u, d) ==
    /\ Take(s, At("ticket.create", <<"ticket", 0>>, u,
                  [ref |-> NextRef(Cardinality(Opened)), dept |-> d, creator |-> u,
                   status |-> "Open"]))
    /\ UNCHANGED ticketVars
InsertTicket(s) ==
    LET h == desk[s]  t == Cardinality(Opened) + 1 IN
    /\ h.pc = "ticket.create"
    /\ IF \E x \in Opened : ticket[x].ref = h.object.ref
       THEN Ends(s) /\ UNCHANGED ticket
       ELSE /\ t \in TicketIds
            /\ ticket' = [ticket EXCEPT ![t] = h.object]
            /\ Goes(s, At("ticket.log", <<"ticket", t>>, h.by, [line |-> "created"]))
    /\ UNCHANGED <<log, heads, chiefs>>

\* updateTicket, by the creator: here the department
AskUpdateTicket(s, u, t, d) ==
    /\ t \in Opened /\ ticket[t].creator = u
    /\ Take(s, At("ticket.update", <<"ticket", t>>, u, [ticket[t] EXCEPT !.dept = d]))
    /\ UNCHANGED ticketVars

\* updateTicketStatus: to Completed only by a head of the department or a chief
IsHod(u, d) == u \in heads[d]
Anybody(u, t, status) == TRUE
MaySet(u, t, status) == status = "Completed" => IsHod(u, ticket[t].dept) \/ u \in chiefs
AskTicketStatus(s, u, t, status) ==
    /\ t \in Opened /\ MaySet(u, t, status)
    /\ Take(s, At("ticket.status", <<"ticket", t>>, u, [ticket[t] EXCEPT !.status = status]))
    /\ UNCHANGED ticketVars

\* save, of the row as loaded; then a line, which names the old and new status
SaveTicket(s) ==
    LET h == desk[s]  t == h.on[2] IN
    /\ h.pc \in {"ticket.update", "ticket.status"}
    /\ ticket' = [ticket EXCEPT ![t] = h.object]
    /\ Goes(s, [h EXCEPT !.pc = "ticket.log",
                  !.object = [line |-> IF h.pc = "ticket.update" THEN "updated"
                                       ELSE h.object.status]])
    /\ UNCHANGED <<log, heads, chiefs>>
LogTicket(s) ==
    LET h == desk[s] IN
    /\ h.pc = "ticket.log"
    /\ log' = [log EXCEPT ![h.on[2]] = Append(@, [line |-> h.object.line, author |-> h.by])]
    /\ Ends(s)
    /\ UNCHANGED <<ticket, heads, chiefs>>

\* addTicketComment, by anybody
AddTicketComment(u, t) ==
    /\ t \in Opened
    /\ Quick(<<"comment", t>>)
    /\ log' = [log EXCEPT ![t] = Append(@, [line |-> "comment", author |-> u])]
    /\ UNCHANGED <<ticket, heads, chiefs>>

TicketStep ==
    \/ \E s \in Slots :
         \/ /\ Ready(s)
            /\ \E u \in Staff :
                 \/ \E d \in Depts : AskCreateTicket(s, u, d)
                 \/ \E t \in TicketIds, d \in Depts : AskUpdateTicket(s, u, t, d)
                 \/ \E t \in TicketIds, x \in TicketStatuses : AskTicketStatus(s, u, t, x)
         \/ InsertTicket(s) \/ SaveTicket(s) \/ LogTicket(s)
    \/ calls > 0 /\ \E u \in Staff, t \in TicketIds : AddTicketComment(u, t)

-----------------------------------------------------------------------------
(* Who is told, and the lists *)

\* findOne of table headofdepartment, without an order: any of the heads
FoundHeads(d) == IF heads[d] = {} THEN {None} ELSE heads[d]

\* Of a new ticket h is told, the head that was found; of a new status the
\* creator; of a comment by a head the creator, of one by the creator h
ToldOfTicket(h) == {h} \ {None}
ToldOfStatus(u, t) == {ticket[t].creator} \ {u}
ToldOfComment(u, t, h) ==
    IF IsHod(u, ticket[t].dept) /\ ticket[t].creator # u THEN {ticket[t].creator}
    ELSE IF ticket[t].creator = u THEN {h} \ {None, u}
    ELSE {}

MyTickets(u) == {t \in Opened : ticket[t].creator = u}
ReceivedTickets(u) == {t \in Opened : IsHod(u, ticket[t].dept)}
\* getTicketStats counts all the tickets, whoever asks
TicketStats == [x \in TicketStatuses |-> Cardinality({t \in Opened : ticket[t].status = x})]

-----------------------------------------------------------------------------
(* Properties *)

Lines(t) == {k \in DOMAIN log[t] : log[t][k].line \in TicketStatuses}
LastLine(t) == log[t][CHOOSE k \in Lines(t) : \A j \in Lines(t) : j <= k]

\* Once its handlers are done the last status in the log of a ticket is its
\* status, and who completed it was entitled to, unless two requests crossed
\* and the later save took the earlier one back.
LogTellsStatus ==
    \A t \in Opened :
        ~Busy(<<"ticket", t>>) /\ <<"ticket", t>> \notin crossed =>
            /\ Lines(t) = {} => ticket[t].status = "Open"
            /\ Lines(t) # {} => LastLine(t).line = ticket[t].status
            /\ ticket[t].status = "Completed" =>
                 LastLine(t).author \in chiefs \cup UNION {heads[d] : d \in Depts}

\* Every ticket is in one list of its creator and in one count.  Whichever of
\* several heads is told of it finds it in the list of what was received, and if
\* it is in such a list somebody was told.  Nobody is told of their own doing.
TicketListsAgree ==
    /\ \A t \in Opened :
         /\ {u \in Staff : t \in MyTickets(u)} = {ticket[t].creator}
         /\ \A h \in FoundHeads(ticket[t].dept) :
              /\ \A u \in ToldOfTicket(h) : t \in ReceivedTickets(u)
              /\ ToldOfTicket(h) = {} => \A u \in Staff : t \notin ReceivedTickets(u)
              /\ \A u \in Staff : u \notin ToldOfStatus(u, t) \cup ToldOfComment(u, t, h)
    /\ MapThenSumSet(LAMBDA x : TicketStats[x], TicketStatuses) = Cardinality(Opened)
================================================================================
