-------------------------------- MODULE Calls --------------------------------
(***************************************************************************)
(* Voice and video calls: CallsGateway (socket handlers, the in-memory     *)
(* maps, the 30 s ring timeout) over CallsService (the calls and           *)
(* call_participants tables).  The server is one Node process: a handler   *)
(* runs alone between two awaits, and every await on the database lets     *)
(* other handlers run.  A handler in flight is a record in req[slot] that  *)
(* carries what it read; one action is one database call, or the           *)
(* synchronous tail after the last one.                                    *)
(*                                                                         *)
(* TypeORM is external: save(entity) first SELECTs the row, which is an    *)
(* await of its own, and then UPDATEs the columns in which the entity      *)
(* differs from it; so a row read before an await overwrites what others   *)
(* wrote since, and two saves that both look before either writes leave    *)
(* columns of both.  Call has participants with cascade: true, so          *)
(* callRepo.save(call) treats the participants of the snapshot likewise,   *)
(* and unlinks the rows it finds that the snapshot has not.                *)
(***************************************************************************)
EXTENDS Naturals, FiniteSets, Sequences

CONSTANTS
    Users,        \* staff ids
    Sockets,      \* socket.io client ids; each connects once
    Owner,        \* the user whose token a socket presents
    Calls,        \* ids of call rows
    Slots,        \* how many handlers may be in flight
    Scopes,       \* call scopes clients ask for
    Messages,     \* the client messages a behaviour has
    Copies,       \* numbers of the rows one user may have in one call
    MaxMessages,  \* client messages handled in a behaviour
    MaxFaults,    \* database errors in a behaviour
    MaxRestarts,  \* process restarts in a behaviour
    MaxEdits,     \* changes of the conversation's membership
    Founders,     \* members of the conversation at the start
    Deleted       \* a conversation without a row

ASSUME CallsAssumption ==
    /\ Owner \in [Sockets -> Users]
    /\ Scopes \subseteq {"dm", "group"}
    /\ Messages \subseteq {"initiate", "accept", "decline", "end", "add", "kick"}
    /\ Copies \subseteq Nat /\ 1 \in Copies
    /\ MaxMessages \in Nat /\ MaxFaults \in Nat
    /\ MaxRestarts \in Nat /\ MaxEdits \in Nat
    /\ Founders \subseteq Users

VARIABLES
    call,          \* table calls
    part,          \* table call_participants, per call and row id
    conv,          \* members of the conversation, or deleted
    active,        \* activeCalls: which Set object a call has, 0 = no entry
    roster,        \* the Set objects activeCalls has held for a call
    info,          \* callParticipantInfo: users with an entry
    room,          \* sockets in the room call:<id>
    ringTimeouts,  \* keys of the map of timeout handles
    armed,         \* calls whose Node timer has not fired
    sock,          \* state of each socket
    told,          \* users whose client has learnt the call's id
    req,           \* the handler in each slot
    left,          \* what remains of each bound
    mixed          \* history: calls of which a save left a row it did not mean

dbVars    == <<call, part, mixed>>
mapVars   == <<active, roster, info>>
timerVars == <<ringTimeouts, armed>>
vars == <<call, part, conv, active, roster, info, room, ringTimeouts, armed,
          sock, told, req, left, mixed>>

-----------------------------------------------------------------------------
(* Rows and handlers *)

RowIds == Users \X Copies

Settled    == {"ended", "missed", "declined"}
CallStatus == {"ringing", "active"} \cup Settled
CallRow == [status : CallStatus \cup {"none"}, scope : {"dm", "group"},
            initiator : Users \cup {"none"},
            startedAt : BOOLEAN, endedAt : BOOLEAN, duration : BOOLEAN]
NoCall == [status |-> "none", scope |-> "dm", initiator |-> "none",
           startedAt |-> FALSE, endedAt |-> FALSE, duration |-> FALSE]

PartStatus == {"invited", "joined", "left", "declined", "missed"}
PartRow == [status : PartStatus \cup {"none"}, linked : BOOLEAN]
NoPart == [status |-> "none", linked |-> FALSE]
Invited == [NoPart EXCEPT !.status = "invited", !.linked = TRUE]
Joined(p)     == [p EXCEPT !.status = "joined"]
HasLeft(p)    == [p EXCEPT !.status = "left"]

\* What a save of a call will write: columns of the row, the status and the link
\* of participants in the snapshot, and the rows it unlinks
Columns == {"status", "startedAt", "endedAt", "duration"}
Difference == [cols : SUBSET Columns, status : SUBSET RowIds,
               link : SUBSET RowIds, unlink : SUBSET RowIds]
Nothing == [cols |-> {}, status |-> {}, link |-> {}, unlink |-> {}]

Ops == {"initiate", "accept", "decline", "end", "add", "kick", "timer",
        "disconnect"}
Pcs == {"load", "insertCall", "insertSelf", "insertParts", "announce",
        "saveCall", "writeCall", "savePart", "saveRest", "check", "insert",
        "finish", "ended", "left"}
Request == [op : Ops \cup {"idle"}, pc : Pcs \cup {"idle"},
            user : Users \cup {"none"}, target : Users \cup {"none"},
            sock : Sockets \cup {"none"}, call : Calls \cup {"none"},
            row : CallRow, parts : [RowIds -> PartRow], todo : SUBSET RowIds,
            diff : Difference, gone : BOOLEAN, held : Nat, seen : SUBSET (Calls \X Nat)]
Idle == [op |-> "idle", pc |-> "idle", user |-> "none", target |-> "none",
         sock |-> "none", call |-> "none", row |-> NoCall,
         parts |-> [i \in RowIds |-> NoPart], todo |-> {},
         diff |-> Nothing, gone |-> FALSE, held |-> 0, seen |-> {}]

\* Mutant: the query leaves out participants who are gone
LinkedRowsPresent(c) == [i \in RowIds |->
    IF part[c][i].linked /\ part[c][i].status # "left" THEN part[c][i] ELSE NoPart]

\* What findOne with the relation participants returns of the table
LinkedRows(c) == [i \in RowIds |->
                    IF part[c][i].linked THEN part[c][i] ELSE NoPart]
Rows(parts)      == {i \in RowIds : parts[i].status # "none"}
RowsOf(parts, u) == {i \in Rows(parts) : i[1] = u}
JoinedRows(parts) == {i \in RowIds : parts[i].status = "joined"}

\* The SELECT of callRepo.save(call).  Times are not told apart here: two that
\* are there may be the same or not.
Differs(r, times) ==
    [cols   |-> {x \in Columns : r.row[x] # call[r.call][x]} \cup times,
     status |-> {i \in Rows(r.parts) : r.parts[i].status # part[r.call][i].status},
     link   |-> {i \in Rows(r.parts) : ~part[r.call][i].linked},
     unlink |-> Rows(LinkedRows(r.call)) \ Rows(r.parts)]

Saving == {"accept", "decline", "end", "disconnect", "timer"}

LookAtCall(s) ==
    LET r == req[s] IN
    /\ r.op \in Saving /\ r.pc = "saveCall"
    /\ \E times \in SUBSET {x \in Columns \ {"status"} : r.row[x] /\ call[r.call][x]} :
         req' = [req EXCEPT ![s].pc = "writeCall", ![s].diff = Differs(r, times)]
    /\ UNCHANGED <<dbVars, mapVars, timerVars, conv, room, sock, told, left>>

\* The UPDATEs of callRepo.save(call): the row and, by cascade, the participants
SaveCall(c, row, parts, diff) ==
    /\ call' = [call EXCEPT
                  ![c].status    = IF "status" \in diff.cols THEN row.status ELSE @,
                  ![c].startedAt = IF "startedAt" \in diff.cols THEN row.startedAt ELSE @,
                  ![c].endedAt   = IF "endedAt" \in diff.cols THEN row.endedAt ELSE @,
                  ![c].duration  = IF "duration" \in diff.cols THEN row.duration ELSE @]
    /\ part' = [part EXCEPT ![c] = [i \in RowIds |->
                  [status |-> IF i \in diff.status THEN parts[i].status ELSE @[i].status,
                   linked |-> (@[i].linked \/ i \in diff.link) /\ i \notin diff.unlink]]]
    /\ mixed' = IF call'[c] = row THEN mixed ELSE mixed \cup {c}

Written(r) == [r EXCEPT !.diff = Nothing]

\* participantRepo.save(participant): its status, not its call.  joinedAt and
\* leftAt are left out: nothing reads them, and one column cannot mix.
SavePart(c, i, row) ==
    /\ part' = [part EXCEPT ![c][i] =
                 [row EXCEPT !.linked = part[c][i].linked]]
    /\ UNCHANGED <<call, mixed>>

Init ==
    /\ call = [c \in Calls |-> NoCall]
    /\ part = [c \in Calls |-> [i \in RowIds |-> NoPart]]
    /\ conv = Founders
    /\ active = [c \in Calls |-> 0]
    /\ roster = [c \in Calls |-> <<>>]
    /\ info = [c \in Calls |-> {}]
    /\ room = [c \in Calls |-> {}]
    /\ ringTimeouts = {}
    /\ armed = {}
    /\ sock = [k \in Sockets |-> "new"]
    /\ told = [c \in Calls |-> {}]
    /\ req = [s \in Slots |-> Idle]
    /\ mixed = {}
    /\ left = [messages |-> MaxMessages, faults |-> MaxFaults,
               restarts |-> MaxRestarts, edits |-> MaxEdits]

-----------------------------------------------------------------------------
(* Helpers of the handlers *)

At(s, op, pc) == req[s].op = op /\ req[s].pc = pc

\* Handlers that run CallsService.endCall
Ending(s, pc) == At(s, "end", pc) \/ At(s, "disconnect", pc)

Goto(s, r) == req' = [req EXCEPT ![s] = r]
Done(s)    == Goto(s, Idle)

StillOpen(K) == {k \in K : sock[k] = "open"}
Online(u) == \E k \in StillOpen(Sockets) : Owner[k] = u

\* A client message reaches its handler, which reads socketToUser first
Receive(s, k, r) ==
    /\ req[s] = Idle
    /\ sock[k] = "open"
    /\ r.op \in Messages
    /\ left.messages > 0
    /\ left' = [left EXCEPT !.messages = @ - 1]
    /\ Goto(s, [r EXCEPT !.user = Owner[k], !.sock = k, !.pc = "load"])
    /\ UNCHANGED <<dbVars, mapVars, timerVars, conv, room, sock, told>>

\* The steps that touch only the tables and the handler's own record
OnlyDb == UNCHANGED <<mapVars, timerVars, conv, room, sock, told, left>>
OnlyReq == OnlyDb /\ UNCHANGED dbVars

ClearTimer(c) ==
    /\ ringTimeouts' = ringTimeouts \ {c}
    /\ armed' = armed \ {c}

\* Mutant: the participant info outlives the entry
DropEntryOnly(c) ==
    /\ active' = [active EXCEPT ![c] = 0]
    /\ UNCHANGED info

\* activeCalls.delete and callParticipantInfo.delete
DropEntry(c) ==
    /\ active' = [active EXCEPT ![c] = 0]
    /\ info' = [info EXCEPT ![c] = {}]

InRoster(u, c) == active[c] # 0 /\ u \in roster[c][active[c]]

-----------------------------------------------------------------------------
(* call:initiate.  createCall saves the call, then each participant. *)

Initiate(s, k, c, scope) ==
    /\ call[c] = NoCall /\ \A t \in Slots : req[t].call # c
    /\ Receive(s, k, [Idle EXCEPT !.op = "initiate", !.call = c,
                                  !.row = [NoCall EXCEPT !.scope = scope]])

InitiateLoad(s) ==
    /\ At(s, "initiate", "load")
    /\ IF conv = Deleted
       THEN Done(s)
       ELSE Goto(s, [req[s] EXCEPT
                !.pc = "insertCall", !.todo = (conv \ {req[s].user}) \X {1},
                !.row = [@ EXCEPT !.status = "ringing",
                                  !.initiator = req[s].user]])
    /\ OnlyReq

InitiateInsertCall(s) ==
    /\ At(s, "initiate", "insertCall")
    /\ call' = [call EXCEPT ![req[s].call] = req[s].row]
    /\ Goto(s, [req[s] EXCEPT !.pc = "insertSelf"])
    /\ OnlyDb /\ UNCHANGED <<part, mixed>>

InitiateInsertSelf(s) ==
    /\ At(s, "initiate", "insertSelf")
    /\ part' = [part EXCEPT ![req[s].call][<<req[s].user, 1>>] = Joined(Invited)]
    /\ Goto(s, [req[s] EXCEPT
                  !.pc = IF req[s].todo = {} THEN "announce" ELSE "insertParts"])
    /\ OnlyDb /\ UNCHANGED <<call, mixed>>

InitiateInsertPart(s) ==
    /\ At(s, "initiate", "insertParts")
    /\ \E i \in req[s].todo :
         /\ part' = [part EXCEPT ![req[s].call][i] = Invited]
         /\ Goto(s, [req[s] EXCEPT
                       !.todo = @ \ {i},
                       !.pc = IF req[s].todo = {i} THEN "announce" ELSE @])
    /\ OnlyDb /\ UNCHANGED <<call, mixed>>

\* The conversation is read again, the members then present are rung, and the
\* timeout is set; a conversation deleted meanwhile leaves the call unannounced
InitiateAnnounce(s) ==
    /\ At(s, "initiate", "announce")
    /\ LET c == req[s].call  u == req[s].user  k == req[s].sock IN
       IF conv = Deleted
       THEN UNCHANGED <<mapVars, timerVars, room, told>>
       ELSE /\ active' = [active EXCEPT ![c] = 1]
            /\ roster' = [roster EXCEPT ![c] = <<{u}>>]
            /\ info' = [info EXCEPT ![c] = {u}]
            /\ room' = [room EXCEPT ![c] = @ \cup StillOpen({k})]
            /\ told' = [told EXCEPT ![c] = {m \in conv \ {u} : Online(m)}
                                           \cup {u : j \in StillOpen({k})}]
            /\ ringTimeouts' = ringTimeouts \cup {c}
            /\ armed' = armed \cup {c}
    /\ Done(s)
    /\ UNCHANGED <<dbVars, conv, sock, left>>

-----------------------------------------------------------------------------
(* call:accept *)

Accept(s, k, c) ==
    /\ Owner[k] \in told[c]
    /\ Receive(s, k, [Idle EXCEPT !.op = "accept", !.call = c])

AfterAccept(r) == IF RowsOf(r.parts, r.user) = {} THEN "finish" ELSE "savePart"

\* Mutant: the first accept is not told from a later one
AcceptLoadAnyStatus(s) ==
    /\ At(s, "accept", "load")
    /\ LET c == req[s].call IN
       Goto(s, [req[s] EXCEPT !.parts = LinkedRows(c), !.pc = "saveCall",
                              !.row = [call[c] EXCEPT !.status = "active",
                                                      !.startedAt = TRUE]])
    /\ OnlyReq

AcceptLoad(s) ==
    /\ At(s, "accept", "load")
    /\ LET c == req[s].call
           r == [req[s] EXCEPT !.row = call[c], !.parts = LinkedRows(c)] IN
       IF call[c].status = "ringing"
       THEN Goto(s, [r EXCEPT !.pc = "saveCall",
                              !.row = [@ EXCEPT !.status = "active",
                                                !.startedAt = TRUE]])
       ELSE Goto(s, [r EXCEPT !.pc = AfterAccept(r)])
    /\ OnlyReq

AcceptSaveCall(s) ==
    /\ At(s, "accept", "writeCall")
    /\ SaveCall(req[s].call, req[s].row, req[s].parts, req[s].diff)
    /\ Goto(s, [Written(req[s]) EXCEPT !.pc = AfterAccept(req[s])])
    /\ OnlyDb

AcceptSavePart(s) ==
    /\ At(s, "accept", "savePart")
    /\ \E i \in RowsOf(req[s].parts, req[s].user) :
         SavePart(req[s].call, i, Joined(req[s].parts[i]))
    /\ Goto(s, [req[s] EXCEPT !.pc = "finish"])
    /\ OnlyDb

AcceptFinish(s) ==
    /\ At(s, "accept", "finish")
    /\ LET c == req[s].call  u == req[s].user  k == req[s].sock IN
       /\ ClearTimer(c)
       /\ IF active[c] = 0
          THEN /\ roster' = [roster EXCEPT ![c] = Append(@, {u})]
               /\ active' = [active EXCEPT ![c] = Len(roster[c]) + 1]
          ELSE /\ roster' = [roster EXCEPT ![c][active[c]] = @ \cup {u}]
               /\ UNCHANGED active
       /\ \E userInfo \in BOOLEAN :
            info' = IF userInfo THEN [info EXCEPT ![c] = @ \cup {u}] ELSE info
       /\ room' = [room EXCEPT ![c] = @ \cup StillOpen({k})]
    /\ Done(s)
    /\ UNCHANGED <<dbVars, conv, sock, told, left>>

-----------------------------------------------------------------------------
(* call:decline *)

Decline(s, k, c) ==
    /\ Owner[k] \in told[c]
    /\ Receive(s, k, [Idle EXCEPT !.op = "decline", !.call = c])

\* Mutant: a status the column's enum does not have
Rejected(row) == [row EXCEPT !.status = "rejected", !.endedAt = TRUE]

Declined(row) == [row EXCEPT !.status = "declined", !.endedAt = TRUE]

\* Mutant: the call is saved whatever its scope, a group's as it was read
AfterDeclineSaves(r) ==
    [r EXCEPT !.pc = "saveCall",
              !.row = IF @.scope = "dm" THEN Declined(@) ELSE @]

AfterDecline(r) == IF r.row.scope = "dm"
                   THEN [r EXCEPT !.pc = "saveCall", !.row = Declined(@)]
                   ELSE [r EXCEPT !.pc = "finish"]

DeclineLoad(s) ==
    /\ At(s, "decline", "load")
    /\ LET c == req[s].call
           r == [req[s] EXCEPT !.row = call[c], !.parts = LinkedRows(c)] IN
       Goto(s, IF RowsOf(r.parts, r.user) = {} THEN AfterDecline(r)
                                               ELSE [r EXCEPT !.pc = "savePart"])
    /\ OnlyReq

DeclineSavePart(s) ==
    /\ At(s, "decline", "savePart")
    /\ \E i \in RowsOf(req[s].parts, req[s].user) :
         LET p == [req[s].parts[i] EXCEPT !.status = "declined"] IN
         /\ SavePart(req[s].call, i, p)
         /\ Goto(s, AfterDecline([req[s] EXCEPT !.parts[i] = p]))
    /\ OnlyDb

DeclineSaveCall(s) ==
    /\ At(s, "decline", "writeCall")
    /\ SaveCall(req[s].call, req[s].row, req[s].parts, req[s].diff)
    /\ Goto(s, [Written(req[s]) EXCEPT !.pc = "finish"])
    /\ OnlyDb

\* Mutant: a decline stops the timer of a group call too
DeclineFinishClears(s) ==
    /\ At(s, "decline", "finish")
    /\ ClearTimer(req[s].call)
    /\ Done(s)
    /\ UNCHANGED <<dbVars, mapVars, conv, room, sock, told, left>>

DeclineFinish(s) ==
    /\ At(s, "decline", "finish")
    /\ IF req[s].row.scope = "dm" THEN ClearTimer(req[s].call)
                                  ELSE UNCHANGED timerVars
    /\ Done(s)
    /\ UNCHANGED <<dbVars, mapVars, conv, room, sock, told, left>>

-----------------------------------------------------------------------------
(* call:end, and the same service call on the last disconnect of a user *)

End(s, k, c) ==
    /\ Owner[k] \in told[c]
    /\ Receive(s, k, [Idle EXCEPT !.op = "end", !.call = c])

Ended(row) == [row EXCEPT !.status = "ended", !.endedAt = TRUE,
                          !.duration = @ \/ row.startedAt]

\* Nobody is JOINED in what was read before the leave, or the call is a DM
AfterLeave(r) == IF r.row.scope = "dm" \/ JoinedRows(r.parts) = {}
                 THEN [r EXCEPT !.pc = "saveCall", !.row = Ended(@)]
                 ELSE [r EXCEPT !.pc = "left"]

EndLoad(s) ==
    /\ Ending(s, "load")
    /\ LET c == req[s].call
           r == [req[s] EXCEPT !.row = call[c], !.parts = LinkedRows(c)]
           own == RowsOf(r.parts, r.user) IN
       \/ /\ own \ JoinedRows(r.parts) # {} \/ own = {}
          /\ Goto(s, AfterLeave(r))
       \/ \E i \in own \cap JoinedRows(r.parts) :
            Goto(s, [r EXCEPT !.pc = "savePart", !.todo = {i},
                              !.parts[i] = HasLeft(@)])
    /\ OnlyReq

EndSavePart(s) ==
    /\ Ending(s, "savePart")
    /\ \E i \in req[s].todo : SavePart(req[s].call, i, req[s].parts[i])
    /\ Goto(s, AfterLeave([req[s] EXCEPT !.todo = {}]))
    /\ OnlyDb

EndSaveCall(s) ==
    /\ Ending(s, "writeCall")
    /\ SaveCall(req[s].call, req[s].row, req[s].parts, req[s].diff)
    /\ LET rest == JoinedRows(req[s].parts) IN
       Goto(s, [Written(req[s]) EXCEPT !.todo = rest,
                                       !.pc = IF rest = {} THEN "ended" ELSE "saveRest"])
    /\ OnlyDb

EndSaveRest(s) ==
    /\ Ending(s, "saveRest")
    /\ \E i \in req[s].todo :
         /\ SavePart(req[s].call, i, HasLeft(req[s].parts[i]))
         /\ Goto(s, [req[s] EXCEPT
                       !.todo = @ \ {i},
                       !.pc = IF req[s].todo = {i} THEN "ended" ELSE @])
    /\ OnlyDb

EndFinish(s) ==
    /\ \/ /\ At(s, "end", "ended")
          /\ ClearTimer(req[s].call)
          /\ DropEntry(req[s].call)
          /\ UNCHANGED <<roster, room>>
       \/ /\ At(s, "end", "left")
          /\ LET c == req[s].call  u == req[s].user IN
             /\ room' = [room EXCEPT ![c] = @ \ {req[s].sock}]
             /\ IF active[c] = 0
                THEN /\ info' = [info EXCEPT ![c] = @ \ {u}]
                     /\ UNCHANGED <<active, roster>>
                ELSE /\ roster' = [roster EXCEPT ![c][active[c]] = @ \ {u}]
                     /\ IF roster[c][active[c]] \subseteq {u}
                        THEN DropEntry(c)
                        ELSE /\ info' = [info EXCEPT ![c] = @ \ {u}]
                             /\ UNCHANGED active
          /\ UNCHANGED timerVars
    /\ Done(s)
    /\ UNCHANGED <<dbVars, conv, sock, told, left>>

\* The loop of handleDisconnect over activeCalls: the next entry that lists
\* the user, or the end of the handler
Sweep(r, act, ros) ==
    LET next == {c \in Calls : /\ act[c] # 0 /\ r.user \in ros[c][act[c]]
                               /\ <<c, act[c]>> \notin r.seen} IN
    IF next = {}
    THEN {Idle}
    ELSE {[r EXCEPT !.pc = "load", !.call = c, !.held = act[c], !.todo = {},
                    !.row = NoCall,
                    !.seen = @ \cup {<<c, act[c]>>}] : c \in next}

Connect(k) ==
    /\ sock[k] = "new"
    /\ sock' = [sock EXCEPT ![k] = "open"]
    /\ UNCHANGED <<dbVars, mapVars, timerVars, conv, room, told, req, left>>

Disconnect(s, k) ==
    /\ sock[k] = "open"
    /\ req[s] = Idle
    /\ sock' = [sock EXCEPT ![k] = "closed"]
    /\ room' = [c \in Calls |-> room[c] \ {k}]
    /\ IF \E j \in StillOpen(Sockets) \ {k} : Owner[j] = Owner[k]
       THEN UNCHANGED req
       ELSE \E r \in Sweep([Idle EXCEPT !.op = "disconnect", !.user = Owner[k],
                                        !.sock = k], active, roster) :
              Goto(s, r)
    /\ UNCHANGED <<dbVars, mapVars, timerVars, conv, told, left>>

\* held is the Set object the loop read; the entry may be another one by now
DisconnectFinish(s) ==
    /\ LET c == req[s].call  u == req[s].user  h == req[s].held IN
       \/ /\ At(s, "disconnect", "ended")
          /\ DropEntry(c)
          /\ UNCHANGED roster
       \/ /\ At(s, "disconnect", "left")
          /\ roster' = [roster EXCEPT ![c][h] = @ \ {u}]
          /\ IF roster[c][h] \subseteq {u}
             THEN DropEntry(c)
             ELSE /\ info' = [info EXCEPT ![c] = @ \ {u}]
                  /\ UNCHANGED active
    /\ \E r \in Sweep(req[s], active', roster') : Goto(s, r)
    /\ UNCHANGED <<dbVars, timerVars, conv, room, sock, told, left>>

-----------------------------------------------------------------------------
(* call:add-participant and call:remove-participant *)

AddParticipant(s, k, c, u) ==
    /\ Owner[k] \in told[c]
    /\ Receive(s, k, [Idle EXCEPT !.op = "add", !.call = c, !.target = u])

\* Only the initiator, only in a group call, only a user without a row
AddLoad(s) ==
    /\ At(s, "add", "load")
    /\ LET c == req[s].call  r == req[s] IN
       IF /\ call[c].initiator = r.user
          /\ call[c].scope = "group"
          /\ RowsOf(LinkedRows(c), r.target) = {}
       THEN Goto(s, [r EXCEPT !.pc = "insert", !.gone = (conv = Deleted)])
       ELSE Done(s)
    /\ OnlyReq

\* The tail reads call.conversation.id, which throws when it was deleted
AddInsert(s) ==
    /\ At(s, "add", "insert")
    /\ \E n \in Copies :
         LET c == req[s].call  i == <<req[s].target, n>> IN
         /\ part[c][i] = NoPart
         /\ \A m \in Copies : m < n => part[c][<<req[s].target, m>>] # NoPart
         /\ part' = [part EXCEPT ![c][i] = Invited]
    /\ IF req[s].gone THEN Done(s)
                      ELSE Goto(s, [req[s] EXCEPT !.pc = "finish"])
    /\ OnlyDb /\ UNCHANGED <<call, mixed>>

AddFinish(s) ==
    /\ At(s, "add", "finish")
    /\ told' = IF Online(req[s].target)
               THEN [told EXCEPT ![req[s].call] = @ \cup {req[s].target}]
               ELSE told
    /\ Done(s)
    /\ UNCHANGED <<dbVars, mapVars, timerVars, conv, room, sock, left>>

RemoveParticipant(s, k, c, u) ==
    /\ Owner[k] \in told[c]
    /\ Receive(s, k, [Idle EXCEPT !.op = "kick", !.call = c, !.target = u])

KickLoad(s) ==
    /\ At(s, "kick", "load")
    /\ LET c == req[s].call  r == req[s]  parts == LinkedRows(c)
           there == RowsOf(parts, r.target) \cap JoinedRows(parts) IN
       IF /\ call[c].initiator = r.user
          /\ call[c].scope = "group"
          /\ there # {}
       THEN \E i \in there :
              Goto(s, [r EXCEPT !.pc = "savePart", !.parts = parts, !.todo = {i}])
       ELSE Done(s)
    /\ OnlyReq

KickSavePart(s) ==
    /\ At(s, "kick", "savePart")
    /\ \E i \in req[s].todo :
         SavePart(req[s].call, i, HasLeft(req[s].parts[i]))
    /\ Goto(s, [req[s] EXCEPT !.pc = "finish"])
    /\ OnlyDb

\* Mutant: the gateway removes the one who asked
KickFinishSender(s) ==
    /\ At(s, "kick", "finish")
    /\ LET c == req[s].call  u == req[s].user IN
       /\ roster' = IF active[c] = 0 THEN roster
                    ELSE [roster EXCEPT ![c][active[c]] = @ \ {u}]
       /\ info' = [info EXCEPT ![c] = @ \ {u}]
    /\ Done(s)
    /\ UNCHANGED <<dbVars, timerVars, active, conv, room, sock, told, left>>

KickFinish(s) ==
    /\ At(s, "kick", "finish")
    /\ LET c == req[s].call  u == req[s].target IN
       /\ roster' = IF active[c] = 0 THEN roster
                    ELSE [roster EXCEPT ![c][active[c]] = @ \ {u}]
       /\ info' = [info EXCEPT ![c] = @ \ {u}]
    /\ Done(s)
    /\ UNCHANGED <<dbVars, timerVars, active, conv, room, sock, told, left>>

-----------------------------------------------------------------------------
(* The 30 s timeout: getCall, then markMissed, which reads the call again *)

TimerFires(s, c) ==
    /\ req[s] = Idle
    /\ c \in armed
    /\ armed' = armed \ {c}
    /\ Goto(s, [Idle EXCEPT !.op = "timer", !.pc = "check", !.call = c])
    /\ UNCHANGED <<dbVars, mapVars, ringTimeouts, conv, room, sock, told, left>>

TimerCheck(s) ==
    /\ At(s, "timer", "check")
    /\ Goto(s, [req[s] EXCEPT !.pc = IF call[req[s].call].status = "ringing"
                                     THEN "load" ELSE "finish"])
    /\ OnlyReq

\* Mutant: markMissed sets the end time and forgets the status
MissedEndOnly(row) == [row EXCEPT !.endedAt = TRUE]

Missed(row) == [row EXCEPT !.status = "missed", !.endedAt = TRUE]

TimerLoad(s) ==
    /\ At(s, "timer", "load")
    /\ LET c == req[s].call IN
       Goto(s, IF call[c].status = "ringing"
               THEN [req[s] EXCEPT !.pc = "saveCall", !.row = Missed(call[c]),
                                   !.parts = LinkedRows(c)]
               ELSE [req[s] EXCEPT !.pc = "finish"])
    /\ OnlyReq

TimerSaveCall(s) ==
    /\ At(s, "timer", "writeCall")
    /\ SaveCall(req[s].call, req[s].row, req[s].parts, req[s].diff)
    /\ LET rest == {i \in RowIds : req[s].parts[i].status = "invited"} IN
       Goto(s, [Written(req[s]) EXCEPT !.todo = rest,
                                       !.pc = IF rest = {} THEN "finish" ELSE "saveRest"])
    /\ OnlyDb

TimerSaveRest(s) ==
    /\ At(s, "timer", "saveRest")
    /\ \E i \in req[s].todo :
         /\ SavePart(req[s].call, i,
                     [req[s].parts[i] EXCEPT !.status = "missed"])
         /\ Goto(s, [req[s] EXCEPT
                       !.todo = @ \ {i},
                       !.pc = IF req[s].todo = {i} THEN "finish" ELSE @])
    /\ OnlyDb

TimerFinish(s) ==
    /\ At(s, "timer", "finish")
    /\ ringTimeouts' = ringTimeouts \ {req[s].call}
    /\ Done(s)
    /\ UNCHANGED <<dbVars, mapVars, armed, conv, room, sock, told, left>>

-----------------------------------------------------------------------------
(* What happens around the handlers *)

\* A database call rejects: the handler's catch.  The timer still forgets its
\* handle; handleDisconnect goes on with the user's next call.
Fault(s) ==
    /\ req[s].pc \notin {"idle", "finish", "ended", "left"}
    /\ left.faults > 0
    /\ left' = [left EXCEPT !.faults = @ - 1]
    /\ IF req[s].op = "disconnect"
       THEN \E r \in Sweep(req[s], active, roster) : Goto(s, r)
       ELSE Done(s)
    /\ ringTimeouts' = IF req[s].op = "timer"
                       THEN ringTimeouts \ {req[s].call} ELSE ringTimeouts
    /\ UNCHANGED <<dbVars, mapVars, armed, conv, room, sock, told>>

\* The process stops: the maps, the timers, the handlers in flight and the
\* sockets are gone, the tables stay
Restart ==
    /\ left.restarts > 0
    /\ left' = [left EXCEPT !.restarts = @ - 1]
    /\ active' = [c \in Calls |-> 0]
    /\ roster' = [c \in Calls |-> <<>>]
    /\ info' = [c \in Calls |-> {}]
    /\ room' = [c \in Calls |-> {}]
    /\ ringTimeouts' = {}
    /\ armed' = {}
    /\ sock' = [k \in Sockets |-> IF sock[k] = "open" THEN "closed" ELSE sock[k]]
    /\ req' = [s \in Slots |-> Idle]
    /\ UNCHANGED <<dbVars, conv, told>>

\* The chat module adds and removes members and deletes conversations
EditConversation ==
    /\ left.edits > 0
    /\ left' = [left EXCEPT !.edits = @ - 1]
    /\ conv # Deleted
    /\ \/ \E u \in Users \ conv : conv' = conv \cup {u}
       \/ \E u \in conv : conv' = conv \ {u}
       \/ conv' = Deleted
    /\ UNCHANGED <<dbVars, mapVars, timerVars, room, sock, told, req>>

Message(s, k) ==
    \E c \in Calls :
      \/ \E scope \in Scopes : Initiate(s, k, c, scope)
      \/ Accept(s, k, c) \/ Decline(s, k, c) \/ End(s, k, c)
      \/ \E u \in Users : AddParticipant(s, k, c, u) \/ RemoveParticipant(s, k, c, u)

InitiateStep(s) == \/ InitiateLoad(s) \/ InitiateInsertCall(s)
                   \/ InitiateInsertSelf(s) \/ InitiateInsertPart(s)
                   \/ InitiateAnnounce(s)
AcceptStep(s)  == \/ AcceptLoad(s) \/ AcceptSaveCall(s) \/ AcceptSavePart(s)
                  \/ AcceptFinish(s)
DeclineStep(s) == \/ DeclineLoad(s) \/ DeclineSavePart(s) \/ DeclineSaveCall(s)
                  \/ DeclineFinish(s)
EndStep(s)     == \/ EndLoad(s) \/ EndSavePart(s) \/ EndSaveCall(s)
                  \/ EndSaveRest(s) \/ EndFinish(s) \/ DisconnectFinish(s)
AddKickStep(s) == \/ AddLoad(s) \/ AddInsert(s) \/ AddFinish(s)
                  \/ KickLoad(s) \/ KickSavePart(s) \/ KickFinish(s)
TimerStep(s)   == \/ TimerCheck(s) \/ TimerLoad(s) \/ TimerSaveCall(s)
                  \/ TimerSaveRest(s) \/ TimerFinish(s)

\* The next step of the handler in a slot
Step(s) == \/ InitiateStep(s) \/ AcceptStep(s) \/ DeclineStep(s)
           \/ EndStep(s) \/ AddKickStep(s) \/ TimerStep(s) \/ LookAtCall(s)

Next ==
    \/ \E s \in Slots : \/ Step(s) \/ Fault(s)
                        \/ \E k \in Sockets : Message(s, k) \/ Disconnect(s, k)
                        \/ \E c \in Calls : TimerFires(s, c)
    \/ \E k \in Sockets : Connect(k)
    \/ Restart
    \/ EditConversation

Spec == Init /\ [][Next]_vars

\* The event loop resumes a handler whose query was answered and runs a timer
\* that is due; nothing makes clients send or sockets close
Fairness == /\ \A s \in Slots : WF_vars(Step(s))
            /\ \A c \in Calls : WF_vars(\E s \in Slots : TimerFires(s, c))
FairSpec == Spec /\ Fairness

-----------------------------------------------------------------------------
(* Properties *)

\* The variables keep their types
TypeOK ==
    /\ call \in [Calls -> CallRow]
    /\ part \in [Calls -> [RowIds -> PartRow]]
    /\ conv \in (SUBSET Users) \cup {Deleted}
    /\ active \in [Calls -> Nat]
    /\ roster \in [Calls -> Seq(SUBSET Users)]
    /\ \A c \in Calls : active[c] \in 0 .. Len(roster[c])
    /\ info \in [Calls -> SUBSET Users]
    /\ room \in [Calls -> SUBSET Sockets]
    /\ ringTimeouts \subseteq Calls
    /\ armed \subseteq Calls
    /\ sock \in [Sockets -> {"new", "open", "closed"}]
    /\ told \in [Calls -> SUBSET Users]
    /\ req \in [Slots -> Request]
    /\ mixed \subseteq Calls
    /\ left \in [messages : Nat, faults : Nat, restarts : Nat, edits : Nat]

\* The columns of a call row agree, however stale the row a handler writes
\* back: an end time exactly on a settled call, a duration only with a start.
\* Left out are calls of which another save changed the row between the two
\* halves of a save, whose columns then are of both.
RowAgrees(row) == /\ row.endedAt <=> row.status \in Settled
                  /\ row.status = "active" => row.startedAt
                  /\ row.duration => row.startedAt /\ row.endedAt
ColumnsAgree == \A c \in Calls \ mixed : RowAgrees(call[c])

\* A call that was answered or settled never rings again, although handlers
\* write back rows they read while it rang
NeverRingsAgain ==
    [][\A c \in Calls : call[c].status \in Settled \cup {"active"}
                          => call'[c].status # "ringing"]_vars

Intact == left.faults = MaxFaults /\ left.restarts = MaxRestarts

\* While nothing failed and the process lived, a call whose ringing was
\* announced has its 30 s timer running, or the timer's callback about to
\* settle it
RingingIsTimed ==
    Intact => \A c \in Calls :
      call[c].status = "ringing" /\ roster[c] # <<>> =>
        \/ c \in armed
        \/ \E s \in Slots : req[s].call = c /\ req[s].op = "timer"
                              /\ req[s].pc \in {"check", "load", "saveCall", "writeCall"}

\* callParticipantInfo names nobody who is not in the call's activeCalls entry
InfoWithinRoster ==
    \A c \in Calls : \A u \in info[c] : InRoster(u, c)

\* The cascade of a stale callRepo.save unlinks only rows that
\* call:add-participant inserted, never one that createCall inserted
FoundingRowsStay ==
    MaxEdits = 0 =>
      \A c \in Calls, i \in RowIds :
        part[c][i].status # "none" /\ ~part[c][i].linked
          => i[1] \notin Founders \cup {call[c].initiator}

\* While nothing fails, a call that was announced stops ringing in the end:
\* it is answered, declined, ended or missed
RingingSettles ==
    \A c \in Calls : c \in armed ~> (call[c].status # "ringing" \/ ~Intact)

JoinedUsers(c) == {i[1] : i \in JoinedRows(LinkedRows(c))}

\* When handlers do not overlap (one slot), the tables behave as the
\* lifecycle says
Lifecycle == INSTANCE CallLifecycle WITH
    status <- [c \in Calls |-> call[c].status],
    scope  <- [c \in Calls |-> call[c].scope],
    joined <- [c \in Calls |-> JoinedUsers(c)]
FollowsLifecycle == Lifecycle!Spec

Quiet == \A s \in Slots : req[s] = Idle

\* Between handlers that did not overlap, and without faults, the table and
\* the gateway's map agree: a participant who is JOINED is in the call's entry
JoinedIsInRoster ==
    Intact /\ left.edits = MaxEdits /\ Quiet =>
      \A c \in Calls : roster[c] # <<>> =>
        \A u \in JoinedUsers(c) : InRoster(u, c)

-----------------------------------------------------------------------------
(* What comments in the code claim and overlapping handlers break *)

\* calls.gateway.ts:196 "Auto-timeout after 30 seconds if nobody answers":
\* the timeout never marks a call that was answered as missed
AnsweredIsNotMissed ==
    [][\A c \in Calls : call[c].status = "active"
                          => call'[c].status # "missed"]_vars

\* calls.service.ts:149 "A group call ends if 0 active participants remain"
GroupEndsWhenEmpty ==
    Intact /\ Quiet => \A c \in Calls :
      /\ call[c].scope = "group" /\ call[c].status = "active"
      => JoinedRows(LinkedRows(c)) # {}

=============================================================================
