----------------------------- MODULE CallsProofs -----------------------------
(***************************************************************************)
(* Proofs about Calls, for any users, sockets, calls, slots and bounds:    *)
(* types, and then the calls table, the gateway's maps and the ring timer. *)
(* The first invariant of those says what a handler in flight may still    *)
(* write: the row it carries agrees with itself, and a row about to be     *)
(* saved no longer rings.  Then who has entries in the maps, which step    *)
(* has the timer of a ringing call, and which rows of the founders a stale *)
(* row still names, so that its cascade leaves them linked.                *)
(***************************************************************************)
EXTENDS Calls, TLAPS

\* A loaded row, and a row a handler is about to write, are rows
LEMMA RowTypes ==
    ASSUME TypeOK, NEW c \in Calls
    PROVE  /\ LinkedRows(c) \in [RowIds -> PartRow]
           /\ call[c] \in CallRow
           /\ Declined(call[c]) \in CallRow
           /\ Ended(call[c]) \in CallRow
           /\ Missed(call[c]) \in CallRow
           /\ NoPart \in PartRow
  <1>1. NoPart \in PartRow
    BY DEF NoPart, PartRow
  <1>2. LinkedRows(c) \in [RowIds -> PartRow]
    <2>1. \A i \in RowIds : part[c][i] \in PartRow
      BY DEF TypeOK
    <2>2. QED
      BY <1>1, <2>1 DEF LinkedRows
  <1>3. call[c] \in CallRow
    BY DEF TypeOK
  <1>4. Declined(call[c]) \in CallRow /\ Missed(call[c]) \in CallRow
    BY <1>3 DEF CallRow, CallStatus, Settled, Declined, Missed
  <1>5. Ended(call[c]) \in CallRow
    <2>1. (call[c].duration \/ call[c].startedAt) \in BOOLEAN
      BY <1>3 DEF CallRow
    <2>2. QED
      BY <1>3, <2>1 DEF CallRow, CallStatus, Settled, Ended
  <1>6. QED
    BY <1>1, <1>2, <1>3, <1>4, <1>5

LEMMA IdleType == Idle \in Request
  BY DEF Idle, Request, Ops, Pcs, NoCall, NoPart, CallRow, CallStatus, Settled,
         PartRow, PartStatus, Nothing, Difference, Columns

LEMMA PartTypes ==
    ASSUME NEW p \in PartRow
    PROVE  /\ \A b \in BOOLEAN : [p EXCEPT !.linked = b] \in PartRow
           /\ \A st \in PartStatus : [p EXCEPT !.status = st] \in PartRow
           /\ Joined(p) \in PartRow
           /\ HasLeft(p) \in PartRow
           /\ Joined(Invited) \in PartRow
           /\ Invited \in PartRow
  BY DEF PartRow, PartStatus, Joined, HasLeft, Invited, NoPart

\* Saving a call writes rows of the right type
LEMMA SaveCallType ==
    ASSUME TypeOK, NEW c \in Calls, NEW row \in CallRow,
           NEW parts \in [RowIds -> PartRow], NEW diff, SaveCall(c, row, parts, diff)
    PROVE  /\ call' \in [Calls -> CallRow]
           /\ part' \in [Calls -> [RowIds -> PartRow]]
           /\ mixed' \subseteq Calls
  <1>1. call' \in [Calls -> CallRow]
    <2> DEFINE new == [call[c] EXCEPT
                 !.status    = IF "status" \in diff.cols THEN row.status ELSE @,
                 !.startedAt = IF "startedAt" \in diff.cols THEN row.startedAt ELSE @,
                 !.endedAt   = IF "endedAt" \in diff.cols THEN row.endedAt ELSE @,
                 !.duration  = IF "duration" \in diff.cols THEN row.duration ELSE @]
    <2>1. call \in [Calls -> CallRow] /\ call[c] \in CallRow
      BY DEF TypeOK
    <2>2. new \in CallRow
      BY <2>1 DEF CallRow
    <2>3. call' = [call EXCEPT ![c] = new]
      BY <2>1 DEF SaveCall
    <2> HIDE DEF new
    <2>4. QED
      BY <2>1, <2>2, <2>3
  <1> DEFINE New == [i \in RowIds |->
                 [status |-> IF i \in diff.status THEN parts[i].status
                                                  ELSE part[c][i].status,
                  linked |-> (part[c][i].linked \/ i \in diff.link)
                                /\ i \notin diff.unlink]]
  <1>2. New \in [RowIds -> PartRow]
    <2>1. \A i \in RowIds : part[c][i] \in PartRow /\ parts[i] \in PartRow
      BY DEF TypeOK
    <2>2. QED
      BY <2>1 DEF PartRow
  <1>3. part' = [part EXCEPT ![c] = New]
    BY DEF SaveCall, TypeOK
  <1>4. part' \in [Calls -> [RowIds -> PartRow]]
    <2> HIDE DEF New
    <2> QED BY <1>2, <1>3 DEF TypeOK
  <1>5. mixed' \subseteq Calls
    BY DEF SaveCall, TypeOK
  <1>6. QED
    BY <1>1, <1>4, <1>5

LEMMA SavePartType ==
    ASSUME TypeOK, NEW c \in Calls, NEW i \in RowIds, NEW row \in PartRow,
           SavePart(c, i, row)
    PROVE  /\ call' \in [Calls -> CallRow]
           /\ part' \in [Calls -> [RowIds -> PartRow]]
           /\ mixed' \subseteq Calls
  <1> DEFINE new == [row EXCEPT !.linked = part[c][i].linked]
  <1>1. part[c] \in [RowIds -> PartRow] /\ part[c][i].linked \in BOOLEAN
    BY DEF TypeOK, PartRow
  <1>2. new \in PartRow
    BY <1>1, PartTypes
  <1>3. /\ part' = [part EXCEPT ![c] = [part[c] EXCEPT ![i] = new]]
        /\ call' = call /\ mixed' = mixed
    BY DEF SavePart
  <1>4. QED
    <2> HIDE DEF new
    <2> QED BY <1>1, <1>2, <1>3 DEF TypeOK

\* A handler's record stays a request when a step edits it
LEMMA RequestEdits ==
    ASSUME NEW r \in Request
    PROVE  /\ \A pc \in Pcs : [r EXCEPT !.pc = pc] \in Request
           /\ \A T \in SUBSET RowIds : [r EXCEPT !.todo = T] \in Request
           /\ \A row \in CallRow : [r EXCEPT !.row = row] \in Request
           /\ \A ps \in [RowIds -> PartRow] : [r EXCEPT !.parts = ps] \in Request
  <1>1. \A pc \in Pcs : [r EXCEPT !.pc = pc] \in Request
    BY DEF Request
  <1>2. \A T \in SUBSET RowIds : [r EXCEPT !.todo = T] \in Request
    BY DEF Request
  <1>3. \A row \in CallRow : [r EXCEPT !.row = row] \in Request
    BY DEF Request
  <1>4. \A ps \in [RowIds -> PartRow] : [r EXCEPT !.parts = ps] \in Request
    BY DEF Request
  <1>5. QED
    BY <1>1, <1>2, <1>3, <1>4

LEMMA GotoType ==
    ASSUME TypeOK, NEW s \in Slots, NEW r \in Request, Goto(s, r)
    PROVE  req' \in [Slots -> Request]
  BY DEF TypeOK, Goto

LEMMA DoneType ==
    ASSUME TypeOK, NEW s \in Slots, Done(s)
    PROVE  req' \in [Slots -> Request]
  BY IdleType DEF TypeOK, Done, Goto

LEMMA OnlyDbType ==
    ASSUME TypeOK, OnlyDb, req' \in [Slots -> Request],
           call' \in [Calls -> CallRow],
           part' \in [Calls -> [RowIds -> PartRow]], mixed' \subseteq Calls
    PROVE  TypeOK'
  BY DEF TypeOK, OnlyDb, mapVars, timerVars

LEMMA OnlyReqType ==
    ASSUME TypeOK, OnlyReq, req' \in [Slots -> Request]
    PROVE  TypeOK'
  BY DEF TypeOK, OnlyReq, OnlyDb, mapVars, timerVars, dbVars

LEMMA ReceiveType ==
    ASSUME TypeOK, CallsAssumption, NEW s \in Slots, NEW k \in Sockets,
           NEW r \in Request, Receive(s, k, r)
    PROVE  TypeOK'
  <1>1. [r EXCEPT !.user = Owner[k], !.sock = k, !.pc = "load"] \in Request
    <2>1. Owner[k] \in Users
      BY DEF CallsAssumption
    <2>2. QED
      BY <2>1 DEF Request, Pcs
  <1>2. req' \in [Slots -> Request]
    BY <1>1, GotoType DEF Receive
  <1>3. left' \in [messages : Nat, faults : Nat, restarts : Nat, edits : Nat]
    <2>1. left.messages - 1 \in Nat
      BY DEF TypeOK, Receive
    <2>2. QED
      BY <2>1 DEF TypeOK, Receive
  <1>4. QED
    BY <1>2, <1>3 DEF TypeOK, Receive, dbVars, mapVars, timerVars

-----------------------------------------------------------------------------
(* A handler in flight has its call, its user and its target *)

HandlerOK ==
    \A s \in Slots :
      /\ req[s].op # "idle" => req[s].call \in Calls
      /\ req[s].op \notin {"idle", "timer"} =>
           req[s].user \in Users /\ req[s].sock \in Sockets
      /\ req[s].op \in {"add", "kick"} => req[s].target \in Users

\* Every step but the first of a handler keeps who it works for
SameHandler(s, r) == /\ r.op = req[s].op /\ r.call = req[s].call
                     /\ r.user = req[s].user /\ r.sock = req[s].sock
                     /\ r.target = req[s].target

LEMMA GotoHandler ==
    ASSUME TypeOK, HandlerOK, NEW s \in Slots, NEW r \in Request, Goto(s, r),
           SameHandler(s, r)
    PROVE  HandlerOK' /\ req' \in [Slots -> Request]
  BY DEF TypeOK, HandlerOK, SameHandler, Goto

LEMMA DoneHandler ==
    ASSUME TypeOK, HandlerOK, NEW s \in Slots, Done(s)
    PROVE  HandlerOK' /\ req' \in [Slots -> Request]
  <1>1. Idle.op = "idle"
    BY DEF Idle
  <1>2. QED
    BY <1>1, DoneType DEF TypeOK, HandlerOK, Done, Goto

LEMMA ReceiveHandler ==
    ASSUME TypeOK, HandlerOK, CallsAssumption, NEW s \in Slots,
           NEW k \in Sockets, NEW r \in Request, Receive(s, k, r),
           r.call \in Calls, r.op \in {"add", "kick"} => r.target \in Users
    PROVE  HandlerOK'
  <1>1. Owner[k] \in Users
    BY DEF CallsAssumption
  <1>2. QED
    BY <1>1 DEF TypeOK, HandlerOK, Receive, Goto, Request

\* The record after a save forgets only what the save found
LEMMA WrittenSame ==
    ASSUME NEW s \in Slots, req[s] \in Request, NEW w, w = Written(req[s])
    PROVE  /\ w \in Request /\ SameHandler(s, w)
           /\ w.pc = req[s].pc /\ w.row = req[s].row /\ w.parts = req[s].parts
           /\ w.todo = req[s].todo /\ w.held = req[s].held /\ w.seen = req[s].seen
           /\ w.gone = req[s].gone /\ w.diff = Nothing
  <1>1. Nothing \in Difference
    BY DEF Nothing, Difference
  <1> HIDE DEF Nothing, Difference
  <1>2. QED
    BY <1>1, Zenon DEF Written, Request, SameHandler

\* The handler's record as a step finds it
LEMMA HandlerTypes ==
    ASSUME TypeOK, HandlerOK, NEW s \in Slots, req[s].op # "idle"
    PROVE  /\ req[s] \in Request
           /\ req[s].call \in Calls
           /\ req[s].row \in CallRow
           /\ req[s].parts \in [RowIds -> PartRow]
           /\ req[s].todo \in SUBSET RowIds
           /\ req[s].diff \in Difference
           /\ req[s].op # "timer" => req[s].user \in Users /\ req[s].sock \in Sockets
           /\ req[s].op \in {"add", "kick"} => req[s].target \in Users
  BY DEF TypeOK, HandlerOK, Request

\* What the type theorem shows of every step
Typed == TypeOK /\ HandlerOK

LEMMA MessageTyped ==
    ASSUME Typed, CallsAssumption, NEW s \in Slots, NEW k \in Sockets, Message(s, k)
    PROVE  Typed'
  <1>1. PICK c \in Calls : \/ \E scope \in Scopes : Initiate(s, k, c, scope)
                           \/ Accept(s, k, c) \/ Decline(s, k, c) \/ End(s, k, c)
                           \/ \E u \in Users : \/ AddParticipant(s, k, c, u)
                                               \/ RemoveParticipant(s, k, c, u)
    BY DEF Message
  <1>2. \A op \in Ops : [Idle EXCEPT !.op = op, !.call = c] \in Request
    BY IdleType DEF Request
  <1>3. \A op \in Ops, u \in Users :
          [Idle EXCEPT !.op = op, !.call = c, !.target = u] \in Request
    BY IdleType DEF Request
  <1>4. \A scope \in Scopes :
          [Idle EXCEPT !.op = "initiate", !.call = c,
                       !.row = [NoCall EXCEPT !.scope = scope]] \in Request
    <2> TAKE scope \in Scopes
    <2>1. [NoCall EXCEPT !.scope = scope] \in CallRow
      BY DEF CallsAssumption, NoCall, CallRow, CallStatus, Settled
    <2>2. QED
      BY <2>1, IdleType DEF Request, Ops
  <1>5. {"accept", "decline", "end", "add", "kick"} \subseteq Ops
    BY DEF Ops
  <1> USE DEF Typed
  <1>6. CASE \E scope \in Scopes : Initiate(s, k, c, scope)
    BY <1>4, <1>6, ReceiveType, ReceiveHandler DEF Initiate, Idle
  <1>7. CASE Accept(s, k, c)
    BY <1>2, <1>5, <1>7, ReceiveType, ReceiveHandler DEF Accept, Idle
  <1>8. CASE Decline(s, k, c)
    BY <1>2, <1>5, <1>8, ReceiveType, ReceiveHandler DEF Decline, Idle
  <1>9. CASE End(s, k, c)
    BY <1>2, <1>5, <1>9, ReceiveType, ReceiveHandler DEF End, Idle
  <1>10. CASE \E u \in Users : AddParticipant(s, k, c, u)
    BY <1>3, <1>5, <1>10, ReceiveType, ReceiveHandler DEF AddParticipant, Idle
  <1>11. CASE \E u \in Users : RemoveParticipant(s, k, c, u)
    BY <1>3, <1>5, <1>11, ReceiveType, ReceiveHandler DEF RemoveParticipant, Idle
  <1>12. QED
    BY <1>1, <1>6, <1>7, <1>8, <1>9, <1>10, <1>11

LEMMA InitiateTyped ==
    ASSUME Typed, CallsAssumption, NEW s \in Slots, InitiateStep(s)
    PROVE  Typed'
  <1> USE DEF Typed
  <1> DEFINE c == req[s].call
  <1>0. req[s].op = "initiate"
    BY DEF InitiateStep, InitiateLoad, InitiateInsertCall, InitiateInsertSelf,
           InitiateInsertPart, InitiateAnnounce, At
  <1>a. /\ req[s] \in Request /\ c \in Calls /\ req[s].user \in Users
        /\ req[s].row \in CallRow /\ req[s].todo \in SUBSET RowIds
    BY <1>0, HandlerTypes
  <1>b. 1 \in Copies
    BY DEF CallsAssumption
  <1>1. CASE InitiateLoad(s)
    <2>1. CASE conv = Deleted
      BY <1>1, <2>1, DoneHandler, OnlyReqType DEF InitiateLoad
    <2>2. CASE conv # Deleted
      <3> DEFINE row == [req[s].row EXCEPT !.status = "ringing",
                                           !.initiator = req[s].user]
                 T == (conv \ {req[s].user}) \X {1}
                 r == [req[s] EXCEPT !.pc = "insertCall", !.todo = T, !.row = row]
      <3>1. row \in CallRow
        BY <1>a DEF CallRow, CallStatus
      <3>2. T \in SUBSET RowIds
        BY <1>b, <2>2 DEF TypeOK, RowIds
      <3>3. r \in Request /\ SameHandler(s, r)
        <4> HIDE DEF row, T
        <4> QED BY <1>a, <3>1, <3>2 DEF Request, Pcs, SameHandler
      <3>4. Goto(s, r)
        BY <1>1, <2>2 DEF InitiateLoad
      <3>5. QED
        BY <1>1, <3>3, <3>4, GotoHandler, OnlyReqType DEF InitiateLoad
    <2>3. QED
      BY <2>1, <2>2
  <1>2. CASE InitiateInsertCall(s)
    <2> DEFINE r == [req[s] EXCEPT !.pc = "insertSelf"]
    <2>1. r \in Request /\ SameHandler(s, r)
      BY <1>a DEF Request, Pcs, SameHandler
    <2>2. call' \in [Calls -> CallRow] /\ part' = part
      BY <1>2, <1>a DEF InitiateInsertCall, TypeOK
    <2>3. QED
      BY <1>2, <2>1, <2>2, GotoHandler, OnlyDbType DEF InitiateInsertCall, TypeOK
  <1>3. CASE InitiateInsertSelf(s)
    <2> DEFINE r == [req[s] EXCEPT
                  !.pc = IF req[s].todo = {} THEN "announce" ELSE "insertParts"]
    <2>1. r \in Request /\ SameHandler(s, r)
      BY <1>a DEF Request, Pcs, SameHandler
    <2>2. Joined(Invited) \in PartRow /\ <<req[s].user, 1>> \in RowIds
      BY <1>a, <1>b, PartTypes, NoPart \in PartRow DEF RowIds, NoPart, PartRow
    <2>3. part' \in [Calls -> [RowIds -> PartRow]] /\ call' = call
      BY <1>3, <1>a, <2>2 DEF InitiateInsertSelf, TypeOK
    <2>4. QED
      BY <1>3, <2>1, <2>3, GotoHandler, OnlyDbType DEF InitiateInsertSelf, TypeOK
  <1>4. CASE InitiateInsertPart(s)
    <2>1. PICK i \in req[s].todo :
            /\ part' = [part EXCEPT ![req[s].call][i] = Invited]
            /\ Goto(s, [req[s] EXCEPT
                       !.todo = @ \ {i},
                       !.pc = IF req[s].todo = {i} THEN "announce" ELSE @])
      BY <1>4 DEF InitiateInsertPart
    <2> DEFINE r == [req[s] EXCEPT
                       !.todo = @ \ {i},
                       !.pc = IF req[s].todo = {i} THEN "announce" ELSE @]
    <2>2. r \in Request /\ SameHandler(s, r)
      BY <1>a DEF Request, Pcs, SameHandler
    <2>3. Invited \in PartRow /\ i \in RowIds
      BY <1>a, PartTypes, NoPart \in PartRow DEF NoPart, PartRow
    <2>4. part' \in [Calls -> [RowIds -> PartRow]] /\ call' = call
      BY <1>4, <1>a, <2>1, <2>3 DEF InitiateInsertPart, TypeOK
    <2>5. QED
      BY <1>4, <2>1, <2>2, <2>4, GotoHandler, OnlyDbType DEF InitiateInsertPart, TypeOK
  <1>5. CASE InitiateAnnounce(s)
    <2>1. HandlerOK' /\ req' \in [Slots -> Request]
      BY <1>5, DoneHandler DEF InitiateAnnounce
    <2>2. CASE conv = Deleted
      BY <1>5, <2>1, <2>2 DEF InitiateAnnounce, TypeOK, dbVars, mapVars, timerVars
    <2>3. CASE conv # Deleted
      <3> DEFINE u == req[s].user
                 K == StillOpen({req[s].sock})
                 T == {m \in conv \ {u} : Online(m)} \cup {u : j \in K}
      <3>0. /\ active' = [active EXCEPT ![c] = 1]
            /\ roster' = [roster EXCEPT ![c] = <<{u}>>]
            /\ info' = [info EXCEPT ![c] = {u}]
            /\ room' = [room EXCEPT ![c] = @ \cup K]
            /\ told' = [told EXCEPT ![c] = T]
            /\ ringTimeouts' = ringTimeouts \cup {c}
            /\ armed' = armed \cup {c}
        BY <1>5, <2>3 DEF InitiateAnnounce
      <3>1. <<{u}>> \in Seq(SUBSET Users) /\ Len(<<{u}>>) = 1
        BY <1>a
      <3>2. /\ active' \in [Calls -> Nat]
            /\ roster' \in [Calls -> Seq(SUBSET Users)]
            /\ \A d \in Calls : active'[d] \in 0 .. Len(roster'[d])
        <4>1. active' \in [Calls -> Nat] /\ roster' \in [Calls -> Seq(SUBSET Users)]
          BY <1>a, <3>0, <3>1 DEF TypeOK
        <4>2. ASSUME NEW d \in Calls PROVE active'[d] \in 0 .. Len(roster'[d])
          <5>1. CASE d = c
            BY <1>a, <3>0, <3>1, <5>1 DEF TypeOK
          <5>2. CASE d # c
            BY <1>a, <3>0, <5>2 DEF TypeOK
          <5>3. QED
            BY <5>1, <5>2
        <4>3. QED
          BY <4>1, <4>2
      <3>3. /\ info' \in [Calls -> SUBSET Users]
            /\ ringTimeouts' \subseteq Calls
            /\ armed' \subseteq Calls
        BY <1>a, <3>0 DEF TypeOK
      <3>4. /\ room' \in [Calls -> SUBSET Sockets]
            /\ told' \in [Calls -> SUBSET Users]
        <4>1. K \in SUBSET Sockets
          BY <1>0, HandlerTypes DEF StillOpen
        <4>2. T \in SUBSET Users
          BY <1>a, <2>3 DEF TypeOK
        <4> HIDE DEF K, T
        <4>3. QED
          BY <1>a, <3>0, <4>1, <4>2 DEF TypeOK
      <3>5. QED
        BY <1>5, <2>1, <3>2, <3>3, <3>4 DEF InitiateAnnounce, TypeOK, dbVars
    <2>4. QED
      BY <2>2, <2>3
  <1>6. QED
    BY <1>1, <1>2, <1>3, <1>4, <1>5 DEF InitiateStep

LEMMA LoadedRequest ==
    ASSUME Typed, NEW s \in Slots, req[s].op # "idle", NEW r,
           r = [req[s] EXCEPT !.row = call[req[s].call],
                              !.parts = LinkedRows(req[s].call)]
    PROVE  /\ r \in Request /\ SameHandler(s, r)
           /\ r.row = call[req[s].call] /\ r.parts = LinkedRows(req[s].call)
  <1>1. req[s] \in Request /\ req[s].call \in Calls
    BY HandlerTypes DEF Typed
  <1>2. /\ LinkedRows(req[s].call) \in [RowIds -> PartRow]
        /\ call[req[s].call] \in CallRow
    BY <1>1, RowTypes DEF Typed
  <1>3. QED
    BY <1>1, <1>2 DEF Request, SameHandler

\* The edits that most steps make to the record
LEMMA HandlerEdits ==
    ASSUME NEW s \in Slots, req[s] \in Request, NEW r \in Request, SameHandler(s, r)
    PROVE  /\ \A pc \in Pcs : /\ [r EXCEPT !.pc = pc] \in Request
                              /\ SameHandler(s, [r EXCEPT !.pc = pc])
           /\ \A T \in SUBSET RowIds : /\ [r EXCEPT !.todo = T] \in Request
                                       /\ SameHandler(s, [r EXCEPT !.todo = T])
           /\ \A row \in CallRow : /\ [r EXCEPT !.row = row] \in Request
                                   /\ SameHandler(s, [r EXCEPT !.row = row])
           /\ \A ps \in [RowIds -> PartRow] :
                /\ [r EXCEPT !.parts = ps] \in Request
                /\ SameHandler(s, [r EXCEPT !.parts = ps])
  <1>1. \A pc \in Pcs : SameHandler(s, [r EXCEPT !.pc = pc])
    BY DEF Request, SameHandler
  <1>2. \A T \in SUBSET RowIds : SameHandler(s, [r EXCEPT !.todo = T])
    BY DEF Request, SameHandler
  <1>3. \A row \in CallRow : SameHandler(s, [r EXCEPT !.row = row])
    BY DEF Request, SameHandler
  <1>4. \A ps \in [RowIds -> PartRow] : SameHandler(s, [r EXCEPT !.parts = ps])
    BY DEF Request, SameHandler
  <1>5. QED
    BY <1>1, <1>2, <1>3, <1>4, RequestEdits

\* A step that reads the tables and sends the handler on
LEMMA ReadTyped ==
    ASSUME Typed, NEW s \in Slots, OnlyReq,
           \/ Done(s)
           \/ \E r \in Request : SameHandler(s, r) /\ Goto(s, r)
    PROVE  Typed'
  BY DoneHandler, GotoHandler, OnlyReqType DEF Typed

\* A step that saves a call or a participant and sends the handler on
LEMMA SaveTyped ==
    ASSUME Typed, NEW s \in Slots, OnlyDb, NEW c \in Calls,
           \/ \E row \in CallRow, ps \in [RowIds -> PartRow], diff \in Difference :
                SaveCall(c, row, ps, diff)
           \/ \E i \in RowIds, p \in PartRow : SavePart(c, i, p),
           NEW r \in Request, SameHandler(s, r), Goto(s, r)
    PROVE  Typed'
  <1>1. /\ call' \in [Calls -> CallRow] /\ mixed' \subseteq Calls
        /\ part' \in [Calls -> [RowIds -> PartRow]]
    BY SaveCallType, SavePartType DEF Typed
  <1>2. QED
    BY <1>1, GotoHandler, OnlyDbType DEF Typed

\* The look of a save notes the difference and nothing else
LooksAs(q, r) ==
    /\ r.op = q.op /\ r.call = q.call /\ r.user = q.user /\ r.sock = q.sock
    /\ r.target = q.target /\ r.row = q.row /\ r.parts = q.parts /\ r.todo = q.todo
    /\ q.op \in Saving /\ q.pc = "saveCall" /\ r.pc = "writeCall"
    /\ \E times \in SUBSET (Columns \ {"status"}) : r.diff = Differs(q, times)

LEMMA LookGoes ==
    ASSUME Typed, NEW s \in Slots, LookAtCall(s)
    PROVE  \E r \in Request : Goto(s, r) /\ LooksAs(req[s], r)
  <1>1. PICK times \in SUBSET (Columns \ {"status"}) :
          req' = [req EXCEPT ![s].pc = "writeCall",
                             ![s].diff = Differs(req[s], times)]
    BY DEF LookAtCall
  <1> DEFINE diff == Differs(req[s], times)
             r == [req[s] EXCEPT !.pc = "writeCall", !.diff = diff]
  <1>2. diff \in Difference
    BY DEF Differs, Difference, Rows
  <1>3. Goto(s, r)
    BY <1>1 DEF Goto, Typed, TypeOK
  <1>4. req[s] \in Request /\ "writeCall" \in Pcs
    BY DEF Typed, TypeOK, Pcs
  <1>5. req[s].op \in Saving /\ req[s].pc = "saveCall"
    BY DEF LookAtCall
  <1>6. r.diff = Differs(req[s], times)
    BY <1>4 DEF Request
  <1>7. /\ r \in Request /\ r.pc = "writeCall"
        /\ r.op = req[s].op /\ r.call = req[s].call /\ r.user = req[s].user
        /\ r.sock = req[s].sock /\ r.target = req[s].target /\ r.row = req[s].row
        /\ r.parts = req[s].parts /\ r.todo = req[s].todo
    <2> HIDE DEF diff
    <2> QED BY <1>2, <1>4 DEF Request
  <1>8. LooksAs(req[s], r)
    <2> HIDE DEF r, diff
    <2> QED BY <1>5, <1>6, <1>7 DEF LooksAs
  <1>9. QED
    BY <1>3, <1>7, <1>8

LEMMA LookTyped ==
    ASSUME Typed, NEW s \in Slots, LookAtCall(s)
    PROVE  Typed'
  <1>1. PICK r \in Request : Goto(s, r) /\ LooksAs(req[s], r)
    BY LookGoes
  <1>2. SameHandler(s, r)
    BY <1>1 DEF SameHandler, LooksAs
  <1>3. OnlyReq
    BY DEF LookAtCall, OnlyReq, OnlyDb
  <1>4. QED
    BY <1>1, <1>2, <1>3, ReadTyped

LEMMA AcceptTyped ==
    ASSUME Typed, NEW s \in Slots, AcceptStep(s)
    PROVE  Typed'
  <1> DEFINE c == req[s].call
             u == req[s].user
  <1>0. req[s].op = "accept"
    BY DEF AcceptStep, AcceptLoad, AcceptSaveCall, AcceptSavePart, AcceptFinish, At
  <1>a. /\ req[s] \in Request /\ c \in Calls /\ u \in Users /\ req[s].sock \in Sockets
        /\ req[s].row \in CallRow /\ req[s].parts \in [RowIds -> PartRow]
        /\ req[s].diff \in Difference
    BY <1>0, HandlerTypes DEF Typed
  <1>b. {"savePart", "finish", "saveCall"} \subseteq Pcs
    BY DEF Pcs
  <1>c. \A r : AfterAccept(r) \in Pcs
    BY <1>b DEF AfterAccept
  <1>d. SameHandler(s, req[s])
    BY DEF SameHandler
  <1>1. CASE AcceptLoad(s)
    <2> DEFINE r == [req[s] EXCEPT !.row = call[c], !.parts = LinkedRows(c)]
               row == [call[c] EXCEPT !.status = "active", !.startedAt = TRUE]
               up == [r EXCEPT !.pc = "saveCall", !.row = row]
    <2>1. r \in Request /\ SameHandler(s, r) /\ r.row = call[c]
      BY <1>0, LoadedRequest
    <2>2. row \in CallRow
      BY <1>a DEF Typed, TypeOK, CallRow, CallStatus
    <2>3. up \in Request /\ SameHandler(s, up)
      <3> HIDE DEF row, r
      <3>1. /\ [r EXCEPT !.pc = "saveCall"] \in Request
            /\ SameHandler(s, [r EXCEPT !.pc = "saveCall"])
        BY <1>a, <1>b, <2>1, HandlerEdits
      <3>2. QED
        BY <1>a, <2>2, <3>1, HandlerEdits
    <2>4. /\ [r EXCEPT !.pc = AfterAccept(r)] \in Request
          /\ SameHandler(s, [r EXCEPT !.pc = AfterAccept(r)])
      <3> HIDE DEF r
      <3> QED BY <1>a, <1>c, <2>1, HandlerEdits
    <2>5. Goto(s, up) \/ Goto(s, [r EXCEPT !.pc = AfterAccept(r)])
      BY <1>1, <2>1 DEF AcceptLoad
    <2>6. OnlyReq
      BY <1>1 DEF AcceptLoad
    <2> HIDE DEF r, up
    <2>7. QED
      BY <2>3, <2>4, <2>5, <2>6, ReadTyped
  <1>2. CASE AcceptSaveCall(s)
    <2>w. PICK w : w = Written(req[s])
      OBVIOUS
    <2>1. /\ [w EXCEPT !.pc = AfterAccept(req[s])] \in Request
          /\ SameHandler(s, [w EXCEPT !.pc = AfterAccept(req[s])])
      BY <1>a, <1>c, <2>w, WrittenSame, HandlerEdits
    <2>2. QED
      BY <1>2, <1>a, <2>w, <2>1, SaveTyped DEF AcceptSaveCall
  <1>3. CASE AcceptSavePart(s)
    <2>1. /\ [req[s] EXCEPT !.pc = "finish"] \in Request
          /\ SameHandler(s, [req[s] EXCEPT !.pc = "finish"])
      BY <1>a, <1>b, <1>d, HandlerEdits
    <2>2. PICK i \in RowsOf(req[s].parts, u) : SavePart(c, i, Joined(req[s].parts[i]))
      BY <1>3 DEF AcceptSavePart
    <2>3. i \in RowIds
      BY DEF RowsOf, Rows
    <2>4. Joined(req[s].parts[i]) \in PartRow
      BY <1>a, <2>3, PartTypes
    <2>5. QED
      BY <1>3, <1>a, <2>1, <2>2, <2>3, <2>4, SaveTyped DEF AcceptSavePart
  <1>4. CASE AcceptFinish(s)
    <2>1. HandlerOK' /\ req' \in [Slots -> Request]
      BY <1>4, DoneHandler DEF AcceptFinish, Typed
    <2>2. ringTimeouts' \subseteq Calls /\ armed' \subseteq Calls
      BY <1>4 DEF AcceptFinish, ClearTimer, Typed, TypeOK
    <2>3. info' \in [Calls -> SUBSET Users] /\ room' \in [Calls -> SUBSET Sockets]
      <3>1. StillOpen({req[s].sock}) \in SUBSET Sockets
        BY <1>a DEF StillOpen
      <3>2. room' = [room EXCEPT ![c] = @ \cup StillOpen({req[s].sock})]
        BY <1>4 DEF AcceptFinish
      <3>3. info' = [info EXCEPT ![c] = @ \cup {u}] \/ info' = info
        BY <1>4 DEF AcceptFinish
      <3>4. room' \in [Calls -> SUBSET Sockets]
        BY <1>a, <3>1, <3>2 DEF Typed, TypeOK
      <3>5. info' \in [Calls -> SUBSET Users]
        <4>1. info \in [Calls -> SUBSET Users] /\ info[c] \cup {u} \in SUBSET Users
          BY <1>a DEF Typed, TypeOK
        <4>2. QED
          BY <1>a, <3>3, <4>1
      <3>6. QED
        BY <3>4, <3>5
    <2>4. /\ active' \in [Calls -> Nat]
          /\ roster' \in [Calls -> Seq(SUBSET Users)]
          /\ \A d \in Calls : active'[d] \in 0 .. Len(roster'[d])
      <3>0. roster[c] \in Seq(SUBSET Users) /\ {u} \in SUBSET Users
            /\ active[c] \in 0 .. Len(roster[c])
        BY <1>a DEF Typed, TypeOK
      <3>1. CASE active[c] = 0
        <4>1. /\ Append(roster[c], {u}) \in Seq(SUBSET Users)
              /\ Len(Append(roster[c], {u})) = Len(roster[c]) + 1
              /\ Len(roster[c]) \in Nat
          BY <3>0
        <4>2. /\ roster' = [roster EXCEPT ![c] = Append(roster[c], {u})]
              /\ active' = [active EXCEPT ![c] = Len(roster[c]) + 1]
          BY <1>4, <3>1 DEF AcceptFinish
        <4>3. active' \in [Calls -> Nat] /\ roster' \in [Calls -> Seq(SUBSET Users)]
          BY <1>a, <4>1, <4>2 DEF Typed, TypeOK
        <4>4. \A d \in Calls : active'[d] \in 0 .. Len(roster'[d])
          <5> TAKE d \in Calls
          <5>1. CASE d = c
            BY <1>a, <4>1, <4>2, <5>1 DEF Typed, TypeOK
          <5>2. CASE d # c
            BY <1>a, <4>2, <5>2 DEF Typed, TypeOK
          <5>3. QED
            BY <5>1, <5>2
        <4>5. QED
          BY <4>3, <4>4
      <3>2. CASE active[c] # 0
        <4> DEFINE new == [roster[c] EXCEPT ![active[c]] = @ \cup {u}]
        <4>1. new \in Seq(SUBSET Users) /\ Len(new) = Len(roster[c])
          BY <1>a, <3>0, <3>2
        <4>2. roster' = [roster EXCEPT ![c] = new] /\ active' = active
          BY <1>4, <3>2 DEF AcceptFinish
        <4> HIDE DEF new
        <4>3. roster' \in [Calls -> Seq(SUBSET Users)]
          BY <1>a, <4>1, <4>2 DEF Typed, TypeOK
        <4>4. \A d \in Calls : Len(roster'[d]) = Len(roster[d])
          BY <1>a, <4>1, <4>2 DEF Typed, TypeOK
        <4>5. QED
          BY <4>2, <4>3, <4>4 DEF Typed, TypeOK
      <3>3. QED
        BY <3>1, <3>2
    <2>5. QED
      BY <1>4, <2>1, <2>2, <2>3, <2>4 DEF AcceptFinish, Typed, TypeOK, dbVars
  <1>5. QED
    BY <1>1, <1>2, <1>3, <1>4 DEF AcceptStep

\* Declined, ended and missed rows are rows
LEMMA SettledRows ==
    ASSUME NEW row \in CallRow
    PROVE  Declined(row) \in CallRow /\ Ended(row) \in CallRow /\ Missed(row) \in CallRow
  <1>1. Declined(row) \in CallRow /\ Missed(row) \in CallRow
    BY DEF CallRow, CallStatus, Settled, Declined, Missed
  <1>2. (row.duration \/ row.startedAt) \in BOOLEAN
    BY DEF CallRow
  <1>3. Ended(row) \in CallRow
    BY <1>2 DEF CallRow, CallStatus, Settled, Ended
  <1>4. QED
    BY <1>1, <1>3

LEMMA AfterDeclineEdits ==
    ASSUME NEW s \in Slots, req[s] \in Request, NEW r \in Request, SameHandler(s, r)
    PROVE  AfterDecline(r) \in Request /\ SameHandler(s, AfterDecline(r))
  <1>1. r.row \in CallRow /\ {"saveCall", "finish"} \subseteq Pcs
    BY DEF Request, Pcs
  <1>2. Declined(r.row) \in CallRow
    BY <1>1, SettledRows
  <1> DEFINE r1 == [r EXCEPT !.pc = "saveCall"]
             r2 == [r1 EXCEPT !.row = Declined(r.row)]
             r3 == [r EXCEPT !.pc = "finish"]
  <1>3. r1 \in Request /\ SameHandler(s, r1) /\ r3 \in Request /\ SameHandler(s, r3)
    BY <1>1, HandlerEdits
  <1>4. r2 \in Request /\ SameHandler(s, r2)
    <2> HIDE DEF r1
    <2> QED BY <1>2, <1>3, HandlerEdits
  <1>5. AfterDecline(r) = IF r.row.scope = "dm" THEN r2 ELSE r3
    BY DEF AfterDecline, Request
  <1>6. QED
    BY <1>3, <1>4, <1>5

LEMMA DeclineTyped ==
    ASSUME Typed, NEW s \in Slots, DeclineStep(s)
    PROVE  Typed'
  <1> DEFINE c == req[s].call
             u == req[s].user
  <1>0. req[s].op = "decline"
    BY DEF DeclineStep, DeclineLoad, DeclineSaveCall, DeclineSavePart, DeclineFinish, At
  <1>a. /\ req[s] \in Request /\ c \in Calls
        /\ req[s].row \in CallRow /\ req[s].parts \in [RowIds -> PartRow]
        /\ req[s].diff \in Difference
    BY <1>0, HandlerTypes DEF Typed
  <1>b. {"savePart", "finish", "saveCall"} \subseteq Pcs
    BY DEF Pcs
  <1>d. SameHandler(s, req[s])
    BY DEF SameHandler
  <1>1. CASE DeclineLoad(s)
    <2> DEFINE r == [req[s] EXCEPT !.row = call[c], !.parts = LinkedRows(c)]
    <2>1. r \in Request /\ SameHandler(s, r)
      BY <1>0, LoadedRequest
    <2>2. Goto(s, AfterDecline(r)) \/ Goto(s, [r EXCEPT !.pc = "savePart"])
      BY <1>1 DEF DeclineLoad
    <2>3. OnlyReq
      BY <1>1 DEF DeclineLoad
    <2> HIDE DEF r
    <2>4. [r EXCEPT !.pc = "savePart"] \in Request
          /\ SameHandler(s, [r EXCEPT !.pc = "savePart"])
      BY <1>a, <1>b, <2>1, HandlerEdits
    <2>5. QED
      BY <1>a, <2>1, <2>2, <2>3, <2>4, AfterDeclineEdits, ReadTyped
  <1>2. CASE DeclineSavePart(s)
    <2>1. PICK i \in RowsOf(req[s].parts, u) :
            LET p == [req[s].parts[i] EXCEPT !.status = "declined"] IN
            /\ SavePart(c, i, p)
            /\ Goto(s, AfterDecline([req[s] EXCEPT !.parts[i] = p]))
      BY <1>2 DEF DeclineSavePart
    <2> DEFINE p  == [req[s].parts[i] EXCEPT !.status = "declined"]
               ps == [req[s].parts EXCEPT ![i] = p]
               r  == [req[s] EXCEPT !.parts = ps]
    <2>2. i \in RowIds
      BY DEF RowsOf, Rows
    <2>3. p \in PartRow
      BY <1>a, <2>2, PartTypes DEF PartStatus
    <2>4. r \in Request /\ SameHandler(s, r)
      <3>1. ps \in [RowIds -> PartRow]
        BY <1>a, <2>3
      <3> HIDE DEF ps
      <3>2. QED
        BY <1>a, <1>d, <3>1, HandlerEdits
    <2>5. Goto(s, AfterDecline(r)) /\ SavePart(c, i, p)
      BY <2>1
    <2> HIDE DEF r, p
    <2>6. AfterDecline(r) \in Request /\ SameHandler(s, AfterDecline(r))
      BY <1>a, <2>4, AfterDeclineEdits
    <2>7. QED
      BY <1>2, <1>a, <2>2, <2>3, <2>5, <2>6, SaveTyped DEF DeclineSavePart
  <1>3. CASE DeclineSaveCall(s)
    <2>w. PICK w : w = Written(req[s])
      OBVIOUS
    <2>1. /\ [w EXCEPT !.pc = "finish"] \in Request
          /\ SameHandler(s, [w EXCEPT !.pc = "finish"])
      BY <1>a, <1>b, <2>w, WrittenSame, HandlerEdits
    <2>2. QED
      BY <1>3, <1>a, <2>w, <2>1, SaveTyped DEF DeclineSaveCall
  <1>4. CASE DeclineFinish(s)
    <2>1. HandlerOK' /\ req' \in [Slots -> Request]
      BY <1>4, DoneHandler DEF DeclineFinish, Typed
    <2>2. ringTimeouts' \subseteq Calls /\ armed' \subseteq Calls
      BY <1>4 DEF DeclineFinish, ClearTimer, timerVars, Typed, TypeOK
    <2>3. QED
      BY <1>4, <2>1, <2>2 DEF DeclineFinish, Typed, TypeOK, dbVars, mapVars
  <1>5. QED
    BY <1>1, <1>2, <1>3, <1>4 DEF DeclineStep

\* Taking a user out of a Set object of activeCalls
LEMMA RosterType ==
    ASSUME Typed, NEW c \in Calls, NEW n \in Nat, NEW u,
           roster' = [roster EXCEPT ![c][n] = @ \ {u}]
    PROVE  /\ roster' \in [Calls -> Seq(SUBSET Users)]
           /\ \A d \in Calls : Len(roster'[d]) = Len(roster[d])
  <1> DEFINE new == [roster[c] EXCEPT ![n] = @ \ {u}]
  <1>1. roster \in [Calls -> Seq(SUBSET Users)] /\ roster[c] \in Seq(SUBSET Users)
    BY DEF Typed, TypeOK
  <1>2. new \in Seq(SUBSET Users) /\ Len(new) = Len(roster[c])
    <2>1. Len(roster[c]) \in Nat /\ DOMAIN roster[c] = 1 .. Len(roster[c])
      BY <1>1
    <2>2. \A m \in 1 .. Len(roster[c]) : roster[c][m] \in SUBSET Users
      BY <1>1
    <2>3. \A m \in 1 .. Len(roster[c]) : new[m] \in SUBSET Users
      BY <2>1, <2>2
    <2>4. new \in [1 .. Len(roster[c]) -> SUBSET Users]
      BY <2>1, <2>3
    <2> HIDE DEF new
    <2>5. QED
      BY <2>1, <2>4
  <1>3. roster' = [roster EXCEPT ![c] = new]
    OBVIOUS
  <1> HIDE DEF new
  <1>4. QED
    BY <1>1, <1>2, <1>3

\* The maps after a handler's last step keep their types
MapsTyped ==
    /\ active \in [Calls -> Nat]
    /\ roster \in [Calls -> Seq(SUBSET Users)]
    /\ \A d \in Calls : active[d] \in 0 .. Len(roster[d])
    /\ info \in [Calls -> SUBSET Users]

\* The entry is dropped, or the user leaves its info, or nothing happens to it
LEMMA MapsType ==
    ASSUME Typed, NEW c \in Calls, NEW u,
           \/ roster' = roster
           \/ \E n \in Nat : roster' = [roster EXCEPT ![c][n] = @ \ {u}],
           \/ DropEntry(c)
           \/ active' = active /\ info' = [info EXCEPT ![c] = @ \ {u}]
    PROVE  MapsTyped'
  <1>1. /\ roster' \in [Calls -> Seq(SUBSET Users)]
        /\ \A d \in Calls : Len(roster'[d]) = Len(roster[d])
    <2>1. CASE roster' = roster
      BY <2>1 DEF Typed, TypeOK
    <2>2. ASSUME NEW n \in Nat, roster' = [roster EXCEPT ![c][n] = @ \ {u}]
          PROVE  /\ roster' \in [Calls -> Seq(SUBSET Users)]
                 /\ \A d \in Calls : Len(roster'[d]) = Len(roster[d])
      BY <2>2, RosterType
    <2>3. QED
      BY <2>1, <2>2
  <1>2. active' \in [Calls -> Nat] /\ \A d \in Calls : active'[d] \in {0, active[d]}
    <2>1. active \in [Calls -> Nat]
      BY DEF Typed, TypeOK
    <2>2. active' = [active EXCEPT ![c] = 0] \/ active' = active
      BY DEF DropEntry
    <2>3. QED
      BY <2>1, <2>2
  <1>3. \A d \in Calls : Len(roster[d]) \in Nat /\ active[d] \in 0 .. Len(roster[d])
    BY DEF Typed, TypeOK
  <1>4. \A d \in Calls : active'[d] \in 0 .. Len(roster'[d])
    BY <1>1, <1>2, <1>3
  <1>5. info' \in [Calls -> SUBSET Users]
    <2>1. info \in [Calls -> SUBSET Users]
      BY DEF Typed, TypeOK
    <2>2. CASE DropEntry(c)
      BY <2>1, <2>2 DEF DropEntry
    <2>3. CASE info' = [info EXCEPT ![c] = @ \ {u}]
      BY <2>1, <2>3
    <2>4. QED
      BY <2>2, <2>3
  <1>6. QED
    BY <1>1, <1>2, <1>4, <1>5 DEF MapsTyped

LEMMA AfterLeaveEdits ==
    ASSUME NEW s \in Slots, req[s] \in Request, NEW r \in Request, SameHandler(s, r)
    PROVE  AfterLeave(r) \in Request /\ SameHandler(s, AfterLeave(r))
  <1>1. r.row \in CallRow /\ {"saveCall", "left"} \subseteq Pcs
    BY DEF Request, Pcs
  <1>2. Ended(r.row) \in CallRow
    BY <1>1, SettledRows
  <1> DEFINE r1 == [r EXCEPT !.pc = "saveCall"]
             r2 == [r1 EXCEPT !.row = Ended(r.row)]
             r3 == [r EXCEPT !.pc = "left"]
  <1>3. r1 \in Request /\ SameHandler(s, r1) /\ r3 \in Request /\ SameHandler(s, r3)
    BY <1>1, HandlerEdits
  <1>4. r2 \in Request /\ SameHandler(s, r2)
    <2> HIDE DEF r1
    <2> QED BY <1>2, <1>3, HandlerEdits
  <1>5. AfterLeave(r) = r2 \/ AfterLeave(r) = r3
    BY DEF AfterLeave, Request
  <1>6. QED
    BY <1>3, <1>4, <1>5

\* What the disconnect loop makes of a handler's record
LEMMA SweepType ==
    ASSUME Typed, NEW s \in Slots, NEW r \in Request, r.op = "disconnect",
           r.user \in Users, r.sock \in Sockets,
           NEW act \in [Calls -> Nat], NEW ros,
           NEW q \in Sweep(r, act, ros), Goto(s, q)
    PROVE  HandlerOK' /\ req' \in [Slots -> Request]
  <1>1. CASE q = Idle
    BY <1>1, DoneHandler DEF Done, Typed
  <1>2. CASE q # Idle
    <2>1. PICK c \in Calls :
            q = [r EXCEPT !.pc = "load", !.call = c, !.held = act[c], !.todo = {},
                          !.row = NoCall, !.seen = @ \cup {<<c, act[c]>>}]
      BY <1>2 DEF Sweep
    <2>2. /\ act[c] \in Nat /\ <<c, act[c]>> \in Calls \X Nat /\ "load" \in Pcs
          /\ NoCall \in CallRow
      BY DEF Pcs, NoCall, CallRow, CallStatus, Settled
    <2>3. r.seen \cup {<<c, act[c]>>} \in SUBSET (Calls \X Nat)
      BY <2>2 DEF Request
    <2> DEFINE sn == r.seen \cup {<<c, act[c]>>}
               h  == act[c]
    <2>4. q = [r EXCEPT !.pc = "load", !.call = c, !.held = h, !.todo = {},
                     !.row = NoCall, !.seen = sn]
      BY <2>1 DEF Request
    <2>5. h \in Nat /\ sn \in SUBSET (Calls \X Nat)
      BY <2>2, <2>3
    <2> HIDE DEF sn, h
    <2>6. q \in Request
      <3> HIDE DEF NoCall
      <3> QED BY <2>2, <2>4, <2>5 DEF Request
    <2>7. q.op = "disconnect" /\ q.call \in Calls /\ q.user \in Users /\ q.sock \in Sockets
      BY <2>4 DEF Request
    <2>8. QED
      BY <2>6, <2>7 DEF Typed, TypeOK, HandlerOK, Goto
  <1>3. QED
    BY <1>1, <1>2

LEMMA EndTyped ==
    ASSUME Typed, NEW s \in Slots, EndStep(s)
    PROVE  Typed'
  <1> DEFINE c == req[s].call
             u == req[s].user
  <1>0. req[s].op = "end" \/ req[s].op = "disconnect"
    BY DEF EndStep, EndLoad, EndSavePart, EndSaveCall, EndSaveRest, EndFinish,
           DisconnectFinish, Ending, At
  <1>a. /\ req[s] \in Request /\ c \in Calls /\ u \in Users /\ req[s].sock \in Sockets
        /\ req[s].row \in CallRow /\ req[s].parts \in [RowIds -> PartRow]
        /\ req[s].diff \in Difference
        /\ req[s].todo \in SUBSET RowIds
    BY <1>0, HandlerTypes DEF Typed
  <1>b. {"savePart", "ended", "saveRest"} \subseteq Pcs
    BY DEF Pcs
  <1>d. SameHandler(s, req[s])
    BY DEF SameHandler
  <1>e. active \in [Calls -> Nat] /\ TypeOK
    BY DEF Typed, TypeOK
  <1>1. CASE EndLoad(s)
    <2> DEFINE r == [req[s] EXCEPT !.row = call[c], !.parts = LinkedRows(c)]
    <2>1. r \in Request /\ SameHandler(s, r) /\ r.parts = LinkedRows(c)
      BY <1>0, LoadedRequest
    <2>2. OnlyReq
      BY <1>1 DEF EndLoad
    <2>3. \/ Goto(s, AfterLeave(r))
          \/ \E i \in RowsOf(r.parts, r.user) \cap JoinedRows(r.parts) :
               Goto(s, [r EXCEPT !.pc = "savePart", !.todo = {i},
                                 !.parts[i] = HasLeft(@)])
      BY <1>1 DEF EndLoad
    <2>4. CASE Goto(s, AfterLeave(r))
      <3> HIDE DEF r
      <3> QED BY <1>a, <2>1, <2>2, <2>4, AfterLeaveEdits, ReadTyped
    <2>5. ASSUME NEW i \in RowsOf(r.parts, r.user) \cap JoinedRows(r.parts),
                 Goto(s, [r EXCEPT !.pc = "savePart", !.todo = {i},
                                   !.parts[i] = HasLeft(@)])
          PROVE  Typed'
      <3> DEFINE ps == [r.parts EXCEPT ![i] = HasLeft(@)]
                 r1 == [r EXCEPT !.pc = "savePart"]
                 r2 == [r1 EXCEPT !.todo = {i}]
                 r3 == [r2 EXCEPT !.parts = ps]
      <3> HIDE DEF r
      <3>1. i \in RowIds /\ r.parts \in [RowIds -> PartRow]
        BY <2>1 DEF JoinedRows, Request
      <3>2. ps \in [RowIds -> PartRow]
        BY <3>1, PartTypes
      <3>3. Goto(s, r3)
        BY <2>1, <2>5 DEF Request
      <3>4. r1 \in Request /\ SameHandler(s, r1)
        BY <1>a, <1>b, <2>1, HandlerEdits
      <3>5. r2 \in Request /\ SameHandler(s, r2)
        <4> HIDE DEF r1
        <4> QED BY <1>a, <3>1, <3>4, HandlerEdits
      <3>6. r3 \in Request /\ SameHandler(s, r3)
        <4> HIDE DEF r2, ps
        <4> QED BY <1>a, <3>2, <3>5, HandlerEdits
      <3> HIDE DEF r3
      <3>7. QED
        BY <2>2, <3>3, <3>6, ReadTyped
    <2>6. QED
      BY <2>3, <2>4, <2>5
  <1>2. CASE EndSavePart(s)
    <2> DEFINE r == [req[s] EXCEPT !.todo = {}]
    <2>1. r \in Request /\ SameHandler(s, r)
      BY <1>a, <1>d, HandlerEdits
    <2>2. AfterLeave(r) \in Request /\ SameHandler(s, AfterLeave(r))
      <3> HIDE DEF r
      <3> QED BY <1>a, <2>1, AfterLeaveEdits
    <2>3. PICK i \in req[s].todo : SavePart(c, i, req[s].parts[i])
      BY <1>2 DEF EndSavePart
    <2>4. i \in RowIds /\ req[s].parts[i] \in PartRow
      BY <1>a
    <2>5. QED
      BY <1>2, <1>a, <2>2, <2>3, <2>4, SaveTyped DEF EndSavePart
  <1>3. CASE EndSaveCall(s)
    <2> DEFINE T == JoinedRows(req[s].parts)
               pc == IF T = {} THEN "ended" ELSE "saveRest"
               w == Written(req[s])
               r1 == [w EXCEPT !.todo = T]
               r2 == [r1 EXCEPT !.pc = pc]
    <2>1. T \in SUBSET RowIds /\ pc \in Pcs
      BY <1>b DEF JoinedRows
    <2>2. r1 \in Request /\ SameHandler(s, r1)
      <3>1. w \in Request /\ SameHandler(s, w)
        BY <1>a, WrittenSame
      <3> HIDE DEF T, w
      <3> QED BY <1>a, <2>1, <3>1, HandlerEdits
    <2>3. r2 \in Request /\ SameHandler(s, r2)
      <3> HIDE DEF r1, pc
      <3> QED BY <1>a, <2>1, <2>2, HandlerEdits
    <2>4. Goto(s, r2)
      BY <1>3 DEF EndSaveCall
    <2> HIDE DEF r2
    <2>5. QED
      BY <1>3, <1>a, <2>3, <2>4, SaveTyped DEF EndSaveCall
  <1>4. CASE EndSaveRest(s)
    <2>1. PICK i \in req[s].todo :
            /\ SavePart(c, i, HasLeft(req[s].parts[i]))
            /\ Goto(s, [req[s] EXCEPT
                       !.todo = @ \ {i},
                       !.pc = IF req[s].todo = {i} THEN "ended" ELSE @])
      BY <1>4 DEF EndSaveRest
    <2> DEFINE r == [req[s] EXCEPT
                       !.todo = @ \ {i},
                       !.pc = IF req[s].todo = {i} THEN "ended" ELSE @]
    <2>2. r \in Request /\ SameHandler(s, r)
      BY <1>a, <1>b DEF Request, SameHandler
    <2>3. i \in RowIds /\ HasLeft(req[s].parts[i]) \in PartRow
      BY <1>a, PartTypes
    <2> HIDE DEF r
    <2>4. Goto(s, r)
      BY <2>1 DEF r
    <2>5. QED
      BY <1>4, <1>a, <2>1, <2>2, <2>3, <2>4, SaveTyped DEF EndSaveRest
  <1>5. CASE EndFinish(s)
    <2>1. HandlerOK' /\ req' \in [Slots -> Request]
      BY <1>5, DoneHandler DEF EndFinish, Typed
    <2>2. ringTimeouts' \subseteq Calls /\ armed' \subseteq Calls
      BY <1>5, <1>e DEF EndFinish, ClearTimer, timerVars, TypeOK
    <2>3. room' \in [Calls -> SUBSET Sockets]
      <3>1. room \in [Calls -> SUBSET Sockets]
        BY <1>e DEF TypeOK
      <3>2. room' = room \/ room' = [room EXCEPT ![c] = @ \ {req[s].sock}]
        BY <1>5 DEF EndFinish
      <3>3. QED
        BY <3>1, <3>2
    <2>4. MapsTyped'
      <3>1. /\ \/ roster' = roster
               \/ roster' = [roster EXCEPT ![c][active[c]] = @ \ {u}]
            /\ \/ DropEntry(c)
               \/ active' = active /\ info' = [info EXCEPT ![c] = @ \ {u}]
        BY <1>5 DEF EndFinish
      <3>2. active[c] \in Nat
        BY <1>a, <1>e
      <3>3. QED
        BY <1>a, <3>1, <3>2, MapsType
    <2>5. QED
      BY <1>5, <1>e, <2>1, <2>2, <2>3, <2>4 DEF EndFinish, MapsTyped, Typed, TypeOK, dbVars
  <1>6. CASE DisconnectFinish(s)
    <2>0. req[s].op = "disconnect"
      BY <1>6 DEF DisconnectFinish, At
    <2>1. MapsTyped'
      <3>1. /\ \/ roster' = roster
               \/ roster' = [roster EXCEPT ![c][req[s].held] = @ \ {u}]
            /\ \/ DropEntry(c)
               \/ active' = active /\ info' = [info EXCEPT ![c] = @ \ {u}]
        BY <1>6 DEF DisconnectFinish
      <3>2. req[s].held \in Nat
        BY <1>a DEF Request
      <3>3. QED
        BY <1>a, <3>1, <3>2, MapsType
    <2>2. HandlerOK' /\ req' \in [Slots -> Request]
      <3>1. PICK q \in Sweep(req[s], active', roster') : Goto(s, q)
        BY <1>6 DEF DisconnectFinish
      <3>2. active' \in [Calls -> Nat]
        BY <2>1 DEF MapsTyped
      <3>3. QED
        BY <1>a, <2>0, <3>1, <3>2, SweepType
    <2>3. QED
      BY <1>6, <1>e, <2>1, <2>2 DEF DisconnectFinish, MapsTyped, Typed, TypeOK, dbVars, timerVars
  <1>7. QED
    BY <1>1, <1>2, <1>3, <1>4, <1>5, <1>6 DEF EndStep

LEMMA AddKickTyped ==
    ASSUME Typed, NEW s \in Slots, AddKickStep(s)
    PROVE  Typed'
  <1> DEFINE c == req[s].call
             v == req[s].target
  <1>0. req[s].op \in {"add", "kick"}
    BY DEF AddKickStep, AddLoad, AddInsert, AddFinish, KickLoad, KickSavePart,
           KickFinish, At
  <1>a. /\ req[s] \in Request /\ c \in Calls /\ v \in Users
        /\ req[s].parts \in [RowIds -> PartRow] /\ req[s].todo \in SUBSET RowIds
    BY <1>0, HandlerTypes DEF Typed
  <1>b. {"insert", "finish", "savePart"} \subseteq Pcs
    BY DEF Pcs
  <1>d. SameHandler(s, req[s])
    BY DEF SameHandler
  <1>e. TypeOK
    BY DEF Typed
  <1>f. /\ [req[s] EXCEPT !.pc = "finish"] \in Request
        /\ SameHandler(s, [req[s] EXCEPT !.pc = "finish"])
    BY <1>a, <1>b, <1>d, HandlerEdits
  <1>1. CASE AddLoad(s)
    <2> DEFINE r == [req[s] EXCEPT !.pc = "insert", !.gone = (conv = Deleted)]
    <2>1. r \in Request /\ SameHandler(s, r)
      BY <1>a, <1>b DEF Request, SameHandler
    <2>2. (Done(s) \/ Goto(s, r)) /\ OnlyReq
      BY <1>1 DEF AddLoad
    <2> HIDE DEF r
    <2>3. QED
      BY <2>1, <2>2, ReadTyped
  <1>2. CASE AddInsert(s)
    <2>1. HandlerOK' /\ req' \in [Slots -> Request]
      BY <1>2, <1>a, <1>f, DoneHandler, GotoHandler DEF AddInsert, Typed
    <2>2. PICK n \in Copies : part' = [part EXCEPT ![c][<<v, n>>] = Invited]
      BY <1>2 DEF AddInsert
    <2>3. <<v, n>> \in RowIds /\ Invited \in PartRow
      BY <1>a, PartTypes, NoPart \in PartRow DEF RowIds, NoPart, PartRow
    <2>4. part' \in [Calls -> [RowIds -> PartRow]]
      BY <1>a, <1>e, <2>2, <2>3 DEF TypeOK
    <2>5. call' \in [Calls -> CallRow] /\ mixed' \subseteq Calls
      BY <1>2, <1>e DEF AddInsert, TypeOK
    <2>6. QED
      BY <1>2, <1>e, <2>1, <2>4, <2>5, OnlyDbType DEF AddInsert, Typed
  <1>3. CASE AddFinish(s)
    <2>1. HandlerOK' /\ req' \in [Slots -> Request]
      BY <1>3, DoneHandler DEF AddFinish, Typed
    <2>2. told' \in [Calls -> SUBSET Users]
      <3>1. told' = told \/ told' = [told EXCEPT ![c] = @ \cup {v}]
        BY <1>3 DEF AddFinish
      <3>2. told \in [Calls -> SUBSET Users]
        BY <1>e DEF TypeOK
      <3>3. QED
        BY <1>a, <3>1, <3>2
    <2>3. QED
      BY <1>3, <1>e, <2>1, <2>2 DEF AddFinish, Typed, TypeOK, dbVars, mapVars, timerVars
  <1>4. CASE KickLoad(s)
    <2> DEFINE parts == LinkedRows(c)
    <2>0. parts \in [RowIds -> PartRow]
      BY <1>a, <1>e, RowTypes
    <2>1. OnlyReq /\ \/ Done(s)
                     \/ \E i \in RowsOf(parts, v) \cap JoinedRows(parts) :
                          Goto(s, [req[s] EXCEPT !.pc = "savePart", !.parts = parts,
                                                 !.todo = {i}])
      BY <1>4 DEF KickLoad
    <2>2. ASSUME NEW i \in RowsOf(parts, v) \cap JoinedRows(parts)
          PROVE  /\ [req[s] EXCEPT !.pc = "savePart", !.parts = parts, !.todo = {i}]
                      \in Request
                 /\ SameHandler(s, [req[s] EXCEPT !.pc = "savePart", !.parts = parts,
                                                  !.todo = {i}])
      <3>1. i \in RowIds
        BY DEF JoinedRows
      <3> HIDE DEF parts
      <3>2. QED
        BY <1>a, <1>b, <2>0, <3>1 DEF Request, SameHandler
    <2> HIDE DEF parts
    <2>3. QED
      BY <2>1, <2>2, ReadTyped
  <1>5. CASE KickSavePart(s)
    <2>1. PICK i \in req[s].todo : SavePart(c, i, HasLeft(req[s].parts[i]))
      BY <1>5 DEF KickSavePart
    <2>2. i \in RowIds /\ HasLeft(req[s].parts[i]) \in PartRow
      BY <1>a, PartTypes
    <2>3. QED
      BY <1>5, <1>a, <1>f, <2>1, <2>2, SaveTyped DEF KickSavePart
  <1>6. CASE KickFinish(s)
    <2>1. HandlerOK' /\ req' \in [Slots -> Request]
      BY <1>6, DoneHandler DEF KickFinish, Typed
    <2>2. MapsTyped'
      <3>1. /\ \/ roster' = roster
               \/ roster' = [roster EXCEPT ![c][active[c]] = @ \ {v}]
            /\ active' = active /\ info' = [info EXCEPT ![c] = @ \ {v}]
        BY <1>6 DEF KickFinish
      <3>2. active[c] \in Nat
        BY <1>a, <1>e DEF TypeOK
      <3>3. QED
        BY <1>a, <3>1, <3>2, MapsType
    <2>3. QED
      BY <1>6, <1>e, <2>1, <2>2 DEF KickFinish, MapsTyped, Typed, TypeOK, dbVars, timerVars
  <1>7. QED
    BY <1>1, <1>2, <1>3, <1>4, <1>5, <1>6 DEF AddKickStep

LEMMA TimerTyped ==
    ASSUME Typed, NEW s \in Slots, TimerStep(s)
    PROVE  Typed'
  <1> DEFINE c == req[s].call
  <1>0. req[s].op = "timer"
    BY DEF TimerStep, TimerCheck, TimerLoad, TimerSaveCall, TimerSaveRest, TimerFinish, At
  <1>a. /\ req[s] \in Request /\ c \in Calls /\ req[s].row \in CallRow
        /\ req[s].parts \in [RowIds -> PartRow] /\ req[s].todo \in SUBSET RowIds
        /\ req[s].diff \in Difference
    BY <1>0, HandlerTypes DEF Typed
  <1>b. {"load", "saveCall", "saveRest", "finish"} \subseteq Pcs
    BY DEF Pcs
  <1>d. SameHandler(s, req[s])
    BY DEF SameHandler
  <1>e. TypeOK
    BY DEF Typed
  <1>1. CASE TimerCheck(s)
    <2>1. \A pc \in Pcs : /\ [req[s] EXCEPT !.pc = pc] \in Request
                          /\ SameHandler(s, [req[s] EXCEPT !.pc = pc])
      BY <1>a, <1>d, HandlerEdits
    <2>2. QED
      BY <1>1, <1>b, <2>1, ReadTyped DEF TimerCheck
  <1>2. CASE TimerLoad(s)
    <2> DEFINE row == Missed(call[c])
               ps  == LinkedRows(c)
               r == [req[s] EXCEPT !.pc = "saveCall", !.row = row, !.parts = ps]
    <2>1. row \in CallRow /\ ps \in [RowIds -> PartRow]
      BY <1>a, <1>e, RowTypes
    <2>2. r \in Request /\ SameHandler(s, r)
      <3> HIDE DEF row, ps
      <3> QED BY <1>a, <1>b, <2>1 DEF Request, SameHandler
    <2>3. /\ [req[s] EXCEPT !.pc = "finish"] \in Request
          /\ SameHandler(s, [req[s] EXCEPT !.pc = "finish"])
      BY <1>a, <1>b, <1>d, HandlerEdits
    <2>4. OnlyReq /\ (Goto(s, r) \/ Goto(s, [req[s] EXCEPT !.pc = "finish"]))
      BY <1>2 DEF TimerLoad
    <2> HIDE DEF r
    <2>5. QED
      BY <2>2, <2>3, <2>4, ReadTyped
  <1>3. CASE TimerSaveCall(s)
    <2> DEFINE T == {i \in RowIds : req[s].parts[i].status = "invited"}
               pc == IF T = {} THEN "finish" ELSE "saveRest"
               w == Written(req[s])
               r == [w EXCEPT !.todo = T, !.pc = pc]
    <2>1. T \in SUBSET RowIds /\ pc \in Pcs
      BY <1>b
    <2>2. Goto(s, r)
      BY <1>3 DEF TimerSaveCall
    <2>3. r \in Request /\ SameHandler(s, r)
      <3>1. w \in Request /\ SameHandler(s, w)
        BY <1>a, WrittenSame
      <3> HIDE DEF T, pc, w
      <3> QED BY <1>a, <2>1, <3>1 DEF Request, SameHandler
    <2> HIDE DEF r
    <2>4. QED
      BY <1>3, <1>a, <2>2, <2>3, SaveTyped DEF TimerSaveCall
  <1>4. CASE TimerSaveRest(s)
    <2>1. PICK i \in req[s].todo :
            /\ SavePart(c, i, [req[s].parts[i] EXCEPT !.status = "missed"])
            /\ Goto(s, [req[s] EXCEPT
                       !.todo = @ \ {i},
                       !.pc = IF req[s].todo = {i} THEN "finish" ELSE @])
      BY <1>4 DEF TimerSaveRest
    <2> DEFINE r == [req[s] EXCEPT
                       !.todo = @ \ {i},
                       !.pc = IF req[s].todo = {i} THEN "finish" ELSE @]
    <2>2. r \in Request /\ SameHandler(s, r)
      BY <1>a, <1>b DEF Request, SameHandler
    <2>3. i \in RowIds /\ [req[s].parts[i] EXCEPT !.status = "missed"] \in PartRow
      BY <1>a, PartTypes DEF PartStatus
    <2> HIDE DEF r
    <2>4. Goto(s, r)
      BY <2>1 DEF r
    <2>5. QED
      BY <1>4, <1>a, <2>1, <2>2, <2>3, <2>4, SaveTyped DEF TimerSaveRest
  <1>5. CASE TimerFinish(s)
    <2>1. HandlerOK' /\ req' \in [Slots -> Request]
      BY <1>5, DoneHandler DEF TimerFinish, Typed
    <2>2. QED
      BY <1>5, <1>e, <2>1 DEF TimerFinish, Typed, TypeOK, dbVars, mapVars
  <1>6. QED
    BY <1>1, <1>2, <1>3, <1>4, <1>5 DEF TimerStep

LEMMA TimerFiresTyped ==
    ASSUME Typed, NEW s \in Slots, NEW c \in Calls, TimerFires(s, c)
    PROVE  Typed'
  <1> DEFINE r == [Idle EXCEPT !.op = "timer", !.pc = "check", !.call = c]
  <1>1. r \in Request /\ r.op = "timer" /\ r.call = c
    <2>1. Idle \in Request /\ "timer" \in Ops /\ "check" \in Pcs
      BY IdleType DEF Ops, Pcs
    <2> HIDE DEF Idle
    <2>2. QED
      BY <2>1 DEF Request
  <1>2. Goto(s, r)
    BY DEF TimerFires
  <1>3. HandlerOK' /\ req' \in [Slots -> Request]
    <2> HIDE DEF r
    <2> QED BY <1>1, <1>2 DEF Typed, TypeOK, HandlerOK, Goto
  <1>4. QED
    BY <1>3 DEF TimerFires, Typed, TypeOK, dbVars, mapVars

LEMMA DisconnectTyped ==
    ASSUME Typed, CallsAssumption, NEW s \in Slots, NEW k \in Sockets, Disconnect(s, k)
    PROVE  Typed'
  <1> DEFINE r == [Idle EXCEPT !.op = "disconnect", !.user = Owner[k], !.sock = k]
  <1>1. Owner[k] \in Users
    BY DEF CallsAssumption
  <1>2. /\ r \in Request /\ r.op = "disconnect" /\ r.user \in Users /\ r.sock \in Sockets
    BY <1>1, IdleType DEF Request, Ops
  <1>3. active \in [Calls -> Nat] /\ TypeOK
    BY DEF Typed, TypeOK
  <1>4. HandlerOK' /\ req' \in [Slots -> Request]
    <2>1. CASE req' = req
      BY <2>1 DEF Typed, TypeOK, HandlerOK
    <2>2. CASE \E q \in Sweep(r, active, roster) : Goto(s, q)
      <3> HIDE DEF r
      <3> QED BY <1>2, <1>3, <2>2, SweepType
    <2>3. QED
      BY <2>1, <2>2 DEF Disconnect
  <1>5. sock' \in [Sockets -> {"new", "open", "closed"}]
    BY <1>3 DEF Disconnect, TypeOK
  <1>6. room' \in [Calls -> SUBSET Sockets]
    BY <1>3 DEF Disconnect, TypeOK
  <1>7. QED
    BY <1>3, <1>4, <1>5, <1>6 DEF Disconnect, Typed, TypeOK, dbVars, mapVars, timerVars

LEMMA FaultTyped ==
    ASSUME Typed, NEW s \in Slots, Fault(s)
    PROVE  Typed'
  <1>1. active \in [Calls -> Nat] /\ TypeOK
    BY DEF Typed, TypeOK
  <1>2. HandlerOK' /\ req' \in [Slots -> Request]
    <2>1. CASE req[s].op = "disconnect"
      <3>1. req[s] \in Request /\ req[s].user \in Users /\ req[s].sock \in Sockets
        BY <2>1, HandlerTypes DEF Typed
      <3>2. QED
        BY <1>1, <2>1, <3>1, SweepType DEF Fault
    <2>2. CASE req[s].op # "disconnect"
      BY <2>2, DoneHandler DEF Fault, Typed
    <2>3. QED
      BY <2>1, <2>2
  <1>3. left' \in [messages : Nat, faults : Nat, restarts : Nat, edits : Nat]
    <2>1. left.faults - 1 \in Nat
      BY <1>1 DEF Fault, TypeOK
    <2>2. QED
      BY <1>1, <2>1 DEF Fault, TypeOK
  <1>4. ringTimeouts' \subseteq Calls
    BY <1>1 DEF Fault, TypeOK
  <1>5. QED
    BY <1>1, <1>2, <1>3, <1>4 DEF Fault, Typed, TypeOK, dbVars, mapVars

LEMMA AroundTyped ==
    ASSUME Typed,
           Restart \/ EditConversation \/ \E k \in Sockets : Connect(k)
    PROVE  Typed'
  <1>1. TypeOK /\ HandlerOK
    BY DEF Typed
  <1>2. CASE Restart
    <2>1. HandlerOK' /\ req' \in [Slots -> Request]
      BY <1>2, IdleType DEF Restart, HandlerOK, Idle
    <2>2. left' \in [messages : Nat, faults : Nat, restarts : Nat, edits : Nat]
      <3>1. left.restarts - 1 \in Nat
        BY <1>1, <1>2 DEF Restart, TypeOK
      <3>2. QED
        BY <1>1, <1>2, <3>1 DEF Restart, TypeOK
    <2>3. MapsTyped'
      <3>1. <<>> \in Seq(SUBSET Users) /\ Len(<<>>) = 0
        OBVIOUS
      <3>2. QED
        BY <1>2, <3>1 DEF Restart, MapsTyped
    <2>4. sock' \in [Sockets -> {"new", "open", "closed"}]
      BY <1>1, <1>2 DEF Restart, TypeOK
    <2>5. QED
      BY <1>1, <1>2, <2>1, <2>2, <2>3, <2>4 DEF Restart, MapsTyped, Typed, TypeOK, dbVars
  <1>3. CASE EditConversation
    <2>1. left' \in [messages : Nat, faults : Nat, restarts : Nat, edits : Nat]
      <3>1. left.edits - 1 \in Nat
        BY <1>1, <1>3 DEF EditConversation, TypeOK
      <3>2. QED
        BY <1>1, <1>3, <3>1 DEF EditConversation, TypeOK
    <2>2. conv' \in (SUBSET Users) \cup {Deleted}
      BY <1>1, <1>3 DEF EditConversation, TypeOK
    <2>3. HandlerOK'
      BY <1>1, <1>3 DEF EditConversation, HandlerOK
    <2>4. QED
      BY <1>1, <1>3, <2>1, <2>2, <2>3
      DEF EditConversation, Typed, TypeOK, dbVars, mapVars, timerVars
  <1>4. CASE \E k \in Sockets : Connect(k)
    <2>1. PICK k \in Sockets : Connect(k)
      BY <1>4
    <2>2. sock' \in [Sockets -> {"new", "open", "closed"}]
      BY <1>1, <2>1 DEF Connect, TypeOK
    <2>3. HandlerOK'
      BY <1>1, <2>1 DEF Connect, HandlerOK
    <2>4. QED
      BY <1>1, <2>1, <2>2, <2>3 DEF Connect, Typed, TypeOK, dbVars, mapVars, timerVars
  <1>5. QED
    BY <1>2, <1>3, <1>4

LEMMA InitTyped == ASSUME CallsAssumption, Init PROVE Typed
  <1>1. NoCall \in CallRow /\ NoPart \in PartRow
    BY DEF NoCall, NoPart, CallRow, CallStatus, Settled, PartRow
  <1>2. <<>> \in Seq(SUBSET Users) /\ Len(<<>>) = 0
    OBVIOUS
  <1>3. left \in [messages : Nat, faults : Nat, restarts : Nat, edits : Nat]
    BY DEF Init, CallsAssumption
  <1>4. HandlerOK
    BY DEF Init, HandlerOK, Idle
  <1>5. QED
    BY <1>1, <1>2, <1>3, <1>4, IdleType DEF Init, Typed, TypeOK, CallsAssumption

LEMMA StepTyped ==
    ASSUME CallsAssumption, Typed, [Next]_vars
    PROVE  Typed'
  <1>1. CASE UNCHANGED vars
    BY <1>1 DEF vars, Typed, TypeOK, HandlerOK
  <1>2. ASSUME NEW s \in Slots, Step(s) PROVE Typed'
    BY <1>2, InitiateTyped, AcceptTyped, DeclineTyped, EndTyped, AddKickTyped,
       TimerTyped, LookTyped DEF Step
  <1>3. ASSUME NEW s \in Slots, NEW k \in Sockets, Message(s, k) \/ Disconnect(s, k)
        PROVE  Typed'
    BY <1>3, MessageTyped, DisconnectTyped
  <1>4. QED
    BY <1>1, <1>2, <1>3, FaultTyped, TimerFiresTyped, AroundTyped DEF Next

\* Every variable keeps its type, and every handler in flight has its call
THEOREM TypeCorrect == Spec => []TypeOK
  <1>1. Init => Typed
    BY CallsAssumption, InitTyped
  <1>2. Typed /\ [Next]_vars => Typed'
    BY CallsAssumption, StepTyped
  <1>3. Typed => TypeOK
    BY DEF Typed
  <1>4. QED
    BY <1>1, <1>2, <1>3, PTL DEF Spec

-----------------------------------------------------------------------------
(* The rows of the calls table, and what handlers may still write            *)

\* What the record of a handler may carry
Right(c, row) == c \notin mixed => RowAgrees(row)
GoodRequest(r) == /\ Right(r.call, r.row)
                  /\ r.pc \in {"saveCall", "writeCall"} =>
                       r.row.status \in Settled \cup {"active"}

LedgerOK == /\ ColumnsAgree
            /\ \A s \in Slots : GoodRequest(req[s])

LEMMA IdleGood == GoodRequest(Idle)
  BY DEF GoodRequest, Right, RowAgrees, Idle, NoCall, Settled

\* Settling or answering a row keeps its columns in agreement
LEMMA WrittenRows ==
    ASSUME NEW row \in CallRow
    PROVE  /\ {Declined(row).status, Ended(row).status, Missed(row).status}
                \subseteq Settled
           /\ RowAgrees(row) => /\ RowAgrees(Declined(row))
                                /\ RowAgrees(Ended(row)) /\ RowAgrees(Missed(row))
           /\ RowAgrees(row) /\ row.status = "ringing" =>
                RowAgrees([row EXCEPT !.status = "active", !.startedAt = TRUE])
  BY DEF CallRow, CallStatus, Settled, RowAgrees, Declined, Ended, Missed

\* The table keeps its agreement, and what is mixed stays mixed
TableAgrees == ColumnsAgree' /\ mixed \subseteq mixed'

\* A handler moves on to a good record and the table keeps its agreement
LEMMA LedgerGoto ==
    ASSUME Typed, LedgerOK, NEW s \in Slots, NEW r, Goto(s, r), GoodRequest(r),
           TableAgrees
    PROVE  LedgerOK'
  <1>1. \A t \in Slots : GoodRequest(req[t])'
    <2> TAKE t \in Slots
    <2>1. CASE t = s
      BY <2>1 DEF Typed, TypeOK, Goto, GoodRequest, Right, TableAgrees
    <2>2. CASE t # s
      BY <2>2 DEF Typed, TypeOK, LedgerOK, Goto, GoodRequest, Right, TableAgrees
    <2>3. QED
      BY <2>1, <2>2
  <1>2. QED
    BY <1>1 DEF LedgerOK, TableAgrees

LEMMA LedgerDone ==
    ASSUME Typed, LedgerOK, NEW s \in Slots, Done(s), TableAgrees
    PROVE  LedgerOK'
  BY IdleGood, LedgerGoto DEF Done

LEMMA LedgerRead ==
    ASSUME LedgerOK, call' = call, mixed' = mixed
    PROVE  TableAgrees
  BY DEF LedgerOK, ColumnsAgree, TableAgrees

\* What a step does to the status of each call
Forward == \A c \in Calls : \/ call'[c].status = call[c].status
                            \/ call'[c].status \in Settled \cup {"active"}

\* A call is saved from a record that may be saved
LEMMA LedgerSave ==
    ASSUME Typed, LedgerOK, NEW s \in Slots, req[s].op # "idle",
           req[s].pc = "writeCall",
           SaveCall(req[s].call, req[s].row, req[s].parts, req[s].diff)
    PROVE  TableAgrees /\ Forward
  <1> DEFINE c == req[s].call
  <1>1. c \in Calls /\ req[s].row \in CallRow /\ TypeOK
    BY HandlerTypes DEF Typed
  <1>2. /\ Right(c, req[s].row)
        /\ req[s].row.status \in Settled \cup {"active"}
    BY DEF LedgerOK, GoodRequest
  <1>3. \A d \in Calls \ {c} : call'[d] = call[d]
    BY <1>1 DEF SaveCall, TypeOK
  <1>4. mixed \subseteq mixed' /\ (c \notin mixed' => call'[c] = req[s].row)
    BY DEF SaveCall
  <1>5. call'[c].status = call[c].status \/ call'[c].status = req[s].row.status
    BY <1>1 DEF SaveCall, TypeOK, CallRow
  <1>6. Forward
    BY <1>1, <1>2, <1>3, <1>5 DEF Forward
  <1>7. ColumnsAgree'
    BY <1>1, <1>2, <1>3, <1>4 DEF LedgerOK, ColumnsAgree, Right
  <1>8. QED
    BY <1>4, <1>6, <1>7 DEF TableAgrees

LEMMA ForwardRead == call' = call => Forward
  BY DEF Forward

\* An edit of the record that leaves the row alone and saves nothing
LEMMA GoodEdits ==
    ASSUME NEW r \in Request, GoodRequest(r)
    PROVE  /\ \A pc \in Pcs \ {"saveCall", "writeCall"} :
                GoodRequest([r EXCEPT !.pc = pc])
           /\ \A T : GoodRequest([r EXCEPT !.todo = T])
           /\ \A ps : GoodRequest([r EXCEPT !.parts = ps])
  BY DEF GoodRequest, Right, Request

LEMMA LoadedGood ==
    ASSUME Typed, LedgerOK, NEW s \in Slots, req[s].op # "idle",
           req[s].pc \notin {"saveCall", "writeCall"}, NEW r,
           r = [req[s] EXCEPT !.row = call[req[s].call],
                              !.parts = LinkedRows(req[s].call)]
    PROVE  GoodRequest(r) /\ r \in Request /\ r.row \in CallRow
  <1>1. r \in Request /\ r.row = call[req[s].call] /\ r.call = req[s].call
    BY LoadedRequest DEF SameHandler
  <1>2. r.pc \notin {"saveCall", "writeCall"} /\ req[s].call \in Calls
    BY HandlerTypes DEF Typed, Request
  <1>3. QED
    BY <1>1, <1>2, RowTypes DEF GoodRequest, Right, LedgerOK, ColumnsAgree, Typed

LEMMA LookLedger ==
    ASSUME Typed, LedgerOK, NEW s \in Slots, LookAtCall(s)
    PROVE  LedgerOK' /\ Forward
  <1>1. PICK r \in Request : Goto(s, r) /\ LooksAs(req[s], r)
    BY LookGoes
  <1>2. GoodRequest(r)
    BY <1>1 DEF GoodRequest, LedgerOK, LooksAs
  <1>3. TableAgrees /\ call' = call
    BY LedgerRead DEF LookAtCall, dbVars
  <1>4. QED
    BY <1>1, <1>2, <1>3, LedgerGoto, ForwardRead

LEMMA InitiateLedger ==
    ASSUME Typed, LedgerOK, NEW s \in Slots, InitiateStep(s),
           req[s].pc = "insertCall" => req[s].row.status = "ringing",
           req[s].pc = "load" => req[s].row.status = "none"
    PROVE  LedgerOK'
  <1>0. req[s].op = "initiate"
    BY DEF InitiateStep, InitiateLoad, InitiateInsertCall, InitiateInsertSelf,
           InitiateInsertPart, InitiateAnnounce, At
  <1>a. /\ req[s] \in Request /\ req[s].call \in Calls /\ TypeOK
        /\ req[s].row \in CallRow /\ req[s].todo \in SUBSET RowIds
    BY <1>0, HandlerTypes DEF Typed
  <1>b. GoodRequest(req[s])
    BY DEF LedgerOK
  <1>1. CASE InitiateLoad(s)
    <2>1. TableAgrees
      BY <1>1, LedgerRead DEF InitiateLoad, OnlyReq, dbVars
    <2>2. CASE conv = Deleted
      BY <1>1, <2>1, <2>2, LedgerDone DEF InitiateLoad
    <2>3. CASE conv # Deleted
      <3> DEFINE row == [req[s].row EXCEPT !.status = "ringing",
                                           !.initiator = req[s].user]
                 T == (conv \ {req[s].user}) \X {1}
                 r == [req[s] EXCEPT !.pc = "insertCall", !.todo = T, !.row = row]
      <3>1. Goto(s, r)
        BY <1>1, <2>3 DEF InitiateLoad
      <3>2. req[s].pc = "load" /\ req[s].row.status = "none"
        BY <1>1 DEF InitiateLoad, At
      <3>3. Right(req[s].call, row)
        BY <1>a, <1>b, <3>2 DEF GoodRequest, Right, RowAgrees, CallRow, Settled
      <3>4. r.row = row /\ r.pc = "insertCall" /\ r.call = req[s].call
        <4> HIDE DEF row, T
        <4> QED BY <1>a DEF Request
      <3>5. GoodRequest(r)
        BY <3>3, <3>4 DEF GoodRequest
      <3> HIDE DEF r
      <3>6. QED
        BY <2>1, <3>1, <3>5, LedgerGoto
    <2>4. QED
      BY <2>2, <2>3
  <1>2. CASE InitiateInsertCall(s)
    <2>1. Right(req[s].call, req[s].row)
      BY <1>b DEF GoodRequest
    <2>2. TableAgrees
      BY <1>2, <1>a, <2>1 DEF InitiateInsertCall, TypeOK, ColumnsAgree, LedgerOK,
         TableAgrees, Right
    <2>3. GoodRequest([req[s] EXCEPT !.pc = "insertSelf"])
      BY <1>a, <1>b, GoodEdits DEF Pcs
    <2>4. QED
      BY <1>2, <2>2, <2>3, LedgerGoto DEF InitiateInsertCall
  <1>3. CASE InitiateInsertSelf(s)
    <2>1. TableAgrees
      BY <1>3, LedgerRead DEF InitiateInsertSelf
    <2> DEFINE pc == IF req[s].todo = {} THEN "announce" ELSE "insertParts"
    <2>2. GoodRequest([req[s] EXCEPT !.pc = pc])
      BY <1>a, <1>b, GoodEdits DEF Pcs
    <2>3. QED
      BY <1>3, <2>1, <2>2, LedgerGoto DEF InitiateInsertSelf
  <1>4. CASE InitiateInsertPart(s)
    <2>1. TableAgrees
      BY <1>4, LedgerRead DEF InitiateInsertPart
    <2>2. PICK i \in req[s].todo : Goto(s, [req[s] EXCEPT
                       !.todo = @ \ {i},
                       !.pc = IF req[s].todo = {i} THEN "announce" ELSE @])
      BY <1>4 DEF InitiateInsertPart
    <2> DEFINE r == [req[s] EXCEPT
                       !.todo = @ \ {i},
                       !.pc = IF req[s].todo = {i} THEN "announce" ELSE @]
    <2>3. /\ r.row = req[s].row /\ r.call = req[s].call
          /\ r.pc \notin {"saveCall", "writeCall"}
      BY <1>4, <1>a DEF InitiateInsertPart, At, Request
    <2>4. GoodRequest(r)
      BY <1>b, <2>3 DEF GoodRequest
    <2> HIDE DEF r
    <2>5. Goto(s, r)
      BY <2>2 DEF r
    <2>6. QED
      BY <2>1, <2>4, <2>5, LedgerGoto
  <1>5. CASE InitiateAnnounce(s)
    BY <1>5, LedgerRead, LedgerDone DEF InitiateAnnounce, dbVars
  <1>6. QED
    BY <1>1, <1>2, <1>3, <1>4, <1>5 DEF InitiateStep

LEMMA AcceptLedger ==
    ASSUME Typed, LedgerOK, NEW s \in Slots, AcceptStep(s)
    PROVE  LedgerOK' /\ Forward
  <1>0. req[s].op = "accept"
    BY DEF AcceptStep, AcceptLoad, AcceptSaveCall, AcceptSavePart, AcceptFinish, At
  <1>a. req[s] \in Request /\ req[s].call \in Calls /\ TypeOK
    BY <1>0, HandlerTypes DEF Typed
  <1>b. GoodRequest(req[s])
    BY DEF LedgerOK
  <1>c. \A r : AfterAccept(r) \in Pcs \ {"saveCall", "writeCall"}
    BY DEF AfterAccept, Pcs
  <1>1. CASE AcceptLoad(s)
    <2> DEFINE c == req[s].call
               r == [req[s] EXCEPT !.row = call[c], !.parts = LinkedRows(c)]
               row == [call[c] EXCEPT !.status = "active", !.startedAt = TRUE]
    <2>0. req[s].pc = "load" /\ TableAgrees /\ call' = call
      BY <1>1, LedgerRead DEF AcceptLoad, At, OnlyReq, dbVars
    <2>1. /\ GoodRequest(r) /\ r \in Request /\ r.row = call[c] /\ r.call = c
      BY <1>0, <2>0, LoadedGood, LoadedRequest DEF SameHandler
    <2>2. CASE call[c].status = "ringing"
      <3>1. call[c] \in CallRow /\ Right(c, call[c])
        BY <1>a DEF TypeOK, LedgerOK, ColumnsAgree, Right
      <3>2. Right(c, row) /\ row.status = "active"
        BY <2>2, <3>1, WrittenRows DEF CallRow, Right
      <3> DEFINE up == [r EXCEPT !.pc = "saveCall", !.row = row]
      <3>3. Goto(s, up)
        BY <1>1, <2>1, <2>2 DEF AcceptLoad
      <3>4. up.row = row /\ up.call = c
        <4> HIDE DEF r, row
        <4> QED BY <2>1 DEF Request
      <3>5. GoodRequest(up)
        BY <3>2, <3>4 DEF GoodRequest
      <3> HIDE DEF up
      <3>6. QED
        BY <2>0, <3>3, <3>5, LedgerGoto, ForwardRead
    <2>3. CASE call[c].status # "ringing"
      <3>1. Goto(s, [r EXCEPT !.pc = AfterAccept(r)])
        BY <1>1, <2>3 DEF AcceptLoad
      <3> HIDE DEF r
      <3>2. GoodRequest([r EXCEPT !.pc = AfterAccept(r)])
        BY <1>c, <2>1, GoodEdits
      <3>3. QED
        BY <2>0, <3>1, <3>2, LedgerGoto, ForwardRead
    <2>4. QED
      BY <2>2, <2>3
  <1>2. CASE AcceptSaveCall(s)
    <2>1. TableAgrees /\ Forward
      BY <1>0, <1>2, LedgerSave DEF AcceptSaveCall, At
    <2>w. PICK w : w = Written(req[s])
      OBVIOUS
    <2>2. w \in Request /\ GoodRequest(w)
      BY <1>a, <1>b, <2>w, WrittenSame DEF GoodRequest, SameHandler
    <2>3. GoodRequest([w EXCEPT !.pc = AfterAccept(req[s])])
      BY <1>c, <2>2, GoodEdits
    <2>4. QED
      BY <1>2, <2>w, <2>1, <2>3, LedgerGoto DEF AcceptSaveCall
  <1>3. CASE AcceptSavePart(s)
    <2>1. TableAgrees /\ call' = call
      BY <1>3, LedgerRead DEF AcceptSavePart, SavePart
    <2>2. GoodRequest([req[s] EXCEPT !.pc = "finish"])
      BY <1>a, <1>b, GoodEdits DEF Pcs
    <2>3. QED
      BY <1>3, <2>1, <2>2, LedgerGoto, ForwardRead DEF AcceptSavePart
  <1>4. CASE AcceptFinish(s)
    BY <1>4, LedgerRead, LedgerDone, ForwardRead DEF AcceptFinish, dbVars
  <1>5. QED
    BY <1>1, <1>2, <1>3, <1>4 DEF AcceptStep

\* The records that endCall and declineCall make may be saved
LEMMA AfterGood ==
    ASSUME NEW r \in Request, Right(r.call, r.row)
    PROVE  GoodRequest(AfterDecline(r)) /\ GoodRequest(AfterLeave(r))
  <1>1. r.row \in CallRow
    BY DEF Request
  <1>2. /\ Right(r.call, Declined(r.row)) /\ Declined(r.row).status \in Settled
        /\ Right(r.call, Ended(r.row)) /\ Ended(r.row).status \in Settled
    BY <1>1, WrittenRows DEF Right
  <1> DEFINE d == Declined(r.row)
             e == Ended(r.row)
  <1>3. /\ AfterDecline(r).call = r.call
        /\ \/ AfterDecline(r).row = d
           \/ AfterDecline(r).row = r.row /\ AfterDecline(r).pc = "finish"
    <2>1. \/ AfterDecline(r) = [r EXCEPT !.pc = "saveCall", !.row = d]
          \/ AfterDecline(r) = [r EXCEPT !.pc = "finish"]
      BY DEF AfterDecline
    <2> HIDE DEF d
    <2>2. QED
      BY <2>1 DEF Request
  <1>4. /\ AfterLeave(r).call = r.call
        /\ \/ AfterLeave(r).row = e
           \/ AfterLeave(r).row = r.row /\ AfterLeave(r).pc = "left"
    <2>1. \/ AfterLeave(r) = [r EXCEPT !.pc = "saveCall", !.row = e]
          \/ AfterLeave(r) = [r EXCEPT !.pc = "left"]
      BY DEF AfterLeave
    <2> HIDE DEF e
    <2>2. QED
      BY <2>1 DEF Request
  <1>5. GoodRequest(AfterDecline(r))
    BY <1>2, <1>3 DEF GoodRequest
  <1>6. GoodRequest(AfterLeave(r))
    BY <1>2, <1>4 DEF GoodRequest
  <1>7. QED
    BY <1>5, <1>6

LEMMA DeclineLedger ==
    ASSUME Typed, LedgerOK, NEW s \in Slots, DeclineStep(s)
    PROVE  LedgerOK' /\ Forward
  <1>0. req[s].op = "decline"
    BY DEF DeclineStep, DeclineLoad, DeclineSaveCall, DeclineSavePart, DeclineFinish, At
  <1>a. /\ req[s] \in Request /\ req[s].call \in Calls /\ TypeOK
        /\ req[s].parts \in [RowIds -> PartRow]
    BY <1>0, HandlerTypes DEF Typed
  <1>b. GoodRequest(req[s])
    BY DEF LedgerOK
  <1>1. CASE DeclineLoad(s)
    <2> DEFINE r == [req[s] EXCEPT !.row = call[req[s].call],
                                   !.parts = LinkedRows(req[s].call)]
    <2>0. req[s].pc = "load" /\ TableAgrees /\ call' = call
      BY <1>1, LedgerRead DEF DeclineLoad, At, OnlyReq, dbVars
    <2>1. GoodRequest(r) /\ r \in Request
      BY <1>0, <2>0, LoadedGood
    <2>2. r.pc = "load"
      BY <1>a, <2>0 DEF Request
    <2>3. Goto(s, AfterDecline(r)) \/ Goto(s, [r EXCEPT !.pc = "savePart"])
      BY <1>1 DEF DeclineLoad
    <2> HIDE DEF r
    <2>4. GoodRequest(AfterDecline(r))
      BY <2>1, <2>2, AfterGood DEF GoodRequest
    <2>5. GoodRequest([r EXCEPT !.pc = "savePart"])
      BY <2>1, GoodEdits DEF Pcs
    <2>6. QED
      BY <2>0, <2>3, <2>4, <2>5, LedgerGoto, ForwardRead
  <1>2. CASE DeclineSavePart(s)
    <2>1. PICK i \in RowsOf(req[s].parts, req[s].user) :
            Goto(s, AfterDecline([req[s] EXCEPT !.parts[i] =
                     [req[s].parts[i] EXCEPT !.status = "declined"]]))
      BY <1>2 DEF DeclineSavePart
    <2> DEFINE ps == [req[s].parts EXCEPT ![i] =
                        [req[s].parts[i] EXCEPT !.status = "declined"]]
               r  == [req[s] EXCEPT !.parts = ps]
    <2>2. i \in RowIds /\ req[s].pc = "savePart"
      BY <1>2 DEF RowsOf, Rows, DeclineSavePart, At
    <2>3. [req[s].parts[i] EXCEPT !.status = "declined"] \in PartRow
      BY <1>a, <2>2, PartTypes DEF PartStatus
    <2>4. ps \in [RowIds -> PartRow]
      BY <1>a, <2>3
    <2>5. r \in Request /\ Right(r.call, r.row)
      <3> HIDE DEF ps
      <3>1. r \in Request
        BY <1>a, <2>4, RequestEdits
      <3>2. r.row = req[s].row /\ r.call = req[s].call
        BY <1>a DEF Request
      <3>3. QED
        BY <1>b, <2>2, <3>1, <3>2 DEF GoodRequest
    <2>6. Goto(s, AfterDecline(r))
      BY <2>1
    <2>7. TableAgrees /\ call' = call
      BY <1>2, LedgerRead DEF DeclineSavePart, SavePart
    <2> HIDE DEF r
    <2>8. QED
      BY <2>5, <2>6, <2>7, AfterGood, LedgerGoto, ForwardRead
  <1>3. CASE DeclineSaveCall(s)
    <2>1. TableAgrees /\ Forward
      BY <1>0, <1>3, LedgerSave DEF DeclineSaveCall, At
    <2>w. PICK w : w = Written(req[s])
      OBVIOUS
    <2>2. w \in Request /\ GoodRequest(w)
      BY <1>a, <1>b, <2>w, WrittenSame DEF GoodRequest, SameHandler
    <2>3. GoodRequest([w EXCEPT !.pc = "finish"])
      BY <2>2, GoodEdits DEF Pcs
    <2>4. QED
      BY <1>3, <2>w, <2>1, <2>3, LedgerGoto DEF DeclineSaveCall
  <1>4. CASE DeclineFinish(s)
    BY <1>4, LedgerRead, LedgerDone, ForwardRead DEF DeclineFinish, dbVars
  <1>5. QED
    BY <1>1, <1>2, <1>3, <1>4 DEF DeclineStep

\* The disconnect loop goes on with a record that saves nothing yet
LEMMA SweepGood ==
    ASSUME NEW r \in Request, GoodRequest(r), NEW act, NEW ros,
           NEW q \in Sweep(r, act, ros)
    PROVE  GoodRequest(q)
  <1>1. CASE q = Idle
    BY <1>1, IdleGood
  <1>2. CASE q # Idle
    <2>1. PICK c \in Calls :
            q = [r EXCEPT !.pc = "load", !.call = c, !.held = act[c], !.todo = {},
                          !.row = NoCall, !.seen = @ \cup {<<c, act[c]>>}]
      BY <1>2 DEF Sweep
    <2> DEFINE sn == r.seen \cup {<<c, act[c]>>}
               h  == act[c]
    <2>2. q = [r EXCEPT !.pc = "load", !.call = c, !.held = h, !.todo = {},
                     !.row = NoCall, !.seen = sn]
      BY <2>1 DEF Request
    <2> HIDE DEF sn, h
    <2>3. q.row = NoCall /\ q.pc = "load"
      <3> HIDE DEF NoCall
      <3> QED BY <2>2 DEF Request
    <2>4. QED
      BY <2>3 DEF GoodRequest, Right, RowAgrees, NoCall, Settled
  <1>3. QED
    BY <1>1, <1>2

LEMMA EndLedger ==
    ASSUME Typed, LedgerOK, NEW s \in Slots, EndStep(s)
    PROVE  LedgerOK' /\ Forward
  <1>0. req[s].op = "end" \/ req[s].op = "disconnect"
    BY DEF EndStep, EndLoad, EndSavePart, EndSaveCall, EndSaveRest, EndFinish,
           DisconnectFinish, Ending, At
  <1>a. /\ req[s] \in Request /\ req[s].call \in Calls /\ TypeOK
    BY <1>0, HandlerTypes DEF Typed
  <1>b. GoodRequest(req[s])
    BY DEF LedgerOK
  <1>1. CASE EndLoad(s)
    <2> DEFINE r == [req[s] EXCEPT !.row = call[req[s].call],
                                   !.parts = LinkedRows(req[s].call)]
    <2>0. req[s].pc = "load" /\ TableAgrees /\ call' = call
      BY <1>1, LedgerRead DEF EndLoad, Ending, At, OnlyReq, dbVars
    <2>1. GoodRequest(r) /\ r \in Request
      BY <1>0, <2>0, LoadedGood
    <2>2. r.pc = "load"
      BY <1>a, <2>0 DEF Request
    <2>3. \/ Goto(s, AfterLeave(r))
          \/ \E i \in RowIds :
               Goto(s, [r EXCEPT !.pc = "savePart", !.todo = {i},
                                 !.parts[i] = HasLeft(@)])
      BY <1>1 DEF EndLoad, JoinedRows
    <2> HIDE DEF r
    <2>4. CASE Goto(s, AfterLeave(r))
      BY <2>0, <2>1, <2>2, <2>4, AfterGood, LedgerGoto, ForwardRead DEF GoodRequest
    <2>5. ASSUME NEW i \in RowIds,
                 Goto(s, [r EXCEPT !.pc = "savePart", !.todo = {i},
                                   !.parts[i] = HasLeft(@)])
          PROVE  LedgerOK' /\ Forward
      <3> DEFINE ps == [r.parts EXCEPT ![i] = HasLeft(@)]
                 q == [r EXCEPT !.pc = "savePart", !.todo = {i}, !.parts = ps]
      <3>1. Goto(s, q)
        BY <2>1, <2>5 DEF Request
      <3>2. q.row = r.row /\ q.call = r.call /\ q.pc = "savePart"
        <4> HIDE DEF ps
        <4> QED BY <2>1 DEF Request
      <3>3. GoodRequest(q)
        BY <2>1, <3>2 DEF GoodRequest
      <3> HIDE DEF q
      <3>4. QED
        BY <2>0, <3>1, <3>3, LedgerGoto, ForwardRead
    <2>6. QED
      BY <2>3, <2>4, <2>5
  <1>2. CASE EndSavePart(s)
    <2> DEFINE r == [req[s] EXCEPT !.todo = {}]
    <2>1. r \in Request
      BY <1>a, RequestEdits
    <2>2. r.row = req[s].row /\ r.call = req[s].call
      BY <1>2, <1>a DEF EndSavePart, Ending, At, Request
    <2>3. TableAgrees /\ call' = call /\ Goto(s, AfterLeave(r))
      BY <1>2, LedgerRead DEF EndSavePart, SavePart
    <2> HIDE DEF r
    <2>4. GoodRequest(AfterLeave(r))
      BY <1>b, <2>1, <2>2, AfterGood DEF GoodRequest
    <2>5. QED
      BY <2>3, <2>4, LedgerGoto, ForwardRead
  <1>3. CASE EndSaveCall(s)
    <2>1. TableAgrees /\ Forward
      BY <1>0, <1>3, LedgerSave DEF EndSaveCall, Ending, At
    <2> DEFINE T == JoinedRows(req[s].parts)
               pc == IF T = {} THEN "ended" ELSE "saveRest"
               w == Written(req[s])
               r == [w EXCEPT !.todo = T, !.pc = pc]
    <2>2. Goto(s, r)
      BY <1>3 DEF EndSaveCall
    <2>3. r.row = req[s].row /\ r.call = req[s].call /\ r.pc = pc
      <3>1. w \in Request /\ w.row = req[s].row /\ w.call = req[s].call
        BY <1>a, WrittenSame DEF SameHandler
      <3> HIDE DEF T, pc, w
      <3> QED BY <3>1 DEF Request
    <2>4. GoodRequest(r)
      BY <1>b, <2>3 DEF GoodRequest
    <2> HIDE DEF r
    <2>5. QED
      BY <2>1, <2>2, <2>4, LedgerGoto
  <1>4. CASE EndSaveRest(s)
    <2>1. PICK i \in req[s].todo : Goto(s, [req[s] EXCEPT
                       !.todo = @ \ {i},
                       !.pc = IF req[s].todo = {i} THEN "ended" ELSE @])
      BY <1>4 DEF EndSaveRest
    <2> DEFINE r == [req[s] EXCEPT
                       !.todo = @ \ {i},
                       !.pc = IF req[s].todo = {i} THEN "ended" ELSE @]
    <2>2. /\ r.row = req[s].row /\ r.call = req[s].call
          /\ r.pc \notin {"saveCall", "writeCall"}
      BY <1>4, <1>a DEF EndSaveRest, Ending, At, Request
    <2>3. GoodRequest(r)
      BY <1>b, <2>2 DEF GoodRequest
    <2>4. TableAgrees /\ call' = call
      BY <1>4, LedgerRead DEF EndSaveRest, SavePart
    <2> HIDE DEF r
    <2>5. Goto(s, r)
      BY <2>1 DEF r
    <2>6. QED
      BY <2>3, <2>4, <2>5, LedgerGoto, ForwardRead
  <1>5. CASE EndFinish(s)
    BY <1>5, LedgerRead, LedgerDone, ForwardRead DEF EndFinish, dbVars
  <1>6. CASE DisconnectFinish(s)
    <2>1. PICK q \in Sweep(req[s], active', roster') : Goto(s, q)
      BY <1>6 DEF DisconnectFinish
    <2>2. GoodRequest(q)
      BY <1>a, <1>b, <2>1, SweepGood
    <2>3. TableAgrees /\ call' = call
      BY <1>6, LedgerRead DEF DisconnectFinish, dbVars
    <2>4. QED
      BY <2>1, <2>2, <2>3, LedgerGoto, ForwardRead
  <1>7. QED
    BY <1>1, <1>2, <1>3, <1>4, <1>5, <1>6 DEF EndStep

LEMMA AddKickLedger ==
    ASSUME Typed, LedgerOK, NEW s \in Slots, AddKickStep(s)
    PROVE  LedgerOK' /\ Forward
  <1>0. req[s].op \in {"add", "kick"}
    BY DEF AddKickStep, AddLoad, AddInsert, AddFinish, KickLoad, KickSavePart,
           KickFinish, At
  <1>a. req[s] \in Request
    BY <1>0, HandlerTypes DEF Typed
  <1>b. GoodRequest(req[s])
    BY DEF LedgerOK
  <1>c. TableAgrees /\ call' = call
    BY LedgerRead DEF AddKickStep, AddLoad, AddInsert, AddFinish, KickLoad,
         KickSavePart, KickFinish, SavePart, OnlyReq, dbVars
  <1>d. GoodRequest([req[s] EXCEPT !.pc = "finish"])
    BY <1>a, <1>b, GoodEdits DEF Pcs
  <1>1. CASE AddLoad(s)
    <2> DEFINE r == [req[s] EXCEPT !.pc = "insert", !.gone = (conv = Deleted)]
    <2>1. Done(s) \/ Goto(s, r)
      BY <1>1 DEF AddLoad
    <2>2. GoodRequest(r)
      BY <1>a, <1>b DEF GoodRequest, Right, Request
    <2> HIDE DEF r
    <2>3. QED
      BY <1>c, <2>1, <2>2, LedgerDone, LedgerGoto, ForwardRead
  <1>2. CASE KickLoad(s)
    <2> DEFINE parts == LinkedRows(req[s].call)
    <2>1. \/ Done(s)
          \/ \E i \in RowIds : Goto(s, [req[s] EXCEPT !.pc = "savePart",
                                                     !.parts = parts, !.todo = {i}])
      BY <1>2 DEF KickLoad, JoinedRows
    <2> HIDE DEF parts
    <2>2. \A i \in RowIds :
            GoodRequest([req[s] EXCEPT !.pc = "savePart", !.parts = parts, !.todo = {i}])
      BY <1>a, <1>b DEF GoodRequest, Right, Request
    <2>3. QED
      BY <1>c, <2>1, <2>2, LedgerDone, LedgerGoto, ForwardRead
  <1>3. CASE AddInsert(s) \/ AddFinish(s) \/ KickSavePart(s) \/ KickFinish(s)
    <2>1. Done(s) \/ Goto(s, [req[s] EXCEPT !.pc = "finish"])
      BY <1>3 DEF AddInsert, AddFinish, KickSavePart, KickFinish
    <2>2. QED
      BY <1>c, <1>d, <2>1, LedgerDone, LedgerGoto, ForwardRead
  <1>4. QED
    BY <1>1, <1>2, <1>3 DEF AddKickStep

LEMMA TimerLedger ==
    ASSUME Typed, LedgerOK, NEW s \in Slots, TimerStep(s)
    PROVE  LedgerOK' /\ Forward
  <1>0. req[s].op = "timer"
    BY DEF TimerStep, TimerCheck, TimerLoad, TimerSaveCall, TimerSaveRest, TimerFinish, At
  <1>a. req[s] \in Request /\ req[s].call \in Calls /\ TypeOK
    BY <1>0, HandlerTypes DEF Typed
  <1>b. GoodRequest(req[s])
    BY DEF LedgerOK
  <1>c. \A pc \in {"load", "finish"} : GoodRequest([req[s] EXCEPT !.pc = pc])
    BY <1>a, <1>b, GoodEdits DEF Pcs
  <1>1. CASE TimerCheck(s)
    <2>1. TableAgrees /\ call' = call
      BY <1>1, LedgerRead DEF TimerCheck, OnlyReq, dbVars
    <2>2. \E pc \in {"load", "finish"} : Goto(s, [req[s] EXCEPT !.pc = pc])
      BY <1>1 DEF TimerCheck
    <2>3. QED
      BY <1>c, <2>1, <2>2, LedgerGoto, ForwardRead
  <1>2. CASE TimerLoad(s)
    <2> DEFINE row == Missed(call[req[s].call])
               ps  == LinkedRows(req[s].call)
               r == [req[s] EXCEPT !.pc = "saveCall", !.row = row, !.parts = ps]
    <2>1. TableAgrees /\ call' = call
      BY <1>2, LedgerRead DEF TimerLoad, OnlyReq, dbVars
    <2>2. Right(req[s].call, row) /\ row.status \in Settled
      BY <1>a, WrittenRows DEF LedgerOK, ColumnsAgree, TypeOK, Right
    <2>3. r.row = row /\ r.call = req[s].call
      <3> HIDE DEF row, ps
      <3> QED BY <1>a DEF Request
    <2>4. GoodRequest(r)
      BY <2>2, <2>3 DEF GoodRequest
    <2>5. Goto(s, r) \/ Goto(s, [req[s] EXCEPT !.pc = "finish"])
      BY <1>2 DEF TimerLoad
    <2> HIDE DEF r
    <2>6. QED
      BY <1>c, <2>1, <2>4, <2>5, LedgerGoto, ForwardRead
  <1>3. CASE TimerSaveCall(s)
    <2>1. TableAgrees /\ Forward
      BY <1>0, <1>3, LedgerSave DEF TimerSaveCall, At
    <2> DEFINE T == {i \in RowIds : req[s].parts[i].status = "invited"}
               pc == IF T = {} THEN "finish" ELSE "saveRest"
               w == Written(req[s])
               r == [w EXCEPT !.todo = T, !.pc = pc]
    <2>2. Goto(s, r)
      BY <1>3 DEF TimerSaveCall
    <2>3. r.row = req[s].row /\ r.call = req[s].call /\ r.pc = pc
      <3>1. w \in Request /\ w.row = req[s].row /\ w.call = req[s].call
        BY <1>a, WrittenSame DEF SameHandler
      <3> HIDE DEF T, pc, w
      <3> QED BY <3>1 DEF Request
    <2>4. GoodRequest(r)
      BY <1>b, <2>3 DEF GoodRequest
    <2> HIDE DEF r
    <2>5. QED
      BY <2>1, <2>2, <2>4, LedgerGoto
  <1>4. CASE TimerSaveRest(s)
    <2>1. PICK i \in req[s].todo : Goto(s, [req[s] EXCEPT
                       !.todo = @ \ {i},
                       !.pc = IF req[s].todo = {i} THEN "finish" ELSE @])
      BY <1>4 DEF TimerSaveRest
    <2> DEFINE r == [req[s] EXCEPT
                       !.todo = @ \ {i},
                       !.pc = IF req[s].todo = {i} THEN "finish" ELSE @]
    <2>2. /\ r.row = req[s].row /\ r.call = req[s].call
          /\ r.pc \notin {"saveCall", "writeCall"}
      BY <1>4, <1>a DEF TimerSaveRest, At, Request
    <2>3. GoodRequest(r)
      BY <1>b, <2>2 DEF GoodRequest
    <2>4. TableAgrees /\ call' = call
      BY <1>4, LedgerRead DEF TimerSaveRest, SavePart
    <2> HIDE DEF r
    <2>5. Goto(s, r)
      BY <2>1 DEF r
    <2>6. QED
      BY <2>3, <2>4, <2>5, LedgerGoto, ForwardRead
  <1>5. CASE TimerFinish(s)
    BY <1>5, LedgerRead, LedgerDone, ForwardRead DEF TimerFinish, dbVars
  <1>6. QED
    BY <1>1, <1>2, <1>3, <1>4, <1>5 DEF TimerStep

-----------------------------------------------------------------------------
(* A call has no row until its initiate inserts it, and until then nobody  *)
(* else works on it.                                                       *)

Born(c) == call[c].status # "none"

\* An initiate that has not inserted its call yet
Starting(r) == r.op = "initiate" /\ r.pc \in {"load", "insertCall"}

\* A request matches the table: its call has a row, unless it is to insert it
Fits(tab, r) == IF Starting(r)
                THEN /\ tab[r.call].status = "none"
                     /\ r.row.status = IF r.pc = "load" THEN "none" ELSE "ringing"
                ELSE tab[r.call].status # "none"

UnbornOK ==
    /\ \A c \in Calls : ~Born(c) => told[c] = {} /\ active[c] = 0 /\ c \notin armed
    /\ \A s \in Slots : req[s].op # "idle" => Fits(call, req[s])
    /\ \A s, t \in Slots : s # t /\ Starting(req[s]) /\ Starting(req[t])
                               => req[s].call # req[t].call

\* The slot's handler goes on with the same call, or ends
Kept(s) == /\ \A t \in Slots \ {s} : req'[t] = req[t]
           /\ \/ req'[s].op = "idle"
              \/ req'[s].op = req[s].op /\ req'[s].call = req[s].call

LEMMA GotoKeeps ==
    ASSUME Typed, NEW s \in Slots, NEW r, Goto(s, r),
           r.op = "idle" \/ (r.op = req[s].op /\ r.call = req[s].call)
    PROVE  Kept(s)
  BY DEF Kept, Goto, Typed, TypeOK

LEMMA DoneKeeps ==
    ASSUME Typed, NEW s \in Slots, Done(s)
    PROVE  Kept(s)
  <1>1. Idle.op = "idle"
    BY DEF Idle
  <1>2. QED
    BY <1>1 DEF Done, Goto, Kept, Typed, TypeOK

LEMMA AfterKeeps ==
    ASSUME NEW r \in Request
    PROVE  /\ AfterDecline(r).op = r.op /\ AfterDecline(r).call = r.call
           /\ AfterLeave(r).op = r.op /\ AfterLeave(r).call = r.call
  <1>1. \A row : /\ [r EXCEPT !.pc = "saveCall", !.row = row].op = r.op
                 /\ [r EXCEPT !.pc = "saveCall", !.row = row].call = r.call
    BY DEF Request
  <1>2. \A pc : [r EXCEPT !.pc = pc].op = r.op /\ [r EXCEPT !.pc = pc].call = r.call
    BY DEF Request
  <1>3. QED
    BY <1>1, <1>2 DEF AfterDecline, AfterLeave

Same(q, r) == q.op = r.op /\ q.call = r.call

\* Edits of a record that leave its operation and its call alone
LEMMA KeptEdits ==
    ASSUME NEW r \in Request
    PROVE  /\ \A pc : Same([r EXCEPT !.pc = pc], r)
           /\ \A ps : Same([r EXCEPT !.parts = ps], r)
           /\ \A T : Same([r EXCEPT !.todo = T], r)
           /\ \A ps, pc, row : Same([r EXCEPT !.parts = ps, !.pc = pc, !.row = row], r)
           /\ \A row, ps : Same([r EXCEPT !.row = row, !.parts = ps], r)
           /\ \A pc, row : Same([r EXCEPT !.pc = pc, !.row = row], r)
           /\ \A pc, row, ps : Same([r EXCEPT !.pc = pc, !.row = row, !.parts = ps], r)
           /\ \A pc, T, ps : Same([r EXCEPT !.pc = pc, !.todo = T, !.parts = ps], r)
           /\ \A pc, T, ps : Same([r EXCEPT !.pc = pc, !.parts = ps, !.todo = T], r)
           /\ \A T, pc : Same([r EXCEPT !.todo = T, !.pc = pc], r)
           /\ \A pc, T, row : Same([r EXCEPT !.pc = pc, !.todo = T, !.row = row], r)
           /\ \A pc, g : Same([r EXCEPT !.pc = pc, !.gone = g], r)
  BY DEF Request, Same

LEMMA StepKeeps ==
    ASSUME Typed, NEW s \in Slots, Step(s), ~DisconnectFinish(s)
    PROVE  Kept(s) /\ req[s].op # "idle"
  <1> DEFINE r == req[s]
             w == Written(req[s])
  <1>0. req[s].op # "idle"
    BY DEF Step, InitiateStep, InitiateLoad, InitiateInsertCall, InitiateInsertSelf,
           InitiateInsertPart, InitiateAnnounce, AcceptStep, AcceptLoad,
           AcceptSaveCall, AcceptSavePart, AcceptFinish, DeclineStep, DeclineLoad,
           DeclineSavePart, DeclineSaveCall, DeclineFinish, EndStep, EndLoad,
           EndSavePart, EndSaveCall, EndSaveRest, EndFinish, AddKickStep, AddLoad,
           AddInsert, AddFinish, KickLoad, KickSavePart, KickFinish, TimerStep,
           TimerCheck, TimerLoad, TimerSaveCall, TimerSaveRest, TimerFinish,
           LookAtCall, Saving, Ending, At
  <1>a. r \in Request
    BY <1>0, HandlerTypes DEF Typed
  <1>w. w \in Request /\ Same(w, r)
    BY <1>a, WrittenSame DEF SameHandler, Same
  <1>k. \A q : Same(q, w) => Same(q, r)
    BY <1>w DEF Same
  <1> HIDE DEF w
  <1>1. SUFFICES \/ Done(s)
                 \/ \E q : Goto(s, q) /\ Same(q, r)
    BY <1>0, <1>1, DoneKeeps, GotoKeeps DEF Same
  <1>2. CASE InitiateStep(s)
    <2>1. CASE InitiateLoad(s)
      <3>1. \/ Done(s)
            \/ \E T, row : Goto(s, [r EXCEPT !.pc = "insertCall", !.todo = T, !.row = row])
        BY <2>1 DEF InitiateLoad
      <3>2. QED
        BY <1>a, <3>1, KeptEdits
    <2>2. CASE InitiateInsertCall(s) \/ InitiateInsertSelf(s)
      <3>1. \E pc : Goto(s, [r EXCEPT !.pc = pc])
        BY <2>2 DEF InitiateInsertCall, InitiateInsertSelf
      <3>2. QED
        BY <1>a, <3>1, KeptEdits
    <2>3. CASE InitiateInsertPart(s)
      <3>1. \E pc, T : Goto(s, [r EXCEPT !.todo = T, !.pc = pc])
        BY <2>3, <1>a DEF InitiateInsertPart, Request
      <3>2. QED
        BY <1>a, <3>1, KeptEdits
    <2>4. QED
      BY <1>2, <2>1, <2>2, <2>3 DEF InitiateStep, InitiateAnnounce
  <1>3. CASE AcceptStep(s)
    <2>1. CASE AcceptLoad(s)
      <3> DEFINE q == [r EXCEPT !.row = call[r.call], !.parts = LinkedRows(r.call)]
      <3>1. /\ q \in Request /\ Same(q, r)
        BY <1>0, LoadedRequest DEF SameHandler, Same
      <3>2. \E pc, row : Goto(s, [q EXCEPT !.pc = pc, !.row = row])
        <4>1. CASE call[r.call].status = "ringing"
          BY <2>1, <3>1, <4>1 DEF AcceptLoad, Request
        <4>2. CASE call[r.call].status # "ringing"
          <5>1. Goto(s, [q EXCEPT !.pc = AfterAccept(q)])
            BY <2>1, <4>2 DEF AcceptLoad
          <5> HIDE DEF q
          <5>2. [q EXCEPT !.pc = AfterAccept(q)] = [q EXCEPT !.pc = AfterAccept(q), !.row = q.row]
            BY <3>1 DEF Request
          <5>3. QED
            BY <5>1, <5>2
        <4>3. QED
          BY <4>1, <4>2
      <3> HIDE DEF q
      <3>3. \E z : Goto(s, z) /\ Same(z, q)
        BY <3>1, <3>2, KeptEdits
      <3>4. QED
        BY <3>1, <3>3 DEF Same
    <2>2. CASE AcceptSaveCall(s) \/ AcceptSavePart(s)
      <3>1. \E pc : Goto(s, [r EXCEPT !.pc = pc]) \/ Goto(s, [w EXCEPT !.pc = pc])
        BY <2>2 DEF AcceptSaveCall, AcceptSavePart, w
      <3>2. QED
        BY <1>a, <1>w, <1>k, <3>1, KeptEdits
    <2>3. QED
      BY <1>3, <2>1, <2>2 DEF AcceptStep, AcceptFinish
  <1>4. CASE DeclineStep(s)
    <2>1. CASE DeclineLoad(s)
      <3> DEFINE q == [r EXCEPT !.row = call[r.call], !.parts = LinkedRows(r.call)]
      <3>1. /\ q \in Request /\ Same(q, r)
        BY <1>0, LoadedRequest DEF SameHandler, Same
      <3>2. Goto(s, AfterDecline(q)) \/ Goto(s, [q EXCEPT !.pc = "savePart"])
        BY <2>1 DEF DeclineLoad
      <3> HIDE DEF q
      <3>3. Same(AfterDecline(q), q) /\ Same([q EXCEPT !.pc = "savePart"], q)
        BY <3>1, KeptEdits, AfterKeeps DEF Same
      <3>4. QED
        BY <3>1, <3>2, <3>3 DEF Same
    <2>2. CASE DeclineSavePart(s)
      <3>0. PICK i \in RowsOf(r.parts, r.user) :
              \E ps : /\ ps = [r.parts EXCEPT ![i] = [r.parts[i] EXCEPT !.status = "declined"]]
                      /\ Goto(s, AfterDecline([r EXCEPT !.parts = ps]))
        BY <2>2 DEF DeclineSavePart
      <3>1. PICK ps :
              /\ ps = [r.parts EXCEPT ![i] = [r.parts[i] EXCEPT !.status = "declined"]]
              /\ Goto(s, AfterDecline([r EXCEPT !.parts = ps]))
        BY <3>0
      <3>2. i \in RowIds /\ r.parts \in [RowIds -> PartRow]
        BY <1>a DEF RowsOf, Rows, Request
      <3>3. [r.parts[i] EXCEPT !.status = "declined"] \in PartRow
        BY <3>2, PartTypes DEF PartStatus
      <3>4. ps \in [RowIds -> PartRow]
        BY <3>1, <3>2, <3>3
      <3> DEFINE q == [r EXCEPT !.parts = ps]
      <3>5. q \in Request /\ Same(q, r)
        BY <1>a, <3>4, RequestEdits, KeptEdits
      <3>6. Goto(s, AfterDecline(q))
        BY <3>1
      <3> HIDE DEF q
      <3>7. QED
        BY <3>5, <3>6, AfterKeeps DEF Same
    <2>3. CASE DeclineSaveCall(s)
      <3>1. Goto(s, [w EXCEPT !.pc = "finish"])
        BY <2>3 DEF DeclineSaveCall, w
      <3>2. QED
        BY <1>w, <1>k, <3>1, KeptEdits
    <2>4. QED
      BY <1>4, <2>1, <2>2, <2>3 DEF DeclineStep, DeclineFinish
  <1>5. CASE EndStep(s)
    <2>1. CASE EndLoad(s)
      <3> DEFINE q == [r EXCEPT !.row = call[r.call], !.parts = LinkedRows(r.call)]
      <3>1. /\ q \in Request /\ Same(q, r)
        BY <1>0, LoadedRequest DEF SameHandler, Same
      <3>2. \/ Goto(s, AfterLeave(q))
            \/ \E T, ps : Goto(s, [q EXCEPT !.pc = "savePart", !.todo = T, !.parts = ps])
        <4>1. \/ Goto(s, AfterLeave(q))
              \/ \E i \in RowIds : Goto(s, [q EXCEPT !.pc = "savePart", !.todo = {i},
                                                    !.parts[i] = HasLeft(@)])
          BY <2>1 DEF EndLoad, JoinedRows
        <4> HIDE DEF q
        <4>2. QED
          BY <3>1, <4>1 DEF Request
      <3> HIDE DEF q
      <3>3. /\ Same(AfterLeave(q), q)
            /\ \A T, ps : Same([q EXCEPT !.pc = "savePart", !.todo = T, !.parts = ps], q)
        BY <3>1, KeptEdits, AfterKeeps DEF Same
      <3>4. \E z : Goto(s, z) /\ Same(z, q)
        BY <3>2, <3>3
      <3>5. QED
        BY <3>1, <3>4 DEF Same
    <2>2. CASE EndSavePart(s)
      <3> DEFINE q == [r EXCEPT !.todo = {}]
      <3>1. q \in Request /\ Same(q, r)
        BY <1>a, RequestEdits, KeptEdits
      <3>2. Goto(s, AfterLeave(q))
        BY <2>2 DEF EndSavePart
      <3> HIDE DEF q
      <3>3. QED
        BY <3>1, <3>2, AfterKeeps DEF Same
    <2>3. CASE EndSaveCall(s) \/ EndSaveRest(s)
      <3>1. \E T, pc : \/ Goto(s, [r EXCEPT !.todo = T, !.pc = pc])
                       \/ Goto(s, [w EXCEPT !.todo = T, !.pc = pc])
        BY <2>3, <1>a DEF EndSaveCall, EndSaveRest, Request, w
      <3>2. QED
        BY <1>a, <1>w, <1>k, <3>1, KeptEdits
    <2>4. QED
      BY <1>5, <2>1, <2>2, <2>3 DEF EndStep, EndFinish
  <1>6. CASE AddKickStep(s)
    <2>1. \/ Done(s)
          \/ \E pc, g : Goto(s, [r EXCEPT !.pc = pc, !.gone = g])
          \/ \E pc, T, ps : Goto(s, [r EXCEPT !.pc = pc, !.parts = ps, !.todo = T])
          \/ Goto(s, [r EXCEPT !.pc = "finish"])
      BY <1>6 DEF AddKickStep, AddLoad, AddInsert, AddFinish, KickLoad,
                  KickSavePart, KickFinish
    <2>2. QED
      BY <1>a, <2>1, KeptEdits
  <1>7. CASE TimerStep(s)
    <2>1. CASE TimerCheck(s)
      <3>1. \E pc : Goto(s, [r EXCEPT !.pc = pc])
        BY <2>1 DEF TimerCheck
      <3>2. QED
        BY <1>a, <3>1, KeptEdits
    <2>2. CASE TimerLoad(s)
      <3>1. \/ \E pc, row, ps : Goto(s, [r EXCEPT !.pc = pc, !.row = row, !.parts = ps])
            \/ Goto(s, [r EXCEPT !.pc = "finish"])
        BY <2>2 DEF TimerLoad
      <3>2. QED
        BY <1>a, <3>1, KeptEdits
    <2>3. CASE TimerSaveCall(s) \/ TimerSaveRest(s)
      <3>1. \E T, pc : \/ Goto(s, [r EXCEPT !.todo = T, !.pc = pc])
                       \/ Goto(s, [w EXCEPT !.todo = T, !.pc = pc])
        BY <2>3, <1>a DEF TimerSaveCall, TimerSaveRest, Request, w
      <3>2. QED
        BY <1>a, <1>w, <1>k, <3>1, KeptEdits
    <2>4. QED
      BY <1>7, <2>1, <2>2, <2>3 DEF TimerStep, TimerFinish
  <1>8. CASE LookAtCall(s)
    BY <1>8, LookGoes DEF LooksAs, Same
  <1>9. QED
    BY <1>2, <1>3, <1>4, <1>5, <1>6, <1>7, <1>8 DEF Step

\* Only slot s changes, and what it now carries fits the table
LEMMA SlotUnborn ==
    ASSUME Typed, UnbornOK, NEW s \in Slots,
           \A t \in Slots \ {s} : req'[t] = req[t],
           \A c \in Calls : Born(c) => call'[c].status # "none",
           \A c \in Calls : call'[c].status = "none" =>
                              told'[c] = {} /\ active'[c] = 0 /\ c \notin armed',
           \A t \in Slots \ {s} :
             req[t].op # "idle" /\ Starting(req[t])
               => call'[req[t].call].status = "none",
           req'[s].op # "idle" => Fits(call', req'[s]),
           \A t \in Slots \ {s} : Starting(req'[s]) /\ Starting(req[t])
                                   => req'[s].call # req[t].call
    PROVE  UnbornOK'
  <1>1. \A c \in Calls : (~Born(c))' => told'[c] = {} /\ active'[c] = 0 /\ c \notin armed'
    BY DEF Born
  <1>2. ASSUME NEW t \in Slots, req'[t].op # "idle" PROVE Fits(call', req'[t])
    <2>1. CASE t = s
      BY <1>2, <2>1
    <2>2. CASE t # s
      <3>1. Fits(call, req[t]) /\ req'[t] = req[t] /\ req[t].call \in Calls
        BY <1>2, <2>2, HandlerTypes DEF Typed, UnbornOK
      <3>2. QED
        BY <1>2, <2>2, <3>1 DEF Fits, Born
    <2>3. QED
      BY <2>1, <2>2
  <1>3. \A t, z \in Slots : t # z /\ Starting(req'[t]) /\ Starting(req'[z])
                               => req'[t].call # req'[z].call
    <2>1. ASSUME NEW t \in Slots, NEW z \in Slots, t # z,
                 Starting(req'[t]), Starting(req'[z])
          PROVE  req'[t].call # req'[z].call
      <3>1. CASE t = s
        BY <2>1, <3>1
      <3>2. CASE z = s
        BY <2>1, <3>2
      <3>3. CASE t # s /\ z # s
        BY <2>1, <3>3 DEF UnbornOK
      <3>4. QED
        BY <3>1, <3>2, <3>3
    <2>2. QED
      BY <2>1
  <1>4. QED
    BY <1>1, <1>2, <1>3 DEF UnbornOK, Starting

\* A handler's step touches the row, the map entry and the timer of its call only
LEMMA Footprint ==
    ASSUME Typed, NEW s \in Slots, Step(s)
    PROVE  \A c \in Calls \ {req[s].call} :
              /\ call'[c] = call[c] /\ told'[c] = told[c]
              /\ active'[c] = active[c] /\ (c \in armed' => c \in armed)
  <1>a. /\ call \in [Calls -> CallRow] /\ told \in [Calls -> SUBSET Users]
        /\ active \in [Calls -> Nat]
    BY DEF Typed, TypeOK
  <1>1. CASE InitiateStep(s)
    BY <1>a, <1>1 DEF InitiateStep, InitiateLoad, InitiateInsertCall, InitiateInsertSelf,
       InitiateInsertPart, InitiateAnnounce, OnlyReq, OnlyDb, dbVars, mapVars, timerVars
  <1>2. CASE AcceptStep(s)
    BY <1>a, <1>2 DEF AcceptStep, AcceptLoad, AcceptSaveCall, AcceptSavePart, AcceptFinish,
       SaveCall, SavePart, ClearTimer, OnlyReq, OnlyDb, dbVars, mapVars, timerVars
  <1>3. CASE DeclineStep(s)
    BY <1>a, <1>3 DEF DeclineStep, DeclineLoad, DeclineSavePart, DeclineSaveCall,
       DeclineFinish, SaveCall, SavePart, ClearTimer, OnlyReq, OnlyDb, dbVars, mapVars,
       timerVars
  <1>4. CASE EndStep(s)
    BY <1>a, <1>4 DEF EndStep, EndLoad, EndSavePart, EndSaveCall, EndSaveRest, EndFinish,
       DisconnectFinish, DropEntry, SaveCall, SavePart, ClearTimer, OnlyReq, OnlyDb,
       dbVars, mapVars, timerVars
  <1>5. CASE AddKickStep(s)
    BY <1>a, <1>5 DEF AddKickStep, AddLoad, AddInsert, AddFinish, KickLoad, KickSavePart,
       KickFinish, SavePart, OnlyReq, OnlyDb, dbVars, mapVars, timerVars
  <1>6. CASE TimerStep(s)
    BY <1>a, <1>6 DEF TimerStep, TimerCheck, TimerLoad, TimerSaveCall, TimerSaveRest,
       TimerFinish, SaveCall, SavePart, OnlyReq, OnlyDb, dbVars, mapVars, timerVars
  <1>7. CASE LookAtCall(s)
    BY <1>7 DEF LookAtCall, dbVars, mapVars, timerVars
  <1>8. QED
    BY <1>1, <1>2, <1>3, <1>4, <1>5, <1>6, <1>7 DEF Step

\* What the disconnect loop turns to next has an entry in activeCalls
LEMMA SweepNext ==
    ASSUME NEW r \in Request, r.op = "disconnect", NEW act, NEW ros,
           NEW q \in Sweep(r, act, ros), q.op # "idle"
    PROVE  /\ q.op = "disconnect" /\ q.call \in Calls /\ act[q.call] # 0
           /\ q.pc = "load"
  <1>1. PICK c \in Calls :
          /\ act[c] # 0
          /\ q = [r EXCEPT !.pc = "load", !.call = c, !.held = act[c], !.todo = {},
                          !.row = NoCall, !.seen = @ \cup {<<c, act[c]>>}]
    <2>1. q # Idle
      BY DEF Idle
    <2>2. QED
      BY <2>1 DEF Sweep
  <1> DEFINE sn == r.seen \cup {<<c, act[c]>>}
             h  == act[c]
  <1>2. q = [r EXCEPT !.pc = "load", !.call = c, !.held = h, !.todo = {},
                     !.row = NoCall, !.seen = sn]
    BY <1>1 DEF Request
  <1> HIDE DEF sn, h, NoCall
  <1>3. q.op = r.op /\ q.call = c /\ q.pc = "load"
    BY <1>2 DEF Request
  <1>4. QED
    BY <1>1, <1>3

LEMMA OtherUnborn ==
    ASSUME Typed, UnbornOK, NEW s \in Slots, Step(s), req[s].op \notin {"idle", "initiate"},
           Forward
    PROVE  UnbornOK'
  <1> DEFINE d == req[s].call
  <1>1. d \in Calls /\ req[s] \in Request
    BY HandlerTypes DEF Typed
  <1>2. Born(d) /\ call'[d].status # "none"
    BY <1>1 DEF UnbornOK, Fits, Starting, Born, Forward, Settled
  <1>3. \A c \in Calls : Born(c) => call'[c].status # "none"
    BY DEF Forward, Born, Settled
  <1>4. \A c \in Calls : call'[c].status = "none" =>
          /\ c # d /\ ~Born(c)
          /\ told'[c] = {} /\ active'[c] = 0 /\ c \notin armed'
    BY <1>1, <1>2, <1>3, Footprint DEF UnbornOK
  <1>5. ASSUME NEW t \in Slots \ {s}, req[t].op # "idle", Starting(req[t])
        PROVE  call'[req[t].call].status = "none"
    <2>1. req[t].call \in Calls /\ ~Born(req[t].call)
      BY <1>5, HandlerTypes DEF Typed, UnbornOK, Fits, Born
    <2>2. QED
      BY <1>2, <2>1, Footprint DEF Born
  <1>6. /\ \A t \in Slots \ {s} : req'[t] = req[t]
        /\ req'[s].op # "idle" => /\ req'[s].op # "initiate"
                                 /\ call'[req'[s].call].status # "none"
    <2>1. CASE ~DisconnectFinish(s)
      BY <1>2, <2>1, StepKeeps DEF Kept
    <2>2. CASE DisconnectFinish(s)
      <3>1. PICK q \in Sweep(req[s], active', roster') : Goto(s, q)
        BY <2>2 DEF DisconnectFinish
      <3>2. req[s].op = "disconnect"
        BY <2>2 DEF DisconnectFinish, At
      <3>3. q.op # "idle" => q.op = "disconnect" /\ q.call \in Calls /\ active'[q.call] # 0
        BY <1>1, <3>2, SweepNext
      <3>4. req'[s] = q /\ \A t \in Slots \ {s} : req'[t] = req[t]
        BY <3>1 DEF Goto, Typed, TypeOK
      <3>5. QED
        BY <1>4, <3>3, <3>4
    <2>3. QED
      BY <2>1, <2>2
  <1>7. QED
    BY <1>3, <1>4, <1>5, <1>6, SlotUnborn DEF Starting, Fits

LEMMA InitiateUnborn ==
    ASSUME Typed, UnbornOK, NEW s \in Slots, InitiateStep(s)
    PROVE  UnbornOK'
  <1> DEFINE d == req[s].call
  <1>0. req[s].op = "initiate"
    BY DEF InitiateStep, InitiateLoad, InitiateInsertCall, InitiateInsertSelf,
           InitiateInsertPart, InitiateAnnounce, At
  <1>1. /\ d \in Calls /\ req[s] \in Request /\ req[s].row \in CallRow
        /\ Step(s) /\ Fits(call, req[s])
    BY <1>0, HandlerTypes DEF Typed, UnbornOK, Step
  <1>2. Kept(s)
    BY <1>0, <1>1, StepKeeps DEF DisconnectFinish, At
  <1>3. \A t \in Slots \ {s} : req[t].op # "idle" /\ Starting(req[t])
          => req[t].call \in Calls /\ ~Born(req[t].call)
    BY HandlerTypes DEF Typed, UnbornOK, Fits, Born
  <1>4. CASE InitiateLoad(s)
    <2>1. call' = call /\ told' = told /\ active' = active /\ armed' = armed
      BY <1>4 DEF InitiateLoad, OnlyReq, OnlyDb, dbVars, mapVars, timerVars
    <2>2. Starting(req[s]) /\ req[s].pc = "load"
      BY <1>0, <1>4 DEF InitiateLoad, At, Starting
    <2>3. \/ req'[s].op = "idle"
          \/ req'[s].pc = "insertCall" /\ req'[s].row.status = "ringing"
      <3>1. CASE conv = Deleted
        BY <1>4, <3>1 DEF InitiateLoad, Done, Goto, Idle, Typed, TypeOK
      <3>2. CASE conv # Deleted
        <4> DEFINE row == [req[s].row EXCEPT !.status = "ringing", !.initiator = req[s].user]
                   T == (conv \ {req[s].user}) \X {1}
                   r == [req[s] EXCEPT !.pc = "insertCall", !.todo = T, !.row = row]
        <4>1. Goto(s, r)
          BY <1>4, <3>2 DEF InitiateLoad
        <4>2. row.status = "ringing"
          BY <1>1 DEF CallRow
        <4>3. r.row = row /\ r.pc = "insertCall"
          <5> HIDE DEF row, T
          <5> QED BY <1>1 DEF Request
        <4> HIDE DEF r
        <4>4. QED
          BY <4>1, <4>2, <4>3 DEF Goto, Typed, TypeOK
      <3>3. QED
        BY <3>1, <3>2
    <2>4. req'[s].op # "idle" => Fits(call', req'[s])
      BY <1>0, <1>1, <1>2, <2>1, <2>2, <2>3 DEF Fits, Starting, Kept
    <2>5. \A t \in Slots \ {s} : Starting(req'[s]) /\ Starting(req[t])
                                   => req'[s].call # req[t].call
      BY <1>0, <1>2, <2>2 DEF UnbornOK, Kept, Starting
    <2>6. QED
      BY <1>2, <1>3, <2>1, <2>4, <2>5, SlotUnborn DEF Kept, Born, UnbornOK
  <1>5. CASE InitiateInsertCall(s)
    <2>1. Starting(req[s]) /\ req[s].pc = "insertCall"
      BY <1>0, <1>5 DEF InitiateInsertCall, At, Starting
    <2>2. /\ call' = [call EXCEPT ![d] = req[s].row]
          /\ told' = told /\ active' = active /\ armed' = armed
      BY <1>5 DEF InitiateInsertCall, OnlyDb, mapVars, timerVars
    <2>3. req[s].row.status = "ringing"
      BY <1>1, <2>1 DEF Fits
    <2>4. \A c \in Calls : call'[c].status = IF c = d THEN "ringing" ELSE call[c].status
      BY <1>1, <2>2, <2>3 DEF Typed, TypeOK
    <2>5. req'[s].pc = "insertSelf"
      BY <1>1, <1>5 DEF InitiateInsertCall, Goto, Typed, TypeOK, Request
    <2>6. req'[s].op # "idle" => Fits(call', req'[s]) /\ ~Starting(req'[s])
      BY <1>1, <1>2, <2>4, <2>5 DEF Fits, Starting, Kept
    <2>7. \A t \in Slots \ {s} : Starting(req[t]) => req[t].call # d
      BY <2>1 DEF UnbornOK
    <2>8. ~Starting(req'[s])
      BY <2>5 DEF Starting
    <2>9. \A t \in Slots \ {s} : req[t].op # "idle" /\ Starting(req[t])
            => call'[req[t].call].status = "none"
      BY <1>3, <2>4, <2>7 DEF Born
    <2>10. /\ \A c \in Calls : Born(c) => call'[c].status # "none"
           /\ \A c \in Calls : call'[c].status = "none" =>
                told'[c] = {} /\ active'[c] = 0 /\ c \notin armed'
      BY <2>2, <2>4 DEF Born, UnbornOK
    <2>11. QED
      BY <1>2, <2>6, <2>8, <2>9, <2>10, SlotUnborn DEF Kept
  <1>6. CASE InitiateInsertSelf(s) \/ InitiateInsertPart(s) \/ InitiateAnnounce(s)
    <2>1. ~Starting(req[s]) /\ call' = call
      BY <1>6 DEF InitiateInsertSelf, InitiateInsertPart, InitiateAnnounce, At,
         Starting, dbVars
    <2>2. Born(d)
      BY <1>1, <2>1 DEF Fits, Born
    <2>3. req'[s].op = "idle" \/ req'[s].pc \notin {"load", "insertCall"}
      <3>1. CASE InitiateInsertSelf(s)
        BY <1>1, <3>1 DEF InitiateInsertSelf, Goto, Typed, TypeOK, Request
      <3>2. CASE InitiateInsertPart(s)
        BY <1>1, <3>2 DEF InitiateInsertPart, At, Goto, Typed, TypeOK, Request
      <3>3. CASE InitiateAnnounce(s)
        BY <3>3 DEF InitiateAnnounce, Done, Goto, Idle, Typed, TypeOK
      <3>4. QED
        BY <1>6, <3>1, <3>2, <3>3
    <2>4. /\ req'[s].op # "idle" => Fits(call', req'[s])
          /\ ~Starting(req'[s]) \/ req'[s].op = "idle"
      BY <1>2, <2>1, <2>2, <2>3 DEF Kept, Fits, Starting, Born
    <2>5. ~Starting(req'[s])
      BY <2>4 DEF Starting
    <2>6. \A c \in Calls : call'[c].status = "none" =>
            told'[c] = {} /\ active'[c] = 0 /\ c \notin armed'
      BY <1>1, <2>1, <2>2, Footprint DEF UnbornOK, Born
    <2>7. QED
      BY <1>2, <1>3, <2>1, <2>4, <2>5, <2>6, SlotUnborn DEF Kept, Born
  <1>7. QED
    BY <1>4, <1>5, <1>6 DEF InitiateStep

\* What happens around the handlers leaves the tables alone
AroundNext ==
    \/ \E s \in Slots : \/ Fault(s)
                        \/ \E k \in Sockets : Message(s, k) \/ Disconnect(s, k)
                        \/ \E c \in Calls : TimerFires(s, c)
    \/ \E k \in Sockets : Connect(k)
    \/ Restart
    \/ EditConversation

\* A new request that fits the table
LEMMA NewUnborn ==
    ASSUME Typed, UnbornOK, NEW s \in Slots, NEW r, Goto(s, r),
           call' = call, told' = told, active' = active, armed' \subseteq armed,
           r.op # "idle" => Fits(call, r),
           \A t \in Slots \ {s} : Starting(r) /\ Starting(req[t])
                                   => r.call # req[t].call
    PROVE  UnbornOK'
  <1>1. req'[s] = r /\ \A t \in Slots \ {s} : req'[t] = req[t]
    BY DEF Goto, Typed, TypeOK
  <1>2. \A t \in Slots : req[t].op # "idle" /\ Starting(req[t])
                           => call[req[t].call].status = "none"
    BY DEF UnbornOK, Fits
  <1>3. \A c \in Calls : call[c].status = "none" =>
          told'[c] = {} /\ active'[c] = 0 /\ c \notin armed'
    BY DEF UnbornOK, Born
  <1>4. QED
    BY <1>1, <1>2, <1>3, SlotUnborn DEF Born

\* The first record of a message on a call that has a row
LEMMA BornMessage ==
    ASSUME Typed, UnbornOK, NEW s \in Slots, NEW k \in Sockets, NEW c \in Calls,
           Owner[k] \in told[c], NEW r \in Request, r.call = c, r.op # "initiate",
           Receive(s, k, r)
    PROVE  UnbornOK'
  <1> DEFINE o == Owner[k]
             q == [r EXCEPT !.user = o, !.sock = k, !.pc = "load"]
  <1>1. Goto(s, q) /\ call' = call /\ told' = told /\ active' = active /\ armed' = armed
    BY DEF Receive, dbVars, mapVars, timerVars
  <1>2. q.op = r.op /\ q.call = c
    <2> HIDE DEF o
    <2> QED BY DEF Request
  <1>3. call[c].status # "none"
    BY DEF UnbornOK, Born
  <1> HIDE DEF q
  <1>4. QED
    BY <1>1, <1>2, <1>3, NewUnborn DEF Fits, Starting

LEMMA MessageUnborn ==
    ASSUME Typed, UnbornOK, NEW s \in Slots, NEW k \in Sockets, Message(s, k)
    PROVE  UnbornOK'
  <1>0. Idle \in Request
    BY IdleType
  <1>1. PICK c \in Calls : \/ \E scope \in Scopes : Initiate(s, k, c, scope)
                           \/ Accept(s, k, c) \/ Decline(s, k, c) \/ End(s, k, c)
                           \/ \E u \in Users : \/ AddParticipant(s, k, c, u)
                                               \/ RemoveParticipant(s, k, c, u)
    BY DEF Message
  <1>2. ASSUME NEW scope \in Scopes, Initiate(s, k, c, scope) PROVE UnbornOK'
    <2> DEFINE row == [NoCall EXCEPT !.scope = scope]
               o == Owner[k]
               r == [Idle EXCEPT !.op = "initiate", !.call = c, !.row = row]
               q == [r EXCEPT !.user = o, !.sock = k, !.pc = "load"]
    <2>1. /\ call[c] = NoCall /\ \A t \in Slots : req[t].call # c
          /\ Goto(s, q) /\ call' = call /\ told' = told /\ active' = active
          /\ armed' = armed
      BY <1>2 DEF Initiate, Receive, dbVars, mapVars, timerVars
    <2>2. row.status = "none" /\ call[c].status = "none"
      BY <2>1 DEF NoCall
    <2>3. q.op = "initiate" /\ q.call = c /\ q.row = row /\ q.pc = "load"
      <3> HIDE DEF row, o
      <3> QED BY DEF Idle
    <2> HIDE DEF q
    <2>4. QED
      BY <2>1, <2>2, <2>3, NewUnborn DEF Fits, Starting
  <1>3. ASSUME NEW op \in {"accept", "decline", "end"}, Owner[k] \in told[c],
               Receive(s, k, [Idle EXCEPT !.op = op, !.call = c])
        PROVE  UnbornOK'
    <2> DEFINE r == [Idle EXCEPT !.op = op, !.call = c]
    <2>1. r \in Request /\ r.call = c /\ r.op # "initiate"
      BY <1>0 DEF Request, Ops
    <2> HIDE DEF r
    <2>2. QED
      BY <1>3, <2>1, BornMessage DEF r
  <1>4. ASSUME NEW op \in {"add", "kick"}, NEW u \in Users, Owner[k] \in told[c],
               Receive(s, k, [Idle EXCEPT !.op = op, !.call = c, !.target = u])
        PROVE  UnbornOK'
    <2> DEFINE r == [Idle EXCEPT !.op = op, !.call = c, !.target = u]
    <2>1. r \in Request /\ r.call = c /\ r.op # "initiate"
      BY <1>0 DEF Request, Ops
    <2> HIDE DEF r
    <2>2. QED
      BY <1>4, <2>1, BornMessage DEF r
  <1>5. QED
    BY <1>1, <1>2, <1>3, <1>4 DEF Accept, Decline, End, AddParticipant, RemoveParticipant

LEMMA AroundUnborn ==
    ASSUME Typed, UnbornOK, AroundNext
    PROVE  UnbornOK'
  <1>0. Idle.op = "idle" /\ ~Starting(Idle)
    BY DEF Idle, Starting
  <1>1. ASSUME NEW s \in Slots, NEW r \in Request, r.op = "disconnect",
               NEW q \in Sweep(r, active, roster), Goto(s, q),
               call' = call, told' = told, active' = active, armed' = armed
        PROVE  UnbornOK'
    <2>1. CASE q.op = "idle"
      BY <1>1, <2>1, NewUnborn DEF Starting
    <2>2. CASE q.op # "idle"
      <3>1. q.op = "disconnect" /\ q.call \in Calls /\ active[q.call] # 0
        BY <1>1, <2>2, SweepNext
      <3>2. call[q.call].status # "none"
        BY <3>1 DEF UnbornOK, Born
      <3>3. QED
        BY <1>1, <3>1, <3>2, NewUnborn DEF Fits, Starting
    <2>3. QED
      BY <2>1, <2>2
  <1>2. ASSUME NEW s \in Slots, Fault(s) PROVE UnbornOK'
    <2>1. call' = call /\ told' = told /\ active' = active /\ armed' = armed
      BY <1>2 DEF Fault, dbVars, mapVars
    <2>2. CASE req[s].op = "disconnect"
      BY <1>1, <1>2, <2>1, <2>2, HandlerTypes DEF Fault, Typed
    <2>3. CASE req[s].op # "disconnect"
      BY <1>0, <1>2, <2>1, <2>3, NewUnborn DEF Fault, Done
    <2>4. QED
      BY <2>2, <2>3
  <1>3. ASSUME NEW s \in Slots, NEW k \in Sockets, Disconnect(s, k) PROVE UnbornOK'
    <2> DEFINE o == Owner[k]
               r == [Idle EXCEPT !.op = "disconnect", !.user = o, !.sock = k]
    <2>1. call' = call /\ told' = told /\ active' = active /\ armed' = armed
      BY <1>3 DEF Disconnect, dbVars, mapVars, timerVars
    <2>2. CASE \E j \in StillOpen(Sockets) \ {k} : Owner[j] = Owner[k]
      <3>1. req' = req
        BY <1>3, <2>2 DEF Disconnect
      <3>2. QED
        BY <2>1, <3>1 DEF UnbornOK, Born
    <2>3. CASE ~\E j \in StillOpen(Sockets) \ {k} : Owner[j] = Owner[k]
      <3>1. PICK q \in Sweep(r, active, roster) : Goto(s, q)
        BY <1>3, <2>3 DEF Disconnect
      <3>2. r \in Request /\ r.op = "disconnect"
        <4>1. o \in Users
          BY CallsAssumption DEF CallsAssumption
        <4> HIDE DEF o
        <4>2. QED
          BY <4>1, IdleType DEF Request, Ops
      <3> HIDE DEF r
      <3>3. QED
        BY <1>1, <2>1, <3>1, <3>2
    <2>4. QED
      BY <2>2, <2>3
  <1>4. ASSUME NEW s \in Slots, NEW c \in Calls, TimerFires(s, c) PROVE UnbornOK'
    <2> DEFINE r == [Idle EXCEPT !.op = "timer", !.pc = "check", !.call = c]
    <2>1. /\ Goto(s, r) /\ call' = call /\ told' = told /\ active' = active
          /\ armed' \subseteq armed /\ c \in armed
      BY <1>4 DEF TimerFires, dbVars, mapVars
    <2>2. r.op = "timer" /\ r.call = c
      BY DEF Idle
    <2>3. call[c].status # "none"
      BY <2>1 DEF UnbornOK, Born
    <2> HIDE DEF r
    <2>4. QED
      BY <2>1, <2>2, <2>3, NewUnborn DEF Fits, Starting
  <1>5. CASE Restart
    BY <1>0, <1>5 DEF Restart, dbVars, UnbornOK, Born
  <1>6. CASE EditConversation \/ \E k \in Sockets : Connect(k)
    BY <1>6 DEF EditConversation, Connect, dbVars, mapVars, timerVars, UnbornOK, Born
  <1>7. QED
    BY <1>2, <1>3, <1>4, <1>5, <1>6, MessageUnborn DEF AroundNext

\* Between the handlers' steps no row is written and no record that saves is made
LEMMA AroundLedger ==
    ASSUME Typed, LedgerOK, AroundNext
    PROVE  LedgerOK' /\ call' = call
  <1>1. call' = call /\ mixed' = mixed
    <2>1. ASSUME NEW s \in Slots, NEW k \in Sockets, Message(s, k) PROVE call' = call /\ mixed' = mixed
      BY <2>1 DEF Message, Initiate, Accept, Decline, End, AddParticipant,
         RemoveParticipant, Receive, dbVars
    <2>2. CASE \/ Restart \/ EditConversation \/ \E k \in Sockets : Connect(k)
      BY <2>2 DEF Restart, EditConversation, Connect, dbVars
    <2>3. ASSUME NEW s \in Slots, Fault(s) PROVE call' = call /\ mixed' = mixed
      BY <2>3 DEF Fault, dbVars
    <2>4. ASSUME NEW s \in Slots, NEW c \in Calls, TimerFires(s, c) PROVE call' = call /\ mixed' = mixed
      BY <2>4 DEF TimerFires, dbVars
    <2>5. ASSUME NEW s \in Slots, NEW k \in Sockets, Disconnect(s, k) PROVE call' = call /\ mixed' = mixed
      BY <2>5 DEF Disconnect, dbVars
    <2>6. QED
      BY <2>1, <2>2, <2>3, <2>4, <2>5 DEF AroundNext
  <1>2. TableAgrees
    BY <1>1, LedgerRead
  <1>3. ASSUME NEW s \in Slots, Fault(s) PROVE LedgerOK'
    <2>1. CASE req[s].op = "disconnect"
      <3>1. PICK q \in Sweep(req[s], active, roster) : Goto(s, q)
        BY <1>3, <2>1 DEF Fault
      <3>2. GoodRequest(q)
        BY <2>1, <3>1, SweepGood, HandlerTypes DEF Typed, LedgerOK
      <3>3. QED
        BY <1>2, <3>1, <3>2, LedgerGoto
    <2>2. CASE req[s].op # "disconnect"
      BY <1>2, <1>3, <2>2, LedgerDone DEF Fault
    <2>3. QED
      BY <2>1, <2>2
  <1>4. ASSUME NEW s \in Slots, NEW k \in Sockets, Disconnect(s, k) PROVE LedgerOK'
    <2> DEFINE o == Owner[k]
               r == [Idle EXCEPT !.op = "disconnect", !.user = o, !.sock = k]
    <2>1. req' = req \/ \E q \in Sweep(r, active, roster) : Goto(s, q)
      BY <1>4 DEF Disconnect
    <2>2. r \in Request /\ r.row = NoCall /\ r.pc = "idle"
      <3>1. o \in Users
        BY CallsAssumption DEF CallsAssumption
      <3> HIDE DEF o
      <3>2. QED
        BY <3>1, IdleType DEF Request, Ops, Idle
    <2>3. GoodRequest(r)
      BY <2>2 DEF GoodRequest, Right, RowAgrees, NoCall, Settled
    <2> HIDE DEF r
    <2>4. QED
      BY <1>1, <1>2, <2>1, <2>2, <2>3, SweepGood, LedgerGoto
         DEF LedgerOK, GoodRequest, Right, TableAgrees
  <1>5. ASSUME NEW s \in Slots, NEW c \in Calls, TimerFires(s, c) PROVE LedgerOK'
    <2> DEFINE r == [Idle EXCEPT !.op = "timer", !.pc = "check", !.call = c]
    <2>1. Goto(s, r)
      BY <1>5 DEF TimerFires
    <2>2. r.row = NoCall /\ r.pc = "check"
      BY DEF Idle
    <2>3. GoodRequest(r)
      BY <2>2 DEF GoodRequest, Right, RowAgrees, NoCall, Settled
    <2> HIDE DEF r
    <2>4. QED
      BY <1>2, <2>1, <2>3, LedgerGoto
  <1>6. ASSUME NEW s \in Slots, NEW k \in Sockets, Message(s, k) PROVE LedgerOK'
    <2>1. PICK r \in Request : Receive(s, k, r) /\ RowAgrees(r.row)
      <3>1. PICK c \in Calls : \/ \E scope \in Scopes : Initiate(s, k, c, scope)
                               \/ Accept(s, k, c) \/ Decline(s, k, c) \/ End(s, k, c)
                               \/ \E u \in Users : \/ AddParticipant(s, k, c, u)
                                                   \/ RemoveParticipant(s, k, c, u)
        BY <1>6 DEF Message
      <3>2. RowAgrees(NoCall) /\ Idle.row = NoCall
        BY DEF RowAgrees, NoCall, Settled, Idle
      <3>3. ASSUME NEW scope \in Scopes, Initiate(s, k, c, scope)
            PROVE  \E r \in Request : Receive(s, k, r) /\ RowAgrees(r.row)
        <4> DEFINE row == [NoCall EXCEPT !.scope = scope]
                   r == [Idle EXCEPT !.op = "initiate", !.call = c, !.row = row]
        <4>1. row \in CallRow /\ RowAgrees(row)
          BY CallsAssumption DEF CallsAssumption, NoCall, CallRow, CallStatus, Settled, RowAgrees
        <4>2. r \in Request /\ r.row = row
          <5> HIDE DEF row
          <5> QED BY <4>1, IdleType DEF Request, Ops, Idle
        <4>3. Receive(s, k, r)
          BY <3>3 DEF Initiate
        <4> HIDE DEF r
        <4>4. QED
          BY <4>1, <4>2, <4>3
      <3>4. ASSUME NEW op \in {"accept", "decline", "end"},
                   Receive(s, k, [Idle EXCEPT !.op = op, !.call = c])
            PROVE  \E r \in Request : Receive(s, k, r) /\ RowAgrees(r.row)
        <4> DEFINE r == [Idle EXCEPT !.op = op, !.call = c]
        <4>1. r \in Request /\ r.row = NoCall
          BY IdleType DEF Request, Ops, Idle
        <4> HIDE DEF r
        <4>2. QED
          BY <3>2, <3>4, <4>1 DEF r
      <3>5. ASSUME NEW op \in {"add", "kick"}, NEW u \in Users,
                   Receive(s, k, [Idle EXCEPT !.op = op, !.call = c, !.target = u])
            PROVE  \E r \in Request : Receive(s, k, r) /\ RowAgrees(r.row)
        <4> DEFINE r == [Idle EXCEPT !.op = op, !.call = c, !.target = u]
        <4>1. r \in Request /\ r.row = NoCall
          BY IdleType DEF Request, Ops, Idle
        <4> HIDE DEF r
        <4>2. QED
          BY <3>2, <3>5, <4>1 DEF r
      <3>6. QED
        BY <3>1, <3>3, <3>4, <3>5 DEF Accept, Decline, End, AddParticipant, RemoveParticipant
    <2> DEFINE o == Owner[k]
               q == [r EXCEPT !.user = o, !.sock = k, !.pc = "load"]
    <2>2. Goto(s, q)
      BY <2>1 DEF Receive
    <2>3. q.row = r.row /\ q.pc = "load"
      <3> HIDE DEF o
      <3> QED BY DEF Request
    <2>4. GoodRequest(q)
      BY <2>1, <2>3 DEF GoodRequest, Right
    <2> HIDE DEF q
    <2>5. QED
      BY <1>2, <2>2, <2>4, LedgerGoto
  <1>7. CASE Restart
    <2>1. req' = [s \in Slots |-> Idle]
      BY <1>7 DEF Restart
    <2>2. QED
      BY <1>1, <1>2, <2>1, IdleGood DEF LedgerOK, GoodRequest, Right, TableAgrees
  <1>8. CASE EditConversation \/ \E k \in Sockets : Connect(k)
    <2>1. req' = req
      BY <1>8 DEF EditConversation, Connect
    <2>2. QED
      BY <1>1, <1>2, <2>1 DEF LedgerOK, GoodRequest, Right, TableAgrees
  <1>9. QED
    BY <1>1, <1>3, <1>4, <1>5, <1>6, <1>7, <1>8 DEF AroundNext

-----------------------------------------------------------------------------
(* The ledger theorems *)

LedgerInv == Typed /\ LedgerOK /\ UnbornOK

\* How the status of a call may change in one step
Advances == \A c \in Calls : \/ call'[c].status = call[c].status
                             \/ call'[c].status \in Settled \cup {"active"}
                             \/ call[c].status = "none"

LEMMA LedgerStep ==
    ASSUME LedgerInv, [Next]_vars
    PROVE  LedgerInv' /\ Advances
  <1>0. Typed'
    BY CallsAssumption, StepTyped DEF LedgerInv
  <1>1. CASE UNCHANGED vars
    BY <1>0, <1>1 DEF vars, LedgerInv, LedgerOK, ColumnsAgree, GoodRequest, Right,
       UnbornOK, Born, Advances
  <1>2. ASSUME NEW s \in Slots, InitiateStep(s) PROVE LedgerInv' /\ Advances
    <2>1. req[s].op = "initiate"
      BY <1>2 DEF InitiateStep, InitiateLoad, InitiateInsertCall, InitiateInsertSelf,
         InitiateInsertPart, InitiateAnnounce, At
    <2>2. Fits(call, req[s]) /\ req[s].call \in Calls
      BY <2>1, HandlerTypes DEF LedgerInv, UnbornOK, Typed
    <2>3. LedgerOK'
      BY <1>2, <2>1, <2>2, InitiateLedger DEF LedgerInv, Fits, Starting
    <2>4. UnbornOK'
      BY <1>2, InitiateUnborn DEF LedgerInv
    <2>5. Advances
      <3>1. CASE InitiateInsertCall(s)
        <4>1. call[req[s].call].status = "none"
          BY <2>2, <3>1 DEF InitiateInsertCall, At, Fits, Starting
        <4>2. QED
          BY <2>2, <3>1, <4>1 DEF InitiateInsertCall, Advances, LedgerInv, Typed, TypeOK
      <3>2. CASE ~InitiateInsertCall(s)
        BY <1>2, <3>2 DEF InitiateStep, InitiateLoad, InitiateInsertSelf,
           InitiateInsertPart, InitiateAnnounce, OnlyReq, dbVars, Advances
      <3>3. QED
        BY <3>1, <3>2
    <2>6. QED
      BY <1>0, <2>3, <2>4, <2>5 DEF LedgerInv
  <1>3. ASSUME NEW s \in Slots, Step(s), ~InitiateStep(s) PROVE LedgerInv' /\ Advances
    <2>1. LedgerOK' /\ Forward
      BY <1>3, AcceptLedger, DeclineLedger, EndLedger, AddKickLedger, TimerLedger,
         LookLedger DEF Step, LedgerInv
    <2>2. req[s].op \notin {"idle", "initiate"}
      BY <1>3 DEF Step, AcceptStep, AcceptLoad, AcceptSaveCall, AcceptSavePart,
         AcceptFinish, DeclineStep, DeclineLoad, DeclineSavePart, DeclineSaveCall,
         DeclineFinish, EndStep, EndLoad, EndSavePart, EndSaveCall, EndSaveRest,
         EndFinish, DisconnectFinish, AddKickStep, AddLoad, AddInsert, AddFinish,
         KickLoad, KickSavePart, KickFinish, TimerStep, TimerCheck, TimerLoad,
         TimerSaveCall, TimerSaveRest, TimerFinish, LookAtCall, Saving, Ending, At
    <2>3. UnbornOK'
      BY <1>3, <2>1, <2>2, OtherUnborn DEF LedgerInv
    <2>4. QED
      BY <1>0, <2>1, <2>3 DEF LedgerInv, Forward, Advances
  <1>4. CASE AroundNext
    BY <1>0, <1>4, AroundLedger, AroundUnborn DEF LedgerInv, Advances
  <1>5. Next => AroundNext \/ \E s \in Slots : Step(s)
    BY DEF Next, AroundNext
  <1>6. QED
    BY <1>1, <1>2, <1>3, <1>4, <1>5

LEMMA LedgerInit == Init => LedgerInv
  <1> SUFFICES ASSUME Init PROVE LedgerInv
    OBVIOUS
  <1>1. Typed
    BY CallsAssumption, InitTyped
  <1>2. LedgerOK
    BY IdleGood DEF Init, LedgerOK, ColumnsAgree, RowAgrees, NoCall, Settled
  <1>3. UnbornOK
    BY DEF Init, UnbornOK, Born, Idle, Starting
  <1>4. QED
    BY <1>1, <1>2, <1>3 DEF LedgerInv

LEMMA LedgerAlways == Spec => []LedgerInv
  <1>1. LedgerInv /\ [Next]_vars => LedgerInv'
    BY LedgerStep
  <1>2. QED
    BY <1>1, LedgerInit, PTL DEF Spec

\* Whatever stale rows the handlers write back, the columns of a call row agree
\* (an end time exactly on a settled call, a start on an active one), unless a
\* save of the call left columns of another
THEOREM ColumnsCorrect == Spec => []ColumnsAgree
  <1>1. LedgerInv => ColumnsAgree
    BY DEF LedgerInv, LedgerOK
  <1>2. QED
    BY <1>1, LedgerAlways, PTL

\* A call that was answered or settled never rings again, with any number of
\* handlers, users, faults and restarts
THEOREM NoSecondRing == Spec => NeverRingsAgain
  <1>1. LedgerInv /\ [Next]_vars =>
          [\A c \in Calls : call[c].status \in Settled \cup {"active"}
                              => call'[c].status # "ringing"]_vars
    BY LedgerStep DEF Advances, Settled
  <1>2. QED
    BY <1>1, LedgerAlways, PTL DEF Spec, NeverRingsAgain

-----------------------------------------------------------------------------
(* callParticipantInfo and activeCalls: the handlers write the two maps     *)
(* together, whichever Set object of the call they hold.                    *)

\* A user leaves one Set object of a call and the call's info, or both go
LEMMA LeaveKeepsInfo ==
    ASSUME Typed, InfoWithinRoster, NEW c \in Calls, NEW u,
           \/ roster' = roster
           \/ \E n \in Nat : roster' = [roster EXCEPT ![c][n] = @ \ {u}],
           \/ DropEntry(c)
           \/ active' = active /\ info' = [info EXCEPT ![c] = @ \ {u}]
    PROVE  InfoWithinRoster'
  <1>0. /\ active \in [Calls -> Nat] /\ info \in [Calls -> SUBSET Users]
        /\ roster \in [Calls -> Seq(SUBSET Users)]
        /\ \A d \in Calls : active[d] \in 0 .. Len(roster[d])
    BY DEF Typed, TypeOK
  <1>1. \A d \in Calls : InRoster(u, d) \/ u \notin info[d]
    BY DEF InfoWithinRoster
  <1>2. ASSUME NEW d \in Calls, NEW v \in info[d], d = c => v # u, active[d] # 0
        PROVE  v \in roster'[d][active[d]]
    <2>1. v \in roster[d][active[d]] /\ active[d] \in 1 .. Len(roster[d])
      BY <1>0, <1>2 DEF InfoWithinRoster, InRoster
    <2>2. CASE roster' = roster
      BY <2>1, <2>2
    <2>3. ASSUME NEW n \in Nat, roster' = [roster EXCEPT ![c][n] = @ \ {u}]
          PROVE  v \in roster'[d][active[d]]
      <3> DEFINE seq == roster[c]
      <3>1. seq \in Seq(SUBSET Users)
        BY <1>0
      <3>2. roster' = [roster EXCEPT ![c] = [seq EXCEPT ![n] = @ \ {u}]]
        BY <2>3
      <3>3. CASE d # c
        BY <1>0, <2>1, <3>2, <3>3
      <3>4. CASE d = c
        <4>1. roster'[c] = [seq EXCEPT ![n] = @ \ {u}]
          BY <1>0, <3>2
        <4>2. v \in seq[active[c]] /\ active[c] \in 1 .. Len(seq) /\ v # u
          BY <1>2, <2>1, <3>4
        <4> HIDE DEF seq
        <4>3. v \in roster'[c][active[c]]
          BY <3>1, <4>1, <4>2
        <4>4. QED
          BY <3>4, <4>3
      <3>5. QED
        BY <3>3, <3>4
    <2>4. QED
      BY <2>2, <2>3
  <1>3. CASE DropEntry(c)
    <2>1. \A d \in Calls : info'[d] = IF d = c THEN {} ELSE info[d]
      BY <1>0, <1>3 DEF DropEntry
    <2>2. \A d \in Calls : d # c => active'[d] = active[d]
      BY <1>0, <1>3 DEF DropEntry
    <2>3. QED
      BY <1>2, <2>1, <2>2 DEF InfoWithinRoster, InRoster
  <1>4. CASE active' = active /\ info' = [info EXCEPT ![c] = @ \ {u}]
    <2>1. \A d \in Calls : info'[d] = IF d = c THEN info[d] \ {u} ELSE info[d]
      BY <1>0, <1>4
    <2>2. QED
      BY <1>2, <1>4, <2>1 DEF InfoWithinRoster, InRoster
  <1>5. QED
    BY <1>3, <1>4

SameMaps == active' = active /\ roster' = roster /\ info' = info

LEMMA MapsUntouched ==
    ASSUME InfoWithinRoster, SameMaps
    PROVE  InfoWithinRoster'
  BY DEF SameMaps, InfoWithinRoster, InRoster

LEMMA AnnounceKeepsInfo ==
    ASSUME Typed, InfoWithinRoster, NEW s \in Slots, InitiateAnnounce(s)
    PROVE  InfoWithinRoster'
  <1> DEFINE c == req[s].call
             u == req[s].user
  <1>1. CASE conv = Deleted
    BY <1>1, MapsUntouched DEF InitiateAnnounce, mapVars, SameMaps
  <1>2. CASE conv # Deleted
    <2>0. /\ active \in [Calls -> Nat] /\ info \in [Calls -> SUBSET Users]
          /\ roster \in [Calls -> Seq(SUBSET Users)] /\ c \in Calls
      BY HandlerTypes DEF Typed, TypeOK, InitiateAnnounce, At
    <2>1. /\ active' = [active EXCEPT ![c] = 1]
          /\ roster' = [roster EXCEPT ![c] = <<{u}>>]
          /\ info' = [info EXCEPT ![c] = {u}]
      BY <1>2 DEF InitiateAnnounce
    <2> HIDE DEF c, u
    <2>2. ASSUME NEW d \in Calls, NEW v \in info'[d]
          PROVE  active'[d] # 0 /\ v \in roster'[d][active'[d]]
      <3>1. CASE d = c
        BY <2>0, <2>1, <2>2, <3>1
      <3>2. CASE d # c
        BY <2>0, <2>1, <2>2, <3>2 DEF InfoWithinRoster, InRoster
      <3>3. QED
        BY <3>1, <3>2
    <2>3. QED
      BY <2>2 DEF InfoWithinRoster, InRoster
  <1>3. QED
    BY <1>1, <1>2

\* A user who accepts enters the Set object of the entry, or a new one
LEMMA AcceptKeepsInfo ==
    ASSUME Typed, InfoWithinRoster, NEW s \in Slots, AcceptFinish(s)
    PROVE  InfoWithinRoster'
  <1> DEFINE c == req[s].call
             u == req[s].user
             seq == roster[c]
             n == active[c]
  <1>0. /\ active \in [Calls -> Nat] /\ info \in [Calls -> SUBSET Users]
        /\ roster \in [Calls -> Seq(SUBSET Users)] /\ c \in Calls
        /\ seq \in Seq(SUBSET Users) /\ n \in 0 .. Len(seq) /\ Len(seq) \in Nat
    BY HandlerTypes DEF Typed, TypeOK, AcceptFinish, At
  <1>1. /\ \/ info' = info
           \/ info' = [info EXCEPT ![c] = @ \cup {u}]
        /\ IF n = 0
           THEN /\ roster' = [roster EXCEPT ![c] = Append(seq, {u})]
                /\ active' = [active EXCEPT ![c] = Len(seq) + 1]
           ELSE /\ roster' = [roster EXCEPT ![c] = [seq EXCEPT ![n] = @ \cup {u}]]
                /\ active' = active
    BY DEF AcceptFinish
  <1>2. \A d \in Calls : /\ info'[d] \subseteq info[d] \cup {u}
                         /\ d # c => info'[d] = info[d]
    BY <1>0, <1>1
  <1>3. n = 0 => info[c] = {}
    BY <1>0 DEF InfoWithinRoster, InRoster
  <1>4. \A v \in info[c] : v \in seq[n]
    BY <1>0 DEF InfoWithinRoster, InRoster
  <1>5. \A d \in Calls \ {c} : roster'[d] = roster[d] /\ active'[d] = active[d]
    BY <1>0, <1>1
  <1>6. \A v \in info'[c] : active'[c] # 0 /\ v \in roster'[c][active'[c]]
    <2>1. CASE n = 0
      <3>1. roster'[c] = Append(seq, {u}) /\ active'[c] = Len(seq) + 1
        BY <1>0, <1>1, <2>1
      <3> HIDE DEF seq, n, c
      <3>2. Append(seq, {u})[Len(seq) + 1] = {u} /\ Len(seq) + 1 # 0
        BY <1>0
      <3>3. info'[c] \subseteq {u}
        BY <1>0, <1>2, <1>3, <2>1
      <3>4. QED
        BY <3>1, <3>2, <3>3
    <2>2. CASE n # 0
      <3>1. roster'[c] = [seq EXCEPT ![n] = @ \cup {u}] /\ active'[c] = n
        BY <1>0, <1>1, <2>2
      <3> HIDE DEF seq, n, c
      <3>2. [seq EXCEPT ![n] = @ \cup {u}][n] = seq[n] \cup {u}
        BY <1>0, <2>2
      <3>3. QED
        BY <1>0, <1>2, <1>4, <2>2, <3>1, <3>2
    <2>3. QED
      BY <2>1, <2>2
  <1>7. \A d \in Calls \ {c} : \A v \in info'[d] :
          active'[d] # 0 /\ v \in roster'[d][active'[d]]
    BY <1>2, <1>5 DEF InfoWithinRoster, InRoster
  <1>8. QED
    BY <1>6, <1>7 DEF InfoWithinRoster, InRoster

LEMMA InfoStep ==
    ASSUME Typed, InfoWithinRoster, [Next]_vars
    PROVE  InfoWithinRoster'
  <1>1. CASE SameMaps
    BY <1>1, MapsUntouched
  <1>2. ASSUME NEW s \in Slots, Step(s) PROVE InfoWithinRoster'
    <2>1. CASE InitiateAnnounce(s) \/ AcceptFinish(s)
      BY <2>1, AnnounceKeepsInfo, AcceptKeepsInfo
    <2>2. CASE EndFinish(s)
      <3> DEFINE c == req[s].call
                 u == req[s].user
      <3>1. c \in Calls /\ active[c] \in Nat
        BY <2>2, HandlerTypes DEF EndFinish, At, Typed, TypeOK
      <3>2. /\ \/ roster' = roster
               \/ roster' = [roster EXCEPT ![c][active[c]] = @ \ {u}]
            /\ \/ DropEntry(c)
               \/ active' = active /\ info' = [info EXCEPT ![c] = @ \ {u}]
        BY <2>2 DEF EndFinish
      <3>3. QED
        BY <3>1, <3>2, LeaveKeepsInfo
    <2>3. CASE DisconnectFinish(s)
      <3> DEFINE c == req[s].call
                 u == req[s].user
      <3>1. c \in Calls /\ req[s].held \in Nat
        BY <2>3, HandlerTypes DEF DisconnectFinish, At, Typed, TypeOK, Request
      <3>2. /\ \/ roster' = roster
               \/ roster' = [roster EXCEPT ![c][req[s].held] = @ \ {u}]
            /\ \/ DropEntry(c)
               \/ active' = active /\ info' = [info EXCEPT ![c] = @ \ {u}]
        BY <2>3 DEF DisconnectFinish
      <3>3. QED
        BY <3>1, <3>2, LeaveKeepsInfo
    <2>4. CASE KickFinish(s)
      <3> DEFINE c == req[s].call
                 u == req[s].target
      <3>1. c \in Calls /\ active[c] \in Nat
        BY <2>4, HandlerTypes DEF KickFinish, At, Typed, TypeOK
      <3>2. /\ \/ roster' = roster
               \/ roster' = [roster EXCEPT ![c][active[c]] = @ \ {u}]
            /\ active' = active /\ info' = [info EXCEPT ![c] = @ \ {u}]
        BY <2>4 DEF KickFinish
      <3>3. QED
        BY <3>1, <3>2, LeaveKeepsInfo
    <2>5. CASE ~(\/ InitiateAnnounce(s) \/ AcceptFinish(s) \/ EndFinish(s)
                 \/ DisconnectFinish(s) \/ KickFinish(s))
      <3>1. SameMaps
        <4>1. OnlyDb => SameMaps
          BY DEF OnlyDb, mapVars, timerVars, SameMaps
        <4>2. CASE InitiateStep(s)
          <5>1. CASE InitiateLoad(s) BY <4>1, <5>1 DEF InitiateLoad, OnlyReq
          <5>2. CASE InitiateInsertCall(s) BY <4>1, <5>2 DEF InitiateInsertCall
          <5>3. CASE InitiateInsertSelf(s) BY <4>1, <5>3 DEF InitiateInsertSelf
          <5>4. CASE InitiateInsertPart(s) BY <4>1, <5>4 DEF InitiateInsertPart
          <5> QED BY <2>5, <4>2, <5>1, <5>2, <5>3, <5>4 DEF InitiateStep
        <4>3. CASE AcceptStep(s)
          <5>1. CASE AcceptLoad(s) BY <4>1, <5>1 DEF AcceptLoad, OnlyReq
          <5>2. CASE AcceptSaveCall(s) BY <4>1, <5>2 DEF AcceptSaveCall
          <5>3. CASE AcceptSavePart(s) BY <4>1, <5>3 DEF AcceptSavePart
          <5> QED BY <2>5, <4>3, <5>1, <5>2, <5>3 DEF AcceptStep
        <4>4. CASE DeclineStep(s)
          <5>1. CASE DeclineLoad(s) BY <4>1, <5>1 DEF DeclineLoad, OnlyReq
          <5>2. CASE DeclineSavePart(s) BY <4>1, <5>2 DEF DeclineSavePart
          <5>3. CASE DeclineSaveCall(s) BY <4>1, <5>3 DEF DeclineSaveCall
          <5>4. CASE DeclineFinish(s) BY <5>4 DEF DeclineFinish, mapVars, SameMaps
          <5> QED BY <4>4, <5>1, <5>2, <5>3, <5>4 DEF DeclineStep
        <4>5. CASE EndStep(s)
          <5>1. CASE EndLoad(s)
            <6>1. OnlyReq BY <5>1, Zenon DEF EndLoad
            <6>2. QED BY <4>1, <6>1 DEF OnlyReq
          <5>2. CASE EndSavePart(s) BY <4>1, <5>2 DEF EndSavePart
          <5>3. CASE EndSaveCall(s) BY <4>1, <5>3 DEF EndSaveCall
          <5>4. CASE EndSaveRest(s) BY <4>1, <5>4 DEF EndSaveRest
          <5> QED BY <2>5, <4>5, <5>1, <5>2, <5>3, <5>4 DEF EndStep
        <4>6. CASE AddKickStep(s)
          <5>1. CASE AddLoad(s) BY <4>1, <5>1 DEF AddLoad, OnlyReq
          <5>2. CASE AddInsert(s) BY <4>1, <5>2 DEF AddInsert
          <5>3. CASE AddFinish(s) BY <5>3 DEF AddFinish, mapVars, SameMaps
          <5>4. CASE KickLoad(s)
            <6>1. OnlyReq BY <5>4, Zenon DEF KickLoad
            <6>2. QED BY <4>1, <6>1 DEF OnlyReq
          <5>5. CASE KickSavePart(s) BY <4>1, <5>5 DEF KickSavePart
          <5> QED BY <2>5, <4>6, <5>1, <5>2, <5>3, <5>4, <5>5 DEF AddKickStep
        <4>7. CASE TimerStep(s)
          <5>1. CASE TimerCheck(s) BY <4>1, <5>1 DEF TimerCheck, OnlyReq
          <5>2. CASE TimerLoad(s) BY <4>1, <5>2 DEF TimerLoad, OnlyReq
          <5>3. CASE TimerSaveCall(s) BY <4>1, <5>3 DEF TimerSaveCall
          <5>4. CASE TimerSaveRest(s) BY <4>1, <5>4 DEF TimerSaveRest
          <5>5. CASE TimerFinish(s) BY <5>5 DEF TimerFinish, mapVars, SameMaps
          <5> QED BY <4>7, <5>1, <5>2, <5>3, <5>4, <5>5 DEF TimerStep
        <4>8. CASE LookAtCall(s)
          BY <4>8 DEF LookAtCall, mapVars, SameMaps
        <4>9. QED
          BY <1>2, <4>2, <4>3, <4>4, <4>5, <4>6, <4>7, <4>8 DEF Step
      <3>2. QED
        BY <3>1, MapsUntouched
    <2>6. QED
      BY <2>1, <2>2, <2>3, <2>4, <2>5
  <1>3. CASE Restart
    BY <1>3 DEF Restart, InfoWithinRoster
  <1>4. AroundNext => Restart \/ SameMaps
    <2>1. ASSUME NEW s \in Slots, NEW k \in Sockets, NEW r, Receive(s, k, r)
          PROVE  SameMaps
      BY <2>1 DEF Receive, mapVars, SameMaps
    <2>2. ASSUME NEW s \in Slots, NEW k \in Sockets, Message(s, k)
          PROVE  SameMaps
      <3>1. PICK c \in Calls : \/ \E scope \in Scopes : Initiate(s, k, c, scope)
                               \/ Accept(s, k, c) \/ Decline(s, k, c) \/ End(s, k, c)
                               \/ \E u \in Users : \/ AddParticipant(s, k, c, u)
                                                   \/ RemoveParticipant(s, k, c, u)
        BY <2>2 DEF Message
      <3>2. \A scope \in Scopes : Initiate(s, k, c, scope) => SameMaps
        BY <2>1 DEF Initiate
      <3>3. Accept(s, k, c) \/ Decline(s, k, c) \/ End(s, k, c) => SameMaps
        BY <2>1 DEF Accept, Decline, End
      <3>4. \A u \in Users : AddParticipant(s, k, c, u) \/ RemoveParticipant(s, k, c, u)
                              => SameMaps
        BY <2>1 DEF AddParticipant, RemoveParticipant
      <3>5. QED
        BY <3>1, <3>2, <3>3, <3>4
    <2>3. ASSUME NEW s \in Slots, Fault(s) PROVE SameMaps
      BY <2>3 DEF Fault, mapVars, SameMaps
    <2>4. ASSUME NEW s \in Slots, NEW k \in Sockets, Disconnect(s, k) PROVE SameMaps
      BY <2>4 DEF Disconnect, mapVars, SameMaps
    <2>5. ASSUME NEW s \in Slots, NEW c \in Calls, TimerFires(s, c) PROVE SameMaps
      BY <2>5 DEF TimerFires, mapVars, SameMaps
    <2>6. CASE EditConversation \/ \E k \in Sockets : Connect(k)
      BY <2>6 DEF EditConversation, Connect, mapVars, SameMaps
    <2>7. QED
      BY <2>2, <2>3, <2>4, <2>5, <2>6 DEF AroundNext
  <1>5. Next => AroundNext \/ \E s \in Slots : Step(s)
    BY DEF Next, AroundNext
  <1>6. QED
    BY <1>1, <1>2, <1>3, <1>4, <1>5 DEF vars, SameMaps

\* However handlers overlap, callParticipantInfo describes nobody who is not in
\* the call's activeCalls entry
THEOREM InfoFollowsRoster == Spec => []InfoWithinRoster
  <1>1. Init => Typed /\ InfoWithinRoster
    BY CallsAssumption, InitTyped DEF Init, InfoWithinRoster
  <1>2. Typed /\ InfoWithinRoster /\ [Next]_vars => (Typed /\ InfoWithinRoster)'
    BY CallsAssumption, StepTyped, InfoStep
  <1>3. QED
    BY <1>1, <1>2, PTL DEF Spec

-----------------------------------------------------------------------------
(* The ring timer: a handler stops it only when the call rings no more      *)

\* The next things this handler does are to stop the call's timer, or to save
\* the call but not its status
Clears(r) == \/ r.op = "accept" /\ r.pc \in {"savePart", "finish"}
             \/ r.op = "decline" /\ r.pc = "finish" /\ r.row.scope = "dm"
             \/ r.op = "end" /\ r.pc \in {"saveRest", "ended"}
             \/ r.op \in Saving /\ r.pc = "writeCall" /\ "status" \notin r.diff.cols

ClearsOK == \A s \in Slots : Clears(req[s]) => call[req[s].call].status # "ringing"

\* A handler that is not at its first step works on a call that has a row
LEMMA ClearsBorn ==
    ASSUME LedgerInv, NEW s \in Slots, Clears(req[s])
    PROVE  /\ req[s].call \in Calls /\ call[req[s].call].status # "none"
           /\ req[s].op # "idle"
  <1>1. req[s].op # "idle" /\ ~Starting(req[s])
    BY DEF Clears, Starting, Saving
  <1>2. req[s].call \in Calls
    BY <1>1, HandlerTypes DEF LedgerInv, Typed
  <1>3. QED
    BY <1>1, <1>2 DEF LedgerInv, UnbornOK, Fits

\* Only slot s changes: what the others may clear still rings no more
LEMMA SlotClears ==
    ASSUME LedgerInv, Advances, ClearsOK, NEW s \in Slots,
           \A t \in Slots \ {s} : req'[t] = req[t],
           Clears(req'[s]) => call'[req'[s].call].status # "ringing"
    PROVE  ClearsOK'
  <1>1. ASSUME NEW t \in Slots \ {s}, Clears(req'[t])
        PROVE  call'[req'[t].call].status # "ringing"
    <2>1. req'[t] = req[t] /\ Clears(req[t])
      BY <1>1
    <2>2. /\ req[t].call \in Calls
          /\ call[req[t].call].status \notin {"none", "ringing"}
      BY <2>1, ClearsBorn DEF ClearsOK
    <2>3. QED
      BY <2>1, <2>2 DEF Advances, Settled
  <1>2. QED
    BY <1>1 DEF ClearsOK

\* The records that a decline and an end go on with
LEMMA AfterShapes ==
    ASSUME NEW r \in Request
    PROVE  /\ \/ AfterDecline(r).pc = "saveCall"
              \/ AfterDecline(r).pc = "finish" /\ AfterDecline(r).row.scope # "dm"
           /\ AfterLeave(r).pc \in {"saveCall", "left"}
  <1>1. \A row, pc : [r EXCEPT !.pc = pc, !.row = row].pc = pc
    BY DEF Request
  <1>2. \A pc : [r EXCEPT !.pc = pc].pc = pc /\ [r EXCEPT !.pc = pc].row = r.row
    BY DEF Request
  <1>3. \/ AfterDecline(r).pc = "saveCall"
        \/ AfterDecline(r).pc = "finish" /\ AfterDecline(r).row.scope # "dm"
    BY <1>1, <1>2 DEF AfterDecline
  <1>4. AfterLeave(r).pc \in {"saveCall", "left"}
    BY <1>1, <1>2 DEF AfterLeave
  <1>5. QED
    BY <1>3, <1>4

LEMMA SavedStatus ==
    ASSUME TypeOK, NEW c \in Calls, NEW row, NEW parts, NEW diff,
           SaveCall(c, row, parts, diff)
    PROVE  call'[c].status = IF "status" \in diff.cols THEN row.status
                                                      ELSE call[c].status
  <1> DEFINE new == [call[c] EXCEPT
                 !.status    = IF "status" \in diff.cols THEN row.status ELSE @,
                 !.startedAt = IF "startedAt" \in diff.cols THEN row.startedAt ELSE @,
                 !.endedAt   = IF "endedAt" \in diff.cols THEN row.endedAt ELSE @,
                 !.duration  = IF "duration" \in diff.cols THEN row.duration ELSE @]
  <1>1. call \in [Calls -> CallRow] /\ call[c] \in CallRow
    BY DEF TypeOK
  <1>2. new.status = IF "status" \in diff.cols THEN row.status ELSE call[c].status
    BY <1>1 DEF CallRow
  <1>3. call' = [call EXCEPT ![c] = new]
    BY <1>1 DEF SaveCall
  <1> HIDE DEF new
  <1>4. QED
    BY <1>1, <1>2, <1>3

\* A saved call rings no more: its status is written, or was found not to ring
LEMMA SavedIsSilent ==
    ASSUME LedgerInv, ClearsOK, NEW s \in Slots, req[s].op \in Saving,
           req[s].pc = "writeCall",
           SaveCall(req[s].call, req[s].row, req[s].parts, req[s].diff)
    PROVE  call'[req[s].call].status # "ringing"
  <1>1. req[s].call \in Calls /\ TypeOK
    BY HandlerTypes DEF LedgerInv, Typed, Saving
  <1>2. CASE "status" \in req[s].diff.cols
    <2>1. call'[req[s].call].status = req[s].row.status
      BY <1>1, <1>2, SavedStatus
    <2>2. QED
      BY <2>1 DEF LedgerInv, LedgerOK, GoodRequest, Settled
  <1>3. CASE "status" \notin req[s].diff.cols
    <2>1. call'[req[s].call].status = call[req[s].call].status
      BY <1>1, <1>3, SavedStatus
    <2>2. QED
      BY <1>3, <2>1 DEF ClearsOK, Clears
  <1>4. QED
    BY <1>2, <1>3

\* The save that finds the status as it is writes one that does not ring
LEMMA LookClears ==
    ASSUME LedgerInv, NEW s \in Slots, LookAtCall(s)
    PROVE  Clears(req'[s]) => call'[req[s].call].status # "ringing"
  <1>1. PICK r \in Request : Goto(s, r) /\ LooksAs(req[s], r)
    BY LookGoes DEF LedgerInv
  <1>2. req'[s] = r
    BY <1>1 DEF Goto, LedgerInv, Typed, TypeOK
  <1>3. call' = call
    BY DEF LookAtCall, dbVars
  <1>4. req[s].row.status \in Settled \cup {"active"}
    BY <1>1 DEF LedgerInv, LedgerOK, GoodRequest, LooksAs
  <1>5. "status" \notin r.diff.cols => req[s].row.status = call[req[s].call].status
    BY <1>1 DEF LooksAs, Differs, Columns
  <1>6. Clears(r) => "status" \notin r.diff.cols
    BY <1>1 DEF LooksAs, Clears
  <1>7. QED
    BY <1>2, <1>3, <1>4, <1>5, <1>6 DEF Settled

Loaded(s) == [req[s] EXCEPT !.row = call[req[s].call],
                            !.parts = LinkedRows(req[s].call)]

LEMMA LoadedOp ==
    ASSUME LedgerInv, NEW s \in Slots, req[s].op # "idle"
    PROVE  /\ Loaded(s) \in Request /\ Loaded(s).op = req[s].op
           /\ Loaded(s).row = call[req[s].call]
  <1>1. Typed
    BY DEF LedgerInv
  <1>2. PICK r : r = Loaded(s)
    OBVIOUS
  <1>3. r \in Request /\ SameHandler(s, r) /\ r.row = call[req[s].call]
    BY <1>1, <1>2, LoadedRequest DEF Loaded
  <1>4. QED
    BY <1>2, <1>3 DEF SameHandler

LEMMA EndHandler ==
    ASSUME NEW s \in Slots, EndStep(s)
    PROVE  req[s].op = "end" \/ req[s].op = "disconnect"
  BY Zenon DEF EndStep, EndLoad, EndSavePart, EndSaveCall, EndSaveRest, EndFinish,
         DisconnectFinish, Ending, At

\* What endCall does with the rows it loaded
LEMMA EndLoadGoes ==
    ASSUME NEW s \in Slots, EndLoad(s), Loaded(s) \in Request
    PROVE  \/ Goto(s, AfterLeave(Loaded(s)))
           \/ \E T, ps : Goto(s, [Loaded(s) EXCEPT !.pc = "savePart", !.todo = T,
                                                   !.parts = ps])
  <1> DEFINE r == [req[s] EXCEPT !.row = call[req[s].call],
                                 !.parts = LinkedRows(req[s].call)]
  <1>1. \/ Goto(s, AfterLeave(r))
        \/ \E i \in RowIds : Goto(s, [r EXCEPT !.pc = "savePart", !.todo = {i},
                                              !.parts[i] = HasLeft(@)])
    BY Zenon DEF EndLoad, JoinedRows
  <1>2. r = Loaded(s)
    BY DEF Loaded
  <1> HIDE DEF r
  <1>3. QED
    BY <1>1, <1>2 DEF Request

LEMMA AcceptClears ==
    ASSUME LedgerInv, ClearsOK, NEW s \in Slots, AcceptStep(s)
    PROVE  Clears(req'[s]) => call'[req[s].call].status # "ringing"
  <1> DEFINE c == req[s].call
  <1>0. req[s].op = "accept"
    BY DEF AcceptStep, AcceptLoad, AcceptSaveCall, AcceptSavePart, AcceptFinish, At
  <1>a. \A r : Goto(s, r) => req'[s] = r
    BY DEF Goto, LedgerInv, Typed, TypeOK
  <1>1. CASE AcceptLoad(s)
    <2> DEFINE r == Loaded(s)
               row == [call[c] EXCEPT !.status = "active", !.startedAt = TRUE]
    <2>1. r \in Request /\ r.row = call[c] /\ r.op = "accept"
      BY <1>0, LoadedOp
    <2>2. call' = call
      BY <1>1 DEF AcceptLoad, OnlyReq, dbVars
    <2>3. CASE call[c].status = "ringing"
      <3>1. Goto(s, [r EXCEPT !.pc = "saveCall", !.row = row])
        BY <1>1, <2>1, <2>3 DEF AcceptLoad, Loaded
      <3> HIDE DEF r, row
      <3>2. req'[s].pc = "saveCall" /\ req'[s].op = "accept"
        BY <1>a, <2>1, <3>1 DEF Request
      <3>3. QED
        BY <3>2 DEF Clears
    <2>4. QED
      BY <2>2, <2>3
  <1>2. CASE AcceptSaveCall(s)
    BY <1>0, <1>2, SavedIsSilent DEF AcceptSaveCall, At, Saving
  <1>3. CASE AcceptSavePart(s)
    BY <1>0, <1>3 DEF AcceptSavePart, At, SavePart, ClearsOK, Clears
  <1>4. CASE AcceptFinish(s)
    <2>1. Done(s)
      BY <1>4, Zenon DEF AcceptFinish
    <2>2. req'[s].op = "idle"
      BY <1>a, <2>1 DEF Done, Idle
    <2>3. QED
      BY <2>2 DEF Clears, Saving
  <1>5. QED
    BY <1>1, <1>2, <1>3, <1>4 DEF AcceptStep

LEMMA DeclineClears ==
    ASSUME LedgerInv, ClearsOK, NEW s \in Slots, DeclineStep(s)
    PROVE  Clears(req'[s]) => call'[req[s].call].status # "ringing"
  <1> DEFINE c == req[s].call
  <1>0. req[s].op = "decline"
    BY DEF DeclineStep, DeclineLoad, DeclineSaveCall, DeclineSavePart, DeclineFinish, At
  <1>a. \A r : Goto(s, r) => req'[s] = r
    BY DEF Goto, LedgerInv, Typed, TypeOK
  <1>b. req[s] \in Request /\ req[s].parts \in [RowIds -> PartRow]
    BY <1>0, HandlerTypes DEF LedgerInv, Typed
  \* After the load and after the participant's row is saved
  <1>c. ASSUME NEW r \in Request, r.op = "decline",
               Goto(s, AfterDecline(r)) \/ Goto(s, [r EXCEPT !.pc = "savePart"])
        PROVE  ~Clears(req'[s])
    <2>1. CASE Goto(s, AfterDecline(r))
      <3>1. req'[s] = AfterDecline(r) /\ AfterDecline(r).op = "decline"
        BY <1>a, <1>c, <2>1, AfterKeeps
      <3>2. QED
        BY <3>1, AfterShapes DEF Clears
    <2>2. CASE Goto(s, [r EXCEPT !.pc = "savePart"])
      <3>1. req'[s].pc = "savePart" /\ req'[s].op = "decline"
        BY <1>a, <1>c, <2>2 DEF Request
      <3>2. QED
        BY <3>1 DEF Clears
    <2>3. QED
      BY <1>c, <2>1, <2>2
  <1>1. CASE DeclineLoad(s)
    <2> DEFINE r == Loaded(s)
    <2>1. r \in Request /\ r.op = "decline"
      BY <1>0, LoadedOp
    <2>2. Goto(s, AfterDecline(r)) \/ Goto(s, [r EXCEPT !.pc = "savePart"])
      BY <1>1 DEF DeclineLoad, Loaded
    <2> HIDE DEF r
    <2>3. QED
      BY <1>c, <2>1, <2>2
  <1>2. CASE DeclineSavePart(s)
    <2>1. PICK i \in RowsOf(req[s].parts, req[s].user) :
            Goto(s, AfterDecline([req[s] EXCEPT !.parts[i] =
                     [req[s].parts[i] EXCEPT !.status = "declined"]]))
      BY <1>2 DEF DeclineSavePart
    <2> DEFINE ps == [req[s].parts EXCEPT ![i] =
                        [req[s].parts[i] EXCEPT !.status = "declined"]]
               r  == [req[s] EXCEPT !.parts = ps]
    <2>2. i \in RowIds
      BY DEF RowsOf, Rows
    <2>3. [req[s].parts[i] EXCEPT !.status = "declined"] \in PartRow
      BY <1>b, <2>2, PartTypes DEF PartStatus
    <2>4. ps \in [RowIds -> PartRow]
      BY <1>b, <2>3
    <2>5. r \in Request /\ r.op = "decline"
      <3> HIDE DEF ps
      <3> QED BY <1>0, <1>b, <2>4 DEF Request
    <2>6. Goto(s, AfterDecline(r))
      BY <2>1
    <2> HIDE DEF r
    <2>7. QED
      BY <1>c, <2>5, <2>6
  <1>3. CASE DeclineSaveCall(s)
    BY <1>0, <1>3, SavedIsSilent DEF DeclineSaveCall, At, Saving
  <1>4. CASE DeclineFinish(s)
    <2>1. Done(s)
      BY <1>4, Zenon DEF DeclineFinish
    <2>2. req'[s].op = "idle"
      BY <1>a, <2>1 DEF Done, Idle
    <2>3. QED
      BY <2>2 DEF Clears, Saving
  <1>5. QED
    BY <1>1, <1>2, <1>3, <1>4 DEF DeclineStep

LEMMA EndClears ==
    ASSUME LedgerInv, ClearsOK, NEW s \in Slots, EndStep(s)
    PROVE  Clears(req'[s]) => call'[req[s].call].status # "ringing"
  <1> DEFINE c == req[s].call
  <1>0. req[s].op = "end" \/ req[s].op = "disconnect"
    BY EndHandler
  <1>a. \A r : Goto(s, r) => req'[s] = r
    BY DEF Goto, LedgerInv, Typed, TypeOK
  <1>b. req[s] \in Request
    BY <1>0, HandlerTypes DEF LedgerInv, Typed
  <1>c. ASSUME NEW r \in Request, r.op \in {"end", "disconnect"}, Goto(s, AfterLeave(r))
        PROVE  ~Clears(req'[s])
    <2>1. req'[s] = AfterLeave(r) /\ AfterLeave(r).op \in {"end", "disconnect"}
      BY <1>a, <1>c, AfterKeeps
    <2>2. QED
      BY <2>1, AfterShapes DEF Clears
  <1>1. CASE EndLoad(s)
    <2> DEFINE r == Loaded(s)
    <2>1. r \in Request /\ r.op \in {"end", "disconnect"}
      BY <1>0, LoadedOp
    <2>2. \/ Goto(s, AfterLeave(r))
          \/ \E T, ps : Goto(s, [r EXCEPT !.pc = "savePart", !.todo = T, !.parts = ps])
      BY <1>1, <2>1, EndLoadGoes
    <2> HIDE DEF r
    <2>3. ASSUME NEW T, NEW ps,
                 Goto(s, [r EXCEPT !.pc = "savePart", !.todo = T, !.parts = ps])
          PROVE  ~Clears(req'[s])
      <3>1. req'[s].pc = "savePart" /\ req'[s].op = r.op
        BY <1>a, <2>1, <2>3 DEF Request
      <3>2. QED
        BY <2>1, <3>1 DEF Clears
    <2>4. QED
      BY <1>c, <2>1, <2>2, <2>3
  <1>2. CASE EndSavePart(s)
    <2> DEFINE r == [req[s] EXCEPT !.todo = {}]
    <2>1. r \in Request /\ r.op \in {"end", "disconnect"}
      BY <1>0, <1>b DEF Request
    <2>2. Goto(s, AfterLeave(r))
      BY <1>2 DEF EndSavePart
    <2> HIDE DEF r
    <2>3. QED
      BY <1>c, <2>1, <2>2
  <1>3. CASE EndSaveCall(s)
    BY <1>0, <1>3, SavedIsSilent DEF EndSaveCall, Ending, At, Saving
  <1>4. CASE EndSaveRest(s)
    <2>1. call' = call
      BY <1>4 DEF EndSaveRest, SavePart
    <2>2. req[s].pc = "saveRest"
      BY <1>4 DEF EndSaveRest, Ending, At
    <2>3. req'[s].op = req[s].op /\ req'[s].pc \in {"saveRest", "ended"}
                /\ req'[s].call = req[s].call
      <3>1. PICK i \in req[s].todo : Goto(s, [req[s] EXCEPT
                       !.todo = @ \ {i},
                       !.pc = IF req[s].todo = {i} THEN "ended" ELSE @])
        BY <1>4 DEF EndSaveRest
      <3> DEFINE T == req[s].todo \ {i}
                 pc == IF req[s].todo = {i} THEN "ended" ELSE "saveRest"
      <3>2. Goto(s, [req[s] EXCEPT !.todo = T, !.pc = pc]) /\ pc \in {"saveRest", "ended"}
        BY <1>b, <2>2, <3>1 DEF Request
      <3> HIDE DEF T, pc
      <3>3. QED
        BY <1>a, <1>b, <3>2 DEF Request
    <2>4. QED
      BY <1>0, <2>1, <2>2, <2>3 DEF ClearsOK, Clears
  <1>5. CASE EndFinish(s)
    <2>1. Done(s)
      BY <1>5, Zenon DEF EndFinish
    <2>2. req'[s].op = "idle"
      BY <1>a, <2>1 DEF Done, Idle
    <2>3. QED
      BY <2>2 DEF Clears, Saving
  <1>6. CASE DisconnectFinish(s)
    <2>1. req[s].op = "disconnect"
      BY <1>6 DEF DisconnectFinish, At
    <2>2. PICK q \in Sweep(req[s], active', roster') : Goto(s, q)
      BY <1>6 DEF DisconnectFinish
    <2>3. (req'[s].op = "disconnect" /\ req'[s].pc = "load") \/ req'[s].op = "idle"
      BY <1>a, <1>b, <2>1, <2>2, SweepNext
    <2>4. QED
      BY <2>3 DEF Clears, Saving
  <1>7. QED
    BY <1>1, <1>2, <1>3, <1>4, <1>5, <1>6 DEF EndStep

\* A call whose ringing was announced, or that was accepted, has a row
RosterBorn == \A c \in Calls : roster[c] # <<>> => call[c].status # "none"

\* The timer's callback is about to settle the call
Watches(r, c) == /\ r.call = c /\ r.op = "timer"
                 /\ r.pc \in {"check", "load", "saveCall", "writeCall"}

Timed(c) == c \in armed \/ \E s \in Slots : Watches(req[s], c)

Budget == left.faults <= MaxFaults /\ left.restarts <= MaxRestarts

RingInv == LedgerInv /\ ClearsOK /\ RosterBorn /\ RingingIsTimed /\ Budget

LEMMA TimedMeans ==
    RingingIsTimed <=>
      (Intact => \A c \in Calls : call[c].status = "ringing" /\ roster[c] # <<>> => Timed(c))
  BY DEF RingingIsTimed, Timed, Watches

\* What a step must show of the handler in slot s, everything else being as it was
LEMMA SlotTimed ==
    ASSUME RingInv, Advances, Intact' => Intact, NEW s \in Slots,
           \A t \in Slots \ {s} : req'[t] = req[t],
           \A c \in Calls : roster'[c] # <<>> => \/ roster[c] # <<>>
                                                 \/ c \in armed'
                                                 \/ call'[c].status # "ringing",
           \A c \in Calls : c \in armed \/ Watches(req[s], c)
                              => \/ c \in armed' \/ Watches(req'[s], c)
                                 \/ call'[c].status # "ringing"
    PROVE  RingingIsTimed'
  <1>1. ASSUME Intact', NEW c \in Calls, call'[c].status = "ringing", roster'[c] # <<>>,
               c \notin armed'
        PROVE  \E t \in Slots : Watches(req'[t], c)
    <2>1. roster[c] # <<>> /\ Intact
      BY <1>1
    <2>2. call[c].status = "ringing"
      BY <1>1, <2>1 DEF Advances, RingInv, RosterBorn, Settled
    <2>3. Timed(c)
      BY <2>1, <2>2, TimedMeans DEF RingInv
    <2>4. CASE c \in armed \/ Watches(req[s], c)
      BY <1>1, <2>4
    <2>5. ASSUME NEW t \in Slots \ {s}, Watches(req[t], c)
          PROVE  Watches(req'[t], c)
      BY <2>5
    <2>6. QED
      BY <2>3, <2>4, <2>5 DEF Timed
  <1>2. QED
    BY <1>1 DEF RingingIsTimed, Watches

\* What a step does to the armed timers and to the entries' history
LEMMA TimerFootprint ==
    ASSUME Typed, NEW s \in Slots, Step(s)
    PROVE  /\ ~(AcceptFinish(s) \/ DeclineFinish(s) \/ EndFinish(s)) => armed \subseteq armed'
           /\ armed \ armed' \subseteq {req[s].call}
           /\ left' = left
  <1>1. CASE InitiateStep(s)
    BY <1>1 DEF InitiateStep, InitiateLoad, InitiateInsertCall,
       InitiateInsertSelf, InitiateInsertPart, InitiateAnnounce, OnlyReq, OnlyDb, dbVars,
       mapVars, timerVars
  <1>2. CASE AcceptStep(s)
    BY <1>2 DEF AcceptStep, AcceptLoad, AcceptSaveCall, AcceptSavePart, AcceptFinish,
       ClearTimer, OnlyReq, OnlyDb, dbVars, mapVars, timerVars
  <1>3. CASE DeclineStep(s)
    BY <1>3 DEF DeclineStep, DeclineLoad, DeclineSavePart, DeclineSaveCall,
       DeclineFinish, ClearTimer, OnlyReq, OnlyDb, dbVars, mapVars, timerVars
  <1>4. CASE EndStep(s)
    BY <1>4 DEF EndStep, EndLoad, EndSavePart, EndSaveCall, EndSaveRest, EndFinish,
       DisconnectFinish, ClearTimer, OnlyReq, OnlyDb, dbVars, mapVars, timerVars
  <1>5. CASE AddKickStep(s)
    BY <1>5 DEF AddKickStep, AddLoad, AddInsert, AddFinish, KickLoad, KickSavePart,
       KickFinish, OnlyReq, OnlyDb, dbVars, mapVars, timerVars
  <1>6. CASE TimerStep(s)
    BY <1>6 DEF TimerStep, TimerCheck, TimerLoad, TimerSaveCall, TimerSaveRest,
       TimerFinish, OnlyReq, OnlyDb, dbVars, mapVars, timerVars
  <1>7. CASE LookAtCall(s)
    BY <1>7 DEF LookAtCall, timerVars
  <1>8. QED
    BY <1>1, <1>2, <1>3, <1>4, <1>5, <1>6, <1>7 DEF Step

\* Only the announcement and an accept give a call its first entry
LEMMA RosterFootprint ==
    ASSUME Typed, NEW s \in Slots, Step(s), NEW c \in Calls,
           roster[c] = <<>>, roster'[c] # <<>>
    PROVE  /\ c = req[s].call
           /\ AcceptFinish(s) \/ (InitiateAnnounce(s) /\ c \in armed')
  <1>0. roster \in [Calls -> Seq(SUBSET Users)]
    BY DEF Typed, TypeOK
  <1>1. CASE InitiateStep(s)
    BY <1>0, <1>1 DEF InitiateStep, InitiateLoad, InitiateInsertCall, InitiateInsertSelf,
       InitiateInsertPart, InitiateAnnounce, OnlyReq, OnlyDb, mapVars
  <1>2. CASE AcceptStep(s)
    BY <1>0, <1>2 DEF AcceptStep, AcceptLoad, AcceptSaveCall, AcceptSavePart, AcceptFinish,
       OnlyReq, OnlyDb, mapVars
  <1>3. CASE DeclineStep(s)
    BY <1>3 DEF DeclineStep, DeclineLoad, DeclineSavePart, DeclineSaveCall,
       DeclineFinish, OnlyReq, OnlyDb, mapVars
  \* A user who leaves a Set object leaves the sequence of them as long as it was
  <1>a. ASSUME NEW n \in Nat, NEW d \in Calls, NEW u,
               roster' = [roster EXCEPT ![d][n] = @ \ {u}]
        PROVE  FALSE
    <2>1. Len(roster'[c]) = Len(roster[c])
      BY <1>a, RosterType
    <2>2. roster'[c] \in Seq(SUBSET Users)
      BY <1>a, RosterType
    <2>3. QED
      BY <1>0, <2>1, <2>2
  <1>4. CASE EndStep(s)
    <2>1. CASE EndFinish(s)
      <3>1. req[s].call \in Calls /\ active[req[s].call] \in Nat
        BY <2>1, HandlerTypes DEF EndFinish, At, Typed, TypeOK
      <3>2. \/ roster' = roster
            \/ roster' = [roster EXCEPT ![req[s].call][active[req[s].call]] = @ \ {req[s].user}]
        BY <2>1 DEF EndFinish
      <3>3. QED
        BY <1>a, <3>1, <3>2
    <2>2. CASE DisconnectFinish(s)
      <3>1. req[s].call \in Calls /\ req[s].held \in Nat
        BY <2>2, HandlerTypes DEF DisconnectFinish, At, Typed, TypeOK, Request
      <3>2. \/ roster' = roster
            \/ roster' = [roster EXCEPT ![req[s].call][req[s].held] = @ \ {req[s].user}]
        BY <2>2 DEF DisconnectFinish
      <3>3. QED
        BY <1>a, <3>1, <3>2
    <2>3. QED
      BY <1>4, <2>1, <2>2 DEF EndStep, EndLoad, EndSavePart, EndSaveCall, EndSaveRest,
         OnlyReq, OnlyDb, mapVars
  <1>5. CASE AddKickStep(s)
    <2>1. CASE KickFinish(s)
      <3>1. req[s].call \in Calls /\ active[req[s].call] \in Nat
        BY <2>1, HandlerTypes DEF KickFinish, At, Typed, TypeOK
      <3>2. \/ roster' = roster
            \/ roster' = [roster EXCEPT ![req[s].call][active[req[s].call]] = @ \ {req[s].target}]
        BY <2>1 DEF KickFinish
      <3>3. QED
        BY <1>a, <3>1, <3>2
    <2>2. QED
      BY <1>5, <2>1 DEF AddKickStep, AddLoad, AddInsert, AddFinish, KickLoad,
         KickSavePart, OnlyReq, OnlyDb, mapVars
  <1>6. CASE TimerStep(s)
    BY <1>6 DEF TimerStep, TimerCheck, TimerLoad, TimerSaveCall, TimerSaveRest,
       TimerFinish, OnlyReq, OnlyDb, mapVars
  <1>7. CASE LookAtCall(s)
    BY <1>7 DEF LookAtCall, mapVars
  <1>8. QED
    BY <1>1, <1>2, <1>3, <1>4, <1>5, <1>6, <1>7 DEF Step

\* The timer's callback stops no timer, and looks before it writes
LEMMA TimerClears ==
    ASSUME Typed, NEW s \in Slots, TimerStep(s)
    PROVE  ~Clears(req'[s])
  <1>1. PICK r : Goto(s, r) /\ (r.op = "idle" \/ (r.op = "timer" /\ r.pc # "writeCall"))
    <2>1. req[s].op = "timer"
      BY DEF TimerStep, TimerCheck, TimerLoad, TimerSaveCall, TimerSaveRest, TimerFinish, At
    <2>2. req[s] \in Request
      BY DEF Typed, TypeOK
    <2>3. \/ Done(s)
          \/ \E pc \in {"load", "finish"} : Goto(s, [req[s] EXCEPT !.pc = pc])
          \/ \E row, ps : Goto(s, [req[s] EXCEPT !.pc = "saveCall", !.row = row, !.parts = ps])
          \/ \E q \in {req[s], Written(req[s])} : \E T, pc :
               pc \in {"saveRest", "finish"} /\ Goto(s, [q EXCEPT !.todo = T, !.pc = pc])
      <3>1. CASE TimerCheck(s)
        BY <3>1 DEF TimerCheck
      <3>2. CASE TimerLoad(s)
        BY <3>2 DEF TimerLoad
      <3>3. CASE TimerSaveCall(s)
        BY <3>3 DEF TimerSaveCall
      <3>4. CASE TimerSaveRest(s)
        <4>1. req[s].pc = "saveRest"
          BY <3>4 DEF TimerSaveRest, At
        <4>2. PICK i \in req[s].todo : Goto(s, [req[s] EXCEPT
                       !.todo = @ \ {i},
                       !.pc = IF req[s].todo = {i} THEN "finish" ELSE @])
          BY <3>4 DEF TimerSaveRest
        <4> DEFINE T == req[s].todo \ {i}
                   pc == IF req[s].todo = {i} THEN "finish" ELSE "saveRest"
        <4>3. Goto(s, [req[s] EXCEPT !.todo = T, !.pc = pc]) /\ pc \in {"saveRest", "finish"}
          BY <2>2, <4>1, <4>2 DEF Request
        <4> HIDE DEF T, pc
        <4>4. QED
          BY <4>3
      <3>5. CASE TimerFinish(s)
        BY <3>5 DEF TimerFinish
      <3>6. QED
        BY <3>1, <3>2, <3>3, <3>4, <3>5 DEF TimerStep
    <2>4. CASE Done(s)
      BY <2>4 DEF Done, Idle
    <2>5. ASSUME NEW pc \in {"load", "finish"}, Goto(s, [req[s] EXCEPT !.pc = pc])
          PROVE  \E r : Goto(s, r) /\ r.op = "timer" /\ r.pc # "writeCall"
      BY <2>1, <2>2, <2>5 DEF Request
    <2>6. ASSUME NEW row, NEW ps,
                 Goto(s, [req[s] EXCEPT !.pc = "saveCall", !.row = row, !.parts = ps])
          PROVE  \E r : Goto(s, r) /\ r.op = "timer" /\ r.pc # "writeCall"
      <3>1. PICK r : r = [req[s] EXCEPT !.pc = "saveCall", !.row = row, !.parts = ps]
        OBVIOUS
      <3>2. r.op = "timer" /\ r.pc # "writeCall"
        BY <2>1, <2>2, <3>1 DEF Request
      <3>3. QED
        BY <2>6, <3>1, <3>2
    <2>7. ASSUME NEW q \in {req[s], Written(req[s])}, NEW T, NEW pc \in {"saveRest", "finish"},
                 Goto(s, [q EXCEPT !.todo = T, !.pc = pc])
          PROVE  \E r : Goto(s, r) /\ r.op = "timer" /\ r.pc # "writeCall"
      <3>1. PICK r : r = [q EXCEPT !.todo = T, !.pc = pc]
        OBVIOUS
      <3>w. q \in Request /\ q.op = "timer"
        BY <2>1, <2>2, <2>7, WrittenSame DEF SameHandler
      <3>2. r.op = "timer" /\ r.pc # "writeCall"
        BY <2>7, <3>w, <3>1 DEF Request
      <3>3. QED
        BY <2>7, <3>1, <3>2
    <2>8. QED
      BY <2>3, <2>4, <2>5, <2>6, <2>7
  <1>2. req'[s] = r
    BY <1>1 DEF Goto, Typed, TypeOK
  <1>3. QED
    BY <1>1, <1>2 DEF Clears, Saving

LEMMA StepTimed ==
    ASSUME RingInv, LedgerInv', Advances, NEW s \in Slots, Step(s)
    PROVE  RingInv'
  <1>0. Typed /\ LedgerInv /\ UnbornOK /\ ClearsOK
    BY DEF RingInv, LedgerInv
  <1>a. left' = left /\ Intact' = Intact /\ Budget'
    BY <1>0, TimerFootprint DEF Intact, RingInv, Budget
  <1>b. \A t \in Slots \ {s} : req'[t] = req[t]
    <2>1. CASE DisconnectFinish(s)
      <3>1. PICK q \in Sweep(req[s], active', roster') : Goto(s, q)
        BY <2>1 DEF DisconnectFinish
      <3>2. QED
        BY <1>0, <3>1 DEF Goto, Typed, TypeOK
    <2>2. CASE ~DisconnectFinish(s)
      BY <1>0, <2>2, StepKeeps DEF Kept
    <2>3. QED
      BY <2>1, <2>2
  \* What this handler may clear is settled or answered, now and after the step
  <1>c. ASSUME Clears(req[s]) PROVE call'[req[s].call].status # "ringing"
    <2>1. /\ req[s].call \in Calls
          /\ call[req[s].call].status \notin {"none", "ringing"}
      BY <1>0, <1>c, ClearsBorn DEF ClearsOK
    <2>2. QED
      BY <2>1 DEF Advances, Settled
  <1>d. AcceptFinish(s) => Clears(req[s])
    BY DEF AcceptFinish, At, Clears
  <1>1. ClearsOK'
    <2>1. ASSUME ~DisconnectFinish(s), Clears(req'[s])
          PROVE  req'[s].call = req[s].call /\ req'[s].op = req[s].op
      BY <1>0, <2>1, StepKeeps DEF Kept, Clears, Saving
    <2>2. ASSUME EndStep(s), Clears(req'[s]) PROVE req'[s].call = req[s].call
      <3>1. CASE DisconnectFinish(s)
        <4>1. req[s].op = "disconnect"
          BY <3>1 DEF DisconnectFinish, At
        <4>2. PICK q \in Sweep(req[s], active', roster') : Goto(s, q)
          BY <3>1 DEF DisconnectFinish
        <4>3. req'[s] = q /\ req[s] \in Request
          BY <1>0, <4>1, <4>2, HandlerTypes DEF Goto, Typed, TypeOK
        <4>4. (q.op = "disconnect" /\ q.pc = "load") \/ q.op = "idle"
          BY <4>1, <4>2, <4>3, SweepNext
        <4>5. QED
          BY <2>2, <4>3, <4>4 DEF Clears, Saving
      <3>2. QED
        BY <2>1, <2>2, <3>1
    <2>3. ASSUME InitiateStep(s) \/ AddKickStep(s), Clears(req'[s])
          PROVE  FALSE
      <3>1. req[s].op \in {"initiate", "add", "kick"}
        BY <2>3, Zenon DEF InitiateStep, InitiateLoad, InitiateInsertCall, InitiateInsertSelf,
           InitiateInsertPart, InitiateAnnounce, AddKickStep, AddLoad, AddInsert, AddFinish,
           KickLoad, KickSavePart, KickFinish, At
      <3>2. ~DisconnectFinish(s)
        BY <3>1 DEF DisconnectFinish, At
      <3>3. QED
        BY <2>1, <2>3, <3>1, <3>2 DEF Clears, Saving
    <2>4. ASSUME Clears(req'[s]) PROVE call'[req'[s].call].status # "ringing"
      <3>1. CASE AcceptStep(s)
        <4>1. req[s].op = "accept"
          BY <3>1, Zenon DEF AcceptStep, AcceptLoad, AcceptSaveCall, AcceptSavePart,
             AcceptFinish, At
        <4>2. ~DisconnectFinish(s)
          BY <4>1 DEF DisconnectFinish, At
        <4>3. QED
          BY <1>0, <2>1, <2>4, <3>1, <4>2, AcceptClears
      <3>2. CASE DeclineStep(s)
        <4>1. req[s].op = "decline"
          BY <3>2, Zenon DEF DeclineStep, DeclineLoad, DeclineSavePart, DeclineSaveCall,
             DeclineFinish, At
        <4>2. ~DisconnectFinish(s)
          BY <4>1 DEF DisconnectFinish, At
        <4>3. QED
          BY <1>0, <2>1, <2>4, <3>2, <4>2, DeclineClears
      <3>3. CASE EndStep(s)
        BY <1>0, <2>2, <2>4, <3>3, EndClears
      <3>4. CASE LookAtCall(s)
        <4>1. ~DisconnectFinish(s)
          BY <3>4 DEF LookAtCall, DisconnectFinish, At
        <4>2. QED
          BY <1>0, <2>1, <2>4, <3>4, <4>1, LookClears
      <3>5. QED
        BY <1>0, <2>3, <2>4, <3>1, <3>2, <3>3, <3>4, TimerClears DEF Step
    <2>5. QED
      BY <1>0, <1>b, <2>4, SlotClears
  <1>2. RosterBorn'
    <2>1. ASSUME NEW c \in Calls, roster'[c] # <<>> PROVE call'[c].status # "none"
      <3>1. CASE roster[c] # <<>>
        BY <3>1 DEF RingInv, RosterBorn, Advances, Settled
      <3>2. CASE roster[c] = <<>>
        <4>1. c = req[s].call /\ (AcceptFinish(s) \/ InitiateAnnounce(s))
          BY <1>0, <2>1, <3>2, RosterFootprint
        <4>2. ~Starting(req[s]) /\ req[s].op # "idle"
          BY <4>1 DEF AcceptFinish, InitiateAnnounce, At, Starting
        <4>3. call[c].status # "none"
          BY <1>0, <4>1, <4>2 DEF UnbornOK, Fits
        <4>4. QED
          BY <4>3 DEF Advances, Settled
      <3>3. QED
        BY <3>1, <3>2
    <2>2. QED
      BY <2>1 DEF RosterBorn
  <1>3. RingingIsTimed'
    <2>1. \A c \in Calls : roster'[c] # <<>> =>
            roster[c] # <<>> \/ c \in armed' \/ call'[c].status # "ringing"
      BY <1>0, <1>c, <1>d, RosterFootprint
    <2>2. ASSUME NEW c \in armed, c \notin armed' PROVE call'[c].status # "ringing"
      <3>1. c = req[s].call /\ (AcceptFinish(s) \/ DeclineFinish(s) \/ EndFinish(s))
        BY <1>0, <2>2, TimerFootprint
      <3>2. DeclineFinish(s) => Clears(req[s])
        BY <2>2 DEF DeclineFinish, At, Clears, timerVars
      <3>3. EndFinish(s) => Clears(req[s])
        BY <2>2 DEF EndFinish, At, Clears, timerVars
      <3>4. QED
        BY <1>c, <1>d, <3>1, <3>2, <3>3
    <2>3. ASSUME NEW c \in Calls, Watches(req[s], c)
          PROVE  Watches(req'[s], c) \/ call'[c].status # "ringing"
      <3>1. /\ req[s].op = "timer" /\ req[s].call = c
            /\ req[s].pc \in {"check", "load", "saveCall", "writeCall"}
        BY <2>3 DEF Watches
      <3>2. req[s] \in Request /\ req \in [Slots -> Request]
        BY <1>0 DEF Typed, TypeOK
      <3>3. TimerCheck(s) \/ TimerLoad(s) \/ TimerSaveCall(s) \/ LookAtCall(s)
        BY <3>1, Zenon DEF Step, InitiateStep, InitiateLoad, InitiateInsertCall,
           InitiateInsertSelf, InitiateInsertPart, InitiateAnnounce, AcceptStep, AcceptLoad,
           AcceptSaveCall, AcceptSavePart, AcceptFinish, DeclineStep, DeclineLoad,
           DeclineSavePart, DeclineSaveCall, DeclineFinish, EndStep, EndLoad, EndSavePart,
           EndSaveCall, EndSaveRest, EndFinish, DisconnectFinish, AddKickStep, AddLoad,
           AddInsert, AddFinish, KickLoad, KickSavePart, KickFinish, TimerStep,
           TimerSaveRest, TimerFinish, Ending, At
      <3>4. CASE TimerCheck(s)
        <4>1. /\ call' = call
              /\ call[c].status = "ringing" => Goto(s, [req[s] EXCEPT !.pc = "load"])
          BY <3>1, <3>4 DEF TimerCheck, OnlyReq, dbVars
        <4>2. Goto(s, [req[s] EXCEPT !.pc = "load"]) => Watches(req'[s], c)
          BY <3>1, <3>2 DEF Goto, Watches, Request
        <4>3. QED
          BY <4>1, <4>2
      <3>5. CASE TimerLoad(s)
        <4> DEFINE row == Missed(call[c])
                   ps  == LinkedRows(c)
        <4>1. /\ call' = call
              /\ call[c].status = "ringing" =>
                   Goto(s, [req[s] EXCEPT !.pc = "saveCall", !.row = row, !.parts = ps])
          BY <3>1, <3>5 DEF TimerLoad, OnlyReq, dbVars
        <4> HIDE DEF row, ps
        <4>2. Goto(s, [req[s] EXCEPT !.pc = "saveCall", !.row = row, !.parts = ps])
                => Watches(req'[s], c)
          BY <3>1, <3>2 DEF Goto, Watches, Request
        <4>3. QED
          BY <4>1, <4>2
      <3>6. CASE TimerSaveCall(s)
        BY <1>0, <3>1, <3>6, SavedIsSilent DEF TimerSaveCall, At, Saving
      <3>7. CASE LookAtCall(s)
        <4>1. PICK r \in Request : Goto(s, r) /\ LooksAs(req[s], r)
          BY <1>0, <3>7, LookGoes
        <4>2. req'[s] = r
          BY <3>2, <4>1 DEF Goto
        <4>3. QED
          BY <3>1, <4>1, <4>2 DEF LooksAs, Watches
      <3>8. QED
        BY <3>3, <3>4, <3>5, <3>6, <3>7
    <2>4. QED
      BY <1>a, <1>b, <2>1, <2>2, <2>3, SlotTimed
  <1>4. QED
    BY <1>a, <1>1, <1>2, <1>3 DEF RingInv
\* Nothing but a new handler in slot s, which clears no timer
LEMMA NewTimed ==
    ASSUME RingInv, LedgerInv', NEW s \in Slots, req[s] = Idle,
           \A t \in Slots \ {s} : req'[t] = req[t],
           call' = call, roster' = roster, Intact' => Intact, Budget',
           ~Clears(req'[s]),
           \A c \in armed : c \in armed' \/ Watches(req'[s], c)
    PROVE  RingInv'
  <1>1. Advances /\ \A c \in Calls : ~Watches(req[s], c)
    BY DEF Watches, Idle, Advances
  <1>2. ClearsOK'
    BY <1>1, SlotClears DEF RingInv
  <1>3. RosterBorn'
    BY DEF RingInv, RosterBorn
  <1>4. RingingIsTimed'
    BY <1>1, SlotTimed
  <1>5. QED
    BY <1>2, <1>3, <1>4 DEF RingInv

LEMMA AroundTimed ==
    ASSUME RingInv, LedgerInv', AroundNext
    PROVE  RingInv'
  <1>0. /\ Typed /\ LedgerInv /\ ClearsOK /\ Budget
        /\ left \in [messages : Nat, faults : Nat, restarts : Nat, edits : Nat]
    BY DEF RingInv, LedgerInv, Typed, TypeOK
  <1>a. \A s \in Slots : \A r : Goto(s, r) => /\ req'[s] = r
                                              /\ \A t \in Slots \ {s} : req'[t] = req[t]
    BY <1>0 DEF Goto, Typed, TypeOK
  <1>b. MaxFaults \in Nat /\ MaxRestarts \in Nat
    BY CallsAssumption DEF CallsAssumption
  <1>c. left' = left => Intact' = Intact /\ Budget'
    BY <1>0 DEF Intact, Budget
  \* A step that leaves the calls, the timers and the handlers alone
  <1>d. ASSUME UNCHANGED <<call, roster, armed, req>>, Intact' => Intact, Budget'
        PROVE  RingInv'
    BY <1>d DEF RingInv, ClearsOK, Clears, RosterBorn, RingingIsTimed
  <1>1. ASSUME NEW s \in Slots, NEW k \in Sockets, NEW r \in Request, Receive(s, k, r)
        PROVE  RingInv'
    <2> DEFINE o == Owner[k]
               q == [r EXCEPT !.user = o, !.sock = k, !.pc = "load"]
    <2>1. /\ Goto(s, q) /\ req[s] = Idle
          /\ call' = call /\ roster' = roster /\ armed' = armed
          /\ left' = [left EXCEPT !.messages = @ - 1]
      BY <1>1 DEF Receive, dbVars, mapVars, timerVars
    <2>2. q.pc = "load"
      <3> HIDE DEF o
      <3> QED BY DEF Request
    <2> HIDE DEF q
    <2>3. ~Clears(req'[s])
      BY <1>a, <2>1, <2>2 DEF Clears
    <2>4. Intact' = Intact /\ Budget'
      BY <1>0, <2>1 DEF Intact, Budget
    <2>5. QED
      BY <1>a, <2>1, <2>3, <2>4, NewTimed
  <1>2. ASSUME NEW s \in Slots, NEW k \in Sockets, Message(s, k) PROVE RingInv'
    <2>1. PICK c \in Calls : \/ \E scope \in Scopes : Initiate(s, k, c, scope)
                             \/ Accept(s, k, c) \/ Decline(s, k, c) \/ End(s, k, c)
                             \/ \E u \in Users : \/ AddParticipant(s, k, c, u)
                                                 \/ RemoveParticipant(s, k, c, u)
      BY <1>2 DEF Message
    <2>2. \A op \in Ops : [Idle EXCEPT !.op = op, !.call = c] \in Request
      BY IdleType DEF Request
    <2>3. \A op \in Ops, u \in Users :
            [Idle EXCEPT !.op = op, !.call = c, !.target = u] \in Request
      BY IdleType DEF Request
    <2>4. ASSUME NEW scope \in Scopes
          PROVE  [Idle EXCEPT !.op = "initiate", !.call = c,
                              !.row = [NoCall EXCEPT !.scope = scope]] \in Request
      <3>1. [NoCall EXCEPT !.scope = scope] \in CallRow
        BY CallsAssumption DEF CallsAssumption, NoCall, CallRow, CallStatus, Settled
      <3>2. QED
        BY <3>1, IdleType DEF Request, Ops
    <2>5. {"accept", "decline", "end", "add", "kick"} \subseteq Ops
      BY DEF Ops
    <2>6. ASSUME NEW scope \in Scopes, Initiate(s, k, c, scope) PROVE RingInv'
      BY <1>1, <2>4, <2>6 DEF Initiate
    <2>7. CASE Accept(s, k, c) \/ Decline(s, k, c) \/ End(s, k, c)
      BY <1>1, <2>2, <2>5, <2>7 DEF Accept, Decline, End
    <2>8. ASSUME NEW u \in Users, AddParticipant(s, k, c, u) \/ RemoveParticipant(s, k, c, u)
          PROVE  RingInv'
      BY <1>1, <2>3, <2>5, <2>8 DEF AddParticipant, RemoveParticipant
    <2>9. QED
      BY <2>1, <2>6, <2>7, <2>8
  <1>3. ASSUME NEW s \in Slots, NEW c \in Calls, TimerFires(s, c) PROVE RingInv'
    <2> DEFINE r == [Idle EXCEPT !.op = "timer", !.pc = "check", !.call = c]
    <2>1. /\ Goto(s, r) /\ req[s] = Idle /\ armed' = armed \ {c}
          /\ call' = call /\ roster' = roster /\ left' = left
      BY <1>3 DEF TimerFires, dbVars, mapVars
    <2>2. Watches(r, c) /\ ~Clears(r)
      BY DEF Watches, Clears, Idle
    <2> HIDE DEF r
    <2>3. QED
      BY <1>a, <1>c, <2>1, <2>2, NewTimed
  <1>4. ASSUME NEW s \in Slots, NEW k \in Sockets, Disconnect(s, k) PROVE RingInv'
    <2> DEFINE o == Owner[k]
               r == [Idle EXCEPT !.op = "disconnect", !.user = o, !.sock = k]
    <2>1. /\ req' = req \/ \E q \in Sweep(r, active, roster) : Goto(s, q)
          /\ req[s] = Idle /\ call' = call /\ roster' = roster
          /\ armed' = armed /\ left' = left
      BY <1>4 DEF Disconnect, dbVars, mapVars, timerVars
    <2>2. r \in Request /\ r.op = "disconnect"
      <3>1. o \in Users
        BY CallsAssumption DEF CallsAssumption
      <3> HIDE DEF o
      <3>2. QED
        BY <3>1, IdleType DEF Request, Ops
    <2> HIDE DEF r
    <2>3. CASE req' = req
      BY <1>c, <1>d, <2>1, <2>3
    <2>4. ASSUME NEW q \in Sweep(r, active, roster), Goto(s, q) PROVE RingInv'
      <3>1. q.op = "idle" \/ (q.op = "disconnect" /\ q.pc = "load")
        BY <2>2, <2>4, SweepNext
      <3>2. ~Clears(req'[s])
        BY <1>a, <2>4, <3>1 DEF Clears, Saving
      <3>3. QED
        BY <1>a, <1>c, <2>1, <2>4, <3>2, NewTimed
    <2>5. QED
      BY <2>1, <2>3, <2>4
  <1>5. CASE Restart
    <2>1. /\ req' = [s \in Slots |-> Idle] /\ roster' = [c \in Calls |-> <<>>]
          /\ left' = [left EXCEPT !.restarts = @ - 1]
      BY <1>5 DEF Restart
    <2>2. ClearsOK'
      BY <2>1 DEF ClearsOK, Clears, Saving, Idle
    <2>3. RosterBorn' /\ RingingIsTimed'
      BY <2>1 DEF RosterBorn, RingingIsTimed
    <2>4. Budget'
      BY <1>0, <1>b, <2>1 DEF Budget
    <2>5. QED
      BY <2>2, <2>3, <2>4 DEF RingInv
  <1>6. ASSUME NEW s \in Slots, Fault(s) PROVE RingInv'
    <2>1. /\ left' = [left EXCEPT !.faults = @ - 1] /\ left.faults > 0
          /\ call' = call /\ roster' = roster
      BY <1>6 DEF Fault, dbVars, mapVars
    <2>2. Budget' /\ ~Intact'
      BY <1>0, <1>b, <2>1 DEF Budget, Intact
    <2>3. PICK q : Goto(s, q) /\ (q.op = "idle" \/ (q.op = "disconnect" /\ q.pc = "load"))
      <3>1. CASE req[s].op = "disconnect"
        <4>1. PICK q \in Sweep(req[s], active, roster) : Goto(s, q)
          BY <1>6, <3>1 DEF Fault
        <4>2. req[s] \in Request
          BY <1>0 DEF Typed, TypeOK
        <4>3. QED
          BY <3>1, <4>1, <4>2, SweepNext
      <3>2. CASE req[s].op # "disconnect"
        BY <1>6, <3>2 DEF Fault, Done, Idle
      <3>3. QED
        BY <3>1, <3>2
    <2>4. ~Clears(req'[s])
      BY <1>a, <2>3 DEF Clears, Saving
    <2>5. Advances
      BY <2>1 DEF Advances
    <2>6. ClearsOK'
      BY <1>0, <1>a, <2>3, <2>4, <2>5, SlotClears
    <2>7. RosterBorn' /\ RingingIsTimed'
      BY <2>1, <2>2 DEF RingInv, RosterBorn, RingingIsTimed
    <2>8. QED
      BY <2>2, <2>6, <2>7 DEF RingInv
  <1>7. CASE EditConversation
    <2>1. /\ UNCHANGED <<call, roster, armed, req>>
          /\ left' = [left EXCEPT !.edits = @ - 1]
      BY <1>7 DEF EditConversation, dbVars, mapVars, timerVars
    <2>2. Intact' = Intact /\ Budget'
      BY <1>0, <2>1 DEF Intact, Budget
    <2>3. QED
      BY <1>d, <2>1, <2>2
  <1>8. CASE \E k \in Sockets : Connect(k)
    <2>1. UNCHANGED <<call, roster, armed, req, left>>
      BY <1>8 DEF Connect, dbVars, mapVars, timerVars
    <2>2. QED
      BY <1>c, <1>d, <2>1
  <1>9. QED
    BY <1>2, <1>3, <1>4, <1>5, <1>6, <1>7, <1>8 DEF AroundNext

LEMMA RingInit == Init => RingInv
  <1> SUFFICES ASSUME Init PROVE RingInv
    OBVIOUS
  <1>1. ClearsOK
    BY DEF Init, ClearsOK, Clears, Saving, Idle
  <1>2. RosterBorn /\ RingingIsTimed
    BY DEF Init, RosterBorn, RingingIsTimed
  <1>3. Budget
    BY CallsAssumption DEF Init, Budget, CallsAssumption
  <1>4. QED
    BY <1>1, <1>2, <1>3, LedgerInit DEF RingInv

LEMMA RingStep ==
    ASSUME RingInv, [Next]_vars
    PROVE  RingInv'
  <1>1. LedgerInv' /\ Advances
    BY LedgerStep DEF RingInv
  <1>2. CASE UNCHANGED vars
    BY <1>1, <1>2 DEF vars, RingInv, ClearsOK, Clears, RosterBorn, RingingIsTimed,
       Intact, Budget
  <1>3. Next => AroundNext \/ \E s \in Slots : Step(s)
    BY DEF Next, AroundNext
  <1>4. QED
    BY <1>1, <1>2, <1>3, StepTimed, AroundTimed

\* While nothing failed and the process lived, a call that rings and was announced
\* has its timer armed or the timer's callback under way, whatever handlers overlap
THEOREM RingIsTimed == Spec => []RingingIsTimed
  <1>1. RingInv /\ [Next]_vars => RingInv'
    BY RingStep
  <1>2. RingInv => RingingIsTimed
    BY DEF RingInv
  <1>3. QED
    BY <1>1, <1>2, RingInit, PTL DEF Spec

-----------------------------------------------------------------------------
(* The rows createCall inserted: nobody works on a call before they are all *)
(* there, so every handler that saves the call back has loaded them.        *)

Crew(c) == Founders \cup {call[c].initiator}

\* These rows hold everybody of the crew, once each
Full(ps, crew) ==
    /\ crew \subseteq Users
    /\ \A u \in crew : ps[<<u, 1>>].status # "none" /\ ps[<<u, 1>>].linked
    /\ \A i \in RowIds : i[1] \in crew /\ i[2] # 1 => ps[i].status = "none"

\* What a save that looked at a full table writes of the participants
Cascades(ps, diff, crew) ==
    /\ \A i \in RowIds \cap diff.status : ps[i].status # "none"
    /\ \A i \in RowIds \cap diff.unlink : i[1] \notin crew

\* What a handler on an announced call carries from one step to the next
Carrying(r, crew) ==
    /\ r.pc \in {"load", "check"} => r.todo = {}
    /\ r.pc \in {"savePart", "saveCall", "writeCall", "saveRest"} =>
         Full(r.parts, crew) /\ \A i \in r.todo : r.parts[i].status # "none"
    /\ r.pc = "writeCall" => Cascades(r.parts, r.diff, crew)
    /\ r.op = "add" /\ r.pc = "insert" => r.target \notin crew

\* Somebody may start to work on the call
Reached(c) == told[c] # {} \/ active[c] # 0 \/ c \in armed

\* How far an initiate has come with the rows of its call
Founding(r) ==
    /\ ~Reached(r.call)
    /\ \A i \in RowIds : part[r.call][i].status # "none" => i[2] = 1 /\ part[r.call][i].linked
    /\ r.pc \in {"insertCall", "insertSelf"} => r.todo = (Founders \ {r.user}) \X {1}
    /\ r.pc = "insertCall" => r.row.initiator = r.user
    /\ r.pc \in {"insertSelf", "insertParts", "announce"} => call[r.call].initiator = r.user
    /\ r.pc \in {"insertParts", "announce"} =>
         /\ part[r.call][<<r.user, 1>>].status # "none"
         /\ \A u \in Founders \ {r.user} : \/ <<u, 1>> \in r.todo
                                           \/ part[r.call][<<u, 1>>].status # "none"
    /\ r.pc = "insertParts" => \A i \in r.todo : i[2] = 1
    /\ r.pc = "announce" => r.todo = {}

HandOK(s) ==
    /\ req[s].op = "initiate" => Founding(req[s])
    /\ req[s].op \notin {"idle", "initiate"} =>
         /\ Full(part[req[s].call], Crew(req[s].call))
         /\ Carrying(req[s], Crew(req[s].call))

FoundersLinked ==
    \A c \in Calls, i \in RowIds :
      part[c][i].status # "none" /\ ~part[c][i].linked => i[1] \notin Crew(c)

CrewOK ==
    /\ FoundersLinked
    /\ \A c \in Calls : call[c].status = "none" =>
                          \A i \in RowIds : part[c][i].status = "none"
    /\ \A c \in Calls : Reached(c) => Full(part[c], Crew(c))
    /\ \A s \in Slots : HandOK(s)
    /\ \A s, t \in Slots : s # t /\ req[s].op = "initiate" /\ req[t].op # "idle"
                             => req[t].call # req[s].call
    /\ conv \in {Founders, Deleted} /\ left.edits = 0

CrewInv == LedgerInv /\ CrewOK

LEMMA FullLinked ==
    ASSUME NEW ps, NEW crew, Full(ps, crew), NEW i \in RowIds, i[1] \in crew,
           ps[i].status # "none"
    PROVE  ps[i].linked
  <1>1. i = <<i[1], 1>>
    BY DEF Full, RowIds
  <1>2. QED
    BY <1>1 DEF Full

\* What a handler loads of a full table is full
LEMMA LinkedFull ==
    ASSUME CallsAssumption, NEW c \in Calls, NEW crew, Full(part[c], crew)
    PROVE  Full(LinkedRows(c), crew)
  <1>1. \A i \in RowIds : LinkedRows(c)[i] = IF part[c][i].linked THEN part[c][i] ELSE NoPart
    BY DEF LinkedRows
  <1>2. \A u \in crew : <<u, 1>> \in RowIds
    BY DEF Full, CallsAssumption, RowIds
  <1>3. NoPart.status = "none"
    BY DEF NoPart
  <1>4. QED
    BY <1>1, <1>2, <1>3 DEF Full

LEMMA EditFull ==
    ASSUME CallsAssumption, NEW ps \in [RowIds -> PartRow], NEW crew, Full(ps, crew),
           NEW i \in RowIds, ps[i].status # "none",
           NEW p, p.status # "none", p.linked = ps[i].linked
    PROVE  Full([ps EXCEPT ![i] = p], crew)
  <1>1. \A j \in RowIds : [ps EXCEPT ![i] = p][j] = IF j = i THEN p ELSE ps[j]
    OBVIOUS
  <1>2. \A u \in crew : <<u, 1>> \in RowIds
    BY DEF Full, CallsAssumption, RowIds
  <1>3. QED
    BY <1>1, <1>2 DEF Full

\* The cascade of a full snapshot leaves a full table
LEMMA SaveCallFull ==
    ASSUME CallsAssumption, Typed, NEW c \in Calls, NEW row, NEW crew, NEW diff,
           NEW ps, Full(ps, crew), Full(part[c], crew),
           Cascades(ps, diff, crew), SaveCall(c, row, ps, diff)
    PROVE  Full(part'[c], crew) /\ \A d \in Calls \ {c} : part'[d] = part[d]
  <1>0. part \in [Calls -> [RowIds -> PartRow]]
    BY DEF Typed, TypeOK
  <1> DEFINE new == [i \in RowIds |->
                  [status |-> IF i \in diff.status THEN ps[i].status ELSE part[c][i].status,
                   linked |-> (part[c][i].linked \/ i \in diff.link) /\ i \notin diff.unlink]]
  <1>1. part' = [part EXCEPT ![c] = new]
    BY <1>0 DEF SaveCall
  <1>2. \A i \in RowIds :
          /\ new[i].status = IF i \in diff.status THEN ps[i].status ELSE part[c][i].status
          /\ new[i].linked = ((part[c][i].linked \/ i \in diff.link) /\ i \notin diff.unlink)
    OBVIOUS
  <1> HIDE DEF new
  <1>3. part'[c] = new /\ \A d \in Calls \ {c} : part'[d] = part[d]
    BY <1>0, <1>1
  <1>4. \A u \in crew : <<u, 1>> \in RowIds
    BY DEF Full, CallsAssumption, RowIds
  <1>5. ASSUME NEW u \in crew PROVE new[<<u, 1>>].status # "none" /\ new[<<u, 1>>].linked
    <2>1. PICK i \in RowIds : i = <<u, 1>> /\ i[1] = u
      BY <1>4
    <2>2. part[c][i].status # "none" /\ part[c][i].linked /\ ps[i].status # "none"
      BY <2>1 DEF Full
    <2>3. i \notin diff.unlink
      BY <2>1 DEF Cascades
    <2>4. QED
      BY <1>2, <2>1, <2>2, <2>3
  <1>6. ASSUME NEW i \in RowIds, i[1] \in crew /\ i[2] # 1 PROVE new[i].status = "none"
    BY <1>2, <1>6 DEF Full
  <1>7. QED
    BY <1>3, <1>5, <1>6 DEF Full

LEMMA SavePartFull ==
    ASSUME CallsAssumption, Typed, NEW c \in Calls, NEW crew, Full(part[c], crew),
           NEW i \in RowIds, i[1] \in crew => i[2] = 1,
           NEW row \in PartRow, row.status # "none", SavePart(c, i, row)
    PROVE  Full(part'[c], crew) /\ \A d \in Calls \ {c} : part'[d] = part[d]
  <1>0. part \in [Calls -> [RowIds -> PartRow]]
    BY DEF Typed, TypeOK
  <1>1. PICK p : p = [row EXCEPT !.linked = part[c][i].linked]
    OBVIOUS
  <1>2. p.status = row.status /\ p.linked = part[c][i].linked
    BY <1>1 DEF PartRow
  <1>3. part' = [part EXCEPT ![c][i] = p]
    BY <1>1 DEF SavePart
  <1>4. /\ \A j \in RowIds : part'[c][j] = IF j = i THEN p ELSE part[c][j]
        /\ \A d \in Calls \ {c} : part'[d] = part[d]
    BY <1>0, <1>3
  <1>5. \A u \in crew : <<u, 1>> \in RowIds
    BY DEF Full, CallsAssumption, RowIds
  <1>6. QED
    BY <1>2, <1>4, <1>5 DEF Full

\* A row a handler carries and may save belongs to no second copy of a crew member
LEMMA CarriedRow ==
    ASSUME NEW ps, NEW crew, Full(ps, crew), NEW i \in RowIds, ps[i].status # "none"
    PROVE  i[1] \in crew => i[2] = 1
  BY DEF Full

\* What a step on an announced call does to the rows of the crew
KeepsCrew(s) == LET d == req[s].call IN
    /\ call'[d].initiator = call[d].initiator
    /\ Full(part'[d], Crew(d))
    /\ \A c \in Calls \ {d} : part'[c] = part[c]

\* The handler ends, or goes on with what it carries
GoesOn(s) == LET d == req[s].call IN
    \/ Done(s)
    \/ \E r : Goto(s, r) /\ Carrying(r, Crew(d))

\* The handler in the slot works on a call that was announced
Serving(s) == req[s].op \notin {"idle", "initiate"}

LEMMA ServingHas ==
    ASSUME CrewInv, NEW s \in Slots, Serving(s)
    PROVE  /\ Typed /\ req[s] \in Request /\ req[s].call \in Calls
           /\ req[s].row \in CallRow /\ req[s].parts \in [RowIds -> PartRow]
           /\ Full(part[req[s].call], Crew(req[s].call))
           /\ Carrying(req[s], Crew(req[s].call))
  <1>1. Typed /\ HandOK(s) /\ req[s].op # "idle"
    BY DEF CrewInv, LedgerInv, CrewOK, Serving
  <1>2. QED
    BY <1>1, HandlerTypes DEF Typed, HandOK, Serving

LEMMA CrewRead ==
    ASSUME CrewInv, NEW s \in Slots, Serving(s), call' = call, part' = part
    PROVE  KeepsCrew(s)
  BY ServingHas DEF KeepsCrew

LEMMA CrewSaveCall ==
    ASSUME CallsAssumption, CrewInv, NEW s \in Slots, Serving(s), req[s].pc = "writeCall",
           SaveCall(req[s].call, req[s].row, req[s].parts, req[s].diff)
    PROVE  KeepsCrew(s)
  <1> DEFINE d == req[s].call
  <1>1. /\ Typed /\ d \in Calls
        /\ Full(part[d], Crew(d)) /\ Full(req[s].parts, Crew(d))
        /\ Cascades(req[s].parts, req[s].diff, Crew(d))
    BY ServingHas DEF Carrying
  <1>2. Full(part'[d], Crew(d)) /\ \A c \in Calls \ {d} : part'[c] = part[c]
    BY <1>1, SaveCallFull
  <1>3. call'[d].initiator = call[d].initiator
    BY <1>1 DEF SaveCall, Typed, TypeOK, CallRow
  <1>4. QED
    BY <1>2, <1>3 DEF KeepsCrew

\* The look of a save finds no row of the crew to unlink
LEMMA LookCrew ==
    ASSUME CallsAssumption, CrewInv, NEW s \in Slots, LookAtCall(s)
    PROVE  Serving(s) /\ KeepsCrew(s) /\ GoesOn(s)
  <1> DEFINE d == req[s].call
  <1>1. PICK r \in Request : Goto(s, r) /\ LooksAs(req[s], r)
    BY LookGoes DEF CrewInv, LedgerInv
  <1>2. Serving(s) /\ req[s].pc = "saveCall"
    BY DEF LookAtCall, Saving, Serving
  <1>3. /\ d \in Calls /\ req[s].parts \in [RowIds -> PartRow]
        /\ Full(part[d], Crew(d)) /\ Full(req[s].parts, Crew(d))
        /\ \A i \in req[s].todo : req[s].parts[i].status # "none"
    BY <1>2, ServingHas DEF Carrying
  <1>4. KeepsCrew(s)
    BY <1>2, CrewRead DEF LookAtCall, dbVars
  <1>5. PICK times : r.diff = Differs(req[s], times)
    BY <1>1 DEF LooksAs
  <1>6. /\ r.diff.status \subseteq Rows(req[s].parts)
        /\ r.diff.unlink = Rows(LinkedRows(d)) \ Rows(req[s].parts)
    BY <1>5 DEF Differs
  <1>7. Full(LinkedRows(d), Crew(d))
    BY <1>3, LinkedFull
  <1>8. ASSUME NEW i \in RowIds, i \in Rows(LinkedRows(d)) \ Rows(req[s].parts)
        PROVE  i[1] \notin Crew(d)
    <2>1. SUFFICES ASSUME i[1] \in Crew(d) PROVE FALSE
      OBVIOUS
    <2>2. LinkedRows(d)[i].status # "none" /\ req[s].parts[i].status = "none"
      BY <1>8 DEF Rows
    <2>3. i[2] = 1
      BY <1>7, <2>1, <2>2 DEF Full
    <2>4. i = <<i[1], 1>>
      BY <2>3 DEF RowIds
    <2>5. QED
      BY <1>3, <2>1, <2>2, <2>4 DEF Full
  <1>9. Cascades(req[s].parts, r.diff, Crew(d))
    BY <1>6, <1>8 DEF Cascades, Rows
  <1>10. r.pc = "writeCall" /\ r.parts = req[s].parts /\ r.todo = req[s].todo
    BY <1>1 DEF LooksAs
  <1>11. Carrying(r, Crew(d))
    BY <1>3, <1>9, <1>10 DEF Carrying
  <1>12. QED
    BY <1>1, <1>2, <1>4, <1>11 DEF GoesOn

LEMMA CrewSavePart ==
    ASSUME CallsAssumption, CrewInv, NEW s \in Slots, Serving(s),
           req[s].pc \in {"savePart", "saveRest"},
           NEW i \in RowIds, req[s].parts[i].status # "none",
           NEW row \in PartRow, row.status # "none", SavePart(req[s].call, i, row)
    PROVE  KeepsCrew(s)
  <1> DEFINE d == req[s].call
  <1>1. /\ Typed /\ d \in Calls /\ Full(part[d], Crew(d)) /\ Full(req[s].parts, Crew(d))
    BY ServingHas DEF Carrying
  <1>2. i[1] \in Crew(d) => i[2] = 1
    BY <1>1, CarriedRow
  <1>3. Full(part'[d], Crew(d)) /\ \A c \in Calls \ {d} : part'[c] = part[c]
    BY <1>1, <1>2, SavePartFull
  <1>4. call' = call
    BY DEF SavePart
  <1>5. QED
    BY <1>3, <1>4 DEF KeepsCrew

\* A record that saves nothing more, or that saves rows of a full snapshot
LEMMA QuietCarrying ==
    ASSUME NEW r, NEW crew, r.pc \in {"finish", "ended", "left"}
    PROVE  Carrying(r, crew)
  BY DEF Carrying

LEMMA SavingCarrying ==
    ASSUME NEW r, NEW crew, Full(r.parts, crew),
           r.pc \in {"savePart", "saveCall", "saveRest"},
           \A i \in r.todo : r.parts[i].status # "none"
    PROVE  Carrying(r, crew)
  BY DEF Carrying

\* What the handler has loaded is as good as the table
LEMMA LoadedCrew ==
    ASSUME CallsAssumption, CrewInv, NEW s \in Slots, Serving(s),
           req[s].pc = "load", NEW r, r = Loaded(s)
    PROVE  /\ r \in Request /\ r.op = req[s].op /\ r.pc = "load" /\ r.user = req[s].user
           /\ r.todo = {} /\ r.row = call[req[s].call] /\ r.parts = LinkedRows(req[s].call)
           /\ Full(r.parts, Crew(req[s].call))
           /\ r.parts \in [RowIds -> PartRow] /\ r.row \in CallRow
  <1>1. /\ req[s] \in Request /\ Full(part[req[s].call], Crew(req[s].call))
        /\ req[s].call \in Calls /\ req[s].todo = {}
    BY ServingHas DEF Carrying
  <1>2. /\ r.parts = LinkedRows(req[s].call) /\ r.todo = {} /\ r.pc = "load"
        /\ r.user = req[s].user
    BY <1>1 DEF Loaded, Request
  <1>3. r \in Request /\ r.op = req[s].op /\ r.row = call[req[s].call]
    BY LoadedOp DEF Serving, CrewInv
  <1>4. QED
    BY <1>1, <1>2, <1>3, LinkedFull DEF Request

\* The records after a decline's and an end's first save
LEMMA AfterCarrying ==
    ASSUME NEW r \in Request, NEW crew, Full(r.parts, crew),
           \A i \in r.todo : r.parts[i].status # "none"
    PROVE  /\ Carrying(AfterDecline(r), crew)
           /\ Carrying(AfterLeave(r), crew)
  <1>2. ASSUME NEW row, NEW q, q = [r EXCEPT !.pc = "saveCall", !.row = row]
        PROVE  Carrying(q, crew)
    <2>1. /\ q.pc = "saveCall" /\ q.row = row /\ q.parts = r.parts /\ q.todo = r.todo
      BY <1>2 DEF Request
    <2>2. QED
      BY <1>2, <2>1, SavingCarrying
  <1>3. ASSUME NEW pc \in {"finish", "left"}, NEW q, q = [r EXCEPT !.pc = pc]
        PROVE  Carrying(q, crew)
    <2>1. q.pc = pc
      BY <1>3 DEF Request
    <2>2. QED
      BY <2>1, QuietCarrying
  <1>4. /\ \/ AfterDecline(r) = [r EXCEPT !.pc = "saveCall", !.row = Declined(r.row)]
           \/ AfterDecline(r) = [r EXCEPT !.pc = "finish"]
        /\ \/ AfterLeave(r) = [r EXCEPT !.pc = "saveCall", !.row = Ended(r.row)]
           \/ AfterLeave(r) = [r EXCEPT !.pc = "left"]
    BY DEF AfterDecline, AfterLeave, Request
  <1>5. QED
    BY <1>2, <1>3, <1>4

LEMMA PcCarrying ==
    ASSUME NEW r \in Request, NEW crew, NEW pc,
           pc \in {"savePart", "finish", "ended", "left"},
           pc = "savePart" => /\ Full(r.parts, crew)
                              /\ \A i \in r.todo : r.parts[i].status # "none"
    PROVE  Carrying([r EXCEPT !.pc = pc], crew)
  <1>1. PICK q : q = [r EXCEPT !.pc = pc]
    OBVIOUS
  <1>2. q.pc = pc /\ q.parts = r.parts /\ q.todo = r.todo /\ q.op = r.op /\ q.row = r.row
    BY <1>1 DEF Request
  <1>3. Carrying(q, crew)
    BY <1>2, QuietCarrying, SavingCarrying
  <1>4. QED
    BY <1>1, <1>3

LEMMA CallCarrying ==
    ASSUME NEW r \in Request, NEW crew, NEW row, Full(r.parts, crew),
           \A i \in r.todo : r.parts[i].status # "none"
    PROVE  Carrying([r EXCEPT !.pc = "saveCall", !.row = row], crew)
  <1>1. PICK q : q = [r EXCEPT !.pc = "saveCall", !.row = row]
    OBVIOUS
  <1>2. q.pc = "saveCall" /\ q.parts = r.parts /\ q.todo = r.todo /\ q.row = row
    BY <1>1 DEF Request
  <1>3. Carrying(q, crew)
    BY <1>2, SavingCarrying
  <1>4. QED
    BY <1>1, <1>3

LEMMA AcceptCrew ==
    ASSUME CallsAssumption, CrewInv, NEW s \in Slots, AcceptStep(s)
    PROVE  KeepsCrew(s) /\ GoesOn(s)
  <1> DEFINE d == req[s].call
  <1>0. req[s].op = "accept" /\ Serving(s)
    BY DEF AcceptStep, AcceptLoad, AcceptSaveCall, AcceptSavePart, AcceptFinish, At, Serving
  <1>1. CASE AcceptLoad(s)
    <2>1. PICK r : r = Loaded(s)
      OBVIOUS
    <2> DEFINE row == [call[d] EXCEPT !.status = "active", !.startedAt = TRUE]
    <2>2. req[s].pc = "load" /\ OnlyReq
      BY <1>1, Zenon DEF AcceptLoad, At
    <2>3. /\ r \in Request /\ Full(r.parts, Crew(d)) /\ r.todo = {} /\ r.row = call[d]
          /\ r.row \in CallRow /\ r.op = "accept"
      BY <1>0, <2>1, <2>2, LoadedCrew
    <2>4. \/ Goto(s, [r EXCEPT !.pc = "saveCall", !.row = row])
          \/ Goto(s, [r EXCEPT !.pc = AfterAccept(r)])
      BY <1>1, <2>1, <2>3 DEF AcceptLoad, Loaded
    <2> HIDE DEF row
    <2>6. Carrying([r EXCEPT !.pc = "saveCall", !.row = row], Crew(d))
      BY <2>3, CallCarrying
    <2>7. Carrying([r EXCEPT !.pc = AfterAccept(r)], Crew(d))
      BY <2>3, PcCarrying DEF AfterAccept
    <2>8. KeepsCrew(s)
      BY <1>0, <2>2, CrewRead DEF OnlyReq, dbVars
    <2>9. QED
      BY <2>4, <2>6, <2>7, <2>8 DEF GoesOn
  <1>2. CASE AcceptSaveCall(s)
    <2>w. PICK w : w = Written(req[s])
      OBVIOUS
    <2>1. /\ req[s].pc = "writeCall" /\ SaveCall(d, req[s].row, req[s].parts, req[s].diff)
          /\ Goto(s, [w EXCEPT !.pc = AfterAccept(req[s])])
      BY <1>2, <2>w, Zenon DEF AcceptSaveCall, At
    <2>2. /\ req[s] \in Request /\ Full(req[s].parts, Crew(d)) /\ req[s].op = "accept"
          /\ \A i \in req[s].todo : req[s].parts[i].status # "none"
      BY <1>0, <2>1, ServingHas DEF Carrying
    <2>3. Carrying([w EXCEPT !.pc = AfterAccept(req[s])], Crew(d))
      BY <2>w, <2>2, WrittenSame, PcCarrying DEF AfterAccept
    <2>4. QED
      BY <1>0, <2>1, <2>3, CrewSaveCall DEF GoesOn
  <1>3. CASE AcceptSavePart(s)
    <2>1. /\ req[s].pc = "savePart" /\ Goto(s, [req[s] EXCEPT !.pc = "finish"])
          /\ \E i \in RowsOf(req[s].parts, req[s].user) : SavePart(d, i, Joined(req[s].parts[i]))
      BY <1>3, Zenon DEF AcceptSavePart, At
    <2>2. PICK i \in RowIds : /\ req[s].parts[i].status # "none"
                              /\ SavePart(d, i, Joined(req[s].parts[i]))
      BY <2>1 DEF RowsOf, Rows
    <2>3. req[s] \in Request /\ req[s].parts[i] \in PartRow
      BY <1>0, ServingHas
    <2>4. Joined(req[s].parts[i]) \in PartRow /\ Joined(req[s].parts[i]).status # "none"
      BY <2>3, PartTypes DEF Joined, PartRow
    <2>5. KeepsCrew(s)
      BY <1>0, <2>1, <2>2, <2>4, CrewSavePart
    <2>6. Carrying([req[s] EXCEPT !.pc = "finish"], Crew(d))
      BY <2>3, PcCarrying
    <2>7. QED
      BY <2>1, <2>5, <2>6 DEF GoesOn
  <1>4. CASE AcceptFinish(s)
    <2>1. Done(s) /\ UNCHANGED dbVars
      BY <1>4 DEF AcceptFinish, dbVars
    <2>2. QED
      BY <1>0, <2>1, CrewRead DEF GoesOn, dbVars
  <1>5. QED
    BY <1>1, <1>2, <1>3, <1>4 DEF AcceptStep

LEMMA DeclineCrew ==
    ASSUME CallsAssumption, CrewInv, NEW s \in Slots, DeclineStep(s)
    PROVE  KeepsCrew(s) /\ GoesOn(s)
  <1> DEFINE d == req[s].call
  <1>0. req[s].op = "decline" /\ Serving(s)
    BY DEF DeclineStep, DeclineLoad, DeclineSaveCall, DeclineSavePart, DeclineFinish, At,
           Serving
  <1>1. CASE DeclineLoad(s)
    <2>1. PICK r : r = Loaded(s)
      OBVIOUS
    <2>2. req[s].pc = "load" /\ OnlyReq
      BY <1>1, Zenon DEF DeclineLoad, At
    <2>3. r \in Request /\ Full(r.parts, Crew(d)) /\ r.todo = {} /\ r.row = call[d]
      BY <1>0, <2>1, <2>2, LoadedCrew
    <2>4. Goto(s, AfterDecline(r)) \/ Goto(s, [r EXCEPT !.pc = "savePart"])
      BY <1>1, <2>1 DEF DeclineLoad, Loaded
    <2>5. Carrying([r EXCEPT !.pc = "savePart"], Crew(d))
      BY <2>3, PcCarrying
    <2>6. Carrying(AfterDecline(r), Crew(d))
      BY <2>3, AfterCarrying
    <2>7. KeepsCrew(s)
      BY <1>0, <2>2, CrewRead DEF OnlyReq, dbVars
    <2>8. QED
      BY <2>4, <2>5, <2>6, <2>7 DEF GoesOn
  <1>2. CASE DeclineSavePart(s)
    <2>1. PICK i \in RowsOf(req[s].parts, req[s].user) :
            LET p == [req[s].parts[i] EXCEPT !.status = "declined"] IN
              /\ SavePart(d, i, p)
              /\ Goto(s, AfterDecline([req[s] EXCEPT !.parts[i] = p]))
      BY <1>2 DEF DeclineSavePart
    <2>2. PICK p : p = [req[s].parts[i] EXCEPT !.status = "declined"]
      OBVIOUS
    <2>3. i \in RowIds /\ req[s].parts[i].status # "none" /\ req[s].pc = "savePart"
      BY <1>2 DEF RowsOf, Rows, DeclineSavePart, At
    <2>4. /\ req[s] \in Request /\ req[s].parts \in [RowIds -> PartRow]
          /\ Full(req[s].parts, Crew(d))
          /\ \A j \in req[s].todo : j \in RowIds /\ req[s].parts[j].status # "none"
      BY <1>0, <2>3, ServingHas DEF Carrying, Request
    <2>5. p \in PartRow /\ p.status # "none" /\ p.linked = req[s].parts[i].linked
      <3>1. PICK q \in PartRow : q = req[s].parts[i]
        BY <2>3, <2>4
      <3>2. p = [q EXCEPT !.status = "declined"]
        BY <2>2, <3>1
      <3>3. QED
        BY <3>1, <3>2 DEF PartStatus, PartRow
    <2> DEFINE ps == [req[s].parts EXCEPT ![i] = p]
    <2>6. /\ ps \in [RowIds -> PartRow] /\ Full(ps, Crew(d))
          /\ \A j \in req[s].todo : ps[j].status # "none"
      BY <2>3, <2>4, <2>5, EditFull
    <2>7. PICK r : r = [req[s] EXCEPT !.parts = ps]
      OBVIOUS
    <2>8. Goto(s, AfterDecline(r)) /\ SavePart(d, i, p)
      BY <2>1, <2>2, <2>7
    <2> HIDE DEF ps
    <2>9. r \in Request /\ r.parts = ps /\ r.todo = req[s].todo /\ r.row = req[s].row
      BY <2>4, <2>6, <2>7 DEF Request
    <2>10. Carrying(AfterDecline(r), Crew(d))
      BY <2>4, <2>6, <2>9, AfterCarrying
    <2>11. KeepsCrew(s)
      BY <1>0, <2>3, <2>5, <2>8, CrewSavePart
    <2>12. QED
      BY <2>8, <2>10, <2>11 DEF GoesOn
  <1>3. CASE DeclineSaveCall(s)
    <2>w. PICK w : w = Written(req[s])
      OBVIOUS
    <2>1. /\ req[s].pc = "writeCall" /\ SaveCall(d, req[s].row, req[s].parts, req[s].diff)
          /\ Goto(s, [w EXCEPT !.pc = "finish"])
      BY <1>3, <2>w, Zenon DEF DeclineSaveCall, At
    <2>2. Carrying([w EXCEPT !.pc = "finish"], Crew(d))
      BY <1>0, <2>w, ServingHas, WrittenSame, PcCarrying
    <2>3. QED
      BY <1>0, <2>1, <2>2, CrewSaveCall DEF GoesOn
  <1>4. CASE DeclineFinish(s)
    <2>1. Done(s) /\ UNCHANGED dbVars
      BY <1>4 DEF DeclineFinish, dbVars
    <2>2. QED
      BY <1>0, <2>1, CrewRead DEF GoesOn, dbVars
  <1>5. QED
    BY <1>1, <1>2, <1>3, <1>4 DEF DeclineStep

LEMMA EndCrew ==
    ASSUME CallsAssumption, CrewInv, NEW s \in Slots, EndStep(s), ~DisconnectFinish(s)
    PROVE  KeepsCrew(s) /\ GoesOn(s)
  <1> DEFINE d == req[s].call
  <1>0. req[s].op \in {"end", "disconnect"} /\ Serving(s)
    BY EndHandler DEF Serving
  <1>a. /\ req[s] \in Request /\ req[s].parts \in [RowIds -> PartRow]
        /\ req[s].todo \subseteq RowIds
    BY <1>0, ServingHas DEF Request
  <1>b. \A i \in RowIds : /\ req[s].parts[i] \in PartRow
                          /\ HasLeft(req[s].parts[i]) \in PartRow
                          /\ HasLeft(req[s].parts[i]).status # "none"
    <2>1. \A p \in PartRow : HasLeft(p).status # "none"
      BY DEF HasLeft, PartRow
    <2>2. QED
      BY <1>a, <2>1, PartTypes
  <1>1. CASE EndLoad(s)
    <2>1. PICK r : r = Loaded(s)
      OBVIOUS
    <2>2. req[s].pc = "load" /\ OnlyReq
      BY <1>1, Zenon DEF EndLoad, Ending, At
    <2>3. /\ r \in Request /\ Full(r.parts, Crew(d)) /\ r.todo = {} /\ r.row = call[d]
          /\ r.parts \in [RowIds -> PartRow]
      BY <1>0, <2>1, <2>2, LoadedCrew
    <2>4. \/ Goto(s, AfterLeave(r))
          \/ \E i \in RowIds : /\ r.parts[i].status # "none"
                               /\ Goto(s, [r EXCEPT !.pc = "savePart", !.todo = {i},
                                                    !.parts[i] = HasLeft(@)])
      BY <1>1, <2>1, Zenon DEF EndLoad, Loaded, RowsOf, Rows
    <2>5. Carrying(AfterLeave(r), Crew(d))
      BY <2>3, AfterCarrying
    <2>6. ASSUME NEW i \in RowIds, r.parts[i].status # "none"
          PROVE  Carrying([r EXCEPT !.pc = "savePart", !.todo = {i}, !.parts[i] = HasLeft(@)],
                          Crew(d))
      <3>1. PICK q \in PartRow : q = r.parts[i]
        BY <2>3
      <3>2. HasLeft(q).status # "none" /\ HasLeft(q).linked = q.linked
        BY DEF HasLeft, PartRow
      <3> DEFINE ps == [r.parts EXCEPT ![i] = HasLeft(q)]
      <3>3. Full(ps, Crew(d)) /\ ps[i].status # "none"
        BY <2>3, <2>6, <3>1, <3>2, EditFull
      <3>4. PICK z : z = [r EXCEPT !.pc = "savePart", !.todo = {i}, !.parts = ps]
        OBVIOUS
      <3>5. z = [r EXCEPT !.pc = "savePart", !.todo = {i}, !.parts[i] = HasLeft(@)]
        BY <2>3, <3>1, <3>4 DEF Request
      <3> HIDE DEF ps
      <3>6. z.pc = "savePart" /\ z.todo = {i} /\ z.parts = ps /\ z.row = call[d]
        BY <2>3, <3>4 DEF Request
      <3>7. Carrying(z, Crew(d))
        BY <3>3, <3>6, SavingCarrying
      <3>8. QED
        BY <3>5, <3>7
    <2>7. KeepsCrew(s)
      BY <1>0, <2>2, CrewRead DEF OnlyReq, dbVars
    <2>8. QED
      BY <2>4, <2>5, <2>6, <2>7 DEF GoesOn
  <1>2. CASE EndSavePart(s)
    <2>1. /\ req[s].pc = "savePart" /\ Goto(s, AfterLeave([req[s] EXCEPT !.todo = {}]))
          /\ \E i \in req[s].todo : SavePart(d, i, req[s].parts[i])
      BY <1>2, Zenon DEF EndSavePart, Ending, At
    <2>2. /\ Full(req[s].parts, Crew(d))
          /\ \A i \in req[s].todo : req[s].parts[i].status # "none"
      BY <1>0, <2>1, ServingHas DEF Carrying
    <2>3. KeepsCrew(s)
      BY <1>0, <1>a, <1>b, <2>1, <2>2, CrewSavePart
    <2>4. PICK r : r = [req[s] EXCEPT !.todo = {}]
      OBVIOUS
    <2>5. r \in Request /\ r.parts = req[s].parts /\ r.todo = {} /\ r.row = req[s].row
      BY <1>a, <2>4 DEF Request
    <2>6. Carrying(AfterLeave(r), Crew(d))
      BY <2>2, <2>5, AfterCarrying
    <2>7. QED
      BY <2>1, <2>3, <2>4, <2>6 DEF GoesOn
  <1>3. CASE EndSaveCall(s)
    <2> DEFINE rest == JoinedRows(req[s].parts)
               pc == IF rest = {} THEN "ended" ELSE "saveRest"
    <2>1. /\ req[s].pc = "writeCall" /\ SaveCall(d, req[s].row, req[s].parts, req[s].diff)
          /\ Goto(s, [Written(req[s]) EXCEPT !.todo = rest, !.pc = pc])
      BY <1>3, Zenon DEF EndSaveCall, Ending, At
    <2>2. Full(req[s].parts, Crew(d))
      BY <1>0, <2>1, ServingHas DEF Carrying
    <2>w. PICK w : w = Written(req[s])
      OBVIOUS
    <2>3. PICK r : r = [w EXCEPT !.todo = rest, !.pc = pc]
      OBVIOUS
    <2>4. (\A i \in rest : req[s].parts[i].status # "none") /\ pc \in {"ended", "saveRest"}
      BY DEF JoinedRows
    <2> HIDE DEF rest, pc
    <2>5. r.pc = pc /\ r.todo = rest /\ r.parts = req[s].parts
      BY <1>a, <2>w, <2>3, WrittenSame DEF Request
    <2>6. Carrying(r, Crew(d))
      BY <2>2, <2>4, <2>5, QuietCarrying, SavingCarrying
    <2>7. QED
      BY <1>0, <2>1, <2>w, <2>3, <2>6, CrewSaveCall DEF GoesOn
  <1>4. CASE EndSaveRest(s)
    <2>1. /\ req[s].pc = "saveRest"
          /\ \E i \in req[s].todo :
               /\ SavePart(d, i, HasLeft(req[s].parts[i]))
               /\ Goto(s, [req[s] EXCEPT !.todo = @ \ {i},
                                         !.pc = IF req[s].todo = {i} THEN "ended" ELSE @])
      BY <1>4, Zenon DEF EndSaveRest, Ending, At
    <2>2. PICK i \in req[s].todo :
               /\ SavePart(d, i, HasLeft(req[s].parts[i]))
               /\ Goto(s, [req[s] EXCEPT !.todo = @ \ {i},
                                         !.pc = IF req[s].todo = {i} THEN "ended" ELSE @])
      BY <2>1
    <2>3. /\ Full(req[s].parts, Crew(d))
          /\ \A j \in req[s].todo : req[s].parts[j].status # "none"
      BY <1>0, <2>1, ServingHas DEF Carrying
    <2>4. KeepsCrew(s)
      BY <1>0, <1>a, <1>b, <2>1, <2>2, <2>3, CrewSavePart
    <2> DEFINE rest == req[s].todo \ {i}
               pc == IF req[s].todo = {i} THEN "ended" ELSE "saveRest"
    <2>5. PICK r : r = [req[s] EXCEPT !.todo = rest, !.pc = pc]
      OBVIOUS
    <2>6. Goto(s, r)
      BY <1>a, <2>1, <2>2, <2>5 DEF Request
    <2>7. (\A j \in rest : req[s].parts[j].status # "none") /\ pc \in {"ended", "saveRest"}
      BY <2>3
    <2> HIDE DEF rest, pc
    <2>8. r.pc = pc /\ r.todo = rest /\ r.parts = req[s].parts
      BY <1>a, <2>5 DEF Request
    <2>9. Carrying(r, Crew(d))
      BY <2>3, <2>7, <2>8, QuietCarrying, SavingCarrying
    <2>10. QED
      BY <2>4, <2>6, <2>9 DEF GoesOn
  <1>5. CASE EndFinish(s)
    <2>1. Done(s) /\ UNCHANGED dbVars
      BY <1>5, Zenon DEF EndFinish, dbVars
    <2>2. QED
      BY <1>0, <2>1, CrewRead DEF GoesOn, dbVars
  <1>6. QED
    BY <1>1, <1>2, <1>3, <1>4, <1>5 DEF EndStep

LEMMA AddKickCrew ==
    ASSUME CallsAssumption, CrewInv, NEW s \in Slots, AddKickStep(s)
    PROVE  KeepsCrew(s) /\ GoesOn(s)
  <1> DEFINE d == req[s].call
  <1>0. req[s].op \in {"add", "kick"} /\ Serving(s)
    BY Zenon DEF AddKickStep, AddLoad, AddInsert, AddFinish, KickLoad, KickSavePart,
           KickFinish, At, Serving
  <1>a. /\ req[s] \in Request /\ req[s].parts \in [RowIds -> PartRow] /\ d \in Calls
        /\ req[s].todo \subseteq RowIds /\ Full(part[d], Crew(d)) /\ Typed
        /\ part \in [Calls -> [RowIds -> PartRow]]
    BY <1>0, ServingHas DEF Request, Typed, TypeOK
  <1>b. \A p \in PartRow : HasLeft(p) \in PartRow /\ HasLeft(p).status # "none"
    BY PartTypes DEF HasLeft, PartRow
  <1>c. Done(s) /\ UNCHANGED dbVars => KeepsCrew(s) /\ GoesOn(s)
    BY <1>0, CrewRead DEF GoesOn, dbVars
  <1>1. CASE AddLoad(s)
    <2>1. PICK r : r = [req[s] EXCEPT !.pc = "insert", !.gone = (conv = Deleted)]
      OBVIOUS
    <2>2. \/ Done(s)
          \/ Goto(s, r) /\ RowsOf(LinkedRows(d), req[s].target) = {}
      BY <1>1, <2>1 DEF AddLoad
    <2>3. OnlyReq
      BY <1>1, Zenon DEF AddLoad
    <2>4. r.pc = "insert" /\ r.target = req[s].target
      BY <1>a, <2>1 DEF Request
    <2>5. ASSUME RowsOf(LinkedRows(d), req[s].target) = {}
          PROVE  req[s].target \notin Crew(d)
      <3>1. Full(LinkedRows(d), Crew(d))
        BY <1>a, LinkedFull
      <3>2. SUFFICES ASSUME req[s].target \in Crew(d) PROVE FALSE
        OBVIOUS
      <3>3. PICK i : i = <<req[s].target, 1>>
        OBVIOUS
      <3>4. i \in RowIds /\ i[1] = req[s].target
        BY <3>1, <3>2, <3>3 DEF Full, RowIds, CallsAssumption
      <3>5. LinkedRows(d)[i].status # "none"
        BY <3>1, <3>2, <3>3 DEF Full
      <3>6. QED
        BY <2>5, <3>4, <3>5 DEF RowsOf, Rows
    <2>6. RowsOf(LinkedRows(d), req[s].target) = {} => Carrying(r, Crew(d))
      BY <2>4, <2>5 DEF Carrying
    <2>7. KeepsCrew(s)
      BY <1>0, <2>3, CrewRead DEF OnlyReq, dbVars
    <2>8. QED
      BY <2>2, <2>6, <2>7 DEF GoesOn
  <1>2. CASE AddInsert(s)
    <2>1. PICK n \in Copies : part' = [part EXCEPT ![d][<<req[s].target, n>>] = Invited]
      BY <1>2 DEF AddInsert
    <2>2. /\ call' = call /\ req[s].op = "add" /\ req[s].pc = "insert"
          /\ Done(s) \/ Goto(s, [req[s] EXCEPT !.pc = "finish"])
      BY <1>2 DEF AddInsert, At
    <2>3. req[s].target \notin Crew(d)
      BY <1>0, <2>2, ServingHas DEF Carrying
    <2> DEFINE i == <<req[s].target, n>>
    <2>4. /\ \A j \in RowIds : part'[d][j] = IF j = i THEN Invited ELSE part[d][j]
          /\ \A c \in Calls \ {d} : part'[c] = part[c]
      BY <1>a, <2>1
    <2>5. i[1] \notin Crew(d) /\ \A u \in Crew(d) : <<u, 1>> \in RowIds /\ <<u, 1>> # i
      BY <1>a, <2>3 DEF Full, RowIds, CallsAssumption
    <2> HIDE DEF i
    <2>6. Full(part'[d], Crew(d))
      BY <1>a, <2>4, <2>5 DEF Full
    <2>7. Carrying([req[s] EXCEPT !.pc = "finish"], Crew(d))
      BY <1>a, PcCarrying
    <2>8. QED
      BY <2>2, <2>4, <2>6, <2>7 DEF KeepsCrew, GoesOn
  <1>3. CASE AddFinish(s)
    BY <1>3, <1>c, Zenon DEF AddFinish, dbVars
  <1>4. CASE KickLoad(s)
    <2>1. /\ req[s].pc = "load" /\ OnlyReq /\ req[s].op = "kick"
          /\ \/ Done(s)
             \/ \E i \in RowsOf(LinkedRows(d), req[s].target) :
                  Goto(s, [req[s] EXCEPT !.pc = "savePart", !.parts = LinkedRows(d),
                                         !.todo = {i}])
      BY <1>4, Zenon DEF KickLoad, At
    <2>2. KeepsCrew(s)
      BY <1>0, <2>1, CrewRead DEF OnlyReq, dbVars
    <2>3. ASSUME NEW i \in RowsOf(LinkedRows(d), req[s].target),
                 NEW r, r = [req[s] EXCEPT !.pc = "savePart", !.parts = LinkedRows(d),
                                         !.todo = {i}]
          PROVE  Carrying(r, Crew(d))
      <3>1. PICK ps : ps = LinkedRows(d)
        OBVIOUS
      <3>2. Full(ps, Crew(d)) /\ ps[i].status # "none"
        BY <1>a, <3>1, LinkedFull DEF RowsOf, Rows
      <3>3. r.pc = "savePart" /\ r.parts = ps /\ r.todo = {i} /\ r.op = "kick"
        BY <1>a, <2>1, <2>3, <3>1 DEF Request
      <3>4. QED
        BY <3>2, <3>3, SavingCarrying
    <2>4. QED
      BY <2>1, <2>2, <2>3 DEF GoesOn
  <1>5. CASE KickSavePart(s)
    <2>1. /\ req[s].pc = "savePart" /\ Goto(s, [req[s] EXCEPT !.pc = "finish"])
          /\ \E i \in req[s].todo : SavePart(d, i, HasLeft(req[s].parts[i]))
      BY <1>5, Zenon DEF KickSavePart, At
    <2>2. PICK i \in RowIds : /\ req[s].parts[i].status # "none"
                              /\ SavePart(d, i, HasLeft(req[s].parts[i]))
      BY <1>0, <1>a, <2>1, ServingHas DEF Carrying
    <2>3. KeepsCrew(s)
      BY <1>0, <1>a, <1>b, <2>1, <2>2, CrewSavePart
    <2>4. Carrying([req[s] EXCEPT !.pc = "finish"], Crew(d))
      BY <1>a, PcCarrying
    <2>5. QED
      BY <2>1, <2>3, <2>4 DEF GoesOn
  <1>6. CASE KickFinish(s)
    BY <1>6, <1>c, Zenon DEF KickFinish, dbVars
  <1>7. QED
    BY <1>1, <1>2, <1>3, <1>4, <1>5, <1>6 DEF AddKickStep

LEMMA TimerCrew ==
    ASSUME CallsAssumption, CrewInv, NEW s \in Slots, TimerStep(s)
    PROVE  KeepsCrew(s) /\ GoesOn(s)
  <1> DEFINE d == req[s].call
  <1>0. req[s].op = "timer" /\ Serving(s)
    BY Zenon DEF TimerStep, TimerCheck, TimerLoad, TimerSaveCall, TimerSaveRest,
           TimerFinish, At, Serving
  <1>a. /\ req[s] \in Request /\ req[s].parts \in [RowIds -> PartRow] /\ d \in Calls
        /\ req[s].todo \subseteq RowIds /\ Full(part[d], Crew(d)) /\ Typed
    BY <1>0, ServingHas DEF Request
  <1>1. CASE TimerCheck(s)
    <2>1. /\ req[s].pc = "check" /\ OnlyReq
          /\ \/ Goto(s, [req[s] EXCEPT !.pc = "load"])
             \/ Goto(s, [req[s] EXCEPT !.pc = "finish"])
      BY <1>1 DEF TimerCheck, At
    <2>2. req[s].todo = {}
      BY <1>0, <2>1, ServingHas DEF Carrying
    <2>3. PICK r : r = [req[s] EXCEPT !.pc = "load"]
      OBVIOUS
    <2>4. r.pc = "load" /\ r.todo = {}
      BY <1>a, <2>2, <2>3 DEF Request
    <2>5. Carrying(r, Crew(d))
      BY <2>4 DEF Carrying
    <2>6. Carrying([req[s] EXCEPT !.pc = "finish"], Crew(d))
      BY <1>a, PcCarrying
    <2>7. KeepsCrew(s)
      BY <1>0, <2>1, CrewRead DEF OnlyReq, dbVars
    <2>8. QED
      BY <2>1, <2>3, <2>5, <2>6, <2>7 DEF GoesOn
  <1>2. CASE TimerLoad(s)
    <2>1. /\ req[s].pc = "load" /\ OnlyReq
          /\ \/ Goto(s, [req[s] EXCEPT !.pc = "saveCall", !.row = Missed(call[d]),
                                       !.parts = LinkedRows(d)])
             \/ Goto(s, [req[s] EXCEPT !.pc = "finish"])
      BY <1>2, Zenon DEF TimerLoad, At
    <2>2. Full(LinkedRows(d), Crew(d)) /\ req[s].todo = {} /\ call[d] \in CallRow
      BY <1>0, <1>a, <2>1, ServingHas, LinkedFull, RowTypes DEF Carrying, Typed
    <2>4. PICK ps, row : ps = LinkedRows(d) /\ row = Missed(call[d])
      OBVIOUS
    <2>5. PICK r : r = [req[s] EXCEPT !.pc = "saveCall", !.row = row, !.parts = ps]
      OBVIOUS
    <2>6. r.pc = "saveCall" /\ r.row = row /\ r.parts = ps /\ r.todo = {}
      BY <1>a, <2>2, <2>5 DEF Request
    <2>7. Carrying(r, Crew(d))
      BY <2>2, <2>4, <2>6, SavingCarrying
    <2>8. Carrying([req[s] EXCEPT !.pc = "finish"], Crew(d))
      BY <1>a, PcCarrying
    <2>9. KeepsCrew(s)
      BY <1>0, <2>1, CrewRead DEF OnlyReq, dbVars
    <2>10. QED
      BY <2>1, <2>4, <2>5, <2>7, <2>8, <2>9 DEF GoesOn
  <1>3. CASE TimerSaveCall(s)
    <2> DEFINE rest == {i \in RowIds : req[s].parts[i].status = "invited"}
               pc == IF rest = {} THEN "finish" ELSE "saveRest"
    <2>1. /\ req[s].pc = "writeCall" /\ SaveCall(d, req[s].row, req[s].parts, req[s].diff)
          /\ Goto(s, [Written(req[s]) EXCEPT !.todo = rest, !.pc = pc])
      BY <1>3, Zenon DEF TimerSaveCall, At
    <2>2. Full(req[s].parts, Crew(d))
      BY <1>0, <2>1, ServingHas DEF Carrying
    <2>w. PICK w : w = Written(req[s])
      OBVIOUS
    <2>3. PICK r : r = [w EXCEPT !.todo = rest, !.pc = pc]
      OBVIOUS
    <2>4. (\A i \in rest : req[s].parts[i].status # "none") /\ pc \in {"finish", "saveRest"}
      OBVIOUS
    <2> HIDE DEF rest, pc
    <2>5. r.pc = pc /\ r.todo = rest /\ r.parts = req[s].parts
      BY <1>a, <2>w, <2>3, WrittenSame DEF Request
    <2>6. Carrying(r, Crew(d))
      BY <2>2, <2>4, <2>5, QuietCarrying, SavingCarrying
    <2>7. QED
      BY <1>0, <2>1, <2>w, <2>3, <2>6, CrewSaveCall DEF GoesOn
  <1>4. CASE TimerSaveRest(s)
    <2>1. /\ req[s].pc = "saveRest"
          /\ \E i \in req[s].todo :
               /\ SavePart(d, i, [req[s].parts[i] EXCEPT !.status = "missed"])
               /\ Goto(s, [req[s] EXCEPT !.todo = @ \ {i},
                                         !.pc = IF req[s].todo = {i} THEN "finish" ELSE @])
      BY <1>4, Zenon DEF TimerSaveRest, At
    <2>2. PICK i \in req[s].todo :
               /\ SavePart(d, i, [req[s].parts[i] EXCEPT !.status = "missed"])
               /\ Goto(s, [req[s] EXCEPT !.todo = @ \ {i},
                                         !.pc = IF req[s].todo = {i} THEN "finish" ELSE @])
      BY <2>1
    <2>3. /\ Full(req[s].parts, Crew(d))
          /\ \A j \in req[s].todo : req[s].parts[j].status # "none"
      BY <1>0, <2>1, ServingHas DEF Carrying
    <2>4. \A p \in PartRow : [p EXCEPT !.status = "missed"].status # "none"
      BY DEF PartRow
    <2>5. KeepsCrew(s)
      BY <1>0, <1>a, <2>1, <2>2, <2>3, <2>4, CrewSavePart, PartTypes DEF PartStatus
    <2> DEFINE rest == req[s].todo \ {i}
               pc == IF req[s].todo = {i} THEN "finish" ELSE "saveRest"
    <2>6. PICK r : r = [req[s] EXCEPT !.todo = rest, !.pc = pc]
      OBVIOUS
    <2>7. Goto(s, r)
      BY <1>a, <2>1, <2>2, <2>6 DEF Request
    <2>8. (\A j \in rest : req[s].parts[j].status # "none") /\ pc \in {"finish", "saveRest"}
      BY <2>3
    <2> HIDE DEF rest, pc
    <2>9. r.pc = pc /\ r.todo = rest /\ r.parts = req[s].parts
      BY <1>a, <2>6 DEF Request
    <2>10. Carrying(r, Crew(d))
      BY <2>3, <2>8, <2>9, QuietCarrying, SavingCarrying
    <2>11. QED
      BY <2>5, <2>7, <2>10 DEF GoesOn
  <1>5. CASE TimerFinish(s)
    <2>1. Done(s) /\ UNCHANGED dbVars
      BY <1>5, Zenon DEF TimerFinish, dbVars
    <2>2. QED
      BY <1>0, <2>1, CrewRead DEF GoesOn, dbVars
  <1>6. QED
    BY <1>1, <1>2, <1>3, <1>4, <1>5 DEF TimerStep

\* A handler is not disturbed by what happens to other calls
LEMMA HandStays ==
    ASSUME NEW t \in Slots, NEW c, req[t].op # "idle" => req[t].call = c, HandOK(t),
           req'[t] = req[t], call'[c] = call[c], part'[c] = part[c],
           Reached(c)' => Reached(c)
    PROVE  HandOK(t)'
  BY DEF HandOK, Founding, Crew

\* One handler moves, and the call it moves on keeps its crew
LEMMA CrewMove ==
    ASSUME Typed, CrewOK, NEW s \in Slots, NEW d \in Calls,
           \A t \in Slots \ {s} : req'[t] = req[t],
           \A c \in Calls \ {d} : /\ call'[c] = call[c] /\ part'[c] = part[c]
                                  /\ Reached(c)' => Reached(c),
           \A i \in RowIds : part'[d][i].status # "none" /\ ~part'[d][i].linked
                               => i[1] \notin Crew(d)',
           call'[d].status = "none" => \A i \in RowIds : part'[d][i].status = "none",
           Reached(d)' => Full(part'[d], Crew(d)'),
           \A t \in Slots \ {s} : req[t].op # "idle" /\ req[t].call = d => HandOK(t)',
           HandOK(s)',
           \A t \in Slots \ {s} : /\ req[t].op # "idle" /\ req'[s].op # "idle"
                                  /\ req'[s].op = "initiate" \/ req[t].op = "initiate"
                                  => req[t].call # req'[s].call,
           conv' = conv, left'.edits = left.edits
    PROVE  CrewOK'
  <1>1. FoundersLinked'
    <2>1. \A c \in Calls \ {d} : Crew(c)' = Crew(c)
      BY DEF Crew
    <2>2. QED
      BY <2>1 DEF CrewOK, FoundersLinked
  <1>2. \A c \in Calls : call'[c].status = "none" => \A i \in RowIds : part'[c][i].status = "none"
    BY DEF CrewOK
  <1>3. \A c \in Calls : Reached(c)' => Full(part'[c], Crew(c)')
    BY DEF CrewOK, Crew
  <1>4. \A t \in Slots : HandOK(t)'
    <2>1. ASSUME NEW t \in Slots \ {s}, req[t].op # "idle", req[t].call # d
          PROVE  HandOK(t)'
      <3>1. req[t].call \in Calls \ {d} /\ HandOK(t)
        BY <2>1, HandlerTypes DEF Typed, CrewOK
      <3>2. QED
        BY <2>1, <3>1, HandStays
    <2>2. ASSUME NEW t \in Slots \ {s}, req[t].op = "idle" PROVE HandOK(t)'
      BY <2>2 DEF HandOK
    <2>3. QED
      BY <2>1, <2>2
  <1>5. \A a, b \in Slots : a # b /\ req'[a].op = "initiate" /\ req'[b].op # "idle"
                              => req'[b].call # req'[a].call
    BY DEF CrewOK
  <1>6. QED
    BY <1>1, <1>2, <1>3, <1>4, <1>5 DEF CrewOK

LEMMA FullIsLinked ==
    ASSUME NEW ps, NEW crew, Full(ps, crew)
    PROVE  \A i \in RowIds : ps[i].status # "none" /\ ~ps[i].linked => i[1] \notin crew
  BY FullLinked

\* No handler changes the conversation or a bound
LEMMA StepBounds ==
    ASSUME NEW s \in Slots, Step(s)
    PROVE  conv' = conv /\ left' = left
  <1>1. CASE InitiateStep(s)
    BY <1>1, Zenon DEF InitiateStep, InitiateLoad, InitiateInsertCall, InitiateInsertSelf,
       InitiateInsertPart, InitiateAnnounce, OnlyReq, OnlyDb
  <1>2. CASE AcceptStep(s)
    BY <1>2, Zenon DEF AcceptStep, AcceptLoad, AcceptSaveCall, AcceptSavePart, AcceptFinish,
       OnlyReq, OnlyDb
  <1>3. CASE DeclineStep(s)
    BY <1>3, Zenon DEF DeclineStep, DeclineLoad, DeclineSavePart, DeclineSaveCall,
       DeclineFinish, OnlyReq, OnlyDb
  <1>4. CASE EndStep(s)
    BY <1>4, Zenon DEF EndStep, EndLoad, EndSavePart, EndSaveCall, EndSaveRest, EndFinish,
       DisconnectFinish, OnlyReq, OnlyDb
  <1>5. CASE AddKickStep(s)
    BY <1>5, Zenon DEF AddKickStep, AddLoad, AddInsert, AddFinish, KickLoad, KickSavePart,
       KickFinish, OnlyReq, OnlyDb
  <1>6. CASE TimerStep(s)
    BY <1>6, Zenon DEF TimerStep, TimerCheck, TimerLoad, TimerSaveCall, TimerSaveRest,
       TimerFinish, OnlyReq, OnlyDb
  <1>7. CASE LookAtCall(s)
    BY <1>7 DEF LookAtCall
  <1>8. QED
    BY <1>1, <1>2, <1>3, <1>4, <1>5, <1>6, <1>7 DEF Step

LEMMA SweepFresh ==
    ASSUME NEW r \in Request, NEW act, NEW ros, NEW q \in Sweep(r, act, ros), q.op # "idle"
    PROVE  q.pc = "load" /\ q.todo = {}
  <1>1. q # Idle
    BY DEF Idle
  <1>2. PICK c \in Calls :
          q = [r EXCEPT !.pc = "load", !.call = c, !.held = act[c], !.todo = {},
                        !.row = NoCall, !.seen = @ \cup {<<c, act[c]>>}]
    BY <1>1 DEF Sweep
  <1> DEFINE sn == r.seen \cup {<<c, act[c]>>}
             h  == act[c]
  <1>3. q = [r EXCEPT !.pc = "load", !.call = c, !.held = h, !.todo = {},
                     !.row = NoCall, !.seen = sn]
    BY <1>2 DEF Request
  <1> HIDE DEF sn, h
  <1>4. QED
    BY <1>3 DEF Request

\* A step of a handler on an announced call, the loop of a disconnect included
LEMMA ServingCrew ==
    ASSUME CallsAssumption, CrewInv, Advances, NEW s \in Slots, Step(s), ~InitiateStep(s),
           Serving(s)
    PROVE  CrewOK'
  <1>0. PICK d : d = req[s].call
    OBVIOUS
  <1>1. /\ Typed /\ CrewOK /\ UnbornOK /\ d \in Calls /\ req[s] \in Request
        /\ Full(part[d], Crew(d))
        /\ Carrying(req[s], Crew(d))
    BY <1>0, ServingHas DEF CrewInv, LedgerInv
  <1>2. KeepsCrew(s)
    <2>1. CASE DisconnectFinish(s)
      BY <2>1, CrewRead DEF DisconnectFinish, dbVars
    <2>2. CASE ~DisconnectFinish(s)
      BY <2>2, AcceptCrew, DeclineCrew, EndCrew, AddKickCrew, TimerCrew,
         LookCrew DEF Step
    <2>3. QED
      BY <2>1, <2>2
  <1>3. Crew(d)' = Crew(d) /\ Full(part'[d], Crew(d)')
    BY <1>0, <1>2 DEF KeepsCrew, Crew
  <1>4. \A c \in Calls \ {d} : /\ call'[c] = call[c] /\ part'[c] = part[c]
                               /\ Reached(c)' => Reached(c)
    BY <1>0, <1>1, <1>2, Footprint DEF KeepsCrew, Reached
  <1>5. call'[d].status # "none"
    <2>1. call[d].status # "none"
      BY <1>0, <1>1 DEF Serving, UnbornOK, Fits, Starting
    <2>2. QED
      BY <1>1, <2>1 DEF Advances, Settled
  \* A handler that still works on the call, or one that the loop turns to
  <1>6. ASSUME NEW t \in Slots, NEW e \in Calls, req'[t].op # "initiate",
               req'[t].call = e, Full(part'[e], Crew(e)'),
               Carrying(req'[t], Crew(e)')
        PROVE  HandOK(t)'
    BY <1>6 DEF HandOK, Crew
  <1>7. /\ \A t \in Slots \ {s} : req'[t] = req[t]
        /\ HandOK(s)'
        /\ req'[s].op # "initiate"
        /\ req'[s].op # "idle" => req'[s].call = d \/ Reached(req'[s].call)
    <2>1. CASE ~DisconnectFinish(s)
      <3>1. Kept(s) /\ GoesOn(s)
        BY <1>1, <2>1, StepKeeps, AcceptCrew, DeclineCrew, EndCrew, AddKickCrew, TimerCrew,
           LookCrew DEF Step
      <3>2. \A r : Goto(s, r) => req'[s] = r
        BY <1>1 DEF Goto, Typed, TypeOK
      <3>3. req'[s].op = "idle" \/ Carrying(req'[s], Crew(d))
        BY <1>0, <3>1, <3>2 DEF GoesOn, Done, Idle
      <3>4. \/ req'[s].op = "idle"
            \/ req'[s].op \notin {"idle", "initiate"} /\ req'[s].call = d
        BY <1>0, <3>1 DEF Kept, Serving
      <3>5. HandOK(s)'
        BY <1>1, <1>3, <1>6, <3>3, <3>4 DEF HandOK
      <3>6. QED
        BY <3>1, <3>4, <3>5 DEF Kept
    <2>2. CASE DisconnectFinish(s)
      <3>1. PICK q \in Sweep(req[s], active', roster') : Goto(s, q)
        BY <2>2 DEF DisconnectFinish
      <3>2. req[s].op = "disconnect"
        BY <2>2 DEF DisconnectFinish, At
      <3>3. q.op # "idle" => /\ q.op = "disconnect" /\ q.call \in Calls
                             /\ active'[q.call] # 0 /\ q.pc = "load" /\ q.todo = {}
        BY <1>1, <3>2, SweepNext, SweepFresh
      <3>4. req'[s] = q /\ \A t \in Slots \ {s} : req'[t] = req[t]
        BY <1>1, <3>1 DEF Goto, Typed, TypeOK
      <3>5. q.op # "idle" => q.call = d \/ Reached(q.call)
        BY <1>4, <3>3 DEF Reached
      <3>6. ASSUME q.op # "idle"
            PROVE  Full(part'[q.call], Crew(q.call)')
        BY <1>1, <1>3, <1>4, <3>3, <3>5, <3>6 DEF CrewOK, Crew
      <3>7. q.op # "idle" => Carrying(q, Crew(q.call)')
        BY <3>3 DEF Carrying
      <3>8. HandOK(s)'
        BY <1>6, <3>3, <3>4, <3>6, <3>7 DEF HandOK
      <3>9. QED
        BY <3>3, <3>4, <3>5, <3>8
    <2>3. QED
      BY <2>1, <2>2
  <1>8. ASSUME NEW t \in Slots \ {s}, req[t].op # "idle", req[t].call = d
        PROVE  HandOK(t)' /\ req[t].op # "initiate"
    <2>1. HandOK(t) /\ req[t].op # "initiate"
      BY <1>0, <1>1, <1>8 DEF CrewOK, Serving
    <2>2. Carrying(req[t], Crew(d)) /\ req'[t] = req[t]
      BY <1>7, <1>8, <2>1 DEF HandOK
    <2>3. QED
      BY <1>1, <1>3, <1>6, <1>8, <2>1, <2>2
  <1>9. ASSUME NEW t \in Slots \ {s}, req[t].op = "initiate", req'[s].op # "idle"
        PROVE  req[t].call # req'[s].call
    <2>1. HandOK(t) /\ req[t].call # d
      BY <1>0, <1>1, <1>9 DEF CrewOK, Serving
    <2>2. ~Reached(req[t].call)
      BY <1>9, <2>1 DEF HandOK, Founding
    <2>3. QED
      BY <1>7, <1>9, <2>1, <2>2
  <1>10. \A i \in RowIds : part'[d][i].status # "none" /\ ~part'[d][i].linked
                             => i[1] \notin Crew(d)'
    BY <1>3, FullIsLinked
  <1>11. conv' = conv /\ left' = left
    BY StepBounds
  <1>12. QED
    BY <1>1, <1>3, <1>4, <1>5, <1>7, <1>8, <1>9, <1>10, <1>11, CrewMove

\* A step of the handler that inserts the rows: nobody else works on its call
LEMMA FoundingMove ==
    ASSUME CrewInv, NEW s \in Slots, InitiateStep(s), NEW d, d = req[s].call,
           NEW q, Goto(s, q), q.op = "idle" \/ (q.op = "initiate" /\ q.call = d),
           \A c \in Calls \ {d} : part'[c] = part[c],
           \A i \in RowIds : part'[d][i].status # "none" => part'[d][i].linked,
           call'[d].status = "none" => \A i \in RowIds : part'[d][i].status = "none",
           Reached(d)' => Full(part'[d], Crew(d)'),
           HandOK(s)'
    PROVE  CrewOK'
  <1>0. req[s].op = "initiate"
    BY DEF InitiateStep, InitiateLoad, InitiateInsertCall, InitiateInsertSelf,
           InitiateInsertPart, InitiateAnnounce, At
  <1>1. Typed /\ CrewOK /\ d \in Calls
    BY <1>0, HandlerTypes DEF CrewInv, LedgerInv, Typed
  <1>2. Step(s)
    BY DEF Step
  <1>3. req'[s] = q /\ \A t \in Slots \ {s} : req'[t] = req[t]
    BY <1>1 DEF Goto, Typed, TypeOK
  <1>4. \A c \in Calls \ {d} : /\ call'[c] = call[c] /\ part'[c] = part[c]
                               /\ Reached(c)' => Reached(c)
    BY <1>1, <1>2, Footprint DEF Reached
  <1>5. \A t \in Slots \ {s} : req[t].op # "idle" => req[t].call # d
    BY <1>0, <1>1 DEF CrewOK
  <1>6. conv' = conv /\ left' = left
    BY <1>2, StepBounds
  <1>7. \A t \in Slots \ {s} : req[t].op # "idle" /\ req'[s].op # "idle"
                                 => req[t].call # req'[s].call
    BY <1>3, <1>5
  <1>8. QED
    BY <1>1, <1>3, <1>4, <1>5, <1>6, <1>7, CrewMove

LEMMA InitiateCrew ==
    ASSUME CallsAssumption, CrewInv, NEW s \in Slots, InitiateStep(s)
    PROVE  CrewOK'
  <1>0. PICK d, r : d = req[s].call /\ r = req[s]
    OBVIOUS
  <1>1. r.op = "initiate"
    BY <1>0 DEF InitiateStep, InitiateLoad, InitiateInsertCall, InitiateInsertSelf,
           InitiateInsertPart, InitiateAnnounce, At
  <1>2. /\ Typed /\ CrewOK /\ d \in Calls /\ r \in Request /\ r.user \in Users /\ r.call = d
        /\ r.todo \subseteq RowIds /\ r.row \in CallRow
        /\ call \in [Calls -> CallRow] /\ part \in [Calls -> [RowIds -> PartRow]]
        /\ told \in [Calls -> SUBSET Users] /\ active \in [Calls -> Nat]
    BY <1>0, <1>1, HandlerTypes DEF CrewInv, LedgerInv, Typed, TypeOK
  <1>3. /\ ~Reached(d)
        /\ \A i \in RowIds : part[d][i].status # "none" => i[2] = 1 /\ part[d][i].linked
        /\ r.pc \in {"insertCall", "insertSelf"} => r.todo = (Founders \ {r.user}) \X {1}
        /\ r.pc = "insertCall" => r.row.initiator = r.user
        /\ r.pc \in {"insertSelf", "insertParts", "announce"} => call[d].initiator = r.user
        /\ r.pc \in {"insertParts", "announce"} =>
             /\ part[d][<<r.user, 1>>].status # "none"
             /\ \A u \in Founders \ {r.user} : \/ <<u, 1>> \in r.todo
                                               \/ part[d][<<u, 1>>].status # "none"
        /\ r.pc = "insertParts" => \A i \in r.todo : i[2] = 1
        /\ r.pc = "announce" => r.todo = {}
    <2>1. HandOK(s)
      BY <1>2 DEF CrewOK
    <2>2. Founding(r)
      BY <1>0, <1>1, <2>1 DEF HandOK
    <2>3. QED
      BY <1>2, <2>2 DEF Founding
  <1>4. /\ call[d].status = "none" => \A i \in RowIds : part[d][i].status = "none"
        /\ r.pc \notin {"load", "insertCall"} => call[d].status # "none"
        /\ r.pc = "insertCall" => r.row.status = "ringing"
    BY <1>0, <1>1, <1>2 DEF CrewOK, CrewInv, LedgerInv, UnbornOK, Fits, Starting
  <1>5. <<r.user, 1>> \in RowIds /\ \A u \in Founders : <<u, 1>> \in RowIds
    BY <1>2 DEF RowIds, CallsAssumption
  <1>6. \A q : Goto(s, q) => req'[s] = q
    BY <1>2 DEF Goto, Typed, TypeOK
  <1>7. Invited.status # "none" /\ Invited.linked /\ Joined(Invited).status # "none"
        /\ Joined(Invited).linked
    BY DEF Invited, Joined, NoPart
  <1>8. Idle.op = "idle"
    BY DEF Idle
  \* The handler still has rows to insert
  <1>9. ASSUME NEW q, Goto(s, q), q.op = "initiate", q.call = d,
               told' = told, active' = active, armed' = armed,
               \A i \in RowIds : part'[d][i].status # "none" => i[2] = 1 /\ part'[d][i].linked,
               q.pc \in {"insertCall", "insertSelf"} => q.todo = (Founders \ {q.user}) \X {1},
               q.pc = "insertCall" => q.row.initiator = q.user,
               q.pc \in {"insertSelf", "insertParts", "announce"} => call'[d].initiator = q.user,
               q.pc \in {"insertParts", "announce"} =>
                 /\ part'[d][<<q.user, 1>>].status # "none"
                 /\ \A u \in Founders \ {q.user} : \/ <<u, 1>> \in q.todo
                                                   \/ part'[d][<<u, 1>>].status # "none",
               q.pc = "insertParts" => \A i \in q.todo : i[2] = 1,
               q.pc = "announce" => q.todo = {},
               \A c \in Calls \ {d} : part'[c] = part[c],
               call'[d].status = "none" => \A i \in RowIds : part'[d][i].status = "none"
        PROVE  CrewOK'
    <2>1. req'[s] = q /\ ~Reached(d)'
      BY <1>3, <1>6, <1>9 DEF Reached
    <2>2. HandOK(s)'
      BY <1>9, <2>1 DEF HandOK, Founding
    <2>3. QED
      BY <1>0, <1>9, <2>1, <2>2, FoundingMove
  \* The handler ends
  <1>10. ASSUME Done(s), call' = call, part' = part, Reached(d)' => Full(part[d], Crew(d))
         PROVE  CrewOK'
    <2>1. req'[s] = Idle /\ Crew(d)' = Crew(d)
      BY <1>6, <1>10 DEF Done, Crew
    <2>2. HandOK(s)'
      BY <1>8, <2>1 DEF HandOK
    <2>3. QED
      BY <1>0, <1>3, <1>4, <1>8, <1>10, <2>1, <2>2, FoundingMove DEF Done
  <1>11. CASE InitiateLoad(s)
    <2> DEFINE T == (conv \ {r.user}) \X {1}
               row == [r.row EXCEPT !.status = "ringing", !.initiator = r.user]
    <2>1. /\ UNCHANGED <<call, part, told, active, armed>> /\ r.pc = "load"
          /\ \/ Done(s)
             \/ conv # Deleted /\ Goto(s, [r EXCEPT !.pc = "insertCall", !.todo = T, !.row = row])
      BY <1>0, <1>2, <1>11 DEF InitiateLoad, At, OnlyReq, OnlyDb, dbVars, mapVars, timerVars,
         Request
    <2>2. CASE Done(s)
      BY <1>3, <1>10, <2>1, <2>2 DEF Reached
    <2>3. CASE conv # Deleted /\ Goto(s, [r EXCEPT !.pc = "insertCall", !.todo = T, !.row = row])
      <3>1. PICK q : q = [r EXCEPT !.pc = "insertCall", !.todo = T, !.row = row]
        OBVIOUS
      <3>2. T = (Founders \ {r.user}) \X {1} /\ row.initiator = r.user
        BY <1>2, <2>3 DEF CrewOK, CallRow
      <3> HIDE DEF T, row
      <3>3. /\ q.op = "initiate" /\ q.call = d /\ q.pc = "insertCall" /\ q.todo = T
            /\ q.row = row /\ q.user = r.user
        BY <1>1, <1>2, <3>1 DEF Request
      <3>4. /\ \A i \in RowIds : part'[d][i].status # "none" => i[2] = 1 /\ part'[d][i].linked
            /\ call'[d].status = "none" => \A i \in RowIds : part'[d][i].status = "none"
            /\ \A c \in Calls \ {d} : part'[c] = part[c]
        BY <1>3, <1>4, <2>1
      <3>5. Goto(s, q) /\ q.todo = (Founders \ {q.user}) \X {1} /\ q.row.initiator = q.user
        BY <2>3, <3>1, <3>2, <3>3
      <3>6. QED
        BY <1>9, <2>1, <3>3, <3>4, <3>5
    <2>4. QED
      BY <2>1, <2>2, <2>3
  <1>12. CASE InitiateInsertCall(s)
    <2>1. PICK q : q = [r EXCEPT !.pc = "insertSelf"]
      OBVIOUS
    <2>2. /\ UNCHANGED <<part, told, active, armed>> /\ r.pc = "insertCall" /\ Goto(s, q)
          /\ call' = [call EXCEPT ![d] = r.row]
      BY <1>0, <1>12, <2>1 DEF InitiateInsertCall, At, OnlyDb, mapVars, timerVars
    <2>3. /\ q.op = "initiate" /\ q.call = d /\ q.pc = "insertSelf" /\ q.todo = r.todo
          /\ q.user = r.user
      BY <1>1, <1>2, <2>1 DEF Request
    <2>4. call'[d].initiator = r.user /\ call'[d].status = "ringing"
      BY <1>2, <1>3, <1>4, <2>2
    <2>5. QED
      BY <1>3, <1>4, <1>9, <2>2, <2>3, <2>4
  <1>13. CASE InitiateInsertSelf(s)
    <2> DEFINE pc == IF r.todo = {} THEN "announce" ELSE "insertParts"
    <2>1. PICK q : q = [r EXCEPT !.pc = pc]
      OBVIOUS
    <2>2. /\ UNCHANGED <<call, told, active, armed>> /\ r.pc = "insertSelf" /\ Goto(s, q)
          /\ part' = [part EXCEPT ![d][<<r.user, 1>>] = Joined(Invited)]
      BY <1>0, <1>13, <2>1 DEF InitiateInsertSelf, At, OnlyDb, mapVars, timerVars
    <2>3. PICK j : j = <<r.user, 1>>
      OBVIOUS
    <2>4. /\ \A i \in RowIds : part'[d][i] = IF i = j THEN Joined(Invited) ELSE part[d][i]
          /\ \A c \in Calls \ {d} : part'[c] = part[c]
      BY <1>2, <2>2, <2>3
    <2>5. pc \in {"announce", "insertParts"} /\ (pc = "announce" => r.todo = {})
      OBVIOUS
    <2> HIDE DEF pc
    <2>6. /\ q.op = "initiate" /\ q.call = d /\ q.pc = pc /\ q.todo = r.todo
          /\ q.user = r.user
      BY <1>1, <1>2, <2>1 DEF Request
    <2>7. /\ r.todo = (Founders \ {r.user}) \X {1}
          /\ \A i \in r.todo : i[2] = 1
          /\ \A u \in Founders \ {r.user} : <<u, 1>> \in r.todo
      BY <1>3, <2>2
    <2>8. /\ \A i \in RowIds : part'[d][i].status # "none" => i[2] = 1 /\ part'[d][i].linked
          /\ part'[d][<<r.user, 1>>].status # "none"
      BY <1>3, <1>5, <1>7, <2>3, <2>4
    <2>9. call'[d].initiator = r.user /\ call'[d].status # "none"
      BY <1>3, <1>4, <2>2
    <2>10. QED
      BY <1>9, <2>2, <2>4, <2>5, <2>6, <2>7, <2>8, <2>9
  <1>14. CASE InitiateInsertPart(s)
    <2>1. PICK j \in r.todo :
            /\ part' = [part EXCEPT ![d][j] = Invited]
            /\ Goto(s, [r EXCEPT !.todo = @ \ {j},
                                 !.pc = IF r.todo = {j} THEN "announce" ELSE @])
      BY <1>0, <1>14 DEF InitiateInsertPart
    <2>2. UNCHANGED <<call, told, active, armed>> /\ r.pc = "insertParts"
      BY <1>0, <1>14 DEF InitiateInsertPart, At, OnlyDb, mapVars, timerVars
    <2> DEFINE pc == IF r.todo = {j} THEN "announce" ELSE "insertParts"
               T == r.todo \ {j}
    <2>3. PICK q : q = [r EXCEPT !.todo = T, !.pc = pc]
      OBVIOUS
    <2>4. Goto(s, q)
      BY <1>2, <2>1, <2>2, <2>3 DEF Request
    <2>5. pc \in {"announce", "insertParts"} /\ (pc = "announce" => T = {})
      OBVIOUS
    <2>6. /\ \A i \in RowIds : part'[d][i] = IF i = j THEN Invited ELSE part[d][i]
          /\ \A c \in Calls \ {d} : part'[c] = part[c]
      BY <1>2, <2>1
    <2>7. \A i \in RowIds : part'[d][i].status # "none" => i[2] = 1 /\ part'[d][i].linked
      BY <1>3, <1>7, <2>2, <2>6
    <2>8. /\ part'[d][<<r.user, 1>>].status # "none"
          /\ \A u \in Founders \ {r.user} : \/ <<u, 1>> \in T
                                            \/ part'[d][<<u, 1>>].status # "none"
          /\ \A i \in T : i[2] = 1
      BY <1>3, <1>5, <1>7, <2>2, <2>6
    <2>9. call'[d].initiator = r.user /\ call'[d].status # "none"
      BY <1>3, <1>4, <2>2
    <2> HIDE DEF pc, T
    <2>10. /\ q.op = "initiate" /\ q.call = d /\ q.pc = pc /\ q.todo = T /\ q.user = r.user
      BY <1>1, <1>2, <2>3 DEF Request
    <2>11. QED
      BY <1>9, <2>2, <2>4, <2>5, <2>6, <2>7, <2>8, <2>9, <2>10
  <1>15. CASE InitiateAnnounce(s)
    <2>1. Done(s) /\ UNCHANGED dbVars /\ r.pc = "announce"
      BY <1>0, <1>15, Zenon DEF InitiateAnnounce, At
    <2>2. Crew(d) = Founders \cup {r.user}
      BY <1>3, <2>1 DEF Crew
    <2>3. Full(part[d], Crew(d))
      <3>1. Crew(d) \subseteq Users
        BY <1>2, <2>2 DEF CallsAssumption
      <3>2. \A u \in Crew(d) : <<u, 1>> \in RowIds /\ part[d][<<u, 1>>].status # "none"
        BY <1>3, <1>5, <2>1, <2>2
      <3>3. QED
        BY <1>3, <3>1, <3>2 DEF Full
    <2>4. QED
      BY <1>10, <2>1, <2>3 DEF dbVars
  <1>16. QED
    BY <1>11, <1>12, <1>13, <1>14, <1>15 DEF InitiateStep

\* A handler starts or stops, and the tables stay as they are
LEMMA NewCrew ==
    ASSUME Typed, CrewOK, NEW s \in Slots, NEW q, Goto(s, q),
           call' = call, part' = part, conv' = conv, left'.edits = left.edits,
           \A c \in Calls : Reached(c)' => Reached(c),
           HandOK(s)',
           \A t \in Slots \ {s} : /\ req[t].op # "idle" /\ q.op # "idle"
                                  /\ q.op = "initiate" \/ req[t].op = "initiate"
                                  => req[t].call # q.call
    PROVE  CrewOK'
  <1>1. req'[s] = q /\ \A t \in Slots \ {s} : req'[t] = req[t]
    BY DEF Goto, Typed, TypeOK
  <1>2. FoundersLinked' /\ \A c \in Calls : Crew(c)' = Crew(c)
    BY DEF CrewOK, FoundersLinked, Crew
  <1>3. \A t \in Slots : HandOK(t)'
    <2>1. ASSUME NEW t \in Slots \ {s} PROVE HandOK(t)'
      <3>1. PICK c : c = req[t].call
        OBVIOUS
      <3>2. req[t].op # "idle" => c \in Calls
        BY <3>1, HandlerTypes DEF Typed
      <3>3. CASE req[t].op = "idle"
        BY <1>1, <3>3 DEF HandOK
      <3>4. CASE req[t].op # "idle"
        BY <1>1, <3>1, <3>2, <3>4, HandStays DEF CrewOK
      <3>5. QED
        BY <3>3, <3>4
    <2>2. QED
      BY <2>1
  <1>4. \A a, b \in Slots : a # b /\ req'[a].op = "initiate" /\ req'[b].op # "idle"
                              => req'[b].call # req'[a].call
    BY <1>1 DEF CrewOK
  <1>5. \A c \in Calls : Reached(c)' => Full(part'[c], Crew(c)')
    BY <1>2 DEF CrewOK
  <1>6. \A c \in Calls : call'[c].status = "none" => \A i \in RowIds : part'[c][i].status = "none"
    BY DEF CrewOK
  <1>7. QED
    BY <1>2, <1>3, <1>4, <1>5, <1>6 DEF CrewOK

\* A handler that starts on a call that somebody may work on
LEMMA StartedCrew ==
    ASSUME Typed, CrewOK, NEW s \in Slots, NEW q, Goto(s, q),
           call' = call, part' = part, conv' = conv, left'.edits = left.edits,
           \A c \in Calls : Reached(c)' => Reached(c),
           q.op # "idle" => /\ q.op # "initiate" /\ q.pc \in {"load", "check"}
                            /\ q.todo = {} /\ q.call \in Calls /\ Reached(q.call)
    PROVE  CrewOK'
  <1>1. req'[s] = q
    BY DEF Goto, Typed, TypeOK
  <1>2. PICK d : d = q.call
    OBVIOUS
  <1>3. Crew(d)' = Crew(d)
    BY DEF Crew
  <1>4. HandOK(s)'
    <2>1. CASE q.op = "idle"
      BY <1>1, <2>1 DEF HandOK
    <2>2. CASE q.op # "idle"
      <3>1. Full(part[d], Crew(d)) /\ Carrying(q, Crew(d))
        BY <1>2, <2>2 DEF CrewOK, Carrying
      <3>2. QED
        BY <1>1, <1>2, <2>2, <3>1 DEF HandOK, Crew
    <2>3. QED
      BY <2>1, <2>2
  <1>5. ASSUME NEW t \in Slots \ {s}, req[t].op = "initiate", q.op # "idle"
        PROVE  req[t].call # d
    <2>1. ~Reached(req[t].call)
      BY <1>5 DEF CrewOK, HandOK, Founding
    <2>2. QED
      BY <1>2, <1>5, <2>1
  <1>6. \A t \in Slots \ {s} : /\ req[t].op # "idle" /\ q.op # "idle"
                               /\ q.op = "initiate" \/ req[t].op = "initiate"
                               => req[t].call # q.call
    BY <1>2, <1>5
  <1>7. QED
    BY <1>4, <1>6, NewCrew

LEMMA AroundCrew ==
    ASSUME CallsAssumption, CrewInv, AroundNext
    PROVE  CrewOK'
  <1>0. /\ Typed /\ CrewOK /\ UnbornOK
        /\ left \in [messages : Nat, faults : Nat, restarts : Nat, edits : Nat]
        /\ told \in [Calls -> SUBSET Users] /\ active \in [Calls -> Nat]
        /\ part \in [Calls -> [RowIds -> PartRow]]
    BY DEF CrewInv, LedgerInv, Typed, TypeOK
  <1>a. Idle.op = "idle"
    BY DEF Idle
  <1>b. \A s \in Slots : \A r : Goto(s, r) => req'[s] = r
    BY <1>0 DEF Goto, Typed, TypeOK
  \* The first record of a message on a call the client was told of
  <1>1. ASSUME NEW s \in Slots, NEW k \in Sockets, NEW c \in Calls, NEW r \in Request,
               Owner[k] \in told[c], r.op # "initiate", r.call = c, r.todo = {},
               Receive(s, k, r)
        PROVE  CrewOK'
    <2> DEFINE o == Owner[k]
    <2>1. PICK q : q = [r EXCEPT !.user = o, !.sock = k, !.pc = "load"]
      OBVIOUS
    <2>2. /\ Goto(s, q) /\ UNCHANGED <<call, part, conv, told, active, armed>>
          /\ left' = [left EXCEPT !.messages = @ - 1]
      BY <1>1, <2>1 DEF Receive, dbVars, mapVars, timerVars
    <2> HIDE DEF o
    <2>3. q.op # "initiate" /\ q.pc = "load" /\ q.todo = {} /\ q.call = c
      BY <1>1, <2>1 DEF Request
    <2>4. Reached(c) /\ \A e \in Calls : Reached(e)' => Reached(e)
      BY <1>1, <2>2 DEF Reached
    <2>5. left'.edits = left.edits
      BY <1>0, <2>2
    <2>6. QED
      BY <1>0, <2>2, <2>3, <2>4, <2>5, StartedCrew
  <1>2. ASSUME NEW s \in Slots, NEW k \in Sockets, NEW c \in Calls, NEW scope \in Scopes,
               Initiate(s, k, c, scope)
        PROVE  CrewOK'
    <2> DEFINE row == [NoCall EXCEPT !.scope = scope]
               o == Owner[k]
               r == [Idle EXCEPT !.op = "initiate", !.call = c, !.row = row]
    <2>1. PICK q : q = [r EXCEPT !.user = o, !.sock = k, !.pc = "load"]
      OBVIOUS
    <2>2. /\ call[c] = NoCall /\ \A t \in Slots : req[t].call # c
          /\ Goto(s, q) /\ UNCHANGED <<call, part, conv, told, active, armed>>
          /\ left' = [left EXCEPT !.messages = @ - 1]
      BY <1>2, <2>1 DEF Initiate, Receive, dbVars, mapVars, timerVars
    <2> HIDE DEF row, o
    <2>3. q.op = "initiate" /\ q.call = c /\ q.pc = "load" /\ q.todo = {}
      BY <2>1 DEF Idle
    <2>4. call[c].status = "none"
      BY <2>2 DEF NoCall
    <2>5. ~Reached(c) /\ \A i \in RowIds : part[c][i].status = "none"
      BY <1>0, <2>4 DEF UnbornOK, Born, CrewOK, Reached
    <2>6. \A e \in Calls : Reached(e)' => Reached(e)
      BY <2>2 DEF Reached
    <2>7. req'[s] = q /\ ~Reached(c)'
      BY <1>b, <2>2, <2>5 DEF Reached
    <2>8. HandOK(s)'
      BY <2>2, <2>3, <2>5, <2>7 DEF HandOK, Founding
    <2>9. left'.edits = left.edits
      BY <1>0, <2>2
    <2>10. QED
      BY <1>0, <2>2, <2>3, <2>6, <2>8, <2>9, NewCrew
  <1>3. ASSUME NEW s \in Slots, NEW k \in Sockets, Message(s, k) PROVE CrewOK'
    <2>1. PICK c \in Calls : \/ \E scope \in Scopes : Initiate(s, k, c, scope)
                             \/ Accept(s, k, c) \/ Decline(s, k, c) \/ End(s, k, c)
                             \/ \E u \in Users : \/ AddParticipant(s, k, c, u)
                                                 \/ RemoveParticipant(s, k, c, u)
      BY <1>3 DEF Message
    <2>2. ASSUME NEW op \in {"accept", "decline", "end"}
          PROVE  LET r == [Idle EXCEPT !.op = op, !.call = c] IN
                 r \in Request /\ r.op # "initiate" /\ r.call = c /\ r.todo = {}
      BY IdleType DEF Request, Ops, Idle
    <2>3. ASSUME NEW op \in {"add", "kick"}, NEW u \in Users
          PROVE  LET r == [Idle EXCEPT !.op = op, !.call = c, !.target = u] IN
                 r \in Request /\ r.op # "initiate" /\ r.call = c /\ r.todo = {}
      BY IdleType DEF Request, Ops, Idle
    <2>4. CASE Accept(s, k, c) \/ Decline(s, k, c) \/ End(s, k, c)
      BY <1>1, <2>2, <2>4 DEF Accept, Decline, End
    <2>5. ASSUME NEW u \in Users, AddParticipant(s, k, c, u) \/ RemoveParticipant(s, k, c, u)
          PROVE  CrewOK'
      BY <1>1, <2>3, <2>5 DEF AddParticipant, RemoveParticipant
    <2>6. QED
      BY <1>2, <2>1, <2>4, <2>5
  <1>4. ASSUME NEW s \in Slots, NEW c \in Calls, TimerFires(s, c) PROVE CrewOK'
    <2>1. PICK q : q = [Idle EXCEPT !.op = "timer", !.pc = "check", !.call = c]
      OBVIOUS
    <2>2. /\ Goto(s, q) /\ c \in armed /\ armed' = armed \ {c}
          /\ UNCHANGED <<call, part, conv, told, active, left>>
      BY <1>4, <2>1 DEF TimerFires, dbVars, mapVars
    <2>3. q.op = "timer" /\ q.pc = "check" /\ q.call = c /\ q.todo = {}
      BY <2>1 DEF Idle
    <2>4. Reached(c) /\ \A e \in Calls : Reached(e)' => Reached(e)
      BY <2>2 DEF Reached
    <2>5. QED
      BY <1>0, <2>2, <2>3, <2>4, StartedCrew
  <1>5. ASSUME NEW s \in Slots, NEW r \in Request, r.op = "disconnect",
               NEW q \in Sweep(r, active, roster), Goto(s, q),
               UNCHANGED <<call, part, conv, told, active, armed>>, left'.edits = left.edits
        PROVE  CrewOK'
    <2>1. q.op # "idle" => /\ q.op = "disconnect" /\ q.call \in Calls
                           /\ active[q.call] # 0 /\ q.pc = "load" /\ q.todo = {}
      BY <1>5, SweepNext, SweepFresh
    <2>2. /\ q.op # "idle" => Reached(q.call)
          /\ \A e \in Calls : Reached(e)' => Reached(e)
      BY <1>5, <2>1 DEF Reached
    <2>3. QED
      BY <1>0, <1>5, <2>1, <2>2, StartedCrew
  \* A step of neither the tables nor the handlers
  <1>6. ASSUME UNCHANGED <<call, part, conv, told, active, armed, req, left>>
        PROVE  CrewOK'
    <2>1. /\ FoundersLinked' /\ \A c \in Calls : Crew(c)' = Crew(c) /\ Reached(c)' = Reached(c)
      BY <1>0, <1>6 DEF CrewOK, FoundersLinked, Crew, Reached
    <2>2. ASSUME NEW s \in Slots PROVE HandOK(s)'
      <3>1. PICK c : c = req[s].call
        OBVIOUS
      <3>2. Reached(c)' => Reached(c)
        BY <1>6 DEF Reached
      <3>3. QED
        BY <1>0, <1>6, <3>1, <3>2, HandStays DEF CrewOK
    <2>3. QED
      BY <1>0, <1>6, <2>1, <2>2 DEF CrewOK
  <1>7. ASSUME NEW s \in Slots, NEW k \in Sockets, Disconnect(s, k) PROVE CrewOK'
    <2> DEFINE o == Owner[k]
               r == [Idle EXCEPT !.op = "disconnect", !.user = o, !.sock = k]
    <2>1. /\ req' = req \/ \E q \in Sweep(r, active, roster) : Goto(s, q)
          /\ UNCHANGED <<call, part, conv, told, active, armed, left>>
      BY <1>7 DEF Disconnect, dbVars, mapVars, timerVars
    <2>2. r \in Request /\ r.op = "disconnect"
      <3>1. o \in Users
        BY CallsAssumption DEF CallsAssumption
      <3> HIDE DEF o
      <3>2. QED
        BY <3>1, IdleType DEF Request, Ops
    <2> HIDE DEF r
    <2>3. QED
      BY <1>5, <1>6, <2>1, <2>2
  <1>8. ASSUME NEW s \in Slots, Fault(s) PROVE CrewOK'
    <2>1. /\ left' = [left EXCEPT !.faults = @ - 1]
          /\ UNCHANGED <<call, part, conv, told, active, armed>>
      BY <1>8 DEF Fault, dbVars, mapVars
    <2>2. left'.edits = left.edits /\ \A e \in Calls : Reached(e)' => Reached(e)
      BY <1>0, <2>1 DEF Reached
    <2>3. CASE req[s].op = "disconnect"
      <3>1. \E q \in Sweep(req[s], active, roster) : Goto(s, q)
        BY <1>8, <2>3 DEF Fault
      <3>2. req[s] \in Request
        BY <1>0 DEF Typed, TypeOK
      <3>3. QED
        BY <1>5, <2>1, <2>2, <2>3, <3>1, <3>2
    <2>4. CASE req[s].op # "disconnect"
      <3>1. Goto(s, Idle)
        BY <1>8, <2>4 DEF Fault, Done
      <3>2. QED
        BY <1>0, <1>a, <2>1, <2>2, <3>1, StartedCrew
    <2>5. QED
      BY <2>3, <2>4
  <1>9. CASE Restart
    <2>1. /\ req' = [s \in Slots |-> Idle] /\ active' = [c \in Calls |-> 0] /\ armed' = {}
          /\ UNCHANGED <<call, part, conv, told>>
          /\ left' = [left EXCEPT !.restarts = @ - 1]
      BY <1>9 DEF Restart, dbVars
    <2>2. left'.edits = left.edits /\ \A c \in Calls : Reached(c)' => Reached(c)
      BY <1>0, <2>1 DEF Reached
    <2>3. \A s \in Slots : req'[s].op = "idle"
      BY <1>a, <2>1
    <2>4. /\ \A s \in Slots : HandOK(s)'
          /\ \A c \in Calls : Crew(c)' = Crew(c)
      BY <2>1, <2>3 DEF HandOK, Crew
    <2>5. QED
      BY <1>0, <2>1, <2>2, <2>3, <2>4 DEF CrewOK, FoundersLinked
  <1>10. CASE EditConversation
    BY <1>0, <1>10 DEF EditConversation, CrewOK
  <1>11. CASE \E k \in Sockets : Connect(k)
    BY <1>6, <1>11 DEF Connect, dbVars, mapVars, timerVars
  <1>12. QED
    BY <1>3, <1>4, <1>7, <1>8, <1>9, <1>10, <1>11 DEF AroundNext

LEMMA CrewInit ==
    ASSUME Init, MaxEdits = 0
    PROVE  CrewInv
  <1>1. LedgerInv
    BY LedgerInit
  <1>2. /\ call = [c \in Calls |-> NoCall] /\ conv = Founders /\ left.edits = 0
        /\ part = [c \in Calls |-> [i \in RowIds |-> NoPart]]
        /\ req = [s \in Slots |-> Idle]
        /\ \A c \in Calls : ~Reached(c)
    BY DEF Init, Reached
  <1>3. \A c \in Calls, i \in RowIds : part[c][i].status = "none"
    BY <1>2 DEF NoPart
  <1>4. \A s \in Slots : req[s].op = "idle"
    BY <1>2 DEF Idle
  <1>5. QED
    BY <1>1, <1>2, <1>3, <1>4 DEF CrewInv, CrewOK, FoundersLinked, HandOK

LEMMA CrewStep ==
    ASSUME CrewInv, [Next]_vars
    PROVE  CrewInv'
  <1>1. LedgerInv' /\ Advances
    BY LedgerStep DEF CrewInv
  <1>2. CASE UNCHANGED vars
    BY <1>1, <1>2 DEF vars, CrewInv, CrewOK, FoundersLinked, HandOK, Founding, Crew, Reached
  <1>3. CASE AroundNext
    BY <1>1, <1>3, CallsAssumption, AroundCrew DEF CrewInv
  <1>4. ASSUME NEW s \in Slots, Step(s) PROVE CrewInv'
    <2>1. CASE InitiateStep(s)
      BY <1>1, <2>1, CallsAssumption, InitiateCrew DEF CrewInv
    <2>2. CASE ~InitiateStep(s)
      <3>1. Serving(s)
        BY <1>4, <2>2 DEF Step, AcceptStep, AcceptLoad, AcceptSaveCall, AcceptSavePart,
           AcceptFinish, DeclineStep, DeclineLoad, DeclineSavePart, DeclineSaveCall,
           DeclineFinish, EndStep, EndLoad, EndSavePart, EndSaveCall, EndSaveRest,
           EndFinish, DisconnectFinish, AddKickStep, AddLoad, AddInsert, AddFinish,
           KickLoad, KickSavePart, KickFinish, TimerStep, TimerCheck, TimerLoad,
           TimerSaveCall, TimerSaveRest, TimerFinish, LookAtCall,
           Saving, Ending, At, Serving
      <3>2. QED
        BY <1>1, <1>4, <2>2, <3>1, CallsAssumption, ServingCrew DEF CrewInv
    <2>3. QED
      BY <2>1, <2>2
  <1>5. Next => AroundNext \/ \E s \in Slots : Step(s)
    BY DEF Next, AroundNext
  <1>6. QED
    BY <1>2, <1>3, <1>4, <1>5

\* However handlers interleave, the cascade of a stale callRepo.save never
\* unlinks a row that createCall inserted.  The property is about a conversation
\* whose members stay: a founder who left before the call and is added to it gets
\* a row from call:add-participant, and that one a stale save does unlink
THEOREM FoundersKeepRows == Spec => []FoundingRowsStay
  <1>1. CASE MaxEdits = 0
    <2>1. Init => CrewInv
      BY <1>1, CrewInit
    <2>2. CrewInv /\ [Next]_vars => CrewInv'
      BY CrewStep
    <2>3. CrewInv => FoundingRowsStay
      BY DEF CrewInv, CrewOK, FoundersLinked, Crew, FoundingRowsStay
    <2>4. QED
      BY <2>1, <2>2, <2>3, PTL DEF Spec
  <1>2. CASE MaxEdits # 0
    <2>1. FoundingRowsStay
      BY <1>2 DEF FoundingRowsStay
    <2>2. QED
      BY <2>1, PTL
  <1>3. QED
    BY <1>1, <1>2
=============================================================================
