---------------------------- MODULE Conversations ----------------------------
(***************************************************************************)
(* Channels and direct messages: ChatService over the tables               *)
(* conversations, conversation_members, chat_messages and message_reads.   *)
(* Handlers interleave at their awaits as in module Calls: a handler in    *)
(* flight is a record in req[slot], one action is one database call.       *)
(*                                                                         *)
(* External: convRepo.save(conversation) is TypeORM's.  Conversation has   *)
(* members with cascade: true, so a save also makes the member rows equal  *)
(* to those that were loaded (rows inserted since lose their conversation, *)
(* rows deleted since are inserted again), and a conversation whose row is *)
(* gone is inserted again, under the id its BeforeInsert hook draws.       *)
(* Foreign keys: deleting a conversation cascades to its members and       *)
(* messages, but message_reads and conversations.lastMessage do not        *)
(* cascade and make the database refuse the delete.                        *)
(***************************************************************************)
EXTENDS Naturals, FiniteSets, Sequences

CONSTANTS
    Users,        \* staff ids
    MaxConvs,     \* rows table conversations may get
    MaxLog,       \* rows table chat_messages may get
    Slots,        \* how many handlers may be in flight
    Requests,     \* the endpoints clients call
    MaxRequests,  \* requests in a behaviour
    MaxRaced,     \* and in one where handlers overlap
    MaxFaults     \* handlers cut short by an error or a restart

Endpoints == {"send", "open", "write", "forward", "edit", "delete", "add",
              "remove", "mark", "leave", "leaveAll", "create", "drop"}

ASSUME ConversationsAssumption ==
    /\ Requests \subseteq Endpoints
    /\ MaxConvs \in Nat /\ MaxLog \in Nat
    /\ MaxRequests \in Nat /\ MaxRaced \in Nat /\ MaxFaults \in Nat

VARIABLES
    conv,     \* table conversations, by the order of insertion
    member,   \* conversation_members: the users with a row, per conversation
    log,      \* table chat_messages, in the order of createdAt
    read,     \* message_reads: lastReadMessageId per conversation and user
    req,      \* the handler in each slot
    left,     \* what remains of each bound
    known,    \* history: users who have had a member row of a conversation
    overlap   \* history: two handlers have been in flight at once

tables  == <<conv, member, log, read>>
history == <<known, overlap>>
vars == <<conv, member, log, read, req, left, known, overlap>>

-----------------------------------------------------------------------------
(* Rows and handlers *)

Convs == 1..MaxConvs
Posts == 1..MaxLog

ConvRow == [type : {"none", "gone", "dm", "channel"},
            by : Users \cup {"nobody"}, last : 0..MaxLog]
NoConv == [type |-> "none", by |-> "nobody", last |-> 0]

\* A row of chat_messages; conv = 0 once it has been hard-deleted
PostRow == [conv : 0..MaxConvs, author : Users \cup {"nobody"},
            kind : {"text", "forward", "join", "leave"},
            edited : BOOLEAN, deleted : BOOLEAN]
Post(c, u, kind) == [conv |-> c, author |-> u, kind |-> kind,
                     edited |-> FALSE, deleted |-> FALSE]
NoPost == Post(0, "nobody", "text")

Pcs == {"load", "insert", "save", "row", "conv", "again", "members", "note",
        "find", "count", "messages", "destroy"}
NoRequest == [op |-> "idle", pc |-> "idle", user |-> "nobody",
              peer |-> "nobody", conv |-> 0, msg |-> 0, room |-> NoConv,
              members |-> {}, row |-> NoPost, todo |-> {}]
Request == [op : Endpoints \cup {"idle"}, pc : Pcs \cup {"idle"},
            user : Users \cup {"nobody"}, peer : Users \cup {"nobody"},
            conv : 0..MaxConvs, msg : 0..MaxLog, room : ConvRow,
            members : SUBSET Users, row : PostRow,
            todo : SUBSET Convs]

Exists(c)  == conv[c].type \in {"dm", "channel"}
IsPost(m)  == m \in DOMAIN log /\ log[m].conv # 0
PostsIn(c) == {m \in DOMAIN log : log[m].conv = c}
Newest(S)  == CHOOSE m \in S : \A n \in S : n <= m

Init ==
    /\ conv = [c \in Convs |-> NoConv]
    /\ member = [c \in Convs |-> {}]
    /\ log = <<>>
    /\ read = [c \in Convs |-> [u \in Users |-> 0]]
    /\ req = [s \in Slots |-> NoRequest]
    /\ left = [requests |-> MaxRequests, faults |-> MaxFaults]
    /\ known = [c \in Convs |-> {}]
    /\ overlap = FALSE

-----------------------------------------------------------------------------
(* What a database call does, and how a handler goes on *)

At(s, op, pc) == req[s].op = op /\ req[s].pc = pc
Goto(s, r)    == req' = [req EXCEPT ![s] = r]
Step(s, pc)   == Goto(s, [req[s] EXCEPT !.pc = pc])
Done(s)       == Goto(s, NoRequest)

\* The id of the next row of conversations
Fresh == CHOOSE c \in Convs : /\ conv[c].type = "none"
                              /\ \A d \in 1..(c - 1) : conv[d].type # "none"
HasRoom == \E c \in Convs : conv[c].type = "none"

SetMembers(c, S) ==
    /\ member' = [member EXCEPT ![c] = S]
    /\ known' = [known EXCEPT ![c] = @ \cup S]

InsertConv(type, u) ==
    /\ HasRoom
    /\ conv' = [conv EXCEPT ![Fresh] = [NoConv EXCEPT !.type = type, !.by = u]]

\* messageRepo.save of a new message; refused once its conversation is gone
InsertPost(c, u, kind) ==
    /\ Len(log) < MaxLog
    /\ log' = IF Exists(c) THEN Append(log, Post(c, u, kind)) ELSE log

\* convRepo.save(conversation): the row and, by cascade, the loaded members
SaveConv(c, last, members) ==
    /\ conv' = [conv EXCEPT ![c].last = last]
    /\ SetMembers(c, members)

\* convRepo.save(conversation) of a row deleted since it was loaded
Resurrect(room, members) ==
    /\ HasRoom
    /\ conv' = [conv EXCEPT ![Fresh] = [room EXCEPT !.last = 0]]
    /\ SetMembers(Fresh, members)

\* messageRepo.save(message): every column of the row that was loaded.  A row
\* that is gone is inserted again, which a conversation that is gone refuses.
SavePost(m, row) ==
    log' = CASE IsPost(m) -> [log EXCEPT ![m] = row]
             [] ~IsPost(m) /\ Exists(row.conv) /\ Len(log) < MaxLog ->
                    Append(log, row)
             [] OTHER -> log

Erase(rows, c) == [m \in DOMAIN rows |->
                     IF rows[m].conv = c THEN [rows[m] EXCEPT !.conv = 0]
                                         ELSE rows[m]]

Unread(c) == \A u \in Users : read[c][u] = 0

\* convRepo.delete: refused while somebody's message_reads row refers to it
Destroy(c) ==
    IF Exists(c) /\ Unread(c)
    THEN /\ conv' = [conv EXCEPT ![c] = [NoConv EXCEPT !.type = "gone"]]
         /\ member' = [member EXCEPT ![c] = {}]
         /\ log' = Erase(log, c)
    ELSE UNCHANGED <<conv, member, log>>

OnlyReq == UNCHANGED <<tables, history, left>>

Receive(s, op, r) ==
    /\ op \in Requests
    /\ req[s] = NoRequest
    /\ left.requests > 0
    /\ left' = [left EXCEPT !.requests = @ - 1]
    /\ overlap' = (overlap \/ \E t \in Slots \ {s} : req[t] # NoRequest)
    /\ overlap' => MaxRequests - left'.requests <= MaxRaced
    /\ Goto(s, [r EXCEPT !.op = op, !.pc = "load"])
    /\ UNCHANGED <<tables, known>>

-----------------------------------------------------------------------------
(* sendMessage, sendMessages, sendChannelMessage, replyToMessage: the        *)
(* conversation is loaded, the sender must be a member of it, the message is *)
(* inserted, and the conversation that was loaded is saved with lastMessage. *)

Send(s, u, c) ==
    /\ Exists(c)
    /\ Receive(s, "send", [NoRequest EXCEPT !.user = u, !.conv = c])

SendLoad(s) ==
    /\ At(s, "send", "load")
    /\ LET c == req[s].conv IN
       IF Exists(c) /\ req[s].user \in member[c]
       THEN Goto(s, [req[s] EXCEPT !.pc = "insert", !.room = conv[c],
                                   !.members = member[c]])
       ELSE Done(s)
    /\ OnlyReq

SendInsert(s) ==
    /\ At(s, "send", "insert")
    /\ InsertPost(req[s].conv, req[s].user, "text")
    /\ IF Exists(req[s].conv)
       THEN Goto(s, [req[s] EXCEPT !.pc = "save", !.msg = Len(log) + 1])
       ELSE Done(s)
    /\ UNCHANGED <<conv, member, read, history, left>>

\* The message is read back, null if it was erased meanwhile, and the
\* conversation saved.  Between the two the delete of the conversation leaves
\* a lastMessage that the foreign key refuses.
SendSaveUnread(s) ==   \* Mutant: the saved message, not the one read back
    /\ At(s, "send", "save")
    /\ IF Exists(req[s].conv)
       THEN SaveConv(req[s].conv, req[s].msg, req[s].members)
       ELSE UNCHANGED <<conv, member, known>>
    /\ Done(s)
    /\ UNCHANGED <<log, read, overlap, left>>

SendSave(s) ==
    /\ At(s, "send", "save")
    /\ LET c == req[s].conv  m == req[s].msg IN
       \/ /\ Exists(c)
          /\ SaveConv(c, IF IsPost(m) THEN m ELSE 0, req[s].members)
       \/ ~Exists(c) /\ Resurrect(req[s].room, req[s].members)
       \/ ~Exists(c) /\ UNCHANGED <<conv, member, known>>
    /\ Done(s)
    /\ UNCHANGED <<log, read, overlap, left>>

-----------------------------------------------------------------------------
(* findOrCreateDirectConversation, alone ("open") or on the way of           *)
(* sendMessage with targetUserId ("write")                                   *)

Open(s, u, v, op) ==
    /\ op \in {"open", "write"}
    /\ Receive(s, op, [NoRequest EXCEPT !.user = u, !.peer = v])

AtOpen(s, pc) == At(s, "open", pc) \/ At(s, "write", pc)

\* DMs the query for two users, or the search for a self-DM, matches
Existing(u, v) ==
    {c \in Convs : /\ conv[c].type = "dm"
                   /\ IF u = v THEN conv[c].by = u /\ member[c] = {u}
                               ELSE {u, v} \subseteq member[c]}

\* The conversation is returned, or sendMessage goes on with it
Opened(s, c) ==
    IF req[s].op = "open" \/ req[s].user \notin member[c]
    THEN Done(s)
    ELSE Goto(s, [req[s] EXCEPT !.op = "send", !.pc = "insert", !.conv = c,
                                !.room = conv[c], !.members = member[c]])

OpenFind(s) ==
    /\ AtOpen(s, "load")
    /\ LET found == Existing(req[s].user, req[s].peer) IN
       IF found = {} THEN Step(s, "insert")
                     ELSE \E c \in found : Opened(s, c)
    /\ OnlyReq

OpenInsert(s) ==
    /\ AtOpen(s, "insert")
    /\ InsertConv("dm", req[s].user)
    /\ Goto(s, [req[s] EXCEPT !.pc = "members", !.conv = Fresh])
    /\ UNCHANGED <<member, log, read, history, left>>

OpenMembers(s) ==
    /\ AtOpen(s, "members")
    /\ SetMembers(req[s].conv, {req[s].user, req[s].peer})
    /\ Step(s, "find")
    /\ UNCHANGED <<conv, log, read, overlap, left>>

\* Read back with its members, and published to them
OpenReload(s) ==
    /\ AtOpen(s, "find")
    /\ IF Exists(req[s].conv) THEN Opened(s, req[s].conv) ELSE Done(s)
    /\ OnlyReq

-----------------------------------------------------------------------------
(* forwardMessage: lastMessage is left alone *)

Forward(s, u, m, c) ==
    /\ IsPost(m) /\ Exists(c)
    /\ Receive(s, "forward", [NoRequest EXCEPT !.user = u, !.msg = m,
                                               !.conv = c])

ForwardLoadAny(s) ==   \* Mutant: isMember is not asked
    /\ At(s, "forward", "load")
    /\ IF IsPost(req[s].msg) /\ Exists(req[s].conv)
       THEN Step(s, "insert")
       ELSE Done(s)
    /\ OnlyReq

ForwardLoad(s) ==
    /\ At(s, "forward", "load")
    /\ IF /\ IsPost(req[s].msg) /\ Exists(req[s].conv)
          /\ req[s].user \in member[req[s].conv]
       THEN Step(s, "insert")
       ELSE Done(s)
    /\ OnlyReq

ForwardInsert(s) ==
    /\ At(s, "forward", "insert")
    /\ InsertPost(req[s].conv, req[s].user, "forward")
    /\ Done(s)
    /\ UNCHANGED <<conv, member, read, history, left>>

-----------------------------------------------------------------------------
(* editMessage: only by its author.  The message is saved, then its          *)
(* conversation if the message is the last one, then the message once more.  *)

Edit(s, u, m) ==
    /\ IsPost(m)
    /\ Receive(s, "edit", [NoRequest EXCEPT !.user = u, !.msg = m])

EditLoadFresh(s) ==   \* Mutant: an edit brings a message back
    /\ At(s, "edit", "load")
    /\ LET m == req[s].msg IN
       IF IsPost(m) /\ log[m].author = req[s].user
       THEN Goto(s, [req[s] EXCEPT !.pc = "row", !.conv = log[m].conv,
                        !.row = [log[m] EXCEPT !.edited = TRUE,
                                               !.deleted = FALSE],
                        !.room = conv[log[m].conv],
                        !.members = member[log[m].conv]])
       ELSE Done(s)
    /\ OnlyReq

EditLoad(s) ==
    /\ At(s, "edit", "load")
    /\ LET m == req[s].msg IN
       IF IsPost(m) /\ log[m].author = req[s].user
       THEN Goto(s, [req[s] EXCEPT !.pc = "row", !.conv = log[m].conv,
                        !.row = [log[m] EXCEPT !.edited = TRUE],
                        !.room = conv[log[m].conv],
                        !.members = member[log[m].conv]])
       ELSE Done(s)
    /\ OnlyReq

EditSaveAny(s) ==   \* Mutant: any edited message becomes the last one
    /\ At(s, "edit", "row")
    /\ SavePost(req[s].msg, req[s].row)
    /\ IF IsPost(req[s].msg) THEN Step(s, "conv") ELSE Done(s)
    /\ UNCHANGED <<conv, member, read, history, left>>

EditSave(s) ==
    /\ At(s, "edit", "row")
    /\ SavePost(req[s].msg, req[s].row)
    /\ IF ~IsPost(req[s].msg) THEN Done(s)
       ELSE Step(s, IF req[s].room.last = req[s].msg THEN "conv" ELSE "again")
    /\ UNCHANGED <<conv, member, read, history, left>>

EditSaveConv(s) ==
    /\ At(s, "edit", "conv")
    /\ IF IsPost(req[s].msg)
       THEN /\ SaveConv(req[s].conv, req[s].msg, req[s].members)
            /\ Step(s, "again")
       ELSE UNCHANGED <<conv, member, known>> /\ Done(s)
    /\ UNCHANGED <<log, read, overlap, left>>

EditSaveAgain(s) ==
    /\ At(s, "edit", "again")
    /\ SavePost(req[s].msg, req[s].row)
    /\ Done(s)
    /\ UNCHANGED <<conv, member, read, history, left>>

-----------------------------------------------------------------------------
(* deleteMessage: by anyone, a soft delete *)

Delete(s, u, m) ==
    /\ IsPost(m)
    /\ Receive(s, "delete", [NoRequest EXCEPT !.user = u, !.msg = m])

DeleteLoad(s) ==
    /\ At(s, "delete", "load")
    /\ LET m == req[s].msg IN
       IF IsPost(m)
       THEN Goto(s, [req[s] EXCEPT !.pc = "row",
                                   !.row = [log[m] EXCEPT !.deleted = TRUE]])
       ELSE Done(s)
    /\ OnlyReq

DeleteSave(s) ==
    /\ At(s, "delete", "row")
    /\ SavePost(req[s].msg, req[s].row)
    /\ Done(s)
    /\ UNCHANGED <<conv, member, read, history, left>>

-----------------------------------------------------------------------------
(* addMembers and removeConversationMember, each with its system message.    *)
(* Neither asks who calls, nor whether the conversation is a channel.        *)

Add(s, u, c, v) ==
    /\ Exists(c)
    /\ Receive(s, "add", [NoRequest EXCEPT !.user = u, !.peer = v, !.conv = c])

AddLoad(s) ==
    /\ At(s, "add", "load")
    /\ IF Exists(req[s].conv) /\ req[s].peer \notin member[req[s].conv]
       THEN Step(s, "insert")
       ELSE Done(s)
    /\ OnlyReq

AddInsertOnly(s) ==   \* Mutant: the members become the ones to add
    /\ At(s, "add", "insert")
    /\ LET c == req[s].conv IN
       IF Exists(c)
       THEN SetMembers(c, {req[s].peer}) /\ Step(s, "note")
       ELSE UNCHANGED <<member, known>> /\ Done(s)
    /\ UNCHANGED <<conv, log, read, overlap, left>>

\* The unique index refuses a second row, the foreign key a missing conversation
AddInsert(s) ==
    /\ At(s, "add", "insert")
    /\ LET c == req[s].conv  v == req[s].peer IN
       IF Exists(c) /\ v \notin member[c]
       THEN SetMembers(c, member[c] \cup {v}) /\ Step(s, "note")
       ELSE UNCHANGED <<member, known>> /\ Done(s)
    /\ UNCHANGED <<conv, log, read, overlap, left>>

AddNoteActorless(s) ==   \* Mutant: the actor's row was not found
    /\ At(s, "add", "note")
    /\ InsertPost(req[s].conv, "undefined", "join")
    /\ Done(s)
    /\ UNCHANGED <<conv, member, read, history, left>>

AddNote(s) ==
    /\ At(s, "add", "note")
    /\ InsertPost(req[s].conv, req[s].user, "join")
    /\ Done(s)
    /\ UNCHANGED <<conv, member, read, history, left>>

Remove(s, u, c, v) ==
    /\ Exists(c)
    /\ Receive(s, "remove", [NoRequest EXCEPT !.user = u, !.peer = v, !.conv = c])

RemoveLoad(s) ==
    /\ At(s, "remove", "load")
    /\ IF req[s].peer \in member[req[s].conv] THEN Step(s, "row") ELSE Done(s)
    /\ OnlyReq

RemoveRow(s) ==
    /\ At(s, "remove", "row")
    /\ SetMembers(req[s].conv, member[req[s].conv] \ {req[s].peer})
    /\ Step(s, "note")
    /\ UNCHANGED <<conv, log, read, overlap, left>>

RemoveNote(s) ==
    /\ At(s, "remove", "note")
    /\ InsertPost(req[s].conv, req[s].peer, "leave")
    /\ Done(s)
    /\ UNCHANGED <<conv, member, read, history, left>>

-----------------------------------------------------------------------------
(* markConversationAsRead.  The member's unreadCount it resets is never      *)
(* raised anywhere, and is left out.                                         *)

Mark(s, u, c) ==
    /\ Exists(c)
    /\ Receive(s, "mark", [NoRequest EXCEPT !.user = u, !.conv = c])

MarkLoadShown(s) ==   \* Mutant: the conversation's lastMessage is taken
    /\ At(s, "mark", "load")
    /\ LET m == conv[req[s].conv].last IN
       IF m = 0
       THEN Done(s)
       ELSE Goto(s, [req[s] EXCEPT !.pc = "find", !.msg = m])
    /\ OnlyReq

MarkLoadAny(s) ==   \* Mutant: no order in the query
    /\ At(s, "mark", "load")
    /\ LET posts == PostsIn(req[s].conv) IN
       IF posts = {}
       THEN Done(s)
       ELSE \E m \in posts : Goto(s, [req[s] EXCEPT !.pc = "find", !.msg = m])
    /\ OnlyReq

MarkLoad(s) ==
    /\ At(s, "mark", "load")
    /\ LET posts == PostsIn(req[s].conv) IN
       IF posts = {}
       THEN Done(s)
       ELSE Goto(s, [req[s] EXCEPT !.pc = "find", !.msg = Newest(posts)])
    /\ OnlyReq

\* An existing row is updated, else one is inserted
MarkFind(s) ==
    /\ At(s, "mark", "find")
    /\ Step(s, IF read[req[s].conv][req[s].user] = 0 THEN "insert" ELSE "save")
    /\ OnlyReq

SetRead(c, u, m) == read' = [read EXCEPT ![c][u] = m]

MarkInsert(s) ==
    /\ At(s, "mark", "insert")
    /\ LET c == req[s].conv  u == req[s].user IN
       IF Exists(c) /\ read[c][u] = 0
       THEN SetRead(c, u, req[s].msg)
       ELSE UNCHANGED read
    /\ Done(s)
    /\ UNCHANGED <<conv, member, log, history, left>>

MarkSave(s) ==
    /\ At(s, "mark", "save")
    /\ SetRead(req[s].conv, req[s].user, req[s].msg)
    /\ Done(s)
    /\ UNCHANGED <<conv, member, log, history, left>>

-----------------------------------------------------------------------------
(* deleteDirectConversation and leaveAllDMsForUser *)

Leave(s, u, c) ==
    /\ Exists(c)
    /\ Receive(s, "leave", [NoRequest EXCEPT !.user = u, !.conv = c])

LeaveLoad(s) ==
    /\ At(s, "leave", "load")
    /\ LET c == req[s].conv IN
       IF conv[c].type = "dm" /\ req[s].user \in member[c]
       THEN Step(s, "row")
       ELSE Done(s)
    /\ OnlyReq

LeaveRow(s) ==
    /\ At(s, "leave", "row")
    /\ SetMembers(req[s].conv, member[req[s].conv] \ {req[s].user})
    /\ Step(s, "count")
    /\ UNCHANGED <<conv, log, read, overlap, left>>

LeaveCount(s) ==
    /\ At(s, "leave", "count")
    /\ IF member[req[s].conv] = {} THEN Step(s, "destroy") ELSE Done(s)
    /\ OnlyReq

LeaveDestroy(s) ==
    /\ At(s, "leave", "destroy")
    /\ Destroy(req[s].conv)
    /\ Done(s)
    /\ UNCHANGED <<read, history, left>>

LeaveAll(s, u) == Receive(s, "leaveAll", [NoRequest EXCEPT !.user = u])

LeaveAllLoad(s) ==
    /\ At(s, "leaveAll", "load")
    /\ LET mine == {c \in Convs : /\ conv[c].type = "dm"
                                  /\ req[s].user \in member[c]} IN
       IF mine = {}
       THEN Done(s)
       ELSE Goto(s, [req[s] EXCEPT !.pc = "row", !.todo = mine])
    /\ OnlyReq

LeaveAllRows(s) ==
    /\ At(s, "leaveAll", "row")
    /\ member' = [c \in Convs |-> IF c \in req[s].todo
                                  THEN member[c] \ {req[s].user}
                                  ELSE member[c]]
    /\ Step(s, "count")
    /\ UNCHANGED <<conv, log, read, history, left>>

LeaveAllCount(s) ==
    /\ At(s, "leaveAll", "count")
    /\ IF req[s].todo = {}
       THEN Done(s)
       ELSE \E c \in req[s].todo :
              Goto(s, [req[s] EXCEPT !.todo = @ \ {c}, !.conv = c,
                           !.pc = IF member[c] = {} THEN "messages" ELSE @])
    /\ OnlyReq

\* messageRepo.delete: refused while the conversation's lastMessage is one of
\* them, and the request fails with the rest of its DMs untouched
LeaveAllMessages(s) ==
    /\ At(s, "leaveAll", "messages")
    /\ IF conv[req[s].conv].last = 0
       THEN log' = Erase(log, req[s].conv) /\ Step(s, "destroy")
       ELSE UNCHANGED log /\ Done(s)
    /\ UNCHANGED <<conv, member, read, history, left>>

LeaveAllDestroy(s) ==
    /\ At(s, "leaveAll", "destroy")
    /\ Destroy(req[s].conv)
    /\ IF Unread(req[s].conv) THEN Step(s, "count") ELSE Done(s)
    /\ UNCHANGED <<read, history, left>>

-----------------------------------------------------------------------------
(* createConversation under an unused name, a channel unless the dto names   *)
(* another type, and deleteChannel                                           *)

Create(s, u, S, type) ==
    Receive(s, "create", [NoRequest EXCEPT !.user = u, !.members = S,
                                           !.room = [NoConv EXCEPT !.type = type]])

CreateInsert(s) ==
    /\ At(s, "create", "load")
    /\ InsertConv(req[s].room.type, req[s].user)
    /\ Goto(s, [req[s] EXCEPT !.pc = "insert", !.conv = Fresh])
    /\ UNCHANGED <<member, log, read, history, left>>

CreateOwner(s) ==
    /\ At(s, "create", "insert")
    /\ LET c == req[s].conv IN
       IF Exists(c) /\ req[s].user \notin member[c]
       THEN /\ SetMembers(c, member[c] \cup {req[s].user})
            /\ Step(s, "members")
       ELSE UNCHANGED <<member, known>> /\ Done(s)
    /\ UNCHANGED <<conv, log, read, overlap, left>>

\* One statement for all of them: the creator among them makes it fail
CreateMembers(s) ==
    /\ At(s, "create", "members")
    /\ LET c == req[s].conv IN
       IF Exists(c) /\ req[s].members \cap member[c] = {}
       THEN SetMembers(c, member[c] \cup req[s].members)
       ELSE UNCHANGED <<member, known>>
    /\ Done(s)
    /\ UNCHANGED <<conv, log, read, overlap, left>>

\* The id is in the request: one call, no load before it
Drop(s, u, c) ==
    /\ conv[c].type = "channel"
    /\ Receive(s, "drop", [NoRequest EXCEPT !.user = u, !.conv = c])

DropChannel(s) ==
    /\ At(s, "drop", "load")
    /\ Destroy(req[s].conv)
    /\ Done(s)
    /\ UNCHANGED <<read, history, left>>

-----------------------------------------------------------------------------
(* The process *)

\* A database call fails, or the process restarts, and the handler is gone
Fail(s) ==
    /\ req[s] # NoRequest
    /\ left.faults > 0
    /\ left' = [left EXCEPT !.faults = @ - 1]
    /\ Done(s)
    /\ UNCHANGED <<tables, history>>

ClientRequest(s) ==
    \E u \in Users :
      \/ \E c \in Convs : Send(s, u, c) \/ Mark(s, u, c) \/ Leave(s, u, c)
                          \/ Drop(s, u, c)
      \/ \E v \in Users, op \in {"open", "write"} : Open(s, u, v, op)
      \/ \E m \in DOMAIN log, c \in Convs : Forward(s, u, m, c)
      \/ \E m \in DOMAIN log : Edit(s, u, m) \/ Delete(s, u, m)
      \/ \E c \in Convs, v \in Users : Add(s, u, c, v) \/ Remove(s, u, c, v)
      \/ \E S \in SUBSET Users, type \in {"dm", "channel"} : Create(s, u, S, type)
      \/ LeaveAll(s, u)

HandlerStep(s) ==
    \/ SendLoad(s) \/ SendInsert(s) \/ SendSave(s)
    \/ OpenFind(s) \/ OpenInsert(s) \/ OpenMembers(s) \/ OpenReload(s)
    \/ ForwardLoad(s) \/ ForwardInsert(s)
    \/ EditLoad(s) \/ EditSave(s) \/ EditSaveConv(s) \/ EditSaveAgain(s)
    \/ DeleteLoad(s) \/ DeleteSave(s)
    \/ AddLoad(s) \/ AddInsert(s) \/ AddNote(s)
    \/ RemoveLoad(s) \/ RemoveRow(s) \/ RemoveNote(s)
    \/ MarkLoad(s) \/ MarkFind(s) \/ MarkInsert(s) \/ MarkSave(s)
    \/ LeaveLoad(s) \/ LeaveRow(s) \/ LeaveCount(s) \/ LeaveDestroy(s)
    \/ LeaveAllLoad(s) \/ LeaveAllRows(s) \/ LeaveAllCount(s)
    \/ LeaveAllMessages(s) \/ LeaveAllDestroy(s)
    \/ CreateInsert(s) \/ CreateOwner(s) \/ CreateMembers(s)
    \/ DropChannel(s)

Next == \E s \in Slots : ClientRequest(s) \/ HandlerStep(s) \/ Fail(s)

Spec == Init /\ [][Next]_vars

-----------------------------------------------------------------------------
(* Properties *)

\* Every variable has its type
TypeOK ==
    /\ conv \in [Convs -> ConvRow]
    /\ member \in [Convs -> SUBSET Users]
    /\ log \in Seq(PostRow) /\ Len(log) <= MaxLog
    /\ read \in [Convs -> [Users -> 0..MaxLog]]
    /\ req \in [Slots -> Request]
    /\ left \in [requests : 0..MaxRequests, faults : 0..MaxFaults]
    /\ known \in [Convs -> SUBSET Users]
    /\ overlap \in BOOLEAN

\* The lastMessage a conversation shows is a message of that conversation
\* that the database still holds, whatever sends, edits and deletes overlap
LastInside ==
    \A c \in Convs : conv[c].last # 0 => conv[c].last \in PostsIn(c)

\* What people wrote or forwarded is by somebody who has been a member of the
\* conversation it is in: the membership test of every sending endpoint, made
\* some awaits before the insert, is one about the right conversation
OnlyMembersSpeak ==
    \A m \in DOMAIN log :
      IsPost(m) /\ log[m].kind \in {"text", "forward"} =>
        log[m].author \in known[log[m].conv]

\* With nothing in flight, no overlap and no failure so far, lastMessage is
\* the newest text of the conversation: joins, leaves and forwards do not move
\* it and an edit of an older message does not bring that one back
LastIsNewestText ==
    ~overlap /\ left.faults = MaxFaults /\ (\A s \in Slots : req[s] = NoRequest) =>
      \A c \in Convs : Exists(c) =>
        LET texts == {m \in PostsIn(c) : log[m].kind = "text"} IN
        conv[c].last = IF texts = {} THEN 0 ELSE Newest(texts)

\* A message that was deleted does not show up again, as long as requests
\* have not overlapped: no endpoint writes deletedAt back to null by itself
DeletedStaysDeleted ==
    [][~overlap' => \A m \in DOMAIN log :
          log[m].deleted /\ IsPost(m)' => log'[m].deleted]_vars

\* What getDMUnreadCounts and getChannelUnreadCounts count
UnreadIn(u, c) == {m \in PostsIn(c) : /\ log[m].author # u
                                      /\ ~log[m].deleted
                                      /\ read[c][u] < m}

\* Once markConversationAsRead has stored its pointer, the conversation has
\* no unread message for that user, system messages and forwards included
MarkedIsRead ==
    [][~overlap' => \A c \in Convs, u \in Users :
          read'[c][u] # read[c][u] => UnreadIn(u, c)' = {}]_vars

\* The pointer of a reader never goes back, as long as requests have not
\* overlapped: what was read does not count as unread again
ReadOnlyForward ==
    [][~overlap' => \A c \in Convs, u \in Users :
          read'[c][u] >= read[c][u]]_vars

\* The rooms clients see: who is in, and which messages are there
Visible == [c \in Convs |-> {m \in PostsIn(c) : ~log[m].deleted}]
Rooms == INSTANCE ChatRooms WITH inside <- member, shown <- Visible

\* As long as requests have not overlapped, every step is one that ChatRooms
\* allows or leaves the rooms as they are
FollowsRooms == [][overlap' \/ Rooms!Change]_<<member, Visible>>

\* removeConversationMember answers 'Member removed successfully': the person
\* is out until addMembers, or the createConversation under way, puts them in
RemovedStaysOut ==
    [][\A c \in Convs, u \in Users :
          u \in known[c] \ member[c] /\ u \in member'[c] =>
            \E s \in Slots : /\ req[s].op \in {"add", "create"}
                             /\ req[s].conv = c]_vars

\* deleteDirectConversation: 'if both users left, delete conversation +
\* messages'.  With no failure, a direct conversation two people were in and
\* both have left is gone once the handlers are done.
EmptyDMIsGone ==
    left.faults = MaxFaults /\ (\A s \in Slots : req[s] = NoRequest) =>
      \A c \in Convs : conv[c].type = "dm" /\ Cardinality(known[c]) = 2 =>
                        member[c] # {}
==============================================================================
