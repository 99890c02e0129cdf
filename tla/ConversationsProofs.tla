------------------------- MODULE ConversationsProofs -------------------------
(***************************************************************************)
(* Proofs about Conversations, for any users, bounds and number of         *)
(* handlers in flight.  The inductive invariant Inv relates what each      *)
(* handler carries over its awaits to the tables as they are by then: it   *)
(* holds however stale what the handler has read is.  SerialInv adds what  *)
(* holds until two requests have overlapped.                               *)
(***************************************************************************)
EXTENDS Conversations, Counting, TLAPS

-----------------------------------------------------------------------------
(* The inductive invariant *)

\* Who has a row of conversation_members has had one
MembersKnown == \A c \in Convs : member[c] \subseteq known[c]

Speech == {"text", "forward"}

\* Where a handler names a conversation it goes on with
HasConv(r) ==
    \/ r.op \in {"send", "forward", "add", "remove", "mark", "leave", "drop"}
    \/ r.op \in {"edit", "create"} /\ r.pc # "load"
    \/ r.op \in {"open", "write"} /\ r.pc \in {"members", "find"}
    \/ r.op = "leaveAll" /\ r.pc \in {"messages", "destroy"}

\* Where it is about to insert what its user writes
Speaking(r) == \/ r.op = "send" /\ r.pc \in {"insert", "save"}
               \/ r.op = "forward" /\ r.pc = "insert"

\* Where it has a message to save that it has loaded
HasRow(r) == r.op \in {"edit", "delete"} /\ r.pc # "load"

\* What every handler in flight may rely on, whatever the others do
HandlerOK(r) ==
    /\ r.op # "idle" => r.user \in Users
    /\ r.op \in {"open", "write", "add", "remove"} => r.peer \in Users
    /\ HasConv(r) => r.conv \in Convs
    /\ r.op = "create" => r.room.type \in {"dm", "channel"}
    /\ Speaking(r) => r.user \in known[r.conv]
    /\ r.op = "send" /\ r.pc = "save" =>
         r.msg \in DOMAIN log /\ log[r.msg].conv \in {0, r.conv}
    /\ HasRow(r) =>
         /\ r.msg \in DOMAIN log /\ log[r.msg].conv \in {0, r.row.conv}
         /\ r.row.conv \in Convs
         /\ r.row.kind \in Speech => r.row.author \in known[r.row.conv]
         /\ r.op = "edit" => r.conv = r.row.conv

TablesTyped ==
    /\ conv \in [Convs -> ConvRow]
    /\ member \in [Convs -> SUBSET Users]
    /\ log \in Seq(PostRow) /\ Len(log) <= MaxLog
    /\ read \in [Convs -> [Users -> 0..MaxLog]]
    /\ known \in [Convs -> SUBSET Users]

TablesOK == TablesTyped /\ LastInside /\ OnlyMembersSpeak /\ MembersKnown

HandlersOK == /\ req \in [Slots -> Request]
              /\ \A s \in Slots : HandlerOK(req[s])

BoundsOK == /\ left \in [requests : 0..MaxRequests, faults : 0..MaxFaults]
            /\ overlap \in BOOLEAN

Inv == TablesOK /\ HandlersOK /\ BoundsOK

-----------------------------------------------------------------------------
(* How the tables move, and what that leaves to the handlers in flight *)

\* Messages keep their place and their conversation, or are erased; who was
\* known stays known
Onward ==
    /\ DOMAIN log \subseteq DOMAIN log'
    /\ \A m \in DOMAIN log : log'[m].conv \in {0, log[m].conv}
    /\ \A c \in Convs : known[c] \subseteq known'[c]

LEMMA HandlerStays ==
    ASSUME NEW r, HandlerOK(r), Onward
    PROVE  HandlerOK(r)'
  <1>1. Speaking(r) => HasConv(r)
    BY DEF Speaking, HasConv
  <1>2. QED
    BY <1>1 DEF HandlerOK, Onward

\* One handler goes on, the others stay as they are
LEMMA HandlersGo ==
    ASSUME HandlersOK, Onward, NEW s \in Slots, NEW r \in Request, HandlerOK(r)',
           Goto(s, r)
    PROVE  HandlersOK'
  <1>1. req' \in [Slots -> Request]
    BY DEF Goto, HandlersOK
  <1>2. ASSUME NEW t \in Slots PROVE HandlerOK(req[t])'
    <2>1. CASE t = s
      <3>1. req'[t] = r
        BY <2>1 DEF Goto, HandlersOK
      <3>2. QED
        BY <3>1
    <2>2. CASE t # s
      <3>1. req'[t] = req[t]
        BY <2>2 DEF Goto, HandlersOK
      <3>2. \A q : q = req[t] => HandlerOK(q)'
        BY HandlerStays DEF HandlersOK
      <3>3. QED
        BY <3>1, <3>2
    <2>3. QED
      BY <2>1, <2>2
  <1>3. QED
    BY <1>1, <1>2 DEF HandlersOK

-----------------------------------------------------------------------------
(* What each database call does to the tables *)

LEMMA FreshConv ==
    ASSUME HasRoom
    PROVE  Fresh \in Convs /\ conv[Fresh].type = "none"
  <1> DEFINE free == {c \in Convs : conv[c].type = "none"}
  <1>1. free \subseteq 1..MaxConvs /\ free # {} /\ MaxConvs \in Nat
    BY ConversationsAssumption DEF HasRoom, Convs
  <1>2. PICK c \in free : \A d \in free : c <= d
    <2> HIDE DEF free
    <2> QED BY <1>1, LeastNumber
  <1>3. \A d \in 1..(c - 1) : conv[d].type # "none"
    <2>1. SUFFICES ASSUME NEW d \in 1..(c - 1), conv[d].type = "none" PROVE FALSE
      OBVIOUS
    <2>2. c \in 1..MaxConvs
      BY DEF Convs
    <2>3. d \in free
      BY <1>1, <2>1, <2>2 DEF Convs
    <2>4. QED
      BY <1>2, <2>2, <2>3
  <1>4. QED
    BY <1>3 DEF Fresh

LEMMA NewestPost ==
    ASSUME TablesTyped, NEW S, S \subseteq DOMAIN log, S # {}
    PROVE  Newest(S) \in S /\ \A n \in S : n <= Newest(S)
  <1>1. Len(log) \in Nat /\ DOMAIN log = 1..Len(log)
    BY DEF TablesTyped
  <1>2. \E m \in S : \A n \in S : n <= m
    BY <1>1, GreatestNumber
  <1>3. QED
    BY <1>2 DEF Newest

\* Nothing of what the invariant speaks of is written
LEMMA TablesStay ==
    ASSUME TablesOK, UNCHANGED <<conv, member, log, known>>,
           read' \in [Convs -> [Users -> 0..MaxLog]]
    PROVE  TablesOK' /\ Onward
  <1>1. Onward
    BY DEF Onward
  <1>2. TablesTyped'
    BY DEF TablesOK, TablesTyped
  <1>3. LastInside' /\ OnlyMembersSpeak' /\ MembersKnown'
    BY DEF TablesOK, LastInside, PostsIn, OnlyMembersSpeak, IsPost, MembersKnown
  <1>4. QED
    BY <1>1, <1>2, <1>3 DEF TablesOK

LEMMA PostTyped ==
    ASSUME TablesTyped, NEW m \in DOMAIN log
    PROVE  log[m] \in PostRow /\ (IsPost(m) => log[m].conv \in Convs)
  <1>1. log[m] \in PostRow
    BY DEF TablesTyped
  <1>2. QED
    BY <1>1 DEF IsPost, PostRow, Convs

\* The rooms change: a lastMessage is one of the room's, and known only grows
LEMMA RoomsOK ==
    ASSUME TablesOK, UNCHANGED <<log, read>>,
           conv' \in [Convs -> ConvRow],
           \A c \in Convs : conv'[c].last # 0 => conv'[c].last \in PostsIn(c),
           member' \in [Convs -> SUBSET Users], known' \in [Convs -> SUBSET Users],
           \A c \in Convs : known[c] \cup member'[c] \subseteq known'[c]
    PROVE  TablesOK' /\ Onward
  <1>1. TablesTyped' /\ LastInside' /\ MembersKnown' /\ Onward
    BY DEF TablesOK, TablesTyped, LastInside, PostsIn, MembersKnown, Onward
  <1>2. OnlyMembersSpeak'
    <2>1. \A m \in DOMAIN log : IsPost(m) => log[m].conv \in Convs
      BY PostTyped DEF TablesOK
    <2>2. QED
      BY <2>1 DEF TablesOK, OnlyMembersSpeak, IsPost
  <1>3. QED
    BY <1>1, <1>2 DEF TablesOK

\* SetMembers, beside any write of conversations that keeps LastInside
LEMMA MembersSet ==
    ASSUME TablesOK, NEW c \in Convs, NEW S \in SUBSET Users, SetMembers(c, S)
    PROVE  /\ member' \in [Convs -> SUBSET Users]
           /\ known' \in [Convs -> SUBSET Users]
           /\ \A d \in Convs : known[d] \cup member'[d] \subseteq known'[d]
  <1>1. /\ member' = [member EXCEPT ![c] = S]
        /\ known' = [known EXCEPT ![c] = known[c] \cup S]
    BY DEF SetMembers
  <1>2. QED
    BY <1>1 DEF TablesOK, TablesTyped, MembersKnown

LEMMA ConvSet ==
    ASSUME TablesOK, NEW c \in Convs, NEW row \in ConvRow,
           row.last # 0 => row.last \in PostsIn(c), conv' = [conv EXCEPT ![c] = row]
    PROVE  /\ conv' \in [Convs -> ConvRow]
           /\ \A d \in Convs : conv'[d].last # 0 => conv'[d].last \in PostsIn(d)
  BY DEF TablesOK, TablesTyped, LastInside

LEMMA SetMembersOK ==
    ASSUME TablesOK, NEW c \in Convs, NEW S \in SUBSET Users, SetMembers(c, S),
           UNCHANGED <<conv, log, read>>
    PROVE  TablesOK' /\ Onward
  BY MembersSet, RoomsOK DEF TablesOK, TablesTyped, LastInside

LEMMA InsertConvOK ==
    ASSUME TablesOK, NEW type \in {"dm", "channel"}, NEW u \in Users,
           InsertConv(type, u), UNCHANGED <<member, log, read, known>>
    PROVE  TablesOK' /\ Onward /\ Fresh \in Convs
  <1> DEFINE row == [NoConv EXCEPT !.type = type, !.by = u]
  <1>1. Fresh \in Convs /\ conv' = [conv EXCEPT ![Fresh] = row]
    BY FreshConv DEF InsertConv
  <1>2. row \in ConvRow /\ row.last = 0
    <2>1. NoConv \in ConvRow /\ NoConv.last = 0
      BY ConversationsAssumption DEF NoConv, ConvRow
    <2>2. QED
      BY <2>1 DEF ConvRow
  <1>3. /\ conv' \in [Convs -> ConvRow]
        /\ \A d \in Convs : conv'[d].last # 0 => conv'[d].last \in PostsIn(d)
    <2> HIDE DEF row
    <2> QED BY <1>1, <1>2, ConvSet
  <1>4. QED
    BY <1>1, <1>3, RoomsOK DEF TablesOK, TablesTyped, MembersKnown

LEMMA SaveConvOK ==
    ASSUME TablesOK, NEW c \in Convs, NEW last \in 0..MaxLog, NEW S \in SUBSET Users,
           last # 0 => last \in PostsIn(c), SaveConv(c, last, S), UNCHANGED <<log, read>>
    PROVE  TablesOK' /\ Onward
  <1> DEFINE row == [conv[c] EXCEPT !.last = last]
  <1>1. conv' = [conv EXCEPT ![c] = row] /\ SetMembers(c, S)
    BY DEF SaveConv
  <1>2. row \in ConvRow /\ row.last = last
    BY DEF TablesOK, TablesTyped, ConvRow
  <1>3. /\ conv' \in [Convs -> ConvRow]
        /\ \A d \in Convs : conv'[d].last # 0 => conv'[d].last \in PostsIn(d)
    <2> HIDE DEF row
    <2> QED BY <1>1, <1>2, ConvSet
  <1>4. QED
    BY <1>1, <1>3, MembersSet, RoomsOK

LEMMA ResurrectOK ==
    ASSUME TablesOK, NEW room \in ConvRow, NEW S \in SUBSET Users,
           Resurrect(room, S), UNCHANGED <<log, read>>
    PROVE  TablesOK' /\ Onward
  <1> DEFINE row == [room EXCEPT !.last = 0]
  <1>1. /\ Fresh \in Convs /\ conv' = [conv EXCEPT ![Fresh] = row]
        /\ SetMembers(Fresh, S)
    BY FreshConv DEF Resurrect
  <1>2. row \in ConvRow /\ row.last = 0
    BY ConversationsAssumption DEF ConvRow
  <1>3. /\ conv' \in [Convs -> ConvRow]
        /\ \A d \in Convs : conv'[d].last # 0 => conv'[d].last \in PostsIn(d)
    <2> HIDE DEF row
    <2> QED BY <1>1, <1>2, ConvSet
  <1>4. QED
    BY <1>1, <1>3, MembersSet, RoomsOK

\* A message is appended, or one is saved over itself
LEMMA AppendOK ==
    ASSUME TablesOK, NEW row \in PostRow, Len(log) < MaxLog,
           row.conv # 0 /\ row.kind \in Speech => row.author \in known[row.conv],
           log' = Append(log, row), UNCHANGED <<conv, member, read, known>>
    PROVE  TablesOK' /\ Onward /\ Len(log) + 1 \in DOMAIN log'
  <1>1. /\ log \in Seq(PostRow) /\ Len(log) \in Nat /\ DOMAIN log = 1..Len(log)
    BY DEF TablesOK, TablesTyped
  <1>2. /\ log' \in Seq(PostRow) /\ Len(log') = Len(log) + 1
        /\ DOMAIN log' = 1..(Len(log) + 1)
        /\ \A m \in DOMAIN log : log'[m] = log[m]
        /\ log'[Len(log) + 1] = row
    BY <1>1
  <1>3. TablesTyped' /\ Onward
    BY <1>1, <1>2, ConversationsAssumption DEF TablesOK, TablesTyped, Onward
  <1>4. LastInside'
    BY <1>1, <1>2 DEF TablesOK, LastInside, PostsIn
  <1>5. OnlyMembersSpeak' /\ MembersKnown'
    BY <1>1, <1>2 DEF TablesOK, OnlyMembersSpeak, IsPost, MembersKnown, Speech
  <1>6. QED
    BY <1>1, <1>2, <1>3, <1>4, <1>5 DEF TablesOK

LEMMA InsertPostOK ==
    ASSUME TablesOK, NEW c \in Convs, NEW u \in Users,
           NEW kind \in {"text", "forward", "join", "leave"},
           kind \in Speech => u \in known[c],
           InsertPost(c, u, kind), UNCHANGED <<conv, member, read, known>>
    PROVE  /\ TablesOK' /\ Onward
           /\ Exists(c) => /\ Len(log) + 1 \in DOMAIN log'
                           /\ log'[Len(log) + 1] = Post(c, u, kind)
                           /\ Len(log) + 1 \in 0..MaxLog
  <1>1. CASE Exists(c)
    <2>1. Post(c, u, kind) \in PostRow
      BY DEF Post, PostRow, Convs
    <2>2. log' = Append(log, Post(c, u, kind)) /\ Len(log) < MaxLog
      BY <1>1 DEF InsertPost
    <2>3. /\ Post(c, u, kind).conv = c /\ Post(c, u, kind).kind = kind
          /\ Post(c, u, kind).author = u
      BY DEF Post
    <2>4. TablesOK' /\ Onward /\ Len(log) + 1 \in DOMAIN log'
      BY <2>1, <2>2, <2>3, AppendOK
    <2>5. log \in Seq(PostRow) /\ Len(log) \in Nat
      BY DEF TablesOK, TablesTyped
    <2>6. QED
      BY <2>1, <2>2, <2>4, <2>5, ConversationsAssumption
  <1>2. CASE ~Exists(c)
    <2>1. log' = log
      BY <1>2 DEF InsertPost
    <2>2. QED
      BY <1>2, <2>1, TablesStay DEF TablesOK, TablesTyped
  <1>3. QED
    BY <1>1, <1>2

LEMMA SavePostOK ==
    ASSUME TablesOK, NEW m \in DOMAIN log, NEW row \in PostRow, row.conv \in Convs,
           log[m].conv \in {0, row.conv},
           row.kind \in Speech => row.author \in known[row.conv],
           SavePost(m, row), UNCHANGED <<conv, member, read, known>>
    PROVE  TablesOK' /\ Onward
  <1>1. CASE IsPost(m)
    <2>1. log' = [log EXCEPT ![m] = row] /\ log[m].conv = row.conv
      BY <1>1 DEF SavePost, IsPost
    <2>2. log \in Seq(PostRow) /\ Len(log) \in Nat /\ DOMAIN log = 1..Len(log)
      BY DEF TablesOK, TablesTyped
    <2>3. /\ log' \in Seq(PostRow) /\ Len(log') = Len(log)
          /\ DOMAIN log' = DOMAIN log
          /\ \A n \in DOMAIN log : log'[n] = IF n = m THEN row ELSE log[n]
      BY <2>1, <2>2
    <2>4. TablesTyped' /\ Onward
      BY <2>1, <2>3 DEF TablesOK, TablesTyped, Onward
    <2>5. LastInside'
      BY <2>1, <2>3 DEF TablesOK, LastInside, PostsIn
    <2>6. OnlyMembersSpeak' /\ MembersKnown'
      BY <2>1, <2>3 DEF TablesOK, OnlyMembersSpeak, IsPost, MembersKnown, Speech
    <2>7. QED
      BY <2>4, <2>5, <2>6 DEF TablesOK
  <1>2. CASE ~IsPost(m) /\ Exists(row.conv) /\ Len(log) < MaxLog
    <2>1. log' = Append(log, row)
      BY <1>2 DEF SavePost
    <2>2. QED
      BY <1>2, <2>1, AppendOK
  <1>3. CASE ~IsPost(m) /\ ~(Exists(row.conv) /\ Len(log) < MaxLog)
    <2>1. log' = log
      BY <1>3 DEF SavePost
    <2>2. QED
      BY <2>1, TablesStay DEF TablesOK, TablesTyped
  <1>4. QED
    BY <1>1, <1>2, <1>3

LEMMA Erased ==
    ASSUME TablesTyped, NEW c \in Convs, log' = Erase(log, c)
    PROVE  /\ log' \in Seq(PostRow) /\ Len(log') = Len(log)
           /\ DOMAIN log' = DOMAIN log
           /\ \A m \in DOMAIN log :
                log'[m] = IF log[m].conv = c THEN [log[m] EXCEPT !.conv = 0] ELSE log[m]
  <1>1. log \in Seq(PostRow) /\ Len(log) \in Nat /\ DOMAIN log = 1..Len(log)
    BY DEF TablesTyped
  <1> DEFINE row(m) == IF log[m].conv = c THEN [log[m] EXCEPT !.conv = 0] ELSE log[m]
  <1>2. \A m \in DOMAIN log : row(m) \in PostRow
    <2>1. \A m \in DOMAIN log : log[m] \in PostRow
      BY PostTyped
    <2>2. \A p \in PostRow : [p EXCEPT !.conv = 0] \in PostRow
      BY ConversationsAssumption DEF PostRow
    <2>3. QED
      BY <2>1, <2>2
  <1>3. log' = [m \in 1..Len(log) |-> row(m)]
    BY <1>1 DEF Erase
  <1>4. log' \in Seq(PostRow) /\ Len(log') = Len(log)
    <2> HIDE DEF row
    <2> QED BY <1>1, <1>2, <1>3
  <1>5. QED
    BY <1>1, <1>3, <1>4

\* The messages of a conversation without lastMessage go
LEMMA EraseOK ==
    ASSUME TablesOK, NEW c \in Convs, conv'[c].last = 0, log' = Erase(log, c),
           conv' \in [Convs -> ConvRow],
           \A d \in Convs \ {c} : conv'[d] = conv[d],
           member' \in [Convs -> SUBSET Users],
           \A d \in Convs : member'[d] \subseteq member[d],
           UNCHANGED <<read, known>>
    PROVE  TablesOK' /\ Onward
  <1>1. /\ log' \in Seq(PostRow) /\ Len(log') = Len(log)
        /\ DOMAIN log' = DOMAIN log
        /\ \A m \in DOMAIN log :
             log'[m] = IF log[m].conv = c THEN [log[m] EXCEPT !.conv = 0] ELSE log[m]
    BY Erased DEF TablesOK
  <1>2. \A m \in DOMAIN log :
          /\ log'[m].conv = IF log[m].conv = c THEN 0 ELSE log[m].conv
          /\ log'[m].kind = log[m].kind /\ log'[m].author = log[m].author
    <2>1. \A m \in DOMAIN log : log[m] \in PostRow
      BY PostTyped DEF TablesOK
    <2>2. QED
      BY <1>1, <2>1 DEF PostRow
  <1>3. TablesTyped' /\ Onward
    BY <1>1, <1>2 DEF TablesOK, TablesTyped, Onward
  <1>4. LastInside'
    <2>1. SUFFICES ASSUME NEW d \in Convs, conv'[d].last # 0
                   PROVE  conv'[d].last \in PostsIn(d)'
      BY DEF LastInside
    <2>2. d # c /\ conv'[d] = conv[d]
      BY <2>1
    <2>3. conv[d].last \in DOMAIN log /\ log[conv[d].last].conv = d
      BY <2>1, <2>2 DEF TablesOK, LastInside, PostsIn
    <2>4. QED
      BY <1>1, <1>2, <2>2, <2>3 DEF PostsIn
  <1>5. OnlyMembersSpeak'
    <2>1. \A m \in DOMAIN log' : IsPost(m)' => IsPost(m) /\ log'[m].conv = log[m].conv
      BY <1>1, <1>2 DEF IsPost, Convs
    <2>2. QED
      BY <1>1, <1>2, <2>1 DEF TablesOK, OnlyMembersSpeak
  <1>6. MembersKnown'
    BY DEF TablesOK, MembersKnown
  <1>7. QED
    BY <1>3, <1>4, <1>5, <1>6 DEF TablesOK

LEMMA DestroyOK ==
    ASSUME TablesOK, NEW c \in Convs, Destroy(c), UNCHANGED <<read, known>>
    PROVE  TablesOK' /\ Onward
  <1>1. CASE Exists(c) /\ Unread(c)
    <2> DEFINE row == [NoConv EXCEPT !.type = "gone"]
    <2>1. /\ conv' = [conv EXCEPT ![c] = row] /\ log' = Erase(log, c)
          /\ member' = [member EXCEPT ![c] = {}]
      BY <1>1 DEF Destroy
    <2>2. row \in ConvRow /\ row.last = 0
      BY ConversationsAssumption DEF NoConv, ConvRow
    <2>3. /\ conv' \in [Convs -> ConvRow] /\ conv'[c].last = 0
          /\ \A d \in Convs \ {c} : conv'[d] = conv[d]
      <3> HIDE DEF row
      <3> QED BY <2>1, <2>2 DEF TablesOK, TablesTyped
    <2>4. /\ member' \in [Convs -> SUBSET Users]
          /\ \A d \in Convs : member'[d] \subseteq member[d]
      BY <2>1 DEF TablesOK, TablesTyped
    <2>5. QED
      BY <2>1, <2>3, <2>4, EraseOK
  <1>2. CASE ~(Exists(c) /\ Unread(c))
    <2>1. UNCHANGED <<conv, member, log>>
      BY <1>2 DEF Destroy
    <2>2. QED
      BY <2>1, TablesStay DEF TablesOK, TablesTyped
  <1>3. QED
    BY <1>1, <1>2

LEMMA SetReadOK ==
    ASSUME TablesOK, NEW c \in Convs, NEW u \in Users, NEW m \in 0..MaxLog,
           SetRead(c, u, m), UNCHANGED <<conv, member, log, known>>
    PROVE  TablesOK' /\ Onward
  <1>1. read' \in [Convs -> [Users -> 0..MaxLog]]
    BY DEF SetRead, TablesOK, TablesTyped
  <1>2. QED
    BY <1>1, TablesStay

-----------------------------------------------------------------------------
(* The handlers, by endpoint *)

LEMMA NoRequestOK == NoRequest \in Request /\ HandlerOK(NoRequest) /\ HandlerOK(NoRequest)'
  <1>1. NoRequest \in Request
    BY ConversationsAssumption
    DEF NoRequest, Request, NoConv, ConvRow, NoPost, Post, PostRow
  <1>2. QED
    BY <1>1 DEF NoRequest, HandlerOK, HasConv, Speaking, HasRow

\* A handler that is done
LEMMA DoneOK ==
    ASSUME HandlersOK, Onward, NEW s \in Slots, Done(s)
    PROVE  HandlersOK'
  BY HandlersGo, NoRequestOK DEF Done

\* A handler that goes on with what it has
LEMMA StepOK ==
    ASSUME HandlersOK, Onward, NEW s \in Slots, NEW pc \in Pcs, Step(s, pc),
           NEW r, r = [req[s] EXCEPT !.pc = pc], HandlerOK(r)'
    PROVE  HandlersOK'
  <1>1. r \in Request
    BY DEF HandlersOK, Request
  <1>2. QED
    BY <1>1, HandlersGo DEF Step

LEMMA BoundsStay ==
    ASSUME BoundsOK, UNCHANGED <<left, overlap>>
    PROVE  BoundsOK'
  BY DEF BoundsOK

LEMMA OnlyReqOK ==
    ASSUME TablesOK, BoundsOK, OnlyReq
    PROVE  TablesOK' /\ Onward /\ BoundsOK'
  BY TablesStay, BoundsStay DEF OnlyReq, tables, history, TablesOK, TablesTyped

LEMMA ReceiveOK ==
    ASSUME Inv, NEW s \in Slots, NEW op \in Endpoints, NEW r \in Request, r.user \in Users,
           op \in {"open", "write", "add", "remove"} => r.peer \in Users,
           op \in {"send", "forward", "add", "remove", "mark", "leave", "drop"} =>
               r.conv \in Convs,
           op = "create" => r.room.type \in {"dm", "channel"},
           Receive(s, op, r)
    PROVE  Inv'
  <1>1. PICK q : q = [r EXCEPT !.op = op, !.pc = "load"]
    OBVIOUS
  <1>2. /\ q \in Request /\ q.op = op /\ q.pc = "load"
        /\ q.user = r.user /\ q.peer = r.peer /\ q.conv = r.conv /\ q.room = r.room
    BY <1>1 DEF Request, Pcs
  <1>3. TablesOK' /\ Onward
    BY TablesStay DEF Inv, Receive, tables, TablesOK, TablesTyped
  <1>4. HandlerOK(q)'
    BY <1>2 DEF HandlerOK, HasConv, Speaking, HasRow, Endpoints
  <1>5. HandlersOK'
    BY <1>1, <1>2, <1>3, <1>4, HandlersGo DEF Inv, Receive
  <1>6. BoundsOK'
    <2>1. left.requests \in 0..MaxRequests /\ left.requests > 0 /\ overlap' \in BOOLEAN
      BY DEF Inv, BoundsOK, Receive
    <2>2. left' \in [requests : 0..MaxRequests, faults : 0..MaxFaults]
      BY <2>1, ConversationsAssumption DEF Inv, BoundsOK, Receive
    <2>3. QED
      BY <2>1, <2>2 DEF BoundsOK
  <1>7. QED
    BY <1>3, <1>5, <1>6 DEF Inv

\* The requests of clients, as they come in
LEMMA ClientRequestOK ==
    ASSUME Inv, NEW s \in Slots, ClientRequest(s)
    PROVE  Inv'
  <1> USE NoRequestOK
  <1>1. PICK u \in Users :
      \/ \E c \in Convs : Send(s, u, c) \/ Mark(s, u, c) \/ Leave(s, u, c)
                          \/ Drop(s, u, c)
      \/ \E v \in Users, op \in {"open", "write"} : Open(s, u, v, op)
      \/ \E m \in DOMAIN log, c \in Convs : Forward(s, u, m, c)
      \/ \E m \in DOMAIN log : Edit(s, u, m) \/ Delete(s, u, m)
      \/ \E c \in Convs, v \in Users : Add(s, u, c, v) \/ Remove(s, u, c, v)
      \/ \E S \in SUBSET Users, type \in {"dm", "channel"} : Create(s, u, S, type)
      \/ LeaveAll(s, u)
    BY DEF ClientRequest
  <1>2. \A c \in Convs : c \in 0..MaxConvs
    BY DEF Convs
  <1>3. \A m \in DOMAIN log : m \in 0..MaxLog
    BY ConversationsAssumption DEF Inv, TablesOK, TablesTyped
  <1>4. ASSUME NEW c \in Convs, Send(s, u, c) \/ Mark(s, u, c) \/ Leave(s, u, c)
                                \/ Drop(s, u, c)
        PROVE  Inv'
    <2>1. PICK r : r = [NoRequest EXCEPT !.user = u, !.conv = c]
      OBVIOUS
    <2>2. r \in Request /\ r.user = u /\ r.conv = c
      BY <1>2, <2>1 DEF Request
    <2>3. QED
      BY <1>4, <2>1, <2>2, ReceiveOK DEF Send, Mark, Leave, Drop, Endpoints
  <1>5. ASSUME NEW v \in Users, NEW op \in {"open", "write"}, Open(s, u, v, op)
        PROVE  Inv'
    <2>1. PICK r : r = [NoRequest EXCEPT !.user = u, !.peer = v]
      OBVIOUS
    <2>2. r \in Request /\ r.user = u /\ r.peer = v
      BY <2>1 DEF Request
    <2>3. QED
      BY <1>5, <2>1, <2>2, ReceiveOK DEF Open, Endpoints
  <1>6. ASSUME NEW m \in DOMAIN log, NEW c \in Convs, Forward(s, u, m, c)
        PROVE  Inv'
    <2>1. PICK r : r = [NoRequest EXCEPT !.user = u, !.msg = m, !.conv = c]
      OBVIOUS
    <2>2. r \in Request /\ r.user = u /\ r.conv = c
      BY <1>2, <1>3, <2>1 DEF Request
    <2>3. QED
      BY <1>6, <2>1, <2>2, ReceiveOK DEF Forward, Endpoints
  <1>7. ASSUME NEW m \in DOMAIN log, Edit(s, u, m) \/ Delete(s, u, m)
        PROVE  Inv'
    <2>1. PICK r : r = [NoRequest EXCEPT !.user = u, !.msg = m]
      OBVIOUS
    <2>2. r \in Request /\ r.user = u
      BY <1>3, <2>1 DEF Request
    <2>3. QED
      BY <1>7, <2>1, <2>2, ReceiveOK DEF Edit, Delete, Endpoints
  <1>8. ASSUME NEW c \in Convs, NEW v \in Users, Add(s, u, c, v) \/ Remove(s, u, c, v)
        PROVE  Inv'
    <2>1. PICK r : r = [NoRequest EXCEPT !.user = u, !.peer = v, !.conv = c]
      OBVIOUS
    <2>2. r \in Request /\ r.user = u /\ r.peer = v /\ r.conv = c
      BY <1>2, <2>1 DEF Request
    <2>3. QED
      BY <1>8, <2>1, <2>2, ReceiveOK DEF Add, Remove, Endpoints
  <1>9. ASSUME NEW S \in SUBSET Users, NEW type \in {"dm", "channel"},
               Create(s, u, S, type)
        PROVE  Inv'
    <2>0. PICK room : room = [NoConv EXCEPT !.type = type]
      OBVIOUS
    <2>1. PICK r : r = [NoRequest EXCEPT !.user = u, !.members = S, !.room = room]
      OBVIOUS
    <2>2. r \in Request /\ r.user = u /\ r.room.type \in {"dm", "channel"}
      <3>1. room \in ConvRow /\ room.type = type
        BY <2>0, ConversationsAssumption DEF NoConv, ConvRow
      <3>2. QED
        BY <2>1, <3>1 DEF Request
    <2>3. QED
      BY <1>9, <2>0, <2>1, <2>2, ReceiveOK DEF Create, Endpoints
  <1>10. CASE LeaveAll(s, u)
    <2>1. PICK r : r = [NoRequest EXCEPT !.user = u]
      OBVIOUS
    <2>2. r \in Request /\ r.user = u
      BY <2>1 DEF Request
    <2>3. QED
      BY <1>10, <2>1, <2>2, ReceiveOK DEF LeaveAll, Endpoints
  <1>11. QED
    BY <1>1, <1>4, <1>5, <1>6, <1>7, <1>8, <1>9, <1>10

\* The handler in a slot, as it is before its step
LEMMA InFlight ==
    ASSUME Inv, NEW s \in Slots
    PROVE  /\ req[s] \in Request /\ HandlerOK(req[s])
           /\ HandlersOK /\ TablesOK /\ TablesTyped /\ BoundsOK
  BY DEF Inv, HandlersOK, TablesOK

\* sendMessage and its kin
LEMMA SendOK ==
    ASSUME Inv, NEW s \in Slots, SendLoad(s) \/ SendInsert(s) \/ SendSave(s)
    PROVE  Inv'
  <1>1. PICK r : r = req[s]
    OBVIOUS
  <1>2. r \in Request /\ HandlerOK(r) /\ HandlersOK /\ TablesOK /\ TablesTyped /\ BoundsOK
    BY <1>1, InFlight
  <1>3. r.op = "send" => r.user \in Users /\ r.conv \in Convs
    BY <1>2 DEF HandlerOK, HasConv
  <1>4. CASE SendLoad(s)
    <2>1. TablesOK' /\ Onward /\ BoundsOK'
      BY <1>2, <1>4, OnlyReqOK DEF SendLoad
    <2>2. CASE Exists(r.conv) /\ r.user \in member[r.conv]
      <3>1. PICK q : q = [r EXCEPT !.pc = "insert", !.room = conv[r.conv],
                                   !.members = member[r.conv]]
        OBVIOUS
      <3>2. Goto(s, q) /\ r.op = "send" /\ r.pc = "load"
        BY <1>1, <1>4, <2>2, <3>1 DEF SendLoad, At
      <3>3. conv[r.conv] \in ConvRow /\ member[r.conv] \in SUBSET Users
        BY <1>2, <1>3, <3>2 DEF TablesTyped
      <3>4. q \in Request /\ q.op = "send" /\ q.pc = "insert" /\ q.user = r.user
            /\ q.conv = r.conv
        BY <1>2, <3>1, <3>2, <3>3 DEF Request, Pcs
      <3>5. q.user \in known'[q.conv]
        BY <1>2, <1>3, <2>1, <2>2, <3>2, <3>4 DEF TablesOK, MembersKnown, Onward
      <3>6. HandlerOK(q)'
        BY <1>3, <3>2, <3>4, <3>5 DEF HandlerOK, HasConv, HasRow
      <3>7. QED
        BY <1>2, <2>1, <3>2, <3>4, <3>6, HandlersGo DEF Inv
    <2>3. CASE ~(Exists(r.conv) /\ r.user \in member[r.conv])
      BY <1>1, <1>2, <1>4, <2>1, <2>3, DoneOK DEF SendLoad, Inv
    <2>4. QED
      BY <2>2, <2>3
  <1>5. CASE SendInsert(s)
    <2>1. /\ r.op = "send" /\ r.pc = "insert" /\ InsertPost(r.conv, r.user, "text")
          /\ UNCHANGED <<conv, member, read, known, overlap, left>>
      BY <1>1, <1>5 DEF SendInsert, At, history
    <2>2. r.user \in known[r.conv]
      BY <1>2, <2>1 DEF HandlerOK, Speaking
    <2>3. /\ TablesOK' /\ Onward
          /\ Exists(r.conv) => /\ Len(log) + 1 \in DOMAIN log'
                               /\ log'[Len(log) + 1] = Post(r.conv, r.user, "text")
                               /\ Len(log) + 1 \in 0..MaxLog
      BY <1>2, <1>3, <2>1, <2>2, InsertPostOK
    <2>4. BoundsOK'
      BY <1>2, <2>1, BoundsStay
    <2>5. CASE Exists(r.conv)
      <3>1. PICK q : q = [r EXCEPT !.pc = "save", !.msg = Len(log) + 1]
        OBVIOUS
      <3>2. Goto(s, q)
        BY <1>1, <1>5, <2>5, <3>1 DEF SendInsert
      <3>3. q \in Request /\ q.op = "send" /\ q.pc = "save" /\ q.user = r.user
            /\ q.conv = r.conv /\ q.msg = Len(log) + 1
        BY <1>2, <2>1, <2>3, <2>5, <3>1 DEF Request, Pcs
      <3>4. log'[q.msg].conv = q.conv /\ q.msg \in DOMAIN log'
        BY <2>3, <2>5, <3>3 DEF Post
      <3>5. q.user \in known'[q.conv]
        BY <2>1, <2>2, <3>3
      <3>6. HandlerOK(q)'
        BY <1>3, <2>1, <3>3, <3>4, <3>5 DEF HandlerOK, HasConv, HasRow
      <3>7. QED
        BY <1>2, <2>3, <2>4, <3>2, <3>3, <3>6, HandlersGo DEF Inv
    <2>6. CASE ~Exists(r.conv)
      BY <1>1, <1>2, <1>5, <2>3, <2>4, <2>6, DoneOK DEF SendInsert, Inv
    <2>7. QED
      BY <2>5, <2>6
  <1>6. CASE SendSave(s)
    <2>1. /\ r.op = "send" /\ r.pc = "save" /\ Done(s)
          /\ UNCHANGED <<log, read, overlap, left>>
      BY <1>1, <1>6 DEF SendSave, At
    <2>2. r.room \in ConvRow /\ r.members \in SUBSET Users /\ r.msg \in 0..MaxLog
      BY <1>2 DEF Request
    <2>3. TablesOK' /\ Onward
      <3>1. CASE /\ Exists(r.conv)
                 /\ SaveConv(r.conv, IF IsPost(r.msg) THEN r.msg ELSE 0, r.members)
        <4>1. PICK last : last = IF IsPost(r.msg) THEN r.msg ELSE 0
          OBVIOUS
        <4>2. last \in 0..MaxLog
          BY <2>2, <4>1, ConversationsAssumption
        <4>3. last # 0 => last \in PostsIn(r.conv)
          BY <1>2, <2>1, <4>1 DEF HandlerOK, IsPost, PostsIn
        <4>4. QED
          BY <1>2, <1>3, <2>1, <2>2, <3>1, <4>1, <4>2, <4>3, SaveConvOK
      <3>2. CASE Resurrect(r.room, r.members)
        BY <1>2, <2>1, <2>2, <3>2, ResurrectOK
      <3>3. CASE UNCHANGED <<conv, member, known>>
        BY <1>2, <2>1, <3>3, TablesStay DEF TablesTyped
      <3>4. QED
        BY <1>1, <1>6, <3>1, <3>2, <3>3 DEF SendSave
    <2>4. QED
      BY <1>2, <2>1, <2>3, DoneOK, BoundsStay DEF Inv
  <1>7. QED
    BY <1>4, <1>5, <1>6

\* findOrCreateDirectConversation has the conversation in hand
LEMMA OpenedOK ==
    ASSUME Inv, NEW s \in Slots, NEW c \in Convs, req[s].op \in {"open", "write"},
           Opened(s, c), OnlyReq
    PROVE  Inv'
  <1>1. PICK r : r = req[s]
    OBVIOUS
  <1>2. r \in Request /\ HandlerOK(r) /\ HandlersOK /\ TablesOK /\ TablesTyped /\ BoundsOK
    BY <1>1, InFlight
  <1>3. TablesOK' /\ Onward /\ BoundsOK'
    BY <1>2, OnlyReqOK
  <1>4. CASE r.op = "open" \/ r.user \notin member[c]
    BY <1>1, <1>2, <1>3, <1>4, DoneOK DEF Opened, Inv
  <1>5. CASE ~(r.op = "open" \/ r.user \notin member[c])
    <2>1. PICK q : q = [r EXCEPT !.op = "send", !.pc = "insert", !.conv = c,
                                 !.room = conv[c], !.members = member[c]]
      OBVIOUS
    <2>2. Goto(s, q)
      BY <1>1, <1>5, <2>1 DEF Opened
    <2>3. conv[c] \in ConvRow /\ member[c] \in SUBSET Users /\ c \in 0..MaxConvs
      BY <1>2 DEF TablesTyped, Convs
    <2>4. q \in Request /\ q.op = "send" /\ q.pc = "insert" /\ q.user = r.user /\ q.conv = c
      BY <1>2, <2>1, <2>3 DEF Request, Pcs, Endpoints
    <2>5. q.user \in known'[q.conv] /\ q.user \in Users
      BY <1>1, <1>2, <1>3, <1>5, <2>4 DEF TablesOK, MembersKnown, Onward, HandlerOK
    <2>6. HandlerOK(q)'
      BY <2>4, <2>5 DEF HandlerOK, HasConv, HasRow
    <2>7. QED
      BY <1>2, <1>3, <2>2, <2>4, <2>6, HandlersGo DEF Inv
  <1>6. QED
    BY <1>4, <1>5

\* findOrCreateDirectConversation
LEMMA OpenOK ==
    ASSUME Inv, NEW s \in Slots,
           OpenFind(s) \/ OpenInsert(s) \/ OpenMembers(s) \/ OpenReload(s)
    PROVE  Inv'
  <1>1. PICK r : r = req[s]
    OBVIOUS
  <1>2. r \in Request /\ HandlerOK(r) /\ HandlersOK /\ TablesOK /\ TablesTyped /\ BoundsOK
    BY <1>1, InFlight
  <1>3. /\ r.op \in {"open", "write"}
        /\ r.pc \in {"members", "find"} => r.conv \in Convs
        /\ r.user \in Users /\ r.peer \in Users
    BY <1>1, <1>2
    DEF OpenFind, OpenInsert, OpenMembers, OpenReload, AtOpen, At, HandlerOK, HasConv
  <1>4. CASE OpenFind(s)
    <2>1. r.pc = "load" /\ OnlyReq
      BY <1>1, <1>4 DEF OpenFind, AtOpen, At
    <2>2. TablesOK' /\ Onward /\ BoundsOK'
      BY <1>2, <2>1, OnlyReqOK
    <2>3. CASE Step(s, "insert")
      <3>1. PICK q : q = [r EXCEPT !.pc = "insert"]
        OBVIOUS
      <3>2. q.op = r.op /\ q.pc = "insert" /\ q.user = r.user /\ q.peer = r.peer
        BY <1>2, <3>1 DEF Request
      <3>3. HandlerOK(q)'
        BY <1>3, <3>2 DEF HandlerOK, HasConv, Speaking, HasRow
      <3>4. QED
        BY <1>1, <1>2, <2>2, <2>3, <3>1, <3>3, StepOK DEF Pcs, Inv
    <2>4. CASE \E c \in Existing(r.user, r.peer) : Opened(s, c)
      <3>1. PICK c \in Convs : Opened(s, c)
        BY <2>4 DEF Existing
      <3>2. QED
        BY <1>1, <1>3, <2>1, <3>1, OpenedOK
    <2>5. QED
      BY <1>1, <1>4, <2>3, <2>4 DEF OpenFind
  <1>5. CASE OpenInsert(s)
    <2>1. /\ InsertConv("dm", r.user)
          /\ UNCHANGED <<member, log, read, known, overlap, left>>
      BY <1>1, <1>5 DEF OpenInsert, history
    <2>2. TablesOK' /\ Onward /\ BoundsOK' /\ Fresh \in Convs
      BY <1>2, <1>3, <2>1, InsertConvOK, BoundsStay
    <2>3. PICK q : q = [r EXCEPT !.pc = "members", !.conv = Fresh]
      OBVIOUS
    <2>4. Goto(s, q) /\ Fresh \in 0..MaxConvs
      BY <1>1, <1>5, <2>2, <2>3 DEF OpenInsert, Convs
    <2>5. /\ q \in Request /\ q.op = r.op /\ q.pc = "members"
          /\ q.user = r.user /\ q.peer = r.peer /\ q.conv = Fresh
      BY <1>2, <2>3, <2>4 DEF Request, Pcs
    <2>6. HandlerOK(q)'
      BY <1>3, <2>2, <2>5 DEF HandlerOK, Speaking, HasRow
    <2>7. QED
      BY <1>2, <2>2, <2>4, <2>5, <2>6, HandlersGo DEF Inv
  <1>6. CASE OpenMembers(s)
    <2>1. /\ r.pc = "members" /\ SetMembers(r.conv, {r.user, r.peer}) /\ Step(s, "find")
          /\ UNCHANGED <<conv, log, read, overlap, left>>
      BY <1>1, <1>6 DEF OpenMembers, AtOpen, At
    <2>2. TablesOK' /\ Onward /\ BoundsOK'
      <3>1. {r.user, r.peer} \in SUBSET Users /\ r.conv \in Convs
        BY <1>3, <2>1
      <3>2. QED
        BY <1>2, <2>1, <3>1, SetMembersOK, BoundsStay
    <2>3. PICK q : q = [r EXCEPT !.pc = "find"]
      OBVIOUS
    <2>4. q.op = r.op /\ q.pc = "find" /\ q.user = r.user /\ q.peer = r.peer /\ q.conv = r.conv
      BY <1>2, <2>3 DEF Request
    <2>5. HandlerOK(q)'
      BY <1>3, <2>1, <2>4 DEF HandlerOK, Speaking, HasRow
    <2>6. QED
      BY <1>1, <1>2, <2>1, <2>2, <2>3, <2>5, StepOK DEF Pcs, Inv
  <1>7. CASE OpenReload(s)
    <2>1. r.pc = "find" /\ OnlyReq /\ (Opened(s, r.conv) \/ Done(s))
      BY <1>1, <1>7 DEF OpenReload, AtOpen, At
    <2>2. CASE Opened(s, r.conv)
      BY <1>1, <1>3, <2>1, <2>2, OpenedOK
    <2>3. CASE Done(s)
      BY <1>2, <2>1, <2>3, OnlyReqOK, DoneOK DEF Inv
    <2>4. QED
      BY <2>1, <2>2, <2>3
  <1>8. QED
    BY <1>4, <1>5, <1>6, <1>7

\* forwardMessage
LEMMA ForwardOK ==
    ASSUME Inv, NEW s \in Slots, ForwardLoad(s) \/ ForwardInsert(s)
    PROVE  Inv'
  <1>1. PICK r : r = req[s]
    OBVIOUS
  <1>2. r \in Request /\ HandlerOK(r) /\ HandlersOK /\ TablesOK /\ TablesTyped /\ BoundsOK
    BY <1>1, InFlight
  <1>3. r.op = "forward" /\ r.user \in Users /\ r.conv \in Convs
    BY <1>1, <1>2 DEF ForwardLoad, ForwardInsert, At, HandlerOK, HasConv
  <1>4. CASE ForwardLoad(s)
    <2>1. TablesOK' /\ Onward /\ BoundsOK'
      BY <1>2, <1>4, OnlyReqOK DEF ForwardLoad
    <2>2. CASE r.user \in member[r.conv] /\ Step(s, "insert")
      <3>1. PICK q : q = [r EXCEPT !.pc = "insert"]
        OBVIOUS
      <3>2. q.op = r.op /\ q.pc = "insert" /\ q.user = r.user /\ q.conv = r.conv
        BY <1>2, <3>1 DEF Request
      <3>3. q.user \in known'[q.conv]
        BY <1>2, <1>3, <2>1, <2>2, <3>2 DEF TablesOK, MembersKnown, Onward
      <3>4. HandlerOK(q)'
        BY <1>3, <3>2, <3>3 DEF HandlerOK, HasRow
      <3>5. QED
        BY <1>1, <1>2, <2>1, <2>2, <3>1, <3>4, StepOK DEF Pcs, Inv
    <2>3. CASE Done(s)
      BY <1>2, <2>1, <2>3, DoneOK DEF Inv
    <2>4. QED
      BY <1>1, <1>4, <2>2, <2>3 DEF ForwardLoad
  <1>5. CASE ForwardInsert(s)
    <2>1. /\ r.pc = "insert" /\ InsertPost(r.conv, r.user, "forward") /\ Done(s)
          /\ UNCHANGED <<conv, member, read, known, overlap, left>>
      BY <1>1, <1>5 DEF ForwardInsert, At, history
    <2>2. r.user \in known[r.conv]
      BY <1>2, <1>3, <2>1 DEF HandlerOK, Speaking
    <2>3. TablesOK' /\ Onward
      BY <1>2, <1>3, <2>1, <2>2, InsertPostOK
    <2>4. QED
      BY <1>2, <2>1, <2>3, DoneOK, BoundsStay DEF Inv
  <1>6. QED
    BY <1>4, <1>5

\* A message as it is in the table, edited in columns that name nobody
LEMMA LoadedRow ==
    ASSUME TablesOK, NEW m, IsPost(m), NEW row,
           row = [log[m] EXCEPT !.edited = TRUE] \/ row = [log[m] EXCEPT !.deleted = TRUE]
    PROVE  /\ row \in PostRow /\ row.conv = log[m].conv /\ row.conv \in Convs
           /\ row.kind \in Speech => row.author \in known[row.conv]
  <1>1. m \in DOMAIN log /\ log[m] \in PostRow /\ log[m].conv \in Convs
    BY PostTyped DEF IsPost, TablesOK
  <1>2. /\ row \in PostRow /\ row.conv = log[m].conv /\ row.kind = log[m].kind
        /\ row.author = log[m].author
    BY <1>1 DEF PostRow
  <1>3. QED
    BY <1>1, <1>2 DEF TablesOK, OnlyMembersSpeak, Speech

\* messageRepo.save in a handler that has loaded the message
LEMMA SavesRow ==
    ASSUME Inv, NEW s \in Slots, HasRow(req[s]), SavePost(req[s].msg, req[s].row),
           UNCHANGED <<conv, member, read, known>>
    PROVE  TablesOK' /\ Onward
  <1>1. PICK r : r = req[s]
    OBVIOUS
  <1>2. r \in Request /\ HandlerOK(r) /\ TablesOK
    BY <1>1, InFlight
  <1>3. r.row \in PostRow
    BY <1>2 DEF Request
  <1>4. QED
    BY <1>1, <1>2, <1>3, SavePostOK DEF HandlerOK

\* editMessage
LEMMA EditOK ==
    ASSUME Inv, NEW s \in Slots,
           EditLoad(s) \/ EditSave(s) \/ EditSaveConv(s) \/ EditSaveAgain(s)
    PROVE  Inv'
  <1>1. PICK r : r = req[s]
    OBVIOUS
  <1>2. r \in Request /\ HandlerOK(r) /\ HandlersOK /\ TablesOK /\ TablesTyped /\ BoundsOK
    BY <1>1, InFlight
  <1>3. r.op = "edit" /\ r.user \in Users
    BY <1>1, <1>2 DEF EditLoad, EditSave, EditSaveConv, EditSaveAgain, At, HandlerOK
  <1>4. CASE EditLoad(s)
    <2>1. TablesOK' /\ Onward /\ BoundsOK' /\ UNCHANGED <<log, known>>
      BY <1>2, <1>4, OnlyReqOK DEF EditLoad, OnlyReq, tables, history
    <2>2. CASE IsPost(r.msg) /\ log[r.msg].author = r.user
      <3>1. PICK row : row = [log[r.msg] EXCEPT !.edited = TRUE]
        OBVIOUS
      <3>2. /\ row \in PostRow /\ row.conv = log[r.msg].conv /\ row.conv \in Convs
            /\ row.kind \in Speech => row.author \in known[row.conv]
        BY <1>2, <2>2, <3>1, LoadedRow
      <3>3. PICK q : q = [r EXCEPT !.pc = "row", !.conv = row.conv, !.row = row,
                                   !.room = conv[row.conv], !.members = member[row.conv]]
        OBVIOUS
      <3>4. Goto(s, q)
        BY <1>1, <1>4, <2>2, <3>1, <3>2, <3>3 DEF EditLoad
      <3>5. /\ conv[row.conv] \in ConvRow /\ member[row.conv] \in SUBSET Users
            /\ row.conv \in 0..MaxConvs
        BY <1>2, <3>2 DEF TablesTyped, Convs
      <3>6. /\ q \in Request /\ q.op = "edit" /\ q.pc = "row" /\ q.user = r.user
            /\ q.conv = row.conv /\ q.row = row /\ q.msg = r.msg
        BY <1>2, <1>3, <3>2, <3>3, <3>5 DEF Request, Pcs
      <3>7. HandlerOK(q)'
        BY <1>3, <2>1, <2>2, <3>2, <3>6 DEF HandlerOK, HasConv, Speaking, IsPost
      <3>8. QED
        BY <1>2, <2>1, <3>4, <3>6, <3>7, HandlersGo DEF Inv
    <2>3. CASE ~(IsPost(r.msg) /\ log[r.msg].author = r.user)
      BY <1>1, <1>2, <1>4, <2>1, <2>3, DoneOK DEF EditLoad, Inv
    <2>4. QED
      BY <2>2, <2>3
  \* What the handler has is as good under another of its labels
  <1>5. ASSUME NEW pc \in {"conv", "again"}, r.pc # "load", TablesOK', Onward, BoundsOK',
               Step(s, pc)
        PROVE  Inv'
    <2>1. PICK q : q = [r EXCEPT !.pc = pc]
      OBVIOUS
    <2>2. /\ q.op = r.op /\ q.pc = pc /\ q.user = r.user /\ q.conv = r.conv
          /\ q.msg = r.msg /\ q.row = r.row
      BY <1>2, <2>1 DEF Request
    <2>3. HandlerOK(r)'
      BY <1>2, <1>5, HandlerStays
    <2>4. HandlerOK(q)'
      BY <1>3, <1>5, <2>2, <2>3 DEF HandlerOK, HasConv, Speaking, HasRow
    <2>5. QED
      BY <1>1, <1>2, <1>5, <2>1, <2>4, StepOK DEF Pcs, Inv
  <1>6. CASE EditSave(s)
    <2>1. /\ r.pc = "row" /\ SavePost(r.msg, r.row)
          /\ Done(s) \/ \E pc \in {"conv", "again"} : Step(s, pc)
          /\ UNCHANGED <<conv, member, read, known, overlap, left>>
      BY <1>1, <1>6 DEF EditSave, At, history
    <2>2. TablesOK' /\ Onward /\ BoundsOK'
      BY <1>1, <1>2, <1>3, <2>1, SavesRow, BoundsStay DEF HasRow
    <2>3. QED
      BY <1>2, <1>5, <2>1, <2>2, DoneOK DEF Inv
  <1>7. CASE EditSaveConv(s)
    <2>1. r.pc = "conv" /\ UNCHANGED <<log, read, overlap, left>>
      BY <1>1, <1>7 DEF EditSaveConv, At
    <2>2. CASE IsPost(r.msg)
      <3>1. SaveConv(r.conv, r.msg, r.members) /\ Step(s, "again")
        BY <1>1, <1>7, <2>2 DEF EditSaveConv
      <3>2. r.conv \in Convs /\ r.msg \in PostsIn(r.conv)
        BY <1>2, <1>3, <2>1, <2>2 DEF HandlerOK, HasRow, IsPost, PostsIn
      <3>3. r.members \in SUBSET Users /\ r.msg \in 0..MaxLog
        BY <1>2 DEF Request
      <3>4. TablesOK' /\ Onward /\ BoundsOK'
        BY <1>2, <2>1, <3>1, <3>2, <3>3, SaveConvOK, BoundsStay
      <3>5. QED
        BY <1>5, <2>1, <3>1, <3>4
    <2>3. CASE ~IsPost(r.msg)
      <3>1. UNCHANGED <<conv, member, known>> /\ Done(s)
        BY <1>1, <1>7, <2>3 DEF EditSaveConv
      <3>2. QED
        BY <1>2, <2>1, <3>1, TablesStay, BoundsStay, DoneOK DEF TablesTyped, Inv
    <2>4. QED
      BY <2>2, <2>3
  <1>8. CASE EditSaveAgain(s)
    <2>1. /\ r.pc = "again" /\ SavePost(r.msg, r.row) /\ Done(s)
          /\ UNCHANGED <<conv, member, read, known, overlap, left>>
      BY <1>1, <1>8 DEF EditSaveAgain, At, history
    <2>2. TablesOK' /\ Onward
      BY <1>1, <1>3, <2>1, SavesRow DEF HasRow
    <2>3. QED
      BY <1>2, <2>1, <2>2, DoneOK, BoundsStay DEF Inv
  <1>9. QED
    BY <1>4, <1>6, <1>7, <1>8

\* deleteMessage
LEMMA DeleteOK ==
    ASSUME Inv, NEW s \in Slots, DeleteLoad(s) \/ DeleteSave(s)
    PROVE  Inv'
  <1>1. PICK r : r = req[s]
    OBVIOUS
  <1>2. r \in Request /\ HandlerOK(r) /\ HandlersOK /\ TablesOK /\ TablesTyped /\ BoundsOK
    BY <1>1, InFlight
  <1>3. r.op = "delete" /\ r.user \in Users
    BY <1>1, <1>2 DEF DeleteLoad, DeleteSave, At, HandlerOK
  <1>4. CASE DeleteLoad(s)
    <2>1. TablesOK' /\ Onward /\ BoundsOK' /\ UNCHANGED <<log, known>>
      BY <1>2, <1>4, OnlyReqOK DEF DeleteLoad, OnlyReq, tables, history
    <2>2. CASE IsPost(r.msg)
      <3>1. PICK row : row = [log[r.msg] EXCEPT !.deleted = TRUE]
        OBVIOUS
      <3>2. /\ row \in PostRow /\ row.conv = log[r.msg].conv /\ row.conv \in Convs
            /\ row.kind \in Speech => row.author \in known[row.conv]
        BY <1>2, <2>2, <3>1, LoadedRow
      <3>3. PICK q : q = [r EXCEPT !.pc = "row", !.row = row]
        OBVIOUS
      <3>4. Goto(s, q)
        BY <1>1, <1>4, <2>2, <3>1, <3>3 DEF DeleteLoad
      <3>5. /\ q \in Request /\ q.op = "delete" /\ q.pc = "row" /\ q.user = r.user
            /\ q.row = row /\ q.msg = r.msg
        BY <1>2, <1>3, <3>2, <3>3 DEF Request, Pcs
      <3>6. HandlerOK(q)'
        BY <1>3, <2>1, <2>2, <3>2, <3>5 DEF HandlerOK, HasConv, Speaking, IsPost
      <3>7. QED
        BY <1>2, <2>1, <3>4, <3>5, <3>6, HandlersGo DEF Inv
    <2>3. CASE ~IsPost(r.msg)
      BY <1>1, <1>2, <1>4, <2>1, <2>3, DoneOK DEF DeleteLoad, Inv
    <2>4. QED
      BY <2>2, <2>3
  <1>5. CASE DeleteSave(s)
    <2>1. /\ r.pc = "row" /\ SavePost(r.msg, r.row) /\ Done(s)
          /\ UNCHANGED <<conv, member, read, known, overlap, left>>
      BY <1>1, <1>5 DEF DeleteSave, At, history
    <2>2. TablesOK' /\ Onward
      BY <1>1, <1>3, <2>1, SavesRow DEF HasRow
    <2>3. QED
      BY <1>2, <2>1, <2>2, DoneOK, BoundsStay DEF Inv
  <1>6. QED
    BY <1>4, <1>5

\* A handler that neither writes in its user's name nor holds a message goes on
Quiet(r) == /\ r.op \in {"add", "remove", "mark", "leave", "leaveAll", "create", "drop"}
            /\ r.op = "create" => r.room.type \in {"dm", "channel"}

LEMMA GoesOnOK ==
    ASSUME NEW s \in Slots, NEW q \in Request, Quiet(q),
           q.user \in Users, q.op \in {"add", "remove"} => q.peer \in Users,
           q.conv \in Convs \/ ~HasConv(q),
           Goto(s, q), Inv, TablesOK', Onward, BoundsOK'
    PROVE  Inv'
  <1>1. HandlerOK(q)'
    BY DEF HandlerOK, HasConv, Speaking, HasRow, Quiet
  <1>2. QED
    BY <1>1, HandlersGo DEF Inv

\* ... to another of its labels, with all it has
LEMMA MovesOK ==
    ASSUME NEW s \in Slots, NEW pc \in Pcs, Step(s, pc), Quiet(req[s]),
           req[s].conv \in Convs, Inv, TablesOK', Onward, BoundsOK'
    PROVE  Inv'
  <1>1. PICK r : r = req[s]
    OBVIOUS
  <1>2. PICK q : q = [r EXCEPT !.pc = pc]
    OBVIOUS
  <1>3. r \in Request /\ HandlerOK(r)
    BY <1>1, InFlight
  <1>4. /\ q \in Request /\ q.op = r.op /\ q.pc = pc /\ q.user = r.user
        /\ q.peer = r.peer /\ q.conv = r.conv /\ q.room = r.room
    BY <1>2, <1>3 DEF Request
  <1>5. q.user \in Users /\ (q.op \in {"add", "remove"} => q.peer \in Users)
    BY <1>1, <1>3, <1>4 DEF HandlerOK, Quiet
  <1>6. Goto(s, q)
    BY <1>1, <1>2 DEF Step
  <1>7. Quiet(q) /\ q.conv \in Convs
    BY <1>1, <1>4 DEF Quiet
  <1>8. QED
    BY <1>4, <1>5, <1>6, <1>7, GoesOnOK

\* A handler whose step ends it
LEMMA EndsOK ==
    ASSUME Inv, TablesOK', Onward, BoundsOK', NEW s \in Slots, Done(s)
    PROVE  Inv'
  BY DoneOK DEF Inv

\* addMembers and removeConversationMember
LEMMA RosterOK ==
    ASSUME Inv, NEW s \in Slots,
           \/ AddLoad(s) \/ AddInsert(s) \/ AddNote(s)
           \/ RemoveLoad(s) \/ RemoveRow(s) \/ RemoveNote(s)
    PROVE  Inv'
  <1>1. PICK r : r = req[s]
    OBVIOUS
  <1>2. r \in Request /\ HandlerOK(r) /\ TablesOK /\ TablesTyped /\ BoundsOK
    BY <1>1, InFlight
  <1>3. /\ r.op \in {"add", "remove"} /\ r.user \in Users /\ r.peer \in Users
        /\ r.conv \in Convs
    BY <1>1, <1>2 DEF AddLoad, AddInsert, AddNote, RemoveLoad, RemoveRow, RemoveNote,
                      At, HandlerOK, HasConv
  <1>4. ASSUME TablesOK', Onward, BoundsOK', Done(s) \/ \E pc \in Pcs : Step(s, pc)
        PROVE  Inv'
    <2>1. CASE Done(s)
      BY <1>4, <2>1, EndsOK
    <2>2. ASSUME NEW pc \in Pcs, Step(s, pc) PROVE Inv'
      <3>1. Quiet(req[s]) /\ req[s].conv \in Convs
        BY <1>1, <1>3 DEF Quiet
      <3>2. QED
        BY <1>4, <2>2, <3>1, MovesOK
    <2>3. QED
      BY <1>4, <2>1, <2>2
  <1>5. \A pc \in {"insert", "note", "row"} : pc \in Pcs
    BY DEF Pcs
  <1>6. CASE AddLoad(s) \/ RemoveLoad(s)
    BY <1>2, <1>4, <1>5, <1>6, OnlyReqOK DEF AddLoad, RemoveLoad
  <1>7. CASE AddInsert(s) \/ RemoveRow(s)
    <2>1. /\ UNCHANGED <<conv, log, read, overlap, left>>
          /\ Done(s) \/ \E pc \in Pcs : Step(s, pc)
          /\ \/ UNCHANGED <<member, known>>
             \/ SetMembers(r.conv, member[r.conv] \cup {r.peer})
             \/ SetMembers(r.conv, member[r.conv] \ {r.peer})
      BY <1>1, <1>5, <1>7 DEF AddInsert, RemoveRow
    <2>2. /\ member[r.conv] \cup {r.peer} \in SUBSET Users
          /\ member[r.conv] \ {r.peer} \in SUBSET Users
      BY <1>2, <1>3 DEF TablesTyped
    <2>3. TablesOK' /\ Onward
      BY <1>2, <1>3, <2>1, <2>2, SetMembersOK, TablesStay DEF TablesTyped
    <2>4. QED
      BY <1>2, <1>4, <2>1, <2>3, BoundsStay
  <1>8. CASE AddNote(s) \/ RemoveNote(s)
    <2>1. /\ \/ InsertPost(r.conv, r.user, "join")
             \/ InsertPost(r.conv, r.peer, "leave")
          /\ Done(s) /\ UNCHANGED <<conv, member, read, known, overlap, left>>
      BY <1>1, <1>8 DEF AddNote, RemoveNote, history
    <2>2. TablesOK' /\ Onward
      BY <1>2, <1>3, <2>1, InsertPostOK DEF Speech
    <2>3. QED
      BY <1>2, <1>4, <2>1, <2>2, BoundsStay
  <1>9. QED
    BY <1>6, <1>7, <1>8

\* markConversationAsRead
LEMMA MarkOK ==
    ASSUME Inv, NEW s \in Slots,
           MarkLoad(s) \/ MarkFind(s) \/ MarkInsert(s) \/ MarkSave(s)
    PROVE  Inv'
  <1>1. PICK r : r = req[s]
    OBVIOUS
  <1>2. r \in Request /\ HandlerOK(r) /\ TablesOK /\ TablesTyped /\ BoundsOK
    BY <1>1, InFlight
  <1>3. r.op = "mark" /\ r.user \in Users /\ r.conv \in Convs /\ r.msg \in 0..MaxLog
    BY <1>1, <1>2 DEF MarkLoad, MarkFind, MarkInsert, MarkSave, At, HandlerOK, HasConv,
                      Request
  <1>4. CASE MarkLoad(s)
    <2>1. TablesOK' /\ Onward /\ BoundsOK'
      BY <1>2, <1>4, OnlyReqOK DEF MarkLoad
    <2>2. CASE Done(s)
      BY <2>1, <2>2, EndsOK
    <2>3. CASE ~Done(s)
      <3>1. PICK m : m = Newest(PostsIn(r.conv))
        OBVIOUS
      <3>2. PICK q : q = [r EXCEPT !.pc = "find", !.msg = m]
        OBVIOUS
      <3>3. PostsIn(r.conv) # {} /\ Goto(s, q)
        BY <1>1, <1>4, <2>3, <3>1, <3>2 DEF MarkLoad
      <3>4. m \in 0..MaxLog
        <4>1. m \in DOMAIN log
          BY <1>2, <3>1, <3>3, NewestPost DEF PostsIn
        <4>2. QED
          BY <1>2, <4>1, ConversationsAssumption DEF TablesTyped
      <3>5. q \in Request /\ q.op = "mark" /\ q.user = r.user /\ q.conv = r.conv
        BY <1>2, <1>3, <3>2, <3>4 DEF Request, Pcs
      <3>6. QED
        <4>1. Quiet(q) /\ q.user \in Users /\ q.op \notin {"add", "remove"} /\ q.conv \in Convs
          BY <1>3, <3>5 DEF Quiet
        <4>2. QED
          BY <2>1, <3>3, <3>5, <4>1, GoesOnOK
    <2>4. QED
      BY <2>2, <2>3
  <1>5. CASE MarkFind(s)
    <2>1. TablesOK' /\ Onward /\ BoundsOK'
      BY <1>2, <1>5, OnlyReqOK DEF MarkFind
    <2>2. \E pc \in {"insert", "save"} : Step(s, pc)
      BY <1>5 DEF MarkFind
    <2>3. QED
      <3>1. PICK pc \in Pcs : Step(s, pc)
        BY <2>2 DEF Pcs
      <3>2. Quiet(req[s]) /\ req[s].conv \in Convs
        BY <1>1, <1>3 DEF Quiet
      <3>3. QED
        BY <2>1, <3>1, <3>2, MovesOK
  <1>6. CASE MarkInsert(s) \/ MarkSave(s)
    <2>1. /\ SetRead(r.conv, r.user, r.msg) \/ UNCHANGED read
          /\ Done(s) /\ UNCHANGED <<conv, member, log, known, overlap, left>>
      BY <1>1, <1>6 DEF MarkInsert, MarkSave, history
    <2>2. TablesOK' /\ Onward
      BY <1>2, <1>3, <2>1, SetReadOK, TablesStay DEF TablesTyped
    <2>3. QED
      BY <1>2, <2>1, <2>2, EndsOK, BoundsStay
  <1>7. QED
    BY <1>4, <1>5, <1>6

\* deleteDirectConversation
LEMMA LeaveOK ==
    ASSUME Inv, NEW s \in Slots,
           LeaveLoad(s) \/ LeaveRow(s) \/ LeaveCount(s) \/ LeaveDestroy(s)
    PROVE  Inv'
  <1>1. PICK r : r = req[s]
    OBVIOUS
  <1>2. r \in Request /\ HandlerOK(r) /\ TablesOK /\ TablesTyped /\ BoundsOK
    BY <1>1, InFlight
  <1>3. r.op = "leave" /\ r.user \in Users /\ r.conv \in Convs /\ Quiet(r)
    BY <1>1, <1>2 DEF LeaveLoad, LeaveRow, LeaveCount, LeaveDestroy, At, HandlerOK,
                      HasConv, Quiet
  <1>4. \A pc \in {"row", "count", "destroy"} : pc \in Pcs
    BY DEF Pcs
  <1>5. CASE LeaveLoad(s) \/ LeaveCount(s)
    <2>1. OnlyReq /\ (Done(s) \/ \E pc \in Pcs : Step(s, pc))
      BY <1>4, <1>5 DEF LeaveLoad, LeaveCount
    <2>2. TablesOK' /\ Onward /\ BoundsOK'
      BY <1>2, <2>1, OnlyReqOK
    <2>3. QED
      BY <1>1, <1>3, <2>1, <2>2, EndsOK, MovesOK
  <1>6. CASE LeaveRow(s)
    <2>1. /\ SetMembers(r.conv, member[r.conv] \ {r.user}) /\ Step(s, "count")
          /\ UNCHANGED <<conv, log, read, overlap, left>>
      BY <1>1, <1>6 DEF LeaveRow
    <2>2. member[r.conv] \ {r.user} \in SUBSET Users
      BY <1>2, <1>3 DEF TablesTyped
    <2>3. TablesOK' /\ Onward /\ BoundsOK'
      BY <1>2, <1>3, <2>1, <2>2, SetMembersOK, BoundsStay
    <2>4. QED
      BY <1>1, <1>3, <1>4, <2>1, <2>3, MovesOK
  <1>7. CASE LeaveDestroy(s)
    <2>1. Destroy(r.conv) /\ Done(s) /\ UNCHANGED <<read, known, overlap, left>>
      BY <1>1, <1>7 DEF LeaveDestroy, history
    <2>2. TablesOK' /\ Onward /\ BoundsOK'
      BY <1>2, <1>3, <2>1, DestroyOK, BoundsStay
    <2>3. QED
      BY <2>1, <2>2, EndsOK
  <1>8. QED
    BY <1>5, <1>6, <1>7

\* leaveAllDMsForUser
LEMMA LeaveAllOK ==
    ASSUME Inv, NEW s \in Slots,
           \/ LeaveAllLoad(s) \/ LeaveAllRows(s) \/ LeaveAllCount(s)
           \/ LeaveAllMessages(s) \/ LeaveAllDestroy(s)
    PROVE  Inv'
  <1>1. PICK r : r = req[s]
    OBVIOUS
  <1>2. r \in Request /\ HandlerOK(r) /\ TablesOK /\ TablesTyped /\ BoundsOK
    BY <1>1, InFlight
  <1>3. /\ r.op = "leaveAll" /\ r.user \in Users /\ Quiet(r)
        /\ r.pc \in {"messages", "destroy"} => r.conv \in Convs
        /\ r.todo \in SUBSET Convs
    BY <1>1, <1>2 DEF LeaveAllLoad, LeaveAllRows, LeaveAllCount, LeaveAllMessages,
                      LeaveAllDestroy, At, HandlerOK, HasConv, Quiet, Request
  \* On to the next of the conversations, whatever conv holds by then
  <1>4. ASSUME Step(s, "count"), TablesOK', Onward, BoundsOK'
        PROVE  Inv'
    <2>1. PICK q : q = [r EXCEPT !.pc = "count"]
      OBVIOUS
    <2>2. q \in Request /\ q.op = "leaveAll" /\ q.pc = "count" /\ q.user = r.user
      BY <1>2, <1>3, <2>1 DEF Request, Pcs
    <2>3. Goto(s, q)
      BY <1>1, <1>4, <2>1 DEF Step
    <2>4. Quiet(q) /\ ~HasConv(q) /\ q.user \in Users /\ q.op \notin {"add", "remove"}
      BY <1>3, <2>2 DEF Quiet, HasConv
    <2>5. QED
      BY <1>4, <2>2, <2>3, <2>4, GoesOnOK
  <1>5. CASE LeaveAllLoad(s)
    <2>1. TablesOK' /\ Onward /\ BoundsOK'
      BY <1>2, <1>5, OnlyReqOK DEF LeaveAllLoad
    <2>2. CASE Done(s)
      BY <2>1, <2>2, EndsOK
    <2>3. CASE ~Done(s)
      <3>1. PICK mine \in SUBSET Convs : Goto(s, [r EXCEPT !.pc = "row", !.todo = mine])
        BY <1>1, <1>5, <2>3 DEF LeaveAllLoad
      <3>2. PICK q : q = [r EXCEPT !.pc = "row", !.todo = mine]
        OBVIOUS
      <3>3. q \in Request /\ q.op = "leaveAll" /\ q.pc = "row" /\ q.user = r.user
        BY <1>2, <1>3, <3>2 DEF Request, Pcs
      <3>4. Quiet(q) /\ ~HasConv(q) /\ q.user \in Users /\ q.op \notin {"add", "remove"}
        BY <1>3, <3>3 DEF Quiet, HasConv
      <3>5. QED
        BY <2>1, <3>1, <3>2, <3>3, <3>4, GoesOnOK
    <2>4. QED
      BY <2>2, <2>3
  <1>6. CASE LeaveAllRows(s)
    <2>1. /\ member' = [c \in Convs |-> IF c \in r.todo THEN member[c] \ {r.user}
                                                        ELSE member[c]]
          /\ Step(s, "count") /\ UNCHANGED <<conv, log, read, known, overlap, left>>
      BY <1>1, <1>6 DEF LeaveAllRows, history
    <2>2. /\ member' \in [Convs -> SUBSET Users]
          /\ \A c \in Convs : member'[c] \subseteq member[c]
      BY <1>2, <2>1 DEF TablesTyped
    <2>3. TablesOK' /\ Onward
      BY <1>2, <2>1, <2>2, RoomsOK DEF TablesOK, TablesTyped, LastInside, MembersKnown
    <2>4. QED
      BY <1>2, <1>4, <2>1, <2>3, BoundsStay
  <1>7. CASE LeaveAllCount(s)
    <2>1. TablesOK' /\ Onward /\ BoundsOK'
      BY <1>2, <1>7, OnlyReqOK DEF LeaveAllCount
    <2>2. CASE Done(s)
      BY <2>1, <2>2, EndsOK
    <2>3. CASE ~Done(s)
      <3>1. PICK c \in r.todo :
              Goto(s, [r EXCEPT !.todo = @ \ {c}, !.conv = c,
                                !.pc = IF member[c] = {} THEN "messages" ELSE @])
        BY <1>1, <1>7, <2>3 DEF LeaveAllCount
      <3>2. PICK pc : pc = IF member[c] = {} THEN "messages" ELSE r.pc
        OBVIOUS
      <3>3. PICK q : q = [r EXCEPT !.todo = r.todo \ {c}, !.conv = c, !.pc = pc]
        OBVIOUS
      <3>4. c \in Convs /\ c \in 0..MaxConvs /\ r.todo \ {c} \in SUBSET Convs
        BY <1>3 DEF Convs
      <3>5. pc \in Pcs \cup {"idle"}
        BY <1>2, <3>2 DEF Request, Pcs
      <3>6. q \in Request /\ q.op = "leaveAll" /\ q.conv = c /\ q.user = r.user
        BY <1>2, <1>3, <3>3, <3>4, <3>5 DEF Request
      <3>7. Goto(s, q)
        BY <3>1, <3>2, <3>3
      <3>8. Quiet(q) /\ q.conv \in Convs /\ q.user \in Users /\ q.op \notin {"add", "remove"}
        BY <1>3, <3>4, <3>6 DEF Quiet
      <3>9. QED
        BY <2>1, <3>6, <3>7, <3>8, GoesOnOK
    <2>4. QED
      BY <2>2, <2>3
  <1>8. CASE LeaveAllMessages(s)
    <2>1. r.conv \in Convs /\ UNCHANGED <<conv, member, read, known, overlap, left>>
      BY <1>1, <1>3, <1>8 DEF LeaveAllMessages, At, history
    <2>2. CASE conv[r.conv].last = 0
      <3>1. log' = Erase(log, r.conv) /\ Step(s, "destroy")
        BY <1>1, <1>8, <2>2 DEF LeaveAllMessages
      <3>2. TablesOK' /\ Onward
        BY <1>2, <2>1, <2>2, <3>1, EraseOK DEF TablesTyped
      <3>3. "destroy" \in Pcs /\ req[s].conv \in Convs /\ Quiet(req[s])
        BY <1>1, <1>3, <2>1 DEF Pcs
      <3>4. QED
        BY <1>2, <2>1, <3>1, <3>2, <3>3, MovesOK, BoundsStay
    <2>3. CASE conv[r.conv].last # 0
      <3>1. UNCHANGED log /\ Done(s)
        BY <1>1, <1>8, <2>3 DEF LeaveAllMessages
      <3>2. QED
        BY <1>2, <2>1, <3>1, TablesStay, BoundsStay, EndsOK DEF TablesTyped
    <2>4. QED
      BY <2>2, <2>3
  <1>9. CASE LeaveAllDestroy(s)
    <2>1. /\ r.conv \in Convs /\ Destroy(r.conv) /\ UNCHANGED <<read, known, overlap, left>>
          /\ Done(s) \/ Step(s, "count")
      BY <1>1, <1>3, <1>9 DEF LeaveAllDestroy, At, history
    <2>2. TablesOK' /\ Onward /\ BoundsOK'
      BY <1>2, <2>1, DestroyOK, BoundsStay
    <2>3. QED
      BY <1>4, <2>1, <2>2, EndsOK
  <1>10. QED
    BY <1>5, <1>6, <1>7, <1>8, <1>9

\* createConversation and deleteChannel
LEMMA ChannelOK ==
    ASSUME Inv, NEW s \in Slots,
           CreateInsert(s) \/ CreateOwner(s) \/ CreateMembers(s) \/ DropChannel(s)
    PROVE  Inv'
  <1>1. PICK r : r = req[s]
    OBVIOUS
  <1>2. r \in Request /\ HandlerOK(r) /\ TablesOK /\ TablesTyped /\ BoundsOK
    BY <1>1, InFlight
  <1>3. /\ r.op \in {"create", "drop"} /\ r.user \in Users /\ Quiet(r)
        /\ (r.op = "create" /\ r.pc = "load") \/ r.conv \in Convs
        /\ r.members \in SUBSET Users
        /\ r.op = "create" => r.room.type \in {"dm", "channel"}
    BY <1>1, <1>2 DEF CreateInsert, CreateOwner, CreateMembers, DropChannel, At,
                      HandlerOK, HasConv, Quiet, Request
  <1>4. CASE CreateInsert(s)
    <2>1. /\ r.op = "create" /\ InsertConv(r.room.type, r.user)
          /\ UNCHANGED <<member, log, read, known, overlap, left>>
      BY <1>1, <1>4 DEF CreateInsert, At, history
    <2>2. TablesOK' /\ Onward /\ BoundsOK' /\ Fresh \in Convs
      BY <1>2, <1>3, <2>1, InsertConvOK, BoundsStay
    <2>3. PICK q : q = [r EXCEPT !.pc = "insert", !.conv = Fresh]
      OBVIOUS
    <2>4. Goto(s, q) /\ Fresh \in 0..MaxConvs
      BY <1>1, <1>4, <2>2, <2>3 DEF CreateInsert, Convs
    <2>5. /\ q \in Request /\ q.op = r.op /\ q.user = r.user /\ q.conv = Fresh
          /\ q.room = r.room
      BY <1>2, <2>3, <2>4 DEF Request, Pcs
    <2>6. Quiet(q) /\ q.conv \in Convs /\ q.user \in Users /\ q.op \notin {"add", "remove"}
      BY <1>3, <2>2, <2>5 DEF Quiet
    <2>7. QED
      BY <2>2, <2>4, <2>5, <2>6, GoesOnOK
  <1>5. CASE CreateOwner(s) \/ CreateMembers(s)
    <2>1. /\ r.conv \in Convs /\ UNCHANGED <<conv, log, read, overlap, left>>
          /\ Done(s) \/ Step(s, "members")
          /\ \/ UNCHANGED <<member, known>>
             \/ \E S \in SUBSET Users : SetMembers(r.conv, member[r.conv] \cup S)
      <3>1. {r.user} \in SUBSET Users /\ r.members \in SUBSET Users
        BY <1>3
      <3>2. QED
        BY <1>1, <1>3, <1>5, <3>1 DEF CreateOwner, CreateMembers, At
    <2>2. \A S \in SUBSET Users : member[r.conv] \cup S \in SUBSET Users
      BY <1>2, <2>1 DEF TablesTyped
    <2>3. TablesOK' /\ Onward /\ BoundsOK'
      BY <1>2, <2>1, <2>2, SetMembersOK, TablesStay, BoundsStay DEF TablesTyped
    <2>4. "members" \in Pcs /\ req[s].conv \in Convs /\ Quiet(req[s])
      BY <1>1, <1>3, <2>1 DEF Pcs
    <2>5. QED
      BY <2>1, <2>3, <2>4, EndsOK, MovesOK
  <1>6. CASE DropChannel(s)
    <2>1. /\ r.conv \in Convs /\ Destroy(r.conv) /\ Done(s)
          /\ UNCHANGED <<read, known, overlap, left>>
      BY <1>1, <1>3, <1>6 DEF DropChannel, At, history
    <2>2. TablesOK' /\ Onward /\ BoundsOK'
      BY <1>2, <2>1, DestroyOK, BoundsStay
    <2>3. QED
      BY <2>1, <2>2, EndsOK
  <1>7. QED
    BY <1>4, <1>5, <1>6

\* A handler cut short
LEMMA FailOK ==
    ASSUME Inv, NEW s \in Slots, Fail(s)
    PROVE  Inv'
  <1>1. TablesOK /\ BoundsOK /\ UNCHANGED <<conv, member, log, read, known, overlap>>
    BY DEF Fail, Inv, tables, history
  <1>2. TablesOK' /\ Onward
    BY <1>1, TablesStay DEF TablesOK, TablesTyped
  <1>3. BoundsOK'
    BY <1>1, ConversationsAssumption DEF Fail, BoundsOK
  <1>4. QED
    BY <1>2, <1>3, EndsOK DEF Fail

-----------------------------------------------------------------------------
(* The invariant holds, and what follows from it *)

LEMMA InitOK == Init => Inv
  <1>1. SUFFICES ASSUME Init PROVE Inv
    OBVIOUS
  <1>2. TablesTyped
    BY <1>1, ConversationsAssumption DEF Init, TablesTyped, NoConv, ConvRow
  <1>3. LastInside /\ OnlyMembersSpeak /\ MembersKnown
    BY <1>1 DEF Init, LastInside, NoConv, OnlyMembersSpeak, MembersKnown
  <1>4. HandlersOK
    <2>1. \A s \in Slots : req[s] = NoRequest
      BY <1>1 DEF Init
    <2>2. QED
      BY <1>1, <2>1, NoRequestOK DEF Init, HandlersOK
  <1>5. BoundsOK
    <2>1. /\ left = [requests |-> MaxRequests, faults |-> MaxFaults] /\ overlap = FALSE
          /\ MaxRequests \in 0..MaxRequests /\ MaxFaults \in 0..MaxFaults
      BY <1>1, ConversationsAssumption DEF Init
    <2>2. QED
      BY <2>1 DEF BoundsOK
  <1>6. QED
    BY <1>2, <1>3, <1>4, <1>5 DEF Inv, TablesOK

LEMMA NextOK == Inv /\ [Next]_vars => Inv'
  <1>1. SUFFICES ASSUME Inv, [Next]_vars PROVE Inv'
    OBVIOUS
  <1>2. CASE UNCHANGED vars
    <2>1. UNCHANGED req /\ TablesOK' /\ Onward /\ BoundsOK'
      BY <1>1, <1>2, TablesStay, BoundsStay DEF vars, Inv, TablesOK, TablesTyped
    <2>2. HandlersOK'
      <3>1. \A s \in Slots : \A r : r = req[s] => HandlerOK(r)'
        BY <1>1, <2>1, HandlerStays DEF Inv, HandlersOK
      <3>2. QED
        BY <1>1, <2>1, <3>1 DEF Inv, HandlersOK
    <2>3. QED
      BY <2>1, <2>2 DEF Inv
  <1>3. ASSUME NEW s \in Slots, ClientRequest(s) PROVE Inv'
    BY <1>1, <1>3, ClientRequestOK
  <1>4. ASSUME NEW s \in Slots, HandlerStep(s) PROVE Inv'
    BY <1>1, <1>4, SendOK, OpenOK, ForwardOK, EditOK, DeleteOK, RosterOK, MarkOK,
       LeaveOK, LeaveAllOK, ChannelOK DEF HandlerStep
  <1>5. ASSUME NEW s \in Slots, Fail(s) PROVE Inv'
    BY <1>1, <1>5, FailOK
  <1>6. QED
    BY <1>1, <1>2, <1>3, <1>4, <1>5 DEF Next

LEMMA InvAlways == Spec => []Inv
  BY InitOK, NextOK, PTL DEF Spec

\* Every variable of the chat keeps its type: the rows ChatService writes, and
\* what its handlers carry over their awaits, for any users and bounds
THEOREM TypeCorrect == Spec => []TypeOK
  <1>1. Inv => TypeOK
    BY DEF Inv, TablesOK, TablesTyped, HandlersOK, BoundsOK, TypeOK
  <1>2. QED
    BY <1>1, InvAlways, PTL

\* The lastMessage that sendMessage, editMessage and the cascades of a deleted
\* conversation leave behind is a message of that conversation still in
\* chat_messages, however many handlers are in flight and wherever they fail
THEOREM LastInsideAlways == Spec => []LastInside
  <1>1. Inv => LastInside
    BY DEF Inv, TablesOK
  <1>2. QED
    BY <1>1, InvAlways, PTL

\* What was written or forwarded into a conversation is by somebody who has had
\* a row of its conversation_members: the isMember test that sendMessage,
\* forwardMessage and findOrCreateDirectConversation make before the insert is
\* about the conversation the insert is for, in every interleaving
THEOREM OnlyMembersAlways == Spec => []OnlyMembersSpeak
  <1>1. Inv => OnlyMembersSpeak
    BY DEF Inv, TablesOK
  <1>2. QED
    BY <1>1, InvAlways, PTL

-----------------------------------------------------------------------------
(* As long as requests have not overlapped: the sole handler in flight finds *)
(* the tables as it has read them, and on that rest the properties that a    *)
(* second handler may break.                                                 *)

\* At most one handler is in flight
Alone == \A s, t \in Slots : req[s] # NoRequest /\ req[t] # NoRequest => s = t

\* m is the greatest of S
Tops(m, S) == m \in S /\ \A n \in S : n <= m

TextsIn(c) == {m \in PostsIn(c) : log[m].kind = "text"}

Same(row, post) == /\ row.conv = post.conv /\ row.author = post.author
                   /\ row.kind = post.kind

\* What a handler has read is what the tables hold
Current(r) ==
    /\ r.op = "send" /\ r.pc \in {"insert", "save"} =>
         Exists(r.conv) /\ r.members = member[r.conv]
    /\ r.op = "send" /\ r.pc = "save" => Tops(r.msg, TextsIn(r.conv))
    /\ r.op \in {"open", "write"} /\ r.pc = "members" =>
         conv[r.conv].type = "dm" /\ member[r.conv] = {}
    /\ HasRow(r) => IsPost(r.msg) /\ Same(r.row, log[r.msg])
    /\ r.op = "edit" /\ r.pc # "load" =>
         /\ r.row.deleted = log[r.msg].deleted
         /\ r.members = member[r.conv]
         /\ r.pc = "row" => r.room = conv[r.conv]
         /\ r.pc = "conv" => r.msg = conv[r.conv].last
    /\ r.op = "delete" /\ r.pc # "load" => r.row.deleted
    /\ r.op \in {"add", "remove"} => Exists(r.conv)
    /\ r.op = "create" /\ r.pc # "load" => Exists(r.conv)
    /\ r.op = "mark" /\ r.pc # "load" => Tops(r.msg, PostsIn(r.conv))
    /\ r.op = "leaveAll" /\ r.pc \in {"messages", "destroy"} => member[r.conv] = {}

HandlerCurrent == \A s \in Slots : Current(req[s])

\* A conversation that is still to come has nobody and nothing in it
BlankOnes == \A c \in Convs :
               conv[c].type = "none" => member[c] = {} /\ PostsIn(c) = {}

\* No pointer of a reader is ahead of the messages
PointersBehind ==
    \A c \in Convs, u \in Users :
      /\ read[c][u] = 0 \/ read[c][u] \in DOMAIN log
      /\ PostsIn(c) # {} => \E m \in PostsIn(c) : read[c][u] <= m

DataOK == BlankOnes /\ PointersBehind

\* lastMessage is the newest text
Shown(c) == \/ TextsIn(c) = {} /\ conv[c].last = 0
            \/ Tops(conv[c].last, TextsIn(c))

AllShown == \A c \in Convs : Exists(c) => Shown(c)

\* ... but for the message that sendMessage has inserted and not yet shown
Pending(r, c) == r.op = "send" /\ r.pc = "save" /\ r.conv = c

Showing ==
    left.faults = MaxFaults =>
      \A c \in Convs : Exists(c) => Shown(c) \/ \E s \in Slots : Pending(req[s], c)

Serial == Alone /\ HandlerCurrent /\ DataOK /\ Showing

SerialInv == Inv /\ (~overlap => Serial)

-----------------------------------------------------------------------------
(* What a step keeps *)

KeepsDeleted == \A m \in DOMAIN log : log[m].deleted /\ IsPost(m)' => log'[m].deleted

KeepsRead == \A c \in Convs, u \in Users : read'[c][u] >= read[c][u]

KeepsMarked == \A c \in Convs, u \in Users :
                 read'[c][u] # read[c][u] => UnreadIn(u, c)' = {}

KeepsRooms == Rooms!Change \/ UNCHANGED <<member, Visible>>

Keeps == KeepsDeleted /\ KeepsRead /\ KeepsMarked /\ KeepsRooms

-----------------------------------------------------------------------------
(* What each database call keeps *)

\* The greatest of a set of messages is what Newest chooses
LEMMA TopIsNewest ==
    ASSUME TablesTyped, NEW S, S \subseteq DOMAIN log, NEW m, Tops(m, S)
    PROVE  Newest(S) = m
  <1>1. Newest(S) \in S /\ \A n \in S : n <= Newest(S)
    BY NewestPost DEF Tops
  <1>2. Len(log) \in Nat /\ DOMAIN log = 1..Len(log)
    BY DEF TablesTyped
  <1>3. m \in Nat /\ Newest(S) \in Nat /\ m <= Newest(S) /\ Newest(S) <= m
    BY <1>1, <1>2 DEF Tops
  <1>4. QED
    BY <1>3

\* Reads are numbers, so a pointer that stays does not go back
LEMMA ReadStays ==
    ASSUME TablesTyped, UNCHANGED read
    PROVE  KeepsRead /\ KeepsMarked
  <1>1. \A c \in Convs, u \in Users : read[c][u] \in Int
    BY ConversationsAssumption DEF TablesTyped
  <1>2. QED
    BY <1>1 DEF KeepsRead, KeepsMarked

\* No message is written: only people move, or nothing does
LEMMA MessagesStay ==
    ASSUME UNCHANGED log
    PROVE  /\ KeepsDeleted /\ UNCHANGED Visible
           /\ \A c \in Convs : PostsIn(c)' = PostsIn(c) /\ TextsIn(c)' = TextsIn(c)
  BY DEF KeepsDeleted, Visible, PostsIn, TextsIn

LEMMA NothingMoves ==
    ASSUME TablesTyped, DataOK, UNCHANGED <<conv, member, log, read>>
    PROVE  DataOK' /\ Keeps /\ (AllShown => AllShown')
  <1>1. DataOK'
    BY DEF DataOK, BlankOnes, PointersBehind, PostsIn
  <1>2. Keeps
    BY ReadStays, MessagesStay DEF Keeps, KeepsRooms
  <1>3. AllShown => AllShown'
    BY DEF AllShown, Exists, Shown, Tops, TextsIn, PostsIn
  <1>4. QED
    BY <1>1, <1>2, <1>3

LEMMA DepartKeeps ==
    ASSUME TablesTyped, DataOK, NEW u \in Users, NEW C \in SUBSET Convs,
           member' = [c \in Convs |-> IF c \in C THEN member[c] \ {u} ELSE member[c]],
           UNCHANGED <<conv, log, read>>
    PROVE  DataOK' /\ Keeps /\ (AllShown => AllShown')
  <1>1. DataOK'
    BY DEF DataOK, BlankOnes, PointersBehind, PostsIn
  <1>2. Rooms!Depart
    BY MessagesStay DEF Rooms!Depart
  <1>3. Keeps
    BY <1>2, ReadStays, MessagesStay DEF Keeps, KeepsRooms, Rooms!Change
  <1>4. AllShown => AllShown'
    BY DEF AllShown, Exists, Shown, Tops, TextsIn, PostsIn
  <1>5. QED
    BY <1>1, <1>3, <1>4

LEMMA EnterKeeps ==
    ASSUME TablesTyped, DataOK, NEW c \in Convs, NEW S \in SUBSET Users,
           member' = [member EXCEPT ![c] = member[c] \cup S], conv[c].type # "none",
           UNCHANGED <<conv, log, read>>
    PROVE  DataOK' /\ Keeps /\ (AllShown => AllShown')
  <1>1. \A d \in Convs : member'[d] = IF d = c THEN member[c] \cup S ELSE member[d]
    BY DEF TablesTyped
  <1>3. BlankOnes' /\ PointersBehind'
    BY <1>1 DEF DataOK, BlankOnes, PointersBehind, PostsIn
  <1>4. Rooms!Enter
    BY MessagesStay DEF Rooms!Enter
  <1>5. Keeps
    BY <1>4, ReadStays, MessagesStay DEF Keeps, KeepsRooms, Rooms!Change
  <1>6. AllShown => AllShown'
    BY DEF AllShown, Exists, Shown, Tops, TextsIn, PostsIn
  <1>7. QED
    BY <1>3, <1>5, <1>6 DEF DataOK

\* A conversation is inserted, and nobody is in it
LEMMA BornKeeps ==
    ASSUME TablesTyped, DataOK, NEW type \in {"dm", "channel"}, NEW u \in Users,
           InsertConv(type, u), UNCHANGED <<member, log, read>>
    PROVE  /\ DataOK' /\ Keeps /\ (AllShown => AllShown')
           /\ Fresh \in Convs /\ conv'[Fresh].type = type /\ member'[Fresh] = {}
           /\ \A d \in Convs \ {Fresh} : conv'[d] = conv[d]
  <1>1. PICK c : c = Fresh
    OBVIOUS
  <1>2. PICK row : row = [NoConv EXCEPT !.type = type, !.by = u]
    OBVIOUS
  <1>3. c \in Convs /\ conv[c].type = "none" /\ conv' = [conv EXCEPT ![c] = row]
    BY <1>1, <1>2, FreshConv DEF InsertConv
  <1>4. row.type = type /\ row.last = 0
    BY <1>2 DEF NoConv
  <1>5. \A d \in Convs : conv'[d] = IF d = c THEN row ELSE conv[d]
    BY <1>3 DEF TablesTyped
  <1>6. member[c] = {} /\ PostsIn(c) = {}
    BY <1>3 DEF DataOK, BlankOnes
  <1>7. DataOK'
    BY <1>4, <1>5, <1>6 DEF DataOK, BlankOnes, PointersBehind, PostsIn
  <1>8. Keeps
    BY ReadStays, MessagesStay DEF Keeps, KeepsRooms
  <1>9. AllShown => AllShown'
    BY <1>4, <1>5, <1>6 DEF AllShown, Exists, Shown, Tops, TextsIn, PostsIn
  <1>10. QED
    BY <1>1, <1>3, <1>4, <1>5, <1>6, <1>7, <1>8, <1>9

\* A message appears at the end of the log
LEMMA Appended ==
    ASSUME TablesTyped, NEW row, log' = Append(log, row)
    PROVE  LET n == Len(log) + 1 IN
           /\ n \in Nat /\ n \notin DOMAIN log /\ DOMAIN log' = DOMAIN log \cup {n}
           /\ \A m \in DOMAIN log : log'[m] = log[m] /\ m \in Nat /\ m < n
           /\ log'[n] = row
           /\ \A d : PostsIn(d)' = IF d = row.conv THEN PostsIn(d) \cup {n} ELSE PostsIn(d)
  <1> DEFINE n == Len(log) + 1
  <1>1. log \in Seq(PostRow) /\ Len(log) \in Nat /\ DOMAIN log = 1..Len(log)
    BY DEF TablesTyped
  <1>2. /\ DOMAIN log' = 1..n /\ log'[n] = row
        /\ \A m \in DOMAIN log : log'[m] = log[m]
    BY <1>1
  <1>3. n \in Nat /\ n \notin DOMAIN log /\ DOMAIN log' = DOMAIN log \cup {n}
    BY <1>1, <1>2
  <1>4. \A m \in DOMAIN log : m \in Nat /\ m < n
    BY <1>1
  <1>5. \A d : PostsIn(d)' = IF d = row.conv THEN PostsIn(d) \cup {n} ELSE PostsIn(d)
    <2> HIDE DEF n
    <2> QED BY <1>2, <1>3 DEF PostsIn
  <1>6. QED
    BY <1>2, <1>3, <1>4, <1>5

LEMMA InsertPostKeeps ==
    ASSUME TablesTyped, DataOK, NEW c \in Convs, NEW u \in Users,
           NEW kind \in {"text", "forward", "join", "leave"},
           InsertPost(c, u, kind), UNCHANGED <<conv, member, read>>
    PROVE  /\ DataOK' /\ Keeps
           /\ kind # "text" => (AllShown => AllShown')
           /\ \A n : Exists(c) /\ kind = "text" /\ n = Len(log) + 1 =>
                    Tops(n, TextsIn(c))'
           /\ AllShown => \A d \in Convs \ {c} : Exists(d) => Shown(d)'
  <1>1. CASE ~Exists(c)
    <2>1. log' = log
      BY <1>1 DEF InsertPost
    <2>2. QED
      BY <1>1, <2>1, NothingMoves DEF AllShown, Exists
  <1>2. CASE Exists(c)
    <2>1. PICK n : n = Len(log) + 1
      OBVIOUS
    <2>2. PICK row : row = Post(c, u, kind)
      OBVIOUS
    <2>3. log' = Append(log, row) /\ n \in Posts
      <3>1. Len(log) < MaxLog /\ Len(log) \in Nat
        BY DEF InsertPost, TablesTyped
      <3>2. QED
        BY <1>2, <2>1, <2>2, <3>1, ConversationsAssumption DEF InsertPost, Posts
    <2>4. row.conv = c /\ row.kind = kind /\ row.deleted = FALSE
      BY <2>2 DEF Post
    <2>5. /\ n \in Nat /\ n \notin DOMAIN log /\ DOMAIN log' = DOMAIN log \cup {n}
          /\ \A m \in DOMAIN log : log'[m] = log[m] /\ m \in Nat /\ m < n
          /\ log'[n] = row
          /\ \A d : PostsIn(d)' = IF d = c THEN PostsIn(d) \cup {n} ELSE PostsIn(d)
      BY <2>1, <2>3, <2>4, Appended
    <2>6. DataOK'
      <3>2. BlankOnes'
        BY <1>2, <2>5 DEF DataOK, BlankOnes, Exists
      <3>3. PointersBehind'
        <4>1. SUFFICES ASSUME NEW d \in Convs, NEW v \in Users
                       PROVE  /\ read[d][v] = 0 \/ read[d][v] \in DOMAIN log'
                              /\ PostsIn(d)' # {} => \E m \in PostsIn(d)' : read[d][v] <= m
          BY DEF PointersBehind
        <4>2. read[d][v] = 0 \/ read[d][v] \in DOMAIN log
          BY DEF DataOK, PointersBehind
        <4>3. read[d][v] <= n
          BY <2>5, <4>2
        <4>4. CASE d = c
          BY <2>5, <4>2, <4>3, <4>4
        <4>5. CASE d # c
          BY <2>5, <4>5 DEF DataOK, PointersBehind
        <4>6. QED
          BY <4>4, <4>5
      <3>4. QED
        BY <3>2, <3>3 DEF DataOK
    <2>7. Rooms!Say
      <3>1. \A d \in Convs : n \notin Visible[d]
        BY <2>5 DEF Visible, PostsIn
      <3>2. Visible' = [Visible EXCEPT ![c] = @ \cup {n}]
        <4>1. \A d \in Convs : Visible'[d] = IF d = c THEN Visible[d] \cup {n} ELSE Visible[d]
          <5>1. \A d \in Convs : Visible'[d] = {m \in PostsIn(d)' : ~log'[m].deleted}
            BY DEF Visible
          <5>2. \A d \in Convs : PostsIn(d) \subseteq DOMAIN log
            BY DEF PostsIn
          <5>3. QED
            BY <2>4, <2>5, <5>1, <5>2 DEF Visible
        <4>2. QED
          BY <4>1 DEF Visible
      <3>3. QED
        BY <2>3, <3>1, <3>2 DEF Rooms!Say, Rooms!Grow
    <2>8. KeepsDeleted
      BY <2>5 DEF KeepsDeleted
    <2>9. Keeps
      BY <2>7, <2>8, ReadStays DEF Keeps, KeepsRooms, Rooms!Change
    <2>10. \A d \in Convs : TextsIn(d)' = IF d = c /\ kind = "text" THEN TextsIn(d) \cup {n}
                                                                    ELSE TextsIn(d)
      <3>1. \A d \in Convs : PostsIn(d) \subseteq DOMAIN log
        BY DEF PostsIn
      <3>2. QED
        BY <2>4, <2>5, <3>1 DEF TextsIn
    <2>11. Tops(n, TextsIn(c))' \/ kind # "text"
      <3>1. \A m \in TextsIn(c) : m \in Nat /\ m < n
        BY <2>5 DEF TextsIn, PostsIn
      <3>2. kind = "text" => n \in TextsIn(c)' /\ \A m \in TextsIn(c)' : m <= n
        BY <2>5, <2>10, <3>1
      <3>3. QED
        BY <3>2 DEF Tops
    <2>12. AllShown => \A d \in Convs : Exists(d) /\ (d # c \/ kind # "text") => Shown(d)'
      BY <2>10 DEF AllShown, Shown, Tops
    <2>13. kind # "text" => (AllShown => AllShown')
      BY <2>12 DEF AllShown, Exists
    <2>14. QED
      BY <2>1, <2>6, <2>9, <2>11, <2>12, <2>13
  <1>3. QED
    BY <1>1, <1>2

\* A message is saved over itself: what it says of where and by whom is as it
\* was, and deleted is as it was or TRUE
LEMMA SavePostKeeps ==
    ASSUME TablesTyped, DataOK, NEW m, NEW row, IsPost(m), Same(row, log[m]),
           row \in PostRow, log[m].deleted => row.deleted,
           SavePost(m, row), UNCHANGED <<conv, member, read>>
    PROVE  /\ DataOK' /\ Keeps /\ (AllShown => AllShown')
           /\ IsPost(m)' /\ log'[m] = row
           /\ \A c \in Convs : PostsIn(c)' = PostsIn(c) /\ TextsIn(c)' = TextsIn(c)
  <1>1. m \in DOMAIN log /\ log' = [log EXCEPT ![m] = row]
    BY DEF SavePost, IsPost
  <1>2. /\ DOMAIN log' = DOMAIN log
        /\ \A n \in DOMAIN log : log'[n] = IF n = m THEN row ELSE log[n]
    BY <1>1 DEF TablesTyped
  <1>3. \A c \in Convs : PostsIn(c)' = PostsIn(c) /\ TextsIn(c)' = TextsIn(c)
    BY <1>2 DEF PostsIn, TextsIn, Same
  <1>4. DataOK'
    BY <1>2, <1>3 DEF DataOK, BlankOnes, PointersBehind
  <1>5. KeepsRooms
    <2>1. CASE row.deleted = log[m].deleted
      <3>1. \A n \in DOMAIN log : log'[n].deleted = log[n].deleted
        BY <1>2, <2>1
      <3>2. \A c \in Convs : PostsIn(c) \subseteq DOMAIN log
        BY DEF PostsIn
      <3>3. UNCHANGED Visible
        BY <1>3, <3>1, <3>2 DEF Visible
      <3>4. QED
        BY <3>3 DEF KeepsRooms
    <2>2. CASE row.deleted
      <3>1. PICK c : c = log[m].conv
        OBVIOUS
      <3>2. c \in Convs /\ m \in Posts
        <4>1. m \in 1..Len(log) /\ Len(log) \in Nat /\ Len(log) <= MaxLog
          BY <1>1 DEF TablesTyped
        <4>2. QED
          BY <1>1, <3>1, <4>1, PostTyped, ConversationsAssumption DEF Posts
      <3>3. \A d \in Convs : m \in PostsIn(d) => d = c
        BY <3>1 DEF PostsIn
      <3>4. Visible' = [Visible EXCEPT ![c] = @ \ {m}]
        <4>1. \A d \in Convs : Visible'[d] = IF d = c THEN Visible[d] \ {m} ELSE Visible[d]
          <5>1. \A d \in Convs : Visible'[d] = {n \in PostsIn(d)' : ~log'[n].deleted}
            BY DEF Visible
          <5>2. \A d \in Convs : PostsIn(d) \subseteq DOMAIN log
            BY DEF PostsIn
          <5>3. QED
            BY <1>2, <1>3, <2>2, <3>3, <5>1, <5>2 DEF Visible
        <4>2. QED
          BY <4>1 DEF Visible
      <3>5. QED
        BY <3>2, <3>4 DEF KeepsRooms, Rooms!Change, Rooms!TakeDown
    <2>3. row.deleted \in BOOLEAN /\ log[m].deleted \in BOOLEAN
      BY <1>1, PostTyped DEF PostRow
    <2>4. QED
      BY <2>1, <2>2, <2>3
  <1>6. KeepsDeleted
    BY <1>2 DEF KeepsDeleted
  <1>7. AllShown => AllShown'
    BY <1>3 DEF AllShown, Exists, Shown, Tops
  <1>8. IsPost(m)' /\ log'[m] = row
    BY <1>1, <1>2 DEF IsPost, Same
  <1>9. QED
    BY <1>3, <1>4, <1>5, <1>6, <1>7, <1>8, ReadStays DEF Keeps

\* The conversation is saved with the members it has
LEMMA SaveConvKeeps ==
    ASSUME TablesTyped, DataOK, NEW c \in Convs, NEW last,
           SaveConv(c, last, member[c]), UNCHANGED <<log, read>>
    PROVE  /\ DataOK' /\ Keeps /\ UNCHANGED member
           /\ \A d \in Convs : /\ conv'[d].type = conv[d].type
                               /\ conv'[d].last = IF d = c THEN last ELSE conv[d].last
           /\ \A d \in Convs : TextsIn(d)' = TextsIn(d)
  <1>1. UNCHANGED member
    BY DEF SaveConv, SetMembers, TablesTyped
  <1>2. \A d \in Convs : /\ conv'[d].type = conv[d].type
                         /\ conv'[d].last = IF d = c THEN last ELSE conv[d].last
    <2>1. conv' = [conv EXCEPT ![c] = [conv[c] EXCEPT !.last = last]]
      BY DEF SaveConv
    <2>2. conv[c] \in ConvRow
      BY DEF TablesTyped
    <2>3. PICK row : row = [conv[c] EXCEPT !.last = last]
      OBVIOUS
    <2>4. row.type = conv[c].type /\ row.last = last
      BY <2>2, <2>3 DEF ConvRow
    <2>5. QED
      BY <2>1, <2>3, <2>4 DEF TablesTyped
  <1>3. DataOK'
    BY <1>1, <1>2 DEF DataOK, BlankOnes, PointersBehind, PostsIn
  <1>4. Keeps
    BY <1>1, ReadStays, MessagesStay DEF Keeps, KeepsRooms
  <1>5. QED
    BY <1>1, <1>2, <1>3, <1>4, MessagesStay

\* The messages of a conversation go, with or without the conversation
LEMMA EraseKeeps ==
    ASSUME TablesTyped, DataOK, NEW c \in Convs, log' = Erase(log, c),
           member' = [member EXCEPT ![c] = {}],
           \A d \in Convs \ {c} : conv'[d] = conv[d],
           (conv'[c] = conv[c] /\ conv[c].last = 0) \/ conv'[c].type = "gone",
           UNCHANGED read
    PROVE  DataOK' /\ Keeps /\ (AllShown => AllShown')
  <1>1. /\ DOMAIN log' = DOMAIN log
        /\ \A m \in DOMAIN log :
             log'[m] = IF log[m].conv = c THEN [log[m] EXCEPT !.conv = 0] ELSE log[m]
    BY Erased
  <1>2. \A m \in DOMAIN log :
          /\ log'[m].conv = IF log[m].conv = c THEN 0 ELSE log[m].conv
          /\ log'[m].kind = log[m].kind /\ log'[m].deleted = log[m].deleted
    <2>1. \A m \in DOMAIN log : log[m] \in PostRow
      BY PostTyped
    <2>2. QED
      BY <1>1, <2>1 DEF PostRow
  <1>3. \A d \in Convs : PostsIn(d)' = IF d = c THEN {} ELSE PostsIn(d)
    BY <1>1, <1>2 DEF PostsIn, Convs
  <1>4. \A d \in Convs : TextsIn(d)' = IF d = c THEN {} ELSE TextsIn(d)
    BY <1>1, <1>2, <1>3 DEF TextsIn, PostsIn
  <1>5. \A d \in Convs : member'[d] = IF d = c THEN {} ELSE member[d]
    BY DEF TablesTyped
  <1>6. DataOK'
    <2>2. BlankOnes'
      BY <1>3, <1>5 DEF DataOK, BlankOnes
    <2>3. PointersBehind'
      BY <1>1, <1>3 DEF DataOK, PointersBehind
    <2>4. QED
      BY <2>2, <2>3 DEF DataOK
  <1>7. Rooms!Close
    <2>1. \A d \in Convs : Visible'[d] = IF d = c THEN {} ELSE Visible[d]
      <3>1. \A d \in Convs : Visible'[d] = {n \in PostsIn(d)' : ~log'[n].deleted}
        BY DEF Visible
      <3>2. \A d \in Convs : PostsIn(d) \subseteq DOMAIN log
        BY DEF PostsIn
      <3>3. QED
        BY <1>2, <1>3, <3>1, <3>2 DEF Visible
    <2>2. Visible' = [Visible EXCEPT ![c] = {}]
      BY <2>1 DEF Visible
    <2>3. QED
      BY <2>2 DEF Rooms!Close
  <1>8. KeepsDeleted
    BY <1>2 DEF KeepsDeleted
  <1>9. Keeps
    BY <1>7, <1>8, ReadStays DEF Keeps, KeepsRooms, Rooms!Change
  <1>10. AllShown => AllShown'
    BY <1>4 DEF AllShown, Exists, Shown, Tops
  <1>11. QED
    BY <1>6, <1>9, <1>10

LEMMA DestroyKeeps ==
    ASSUME TablesTyped, DataOK, NEW c \in Convs, Destroy(c), UNCHANGED read
    PROVE  DataOK' /\ Keeps /\ (AllShown => AllShown')
           /\ (member[c] = {} => member'[c] = {})
  <1>1. CASE Exists(c) /\ Unread(c)
    <2>1. PICK row : row = [NoConv EXCEPT !.type = "gone"]
      OBVIOUS
    <2>2. /\ conv' = [conv EXCEPT ![c] = row] /\ log' = Erase(log, c)
          /\ member' = [member EXCEPT ![c] = {}]
      BY <1>1, <2>1 DEF Destroy
    <2>3. conv'[c].type = "gone" /\ \A d \in Convs \ {c} : conv'[d] = conv[d]
      <3>1. row.type = "gone"
        BY <2>1 DEF NoConv
      <3>2. QED
        BY <2>2, <3>1 DEF TablesTyped
    <2>4. member'[c] = {}
      BY <2>2 DEF TablesTyped
    <2>5. QED
      BY <2>2, <2>3, <2>4, EraseKeeps
  <1>2. CASE ~(Exists(c) /\ Unread(c))
    <2>1. UNCHANGED <<conv, member, log>>
      BY <1>2 DEF Destroy
    <2>2. QED
      BY <2>1, NothingMoves
  <1>3. QED
    BY <1>1, <1>2

\* The pointer goes to the newest message of the conversation
LEMMA SetReadKeeps ==
    ASSUME TablesTyped, DataOK, NEW c \in Convs, NEW u \in Users, NEW m,
           Tops(m, PostsIn(c)), SetRead(c, u, m), UNCHANGED <<conv, member, log>>
    PROVE  DataOK' /\ Keeps /\ (AllShown => AllShown')
  <1>1. /\ Len(log) \in Nat /\ DOMAIN log = 1..Len(log)
        /\ \A d \in Convs, v \in Users : read[d][v] \in Nat
    BY ConversationsAssumption DEF TablesTyped
  <1>2. \A d \in Convs, v \in Users :
          read'[d][v] = IF d = c /\ v = u THEN m ELSE read[d][v]
    BY DEF SetRead, TablesTyped
  <1>3. m \in DOMAIN log /\ m \in Nat /\ m <= m
    BY <1>1 DEF Tops, PostsIn
  <1>4. read[c][u] <= m
    <2>1. PICK n \in PostsIn(c) : read[c][u] <= n
      BY DEF DataOK, PointersBehind, Tops
    <2>2. n <= m /\ n \in Nat
      BY <1>1 DEF Tops, PostsIn
    <2>3. QED
      BY <1>1, <1>3, <2>1, <2>2
  <1>5. PointersBehind'
    <2>1. \A d \in Convs : PostsIn(d)' = PostsIn(d)
      BY MessagesStay
    <2>2. QED
      BY <1>2, <1>3, <2>1 DEF DataOK, PointersBehind, Tops
  <1>6. DataOK'
    BY <1>5 DEF DataOK, BlankOnes, PostsIn
  <1>7. KeepsRead
    BY <1>1, <1>2, <1>4 DEF KeepsRead
  <1>8. KeepsMarked
    <2>1. SUFFICES ASSUME NEW d \in Convs, NEW v \in Users, read'[d][v] # read[d][v]
                   PROVE  UnreadIn(v, d)' = {}
      BY DEF KeepsMarked
    <2>2. d = c /\ v = u /\ read'[d][v] = m
      BY <1>2, <2>1
    <2>3. \A n \in PostsIn(d)' : n <= m /\ n \in Nat
      BY <1>1, <2>2, MessagesStay DEF Tops, PostsIn
    <2>4. \A n \in PostsIn(d)' : ~(read'[d][v] < n)
      BY <1>3, <2>2, <2>3
    <2>5. QED
      BY <2>4 DEF UnreadIn
  <1>9. Keeps
    BY <1>7, <1>8, MessagesStay DEF Keeps, KeepsRooms
  <1>10. AllShown => AllShown'
    BY DEF AllShown, Exists, Shown, Tops, TextsIn, PostsIn
  <1>11. QED
    BY <1>6, <1>9, <1>10

-----------------------------------------------------------------------------
(* How the sole handler goes on *)

LEMMA NoRequestCurrent == Current(NoRequest) /\ Current(NoRequest)'
  BY DEF NoRequest, Current, HasRow

LEMMA SerialGoes ==
    ASSUME NEW s \in Slots, NEW q, Goto(s, q), Current(q)', req[s].op # "idle",
           HandlersOK, Alone, DataOK', UNCHANGED left,
           left.faults = MaxFaults =>
             \A c \in Convs : Exists(c)' => Shown(c)' \/ Pending(q, c)
    PROVE  Serial'
  <1>1. \A t \in Slots : req'[t] = IF t = s THEN q ELSE req[t]
    BY DEF Goto, HandlersOK
  <1>2. req[s] # NoRequest
    BY DEF NoRequest
  <1>3. \A t \in Slots : t # s => req'[t] = NoRequest
    BY <1>1, <1>2 DEF Alone
  <1>4. Alone'
    BY <1>3 DEF Alone
  <1>5. HandlerCurrent'
    <2>1. \A t \in Slots : \A r : r = req'[t] => Current(r)'
      BY <1>1, <1>3, NoRequestCurrent
    <2>2. QED
      BY <2>1 DEF HandlerCurrent
  <1>6. Showing'
    BY <1>1 DEF Showing
  <1>7. QED
    BY <1>4, <1>5, <1>6 DEF Serial

\* Nothing was pending when the handler in s, not about to show a message, is
\* the only one
LEMMA NonePending ==
    ASSUME NEW s \in Slots, Alone, Showing, req[s].op # "idle",
           ~(req[s].op = "send" /\ req[s].pc = "save"), left.faults = MaxFaults
    PROVE  AllShown
  <1>1. req[s] # NoRequest
    BY DEF NoRequest
  <1>2. \A t \in Slots : t # s => req[t] = NoRequest
    BY <1>1 DEF Alone
  <1>3. \A t \in Slots, c \in Convs : ~Pending(req[t], c)
    BY <1>2 DEF Pending, NoRequest
  <1>4. QED
    BY <1>3 DEF Showing, AllShown

LEMMA PlainGoes ==
    ASSUME NEW s \in Slots, NEW q, Goto(s, q), Current(q)', req[s].op # "idle",
           ~(req[s].op = "send" /\ req[s].pc = "save"),
           Inv, Serial, DataOK', AllShown => AllShown', UNCHANGED left
    PROVE  Serial'
  <1>1. left.faults = MaxFaults => AllShown'
    BY NonePending DEF Serial
  <1>2. left.faults = MaxFaults =>
          \A c \in Convs : Exists(c)' => Shown(c)' \/ Pending(q, c)
    BY <1>1 DEF AllShown
  <1>3. QED
    BY <1>2, SerialGoes DEF Inv, Serial

LEMMA PlainEnds ==
    ASSUME NEW s \in Slots, Done(s), req[s].op # "idle",
           ~(req[s].op = "send" /\ req[s].pc = "save"),
           Inv, Serial, DataOK', AllShown => AllShown', UNCHANGED left
    PROVE  Serial'
  BY PlainGoes, NoRequestCurrent DEF Done

\* What the handler in a slot finds
LEMMA Finds ==
    ASSUME Inv, Serial, NEW s \in Slots
    PROVE  /\ req[s] \in Request /\ HandlerOK(req[s]) /\ Current(req[s])
           /\ TablesOK /\ TablesTyped /\ DataOK
  BY InFlight DEF Serial, HandlerCurrent

\* Only reads
LEMMA OnlyReqKeeps ==
    ASSUME TablesTyped, DataOK, OnlyReq
    PROVE  /\ DataOK' /\ Keeps /\ (AllShown => AllShown')
           /\ UNCHANGED <<conv, member, log, left>>
  BY NothingMoves DEF OnlyReq, tables

-----------------------------------------------------------------------------
(* The handlers, by endpoint *)

LEMMA SendSerial ==
    ASSUME Inv, Serial, NEW s \in Slots, SendLoad(s) \/ SendInsert(s) \/ SendSave(s)
    PROVE  Serial' /\ Keeps
  <1>1. PICK r : r = req[s]
    OBVIOUS
  <1>2. /\ r \in Request /\ HandlerOK(r) /\ Current(r)
        /\ TablesOK /\ TablesTyped /\ DataOK
    BY <1>1, Finds
  <1>3. r.op = "send" /\ r.user \in Users /\ r.conv \in Convs
    BY <1>1, <1>2 DEF SendLoad, SendInsert, SendSave, At, HandlerOK, HasConv
  <1>4. CASE SendLoad(s)
    <2>1. /\ DataOK' /\ Keeps /\ (AllShown => AllShown')
          /\ UNCHANGED <<conv, member, log, left>> /\ r.pc = "load"
      BY <1>1, <1>2, <1>4, OnlyReqKeeps DEF SendLoad, At
    <2>2. CASE Done(s)
      BY <1>1, <1>3, <2>1, <2>2, PlainEnds
    <2>3. CASE ~Done(s)
      <3>1. PICK q : q = [r EXCEPT !.pc = "insert", !.room = conv[r.conv],
                                   !.members = member[r.conv]]
        OBVIOUS
      <3>2. Exists(r.conv) /\ Goto(s, q)
        BY <1>1, <1>4, <2>3, <3>1 DEF SendLoad
      <3>3. q.op = "send" /\ q.pc = "insert" /\ q.conv = r.conv /\ q.members = member[r.conv]
        BY <1>2, <1>3, <3>1 DEF Request
      <3>4. Current(q)'
        BY <2>1, <3>2, <3>3 DEF Current, Exists, HasRow
      <3>5. QED
        BY <1>1, <1>3, <2>1, <3>2, <3>4, PlainGoes
    <2>4. QED
      BY <2>2, <2>3
  <1>5. CASE SendInsert(s)
    <2>1. /\ r.pc = "insert" /\ InsertPost(r.conv, r.user, "text")
          /\ UNCHANGED <<conv, member, read, left>>
      BY <1>1, <1>5 DEF SendInsert, At
    <2>2. Exists(r.conv) /\ r.members = member[r.conv]
      BY <1>2, <1>3, <2>1 DEF Current
    <2>3. PICK n : n = Len(log) + 1
      OBVIOUS
    <2>4. /\ DataOK' /\ Keeps /\ Tops(n, TextsIn(r.conv))'
          /\ AllShown => \A d \in Convs \ {r.conv} : Exists(d) => Shown(d)'
      BY <1>2, <1>3, <2>1, <2>2, <2>3, InsertPostKeeps
    <2>5. PICK q : q = [r EXCEPT !.pc = "save", !.msg = n]
      OBVIOUS
    <2>6. Goto(s, q)
      BY <1>1, <1>5, <2>2, <2>3, <2>5 DEF SendInsert
    <2>7. /\ q.op = "send" /\ q.pc = "save" /\ q.conv = r.conv /\ q.msg = n
          /\ q.members = r.members
      BY <1>2, <1>3, <2>5 DEF Request
    <2>8. Current(q)'
      BY <2>1, <2>2, <2>4, <2>7 DEF Current, Exists, HasRow
    <2>9. left.faults = MaxFaults =>
            \A c \in Convs : Exists(c)' => Shown(c)' \/ Pending(q, c)
      <3>1. left.faults = MaxFaults => AllShown
        BY <1>1, <1>3, <2>1, NonePending DEF Serial
      <3>2. QED
        BY <2>1, <2>4, <2>7, <3>1 DEF Pending, Exists
    <2>10. QED
      BY <1>1, <1>3, <2>1, <2>4, <2>6, <2>8, <2>9, SerialGoes DEF Serial, Inv
  <1>6. CASE SendSave(s)
    <2>1. r.pc = "save" /\ Done(s) /\ UNCHANGED <<log, read, left>>
      BY <1>1, <1>6 DEF SendSave, At
    <2>2. /\ Exists(r.conv) /\ r.members = member[r.conv]
          /\ Tops(r.msg, TextsIn(r.conv))
      BY <1>2, <1>3, <2>1 DEF Current
    <2>3. IsPost(r.msg)
      BY <1>3, <2>2 DEF Tops, TextsIn, PostsIn, IsPost, Convs
    <2>4. SaveConv(r.conv, r.msg, member[r.conv])
      BY <1>1, <1>6, <2>2, <2>3 DEF SendSave
    <2>5. /\ DataOK' /\ Keeps
          /\ \A d \in Convs :
               /\ conv'[d].type = conv[d].type
               /\ conv'[d].last = IF d = r.conv THEN r.msg ELSE conv[d].last
          /\ \A d \in Convs : TextsIn(d)' = TextsIn(d)
      BY <1>2, <1>3, <2>1, <2>4, SaveConvKeeps
    <2>6. left.faults = MaxFaults =>
            \A c \in Convs : Exists(c)' => Shown(c)' \/ Pending(NoRequest, c)
      <3>1. SUFFICES ASSUME left.faults = MaxFaults, NEW c \in Convs, Exists(c)'
                     PROVE  Shown(c)'
        OBVIOUS
      <3>2. CASE c = r.conv
        BY <1>3, <2>2, <2>5, <3>2 DEF Shown, Tops
      <3>3. CASE c # r.conv
        <4>1. req[s] # NoRequest
          BY <1>1, <1>3 DEF NoRequest
        <4>2. \A t \in Slots : ~Pending(req[t], c)
          BY <1>1, <3>3, <4>1 DEF Serial, Alone, Pending, NoRequest
        <4>3. Shown(c)
          BY <2>5, <3>1, <4>2 DEF Serial, Showing, Exists
        <4>4. QED
          BY <2>5, <3>3, <4>3 DEF Shown, Tops
      <3>4. QED
        BY <3>2, <3>3
    <2>7. QED
      BY <1>1, <1>3, <2>1, <2>5, <2>6, SerialGoes, NoRequestCurrent DEF Done, Serial, Inv
  <1>7. QED
    BY <1>4, <1>5, <1>6

LEMMA OpenedSerial ==
    ASSUME Inv, Serial, NEW s \in Slots, NEW c \in Convs, Exists(c),
           req[s].op \in {"open", "write"}, Opened(s, c), OnlyReq
    PROVE  Serial' /\ Keeps
  <1>1. PICK r : r = req[s]
    OBVIOUS
  <1>2. r \in Request /\ TablesTyped /\ DataOK
    BY <1>1, Finds
  <1>3. /\ DataOK' /\ Keeps /\ (AllShown => AllShown')
        /\ UNCHANGED <<conv, member, log, left>>
    BY <1>2, OnlyReqKeeps
  <1>4. CASE Done(s)
    BY <1>3, <1>4, PlainEnds
  <1>5. CASE ~Done(s)
    <2>1. PICK q : q = [r EXCEPT !.op = "send", !.pc = "insert", !.conv = c,
                                 !.room = conv[c], !.members = member[c]]
      OBVIOUS
    <2>2. Goto(s, q)
      BY <1>1, <1>5, <2>1 DEF Opened
    <2>3. q.op = "send" /\ q.pc = "insert" /\ q.conv = c /\ q.members = member[c]
      BY <1>2, <2>1 DEF Request
    <2>4. Current(q)'
      BY <1>3, <2>3 DEF Current, Exists, HasRow
    <2>5. QED
      BY <1>1, <1>3, <2>2, <2>4, PlainGoes
  <1>6. QED
    BY <1>4, <1>5

LEMMA OpenSerial ==
    ASSUME Inv, Serial, NEW s \in Slots,
           OpenFind(s) \/ OpenInsert(s) \/ OpenMembers(s) \/ OpenReload(s)
    PROVE  Serial' /\ Keeps
  <1>1. PICK r : r = req[s]
    OBVIOUS
  <1>2. /\ r \in Request /\ HandlerOK(r) /\ Current(r)
        /\ TablesOK /\ TablesTyped /\ DataOK
    BY <1>1, Finds
  <1>3. /\ r.op \in {"open", "write"} /\ r.op # "idle" /\ r.op # "send"
        /\ r.pc \in {"members", "find"} => r.conv \in Convs
        /\ r.user \in Users /\ r.peer \in Users
    BY <1>1, <1>2
    DEF OpenFind, OpenInsert, OpenMembers, OpenReload, AtOpen, At, HandlerOK, HasConv
  <1>4. CASE OpenFind(s)
    <2>1. /\ DataOK' /\ Keeps /\ (AllShown => AllShown') /\ OnlyReq
          /\ UNCHANGED <<conv, member, log, left>>
      BY <1>2, <1>4, OnlyReqKeeps DEF OpenFind
    <2>2. CASE Existing(r.user, r.peer) = {}
      <3>1. PICK q : q = [r EXCEPT !.pc = "insert"]
        OBVIOUS
      <3>2. Goto(s, q)
        BY <1>1, <1>4, <2>2, <3>1 DEF OpenFind, Step
      <3>3. q.op = r.op /\ q.pc = "insert" /\ q.user = r.user /\ q.peer = r.peer
        BY <1>2, <3>1 DEF Request
      <3>5. Current(q)'
        BY <1>3, <2>1, <3>3 DEF Current, HasRow
      <3>6. QED
        BY <1>1, <1>3, <2>1, <3>2, <3>5, PlainGoes
    <2>3. CASE Existing(r.user, r.peer) # {}
      <3>1. PICK c \in Existing(r.user, r.peer) : Opened(s, c)
        BY <1>1, <1>4, <2>3 DEF OpenFind
      <3>2. c \in Convs /\ Exists(c)
        BY DEF Existing, Exists
      <3>3. QED
        BY <1>1, <1>3, <2>1, <3>1, <3>2, OpenedSerial
    <2>4. QED
      BY <2>2, <2>3
  <1>5. CASE OpenInsert(s)
    <2>1. /\ r.pc = "insert" /\ InsertConv("dm", r.user)
          /\ UNCHANGED <<member, log, read, left>>
      BY <1>1, <1>5 DEF OpenInsert, AtOpen, At
    <2>2. PICK c : c = Fresh
      OBVIOUS
    <2>3. /\ DataOK' /\ Keeps /\ (AllShown => AllShown')
          /\ c \in Convs /\ conv'[c].type = "dm" /\ member'[c] = {}
      BY <1>2, <1>3, <2>1, <2>2, BornKeeps
    <2>4. PICK q : q = [r EXCEPT !.pc = "members", !.conv = c]
      OBVIOUS
    <2>5. Goto(s, q)
      BY <1>1, <1>5, <2>2, <2>4 DEF OpenInsert
    <2>6. /\ q.op = r.op /\ q.pc = "members" /\ q.conv = c
          /\ q.user = r.user /\ q.peer = r.peer
      BY <1>2, <2>4 DEF Request
    <2>8. Current(q)'
      BY <1>3, <2>3, <2>6 DEF Current, HasRow
    <2>9. QED
      BY <1>1, <1>3, <2>1, <2>3, <2>5, <2>8, PlainGoes
  <1>6. CASE OpenMembers(s)
    <2>1. /\ r.pc = "members" /\ SetMembers(r.conv, {r.user, r.peer}) /\ Step(s, "find")
          /\ UNCHANGED <<conv, log, read, left>>
      BY <1>1, <1>6 DEF OpenMembers, AtOpen, At
    <2>2. /\ r.conv \in Convs /\ conv[r.conv].type = "dm" /\ member[r.conv] = {}
      BY <1>2, <1>3, <2>1 DEF Current
    <2>3. PICK S \in SUBSET Users : S = {r.user, r.peer}
      BY <1>3
    <2>4. member' = [member EXCEPT ![r.conv] = member[r.conv] \cup S]
      BY <2>1, <2>2, <2>3 DEF SetMembers
    <2>6. DataOK' /\ Keeps /\ (AllShown => AllShown')
      BY <1>2, <2>1, <2>2, <2>4, EnterKeeps
    <2>7. PICK q : q = [r EXCEPT !.pc = "find"]
      OBVIOUS
    <2>8. q.op = r.op /\ q.pc = "find" /\ Goto(s, q)
      BY <1>1, <1>2, <2>1, <2>7 DEF Request, Step
    <2>9. Current(q)'
      BY <1>3, <2>8 DEF Current, HasRow
    <2>10. QED
      BY <1>1, <1>3, <2>1, <2>6, <2>8, <2>9, PlainGoes
  <1>7. CASE OpenReload(s)
    <2>1. r.pc = "find" /\ OnlyReq
      BY <1>1, <1>7 DEF OpenReload, AtOpen, At
    <2>2. CASE Exists(r.conv)
      BY <1>1, <1>3, <1>7, <2>1, <2>2, OpenedSerial DEF OpenReload
    <2>3. CASE ~Exists(r.conv)
      <3>1. Done(s)
        BY <1>1, <1>7, <2>3 DEF OpenReload
      <3>2. QED
        BY <1>1, <1>2, <1>3, <2>1, <3>1, OnlyReqKeeps, PlainEnds
    <2>4. QED
      BY <2>2, <2>3
  <1>8. QED
    BY <1>4, <1>5, <1>6, <1>7

LEMMA ForwardSerial ==
    ASSUME Inv, Serial, NEW s \in Slots, ForwardLoad(s) \/ ForwardInsert(s)
    PROVE  Serial' /\ Keeps
  <1>1. PICK r : r = req[s]
    OBVIOUS
  <1>2. r \in Request /\ HandlerOK(r) /\ TablesTyped /\ DataOK
    BY <1>1, Finds
  <1>3. r.op = "forward" /\ r.user \in Users /\ r.conv \in Convs
    BY <1>1, <1>2 DEF ForwardLoad, ForwardInsert, At, HandlerOK, HasConv
  <1>4. CASE ForwardLoad(s)
    <2>1. /\ DataOK' /\ Keeps /\ (AllShown => AllShown')
          /\ UNCHANGED <<conv, member, log, left>>
      BY <1>2, <1>4, OnlyReqKeeps DEF ForwardLoad
    <2>2. CASE Done(s)
      BY <1>1, <1>3, <2>1, <2>2, PlainEnds
    <2>3. CASE ~Done(s)
      <3>1. PICK q : q = [r EXCEPT !.pc = "insert"]
        OBVIOUS
      <3>2. q.op = "forward" /\ Goto(s, q)
        BY <1>1, <1>2, <1>3, <1>4, <2>3, <3>1 DEF ForwardLoad, Step, Request
      <3>3. Current(q)'
        BY <3>2 DEF Current, HasRow
      <3>4. QED
        BY <1>1, <1>3, <2>1, <3>2, <3>3, PlainGoes
    <2>4. QED
      BY <2>2, <2>3
  <1>5. CASE ForwardInsert(s)
    <2>1. /\ InsertPost(r.conv, r.user, "forward") /\ Done(s)
          /\ UNCHANGED <<conv, member, read, left>>
      BY <1>1, <1>5 DEF ForwardInsert
    <2>2. DataOK' /\ Keeps /\ (AllShown => AllShown')
      BY <1>2, <1>3, <2>1, InsertPostKeeps
    <2>3. QED
      BY <1>1, <1>3, <2>1, <2>2, PlainEnds
  <1>6. QED
    BY <1>4, <1>5

\* editMessage and deleteMessage: the row that was loaded is the row still
LEMMA RowSerial ==
    ASSUME Inv, Serial, NEW s \in Slots,
           \/ EditLoad(s) \/ EditSave(s) \/ EditSaveConv(s) \/ EditSaveAgain(s)
           \/ DeleteLoad(s) \/ DeleteSave(s)
    PROVE  Serial' /\ Keeps
  <1>1. PICK r : r = req[s]
    OBVIOUS
  <1>2. /\ r \in Request /\ HandlerOK(r) /\ Current(r)
        /\ TablesOK /\ TablesTyped /\ DataOK
    BY <1>1, Finds
  <1>3. r.op \in {"edit", "delete"} /\ r.op # "idle" /\ r.op # "send"
    BY <1>1 DEF EditLoad, EditSave, EditSaveConv, EditSaveAgain, DeleteLoad, DeleteSave, At
  <1>4. ASSUME Done(s), DataOK', AllShown => AllShown', UNCHANGED left
        PROVE  Serial'
    BY <1>1, <1>3, <1>4, PlainEnds
  <1>5. CASE EditLoad(s) \/ DeleteLoad(s)
    <2>1. /\ DataOK' /\ Keeps /\ (AllShown => AllShown')
          /\ UNCHANGED <<conv, member, log, left>>
      BY <1>2, <1>5, OnlyReqKeeps DEF EditLoad, DeleteLoad
    <2>2. CASE Done(s)
      BY <1>4, <2>1, <2>2
    <2>3. CASE ~Done(s) /\ EditLoad(s)
      <3>1. PICK row : row = [log[r.msg] EXCEPT !.edited = TRUE]
        OBVIOUS
      <3>2. PICK c : c = log[r.msg].conv
        OBVIOUS
      <3>3. PICK q : q = [r EXCEPT !.pc = "row", !.conv = c, !.row = row,
                                   !.room = conv[c], !.members = member[c]]
        OBVIOUS
      <3>4. IsPost(r.msg) /\ Goto(s, q) /\ r.op = "edit"
        BY <1>1, <2>3, <3>1, <3>2, <3>3 DEF EditLoad, At
      <3>5. log[r.msg] \in PostRow
        BY <1>2, <3>4, PostTyped DEF IsPost
      <3>6. Same(row, log[r.msg]) /\ row.deleted = log[r.msg].deleted
        BY <3>1, <3>5 DEF PostRow, Same
      <3>7. /\ q.op = "edit" /\ q.pc = "row" /\ q.conv = c /\ q.row = row /\ q.msg = r.msg
            /\ q.room = conv[c] /\ q.members = member[c]
        BY <1>2, <3>3, <3>4 DEF Request
      <3>8. Current(q)'
        BY <2>1, <3>4, <3>6, <3>7 DEF Current, HasRow, IsPost, Same
      <3>9. QED
        BY <1>1, <1>3, <2>1, <3>4, <3>8, PlainGoes
    <2>4. CASE ~Done(s) /\ DeleteLoad(s)
      <3>1. PICK row : row = [log[r.msg] EXCEPT !.deleted = TRUE]
        OBVIOUS
      <3>2. PICK q : q = [r EXCEPT !.pc = "row", !.row = row]
        OBVIOUS
      <3>3. IsPost(r.msg) /\ Goto(s, q) /\ r.op = "delete"
        BY <1>1, <2>4, <3>1, <3>2 DEF DeleteLoad, At
      <3>4. log[r.msg] \in PostRow
        BY <1>2, <3>3, PostTyped DEF IsPost
      <3>5. Same(row, log[r.msg]) /\ row.deleted
        BY <3>1, <3>4 DEF PostRow, Same
      <3>6. q.op = "delete" /\ q.pc = "row" /\ q.row = row /\ q.msg = r.msg
        BY <1>2, <3>2, <3>3 DEF Request
      <3>7. Current(q)'
        BY <2>1, <3>3, <3>5, <3>6 DEF Current, HasRow, IsPost, Same
      <3>8. QED
        BY <1>1, <1>3, <2>1, <3>3, <3>7, PlainGoes
    <2>5. QED
      BY <1>5, <2>2, <2>3, <2>4
  <1>6. ASSUME r.pc # "load", SavePost(r.msg, r.row), UNCHANGED <<conv, member, read>>
        PROVE  /\ DataOK' /\ Keeps /\ (AllShown => AllShown')
               /\ IsPost(r.msg)' /\ log'[r.msg] = r.row
    <2>1. IsPost(r.msg) /\ Same(r.row, log[r.msg])
      BY <1>2, <1>3, <1>6 DEF Current, HasRow
    <2>2. r.row \in PostRow
      BY <1>2 DEF Request
    <2>3. log[r.msg].deleted => r.row.deleted
      BY <1>2, <1>3, <1>6 DEF Current
    <2>4. QED
      BY <1>2, <1>6, <2>1, <2>2, <2>3, SavePostKeeps
  <1>7. CASE EditSave(s)
    <2>1. /\ r.pc = "row" /\ r.op = "edit" /\ SavePost(r.msg, r.row)
          /\ UNCHANGED <<conv, member, read, left>>
      BY <1>1, <1>7 DEF EditSave, At
    <2>2. /\ DataOK' /\ Keeps /\ (AllShown => AllShown')
          /\ IsPost(r.msg)' /\ log'[r.msg] = r.row
      BY <1>6, <2>1
    <2>3. IsPost(r.msg) /\ r.room = conv[r.conv] /\ r.members = member[r.conv]
      BY <1>2, <2>1 DEF Current, HasRow
    <2>4. PICK pc : pc = IF r.room.last = r.msg THEN "conv" ELSE "again"
      OBVIOUS
    <2>5. PICK q : q = [r EXCEPT !.pc = pc]
      OBVIOUS
    <2>6. Goto(s, q)
      BY <1>1, <1>7, <2>3, <2>4, <2>5 DEF EditSave, Step
    <2>7. /\ q.op = "edit" /\ q.pc = pc /\ q.conv = r.conv /\ q.row = r.row
          /\ q.msg = r.msg /\ q.members = r.members
      BY <1>2, <2>1, <2>5 DEF Request
    <2>8. Current(q)'
      BY <2>1, <2>2, <2>3, <2>4, <2>7 DEF Current, HasRow, Same
    <2>9. QED
      BY <1>1, <1>3, <2>1, <2>2, <2>6, <2>8, PlainGoes
  <1>8. CASE EditSaveConv(s)
    <2>1. r.pc = "conv" /\ r.op = "edit" /\ UNCHANGED <<log, read, left>>
      BY <1>1, <1>8 DEF EditSaveConv, At
    <2>2. /\ IsPost(r.msg) /\ Same(r.row, log[r.msg]) /\ r.row.deleted = log[r.msg].deleted
          /\ r.members = member[r.conv] /\ r.msg = conv[r.conv].last /\ r.conv \in Convs
      BY <1>2, <2>1 DEF Current, HasRow, HandlerOK, HasConv
    <2>3. SaveConv(r.conv, r.msg, member[r.conv]) /\ Step(s, "again")
      BY <1>1, <1>8, <2>2 DEF EditSaveConv
    <2>4. /\ DataOK' /\ Keeps /\ UNCHANGED member
          /\ \A d \in Convs : /\ conv'[d].type = conv[d].type
                              /\ conv'[d].last = IF d = r.conv THEN r.msg ELSE conv[d].last
          /\ \A d \in Convs : TextsIn(d)' = TextsIn(d)
      BY <1>2, <2>1, <2>2, <2>3, SaveConvKeeps
    <2>5. AllShown => AllShown'
      BY <2>2, <2>4 DEF AllShown, Exists, Shown, Tops
    <2>6. PICK q : q = [r EXCEPT !.pc = "again"]
      OBVIOUS
    <2>7. /\ q.op = "edit" /\ q.pc = "again" /\ q.conv = r.conv /\ q.row = r.row
          /\ q.msg = r.msg /\ q.members = r.members
      BY <1>2, <2>1, <2>6 DEF Request
    <2>8. Current(q)'
      BY <2>1, <2>2, <2>4, <2>7 DEF Current, HasRow, IsPost
    <2>9. Goto(s, q)
      BY <1>1, <2>3, <2>6 DEF Step
    <2>10. QED
      BY <1>1, <1>3, <2>1, <2>4, <2>5, <2>8, <2>9, PlainGoes
  <1>9. CASE EditSaveAgain(s) \/ DeleteSave(s)
    <2>1. /\ r.pc # "load" /\ SavePost(r.msg, r.row) /\ Done(s)
          /\ UNCHANGED <<conv, member, read, left>>
      BY <1>1, <1>9 DEF EditSaveAgain, DeleteSave, At
    <2>2. QED
      BY <1>4, <1>6, <2>1
  <1>10. QED
    BY <1>5, <1>7, <1>8, <1>9

LEMMA RosterSerial ==
    ASSUME Inv, Serial, NEW s \in Slots,
           \/ AddLoad(s) \/ AddInsert(s) \/ AddNote(s)
           \/ RemoveLoad(s) \/ RemoveRow(s) \/ RemoveNote(s)
    PROVE  Serial' /\ Keeps
  <1>1. PICK r : r = req[s]
    OBVIOUS
  <1>2. r \in Request /\ HandlerOK(r) /\ Current(r) /\ TablesTyped /\ DataOK
    BY <1>1, Finds
  <1>3. /\ r.op \in {"add", "remove"} /\ r.op # "idle" /\ r.op # "send"
        /\ r.user \in Users /\ r.peer \in Users /\ r.conv \in Convs
    BY <1>1, <1>2 DEF AddLoad, AddInsert, AddNote, RemoveLoad, RemoveRow, RemoveNote,
                      At, HandlerOK, HasConv
  <1>4. Exists(r.conv)
    BY <1>2, <1>3 DEF Current
  <1>5. ASSUME UNCHANGED <<conv, left>>, DataOK', AllShown => AllShown',
               Done(s) \/ \E pc \in Pcs : Step(s, pc)
        PROVE  Serial'
    <2>1. CASE Done(s)
      BY <1>1, <1>3, <1>5, <2>1, PlainEnds
    <2>2. ASSUME NEW pc \in Pcs, Step(s, pc) PROVE Serial'
      <3>1. PICK q : q = [r EXCEPT !.pc = pc]
        OBVIOUS
      <3>2. Goto(s, q) /\ q.op = r.op /\ q.conv = r.conv
        BY <1>1, <1>2, <2>2, <3>1 DEF Request, Step
      <3>3. Current(q)'
        BY <1>3, <1>4, <1>5, <3>2 DEF Current, HasRow, Exists
      <3>4. QED
        BY <1>1, <1>3, <1>5, <3>2, <3>3, PlainGoes
    <2>3. QED
      BY <1>5, <2>1, <2>2
  <1>6. \A pc \in {"insert", "note", "row"} : pc \in Pcs
    BY DEF Pcs
  <1>7. CASE AddLoad(s) \/ RemoveLoad(s)
    <2>1. OnlyReq /\ (Done(s) \/ \E pc \in Pcs : Step(s, pc))
      BY <1>6, <1>7 DEF AddLoad, RemoveLoad
    <2>2. QED
      BY <1>2, <1>5, <2>1, OnlyReqKeeps
  <1>8. CASE AddInsert(s)
    <2>1. /\ UNCHANGED <<conv, log, read, left>> /\ (Done(s) \/ \E pc \in Pcs : Step(s, pc))
          /\ UNCHANGED member \/ SetMembers(r.conv, member[r.conv] \cup {r.peer})
      BY <1>1, <1>6, <1>8 DEF AddInsert
    <2>2. CASE UNCHANGED member
      BY <1>2, <1>5, <2>1, <2>2, NothingMoves
    <2>3. CASE SetMembers(r.conv, member[r.conv] \cup {r.peer})
      <3>1. PICK S \in SUBSET Users : S = {r.peer}
        BY <1>3
      <3>2. member' = [member EXCEPT ![r.conv] = member[r.conv] \cup S]
        BY <2>3, <3>1 DEF SetMembers
      <3>3. DataOK' /\ Keeps /\ (AllShown => AllShown')
        BY <1>2, <1>3, <1>4, <2>1, <3>2, EnterKeeps DEF Exists
      <3>4. QED
        BY <1>5, <2>1, <3>3
    <2>4. QED
      BY <2>1, <2>2, <2>3
  <1>9. CASE RemoveRow(s)
    <2>1. /\ UNCHANGED <<conv, log, read, left>> /\ Step(s, "note")
          /\ SetMembers(r.conv, member[r.conv] \ {r.peer})
      BY <1>1, <1>9 DEF RemoveRow
    <2>2. PICK C \in SUBSET Convs : C = {r.conv}
      BY <1>3
    <2>3. member' = [c \in Convs |-> IF c \in C THEN member[c] \ {r.peer} ELSE member[c]]
      BY <1>2, <1>3, <2>1, <2>2 DEF SetMembers, TablesTyped
    <2>4. DataOK' /\ Keeps /\ (AllShown => AllShown')
      BY <1>2, <1>3, <2>1, <2>3, DepartKeeps
    <2>5. QED
      BY <1>5, <1>6, <2>1, <2>4
  <1>10. CASE AddNote(s) \/ RemoveNote(s)
    <2>1. /\ \/ InsertPost(r.conv, r.user, "join")
             \/ InsertPost(r.conv, r.peer, "leave")
          /\ Done(s) /\ UNCHANGED <<conv, member, read, left>>
      BY <1>1, <1>10 DEF AddNote, RemoveNote
    <2>2. DataOK' /\ Keeps /\ (AllShown => AllShown')
      BY <1>2, <1>3, <2>1, InsertPostKeeps
    <2>3. QED
      BY <1>5, <2>1, <2>2
  <1>11. QED
    BY <1>7, <1>8, <1>9, <1>10

LEMMA MarkSerial ==
    ASSUME Inv, Serial, NEW s \in Slots,
           MarkLoad(s) \/ MarkFind(s) \/ MarkInsert(s) \/ MarkSave(s)
    PROVE  Serial' /\ Keeps
  <1>1. PICK r : r = req[s]
    OBVIOUS
  <1>2. r \in Request /\ HandlerOK(r) /\ Current(r) /\ TablesTyped /\ DataOK
    BY <1>1, Finds
  <1>3. r.op = "mark" /\ r.user \in Users /\ r.conv \in Convs
    BY <1>1, <1>2 DEF MarkLoad, MarkFind, MarkInsert, MarkSave, At, HandlerOK, HasConv
  <1>4. CASE MarkLoad(s)
    <2>1. /\ DataOK' /\ Keeps /\ (AllShown => AllShown')
          /\ UNCHANGED <<conv, member, log, left>>
      BY <1>2, <1>4, OnlyReqKeeps DEF MarkLoad
    <2>2. CASE Done(s)
      BY <1>1, <1>3, <2>1, <2>2, PlainEnds
    <2>3. CASE ~Done(s)
      <3>1. PICK m : m = Newest(PostsIn(r.conv))
        OBVIOUS
      <3>2. PICK q : q = [r EXCEPT !.pc = "find", !.msg = m]
        OBVIOUS
      <3>3. PostsIn(r.conv) # {} /\ Goto(s, q)
        BY <1>1, <1>4, <2>3, <3>1, <3>2 DEF MarkLoad
      <3>4. Tops(m, PostsIn(r.conv))
        <4>1. PostsIn(r.conv) \subseteq DOMAIN log
          BY DEF PostsIn
        <4>2. QED
          BY <1>2, <3>1, <3>3, <4>1, NewestPost DEF Tops
      <3>5. q.op = "mark" /\ q.msg = m /\ q.conv = r.conv
        BY <1>2, <1>3, <3>2 DEF Request
      <3>6. Current(q)'
        BY <2>1, <3>4, <3>5 DEF Current, HasRow, Tops, PostsIn
      <3>7. QED
        BY <1>1, <1>3, <2>1, <3>3, <3>6, PlainGoes
    <2>4. QED
      BY <2>2, <2>3
  <1>5. CASE MarkFind(s)
    <2>1. /\ DataOK' /\ Keeps /\ (AllShown => AllShown') /\ r.pc # "load"
          /\ UNCHANGED <<conv, member, log, left>>
      BY <1>1, <1>2, <1>5, OnlyReqKeeps DEF MarkFind, At
    <2>2. PICK pc : Step(s, pc)
      BY <1>5 DEF MarkFind
    <2>3. PICK q : q = [r EXCEPT !.pc = pc]
      OBVIOUS
    <2>4. Goto(s, q) /\ q.op = "mark" /\ q.msg = r.msg /\ q.conv = r.conv
      BY <1>1, <1>2, <1>3, <2>2, <2>3 DEF Step, Request
    <2>5. Tops(r.msg, PostsIn(r.conv))
      BY <1>2, <1>3, <2>1 DEF Current
    <2>6. Current(q)'
      BY <2>1, <2>4, <2>5 DEF Current, HasRow, Tops, PostsIn
    <2>7. QED
      BY <1>1, <1>3, <2>1, <2>4, <2>6, PlainGoes
  <1>6. CASE MarkInsert(s) \/ MarkSave(s)
    <2>1. /\ SetRead(r.conv, r.user, r.msg) \/ UNCHANGED read
          /\ Done(s) /\ UNCHANGED <<conv, member, log, left>> /\ r.pc # "load"
      BY <1>1, <1>6 DEF MarkInsert, MarkSave, At
    <2>2. Tops(r.msg, PostsIn(r.conv))
      BY <1>2, <1>3, <2>1 DEF Current
    <2>3. DataOK' /\ Keeps /\ (AllShown => AllShown')
      BY <1>2, <1>3, <2>1, <2>2, SetReadKeeps, NothingMoves
    <2>4. QED
      BY <1>1, <1>3, <2>1, <2>3, PlainEnds
  <1>7. QED
    BY <1>4, <1>5, <1>6

\* A handler that relies on nothing it has read goes on
LEMMA FreeGoes ==
    ASSUME NEW s \in Slots, NEW q, Goto(s, q), q.op = req[s].op,
           req[s].op \in {"leave", "drop"},
           Inv, Serial, DataOK', AllShown => AllShown', UNCHANGED left
    PROVE  Serial'
  <1>1. Current(q)'
    BY DEF Current, HasRow
  <1>2. QED
    BY <1>1, PlainGoes

\* deleteDirectConversation, and deleteChannel
LEMMA LeaveSerial ==
    ASSUME Inv, Serial, NEW s \in Slots,
           \/ LeaveLoad(s) \/ LeaveRow(s) \/ LeaveCount(s) \/ LeaveDestroy(s)
           \/ DropChannel(s)
    PROVE  Serial' /\ Keeps
  <1>1. PICK r : r = req[s]
    OBVIOUS
  <1>2. r \in Request /\ HandlerOK(r) /\ TablesTyped /\ DataOK
    BY <1>1, Finds
  <1>3. /\ r.op \in {"leave", "drop"} /\ r.op # "idle" /\ r.op # "send"
        /\ r.user \in Users /\ r.conv \in Convs
    BY <1>1, <1>2 DEF LeaveLoad, LeaveRow, LeaveCount, LeaveDestroy, DropChannel, At,
                      HandlerOK, HasConv
  <1>4. ASSUME UNCHANGED left, DataOK', AllShown => AllShown',
               Done(s) \/ \E pc : Step(s, pc)
        PROVE  Serial'
    <2>1. CASE Done(s)
      BY <1>1, <1>3, <1>4, <2>1, PlainEnds
    <2>2. ASSUME NEW pc, Step(s, pc) PROVE Serial'
      <3>1. PICK q : q = [r EXCEPT !.pc = pc]
        OBVIOUS
      <3>2. Goto(s, q) /\ q.op = r.op
        BY <1>1, <1>2, <2>2, <3>1 DEF Request, Step
      <3>3. QED
        BY <1>1, <1>3, <1>4, <3>2, FreeGoes
    <2>3. QED
      BY <1>4, <2>1, <2>2
  <1>5. CASE LeaveLoad(s) \/ LeaveCount(s)
    <2>1. OnlyReq /\ (Done(s) \/ \E pc : Step(s, pc))
      BY <1>5 DEF LeaveLoad, LeaveCount
    <2>2. QED
      BY <1>2, <1>4, <2>1, OnlyReqKeeps
  <1>6. CASE LeaveRow(s)
    <2>1. /\ UNCHANGED <<conv, log, read, left>> /\ \E pc : Step(s, pc)
          /\ SetMembers(r.conv, member[r.conv] \ {r.user})
      BY <1>1, <1>6 DEF LeaveRow
    <2>2. PICK C \in SUBSET Convs : C = {r.conv}
      BY <1>3
    <2>3. member' = [c \in Convs |-> IF c \in C THEN member[c] \ {r.user} ELSE member[c]]
      BY <1>2, <1>3, <2>1, <2>2 DEF SetMembers, TablesTyped
    <2>4. DataOK' /\ Keeps /\ (AllShown => AllShown')
      BY <1>2, <1>3, <2>1, <2>3, DepartKeeps
    <2>5. QED
      BY <1>4, <2>1, <2>4
  <1>7. CASE LeaveDestroy(s) \/ DropChannel(s)
    <2>1. Destroy(r.conv) /\ Done(s) /\ UNCHANGED <<read, left>>
      BY <1>1, <1>7 DEF LeaveDestroy, DropChannel
    <2>2. QED
      BY <1>2, <1>3, <1>4, <2>1, DestroyKeeps
  <1>8. QED
    BY <1>5, <1>6, <1>7

LEMMA LeaveAllSerial ==
    ASSUME Inv, Serial, NEW s \in Slots,
           \/ LeaveAllLoad(s) \/ LeaveAllRows(s) \/ LeaveAllCount(s)
           \/ LeaveAllMessages(s) \/ LeaveAllDestroy(s)
    PROVE  Serial' /\ Keeps
  <1>1. PICK r : r = req[s]
    OBVIOUS
  <1>2. r \in Request /\ HandlerOK(r) /\ Current(r) /\ TablesTyped /\ DataOK
    BY <1>1, Finds
  <1>3. /\ r.op = "leaveAll" /\ r.user \in Users /\ r.todo \in SUBSET Convs
        /\ r.pc \in {"messages", "destroy"} => r.conv \in Convs /\ member[r.conv] = {}
    BY <1>1, <1>2 DEF LeaveAllLoad, LeaveAllRows, LeaveAllCount, LeaveAllMessages,
                      LeaveAllDestroy, At, HandlerOK, HasConv, Current, Request
  <1>4. ASSUME UNCHANGED left, DataOK', AllShown => AllShown', Done(s)
        PROVE  Serial'
    BY <1>1, <1>3, <1>4, PlainEnds
  <1>5. ASSUME UNCHANGED left, DataOK', AllShown => AllShown', NEW q, Goto(s, q),
               q.op = "leaveAll",
               q.pc \in {"messages", "destroy"} => member'[q.conv] = {}
        PROVE  Serial'
    <2>1. Current(q)'
      BY <1>5 DEF Current, HasRow
    <2>2. QED
      BY <1>1, <1>3, <1>5, <2>1, PlainGoes
  <1>6. ASSUME UNCHANGED left, DataOK', AllShown => AllShown', Step(s, "count")
        PROVE  Serial'
    <2>1. PICK q : q = [r EXCEPT !.pc = "count"]
      OBVIOUS
    <2>2. Goto(s, q) /\ q.op = "leaveAll" /\ q.pc = "count"
      BY <1>1, <1>2, <1>3, <1>6, <2>1 DEF Step, Request
    <2>3. QED
      BY <1>5, <1>6, <2>2
  <1>7. CASE LeaveAllLoad(s)
    <2>1. /\ DataOK' /\ Keeps /\ (AllShown => AllShown')
          /\ UNCHANGED <<conv, member, log, left>>
      BY <1>2, <1>7, OnlyReqKeeps DEF LeaveAllLoad
    <2>2. CASE ~Done(s)
      <3>1. PICK mine \in SUBSET Convs : Goto(s, [r EXCEPT !.pc = "row", !.todo = mine])
        BY <1>1, <1>7, <2>2 DEF LeaveAllLoad
      <3>2. PICK q : q = [r EXCEPT !.pc = "row", !.todo = mine]
        OBVIOUS
      <3>3. Goto(s, q) /\ q.op = "leaveAll" /\ q.pc = "row"
        BY <1>2, <1>3, <3>1, <3>2 DEF Request
      <3>4. QED
        BY <1>5, <2>1, <3>3
    <2>3. QED
      BY <1>4, <2>1, <2>2
  <1>8. CASE LeaveAllRows(s)
    <2>1. /\ member' = [c \in Convs |-> IF c \in r.todo THEN member[c] \ {r.user}
                                                        ELSE member[c]]
          /\ Step(s, "count") /\ UNCHANGED <<conv, log, read, left>>
      BY <1>1, <1>8 DEF LeaveAllRows
    <2>2. DataOK' /\ Keeps /\ (AllShown => AllShown')
      BY <1>2, <1>3, <2>1, DepartKeeps
    <2>3. QED
      BY <1>6, <2>1, <2>2
  <1>9. CASE LeaveAllCount(s)
    <2>1. /\ DataOK' /\ Keeps /\ (AllShown => AllShown') /\ r.pc = "count"
          /\ UNCHANGED <<conv, member, log, left>>
      BY <1>1, <1>2, <1>9, OnlyReqKeeps DEF LeaveAllCount, At
    <2>2. CASE ~Done(s)
      <3>1. PICK c \in r.todo :
              Goto(s, [r EXCEPT !.todo = @ \ {c}, !.conv = c,
                                !.pc = IF member[c] = {} THEN "messages" ELSE @])
        BY <1>1, <1>9, <2>2 DEF LeaveAllCount
      <3>2. PICK pc : pc = IF member[c] = {} THEN "messages" ELSE r.pc
        OBVIOUS
      <3>3. PICK q : q = [r EXCEPT !.todo = r.todo \ {c}, !.conv = c, !.pc = pc]
        OBVIOUS
      <3>4. Goto(s, q) /\ q.op = "leaveAll" /\ q.pc = pc /\ q.conv = c
        BY <1>2, <1>3, <3>1, <3>2, <3>3 DEF Request
      <3>5. q.pc \in {"messages", "destroy"} => member'[q.conv] = {}
        BY <2>1, <3>2, <3>4
      <3>6. QED
        BY <1>5, <2>1, <3>4, <3>5
    <2>3. QED
      BY <1>4, <2>1, <2>2
  <1>10. CASE LeaveAllMessages(s)
    <2>1. /\ r.conv \in Convs /\ member[r.conv] = {}
          /\ UNCHANGED <<conv, member, read, left>>
      BY <1>1, <1>3, <1>10 DEF LeaveAllMessages, At
    <2>2. CASE conv[r.conv].last = 0
      <3>1. log' = Erase(log, r.conv) /\ Step(s, "destroy")
        BY <1>1, <1>10, <2>2 DEF LeaveAllMessages
      <3>2. member' = [member EXCEPT ![r.conv] = {}]
        BY <1>2, <2>1 DEF TablesTyped
      <3>3. DataOK' /\ Keeps /\ (AllShown => AllShown')
        BY <1>2, <2>1, <2>2, <3>1, <3>2, EraseKeeps
      <3>4. PICK q : q = [r EXCEPT !.pc = "destroy"]
        OBVIOUS
      <3>5. Goto(s, q) /\ q.op = "leaveAll" /\ q.conv = r.conv
        BY <1>1, <1>2, <1>3, <3>1, <3>4 DEF Step, Request
      <3>6. QED
        BY <1>5, <2>1, <3>3, <3>5
    <2>3. CASE conv[r.conv].last # 0
      <3>1. UNCHANGED log /\ Done(s)
        BY <1>1, <1>10, <2>3 DEF LeaveAllMessages
      <3>2. QED
        BY <1>2, <1>4, <2>1, <3>1, NothingMoves
    <2>4. QED
      BY <2>2, <2>3
  <1>11. CASE LeaveAllDestroy(s)
    <2>1. /\ r.conv \in Convs /\ Destroy(r.conv) /\ UNCHANGED <<read, left>>
          /\ Done(s) \/ Step(s, "count")
      BY <1>1, <1>3, <1>11 DEF LeaveAllDestroy, At
    <2>2. QED
      BY <1>2, <1>4, <1>6, <2>1, DestroyKeeps
  <1>12. QED
    BY <1>7, <1>8, <1>9, <1>10, <1>11

LEMMA CreateSerial ==
    ASSUME Inv, Serial, NEW s \in Slots,
           CreateInsert(s) \/ CreateOwner(s) \/ CreateMembers(s)
    PROVE  Serial' /\ Keeps
  <1>1. PICK r : r = req[s]
    OBVIOUS
  <1>2. r \in Request /\ HandlerOK(r) /\ Current(r) /\ TablesTyped /\ DataOK
    BY <1>1, Finds
  <1>3. /\ r.op = "create" /\ r.user \in Users /\ r.members \in SUBSET Users
        /\ r.pc # "load" => r.conv \in Convs /\ Exists(r.conv)
        /\ r.room.type \in {"dm", "channel"}
    BY <1>1, <1>2 DEF CreateInsert, CreateOwner, CreateMembers, At, HandlerOK, HasConv,
                      Current, Request
  <1>4. CASE CreateInsert(s)
    <2>1. InsertConv(r.room.type, r.user) /\ UNCHANGED <<member, log, read, left>>
      BY <1>1, <1>4 DEF CreateInsert
    <2>2. PICK c : c = Fresh
      OBVIOUS
    <2>3. /\ DataOK' /\ Keeps /\ (AllShown => AllShown')
          /\ conv'[c].type \in {"dm", "channel"}
      BY <1>2, <1>3, <2>1, <2>2, BornKeeps
    <2>4. PICK q : q = [r EXCEPT !.pc = "insert", !.conv = c]
      OBVIOUS
    <2>5. Goto(s, q) /\ q.op = "create" /\ q.conv = c
      BY <1>1, <1>2, <1>3, <1>4, <2>2, <2>4 DEF CreateInsert, Request
    <2>6. Current(q)'
      BY <2>3, <2>5 DEF Current, HasRow, Exists
    <2>7. QED
      BY <1>1, <1>3, <2>1, <2>3, <2>5, <2>6, PlainGoes
  <1>5. CASE CreateOwner(s) \/ CreateMembers(s)
    <2>1. /\ r.conv \in Convs /\ Exists(r.conv)
          /\ UNCHANGED <<conv, log, read, left>>
          /\ Done(s) \/ Step(s, "members")
          /\ \/ UNCHANGED member
             \/ \E S \in SUBSET Users :
                  member' = [member EXCEPT ![r.conv] = member[r.conv] \cup S]
      <3>1. {r.user} \in SUBSET Users /\ r.members \in SUBSET Users
        BY <1>3
      <3>2. QED
        BY <1>1, <1>3, <1>5, <3>1 DEF CreateOwner, CreateMembers, At, SetMembers
    <2>2. DataOK' /\ Keeps /\ (AllShown => AllShown')
      BY <1>2, <2>1, NothingMoves, EnterKeeps DEF Exists
    <2>3. CASE Done(s)
      BY <1>1, <1>3, <2>1, <2>2, <2>3, PlainEnds
    <2>4. CASE Step(s, "members")
      <3>1. PICK q : q = [r EXCEPT !.pc = "members"]
        OBVIOUS
      <3>2. Goto(s, q) /\ q.op = "create" /\ q.conv = r.conv
        BY <1>1, <1>2, <1>3, <2>4, <3>1 DEF Step, Request
      <3>3. Current(q)'
        BY <2>1, <3>2 DEF Current, HasRow, Exists
      <3>4. QED
        BY <1>1, <1>3, <2>1, <2>2, <3>2, <3>3, PlainGoes
    <2>5. QED
      BY <2>1, <2>2, <2>3, <2>4
  <1>6. QED
    BY <1>4, <1>5

-----------------------------------------------------------------------------
(* Requests come in, handlers are cut short *)

LEMMA ReceiveSerial ==
    ASSUME Inv, Serial, NEW s \in Slots, NEW op \in Endpoints, NEW r \in Request,
           op \in {"add", "remove"} => Exists(r.conv),
           Receive(s, op, r), ~overlap'
    PROVE  Serial' /\ Keeps
  <1>1. PICK q : q = [r EXCEPT !.op = op, !.pc = "load"]
    OBVIOUS
  <1>2. q.op = op /\ q.pc = "load" /\ q.conv = r.conv
    BY <1>1 DEF Request
  <1>3. \A t \in Slots : req[t] = NoRequest
    BY DEF Receive
  <1>4. \A t \in Slots : req'[t] = IF t = s THEN q ELSE NoRequest
    BY <1>1, <1>3 DEF Receive, Goto, Inv, HandlersOK
  <1>5. TablesTyped /\ DataOK /\ UNCHANGED <<conv, member, log, read>>
    BY Finds DEF Receive, tables
  <1>6. DataOK' /\ Keeps /\ (AllShown => AllShown')
    BY <1>5, NothingMoves
  <1>7. Alone'
    BY <1>4 DEF Alone
  <1>8. HandlerCurrent'
    <2>1. Current(q)'
      BY <1>2, <1>5 DEF Current, HasRow, Exists, Endpoints
    <2>2. \A t \in Slots : \A p : p = req'[t] => Current(p)'
      BY <1>4, <2>1, NoRequestCurrent
    <2>3. QED
      BY <2>2 DEF HandlerCurrent
  <1>9. Showing'
    <2>1. left'.faults = left.faults
      BY DEF Receive, Inv, BoundsOK
    <2>2. \A t \in Slots, c \in Convs : ~Pending(req[t], c)
      BY <1>3 DEF Pending, NoRequest
    <2>3. left.faults = MaxFaults => AllShown
      BY <2>2 DEF Serial, Showing, AllShown
    <2>4. QED
      BY <1>6, <2>1, <2>3 DEF Showing, AllShown
  <1>10. QED
    BY <1>6, <1>7, <1>8, <1>9 DEF Serial

LEMMA ClientSerial ==
    ASSUME Inv, Serial, NEW s \in Slots, ClientRequest(s), ~overlap'
    PROVE  Serial' /\ Keeps
  <1> USE NoRequestOK
  <1>1. PICK u \in Users :
      \/ \E c \in Convs : Send(s, u, c) \/ Mark(s, u, c) \/ Leave(s, u, c)
                          \/ Drop(s, u, c)
      \/ \E v \in Users, op \in {"open", "write"} : Open(s, u, v, op)
      \/ \E m \in DOMAIN log, c \in Convs : Forward(s, u, m, c)
      \/ \E m \in DOMAIN log : Edit(s, u, m) \/ Delete(s, u, m)
      \/ \E c \in Convs, v \in Users : Add(s, u, c, v) \/ Remove(s, u, c, v)
      \/ \E S \in SUBSET Users, type \in {"dm", "channel"} : Create(s, u, S, type)
      \/ LeaveAll(s, u)
    BY DEF ClientRequest
  <1>2. \A c \in Convs : c \in 0..MaxConvs
    BY DEF Convs
  <1>3. \A m \in DOMAIN log : m \in 0..MaxLog
    BY ConversationsAssumption DEF Inv, TablesOK, TablesTyped
  <1>4. ASSUME NEW c \in Convs, Send(s, u, c) \/ Mark(s, u, c) \/ Leave(s, u, c)
                                \/ Drop(s, u, c)
        PROVE  Serial' /\ Keeps
    <2>1. PICK r \in Request : r = [NoRequest EXCEPT !.user = u, !.conv = c]
      BY <1>2 DEF Request
    <2>2. QED
      BY <1>4, <2>1, ReceiveSerial DEF Send, Mark, Leave, Drop, Endpoints
  <1>5. ASSUME NEW v \in Users, NEW op \in {"open", "write"}, Open(s, u, v, op)
        PROVE  Serial' /\ Keeps
    <2>1. PICK r \in Request : r = [NoRequest EXCEPT !.user = u, !.peer = v]
      BY DEF Request
    <2>2. QED
      BY <1>5, <2>1, ReceiveSerial DEF Open, Endpoints
  <1>6. ASSUME NEW m \in DOMAIN log, NEW c \in Convs, Forward(s, u, m, c)
        PROVE  Serial' /\ Keeps
    <2>1. PICK r \in Request : r = [NoRequest EXCEPT !.user = u, !.msg = m, !.conv = c]
      BY <1>2, <1>3 DEF Request
    <2>2. QED
      BY <1>6, <2>1, ReceiveSerial DEF Forward, Endpoints
  <1>7. ASSUME NEW m \in DOMAIN log, Edit(s, u, m) \/ Delete(s, u, m)
        PROVE  Serial' /\ Keeps
    <2>1. PICK r \in Request : r = [NoRequest EXCEPT !.user = u, !.msg = m]
      BY <1>3 DEF Request
    <2>2. QED
      BY <1>7, <2>1, ReceiveSerial DEF Edit, Delete, Endpoints
  <1>8. ASSUME NEW c \in Convs, NEW v \in Users, Add(s, u, c, v) \/ Remove(s, u, c, v)
        PROVE  Serial' /\ Keeps
    <2>1. PICK r : r = [NoRequest EXCEPT !.user = u, !.peer = v, !.conv = c]
      OBVIOUS
    <2>2. r \in Request /\ r.conv = c
      BY <1>2, <2>1 DEF Request
    <2>3. QED
      BY <1>8, <2>1, <2>2, ReceiveSerial DEF Add, Remove, Endpoints
  <1>9. ASSUME NEW S \in SUBSET Users, NEW type \in {"dm", "channel"},
               Create(s, u, S, type)
        PROVE  Serial' /\ Keeps
    <2>1. PICK room : room = [NoConv EXCEPT !.type = type]
      OBVIOUS
    <2>2. room \in ConvRow
      BY <2>1, ConversationsAssumption DEF NoConv, ConvRow
    <2>3. PICK r \in Request :
            r = [NoRequest EXCEPT !.user = u, !.members = S, !.room = room]
      BY <2>2 DEF Request
    <2>4. QED
      BY <1>9, <2>1, <2>3, ReceiveSerial DEF Create, Endpoints
  <1>10. CASE LeaveAll(s, u)
    <2>1. PICK r \in Request : r = [NoRequest EXCEPT !.user = u]
      BY DEF Request
    <2>2. QED
      BY <1>10, <2>1, ReceiveSerial DEF LeaveAll, Endpoints
  <1>11. QED
    BY <1>1, <1>4, <1>5, <1>6, <1>7, <1>8, <1>9, <1>10

LEMMA FailSerial ==
    ASSUME Inv, Serial, NEW s \in Slots, Fail(s)
    PROVE  Serial' /\ Keeps
  <1>1. TablesTyped /\ DataOK /\ UNCHANGED <<conv, member, log, read>>
    BY Finds DEF Fail, tables
  <1>2. DataOK' /\ Keeps
    BY <1>1, NothingMoves
  <1>3. \A t \in Slots : req'[t] = NoRequest
    BY DEF Fail, Done, Goto, Serial, Alone, Inv, HandlersOK
  <1>4. Alone' /\ HandlerCurrent'
    <2>1. \A t \in Slots : \A p : p = req'[t] => Current(p)'
      BY <1>3, NoRequestCurrent
    <2>2. QED
      BY <1>3, <2>1 DEF Alone, HandlerCurrent
  <1>5. Showing'
    <2>1. left.faults \in 0..MaxFaults /\ left'.faults = left.faults - 1
      BY DEF Fail, Inv, BoundsOK
    <2>2. left'.faults # MaxFaults
      BY <2>1, ConversationsAssumption
    <2>3. QED
      BY <2>2 DEF Showing
  <1>6. QED
    BY <1>2, <1>4, <1>5 DEF Serial

LEMMA HandlerSerial ==
    ASSUME Inv, Serial, NEW s \in Slots, HandlerStep(s)
    PROVE  Serial' /\ Keeps
  BY SendSerial, OpenSerial, ForwardSerial, RowSerial, RosterSerial, MarkSerial,
     LeaveSerial, LeaveAllSerial, CreateSerial DEF HandlerStep

-----------------------------------------------------------------------------
(* The invariant holds, and what follows from it *)

LEMMA OverlapStays ==
    ASSUME NEW s \in Slots, HandlerStep(s) \/ Fail(s)
    PROVE  UNCHANGED overlap
  <1>1. SendLoad(s) \/ SendInsert(s) \/ SendSave(s) => UNCHANGED overlap
    BY DEF SendLoad, SendInsert, SendSave, OnlyReq, history
  <1>2. OpenFind(s) \/ OpenInsert(s) \/ OpenMembers(s) \/ OpenReload(s) => UNCHANGED overlap
    BY DEF OpenFind, OpenInsert, OpenMembers, OpenReload, OnlyReq, history
  <1>3. \/ ForwardLoad(s) \/ ForwardInsert(s) \/ EditLoad(s) \/ EditSave(s)
        \/ EditSaveConv(s) \/ EditSaveAgain(s) \/ DeleteLoad(s) \/ DeleteSave(s)
        => UNCHANGED overlap
    BY DEF ForwardLoad, ForwardInsert, EditLoad, EditSave, EditSaveConv, EditSaveAgain,
           DeleteLoad, DeleteSave, OnlyReq, history
  <1>4. \/ AddLoad(s) \/ AddInsert(s) \/ AddNote(s)
        \/ RemoveLoad(s) \/ RemoveRow(s) \/ RemoveNote(s)
        \/ MarkLoad(s) \/ MarkFind(s) \/ MarkInsert(s) \/ MarkSave(s)
        => UNCHANGED overlap
    BY DEF AddLoad, AddInsert, AddNote, RemoveLoad, RemoveRow, RemoveNote, MarkLoad,
           MarkFind, MarkInsert, MarkSave, OnlyReq, history
  <1>5. \/ LeaveLoad(s) \/ LeaveRow(s) \/ LeaveCount(s) \/ LeaveDestroy(s)
        \/ LeaveAllLoad(s) \/ LeaveAllRows(s) \/ LeaveAllCount(s)
        \/ LeaveAllMessages(s) \/ LeaveAllDestroy(s)
        => UNCHANGED overlap
    BY DEF LeaveLoad, LeaveRow, LeaveCount, LeaveDestroy, LeaveAllLoad, LeaveAllRows,
           LeaveAllCount, LeaveAllMessages, LeaveAllDestroy, OnlyReq, history
  <1>6. \/ CreateInsert(s) \/ CreateOwner(s) \/ CreateMembers(s) \/ DropChannel(s)
        \/ Fail(s)
        => UNCHANGED overlap
    BY DEF CreateInsert, CreateOwner, CreateMembers, DropChannel, Fail, history
  <1>7. CASE HandlerStep(s)
    BY <1>1, <1>2, <1>3, <1>4, <1>5, <1>6, <1>7 DEF HandlerStep
  <1>8. QED
    BY <1>6, <1>7

LEMMA SerialInit == Init => SerialInv
  <1>1. SUFFICES ASSUME Init PROVE SerialInv
    OBVIOUS
  <1>2. \A s \in Slots : req[s] = NoRequest
    BY <1>1 DEF Init
  <1>3. Alone /\ HandlerCurrent
    BY <1>2, NoRequestCurrent DEF Alone, HandlerCurrent
  <1>4. /\ \A c \in Convs : conv[c].type = "none" /\ member[c] = {} /\ PostsIn(c) = {}
        /\ \A c \in Convs, u \in Users : read[c][u] = 0
    BY <1>1 DEF Init, NoConv, PostsIn
  <1>5. DataOK
    BY <1>4 DEF DataOK, BlankOnes, PointersBehind
  <1>6. Showing
    BY <1>4 DEF Showing, Exists
  <1>7. QED
    BY <1>1, <1>3, <1>5, <1>6, InitOK DEF SerialInv, Serial

LEMMA SerialNext ==
    ASSUME SerialInv, [Next]_vars
    PROVE  SerialInv' /\ (~overlap' => Keeps)
  <1>1. Inv /\ Inv' /\ (~overlap => Serial)
    BY NextOK DEF SerialInv
  <1>2. CASE UNCHANGED vars
    <2>1. UNCHANGED <<conv, member, log, read, req, left, overlap>>
      BY <1>2 DEF vars
    <2>2. ASSUME ~overlap PROVE Serial' /\ Keeps
      <3>1. TablesTyped /\ Serial
        BY <1>1, <2>2 DEF Inv, TablesOK
      <3>2. DataOK' /\ Keeps
        BY <2>1, <3>1, NothingMoves DEF Serial
      <3>3. Alone' /\ Showing'
        BY <2>1, <3>1 DEF Serial, Alone, Showing, Exists, Shown, Tops, TextsIn, PostsIn,
                          Pending
      <3>4. HandlerCurrent'
        BY <2>1, <3>1 DEF Serial, HandlerCurrent, Current, Exists, Tops, TextsIn, PostsIn,
                          HasRow, IsPost, Same
      <3>5. QED
        BY <3>2, <3>3, <3>4 DEF Serial
    <2>3. QED
      BY <1>1, <2>1, <2>2 DEF SerialInv
  <1>3. ASSUME NEW s \in Slots, ClientRequest(s), ~overlap' PROVE Serial' /\ Keeps
    <2>1. ~overlap
      BY <1>3 DEF ClientRequest, Send, Mark, Leave, Drop, Open, Forward, Edit, Delete, Add,
                  Remove, Create, LeaveAll, Receive
    <2>2. QED
      BY <1>1, <1>3, <2>1, ClientSerial
  <1>4. ASSUME NEW s \in Slots, HandlerStep(s) \/ Fail(s), ~overlap' PROVE Serial' /\ Keeps
    <2>1. ~overlap
      BY <1>4, OverlapStays
    <2>2. QED
      BY <1>1, <1>4, <2>1, HandlerSerial, FailSerial
  <1>5. QED
    BY <1>1, <1>2, <1>3, <1>4 DEF Next, SerialInv

LEMMA SerialAlways == Spec => []SerialInv
  <1>1. SerialInv /\ [Next]_vars => SerialInv'
    BY SerialNext
  <1>2. QED
    BY <1>1, SerialInit, PTL DEF Spec

\* With no overlap and no failure, lastMessage is the newest text once nothing
\* is in flight: what sendMessage saves last, what editMessage saves again, and
\* nothing that forwardMessage, addMembers or removeConversationMember posts
THEOREM NewestTextShown == Spec => []LastIsNewestText
  <1>1. ASSUME SerialInv PROVE LastIsNewestText
    <2>1. SUFFICES ASSUME ~overlap, left.faults = MaxFaults,
                          \A s \in Slots : req[s] = NoRequest, NEW c \in Convs, Exists(c)
                   PROVE  conv[c].last = IF TextsIn(c) = {} THEN 0 ELSE Newest(TextsIn(c))
      BY DEF LastIsNewestText, TextsIn
    <2>2. TablesTyped /\ Showing
      BY <1>1, <2>1 DEF SerialInv, Serial, Inv, TablesOK
    <2>3. Shown(c)
      BY <2>1, <2>2 DEF Showing, Pending, NoRequest
    <2>4. CASE TextsIn(c) = {}
      BY <2>3, <2>4 DEF Shown, Tops
    <2>5. CASE Tops(conv[c].last, TextsIn(c))
      <3>1. TextsIn(c) \subseteq DOMAIN log
        BY DEF TextsIn, PostsIn
      <3>2. QED
        BY <2>2, <2>5, <3>1, TopIsNewest DEF Tops
    <2>6. QED
      BY <2>3, <2>4, <2>5 DEF Shown
  <1>2. QED
    BY <1>1, SerialAlways, PTL

\* A message that deleteMessage took down stays down as long as requests do not
\* overlap: editMessage saves the row as it is in the table but for its text
THEOREM NoReturn == Spec => DeletedStaysDeleted
  <1>1. SerialInv /\ [Next]_vars =>
          [~overlap' => \A m \in DOMAIN log :
             log[m].deleted /\ IsPost(m)' => log'[m].deleted]_vars
    BY SerialNext DEF Keeps, KeepsDeleted
  <1>2. QED
    BY <1>1, SerialAlways, PTL DEF Spec, DeletedStaysDeleted

\* When markConversationAsRead stores its pointer, nothing of the conversation
\* counts as unread for that user, as long as requests do not overlap
THEOREM MarkReadsAll == Spec => MarkedIsRead
  <1>1. SerialInv /\ [Next]_vars =>
          [~overlap' => \A c \in Convs, u \in Users :
             read'[c][u] # read[c][u] => UnreadIn(u, c)' = {}]_vars
    BY SerialNext DEF Keeps, KeepsMarked
  <1>2. QED
    BY <1>1, SerialAlways, PTL DEF Spec, MarkedIsRead

\* message_reads only moves forward as long as requests do not overlap: the
\* newest message is never older than the pointer, erased conversations included
THEOREM PointerForward == Spec => ReadOnlyForward
  <1>1. SerialInv /\ [Next]_vars =>
          [~overlap' => \A c \in Convs, u \in Users :
             read'[c][u] >= read[c][u]]_vars
    BY SerialNext DEF Keeps, KeepsRead
  <1>2. QED
    BY <1>1, SerialAlways, PTL DEF Spec, ReadOnlyForward

\* As long as requests do not overlap ChatService implements ChatRooms: every
\* step is somebody entering, departing, one message said or taken down, a room
\* closed, or none of that
THEOREM ImplementsRooms == Spec => FollowsRooms
  <1>1. SerialInv /\ [Next]_vars => [overlap' \/ Rooms!Change]_<<member, Visible>>
    BY SerialNext DEF Keeps, KeepsRooms
  <1>2. QED
    BY <1>1, SerialAlways, PTL DEF Spec, FollowsRooms
==============================================================================
