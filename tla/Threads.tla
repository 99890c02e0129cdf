-------------------------------- MODULE Threads --------------------------------
(***************************************************************************)
(* ChatService: the replies in the thread of one channel message, and when *)
(* each member of staff last read it.  Time is counted in writes of this   *)
(* thread; a reply is unread when it is newer than the reader's row.  The  *)
(* texts, attachments and pushes are left out.                             *)
(***************************************************************************)
EXTENDS Handlers

CONSTANTS Replies     \* ids of table thread_replies, 1..n

ASSUME ReplyIds == Replies \subseteq Nat \ {0}

VARIABLES
    reply,      \* the rows: author and createdAt
    lastRead,   \* lastReadAt of each member of staff, 0 without a row
    clock,      \* the time
    excused,    \* history: replies that were there, or came, while a request of
                \* the reader was running
    covered     \* history: those there when the reader's last request began

threadVars == <<reply, lastRead, clock, excused, covered>>

NoReply == [author |-> None, at |-> 0]
There == {x \in Replies : reply[x].at # 0}
Thread(u) == <<"thread", u>>

ThreadInit ==
    /\ reply = [x \in Replies |-> NoReply]
    /\ lastRead = [u \in Staff |-> 0]
    /\ clock = 1
    /\ excused = [u \in Staff |-> {}]
    /\ covered = [u \in Staff |-> {}]

\* A request of u on the thread begins, which may cover what is there
Begin(s, u, pc) ==
    /\ Take(s, [At(pc, Thread(u), u, None) EXCEPT !.fit = There])
    /\ excused' = [excused EXCEPT ![u] = @ \cup There]
    /\ UNCHANGED <<reply, lastRead, clock, covered>>

\* sendThreadReply: the row, the pushes, then the sender has read the thread
AskThreadReply(s, u) == Begin(s, u, "reply.insert")
InsertReply(s) ==
    LET h == desk[s]  x == clock IN
    /\ h.pc = "reply.insert" /\ x \in Replies
    /\ clock' = clock + 1
    /\ reply' = [reply EXCEPT ![x] = [author |-> h.by, at |-> clock']]
    /\ excused' = [v \in Staff |-> IF Busy(Thread(v)) THEN excused[v] \cup {x}
                                                      ELSE excused[v]]
    /\ Goes(s, [h EXCEPT !.pc = "thread.look"])
    /\ UNCHANGED <<lastRead, covered>>

\* markThreadAsRead: the row is looked for, then saved with the time of the
\* look-up; the unique index refuses a second row
AskMarkThread(s, u) == Begin(s, u, "thread.look")
LookThread(s) ==
    LET h == desk[s] IN
    /\ h.pc = "thread.look"
    /\ Goes(s, [h EXCEPT !.pc = "thread.save",
                         !.object = [fresh |-> lastRead[h.by] = 0, at |-> clock]])
    /\ UNCHANGED threadVars
SaveThread(s) ==
    LET h == desk[s]  u == h.by IN
    /\ h.pc = "thread.save"
    /\ lastRead' = IF h.object.fresh /\ lastRead[u] # 0 THEN lastRead
                   ELSE [lastRead EXCEPT ![u] = h.object.at]
    /\ covered' = [covered EXCEPT ![u] = h.fit]
    /\ Ends(s)
    /\ UNCHANGED <<reply, clock, excused>>

\* updateThreadReply, by the author: a reply removed meanwhile comes back
AskUpdateReply(s, x) ==
    /\ x \in There
    /\ Take(s, At("reply.update", <<"reply", x>>, reply[x].author, reply[x]))
    /\ UNCHANGED threadVars
SaveReply(s) ==
    LET h == desk[s]  x == h.on[2] IN
    /\ h.pc = "reply.update"
    /\ reply' = [reply EXCEPT ![x] = h.object]
    /\ Ends(s)
    /\ UNCHANGED <<lastRead, clock, excused, covered>>

\* deleteThreadReply, by the author
DeleteReply(x) ==
    /\ x \in There
    /\ Quick(<<"reply", x>>)
    /\ reply' = [reply EXCEPT ![x] = NoReply]
    /\ UNCHANGED <<lastRead, clock, excused, covered>>

ThreadStep ==
    \/ \E s \in Slots :
         \/ /\ Ready(s)
            /\ \/ \E u \in Staff : AskThreadReply(s, u) \/ AskMarkThread(s, u)
               \/ \E x \in Replies : AskUpdateReply(s, x)
         \/ InsertReply(s) \/ LookThread(s) \/ SaveThread(s) \/ SaveReply(s)
    \/ calls > 0 /\ \E x \in Replies : DeleteReply(x)

-----------------------------------------------------------------------------

\* getThreadConversations: the replies of others since
UnreadReplies(u) == {x \in There : reply[x].at > lastRead[u] /\ reply[x].author # u}

\* The replies of others that came while the reader had no request running, and
\* since the last one, are unread, unless one was removed and an edit brought it
\* back; those that were there when it began are not, unless two requests of the
\* reader crossed and the older time was saved last.  In between lie the replies
\* a sender never saw: sendThreadReply marks the thread as read when its pushes
\* are done.
UnseenIsUnread ==
    \A u \in Staff, x \in There :
        /\ reply[x].author # u /\ x \notin excused[u] /\ <<"reply", x>> \notin crossed
             => x \in UnreadReplies(u)
        /\ x \in covered[u] /\ Thread(u) \notin crossed => x \notin UnreadReplies(u)
================================================================================
