--------------------------------- MODULE Marks ---------------------------------
(***************************************************************************)
(* Rows that say yes for one member of staff: the readers of an            *)
(* announcement and of a message of the CEO, the reactions (one emoji) to  *)
(* an idea, to a comment on it and to a chat message.  Each service looks  *)
(* for the row of the asker, then inserts or removes one.  The tables of   *)
(* the readers have a unique index; those of the pipeline have none; the   *)
(* index of table reactions has a column that is null in every row, so it  *)
(* refuses nothing.                                                        *)
(***************************************************************************)
EXTENDS Handlers

VARIABLES
    rows,       \* the ids of the rows, per kind and member of staff
    made,       \* how many rows were ever inserted
    open,       \* whether the announcement, message, idea ... is there
    wanted      \* history: what the last request wanted

markVars == <<rows, made, open, wanted>>

Readers == {"announcement", "ceo"}
Reactions == {"idea", "remark", "chat"}
Kinds == Readers \cup Reactions
Unique == Readers

MarksInit ==
    /\ rows = [k \in Kinds |-> [u \in Staff |-> {}]]
    /\ made = 0
    /\ open = [k \in Kinds |-> TRUE]
    /\ wanted = [k \in Kinds |-> [u \in Staff |-> FALSE]]

\* Look for the row, then insert one or, with remove, take that one away; a mark
\* that is there already and one to remove that is not are answered at once
LookToInsert(s, k, u) ==
    /\ open[k]
    /\ IF rows[k][u] = {} THEN Take(s, At("mark.insert", <<k, u>>, u, None))
                          ELSE Quick(<<k, u>>)
    /\ UNCHANGED markVars
LookToRemove(s, k, u) ==
    /\ IF rows[k][u] = {} THEN Quick(<<k, u>>)
       ELSE \E x \in rows[k][u] : Take(s, At("mark.remove", <<k, u>>, u, x))
    /\ UNCHANGED markVars
LookToToggle(s, k, u) == IF rows[k][u] = {} THEN LookToInsert(s, k, u)
                                            ELSE open[k] /\ LookToRemove(s, k, u)

\* AnnouncementService
AskMarkAsRead(s, u) == LookToInsert(s, "announcement", u)
AskMarkAsUnread(s, u) == LookToRemove(s, "announcement", u)
\* CeoMessagingCenterService
AskMarkMessageAsRead(s, u) == LookToInsert(s, "ceo", u)
\* PipelineService
AskReactToIdea(s, u) == LookToToggle(s, "idea", u)
AskReactToComment(s, u) == LookToToggle(s, "remark", u)
\* ChatService, for a message or a reply in a thread
AskToggleReaction(s, u) == LookToToggle(s, "chat", u)

Accepted(k, u) == FALSE

\* The index, or the foreign key of what was removed meanwhile, refuses the row
Refused(k, u) == ~open[k] \/ (k \in Unique /\ rows[k][u] # {})
InsertMark(s) ==
    LET h == desk[s]  k == h.on[1]  u == h.on[2] IN
    /\ h.pc = "mark.insert"
    /\ IF Refused(k, u)
       THEN UNCHANGED <<rows, made, wanted>>
       ELSE /\ made' = made + 1
            /\ rows' = [rows EXCEPT ![k][u] = @ \cup {made'}]
            /\ wanted' = [wanted EXCEPT ![k][u] = TRUE]
    /\ Ends(s)
    /\ UNCHANGED open
RemoveMark(s) ==
    LET h == desk[s]  k == h.on[1]  u == h.on[2] IN
    /\ h.pc = "mark.remove"
    /\ rows' = [rows EXCEPT ![k][u] = @ \ {h.object}]
    /\ wanted' = [wanted EXCEPT ![k][u] = FALSE]
    /\ Ends(s)
    /\ UNCHANGED <<made, open>>

\* remove of an announcement, a message of the CEO or an idea: its rows go too,
\* with an idea its comments and the reactions to them
GoneWith(k) == IF k = "idea" THEN {"idea", "remark"} ELSE {k}
Cleared(f, k, none) ==
    [i \in Kinds |-> IF i \in GoneWith(k) THEN [u \in Staff |-> none] ELSE f[i]]
RemoveParent(k) ==
    /\ open[k] /\ k \in {"announcement", "ceo", "idea"}
    /\ Quick(<<k, None>>)
    /\ open' = [i \in Kinds |-> open[i] /\ i \notin GoneWith(k)]
    /\ rows' = Cleared(rows, k, {})
    /\ wanted' = Cleared(wanted, k, FALSE)
    /\ UNCHANGED made

MarkStep ==
    \/ \E s \in Slots :
         \/ /\ Ready(s)
            /\ \E u \in Staff :
                 \/ AskMarkAsRead(s, u) \/ AskMarkAsUnread(s, u)
                 \/ AskMarkMessageAsRead(s, u)
                 \/ AskReactToIdea(s, u) \/ AskReactToComment(s, u) \/ AskToggleReaction(s, u)
         \/ InsertMark(s) \/ RemoveMark(s)
    \/ \E k \in Kinds : RemoveParent(k)

-----------------------------------------------------------------------------
(* The counts *)

HowMany(k) == MapThenSumSet(LAMBDA u : Cardinality(rows[k][u]), Staff)
Who(k) == {u \in Staff : rows[k][u] # {}}

\* getReactionsState: the emoji is there while it has a row
ReactionState(k) == [count |-> HowMany(k), users |-> Who(k)]

\* AnnouncementService.getReadUnreadCount, of the staff it was sent to
ReadUnreadCount(selected) ==
    [total |-> Cardinality(selected), read |-> HowMany("announcement"),
     unread |-> Cardinality(selected) - HowMany("announcement")]

\* CeoMessagingCenterService.getReadStats: everyone but the sender, or the list
ReadStats(all, to) ==
    LET total == IF all THEN Cardinality(Staff) - 1 ELSE Cardinality(to)
        left == total - HowMany("ceo") IN
    [total |-> total, read |-> HowMany("ceo"), unread |-> IF left > 0 THEN left ELSE 0]

-----------------------------------------------------------------------------
(* Properties *)

\* A member of staff has at most one row, and it is there when the last request
\* wanted it: two requests of one reader never leave two rows, two toggles of a
\* reaction do only when they crossed.  What was removed has no rows.  The
\* readers are counted right as long as only those it was sent to have read it.
MarksAreSingle ==
    /\ \A k \in Kinds, u \in Staff :
         /\ k \in Readers => Cardinality(rows[k][u]) <= 1
         /\ ~Busy(<<k, u>>) /\ <<k, u>> \notin crossed =>
              Cardinality(rows[k][u]) = IF wanted[k][u] THEN 1 ELSE 0
         /\ ~open[k] => rows[k][u] = {}
    /\ \A selected \in SUBSET Staff :
         Who("announcement") \subseteq selected =>
             ReadUnreadCount(selected).unread = Cardinality(selected \ Who("announcement"))
    /\ \A from \in Staff, to \in SUBSET Staff :
         /\ Who("ceo") \subseteq Staff \ {from} =>
              ReadStats(TRUE, to).unread = Cardinality(Staff \ (Who("ceo") \cup {from}))
         /\ Who("ceo") \subseteq to =>
              ReadStats(FALSE, to).unread = Cardinality(to \ Who("ceo"))
================================================================================
