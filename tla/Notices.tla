--------------------------------- MODULE Notices ---------------------------------
(***************************************************************************)
(* NotificationService, the settings it asks, the push subscriptions, and  *)
(* the announcements and messages of the CEO that reach their readers      *)
(* through it.  Two of the settings are kept, one that gates notices and   *)
(* one that does not; the pushes themselves are left out.                  *)
(***************************************************************************)
EXTENDS Handlers, Functions

CONSTANTS
    NoticeIds,        \* ids of table notifications, 1..n
    Endpoints         \* endpoints of browsers

VARIABLES
    settings,       \* the row of each member of staff, or None
    notices,        \* the rows: for whom, of what kind, read or not
    issued,         \* how many notices were inserted
    announcement,   \* whether it is there, to whom it was sent
    message,        \* of the CEO: to all, or to whom
    subscription,   \* the owner of each endpoint, or None
    letter,         \* a message to the CEO: from whom, who replied
    steady          \* history: for each handler, whether the gate of a member of
                    \* staff was on, or off, ever since it began

tellVars == <<announcement, message, letter>>
noticeVars == <<settings, notices, issued, tellVars, subscription, steady>>

Keys == {"celebrationAlerts", "emailNotifications"}
Types == {"announcement", "ceo_message", "ceo_reply"}

ASSUME NoticeConstants ==
    /\ NoticeIds \subseteq Nat /\ IsFiniteSet(NoticeIds)
    /\ None \notin Keys /\ \A row \in [Keys -> BOOLEAN] : row # None

NoticeRow == [live |-> FALSE, to |-> None, type |-> "ceo_reply", isRead |-> FALSE,
              related |-> FALSE]
NoLetter == [live |-> FALSE, sender |-> None, replier |-> None]
Shown == {n \in NoticeIds : notices[n].live}

NoticesInit ==
    /\ settings = [u \in Staff |-> None]
    /\ notices = [n \in NoticeIds |-> NoticeRow]
    /\ issued = 0
    /\ announcement = [live |-> FALSE, selected |-> {}]
    /\ message = [live |-> FALSE, all |-> FALSE, sender |-> None, to |-> {}]
    /\ subscription = [e \in Endpoints |-> None]
    /\ letter = NoLetter
    /\ steady = [s \in Slots |-> [u \in Staff |-> "changed"]]

-----------------------------------------------------------------------------
(* NotificationSettingsService *)

Defaults == [k \in Keys |-> TRUE]

\* TYPE_TO_SETTING: the replies of the CEO are not gated
Gate(type) == IF type = "ceo_reply" THEN None ELSE "celebrationAlerts"
Always(u, key) == TRUE
IsAllowed(u, key) ==
    \/ key = None \/ settings[u] = None
    \/ key # None /\ settings[u] # None /\ settings[u][key]
On(row) == row = None \/ (row # None /\ row["celebrationAlerts"])

\* getSettings makes the row, upsertSettings makes or changes it: look, then
\* save; the unique index refuses a second row
AskSettings(s, u, change) ==
    LET old == IF settings[u] = None THEN Defaults ELSE settings[u] IN
    /\ DOMAIN change = {} => settings[u] = None
    /\ Take(s, At("settings.save", <<"settings", u>>, u,
                  [fresh |-> settings[u] = None,
                   row |-> [k \in Keys |-> IF k \in DOMAIN change THEN change[k] ELSE old[k]]]))
    /\ UNCHANGED noticeVars
SaveSettings(s) ==
    LET h == desk[s]  u == h.by IN
    /\ h.pc = "settings.save"
    /\ settings' = IF h.object.fresh /\ settings[u] # None THEN settings
                   ELSE [settings EXCEPT ![u] = h.object.row]
    /\ steady' = IF On(settings'[u]) = On(settings[u]) THEN steady
                 ELSE [r \in Slots |-> [steady[r] EXCEPT ![u] = "changed"]]
    /\ Ends(s)
    /\ UNCHANGED <<notices, issued, tellVars, subscription>>

-----------------------------------------------------------------------------
(* NotificationService *)

\* createNotificationsForStaffs begins, in slot s: each recipient's settings are
\* looked up, then the rows are saved together
Telling(h, type, to, related) ==
    IF to = {} THEN Idle
    ELSE [h EXCEPT !.pc = "notice.check", !.todo = to, !.fit = {},
                   !.object = [type |-> type, related |-> related]]
Tells(s, type, to, related) ==
    /\ Goes(s, Telling(desk[s], type, to, related))
    /\ steady' = [steady EXCEPT ![s] = [u \in Staff |-> IF On(settings[u]) THEN "on" ELSE "off"]]

CheckSettings(s, u) ==
    LET h == desk[s] IN
    /\ h.pc = "notice.check" /\ u \in h.todo
    /\ LET fit == IF IsAllowed(u, Gate(h.object.type)) THEN h.fit \cup {u} ELSE h.fit IN
       Goes(s, IF h.todo # {u} THEN [h EXCEPT !.todo = @ \ {u}, !.fit = fit]
               ELSE IF fit = {} THEN Idle
               ELSE [h EXCEPT !.pc = "notice.save", !.todo = {}, !.fit = fit])
    /\ UNCHANGED noticeVars

\* One row for each, or none when the announcement is gone
SaveNotices(s) ==
    LET h == desk[s]
        ids == CHOOSE f \in [h.fit -> issued + 1 .. issued + Cardinality(h.fit)] : IsInjective(f) IN
    /\ h.pc = "notice.save"
    /\ IF h.object.related /\ ~announcement.live
       THEN UNCHANGED <<notices, issued>>
       ELSE /\ issued' = issued + Cardinality(h.fit)
            /\ issued' \in NoticeIds
            /\ notices' = [n \in NoticeIds |->
                 IF \E u \in h.fit : ids[u] = n
                 THEN [live |-> TRUE, to |-> CHOOSE u \in h.fit : ids[u] = n,
                       type |-> h.object.type, isRead |-> FALSE, related |-> h.object.related]
                 ELSE notices[n]]
    /\ Ends(s)
    /\ UNCHANGED <<settings, tellVars, subscription, steady>>

\* markAsRead, to read or unread: load, save; a notice removed meanwhile is back,
\* without its announcement, which was not loaded
AskMarkNotice(s, n, isRead) ==
    /\ n \in Shown
    /\ Take(s, At("notice.read", <<"notice", n>>, notices[n].to,
                  [notices[n] EXCEPT !.isRead = isRead]))
    /\ UNCHANGED noticeVars
SaveMark(s) ==
    LET h == desk[s] IN
    /\ h.pc = "notice.read"
    /\ notices' = [notices EXCEPT ![h.on[2]] =
                     [h.object EXCEPT !.related = @ /\ notices[h.on[2]].live]]
    /\ Ends(s)
    /\ UNCHANGED <<settings, issued, tellVars, subscription, steady>>

\* remove, by its reader: load, refuse one that is not read, remove
AskRemoveNotice(s, n) ==
    /\ n \in Shown /\ notices[n].isRead
    /\ Take(s, At("notice.remove", <<"notice", n>>, notices[n].to, None))
    /\ UNCHANGED noticeVars
RemoveNotice(s) ==
    LET h == desk[s] IN
    /\ h.pc = "notice.remove"
    /\ notices' = [notices EXCEPT ![h.on[2]] = NoticeRow]
    /\ Ends(s)
    /\ UNCHANGED <<settings, issued, tellVars, subscription, steady>>

-----------------------------------------------------------------------------
(* AnnouncementService *)

\* The staff that are named and exist, or everyone when nobody is named
Selected(ids) == IF ids = {} THEN Staff ELSE ids \ {Ghost}

\* create: the row, then its notices
AskAnnounce(s, ids) ==
    /\ ~announcement.live /\ ~Busy(<<"announcement", 1>>)
    /\ Take(s, At("announce.create", <<"announcement", 1>>, None,
                  [live |-> TRUE, selected |-> Selected(ids)]))
    /\ UNCHANGED noticeVars
\* update: load, save (an announcement removed meanwhile is back), notices that
\* are not related to it
AskUpdateAnnouncement(s, ids) ==
    /\ announcement.live
    /\ Take(s, At("announce.update", <<"announcement", 1>>, None,
                  [live |-> TRUE, selected |-> IF ids = {} THEN announcement.selected
                                               ELSE Selected(ids)]))
    /\ UNCHANGED noticeVars
SaveAnnouncement(s) ==
    LET h == desk[s] IN
    /\ h.pc \in {"announce.create", "announce.update"}
    /\ announcement' = h.object
    /\ Tells(s, "announcement", h.object.selected, h.pc = "announce.create")
    /\ UNCHANGED <<settings, notices, issued, message, letter, subscription>>
\* remove: its notices go with it
RemoveAnnouncement ==
    /\ announcement.live
    /\ Quick(<<"announcement", 1>>)
    /\ announcement' = [live |-> FALSE, selected |-> {}]
    /\ notices' = [n \in NoticeIds |-> IF notices[n].related THEN NoticeRow ELSE notices[n]]
    /\ UNCHANGED <<settings, issued, message, letter, subscription, steady>>

-----------------------------------------------------------------------------
(* CeoMessagingCenterService and MessageCeoService *)

\* create, by a CEO: to all but the sender unless the request says otherwise
AskMessage(s, u, all, ids) ==
    /\ ~message.live /\ ~Busy(<<"message", 1>>)
    /\ Take(s, At("message.save", <<"message", 1>>, u,
          [live |-> TRUE, all |-> all # FALSE, sender |-> u,
           to |-> IF all # FALSE THEN Staff \ {u}
                  ELSE IF ids = None THEN {} ELSE ids \ {Ghost}]))
    /\ UNCHANGED noticeVars
\* update, by the sender: a list replaces the recipients even of one to all
AskUpdateMessage(s, all, ids) ==
    /\ message.live
    /\ Take(s, At("message.save", <<"message", 1>>, message.sender,
          [message EXCEPT !.all = IF all = None THEN @ ELSE all,
                          !.to = IF ids # None THEN ids \ {Ghost}
                                 ELSE IF all = TRUE THEN Staff \ {message.sender} ELSE @]))
    /\ UNCHANGED noticeVars
\* The recipients are told, and the sender
SaveMessage(s) ==
    LET h == desk[s] IN
    /\ h.pc = "message.save"
    /\ message' = h.object
    /\ Tells(s, "ceo_message", h.object.to \cup {h.object.sender}, FALSE)
    /\ UNCHANGED <<settings, notices, issued, announcement, letter, subscription>>
RemoveMessage ==
    /\ message.live
    /\ Quick(<<"message", 1>>)
    /\ message' = [message EXCEPT !.live = FALSE]
    /\ UNCHANGED <<settings, notices, issued, announcement, letter, subscription, steady>>

\* A message to the CEO; its update and the reply both save the row as loaded
WriteLetter(u) ==
    /\ ~letter.live /\ ~Busy(<<"letter", 1>>)
    /\ Quick(<<"letter", 1>>)
    /\ letter' = [live |-> TRUE, sender |-> u, replier |-> None]
    /\ UNCHANGED <<settings, notices, issued, announcement, message, subscription, steady>>
RemoveLetter ==
    /\ letter.live
    /\ Quick(<<"letter", 1>>)
    /\ letter' = NoLetter
    /\ UNCHANGED <<settings, notices, issued, announcement, message, subscription, steady>>
AskUpdateLetter(s) ==
    /\ letter.live
    /\ Take(s, At("letter.save", <<"letter", 1>>, None, letter))
    /\ UNCHANGED noticeVars
AskReply(s, ceo) ==
    /\ letter.live
    /\ Take(s, At("letter.save", <<"letter", 1>>, ceo, [letter EXCEPT !.replier = ceo]))
    /\ UNCHANGED noticeVars
SaveLetter(s) ==
    LET h == desk[s] IN
    /\ h.pc = "letter.save"
    /\ letter' = h.object
    /\ IF h.by = None THEN Ends(s) /\ UNCHANGED steady
       ELSE Tells(s, "ceo_reply", {h.object.sender}, FALSE)
    /\ UNCHANGED <<settings, notices, issued, announcement, message, subscription>>

-----------------------------------------------------------------------------
(* PushNotificationService *)

\* saveSubscription: look for the endpoint, then insert it or give it to u; the
\* index on the endpoint refuses a second row
AskSubscribe(s, u, e) ==
    /\ Take(s, At("subscription.save", <<"endpoint", e>>, u,
                  [fresh |-> subscription[e] = None]))
    /\ UNCHANGED noticeVars
SaveSubscription(s) ==
    LET h == desk[s]  e == h.on[2] IN
    /\ h.pc = "subscription.save"
    /\ subscription' = IF h.object.fresh /\ subscription[e] # None THEN subscription
                       ELSE [subscription EXCEPT ![e] = h.by]
    /\ Ends(s)
    /\ UNCHANGED <<settings, notices, issued, tellVars, steady>>
\* deleteById, deleteByUser
Unsubscribe(e) ==
    /\ subscription[e] # None
    /\ Quick(<<"endpoint", e>>)
    /\ subscription' = [subscription EXCEPT ![e] = None]
    /\ UNCHANGED <<settings, notices, issued, tellVars, steady>>
UnsubscribeUser(u) ==
    /\ \E e \in Endpoints : subscription[e] = u
    /\ Quick(<<"user", u>>)
    /\ subscription' = [e \in Endpoints |-> IF subscription[e] = u THEN None ELSE subscription[e]]
    /\ UNCHANGED <<settings, notices, issued, tellVars, steady>>

DeleteAll ==
    /\ Quick(<<"endpoint", None>>)
    /\ subscription' = [e \in Endpoints |-> None]
    /\ UNCHANGED <<settings, notices, issued, tellVars, steady>>

NoticeStep ==
    \/ \E s \in Slots :
         \/ /\ Ready(s)
            /\ \/ \E u \in Staff :
                    \/ \E named \in {{}} \cup {{k} : k \in Keys} :
                         \E change \in [named -> BOOLEAN] : AskSettings(s, u, change)
                    \/ AskReply(s, u)
                    \/ \E e \in Endpoints : AskSubscribe(s, u, e)
                    \/ \E all \in {None, TRUE, FALSE}, ids \in {None, Staff, {u, Ghost}} :
                         AskMessage(s, u, all, ids)
               \/ \E n \in NoticeIds :
                    (\E x \in BOOLEAN : AskMarkNotice(s, n, x)) \/ AskRemoveNotice(s, n)
               \/ \E ids \in {{}, {Ghost}} \cup {{u} : u \in Staff} :
                    \/ AskAnnounce(s, ids) \/ AskUpdateAnnouncement(s, ids)
                    \/ \E all \in {None, TRUE, FALSE} : AskUpdateMessage(s, all, ids)
               \/ \E all \in {None, TRUE, FALSE} : AskUpdateMessage(s, all, None)
               \/ AskUpdateLetter(s)
         \/ \E u \in Staff : CheckSettings(s, u)
         \/ SaveSettings(s) \/ SaveNotices(s) \/ SaveMark(s) \/ RemoveNotice(s)
         \/ SaveAnnouncement(s) \/ SaveMessage(s) \/ SaveLetter(s) \/ SaveSubscription(s)
    \/ /\ calls > 0
       /\ \/ RemoveAnnouncement \/ RemoveMessage \/ RemoveLetter \/ DeleteAll
          \/ \E u \in Staff : WriteLetter(u) \/ UnsubscribeUser(u)
          \/ \E e \in Endpoints : Unsubscribe(e)

-----------------------------------------------------------------------------
(* The counts, and the properties of a step *)

UnreadCount(u) == Cardinality({n \in Shown : notices[n].to = u /\ ~notices[n].isRead})
ReadCount(u) == Cardinality({n \in Shown : notices[n].to = u /\ notices[n].isRead})
\* getProductDemoAnnouncementCounts
AnnouncementCounts(u) ==
    LET Of(x) == Cardinality({n \in Shown : /\ notices[n].to = u /\ notices[n].isRead = x
                                            /\ notices[n].type # "ceo_reply"}) IN
    [unread |-> Of(FALSE), read |-> Of(TRUE), total |-> Of(FALSE) + Of(TRUE)]

Moves(s, pc) == desk[s].pc = pc /\ desk'[s] # desk[s]

\* Who is muted is not told: the announcements and CEO messages that reach a
\* member of staff come from a handler during which the gate was not off all the
\* time; and who was not muted meanwhile is told.
MutedStaysQuiet ==
    \A u \in Staff :
        /\ AnnouncementCounts(u)'.total > AnnouncementCounts(u).total =>
             \E s \in Slots :
                 \/ Moves(s, "notice.read")
                 \/ Moves(s, "notice.save") /\ u \in desk[s].fit /\ steady[s][u] # "off"
        /\ \A s \in Slots :
             Moves(s, "notice.check") /\ u \in desk[s].todo /\ steady[s][u] = "on" =>
                 u \in desk'[s].todo \cup desk'[s].fit

\* A notice that goes was read, or its announcement is gone; unless requests on
\* it crossed: remove looks whether it is read and removes it later.  The counter
\* of the unread falls, and that of the read rises, by nothing else.
OnlyReadOnesGo ==
    /\ \A n \in Shown : ~notices'[n].live =>
          \/ notices[n].isRead \/ (notices[n].related /\ ~announcement'.live)
          \/ <<"notice", n>> \in crossed
    /\ \A u \in Staff : (~\E s \in Slots : Moves(s, "notice.read")) =>
          /\ ReadCount(u)' <= ReadCount(u)
          /\ UnreadCount(u)' < UnreadCount(u) =>
               \/ announcement.live /\ ~announcement'.live
               \/ \E n \in Shown : <<"notice", n>> \in crossed

\* A reply of the CEO stays as long as its letter, unless requests crossed: an
\* update saves the letter as it was before the reply.  The settings stay.
RepliesStay ==
    /\ letter.replier # None /\ letter'.live /\ <<"letter", 1>> \notin crossed =>
         letter'.replier # None
    /\ \A u \in Staff : settings[u] # None => settings'[u] # None
================================================================================
