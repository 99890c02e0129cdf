------------------------------ MODULE Calendar ------------------------------
(***************************************************************************)
(* The calendar: CalenderService, with AvailabilityService and             *)
(* RecurrenceService, over the table calendar_events.  A handler in flight *)
(* is a record in req[slot]; one action is one database call and what runs *)
(* before the next.  Reminders and notices are timers of the process: they *)
(* hold the attendees and times of the moment they were set, no handler    *)
(* cancels them, and a restart loses them.                                 *)
(*                                                                         *)
(* External: a rule of package rrule that names no start is anchored at    *)
(* the second in which it is parsed, so its occurrences are now, now plus  *)
(* one period and so on, whatever the start of the event; setTimeout fires *)
(* at once when its delay exceeds 2^31 - 1 ms (MaxDelay); eventRepo.save   *)
(* of a loaded event looks at the row, and then writes the columns and the *)
(* rows of attendees in which the event differs from what it saw; where it *)
(* saw no row it inserts one.                                              *)
(***************************************************************************)
EXTENDS Integers, FiniteSets

CONSTANTS
    Staff,        \* staff ids
    Namesakes,    \* pairs {a, b} of staff with the same name or e-mail
    Events,       \* ids of calendar_events the database may draw
    Slots,        \* how many handlers may be in flight
    Creates,      \* bodies of POST requests
    Updates,      \* bodies of PATCH requests
    Earlier,      \* rows that may be in the table when the process starts
    None,         \* a field that is absent, a column that is null
    Leads,        \* how long before the start reminders are due
    Day,          \* ticks in a day
    Period,       \* ticks from one occurrence to the next, per frequency
    Repeats,      \* COUNT of a generated rule, per frequency
    MaxDelay,     \* longest delay setTimeout can wait for
    SixMonths,    \* how far ahead notices are set
    Horizon,      \* last tick of a behaviour
    MaxRequests,  \* requests in a behaviour
    MaxRestarts   \* restarts of the process in a behaviour

Frequencies == DOMAIN Period
OrNone(S)   == S \cup {None}

Rule == [every : Nat \ {0}, count : Nat, until : OrNone(Int)]
\* invites: the body has a field attendees (create requires it)
Body == [start : OrNone(Nat), stop : OrNone(Nat),
         invites : BOOLEAN, who : SUBSET Staff, recurring : OrNone(BOOLEAN),
         freq : OrNone(Frequencies), rule : OrNone(Rule), end : OrNone(Nat)]

Row == [by : OrNone(Staff), who : SUBSET Staff, start : Nat, stop : Nat,
        recurring : BOOLEAN, freq : OrNone(Frequencies), rule : OrNone(Rule),
        end : OrNone(Nat)]

ASSUME CalendarAssumption ==
    /\ None \notin Staff \cup Events \cup Int \cup BOOLEAN \cup Frequencies
    /\ None \notin Rule
    /\ Period \in [Frequencies -> Nat \ {0}]
    /\ Repeats \in [Frequencies -> Nat]
    /\ Leads \subseteq Nat /\ Day \in Nat \ {0}
    /\ MaxDelay \in Nat /\ SixMonths \in Nat /\ Horizon \in Nat
    /\ MaxRequests \in Nat /\ MaxRestarts \in Nat
    /\ Updates \subseteq Body /\ Earlier \subseteq Row
    /\ Creates \subseteq {b \in Body : None \notin {b.start, b.stop}}

VARIABLES
    now,      \* the clock
    rows,     \* table calendar_events with its attendees
    used,     \* ids that have been drawn
    req,      \* the handler in each slot
    timers,   \* e-mails the process has set a timer for
    left,     \* what remains of each bound
    later,    \* history: events saved since this row's conflict check began
    set,      \* history: when the reminders of an unedited event were set
    mixed     \* history: events whose row is not what its last save meant to write

history == <<later, set, mixed>>
vars == <<now, rows, used, req, timers, left, later, set, mixed>>

-----------------------------------------------------------------------------
(* Rows, handlers and timers *)

NoRow == [by |-> None, who |-> {}, start |-> 0, stop |-> 0,
          recurring |-> FALSE, freq |-> None, rule |-> None, end |-> None]

Request == [op : {"idle", "create", "update", "remove"},
            pc : {"idle", "query", "series", "save", "write", "schedule", "delete"},
            ev : OrNone(Events), row : Row, was : Row, ids : SUBSET Staff,
            clash : BOOLEAN, wrote : SUBSET Events]
Idle == [op |-> "idle", pc |-> "idle", ev |-> None, row |-> NoRow,
         was |-> NoRow, ids |-> {}, clash |-> FALSE, wrote |-> {}]

Timer == [due : Nat, ev : Events, kind : {"reminder", "notice"}, lead : Nat,
          who : SUBSET Staff]

Live(e) == rows[e] # NoRow
Gone(e) == e \in used /\ ~Live(e)

Init ==
    /\ now = 0
    /\ \/ used = {} /\ rows = [e \in Events |-> NoRow]
       \/ \E e \in Events, row \in Earlier :
             used = {e} /\ rows = [[f \in Events |-> NoRow] EXCEPT ![e] = row]
    /\ req = [s \in Slots |-> Idle]
    /\ timers = {}
    /\ left = [requests |-> MaxRequests, restarts |-> MaxRestarts]
    /\ later = [e \in Events |-> {}]
    /\ set = [e \in Events |-> None]
    /\ mixed = {}

-----------------------------------------------------------------------------
(* The services' helpers *)

Given(x, default) == IF x = None THEN default ELSE x

\* Attendees without the creator and whoever has the creator's name or e-mail
Invited(who, by) == {a \in who : a # by /\ {a, by} \notin Namesakes}

SameDay(t, u) == t \div Day = u \div Day

\* generateRuleFromFrequency
GeneratedRule(freq) ==
    [every |-> Period[freq], count |-> Repeats[freq], until |-> None]

\* ;UNTIL= the first moment of the last day
Ending(rule, end) ==
    IF end = None THEN rule ELSE [rule EXCEPT !.until = (end \div Day) * Day]

\* getOccurrencesInRange.  exact: an occurrence in the tick the range begins
\* in is not before the range (rrule drops the milliseconds).
Occurrences(rule, a, b, exact) ==
    LET all == {now + k * rule.every : k \in 0..(rule.count - 1)}
    IN  {t \in all : /\ a <= t /\ t <= b
                     /\ t = a => exact
                     /\ rule.until # None => t <= rule.until}

\* An event stands in the way of its attendees, or of its creator if it has
\* none
ConcernsAttendeesOnly(row, ids) == row.who \cap ids # {}
Concerns(row, ids) ==
    \/ row.who \cap ids # {}
    \/ row.who = {} /\ row.by \in ids

TakesTimeOfInside(row, start, stop) == row.start > start /\ row.stop < stop
TakesTimeOf(row, start, stop) == row.start < stop /\ row.stop > start

\* The non-recurring event e is in the way of handler r
Clashes(e, r) ==
    /\ Live(e) /\ e # r.ev /\ ~rows[e].recurring
    /\ TakesTimeOf(rows[e], r.row.start, r.row.stop)
    /\ Concerns(rows[e], r.ids)

\* The recurring event e is
SeriesClashes(e, r, exact) ==
    LET row == rows[e]
        dur == row.stop - row.start
    IN  /\ Live(e) /\ e # r.ev /\ row.recurring /\ row.rule # None
        /\ row.start <= r.row.stop
        /\ row.end = None \/ row.end >= r.row.start
        /\ Concerns(row, r.ids)
        /\ \E t \in Occurrences(row.rule, r.row.start, r.row.stop, exact) :
               t < r.row.stop /\ t + dur > r.row.start

-----------------------------------------------------------------------------
(* The handlers *)

Goto(s, r)    == req' = [req EXCEPT ![s] = r]
Done(s)       == Goto(s, Idle)
AfterQuery(r) == IF r.ids = {} THEN "save" ELSE "query"

Receive(s, r) ==
    /\ req[s].pc = "idle" /\ left.requests > 0
    /\ left' = [left EXCEPT !.requests = @ - 1]
    /\ Goto(s, r)
    /\ UNCHANGED <<now, rows, used, timers, history>>

BookedBare(body, u) ==
    [by |-> u, who |-> Invited(body.who, u), start |-> body.start,
     stop |-> body.stop, recurring |-> body.recurring, freq |-> body.freq,
     rule |-> body.rule, end |-> body.end]

\* The row create builds from the body
Booked(body, u) ==
    LET recurring == Given(body.recurring, FALSE)
    IN  [by |-> u, who |-> Invited(body.who, u), start |-> body.start,
         stop |-> body.stop, recurring |-> recurring, freq |-> body.freq,
         rule |-> IF recurring /\ body.freq # None /\ body.rule = None
                  THEN Ending(GeneratedRule(body.freq), body.end)
                  ELSE body.rule,
         end |-> body.end]

\* POST /calender: the conflict check is given the attendees as they came
Create(s) ==
    \E u \in Staff, body \in Creates :
        /\ body.recurring = TRUE => SameDay(body.start, body.stop)
        /\ now <= body.start /\ body.start < body.stop
        /\ LET r == [Idle EXCEPT !.op = "create", !.row = Booked(body, u),
                                 !.ids = body.who]
           IN  Receive(s, [r EXCEPT !.pc = AfterQuery(r)])

\* The row update writes over the one it loaded; a generated rule is
\* generated anew, without the end date
Edited(row, body) ==
    LET recurring == Given(body.recurring, row.recurring)
        freq      == Given(body.freq, row.freq)
    IN  [by |-> row.by,
         who |-> IF body.invites THEN Invited(body.who, row.by)
                 ELSE row.who,
         start |-> Given(body.start, row.start),
         stop |-> Given(body.stop, row.stop),
         recurring |-> recurring, freq |-> freq,
         rule |-> IF recurring /\ freq # None /\ body.rule = None
                  THEN GeneratedRule(freq) ELSE Given(body.rule, row.rule),
         end |-> Given(body.end, row.end)]

\* PATCH /calender/:id by the creator
Update(s) ==
    \E e \in Events, body \in Updates :
        /\ Live(e)
        /\ LET row == Edited(rows[e], body)
               r == [Idle EXCEPT !.op = "update", !.ev = e, !.row = row,
                                 !.ids = row.who]
           IN  /\ body.start # None => now <= row.start
               /\ {body.start, body.stop} # {None} => row.start < row.stop
               /\ Receive(s, [r EXCEPT !.pc = AfterQuery(r)])

\* DELETE /calender/:id by the creator
Remove(s) ==
    \E e \in Events :
        /\ Live(e)
        /\ Receive(s, [Idle EXCEPT !.op = "remove", !.pc = "delete",
                                   !.ev = e])

\* checkConflict: the query for non-recurring events
Query(s) ==
    /\ req[s].pc = "query"
    /\ Goto(s, [req[s] EXCEPT
                    !.pc = "series", !.wrote = {},
                    !.clash = \E e \in Events : Clashes(e, req[s])])
    /\ UNCHANGED <<now, rows, used, timers, left, history>>

\* ... the query for recurring ones, and the verdict
Series(s) ==
    /\ req[s].pc = "series"
    /\ \E exact \in BOOLEAN :
           IF \/ req[s].clash
              \/ \E e \in Events : SeriesClashes(e, req[s], exact)
           THEN Done(s)
           ELSE Goto(s, [req[s] EXCEPT !.pc = "save"])
    /\ UNCHANGED <<now, rows, used, timers, left, history>>

NewIdReused(e) == ~Live(e)
NewId(e)       == e \notin used

\* A save leaves row x under id e; the other handlers in flight have not seen it
Puts(s, e, x) ==
    /\ rows' = [rows EXCEPT ![e] = x]
    /\ used' = used \cup {e}
    /\ req' = [q \in Slots |->
                 IF q = s
                 THEN [req[q] EXCEPT !.pc = "schedule", !.ev = e, !.was = NoRow]
                 ELSE [req[q] EXCEPT
                         !.wrote = IF req[q].pc \in {"series", "save", "write"}
                                   THEN @ \cup {e} ELSE @]]
    /\ later' = [f \in Events |->
                   CASE f = e -> req[s].wrote \ {e}
                     [] f # e /\ Live(f) -> later[f] \cup {e}
                     [] OTHER -> {}]
    /\ set' = [set EXCEPT ![e] = None]
    /\ mixed' = IF x = req[s].row THEN mixed \ {e} ELSE mixed \cup {e}
    /\ UNCHANGED <<now, timers, left>>

\* eventRepo.save of a new event
Insert(s) ==
    /\ req[s].pc = "save" /\ req[s].op = "create"
    /\ \E e \in Events : NewId(e) /\ Puts(s, e, req[s].row)

\* eventRepo.save of a loaded event: the look at the row
LookAtEvent(s) ==
    /\ req[s].pc = "save" /\ req[s].op = "update"
    /\ \E e \in Events :
        /\ e = req[s].ev
        /\ Goto(s, [req[s] EXCEPT !.pc = "write", !.was = rows[e]])
    /\ UNCHANGED <<now, rows, used, timers, left, history>>

\* ... and the write of what differed
Joins(r) == r.row.who \ r.was.who
Merged(row, r) ==
    [k \in DOMAIN row |->
        IF k = "who" THEN (row.who \ (r.was.who \ r.row.who)) \cup Joins(r)
        ELSE IF r.row[k] = r.was[k] THEN row[k] ELSE r.row[k]]

\* The keys refuse a second row of an id or of an attendee, and an attendee of none
Refused(r, row) ==
    IF r.was = NoRow THEN row # NoRow
    ELSE Joins(r) # {} /\ (row = NoRow \/ Joins(r) \cap row.who # {})

Save(s) ==
    /\ req[s].pc = "write"
    /\ \E e \in Events : LET r == req[s] IN
        /\ e = r.ev
        /\ \/ /\ ~Refused(r, rows[e]) /\ (r.was = NoRow \/ Live(e))
              /\ Puts(s, e, IF Live(e) THEN Merged(rows[e], r) ELSE r.row)
           \/ /\ ~Refused(r, rows[e]) /\ r.was # NoRow /\ ~Live(e)
              /\ Goto(s, [r EXCEPT !.pc = "schedule", !.was = NoRow])
              /\ UNCHANGED <<now, rows, used, timers, left, history>>
           \/ /\ Refused(r, rows[e])
              /\ Done(s)
              /\ UNCHANGED <<now, rows, used, timers, left, history>>

Delete(s) ==
    /\ req[s].pc = "delete"
    /\ rows' = [rows EXCEPT ![req[s].ev] = NoRow]
    /\ Done(s)
    /\ later' = [later EXCEPT ![req[s].ev] = {}]
    /\ set' = [set EXCEPT ![req[s].ev] = None]
    /\ UNCHANGED <<now, used, timers, left, mixed>>

-----------------------------------------------------------------------------
(* Timers *)

\* When setTimeout fires a callback meant for tick t
FiresAt(t) == IF t - now > MaxDelay THEN now ELSE t

\* scheduleReminderEmail
RemindersFromEnd(r) ==
    {[due |-> FiresAt(r.row.stop - l), ev |-> r.ev, kind |-> "reminder",
      lead |-> l, who |-> r.row.who] :
        l \in {k \in Leads : r.row.stop - k > now}}
Reminders(r) ==
    {[due |-> FiresAt(r.row.start - l), ev |-> r.ev, kind |-> "reminder",
      lead |-> l, who |-> r.row.who] :
        l \in {k \in Leads : r.row.start - k > now}}

\* scheduleRecurrenceNotifications: all occurrences but the first
Notices(r, exact) ==
    LET all == Occurrences(r.row.rule, now, now + SixMonths, exact)
    IN  {[due |-> FiresAt(t), ev |-> r.ev, kind |-> "notice", lead |-> 0,
          who |-> r.row.who] :
            t \in {u \in all : u > now /\ \E v \in all : v < u}}

\* The e-mail about the save has been sent, or has failed: set the timers
Schedule(s) ==
    LET r == req[s]
    IN  /\ r.pc = "schedule"
        /\ \E exact \in BOOLEAN :
               timers' = timers
                   \cup (IF r.op = "create" THEN Reminders(r) ELSE {})
                   \cup (IF r.row.recurring /\ r.row.rule # None
                         THEN Notices(r, exact) ELSE {})
        /\ set' = IF r.op = "create" /\ rows[r.ev] = r.row
                  THEN [set EXCEPT ![r.ev] = now] ELSE set
        /\ Done(s)
        /\ UNCHANGED <<now, rows, used, left, later, mixed>>

\* A timer fires and its e-mail is sent
Fire(t) ==
    /\ t.due <= now
    /\ timers' = timers \ {t}
    /\ UNCHANGED <<now, rows, used, req, left, history>>

Tick ==
    /\ now < Horizon
    /\ \A t \in timers : t.due > now
    /\ now' = now + 1
    /\ UNCHANGED <<rows, used, req, timers, left, history>>

\* The process stops and starts again: handlers and timers are lost
Restart ==
    /\ left.restarts > 0
    /\ left' = [left EXCEPT !.restarts = @ - 1]
    /\ req' = [s \in Slots |-> Idle]
    /\ timers' = {}
    /\ set' = [e \in Events |-> None]
    /\ UNCHANGED <<now, rows, used, later, mixed>>

Next ==
    \/ \E s \in Slots : \/ Create(s) \/ Update(s) \/ Remove(s)
                        \/ Query(s) \/ Series(s) \/ Insert(s) \/ LookAtEvent(s)
                        \/ Save(s) \/ Delete(s) \/ Schedule(s)
    \/ \E t \in timers : Fire(t)
    \/ Tick \/ Restart

Spec == Init /\ [][Next]_vars

-----------------------------------------------------------------------------
(* Properties *)

\* Rows, handlers and timers are well formed
TypeOK ==
    /\ now \in 0..Horizon
    /\ rows \in [Events -> Row]
    /\ used \subseteq Events
    /\ req \in [Slots -> Request]
    /\ timers \subseteq Timer
    /\ left \in [requests : 0..MaxRequests, restarts : 0..MaxRestarts]
    /\ later \in [Events -> SUBSET Events]
    /\ set \in [Events -> OrNone(Nat)]
    /\ mixed \subseteq Events

\* e and f are in the diary and take the same time
Overlap(e, f) ==
    /\ e # f /\ Live(e) /\ Live(f)
    /\ ~rows[e].recurring /\ ~rows[f].recurring
    /\ rows[e].start < rows[f].stop /\ rows[f].start < rows[e].stop

\* An event takes the time and an attendee of another only if the other was saved
\* after the conflict check of the one had begun: a double booking is always a race
\* of two handlers, whatever was created, moved, given other attendees, made
\* recurring or removed before (checkConflict, then save).  No check has seen the
\* row of an event in which the columns of two updates are mixed.
DoubleBookingIsARace ==
    \A e \in Events \ mixed, f \in Events :
        Overlap(e, f) /\ rows[e].who \cap rows[f].who # {} => f \in later[e]

\* Staff are invited over an appointment of their own only when that
\* appointment was saved after the invitation was checked, or by a mixed row.
\* (The other way round nothing is checked: create and update ask only about
\* attendees.)
OwnTimeIsRespected ==
    \A e \in Events \ mixed, f \in Events :
        Overlap(e, f) /\ rows[f].who = {} /\ rows[f].by \in rows[e].who
            => f \in later[e]

\* A removed event that no handler still carries never comes back: an update
\* that loaded it before the removal is the only thing that restores it
SettledRemoval(e) == Gone(e) /\ \A s \in Slots : req[s].ev # e
RemovedForGood == [][\A e \in Events : SettledRemoval(e) => SettledRemoval(e)']_vars

\* The reminders of an event that has not been edited since they were set
\* are, lead by lead, those of its row: due before its present start and for
\* its present attendees.  Only one that is further off than setTimeout can
\* wait is not (it has fired early).
RemindersMatchRow ==
    \A e \in Events : Live(e) /\ set[e] # None =>
        \A l \in Leads :
            LET due  == rows[e].start - l
                mine == {t \in timers : /\ t.ev = e /\ t.lead = l
                                        /\ t.kind = "reminder"}
            IN  due - set[e] <= MaxDelay =>
                    /\ \A t \in mine : t.due = due /\ t.who = rows[e].who
                    /\ due > now => mine # {}

\* A reminder goes out Leads before the start of an event in the diary
\* (comment of scheduleReminderEmail)
ReminderOnTime ==
    [][\A t \in timers : Fire(t) /\ t.kind = "reminder"
           => Live(t.ev) /\ rows[t.ev].start = now + t.lead]_vars
==============================================================================
