---------------------------- MODULE ScheduledMessages ----------------------------
(***************************************************************************)
(* ChatService: the messages that are sent at a time of the day, daily,    *)
(* weekly or once, by a timer of 60 s in the process.  The hour is left    *)
(* out: once a day the tick falls into the minute of every schedule, or,   *)
(* since the timer drifts and the process may be down, into none; or two   *)
(* do.  A tick runs its sends one after the other on the rows it loaded;   *)
(* that it is done before the next one is assumed.  A restart loses the    *)
(* rest of it.                                                             *)
(***************************************************************************)
EXTENDS Handlers

CONSTANTS
    Schedules,        \* ids of table scheduled_messages, 1..n
    LastDay           \* the days are 1..LastDay, day 1 one of the week

ASSUME ScheduleConstants == None \notin Schedules /\ LastDay \in Nat

VARIABLES
    schedule,   \* the rows
    day,        \* the day
    ticks,      \* ticks that have fallen into the minute today, at most two
    tick,       \* the tick that runs: the rows it has loaded and not yet done,
                \* the one it has sent and not saved
    posted,     \* history: the days on which each was sent, in order
    unsure      \* history: schedules whose send failed or was not saved, which
                \* a request changed while a tick had them, or which were
                \* switched on again

scheduleVars == <<schedule, day, ticks, tick, posted, unsure>>

Frequencies == {"daily", "weekly", "once"}
NoSchedule == [live |-> FALSE, frequency |-> "daily", dayOfWeek |-> 0, active |-> FALSE,
               lastRun |-> 0]
NoTick == [rows |-> <<>>, left |-> {}, sent |-> None]
Planned == {x \in Schedules : schedule[x].live}

ScheduleInit ==
    /\ schedule = [x \in Schedules |-> NoSchedule]
    /\ day = 1
    /\ ticks = 0
    /\ tick = NoTick
    /\ posted = [x \in Schedules |-> <<>>]
    /\ unsure = {}

\* scheduleMessage
ScheduleMessage(x, frequency, d) ==
    /\ x \notin Planned /\ posted[x] = <<>> /\ x \notin unsure
    /\ Quick(<<"schedule", x>>)
    /\ schedule' = [schedule EXCEPT ![x] = [live |-> TRUE, frequency |-> frequency,
                      dayOfWeek |-> d, active |-> TRUE, lastRun |-> 0]]
    /\ UNCHANGED <<day, ticks, tick, posted, unsure>>

Held(x) == x \in tick.left \/ x = tick.sent

\* toggleScheduledMessage, by the author: load, then save the row as loaded
AskToggle(s, x) ==
    /\ x \in Planned
    /\ Take(s, At("schedule.save", <<"schedule", x>>, None,
                  [schedule[x] EXCEPT !.active = ~@]))
    /\ UNCHANGED scheduleVars
SaveToggle(s) ==
    LET h == desk[s]  x == h.on[2] IN
    /\ h.pc = "schedule.save"
    /\ schedule' = [schedule EXCEPT ![x] = h.object]
    /\ unsure' = IF h.object.active \/ Held(x) THEN unsure \cup {x} ELSE unsure
    /\ Ends(s)
    /\ UNCHANGED <<day, ticks, tick, posted>>

\* deleteScheduledMessage, by the author
DeleteSchedule(x) ==
    /\ x \in Planned
    /\ Quick(<<"schedule", x>>)
    /\ schedule' = [schedule EXCEPT ![x] = NoSchedule]
    /\ unsure' = IF Held(x) \/ Busy(<<"schedule", x>>) THEN unsure \cup {x} ELSE unsure
    /\ UNCHANGED <<day, ticks, tick, posted>>

-----------------------------------------------------------------------------
(* processScheduledMessages *)

Due(row) ==
    /\ row.live /\ row.active
    /\ row.frequency = "weekly" => row.dayOfWeek = day % 7
    /\ row.lastRun # day

\* The tick in the minute of the schedules loads the active ones
Tick ==
    /\ tick = NoTick /\ ticks < 2
    /\ ticks' = ticks + 1
    /\ tick' = [rows |-> schedule, left |-> {x \in Schedules : Due(schedule[x])},
                sent |-> None]
    /\ tick'.left # {}
    /\ UNCHANGED <<schedule, day, posted, unsure, desk, calls, crossed>>

\* It sends one; a send that fails, before or after the message was inserted,
\* is logged and the schedule is not saved
SendScheduled(x) ==
    /\ x \in tick.left /\ tick.sent = None
    /\ \E inserted, fails \in BOOLEAN :
         /\ inserted \/ fails
         /\ posted' = IF inserted THEN [posted EXCEPT ![x] = Append(@, day)] ELSE posted
         /\ unsure' = IF fails THEN unsure \cup {x} ELSE unsure
         /\ tick' = [tick EXCEPT !.left = @ \ {x}, !.sent = IF fails THEN None ELSE x]
    /\ UNCHANGED <<schedule, day, ticks, desk, calls, crossed>>

\* and saves the row it had loaded, with the time; one that was sent once is no
\* longer active, one that was deleted is back
StillActive(row) == [row EXCEPT !.lastRun = day]
Run(row) == [row EXCEPT !.lastRun = day, !.active = row.frequency # "once"]
SaveRun ==
    LET x == tick.sent IN
    /\ x # None
    /\ schedule' = [schedule EXCEPT ![x] = Run(tick.rows[x])]
    /\ tick' = [tick EXCEPT !.sent = None]
    /\ UNCHANGED <<day, ticks, posted, unsure, desk, calls, crossed>>

EndTick ==
    /\ tick # NoTick /\ tick.left = {} /\ tick.sent = None
    /\ tick' = NoTick
    /\ UNCHANGED <<schedule, day, ticks, posted, unsure, desk, calls, crossed>>

Restart ==
    /\ tick # NoTick
    /\ tick' = NoTick
    /\ unsure' = IF tick.sent = None THEN unsure ELSE unsure \cup {tick.sent}
    /\ desk' = [s \in Slots |-> Idle]
    /\ UNCHANGED <<schedule, day, ticks, posted, calls, crossed>>

NextDay ==
    /\ day < LastDay /\ tick = NoTick
    /\ day' = day + 1 /\ ticks' = 0
    /\ UNCHANGED <<schedule, tick, posted, unsure, desk, calls, crossed>>

ScheduleStep ==
    \/ /\ calls > 0
       /\ \E x \in Schedules :
            \/ \E f \in Frequencies, d \in {1, 2} : ScheduleMessage(x, f, d)
            \/ DeleteSchedule(x)
    \/ \E s \in Slots :
         \/ Ready(s) /\ \E x \in Schedules : AskToggle(s, x)
         \/ SaveToggle(s)
    \/ \E x \in Schedules : SendScheduled(x)
    \/ Tick \/ SaveRun \/ EndTick \/ Restart \/ NextDay

-----------------------------------------------------------------------------

\* A message that is to be sent once is sent once, then switched off; no message
\* is sent twice on a day, a weekly one only on its day, and none that is off or
\* was deleted.  Left out are those whose send failed or was lost between the
\* message and the save (they are sent again), those a request met in a tick,
\* and those that their author switched on again.
OnceIsOnce ==
    \A x \in Schedules \ unsure :
        /\ \A j, k \in DOMAIN posted[x] : j # k => posted[x][j] # posted[x][k]
        /\ schedule[x].live /\ schedule[x].frequency = "once" =>
             /\ Len(posted[x]) <= 1
             /\ posted[x] # <<>> /\ tick.sent # x => ~schedule[x].active
        /\ schedule[x].live /\ schedule[x].frequency = "weekly" =>
             \A k \in DOMAIN posted[x] : posted[x][k] % 7 = schedule[x].dayOfWeek
        /\ x \in tick.left => schedule[x].live /\ schedule[x].active
================================================================================
