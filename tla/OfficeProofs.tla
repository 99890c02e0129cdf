---------------------------- MODULE OfficeProofs ----------------------------
(***************************************************************************)
(* Proofs about the services of MCOffice, for every number of rows, days,  *)
(* people and handlers: scheduled messages, readers and reactions,         *)
(* threads, leave, tickets, ideas and notices.  Each invariant says what   *)
(* handlers have read and will save: at a thing no two handlers crossed    *)
(* that is the row as it is now.  The counts are sums over finite sets.    *)
(***************************************************************************)
EXTENDS MCOffice, Counting, FiniteSetTheorems, TLAPS

-----------------------------------------------------------------------------
(* Scheduled messages *)

PlanRow == [live : BOOLEAN, frequency : Frequencies, dayOfWeek : Int,
            active : BOOLEAN, lastRun : Int]

OnItsDay(row) == row.frequency = "weekly" => row.dayOfWeek = day % 7

\* What is true of a schedule nothing has met: the tick that will send it, or has
\* sent it, holds its row; it was sent on other days only, unless its row says so
SoundSchedule(x) ==
    /\ \A k \in DOMAIN posted[x] : posted[x][k] <= day
    /\ \A j, k \in DOMAIN posted[x] : j # k => posted[x][j] # posted[x][k]
    /\ x \in tick.left =>
         /\ tick.sent # x /\ tick.rows[x] = schedule[x] /\ Due(schedule[x])
    /\ tick.sent = x =>
         /\ tick.rows[x] = schedule[x] /\ schedule[x].live /\ OnItsDay(schedule[x])
    /\ schedule[x].live /\ schedule[x].active /\ schedule[x].lastRun # day /\ tick.sent # x =>
         \A k \in DOMAIN posted[x] : posted[x][k] # day
    /\ schedule[x].live /\ schedule[x].frequency = "once" =>
         /\ Len(posted[x]) <= 1
         /\ posted[x] # <<>> /\ tick.sent # x => ~schedule[x].active
    /\ schedule[x].live /\ schedule[x].frequency = "weekly" =>
         \A k \in DOMAIN posted[x] : posted[x][k] % 7 = schedule[x].dayOfWeek

\* A handler that toggles a schedule nothing has met: it is not deleted, and the
\* object it will save differs in no column that is never edited
SoundToggle(h) ==
    \E x \in Schedules :
        /\ h.on = <<"schedule", x>> /\ h.object \in PlanRow
        /\ x \notin unsure =>
             /\ schedule[x].live /\ h.object.live
             /\ h.object.frequency = schedule[x].frequency
             /\ h.object.dayOfWeek = schedule[x].dayOfWeek

PlanTypes ==
    /\ schedule \in [Schedules -> PlanRow]
    /\ posted \in [Schedules -> Seq(Int)]
    /\ day \in Nat \ {0}
    /\ unsure \subseteq Schedules
    /\ tick = NoTick \/ /\ tick \in [rows : [Schedules -> PlanRow],
                                     left : SUBSET Schedules, sent : Schedules \cup {None}]

ScheduleInv ==
    /\ PlanTypes
    /\ desk = [s \in Slots |-> desk[s]]
    /\ \A x \in Schedules \ unsure : SoundSchedule(x)
    /\ \A s \in Slots : desk[s].pc = "schedule.save" => SoundToggle(desk[s])

\* The services share no table: outside its scene this one has none
PlanInv == /\ scene \in Scenes
           /\ scene # "schedules" => ScheduleInit
           /\ scene = "schedules" => ScheduleInv

LEMMA IdleSaves == Idle.pc # "schedule.save"
  BY DEF Idle

LEMMA NoScheduleTyped == NoSchedule \in PlanRow
  BY DEF NoSchedule, PlanRow, Frequencies

\* A schedule that a step does not touch stays sound
LEMMA Untouched ==
    ASSUME NEW x \in Schedules, SoundSchedule(x),
           schedule'[x] = schedule[x], posted'[x] = posted[x], day' = day,
           x \in tick'.left => x \in tick.left /\ tick'.rows[x] = tick.rows[x],
           tick'.sent = x <=> tick.sent = x,
           tick'.sent = x => tick'.rows[x] = tick.rows[x]
    PROVE  SoundSchedule(x)'
  BY DEF SoundSchedule, Due, OnItsDay

\* A handler that goes on as before saves what it would have
LEMMA SameToggle ==
    ASSUME NEW h, SoundToggle(h), unsure \subseteq unsure',
           \A x \in Schedules \ unsure' :
               h.on = <<"schedule", x>> =>
                 /\ schedule'[x].live = schedule[x].live
                 /\ schedule'[x].frequency = schedule[x].frequency
                 /\ schedule'[x].dayOfWeek = schedule[x].dayOfWeek
    PROVE  \E x \in Schedules :
        /\ h.on = <<"schedule", x>> /\ h.object \in PlanRow
        /\ x \notin unsure' =>
             /\ schedule'[x].live /\ h.object.live
             /\ h.object.frequency = schedule'[x].frequency
             /\ h.object.dayOfWeek = schedule'[x].dayOfWeek
  <1>1. PICK x \in Schedules :
            /\ h.on = <<"schedule", x>> /\ h.object \in PlanRow
            /\ x \notin unsure =>
                 /\ schedule[x].live /\ h.object.live
                 /\ h.object.frequency = schedule[x].frequency
                 /\ h.object.dayOfWeek = schedule[x].dayOfWeek
    BY DEF SoundToggle
  <1> QED BY <1>1

\* If no handler moves, the desk keeps what is known of it
LEMMA SameDesk ==
    ASSUME ScheduleInv, desk' = desk, unsure \subseteq unsure',
           \A x \in Schedules \ unsure', s \in Slots :
               desk[s].on = <<"schedule", x>> =>
                 /\ schedule'[x].live = schedule[x].live
                 /\ schedule'[x].frequency = schedule[x].frequency
                 /\ schedule'[x].dayOfWeek = schedule[x].dayOfWeek
    PROVE  /\ desk' = [s \in Slots |-> desk'[s]]
           /\ \A s \in Slots : desk'[s].pc = "schedule.save" => SoundToggle(desk[s])'
  <1>1. SUFFICES ASSUME NEW s \in Slots, desk[s].pc = "schedule.save"
                 PROVE  SoundToggle(desk[s])'
    BY DEF ScheduleInv
  <1>2. SoundToggle(desk[s])
    BY <1>1 DEF ScheduleInv
  <1> QED BY <1>2, SameToggle DEF SoundToggle
LEMMA LastOrBefore ==
    ASSUME NEW n \in Nat, NEW k \in 1..(n + 1)
    PROVE  k \in 1..n \/ (k = n + 1 /\ k \notin 1..n)
  OBVIOUS

LEMMA AppendFacts ==
    ASSUME NEW q \in Seq(Int), NEW d \in Int
    PROVE  /\ Len(q) \in Nat /\ DOMAIN q = 1..Len(q)
           /\ Append(q, d) \in Seq(Int) /\ Append(q, d) # <<>>
           /\ Len(Append(q, d)) = Len(q) + 1
           /\ DOMAIN Append(q, d) = 1..(Len(q) + 1)
           /\ Append(q, d)[Len(q) + 1] = d
           /\ \A k \in 1..Len(q) : Append(q, d)[k] = q[k]
  OBVIOUS

LEMMA PlanBasics ==
    ASSUME ScheduleInv
    PROVE  /\ PlanTypes
           /\ \A x \in Schedules : schedule[x] \in PlanRow /\ posted[x] \in Seq(Int)
           /\ tick.left \subseteq Schedules /\ tick.sent \in Schedules \cup {None}
           /\ tick.sent # None => tick.rows \in [Schedules -> PlanRow]
           /\ tick.left # {} => tick.rows \in [Schedules -> PlanRow]
  BY ScheduleConstants DEF ScheduleInv, PlanTypes, NoTick

LEMMA ScheduleMessageSound ==
    ASSUME ScheduleInv, NEW x \in Schedules, NEW f \in Frequencies, NEW d \in {1, 2},
           ScheduleMessage(x, f, d)
    PROVE  ScheduleInv'
  <1>1. /\ x \notin Planned /\ posted[x] = <<>> /\ x \notin unsure
        /\ desk' = desk /\ UNCHANGED <<day, ticks, tick, posted, unsure>>
        /\ schedule' = [schedule EXCEPT ![x] = [live |-> TRUE, frequency |-> f,
                          dayOfWeek |-> d, active |-> TRUE, lastRun |-> 0]]
    BY DEF ScheduleMessage, Quick
  <1>2. ~schedule[x].live
    BY <1>1 DEF Planned
  <1>3. PlanTypes'
    BY <1>1, PlanBasics DEF PlanTypes, PlanRow
  <1>4. ASSUME NEW y \in Schedules \ unsure'
        PROVE  SoundSchedule(y)'
    <2>1. SoundSchedule(y)
      BY <1>1 DEF ScheduleInv
    <2>2. CASE y # x
      BY <1>1, <2>1, <2>2, PlanBasics, Untouched DEF PlanTypes
    <2>3. CASE y = x
      <3>1. schedule'[x] = [live |-> TRUE, frequency |-> f, dayOfWeek |-> d,
                            active |-> TRUE, lastRun |-> 0]
        BY <1>1, PlanBasics DEF PlanTypes
      <3>2. x \notin tick.left /\ tick.sent # x
        BY <1>2, <2>1, <2>3 DEF SoundSchedule, Due
      <3>3. DOMAIN posted[x] = {} /\ Len(posted[x]) = 0
        BY <1>1
      <3> QED BY <1>1, <2>3, <3>1, <3>2, <3>3 DEF SoundSchedule
    <2> QED BY <2>2, <2>3
  <1>5. ASSUME NEW s \in Slots, desk[s].pc = "schedule.save"
        PROVE  desk[s].on # <<"schedule", x>>
    <2>1. PICK y \in Schedules : /\ desk[s].on = <<"schedule", y>>
                                 /\ y \notin unsure => schedule[y].live
      BY <1>5 DEF ScheduleInv, SoundToggle
    <2> QED BY <1>1, <1>2, <2>1
  <1>6. ASSUME NEW s \in Slots, desk[s].pc = "schedule.save"
        PROVE  SoundToggle(desk[s])'
    <2>1. SoundToggle(desk[s])
      BY <1>6 DEF ScheduleInv
    <2>2. \A y \in Schedules : y # x => schedule'[y] = schedule[y]
      BY <1>1, PlanBasics DEF PlanTypes
    <2> QED BY <1>1, <1>5, <1>6, <2>1, <2>2 DEF SoundToggle
  <1>7. desk' = [s \in Slots |-> desk'[s]]
    BY <1>1 DEF ScheduleInv
  <1> QED BY <1>1, <1>3, <1>4, <1>6, <1>7 DEF ScheduleInv

LEMMA AskToggleSound ==
    ASSUME ScheduleInv, NEW t \in Slots, NEW x \in Schedules, AskToggle(t, x)
    PROVE  ScheduleInv'
  <1> DEFINE h == At("schedule.save", <<"schedule", x>>, None,
                     [schedule[x] EXCEPT !.active = ~@])
  <1>1. /\ schedule[x].live /\ desk' = [desk EXCEPT ![t] = h]
        /\ UNCHANGED scheduleVars
    BY DEF AskToggle, Take, Planned
  <1>2. /\ h.on = <<"schedule", x>>
        /\ h.object = [schedule[x] EXCEPT !.active = ~@]
    BY DEF At, Idle
  <1>3. SoundToggle(h)
    <2>1. schedule[x] \in PlanRow
      BY PlanBasics
    <2>2. /\ h.object \in PlanRow /\ h.object.live
          /\ h.object.frequency = schedule[x].frequency
          /\ h.object.dayOfWeek = schedule[x].dayOfWeek
      <3> DEFINE switched == ~schedule[x].active
      <3>1. switched \in BOOLEAN
        OBVIOUS
      <3>2. h.object = [schedule[x] EXCEPT !.active = switched]
        BY <1>2
      <3> HIDE DEF switched, h
      <3> QED BY <1>1, <2>1, <3>1, <3>2 DEF PlanRow
    <2> HIDE DEF h
    <2> QED BY <1>1, <1>2, <2>2 DEF SoundToggle
  <1> HIDE DEF h
  <1>4. PlanTypes' /\ \A y \in Schedules \ unsure' : SoundSchedule(y)'
    BY <1>1 DEF ScheduleInv, PlanTypes, SoundSchedule, Due, OnItsDay, scheduleVars
  <1>5. /\ desk' = [s \in Slots |-> desk'[s]]
        /\ desk'[t] = h /\ \A s \in Slots : s # t => desk'[s] = desk[s]
    BY <1>1 DEF ScheduleInv
  <1>6. ASSUME NEW s \in Slots, desk'[s].pc = "schedule.save"
        PROVE  SoundToggle(desk[s])'
    <2>1. SoundToggle(desk'[s])
      BY <1>3, <1>5, <1>6 DEF ScheduleInv
    <2> QED BY <1>1, <2>1 DEF SoundToggle, scheduleVars
  <1> QED BY <1>4, <1>5, <1>6 DEF ScheduleInv

LEMMA SaveToggleSound ==
    ASSUME ScheduleInv, NEW t \in Slots, SaveToggle(t)
    PROVE  ScheduleInv'
  <1>1. desk[t].pc = "schedule.save" /\ SoundToggle(desk[t])
    BY DEF SaveToggle, ScheduleInv
  <1>2. PICK x \in Schedules :
            /\ desk[t].on = <<"schedule", x>> /\ desk[t].object \in PlanRow
            /\ x \notin unsure =>
                 /\ schedule[x].live /\ desk[t].object.live
                 /\ desk[t].object.frequency = schedule[x].frequency
                 /\ desk[t].object.dayOfWeek = schedule[x].dayOfWeek
    BY <1>1 DEF SoundToggle
  <1>3. /\ schedule' = [schedule EXCEPT ![x] = desk[t].object]
        /\ unsure' = IF desk[t].object.active \/ Held(x) THEN unsure \cup {x} ELSE unsure
        /\ desk' = [desk EXCEPT ![t] = Idle] /\ UNCHANGED <<day, ticks, tick, posted>>
    BY <1>2 DEF SaveToggle, Ends, Goes
  <1>4. /\ schedule'[x] = desk[t].object
        /\ \A y \in Schedules : y # x => schedule'[y] = schedule[y]
    BY <1>3, PlanBasics DEF PlanTypes
  <1>5. PlanTypes'
    BY <1>2, <1>3, PlanBasics DEF PlanTypes
  <1>6. ASSUME NEW y \in Schedules \ unsure'
        PROVE  SoundSchedule(y)'
    <2>1. SoundSchedule(y)
      BY <1>3, <1>6 DEF ScheduleInv
    <2>2. CASE y # x
      BY <1>3, <1>4, <2>1, <2>2, Untouched
    <2>3. CASE y = x
      <3>1. /\ ~desk[t].object.active /\ x \notin unsure
            /\ x \notin tick.left /\ x # tick.sent
        BY <1>3, <1>6, <2>3 DEF Held
      <3> QED BY <1>2, <1>3, <1>4, <2>1, <2>3, <3>1 DEF SoundSchedule
    <2> QED BY <2>2, <2>3
  <1>7. /\ desk' = [s \in Slots |-> desk'[s]]
        /\ desk'[t] = Idle /\ \A s \in Slots : s # t => desk'[s] = desk[s]
    BY <1>3 DEF ScheduleInv
  <1>8. ASSUME NEW s \in Slots, desk'[s].pc = "schedule.save"
        PROVE  SoundToggle(desk[s])'
    <2>1. SoundToggle(desk[s]) /\ desk'[s] = desk[s]
      BY <1>7, <1>8, IdleSaves DEF ScheduleInv
    <2>2. \A y \in Schedules \ unsure' :
             /\ schedule'[y].live = schedule[y].live
             /\ schedule'[y].frequency = schedule[y].frequency
             /\ schedule'[y].dayOfWeek = schedule[y].dayOfWeek
      <3> SUFFICES ASSUME NEW y \in Schedules \ unsure', y = x
                   PROVE  /\ schedule'[y].live = schedule[y].live
                          /\ schedule'[y].frequency = schedule[y].frequency
                          /\ schedule'[y].dayOfWeek = schedule[y].dayOfWeek
        BY <1>4
      <3>1. x \notin unsure
        BY <1>3
      <3>2. schedule[x].live /\ desk[t].object.live
        BY <1>2, <3>1
      <3>3. schedule[x].live = TRUE /\ desk[t].object.live = TRUE
        BY <1>2, <3>2, PlanBasics DEF PlanRow
      <3> QED BY <1>2, <1>4, <3>1, <3>3
    <2> QED BY <1>3, <2>1, <2>2, SameToggle DEF SoundToggle
  <1> QED BY <1>5, <1>6, <1>7, <1>8 DEF ScheduleInv
LEMMA DeleteScheduleSound ==
    ASSUME ScheduleInv, NEW x \in Schedules, DeleteSchedule(x)
    PROVE  ScheduleInv'
  <1>1. /\ schedule' = [schedule EXCEPT ![x] = NoSchedule]
        /\ unsure' = IF Held(x) \/ Busy(<<"schedule", x>>) THEN unsure \cup {x} ELSE unsure
        /\ desk' = desk /\ UNCHANGED <<day, ticks, tick, posted>>
    BY DEF DeleteSchedule, Quick
  <1>2. /\ schedule'[x] = NoSchedule
        /\ \A y \in Schedules : y # x => schedule'[y] = schedule[y]
    BY <1>1, PlanBasics DEF PlanTypes
  <1>3. PlanTypes'
    BY <1>1, NoScheduleTyped, PlanBasics DEF PlanTypes
  <1>4. ASSUME NEW y \in Schedules \ unsure'
        PROVE  SoundSchedule(y)'
    <2>1. SoundSchedule(y)
      BY <1>1, <1>4 DEF ScheduleInv
    <2>2. CASE y # x
      BY <1>1, <1>2, <2>1, <2>2, Untouched
    <2>3. CASE y = x
      <3>1. x \notin tick.left /\ x # tick.sent
        BY <1>1, <1>4, <2>3 DEF Held
      <3>2. schedule'[x].live = FALSE
        BY <1>2 DEF NoSchedule
      <3> QED BY <1>1, <2>1, <2>3, <3>1, <3>2 DEF SoundSchedule
    <2> QED BY <2>2, <2>3
  <1>5. ASSUME NEW y \in Schedules \ unsure', NEW s \in Slots, desk[s].on = <<"schedule", y>>
        PROVE  schedule'[y] = schedule[y]
    <2>1. y # x
      BY <1>1, <1>5 DEF Busy
    <2> QED BY <1>2, <2>1
  <1>6. /\ desk' = [s \in Slots |-> desk'[s]]
        /\ \A s \in Slots : desk'[s].pc = "schedule.save" => SoundToggle(desk[s])'
    BY <1>1, <1>5, SameDesk
  <1> QED BY <1>3, <1>4, <1>6 DEF ScheduleInv

\* The tick holds the rows as they are
LEMMA TickSound ==
    ASSUME ScheduleInv, Tick
    PROVE  ScheduleInv'
  <1>1. /\ tick = NoTick
        /\ tick' = [rows |-> schedule, left |-> {x \in Schedules : Due(schedule[x])},
                    sent |-> None]
        /\ UNCHANGED <<schedule, day, posted, unsure, desk>>
    BY DEF Tick
  <1>2. PlanTypes'
    BY <1>1, PlanBasics DEF PlanTypes
  <1>3. ASSUME NEW y \in Schedules \ unsure'
        PROVE  SoundSchedule(y)'
    <2>1. SoundSchedule(y)
      BY <1>1, <1>3 DEF ScheduleInv
    <2>2. tick'.sent = None /\ tick.sent = None /\ y # None
      BY <1>1, ScheduleConstants DEF NoTick
    <2>3. y \in tick'.left => tick'.rows[y] = schedule'[y] /\ Due(schedule[y])'
      BY <1>1 DEF Due
    <2> QED BY <1>1, <2>1, <2>2, <2>3 DEF SoundSchedule, OnItsDay
  <1>4. /\ desk' = [s \in Slots |-> desk'[s]]
        /\ \A s \in Slots : desk'[s].pc = "schedule.save" => SoundToggle(desk[s])'
    BY <1>1, SameDesk
  <1> QED BY <1>2, <1>3, <1>4 DEF ScheduleInv

\* What is sent was not sent today, and a message to be sent once never was
LEMMA SendScheduledSound ==
    ASSUME ScheduleInv, NEW x \in Schedules, SendScheduled(x)
    PROVE  ScheduleInv'
  <1>1. PICK inserted \in BOOLEAN, fails \in BOOLEAN :
            /\ inserted \/ fails
            /\ posted' = IF inserted THEN [posted EXCEPT ![x] = Append(@, day)] ELSE posted
            /\ unsure' = IF fails THEN unsure \cup {x} ELSE unsure
            /\ tick' = [tick EXCEPT !.left = @ \ {x}, !.sent = IF fails THEN None ELSE x]
    BY DEF SendScheduled
  <1>2. /\ x \in tick.left /\ tick.sent = None
        /\ UNCHANGED <<schedule, day, desk>>
    BY DEF SendScheduled
  <1>3. tick \in [rows : [Schedules -> PlanRow], left : SUBSET Schedules,
                  sent : Schedules \cup {None}]
    BY <1>2, PlanBasics DEF PlanTypes, NoTick
  <1>4. /\ tick'.rows = tick.rows /\ tick'.left = tick.left \ {x}
        /\ tick'.sent = IF fails THEN None ELSE x
    BY <1>1, <1>3
  <1>5. /\ \A y \in Schedules : y # x => posted'[y] = posted[y]
        /\ inserted => posted'[x] = Append(posted[x], day)
    BY <1>1, PlanBasics DEF PlanTypes
  <1>6. PlanTypes'
    <2>1. posted' \in [Schedules -> Seq(Int)]
      <3>1. Append(posted[x], day) \in Seq(Int)
        BY PlanBasics DEF PlanTypes
      <3> QED BY <1>1, <3>1, PlanBasics DEF PlanTypes
    <2>2. tick' \in [rows : [Schedules -> PlanRow], left : SUBSET Schedules,
                     sent : Schedules \cup {None}]
      BY <1>1, <1>3
    <2> QED BY <1>1, <1>2, <2>1, <2>2, PlanBasics DEF PlanTypes
  <1>7. ASSUME NEW y \in Schedules \ unsure'
        PROVE  SoundSchedule(y)'
    <2>1. SoundSchedule(y)
      BY <1>1, <1>7 DEF ScheduleInv
    <2>2. CASE y # x
      <3>1. tick'.sent # y /\ tick.sent # y
        BY <1>2, <1>4, <2>2, ScheduleConstants
      <3> QED BY <1>2, <1>4, <1>5, <2>1, <2>2, <3>1, Untouched
    <2>3. CASE y = x
      <3>1. ~fails /\ inserted
        BY <1>1, <1>7, <2>3
      <3>2. posted'[x] = Append(posted[x], day) /\ tick'.sent = x /\ x \notin tick'.left
        BY <1>4, <1>5, <3>1
      <3>3. /\ schedule[x].live /\ schedule[x].active /\ schedule[x].lastRun # day
            /\ OnItsDay(schedule[x]) /\ tick.rows[x] = schedule[x] /\ tick.sent # x
        BY <1>2, <2>1, <2>3 DEF SoundSchedule, Due, OnItsDay
      <3>4. /\ \A k \in DOMAIN posted[x] : posted[x][k] # day /\ posted[x][k] <= day
            /\ \A j, k \in DOMAIN posted[x] : j # k => posted[x][j] # posted[x][k]
            /\ schedule[x].frequency = "once" => posted[x] = <<>>
            /\ schedule[x].frequency = "weekly" =>
                 /\ \A k \in DOMAIN posted[x] : posted[x][k] % 7 = schedule[x].dayOfWeek
                 /\ day % 7 = schedule[x].dayOfWeek
        BY <2>1, <2>3, <3>3 DEF SoundSchedule, OnItsDay
      <3> DEFINE n == Len(posted[x])
                 p == Append(posted[x], day)
      <3>5. /\ posted[x] \in Seq(Int) /\ n \in Nat /\ DOMAIN posted[x] = 1..n
            /\ DOMAIN p = 1..(n + 1) /\ p[n + 1] = day
            /\ \A k \in 1..n : p[k] = posted[x][k]
            /\ Len(p) = n + 1 /\ p # <<>>
        <4>1. posted[x] \in Seq(Int) /\ day \in Int
          BY PlanBasics DEF PlanTypes
        <4> QED BY <4>1, AppendFacts
      <3> HIDE DEF n, p
      <3>6. \A k \in DOMAIN p :
                \/ k \in DOMAIN posted[x] /\ p[k] = posted[x][k]
                \/ k = n + 1 /\ k \notin DOMAIN posted[x] /\ p[k] = day
        <4>1. \A k \in 1..(n + 1) : k \in 1..n \/ (k = n + 1 /\ k \notin 1..n)
          BY <3>5, LastOrBefore
        <4> SUFFICES ASSUME NEW k \in DOMAIN p
                     PROVE  \/ k \in DOMAIN posted[x] /\ p[k] = posted[x][k]
                            \/ k = n + 1 /\ k \notin DOMAIN posted[x] /\ p[k] = day
          OBVIOUS
        <4>2. k \in 1..(n + 1)
          BY <3>5
        <4>3. CASE k \in 1..n
          BY <3>5, <4>3
        <4>4. CASE k = n + 1 /\ k \notin 1..n
          BY <3>5, <4>4
        <4> QED BY <4>1, <4>2, <4>3, <4>4
      <3>7. schedule[x].frequency = "once" => Len(p) <= 1
        BY <3>4, <3>5
      <3>8. day \in Nat
        BY PlanBasics DEF PlanTypes
      <3>9. /\ \A k \in DOMAIN p : p[k] <= day
            /\ \A j, k \in DOMAIN p : j # k => p[j] # p[k]
            /\ schedule[x].frequency = "weekly" =>
                 \A k \in DOMAIN p : p[k] % 7 = schedule[x].dayOfWeek
        <4>1. \A k \in DOMAIN p : p[k] <= day
          BY <3>4, <3>6, <3>8
        <4>2. \A j, k \in DOMAIN p : j # k => p[j] # p[k]
          BY <3>4, <3>6
        <4>3. schedule[x].frequency = "weekly" =>
                 \A k \in DOMAIN p : p[k] % 7 = schedule[x].dayOfWeek
          BY <3>4, <3>6
        <4> QED BY <4>1, <4>2, <4>3
      <3>10. posted'[x] = p
        BY <3>2 DEF p
      <3> QED BY <1>2, <1>4, <2>3, <3>2, <3>3, <3>7, <3>9, <3>10 DEF SoundSchedule, OnItsDay
    <2> QED BY <2>2, <2>3
  <1>8. unsure \subseteq unsure'
    BY <1>1
  <1>9. /\ desk' = [s \in Slots |-> desk'[s]]
        /\ \A s \in Slots : desk'[s].pc = "schedule.save" => SoundToggle(desk[s])'
    BY <1>2, <1>8, SameDesk
  <1> QED BY <1>6, <1>7, <1>9 DEF ScheduleInv

\* The row of a message just sent says that it was sent today
LEMMA SaveRunSound ==
    ASSUME ScheduleInv, SaveRun
    PROVE  ScheduleInv'
  <1> DEFINE x == tick.sent
             saved == Run(tick.rows[x])
  <1>1. /\ x # None /\ schedule' = [schedule EXCEPT ![x] = Run(tick.rows[x])]
        /\ tick' = [tick EXCEPT !.sent = None]
        /\ UNCHANGED <<day, ticks, posted, unsure, desk, calls, crossed>>
    BY DEF SaveRun
  <1>2. /\ x \in Schedules /\ tick.rows \in [Schedules -> PlanRow]
        /\ tick.rows[x] \in PlanRow /\ day \in Nat
    BY <1>1, PlanBasics DEF PlanTypes
  <1>3. tick \in [rows : [Schedules -> PlanRow], left : SUBSET Schedules,
                  sent : Schedules \cup {None}]
    BY <1>1, PlanBasics DEF PlanTypes, NoTick
  <1>4. tick'.rows = tick.rows /\ tick'.left = tick.left /\ tick'.sent = None
    BY <1>1, <1>3
  <1>5. /\ saved \in PlanRow /\ saved.live = tick.rows[x].live
        /\ saved.frequency = tick.rows[x].frequency
        /\ saved.dayOfWeek = tick.rows[x].dayOfWeek /\ saved.lastRun = day
        /\ saved.frequency = "once" => ~saved.active
    <2> DEFINE row == tick.rows[x]
               still == row.frequency # "once"
    <2>1. still \in BOOLEAN /\ (row.frequency = "once" => ~still)
      OBVIOUS
    <2>2. saved = [row EXCEPT !.lastRun = day, !.active = still]
      BY DEF Run
    <2>3. row \in PlanRow
      BY <1>2
    <2> HIDE DEF row, still, saved
    <2>4. /\ saved \in PlanRow /\ saved.live = row.live /\ saved.frequency = row.frequency
          /\ saved.dayOfWeek = row.dayOfWeek /\ saved.lastRun = day
          /\ saved.active = still
      <3>1. /\ row = [live |-> row.live, frequency |-> row.frequency,
                       dayOfWeek |-> row.dayOfWeek, active |-> row.active,
                       lastRun |-> row.lastRun]
            /\ row.live \in BOOLEAN /\ row.frequency \in Frequencies /\ row.dayOfWeek \in Int
        BY <2>3 DEF PlanRow
      <3>2. saved = [live |-> row.live, frequency |-> row.frequency,
                     dayOfWeek |-> row.dayOfWeek, active |-> still, lastRun |-> day]
        BY <2>2, <3>1
      <3>3. saved \in PlanRow
        BY <1>2, <2>1, <3>1, <3>2 DEF PlanRow
      <3> QED BY <3>2, <3>3
    <2> QED BY <2>1, <2>4 DEF row
  <1>6. /\ schedule'[x] = saved
        /\ \A y \in Schedules : y # x => schedule'[y] = schedule[y]
    BY <1>1, <1>2, PlanBasics DEF PlanTypes
  <1> HIDE DEF saved
  <1>7. PlanTypes'
    BY <1>1, <1>2, <1>3, <1>5, PlanBasics DEF PlanTypes, saved
  <1>8. ASSUME NEW y \in Schedules \ unsure'
        PROVE  SoundSchedule(y)'
    <2>1. SoundSchedule(y)
      BY <1>1, <1>8 DEF ScheduleInv
    <2>2. CASE y # x
      <3>1. tick'.sent # y
        BY <1>4, ScheduleConstants
      <3> QED BY <1>1, <1>4, <1>6, <2>1, <2>2, <3>1, Untouched
    <2>3. CASE y = x
      <3>1. y \notin tick.left /\ tick.rows[y] = schedule[y]
        BY <2>1, <2>3 DEF SoundSchedule
      <3>2. y \notin tick'.left /\ tick'.sent # y
        BY <1>4, <3>1, ScheduleConstants
      <3> QED BY <1>1, <1>5, <1>6, <2>1, <2>3, <3>1, <3>2 DEF SoundSchedule
    <2> QED BY <2>2, <2>3
  <1>9. ASSUME NEW y \in Schedules \ unsure'
        PROVE  /\ schedule'[y].live = schedule[y].live
               /\ schedule'[y].frequency = schedule[y].frequency
               /\ schedule'[y].dayOfWeek = schedule[y].dayOfWeek
    <2>1. CASE y = x
      <3>1. tick.rows[y] = schedule[y]
        BY <1>1, <1>9, <2>1 DEF ScheduleInv, SoundSchedule
      <3> QED BY <1>5, <1>6, <2>1, <3>1
    <2> QED BY <1>6, <2>1
  <1>10. /\ desk' = [s \in Slots |-> desk'[s]]
         /\ \A s \in Slots : desk'[s].pc = "schedule.save" => SoundToggle(desk[s])'
    BY <1>1, <1>9, SameDesk
  <1> QED BY <1>7, <1>8, <1>10 DEF ScheduleInv

\* A tick that is over held nothing; a restart loses what was sent and not saved
LEMMA TickOverSound ==
    ASSUME ScheduleInv, EndTick \/ Restart
    PROVE  ScheduleInv'
  <1>1. /\ tick' = NoTick /\ unsure \subseteq unsure' /\ unsure' \subseteq Schedules
        /\ tick.sent # None => tick.sent \in unsure'
        /\ UNCHANGED <<schedule, day, posted>>
    BY PlanBasics DEF EndTick, Restart, PlanTypes
  <1>2. PlanTypes'
    BY <1>1, PlanBasics DEF PlanTypes
  <1>3. ASSUME NEW y \in Schedules \ unsure'
        PROVE  SoundSchedule(y)'
    <2>1. SoundSchedule(y)
      BY <1>1, <1>3 DEF ScheduleInv
    <2>2. /\ tick'.left = {} /\ tick'.sent = None
          /\ tick.sent # y /\ y # None
      BY <1>1, <1>3, ScheduleConstants DEF NoTick
    <2> QED BY <1>1, <2>1, <2>2, Untouched
  <1>4. CASE EndTick
    <2>1. desk' = desk
      BY <1>4 DEF EndTick
    <2>2. /\ desk' = [s \in Slots |-> desk'[s]]
          /\ \A s \in Slots : desk'[s].pc = "schedule.save" => SoundToggle(desk[s])'
      BY <1>1, <2>1, SameDesk
    <2> QED BY <1>2, <1>3, <2>2 DEF ScheduleInv
  <1>5. CASE Restart
    <2>1. desk' = [s \in Slots |-> Idle]
      BY <1>5 DEF Restart
    <2>2. /\ desk' = [s \in Slots |-> desk'[s]]
          /\ \A s \in Slots : desk'[s].pc # "schedule.save"
      BY <2>1, IdleSaves
    <2> QED BY <1>2, <1>3, <2>2 DEF ScheduleInv
  <1> QED BY <1>4, <1>5

\* On a new day nothing was sent yet
LEMMA NextDaySound ==
    ASSUME ScheduleInv, NextDay
    PROVE  ScheduleInv'
  <1>1. /\ tick = NoTick /\ day' = day + 1
        /\ UNCHANGED <<schedule, tick, posted, unsure, desk>>
    BY DEF NextDay
  <1>2. PlanTypes'
    BY <1>1, PlanBasics DEF PlanTypes
  <1>3. ASSUME NEW y \in Schedules \ unsure'
        PROVE  SoundSchedule(y)'
    <2>1. SoundSchedule(y) /\ day \in Nat
      BY <1>1, <1>3 DEF ScheduleInv, PlanTypes
    <2>2. \A k \in DOMAIN posted[y] : /\ posted[y][k] <= day' /\ posted[y][k] # day'
      <3>1. \A k \in DOMAIN posted[y] : posted[y][k] \in Int
        BY PlanBasics
      <3> QED BY <1>1, <2>1, <3>1 DEF SoundSchedule
    <2>3. tick'.left = {} /\ tick'.sent # y /\ tick.sent # y
      BY <1>1, ScheduleConstants DEF NoTick
    <2> QED BY <1>1, <2>1, <2>2, <2>3 DEF SoundSchedule
  <1>4. /\ desk' = [s \in Slots |-> desk'[s]]
        /\ \A s \in Slots : desk'[s].pc = "schedule.save" => SoundToggle(desk[s])'
    BY <1>1, SameDesk
  <1> QED BY <1>2, <1>3, <1>4 DEF ScheduleInv
LEMMA ScheduleStepSound ==
    ASSUME ScheduleInv, ScheduleStep
    PROVE  ScheduleInv'
  BY ScheduleMessageSound, DeleteScheduleSound, AskToggleSound, SaveToggleSound,
     SendScheduledSound, TickSound, SaveRunSound, TickOverSound, NextDaySound
  DEF ScheduleStep

LEMMA NothingPlanned ==
    ASSUME ScheduleInit, desk = [s \in Slots |-> Idle]
    PROVE  ScheduleInv
  <1>1. PlanTypes
    BY NoScheduleTyped DEF ScheduleInit, PlanTypes
  <1>2. ASSUME NEW x \in Schedules
        PROVE  SoundSchedule(x)
    <2>1. /\ posted[x] = <<>> /\ schedule[x] = NoSchedule
          /\ tick.left = {} /\ tick.sent = None /\ x # None
      BY ScheduleConstants DEF ScheduleInit, NoTick
    <2>2. /\ DOMAIN posted[x] = {} /\ schedule[x].live = FALSE
      BY <2>1 DEF NoSchedule
    <2> QED BY <2>1, <2>2 DEF SoundSchedule
  <1>3. \A s \in Slots : desk[s].pc # "schedule.save"
    BY IdleSaves
  <1> QED BY <1>1, <1>2, <1>3 DEF ScheduleInv

LEMMA PlanInit == Init => PlanInv
  BY NothingPlanned DEF Init, HandlersInit, PlanInv

LEMMA PlanStep ==
    ASSUME PlanInv, [Next]_officeVars
    PROVE  PlanInv'
  <1>1. CASE UNCHANGED officeVars
    <2>1. UNCHANGED <<scene, desk>> /\ UNCHANGED scheduleVars
      BY <1>1 DEF officeVars, handlerVars
    <2> QED
      BY <2>1 DEF PlanInv, ScheduleInit, ScheduleInv, PlanTypes, SoundSchedule, SoundToggle,
                  Due, OnItsDay, scheduleVars
  <1>2. CASE Next /\ scene = "schedules"
    <2>1. ScheduleStep /\ scene' = scene
      BY <1>2 DEF Next
    <2> QED BY <1>2, <2>1, ScheduleStepSound DEF PlanInv
  <1>3. CASE Next /\ scene # "schedules"
    <2>1. scene' = scene /\ UNCHANGED scheduleVars
      BY <1>3 DEF Next, Scenes, PlanInv
    <2> QED BY <1>3, <2>1 DEF PlanInv, ScheduleInit, scheduleVars
  <1> QED BY <1>1, <1>2, <1>3

\* What the invariant says of a schedule is what OnceIsOnce says
LEMMA SoundIsOnce == ASSUME PlanInv PROVE OnceIsOnce
  <1>1. CASE scene = "schedules"
    BY <1>1 DEF PlanInv, ScheduleInv, SoundSchedule, OnceIsOnce, Due
  <1>2. CASE scene # "schedules"
    <2>1. ScheduleInit
      BY <1>2 DEF PlanInv
    <2>2. \A x \in Schedules : posted[x] = <<>> /\ schedule[x].live = FALSE
      BY <2>1 DEF ScheduleInit, NoSchedule
    <2>3. tick.left = {}
      BY <2>1 DEF ScheduleInit, NoTick
    <2> QED BY <2>2, <2>3 DEF OnceIsOnce
  <1> QED BY <1>1, <1>2

\* A message that is to be sent once is sent once, none twice on a day, and none
\* that is off or deleted, but for the exceptions OnceIsOnce names
\* (ChatService.processScheduledMessages, toggleScheduledMessage)
THEOREM SentOnce == Spec => []OnceIsOnce
  <1>1. Init => PlanInv
    BY PlanInit
  <1>2. PlanInv /\ [Next]_officeVars => PlanInv'
    BY PlanStep
  <1>3. PlanInv => OnceIsOnce
    BY SoundIsOnce
  <1> QED BY <1>1, <1>2, <1>3, PTL DEF Spec

-----------------------------------------------------------------------------
(* Two handlers at one thing: the second one has crossed it *)

\* The fields of a handler
Shaped(h) == DOMAIN h = {"pc", "on", "by", "object", "todo", "fit"}

DeskIs == desk = [s \in Slots |-> desk[s]]
Alone == \A s, t \in Slots :
            s # t /\ desk[s].pc # "idle" /\ desk[t].pc # "idle" /\ desk[s].on = desk[t].on
              => desk[s].on \in crossed

LEMMA IdleIsIdle == Idle.pc = "idle"
  BY DEF Idle

LEMMA TakeAlone ==
    ASSUME DeskIs, Alone, NEW s \in Slots, NEW h, Take(s, h)
    PROVE  /\ DeskIs' /\ Alone' /\ desk'[s] = h
           /\ \A t \in Slots : t # s => desk'[t] = desk[t]
           /\ crossed \subseteq crossed'
           /\ h.on \notin crossed' => \A t \in Slots : desk[t].on # h.on
  <1>1. /\ desk' = [desk EXCEPT ![s] = h]
        /\ crossed' = IF Busy(h.on) THEN crossed \cup {h.on} ELSE crossed
    BY DEF Take
  <1>2. DeskIs' /\ desk'[s] = h /\ \A t \in Slots : t # s => desk'[t] = desk[t]
    BY <1>1 DEF DeskIs
  <1>3. crossed \subseteq crossed'
    BY <1>1
  <1>4. \A t \in Slots : desk[t].on = h.on => h.on \in crossed'
    BY <1>1 DEF Busy
  <1>5. Alone'
    BY <1>2, <1>3, <1>4 DEF Alone
  <1> QED BY <1>2, <1>3, <1>4, <1>5

LEMMA GoesAlone ==
    ASSUME DeskIs, Alone, NEW s \in Slots, NEW h, Goes(s, h),
           h.pc = "idle" \/ (desk[s].pc # "idle" /\ h.on = desk[s].on)
    PROVE  /\ DeskIs' /\ Alone' /\ desk'[s] = h
           /\ \A t \in Slots : t # s => desk'[t] = desk[t]
           /\ crossed' = crossed
  <1>1. desk' = [desk EXCEPT ![s] = h] /\ crossed' = crossed
    BY DEF Goes
  <1>2. DeskIs' /\ desk'[s] = h /\ \A t \in Slots : t # s => desk'[t] = desk[t]
    BY <1>1 DEF DeskIs
  <1>3. Alone'
    BY <1>1, <1>2 DEF Alone
  <1> QED BY <1>1, <1>2, <1>3

LEMMA EndsAlone ==
    ASSUME DeskIs, Alone, NEW s \in Slots, Ends(s)
    PROVE  /\ DeskIs' /\ Alone' /\ desk'[s] = Idle
           /\ \A t \in Slots : t # s => desk'[t] = desk[t]
           /\ crossed' = crossed
  BY GoesAlone, IdleIsIdle DEF Ends

LEMMA QuickAlone ==
    ASSUME DeskIs, Alone, NEW on, Quick(on)
    PROVE  /\ DeskIs' /\ Alone' /\ desk' = desk /\ crossed \subseteq crossed'
           /\ on \notin crossed' => \A t \in Slots : desk[t].on # on
  <1>1. desk' = desk /\ crossed' = IF Busy(on) THEN crossed \cup {on} ELSE crossed
    BY DEF Quick
  <1>2. crossed \subseteq crossed' /\ DeskIs'
    BY <1>1 DEF DeskIs
  <1>3. Alone'
    BY <1>1, <1>2 DEF Alone
  <1>4. \A t \in Slots : desk[t].on = on => on \in crossed'
    BY <1>1 DEF Busy
  <1> QED BY <1>1, <1>2, <1>3, <1>4

LEMMA DeskInit == ASSUME desk = [s \in Slots |-> Idle] PROVE DeskIs /\ Alone
  BY IdleIsIdle DEF DeskIs, Alone

LEMMA AtFields ==
    ASSUME NEW pc, NEW on, NEW by, NEW object
    PROVE  /\ At(pc, on, by, object).pc = pc /\ At(pc, on, by, object).on = on
           /\ At(pc, on, by, object).by = by /\ At(pc, on, by, object).object = object
  BY DEF At, Idle

LEMMA AtShape ==
    ASSUME NEW pc, NEW on, NEW by, NEW object
    PROVE  Shaped(At(pc, on, by, object))
  BY DEF Shaped, At, Idle

-----------------------------------------------------------------------------
(* Readers and reactions.  Nobody but the one handler at an uncrossed mark   *)
(* writes its rows, so that what it looked up is still so.                   *)

Single(S) == \A x, y \in S : x = y

LEMMA SizeOfSingle ==
    ASSUME NEW S, Single(S)
    PROVE  IsFiniteSet(S) /\ Cardinality(S) = IF S = {} THEN 0 ELSE 1
  <1>1. CASE S = {}
    BY <1>1, FS_EmptySet
  <1>2. CASE S # {}
    <2>1. PICK x : S = {x}
      BY <1>2 DEF Single
    <2> QED BY <1>2, <2>1, FS_Singleton
  <1> QED BY <1>1, <1>2

MarkRows ==
    /\ made \in Nat
    /\ rows = [k \in Kinds |-> [u \in Staff |-> rows[k][u]]]
    /\ open = [k \in Kinds |-> open[k]]
    /\ wanted \in [Kinds -> [Staff -> BOOLEAN]]
    /\ \A k \in Kinds, u \in Staff :
         /\ k \in Readers => Single(rows[k][u])
         /\ ~open[k] => rows[k][u] = {}
         /\ <<k, u>> \notin crossed =>
              Single(rows[k][u]) /\ (wanted[k][u] <=> rows[k][u] # {})

\* A handler that has looked for the row of u
GoodMark(h) ==
    \E k \in Kinds, u \in Staff :
        /\ h.on = <<k, u>>
        /\ <<k, u>> \notin crossed =>
             /\ h.pc = "mark.insert" => rows[k][u] = {}
             /\ h.pc = "mark.remove" => rows[k][u] \subseteq {h.object}

MarkInv ==
    /\ MarkRows /\ DeskIs /\ Alone
    /\ \A s \in Slots : desk[s].pc # "idle" => GoodMark(desk[s])

\* A handler takes a slot, nothing else changes
LEMMA MarkTake ==
    ASSUME MarkInv, NEW s \in Slots, NEW h, Take(s, h), UNCHANGED markVars,
           GoodMark(h)
    PROVE  MarkInv'
  <1>1. /\ DeskIs' /\ Alone' /\ desk'[s] = h
        /\ \A t \in Slots : t # s => desk'[t] = desk[t]
        /\ crossed \subseteq crossed'
    BY TakeAlone DEF MarkInv
  <1>2. MarkRows'
    BY <1>1 DEF MarkInv, MarkRows, markVars
  <1>3. ASSUME NEW t \in Slots, desk'[t].pc # "idle"
        PROVE  GoodMark(desk[t])'
    <2>1. GoodMark(desk'[t])
      BY <1>1, <1>3 DEF MarkInv
    <2> QED BY <1>1, <2>1 DEF GoodMark, markVars
  <1> QED BY <1>1, <1>2, <1>3 DEF MarkInv

LEMMA MarkQuick ==
    ASSUME MarkInv, NEW on, Quick(on), UNCHANGED markVars
    PROVE  MarkInv'
  <1>1. DeskIs' /\ Alone' /\ desk' = desk /\ crossed \subseteq crossed'
    BY QuickAlone DEF MarkInv
  <1>2. MarkRows'
    BY <1>1 DEF MarkInv, MarkRows, markVars
  <1>3. ASSUME NEW t \in Slots, desk'[t].pc # "idle"
        PROVE  GoodMark(desk[t])'
    <2>1. GoodMark(desk[t])
      BY <1>1, <1>3 DEF MarkInv
    <2> QED BY <1>1, <2>1 DEF GoodMark, markVars
  <1> QED BY <1>1, <1>2, <1>3 DEF MarkInv

LEMMA LookSound ==
    ASSUME MarkInv, NEW s \in Slots, NEW k \in Kinds, NEW u \in Staff,
           LookToInsert(s, k, u) \/ LookToRemove(s, k, u)
    PROVE  MarkInv'
  <1>1. CASE Quick(<<k, u>>) /\ UNCHANGED markVars
    BY <1>1, MarkQuick
  <1>2. CASE /\ rows[k][u] = {} /\ UNCHANGED markVars
             /\ Take(s, At("mark.insert", <<k, u>>, u, None))
    <2> DEFINE h == At("mark.insert", <<k, u>>, u, None)
    <2>1. h.pc = "mark.insert" /\ h.on = <<k, u>>
      BY AtFields
    <2> HIDE DEF h
    <2>2. GoodMark(h)
      BY <1>2, <2>1 DEF GoodMark
    <2> QED BY <1>2, <2>2, MarkTake DEF h
  <1>3. ASSUME NEW x \in rows[k][u], UNCHANGED markVars,
               Take(s, At("mark.remove", <<k, u>>, u, x))
        PROVE  MarkInv'
    <2> DEFINE h == At("mark.remove", <<k, u>>, u, x)
    <2>1. h.pc = "mark.remove" /\ h.on = <<k, u>> /\ h.object = x
      BY AtFields
    <2> HIDE DEF h
    <2>2. <<k, u>> \notin crossed => rows[k][u] \subseteq {x}
      BY <1>3 DEF MarkInv, MarkRows, Single
    <2>3. GoodMark(h)
      BY <2>1, <2>2 DEF GoodMark
    <2> QED BY <1>3, <2>3, MarkTake DEF h
  <1> QED BY <1>1, <1>2, <1>3 DEF LookToInsert, LookToRemove

\* The two writes: what the handlers at other marks know is not about this one,
\* and a handler that is not alone at this one has crossed it
LEMMA MarkWrite ==
    ASSUME MarkInv, NEW s \in Slots, desk[s].pc # "idle", Ends(s), UNCHANGED open,
           NEW k \in Kinds, NEW u \in Staff, desk[s].on = <<k, u>>,
           \A i \in Kinds, v \in Staff : <<i, v>> # <<k, u>> => rows'[i][v] = rows[i][v],
           MarkRows'
    PROVE  MarkInv'
  <1>1. /\ DeskIs' /\ Alone' /\ desk'[s] = Idle
        /\ \A t \in Slots : t # s => desk'[t] = desk[t]
        /\ crossed' = crossed
    BY EndsAlone DEF MarkInv
  <1>2. ASSUME NEW t \in Slots, desk'[t].pc # "idle"
        PROVE  GoodMark(desk[t])'
    <2>1. t # s /\ desk'[t] = desk[t] /\ GoodMark(desk[t])
      BY <1>1, <1>2, IdleIsIdle DEF MarkInv
    <2>2. PICK i \in Kinds, v \in Staff :
            /\ desk[t].on = <<i, v>>
            /\ <<i, v>> \notin crossed =>
                 /\ desk[t].pc = "mark.insert" => rows[i][v] = {}
                 /\ desk[t].pc = "mark.remove" => rows[i][v] \subseteq {desk[t].object}
      BY <2>1 DEF GoodMark
    <2>3. <<i, v>> = <<k, u>> => <<i, v>> \in crossed
      BY <1>1, <1>2, <2>1, <2>2 DEF MarkInv, Alone
    <2> QED BY <1>1, <2>1, <2>2, <2>3 DEF GoodMark
  <1> QED BY <1>1, <1>2 DEF MarkInv

LEMMA InsertMarkSound ==
    ASSUME MarkInv, NEW s \in Slots, InsertMark(s)
    PROVE  MarkInv'
  <1>1. desk[s].pc = "mark.insert" /\ desk[s].pc # "idle" /\ Ends(s) /\ UNCHANGED open
    BY DEF InsertMark
  <1>2. PICK k \in Kinds, u \in Staff :
            desk[s].on = <<k, u>> /\ (<<k, u>> \notin crossed => rows[k][u] = {})
    BY <1>1 DEF MarkInv, GoodMark
  <1>3. crossed' = crossed
    BY <1>1 DEF Ends, Goes
  <1>4. CASE Refused(k, u)
    <2>1. UNCHANGED <<rows, made, wanted>>
      BY <1>2, <1>4 DEF InsertMark
    <2>2. MarkRows'
      BY <1>1, <1>3, <2>1 DEF MarkInv, MarkRows
    <2> QED BY <1>1, <1>2, <2>1, <2>2, MarkWrite
  <1>5. CASE ~Refused(k, u)
    <2>1. /\ made' = made + 1
          /\ rows' = [rows EXCEPT ![k][u] = @ \cup {made'}]
          /\ wanted' = [wanted EXCEPT ![k][u] = TRUE]
      BY <1>2, <1>5 DEF InsertMark
    <2>2. open[k] /\ (k \in Readers => rows[k][u] = {})
      BY <1>5 DEF Refused, Unique
    <2>3. /\ rows' = [i \in Kinds |-> [v \in Staff |-> rows'[i][v]]]
          /\ rows'[k][u] = rows[k][u] \cup {made'}
          /\ \A i \in Kinds, v \in Staff : <<i, v>> # <<k, u>> => rows'[i][v] = rows[i][v]
      BY <2>1 DEF MarkInv, MarkRows
    <2>4. /\ wanted' \in [Kinds -> [Staff -> BOOLEAN]] /\ wanted'[k][u]
          /\ \A i \in Kinds, v \in Staff : <<i, v>> # <<k, u>> => wanted'[i][v] = wanted[i][v]
      BY <2>1 DEF MarkInv, MarkRows
    <2>5. ASSUME NEW i \in Kinds, NEW v \in Staff
          PROVE  /\ i \in Readers => Single(rows'[i][v])
                 /\ ~open[i] => rows'[i][v] = {}
                 /\ <<i, v>> \notin crossed =>
                      Single(rows'[i][v]) /\ (wanted'[i][v] <=> rows'[i][v] # {})
      <3>1. CASE <<i, v>> # <<k, u>>
        BY <2>3, <2>4, <3>1 DEF MarkInv, MarkRows
      <3>2. CASE <<i, v>> = <<k, u>>
        <4>1. i = k /\ v = u
          BY <3>2
        <4>2. rows[k][u] = {} => rows'[k][u] = {made'}
          BY <2>3
        <4> QED BY <1>2, <2>2, <2>3, <2>4, <4>1, <4>2 DEF Single
      <3> QED BY <3>1, <3>2
    <2>6. MarkRows'
      <3>1. made' \in Nat /\ open' = open /\ open = [i \in Kinds |-> open[i]]
        BY <1>1, <2>1 DEF MarkInv, MarkRows
      <3> QED BY <1>3, <2>3, <2>4, <2>5, <3>1 DEF MarkRows
    <2> QED BY <1>1, <1>2, <2>3, <2>6, MarkWrite
  <1> QED BY <1>4, <1>5

LEMMA RemoveMarkSound ==
    ASSUME MarkInv, NEW s \in Slots, RemoveMark(s)
    PROVE  MarkInv'
  <1>1. desk[s].pc = "mark.remove" /\ desk[s].pc # "idle" /\ Ends(s) /\ UNCHANGED <<open, made>>
    BY DEF RemoveMark
  <1>2. PICK k \in Kinds, u \in Staff :
            /\ desk[s].on = <<k, u>>
            /\ <<k, u>> \notin crossed => rows[k][u] \subseteq {desk[s].object}
    BY <1>1 DEF MarkInv, GoodMark
  <1>3. crossed' = crossed
    BY <1>1 DEF Ends, Goes
  <1>4. /\ rows' = [rows EXCEPT ![k][u] = @ \ {desk[s].object}]
        /\ wanted' = [wanted EXCEPT ![k][u] = FALSE]
    BY <1>2 DEF RemoveMark
  <1>5. /\ rows' = [i \in Kinds |-> [v \in Staff |-> rows'[i][v]]]
        /\ rows'[k][u] = rows[k][u] \ {desk[s].object}
        /\ \A i \in Kinds, v \in Staff : <<i, v>> # <<k, u>> => rows'[i][v] = rows[i][v]
    BY <1>4 DEF MarkInv, MarkRows
  <1>6. /\ wanted' \in [Kinds -> [Staff -> BOOLEAN]] /\ ~wanted'[k][u]
        /\ \A i \in Kinds, v \in Staff : <<i, v>> # <<k, u>> => wanted'[i][v] = wanted[i][v]
    BY <1>4 DEF MarkInv, MarkRows
  <1>7. ASSUME NEW i \in Kinds, NEW v \in Staff
        PROVE  /\ i \in Readers => Single(rows'[i][v])
               /\ ~open[i] => rows'[i][v] = {}
               /\ <<i, v>> \notin crossed =>
                    Single(rows'[i][v]) /\ (wanted'[i][v] <=> rows'[i][v] # {})
    <2>1. CASE <<i, v>> # <<k, u>>
      BY <1>5, <1>6, <2>1 DEF MarkInv, MarkRows
    <2>2. CASE <<i, v>> = <<k, u>>
      <3>1. i = k /\ v = u
        BY <2>2
      <3>2. /\ k \in Readers => Single(rows[k][u])
            /\ ~open[k] => rows[k][u] = {}
        BY DEF MarkInv, MarkRows
      <3> QED BY <1>2, <1>5, <1>6, <3>1, <3>2 DEF Single
    <2> QED BY <2>1, <2>2
  <1>8. MarkRows'
    BY <1>1, <1>3, <1>5, <1>6, <1>7 DEF MarkInv, MarkRows
  <1> QED BY <1>1, <1>2, <1>5, <1>8, MarkWrite

LEMMA RemoveParentSound ==
    ASSUME MarkInv, NEW k \in Kinds, RemoveParent(k)
    PROVE  MarkInv'
  <1>1. /\ Quick(<<k, None>>) /\ UNCHANGED made
        /\ open' = [i \in Kinds |-> open[i] /\ i \notin GoneWith(k)]
        /\ rows' = Cleared(rows, k, {})
        /\ wanted' = Cleared(wanted, k, FALSE)
    BY DEF RemoveParent
  <1>2. DeskIs' /\ Alone' /\ desk' = desk /\ crossed \subseteq crossed'
    BY <1>1, QuickAlone DEF MarkInv
  <1>3. /\ rows' = [i \in Kinds |-> [v \in Staff |-> rows'[i][v]]]
        /\ \A i \in Kinds, v \in Staff :
             rows'[i][v] = IF i \in GoneWith(k) THEN {} ELSE rows[i][v]
    BY <1>1 DEF MarkInv, MarkRows, Cleared
  <1>4. /\ wanted' \in [Kinds -> [Staff -> BOOLEAN]]
        /\ \A i \in Kinds, v \in Staff :
             IF i \in GoneWith(k) THEN ~wanted'[i][v] ELSE wanted'[i][v] = wanted[i][v]
    BY <1>1 DEF MarkInv, MarkRows, Cleared
  <1>5. /\ open' = [i \in Kinds |-> open'[i]]
        /\ \A i \in Kinds : i \notin GoneWith(k) /\ ~open'[i] => ~open[i]
    BY <1>1 DEF MarkInv, MarkRows
  <1>6. ASSUME NEW i \in Kinds, NEW v \in Staff
        PROVE  /\ i \in Readers => Single(rows'[i][v])
               /\ ~open'[i] => rows'[i][v] = {}
               /\ <<i, v>> \notin crossed' =>
                    Single(rows'[i][v]) /\ (wanted'[i][v] <=> rows'[i][v] # {})
    <2>1. CASE i \notin GoneWith(k)
      BY <1>2, <1>3, <1>4, <1>5, <2>1 DEF MarkInv, MarkRows
    <2>2. CASE i \in GoneWith(k)
      BY <1>3, <1>4, <2>2 DEF Single
    <2> QED BY <2>1, <2>2
  <1>7. MarkRows'
    BY <1>1, <1>3, <1>4, <1>5, <1>6 DEF MarkInv, MarkRows
  <1>8. ASSUME NEW t \in Slots, desk'[t].pc # "idle"
        PROVE  GoodMark(desk[t])'
    <2>1. PICK i \in Kinds, v \in Staff :
            /\ desk[t].on = <<i, v>>
            /\ <<i, v>> \notin crossed =>
                 /\ desk[t].pc = "mark.insert" => rows[i][v] = {}
                 /\ desk[t].pc = "mark.remove" => rows[i][v] \subseteq {desk[t].object}
      BY <1>2, <1>8 DEF MarkInv, GoodMark
    <2>2. rows'[i][v] = rows[i][v] \/ rows'[i][v] = {}
      BY <1>3
    <2> QED BY <1>2, <2>1, <2>2 DEF GoodMark
  <1> QED BY <1>2, <1>7, <1>8 DEF MarkInv

LEMMA MarkStepSound ==
    ASSUME MarkInv, MarkStep
    PROVE  MarkInv'
  <1>1. \A k \in {"announcement", "ceo", "idea", "remark", "chat"} : k \in Kinds
    BY DEF Kinds, Readers, Reactions
  <1>2. ASSUME NEW s \in Slots, NEW u \in Staff,
               \/ AskMarkAsRead(s, u) \/ AskMarkAsUnread(s, u)
               \/ AskMarkMessageAsRead(s, u) \/ AskReactToIdea(s, u)
               \/ AskReactToComment(s, u) \/ AskToggleReaction(s, u)
        PROVE  \E k \in Kinds : LookToInsert(s, k, u) \/ LookToRemove(s, k, u)
    BY <1>1, <1>2 DEF AskMarkAsRead, AskMarkAsUnread, AskMarkMessageAsRead, AskReactToIdea,
                      AskReactToComment, AskToggleReaction, LookToToggle
  <1> QED BY <1>2, LookSound, InsertMarkSound, RemoveMarkSound, RemoveParentSound DEF MarkStep

LEMMA NothingMarked == ASSUME MarksInit, desk = [s \in Slots |-> Idle] PROVE MarkInv
  <1>1. MarkRows
    BY DEF MarksInit, MarkRows, Single
  <1> QED BY <1>1, DeskInit, IdleIsIdle DEF MarkInv

\* The readers are counted one by one
LEMMA ReadersCounted ==
    ASSUME MarkRows, NEW k \in Readers
    PROVE  HowMany(k) = Cardinality(Who(k)) /\ Who(k) \subseteq Staff
  <1>1. k \in Kinds
    BY DEF Kinds
  <1> DEFINE P == [u \in Staff |-> IF rows[k][u] = {} THEN {} ELSE {u}]
             g == [u \in Staff |-> Cardinality(rows[k][u])]
  <1>2. \A u \in Staff : IsFiniteSet(P[u]) /\ g[u] = Cardinality(P[u])
    <2>1. ASSUME NEW u \in Staff
          PROVE  IsFiniteSet(P[u]) /\ Cardinality(rows[k][u]) = Cardinality(P[u])
      <3>1. Cardinality(rows[k][u]) = IF rows[k][u] = {} THEN 0 ELSE 1
        BY <1>1, SizeOfSingle DEF MarkRows
      <3>2. P[u] = IF rows[k][u] = {} THEN {} ELSE {u}
        OBVIOUS
      <3>3. /\ IsFiniteSet({}) /\ Cardinality({}) = 0
            /\ IsFiniteSet({u}) /\ Cardinality({u}) = 1
        BY FS_EmptySet, FS_Singleton
      <3> HIDE DEF P
      <3> QED BY <3>1, <3>2, <3>3
    <2>2. \A u \in Staff : g[u] = Cardinality(rows[k][u])
      OBVIOUS
    <2> HIDE DEF P, g
    <2> QED BY <2>1, <2>2
  <1>3. \A u, v \in Staff : u # v => P[u] \cap P[v] = {}
    OBVIOUS
  <1>4. UNION {P[u] : u \in Staff} = Who(k)
    BY DEF Who
  <1>5. HowMany(k) = Total(g, Staff)
    BY DEF HowMany, Total, MapThenSumSet, MapThenFoldSet
  <1>6. Total(g, Staff) = Cardinality(UNION {P[u] : u \in Staff})
    <2> HIDE DEF P, g
    <2> QED BY <1>2, <1>3, StaffIsFinite, SumOfParts
  <1> QED BY <1>4, <1>5, <1>6 DEF Who

LEMMA SizeOfRest ==
    ASSUME NEW S, IsFiniteSet(S), NEW T, T \subseteq S
    PROVE  /\ Cardinality(S \ T) = Cardinality(S) - Cardinality(T)
           /\ Cardinality(S) \in Nat /\ Cardinality(T) \in Nat
           /\ Cardinality(T) <= Cardinality(S) /\ IsFiniteSet(T)
  <1>1. S \cap T = T
    OBVIOUS
  <1> QED BY <1>1, FS_Difference, FS_CardinalityType, FS_Subset

LEMMA CutOff ==
    ASSUME NEW m \in Nat, NEW n \in Nat, n <= m
    PROVE  (IF m - n > 0 THEN m - n ELSE 0) = m - n
  OBVIOUS

LEMMA MarksCounted ==
    ASSUME MarkRows
    PROVE  /\ \A selected \in SUBSET Staff :
                Who("announcement") \subseteq selected =>
                  ReadUnreadCount(selected).unread
                    = Cardinality(selected \ Who("announcement"))
           /\ \A from \in Staff, to \in SUBSET Staff :
                /\ Who("ceo") \subseteq Staff \ {from} =>
                     ReadStats(TRUE, to).unread = Cardinality(Staff \ (Who("ceo") \cup {from}))
                /\ Who("ceo") \subseteq to =>
                     ReadStats(FALSE, to).unread = Cardinality(to \ Who("ceo"))
  <1>1. /\ HowMany("announcement") = Cardinality(Who("announcement"))
        /\ HowMany("ceo") = Cardinality(Who("ceo")) /\ Who("ceo") \subseteq Staff
    BY ReadersCounted DEF Readers
  <1>2. ASSUME NEW selected \in SUBSET Staff, Who("announcement") \subseteq selected
        PROVE  ReadUnreadCount(selected).unread = Cardinality(selected \ Who("announcement"))
    <2>1. IsFiniteSet(selected)
      BY StaffIsFinite, FS_Subset
    <2> QED BY <1>1, <1>2, <2>1, SizeOfRest DEF ReadUnreadCount
  <1>3. ASSUME NEW from \in Staff, NEW to \in SUBSET Staff,
               Who("ceo") \subseteq Staff \ {from}
        PROVE  ReadStats(TRUE, to).unread = Cardinality(Staff \ (Who("ceo") \cup {from}))
    <2>1. IsFiniteSet(Who("ceo"))
      BY <1>1, StaffIsFinite, FS_Subset
    <2>2. Cardinality(Who("ceo") \cup {from}) = Cardinality(Who("ceo")) + 1
      BY <1>3, <2>1, FS_AddElement
    <2>3. Who("ceo") \cup {from} \subseteq Staff
      BY <1>1
    <2>4. /\ Cardinality(Staff \ (Who("ceo") \cup {from}))
               = Cardinality(Staff) - Cardinality(Who("ceo") \cup {from})
          /\ Cardinality(Staff) \in Nat
          /\ Cardinality(Who("ceo") \cup {from}) <= Cardinality(Staff)
      BY <2>3, StaffIsFinite, SizeOfRest
    <2>5. Cardinality(Who("ceo")) \in Nat
      BY <2>1, FS_CardinalityType
    <2> DEFINE m == Cardinality(Staff) - 1
               n == Cardinality(Who("ceo"))
    <2>6. ReadStats(TRUE, to).unread = IF m - n > 0 THEN m - n ELSE 0
      BY <1>1 DEF ReadStats
    <2>7. /\ m \in Nat /\ n \in Nat /\ n <= m
          /\ Cardinality(Staff \ (Who("ceo") \cup {from})) = m - n
      BY <2>2, <2>4, <2>5
    <2> HIDE DEF m, n
    <2> QED BY <2>6, <2>7, CutOff
  <1>4. ASSUME NEW to \in SUBSET Staff, Who("ceo") \subseteq to
        PROVE  ReadStats(FALSE, to).unread = Cardinality(to \ Who("ceo"))
    <2>1. IsFiniteSet(to)
      BY StaffIsFinite, FS_Subset
    <2>2. /\ Cardinality(to \ Who("ceo")) = Cardinality(to) - Cardinality(Who("ceo"))
          /\ Cardinality(to) \in Nat /\ Cardinality(Who("ceo")) \in Nat
          /\ Cardinality(Who("ceo")) <= Cardinality(to)
      BY <1>4, <2>1, SizeOfRest
    <2> DEFINE m == Cardinality(to)
               n == Cardinality(Who("ceo"))
    <2>3. ReadStats(FALSE, to).unread = IF m - n > 0 THEN m - n ELSE 0
      BY <1>1 DEF ReadStats
    <2>4. m \in Nat /\ n \in Nat /\ n <= m /\ Cardinality(to \ Who("ceo")) = m - n
      BY <2>2
    <2> HIDE DEF m, n
    <2> QED BY <2>3, <2>4, CutOff
  <1> QED BY <1>2, <1>3, <1>4

LEMMA MarkRowsSuffice == ASSUME MarkRows PROVE MarksAreSingle
  <1>1. ASSUME NEW k \in Kinds, NEW u \in Staff
        PROVE  /\ k \in Readers => Cardinality(rows[k][u]) <= 1
               /\ ~Busy(<<k, u>>) /\ <<k, u>> \notin crossed =>
                    Cardinality(rows[k][u]) = IF wanted[k][u] THEN 1 ELSE 0
               /\ ~open[k] => rows[k][u] = {}
    BY SizeOfSingle DEF MarkRows
  <1> QED BY <1>1, MarksCounted DEF MarksAreSingle

-----------------------------------------------------------------------------
(* Threads.  While a request of u runs, every reply that is there is excused *)
(* for u: so no time that u's requests save passes over one that is not.     *)

ThreadRows ==
    /\ clock \in Nat \ {0}
    /\ reply = [x \in Replies |-> reply[x]]
    /\ \A x \in Replies : reply[x].at \in {0, x + 1} /\ (reply[x].at # 0 => x < clock)
    /\ lastRead \in [Staff -> Nat]
    /\ \A u \in Staff : lastRead[u] <= clock
    /\ excused = [u \in Staff |-> excused[u]]
    /\ covered = [u \in Staff |-> covered[u]]

\* A request of u that writes to the thread or reads it
GoodReader(h) ==
    \E u \in Staff :
        /\ Shaped(h) /\ h.on = Thread(u) /\ h.by = u
        /\ \A x \in h.fit : x \in Replies /\ x < clock
        /\ h.pc = "thread.save" =>
             /\ h.object.at \in Nat /\ h.object.at <= clock
             /\ \A x \in h.fit : x < h.object.at
             /\ Thread(u) \notin crossed => (h.object.fresh <=> lastRead[u] = 0)
        /\ \A x \in There : <<"reply", x>> \notin crossed => x \in excused[u]

\* An edit of a reply
GoodEdit(h) ==
    \E x \in Replies :
        /\ h.on = <<"reply", x>> /\ h.object.at = x + 1 /\ x < clock
        /\ <<"reply", x>> \notin crossed => reply[x] = h.object

GoodThreadHandler(h) ==
    \/ h.pc \in {"reply.insert", "thread.look", "thread.save"} /\ GoodReader(h)
    \/ h.pc = "reply.update" /\ GoodEdit(h)

UnseenOK ==
    \A u \in Staff :
        /\ \A x \in There :
              x \notin excused[u] /\ <<"reply", x>> \notin crossed => reply[x].at > lastRead[u]
        /\ Thread(u) \notin crossed =>
              \A x \in covered[u] : x \in Replies /\ x + 1 <= lastRead[u]

ThreadInv ==
    /\ ThreadRows /\ UnseenOK /\ DeskIs /\ Alone
    /\ \A s \in Slots : desk[s].pc # "idle" => GoodThreadHandler(desk[s])

LEMMA ThreadTake ==
    ASSUME ThreadInv, NEW s \in Slots, NEW h, Take(s, h), UNCHANGED <<reply, lastRead, clock, covered>>,
           excused' = [u \in Staff |-> excused'[u]],
           \A u \in Staff : excused[u] \subseteq excused'[u],
           GoodThreadHandler(desk[s])'
    PROVE  ThreadInv'
  <1>1. /\ DeskIs' /\ Alone' /\ desk'[s] = h
        /\ \A t \in Slots : t # s => desk'[t] = desk[t]
        /\ crossed \subseteq crossed'
    BY TakeAlone DEF ThreadInv
  <1>2. ThreadRows' /\ UnseenOK'
    BY <1>1 DEF ThreadInv, ThreadRows, UnseenOK, There
  <1>3. ASSUME NEW t \in Slots, desk'[t].pc # "idle", t # s
        PROVE  GoodThreadHandler(desk[t])'
    <2>1. GoodThreadHandler(desk[t]) /\ desk'[t] = desk[t]
      BY <1>1, <1>3 DEF ThreadInv
    <2>2. GoodEdit(desk[t]) => GoodEdit(desk[t])'
      BY <1>1, <2>1 DEF GoodEdit
    <2>3. GoodReader(desk[t]) => GoodReader(desk[t])'
      BY <1>1, <2>1 DEF GoodReader, There
    <2> QED BY <2>1, <2>2, <2>3 DEF GoodThreadHandler
  <1> QED BY <1>1, <1>2, <1>3 DEF ThreadInv

LEMMA BeginSound ==
    ASSUME ThreadInv, NEW s \in Slots, NEW u \in Staff,
           Begin(s, u, "reply.insert") \/ Begin(s, u, "thread.look")
    PROVE  ThreadInv'
  <1>1. PICK pc \in {"reply.insert", "thread.look"} : Begin(s, u, pc)
    OBVIOUS
  <1> DEFINE h == [At(pc, Thread(u), u, None) EXCEPT !.fit = There]
  <1>2. h.pc = pc /\ h.on = Thread(u) /\ h.by = u /\ h.fit = There /\ Shaped(h)
    BY DEF At, Idle, Shaped
  <1>3. /\ Take(s, h) /\ UNCHANGED <<reply, lastRead, clock, covered>>
        /\ excused' = [excused EXCEPT ![u] = @ \cup There]
    BY <1>1 DEF Begin
  <1> HIDE DEF h
  <1>4. /\ excused' = [v \in Staff |-> excused'[v]] /\ excused'[u] = excused[u] \cup There
        /\ \A v \in Staff : excused[v] \subseteq excused'[v]
    BY <1>3 DEF ThreadInv, ThreadRows
  <1>5. \A x \in There : x \in Replies /\ x < clock
    BY DEF There, ThreadInv, ThreadRows
  <1>6. There' = There
    BY <1>3 DEF There
  <1>7. desk'[s] = h
    BY <1>3, TakeAlone DEF ThreadInv
  <1>8. GoodReader(desk[s])'
    <2>1. desk'[s].pc # "thread.save"
      BY <1>1, <1>2, <1>7
    <2> QED BY <1>2, <1>3, <1>4, <1>5, <1>6, <1>7, <2>1 DEF GoodReader, Thread, Shaped
  <1>9. GoodThreadHandler(desk[s])'
    BY <1>1, <1>2, <1>7, <1>8 DEF GoodThreadHandler
  <1> QED BY <1>3, <1>4, <1>9, ThreadTake

LEMMA AskUpdateReplySound ==
    ASSUME ThreadInv, NEW s \in Slots, NEW x \in Replies, AskUpdateReply(s, x)
    PROVE  ThreadInv'
  <1> DEFINE h == At("reply.update", <<"reply", x>>, reply[x].author, reply[x])
  <1>1. h.pc = "reply.update" /\ h.on = <<"reply", x>> /\ h.object = reply[x]
    BY AtFields
  <1>2. x \in There /\ Take(s, h) /\ UNCHANGED threadVars
    BY DEF AskUpdateReply
  <1> HIDE DEF h
  <1>3. reply[x].at = x + 1 /\ x < clock
    BY <1>2 DEF There, ThreadInv, ThreadRows
  <1>4. GoodThreadHandler(desk[s])'
    <2>1. desk'[s] = h
      BY <1>2, TakeAlone DEF ThreadInv
    <2>2. GoodEdit(desk[s])'
      BY <1>1, <1>2, <1>3, <2>1 DEF GoodEdit, threadVars
    <2> QED BY <1>1, <2>1, <2>2 DEF GoodThreadHandler
  <1>5. excused' = [u \in Staff |-> excused'[u]] /\ \A u \in Staff : excused[u] \subseteq excused'[u]
    BY <1>2 DEF threadVars, ThreadInv, ThreadRows
  <1> QED BY <1>2, <1>4, <1>5, ThreadTake DEF threadVars

\* The handler of a reader, whose pc tells that it is one
LEMMA ReaderOf ==
    ASSUME ThreadInv, NEW s \in Slots,
           desk[s].pc \in {"reply.insert", "thread.look", "thread.save"}
    PROVE  GoodReader(desk[s]) /\ desk[s].pc # "idle"
  BY DEF ThreadInv, GoodThreadHandler

LEMMA InsertReplySound ==
    ASSUME ThreadInv, NEW s \in Slots, InsertReply(s)
    PROVE  ThreadInv'
  <1> DEFINE x == clock
             h == [desk[s] EXCEPT !.pc = "thread.look"]
  <1>1. /\ desk[s].pc = "reply.insert" /\ x \in Replies /\ clock' = clock + 1
        /\ reply' = [reply EXCEPT ![x] = [author |-> desk[s].by, at |-> clock']]
        /\ excused' = [v \in Staff |-> IF Busy(Thread(v)) THEN excused[v] \cup {x}
                                                            ELSE excused[v]]
        /\ Goes(s, h) /\ UNCHANGED <<lastRead, covered>>
    BY DEF InsertReply
  <1>2. GoodReader(desk[s]) /\ desk[s].pc # "idle"
    BY <1>1, ReaderOf
  <1>3. ThreadRows /\ UnseenOK /\ clock \in Nat \ {0}
    BY DEF ThreadInv, ThreadRows
  <1>4. /\ reply'[x].at = x + 1
        /\ \A y \in Replies : y # x => reply'[y] = reply[y]
        /\ reply' = [y \in Replies |-> reply'[y]]
    BY <1>1, <1>3 DEF ThreadRows
  <1>5. There' = There \cup {x} /\ x \notin There
    BY <1>1, <1>3, <1>4 DEF There, ThreadRows
  <1>6. \A y \in Replies : y \in Nat
    BY ReplyIds
  <1>7. /\ excused' = [v \in Staff |-> excused'[v]]
        /\ \A v \in Staff : excused[v] \subseteq excused'[v] /\ excused'[v] \subseteq excused[v] \cup {x}
    BY <1>1
  <1>8. h.pc = "thread.look" /\ h.on = desk[s].on /\ h.by = desk[s].by /\ h.fit = desk[s].fit
    <2>1. Shaped(desk[s])
      BY <1>2 DEF GoodReader
    <2> QED BY <2>1 DEF Shaped
  <1>9. h.pc # "idle" /\ Shaped(h)
    <2>1. Shaped(desk[s])
      BY <1>2 DEF GoodReader
    <2> QED BY <2>1 DEF Shaped
  <1> HIDE DEF h
  <1>10. /\ DeskIs' /\ Alone' /\ desk'[s] = h
         /\ \A t \in Slots : t # s => desk'[t] = desk[t]
         /\ crossed' = crossed
    BY <1>1, <1>2, <1>8, GoesAlone DEF ThreadInv
  <1>11. ThreadRows'
    BY <1>1, <1>3, <1>4, <1>6, <1>7 DEF ThreadRows
  <1>12. UnseenOK'
    <2>1. ASSUME NEW u \in Staff, NEW y \in There', y \notin excused'[u],
                 <<"reply", y>> \notin crossed'
          PROVE  reply'[y].at > lastRead'[u]
      <3>1. CASE y = x
        BY <1>1, <1>3, <1>4, <2>1, <3>1 DEF ThreadRows
      <3>2. CASE y # x
        <4>1. y \in There /\ y \in Replies /\ y \notin excused[u]
          BY <1>5, <1>7, <2>1, <3>2 DEF There
        <4> QED BY <1>1, <1>3, <1>4, <1>10, <2>1, <3>2, <4>1 DEF UnseenOK
      <3> QED BY <3>1, <3>2
    <2> QED BY <1>1, <1>3, <1>10, <2>1 DEF UnseenOK
  <1>13. ASSUME NEW t \in Slots, desk[t].pc # "idle", GoodReader(desk[t]),
                NEW r, Shaped(r), r.on = desk[t].on, r.by = desk[t].by, r.fit = desk[t].fit,
                desk'[t] = r, r.pc = "thread.save" => r = desk[t]
         PROVE  GoodReader(desk[t])'
    <2>1. PICK u \in Staff :
            /\ desk[t].on = Thread(u) /\ desk[t].by = u
            /\ \A y \in desk[t].fit : y \in Replies /\ y < clock
            /\ desk[t].pc = "thread.save" =>
                 /\ desk[t].object.at \in Nat /\ desk[t].object.at <= clock
                 /\ \A y \in desk[t].fit : y < desk[t].object.at
                 /\ Thread(u) \notin crossed => (desk[t].object.fresh <=> lastRead[u] = 0)
            /\ \A y \in There : <<"reply", y>> \notin crossed => y \in excused[u]
      BY <1>13 DEF GoodReader
    <2>2. Busy(Thread(u))
      BY <2>1 DEF Busy
    <2>3. x \in excused'[u] /\ excused[u] \subseteq excused'[u]
      BY <1>1, <2>2
    <2>4. \A y \in There' : <<"reply", y>> \notin crossed' => y \in excused'[u]
      BY <1>5, <1>10, <2>1, <2>3
    <2>5. \A y \in r.fit : y \in Replies /\ y < clock'
      <3>1. r.fit = desk[t].fit
        BY <1>13
      <3>2. \A y \in Replies : y < clock => y < clock'
        BY <1>1, <1>3, <1>6
      <3> QED BY <2>1, <3>1, <3>2
    <2>6. r.pc = "thread.save" =>
            /\ r.object.at \in Nat /\ r.object.at <= clock'
            /\ \A y \in r.fit : y < r.object.at
            /\ Thread(u) \notin crossed' => (r.object.fresh <=> lastRead'[u] = 0)
      BY <1>1, <1>3, <1>10, <1>13, <2>1
    <2>7. Thread(u)' = Thread(u)
      BY DEF Thread
    <2> QED BY <1>13, <2>1, <2>4, <2>5, <2>6, <2>7 DEF GoodReader, Shaped, Thread
  <1>14. ASSUME NEW t \in Slots, desk'[t].pc # "idle"
         PROVE  GoodThreadHandler(desk[t])'
    <2>1. CASE t = s
      <3>1. GoodReader(desk[t])'
        BY <1>2, <1>8, <1>9, <1>10, <1>13, <2>1
      <3> QED BY <1>8, <1>10, <2>1, <3>1 DEF GoodThreadHandler
    <2>2. CASE t # s
      <3>1. desk'[t] = desk[t] /\ desk[t].pc # "idle" /\ GoodThreadHandler(desk[t])
        BY <1>10, <1>14, <2>2 DEF ThreadInv
      <3>2. CASE desk[t].pc \in {"reply.insert", "thread.look", "thread.save"} /\ GoodReader(desk[t])
        <4>1. Shaped(desk[t])
          BY <3>2 DEF GoodReader
        <4>2. GoodReader(desk[t])'
          BY <1>13, <3>1, <3>2, <4>1
        <4> QED BY <3>1, <3>2, <4>2 DEF GoodThreadHandler
      <3>3. CASE desk[t].pc = "reply.update" /\ GoodEdit(desk[t])
        <4>1. PICK y \in Replies :
                /\ desk[t].on = <<"reply", y>> /\ desk[t].object.at = y + 1 /\ y < clock
                /\ <<"reply", y>> \notin crossed => reply[y] = desk[t].object
          BY <3>3 DEF GoodEdit
        <4>2. y < clock' /\ reply'[y] = reply[y]
          BY <1>1, <1>3, <1>4, <1>6, <4>1
        <4>3. GoodEdit(desk[t])'
          BY <1>10, <3>1, <4>1, <4>2 DEF GoodEdit
        <4> QED BY <3>1, <3>3, <4>3 DEF GoodThreadHandler
      <3> QED BY <3>1, <3>2, <3>3 DEF GoodThreadHandler
    <2> QED BY <2>1, <2>2
  <1> QED BY <1>10, <1>11, <1>12, <1>14 DEF ThreadInv

LEMMA LookThreadSound ==
    ASSUME ThreadInv, NEW s \in Slots, LookThread(s)
    PROVE  ThreadInv'
  <1> DEFINE h == [desk[s] EXCEPT !.pc = "thread.save",
                     !.object = [fresh |-> lastRead[desk[s].by] = 0, at |-> clock]]
  <1>1. desk[s].pc = "thread.look" /\ Goes(s, h) /\ UNCHANGED threadVars
    BY DEF LookThread
  <1>2. GoodReader(desk[s]) /\ desk[s].pc # "idle"
    BY <1>1, ReaderOf
  <1>3. /\ h.pc = "thread.save" /\ h.on = desk[s].on /\ h.by = desk[s].by
        /\ h.fit = desk[s].fit /\ Shaped(h)
        /\ h.object.at = clock /\ (h.object.fresh <=> lastRead[desk[s].by] = 0)
    <2>1. Shaped(desk[s])
      BY <1>2 DEF GoodReader
    <2> DEFINE o == [fresh |-> lastRead[desk[s].by] = 0, at |-> clock]
    <2>2. o.at = clock /\ (o.fresh <=> lastRead[desk[s].by] = 0)
      OBVIOUS
    <2> HIDE DEF o
    <2>3. h = [desk[s] EXCEPT !.pc = "thread.save", !.object = o]
      BY DEF o
    <2> HIDE DEF h
    <2> QED BY <2>1, <2>2, <2>3 DEF Shaped
  <1> HIDE DEF h
  <1>4. h.pc # "idle"
    BY <1>3
  <1>5. /\ DeskIs' /\ Alone' /\ desk'[s] = h
        /\ \A t \in Slots : t # s => desk'[t] = desk[t]
        /\ crossed' = crossed
    BY <1>1, <1>2, <1>3, GoesAlone DEF ThreadInv
  <1>6. ThreadRows' /\ UnseenOK'
    BY <1>1, <1>5 DEF ThreadInv, ThreadRows, UnseenOK, There, threadVars
  <1>7. GoodReader(desk[s])'
    <2>1. PICK u \in Staff :
            /\ desk[s].on = Thread(u) /\ desk[s].by = u
            /\ \A x \in desk[s].fit : x \in Replies /\ x < clock
            /\ \A x \in There : <<"reply", x>> \notin crossed => x \in excused[u]
      BY <1>2 DEF GoodReader
    <2>2. There' = There /\ clock \in Nat /\ clock' = clock
      BY <1>1 DEF There, threadVars, ThreadInv, ThreadRows
    <2> QED BY <1>1, <1>3, <1>5, <2>1, <2>2 DEF GoodReader, Thread, threadVars
  <1>8. ASSUME NEW t \in Slots, desk'[t].pc # "idle", t # s
        PROVE  GoodThreadHandler(desk[t])'
    <2>1. GoodThreadHandler(desk[t]) /\ desk'[t] = desk[t]
      BY <1>5, <1>8 DEF ThreadInv
    <2> QED BY <1>1, <1>5, <2>1
            DEF GoodThreadHandler, GoodReader, GoodEdit, There, Thread, threadVars, Shaped
  <1>9. GoodThreadHandler(desk[s])'
    BY <1>3, <1>5, <1>7 DEF GoodThreadHandler
  <1> QED BY <1>5, <1>6, <1>8, <1>9 DEF ThreadInv

\* Every reply that is there, and was not crossed, is excused for the reader
LEMMA SaveThreadSound ==
    ASSUME ThreadInv, NEW s \in Slots, SaveThread(s)
    PROVE  ThreadInv'
  <1> DEFINE h == desk[s]
             u == desk[s].by
  <1>1. /\ h.pc = "thread.save" /\ Ends(s) /\ UNCHANGED <<reply, clock, excused>>
        /\ lastRead' = IF h.object.fresh /\ lastRead[u] # 0 THEN lastRead
                       ELSE [lastRead EXCEPT ![u] = h.object.at]
        /\ covered' = [covered EXCEPT ![u] = h.fit]
    BY DEF SaveThread
  <1>2. GoodReader(h) /\ h.pc # "idle"
    BY <1>1, ReaderOf
  <1>3. /\ u \in Staff /\ h.on = Thread(u)
        /\ h.object.at \in Nat /\ h.object.at <= clock
        /\ \A x \in h.fit : x \in Replies /\ x < h.object.at
        /\ Thread(u) \notin crossed => (h.object.fresh <=> lastRead[u] = 0)
        /\ \A x \in There : <<"reply", x>> \notin crossed => x \in excused[u]
    BY <1>1, <1>2 DEF GoodReader
  <1>4. /\ DeskIs' /\ Alone' /\ desk'[s] = Idle
        /\ \A t \in Slots : t # s => desk'[t] = desk[t]
        /\ crossed' = crossed
    BY <1>1, EndsAlone DEF ThreadInv
  <1>5. ThreadRows /\ UnseenOK
    BY DEF ThreadInv
  <1> HIDE DEF h, u
  <1>6. /\ lastRead' \in [Staff -> Nat]
        /\ \A v \in Staff : v # u => lastRead'[v] = lastRead[v] /\ covered'[v] = covered[v]
        /\ lastRead'[u] <= clock
        /\ covered'[u] = h.fit /\ covered' = [v \in Staff |-> covered'[v]]
        /\ Thread(u) \notin crossed => lastRead'[u] = h.object.at
    BY <1>1, <1>3, <1>5 DEF ThreadRows
  <1>7. ThreadRows'
    BY <1>1, <1>5, <1>6 DEF ThreadRows
  <1>8. There' = There
    BY <1>1 DEF There
  <1>9. UnseenOK'
    <2>1. ASSUME NEW v \in Staff
          PROVE  /\ \A x \in There' :
                       x \notin excused'[v] /\ <<"reply", x>> \notin crossed'
                         => reply'[x].at > lastRead'[v]
                 /\ Thread(v) \notin crossed' =>
                       \A x \in covered'[v] : x \in Replies /\ x + 1 <= lastRead'[v]
      <3>1. CASE v # u
        BY <1>1, <1>4, <1>5, <1>6, <1>8, <3>1 DEF UnseenOK
      <3>2. CASE v = u
        <4>1. \A x \in h.fit : x \in Nat
          BY <1>3, ReplyIds
        <4> QED BY <1>1, <1>3, <1>4, <1>6, <1>8, <3>2, <4>1
      <3> QED BY <3>1, <3>2
    <2> QED BY <2>1 DEF UnseenOK, Thread
  <1>10. ASSUME NEW t \in Slots, desk'[t].pc # "idle"
         PROVE  GoodThreadHandler(desk[t])'
    <2>1. t # s /\ desk'[t] = desk[t] /\ GoodThreadHandler(desk[t])
      BY <1>4, <1>10, IdleIsIdle DEF ThreadInv
    <2>2. CASE desk[t].pc = "reply.update" /\ GoodEdit(desk[t])
      BY <1>1, <1>4, <2>1, <2>2 DEF GoodThreadHandler, GoodEdit
    <2>3. CASE desk[t].pc \in {"reply.insert", "thread.look", "thread.save"} /\ GoodReader(desk[t])
      <3>1. PICK v \in Staff :
              /\ Shaped(desk[t]) /\ desk[t].on = Thread(v) /\ desk[t].by = v
              /\ \A x \in desk[t].fit : x \in Replies /\ x < clock
              /\ desk[t].pc = "thread.save" =>
                   /\ desk[t].object.at \in Nat /\ desk[t].object.at <= clock
                   /\ \A x \in desk[t].fit : x < desk[t].object.at
                   /\ Thread(v) \notin crossed => (desk[t].object.fresh <=> lastRead[v] = 0)
              /\ \A x \in There : <<"reply", x>> \notin crossed => x \in excused[v]
        BY <2>3 DEF GoodReader
      <3>2. v = u => Thread(v) \in crossed
        BY <1>2, <1>3, <1>4, <1>10, <2>1, <3>1 DEF ThreadInv, Alone, h
      <3>3. Thread(v) \notin crossed => lastRead'[v] = lastRead[v]
        BY <1>6, <3>2
      <3>4. GoodReader(desk[t])'
        BY <1>1, <1>4, <1>8, <2>1, <3>1, <3>3 DEF GoodReader, Thread, Shaped
      <3> QED BY <2>1, <2>3, <3>4 DEF GoodThreadHandler
    <2> QED BY <2>1, <2>2, <2>3 DEF GoodThreadHandler
  <1> QED BY <1>4, <1>7, <1>9, <1>10 DEF ThreadInv

\* A reply is written by an edit, or removed: a handler that has read another row
\* of it has crossed it
LEMMA ReplyChanged ==
    ASSUME ThreadInv, NEW x \in Replies, DeskIs', Alone',
           reply' = [reply EXCEPT ![x] = reply'[x]],
           reply'[x].at \in {0, x + 1}, reply'[x].at # 0 => x < clock,
           reply'[x].at # 0 /\ <<"reply", x>> \notin crossed' => reply'[x] = reply[x],
           UNCHANGED <<lastRead, clock, excused, covered>>, crossed \subseteq crossed',
           \A t \in Slots : desk'[t] = desk[t] \/ desk'[t] = Idle,
           \A t \in Slots : desk'[t].pc # "idle" /\ desk'[t].on = <<"reply", x>> =>
                <<"reply", x>> \in crossed' \/ reply'[x] = reply[x]
    PROVE  ThreadInv'
  <1>1. /\ \A y \in Replies : y # x => reply'[y] = reply[y]
        /\ reply' = [y \in Replies |-> reply'[y]]
    BY DEF ThreadInv, ThreadRows
  <1>2. ThreadRows'
    BY <1>1 DEF ThreadInv, ThreadRows
  <1>3. \A y \in There' : <<"reply", y>> \notin crossed' => y \in There /\ reply'[y] = reply[y]
    BY <1>1 DEF There
  <1>4. UnseenOK'
    <2>1. ASSUME NEW v \in Staff
          PROVE  /\ \A y \in There' :
                       y \notin excused'[v] /\ <<"reply", y>> \notin crossed'
                         => reply'[y].at > lastRead'[v]
                 /\ Thread(v) \notin crossed' =>
                       \A y \in covered'[v] : y \in Replies /\ y + 1 <= lastRead'[v]
      BY <1>3 DEF ThreadInv, UnseenOK
    <2> QED BY <2>1 DEF UnseenOK, Thread
  <1>5. ASSUME NEW t \in Slots, desk'[t].pc # "idle"
        PROVE  GoodThreadHandler(desk[t])'
    <2>1. desk'[t] = desk[t] /\ GoodThreadHandler(desk[t])
      BY <1>5, IdleIsIdle DEF ThreadInv
    <2>2. GoodReader(desk[t]) => GoodReader(desk[t])'
      BY <1>3, <2>1 DEF GoodReader, Thread, Shaped
    <2>3. GoodEdit(desk[t]) => GoodEdit(desk[t])'
      <3>1. SUFFICES ASSUME GoodEdit(desk[t]) PROVE GoodEdit(desk[t])'
        OBVIOUS
      <3>2. PICK y \in Replies :
              /\ desk[t].on = <<"reply", y>> /\ desk[t].object.at = y + 1 /\ y < clock
              /\ <<"reply", y>> \notin crossed => reply[y] = desk[t].object
        BY <3>1 DEF GoodEdit
      <3>3. <<"reply", y>> \notin crossed' => reply'[y] = reply[y]
        BY <1>1, <1>5, <2>1, <3>2
      <3> QED BY <2>1, <3>2, <3>3 DEF GoodEdit
    <2> QED BY <2>1, <2>2, <2>3 DEF GoodThreadHandler
  <1> QED BY <1>2, <1>4, <1>5 DEF ThreadInv

LEMMA SaveReplySound ==
    ASSUME ThreadInv, NEW s \in Slots, SaveReply(s)
    PROVE  ThreadInv'
  <1>1. desk[s].pc = "reply.update" /\ desk[s].pc # "idle" /\ Ends(s)
        /\ UNCHANGED <<lastRead, clock, excused, covered>>
    BY DEF SaveReply
  <1>2. PICK x \in Replies :
          /\ desk[s].on = <<"reply", x>> /\ desk[s].object.at = x + 1 /\ x < clock
          /\ <<"reply", x>> \notin crossed => reply[x] = desk[s].object
    BY <1>1 DEF ThreadInv, GoodThreadHandler, GoodEdit
  <1>3. reply' = [reply EXCEPT ![x] = desk[s].object]
    BY <1>2 DEF SaveReply
  <1>4. reply'[x] = desk[s].object /\ reply' = [reply EXCEPT ![x] = reply'[x]]
    BY <1>3 DEF ThreadInv, ThreadRows
  <1>5. /\ DeskIs' /\ Alone' /\ desk'[s] = Idle
        /\ \A t \in Slots : t # s => desk'[t] = desk[t]
        /\ crossed' = crossed
    BY <1>1, EndsAlone DEF ThreadInv
  <1> QED BY <1>1, <1>2, <1>4, <1>5, ReplyChanged

LEMMA DeleteReplySound ==
    ASSUME ThreadInv, NEW x \in Replies, DeleteReply(x)
    PROVE  ThreadInv'
  <1>1. /\ Quick(<<"reply", x>>) /\ reply' = [reply EXCEPT ![x] = NoReply]
        /\ UNCHANGED <<lastRead, clock, excused, covered>>
    BY DEF DeleteReply
  <1>2. reply'[x] = NoReply /\ NoReply.at = 0 /\ reply' = [reply EXCEPT ![x] = reply'[x]]
    BY <1>1 DEF ThreadInv, ThreadRows, NoReply
  <1>3. /\ DeskIs' /\ Alone' /\ desk' = desk /\ crossed \subseteq crossed'
        /\ <<"reply", x>> \notin crossed' => \A t \in Slots : desk[t].on # <<"reply", x>>
    BY <1>1, QuickAlone DEF ThreadInv
  <1> QED BY <1>1, <1>2, <1>3, ReplyChanged

LEMMA ThreadStepSound ==
    ASSUME ThreadInv, ThreadStep
    PROVE  ThreadInv'
  <1>1. ASSUME NEW s \in Slots, NEW u \in Staff, AskThreadReply(s, u) \/ AskMarkThread(s, u)
        PROVE  ThreadInv'
    BY <1>1, BeginSound DEF AskThreadReply, AskMarkThread
  <1> QED BY <1>1, AskUpdateReplySound, InsertReplySound, LookThreadSound, SaveThreadSound,
             SaveReplySound, DeleteReplySound DEF ThreadStep

LEMMA ThreadRowsInit == ASSUME ThreadInit PROVE ThreadRows /\ UnseenOK
  <1>1. There = {}
    BY DEF ThreadInit, There, NoReply
  <1>2. ThreadRows
    BY DEF ThreadInit, ThreadRows, NoReply
  <1>3. \A u \in Staff : covered[u] = {}
    BY DEF ThreadInit
  <1> QED BY <1>1, <1>2, <1>3 DEF UnseenOK

LEMMA NothingSaid == ASSUME ThreadInit, desk = [s \in Slots |-> Idle] PROVE ThreadInv
  BY ThreadRowsInit, DeskInit, IdleIsIdle DEF ThreadInv

LEMMA ThreadRowsSuffice == ASSUME ThreadRows, UnseenOK PROVE UnseenIsUnread
  <1>1. ASSUME NEW u \in Staff, NEW x \in There
        PROVE  /\ reply[x].author # u /\ x \notin excused[u] /\ <<"reply", x>> \notin crossed
                    => x \in UnreadReplies(u)
               /\ x \in covered[u] /\ Thread(u) \notin crossed => x \notin UnreadReplies(u)
    <2>1. reply[x].at = x + 1 /\ x \in Nat /\ lastRead[u] \in Nat
      BY ReplyIds DEF ThreadRows, There
    <2> QED BY <2>1 DEF UnseenOK, UnreadReplies
  <1> QED BY <1>1 DEF UnseenIsUnread

-----------------------------------------------------------------------------
(* Leave.  Whatever row a handler saves lasts from its first to its last day; *)
(* at an uncrossed request it is the row as it is now, but for the edit; and  *)
(* a handler that has looked at an unmixed row has seen it as it is now.      *)

LeaveShape(row) == DOMAIN row = {"live", "staffId", "start", "end", "days", "handover",
                                 "supervisors", "status", "reviewer"}

GoodLeave(row) ==
    /\ LeaveShape(row) /\ row.live = TRUE
    /\ row.staffId \in Staff /\ row.status \in LeaveStatuses
    /\ row.start \in Int /\ row.end \in Int /\ row.days \in Int
LastsItsDays(row) == row.days = row.end + 1 - row.start /\ row.days > 0

LeaveRows ==
    /\ leave = [r \in Requests |-> leave[r]]
    /\ decided = [r \in Requests |-> decided[r]]
    /\ Filed = 1..Cardinality(Filed)
    /\ \A r \in Filed :
         /\ GoodLeave(leave[r])
         /\ r \notin mixed /\ r \notin stated => LastsItsDays(leave[r])
         /\ r \notin mixed /\ leave[r].supervisors = {} => r \in emptied
         /\ <<"leave", r>> \notin crossed /\ r \notin stated =>
              decided[r] = <<leave[r].status, leave[r].reviewer>>
    /\ \A r \in Requests \ Filed : decided[r] = <<"Pending", None>>
    /\ \A r \in mixed : <<"leave", r>> \in crossed

\* What is known of the row a handler wants at r
Wants(row, r, decides, by) ==
    /\ GoodLeave(row)
    /\ r \notin mixed /\ r \notin stated => LastsItsDays(row)
    /\ r \notin mixed /\ row.supervisors = {} => r \in emptied
    /\ decides => row.reviewer = by
    /\ ~decides /\ <<"leave", r>> \notin crossed /\ r \notin stated =>
         row.status = leave[r].status /\ row.reviewer = leave[r].reviewer

Looked(h, r) ==
    /\ Wants(h.object.want, r, h.object.decides, h.by)
    /\ GoodLeave(h.object.was)
    /\ r \notin mixed => h.object.was = leave[r]

GoodLeaveHandlerAt(h, r) ==
    /\ Shaped(h) /\ h.on = <<"leave", r>>
    /\ h.pc = "leave.update" => Wants(h.object, r, FALSE, h.by)
    /\ h.pc = "leave.decide" => Wants(h.object, r, TRUE, h.by)
    /\ h.pc = "leave.write" => Looked(h, r)
GoodLeaveHandler(h) == \E r \in Filed : GoodLeaveHandlerAt(h, r)

LeaveInv ==
    /\ LeaveRows /\ DeskIs /\ Alone
    /\ \A s \in Slots : desk[s].pc # "idle" => GoodLeaveHandler(desk[s])

LEMMA FiledFacts ==
    ASSUME LeaveRows
    PROVE  /\ Filed \subseteq Requests /\ IsFiniteSet(Filed) /\ Cardinality(Filed) \in Nat
           /\ Cardinality(Filed) + 1 \notin Filed
           /\ Filed \cup {Cardinality(Filed) + 1} = 1..(Cardinality(Filed) + 1)
  <1>1. Filed \subseteq Requests /\ IsFiniteSet(Filed)
    BY LeaveConstants, FS_Subset DEF Filed
  <1> DEFINE n == Cardinality(Filed)
  <1>2. n \in Nat /\ Filed = 1..n
    BY <1>1, FS_CardinalityType DEF LeaveRows
  <1> HIDE DEF n
  <1>3. n + 1 \notin 1..n /\ (1..n) \cup {n + 1} = 1..(n + 1)
    BY <1>2
  <1> QED BY <1>1, <1>2, <1>3 DEF n

\* A handler that a step leaves alone: the histories only grow, and its row is
\* as it was unless the handler has been crossed or the row mixed
LEMMA SameLeaveHandler ==
    ASSUME NEW s \in Slots, NEW r \in Filed, GoodLeaveHandlerAt(desk[s], r), desk'[s] = desk[s],
           r \in Filed', crossed \subseteq crossed', emptied \subseteq emptied',
           stated \subseteq stated', mixed \subseteq mixed',
           <<"leave", r>> \notin crossed' => leave'[r] = leave[r],
           desk[s].pc = "leave.write" /\ r \notin mixed' => leave'[r] = leave[r]
    PROVE  GoodLeaveHandler(desk[s])'
  <1>1. PICK h : h = desk[s] /\ h = desk'[s]
    OBVIOUS
  <1>2. GoodLeaveHandlerAt(h, r)
    BY <1>1
  <1>3. ASSUME NEW row, NEW decides, NEW by, Wants(row, r, decides, by)
        PROVE  /\ GoodLeave(row)
               /\ r \notin mixed' /\ r \notin stated' => LastsItsDays(row)
               /\ r \notin mixed' /\ row.supervisors = {} => r \in emptied'
               /\ decides => row.reviewer = by
               /\ ~decides /\ <<"leave", r>> \notin crossed' /\ r \notin stated' =>
                    row.status = leave'[r].status /\ row.reviewer = leave'[r].reviewer
    BY <1>3 DEF Wants
  <1>4. /\ Shaped(h) /\ h.on = <<"leave", r>>
        /\ h.pc = "leave.update" => Wants(h.object, r, FALSE, h.by)
        /\ h.pc = "leave.decide" => Wants(h.object, r, TRUE, h.by)
        /\ h.pc = "leave.write" => Wants(h.object.want, r, h.object.decides, h.by)
        /\ h.pc = "leave.write" => GoodLeave(h.object.was) /\ (r \notin mixed' => h.object.was = leave'[r])
    BY <1>1, <1>2 DEF GoodLeaveHandlerAt, Looked
  <1>5. GoodLeaveHandlerAt(desk[s], r)'
    BY <1>1, <1>3, <1>4 DEF GoodLeaveHandlerAt, Looked, Wants, Shaped, GoodLeave, LeaveShape, LastsItsDays
  <1> QED BY <1>5 DEF GoodLeaveHandler

LEMMA CreateLeaveSound ==
    ASSUME LeaveInv, NEW u \in Staff, NEW v, NEW dto \in Filings, NEW found,
           CreateLeave(u, v, dto, found)
    PROVE  LeaveInv'
  <1> DEFINE r == Cardinality(Filed) + 1
             row == [live |-> TRUE, staffId |-> u, start |-> dto.start, end |-> dto.end,
                     days |-> Duration(dto.start, dto.end), handover |-> v,
                     supervisors |-> Supervisors(dto.list, found),
                     status |-> Or(dto.status, "Pending"), reviewer |-> dto.reviewer]
  <1>1. /\ r \in Requests /\ Duration(dto.start, dto.end) > 0 /\ Supervisors(dto.list, found) # {}
        /\ Quick(<<"leave", r>>) /\ leave' = [leave EXCEPT ![r] = row]
        /\ stated' = IF States(dto) THEN stated \cup {r} ELSE stated
        /\ UNCHANGED <<decided, emptied, mixed>>
    BY DEF CreateLeave, Stating
  <1>2. /\ GoodLeave(row) /\ LastsItsDays(row) /\ row.supervisors # {} /\ row.live
        /\ ~States(dto) => row.status = "Pending" /\ row.reviewer = None
    <2>1. dto.start \in Int /\ dto.end \in Int /\ dto.status \in {None, "Approved"}
      BY LeaveConstants DEF Filings
    <2>2. /\ Duration(dto.start, dto.end) = dto.end + 1 - dto.start
          /\ Duration(dto.start, dto.end) \in Int
      BY <2>1 DEF Duration
    <2>3. Or(dto.status, "Pending") \in LeaveStatuses
      BY <2>1 DEF Or, LeaveStatuses
    <2>4. ~States(dto) => Or(dto.status, "Pending") = "Pending" /\ dto.reviewer = None
      BY DEF States, Or
    <2> QED BY <1>1, <2>1, <2>2, <2>3, <2>4 DEF GoodLeave, LastsItsDays, LeaveShape
  <1>3. LeaveRows /\ r \notin Filed /\ Filed \subseteq Requests
        /\ Filed \cup {r} = 1..r /\ r \in Nat
    BY FiledFacts DEF LeaveInv
  <1> HIDE DEF row
  <1>4. /\ leave' = [q \in Requests |-> leave'[q]] /\ leave'[r] = row
        /\ \A q \in Requests : q # r => leave'[q] = leave[q]
    BY <1>1, <1>3 DEF LeaveRows
  <1>5. Filed' = Filed \cup {r}
    BY <1>1, <1>2, <1>4 DEF Filed
  <1>6. Filed' = 1..Cardinality(Filed')
    <2> HIDE DEF r
    <2>1. Cardinality(1..r) = r
      BY <1>3, FS_Interval
    <2> QED BY <1>3, <1>5, <2>1
  <1> HIDE DEF r
  <1>7. /\ DeskIs' /\ Alone' /\ desk' = desk /\ crossed \subseteq crossed'
    BY <1>1, QuickAlone DEF LeaveInv
  <1>8. decided[r] = <<"Pending", None>>
    BY <1>1, <1>3 DEF LeaveRows
  <1>9. LeaveRows'
    <2>1. ASSUME NEW q \in Filed'
          PROVE  /\ GoodLeave(leave[q])'
                 /\ q \notin mixed' /\ q \notin stated' => LastsItsDays(leave[q])'
                 /\ q \notin mixed' /\ leave'[q].supervisors = {} => q \in emptied'
                 /\ <<"leave", q>> \notin crossed' /\ q \notin stated' =>
                      decided'[q] = <<leave'[q].status, leave'[q].reviewer>>
      <3>1. CASE q = r
        <4>1. q \notin stated' => ~States(dto)
          BY <1>1, <3>1
        <4> QED BY <1>1, <1>2, <1>4, <1>8, <3>1, <4>1 DEF GoodLeave, LeaveShape, LastsItsDays
      <3>2. CASE q # r
        <4>1. q \in Filed /\ leave'[q] = leave[q]
          BY <1>3, <1>4, <1>5, <3>2
        <4> QED BY <1>1, <1>3, <1>7, <4>1 DEF LeaveRows, GoodLeave, LeaveShape, LastsItsDays
      <3> QED BY <3>1, <3>2
    <2>2. decided' = [q \in Requests |-> decided'[q]]
          /\ \A q \in Requests \ Filed' : decided'[q] = <<"Pending", None>>
      BY <1>1, <1>3, <1>5 DEF LeaveRows
    <2>3. \A q \in mixed' : <<"leave", q>> \in crossed'
      BY <1>1, <1>3, <1>7 DEF LeaveRows
    <2> QED BY <1>4, <1>6, <2>1, <2>2, <2>3 DEF LeaveRows
  <1>10. ASSUME NEW s \in Slots, desk'[s].pc # "idle"
         PROVE  GoodLeaveHandler(desk[s])'
    <2>1. PICK q \in Filed : GoodLeaveHandlerAt(desk[s], q)
      BY <1>7, <1>10 DEF LeaveInv, GoodLeaveHandler
    <2>2. q \in Filed' /\ leave'[q] = leave[q]
      BY <1>3, <1>4, <1>5
    <2> QED BY <1>1, <1>7, <2>1, <2>2, SameLeaveHandler
  <1> QED BY <1>7, <1>9, <1>10 DEF LeaveInv

\* A handler takes a slot with a row it may save, or looks at the row
LEMMA LeaveGoes ==
    ASSUME LeaveInv, NEW s \in Slots, DeskIs', Alone',
           \A t \in Slots : t # s => desk'[t] = desk[t],
           crossed \subseteq crossed', UNCHANGED <<leave, decided, mixed>>,
           emptied \subseteq emptied', stated \subseteq stated',
           desk'[s].pc # "idle" => GoodLeaveHandler(desk[s])'
    PROVE  LeaveInv'
  <1>1. Filed' = Filed /\ LeaveRows
    BY DEF Filed, LeaveInv
  <1>2. LeaveRows'
    <2>1. ASSUME NEW r \in Filed'
          PROVE  /\ GoodLeave(leave[r])'
                 /\ r \notin mixed' /\ r \notin stated' => LastsItsDays(leave[r])'
                 /\ r \notin mixed' /\ leave'[r].supervisors = {} => r \in emptied'
                 /\ <<"leave", r>> \notin crossed' /\ r \notin stated' =>
                      decided'[r] = <<leave'[r].status, leave'[r].reviewer>>
      BY <1>1, <2>1 DEF LeaveRows, GoodLeave, LeaveShape, LastsItsDays
    <2> QED BY <1>1, <2>1 DEF LeaveRows
  <1>3. ASSUME NEW t \in Slots, t # s, desk'[t].pc # "idle"
        PROVE  GoodLeaveHandler(desk[t])'
    <2>1. PICK q \in Filed : GoodLeaveHandlerAt(desk[t], q)
      BY <1>3 DEF LeaveInv, GoodLeaveHandler
    <2> QED BY <1>1, <1>3, <2>1, SameLeaveHandler
  <1> QED BY <1>2, <1>3 DEF LeaveInv

\* A new request, with what it wants of row r
LEMMA LeaveTake ==
    ASSUME LeaveInv, NEW s \in Slots, NEW r \in Filed, NEW by, NEW row,
           NEW pc \in {"leave.update", "leave.decide"}, NEW h, h = At(pc, <<"leave", r>>, by, row),
           Take(s, h), UNCHANGED <<leave, decided, mixed>>,
           emptied \subseteq emptied', stated \subseteq stated',
           GoodLeave(row), r \notin mixed /\ r \notin stated' => LastsItsDays(row),
           r \notin mixed /\ row.supervisors = {} => r \in emptied',
           pc = "leave.decide" => row.reviewer = by,
           pc = "leave.update" /\ r \notin stated' =>
               row.status = leave[r].status /\ row.reviewer = leave[r].reviewer
    PROVE  LeaveInv'
  <1>1. /\ DeskIs' /\ Alone' /\ desk'[s] = h
        /\ \A t \in Slots : t # s => desk'[t] = desk[t]
        /\ crossed \subseteq crossed'
    BY TakeAlone DEF LeaveInv
  <1>2. h.pc = pc /\ h.on = <<"leave", r>> /\ h.object = row /\ h.by = by /\ Shaped(h)
    BY AtFields, AtShape
  <1>3. Filed' = Filed
    BY DEF Filed
  <1>4. GoodLeaveHandlerAt(desk[s], r)'
    BY <1>1, <1>2 DEF GoodLeaveHandlerAt, Wants, Shaped, GoodLeave, LeaveShape, LastsItsDays
  <1>5. GoodLeaveHandler(desk[s])'
    BY <1>3, <1>4 DEF GoodLeaveHandler
  <1> QED BY <1>1, <1>5, LeaveGoes

LEMMA AskUpdateLeaveSound ==
    ASSUME LeaveInv, NEW s \in Slots, NEW r \in Requests, NEW dto \in Edits \cup Statements,
           AskUpdateLeave(s, r, dto)
    PROVE  LeaveInv'
  <1> DEFINE row == Edited(leave[r], dto)
             h == At("leave.update", <<"leave", r>>, row.staffId, row)
  <1>1. /\ r \in Filed /\ Take(s, h) /\ UNCHANGED <<leave, decided, mixed>>
        /\ Dated(dto) => Duration(row.start, row.end) > 0
        /\ emptied' = IF dto.list # None /\ row.supervisors = {} THEN emptied \cup {r} ELSE emptied
        /\ stated' = IF States(dto) THEN stated \cup {r} ELSE stated
    BY DEF AskUpdateLeave, Stating
  <1>2. /\ GoodLeave(leave[r])
        /\ r \notin mixed /\ r \notin stated => LastsItsDays(leave[r])
        /\ r \notin mixed /\ leave[r].supervisors = {} => r \in emptied
    BY <1>1 DEF LeaveInv, LeaveRows
  <1> DEFINE from == Or(dto.start, leave[r].start)
             to == Or(dto.end, leave[r].end)
             length == IF Dated(dto) THEN Duration(from, to) ELSE leave[r].days
             days == Or(dto.days, length)
             sup == IF dto.list = None THEN leave[r].supervisors ELSE dto.list \ {Ghost}
             status == Or(dto.status, leave[r].status)
             reviewer == Or(dto.reviewer, leave[r].reviewer)
  <1>3. /\ dto.start \in Days \cup {None} /\ dto.end \in Days \cup {None}
        /\ dto.days \in {None, 0} /\ dto.status \in {None, "Approved"}
    BY DEF Edits, Statements
  <1>4. /\ from \in Int /\ to \in Int /\ length \in Int /\ days \in Int
        /\ Dated(dto) => length = to + 1 - from
        /\ ~Dated(dto) => from = leave[r].start /\ to = leave[r].end /\ length = leave[r].days
    <2>1. /\ from \in Int /\ to \in Int /\ leave[r].days \in Int
          /\ ~Dated(dto) => from = leave[r].start /\ to = leave[r].end
      BY <1>2, <1>3, LeaveConstants DEF Or, GoodLeave, Dated
    <2> HIDE DEF from, to
    <2>2. length \in Int /\ (Dated(dto) => length = to + 1 - from)
          /\ (~Dated(dto) => length = leave[r].days)
      BY <2>1 DEF Duration
    <2> HIDE DEF length
    <2>3. days \in Int
      BY <1>3, <2>2 DEF Or
    <2> QED BY <2>1, <2>2, <2>3
  <1>5. status \in LeaveStatuses
    BY <1>2, <1>3 DEF Or, GoodLeave, LeaveStatuses
  <1>6. ~States(dto) => days = length /\ status = leave[r].status /\ reviewer = leave[r].reviewer
    BY DEF States, Or
  <1>7. row = [leave[r] EXCEPT !.start = from, !.end = to, !.days = days, !.supervisors = sup,
                               !.status = status, !.reviewer = reviewer]
    BY DEF Edited
  <1> HIDE DEF row, from, to, days, length, status, reviewer
  <1>8. /\ row.start = from /\ row.end = to /\ row.days = days /\ row.supervisors = sup
        /\ row.live = leave[r].live /\ row.staffId = leave[r].staffId
        /\ row.status = status /\ row.reviewer = reviewer /\ LeaveShape(row)
    BY <1>2, <1>7 DEF GoodLeave, LeaveShape
  <1>9. GoodLeave(row)
    BY <1>2, <1>4, <1>5, <1>8 DEF GoodLeave
  <1>10. r \notin mixed /\ r \notin stated' => LastsItsDays(row)
    <2> SUFFICES ASSUME r \notin mixed, r \notin stated'
                 PROVE  LastsItsDays(row)
      OBVIOUS
    <2>1. ~States(dto) /\ r \notin stated /\ LastsItsDays(leave[r])
      BY <1>1, <1>2
    <2>2. CASE Dated(dto)
      <3>1. Duration(from, to) > 0 /\ Duration(from, to) = to - from + 1
        BY <1>1, <1>8, <2>2 DEF Duration
      <3> QED BY <1>4, <1>6, <1>8, <2>1, <2>2, <3>1 DEF LastsItsDays
    <2>3. CASE ~Dated(dto)
      BY <1>4, <1>6, <1>8, <2>1, <2>3 DEF LastsItsDays
    <2> QED BY <2>2, <2>3
  <1>11. r \notin mixed /\ row.supervisors = {} => r \in emptied'
    BY <1>1, <1>2, <1>8
  <1>12. r \notin stated' => row.status = leave[r].status /\ row.reviewer = leave[r].reviewer
    BY <1>1, <1>6, <1>8
  <1>13. emptied \subseteq emptied' /\ stated \subseteq stated'
    BY <1>1
  <1> HIDE DEF sup
  <1> QED BY <1>1, <1>9, <1>10, <1>11, <1>12, <1>13, LeaveTake

LEMMA AskUpdateStatusSound ==
    ASSUME LeaveInv, NEW s \in Slots, NEW r \in Requests, NEW u, NEW status \in LeaveStatuses,
           AskUpdateStatus(s, r, u, status)
    PROVE  LeaveInv'
  <1> DEFINE row == [leave[r] EXCEPT !.status = status, !.reviewer = u]
             h == At("leave.decide", <<"leave", r>>, u, row)
  <1>1. r \in Filed /\ Take(s, h) /\ UNCHANGED <<leave, decided, emptied, stated, mixed>>
    BY DEF AskUpdateStatus, leaveVars
  <1>2. /\ GoodLeave(leave[r])
        /\ r \notin mixed /\ r \notin stated => LastsItsDays(leave[r])
        /\ r \notin mixed /\ leave[r].supervisors = {} => r \in emptied
    BY <1>1 DEF LeaveInv, LeaveRows
  <1>3. /\ GoodLeave(row) /\ row.reviewer = u /\ row.supervisors = leave[r].supervisors
        /\ LastsItsDays(leave[r]) => LastsItsDays(row)
    BY <1>2 DEF GoodLeave, LastsItsDays, LeaveShape
  <1> HIDE DEF row
  <1> QED BY <1>1, <1>2, <1>3, LeaveTake

LEMMA LookAtLeaveSound ==
    ASSUME LeaveInv, NEW s \in Slots, LookAtLeave(s)
    PROVE  LeaveInv'
  <1>1. desk[s].pc \in {"leave.update", "leave.decide"} /\ UNCHANGED leaveVars
    BY DEF LookAtLeave
  <1>2. PICK r \in Filed : GoodLeaveHandlerAt(desk[s], r)
    BY <1>1 DEF LeaveInv, GoodLeaveHandler
  <1>3. /\ desk[s].on = <<"leave", r>> /\ Shaped(desk[s])
        /\ Wants(desk[s].object, r, desk[s].pc = "leave.decide", desk[s].by)
    <2>1. CASE desk[s].pc = "leave.update"
      BY <1>2, <2>1 DEF GoodLeaveHandlerAt, Wants
    <2>2. CASE desk[s].pc = "leave.decide"
      BY <1>2, <2>2 DEF GoodLeaveHandlerAt, Wants
    <2> QED BY <1>1, <1>2, <2>1, <2>2 DEF GoodLeaveHandlerAt
  <1>4. /\ GoodLeave(leave[r])
        /\ r \notin mixed /\ leave[r].supervisors = {} => r \in emptied
    BY <1>2 DEF LeaveInv, LeaveRows
  <1> DEFINE want == IF desk[s].pc = "leave.update" THEN desk[s].object
                     ELSE [desk[s].object EXCEPT !.supervisors = leave[r].supervisors]
             object == [decides |-> desk[s].pc = "leave.decide", was |-> leave[r], want |-> want]
             k == [desk[s] EXCEPT !.pc = "leave.write", !.object = object]
  <1>5. Goes(s, k)
    BY <1>3 DEF LookAtLeave
  <1>6. Wants(want, r, desk[s].pc = "leave.decide", desk[s].by)
    <2>1. CASE desk[s].pc = "leave.update"
      BY <1>3, <2>1
    <2>2. CASE desk[s].pc # "leave.update"
      <3>1. want = [desk[s].object EXCEPT !.supervisors = leave[r].supervisors]
        BY <2>2
      <3> HIDE DEF want
      <3>2. /\ LeaveShape(want) /\ want.supervisors = leave[r].supervisors
            /\ want.live = desk[s].object.live /\ want.staffId = desk[s].object.staffId
            /\ want.start = desk[s].object.start /\ want.end = desk[s].object.end
            /\ want.days = desk[s].object.days /\ want.status = desk[s].object.status
            /\ want.reviewer = desk[s].object.reviewer
        BY <1>3, <3>1 DEF Wants, GoodLeave, LeaveShape
      <3> QED BY <1>3, <1>4, <3>2 DEF Wants, GoodLeave, LastsItsDays
    <2> QED BY <2>1, <2>2
  <1> HIDE DEF want
  <1>7. /\ k.pc = "leave.write" /\ k.on = <<"leave", r>> /\ k.by = desk[s].by /\ Shaped(k)
        /\ k.object = object
    BY <1>3 DEF Shaped
  <1>8. /\ object.decides = (desk[s].pc = "leave.decide") /\ object.was = leave[r]
        /\ object.want = want
    OBVIOUS
  <1> HIDE DEF k, object
  <1>9. /\ DeskIs' /\ Alone' /\ desk'[s] = k /\ crossed' = crossed
        /\ \A t \in Slots : t # s => desk'[t] = desk[t]
    BY <1>1, <1>3, <1>5, <1>7, GoesAlone DEF LeaveInv
  <1>10. /\ UNCHANGED <<leave, decided, emptied, stated, mixed>>
         /\ Filed' = Filed
    BY <1>1 DEF leaveVars, Filed
  <1>11. Looked(k, r)
    BY <1>4, <1>6, <1>7, <1>8 DEF Looked
  <1>12. GoodLeaveHandlerAt(k, r)
    BY <1>7, <1>11 DEF GoodLeaveHandlerAt
  <1>13. GoodLeaveHandlerAt(desk[s], r)'
    BY <1>9, <1>10, <1>12 DEF GoodLeaveHandlerAt, Looked, Wants, Shaped, GoodLeave, LeaveShape,
                              LastsItsDays
  <1>14. GoodLeaveHandler(desk[s])'
    BY <1>10, <1>13 DEF GoodLeaveHandler
  <1> QED BY <1>9, <1>10, <1>14, LeaveGoes

SameLeave(row, want) ==
    /\ row.start = want.start /\ row.end = want.end /\ row.days = want.days
    /\ row.supervisors = want.supervisors
    /\ row.status = want.status /\ row.reviewer = want.reviewer

\* What a write leaves: columns of the row and of the row that is wanted, which
\* it is when the look has seen the row
LEMMA WrittenSound ==
    ASSUME NEW row, NEW was, NEW want, GoodLeave(row), GoodLeave(was), GoodLeave(want)
    PROVE  /\ GoodLeave(Written(row, was, want))
           /\ was = row => SameLeave(Written(row, was, want), want)
  <1> DEFINE merged == Merge(row, was, want)
             sup == (row.supervisors \ (was.supervisors \ want.supervisors))
                      \cup (want.supervisors \ was.supervisors)
             new == Written(row, was, want)
  <1>1. /\ merged = [k \in DOMAIN row |-> IF want[k] # was[k] THEN want[k] ELSE row[k]]
        /\ new = [merged EXCEPT !.supervisors = sup]
    BY DEF Merge, Written
  <1>2. /\ DOMAIN row = DOMAIN want /\ DOMAIN row = DOMAIN was /\ DOMAIN merged = DOMAIN row
        /\ DOMAIN new = DOMAIN row
    BY <1>1 DEF GoodLeave, LeaveShape
  <1>3. /\ \A k \in DOMAIN row : merged[k] \in {want[k], row[k]}
        /\ \A k \in DOMAIN row : was = row => merged[k] = want[k]
    BY <1>1
  <1>4. /\ "supervisors" \in DOMAIN row /\ new["supervisors"] = sup
        /\ \A k \in DOMAIN row : k # "supervisors" => new[k] = merged[k]
    BY <1>1, <1>2 DEF GoodLeave, LeaveShape
  <1> HIDE DEF merged, new
  <1>5. GoodLeave(new)
    <2>1. \A k \in DOMAIN row : k # "supervisors" => new[k] \in {want[k], row[k]}
      BY <1>3, <1>4
    <2>2. /\ new["live"] \in {want["live"], row["live"]}
          /\ new["staffId"] \in {want["staffId"], row["staffId"]}
          /\ new["status"] \in {want["status"], row["status"]}
          /\ new["start"] \in {want["start"], row["start"]}
          /\ new["end"] \in {want["end"], row["end"]}
          /\ new["days"] \in {want["days"], row["days"]}
      BY <2>1 DEF GoodLeave, LeaveShape
    <2> QED BY <1>2, <2>2 DEF GoodLeave, LeaveShape
  <1>6. ASSUME was = row
        PROVE  SameLeave(new, want)
    <2>1. sup = want.supervisors
      <3>1. PICK A, B : A = row.supervisors /\ B = want.supervisors
        OBVIOUS
      <3>2. sup = (A \ (A \ B)) \cup (B \ A)
        BY <1>6, <3>1
      <3> QED BY <3>1, <3>2
    <2> HIDE DEF sup
    <2>2. \A k \in DOMAIN row : new[k] = want[k]
      BY <1>3, <1>4, <1>6, <2>1
    <2> QED BY <2>2 DEF GoodLeave, LeaveShape, SameLeave
  <1> QED BY <1>5, <1>6 DEF new

LEMMA SaveLeaveSound ==
    ASSUME LeaveInv, NEW s \in Slots, SaveLeave(s)
    PROVE  LeaveInv'
  <1>1. desk[s].pc = "leave.write" /\ desk[s].pc # "idle" /\ Ends(s)
    BY DEF SaveLeave
  <1>2. PICK r \in Filed : GoodLeaveHandlerAt(desk[s], r)
    BY <1>1 DEF LeaveInv, GoodLeaveHandler
  <1> DEFINE was == desk[s].object.was
             want == desk[s].object.want
             decides == desk[s].object.decides
             by == desk[s].by
             row == Written(leave[r], was, want)
  <1>3. /\ desk[s].on = <<"leave", r>> /\ GoodLeave(was)
        /\ r \notin mixed => was = leave[r]
        /\ GoodLeave(want)
        /\ r \notin mixed /\ r \notin stated => LastsItsDays(want)
        /\ r \notin mixed /\ want.supervisors = {} => r \in emptied
        /\ decides => want.reviewer = by
        /\ ~decides /\ <<"leave", r>> \notin crossed /\ r \notin stated =>
             want.status = leave[r].status /\ want.reviewer = leave[r].reviewer
    BY <1>1, <1>2 DEF GoodLeaveHandlerAt, Looked, Wants
  <1>4. LeaveRows /\ r \in Requests /\ Filed \subseteq Requests
    BY FiledFacts DEF LeaveInv
  <1>5. /\ DeskIs' /\ Alone' /\ desk'[s] = Idle
        /\ \A t \in Slots : t # s => desk'[t] = desk[t]
        /\ crossed' = crossed
    BY <1>1, EndsAlone DEF LeaveInv
  <1>6. CASE LeaveRefused(leave[r], was, want)
    <2>1. UNCHANGED leaveVars
      BY <1>3, <1>6 DEF SaveLeave
    <2> QED BY <1>5, <2>1, IdleIsIdle, LeaveGoes DEF leaveVars
  <1>7. CASE ~LeaveRefused(leave[r], was, want)
    <2>1. /\ leave' = [leave EXCEPT ![r] = row]
          /\ decided' = IF decides THEN [decided EXCEPT ![r] = <<want.status, by>>] ELSE decided
          /\ mixed' = IF \E t \in Slots \ {s} : desk[t].on = <<"leave", r>> /\ desk[t].pc = "leave.write"
                      THEN mixed \cup {r} ELSE mixed
          /\ UNCHANGED <<emptied, stated>>
      BY <1>3, <1>7 DEF SaveLeave
    <2>2. GoodLeave(leave[r])
      BY <1>4 DEF LeaveRows
    <2>3. GoodLeave(row) /\ (r \notin mixed => SameLeave(row, want))
      BY <1>3, <2>2, WrittenSound
    <2> HIDE DEF row, was, want, decides, by
    <2>4. /\ leave' = [q \in Requests |-> leave'[q]] /\ leave'[r] = row
          /\ \A q \in Requests : q # r => leave'[q] = leave[q]
          /\ decided' = [q \in Requests |-> decided'[q]]
          /\ \A q \in Requests : q # r => decided'[q] = decided[q]
          /\ decides => decided'[r] = <<want.status, by>>
          /\ ~decides => decided'[r] = decided[r]
      BY <1>4, <2>1 DEF LeaveRows
    <2>5. Filed' = Filed
      BY <1>4, <2>3, <2>4 DEF Filed, GoodLeave
    <2>6. mixed \subseteq mixed' /\ mixed' \subseteq mixed \cup {r}
      BY <2>1
    <2>7. r \in mixed' => <<"leave", r>> \in crossed
      <3>1. CASE r \in mixed
        BY <1>4, <3>1 DEF LeaveRows
      <3>2. CASE r \notin mixed /\ r \in mixed'
        <4>1. PICK t \in Slots \ {s} : desk[t].on = <<"leave", r>> /\ desk[t].pc = "leave.write"
          BY <2>1, <3>2
        <4>2. desk[t].pc # "idle" /\ t # s
          BY <4>1
        <4> QED BY <1>1, <1>3, <4>1, <4>2 DEF LeaveInv, Alone
      <3> QED BY <3>1, <3>2
    <2>8. LeaveRows'
      <3>1. ASSUME NEW q \in Filed'
            PROVE  /\ GoodLeave(leave[q])'
                   /\ q \notin mixed' /\ q \notin stated' => LastsItsDays(leave[q])'
                   /\ q \notin mixed' /\ leave'[q].supervisors = {} => q \in emptied'
                   /\ <<"leave", q>> \notin crossed' /\ q \notin stated' =>
                        decided'[q] = <<leave'[q].status, leave'[q].reviewer>>
        <4>1. CASE q = r
          <5>1. GoodLeave(leave[r])'
            BY <2>3, <2>4 DEF GoodLeave, LeaveShape
          <5>2. r \notin mixed' => SameLeave(leave'[r], want)
            BY <2>3, <2>4, <2>6
          <5>3. r \notin mixed' /\ r \notin stated' => LastsItsDays(leave[r])'
            BY <1>3, <2>1, <2>6, <5>2 DEF LastsItsDays, SameLeave
          <5>4. r \notin mixed' /\ leave'[r].supervisors = {} => r \in emptied'
            BY <1>3, <2>1, <2>6, <5>2 DEF SameLeave
          <5>5. <<"leave", r>> \notin crossed' /\ r \notin stated' =>
                  decided'[r] = <<leave'[r].status, leave'[r].reviewer>>
            <6> SUFFICES ASSUME <<"leave", r>> \notin crossed, r \notin stated
                         PROVE  decided'[r] = <<leave'[r].status, leave'[r].reviewer>>
              BY <1>5, <2>1
            <6>1. leave'[r].status = want.status /\ leave'[r].reviewer = want.reviewer
              BY <2>7, <5>2 DEF SameLeave
            <6>2. decided[r] = <<leave[r].status, leave[r].reviewer>>
              BY <1>4 DEF LeaveRows
            <6> QED BY <1>3, <2>4, <6>1, <6>2
          <5> QED BY <4>1, <5>1, <5>3, <5>4, <5>5
        <4>2. CASE q # r
          <5>1. q \in Filed /\ leave'[q] = leave[q] /\ decided'[q] = decided[q]
            BY <1>4, <2>4, <2>5, <4>2
          <5> QED BY <1>4, <1>5, <2>1, <2>6, <5>1 DEF LeaveRows, GoodLeave, LeaveShape, LastsItsDays
        <4> QED BY <4>1, <4>2
      <3>2. \A q \in Requests \ Filed' : decided'[q] = <<"Pending", None>>
        BY <1>4, <2>4, <2>5 DEF LeaveRows
      <3>3. \A q \in mixed' : <<"leave", q>> \in crossed'
        BY <1>4, <1>5, <2>6, <2>7 DEF LeaveRows
      <3>4. Filed' = 1..Cardinality(Filed')
        BY <1>4, <2>5 DEF LeaveRows
      <3> QED BY <2>4, <3>1, <3>2, <3>3, <3>4 DEF LeaveRows
    <2>9. ASSUME NEW t \in Slots, desk'[t].pc # "idle"
          PROVE  GoodLeaveHandler(desk[t])'
      <3>1. t # s /\ desk'[t] = desk[t] /\ desk[t].pc # "idle"
        BY <1>5, <2>9, IdleIsIdle
      <3>2. PICK q \in Filed : GoodLeaveHandlerAt(desk[t], q)
        BY <3>1 DEF LeaveInv, GoodLeaveHandler
      <3>3. desk[t].on = <<"leave", q>>
        BY <3>2 DEF GoodLeaveHandlerAt
      <3>4. <<"leave", q>> \notin crossed' => leave'[q] = leave[q]
        <4>1. q = r => <<"leave", q>> \in crossed
          BY <1>1, <1>3, <3>1, <3>3 DEF LeaveInv, Alone
        <4> QED BY <1>4, <1>5, <2>4, <4>1
      <3>5. desk[t].pc = "leave.write" /\ q \notin mixed' => leave'[q] = leave[q]
        <4>1. q = r /\ desk[t].pc = "leave.write" => r \in mixed'
          BY <2>1, <3>1, <3>3
        <4> QED BY <1>4, <2>4, <4>1
      <3> QED BY <1>5, <2>1, <2>5, <2>6, <3>1, <3>2, <3>4, <3>5, SameLeaveHandler
    <2> QED BY <1>5, <2>8, <2>9 DEF LeaveInv
  <1> QED BY <1>6, <1>7

LEMMA LeaveStepSound ==
    ASSUME LeaveInv, LeaveStep
    PROVE  LeaveInv'
  <1>1. ASSUME NEW u \in Staff, NEW v, NEW dto \in Filings, NEW found, CreateLeave(u, v, dto, found)
        PROVE  LeaveInv'
    BY <1>1, CreateLeaveSound
  <1> QED BY <1>1, AskUpdateLeaveSound, AskUpdateStatusSound, LookAtLeaveSound,
             SaveLeaveSound DEF LeaveStep

LEMMA LeaveRowsInit == ASSUME LeaveInit PROVE LeaveRows
  <1>1. Filed = {}
    BY DEF LeaveInit, Filed, NoLeave
  <1>2. Filed = 1..Cardinality(Filed)
    BY <1>1, FS_EmptySet
  <1> QED BY <1>1, <1>2 DEF LeaveInit, LeaveRows

LEMMA NothingFiled == ASSUME LeaveInit, desk = [s \in Slots |-> Idle] PROVE LeaveInv
  BY LeaveRowsInit, DeskInit, IdleIsIdle DEF LeaveInv

LEMMA CountFields ==
    ASSUME NEW R
    PROVE  /\ LeaveCount(R).total = Cardinality(R)
           /\ \A x \in LeaveStatuses :
                LeaveCount(R)[x] = Cardinality({r \in R : leave[r].status = x})
  <1>1. {r \in R : "total" \in {"total", leave[r].status}} = R
    OBVIOUS
  <1>2. \A x \in LeaveStatuses : {r \in R : x \in {"total", leave[r].status}}
                                 = {r \in R : leave[r].status = x}
    BY DEF LeaveStatuses
  <1> QED BY <1>1, <1>2 DEF LeaveCount, LeaveStatuses

LEMMA StatusesFinite == IsFiniteSet(LeaveStatuses)
  <1>1. LeaveStatuses = (((({} \cup {"Pending"}) \cup {"Approved"}) \cup {"Declined"})
                           \cup {"Cancelled"}) \cup {"Completed"}
    BY DEF LeaveStatuses
  <1> QED BY <1>1, FS_EmptySet, FS_AddElement

LEMMA LeaveCounted ==
    ASSUME LeaveRows
    PROVE  /\ AdminStats.total = MapThenSumSet(LAMBDA u : StaffStats(u).total, Staff)
           /\ AdminStats.total = MapThenSumSet(LAMBDA x : AdminStats[x], LeaveStatuses)
  <1>1. IsFiniteSet(Filed) /\ AdminStats.total = Cardinality(Filed)
    BY FiledFacts, CountFields DEF AdminStats
  <1>2. \A r \in Filed : leave[r].staffId \in Staff /\ leave[r].status \in LeaveStatuses
    BY DEF LeaveRows, GoodLeave
  <1>3. Cardinality(Filed) = MapThenSumSet(LAMBDA u : StaffStats(u).total, Staff)
    <2> DEFINE P == [u \in Staff |-> MyLeave(u, None)]
               g == [u \in Staff |-> StaffStats(u).total]
    <2>1. MapThenSumSet(LAMBDA u : StaffStats(u).total, Staff) = Total(g, Staff)
      BY DEF Total, MapThenSumSet, MapThenFoldSet
    <2>2. \A u \in Staff : P[u] = {r \in Filed : leave[r].staffId = u}
      BY DEF MyLeave
    <2>3. \A u \in Staff : g[u] = Cardinality(MyLeave(u, None))
      BY CountFields DEF StaffStats
    <2>4. \A u \in Staff : g[u] = Cardinality(P[u])
      BY <2>3
    <2> HIDE DEF P, g
    <2>5. \A u \in Staff : IsFiniteSet(P[u])
      BY <1>1, <2>2, FS_Subset
    <2>6. \A u, v \in Staff : u # v => P[u] \cap P[v] = {}
      BY <2>2
    <2>7. UNION {P[u] : u \in Staff} = Filed
      BY <1>2, <2>2
    <2>8. Total(g, Staff) = Cardinality(UNION {P[u] : u \in Staff})
      BY <2>4, <2>5, <2>6, StaffIsFinite, SumOfParts
    <2> QED BY <2>1, <2>7, <2>8
  <1>4. Cardinality(Filed) = MapThenSumSet(LAMBDA x : AdminStats[x], LeaveStatuses)
    <2> DEFINE P == [x \in LeaveStatuses |-> {r \in Filed : leave[r].status = x}]
               g == [x \in LeaveStatuses |-> AdminStats[x]]
    <2>1. MapThenSumSet(LAMBDA x : AdminStats[x], LeaveStatuses) = Total(g, LeaveStatuses)
      BY DEF Total, MapThenSumSet, MapThenFoldSet
    <2>2. \A x \in LeaveStatuses : P[x] = {r \in Filed : leave[r].status = x}
      OBVIOUS
    <2>3. \A x \in LeaveStatuses : g[x] = Cardinality(P[x])
      BY CountFields DEF AdminStats
    <2> HIDE DEF P, g
    <2>4. \A x \in LeaveStatuses : IsFiniteSet(P[x])
      BY <1>1, <2>2, FS_Subset
    <2>5. \A x, y \in LeaveStatuses : x # y => P[x] \cap P[y] = {}
      BY <2>2
    <2>6. UNION {P[x] : x \in LeaveStatuses} = Filed
      BY <1>2, <2>2
    <2>7. Total(g, LeaveStatuses) = Cardinality(UNION {P[x] : x \in LeaveStatuses})
      BY <2>3, <2>4, <2>5, StatusesFinite, SumOfParts
    <2> QED BY <2>1, <2>6, <2>7
  <1> QED BY <1>1, <1>3, <1>4

LEMMA LeaveRowsSuffice == ASSUME LeaveRows PROVE LeaveHolds
  <1>1. ASSUME NEW r \in Filed
        PROVE  /\ r \notin mixed \cup stated =>
                    leave[r].days = leave[r].end + 1 - leave[r].start /\ leave[r].days > 0
               /\ r \notin mixed => (leave[r].supervisors = {} => r \in emptied)
               /\ <<"leave", r>> \notin crossed /\ r \notin stated =>
                    decided[r] = <<leave[r].status, leave[r].reviewer>>
    BY DEF LeaveRows, LastsItsDays
  <1>2. ASSUME NEW u \in Staff
        PROVE  SupervisorMe(u, None) = None <=> SupervisorStats(u)["total"] = 0
    <2>1. SupervisorStats(u)["total"] = Cardinality(ForSupervisor(u))
      BY CountFields DEF SupervisorStats
    <2>2. ForSupervisor(u) \in SUBSET Requests /\ IsFiniteSet(ForSupervisor(u))
      BY FiledFacts, FS_Subset DEF ForSupervisor
    <2>3. SupervisorStats(u)["total"] = 0 <=> ForSupervisor(u) = {}
      BY <2>1, <2>2, FS_EmptySet
    <2>4. SupervisorMe(u, None) = IF IsSupervisor(u) THEN ForSupervisor(u) ELSE None
      BY DEF SupervisorMe
    <2>5. ForSupervisor(u) # None
      BY <2>2, LeaveConstants
    <2>6. IsSupervisor(u) <=> ForSupervisor(u) # {}
      BY DEF IsSupervisor, ForSupervisor
    <2> QED BY <2>3, <2>4, <2>5, <2>6
  <1> QED BY <1>1, <1>2, LeaveCounted DEF LeaveHolds

-----------------------------------------------------------------------------
(* Tickets.  The reference of a ticket is its id.  At an uncrossed ticket    *)
(* either the log tells its status, or its one handler has the line that     *)
(* will.                                                                     *)

TicketShape(row) == DOMAIN row = {"ref", "dept", "creator", "status"}

LineNames == TicketStatuses \cup {"created", "updated", "comment"}
Line == [line : LineNames, author : Staff]
Entitled == chiefs \cup UNION {heads[d] : d \in Depts}

GoodTicket(row) ==
    /\ TicketShape(row) /\ row.ref \in Nat \ {0}
    /\ row.dept \in Depts /\ row.creator \in Staff /\ row.status \in TicketStatuses

\* The newest line of the log that names a status
Newest(t, k) == k \in Lines(t) /\ \A j \in Lines(t) : j <= k
Told(t) ==
    \/ Lines(t) = {} /\ ticket[t].status = "Open"
    \/ \E k \in Lines(t) :
         /\ Newest(t, k) /\ log[t][k].line = ticket[t].status
         /\ ticket[t].status = "Completed" => log[t][k].author \in Entitled

TicketRows ==
    /\ ticket = [t \in TicketIds |-> ticket[t]]
    /\ log \in [TicketIds -> Seq(Line)]
    /\ heads \in [Depts -> SUBSET Staff]
    /\ Opened = 1..Cardinality(Opened)
    /\ \A t \in Opened : GoodTicket(ticket[t]) /\ ticket[t].ref = t
    /\ \A t \in TicketIds \ Opened : log[t] = <<>>

\* What the handler of a request knows of its ticket
KnowsTicket(h, t) ==
    /\ h.pc = "ticket.update" => h.object.status = ticket[t].status /\ Told(t)
    /\ h.pc = "ticket.status" =>
         Told(t) /\ (h.object.status = "Completed" => h.by \in Entitled)
    /\ h.pc = "ticket.log" =>
         \/ h.object.line \notin TicketStatuses /\ Told(t)
         \/ /\ h.object.line = ticket[t].status
            /\ ticket[t].status = "Completed" => h.by \in Entitled

GoodFiling(h) ==
    /\ h.pc = "ticket.create" /\ h.on = <<"ticket", 0>> /\ GoodTicket(h.object)
    /\ h.object.status = "Open" /\ h.object.ref <= Cardinality(Opened) + 1
GoodChange(h, t) ==
    /\ h.on = <<"ticket", t>>
    /\ \/ h.pc \in {"ticket.update", "ticket.status"} /\ GoodTicket(h.object) /\ h.object.ref = t
       \/ h.pc = "ticket.log" /\ h.object.line \in LineNames
    /\ <<"ticket", t>> \notin crossed => KnowsTicket(h, t)
GoodClerk(h) == /\ Shaped(h) /\ h.by \in Staff
                /\ GoodFiling(h) \/ \E t \in Opened : GoodChange(h, t)

Unwatched(t) == \A s \in Slots : desk[s].pc # "idle" => desk[s].on # <<"ticket", t>>

TicketInv ==
    /\ TicketRows /\ DeskIs /\ Alone
    /\ \A s \in Slots : desk[s].pc # "idle" => GoodClerk(desk[s])
    /\ \A t \in Opened : <<"ticket", t>> \notin crossed /\ Unwatched(t) => Told(t)

LEMMA OpenedFacts ==
    ASSUME TicketRows
    PROVE  /\ Opened \subseteq TicketIds /\ IsFiniteSet(Opened) /\ Cardinality(Opened) \in Nat
           /\ Cardinality(Opened) + 1 \notin Opened
           /\ Opened \cup {Cardinality(Opened) + 1} = 1..(Cardinality(Opened) + 1)
           /\ \A t \in Opened : t \in Nat \ {0}
  <1>1. Opened \subseteq TicketIds /\ IsFiniteSet(Opened)
    BY TicketConstants, FS_Subset DEF Opened
  <1> DEFINE n == Cardinality(Opened)
  <1>2. n \in Nat /\ Opened = 1..n
    BY <1>1, FS_CardinalityType DEF TicketRows
  <1> HIDE DEF n
  <1>3. n + 1 \notin 1..n /\ (1..n) \cup {n + 1} = 1..(n + 1)
    BY <1>2
  <1> QED BY <1>1, <1>2, <1>3, TicketConstants DEF n

\* A line that names no status leaves what the log tells; one that names the
\* status, by one who may have set it, tells it
LEMMA LineAdded ==
    ASSUME TicketRows, NEW t \in TicketIds, NEW l \in Line,
           log' = [log EXCEPT ![t] = Append(@, l)], UNCHANGED <<ticket, heads, chiefs>>
    PROVE  /\ log' \in [TicketIds -> Seq(Line)]
           /\ \A u \in TicketIds : u # t => log'[u] = log[u] /\ (Told(u)' <=> Told(u))
           /\ l.line \notin TicketStatuses /\ Told(t) => Told(t)'
           /\ /\ l.line \in TicketStatuses /\ l.line = ticket[t].status
              /\ ticket[t].status = "Completed" => l.author \in Entitled
              => Told(t)'
  <1> DEFINE n == Len(log[t])
             p == Append(log[t], l)
  <1>1. /\ log[t] \in Seq(Line) /\ n \in Nat /\ DOMAIN log[t] = 1..n
        /\ p \in Seq(Line) /\ DOMAIN p = 1..(n + 1) /\ p[n + 1] = l
        /\ \A k \in 1..n : p[k] = log[t][k]
    BY DEF TicketRows
  <1>2. /\ log'[t] = p /\ log' \in [TicketIds -> Seq(Line)]
        /\ \A u \in TicketIds : u # t => log'[u] = log[u]
    BY <1>1 DEF TicketRows
  <1>3. Entitled' = Entitled
    BY DEF Entitled
  <1>4. ASSUME NEW u \in TicketIds, u # t
        PROVE  Told(u)' <=> Told(u)
    BY <1>2, <1>3, <1>4 DEF Told, Newest, Lines
  <1> HIDE DEF n, p
  <1>5. /\ \A k \in 1..(n + 1) : k \in 1..n \/ (k = n + 1 /\ k \notin 1..n)
        /\ \A k \in 1..n : k \in 1..(n + 1)
    BY <1>1, LastOrBefore
  <1>6. Lines(t)' = IF l.line \in TicketStatuses THEN Lines(t) \cup {n + 1} ELSE Lines(t)
    <2>1. ASSUME NEW k
          PROVE  k \in Lines(t)' <=> k \in Lines(t) \/ (l.line \in TicketStatuses /\ k = n + 1)
      <3>1. CASE k \in 1..n
        BY <1>1, <1>2, <1>5, <3>1 DEF Lines
      <3>2. CASE k \notin 1..n
        BY <1>1, <1>2, <1>5, <3>2 DEF Lines
      <3> QED BY <3>1, <3>2
    <2> QED BY <2>1
  <1>7. Lines(t) \subseteq 1..n
    BY <1>1 DEF Lines
  <1>8. ASSUME l.line \notin TicketStatuses, Told(t)
        PROVE  Told(t)'
    BY <1>1, <1>2, <1>3, <1>6, <1>7, <1>8 DEF Told, Newest
  <1>9. ASSUME l.line \in TicketStatuses, l.line = ticket[t].status,
               ticket[t].status = "Completed" => l.author \in Entitled
        PROVE  Told(t)'
    <2>1. PICK m : m = n + 1
      OBVIOUS
    <2>2. m \in Lines(t)' /\ \A j \in Lines(t)' : j <= m
      BY <1>1, <1>6, <1>7, <1>9, <2>1
    <2>3. log'[t][m] = l
      BY <1>1, <1>2, <2>1
    <2>4. /\ log'[t][m].line = ticket'[t].status
          /\ ticket'[t].status = "Completed" => log'[t][m].author \in Entitled'
      <3>1. ticket' = ticket
        OBVIOUS
      <3>2. log'[t][m].line = l.line /\ log'[t][m].author = l.author
        BY <2>3
      <3>3. log'[t][m].line = ticket'[t].status
        BY <1>9, <3>1, <3>2, Zenon
      <3>4. ticket'[t].status = "Completed" => log'[t][m].author \in Entitled'
        <4>1. ticket'[t].status = ticket[t].status
          BY <3>1
        <4>2. CASE ticket[t].status = "Completed"
          <5>1. l.author \in Entitled
            BY <1>9, <4>2
          <5>2. l.author \in Entitled'
            BY <1>3, <5>1
          <5> QED BY <3>2, <5>2
        <4> QED BY <4>1, <4>2
      <3> QED BY <3>3, <3>4
    <2> QED BY <2>2, <2>4 DEF Told, Newest
  <1> QED BY <1>2, <1>4, <1>8, <1>9

\* A handler that a step leaves alone
LEMMA SameClerk ==
    ASSUME TicketRows, NEW s \in Slots, GoodClerk(desk[s]), desk'[s] = desk[s],
           crossed \subseteq crossed', UNCHANGED <<heads, chiefs>>,
           Cardinality(Opened) \in Nat, Cardinality(Opened') \in Nat,
           Cardinality(Opened) <= Cardinality(Opened'),
           \A t \in Opened :
               /\ t \in Opened'
               /\ <<"ticket", t>> \notin crossed' /\ desk[s].on = <<"ticket", t>> =>
                    ticket'[t].status = ticket[t].status /\ (Told(t) => Told(t)')
    PROVE  GoodClerk(desk[s])'
  <1>1. Entitled' = Entitled
    BY DEF Entitled
  <1>2. CASE GoodFiling(desk[s])
    BY <1>2 DEF GoodClerk, GoodFiling, GoodTicket, Shaped
  <1>3. ASSUME NEW t \in Opened, GoodChange(desk[s], t)
        PROVE  t \in Opened' /\ GoodChange(desk[s], t)'
    <2>1. <<"ticket", t>> \notin crossed' => KnowsTicket(desk[s], t)'
      BY <1>1, <1>3 DEF GoodChange, KnowsTicket
    <2> QED BY <1>3, <2>1 DEF GoodChange, GoodTicket
  <1> QED BY <1>2, <1>3 DEF GoodClerk, Shaped

LEMMA TicketTake ==
    ASSUME TicketInv, NEW s \in Slots, NEW h, Take(s, h), UNCHANGED ticketVars,
           GoodClerk(desk[s])'
    PROVE  TicketInv'
  <1>1. /\ DeskIs' /\ Alone' /\ desk'[s] = h
        /\ \A t \in Slots : t # s => desk'[t] = desk[t]
        /\ crossed \subseteq crossed'
        /\ h.on \notin crossed' => \A t \in Slots : desk[t].on # h.on
    BY TakeAlone DEF TicketInv
  <1>2. TicketRows /\ Cardinality(Opened) \in Nat
    BY OpenedFacts DEF TicketInv
  <1>3. Opened' = Opened /\ (\A t \in Opened : Told(t)' <=> Told(t)) /\ UNCHANGED <<heads, chiefs>>
    BY DEF ticketVars, Opened, Told, Newest, Lines, Entitled
  <1>4. TicketRows'
    BY <1>2, <1>3 DEF TicketRows, ticketVars, GoodTicket
  <1>5. ASSUME NEW t \in Slots, t # s, desk'[t].pc # "idle"
        PROVE  GoodClerk(desk[t])'
    <2>1. GoodClerk(desk[t]) /\ desk'[t] = desk[t]
      BY <1>1, <1>5 DEF TicketInv
    <2> QED BY <1>1, <1>2, <1>3, <2>1, SameClerk DEF ticketVars
  <1>6. ASSUME NEW t \in Opened, <<"ticket", t>> \notin crossed', Unwatched(t)'
        PROVE  Told(t)'
    <2>1. CASE h.on = <<"ticket", t>>
      <3>1. Unwatched(t)
        BY <1>1, <1>6, <2>1 DEF Unwatched
      <3> QED BY <1>1, <1>3, <1>6, <3>1 DEF TicketInv
    <2>2. CASE h.on # <<"ticket", t>>
      <3>1. desk[s].pc = "idle"
        BY DEF Take, Ready
      <3>2. Unwatched(t)
        BY <1>1, <1>6, <3>1 DEF Unwatched
      <3> QED BY <1>1, <1>3, <1>6, <3>2 DEF TicketInv
    <2> QED BY <2>1, <2>2
  <1> QED BY <1>1, <1>3, <1>4, <1>5, <1>6 DEF TicketInv

\* What a new request knows of an uncrossed ticket: nobody else is at it
LEMMA FreshTicket ==
    ASSUME TicketInv, NEW s \in Slots, NEW h, Take(s, h), NEW t \in Opened,
           h.on = <<"ticket", t>>, <<"ticket", t>> \notin crossed'
    PROVE  Told(t)
  <1>1. /\ crossed \subseteq crossed'
        /\ h.on \notin crossed' => \A r \in Slots : desk[r].on # h.on
    BY TakeAlone DEF TicketInv
  <1>2. Unwatched(t)
    BY <1>1 DEF Unwatched
  <1> QED BY <1>1, <1>2 DEF TicketInv

LEMMA AskCreateTicketSound ==
    ASSUME TicketInv, NEW s \in Slots, NEW u \in Staff, NEW d \in Depts, AskCreateTicket(s, u, d)
    PROVE  TicketInv'
  <1> DEFINE row == [ref |-> NextRef(Cardinality(Opened)), dept |-> d, creator |-> u,
                     status |-> "Open"]
             h == At("ticket.create", <<"ticket", 0>>, u, row)
  <1>1. Take(s, h) /\ UNCHANGED ticketVars
    BY DEF AskCreateTicket
  <1>2. /\ h.pc = "ticket.create" /\ h.on = <<"ticket", 0>> /\ h.by = u /\ h.object = row
        /\ Shaped(h)
    BY AtFields, AtShape
  <1>3. Cardinality(Opened) \in Nat /\ Opened' = Opened
    BY <1>1, OpenedFacts DEF TicketInv, Opened, ticketVars
  <1>4. /\ GoodTicket(row) /\ row.status = "Open" /\ row.ref <= Cardinality(Opened) + 1
    BY <1>3 DEF GoodTicket, TicketShape, NextRef, TicketStatuses
  <1> HIDE DEF row, h
  <1>5. desk'[s] = h
    BY <1>1, TakeAlone DEF TicketInv
  <1>6. GoodFiling(desk[s])'
    <2>1. GoodTicket(desk[s].object)'
      BY <1>2, <1>4, <1>5 DEF GoodTicket
    <2> QED BY <1>2, <1>3, <1>4, <1>5, <2>1 DEF GoodFiling
  <1>7. GoodClerk(desk[s])'
    BY <1>2, <1>5, <1>6 DEF GoodClerk, Shaped
  <1> QED BY <1>1, <1>7, TicketTake

LEMMA AskUpdateTicketSound ==
    ASSUME TicketInv, NEW s \in Slots, NEW u \in Staff, NEW t \in TicketIds, NEW d \in Depts,
           AskUpdateTicket(s, u, t, d)
    PROVE  TicketInv'
  <1> DEFINE row == [ticket[t] EXCEPT !.dept = d]
             h == At("ticket.update", <<"ticket", t>>, u, row)
  <1>1. Take(s, h) /\ UNCHANGED ticketVars /\ t \in Opened
    BY DEF AskUpdateTicket
  <1>2. /\ h.pc = "ticket.update" /\ h.on = <<"ticket", t>> /\ h.by = u /\ h.object = row
        /\ Shaped(h)
    BY AtFields, AtShape
  <1>3. GoodTicket(ticket[t]) /\ ticket[t].ref = t /\ Opened' = Opened
    BY <1>1 DEF TicketInv, TicketRows, Opened, ticketVars
  <1>4. GoodTicket(row) /\ row.ref = t /\ row.status = ticket[t].status
    BY <1>3 DEF GoodTicket, TicketShape
  <1> HIDE DEF row, h
  <1>5. desk'[s] = h
    BY <1>1, TakeAlone DEF TicketInv
  <1>6. <<"ticket", t>> \notin crossed' => Told(t)'
    <2>1. <<"ticket", t>> \notin crossed' => Told(t)
      BY <1>1, <1>2, FreshTicket
    <2> QED BY <1>1, <2>1 DEF ticketVars, Told, Newest, Lines, Entitled
  <1>7. GoodChange(desk[s], t)'
    <2>1. GoodTicket(desk[s].object)'
      BY <1>2, <1>4, <1>5 DEF GoodTicket
    <2> QED BY <1>1, <1>2, <1>4, <1>5, <1>6, <2>1 DEF GoodChange, KnowsTicket, ticketVars
  <1>8. GoodClerk(desk[s])'
    BY <1>1, <1>2, <1>3, <1>5, <1>7 DEF GoodClerk, Shaped
  <1> QED BY <1>1, <1>8, TicketTake

LEMMA AskTicketStatusSound ==
    ASSUME TicketInv, NEW s \in Slots, NEW u \in Staff, NEW t \in TicketIds,
           NEW status \in TicketStatuses, AskTicketStatus(s, u, t, status)
    PROVE  TicketInv'
  <1> DEFINE row == [ticket[t] EXCEPT !.status = status]
             h == At("ticket.status", <<"ticket", t>>, u, row)
  <1>1. Take(s, h) /\ UNCHANGED ticketVars /\ t \in Opened /\ MaySet(u, t, status)
    BY DEF AskTicketStatus
  <1>2. /\ h.pc = "ticket.status" /\ h.on = <<"ticket", t>> /\ h.by = u /\ h.object = row
        /\ Shaped(h)
    BY AtFields, AtShape
  <1>3. GoodTicket(ticket[t]) /\ ticket[t].ref = t /\ Opened' = Opened
    BY <1>1 DEF TicketInv, TicketRows, Opened, ticketVars
  <1>4. GoodTicket(row) /\ row.ref = t /\ row.status = status
    BY <1>3 DEF GoodTicket, TicketShape
  <1>5. status = "Completed" => u \in Entitled
    BY <1>1, <1>3 DEF MaySet, IsHod, Entitled, GoodTicket
  <1>6. Entitled' = Entitled
    BY <1>1 DEF Entitled, ticketVars
  <1> HIDE DEF row, h
  <1>7. desk'[s] = h
    BY <1>1, TakeAlone DEF TicketInv
  <1>8. <<"ticket", t>> \notin crossed' => Told(t)'
    <2>1. <<"ticket", t>> \notin crossed' => Told(t)
      BY <1>1, <1>2, FreshTicket
    <2> QED BY <1>1, <2>1 DEF ticketVars, Told, Newest, Lines, Entitled
  <1>9. GoodChange(desk[s], t)'
    <2>1. GoodTicket(desk[s].object)'
      BY <1>2, <1>4, <1>7 DEF GoodTicket
    <2> QED BY <1>1, <1>2, <1>4, <1>5, <1>6, <1>7, <1>8, <2>1 DEF GoodChange, KnowsTicket
  <1>10. GoodClerk(desk[s])'
    BY <1>1, <1>2, <1>3, <1>7, <1>9 DEF GoodClerk, Shaped
  <1> QED BY <1>1, <1>10, TicketTake

\* A step at ticket t, and the handlers it leaves alone
LEMMA TicketMoves ==
    ASSUME TicketInv, NEW t, TicketRows', DeskIs', Alone', crossed \subseteq crossed',
           UNCHANGED <<heads, chiefs>>, Opened \subseteq Opened', Opened' \subseteq Opened \cup {t},
           \A x \in Opened : x # t => ticket'[x] = ticket[x] /\ (Told(x) => Told(x)'),
           \A s \in Slots :
               \/ /\ desk'[s].pc # "idle" => GoodClerk(desk[s])'
                  /\ desk[s].on \in {<<"ticket", t>>, <<"ticket", 0>>}
               \/ /\ desk'[s] = desk[s]
                  /\ <<"ticket", t>> \notin crossed' /\ desk[s].pc # "idle"
                     /\ t \in Opened /\ desk[s].on = <<"ticket", t>> =>
                       ticket'[t].status = ticket[t].status /\ (Told(t) => Told(t)'),
           t \in Opened' /\ <<"ticket", t>> \notin crossed' /\ Unwatched(t)' => Told(t)'
    PROVE  TicketInv'
  <1>1. TicketRows /\ Cardinality(Opened) \in Nat /\ \A x \in Opened : x # 0
    BY OpenedFacts DEF TicketInv
  <1>2. IsFiniteSet(Opened') /\ Cardinality(Opened') \in Nat
    <2>1. Opened' \subseteq TicketIds
      BY DEF Opened
    <2> QED BY <2>1, TicketConstants, FS_Subset, FS_CardinalityType
  <1>3. Cardinality(Opened) <= Cardinality(Opened')
    BY <1>2, FS_Subset
  <1>4. ASSUME NEW s \in Slots, desk'[s].pc # "idle"
        PROVE  GoodClerk(desk[s])'
    <2>1. CASE desk'[s].pc # "idle" => GoodClerk(desk[s])'
      BY <1>4, <2>1
    <2>2. CASE ~(desk'[s].pc # "idle" => GoodClerk(desk[s])')
      <3>1. /\ desk'[s] = desk[s] /\ desk[s].pc # "idle"
            /\ <<"ticket", t>> \notin crossed' /\ t \in Opened /\ desk[s].on = <<"ticket", t>> =>
                 ticket'[t].status = ticket[t].status /\ (Told(t) => Told(t)')
        BY <1>4, <2>2
      <3>2. GoodClerk(desk[s])
        BY <3>1 DEF TicketInv
      <3>3. ASSUME NEW x \in Opened, <<"ticket", x>> \notin crossed', desk[s].on = <<"ticket", x>>
            PROVE  ticket'[x].status = ticket[x].status /\ (Told(x) => Told(x)')
        <4>1. CASE x = t
          BY <3>1, <3>3, <4>1
        <4>2. CASE x # t
          BY <3>3, <4>2
        <4> QED BY <4>1, <4>2
      <3> QED BY <1>1, <1>2, <1>3, <3>1, <3>2, <3>3, SameClerk
    <2> QED BY <2>1, <2>2
  <1>5. ASSUME NEW x \in Opened', <<"ticket", x>> \notin crossed', Unwatched(x)'
        PROVE  Told(x)'
    <2>1. CASE x = t
      BY <1>5, <2>1
    <2>2. CASE x # t
      <3>1. x \in Opened /\ x # 0
        BY <1>1, <1>5, <2>2
      <3>2. \A s \in Slots : desk[s].on = <<"ticket", x>> => desk'[s] = desk[s]
        BY <2>2, <3>1
      <3>3. Unwatched(x)
        BY <1>5, <3>2 DEF Unwatched
      <3>4. Told(x)
        BY <1>5, <3>1, <3>3 DEF TicketInv
      <3> QED BY <2>2, <3>1, <3>4
    <2> QED BY <2>1, <2>2
  <1> QED BY <1>4, <1>5 DEF TicketInv

LEMMA RefsInUse ==
    ASSUME TicketRows, NEW ref \in Nat \ {0}, ref <= Cardinality(Opened) + 1
    PROVE  (\E x \in Opened : ticket[x].ref = ref) <=> ref # Cardinality(Opened) + 1
  <1>1. /\ Cardinality(Opened) \in Nat /\ Opened = 1..Cardinality(Opened)
        /\ \A x \in Opened : ticket[x].ref = x
    BY OpenedFacts DEF TicketRows
  <1> DEFINE n == Cardinality(Opened)
  <1> HIDE DEF n
  <1>2. ref \in 1..n <=> ref # n + 1
    BY <1>1 DEF n
  <1>3. ref \in Opened <=> ref # n + 1
    BY <1>1, <1>2 DEF n
  <1> QED BY <1>1, <1>3 DEF n

\* What is unchanged at every ticket but t
LEMMA OthersTold ==
    ASSUME TicketRows, NEW t, NEW row, ticket' = [ticket EXCEPT ![t] = row],
           UNCHANGED <<log, heads, chiefs>>
    PROVE  /\ \A x \in TicketIds : x # t => ticket'[x] = ticket[x] /\ (Told(x) <=> Told(x)')
           /\ t \in TicketIds => ticket'[t] = row
           /\ ticket' = [x \in TicketIds |-> ticket'[x]]
  <1>1. /\ \A x \in TicketIds : x # t => ticket'[x] = ticket[x]
        /\ t \in TicketIds => ticket'[t] = row
        /\ ticket' = [x \in TicketIds |-> ticket'[x]]
    BY DEF TicketRows
  <1>2. Entitled' = Entitled /\ log' = log
    BY DEF Entitled
  <1>3. ASSUME NEW x \in TicketIds, x # t
        PROVE  Told(x) <=> Told(x)'
    BY <1>1, <1>2, <1>3 DEF Told, Newest, Lines
  <1> QED BY <1>1, <1>3

LEMMA InsertTicketSound ==
    ASSUME TicketInv, NEW s \in Slots, InsertTicket(s)
    PROVE  TicketInv'
  <1>0. PICK t : t = Cardinality(Opened) + 1
    OBVIOUS
  <1> DEFINE h == desk[s]
  <1>1. h.pc = "ticket.create" /\ UNCHANGED <<log, heads, chiefs>>
    BY DEF InsertTicket
  <1>2. TicketRows /\ DeskIs /\ Alone /\ GoodClerk(h)
    BY <1>1 DEF TicketInv
  <1>3. GoodFiling(h)
    BY <1>1, <1>2 DEF GoodClerk, GoodChange
  <1>4. /\ h.on = <<"ticket", 0>> /\ GoodTicket(h.object) /\ h.object.status = "Open"
        /\ h.object.ref \in Nat \ {0} /\ h.object.ref <= t /\ h.by \in Staff /\ Shaped(h)
    BY <1>0, <1>2, <1>3 DEF GoodFiling, GoodTicket, GoodClerk
  <1>5. /\ Opened \subseteq TicketIds /\ IsFiniteSet(Opened) /\ Cardinality(Opened) \in Nat
        /\ t \notin Opened /\ Opened \cup {t} = 1..t /\ \A x \in Opened : x \in Nat \ {0}
    BY <1>0, <1>2, OpenedFacts
  <1>6. CASE \E x \in Opened : ticket[x].ref = h.object.ref
    <2>1. Ends(s) /\ UNCHANGED ticket
      BY <1>6 DEF InsertTicket
    <2>2. /\ DeskIs' /\ Alone' /\ desk'[s].pc = "idle" /\ crossed' = crossed
          /\ \A r \in Slots : r # s => desk'[r] = desk[r]
      BY <1>2, <2>1, EndsAlone, IdleIsIdle
    <2>3. Opened' = Opened /\ (\A x \in TicketIds : Told(x) <=> Told(x)')
      BY <1>1, <2>1 DEF Opened, Told, Newest, Lines, Entitled
    <2>4. TicketRows'
      BY <1>1, <1>2, <2>1, <2>3 DEF TicketRows, GoodTicket
    <2>5. \A r \in Slots :
             \/ desk'[r].pc = "idle" /\ desk[r].on = <<"ticket", 0>>
             \/ desk'[r] = desk[r]
      BY <1>4, <2>2
    <2> QED BY <1>1, <1>5, <2>1, <2>2, <2>3, <2>4, <2>5, TicketMoves
  <1>7. CASE ~\E x \in Opened : ticket[x].ref = h.object.ref
    <2>1. /\ t \in TicketIds /\ ticket' = [ticket EXCEPT ![t] = h.object]
          /\ Goes(s, At("ticket.log", <<"ticket", t>>, h.by, [line |-> "created"]))
      BY <1>0, <1>7 DEF InsertTicket
    <2>2. h.object.ref = t
      BY <1>0, <1>2, <1>4, <1>7, RefsInUse
    <2>0. PICK k : k = At("ticket.log", <<"ticket", t>>, h.by, [line |-> "created"])
      OBVIOUS
    <2>3. /\ k.pc = "ticket.log" /\ k.on = <<"ticket", t>> /\ k.by = h.by
          /\ k.object = [line |-> "created"] /\ Shaped(k)
      BY <2>0, AtFields, AtShape
    <2> HIDE DEF h
    <2>4. desk' = [desk EXCEPT ![s] = k] /\ crossed' = crossed
      BY <2>1, <2>0 DEF Goes
    <2>5. DeskIs' /\ desk'[s] = k /\ \A r \in Slots : r # s => desk'[r] = desk[r]
      BY <1>2, <2>4 DEF DeskIs
    <2>6. \A r \in Slots : desk[r].pc # "idle" => desk[r].on # <<"ticket", t>>
      <3>1. ASSUME NEW r \in Slots, desk[r].pc # "idle"
            PROVE  \E x \in Opened \cup {0} : desk[r].on = <<"ticket", x>>
        BY <3>1 DEF TicketInv, GoodClerk, GoodFiling, GoodChange
      <3>2. t # 0 /\ t \notin Opened
        BY <1>5
      <3> QED BY <3>1, <3>2
    <2>7. Alone'
      BY <1>2, <2>3, <2>4, <2>5, <2>6 DEF Alone
    <2>8. /\ \A x \in TicketIds : x # t => ticket'[x] = ticket[x] /\ (Told(x) <=> Told(x)')
          /\ ticket'[t] = h.object /\ ticket' = [x \in TicketIds |-> ticket'[x]]
      BY <1>1, <1>2, <2>1, OthersTold
    <2>9. Opened' = Opened \cup {t} /\ t \in Opened'
      BY <1>4, <2>1, <2>8 DEF Opened
    <2>10. Opened' = 1..Cardinality(Opened')
      <3>1. Cardinality(Opened') = t
        BY <1>5, <2>9, FS_AddElement, <1>0
      <3> QED BY <1>0, <1>5, <2>9, <3>1
    <2>11. TicketRows'
      <3>1. \A x \in Opened' : GoodTicket(ticket[x])' /\ ticket'[x].ref = x
        BY <1>2, <1>4, <1>5, <2>2, <2>8, <2>9 DEF TicketRows, GoodTicket
      <3>2. \A x \in TicketIds \ Opened' : log'[x] = <<>>
        BY <1>1, <1>2, <2>9 DEF TicketRows
      <3> QED BY <1>1, <1>2, <2>8, <2>10, <3>1, <3>2 DEF TicketRows
    <2>12. Told(t)'
      <3>1. log'[t] = <<>>
        BY <1>1, <1>2, <1>5, <2>1 DEF TicketRows
      <3>2. Lines(t)' = {}
        BY <3>1 DEF Lines
      <3> QED BY <1>4, <2>8, <3>2 DEF Told
    <2>13. GoodClerk(desk[s])'
      <3>1. desk'[s].object.line \in LineNames /\ desk'[s].object.line \notin TicketStatuses
        BY <2>3, <2>5 DEF LineNames, TicketStatuses
      <3>2. GoodChange(desk[s], t)'
        BY <2>3, <2>5, <2>12, <3>1 DEF GoodChange, KnowsTicket
      <3> QED BY <1>4, <2>3, <2>5, <2>9, <3>2 DEF GoodClerk, Shaped
    <2>14. \A r \in Slots : \/ GoodClerk(desk[r])' /\ desk[r].on = <<"ticket", 0>>
                            \/ desk'[r] = desk[r] /\ t \notin Opened
      BY <1>4, <1>5, <2>5, <2>13 DEF h
    <2> QED BY <1>1, <1>5, <2>4, <2>5, <2>7, <2>8, <2>9, <2>11, <2>12, <2>14, TicketMoves
  <1> QED BY <1>6, <1>7

\* A handler at a ticket that is not a new one; whoever else is there has crossed it
LEMMA AtTicket ==
    ASSUME TicketInv, NEW s \in Slots,
           desk[s].pc \in {"ticket.update", "ticket.status", "ticket.log"}
    PROVE  \E t \in Opened :
             /\ GoodChange(desk[s], t) /\ desk[s].on = <<"ticket", t>> /\ desk[s].on[2] = t
             /\ desk[s].by \in Staff /\ Shaped(desk[s])
             /\ \A r \in Slots : r # s /\ desk[r].pc # "idle" /\ desk[r].on = <<"ticket", t>>
                  => <<"ticket", t>> \in crossed
  <1>1. GoodClerk(desk[s]) /\ Alone /\ desk[s].pc # "idle"
    BY DEF TicketInv
  <1>2. PICK t \in Opened : GoodChange(desk[s], t)
    BY <1>1 DEF GoodClerk, GoodFiling
  <1>3. desk[s].on = <<"ticket", t>> /\ desk[s].by \in Staff /\ Shaped(desk[s])
    BY <1>1, <1>2 DEF GoodChange, GoodClerk
  <1>4. \A r \in Slots : r # s /\ desk[r].pc # "idle" /\ desk[r].on = <<"ticket", t>>
          => <<"ticket", t>> \in crossed
    BY <1>1, <1>3 DEF Alone
  <1> QED BY <1>2, <1>3, <1>4

LEMMA SaveTicketSound ==
    ASSUME TicketInv, NEW s \in Slots, SaveTicket(s)
    PROVE  TicketInv'
  <1>0. PICK h : h = desk[s]
    OBVIOUS
  <1>1. h.pc \in {"ticket.update", "ticket.status"} /\ UNCHANGED <<log, heads, chiefs>>
    BY <1>0 DEF SaveTicket
  <1>2. PICK t \in Opened :
          /\ GoodChange(h, t) /\ h.on = <<"ticket", t>> /\ h.on[2] = t
          /\ h.by \in Staff /\ Shaped(h)
          /\ \A r \in Slots : r # s /\ desk[r].pc # "idle" /\ desk[r].on = <<"ticket", t>>
               => <<"ticket", t>> \in crossed
    BY <1>0, <1>1, AtTicket
  <1>3. PICK k : k = [h EXCEPT !.pc = "ticket.log",
                        !.object = [line |-> IF h.pc = "ticket.update" THEN "updated"
                                             ELSE h.object.status]]
    OBVIOUS
  <1>4. ticket' = [ticket EXCEPT ![t] = h.object] /\ Goes(s, k)
    BY <1>0, <1>2, <1>3 DEF SaveTicket
  <1>5. /\ k.pc = "ticket.log" /\ k.on = <<"ticket", t>> /\ k.by = h.by /\ Shaped(k)
        /\ h.pc = "ticket.update" => k.object.line = "updated"
        /\ h.pc # "ticket.update" => k.object.line = h.object.status
    BY <1>2, <1>3 DEF Shaped
  <1>6. GoodTicket(h.object) /\ h.object.ref = t /\ h.object.ref # 0
    BY <1>1, <1>2 DEF GoodChange, GoodTicket
  <1>7. TicketRows /\ DeskIs /\ Alone /\ Opened \subseteq TicketIds
    BY OpenedFacts DEF TicketInv
  <1>8. /\ DeskIs' /\ Alone' /\ desk'[s] = k /\ crossed' = crossed
        /\ \A r \in Slots : r # s => desk'[r] = desk[r]
    BY <1>0, <1>1, <1>2, <1>4, <1>5, <1>7, GoesAlone
  <1>9. /\ \A x \in TicketIds : x # t => ticket'[x] = ticket[x] /\ (Told(x) <=> Told(x)')
        /\ ticket'[t] = h.object /\ ticket' = [x \in TicketIds |-> ticket'[x]]
    <2>1. t \in TicketIds /\ UNCHANGED <<log, heads, chiefs>>
      BY <1>1, <1>2, <1>7
    <2>2. TicketRows /\ ticket' = [ticket EXCEPT ![t] = h.object]
      BY <1>4, <1>7
    <2> QED BY <2>1, <2>2, OthersTold
  <1>10. Opened' = Opened
    BY <1>2, <1>6, <1>7, <1>9 DEF Opened
  <1>11. TicketRows'
    <2>1. ASSUME NEW x \in Opened'
          PROVE  GoodTicket(ticket[x])' /\ ticket'[x].ref = x
      <3>1. CASE x = t
        BY <1>6, <1>9, <3>1 DEF GoodTicket
      <3>2. CASE x # t
        <4>1. GoodTicket(ticket[x]) /\ ticket[x].ref = x /\ ticket'[x] = ticket[x]
          BY <1>7, <1>9, <1>10, <3>2 DEF TicketRows
        <4> QED BY <4>1 DEF GoodTicket
      <3> QED BY <3>1, <3>2
    <2> QED BY <1>1, <1>7, <1>9, <1>10, <2>1 DEF TicketRows
  <1>12. <<"ticket", t>> \notin crossed' => KnowsTicket(k, t)'
    <2> SUFFICES ASSUME <<"ticket", t>> \notin crossed'
                 PROVE  KnowsTicket(k, t)'
      OBVIOUS
    <2>1. KnowsTicket(h, t)
      BY <1>2, <1>8 DEF GoodChange
    <2>2. CASE h.pc = "ticket.update"
      <3>1. h.object.status = ticket[t].status /\ Told(t)
        BY <2>1, <2>2 DEF KnowsTicket
      <3>2. ticket'[t].status = ticket[t].status /\ Entitled' = Entitled
        BY <1>1, <1>9, <3>1 DEF Entitled
      <3>3. Told(t)'
        BY <1>1, <3>1, <3>2 DEF Told, Newest, Lines
      <3> QED BY <1>5, <2>2, <3>3 DEF KnowsTicket, TicketStatuses
    <2>3. CASE h.pc = "ticket.status"
      <3>1. h.object.status = "Completed" => h.by \in Entitled
        BY <2>1, <2>3 DEF KnowsTicket
      <3>2. ticket'[t].status = h.object.status /\ Entitled' = Entitled
        BY <1>1, <1>9 DEF Entitled
      <3>3. k.object.line = h.object.status
        BY <1>5, <2>3
      <3> QED BY <1>5, <3>1, <3>2, <3>3 DEF KnowsTicket
    <2> QED BY <1>1, <2>2, <2>3
  <1>13. GoodClerk(desk[s])'
    <2>1. k.object.line \in LineNames
      BY <1>5, <1>6 DEF LineNames, GoodTicket
    <2>2. GoodChange(k, t)'
      BY <1>5, <1>12, <2>1 DEF GoodChange
    <2> QED BY <1>2, <1>5, <1>8, <1>10, <2>2 DEF GoodClerk, GoodChange, KnowsTicket, Shaped
  <1>14. ~Unwatched(t)'
    BY <1>5, <1>8 DEF Unwatched
  <1>15. \A r \in Slots : \/ GoodClerk(desk[r])' /\ desk[r].on = <<"ticket", t>>
                          \/ /\ desk'[r] = desk[r]
                             /\ desk[r].pc # "idle" /\ desk[r].on = <<"ticket", t>> =>
                                  <<"ticket", t>> \in crossed'
    BY <1>0, <1>2, <1>8, <1>13
  <1> QED BY <1>1, <1>7, <1>8, <1>9, <1>10, <1>11, <1>14, <1>15, TicketMoves

\* A line is added to the log of t
LEMMA LineSound ==
    ASSUME TicketInv, NEW t \in Opened, NEW l \in Line, log' = [log EXCEPT ![t] = Append(@, l)],
           UNCHANGED <<ticket, heads, chiefs>>
    PROVE  TicketRows' /\ Opened' = Opened
  <1>1. TicketRows /\ t \in TicketIds /\ Opened' = Opened
    BY DEF TicketInv, Opened
  <1>2. /\ log' \in [TicketIds -> Seq(Line)] /\ \A x \in TicketIds : x # t => log'[x] = log[x]
    BY <1>1, LineAdded
  <1> QED BY <1>1, <1>2 DEF TicketRows, GoodTicket

LEMMA LogTicketSound ==
    ASSUME TicketInv, NEW s \in Slots, LogTicket(s)
    PROVE  TicketInv'
  <1>0. PICK h : h = desk[s]
    OBVIOUS
  <1>1. h.pc = "ticket.log" /\ UNCHANGED <<ticket, heads, chiefs>> /\ Ends(s)
    BY <1>0 DEF LogTicket
  <1>2. PICK t \in Opened :
          /\ GoodChange(h, t) /\ h.on = <<"ticket", t>> /\ h.on[2] = t
          /\ h.by \in Staff /\ Shaped(h)
          /\ \A r \in Slots : r # s /\ desk[r].pc # "idle" /\ desk[r].on = <<"ticket", t>>
               => <<"ticket", t>> \in crossed
    BY <1>0, <1>1, AtTicket
  <1>3. PICK l : l = [line |-> h.object.line, author |-> h.by]
    OBVIOUS
  <1>4. log' = [log EXCEPT ![t] = Append(@, l)]
    BY <1>0, <1>2, <1>3 DEF LogTicket
  <1>5. l \in Line /\ l.line = h.object.line /\ l.author = h.by
    BY <1>1, <1>2, <1>3 DEF GoodChange, Line
  <1>6. TicketRows /\ DeskIs /\ Alone /\ t \in TicketIds /\ Opened \subseteq TicketIds
    BY OpenedFacts DEF TicketInv
  <1>7. TicketRows' /\ Opened' = Opened
    BY <1>1, <1>4, <1>5, LineSound
  <1>8. /\ \A u \in TicketIds : u # t => Told(u)' <=> Told(u)
        /\ l.line \notin TicketStatuses /\ Told(t) => Told(t)'
        /\ /\ l.line \in TicketStatuses /\ l.line = ticket[t].status
           /\ ticket[t].status = "Completed" => l.author \in Entitled
           => Told(t)'
    BY <1>1, <1>4, <1>5, <1>6, LineAdded
  <1>9. /\ DeskIs' /\ Alone' /\ desk'[s].pc = "idle" /\ crossed' = crossed
        /\ \A r \in Slots : r # s => desk'[r] = desk[r]
    BY <1>1, <1>6, EndsAlone, IdleIsIdle
  <1>10. <<"ticket", t>> \notin crossed' => Told(t)'
    <2> SUFFICES ASSUME <<"ticket", t>> \notin crossed'
                 PROVE  Told(t)'
      OBVIOUS
    <2>1. KnowsTicket(h, t)
      BY <1>2, <1>9 DEF GoodChange
    <2>2. \/ l.line \notin TicketStatuses /\ Told(t)
          \/ /\ l.line = ticket[t].status
             /\ ticket[t].status = "Completed" => l.author \in Entitled
      BY <1>1, <1>5, <2>1 DEF KnowsTicket
    <2>3. ticket[t].status \in TicketStatuses
      BY <1>6 DEF TicketRows, GoodTicket
    <2> QED BY <1>8, <2>2, <2>3
  <1>11. \A r \in Slots : \/ desk'[r].pc = "idle" /\ desk[r].on = <<"ticket", t>>
                          \/ /\ desk'[r] = desk[r]
                             /\ desk[r].pc # "idle" /\ desk[r].on = <<"ticket", t>> =>
                                  <<"ticket", t>> \in crossed'
    BY <1>0, <1>2, <1>9
  <1> QED BY <1>1, <1>6, <1>7, <1>8, <1>9, <1>10, <1>11, TicketMoves

LEMMA AddTicketCommentSound ==
    ASSUME TicketInv, NEW u \in Staff, NEW t \in TicketIds, AddTicketComment(u, t)
    PROVE  TicketInv'
  <1>1. PICK l : l = [line |-> "comment", author |-> u]
    OBVIOUS
  <1>2. l \in Line /\ l.line \notin TicketStatuses
    BY <1>1 DEF Line, LineNames, TicketStatuses
  <1>3. /\ t \in Opened /\ Quick(<<"comment", t>>) /\ log' = [log EXCEPT ![t] = Append(@, l)]
        /\ UNCHANGED <<ticket, heads, chiefs>>
    BY <1>1 DEF AddTicketComment
  <1>4. TicketRows /\ DeskIs /\ Alone /\ Opened \subseteq TicketIds
    BY OpenedFacts DEF TicketInv
  <1>5. TicketRows' /\ Opened' = Opened
    BY <1>2, <1>3, LineSound
  <1>6. DeskIs' /\ Alone' /\ desk' = desk /\ crossed \subseteq crossed'
    BY <1>3, <1>4, QuickAlone
  <1>7. (\A x \in TicketIds : x # t => Told(x)' <=> Told(x)) /\ (Told(t) => Told(t)')
    BY <1>2, <1>3, <1>4, LineAdded
  <1>8. <<"ticket", t>> \notin crossed' /\ Unwatched(t)' => Told(t)'
    BY <1>3, <1>6, <1>7 DEF TicketInv, Unwatched
  <1> QED BY <1>3, <1>4, <1>5, <1>6, <1>7, <1>8, TicketMoves

LEMMA TicketStepSound ==
    ASSUME TicketInv, TicketStep
    PROVE  TicketInv'
  BY AskCreateTicketSound, AskUpdateTicketSound, AskTicketStatusSound, InsertTicketSound,
     SaveTicketSound, LogTicketSound, AddTicketCommentSound DEF TicketStep

LEMMA TicketRowsInit == ASSUME TicketInit PROVE TicketRows /\ Opened = {}
  <1>1. Opened = {}
    BY DEF TicketInit, Opened, NoTicket
  <1>2. Opened = 1..Cardinality(Opened)
    BY <1>1, FS_EmptySet
  <1>3. log = [t \in TicketIds |-> <<>>] /\ log \in [TicketIds -> Seq(Line)]
    BY DEF TicketInit
  <1> QED BY <1>1, <1>2, <1>3 DEF TicketInit, TicketRows

LEMMA NothingOpened == ASSUME TicketInit, desk = [s \in Slots |-> Idle] PROVE TicketInv
  BY TicketRowsInit, DeskInit, IdleIsIdle DEF TicketInv

LEMMA StatusesOfTickets == IsFiniteSet(TicketStatuses)
  <1>1. TicketStatuses = (({} \cup {"Open"}) \cup {"In_Progress"}) \cup {"Completed"}
    BY DEF TicketStatuses
  <1> QED BY <1>1, FS_EmptySet, FS_AddElement

LEMMA TicketsCounted ==
    ASSUME TicketRows
    PROVE  MapThenSumSet(LAMBDA x : TicketStats[x], TicketStatuses) = Cardinality(Opened)
  <1> DEFINE P == [x \in TicketStatuses |-> {t \in Opened : ticket[t].status = x}]
             g == [x \in TicketStatuses |-> TicketStats[x]]
  <1>1. MapThenSumSet(LAMBDA x : TicketStats[x], TicketStatuses) = Total(g, TicketStatuses)
    BY DEF Total, MapThenSumSet, MapThenFoldSet
  <1>2. \A x \in TicketStatuses : P[x] = {t \in Opened : ticket[t].status = x}
    OBVIOUS
  <1>3. \A x \in TicketStatuses : g[x] = Cardinality(P[x])
    BY DEF TicketStats
  <1> HIDE DEF P, g
  <1>4. \A x \in TicketStatuses : IsFiniteSet(P[x])
    BY <1>2, OpenedFacts, FS_Subset
  <1>5. \A x, y \in TicketStatuses : x # y => P[x] \cap P[y] = {}
    BY <1>2
  <1>6. UNION {P[x] : x \in TicketStatuses} = Opened
    <2>1. \A t \in Opened : ticket[t].status \in TicketStatuses
      BY DEF TicketRows, GoodTicket
    <2> QED BY <1>2, <2>1
  <1>7. Total(g, TicketStatuses) = Cardinality(UNION {P[x] : x \in TicketStatuses})
    BY <1>3, <1>4, <1>5, StatusesOfTickets, SumOfParts
  <1> QED BY <1>1, <1>6, <1>7

LEMMA NewestIsLast ==
    ASSUME TicketRows, NEW t \in TicketIds, NEW k, Newest(t, k)
    PROVE  LastLine(t) = log[t][k]
  <1>1. log[t] \in Seq(Line) /\ \A j \in Lines(t) : j \in Nat
    BY DEF TicketRows, Lines
  <1>2. \A j : j \in Lines(t) /\ (\A i \in Lines(t) : i <= j) => j = k
    BY <1>1 DEF Newest
  <1>3. k \in Lines(t) /\ \A i \in Lines(t) : i <= k
    BY DEF Newest
  <1>4. (CHOOSE j \in Lines(t) : \A i \in Lines(t) : i <= j) = k
    BY <1>2, <1>3
  <1> QED BY <1>4 DEF LastLine

LEMMA TicketRowsSuffice ==
    ASSUME TicketRows,
           \A t \in Opened : <<"ticket", t>> \notin crossed /\ Unwatched(t) => Told(t)
    PROVE  /\ LogTellsStatus /\ TicketListsAgree
           /\ {ticket[t].ref : t \in Opened} = 1..Cardinality(Opened)
  <1>1. \A t \in Opened : t \in TicketIds /\ GoodTicket(ticket[t]) /\ ticket[t].ref = t
    BY OpenedFacts DEF TicketRows
  <1>2. ASSUME NEW t \in Opened, ~Busy(<<"ticket", t>>), <<"ticket", t>> \notin crossed
        PROVE  /\ Lines(t) = {} => ticket[t].status = "Open"
               /\ Lines(t) # {} => LastLine(t).line = ticket[t].status
               /\ ticket[t].status = "Completed" =>
                    LastLine(t).author \in chiefs \cup UNION {heads[d] : d \in Depts}
    <2>1. Told(t)
      <3>1. Unwatched(t)
        BY <1>2 DEF Busy, Unwatched
      <3> QED BY <1>2, <3>1
    <2>2. CASE Lines(t) = {} /\ ticket[t].status = "Open"
      BY <2>2
    <2>3. ASSUME NEW k \in Lines(t), Newest(t, k), log[t][k].line = ticket[t].status,
                 ticket[t].status = "Completed" => log[t][k].author \in Entitled
          PROVE  /\ LastLine(t).line = ticket[t].status /\ Lines(t) # {}
                 /\ ticket[t].status = "Completed" =>
                      LastLine(t).author \in chiefs \cup UNION {heads[d] : d \in Depts}
      <3>1. LastLine(t) = log[t][k]
        BY <1>1, <2>3, NewestIsLast
      <3> QED BY <2>3, <3>1 DEF Entitled
    <2> QED BY <2>1, <2>2, <2>3 DEF Told
  <1>3. ASSUME NEW t \in Opened
        PROVE  /\ {u \in Staff : t \in MyTickets(u)} = {ticket[t].creator}
               /\ \A h \in FoundHeads(ticket[t].dept) :
                    /\ \A u \in ToldOfTicket(h) : t \in ReceivedTickets(u)
                    /\ ToldOfTicket(h) = {} => \A u \in Staff : t \notin ReceivedTickets(u)
                    /\ \A u \in Staff : u \notin ToldOfStatus(u, t) \cup ToldOfComment(u, t, h)
    <2>1. ticket[t].creator \in Staff /\ ticket[t].dept \in Depts
      BY <1>1 DEF GoodTicket
    <2>2. heads[ticket[t].dept] \subseteq Staff
      BY <2>1 DEF TicketRows
    <2>3. {u \in Staff : t \in MyTickets(u)} = {ticket[t].creator}
      BY <2>1 DEF MyTickets
    <2>4. ASSUME NEW h \in FoundHeads(ticket[t].dept)
          PROVE  /\ \A u \in ToldOfTicket(h) : t \in ReceivedTickets(u)
                 /\ ToldOfTicket(h) = {} => \A u \in Staff : t \notin ReceivedTickets(u)
                 /\ \A u \in Staff : u \notin ToldOfStatus(u, t) \cup ToldOfComment(u, t, h)
      <3>1. CASE heads[ticket[t].dept] = {}
        <4>1. h = None /\ ToldOfTicket(h) = {}
          BY <3>1 DEF FoundHeads, ToldOfTicket
        <4>2. \A u \in Staff : t \notin ReceivedTickets(u)
          BY <3>1 DEF ReceivedTickets, IsHod
        <4> QED BY <4>1, <4>2 DEF ToldOfStatus, ToldOfComment
      <3>2. CASE heads[ticket[t].dept] # {}
        <4>1. h \in heads[ticket[t].dept] /\ h # None
          BY <2>2, <3>2, TicketConstants DEF FoundHeads
        <4>2. ToldOfTicket(h) = {h} /\ t \in ReceivedTickets(h)
          BY <4>1 DEF ToldOfTicket, ReceivedTickets, IsHod
        <4> QED BY <4>2 DEF ToldOfStatus, ToldOfComment
      <3> QED BY <3>1, <3>2
    <2> QED BY <2>3, <2>4
  <1>4. {ticket[t].ref : t \in Opened} = Opened
    BY <1>1
  <1>5. Opened = 1..Cardinality(Opened)
    BY DEF TicketRows
  <1>6. LogTellsStatus
    BY <1>2 DEF LogTellsStatus
  <1>7. TicketListsAgree
    BY <1>3, TicketsCounted DEF TicketListsAgree
  <1> QED BY <1>4, <1>5, <1>6, <1>7

-----------------------------------------------------------------------------
(* Ideas.  No two ideas have one reference, and they are 1 to their number   *)
(* until one is removed below another or comes back.                         *)

GoodIdea(row) == DOMAIN row = {"ref", "author", "comments"} /\ row.ref \in Nat \ {0}

Distinct == \A i, j \in Kept : idea[i].ref = idea[j].ref => i = j

IdeaRows ==
    /\ idea = [i \in Ideas |-> idea[i]]
    /\ proposed \subseteq Ideas /\ proposed = 1..Cardinality(proposed) /\ Kept \subseteq proposed
    /\ \A i \in Kept : GoodIdea(idea[i])
    /\ Distinct
    /\ ~gap => RefsOf(Kept) = 1..Cardinality(Kept)

GoodIdeaHandler(h) ==
    /\ h.pc \in {"idea.create", "idea.update"} => GoodIdea(h.object)
    /\ h.pc = "idea.update" => \E i \in proposed : h.on = <<"idea", i>>

IdeaInv ==
    /\ IdeaRows /\ DeskIs
    /\ \A s \in Slots : desk[s].pc # "idle" => GoodIdeaHandler(desk[s])

LEMMA IdeaFacts ==
    ASSUME IdeaRows
    PROVE  /\ IsFiniteSet(proposed) /\ Cardinality(proposed) \in Nat
           /\ IsFiniteSet(Kept) /\ Cardinality(Kept) \in Nat /\ Kept \subseteq Ideas
           /\ Cardinality(proposed) + 1 \notin proposed
           /\ proposed \cup {Cardinality(proposed) + 1} = 1..(Cardinality(proposed) + 1)
  <1>1. /\ IsFiniteSet(proposed) /\ Cardinality(proposed) \in Nat
        /\ IsFiniteSet(Kept) /\ Cardinality(Kept) \in Nat
    BY IdeaConstants, FS_Subset, FS_CardinalityType DEF IdeaRows
  <1> DEFINE n == Cardinality(proposed)
  <1>2. n \in Nat /\ proposed = 1..n
    BY <1>1 DEF IdeaRows
  <1> HIDE DEF n
  <1>3. n + 1 \notin 1..n /\ (1..n) \cup {n + 1} = 1..(n + 1)
    BY <1>2
  <1> QED BY <1>1, <1>2, <1>3 DEF n, Kept

\* The desk after a step of slot s, or of none
LEMMA IdeaDesk ==
    ASSUME IdeaInv, IdeaRows', DeskIs', proposed \subseteq proposed',
           \A s \in Slots : \/ desk'[s] = desk[s]
                            \/ desk'[s].pc = "idle" \/ GoodIdeaHandler(desk[s])'
    PROVE  IdeaInv'
  <1>1. ASSUME NEW s \in Slots, desk'[s].pc # "idle"
        PROVE  GoodIdeaHandler(desk[s])'
    <2>1. CASE desk'[s] = desk[s]
      BY <1>1, <2>1 DEF IdeaInv, GoodIdeaHandler, GoodIdea
    <2> QED BY <1>1, <2>1
  <1> QED BY <1>1 DEF IdeaInv

LEMMA IdeasSame ==
    ASSUME IdeaRows, UNCHANGED pipelineVars
    PROVE  IdeaRows'
  BY DEF pipelineVars, IdeaRows, Kept, RefsOf, Distinct, GoodIdea

LEMMA DeskMoves ==
    ASSUME DeskIs, NEW s \in Slots, NEW h, desk' = [desk EXCEPT ![s] = h]
    PROVE  DeskIs' /\ desk'[s] = h /\ \A r \in Slots : r # s => desk'[r] = desk[r]
  BY DEF DeskIs

LEMMA AskIdeaSound ==
    ASSUME IdeaInv, NEW s \in Slots, NEW u \in Staff,
           AskCreateIdea(s, u) \/ \E i \in Ideas : AskUpdateIdea(s, u, i) \/ AskComment(s, u, i)
    PROVE  IdeaInv'
  <1>1. UNCHANGED pipelineVars /\ IdeaRows
    BY DEF AskCreateIdea, AskUpdateIdea, AskComment, IdeaInv
  <1>2. IdeaRows' /\ proposed' = proposed /\ Cardinality(Kept) \in Nat
    BY <1>1, IdeasSame, IdeaFacts DEF pipelineVars
  <1>3. \E h : GoodIdeaHandler(h) /\ Take(s, h)
    <2>1. CASE AskCreateIdea(s, u)
      <3>1. PICK row : row = [ref |-> NextRef(Cardinality(Kept)), author |-> u, comments |-> 0]
        OBVIOUS
      <3>2. GoodIdea(row)
        BY <1>2, <3>1 DEF GoodIdea, NextRef
      <3>3. Take(s, At("idea.create", <<"idea", 0>>, u, row))
        BY <2>1, <3>1 DEF AskCreateIdea
      <3>4. GoodIdeaHandler(At("idea.create", <<"idea", 0>>, u, row))
        BY <3>2, AtFields DEF GoodIdeaHandler
      <3> QED BY <3>3, <3>4
    <2>2. ASSUME NEW i \in Ideas, AskUpdateIdea(s, u, i)
          PROVE  \E h : GoodIdeaHandler(h) /\ Take(s, h)
      <3>1. Take(s, At("idea.update", <<"idea", i>>, u, idea[i])) /\ i \in Kept
        BY <2>2 DEF AskUpdateIdea
      <3>2. GoodIdea(idea[i]) /\ i \in proposed
        BY <1>1, <3>1 DEF IdeaRows
      <3>3. GoodIdeaHandler(At("idea.update", <<"idea", i>>, u, idea[i]))
        BY <3>2, AtFields DEF GoodIdeaHandler
      <3> QED BY <3>1, <3>3
    <2>3. ASSUME NEW i \in Ideas, AskComment(s, u, i)
          PROVE  \E h : GoodIdeaHandler(h) /\ Take(s, h)
      <3>1. GoodIdeaHandler(At("idea.comment", <<"comment", i>>, u, None))
        BY AtFields DEF GoodIdeaHandler
      <3> QED BY <2>3, <3>1 DEF AskComment
    <2> QED BY <2>1, <2>2, <2>3
  <1>4. PICK h : GoodIdeaHandler(h) /\ Take(s, h)
    BY <1>3
  <1>5. DeskIs' /\ desk'[s] = h /\ \A r \in Slots : r # s => desk'[r] = desk[r]
    BY <1>4, DeskMoves DEF Take, IdeaInv
  <1>6. GoodIdeaHandler(desk[s])'
    BY <1>2, <1>4, <1>5 DEF GoodIdeaHandler, GoodIdea
  <1> QED BY <1>2, <1>5, <1>6, IdeaDesk

LEMMA InsertIdeaSound ==
    ASSUME IdeaInv, NEW s \in Slots, InsertIdea(s)
    PROVE  IdeaInv'
  <1>0. PICK h, i : h = desk[s] /\ i = Cardinality(proposed) + 1
    OBVIOUS
  <1>1. h.pc = "idea.create" /\ Goes(s, Idle) /\ IdeaRows
    BY <1>0 DEF InsertIdea, Ends, IdeaInv
  <1>2. GoodIdea(h.object) /\ h.object.ref \in Nat \ {0}
    BY <1>0, <1>1 DEF IdeaInv, GoodIdeaHandler, GoodIdea
  <1>3. DeskIs' /\ \A r \in Slots : desk'[r] = desk[r] \/ desk'[r].pc = "idle"
    BY <1>1, DeskMoves, IdleIsIdle DEF Goes, IdeaInv
  <1>4. /\ IsFiniteSet(Kept) /\ Cardinality(Kept) \in Nat
        /\ i \notin proposed /\ proposed \cup {i} = 1..i
        /\ IsFiniteSet(proposed) /\ Cardinality(proposed) \in Nat
    BY <1>0, <1>1, IdeaFacts
  <1>5. CASE h.object.ref \in RefsOf(Kept)
    <2>1. UNCHANGED pipelineVars
      BY <1>0, <1>5 DEF InsertIdea
    <2>2. IdeaRows' /\ proposed' = proposed
      BY <1>1, <2>1, IdeasSame DEF pipelineVars
    <2> QED BY <1>3, <2>2, IdeaDesk
  <1>6. CASE h.object.ref \notin RefsOf(Kept)
    <2>1. /\ i \in Ideas /\ idea' = [idea EXCEPT ![i] = h.object] /\ proposed' = proposed \cup {i}
          /\ gap' = (gap \/ h.object.ref # NextRef(Cardinality(Kept)))
      BY <1>0, <1>6 DEF InsertIdea
    <2>2. /\ idea'[i] = h.object /\ \A j \in Ideas : j # i => idea'[j] = idea[j]
          /\ idea' = [j \in Ideas |-> idea'[j]]
      BY <1>1, <2>1 DEF IdeaRows
    <2>3. i \notin Kept
      BY <1>1, <1>4 DEF IdeaRows
    <2>4. Kept' = Kept \cup {i}
      BY <1>2, <2>1, <2>2 DEF Kept
    <2>5. Kept' \subseteq proposed' /\ proposed' \subseteq Ideas
      BY <1>1, <2>1, <2>4 DEF IdeaRows
    <2>6. proposed' = 1..Cardinality(proposed')
      <3>1. Cardinality(proposed') = i
        BY <1>0, <1>4, <2>1, FS_AddElement
      <3> QED BY <1>4, <2>1, <3>1
    <2>7. \A j \in Kept : idea'[j] = idea[j]
      BY <2>2, <2>3 DEF Kept
    <2>8. \A j \in Kept' : GoodIdea(idea[j])'
      BY <1>1, <1>2, <2>2, <2>4, <2>7 DEF IdeaRows, GoodIdea
    <2>9. RefsOf(Kept)' = RefsOf(Kept) \cup {h.object.ref}
      BY <2>2, <2>4, <2>7 DEF RefsOf
    <2>10. Distinct'
      BY <1>1, <1>6, <2>2, <2>4, <2>7 DEF IdeaRows, Distinct, RefsOf
    <2>11. ASSUME ~gap'
           PROVE  RefsOf(Kept)' = 1..Cardinality(Kept')
      <3>1. ~gap /\ h.object.ref = Cardinality(Kept) + 1
        BY <2>1, <2>11 DEF NextRef
      <3>2. RefsOf(Kept) = 1..Cardinality(Kept)
        BY <1>1, <3>1 DEF IdeaRows
      <3>3. PICK n \in Nat : n = Cardinality(Kept)
        BY <1>4
      <3>4. Cardinality(Kept') = n + 1
        BY <1>4, <2>3, <2>4, <3>3, FS_AddElement
      <3>5. (1..n) \cup {n + 1} = 1..(n + 1)
        OBVIOUS
      <3> QED BY <2>9, <3>1, <3>2, <3>3, <3>4, <3>5
    <2>12. IdeaRows'
      BY <2>2, <2>5, <2>6, <2>8, <2>10, <2>11 DEF IdeaRows
    <2> QED BY <1>3, <2>1, <2>12, IdeaDesk
  <1> QED BY <1>5, <1>6

LEMMA SaveIdeaSound ==
    ASSUME IdeaInv, NEW s \in Slots, SaveIdea(s)
    PROVE  IdeaInv'
  <1>0. PICK h : h = desk[s]
    OBVIOUS
  <1>1. h.pc = "idea.update" /\ Goes(s, Idle) /\ proposed' = proposed /\ IdeaRows
    BY <1>0 DEF SaveIdea, Ends, IdeaInv
  <1>2. PICK i \in proposed : h.on = <<"idea", i>> /\ GoodIdea(h.object)
    BY <1>0, <1>1 DEF IdeaInv, GoodIdeaHandler
  <1>3. DeskIs' /\ \A r \in Slots : desk'[r] = desk[r] \/ desk'[r].pc = "idle"
    BY <1>1, DeskMoves, IdleIsIdle DEF Goes, IdeaInv
  <1>4. i = h.on[2] /\ i \in Ideas
    BY <1>1, <1>2 DEF IdeaRows
  <1>5. CASE ~(i \notin Kept /\ h.object.ref \notin RefsOf(Kept))
    <2>1. UNCHANGED pipelineVars
      BY <1>0, <1>1, <1>4, <1>5 DEF SaveIdea, pipelineVars
    <2>2. IdeaRows'
      BY <1>1, <2>1, IdeasSame
    <2> QED BY <1>1, <1>3, <2>2, IdeaDesk
  <1>6. CASE i \notin Kept /\ h.object.ref \notin RefsOf(Kept)
    <2>0. PICK row : row = [h.object EXCEPT !.comments = 0]
      OBVIOUS
    <2>1. idea' = [idea EXCEPT ![i] = row] /\ gap' = TRUE
      BY <1>0, <1>4, <1>6, <2>0 DEF SaveIdea
    <2>2. GoodIdea(row) /\ row.ref = h.object.ref /\ row.ref # 0
      BY <1>2, <2>0 DEF GoodIdea
    <2>3. /\ idea'[i] = row /\ \A j \in Ideas : j # i => idea'[j] = idea[j]
          /\ idea' = [j \in Ideas |-> idea'[j]]
      BY <1>1, <1>4, <2>1 DEF IdeaRows
    <2>4. Kept' = Kept \cup {i}
      BY <1>4, <2>2, <2>3 DEF Kept
    <2>5. \A j \in Kept : idea'[j] = idea[j]
      BY <1>6, <2>3 DEF Kept
    <2>6. \A j \in Kept' : GoodIdea(idea[j])'
      BY <1>1, <2>2, <2>3, <2>4, <2>5 DEF IdeaRows, GoodIdea
    <2>7. Distinct'
      BY <1>1, <1>6, <2>2, <2>3, <2>4, <2>5 DEF IdeaRows, Distinct, RefsOf
    <2>8. IdeaRows'
      BY <1>1, <2>1, <2>3, <2>4, <2>6, <2>7 DEF IdeaRows
    <2> QED BY <1>1, <1>3, <2>8, IdeaDesk
  <1> QED BY <1>5, <1>6

LEMMA TopOff ==
    ASSUME NEW n \in Nat, NEW top \in 1..n, ~\E r \in 1..n : r > top
    PROVE  (1..n) \ {top} = 1..(n - 1)
  <1>1. top = n /\ n # 0
    OBVIOUS
  <1> QED BY <1>1

LEMMA DeleteIdeaSound ==
    ASSUME IdeaInv, NEW u \in Staff, NEW i \in Ideas, DeleteIdea(u, i)
    PROVE  IdeaInv'
  <1>1. /\ i \in Kept /\ Quick(<<"idea", i>>) /\ idea' = [idea EXCEPT ![i] = NoIdea]
        /\ gap' = (gap \/ \E r \in RefsOf(Kept) : r > idea[i].ref)
        /\ proposed' = proposed /\ IdeaRows
    BY DEF DeleteIdea, IdeaInv
  <1>2. /\ idea'[i].ref = 0 /\ \A j \in Ideas : j # i => idea'[j] = idea[j]
        /\ idea' = [j \in Ideas |-> idea'[j]]
    BY <1>1 DEF IdeaRows, NoIdea
  <1>3. Kept' = Kept \ {i}
    BY <1>2 DEF Kept
  <1>4. \A j \in Kept' : idea'[j] = idea[j] /\ j \in Kept
    BY <1>2, <1>3 DEF Kept
  <1>5. (\A j \in Kept' : GoodIdea(idea[j])') /\ Distinct'
    <2>1. ASSUME NEW j \in Kept'
          PROVE  GoodIdea(idea[j])'
      BY <1>1, <1>4, <2>1 DEF IdeaRows, GoodIdea
    <2>2. ASSUME NEW j \in Kept', NEW k \in Kept', idea'[j].ref = idea'[k].ref
          PROVE  j = k
      BY <1>1, <1>4, <2>2 DEF IdeaRows, Distinct
    <2>3. Distinct'
      BY <2>2 DEF Distinct
    <2> QED BY <2>1, <2>3
  <1>6. ASSUME ~gap'
        PROVE  RefsOf(Kept)' = 1..Cardinality(Kept')
    <2>1. IsFiniteSet(Kept) /\ Cardinality(Kept) \in Nat
      BY <1>1, IdeaFacts
    <2>2. PICK n \in Nat : n = Cardinality(Kept)
      BY <2>1
    <2>3. RefsOf(Kept) = 1..n /\ ~\E r \in RefsOf(Kept) : r > idea[i].ref
      BY <1>1, <1>6, <2>2 DEF IdeaRows
    <2>4. idea[i].ref \in RefsOf(Kept)
      BY <1>1 DEF RefsOf
    <2>5. RefsOf(Kept)' = RefsOf(Kept) \ {idea[i].ref}
      <3>1. RefsOf(Kept)' = {idea[j].ref : j \in Kept \ {i}}
        BY <1>3, <1>4 DEF RefsOf
      <3>2. \A j \in Kept : idea[j].ref = idea[i].ref <=> j = i
        BY <1>1 DEF IdeaRows, Distinct
      <3> QED BY <3>1, <3>2 DEF RefsOf
    <2>6. Cardinality(Kept') = n - 1
      BY <1>1, <1>3, <2>1, <2>2, FS_RemoveElement
    <2>7. (1..n) \ {idea[i].ref} = 1..(n - 1)
      BY <2>3, <2>4, TopOff
    <2> QED BY <2>3, <2>5, <2>6, <2>7
  <1>7. IdeaRows'
    BY <1>1, <1>2, <1>3, <1>5, <1>6 DEF IdeaRows
  <1>8. desk' = desk /\ DeskIs'
    BY <1>1 DEF Quick, IdeaInv, DeskIs
  <1> QED BY <1>1, <1>7, <1>8, IdeaDesk

LEMMA InsertCommentSound ==
    ASSUME IdeaInv, NEW s \in Slots, InsertComment(s)
    PROVE  IdeaInv'
  <1>0. PICK i : i = desk[s].on[2]
    OBVIOUS
  <1>1. /\ Goes(s, Idle) /\ UNCHANGED <<proposed, gap>> /\ IdeaRows
        /\ idea' = IF i \in Kept THEN [idea EXCEPT ![i].comments = @ + 1] ELSE idea
    BY <1>0 DEF InsertComment, Ends, IdeaInv
  <1>2. DeskIs' /\ \A r \in Slots : desk'[r] = desk[r] \/ desk'[r].pc = "idle"
    BY <1>1, DeskMoves, IdleIsIdle DEF Goes, IdeaInv
  <1>3. /\ idea' = [j \in Ideas |-> idea'[j]]
        /\ \A j \in Ideas : j \notin Kept => idea'[j] = idea[j]
        /\ \A j \in Kept : GoodIdea(idea[j])' /\ idea'[j].ref = idea[j].ref
    <2>1. CASE i \in Kept
      <3>1. idea' = [idea EXCEPT ![i] = [idea[i] EXCEPT !.comments = idea[i].comments + 1]]
        BY <1>1, <2>1
      <3>2. PICK row : row = [idea[i] EXCEPT !.comments = idea[i].comments + 1]
        OBVIOUS
      <3>3. GoodIdea(row) /\ row.ref = idea[i].ref
        BY <1>1, <2>1, <3>2 DEF IdeaRows, GoodIdea
      <3>4. idea'[i] = row /\ \A j \in Ideas : j # i => idea'[j] = idea[j]
        BY <1>1, <2>1, <3>1, <3>2 DEF IdeaRows, Kept
      <3>5. idea' = [j \in Ideas |-> idea'[j]]
        BY <1>1, <3>1 DEF IdeaRows
      <3> QED BY <1>1, <2>1, <3>3, <3>4, <3>5 DEF IdeaRows, GoodIdea, Kept
    <2>2. CASE i \notin Kept
      BY <1>1, <2>2 DEF IdeaRows, GoodIdea
    <2> QED BY <2>1, <2>2
  <1>4. Kept' = Kept
    <2>1. \A j \in Ideas : idea'[j].ref = idea[j].ref
      BY <1>3
    <2> QED BY <2>1 DEF Kept
  <1>5. RefsOf(Kept)' = RefsOf(Kept) /\ Distinct'
    <2>1. \A j \in Kept : idea'[j].ref = idea[j].ref
      BY <1>3
    <2>2. RefsOf(Kept)' = {idea'[j].ref : j \in Kept}
      BY <1>4 DEF RefsOf
    <2>3. RefsOf(Kept)' = RefsOf(Kept)
      BY <2>1, <2>2 DEF RefsOf
    <2>4. Distinct
      BY <1>1 DEF IdeaRows
    <2> QED BY <1>4, <2>1, <2>3, <2>4 DEF Distinct
  <1>6. IdeaRows'
    BY <1>1, <1>3, <1>4, <1>5 DEF IdeaRows
  <1> QED BY <1>1, <1>2, <1>6, IdeaDesk

LEMMA PipelineStepSound ==
    ASSUME IdeaInv, PipelineStep
    PROVE  IdeaInv'
  BY AskIdeaSound, InsertIdeaSound, SaveIdeaSound, DeleteIdeaSound, InsertCommentSound
     DEF PipelineStep

LEMMA IdeaRowsInit == ASSUME PipelineInit PROVE IdeaRows
  <1>1. Kept = {} /\ proposed = {}
    BY DEF PipelineInit, Kept, NoIdea
  <1>2. 1..0 = {} /\ Cardinality({}) = 0 /\ RefsOf({}) = {}
    BY FS_EmptySet DEF RefsOf
  <1> QED BY <1>1, <1>2 DEF PipelineInit, IdeaRows, Distinct

LEMMA NothingProposed == ASSUME PipelineInit, desk = [s \in Slots |-> Idle] PROVE IdeaInv
  BY IdeaRowsInit, DeskInit, IdleIsIdle DEF IdeaInv

LEMMA IdeaRowsSuffice ==
    ASSUME IdeaRows
    PROVE  /\ Cardinality(RefsOf(Kept)) = Cardinality(Kept)
           /\ ~gap => RefsOf(Kept) = 1..Cardinality(Kept)
  <1> DEFINE f == [i \in Kept |-> idea[i].ref]
  <1>1. f \in Surjection(Kept, RefsOf(Kept)) /\ f \in Injection(Kept, RefsOf(Kept))
    BY DEF Surjection, Injection, IsInjective, RefsOf, IdeaRows, Distinct
  <1>2. IsFiniteSet(Kept)
    BY IdeaFacts
  <1> HIDE DEF f
  <1>3. Cardinality(RefsOf(Kept)) = Cardinality(Kept)
    BY <1>1, <1>2, FS_Surjection
  <1> QED BY <1>3 DEF IdeaRows

-----------------------------------------------------------------------------
(* The services share no table: in a behaviour of one the rows of the others *)
(* are as they were first                                                    *)

OfficeInv ==
    /\ scene \in Scenes
    /\ IF scene = "leave" THEN LeaveInv ELSE LeaveInit
    /\ IF scene = "marks" THEN MarkInv ELSE MarksInit
    /\ IF scene = "threads" THEN ThreadInv ELSE ThreadInit
    /\ IF scene = "tickets" THEN TicketInv ELSE TicketInit
    /\ IF scene = "ideas" THEN IdeaInv ELSE PipelineInit

LEMMA OfficeInit == Init => OfficeInv
  BY NothingFiled, NothingMarked, NothingSaid, NothingOpened, NothingProposed
     DEF Init, HandlersInit, OfficeInv

LEMMA LeaveStays ==
    ASSUME UNCHANGED <<handlerVars, leaveVars>>
    PROVE  (LeaveInv' <=> LeaveInv) /\ (LeaveInit' <=> LeaveInit)
  <1>1. UNCHANGED <<desk, crossed, leave, decided, emptied, stated, mixed>>
    BY DEF handlerVars, leaveVars
  <1>2. LeaveInit' <=> LeaveInit
    BY <1>1 DEF LeaveInit
  <1>3. Filed' = Filed
    BY <1>1 DEF Filed
  <1>4. LeaveRows' <=> LeaveRows
    BY <1>1, <1>3 DEF LeaveRows, GoodLeave, LeaveShape, LastsItsDays
  <1>5. ASSUME NEW h
        PROVE  GoodLeaveHandler(h)' <=> GoodLeaveHandler(h)
    BY <1>1, <1>3 DEF GoodLeaveHandler, GoodLeaveHandlerAt, Looked, Wants, Shaped, GoodLeave,
                      LeaveShape, LastsItsDays
  <1> QED BY <1>1, <1>2, <1>4, <1>5 DEF LeaveInv, DeskIs, Alone, GoodLeaveHandler

LEMMA MarksStay ==
    ASSUME UNCHANGED <<handlerVars, markVars>>
    PROVE  (MarkInv' <=> MarkInv) /\ (MarksInit' <=> MarksInit)
  BY DEF handlerVars, markVars, MarkInv, MarksInit, MarkRows, DeskIs, Alone, GoodMark

LEMMA ThreadsStay ==
    ASSUME UNCHANGED <<handlerVars, threadVars>>
    PROVE  (ThreadInv' <=> ThreadInv) /\ (ThreadInit' <=> ThreadInit)
  BY DEF handlerVars, threadVars, ThreadInv, ThreadInit, ThreadRows, UnseenOK, DeskIs, Alone,
         GoodThreadHandler, GoodReader, GoodEdit, There

LEMMA TicketsStay ==
    ASSUME UNCHANGED <<handlerVars, ticketVars>>
    PROVE  (TicketInv => TicketInv') /\ (TicketInit' <=> TicketInit)
  <1>1. UNCHANGED <<desk, crossed>> /\ UNCHANGED ticketVars
    BY DEF handlerVars
  <1>2. TicketInit' <=> TicketInit
    BY <1>1 DEF ticketVars, TicketInit
  <1>3. Opened' = Opened /\ UNCHANGED <<heads, chiefs>> /\ UNCHANGED <<ticket, log>>
    BY <1>1 DEF ticketVars, Opened
  <1>4. \A t : Told(t) <=> Told(t)'
    BY <1>3 DEF Told, Newest, Lines, Entitled
  <1>5. ASSUME TicketInv
        PROVE  TicketInv'
    <2>1. TicketRows'
      BY <1>3, <1>5 DEF TicketInv, TicketRows, GoodTicket
    <2>2. DeskIs' /\ Alone'
      BY <1>1, <1>5 DEF TicketInv, DeskIs, Alone
    <2>3. \A s \in Slots : desk'[s] = desk[s]
      BY <1>1
    <2>4. \A t : t \in Opened' /\ <<"ticket", t>> \notin crossed' /\ Unwatched(t)' => Told(t)'
      BY <1>1, <1>3, <1>4, <1>5 DEF TicketInv, Unwatched
    <2> QED BY <1>1, <1>3, <1>4, <1>5, <2>1, <2>2, <2>3, <2>4, TicketMoves
  <1> QED BY <1>2, <1>5

LEMMA IdeasStay ==
    ASSUME UNCHANGED <<handlerVars, pipelineVars>>
    PROVE  (IdeaInv => IdeaInv') /\ (PipelineInit' <=> PipelineInit)
  <1>1. UNCHANGED desk /\ UNCHANGED pipelineVars
    BY DEF handlerVars
  <1>2. PipelineInit' <=> PipelineInit
    BY <1>1 DEF pipelineVars, PipelineInit
  <1>3. ASSUME IdeaInv
        PROVE  IdeaInv'
    <2>1. IdeaRows' /\ DeskIs' /\ proposed' = proposed
      BY <1>1, <1>3, IdeasSame DEF IdeaInv, DeskIs, pipelineVars
    <2> QED BY <1>1, <1>3, <2>1, IdeaDesk
  <1> QED BY <1>2, <1>3

LEMMA OfficeStep ==
    ASSUME OfficeInv, [Next]_officeVars
    PROVE  OfficeInv'
  <1>1. CASE UNCHANGED officeVars
    <2>1. /\ UNCHANGED <<handlerVars, leaveVars, markVars, threadVars, scene>>
          /\ UNCHANGED <<ticketVars, pipelineVars>>
      BY <1>1 DEF officeVars
    <2> QED BY <2>1, LeaveStays, MarksStay, ThreadsStay, TicketsStay, IdeasStay DEF OfficeInv
  <1>2. CASE Next
    <2>1. scene' = scene /\ scene \in Scenes
      BY <1>2 DEF Next, OfficeInv
    <2>2. /\ scene = "leave" => LeaveStep
          /\ scene = "marks" => MarkStep
          /\ scene = "threads" => ThreadStep
          /\ scene = "tickets" => TicketStep
          /\ scene = "ideas" => PipelineStep
          /\ scene # "leave" => UNCHANGED leaveVars
          /\ scene # "marks" => UNCHANGED markVars
          /\ scene # "threads" => UNCHANGED threadVars
          /\ scene # "tickets" => UNCHANGED ticketVars
          /\ scene # "ideas" => UNCHANGED pipelineVars
      BY <1>2, <2>1 DEF Next, Scenes
    <2>3. /\ UNCHANGED leaveVars => (LeaveInit' <=> LeaveInit)
          /\ UNCHANGED markVars => (MarksInit' <=> MarksInit)
          /\ UNCHANGED threadVars => (ThreadInit' <=> ThreadInit)
          /\ UNCHANGED ticketVars => (TicketInit' <=> TicketInit)
          /\ UNCHANGED pipelineVars => (PipelineInit' <=> PipelineInit)
      BY DEF leaveVars, markVars, threadVars, ticketVars, pipelineVars, LeaveInit, MarksInit,
             ThreadInit, TicketInit, PipelineInit
    <2> QED BY <2>1, <2>2, <2>3, LeaveStepSound, MarkStepSound, ThreadStepSound,
               TicketStepSound, PipelineStepSound DEF OfficeInv
  <1> QED BY <1>1, <1>2

LEMMA MarkRowsInit == ASSUME MarksInit PROVE MarkRows
  BY DEF MarksInit, MarkRows, Single

\* The days of a leave are those from its first to its last, it has supervisors,
\* it is in one count of each list, and its status is the one last decided, but
\* for the exceptions LeaveHolds names (LeaveManagementService)
THEOREM LeaveIsRight == Spec => []LeaveHolds
  <1>1. Init => OfficeInv
    BY OfficeInit
  <1>2. OfficeInv /\ [Next]_officeVars => OfficeInv'
    BY OfficeStep
  <1>3. OfficeInv => LeaveHolds
    BY LeaveRowsInit, LeaveRowsSuffice DEF OfficeInv, LeaveInv
  <1> QED BY <1>1, <1>2, <1>3, PTL DEF Spec

\* A reader and a reaction have one row, unless two requests of theirs crossed,
\* and a thread is read up to the last reply its reader was given
\* (Marks!MarksAreSingle, Threads!UnseenIsUnread)
THEOREM MarksAreRight == Spec => []MarksHold
  <1>1. Init => OfficeInv
    BY OfficeInit
  <1>2. OfficeInv /\ [Next]_officeVars => OfficeInv'
    BY OfficeStep
  <1>3. OfficeInv => MarkRows
    BY MarkRowsInit DEF OfficeInv, MarkInv
  <1>4. OfficeInv => ThreadRows /\ UnseenOK
    BY ThreadRowsInit DEF OfficeInv, ThreadInv
  <1>5. OfficeInv => MarksHold
    BY <1>3, <1>4, MarkRowsSuffice, ThreadRowsSuffice DEF MarksHold
  <1> QED BY <1>1, <1>2, <1>5, PTL DEF Spec

\* The next reference of a ticket can be drawn, and that of an idea while none
\* was removed below another or came back; at a ticket that no two handlers
\* crossed the log ends with its status; and each ticket is in the lists of its
\* creator and of whichever head of its department is told of it, and in one count
\* (TicketingService, PipelineService)
THEOREM RefsAndLogsRight == Spec => []RefsAndLogsHold
  <1>1. Init => OfficeInv
    BY OfficeInit
  <1>2. OfficeInv /\ [Next]_officeVars => OfficeInv'
    BY OfficeStep
  <1>3. OfficeInv =>
          /\ TicketRows
          /\ \A t \in Opened : <<"ticket", t>> \notin crossed /\ Unwatched(t) => Told(t)
    BY TicketRowsInit DEF OfficeInv, TicketInv
  <1>4. OfficeInv => IdeaRows
    BY IdeaRowsInit DEF OfficeInv, IdeaInv
  <1>5. OfficeInv => RefsAndLogsHold
    BY <1>3, <1>4, TicketRowsSuffice, IdeaRowsSuffice DEF RefsAndLogsHold, RefsStayUsable
  <1> QED BY <1>1, <1>2, <1>5, PTL DEF Spec

-----------------------------------------------------------------------------
(* Notices.  What a handler tells it tells those whose settings it has asked; *)
(* ids are drawn, so that new notices are in nobody's hands.                 *)

NoticeRecord == [live : BOOLEAN, to : Staff \cup {None}, type : Types, isRead : BOOLEAN,
                 related : BOOLEAN]
AnnouncementRecord == [live : BOOLEAN, selected : SUBSET Staff]
MessageRecord == [live : BOOLEAN, all : BOOLEAN, sender : Staff \cup {None}, to : SUBSET Staff]
LetterRecord == [live : BOOLEAN, sender : Staff \cup {None}, replier : Staff \cup {None}]

NoticeRows ==
    /\ settings \in [Staff -> {None} \cup [Keys -> BOOLEAN]]
    /\ notices \in [NoticeIds -> NoticeRecord]
    /\ issued \in Nat
    /\ \A n \in Shown : n <= issued
    /\ announcement \in AnnouncementRecord
    /\ message \in MessageRecord /\ (message.live => message.sender \in Staff)
    /\ letter \in LetterRecord
    /\ letter.live => letter.sender \in Staff
    /\ ~letter.live => letter.replier = None
    /\ steady \in [Slots -> [Staff -> {"on", "off", "changed"}]]
    /\ \A s \in Slots, u \in Staff :
         /\ steady[s][u] = "on" => On(settings[u])
         /\ steady[s][u] = "off" => ~On(settings[u])

\* What a handler carries.  At an uncrossed notice the one it will remove is read,
\* and at an uncrossed letter the one it will save has the reply there is.
GoodTeller(h) ==
    /\ Shaped(h)
    /\ h.pc = "settings.save" => h.by \in Staff /\ h.object.row \in [Keys -> BOOLEAN]
    /\ h.pc \in {"notice.check", "notice.save"} =>
         h.todo \subseteq Staff /\ h.fit \subseteq Staff
         /\ h.object \in [type : Types, related : BOOLEAN]
    /\ h.pc \in {"notice.read", "notice.remove"} =>
         \E n \in NoticeIds : h.on = <<"notice", n>> /\ n <= issued
    /\ h.pc = "notice.read" => h.object \in NoticeRecord /\ h.object.live
    /\ h.pc = "notice.remove" /\ h.on \notin crossed /\ notices[h.on[2]].live =>
         notices[h.on[2]].isRead
    /\ h.pc \in {"announce.create", "announce.update"} => h.object \in AnnouncementRecord
    /\ h.pc = "message.save" => h.object \in MessageRecord /\ h.object.sender \in Staff
    /\ h.pc = "letter.save" =>
         /\ h.object \in LetterRecord /\ h.object.live /\ h.object.sender \in Staff
         /\ h.on = <<"letter", 1>>
         /\ h.on \notin crossed /\ letter.replier # None => h.object.replier # None

\* Whom a handler has found fit was not muted all the time
FitIsOn(s) ==
    desk[s].pc \in {"notice.check", "notice.save"} /\ desk[s].object.type # "ceo_reply" =>
        \A u \in desk[s].fit : steady[s][u] # "off"

NoticeInv ==
    /\ NoticeRows /\ DeskIs /\ Alone
    /\ \A s \in Slots : desk[s].pc # "idle" => GoodTeller(desk[s]) /\ FitIsOn(s)

LEMMA NoticeFacts ==
    /\ NoticeRow \in NoticeRecord /\ ~NoticeRow.live
    /\ NoLetter \in LetterRecord /\ ~NoLetter.live /\ NoLetter.replier = None
    /\ None \notin Staff
  BY TicketConstants DEF NoticeRow, NoticeRecord, NoLetter, LetterRecord, Types

\* The notices of u, one kind of count each
Heard(u, x) == {n \in Shown : /\ notices[n].to = u /\ notices[n].isRead = x
                              /\ notices[n].type # "ceo_reply"}
Having(u, x) == {n \in Shown : notices[n].to = u /\ (notices[n].isRead <=> x)}

LEMMA CountsAre ==
    ASSUME NoticeRows, NoticeRows', NEW u
    PROVE  /\ AnnouncementCounts(u).total = Cardinality(Heard(u, FALSE)) + Cardinality(Heard(u, TRUE))
           /\ AnnouncementCounts(u)'.total =
                Cardinality(Heard(u, FALSE)') + Cardinality(Heard(u, TRUE)')
           /\ UnreadCount(u) = Cardinality(Having(u, FALSE))
           /\ UnreadCount(u)' = Cardinality(Having(u, FALSE)')
           /\ ReadCount(u) = Cardinality(Having(u, TRUE))
           /\ ReadCount(u)' = Cardinality(Having(u, TRUE)')
  <1>1. /\ AnnouncementCounts(u).total = Cardinality(Heard(u, FALSE)) + Cardinality(Heard(u, TRUE))
        /\ AnnouncementCounts(u)'.total =
                Cardinality(Heard(u, FALSE)') + Cardinality(Heard(u, TRUE)')
    BY DEF AnnouncementCounts, Heard
  <1>2. \A n \in Shown : notices[n].isRead \in BOOLEAN
    BY DEF NoticeRows, NoticeRecord, Shown
  <1>3. \A n \in Shown' : notices'[n].isRead \in BOOLEAN
    BY DEF NoticeRows, NoticeRecord, Shown
  <1>4. /\ Having(u, FALSE) = {n \in Shown : notices[n].to = u /\ ~notices[n].isRead}
        /\ Having(u, TRUE) = {n \in Shown : notices[n].to = u /\ notices[n].isRead}
    BY <1>2 DEF Having
  <1>5. /\ Having(u, FALSE)' = {n \in Shown' : notices'[n].to = u /\ ~notices'[n].isRead}
        /\ Having(u, TRUE)' = {n \in Shown' : notices'[n].to = u /\ notices'[n].isRead}
    BY <1>3 DEF Having
  <1> QED BY <1>1, <1>4, <1>5 DEF UnreadCount, ReadCount

LEMMA SmallerSet ==
    ASSUME NEW S, NEW T, T \subseteq NoticeIds, S \subseteq T
    PROVE  Cardinality(S) \in Nat /\ Cardinality(T) \in Nat /\ Cardinality(S) <= Cardinality(T)
  <1>1. IsFiniteSet(T)
    BY NoticeConstants, FS_Subset
  <1> QED BY <1>1, FS_Subset, FS_CardinalityType

\* A count grows by new notices only, and falls by those that go
LEMMA CountsMove ==
    ASSUME NoticeRows, NoticeRows', NEW u
    PROVE  /\ Heard(u, FALSE)' \subseteq Heard(u, FALSE) /\ Heard(u, TRUE)' \subseteq Heard(u, TRUE)
                => ~(AnnouncementCounts(u)'.total > AnnouncementCounts(u).total)
           /\ Having(u, FALSE) \subseteq Having(u, FALSE)' => ~(UnreadCount(u)' < UnreadCount(u))
           /\ Having(u, TRUE)' \subseteq Having(u, TRUE) => ReadCount(u)' <= ReadCount(u)
  <1>1. /\ Heard(u, FALSE) \subseteq NoticeIds /\ Heard(u, TRUE) \subseteq NoticeIds
        /\ Having(u, FALSE)' \subseteq NoticeIds /\ Having(u, TRUE) \subseteq NoticeIds
    BY DEF Heard, Having, Shown
  <1>2. ASSUME Heard(u, FALSE)' \subseteq Heard(u, FALSE), Heard(u, TRUE)' \subseteq Heard(u, TRUE)
        PROVE  ~(AnnouncementCounts(u)'.total > AnnouncementCounts(u).total)
    <2> DEFINE f == Cardinality(Heard(u, FALSE))  g == Cardinality(Heard(u, TRUE))
               h == Cardinality(Heard(u, FALSE)')  k == Cardinality(Heard(u, TRUE)')
    <2>1. f \in Nat /\ g \in Nat /\ h \in Nat /\ k \in Nat /\ h <= f /\ k <= g
      BY <1>1, <1>2, SmallerSet
    <2>2. AnnouncementCounts(u).total = f + g /\ AnnouncementCounts(u)'.total = h + k
      BY CountsAre
    <2> HIDE DEF f, g, h, k
    <2> QED BY <2>1, <2>2
  <1>3. ASSUME Having(u, FALSE) \subseteq Having(u, FALSE)'
        PROVE  ~(UnreadCount(u)' < UnreadCount(u))
    <2> DEFINE f == Cardinality(Having(u, FALSE))  h == Cardinality(Having(u, FALSE)')
    <2>1. f \in Nat /\ h \in Nat /\ f <= h
      BY <1>1, <1>3, SmallerSet
    <2>2. UnreadCount(u) = f /\ UnreadCount(u)' = h
      BY CountsAre
    <2> HIDE DEF f, h
    <2> QED BY <2>1, <2>2
  <1>4. ASSUME Having(u, TRUE)' \subseteq Having(u, TRUE)
        PROVE  ReadCount(u)' <= ReadCount(u)
    <2> DEFINE f == Cardinality(Having(u, TRUE))  h == Cardinality(Having(u, TRUE)')
    <2>1. f \in Nat /\ h \in Nat /\ h <= f
      BY <1>1, <1>4, SmallerSet
    <2>2. ReadCount(u) = f /\ ReadCount(u)' = h
      BY CountsAre
    <2> HIDE DEF f, h
    <2> QED BY <2>1, <2>2
  <1> QED BY <1>2, <1>3, <1>4

\* What is promised of a step
QuietStep == \A u \in Staff :
    AnnouncementCounts(u)'.total > AnnouncementCounts(u).total =>
        \E s \in Slots : \/ Moves(s, "notice.read")
                         \/ Moves(s, "notice.save") /\ u \in desk[s].fit /\ steady[s][u] # "off"
ToldStep == \A u \in Staff, s \in Slots :
    Moves(s, "notice.check") /\ u \in desk[s].todo /\ steady[s][u] = "on" =>
        u \in desk'[s].todo \cup desk'[s].fit

LEMMA MutedParts == QuietStep /\ ToldStep => MutedStaysQuiet
  BY DEF QuietStep, ToldStep, MutedStaysQuiet

\* A step that leaves the notices alone
LEMMA NoticesSame ==
    ASSUME NoticeRows, NoticeRows', notices' = notices
    PROVE  QuietStep /\ OnlyReadOnesGo
  <1>1. Shown' = Shown /\ \A u, x : Heard(u, x)' = Heard(u, x) /\ Having(u, x)' = Having(u, x)
    BY DEF Shown, Heard, Having
  <1>2. QuietStep
    BY <1>1, CountsMove DEF QuietStep
  <1>3. \A u \in Staff : ReadCount(u)' <= ReadCount(u) /\ ~(UnreadCount(u)' < UnreadCount(u))
    BY <1>1, CountsMove
  <1>4. \A n \in Shown : notices'[n].live
    BY DEF Shown
  <1> QED BY <1>2, <1>3, <1>4 DEF OnlyReadOnesGo

\* A step of one slot that is not at its check of settings
LEMMA NotChecking ==
    ASSUME NEW s \in Slots, desk[s].pc # "notice.check",
           \A t \in Slots : t # s => desk'[t] = desk[t]
    PROVE  ToldStep
  BY DEF ToldStep, Moves

LEMMA TellerStays ==
    ASSUME NEW t \in Slots, desk'[t] = desk[t], GoodTeller(desk[t]),
           issued \in Nat, issued' \in Nat, issued <= issued', crossed \subseteq crossed',
           desk[t].pc = "notice.remove" /\ desk[t].on \notin crossed' /\ notices'[desk[t].on[2]].live
             => notices[desk[t].on[2]].live
                /\ (notices[desk[t].on[2]].isRead => notices'[desk[t].on[2]].isRead),
           desk[t].pc = "letter.save" /\ desk[t].on \notin crossed' /\ letter'.replier # None
             => letter.replier # None
    PROVE  GoodTeller(desk[t])'
  <1>1. \A n \in NoticeIds : n <= issued => n <= issued'
    BY NoticeConstants
  <1> QED BY <1>1 DEF GoodTeller

StepHolds == MutedStaysQuiet /\ OnlyReadOnesGo /\ RepliesStay

LEMMA LetterSame ==
    ASSUME NoticeRows, letter' = letter, settings' = settings
    PROVE  RepliesStay
  BY DEF RepliesStay

LEMMA RowsSame ==
    ASSUME NoticeRows, UNCHANGED noticeVars
    PROVE  NoticeRows'
  BY DEF NoticeRows, noticeVars, tellVars, Shown

\* A handler takes a slot, nothing else changes
LEMMA NoticeTake ==
    ASSUME NoticeInv, NEW s \in Slots, NEW h, Take(s, h), UNCHANGED noticeVars,
           GoodTeller(h), h.pc \notin {"notice.check", "notice.save"}
    PROVE  NoticeInv' /\ StepHolds
  <1>1. /\ DeskIs' /\ Alone' /\ desk'[s] = h
        /\ \A t \in Slots : t # s => desk'[t] = desk[t]
        /\ crossed \subseteq crossed'
    BY TakeAlone DEF NoticeInv
  <1>2. NoticeRows /\ NoticeRows'
    BY RowsSame DEF NoticeInv
  <1>3. UNCHANGED <<settings, notices, issued, announcement, letter, steady>>
    BY DEF noticeVars, tellVars
  <1>4. ASSUME NEW t \in Slots, desk'[t].pc # "idle"
        PROVE  GoodTeller(desk[t])' /\ FitIsOn(t)'
    <2>1. CASE t = s
      BY <1>1, <1>3, <2>1 DEF GoodTeller, FitIsOn
    <2>2. CASE t # s
      <3>1. desk'[t] = desk[t] /\ GoodTeller(desk[t]) /\ FitIsOn(t)
        BY <1>1, <1>4, <2>2 DEF NoticeInv
      <3>2. GoodTeller(desk[t])'
        BY <1>1, <1>2, <1>3, <3>1, TellerStays DEF NoticeRows
      <3> QED BY <1>3, <3>1, <3>2 DEF FitIsOn
    <2> QED BY <2>1, <2>2
  <1>5. NoticeInv'
    BY <1>1, <1>2, <1>4 DEF NoticeInv
  <1>6. desk[s].pc = "idle"
    BY DEF Take, Ready
  <1>7. QuietStep /\ OnlyReadOnesGo /\ ToldStep /\ RepliesStay
    BY <1>1, <1>2, <1>3, <1>6, NoticesSame, NotChecking, LetterSame
  <1> QED BY <1>5, <1>7, MutedParts DEF StepHolds

LEMMA TakeSettings ==
    ASSUME NoticeInv, NEW s \in Slots, NEW u \in Staff,
           NEW named \in {{}} \cup {{k} : k \in Keys}, NEW change \in [named -> BOOLEAN],
           AskSettings(s, u, change)
    PROVE  NoticeInv' /\ StepHolds
  <1> DEFINE old == IF settings[u] = None THEN Defaults ELSE settings[u]
             row == [k \in Keys |-> IF k \in DOMAIN change THEN change[k] ELSE old[k]]
             h == At("settings.save", <<"settings", u>>, u,
                     [fresh |-> settings[u] = None, row |-> row])
  <1>1. Take(s, h) /\ UNCHANGED noticeVars
    BY DEF AskSettings
  <1>2. old \in [Keys -> BOOLEAN]
    BY DEF Defaults, NoticeInv, NoticeRows
  <1> HIDE DEF old
  <1>3. row \in [Keys -> BOOLEAN]
    BY <1>2
  <1> HIDE DEF row
  <1>4. Shaped(h) /\ h.pc = "settings.save" /\ h.by = u /\ h.object.row = row
    BY AtShape, AtFields
  <1> HIDE DEF h
  <1>5. GoodTeller(h)
    BY <1>3, <1>4 DEF GoodTeller
  <1> QED BY <1>1, <1>4, <1>5, NoticeTake

LEMMA TakeNotice ==
    ASSUME NoticeInv, NEW s \in Slots, NEW n \in NoticeIds,
           (\E x \in BOOLEAN : AskMarkNotice(s, n, x)) \/ AskRemoveNotice(s, n)
    PROVE  NoticeInv' /\ StepHolds
  <1>1. ASSUME NEW x \in BOOLEAN, AskMarkNotice(s, n, x)
        PROVE  NoticeInv' /\ StepHolds
    <2> DEFINE o == [notices[n] EXCEPT !.isRead = x]
               h == At("notice.read", <<"notice", n>>, notices[n].to, o)
    <2>1. Take(s, h) /\ UNCHANGED noticeVars /\ n \in Shown
      BY <1>1 DEF AskMarkNotice
    <2>2. n <= issued /\ o \in NoticeRecord /\ o.live
      BY <2>1 DEF NoticeInv, NoticeRows, Shown, NoticeRecord
    <2> HIDE DEF o
    <2>3. Shaped(h) /\ h.pc = "notice.read" /\ h.on = <<"notice", n>> /\ h.object = o
      BY AtShape, AtFields
    <2> HIDE DEF h
    <2>4. GoodTeller(h)
      BY <2>2, <2>3 DEF GoodTeller
    <2> QED BY <2>1, <2>3, <2>4, NoticeTake
  <1>2. ASSUME AskRemoveNotice(s, n)
        PROVE  NoticeInv' /\ StepHolds
    <2> DEFINE h == At("notice.remove", <<"notice", n>>, notices[n].to, None)
    <2>1. Take(s, h) /\ UNCHANGED noticeVars /\ n \in Shown /\ notices[n].isRead
      BY <1>2 DEF AskRemoveNotice
    <2>2. n <= issued
      BY <2>1 DEF NoticeInv, NoticeRows
    <2>3. Shaped(h) /\ h.pc = "notice.remove" /\ h.on = <<"notice", n>>
      BY AtShape, AtFields
    <2> HIDE DEF h
    <2>4. GoodTeller(h)
      BY <2>1, <2>2, <2>3 DEF GoodTeller
    <2> QED BY <2>1, <2>3, <2>4, NoticeTake
  <1> QED BY <1>1, <1>2

LEMMA TakeAnnouncement ==
    ASSUME NoticeInv, NEW s \in Slots,
           NEW ids \in {{}, {Ghost}} \cup {{u} : u \in Staff},
           AskAnnounce(s, ids) \/ AskUpdateAnnouncement(s, ids)
    PROVE  NoticeInv' /\ StepHolds
  <1> DEFINE o == [live |-> TRUE, selected |-> Selected(ids)]
             p == [live |-> TRUE, selected |-> IF ids = {} THEN announcement.selected
                                               ELSE Selected(ids)]
  <1>1. Selected(ids) \subseteq Staff
    BY DEF Selected
  <1>2. o \in AnnouncementRecord /\ p \in AnnouncementRecord
    BY <1>1 DEF AnnouncementRecord, NoticeInv, NoticeRows
  <1>3. \E r \in AnnouncementRecord, pc \in {"announce.create", "announce.update"} :
          Take(s, At(pc, <<"announcement", 1>>, None, r)) /\ UNCHANGED noticeVars
    BY <1>2 DEF AskAnnounce, AskUpdateAnnouncement
  <1>4. PICK r \in AnnouncementRecord, pc \in {"announce.create", "announce.update"} :
          Take(s, At(pc, <<"announcement", 1>>, None, r)) /\ UNCHANGED noticeVars
    BY <1>3
  <1> DEFINE h == At(pc, <<"announcement", 1>>, None, r)
  <1>5. Shaped(h) /\ h.pc = pc /\ h.object = r /\ Take(s, h)
    BY <1>4, AtShape, AtFields
  <1> HIDE DEF h
  <1>6. GoodTeller(h)
    BY <1>5 DEF GoodTeller
  <1> QED BY <1>4, <1>5, <1>6, NoticeTake

LEMMA TakeMessage ==
    ASSUME NoticeInv, NEW s \in Slots, NEW all \in {None, TRUE, FALSE}, NEW ids,
           \/ \E u \in Staff : ids \in {None, Staff, {u, Ghost}} /\ AskMessage(s, u, all, ids)
           \/ /\ ids = None \/ ids \in {{}, {Ghost}} \cup {{u} : u \in Staff}
              /\ AskUpdateMessage(s, all, ids)
    PROVE  NoticeInv' /\ StepHolds
  <1>1. ids # None => ids \ {Ghost} \subseteq Staff
    OBVIOUS
  <1>2. message \in MessageRecord /\ (message.live => message.sender \in Staff)
    BY DEF NoticeInv, NoticeRows
  <1>3. ASSUME NEW u \in Staff, AskMessage(s, u, all, ids)
        PROVE  \E r \in MessageRecord : r.sender \in Staff
                 /\ Take(s, At("message.save", <<"message", 1>>, r.sender, r))
    <2> DEFINE r == [live |-> TRUE, all |-> all # FALSE, sender |-> u,
                     to |-> IF all # FALSE THEN Staff \ {u}
                            ELSE IF ids = None THEN {} ELSE ids \ {Ghost}]
    <2>1. r \in MessageRecord /\ r.sender = u
      BY <1>1 DEF MessageRecord
    <2>2. Take(s, At("message.save", <<"message", 1>>, r.sender, r))
      BY <1>3 DEF AskMessage
    <2> HIDE DEF r
    <2> QED BY <2>1, <2>2
  <1>4. ASSUME AskUpdateMessage(s, all, ids)
        PROVE  \E r \in MessageRecord : r.sender \in Staff
                 /\ Take(s, At("message.save", <<"message", 1>>, r.sender, r))
    <2> DEFINE whole == IF all = None THEN message.all ELSE all
               to == IF ids # None THEN ids \ {Ghost}
                     ELSE IF all = TRUE THEN Staff \ {message.sender} ELSE message.to
               r == [message EXCEPT !.all = whole, !.to = to]
    <2>1. message.live /\ Take(s, At("message.save", <<"message", 1>>, message.sender, r))
      BY <1>4 DEF AskUpdateMessage
    <2>2. whole \in BOOLEAN /\ to \subseteq Staff
      BY <1>1, <1>2 DEF MessageRecord
    <2> HIDE DEF whole, to
    <2>3. r \in MessageRecord /\ r.sender = message.sender
      BY <1>2, <2>2 DEF MessageRecord
    <2> HIDE DEF r
    <2> QED BY <1>2, <2>1, <2>3
  <1>5. PICK r \in MessageRecord : r.sender \in Staff
                 /\ Take(s, At("message.save", <<"message", 1>>, r.sender, r))
    BY <1>3, <1>4
  <1>6. UNCHANGED noticeVars
    BY DEF AskMessage, AskUpdateMessage
  <1> DEFINE h == At("message.save", <<"message", 1>>, r.sender, r)
  <1>7. Shaped(h) /\ h.pc = "message.save" /\ h.object = r /\ Take(s, h)
    BY <1>5, AtShape, AtFields
  <1> HIDE DEF h
  <1>8. GoodTeller(h)
    BY <1>5, <1>7 DEF GoodTeller
  <1> QED BY <1>6, <1>7, <1>8, NoticeTake

LEMMA TakeLetter ==
    ASSUME NoticeInv, NEW s \in Slots,
           AskUpdateLetter(s) \/ \E u \in Staff : AskReply(s, u)
    PROVE  NoticeInv' /\ StepHolds
  <1>1. letter \in LetterRecord /\ letter.live /\ letter.sender \in Staff /\ UNCHANGED noticeVars
    BY DEF AskUpdateLetter, AskReply, NoticeInv, NoticeRows
  <1>2. PICK u \in Staff \cup {None}, r \in LetterRecord :
          /\ Take(s, At("letter.save", <<"letter", 1>>, u, r))
          /\ r.live /\ r.sender \in Staff /\ (letter.replier # None => r.replier # None)
    <2>1. CASE AskUpdateLetter(s)
      BY <1>1, <2>1 DEF AskUpdateLetter
    <2>2. ASSUME NEW u \in Staff, AskReply(s, u)
          PROVE  \E r \in LetterRecord :
                   /\ Take(s, At("letter.save", <<"letter", 1>>, u, r))
                   /\ r.live /\ r.sender \in Staff /\ (letter.replier # None => r.replier # None)
      <3> DEFINE r == [letter EXCEPT !.replier = u]
      <3>1. Take(s, At("letter.save", <<"letter", 1>>, u, r))
        BY <2>2 DEF AskReply
      <3>2. r \in LetterRecord /\ r.live /\ r.sender \in Staff /\ r.replier # None
        BY <1>1, NoticeFacts DEF LetterRecord
      <3> HIDE DEF r
      <3> QED BY <3>1, <3>2
    <2> QED BY <2>1, <2>2
  <1> DEFINE h == At("letter.save", <<"letter", 1>>, u, r)
  <1>3. Shaped(h) /\ h.pc = "letter.save" /\ h.object = r /\ h.on = <<"letter", 1>> /\ Take(s, h)
    BY <1>2, AtShape, AtFields
  <1> HIDE DEF h
  <1>4. GoodTeller(h)
    BY <1>2, <1>3 DEF GoodTeller
  <1> QED BY <1>1, <1>3, <1>4, NoticeTake

LEMMA TakeSubscription ==
    ASSUME NoticeInv, NEW s \in Slots, NEW u \in Staff, NEW e \in Endpoints, AskSubscribe(s, u, e)
    PROVE  NoticeInv' /\ StepHolds
  <1> DEFINE h == At("subscription.save", <<"endpoint", e>>, u, [fresh |-> subscription[e] = None])
  <1>1. Take(s, h) /\ UNCHANGED noticeVars
    BY DEF AskSubscribe
  <1>2. Shaped(h) /\ h.pc = "subscription.save"
    BY AtShape, AtFields
  <1> HIDE DEF h
  <1>3. GoodTeller(h)
    BY <1>2 DEF GoodTeller
  <1> QED BY <1>1, <1>2, <1>3, NoticeTake

\* A handler goes on or ends with what it writes
LEMMA NoticeGoes ==
    ASSUME NoticeInv, NEW s \in Slots, NEW h, Goes(s, h), desk[s].pc # "idle", NoticeRows',
           h.pc = "idle" \/ (h.on = desk[s].on /\ GoodTeller(desk[s])' /\ FitIsOn(s)'),
           issued <= issued',
           \A t \in Slots, u \in Staff : t # s /\ steady'[t][u] = "off" => steady[t][u] = "off",
           \A t \in Slots :
             desk[t].pc = "notice.remove" /\ desk[t].on # desk[s].on /\ notices'[desk[t].on[2]].live
               => notices[desk[t].on[2]].live
                  /\ (notices[desk[t].on[2]].isRead => notices'[desk[t].on[2]].isRead),
           \A t \in Slots : desk[t].pc = "letter.save" /\ desk[t].on # desk[s].on
                              /\ letter'.replier # None => letter.replier # None
    PROVE  NoticeInv'
  <1>1. /\ DeskIs' /\ Alone' /\ desk'[s] = h
        /\ \A t \in Slots : t # s => desk'[t] = desk[t]
        /\ crossed' = crossed
    BY GoesAlone DEF NoticeInv
  <1>2. ASSUME NEW t \in Slots, desk'[t].pc # "idle"
        PROVE  GoodTeller(desk[t])' /\ FitIsOn(t)'
    <2>1. CASE t = s
      BY <1>1, <1>2, <2>1
    <2>2. CASE t # s
      <3>1. desk'[t] = desk[t] /\ GoodTeller(desk[t]) /\ FitIsOn(t)
        BY <1>1, <1>2, <2>2 DEF NoticeInv
      <3>2. desk[t].on \notin crossed => desk[t].on # desk[s].on
        BY <1>1, <1>2, <2>2 DEF NoticeInv, Alone
      <3>3. GoodTeller(desk[t])'
        BY <1>1, <3>1, <3>2, TellerStays DEF NoticeInv, NoticeRows
      <3>4. desk[t].pc \in {"notice.check", "notice.save"} => desk[t].fit \subseteq Staff
        BY <3>1 DEF GoodTeller
      <3>5. FitIsOn(t)'
        BY <2>2, <3>1, <3>4 DEF FitIsOn
      <3> QED BY <3>3, <3>5
    <2> QED BY <2>1, <2>2
  <1> QED BY <1>1, <1>2 DEF NoticeInv

LEMMA NoticeEnds ==
    ASSUME NEW s \in Slots, Ends(s)
    PROVE  Goes(s, Idle) /\ Idle.pc = "idle"
  BY IdleIsIdle DEF Ends

\* A handler that stays where no notice and no letter is written
LEMMA NoticeQuiet ==
    ASSUME NoticeInv, NEW s \in Slots, NEW h, Goes(s, h), desk[s].pc \notin {"idle", "notice.check"},
           NoticeRows', notices' = notices
    PROVE  QuietStep /\ ToldStep /\ OnlyReadOnesGo
  <1>1. \A t \in Slots : t # s => desk'[t] = desk[t]
    BY DEF Goes, NoticeInv, DeskIs
  <1> QED BY <1>1, NoticesSame, NotChecking DEF NoticeInv

LEMMA CheckSound ==
    ASSUME NoticeInv, NEW s \in Slots, NEW u \in Staff, CheckSettings(s, u)
    PROVE  NoticeInv' /\ StepHolds
  <1> DEFINE h == desk[s]
             g == Gate(h.object.type)
             fit == IF IsAllowed(u, g) THEN h.fit \cup {u} ELSE h.fit
             next == IF h.todo # {u} THEN [h EXCEPT !.todo = @ \ {u}, !.fit = fit]
                     ELSE IF fit = {} THEN Idle
                     ELSE [h EXCEPT !.pc = "notice.save", !.todo = {}, !.fit = fit]
  <1>1. h.pc = "notice.check" /\ u \in h.todo /\ Goes(s, next) /\ UNCHANGED noticeVars
    BY DEF CheckSettings
  <1>2. GoodTeller(h) /\ FitIsOn(s)
    BY <1>1 DEF NoticeInv
  <1>3. NoticeRows /\ NoticeRows'
    BY RowsSame, <1>1 DEF NoticeInv
  <1>4. UNCHANGED <<settings, notices, issued, announcement, letter, steady>>
    BY <1>1 DEF noticeVars, tellVars
  <1>5. h.object.type # "ceo_reply" => (IsAllowed(u, g) <=> On(settings[u]))
    <2>1. ASSUME h.object.type # "ceo_reply" PROVE g = "celebrationAlerts" /\ g # None
      BY <2>1, NoticeConstants DEF Gate, Keys
    <2> HIDE DEF g, h
    <2> QED BY <2>1 DEF IsAllowed, On
  <1>6. h.object.type = "ceo_reply" => IsAllowed(u, g)
    BY DEF IsAllowed, Gate
  <1>7. steady[s][u] = "on" => On(settings[u])
    BY <1>3 DEF NoticeRows
  <1>8. steady[s][u] = "off" => ~On(settings[u])
    BY <1>3 DEF NoticeRows
  <1>9. fit \subseteq Staff /\ h.fit \subseteq fit /\ (steady[s][u] = "on" => u \in fit)
    BY <1>1, <1>2, <1>5, <1>6, <1>7 DEF GoodTeller
  <1>10. h.object.type # "ceo_reply" => \A v \in fit : steady[s][v] # "off"
    BY <1>1, <1>2, <1>5, <1>8 DEF FitIsOn
  <1> HIDE DEF fit, g
  <1>11. /\ desk'[s] = next
         /\ \A t \in Slots : t # s => desk'[t] = desk[t]
    BY <1>1 DEF Goes, NoticeInv, DeskIs
  <1>12. \/ next = Idle /\ fit = {} /\ h.todo = {u}
         \/ /\ next.on = h.on /\ next.object = h.object /\ next.fit = fit /\ next.by = h.by
            /\ Shaped(next)
            /\ \/ next.pc = "notice.check" /\ next.todo = h.todo \ {u}
               \/ next.pc = "notice.save" /\ next.todo = {} /\ h.todo = {u}
    BY <1>1, <1>2 DEF GoodTeller, Shaped
  <1> HIDE DEF next
  <1>13. next.pc = "idle" \/ (next.on = desk[s].on /\ GoodTeller(desk[s])' /\ FitIsOn(s)')
    <2>1. CASE next = Idle
      BY <2>1, IdleIsIdle
    <2>2. CASE next # Idle
      <3>1. GoodTeller(desk[s])'
        BY <1>1, <1>2, <1>9, <1>11, <1>12, <2>2 DEF GoodTeller
      <3>2. FitIsOn(s)'
        BY <1>4, <1>10, <1>11, <1>12, <2>2 DEF FitIsOn
      <3> QED BY <1>12, <2>2, <3>1, <3>2
    <2> QED BY <2>1, <2>2
  <1>14. NoticeInv'
    BY <1>1, <1>3, <1>4, <1>13, NoticeGoes DEF NoticeRows
  <1>15. ToldStep
    <2> SUFFICES ASSUME NEW v \in Staff, NEW t \in Slots, Moves(t, "notice.check"),
                        v \in desk[t].todo, steady[t][v] = "on"
                 PROVE  v \in desk'[t].todo \cup desk'[t].fit
      BY DEF ToldStep
    <2>1. t = s
      BY <1>11 DEF Moves
    <2>2. v # u => next # Idle
      BY <1>12, <2>1, IdleIsIdle
    <2>3. next # Idle => v \in next.todo \cup next.fit
      BY <1>9, <1>12, <2>1
    <2> QED BY <1>9, <1>11, <1>12, <2>1, <2>2, <2>3
  <1>16. QuietStep /\ OnlyReadOnesGo /\ RepliesStay
    BY <1>3, <1>4, NoticesSame, LetterSame
  <1> QED BY <1>14, <1>15, <1>16, MutedParts DEF StepHolds

LEMMA SettingsSound ==
    ASSUME NoticeInv, NEW s \in Slots, SaveSettings(s)
    PROVE  NoticeInv' /\ StepHolds
  <1> DEFINE u == desk[s].by
             row == desk[s].object.row
  <1>1. /\ desk[s].pc = "settings.save" /\ Goes(s, Idle) /\ Idle.pc = "idle"
        /\ UNCHANGED <<notices, issued, announcement, message, letter>>
        /\ settings' = IF desk[s].object.fresh /\ settings[u] # None THEN settings
                       ELSE [settings EXCEPT ![u] = row]
        /\ steady' = IF On(settings'[u]) = On(settings[u]) THEN steady
                     ELSE [r \in Slots |-> [steady[r] EXCEPT ![u] = "changed"]]
    BY NoticeEnds DEF SaveSettings, tellVars
  <1>2. u \in Staff /\ row \in [Keys -> BOOLEAN] /\ row # None
    <2>1. GoodTeller(desk[s])
      BY <1>1 DEF NoticeInv
    <2> QED BY <1>1, <2>1, NoticeConstants DEF GoodTeller
  <1> HIDE DEF u, row
  <1>3. NoticeRows
    BY DEF NoticeInv
  <1>4. /\ settings' \in [Staff -> {None} \cup [Keys -> BOOLEAN]]
        /\ \A v \in Staff : v # u => settings'[v] = settings[v]
        /\ settings[u] # None => settings'[u] # None
    BY <1>1, <1>2, <1>3 DEF NoticeRows
  <1>5. /\ steady' \in [Slots -> [Staff -> {"on", "off", "changed"}]]
        /\ \A r \in Slots, v \in Staff :
             /\ v # u => steady'[r][v] = steady[r][v]
             /\ steady'[r][u] = "changed"
                \/ (On(settings'[u]) = On(settings[u]) /\ steady'[r][u] = steady[r][u])
    BY <1>1, <1>2, <1>3 DEF NoticeRows
  <1>6. \A r \in Slots, v \in Staff :
          /\ steady'[r][v] = "on" => On(settings'[v])
          /\ steady'[r][v] = "off" => ~On(settings'[v]) /\ steady[r][v] = "off"
    BY <1>2, <1>3, <1>4, <1>5 DEF NoticeRows
  <1>7. NoticeRows'
    BY <1>1, <1>3, <1>4, <1>5, <1>6 DEF NoticeRows, Shown
  <1>8. issued <= issued'
    BY <1>1, <1>3 DEF NoticeRows
  <1>9. NoticeInv'
    BY <1>1, <1>6, <1>7, <1>8, NoticeGoes
  <1>10. RepliesStay
    BY <1>1, <1>4 DEF RepliesStay
  <1> QED BY <1>1, <1>7, <1>9, <1>10, NoticeQuiet, MutedParts DEF StepHolds

LEMMA SubscriptionSound ==
    ASSUME NoticeInv, NEW s \in Slots, SaveSubscription(s)
    PROVE  NoticeInv' /\ StepHolds
  <1>1. /\ desk[s].pc = "subscription.save" /\ Goes(s, Idle) /\ Idle.pc = "idle"
        /\ UNCHANGED <<settings, notices, issued, announcement, message, letter, steady>>
    BY NoticeEnds DEF SaveSubscription, tellVars
  <1>2. NoticeRows /\ NoticeRows' /\ issued <= issued'
    BY <1>1 DEF NoticeInv, NoticeRows, Shown
  <1>3. NoticeInv'
    BY <1>1, <1>2, NoticeGoes
  <1> QED BY <1>1, <1>2, <1>3, NoticeQuiet, LetterSame, MutedParts DEF StepHolds

\* The rows of n people, at ids that are drawn
LEMMA DrawnIds ==
    ASSUME NEW S, S \subseteq Staff, NEW k \in Nat
    PROVE  LET ids == CHOOSE f \in [S -> k + 1 .. k + Cardinality(S)] : IsInjective(f) IN
           /\ Cardinality(S) \in Nat
           /\ ids \in [S -> k + 1 .. k + Cardinality(S)]
           /\ \A u, v \in S : ids[u] = ids[v] => u = v
  <1>1. IsFiniteSet(S)
    BY StaffIsFinite, FS_Subset
  <1> DEFINE c == Cardinality(S)
  <1>2. c \in Nat
    BY <1>1, FS_CardinalityType
  <1>3. PICK g \in Bijection(1..c, S) : TRUE
    BY <1>1, FS_CardinalityType DEF ExistsBijection
  <1> HIDE DEF c
  <1> DEFINE f == [u \in S |-> k + (CHOOSE i \in 1..c : g[i] = u)]
  <1>4. \A u \in S : \E i \in 1..c : g[i] = u
    BY <1>3 DEF Bijection, Surjection
  <1>5. f \in [S -> k + 1 .. k + c]
    BY <1>2, <1>4
  <1>6. IsInjective(f)
    <2> SUFFICES ASSUME NEW u \in S, NEW v \in S, f[u] = f[v] PROVE u = v
      BY DEF IsInjective
    <2> DEFINE i == CHOOSE x \in 1..c : g[x] = u
               j == CHOOSE x \in 1..c : g[x] = v
    <2>1. i \in 1..c /\ j \in 1..c /\ g[i] = u /\ g[j] = v
      BY <1>4
    <2>2. k + i = k + j
      OBVIOUS
    <2> HIDE DEF i, j
    <2> QED BY <1>2, <2>1, <2>2
  <1> HIDE DEF f
  <1>7. \E h \in [S -> k + 1 .. k + c] : IsInjective(h)
    BY <1>5, <1>6
  <1> QED BY <1>2, <1>7 DEF IsInjective, c

LEMMA NoticesSound ==
    ASSUME NoticeInv, NEW s \in Slots, SaveNotices(s)
    PROVE  NoticeInv' /\ StepHolds
  <1> DEFINE h == desk[s]
             ids == CHOOSE f \in [h.fit -> issued + 1 .. issued + Cardinality(h.fit)] : IsInjective(f)
  <1>1. /\ h.pc = "notice.save" /\ Goes(s, Idle) /\ Idle.pc = "idle"
        /\ UNCHANGED <<settings, announcement, message, letter, steady>>
    BY NoticeEnds DEF SaveNotices, tellVars
  <1>2. /\ h.fit \subseteq Staff /\ h.object.type \in Types /\ h.object.related \in BOOLEAN
        /\ FitIsOn(s)
    BY <1>1 DEF NoticeInv, GoodTeller
  <1>3. NoticeRows
    BY DEF NoticeInv
  <1>4. CASE UNCHANGED <<notices, issued>>
    <2>1. NoticeRows' /\ issued <= issued'
      BY <1>1, <1>3, <1>4 DEF NoticeRows, Shown
    <2>2. NoticeInv'
      BY <1>1, <1>4, <2>1, NoticeGoes
    <2> QED BY <1>1, <1>3, <1>4, <2>1, <2>2, NoticeQuiet, LetterSame, MutedParts DEF StepHolds
  <1>5. CASE ~UNCHANGED <<notices, issued>>
    <2>1. /\ issued' = issued + Cardinality(h.fit)
          /\ notices' = [n \in NoticeIds |->
                 IF \E u \in h.fit : ids[u] = n
                 THEN [live |-> TRUE, to |-> CHOOSE u \in h.fit : ids[u] = n,
                       type |-> h.object.type, isRead |-> FALSE, related |-> h.object.related]
                 ELSE notices[n]]
      BY <1>5 DEF SaveNotices
    <2>2. /\ Cardinality(h.fit) \in Nat
          /\ ids \in [h.fit -> issued + 1 .. issued + Cardinality(h.fit)]
      BY <1>2, <1>3, DrawnIds DEF NoticeRows
    <2> HIDE DEF ids, h
    <2> DEFINE new(n) == \E u \in h.fit : ids[u] = n
    <2>3. issued' \in Nat /\ issued <= issued'
      BY <1>3, <2>1, <2>2 DEF NoticeRows
    <2>4. \A n \in NoticeIds : new(n) => n > issued /\ n <= issued'
      BY <1>3, <2>1, <2>2 DEF NoticeRows
    <2>5. \A n \in NoticeIds : n <= issued => ~new(n)
      BY <1>3, <2>4, NoticeConstants DEF NoticeRows
    <2>6. \A n \in NoticeIds : new(n) =>
            /\ notices'[n] \in NoticeRecord /\ notices'[n].live /\ ~notices'[n].isRead
            /\ notices'[n].isRead = FALSE
            /\ notices'[n].to \in h.fit /\ notices'[n].type = h.object.type
      <3>1. \A n : new(n) => (CHOOSE u \in h.fit : ids[u] = n) \in h.fit
        OBVIOUS
      <3> QED BY <1>2, <2>1, <3>1 DEF NoticeRecord
    <2>7. \A n \in NoticeIds : ~new(n) => notices'[n] = notices[n]
      BY <2>1
    <2>8. notices' \in [NoticeIds -> NoticeRecord]
      <3>1. \A n \in NoticeIds : notices'[n] \in NoticeRecord
        BY <1>3, <2>6, <2>7 DEF NoticeRows
      <3>2. notices' = [n \in NoticeIds |-> notices'[n]]
        BY <2>1
      <3> QED BY <3>1, <3>2
    <2> HIDE DEF new
    <2>9. \A n \in Shown : ~new(n) /\ n \in Shown' /\ notices'[n] = notices[n]
      BY <1>3, <2>5, <2>7 DEF NoticeRows, Shown
    <2>10. \A n \in Shown' : n \in Shown \/ new(n)
      BY <2>7 DEF Shown
    <2>11. \A n \in Shown' : n <= issued'
      <3> SUFFICES ASSUME NEW n \in Shown' PROVE n <= issued'
        OBVIOUS
      <3>1. n \in NoticeIds
        BY DEF Shown
      <3>2. n \in Shown => n <= issued
        BY <1>3 DEF NoticeRows
      <3>3. new(n) => n <= issued'
        BY <2>4, <3>1
      <3>4. n \in Nat /\ issued \in Nat
        BY <1>3, <3>1, NoticeConstants DEF NoticeRows
      <3> QED BY <2>3, <2>10, <3>2, <3>3, <3>4
    <2>12. NoticeRows'
      BY <1>1, <1>3, <2>3, <2>8, <2>11 DEF NoticeRows
    <2>13. ASSUME NEW t \in Slots, desk[t].pc = "notice.remove"
           PROVE  notices'[desk[t].on[2]] = notices[desk[t].on[2]]
      <3>1. PICK n \in NoticeIds : desk[t].on = <<"notice", n>> /\ n <= issued
        BY <2>13 DEF NoticeInv, GoodTeller
      <3> QED BY <2>5, <2>7, <3>1
    <2>14. NoticeInv'
      BY <1>1, <2>3, <2>12, <2>13, NoticeGoes DEF h
    <2>15. QuietStep
      <3> SUFFICES ASSUME NEW u \in Staff,
                          AnnouncementCounts(u)'.total > AnnouncementCounts(u).total
                   PROVE  Moves(s, "notice.save") /\ u \in desk[s].fit /\ steady[s][u] # "off"
        BY DEF QuietStep
      <3>1. Moves(s, "notice.save")
        BY <1>1 DEF Moves, h, Goes, NoticeInv, DeskIs
      <3>2. PICK n \in NoticeIds : new(n) /\ notices'[n].to = u /\ notices'[n].type # "ceo_reply"
        <4>1. ASSUME \A n \in NoticeIds :
                       new(n) => ~(notices'[n].to = u /\ notices'[n].type # "ceo_reply")
              PROVE  Heard(u, FALSE)' \subseteq Heard(u, FALSE)
                     /\ Heard(u, TRUE)' \subseteq Heard(u, TRUE)
          BY <2>9, <2>10, <4>1 DEF Heard, Shown
        <4> QED BY <1>3, <2>12, <4>1, CountsMove
      <3>3. u \in h.fit /\ h.object.type # "ceo_reply"
        BY <2>6, <3>2
      <3> QED BY <1>1, <1>2, <3>1, <3>3 DEF FitIsOn, h
    <2>16. OnlyReadOnesGo
      <3>1. \A n \in Shown : notices'[n].live
        BY <2>9 DEF Shown
      <3>2. ASSUME NEW u \in Staff
            PROVE  ReadCount(u)' <= ReadCount(u) /\ ~(UnreadCount(u)' < UnreadCount(u))
        <4>1. Having(u, FALSE) \subseteq Having(u, FALSE)'
          BY <2>9 DEF Having
        <4>2. Having(u, TRUE)' \subseteq Having(u, TRUE)
          BY <2>6, <2>9, <2>10 DEF Having, Shown
        <4> QED BY <1>3, <2>12, <4>1, <4>2, CountsMove
      <3> QED BY <3>1, <3>2 DEF OnlyReadOnesGo
    <2>17. ToldStep
      <3>1. \A t \in Slots : t # s => desk'[t] = desk[t]
        BY <1>1 DEF Goes, NoticeInv, DeskIs
      <3> QED BY <1>1, <3>1, NotChecking DEF h
    <2>18. RepliesStay
      BY <1>1, <1>3, LetterSame
    <2> QED BY <2>14, <2>15, <2>16, <2>17, <2>18, MutedParts DEF StepHolds
  <1> QED BY <1>4, <1>5

LEMMA MarkSound ==
    ASSUME NoticeInv, NEW s \in Slots, SaveMark(s)
    PROVE  NoticeInv' /\ StepHolds
  <1>1. PICK n \in NoticeIds : desk[s].on = <<"notice", n>> /\ n <= issued
    BY DEF SaveMark, NoticeInv, GoodTeller
  <1> DEFINE row == [desk[s].object EXCEPT !.related = @ /\ notices[n].live]
  <1>2. /\ desk[s].pc = "notice.read" /\ Goes(s, Idle) /\ Idle.pc = "idle"
        /\ notices' = [notices EXCEPT ![n] = row]
        /\ UNCHANGED <<settings, issued, announcement, message, letter, steady>>
    BY <1>1, NoticeEnds DEF SaveMark, tellVars
  <1>3. desk[s].object \in NoticeRecord /\ desk[s].object.live
    BY <1>2 DEF NoticeInv, GoodTeller
  <1>4. row \in NoticeRecord /\ row.live
    BY <1>3 DEF NoticeRecord
  <1> HIDE DEF row
  <1>5. NoticeRows
    BY DEF NoticeInv
  <1>6. /\ notices' \in [NoticeIds -> NoticeRecord]
        /\ notices'[n] = row /\ \A m \in NoticeIds : m # n => notices'[m] = notices[m]
    BY <1>2, <1>4, <1>5 DEF NoticeRows
  <1>7. \A m \in Shown : m \in Shown'
    BY <1>4, <1>6 DEF Shown
  <1>8. \A m \in Shown' : m <= issued
    BY <1>1, <1>5, <1>6 DEF Shown, NoticeRows
  <1>9. NoticeRows' /\ issued <= issued'
    BY <1>2, <1>5, <1>6, <1>8 DEF NoticeRows
  <1>10. ASSUME NEW t \in Slots, desk[t].pc = "notice.remove", desk[t].on # desk[s].on
         PROVE  notices'[desk[t].on[2]] = notices[desk[t].on[2]]
    <2>1. PICK m \in NoticeIds : desk[t].on = <<"notice", m>>
      BY <1>10 DEF NoticeInv, GoodTeller
    <2> QED BY <1>1, <1>6, <1>10, <2>1
  <1>11. NoticeInv'
    BY <1>2, <1>9, <1>10, NoticeGoes
  <1>12. /\ \A t \in Slots : t # s => desk'[t] = desk[t]
         /\ Moves(s, "notice.read")
    BY <1>2 DEF Goes, NoticeInv, DeskIs, Moves
  <1>13. ToldStep
    BY <1>2, <1>12, NotChecking
  <1>14. QuietStep /\ OnlyReadOnesGo
    BY <1>7, <1>12 DEF QuietStep, OnlyReadOnesGo, Shown
  <1> QED BY <1>2, <1>5, <1>11, <1>13, <1>14, LetterSame, MutedParts DEF StepHolds

\* Notices that go
LEMMA NoticesGo ==
    ASSUME NoticeRows, NoticeRows',
           \A n \in NoticeIds : notices'[n] = notices[n] \/ notices'[n] = NoticeRow
    PROVE  QuietStep /\ \A u \in Staff : ReadCount(u)' <= ReadCount(u)
  <1>1. \A u, x : Heard(u, x)' \subseteq Heard(u, x) /\ Having(u, x)' \subseteq Having(u, x)
    BY NoticeFacts DEF Heard, Having, Shown
  <1> QED BY <1>1, CountsMove DEF QuietStep

LEMMA RemoveNoticeSound ==
    ASSUME NoticeInv, NEW s \in Slots, RemoveNotice(s)
    PROVE  NoticeInv' /\ StepHolds
  <1>1. PICK n \in NoticeIds : desk[s].on = <<"notice", n>> /\ n <= issued
    BY DEF RemoveNotice, NoticeInv, GoodTeller
  <1>2. /\ desk[s].pc = "notice.remove" /\ Goes(s, Idle) /\ Idle.pc = "idle"
        /\ notices' = [notices EXCEPT ![n] = NoticeRow]
        /\ UNCHANGED <<settings, issued, announcement, message, letter, steady>>
    BY <1>1, NoticeEnds DEF RemoveNotice, tellVars
  <1>3. NoticeRows
    BY DEF NoticeInv
  <1>4. /\ notices' \in [NoticeIds -> NoticeRecord]
        /\ notices'[n] = NoticeRow /\ \A m \in NoticeIds : m # n => notices'[m] = notices[m]
    BY <1>2, <1>3, NoticeFacts DEF NoticeRows
  <1>5. \A m \in Shown' : m \in Shown
    BY <1>4, NoticeFacts DEF Shown
  <1>6. NoticeRows' /\ issued <= issued'
    BY <1>2, <1>3, <1>4, <1>5 DEF NoticeRows
  <1>7. ASSUME NEW t \in Slots, desk[t].pc = "notice.remove", desk[t].on # desk[s].on
        PROVE  notices'[desk[t].on[2]] = notices[desk[t].on[2]]
    <2>1. PICK m \in NoticeIds : desk[t].on = <<"notice", m>>
      BY <1>7 DEF NoticeInv, GoodTeller
    <2> QED BY <1>1, <1>4, <1>7, <2>1
  <1>8. NoticeInv'
    BY <1>2, <1>6, <1>7, NoticeGoes
  <1>9. \A t \in Slots : t # s => desk'[t] = desk[t]
    BY <1>2 DEF Goes, NoticeInv, DeskIs
  <1>10. ToldStep
    BY <1>2, <1>9, NotChecking
  <1>11. QuietStep /\ \A u \in Staff : ReadCount(u)' <= ReadCount(u)
    BY <1>3, <1>4, <1>6, NoticesGo
  <1>12. <<"notice", n>> \notin crossed /\ notices[n].live => notices[n].isRead
    BY <1>1, <1>2 DEF NoticeInv, GoodTeller
  <1>13. \A m \in Shown : ~notices'[m].live => m = n /\ (<<"notice", n>> \in crossed \/ notices[n].isRead)
    BY <1>4, <1>12 DEF Shown
  <1>14. ASSUME NEW u \in Staff, UnreadCount(u)' < UnreadCount(u)
         PROVE  \E m \in Shown : <<"notice", m>> \in crossed
    <2>1. PICK m \in Having(u, FALSE) : m \notin Having(u, FALSE)'
      BY <1>3, <1>6, <1>14, CountsMove
    <2>2. m \in Shown /\ ~notices[m].isRead
      BY <2>1 DEF Having
    <2>3. m = n
      BY <1>4, <2>1, <2>2 DEF Having, Shown
    <2> QED BY <1>12, <2>2, <2>3 DEF Shown
  <1>15. OnlyReadOnesGo
    BY <1>11, <1>13, <1>14 DEF OnlyReadOnesGo
  <1> QED BY <1>2, <1>3, <1>8, <1>10, <1>11, <1>15, LetterSame, MutedParts DEF StepHolds

\* A handler that has saved goes on to tell its recipients
LEMMA TellsSound ==
    ASSUME NoticeInv, NEW s \in Slots, NEW type \in Types, NEW to, to \subseteq Staff,
           NEW related \in BOOLEAN, Tells(s, type, to, related),
           desk[s].pc \notin {"idle", "notice.check", "notice.save"},
           UNCHANGED <<settings, notices, issued>>,
           announcement' \in AnnouncementRecord,
           message' \in MessageRecord, message'.live => message'.sender \in Staff,
           letter' \in LetterRecord, letter'.live => letter'.sender \in Staff,
           ~letter'.live => letter'.replier = None,
           letter' = letter \/ desk[s].on = <<"letter", 1>>
    PROVE  NoticeInv' /\ QuietStep /\ ToldStep /\ OnlyReadOnesGo
  <1> DEFINE h == Telling(desk[s], type, to, related)
  <1>1. Goes(s, h) /\ GoodTeller(desk[s]) /\ NoticeRows
    BY DEF Tells, NoticeInv
  <1>2. steady' = [steady EXCEPT ![s] = [u \in Staff |-> IF On(settings[u]) THEN "on" ELSE "off"]]
    BY DEF Tells
  <1>3. /\ steady' \in [Slots -> [Staff -> {"on", "off", "changed"}]]
        /\ \A t \in Slots, u \in Staff :
             /\ t # s => steady'[t][u] = steady[t][u]
             /\ steady'[t][u] = "on" => On(settings[u])
             /\ steady'[t][u] = "off" => ~On(settings[u])
    BY <1>1, <1>2 DEF NoticeRows
  <1>4. NoticeRows' /\ issued <= issued'
    BY <1>1, <1>3 DEF NoticeRows, Shown
  <1>5. h.pc = "idle" \/ /\ h.pc = "notice.check" /\ h.todo = to /\ h.fit = {} /\ h.on = desk[s].on
                         /\ h.object = [type |-> type, related |-> related] /\ Shaped(h)
    BY <1>1, IdleIsIdle DEF Telling, GoodTeller, Shaped
  <1> HIDE DEF h
  <1>6. desk'[s] = h
    BY <1>1 DEF Goes, NoticeInv, DeskIs
  <1>7. h.pc = "idle" \/ (h.on = desk[s].on /\ GoodTeller(desk[s])' /\ FitIsOn(s)')
    BY <1>5, <1>6 DEF GoodTeller, FitIsOn
  <1>8. ASSUME NEW t \in Slots, desk[t].pc = "letter.save", desk[t].on # desk[s].on
        PROVE  letter' = letter
    BY <1>8 DEF NoticeInv, GoodTeller
  <1>9. NoticeInv'
    BY <1>1, <1>3, <1>4, <1>7, <1>8, NoticeGoes
  <1> QED BY <1>1, <1>4, <1>9, NoticeQuiet

LEMMA AnnouncementSound ==
    ASSUME NoticeInv, NEW s \in Slots, SaveAnnouncement(s)
    PROVE  NoticeInv' /\ StepHolds
  <1> DEFINE to == desk[s].object.selected
             related == desk[s].pc = "announce.create"
  <1>1. /\ desk[s].pc \in {"announce.create", "announce.update"}
        /\ announcement' = desk[s].object
        /\ Tells(s, "announcement", to, related)
        /\ UNCHANGED <<settings, notices, issued, message, letter>>
    BY DEF SaveAnnouncement
  <1>2. desk[s].object \in AnnouncementRecord /\ NoticeRows
    BY <1>1 DEF NoticeInv, GoodTeller
  <1>3. to \subseteq Staff /\ related \in BOOLEAN /\ "announcement" \in Types
    BY <1>2 DEF AnnouncementRecord, Types
  <1> HIDE DEF to, related
  <1>4. NoticeInv' /\ QuietStep /\ ToldStep /\ OnlyReadOnesGo
    BY <1>1, <1>2, <1>3, TellsSound DEF NoticeRows
  <1> QED BY <1>1, <1>2, <1>4, LetterSame, MutedParts DEF StepHolds

LEMMA MessageSound ==
    ASSUME NoticeInv, NEW s \in Slots, SaveMessage(s)
    PROVE  NoticeInv' /\ StepHolds
  <1> DEFINE to == desk[s].object.to \cup {desk[s].object.sender}
  <1>1. /\ desk[s].pc = "message.save"
        /\ message' = desk[s].object
        /\ Tells(s, "ceo_message", to, FALSE)
        /\ UNCHANGED <<settings, notices, issued, announcement, letter>>
    BY DEF SaveMessage
  <1>2. desk[s].object \in MessageRecord /\ desk[s].object.sender \in Staff /\ NoticeRows
    BY <1>1 DEF NoticeInv, GoodTeller
  <1>3. to \subseteq Staff /\ "ceo_message" \in Types
    BY <1>2 DEF MessageRecord, Types
  <1> HIDE DEF to
  <1>4. NoticeInv' /\ QuietStep /\ ToldStep /\ OnlyReadOnesGo
    BY <1>1, <1>2, <1>3, TellsSound DEF NoticeRows
  <1> QED BY <1>1, <1>2, <1>4, LetterSame, MutedParts DEF StepHolds

LEMMA LetterSound ==
    ASSUME NoticeInv, NEW s \in Slots, SaveLetter(s)
    PROVE  NoticeInv' /\ StepHolds
  <1>1. /\ desk[s].pc = "letter.save" /\ letter' = desk[s].object
        /\ UNCHANGED <<settings, notices, issued, announcement, message>>
    BY DEF SaveLetter
  <1>2. /\ letter' \in LetterRecord /\ letter'.live /\ letter'.sender \in Staff
        /\ desk[s].on = <<"letter", 1>>
        /\ <<"letter", 1>> \notin crossed /\ letter.replier # None => letter'.replier # None
        /\ NoticeRows
    BY <1>1 DEF NoticeInv, GoodTeller
  <1>3. RepliesStay
    BY <1>1, <1>2 DEF RepliesStay
  <1>4. CASE desk[s].by = None
    <2>1. Goes(s, Idle) /\ Idle.pc = "idle" /\ steady' = steady
      BY <1>4, NoticeEnds DEF SaveLetter
    <2>2. NoticeRows' /\ issued <= issued'
      BY <1>1, <1>2, <2>1 DEF NoticeRows, Shown
    <2>3. ASSUME NEW t \in Slots, desk[t].pc = "letter.save"
          PROVE  desk[t].on = desk[s].on
      BY <1>2, <2>3 DEF NoticeInv, GoodTeller
    <2>4. NoticeInv'
      BY <1>1, <2>1, <2>2, <2>3, NoticeGoes
    <2> QED BY <1>1, <1>3, <2>1, <2>2, <2>4, NoticeQuiet, MutedParts DEF StepHolds
  <1>5. CASE desk[s].by # None
    <2> DEFINE to == {desk[s].object.sender}
    <2>1. Tells(s, "ceo_reply", to, FALSE)
      BY <1>5 DEF SaveLetter
    <2>2. to \subseteq Staff /\ "ceo_reply" \in Types
      BY <1>1, <1>2 DEF Types
    <2> HIDE DEF to
    <2>3. NoticeInv' /\ QuietStep /\ ToldStep /\ OnlyReadOnesGo
      BY <1>1, <1>2, <2>1, <2>2, TellsSound DEF NoticeRows
    <2> QED BY <1>3, <2>3, MutedParts DEF StepHolds
  <1> QED BY <1>4, <1>5

\* A request that is done in one step
LEMMA NoticeOnce ==
    ASSUME NoticeInv, NEW on, Quick(on), NoticeRows', UNCHANGED <<settings, issued, steady>>,
           \A n \in NoticeIds : notices'[n] = notices[n] \/ ~notices'[n].live,
           letter'.replier # None => letter.replier # None
    PROVE  NoticeInv' /\ ToldStep
  <1>1. DeskIs' /\ Alone' /\ desk' = desk /\ crossed \subseteq crossed'
    BY QuickAlone DEF NoticeInv
  <1>2. ASSUME NEW t \in Slots, desk[t].pc # "idle"
        PROVE  GoodTeller(desk[t])' /\ FitIsOn(t)'
    <2>1. GoodTeller(desk[t]) /\ FitIsOn(t) /\ issued \in Nat
      BY <1>2 DEF NoticeInv, NoticeRows
    <2>2. desk[t].pc = "notice.remove" /\ notices'[desk[t].on[2]].live =>
            notices'[desk[t].on[2]] = notices[desk[t].on[2]]
      BY <2>1 DEF GoodTeller
    <2>3. GoodTeller(desk[t])'
      BY <1>1, <2>1, <2>2, TellerStays
    <2>4. FitIsOn(t)'
      BY <1>1, <2>1 DEF FitIsOn
    <2> QED BY <2>3, <2>4
  <1>3. NoticeInv'
    BY <1>1, <1>2 DEF NoticeInv
  <1>4. ToldStep
    BY <1>1 DEF ToldStep, Moves
  <1> QED BY <1>3, <1>4

LEMMA OnceSound ==
    ASSUME NoticeInv,
           \/ RemoveAnnouncement \/ RemoveMessage \/ RemoveLetter \/ DeleteAll
           \/ \E u \in Staff : WriteLetter(u) \/ UnsubscribeUser(u)
           \/ \E e \in Endpoints : Unsubscribe(e)
    PROVE  NoticeInv' /\ StepHolds
  <1>1. NoticeRows
    BY DEF NoticeInv
  <1>2. CASE RemoveAnnouncement
    <2>1. /\ Quick(<<"announcement", 1>>) /\ announcement.live
          /\ announcement' = [live |-> FALSE, selected |-> {}]
          /\ notices' = [n \in NoticeIds |-> IF notices[n].related THEN NoticeRow ELSE notices[n]]
          /\ UNCHANGED <<settings, issued, message, letter, steady>>
      BY <1>2 DEF RemoveAnnouncement
    <2>2. \A n \in NoticeIds : \/ notices'[n] = notices[n]
                               \/ notices[n].related /\ notices'[n] = NoticeRow
      BY <2>1
    <2>3. \A n \in Shown' : n \in Shown
      BY <2>2, NoticeFacts DEF Shown
    <2>4. notices' \in [NoticeIds -> NoticeRecord] /\ announcement' \in AnnouncementRecord
      BY <1>1, <2>1, NoticeFacts DEF NoticeRows, AnnouncementRecord
    <2>5. NoticeRows'
      BY <1>1, <2>1, <2>3, <2>4 DEF NoticeRows
    <2>6. NoticeInv' /\ ToldStep
      BY <2>1, <2>2, <2>5, NoticeFacts, NoticeOnce
    <2>7. QuietStep /\ \A u \in Staff : ReadCount(u)' <= ReadCount(u)
      BY <1>1, <2>2, <2>5, NoticesGo
    <2>8. OnlyReadOnesGo
      BY <2>1, <2>2, <2>7 DEF OnlyReadOnesGo, Shown
    <2> QED BY <1>1, <2>1, <2>6, <2>7, <2>8, LetterSame, MutedParts DEF StepHolds
  <1>3. ASSUME UNCHANGED <<settings, notices, issued, announcement, steady>>, NEW on, Quick(on),
               message' \in MessageRecord, message'.live => message'.sender \in Staff,
               letter' = letter \/ letter' = NoLetter
                 \/ \E u \in Staff : ~letter.live /\ letter' = [live |-> TRUE, sender |-> u, replier |-> None]
        PROVE  NoticeInv' /\ StepHolds
    <2>1. /\ letter' \in LetterRecord /\ (letter'.live => letter'.sender \in Staff)
          /\ ~letter'.live => letter'.replier = None
          /\ letter'.replier # None => letter' = letter
          /\ letter.replier # None /\ letter'.live => letter' = letter
      <3>1. CASE letter' = letter
        BY <1>1, <3>1 DEF NoticeRows
      <3>2. CASE letter' = NoLetter
        BY <3>2, NoticeFacts
      <3>3. ASSUME NEW u \in Staff, ~letter.live,
                   letter' = [live |-> TRUE, sender |-> u, replier |-> None]
            PROVE  /\ letter' \in LetterRecord /\ letter'.sender \in Staff /\ letter'.live
                   /\ letter'.replier = None /\ letter.replier = None
        BY <1>1, <3>3 DEF NoticeRows, LetterRecord
      <3> QED BY <1>3, <3>1, <3>2, <3>3
    <2>2. NoticeRows'
      BY <1>1, <1>3, <2>1 DEF NoticeRows, Shown
    <2>3. NoticeInv' /\ ToldStep
      BY <1>3, <2>1, <2>2, NoticeOnce
    <2>4. RepliesStay
      BY <1>3, <2>1 DEF RepliesStay
    <2> QED BY <1>1, <1>3, <2>2, <2>3, <2>4, NoticesSame, MutedParts DEF StepHolds
  <1>4. message \in MessageRecord /\ (message.live => message.sender \in Staff)
    BY <1>1 DEF NoticeRows
  <1>5. CASE RemoveMessage
    <2>1. message' \in MessageRecord /\ ~message'.live
      BY <1>4, <1>5 DEF RemoveMessage, MessageRecord
    <2> QED BY <1>3, <1>5, <2>1 DEF RemoveMessage
  <1>6. CASE RemoveLetter
    BY <1>3, <1>4, <1>6 DEF RemoveLetter
  <1>7. CASE \E u \in Staff : WriteLetter(u)
    BY <1>3, <1>4, <1>7 DEF WriteLetter
  <1>8. CASE DeleteAll \/ (\E u \in Staff : UnsubscribeUser(u)) \/ \E e \in Endpoints : Unsubscribe(e)
    BY <1>3, <1>4, <1>8 DEF DeleteAll, UnsubscribeUser, Unsubscribe, tellVars
  <1> QED BY <1>2, <1>5, <1>6, <1>7, <1>8

LEMMA NoticeStepSound ==
    ASSUME NoticeInv, NoticeStep
    PROVE  NoticeInv' /\ StepHolds
  <1>1. CASE calls > 0 /\ (\/ RemoveAnnouncement \/ RemoveMessage \/ RemoveLetter \/ DeleteAll
                           \/ \E u \in Staff : WriteLetter(u) \/ UnsubscribeUser(u)
                           \/ \E e \in Endpoints : Unsubscribe(e))
    BY <1>1, OnceSound
  <1>2. ASSUME NEW s \in Slots, \E u \in Staff : CheckSettings(s, u)
        PROVE  NoticeInv' /\ StepHolds
    BY <1>2, CheckSound
  <1>3. ASSUME NEW s \in Slots,
               \/ SaveSettings(s) \/ SaveNotices(s) \/ SaveMark(s) \/ RemoveNotice(s)
               \/ SaveAnnouncement(s) \/ SaveMessage(s) \/ SaveLetter(s) \/ SaveSubscription(s)
        PROVE  NoticeInv' /\ StepHolds
    BY <1>3, SettingsSound, NoticesSound, MarkSound, RemoveNoticeSound, AnnouncementSound,
       MessageSound, LetterSound, SubscriptionSound
  <1>4. ASSUME NEW s \in Slots, NEW u \in Staff,
               \/ \E named \in {{}} \cup {{k} : k \in Keys} :
                    \E change \in [named -> BOOLEAN] : AskSettings(s, u, change)
               \/ AskReply(s, u)
               \/ \E e \in Endpoints : AskSubscribe(s, u, e)
               \/ \E all \in {None, TRUE, FALSE}, ids \in {None, Staff, {u, Ghost}} :
                    AskMessage(s, u, all, ids)
        PROVE  NoticeInv' /\ StepHolds
    <2>1. CASE \E all \in {None, TRUE, FALSE}, ids \in {None, Staff, {u, Ghost}} :
                 AskMessage(s, u, all, ids)
      BY <2>1, TakeMessage
    <2>2. CASE AskReply(s, u) \/ \E e \in Endpoints : AskSubscribe(s, u, e)
      BY <2>2, TakeLetter, TakeSubscription
    <2>3. CASE \E named \in {{}} \cup {{k} : k \in Keys} :
                 \E change \in [named -> BOOLEAN] : AskSettings(s, u, change)
      <3>1. PICK named \in {{}} \cup {{k} : k \in Keys} :
                 \E change \in [named -> BOOLEAN] : AskSettings(s, u, change)
        BY <2>3
      <3> QED BY <3>1, TakeSettings
    <2> QED BY <1>4, <2>1, <2>2, <2>3
  <1>5. ASSUME NEW s \in Slots, NEW n \in NoticeIds,
               (\E x \in BOOLEAN : AskMarkNotice(s, n, x)) \/ AskRemoveNotice(s, n)
        PROVE  NoticeInv' /\ StepHolds
    BY <1>5, TakeNotice
  <1>6. ASSUME NEW s \in Slots, NEW ids \in {{}, {Ghost}} \cup {{u} : u \in Staff},
               \/ AskAnnounce(s, ids) \/ AskUpdateAnnouncement(s, ids)
               \/ \E all \in {None, TRUE, FALSE} : AskUpdateMessage(s, all, ids)
        PROVE  NoticeInv' /\ StepHolds
    BY <1>6, TakeAnnouncement, TakeMessage
  <1>7. ASSUME NEW s \in Slots,
               \/ \E all \in {None, TRUE, FALSE} : AskUpdateMessage(s, all, None)
               \/ AskUpdateLetter(s)
        PROVE  NoticeInv' /\ StepHolds
    BY <1>7, TakeMessage, TakeLetter
  <1>8. ASSUME NEW s \in Slots,
               \/ \E u \in Staff :
                    \/ \E named \in {{}} \cup {{k} : k \in Keys} :
                         \E change \in [named -> BOOLEAN] : AskSettings(s, u, change)
                    \/ AskReply(s, u)
                    \/ \E e \in Endpoints : AskSubscribe(s, u, e)
                    \/ \E all \in {None, TRUE, FALSE}, ids \in {None, Staff, {u, Ghost}} :
                         AskMessage(s, u, all, ids)
               \/ \E n \in NoticeIds :
                    (\E x \in BOOLEAN : AskMarkNotice(s, n, x)) \/ AskRemoveNotice(s, n)
               \/ \E ids \in {{}, {Ghost}} \cup {{u} : u \in Staff} :
                    \/ AskAnnounce(s, ids) \/ AskUpdateAnnouncement(s, ids)
                    \/ \E all \in {None, TRUE, FALSE} : AskUpdateMessage(s, all, ids)
               \/ \E all \in {None, TRUE, FALSE} : AskUpdateMessage(s, all, None)
               \/ AskUpdateLetter(s)
        PROVE  NoticeInv' /\ StepHolds
    BY <1>4, <1>5, <1>6, <1>7, <1>8
  <1> QED BY <1>1, <1>2, <1>3, <1>8 DEF NoticeStep

\* A step of another service
LEMMA NoNotices ==
    ASSUME NoticesInit, UNCHANGED noticeVars
    PROVE  NoticesInit' /\ StepHolds
  <1>1. UNCHANGED <<settings, notices, issued, announcement, message, letter, subscription, steady>>
    BY DEF noticeVars, tellVars
  <1>2. NoticesInit'
    BY <1>1 DEF NoticesInit
  <1>3. NoticeRows
    BY NoticeFacts DEF NoticesInit, NoticeRows, Shown, AnnouncementRecord, MessageRecord
  <1>4. NoticeRows'
    BY <1>3, RowsSame
  <1>5. ToldStep
    BY DEF NoticesInit, ToldStep
  <1>6. RepliesStay
    BY <1>1 DEF RepliesStay
  <1> QED BY <1>1, <1>2, <1>3, <1>4, <1>5, <1>6, NoticesSame, MutedParts DEF StepHolds

NoticeOffice == scene \in Scenes /\ IF scene = "notices" THEN NoticeInv ELSE NoticesInit

LEMMA NothingTold == ASSUME NoticesInit, desk = [s \in Slots |-> Idle] PROVE NoticeInv
  <1>1. DeskIs /\ Alone /\ \A s \in Slots : desk[s].pc = "idle"
    BY DeskInit, IdleIsIdle
  <1>2. NoticeRows
    BY NoticeFacts DEF NoticesInit, NoticeRows, Shown, AnnouncementRecord, MessageRecord
  <1> QED BY <1>1, <1>2 DEF NoticeInv

LEMMA NoticesStay ==
    ASSUME NoticeInv, UNCHANGED <<handlerVars, noticeVars>>
    PROVE  NoticeInv' /\ StepHolds
  <1>1. UNCHANGED <<desk, crossed>> /\ NoticeRows /\ NoticeRows'
    BY RowsSame DEF handlerVars, NoticeInv
  <1>2. UNCHANGED <<settings, notices, issued, announcement, letter, steady>>
    BY DEF noticeVars, tellVars
  <1>3. NoticeInv'
    BY <1>1, <1>2 DEF NoticeInv, DeskIs, Alone, GoodTeller, FitIsOn, Shaped
  <1>4. ToldStep
    BY <1>1 DEF ToldStep, Moves
  <1> QED BY <1>1, <1>2, <1>3, <1>4, NoticesSame, LetterSame, MutedParts DEF StepHolds

LEMMA NoticeOfficeStep ==
    ASSUME NoticeOffice, [Next]_officeVars
    PROVE  NoticeOffice' /\ StepHolds
  <1>1. CASE UNCHANGED officeVars
    <2>1. UNCHANGED <<handlerVars, noticeVars, scene>>
      BY <1>1 DEF officeVars
    <2> QED BY <2>1, NoticesStay, NoNotices DEF NoticeOffice
  <1>2. CASE Next
    <2>1. scene' = scene /\ scene \in Scenes
      BY <1>2 DEF Next, NoticeOffice
    <2>2. /\ scene = "notices" => NoticeStep
          /\ scene # "notices" => UNCHANGED noticeVars
      BY <1>2, <2>1 DEF Next, Scenes
    <2> QED BY <2>1, <2>2, NoticeStepSound, NoNotices DEF NoticeOffice
  <1> QED BY <1>1, <1>2

\* Who is muted is not told and who is not is, a notice that goes was read, and a
\* reply of the CEO and the settings stay, but for the exceptions the properties
\* name (NotificationService, AnnouncementService, MessageCeoService)
THEOREM NoticesAreRight == Spec => NoticesHold
  <1>1. Init => NoticeOffice
    BY NothingTold DEF Init, HandlersInit, NoticeOffice
  <1>2. NoticeOffice /\ [Next]_officeVars =>
          [MutedStaysQuiet /\ OnlyReadOnesGo /\ RepliesStay]_officeVars
    BY NoticeOfficeStep DEF StepHolds
  <1>3. NoticeOffice /\ [Next]_officeVars => NoticeOffice'
    BY NoticeOfficeStep
  <1> QED BY <1>1, <1>2, <1>3, PTL DEF Spec, NoticesHold

-----------------------------------------------------------------------------
(* Types.  The rows a handler saves are those of its table, and who it acts  *)
(* for is staff, nobody or the missing id.                                   *)

Persons == Staff \cup {None}

\* What every handler is, of whatever service
Common(h) ==
    /\ Shaped(h) /\ h.by \in Staff \cup {None, Ghost} /\ h.todo \subseteq Staff
    /\ h.pc = "idle" <=> h = Idle

DeskOK == DeskIs /\ calls \in Nat /\ \A s \in Slots : Common(desk[s])

LEMMA IdleCommon == Common(Idle)
  BY DEF Common, Shaped, Idle

LEMMA AtCommon ==
    ASSUME NEW pc, pc # "idle", NEW on, NEW by \in Staff \cup {None, Ghost}, NEW object
    PROVE  Common(At(pc, on, by, object))
  BY DEF Common, Shaped, At, Idle

LEMMA PlacedDesk ==
    ASSUME DeskOK, NEW s \in Slots, NEW h, Common(h), desk' = [desk EXCEPT ![s] = h],
           calls' \in Nat
    PROVE  DeskOK' /\ desk'[s] = h /\ \A t \in Slots : t # s => desk'[t] = desk[t]
  <1>1. DeskIs' /\ desk'[s] = h /\ \A t \in Slots : t # s => desk'[t] = desk[t]
    BY DeskMoves DEF DeskOK
  <1>2. \A t \in Slots : Common(desk'[t])
    BY <1>1 DEF DeskOK
  <1>3. \A t \in Slots : Common(desk[t])'
    BY <1>2 DEF Common, Shaped
  <1> QED BY <1>1, <1>3 DEF DeskOK

LEMMA TakeDesk ==
    ASSUME DeskOK, NEW s \in Slots, NEW h, Take(s, h), Common(h)
    PROVE  /\ DeskOK' /\ calls' = calls - 1 /\ calls' \in Nat /\ calls' <= calls
           /\ desk'[s] = h /\ \A t \in Slots : t # s => desk'[t] = desk[t]
  <1>1. desk' = [desk EXCEPT ![s] = h] /\ calls' = calls - 1 /\ calls > 0
    BY DEF Take, Ready
  <1>2. calls \in Nat /\ calls' \in Nat /\ calls' <= calls
    BY <1>1 DEF DeskOK
  <1> QED BY <1>1, <1>2, PlacedDesk

LEMMA GoesDesk ==
    ASSUME DeskOK, NEW s \in Slots, NEW h, Goes(s, h), Common(h)
    PROVE  /\ DeskOK' /\ calls' = calls
           /\ desk'[s] = h /\ \A t \in Slots : t # s => desk'[t] = desk[t]
  <1>1. desk' = [desk EXCEPT ![s] = h] /\ calls' = calls /\ calls' \in Nat
    BY DEF Goes, DeskOK
  <1> QED BY <1>1, PlacedDesk

LEMMA EndsDesk ==
    ASSUME DeskOK, NEW s \in Slots, Ends(s)
    PROVE  /\ DeskOK' /\ calls' = calls
           /\ desk'[s] = Idle /\ \A t \in Slots : t # s => desk'[t] = desk[t]
  BY GoesDesk, IdleCommon DEF Ends

LEMMA QuickDesk ==
    ASSUME DeskOK, NEW on, Quick(on)
    PROVE  /\ DeskOK' /\ calls' = calls - 1 /\ calls' \in Nat /\ calls' <= calls
           /\ desk' = desk
  <1>1. desk' = desk /\ calls' = calls - 1 /\ calls > 0
    BY DEF Quick
  <1>2. calls \in Nat /\ calls' \in Nat /\ calls' <= calls
    BY <1>1 DEF DeskOK
  <1> QED BY <1>1, <1>2 DEF DeskOK, DeskIs, Common, Shaped

\* Leave
ReviewedRecord ==
    [live : BOOLEAN, staffId : Staff \cup {None}, start : Days \cup {0}, end : Days \cup {0},
     days : Int, handover : Staff \cup {None}, supervisors : SUBSET Staff,
     status : LeaveStatuses, reviewer : Staff \cup {None, Ghost}]
LeaveRecord == {row \in ReviewedRecord : row.reviewer \in Staff \cup {None}}

LEMMA LeaveTypes ==
    LeaveTypeOK <=> /\ leave \in [Requests -> LeaveRecord]
                    /\ decided \in [Requests -> LeaveStatuses \X (Staff \cup {None})]
                    /\ emptied \subseteq Requests /\ stated \subseteq Requests
                    /\ mixed \subseteq Requests
  <1>1. LeaveRecord =
          [live : BOOLEAN, staffId : Staff \cup {None}, start : Days \cup {0},
           end : Days \cup {0}, days : Int, handover : Staff \cup {None},
           supervisors : SUBSET Staff, status : LeaveStatuses, reviewer : Staff \cup {None}]
    BY DEF LeaveRecord, ReviewedRecord
  <1> QED BY <1>1 DEF LeaveTypeOK

CarriesLeave(h) ==
    /\ h.pc \in {"leave.update", "leave.decide"} =>
        /\ h.object \in ReviewedRecord /\ h.on[2] \in Requests
        /\ h.pc = "leave.decide" => h.object.reviewer = h.by
    /\ h.pc = "leave.write" =>
        /\ h.object.want \in ReviewedRecord /\ h.on[2] \in Requests
        /\ h.object.decides => h.object.want.reviewer = h.by

LeaveTyped == LeaveTypeOK /\ \A s \in Slots : CarriesLeave(desk[s])

LEMMA EditedTyped ==
    ASSUME NEW row \in LeaveRecord, NEW dto \in Edits \cup Statements
    PROVE  Edited(row, dto) \in LeaveRecord
  <1> DEFINE from == Or(dto.start, row.start)
             to == Or(dto.end, row.end)
             length == IF Dated(dto) THEN Duration(from, to) ELSE row.days
             days == Or(dto.days, length)
             who == IF dto.list = None THEN row.supervisors ELSE dto.list \ {Ghost}
             status == Or(dto.status, row.status)
             reviewer == Or(dto.reviewer, row.reviewer)
  <1>0. /\ dto.start \in Days \cup {None} /\ dto.end \in Days \cup {None}
        /\ dto.days \in {None, 0} /\ dto.status \in {None, "Approved"}
        /\ dto.reviewer \in {None} \cup Staff
        /\ dto.list # None => dto.list \ {Ghost} \subseteq Staff
    BY DEF Edits, Statements
  <1>1. from \in Days \cup {0} /\ to \in Days \cup {0}
    BY <1>0 DEF Or, LeaveRecord, ReviewedRecord
  <1>2. days \in Int
    <2>1. row.days \in Int
      BY DEF LeaveRecord, ReviewedRecord
    <2> HIDE DEF from, to
    <2>2. from \in Int /\ to \in Int
      BY <1>1, LeaveConstants
    <2>3. length \in Int
      BY <2>1, <2>2 DEF Duration
    <2> HIDE DEF length
    <2> QED BY <1>0, <2>3 DEF Or
  <1>3. who \in SUBSET Staff
    BY <1>0 DEF LeaveRecord, ReviewedRecord
  <1>4. status \in LeaveStatuses /\ reviewer \in Staff \cup {None}
    BY <1>0 DEF Or, LeaveRecord, ReviewedRecord, LeaveStatuses
  <1>5. Edited(row, dto) =
          [row EXCEPT !.start = from, !.end = to, !.days = days, !.supervisors = who,
                      !.status = status, !.reviewer = reviewer]
    BY DEF Edited, LeaveRecord, ReviewedRecord
  <1> HIDE DEF from, to, length, days, who, status, reviewer
  <1> QED BY <1>1, <1>2, <1>3, <1>4, <1>5 DEF LeaveRecord, ReviewedRecord

LEMMA WrittenTyped ==
    ASSUME NEW row \in LeaveRecord, NEW want \in ReviewedRecord, NEW was,
           want.reviewer \in Staff \cup {None}
    PROVE  Written(row, was, want) \in LeaveRecord
  <1> DEFINE merged == Merge(row, was, want)
             sup == (row.supervisors \ (was.supervisors \ want.supervisors))
                      \cup (want.supervisors \ was.supervisors)
  <1>1. merged = [k \in DOMAIN row |-> IF want[k] # was[k] THEN want[k] ELSE row[k]]
    BY DEF Merge
  <1>2. row \in LeaveRecord /\ want \in LeaveRecord
    BY DEF LeaveRecord
  <1>3. /\ DOMAIN row = {"live", "staffId", "start", "end", "days", "handover", "supervisors",
                         "status", "reviewer"}
        /\ \A k \in DOMAIN row : merged[k] \in {row[k], want[k]}
        /\ merged = [k \in DOMAIN row |-> merged[k]]
    BY <1>1 DEF LeaveRecord, ReviewedRecord
  <1> HIDE DEF merged
  <1>4. sup \in SUBSET Staff
    BY <1>2 DEF LeaveRecord, ReviewedRecord
  <1>5. merged \in LeaveRecord
    <2>1. /\ merged.live \in BOOLEAN /\ merged.staffId \in Staff \cup {None}
          /\ merged.start \in Days \cup {0} /\ merged.end \in Days \cup {0}
          /\ merged.days \in Int /\ merged.handover \in Staff \cup {None}
          /\ merged.supervisors \in SUBSET Staff /\ merged.status \in LeaveStatuses
          /\ merged.reviewer \in Staff \cup {None}
      BY <1>2, <1>3 DEF LeaveRecord, ReviewedRecord
    <2> QED BY <1>3, <2>1 DEF LeaveRecord, ReviewedRecord
  <1>6. Written(row, was, want) = [merged EXCEPT !.supervisors = sup]
    BY DEF Written, merged
  <1> HIDE DEF sup
  <1> QED BY <1>4, <1>5, <1>6 DEF LeaveRecord, ReviewedRecord

LEMMA LeaveStepTyped ==
    ASSUME DeskOK, LeaveTyped, LeaveStep
    PROVE  DeskOK' /\ calls' <= calls /\ LeaveTyped'
  <1> USE DEF LeaveTyped
  <1>1. /\ leave \in [Requests -> LeaveRecord]
        /\ decided \in [Requests -> LeaveStatuses \X (Staff \cup {None})]
        /\ emptied \subseteq Requests /\ stated \subseteq Requests /\ mixed \subseteq Requests
        /\ calls <= calls
    BY LeaveTypes DEF DeskOK
  <1>2. ASSUME NEW u \in Staff, NEW v \in Staff \cup {Ghost}, NEW dto \in Filings,
               NEW found \in {{}, Staff}, CreateLeave(u, v, dto, found)
        PROVE  DeskOK' /\ calls' <= calls /\ LeaveTyped'
    <2> DEFINE r == Cardinality(Filed) + 1
               row == [live |-> TRUE, staffId |-> u, start |-> dto.start, end |-> dto.end,
                       days |-> Duration(dto.start, dto.end), handover |-> v,
                       supervisors |-> Supervisors(dto.list, found),
                       status |-> Or(dto.status, "Pending"), reviewer |-> dto.reviewer]
    <2>1. /\ Quick(<<"leave", r>>) /\ leave' = [leave EXCEPT ![r] = row]
          /\ UNCHANGED <<decided, emptied, mixed>> /\ v # Ghost
          /\ r \in Requests /\ stated' = IF States(dto) THEN stated \cup {r} ELSE stated
      BY <1>2 DEF CreateLeave, Stating
    <2>2. DeskOK' /\ calls' <= calls /\ desk' = desk
      BY <2>1, QuickDesk
    <2>3. row \in LeaveRecord
      <3>1. Supervisors(dto.list, found) \in SUBSET Staff
        BY DEF Supervisors, Filings
      <3>2. Duration(dto.start, dto.end) \in Int /\ dto.start \in Days /\ dto.end \in Days
        BY LeaveConstants DEF Duration, Filings
      <3>3. Or(dto.status, "Pending") \in LeaveStatuses /\ dto.reviewer = None
        BY DEF Or, Filings, LeaveStatuses
      <3> QED BY <2>1, <3>1, <3>2, <3>3 DEF LeaveRecord, ReviewedRecord
    <2> HIDE DEF r, row
    <2>4. leave' \in [Requests -> LeaveRecord] /\ stated' \subseteq Requests
      BY <1>1, <2>1, <2>3
    <2> QED BY <1>1, <2>1, <2>2, <2>4, LeaveTypes DEF LeaveTypeOK, LeaveRecord, ReviewedRecord, CarriesLeave
  <1>3. ASSUME NEW s \in Slots, NEW r \in Requests, NEW dto \in Edits \cup Statements,
               AskUpdateLeave(s, r, dto)
        PROVE  DeskOK' /\ calls' <= calls /\ LeaveTyped'
    <2> DEFINE row == Edited(leave[r], dto)
               h == At("leave.update", <<"leave", r>>, row.staffId, row)
    <2>1. row \in LeaveRecord
      BY <1>1, EditedTyped
    <2>2. Take(s, h) /\ UNCHANGED <<leave, decided, mixed>>
          /\ emptied' \subseteq Requests /\ stated' \subseteq Requests
      BY <1>1, <1>3 DEF AskUpdateLeave, Stating
    <2>3. h.pc = "leave.update" /\ h.on = <<"leave", r>> /\ h.object = row
      BY AtFields
    <2>4. Common(h)
      BY <2>1, AtCommon DEF LeaveRecord, ReviewedRecord
    <2> HIDE DEF h, row
    <2>5. DeskOK' /\ calls' <= calls /\ desk'[s] = h /\ \A t \in Slots : t # s => desk'[t] = desk[t]
      BY <2>2, <2>4, TakeDesk
    <2>6. CarriesLeave(h)
      BY <2>1, <2>3 DEF CarriesLeave, LeaveRecord
    <2>7. \A t \in Slots : CarriesLeave(desk'[t])
      BY <2>5, <2>6
    <2>8. LeaveTypeOK'
      BY <1>1, <2>2 DEF LeaveTypeOK, LeaveRecord, ReviewedRecord
    <2> QED BY <2>5, <2>7, <2>8 DEF CarriesLeave
  <1>4. ASSUME NEW s \in Slots, NEW r \in Requests, NEW u \in Staff \cup {Ghost},
               NEW status \in LeaveStatuses, AskUpdateStatus(s, r, u, status)
        PROVE  DeskOK' /\ calls' <= calls /\ LeaveTyped'
    <2> DEFINE row == [leave[r] EXCEPT !.status = status, !.reviewer = u]
               h == At("leave.decide", <<"leave", r>>, u, row)
    <2>1. row \in ReviewedRecord /\ row.reviewer = u
      <3>1. leave[r] \in ReviewedRecord
        BY <1>1 DEF LeaveRecord
      <3> QED BY <3>1 DEF ReviewedRecord
    <2>2. Take(s, h) /\ UNCHANGED leaveVars
      BY <1>4 DEF AskUpdateStatus
    <2>3. h.pc = "leave.decide" /\ h.on = <<"leave", r>> /\ h.object = row /\ h.by = u
      BY AtFields
    <2>4. Common(h)
      BY AtCommon
    <2> HIDE DEF h, row
    <2>5. DeskOK' /\ calls' <= calls /\ desk'[s] = h /\ \A t \in Slots : t # s => desk'[t] = desk[t]
      BY <2>2, <2>4, TakeDesk
    <2>6. CarriesLeave(h)
      BY <2>1, <2>3 DEF CarriesLeave
    <2>7. \A t \in Slots : CarriesLeave(desk'[t])
      BY <2>5, <2>6
    <2>8. LeaveTypeOK'
      BY <2>2 DEF LeaveTypeOK, leaveVars
    <2> QED BY <2>5, <2>7, <2>8 DEF CarriesLeave
  <1>5. ASSUME NEW s \in Slots, LookAtLeave(s)
        PROVE  DeskOK' /\ calls' <= calls /\ LeaveTyped'
    <2> DEFINE h == desk[s]
               row == leave[h.on[2]]
               want == IF h.pc = "leave.update" THEN h.object
                       ELSE [h.object EXCEPT !.supervisors = row.supervisors]
               k == [h EXCEPT !.pc = "leave.write",
                       !.object = [decides |-> h.pc = "leave.decide", was |-> row, want |-> want]]
    <2>1. h.pc \in {"leave.update", "leave.decide"} /\ Goes(s, k) /\ UNCHANGED leaveVars
      BY <1>5 DEF LookAtLeave
    <2>2. /\ h.object \in ReviewedRecord /\ h.on[2] \in Requests
          /\ h.pc = "leave.decide" => h.object.reviewer = h.by
      BY <2>1 DEF CarriesLeave
    <2>3. want \in ReviewedRecord /\ want.reviewer = h.object.reviewer
      BY <1>1, <2>2 DEF LeaveRecord, ReviewedRecord
    <2>4. Common(h) /\ Shaped(h)
      BY DEF DeskOK, Common
    <2> HIDE DEF want, row
    <2>5. /\ k.pc = "leave.write" /\ k.on = h.on /\ k.by = h.by
          /\ k.object.want = want /\ k.object.decides = (h.pc = "leave.decide")
          /\ Shaped(k) /\ k.todo = h.todo
      BY <2>4 DEF Shaped
    <2> HIDE DEF k
    <2>6. /\ Common(k) /\ DeskOK' /\ calls' = calls
          /\ desk'[s] = k /\ \A t \in Slots : t # s => desk'[t] = desk[t]
      <3>1. Common(k)
        BY <2>4, <2>5, IdleIsIdle DEF Common
      <3> QED BY <2>1, <3>1, GoesDesk
    <2>7. CarriesLeave(k)
      BY <2>2, <2>3, <2>5 DEF CarriesLeave
    <2>8. \A t \in Slots : CarriesLeave(desk'[t])
      BY <2>6, <2>7
    <2>9. LeaveTypeOK'
      BY <2>1 DEF LeaveTypeOK, leaveVars
    <2> QED BY <1>1, <2>6, <2>8, <2>9 DEF CarriesLeave
  <1>6. ASSUME NEW s \in Slots, SaveLeave(s)
        PROVE  DeskOK' /\ calls' <= calls /\ LeaveTyped'
    <2> DEFINE r == desk[s].on[2]
               was == desk[s].object.was
               want == desk[s].object.want
    <2>1. Ends(s) /\ desk[s].pc = "leave.write"
      BY <1>6 DEF SaveLeave
    <2>2. DeskOK' /\ calls' <= calls /\ \A t \in Slots : desk'[t] = Idle \/ desk'[t] = desk[t]
      BY <1>1, <2>1, EndsDesk
    <2>3. \A t \in Slots : CarriesLeave(desk'[t])
      BY <2>2, IdleIsIdle DEF CarriesLeave, Idle
    <2>4. want \in ReviewedRecord /\ r \in Requests /\ (desk[s].object.decides => want.reviewer = desk[s].by)
      BY <2>1 DEF CarriesLeave
    <2>5. CASE LeaveRefused(leave[r], was, want)
      <3>1. UNCHANGED leaveVars
        BY <1>6, <2>5 DEF SaveLeave
      <3>2. LeaveTypeOK'
        BY <3>1 DEF LeaveTypeOK, leaveVars
      <3> QED BY <2>2, <2>3, <3>2 DEF CarriesLeave
    <2>6. CASE ~LeaveRefused(leave[r], was, want)
      <3>1. /\ leave' = [leave EXCEPT ![r] = Written(leave[r], was, want)]
            /\ decided' = IF desk[s].object.decides
                          THEN [decided EXCEPT ![r] = <<want.status, desk[s].by>>] ELSE decided
            /\ mixed' \in {mixed, mixed \cup {r}} /\ UNCHANGED <<emptied, stated>>
        BY <1>6, <2>6 DEF SaveLeave
      <3>2. want.reviewer \in Staff \cup {None}
        BY <2>6 DEF LeaveRefused
      <3> HIDE DEF want, was, r
      <3>3. leave' \in [Requests -> LeaveRecord]
        <4>1. Written(leave[r], was, want) \in LeaveRecord
          BY <1>1, <2>4, <3>2, WrittenTyped
        <4> QED BY <1>1, <3>1, <4>1
      <3>4. decided' \in [Requests -> LeaveStatuses \X (Staff \cup {None})]
        <4>1. want.status \in LeaveStatuses
          BY <2>4 DEF ReviewedRecord
        <4> QED BY <1>1, <2>4, <3>1, <3>2, <4>1
      <3>5. mixed' \subseteq Requests /\ emptied' \subseteq Requests /\ stated' \subseteq Requests
        BY <1>1, <2>4, <3>1
      <3>6. LeaveTypeOK'
        BY <3>3, <3>4, <3>5 DEF LeaveTypeOK, LeaveRecord, ReviewedRecord
      <3> QED BY <2>2, <2>3, <3>6 DEF CarriesLeave
    <2> QED BY <2>5, <2>6
  <1> QED BY <1>2, <1>3, <1>4, <1>5, <1>6 DEF LeaveStep

\* Tickets and ideas
TicketRecord == [ref : Nat, dept : Depts \cup {None}, creator : Staff \cup {None},
                 status : TicketStatuses]

CarriesTicket(h) ==
    h.pc \in {"ticket.create", "ticket.update", "ticket.status"} => h.object \in TicketRecord

TicketTyped == ticket \in [TicketIds -> TicketRecord] /\ \A s \in Slots : CarriesTicket(desk[s])

LEMMA TicketStepTyped ==
    ASSUME DeskOK, TicketTyped, TicketStep
    PROVE  DeskOK' /\ calls' <= calls /\ TicketTyped'
  <1> USE DEF TicketTyped
  <1>1. calls <= calls /\ ticket \in [TicketIds -> TicketRecord]
    BY DEF DeskOK
  <1>2. ASSUME NEW s \in Slots, NEW h, Take(s, h), Common(h), CarriesTicket(h), UNCHANGED ticketVars
        PROVE  DeskOK' /\ calls' <= calls /\ TicketTyped'
    <2>1. /\ DeskOK' /\ calls' <= calls /\ desk'[s] = h
          /\ \A t \in Slots : t # s => desk'[t] = desk[t]
      BY <1>2, TakeDesk
    <2>2. \A t \in Slots : CarriesTicket(desk'[t])
      BY <1>2, <2>1
    <2> QED BY <1>2, <2>1, <2>2 DEF CarriesTicket, ticketVars
  <1>3. ASSUME NEW s \in Slots, NEW h, Goes(s, h), Common(h), CarriesTicket(h),
               ticket' \in [TicketIds -> TicketRecord]
        PROVE  DeskOK' /\ calls' <= calls /\ TicketTyped'
    <2>1. /\ DeskOK' /\ calls' <= calls /\ desk'[s] = h
          /\ \A t \in Slots : t # s => desk'[t] = desk[t]
      BY <1>1, <1>3, GoesDesk
    <2>2. \A t \in Slots : CarriesTicket(desk'[t])
      BY <1>3, <2>1
    <2> QED BY <1>3, <2>1, <2>2 DEF CarriesTicket
  <1>4. ASSUME NEW s \in Slots, NEW u \in Staff, NEW d \in Depts, AskCreateTicket(s, u, d)
        PROVE  DeskOK' /\ calls' <= calls /\ TicketTyped'
    <2> DEFINE row == [ref |-> NextRef(Cardinality(Opened)), dept |-> d, creator |-> u,
                       status |-> "Open"]
               h == At("ticket.create", <<"ticket", 0>>, u, row)
    <2>1. row \in TicketRecord
      <3>1. IsFiniteSet(Opened)
        BY TicketConstants, FS_Subset DEF Opened
      <3>2. Cardinality(Opened) \in Nat
        BY <3>1, FS_CardinalityType
      <3> QED BY <3>2 DEF TicketRecord, NextRef, TicketStatuses
    <2>2. h.pc = "ticket.create" /\ h.object = row /\ Common(h)
      BY AtFields, AtCommon
    <2>3. Take(s, h) /\ UNCHANGED ticketVars
      BY <1>4 DEF AskCreateTicket
    <2> HIDE DEF h, row
    <2> QED BY <1>2, <2>1, <2>2, <2>3 DEF CarriesTicket
  <1>5. ASSUME NEW s \in Slots, NEW u \in Staff, NEW t \in TicketIds, NEW d \in Depts,
               AskUpdateTicket(s, u, t, d)
        PROVE  DeskOK' /\ calls' <= calls /\ TicketTyped'
    <2> DEFINE row == [ticket[t] EXCEPT !.dept = d]
               h == At("ticket.update", <<"ticket", t>>, u, row)
    <2>1. row \in TicketRecord
      BY <1>1 DEF TicketRecord
    <2>2. h.pc = "ticket.update" /\ h.object = row /\ Common(h)
      BY AtFields, AtCommon
    <2>3. Take(s, h) /\ UNCHANGED ticketVars
      BY <1>5 DEF AskUpdateTicket
    <2> HIDE DEF h, row
    <2> QED BY <1>2, <2>1, <2>2, <2>3 DEF CarriesTicket
  <1>6. ASSUME NEW s \in Slots, NEW u \in Staff, NEW t \in TicketIds, NEW x \in TicketStatuses,
               AskTicketStatus(s, u, t, x)
        PROVE  DeskOK' /\ calls' <= calls /\ TicketTyped'
    <2> DEFINE row == [ticket[t] EXCEPT !.status = x]
               h == At("ticket.status", <<"ticket", t>>, u, row)
    <2>1. row \in TicketRecord
      BY <1>1 DEF TicketRecord
    <2>2. h.pc = "ticket.status" /\ h.object = row /\ Common(h)
      BY AtFields, AtCommon
    <2>3. Take(s, h) /\ UNCHANGED ticketVars
      BY <1>6 DEF AskTicketStatus
    <2> HIDE DEF h, row
    <2> QED BY <1>2, <2>1, <2>2, <2>3 DEF CarriesTicket
  <1>7. ASSUME NEW s \in Slots, InsertTicket(s)
        PROVE  DeskOK' /\ calls' <= calls /\ TicketTyped'
    <2>1. CASE Ends(s) /\ UNCHANGED ticket
      BY <1>1, <1>3, <2>1, IdleCommon, IdleIsIdle DEF Ends, CarriesTicket
    <2>2. CASE ~(Ends(s) /\ UNCHANGED ticket)
      <3> DEFINE t == Cardinality(Opened) + 1
                 h == At("ticket.log", <<"ticket", t>>, desk[s].by, [line |-> "created"])
      <3>1. Goes(s, h) /\ ticket' = [ticket EXCEPT ![t] = desk[s].object]
        BY <1>7, <2>2 DEF InsertTicket
      <3>2. desk[s].object \in TicketRecord
        BY <1>7 DEF InsertTicket, CarriesTicket
      <3>3. Common(h) /\ h.pc = "ticket.log"
        BY AtFields, AtCommon DEF DeskOK, Common
      <3> HIDE DEF h, t
      <3>4. ticket' \in [TicketIds -> TicketRecord]
        BY <1>1, <3>1, <3>2
      <3> QED BY <1>3, <3>1, <3>3, <3>4 DEF CarriesTicket
    <2> QED BY <2>1, <2>2
  <1>8. ASSUME NEW s \in Slots, SaveTicket(s)
        PROVE  DeskOK' /\ calls' <= calls /\ TicketTyped'
    <2> DEFINE line == [line |-> IF desk[s].pc = "ticket.update" THEN "updated"
                                 ELSE desk[s].object.status]
               h == [desk[s] EXCEPT !.pc = "ticket.log", !.object = line]
    <2>1. Goes(s, h) /\ ticket' = [ticket EXCEPT ![desk[s].on[2]] = desk[s].object]
      BY <1>8 DEF SaveTicket
    <2>2. desk[s].object \in TicketRecord
      BY <1>8 DEF SaveTicket, CarriesTicket
    <2>3. Common(h) /\ h.pc = "ticket.log"
      <3>1. Common(desk[s])
        BY DEF DeskOK
      <3> HIDE DEF line
      <3> QED BY <3>1 DEF Common, Shaped, Idle
    <2> HIDE DEF h
    <2>4. ticket' \in [TicketIds -> TicketRecord]
      BY <1>1, <2>1, <2>2
    <2> QED BY <1>3, <2>1, <2>3, <2>4 DEF CarriesTicket
  <1>9. ASSUME NEW s \in Slots, LogTicket(s)
        PROVE  DeskOK' /\ calls' <= calls /\ TicketTyped'
    BY <1>1, <1>3, <1>9, IdleCommon, IdleIsIdle DEF LogTicket, Ends, CarriesTicket
  <1>10. ASSUME NEW u \in Staff, NEW t \in TicketIds, AddTicketComment(u, t)
         PROVE  DeskOK' /\ calls' <= calls /\ TicketTyped'
    BY <1>1, <1>10, QuickDesk DEF AddTicketComment, CarriesTicket
  <1> QED BY <1>4, <1>5, <1>6, <1>7, <1>8, <1>9, <1>10 DEF TicketStep

IdeaRecord == [ref : Nat, author : Staff \cup {None}, comments : Nat]

\* The comments that are about to be inserted.  Each took a request
Commenting == {s \in Slots : desk[s].pc = "idea.comment"}
CommentBudget ==
    /\ IsFiniteSet(Commenting)
    /\ \A i \in Ideas : idea[i].comments + Cardinality(Commenting) + calls <= Most.ideas

CarriesIdea(h) ==
    /\ h.pc = "idea.create" =>
         h.object \in IdeaRecord /\ h.object.comments = 0
         /\ h.object.ref <= Cardinality(proposed) + 1
    /\ h.pc = "idea.update" =>
         h.object \in IdeaRecord /\ h.object.ref <= Cardinality(proposed)

IdeaTyped ==
    /\ idea \in [Ideas -> IdeaRecord]
    /\ \A i \in Ideas : idea[i].ref <= Cardinality(proposed)
    /\ CommentBudget
    /\ \A s \in Slots : CarriesIdea(desk[s])

\* A handler that comments is one of Commenting, and so is one more of them
LEMMA CommentingMoves ==
    ASSUME NEW s \in Slots, IsFiniteSet(Commenting),
           \A t \in Slots : t # s => desk'[t] = desk[t]
    PROVE  /\ IsFiniteSet(Commenting') /\ Cardinality(Commenting) \in Nat
           /\ Cardinality(Commenting') \in Nat
           /\ Cardinality(Commenting') <= Cardinality(Commenting) + 1
           /\ desk'[s].pc # "idea.comment" => Cardinality(Commenting') <= Cardinality(Commenting)
           /\ desk'[s].pc # "idea.comment" /\ desk[s].pc = "idea.comment" =>
                Cardinality(Commenting') = Cardinality(Commenting) - 1
  <1>1. Cardinality(Commenting) \in Nat
    BY FS_CardinalityType
  <1>2. CASE desk'[s].pc = "idea.comment"
    <2>1. Commenting' = Commenting \cup {s}
      BY <1>2 DEF Commenting
    <2>2. /\ IsFiniteSet(Commenting \cup {s})
          /\ Cardinality(Commenting \cup {s}) =
               IF s \in Commenting THEN Cardinality(Commenting) ELSE Cardinality(Commenting) + 1
      BY FS_AddElement
    <2> QED BY <1>1, <1>2, <2>1, <2>2
  <1>3. CASE desk'[s].pc # "idea.comment"
    <2>1. Commenting' = Commenting \ {s}
      BY <1>3 DEF Commenting
    <2>2. /\ IsFiniteSet(Commenting \ {s})
          /\ Cardinality(Commenting \ {s}) =
               IF s \in Commenting THEN Cardinality(Commenting) - 1 ELSE Cardinality(Commenting)
      BY FS_RemoveElement
    <2>3. Cardinality(Commenting') \in Nat
      BY <2>1, <2>2, FS_CardinalityType
    <2>4. desk[s].pc = "idea.comment" <=> s \in Commenting
      BY DEF Commenting
    <2> QED BY <1>1, <1>3, <2>1, <2>2, <2>3, <2>4
  <1> QED BY <1>2, <1>3

LEMMA NoMore ==
    ASSUME NEW x \in Nat, NEW c \in Nat, NEW k \in Nat, NEW y \in Nat, NEW d \in Nat, NEW l \in Nat,
           \/ y <= x /\ d <= c /\ l <= k
           \/ y <= x /\ d <= c + 1 /\ l = k - 1
           \/ y <= x + 1 /\ d = c - 1 /\ l <= k
    PROVE  y + d + l <= x + c + k
  OBVIOUS

\* A step of slot s
LEMMA IdeaMoves ==
    ASSUME IdeaTyped, DeskOK, NEW s \in Slots, NEW h,
           desk'[s] = h, \A t \in Slots : t # s => desk'[t] = desk[t],
           calls' \in Nat, calls' <= calls,
           h.pc = "idea.comment" => calls' = calls - 1,
           idea' \in [Ideas -> IdeaRecord],
           Cardinality(proposed) \in Nat, Cardinality(proposed') \in Nat,
           Cardinality(proposed) <= Cardinality(proposed'),
           \A i \in Ideas : /\ idea'[i].ref <= Cardinality(proposed')
                            /\ \/ idea'[i].comments <= idea[i].comments
                               \/ /\ desk[s].pc = "idea.comment" /\ h.pc # "idea.comment"
                                  /\ idea'[i].comments <= idea[i].comments + 1,
           CarriesIdea(desk[s])'
    PROVE  IdeaTyped'
  <1>1. \A t \in Slots : CarriesIdea(desk[t])'
    <2>1. ASSUME NEW t \in Slots, t # s
          PROVE  CarriesIdea(desk[t])'
      <3>1. CarriesIdea(desk[t]) /\ desk'[t] = desk[t]
        BY <2>1 DEF IdeaTyped
      <3>2. \A h2 : h2 \in IdeaRecord => h2.ref \in Nat
        BY DEF IdeaRecord
      <3> QED BY <3>1, <3>2 DEF CarriesIdea
    <2> QED BY <2>1
  <1>2. CommentBudget'
    <2>1. /\ IsFiniteSet(Commenting') /\ Cardinality(Commenting) \in Nat
          /\ Cardinality(Commenting') \in Nat
          /\ Cardinality(Commenting') <= Cardinality(Commenting) + 1
          /\ desk'[s].pc # "idea.comment" => Cardinality(Commenting') <= Cardinality(Commenting)
          /\ desk'[s].pc # "idea.comment" /\ desk[s].pc = "idea.comment" =>
               Cardinality(Commenting') = Cardinality(Commenting) - 1
      BY CommentingMoves DEF IdeaTyped, CommentBudget
    <2>2. ASSUME NEW i \in Ideas
          PROVE  (idea[i].comments + Cardinality(Commenting) + calls <= Most.ideas)'
      <3>1. idea[i].comments \in Nat /\ idea'[i].comments \in Nat /\ calls \in Nat
        BY DEF IdeaTyped, IdeaRecord, DeskOK
      <3>2. idea[i].comments + Cardinality(Commenting) + calls <= Most.ideas /\ Most.ideas \in Nat
        BY DEF IdeaTyped, CommentBudget, Most
      <3>3. Most' = Most
        BY DEF Most
      <3> DEFINE c == Cardinality(Commenting)  d == Cardinality(Commenting')
                 x == idea[i].comments  y == idea'[i].comments
      <3>4. y + d + calls' <= x + c + calls
        <4>1. /\ x \in Nat /\ y \in Nat /\ c \in Nat /\ d \in Nat
              /\ calls \in Nat /\ calls' \in Nat /\ calls' <= calls
          BY <2>1, <3>1
        <4>2. \/ y <= x
              \/ desk[s].pc = "idea.comment" /\ desk'[s].pc # "idea.comment" /\ y <= x + 1
          OBVIOUS
        <4>3. /\ d <= c + 1
              /\ desk'[s].pc # "idea.comment" => d <= c
              /\ desk'[s].pc # "idea.comment" /\ desk[s].pc = "idea.comment" => d = c - 1
          BY <2>1
        <4> HIDE DEF c, d, x, y
        <4>4. \/ y <= x /\ d <= c /\ calls' <= calls
              \/ y <= x /\ d <= c + 1 /\ calls' = calls - 1
              \/ y <= x + 1 /\ d = c - 1 /\ calls' <= calls
          BY <4>1, <4>2, <4>3
        <4> QED BY <4>1, <4>4, NoMore
      <3>5. y + d + calls' \in Nat /\ x + c + calls \in Nat
        BY <2>1, <3>1
      <3> HIDE DEF x, y, c, d
      <3>6. y + d + calls' <= Most.ideas
        BY <3>2, <3>4, <3>5 DEF x, c
      <3> QED BY <3>3, <3>6 DEF y, d
    <2> QED BY <2>1, <2>2 DEF CommentBudget
  <1> QED BY <1>1, <1>2 DEF IdeaTyped

LEMMA IdeaStepTyped ==
    ASSUME DeskOK, IdeaRows, IdeaTyped, PipelineStep
    PROVE  DeskOK' /\ calls' <= calls /\ IdeaTyped'
  <1>1. /\ Cardinality(proposed) \in Nat /\ IsFiniteSet(proposed)
        /\ calls \in Nat /\ calls <= calls /\ idea \in [Ideas -> IdeaRecord]
        /\ \A i \in Ideas : idea[i].ref <= Cardinality(proposed) /\ idea[i].comments \in Nat
        /\ \A i \in Ideas : idea[i].comments <= idea[i].comments
    BY IdeaFacts DEF IdeaTyped, IdeaRecord, DeskOK
  \* a request taken
  <1>2. ASSUME NEW s \in Slots, NEW h, Take(s, h), Common(h), CarriesIdea(h), UNCHANGED pipelineVars
        PROVE  DeskOK' /\ calls' <= calls /\ IdeaTyped'
    <2>1. /\ DeskOK' /\ calls' = calls - 1 /\ calls' \in Nat /\ calls' <= calls /\ desk'[s] = h
          /\ \A t \in Slots : t # s => desk'[t] = desk[t]
      BY <1>2, TakeDesk
    <2>2. idea' = idea /\ proposed' = proposed
      BY <1>2 DEF pipelineVars
    <2>3. CarriesIdea(desk[s])'
      BY <1>2, <2>1, <2>2 DEF CarriesIdea
    <2>4. Cardinality(proposed') = Cardinality(proposed)
      BY <2>2
    <2>5. /\ Cardinality(proposed') \in Nat /\ Cardinality(proposed) <= Cardinality(proposed')
          /\ \A i \in Ideas : /\ idea'[i].ref <= Cardinality(proposed')
                              /\ idea'[i].comments <= idea[i].comments
          /\ idea' \in [Ideas -> IdeaRecord]
      BY <1>1, <2>2, <2>4
    <2>6. IdeaTyped'
      BY <1>1, <2>1, <2>3, <2>5, IdeaMoves
    <2> QED BY <2>1, <2>6
  \* a handler that ends
  <1>3. ASSUME NEW s \in Slots, Ends(s), idea' \in [Ideas -> IdeaRecord],
               Cardinality(proposed') \in Nat, Cardinality(proposed) <= Cardinality(proposed'),
               \A i \in Ideas : /\ idea'[i].ref <= Cardinality(proposed')
                                /\ \/ idea'[i].comments <= idea[i].comments
                                   \/ /\ desk[s].pc = "idea.comment"
                                      /\ idea'[i].comments <= idea[i].comments + 1
        PROVE  DeskOK' /\ calls' <= calls /\ IdeaTyped'
    <2>1. /\ DeskOK' /\ calls' = calls /\ calls' \in Nat /\ calls' <= calls /\ desk'[s] = Idle
          /\ \A t \in Slots : t # s => desk'[t] = desk[t]
      BY <1>1, <1>3, EndsDesk
    <2>2. CarriesIdea(desk[s])' /\ Idle.pc # "idea.comment"
      BY <2>1, IdleIsIdle DEF CarriesIdea
    <2>3. IdeaTyped'
      BY <1>1, <1>3, <2>1, <2>2, IdeaMoves
    <2> QED BY <2>1, <2>3
  <1>4. ASSUME NEW s \in Slots, NEW u \in Staff, AskCreateIdea(s, u)
        PROVE  DeskOK' /\ calls' <= calls /\ IdeaTyped'
    <2> DEFINE row == [ref |-> NextRef(Cardinality(Kept)), author |-> u, comments |-> 0]
               h == At("idea.create", <<"idea", 0>>, u, row)
    <2>1. Cardinality(Kept) \in Nat /\ Cardinality(Kept) <= Cardinality(proposed)
      BY <1>1, IdeaFacts, FS_Subset DEF IdeaRows
    <2>2. row \in IdeaRecord /\ row.comments = 0 /\ row.ref <= Cardinality(proposed) + 1
      BY <1>1, <2>1 DEF IdeaRecord, NextRef
    <2>3. h.pc = "idea.create" /\ h.object = row /\ Common(h)
      BY AtFields, AtCommon
    <2>4. Take(s, h) /\ UNCHANGED pipelineVars
      BY <1>4 DEF AskCreateIdea
    <2> HIDE DEF h, row
    <2> QED BY <1>2, <2>2, <2>3, <2>4 DEF CarriesIdea
  <1>5. ASSUME NEW s \in Slots, NEW u \in Staff, NEW i \in Ideas, AskUpdateIdea(s, u, i)
        PROVE  DeskOK' /\ calls' <= calls /\ IdeaTyped'
    <2> DEFINE h == At("idea.update", <<"idea", i>>, u, idea[i])
    <2>1. h.pc = "idea.update" /\ h.object = idea[i] /\ Common(h)
      BY AtFields, AtCommon
    <2>2. Take(s, h) /\ UNCHANGED pipelineVars
      BY <1>5 DEF AskUpdateIdea
    <2> HIDE DEF h
    <2> QED BY <1>1, <1>2, <2>1, <2>2 DEF CarriesIdea
  <1>6. ASSUME NEW s \in Slots, NEW u \in Staff, NEW i \in Ideas, AskComment(s, u, i)
        PROVE  DeskOK' /\ calls' <= calls /\ IdeaTyped'
    <2> DEFINE h == At("idea.comment", <<"comment", i>>, u, None)
    <2>1. h.pc = "idea.comment" /\ Common(h)
      BY AtFields, AtCommon
    <2>2. Take(s, h) /\ UNCHANGED pipelineVars
      BY <1>6 DEF AskComment
    <2> HIDE DEF h
    <2> QED BY <1>2, <2>1, <2>2 DEF CarriesIdea
  <1>7. ASSUME NEW s \in Slots, InsertIdea(s)
        PROVE  DeskOK' /\ calls' <= calls /\ IdeaTyped'
    <2>1. Ends(s) /\ desk[s].pc = "idea.create"
      BY <1>7 DEF InsertIdea
    <2>2. CASE UNCHANGED pipelineVars
      <3>1. idea' = idea /\ proposed' = proposed
        BY <2>2 DEF pipelineVars
      <3> QED BY <1>1, <1>3, <2>1, <3>1
    <2>3. CASE ~UNCHANGED pipelineVars
      <3> DEFINE k == Cardinality(proposed) + 1
      <3>1. /\ k \in Ideas /\ idea' = [idea EXCEPT ![k] = desk[s].object]
            /\ proposed' = proposed \cup {k}
        BY <1>7, <2>3 DEF InsertIdea
      <3>2. Cardinality(proposed \cup {k}) = Cardinality(proposed) + 1
        BY <1>1, IdeaFacts, FS_AddElement
      <3>3. /\ desk[s].object \in IdeaRecord /\ desk[s].object.comments = 0
            /\ desk[s].object.ref <= Cardinality(proposed) + 1
        BY <2>1 DEF IdeaTyped, CarriesIdea
      <3>4. idea' \in [Ideas -> IdeaRecord]
        BY <1>1, <3>1, <3>3
      <3>5. Cardinality(proposed') \in Nat /\ Cardinality(proposed') = Cardinality(proposed) + 1
        BY <1>1, <3>1, <3>2
      <3> HIDE DEF k
      <3>6. ASSUME NEW i \in Ideas
            PROVE  /\ idea'[i].ref <= Cardinality(proposed')
                   /\ idea'[i].comments <= idea[i].comments
        <4>1. CASE i = k
          <5>1. idea'[i] = desk[s].object
            BY <1>1, <3>1, <4>1
          <5>2. idea[i].comments \in Nat
            BY <1>1
          <5> QED BY <3>3, <3>5, <5>1, <5>2
        <4>2. CASE i # k
          <5>1. idea'[i] = idea[i]
            BY <1>1, <3>1, <4>2
          <5>2. idea[i].ref \in Nat /\ idea[i].ref <= Cardinality(proposed)
            BY <1>1 DEF IdeaRecord
          <5> QED BY <1>1, <3>5, <5>1, <5>2
        <4> QED BY <4>1, <4>2
      <3>7. Cardinality(proposed) <= Cardinality(proposed')
        BY <1>1, <3>5
      <3> QED BY <1>3, <2>1, <3>4, <3>5, <3>6, <3>7
    <2> QED BY <2>2, <2>3
  <1>8. ASSUME NEW s \in Slots, SaveIdea(s)
        PROVE  DeskOK' /\ calls' <= calls /\ IdeaTyped'
    <2> DEFINE k == desk[s].on[2]
               row == [desk[s].object EXCEPT !.comments = 0]
    <2>1. Ends(s) /\ desk[s].pc = "idea.update" /\ proposed' = proposed
          /\ (idea' = idea \/ idea' = [idea EXCEPT ![k] = row])
      BY <1>8 DEF SaveIdea
    <2>2. desk[s].object \in IdeaRecord /\ desk[s].object.ref <= Cardinality(proposed)
      BY <2>1 DEF IdeaTyped, CarriesIdea
    <2>3. row \in IdeaRecord /\ row.ref <= Cardinality(proposed) /\ row.comments = 0
      BY <2>2 DEF IdeaRecord
    <2> HIDE DEF row, k
    <2>4. idea' \in [Ideas -> IdeaRecord]
      BY <1>1, <2>1, <2>3
    <2>5. ASSUME NEW i \in Ideas
          PROVE  /\ idea'[i].ref <= Cardinality(proposed')
                 /\ idea'[i].comments <= idea[i].comments
      <3>1. idea'[i] = idea[i] \/ idea'[i] = row
        BY <1>1, <2>1
      <3> QED BY <1>1, <2>1, <2>3, <3>1
    <2>6. Cardinality(proposed') = Cardinality(proposed)
      BY <2>1
    <2> QED BY <1>1, <1>3, <2>1, <2>4, <2>5, <2>6
  <1>9. ASSUME NEW s \in Slots, InsertComment(s)
        PROVE  DeskOK' /\ calls' <= calls /\ IdeaTyped'
    <2> DEFINE k == desk[s].on[2]
    <2>1. Ends(s) /\ desk[s].pc = "idea.comment" /\ proposed' = proposed
          /\ (idea' = idea \/ idea' = [idea EXCEPT ![k].comments = @ + 1])
      BY <1>9 DEF InsertComment
    <2>2. \A i \in Ideas : /\ idea'[i].ref = idea[i].ref
                           /\ idea'[i].comments <= idea[i].comments + 1
                           /\ idea'[i] \in IdeaRecord
      BY <1>1, <2>1 DEF IdeaRecord
    <2>3. idea' \in [Ideas -> IdeaRecord]
      BY <1>1, <2>1, <2>2
    <2>4. Cardinality(proposed') = Cardinality(proposed)
      BY <2>1
    <2> QED BY <1>1, <1>3, <2>1, <2>2, <2>3, <2>4
  <1>10. ASSUME NEW u \in Staff, NEW k \in Ideas, DeleteIdea(u, k)
         PROVE  DeskOK' /\ calls' <= calls /\ IdeaTyped'
    <2>1. Quick(<<"idea", k>>) /\ idea' = [idea EXCEPT ![k] = NoIdea] /\ proposed' = proposed
      BY <1>10 DEF DeleteIdea
    <2>2. DeskOK' /\ calls' \in Nat /\ calls' <= calls /\ desk' = desk
      BY <2>1, QuickDesk
    <2>3. NoIdea \in IdeaRecord /\ NoIdea.ref = 0 /\ NoIdea.comments = 0
      BY DEF NoIdea, IdeaRecord
    <2>4. idea' \in [Ideas -> IdeaRecord]
      BY <1>1, <2>1, <2>3
    <2>5. ASSUME NEW i \in Ideas
          PROVE  /\ idea'[i].ref <= Cardinality(proposed)
                 /\ idea'[i].comments <= idea[i].comments /\ idea'[i].comments \in Nat
      <3>1. idea'[i] = idea[i] \/ idea'[i] = NoIdea
        BY <1>1, <2>1
      <3> QED BY <1>1, <2>3, <3>1
    <2>6. Commenting' = Commenting /\ Cardinality(Commenting) \in Nat
      BY <2>2, FS_CardinalityType DEF Commenting, IdeaTyped, CommentBudget
    <2>7. CommentBudget'
      <3>1. ASSUME NEW i \in Ideas
            PROVE  idea'[i].comments + Cardinality(Commenting) + calls' <= Most.ideas
        <4>1. idea[i].comments + Cardinality(Commenting) + calls <= Most.ideas /\ Most.ideas \in Nat
          BY DEF IdeaTyped, CommentBudget, Most
        <4>2. /\ idea[i].comments \in Nat /\ idea'[i].comments \in Nat
              /\ idea'[i].comments <= idea[i].comments
          BY <1>1, <2>5
        <4> QED BY <1>1, <2>2, <2>6, <4>1, <4>2
      <3>2. Cardinality(Commenting)' = Cardinality(Commenting) /\ Most' = Most
        BY <2>6 DEF Most
      <3> QED BY <2>6, <3>1, <3>2 DEF CommentBudget, IdeaTyped
    <2>8. \A s \in Slots : CarriesIdea(desk[s])'
      BY <2>1, <2>2 DEF IdeaTyped, CarriesIdea
    <2> QED BY <2>1, <2>2, <2>4, <2>5, <2>7, <2>8 DEF IdeaTyped
  <1> QED BY <1>4, <1>5, <1>6, <1>7, <1>8, <1>9, <1>10 DEF PipelineStep

\* Readers and reactions
MarksTyped == made \in Nat /\ rows \in [Kinds -> [Staff -> SUBSET (1..made)]]

LEMMA MarkStepTyped ==
    ASSUME DeskOK, MarksTyped, MarkStep
    PROVE  DeskOK' /\ calls' <= calls /\ MarksTyped'
  <1> USE DEF MarksTyped
  <1>1. calls <= calls /\ calls \in Nat
    BY DEF DeskOK
  <1>2. ASSUME NEW s \in Slots, NEW u \in Staff,
               \/ AskMarkAsRead(s, u) \/ AskMarkAsUnread(s, u) \/ AskMarkMessageAsRead(s, u)
               \/ AskReactToIdea(s, u) \/ AskReactToComment(s, u) \/ AskToggleReaction(s, u)
        PROVE  DeskOK' /\ calls' <= calls /\ MarksTyped'
    <2>1. PICK k : LookToInsert(s, k, u) \/ LookToRemove(s, k, u)
      BY <1>2 DEF AskMarkAsRead, AskMarkAsUnread, AskMarkMessageAsRead, AskReactToIdea,
                  AskReactToComment, AskToggleReaction, LookToToggle
    <2>2. PICK pc, x : /\ pc \in {"mark.insert", "mark.remove"}
                       /\ Quick(<<k, u>>) \/ Take(s, At(pc, <<k, u>>, u, x))
                       /\ UNCHANGED markVars
      BY <2>1 DEF LookToInsert, LookToRemove
    <2>3. Common(At(pc, <<k, u>>, u, x))
      BY <2>2, AtCommon
    <2>4. DeskOK' /\ calls' <= calls
      BY <2>2, <2>3, TakeDesk, QuickDesk
    <2> QED BY <2>2, <2>4 DEF markVars
  <1>3. ASSUME NEW s \in Slots, InsertMark(s)
        PROVE  DeskOK' /\ calls' <= calls /\ MarksTyped'
    <2>1. DeskOK' /\ calls' <= calls
      BY <1>1, <1>3, EndsDesk DEF InsertMark
    <2>2. CASE UNCHANGED <<rows, made, wanted>>
      BY <2>1, <2>2
    <2>3. CASE ~UNCHANGED <<rows, made, wanted>>
      <3> DEFINE k == desk[s].on[1]  u == desk[s].on[2]
      <3>1. made' = made + 1 /\ rows' = [rows EXCEPT ![k][u] = @ \cup {made'}]
        BY <1>3, <2>3 DEF InsertMark
      <3>2. made' \in Nat /\ made' \in 1..made' /\ 1..made \subseteq 1..made'
        BY <3>1
      <3> HIDE DEF k, u
      <3>3. \A j \in Kinds, v \in Staff : rows'[j][v] \in SUBSET (1..made')
        BY <3>1, <3>2
      <3>4. rows' = [j \in Kinds |-> [v \in Staff |-> rows'[j][v]]]
        BY <3>1
      <3>5. rows' \in [Kinds -> [Staff -> SUBSET (1..made')]]
        BY <3>3, <3>4
      <3> QED BY <2>1, <3>2, <3>5
    <2> QED BY <2>2, <2>3
  <1>4. ASSUME NEW s \in Slots, RemoveMark(s)
        PROVE  DeskOK' /\ calls' <= calls /\ MarksTyped'
    <2> DEFINE k == desk[s].on[1]  u == desk[s].on[2]
    <2>1. DeskOK' /\ calls' <= calls
      BY <1>1, <1>4, EndsDesk DEF RemoveMark
    <2>2. made' = made /\ rows' = [rows EXCEPT ![k][u] = @ \ {desk[s].object}]
      BY <1>4 DEF RemoveMark
    <2> HIDE DEF k, u
    <2>3. \A j \in Kinds, v \in Staff : rows'[j][v] \in SUBSET (1..made)
      BY <2>2
    <2>4. rows' = [j \in Kinds |-> [v \in Staff |-> rows'[j][v]]]
      BY <2>2
    <2> QED BY <2>1, <2>2, <2>3, <2>4
  <1>5. ASSUME NEW k \in Kinds, RemoveParent(k)
        PROVE  DeskOK' /\ calls' <= calls /\ MarksTyped'
    <2>1. DeskOK' /\ calls' <= calls
      BY <1>5, QuickDesk DEF RemoveParent
    <2>2. made' = made /\ rows' = Cleared(rows, k, {})
      BY <1>5 DEF RemoveParent
    <2>3. \A i \in Kinds : Cleared(rows, k, {})[i] \in [Staff -> SUBSET (1..made)]
      BY DEF Cleared
    <2>4. rows' \in [Kinds -> [Staff -> SUBSET (1..made)]]
      BY <2>2, <2>3 DEF Cleared
    <2> QED BY <2>1, <2>2, <2>4
  <1> QED BY <1>2, <1>3, <1>4, <1>5 DEF MarkStep

\* Threads
ReplyRecord == [author : Staff \cup {None}, at : Nat]

CarriesReply(h) == h.pc = "reply.update" => h.object \in ReplyRecord

RepliesTyped == reply \in [Replies -> ReplyRecord] /\ \A s \in Slots : CarriesReply(desk[s])

LEMMA ThreadStepTyped ==
    ASSUME DeskOK, ThreadInv, RepliesTyped, ThreadStep
    PROVE  DeskOK' /\ calls' <= calls /\ RepliesTyped'
  <1> USE DEF RepliesTyped
  <1>1. calls <= calls /\ calls \in Nat /\ clock \in Nat
    BY DEF DeskOK, ThreadInv, ThreadRows
  <1>2. ASSUME NEW s \in Slots, NEW h, Take(s, h), Common(h), CarriesReply(h), reply' = reply
        PROVE  DeskOK' /\ calls' <= calls /\ RepliesTyped'
    <2>1. /\ DeskOK' /\ calls' <= calls /\ desk'[s] = h
          /\ \A t \in Slots : t # s => desk'[t] = desk[t]
      BY <1>2, TakeDesk
    <2>2. \A t \in Slots : CarriesReply(desk'[t])
      BY <1>2, <2>1
    <2> QED BY <1>2, <2>1, <2>2 DEF CarriesReply
  <1>3. ASSUME NEW s \in Slots, NEW h, Goes(s, h), Common(h), h.pc # "reply.update",
               reply' \in [Replies -> ReplyRecord]
        PROVE  DeskOK' /\ calls' <= calls /\ RepliesTyped'
    <2>1. /\ DeskOK' /\ calls' <= calls /\ desk'[s] = h
          /\ \A t \in Slots : t # s => desk'[t] = desk[t]
      BY <1>1, <1>3, GoesDesk
    <2>2. \A t \in Slots : CarriesReply(desk'[t])
      BY <1>3, <2>1 DEF CarriesReply
    <2> QED BY <1>3, <2>1, <2>2 DEF CarriesReply
  <1>4. \A s \in Slots : Common(desk[s])
    BY DEF DeskOK
  <1>5. ASSUME NEW s \in Slots, NEW u \in Staff, AskThreadReply(s, u) \/ AskMarkThread(s, u)
        PROVE  DeskOK' /\ calls' <= calls /\ RepliesTyped'
    <2>1. PICK pc : pc \in {"reply.insert", "thread.look"} /\ Begin(s, u, pc)
      BY <1>5 DEF AskThreadReply, AskMarkThread
    <2> DEFINE h == [At(pc, Thread(u), u, None) EXCEPT !.fit = There]
    <2>2. Common(h) /\ h.pc = pc
      BY <2>1 DEF Common, Shaped, At, Idle
    <2>3. Take(s, h) /\ reply' = reply
      BY <2>1 DEF Begin
    <2> HIDE DEF h
    <2> QED BY <1>2, <2>1, <2>2, <2>3 DEF CarriesReply
  <1>6. ASSUME NEW s \in Slots, NEW x \in Replies, AskUpdateReply(s, x)
        PROVE  DeskOK' /\ calls' <= calls /\ RepliesTyped'
    <2> DEFINE h == At("reply.update", <<"reply", x>>, reply[x].author, reply[x])
    <2>1. reply[x] \in ReplyRecord
      OBVIOUS
    <2>2. h.pc = "reply.update" /\ h.object = reply[x] /\ Common(h)
      BY <2>1, AtFields, AtCommon DEF ReplyRecord
    <2>3. Take(s, h) /\ reply' = reply
      BY <1>6 DEF AskUpdateReply, threadVars
    <2> HIDE DEF h
    <2> QED BY <1>2, <2>1, <2>2, <2>3 DEF CarriesReply
  <1>7. ASSUME NEW s \in Slots, InsertReply(s)
        PROVE  DeskOK' /\ calls' <= calls /\ RepliesTyped'
    <2> DEFINE h == [desk[s] EXCEPT !.pc = "thread.look"]
               row == [author |-> desk[s].by, at |-> clock']
    <2>1. /\ Goes(s, h) /\ clock' = clock + 1 /\ desk[s].pc = "reply.insert"
          /\ reply' = [reply EXCEPT ![clock] = row]
      BY <1>7 DEF InsertReply
    <2>2. desk[s].by \in Staff
      <3>1. GoodThreadHandler(desk[s])
        BY <2>1 DEF ThreadInv
      <3> QED BY <2>1, <3>1 DEF GoodThreadHandler, GoodReader
    <2>3. row \in ReplyRecord
      BY <1>1, <2>1, <2>2 DEF ReplyRecord
    <2>4. Common(h) /\ h.pc = "thread.look"
      BY <1>4 DEF Common, Shaped, Idle
    <2> HIDE DEF h, row
    <2>5. reply' \in [Replies -> ReplyRecord]
      BY <2>1, <2>3
    <2> QED BY <1>3, <2>1, <2>4, <2>5
  <1>8. ASSUME NEW s \in Slots, LookThread(s)
        PROVE  DeskOK' /\ calls' <= calls /\ RepliesTyped'
    <2> DEFINE h == [desk[s] EXCEPT !.pc = "thread.save",
                       !.object = [fresh |-> lastRead[desk[s].by] = 0, at |-> clock]]
    <2>1. Goes(s, h) /\ reply' = reply
      BY <1>8 DEF LookThread, threadVars
    <2>2. Common(h) /\ h.pc = "thread.save"
      BY <1>4 DEF Common, Shaped, Idle
    <2> HIDE DEF h
    <2> QED BY <1>3, <2>1, <2>2
  <1>9. ASSUME NEW s \in Slots, SaveThread(s) \/ SaveReply(s)
        PROVE  DeskOK' /\ calls' <= calls /\ RepliesTyped'
    <2>1. Goes(s, Idle)
      BY <1>9 DEF SaveThread, SaveReply, Ends
    <2>2. \/ reply' = reply
          \/ /\ desk[s].pc = "reply.update"
             /\ reply' = [reply EXCEPT ![desk[s].on[2]] = desk[s].object]
      BY <1>9 DEF SaveThread, SaveReply
    <2>3. desk[s].pc = "reply.update" => desk[s].object \in ReplyRecord
      BY DEF CarriesReply
    <2>4. reply' \in [Replies -> ReplyRecord]
      BY <2>2, <2>3
    <2> QED BY <2>1, <2>4, <1>3, IdleCommon, IdleIsIdle
  <1>10. ASSUME NEW x \in Replies, DeleteReply(x)
         PROVE  DeskOK' /\ calls' <= calls /\ RepliesTyped'
    <2>1. Quick(<<"reply", x>>) /\ reply' = [reply EXCEPT ![x] = NoReply]
      BY <1>10 DEF DeleteReply
    <2>2. DeskOK' /\ calls' <= calls /\ desk' = desk
      BY <2>1, QuickDesk
    <2>3. NoReply \in ReplyRecord
      BY DEF NoReply, ReplyRecord
    <2> QED BY <2>1, <2>2, <2>3 DEF CarriesReply
  <1> QED BY <1>5, <1>6, <1>7, <1>8, <1>9, <1>10 DEF ThreadStep

\* Scheduled messages: nothing was sent after today
PastPlan(d) == [live : BOOLEAN, frequency : Frequencies, dayOfWeek : 0..2,
                active : BOOLEAN, lastRun : 0..d]

CarriesPlan(h, d) == h.pc = "schedule.save" => h.object \in PastPlan(d)

PlansTyped ==
    /\ schedule \in [Schedules -> PastPlan(day)]
    /\ tick # NoTick => tick.rows \in [Schedules -> PastPlan(day)]
    /\ \A s \in Slots : CarriesPlan(desk[s], day)

LEMMA ScheduleStepTyped ==
    ASSUME DeskOK, PlanTypes, PlansTyped, ScheduleStep
    PROVE  DeskOK' /\ calls' <= calls /\ PlansTyped'
  <1> USE DEF PlansTyped
  <1>1. calls <= calls /\ calls \in Nat /\ day \in Nat
    BY DEF DeskOK, PlanTypes
  <1>2. ASSUME NEW x \in Schedules, NEW f \in Frequencies, NEW d \in {1, 2}, ScheduleMessage(x, f, d)
        PROVE  DeskOK' /\ calls' <= calls /\ PlansTyped'
    <2> DEFINE row == [live |-> TRUE, frequency |-> f, dayOfWeek |-> d, active |-> TRUE,
                       lastRun |-> 0]
    <2>1. /\ Quick(<<"schedule", x>>) /\ schedule' = [schedule EXCEPT ![x] = row]
          /\ day' = day /\ tick' = tick
      BY <1>2 DEF ScheduleMessage
    <2>2. row \in PastPlan(day)
      BY <1>1 DEF PastPlan
    <2> HIDE DEF row
    <2> QED BY <2>1, <2>2, QuickDesk
  <1>3. ASSUME NEW x \in Schedules, DeleteSchedule(x)
        PROVE  DeskOK' /\ calls' <= calls /\ PlansTyped'
    <2>1. /\ Quick(<<"schedule", x>>) /\ schedule' = [schedule EXCEPT ![x] = NoSchedule]
          /\ day' = day /\ tick' = tick
      BY <1>3 DEF DeleteSchedule
    <2>2. NoSchedule \in PastPlan(day)
      BY <1>1 DEF PastPlan, NoSchedule, Frequencies
    <2> QED BY <2>1, <2>2, QuickDesk
  <1>4. ASSUME NEW s \in Slots, NEW x \in Schedules, AskToggle(s, x)
        PROVE  DeskOK' /\ calls' <= calls /\ PlansTyped'
    <2> DEFINE row == [schedule[x] EXCEPT !.active = ~@]
               h == At("schedule.save", <<"schedule", x>>, None, row)
    <2>1. row \in PastPlan(day)
      BY DEF PastPlan
    <2>2. h.pc = "schedule.save" /\ h.object = row /\ Common(h)
      BY AtFields, AtCommon
    <2>3. Take(s, h) /\ UNCHANGED scheduleVars
      BY <1>4 DEF AskToggle
    <2> HIDE DEF h, row
    <2>4. /\ DeskOK' /\ calls' <= calls /\ desk'[s] = h
          /\ \A t \in Slots : t # s => desk'[t] = desk[t]
      BY <2>2, <2>3, TakeDesk
    <2>5. \A t \in Slots : CarriesPlan(desk'[t], day)
      BY <2>1, <2>2, <2>4 DEF CarriesPlan
    <2> QED BY <2>3, <2>4, <2>5 DEF scheduleVars
  <1>5. ASSUME NEW s \in Slots, SaveToggle(s)
        PROVE  DeskOK' /\ calls' <= calls /\ PlansTyped'
    <2>1. /\ Ends(s) /\ schedule' = [schedule EXCEPT ![desk[s].on[2]] = desk[s].object]
          /\ day' = day /\ tick' = tick /\ desk[s].object \in PastPlan(day)
      BY <1>5 DEF SaveToggle, CarriesPlan
    <2>2. /\ DeskOK' /\ calls' = calls /\ desk'[s] = Idle
          /\ \A t \in Slots : t # s => desk'[t] = desk[t]
      BY <2>1, EndsDesk
    <2>3. \A t \in Slots : CarriesPlan(desk'[t], day)
      BY <2>2, IdleSaves DEF CarriesPlan
    <2>4. schedule' \in [Schedules -> PastPlan(day)]
      BY <2>1
    <2> QED BY <1>1, <2>1, <2>2, <2>3, <2>4
  <1>6. ASSUME UNCHANGED <<desk, calls, crossed>>, NEW d \in Nat, day' = d, day <= d,
               schedule' \in [Schedules -> PastPlan(d)],
               tick' # NoTick => tick'.rows \in [Schedules -> PastPlan(d)]
        PROVE  DeskOK' /\ calls' <= calls /\ PlansTyped'
    <2>1. 0..day \subseteq 0..d
      BY <1>1, <1>6
    <2>2. PastPlan(day) \subseteq PastPlan(d)
      BY <2>1 DEF PastPlan
    <2>3. \A t \in Slots : CarriesPlan(desk'[t], d)
      BY <1>6, <2>2 DEF CarriesPlan
    <2>4. DeskOK'
      BY <1>6 DEF DeskOK, DeskIs, Common, Shaped
    <2> QED BY <1>1, <1>6, <2>3, <2>4
  <1>7. ASSUME NEW x \in Schedules, SendScheduled(x)
        PROVE  DeskOK' /\ calls' <= calls /\ PlansTyped'
    <2>1. /\ UNCHANGED <<desk, calls, crossed>> /\ day' = day /\ schedule' = schedule
          /\ x \in tick.left
      BY <1>7 DEF SendScheduled
    <2>2. PICK v : tick' = [tick EXCEPT !.left = @ \ {x}, !.sent = v]
      BY <1>7 DEF SendScheduled
    <2>3. tick # NoTick
      BY <2>1 DEF NoTick
    <2>4. tick'.rows = tick.rows
      BY <2>2, <2>3 DEF PlanTypes
    <2> QED BY <1>1, <1>6, <2>1, <2>3, <2>4
  <1>8. ASSUME Tick
        PROVE  DeskOK' /\ calls' <= calls /\ PlansTyped'
    <2>1. /\ UNCHANGED <<desk, calls, crossed>> /\ day' = day /\ schedule' = schedule
          /\ tick'.rows = schedule
      BY <1>8 DEF Tick
    <2> QED BY <1>1, <1>6, <2>1
  <1>9. ASSUME SaveRun
        PROVE  DeskOK' /\ calls' <= calls /\ PlansTyped'
    <2> DEFINE x == tick.sent
    <2>1. /\ UNCHANGED <<desk, calls, crossed>> /\ day' = day /\ x # None
          /\ schedule' = [schedule EXCEPT ![x] = Run(tick.rows[x])]
          /\ tick' = [tick EXCEPT !.sent = None]
      BY <1>9 DEF SaveRun
    <2>2. tick # NoTick
      BY <2>1 DEF NoTick
    <2>3. x \in Schedules /\ tick.rows[x] \in PastPlan(day) /\ tick'.rows = tick.rows
      BY <2>1, <2>2 DEF PlanTypes
    <2>4. Run(tick.rows[x]) \in PastPlan(day)
      <3>1. ASSUME NEW row \in PastPlan(day)
            PROVE  Run(row) \in PastPlan(day)
        <4>1. day \in 0..day
          BY <1>1
        <4>2. (row.frequency # "once") \in BOOLEAN
          OBVIOUS
        <4> QED BY <4>1, <4>2 DEF Run, PastPlan
      <3> QED BY <2>3, <3>1
    <2>5. schedule' \in [Schedules -> PastPlan(day)]
      BY <2>1, <2>4
    <2> QED BY <1>1, <1>6, <2>1, <2>2, <2>3, <2>5
  <1>10. ASSUME EndTick
         PROVE  DeskOK' /\ calls' <= calls /\ PlansTyped'
    BY <1>1, <1>6, <1>10 DEF EndTick
  <1>11. ASSUME Restart
         PROVE  DeskOK' /\ calls' <= calls /\ PlansTyped'
    <2>1. /\ desk' = [s \in Slots |-> Idle] /\ calls' = calls /\ schedule' = schedule
          /\ tick' = NoTick /\ day' = day
      BY <1>11 DEF Restart
    <2>2. \A s \in Slots : desk'[s] = Idle
      BY <2>1
    <2>3. DeskOK'
      <3>1. \A s \in Slots : Common(desk'[s])
        BY <2>2, IdleCommon
      <3> QED BY <1>1, <2>1, <3>1 DEF DeskOK, DeskIs, Common, Shaped
    <2> QED BY <1>1, <2>1, <2>2, <2>3, IdleSaves DEF CarriesPlan
  <1>12. ASSUME NextDay
         PROVE  DeskOK' /\ calls' <= calls /\ PlansTyped'
    <2>1. /\ UNCHANGED <<desk, calls, crossed>> /\ day' = day + 1 /\ schedule' = schedule
          /\ tick = NoTick /\ tick' = tick
      BY <1>12 DEF NextDay
    <2>2. day' \in Nat /\ day <= day' /\ 0..day \subseteq 0..day'
      BY <1>1, <2>1
    <2>3. PastPlan(day) \subseteq PastPlan(day')
      BY <2>2 DEF PastPlan
    <2>4. schedule' \in [Schedules -> PastPlan(day')]
      BY <2>1, <2>3
    <2> QED BY <1>6, <2>1, <2>2, <2>4
  <1> QED BY <1>2, <1>3, <1>4, <1>5, <1>7, <1>8, <1>9, <1>10, <1>11, <1>12 DEF ScheduleStep

\* Notices and the push subscriptions
SubscriptionsTyped ==
    /\ subscription \in [Endpoints -> Staff \cup {None}]
    /\ \A s \in Slots : desk[s].pc = "subscription.save" => desk[s].by \in Staff

LEMMA TellingCommon ==
    ASSUME NEW h, Common(h), NEW type, NEW to, to \subseteq Staff, NEW related
    PROVE  /\ Common(Telling(h, type, to, related))
           /\ Telling(h, type, to, related).pc # "subscription.save"
  <1>1. CASE to = {}
    BY <1>1, IdleCommon, IdleIsIdle DEF Telling
  <1>2. CASE to # {}
    <2> DEFINE g == [h EXCEPT !.pc = "notice.check", !.todo = to, !.fit = {},
                              !.object = [type |-> type, related |-> related]]
    <2>1. Telling(h, type, to, related) = g
      BY <1>2 DEF Telling
    <2>2. g.pc = "notice.check" /\ g.by = h.by /\ g.todo = to /\ DOMAIN g = DOMAIN h
      BY DEF Common, Shaped
    <2> HIDE DEF g
    <2> QED BY <2>1, <2>2 DEF Common, Shaped, Idle
  <1> QED BY <1>1, <1>2

LEMMA NoticeStepTyped ==
    ASSUME DeskOK, NoticeInv, SubscriptionsTyped, NoticeStep
    PROVE  DeskOK' /\ calls' <= calls /\ SubscriptionsTyped'
  <1> USE DEF SubscriptionsTyped
  <1>1. calls <= calls /\ calls \in Nat
    BY DEF DeskOK
  <1>2. /\ notices \in [NoticeIds -> NoticeRecord]
        /\ message \in MessageRecord
        /\ \A s \in Slots : Common(desk[s]) /\ (desk[s].pc # "idle" => GoodTeller(desk[s]))
    BY DEF DeskOK, NoticeInv, NoticeRows
  <1>3. ASSUME NEW s \in Slots, NEW h, Take(s, h), Common(h), subscription' = subscription,
               h.pc = "subscription.save" => h.by \in Staff
        PROVE  DeskOK' /\ calls' <= calls /\ SubscriptionsTyped'
    BY <1>3, TakeDesk
  <1>4. ASSUME NEW s \in Slots, NEW h, Goes(s, h), Common(h), h.pc # "subscription.save",
               subscription' \in [Endpoints -> Staff \cup {None}]
        PROVE  DeskOK' /\ calls' <= calls /\ SubscriptionsTyped'
    BY <1>1, <1>4, GoesDesk
  <1>5. ASSUME NEW on, Quick(on), subscription' \in [Endpoints -> Staff \cup {None}]
        PROVE  DeskOK' /\ calls' <= calls /\ SubscriptionsTyped'
    BY <1>5, QuickDesk
  \* requests
  <1>6. ASSUME NEW s \in Slots, NEW pc, pc # "idle", NEW on, NEW by \in Staff \cup {None, Ghost},
               NEW object, Take(s, At(pc, on, by, object)), subscription' = subscription,
               pc = "subscription.save" => by \in Staff
        PROVE  DeskOK' /\ calls' <= calls /\ SubscriptionsTyped'
    <2>1. Common(At(pc, on, by, object))
      BY <1>6, AtCommon
    <2>2. At(pc, on, by, object).pc = pc /\ At(pc, on, by, object).by = by
      BY AtFields
    <2> QED BY <1>3, <1>6, <2>1, <2>2
  <1>7. ASSUME NEW s \in Slots, NEW u \in Staff, NEW change, AskSettings(s, u, change)
        PROVE  DeskOK' /\ calls' <= calls /\ SubscriptionsTyped'
    BY <1>6, <1>7 DEF AskSettings, noticeVars
  <1>8. ASSUME NEW s \in Slots, NEW u \in Staff, AskReply(s, u)
        PROVE  DeskOK' /\ calls' <= calls /\ SubscriptionsTyped'
    BY <1>6, <1>8 DEF AskReply, noticeVars
  <1>9. ASSUME NEW s \in Slots, NEW u \in Staff, NEW e \in Endpoints, AskSubscribe(s, u, e)
        PROVE  DeskOK' /\ calls' <= calls /\ SubscriptionsTyped'
    BY <1>6, <1>9 DEF AskSubscribe, noticeVars
  <1>10. ASSUME NEW s \in Slots, NEW u \in Staff, NEW all, NEW ids, AskMessage(s, u, all, ids)
         PROVE  DeskOK' /\ calls' <= calls /\ SubscriptionsTyped'
    BY <1>6, <1>10 DEF AskMessage, noticeVars
  <1>11. ASSUME NEW s \in Slots, NEW n \in NoticeIds,
                (\E x \in BOOLEAN : AskMarkNotice(s, n, x)) \/ AskRemoveNotice(s, n)
         PROVE  DeskOK' /\ calls' <= calls /\ SubscriptionsTyped'
    <2>1. notices[n].to \in Staff \cup {None}
      BY <1>2 DEF NoticeRecord
    <2>2. CASE AskRemoveNotice(s, n)
      BY <1>6, <2>1, <2>2 DEF AskRemoveNotice, noticeVars
    <2>3. ASSUME NEW x \in BOOLEAN, AskMarkNotice(s, n, x)
          PROVE  DeskOK' /\ calls' <= calls /\ SubscriptionsTyped'
      BY <1>6, <2>1, <2>3 DEF AskMarkNotice, noticeVars
    <2> QED BY <1>11, <2>2, <2>3
  <1>12. ASSUME NEW s \in Slots, NEW ids, AskAnnounce(s, ids) \/ AskUpdateAnnouncement(s, ids)
         PROVE  DeskOK' /\ calls' <= calls /\ SubscriptionsTyped'
    BY <1>6, <1>12 DEF AskAnnounce, AskUpdateAnnouncement, noticeVars
  <1>13. ASSUME NEW s \in Slots, NEW all, NEW ids, AskUpdateMessage(s, all, ids)
         PROVE  DeskOK' /\ calls' <= calls /\ SubscriptionsTyped'
    <2>1. message.sender \in Staff \cup {None}
      BY <1>2 DEF MessageRecord
    <2> QED BY <1>6, <1>13, <2>1 DEF AskUpdateMessage, noticeVars
  <1>14. ASSUME NEW s \in Slots, AskUpdateLetter(s)
         PROVE  DeskOK' /\ calls' <= calls /\ SubscriptionsTyped'
    BY <1>6, <1>14 DEF AskUpdateLetter, noticeVars
  \* their steps
  <1>15. ASSUME NEW s \in Slots, NEW u \in Staff, CheckSettings(s, u)
         PROVE  DeskOK' /\ calls' <= calls /\ SubscriptionsTyped'
    <2> DEFINE h == desk[s]
               fit == IF IsAllowed(u, Gate(h.object.type)) THEN h.fit \cup {u} ELSE h.fit
               g == IF h.todo # {u} THEN [h EXCEPT !.todo = @ \ {u}, !.fit = fit]
                    ELSE IF fit = {} THEN Idle
                    ELSE [h EXCEPT !.pc = "notice.save", !.todo = {}, !.fit = fit]
    <2>1. Goes(s, g) /\ subscription' = subscription /\ h.pc = "notice.check"
      BY <1>15 DEF CheckSettings, noticeVars
    <2> HIDE DEF fit
    <2>2. Common(h)
      BY <1>2
    <2>3. Common(g) /\ g.pc # "subscription.save"
      <3>1. CASE h.todo # {u}
        BY <2>1, <2>2, <3>1 DEF Common, Shaped, Idle
      <3>2. CASE h.todo = {u} /\ fit = {}
        BY <3>2, IdleCommon, IdleIsIdle
      <3>3. CASE h.todo = {u} /\ fit # {}
        BY <2>1, <2>2, <3>3 DEF Common, Shaped, Idle
      <3> QED BY <3>1, <3>2, <3>3
    <2> HIDE DEF g
    <2> QED BY <1>4, <2>1, <2>3
  <1>16. ASSUME NEW s \in Slots,
                SaveSettings(s) \/ SaveNotices(s) \/ SaveMark(s) \/ RemoveNotice(s)
         PROVE  DeskOK' /\ calls' <= calls /\ SubscriptionsTyped'
    <2>1. Goes(s, Idle) /\ subscription' = subscription
      BY <1>16 DEF SaveSettings, SaveNotices, SaveMark, RemoveNotice, Ends
    <2> QED BY <1>4, <2>1, IdleCommon, IdleIsIdle
  <1>17. ASSUME NEW s \in Slots, SaveAnnouncement(s) \/ SaveMessage(s) \/ SaveLetter(s)
         PROVE  DeskOK' /\ calls' <= calls /\ SubscriptionsTyped'
    <2>1. subscription' = subscription
      BY <1>17 DEF SaveAnnouncement, SaveMessage, SaveLetter
    <2>2. CASE SaveLetter(s) /\ desk[s].by = None
      <3>1. Goes(s, Idle)
        BY <2>2 DEF SaveLetter, Ends
      <3> QED BY <1>4, <2>1, <3>1, IdleCommon, IdleIsIdle
    <2>3. CASE ~(SaveLetter(s) /\ desk[s].by = None)
      <3>1. ASSUME NEW type, NEW to, NEW related, Tells(s, type, to, related), to \subseteq Staff
            PROVE  DeskOK' /\ calls' <= calls /\ SubscriptionsTyped'
        <4>1. Goes(s, Telling(desk[s], type, to, related))
          BY <3>1 DEF Tells
        <4>2. /\ Common(Telling(desk[s], type, to, related))
              /\ Telling(desk[s], type, to, related).pc # "subscription.save"
          BY <1>2, <3>1, TellingCommon
        <4> QED BY <1>4, <2>1, <4>1, <4>2
      <3>2. CASE SaveAnnouncement(s)
        <4>1. /\ desk[s].pc \in {"announce.create", "announce.update"}
              /\ Tells(s, "announcement", desk[s].object.selected, desk[s].pc = "announce.create")
          BY <3>2 DEF SaveAnnouncement
        <4>2. desk[s].object.selected \subseteq Staff
          BY <1>2, <4>1 DEF GoodTeller, AnnouncementRecord
        <4> QED BY <3>1, <4>1, <4>2
      <3>3. CASE SaveMessage(s)
        <4> DEFINE who == desk[s].object.to \cup {desk[s].object.sender}
        <4>1. desk[s].pc = "message.save" /\ Tells(s, "ceo_message", who, FALSE)
          BY <3>3 DEF SaveMessage
        <4>2. who \subseteq Staff
          BY <1>2, <4>1 DEF GoodTeller, MessageRecord
        <4> HIDE DEF who
        <4> QED BY <3>1, <4>1, <4>2
      <3>4. CASE SaveLetter(s)
        <4>1. desk[s].pc = "letter.save" /\ Tells(s, "ceo_reply", {desk[s].object.sender}, FALSE)
          BY <2>3, <3>4 DEF SaveLetter
        <4>2. {desk[s].object.sender} \subseteq Staff
          BY <1>2, <4>1 DEF GoodTeller
        <4> QED BY <3>1, <4>1, <4>2
      <3> QED BY <1>17, <3>2, <3>3, <3>4
    <2> QED BY <2>2, <2>3
  <1>18. ASSUME NEW s \in Slots, SaveSubscription(s)
         PROVE  DeskOK' /\ calls' <= calls /\ SubscriptionsTyped'
    <2>1. /\ Goes(s, Idle) /\ desk[s].by \in Staff
          /\ \/ subscription' = subscription
             \/ subscription' = [subscription EXCEPT ![desk[s].on[2]] = desk[s].by]
      BY <1>18 DEF SaveSubscription, Ends
    <2>2. subscription' \in [Endpoints -> Staff \cup {None}]
      BY <2>1
    <2> QED BY <1>4, <2>1, <2>2, IdleCommon, IdleIsIdle
  \* requests that are done at once
  <1>19. CASE RemoveAnnouncement \/ RemoveMessage \/ RemoveLetter \/ \E u \in Staff : WriteLetter(u)
    <2>1. subscription' = subscription /\ \E on : Quick(on)
      BY <1>19 DEF RemoveAnnouncement, RemoveMessage, RemoveLetter, WriteLetter
    <2> QED BY <1>5, <2>1
  <1>20. CASE DeleteAll \/ \E u \in Staff : UnsubscribeUser(u)
    <2>1. (\E on : Quick(on)) /\ subscription' \in [Endpoints -> Staff \cup {None}]
      BY <1>20 DEF DeleteAll, UnsubscribeUser
    <2> QED BY <1>5, <2>1
  <1>21. CASE \E e \in Endpoints : Unsubscribe(e)
    <2>1. (\E on : Quick(on)) /\ subscription' \in [Endpoints -> Staff \cup {None}]
      BY <1>21 DEF Unsubscribe
    <2> QED BY <1>5, <2>1
  <1> QED BY <1>7, <1>8, <1>9, <1>10, <1>11, <1>12, <1>13, <1>14, <1>15, <1>16, <1>17, <1>18,
             <1>19, <1>20, <1>21 DEF NoticeStep

-----------------------------------------------------------------------------
(* All the services together *)

TypesInv ==
    /\ OfficeInv /\ PlanInv /\ NoticeOffice
    /\ DeskOK /\ calls <= Most[scene]
    /\ scene = "leave" => LeaveTyped
    /\ scene = "tickets" => TicketTyped
    /\ scene = "ideas" => IdeaTyped
    /\ scene = "marks" => MarksTyped
    /\ scene = "threads" => RepliesTyped
    /\ scene = "schedules" => PlansTyped
    /\ scene = "notices" => SubscriptionsTyped

\* The rows at first
LEMMA FirstRows ==
    /\ LeaveInit => LeaveTypeOK
    /\ TicketInit => ticket \in [TicketIds -> TicketRecord]
    /\ MarksInit => MarksTyped
    /\ ThreadInit => reply \in [Replies -> ReplyRecord]
    /\ ScheduleInit => schedule \in [Schedules -> PastPlan(day)]
    /\ NoticesInit => subscription \in [Endpoints -> Staff \cup {None}]
  <1>1. LeaveInit => LeaveTypeOK
    BY DEF LeaveInit, LeaveTypeOK, NoLeave, LeaveStatuses
  <1>2. TicketInit => ticket \in [TicketIds -> TicketRecord]
    BY DEF TicketInit, NoTicket, TicketRecord, TicketStatuses
  <1>3. MarksInit => MarksTyped
    BY DEF MarksInit, MarksTyped
  <1>4. ThreadInit => reply \in [Replies -> ReplyRecord]
    BY DEF ThreadInit, NoReply, ReplyRecord
  <1>5. ScheduleInit => schedule \in [Schedules -> PastPlan(day)]
    BY DEF ScheduleInit, NoSchedule, PastPlan, Frequencies
  <1>6. NoticesInit => subscription \in [Endpoints -> Staff \cup {None}]
    BY DEF NoticesInit
  <1> QED BY <1>1, <1>2, <1>3, <1>4, <1>5, <1>6

LEMMA FirstIdeas ==
    ASSUME PipelineInit, calls = Most.ideas, \A s \in Slots : desk[s].pc = "idle"
    PROVE  IdeaTyped
  <1>1. idea = [i \in Ideas |-> NoIdea] /\ proposed = {}
    BY DEF PipelineInit
  <1>2. Cardinality(proposed) = 0 /\ Cardinality({}) = 0 /\ IsFiniteSet({})
    BY <1>1, FS_EmptySet
  <1>3. Commenting = {}
    BY DEF Commenting
  <1>4. calls \in Nat
    BY DEF Most
  <1>5. CommentBudget
    BY <1>1, <1>2, <1>3, <1>4 DEF CommentBudget, NoIdea
  <1>6. idea \in [Ideas -> IdeaRecord] /\ \A i \in Ideas : idea[i].ref <= Cardinality(proposed)
    BY <1>1, <1>2 DEF NoIdea, IdeaRecord
  <1> QED BY <1>5, <1>6 DEF IdeaTyped, CarriesIdea

LEMMA TypesInit == Init => TypesInv
  <1> SUFFICES ASSUME Init PROVE TypesInv
    OBVIOUS
  <1>1. /\ LeaveInit /\ TicketInit /\ PipelineInit /\ MarksInit /\ ThreadInit
        /\ ScheduleInit /\ NoticesInit
        /\ desk = [s \in Slots |-> Idle] /\ calls = Most[scene] /\ scene \in Scenes
    BY DEF Init, HandlersInit
  <1>2. \A s \in Slots : desk[s] = Idle
    BY <1>1
  <1>3. \A s \in Slots : desk[s].pc = "idle"
    BY <1>2, IdleIsIdle
  <1>4. OfficeInv /\ PlanInv /\ NoticeOffice
    BY <1>1, OfficeInit, PlanInit, NothingTold DEF NoticeOffice
  <1>5. calls \in Nat /\ calls <= Most[scene]
    BY <1>1 DEF Most, Scenes
  <1>6. DeskOK
    BY <1>1, <1>2, <1>5, IdleCommon DEF DeskOK, DeskIs
  <1>7. LeaveTyped /\ TicketTyped /\ MarksTyped /\ RepliesTyped /\ SubscriptionsTyped
    BY <1>1, <1>3, FirstRows DEF LeaveTyped, TicketTyped, RepliesTyped, SubscriptionsTyped,
       CarriesLeave, CarriesTicket, CarriesReply
  <1>8. PlansTyped
    <2>1. tick = NoTick
      BY <1>1 DEF ScheduleInit
    <2> QED BY <1>1, <1>3, <2>1, FirstRows DEF PlansTyped, CarriesPlan
  <1>9. scene = "ideas" => IdeaTyped
    BY <1>1, <1>3, FirstIdeas DEF Most
  <1> QED BY <1>4, <1>5, <1>6, <1>7, <1>8, <1>9 DEF TypesInv

\* A step of none
LEMMA TypesStay ==
    ASSUME TypesInv, UNCHANGED officeVars
    PROVE  /\ DeskOK' /\ calls' = calls /\ scene' = scene
           /\ (scene = "leave" => LeaveTyped)'
           /\ (scene = "tickets" => TicketTyped)'
           /\ (scene = "ideas" => IdeaTyped)'
           /\ (scene = "marks" => MarksTyped)'
           /\ (scene = "threads" => RepliesTyped)'
           /\ (scene = "schedules" => PlansTyped)'
           /\ (scene = "notices" => SubscriptionsTyped)'
  <1>1. UNCHANGED <<desk, calls, scene>>
    BY DEF officeVars, handlerVars
  <1>2. DeskOK'
    BY <1>1 DEF TypesInv, DeskOK, DeskIs, Common, Shaped
  <1>3. UNCHANGED <<leave, decided, emptied, stated, mixed>>
    BY DEF officeVars, leaveVars
  <1>4. UNCHANGED <<ticket, idea, proposed>>
    BY DEF officeVars, ticketVars, pipelineVars
  <1>5. UNCHANGED <<made, rows, reply, subscription>>
    BY DEF officeVars, markVars, threadVars, noticeVars
  <1>6. UNCHANGED <<schedule, tick, day>>
    BY DEF officeVars, scheduleVars
  <1>7. (scene = "leave" => LeaveTyped)'
    BY <1>1, <1>3 DEF TypesInv, LeaveTyped, LeaveTypeOK, CarriesLeave
  <1>8. (scene = "tickets" => TicketTyped)'
    BY <1>1, <1>4 DEF TypesInv, TicketTyped, CarriesTicket
  <1>9. (scene = "ideas" => IdeaTyped)'
    <2>1. Commenting' = Commenting /\ Most' = Most
      BY <1>1 DEF Commenting, Most
    <2>2. Cardinality(Commenting)' = Cardinality(Commenting)
          /\ Cardinality(proposed)' = Cardinality(proposed)
      BY <1>4, <2>1
    <2> QED BY <1>1, <1>4, <2>1, <2>2 DEF TypesInv, IdeaTyped, CommentBudget, CarriesIdea
  <1>10. /\ (scene = "marks" => MarksTyped)'
         /\ (scene = "threads" => RepliesTyped)'
         /\ (scene = "notices" => SubscriptionsTyped)'
    BY <1>1, <1>5 DEF TypesInv, MarksTyped, RepliesTyped, SubscriptionsTyped, CarriesReply
  <1>11. (scene = "schedules" => PlansTyped)'
    BY <1>1, <1>6 DEF TypesInv, PlansTyped, CarriesPlan
  <1> QED BY <1>1, <1>2, <1>7, <1>8, <1>9, <1>10, <1>11

LEMMA TypesStep ==
    ASSUME TypesInv, [Next]_officeVars
    PROVE  TypesInv'
  <1>1. OfficeInv' /\ PlanInv' /\ NoticeOffice'
    BY OfficeStep, PlanStep, NoticeOfficeStep DEF TypesInv
  <1>2. calls \in Nat /\ calls <= Most[scene] /\ Most[scene] \in Nat /\ Most' = Most
    BY DEF TypesInv, OfficeInv, DeskOK, Most, Scenes
  <1>3. CASE UNCHANGED officeVars
    BY <1>1, <1>2, <1>3, TypesStay DEF TypesInv
  <1>4. CASE Next
    <2>1. scene' = scene /\ scene \in Scenes /\ DeskOK
      BY <1>4 DEF Next, TypesInv, OfficeInv
    <2>2. /\ scene = "leave" => LeaveStep
          /\ scene = "marks" => MarkStep
          /\ scene = "threads" => ThreadStep
          /\ scene = "tickets" => TicketStep
          /\ scene = "ideas" => PipelineStep
          /\ scene = "schedules" => ScheduleStep
          /\ scene = "notices" => NoticeStep
      BY <1>4, <2>1 DEF Next, Scenes
    <2>3. /\ scene = "leave" => DeskOK' /\ calls' <= calls /\ LeaveTyped'
          /\ scene = "tickets" => DeskOK' /\ calls' <= calls /\ TicketTyped'
          /\ scene = "marks" => DeskOK' /\ calls' <= calls /\ MarksTyped'
      BY <2>1, <2>2, LeaveStepTyped, TicketStepTyped, MarkStepTyped DEF TypesInv
    <2>4. /\ scene = "ideas" => DeskOK' /\ calls' <= calls /\ IdeaTyped'
          /\ scene = "threads" => DeskOK' /\ calls' <= calls /\ RepliesTyped'
      BY <2>1, <2>2, IdeaStepTyped, ThreadStepTyped DEF TypesInv, OfficeInv, IdeaInv
    <2>5. /\ scene = "schedules" => DeskOK' /\ calls' <= calls /\ PlansTyped'
          /\ scene = "notices" => DeskOK' /\ calls' <= calls /\ SubscriptionsTyped'
      BY <2>1, <2>2, ScheduleStepTyped, NoticeStepTyped
         DEF TypesInv, PlanInv, ScheduleInv, NoticeOffice
    <2>6. DeskOK' /\ calls' <= calls
      BY <2>1, <2>3, <2>4, <2>5 DEF Scenes
    <2>7. calls' \in Nat
      BY <2>6 DEF DeskOK
    <2>8. calls' <= Most'[scene']
      BY <1>2, <2>1, <2>6, <2>7
    <2> QED BY <1>1, <2>1, <2>3, <2>4, <2>5, <2>6, <2>8 DEF TypesInv
  <1> QED BY <1>3, <1>4

LEMMA TicketsInRange ==
    ASSUME TicketRows, ticket \in [TicketIds -> TicketRecord]
    PROVE  ticket \in [TicketIds ->
               [ref : 0..Cardinality(TicketIds), dept : Depts \cup {None},
                creator : Staff \cup {None}, status : TicketStatuses]]
  <1>1. /\ Cardinality(TicketIds) \in Nat /\ Cardinality(Opened) \in Nat
        /\ Cardinality(Opened) <= Cardinality(TicketIds)
    BY OpenedFacts, TicketConstants, FS_Subset, FS_CardinalityType
  <1>2. ASSUME NEW t \in TicketIds
        PROVE  ticket[t].ref \in 0..Cardinality(TicketIds)
    <2>1. CASE t \in Opened
      <3>1. t \in 1..Cardinality(Opened) /\ ticket[t].ref = t
        BY <2>1 DEF TicketRows
      <3> QED BY <1>1, <3>1
    <2>2. CASE t \notin Opened
      <3>1. ticket[t].ref = 0
        BY <2>2 DEF Opened
      <3> QED BY <1>1, <3>1
    <2> QED BY <2>1, <2>2
  <1>3. ASSUME NEW t \in TicketIds
        PROVE  ticket[t] \in [ref : 0..Cardinality(TicketIds), dept : Depts \cup {None},
                              creator : Staff \cup {None}, status : TicketStatuses]
    BY <1>2 DEF TicketRecord
  <1> QED BY <1>3

LEMMA IdeasInRange ==
    ASSUME IdeaRows, IdeaTyped, calls \in Nat
    PROVE  idea \in [Ideas -> [ref : 0..Cardinality(Ideas), author : Staff \cup {None},
                               comments : 0..Most.ideas]]
  <1>1. /\ Cardinality(Ideas) \in Nat /\ Cardinality(proposed) \in Nat
        /\ Cardinality(proposed) <= Cardinality(Ideas)
    BY IdeaConstants, FS_Subset, FS_CardinalityType DEF IdeaRows
  <1>2. Cardinality(Commenting) \in Nat /\ Most.ideas \in Nat
    BY FS_CardinalityType DEF IdeaTyped, CommentBudget, Most
  <1>3. ASSUME NEW i \in Ideas
        PROVE  idea[i] \in [ref : 0..Cardinality(Ideas), author : Staff \cup {None},
                            comments : 0..Most.ideas]
    <2>1. idea[i] \in IdeaRecord /\ idea[i].ref \in Nat /\ idea[i].comments \in Nat
      BY DEF IdeaTyped, IdeaRecord
    <2>2. idea[i].ref \in 0..Cardinality(Ideas)
      BY <1>1, <2>1 DEF IdeaTyped
    <2>3. idea[i].comments + Cardinality(Commenting) + calls <= Most.ideas
      BY DEF IdeaTyped, CommentBudget
    <2>4. idea[i].comments \in 0..Most.ideas
      BY <1>2, <2>1, <2>3
    <2> QED BY <2>1, <2>2, <2>4 DEF IdeaRecord
  <1> QED BY <1>3 DEF IdeaTyped

LEMMA NoIdeasInRange ==
    ASSUME PipelineInit
    PROVE  idea \in [Ideas -> [ref : 0..Cardinality(Ideas), author : Staff \cup {None},
                               comments : 0..Most.ideas]]
  <1>1. 0 \in 0..Cardinality(Ideas) /\ 0 \in 0..Most.ideas
    BY IdeaConstants, FS_CardinalityType DEF Most
  <1> QED BY <1>1 DEF PipelineInit, NoIdea

LEMMA RepliesInRange ==
    ASSUME ThreadRows, reply \in [Replies -> ReplyRecord]
    PROVE  /\ reply \in [Replies -> [author : Staff \cup {None}, at : 0..clock]]
           /\ lastRead \in [Staff -> 0..clock]
  <1>1. clock \in Nat
    BY DEF ThreadRows
  <1>2. ASSUME NEW x \in Replies
        PROVE  reply[x] \in [author : Staff \cup {None}, at : 0..clock]
    <2>1. x \in Nat /\ reply[x] \in ReplyRecord
      BY ReplyIds
    <2>2. reply[x].at \in 0..clock
      BY <1>1, <2>1 DEF ThreadRows
    <2> QED BY <2>1, <2>2 DEF ReplyRecord
  <1>3. \A u \in Staff : lastRead[u] \in 0..clock
    BY <1>1 DEF ThreadRows
  <1> QED BY <1>2, <1>3 DEF ThreadRows

LEMMA TypesSuffice == ASSUME TypesInv PROVE TypeOK
  <1>1. scene \in Scenes /\ calls \in 0..Most[scene] /\ DeskOK
    BY DEF TypesInv, OfficeInv, DeskOK, Most, Scenes
  <1>2. LeaveTypeOK
    BY FirstRows DEF TypesInv, OfficeInv, LeaveTyped
  <1>3. ticket \in [TicketIds ->
            [ref : 0..Cardinality(TicketIds), dept : Depts \cup {None},
             creator : Staff \cup {None}, status : TicketStatuses]]
    BY FirstRows, TicketRowsInit, TicketsInRange DEF TypesInv, OfficeInv, TicketInv, TicketTyped
  <1>4. idea \in [Ideas -> [ref : 0..Cardinality(Ideas), author : Staff \cup {None},
                            comments : 0..Most.ideas]]
    BY <1>1, IdeasInRange, NoIdeasInRange DEF TypesInv, OfficeInv, IdeaInv, DeskOK
  <1>5. rows \in [Kinds -> [Staff -> SUBSET (1..made)]]
    BY FirstRows DEF TypesInv, OfficeInv, MarksTyped
  <1>6. /\ reply \in [Replies -> [author : Staff \cup {None}, at : 0..clock]]
        /\ lastRead \in [Staff -> 0..clock]
    BY FirstRows, ThreadRowsInit, RepliesInRange DEF TypesInv, OfficeInv, ThreadInv, RepliesTyped
  <1>7. /\ schedule \in [Schedules -> [live : BOOLEAN, frequency : Frequencies, dayOfWeek : 0..2,
                                       active : BOOLEAN, lastRun : 0..day]]
        /\ tick.left \subseteq Schedules /\ unsure \subseteq Schedules
    <2>1. CASE scene = "schedules"
      <3>1. PlansTyped /\ PlanTypes
        BY <2>1 DEF TypesInv, PlanInv, ScheduleInv
      <3>2. tick.left \subseteq Schedules
        BY <3>1 DEF PlanTypes, NoTick
      <3> QED BY <3>1, <3>2 DEF PlansTyped, PlanTypes, PastPlan
    <2>2. CASE scene # "schedules"
      <3>1. ScheduleInit
        BY <2>2 DEF TypesInv, PlanInv
      <3> QED BY <3>1, FirstRows DEF ScheduleInit, PastPlan, NoTick
    <2> QED BY <2>1, <2>2
  <1>8. NoticeRows /\ subscription \in [Endpoints -> Staff \cup {None}]
    <2>1. CASE scene = "notices"
      BY <2>1 DEF TypesInv, NoticeOffice, NoticeInv, SubscriptionsTyped
    <2>2. CASE scene # "notices"
      <3>1. NoticesInit
        BY <2>2 DEF TypesInv, NoticeOffice
      <3>2. NoticeRows
        BY <3>1, NoticeFacts DEF NoticesInit, NoticeRows, Shown, AnnouncementRecord, MessageRecord
      <3> QED BY <3>1, <3>2, FirstRows
    <2> QED BY <2>1, <2>2
  <1>9. /\ notices \in [NoticeIds -> [live : BOOLEAN, to : Staff \cup {None}, type : Types,
                                      isRead : BOOLEAN, related : BOOLEAN]]
        /\ announcement.selected \subseteq Staff /\ message.to \subseteq Staff
    BY <1>8 DEF NoticeRows, NoticeRecord, AnnouncementRecord, MessageRecord
  <1>10. \A s \in Slots : /\ desk[s].by \in Staff \cup {None, Ghost} /\ desk[s].todo \subseteq Staff
                          /\ desk[s].pc = "idle" <=> desk[s] = Idle
    BY <1>1 DEF DeskOK, Common
  <1> QED BY <1>1, <1>2, <1>3, <1>4, <1>5, <1>6, <1>7, <1>8, <1>9, <1>10 DEF TypeOK

\* The rows of every service have their types whatever its handlers save: nobody
\* supervises or is told who is not staff, no id is of another table, no time is
\* in the future, and references and comments are within their numbers
\* (LeaveRequestService, TicketingService, PipelineService, ChatService,
\* NotificationService and the rest)
THEOREM OfficeTypeCorrect == Spec => []TypeOK
  <1>1. Init => TypesInv
    BY TypesInit
  <1>2. TypesInv /\ [Next]_officeVars => TypesInv'
    BY TypesStep
  <1>3. TypesInv => TypeOK
    BY TypesSuffice
  <1> QED BY <1>1, <1>2, <1>3, PTL DEF Spec

=============================================================================
