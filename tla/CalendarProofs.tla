--------------------------- MODULE CalendarProofs ---------------------------
(***************************************************************************)
(* The calendar, for every number of staff, events, handlers, requests and *)
(* restarts.  Typed is TypeOK.  The second invariant says what a handler   *)
(* knows once checkConflict has asked: whatever stands in its way now was  *)
(* saved by somebody else since.  Removals stay because a removed event    *)
(* that no handler carries is in no handler's reach; reminders match their *)
(* row because a lead that was set is the row's, and passed timers went.   *)
(***************************************************************************)
EXTENDS Calendar, TLAPS

LEMMA NoRowTyped == NoRow \in Row
BY CalendarAssumption DEF NoRow, Row, OrNone

LEMMA IdleTyped == Idle \in Request
BY NoRowTyped DEF Idle, Request, OrNone

LEMMA GeneratedTyped == ASSUME NEW f \in Frequencies PROVE GeneratedRule(f) \in Rule
BY CalendarAssumption DEF GeneratedRule, Rule, OrNone

LEMMA EndingTyped ==
    ASSUME NEW rule \in Rule, NEW end \in OrNone(Nat)
    PROVE  Ending(rule, end) \in Rule
<1>1. CASE end = None
  BY <1>1 DEF Ending
<1>2. CASE end # None
  <2>1. end \in Nat /\ Day \in Nat \ {0}
    BY <1>2, CalendarAssumption DEF OrNone
  <2>2. (end \div Day) * Day \in Int
    BY <2>1
  <2> QED BY <1>2, <2>2 DEF Ending, Rule, OrNone
<1> QED BY <1>1, <1>2

LEMMA BodyTyped ==
    /\ \A b \in Updates : b \in Body
    /\ \A b \in Creates : b \in Body /\ b.start \in Nat /\ b.stop \in Nat
BY CalendarAssumption DEF Body, OrNone

LEMMA BookedTyped ==
    ASSUME NEW body \in Creates, NEW u \in Staff
    PROVE  Booked(body, u) \in Row
<1> DEFINE recurring == Given(body.recurring, FALSE)
           rule == IF recurring /\ body.freq # None /\ body.rule = None
                   THEN Ending(GeneratedRule(body.freq), body.end)
                   ELSE body.rule
<1>1. /\ body.start \in Nat /\ body.stop \in Nat /\ body.end \in OrNone(Nat)
      /\ body.freq \in OrNone(Frequencies) /\ body.rule \in OrNone(Rule)
      /\ body.recurring \in OrNone(BOOLEAN) /\ body.who \in SUBSET Staff
  BY BodyTyped DEF Body
<1>2. recurring \in BOOLEAN
  BY <1>1 DEF Given, OrNone
<1>3. rule \in OrNone(Rule)
  <2>1. body.freq # None => body.freq \in Frequencies
    BY <1>1 DEF OrNone
  <2> QED BY <1>1, <2>1, EndingTyped, GeneratedTyped DEF OrNone
<1>4. Invited(body.who, u) \in SUBSET Staff
  BY <1>1 DEF Invited
<1>5. u \in OrNone(Staff)
  BY DEF OrNone
<1> HIDE DEF recurring, rule
<1>6. Booked(body, u) =
        [by |-> u, who |-> Invited(body.who, u), start |-> body.start,
         stop |-> body.stop, recurring |-> recurring, freq |-> body.freq,
         rule |-> rule, end |-> body.end]
  BY DEF Booked, recurring, rule
<1> QED BY <1>1, <1>2, <1>3, <1>4, <1>5, <1>6 DEF Row

LEMMA EditedTyped ==
    ASSUME NEW row \in Row, NEW body \in Updates
    PROVE  Edited(row, body) \in Row
<1> DEFINE recurring == Given(body.recurring, row.recurring)
           freq == Given(body.freq, row.freq)
           rule == IF recurring /\ freq # None /\ body.rule = None
                   THEN GeneratedRule(freq) ELSE Given(body.rule, row.rule)
           who == IF body.invites THEN Invited(body.who, row.by) ELSE row.who
           start == Given(body.start, row.start)
           stop == Given(body.stop, row.stop)
           end == Given(body.end, row.end)
<1>1. /\ body.start \in OrNone(Nat) /\ body.stop \in OrNone(Nat)
      /\ body.end \in OrNone(Nat)
      /\ body.freq \in OrNone(Frequencies) /\ body.rule \in OrNone(Rule)
      /\ body.recurring \in OrNone(BOOLEAN) /\ body.who \in SUBSET Staff
  BY BodyTyped DEF Body
<1>2. /\ row.start \in Nat /\ row.stop \in Nat /\ row.end \in OrNone(Nat)
      /\ row.freq \in OrNone(Frequencies) /\ row.rule \in OrNone(Rule)
      /\ row.recurring \in BOOLEAN /\ row.who \in SUBSET Staff
      /\ row.by \in OrNone(Staff)
  BY DEF Row
<1>3. recurring \in BOOLEAN
  BY <1>1, <1>2 DEF Given, OrNone
<1>4. freq \in OrNone(Frequencies)
  BY <1>1, <1>2 DEF Given
<1>5. start \in Nat /\ stop \in Nat /\ end \in OrNone(Nat)
  BY <1>1, <1>2 DEF Given, OrNone
<1>6. who \in SUBSET Staff
  BY <1>1, <1>2 DEF Invited
<1>7. rule \in OrNone(Rule)
  <2> HIDE DEF recurring, freq
  <2>1. freq # None => freq \in Frequencies
    BY <1>4 DEF OrNone
  <2>2. Given(body.rule, row.rule) \in OrNone(Rule)
    BY <1>1, <1>2 DEF Given
  <2> QED BY <2>1, <2>2, GeneratedTyped DEF OrNone
<1> HIDE DEF recurring, freq, rule, who, start, stop, end
<1>8. Edited(row, body) =
        [by |-> row.by, who |-> who, start |-> start, stop |-> stop,
         recurring |-> recurring, freq |-> freq, rule |-> rule, end |-> end]
  BY DEF Edited, recurring, freq, rule, who, start, stop, end
<1> QED BY <1>2, <1>3, <1>4, <1>5, <1>6, <1>7, <1>8 DEF Row

-----------------------------------------------------------------------------
(* Timers *)

LEMMA FiresAtTyped ==
    ASSUME now \in Nat, NEW t \in Nat PROVE FiresAt(t) \in Nat
BY DEF FiresAt

LEMMA RemindersTyped ==
    ASSUME now \in Nat, NEW r \in Request, r.ev \in Events
    PROVE  Reminders(r) \subseteq Timer
<1> SUFFICES ASSUME NEW l \in Leads, r.row.start - l > now
             PROVE  [due |-> FiresAt(r.row.start - l), ev |-> r.ev,
                     kind |-> "reminder", lead |-> l, who |-> r.row.who]
                        \in Timer
  BY DEF Reminders
<1>1. r.row.start \in Nat /\ r.row.who \in SUBSET Staff /\ l \in Nat
  BY CalendarAssumption DEF Request, Row
<1>2. r.row.start - l \in Nat
  BY <1>1
<1>3. FiresAt(r.row.start - l) \in Nat
  BY <1>2, FiresAtTyped
<1> QED BY <1>1, <1>3 DEF Timer

LEMMA NoticesTyped ==
    ASSUME now \in Nat, NEW r \in Request, r.ev \in Events,
           r.row.rule # None, NEW exact \in BOOLEAN
    PROVE  Notices(r, exact) \subseteq Timer
<1>1. /\ r.row.who \in SUBSET Staff
      /\ r.row.rule.every \in Nat /\ r.row.rule.count \in Nat
  BY DEF Request, Row, Rule, OrNone
<1>2. ASSUME NEW t \in Occurrences(r.row.rule, now, now + SixMonths, exact),
             t > now
      PROVE  [due |-> FiresAt(t), ev |-> r.ev, kind |-> "notice", lead |-> 0,
              who |-> r.row.who] \in Timer
  <2>1. PICK k \in 0..(r.row.rule.count - 1) : t = now + k * r.row.rule.every
    BY DEF Occurrences
  <2>2. k \in Nat /\ k * r.row.rule.every \in Int
    BY <1>1
  <2>3. t \in Nat
    BY <1>2, <2>1, <2>2
  <2>4. FiresAt(t) \in Nat
    BY <2>3, FiresAtTyped
  <2> QED BY <1>1, <2>4 DEF Timer
<1> QED BY <1>2 DEF Notices
-----------------------------------------------------------------------------
(* Typing *)

LEMMA InitTyped == Init => TypeOK
<1> SUFFICES ASSUME Init PROVE TypeOK
  OBVIOUS
<1>1. now \in 0..Horizon
  BY CalendarAssumption DEF Init
<1>2. rows \in [Events -> Row] /\ used \subseteq Events
  BY NoRowTyped, CalendarAssumption DEF Init
<1>4. req \in [Slots -> Request]
  BY IdleTyped DEF Init
<1>3. left \in [requests : 0..MaxRequests, restarts : 0..MaxRestarts]
  BY CalendarAssumption DEF Init
<1> QED BY <1>1, <1>2, <1>3, <1>4 DEF Init, TypeOK, OrNone

LEMMA ReceiveTyped ==
    ASSUME TypeOK, NEW s \in Slots, NEW r \in Request, Receive(s, r)
    PROVE  TypeOK'
<1>1. left' \in [requests : 0..MaxRequests, restarts : 0..MaxRestarts]
  BY CalendarAssumption DEF TypeOK, Receive
<1>2. req' \in [Slots -> Request]
  BY DEF TypeOK, Receive, Goto
<1> QED BY <1>1, <1>2 DEF TypeOK, Receive, history

LEMMA CreateTyped ==
    ASSUME TypeOK, NEW s \in Slots, Create(s) PROVE TypeOK'
<1>1. PICK u \in Staff, body \in Creates :
        LET r == [Idle EXCEPT !.op = "create", !.row = Booked(body, u),
                              !.ids = body.who]
        IN  Receive(s, [r EXCEPT !.pc = AfterQuery(r)])
  BY DEF Create
<1> DEFINE r == [Idle EXCEPT !.op = "create", !.row = Booked(body, u),
                             !.ids = body.who]
<1>2. r \in Request
  <2>1. body.who \in SUBSET Staff
    BY BodyTyped DEF Body
  <2> QED BY <2>1, IdleTyped, BookedTyped DEF Request
<1>3. [r EXCEPT !.pc = AfterQuery(r)] \in Request
  <2> HIDE DEF r
  <2> QED BY <1>2 DEF Request, AfterQuery
<1> QED BY <1>1, <1>3, ReceiveTyped

LEMMA UpdateTyped ==
    ASSUME TypeOK, NEW s \in Slots, Update(s) PROVE TypeOK'
<1>1. PICK e \in Events, body \in Updates :
        LET row == Edited(rows[e], body)
            r == [Idle EXCEPT !.op = "update", !.ev = e, !.row = row,
                              !.ids = row.who]
        IN  Receive(s, [r EXCEPT !.pc = AfterQuery(r)])
  BY DEF Update
<1> DEFINE row == Edited(rows[e], body)
           r == [Idle EXCEPT !.op = "update", !.ev = e, !.row = row,
                             !.ids = row.who]
<1>2. row \in Row
  BY EditedTyped DEF TypeOK
<1>3. r \in Request
  <2> HIDE DEF row
  <2>1. row.who \in SUBSET Staff
    BY <1>2 DEF Row
  <2> QED BY <2>1, <1>2, IdleTyped DEF Request, OrNone
<1>4. [r EXCEPT !.pc = AfterQuery(r)] \in Request
  <2> HIDE DEF r
  <2> QED BY <1>3 DEF Request, AfterQuery
<1> QED BY <1>1, <1>4, ReceiveTyped

LEMMA RemoveTyped ==
    ASSUME TypeOK, NEW s \in Slots, Remove(s) PROVE TypeOK'
<1>1. PICK e \in Events :
        Receive(s, [Idle EXCEPT !.op = "remove", !.pc = "delete", !.ev = e])
  BY DEF Remove
<1>2. [Idle EXCEPT !.op = "remove", !.pc = "delete", !.ev = e] \in Request
  BY IdleTyped DEF Request, OrNone
<1> QED BY <1>1, <1>2, ReceiveTyped

LEMMA QueryTyped ==
    ASSUME TypeOK, NEW s \in Slots, Query(s) PROVE TypeOK'
<1>1. PICK clash \in BOOLEAN :
        req' = [req EXCEPT ![s] = [req[s] EXCEPT !.pc = "series",
                                     !.wrote = {}, !.clash = clash]]
  <2>1. (\E e \in Events : Clashes(e, req[s])) \in BOOLEAN
    OBVIOUS
  <2> QED BY <2>1, Zenon DEF Query, Goto
<1>2. [req[s] EXCEPT !.pc = "series", !.wrote = {}, !.clash = clash]
        \in Request
  <2>1. PICK r \in Request : r = req[s]
    BY DEF TypeOK
  <2>2. [r EXCEPT !.pc = "series"] \in Request
    BY DEF Request
  <2>3. PICK q \in Request : q = [r EXCEPT !.pc = "series", !.wrote = {}]
    BY <2>2 DEF Request
  <2>4. [q EXCEPT !.clash = clash] \in Request
    BY DEF Request
  <2>5. [q EXCEPT !.clash = clash]
          = [r EXCEPT !.pc = "series", !.wrote = {}, !.clash = clash]
    BY <2>3
  <2> QED BY <2>1, <2>4, <2>5
<1>3. req' \in [Slots -> Request]
  BY <1>1, <1>2 DEF TypeOK
<1> QED BY <1>3 DEF TypeOK, Query, history

LEMMA SeriesTyped ==
    ASSUME TypeOK, NEW s \in Slots, Series(s) PROVE TypeOK'
<1>1. \/ req' = [req EXCEPT ![s] = Idle]
      \/ req' = [req EXCEPT ![s] = [req[s] EXCEPT !.pc = "save"]]
  BY DEF Series, Goto, Done
<1>2. [req[s] EXCEPT !.pc = "save"] \in Request
  BY DEF TypeOK, Request
<1>3. req' \in [Slots -> Request]
  BY <1>1, <1>2, IdleTyped DEF TypeOK
<1> QED BY <1>3 DEF TypeOK, Series, history

LEMMA MergedTyped ==
    ASSUME NEW r \in Request, NEW row \in Row PROVE Merged(row, r) \in Row
<1> DEFINE who == (row.who \ (r.was.who \ r.row.who)) \cup Joins(r)
           pick(k) == IF r.row[k] = r.was[k] THEN row[k] ELSE r.row[k]
<1>1. r.row \in Row
  BY DEF Request
<1>2. who \in SUBSET Staff
  BY <1>1 DEF Joins, Row
<1>3. Merged(row, r) = [k \in DOMAIN row |-> IF k = "who" THEN who ELSE pick(k)]
  BY DEF Merged
<1>4. DOMAIN row = {"by", "who", "start", "stop", "recurring", "freq", "rule", "end"}
  BY DEF Row
<1> HIDE DEF who
<1>5. Merged(row, r) = [by |-> pick("by"), who |-> who, start |-> pick("start"),
          stop |-> pick("stop"), recurring |-> pick("recurring"), freq |-> pick("freq"),
          rule |-> pick("rule"), end |-> pick("end")]
  BY <1>3, <1>4
<1>6. /\ pick("by") \in OrNone(Staff) /\ pick("start") \in Nat /\ pick("stop") \in Nat
      /\ pick("recurring") \in BOOLEAN /\ pick("freq") \in OrNone(Frequencies)
      /\ pick("rule") \in OrNone(Rule) /\ pick("end") \in OrNone(Nat)
  BY <1>1 DEF Row
<1> HIDE DEF pick
<1> QED BY <1>2, <1>5, <1>6 DEF Row

LEMMA PutsTyped ==
    ASSUME TypeOK, NEW s \in Slots, NEW e \in Events, NEW x \in Row, Puts(s, e, x)
    PROVE  TypeOK'
<1>2. rows' \in [Events -> Row] /\ used' \subseteq Events /\ mixed' \subseteq Events
  BY DEF TypeOK, Puts
<1>3. req' \in [Slots -> Request]
  <2>1. ASSUME NEW q \in Slots
        PROVE  /\ [req[q] EXCEPT !.pc = "schedule", !.ev = e, !.was = NoRow] \in Request
               /\ [req[q] EXCEPT !.wrote = @ \cup {e}] \in Request
               /\ [req[q] EXCEPT !.wrote = @] \in Request
    BY NoRowTyped DEF TypeOK, Request, OrNone
  <2> QED BY <2>1 DEF Puts
<1>4. later' \in [Events -> SUBSET Events]
  <2>1. req[s].wrote \in SUBSET Events
    BY DEF TypeOK, Request
  <2>2. \A f \in Events : later[f] \in SUBSET Events
    BY DEF TypeOK
  <2> QED BY <2>1, <2>2 DEF Puts
<1>5. set' \in [Events -> OrNone(Nat)]
  BY DEF TypeOK, OrNone, Puts
<1> QED BY <1>2, <1>3, <1>4, <1>5 DEF TypeOK, Puts

LEMMA InsertTyped ==
    ASSUME TypeOK, NEW s \in Slots, Insert(s) PROVE TypeOK'
<1>1. req[s].row \in Row
  BY DEF TypeOK, Request
<1> QED BY <1>1, PutsTyped DEF Insert

LEMMA LookTyped ==
    ASSUME TypeOK, NEW s \in Slots, LookAtEvent(s) PROVE TypeOK'
<1>1. PICK e \in Events : req' = [req EXCEPT ![s] = [req[s] EXCEPT !.pc = "write", !.was = rows[e]]]
  BY DEF LookAtEvent, Goto
<1>2. req[s] \in Request /\ rows[e] \in Row
  BY DEF TypeOK
<1>3. [req[s] EXCEPT !.pc = "write", !.was = rows[e]] \in Request
  BY <1>2 DEF Request
<1> QED BY <1>1, <1>3 DEF TypeOK, LookAtEvent, history

\* The write of a save puts a row, finds none to write to, or is refused
LEMMA SaveCases ==
    ASSUME TypeOK, NEW s \in Slots, Save(s)
    PROVE  \E e \in Events :
             /\ e = req[s].ev /\ req[s].pc = "write"
             /\ \/ \E x \in Row : Puts(s, e, x) /\ (req[s].was = NoRow \/ Live(e))
                \/ /\ Goto(s, [req[s] EXCEPT !.pc = "schedule", !.was = NoRow])
                   /\ ~Live(e) /\ req[s].was # NoRow
                   /\ UNCHANGED <<now, rows, used, timers, left, history>>
                \/ Done(s) /\ UNCHANGED <<now, rows, used, timers, left, history>>
<1>1. req[s] \in Request /\ req[s].row \in Row
  BY DEF TypeOK, Request
<1>2. \A e \in Events : Merged(rows[e], req[s]) \in Row
  BY <1>1, MergedTyped DEF TypeOK
<1> QED BY <1>1, <1>2, SMTT(30) DEF Save

LEMMA SaveTyped ==
    ASSUME TypeOK, NEW s \in Slots, Save(s) PROVE TypeOK'
<1>1. PICK e \in Events :
        \/ \E x \in Row : Puts(s, e, x)
        \/ /\ Goto(s, [req[s] EXCEPT !.pc = "schedule", !.was = NoRow])
           /\ UNCHANGED <<now, rows, used, timers, left, history>>
        \/ Done(s) /\ UNCHANGED <<now, rows, used, timers, left, history>>
  BY SaveCases
<1>2. CASE \E x \in Row : Puts(s, e, x)
  BY <1>2, PutsTyped
<1>3. CASE /\ Goto(s, [req[s] EXCEPT !.pc = "schedule", !.was = NoRow])
           /\ UNCHANGED <<now, rows, used, timers, left, history>>
  <2>1. [req[s] EXCEPT !.pc = "schedule", !.was = NoRow] \in Request
    <3>1. req[s] \in Request
      BY DEF TypeOK
    <3>2. QED
      BY <3>1, NoRowTyped DEF Request
  <2> QED BY <1>3, <2>1 DEF TypeOK, Goto, history
<1>4. CASE Done(s) /\ UNCHANGED <<now, rows, used, timers, left, history>>
  BY <1>4, IdleTyped DEF TypeOK, Done, Goto, history
<1> QED BY <1>1, <1>2, <1>3, <1>4

LEMMA DeleteTyped ==
    ASSUME TypeOK, NEW s \in Slots, Delete(s) PROVE TypeOK'
<1>1. rows' \in [Events -> Row]
  BY NoRowTyped DEF TypeOK, Delete
<1>2. req' \in [Slots -> Request]
  BY IdleTyped DEF TypeOK, Delete, Done, Goto
<1>3. /\ later' \in [Events -> SUBSET Events]
      /\ set' \in [Events -> OrNone(Nat)]
  BY DEF TypeOK, Delete, OrNone
<1> QED BY <1>1, <1>2, <1>3 DEF TypeOK, Delete

LEMMA ScheduleTyped ==
    ASSUME TypeOK, NEW s \in Slots, Schedule(s), req[s].ev \in Events
    PROVE  TypeOK'
<1>1. req[s] \in Request /\ now \in Nat
  BY CalendarAssumption DEF TypeOK
<1>2. Reminders(req[s]) \subseteq Timer
  BY <1>1, RemindersTyped
<1>3. PICK exact \in BOOLEAN :
        timers' = timers
            \cup (IF req[s].op = "create" THEN Reminders(req[s]) ELSE {})
            \cup (IF req[s].row.recurring /\ req[s].row.rule # None
                  THEN Notices(req[s], exact) ELSE {})
  BY DEF Schedule
<1>4. req[s].row.rule # None => Notices(req[s], exact) \subseteq Timer
  BY <1>1, NoticesTyped
<1>5. timers' \subseteq Timer
  BY <1>2, <1>3, <1>4 DEF TypeOK
<1>6. req' \in [Slots -> Request]
  BY IdleTyped DEF TypeOK, Schedule, Done, Goto
<1>7. set' \in [Events -> OrNone(Nat)]
  <2>1. set' = set \/ set' = [set EXCEPT ![req[s].ev] = now]
    BY DEF Schedule
  <2> QED BY <1>1, <2>1 DEF TypeOK, OrNone
<1> QED BY <1>5, <1>6, <1>7 DEF TypeOK, Schedule

LEMMA WorldTyped ==
    ASSUME TypeOK, (\E t \in timers : Fire(t)) \/ Tick \/ Restart
    PROVE  TypeOK'
<1>1. CASE \E t \in timers : Fire(t)
  BY <1>1 DEF TypeOK, Fire, history
<1>2. CASE Tick
  BY <1>2, CalendarAssumption DEF TypeOK, Tick, history
<1>3. CASE Restart
  <2>1. left' \in [requests : 0..MaxRequests, restarts : 0..MaxRestarts]
    BY <1>3, CalendarAssumption DEF TypeOK, Restart
  <2>2. req' \in [Slots -> Request]
    BY <1>3, IdleTyped DEF Restart
  <2>3. set' \in [Events -> OrNone(Nat)]
    BY <1>3 DEF Restart, OrNone
  <2> QED BY <1>3, <2>1, <2>2, <2>3 DEF TypeOK, Restart
<1> QED BY <1>1, <1>2, <1>3
-----------------------------------------------------------------------------
(* What a handler knows.  A handler that sets timers has an event; one that *)
(* creates has none before; whoever a row invites has been asked about; and *)
(* after the conflict check, what is in the way has been saved since.       *)

Checked(r) == \/ r.pc = "series" /\ ~r.clash
              \/ r.pc \in {"save", "write"}

HandlerOK(r) ==
    /\ r.pc = "write" => r.op = "update"
    /\ r.pc \in {"schedule", "delete"} => r.ev \in Events
    /\ r.pc \in {"query", "series", "save", "write"} =>
           /\ r.row.who \subseteq r.ids
           /\ r.op = "create" => r.ev = None
    /\ Checked(r) => \A f \in Events : Clashes(f, r) => f \in r.wrote

Booking ==
    /\ TypeOK
    /\ \A s \in Slots : HandlerOK(req[s])
    /\ DoubleBookingIsARace /\ OwnTimeIsRespected

LEMMA IdleHandlerOK == HandlerOK(Idle)
BY DEF HandlerOK, Idle, Checked

LEMMA InitBooking == Init => Booking
<1> SUFFICES ASSUME Init PROVE Booking
  OBVIOUS
<1>1. \A s \in Slots : HandlerOK(req[s])
  BY IdleHandlerOK DEF Init
<1>2. \A e, f \in Events : e # f => ~Live(e) \/ ~Live(f)
  BY DEF Init, Live
<1> QED BY <1>1, <1>2, InitTyped
        DEF Booking, DoubleBookingIsARace, OwnTimeIsRespected, Overlap

\* The table and its history unchanged: what was true of them still is
LEMMA SameTable ==
    ASSUME DoubleBookingIsARace, OwnTimeIsRespected,
           rows' = rows, later' = later, mixed' = mixed
    PROVE  DoubleBookingIsARace' /\ OwnTimeIsRespected'
BY DEF DoubleBookingIsARace, OwnTimeIsRespected, Overlap, Live

LEMMA SameHandler ==
    ASSUME rows' = rows, NEW q \in Slots, NEW r, HandlerOK(r), req'[q] = r
    PROVE  HandlerOK(req[q])'
BY DEF HandlerOK, Checked, Clashes, TakesTimeOf, Concerns, Live

\* Nobody is asked about: nothing is in the way
LEMMA NobodyAsked ==
    ASSUME NEW r, r.ids = {}, NEW e PROVE ~Clashes(e, r)
BY DEF Clashes, Concerns

\* A step that changes the handler in slot s only
LEMMA OwnStep ==
    ASSUME Booking, NEW s \in Slots, NEW r, HandlerOK(r),
           req' = [req EXCEPT ![s] = r], rows' = rows, later' = later, mixed' = mixed,
           TypeOK'
    PROVE  Booking'
<1>1. ASSUME NEW q \in Slots PROVE HandlerOK(req[q])'
  <2>1. CASE q = s
    BY <2>1, SameHandler DEF Booking, TypeOK
  <2>2. CASE q # s
    <3>1. req'[q] = req[q] /\ HandlerOK(req[q])
      BY <2>2 DEF Booking, TypeOK
    <3> QED BY <3>1 DEF HandlerOK, Checked, Clashes, TakesTimeOf, Concerns, Live
  <2> QED BY <2>1, <2>2
<1> QED BY <1>1, SameTable DEF Booking

LEMMA ReceiveBooking ==
    ASSUME Booking, NEW s \in Slots, NEW r, HandlerOK(r), Receive(s, r), TypeOK'
    PROVE  Booking'
<1>1. req' = [req EXCEPT ![s] = r] /\ rows' = rows /\ later' = later /\ mixed' = mixed
  BY DEF Receive, Goto, history
<1> QED BY <1>1, OwnStep

\* A handler that starts with its row and its question
LEMMA AskingOK ==
    ASSUME NEW r \in Request, r.row.who \subseteq r.ids,
           r.op = "create" => r.ev = None
    PROVE  HandlerOK([r EXCEPT !.pc = AfterQuery(r)])
<1> DEFINE q == [r EXCEPT !.pc = AfterQuery(r)]
<1>1. /\ q.row = r.row /\ q.ids = r.ids /\ q.op = r.op /\ q.ev = r.ev
      /\ q.pc = AfterQuery(r)
  BY DEF Request
<1> HIDE DEF q
<1>2. CASE r.ids = {}
  <2>1. \A f \in Events : ~Clashes(f, q)
    BY <1>1, <1>2, NobodyAsked
  <2> QED BY <1>1, <1>2, <2>1 DEF HandlerOK, AfterQuery, q
<1>3. CASE r.ids # {}
  BY <1>1, <1>3 DEF HandlerOK, AfterQuery, Checked, q
<1> QED BY <1>2, <1>3

LEMMA CreateBooking ==
    ASSUME Booking, NEW s \in Slots, Create(s) PROVE Booking'
<1>1. TypeOK'
  BY CreateTyped DEF Booking
<1>2. PICK u \in Staff, body \in Creates :
        LET r == [Idle EXCEPT !.op = "create", !.row = Booked(body, u),
                              !.ids = body.who]
        IN  Receive(s, [r EXCEPT !.pc = AfterQuery(r)])
  BY DEF Create
<1> DEFINE r == [Idle EXCEPT !.op = "create", !.row = Booked(body, u),
                             !.ids = body.who]
<1>3. r \in Request
  <2>1. body.who \in SUBSET Staff
    BY BodyTyped DEF Body
  <2> QED BY <2>1, IdleTyped, BookedTyped DEF Request
<1>4. /\ r.row = Booked(body, u) /\ r.ids = body.who /\ r.ev = None
  BY DEF Idle
<1>5. Booked(body, u).who \subseteq body.who
  BY DEF Booked, Invited
<1>6. HandlerOK([r EXCEPT !.pc = AfterQuery(r)])
  <2> HIDE DEF r
  <2> QED BY <1>3, <1>4, <1>5, AskingOK
<1> QED BY <1>1, <1>2, <1>6, ReceiveBooking

LEMMA UpdateBooking ==
    ASSUME Booking, NEW s \in Slots, Update(s) PROVE Booking'
<1>1. TypeOK'
  BY UpdateTyped DEF Booking
<1>2. PICK e \in Events, body \in Updates :
        LET row == Edited(rows[e], body)
            r == [Idle EXCEPT !.op = "update", !.ev = e, !.row = row,
                              !.ids = row.who]
        IN  Receive(s, [r EXCEPT !.pc = AfterQuery(r)])
  BY DEF Update
<1> DEFINE row == Edited(rows[e], body)
           r == [Idle EXCEPT !.op = "update", !.ev = e, !.row = row,
                             !.ids = row.who]
<1>3. row \in Row
  BY EditedTyped DEF TypeOK, Booking
<1> HIDE DEF row
<1>4. r \in Request
  <2>1. row.who \in SUBSET Staff
    BY <1>3 DEF Row
  <2> QED BY <2>1, <1>3, IdleTyped DEF Request, OrNone
<1>5. r.row = row /\ r.ids = row.who /\ r.op = "update"
  BY DEF Idle
<1>6. HandlerOK([r EXCEPT !.pc = AfterQuery(r)])
  <2> HIDE DEF r
  <2> QED BY <1>4, <1>5, AskingOK
<1> QED BY <1>1, <1>2, <1>6, ReceiveBooking DEF row

LEMMA RemoveBooking ==
    ASSUME Booking, NEW s \in Slots, Remove(s) PROVE Booking'
<1>1. TypeOK'
  BY RemoveTyped DEF Booking
<1>2. PICK e \in Events :
        Receive(s, [Idle EXCEPT !.op = "remove", !.pc = "delete", !.ev = e])
  BY DEF Remove
<1>3. HandlerOK([Idle EXCEPT !.op = "remove", !.pc = "delete", !.ev = e])
  BY DEF HandlerOK, Idle, Checked
<1> QED BY <1>1, <1>2, <1>3, ReceiveBooking

LEMMA QueryBooking ==
    ASSUME Booking, NEW s \in Slots, Query(s) PROVE Booking'
<1>1. TypeOK'
  BY QueryTyped DEF Booking
<1> DEFINE clash == \E e \in Events : Clashes(e, req[s])
           r == [req[s] EXCEPT !.pc = "series", !.wrote = {}, !.clash = clash]
<1>2. req' = [req EXCEPT ![s] = r] /\ rows' = rows /\ later' = later /\ mixed' = mixed
  BY DEF Query, Goto, history
<1>3. HandlerOK(r)
  <2>1. req[s] \in Request
    BY DEF Booking, TypeOK
  <2> HIDE DEF clash
  <2>2. /\ r.pc = "series" /\ r.ev = req[s].ev /\ r.row = req[s].row
        /\ r.ids = req[s].ids /\ r.op = req[s].op
        /\ r.clash = clash
    BY <2>1 DEF Request
  <2> HIDE DEF r
  <2>3. ~r.clash => \A f \in Events : ~Clashes(f, r)
    BY <2>2 DEF Clashes, clash
  <2>4. HandlerOK(req[s]) /\ req[s].pc = "query"
    BY DEF Booking, Query
  <2> QED BY <2>2, <2>3, <2>4 DEF HandlerOK, Checked
<1> HIDE DEF r
<1> QED BY <1>1, <1>2, <1>3, OwnStep

LEMMA SeriesBooking ==
    ASSUME Booking, NEW s \in Slots, Series(s) PROVE Booking'
<1>1. TypeOK'
  BY SeriesTyped DEF Booking
<1>2. rows' = rows /\ later' = later /\ mixed' = mixed /\ req[s].pc = "series"
  BY DEF Series, history
<1>3. CASE req' = [req EXCEPT ![s] = Idle]
  BY <1>1, <1>2, <1>3, IdleHandlerOK, OwnStep
<1>4. CASE /\ ~req[s].clash
           /\ req' = [req EXCEPT ![s] = [req[s] EXCEPT !.pc = "save"]]
  <2> DEFINE r == [req[s] EXCEPT !.pc = "save"]
  <2>1. req[s] \in Request
    BY DEF Booking, TypeOK
  <2>2. /\ r.pc = "save" /\ r.ev = req[s].ev /\ r.row = req[s].row
        /\ r.ids = req[s].ids /\ r.op = req[s].op /\ r.wrote = req[s].wrote
    BY <2>1 DEF Request
  <2> HIDE DEF r
  <2>3. HandlerOK(req[s])
    BY DEF Booking
  <2>4. \A f \in Events : Clashes(f, r) => f \in r.wrote
    BY <1>2, <1>4, <2>2, <2>3 DEF HandlerOK, Checked, Clashes
  <2>5. HandlerOK(r)
    BY <1>2, <2>2, <2>3, <2>4 DEF HandlerOK
  <2> QED BY <1>1, <1>2, <1>4, <2>5, OwnStep DEF r
<1> QED BY <1>3, <1>4 DEF Series, Done, Goto
\* The one step that books: what the saved row meets was written meanwhile,
\* and all other rows learn of it
LEMMA PutsBooking ==
    ASSUME Booking, NEW s \in Slots, NEW e \in Events, NEW new \in Row, Puts(s, e, new),
           req[s].pc \in {"save", "write"}, req[s].op = "create" \/ e = req[s].ev
    PROVE  Booking'
<1>1. TypeOK'
  BY PutsTyped DEF Booking
<1>2. /\ rows' = [rows EXCEPT ![e] = new]
      /\ req' = [q \in Slots |->
                     IF q = s
                     THEN [req[q] EXCEPT !.pc = "schedule", !.ev = e, !.was = NoRow]
                     ELSE [req[q] EXCEPT
                             !.wrote = IF req[q].pc \in {"series", "save", "write"}
                                       THEN @ \cup {e} ELSE @]]
      /\ later' = [f \in Events |->
                       CASE f = e -> req[s].wrote \ {e}
                         [] f # e /\ Live(f) -> later[f] \cup {e}
                         [] OTHER -> {}]
  BY DEF Puts
<1> DEFINE r == req[s]
<1>0. \A f \in Events : f \notin mixed' =>
          /\ f = e => rows'[e] = r.row
          /\ f # e => f \notin mixed
  BY <1>2 DEF Booking, TypeOK, Puts
<1>3. /\ rows'[e] = new
      /\ \A f \in Events : f # e => rows'[f] = rows[f]
  BY <1>2 DEF Booking, TypeOK
<1>4. /\ later'[e] = r.wrote \ {e}
      /\ \A f \in Events : f # e /\ Live(f) => later'[f] = later[f] \cup {e}
  BY <1>2
<1>5. /\ r.pc \in {"save", "write"} /\ HandlerOK(r)
  BY DEF Booking
<1>6. \A f \in Events : f # e => f # r.ev
  BY <1>2, <1>5, CalendarAssumption DEF HandlerOK
<1>7. \A f \in Events : Clashes(f, r) => f \in r.wrote
  BY <1>5 DEF HandlerOK, Checked
<1>8. r.row.who \subseteq r.ids
  BY <1>5 DEF HandlerOK
<1>9. \A f \in Events : f # e /\ Live(f) /\ ~rows[f].recurring
            /\ rows[f].start < r.row.stop /\ r.row.start < rows[f].stop
            /\ (rows[f].who \cap r.row.who # {}
                \/ (rows[f].who = {} /\ rows[f].by \in r.row.who))
        => f \in later'[e]
  <2> SUFFICES ASSUME NEW f \in Events, f # e, Live(f), ~rows[f].recurring,
                      rows[f].start < r.row.stop, r.row.start < rows[f].stop,
                      \/ rows[f].who \cap r.row.who # {}
                      \/ rows[f].who = {} /\ rows[f].by \in r.row.who
               PROVE  f \in later'[e]
    OBVIOUS
  <2>1. rows[f] \in Row /\ r.row \in Row
    BY DEF Booking, TypeOK, Request
  <2>2. TakesTimeOf(rows[f], r.row.start, r.row.stop)
    BY <2>1 DEF TakesTimeOf, Row
  <2>3. Concerns(rows[f], r.ids)
    BY <1>8 DEF Concerns
  <2>4. Clashes(f, r)
    BY <1>6, <2>2, <2>3 DEF Clashes
  <2> QED BY <1>4, <1>7, <2>4
<1>10. \A f \in Events : f # e => (Live(f)' <=> Live(f))
  BY <1>3 DEF Live
<1>11. DoubleBookingIsARace'
  <2> SUFFICES ASSUME NEW x \in Events, NEW y \in Events, x \notin mixed',
                      Overlap(x, y)', rows'[x].who \cap rows'[y].who # {}
               PROVE  y \in later'[x]
    BY DEF DoubleBookingIsARace
  <2>1. CASE x = e
    <3>1. y # e /\ Live(y)
      BY <1>10, <2>1 DEF Overlap
    <3>2. y \in later'[e]
      BY <1>0, <1>3, <1>9, <2>1, <3>1 DEF Overlap
    <3> QED BY <2>1, <3>2
  <2>2. CASE y = e
    <3>1. x # e /\ Live(x)
      BY <1>10, <2>2 DEF Overlap
    <3> QED BY <1>4, <2>2, <3>1
  <2>3. CASE x # e /\ y # e
    <3>1. Overlap(x, y) /\ rows[x].who \cap rows[y].who # {}
      BY <1>3, <1>10, <2>3 DEF Overlap
    <3>2. y \in later[x]
      BY <1>0, <2>3, <3>1 DEF Booking, DoubleBookingIsARace
    <3> QED BY <1>4, <2>3, <3>1, <3>2 DEF Overlap
  <2> QED BY <2>1, <2>2, <2>3
<1>12. OwnTimeIsRespected'
  <2> SUFFICES ASSUME NEW x \in Events, NEW y \in Events, x \notin mixed', Overlap(x, y)',
                      rows'[y].who = {}, rows'[y].by \in rows'[x].who
               PROVE  y \in later'[x]
    BY DEF OwnTimeIsRespected
  <2>1. CASE x = e
    <3>1. y # e /\ Live(y)
      BY <1>10, <2>1 DEF Overlap
    <3> QED BY <1>0, <1>3, <1>9, <2>1, <3>1 DEF Overlap
  <2>2. CASE y = e /\ x # e
    <3>1. Live(x)
      BY <1>10, <2>2 DEF Overlap
    <3> QED BY <1>4, <2>2, <3>1
  <2>3. CASE x # e /\ y # e
    <3>1. Overlap(x, y) /\ rows[y].who = {} /\ rows[y].by \in rows[x].who
      BY <1>3, <1>10, <2>3 DEF Overlap
    <3>2. y \in later[x]
      BY <1>0, <2>3, <3>1 DEF Booking, OwnTimeIsRespected
    <3> QED BY <1>4, <2>3, <3>1, <3>2 DEF Overlap
  <2> QED BY <2>1, <2>2, <2>3
<1>13. ASSUME NEW q \in Slots PROVE HandlerOK(req[q])'
  <2>1. req[q] \in Request
    BY DEF Booking, TypeOK
  <2>2. CASE q = s
    <3>1. req'[q].pc = "schedule" /\ req'[q].ev = e
      BY <1>2, <2>1, <2>2 DEF Request
    <3> QED BY <3>1 DEF HandlerOK, Checked
  <2>3. CASE q # s
    <3>1. /\ req'[q].pc = req[q].pc /\ req'[q].op = req[q].op
          /\ req'[q].ev = req[q].ev /\ req'[q].row = req[q].row
          /\ req'[q].ids = req[q].ids /\ req'[q].clash = req[q].clash
          /\ req'[q].wrote = IF req[q].pc \in {"series", "save", "write"}
                             THEN req[q].wrote \cup {e} ELSE req[q].wrote
      BY <1>2, <2>1, <2>3 DEF Request
    <3>2. HandlerOK(req[q])
      BY DEF Booking
    <3>3. ASSUME Checked(req'[q]), NEW f \in Events, Clashes(f, req[q])'
          PROVE  f \in req'[q].wrote
      <4>1. Checked(req[q]) /\ req'[q].wrote = req[q].wrote \cup {e}
        BY <3>1, <3>3 DEF Checked
      <4>2. CASE f # e
        <5>1. Clashes(f, req[q])
          BY <1>3, <1>10, <3>1, <3>3, <4>2 DEF Clashes
        <5> QED BY <3>2, <4>1, <5>1 DEF HandlerOK
      <4> QED BY <4>1, <4>2
    <3> QED BY <3>1, <3>2, <3>3 DEF HandlerOK, Checked
  <2> QED BY <2>2, <2>3
<1> QED BY <1>1, <1>11, <1>12, <1>13 DEF Booking

LEMMA InsertBooking ==
    ASSUME Booking, NEW s \in Slots, Insert(s) PROVE Booking'
<1>1. req[s].row \in Row
  BY DEF Booking, TypeOK, Request
<1> QED BY <1>1, PutsBooking DEF Insert

LEMMA LookBooking ==
    ASSUME Booking, NEW s \in Slots, LookAtEvent(s) PROVE Booking'
<1>1. TypeOK'
  BY LookTyped DEF Booking
<1>2. PICK e \in Events :
        /\ req[s].pc = "save" /\ req[s].op = "update"
        /\ Goto(s, [req[s] EXCEPT !.pc = "write", !.was = rows[e]])
        /\ UNCHANGED <<rows, later, mixed>>
  BY DEF LookAtEvent, history
<1>3. PICK r : r = [req[s] EXCEPT !.pc = "write", !.was = rows[e]]
  OBVIOUS
<1>4. /\ r.pc = "write" /\ r.ev = req[s].ev /\ r.row = req[s].row
      /\ r.ids = req[s].ids /\ r.op = req[s].op /\ r.wrote = req[s].wrote
  BY <1>3 DEF Booking, TypeOK, Request
<1>5. HandlerOK(req[s]) /\ Checked(req[s])
  BY <1>2 DEF Booking, Checked
<1>6. \A f \in Events : Clashes(f, r) => f \in r.wrote
  BY <1>4, <1>5 DEF HandlerOK, Clashes
<1>7. HandlerOK(r)
  BY <1>2, <1>4, <1>5, <1>6 DEF HandlerOK
<1> QED BY <1>1, <1>2, <1>3, <1>7, OwnStep DEF Goto

LEMMA SaveBooking ==
    ASSUME Booking, NEW s \in Slots, Save(s) PROVE Booking'
<1>1. TypeOK /\ TypeOK'
  BY SaveTyped DEF Booking
<1>2. PICK e \in Events :
        /\ e = req[s].ev /\ req[s].pc = "write"
        /\ \/ \E x \in Row : Puts(s, e, x)
           \/ /\ Goto(s, [req[s] EXCEPT !.pc = "schedule", !.was = NoRow])
              /\ UNCHANGED <<now, rows, used, timers, left, history>>
           \/ Done(s) /\ UNCHANGED <<now, rows, used, timers, left, history>>
  BY <1>1, SaveCases
<1>3. CASE \E x \in Row : Puts(s, e, x)
  BY <1>2, <1>3, PutsBooking
<1>4. CASE /\ Goto(s, [req[s] EXCEPT !.pc = "schedule", !.was = NoRow])
           /\ UNCHANGED <<now, rows, used, timers, left, history>>
  <2>1. PICK r : r = [req[s] EXCEPT !.pc = "schedule", !.was = NoRow]
    OBVIOUS
  <2>2. r.pc = "schedule" /\ r.ev = e
    BY <1>1, <1>2, <2>1 DEF TypeOK, Request
  <2>3. HandlerOK(r)
    BY <2>2 DEF HandlerOK, Checked
  <2> QED BY <1>1, <1>4, <2>1, <2>3, OwnStep DEF Goto, history
<1>5. CASE Done(s) /\ UNCHANGED <<now, rows, used, timers, left, history>>
  BY <1>1, <1>5, IdleHandlerOK, OwnStep DEF Done, Goto, history
<1> QED BY <1>2, <1>3, <1>4, <1>5

LEMMA DeleteBooking ==
    ASSUME Booking, NEW s \in Slots, Delete(s) PROVE Booking'
<1>1. TypeOK'
  BY DeleteTyped DEF Booking
<1>2. PICK e \in Events : e = req[s].ev
  BY DEF Booking, HandlerOK, Delete
<1>3. /\ ~Live(e)'
      /\ \A f \in Events : f # e =>
            rows'[f] = rows[f] /\ later'[f] = later[f] /\ (Live(f)' <=> Live(f))
      /\ mixed' = mixed
  BY <1>2 DEF Booking, TypeOK, Delete, Live
<1>4. DoubleBookingIsARace'
  BY <1>3 DEF Booking, DoubleBookingIsARace, Overlap
<1>5. OwnTimeIsRespected'
  BY <1>3 DEF Booking, OwnTimeIsRespected, Overlap
<1>6. ASSUME NEW q \in Slots PROVE HandlerOK(req[q])'
  <2>1. req'[q] = Idle \/ req'[q] = req[q]
    BY DEF Booking, TypeOK, Delete, Done, Goto
  <2>2. HandlerOK(req[q])
    BY DEF Booking
  <2>3. CASE req'[q] = Idle
    BY <2>3 DEF HandlerOK, Checked, Idle
  <2>4. CASE req'[q] = req[q]
    <3>1. \A f \in Events : Clashes(f, req[q])' => Clashes(f, req[q])
      BY <1>3, <2>4 DEF Clashes
    <3> QED BY <2>2, <2>4, <3>1 DEF HandlerOK, Checked
  <2> QED BY <2>1, <2>3, <2>4
<1> QED BY <1>1, <1>4, <1>5, <1>6 DEF Booking

LEMMA ScheduleBooking ==
    ASSUME Booking, NEW s \in Slots, Schedule(s) PROVE Booking'
<1>1. req[s].ev \in Events
  BY DEF Booking, HandlerOK, Schedule
<1>2. TypeOK'
  BY <1>1, ScheduleTyped DEF Booking
<1> QED BY <1>2, IdleHandlerOK, OwnStep DEF Schedule, Done, Goto

LEMMA WorldBooking ==
    ASSUME Booking, (\E t \in timers : Fire(t)) \/ Tick \/ Restart
    PROVE  Booking'
<1>1. TypeOK'
  BY WorldTyped DEF Booking
<1>2. rows' = rows /\ later' = later /\ mixed' = mixed
  BY DEF Fire, Tick, Restart, history
<1>3. DoubleBookingIsARace' /\ OwnTimeIsRespected'
  BY <1>2, SameTable DEF Booking
<1>4. ASSUME NEW q \in Slots PROVE HandlerOK(req[q])'
  <2>1. req'[q] = req[q] \/ req'[q] = Idle
    BY DEF Fire, Tick, Restart, history
  <2>2. HandlerOK(req'[q])
    BY <2>1, IdleHandlerOK DEF Booking
  <2>3. PICK r : r = req'[q]
    OBVIOUS
  <2> QED BY <1>2, <2>2, <2>3, SameHandler
<1> QED BY <1>1, <1>3, <1>4 DEF Booking

LEMMA StutterBooking == ASSUME Booking, UNCHANGED vars PROVE Booking'
<1>1. /\ rows' = rows /\ later' = later /\ mixed' = mixed /\ req' = req
  BY DEF vars
<1>2. TypeOK'
  BY DEF Booking, TypeOK, vars
<1>3. DoubleBookingIsARace' /\ OwnTimeIsRespected'
  BY <1>1, SameTable DEF Booking
<1>4. ASSUME NEW q \in Slots PROVE HandlerOK(req[q])'
  BY <1>1 DEF Booking, HandlerOK, Checked, Clashes, TakesTimeOf, Concerns, Live
<1> QED BY <1>2, <1>3, <1>4 DEF Booking

LEMMA NextBooking == Booking /\ [Next]_vars => Booking'
<1> SUFFICES ASSUME Booking, [Next]_vars PROVE Booking'
  OBVIOUS
<1>1. ASSUME NEW s \in Slots,
             \/ Create(s) \/ Update(s) \/ Remove(s) \/ Query(s) \/ Series(s)
             \/ Insert(s) \/ LookAtEvent(s) \/ Save(s) \/ Delete(s) \/ Schedule(s)
      PROVE  Booking'
  BY <1>1, CreateBooking, UpdateBooking, RemoveBooking, QueryBooking,
     SeriesBooking, InsertBooking, LookBooking, SaveBooking, DeleteBooking, ScheduleBooking
<1>2. CASE (\E t \in timers : Fire(t)) \/ Tick \/ Restart
  BY <1>2, WorldBooking
<1>3. CASE UNCHANGED vars
  BY <1>3, StutterBooking
<1> QED BY <1>1, <1>2, <1>3 DEF Next

-----------------------------------------------------------------------------
(* The theorems *)

\* Rows, handlers and timers are well formed in every reachable state
THEOREM TypeCorrect == Spec => []TypeOK
<1>1. Booking => TypeOK
  BY DEF Booking
<1> QED BY InitBooking, NextBooking, <1>1, PTL DEF Spec

\* However many handlers book, move and remove events, and whenever the
\* process restarts, an event takes the time of another of an attendee's only if
\* the other was saved after its conflict check had begun, or if its row is of
\* two updates that crossed between the look and the write of their saves
THEOREM NoQuietDoubleBooking == Spec => []DoubleBookingIsARace
<1>1. Booking => DoubleBookingIsARace
  BY DEF Booking
<1> QED BY InitBooking, NextBooking, <1>1, PTL DEF Spec

\* Nobody is invited over an appointment of their own that was there when the
\* invitation was checked, but by such a mixed row
THEOREM OwnTime == Spec => []OwnTimeIsRespected
<1>1. Booking => OwnTimeIsRespected
  BY DEF Booking
<1> QED BY InitBooking, NextBooking, <1>1, PTL DEF Spec

-----------------------------------------------------------------------------
(* Removal.  An id is drawn once and only a handler that carries an event   *)
(* writes it, so an event nobody carries stays removed.                     *)

LEMMA RemovalHolds ==
    ASSUME TypeOK, [Next]_vars, NEW e \in Events, SettledRemoval(e)
    PROVE  SettledRemoval(e)'
<1>1. e \in used /\ rows[e] = NoRow /\ \A s \in Slots : req[s].ev # e
  BY DEF SettledRemoval, Gone, Live
<1>2. e # None /\ Idle.ev # e
  BY CalendarAssumption DEF Idle
<1>3. /\ rows \in [Events -> Row] /\ req \in [Slots -> Request]
  BY DEF TypeOK
<1>4. SUFFICES rows'[e] = NoRow /\ e \in used' /\ \A s \in Slots : req'[s].ev # e
  BY <1>4 DEF SettledRemoval, Gone, Live
\* A handler goes on with the event it has, or with none
<1>5. ASSUME NEW s \in Slots, NEW r, Goto(s, r), r.ev # e, rows' = rows, used' = used
      PROVE  rows'[e] = NoRow /\ e \in used' /\ \A q \in Slots : req'[q].ev # e
  BY <1>1, <1>3, <1>5 DEF Goto
<1>6. ASSUME NEW s \in Slots, Create(s)
      PROVE  rows'[e] = NoRow /\ e \in used' /\ \A q \in Slots : req'[q].ev # e
  <2>1. PICK u \in Staff, body \in Creates :
          LET r == [Idle EXCEPT !.op = "create", !.row = Booked(body, u), !.ids = body.who]
          IN  Receive(s, [r EXCEPT !.pc = AfterQuery(r)])
    BY <1>6 DEF Create
  <2> DEFINE row == Booked(body, u)
             ids == body.who
             r == [Idle EXCEPT !.op = "create", !.row = row, !.ids = ids]
             pc == AfterQuery(r)
  <2>2. PICK q : q = [r EXCEPT !.pc = pc]
    OBVIOUS
  <2>3. Goto(s, q) /\ rows' = rows /\ used' = used
    BY <2>1, <2>2 DEF Receive
  <2> HIDE DEF row, ids, pc
  <2>4. q.ev = None
    BY <2>2 DEF Idle
  <2> QED BY <1>2, <1>5, <2>3, <2>4
<1>7. ASSUME NEW s \in Slots, Update(s)
      PROVE  rows'[e] = NoRow /\ e \in used' /\ \A q \in Slots : req'[q].ev # e
  <2>1. PICK f \in Events, body \in Updates :
          /\ Live(f)
          /\ LET row == Edited(rows[f], body)
                 r == [Idle EXCEPT !.op = "update", !.ev = f, !.row = row, !.ids = row.who]
             IN  Receive(s, [r EXCEPT !.pc = AfterQuery(r)])
    BY <1>7 DEF Update
  <2> DEFINE row == Edited(rows[f], body)
             ids == row.who
             r == [Idle EXCEPT !.op = "update", !.ev = f, !.row = row, !.ids = ids]
             pc == AfterQuery(r)
  <2>2. PICK q : q = [r EXCEPT !.pc = pc]
    OBVIOUS
  <2>3. Goto(s, q) /\ rows' = rows /\ used' = used
    BY <2>1, <2>2 DEF Receive
  <2> HIDE DEF row, ids, pc
  <2>4. q.ev = f
    BY <2>2 DEF Idle
  <2>5. f # e
    BY <1>1, <2>1 DEF Live
  <2> QED BY <1>5, <2>3, <2>4, <2>5
<1>8. ASSUME NEW s \in Slots, Remove(s)
      PROVE  rows'[e] = NoRow /\ e \in used' /\ \A q \in Slots : req'[q].ev # e
  <2>1. PICK f \in Events :
          Live(f) /\ Receive(s, [Idle EXCEPT !.op = "remove", !.pc = "delete", !.ev = f])
    BY <1>8 DEF Remove
  <2>2. [Idle EXCEPT !.op = "remove", !.pc = "delete", !.ev = f].ev = f /\ f # e
    BY <1>1, <2>1 DEF Idle, Live
  <2> QED BY <1>5, <2>1, <2>2 DEF Receive
<1>9. ASSUME NEW s \in Slots, Query(s) \/ Series(s)
      PROVE  rows'[e] = NoRow /\ e \in used' /\ \A q \in Slots : req'[q].ev # e
  <2>1. PICK clash : \/ Goto(s, [req[s] EXCEPT !.pc = "series", !.wrote = {}, !.clash = clash])
                     \/ Done(s)
                     \/ Goto(s, [req[s] EXCEPT !.pc = "save"])
    BY <1>9 DEF Query, Series
  <2>2. /\ [req[s] EXCEPT !.pc = "series", !.wrote = {}, !.clash = clash].ev = req[s].ev
        /\ [req[s] EXCEPT !.pc = "save"].ev = req[s].ev
    BY <1>3 DEF Request
  <2>3. rows' = rows /\ used' = used
    BY <1>9 DEF Query, Series
  <2> QED BY <1>1, <1>2, <1>5, <2>1, <2>2, <2>3 DEF Done
<1>10. ASSUME NEW s \in Slots, NEW f \in Events, NEW x \in Row, Puts(s, f, x), f # e
       PROVE  rows'[e] = NoRow /\ e \in used' /\ \A q \in Slots : req'[q].ev # e
  <2>1. ASSUME NEW q \in Slots PROVE req'[q].ev # e
    <3>1. \A w : [req[q] EXCEPT !.wrote = w].ev = req[q].ev
      BY <1>3 DEF Request
    <3>2. [req[q] EXCEPT !.pc = "schedule", !.ev = f, !.was = NoRow].ev = f
      BY <1>3 DEF Request
    <3> QED BY <1>1, <1>10, <3>1, <3>2 DEF Puts
  <2> QED BY <1>1, <1>3, <1>10, <2>1 DEF Puts
<1>14. ASSUME NEW s \in Slots, Insert(s)
       PROVE  rows'[e] = NoRow /\ e \in used' /\ \A q \in Slots : req'[q].ev # e
  <2>1. req[s].row \in Row
    BY <1>3 DEF Request
  <2> QED BY <1>1, <1>10, <1>14, <2>1 DEF Insert, NewId
<1>15. ASSUME NEW s \in Slots, LookAtEvent(s)
       PROVE  rows'[e] = NoRow /\ e \in used' /\ \A q \in Slots : req'[q].ev # e
  <2>1. PICK f \in Events : Goto(s, [req[s] EXCEPT !.pc = "write", !.was = rows[f]])
    BY <1>15 DEF LookAtEvent
  <2>2. [req[s] EXCEPT !.pc = "write", !.was = rows[f]].ev = req[s].ev
    BY <1>3 DEF Request
  <2> QED BY <1>1, <1>5, <1>15, <2>1, <2>2 DEF LookAtEvent
<1>16. ASSUME NEW s \in Slots, Save(s)
       PROVE  rows'[e] = NoRow /\ e \in used' /\ \A q \in Slots : req'[q].ev # e
  <2>1. PICK f \in Events :
          /\ f = req[s].ev
          /\ \/ \E x \in Row : Puts(s, f, x)
             \/ /\ Goto(s, [req[s] EXCEPT !.pc = "schedule", !.was = NoRow])
                /\ UNCHANGED <<now, rows, used, timers, left, history>>
             \/ Done(s) /\ UNCHANGED <<now, rows, used, timers, left, history>>
    BY <1>16, SaveCases
  <2>2. [req[s] EXCEPT !.pc = "schedule", !.was = NoRow].ev = req[s].ev
    BY <1>3 DEF Request
  <2> QED BY <1>1, <1>2, <1>5, <1>10, <2>1, <2>2 DEF Done
<1>11. ASSUME NEW s \in Slots, Delete(s) \/ Schedule(s)
       PROVE  rows'[e] = NoRow /\ e \in used' /\ \A q \in Slots : req'[q].ev # e
  <2>1. Done(s) /\ rows'[e] = rows[e] /\ used' = used
    BY <1>1, <1>3, <1>11 DEF Delete, Schedule
  <2> QED BY <1>1, <1>2, <1>3, <2>1 DEF Done, Goto
<1>12. ASSUME (\E t \in timers : Fire(t)) \/ Tick \/ Restart
       PROVE  rows'[e] = NoRow /\ e \in used' /\ \A q \in Slots : req'[q].ev # e
  <2>1. rows' = rows /\ used' = used /\ \A q \in Slots : req'[q] = req[q] \/ req'[q] = Idle
    BY <1>12 DEF Fire, Tick, Restart
  <2> QED BY <1>1, <1>2, <2>1
<1>13. CASE UNCHANGED vars
  BY <1>1, <1>13 DEF vars
<1> QED BY <1>6, <1>7, <1>8, <1>9, <1>11, <1>12, <1>13,
           <1>14, <1>15, <1>16 DEF Next

\* A removed event that no handler carries never comes back, whatever is
\* created, moved or removed later
THEOREM RemovalStays == Spec => RemovedForGood
<1>1. Booking /\ [Next]_vars =>
        [\A e \in Events : SettledRemoval(e) => SettledRemoval(e)']_vars
  BY RemovalHolds DEF Booking
<1> QED BY InitBooking, NextBooking, <1>1, PTL DEF Spec, RemovedForGood

-----------------------------------------------------------------------------
(* Reminders.  Only the handler that created an event sets reminders for    *)
(* it, once; until it does the event has none, and the history variable set *)
(* records the moment unless the row was edited meanwhile.                  *)

Creating(r) == r.op = "create" /\ r.pc = "schedule"

RemindersOf(e) == {t \in timers : t.ev = e /\ t.kind = "reminder"}

Reminding ==
    /\ \A e \in Events : RemindersOf(e) # {} \/ set[e] # None => e \in used
    /\ \A s \in Slots, e \in Events :
           Creating(req[s]) /\ req[s].ev = e
               => e \in used /\ set[e] = None /\ RemindersOf(e) = {}
    /\ \A s, q \in Slots : s # q /\ Creating(req[s]) /\ Creating(req[q])
                               => req[s].ev # req[q].ev
    /\ RemindersMatchRow

RemindInv == Booking /\ Reminding

\* The reminders of one event are those of its row
Matching(e) ==
    Live(e) /\ set[e] # None =>
        \A l \in Leads :
            LET due  == rows[e].start - l
                mine == {t \in RemindersOf(e) : t.lead = l}
            IN  due - set[e] <= MaxDelay =>
                    /\ \A t \in mine : t.due = due /\ t.who = rows[e].who
                    /\ due > now => mine # {}

LEMMA MatchingAll == RemindersMatchRow <=> \A e \in Events : Matching(e)
<1>1. \A e \in Events, l \in Leads :
        {t \in timers : t.ev = e /\ t.lead = l /\ t.kind = "reminder"}
          = {t \in RemindersOf(e) : t.lead = l}
  BY DEF RemindersOf
<1> QED BY <1>1 DEF RemindersMatchRow, Matching

LEMMA MatchingNext == (\A e \in Events : Matching(e)') => RemindersMatchRow'
<1>1. \A e \in Events, l \in Leads :
        {t \in timers' : t.ev = e /\ t.lead = l /\ t.kind = "reminder"}
          = {t \in RemindersOf(e)' : t.lead = l}
  BY DEF RemindersOf
<1> QED BY <1>1 DEF RemindersMatchRow, Matching

\* What an event's reminders are compared with stays as it is
LEMMA MatchingStays ==
    ASSUME NEW e \in Events, Matching(e), rows'[e] = rows[e], set'[e] = set[e],
           RemindersOf(e)' = RemindersOf(e), now' = now
    PROVE  Matching(e)'
BY DEF Matching, Live

LEMMA MatchingUnset ==
    ASSUME NEW e \in Events, set'[e] = None PROVE Matching(e)'
BY DEF Matching

\* A step that sets no reminders and starts no handler that will
LEMMA RemindStep ==
    ASSUME Reminding, UNCHANGED <<now, used, timers>>,
           \A q \in Slots : Creating(req'[q]) => Creating(req[q]) /\ req'[q].ev = req[q].ev,
           \A e \in Events : \/ rows'[e] = rows[e] /\ set'[e] = set[e]
                             \/ set'[e] = None
    PROVE  Reminding'
<1>1. \A e \in Events : RemindersOf(e)' = RemindersOf(e)
  BY DEF RemindersOf
<1>2. \A e \in Events : RemindersOf(e)' # {} \/ set'[e] # None => e \in used'
  BY <1>1 DEF Reminding
<1>3. \A q \in Slots, e \in Events :
        Creating(req'[q]) /\ req'[q].ev = e
            => e \in used' /\ set'[e] = None /\ RemindersOf(e)' = {}
  BY <1>1 DEF Reminding
<1>4. \A p, q \in Slots : p # q /\ Creating(req'[p]) /\ Creating(req'[q])
                              => req'[p].ev # req'[q].ev
  BY DEF Reminding
<1>5. ASSUME NEW e \in Events PROVE Matching(e)'
  BY <1>1, MatchingStays, MatchingUnset, MatchingAll DEF Reminding
<1>6. RemindersMatchRow'
  BY <1>5, MatchingNext
<1> QED BY <1>2, <1>3, <1>4, <1>6 DEF Reminding

\* A handler starts, or goes on before its save
LEMMA RemindGoto ==
    ASSUME TypeOK, Reminding, NEW s \in Slots, NEW r, Goto(s, r), r.pc # "schedule",
           UNCHANGED <<now, used, timers>>,
           \A e \in Events : \/ rows'[e] = rows[e] /\ set'[e] = set[e]
                             \/ set'[e] = None
    PROVE  Reminding'
<1>1. \A q \in Slots : req'[q] = IF q = s THEN r ELSE req[q]
  BY DEF Goto, TypeOK
<1>2. \A q \in Slots : Creating(req'[q]) => Creating(req[q]) /\ req'[q].ev = req[q].ev
  BY <1>1 DEF Creating
<1> QED BY <1>2, RemindStep

LEMMA HandlersRemind ==
    ASSUME TypeOK, Reminding, NEW s \in Slots,
           \/ Create(s) \/ Update(s) \/ Remove(s) \/ Query(s) \/ Series(s)
           \/ LookAtEvent(s) \/ Delete(s)
    PROVE  Reminding'
<1>1. Idle.pc = "idle" /\ req \in [Slots -> Request]
  BY DEF Idle, TypeOK
<1>2. ASSUME NEW r, NEW pc, Receive(s, [r EXCEPT !.pc = pc]), pc # "schedule", "pc" \in DOMAIN r
      PROVE  Reminding'
  <2>1. [r EXCEPT !.pc = pc].pc = pc
    BY <1>2
  <2> QED BY <1>2, <2>1, RemindGoto DEF Receive, history
<1>3. CASE Create(s)
  <2>1. PICK u \in Staff, body \in Creates :
          LET r == [Idle EXCEPT !.op = "create", !.row = Booked(body, u), !.ids = body.who]
          IN  Receive(s, [r EXCEPT !.pc = AfterQuery(r)])
    BY <1>3 DEF Create
  <2> DEFINE row == Booked(body, u)
             ids == body.who
             r == [Idle EXCEPT !.op = "create", !.row = row, !.ids = ids]
  <2>2. AfterQuery(r) # "schedule"
    BY DEF AfterQuery
  <2>3. "pc" \in DOMAIN r
    <3> HIDE DEF row, ids
    <3> QED BY DEF Idle
  <2> QED BY <1>2, <2>1, <2>2, <2>3
<1>4. CASE Update(s)
  <2>1. PICK f \in Events, body \in Updates :
          LET row == Edited(rows[f], body)
              r == [Idle EXCEPT !.op = "update", !.ev = f, !.row = row, !.ids = row.who]
          IN  Receive(s, [r EXCEPT !.pc = AfterQuery(r)])
    BY <1>4 DEF Update
  <2> DEFINE row == Edited(rows[f], body)
             ids == row.who
             r == [Idle EXCEPT !.op = "update", !.ev = f, !.row = row, !.ids = ids]
  <2>2. AfterQuery(r) # "schedule"
    BY DEF AfterQuery
  <2>3. "pc" \in DOMAIN r
    <3> HIDE DEF row, ids
    <3> QED BY DEF Idle
  <2> QED BY <1>2, <2>1, <2>2, <2>3
<1>5. CASE Remove(s)
  <2>1. PICK f \in Events :
          Receive(s, [Idle EXCEPT !.op = "remove", !.pc = "delete", !.ev = f])
    BY <1>5 DEF Remove
  <2>2. [Idle EXCEPT !.op = "remove", !.pc = "delete", !.ev = f].pc = "delete"
    BY DEF Idle
  <2> QED BY <2>1, <2>2, RemindGoto DEF Receive, history
<1>6. CASE Query(s) \/ Series(s)
  <2>1. PICK clash : \/ Goto(s, [req[s] EXCEPT !.pc = "series", !.wrote = {}, !.clash = clash])
                     \/ Done(s)
                     \/ Goto(s, [req[s] EXCEPT !.pc = "save"])
    BY <1>6 DEF Query, Series
  <2>2. /\ [req[s] EXCEPT !.pc = "series", !.wrote = {}, !.clash = clash].pc = "series"
        /\ [req[s] EXCEPT !.pc = "save"].pc = "save"
    BY <1>1 DEF Request
  <2>3. UNCHANGED <<now, rows, used, timers, set>>
    BY <1>6 DEF Query, Series, history
  <2> QED BY <1>1, <2>1, <2>2, <2>3, RemindGoto DEF Done
<1>7. CASE Delete(s)
  <2>1. /\ Done(s) /\ UNCHANGED <<now, used, timers>>
        /\ rows' = [rows EXCEPT ![req[s].ev] = NoRow]
        /\ set' = [set EXCEPT ![req[s].ev] = None]
    BY <1>7 DEF Delete
  <2>2. \A e \in Events : \/ rows'[e] = rows[e] /\ set'[e] = set[e]
                          \/ set'[e] = None
    BY <2>1 DEF TypeOK
  <2> QED BY <1>1, <2>1, <2>2, RemindGoto DEF Done
<1>8. CASE LookAtEvent(s)
  <2>1. PICK e \in Events : Goto(s, [req[s] EXCEPT !.pc = "write", !.was = rows[e]])
    BY <1>8 DEF LookAtEvent
  <2>2. [req[s] EXCEPT !.pc = "write", !.was = rows[e]].pc = "write"
    BY <1>1 DEF Request
  <2> QED BY <1>8, <2>1, <2>2, RemindGoto DEF LookAtEvent, history
<1> QED BY <1>3, <1>4, <1>5, <1>6, <1>7, <1>8

\* The event of a create is new: nobody sets its reminders yet
LEMMA PutsRemind ==
    ASSUME TypeOK, Reminding, NEW s \in Slots, NEW e \in Events, NEW x \in Row,
           Puts(s, e, x), req[s].op = "create" => NewId(e)
    PROVE  Reminding'
<1>1. /\ req[s].op = "create" => NewId(e)
      /\ rows' = [rows EXCEPT ![e] = x]
      /\ used' = used \cup {e}
      /\ req' = [q \in Slots |->
                     IF q = s
                     THEN [req[q] EXCEPT !.pc = "schedule", !.ev = e, !.was = NoRow]
                     ELSE [req[q] EXCEPT
                             !.wrote = IF req[q].pc \in {"series", "save", "write"}
                                       THEN @ \cup {e} ELSE @]]
      /\ set' = [set EXCEPT ![e] = None]
  BY DEF Puts
<1>2. now' = now /\ timers' = timers /\ \A f \in Events : RemindersOf(f)' = RemindersOf(f)
  BY DEF Puts, RemindersOf
<1>3. \A f \in Events : \/ rows'[f] = rows[f] /\ set'[f] = set[f]
                        \/ f = e /\ set'[f] = None
  BY <1>1 DEF TypeOK
<1>4. /\ req'[s].op = req[s].op /\ req'[s].ev = e
      /\ \A q \in Slots \ {s} : /\ req'[q].op = req[q].op /\ req'[q].pc = req[q].pc
                                /\ req'[q].ev = req[q].ev
  <2>1. [req[s] EXCEPT !.pc = "schedule", !.ev = e, !.was = NoRow].op = req[s].op
        /\ [req[s] EXCEPT !.pc = "schedule", !.ev = e, !.was = NoRow].ev = e
    BY DEF TypeOK, Request
  <2>2. \A q \in Slots : \A w : /\ [req[q] EXCEPT !.wrote = w].op = req[q].op
                                 /\ [req[q] EXCEPT !.wrote = w].pc = req[q].pc
                                 /\ [req[q] EXCEPT !.wrote = w].ev = req[q].ev
    BY DEF TypeOK, Request
  <2>3. \A q \in Slots \ {s} : \E w : req'[q] = [req[q] EXCEPT !.wrote = w]
    BY <1>1
  <2>4. req'[s] = [req[s] EXCEPT !.pc = "schedule", !.ev = e, !.was = NoRow]
    BY <1>1
  <2>5. ASSUME NEW q \in Slots \ {s}
        PROVE  req'[q].op = req[q].op /\ req'[q].pc = req[q].pc /\ req'[q].ev = req[q].ev
    <3>1. PICK w : req'[q] = [req[q] EXCEPT !.wrote = w]
      BY <2>3
    <3> QED BY <2>2, <3>1
  <2>6. req'[s].op = req[s].op /\ req'[s].ev = e
    BY <2>1, <2>4
  <2> QED BY <2>5, <2>6
<1>5. \A q \in Slots \ {s} : Creating(req'[q]) <=> Creating(req[q])
  BY <1>4 DEF Creating
<1>6. Creating(req'[s]) => e \notin used
  BY <1>1, <1>4 DEF Creating, NewId
<1>7. \A f \in Events : RemindersOf(f)' # {} \/ set'[f] # None => f \in used'
  BY <1>1, <1>2, <1>3 DEF Reminding
<1>8. ASSUME NEW q \in Slots, NEW f \in Events, Creating(req'[q]), req'[q].ev = f
      PROVE  f \in used' /\ set'[f] = None /\ RemindersOf(f)' = {}
  <2>1. CASE q = s
    <3>1. f = e /\ e \notin used
      BY <1>4, <1>6, <1>8, <2>1
    <3>2. f \in used'
      BY <1>1, <3>1
    <3>3. set[e] = None /\ RemindersOf(e) = {}
      BY <3>1 DEF Reminding
    <3> QED BY <1>2, <1>3, <3>1, <3>3, <3>2
  <2>2. CASE q # s
    <3>1. Creating(req[q]) /\ req[q].ev = f
      BY <1>4, <1>5, <1>8, <2>2
    <3>2. f \in used /\ set[f] = None /\ RemindersOf(f) = {}
      BY <3>1 DEF Reminding
    <3> QED BY <1>1, <1>2, <1>3, <3>2
  <2> QED BY <2>1, <2>2
<1>9. ASSUME NEW p \in Slots, NEW q \in Slots, p # q, Creating(req'[p]), Creating(req'[q])
      PROVE  req'[p].ev # req'[q].ev
  BY <1>4, <1>5, <1>6, <1>9 DEF Reminding
<1>10. ASSUME NEW f \in Events PROVE Matching(f)'
  BY <1>2, <1>3, MatchingStays, MatchingUnset, MatchingAll DEF Reminding
<1>11. RemindersMatchRow'
  BY <1>10, MatchingNext
<1> QED BY <1>7, <1>8, <1>9, <1>11 DEF Reminding

LEMMA InsertRemind ==
    ASSUME TypeOK, Reminding, NEW s \in Slots, Insert(s) PROVE Reminding'
<1>1. req[s].row \in Row
  BY DEF TypeOK, Request
<1> QED BY <1>1, PutsRemind DEF Insert

LEMMA SaveRemind ==
    ASSUME Booking, Reminding, NEW s \in Slots, Save(s) PROVE Reminding'
<1>1. TypeOK /\ HandlerOK(req[s])
  BY DEF Booking
<1>2. PICK e \in Events :
        /\ e = req[s].ev /\ req[s].pc = "write"
        /\ \/ \E x \in Row : Puts(s, e, x)
           \/ /\ Goto(s, [req[s] EXCEPT !.pc = "schedule", !.was = NoRow])
              /\ UNCHANGED <<now, rows, used, timers, left, history>>
           \/ Done(s) /\ UNCHANGED <<now, rows, used, timers, left, history>>
  BY <1>1, SaveCases
<1>3. req[s].op = "update"
  BY <1>1, <1>2 DEF HandlerOK
<1>4. CASE \E x \in Row : Puts(s, e, x)
  BY <1>1, <1>3, <1>4, PutsRemind
<1>5. CASE /\ Goto(s, [req[s] EXCEPT !.pc = "schedule", !.was = NoRow])
           /\ UNCHANGED <<now, rows, used, timers, left, history>>
  <2>1. PICK r : r = [req[s] EXCEPT !.pc = "schedule", !.was = NoRow]
    OBVIOUS
  <2>2. r.op = "update"
    BY <1>1, <1>3, <2>1 DEF TypeOK, Request
  <2>3. \A q \in Slots : Creating(req'[q]) => Creating(req[q]) /\ req'[q].ev = req[q].ev
    BY <1>1, <1>5, <2>1, <2>2 DEF Goto, TypeOK, Creating
  <2> QED BY <1>5, <2>3, RemindStep DEF history
<1>6. CASE Done(s) /\ UNCHANGED <<now, rows, used, timers, left, history>>
  <2>1. Idle.pc # "schedule"
    BY DEF Idle
  <2> QED BY <1>1, <1>6, <2>1, RemindGoto DEF Done, history
<1> QED BY <1>2, <1>4, <1>5, <1>6

\* A create sets the reminders of the row it wrote
LEMMA CreatedMatch ==
    ASSUME TypeOK, NEW r \in Request, NEW e \in Events, r.ev = e, rows[e] = r.row,
           rows' = rows, now' = now, set'[e] = now,
           RemindersOf(e)' = Reminders(r)
    PROVE  Matching(e)'
<1> DEFINE due(l) == rows[e].start - l
           mine(l) == {t \in Reminders(r) : t.lead = l}
<1>1. now \in Nat /\ rows[e].start \in Int
  BY CalendarAssumption DEF TypeOK, Row
<1>2. \A t \in Reminders(r) : /\ t.lead \in Leads /\ due(t.lead) > now
                              /\ t.due = FiresAt(due(t.lead)) /\ t.who = rows[e].who
  BY DEF Reminders
<1>3. ASSUME NEW l \in Leads, due(l) > now PROVE \E t \in Reminders(r) : t.lead = l
  <2> DEFINE t == [due |-> FiresAt(r.row.start - l), ev |-> r.ev, kind |-> "reminder",
                   lead |-> l, who |-> r.row.who]
  <2>1. t \in Reminders(r)
    BY <1>3 DEF Reminders
  <2> QED BY <2>1
<1>4. ASSUME NEW l \in Leads, due(l) - now <= MaxDelay
      PROVE  /\ \A t \in mine(l) : t.due = due(l) /\ t.who = rows[e].who
             /\ due(l) > now => mine(l) # {}
  <2>1. due(l) \in Int /\ MaxDelay \in Int /\ ~(due(l) - now > MaxDelay)
    BY <1>1, <1>4, CalendarAssumption
  <2>2. FiresAt(due(l)) = due(l)
    BY <2>1 DEF FiresAt
  <2> QED BY <1>2, <1>3, <2>2
<1> QED BY <1>4 DEF Matching

LEMMA ScheduleRemind ==
    ASSUME Booking, Reminding, NEW s \in Slots, Schedule(s)
    PROVE  Reminding'
<1>1. PICK r : r = req[s]
  OBVIOUS
<1>2. r \in Request /\ r.pc = "schedule" /\ r.ev \in Events /\ TypeOK
  BY <1>1 DEF Booking, TypeOK, HandlerOK, Schedule
<1>3. PICK e \in Events : e = r.ev
  BY <1>2
<1>4. PICK N : /\ timers' = timers \cup (IF r.op = "create" THEN Reminders(r) ELSE {}) \cup N
               /\ \A t \in N : t.kind = "notice"
  <2>1. PICK exact \in BOOLEAN :
          timers' = timers
              \cup (IF r.op = "create" THEN Reminders(r) ELSE {})
              \cup (IF r.row.recurring /\ r.row.rule # None
                    THEN Notices(r, exact) ELSE {})
    BY <1>1 DEF Schedule
  <2>2. \A t \in Notices(r, exact) : t.kind = "notice"
    BY DEF Notices
  <2> QED BY <2>1, <2>2
<1>5. /\ Done(s) /\ UNCHANGED <<now, rows, used>>
      /\ set' = IF r.op = "create" /\ rows[r.ev] = r.row THEN [set EXCEPT ![r.ev] = now] ELSE set
  BY <1>1 DEF Schedule
<1>6. \A t \in Reminders(r) : t.ev = e /\ t.kind = "reminder"
  BY <1>3 DEF Reminders
<1>7. \A f \in Events : RemindersOf(f)' = IF f = e /\ r.op = "create"
                                         THEN RemindersOf(f) \cup Reminders(r)
                                         ELSE RemindersOf(f)
  BY <1>4, <1>6 DEF RemindersOf
<1>8. \A f \in Events : set'[f] = IF f = e /\ r.op = "create" /\ rows[e] = r.row
                                 THEN now ELSE set[f]
  BY <1>2, <1>3, <1>5 DEF TypeOK
<1>9. r.op = "create" => e \in used /\ set[e] = None /\ RemindersOf(e) = {}
  BY <1>1, <1>2, <1>3 DEF Reminding, Creating
<1>10. /\ \A q \in Slots \ {s} : req'[q] = req[q]
       /\ ~Creating(req'[s])
  BY <1>2, <1>5 DEF Done, Goto, Creating, Idle, TypeOK
<1>11. ASSUME NEW q \in Slots, Creating(req'[q]), r.op = "create" PROVE req'[q].ev # e
  BY <1>1, <1>2, <1>3, <1>10, <1>11 DEF Reminding, Creating
<1>12. \A f \in Events : RemindersOf(f)' # {} \/ set'[f] # None => f \in used'
  BY <1>5, <1>7, <1>8, <1>9 DEF Reminding
<1>13. ASSUME NEW q \in Slots, NEW f \in Events, Creating(req'[q]), req'[q].ev = f
       PROVE  f \in used' /\ set'[f] = None /\ RemindersOf(f)' = {}
  <2>1. q # s /\ req'[q] = req[q] /\ (r.op = "create" => f # e)
    BY <1>10, <1>11, <1>13
  <2> QED BY <1>5, <1>7, <1>8, <1>13, <2>1 DEF Reminding
<1>14. ASSUME NEW p \in Slots, NEW q \in Slots, p # q, Creating(req'[p]), Creating(req'[q])
       PROVE  req'[p].ev # req'[q].ev
  BY <1>10, <1>14 DEF Reminding
<1>15. ASSUME NEW f \in Events PROVE Matching(f)'
  <2>1. CASE f = e /\ r.op = "create" /\ rows[e] = r.row
    BY <1>2, <1>3, <1>5, <1>7, <1>8, <1>9, <2>1, CreatedMatch
  <2>2. CASE f = e /\ r.op = "create" /\ rows[e] # r.row
    BY <1>8, <1>9, <2>2, MatchingUnset
  <2>3. CASE f # e \/ r.op # "create"
    BY <1>5, <1>7, <1>8, <2>3, MatchingStays, MatchingAll DEF Reminding
  <2> QED BY <2>1, <2>2, <2>3
<1>16. RemindersMatchRow'
  BY <1>15, MatchingNext
<1> QED BY <1>12, <1>13, <1>14, <1>16 DEF Reminding

\* Time passes, timers fire and the process restarts
LEMMA WorldRemind ==
    ASSUME TypeOK, Reminding, (\E t \in timers : Fire(t)) \/ Tick \/ Restart
    PROVE  Reminding'
<1>1. now \in Nat /\ MaxDelay \in Nat /\ Leads \subseteq Nat
      /\ \A e \in Events : rows[e].start \in Nat
  BY CalendarAssumption DEF TypeOK, Row
<1>2. ASSUME NEW t \in timers, Fire(t) PROVE Reminding'
  <2>1. UNCHANGED <<now, rows, used, req, set>> /\ timers' = timers \ {t} /\ t.due <= now
    BY <1>2 DEF Fire, history
  <2>2. \A e \in Events : RemindersOf(e)' = RemindersOf(e) \ {t}
    BY <2>1 DEF RemindersOf
  <2>3. ASSUME NEW e \in Events PROVE Matching(e)'
    <3>1. Matching(e)
      BY MatchingAll DEF Reminding
    <3>2. SUFFICES ASSUME Live(e), set[e] # None, NEW l \in Leads,
                          rows[e].start - l - set[e] <= MaxDelay
                   PROVE  LET due  == rows[e].start - l
                              mine == {u \in RemindersOf(e) \ {t} : u.lead = l}
                          IN  /\ \A u \in mine : u.due = due /\ u.who = rows[e].who
                              /\ due > now => mine # {}
      BY <2>1, <2>2, <3>2 DEF Matching, Live
    <3> DEFINE due  == rows[e].start - l
               mine == {u \in RemindersOf(e) : u.lead = l}
    <3>3. /\ \A u \in mine : u.due = due /\ u.who = rows[e].who
          /\ due > now => mine # {}
      BY <3>1, <3>2 DEF Matching
    <3>4. due > now => t \notin mine
      BY <1>1, <2>1, <3>3
    <3> QED BY <3>3, <3>4
  <2>4. RemindersMatchRow'
    BY <2>3, MatchingNext
  <2> QED BY <2>1, <2>2, <2>4 DEF Reminding
<1>3. CASE Tick
  <2>1. UNCHANGED <<rows, used, req, timers, set>> /\ now' = now + 1
    BY <1>3 DEF Tick, history
  <2>2. \A e \in Events : RemindersOf(e)' = RemindersOf(e)
    BY <2>1 DEF RemindersOf
  <2>3. \A e \in Events, l \in Leads : rows[e].start - l > now' => rows[e].start - l > now
    BY <1>1, <2>1
  <2>4. ASSUME NEW e \in Events PROVE Matching(e)'
    <3>1. Matching(e)
      BY MatchingAll DEF Reminding
    <3> QED BY <2>1, <2>2, <2>3, <3>1 DEF Matching, Live
  <2>5. RemindersMatchRow'
    BY <2>4, MatchingNext
  <2> QED BY <2>1, <2>2, <2>5 DEF Reminding
<1>4. CASE Restart
  <2>1. /\ req' = [s \in Slots |-> Idle] /\ timers' = {} /\ set' = [e \in Events |-> None]
    BY <1>4 DEF Restart
  <2>2. \A e \in Events : RemindersOf(e)' = {} /\ set'[e] = None
    BY <2>1 DEF RemindersOf
  <2>3. \A s \in Slots : ~Creating(req'[s])
    BY <2>1 DEF Creating, Idle
  <2>4. RemindersMatchRow'
    BY <2>2, MatchingUnset, MatchingNext
  <2> QED BY <2>2, <2>3, <2>4 DEF Reminding
<1> QED BY <1>2, <1>3, <1>4

LEMMA RemindInit == Init => RemindInv
<1> SUFFICES ASSUME Init PROVE RemindInv
  OBVIOUS
<1>1. \A e \in Events : RemindersOf(e) = {} /\ set[e] = None
  BY DEF Init, RemindersOf
<1>2. \A s \in Slots : ~Creating(req[s])
  BY DEF Init, Idle, Creating
<1>3. RemindersMatchRow
  BY <1>1 DEF RemindersMatchRow
<1> QED BY <1>1, <1>2, <1>3, InitBooking DEF RemindInv, Reminding

LEMMA NextRemind == RemindInv /\ [Next]_vars => RemindInv'
<1> SUFFICES ASSUME RemindInv, [Next]_vars PROVE RemindInv'
  OBVIOUS
<1>1. Booking /\ TypeOK /\ Reminding
  BY DEF RemindInv, Booking
<1>2. Booking'
  BY <1>1, NextBooking
<1>3. Reminding'
  <2>1. ASSUME NEW s \in Slots,
               \/ Create(s) \/ Update(s) \/ Remove(s) \/ Query(s) \/ Series(s)
               \/ Insert(s) \/ LookAtEvent(s) \/ Save(s) \/ Delete(s) \/ Schedule(s)
        PROVE  Reminding'
    BY <1>1, <2>1, HandlersRemind, InsertRemind, SaveRemind, ScheduleRemind
  <2>2. CASE (\E t \in timers : Fire(t)) \/ Tick \/ Restart
    BY <1>1, <2>2, WorldRemind
  <2>3. CASE UNCHANGED vars
    BY <1>1, <2>3, RemindStep DEF vars, history
  <2> QED BY <2>1, <2>2, <2>3 DEF Next
<1> QED BY <1>2, <1>3 DEF RemindInv

\* The reminders of an event nobody edited since they were set are those of
\* its row, lead by lead, through edits of other events, removals and restarts
THEOREM RemindersTrue == Spec => []RemindersMatchRow
<1>1. RemindInv => RemindersMatchRow
  BY DEF RemindInv, Reminding
<1> QED BY RemindInit, NextRemind, <1>1, PTL DEF Spec
=============================================================================
