-------------------------- MODULE CallsSerialProofs --------------------------
(***************************************************************************)
(* Proofs about Calls when handlers do not overlap: with one slot, and any *)
(* users, calls, requests, faults and restarts.  Nothing comes between the *)
(* database calls of a handler, so it carries the rows as they are; that   *)
(* makes each of its writes a step of CallLifecycle, and keeps the table   *)
(* and the gateway's map together.                                         *)
(***************************************************************************)
EXTENDS CallsProofs

\* Handlers do not overlap
OneHandler == \E s \in Slots : Slots = {s}

-----------------------------------------------------------------------------
(* The rows of a call: all linked, and one for each user                     *)

Tidy(ps) ==
    /\ \A i \in RowIds : ps[i] = NoPart \/ (ps[i].status # "none" /\ ps[i].linked)
    /\ \A i, j \in Rows(ps) : i[1] = j[1] => i = j

TablesTidy == \A c \in Calls : Tidy(part[c]) /\ (~Born(c) => Rows(part[c]) = {})

\* Who is JOINED in a call's rows
Who(ps) == {i[1] : i \in JoinedRows(ps)}

LEMMA TidyLoads ==
    ASSUME NEW c \in Calls, part[c] \in [RowIds -> PartRow], Tidy(part[c])
    PROVE  LinkedRows(c) = part[c] /\ JoinedUsers(c) = Who(part[c])
  <1>1. \A i \in RowIds : LinkedRows(c)[i] = part[c][i]
    BY DEF LinkedRows, Tidy, NoPart
  <1>2. LinkedRows(c) = part[c]
    BY <1>1 DEF LinkedRows
  <1> QED BY <1>2 DEF JoinedUsers, Who

\* What writing q as row i makes of the rows ps, if i's user has no other
RowEffect(ps, i, q, new) ==
    /\ Tidy(new)
    /\ Rows(new) = Rows(ps) \cup {i}
    /\ q.status = "joined" => /\ JoinedRows(new) = JoinedRows(ps) \cup {i}
                              /\ Who(new) = Who(ps) \cup {i[1]}
    /\ q.status # "joined" => /\ JoinedRows(new) = JoinedRows(ps) \ {i}
                              /\ Who(new) = Who(ps) \ {i[1]}

LEMMA RowMoves ==
    ASSUME NEW ps \in [RowIds -> PartRow], Tidy(ps), NEW i \in RowIds, NEW q \in PartRow,
           q.status # "none", q.linked, \A j \in Rows(ps) : j[1] = i[1] => j = i,
           NEW new, new = [ps EXCEPT ![i] = q]
    PROVE  RowEffect(ps, i, q, new)
  <1>1. new[i] = q /\ \A j \in RowIds \ {i} : new[j] = ps[j]
    OBVIOUS
  <1>2. Rows(new) = Rows(ps) \cup {i}
    BY <1>1 DEF Rows
  <1>3. /\ q.status = "joined" => JoinedRows(new) = JoinedRows(ps) \cup {i}
        /\ q.status # "joined" => JoinedRows(new) = JoinedRows(ps) \ {i}
    BY <1>1 DEF JoinedRows
  <1>4. Tidy(new)
    <2>1. \A j \in RowIds : new[j] = NoPart \/ (new[j].status # "none" /\ new[j].linked)
      BY <1>1 DEF Tidy
    <2>2. \A j, k \in Rows(ps) \cup {i} : j[1] = k[1] => j = k
      BY DEF Tidy
    <2> QED BY <1>2, <2>1, <2>2 DEF Tidy
  <1>5. JoinedRows(ps) \subseteq Rows(ps)
    BY DEF JoinedRows, Rows
  <1>6. q.status = "joined" => Who(new) = Who(ps) \cup {i[1]}
    BY <1>3 DEF Who
  <1>7. q.status # "joined" => Who(new) = Who(ps) \ {i[1]}
    <2> SUFFICES ASSUME q.status # "joined" PROVE Who(new) = Who(ps) \ {i[1]}
      OBVIOUS
    <2>1. \A j \in JoinedRows(ps) : j \in JoinedRows(ps) \ {i} <=> j[1] # i[1]
      BY <1>5
    <2> QED BY <1>3, <2>1 DEF Who
  <1> QED BY <1>2, <1>3, <1>4, <1>6, <1>7 DEF RowEffect

-----------------------------------------------------------------------------
(* What a handler carries is what the tables hold, but for its own change    *)

Closing(r, pc) == r.op \in {"end", "disconnect"} /\ r.pc = pc

\* The two halves of callRepo.save
Settling(r) == r.pc \in {"saveCall", "writeCall"}

\* A difference that makes new of old: only the row, and every column it changes
Exact(diff, new, old) ==
    /\ new.scope = old.scope /\ new.initiator = old.initiator
    /\ \A x \in Columns \ diff.cols : new[x] = old[x]
    /\ diff.status = {} /\ diff.link = {} /\ diff.unlink = {}

InHand(r, ps, row) ==
    /\ r.op = "initiate" =>
         /\ \A i \in Rows(ps) : i[2] = 1
         /\ r.pc \in {"insertCall", "insertSelf", "insertParts"} => r.todo \subseteq Users \X {1}
    /\ r.pc = "writeCall" => Exact(r.diff, r.row, row)
    /\ r.op = "accept" /\ Settling(r) =>
         /\ r.parts = ps /\ row.status = "ringing"
         /\ r.row = [row EXCEPT !.status = "active", !.startedAt = TRUE]
    /\ r.op = "accept" /\ r.pc = "savePart" => r.parts = ps
    /\ r.op = "decline" /\ r.pc = "savePart" => r.parts = ps /\ r.row = row
    /\ r.op = "decline" /\ Settling(r) =>
         r.parts = ps /\ r.row = Declined(row) /\ row.scope = "dm"
    /\ Closing(r, "savePart") =>
         /\ r.row = row
         /\ \E i \in RowsOf(ps, r.user) :
              r.todo = {i} /\ r.parts = [ps EXCEPT ![i] = HasLeft(@)]
    /\ r.op \in {"end", "disconnect"} /\ Settling(r) =>
         r.parts = ps /\ r.row = Ended(row) /\ (row.scope = "dm" \/ JoinedRows(ps) = {})
    /\ Closing(r, "saveRest") => r.todo \subseteq Rows(ps)
    /\ r.op = "add" /\ r.pc = "insert" => RowsOf(ps, r.target) = {}
    /\ r.op = "kick" /\ r.pc = "savePart" => \E i \in RowsOf(ps, r.target) : r.todo = {i}
    /\ r.op = "timer" /\ Settling(r) =>
         r.parts = ps /\ row.status = "ringing" /\ r.row = Missed(row)
    /\ r.op = "timer" /\ r.pc = "saveRest" => r.todo \subseteq Rows(ps)

HandsOK == \A s \in Slots : req[s].op # "idle" =>
               InHand(req[s], part[req[s].call], call[req[s].call])

TableInv == LedgerInv /\ TablesTidy /\ HandsOK

\* The three things a step does to the tables: nothing, one row of a call that is
\* there, or the call's own row
RowWritten(c) ==
    /\ Born(c) /\ call' = call
    /\ \E i \in RowIds, q \in PartRow :
         /\ q.status # "none" /\ q.linked
         /\ \A j \in Rows(part[c]) : j[1] = i[1] => j = i
         /\ part' = [part EXCEPT ![c] = [part[c] EXCEPT ![i] = q]]

Turns(c, row) ==
    \/ ~Born(c) /\ row.status = "ringing"
    \/ /\ Born(c) /\ row.scope = call[c].scope
       /\ \/ call[c].status = "ringing" /\ row.status \in {"active", "missed"}
          \/ row.scope = "dm" /\ row.status = "declined"
          \/ row.scope = "dm" /\ row.status = "ended"
          \/ JoinedRows(part[c]) = {} /\ row.status = "ended"

CallWritten(c) ==
    /\ part' = part
    /\ \E row \in CallRow : Turns(c, row) /\ call' = [call EXCEPT ![c] = row]

Moves(c) == (call' = call /\ part' = part) \/ RowWritten(c) \/ CallWritten(c)

\* Each of them is a step of the lifecycle
LifeStep == [Lifecycle!Next]_(Lifecycle!vars)

LEMMA TableFacts ==
    ASSUME Typed, TablesTidy, NEW c \in Calls
    PROVE  /\ part[c] \in [RowIds -> PartRow] /\ Tidy(part[c]) /\ call[c] \in CallRow
           /\ LinkedRows(c) = part[c] /\ JoinedUsers(c) = Who(part[c])
  BY TidyLoads DEF Typed, TypeOK, TablesTidy

\* The tables as the lifecycle sees them
LEMMA LifeVars ==
    ASSUME Typed, TablesTidy
    PROVE  [c \in Calls |-> JoinedUsers(c)] = [c \in Calls |-> Who(part[c])]
  BY TableFacts

LEMMA RowLives ==
    ASSUME Typed, TablesTidy, Typed', NEW c \in Calls, RowWritten(c)
    PROVE  TablesTidy' /\ LifeStep
  <1>1. PICK i \in RowIds, q \in PartRow :
          /\ q.status # "none" /\ q.linked
          /\ \A j \in Rows(part[c]) : j[1] = i[1] => j = i
          /\ part' = [part EXCEPT ![c] = [part[c] EXCEPT ![i] = q]]
    BY DEF RowWritten
  <1> DEFINE ps == part[c]
             new == [ps EXCEPT ![i] = q]
  <1>2. /\ ps \in [RowIds -> PartRow] /\ Tidy(ps)
        /\ part'[c] = new /\ \A d \in Calls \ {c} : part'[d] = part[d]
    BY <1>1, TableFacts DEF Typed, TypeOK
  <1>3. /\ Tidy(new)
        /\ q.status = "joined" => Who(new) = Who(ps) \cup {i[1]}
        /\ q.status # "joined" => Who(new) = Who(ps) \ {i[1]}
    <2>1. \A j \in Rows(ps) : j[1] = i[1] => j = i
      BY <1>1
    <2>2. i \in RowIds /\ q \in PartRow /\ q.status # "none" /\ q.linked
      BY <1>1
    <2>3. RowEffect(ps, i, q, new)
      <3> HIDE DEF ps
      <3> QED BY <1>2, <2>1, <2>2, RowMoves
    <2> HIDE DEF new
    <2> QED BY <2>3 DEF RowEffect
  <1>4. call' = call /\ call[c].status # "none" /\ i[1] \in Users
    BY DEF RowWritten, Born, RowIds
  <1>5. TablesTidy'
    <2> SUFFICES ASSUME NEW d \in Calls
                 PROVE  Tidy(part'[d]) /\ (~Born(d)' => Rows(part'[d]) = {})
      BY DEF TablesTidy
    <2>1. CASE d = c
      <3> HIDE DEF new
      <3> QED BY <1>2, <1>3, <1>4, <2>1 DEF Born
    <2>2. CASE d # c
      BY <1>2, <1>4, <2>2 DEF TablesTidy, Born
    <2> QED BY <2>1, <2>2
  <1>6. PICK joined : joined = [d \in Calls |-> JoinedUsers(d)]
    OBVIOUS
  <1>7. joined = [d \in Calls |-> Who(part[d])]
    BY <1>6, LifeVars
  <1>8. PICK after : after = [d \in Calls |-> JoinedUsers(d)']
    OBVIOUS
  <1>9. \A d \in Calls : JoinedUsers(d)' = Who(part'[d])
    <2>1. \A d \in Calls : part'[d] \in [RowIds -> PartRow] /\ Tidy(part'[d])
      BY <1>5 DEF Typed, TypeOK, TablesTidy
    <2> SUFFICES ASSUME NEW d \in Calls PROVE JoinedUsers(d)' = Who(part'[d])
      OBVIOUS
    <2>2. \A i_ \in RowIds : LinkedRows(d)'[i_] = part'[d][i_]
      BY <2>1 DEF LinkedRows, Tidy, NoPart
    <2>3. LinkedRows(d)' = part'[d]
      BY <2>1, <2>2 DEF LinkedRows
    <2> QED BY <2>3 DEF JoinedUsers, Who
  <1>10. after = [joined EXCEPT ![c] = IF q.status = "joined" THEN joined[c] \cup {i[1]}
                                                            ELSE joined[c] \ {i[1]}]
    <2>1. \A d \in Calls : after[d] = Who(part'[d]) /\ joined[d] = Who(part[d])
      BY <1>7, <1>8, <1>9
    <2> HIDE DEF new
    <2> QED BY <1>2, <1>3, <1>7, <1>8, <2>1
  <1>11. LifeStep
    <2>1. CASE q.status = "joined"
      <3>1. Lifecycle!Join(c, i[1])
        BY <1>4, <1>6, <1>8, <1>10, <2>1 DEF Lifecycle!Join
      <3> QED BY <1>4, <3>1 DEF LifeStep, Lifecycle!Next
    <2>2. CASE q.status # "joined"
      <3>1. Lifecycle!Leave(c, i[1])
        BY <1>4, <1>6, <1>8, <1>10, <2>2 DEF Lifecycle!Leave
      <3> QED BY <1>4, <3>1 DEF LifeStep, Lifecycle!Next
    <2> QED BY <2>1, <2>2
  <1> QED BY <1>5, <1>11

LEMMA CallLives ==
    ASSUME Typed, TablesTidy, NEW c \in Calls, CallWritten(c)
    PROVE  TablesTidy' /\ LifeStep
  <1>1. PICK row \in CallRow : Turns(c, row) /\ call' = [call EXCEPT ![c] = row]
    BY DEF CallWritten
  <1>2. part' = part
    BY DEF CallWritten
  <1>3. /\ call \in [Calls -> CallRow] /\ call'[c] = row
        /\ \A d \in Calls \ {c} : call'[d] = call[d]
    BY <1>1 DEF Typed, TypeOK
  <1>4. row.status # "none"
    BY <1>1 DEF Turns
  <1>5. TablesTidy'
    <2>1. \A d \in Calls : Born(d) => Born(d)'
      BY <1>3, <1>4 DEF Born
    <2> QED BY <1>2, <2>1 DEF TablesTidy
  <1>6. PICK joined : joined = [d \in Calls |-> JoinedUsers(d)]
    OBVIOUS
  <1>7. joined = [d \in Calls |-> JoinedUsers(d)']
    BY <1>2, <1>6 DEF JoinedUsers, LinkedRows
  <1>8. joined[c] = Who(part[c])
    BY <1>6, TableFacts
  <1>9. PICK status : status = [d \in Calls |-> call[d].status]
    OBVIOUS
  <1>10. [d \in Calls |-> call'[d].status] = [status EXCEPT ![c] = row.status]
    BY <1>3, <1>9
  <1>11. PICK scope : scope = [d \in Calls |-> call[d].scope]
    OBVIOUS
  <1>12. [d \in Calls |-> call'[d].scope] = [scope EXCEPT ![c] = row.scope]
    BY <1>3, <1>11
  <1>13. CASE ~Born(c)
    <2>1. row.status = "ringing" /\ row.scope \in {"dm", "group"}
      BY <1>1, <1>13 DEF Turns, CallRow
    <2>2. status[c] = "none"
      BY <1>9, <1>13 DEF Born
    <2>3. Lifecycle!Ring(c, row.scope)
      BY <1>6, <1>7, <1>9, <1>10, <1>11, <1>12, <2>1, <2>2 DEF Lifecycle!Ring
    <2> QED BY <1>5, <2>1, <2>3 DEF LifeStep, Lifecycle!Next
  <1>14. CASE Born(c)
    <2>1. [scope EXCEPT ![c] = row.scope] = scope
      <3>1. row.scope = scope[c]
        BY <1>1, <1>11, <1>14 DEF Turns
      <3> QED BY <1>11, <3>1
    <2>2. status[c] # "none" /\ status[c] = call[c].status /\ scope[c] = row.scope
      BY <1>1, <1>9, <1>11, <1>14 DEF Born, Turns
    <2>3. \A st : row.status = st => Lifecycle!Become(c, st)
      BY <1>6, <1>7, <1>9, <1>10, <1>11, <1>12, <2>1 DEF Lifecycle!Become
    <2>4. CASE call[c].status = "ringing" /\ row.status \in {"active", "missed"}
      <3>1. Lifecycle!Answer(c) \/ Lifecycle!Miss(c)
        BY <1>9, <2>2, <2>3, <2>4 DEF Lifecycle!Answer, Lifecycle!Miss
      <3> QED BY <1>5, <3>1 DEF LifeStep, Lifecycle!Next
    <2>5. CASE row.scope = "dm" /\ row.status = "declined"
      <3>1. Lifecycle!Decline(c)
        BY <1>9, <1>11, <2>2, <2>3, <2>5 DEF Lifecycle!Decline
      <3> QED BY <1>5, <3>1 DEF LifeStep, Lifecycle!Next
    <2>6. CASE row.status = "ended" /\ (row.scope = "dm" \/ JoinedRows(part[c]) = {})
      <3>1. row.scope = "dm" \/ joined[c] = {}
        BY <1>8, <2>6 DEF Who
      <3>2. Lifecycle!End(c)
        BY <1>6, <1>9, <1>11, <2>2, <2>3, <2>6, <3>1 DEF Lifecycle!End
      <3> QED BY <1>5, <3>2 DEF LifeStep, Lifecycle!Next
    <2> QED BY <1>1, <1>14, <2>4, <2>5, <2>6 DEF Turns
  <1> QED BY <1>13, <1>14

LEMMA MovesLive ==
    ASSUME Typed, TablesTidy, Typed', NEW c \in Calls, Moves(c)
    PROVE  TablesTidy' /\ LifeStep
  <1>1. CASE call' = call /\ part' = part
    <2>1. \A d \in Calls : JoinedUsers(d)' = JoinedUsers(d)
      BY <1>1 DEF JoinedUsers, LinkedRows
    <2>2. UNCHANGED Lifecycle!vars
      BY <1>1, <2>1 DEF Lifecycle!vars
    <2> QED BY <1>1, <2>2 DEF LifeStep, TablesTidy, Born
  <1> QED BY <1>1, RowLives, CallLives DEF Moves

-----------------------------------------------------------------------------
(* What each step of a handler does to the tables, and what it then carries  *)

\* The handler in slot s after the step
Carries(s) == req'[s].op # "idle" =>
                  InHand(req'[s], part'[req'[s].call], call'[req'[s].call])

LEMMA AtWork ==
    ASSUME TableInv, NEW s \in Slots, req[s].op # "idle"
    PROVE  /\ req[s] \in Request /\ req[s].call \in Calls
           /\ part[req[s].call] \in [RowIds -> PartRow] /\ Tidy(part[req[s].call])
           /\ call[req[s].call] \in CallRow
           /\ LinkedRows(req[s].call) = part[req[s].call]
           /\ InHand(req[s], part[req[s].call], call[req[s].call])
           /\ Fits(call, req[s])
           /\ req[s].op # "timer" => req[s].user \in Users
           /\ req[s].op \in {"add", "kick"} => req[s].target \in Users
  <1>1. Typed /\ TablesTidy /\ UnbornOK /\ HandsOK
    BY DEF TableInv, LedgerInv
  <1>2. /\ req[s] \in Request /\ req[s].call \in Calls
        /\ req[s].op # "timer" => req[s].user \in Users
        /\ req[s].op \in {"add", "kick"} => req[s].target \in Users
    BY <1>1, HandlerTypes DEF Typed
  <1>3. InHand(req[s], part[req[s].call], call[req[s].call]) /\ Fits(call, req[s])
    BY <1>1 DEF HandsOK, UnbornOK
  <1> QED BY <1>1, <1>2, <1>3, TableFacts

LEMMA Goes ==
    ASSUME Typed, NEW s \in Slots, NEW q, Goto(s, q)
    PROVE  req'[s] = q
  BY DEF Typed, TypeOK, Goto

LEMMA Rests ==
    ASSUME Typed, NEW s \in Slots, Done(s)
    PROVE  Carries(s)
  BY Goes DEF Done, Idle, Carries

\* Saving the rows as they are changes none of them
LEMMA SavesCall ==
    ASSUME Typed, NEW c \in Calls, Tidy(part[c]), NEW row \in CallRow, NEW diff,
           Exact(diff, row, call[c]), SaveCall(c, row, part[c], diff)
    PROVE  part' = part /\ call' = [call EXCEPT ![c] = row]
  <1>1. part \in [Calls -> [RowIds -> PartRow]] /\ call \in [Calls -> CallRow]
    BY DEF Typed, TypeOK
  <1>2. PICK ps : ps = part[c] /\ ps \in [RowIds -> PartRow]
    BY <1>1
  <1>3. PICK new : new = [i \in RowIds |->
                 [status |-> IF i \in diff.status THEN ps[i].status ELSE ps[i].status,
                  linked |-> (ps[i].linked \/ i \in diff.link) /\ i \notin diff.unlink]]
    OBVIOUS
  <1>4. \A i \in RowIds : new[i] = ps[i]
    BY <1>2, <1>3 DEF Exact, PartRow
  <1>5. new = ps
    BY <1>2, <1>3, <1>4
  <1>6. part' = [part EXCEPT ![c] = new]
    BY <1>2, <1>3 DEF SaveCall
  <1>7. part' = part
    BY <1>1, <1>2, <1>5, <1>6
  <1>8. PICK old : old = call[c] /\ old \in CallRow
    BY <1>1
  <1>9. PICK st, sa, ea, du :
          /\ st = IF "status" \in diff.cols THEN row.status ELSE old.status
          /\ sa = IF "startedAt" \in diff.cols THEN row.startedAt ELSE old.startedAt
          /\ ea = IF "endedAt" \in diff.cols THEN row.endedAt ELSE old.endedAt
          /\ du = IF "duration" \in diff.cols THEN row.duration ELSE old.duration
    OBVIOUS
  <1>10. st = row.status /\ sa = row.startedAt /\ ea = row.endedAt /\ du = row.duration
    BY <1>8, <1>9 DEF Exact, Columns
  <1>11. call' = [call EXCEPT ![c].status = st, ![c].startedAt = sa,
                              ![c].endedAt = ea, ![c].duration = du]
    BY <1>8, <1>9 DEF SaveCall
  <1>12. call' = [call EXCEPT ![c] = [old EXCEPT !.status = st, !.startedAt = sa,
                                                 !.endedAt = ea, !.duration = du]]
    BY <1>1, <1>8, <1>11
  <1>13. [old EXCEPT !.status = st, !.startedAt = sa, !.endedAt = ea, !.duration = du] = row
    BY <1>8, <1>10 DEF Exact, CallRow
  <1> QED BY <1>7, <1>12, <1>13

LEMMA StaysLinked ==
    ASSUME NEW q \in PartRow
    PROVE  /\ [q EXCEPT !.linked = TRUE] \in PartRow
           /\ [q EXCEPT !.linked = TRUE].status = q.status
           /\ [q EXCEPT !.linked = TRUE].linked
           /\ q.linked => [q EXCEPT !.linked = TRUE] = q
  BY DEF PartRow

\* Writing a row that is there, for a user who is in no other
LEMMA SavesPart ==
    ASSUME Typed, TablesTidy, NEW c \in Calls, Born(c), NEW i \in Rows(part[c]),
           NEW q \in PartRow, q.status # "none", SavePart(c, i, q)
    PROVE  /\ RowWritten(c)
           /\ part'[c] = [part[c] EXCEPT ![i] = [q EXCEPT !.linked = TRUE]]
           /\ RowEffect(part[c], i, [q EXCEPT !.linked = TRUE], part'[c])
           /\ call' = call
  <1>1. /\ part \in [Calls -> [RowIds -> PartRow]] /\ Tidy(part[c])
    BY DEF Typed, TypeOK, TablesTidy
  <1>2. PICK ps : ps = part[c] /\ ps \in [RowIds -> PartRow]
    BY <1>1
  <1>3. i \in RowIds /\ ps[i].linked = TRUE
    <2>1. i \in RowIds /\ ps[i] # NoPart
      BY <1>2 DEF Rows, NoPart
    <2>2. ps[i] \in PartRow /\ ps[i].linked
      BY <1>1, <1>2, <2>1 DEF Tidy
    <2> QED BY <2>1, <2>2 DEF PartRow
  <1>4. PICK p : p = [q EXCEPT !.linked = TRUE]
    OBVIOUS
  <1>5. p \in PartRow /\ p.status # "none" /\ p.linked
    BY <1>4, StaysLinked
  <1>6. part' = [part EXCEPT ![c] = [ps EXCEPT ![i] = p]] /\ call' = call
    BY <1>2, <1>3, <1>4 DEF SavePart
  <1>7. \A j \in Rows(ps) : j[1] = i[1] => j = i
    BY <1>1, <1>2 DEF Tidy
  <1>8. RowWritten(c)
    BY <1>2, <1>3, <1>5, <1>6, <1>7 DEF RowWritten
  <1>9. part'[c] = [ps EXCEPT ![i] = p]
    BY <1>1, <1>6
  <1>10. RowEffect(ps, i, p, part'[c])
    BY <1>1, <1>2, <1>3, <1>5, <1>7, <1>9, RowMoves
  <1> QED BY <1>2, <1>4, <1>6, <1>8, <1>9, <1>10

\* Where a step finds its handler, and the rows and the columns of its call
Finds(s, r, c, ps, row) ==
    /\ r = req[s] /\ c = r.call /\ ps = part[c] /\ row = call[c]
    /\ r \in Request /\ c \in Calls /\ ps \in [RowIds -> PartRow] /\ row \in CallRow
    /\ Tidy(ps) /\ LinkedRows(c) = ps
    /\ InHand(r, ps, row) /\ Fits(call, r)
    /\ r.op # "timer" => r.user \in Users
    /\ r.op \in {"add", "kick"} => r.target \in Users

LEMMA Found ==
    ASSUME TableInv, NEW s \in Slots, req[s].op # "idle"
    PROVE  \E r, c, ps, row : Finds(s, r, c, ps, row)
  BY AtWork DEF Finds

\* A step that only reads leaves the tables, and its handler holds what it read
LEMMA Reads ==
    ASSUME Typed, NEW s \in Slots, NEW r, NEW c, NEW ps, NEW row, Finds(s, r, c, ps, row),
           call' = call, part' = part, NEW q, Goto(s, q),
           q.op # "idle" => q.call = c /\ InHand(q, ps, row)
    PROVE  Moves(c) /\ Carries(s)
  BY Goes DEF Moves, Carries, Finds

LEMMA ReadsAndRests ==
    ASSUME Typed, NEW s \in Slots, NEW c, call' = call, part' = part, Done(s)
    PROVE  Moves(c) /\ Carries(s)
  BY Rests DEF Moves

LEMMA InitiateHand ==
    ASSUME TableInv, NEW s \in Slots, InitiateStep(s)
    PROVE  Moves(req[s].call) /\ Carries(s)
  <1>0. req[s].op = "initiate"
    BY DEF InitiateStep, InitiateLoad, InitiateInsertCall, InitiateInsertSelf,
           InitiateInsertPart, InitiateAnnounce, At
  <1>a. PICK r, c, ps, row : Finds(s, r, c, ps, row)
    BY <1>0, Found
  <1>b. /\ r = req[s] /\ r \in Request /\ c = r.call /\ c \in Calls /\ ps = part[c]
        /\ ps \in [RowIds -> PartRow] /\ Tidy(ps) /\ r.op = "initiate" /\ r.user \in Users
        /\ \A i \in Rows(ps) : i[2] = 1
        /\ r.pc \in {"insertCall", "insertSelf", "insertParts"} => r.todo \subseteq Users \X {1}
        /\ row = call[c] /\ row \in CallRow /\ InHand(r, ps, row)
    BY <1>0, <1>a DEF Finds, InHand
  <1>c. Typed /\ TablesTidy
    BY DEF TableInv, LedgerInv
  <1>d. Users \X {1} \subseteq RowIds
    BY CallsAssumption DEF RowIds, CallsAssumption
  <1>1. CASE InitiateLoad(s)
    <2>1. call' = call /\ part' = part
      BY <1>1 DEF InitiateLoad, OnlyReq, dbVars
    <2>2. CASE conv = Deleted
      BY <1>1, <1>b, <1>c, <2>1, <2>2, ReadsAndRests DEF InitiateLoad
    <2>3. CASE conv # Deleted
      <3>1. PICK T, rw : /\ Goto(s, [r EXCEPT !.pc = "insertCall", !.todo = T, !.row = rw])
                         /\ T = (conv \ {r.user}) \X {1}
        BY <1>1, <1>b, <2>3 DEF InitiateLoad
      <3>2. PICK q : q = [r EXCEPT !.pc = "insertCall", !.todo = T, !.row = rw]
        OBVIOUS
      <3>3. q.op = "initiate" /\ q.pc = "insertCall" /\ q.call = c /\ q.todo = T
        BY <1>b, <3>2 DEF Request
      <3>4. T \subseteq Users \X {1}
        <4>1. conv \subseteq Users
          BY <1>c, <2>3 DEF Typed, TypeOK
        <4> QED BY <3>1, <4>1
      <3>5. InHand(q, ps, row)
        BY <1>b, <3>3, <3>4 DEF InHand, Closing, Settling
      <3> QED BY <1>a, <1>b, <1>c, <2>1, <3>1, <3>2, <3>3, <3>5, Reads
    <2> QED BY <2>2, <2>3
  <1>2. CASE InitiateInsertCall(s)
    <2>1. /\ part' = part /\ call' = [call EXCEPT ![c] = r.row] /\ r.pc = "insertCall"
          /\ Goto(s, [r EXCEPT !.pc = "insertSelf"])
      BY <1>2, <1>b DEF InitiateInsertCall, At
    <2>2. ~Born(c) /\ r.row.status = "ringing" /\ r.row \in CallRow
      BY <1>a, <1>b, <2>1 DEF Finds, Fits, Starting, Born, Request
    <2>3. Moves(c)
      BY <2>1, <2>2 DEF Moves, CallWritten, Turns
    <2>4. PICK q : q = [r EXCEPT !.pc = "insertSelf"]
      OBVIOUS
    <2>5. q.op = "initiate" /\ q.pc = "insertSelf" /\ q.call = c /\ q.todo = r.todo
      BY <1>b, <2>4 DEF Request
    <2>6. \A any : InHand(q, ps, any)
      BY <1>b, <2>1, <2>5 DEF InHand, Closing, Settling
    <2>7. req'[s] = q
      BY <1>c, <2>1, <2>4, Goes
    <2> QED BY <1>b, <2>1, <2>3, <2>5, <2>6, <2>7 DEF Carries
  <1>3. CASE InitiateInsertSelf(s) \/ InitiateInsertPart(s)
    <2> DEFINE Inserts(i, p, T, pc) ==
          /\ i \in Users \X {1} /\ p \in {Invited, Joined(Invited)}
          /\ call' = call /\ part' = [part EXCEPT ![c][i] = p]
          /\ Goto(s, [r EXCEPT !.todo = T, !.pc = pc]) /\ T \subseteq r.todo
          /\ r.pc \in {"insertSelf", "insertParts"} /\ pc \in {"insertParts", "announce"}
    <2>0. \E i, p, T, pc : Inserts(i, p, T, pc)
      <3>1. CASE InitiateInsertSelf(s)
        <4>1. PICK pc :
                /\ call' = call /\ part' = [part EXCEPT ![c][<<r.user, 1>>] = Joined(Invited)]
                /\ r.pc = "insertSelf" /\ pc \in {"insertParts", "announce"}
                /\ Goto(s, [r EXCEPT !.pc = pc])
          BY <1>b, <3>1 DEF InitiateInsertSelf, At
        <4>2. [r EXCEPT !.todo = r.todo, !.pc = pc] = [r EXCEPT !.pc = pc]
          BY <1>b DEF Request
        <4>3. Inserts(<<r.user, 1>>, Joined(Invited), r.todo, pc)
          BY <1>b, <4>1, <4>2
        <4> HIDE DEF Inserts
        <4> QED BY <4>3
      <3>2. CASE InitiateInsertPart(s)
        <4>1. PICK i, pc :
                /\ i \in r.todo
                /\ call' = call /\ part' = [part EXCEPT ![c][i] = Invited]
                /\ r.pc = "insertParts" /\ pc \in {"insertParts", "announce"}
                /\ Goto(s, [r EXCEPT !.todo = r.todo \ {i}, !.pc = pc])
          BY <1>b, <3>2 DEF InitiateInsertPart, At, Request
        <4>2. Inserts(i, Invited, r.todo \ {i}, pc)
          BY <1>b, <4>1
        <4> HIDE DEF Inserts
        <4> QED BY <4>2
      <3> QED BY <1>3, <3>1, <3>2
    <2>1. PICK i, p, T, pc : Inserts(i, p, T, pc)
      BY <2>0
    <2>2. p \in PartRow /\ p.status # "none" /\ p.linked
      BY <2>1 DEF Invited, Joined, NoPart, PartRow, PartStatus
    <2>3. i \in RowIds /\ i[2] = 1
      BY <1>d, <2>1
    <2>4. \A j \in Rows(ps) : j[1] = i[1] => j = i
      BY <1>b, <2>3 DEF Rows, RowIds
    <2>5. part \in [Calls -> [RowIds -> PartRow]]
      BY <1>c DEF Typed, TypeOK
    <2>6. part' = [part EXCEPT ![c] = [ps EXCEPT ![i] = p]]
      BY <1>b, <2>1, <2>5
    <2>7. Born(c)
      BY <1>a, <1>b, <2>1 DEF Finds, Fits, Starting, Born
    <2>8. Moves(c)
      BY <1>b, <2>1, <2>2, <2>3, <2>4, <2>6, <2>7 DEF Moves, RowWritten
    <2>9. PICK new : new = [ps EXCEPT ![i] = p]
      OBVIOUS
    <2>10. RowEffect(ps, i, p, new)
      BY <1>b, <2>2, <2>3, <2>4, <2>9, RowMoves
    <2>11. Rows(new) = Rows(ps) \cup {i}
      BY <2>10 DEF RowEffect
    <2>12. PICK q : q = [r EXCEPT !.todo = T, !.pc = pc]
      OBVIOUS
    <2>13. q.op = "initiate" /\ q.call = c /\ q.todo = T /\ q.pc # "writeCall"
      BY <1>b, <2>1, <2>12 DEF Request
    <2>14. T \subseteq Users \X {1}
      BY <1>b, <2>1
    <2>15. \A any : InHand(q, new, any)
      BY <1>b, <2>3, <2>11, <2>13, <2>14 DEF InHand, Closing, Settling
    <2>16. req'[s] = q /\ part'[c] = new
      BY <1>b, <1>c, <2>1, <2>5, <2>6, <2>9, <2>12, Goes
    <2> QED BY <1>b, <2>8, <2>13, <2>15, <2>16 DEF Carries
  <1>4. CASE InitiateAnnounce(s)
    BY <1>4, <1>b, <1>c, ReadsAndRests DEF InitiateAnnounce, dbVars
  <1> QED BY <1>1, <1>2, <1>3, <1>4 DEF InitiateStep

\* Saving the call with the rows as they are
LEMMA WritesCall ==
    ASSUME Typed, NEW s \in Slots, NEW r, NEW c, NEW ps, NEW row, Finds(s, r, c, ps, row),
           NEW new \in CallRow, NEW diff, Exact(diff, new, row),
           SaveCall(c, new, ps, diff), Turns(c, new),
           NEW q, Goto(s, q), q.op # "idle" => q.call = c /\ InHand(q, ps, new)
    PROVE  Moves(c) /\ Carries(s)
  <1>1. c \in Calls /\ ps = part[c] /\ Tidy(ps) /\ row = call[c]
    BY DEF Finds
  <1>2. part' = part /\ call' = [call EXCEPT ![c] = new]
    BY <1>1, SavesCall
  <1>3. call'[c] = new
    BY <1>1, <1>2 DEF Typed, TypeOK
  <1>4. CallWritten(c)
    BY <1>2 DEF CallWritten
  <1>5. Carries(s)
    BY <1>1, <1>2, <1>3, Goes DEF Carries
  <1> QED BY <1>4, <1>5 DEF Moves

\* The rows of c after row i was saved as p
Wrote(c, ps, i, p, row) ==
    /\ i \in RowIds /\ call'[c] = row
    /\ \E b : /\ part'[c] = [ps EXCEPT ![i] = b] /\ RowEffect(ps, i, b, part'[c])
              /\ b.status = p.status /\ (p.linked => b = p)

\* Saving one row of the call
LEMMA WritesPart ==
    ASSUME Typed, TablesTidy, NEW s \in Slots, NEW r, NEW c, NEW ps, NEW row,
           Finds(s, r, c, ps, row), Born(c), NEW i \in Rows(ps), NEW p \in PartRow,
           p.status # "none", SavePart(c, i, p)
    PROVE  Moves(c) /\ Wrote(c, ps, i, p, row)
  <1>1. c \in Calls /\ ps = part[c] /\ row = call[c]
    BY DEF Finds
  <1>2. /\ RowWritten(c) /\ call' = call
        /\ part'[c] = [part[c] EXCEPT ![i] = [p EXCEPT !.linked = TRUE]]
        /\ RowEffect(part[c], i, [p EXCEPT !.linked = TRUE], part'[c])
    BY <1>1, SavesPart
  <1>3. i \in RowIds
    BY DEF Rows
  <1>4. Moves(c)
    BY <1>2 DEF Moves
  <1>5. PICK b : b = [p EXCEPT !.linked = TRUE]
    OBVIOUS
  <1>6. b.status = p.status /\ (p.linked => b = p)
    BY <1>5, StaysLinked
  <1>7. part'[c] = [ps EXCEPT ![i] = b] /\ RowEffect(ps, i, b, part'[c]) /\ call'[c] = row
    BY <1>1, <1>2, <1>5
  <1>8. Wrote(c, ps, i, p, row)
    BY <1>3, <1>6, <1>7 DEF Wrote
  <1> QED BY <1>4, <1>8

LEMMA TidyRow ==
    ASSUME NEW ps \in [RowIds -> PartRow], Tidy(ps), NEW i \in Rows(ps)
    PROVE  i \in RowIds /\ ps[i] \in PartRow /\ ps[i].status # "none" /\ ps[i].linked
  BY DEF Rows, Tidy, NoPart

LEMMA AcceptHand ==
    ASSUME TableInv, NEW s \in Slots, AcceptStep(s)
    PROVE  Moves(req[s].call) /\ Carries(s)
  <1>0. req[s].op = "accept"
    BY DEF AcceptStep, AcceptLoad, AcceptSaveCall, AcceptSavePart, AcceptFinish, At
  <1>a. PICK r, c, ps, row : Finds(s, r, c, ps, row)
    BY <1>0, Found
  <1>b. /\ r = req[s] /\ r \in Request /\ c = r.call /\ c \in Calls /\ ps = part[c]
        /\ ps \in [RowIds -> PartRow] /\ Tidy(ps) /\ r.op = "accept" /\ r.user \in Users
        /\ row = call[c] /\ row \in CallRow /\ InHand(r, ps, row) /\ LinkedRows(c) = ps
    BY <1>0, <1>a DEF Finds
  <1>c. Typed /\ TablesTidy
    BY DEF TableInv, LedgerInv
  <1>d. Born(c)
    BY <1>a, <1>b DEF Finds, Fits, Starting, Born
  <1>1. CASE AcceptLoad(s)
    <2>1. call' = call /\ part' = part
      BY <1>1 DEF AcceptLoad, OnlyReq, dbVars
    <2>2. PICK l : l = [r EXCEPT !.row = row, !.parts = ps]
      OBVIOUS
    <2>3. /\ l \in Request /\ l.op = "accept" /\ l.call = c /\ l.row = row /\ l.parts = ps
      BY <1>b, <2>2 DEF Request
    <2>4. CASE row.status = "ringing"
      <3>1. PICK q : /\ q = [l EXCEPT !.pc = "saveCall",
                                      !.row = [@ EXCEPT !.status = "active", !.startedAt = TRUE]]
                     /\ Goto(s, q)
        BY <1>1, <1>b, <2>2, <2>4 DEF AcceptLoad
      <3>2. PICK rw : rw = [row EXCEPT !.status = "active", !.startedAt = TRUE]
        OBVIOUS
      <3>3. q = [l EXCEPT !.pc = "saveCall", !.row = rw]
        BY <2>3, <3>1, <3>2
      <3>4. q.op = "accept" /\ q.pc = "saveCall" /\ q.call = c /\ q.parts = ps /\ q.row = rw
        BY <2>3, <3>3 DEF Request
      <3>5. InHand(q, ps, row)
        BY <2>4, <3>2, <3>4 DEF InHand, Closing, Settling
      <3> QED BY <1>a, <1>b, <1>c, <2>1, <3>1, <3>4, <3>5, Reads
    <2>5. CASE row.status # "ringing"
      <3>1. PICK q, pc : /\ q = [l EXCEPT !.pc = pc] /\ Goto(s, q)
                         /\ pc \in {"finish", "savePart"}
        BY <1>1, <1>b, <2>2, <2>5 DEF AcceptLoad, AfterAccept
      <3>2. q.op = "accept" /\ q.pc \in {"finish", "savePart"} /\ q.call = c /\ q.parts = ps
        BY <2>3, <3>1 DEF Request
      <3>3. InHand(q, ps, row)
        BY <3>2 DEF InHand, Closing, Settling
      <3> QED BY <1>a, <1>b, <1>c, <2>1, <3>1, <3>2, <3>3, Reads
    <2> QED BY <2>4, <2>5
  <1>2. CASE AcceptSaveCall(s)
    <2>1. /\ r.pc = "writeCall" /\ SaveCall(c, r.row, r.parts, r.diff)
          /\ Goto(s, [Written(r) EXCEPT !.pc = AfterAccept(r)])
      BY <1>2, <1>b DEF AcceptSaveCall, At
    <2>w. PICK w : w = Written(r)
      OBVIOUS
    <2>v. w \in Request /\ w.op = r.op /\ w.call = c
      BY <1>b, <2>w, WrittenSame DEF SameHandler
    <2>x. Exact(r.diff, r.row, row)
      BY <1>b, <2>1 DEF InHand
    <2>2. /\ r.parts = ps /\ row.status = "ringing"
          /\ r.row = [row EXCEPT !.status = "active", !.startedAt = TRUE]
      BY <1>b, <2>1 DEF InHand, Settling
    <2>3. r.row \in CallRow /\ r.row.scope = row.scope /\ r.row.status = "active"
      BY <1>b, <2>2 DEF CallRow, Request
    <2>4. Turns(c, r.row)
      BY <1>b, <1>d, <2>2, <2>3 DEF Turns
    <2>5. PICK q, pc : /\ q = [w EXCEPT !.pc = pc] /\ Goto(s, q)
                       /\ pc \in {"finish", "savePart"}
      BY <2>1, <2>w DEF AfterAccept
    <2>6. q.op = "accept" /\ q.pc \in {"finish", "savePart"} /\ q.call = c /\ q.parts = ps
      BY <1>b, <2>2, <2>5, <2>v, <2>w, WrittenSame DEF Request
    <2>7. InHand(q, ps, r.row)
      BY <2>6 DEF InHand, Closing, Settling
    <2>8. PICK new : new = r.row
      OBVIOUS
    <2>9. SaveCall(c, new, ps, r.diff) /\ Exact(r.diff, new, row) /\ new \in CallRow /\ Turns(c, new) /\ InHand(q, ps, new)
      BY <2>1, <2>2, <2>3, <2>4, <2>7, <2>8, <2>x
    <2> QED BY <1>a, <1>b, <1>c, <2>5, <2>6, <2>9, WritesCall
  <1>3. CASE AcceptSavePart(s)
    <2>1. PICK i \in RowsOf(r.parts, r.user) : SavePart(c, i, Joined(r.parts[i]))
      BY <1>3, <1>b DEF AcceptSavePart
    <2>2. r.pc = "savePart" /\ Goto(s, [r EXCEPT !.pc = "finish"])
      BY <1>3, <1>b DEF AcceptSavePart, At
    <2>3. r.parts = ps
      BY <1>b, <2>2 DEF InHand, Settling
    <2>4. i \in Rows(ps) /\ ps[i] \in PartRow
      BY <1>b, <2>1, <2>3, TidyRow DEF RowsOf
    <2>5. Joined(ps[i]) \in PartRow /\ Joined(ps[i]).status # "none"
      BY <2>4, PartTypes DEF Joined, PartRow
    <2>6. Moves(c)
      BY <1>a, <1>c, <1>d, <2>1, <2>3, <2>4, <2>5, WritesPart
    <2>7. PICK q : q = [r EXCEPT !.pc = "finish"]
      OBVIOUS
    <2>8. q.op = "accept" /\ q.pc = "finish"
      BY <1>b, <2>7 DEF Request
    <2>9. \A any, some : InHand(q, any, some)
      BY <2>8 DEF InHand, Closing, Settling
    <2> QED BY <1>b, <1>c, <2>2, <2>6, <2>7, <2>9, Goes DEF Carries
  <1>4. CASE AcceptFinish(s)
    BY <1>4, <1>b, <1>c, ReadsAndRests DEF AcceptFinish, dbVars
  <1> QED BY <1>1, <1>2, <1>3, <1>4, <1>b DEF AcceptStep

LEMMA DeclineHand ==
    ASSUME TableInv, NEW s \in Slots, DeclineStep(s)
    PROVE  Moves(req[s].call) /\ Carries(s)
  <1>0. req[s].op = "decline"
    BY DEF DeclineStep, DeclineLoad, DeclineSavePart, DeclineSaveCall, DeclineFinish, At
  <1>a. PICK r, c, ps, row : Finds(s, r, c, ps, row)
    BY <1>0, Found
  <1>b. /\ r = req[s] /\ r \in Request /\ c = r.call /\ c \in Calls /\ ps = part[c]
        /\ ps \in [RowIds -> PartRow] /\ Tidy(ps) /\ r.op = "decline" /\ r.user \in Users
        /\ row = call[c] /\ row \in CallRow /\ InHand(r, ps, row) /\ LinkedRows(c) = ps
    BY <1>0, <1>a DEF Finds
  <1>c. Typed /\ TablesTidy
    BY DEF TableInv, LedgerInv
  <1>d. Born(c)
    BY <1>a, <1>b DEF Finds, Fits, Starting, Born
  <1>e. ASSUME NEW l \in Request, l.op = "decline", l.call = c, l.row = row,
               NEW qs, l.parts = qs
        PROVE  /\ AfterDecline(l).op = "decline" /\ AfterDecline(l).call = c
               /\ InHand(AfterDecline(l), qs, row)
    <2>1. PICK q : q = AfterDecline(l)
      OBVIOUS
    <2>2. CASE row.scope = "dm"
      <3>1. PICK rw : rw = Declined(row)
        OBVIOUS
      <3>2. q = [l EXCEPT !.pc = "saveCall", !.row = rw]
        BY <1>e, <2>1, <2>2, <3>1 DEF AfterDecline, Request
      <3>3. /\ q.op = "decline" /\ q.pc = "saveCall" /\ q.call = c /\ q.parts = qs /\ q.row = rw
        BY <1>e, <3>2 DEF Request
      <3>4. InHand(q, qs, row)
        BY <2>2, <3>1, <3>3 DEF InHand, Closing, Settling
      <3> QED BY <2>1, <3>3, <3>4
    <2>3. CASE row.scope # "dm"
      <3>1. q = [l EXCEPT !.pc = "finish"]
        BY <1>e, <2>1, <2>3 DEF AfterDecline
      <3>2. q.op = "decline" /\ q.pc = "finish" /\ q.call = c
        BY <1>e, <3>1 DEF Request
      <3>3. InHand(q, qs, row)
        BY <3>2 DEF InHand, Closing, Settling
      <3> QED BY <2>1, <3>2, <3>3
    <2> QED BY <2>2, <2>3
  <1>1. CASE DeclineLoad(s)
    <2>1. call' = call /\ part' = part
      BY <1>1 DEF DeclineLoad, OnlyReq, dbVars
    <2>2. PICK l : l = [r EXCEPT !.row = row, !.parts = ps]
      OBVIOUS
    <2>3. /\ l \in Request /\ l.op = "decline" /\ l.call = c /\ l.row = row /\ l.parts = ps
      BY <1>b, <2>2 DEF Request
    <2>4. Goto(s, AfterDecline(l)) \/ Goto(s, [l EXCEPT !.pc = "savePart"])
      BY <1>1, <1>b, <2>2 DEF DeclineLoad
    <2>5. CASE Goto(s, AfterDecline(l))
      BY <1>a, <1>b, <1>c, <1>e, <2>1, <2>3, <2>5, Reads
    <2>6. CASE Goto(s, [l EXCEPT !.pc = "savePart"])
      <3>1. PICK q : q = [l EXCEPT !.pc = "savePart"]
        OBVIOUS
      <3>2. q.op = "decline" /\ q.pc = "savePart" /\ q.call = c /\ q.parts = ps /\ q.row = row
        BY <2>3, <3>1 DEF Request
      <3>3. InHand(q, ps, row)
        BY <3>2 DEF InHand, Closing, Settling
      <3> QED BY <1>a, <1>b, <1>c, <2>1, <2>6, <3>1, <3>2, <3>3, Reads
    <2> QED BY <2>4, <2>5, <2>6
  <1>2. CASE DeclineSavePart(s)
    <2>1. r.pc = "savePart"
      BY <1>2, <1>b DEF DeclineSavePart, At
    <2>2. r.parts = ps /\ r.row = row
      BY <1>b, <2>1 DEF InHand, Settling
    <2>3. PICK i, p :
            /\ i \in RowsOf(ps, r.user)
            /\ p = [ps[i] EXCEPT !.status = "declined"] /\ SavePart(c, i, p)
            /\ Goto(s, AfterDecline([r EXCEPT !.parts[i] = p]))
      BY <1>2, <1>b, <2>2 DEF DeclineSavePart
    <2>4. i \in Rows(ps) /\ ps[i] \in PartRow /\ ps[i].linked /\ i \in RowIds
      BY <1>b, <2>3, TidyRow DEF RowsOf
    <2>5. p \in PartRow /\ p.status # "none" /\ p.linked
      BY <2>3, <2>4 DEF PartRow, PartStatus
    <2>6. Moves(c) /\ Wrote(c, ps, i, p, row)
      BY <1>a, <1>c, <1>d, <2>3, <2>4, <2>5, WritesPart
    <2>7. PICK new : new = part'[c]
      OBVIOUS
    <2>8. new = [ps EXCEPT ![i] = p] /\ call'[c] = row
      BY <2>5, <2>6, <2>7 DEF Wrote
    <2>9. PICK l : l = [r EXCEPT !.parts = new]
      OBVIOUS
    <2>10. new \in [RowIds -> PartRow]
      BY <1>b, <2>4, <2>5, <2>8
    <2>11. /\ l \in Request /\ l.op = "decline" /\ l.call = c /\ l.row = row /\ l.parts = new
      BY <1>b, <2>2, <2>9, <2>10 DEF Request
    <2>12. [r EXCEPT !.parts[i] = p] = l
      BY <1>b, <2>2, <2>8, <2>9
    <2>13. req'[s] = AfterDecline(l)
      BY <1>c, <2>3, <2>12, Goes
    <2> QED BY <1>b, <1>e, <2>6, <2>7, <2>8, <2>11, <2>13 DEF Carries
  <1>3. CASE DeclineSaveCall(s)
    <2>1. /\ r.pc = "writeCall" /\ SaveCall(c, r.row, r.parts, r.diff)
          /\ Goto(s, [Written(r) EXCEPT !.pc = "finish"])
      BY <1>3, <1>b DEF DeclineSaveCall, At
    <2>w. PICK w : w = Written(r)
      OBVIOUS
    <2>v. w \in Request /\ w.op = r.op /\ w.call = c
      BY <1>b, <2>w, WrittenSame DEF SameHandler
    <2>x. Exact(r.diff, r.row, row)
      BY <1>b, <2>1 DEF InHand
    <2>2. r.parts = ps /\ r.row = Declined(row) /\ row.scope = "dm"
      BY <1>b, <2>1 DEF InHand, Settling
    <2>3. r.row \in CallRow /\ r.row.scope = row.scope /\ r.row.status = "declined"
      BY <1>b, <2>2 DEF Declined, CallRow, Request
    <2>4. Turns(c, r.row)
      BY <1>b, <1>d, <2>2, <2>3 DEF Turns
    <2>5. PICK q : q = [w EXCEPT !.pc = "finish"]
      OBVIOUS
    <2>6. q.op = "decline" /\ q.pc = "finish" /\ q.call = c
      BY <1>b, <2>5, <2>v DEF Request
    <2>7. InHand(q, ps, r.row)
      BY <2>6 DEF InHand, Closing, Settling
    <2>8. PICK new : new = r.row
      OBVIOUS
    <2>9. SaveCall(c, new, ps, r.diff) /\ Exact(r.diff, new, row) /\ new \in CallRow /\ Turns(c, new) /\ InHand(q, ps, new)
      BY <2>1, <2>2, <2>3, <2>4, <2>7, <2>8, <2>x
    <2> QED BY <1>a, <1>b, <1>c, <2>1, <2>w, <2>5, <2>6, <2>9, WritesCall
  <1>4. CASE DeclineFinish(s)
    BY <1>4, <1>b, <1>c, ReadsAndRests DEF DeclineFinish, dbVars
  <1> QED BY <1>1, <1>2, <1>3, <1>4, <1>b DEF DeclineStep
\* A disconnect that goes on to the next call has read nothing of it yet
LEMMA SweepHand ==
    ASSUME Typed, NEW s \in Slots, NEW r \in Request, r.op = "disconnect",
           NEW act, NEW ros, \E q \in Sweep(r, act, ros) : Goto(s, q)
    PROVE  Carries(s)
  <1>1. PICK q \in Sweep(r, act, ros) : Goto(s, q)
    OBVIOUS
  <1>2. CASE q.op = "idle"
    BY <1>1, <1>2, Goes DEF Carries
  <1>3. CASE q.op # "idle"
    <2>1. q.op = "disconnect" /\ q.pc = "load"
      BY <1>3, SweepNext, SweepFresh
    <2>2. \A ps, row : InHand(q, ps, row)
      BY <2>1 DEF InHand, Closing, Settling
    <2> QED BY <1>1, <2>2, Goes DEF Carries
  <1> QED BY <1>2, <1>3

LEMMA HasLeftRow ==
    ASSUME NEW p \in PartRow
    PROVE  /\ HasLeft(p) \in PartRow /\ HasLeft(p).status = "left"
           /\ HasLeft(p).linked = p.linked
  BY DEF HasLeft, PartRow, PartStatus

LEMMA EndHand ==
    ASSUME TableInv, NEW s \in Slots, EndStep(s)
    PROVE  Moves(req[s].call) /\ Carries(s)
  <1>0. req[s].op \in {"end", "disconnect"}
    BY DEF EndStep, EndLoad, EndSavePart, EndSaveCall, EndSaveRest, EndFinish,
           DisconnectFinish, Ending, At
  <1>a. PICK r, c, ps, row : Finds(s, r, c, ps, row)
    BY <1>0, Found
  <1>b. /\ r = req[s] /\ r \in Request /\ c = r.call /\ c \in Calls /\ ps = part[c]
        /\ ps \in [RowIds -> PartRow] /\ Tidy(ps) /\ r.op \in {"end", "disconnect"}
        /\ row = call[c] /\ row \in CallRow /\ InHand(r, ps, row) /\ LinkedRows(c) = ps
        /\ r.user \in Users
    BY <1>0, <1>a DEF Finds
  <1>c. Typed /\ TablesTidy
    BY DEF TableInv, LedgerInv
  <1>d. Born(c)
    BY <1>a, <1>b DEF Finds, Fits, Starting, Born
  <1>e. ASSUME NEW l \in Request, l.op = r.op, l.call = c, l.row = row, NEW qs, l.parts = qs
        PROVE  /\ AfterLeave(l).op = r.op /\ AfterLeave(l).call = c
               /\ InHand(AfterLeave(l), qs, row)
    <2>1. PICK q : q = AfterLeave(l)
      OBVIOUS
    <2>2. CASE row.scope = "dm" \/ JoinedRows(qs) = {}
      <3>1. PICK rw : rw = Ended(row)
        OBVIOUS
      <3>2. q = [l EXCEPT !.pc = "saveCall", !.row = rw]
        BY <1>e, <2>1, <2>2, <3>1 DEF AfterLeave, Request
      <3>3. q.op = r.op /\ q.pc = "saveCall" /\ q.call = c /\ q.parts = qs /\ q.row = rw
        BY <1>e, <3>2 DEF Request
      <3>4. InHand(q, qs, row)
        BY <1>b, <2>2, <3>1, <3>3 DEF InHand, Closing, Settling
      <3> QED BY <2>1, <3>3, <3>4
    <2>3. CASE ~(row.scope = "dm" \/ JoinedRows(qs) = {})
      <3>1. q = [l EXCEPT !.pc = "left"]
        BY <1>e, <2>1, <2>3 DEF AfterLeave
      <3>2. q.op = r.op /\ q.pc = "left" /\ q.call = c
        BY <1>e, <3>1 DEF Request
      <3>3. InHand(q, qs, row)
        BY <1>b, <3>2 DEF InHand, Closing, Settling
      <3> QED BY <2>1, <3>2, <3>3
    <2> QED BY <2>2, <2>3
  <1>1. CASE EndLoad(s)
    <2>1. call' = call /\ part' = part
      BY <1>1 DEF EndLoad, OnlyReq, dbVars
    <2>2. PICK l : l = [r EXCEPT !.row = row, !.parts = ps]
      OBVIOUS
    <2>3. /\ l \in Request /\ l.op = r.op /\ l.call = c /\ l.row = row /\ l.parts = ps
      BY <1>b, <2>2 DEF Request
    <2>4. \/ Goto(s, AfterLeave(l))
          \/ \E i \in RowsOf(ps, r.user) :
               Goto(s, [l EXCEPT !.pc = "savePart", !.todo = {i}, !.parts[i] = HasLeft(@)])
      <3>1. l.user = r.user
        BY <1>b, <2>2 DEF Request
      <3> QED BY <1>1, <1>b, <2>2, <2>3, <3>1 DEF EndLoad
    <2>5. CASE Goto(s, AfterLeave(l))
      BY <1>a, <1>b, <1>c, <1>e, <2>1, <2>3, <2>5, Reads
    <2>6. ASSUME NEW i \in RowsOf(ps, r.user),
                 Goto(s, [l EXCEPT !.pc = "savePart", !.todo = {i}, !.parts[i] = HasLeft(@)])
          PROVE  Moves(c) /\ Carries(s)
      <3>1. PICK qs : qs = [ps EXCEPT ![i] = HasLeft(@)]
        OBVIOUS
      <3>2. PICK q : q = [l EXCEPT !.pc = "savePart", !.todo = {i}, !.parts = qs]
        OBVIOUS
      <3>3. Goto(s, q)
        <4>1. [l.parts EXCEPT ![i] = HasLeft(@)] = qs
          BY <2>3, <3>1
        <4> QED BY <2>3, <2>6, <3>2, <4>1 DEF Request
      <3>4. /\ q.op = r.op /\ q.pc = "savePart" /\ q.call = c /\ q.parts = qs
            /\ q.row = row /\ q.todo = {i} /\ q.user = r.user
        BY <1>b, <2>2, <3>2 DEF Request
      <3>5. InHand(q, ps, row)
        BY <1>b, <3>1, <3>4 DEF InHand, Closing, Settling
      <3> QED BY <1>a, <1>b, <1>c, <2>1, <3>3, <3>4, <3>5, Reads
    <2> QED BY <1>b, <2>4, <2>5, <2>6
  <1>2. CASE EndSavePart(s)
    <2>1. r.pc = "savePart"
      BY <1>2, <1>b DEF EndSavePart, Ending, At
    <2>2. PICK i \in RowsOf(ps, r.user) :
            /\ r.todo = {i} /\ r.parts = [ps EXCEPT ![i] = HasLeft(@)] /\ r.row = row
      BY <1>b, <2>1 DEF InHand, Closing, Settling
    <2>3. i \in Rows(ps) /\ ps[i] \in PartRow /\ ps[i].linked /\ i \in RowIds
      BY <1>b, <2>2, TidyRow DEF RowsOf
    <2>4. PICK p : p = HasLeft(ps[i])
      OBVIOUS
    <2>5. p \in PartRow /\ p.status # "none" /\ p.linked
      BY <2>3, <2>4, HasLeftRow
    <2>6. SavePart(c, i, p) /\ Goto(s, AfterLeave([r EXCEPT !.todo = {}]))
      BY <1>2, <1>b, <2>2, <2>3, <2>4 DEF EndSavePart
    <2>7. Moves(c) /\ Wrote(c, ps, i, p, row)
      BY <1>a, <1>c, <1>d, <2>3, <2>5, <2>6, WritesPart
    <2>8. part'[c] = r.parts /\ call'[c] = row
      BY <2>2, <2>4, <2>5, <2>7 DEF Wrote
    <2>9. PICK l : l = [r EXCEPT !.todo = {}]
      OBVIOUS
    <2>10. /\ l \in Request /\ l.op = r.op /\ l.call = c /\ l.row = row /\ l.parts = r.parts
      BY <1>b, <2>2, <2>9 DEF Request
    <2>11. req'[s] = AfterLeave(l)
      BY <1>c, <2>6, <2>9, Goes
    <2> QED BY <1>b, <1>e, <2>7, <2>8, <2>10, <2>11 DEF Carries
  <1>3. CASE EndSaveCall(s)
    <2>1. r.pc = "writeCall" /\ SaveCall(c, r.row, r.parts, r.diff)
      BY <1>3, <1>b DEF EndSaveCall, Ending, At
    <2>w. PICK w : w = Written(r)
      OBVIOUS
    <2>v. w \in Request /\ w.op = r.op /\ w.call = c
      BY <1>b, <2>w, WrittenSame DEF SameHandler
    <2>x. Exact(r.diff, r.row, row)
      BY <1>b, <2>1 DEF InHand
    <2>2. r.parts = ps /\ r.row = Ended(row) /\ (row.scope = "dm" \/ JoinedRows(ps) = {})
      BY <1>b, <2>1 DEF InHand, Closing, Settling
    <2>3. r.row \in CallRow /\ r.row.scope = row.scope /\ r.row.status = "ended"
      BY <1>b, <2>2 DEF Ended, CallRow, Request
    <2>4. Turns(c, r.row)
      BY <1>b, <1>d, <2>2, <2>3 DEF Turns
    <2>5. PICK q, pc : /\ q = [w EXCEPT !.todo = JoinedRows(ps), !.pc = pc] /\ Goto(s, q)
                       /\ pc \in {"ended", "saveRest"}
      BY <1>3, <1>b, <2>2, <2>w DEF EndSaveCall
    <2>6. q.op = r.op /\ q.pc \in {"ended", "saveRest"} /\ q.call = c /\ q.todo = JoinedRows(ps)
      BY <1>b, <2>5, <2>v DEF Request
    <2>7. JoinedRows(ps) \subseteq Rows(ps)
      BY DEF JoinedRows, Rows
    <2>8. InHand(q, ps, r.row)
      BY <1>b, <2>6, <2>7 DEF InHand, Closing, Settling
    <2>9. PICK new : new = r.row
      OBVIOUS
    <2>10. SaveCall(c, new, ps, r.diff) /\ Exact(r.diff, new, row) /\ new \in CallRow /\ Turns(c, new) /\ InHand(q, ps, new)
      BY <2>1, <2>2, <2>3, <2>4, <2>8, <2>9, <2>x
    <2> QED BY <1>a, <1>b, <1>c, <2>5, <2>6, <2>10, WritesCall
  <1>4. CASE EndSaveRest(s)
    <2>1. r.pc = "saveRest"
      BY <1>4, <1>b DEF EndSaveRest, Ending, At
    <2>2. r.todo \subseteq Rows(ps)
      BY <1>b, <2>1 DEF InHand, Closing, Settling
    <2>3. PICK i, p, pc : /\ i \in r.todo /\ p = HasLeft(r.parts[i]) /\ SavePart(c, i, p)
                          /\ pc \in {"ended", "saveRest"}
                          /\ Goto(s, [r EXCEPT !.todo = r.todo \ {i}, !.pc = pc])
      BY <1>4, <1>b, <2>1 DEF EndSaveRest, Request
    <2>4. i \in Rows(ps) /\ r.parts[i] \in PartRow
      BY <1>b, <2>2, <2>3 DEF Rows, Request
    <2>5. p \in PartRow /\ p.status # "none"
      BY <2>3, <2>4, HasLeftRow
    <2>6. Moves(c) /\ Wrote(c, ps, i, p, row)
      BY <1>a, <1>c, <1>d, <2>3, <2>4, <2>5, WritesPart
    <2>7. Rows(part'[c]) = Rows(ps) \cup {i}
      BY <2>6 DEF Wrote, RowEffect
    <2>8. PICK q, T : q = [r EXCEPT !.todo = T, !.pc = pc] /\ T = r.todo \ {i}
      OBVIOUS
    <2>9. q.op = r.op /\ q.pc \in {"ended", "saveRest"} /\ q.call = c /\ q.todo = T
      BY <1>b, <2>3, <2>8 DEF Request
    <2>10. T \subseteq Rows(part'[c])
      BY <2>2, <2>7, <2>8
    <2>11. \A any : InHand(q, part'[c], any)
      BY <1>b, <2>9, <2>10 DEF InHand, Closing, Settling
    <2>12. req'[s] = q
      BY <1>c, <2>3, <2>8, Goes
    <2> QED BY <1>b, <2>6, <2>9, <2>11, <2>12 DEF Carries
  <1>5. CASE EndFinish(s)
    BY <1>5, <1>b, <1>c, ReadsAndRests DEF EndFinish, dbVars
  <1>6. CASE DisconnectFinish(s)
    <2>1. /\ r.op = "disconnect" /\ call' = call /\ part' = part
          /\ \E q \in Sweep(r, active', roster') : Goto(s, q)
      BY <1>6, <1>b DEF DisconnectFinish, At, dbVars
    <2>2. Carries(s)
      BY <1>b, <1>c, <2>1, SweepHand
    <2> QED BY <2>1, <2>2 DEF Moves
  <1> QED BY <1>1, <1>2, <1>3, <1>4, <1>5, <1>6, <1>b DEF EndStep
LEMMA InvitedRow == Invited \in PartRow /\ Invited.status = "invited" /\ Invited.linked
  BY DEF Invited, NoPart, PartRow, PartStatus

LEMMA AddKickHand ==
    ASSUME TableInv, NEW s \in Slots, AddKickStep(s)
    PROVE  Moves(req[s].call) /\ Carries(s)
  <1>0. req[s].op \in {"add", "kick"}
    BY DEF AddKickStep, AddLoad, AddInsert, AddFinish, KickLoad, KickSavePart, KickFinish, At
  <1>a. PICK r, c, ps, row : Finds(s, r, c, ps, row)
    BY <1>0, Found
  <1>b. /\ r = req[s] /\ r \in Request /\ c = r.call /\ c \in Calls /\ ps = part[c]
        /\ ps \in [RowIds -> PartRow] /\ Tidy(ps) /\ r.op \in {"add", "kick"}
        /\ row = call[c] /\ row \in CallRow /\ InHand(r, ps, row) /\ LinkedRows(c) = ps
        /\ r.target \in Users
    BY <1>0, <1>a DEF Finds
  <1>c. Typed /\ TablesTidy
    BY DEF TableInv, LedgerInv
  <1>d. Born(c)
    BY <1>a, <1>b DEF Finds, Fits, Starting, Born
  <1>1. CASE AddLoad(s)
    <2>1. call' = call /\ part' = part /\ r.op = "add"
      BY <1>1, <1>b DEF AddLoad, OnlyReq, dbVars, At
    <2>2. \/ Done(s)
          \/ /\ RowsOf(ps, r.target) = {}
             /\ \E g : Goto(s, [r EXCEPT !.pc = "insert", !.gone = g])
      BY <1>1, <1>b DEF AddLoad
    <2>3. CASE Done(s)
      BY <1>b, <1>c, <2>1, <2>3, ReadsAndRests
    <2>4. ASSUME RowsOf(ps, r.target) = {},
                 NEW g, Goto(s, [r EXCEPT !.pc = "insert", !.gone = g])
          PROVE  Moves(c) /\ Carries(s)
      <3>1. PICK q : q = [r EXCEPT !.pc = "insert", !.gone = g]
        OBVIOUS
      <3>2. q.op = "add" /\ q.pc = "insert" /\ q.call = c /\ q.target = r.target
        BY <1>b, <2>1, <3>1 DEF Request
      <3>3. InHand(q, ps, row)
        BY <2>4, <3>2 DEF InHand, Closing, Settling
      <3> QED BY <1>a, <1>b, <1>c, <2>1, <2>4, <3>1, <3>2, <3>3, Reads
    <2> QED BY <1>b, <2>2, <2>3, <2>4
  <1>2. CASE AddInsert(s)
    <2>1. r.op = "add" /\ r.pc = "insert" /\ call' = call
      BY <1>2, <1>b DEF AddInsert, At
    <2>2. PICK i : i \in RowIds /\ i[1] = r.target /\ part' = [part EXCEPT ![c][i] = Invited]
      BY <1>2, <1>b DEF AddInsert, RowIds
    <2>3. RowsOf(ps, r.target) = {}
      BY <1>b, <2>1 DEF InHand, Settling
    <2>4. \A j \in Rows(ps) : j[1] = i[1] => j = i
      BY <2>2, <2>3 DEF RowsOf
    <2>5. part' = [part EXCEPT ![c] = [part[c] EXCEPT ![i] = Invited]]
      BY <1>b, <1>c, <2>2 DEF Typed, TypeOK
    <2>6. RowWritten(c)
      BY <1>b, <1>d, <2>1, <2>2, <2>4, <2>5, InvitedRow DEF RowWritten
    <2>7. Done(s) \/ Goto(s, [r EXCEPT !.pc = "finish"])
      BY <1>2, <1>b DEF AddInsert
    <2>8. CASE Done(s)
      BY <1>b, <1>c, <2>6, <2>8, Rests DEF Moves
    <2>9. CASE Goto(s, [r EXCEPT !.pc = "finish"])
      <3>1. PICK q : q = [r EXCEPT !.pc = "finish"]
        OBVIOUS
      <3>2. q.op = "add" /\ q.pc = "finish"
        BY <1>b, <2>1, <3>1 DEF Request
      <3>3. \A any, some : InHand(q, any, some)
        BY <3>2 DEF InHand, Closing, Settling
      <3> QED BY <1>b, <1>c, <2>6, <2>9, <3>1, <3>3, Goes DEF Carries, Moves
    <2> QED BY <2>7, <2>8, <2>9
  <1>3. CASE KickLoad(s)
    <2>1. call' = call /\ part' = part /\ r.op = "kick"
      BY <1>3, <1>b DEF KickLoad, OnlyReq, dbVars, At
    <2>2. CASE Done(s)
      BY <1>b, <1>c, <2>1, <2>2, ReadsAndRests
    <2>3. ASSUME NEW i \in RowsOf(ps, r.target),
                 Goto(s, [r EXCEPT !.pc = "savePart", !.parts = ps, !.todo = {i}])
          PROVE  Moves(c) /\ Carries(s)
      <3>1. PICK q : q = [r EXCEPT !.pc = "savePart", !.parts = ps, !.todo = {i}]
        OBVIOUS
      <3>2. /\ q.op = "kick" /\ q.pc = "savePart" /\ q.call = c /\ q.target = r.target
            /\ q.todo = {i}
        BY <1>b, <2>1, <3>1 DEF Request
      <3>3. InHand(q, ps, row)
        BY <3>2 DEF InHand, Closing, Settling
      <3> QED BY <1>a, <1>b, <1>c, <2>1, <2>3, <3>1, <3>2, <3>3, Reads
    <2>4. Done(s) \/ \E i \in RowsOf(ps, r.target) :
            Goto(s, [r EXCEPT !.pc = "savePart", !.parts = ps, !.todo = {i}])
      BY <1>3, <1>b DEF KickLoad
    <2> QED BY <1>b, <2>2, <2>3, <2>4
  <1>4. CASE KickSavePart(s)
    <2>1. r.op = "kick" /\ r.pc = "savePart" /\ Goto(s, [r EXCEPT !.pc = "finish"])
      BY <1>4, <1>b DEF KickSavePart, At
    <2>2. PICK i \in RowsOf(ps, r.target) : r.todo = {i}
      BY <1>b, <2>1 DEF InHand, Settling
    <2>3. PICK p : p = HasLeft(r.parts[i]) /\ SavePart(c, i, p)
      BY <1>4, <1>b, <2>2 DEF KickSavePart
    <2>4. i \in Rows(ps) /\ r.parts[i] \in PartRow
      BY <1>b, <2>2 DEF Rows, RowsOf, Request
    <2>5. p \in PartRow /\ p.status # "none"
      BY <2>3, <2>4, HasLeftRow
    <2>6. Moves(c)
      BY <1>a, <1>c, <1>d, <2>3, <2>4, <2>5, WritesPart
    <2>7. PICK q : q = [r EXCEPT !.pc = "finish"]
      OBVIOUS
    <2>8. q.op = "kick" /\ q.pc = "finish"
      BY <1>b, <2>1, <2>7 DEF Request
    <2>9. \A any, some : InHand(q, any, some)
      BY <2>8 DEF InHand, Closing, Settling
    <2> QED BY <1>b, <1>c, <2>1, <2>6, <2>7, <2>9, Goes DEF Carries
  <1>5. CASE AddFinish(s) \/ KickFinish(s)
    BY <1>5, <1>b, <1>c, ReadsAndRests DEF AddFinish, KickFinish, dbVars
  <1> QED BY <1>1, <1>2, <1>3, <1>4, <1>5, <1>b DEF AddKickStep

LEMMA TimerHand ==
    ASSUME TableInv, NEW s \in Slots, TimerStep(s)
    PROVE  Moves(req[s].call) /\ Carries(s)
  <1>0. req[s].op = "timer"
    BY DEF TimerStep, TimerCheck, TimerLoad, TimerSaveCall, TimerSaveRest, TimerFinish, At
  <1>a. PICK r, c, ps, row : Finds(s, r, c, ps, row)
    BY <1>0, Found
  <1>b. /\ r = req[s] /\ r \in Request /\ c = r.call /\ c \in Calls /\ ps = part[c]
        /\ ps \in [RowIds -> PartRow] /\ Tidy(ps) /\ r.op = "timer"
        /\ row = call[c] /\ row \in CallRow /\ InHand(r, ps, row) /\ LinkedRows(c) = ps
    BY <1>0, <1>a DEF Finds
  <1>c. Typed /\ TablesTidy
    BY DEF TableInv, LedgerInv
  <1>d. Born(c)
    BY <1>a, <1>b DEF Finds, Fits, Starting, Born
  <1>1. ASSUME NEW pc \in {"load", "finish"}, call' = call, part' = part,
               Goto(s, [r EXCEPT !.pc = pc])
        PROVE  Moves(c) /\ Carries(s)
    <2>1. PICK q : q = [r EXCEPT !.pc = pc]
      OBVIOUS
    <2>2. q.op = "timer" /\ q.pc \in {"load", "finish"} /\ q.call = c
      BY <1>b, <2>1 DEF Request
    <2>3. InHand(q, ps, row)
      BY <2>2 DEF InHand, Closing, Settling
    <2> QED BY <1>1, <1>a, <1>b, <1>c, <2>1, <2>2, <2>3, Reads
  <1>2. CASE TimerCheck(s)
    BY <1>1, <1>2, <1>b DEF TimerCheck, OnlyReq, dbVars
  <1>3. CASE TimerLoad(s)
    <2>1. call' = call /\ part' = part
      BY <1>3 DEF TimerLoad, OnlyReq, dbVars
    <2>2. CASE row.status = "ringing"
      <3>1. PICK q, rw : /\ q = [r EXCEPT !.pc = "saveCall", !.row = rw, !.parts = ps]
                         /\ Goto(s, q) /\ rw = Missed(row)
        BY <1>3, <1>b, <2>2 DEF TimerLoad
      <3>2. q.op = "timer" /\ q.pc = "saveCall" /\ q.call = c /\ q.row = rw /\ q.parts = ps
        BY <1>b, <3>1 DEF Request
      <3>3. InHand(q, ps, row)
        BY <2>2, <3>1, <3>2 DEF InHand, Closing, Settling
      <3> QED BY <1>a, <1>b, <1>c, <2>1, <3>1, <3>2, <3>3, Reads
    <2>3. CASE row.status # "ringing"
      BY <1>1, <1>3, <1>b, <2>1, <2>3 DEF TimerLoad
    <2> QED BY <1>b, <2>2, <2>3
  <1>4. CASE TimerSaveCall(s)
    <2>1. r.pc = "writeCall" /\ SaveCall(c, r.row, r.parts, r.diff)
      BY <1>4, <1>b DEF TimerSaveCall, At
    <2>w. PICK w : w = Written(r)
      OBVIOUS
    <2>v. w \in Request /\ w.op = r.op /\ w.call = c
      BY <1>b, <2>w, WrittenSame DEF SameHandler
    <2>x. Exact(r.diff, r.row, row)
      BY <1>b, <2>1 DEF InHand
    <2>2. r.parts = ps /\ row.status = "ringing" /\ r.row = Missed(row)
      BY <1>b, <2>1 DEF InHand, Settling
    <2>3. r.row \in CallRow /\ r.row.scope = row.scope /\ r.row.status = "missed"
      BY <1>b, <2>2 DEF Missed, CallRow, Request
    <2>4. Turns(c, r.row)
      BY <1>b, <1>d, <2>2, <2>3 DEF Turns
    <2>5. PICK T : T = {i \in RowIds : ps[i].status = "invited"}
      OBVIOUS
    <2>6. PICK q, pc : /\ q = [w EXCEPT !.todo = T, !.pc = pc] /\ Goto(s, q)
                       /\ pc \in {"finish", "saveRest"}
      BY <1>4, <1>b, <2>2, <2>5, <2>w DEF TimerSaveCall
    <2>7. q.op = "timer" /\ q.pc \in {"finish", "saveRest"} /\ q.call = c /\ q.todo = T
      BY <1>b, <2>6, <2>v DEF Request
    <2>8. T \subseteq Rows(ps)
      BY <2>5 DEF Rows
    <2>9. PICK new : new = r.row
      OBVIOUS
    <2>10. InHand(q, ps, new)
      BY <2>7, <2>8 DEF InHand, Closing, Settling
    <2>11. SaveCall(c, new, ps, r.diff) /\ Exact(r.diff, new, row) /\ new \in CallRow /\ Turns(c, new)
      BY <2>1, <2>2, <2>3, <2>4, <2>9, <2>x
    <2> QED BY <1>a, <1>b, <1>c, <2>6, <2>7, <2>10, <2>11, WritesCall
  <1>5. CASE TimerSaveRest(s)
    <2>1. r.pc = "saveRest"
      BY <1>5, <1>b DEF TimerSaveRest, At
    <2>2. r.todo \subseteq Rows(ps)
      BY <1>b, <2>1 DEF InHand, Settling
    <2>3. PICK i, p, pc : /\ i \in r.todo /\ p = [r.parts[i] EXCEPT !.status = "missed"]
                          /\ SavePart(c, i, p) /\ pc \in {"finish", "saveRest"}
                          /\ Goto(s, [r EXCEPT !.todo = r.todo \ {i}, !.pc = pc])
      BY <1>5, <1>b, <2>1 DEF TimerSaveRest, Request
    <2>4. i \in Rows(ps) /\ r.parts[i] \in PartRow
      BY <1>b, <2>2, <2>3 DEF Rows, Request
    <2>5. p \in PartRow /\ p.status # "none"
      BY <2>3, <2>4 DEF PartRow, PartStatus
    <2>6. Moves(c) /\ Wrote(c, ps, i, p, row)
      BY <1>a, <1>c, <1>d, <2>3, <2>4, <2>5, WritesPart
    <2>7. Rows(part'[c]) = Rows(ps) \cup {i}
      BY <2>6 DEF Wrote, RowEffect
    <2>8. PICK q, T : q = [r EXCEPT !.todo = T, !.pc = pc] /\ T = r.todo \ {i}
      OBVIOUS
    <2>9. q.op = "timer" /\ q.pc \in {"finish", "saveRest"} /\ q.call = c /\ q.todo = T
      BY <1>b, <2>3, <2>8 DEF Request
    <2>10. T \subseteq Rows(part'[c])
      BY <2>2, <2>7, <2>8
    <2>11. \A any : InHand(q, part'[c], any)
      BY <2>9, <2>10 DEF InHand, Closing, Settling
    <2>12. req'[s] = q
      BY <1>c, <2>3, <2>8, Goes
    <2> QED BY <1>b, <2>6, <2>9, <2>11, <2>12 DEF Carries
  <1>6. CASE TimerFinish(s)
    BY <1>6, <1>b, <1>c, ReadsAndRests DEF TimerFinish, dbVars
  <1> QED BY <1>2, <1>3, <1>4, <1>5, <1>6, <1>b DEF TimerStep
-----------------------------------------------------------------------------
(* What happens around the handlers leaves the tables                        *)

\* The first record of a handler, and what of the gateway it starts from
Fresh(q) ==
    \/ q.op = "idle"
    \/ q.op = "initiate" /\ q.pc = "load" /\ ~Born(q.call)
    \/ q.op \in {"accept", "decline", "end", "add", "kick"} /\ q.pc = "load"
         /\ told[q.call] # {}
    \/ q.op = "timer" /\ q.pc = "check" /\ q.call \in armed
    \/ q.op = "disconnect" /\ q.pc = "load" /\ q.held = active[q.call] /\ q.held # 0

Enters(s, q) ==
    /\ Goto(s, q) /\ Fresh(q) /\ req[s].op = "idle"
    /\ q.op # "idle" => q.call \in Calls
    /\ UNCHANGED <<call, part, active, roster, told>> /\ armed' \subseteq armed
    /\ left'.faults = left.faults /\ left'.restarts = left.restarts

\* The tables and the gateway's maps stay, and so do the handlers
Idles == UNCHANGED <<call, part, active, roster, told, armed, req>>
         /\ left'.faults = left.faults /\ left'.restarts = left.restarts

LEMMA MessageEnters ==
    ASSUME Typed, NEW s \in Slots, NEW k \in Sockets, Message(s, k)
    PROVE  \E q : Enters(s, q)
  <1>1. PICK c \in Calls : \/ \E scope \in Scopes : Initiate(s, k, c, scope)
                           \/ Accept(s, k, c) \/ Decline(s, k, c) \/ End(s, k, c)
                           \/ \E u \in Users : \/ AddParticipant(s, k, c, u)
                                               \/ RemoveParticipant(s, k, c, u)
    BY DEF Message
  <1>2. ASSUME NEW r, Receive(s, k, r), r \in Request, r.call = c,
               \/ r.op = "initiate" /\ ~Born(c)
               \/ r.op \in {"accept", "decline", "end", "add", "kick"} /\ told[c] # {}
        PROVE  \E q : Enters(s, q)
    <2>1. PICK q : q = [r EXCEPT !.user = Owner[k], !.sock = k, !.pc = "load"]
      OBVIOUS
    <2>2. PICK o : o = Owner[k]
      OBVIOUS
    <2>3. q.op = r.op /\ q.pc = "load" /\ q.call = c
      BY <1>2, <2>1, <2>2 DEF Request
    <2>4. /\ Goto(s, q) /\ UNCHANGED <<call, part, active, roster, told, armed>>
          /\ req[s] = Idle /\ left' = [left EXCEPT !.messages = @ - 1]
      BY <1>2, <2>1 DEF Receive, dbVars, mapVars, timerVars
    <2>5. left'.faults = left.faults /\ left'.restarts = left.restarts
      BY <2>4 DEF Typed, TypeOK
    <2>6. req[s].op = "idle"
      BY <2>4 DEF Idle
    <2>7. Fresh(q)
      BY <1>2, <2>3 DEF Fresh
    <2>8. Enters(s, q)
      BY <2>3, <2>4, <2>5, <2>6, <2>7 DEF Enters
    <2> QED BY <2>8
  <1>3. ASSUME NEW scope \in Scopes, Initiate(s, k, c, scope) PROVE \E q : Enters(s, q)
    <2>1. PICK row : row = [NoCall EXCEPT !.scope = scope]
      OBVIOUS
    <2>2. row \in CallRow
      BY <2>1, CallsAssumption DEF NoCall, CallRow, CallsAssumption
    <2>3. PICK r : r = [Idle EXCEPT !.op = "initiate", !.call = c, !.row = row]
      OBVIOUS
    <2>4. r \in Request /\ r.op = "initiate" /\ r.call = c
      BY <2>2, <2>3, IdleType DEF Request, Ops
    <2>5. Receive(s, k, r) /\ call[c] = NoCall
      BY <1>3, <2>1, <2>3 DEF Initiate
    <2>6. ~Born(c)
      BY <2>5 DEF Born, NoCall
    <2> QED BY <1>2, <2>4, <2>5, <2>6
  <1>4. ASSUME NEW op \in {"accept", "decline", "end"}, Owner[k] \in told[c],
               Receive(s, k, [Idle EXCEPT !.op = op, !.call = c])
        PROVE  \E q : Enters(s, q)
    <2>1. PICK r : r = [Idle EXCEPT !.op = op, !.call = c]
      OBVIOUS
    <2>2. r \in Request /\ r.op = op /\ r.call = c
      BY <2>1, IdleType DEF Request, Ops
    <2> QED BY <1>2, <1>4, <2>1, <2>2
  <1>5. ASSUME NEW op \in {"add", "kick"}, NEW u \in Users, Owner[k] \in told[c],
               Receive(s, k, [Idle EXCEPT !.op = op, !.call = c, !.target = u])
        PROVE  \E q : Enters(s, q)
    <2>1. PICK r : r = [Idle EXCEPT !.op = op, !.call = c, !.target = u]
      OBVIOUS
    <2>2. r \in Request /\ r.op = op /\ r.call = c
      BY <2>1, IdleType DEF Request, Ops
    <2> QED BY <1>2, <1>5, <2>1, <2>2
  <1> QED BY <1>1, <1>3, <1>4, <1>5
          DEF Accept, Decline, End, AddParticipant, RemoveParticipant

\* The sweep of handleDisconnect holds the Set object of the entry it found
LEMMA SweepHolds ==
    ASSUME NEW r \in Request, NEW act, NEW ros, NEW q \in Sweep(r, act, ros), q.op # "idle"
    PROVE  q.held = act[q.call] /\ q.held # 0 /\ q.user = r.user
  <1>1. q # Idle
    BY DEF Idle
  <1>2. PICK c \in Calls :
          /\ q = [r EXCEPT !.pc = "load", !.call = c, !.held = act[c], !.todo = {},
                        !.row = NoCall, !.seen = @ \cup {<<c, act[c]>>}]
          /\ act[c] # 0
    BY <1>1 DEF Sweep
  <1>3. PICK sn, h : sn = r.seen \cup {<<c, act[c]>>} /\ h = act[c]
    OBVIOUS
  <1>4. q = [r EXCEPT !.pc = "load", !.call = c, !.held = h, !.todo = {}, !.row = NoCall,
                      !.seen = sn]
    BY <1>2, <1>3 DEF Request
  <1>5. q.call = c /\ q.held = h /\ q.user = r.user
    BY <1>4 DEF Request
  <1> QED BY <1>2, <1>3, <1>5

LEMMA DisconnectEnters ==
    ASSUME Typed, NEW s \in Slots, NEW k \in Sockets, Disconnect(s, k)
    PROVE  Idles \/ \E q : Enters(s, q)
  <1>1. /\ UNCHANGED <<call, part, active, roster, told, armed, left>>
        /\ req[s].op = "idle"
    BY DEF Disconnect, dbVars, mapVars, timerVars, Idle
  <1>2. CASE \E j \in StillOpen(Sockets) \ {k} : Owner[j] = Owner[k]
    BY <1>1, <1>2 DEF Disconnect, Idles
  <1>3. CASE ~\E j \in StillOpen(Sockets) \ {k} : Owner[j] = Owner[k]
    <2>1. PICK r : r = [Idle EXCEPT !.op = "disconnect", !.user = Owner[k], !.sock = k]
      OBVIOUS
    <2>2. PICK q \in Sweep(r, active, roster) : Goto(s, q)
      BY <1>3, <2>1 DEF Disconnect
    <2>3. r \in Request /\ r.op = "disconnect"
      <3>1. PICK o : o = Owner[k] /\ o \in Users
        BY CallsAssumption DEF CallsAssumption
      <3> QED BY <2>1, <3>1, IdleType DEF Request, Ops
    <2>4. q.op # "idle" => /\ q.op = "disconnect" /\ q.call \in Calls /\ q.pc = "load"
                           /\ q.held = active[q.call] /\ q.held # 0
      BY <2>2, <2>3, SweepNext, SweepFresh, SweepHolds
    <2>5. Fresh(q)
      BY <2>4 DEF Fresh
    <2>6. Enters(s, q)
      BY <1>1, <2>2, <2>4, <2>5 DEF Enters
    <2> QED BY <2>6
  <1> QED BY <1>2, <1>3

\* What happens around the handlers starts one of them, stops one or all, or
\* changes nothing they see
LEMMA AroundIs ==
    ASSUME Typed, AroundNext
    PROVE  \/ Idles
           \/ \E s \in Slots : \E q : Enters(s, q)
           \/ \E s \in Slots : Fault(s)
           \/ Restart
  <1>1. ASSUME NEW s \in Slots, NEW c \in Calls, TimerFires(s, c)
        PROVE  \E q : Enters(s, q)
    <2>1. PICK q : q = [Idle EXCEPT !.op = "timer", !.pc = "check", !.call = c]
      OBVIOUS
    <2>2. q.op = "timer" /\ q.call = c /\ q.pc = "check"
      BY <2>1 DEF Idle
    <2>3. /\ Goto(s, q) /\ UNCHANGED <<call, part, active, roster, told, left>>
          /\ armed' \subseteq armed /\ c \in armed /\ req[s].op = "idle"
      BY <1>1, <2>1 DEF TimerFires, dbVars, mapVars, Idle
    <2>4. Enters(s, q)
      BY <2>2, <2>3 DEF Enters, Fresh
    <2> QED BY <2>4
  <1>2. ASSUME NEW k \in Sockets, Connect(k) PROVE Idles
    BY <1>2 DEF Connect, Idles, dbVars, mapVars, timerVars
  <1>3. CASE EditConversation
    <2>1. /\ UNCHANGED <<call, part, active, roster, told, armed, req>>
          /\ left' = [left EXCEPT !.edits = @ - 1]
      BY <1>3 DEF EditConversation, dbVars, mapVars, timerVars
    <2>2. left'.faults = left.faults /\ left'.restarts = left.restarts
      BY <2>1 DEF Typed, TypeOK
    <2> QED BY <2>1, <2>2 DEF Idles
  <1> QED BY <1>1, <1>2, <1>3, MessageEnters, DisconnectEnters DEF AroundNext

LEMMA NewHand ==
    ASSUME Typed, HandsOK, NEW s \in Slots, NEW q, Goto(s, q), call' = call, part' = part,
           q.op # "idle" => InHand(q, part[q.call], call[q.call])
    PROVE  HandsOK'
  <1>1. req'[s] = q /\ \A t \in Slots \ {s} : req'[t] = req[t]
    BY DEF Goto, Typed, TypeOK
  <1> QED BY <1>1 DEF HandsOK

LEMMA AroundHands ==
    ASSUME TableInv, AroundNext
    PROVE  call' = call /\ part' = part /\ HandsOK'
  <1>c. Typed /\ TablesTidy /\ HandsOK
    BY DEF TableInv, LedgerInv
  <1>1. CASE Idles
    BY <1>c, <1>1 DEF Idles, HandsOK
  <1>2. ASSUME NEW s \in Slots, NEW q, Enters(s, q)
        PROVE  call' = call /\ part' = part /\ HandsOK'
    <2>1. q.op # "idle" => InHand(q, part[q.call], call[q.call])
      <3>1. CASE q.op = "initiate"
        <4>1. q.pc = "load" /\ Rows(part[q.call]) = {}
          BY <1>c, <1>2, <3>1 DEF Enters, Fresh, TablesTidy
        <4> QED BY <3>1, <4>1 DEF InHand, Closing, Settling
      <3>2. CASE q.op \notin {"idle", "initiate"}
        <4>1. q.pc \in {"load", "check"}
          BY <1>2, <3>2 DEF Enters, Fresh
        <4> QED BY <3>2, <4>1 DEF InHand, Closing, Settling
      <3> QED BY <3>1, <3>2
    <2> QED BY <1>c, <1>2, <2>1, NewHand DEF Enters
  <1>3. ASSUME NEW s \in Slots, Fault(s)
        PROVE  call' = call /\ part' = part /\ HandsOK'
    <2>1. call' = call /\ part' = part
      BY <1>3 DEF Fault, dbVars
    <2>2. CASE req[s].op # "disconnect"
      <3>1. Goto(s, Idle) /\ Idle.op = "idle"
        BY <1>3, <2>2 DEF Fault, Done, Idle
      <3> QED BY <1>c, <2>1, <3>1, NewHand
    <2>3. CASE req[s].op = "disconnect"
      <3>1. PICK q \in Sweep(req[s], active, roster) : Goto(s, q)
        BY <1>3, <2>3 DEF Fault
      <3>2. req[s] \in Request
        BY <1>c, <2>3, HandlerTypes DEF Typed
      <3>3. q.op # "idle" => q.op = "disconnect" /\ q.pc = "load"
        BY <2>3, <3>1, <3>2, SweepNext, SweepFresh
      <3>4. q.op # "idle" => InHand(q, part[q.call], call[q.call])
        BY <3>3 DEF InHand, Closing, Settling
      <3> QED BY <1>c, <2>1, <3>1, <3>4, NewHand
    <2> QED BY <2>2, <2>3
  <1>4. CASE Restart
    <2>1. call' = call /\ part' = part /\ \A s \in Slots : req'[s].op = "idle"
      BY <1>4 DEF Restart, dbVars, Idle
    <2> QED BY <2>1 DEF HandsOK
  <1> QED BY <1>c, <1>1, <1>2, <1>3, <1>4, AroundIs

-----------------------------------------------------------------------------
(* One handler at a time: each step is a step of the lifecycle               *)

\* What a save finds of rows that are as the handler carries them
LEMMA FindsExact ==
    ASSUME NEW r, NEW ps \in [RowIds -> PartRow], NEW row, Tidy(ps),
           part[r.call] = ps, call[r.call] = row, LinkedRows(r.call) = ps,
           r.parts = ps, r.row.scope = row.scope, r.row.initiator = row.initiator,
           NEW times, NEW diff, diff = Differs(r, times)
    PROVE  Exact(diff, r.row, row)
  <1>1. /\ diff.cols = {x \in Columns : r.row[x] # row[x]} \cup times
        /\ diff.status = {i \in Rows(ps) : ps[i].status # ps[i].status}
        /\ diff.link = {i \in Rows(ps) : ~ps[i].linked}
        /\ diff.unlink = Rows(ps) \ Rows(ps)
    BY DEF Differs
  <1>2. \A x \in Columns \ diff.cols : r.row[x] = row[x]
    BY <1>1
  <1>3. \A i \in Rows(ps) : ps[i].linked
    BY TidyRow
  <1> QED BY <1>1, <1>2, <1>3 DEF Exact

LEMMA LookHand ==
    ASSUME TableInv, NEW s \in Slots, LookAtCall(s)
    PROVE  Moves(req[s].call) /\ Carries(s)
  <1>c. Typed /\ TablesTidy
    BY DEF TableInv, LedgerInv
  <1>1. PICK q \in Request : Goto(s, q) /\ LooksAs(req[s], q)
    BY <1>c, LookGoes
  <1>0. req[s].op \in Saving /\ req[s].op # "idle"
    BY <1>1 DEF LooksAs, Saving
  <1>a. PICK r, c, ps, row : Finds(s, r, c, ps, row)
    BY <1>0, Found
  <1>b. /\ r = req[s] /\ r \in Request /\ c = r.call /\ c \in Calls /\ ps = part[c]
        /\ ps \in [RowIds -> PartRow] /\ Tidy(ps) /\ r.op \in Saving
        /\ row = call[c] /\ row \in CallRow /\ InHand(r, ps, row) /\ LinkedRows(c) = ps
    BY <1>0, <1>a DEF Finds
  <1>2. /\ q.op = r.op /\ q.call = c /\ q.user = r.user /\ q.row = r.row /\ q.parts = r.parts
        /\ r.pc = "saveCall" /\ q.pc = "writeCall"
    BY <1>1, <1>b DEF LooksAs
  <1>3. call' = call /\ part' = part
    BY DEF LookAtCall, dbVars
  <1>4. /\ r.parts = ps /\ r.row.scope = row.scope /\ r.row.initiator = row.initiator
    <2>1. CASE r.op = "accept"
      <3>1. r.parts = ps /\ r.row = [row EXCEPT !.status = "active", !.startedAt = TRUE]
        BY <1>b, <1>2, <2>1 DEF InHand, Settling
      <3> QED BY <1>b, <3>1 DEF CallRow
    <2>2. CASE r.op = "decline"
      <3>1. r.parts = ps /\ r.row = Declined(row)
        BY <1>b, <1>2, <2>2 DEF InHand, Settling
      <3> QED BY <1>b, <3>1 DEF CallRow, Declined
    <2>3. CASE r.op \in {"end", "disconnect"}
      <3>1. r.parts = ps /\ r.row = Ended(row)
        BY <1>b, <1>2, <2>3 DEF InHand, Settling
      <3> QED BY <1>b, <3>1 DEF CallRow, Ended
    <2>4. CASE r.op = "timer"
      <3>1. r.parts = ps /\ r.row = Missed(row)
        BY <1>b, <1>2, <2>4 DEF InHand, Settling
      <3> QED BY <1>b, <3>1 DEF CallRow, Missed
    <2> QED BY <1>b, <2>1, <2>2, <2>3, <2>4 DEF Saving
  <1>5. Exact(q.diff, q.row, row)
    <2>1. PICK times \in SUBSET (Columns \ {"status"}) : q.diff = Differs(r, times)
      BY <1>1, <1>b DEF LooksAs
    <2> QED BY <1>b, <1>2, <1>4, <2>1, FindsExact
  <1>6. InHand(q, ps, row)
    BY <1>b, <1>2, <1>5 DEF InHand, Closing, Settling, Saving
  <1> QED BY <1>a, <1>b, <1>c, <1>1, <1>2, <1>3, <1>6, Reads

LEMMA StepHand ==
    ASSUME TableInv, NEW s \in Slots, Step(s)
    PROVE  Moves(req[s].call) /\ Carries(s) /\ req[s].call \in Calls
  <1>1. req[s].op # "idle"
    BY Zenon DEF Step, InitiateStep, InitiateLoad, InitiateInsertCall, InitiateInsertSelf,
       InitiateInsertPart, InitiateAnnounce, AcceptStep, AcceptLoad, AcceptSaveCall,
       AcceptSavePart, AcceptFinish, DeclineStep, DeclineLoad, DeclineSavePart,
       DeclineSaveCall, DeclineFinish, EndStep, EndLoad, EndSavePart, EndSaveCall,
       EndSaveRest, EndFinish, DisconnectFinish, Ending, AddKickStep, AddLoad, AddInsert,
       AddFinish, KickLoad, KickSavePart, KickFinish, TimerStep, TimerCheck, TimerLoad,
       TimerSaveCall, TimerSaveRest, TimerFinish, LookAtCall, Saving, At
  <1> QED BY <1>1, AtWork, InitiateHand, AcceptHand, DeclineHand, EndHand, AddKickHand,
             TimerHand, LookHand DEF Step

LEMMA TableStep ==
    ASSUME OneHandler, TableInv, [Next]_vars
    PROVE  TableInv' /\ LifeStep
  <1>1. LedgerInv' /\ Typed' /\ Typed /\ TablesTidy
    BY LedgerStep DEF TableInv, LedgerInv
  <1>2. ASSUME call' = call, part' = part, HandsOK' PROVE TableInv' /\ LifeStep
    <2>1. PICK c : c \in Calls \/ Calls = {}
      OBVIOUS
    <2>2. Moves(c)
      BY <1>2 DEF Moves
    <2>3. CASE c \in Calls
      BY <1>1, <1>2, <2>2, <2>3, MovesLive DEF TableInv
    <2>4. CASE Calls = {}
      <3>1. TablesTidy'
        BY <2>4 DEF TablesTidy
      <3>2. UNCHANGED Lifecycle!vars
        BY <1>2, <2>4 DEF Lifecycle!vars
      <3> QED BY <1>1, <1>2, <3>1, <3>2 DEF TableInv, LifeStep
    <2> QED BY <2>1, <2>3, <2>4
  <1>3. CASE UNCHANGED vars
    BY <1>2, <1>3 DEF vars, TableInv, HandsOK
  <1>4. CASE AroundNext
    BY <1>2, <1>4, AroundHands
  <1>5. ASSUME NEW s \in Slots, Step(s) PROVE TableInv' /\ LifeStep
    <2>1. Moves(req[s].call) /\ Carries(s) /\ req[s].call \in Calls
      BY <1>5, StepHand
    <2>2. Slots = {s}
      BY DEF OneHandler
    <2>3. HandsOK'
      BY <2>1, <2>2 DEF HandsOK, Carries
    <2> QED BY <1>1, <2>1, <2>3, MovesLive DEF TableInv
  <1>6. Next => AroundNext \/ \E s \in Slots : Step(s)
    BY DEF Next, AroundNext
  <1> QED BY <1>3, <1>4, <1>5, <1>6

LEMMA TableInit == Init => TableInv /\ Lifecycle!Init
  <1> SUFFICES ASSUME Init PROVE TableInv /\ Lifecycle!Init
    OBVIOUS
  <1>1. LedgerInv
    BY LedgerInit
  <1>2. /\ call = [c \in Calls |-> NoCall] /\ req = [s \in Slots |-> Idle]
        /\ part = [c \in Calls |-> [i \in RowIds |-> NoPart]]
    BY DEF Init
  <1>3. \A c \in Calls : \A i \in RowIds : part[c][i] = NoPart /\ NoPart.status = "none"
    BY <1>2 DEF NoPart
  <1>4. \A c \in Calls : Rows(part[c]) = {} /\ Tidy(part[c])
    BY <1>3 DEF Rows, Tidy
  <1>5. TablesTidy
    BY <1>4 DEF TablesTidy
  <1>6. HandsOK
    BY <1>2 DEF HandsOK, Idle
  <1>7. \A c \in Calls : JoinedUsers(c) = {}
    <2> SUFFICES ASSUME NEW c \in Calls PROVE JoinedUsers(c) = {}
      OBVIOUS
    <2>1. part[c] \in [RowIds -> PartRow]
      BY <1>1 DEF LedgerInv, Typed, TypeOK
    <2>2. JoinedUsers(c) = Who(part[c])
      BY <1>4, <2>1, TidyLoads
    <2>3. JoinedRows(part[c]) = {}
      BY <1>3 DEF JoinedRows
    <2> QED BY <2>2, <2>3 DEF Who
  <1>8. Lifecycle!Init
    BY <1>2, <1>7 DEF Lifecycle!Init, NoCall
  <1> QED BY <1>1, <1>5, <1>6, <1>8 DEF TableInv

\* With one handler at a time, and any users, calls, messages, faults and
\* restarts, the tables of CallsService behave as CallLifecycle says: a call rings
\* once, is answered or missed only while it rings, and a group call ends only
\* when nobody is in it
THEOREM FollowsTheLifecycle ==
    ASSUME OneHandler
    PROVE  Spec => FollowsLifecycle
  <1>1. TableInv /\ [Next]_vars => TableInv'
    BY TableStep
  <1>2. TableInv /\ [Next]_vars => [Lifecycle!Next]_(Lifecycle!vars)
    BY TableStep DEF LifeStep
  <1> QED BY <1>1, <1>2, TableInit, PTL DEF Spec, FollowsLifecycle, Lifecycle!Spec
-----------------------------------------------------------------------------
(* The table and the gateway's map: who is JOINED is in the call's entry, or *)
(* the handler that answered is about to put him there                       *)

\* The users in the entry of a call whose Set objects were ros
Here(ros, act) == IF act = 0 THEN {} ELSE ros[act]

\* The user whose accept is written and not yet in the entry
Late(r, c) == IF r.op = "accept" /\ r.pc = "finish" /\ r.call = c THEN {r.user} ELSE {}

\* What the handler r has made of who is JOINED in the rows ps
Asked(r, ps) ==
    /\ Closing(r, "ended") => Who(ps) = {}
    /\ Closing(r, "saveRest") => JoinedRows(ps) \subseteq r.todo
    /\ Closing(r, "left") => r.user \notin Who(ps)
    /\ r.op = "kick" /\ r.pc = "finish" => r.target \notin Who(ps)

\* The handler r on a call with rows ps and entry act of ros
OnTheWay(r, ps, ros, act) ==
    /\ r.op = "initiate" => ros = <<>> /\ Who(ps) \subseteq {r.user}
    /\ r.op # "initiate" => ros # <<>>
    /\ Asked(r, ps)
    /\ r.op = "disconnect" => r.held = act /\ r.held # 0

InEntry(r, c) ==
    roster[c] # <<>> => Who(part[c]) \subseteq Here(roster[c], active[c]) \cup Late(r, c)

\* Only an announced call is known to a client or has a timer
Announced(c) == told[c] # {} \/ c \in armed => roster[c] # <<>>

RosterOK ==
    Intact =>
      /\ \A c \in Calls : Announced(c)
      /\ \A s \in Slots : /\ \A c \in Calls : InEntry(req[s], c)
                          /\ req[s].op # "idle" =>
                               OnTheWay(req[s], part[req[s].call], roster[req[s].call],
                                        active[req[s].call])

RosterInv == TableInv /\ RingInv /\ RosterOK

\* What a step of the handler in slot s on call c leaves
Lands(s, c) ==
    /\ Announced(c)' /\ InEntry(req[s], c)'
    /\ req'[s].op # "idle" =>
         OnTheWay(req'[s], part'[req'[s].call], roster'[req'[s].call], active'[req'[s].call])

\* Where such a step begins
Begins(s, r, c, ps, row) ==
    /\ Finds(s, r, c, ps, row) /\ OnTheWay(r, ps, roster[c], active[c])
    /\ InEntry(r, c) /\ Announced(c)
    /\ roster[c] \in Seq(SUBSET Users) /\ active[c] \in 0 .. Len(roster[c])
    /\ Late(r, c) # {} => r.op = "accept" /\ r.pc = "finish"

LEMMA Begun ==
    ASSUME RosterInv, Intact, NEW s \in Slots, req[s].op # "idle"
    PROVE  \E r, c, ps, row : Begins(s, r, c, ps, row)
  <1>1. PICK r, c, ps, row : Finds(s, r, c, ps, row)
    BY Found DEF RosterInv
  <1>2. roster[c] \in Seq(SUBSET Users) /\ active[c] \in 0 .. Len(roster[c])
    BY <1>1 DEF Finds, RosterInv, TableInv, LedgerInv, Typed, TypeOK
  <1>3. Begins(s, r, c, ps, row)
    BY <1>1, <1>2 DEF Begins, Finds, Late, RosterInv, RosterOK
  <1> QED BY <1>3

\* The steps of a handler touch the rows, the entry and the timer of its call only
LEMMA StepAt ==
    ASSUME Typed, NEW s \in Slots, Step(s), NEW c \in Calls, c # req[s].call
    PROVE  /\ part'[c] = part[c] /\ roster'[c] = roster[c] /\ active'[c] = active[c]
           /\ told'[c] = told[c] /\ (c \in armed' => c \in armed) /\ left' = left
  <1>0. /\ part \in [Calls -> [RowIds -> PartRow]] /\ roster \in [Calls -> Seq(SUBSET Users)]
        /\ active \in [Calls -> Nat] /\ told \in [Calls -> SUBSET Users]
    BY DEF Typed, TypeOK
  <1>1. CASE InitiateStep(s)
    BY <1>0, <1>1 DEF InitiateStep, InitiateLoad, InitiateInsertCall,
       InitiateInsertSelf, InitiateInsertPart, InitiateAnnounce, OnlyReq, OnlyDb, dbVars,
       mapVars, timerVars
  <1>2. CASE AcceptStep(s)
    BY <1>0, <1>2 DEF AcceptStep, AcceptLoad, AcceptSaveCall, AcceptSavePart, AcceptFinish,
       ClearTimer, OnlyReq, OnlyDb, dbVars, mapVars, timerVars, SaveCall, SavePart
  <1>3. CASE DeclineStep(s)
    BY <1>0, <1>3 DEF DeclineStep, DeclineLoad, DeclineSavePart, DeclineSaveCall,
       DeclineFinish, ClearTimer, OnlyReq, OnlyDb, dbVars, mapVars, timerVars, SaveCall, SavePart
  <1>4. CASE EndStep(s)
    <2>1. CASE EndLoad(s)
      BY <2>1 DEF EndLoad, OnlyReq, OnlyDb, dbVars, mapVars, timerVars
    <2>2. CASE EndSavePart(s) \/ EndSaveCall(s) \/ EndSaveRest(s)
      BY <1>0, <2>2 DEF EndSavePart, EndSaveCall, EndSaveRest, OnlyDb, mapVars, timerVars,
         SaveCall, SavePart
    <2>3. CASE EndFinish(s)
      BY <1>0, <2>3 DEF EndFinish, ClearTimer, DropEntry, dbVars, timerVars
    <2>4. CASE DisconnectFinish(s)
      BY <1>0, <2>4 DEF DisconnectFinish, DropEntry, dbVars, timerVars
    <2> QED BY <1>4, <2>1, <2>2, <2>3, <2>4 DEF EndStep
  <1>5. CASE AddKickStep(s)
    BY <1>0, <1>5 DEF AddKickStep, AddLoad, AddInsert, AddFinish, KickLoad, KickSavePart,
       KickFinish, OnlyReq, OnlyDb, dbVars, mapVars, timerVars, SavePart
  <1>6. CASE TimerStep(s)
    BY <1>0, <1>6 DEF TimerStep, TimerCheck, TimerLoad, TimerSaveCall, TimerSaveRest,
       TimerFinish, OnlyReq, OnlyDb, dbVars, mapVars, timerVars, SaveCall, SavePart
  <1>7. CASE LookAtCall(s)
    BY <1>7 DEF LookAtCall, dbVars, mapVars, timerVars
  <1> QED BY <1>1, <1>2, <1>3, <1>4, <1>5, <1>6, <1>7 DEF Step

LEMMA LandsKeeps ==
    ASSUME RosterInv, Intact, NEW s, Slots = {s}, NEW d \in Calls, d = req[s].call,
           Step(s), Lands(s, d), Intact' => Intact
    PROVE  RosterOK'
  <1>1. s \in Slots /\ Typed
    BY DEF RosterInv, TableInv, LedgerInv
  <1>2. ASSUME NEW c \in Calls, c # d PROVE Announced(c)' /\ InEntry(req[s], c)'
    <2>1. /\ part'[c] = part[c] /\ roster'[c] = roster[c] /\ active'[c] = active[c]
          /\ told'[c] = told[c] /\ (c \in armed' => c \in armed)
      BY <1>1, <1>2, StepAt
    <2>2. Announced(c) /\ InEntry(req[s], c)
      BY <1>1 DEF RosterInv, RosterOK
    <2>3. Late(req[s], c) = {}
      BY <1>2 DEF Late
    <2> QED BY <2>1, <2>2, <2>3 DEF Announced, InEntry
  <1>3. Announced(d)' /\ InEntry(req[s], d)'
    BY DEF Lands
  <1>4. req'[s].op # "idle" =>
          OnTheWay(req'[s], part'[req'[s].call], roster'[req'[s].call], active'[req'[s].call])
    BY DEF Lands
  <1> QED BY <1>1, <1>2, <1>3, <1>4 DEF RosterOK
\* Nothing is asked of the handler about who is JOINED
Plain(q) == /\ q.pc \notin {"ended", "saveRest", "left"}
            /\ q.op = "kick" => q.pc # "finish"

\* The step leaves the gateway's maps and timers, and its handler goes on as q
LEMMA LandsHeld ==
    ASSUME Typed, NEW s \in Slots, NEW r, NEW c, NEW ps, NEW row, Begins(s, r, c, ps, row),
           UNCHANGED <<active, roster, told, armed>>, NEW q, Goto(s, q), Late(r, c) = {},
           Who(part'[c]) \subseteq Who(ps) \cup Late(q, c),
           q.op # "idle" => q.call = c /\ OnTheWay(q, part'[c], roster[c], active[c])
    PROVE  Lands(s, c)
  <1>1. ps = part[c] /\ InEntry(r, c) /\ Announced(c) /\ req'[s] = q
    BY Goes DEF Begins, Finds
  <1>2. Announced(c)'
    BY <1>1 DEF Announced
  <1>3. InEntry(req[s], c)'
    BY <1>1 DEF InEntry
  <1> QED BY <1>1, <1>2, <1>3 DEF Lands

LEMMA LandsPlain ==
    ASSUME Typed, NEW s \in Slots, NEW r, NEW c, NEW ps, NEW row, Begins(s, r, c, ps, row),
           UNCHANGED <<active, roster, told, armed>>, NEW q, Goto(s, q), Late(r, c) = {},
           Who(part'[c]) \subseteq Who(ps) \cup Late(q, c),
           r.op = "initiate" => Who(part'[c]) \subseteq {r.user},
           q.op = r.op, q.call = c, q.user = r.user, q.held = r.held, Plain(q)
    PROVE  Lands(s, c)
  <1>1. OnTheWay(q, part'[c], roster[c], active[c])
    BY DEF Begins, OnTheWay, Plain, Asked, Closing
  <1> QED BY <1>1, LandsHeld

LEMMA LandsDone ==
    ASSUME Typed, NEW s \in Slots, NEW r, NEW c, NEW ps, NEW row, Begins(s, r, c, ps, row),
           UNCHANGED <<active, roster, told, armed>>, Done(s), Late(r, c) = {},
           Who(part'[c]) \subseteq Who(ps)
    PROVE  Lands(s, c)
  <1>1. Goto(s, Idle) /\ Idle.op = "idle"
    BY DEF Done, Idle
  <1> QED BY <1>1, LandsHeld

\* What a row that was written does to who is JOINED
LEMMA WroteWho ==
    ASSUME NEW c, NEW ps, NEW i, NEW p, NEW row, Wrote(c, ps, i, p, row)
    PROVE  /\ p.status # "joined" =>
                /\ Who(part'[c]) \subseteq Who(ps) /\ i[1] \notin Who(part'[c])
                /\ JoinedRows(part'[c]) \subseteq JoinedRows(ps) \ {i}
           /\ Who(part'[c]) \subseteq Who(ps) \cup {i[1]}
  BY DEF Wrote, RowEffect

LEMMA WhoGrows ==
    ASSUME NEW ps \in [RowIds -> PartRow], NEW i \in RowIds, NEW p \in PartRow,
           NEW new, new = [ps EXCEPT ![i] = p]
    PROVE  /\ Who(new) \subseteq Who(ps) \cup {i[1]}
           /\ p.status # "joined" => Who(new) \subseteq Who(ps)
  <1>1. /\ JoinedRows(new) \subseteq JoinedRows(ps) \cup {i}
        /\ p.status # "joined" => JoinedRows(new) \subseteq JoinedRows(ps)
    BY DEF JoinedRows
  <1> QED BY <1>1 DEF Who

LEMMA InitiateLands ==
    ASSUME RosterInv, Intact, NEW s \in Slots, InitiateStep(s), NEW d, d = req[s].call
    PROVE  Lands(s, d)
  <1>0. req[s].op = "initiate"
    BY DEF InitiateStep, InitiateLoad, InitiateInsertCall, InitiateInsertSelf,
           InitiateInsertPart, InitiateAnnounce, At
  <1>a. PICK r, c, ps, row : Begins(s, r, c, ps, row)
    BY <1>0, Begun
  <1>b. /\ r = req[s] /\ r \in Request /\ c = r.call /\ c = d /\ c \in Calls /\ ps = part[c]
        /\ ps \in [RowIds -> PartRow] /\ r.op = "initiate" /\ r.user \in Users
        /\ Who(ps) \subseteq {r.user} /\ roster[c] = <<>> /\ Late(r, c) = {} /\ InHand(r, ps, row)
    BY <1>0, <1>a DEF Begins, Finds, OnTheWay, Late
  <1>c. Typed
    BY DEF RosterInv, TableInv, LedgerInv
  <1>d. Users \X {1} \subseteq RowIds
    BY CallsAssumption DEF RowIds, CallsAssumption
  <1>e. part \in [Calls -> [RowIds -> PartRow]]
    BY <1>c DEF Typed, TypeOK
  <1>f. ASSUME UNCHANGED <<active, roster, told, armed>>, part' = part, NEW q, Goto(s, q),
               q.op = r.op, q.call = c, q.user = r.user, q.held = r.held,
               q.pc \in {"insertCall", "insertSelf"}
        PROVE  Lands(s, c)
    <2>1. Plain(q)
      BY <1>b, <1>f DEF Plain
    <2>2. Who(part'[c]) \subseteq Who(ps) \cup Late(q, c) /\ Who(part'[c]) \subseteq {r.user}
      BY <1>b, <1>f
    <2> QED BY <1>a, <1>b, <1>c, <1>f, <2>1, <2>2, LandsPlain
  <1>1. CASE InitiateLoad(s)
    <2>1. UNCHANGED <<active, roster, told, armed>> /\ part' = part
      BY <1>1 DEF InitiateLoad, OnlyReq, OnlyDb, dbVars, mapVars, timerVars
    <2>2. CASE Done(s)
      BY <1>a, <1>b, <1>c, <2>1, <2>2, LandsDone
    <2>3. CASE conv # Deleted
      <3>1. PICK T, rw : Goto(s, [r EXCEPT !.pc = "insertCall", !.todo = T, !.row = rw])
        BY <1>1, <1>b, <2>3 DEF InitiateLoad
      <3>2. PICK q : q = [r EXCEPT !.pc = "insertCall", !.todo = T, !.row = rw]
        OBVIOUS
      <3>3. /\ q.op = r.op /\ q.call = c /\ q.user = r.user /\ q.held = r.held
            /\ q.pc = "insertCall"
        BY <1>b, <3>2 DEF Request
      <3>4. Goto(s, q)
        BY <3>1, <3>2
      <3> QED BY <1>b, <1>f, <2>1, <3>3, <3>4
    <2> QED BY <1>1, <1>b, <2>2, <2>3 DEF InitiateLoad
  <1>2. CASE InitiateInsertCall(s)
    <2>1. UNCHANGED <<active, roster, told, armed>> /\ part' = part
      BY <1>2 DEF InitiateInsertCall, OnlyDb, mapVars, timerVars
    <2>2. Goto(s, [r EXCEPT !.pc = "insertSelf"])
      BY <1>2, <1>b DEF InitiateInsertCall
    <2>3. PICK q : q = [r EXCEPT !.pc = "insertSelf"]
      OBVIOUS
    <2>4. /\ q.op = r.op /\ q.call = c /\ q.user = r.user /\ q.held = r.held
          /\ q.pc = "insertSelf"
      BY <1>b, <2>3 DEF Request
    <2>5. Goto(s, q)
      BY <2>2, <2>3
    <2> QED BY <1>b, <1>f, <2>1, <2>4, <2>5
  <1>3. CASE InitiateInsertSelf(s)
    <2>1. UNCHANGED <<active, roster, told, armed>>
      BY <1>3 DEF InitiateInsertSelf, OnlyDb, mapVars, timerVars
    <2>2. PICK q, pc : /\ q = [r EXCEPT !.pc = pc] /\ Goto(s, q)
                       /\ pc \in {"announce", "insertParts"}
      BY <1>3, <1>b DEF InitiateInsertSelf
    <2>3. /\ q.op = r.op /\ q.call = c /\ q.user = r.user /\ q.held = r.held
          /\ q.pc = pc
      BY <1>b, <2>2 DEF Request
    <2>4. OnTheWay(q, part'[c], roster[c], active[c]) /\ Who(part'[c]) \subseteq {r.user}
      <3>1. PICK i, p : i = <<r.user, 1>> /\ p = Joined(Invited)
        OBVIOUS
      <3>2. i \in RowIds /\ i[1] = r.user /\ p \in PartRow
        BY <1>b, <1>d, <3>1, PartTypes, InvitedRow
      <3>3. PICK new : new = [ps EXCEPT ![i] = p] /\ new = part'[c]
        BY <1>3, <1>b, <1>e, <3>1 DEF InitiateInsertSelf
      <3>5. Who(part'[c]) \subseteq Who(ps) \cup {i[1]}
        BY <1>b, <3>2, <3>3, WhoGrows
      <3>4. Who(part'[c]) \subseteq {r.user}
        BY <1>b, <3>2, <3>5
      <3> QED BY <1>a, <1>b, <2>2, <2>3, <3>4 DEF OnTheWay, Begins, Asked, Closing
    <2>5. Announced(c)' /\ InEntry(req[s], c)'
      BY <1>a, <1>b, <2>1 DEF Begins, Announced, InEntry
    <2>6. req'[s] = q
      BY <1>c, <2>2, Goes
    <2>7. active'[c] = active[c] /\ roster'[c] = roster[c]
      BY <2>1
    <2>8. Lands(s, c)
      BY <2>3, <2>4, <2>5, <2>6, <2>7 DEF Lands
    <2> QED BY <1>b, <2>8
  <1>4. CASE InitiateInsertPart(s)
    <2>1. UNCHANGED <<active, roster, told, armed>> /\ r.pc = "insertParts"
      BY <1>4, <1>b DEF InitiateInsertPart, OnlyDb, mapVars, timerVars, At
    <2>2. PICK i, T, pc : /\ i \in r.todo /\ part' = [part EXCEPT ![c][i] = Invited]
                          /\ Goto(s, [r EXCEPT !.todo = T, !.pc = pc])
                          /\ pc \in {"announce", "insertParts"}
      BY <1>4, <1>b, <2>1 DEF InitiateInsertPart
    <2>3. PICK q : q = [r EXCEPT !.todo = T, !.pc = pc]
      OBVIOUS
    <2>4. /\ q.op = r.op /\ q.call = c /\ q.user = r.user /\ q.held = r.held /\ q.pc = pc
      BY <1>b, <2>3 DEF Request
    <2>5. i \in RowIds
      BY <1>b, <1>d, <2>1, <2>2 DEF InHand, Settling
    <2>6. PICK new : new = [ps EXCEPT ![i] = Invited] /\ new = part'[c]
      BY <1>b, <1>e, <2>2, <2>5
    <2>7. Who(part'[c]) \subseteq Who(ps)
      BY <1>b, <2>5, <2>6, InvitedRow, WhoGrows
    <2>8. Plain(q)
      BY <1>b, <2>2, <2>4 DEF Plain
    <2>9. r.op = "initiate" => Who(part'[c]) \subseteq {r.user}
      BY <1>b, <2>7
    <2>10. Goto(s, q) /\ Who(part'[c]) \subseteq Who(ps) \cup Late(q, c)
      BY <2>2, <2>3, <2>7
    <2>11. Lands(s, c)
      BY <1>a, <1>b, <1>c, <2>1, <2>4, <2>8, <2>9, <2>10, LandsPlain
    <2> QED BY <1>b, <2>11
  <1>5. CASE InitiateAnnounce(s)
    <2>1. part' = part /\ Done(s)
      BY <1>5 DEF InitiateAnnounce, dbVars
    <2>2. CASE conv = Deleted
      <3>1. UNCHANGED <<active, roster, told, armed>>
        BY <1>5, <2>2 DEF InitiateAnnounce, mapVars, timerVars
      <3> QED BY <1>a, <1>b, <1>c, <2>1, <3>1, LandsDone
    <2>3. CASE conv # Deleted
      <3>1. /\ active' = [active EXCEPT ![c] = 1] /\ roster' = [roster EXCEPT ![c] = <<{r.user}>>]
        BY <1>5, <1>b, <2>3 DEF InitiateAnnounce
      <3>2. active'[c] = 1 /\ roster'[c] = <<{r.user}>>
        BY <1>b, <1>c, <3>1 DEF Typed, TypeOK
      <3>3. roster'[c] # <<>> /\ Here(roster'[c], active'[c]) = {r.user}
        BY <3>2 DEF Here
      <3>4. Who(part'[c]) \subseteq Here(roster'[c], active'[c])
        BY <1>b, <2>1, <3>3
      <3>5. Announced(c)' /\ InEntry(req[s], c)'
        BY <3>3, <3>4 DEF Announced, InEntry
      <3>6. req'[s].op = "idle"
        BY <1>c, <2>1, Goes DEF Done, Idle
      <3>7. PICK q : q = req'[s]
        OBVIOUS
      <3>8. q.op = "idle"
        BY <3>6, <3>7
      <3> QED BY <1>b, <3>5, <3>7, <3>8 DEF Lands
    <2> QED BY <2>2, <2>3
  <1> QED BY <1>1, <1>2, <1>3, <1>4, <1>5, <1>b DEF InitiateStep
\* A step of a handler that was let in, which leaves the entries
LEMMA LandsKept ==
    ASSUME Typed, NEW s \in Slots, Step(s), ~DisconnectFinish(s),
           NEW r, NEW c, NEW ps, NEW row, Begins(s, r, c, ps, row), r.op # "initiate",
           active' = active, roster' = roster, Late(r, c) = {},
           NEW q, q = req'[s],
           Who(part'[c]) \subseteq Who(ps) \cup Late(q, c),
           r.op \in {"end", "disconnect", "kick"} /\ q.op # "idle" => Asked(q, part'[c]),
           r.op = "disconnect" /\ q.op # "idle" => q.held = r.held
    PROVE  Lands(s, c)
  <1>1. /\ ps = part[c] /\ InEntry(r, c) /\ Announced(c) /\ OnTheWay(r, ps, roster[c], active[c])
        /\ r = req[s] /\ c = r.call /\ roster[c] # <<>>
    BY DEF Begins, Finds, OnTheWay
  <1>2. q.op = "idle" \/ (q.op = r.op /\ q.call = c)
    BY <1>1, StepKeeps DEF Kept
  <1>3. Announced(c)'
    BY <1>1 DEF Announced
  <1>4. InEntry(req[s], c)'
    BY <1>1 DEF InEntry
  <1>5. q.op # "idle" => Asked(q, part'[c])
    BY <1>2 DEF Asked, Closing
  <1>6. q.op # "idle" => OnTheWay(q, part'[c], roster[c], active[c])
    BY <1>1, <1>2, <1>5 DEF OnTheWay
  <1> QED BY <1>2, <1>3, <1>4, <1>6 DEF Lands

\* The write of a save touches no row of a participant
LEMMA SavesNoPart ==
    ASSUME Typed, NEW s, NEW r, NEW c, NEW ps, NEW row, Finds(s, r, c, ps, row),
           r.pc = "writeCall", NEW parts, SaveCall(c, r.row, parts, r.diff)
    PROVE  part' = part
  <1>1. /\ c \in Calls /\ part[c] = ps /\ ps \in [RowIds -> PartRow]
        /\ part \in [Calls -> [RowIds -> PartRow]]
    BY DEF Finds, Typed, TypeOK
  <1>2. r.diff.status = {} /\ r.diff.link = {} /\ r.diff.unlink = {}
    BY DEF Finds, InHand, Exact
  <1>3. PICK new :
          /\ new = [i \in RowIds |->
                 [status |-> IF i \in r.diff.status THEN parts[i].status ELSE ps[i].status,
                  linked |-> (ps[i].linked \/ i \in r.diff.link) /\ i \notin r.diff.unlink]]
          /\ part' = [part EXCEPT ![c] = new]
    BY <1>1 DEF SaveCall
  <1>4. \A i \in RowIds : new[i] = ps[i]
    BY <1>1, <1>2, <1>3 DEF PartRow
  <1>5. new = ps
    BY <1>1, <1>3, <1>4
  <1> QED BY <1>1, <1>3, <1>5

\* Looking at the row leaves all but the handler
LEMMA LookLands ==
    ASSUME RosterInv, Intact, NEW s \in Slots, LookAtCall(s), NEW d, d = req[s].call
    PROVE  Lands(s, d)
  <1>0. /\ req[s].op \in Saving /\ req[s].pc = "saveCall" /\ Step(s) /\ req[s].op # "idle"
        /\ ~DisconnectFinish(s)
    BY DEF LookAtCall, Saving, Step, DisconnectFinish, At
  <1>a. PICK r, c, ps, row : Begins(s, r, c, ps, row)
    BY <1>0, Begun
  <1>b. /\ r = req[s] /\ r \in Request /\ c = r.call /\ c = d /\ c \in Calls /\ ps = part[c]
        /\ r.op \in Saving /\ r.pc = "saveCall"
    BY <1>0, <1>a DEF Begins, Finds
  <1>c. Typed
    BY DEF RosterInv, TableInv, LedgerInv
  <1>1. active' = active /\ roster' = roster /\ part' = part /\ Late(r, c) = {}
    BY <1>b DEF LookAtCall, dbVars, mapVars, Late
  <1>2. PICK diff : req' = [req EXCEPT ![s] = [r EXCEPT !.pc = "writeCall", !.diff = diff]]
    BY <1>b DEF LookAtCall
  <1>q. PICK q : q = req'[s]
    OBVIOUS
  <1>3. q = [r EXCEPT !.pc = "writeCall", !.diff = diff]
    BY <1>c, <1>2, <1>q DEF Typed, TypeOK
  <1>4. q.op = r.op /\ q.pc = "writeCall" /\ q.held = r.held
    BY <1>b, <1>3 DEF Request
  <1>5. Asked(q, part'[c])
    BY <1>b, <1>4 DEF Asked, Closing, Saving
  <1>6. Who(part'[c]) \subseteq Who(ps) \cup Late(q, c)
    BY <1>b, <1>1
  <1>7. Lands(s, c)
    BY <1>0, <1>a, <1>b, <1>c, <1>q, <1>1, <1>4, <1>5, <1>6, LandsKept DEF Saving
  <1> QED BY <1>b, <1>7

LEMMA AcceptLands ==
    ASSUME RosterInv, Intact, NEW s \in Slots, AcceptStep(s), NEW d, d = req[s].call
    PROVE  Lands(s, d)
  <1>0. req[s].op = "accept" /\ Step(s) /\ ~DisconnectFinish(s)
    BY DEF AcceptStep, AcceptLoad, AcceptSaveCall, AcceptSavePart, AcceptFinish, At, Step,
           DisconnectFinish
  <1>a. PICK r, c, ps, row : Begins(s, r, c, ps, row)
    BY <1>0, Begun
  <1>b. /\ r = req[s] /\ r \in Request /\ c = r.call /\ c = d /\ c \in Calls /\ ps = part[c]
        /\ ps \in [RowIds -> PartRow] /\ Tidy(ps) /\ r.op = "accept" /\ r.user \in Users
        /\ InHand(r, ps, row) /\ Finds(s, r, c, ps, row)
        /\ roster[c] # <<>> /\ InEntry(r, c)
        /\ roster[c] \in Seq(SUBSET Users) /\ active[c] \in 0 .. Len(roster[c])
    BY <1>0, <1>a DEF Begins, Finds, OnTheWay
  <1>c. Typed /\ TablesTidy
    BY DEF RosterInv, TableInv, LedgerInv
  <1>d. Born(c)
    BY <1>b DEF Finds, Fits, Starting, Born
  <1>q. PICK q : q = req'[s]
    OBVIOUS
  <1>1. CASE AcceptLoad(s) \/ AcceptSaveCall(s)
    <2>1. active' = active /\ roster' = roster /\ Late(r, c) = {}
      BY <1>1, <1>b DEF AcceptLoad, AcceptSaveCall, OnlyReq, OnlyDb, mapVars, Late, At
    <2>2. part' = part
      <3>1. CASE AcceptLoad(s)
        BY <3>1 DEF AcceptLoad, OnlyReq, dbVars
      <3>2. CASE AcceptSaveCall(s)
        <4>1. r.pc = "writeCall" /\ SaveCall(c, r.row, r.parts, r.diff)
          BY <3>2, <1>b DEF AcceptSaveCall, At
        <4> QED BY <1>b, <1>c, <4>1, SavesNoPart
      <3> QED BY <1>1, <3>1, <3>2
    <2>3. Who(part'[c]) \subseteq Who(ps) \cup Late(q, c)
      BY <1>b, <2>2
    <2>4. Lands(s, c)
      BY <1>0, <1>a, <1>b, <1>c, <1>q, <2>1, <2>3, LandsKept
    <2> QED BY <1>b, <2>4
  <1>2. CASE AcceptSavePart(s)
    <2>1. /\ active' = active /\ roster' = roster /\ Late(r, c) = {} /\ r.parts = ps
          /\ Goto(s, [r EXCEPT !.pc = "finish"])
      BY <1>2, <1>b DEF AcceptSavePart, OnlyDb, mapVars, Late, At, InHand
    <2>2. PICK i, p : i \in RowsOf(ps, r.user) /\ p = Joined(ps[i]) /\ SavePart(c, i, p)
      BY <1>2, <1>b, <2>1 DEF AcceptSavePart
    <2>3. i \in Rows(ps) /\ ps[i] \in PartRow /\ i[1] = r.user
      BY <1>b, <2>2, TidyRow DEF RowsOf
    <2>4. p \in PartRow /\ p.status # "none"
      BY <2>2, <2>3, PartTypes DEF Joined, PartRow
    <2>5. Wrote(c, ps, i, p, row)
      BY <1>b, <1>c, <1>d, <2>2, <2>3, <2>4, WritesPart
    <2>6. q = [r EXCEPT !.pc = "finish"]
      BY <1>c, <1>q, <2>1, Goes
    <2>7. Late(q, c) = {r.user}
      BY <1>b, <2>6 DEF Late, Request
    <2>8. Who(part'[c]) \subseteq Who(ps) \cup Late(q, c)
      BY <2>3, <2>5, <2>7, WroteWho
    <2>9. Lands(s, c)
      BY <1>0, <1>a, <1>b, <1>c, <1>q, <2>1, <2>8, LandsKept
    <2> QED BY <1>b, <2>9
  <1>3. CASE AcceptFinish(s)
    <2>1. part' = part /\ Done(s) /\ Late(r, c) \subseteq {r.user}
      BY <1>3 DEF AcceptFinish, dbVars, Late
    <2>2. roster \in [Calls -> Seq(SUBSET Users)] /\ active \in [Calls -> Nat]
      BY <1>c DEF Typed, TypeOK
    <2>3. /\ roster'[c] # <<>>
          /\ Here(roster[c], active[c]) \cup {r.user} \subseteq Here(roster'[c], active'[c])
      <3>1. CASE active[c] = 0
        <4>1. /\ roster' = [roster EXCEPT ![c] = Append(roster[c], {r.user})]
              /\ active' = [active EXCEPT ![c] = Len(roster[c]) + 1]
          BY <1>3, <1>b, <3>1, <2>2 DEF AcceptFinish
        <4>2. /\ roster'[c] = Append(roster[c], {r.user}) /\ active'[c] = Len(roster[c]) + 1
          BY <1>b, <2>2, <4>1
        <4>3. active'[c] # 0 /\ roster'[c][active'[c]] = {r.user}
          BY <1>b, <4>2
        <4>4. roster'[c] # <<>>
          BY <1>b, <4>2
        <4> QED BY <3>1, <4>3, <4>4 DEF Here
      <3>2. CASE active[c] # 0
        <4>1. /\ roster' = [roster EXCEPT ![c] = [roster[c] EXCEPT ![active[c]] = @ \cup {r.user}]]
              /\ active' = active
          BY <1>3, <1>b, <3>2, <2>2 DEF AcceptFinish
        <4>2. PICK n, old, new : /\ n = active[c] /\ old = roster[c] /\ new = roster'[c]
                                 /\ new = [old EXCEPT ![n] = old[n] \cup {r.user}]
          BY <1>b, <2>2, <4>1
        <4>3. n \in 1 .. Len(old) /\ old \in Seq(SUBSET Users)
          BY <1>b, <3>2, <4>2
        <4>4. new[n] = old[n] \cup {r.user} /\ n \in DOMAIN new
          BY <4>2, <4>3
        <4>5. new # <<>>
          BY <4>4
        <4> QED BY <3>2, <4>1, <4>2, <4>4, <4>5 DEF Here
      <3> QED BY <3>1, <3>2
    <2>4. Who(part'[c]) \subseteq Here(roster'[c], active'[c])
      BY <1>b, <2>1, <2>3 DEF InEntry
    <2>5. Announced(c)' /\ InEntry(req[s], c)'
      BY <2>3, <2>4 DEF Announced, InEntry
    <2>6. q.op = "idle"
      BY <1>c, <1>q, <2>1, Goes DEF Done, Idle
    <2>7. Lands(s, c)
      BY <1>q, <2>5, <2>6 DEF Lands
    <2> QED BY <1>b, <2>7
  <1> QED BY <1>1, <1>2, <1>3 DEF AcceptStep

LEMMA DeclineLands ==
    ASSUME RosterInv, Intact, NEW s \in Slots, DeclineStep(s), NEW d, d = req[s].call
    PROVE  Lands(s, d)
  <1>0. req[s].op = "decline" /\ Step(s) /\ ~DisconnectFinish(s)
    BY DEF DeclineStep, DeclineLoad, DeclineSavePart, DeclineSaveCall, DeclineFinish, At,
           Step, DisconnectFinish
  <1>a. PICK r, c, ps, row : Begins(s, r, c, ps, row)
    BY <1>0, Begun
  <1>b. /\ r = req[s] /\ r \in Request /\ c = r.call /\ c = d /\ c \in Calls /\ ps = part[c]
        /\ ps \in [RowIds -> PartRow] /\ Tidy(ps) /\ r.op = "decline"
        /\ InHand(r, ps, row) /\ Finds(s, r, c, ps, row) /\ Late(r, c) = {}
    BY <1>0, <1>a DEF Begins, Finds, Late
  <1>c. Typed /\ TablesTidy
    BY DEF RosterInv, TableInv, LedgerInv
  <1>d. Born(c)
    BY <1>b DEF Finds, Fits, Starting, Born
  <1>q. PICK q : q = req'[s]
    OBVIOUS
  <1>1. active' = active /\ roster' = roster
    BY DEF DeclineStep, DeclineLoad, DeclineSavePart, DeclineSaveCall, DeclineFinish,
           OnlyReq, OnlyDb, mapVars
  <1>2. Who(part'[c]) \subseteq Who(ps)
    <2>1. CASE DeclineLoad(s) \/ DeclineFinish(s)
      BY <1>b, <2>1 DEF DeclineLoad, DeclineFinish, OnlyReq, dbVars
    <2>2. CASE DeclineSaveCall(s)
      <3>1. r.pc = "writeCall" /\ SaveCall(c, r.row, r.parts, r.diff)
        BY <2>2, <1>b DEF DeclineSaveCall, At
      <3>2. part' = part
        BY <1>b, <1>c, <3>1, SavesNoPart
      <3> QED BY <1>b, <3>2
    <2>3. CASE DeclineSavePart(s)
      <3>1. r.parts = ps
        BY <2>3, <1>b DEF DeclineSavePart, At, InHand
      <3>2. PICK i, p : /\ i \in RowsOf(ps, r.user) /\ p = [ps[i] EXCEPT !.status = "declined"]
                        /\ SavePart(c, i, p)
        BY <2>3, <1>b, <3>1 DEF DeclineSavePart
      <3>3. i \in Rows(ps) /\ ps[i] \in PartRow
        BY <1>b, <3>2, TidyRow DEF RowsOf
      <3>4. p \in PartRow /\ p.status = "declined"
        BY <3>2, <3>3 DEF PartRow, PartStatus
      <3>5. Wrote(c, ps, i, p, row)
        BY <1>b, <1>c, <1>d, <3>2, <3>3, <3>4, WritesPart
      <3> QED BY <3>4, <3>5, WroteWho
    <2> QED BY <2>1, <2>2, <2>3 DEF DeclineStep
  <1>3. Lands(s, c)
    <2>1. Who(part'[c]) \subseteq Who(ps) \cup Late(q, c)
      BY <1>2
    <2> QED BY <1>0, <1>a, <1>b, <1>c, <1>q, <1>1, <2>1, LandsKept
  <1> QED BY <1>b, <1>3

LEMMA TimerLands ==
    ASSUME RosterInv, Intact, NEW s \in Slots, TimerStep(s), NEW d, d = req[s].call
    PROVE  Lands(s, d)
  <1>0. req[s].op = "timer" /\ Step(s) /\ ~DisconnectFinish(s)
    BY DEF TimerStep, TimerCheck, TimerLoad, TimerSaveCall, TimerSaveRest, TimerFinish, At,
           Step, DisconnectFinish
  <1>a. PICK r, c, ps, row : Begins(s, r, c, ps, row)
    BY <1>0, Begun
  <1>b. /\ r = req[s] /\ r \in Request /\ c = r.call /\ c = d /\ c \in Calls /\ ps = part[c]
        /\ ps \in [RowIds -> PartRow] /\ Tidy(ps) /\ r.op = "timer"
        /\ InHand(r, ps, row) /\ Finds(s, r, c, ps, row) /\ Late(r, c) = {}
    BY <1>0, <1>a DEF Begins, Finds, Late
  <1>c. Typed /\ TablesTidy
    BY DEF RosterInv, TableInv, LedgerInv
  <1>d. Born(c)
    BY <1>b DEF Finds, Fits, Starting, Born
  <1>q. PICK q : q = req'[s]
    OBVIOUS
  <1>1. active' = active /\ roster' = roster
    BY DEF TimerStep, TimerCheck, TimerLoad, TimerSaveCall, TimerSaveRest, TimerFinish,
           OnlyReq, OnlyDb, mapVars
  <1>2. Who(part'[c]) \subseteq Who(ps)
    <2>1. CASE TimerCheck(s) \/ TimerLoad(s) \/ TimerFinish(s)
      BY <1>b, <2>1 DEF TimerCheck, TimerLoad, TimerFinish, OnlyReq, dbVars
    <2>2. CASE TimerSaveCall(s)
      <3>1. r.pc = "writeCall" /\ SaveCall(c, r.row, r.parts, r.diff)
        BY <2>2, <1>b DEF TimerSaveCall, At
      <3>2. part' = part
        BY <1>b, <1>c, <3>1, SavesNoPart
      <3> QED BY <1>b, <3>2
    <2>3. CASE TimerSaveRest(s)
      <3>1. r.todo \subseteq Rows(ps)
        BY <2>3, <1>b DEF TimerSaveRest, At, InHand
      <3>2. PICK i, p : /\ i \in r.todo /\ p = [r.parts[i] EXCEPT !.status = "missed"]
                        /\ SavePart(c, i, p)
        BY <2>3, <1>b DEF TimerSaveRest
      <3>3. i \in Rows(ps) /\ r.parts[i] \in PartRow
        BY <1>b, <3>1, <3>2 DEF Rows, Request
      <3>4. p \in PartRow /\ p.status = "missed"
        BY <3>2, <3>3 DEF PartRow, PartStatus
      <3>5. Wrote(c, ps, i, p, row)
        BY <1>b, <1>c, <1>d, <3>2, <3>3, <3>4, WritesPart
      <3> QED BY <3>4, <3>5, WroteWho
    <2> QED BY <2>1, <2>2, <2>3 DEF TimerStep
  <1>3. Lands(s, c)
    <2>1. Who(part'[c]) \subseteq Who(ps) \cup Late(q, c)
      BY <1>2
    <2> QED BY <1>0, <1>a, <1>b, <1>c, <1>q, <1>1, <2>1, LandsKept
  <1> QED BY <1>b, <1>3
LEMMA LeaveAsks ==
    ASSUME NEW l \in Request, l.op \in {"end", "disconnect"}, NEW ps, l.user \notin Who(ps),
           NEW q, q = AfterLeave(l)
    PROVE  Asked(q, ps) /\ q.held = l.held
  <1>1. CASE l.row.scope = "dm" \/ JoinedRows(l.parts) = {}
    <2>1. PICK rw : q = [l EXCEPT !.pc = "saveCall", !.row = rw]
      BY <1>1 DEF AfterLeave, Request
    <2>2. q.op = l.op /\ q.pc = "saveCall" /\ q.held = l.held
      BY <2>1 DEF Request
    <2> QED BY <2>2 DEF Asked, Closing
  <1>2. CASE ~(l.row.scope = "dm" \/ JoinedRows(l.parts) = {})
    <2>1. q = [l EXCEPT !.pc = "left"]
      BY <1>2 DEF AfterLeave
    <2>2. q.op = l.op /\ q.pc = "left" /\ q.held = l.held /\ q.user = l.user
      BY <2>1 DEF Request
    <2> QED BY <2>2 DEF Asked, Closing
  <1> QED BY <1>1, <1>2

\* A user whose one row is not JOINED is not in the call
LEMMA NotJoined ==
    ASSUME NEW ps, Tidy(ps), NEW u, RowsOf(ps, u) \ JoinedRows(ps) # {} \/ RowsOf(ps, u) = {}
    PROVE  u \notin Who(ps)
  <1> SUFFICES ASSUME NEW i \in JoinedRows(ps), i[1] = u PROVE FALSE
    BY DEF Who
  <1>1. i \in RowsOf(ps, u)
    BY DEF JoinedRows, RowsOf, Rows
  <1>2. PICK j \in RowsOf(ps, u) : j \notin JoinedRows(ps)
    BY <1>1
  <1>3. i = j
    BY <1>1, <1>2 DEF RowsOf, Tidy
  <1> QED BY <1>2, <1>3

\* What deleting a user from the Set object n of a call does to it
LEMMA EntryLoses ==
    ASSUME Typed, NEW c \in Calls, NEW n \in 1 .. Len(roster[c]), NEW u,
           roster' = [roster EXCEPT ![c][n] = @ \ {u}]
    PROVE  roster'[c] # <<>> /\ \A v \in roster[c][n] : v # u => v \in roster'[c][n]
  <1>1. roster \in [Calls -> Seq(SUBSET Users)]
    BY DEF Typed, TypeOK
  <1>2. PICK old, new : old = roster[c] /\ new = roster'[c] /\ new = [old EXCEPT ![n] = old[n] \ {u}]
    BY <1>1
  <1>3. n \in DOMAIN old
    BY <1>1, <1>2
  <1>4. new[n] = old[n] \ {u} /\ n \in DOMAIN new
    BY <1>2, <1>3
  <1>5. new # <<>>
    BY <1>4
  <1> QED BY <1>2, <1>4, <1>5

\* A user who is not JOINED is taken out of the entry; the last one takes it away
LEMMA LeavesEntry ==
    ASSUME Typed, NEW c \in Calls, roster[c] # <<>>, active[c] \in 0 .. Len(roster[c]),
           NEW u, u \notin Who(part[c]), Who(part[c]) \subseteq Here(roster[c], active[c]),
           part' = part,
           \/ active[c] = 0 /\ active' = active /\ roster' = roster
           \/ /\ active[c] # 0 /\ roster' = [roster EXCEPT ![c][active[c]] = @ \ {u}]
              /\ \/ roster[c][active[c]] \subseteq {u} /\ active' = [active EXCEPT ![c] = 0]
                 \/ active' = active
    PROVE  roster'[c] # <<>> /\ Who(part'[c]) \subseteq Here(roster'[c], active'[c])
  <1>1. CASE active[c] = 0
    BY <1>1
  <1>2. CASE active[c] # 0
    <2>1. PICK n : n = active[c] /\ n \in 1 .. Len(roster[c])
      BY <1>2
    <2>2. roster'[c] # <<>> /\ \A v \in roster[c][n] : v # u => v \in roster'[c][n]
      <3>1. roster' = [roster EXCEPT ![c][n] = @ \ {u}]
        BY <1>2, <2>1
      <3>2. n \in 1 .. Len(roster[c])
        BY <2>1
      <3> QED BY <3>1, <3>2, EntryLoses
    <2>5. Who(part[c]) \subseteq roster[c][n] \ {u}
      BY <1>2, <2>1 DEF Here
    <2>3. CASE active' = active
      BY <1>2, <2>1, <2>2, <2>3, <2>5 DEF Here
    <2>4. CASE roster[c][active[c]] \subseteq {u}
      BY <2>1, <2>2, <2>4, <2>5
    <2> QED BY <1>2, <2>3, <2>4
  <1> QED BY <1>1, <1>2

LEMMA EndLands ==
    ASSUME RosterInv, Intact, Typed', NEW s \in Slots, EndStep(s), NEW d, d = req[s].call
    PROVE  Lands(s, d)
  <1>0. req[s].op \in {"end", "disconnect"} /\ Step(s)
    BY DEF EndStep, EndLoad, EndSavePart, EndSaveCall, EndSaveRest, EndFinish, At, Ending,
           Step, DisconnectFinish
  <1>a. PICK r, c, ps, row : Begins(s, r, c, ps, row)
    BY <1>0, Begun
  <1>b. /\ r = req[s] /\ r \in Request /\ c = r.call /\ c = d /\ c \in Calls /\ ps = part[c]
        /\ ps \in [RowIds -> PartRow] /\ Tidy(ps) /\ r.op \in {"end", "disconnect"}
        /\ InHand(r, ps, row) /\ Finds(s, r, c, ps, row) /\ Late(r, c) = {}
        /\ r.user \in Users /\ LinkedRows(c) = ps
    BY <1>0, <1>a DEF Begins, Finds, Late
  <1>c. Typed /\ TablesTidy
    BY DEF RosterInv, TableInv, LedgerInv
  <1>d. Born(c)
    BY <1>b DEF Finds, Fits, Starting, Born
  <1>e. /\ roster[c] # <<>> /\ active[c] \in 0 .. Len(roster[c]) /\ Asked(r, ps)
        /\ Who(ps) \subseteq Here(roster[c], active[c])
        /\ r.op = "disconnect" => r.held = active[c] /\ r.held # 0
    BY <1>a, <1>b DEF Begins, OnTheWay, InEntry
  <1>q. PICK q : q = req'[s]
    OBVIOUS
  \* A step that is not the last
  <1>f. ASSUME r.pc \in {"load", "savePart", "saveCall", "writeCall", "saveRest"},
               active' = active, roster' = roster, Who(part'[c]) \subseteq Who(ps),
               Asked(q, part'[c]), q.held = r.held
        PROVE  Lands(s, d)
    <2>1. ~DisconnectFinish(s)
      BY <1>f, <1>b DEF DisconnectFinish, At
    <2>2. Who(part'[c]) \subseteq Who(ps) \cup Late(q, c)
      BY <1>f
    <2>3. r.op # "initiate"
      BY <1>b
    <2>4. Lands(s, c)
      BY <1>0, <1>a, <1>b, <1>c, <1>f, <1>q, <2>1, <2>2, <2>3, LandsKept
    <2> QED BY <1>b, <2>4
  <1>1. CASE EndLoad(s)
    <2>1. active' = active /\ roster' = roster /\ part' = part /\ r.pc = "load"
      BY <1>1, <1>b DEF EndLoad, OnlyReq, OnlyDb, dbVars, mapVars, Ending, At
    <2>2. PICK l : l = [r EXCEPT !.row = row, !.parts = ps]
      OBVIOUS
    <2>3. row = call[c] /\ row \in CallRow
      BY <1>b DEF Finds
    <2>4. l \in Request /\ l.op = r.op /\ l.user = r.user /\ l.held = r.held /\ l.parts = ps
      BY <1>b, <2>2, <2>3 DEF Request
    <2>5. \/ /\ RowsOf(ps, r.user) \ JoinedRows(ps) # {} \/ RowsOf(ps, r.user) = {}
             /\ Goto(s, AfterLeave(l))
          \/ \E i \in RowsOf(ps, r.user) :
               Goto(s, [l EXCEPT !.pc = "savePart", !.todo = {i}, !.parts[i] = HasLeft(@)])
      BY <1>1, <1>b, <2>2, <2>3, <2>4 DEF EndLoad
    <2>6. CASE /\ RowsOf(ps, r.user) \ JoinedRows(ps) # {} \/ RowsOf(ps, r.user) = {}
               /\ Goto(s, AfterLeave(l))
      <3>1. r.user \notin Who(ps)
        BY <1>b, <2>6, NotJoined
      <3>2. q = AfterLeave(l)
        BY <1>c, <1>q, <2>6, Goes
      <3>3. Asked(q, ps) /\ q.held = l.held
        BY <1>b, <2>4, <3>1, <3>2, LeaveAsks
      <3> QED BY <1>b, <1>f, <2>1, <2>4, <3>3
    <2>7. ASSUME NEW i \in RowsOf(ps, r.user),
                 Goto(s, [l EXCEPT !.pc = "savePart", !.todo = {i}, !.parts[i] = HasLeft(@)])
          PROVE  Lands(s, d)
      <3>1. PICK qs : q = [l EXCEPT !.pc = "savePart", !.todo = {i}, !.parts = qs]
        <4>1. q = [l EXCEPT !.pc = "savePart", !.todo = {i}, !.parts[i] = HasLeft(@)]
          BY <1>c, <1>q, <2>7, Goes
        <4>2. q = [l EXCEPT !.pc = "savePart", !.todo = {i},
                            !.parts = [l.parts EXCEPT ![i] = HasLeft(@)]]
          BY <2>4, <4>1 DEF Request
        <4> QED BY <4>2
      <3>2. q.op = r.op /\ q.pc = "savePart" /\ q.held = r.held
        BY <2>4, <3>1 DEF Request
      <3>3. Asked(q, ps)
        BY <1>b, <3>2 DEF Asked, Closing
      <3> QED BY <1>b, <1>f, <2>1, <3>2, <3>3
    <2> QED BY <2>5, <2>6, <2>7
  <1>2. CASE EndSavePart(s)
    <2>1. active' = active /\ roster' = roster /\ r.pc = "savePart"
      BY <1>2, <1>b DEF EndSavePart, OnlyDb, mapVars, Ending, At
    <2>a. Closing(r, "savePart")
      BY <1>b, <2>1 DEF Closing
    <2>b. PICK i \in RowsOf(ps, r.user) : r.todo = {i} /\ r.parts = [ps EXCEPT ![i] = HasLeft(@)]
      BY <1>b, <2>a DEF InHand
    <2>2. PICK p : /\ i \in RowsOf(ps, r.user) /\ p = HasLeft(ps[i]) /\ r.todo = {i}
                   /\ r.parts = [ps EXCEPT ![i] = p]
      BY <1>b, <2>b DEF RowsOf, Rows
    <2>3. i \in Rows(ps) /\ ps[i] \in PartRow /\ i \in RowIds /\ i[1] = r.user
      BY <1>b, <2>2, TidyRow DEF RowsOf
    <2>4. p \in PartRow /\ p.status = "left"
      BY <2>2, <2>3, HasLeftRow
    <2>5. SavePart(c, i, p) /\ Goto(s, AfterLeave([r EXCEPT !.todo = {}]))
      BY <1>2, <1>b, <2>2, <2>3 DEF EndSavePart
    <2>6. Wrote(c, ps, i, p, row)
      BY <1>b, <1>c, <1>d, <2>3, <2>4, <2>5, WritesPart
    <2>7. Who(part'[c]) \subseteq Who(ps) /\ r.user \notin Who(part'[c])
      BY <2>3, <2>4, <2>6, WroteWho
    <2>8. PICK l : l = [r EXCEPT !.todo = {}]
      OBVIOUS
    <2>9. l \in Request /\ l.op = r.op /\ l.user = r.user /\ l.held = r.held
      BY <1>b, <2>8 DEF Request
    <2>10. q = AfterLeave(l)
      BY <1>c, <1>q, <2>5, <2>8, Goes
    <2>11. Asked(q, part'[c]) /\ q.held = l.held
      BY <1>b, <2>7, <2>9, <2>10, LeaveAsks
    <2> QED BY <1>f, <2>1, <2>7, <2>9, <2>11
  <1>3. CASE EndSaveCall(s)
    <2>1. /\ active' = active /\ roster' = roster /\ r.pc = "writeCall" /\ r.parts = ps
          /\ SaveCall(c, r.row, r.parts, r.diff)
      BY <1>3, <1>b DEF EndSaveCall, OnlyDb, mapVars, Ending, At, InHand, Settling
    <2>2. part' = part
      BY <1>b, <1>c, <2>1, SavesNoPart
    <2>w. PICK w : w = Written(r)
      OBVIOUS
    <2>v. w \in Request /\ w.op = r.op /\ w.held = r.held
      BY <1>b, <2>w, WrittenSame DEF SameHandler
    <2>3. PICK T, pc : /\ Goto(s, [w EXCEPT !.todo = T, !.pc = pc]) /\ T = JoinedRows(ps)
                       /\ pc = IF T = {} THEN "ended" ELSE "saveRest"
      BY <1>3, <1>b, <2>1, <2>w DEF EndSaveCall
    <2>4. q = [w EXCEPT !.todo = T, !.pc = pc]
      BY <1>c, <1>q, <2>3, Goes
    <2>5. q.op = r.op /\ q.pc = pc /\ q.todo = T /\ q.held = r.held
      BY <1>b, <2>4, <2>v DEF Request
    <2>6. Asked(q, ps)
      BY <1>b, <2>3, <2>5 DEF Asked, Closing, Who
    <2> QED BY <1>b, <1>f, <2>1, <2>2, <2>5, <2>6
  <1>4. CASE EndSaveRest(s)
    <2>1. active' = active /\ roster' = roster /\ r.pc = "saveRest"
      BY <1>4, <1>b DEF EndSaveRest, OnlyDb, mapVars, Ending, At
    <2>2. r.todo \subseteq Rows(ps) /\ JoinedRows(ps) \subseteq r.todo
      BY <1>b, <1>e, <2>1 DEF InHand, Asked, Closing
    <2>a. PICK i \in r.todo :
            /\ SavePart(c, i, HasLeft(r.parts[i]))
            /\ Goto(s, [r EXCEPT !.todo = r.todo \ {i},
                                 !.pc = IF r.todo = {i} THEN "ended" ELSE r.pc])
      BY <1>4, <1>b DEF EndSaveRest, Request
    <2>b. PICK p, T, pc : /\ p = HasLeft(r.parts[i]) /\ T = r.todo \ {i}
                          /\ pc = IF r.todo = {i} THEN "ended" ELSE r.pc
      OBVIOUS
    <2>3. /\ i \in r.todo /\ p = HasLeft(r.parts[i]) /\ SavePart(c, i, p)
          /\ Goto(s, [r EXCEPT !.todo = T, !.pc = pc]) /\ T = r.todo \ {i}
          /\ pc = IF r.todo = {i} THEN "ended" ELSE "saveRest"
      BY <2>1, <2>a, <2>b
    <2>4. i \in Rows(ps) /\ r.parts[i] \in PartRow
      BY <1>b, <2>2, <2>3 DEF Rows, Request
    <2>5. p \in PartRow /\ p.status = "left"
      BY <2>3, <2>4, HasLeftRow
    <2>6. Wrote(c, ps, i, p, row)
      BY <1>b, <1>c, <1>d, <2>3, <2>4, <2>5, WritesPart
    <2>7. /\ Who(part'[c]) \subseteq Who(ps)
          /\ JoinedRows(part'[c]) \subseteq JoinedRows(ps) \ {i}
      BY <2>5, <2>6, WroteWho
    <2>8. JoinedRows(part'[c]) \subseteq T
      BY <2>2, <2>3, <2>7
    <2>9. q = [r EXCEPT !.todo = T, !.pc = pc]
      BY <1>c, <1>q, <2>3, Goes
    <2>10. q.op = r.op /\ q.pc = pc /\ q.todo = T /\ q.held = r.held
      BY <1>b, <2>9 DEF Request
    <2>11. pc = "ended" => JoinedRows(part'[c]) = {}
      BY <2>3, <2>8
    <2>12. Asked(q, part'[c])
      BY <1>b, <2>3, <2>8, <2>10, <2>11 DEF Asked, Closing, Who
    <2> QED BY <1>f, <2>1, <2>7, <2>10, <2>12
  \* The call has ended: the entry goes, and nobody is JOINED
  <1>g. ASSUME Closing(r, "ended"), roster' = roster, DropEntry(c), part' = part
        PROVE  Announced(c)' /\ InEntry(req[s], c)'
    <2>1. Who(part'[c]) = {} /\ roster'[c] # <<>>
      BY <1>b, <1>e, <1>g DEF Asked
    <2> QED BY <2>1 DEF Announced, InEntry
  \* The user has left it
  <1>h. ASSUME Closing(r, "left"), part' = part,
               \/ active[c] = 0 /\ active' = active /\ roster' = roster
               \/ /\ active[c] # 0 /\ roster' = [roster EXCEPT ![c][active[c]] = @ \ {r.user}]
                  /\ \/ roster[c][active[c]] \subseteq {r.user} /\ active' = [active EXCEPT ![c] = 0]
                     \/ active' = active
        PROVE  Announced(c)' /\ InEntry(req[s], c)'
    <2>1. r.user \notin Who(part[c])
      BY <1>b, <1>e, <1>h DEF Asked
    <2>2. PICK u : u = r.user
      OBVIOUS
    <2>3. roster'[c] # <<>> /\ Who(part'[c]) \subseteq Here(roster'[c], active'[c])
      BY <1>b, <1>c, <1>e, <1>h, <2>1, <2>2, LeavesEntry
    <2> QED BY <2>3 DEF Announced, InEntry
  <1>5. CASE EndFinish(s)
    <2>1. part' = part /\ Done(s) /\ r.op = "end"
      BY <1>5, <1>b DEF EndFinish, dbVars, At
    <2>2. Announced(c)' /\ InEntry(req[s], c)'
      <3>1. CASE r.pc = "ended"
        <4>1. Closing(r, "ended") /\ roster' = roster /\ DropEntry(c)
          BY <1>5, <1>b, <2>1, <3>1 DEF EndFinish, Closing, At
        <4> QED BY <1>g, <2>1, <4>1
      <3>2. CASE r.pc = "left"
        <4>1. /\ Closing(r, "left")
              /\ \/ active[c] = 0 /\ active' = active /\ roster' = roster
                 \/ /\ active[c] # 0
                    /\ roster' = [roster EXCEPT ![c][active[c]] = @ \ {r.user}]
                    /\ \/ /\ roster[c][active[c]] \subseteq {r.user}
                          /\ active' = [active EXCEPT ![c] = 0]
                       \/ active' = active
          BY <1>5, <1>b, <2>1, <3>2 DEF EndFinish, Closing, At, DropEntry
        <4> QED BY <1>h, <2>1, <4>1
      <3> QED BY <1>5, <1>b, <3>1, <3>2 DEF EndFinish, At
    <2>3. q.op = "idle"
      BY <1>c, <1>q, <2>1, Goes DEF Done, Idle
    <2>4. Lands(s, c)
      BY <1>q, <2>2, <2>3 DEF Lands
    <2> QED BY <1>b, <2>4
  <1>6. CASE DisconnectFinish(s)
    <2>1. /\ part' = part /\ r.op = "disconnect" /\ q \in Sweep(r, active', roster')
          /\ r.held = active[c] /\ active[c] # 0
      BY <1>6, <1>b, <1>c, <1>e, <1>q, Goes DEF DisconnectFinish, dbVars, At
    <2>2. Announced(c)' /\ InEntry(req[s], c)'
      <3>1. CASE r.pc = "ended"
        <4>1. Closing(r, "ended") /\ roster' = roster /\ DropEntry(c)
          BY <1>6, <1>b, <2>1, <3>1 DEF DisconnectFinish, Closing, At
        <4> QED BY <1>g, <2>1, <4>1
      <3>2. CASE r.pc = "left"
        <4>1. /\ Closing(r, "left")
              /\ \/ active[c] = 0 /\ active' = active /\ roster' = roster
                 \/ /\ active[c] # 0
                    /\ roster' = [roster EXCEPT ![c][active[c]] = @ \ {r.user}]
                    /\ \/ /\ roster[c][active[c]] \subseteq {r.user}
                          /\ active' = [active EXCEPT ![c] = 0]
                       \/ active' = active
          BY <1>6, <1>b, <2>1, <3>2 DEF DisconnectFinish, Closing, At, DropEntry
        <4> QED BY <1>h, <2>1, <4>1
      <3> QED BY <1>6, <1>b, <3>1, <3>2 DEF DisconnectFinish, At
    <2>3. q.op # "idle" => OnTheWay(q, part'[q.call], roster'[q.call], active'[q.call])
      <3> SUFFICES ASSUME q.op # "idle"
                   PROVE  OnTheWay(q, part'[q.call], roster'[q.call], active'[q.call])
        OBVIOUS
      <3>1. /\ q.op = "disconnect" /\ q.call \in Calls /\ q.pc = "load"
            /\ q.held = active'[q.call] /\ q.held # 0
        BY <1>b, <2>1, SweepNext, SweepFresh, SweepHolds
      <3>2. PICK e \in Calls : e = q.call
        BY <3>1
      <3>3. active'[e] \in 0 .. Len(roster'[e]) /\ roster'[e] \in Seq(SUBSET Users)
        BY DEF Typed, TypeOK
      <3>4. roster'[e] # <<>>
        BY <3>1, <3>2, <3>3
      <3> QED BY <3>1, <3>2, <3>4 DEF OnTheWay, Asked, Closing
    <2>4. Lands(s, c)
      BY <1>q, <2>2, <2>3 DEF Lands
    <2> QED BY <1>b, <2>4
  <1> QED BY <1>1, <1>2, <1>3, <1>4, <1>5, <1>6 DEF EndStep
LEMMA AddKickLands ==
    ASSUME RosterInv, Intact, NEW s \in Slots, AddKickStep(s), NEW d, d = req[s].call
    PROVE  Lands(s, d)
  <1>0. req[s].op \in {"add", "kick"} /\ Step(s) /\ ~DisconnectFinish(s)
    BY DEF AddKickStep, AddLoad, AddInsert, AddFinish, KickLoad, KickSavePart, KickFinish, At,
           Step, DisconnectFinish
  <1>a. PICK r, c, ps, row : Begins(s, r, c, ps, row)
    BY <1>0, Begun
  <1>b. /\ r = req[s] /\ r \in Request /\ c = r.call /\ c = d /\ c \in Calls /\ ps = part[c]
        /\ ps \in [RowIds -> PartRow] /\ Tidy(ps) /\ r.op \in {"add", "kick"}
        /\ InHand(r, ps, row) /\ Finds(s, r, c, ps, row) /\ Late(r, c) = {}
        /\ r.target \in Users
    BY <1>0, <1>a DEF Begins, Finds, Late
  <1>c. Typed /\ TablesTidy
    BY DEF RosterInv, TableInv, LedgerInv
  <1>d. Born(c)
    BY <1>b DEF Finds, Fits, Starting, Born
  <1>q. PICK q : q = req'[s]
    OBVIOUS
  <1>f. ASSUME active' = active, roster' = roster, Who(part'[c]) \subseteq Who(ps),
               r.op = "kick" /\ q.op # "idle" => Asked(q, part'[c])
        PROVE  Lands(s, d)
    <2>1. Who(part'[c]) \subseteq Who(ps) \cup Late(q, c)
      BY <1>f
    <2>2. r.op \notin {"initiate", "end", "disconnect"}
      BY <1>b
    <2>3. Lands(s, c)
      BY <1>0, <1>a, <1>b, <1>c, <1>f, <1>q, <2>1, <2>2, LandsKept
    <2> QED BY <1>b, <2>3
  <1>1. CASE AddLoad(s) \/ AddFinish(s)
    <2>1. active' = active /\ roster' = roster /\ part' = part /\ r.op = "add"
      BY <1>1, <1>b DEF AddLoad, AddFinish, OnlyReq, OnlyDb, dbVars, mapVars, At
    <2> QED BY <1>b, <1>f, <2>1
  <1>2. CASE AddInsert(s)
    <2>1. active' = active /\ roster' = roster /\ r.op = "add"
      BY <1>2, <1>b DEF AddInsert, OnlyDb, mapVars, At
    <2>2. PICK i : i \in RowIds /\ part' = [part EXCEPT ![c][i] = Invited]
      BY <1>2, <1>b DEF AddInsert, RowIds
    <2>3. PICK new : new = [ps EXCEPT ![i] = Invited] /\ new = part'[c]
      BY <1>b, <1>c, <2>2 DEF Typed, TypeOK
    <2>4. Who(part'[c]) \subseteq Who(ps)
      BY <1>b, <2>2, <2>3, InvitedRow, WhoGrows
    <2> QED BY <1>f, <2>1, <2>4
  <1>3. CASE KickLoad(s)
    <2>1. active' = active /\ roster' = roster /\ part' = part /\ r.op = "kick"
      BY <1>3, <1>b DEF KickLoad, OnlyReq, OnlyDb, dbVars, mapVars, At
    <2>2. CASE Done(s)
      <3>1. q.op = "idle"
        BY <1>c, <1>q, <2>2, Goes DEF Done, Idle
      <3> QED BY <1>b, <1>f, <2>1, <3>1
    <2>3. ASSUME NEW T, NEW qs, Goto(s, [r EXCEPT !.pc = "savePart", !.parts = qs, !.todo = T])
          PROVE  Lands(s, d)
      <3>1. q = [r EXCEPT !.pc = "savePart", !.parts = qs, !.todo = T]
        BY <1>c, <1>q, <2>3, Goes
      <3>2. q.op = "kick" /\ q.pc = "savePart"
        BY <1>b, <2>1, <3>1 DEF Request
      <3>3. Asked(q, part'[c])
        BY <3>2 DEF Asked, Closing
      <3> QED BY <1>b, <1>f, <2>1, <3>3
    <2>4. \/ Done(s)
          \/ \E T, qs : Goto(s, [r EXCEPT !.pc = "savePart", !.parts = qs, !.todo = T])
      BY <1>3, <1>b DEF KickLoad
    <2> QED BY <2>2, <2>3, <2>4
  <1>4. CASE KickSavePart(s)
    <2>1. /\ active' = active /\ roster' = roster /\ r.op = "kick" /\ r.pc = "savePart"
          /\ Goto(s, [r EXCEPT !.pc = "finish"])
      BY <1>4, <1>b DEF KickSavePart, OnlyDb, mapVars, At
    <2>2. PICK i \in RowsOf(ps, r.target) : r.todo = {i}
      BY <1>b, <2>1 DEF InHand, Settling
    <2>3. PICK p : p = HasLeft(r.parts[i]) /\ SavePart(c, i, p)
      BY <1>4, <1>b, <2>2 DEF KickSavePart
    <2>4. i \in Rows(ps) /\ r.parts[i] \in PartRow /\ i[1] = r.target
      BY <1>b, <2>2 DEF Rows, RowsOf, Request
    <2>5. p \in PartRow /\ p.status = "left"
      BY <2>3, <2>4, HasLeftRow
    <2>6. Wrote(c, ps, i, p, row)
      BY <1>b, <1>c, <1>d, <2>3, <2>4, <2>5, WritesPart
    <2>7. Who(part'[c]) \subseteq Who(ps) /\ r.target \notin Who(part'[c])
      BY <2>4, <2>5, <2>6, WroteWho
    <2>8. q = [r EXCEPT !.pc = "finish"]
      BY <1>c, <1>q, <2>1, Goes
    <2>9. q.op = "kick" /\ q.target = r.target
      BY <1>b, <2>1, <2>8 DEF Request
    <2>10. Asked(q, part'[c])
      BY <2>7, <2>9 DEF Asked, Closing
    <2> QED BY <1>f, <2>1, <2>7, <2>10
  <1>5. CASE KickFinish(s)
    <2>1. part' = part /\ Done(s) /\ r.op = "kick" /\ r.pc = "finish" /\ active' = active
      BY <1>5, <1>b DEF KickFinish, dbVars, At
    <2>2. /\ roster[c] # <<>> /\ active[c] \in 0 .. Len(roster[c]) /\ r.target \notin Who(part[c])
          /\ Who(part[c]) \subseteq Here(roster[c], active[c])
      BY <1>a, <1>b, <2>1 DEF Begins, OnTheWay, InEntry, Asked
    <2>3. \/ active[c] = 0 /\ roster' = roster
          \/ active[c] # 0 /\ roster' = [roster EXCEPT ![c][active[c]] = @ \ {r.target}]
      BY <1>5, <1>b DEF KickFinish
    <2>4. PICK u : u = r.target
      OBVIOUS
    <2>5. roster'[c] # <<>> /\ Who(part'[c]) \subseteq Here(roster'[c], active'[c])
      BY <1>b, <1>c, <2>1, <2>2, <2>3, <2>4, LeavesEntry
    <2>6. Announced(c)' /\ InEntry(req[s], c)'
      BY <2>5 DEF Announced, InEntry
    <2>7. q.op = "idle"
      BY <1>c, <1>q, <2>1, Goes DEF Done, Idle
    <2>8. Lands(s, c)
      BY <1>q, <2>6, <2>7 DEF Lands
    <2> QED BY <1>b, <2>8
  <1> QED BY <1>1, <1>2, <1>3, <1>4, <1>5 DEF AddKickStep

LEMMA StepRoster ==
    ASSUME RosterInv, Typed', NEW s, Slots = {s}, Step(s)
    PROVE  RosterOK'
  <1>1. s \in Slots /\ Typed /\ TableInv
    BY DEF RosterInv, TableInv, LedgerInv
  <1>2. PICK d : d = req[s].call
    OBVIOUS
  <1>3. d \in Calls /\ left' = left
    BY <1>1, <1>2, StepHand, TimerFootprint
  <1>4. CASE Intact
    <2>1. Lands(s, d)
      BY <1>1, <1>2, <1>4, InitiateLands, AcceptLands, DeclineLands, EndLands, AddKickLands,
         TimerLands, LookLands DEF Step
    <2> QED BY <1>2, <1>3, <1>4, <2>1, LandsKeeps
  <1>5. CASE ~Intact
    BY <1>3, <1>5 DEF RosterOK, Intact
  <1> QED BY <1>4, <1>5

\* A step after which something failed, or the process stopped, asks nothing
LEMMA FailsRoster ==
    ASSUME RosterInv, Restart \/ \E s \in Slots : Fault(s)
    PROVE  RosterOK'
  <1>1. /\ left \in [messages : Nat, faults : Nat, restarts : Nat, edits : Nat]
        /\ left.faults <= MaxFaults /\ left.restarts <= MaxRestarts
        /\ MaxFaults \in Nat /\ MaxRestarts \in Nat
    BY CallsAssumption DEF RosterInv, RingInv, Budget, LedgerInv, Typed, TypeOK, CallsAssumption
  <1>2. CASE Restart
    <2>1. left.restarts > 0 /\ left' = [left EXCEPT !.restarts = @ - 1]
      BY <1>2 DEF Restart
    <2>2. left'.restarts < MaxRestarts
      BY <1>1, <2>1
    <2> QED BY <1>1, <2>2 DEF RosterOK, Intact
  <1>3. ASSUME NEW s \in Slots, Fault(s) PROVE RosterOK'
    <2>1. left.faults > 0 /\ left' = [left EXCEPT !.faults = @ - 1]
      BY <1>3 DEF Fault
    <2>2. left'.faults < MaxFaults
      BY <1>1, <2>1
    <2> QED BY <1>1, <2>2 DEF RosterOK, Intact
  <1> QED BY <1>2, <1>3

LEMMA AroundRoster ==
    ASSUME RosterInv, AroundNext
    PROVE  RosterOK'
  <1>1. /\ Typed /\ TableInv /\ RosterBorn /\ TablesTidy /\ UnbornOK
        /\ roster \in [Calls -> Seq(SUBSET Users)]
        /\ \A c \in Calls : active[c] \in 0 .. Len(roster[c])
    BY DEF RosterInv, RingInv, TableInv, LedgerInv, Typed, TypeOK
  <1>2. call' = call /\ part' = part
    BY <1>1, AroundHands
  <1>3. CASE Idles
    <2>1. UNCHANGED <<active, roster, told, armed, req>> /\ (Intact' => Intact)
      BY <1>3 DEF Idles, Intact
    <2> QED BY <1>2, <2>1 DEF RosterOK, RosterInv, Announced, InEntry
  <1>4. ASSUME NEW s \in Slots, NEW q, Enters(s, q) PROVE RosterOK'
    <2>1. /\ UNCHANGED <<active, roster, told>> /\ armed' \subseteq armed /\ (Intact' => Intact)
          /\ Fresh(q) /\ (q.op # "idle" => q.call \in Calls)
      BY <1>4 DEF Enters, Intact
    <2>2. req'[s] = q /\ \A t \in Slots \ {s} : req'[t] = req[t]
      BY <1>1, <1>4 DEF Enters, Goto, Typed, TypeOK
    <2> SUFFICES ASSUME Intact PROVE RosterOK'
      BY <2>1 DEF RosterOK
    <2>3. \A c \in Calls : Announced(c)'
      BY <2>1 DEF RosterInv, RosterOK, Announced
    <2>4. \A c \in Calls : Late(req[s], c) = {} /\ Late(q, c) = {}
      BY <1>4, <2>1 DEF Late, Enters, Fresh
    <2>5. \A t \in Slots, c \in Calls : InEntry(req[t], c)'
      <3> SUFFICES ASSUME NEW t \in Slots, NEW c \in Calls PROVE InEntry(req[t], c)'
        OBVIOUS
      <3>1. InEntry(req[t], c) /\ Late(req'[t], c) = Late(req[t], c)
        BY <2>2, <2>4 DEF RosterInv, RosterOK
      <3> QED BY <1>2, <2>1, <3>1 DEF InEntry
    <2>6. q.op # "idle" => OnTheWay(q, part[q.call], roster[q.call], active[q.call])
      <3> SUFFICES ASSUME q.op # "idle"
                   PROVE  OnTheWay(q, part[q.call], roster[q.call], active[q.call])
        OBVIOUS
      <3>1. PICK e \in Calls : e = q.call
        BY <2>1
      <3>2. Announced(e)
        BY <3>1 DEF RosterInv, RosterOK
      <3>3. Asked(q, part[e])
        BY <2>1 DEF Fresh, Asked, Closing
      <3>4. CASE q.op = "initiate"
        <4>1. ~Born(e)
          BY <2>1, <3>1, <3>4 DEF Fresh
        <4>2. roster[e] = <<>> /\ Rows(part[e]) = {}
          BY <1>1, <3>1, <4>1 DEF Born, RosterBorn, TablesTidy
        <4>3. Who(part[e]) = {}
          BY <4>2 DEF Rows, JoinedRows, Who
        <4> QED BY <3>1, <3>3, <3>4, <4>2, <4>3 DEF OnTheWay
      <3>5. CASE q.op = "disconnect"
        <4>1. q.held = active[e] /\ q.held # 0
          BY <2>1, <3>1, <3>5 DEF Fresh
        <4>2. roster[e] # <<>>
          BY <1>1, <3>1, <4>1
        <4> QED BY <3>1, <3>3, <3>5, <4>1, <4>2 DEF OnTheWay
      <3>6. CASE q.op \notin {"initiate", "disconnect"}
        <4>1. told[e] # {} \/ e \in armed
          BY <2>1, <3>1, <3>6 DEF Fresh
        <4> QED BY <3>1, <3>2, <3>3, <3>6, <4>1 DEF OnTheWay, Announced
      <3> QED BY <3>4, <3>5, <3>6
    <2>7. \A t \in Slots : req'[t].op # "idle" =>
            OnTheWay(req'[t], part'[req'[t].call], roster'[req'[t].call], active'[req'[t].call])
      BY <1>2, <2>1, <2>2, <2>6 DEF RosterInv, RosterOK
    <2> QED BY <2>3, <2>5, <2>7 DEF RosterOK
  <1> QED BY <1>1, <1>3, <1>4, AroundIs, FailsRoster

LEMMA RosterStep ==
    ASSUME OneHandler, RosterInv, [Next]_vars
    PROVE  RosterInv'
  <1>1. TableInv' /\ RingInv' /\ Typed'
    BY TableStep, RingStep DEF RosterInv, TableInv, LedgerInv
  <1>3. ASSUME AroundNext PROVE RosterOK'
    BY <1>3, AroundRoster
  <1>4. ASSUME NEW s \in Slots, Step(s) PROVE RosterOK'
    <2>1. Slots = {s}
      BY DEF OneHandler
    <2> QED BY <1>1, <1>4, <2>1, StepRoster
  <1>5. RosterOK'
    <2>1. CASE UNCHANGED vars
      BY <2>1 DEF vars, RosterInv, RosterOK, Announced, InEntry, Intact
    <2>2. Next => AroundNext \/ \E s \in Slots : Step(s)
      BY DEF Next, AroundNext
    <2> QED BY <1>3, <1>4, <2>1, <2>2
  <1> QED BY <1>1, <1>5 DEF RosterInv

LEMMA RosterInit == Init => RosterInv
  <1> SUFFICES ASSUME Init PROVE RosterInv
    OBVIOUS
  <1>1. TableInv /\ RingInv
    BY TableInit, RingInit
  <1>2. RosterOK
    BY DEF Init, RosterOK, Announced, InEntry, Idle
  <1> QED BY <1>1, <1>2 DEF RosterInv

\* With one handler at a time, and as long as nothing failed and the process
\* lived, the table and the gateway's map agree between handlers: a participant
\* who is JOINED in call_participants is in the call's activeCalls entry, whoever
\* joined, left, was removed, declined or disconnected before
THEOREM JoinedInRoster ==
    ASSUME OneHandler
    PROVE  Spec => []JoinedIsInRoster
  <1>1. RosterInv /\ [Next]_vars => RosterInv'
    BY RosterStep
  <1>2. RosterInv => JoinedIsInRoster
    <2> SUFFICES ASSUME RosterInv, Intact, Quiet, NEW c \in Calls, roster[c] # <<>>,
                        NEW u \in JoinedUsers(c)
                 PROVE  InRoster(u, c)
      BY DEF JoinedIsInRoster
    <2>1. PICK s : Slots = {s}
      BY DEF OneHandler
    <2>2. req[s].op = "idle"
      BY <2>1 DEF Quiet, Idle
    <2>3. u \in Who(part[c])
      BY TableFacts DEF RosterInv, TableInv, LedgerInv
    <2>4. u \in Here(roster[c], active[c])
      BY <2>1, <2>2, <2>3 DEF RosterInv, RosterOK, InEntry, Late
    <2> QED BY <2>4 DEF Here, InRoster
  <1> QED BY <1>1, <1>2, RosterInit, PTL DEF Spec


=============================================================================
