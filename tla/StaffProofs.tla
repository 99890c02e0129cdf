------------------------------ MODULE StaffProofs ------------------------------
(***************************************************************************)
(* What holds of the staff side for any staff, roles, addresses, number of *)
(* handlers, calendar and size of the log: the types, OnlyStaleSavesUndo,  *)
(* ResetTokenWorksOnce and OnlineMeansSockets, NamesakesAreExcused,        *)
(* RevokedOpensNothing, and ViewsAgree.                                    *)
(*                                                                         *)
(* The invariant of accounts is about the object a handler holds.  As long *)
(* as nobody else has written the row (the handler is not stale), the      *)
(* object is the row but for what the request edits; so its save changes   *)
(* only that, and what was decided about the rest of the account stays.    *)
(***************************************************************************)
EXTENDS MCStaff, Counting, FiniteSetTheorems, SequenceTheorems, TLAPS

Busy(h) == h.op # "idle"

\* What a handler is whatever the rows are: it holds a row with an address and
\* a password, one that sets a password holds it, one that resets has a token.
Shaped(h) ==
    /\ h.op = "idle" => h = Idle
    /\ Busy(h) => /\ h.pc # "idle" /\ h.who \in Staff
                  /\ h.object.row /\ h.object.email # None /\ h.object.password # 0
    /\ h.pc = "demote" => h.op = "ceo" /\ h.object.ceo
    /\ h.op \in Secretive => h.object.password = h.secret /\ h.secret # 0
    /\ IF h.op = "reset" THEN h.token # 0 /\ h.object.reset = 0 ELSE h.token = 0
    /\ h.op = "forgot" => h.object.reset # 0

\* The object of a handler that is not stale: the row, but for its own edit
Current(h) ==
    Busy(h) /\ ~h.stale =>
        LET row == account[h.who] IN
        /\ row.row /\ ~row.deleted /\ h.object.online = row.online
        /\ h.op \notin Secretive => h.object.password = row.password
        /\ IF h.op = "ceo" THEN row.email = CeoEmail /\ h.object.ceo = ~row.ceo
                           ELSE h.object.ceo = row.ceo
        /\ h.op = "reset" => h.token = row.reset
        /\ h.op \notin {"reset", "forgot"} => h.object.reset = row.reset

-----------------------------------------------------------------------------
(* The invariant *)

Basis ==
    /\ AccountTypeOK
    /\ budget.secrets < MaxSecrets
    /\ \A s \in Slots : Shaped(serving[s])

\* Who has a row, a handler, a socket or was removed has registered
Known ==
    /\ \A u \in Staff : account[u].row \/ u \in dismissed \/ sockets[u] > 0
                        \/ status[u] # {} => lastSet[u] # 0
    /\ \A s \in Slots : Busy(serving[s]) => lastSet[serving[s].who] # 0

AddressesDiffer ==
    \A u, v \in Staff : account[u].row /\ account[v].row
                        /\ account[u].email = account[v].email => u = v

ObjectsCurrent == \A s \in Slots : Current(serving[s])

\* Who has the flag by a toggle: nobody, when the handler that has taken it from
\* the others is about to give it
Chief(u) == account[u].ceo /\ u \notin declared
OneChief ==
    raced = {} =>
        /\ \A u, v \in Staff : Chief(u) /\ Chief(v) => u = v
        /\ \A s \in Slots : LET h == serving[s] IN
              h.op = "ceo" /\ h.pc = "save" /\ ~h.stale /\ h.object.ceo
              => \A v \in Staff : ~Chief(v)

\* What is on its way to isOnline is what it has to become
Presence ==
    \A u \in Staff \ (raced \cup muddled) :
        \/ status[u] = {} /\ (account[u].row => account[u].online = (sockets[u] > 0))
        \/ status[u] = {sockets[u] > 0}

\* Tokens: each was drawn for one user, and is held by that user's row or by
\* handlers of that row
Holds(u, k) == \/ account[u].reset = k
               \/ \E s \in Slots : /\ Busy(serving[s]) /\ serving[s].who = u
                                   /\ k \in {serving[s].object.reset, serving[s].token}
TokensOwned ==
    /\ \A u, v \in Staff, k \in Secrets \ {0} : Holds(u, k) /\ Holds(v, k) => u = v
    /\ \A u \in Staff, k \in Secrets : Holds(u, k) => k < NextSecret
    /\ \A k \in spent : k # 0 /\ k < NextSecret

\* The token of a mail that has not gone out is nowhere else
Unsent(s) ==
    LET k == serving[s].object.reset IN
    /\ k \notin spent
    /\ \A u \in Staff : account[u].reset # k
    /\ \A t \in Slots : Busy(serving[t]) => /\ serving[t].token # k
                                            /\ t # s => serving[t].object.reset # k
TokensSpent ==
    /\ \A s \in Slots : serving[s].op = "forgot" => Unsent(s)
    /\ \A u \in Staff : account[u].reset \in spent => u \in raced
    /\ reused \subseteq raced

AccountInv == /\ Basis /\ Known /\ AddressesDiffer /\ ObjectsCurrent
       /\ PasswordIsLastSet /\ RemovedStaysOut /\ OneChief /\ Presence
       /\ TokensOwned /\ TokensSpent
-----------------------------------------------------------------------------
(* The constants, and the kinds of things *)

LEMMA Kinds ==
    /\ NoAccount \in AccountRow /\ Idle \in Handlers
    /\ 0 \in Secrets /\ Secrets \subseteq Nat
PROOF BY AccountConstants DEF NoAccount, AccountRow, Idle, Handlers, Secrets

\* A secret that is drawn is one nobody has
LEMMA SecretDrawn ==
    ASSUME Basis, NEW n \in 1..2, budget.secrets >= n
    PROVE  /\ NextSecret \in Secrets \ {0}
           /\ n = 2 => NextSecret + 1 \in Secrets \ {0}
PROOF BY AccountConstants DEF Basis, AccountTypeOK, Secrets, NextSecret

\* What the actions do to the handlers: each goes on as it was but that it may
\* have become stale, or gone from "demote" to "save", or it ends
Kept(h, g) == /\ Busy(h) /\ g.op = h.op /\ g.who = h.who /\ g.object = h.object
              /\ g.secret = h.secret /\ g.token = h.token
              /\ h.stale => g.stale
              /\ \/ g.pc = h.pc
                 \/ h.pc = "demote" /\ g.pc = "save"

Aging == serving' \in [Slots -> Handlers]
         /\ \A s \in Slots : serving'[s] = Idle \/ Kept(serving[s], serving'[s])

LEMMA AgingShaped ==
    ASSUME Basis, Aging
    PROVE  \A s \in Slots : Shaped(serving'[s])
PROOF
<1> SUFFICES ASSUME NEW s \in Slots PROVE Shaped(serving'[s]) OBVIOUS
<1> PICK h : h = serving[s] OBVIOUS
<1> PICK g : g = serving'[s] OBVIOUS
<1>1. h \in Handlers /\ g \in Handlers BY DEF Basis, AccountTypeOK, Aging
<1>2. Shaped(h) BY DEF Basis
<1>3. CASE g = Idle
      BY <1>3 DEF Shaped, Idle, Busy, Secretive
<1>4. CASE g # Idle
      <2>1. Kept(h, g) BY <1>4 DEF Aging
      <2> QED BY <1>1, <1>2, <2>1 DEF Shaped, Kept, Busy
<1> QED BY <1>3, <1>4

LEMMA AgesInPlace ==
    ASSUME Basis, NEW s \in Slots, NEW g, g = Idle \/ Kept(serving[s], g),
           g \in Handlers, NEW rows \in SUBSET Staff, Served(s, g, rows)
    PROVE  Aging
PROOF
<1>1. /\ serving \in [Slots -> Handlers]
      /\ \A t \in Slots : Shaped(serving[t])
    BY DEF Basis, AccountTypeOK
<1> SUFFICES ASSUME NEW t \in Slots
             PROVE  /\ serving'[t] \in Handlers
                    /\ serving'[t] = Idle \/ Kept(serving[t], serving'[t])
    BY <1>1 DEF Served, Aging
<1>2. CASE t = s BY <1>2, <1>1 DEF Served
<1>3. CASE t # s
      <2> PICK h : h = serving[t] OBVIOUS
      <2>1. serving'[t] = [h EXCEPT !.stale = @ \/ h.who \in rows]
          BY <1>3, <1>1 DEF Served
      <2>2. h \in Handlers /\ Shaped(h) BY <1>1
      <2>3. CASE h = Idle
            <3>1. h.who \notin rows BY <2>3, AccountConstants DEF Idle
            <3>2. [h EXCEPT !.stale = @ \/ h.who \in rows] = h
                <4>1. h.stale = FALSE BY <2>3 DEF Idle
                <4> QED BY <2>2, <3>1, <4>1 DEF Handlers
            <3> QED BY <2>1, <2>3, <3>2, Kinds
      <2>4. CASE h # Idle
            BY <2>1, <2>2, <2>4 DEF Kept, Handlers, Shaped, Busy
      <2> QED BY <2>3, <2>4, Kinds
<1> QED BY <1>2, <1>3

-----------------------------------------------------------------------------
(* Basis: types, and the shape of handlers *)

\* What a request does: a slot that was free holds the object, and nothing
\* else but the budget changes
Edited(op, u, o) ==
    /\ o \in AccountRow /\ o.row /\ ~o.deleted /\ o.email # None /\ o.password # 0
    /\ o.online = account[u].online
    /\ o.password = IF op \in Secretive THEN NextSecret ELSE account[u].password
    /\ IF op = "ceo" THEN account[u].email = CeoEmail /\ o.ceo = ~account[u].ceo
                     ELSE o.ceo = account[u].ceo
    /\ IF op = "reset" THEN o.reset = 0 /\ account[u].reset # 0
       ELSE o.reset = IF op = "forgot" THEN NextSecret ELSE account[u].reset

Asking(s, op, u, o, n) ==
    /\ op \in Calls /\ u \in Staff /\ Found(u) /\ Edited(op, u, o)
    /\ op \in Secretive \cup {"forgot"} <=> n = 1
    /\ Spend(n) /\ Take(s, op, u, o) /\ Reading

LEMMA RequestTakes ==
    ASSUME Basis, NEW s \in Slots, NEW u \in Staff, AccountRequest(s, u)
    PROVE  \E op \in Calls, o \in AccountRow, n \in 0..1 : Asking(s, op, u, o, n)
PROOF
<1>0. ASSUME NEW op, NEW o \in AccountRow, NEW n \in 0..1, Asking(s, op, u, o, n)
      PROVE  \E c \in Calls, x \in AccountRow, m \in 0..1 : Asking(s, c, u, x, m)
    BY <1>0 DEF Asking
<1> PICK row : row = account[u] OBVIOUS
<1>1. row \in AccountRow /\ (row.row => row.email # None /\ row.password # 0)
    BY DEF Basis, AccountTypeOK
<1> PICK k : k = NextSecret OBVIOUS
<1>2. budget.secrets >= 1 => k \in Secrets \ {0} BY SecretDrawn
<1>3. CASE Login(s, u)
      <2>1. Asking(s, "login", u, row, 0) 
          BY <1>1, <1>3 DEF Login, Found, Asking, Edited, Calls, Secretive
      <2> QED BY <1>0, <1>1, <2>1
<1>4. CASE ChangePassword(s, u)
      <2> PICK o : o = [row EXCEPT !.password = k] OBVIOUS
      <2>1. k \in Secrets \ {0} BY <1>2, <1>4 DEF ChangePassword, Spend
      <2>2. o \in AccountRow BY <1>1, <2>1 DEF AccountRow
      <2>3. Asking(s, "change", u, o, 1)
          BY <1>1, <1>4, <2>1, <2>2
             DEF ChangePassword, Found, Asking, Edited, Calls, Secretive, AccountRow
      <2> QED BY <1>0, <2>2, <2>3
<1>5. CASE ForgotPassword(s, u)
      <2> PICK o : o = [row EXCEPT !.reset = k] OBVIOUS
      <2>1. k \in Secrets \ {0} BY <1>2, <1>5 DEF ForgotPassword, Spend
      <2>2. o \in AccountRow BY <1>1, <2>1 DEF AccountRow
      <2>3. Asking(s, "forgot", u, o, 1)
          BY <1>1, <1>5, <2>1, <2>2
             DEF ForgotPassword, Found, Asking, Edited, Calls, Secretive, AccountRow
      <2> QED BY <1>0, <2>2, <2>3
<1>6. CASE ResetPassword(s, u)
      <2> PICK o : o = ResetObject(row, k) OBVIOUS
      <2>1. k \in Secrets \ {0} BY <1>2, <1>6 DEF ResetPassword, Spend
      <2>2. o \in AccountRow BY <1>1, <2>1, Kinds DEF AccountRow, ResetObject
      <2>3. Asking(s, "reset", u, o, 1)
          BY <1>1, <1>6, <2>1, <2>2
             DEF ResetPassword, Found, Asking, Edited, Calls, Secretive, AccountRow,
                 ResetObject
      <2> QED BY <1>0, <2>2, <2>3
<1>7. CASE CompleteRegistration(s, u)
      <2> PICK o : o = CompletedObject(row, k) OBVIOUS
      <2>1. k \in Secrets \ {0} BY <1>2, <1>7 DEF CompleteRegistration, Spend
      <2>2. o \in AccountRow BY <1>1, <2>1 DEF AccountRow, CompletedObject
      <2>3. Asking(s, "complete", u, o, 1)
          BY <1>1, <1>7, <2>1, <2>2
             DEF CompleteRegistration, Found, Asking, Edited, Calls, Secretive, AccountRow,
                 CompletedObject
      <2> QED BY <1>0, <2>2, <2>3
<1>8. CASE ToggleCeo(s, u)
      <2> PICK o : o = [row EXCEPT !.ceo = ~@] OBVIOUS
      <2>2. o \in AccountRow BY <1>1 DEF AccountRow
      <2>3. Asking(s, "ceo", u, o, 0)
          BY <1>1, <1>8, <2>2
             DEF ToggleCeo, Found, Asking, Edited, Calls, Secretive, AccountRow
      <2> QED BY <1>0, <2>2, <2>3
<1>9. ASSUME NEW e \in Emails, UpdateProfile(s, u, e)
      PROVE  \E op \in Calls, o \in AccountRow, n \in 0..1 : Asking(s, op, u, o, n)
      <2> PICK o : o = ProfileObject(row, e) OBVIOUS
      <2>2. o \in AccountRow BY <1>1 DEF AccountRow, ProfileObject
      <2>3. Asking(s, "profile", u, o, 0)
          BY <1>1, <1>9, <2>2, AccountConstants
             DEF UpdateProfile, Found, Asking, Edited, Calls, Secretive, AccountRow,
                 ProfileObject
      <2> QED BY <1>0, <2>2, <2>3
<1>10. ASSUME NEW rs \in SUBSET Roles, AssignRoles(s, u, rs)
       PROVE  \E op \in Calls, o \in AccountRow, n \in 0..1 : Asking(s, op, u, o, n)
      <2> PICK o : o = [row EXCEPT !.roles = rs] OBVIOUS
      <2>2. o \in AccountRow BY <1>1 DEF AccountRow
      <2>3. Asking(s, "assign", u, o, 0)
          BY <1>1, <1>10, <2>2
             DEF AssignRoles, Found, Asking, Edited, Calls, Secretive, AccountRow
      <2> QED BY <1>0, <2>2, <2>3
<1>11. ASSUME NEW r \in Roles, RemoveRole(s, u, r)
       PROVE  \E op \in Calls, o \in AccountRow, n \in 0..1 : Asking(s, op, u, o, n)
      <2> PICK o : o = [row EXCEPT !.roles = @ \ {r}] OBVIOUS
      <2>2. o \in AccountRow BY <1>1 DEF AccountRow
      <2>3. Asking(s, "unassign", u, o, 0)
          BY <1>1, <1>11, <2>2
             DEF RemoveRole, Found, Asking, Edited, Calls, Secretive, AccountRow
      <2> QED BY <1>0, <2>2, <2>3
<1>12. ASSUME NEW op \in {"soft", "hard"}, AskDelete(s, u, op)
       PROVE  Asking(s, op, u, row, 0)
    BY <1>1, <1>12
             DEF AskDelete, Found, Asking, Edited, Calls, Secretive, AccountRow
<1> QED
    BY <1>0, <1>1, <1>3, <1>4, <1>5, <1>6, <1>7, <1>8, <1>9, <1>10, <1>11, <1>12
       DEF AccountRequest

\* A request takes from the bounds
BudgetOK ==
    /\ budget \in [calls : 0..MaxAccountCalls, secrets : Secrets, restarts : 0..1]
    /\ budget.secrets < MaxSecrets

LEMMA Spending ==
    ASSUME Basis, NEW n \in 0..2, Spend(n)
    PROVE  BudgetOK'
PROOF
<1> PICK bit : bit = budget OBVIOUS
<1>1. /\ bit \in [calls : 0..MaxAccountCalls, secrets : Secrets, restarts : 0..1]
      /\ bit.secrets < MaxSecrets /\ bit.calls > 0 /\ bit.secrets >= n
    BY DEF Basis, AccountTypeOK, Spend
<1>2. /\ bit.calls \in 0..MaxAccountCalls /\ bit.secrets \in 0..MaxSecrets
      /\ bit.restarts \in 0..1
    BY <1>1 DEF Secrets
<1>3. bit.calls - 1 \in 0..MaxAccountCalls /\ bit.secrets - n \in 0..MaxSecrets
      /\ bit.secrets - n < MaxSecrets
    BY <1>1, <1>2, AccountConstants
<1>4. budget' = [bit EXCEPT !.calls = bit.calls - 1, !.secrets = bit.secrets - n]
    BY DEF Spend
<1>5. /\ budget' = [calls |-> bit.calls - 1, secrets |-> bit.secrets - n,
                    restarts |-> bit.restarts]
    BY <1>1, <1>4
<1> QED BY <1>2, <1>3, <1>5 DEF BudgetOK, Secrets

\* The handler of a request that was taken
LEMMA TakenHandler ==
    ASSUME Basis, NEW s \in Slots, NEW u \in Staff, NEW op \in Calls,
           NEW o \in AccountRow, NEW n \in 0..1, Asking(s, op, u, o, n)
    PROVE  \E g \in Handlers :
              /\ Shaped(g) /\ g.op = op /\ g.who = u /\ g.object = o /\ ~g.stale
              /\ g.token = IF op = "reset" THEN account[u].reset ELSE 0
              /\ g.pc = "save" => op # "ceo" \/ ~o.ceo
              /\ serving[s] = Idle
              /\ serving' = [serving EXCEPT ![s] = g]
PROOF
<1> PICK k : k = NextSecret OBVIOUS
<1> PICK g : g = [op |-> op, pc |-> IF op = "ceo" /\ o.ceo THEN "demote" ELSE "save",
                  who |-> u, object |-> o, stale |-> FALSE,
                  secret |-> IF op \in Secretive THEN k ELSE 0,
                  token |-> IF op = "reset" THEN account[u].reset ELSE 0]
    OBVIOUS
<1>1. /\ serving[s].op = "idle" /\ serving' = [serving EXCEPT ![s] = g]
      /\ Edited(op, u, o) /\ Spend(n)
      /\ op \in Secretive \cup {"forgot"} => n = 1
    BY DEF Asking, Take
<1>2. op \in Secretive \cup {"forgot"} => k \in Secrets \ {0}
    BY <1>1, SecretDrawn DEF Spend
<1>3. account[u] \in AccountRow BY DEF Basis, AccountTypeOK
<1>4. account[u].reset \in Secrets BY <1>3 DEF AccountRow
<1>5. g \in Handlers
    BY <1>2, <1>4, Kinds DEF Handlers, Calls
<1>6. Shaped(g)
    BY <1>1, <1>2 DEF Shaped, Edited, Busy, Calls, Secretive
<1>7. serving[s] = Idle BY <1>1 DEF Basis, Shaped
<1> QED BY <1>1, <1>5, <1>6, <1>7

LEMMA TakenBasis ==
    ASSUME Basis, NEW s \in Slots, NEW u \in Staff, NEW op \in Calls,
           NEW o \in AccountRow, NEW n \in 0..1, Asking(s, op, u, o, n)
    PROVE  Basis'
PROOF
<1> PICK g \in Handlers : Shaped(g) /\ serving' = [serving EXCEPT ![s] = g]
    BY TakenHandler
<1>1. Spend(n) /\ Reading BY DEF Asking
<1>2. serving' \in [Slots -> Handlers] BY DEF Basis, AccountTypeOK
<1>3. \A t \in Slots : Shaped(serving'[t]) BY DEF Basis, AccountTypeOK
<1>4. BudgetOK' BY <1>1, Spending
<1> QED BY <1>1, <1>2, <1>3, <1>4 DEF BudgetOK, Reading, Basis, AccountTypeOK

-----------------------------------------------------------------------------
(* The other actions: handlers age, and whoever's row changes is stale *)

Untouched == \A s \in Slots : LET g == serving'[s] IN
                Busy(g) /\ ~g.stale => account'[g.who] = account[g.who]

RowsOK(rows) == /\ rows \in [Staff -> AccountRow]
                /\ \A u \in Staff : rows[u].row =>
                       rows[u].email # None /\ rows[u].password # 0

\* A registration, with whatever the body says of the flag and the roles
Registers(u, e) == \E isCeo \in BOOLEAN, rs \in SUBSET Roles : Register(u, e, isCeo, rs)

LEMMA RegisterOK ==
    ASSUME AccountInv, NEW u \in Staff, NEW e \in Emails, Registers(u, e)
    PROVE  Basis' /\ Aging /\ Untouched
PROOF
<1> PICK isCeo \in BOOLEAN, rs \in SUBSET Roles : Register(u, e, isCeo, rs) BY DEF Registers
<1>1. NextSecret \in Secrets \ {0} /\ NextSecret + 1 \in Secrets
    BY SecretDrawn DEF Register, Spend, AccountInv
<1> PICK r : r = [NoAccount EXCEPT !.row = TRUE, !.email = e, !.ceo = isCeo, !.roles = rs,
                      !.password = NextSecret, !.registration = NextSecret + 1]
    OBVIOUS
<1>2. r \in AccountRow /\ r.email = e /\ r.password = NextSecret
    BY <1>1, Kinds DEF AccountRow
<1>7. /\ \/ account' = [account EXCEPT ![u] = r] /\ lastSet' = [lastSet EXCEPT ![u] = NextSecret]
         \/ UNCHANGED <<account, lastSet>>
    BY DEF Register
<1>8. RowsOK(account') /\ lastSet' \in [Staff -> Secrets]
    <2>1. /\ account \in [Staff -> AccountRow] /\ lastSet \in [Staff -> Secrets]
          /\ RowsOK(account)
        BY DEF RowsOK, AccountInv, Basis, AccountTypeOK
    <2>2. e # None BY AccountConstants
    <2>3. r.email # None /\ r.password # 0 BY <1>1, <1>2, <2>2
    <2>4. lastSet' \in [Staff -> Secrets] BY <1>1, <1>7, <2>1
    <2>5. CASE account' = account BY <2>1, <2>4, <2>5
    <2>6. CASE account' = [account EXCEPT ![u] = r]
          BY <1>2, <2>1, <2>3, <2>4, <2>6 DEF RowsOK
    <2> QED BY <1>7, <2>5, <2>6
<1>3. BudgetOK' BY Spending DEF Register, AccountInv
<1>4. Aging BY DEF Register, Aging, AccountInv, Basis, AccountTypeOK, Shaped, Kept, Busy
<1>5. Untouched
    <2> SUFFICES ASSUME NEW s \in Slots, Busy(serving[s]), ~serving[s].stale
                 PROVE  account'[serving[s].who] = account[serving[s].who]
        BY DEF Untouched, Register
    <2>1. serving[s].who \in Staff /\ serving[s].who # u
        BY DEF AccountInv, Known, Basis, Shaped, Register
    <2> QED BY <2>1 DEF Register, AccountInv, Basis, AccountTypeOK
<1>9. declared' \subseteq Staff BY DEF Register, AccountInv, Basis, AccountTypeOK
<1>6. Basis'
    BY <1>8, <1>3, <1>9 DEF Register, BudgetOK, RowsOK, AccountInv, Basis, AccountTypeOK
<1> QED BY <1>4, <1>5, <1>6

LEMMA DemoteOK ==
    ASSUME AccountInv, NEW s \in Slots, DemoteOthers(s)
    PROVE  Basis' /\ Aging /\ Untouched
PROOF
<1> PICK h : h = serving[s] OBVIOUS
<1> PICK g : g = [h EXCEPT !.pc = "save"] OBVIOUS
<1>1. h \in Handlers /\ Shaped(h) /\ Current(h) /\ h.pc = "demote"
    BY DEF AccountInv, Basis, AccountTypeOK, ObjectsCurrent, DemoteOthers
<1>2. g \in Handlers /\ Kept(h, g)
    BY <1>1 DEF Handlers, Kept, Busy, Shaped, Idle
<1>3. Served(s, g, {u \in Staff : account[u].ceo}) BY DEF DemoteOthers
<1>4. Aging
    <2>1. {u \in Staff : account[u].ceo} \in SUBSET Staff OBVIOUS
    <2> QED BY <1>2, <1>3, <2>1, AgesInPlace DEF AccountInv
<1>5. RowsOK(account')
    <2> SUFFICES ASSUME NEW u \in Staff
                 PROVE  /\ Demoted[u] \in AccountRow
                        /\ Demoted[u].row =>
                             Demoted[u].email # None /\ Demoted[u].password # 0
        BY DEF DemoteOthers, Demoted, RowsOK
    <2> PICK r : r = account[u] OBVIOUS
    <2>1. r \in AccountRow /\ (r.row => r.email # None /\ r.password # 0)
        BY DEF AccountInv, Basis, AccountTypeOK
    <2>2. Demoted[u] = [r EXCEPT !.ceo = FALSE] BY DEF Demoted
    <2> QED BY <2>1, <2>2 DEF AccountRow
<1>6. \A u \in Staff : ~account[u].ceo => account'[u] = account[u]
    BY DEF DemoteOthers, Demoted, AccountInv, Basis, AccountTypeOK, AccountRow
<1>7. Untouched
    <2> SUFFICES ASSUME NEW t \in Slots, Busy(serving'[t]), ~serving'[t].stale
                 PROVE  account'[serving'[t].who] = account[serving'[t].who]
        BY DEF Untouched
    <2>1. CASE t = s
          BY <2>1, <1>1, <1>2, <1>3, <1>6
             DEF Served, Current, Shaped, Kept, Busy, AccountInv, Basis, AccountTypeOK
    <2>2. CASE t # s
          <3> PICK f : f = serving[t] OBVIOUS
          <3>1. f \in Handlers /\ Shaped(f) BY DEF AccountInv, Basis, AccountTypeOK
          <3>2. serving'[t] = [f EXCEPT !.stale = @ \/ f.who \in {u \in Staff : account[u].ceo}]
              BY <2>2, <1>3 DEF Served
          <3>3. Busy(f) /\ serving'[t].who = f.who /\ f.who \in Staff
                /\ f.who \notin {u \in Staff : account[u].ceo}
              BY <3>1, <3>2 DEF Handlers, Busy, Shaped
          <3> QED BY <3>3, <1>6
    <2> QED BY <2>1, <2>2
<1>8. Basis'
    BY <1>4, <1>5, AgingShaped
       DEF DemoteOthers, RowsOK, AccountInv, Basis, AccountTypeOK, Aging
<1> QED BY <1>4, <1>7, <1>8

\* A save that is not refused
Saved(s) ==
    LET h == serving[s] IN
    /\ h.pc = "save" /\ h.op \in Calls \ {"soft", "hard"}
    /\ EmailFree(h.object.email, h.who)
    /\ account' = [account EXCEPT ![h.who] = h.object]

LEMMA SaveOK ==
    ASSUME AccountInv, NEW s \in Slots, Save(s)
    PROVE  Basis' /\ Aging /\ Untouched /\ (Saved(s) \/ account' = account)
PROOF
<1> PICK h : h = serving[s] OBVIOUS
<1>1. /\ h \in Handlers /\ Shaped(h) /\ h.pc = "save" /\ h.op \in Calls
      /\ Busy(h) /\ h.who \in Staff
    BY DEF AccountInv, Basis, AccountTypeOK, Save, Shaped, Busy, Calls
<1>2. PICK rows \in SUBSET Staff :
         /\ Served(s, Idle, rows)
         /\ \A u \in Staff \ rows : account'[u] = account[u]
         /\ RowsOK(account')
    <2>1. CASE Served(s, Idle, {h.who}) /\ account' = [account EXCEPT ![h.who] = h.object]
          <3>1. h.object \in AccountRow BY <1>1 DEF Handlers
          <3>2. RowsOK(account')
              BY <1>1, <2>1, <3>1 DEF Shaped, RowsOK, AccountInv, Basis, AccountTypeOK
          <3> QED BY <1>1, <2>1, <3>2 DEF AccountInv, Basis, AccountTypeOK
    <2>2. CASE Served(s, Idle, {}) /\ account' = account
          BY <2>2 DEF RowsOK, AccountInv, Basis, AccountTypeOK
    <2> QED BY <2>1, <2>2 DEF Save
<1>3. Aging BY <1>2, AgesInPlace, Kinds DEF AccountInv
<1>4. Untouched
    <2> SUFFICES ASSUME NEW t \in Slots, Busy(serving'[t]), ~serving'[t].stale
                 PROVE  account'[serving'[t].who] = account[serving'[t].who]
        BY DEF Untouched
    <2>1. t # s BY <1>2 DEF Served, Busy, Idle, AccountInv, Basis, AccountTypeOK
    <2> PICK f : f = serving[t] OBVIOUS
    <2>2. f \in Handlers /\ Shaped(f) BY DEF AccountInv, Basis, AccountTypeOK
    <2>3. serving'[t] = [f EXCEPT !.stale = @ \/ f.who \in rows]
        BY <2>1, <1>2 DEF Served
    <2>4. Busy(f) /\ serving'[t].who = f.who /\ f.who \in Staff /\ f.who \notin rows
        BY <2>2, <2>3 DEF Handlers, Busy, Shaped
    <2> QED BY <2>4, <1>2
<1>5. Basis'
    <2>1. /\ lastSet' \in [Staff -> Secrets] /\ spent' \subseteq Secrets
          /\ reused' \subseteq Staff /\ raced' \subseteq Staff
        BY <1>1 DEF Save, Handlers, AccountInv, Basis, AccountTypeOK
    <2>2. serving' \in [Slots -> Handlers] /\ \A t \in Slots : Shaped(serving'[t])
        BY <1>3, AgingShaped DEF Aging, AccountInv
    <2> QED BY <1>2, <2>1, <2>2 DEF RowsOK, Save, AccountInv, Basis, AccountTypeOK
<1>6. Saved(s) \/ account' = account BY DEF Save, Saved
<1> QED BY <1>3, <1>4, <1>5, <1>6

LEMMA DeleteOK ==
    ASSUME AccountInv, NEW s \in Slots, Delete(s)
    PROVE  Basis' /\ Aging /\ Untouched
PROOF
<1> PICK h : h = serving[s] OBVIOUS
<1>1. h \in Handlers /\ Shaped(h) /\ h.pc = "save" /\ Busy(h) /\ h.who \in Staff
    BY DEF AccountInv, Basis, AccountTypeOK, Delete, Shaped, Busy
<1> PICK u : u = h.who OBVIOUS
<1> PICK r : r = account[u] OBVIOUS
<1>2. r \in AccountRow /\ (r.row => r.email # None /\ r.password # 0)
    BY <1>1 DEF AccountInv, Basis, AccountTypeOK
<1> PICK q : q = IF ~r.row THEN r ELSE IF h.op = "soft" THEN SoftDeleted(r) ELSE NoAccount
    OBVIOUS
<1>3. q \in AccountRow /\ (q.row => q.email # None /\ q.password # 0)
    <2>1. CASE q = SoftDeleted(r) BY <1>2, <2>1 DEF SoftDeleted, AccountRow
    <2>2. CASE q = NoAccount
          <3>1. ~NoAccount.row BY DEF NoAccount
          <3> QED BY <2>2, <3>1, Kinds
    <2> QED BY <1>2, <2>1, <2>2
<1>4. account' = [account EXCEPT ![u] = q]
    BY <1>1 DEF Delete, AccountInv, Basis, AccountTypeOK
<1>5. RowsOK(account') BY <1>1, <1>3, <1>4 DEF RowsOK, AccountInv, Basis, AccountTypeOK
<1>6. Served(s, Idle, {u}) BY DEF Delete
<1>7. Aging BY <1>1, <1>6, AgesInPlace, Kinds DEF AccountInv
<1>8. Untouched
    <2> SUFFICES ASSUME NEW t \in Slots, Busy(serving'[t]), ~serving'[t].stale
                 PROVE  account'[serving'[t].who] = account[serving'[t].who]
        BY DEF Untouched
    <2>1. t # s BY <1>6 DEF Served, Busy, Idle, AccountInv, Basis, AccountTypeOK
    <2> PICK f : f = serving[t] OBVIOUS
    <2>2. f \in Handlers /\ Shaped(f) BY DEF AccountInv, Basis, AccountTypeOK
    <2>3. serving'[t] = [f EXCEPT !.stale = @ \/ f.who \in {u}]
        BY <2>1, <1>6 DEF Served
    <2>4. Busy(f) /\ serving'[t].who = f.who /\ f.who \in Staff /\ f.who # u
        BY <2>2, <2>3 DEF Handlers, Busy, Shaped
    <2> QED BY <2>4, <1>4 DEF AccountInv, Basis, AccountTypeOK
<1>9. Basis'
    <2>1. serving' \in [Slots -> Handlers] /\ \A t \in Slots : Shaped(serving'[t])
        BY <1>7, AgingShaped DEF Aging, AccountInv
    <2> QED BY <1>1, <1>5, <2>1 DEF RowsOK, Delete, AccountInv, Basis, AccountTypeOK
<1> QED BY <1>7, <1>8, <1>9

\* Restore and WriteStatus write one row outside of any slot
Touched(u, write) ==
    serving' = [t \in Slots |->
        [serving[t] EXCEPT !.stale = @ \/ (serving[t].who = u /\ write)]]

LEMMA TouchedAges ==
    ASSUME AccountInv, NEW u \in Staff, NEW write \in BOOLEAN, Touched(u, write),
           NEW r \in AccountRow, account' = [account EXCEPT ![u] = r],
           ~write => r = account[u]
    PROVE  Aging /\ Untouched
PROOF
<1> SUFFICES ASSUME NEW t \in Slots
             PROVE  /\ serving'[t] \in Handlers
                    /\ serving'[t] = Idle \/ Kept(serving[t], serving'[t])
                    /\ Busy(serving'[t]) /\ ~serving'[t].stale =>
                         account'[serving'[t].who] = account[serving'[t].who]
    BY DEF Touched, Aging, Untouched
<1> PICK h : h = serving[t] OBVIOUS
<1>1. h \in Handlers /\ Shaped(h) BY DEF AccountInv, Basis, AccountTypeOK
<1>2. serving'[t] = [h EXCEPT !.stale = @ \/ (h.who = u /\ write)] BY DEF Touched
<1>3. account \in [Staff -> AccountRow] BY DEF AccountInv, Basis, AccountTypeOK
<1>4. CASE h = Idle
      <2>1. h.who # u /\ h.stale = FALSE BY <1>4, AccountConstants DEF Idle
      <2>2. serving'[t] = h BY <1>1, <1>2, <2>1 DEF Handlers
      <2>3. ~Busy(h) BY <1>4 DEF Idle, Busy
      <2> QED BY <1>4, <2>2, <2>3, Kinds
<1>5. CASE h # Idle
      <2>1. Busy(h) /\ h.who \in Staff BY <1>1, <1>5 DEF Shaped, Busy
      <2>2. serving'[t] \in Handlers /\ Kept(h, serving'[t]) /\ serving'[t].who = h.who
            /\ serving'[t].stale = (h.stale \/ (h.who = u /\ write))
          BY <1>1, <1>2, <2>1 DEF Handlers, Kept
      <2>3. ~serving'[t].stale => account'[h.who] = account[h.who]
          BY <2>1, <2>2, <1>3
      <2> QED BY <2>2, <2>3
<1> QED BY <1>4, <1>5

LEMMA RestoreOK ==
    ASSUME AccountInv, NEW u \in Staff, Restore(u)
    PROVE  Basis' /\ Aging /\ Untouched
PROOF
<1> PICK r : r = account[u] OBVIOUS
<1> PICK q : q = [r EXCEPT !.deleted = FALSE] OBVIOUS
<1>1. r \in AccountRow /\ r.row /\ r.email # None /\ r.password # 0
    BY DEF AccountInv, Basis, AccountTypeOK, Restore
<1>2. q \in AccountRow /\ q.email # None /\ q.password # 0 /\ (~r.deleted => q = r)
    BY <1>1 DEF AccountRow
<1>3. account' = [account EXCEPT ![u] = q] /\ Touched(u, r.deleted)
    BY <1>1, <1>2 DEF Restore, Touched, AccountInv, Basis, AccountTypeOK
<1>4. r.deleted \in BOOLEAN BY <1>1 DEF AccountRow
<1>5. Aging /\ Untouched BY <1>2, <1>3, <1>4, TouchedAges
<1>6. BudgetOK' BY Spending DEF Restore, AccountInv
<1>7. Basis'
    BY <1>2, <1>3, <1>5, <1>6, AgingShaped
       DEF Restore, BudgetOK, AccountInv, Basis, AccountTypeOK, Aging
<1> QED BY <1>5, <1>7

LEMMA WriteStatusOK ==
    ASSUME AccountInv, NEW u \in Staff, WriteStatus(u)
    PROVE  Basis' /\ Aging /\ Untouched
PROOF
<1> PICK bit \in status[u] :
       /\ status' = [status EXCEPT ![u] = @ \ {bit}]
       /\ account' = IF account[u].row THEN [account EXCEPT ![u].online = bit]
                                       ELSE account
       /\ serving' = [t \in Slots |-> [serving[t] EXCEPT
                        !.stale = @ \/ serving[t].who = u]]
       /\ UNCHANGED <<sockets, lapsed, budget, lastSet, dismissed, spent, reused,
                      raced, muddled, declared>>
    BY DEF WriteStatus
<1> PICK r : r = account[u] OBVIOUS
<1> PICK q : q = IF r.row THEN [r EXCEPT !.online = bit] ELSE r OBVIOUS
<1>1. /\ r \in AccountRow /\ (r.row => r.email # None /\ r.password # 0)
      /\ bit \in BOOLEAN
    BY DEF AccountInv, Basis, AccountTypeOK
<1>2. q \in AccountRow /\ (q.row => q.email # None /\ q.password # 0)
    BY <1>1 DEF AccountRow
<1>3. account' = [account EXCEPT ![u] = q] /\ Touched(u, TRUE)
    BY <1>1, <1>2 DEF Touched, AccountInv, Basis, AccountTypeOK
<1>5. Aging /\ Untouched BY <1>2, <1>3, TouchedAges
<1>7. Basis'
    BY <1>2, <1>3, <1>5, AgingShaped DEF AccountInv, Basis, AccountTypeOK, Aging
<1> QED BY <1>5, <1>7

\* Lapse, and the gateway's handlers, write no row and no slot
LEMMA QuietOK ==
    ASSUME AccountInv, NEW u \in Staff, Lapse \/ Connect(u) \/ Disconnect(u)
    PROVE  Basis' /\ Aging /\ Untouched
PROOF
<1>1. UNCHANGED <<account, serving, lastSet, dismissed, spent, reused, raced, declared>>
    BY DEF Lapse, Connect, Disconnect
<1>2. Aging
    BY <1>1 DEF Aging, AccountInv, Basis, AccountTypeOK, Shaped, Kept, Busy
<1>3. Untouched BY <1>1 DEF Untouched
<1>4. CASE Lapse
      <2> PICK v \in Staff, column \in {"reset", "registration"} :
             lapsed' = lapsed \cup {account[v][column]}
          BY <1>4 DEF Lapse
      <2>1. account[v] \in AccountRow BY DEF AccountInv, Basis, AccountTypeOK
      <2>2. account[v][column] \in Secrets BY <2>1 DEF AccountRow
      <2> QED BY <1>1, <1>2, <1>3, <1>4, <2>2 DEF Lapse, AccountInv, Basis, AccountTypeOK
<1>5. ASSUME sockets' \in [Staff -> 0..MaxSockets], status' \in [Staff -> SUBSET BOOLEAN],
             BudgetOK', UNCHANGED lapsed, muddled' \subseteq Staff
      PROVE  Basis'
    BY <1>1, <1>5 DEF BudgetOK, AccountInv, Basis, AccountTypeOK
<1>6. /\ sockets \in [Staff -> 0..MaxSockets] /\ status \in [Staff -> SUBSET BOOLEAN]
      /\ muddled \subseteq Staff /\ BudgetOK
    BY DEF BudgetOK, AccountInv, Basis, AccountTypeOK
<1>7. CASE Connect(u)
      <2>1. BudgetOK' BY <1>7, Spending DEF Connect, AccountInv
      <2>2. status' \in [Staff -> SUBSET BOOLEAN] BY <1>6, <1>7 DEF Connect
      <2>3. sockets' \in [Staff -> 0..MaxSockets]
          BY <1>6, <1>7, AccountConstants DEF Connect
      <2>4. muddled' \subseteq Staff BY <1>6, <1>7 DEF Connect, Crossing
      <2> QED BY <1>2, <1>3, <1>5, <1>7, <2>1, <2>2, <2>3, <2>4 DEF Connect
<1>8. CASE Disconnect(u)
      <2>1. BudgetOK' BY <1>6, <1>8 DEF Disconnect, BudgetOK
      <2>2. status' \in [Staff -> SUBSET BOOLEAN]
          <3>1. status' = status \/ status' = [status EXCEPT ![u] = @ \cup {FALSE}]
              BY <1>8 DEF Disconnect
          <3> QED BY <1>6, <3>1
      <2>3. sockets' \in [Staff -> 0..MaxSockets]
          BY <1>6, <1>8, AccountConstants DEF Disconnect
      <2>4. muddled' \subseteq Staff BY <1>6, <1>8 DEF Disconnect, Crossing
      <2> QED BY <1>2, <1>3, <1>5, <1>8, <2>1, <2>2, <2>3, <2>4 DEF Disconnect
<1> QED BY <1>4, <1>7, <1>8

LEMMA RestartOK ==
    ASSUME AccountInv, Restart
    PROVE  Basis' /\ Aging /\ Untouched
PROOF
<1>1. /\ serving' = [s \in Slots |-> Idle] /\ sockets' = [u \in Staff |-> 0]
      /\ status' = [u \in Staff |-> {}] /\ budget' = [budget EXCEPT !.restarts = 0]
      /\ muddled' \subseteq muddled \cup Staff
      /\ UNCHANGED <<account, lapsed, lastSet, dismissed, spent, reused, raced, declared>>
    BY DEF Restart
<1>2. Aging BY <1>1, Kinds DEF Aging
<1>3. Untouched BY <1>1 DEF Untouched
<1>4. BudgetOK' BY <1>1 DEF BudgetOK, AccountInv, Basis, AccountTypeOK
<1>5. sockets' \in [Staff -> 0..MaxSockets] /\ status' \in [Staff -> SUBSET BOOLEAN]
    BY <1>1, AccountConstants
<1>6. Basis'
    BY <1>1, <1>2, <1>4, <1>5, AgingShaped
       DEF BudgetOK, AccountInv, Basis, AccountTypeOK, Aging
<1> QED BY <1>2, <1>3, <1>6

\* The objects of handlers that are not stale stay current
LEMMA AgingCurrent ==
    ASSUME AccountInv, Aging, Untouched
    PROVE  ObjectsCurrent'
PROOF
<1> SUFFICES ASSUME NEW s \in Slots PROVE Current(serving[s])'
    BY DEF ObjectsCurrent
<1> PICK h : h = serving[s] OBVIOUS
<1> PICK g : g = serving'[s] OBVIOUS
<1>1. CASE ~Busy(g) \/ g.stale BY <1>1 DEF Current, Busy
<1>2. CASE Busy(g) /\ ~g.stale
      <2>1. Kept(h, g) BY <1>2 DEF Aging, Busy, Idle
      <2>2. Current(h) BY DEF AccountInv, ObjectsCurrent
      <2>3. account'[g.who] = account[g.who] BY <1>2 DEF Untouched
      <2> QED BY <1>2, <2>1, <2>2, <2>3 DEF Current, Kept, Busy
<1> QED BY <1>1, <1>2

LEMMA TakenCurrent ==
    ASSUME AccountInv, NEW s \in Slots, NEW u \in Staff, NEW op \in Calls,
           NEW o \in AccountRow, NEW n \in 0..1, Asking(s, op, u, o, n)
    PROVE  ObjectsCurrent'
PROOF
<1> PICK g \in Handlers :
       /\ g.op = op /\ g.who = u /\ g.object = o
       /\ g.token = IF op = "reset" THEN account[u].reset ELSE 0
       /\ serving' = [serving EXCEPT ![s] = g]
    BY TakenHandler DEF AccountInv
<1>1. account' = account /\ Edited(op, u, o) /\ Found(u) BY DEF Asking, Reading
<1> SUFFICES ASSUME NEW t \in Slots PROVE Current(serving[t])'
    BY DEF ObjectsCurrent
<1>2. CASE t # s
      <2>1. serving'[t] = serving[t] BY <1>2 DEF AccountInv, Basis, AccountTypeOK
      <2>2. Current(serving[t]) BY DEF AccountInv, ObjectsCurrent
      <2> QED BY <1>1, <2>1, <2>2 DEF Current
<1>3. CASE t = s
      <2>1. serving'[t] = g BY <1>3 DEF AccountInv, Basis, AccountTypeOK
      <2> QED BY <1>1, <2>1 DEF Current, Edited, Found
<1> QED BY <1>2, <1>3

\* What an action is: a request, or one that ages the handlers
LEMMA Cases ==
    ASSUME AccountInv, AccountNext
    PROVE  \/ \E s \in Slots, u \in Staff, op \in Calls, o \in AccountRow, n \in 0..1 :
                Asking(s, op, u, o, n)
           \/ /\ Basis' /\ Aging /\ Untouched
              /\ \/ \E u \in Staff : \/ \E e \in Emails : Registers(u, e)
                                     \/ Restore(u) \/ Connect(u) \/ Disconnect(u)
                                     \/ WriteStatus(u)
                 \/ \E s \in Slots : DemoteOthers(s) \/ Save(s) \/ Delete(s)
                 \/ \E u \in Staff : Lapse
                 \/ Restart
PROOF
<1>1. ASSUME NEW u \in Staff, NEW s \in Slots, AccountRequest(s, u)
      PROVE  \E op \in Calls, o \in AccountRow, n \in 0..1 : Asking(s, op, u, o, n)
    BY <1>1, RequestTakes DEF AccountInv
<1>2. ASSUME Lapse PROVE \E u \in Staff : Lapse BY <1>2 DEF Lapse
<1> QED BY <1>1, <1>2, RegisterOK, RestoreOK, QuietOK, WriteStatusOK, DemoteOK, SaveOK,
           DeleteOK, RestartOK DEF AccountNext, Registers

-----------------------------------------------------------------------------
(* What was decided: each action, and the objects it relies on *)

Decided == /\ Known /\ AddressesDiffer /\ PasswordIsLastSet /\ RemovedStaysOut
           /\ OneChief /\ Presence

\* A handler that has aged goes on for a row of somebody who registered
LEMMA AgingKnown ==
    ASSUME AccountInv, Aging, NEW s \in Slots, Busy(serving'[s])
    PROVE  /\ Busy(serving[s]) /\ Kept(serving[s], serving'[s])
           /\ serving[s].who \in Staff /\ lastSet[serving[s].who] # 0
PROOF
<1>1. Kept(serving[s], serving'[s]) BY DEF Aging, Busy, Idle
<1> QED BY <1>1 DEF Kept, AccountInv, Basis, Shaped, Known

LEMMA HandlersKnown ==
    ASSUME AccountInv, Aging, UNCHANGED lastSet
    PROVE  \A s \in Slots : Busy(serving'[s]) => lastSet'[serving'[s].who] # 0
PROOF BY AgingKnown DEF Kept

LEMMA TakenDecided ==
    ASSUME AccountInv, NEW s \in Slots, NEW u \in Staff, NEW op \in Calls,
           NEW o \in AccountRow, NEW n \in 0..1, Asking(s, op, u, o, n)
    PROVE  Decided'
PROOF
<1> PICK g \in Handlers :
       /\ g.op = op /\ g.who = u /\ g.object = o
       /\ g.pc = "save" => op # "ceo" \/ ~o.ceo
       /\ serving' = [serving EXCEPT ![s] = g]
    BY TakenHandler DEF AccountInv
<1>1. /\ UNCHANGED <<account, sockets, status, lapsed, lastSet, dismissed, spent, reused,
                     raced, muddled, declared>>
      /\ account[u].row
    BY DEF Asking, Reading, Found
<1>2. /\ serving'[s] = g
      /\ \A t \in Slots \ {s} : serving'[t] = serving[t]
    BY DEF AccountInv, Basis, AccountTypeOK
<1>3. Known' BY <1>1, <1>2 DEF AccountInv, Known, Busy
<1>4. AddressesDiffer' BY <1>1 DEF AccountInv, AddressesDiffer
<1>5. PasswordIsLastSet' /\ RemovedStaysOut'
    BY <1>1 DEF AccountInv, PasswordIsLastSet, RemovedStaysOut, Found
<1>6. OneChief' BY <1>1, <1>2 DEF AccountInv, OneChief, Chief
<1>7. Presence' BY <1>1 DEF AccountInv, Presence
<1> QED BY <1>3, <1>4, <1>5, <1>6, <1>7 DEF Decided

\* A handler of the CEO flag about to give it has been so before, or was the
\* one to take it from the others
LEMMA AgingChief ==
    ASSUME AccountInv, Aging, raced' = {}, raced = {},
           \A u, v \in Staff : Chief(u)' /\ Chief(v)' => u = v,
           \A u \in Staff : Chief(u)' => Chief(u),
           \A s \in Slots : serving'[s].pc = serving[s].pc \/ serving'[s] = Idle
    PROVE  OneChief'
PROOF
<1> SUFFICES ASSUME NEW s \in Slots, serving'[s].op = "ceo", serving'[s].pc = "save",
                    ~serving'[s].stale, serving'[s].object.ceo
             PROVE  \A v \in Staff : ~Chief(v)'
    BY DEF OneChief
<1>1. Kept(serving[s], serving'[s]) BY DEF Aging, Idle
<1>2. serving[s].pc = "save" BY DEF Idle
<1> QED BY <1>1, <1>2 DEF Kept, AccountInv, OneChief

LEMMA RegisterDecided ==
    ASSUME AccountInv, NEW u \in Staff, NEW e \in Emails, Registers(u, e), Aging
    PROVE  Decided'
PROOF
<1> PICK isCeo \in BOOLEAN, rs \in SUBSET Roles : Register(u, e, isCeo, rs) BY DEF Registers
<1> PICK r : r = [NoAccount EXCEPT !.row = TRUE, !.email = e, !.ceo = isCeo, !.roles = rs,
                      !.password = NextSecret, !.registration = NextSecret + 1]
    OBVIOUS
<1>1. NextSecret \in Secrets \ {0} /\ NextSecret + 1 \in Secrets
    BY SecretDrawn DEF Register, Spend, AccountInv
<1>2. r.email = e /\ r.password = NextSecret /\ r.row
      /\ r.online = FALSE /\ r.ceo = isCeo
    BY <1>1, Kinds DEF AccountRow, NoAccount
<1>3. /\ UNCHANGED <<serving, sockets, status, lapsed, dismissed, spent, reused, raced,
                     muddled>>
      /\ \/ /\ account' = [account EXCEPT ![u] = r]
            /\ lastSet' = [lastSet EXCEPT ![u] = NextSecret]
            /\ declared' = IF isCeo THEN declared \cup {u} ELSE declared
         \/ UNCHANGED <<account, lastSet, declared>>
      /\ lastSet[u] = 0 /\ EmailFree(e, u)
    BY DEF Register
<1>4. account \in [Staff -> AccountRow] /\ lastSet \in [Staff -> Secrets]
      /\ sockets \in [Staff -> 0..MaxSockets]
    BY DEF AccountInv, Basis, AccountTypeOK
<1>5. u \notin dismissed /\ ~account[u].row /\ ~(sockets[u] > 0) /\ status[u] = {}
    BY <1>3 DEF AccountInv, Known
<1>6. Known'
    <2>1. \A v \in Staff : lastSet[v] # 0 => lastSet'[v] # 0
        BY <1>1, <1>3, <1>4
    <2>2. \A v \in Staff : account'[v].row => account[v].row \/ lastSet'[v] # 0
        BY <1>1, <1>3, <1>4
    <2> QED BY <1>3, <2>1, <2>2, AgingKnown DEF AccountInv, Known, Kept
<1>7. AddressesDiffer'
    <2>1. \A v \in Staff \ {u} : account'[v] = account[v] BY <1>3, <1>4
    <2>2. account'[u].row => account'[u].email = e BY <1>2, <1>3, <1>4, <1>5
    <2> QED BY <1>3, <2>1, <2>2 DEF AccountInv, AddressesDiffer, EmailFree
<1>8. PasswordIsLastSet' BY <1>2, <1>3, <1>4 DEF AccountInv, PasswordIsLastSet
<1>9. RemovedStaysOut'
    <2>1. \A v \in Staff \ {u} : account'[v] = account[v] BY <1>3, <1>4
    <2> QED BY <1>3, <1>5, <2>1 DEF AccountInv, RemovedStaysOut, Found, Basis, AccountTypeOK
<1>10. OneChief'
    <2>1. \A v \in Staff : Chief(v)' => Chief(v)
        BY <1>2, <1>3, <1>4 DEF Chief
    <2> QED BY <1>3, <2>1 DEF AccountInv, OneChief
<1>11. Presence'
    <2>1. \A v \in Staff \ {u} : account'[v] = account[v] BY <1>3, <1>4
    <2>2. account'[u].row => account'[u].online = FALSE
        BY <1>2, <1>3, <1>4, <1>5
    <2>3. (sockets[u] > 0) = FALSE BY <1>5
    <2> QED BY <1>3, <1>5, <2>1, <2>2, <2>3 DEF AccountInv, Presence
<1> QED BY <1>6, <1>7, <1>8, <1>9, <1>10, <1>11 DEF Decided

LEMMA DemoteDecided ==
    ASSUME AccountInv, NEW s \in Slots, DemoteOthers(s), Aging
    PROVE  Decided'
PROOF
<1>1. /\ UNCHANGED <<sockets, status, lapsed, lastSet, dismissed, spent, reused, raced,
                     muddled>>
      /\ account' = Demoted
    BY DEF DemoteOthers
<1>2. \A u \in Staff : /\ account'[u].row = account[u].row
                        /\ account'[u].email = account[u].email
                        /\ account'[u].password = account[u].password
                        /\ account'[u].deleted = account[u].deleted
                        /\ account'[u].online = account[u].online
                        /\ ~account'[u].ceo
    <2> SUFFICES ASSUME NEW u \in Staff, NEW r, r = account[u],
                        account'[u] = [r EXCEPT !.ceo = FALSE]
                 PROVE  /\ account'[u].row = r.row /\ account'[u].email = r.email
                        /\ account'[u].password = r.password
                        /\ account'[u].deleted = r.deleted
                        /\ account'[u].online = r.online /\ ~account'[u].ceo
        BY <1>1 DEF Demoted
    <2>1. r \in AccountRow BY DEF AccountInv, Basis, AccountTypeOK
    <2> QED BY <2>1 DEF AccountRow
<1>3. Known' BY <1>1, <1>2, AgingKnown DEF AccountInv, Known, Kept
<1>4. AddressesDiffer' BY <1>1, <1>2 DEF AccountInv, AddressesDiffer
<1>5. PasswordIsLastSet' BY <1>1, <1>2 DEF AccountInv, PasswordIsLastSet
<1>6. RemovedStaysOut'
    BY <1>1, <1>2 DEF AccountInv, RemovedStaysOut, Found, Basis, AccountTypeOK
<1>7. OneChief' BY <1>1, <1>2 DEF AccountInv, OneChief, Chief
<1>8. Presence' BY <1>1, <1>2 DEF AccountInv, Presence
<1> QED BY <1>3, <1>4, <1>5, <1>6, <1>7, <1>8 DEF Decided

LEMMA SaveDecided ==
    ASSUME AccountInv, NEW s \in Slots, Save(s), Aging, Saved(s) \/ account' = account
    PROVE  Decided'
PROOF
<1> PICK h : h = serving[s] OBVIOUS
<1> PICK u : u = h.who OBVIOUS
<1> PICK o : o = h.object OBVIOUS
<1>1. /\ h \in Handlers /\ Shaped(h) /\ Current(h) /\ h.pc = "save"
      /\ Busy(h) /\ u \in Staff /\ o \in AccountRow /\ lastSet[u] # 0
      /\ h.secret \in Secrets
    <2>1. h \in Handlers /\ Shaped(h) /\ Current(h) /\ h.pc = "save" /\ Busy(h)
        BY DEF AccountInv, Basis, AccountTypeOK, ObjectsCurrent, Save, Busy, Calls
    <2>2. u \in Staff /\ o \in AccountRow /\ h.secret \in Secrets
        BY <2>1 DEF Shaped, Handlers
    <2>3. lastSet[u] # 0 BY <2>1 DEF AccountInv, Known
    <2> QED BY <2>1, <2>2, <2>3
<1>2. /\ account \in [Staff -> AccountRow] /\ lastSet \in [Staff -> Secrets]
      /\ serving \in [Slots -> Handlers] /\ dismissed \subseteq Staff
      /\ raced \subseteq raced'
      /\ UNCHANGED <<sockets, status, lapsed, budget, dismissed, muddled, declared>>
      /\ serving'[s] = Idle
    BY DEF AccountInv, Basis, AccountTypeOK, Save, Served
<1>3. CASE account' = [account EXCEPT ![u] = o] /\ EmailFree(o.email, u)
           /\ raced' = (IF h.stale THEN raced \cup {u} ELSE raced)
           /\ lastSet' = (IF h.op \in Secretive THEN [lastSet EXCEPT ![u] = h.secret]
                                               ELSE lastSet)
      <2>1. /\ account'[u] = o /\ \A v \in Staff \ {u} : account'[v] = account[v]
            /\ \A v \in Staff \ {u} : lastSet'[v] = lastSet[v]
            /\ lastSet'[u] = IF h.op \in Secretive THEN h.secret ELSE lastSet[u]
            /\ h.stale => u \in raced'
          BY <1>1, <1>2, <1>3
      <2>2. \A v \in Staff : lastSet[v] # 0 => lastSet'[v] # 0
          BY <1>1, <2>1 DEF Shaped
      <2>3. Known' BY <1>1, <1>2, <2>1, <2>2, AgingKnown DEF AccountInv, Known, Kept
      <2>4. AddressesDiffer'
          BY <1>2, <1>3, <2>1 DEF AccountInv, AddressesDiffer, EmailFree
      <2>5. PasswordIsLastSet'
          BY <1>1, <1>2, <2>1 DEF AccountInv, PasswordIsLastSet, Current, Shaped
      <2>6. RemovedStaysOut'
          BY <1>1, <1>2, <2>1 DEF AccountInv, RemovedStaysOut, Found, Current
      <2>7. OneChief'
          <3> SUFFICES ASSUME raced' = {} PROVE OneChief' BY DEF OneChief
          <3>1. raced = {} /\ ~h.stale BY <1>2, <2>1
          <3>2. CASE h.op # "ceo" \/ ~o.ceo
                <4>0. \A v \in Staff : account'[v].ceo => account[v].ceo
                    BY <1>1, <2>1, <3>1, <3>2 DEF Current
                <4>1. \A v \in Staff : Chief(v)' => Chief(v) BY <1>2, <4>0 DEF Chief
                <4>2. \A t \in Slots : serving'[t].pc = serving[t].pc \/ serving'[t] = Idle
                    BY <1>2 DEF Save, Served, Handlers
                <4> QED BY <3>1, <4>1, <4>2, AgingChief DEF AccountInv, OneChief
          <3>3. CASE h.op = "ceo" /\ o.ceo
                <4>1. \A v \in Staff : ~Chief(v)
                    BY <1>1, <3>1, <3>3 DEF AccountInv, OneChief
                <4>2. \A v, w \in Staff : Chief(v)' /\ Chief(w)' => v = w
                    BY <1>2, <2>1, <4>1 DEF Chief
                <4>3. ASSUME NEW t \in Slots, serving'[t].op = "ceo", ~serving'[t].stale
                      PROVE  FALSE
                    <5> PICK f : f = serving[t] OBVIOUS
                    <5>1. t # s /\ serving'[t] # Idle BY <1>2, <4>3 DEF Idle
                    <5>2. Kept(f, serving'[t]) BY <5>1 DEF Aging
                    <5>3. Busy(f) /\ f.op = "ceo" /\ ~f.stale /\ f.who \in Staff
                        BY <4>3, <5>2 DEF Kept, AccountInv, Basis, Shaped
                    <5>4. account[f.who].row /\ account[f.who].email = CeoEmail
                        BY <5>3 DEF AccountInv, ObjectsCurrent, Current
                    <5>5. account[u].row /\ account[u].email = CeoEmail
                        BY <1>1, <3>1, <3>3 DEF Current
                    <5>6. f.who = u
                        BY <1>1, <5>3, <5>4, <5>5 DEF AccountInv, AddressesDiffer
                    <5>7. serving'[t] = [f EXCEPT !.stale = @ \/ f.who \in {u}]
                        <6>1. ~EmailFree(o.email, u) => FALSE BY <1>3
                        <6>2. Served(s, Idle, {u}) BY <6>1 DEF Save
                        <6> QED BY <5>1, <6>2 DEF Served
                    <5> QED BY <1>2, <4>3, <5>6, <5>7 DEF Handlers
                <4> QED BY <4>2, <4>3 DEF OneChief
          <3> QED BY <3>2, <3>3
      <2>8. Presence'
          <3> SUFFICES ASSUME NEW v \in Staff, v \notin raced' \cup muddled
                       PROVE  \/ status[v] = {} /\ (account'[v].row =>
                                                       account'[v].online = (sockets[v] > 0))
                              \/ status[v] = {sockets[v] > 0}
              BY <1>2 DEF Presence
          <3>1. \/ status[v] = {} /\ (account[v].row => account[v].online = (sockets[v] > 0))
                \/ status[v] = {sockets[v] > 0}
              BY <1>2 DEF AccountInv, Presence
          <3>2. CASE v # u BY <2>1, <3>1, <3>2
          <3>3. CASE v = u
                <4>1. account[u].row /\ o.online = account[u].online
                    BY <1>1, <2>1, <3>3 DEF Current
                <4> QED BY <2>1, <3>1, <3>3, <4>1
          <3> QED BY <3>2, <3>3
      <2> QED BY <2>3, <2>4, <2>5, <2>6, <2>7, <2>8 DEF Decided
<1>4. CASE UNCHANGED <<account, raced, lastSet, declared>>
      <2>3. Known' BY <1>2, <1>4, AgingKnown DEF AccountInv, Known, Kept
      <2>4. AddressesDiffer' BY <1>4 DEF AccountInv, AddressesDiffer
      <2>5. PasswordIsLastSet' /\ RemovedStaysOut' /\ Presence'
          BY <1>2, <1>4 DEF AccountInv, PasswordIsLastSet, RemovedStaysOut, Found, Presence
      <2>7. OneChief'
          <3>1. \A t \in Slots : serving'[t].pc = serving[t].pc \/ serving'[t] = Idle
              BY <1>2 DEF Save, Served, Handlers
          <3> QED BY <1>4, <3>1, AgingChief DEF AccountInv, OneChief, Chief
      <2> QED BY <2>3, <2>4, <2>5, <2>7 DEF Decided
<1> QED BY <1>2, <1>3, <1>4 DEF Save

LEMMA DeleteDecided ==
    ASSUME AccountInv, NEW s \in Slots, Delete(s), Aging
    PROVE  Decided'
PROOF
<1> PICK h : h = serving[s] OBVIOUS
<1> PICK u : u = h.who OBVIOUS
<1> PICK r : r = account[u] OBVIOUS
<1>1. h.pc = "save" /\ h \in Handlers /\ u \in Staff
    BY DEF AccountInv, Basis, AccountTypeOK, Delete, Shaped, Busy
<1>2. /\ account \in [Staff -> AccountRow] /\ r \in AccountRow /\ dismissed \subseteq Staff
      /\ serving \in [Slots -> Handlers]
    BY <1>1 DEF AccountInv, Basis, AccountTypeOK
<1>3. /\ UNCHANGED <<sockets, status, lapsed, budget, lastSet, spent, reused, raced, muddled,
                  declared>>
      /\ Served(s, Idle, {u})
    BY DEF Delete
<1>4. \/ ~r.row /\ UNCHANGED <<account, dismissed>>
      \/ /\ r.row /\ dismissed' = dismissed \cup {u}
         /\ account' = [account EXCEPT ![u] = SoftDeleted(r)]
      \/ /\ r.row /\ dismissed' = dismissed \cup {u}
         /\ account' = [account EXCEPT ![u] = NoAccount]
    BY <1>1, <1>2 DEF Delete
<1>5. /\ ~NoAccount.row /\ ~NoAccount.ceo
      /\ SoftDeleted(r).row = r.row /\ SoftDeleted(r).email = r.email
      /\ SoftDeleted(r).password = r.password /\ SoftDeleted(r).deleted
      /\ SoftDeleted(r).online = r.online /\ SoftDeleted(r).ceo = r.ceo
    BY <1>2 DEF NoAccount, SoftDeleted, AccountRow
<1>6. /\ \A v \in Staff : account'[v].row => /\ account[v].row
                                            /\ account'[v].email = account[v].email
                                            /\ account'[v].password = account[v].password
                                            /\ account'[v].online = account[v].online
      /\ \A v \in Staff : account'[v].ceo => account[v].ceo
      /\ \A v \in Staff \ {u} : account'[v] = account[v]
      /\ account[u].row => ~account'[u].row \/ account'[u].deleted
      /\ \A v \in dismissed' : v \in dismissed \/ (v = u /\ account[u].row)
      /\ ~account[u].row => UNCHANGED <<account, dismissed>>
    BY <1>1, <1>2, <1>4, <1>5
<1>7. Known' BY <1>1, <1>3, <1>6, AgingKnown DEF AccountInv, Known, Kept
<1>8. AddressesDiffer' BY <1>6 DEF AccountInv, AddressesDiffer
<1>9. PasswordIsLastSet' BY <1>3, <1>6 DEF AccountInv, PasswordIsLastSet
<1>10. RemovedStaysOut'
    BY <1>2, <1>3, <1>6 DEF AccountInv, RemovedStaysOut, Found
<1>11. OneChief'
    <2>1. \A t \in Slots : serving'[t].pc = serving[t].pc \/ serving'[t] = Idle
        BY <1>2, <1>3 DEF Served, Handlers
    <2>2. \A v \in Staff : Chief(v)' => Chief(v) BY <1>3, <1>6 DEF Chief
    <2>3. raced = {} => \A v, w \in Staff : Chief(v)' /\ Chief(w)' => v = w
        BY <2>2 DEF AccountInv, OneChief
    <2> QED BY <1>3, <2>1, <2>2, <2>3, AgingChief DEF OneChief
<1>12. Presence' BY <1>3, <1>6 DEF AccountInv, Presence
<1> QED BY <1>7, <1>8, <1>9, <1>10, <1>11, <1>12 DEF Decided

LEMMA RestoreDecided ==
    ASSUME AccountInv, NEW u \in Staff, Restore(u), Aging
    PROVE  Decided'
PROOF
<1> PICK r : r = account[u] OBVIOUS
<1> PICK q : q = [r EXCEPT !.deleted = FALSE] OBVIOUS
<1>1. /\ account \in [Staff -> AccountRow] /\ r \in AccountRow /\ dismissed \subseteq Staff
      /\ serving \in [Slots -> Handlers] /\ r.row
    BY DEF AccountInv, Basis, AccountTypeOK, Restore
<1>2. /\ UNCHANGED <<sockets, status, lapsed, lastSet, spent, reused, raced, muddled, declared>>
      /\ account' = [account EXCEPT ![u] = q] /\ dismissed' = dismissed \ {u}
      /\ serving' = [t \in Slots |-> [serving[t] EXCEPT
                       !.stale = @ \/ (serving[t].who = u /\ account[u].deleted)]]
    BY <1>1 DEF Restore
<1>3. /\ q.row = r.row /\ q.email = r.email /\ q.password = r.password
      /\ q.online = r.online /\ q.ceo = r.ceo
    BY <1>1 DEF AccountRow
<1>4. /\ \A v \in Staff : /\ account'[v].row = account[v].row
                          /\ account'[v].email = account[v].email
                          /\ account'[v].password = account[v].password
                          /\ account'[v].online = account[v].online
                          /\ account'[v].ceo = account[v].ceo
      /\ \A v \in Staff \ {u} : account'[v] = account[v]
    BY <1>1, <1>2, <1>3
<1>5. Known'
    <2>1. \A s \in Slots : Busy(serving'[s]) => lastSet'[serving'[s].who] # 0
        <3>1. lastSet' = lastSet BY <1>2
        <3> QED BY <3>1, HandlersKnown
    <2>2. \A v \in Staff : account'[v].row \/ v \in dismissed' \/ sockets'[v] > 0
                           \/ status'[v] # {} => lastSet'[v] # 0
        BY <1>2, <1>4 DEF AccountInv, Known
    <2> QED BY <2>1, <2>2 DEF Known, Busy
<1>6. AddressesDiffer' /\ PasswordIsLastSet' /\ Presence'
    BY <1>2, <1>4 DEF AccountInv, AddressesDiffer, PasswordIsLastSet, Presence
<1>7. RemovedStaysOut' BY <1>1, <1>2, <1>4 DEF AccountInv, RemovedStaysOut, Found
<1>8. OneChief'
    <2>1. \A t \in Slots : serving'[t].pc = serving[t].pc
        BY <1>1, <1>2 DEF Handlers
    <2>2. \A v \in Staff : Chief(v)' => Chief(v) BY <1>2, <1>4 DEF Chief
    <2>3. raced = {} => \A v, w \in Staff : Chief(v)' /\ Chief(w)' => v = w
        BY <2>2 DEF AccountInv, OneChief
    <2> QED BY <1>2, <2>1, <2>2, <2>3, AgingChief DEF OneChief
<1> QED BY <1>5, <1>6, <1>7, <1>8 DEF Decided

LEMMA WriteStatusDecided ==
    ASSUME AccountInv, NEW u \in Staff, WriteStatus(u), Aging
    PROVE  Decided'
PROOF
<1> PICK bit \in status[u] :
       /\ status' = [status EXCEPT ![u] = @ \ {bit}]
       /\ account' = IF account[u].row THEN [account EXCEPT ![u].online = bit]
                                       ELSE account
       /\ serving' = [t \in Slots |-> [serving[t] EXCEPT
                        !.stale = @ \/ serving[t].who = u]]
       /\ UNCHANGED <<sockets, lapsed, budget, lastSet, dismissed, spent, reused,
                      raced, muddled, declared>>
    BY DEF WriteStatus
<1> PICK r : r = account[u] OBVIOUS
<1> PICK q : q = [r EXCEPT !.online = bit] OBVIOUS
<1>1. /\ account \in [Staff -> AccountRow] /\ r \in AccountRow /\ dismissed \subseteq Staff
      /\ serving \in [Slots -> Handlers] /\ status \in [Staff -> SUBSET BOOLEAN]
    BY DEF AccountInv, Basis, AccountTypeOK
<1>2. account' = (IF r.row THEN [account EXCEPT ![u] = q] ELSE account)
    BY <1>1
<1>3. /\ q.row = r.row /\ q.email = r.email /\ q.password = r.password
      /\ q.deleted = r.deleted /\ q.online = bit /\ q.ceo = r.ceo
    BY <1>1 DEF AccountRow
<1>4. /\ \A v \in Staff : /\ account'[v].row = account[v].row
                          /\ account'[v].email = account[v].email
                          /\ account'[v].password = account[v].password
                          /\ account'[v].deleted = account[v].deleted
                          /\ account'[v].ceo = account[v].ceo
      /\ \A v \in Staff \ {u} : account'[v] = account[v] /\ status'[v] = status[v]
      /\ account[u].row => account'[u].online = bit
    BY <1>1, <1>2, <1>3
<1>5. Known'
    <2>1. \A s \in Slots : Busy(serving'[s]) => lastSet'[serving'[s].who] # 0
        <3>1. lastSet' = lastSet OBVIOUS
        <3> QED BY <3>1, HandlersKnown
    <2>2. \A v \in Staff : account'[v].row \/ v \in dismissed' \/ sockets'[v] > 0
                           \/ status'[v] # {} => lastSet'[v] # 0
        <3>1. status[u] # {} OBVIOUS
        <3> QED BY <1>4, <3>1 DEF AccountInv, Known
    <2> QED BY <2>1, <2>2 DEF Known, Busy
<1>6. AddressesDiffer' /\ PasswordIsLastSet'
    BY <1>4 DEF AccountInv, AddressesDiffer, PasswordIsLastSet
<1>7. RemovedStaysOut' BY <1>1, <1>4 DEF AccountInv, RemovedStaysOut, Found
<1>8. OneChief'
    <2>1. \A t \in Slots : serving'[t].pc = serving[t].pc
        BY <1>1 DEF Handlers
    <2>2. \A v \in Staff : Chief(v)' => Chief(v) BY <1>4 DEF Chief
    <2>3. raced = {} => \A v, w \in Staff : Chief(v)' /\ Chief(w)' => v = w
        BY <2>2 DEF AccountInv, OneChief
    <2> QED BY <2>1, <2>2, <2>3, AgingChief DEF OneChief
<1>9. Presence'
    <2> SUFFICES ASSUME u \notin raced \cup muddled
                 PROVE  status'[u] = {} /\ (account'[u].row =>
                                              account'[u].online = (sockets[u] > 0))
        BY <1>4 DEF AccountInv, Presence
    <2>1. status[u] = {sockets[u] > 0} BY DEF AccountInv, Presence
    <2>2. bit = (sockets[u] > 0) /\ status'[u] = {} BY <1>1, <2>1
    <2> QED BY <1>4, <2>2
<1> QED BY <1>5, <1>6, <1>7, <1>8, <1>9 DEF Decided

LEMMA GatewayDecided ==
    ASSUME AccountInv, NEW u \in Staff, Connect(u) \/ Disconnect(u)
    PROVE  Decided'
PROOF
<1>1. UNCHANGED <<account, serving, lastSet, dismissed, spent, reused, raced, declared>>
    BY DEF Connect, Disconnect
<1>2. /\ sockets \in [Staff -> 0..MaxSockets] /\ status \in [Staff -> SUBSET BOOLEAN]
      /\ muddled \subseteq Staff /\ sockets[u] \in Nat
    BY AccountConstants DEF AccountInv, Basis, AccountTypeOK
<1>3. /\ lastSet[u] # 0
      /\ \A v \in Staff \ {u} : sockets'[v] = sockets[v] /\ status'[v] = status[v]
      /\ muddled \subseteq muddled'
      /\ \/ UNCHANGED status /\ (sockets'[u] > 0) = (sockets[u] > 0)
         \/ status'[u] = status[u] \cup {sockets'[u] > 0} /\ (status[u] # {} => u \in muddled')
    <2>1. CASE Connect(u)
          <3>1. sockets'[u] = sockets[u] + 1 /\ lastSet[u] # 0
              BY <1>2, <2>1 DEF Connect
          <3>2. (sockets'[u] > 0) = TRUE BY <1>2, <3>1
          <3>3. CASE sockets[u] = 0
                BY <1>2, <2>1, <3>1, <3>2, <3>3 DEF Connect, Crossing
          <3>4. CASE sockets[u] # 0
                <4>1. (sockets[u] > 0) = TRUE BY <1>2, <3>4
                <4> QED BY <1>2, <2>1, <3>1, <3>2, <3>4, <4>1 DEF Connect
          <3> QED BY <3>3, <3>4
    <2>2. CASE Disconnect(u)
          <3>1. sockets[u] > 0 /\ sockets'[u] = sockets[u] - 1 /\ lastSet[u] # 0
              BY <1>2, <2>2 DEF Disconnect, AccountInv, Known
          <3>3. CASE LastSocket(u)
                <4>1. (sockets'[u] > 0) = FALSE BY <1>2, <3>1, <3>3 DEF LastSocket
                <4>2. /\ status' = [status EXCEPT ![u] = @ \cup {FALSE}]
                      /\ muddled' = Crossing(u)
                      /\ sockets' = [sockets EXCEPT ![u] = @ - 1]
                    BY <2>2, <3>3 DEF Disconnect
                <4> QED BY <1>2, <3>1, <4>1, <4>2 DEF Crossing
          <3>4. CASE ~LastSocket(u)
                <4>1. (sockets'[u] > 0) = TRUE /\ (sockets[u] > 0) = TRUE
                    BY <1>2, <3>1, <3>4 DEF LastSocket
                <4>2. UNCHANGED <<status, muddled>> /\ sockets' = [sockets EXCEPT ![u] = @ - 1]
                    BY <2>2, <3>4 DEF Disconnect
                <4> QED BY <1>2, <3>1, <4>1, <4>2
          <3> QED BY <3>3, <3>4
    <2> QED BY <2>1, <2>2
<1>4. Known' BY <1>1, <1>3 DEF AccountInv, Known
<1>5. AddressesDiffer' /\ PasswordIsLastSet' /\ RemovedStaysOut' /\ OneChief'
    BY <1>1 DEF AccountInv, AddressesDiffer, PasswordIsLastSet, RemovedStaysOut, Found,
                OneChief, Chief
<1>6. Presence'
    <2> SUFFICES ASSUME NEW v \in Staff, v \notin raced \cup muddled'
                 PROVE  \/ status'[v] = {} /\ (account[v].row =>
                                                account[v].online = (sockets'[v] > 0))
                        \/ status'[v] = {sockets'[v] > 0}
        BY <1>1 DEF Presence
    <2>1. \/ status[v] = {} /\ (account[v].row => account[v].online = (sockets[v] > 0))
          \/ status[v] = {sockets[v] > 0}
        BY <1>3 DEF AccountInv, Presence
    <2>2. CASE v # u BY <1>3, <2>1, <2>2
    <2>3. CASE v = u BY <1>3, <2>1, <2>3
    <2> QED BY <2>2, <2>3
<1> QED BY <1>4, <1>5, <1>6 DEF Decided

LEMMA RestDecided ==
    ASSUME AccountInv, Lapse \/ Restart \/ UNCHANGED accountVars
    PROVE  Decided'
PROOF
<1>1. CASE UNCHANGED <<account, serving, sockets, status, lastSet, dismissed, raced, muddled,
                       declared>>
      BY <1>1 DEF AccountInv, Decided, Known, AddressesDiffer, PasswordIsLastSet, RemovedStaysOut,
                  Found, OneChief, Chief, Presence
<1>2. CASE Restart
      <2>1. /\ UNCHANGED <<account, lastSet, dismissed, raced, declared>>
            /\ serving' = [s \in Slots |-> Idle]
            /\ sockets' = [u \in Staff |-> 0] /\ status' = [u \in Staff |-> {}]
            /\ muddled' = muddled \cup {u \in Staff : sockets[u] > 0 \/ status[u] # {}}
          BY <1>2 DEF Restart
      <2>2. Known' BY <2>1 DEF AccountInv, Known, Busy, Idle
      <2>3. AddressesDiffer' /\ PasswordIsLastSet' /\ RemovedStaysOut' /\ OneChief'
          BY <2>1 DEF AccountInv, AddressesDiffer, PasswordIsLastSet, RemovedStaysOut, Found,
                      OneChief, Chief, Idle
      <2>4. Presence'
          <3> SUFFICES ASSUME NEW u \in Staff, u \notin raced \cup muddled'
                       PROVE  account[u].row => account[u].online = (0 > 0)
              BY <2>1 DEF Presence
          <3>1. ~(sockets[u] > 0) /\ status[u] = {} BY <2>1
          <3>2. account[u].row => account[u].online = (sockets[u] > 0)
              BY <2>1, <3>1 DEF AccountInv, Presence
          <3>3. (sockets[u] > 0) = FALSE /\ (0 > 0) = FALSE BY <3>1
          <3> QED BY <3>2, <3>3
      <2> QED BY <2>2, <2>3, <2>4 DEF Decided
<1> QED BY <1>1, <1>2 DEF Lapse, accountVars

LEMMA DecidedKept ==
    ASSUME AccountInv, [AccountNext]_accountVars
    PROVE  Decided'
PROOF
<1>1. CASE UNCHANGED accountVars BY <1>1, RestDecided
<1>2. CASE AccountNext
      BY <1>2, Cases, TakenDecided, RegisterDecided, DemoteDecided, SaveOK, SaveDecided,
         DeleteDecided, RestoreDecided, WriteStatusDecided, GatewayDecided, RestDecided
<1> QED BY <1>1, <1>2

-----------------------------------------------------------------------------
(* Tokens: an action other than a request only moves or clears them *)

LEMMA TokensKept ==
    ASSUME AccountInv, Basis', Aging,
           \A u \in Staff : account'[u].reset # 0 => Holds(u, account'[u].reset),
           budget'.secrets <= budget.secrets,
           \A k \in spent' : k \in spent \/ (k # 0 /\ \E u \in Staff : Holds(u, k))
    PROVE  TokensOwned'
PROOF
<1>1. /\ budget.secrets \in Nat /\ budget.secrets < MaxSecrets /\ budget'.secrets \in Nat
      /\ MaxSecrets \in Nat /\ budget'.secrets < MaxSecrets
    BY AccountConstants DEF AccountInv, Basis, AccountTypeOK, Secrets
<1> PICK m : m = NextSecret OBVIOUS
<1> PICK n : n = MaxSecrets + 1 - budget'.secrets OBVIOUS
<1>2. m \in Nat /\ n \in Nat /\ m <= n /\ 0 < n BY <1>1 DEF NextSecret
<1>3. NextSecret' = n BY DEF NextSecret
<1>4. ASSUME NEW u \in Staff, NEW k \in Secrets \ {0}, Holds(u, k)'
      PROVE  Holds(u, k)
      <2>1. CASE account'[u].reset = k BY <1>4, <2>1
      <2>2. CASE account'[u].reset # k
            <3> PICK s \in Slots :
                   /\ Busy(serving'[s]) /\ serving'[s].who = u
                   /\ k \in {serving'[s].object.reset, serving'[s].token}
                BY <1>4, <2>2 DEF Holds, Busy
            <3>1. Kept(serving[s], serving'[s]) BY AgingKnown
            <3> QED BY <3>1 DEF Kept, Holds
      <2> QED BY <2>1, <2>2
<1>5. \A u, v \in Staff, k \in Secrets \ {0} : Holds(u, k)' /\ Holds(v, k)' => u = v
    BY <1>4 DEF AccountInv, TokensOwned
<1>6. \A u \in Staff, k \in Secrets : Holds(u, k)' => k < n
    <2> SUFFICES ASSUME NEW u \in Staff, NEW k \in Secrets \ {0}, Holds(u, k)'
                 PROVE  k < n
        BY <1>2
    <2>1. k < m BY <1>4 DEF AccountInv, TokensOwned
    <2> QED BY <1>2, <2>1, Kinds
<1>7. \A k \in spent' : k # 0 /\ k < n
    <2> SUFFICES ASSUME NEW k \in spent' PROVE k # 0 /\ k < n OBVIOUS
    <2>1. k \in Secrets BY DEF Basis, AccountTypeOK
    <2>2. k # 0 /\ k < m BY <2>1 DEF AccountInv, TokensOwned
    <2> QED BY <1>2, <2>1, <2>2, Kinds
<1> QED BY <1>3, <1>5, <1>6, <1>7 DEF TokensOwned

LEMMA UnsentKept ==
    ASSUME AccountInv, Aging,
           \A u \in Staff : account'[u].reset \in {0, account[u].reset}
                            \/ \E s \in Slots : /\ Busy(serving[s]) /\ serving'[s] = Idle
                                               /\ account'[u].reset = serving[s].object.reset,
           \A k \in spent' : k \in spent \/ \E s \in Slots : /\ Busy(serving[s])
                                                            /\ k = serving[s].token
    PROVE  \A s \in Slots : serving'[s].op = "forgot" => Unsent(s)'
PROOF
<1> SUFFICES ASSUME NEW s \in Slots, serving'[s].op = "forgot" PROVE Unsent(s)'
    OBVIOUS
<1> PICK h : h = serving[s] OBVIOUS
<1> PICK k : k = h.object.reset OBVIOUS
<1>1. Kept(h, serving'[s]) BY DEF Aging, Idle
<1>2. h.op = "forgot" /\ Busy(h) /\ k # 0 /\ Unsent(s) /\ serving'[s].object.reset = k
    BY <1>1 DEF Kept, AccountInv, Basis, Shaped, TokensSpent
<1>3. k \notin spent' BY <1>2 DEF Unsent
<1>4. \A u \in Staff : account'[u].reset # k
    <2> SUFFICES ASSUME NEW u \in Staff, account'[u].reset = k PROVE FALSE OBVIOUS
    <2>1. account'[u].reset \notin {0, account[u].reset} BY <1>2 DEF Unsent
    <2> PICK t \in Slots : /\ Busy(serving[t]) /\ serving'[t] = Idle
                           /\ account'[u].reset = serving[t].object.reset
        BY <2>1
    <2>2. t # s BY DEF Idle
    <2> QED BY <1>2, <2>2 DEF Unsent
<1>5. ASSUME NEW t \in Slots, Busy(serving'[t])
      PROVE  serving'[t].token # k /\ (t # s => serving'[t].object.reset # k)
      <2>1. Kept(serving[t], serving'[t]) BY <1>5, AgingKnown
      <2> QED BY <1>2, <2>1 DEF Kept, Unsent
<1> QED BY <1>2, <1>3, <1>4, <1>5 DEF Unsent, Busy

\* Actions that write no token and spend none
LEMMA StillTokens ==
    ASSUME AccountInv, Basis', Aging, UNCHANGED <<spent, reused, raced>>,
           \A u \in Staff : account'[u].reset \in {0, account[u].reset},
           budget'.secrets <= budget.secrets
    PROVE  TokensOwned' /\ TokensSpent'
PROOF
<1>1. \A u \in Staff : account'[u].reset # 0 => Holds(u, account'[u].reset)
    BY DEF Holds
<1>2. TokensOwned' BY <1>1, TokensKept
<1>3. \A s \in Slots : serving'[s].op = "forgot" => Unsent(s)' BY UnsentKept
<1>4. \A u \in Staff : account'[u].reset \in spent => u \in raced
    BY DEF AccountInv, TokensOwned, TokensSpent
<1> QED BY <1>2, <1>3, <1>4 DEF TokensSpent, AccountInv

LEMMA TakenTokens ==
    ASSUME AccountInv, NEW s \in Slots, NEW u \in Staff, NEW op \in Calls,
           NEW o \in AccountRow, NEW n \in 0..1, Asking(s, op, u, o, n), Basis'
    PROVE  TokensOwned' /\ TokensSpent'
PROOF
<1> PICK g \in Handlers :
       /\ Shaped(g) /\ g.op = op /\ g.who = u /\ g.object = o
       /\ g.token = IF op = "reset" THEN account[u].reset ELSE 0
       /\ serving' = [serving EXCEPT ![s] = g]
    BY TakenHandler DEF AccountInv
<1> PICK m : m = NextSecret OBVIOUS
<1>1. /\ UNCHANGED <<account, spent, reused, raced>> /\ Spend(n) /\ Edited(op, u, o)
      /\ op \in Secretive \cup {"forgot"} => n = 1
    BY DEF Asking, Reading
<1>2. /\ serving'[s] = g /\ \A t \in Slots \ {s} : serving'[t] = serving[t]
      /\ account[u] \in AccountRow /\ Busy(g)
    BY DEF AccountInv, Basis, AccountTypeOK, Busy, Calls
<1>3. /\ budget.secrets \in Nat /\ budget.secrets < MaxSecrets /\ budget'.secrets \in Nat
      /\ MaxSecrets \in Nat /\ budget'.secrets < MaxSecrets
      /\ budget'.secrets = budget.secrets - n /\ budget.secrets >= n
    <2>1. budget \in [calls : 0..MaxAccountCalls, secrets : Secrets, restarts : 0..1]
        BY DEF AccountInv, Basis, AccountTypeOK
    <2>2. budget'.secrets = budget.secrets - n BY <1>1, <2>1 DEF Spend
    <2> QED BY <1>1, <2>1, <2>2, AccountConstants DEF Spend, AccountInv, Basis, AccountTypeOK, Secrets
<1>4. m \in Nat /\ NextSecret' = m + n /\ m > 0 BY <1>3 DEF NextSecret
<1>5. o.reset \in {0, account[u].reset} \/ (op = "forgot" /\ o.reset = m /\ n = 1)
    BY <1>1 DEF Edited
<1>6. ASSUME NEW v \in Staff, NEW k \in Secrets \ {0}, Holds(v, k)'
      PROVE  Holds(v, k) \/ (v = u /\ k = m /\ n = 1)
      <2>1. CASE account[v].reset = k BY <2>1 DEF Holds
      <2>2. CASE account[v].reset # k
            <3> PICK t \in Slots :
                   /\ Busy(serving'[t]) /\ serving'[t].who = v
                   /\ k \in {serving'[t].object.reset, serving'[t].token}
                BY <1>1, <1>6, <2>2 DEF Holds, Busy
            <3>1. CASE t # s BY <1>2, <3>1 DEF Holds
            <3>2. CASE t = s
                  <4>1. v = u /\ k \in {o.reset, g.token} BY <1>2, <3>2
                  <4>2. k \in {account[u].reset, o.reset} BY <4>1
                  <4> QED BY <1>5, <4>1, <4>2 DEF Holds
            <3> QED BY <3>1, <3>2
      <2> QED BY <2>1, <2>2
<1>7. \A v \in Staff, k \in Secrets : Holds(v, k) => k < m BY DEF AccountInv, TokensOwned
<1>8. TokensOwned'
    <2>1. \A v, w \in Staff, k \in Secrets \ {0} : Holds(v, k)' /\ Holds(w, k)' => v = w
        <3> SUFFICES ASSUME NEW v \in Staff, NEW w \in Staff, NEW k \in Secrets \ {0},
                            Holds(v, k)', Holds(w, k)'
                     PROVE  v = w
            OBVIOUS
        <3>1. Holds(v, k) \/ (v = u /\ k = m) BY <1>6
        <3>2. Holds(w, k) \/ (w = u /\ k = m) BY <1>6
        <3>3. CASE k = m
              <4>1. ~(m < m) BY <1>4
              <4> QED BY <1>7, <3>1, <3>2, <3>3, <4>1
        <3> QED BY <3>1, <3>2, <3>3 DEF AccountInv, TokensOwned
    <2>2. \A v \in Staff, k \in Secrets : Holds(v, k)' => k < m + n
        <3> SUFFICES ASSUME NEW v \in Staff, NEW k \in Secrets \ {0}, Holds(v, k)'
                     PROVE  k < m + n
            BY <1>4
        <3>1. k < m \/ (k = m /\ n = 1) BY <1>6, <1>7
        <3> QED BY <1>4, <3>1, Kinds
    <2>3. \A k \in spent : k # 0 /\ k < m + n
        <3> SUFFICES ASSUME NEW k \in spent PROVE k # 0 /\ k < m + n OBVIOUS
        <3>1. k # 0 /\ k < m /\ k \in Secrets
            BY DEF AccountInv, TokensOwned, Basis, AccountTypeOK
        <3> QED BY <1>4, <3>1, Kinds
    <2> QED BY <1>1, <1>4, <2>1, <2>2, <2>3 DEF TokensOwned
<1>9. ASSUME NEW t \in Slots, serving'[t].op = "forgot" PROVE Unsent(t)'
      <2>1. CASE t # s
            <3> PICK k : k = serving[t].object.reset OBVIOUS
            <3>1. serving'[t] = serving[t] /\ serving[t].op = "forgot" BY <1>2, <1>9, <2>1
            <3>2. Unsent(t) /\ k # 0 BY <3>1 DEF AccountInv, TokensSpent, Basis, Shaped
            <3>3. k < m /\ k \in Secrets
                <4>1. /\ serving[t] \in Handlers /\ Busy(serving[t]) /\ Shaped(serving[t])
                    BY <3>1 DEF AccountInv, Basis, AccountTypeOK, Busy
                <4>2. k \in Secrets BY <4>1 DEF Handlers, AccountRow
                <4>3. Holds(serving[t].who, k) BY <4>1 DEF Holds
                <4> QED BY <1>7, <4>1, <4>2, <4>3 DEF Shaped
            <3>4. k # m BY <1>4, <3>3
            <3>5. account[u].reset # k BY <3>2 DEF Unsent
            <3>6. o.reset # k /\ g.token # k BY <1>5, <3>2, <3>4, <3>5
            <3> QED BY <1>1, <1>2, <3>1, <3>2, <3>6 DEF Unsent, Busy
      <2>2. CASE t = s
            <3>1. op = "forgot" /\ o.reset = m /\ n = 1 /\ g.token = 0 /\ m # 0
                BY <1>1, <1>2, <1>4, <1>9, <2>2 DEF Edited
            <3>2. m \in Secrets BY <3>1, <1>1, SecretDrawn DEF AccountInv, Spend
            <3>3. ~(m < m) BY <1>4
            <3>4. m \notin spent BY <3>3 DEF AccountInv, TokensOwned
            <3>5. \A v \in Staff : ~Holds(v, m) BY <1>7, <3>2, <3>3
            <3>6. \A v \in Staff : account[v].reset # m BY <3>5 DEF Holds
            <3>7. ASSUME NEW w \in Slots, Busy(serving[w])
                  PROVE  serving[w].token # m /\ serving[w].object.reset # m
                <4>1. serving[w].who \in Staff BY <3>7 DEF AccountInv, Basis, Shaped
                <4> QED BY <3>5, <3>7, <4>1 DEF Holds
            <3> QED BY <1>1, <1>2, <2>2, <3>1, <3>4, <3>6, <3>7 DEF Unsent, Busy
      <2> QED BY <2>1, <2>2
<1> QED BY <1>1, <1>8, <1>9 DEF TokensSpent, AccountInv

LEMMA SaveTokens ==
    ASSUME AccountInv, NEW s \in Slots, Save(s), Aging, Basis', Saved(s) \/ account' = account
    PROVE  TokensOwned' /\ TokensSpent'
PROOF
<1> PICK h : h = serving[s] OBVIOUS
<1> PICK u : u = h.who OBVIOUS
<1> PICK k : k = h.object.reset OBVIOUS
<1>1. h \in Handlers /\ Shaped(h) /\ Current(h) /\ Busy(h)
    BY DEF AccountInv, Basis, AccountTypeOK, ObjectsCurrent, Save, Busy, Calls
<1>2. u \in Staff /\ h.token \in Secrets BY <1>1 DEF Shaped, Handlers
<1>3. /\ account \in [Staff -> AccountRow] /\ serving \in [Slots -> Handlers]
      /\ budget' = budget /\ budget.secrets <= budget.secrets
    BY DEF AccountInv, Basis, AccountTypeOK, Save, Secrets
<1>4. CASE UNCHANGED <<account, raced, reused, spent>>
      <2>1. \A v \in Staff : account'[v].reset \in {0, account[v].reset} BY <1>4
      <2> QED BY <1>3, <1>4, <2>1, StillTokens
<1>5. CASE /\ account' = [account EXCEPT ![u] = h.object]
           /\ Served(s, Idle, {u})
           /\ raced' = (IF h.stale THEN raced \cup {u} ELSE raced)
           /\ reused' = (IF h.token \in spent THEN reused \cup {u} ELSE reused)
           /\ spent' = spent \cup ({h.token} \ {0})
      <2>1. /\ account'[u].reset = k /\ serving'[s] = Idle
            /\ \A v \in Staff \ {u} : account'[v] = account[v]
            /\ raced \subseteq raced' /\ (h.stale => u \in raced')
          BY <1>2, <1>3, <1>5 DEF Served
      <2>2. Holds(u, k) /\ Holds(u, h.token) BY <1>1 DEF Holds
      <2>3. TokensOwned'
          <3>1. \A v \in Staff : account'[v].reset # 0 => Holds(v, account'[v].reset)
              BY <2>1, <2>2 DEF Holds
          <3>2. \A c \in spent' : c \in spent \/ (c # 0 /\ \E v \in Staff : Holds(v, c))
              BY <1>2, <1>5, <2>2
          <3> QED BY <1>3, <3>1, <3>2, TokensKept
      <2>4. \A t \in Slots : serving'[t].op = "forgot" => Unsent(t)'
          <3>1. \A v \in Staff : account'[v].reset \in {0, account[v].reset}
                    \/ \E t \in Slots : /\ Busy(serving[t]) /\ serving'[t] = Idle
                                       /\ account'[v].reset = serving[t].object.reset
              BY <1>1, <2>1
          <3>2. \A c \in spent' : c \in spent \/ \E t \in Slots : /\ Busy(serving[t])
                                                               /\ c = serving[t].token
              BY <1>1, <1>5
          <3> QED BY <3>1, <3>2, UnsentKept
      <2>5. ASSUME NEW v \in Staff, account'[v].reset \in spent' PROVE v \in raced'
          <3>1. CASE v # u
                <4>1. account'[v].reset = account[v].reset BY <2>1, <3>1
                <4>2. CASE account[v].reset \in spent
                      BY <2>1, <4>2 DEF AccountInv, TokensSpent
                <4>3. CASE account[v].reset = h.token /\ h.token # 0
                      <5>1. Holds(v, h.token) BY <4>3 DEF Holds
                      <5> QED BY <1>2, <2>2, <3>1, <4>3, <5>1 DEF AccountInv, TokensOwned
                <4> QED BY <1>5, <2>5, <4>1, <4>2, <4>3
          <3>2. CASE v = u /\ ~h.stale
                <4>1. k \in spent \/ (k = h.token /\ k # 0) BY <1>5, <2>1, <2>5, <3>2
                <4>2. 0 \notin spent BY DEF AccountInv, TokensOwned
                <4>3. h.op # "reset" BY <1>1, <4>1, <4>2 DEF Shaped
                <4>4. k \in spent BY <1>1, <4>1, <4>3 DEF Shaped
                <4>5. h.op # "forgot" BY <4>4 DEF AccountInv, TokensSpent, Unsent
                <4>6. account[u].reset = k BY <1>1, <3>2, <4>3, <4>5 DEF Current
                <4> QED BY <1>2, <2>1, <3>2, <4>4, <4>6 DEF AccountInv, TokensSpent
          <3> QED BY <2>1, <3>1, <3>2
      <2>6. reused' \subseteq raced'
          <3>1. CASE h.token \in spent /\ ~h.stale
                <4>1. 0 \notin spent BY DEF AccountInv, TokensOwned
                <4>2. h.op = "reset" BY <1>1, <3>1, <4>1 DEF Shaped
                <4>3. account[u].reset = h.token BY <1>1, <3>1, <4>2 DEF Current
                <4>4. u \in raced BY <1>2, <3>1, <4>3 DEF AccountInv, TokensSpent
                <4> QED BY <1>5, <4>4, <2>1 DEF AccountInv, TokensSpent
          <3>2. CASE h.token \notin spent \/ h.stale
                BY <1>5, <2>1, <3>2 DEF AccountInv, TokensSpent
          <3> QED BY <3>1, <3>2
      <2> QED BY <2>3, <2>4, <2>5, <2>6 DEF TokensSpent
<1> QED BY <1>4, <1>5 DEF Save

LEMMA SpendsSome ==
    ASSUME AccountInv, NEW n \in 0..2, Spend(n)
    PROVE  budget'.secrets <= budget.secrets
PROOF
<1>1. budget \in [calls : 0..MaxAccountCalls, secrets : Secrets, restarts : 0..1]
    BY DEF AccountInv, Basis, AccountTypeOK
<1>2. budget'.secrets = budget.secrets - n BY <1>1 DEF Spend
<1> QED BY <1>1, <1>2, AccountConstants DEF Secrets

\* The actions that neither take a request nor save
LEMMA OtherTokens ==
    ASSUME AccountInv, Basis', Aging,
           \/ \E u \in Staff : \/ \E e \in Emails : Registers(u, e)
                              \/ Restore(u) \/ Connect(u) \/ Disconnect(u)
                              \/ WriteStatus(u)
           \/ \E s \in Slots : DemoteOthers(s) \/ Delete(s)
    PROVE  TokensOwned' /\ TokensSpent'
PROOF
<1>1. /\ account \in [Staff -> AccountRow] /\ budget.secrets <= budget.secrets
      /\ budget \in [calls : 0..MaxAccountCalls, secrets : Secrets, restarts : 0..1]
    BY DEF AccountInv, Basis, AccountTypeOK, Secrets
<1>2. UNCHANGED <<spent, reused, raced>>
    BY DEF Registers, Register, Restore, Connect, Disconnect, WriteStatus, DemoteOthers, Delete
<1>3. budget'.secrets <= budget.secrets
    <2>1. 0 \in 0..2 /\ 2 \in 0..2 OBVIOUS
    <2>2. ASSUME NEW u \in Staff, NEW e \in Emails,
                 Registers(u, e) \/ Restore(u) \/ Connect(u)
          PROVE  budget'.secrets <= budget.secrets
        <3>1. Spend(0) \/ Spend(2) BY <2>2 DEF Registers, Register, Restore, Connect
        <3> QED BY <2>1, <3>1, SpendsSome
    <2>3. ASSUME NEW u \in Staff, Restore(u) \/ Connect(u)
          PROVE  budget'.secrets <= budget.secrets
        <3>1. Spend(0) BY <2>3 DEF Restore, Connect
        <3> QED BY <2>1, <3>1, SpendsSome
    <2>4. ASSUME NEW u \in Staff, Disconnect(u) \/ WriteStatus(u)
          PROVE  budget' = budget
        BY <2>4 DEF Disconnect, WriteStatus
    <2>5. ASSUME NEW s \in Slots, DemoteOthers(s) \/ Delete(s)
          PROVE  budget' = budget
        BY <2>5 DEF DemoteOthers, Delete
    <2> QED BY <1>1, <2>2, <2>3, <2>4, <2>5
<1>4. \A v \in Staff : account'[v].reset \in {0, account[v].reset}
    <2>1. ASSUME NEW u \in Staff, NEW e \in Emails, Registers(u, e)
          PROVE  \A v \in Staff : account'[v].reset \in {0, account[v].reset}
          <3> PICK isCeo \in BOOLEAN, rs \in SUBSET Roles : Register(u, e, isCeo, rs)
              BY <2>1 DEF Registers
          <3> PICK r : r = [NoAccount EXCEPT !.row = TRUE, !.email = e, !.ceo = isCeo,
                                 !.roles = rs, !.password = NextSecret,
                                 !.registration = NextSecret + 1]
              OBVIOUS
          <3>1. r.reset = 0 BY DEF NoAccount
          <3>2. account' = [account EXCEPT ![u] = r] \/ account' = account
              BY DEF Register
          <3> QED BY <1>1, <3>1, <3>2
    <2>2. ASSUME NEW u \in Staff, Connect(u) \/ Disconnect(u)
          PROVE  \A v \in Staff : account'[v].reset \in {0, account[v].reset}
        BY <2>2 DEF Connect, Disconnect
    <2>3. ASSUME NEW v \in Staff, NEW r \in AccountRow, NEW bit \in BOOLEAN
          PROVE  /\ [r EXCEPT !.deleted = bit].reset = r.reset
                 /\ [r EXCEPT !.online = bit].reset = r.reset
                 /\ [r EXCEPT !.ceo = bit].reset = r.reset
        BY DEF AccountRow
    <2>4. ASSUME NEW u \in Staff, Restore(u)
          PROVE  \A v \in Staff : account'[v].reset \in {0, account[v].reset}
          <3>1. account' = [account EXCEPT ![u] = [account[u] EXCEPT !.deleted = FALSE]]
              BY <1>1, <2>4 DEF Restore
          <3> QED BY <1>1, <2>3, <3>1
    <2>5. ASSUME NEW u \in Staff, WriteStatus(u)
          PROVE  \A v \in Staff : account'[v].reset \in {0, account[v].reset}
          <3> PICK bit \in status[u] :
                 account' = IF account[u].row THEN [account EXCEPT ![u].online = bit]
                                              ELSE account
              BY <2>5 DEF WriteStatus
          <3>1. bit \in BOOLEAN BY DEF AccountInv, Basis, AccountTypeOK
          <3>2. account' = account
                \/ account' = [account EXCEPT ![u] = [account[u] EXCEPT !.online = bit]]
              BY <1>1
          <3> QED BY <1>1, <2>3, <3>1, <3>2
    <2>6. ASSUME NEW s \in Slots, DemoteOthers(s)
          PROVE  \A v \in Staff : account'[v].reset \in {0, account[v].reset}
          <3>1. account' = Demoted BY <2>6 DEF DemoteOthers
          <3> QED BY <1>1, <2>3, <3>1 DEF Demoted
    <2>7. ASSUME NEW s \in Slots, Delete(s)
          PROVE  \A v \in Staff : account'[v].reset \in {0, account[v].reset}
          <3> PICK w : w = serving[s].who OBVIOUS
          <3>1. w \in Staff
              BY <2>7 DEF Delete, AccountInv, Basis, Shaped, Busy
          <3>2. \/ account' = account
                \/ account' = [account EXCEPT ![w] = [account[w] EXCEPT !.deleted = TRUE]]
                \/ account' = [account EXCEPT ![w] = NoAccount]
              BY <1>1, <2>7, <3>1 DEF Delete, SoftDeleted
          <3>3. NoAccount.reset = 0 BY DEF NoAccount
          <3>4. CASE account' = [account EXCEPT ![w] = [account[w] EXCEPT !.deleted = TRUE]]
                BY <1>1, <2>3, <3>1, <3>4
          <3>5. CASE account' = [account EXCEPT ![w] = NoAccount]
                BY <1>1, <3>1, <3>3, <3>5
          <3> QED BY <3>2, <3>4, <3>5
    <2> QED BY <2>1, <2>2, <2>4, <2>5, <2>6, <2>7
<1> QED BY <1>2, <1>3, <1>4, StillTokens

LEMMA RestTokens ==
    ASSUME AccountInv, Basis', Aging, Lapse \/ Restart
    PROVE  TokensOwned' /\ TokensSpent'
PROOF
<1>1. UNCHANGED <<account, spent, reused, raced>>
    BY DEF Lapse, Restart
<1>2. \A v \in Staff : account'[v].reset \in {0, account[v].reset} BY <1>1
<1>3. budget \in [calls : 0..MaxAccountCalls, secrets : Secrets, restarts : 0..1]
    BY DEF AccountInv, Basis, AccountTypeOK
<1>4. budget'.secrets = budget.secrets BY <1>3 DEF Lapse, Restart
<1>5. budget'.secrets <= budget.secrets BY <1>3, <1>4, AccountConstants DEF Secrets
<1> QED BY <1>1, <1>2, <1>5, StillTokens

LEMMA TokensStep ==
    ASSUME AccountInv, AccountNext
    PROVE  Basis' /\ ObjectsCurrent' /\ TokensOwned' /\ TokensSpent'
PROOF
<1>1. ASSUME NEW s \in Slots, NEW u \in Staff, NEW op \in Calls, NEW o \in AccountRow,
             NEW n \in 0..1, Asking(s, op, u, o, n)
      PROVE  Basis' /\ ObjectsCurrent' /\ TokensOwned' /\ TokensSpent'
    BY <1>1, TakenBasis, TakenCurrent, TakenTokens DEF AccountInv
<1>2. ASSUME Basis', Aging, Untouched,
             \/ \E u \in Staff : \/ \E e \in Emails : Registers(u, e)
                                \/ Restore(u) \/ Connect(u) \/ Disconnect(u)
                                \/ WriteStatus(u)
             \/ \E s \in Slots : DemoteOthers(s) \/ Save(s) \/ Delete(s)
             \/ \E u \in Staff : Lapse
             \/ Restart
      PROVE  Basis' /\ ObjectsCurrent' /\ TokensOwned' /\ TokensSpent'
    BY <1>2, AgingCurrent, OtherTokens, SaveOK, SaveTokens, RestTokens
<1> QED BY <1>1, <1>2, Cases

-----------------------------------------------------------------------------
(* The first state, and the theorems *)

LEMMA InSingleton ==
    ASSUME NEW S, IsFiniteSet(S), Cardinality(S) <= 1, NEW u \in S, NEW v \in S
    PROVE  u = v
PROOF
<1> SUFFICES ASSUME u # v PROVE FALSE OBVIOUS
<1>1. IsFiniteSet({u}) /\ Cardinality({u}) = 1 BY FS_Singleton
<1>2. Cardinality({u} \cup {v}) = 2 BY <1>1, FS_AddElement
<1>3. Cardinality({u} \cup {v}) <= Cardinality(S) BY FS_Subset
<1>4. Cardinality(S) \in Nat BY FS_CardinalityType
<1> QED BY <1>2, <1>3, <1>4

LEMMA AccountInitInv ==
    ASSUME AccountInit
    PROVE  AccountInv
PROOF
<1>0. PICK hired \in SUBSET Staff, chief \in SUBSET Staff, at \in [Staff -> Emails] :
       /\ \A u, v \in Staff : at[u] = at[v] => u = v
       /\ chief \subseteq hired /\ Cardinality(chief) <= 1
       /\ account = [u \in Staff |-> IF u \notin hired THEN NoAccount ELSE
              [NoAccount EXCEPT !.row = TRUE, !.email = at[u], !.password = 1,
                                !.registered = TRUE, !.ceo = u \in chief]]
       /\ lastSet = [u \in Staff |-> IF u \in hired THEN 1 ELSE 0]
    BY DEF AccountInit
<1>1. /\ serving = [s \in Slots |-> Idle]
      /\ sockets = [u \in Staff |-> 0] /\ status = [u \in Staff |-> {}]
      /\ lapsed = {}
      /\ budget = [calls |-> MaxAccountCalls, secrets |-> MaxSecrets - 1, restarts |-> 1]
      /\ dismissed = {} /\ spent = {} /\ reused = {} /\ raced = {} /\ muddled = {}
      /\ declared = {}
    BY DEF AccountInit
<1>2. /\ MaxSecrets \in Nat \ {0} /\ MaxAccountCalls \in Nat /\ MaxSockets \in Nat
      /\ IsFiniteSet(Staff) /\ None \notin Emails
    BY AccountConstants
<1>3. 0 \in Secrets /\ 1 \in Secrets BY <1>2 DEF Secrets
<1>4. ASSUME NEW u \in hired
      PROVE  LET r == account[u] IN
             /\ r \in AccountRow /\ r.row /\ r.email = at[u] /\ r.password = 1
             /\ r.online = FALSE /\ r.reset = 0 /\ ~r.deleted /\ r.ceo = (u \in chief)
      <2> PICK bit : bit = (u \in chief) OBVIOUS
      <2>5. bit \in BOOLEAN OBVIOUS
      <2> PICK r : r = [NoAccount EXCEPT !.row = TRUE, !.email = at[u], !.password = 1,
                                         !.registered = TRUE, !.ceo = bit]
          OBVIOUS
      <2>1. account[u] = r BY <1>0
      <2>6. at[u] \in Emails OBVIOUS
      <2>2. r \in AccountRow BY <1>3, <2>5, <2>6, Kinds DEF AccountRow
      <2>3. /\ r.row /\ r.email = at[u] /\ r.password = 1 /\ r.ceo = bit
            /\ r.online = NoAccount.online /\ r.reset = NoAccount.reset
            /\ r.deleted = NoAccount.deleted
          BY <2>5, Kinds DEF AccountRow
      <2>4. /\ NoAccount.online = FALSE /\ NoAccount.reset = 0 /\ NoAccount.deleted = FALSE
          BY DEF NoAccount
      <2> QED BY <2>1, <2>2, <2>3, <2>4
<1>5. ASSUME NEW u \in Staff \ hired
      PROVE  /\ account[u] \in AccountRow /\ ~account[u].row /\ ~account[u].ceo
             /\ account[u].reset = 0
      <2>1. account[u] = NoAccount BY <1>0
      <2>2. ~NoAccount.row /\ ~NoAccount.ceo /\ NoAccount.reset = 0 BY DEF NoAccount
      <2> QED BY <2>1, <2>2, Kinds
<1>6. \A s \in Slots : serving[s] = Idle /\ ~Busy(serving[s]) BY <1>1 DEF Idle, Busy
<1>16. /\ \A u \in Staff : at[u] \in Emails
       /\ \A u, v \in Staff : at[u] = at[v] => u = v
       /\ lastSet = [u \in Staff |-> IF u \in hired THEN 1 ELSE 0]
    BY <1>0
<1>17. \A u \in Staff : account[u].row => /\ u \in hired /\ account[u].email = at[u]
                                         /\ account[u].password = 1
    BY <1>4, <1>5
<1>7. account \in [Staff -> AccountRow]
    <2>1. \A u \in Staff : account[u] \in AccountRow BY <1>4, <1>5
    <2> QED BY <1>0, <2>1
<1>8. AccountTypeOK
    <2>1. \A u \in Staff : account[u].row =>
              account[u].email # None /\ account[u].password # 0
        BY <1>2, <1>16, <1>17
    <2>2. serving \in [Slots -> Handlers] BY <1>1, Kinds
    <2>3. /\ sockets \in [Staff -> 0..MaxSockets] /\ status \in [Staff -> SUBSET BOOLEAN]
          /\ lastSet \in [Staff -> Secrets]
        BY <1>1, <1>2, <1>3, <1>16
    <2>4. budget \in [calls : 0..MaxAccountCalls, secrets : Secrets, restarts : 0..1]
        BY <1>1, <1>2 DEF Secrets
    <2> QED BY <1>1, <1>7, <2>1, <2>2, <2>3, <2>4 DEF AccountTypeOK
<1>9. Basis
    <2>1. Shaped(Idle) BY DEF Shaped, Idle, Busy, Secretive
    <2>2. budget.secrets < MaxSecrets BY <1>1, <1>2
    <2> QED BY <1>6, <1>8, <2>1, <2>2 DEF Basis
<1>10. Known /\ ObjectsCurrent
    <2>1. \A u \in Staff : account[u].row => lastSet[u] # 0 BY <1>16, <1>17
    <2>2. Known BY <1>1, <1>6, <2>1 DEF Known
    <2> QED BY <1>6, <2>2 DEF ObjectsCurrent, Current
<1>11. AddressesDiffer BY <1>16, <1>17 DEF AddressesDiffer
<1>12. PasswordIsLastSet /\ RemovedStaysOut
    BY <1>1, <1>16, <1>17 DEF PasswordIsLastSet, RemovedStaysOut
<1>13. OneChief
    <2>1. IsFiniteSet(chief) BY <1>2, FS_Subset
    <2>2. \A u \in Staff : account[u].ceo => u \in chief BY <1>4, <1>5
    <2>3. \A u, v \in chief : u = v BY <1>0, <2>1, InSingleton
    <2>4. \A s \in Slots : serving[s].op # "ceo" BY <1>6 DEF Busy, Idle
    <2> QED BY <2>2, <2>3, <2>4 DEF OneChief, Chief
<1>14. Presence
    <2>1. (0 > 0) = FALSE OBVIOUS
    <2> QED BY <1>1, <1>4, <1>5, <2>1 DEF Presence
<1>15. TokensOwned /\ TokensSpent
    <2>1. \A u \in Staff, k \in Secrets : Holds(u, k) => k = 0
        BY <1>4, <1>5, <1>6 DEF Holds
    <2>2. 0 < NextSecret BY <1>1, <1>2 DEF NextSecret
    <2>3. \A s \in Slots : serving[s].op # "forgot" BY <1>6 DEF Busy, Idle
    <2> QED BY <1>1, <2>1, <2>2, <2>3 DEF TokensOwned, TokensSpent
<1> QED BY <1>9, <1>10, <1>11, <1>12, <1>13, <1>14, <1>15 DEF AccountInv

LEMMA AccountNextInv == AccountInv /\ [AccountNext]_accountVars => AccountInv'
PROOF
<1> SUFFICES ASSUME AccountInv, [AccountNext]_accountVars PROVE AccountInv' OBVIOUS
<1>1. Decided' BY DecidedKept
<1>2. Basis' /\ ObjectsCurrent' /\ TokensOwned' /\ TokensSpent'
    <2>1. CASE AccountNext BY <2>1, TokensStep
    <2>2. CASE UNCHANGED accountVars
          BY <2>2 DEF accountVars, AccountInv, Basis, AccountTypeOK, ObjectsCurrent, Current, Busy,
             TokensOwned, TokensSpent, Holds, Unsent, NextSecret
    <2> QED BY <2>1, <2>2
<1> QED BY <1>1, <1>2 DEF Decided, AccountInv

LEMMA AccountAlways == AccountSpec => []AccountInv
PROOF
<1>1. AccountInit => AccountInv BY AccountInitInv
<1> QED BY <1>1, AccountNextInv, PTL DEF AccountSpec

LEMMA AtMostOne ==
    ASSUME NEW S, \A u, v \in S : u = v
    PROVE  Cardinality(S) <= 1
PROOF
<1>1. CASE S = {} BY <1>1, FS_EmptySet
<1>2. CASE S # {}
      <2> PICK u : u \in S BY <1>2
      <2>1. S = {u} OBVIOUS
      <2>2. Cardinality({u}) = 1 BY FS_Singleton
      <2> QED BY <2>1, <2>2
<1> QED BY <1>1, <1>2

\* For any number of handlers in flight: the password last set, a removal and
\* the one CEO by a toggle stand, unless a handler saved an object that was loaded before
\* another write of the row.
THEOREM DecisionsStand == AccountSpec => []OnlyStaleSavesUndo
PROOF
<1>1. AccountInv => OnlyStaleSavesUndo
    <2> SUFFICES ASSUME AccountInv, raced = {}
                 PROVE  Cardinality({u \in Staff : account[u].ceo} \ declared) <= 1
        BY DEF OnlyStaleSavesUndo, OneCeo, AccountInv
    <2> PICK chiefs : chiefs = {u \in Staff : account[u].ceo} \ declared OBVIOUS
    <2>1. \A u, v \in chiefs : u = v BY DEF AccountInv, OneChief, Chief
    <2>2. Cardinality(chiefs) <= 1 BY <2>1, AtMostOne
    <2> QED BY <2>2
<1> QED BY <1>1, AccountAlways, PTL

\* A reset token that has set a password sets no other, unless two handlers had
\* it at once or a stale save brought it back.
THEOREM TokensWorkOnce == AccountSpec => []ResetTokenWorksOnce
PROOF
<1>1. AccountInv => ResetTokenWorksOnce BY DEF AccountInv, TokensSpent, ResetTokenWorksOnce
<1> QED BY <1>1, AccountAlways, PTL

\* With any number of sockets and of crossings with other users' handlers,
\* isOnline is right once the writes of a user are done, but for the users
\* whose own writes crossed, or who were lost to a restart or a stale save.
THEOREM PresenceIsTrue == AccountSpec => []OnlineMeansSockets
PROOF
<1>1. AccountInv => OnlineMeansSockets
    BY DEF AccountInv, Presence, OnlineMeansSockets
<1> QED BY <1>1, AccountAlways, PTL

-----------------------------------------------------------------------------
(* The administrators tables *)

\* A live row has a name; only titles and heads have a department, and only
\* roles grant something
RowOK(t, x) == /\ x.live => x.name \in Names
               /\ x.of # 0 => t \in InDepartment
               /\ x.grants # {} => t = "role"

ClerkOK(h) == /\ h.op \in {"permit", "insert", "look", "write"}
                     => h.object.live /\ RowOK(h.in, h.object)
              /\ h.op \in {"look", "write", "remove"} => h.id \in 1..MaxRows
              /\ h.op = "insert" => h.id = 0
              /\ h.op \in {"look", "write"} => h.id # 0
              /\ h.op = "permit" \/ h.decides => h.in = "role"
              /\ h.op = "permit" /\ h.id # 0 => h.decides

RowsKept == /\ \A t \in Tables, i \in 1..MaxRows : RowOK(t, table[t][i])
            /\ \A s \in Slots : ClerkOK(clerk[s])

\* What a create did not find is not there, unless a write has crossed it
LookupsHold ==
    \A s \in Slots : LET h == clerk[s] IN
        h.op = "insert" /\ ~h.crossed /\ h.in \notin UniqueNames => ~Taken(h.in, h.object)

\* What a handler of a role knows.  Who names permissions grants those; who does
\* not, and whom no other write has crossed, grants what the row grants
RoleOrder(h) ==
    h.in = "role" =>
        /\ h.op \in {"permit", "insert"} \/ (h.op \in {"look", "write"} /\ h.decides)
               => h.object.grants = h.named
        /\ h.op \in {"permit", "look", "write"} /\ h.id # 0 /\ ~h.crossed =>
               LET row == table["role"][h.id] IN
               /\ h.id \in 1..MaxRows /\ row.live
               /\ ~h.decides => h.object.grants = row.grants
               /\ h.op = "write" => h.was.grants = row.grants
RolesKnown == \A s \in Slots : RoleOrder(clerk[s])

\* A role that is not blurred grants what it was last given
GrantsHold == \A i \in Live("role") : i \notin blurred => table["role"][i].grants = granted[i]

AdminInv == /\ AdminTypeOK /\ RowsKept /\ LookupsHold /\ NamesakesAreExcused
            /\ RolesKnown /\ GrantsHold

-----------------------------------------------------------------------------
(* Requests *)

LEMMA OrderKinds ==
    /\ Blank \in RegisterRow /\ ~Blank.live /\ Blank.of = 0 /\ Blank.grants = {}
    /\ NoOrder \in Orders /\ ClerkOK(NoOrder) /\ NoOrder.op = "idle" /\ NoOrder.id = 0
    /\ NoOrder.object = Blank /\ NoOrder.was = Blank /\ NoOrder.named = {}
    /\ NoOrder.fresh = {} /\ ~NoOrder.decides /\ ~NoOrder.crossed
    /\ RoleOrder(NoOrder)
PROOF
<1>1. /\ Blank \in RegisterRow /\ ~Blank.live /\ Blank.of = 0 /\ Blank.grants = {}
    BY AdminConstants DEF Blank, RegisterRow
<1>2. /\ NoOrder \in Orders /\ NoOrder.op = "idle" /\ NoOrder.id = 0
      /\ NoOrder.object = Blank /\ NoOrder.was = Blank /\ NoOrder.named = {}
      /\ NoOrder.fresh = {} /\ NoOrder.decides = FALSE /\ NoOrder.crossed = FALSE
    BY <1>1, AdminConstants DEF NoOrder, Orders, Tables, Ops
<1> QED BY <1>1, <1>2 DEF ClerkOK, RoleOrder

LEMMA SameIsEqual ==
    ASSUME NEW t, NEW x, NEW y, NEW z
    PROVE  /\ Same(t, x, y) => Same(t, y, x) /\ x.name = y.name
           /\ Same(t, x, y) /\ Same(t, y, z) => Same(t, x, z)
           /\ Indexed(t, x, y) <=> Indexed(t, y, x)
           /\ t \in UniqueNames /\ Same(t, x, y) => Indexed(t, x, y)
PROOF BY DEF Same, Indexed

\* An order that is well formed, and whose lookup is good
Order(o) == /\ o \in Orders /\ ClerkOK(o) /\ RoleOrder(o)
            /\ o.op = "insert" => ~Taken(o.in, o.object)

LEMMA AskKeeps ==
    ASSUME AdminInv, NEW s \in Slots, NEW o, Order(o), Ask(s, o)
    PROVE  AdminInv'
PROOF
<1>1. orders' \in 0..MaxAdminCalls BY AdminConstants DEF Ask, AdminInv, AdminTypeOK
<1>2. /\ UNCHANGED <<table, given, excused, granted, blurred>>
      /\ clerk' = [clerk EXCEPT ![s] = o]
    BY DEF Ask
<1>3. AdminTypeOK' BY <1>1, <1>2 DEF Order, AdminInv, AdminTypeOK
<1>4. RowsKept' BY <1>2 DEF Order, AdminInv, AdminTypeOK, RowsKept
<1>5. LookupsHold'
    BY <1>2 DEF Order, AdminInv, AdminTypeOK, LookupsHold, Taken, Live
<1>6. NamesakesAreExcused' BY <1>2 DEF AdminInv, NamesakesAreExcused, Live, Valid
<1>7. RolesKnown' BY <1>2 DEF Order, AdminInv, AdminTypeOK, RolesKnown, RoleOrder
<1>8. GrantsHold' BY <1>2 DEF AdminInv, GrantsHold, Live
<1> QED BY <1>3, <1>4, <1>5, <1>6, <1>7, <1>8 DEF AdminInv

\* A row that a create asks for
LEMMA NewRows ==
    ASSUME NEW n \in Names, NEW d \in 0..MaxRows
    PROVE  /\ NewRow(n, d, {}) \in RegisterRow /\ NewRow(n, d, {}).live
           /\ NewRow(n, d, {}).name = n /\ NewRow(n, d, {}).of = d
           /\ NewRow(n, d, {}).grants = {}
           /\ [NewRow(n, d, {}) EXCEPT !.linked = TRUE] \in RegisterRow
           /\ [NewRow(n, d, {}) EXCEPT !.linked = TRUE].live
           /\ [NewRow(n, d, {}) EXCEPT !.linked = TRUE].name = n
           /\ [NewRow(n, d, {}) EXCEPT !.linked = TRUE].of = d
           /\ [NewRow(n, d, {}) EXCEPT !.linked = TRUE].grants = {}
PROOF
<1> PICK x : x = NewRow(n, d, {}) OBVIOUS
<1>1. x = [Blank EXCEPT !.live = TRUE, !.name = n, !.of = d, !.grants = {}]
    BY DEF NewRow
<1>2. /\ x \in RegisterRow /\ x.live /\ x.name = n /\ x.of = d /\ x.grants = {}
    BY <1>1, OrderKinds DEF RegisterRow
<1> PICK y : y = [x EXCEPT !.linked = TRUE] OBVIOUS
<1>3. /\ y \in RegisterRow /\ y.live /\ y.name = n /\ y.of = d /\ y.grants = {}
    BY <1>2 DEF RegisterRow
<1> QED BY <1>2, <1>3

LEMMA CreateOrder ==
    ASSUME NEW t \in Tables, NEW x \in RegisterRow, x.live, x.name \in Names, x.grants = {},
           x.of # 0 => t \in InDepartment, t # "role", ~Taken(t, x)
    PROVE  Order(Creation(t, x))
PROOF
<1> PICK o : o = Creation(t, x) OBVIOUS
<1>1. RowOK(t, x) BY DEF RowOK
<1>2. /\ o \in Orders /\ o.op = "insert" /\ o.in = t /\ o.object = x /\ o.id = 0
      /\ ~o.decides
    BY <1>1, OrderKinds DEF Creation, Orders, Ops
<1> QED BY <1>1, <1>2 DEF Order, ClerkOK, RoleOrder

\* Permissions that are named: those there are, and those to be made
LEMMA NamedThere ==
    ASSUME AdminInv, NEW names \in SUBSET Names
    PROVE  /\ There(names) \in SUBSET (1..MaxRows) /\ There(names) \subseteq Live("permission")
           /\ Missing(names) \in SUBSET Names
PROOF BY DEF There, Missing, Live

LEMMA CreateRoleOrder ==
    ASSUME AdminInv, NEW n \in Names, NEW names \in SUBSET Names,
           ~Taken("role", NewRow(n, 0, {}))
    PROVE  Order(Permitting(Creation("role", NewRow(n, 0, {})), names))
PROOF
<1> PICK x : x = NewRow(n, 0, {}) OBVIOUS
<1> PICK there : there = There(names) OBVIOUS
<1> PICK m : m = Missing(names) OBVIOUS
<1>0. /\ "role" \in Tables /\ 0 \in 0..MaxRows /\ "role" \notin InDepartment
    BY AdminConstants DEF Tables, InDepartment
<1>1. /\ x \in RegisterRow /\ x.live /\ x.name = n /\ x.of = 0
      /\ there \in SUBSET (1..MaxRows) /\ m \in SUBSET Names
    <2>0. x = [Blank EXCEPT !.live = TRUE, !.name = n, !.of = 0, !.grants = {}]
        BY DEF NewRow
    <2>1. x \in RegisterRow /\ x.live /\ x.name = n /\ x.of = 0
        BY <1>0, <2>0, OrderKinds DEF RegisterRow
    <2>2. there \in SUBSET (1..MaxRows) /\ m \in SUBSET Names BY NamedThere
    <2> QED BY <2>1, <2>2
<1> PICK y : y = [x EXCEPT !.grants = there] OBVIOUS
<1>2. /\ y \in RegisterRow /\ y.live /\ y.name = n /\ y.of = 0 /\ y.grants = there
    BY <1>1 DEF RegisterRow
<1> PICK c : c = Creation("role", x) OBVIOUS
<1>3. /\ c \in Orders /\ c.op = "insert" /\ c.in = "role" /\ c.object = x /\ c.id = 0
      /\ ~c.decides
    BY <1>0, <1>1, OrderKinds DEF Creation, Orders, Ops
<1> PICK o : o = Permitting(c, names) OBVIOUS
<1>4. o = [c EXCEPT !.op = IF m = {} THEN c.op ELSE "permit", !.fresh = m,
                    !.named = there, !.object = y]
    BY <1>1, <1>3 DEF Permitting, Grants, Orders, RegisterRow
<1>5. /\ o \in Orders /\ o.op \in {"insert", "permit"} /\ o.in = "role" /\ o.object = y
      /\ o.id = 0 /\ ~o.decides /\ o.named = there
    BY <1>1, <1>2, <1>3, <1>4 DEF Orders, Ops
<1>6. RowOK("role", y) BY <1>2 DEF RowOK
<1>7. ~Taken("role", y) BY <1>1, <1>2 DEF Taken, Same
<1> QED BY <1>2, <1>5, <1>6, <1>7 DEF Order, ClerkOK, RoleOrder

LEMMA EditOrder ==
    ASSUME AdminInv, NEW t \in Tables, NEW i \in Live(t), NEW n \in Names \cup {None},
           NEW d \in 0..MaxRows, d # 0 => t \in InDepartment
    PROVE  /\ Order(Update(t, i, [table[t][i] EXCEPT !.name = Or(n, @),
                                                     !.of = IF d = 0 THEN @ ELSE d]))
           /\ Order([NoOrder EXCEPT !.op = "remove", !.in = t, !.id = i])
PROOF
<1> PICK r : r = table[t][i] OBVIOUS
<1> PICK x : x = [r EXCEPT !.name = Or(n, @), !.of = IF d = 0 THEN @ ELSE d] OBVIOUS
<1>1. r \in RegisterRow /\ r.live /\ RowOK(t, r) /\ i \in 1..MaxRows
    BY DEF AdminInv, AdminTypeOK, RowsKept, Live
<1>2. x \in RegisterRow /\ x.live /\ RowOK(t, x) /\ x.grants = r.grants
    BY <1>1 DEF RegisterRow, RowOK, Or
<1> PICK o : o = Update(t, i, x) OBVIOUS
<1> PICK q : q = [NoOrder EXCEPT !.op = "remove", !.in = t, !.id = i] OBVIOUS
<1>0. 1..MaxRows \subseteq 0..MaxRows BY AdminConstants
<1>3. /\ o \in Orders /\ o.op = "look" /\ o.in = t /\ o.id = i /\ o.object = x /\ ~o.decides
      /\ q \in Orders /\ q.op = "remove" /\ q.id = i /\ ~q.decides
    BY <1>0, <1>1, <1>2, OrderKinds DEF Update, Orders, Ops
<1>4. i # 0 BY <1>1, AdminConstants
<1>5. Order(o)
    <2>1. t = "role" => r = table["role"][i] OBVIOUS
    <2> QED BY <1>1, <1>2, <1>3, <1>4, <2>1 DEF Order, ClerkOK, RoleOrder
<1>6. Order(q) BY <1>1, <1>3 DEF Order, ClerkOK, RoleOrder
<1> QED BY <1>5, <1>6

LEMMA RegrantOrder ==
    ASSUME AdminInv, NEW i \in Live("role"), NEW n \in Names \cup {None},
           NEW names \in SUBSET Names
    PROVE  Order(Permitting([Update("role", i, [table["role"][i] EXCEPT !.name = Or(n, @)])
                                EXCEPT !.decides = TRUE], names))
PROOF
<1> PICK r : r = table["role"][i] OBVIOUS
<1> PICK x : x = [r EXCEPT !.name = Or(n, @)] OBVIOUS
<1> PICK there : there = There(names) OBVIOUS
<1> PICK m : m = Missing(names) OBVIOUS
<1>0. "role" \in Tables /\ 1..MaxRows \subseteq 0..MaxRows BY AdminConstants DEF Tables
<1>1. /\ r \in RegisterRow /\ r.live /\ RowOK("role", r) /\ i \in 1..MaxRows /\ i # 0
      /\ there \in SUBSET (1..MaxRows) /\ m \in SUBSET Names
    BY <1>0, NamedThere, AdminConstants DEF AdminInv, AdminTypeOK, RowsKept, Live
<1>2. x \in RegisterRow /\ x.live /\ RowOK("role", x)
    BY <1>1 DEF RegisterRow, RowOK, Or
<1> PICK y : y = [x EXCEPT !.grants = there] OBVIOUS
<1>3. y \in RegisterRow /\ y.live /\ RowOK("role", y) /\ y.grants = there
    BY <1>1, <1>2 DEF RegisterRow, RowOK
<1> PICK c : c = [Update("role", i, x) EXCEPT !.decides = TRUE] OBVIOUS
<1>4. /\ c \in Orders /\ c.op = "look" /\ c.in = "role" /\ c.id = i /\ c.object = x /\ c.decides
    BY <1>0, <1>1, <1>2, OrderKinds DEF Update, Orders, Ops
<1> PICK o : o = Permitting(c, names) OBVIOUS
<1>5. o = [c EXCEPT !.op = IF m = {} THEN c.op ELSE "permit", !.fresh = m,
                    !.named = there, !.object = y]
    BY <1>2, <1>4 DEF Permitting, Grants, Orders, RegisterRow
<1>6. /\ o \in Orders /\ o.op \in {"look", "permit"} /\ o.in = "role" /\ o.object = y
      /\ o.id = i /\ o.decides /\ o.named = there
    <2> PICK op : op = IF m = {} THEN c.op ELSE "permit" OBVIOUS
    <2>2. op \in {"look", "permit"} /\ op \in Ops BY <1>4 DEF Ops
    <2>3. o = [c EXCEPT !.op = op, !.fresh = m, !.named = there, !.object = y]
        BY <1>5
    <2>4. /\ o.op = op /\ o.fresh = m /\ o.named = there /\ o.object = y /\ o.in = c.in
          /\ o.id = c.id /\ o.decides = c.decides /\ o.was = c.was /\ o.crossed = c.crossed
        BY <1>4, <2>3 DEF Orders
    <2>5. /\ m \in SUBSET Names /\ there \in SUBSET (1..MaxRows) /\ y \in RegisterRow
        BY <1>1, <1>3
    <2>6. o \in Orders
        <3>1. c \in Orders /\ op \in Ops BY <1>4, <2>2
        <3> QED BY <2>3, <2>5, <3>1 DEF Orders
    <2> QED BY <1>4, <2>2, <2>4, <2>6
<1> QED BY <1>1, <1>3, <1>6 DEF Order, ClerkOK, RoleOrder

-----------------------------------------------------------------------------
(* How the tables, the handlers and the roles stand after a write *)

\* A handler that is marked, or not, is as it was otherwise
Alike(h, g) ==
    /\ g.op = h.op /\ g.in = h.in /\ g.id = h.id /\ g.object = h.object
    /\ g.was = h.was /\ g.decides = h.decides /\ g.named = h.named /\ g.fresh = h.fresh

LEMMA MarkedAlike ==
    ASSUME NEW h \in Orders, ClerkOK(h), NEW mark \in BOOLEAN, NEW g,
           g = [h EXCEPT !.crossed = @ \/ mark]
    PROVE  /\ g \in Orders /\ ClerkOK(g) /\ Alike(h, g)
           /\ g.crossed <=> h.crossed \/ mark
PROOF
<1> PICK bit \in BOOLEAN : bit = (h.crossed \/ mark) OBVIOUS
<1>1. g = [h EXCEPT !.crossed = bit] OBVIOUS
<1>2. g \in Orders /\ Alike(h, g) /\ g.crossed = bit BY <1>1 DEF Orders, Alike
<1>3. ClerkOK(g) BY <1>2 DEF ClerkOK, Alike
<1> QED BY <1>2, <1>3

\* The other handlers after a write, and after a removal
WriteMarks(h, t, id, x) == h.in = t /\ IF h.op = "insert" THEN Same(t, h.object, x)
                                                       ELSE h.id = id
RemovalMarks(g, h) ==
    \/ g.in = h.in /\ g.id = h.id
    \/ g.in = "role" /\ h.in = "permission" /\ h.id \in g.object.grants \cup g.was.grants

LEMMA WrittenMarks ==
    ASSUME AdminInv, NEW s \in Slots, NEW t, NEW id, NEW x, Written(s, t, id, x)
    PROVE  /\ orders' = orders /\ clerk' \in [Slots -> Orders] /\ clerk'[s] = NoOrder
           /\ \A c \in Slots \ {s} :
                /\ ClerkOK(clerk'[c]) /\ Alike(clerk[c], clerk'[c])
                /\ clerk'[c].crossed <=> clerk[c].crossed \/ WriteMarks(clerk[c], t, id, x)
PROOF
<1>0. \A c \in Slots : clerk[c] \in Orders /\ ClerkOK(clerk[c])
    BY DEF AdminInv, AdminTypeOK, RowsKept
<1> DEFINE new(c) == IF c = s THEN NoOrder
                    ELSE [clerk[c] EXCEPT !.crossed = @ \/ WriteMarks(clerk[c], t, id, x)]
<1>1. orders' = orders /\ clerk' = [c \in Slots |-> new(c)]
    BY DEF Written, Crosses, WriteMarks
<1>2. ASSUME NEW c \in Slots \ {s}
      PROVE  /\ new(c) \in Orders /\ ClerkOK(new(c)) /\ Alike(clerk[c], new(c))
             /\ new(c).crossed <=> clerk[c].crossed \/ WriteMarks(clerk[c], t, id, x)
    <2> PICK m \in BOOLEAN : m = WriteMarks(clerk[c], t, id, x)
        BY DEF WriteMarks
    <2>1. new(c) = [clerk[c] EXCEPT !.crossed = @ \/ m] OBVIOUS
    <2> HIDE DEF new
    <2> QED BY <1>0, <2>1, MarkedAlike
<1>3. new(s) = NoOrder OBVIOUS
<1> HIDE DEF new
<1> QED BY <1>1, <1>2, <1>3, OrderKinds

LEMMA RemovalMarked ==
    ASSUME AdminInv, NEW s \in Slots, RemoveRow(s), ~Referenced(clerk[s].in, clerk[s].id)
    PROVE  /\ orders' = orders /\ clerk' \in [Slots -> Orders] /\ clerk'[s] = NoOrder
           /\ \A c \in Slots \ {s} :
                /\ ClerkOK(clerk'[c]) /\ Alike(clerk[c], clerk'[c])
                /\ clerk'[c].crossed <=> clerk[c].crossed \/ RemovalMarks(clerk[c], clerk[s])
PROOF
<1>0. \A c \in Slots : clerk[c] \in Orders /\ ClerkOK(clerk[c])
    BY DEF AdminInv, AdminTypeOK, RowsKept
<1> DEFINE new(c) == IF c = s THEN NoOrder
                    ELSE [clerk[c] EXCEPT !.crossed = @ \/ RemovalMarks(clerk[c], clerk[s])]
<1>1. orders' = orders /\ clerk' = [c \in Slots |-> new(c)]
    BY DEF RemoveRow, Crosses, RemovalMarks
<1>2. ASSUME NEW c \in Slots \ {s}
      PROVE  /\ new(c) \in Orders /\ ClerkOK(new(c)) /\ Alike(clerk[c], new(c))
             /\ new(c).crossed <=> clerk[c].crossed \/ RemovalMarks(clerk[c], clerk[s])
    <2> PICK m \in BOOLEAN : m = RemovalMarks(clerk[c], clerk[s])
        BY DEF RemovalMarks
    <2>1. new(c) = [clerk[c] EXCEPT !.crossed = @ \/ m] OBVIOUS
    <2> HIDE DEF new
    <2> QED BY <1>0, <2>1, MarkedAlike
<1>3. new(s) = NoOrder OBVIOUS
<1> HIDE DEF new
<1> QED BY <1>1, <1>2, <1>3, OrderKinds

-----------------------------------------------------------------------------
(* A row that is written *)

\* Row x under id in table t, accepted by the indexes and the foreign keys: it
\* has a namesake only where no index covers both, and then it is excused.
Put(t, id, x) ==
    /\ table' = [table EXCEPT ![t][id] = x]
    /\ x \in RegisterRow /\ x.live /\ RowOK(t, x) /\ Valid(t, x)
    /\ excused \subseteq excused' /\ excused' \subseteq Tables \X Names
    /\ \A j \in Live(t) \ {id} : ~Indexed(t, table[t][j], x)
    /\ TakenBy(t, x, id) => <<t, x.name>> \in excused'

LEMMA PutRows ==
    ASSUME AdminInv, NEW t \in Tables, NEW id \in 1..MaxRows, NEW x, Put(t, id, x)
    PROVE  /\ table' \in [Tables -> [1..MaxRows -> RegisterRow]]
           /\ table'[t][id] = x
           /\ \A v \in Tables, j \in 1..MaxRows : v # t \/ j # id => table'[v][j] = table[v][j]
PROOF BY DEF Put, AdminInv, AdminTypeOK

LEMMA PutNamesakes ==
    ASSUME AdminInv, NEW t \in Tables, NEW id \in 1..MaxRows, NEW x, Put(t, id, x)
    PROVE  NamesakesAreExcused'
PROOF
<1>1. /\ table'[t][id] = x /\ x.live
      /\ \A v \in Tables, j \in 1..MaxRows : v # t \/ j # id => table'[v][j] = table[v][j]
    <2>1. x.live BY DEF Put
    <2> QED BY <2>1, PutRows
<1>2. \A v \in Tables : Live(v) \subseteq Live(v)' BY <1>1 DEF Live
<1>3. "department" \in Tables /\ "permission" \in Tables BY DEF Tables
<1> SUFFICES ASSUME NEW v \in Tables, NEW i \in Live(v)'
             PROVE  /\ \A j \in Live(v)' \ {i} : Same(v, table'[v][i], table'[v][j])
                           => /\ ~Indexed(v, table'[v][i], table'[v][j])
                              /\ <<v, table'[v][i].name>> \in excused'
                    /\ Valid(v, table[v][i])'
    BY DEF NamesakesAreExcused, Same, Indexed
<1>6. i \in 1..MaxRows /\ table'[v][i].live BY DEF Live
<1>4. Valid(v, table[v][i])'
    <2>1. Valid(v, table'[v][i])
        <3>1. CASE v = t /\ i = id BY <1>1, <3>1 DEF Put
        <3>2. CASE ~(v = t /\ i = id)
              BY <1>1, <1>6, <3>2 DEF AdminInv, NamesakesAreExcused, Live
        <3> QED BY <3>1, <3>2
    <2> QED BY <1>2, <1>3, <2>1 DEF Valid
<1>5. ASSUME NEW j \in Live(v)' \ {i}, Same(v, table'[v][i], table'[v][j])
      PROVE  /\ ~Indexed(v, table'[v][i], table'[v][j])
             /\ <<v, table'[v][i].name>> \in excused'
      <2>4. j \in 1..MaxRows /\ j # i /\ table'[v][j].live BY DEF Live
      <2>1. CASE v = t /\ i = id
            <3>1. j \in Live(t) \ {id} /\ table'[v][j] = table[t][j]
                  /\ Same(t, table[t][j], x)
                BY <1>1, <1>5, <2>1, <2>4, SameIsEqual DEF Live
            <3>2. ~Indexed(t, x, table[t][j])
                BY <3>1, SameIsEqual DEF Put
            <3>3. <<t, x.name>> \in excused' BY <3>1 DEF Put, TakenBy
            <3> QED BY <1>1, <2>1, <3>1, <3>2, <3>3
      <2>2. CASE v = t /\ j = id
            <3>1. i \in Live(t) \ {id} /\ Same(t, table[t][i], x) /\ table'[v][i] = table[t][i]
                BY <1>1, <1>5, <1>6, <2>2, <2>4 DEF Live
            <3>2. table'[v][i].name = x.name BY <1>1, <1>5, <2>2, SameIsEqual
            <3>3. ~Indexed(t, table[t][i], x) BY <3>1 DEF Put
            <3>4. <<t, x.name>> \in excused' BY <3>1 DEF Put, TakenBy
            <3> QED BY <1>1, <2>2, <3>1, <3>2, <3>3, <3>4
      <2>3. CASE v # t \/ (i # id /\ j # id)
            <3>1. /\ i \in Live(v) /\ j \in Live(v) \ {i}
                  /\ table'[v][i] = table[v][i] /\ table'[v][j] = table[v][j]
                  /\ Same(v, table[v][i], table[v][j])
                BY <1>1, <1>5, <1>6, <2>3, <2>4 DEF Live
            <3> QED BY <3>1 DEF AdminInv, NamesakesAreExcused, Put
      <2> QED BY <2>1, <2>2, <2>3
<1> QED BY <1>4, <1>5

\* What a role is last given when it is written: what it then grants, unless the
\* write is blurred
GivenRight(t, id, x) ==
    IF t # "role" THEN UNCHANGED <<granted, blurred>>
    ELSE /\ blurred' \subseteq 1..MaxRows
         /\ granted' \in [1..MaxRows -> SUBSET (1..MaxRows)]
         /\ \A i \in 1..MaxRows \ {id} :
                granted'[i] = granted[i] /\ (i \in blurred' <=> i \in blurred)
         /\ id \notin blurred' => x.grants = granted'[id]

\* What other creates have looked for: found none, or are marked; and what other
\* updates have loaded is the row, or they are marked
LEMMA PutKeeps ==
    ASSUME AdminInv, NEW t \in Tables, NEW id \in 1..MaxRows, NEW x, Put(t, id, x),
           NEW s \in Slots, Written(s, t, id, x), given' \in [Tables -> 0..MaxRows],
           GivenRight(t, id, x)
    PROVE  AdminInv'
PROOF
<1>1. /\ table' \in [Tables -> [1..MaxRows -> RegisterRow]]
      /\ table'[t][id] = x
      /\ \A v \in Tables, j \in 1..MaxRows : v # t \/ j # id => table'[v][j] = table[v][j]
    BY PutRows
<1>2. orders' = orders /\ clerk' \in [Slots -> Orders] /\ clerk'[s] = NoOrder
    BY WrittenMarks
<1>3. ASSUME NEW c \in Slots, c # s
      PROVE  /\ ClerkOK(clerk'[c]) /\ Alike(clerk[c], clerk'[c])
             /\ clerk'[c].crossed <=> clerk[c].crossed \/ WriteMarks(clerk[c], t, id, x)
    BY <1>3, WrittenMarks
<1>10. /\ granted \in [1..MaxRows -> SUBSET (1..MaxRows)] /\ blurred \subseteq 1..MaxRows
       /\ orders \in 0..MaxAdminCalls /\ "role" \in Tables
    BY DEF AdminInv, AdminTypeOK, Tables
<1>4. AdminTypeOK'
    <2>1. /\ granted' \in [1..MaxRows -> SUBSET (1..MaxRows)] /\ blurred' \subseteq 1..MaxRows
        BY <1>10 DEF GivenRight
    <2> QED BY <1>1, <1>2, <1>10, <2>1 DEF Put, AdminTypeOK
<1>5. RowsKept'
    <2>1. \A v \in Tables, j \in 1..MaxRows : RowOK(v, table'[v][j])
        BY <1>1 DEF Put, AdminInv, RowsKept
    <2>2. \A c \in Slots : ClerkOK(clerk'[c])
        BY <1>2, <1>3, OrderKinds
    <2> QED BY <2>1, <2>2 DEF RowsKept
<1>6. LookupsHold'
    <2> SUFFICES ASSUME NEW c \in Slots, clerk'[c].op = "insert", ~clerk'[c].crossed,
                        clerk'[c].in \notin UniqueNames,
                        Taken(clerk[c].in, clerk[c].object)'
                 PROVE  FALSE
        BY DEF LookupsHold
    <2> PICK h : h = clerk[c] OBVIOUS
    <2>1. c # s BY <1>2, OrderKinds
    <2>2. /\ h.op = "insert" /\ ~h.crossed /\ h.in \notin UniqueNames
          /\ ~(h.in = t /\ Same(t, h.object, x)) /\ h.in \in Tables
          /\ clerk'[c].in = h.in /\ clerk'[c].object = h.object
        BY <1>3, <2>1 DEF AdminInv, AdminTypeOK, Orders, Alike, WriteMarks
    <2>3. ~Taken(h.in, h.object) BY <2>2 DEF AdminInv, LookupsHold
    <2> PICK i \in 1..MaxRows : /\ table'[h.in][i].live
                                /\ Same(h.in, table'[h.in][i], h.object)
        BY <2>2 DEF Taken, Live
    <2>4. CASE h.in = t /\ i = id BY <1>1, <2>2, <2>4, SameIsEqual
    <2>5. CASE ~(h.in = t /\ i = id)
          BY <1>1, <2>2, <2>3, <2>5 DEF Taken, Live
    <2> QED BY <2>4, <2>5
<1>7. RolesKnown'
    <2> SUFFICES ASSUME NEW c \in Slots PROVE RoleOrder(clerk[c])' BY DEF RolesKnown
    <2>1. CASE c = s
          BY <1>2, <2>1, OrderKinds DEF RoleOrder
    <2>2. CASE c # s
          <3> PICK h : h = clerk[c] OBVIOUS
          <3> PICK g : g = clerk'[c] OBVIOUS
          <3>1. /\ g.op = h.op /\ g.in = h.in /\ g.id = h.id /\ g.object = h.object
                /\ g.was = h.was /\ g.decides = h.decides /\ g.named = h.named
                /\ g.crossed <=> h.crossed \/ WriteMarks(h, t, id, x)
              BY <1>3, <2>2 DEF Alike
          <3>2. RoleOrder(h) BY DEF AdminInv, RolesKnown
          <3> SUFFICES ASSUME g.in = "role"
                       PROVE  RoleOrder(clerk[c])'
              BY DEF RoleOrder
          <3>3. g.op \in {"permit", "insert"} \/ (g.op \in {"look", "write"} /\ g.decides)
                    => g.object.grants = g.named
              BY <3>1, <3>2 DEF RoleOrder
          <3>4. ASSUME g.op \in {"permit", "look", "write"}, g.id # 0, ~g.crossed
                PROVE  LET row == table'["role"][g.id] IN
                       /\ g.id \in 1..MaxRows /\ row.live
                       /\ ~g.decides => g.object.grants = row.grants
                       /\ g.op = "write" => g.was.grants = row.grants
              <4>1. ~h.crossed /\ ~WriteMarks(h, t, id, x) BY <3>1, <3>4
              <4>2. t # "role" \/ h.id # id BY <3>1, <3>4, <4>1 DEF WriteMarks
              <4>3. h.id \in 1..MaxRows BY <3>1, <3>2, <3>4, <4>1 DEF RoleOrder
              <4>4. table'["role"][h.id] = table["role"][h.id]
                  BY <1>1, <1>10, <4>2, <4>3
              <4> QED BY <3>1, <3>2, <3>4, <4>1, <4>4 DEF RoleOrder
          <3> QED BY <3>3, <3>4 DEF RoleOrder
    <2> QED BY <2>1, <2>2
<1>8. GrantsHold'
    <2> SUFFICES ASSUME NEW i \in 1..MaxRows, table'["role"][i].live, i \notin blurred'
                 PROVE  table'["role"][i].grants = granted'[i]
        BY DEF GrantsHold, Live
    <2>1. CASE t = "role" /\ i = id BY <1>1, <2>1 DEF GivenRight
    <2>2. CASE ~(t = "role" /\ i = id)
          <3>1. table'["role"][i] = table["role"][i] BY <1>1, <1>10, <2>2
          <3>2. granted'[i] = granted[i] /\ i \notin blurred BY <2>2 DEF GivenRight
          <3> QED BY <3>1, <3>2 DEF AdminInv, GrantsHold, Live
    <2> QED BY <2>1, <2>2
<1> QED BY <1>4, <1>5, <1>6, <1>7, <1>8, PutNamesakes DEF AdminInv

LEMMA RefuseKeeps ==
    ASSUME AdminInv, NEW s \in Slots, Refuse(s)
    PROVE  AdminInv'
PROOF
<1>1. /\ clerk' = [clerk EXCEPT ![s] = NoOrder] /\ orders' = orders
      /\ UNCHANGED <<table, given, excused, granted, blurred>>
    BY DEF Refuse, Finish, Goes
<1>2. AdminTypeOK' BY <1>1, OrderKinds DEF AdminInv, AdminTypeOK
<1>3. RowsKept' BY <1>1, OrderKinds DEF AdminInv, AdminTypeOK, RowsKept
<1>4. LookupsHold'
    BY <1>1, OrderKinds DEF AdminInv, AdminTypeOK, LookupsHold, Taken, Live
<1>5. NamesakesAreExcused' BY <1>1 DEF AdminInv, NamesakesAreExcused, Live, Valid
<1>6. RolesKnown'
    BY <1>1, OrderKinds DEF AdminInv, AdminTypeOK, RolesKnown, RoleOrder
<1>7. GrantsHold' BY <1>1 DEF AdminInv, GrantsHold, Live
<1> QED BY <1>2, <1>3, <1>4, <1>5, <1>6, <1>7 DEF AdminInv

LEMMA InsertKeeps ==
    ASSUME AdminInv, NEW s \in Slots, Insert(s)
    PROVE  AdminInv'
PROOF
<1> PICK h : h = clerk[s] OBVIOUS
<1> PICK t : t = h.in OBVIOUS
<1> PICK x : x = h.object OBVIOUS
<1> PICK id : id = given[t] + 1 OBVIOUS
<1>1. /\ h \in Orders /\ ClerkOK(h) /\ RoleOrder(h) /\ h.op = "insert" /\ t \in Tables
      /\ x \in RegisterRow /\ h.named \in SUBSET (1..MaxRows)
    BY DEF AdminInv, AdminTypeOK, RowsKept, RolesKnown, Orders, Insert
<1>2. CASE Accepted(t, x, 0)
      <2>1. id \in 1..MaxRows
          <3>1. given[t] \in Nat /\ id <= MaxRows
              BY <1>1, AdminConstants DEF Insert, AdminInv, AdminTypeOK
          <3> QED BY <3>1, AdminConstants
      <2>2. /\ table' = [table EXCEPT ![t][id] = x] /\ Written(s, t, id, x)
            /\ given' = [given EXCEPT ![t] = id]
            /\ excused' = IF h.crossed THEN excused \cup {<<t, x.name>>} ELSE excused
            /\ granted' = IF t = "role" THEN [granted EXCEPT ![id] = h.named] ELSE granted
            /\ blurred' = blurred
          BY <1>2 DEF Insert, Excuse
      <2>3. Valid(t, x) /\ \A j \in Live(t) : ~Indexed(t, table[t][j], x)
          <3>1. 0 \notin Live(t) BY DEF Live
          <3> QED BY <1>2, <3>1 DEF Accepted
      <2>4. x.live /\ RowOK(t, x) /\ x.name \in Names BY <1>1 DEF ClerkOK, RowOK
      <2>6. TakenBy(t, x, id) => h.crossed
          <3>1. TakenBy(t, x, id) => Taken(t, x) BY DEF TakenBy, Taken
          <3>2. Taken(t, x) => t \notin UniqueNames BY <2>3, SameIsEqual DEF Taken
          <3> QED BY <1>1, <3>1, <3>2 DEF AdminInv, LookupsHold
      <2>7. Put(t, id, x)
          BY <1>1, <2>2, <2>3, <2>4, <2>6 DEF Put, AdminInv, AdminTypeOK
      <2>8. given' \in [Tables -> 0..MaxRows]
          <3>1. id \in 0..MaxRows BY <2>1, AdminConstants
          <3> QED BY <2>2, <3>1 DEF AdminInv, AdminTypeOK
      <2>9. GivenRight(t, id, x)
          <3>1. CASE t # "role" BY <2>2, <3>1 DEF GivenRight
          <3>2. CASE t = "role"
                <4>1. x.grants = h.named BY <1>1, <3>2 DEF RoleOrder
                <4> QED BY <1>1, <2>1, <2>2, <3>2, <4>1 DEF GivenRight, AdminInv, AdminTypeOK
          <3> QED BY <3>1, <3>2
      <2> QED BY <1>1, <2>1, <2>2, <2>7, <2>8, <2>9, PutKeeps
<1>3. CASE ~Accepted(t, x, 0) BY <1>3, RefuseKeeps DEF Insert
<1> QED BY <1>2, <1>3

\* Columns of two rows, either way, are columns of a row
LEMMA ResultOK ==
    ASSUME NEW t, NEW row \in RegisterRow, NEW was \in RegisterRow, NEW want \in RegisterRow,
           RowOK(t, row), RowOK(t, want), want.live
    PROVE  LET x == Result(row, was, want) IN
           /\ x \in RegisterRow /\ x.live /\ RowOK(t, x)
           /\ row.live /\ was.grants = row.grants => x.grants = want.grants
PROOF
<1> PICK x : x = Result(row, was, want) OBVIOUS
<1>1. CASE ~row.live BY <1>1 DEF Result
<1>2. CASE row.live
      <2> DEFINE merged == Merge(row, was, want)
      <2> PICK gr : gr = (row.grants \ (was.grants \ want.grants))
                           \cup (want.grants \ was.grants)
          OBVIOUS
      <2>1. x = [merged EXCEPT !.grants = gr] BY <1>2 DEF Result
      <2>2. merged = [k \in DOMAIN row |-> IF want[k] # was[k] THEN want[k] ELSE row[k]]
          BY DEF Merge
      <2>3. DOMAIN row = {"live", "name", "of", "grants", "linked"} BY DEF RegisterRow
      <2>4. DOMAIN merged = DOMAIN row /\ \A k \in DOMAIN row : merged[k] \in {row[k], want[k]}
          BY <2>2
      <2>5. /\ DOMAIN x = DOMAIN row /\ x["grants"] = gr
            /\ \A k \in DOMAIN row : k # "grants" => x[k] = merged[k]
            /\ x = [k \in DOMAIN x |-> x[k]]
          BY <2>1, <2>2, <2>3
      <2> HIDE DEF merged
      <2>6. /\ x["live"] \in {row["live"], want["live"]} /\ x["name"] \in {row["name"], want["name"]}
            /\ x["of"] \in {row["of"], want["of"]}
            /\ x["linked"] \in {row["linked"], want["linked"]}
          BY <2>3, <2>4, <2>5
      <2>7. gr \in SUBSET (1..MaxRows) /\ (gr # {} => row.grants # {} \/ want.grants # {})
          BY DEF RegisterRow
      <2>8. x \in RegisterRow BY <2>3, <2>5, <2>6, <2>7 DEF RegisterRow
      <2>9. x.live BY <1>2, <2>6
      <2>10. RowOK(t, x) BY <1>2, <2>5, <2>6, <2>7 DEF RowOK
      <2>11. was.grants = row.grants => gr = want.grants
          <3> SUFFICES ASSUME was.grants = row.grants PROVE gr = want.grants OBVIOUS
          <3> PICK A, B : A = row.grants /\ B = want.grants OBVIOUS
          <3>1. gr = (A \ (A \ B)) \cup (B \ A) OBVIOUS
          <3> QED BY <3>1
      <2> QED BY <2>5, <2>8, <2>9, <2>10, <2>11
<1> QED BY <1>1, <1>2

LEMMA SaveRowKeeps ==
    ASSUME AdminInv, NEW s \in Slots, SaveRow(s)
    PROVE  AdminInv'
PROOF
<1> PICK h : h = clerk[s] OBVIOUS
<1> PICK t : t = h.in OBVIOUS
<1> PICK id : id = h.id OBVIOUS
<1>1. /\ h \in Orders /\ ClerkOK(h) /\ RoleOrder(h) /\ h.op = "write" /\ t \in Tables
      /\ h.object \in RegisterRow /\ h.was \in RegisterRow /\ id \in 1..MaxRows /\ id # 0
      /\ h.named \in SUBSET (1..MaxRows) /\ h.object.live /\ RowOK(t, h.object)
    BY DEF AdminInv, AdminTypeOK, RowsKept, RolesKnown, Orders, SaveRow, ClerkOK
<1> PICK row : row = table[t][id] OBVIOUS
<1>2. row \in RegisterRow /\ RowOK(t, row)
    BY <1>1 DEF AdminInv, AdminTypeOK, RowsKept
<1> PICK x : x = Result(row, h.was, h.object) OBVIOUS
<1>3. /\ x \in RegisterRow /\ x.live /\ RowOK(t, x)
      /\ row.live /\ h.was.grants = row.grants => x.grants = h.object.grants
    BY <1>1, <1>2, ResultOK
<1>4. CASE Refuse(s) BY <1>4, RefuseKeeps
<1>5. CASE ~Refuse(s)
      <2>1. /\ Accepted(t, x, id)
            /\ table' = [table EXCEPT ![t][id] = x] /\ Written(s, t, id, x)
            /\ excused' = IF TakenBy(t, x, id) THEN excused \cup {<<t, x.name>>} ELSE excused
            /\ granted' = IF h.decides THEN [granted EXCEPT ![id] = h.named] ELSE granted
            /\ t = "role" /\ h.crossed => blurred' = blurred \cup {id}
            /\ h.decides /\ ~h.crossed => blurred' = blurred \ {id}
            /\ ~(t = "role" /\ h.crossed) /\ (~h.decides \/ h.crossed) => blurred' = blurred
            /\ given' = given
          BY <1>5 DEF SaveRow, Excuse
      <2>2. Put(t, id, x)
          <3>1. x.name \in Names BY <1>3 DEF RowOK
          <3>2. excused \subseteq excused' /\ excused' \subseteq Tables \X Names
              <4>1. <<t, x.name>> \in Tables \X Names BY <1>1, <3>1
              <4>2. excused \subseteq Tables \X Names BY DEF AdminInv, AdminTypeOK
              <4>3. excused' \in {excused, excused \cup {<<t, x.name>>}} BY <2>1
              <4> QED BY <4>1, <4>2, <4>3
          <3>3. Valid(t, x) /\ \A j \in Live(t) \ {id} : ~Indexed(t, table[t][j], x)
              BY <2>1 DEF Accepted
          <3>4. TakenBy(t, x, id) => <<t, x.name>> \in excused' BY <2>1
          <3> QED BY <1>3, <2>1, <3>2, <3>3, <3>4 DEF Put
      <2>3. GivenRight(t, id, x)
          <3>0. /\ granted \in [1..MaxRows -> SUBSET (1..MaxRows)]
                /\ blurred \subseteq 1..MaxRows
              BY DEF AdminInv, AdminTypeOK
          <3>1. CASE t # "role"
                <4>1. ~h.decides BY <1>1, <3>1 DEF ClerkOK
                <4> QED BY <2>1, <3>1, <4>1 DEF GivenRight
          <3>2. CASE t = "role" /\ h.crossed
                BY <1>1, <2>1, <3>0, <3>2 DEF GivenRight
          <3>3. CASE t = "role" /\ ~h.crossed
                <4>1. /\ row.live /\ h.was.grants = row.grants
                      /\ h.decides => h.object.grants = h.named
                      /\ ~h.decides => h.object.grants = row.grants
                    BY <1>1, <3>3 DEF RoleOrder
                <4>2. x.grants = h.object.grants BY <1>3, <4>1
                <4>3. CASE h.decides
                      BY <1>1, <2>1, <3>0, <3>3, <4>1, <4>2, <4>3 DEF GivenRight
                <4>4. CASE ~h.decides
                      <5>1. id \notin blurred => row.grants = granted[id]
                          BY <1>1, <3>3, <4>1 DEF AdminInv, GrantsHold, Live
                      <5>2. granted' = granted /\ blurred' = blurred BY <2>1, <3>3, <4>4
                      <5> QED BY <3>0, <3>3, <4>1, <4>2, <4>4, <5>1, <5>2 DEF GivenRight
                <4> QED BY <4>3, <4>4
          <3> QED BY <3>1, <3>2, <3>3
      <2>4. given' \in [Tables -> 0..MaxRows] BY <2>1 DEF AdminInv, AdminTypeOK
      <2> QED BY <1>1, <2>1, <2>2, <2>3, <2>4, PutKeeps
<1> QED BY <1>4, <1>5

LEMMA LookKeeps ==
    ASSUME AdminInv, NEW s \in Slots, LookAtRow(s)
    PROVE  AdminInv'
PROOF
<1> PICK h : h = clerk[s] OBVIOUS
<1> PICK row : row = table[h.in][h.id] OBVIOUS
<1> PICK g : g = [h EXCEPT !.op = "write", !.was = row] OBVIOUS
<1>1. /\ h \in Orders /\ ClerkOK(h) /\ RoleOrder(h) /\ h.op = "look"
      /\ h.in \in Tables /\ h.id \in 1..MaxRows
    BY DEF AdminInv, AdminTypeOK, RowsKept, RolesKnown, Orders, LookAtRow, ClerkOK
<1>2. /\ clerk' = [clerk EXCEPT ![s] = g] /\ orders' = orders
      /\ UNCHANGED <<table, given, excused, granted, blurred>>
    BY DEF LookAtRow, Goes
<1>3. row \in RegisterRow BY <1>1 DEF AdminInv, AdminTypeOK
<1>4. /\ g \in Orders /\ g.op = "write" /\ g.in = h.in /\ g.id = h.id /\ g.object = h.object
      /\ g.was = row /\ g.decides = h.decides /\ g.named = h.named /\ g.crossed = h.crossed
    BY <1>1, <1>3 DEF Orders, Ops
<1>5. ClerkOK(g) /\ RoleOrder(g)
    <2>1. ClerkOK(g) BY <1>1, <1>4 DEF ClerkOK
    <2>2. h.in = "role" => row = table["role"][h.id] OBVIOUS
    <2>3. RoleOrder(g) BY <1>1, <1>4, <2>2 DEF RoleOrder
    <2> QED BY <2>1, <2>3
<1>6. AdminTypeOK' BY <1>2, <1>4 DEF AdminInv, AdminTypeOK
<1>7. RowsKept' BY <1>2, <1>5 DEF AdminInv, AdminTypeOK, RowsKept
<1>8. LookupsHold'
    BY <1>2, <1>4 DEF AdminInv, AdminTypeOK, LookupsHold, Taken, Live
<1>9. NamesakesAreExcused' BY <1>2 DEF AdminInv, NamesakesAreExcused, Live, Valid
<1>10. RolesKnown' BY <1>2, <1>5 DEF AdminInv, AdminTypeOK, RolesKnown, RoleOrder
<1>11. GrantsHold' BY <1>2 DEF AdminInv, GrantsHold, Live
<1> QED BY <1>6, <1>7, <1>8, <1>9, <1>10, <1>11 DEF AdminInv

-----------------------------------------------------------------------------
(* The permissions a role asks for; and what a removal takes along *)

LEMMA PermitKeeps ==
    ASSUME AdminInv, NEW s \in Slots, Permit(s)
    PROVE  AdminInv'
PROOF
<1> DEFINE P == "permission"
<1> PICK h : h = clerk[s] OBVIOUS
<1> PICK n : n = Cardinality(h.fresh) OBVIOUS
<1> PICK ids : ids = (given[P] + 1)..(given[P] + n) OBVIOUS
<1>1. /\ h \in Orders /\ ClerkOK(h) /\ RoleOrder(h) /\ h.op = "permit" /\ h.in = "role"
      /\ h.named \in SUBSET (1..MaxRows) /\ h.fresh \in SUBSET Names
      /\ h.object \in RegisterRow /\ h.object.live /\ RowOK("role", h.object)
      /\ ids \subseteq 1..MaxRows /\ h.object.grants = h.named
    BY DEF AdminInv, AdminTypeOK, RowsKept, RolesKnown, Orders, Permit, ClerkOK, RoleOrder
<1>2. CASE Refuse(s) BY <1>2, RefuseKeeps
<1>3. CASE ~Refuse(s)
    <2> PICK g : g = [h EXCEPT !.op = IF h.id = 0 THEN "insert" ELSE "look",
                               !.fresh = {}, !.named = @ \cup ids,
                               !.object.grants = @ \cup ids]
        OBVIOUS
    <2>1. PICK names \in [ids -> h.fresh] :
            /\ \A i, j \in ids : names[i] = names[j] => i = j
            /\ table' = [table EXCEPT ![P] = [i \in 1..MaxRows |->
                   IF i \in ids THEN NewRow(names[i], 0, {}) ELSE table[P][i]]]
        BY <1>3 DEF Permit
    <2>2. /\ \A i \in Live(P) : table[P][i].name \notin h.fresh
          /\ given' = [given EXCEPT ![P] = @ + n]
          /\ clerk' = [clerk EXCEPT ![s] = g] /\ orders' = orders
          /\ UNCHANGED <<excused, granted, blurred>>
        BY <1>3 DEF Permit, Goes
    <2>3. /\ table \in [Tables -> [1..MaxRows -> RegisterRow]] /\ clerk \in [Slots -> Orders]
          /\ P \in Tables /\ "role" \in Tables /\ "department" \in Tables
          /\ 0 \in 0..MaxRows
        BY AdminConstants DEF AdminInv, AdminTypeOK, Tables
    <2>4. \A i \in ids : LET new == NewRow(names[i], 0, {}) IN
             /\ new \in RegisterRow /\ new.live /\ new.name = names[i] /\ new.of = 0
             /\ new.grants = {} /\ names[i] \in h.fresh
        <3> TAKE i \in ids
        <3> PICK m : m = names[i] OBVIOUS
        <3>1. m \in Names /\ m \in h.fresh BY <1>1, <2>1
        <3>2. NewRow(m, 0, {}) = [Blank EXCEPT !.live = TRUE, !.name = m, !.of = 0, !.grants = {}]
            BY DEF NewRow
        <3> PICK new : new = NewRow(m, 0, {}) OBVIOUS
        <3>3. /\ new \in RegisterRow /\ new.live /\ new.name = m /\ new.of = 0
              /\ new.grants = {}
            BY <2>3, <3>1, <3>2, OrderKinds DEF RegisterRow
        <3> QED BY <3>1, <3>3
    <2>5. /\ \A v \in Tables \ {P} : table'[v] = table[v]
          /\ \A i \in ids : table'[P][i] = NewRow(names[i], 0, {})
          /\ \A i \in 1..MaxRows : i \notin ids => table'[P][i] = table[P][i]
        BY <1>1, <2>1, <2>3
    <2>6. table' \in [Tables -> [1..MaxRows -> RegisterRow]]
        <3> DEFINE row(i) == IF i \in ids THEN NewRow(names[i], 0, {}) ELSE table[P][i]
        <3>1. ASSUME NEW i \in 1..MaxRows PROVE row(i) \in RegisterRow
            <4>1. CASE i \in ids
                  <5>1. NewRow(names[i], 0, {}) \in RegisterRow BY <2>4, <4>1
                  <5> QED BY <4>1, <5>1
            <4>2. CASE i \notin ids
                  <5>1. table[P][i] \in RegisterRow BY <2>3
                  <5> QED BY <4>2, <5>1
            <4> QED BY <4>1, <4>2
        <3>2. table' = [table EXCEPT ![P] = [i \in 1..MaxRows |-> row(i)]] BY <2>1
        <3> HIDE DEF row
        <3> QED BY <2>3, <3>1, <3>2
    <2>7. /\ g \in Orders /\ g.op \in {"insert", "look"} /\ g.in = "role" /\ g.id = h.id
          /\ g.op = "insert" <=> h.id = 0
          /\ g.object.live /\ RowOK("role", g.object) /\ g.decides = h.decides
          /\ g.crossed = h.crossed /\ g.object.grants = g.named
        <3> PICK y : y = [h.object EXCEPT !.grants = @ \cup ids] OBVIOUS
        <3> PICK m : m = h.named \cup ids OBVIOUS
        <3> PICK op \in {"insert", "look"} : op = IF h.id = 0 THEN "insert" ELSE "look"
            OBVIOUS
        <3>1. g = [h EXCEPT !.op = op, !.fresh = {}, !.named = m, !.object = y]
            BY <1>1 DEF Orders
        <3>2. m \in SUBSET (1..MaxRows) BY <1>1
        <3>3. /\ y \in RegisterRow /\ y.live /\ RowOK("role", y) /\ y.grants = m
            BY <1>1, <3>2 DEF RegisterRow, RowOK
        <3>4. op \in Ops BY DEF Ops
        <3>5. {} \in SUBSET Names OBVIOUS
        <3>6. g \in Orders
            <4>1. h \in Orders BY <1>1
            <4> QED BY <3>1, <3>2, <3>3, <3>4, <3>5, <4>1 DEF Orders
        <3>7. /\ g.op = op /\ g.in = h.in /\ g.id = h.id /\ g.object = y /\ g.named = m
              /\ g.decides = h.decides /\ g.crossed = h.crossed
            BY <1>1, <3>1 DEF Orders
        <3> QED BY <1>1, <3>3, <3>6, <3>7
    <2>8. ClerkOK(g) /\ RoleOrder(g)
        <3>1. h.id # 0 => h.id \in 1..MaxRows /\ h.decides
            BY <1>1, AdminConstants DEF ClerkOK, Orders
        <3>2. ClerkOK(g) BY <2>7, <3>1 DEF ClerkOK
        <3>3. g.op = "look" => g.decides /\ g.id # 0 BY <2>7, <3>1
        <3>4. g.op \in {"permit", "look", "write"} /\ g.id # 0 /\ ~g.crossed =>
                 g.id \in 1..MaxRows /\ table["role"][g.id].live
            BY <1>1, <2>7 DEF RoleOrder
        <3>5. RoleOrder(g) BY <2>7, <3>3, <3>4 DEF RoleOrder
        <3> QED BY <3>2, <3>5
    <2> HIDE DEF P
    <2>9. P = "permission" BY DEF P
    <2>10. AdminTypeOK'
        <3>1. given' \in [Tables -> 0..MaxRows]
            <4>1. given[P] \in Nat /\ given[P] <= MaxRows
                BY <2>3, AdminConstants DEF AdminInv, AdminTypeOK
            <4>2. IsFiniteSet(h.fresh)
                BY <1>1, AdminConstants, FS_Subset
            <4>3. n \in Nat BY <4>2, FS_CardinalityType
            <4>4. given[P] + n \in 0..MaxRows
                <5>1. CASE n = 0 BY <4>1, <5>1, AdminConstants
                <5>2. CASE n # 0
                      <6>1. given[P] + n \in ids BY <2>9, <4>1, <4>3, <5>2
                      <6> QED BY <1>1, <6>1, AdminConstants
                <5> QED BY <5>1, <5>2
            <4> QED BY <2>2, <2>3, <2>9, <4>4 DEF AdminInv, AdminTypeOK
        <3> QED BY <2>2, <2>6, <2>7, <3>1 DEF AdminInv, AdminTypeOK
    <2>11. RowsKept'
        <3>1. \A v \in Tables, i \in 1..MaxRows : RowOK(v, table'[v][i])
            <4> TAKE v \in Tables, i \in 1..MaxRows
            <4>1. CASE v = P /\ i \in ids
                  <5> PICK new : new = NewRow(names[i], 0, {}) OBVIOUS
                  <5>1. table'[v][i] = new BY <2>5, <4>1
                  <5>2. new.name \in Names /\ new.of = 0 /\ new.grants = {}
                      BY <1>1, <2>4, <4>1
                  <5> QED BY <5>1, <5>2 DEF RowOK
            <4>2. CASE ~(v = P /\ i \in ids)
                  BY <2>5, <4>2 DEF AdminInv, RowsKept
            <4> QED BY <4>1, <4>2
        <3>2. \A c \in Slots : ClerkOK(clerk'[c])
            BY <2>2, <2>3, <2>8 DEF AdminInv, RowsKept
        <3> QED BY <3>1, <3>2 DEF RowsKept
    <2>12. LookupsHold'
        <3> SUFFICES ASSUME NEW c \in Slots, clerk'[c].op = "insert", ~clerk'[c].crossed,
                            clerk'[c].in \notin UniqueNames
                     PROVE  ~Taken(clerk[c].in, clerk[c].object)'
            BY DEF LookupsHold
        <3>1. c # s BY <2>2, <2>3, <2>7 DEF UniqueNames
        <3>2. clerk'[c] = clerk[c] BY <2>2, <2>3, <3>1
        <3>3. clerk[c].in \in Tables \ {P}
            <4>1. clerk[c] \in Orders BY <2>3
            <4> QED BY <2>9, <3>2, <4>1 DEF Orders, UniqueNames
        <3>4. ~Taken(clerk[c].in, clerk[c].object) BY <3>2 DEF AdminInv, LookupsHold
        <3> QED BY <2>5, <3>2, <3>3, <3>4 DEF Taken, Live
    <2>13. \A v \in Tables : Live(v) \subseteq Live(v)'
        <3>1. \A i \in ids : table'[P][i].live BY <2>4, <2>5
        <3> QED BY <2>5, <3>1 DEF Live
    <2>14. NamesakesAreExcused'
        <3> SUFFICES ASSUME NEW v \in Tables, NEW i \in Live(v)'
                     PROVE  /\ \A j \in Live(v)' \ {i} : Same(v, table'[v][i], table'[v][j])
                                   => /\ ~Indexed(v, table'[v][i], table'[v][j])
                                      /\ <<v, table'[v][i].name>> \in excused'
                            /\ Valid(v, table[v][i])'
            BY DEF NamesakesAreExcused, Same, Indexed
        <3>2. i \in 1..MaxRows /\ table'[v][i].live BY DEF Live
        <3>3. Valid(v, table[v][i])'
            <4>1. CASE v = P /\ i \in ids
                  <5> PICK new : new = NewRow(names[i], 0, {}) OBVIOUS
                  <5>1. table'[v][i] = new BY <2>5, <4>1
                  <5>2. new.of = 0 /\ new.grants = {} BY <2>4, <4>1
                  <5> QED BY <5>1, <5>2 DEF Valid
            <4>2. CASE ~(v = P /\ i \in ids)
                  <5>1. table'[v][i] = table[v][i] BY <2>5, <3>2, <4>2
                  <5>2. Valid(v, table[v][i])
                      BY <3>2, <5>1 DEF AdminInv, NamesakesAreExcused, Live
                  <5> QED BY <2>3, <2>9, <2>13, <5>1, <5>2 DEF Valid
            <4> QED BY <4>1, <4>2
        <3>4. ASSUME NEW j \in Live(v)' \ {i}, Same(v, table'[v][i], table'[v][j])
              PROVE  /\ ~Indexed(v, table'[v][i], table'[v][j])
                     /\ <<v, table'[v][i].name>> \in excused'
            <4>1. j \in 1..MaxRows /\ j # i /\ table'[v][j].live BY DEF Live
            <4>2. CASE v # P
                  <5>1. table'[v] = table[v] BY <2>5, <4>2
                  <5> QED BY <2>2, <3>2, <3>4, <4>1, <5>1
                          DEF AdminInv, NamesakesAreExcused, Live
            <4>3. CASE v = P
                  <5>1. table'[v][i].name = table'[v][j].name BY <3>4 DEF Same
                  <5>2. \A m \in ids : table'[P][m].name = names[m] /\ names[m] \in h.fresh
                      BY <2>4, <2>5
                  <5>3. CASE i \in ids /\ j \in ids
                        BY <2>1, <4>1, <4>3, <5>1, <5>2, <5>3
                  <5>4. CASE i \in ids /\ j \notin ids
                        <6>1. table'[P][j] = table[P][j] /\ j \in Live(P)
                            BY <2>5, <4>1, <4>3, <5>4 DEF Live
                        <6> QED BY <2>2, <4>3, <5>1, <5>2, <5>4, <6>1
                  <5>5. CASE i \notin ids /\ j \in ids
                        <6>1. table'[P][i] = table[P][i] /\ i \in Live(P)
                            BY <2>5, <3>2, <4>3, <5>5 DEF Live
                        <6> QED BY <2>2, <4>3, <5>1, <5>2, <5>5, <6>1
                  <5>6. CASE i \notin ids /\ j \notin ids
                        <6>1. /\ i \in Live(P) /\ j \in Live(P) \ {i}
                              /\ table'[P][i] = table[P][i] /\ table'[P][j] = table[P][j]
                            BY <2>5, <3>2, <4>1, <4>3, <5>6 DEF Live
                        <6> QED BY <2>2, <2>3, <3>4, <4>3, <6>1 DEF AdminInv, NamesakesAreExcused
                  <5> QED BY <5>3, <5>4, <5>5, <5>6
            <4> QED BY <4>2, <4>3
        <3> QED BY <3>3, <3>4
    <2>15. table'["role"] = table["role"] BY <2>3, <2>5, <2>9
    <2>16. RolesKnown'
        <3> SUFFICES ASSUME NEW c \in Slots PROVE RoleOrder(clerk[c])' BY DEF RolesKnown
        <3>1. clerk'[c] = IF c = s THEN g ELSE clerk[c] BY <2>2, <2>3
        <3>2. RoleOrder(clerk[c]) BY DEF AdminInv, RolesKnown
        <3>3. CASE c = s BY <2>8, <2>15, <3>1, <3>3 DEF RoleOrder
        <3>4. CASE c # s BY <2>15, <3>1, <3>2, <3>4 DEF RoleOrder
        <3> QED BY <3>3, <3>4
    <2>17. GrantsHold' BY <2>2, <2>15 DEF AdminInv, GrantsHold, Live
    <2> QED BY <2>10, <2>11, <2>12, <2>14, <2>16, <2>17 DEF AdminInv
<1> QED BY <1>2, <1>3

LEMMA RemoveRowKeeps ==
    ASSUME AdminInv, NEW s \in Slots, RemoveRow(s)
    PROVE  AdminInv'
PROOF
<1> PICK h : h = clerk[s] OBVIOUS
<1>1. h \in Orders /\ ClerkOK(h) /\ h.op = "remove" /\ h.in \in Tables /\ h.id \in 1..MaxRows
    BY DEF AdminInv, AdminTypeOK, RowsKept, Orders, RemoveRow, ClerkOK
<1>3. /\ table \in [Tables -> [1..MaxRows -> RegisterRow]]
      /\ granted \in [1..MaxRows -> SUBSET (1..MaxRows)] /\ "role" \in Tables
      /\ "department" \in Tables /\ "permission" \in Tables
    BY DEF AdminInv, AdminTypeOK, Tables
<1>4. CASE Referenced(h.in, h.id)
      BY <1>4, RefuseKeeps DEF RemoveRow
<1>5. CASE ~Referenced(h.in, h.id)
      <2> DEFINE gone(t, j) == GoesWith(t, j, h)
                 left(t, j) == Without(table[t][j], t, h)
      <2>0. /\ UNCHANGED <<given, excused, blurred>>
            /\ granted' = IF h.in = "permission"
                          THEN [i \in 1..MaxRows |-> granted[i] \ {h.id}] ELSE granted
          BY <1>5 DEF RemoveRow
      <2>1. \A t \in Tables, j \in 1..MaxRows :
               table'[t][j] = IF gone(t, j) THEN Blank ELSE left(t, j)
          <3>1. table' = [t \in Tables |-> [j \in 1..MaxRows |->
                             IF gone(t, j) THEN Blank ELSE left(t, j)]]
              BY <1>5 DEF RemoveRow
          <3> HIDE DEF gone, left
          <3> QED BY <3>1
      <2>2. ASSUME NEW t \in Tables, NEW j \in 1..MaxRows
            PROVE  LET r == table[t][j] IN
                   /\ left(t, j) \in RegisterRow
                   /\ left(t, j).live = r.live /\ left(t, j).name = r.name
                   /\ left(t, j).of = r.of /\ left(t, j).linked = r.linked
                   /\ left(t, j).grants = IF t = "role" /\ h.in = "permission"
                                          THEN r.grants \ {h.id} ELSE r.grants
          <3> PICK r : r = table[t][j] OBVIOUS
          <3>1. r \in RegisterRow BY <1>3
          <3> QED BY <3>1 DEF RegisterRow, Without
      <2> HIDE DEF left
      <2>3. table' \in [Tables -> [1..MaxRows -> RegisterRow]]
          <3> DEFINE row(t, j) == IF gone(t, j) THEN Blank ELSE left(t, j)
          <3>1. table' = [t \in Tables |-> [j \in 1..MaxRows |-> row(t, j)]]
              BY <1>5 DEF RemoveRow, left
          <3>2. \A t \in Tables, j \in 1..MaxRows : row(t, j) \in RegisterRow
              BY <2>2, OrderKinds
          <3> HIDE DEF row
          <3> QED BY <3>1, <3>2
      <2>4. \A t \in Tables, j \in 1..MaxRows :
               LET q == table'[t][j]  r == table[t][j] IN
               \/ q = Blank /\ gone(t, j)
               \/ /\ ~gone(t, j) /\ q.live = r.live /\ q.name = r.name /\ q.of = r.of
                  /\ q.linked = r.linked
                  /\ q.grants = IF t = "role" /\ h.in = "permission"
                                THEN r.grants \ {h.id} ELSE r.grants
          BY <2>1, <2>2
      <2> HIDE DEF gone
      <2>5. /\ orders' = orders /\ clerk' \in [Slots -> Orders] /\ clerk'[s] = NoOrder
            /\ \A c \in Slots \ {s} :
                 /\ ClerkOK(clerk'[c]) /\ Alike(clerk[c], clerk'[c])
                 /\ clerk'[c].crossed <=> clerk[c].crossed \/ RemovalMarks(clerk[c], h)
          BY <1>5, RemovalMarked
      <2>6. AdminTypeOK'
          <3>1. granted' \in [1..MaxRows -> SUBSET (1..MaxRows)] BY <1>3, <2>0
          <3> QED BY <2>0, <2>3, <2>5, <3>1 DEF AdminInv, AdminTypeOK
      <2>7. RowsKept'
          <3>1. \A t \in Tables, j \in 1..MaxRows : RowOK(t, table'[t][j])
              <4> TAKE t \in Tables, j \in 1..MaxRows
              <4>1. RowOK(t, table[t][j]) BY DEF AdminInv, RowsKept
              <4>2. CASE table'[t][j] = Blank BY <4>2, OrderKinds DEF RowOK
              <4>3. CASE table'[t][j] # Blank BY <2>4, <4>1, <4>3 DEF RowOK
              <4> QED BY <4>2, <4>3
          <3>2. \A c \in Slots : ClerkOK(clerk'[c])
              BY <2>5, OrderKinds
          <3> QED BY <3>1, <3>2 DEF RowsKept
      <2>8. \A t \in Tables : Live(t)' = {j \in Live(t) : ~gone(t, j)}
          BY <2>4, OrderKinds DEF Live
      <2>9. LookupsHold'
          <3> SUFFICES ASSUME NEW c \in Slots, clerk'[c].op = "insert", ~clerk'[c].crossed,
                              clerk'[c].in \notin UniqueNames
                       PROVE  ~Taken(clerk[c].in, clerk[c].object)'
              BY DEF LookupsHold
          <3>0. c # s BY <2>5, OrderKinds
          <3>1. /\ clerk[c] \in Orders /\ clerk'[c].in = clerk[c].in
                /\ clerk'[c].object = clerk[c].object /\ clerk[c].op = "insert"
                /\ ~clerk[c].crossed
              BY <2>5, <3>0 DEF AdminInv, AdminTypeOK, Alike
          <3>2. ~Taken(clerk[c].in, clerk[c].object) BY <3>1 DEF AdminInv, LookupsHold
          <3>3. clerk[c].in \in Tables BY <3>1 DEF Orders
          <3> PICK t \in Tables : t = clerk[c].in BY <3>3
          <3> SUFFICES ASSUME NEW i \in Live(t)', Same(t, table'[t][i], clerk[c].object)
                       PROVE  FALSE
              BY <3>1 DEF Taken
          <3>4. i \in Live(t) /\ table'[t][i].name = table[t][i].name
                /\ table'[t][i].of = table[t][i].of
              BY <2>4, <2>8 DEF Live
          <3>5. Same(t, table[t][i], clerk[c].object) BY <3>4 DEF Same
          <3> QED BY <3>2, <3>4, <3>5 DEF Taken
      <2>10. NamesakesAreExcused'
          <3> SUFFICES ASSUME NEW t \in Tables, NEW i \in Live(t)'
                       PROVE  /\ \A j \in Live(t)' \ {i} : Same(t, table'[t][i], table'[t][j])
                                     => /\ ~Indexed(t, table'[t][i], table'[t][j])
                                        /\ <<t, table'[t][i].name>> \in excused'
                              /\ Valid(t, table[t][i])'
              BY DEF NamesakesAreExcused, Same, Indexed
          <3>1. /\ i \in Live(t) /\ ~gone(t, i) /\ i \in 1..MaxRows
                /\ table'[t][i].name = table[t][i].name /\ table'[t][i].of = table[t][i].of
                /\ table'[t][i].linked = table[t][i].linked
              BY <2>4, <2>8 DEF Live
          <3>2. ASSUME NEW j \in Live(t)' \ {i}, Same(t, table'[t][i], table'[t][j])
                PROVE  /\ ~Indexed(t, table'[t][i], table'[t][j])
                       /\ <<t, table'[t][i].name>> \in excused'
              <4>1. /\ j \in Live(t) \ {i} /\ table'[t][j].name = table[t][j].name
                    /\ table'[t][j].of = table[t][j].of
                    /\ table'[t][j].linked = table[t][j].linked
                  BY <2>4, <2>8 DEF Live
              <4>2. Same(t, table[t][i], table[t][j]) BY <3>1, <3>2, <4>1 DEF Same
              <4>3. /\ ~Indexed(t, table[t][i], table[t][j])
                    /\ <<t, table[t][i].name>> \in excused
                  BY <3>1, <4>1, <4>2 DEF AdminInv, NamesakesAreExcused
              <4> QED BY <2>0, <3>1, <4>1, <4>3 DEF Indexed
          <3>3. Valid(t, table[t][i]) BY <3>1 DEF AdminInv, NamesakesAreExcused
          <3>4. RowOK(t, table[t][i]) BY <3>1 DEF AdminInv, RowsKept
          <3>6. table[t][i].of # 0 => table[t][i].of \in Live("department")'
              <4> SUFFICES ASSUME table[t][i].of # 0
                           PROVE  ~gone("department", table[t][i].of)
                  BY <1>3, <2>8, <3>3 DEF Valid
              <4>1. t \in InDepartment BY <3>4 DEF RowOK
              <4> SUFFICES ASSUME h.in = "department", table[t][i].of = h.id PROVE FALSE
                  BY DEF gone, GoesWith
              <4>2. CASE t = "title" BY <3>1, <4>2 DEF gone, GoesWith
              <4>3. CASE t = "head" BY <1>5, <3>1, <4>3 DEF Referenced
              <4> QED BY <4>1, <4>2, <4>3 DEF InDepartment
          <3>7. table'[t][i].grants \subseteq Live("permission")'
              <4>1. table[t][i].grants \subseteq Live("permission") BY <3>3 DEF Valid
              <4>2. table[t][i].grants # {} => t = "role" BY <3>4 DEF RowOK
              <4>3. table'[t][i].grants = IF t = "role" /\ h.in = "permission"
                        THEN table[t][i].grants \ {h.id} ELSE table[t][i].grants
                  BY <2>4, <3>1
              <4>4. \A g \in Live("permission") : g # h.id \/ h.in # "permission"
                                                => g \in Live("permission")'
                  BY <1>3, <2>8 DEF gone, GoesWith
              <4> QED BY <4>1, <4>2, <4>3, <4>4
          <3>8. Valid(t, table[t][i])' BY <3>1, <3>6, <3>7 DEF Valid
          <3> QED BY <3>2, <3>8
      <2>11. \A i \in 1..MaxRows :
                LET q == table'["role"][i]  r == table["role"][i] IN
                h.in # "role" \/ h.id # i =>
                    /\ q.live = r.live
                    /\ q.grants = IF h.in = "permission" THEN r.grants \ {h.id} ELSE r.grants
          <3> TAKE i \in 1..MaxRows
          <3>1. h.in # "role" \/ h.id # i => ~gone("role", i) BY DEF gone, GoesWith
          <3> QED BY <1>3, <2>4, <3>1
      <2>12. RolesKnown'
          <3> SUFFICES ASSUME NEW c \in Slots PROVE RoleOrder(clerk[c])' BY DEF RolesKnown
          <3>1. CASE c = s BY <2>5, <3>1, OrderKinds DEF RoleOrder
          <3>2. CASE c # s
                <4> PICK f : f = clerk[c] OBVIOUS
                <4> PICK g : g = clerk'[c] OBVIOUS
                <4>1. /\ g.op = f.op /\ g.in = f.in /\ g.id = f.id /\ g.object = f.object
                      /\ g.was = f.was /\ g.decides = f.decides /\ g.named = f.named
                      /\ g.crossed <=> f.crossed \/ RemovalMarks(f, h)
                    BY <2>5, <3>2 DEF Alike
                <4>2. RoleOrder(f) BY DEF AdminInv, RolesKnown
                <4> SUFFICES ASSUME g.in = "role" PROVE RoleOrder(clerk[c])' BY DEF RoleOrder
                <4>3. g.op \in {"permit", "insert"} \/ (g.op \in {"look", "write"} /\ g.decides)
                          => g.object.grants = g.named
                    BY <4>1, <4>2 DEF RoleOrder
                <4>4. ASSUME g.op \in {"permit", "look", "write"}, g.id # 0, ~g.crossed
                      PROVE  LET row == table'["role"][g.id] IN
                             /\ g.id \in 1..MaxRows /\ row.live
                             /\ ~g.decides => g.object.grants = row.grants
                             /\ g.op = "write" => g.was.grants = row.grants
                    <5>1. ~f.crossed /\ ~RemovalMarks(f, h) BY <4>1, <4>4
                    <5>2. f.in = "role" /\ (h.in # "role" \/ h.id # f.id)
                        BY <4>1, <5>1 DEF RemovalMarks
                    <5>3. h.in = "permission" => h.id \notin f.object.grants
                                                 /\ h.id \notin f.was.grants
                        BY <5>1, <5>2 DEF RemovalMarks
                    <5>4. /\ f.id \in 1..MaxRows /\ table["role"][f.id].live
                          /\ ~f.decides => f.object.grants = table["role"][f.id].grants
                          /\ f.op = "write" => f.was.grants = table["role"][f.id].grants
                        BY <4>1, <4>2, <4>4, <5>1 DEF RoleOrder
                    <5>5. /\ table'["role"][f.id].live
                          /\ table'["role"][f.id].grants =
                                IF h.in = "permission" THEN table["role"][f.id].grants \ {h.id}
                                ELSE table["role"][f.id].grants
                        BY <2>11, <5>2, <5>4
                    <5>6. ASSUME NEW A, A = table["role"][f.id].grants,
                                 h.in = "permission" => h.id \notin A
                          PROVE  A = table'["role"][f.id].grants
                        <6>1. CASE h.in = "permission"
                              <7>1. A \ {h.id} = A BY <5>6, <6>1
                              <7> QED BY <5>5, <5>6, <6>1, <7>1
                        <6>2. CASE h.in # "permission" BY <5>5, <5>6, <6>2
                        <6> QED BY <6>1, <6>2
                    <5>7. ~f.decides => f.object.grants = table'["role"][f.id].grants
                        BY <5>3, <5>4, <5>6
                    <5>8. f.op = "write" => f.was.grants = table'["role"][f.id].grants
                        BY <5>3, <5>4, <5>6
                    <5> QED BY <4>1, <5>4, <5>5, <5>7, <5>8
                <4> QED BY <4>3, <4>4 DEF RoleOrder
          <3> QED BY <3>1, <3>2
      <2>13. GrantsHold'
          <3> SUFFICES ASSUME NEW i \in 1..MaxRows, table'["role"][i].live, i \notin blurred
                       PROVE  table'["role"][i].grants = granted'[i]
              BY <2>0 DEF GrantsHold, Live
          <3>1. h.in # "role" \/ h.id # i
              <4>1. i \in Live("role")' BY DEF Live
              <4>2. ~gone("role", i) BY <1>3, <2>8, <4>1
              <4> QED BY <4>2 DEF gone, GoesWith
          <3>2. table["role"][i].live /\ table["role"][i].grants = granted[i]
              BY <2>11, <3>1 DEF AdminInv, GrantsHold, Live
          <3>3. granted'[i] = IF h.in = "permission" THEN granted[i] \ {h.id} ELSE granted[i]
              BY <2>0
          <3> QED BY <2>11, <3>1, <3>2, <3>3
      <2> QED BY <2>6, <2>7, <2>9, <2>10, <2>12, <2>13 DEF AdminInv
<1> QED BY <1>4, <1>5

-----------------------------------------------------------------------------
(* The first state, and the theorems *)

\* At first there is one row, a department, and nobody has asked for anything
LEMMA FirstRow ==
    AdminInit => \E first \in RegisterRow :
        /\ first.name \in Names /\ first.of = 0 /\ first.grants = {}
        /\ table \in [Tables -> [1..MaxRows -> RegisterRow]]
        /\ \A t \in Tables, i \in 1..MaxRows :
              table[t][i] = Blank \/ (table[t][i] = first /\ t = "department" /\ i = 1)
PROOF
<1>0. PICK n : n = CHOOSE m \in Names : TRUE OBVIOUS
<1>1. PICK first : first = [Blank EXCEPT !.live = TRUE, !.name = n, !.of = 0, !.grants = {}]
    OBVIOUS
<1>2. n \in Names /\ 0 \in 0..MaxRows BY <1>0, AdminConstants
<1>3. /\ first \in RegisterRow /\ first.name = n /\ first.of = 0 /\ first.grants = {}
    BY <1>1, <1>2, OrderKinds DEF RegisterRow
<1>4. first = FirstDepartment BY <1>0, <1>1 DEF FirstDepartment, NewRow
<1>5. Blank \in RegisterRow BY OrderKinds
<1>6. ASSUME AdminInit
      PROVE  /\ table \in [Tables -> [1..MaxRows -> RegisterRow]]
             /\ \A t \in Tables, i \in 1..MaxRows :
                  table[t][i] = Blank \/ (table[t][i] = first /\ t = "department" /\ i = 1)
    <2> DEFINE row(t, i) == IF t = "department" /\ i = 1 THEN first ELSE Blank
    <2>1. table = [t \in Tables |-> [i \in 1..MaxRows |-> row(t, i)]]
        BY <1>4, <1>6 DEF AdminInit
    <2>2. \A t \in Tables, i \in 1..MaxRows :
            /\ row(t, i) \in RegisterRow
            /\ row(t, i) = Blank \/ (row(t, i) = first /\ t = "department" /\ i = 1)
        BY <1>3, <1>5
    <2> HIDE DEF row
    <2>3. \A t \in Tables, i \in 1..MaxRows : table[t][i] = row(t, i) BY <2>1
    <2>4. table \in [Tables -> [1..MaxRows -> RegisterRow]] BY <2>1, <2>2
    <2> QED BY <2>2, <2>3, <2>4
<1> QED BY <1>2, <1>3, <1>6

LEMMA AdminInitInv == AdminInit => AdminInv
PROOF
<1>0. SUFFICES ASSUME AdminInit PROVE AdminInv OBVIOUS
<1>1. PICK first \in RegisterRow :
        /\ first.name \in Names /\ first.of = 0 /\ first.grants = {}
        /\ table \in [Tables -> [1..MaxRows -> RegisterRow]]
        /\ \A t \in Tables, i \in 1..MaxRows :
              table[t][i] = Blank \/ (table[t][i] = first /\ t = "department" /\ i = 1)
    BY <1>0, FirstRow
<1>2. /\ clerk = [s \in Slots |-> NoOrder] /\ excused = {} /\ orders = MaxAdminCalls
      /\ given = [t \in Tables |-> IF t = "department" THEN 1 ELSE 0]
      /\ granted = [i \in 1..MaxRows |-> {}] /\ blurred = {}
    BY <1>0 DEF AdminInit
<1>3. /\ NoOrder \in Orders /\ ClerkOK(NoOrder) /\ NoOrder.op = "idle"
      /\ RoleOrder(NoOrder)
    BY OrderKinds
<1>4. clerk \in [Slots -> Orders] /\ \A s \in Slots : clerk[s] = NoOrder
    BY <1>2, <1>3
<1>5. AdminTypeOK
    <2>1. orders \in 0..MaxAdminCalls BY <1>2, AdminConstants
    <2>2. given \in [Tables -> 0..MaxRows] BY <1>2, AdminConstants
    <2>3. granted \in [1..MaxRows -> SUBSET (1..MaxRows)] BY <1>2
    <2> QED BY <1>1, <1>2, <1>4, <2>1, <2>2, <2>3 DEF AdminTypeOK
<1>6. RowsKept
    <2>1. RowOK("department", first) BY <1>1 DEF RowOK
    <2>2. \A t \in Tables : RowOK(t, Blank) BY OrderKinds DEF RowOK
    <2>3. \A t \in Tables, i \in 1..MaxRows : RowOK(t, table[t][i])
        BY <1>1, <2>1, <2>2
    <2>4. \A s \in Slots : ClerkOK(clerk[s]) BY <1>3, <1>4
    <2> QED BY <2>3, <2>4 DEF RowsKept
<1>7. LookupsHold BY <1>3, <1>4 DEF LookupsHold
<1>8. ASSUME NEW t \in Tables, NEW i \in Live(t)
      PROVE  i = 1 /\ table[t][i] = first /\ t = "department"
    <2>1. i \in 1..MaxRows /\ table[t][i].live BY DEF Live
    <2>2. ~Blank.live BY OrderKinds
    <2> QED BY <1>1, <2>1, <2>2
<1>9. NamesakesAreExcused
    <2>2. ASSUME NEW t \in Tables, NEW i \in Live(t)
          PROVE  Live(t) \ {i} = {} /\ Valid(t, table[t][i])
        <3>1. Live(t) \ {i} = {} BY <1>8
        <3>2. table[t][i] = first BY <1>8
        <3>3. Valid(t, first) BY <1>1 DEF Valid
        <3> QED BY <3>1, <3>2, <3>3
    <2> QED BY <2>2 DEF NamesakesAreExcused
<1>10. RolesKnown BY <1>3, <1>4 DEF RolesKnown
<1>11. GrantsHold BY <1>8 DEF GrantsHold, Tables
<1> QED BY <1>5, <1>6, <1>7, <1>9, <1>10, <1>11 DEF AdminInv

LEMMA CreateKeeps ==
    ASSUME AdminInv, NEW s \in Slots, NEW n \in Names,
           \/ CreateDepartment(s, n) \/ CreatePermission(s, n)
           \/ CreateAdmin(s, n) \/ PromoteStaff(s, n)
           \/ \E d \in 1..MaxRows : CreateTitle(s, n, d) \/ CreateHead(s, n, d)
           \/ \E names \in SUBSET Names : CreateRole(s, n, names)
    PROVE  AdminInv'
PROOF
<1>1. Tables = {"department", "title", "head", "role", "permission", "admin"}
      /\ 0 \in 0..MaxRows /\ 1..MaxRows \subseteq 0..MaxRows
    BY AdminConstants DEF Tables
<1>2. ASSUME NEW t \in Tables \ {"role"}, NEW x \in RegisterRow, x.live, x.name \in Names,
             x.grants = {}, x.of # 0 => t \in InDepartment, AskCreate(s, t, x)
      PROVE  AdminInv'
    <2>1. Order(Creation(t, x)) BY <1>2, CreateOrder DEF AskCreate
    <2> QED BY <1>2, <2>1, AskKeeps DEF AskCreate
<1>3. CASE CreateDepartment(s, n) \/ CreatePermission(s, n) \/ CreateAdmin(s, n)
    <2> PICK x : x = NewRow(n, 0, {}) OBVIOUS
    <2>1. x \in RegisterRow /\ x.live /\ x.name = n /\ x.of = 0 /\ x.grants = {}
        <3>1. x = [Blank EXCEPT !.live = TRUE, !.name = n, !.of = 0, !.grants = {}]
            BY DEF NewRow
        <3> QED BY <1>1, <3>1, OrderKinds DEF RegisterRow
    <2>2. PICK t \in Tables \ {"role"} : AskCreate(s, t, x)
        BY <1>1, <1>3 DEF CreateDepartment, CreatePermission, CreateAdmin
    <2> QED BY <1>2, <2>1, <2>2
<1>4. CASE PromoteStaff(s, n)
    <2> PICK x : x = NewRow(n, 0, {}) OBVIOUS
    <2> PICK y : y = [x EXCEPT !.linked = TRUE] OBVIOUS
    <2>1. x \in RegisterRow /\ x.live /\ x.name = n /\ x.of = 0 /\ x.grants = {}
        <3>1. x = [Blank EXCEPT !.live = TRUE, !.name = n, !.of = 0, !.grants = {}]
            BY DEF NewRow
        <3> QED BY <1>1, <3>1, OrderKinds DEF RegisterRow
    <2>2. y \in RegisterRow /\ y.live /\ y.name = n /\ y.of = 0 /\ y.grants = {}
        BY <2>1 DEF RegisterRow
    <2>3. AskCreate(s, "admin", y) BY <1>4 DEF PromoteStaff
    <2> QED BY <1>1, <1>2, <2>2, <2>3
<1>5. ASSUME NEW d \in 1..MaxRows, CreateTitle(s, n, d) \/ CreateHead(s, n, d)
      PROVE  AdminInv'
    <2> PICK x : x = NewRow(n, d, {}) OBVIOUS
    <2>1. x \in RegisterRow /\ x.live /\ x.name = n /\ x.of = d /\ x.grants = {}
        <3>1. x = [Blank EXCEPT !.live = TRUE, !.name = n, !.of = d, !.grants = {}]
            BY DEF NewRow
        <3> QED BY <1>1, <3>1, OrderKinds DEF RegisterRow
    <2>2. PICK t \in {"title", "head"} : AskCreate(s, t, x)
        BY <1>5 DEF CreateTitle, CreateHead
    <2> QED BY <1>1, <1>2, <2>1, <2>2 DEF InDepartment
<1>6. ASSUME NEW names \in SUBSET Names, CreateRole(s, n, names)
      PROVE  AdminInv'
    <2>1. Order(Permitting(Creation("role", NewRow(n, 0, {})), names))
        BY <1>6, CreateRoleOrder DEF CreateRole
    <2> QED BY <1>6, <2>1, AskKeeps DEF CreateRole
<1> QED BY <1>3, <1>4, <1>5, <1>6

LEMMA EditKeeps ==
    ASSUME AdminInv, NEW s \in Slots,
           \/ \E n \in Names \cup {None}, i \in 1..MaxRows :
                \/ \E t \in Tables, d \in 0..MaxRows : AskUpdate(s, t, i, n, d)
                \/ \E names \in SUBSET Names : AskRegrant(s, i, n, names)
           \/ \E t \in Tables, i \in 1..MaxRows : AskRemove(s, t, i)
    PROVE  AdminInv'
PROOF
<1>0. 0 \in 0..MaxRows BY AdminConstants
<1>1. ASSUME NEW n \in Names \cup {None}, NEW i \in 1..MaxRows, NEW t \in Tables,
             NEW d \in 0..MaxRows, AskUpdate(s, t, i, n, d)
      PROVE  AdminInv'
    <2>1. Order(Update(t, i, [table[t][i] EXCEPT !.name = Or(n, @),
                                                 !.of = IF d = 0 THEN @ ELSE d]))
        BY <1>1, EditOrder DEF AskUpdate
    <2> QED BY <1>1, <2>1, AskKeeps DEF AskUpdate
<1>2. ASSUME NEW n \in Names \cup {None}, NEW i \in 1..MaxRows, NEW names \in SUBSET Names,
             AskRegrant(s, i, n, names)
      PROVE  AdminInv'
    <2>1. Order(Permitting([Update("role", i, [table["role"][i] EXCEPT !.name = Or(n, @)])
                               EXCEPT !.decides = TRUE], names))
        BY <1>2, RegrantOrder DEF AskRegrant
    <2> QED BY <1>2, <2>1, AskKeeps DEF AskRegrant
<1>3. ASSUME NEW t \in Tables, NEW i \in 1..MaxRows, AskRemove(s, t, i)
      PROVE  AdminInv'
    <2>1. Order([NoOrder EXCEPT !.op = "remove", !.in = t, !.id = i])
        BY <1>0, <1>3, EditOrder DEF AskRemove
    <2> QED BY <1>3, <2>1, AskKeeps DEF AskRemove
<1> QED BY <1>1, <1>2, <1>3

LEMMA AdminNextInv == AdminInv /\ [AdminNext]_adminVars => AdminInv'
PROOF
<1> SUFFICES ASSUME AdminInv, [AdminNext]_adminVars PROVE AdminInv' OBVIOUS
<1>1. CASE UNCHANGED adminVars
      BY <1>1 DEF adminVars, AdminInv, AdminTypeOK, RowsKept, LookupsHold, NamesakesAreExcused,
                  Live, Valid, Taken, RolesKnown, RoleOrder, GrantsHold
<1>2. CASE AdminNext
      BY <1>2, CreateKeeps, EditKeeps, PermitKeeps, InsertKeeps, LookKeeps, SaveRowKeeps,
         RemoveRowKeeps DEF AdminNext
<1> QED BY <1>1, <1>2

LEMMA AdminAlways == AdminSpec => []AdminInv
PROOF BY AdminInitInv, AdminNextInv, PTL DEF AdminSpec

\* For any number of administrators at once, whoever created them: two rows of one
\* name come only from creates that crossed or from an update, and never where an
\* index covers both; no row outlives the department or the permission it points to.
THEOREM NamesakesExcused == AdminSpec => []NamesakesAreExcused
PROOF
<1>1. AdminInv => NamesakesAreExcused BY DEF AdminInv
<1> QED BY <1>1, AdminAlways, PTL

\* However creates, updates with and without permissions and removals interleave:
\* who holds a role gets in where the role was last given a permission that is
\* there, and nowhere else, unless a save of the role as it was loaded before
\* another write has blurred it.
THEOREM RevokedStaysShut == AdminSpec => []RevokedOpensNothing
PROOF
<1>1. ASSUME AdminInv, NEW held \in SUBSET (Live("role") \ blurred), NEW p \in Names
      PROVE  GuardLetsIn(held, {}, {p}) <=>
                \E i \in held : \E g \in granted[i] \cap Live("permission") :
                    table["permission"][g].name = p
    <2>0. \A i \in held : i \in Live("role") /\ i \notin blurred OBVIOUS
    <2>1. \A i \in held : table["role"][i].grants = granted[i]
        BY <1>1, <2>0 DEF AdminInv, GrantsHold
    <2>2. ASSUME NEW i \in held PROVE table["role"][i].grants \subseteq Live("permission")
        <3>1. Valid("role", table["role"][i])
            BY <1>1, <2>0 DEF AdminInv, NamesakesAreExcused, Tables
        <3> QED BY <3>1 DEF Valid
    <2> QED BY <2>1, <2>2 DEF GuardLetsIn
<1>2. AdminInv => RevokedOpensNothing BY <1>1 DEF RevokedOpensNothing
<1> QED BY <1>2, AdminAlways, PTL

-----------------------------------------------------------------------------
(* The dates of the directory.  A day that is no leap day is in every year,  *)
(* so the constructor of dates carries nothing over, and this year's date or *)
(* the next one's is the first from today on.                                *)

LEMMA DateParts ==
    ASSUME NEW x \in Dates
    PROVE  \E y \in Years, m \in 1..12, d \in 1..(MonthDays + 1) :
              x = <<y, m, d>> /\ d <= DaysIn(y, m) /\ y \in Nat
PROOF
<1>1. PICK y \in Years, m \in 1..12, d \in 1..(MonthDays + 1) : x = <<y, m, d>> BY DEF Dates
<1>2. d <= DaysIn(y, m) BY <1>1 DEF Dates
<1>3. y \in Nat BY DirectoryConstants
<1> QED BY <1>1, <1>2, <1>3

LEMMA EveryYear ==
    ASSUME NEW x \in Dates, ~LeapBorn(x), NEW y \in Nat
    PROVE  JsDate(y, x[2], x[3]) = <<y, x[2], x[3]>>
PROOF
<1>1. PICK z \in Years, m \in 1..12, d \in 1..(MonthDays + 1) :
          x = <<z, m, d>> /\ d <= DaysIn(z, m)
    BY DateParts
<1>2. x[2] = m /\ x[3] = d BY <1>1
<1>3. MonthDays \in Nat BY DirectoryConstants
<1>4. d <= MonthDays BY <1>1, <1>2, <1>3 DEF DaysIn, LeapBorn
<1>5. d <= DaysIn(y, m) BY <1>3, <1>4 DEF DaysIn
<1> QED BY <1>2, <1>3, <1>5 DEF JsDate, DaysIn

LEMMA OccurrencesHold ==
    ASSUME date \in Dates, today \in Dates
    PROVE  OccurrencesAgree
PROOF
<1> SUFFICES ASSUME ~LeapBorn(date)
             PROVE  LET next == NextOccurrence(date, today)
                        last == LastOccurrence(date, today) IN
                    /\ Celebrates(date, next) /\ ~Earlier(next, today)
                    /\ \A x \in Dates : Celebrates(date, x) /\ ~Earlier(x, today)
                                        => ~Earlier(x, next)
                    /\ Celebrates(date, last) /\ ~Earlier(today, last)
                    /\ \A x \in Dates : Celebrates(date, x) /\ ~Earlier(today, x)
                                        => ~Earlier(last, x)
    BY DEF OccurrencesAgree
<1>1. PICK y \in Years, m \in 1..12, d \in 1..(MonthDays + 1) : date = <<y, m, d>>
    BY DateParts
<1>2. PICK ty \in Years, tm \in 1..12, td \in 1..(MonthDays + 1) :
          today = <<ty, tm, td>> /\ ty \in Nat
    BY DateParts
<1>3. ty >= 1 /\ ty - 1 \in Nat /\ ty + 1 \in Nat /\ MonthDays \in Nat
    BY <1>2, DirectoryConstants
<1>4. \A z \in {ty - 1, ty, ty + 1} : JsDate(z, m, d) = <<z, m, d>>
    BY <1>1, <1>2, <1>3, EveryYear
<1>5. \A x \in Dates : Celebrates(date, x) => \E z \in Nat : x = <<z, m, d>>
    <2> SUFFICES ASSUME NEW x \in Dates, Celebrates(date, x) PROVE \E z \in Nat : x = <<z, m, d>>
        OBVIOUS
    <2>1. PICK z \in Years, m1 \in 1..12, d1 \in 1..(MonthDays + 1) :
              x = <<z, m1, d1>> /\ z \in Nat
        BY DateParts
    <2>2. m1 = m /\ d1 = d BY <1>1, <2>1 DEF Celebrates, SameDayOfYear
    <2> QED BY <2>1, <2>2
<1>6. NextOccurrence(date, today) = IF m < tm \/ (m = tm /\ d < td) THEN <<ty + 1, m, d>>
                                                                   ELSE <<ty, m, d>>
    BY <1>1, <1>2, <1>4 DEF NextOccurrence, EarlierInYear, SetFullYear
<1>7. LastOccurrence(date, today) = IF tm < m \/ (tm = m /\ td < d) THEN <<ty - 1, m, d>>
                                                                   ELSE <<ty, m, d>>
    BY <1>1, <1>2, <1>4 DEF LastOccurrence, EarlierInYear, SetFullYear
<1>8. \A z \in Nat, w \in Nat : Earlier(<<z, m, d>>, <<w, m, d>>) <=> z < w
    BY DEF Earlier, EarlierInYear
<1>9. \A z \in Nat : /\ Earlier(<<z, m, d>>, today)
                          <=> z < ty \/ (z = ty /\ (m < tm \/ (m = tm /\ d < td)))
                     /\ Earlier(today, <<z, m, d>>)
                          <=> ty < z \/ (ty = z /\ (tm < m \/ (tm = m /\ td < d)))
    BY <1>2 DEF Earlier, EarlierInYear
<1>10. \A z : Celebrates(date, <<z, m, d>>) BY <1>1 DEF Celebrates, SameDayOfYear
<1>11. PICK next, last : next = NextOccurrence(date, today) /\ last = LastOccurrence(date, today)
    OBVIOUS
<1>12. \E n \in Nat : /\ next = <<n, m, d>> /\ ~Earlier(next, today)
                      /\ \A z \in Nat : ~Earlier(<<z, m, d>>, today) => ~(z < n)
    <2>1. CASE m < tm \/ (m = tm /\ d < td)
          <3>1. next = <<ty + 1, m, d>> BY <1>6, <1>11, <2>1
          <3>2. ~Earlier(next, today) BY <1>2, <1>3, <1>9, <3>1
          <3>3. \A z \in Nat : ~Earlier(<<z, m, d>>, today) => ~(z < ty + 1)
              BY <1>2, <1>9, <2>1
          <3> QED BY <1>3, <3>1, <3>2, <3>3
    <2>2. CASE ~(m < tm \/ (m = tm /\ d < td))
          <3>1. next = <<ty, m, d>> BY <1>6, <1>11, <2>2
          <3>2. ~Earlier(next, today) BY <1>2, <1>9, <2>2, <3>1
          <3>3. \A z \in Nat : ~Earlier(<<z, m, d>>, today) => ~(z < ty) BY <1>2, <1>9
          <3> QED BY <1>2, <3>1, <3>2, <3>3
    <2> QED BY <2>1, <2>2
<1>13. \E n \in Nat : /\ last = <<n, m, d>> /\ ~Earlier(today, last)
                      /\ \A z \in Nat : ~Earlier(today, <<z, m, d>>) => ~(n < z)
    <2>1. CASE tm < m \/ (tm = m /\ td < d)
          <3>1. last = <<ty - 1, m, d>> BY <1>7, <1>11, <2>1
          <3>2. ~Earlier(today, last) BY <1>2, <1>3, <1>9, <3>1
          <3>3. \A z \in Nat : ~Earlier(today, <<z, m, d>>) => ~(ty - 1 < z)
              BY <1>2, <1>9, <2>1
          <3> QED BY <1>3, <3>1, <3>2, <3>3
    <2>2. CASE ~(tm < m \/ (tm = m /\ td < d))
          <3>1. last = <<ty, m, d>> BY <1>7, <1>11, <2>2
          <3>2. ~Earlier(today, last) BY <1>2, <1>9, <2>2, <3>1
          <3>3. \A z \in Nat : ~Earlier(today, <<z, m, d>>) => ~(ty < z) BY <1>2, <1>9
          <3> QED BY <1>2, <3>1, <3>2, <3>3
    <2> QED BY <2>1, <2>2
<1>14. /\ Celebrates(date, next) /\ ~Earlier(next, today)
       /\ \A x \in Dates : Celebrates(date, x) /\ ~Earlier(x, today) => ~Earlier(x, next)
    BY <1>5, <1>8, <1>10, <1>12
<1>15. /\ Celebrates(date, last) /\ ~Earlier(today, last)
       /\ \A x \in Dates : Celebrates(date, x) /\ ~Earlier(today, x) => ~Earlier(last, x)
    BY <1>5, <1>8, <1>10, <1>13
<1> QED BY <1>11, <1>14, <1>15

\* The last day of the years, and the first
LEMMA LastDayIs == LastDay \in Dates
PROOF
<1>1. PICK n \in Nat \ {0} : Years = 1..n BY DirectoryConstants
<1>2. MonthDays \in Nat \ {0} BY DirectoryConstants
<1>3. DaysIn(n, 12) = MonthDays BY <1>2 DEF DaysIn, LeapMonth
<1>4. PICK x : x = <<n, 12, MonthDays>> OBVIOUS
<1>5. x \in Dates BY <1>1, <1>2, <1>3, <1>4 DEF Dates
<1>6. Tomorrow(x) = <<n + 1, 1, 1>> BY <1>2, <1>3, <1>4 DEF Tomorrow
<1>7. Tomorrow(x) \notin Dates BY <1>1, <1>6 DEF Dates
<1> QED BY <1>5, <1>7 DEF LastDay

LEMMA FirstDayIs == DateAt(0) \in Dates
PROOF
<1>1. PICK n \in Nat \ {0} : Years = 1..n BY DirectoryConstants
<1>2. MonthDays \in Nat \ {0} /\ LeapYears \subseteq Nat BY <1>1, DirectoryConstants
<1>3. PICK x : x = <<1, 1, 1>> OBVIOUS
<1>4. DaysIn(1, 1) = MonthDays BY <1>2 DEF DaysIn, LeapMonth
<1>5. x \in Dates BY <1>1, <1>2, <1>3, <1>4 DEF Dates
<1>6. {y \in LeapYears : y < 1} = {}
    <2>1. \A y \in LeapYears : y \in 1..n BY <1>1, DirectoryConstants
    <2>2. \A y \in 1..n : ~(y < 1) OBVIOUS
    <2> QED BY <2>1, <2>2
<1>7. Cardinality({y \in LeapYears : y < 1}) = 0 BY <1>6, FS_EmptySet
<1>8. DayNumber(x) = 0 BY <1>2, <1>3, <1>7 DEF DayNumber, LeapMonth
<1>9. (CHOOSE v \in Dates : DayNumber(v) = 0) \in Dates BY <1>5, <1>8
<1> QED BY <1>9, LastDayIs DEF DateAt

LEMMA DatesAlways == DirectorySpec => []DirectoryTypeOK
PROOF
<1>1. DirectoryInit => DirectoryTypeOK
    BY FirstDayIs, LastDayIs, DirectoryConstants DEF DirectoryInit, DirectoryTypeOK, Idler
<1>2. DirectoryTypeOK /\ [DirectoryNext]_directoryVars => DirectoryTypeOK'
    BY DEF DirectoryTypeOK, DirectoryNext, NextDay, directoryVars
<1> QED BY <1>1, <1>2, PTL DEF DirectorySpec

\* For every calendar: the date that the list of upcoming birthdays and
\* anniversaries shows is the first from today on, and the date of the recent
\* list the last until today, on which the list of the day has the person.
THEOREM OccurrencesRight == DirectorySpec => []OccurrencesAgree
PROOF
<1>1. DirectoryTypeOK => OccurrencesAgree BY OccurrencesHold DEF DirectoryTypeOK
<1> QED BY <1>1, DatesAlways, PTL

-----------------------------------------------------------------------------
(* The activity log: rows are of the past, so a login has its greatest id,   *)
(* and a session is no longer than the time since                            *)

LogInv == /\ LogTypeOK /\ SessionsAgree
          /\ \A i \in DOMAIN entries : entries[i].at <= hour

LEMMA LogActivityKeeps ==
    ASSUME LogInv, NEW u \in Staff, NEW action \in Actions, LogActivity(u, action)
    PROVE  LogInv'
PROOF
<1> PICK log, n, now : log = entries /\ n = Len(entries) /\ now = hour OBVIOUS
<1>1. /\ log \in Seq(Entry) /\ n \in Nat /\ n = Len(log) /\ n + 1 <= MaxEntries
      /\ DOMAIN log = 1..n /\ now \in 0..LastHour /\ hour' = now
      /\ {MaxEntries, LastHour} \subseteq Nat
    BY LogConstants DEF LogInv, LogTypeOK, LogActivity
<1>2. PICK e : /\ e = [who |-> u, action |-> action, status |-> Outcome(action), at |-> now,
                       session |-> IF action \in Ends /\ Logins(u) # {}
                                   THEN now - log[LastLogin(u)].at ELSE None]
               /\ entries' = Append(log, e)
    BY DEF LogActivity
<1>3. /\ e.who = u /\ e.action = action /\ e.status = Outcome(action) /\ e.at = now
      /\ e.session = IF action \in Ends /\ Logins(u) # {}
                     THEN now - log[LastLogin(u)].at ELSE None
    BY <1>2
<1>4. Outcome(action) \in {"Success", "Failed", "Expired"} BY DEF Outcome
<1>5. \/ e.session = None
      \/ \E j \in 1..n : /\ log[j].who = u /\ log[j].action = "Staff Logged In"
                         /\ log[j].at + e.session = now /\ e.session \in 0..LastHour
    <2> SUFFICES ASSUME action \in Ends, Logins(u) # {}
                 PROVE  \E j \in 1..n :
                            /\ log[j].who = u /\ log[j].action = "Staff Logged In"
                            /\ log[j].at + e.session = now /\ e.session \in 0..LastHour
        BY <1>3
    <2>1. PICK T : T = Logins(u) /\ T \subseteq 1..n BY <1>1 DEF Logins
    <2>2. \E i \in T : \A j \in T : j <= i BY <1>1, <2>1, GreatestNumber
    <2>3. LastLogin(u) \in T BY <2>1, <2>2 DEF LastLogin
    <2>4. PICK j : j = LastLogin(u) OBVIOUS
    <2>5. j \in 1..n /\ log[j].who = u /\ log[j].action = "Staff Logged In"
        BY <1>1, <2>1, <2>3, <2>4 DEF Logins
    <2>6. log[j] \in Entry
        <3>1. \A q \in Seq(Entry) : \A k \in 1..Len(q) : q[k] \in Entry OBVIOUS
        <3> QED BY <1>1, <2>5, <3>1
    <2>7. log[j].at \in 0..LastHour BY <2>6 DEF Entry
    <2>8. log[j].at <= now BY <1>1, <2>5 DEF LogInv
    <2>9. e.session = now - log[j].at BY <1>3, <2>4
    <2>10. /\ now - log[j].at \in 0..LastHour
           /\ log[j].at + (now - log[j].at) = now
        BY <1>1, <2>7, <2>8
    <2> QED BY <2>5, <2>9, <2>10
<1>6. e \in Entry
    <2>1. e.session \in 0..LastHour \cup {None} BY <1>5
    <2>2. PICK ended : ended = e.session OBVIOUS
    <2>3. e = [who |-> u, action |-> action, status |-> Outcome(action), at |-> now,
               session |-> ended]
        BY <1>2, <1>3, <2>2
    <2> QED BY <1>1, <1>4, <2>1, <2>2, <2>3 DEF Entry
<1>7. PICK new : new = entries' OBVIOUS
<1>8. /\ new \in Seq(Entry) /\ Len(new) = n + 1 /\ DOMAIN new = 1..(n + 1)
      /\ \A i \in 1..n : new[i] = log[i]
      /\ new[n + 1] = e
    BY <1>1, <1>2, <1>6, <1>7
<1>9. LogTypeOK' BY <1>1, <1>7, <1>8 DEF LogTypeOK
<1>10. \A i \in 1..(n + 1) : i \in 1..n \/ i = n + 1 BY <1>1
<1>11. ASSUME NEW i \in 1..(n + 1) PROVE new[i].at <= now
    <2>1. CASE i \in 1..n BY <1>1, <1>8, <2>1 DEF LogInv
    <2>2. CASE i = n + 1 BY <1>1, <1>3, <1>8, <2>2
    <2> QED BY <1>10, <2>1, <2>2
<1>12. ASSUME NEW i \in 1..(n + 1), new[i].session # None
       PROVE  \E j \in 1..(i - 1) : /\ new[j].who = new[i].who
                                    /\ new[j].action = "Staff Logged In"
                                    /\ new[j].at + new[i].session = new[i].at
    <2>1. CASE i \in 1..n
          <3>1. \E j \in 1..(i - 1) : /\ log[j].who = log[i].who
                                      /\ log[j].action = "Staff Logged In"
                                      /\ log[j].at + log[i].session = log[i].at
              BY <1>1, <1>8, <1>12, <2>1 DEF LogInv, SessionsAgree
          <3>2. \A j \in 1..(i - 1) : j \in 1..n BY <1>1, <2>1
          <3> QED BY <1>8, <2>1, <3>1, <3>2
    <2>2. CASE i = n + 1
          <3>1. i - 1 = n BY <1>1, <2>2
          <3> QED BY <1>3, <1>5, <1>8, <1>12, <2>2, <3>1
    <2> QED BY <1>10, <2>1, <2>2
<1>13. SessionsAgree' BY <1>7, <1>8, <1>12 DEF SessionsAgree
<1> QED BY <1>1, <1>7, <1>8, <1>9, <1>11, <1>13 DEF LogInv

LEMMA LogAlways == LogSpec => []LogInv
PROOF
<1>1. LogInit => LogInv
    BY LogConstants DEF LogInit, LogInv, LogTypeOK, SessionsAgree
<1>2. LogInv /\ [LogNext]_logVars => LogInv'
    <2> SUFFICES ASSUME LogInv, [LogNext]_logVars PROVE LogInv' OBVIOUS
    <2>1. CASE UNCHANGED logVars
          BY <2>1 DEF logVars, LogInv, LogTypeOK, SessionsAgree
    <2>2. CASE Hour
          <3>1. \A i \in DOMAIN entries : entries[i].at \in Nat
              <4>1. \A i \in DOMAIN entries : entries[i] \in Entry BY DEF LogInv, LogTypeOK
              <4> QED BY <4>1, LogConstants DEF Entry
          <3>2. hour' = hour + 1 /\ hour \in Nat /\ hour' \in 0..LastHour /\ entries' = entries
              BY <2>2, LogConstants DEF Hour, LogInv, LogTypeOK
          <3>3. \A i \in DOMAIN entries : entries[i].at <= hour + 1
              BY <3>1, <3>2 DEF LogInv
          <3> QED BY <3>2, <3>3 DEF LogInv, LogTypeOK, SessionsAgree
    <2> QED BY <2>1, <2>2, LogActivityKeeps DEF LogNext
<1> QED BY <1>1, <1>2, PTL DEF LogSpec

\* For any number of rows: a session that ended names an earlier login of the
\* same person, and lasted as long as the rows are apart.
THEOREM SessionsRight == LogSpec => []SessionsAgree
PROOF
<1>1. LogInv => SessionsAgree BY DEF LogInv
<1> QED BY <1>1, LogAlways, PTL

-----------------------------------------------------------------------------
(* The counts of the log: an entry is in one day of one week, of one person, *)
(* and one of three kinds, so that the sizes of the parts sum to the whole   *)

\* The first hour of the k-th day of week q, and the number of that day
DayStart(D, W, q, k) == D * W * q + k * D
DayOf(W, q, k) == W * q + k
WeekOf(n, D, W) == n \div (D * W)
DayNumberOf(n, D) == n \div D

\* The k-th day of week q is day W * q + k
LEMMA DayOfHour ==
    ASSUME NEW D \in Nat \ {0}, NEW W \in Nat \ {0}, NEW q \in Nat, NEW k \in Nat
    PROVE  /\ DayStart(D, W, q, k) \in Nat
           /\ DayNumberOf(DayStart(D, W, q, k), D) = DayOf(W, q, k)
PROOF
<1>1. W * q + k \in Nat /\ k * D \in Nat /\ D * W * q \in Nat OBVIOUS
<1>2. D * W * q + k * D = D * (W * q + k) OBVIOUS
<1>3. \A y \in Nat : (D * y) \div D = y OBVIOUS
<1>4. (D * W * q + k * D) \div D = W * q + k BY <1>1, <1>2, <1>3
<1>5. D * W * q + k * D \in Nat BY <1>1
<1> QED BY <1>4, <1>5, Zenon DEF DayStart, DayOf, DayNumberOf

LEMMA OneDay ==
    ASSUME NEW W \in Nat, NEW q \in Nat, NEW k \in Nat, NEW l \in Nat,
           DayOf(W, q, k) = DayOf(W, q, l)
    PROVE  k = l
PROOF
<1>1. PICK y : y = W * q OBVIOUS
<1>2. y \in Nat BY <1>1
<1> QED BY <1>1, <1>2 DEF DayOf

\* Hour n is in week q exactly if its day is one of that week's
LEMMA DaysOfWeeks ==
    ASSUME NEW D \in Nat \ {0}, NEW W \in Nat \ {0}, NEW q \in Nat, NEW n \in Nat
    PROVE  WeekOf(n, D, W) = q
               <=> \E k \in 0..(W - 1) : DayNumberOf(n, D) = DayOf(W, q, k)
PROOF
<1>1. PICK x : x = n \div D OBVIOUS
<1>2. x \in Nat /\ D * x <= n /\ n < D * x + D BY <1>1
<1>3. D * W \in Nat \ {0} OBVIOUS
<1>4. PICK m : m = D * W OBVIOUS
<1>5. n \div m = q <=> m * q <= n /\ n < m * q + m BY <1>3, <1>4
<1>6. m * q = D * (W * q) /\ m * q + m = D * (W * q + W) BY <1>4
<1>7. \A y \in Nat : D * y <= n <=> y <= x
    <2> SUFFICES ASSUME NEW y \in Nat PROVE D * y <= n <=> y <= x OBVIOUS
    <2>1. CASE y <= x
          <3>1. D * y <= D * x BY <1>2, <2>1
          <3> QED BY <1>2, <2>1, <3>1
    <2>2. CASE x + 1 <= y
          <3>1. D * (x + 1) <= D * y BY <1>2, <2>2
          <3>2. D * (x + 1) = D * x + D BY <1>2
          <3> QED BY <1>2, <2>2, <3>1, <3>2
    <2> QED BY <1>2, <2>1, <2>2
<1>8. W * q \in Nat /\ W * q + W \in Nat OBVIOUS
<1>9. m * q <= n <=> W * q <= x BY <1>6, <1>7, <1>8
<1>10. n < m * q + m <=> x < W * q + W
    <2>1. D * (W * q + W) <= n <=> W * q + W <= x BY <1>7, <1>8
    <2>2. m * q + m \in Nat BY <1>3, <1>4
    <2> QED BY <1>2, <1>6, <1>8, <2>1, <2>2
<1>11. W * q <= x /\ x < W * q + W <=> \E k \in 0..(W - 1) : x = W * q + k
    <2>1. PICK y : y = W * q OBVIOUS
    <2>2. y \in Nat BY <1>8, <2>1
    <2>3. ASSUME y <= x, x < y + W PROVE \E k \in 0..(W - 1) : x = y + k
        <3>1. x - y \in 0..(W - 1) /\ x = y + (x - y) BY <1>2, <2>2, <2>3
        <3> QED BY <3>1
    <2>4. ASSUME NEW k \in 0..(W - 1), x = y + k PROVE y <= x /\ x < y + W
        BY <1>2, <2>2, <2>4
    <2> QED BY <2>1, <2>3, <2>4
<1>12. n \div (D * W) = q <=> \E k \in 0..(W - 1) : n \div D = W * q + k
    BY <1>1, <1>2, <1>4, <1>5, <1>9, <1>10, <1>11
<1> QED BY <1>12, Zenon DEF WeekOf, DayOf, DayNumberOf

Session(i) == entries[i].action # "Staff Update Profile"
SessionRows(unit, now) == {i \in DOMAIN entries : Within(i, unit, now) /\ Session(i)}

\* Every action about sessions is counted as one of three
LEMMA CountedOnce ==
    ASSUME LogInv, NEW unit, NEW now
    PROVE  /\ IsFiniteSet(SessionRows(unit, now))
           /\ LET r == LoginStats(unit, now) IN
              r.totalLogins + r.failedAttempts + r.totalLogouts
                  = Cardinality(SessionRows(unit, now))
PROOF
<1> DEFINE these(A) == {i \in DOMAIN entries : Within(i, unit, now) /\ entries[i].action \in A}
<1>1. PICK A, B, C : /\ A = these({"Staff Logged In"}) /\ B = these({"Login attempt failed"})
                     /\ C = these(Ends)
    OBVIOUS
<1>2. LET r == LoginStats(unit, now) IN
      r.totalLogins + r.failedAttempts + r.totalLogouts
          = Cardinality(A) + Cardinality(B) + Cardinality(C)
    BY <1>1 DEF LoginStats
<1>3. \A i \in DOMAIN entries : entries[i].action \in Actions
    <2>1. \A i \in DOMAIN entries : entries[i] \in Entry BY DEF LogInv, LogTypeOK
    <2> QED BY <2>1 DEF Entry
<1>4. SessionRows(unit, now) = (A \cup B) \cup C
    BY <1>1, <1>3 DEF SessionRows, Session, Ends, Actions
<1>5. A \cap B = {} /\ (A \cup B) \cap C = {} BY <1>1 DEF Ends
<1>6. IsFiniteSet(DOMAIN entries)
    <2>1. DOMAIN entries = 1..Len(entries) /\ Len(entries) \in Nat BY DEF LogInv, LogTypeOK
    <2> QED BY <2>1, FS_Interval
<1>7. IsFiniteSet(A) /\ IsFiniteSet(B) /\ IsFiniteSet(C) /\ IsFiniteSet(A \cup B)
    <2>1. /\ A \subseteq DOMAIN entries /\ B \subseteq DOMAIN entries
          /\ C \subseteq DOMAIN entries /\ A \cup B \subseteq DOMAIN entries
        BY <1>1
    <2> QED BY <1>6, <2>1, FS_Subset
<1>8. /\ IsFiniteSet((A \cup B) \cup C)
      /\ Cardinality((A \cup B) \cup C) = Cardinality(A \cup B) + Cardinality(C)
                                            - Cardinality((A \cup B) \cap C)
    BY <1>7, FS_Union
<1>9. Cardinality(A \cup B) = Cardinality(A) + Cardinality(B) - Cardinality(A \cap B)
    BY <1>7, FS_Union
<1>10. /\ Cardinality(A \cap B) = 0 /\ Cardinality((A \cup B) \cap C) = 0
       /\ Cardinality(A) \in Nat /\ Cardinality(B) \in Nat /\ Cardinality(C) \in Nat
    BY <1>5, <1>7, FS_EmptySet, FS_CardinalityType
<1>11. Cardinality((A \cup B) \cup C) = Cardinality(A) + Cardinality(B) + Cardinality(C)
    BY <1>8, <1>9, <1>10
<1> QED BY <1>2, <1>4, <1>8, <1>11

\* A week counts what its days do, everybody what each one does
LEMMA CountsHold == LogInv => CountsAgree
PROOF
<1> SUFFICES ASSUME LogInv PROVE CountsAgree OBVIOUS
<1> PICK D, W, q : D = DayHours /\ W = WeekDays /\ q = hour \div (D * W) OBVIOUS
<1>1. /\ D \in Nat \ {0} /\ W \in Nat \ {0} /\ q \in Nat
      /\ \A i \in DOMAIN entries : entries[i].at \in Nat /\ entries[i].who \in Staff
    <2>1. \A i \in DOMAIN entries : entries[i] \in Entry BY DEF LogInv, LogTypeOK
    <2>2. \A i \in DOMAIN entries : entries[i].at \in Nat /\ entries[i].who \in Staff
        BY <2>1, LogConstants DEF Entry
    <2>3. D \in Nat \ {0} /\ W \in Nat \ {0} /\ hour \in Nat
        BY LogConstants DEF LogInv, LogTypeOK
    <2>4. D * W \in Nat \ {0} BY <2>3
    <2>5. PICK m : m = D * W OBVIOUS
    <2>6. hour \div m \in Nat BY <2>3, <2>4, <2>5
    <2> QED BY <2>2, <2>3, <2>5, <2>6
<1> DEFINE days == {DayStart(D, W, q, d) : d \in 0..(W - 1)}
           perUnit(unit, now) == LET r == LoginStats(unit, now) IN
                                 r.totalLogins + r.failedAttempts + r.totalLogouts
<1>2. /\ \A k \in 0..(W - 1) : /\ k \in Nat /\ DayStart(D, W, q, k) \in Nat
                               /\ DayNumberOf(DayStart(D, W, q, k), D) = DayOf(W, q, k)
      /\ \A n \in Nat :
             WeekOf(n, D, W) = q <=> \E k \in 0..(W - 1) : DayNumberOf(n, D) = DayOf(W, q, k)
      /\ \A k, l \in 0..(W - 1) : DayOf(W, q, k) = DayOf(W, q, l) => k = l
    <2>1. \A k \in 0..(W - 1) : k \in Nat BY <1>1
    <2>2. ASSUME NEW k \in Nat
          PROVE  /\ DayStart(D, W, q, k) \in Nat
                 /\ DayNumberOf(DayStart(D, W, q, k), D) = DayOf(W, q, k)
        <3>1. DayStart(D, W, q, k) \in Nat BY <1>1, DayOfHour
        <3>2. DayNumberOf(DayStart(D, W, q, k), D) = DayOf(W, q, k) BY <1>1, DayOfHour
        <3> QED BY <3>1, <3>2
    <2>3. \A n \in Nat :
              WeekOf(n, D, W) = q <=> \E k \in 0..(W - 1) : DayNumberOf(n, D) = DayOf(W, q, k)
        BY <1>1, DaysOfWeeks
    <2>4. \A k, l \in Nat : DayOf(W, q, k) = DayOf(W, q, l) => k = l BY <1>1, OneDay
    <2> QED BY <2>1, <2>2, <2>3, <2>4
<1>3. \A d \in days : d \in Nat /\ \E k \in 0..(W - 1) : /\ d = DayStart(D, W, q, k)
                                                          /\ DayNumberOf(d, D) = DayOf(W, q, k)
    BY <1>2
<1>4. \A i \in DOMAIN entries : Within(i, "week", hour) <=>
          \E k \in 0..(W - 1) : DayNumberOf(entries[i].at, D) = DayOf(W, q, k)
    <2>1. UnitHours("week") = D * W /\ WeekOf(hour, D, W) = q BY DEF UnitHours, WeekOf
    <2>2. \A i \in DOMAIN entries : Within(i, "week", hour) <=> WeekOf(entries[i].at, D, W) = q
        BY <2>1, Zenon DEF Within, WeekOf
    <2> QED BY <1>1, <1>2, <2>2
<1>5. \A i \in DOMAIN entries, d \in days :
          Within(i, "day", d) <=> DayNumberOf(entries[i].at, D) = DayNumberOf(d, D)
    BY DEF Within, UnitHours, DayNumberOf
<1>6. \A i \in DOMAIN entries : Within(i, "week", hour) <=> \E d \in days : Within(i, "day", d)
    <2>1. ASSUME NEW i \in DOMAIN entries, Within(i, "week", hour)
          PROVE  \E d \in days : Within(i, "day", d)
        <3>1. PICK k \in 0..(W - 1) : DayNumberOf(entries[i].at, D) = DayOf(W, q, k) BY <1>4, <2>1
        <3>2. PICK d : d = DayStart(D, W, q, k) OBVIOUS
        <3>3. d \in days /\ DayNumberOf(d, D) = DayOf(W, q, k) BY <1>2, <3>2
        <3> HIDE DEF days
        <3> QED BY <1>5, <3>1, <3>3
    <2>2. ASSUME NEW i \in DOMAIN entries, NEW d \in days, Within(i, "day", d)
          PROVE  Within(i, "week", hour)
        <3> HIDE DEF days
        <3> QED BY <1>3, <1>4, <1>5, <2>2
    <2> QED BY <2>1, <2>2
<1>7. \A d, e \in days : DayNumberOf(d, D) = DayNumberOf(e, D) => d = e
    <2> SUFFICES ASSUME NEW d \in days, NEW e \in days, DayNumberOf(d, D) = DayNumberOf(e, D)
                 PROVE  d = e
        OBVIOUS
    <2> HIDE DEF days
    <2> QED BY <1>2, <1>3
<1>8. IsFiniteSet(DOMAIN entries)
    <2>1. DOMAIN entries = 1..Len(entries) /\ Len(entries) \in Nat BY DEF LogInv, LogTypeOK
    <2> QED BY <2>1, FS_Interval
<1>9. perUnit("week", hour) = MapThenSumSet(LAMBDA d : perUnit("day", d), days)
    <2> DEFINE P == [d \in days |-> SessionRows("day", d)]
               g == [d \in days |-> perUnit("day", d)]
    <2>1. UNION {P[d] : d \in days} = SessionRows("week", hour)
        <3> HIDE DEF days
        <3> QED BY <1>6 DEF SessionRows
    <2>2. \A d, e \in days : d # e => P[d] \cap P[e] = {}
        <3>1. \A d, e \in days, i \in DOMAIN entries :
                  Within(i, "day", d) /\ Within(i, "day", e) => d = e
            <4> HIDE DEF days
            <4> QED BY <1>5, <1>7
        <3> HIDE DEF days
        <3> QED BY <3>1 DEF SessionRows
    <2>3. \A d \in days : g[d] = Cardinality(P[d])
        <3> HIDE DEF days
        <3> QED BY CountedOnce
    <2>4. IsFiniteSet(days)
        <3>1. W - 1 \in Int BY <1>1
        <3>2. IsFiniteSet(0..(W - 1)) BY <3>1, FS_Interval
        <3> DEFINE f == [k \in 0..(W - 1) |-> DayStart(D, W, q, k)]
        <3>3. f \in Surjection(0..(W - 1), days) BY DEF Surjection
        <3> QED BY <3>2, <3>3, FS_Surjection
    <2>5. \A d \in days : IsFiniteSet(P[d])
        <3>1. \A d \in days : P[d] \subseteq DOMAIN entries BY DEF SessionRows
        <3> HIDE DEF P, days
        <3> QED BY <1>8, <3>1, FS_Subset
    <2>6. Total(g, days) = Cardinality(UNION {P[d] : d \in days})
        <3> HIDE DEF P, g, days
        <3> QED BY <2>2, <2>3, <2>4, <2>5, SumOfParts
    <2>7. MapThenSumSet(LAMBDA d : perUnit("day", d), days)
              = Total(g, days)
        <3> HIDE DEF days, perUnit
        <3> QED BY DEF Total, MapThenSumSet, MapThenFoldSet
    <2>8. perUnit("week", hour) = Cardinality(SessionRows("week", hour)) BY CountedOnce
    <2> QED BY <2>1, <2>6, <2>7, <2>8
<1>10. ASSUME NEW d \in days PROVE Trend("week", hour, d \div D) = perUnit("day", d)
    <2>1. {i \in DOMAIN entries : /\ Within(i, "week", hour)
                                  /\ entries[i].action # "Staff Update Profile"
                                  /\ BucketOf(i, "week") = DayNumberOf(d, D)}
              = SessionRows("day", d)
        <3>1. \A i \in DOMAIN entries : BucketOf(i, "week") = DayNumberOf(entries[i].at, D)
            BY DEF BucketOf, DayNumberOf
        <3> HIDE DEF days
        <3> QED BY <1>5, <1>6, <3>1 DEF SessionRows, Session
    <2> QED BY <2>1, CountedOnce DEF Trend, DayNumberOf
<1> DEFINE mine(u) == {i \in DOMAIN entries : u = None \/ entries[i].who = u}
<1>11. MapThenSumSet(LAMBDA u : Stats(u).total, Staff) = Stats(None).total
    <2> DEFINE P == [u \in Staff |-> mine(u)]
               g == [u \in Staff |-> Stats(u).total]
    <2>1. IsFiniteSet(Staff) /\ None \notin Staff BY AccountConstants
    <2>2. UNION {P[u] : u \in Staff} = DOMAIN entries /\ mine(None) = DOMAIN entries
        <3>1. \A u \in Staff : P[u] = {i \in DOMAIN entries : entries[i].who = u} BY <2>1
        <3>2. mine(None) = DOMAIN entries OBVIOUS
        <3> HIDE DEF P, mine
        <3>3. \A u \in Staff : P[u] \subseteq DOMAIN entries BY <3>1
        <3>4. \A i \in DOMAIN entries : i \in P[entries[i].who] BY <1>1, <3>1
        <3> QED BY <1>1, <3>2, <3>3, <3>4
    <2>3. \A u, v \in Staff : u # v => P[u] \cap P[v] = {} BY <2>1
    <2>4. \A u \in Staff : g[u] = Cardinality(P[u]) BY DEF Stats
    <2>5. Total(g, Staff) = Cardinality(UNION {P[u] : u \in Staff})
        <3>1. \A u \in Staff : P[u] \subseteq DOMAIN entries OBVIOUS
        <3>2. \A u \in Staff : IsFiniteSet(P[u])
            <4> HIDE DEF P
            <4> QED BY <1>8, <3>1, FS_Subset
        <3> HIDE DEF P, g
        <3> QED BY <2>1, <2>3, <2>4, <3>2, SumOfParts
    <2>6. MapThenSumSet(LAMBDA u : Stats(u).total, Staff) = Total(g, Staff)
        BY DEF Total, MapThenSumSet, MapThenFoldSet
    <2>7. Stats(None).total = Cardinality(mine(None)) BY DEF Stats
    <2> QED BY <2>2, <2>5, <2>6, <2>7
<1>12. ASSUME NEW u \in Staff
       PROVE  Stats(u).success + Stats(u).failed =
                  Cardinality({i \in DOMAIN entries : entries[i].who = u})
    <2>1. u # None BY AccountConstants
    <2>2. PICK A : A = mine(u) OBVIOUS
    <2>3. PICK B : B = {i \in A : entries[i].status = "Success"} OBVIOUS
    <2>4. A = {i \in DOMAIN entries : entries[i].who = u} BY <2>1, <2>2
    <2>5. Stats(u).success = Cardinality(B)
          /\ Stats(u).failed = Cardinality(A) - Cardinality(B)
        BY <2>2, <2>3 DEF Stats
    <2>6. IsFiniteSet(A) /\ IsFiniteSet(B)
        <3>1. A \subseteq DOMAIN entries /\ B \subseteq DOMAIN entries BY <2>3, <2>4
        <3> QED BY <1>8, <3>1, FS_Subset
    <2>7. Cardinality(A) \in Nat /\ Cardinality(B) \in Nat BY <2>6, FS_CardinalityType
    <2> QED BY <2>4, <2>5, <2>7
<1>13. SessionsAgree BY DEF LogInv
<1> HIDE DEF perUnit, mine
<1> QED BY <1>9, <1>10, <1>11, <1>12, <1>13 DEF CountsAgree, DayNumberOf, perUnit, DayStart

\* For any staff, entries and lengths of days and weeks: a week counts what its
\* days count, and everybody together what each one does.
THEOREM CountsRight == LogSpec => []CountsAgree
PROOF
<1> QED BY CountsHold, LogAlways, PTL

-----------------------------------------------------------------------------
(* The list of the week: days are numbered in their order without a gap, so  *)
(* that a week is the days from its first to its last                        *)

LeapDay(y) == IF y \in LeapYears THEN 1 ELSE 0
LeapBefore(y) == {z \in LeapYears : z < y}
\* The number of the first day of a year, and how many days of its year are before a day
YearStart(y) == (y - 1) * 12 * MonthDays + Cardinality(LeapBefore(y))
Offset(y, m, d) == (m - 1) * MonthDays + (d - 1) + (IF m > LeapMonth THEN LeapDay(y) ELSE 0)

LEMMA LeapYearsFinite ==
    ASSUME NEW y \in Nat \ {0}
    PROVE  /\ IsFiniteSet(LeapBefore(y)) /\ Cardinality(LeapBefore(y)) \in Nat
           /\ Cardinality(LeapBefore(y + 1)) = Cardinality(LeapBefore(y)) + LeapDay(y)
PROOF
<1>1. \A z \in LeapYears : z \in Nat /\ z # 0 BY DirectoryConstants
<1>2. IsFiniteSet(1..y)
    <2>1. y \in Int OBVIOUS
    <2> QED BY <2>1, FS_Interval
<1>3. LeapBefore(y) \subseteq 1..y BY <1>1 DEF LeapBefore
<1>4. IsFiniteSet(LeapBefore(y)) BY <1>2, <1>3, FS_Subset
<1>5. y \notin LeapBefore(y) BY DEF LeapBefore
<1>6. LeapBefore(y + 1) = IF y \in LeapYears THEN LeapBefore(y) \cup {y} ELSE LeapBefore(y)
    BY <1>1 DEF LeapBefore
<1>7. Cardinality(LeapBefore(y)) \in Nat BY <1>4, FS_CardinalityType
<1>8. Cardinality(LeapBefore(y) \cup {y}) = Cardinality(LeapBefore(y)) + 1
    BY <1>4, <1>5, FS_AddElement
<1> QED BY <1>4, <1>6, <1>7, <1>8 DEF LeapDay

LEMMA NextYear ==
    ASSUME NEW y \in Nat \ {0}
    PROVE  /\ YearStart(y) \in Nat
           /\ YearStart(y + 1) = YearStart(y) + 12 * MonthDays + LeapDay(y)
PROOF
<1>1. PICK c, k : c = Cardinality(LeapBefore(y)) /\ k = 12 * MonthDays OBVIOUS
<1>2. c \in Nat /\ k \in Nat BY <1>1, LeapYearsFinite, DirectoryConstants
<1>3. MonthDays \in Nat BY DirectoryConstants
<1>4. YearStart(y) = (y - 1) * k + c BY <1>1, <1>3 DEF YearStart
<1>5. YearStart(y + 1) = y * k + Cardinality(LeapBefore(y + 1)) BY <1>1, <1>3 DEF YearStart
<1>6. y * k = (y - 1) * k + k BY <1>2
<1>7. (y - 1) * k \in Nat BY <1>2
<1>8. Cardinality(LeapBefore(y + 1)) = c + LeapDay(y) BY <1>1, LeapYearsFinite
<1>9. LeapDay(y) \in Nat BY DEF LeapDay
<1> QED BY <1>1, <1>2, <1>4, <1>5, <1>6, <1>7, <1>8, <1>9

LEMMA LaterYears ==
    ASSUME NEW y \in Nat \ {0}, NEW z \in Nat \ {0}, y <= z
    PROVE  YearStart(y) <= YearStart(z)
PROOF
<1>1. PICK k : k = 12 * MonthDays OBVIOUS
<1>2. k \in Nat /\ MonthDays \in Nat BY <1>1, DirectoryConstants
<1>3. \A w \in Nat \ {0} : YearStart(w) = (w - 1) * k + Cardinality(LeapBefore(w))
    BY <1>1, <1>2 DEF YearStart
<1>4. LeapBefore(y) \subseteq LeapBefore(z)
    <2>1. \A w \in LeapYears : w \in Nat BY DirectoryConstants
    <2> QED BY <2>1 DEF LeapBefore
<1>5. Cardinality(LeapBefore(y)) <= Cardinality(LeapBefore(z))
    BY <1>4, LeapYearsFinite, FS_Subset
<1>6. (y - 1) * k <= (z - 1) * k /\ (y - 1) * k \in Nat /\ (z - 1) * k \in Nat
    <2>1. CASE y = z BY <1>2, <2>1
    <2>2. CASE y < z
          <3>1. y - 1 \in Nat /\ z - 1 \in Nat /\ y - 1 < z - 1 BY <2>2
          <3> QED BY <1>2, <3>1, Multiples
    <2> QED BY <2>1, <2>2
<1>7. /\ Cardinality(LeapBefore(y)) \in Nat /\ Cardinality(LeapBefore(z)) \in Nat
    BY LeapYearsFinite
<1> QED BY <1>3, <1>5, <1>6, <1>7

\* A day is within its year
LEMMA InItsYear ==
    ASSUME NEW x \in Dates, NEW y, NEW m, NEW d, x = <<y, m, d>>
    PROVE  /\ y \in Nat \ {0} /\ m \in 1..12 /\ d \in Nat \ {0}
           /\ DayNumber(x) = YearStart(y) + Offset(y, m, d)
           /\ Offset(y, m, d) \in Nat /\ DayNumber(x) \in Nat
           /\ (m - 1) * MonthDays \in Nat
           /\ d <= MonthDays + (IF m = LeapMonth THEN LeapDay(y) ELSE 0)
           /\ DayNumber(x) < YearStart(y + 1)
PROOF
<1>1. y \in Years /\ m \in 1..12 /\ d \in 1..(MonthDays + 1) /\ d <= DaysIn(y, m)
    BY DEF Dates
<1>2. y \in Nat \ {0} /\ MonthDays \in Nat \ {0} BY <1>1, DirectoryConstants
<1>3. d <= MonthDays + (IF m = LeapMonth THEN LeapDay(y) ELSE 0)
    BY <1>1, <1>2 DEF DaysIn, LeapDay
<1>4. PICK c, s, l, f : /\ c = Cardinality(LeapBefore(y)) /\ s = (y - 1) * 12 * MonthDays
                        /\ l = LeapDay(y) /\ f = (m - 1) * MonthDays
    OBVIOUS
<1>5. c \in Nat /\ s \in Nat /\ l \in {0, 1} BY <1>2, <1>4, LeapYearsFinite DEF LeapDay
<1>6. f \in Nat /\ f + MonthDays <= 12 * MonthDays
    <2>1. m - 1 \in Nat /\ m - 1 < 12 BY <1>1
    <2>2. (m - 1) * MonthDays \in Nat /\ (m - 1) * MonthDays + MonthDays <= 12 * MonthDays
        BY <1>2, <2>1, Multiples
    <2> QED BY <1>4, <2>2
<1>7. YearStart(y) = s + c BY <1>4 DEF YearStart
<1>8. Offset(y, m, d) = f + (d - 1) + (IF m > LeapMonth THEN l ELSE 0)
    BY <1>4 DEF Offset
<1>9. DayNumber(x) = s + c + f + (d - 1) + (IF m > LeapMonth THEN l ELSE 0)
    <2>1. x[1] = y /\ x[2] = m /\ x[3] = d OBVIOUS
    <2>2. DayNumber(x) = s + c + f + (d - 1) + (IF y \in LeapYears /\ m > LeapMonth THEN 1 ELSE 0)
        BY <1>4, <2>1 DEF DayNumber, LeapBefore
    <2> QED BY <1>4, <2>2 DEF LeapDay
<1>10. d \in Nat \ {0} /\ Offset(y, m, d) \in Nat BY <1>1, <1>2, <1>5, <1>6, <1>8
<1>11. DayNumber(x) = YearStart(y) + Offset(y, m, d)
    BY <1>1, <1>5, <1>6, <1>7, <1>8, <1>9, <1>10
<1>12. Offset(y, m, d) < 12 * MonthDays + l
    BY <1>1, <1>2, <1>3, <1>4, <1>5, <1>6, <1>8, <1>10 DEF LeapMonth
<1>13. YearStart(y + 1) = YearStart(y) + 12 * MonthDays + l BY <1>2, <1>4, NextYear
<1>14. YearStart(y) \in Nat BY <1>2, NextYear
<1>15. DayNumber(x) < YearStart(y + 1) /\ DayNumber(x) \in Nat
    BY <1>2, <1>5, <1>10, <1>11, <1>12, <1>13, <1>14
<1> QED BY <1>1, <1>2, <1>3, <1>4, <1>6, <1>10, <1>11, <1>15

\* Days are numbered in their order
LEMMA EarlierIsLess ==
    ASSUME NEW x \in Dates, NEW z \in Dates, Earlier(x, z)
    PROVE  DayNumber(x) < DayNumber(z)
PROOF
<1>1. PICK y, m, d : x = <<y, m, d>> BY DEF Dates
<1>2. PICK u, n, e : z = <<u, n, e>> BY DEF Dates
<1>3. /\ y \in Nat \ {0} /\ m \in 1..12 /\ d \in Nat \ {0}
      /\ DayNumber(x) = YearStart(y) + Offset(y, m, d)
      /\ DayNumber(x) < YearStart(y + 1) /\ DayNumber(x) \in Nat
      /\ d <= MonthDays + (IF m = LeapMonth THEN LeapDay(y) ELSE 0)
    BY <1>1, InItsYear
<1>4. /\ u \in Nat \ {0} /\ n \in 1..12 /\ e \in Nat \ {0}
      /\ DayNumber(z) = YearStart(u) + Offset(u, n, e)
      /\ Offset(u, n, e) \in Nat /\ DayNumber(z) \in Nat
    BY <1>2, InItsYear
<1>5. YearStart(u) \in Nat /\ MonthDays \in Nat BY <1>4, NextYear, DirectoryConstants
<1>6. CASE y < u
      <2>1. YearStart(y + 1) <= YearStart(u) BY <1>3, <1>4, <1>6, LaterYears
      <2>2. YearStart(y + 1) \in Nat BY <1>3, NextYear
      <2> QED BY <1>3, <1>4, <1>5, <2>1, <2>2
<1>7. CASE y = u /\ (m < n \/ (m = n /\ d < e))
      <2>1. PICK f, g, l : f = (m - 1) * MonthDays /\ g = (n - 1) * MonthDays /\ l = LeapDay(u)
          OBVIOUS
      <2>2. l \in {0, 1} /\ f \in Nat /\ g \in Nat
          <3>1. f \in Nat BY <1>1, <2>1, InItsYear
          <3>2. g \in Nat BY <1>2, <2>1, InItsYear
          <3> QED BY <2>1, <3>1, <3>2 DEF LeapDay
      <2>3. /\ Offset(y, m, d) = f + (d - 1) + (IF m > LeapMonth THEN l ELSE 0)
            /\ Offset(u, n, e) = g + (e - 1) + (IF n > LeapMonth THEN l ELSE 0)
          BY <1>7, <2>1 DEF Offset
      <2>4. d <= MonthDays + (IF m = LeapMonth THEN l ELSE 0) BY <1>3, <1>7, <2>1
      <2>5. Offset(y, m, d) < Offset(u, n, e)
          <3>1. CASE m < n
                <4>1. m - 1 \in Nat /\ n - 1 \in Nat /\ m - 1 < n - 1 BY <1>3, <1>4, <3>1
                <4>2. f + MonthDays <= g BY <1>5, <2>1, <4>1, Multiples
                <4> QED BY <1>3, <1>4, <1>5, <2>2, <2>3, <2>4, <3>1, <4>2 DEF LeapMonth
          <3>2. CASE m = n /\ d < e
                <4>1. f = g BY <2>1, <3>2
                <4> QED BY <1>3, <1>4, <2>2, <2>3, <3>2, <4>1 DEF LeapMonth
          <3> QED BY <1>7, <3>1, <3>2
      <2>6. Offset(y, m, d) \in Nat BY <1>1, InItsYear
      <2>7. DayNumber(x) = YearStart(u) + Offset(y, m, d) BY <1>3, <1>7
      <2> QED BY <1>4, <1>5, <2>5, <2>6, <2>7
<1> QED BY <1>1, <1>2, <1>6, <1>7 DEF Earlier, EarlierInYear

LEMMA OneOrder ==
    ASSUME NEW x \in Dates, NEW z \in Dates
    PROVE  Earlier(x, z) \/ x = z \/ Earlier(z, x)
PROOF
<1>1. PICK y, m, d : x = <<y, m, d>> BY DEF Dates
<1>2. PICK u, n, e : z = <<u, n, e>> BY DEF Dates
<1>3. /\ y \in Nat /\ m \in Nat /\ d \in Nat /\ u \in Nat /\ n \in Nat /\ e \in Nat
    <2>1. y \in Nat \ {0} /\ m \in 1..12 /\ d \in Nat \ {0} BY <1>1, InItsYear
    <2>2. u \in Nat \ {0} /\ n \in 1..12 /\ e \in Nat \ {0} BY <1>2, InItsYear
    <2> QED BY <2>1, <2>2
<1> QED BY <1>1, <1>2, <1>3 DEF Earlier, EarlierInYear

LEMMA EarlierIsFewer ==
    ASSUME NEW x \in Dates, NEW z \in Dates
    PROVE  Earlier(x, z) <=> DayNumber(x) < DayNumber(z)
PROOF
<1>1. DayNumber(x) \in Nat /\ DayNumber(z) \in Nat
    <2>1. PICK y, m, d : x = <<y, m, d>> BY DEF Dates
    <2>2. PICK u, n, e : z = <<u, n, e>> BY DEF Dates
    <2> QED BY <2>1, <2>2, InItsYear
<1>2. Earlier(z, x) => DayNumber(z) < DayNumber(x) BY EarlierIsLess
<1>3. Earlier(x, z) => DayNumber(x) < DayNumber(z) BY EarlierIsLess
<1> QED BY <1>1, <1>2, <1>3, OneOrder

\* The day after, but for the last day
LEMMA DayAfter ==
    ASSUME NEW n \in Nat \ {0}, Years = 1..n, NEW x \in Dates
    PROVE  IF x = <<n, 12, MonthDays>> THEN Tomorrow(x) \notin Dates
           ELSE Tomorrow(x) \in Dates /\ DayNumber(Tomorrow(x)) = DayNumber(x) + 1
PROOF
<1>1. PICK y, m, d : x = <<y, m, d>> BY DEF Dates
<1>2. /\ y \in 1..n /\ m \in 1..12 /\ d \in 1..(MonthDays + 1) /\ d <= DaysIn(y, m)
    BY <1>1 DEF Dates
<1>3. MonthDays \in Nat \ {0} /\ DaysIn(y, m) \in Nat BY DirectoryConstants DEF DaysIn
<1>4. /\ DayNumber(x) = YearStart(y) + Offset(y, m, d)
      /\ Offset(y, m, d) \in Nat /\ (m - 1) * MonthDays \in Nat
    BY <1>1, InItsYear
<1>5. YearStart(y) \in Nat /\ YearStart(y + 1) = YearStart(y) + 12 * MonthDays + LeapDay(y)
    BY <1>2, NextYear
<1>6. PICK f, l : f = (m - 1) * MonthDays /\ l = LeapDay(y) OBVIOUS
<1>7. f \in Nat /\ l \in {0, 1} BY <1>4, <1>6 DEF LeapDay
<1>8. DaysIn(y, m) = MonthDays + (IF m = LeapMonth THEN l ELSE 0)
    BY <1>3, <1>6 DEF DaysIn, LeapDay
<1>9. Offset(y, m, d) = f + (d - 1) + (IF m > LeapMonth THEN l ELSE 0) BY <1>6 DEF Offset
<1>10. x[1] = y /\ x[2] = m /\ x[3] = d BY <1>1
<1>11. CASE d < DaysIn(y, m)
       <2>1. PICK z : z = <<y, m, d + 1>> OBVIOUS
       <2>2. Tomorrow(x) = z BY <1>2, <1>3, <1>10, <1>11, <2>1 DEF Tomorrow
       <2>3. d + 1 \in 1..(MonthDays + 1) /\ d + 1 <= DaysIn(y, m)
           BY <1>2, <1>3, <1>7, <1>8, <1>11
       <2>4. z \in Dates BY <1>2, <2>1, <2>3 DEF Dates
       <2>5. DayNumber(z) = YearStart(y) + Offset(y, m, d + 1) BY <2>1, <2>4, InItsYear
       <2>6. Offset(y, m, d + 1) = f + d + (IF m > LeapMonth THEN l ELSE 0)
           BY <1>2, <1>6 DEF Offset
       <2>7. Offset(y, m, d + 1) = Offset(y, m, d) + 1 BY <1>2, <1>7, <1>9, <2>6
       <2>8. x # <<n, 12, MonthDays>>
           BY <1>1, <1>3, <1>8, <1>11 DEF LeapMonth
       <2> QED BY <1>4, <1>5, <2>2, <2>4, <2>5, <2>7, <2>8
<1>12. CASE d = DaysIn(y, m) /\ m < 12
       <2>1. PICK z : z = <<y, m + 1, 1>> OBVIOUS
       <2>2. Tomorrow(x) = z BY <1>3, <1>10, <1>12, <2>1 DEF Tomorrow
       <2>3. m + 1 \in 1..12 /\ 1 \in 1..(MonthDays + 1) /\ 1 <= DaysIn(y, m + 1)
           BY <1>2, <1>3, <1>12 DEF DaysIn
       <2>4. z \in Dates BY <1>2, <2>1, <2>3 DEF Dates
       <2>5. DayNumber(z) = YearStart(y) + Offset(y, m + 1, 1) BY <2>1, <2>4, InItsYear
       <2>6. m * MonthDays = f + MonthDays BY <1>2, <1>3, <1>6
       <2>7. Offset(y, m + 1, 1) = m * MonthDays + (IF m + 1 > LeapMonth THEN l ELSE 0)
           <3>1. (m + 1) - 1 = m /\ m * MonthDays \in Nat BY <1>2, <1>3
           <3> QED BY <1>6, <3>1 DEF Offset
       <2>8. Offset(y, m + 1, 1) = Offset(y, m, d) + 1
           BY <1>2, <1>3, <1>7, <1>8, <1>9, <1>12, <2>6, <2>7 DEF LeapMonth
       <2>9. x # <<n, 12, MonthDays>> BY <1>1, <1>12
       <2> QED BY <1>4, <1>5, <2>2, <2>4, <2>5, <2>8, <2>9
<1>13. CASE d = DaysIn(y, m) /\ m = 12
       <2>1. PICK z : z = <<y + 1, 1, 1>> OBVIOUS
       <2>2. Tomorrow(x) = z BY <1>3, <1>10, <1>13, <2>1 DEF Tomorrow
       <2>3. d = MonthDays BY <1>8, <1>3, <1>13 DEF LeapMonth
       <2>4. CASE y = n
             <3>1. z \notin Dates
                 <4>1. y + 1 \notin Years BY <2>4
                 <4> QED BY <2>1, <4>1 DEF Dates
             <3> QED BY <1>1, <1>13, <2>2, <2>3, <2>4, <3>1
       <2>5. CASE y < n
             <3>1. y + 1 \in Years /\ 1 \in 1..(MonthDays + 1) /\ 1 <= DaysIn(y + 1, 1)
                 BY <1>2, <1>3, <2>5 DEF DaysIn
             <3>2. z \in Dates BY <2>1, <3>1 DEF Dates
             <3>3. DayNumber(z) = YearStart(y + 1) + Offset(y + 1, 1, 1)
                 BY <2>1, <3>2, InItsYear
             <3>4. Offset(y + 1, 1, 1) = 0 BY <1>3 DEF Offset, LeapMonth
             <3>5. Offset(y, m, d) + 1 = 12 * MonthDays + l
                 <4>1. f = 11 * MonthDays BY <1>6, <1>13
                 <4> QED BY <1>3, <1>7, <1>9, <1>13, <2>3, <4>1 DEF LeapMonth
             <3>6. DayNumber(z) = DayNumber(x) + 1
                 BY <1>3, <1>4, <1>5, <1>6, <1>7, <3>3, <3>4, <3>5
             <3>7. x # <<n, 12, MonthDays>> BY <1>1, <1>2, <2>5
             <3> QED BY <2>2, <3>2, <3>6, <3>7
       <2> QED BY <1>2, <2>4, <2>5
<1> QED BY <1>2, <1>3, <1>11, <1>12, <1>13

\* Every number up to the last day's is a day's
LEMMA NumbersAreDays ==
    /\ DayNumber(LastDay) \in Nat
    /\ \A x \in Dates : DayNumber(x) \in Nat /\ DayNumber(x) <= DayNumber(LastDay)
    /\ \A k \in 0..DayNumber(LastDay) : \E x \in Dates : DayNumber(x) = k
PROOF
<1>1. PICK n \in Nat \ {0} : Years = 1..n BY DirectoryConstants
<1>2. LastDay = <<n, 12, MonthDays>>
    <2>1. PICK z : z = <<n, 12, MonthDays>> OBVIOUS
    <2>2. MonthDays \in Nat \ {0} /\ DaysIn(n, 12) = MonthDays
        BY DirectoryConstants DEF DaysIn, LeapMonth
    <2>3. z \in Dates BY <1>1, <2>1, <2>2 DEF Dates
    <2>4. \A x \in Dates : Tomorrow(x) \notin Dates <=> x = z BY <1>1, <2>1, DayAfter
    <2> QED BY <2>1, <2>3, <2>4 DEF LastDay
<1>3. \A x \in Dates : DayNumber(x) \in Nat
    <2> SUFFICES ASSUME NEW x \in Dates PROVE DayNumber(x) \in Nat OBVIOUS
    <2>1. PICK y, m, d : x = <<y, m, d>> BY DEF Dates
    <2> QED BY <2>1, InItsYear
<1>4. \A x \in Dates : x # LastDay =>
          \E z \in Dates : DayNumber(z) = DayNumber(x) + 1
    BY <1>1, <1>2, DayAfter
<1>5. PICK last : last = DayNumber(LastDay) OBVIOUS
<1>6. last \in Nat BY <1>3, <1>5, LastDayIs
<1>7. \A x \in Dates : DayNumber(x) <= last
    <2> SUFFICES ASSUME NEW x \in Dates, x # LastDay PROVE DayNumber(x) <= last
        BY <1>5, <1>6
    <2>1. ~Earlier(LastDay, x)
        <3>1. PICK y, m, d : x = <<y, m, d>> BY DEF Dates
        <3>2. y \in 1..n /\ m \in 1..12 /\ d \in Nat /\ d <= MonthDays + (IF m = 2 THEN 1 ELSE 0)
            <4>1. y \in 1..n /\ m \in 1..12 BY <1>1, <3>1 DEF Dates
            <4>2. d \in Nat /\ d <= MonthDays + (IF m = LeapMonth THEN LeapDay(y) ELSE 0)
                BY <3>1, InItsYear
            <4>3. MonthDays \in Nat BY DirectoryConstants
            <4> QED BY <4>1, <4>2, <4>3 DEF LeapMonth, LeapDay
        <3>3. MonthDays \in Nat BY DirectoryConstants
        <3> QED BY <1>1, <1>2, <3>1, <3>2, <3>3 DEF Earlier, EarlierInYear
    <2>2. Earlier(x, LastDay) BY <2>1, OneOrder, LastDayIs
    <2>3. DayNumber(x) < last BY <1>5, <2>2, EarlierIsLess, LastDayIs
    <2> QED BY <1>3, <1>6, <2>3
<1>8. ASSUME NEW k \in 0..last PROVE \E x \in Dates : DayNumber(x) = k
    <2> DEFINE T == {j \in 0..last : \E x \in Dates : DayNumber(x) = j}
    <2>1. 0 \in T
        <3>1. MonthDays \in Nat \ {0} /\ DaysIn(1, 1) = MonthDays
            BY DirectoryConstants DEF DaysIn, LeapMonth
        <3>2. PICK x : x = <<1, 1, 1>> OBVIOUS
        <3>3. x \in Dates BY <1>1, <3>1, <3>2 DEF Dates
        <3>4. DayNumber(x) = YearStart(1) + Offset(1, 1, 1) BY <3>2, <3>3, InItsYear
        <3>5. Offset(1, 1, 1) = 0 BY <3>1 DEF Offset, LeapMonth
        <3>6. LeapBefore(1) = {}
            <4>1. \A w \in LeapYears : w \in Nat \ {0} BY DirectoryConstants
            <4> QED BY <4>1 DEF LeapBefore
        <3>7. YearStart(1) = 0 BY <3>1, <3>6, FS_EmptySet DEF YearStart
        <3>8. DayNumber(x) = 0 BY <3>4, <3>5, <3>7
        <3> QED BY <1>6, <3>3, <3>8
    <2>2. ASSUME NEW j \in 0..(last - 1), j \in T PROVE j + 1 \in T
        <3>1. PICK x \in Dates : DayNumber(x) = j BY <2>2
        <3>2. x # LastDay BY <1>5, <1>6, <3>1
        <3>3. PICK z \in Dates : DayNumber(z) = j + 1 BY <1>4, <3>1, <3>2
        <3> QED BY <1>6, <3>3
    <2>3. 0..last \subseteq T
        <3> HIDE DEF T
        <3> QED BY <1>6, <2>1, <2>2, UpTo
    <2> QED BY <2>3
<1> QED BY <1>3, <1>5, <1>6, <1>7, <1>8

\* Whom the list of the week has: who celebrates on one of its days
LEMMA WeekHolds ==
    ASSUME date \in Dates, today \in Dates
    PROVE  WeekAgrees
PROOF
<1> SUFFICES ASSUME ~LeapBorn(date), WeekStart(today)[1] = WeekEnd(today)[1]
             PROVE  ThisWeek(date, today) <=>
                        \E x \in Dates : SameWeek(x, today) /\ Celebrates(date, x)
    BY DEF WeekAgrees
<1>1. PICK t, w, last, first : /\ t = DayNumber(today) /\ w = t \div Week /\ last = DayNumber(LastDay)
                               /\ first = Week * w
    OBVIOUS
<1>2. /\ Week \in Nat \ {0} /\ last \in Nat /\ t \in Nat /\ t <= last
    BY <1>1, NumbersAreDays, DirectoryConstants
<1>3. w \in Nat /\ first \in Nat /\ first <= t /\ t < first + Week BY <1>1, <1>2
<1>4. \A n \in 0..last : DateAt(n) \in Dates /\ DayNumber(DateAt(n)) = n
    <2>1. \A n \in 0..last : ~(n > DayNumber(LastDay)) BY <1>1, <1>2
    <2>2. \A n \in 0..last : \E x \in Dates : DayNumber(x) = n BY <1>1, NumbersAreDays
    <2> QED BY <2>1, <2>2 DEF DateAt
<1>5. PICK s, e : s = WeekStart(today) /\ e = WeekEnd(today) OBVIOUS
<1>6. s \in Dates /\ DayNumber(s) = first
    <2>1. s = DateAt(first) BY <1>1, <1>5 DEF WeekStart
    <2>2. first \in 0..last BY <1>2, <1>3
    <2> QED BY <1>4, <2>1, <2>2
<1>7. /\ e \in Dates /\ DayNumber(e) \in Nat /\ DayNumber(e) < first + Week
      /\ \A n \in 0..last : n < first + Week => n <= DayNumber(e)
    <2>1. e = DateAt(first + Week - 1) BY <1>1, <1>5 DEF WeekEnd
    <2>2. CASE first + Week - 1 \in 0..last
          <3>1. e \in Dates /\ DayNumber(e) = first + Week - 1 BY <1>4, <2>1, <2>2
          <3> QED BY <1>2, <1>3, <3>1
    <2>3. CASE first + Week - 1 > last
          <3>1. e = LastDay BY <1>1, <2>1, <2>3 DEF DateAt
          <3> QED BY <1>1, <1>2, <1>3, <2>3, <3>1, LastDayIs
    <2> QED BY <1>2, <1>3, <2>2, <2>3
<1>8. \A x \in Dates : /\ DayNumber(x) \in 0..last
                       /\ SameWeek(x, today) <=> first <= DayNumber(x) /\ DayNumber(x) < first + Week
    <2> SUFFICES ASSUME NEW x \in Dates
                 PROVE  /\ DayNumber(x) \in 0..last
                        /\ SameWeek(x, today) <=>
                               first <= DayNumber(x) /\ DayNumber(x) < first + Week
        OBVIOUS
    <2>1. PICK n : n = DayNumber(x) OBVIOUS
    <2>2. n \in 0..last BY <1>1, <1>2, <2>1, NumbersAreDays
    <2>3. n \div Week = w <=> first <= n /\ n < first + Week
        <3>1. n \in Nat BY <1>2, <2>2
        <3>2. \A k \in Nat \ {0} : n \div k = w <=> k * w <= n /\ n < k * w + k
            BY <1>3, <3>1
        <3> QED BY <1>1, <1>2, <3>2
    <2> QED BY <1>1, <2>1, <2>2, <2>3 DEF SameWeek
<1>9. \A x \in Dates : SameWeek(x, today) <=> ~Earlier(x, s) /\ ~Earlier(e, x)
    <2> SUFFICES ASSUME NEW x \in Dates
                 PROVE  SameWeek(x, today) <=> ~Earlier(x, s) /\ ~Earlier(e, x)
        OBVIOUS
    <2>1. /\ Earlier(x, s) <=> DayNumber(x) < first
          /\ Earlier(e, x) <=> DayNumber(e) < DayNumber(x)
        BY <1>6, <1>7, EarlierIsFewer
    <2>2. DayNumber(x) \in 0..last BY <1>8
    <2> QED BY <1>2, <1>3, <1>7, <1>8, <2>1, <2>2
<1>10. PICK y, m, d : date = <<y, m, d>> BY DEF Dates
<1>11. PICK u, sm, sd : s = <<u, sm, sd>> BY <1>6 DEF Dates
<1>12. PICK v, em, ed : e = <<v, em, ed>> BY <1>7 DEF Dates
<1>13. u = v /\ u \in Nat BY <1>5, <1>6, <1>11, <1>12, InItsYear
<1>14. PICK x : x = <<u, m, d>> OBVIOUS
<1>15. x \in Dates
    <2>1. m \in 1..12 /\ d \in 1..(MonthDays + 1) /\ d <= DaysIn(y, m) /\ u \in Years
        BY <1>6, <1>10, <1>11 DEF Dates
    <2>2. MonthDays \in Nat /\ date[2] = m /\ date[3] = d BY <1>10, DirectoryConstants
    <2>3. d <= DaysIn(u, m) BY <2>1, <2>2 DEF DaysIn, LeapBorn
    <2> QED BY <1>14, <2>1, <2>3 DEF Dates
<1>16. Celebrates(date, x) BY <1>10, <1>14 DEF Celebrates, SameDayOfYear
<1>17. ThisWeek(date, today) <=> ~Earlier(x, s) /\ ~Earlier(e, x)
    BY <1>5, <1>10, <1>11, <1>12, <1>13, <1>14 DEF ThisWeek, Earlier, EarlierInYear
<1>18. ASSUME NEW z \in Dates, SameWeek(z, today), Celebrates(date, z) PROVE z = x
    <2>1. PICK k, n, c : z = <<k, n, c>> BY DEF Dates
    <2>2. k \in Nat BY <2>1, InItsYear
    <2>3. ~(k < u) /\ ~(u < k)
        BY <1>9, <1>11, <1>12, <1>13, <1>18, <2>1 DEF Earlier
    <2>4. n = m /\ c = d BY <1>10, <1>18, <2>1 DEF Celebrates, SameDayOfYear
    <2> QED BY <1>13, <1>14, <2>1, <2>2, <2>3, <2>4
<1> QED BY <1>9, <1>15, <1>16, <1>17, <1>18

\* For every calendar and length of a week: the list of the week has those, born
\* on no leap day, whose day is in it, but in a week that is in two years.
THEOREM WeekRight == DirectorySpec => []WeekAgrees
PROOF
<1>1. DirectoryTypeOK => WeekAgrees BY WeekHolds DEF DirectoryTypeOK
<1> QED BY <1>1, DatesAlways, PTL

-----------------------------------------------------------------------------
(* The pages of the directory: a range keeps some rows, each once and in     *)
(* order; its pages cut them into parts; and a rate is in one range          *)

\* Of at most as many done as there are, a hundred percent at most
LEMMA RateIs ==
    ASSUME NEW part \in Nat, NEW whole \in Nat, part <= whole
    PROVE  Percent(part, whole) \in 0..100
PROOF
<1>1. CASE whole = 0 BY <1>1 DEF Percent
<1>2. CASE whole # 0
      <2>1. PICK x, k : x = 200 * part + whole /\ k = 2 * whole OBVIOUS
      <2>2. x \in Nat /\ k \in Nat \ {0} /\ x < 101 * k BY <1>2, <2>1
      <2>3. PICK q : q = x \div k OBVIOUS
      <2>4. q \in Nat /\ k * q <= x BY <2>2, <2>3
      <2>5. ASSUME q >= 101 PROVE FALSE
          <3>1. 101 * k <= q * k
              <4>1. CASE q = 101 BY <2>2, <4>1
              <4>2. CASE 101 < q BY <2>2, <2>4, <4>2, Multiples
              <4> QED BY <2>4, <2>5, <4>1, <4>2
          <3>2. q * k = k * q /\ q * k \in Nat BY <2>2, <2>4
          <3> QED BY <2>2, <2>4, <3>1, <3>2
      <2>6. q \in 0..100 BY <2>4, <2>5
      <2> QED BY <1>2, <2>1, <2>3, <2>6 DEF Percent
<1> QED BY <1>1, <1>2

OneToOne(q) == \A i, j \in DOMAIN q : q[i] = q[j] => i = j

\* The rows kept are those in the range, each once
Picks(F, rows, range, n) ==
    F = [k \in 0..n |-> IF k = 0 THEN <<>>
                        ELSE IF InRange(rows[k], range) THEN Append(F[k - 1], rows[k])
                        ELSE F[k - 1]]

\* A row at a time
LEMMA KeptExists ==
    ASSUME NEW rows, NEW range, NEW n \in Nat
    PROVE  \E F : Picks(F, rows, range, n)
PROOF
<1> DEFINE T == {k \in 0..n : \E F : Picks(F, rows, range, k)}
<1>1. 0 \in T
    <2> DEFINE F == [k \in 0..0 |-> <<>>]
    <2>1. F = [k \in 0..0 |-> IF k = 0 THEN <<>>
                              ELSE IF InRange(rows[k], range) THEN Append(F[k - 1], rows[k])
                              ELSE F[k - 1]]
        OBVIOUS
    <2> HIDE DEF F
    <2>2. Picks(F, rows, range, 0) BY <2>1 DEF Picks
    <2> QED BY <2>2
<1>2. ASSUME NEW m \in 0..(n - 1), m \in T PROVE m + 1 \in T
    <2>1. PICK F : Picks(F, rows, range, m) BY <1>2
    <2> DEFINE next == IF InRange(rows[m + 1], range) THEN Append(F[m], rows[m + 1]) ELSE F[m]
               G == [k \in 0..(m + 1) |-> IF k = m + 1 THEN next ELSE F[k]]
    <2>2. \A k \in 0..m : F[k] = IF k = 0 THEN <<>>
                                 ELSE IF InRange(rows[k], range) THEN Append(F[k - 1], rows[k])
                                 ELSE F[k - 1]
        BY <2>1 DEF Picks
    <2>3. G[m + 1] = next /\ \A k \in 0..m : G[k] = F[k] OBVIOUS
    <2>4. \A k \in 0..(m + 1) :
              G[k] = IF k = 0 THEN <<>>
                     ELSE IF InRange(rows[k], range) THEN Append(G[k - 1], rows[k])
                     ELSE G[k - 1]
        <3> SUFFICES ASSUME NEW k \in 0..(m + 1)
                     PROVE  G[k] = IF k = 0 THEN <<>>
                                   ELSE IF InRange(rows[k], range) THEN Append(G[k - 1], rows[k])
                                   ELSE G[k - 1]
            OBVIOUS
        <3> HIDE DEF G
        <3>1. CASE k = m + 1
              <4>1. k - 1 = m /\ m \in 0..m /\ k # 0 BY <3>1
              <4> QED BY <2>3, <3>1, <4>1
        <3>2. CASE k \in 1..m
              <4>1. k - 1 \in 0..m /\ k \in 0..m /\ k # 0 BY <3>2
              <4> QED BY <2>2, <2>3, <4>1
        <3>3. CASE k = 0 BY <2>2, <2>3, <3>3
        <3> QED BY <3>1, <3>2, <3>3
    <2>5. G = [k \in 0..(m + 1) |-> G[k]] OBVIOUS
    <2> HIDE DEF G
    <2>6. Picks(G, rows, range, m + 1) BY <2>4, <2>5 DEF Picks
    <2> QED BY <2>6
<1>3. 0..n \subseteq T
    <2> HIDE DEF T
    <2> QED BY <1>1, <1>2, UpTo
<1> QED BY <1>3

LEMMA ListedIs ==
    ASSUME NEW rows \in Seq(Staff), OneToOne(rows), NEW range, range # "all",
           NEW list, list = Listed(rows, range)
    PROVE  /\ list \in Seq(Staff) /\ OneToOne(list)
           /\ \A u \in Staff : (\E i \in DOMAIN list : list[i] = u)
                  <=> \E i \in DOMAIN rows : rows[i] = u /\ InRange(u, range)
PROOF
<1>1. PICK n : n = Len(rows) /\ n \in Nat OBVIOUS
<1>2. PICK F : F = CHOOSE G : Picks(G, rows, range, n) OBVIOUS
<1>3. Listed(rows, range) = F[n] BY <1>1, <1>2 DEF Listed, Picks
<1>4. Picks(F, rows, range, n) BY <1>1, <1>2, KeptExists
<1>5. \A k \in 0..n : F[k] = IF k = 0 THEN <<>>
                             ELSE IF InRange(rows[k], range) THEN Append(F[k - 1], rows[k])
                             ELSE F[k - 1]
    BY <1>4 DEF Picks
<1> DEFINE Has(q, k) == \A u : (\E i \in 1..Len(q) : q[i] = u)
                               <=> \E i \in 1..k : rows[i] = u /\ InRange(u, range)
           Good(q, k) == /\ q \in Seq(Staff)
                         /\ \A i, j \in 1..Len(q) : q[i] = q[j] => i = j
                         /\ Has(q, k)
           T == {k \in 0..n : Good(F[k], k)}
<1>6. 0 \in T
    <2>1. F[0] = <<>> /\ 0 \in 0..n BY <1>1, <1>5
    <2>2. Good(<<>>, 0) OBVIOUS
    <2> HIDE DEF Good
    <2> QED BY <2>1, <2>2
<1>7. ASSUME NEW k \in 0..(n - 1), k \in T PROVE k + 1 \in T
    <2>1. PICK q, r : q = F[k] /\ r = F[k + 1] OBVIOUS
    <2>2. /\ q \in Seq(Staff) /\ \A i, j \in 1..Len(q) : q[i] = q[j] => i = j
          /\ \A u : (\E i \in 1..Len(q) : q[i] = u)
                    <=> \E i \in 1..k : rows[i] = u /\ InRange(u, range)
        <3>1. Good(q, k) BY <1>7, <2>1
        <3> QED BY <3>1
    <2>3. PICK u : u = rows[k + 1] /\ u \in Staff BY <1>1
    <2>4. r = IF InRange(u, range) THEN Append(q, u) ELSE q
        <3>1. k + 1 \in 0..n /\ (k + 1) - 1 = k /\ k + 1 # 0 BY <1>1
        <3> QED BY <1>5, <2>1, <2>3, <3>1
    <2>5. \A i \in 1..k : rows[i] # u
        <3>1. \A i \in 1..k : i \in 1..n /\ k + 1 \in 1..n /\ i # k + 1 BY <1>1
        <3> QED BY <1>1, <2>3, <3>1 DEF OneToOne
    <2>6. \A i \in 1..(k + 1) : i \in 1..k \/ i = k + 1 OBVIOUS
    <2>7. 1..k \subseteq 1..(k + 1) /\ k + 1 \in 1..(k + 1) OBVIOUS
    <2>8. CASE InRange(u, range)
          <3>1. PICK l : l = Len(q) /\ l \in Nat BY <2>2
          <3>2. /\ r \in Seq(Staff) /\ Len(r) = l + 1 /\ r[l + 1] = u
                /\ \A i \in 1..l : r[i] = q[i]
              BY <2>2, <2>3, <2>4, <2>8, <3>1
          <3>3. \A i \in 1..(l + 1) : i \in 1..l \/ i = l + 1 BY <3>1
          <3>4. \A i \in 1..l : q[i] # u BY <2>2, <2>5, <3>1
          <3>5. \A i, j \in 1..(l + 1) : r[i] = r[j] => i = j
              BY <2>2, <3>1, <3>2, <3>3, <3>4
          <3>6. 1..l \subseteq 1..(l + 1) /\ l + 1 \in 1..(l + 1) BY <3>1
          <3>7. \A v : (\E i \in 1..(l + 1) : r[i] = v)
                       <=> (\E i \in 1..l : q[i] = v) \/ v = u
              BY <3>2, <3>3, <3>6
          <3>8. \A v : (\E i \in 1..(k + 1) : rows[i] = v /\ InRange(v, range))
                       <=> (\E i \in 1..k : rows[i] = v /\ InRange(v, range)) \/ v = u
              BY <2>3, <2>6, <2>7, <2>8
          <3>9. Has(r, k + 1) BY <2>2, <3>1, <3>2, <3>7, <3>8
          <3>10. Good(r, k + 1) BY <3>2, <3>5, <3>9
          <3> HIDE DEF Good
          <3> QED BY <1>1, <2>1, <3>10
    <2>9. CASE ~InRange(u, range)
          <3>1. r = q BY <2>4, <2>9
          <3>2. \A v : (\E i \in 1..(k + 1) : rows[i] = v /\ InRange(v, range))
                       <=> (\E i \in 1..k : rows[i] = v /\ InRange(v, range))
              BY <2>3, <2>6, <2>7, <2>9
          <3>3. Has(r, k + 1) BY <2>2, <3>1, <3>2
          <3>4. Good(r, k + 1) BY <2>2, <3>1, <3>3
          <3> HIDE DEF Good
          <3> QED BY <1>1, <2>1, <3>4
    <2> QED BY <2>8, <2>9
<1>8. Good(F[n], n)
    <2>1. 0..n \subseteq T
        <3> HIDE DEF T
        <3> QED BY <1>1, <1>6, <1>7, UpTo
    <2>2. n \in T
        <3> HIDE DEF T
        <3> QED BY <1>1, <2>1
    <2> HIDE DEF Good
    <2> QED BY <2>2
<1>10. /\ list \in Seq(Staff) /\ \A i, j \in 1..Len(list) : list[i] = list[j] => i = j
       /\ \A u : (\E i \in 1..Len(list) : list[i] = u)
                 <=> \E i \in 1..n : rows[i] = u /\ InRange(u, range)
    BY <1>3, <1>8
<1>9. DOMAIN list = 1..Len(list) /\ DOMAIN rows = 1..n BY <1>1, <1>10
<1> QED BY <1>9, <1>10 DEF OneToOne

\* What all pages show: a page, a place on it and who is there
PagesOf(rows, limit) ==
    UNION {{<<p, i, Page(rows, p, limit)[i]>> : i \in DOMAIN Page(rows, p, limit)} :
               p \in 1..TotalPages(Len(rows), limit)}

\* The row at a place on a page, and the page of a row
RowAt(p, i, limit) == (p - 1) * limit + i
PageNumber(k, limit) == ((k - 1) \div limit) + 1

\* Row k is on page (k - 1) \div limit + 1, and on no other
LEMMA PageOf ==
    ASSUME NEW limit \in 1..3, NEW n \in Nat, NEW k \in 1..n
    PROVE  /\ PageNumber(k, limit) \in 1..TotalPages(n, limit)
           /\ \E i \in 1..limit : k = RowAt(PageNumber(k, limit), i, limit)
PROOF
<1> DEFINE p == ((k - 1) \div limit) + 1
<1>1. p \in 1..TotalPages(n, limit)
    <2>1. CASE limit = 1 BY <2>1 DEF TotalPages
    <2>2. CASE limit = 2 BY <2>2 DEF TotalPages
    <2>3. CASE limit = 3 BY <2>3 DEF TotalPages
    <2> QED BY <2>1, <2>2, <2>3
<1>2. \E i \in 1..limit : k = (p - 1) * limit + i
    <2>1. k - (p - 1) * limit \in 1..limit /\ k = (p - 1) * limit + (k - (p - 1) * limit)
        <3>1. CASE limit = 1 BY <3>1
        <3>2. CASE limit = 2 BY <3>2
        <3>3. CASE limit = 3 BY <3>3
        <3> QED BY <3>1, <3>2, <3>3
    <2> QED BY <2>1
<1>3. p = PageNumber(k, limit) BY DEF PageNumber
<1> HIDE DEF p
<1> QED BY <1>1, <1>2, <1>3 DEF RowAt

\* A place on a page has one row, whose page it is
LEMMA PlaceOf ==
    ASSUME NEW limit \in 1..3, NEW n \in Nat, NEW p \in 1..TotalPages(n, limit),
           NEW i \in 1..limit, RowAt(p, i, limit) <= n
    PROVE  /\ RowAt(p, i, limit) \in 1..n
           /\ PageNumber(RowAt(p, i, limit), limit) = p
           /\ \A j \in 1..limit : RowAt(p, i, limit) = RowAt(p, j, limit) => i = j
PROOF
<1>0. p \in Nat \ {0}
    <2>1. TotalPages(n, limit) \in Nat
        <3>1. CASE limit = 1 BY <3>1 DEF TotalPages
        <3>2. CASE limit = 2 BY <3>2 DEF TotalPages
        <3>3. CASE limit = 3 BY <3>3 DEF TotalPages
        <3> QED BY <3>1, <3>2, <3>3
    <2> QED BY <2>1
<1>1. CASE limit = 1 BY <1>0, <1>1 DEF RowAt, PageNumber
<1>2. CASE limit = 2 BY <1>0, <1>2 DEF RowAt, PageNumber
<1>3. CASE limit = 3 BY <1>0, <1>3 DEF RowAt, PageNumber
<1> QED BY <1>1, <1>2, <1>3

\* What a page has
LEMMA PageIs ==
    ASSUME NEW rows \in Seq(Staff), NEW limit \in 1..3,
           NEW p \in 1..TotalPages(Len(rows), limit)
    PROVE  /\ \A i : i \in DOMAIN Page(rows, p, limit)
                        <=> i \in 1..limit /\ RowAt(p, i, limit) <= Len(rows)
           /\ \A i \in DOMAIN Page(rows, p, limit) :
                  Page(rows, p, limit)[i] = rows[RowAt(p, i, limit)]
PROOF
<1>1. PICK n, from, to : /\ n = Len(rows) /\ from = (p - 1) * limit + 1
                         /\ to = IF p * limit < n THEN p * limit ELSE n
    OBVIOUS
<1>2. /\ n \in Nat /\ p \in Nat \ {0} /\ from \in Nat \ {0} /\ to \in Nat
      /\ from <= n /\ from = (p - 1) * limit + 1 /\ p * limit = (p - 1) * limit + limit
    <2>1. n \in Nat BY <1>1
    <2>2. p \in 1..TotalPages(n, limit) BY <1>1
    <2>3. CASE limit = 1 BY <1>1, <2>1, <2>2, <2>3 DEF TotalPages
    <2>4. CASE limit = 2 BY <1>1, <2>1, <2>2, <2>4 DEF TotalPages
    <2>5. CASE limit = 3 BY <1>1, <2>1, <2>2, <2>5 DEF TotalPages
    <2> QED BY <2>3, <2>4, <2>5
<1>3. PICK q : q = SubSeq(rows, from, to) OBVIOUS
<1>4. Page(rows, p, limit) = q BY <1>1, <1>3 DEF Page
<1>5. from <= to /\ to <= n /\ to - from + 1 <= limit
      /\ \A i \in 1..limit : i <= to - from + 1 <=> (p - 1) * limit + i <= n
    <2>1. PICK y : y = (p - 1) * limit OBVIOUS
    <2>2. y \in Nat /\ from = y + 1 /\ to = IF y + limit < n THEN y + limit ELSE n
        BY <1>1, <1>2, <2>1
    <2> QED BY <1>2, <2>1, <2>2
<1>6. \A i \in from..to : rows[i] \in Staff
    <2>1. \A i \in from..to : i \in 1..n BY <1>2, <1>5
    <2> QED BY <1>1, <2>1
<1>7. /\ q \in Seq(Staff) /\ Len(q) = to - from + 1
      /\ \A i \in 1..(to - from + 1) : q[i] = rows[from + i - 1]
    <2>1. from \in Int /\ to \in Int /\ from <= to BY <1>2, <1>5
    <2>2. /\ SubSeq(rows, from, to) \in Seq(Staff)
          /\ Len(SubSeq(rows, from, to)) = IF from <= to THEN to - from + 1 ELSE 0
          /\ \A i \in 1..(to - from + 1) : SubSeq(rows, from, to)[i] = rows[from + i - 1]
        BY <1>6, <2>1, SubSeqProperties
    <2> QED BY <1>3, <2>1, <2>2
<1>8. DOMAIN q = 1..(to - from + 1) BY <1>7
<1>9. DOMAIN q = {i \in 1..limit : (p - 1) * limit + i <= n}
    <2>1. PICK c : c = to - from + 1 OBVIOUS
    <2>2. c \in Nat /\ c <= limit BY <1>2, <1>5, <2>1
    <2>3. 1..c = {i \in 1..limit : i <= c} BY <2>2
    <2>4. \A i \in 1..limit : i <= c <=> (p - 1) * limit + i <= n BY <1>5, <2>1
    <2> QED BY <1>8, <2>1, <2>3, <2>4
<1>10. \A i \in DOMAIN q : from + i - 1 = (p - 1) * limit + i
    <2>1. PICK y : y = (p - 1) * limit OBVIOUS
    <2>2. y \in Nat /\ from = y + 1 BY <1>2, <2>1
    <2> QED BY <1>2, <1>5, <1>8, <2>1, <2>2
<1> QED BY <1>1, <1>4, <1>7, <1>8, <1>9, <1>10 DEF RowAt

\* All pages show each row once
LEMMA PagesShow ==
    ASSUME NEW rows \in Seq(Staff), NEW limit \in 1..3
    PROVE  \E f \in Bijection(1..Len(rows), PagesOf(rows, limit)) :
               \A k \in 1..Len(rows) : f[k][3] = rows[k]
PROOF
<1>1. PICK n : n = Len(rows) /\ n \in Nat OBVIOUS
<1>2. PICK pages : pages = 1..TotalPages(n, limit) OBVIOUS
<1> DEFINE P(k) == PageNumber(k, limit)
           I(k) == CHOOSE i \in 1..limit : k = RowAt(P(k), i, limit)
           f == [k \in 1..n |-> <<P(k), I(k), rows[k]>>]
<1>3. \A k \in 1..n : P(k) \in pages /\ I(k) \in 1..limit /\ k = RowAt(P(k), I(k), limit)
    <2>1. \A k \in 1..n : P(k) \in pages /\ \E i \in 1..limit : k = RowAt(P(k), i, limit)
        BY <1>1, <1>2, PageOf
    <2> HIDE DEF P
    <2> QED BY <2>1
<1>4. \A p \in pages, i \in 1..limit : RowAt(p, i, limit) <= n =>
          /\ RowAt(p, i, limit) \in 1..n /\ P(RowAt(p, i, limit)) = p
          /\ \A j \in 1..limit : RowAt(p, i, limit) = RowAt(p, j, limit) => i = j
    BY <1>1, <1>2, PlaceOf
<1> HIDE DEF P, I
<1>5. \A e : e \in PagesOf(rows, limit) <=>
          \E p \in pages : \E i \in DOMAIN Page(rows, p, limit) :
              e = <<p, i, Page(rows, p, limit)[i]>>
    BY <1>1, <1>2 DEF PagesOf
<1>6. ASSUME NEW p \in pages
      PROVE  /\ \A i : i \in DOMAIN Page(rows, p, limit)
                          <=> i \in 1..limit /\ RowAt(p, i, limit) <= n
             /\ \A i \in DOMAIN Page(rows, p, limit) :
                    Page(rows, p, limit)[i] = rows[RowAt(p, i, limit)]
    BY <1>1, <1>2, PageIs
<1>7. ASSUME NEW k \in 1..n PROVE f[k] \in PagesOf(rows, limit)
    <2>1. PICK p \in pages, i \in 1..limit : p = P(k) /\ i = I(k) /\ k = RowAt(p, i, limit)
        BY <1>3
    <2>2. f[k] = <<p, i, rows[RowAt(p, i, limit)]>> BY <2>1
    <2>3. RowAt(p, i, limit) <= n BY <1>1, <2>1
    <2>4. i \in DOMAIN Page(rows, p, limit) /\ f[k] = <<p, i, Page(rows, p, limit)[i]>>
        <3> HIDE DEF f
        <3> QED BY <1>6, <2>2, <2>3
    <2> HIDE DEF f
    <2> QED BY <1>5, <2>4
<1>8. ASSUME NEW k \in 1..n, NEW j \in 1..n, f[k] = f[j] PROVE k = j
    <2>1. P(k) = P(j) /\ I(k) = I(j) BY <1>8
    <2> QED BY <1>3, <2>1
<1>9. ASSUME NEW e \in PagesOf(rows, limit) PROVE \E k \in 1..n : f[k] = e
    <2>1. PICK p \in pages : \E i \in DOMAIN Page(rows, p, limit) :
              e = <<p, i, Page(rows, p, limit)[i]>>
        BY <1>5
    <2>2. PICK i \in DOMAIN Page(rows, p, limit) : e = <<p, i, Page(rows, p, limit)[i]>>
        BY <2>1
    <2>3. PICK k : k = RowAt(p, i, limit) OBVIOUS
    <2>4. i \in 1..limit /\ k <= n /\ e = <<p, i, rows[k]>> BY <1>6, <2>2, <2>3
    <2>5. /\ k \in 1..n /\ P(k) = p
          /\ \A j \in 1..limit : k = RowAt(p, j, limit) => i = j
        BY <1>4, <2>3, <2>4
    <2>6. I(k) = i BY <1>3, <2>5
    <2>7. f[k] = e BY <2>4, <2>5, <2>6
    <2> QED BY <2>5, <2>7
<1>10. \A k \in 1..n : f[k][3] = rows[k] OBVIOUS
<1>11. f \in [1..n -> PagesOf(rows, limit)]
    <2>1. f = [k \in 1..n |-> f[k]] OBVIOUS
    <2> HIDE DEF f
    <2> QED BY <1>7, <2>1
<1> HIDE DEF f
<1>12. f \in Bijection(1..n, PagesOf(rows, limit))
    BY <1>8, <1>9, <1>11 DEF Bijection, Injection, Surjection, IsInjective
<1> QED BY <1>1, <1>10, <1>12

\* Nobody has completed more than there is
RollOK == DirectoryTypeOK /\ \A u \in Staff : roll[u].done <= roll[u].total

\* The ranges divide the rates
LEMMA OneRange ==
    ASSUME RollOK, NEW u \in Staff
    PROVE  \E range \in Ranges : InRange(u, range)
               /\ \A other \in Ranges : InRange(u, other) => other = range
PROOF
<1>1. roll[u].done \in Nat /\ roll[u].total \in Nat /\ roll[u].done <= roll[u].total
    BY DirectoryConstants DEF RollOK, DirectoryTypeOK
<1>2. CompletionRate(roll[u]) \in 0..100 BY <1>1, RateIs DEF CompletionRate
<1>3. PICK r : r = CompletionRate(roll[u]) OBVIOUS
<1>4. /\ InRange(u, "0-25") <=> r \in 0..25
      /\ InRange(u, "26-50") <=> r \in 26..50
      /\ InRange(u, "51-75") <=> r \in 51..75
      /\ InRange(u, "76-100") <=> r \in 76..100
    BY <1>3 DEF InRange, RangeOf
<1>5. Ranges = {"0-25", "26-50", "51-75", "76-100"} BY DEF Ranges
<1>6. r \in 0..25 \/ r \in 26..50 \/ r \in 51..75 \/ r \in 76..100 BY <1>2, <1>3
<1>7. CASE r \in 0..25
      <2>1. r \notin 26..50 /\ r \notin 51..75 /\ r \notin 76..100 BY <1>7
      <2> QED BY <1>4, <1>5, <1>7, <2>1
<1>8. CASE r \in 26..50
      <2>1. r \notin 0..25 /\ r \notin 51..75 /\ r \notin 76..100 BY <1>8
      <2> QED BY <1>4, <1>5, <1>8, <2>1
<1>9. CASE r \in 51..75
      <2>1. r \notin 0..25 /\ r \notin 26..50 /\ r \notin 76..100 BY <1>9
      <2> QED BY <1>4, <1>5, <1>9, <2>1
<1>10. CASE r \in 76..100
      <2>1. r \notin 0..25 /\ r \notin 26..50 /\ r \notin 51..75 BY <1>10
      <2> QED BY <1>4, <1>5, <1>10, <2>1
<1> QED BY <1>6, <1>7, <1>8, <1>9, <1>10

\* Everybody is on one page of one range
LEMMA ListedOnce == RollOK => EveryoneListedOnce
PROOF
<1> SUFFICES ASSUME RollOK PROVE EveryoneListedOnce OBVIOUS
<1>1. PICK n : n = Cardinality(Staff) /\ n \in Nat BY AccountConstants, FS_CardinalityType
<1> DEFINE IsRoll(q) == q \in [1..n -> Staff] /\ \A i, j \in DOMAIN q : q[i] = q[j] => i = j
<1>2. PICK staff : staff = CHOOSE q \in [1..Cardinality(Staff) -> Staff] :
                               \A i, j \in DOMAIN q : q[i] = q[j] => i = j
    OBVIOUS
<1>3. IsRoll(staff)
    <2>1. ExistsBijection(1..n, Staff) BY <1>1, AccountConstants, FS_CardinalityType
    <2>2. PICK q : q \in Bijection(1..n, Staff) BY <2>1 DEF ExistsBijection
    <2>3. IsRoll(q) BY <2>2 DEF Bijection, Injection, IsInjective
    <2> QED BY <1>1, <1>2, <2>3
<1>4. /\ staff \in Seq(Staff) /\ OneToOne(staff) /\ DOMAIN staff = 1..n
    BY <1>1, <1>3 DEF OneToOne
<1>5. \A u \in Staff : \E i \in DOMAIN staff : staff[i] = u
    <2> DEFINE had == {staff[i] : i \in 1..n}
    <2>1. had \subseteq Staff BY <1>3
    <2>2. staff \in Bijection(1..n, had)
        BY <1>3 DEF Bijection, Injection, Surjection, IsInjective
    <2>3. Cardinality(had) = n BY <1>1, <2>2, FS_CountingElements DEF ExistsBijection
    <2>4. had = Staff
        <3> HIDE DEF had
        <3> QED BY <1>1, <2>1, <2>3, AccountConstants, FS_Subset
    <2> QED BY <1>4, <2>4
<1> DEFINE list(range) == Listed(staff, range)
<1>6. ASSUME NEW range \in Ranges
      PROVE  /\ list(range) \in Seq(Staff) /\ OneToOne(list(range))
             /\ \A u \in Staff : (\E i \in DOMAIN list(range) : list(range)[i] = u)
                                     <=> InRange(u, range)
    <2>1. range # "all" BY DEF Ranges
    <2>2. PICK q : q = list(range) /\ q = Listed(staff, range) OBVIOUS
    <2>3. /\ q \in Seq(Staff) /\ OneToOne(q)
          /\ \A u \in Staff : (\E i \in DOMAIN q : q[i] = u)
                 <=> \E i \in DOMAIN staff : staff[i] = u /\ InRange(u, range)
        BY <1>4, <2>1, <2>2, ListedIs
    <2> HIDE DEF list
    <2> QED BY <1>5, <2>2, <2>3
<1> HIDE DEF list
<1>7. \A limit \in 1..3, range \in Ranges :
          /\ Shown(staff, range, limit) = PagesOf(list(range), limit)
          /\ DirectoryPage(staff, range, 1, limit).total = Len(list(range))
    BY DEF DirectoryPage, Shown, PagesOf, list
<1>8. ASSUME NEW limit \in 1..3, NEW range \in Ranges
      PROVE  Cardinality(Shown(staff, range, limit)) = DirectoryPage(staff, range, 1, limit).total
    <2>1. PICK m : m = Len(list(range)) /\ m \in Nat BY <1>6
    <2>2. ExistsBijection(1..m, PagesOf(list(range), limit))
        BY <1>6, <2>1, PagesShow DEF ExistsBijection
    <2> QED BY <1>7, <2>1, <2>2, FS_CountingElements
<1>9. ASSUME NEW limit \in 1..3, NEW u \in Staff
      PROVE  Cardinality(UNION {{x \in Shown(staff, range, limit) : x[3] = u} : range \in Ranges}) = 1
    <2>1. PICK mine \in Ranges : /\ InRange(u, mine)
                                 /\ \A other \in Ranges : InRange(u, other) => other = mine
        BY OneRange
    <2>2. PICK q : q = list(mine) OBVIOUS
    <2>3. /\ q \in Seq(Staff) /\ OneToOne(q) /\ \E i \in DOMAIN q : q[i] = u
        BY <1>6, <2>1, <2>2
    <2>4. PICK k \in 1..Len(q) : q[k] = u BY <2>3
    <2>5. PICK f \in Bijection(1..Len(q), Shown(staff, mine, limit)) :
              \A i \in 1..Len(q) : f[i][3] = q[i]
        BY <1>7, <2>2, <2>3, PagesShow
    <2>6. /\ \A x \in Shown(staff, mine, limit) : \E i \in 1..Len(q) : f[i] = x
          /\ \A i \in 1..Len(q) : f[i] \in Shown(staff, mine, limit)
        BY <2>5 DEF Bijection, Injection, Surjection
    <2>7. \A x \in Shown(staff, mine, limit) : x[3] = u <=> x = f[k]
        BY <2>3, <2>4, <2>5, <2>6 DEF OneToOne
    <2>8. ASSUME NEW range \in Ranges, range # mine, NEW x \in Shown(staff, range, limit)
          PROVE  x[3] # u
        <3>1. PICK g \in Bijection(1..Len(list(range)), Shown(staff, range, limit)) :
                  \A i \in 1..Len(list(range)) : g[i][3] = list(range)[i]
            BY <1>6, <1>7, PagesShow
        <3>2. PICK i \in 1..Len(list(range)) : g[i] = x
            BY <3>1 DEF Bijection, Surjection
        <3>3. x[3] = list(range)[i] /\ i \in DOMAIN list(range) BY <1>6, <3>1, <3>2
        <3>4. ~InRange(u, range) BY <2>1, <2>8
        <3> QED BY <1>6, <3>3, <3>4
    <2>9. UNION {{x \in Shown(staff, range, limit) : x[3] = u} : range \in Ranges} = {f[k]}
        BY <2>1, <2>4, <2>6, <2>7, <2>8
    <2> QED BY <2>9, FS_Singleton
<1>10. EveryoneListedOnce <=>
           \A limit \in 1..3 :
               /\ \A u \in Staff :
                      Cardinality(UNION {{x \in Shown(staff, range, limit) : x[3] = u} :
                                             range \in Ranges}) = 1
               /\ \A range \in Ranges : Cardinality(Shown(staff, range, limit))
                                             = DirectoryPage(staff, range, 1, limit).total
    BY <1>2 DEF EveryoneListedOnce
<1> QED BY <1>8, <1>9, <1>10

LEMMA RollAlways == DirectorySpec => []RollOK
PROOF
<1>1. DirectoryInit => \A u \in Staff : roll[u].done <= roll[u].total
    <2>1. Idler.done <= Idler.total BY DEF Idler
    <2> QED BY <2>1 DEF DirectoryInit
<1>2. (\A u \in Staff : roll[u].done <= roll[u].total) /\ [DirectoryNext]_directoryVars
          => (\A u \in Staff : roll[u].done <= roll[u].total)'
    BY DEF DirectoryNext, NextDay, directoryVars
<1>3. DirectoryTypeOK /\ (\A u \in Staff : roll[u].done <= roll[u].total) => RollOK
    BY DEF RollOK
<1> QED BY <1>1, <1>2, <1>3, DatesAlways, PTL DEF DirectorySpec

\* For any staff and workload: the pages of the four completion ranges show
\* everyone once, as many as their totals say.
THEOREM PagesRight == DirectorySpec => []EveryoneListedOnce
PROOF
<1> QED BY ListedOnce, RollAlways, PTL

-----------------------------------------------------------------------------
(* The staff side as a whole: a behaviour of one scene is a behaviour of     *)
(* every component                                                           *)

LEMMA EveryComponent == Spec => AccountSpec /\ AdminSpec /\ DirectorySpec /\ LogSpec
PROOF
<1>1. Init => AccountInit /\ AdminInit /\ DirectoryInit /\ LogInit
    BY DEF Init, AccountStart, DirectoryStart
<1>2. [Next]_<<scene, accountVars, adminVars, directoryVars, logVars>>
        => /\ [AccountNext]_accountVars /\ [AdminNext]_adminVars
           /\ [DirectoryNext]_directoryVars /\ [LogNext]_logVars
    BY DEF Next
<1> QED BY <1>1, <1>2, PTL DEF Spec, AccountSpec, AdminSpec, DirectorySpec, LogSpec

\* Accounts, administrators' tables, calendar and log are well formed together,
\* for any staff, names, years and bounds.
THEOREM StaffTypeCorrect == Spec => []TypeOK
PROOF
<1>1. AccountInv => AccountTypeOK BY DEF AccountInv, Basis
<1>2. AdminInv => AdminTypeOK BY DEF AdminInv
<1>3. LogInv => LogTypeOK BY DEF LogInv
<1>4. AccountTypeOK /\ AdminTypeOK /\ DirectoryTypeOK /\ LogTypeOK => TypeOK BY DEF TypeOK
<1> QED BY <1>1, <1>2, <1>3, <1>4, EveryComponent, AccountAlways, AdminAlways, DatesAlways,
           LogAlways, PTL

\* Whatever the constants, the answers of the endpoints that only read fit
\* together: dates and weeks, pages and ranges, and the counts of the log.
THEOREM ViewsAreRight == Spec => []ViewsAgree
PROOF
<1>1. OccurrencesAgree /\ WeekAgrees /\ EveryoneListedOnce /\ CountsAgree => ViewsAgree
    BY DEF ViewsAgree, ListsAgree
<1> QED BY <1>1, EveryComponent, OccurrencesRight, WeekRight, PagesRight, CountsRight, PTL
================================================================================
