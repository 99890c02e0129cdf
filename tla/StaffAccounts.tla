----------------------------- MODULE StaffAccounts -----------------------------
(***************************************************************************)
(* The rows of table staff and all that writes them: registration,         *)
(* passwords and their tokens, login, profile, roles, the CEO flag, soft   *)
(* and hard deletion (StaffRegisterService, AdminService), and isOnline,   *)
(* which the chat gateway writes as sockets come and go.                   *)
(*                                                                         *)
(* A handler loads a row, awaits (bcrypt, a lookup, a mail), and saves the *)
(* object it loaded.  External: save writes every column of the object     *)
(* that differs from the row as it is then, deletedAt and the eager roles  *)
(* among them; it leaves alone a column that is undefined, and inserts a   *)
(* row that is gone.  update, softDelete, restore write their own columns. *)
(***************************************************************************)
EXTENDS Workplace

CONSTANTS
    Roles,            \* rows of table roles
    Emails,           \* addresses; CeoEmail is the one configured for the CEO
    CeoEmail,
    MaxAccountCalls,  \* requests in a behaviour
    MaxSecrets,       \* passwords and tokens drawn in a behaviour
    MaxSockets        \* connections of one user

\* Null is no id and no address; the bounds are numbers, and a behaviour has a
\* secret at least, the password of those hired before it.
ASSUME AccountConstants ==
    /\ IsFiniteSet(Staff) /\ None \notin Staff \cup Emails
    /\ MaxAccountCalls \in Nat /\ MaxSecrets \in Nat \ {0} /\ MaxSockets \in Nat

VARIABLES
    account,   \* table staff
    serving,   \* the handler in each slot
    sockets,   \* the gateway's userSockets: how many sockets a user has
    status,    \* updateOnlineStatus calls on their way, per user
    lapsed,    \* secrets that were tokens and have expired
    budget,    \* what remains of each bound
    lastSet,   \* history: the password last set for each row
    dismissed, \* history: removed and not restored since
    spent,     \* history: reset tokens that have set a password
    reused,    \* history: rows whose password a spent token has set again
    raced,     \* history: rows saved from an object older than the row
    muddled,   \* history: users whose status writes crossed, or lost to a restart
    declared   \* history: rows that whoever registered them declared to be the CEO's

accountVars == <<account, serving, sockets, status, lapsed, budget,
                 lastSet, dismissed, spent, reused, raced, muddled, declared>>

-----------------------------------------------------------------------------
(* Rows and handlers *)

Secrets == 0..MaxSecrets    \* 0 is a null column

AccountRow == [row : BOOLEAN, email : Emails \cup {None}, password : Secrets,
               reset : Secrets, registration : Secrets, registered : BOOLEAN,
               roles : SUBSET Roles, online : BOOLEAN, ceo : BOOLEAN,
               deleted : BOOLEAN]
NoAccount == [row |-> FALSE, email |-> None, password |-> 0, reset |-> 0,
              registration |-> 0, registered |-> FALSE, roles |-> {},
              online |-> FALSE, ceo |-> FALSE, deleted |-> FALSE]

Calls == {"login", "change", "forgot", "reset", "complete", "profile",
          "assign", "unassign", "ceo", "soft", "hard"}
Idle == [op |-> "idle", pc |-> "idle", who |-> None, object |-> NoAccount,
         secret |-> 0, token |-> 0, stale |-> FALSE]
Handlers == [op : Calls \cup {"idle"}, pc : {"idle", "demote", "save"},
             who : Staff \cup {None}, object : AccountRow,
             secret : Secrets, token : Secrets, stale : BOOLEAN]

\* find without withDeleted leaves out the rows that are soft-deleted
Found(u) == account[u].row /\ ~account[u].deleted
EmailFree(e, u) == \A v \in Staff \ {u} : ~(account[v].row /\ account[v].email = e)
NextSecret == MaxSecrets + 1 - budget.secrets

AccountInit ==
    /\ \E hired, chief \in SUBSET Staff : \E at \in [Staff -> Emails] :
         /\ \A u, v \in Staff : at[u] = at[v] => u = v
         /\ chief \subseteq hired /\ Cardinality(chief) <= 1
         /\ account = [u \in Staff |-> IF u \notin hired THEN NoAccount ELSE
              [NoAccount EXCEPT !.row = TRUE, !.email = at[u], !.password = 1,
                                !.registered = TRUE, !.ceo = u \in chief]]
         /\ lastSet = [u \in Staff |-> IF u \in hired THEN 1 ELSE 0]
    /\ serving = [s \in Slots |-> Idle]
    /\ sockets = [u \in Staff |-> 0]
    /\ status = [u \in Staff |-> {}]
    /\ lapsed = {}
    /\ budget = [calls |-> MaxAccountCalls, secrets |-> MaxSecrets - 1, restarts |-> 1]
    /\ dismissed = {} /\ spent = {} /\ reused = {} /\ raced = {} /\ muddled = {}
    /\ declared = {}

-----------------------------------------------------------------------------
(* How a handler goes on, and what a write does to the other handlers *)

Spend(secrets) ==
    /\ budget.calls > 0 /\ budget.secrets >= secrets
    /\ budget' = [budget EXCEPT !.calls = @ - 1, !.secrets = @ - secrets]

\* Slot s goes on as h; every other handler that holds one of rows has it stale
Served(s, h, rows) ==
    serving' = [t \in Slots |->
        IF t = s THEN h
        ELSE [serving[t] EXCEPT !.stale = @ \/ serving[t].who \in rows]]

\* The calls that set a password
Secretive == {"change", "reset", "complete"}

\* A call by the API: the handler finds row u, and what it will save is object
Take(s, op, u, object) ==
    /\ serving[s].op = "idle"
    /\ serving' = [serving EXCEPT ![s] =
         [op |-> op, pc |-> IF op = "ceo" /\ object.ceo THEN "demote" ELSE "save",
          who |-> u, object |-> object, stale |-> FALSE,
          secret |-> IF op \in Secretive THEN NextSecret ELSE 0,
          token |-> IF op = "reset" THEN account[u].reset ELSE 0]]

-----------------------------------------------------------------------------
(* What each handler edits in the object it loaded *)

\* resetPassword: the new password, the token cleared
ResetObjectKept(row, secret) == [row EXCEPT !.password = secret]
ResetObject(row, secret) == [row EXCEPT !.password = secret, !.reset = 0]

\* completeRegistration assigns undefined to the token: save leaves the column
CompletedObjectKept(row, secret) == [row EXCEPT !.registered = TRUE]
CompletedObject(row, secret) ==
    [row EXCEPT !.password = secret, !.registered = TRUE]

\* Object.assign of the columns the client gave; val keeps those it left empty
ProfileObjectNulled(row, email) == [row EXCEPT !.email = None]
ProfileObject(row, email) == [row EXCEPT !.email = email]

-----------------------------------------------------------------------------
(* Requests: load, check, and keep the object *)

\* create: no row may have the address; the mail goes out inside the
\* transaction, and takes the row with it when it fails.  A temporary
\* password and a registration token are drawn; the rest of the row is what the
\* body, JSON that nothing validates, says, the CEO flag and the roles included.
Register(u, e, isCeo, rs) ==
    /\ lastSet[u] = 0 /\ EmailFree(e, u) /\ Spend(2)
    /\ \/ /\ account' = [account EXCEPT ![u] =
                 [NoAccount EXCEPT !.row = TRUE, !.email = e, !.ceo = isCeo, !.roles = rs,
                      !.password = NextSecret, !.registration = NextSecret + 1]]
          /\ lastSet' = [lastSet EXCEPT ![u] = NextSecret]
          /\ declared' = IF isCeo THEN declared \cup {u} ELSE declared
       \/ UNCHANGED <<account, lastSet, declared>>
    /\ UNCHANGED <<serving, sockets, status, lapsed, dismissed, spent, reused,
                   raced, muddled>>

\* The rest of a request that only reads before its await
Reading == UNCHANGED <<account, sockets, status, lapsed, lastSet, dismissed,
                       spent, reused, raced, muddled, declared>>

\* loginStaff: the password matches, and the object goes back with a new ip
Login(s, u) == /\ Found(u) /\ Spend(0)
               /\ Take(s, "login", u, account[u])
               /\ Reading

ChangePassword(s, u) ==
    /\ Found(u) /\ Spend(1)
    /\ Take(s, "change", u, [account[u] EXCEPT !.password = NextSecret])
    /\ Reading

ForgotPassword(s, u) ==
    /\ Found(u) /\ Spend(1)
    /\ Take(s, "forgot", u, [account[u] EXCEPT !.reset = NextSecret])
    /\ Reading

ResetPassword(s, u) ==
    /\ Found(u) /\ account[u].reset # 0 /\ account[u].reset \notin lapsed
    /\ Spend(1)
    /\ Take(s, "reset", u, ResetObject(account[u], NextSecret))
    /\ Reading

\* The client knows the password of the row, the temporary one as a rule
CompleteRegistration(s, u) ==
    /\ Found(u) /\ account[u].registration # 0
    /\ account[u].registration \notin lapsed
    /\ Spend(1)
    /\ Take(s, "complete", u, CompletedObject(account[u], NextSecret))
    /\ Reading

UpdateProfile(s, u, e) ==
    /\ Found(u) /\ Spend(0)
    /\ Take(s, "profile", u, ProfileObject(account[u], e))
    /\ Reading

AssignRoles(s, u, rs) ==
    /\ Found(u) /\ rs # {} /\ Spend(0)
    /\ Take(s, "assign", u, [account[u] EXCEPT !.roles = rs])
    /\ Reading

\* removeRole, removeProjectManagerRole, removeHrRole
RemoveRole(s, u, r) ==
    /\ Found(u) /\ Spend(0)
    /\ Take(s, "unassign", u, [account[u] EXCEPT !.roles = @ \ {r}])
    /\ Reading

\* toggleCeoStatus: for the row with the configured address only
ToggleCeo(s, u) ==
    /\ Found(u) /\ account[u].email = CeoEmail /\ Spend(0)
    /\ Take(s, "ceo", u, [account[u] EXCEPT !.ceo = ~@])
    /\ Reading

\* softDeleteStaff and remove look the row up before they delete it
AskDelete(s, u, op) ==
    /\ Found(u) /\ op \in {"soft", "hard"} /\ Spend(0)
    /\ Take(s, op, u, account[u])
    /\ Reading

-----------------------------------------------------------------------------
(* Writes *)

\* staffRepo.update({ isCeo: true }, { isCeo: false })
Demoted == [u \in Staff |-> [account[u] EXCEPT !.ceo = FALSE]]

DemoteOthers(s) ==
    /\ serving[s].pc = "demote"
    /\ account' = Demoted
    /\ Served(s, [serving[s] EXCEPT !.pc = "save"],
              {u \in Staff : account[u].ceo})
    /\ declared' = {}
    /\ UNCHANGED <<sockets, status, lapsed, budget, lastSet, dismissed, spent,
                   reused, raced, muddled>>

\* staffRepo.save of the object.  The unique index refuses an address that
\* another row has meanwhile.
Save(s) ==
    LET h == serving[s]  u == h.who IN
    /\ h.pc = "save" /\ h.op \in Calls \ {"soft", "hard"}
    /\ \/ /\ EmailFree(h.object.email, u)
          /\ account' = [account EXCEPT ![u] = h.object]
          /\ Served(s, Idle, {u})
          /\ raced' = IF h.stale THEN raced \cup {u} ELSE raced
          /\ lastSet' = IF h.op \in Secretive
                        THEN [lastSet EXCEPT ![u] = h.secret] ELSE lastSet
          /\ reused' = IF h.token \in spent THEN reused \cup {u} ELSE reused
          /\ spent' = spent \cup ({h.token} \ {0})
       \/ /\ ~EmailFree(h.object.email, u)
          /\ Served(s, Idle, {})
          /\ UNCHANGED <<account, raced, lastSet, reused, spent>>
    /\ UNCHANGED <<sockets, status, lapsed, budget, dismissed, muddled, declared>>

\* staffRepo.softDelete, staffRepo.delete
SoftDeleted(row) == [row EXCEPT !.deleted = TRUE]
Delete(s) ==
    LET h == serving[s]  u == h.who IN
    /\ h.pc = "save" /\ h.op \in {"soft", "hard"}
    /\ account' = IF account[u].row
                  THEN [account EXCEPT ![u] = IF h.op = "soft" THEN SoftDeleted(@)
                                                               ELSE NoAccount]
                  ELSE account
    /\ dismissed' = IF account[u].row THEN dismissed \cup {u} ELSE dismissed
    /\ Served(s, Idle, {u})
    /\ UNCHANGED <<sockets, status, lapsed, budget, lastSet, spent, reused,
                   raced, muddled, declared>>

\* restoreStaff: one update
Restore(u) ==
    /\ account[u].row /\ Spend(0)
    /\ account' = [account EXCEPT ![u].deleted = FALSE]
    /\ dismissed' = dismissed \ {u}
    /\ serving' = [t \in Slots |-> [serving[t] EXCEPT
                     !.stale = @ \/ (serving[t].who = u /\ account[u].deleted)]]
    /\ UNCHANGED <<sockets, status, lapsed, lastSet, spent, reused, raced, muddled,
                   declared>>

\* Ten minutes after forgotPassword, fifteen after create, a token is no longer
\* good: of one kind, the oldest first
Lapse ==
    /\ \E u \in Staff, column \in {"reset", "registration"} :
         LET k == account[u][column] IN
         /\ k \notin lapsed \cup {0}
         /\ \A v \in Staff : account[v][column] \in lapsed \cup {0} \cup k..MaxSecrets
         /\ lapsed' = lapsed \cup {k}
    /\ UNCHANGED <<account, serving, sockets, status, budget, lastSet, dismissed,
                   spent, reused, raced, muddled, declared>>

-----------------------------------------------------------------------------
(* Presence: ChatGateway *)

\* A status write of u is sent while an earlier one has not been answered
Crossing(u) == IF status[u] = {} THEN muddled ELSE muddled \cup {u}

\* handleConnection: only the first socket of a user writes the status
Connect(u) ==
    /\ lastSet[u] # 0 /\ sockets[u] < MaxSockets /\ Spend(0)
    /\ sockets' = [sockets EXCEPT ![u] = @ + 1]
    /\ IF sockets[u] = 0
       THEN /\ status' = [status EXCEPT ![u] = @ \cup {TRUE}]
            /\ muddled' = Crossing(u)
       ELSE UNCHANGED <<status, muddled>>
    /\ UNCHANGED <<account, serving, lapsed, lastSet, dismissed, spent, reused, raced,
                   declared>>

\* handleDisconnect: and only the last one
AnySocket(u) == sockets[u] > 0
LastSocket(u) == sockets[u] = 1
Disconnect(u) ==
    /\ sockets[u] > 0
    /\ sockets' = [sockets EXCEPT ![u] = @ - 1]
    /\ IF LastSocket(u)
       THEN /\ status' = [status EXCEPT ![u] = @ \cup {FALSE}]
            /\ muddled' = Crossing(u)
       ELSE UNCHANGED <<status, muddled>>
    /\ UNCHANGED <<account, serving, lapsed, budget, lastSet, dismissed, spent,
                   reused, raced, declared>>

\* updateOnlineStatus: UPDATE staff SET isOnline
WriteStatus(u) ==
    \E b \in status[u] :
        /\ status' = [status EXCEPT ![u] = @ \ {b}]
        /\ account' = IF account[u].row THEN [account EXCEPT ![u].online = b]
                                        ELSE account
        /\ serving' = [t \in Slots |-> [serving[t] EXCEPT
                         !.stale = @ \/ serving[t].who = u]]
        /\ UNCHANGED <<sockets, lapsed, budget, lastSet, dismissed, spent, reused,
                       raced, muddled, declared>>

\* The process restarts: handlers, sockets and unsent writes are gone, and
\* nobody writes the status of those who were online
Restart ==
    /\ budget.restarts > 0
    /\ budget' = [budget EXCEPT !.restarts = 0]
    /\ serving' = [s \in Slots |-> Idle]
    /\ sockets' = [u \in Staff |-> 0]
    /\ status' = [u \in Staff |-> {}]
    /\ muddled' = muddled \cup {u \in Staff : sockets[u] > 0 \/ status[u] # {}}
    /\ UNCHANGED <<account, lapsed, lastSet, dismissed, spent, reused, raced, declared>>

AccountRequest(s, u) ==
    \/ Login(s, u) \/ ChangePassword(s, u) \/ ForgotPassword(s, u)
    \/ ResetPassword(s, u) \/ CompleteRegistration(s, u) \/ ToggleCeo(s, u)
    \/ \E e \in Emails : UpdateProfile(s, u, e)
    \/ \E rs \in SUBSET Roles : AssignRoles(s, u, rs)
    \/ \E r \in Roles : RemoveRole(s, u, r)
    \/ \E op \in {"soft", "hard"} : AskDelete(s, u, op)

AccountNext ==
    \/ \E u \in Staff : \/ \E e \in Emails, isCeo \in BOOLEAN, rs \in SUBSET Roles :
                             Register(u, e, isCeo, rs)
                        \/ Restore(u) \/ Connect(u) \/ Disconnect(u)
                        \/ WriteStatus(u)
                        \/ \E s \in Slots : AccountRequest(s, u)
    \/ \E s \in Slots : DemoteOthers(s) \/ Save(s) \/ Delete(s)
    \/ Lapse \/ Restart

AccountSpec == AccountInit /\ [][AccountNext]_accountVars

-----------------------------------------------------------------------------
(* Properties *)

\* Rows, handlers and counters are of their kinds; a row has an address and a
\* password.
AccountTypeOK ==
    /\ account \in [Staff -> AccountRow]
    /\ \A u \in Staff : account[u].row =>
           account[u].email # None /\ account[u].password # 0
    /\ serving \in [Slots -> Handlers]
    /\ sockets \in [Staff -> 0..MaxSockets]
    /\ status \in [Staff -> SUBSET BOOLEAN]
    /\ lapsed \subseteq Secrets
    /\ budget \in [calls : 0..MaxAccountCalls, secrets : Secrets, restarts : 0..1]
    /\ lastSet \in [Staff -> Secrets]
    /\ spent \subseteq Secrets
    /\ dismissed \subseteq Staff /\ reused \subseteq Staff
    /\ raced \subseteq Staff /\ muddled \subseteq Staff
    /\ declared \subseteq Staff

\* The password that opens an account is the one that was set last: by the
\* registration, by its owner with the old one, or with a token.
PasswordIsLastSet ==
    \A u \in Staff : account[u].row /\ account[u].password # lastSet[u] => u \in raced

\* Who was removed, softly or for good, stays out until restored.
RemovedStaysOut == \A u \in dismissed : Found(u) => u \in raced

\* At most one row has the CEO flag by a toggle: whoever registers a row may give
\* it the flag, and nobody asks whether another has it.
OneCeo == raced = {} => Cardinality({u \in Staff : account[u].ceo} \ declared) <= 1

\* What was decided about an account stays decided: its password, its removal,
\* who is CEO by a toggle.  Only a save of an object loaded before another write of the row
\* undoes it: such a save writes the old columns back, deletedAt among them,
\* and inserts a row that is gone.
OnlyStaleSavesUndo == PasswordIsLastSet /\ RemovedStaysOut /\ OneCeo

\* A reset token sets a password once, unless two handlers had loaded it, or
\* a stale object brought it back.
ResetTokenWorksOnce == reused \subseteq raced

\* Once the status writes of a user are done, isOnline says whether the user
\* has a socket: wrong only after writes that crossed, a restart, a stale
\* object.
OnlineMeansSockets ==
    \A u \in Staff :
        /\ account[u].row /\ status[u] = {} /\ u \notin raced \cup muddled
        => account[u].online = (sockets[u] > 0)
================================================================================
