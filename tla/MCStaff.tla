-------------------------------- MODULE MCStaff --------------------------------
(***************************************************************************)
(* The staff side of the system: the rows of table staff, the tables of    *)
(* the administrators, and the endpoints that only read.  The four modules *)
(* share no variable, and no handler of one reads what another writes; so  *)
(* each behaviour follows one of them, chosen at the start, and the others *)
(* stay as they are.                                                       *)
(***************************************************************************)
EXTENDS StaffAccounts, StaffDirectory, Administration, ActivityLog, TLC

CONSTANTS a, b, s1, s2, hr, ceo, mail, n1, n2

VARIABLE scene

AccountStart   == AccountInit /\ account = [u \in Staff |-> NoAccount]
DirectoryStart == DirectoryInit /\ today = DateAt(0) /\ date = DateAt(0)

Init ==
    \/ /\ scene = "accounts" /\ AccountInit
       /\ LogInit /\ AdminInit /\ DirectoryStart
    \/ /\ scene = "administration" /\ AdminInit
       /\ LogInit /\ AccountStart /\ DirectoryStart
    \/ /\ scene = "directory" /\ DirectoryInit
       /\ LogInit /\ AccountStart /\ AdminInit
    \/ /\ scene = "log" /\ LogInit
       /\ AccountStart /\ AdminInit /\ DirectoryStart

Next ==
    \/ /\ scene = "accounts" /\ AccountNext
       /\ UNCHANGED <<scene, logVars, adminVars, directoryVars>>
    \/ /\ scene = "administration" /\ AdminNext
       /\ UNCHANGED <<scene, logVars, accountVars, directoryVars>>
    \/ /\ scene = "directory" /\ DirectoryNext
       /\ UNCHANGED <<scene, logVars, accountVars, adminVars>>
    \/ /\ scene = "log" /\ LogNext
       /\ UNCHANGED <<scene, accountVars, adminVars, directoryVars>>

Spec == Init /\ [][Next]_<<scene, accountVars, adminVars, directoryVars, logVars>>

\* Every variable is of its type.
TypeOK == AccountTypeOK /\ AdminTypeOK /\ DirectoryTypeOK /\ LogTypeOK

\* What the read-only endpoints say of one state fits together: the lists of
\* days (StaffDirectory!ListsAgree), the pages (EveryoneListedOnce), and the counts
\* of the activity log (ActivityLog!CountsAgree).
ViewsAgree ==
    /\ scene = "directory" => ListsAgree /\ EveryoneListedOnce
    /\ scene = "log" => CountsAgree

Symmetry == Permutations(Staff) \cup Permutations(Slots)
================================================================================
