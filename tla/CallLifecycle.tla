---------------------------- MODULE CallLifecycle ----------------------------
(***************************************************************************)
(* What the calls component promises of a call, whoever acts: it rings,    *)
(* it is answered or settled, a settled call is never active or ringing    *)
(* again, a group call ends only when nobody is in it, and one step        *)
(* changes the status or one user's presence, never both.                  *)
(***************************************************************************)
CONSTANTS Users, Calls

VARIABLES status, scope, joined

vars == <<status, scope, joined>>

Init == /\ status = [c \in Calls |-> "none"]
        /\ scope \in [Calls -> {"dm", "group"}]
        /\ joined = [c \in Calls |-> {}]

Become(c, st) == /\ status' = [status EXCEPT ![c] = st]
                 /\ UNCHANGED <<scope, joined>>

Ring(c, sc) == /\ status[c] = "none"
               /\ status' = [status EXCEPT ![c] = "ringing"]
               /\ scope' = [scope EXCEPT ![c] = sc]
               /\ UNCHANGED joined

Answer(c)  == status[c] = "ringing" /\ Become(c, "active")
Miss(c)    == status[c] = "ringing" /\ Become(c, "missed")
Decline(c) == status[c] # "none" /\ scope[c] = "dm" /\ Become(c, "declined")
End(c)     == /\ status[c] # "none"
              /\ scope[c] = "dm" \/ joined[c] = {}
              /\ Become(c, "ended")

Join(c, u) == /\ status[c] # "none"
              /\ joined' = [joined EXCEPT ![c] = @ \cup {u}]
              /\ UNCHANGED <<status, scope>>
Leave(c, u) == /\ joined' = [joined EXCEPT ![c] = @ \ {u}]
               /\ UNCHANGED <<status, scope>>

Next == \E c \in Calls :
          \/ \E sc \in {"dm", "group"} : Ring(c, sc)
          \/ Answer(c) \/ Miss(c) \/ Decline(c) \/ End(c)
          \/ \E u \in Users : Join(c, u) \/ Leave(c, u)

Spec == Init /\ [][Next]_vars
=============================================================================
