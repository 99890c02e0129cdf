------------------------------ MODULE ChatRooms ------------------------------
(***************************************************************************)
(* What chat promises when one request follows the other: rooms people are *)
(* in, and the messages shown there.  Module Conversations implements it.  *)
(***************************************************************************)
EXTENDS Naturals, FiniteSets

CONSTANTS Users, Convs, Posts

VARIABLES
    inside,  \* who is in a room
    shown    \* the messages a room shows

Grow(f, c, x) == f' = [f EXCEPT ![c] = @ \cup {x}]

\* People come in together, to a room that stays as it is
Enter == /\ \E c \in Convs, S \in SUBSET Users :
              inside' = [inside EXCEPT ![c] = @ \cup S]
         /\ UNCHANGED shown

\* One person goes, from one room or from several at once
Depart == /\ \E u \in Users, C \in SUBSET Convs :
               inside' = [c \in Convs |-> IF c \in C THEN inside[c] \ {u}
                                                     ELSE inside[c]]
          /\ UNCHANGED shown

\* A message that no room has shown appears in one room, on its own
Say == \E c \in Convs, m \in Posts :
         /\ \A d \in Convs : m \notin shown[d]
         /\ Grow(shown, c, m)
         /\ UNCHANGED inside

\* One message is taken down, and nobody moves
TakeDown == /\ \E c \in Convs, m \in Posts :
                 shown' = [shown EXCEPT ![c] = @ \ {m}]
            /\ UNCHANGED inside

\* A room is closed for everybody, with all it showed
Close == \E c \in Convs :
           /\ inside' = [inside EXCEPT ![c] = {}]
           /\ shown' = [shown EXCEPT ![c] = {}]

Init == inside = [c \in Convs |-> {}] /\ shown = [c \in Convs |-> {}]

Change == Enter \/ Depart \/ Say \/ TakeDown \/ Close

Spec == Init /\ [][Change]_<<inside, shown>>
==============================================================================
