-------------------------------- MODULE Handlers --------------------------------
(***************************************************************************)
(* The request handlers of the smaller services: each reads, awaits, and   *)
(* writes what it has read with its change.  A handler in flight keeps the *)
(* thing it works on, a pair <<kind, id>>, and the object it will save.    *)
(*                                                                         *)
(* External: TypeORM's save of a loaded entity looks at the row again and  *)
(* writes the columns that differ from it, those another request has       *)
(* written meanwhile included; it inserts the row again when it is gone.   *)
(* The look and the write are two queries (Workplace!Merge).  Where no     *)
(* property tells them apart a save is one step here.                      *)
(***************************************************************************)
EXTENDS Workplace, Integers, FiniteSetsExt

CONSTANTS Ghost     \* an id that no row has

ASSUME StaffIsFinite == IsFiniteSet(Staff)

VARIABLES
    desk,       \* the handler in each slot
    calls,      \* requests that remain
    crossed     \* history: things that two handlers were at, at once

handlerVars == <<desk, calls, crossed>>

Idle == [pc |-> "idle", on |-> None, by |-> None, object |-> None, todo |-> {}, fit |-> {}]
At(pc, on, by, object) ==
    [Idle EXCEPT !.pc = pc, !.on = on, !.by = by, !.object = object]

Ready(s) == calls > 0 /\ desk[s].pc = "idle"
Busy(on) == \E s \in Slots : desk[s].on = on

\* A request takes slot s
Take(s, h) ==
    /\ Ready(s) /\ calls' = calls - 1
    /\ desk' = [desk EXCEPT ![s] = h]
    /\ crossed' = IF Busy(h.on) THEN crossed \cup {h.on} ELSE crossed

\* A request that is done in one step
Quick(on) ==
    /\ calls > 0 /\ calls' = calls - 1
    /\ crossed' = IF Busy(on) THEN crossed \cup {on} ELSE crossed
    /\ UNCHANGED desk

\* Slot s goes on as h; it answers, or fails
Goes(s, h) == desk' = [desk EXCEPT ![s] = h] /\ UNCHANGED <<calls, crossed>>
Ends(s) == Goes(s, Idle)

HandlersInit(most) ==
    /\ desk = [s \in Slots |-> Idle]
    /\ calls = most
    /\ crossed = {}
================================================================================
