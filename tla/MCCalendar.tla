----------------------------- MODULE MCCalendar -----------------------------
(* Values for the runs of Calendar: two ticks a day, one frequency *)
EXTENDS Calendar, TLC

CONSTANTS a, b, e1, e2, s1, s2

MCPeriod    == [daily |-> 2]
MCRepeats   == [daily |-> 2]
MCNamesakes == {}

Plain == [start |-> None, stop |-> None, invites |-> FALSE, who |-> {},
          recurring |-> None, freq |-> None, rule |-> None, end |-> None]
Once(start, stop, who) ==
    [Plain EXCEPT !.start = start, !.stop = stop, !.invites = TRUE,
                  !.who = who]
Daily(body) == [body EXCEPT !.recurring = TRUE, !.freq = "daily"]

MCCreates ==
    {Once(1, 4, {b}), Once(2, 3, {b})}
    \cup {[Daily(Once(2, 3, {b})) EXCEPT !.end = 3]}

MCUpdates ==
    {[Plain EXCEPT !.invites = TRUE, !.who = {a}],
     [Plain EXCEPT !.start = 2], [Plain EXCEPT !.recurring = FALSE],
     [Plain EXCEPT !.recurring = TRUE,
                    !.rule = [every |-> 1, count |-> 2, until |-> None]]}

\* An invitation of a, and an appointment of a's own, from before
MCEarlier ==
    {[NoRow EXCEPT !.by = b, !.who = {a}, !.start = 2, !.stop = 3],
     [NoRow EXCEPT !.by = a, !.start = 2, !.stop = 3]}

Symmetry == Permutations(Events) \cup Permutations(Slots)
=============================================================================
