--------------------------------- MODULE MCWork ---------------------------------
EXTENDS TaskViews, TLC

CONSTANTS a, b, s1, s2, p1, d1

\* An empty list, one person in two roles, and somebody beside nobody's id
Entries(n, m, none) == [u \in {a, b, Ghost} |-> CASE u = a -> n [] u = b -> m [] u = Ghost -> none]
MCLists == {Entries(0, 0, 0), Entries(2, 0, 0), Entries(0, 1, 1)}

Init == WorkInit
Next == WorkNext
Spec == Init /\ [][Next]_workVars

TypeOK == WorkTypeOK

Symmetry == Permutations(Slots)
================================================================================
