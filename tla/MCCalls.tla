------------------------------- MODULE MCCalls -------------------------------
(* Instances of Calls for TLC *)
EXTENDS Calls, TLC

CONSTANTS u1, u2, u3, k1, k2, k3, s1, s2, c1

OneEach      == k1 :> u1 @@ k2 :> u2 @@ k3 :> u3
OnePerUser   == k1 :> u1 @@ k2 :> u2
SlotSymmetry == Permutations(Slots)
=============================================================================
