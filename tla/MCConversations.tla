--------------------------- MODULE MCConversations ---------------------------
(* Model values and symmetry for the runs of Conversations *)
EXTENDS Conversations, TLC

CONSTANTS u1, u2, u3, s1, s2

UserSymmetry == Permutations(Users) \cup Permutations(Slots)
==============================================================================
