----------------------------- MODULE MCConsole -----------------------------
(***************************************************************************)
(* Instances of Console: two tabs, two users and two groups.                *)
(***************************************************************************)
EXTENDS Console, TLC

CONSTANTS t1, t2, u1, u2, g1, g2

Symmetry == Permutations(Tabs) \cup Permutations(Users) \cup Permutations(FormGroups)
=============================================================================
