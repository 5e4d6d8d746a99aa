----------------------------- MODULE MCAccounts -----------------------------
(***************************************************************************)
(* Instances of Accounts: two browsers; one person has two addresses, the   *)
(* other has one and one that the rules refuse.                             *)
(***************************************************************************)
EXTENDS Accounts, TLC

CONSTANTS ann, bob, a1, a2, b1, b2, p, q, g1, i1, n1, n2

TwoEach == [e \in Addresses |-> IF e \in {a1, a2} THEN ann ELSE bob]

Symmetry == Permutations(Passwords) \cup Permutations(Names)
=============================================================================
