---------------------------- MODULE MCLiveBoard ----------------------------
(***************************************************************************)
(* Instances of LiveBoard.                                                  *)
(***************************************************************************)
EXTENDS LiveBoard

CONSTANTS t1, t2, u1, s1, n1, p1, p2, p3

\* Two tabs of one administrator.
OneOwner == [t \in Tabs |-> u1]
=============================================================================
