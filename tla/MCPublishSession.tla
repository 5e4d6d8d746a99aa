-------------------------- MODULE MCPublishSession --------------------------
(***************************************************************************)
(* Instances of PublishSession: one connection, or two connections under    *)
(* one stream name in one event.                                            *)
(***************************************************************************)
EXTENDS PublishSession, TLC

CONSTANTS c1, c2, n1, e1

OneName == [c \in Conns |-> n1]
OneEvent == [c \in Conns |-> e1]

Faults == {"halfdead", "down"}

\* The connections of OneEvent are interchangeable.
ConnSymmetry == Permutations(Conns)
=============================================================================
