---------------------------- MODULE MCLocalStream ----------------------------
(***************************************************************************)
(* Instances of LocalStream: publishes under one name.                      *)
(***************************************************************************)
EXTENDS LocalStream

CONSTANT n1

=============================================================================
