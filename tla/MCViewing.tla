----------------------------- MODULE MCViewing -----------------------------
(***************************************************************************)
(* Instances of Viewing.                                                    *)
(***************************************************************************)
EXTENDS Viewing

CONSTANTS s1, s2
=============================================================================
