------------------------- MODULE MCRecordingLedger -------------------------
(***************************************************************************)
(* Instances of RecordingLedger.                                            *)
(***************************************************************************)
EXTENDS RecordingLedger

CONSTANTS n1, e1, s1, s2
=============================================================================
