--------------------------- MODULE MCRecordingPull ---------------------------
(***************************************************************************)
(* Instances of RecordingPull.                                              *)
(***************************************************************************)
EXTENDS RecordingPull

CONSTANT r1

One == {r1}
SecondOnly == {2}
=============================================================================
