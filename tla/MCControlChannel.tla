-------------------------- MODULE MCControlChannel --------------------------
(***************************************************************************)
(* Instances of ControlChannel, by the faults they allow.                   *)
(***************************************************************************)
EXTENDS ControlChannel

LinkFaults == {"cut", "drop", "slowAck"}
NodeFaults == LinkFaults \cup {"nodeRestart"}
AllFaults == NodeFaults \cup {"appRestart"}
=============================================================================
