---------------------------- MODULE Publication ----------------------------
(***************************************************************************)
(* What the ingest platform promises about a publish, with no node, no     *)
(* control channel and no timers: a stream reaches the air only after the  *)
(* app listed it in its session ledger, one publisher at a time holds an   *)
(* ingest key (event, stream name), a publisher that left never comes back *)
(* under the same connection, and a ledger entry is opened once and ended  *)
(* once.  PublishSession implements this.                                  *)
(***************************************************************************)
CONSTANTS Pubs,     \* publishing attempts
          KeyOf     \* the ingest key each of them asks for

VARIABLES phase,    \* where each attempt stands: offstage, onair, gone
          ledger    \* its entry in the session ledger: unlisted, open, ended

vars == <<phase, ledger>>

Init ==
  /\ phase = [p \in Pubs |-> "offstage"]
  /\ ledger = [p \in Pubs |-> "unlisted"]

\* The app opens the entry.  The attempt may already have given up.
List(p) ==
  /\ ledger[p] = "unlisted"
  /\ phase[p] # "onair"
  /\ ledger' = [ledger EXCEPT ![p] = "open"]
  /\ UNCHANGED phase

GoOnAir(p) ==
  /\ phase[p] = "offstage"
  /\ ledger[p] # "unlisted"
  /\ \A q \in Pubs : phase[q] = "onair" => KeyOf[q] # KeyOf[p]
  /\ phase' = [phase EXCEPT ![p] = "onair"]
  /\ UNCHANGED ledger

\* Attempts give up or go off the air; a node crash takes several at once.
Leave(S) ==
  /\ S # {}
  /\ \A p \in S : phase[p] # "gone"
  /\ phase' = [p \in Pubs |-> IF p \in S THEN "gone" ELSE phase[p]]
  /\ UNCHANGED ledger

\* Entries are ended; the end of an event may end several at once.
Close(S) ==
  /\ S # {}
  /\ \A p \in S : ledger[p] = "open"
  /\ ledger' = [p \in Pubs |-> IF p \in S THEN "ended" ELSE ledger[p]]
  /\ UNCHANGED phase

Next ==
  \/ \E p \in Pubs : List(p) \/ GoOnAir(p)
  \/ \E S \in SUBSET Pubs : Leave(S) \/ Close(S)

Spec == Init /\ [][Next]_vars
=============================================================================
