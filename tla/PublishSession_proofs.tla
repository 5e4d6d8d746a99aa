------------------------ MODULE PublishSession_proofs ------------------------
(***************************************************************************)
(* Proofs about PublishSession, for any connections, names, events and     *)
(* faults.                                                                 *)
(***************************************************************************)
EXTENDS PublishSession, TLAPS

Frames == [kind : {"metrics", "end"}, of : Conns]

\* The names of some connections are stream names.
LEMMA NamesTyped ==
  ASSUME NEW S \in SUBSET Conns PROVE {NameOf[c] : c \in S} \subseteq Names
BY ConstantsAssumption

\* Manager.End leaves the session table and the frames in flight well typed.
LEMMA EndSessionTyped ==
  ASSUME TypeOK, NEW n \in Names, EndSession(n)
  PROVE  wire' \subseteq Frames /\ sessions' \in [Names -> Conns \cup {None}]
<1>1. sessions' \in [Names -> Conns \cup {None}]
  BY DEF TypeOK, EndSession
<1>2. sessions[n] # None => Report("end", sessions[n]) \in Frames
  BY DEF TypeOK, Report, Frames
<1>3. wire' \subseteq Frames
  BY <1>2 DEF TypeOK, EndSession, Send, Frames
<1>4. QED
  BY <1>1, <1>3

\* Every step keeps the types.
LEMMA TypeStep ==
  ASSUME TypeOK
  PROVE  [Next]_vars => TypeOK'
<1> USE ConstantsAssumption DEF TypeOK, vars, nodeVars, linkVars, appVars, histVars, Leave
<1>1. ASSUME NEW c \in Conns, Publish(c) PROVE TypeOK'
  BY <1>1 DEF Publish
<1>2. ASSUME NEW c \in Conns, PolicyPasses(c) PROVE TypeOK'
  BY <1>2 DEF PolicyPasses
<1>3. ASSUME NEW c \in Conns, PolicyCloses(c) PROVE TypeOK'
  BY <1>3 DEF PolicyCloses
<1>4. ASSUME NEW c \in Conns, AskGate(c) PROVE TypeOK'
  BY <1>4 DEF AskGate
<1>5. ASSUME NEW c \in Conns, GateGrants(c) PROVE TypeOK'
  BY <1>5 DEF GateGrants
<1>6. ASSUME NEW c \in Conns, GateRefuses(c) PROVE TypeOK'
  BY <1>6 DEF GateRefuses
<1>7. ASSUME NEW c \in Conns, DialUpstream(c) PROVE TypeOK'
  BY <1>7 DEF DialUpstream
<1>8. ASSUME NEW c \in Conns, SrsAccepts(c) PROVE TypeOK'
  BY <1>8 DEF SrsAccepts
<1>9. ASSUME NEW c \in Conns, UpstreamFails(c) PROVE TypeOK'
  <2>1. NameOf[c] \in Names /\ EndSession(NameOf[c])
    BY <1>9 DEF UpstreamFails
  <2>2. wire' \subseteq Frames /\ sessions' \in [Names -> Conns \cup {None}]
    BY <2>1, EndSessionTyped
  <2> QED
    BY <1>9, <2>2 DEF UpstreamFails, Settle, Frames
<1>10. ASSUME NEW c \in Conns, Register(c) PROVE TypeOK'
  BY <1>10 DEF Register
<1>11. ASSUME NEW c \in Conns, ObsLeaves(c) PROVE TypeOK'
  BY <1>11 DEF ObsLeaves
<1>12. ASSUME NEW c \in Conns, SrsDrops(c) PROVE TypeOK'
  BY <1>12 DEF SrsDrops
<1>13. ASSUME NEW c \in Conns, DrainCloses(c) PROVE TypeOK'
  BY <1>13 DEF DrainCloses
<1>14. ASSUME NEW c \in Conns, Unregister(c) PROVE TypeOK'
  BY <1>14 DEF Unregister
<1>15. ASSUME NEW c \in Conns, Unpublish(c) PROVE TypeOK'
  <2>1. NameOf[c] \in Names /\ EndSession(NameOf[c])
    BY <1>15 DEF Unpublish
  <2>2. wire' \subseteq Frames /\ sessions' \in [Names -> Conns \cup {None}]
    BY <2>1, EndSessionTyped
  <2> QED
    BY <1>15, <2>2 DEF Unpublish, Settle, Frames
<1>16. ASSUME NEW c \in Conns, MonitorPolls(c) PROVE TypeOK'
  BY <1>16 DEF MonitorPolls
<1>17. ASSUME NEW c \in Conns, MonitorReports(c) PROVE TypeOK'
  <2>1. Report("metrics", c) \in Frames
    BY DEF Report, Frames
  <2>2. wire' \subseteq Frames
    BY <1>17, <2>1 DEF MonitorReports, Send, Frames
  <2> QED
    BY <1>17, <2>2 DEF MonitorReports, Frames
<1>18. ASSUME NEW c \in Conns, AppGrants(c) PROVE TypeOK'
  <2>1. rpc' \in [Conns -> {"none", "sent", "orphan", "lost", "allow", "deny"}]
    BY <1>18 DEF AppGrants, Answer
  <2>3. outaged' \subseteq Conns /\ row' \in [Conns -> {"none", "open", "ended"}]
    BY <1>18 DEF AppGrants
  <2> QED
    BY <1>18, <2>1, <2>3 DEF AppGrants
<1>20. ASSUME NEW c \in Conns, AppDenies(c) PROVE TypeOK'
  BY <1>20 DEF AppDenies, Answer
<1>21. ASSUME NEW c \in Conns, HandleMetrics(c) PROVE TypeOK'
  BY <1>21 DEF HandleMetrics
<1>22. ASSUME NEW c \in Conns, HandleEnd(c) PROVE TypeOK'
  BY <1>22 DEF HandleEnd, EndRows
<1>23. ASSUME NEW c \in Conns, FallsSilent(c) PROVE TypeOK'
  BY <1>23 DEF FallsSilent
<1>24. ASSUME NEW c \in Conns, CloseGhost(c) PROVE TypeOK'
  BY <1>24 DEF CloseGhost, EndRows
<1>25. ASSUME NEW n \in Names, KillStream(n) PROVE TypeOK'
  BY <1>25 DEF KillStream
<1>26. ASSUME NEW n \in Names, Ban(n) PROVE TypeOK'
  BY <1>26 DEF Ban, Kick
<1>27. ASSUME NEW n \in Names, Unban(n) PROVE TypeOK'
  BY <1>27 DEF Unban
<1>28. ASSUME NEW e \in Events, WindowOpens(e) PROVE TypeOK'
  BY <1>28 DEF WindowOpens
<1>29. ASSUME NEW e \in Events, AutoStart(e) PROVE TypeOK'
  BY <1>29 DEF AutoStart
<1>30. ASSUME NEW e \in Events, WindowCloses(e) PROVE TypeOK'
  BY <1>30 DEF WindowCloses
<1>31. ASSUME NEW e \in Events, AutoEnd(e) PROVE TypeOK'
  <2>1. eventState' \in [Events -> {"scheduled", "due", "live", "over", "ended"}]
    BY <1>31 DEF AutoEnd
  <2>2. kicks' \subseteq Names
    <3>1. {NameOf[c] : c \in OpenRows(e)} \subseteq Names
      BY NamesTyped DEF OpenRows
    <3> QED
      BY <1>31, <3>1 DEF AutoEnd, Kick
  <2>3. row' \in [Conns -> {"none", "open", "ended"}] /\ silent' \subseteq Conns
    BY <1>31 DEF AutoEnd, EndRows
  <2> QED
    BY <1>31, <2>1, <2>2, <2>3 DEF AutoEnd
<1>32. ASSUME NEW to \in LinkFaults, NEW read \in SUBSET Conns, LinkFails(to, read) PROVE TypeOK'
  BY <1>32 DEF LinkFails, LoseRpcs, OpenAtOutage
<1>33. ASSUME NEW to \in CrashFaults, NodeCrashes(to) PROVE TypeOK'
  BY <1>33 DEF NodeCrashes, Keys, OpenAtOutage
<1>34. CASE IdleTimeout BY <1>34 DEF IdleTimeout
<1>35. CASE Reconnect BY <1>35 DEF Reconnect
<1>36. CASE UNCHANGED vars BY <1>36
<1> QED
  BY <1>1, <1>2, <1>3, <1>4, <1>5, <1>6, <1>7, <1>8, <1>9, <1>10, <1>11,
    <1>12, <1>13, <1>14, <1>15, <1>16, <1>17, <1>18, <1>20, <1>21,
    <1>22, <1>23, <1>24, <1>25, <1>26, <1>27, <1>28, <1>29, <1>30, <1>31,
    <1>32, <1>33, <1>34, <1>35, <1>36
  DEF Next, Gateway, Monitor, App, Failure


-----------------------------------------------------------------------------
(* The inductive invariant.                                                 *)

\* The gate's allow, and everything after it, is backed by a row.
GrantsHaveRows ==
  \A c \in Conns : rpc[c] = "allow" \/ pc[c] \in Granted => row[c] # "none"

\* A relay handle belongs to a connection of that name that still relays.
HandlesOfRelays ==
  \A n \in Names, c \in Conns :
    relays[n] = c => pc[c] \in {"relaying", "closing"} /\ NameOf[c] = n

\* A session was started by a connection of that name that got its grant.
SessionsOfGranted ==
  \A n \in Names, c \in Conns :
    sessions[n] = c => pc[c] \in Granted \cup {"closed"} /\ NameOf[c] = n

\* Before a connection asks the gate, the app knows nothing of it.
UnaskedUnknown ==
  \A c \in Conns : pc[c] \in {"idle", "policy", "cleared"} =>
    rpc[c] = "none" /\ row[c] = "none" /\ c \notin silent /\ Report("end", c) \notin wire

\* A publish that waits for its grant, or got it and never shared its name.
Undisturbed(c) ==
  /\ c \notin outaged
  /\ pc[c] = "gate" \/ (pc[c] \in Granted /\ NameOf[c] \notin contested)

\* Nothing ends the row of such a publish, or is about to.
UndisturbedRowsOpen ==
  \A c \in Conns : Undisturbed(c) =>
    /\ row[c] # "ended"
    /\ c \notin silent
    /\ Report("end", c) \notin wire
    /\ row[c] = "open" => link = "up"

\* SRS carries a publisher from the moment it accepts it.
OnAirWasAccepted ==
  \A k \in Keys, c \in Conns :
    srs[k] = c => pc[c] \in {"accepted", "relaying", "closing", "unregistered", "closed"}

\* An unanswered publish:start has no row yet.
AskedHaveNoRow == \A c \in Conns : Asked(c) => row[c] = "none"

\* A session, and the report of its end, is about a row.
SessionsHaveRows ==
  \A c \in Conns :
    /\ \A n \in Names : sessions[n] = c => row[c] # "none"
    /\ Report("end", c) \in wire => row[c] # "none"

IInv ==
  /\ TypeOK
  /\ GrantsHaveRows
  /\ AuthorisedBeforeOnAir
  /\ HandlesOfRelays
  /\ SessionsOfGranted
  /\ SessionsTrackPublishes
  /\ SoleStreamKickable
  /\ UnaskedUnknown
  /\ UndisturbedRowsOpen
  /\ OnAirWasAccepted
  /\ AskedHaveNoRow
  /\ SessionsHaveRows

\* What the steps below need of TypeOK.
Shape ==
  /\ pc = [c \in Conns |-> pc[c]]
  /\ rpc = [c \in Conns |-> rpc[c]]
  /\ row = [c \in Conns |-> row[c]]
  /\ sessions \in [Names -> Conns \cup {None}]
  /\ relays \in [Names -> Conns \cup {None}]
  /\ srs \in [Keys -> Conns \cup {None}]

LEMMA TypedShape == TypeOK => Shape
<1> SUFFICES ASSUME TypeOK PROVE Shape
  OBVIOUS
<1>1. pc = [c \in Conns |-> pc[c]]
  BY DEF TypeOK
<1>2. rpc = [c \in Conns |-> rpc[c]]
  BY DEF TypeOK
<1>3. row = [c \in Conns |-> row[c]]
  BY DEF TypeOK
<1> QED
  BY <1>1, <1>2, <1>3 DEF TypeOK, Shape

LEMMA NoneIsNoConn == None \notin Conns
BY ConstantsAssumption

LEMMA NamesOfConns == \A c \in Conns : NameOf[c] \in Names
BY ConstantsAssumption

LEMMA ReportsDiffer ==
  \A c, d : /\ Report("metrics", c) # Report("end", d)
            /\ Report("end", c) = Report("end", d) => c = d
BY DEF Report

\* An allow, and a grant, keep their row.
LEMMA GrantsHaveRowsStep ==
  ASSUME Shape, GrantsHaveRows, HandlesOfRelays
  PROVE  [Next]_vars => GrantsHaveRows'
<1> USE NoneIsNoConn DEF Shape, Granted, vars, nodeVars, linkVars, appVars,
    histVars, Leave, GrantsHaveRows, HandlesOfRelays
<1>1. ASSUME NEW c \in Conns, Publish(c) \/ PolicyPasses(c) \/
               PolicyCloses(c) \/ DialUpstream(c) \/ ObsLeaves(c) \/
               DrainCloses(c)
      PROVE  GrantsHaveRows'
  BY <1>1 DEF Publish, PolicyPasses, PolicyCloses, DialUpstream, ObsLeaves,
    DrainCloses
<1>2. ASSUME NEW c \in Conns, AskGate(c) \/ GateRefuses(c) PROVE GrantsHaveRows'
  BY <1>2 DEF AskGate, GateRefuses
<1>3. ASSUME NEW c \in Conns, GateGrants(c) PROVE GrantsHaveRows'
  BY <1>3 DEF GateGrants, GrantedOn
<1>4. ASSUME NEW c \in Conns, SrsAccepts(c) PROVE GrantsHaveRows'
  BY <1>4 DEF SrsAccepts
<1>5. ASSUME NEW c \in Conns, UpstreamFails(c) PROVE GrantsHaveRows'
  BY <1>5 DEF UpstreamFails, EndSession, Send, Settle
<1>6. ASSUME NEW c \in Conns, Unpublish(c) PROVE GrantsHaveRows'
  BY <1>6 DEF Unpublish, EndSession, Send, Settle
<1>7. ASSUME NEW c \in Conns, Register(c) PROVE GrantsHaveRows'
  BY <1>7 DEF Register
<1>8. ASSUME NEW c \in Conns, Unregister(c) PROVE GrantsHaveRows'
  BY <1>8 DEF Unregister
<1>9. ASSUME NEW c \in Conns, AppGrants(c) PROVE GrantsHaveRows'
  BY <1>9 DEF AppGrants, Answer, Asked
<1>10. ASSUME NEW c \in Conns, AppDenies(c) PROVE GrantsHaveRows'
  BY <1>10 DEF Answer, Asked, AppDenies
<1>11. ASSUME NEW c \in Conns, HandleEnd(c) \/ CloseGhost(c) PROVE GrantsHaveRows'
  BY <1>11 DEF HandleEnd, EndRows, CloseGhost
<1>12. ASSUME NEW n \in Names, KillStream(n) PROVE GrantsHaveRows'
  BY <1>12 DEF KillStream
<1>13. ASSUME NEW e \in Events, AutoEnd(e) PROVE GrantsHaveRows'
  BY <1>13 DEF AutoEnd, EndRows, OpenRows
<1>14. ASSUME NEW to \in LinkFaults, NEW read \in SUBSET Conns, LinkFails(to, read)
      PROVE  GrantsHaveRows'
  BY <1>14 DEF LinkFails, LoseRpcs, OpenAtOutage
<1>15. ASSUME NEW to \in CrashFaults, NodeCrashes(to) PROVE GrantsHaveRows'
  BY <1>15 DEF NodeCrashes, OpenAtOutage, Asked
<1>16. CASE
      \/ \E c \in Conns : SrsDrops(c) \/ MonitorPolls(c) \/
           MonitorReports(c) \/ HandleMetrics(c) \/ FallsSilent(c)
      \/ \E n \in Names : Ban(n) \/ Unban(n)
      \/ \E e \in Events : WindowOpens(e) \/ AutoStart(e) \/ WindowCloses(e)
      \/ IdleTimeout \/ Reconnect \/ UNCHANGED vars
  <2>1. UNCHANGED <<rpc, pc, row>>
    BY <1>16 DEF SrsDrops, MonitorPolls, MonitorReports, HandleMetrics,
      FallsSilent, Ban, Unban, WindowOpens, AutoStart, WindowCloses,
      IdleTimeout, Reconnect
  <2> QED
    BY <2>1
<1> QED
  BY <1>1, <1>2, <1>3, <1>4, <1>5, <1>6, <1>7, <1>8, <1>9, <1>10,
    <1>11, <1>12, <1>13, <1>14, <1>15,
    <1>16
  DEF Next, Gateway, Monitor, App, Failure
\* The kick registry keeps handles of relaying connections only.
LEMMA HandlesOfRelaysStep ==
  ASSUME Shape, HandlesOfRelays
  PROVE  [Next]_vars => HandlesOfRelays'
<1> USE NoneIsNoConn DEF Shape, Granted, vars, nodeVars, linkVars, appVars,
    histVars, Leave, HandlesOfRelays
<1>1. ASSUME NEW c \in Conns, Publish(c) \/ PolicyPasses(c) \/
               PolicyCloses(c) \/ DialUpstream(c) \/ ObsLeaves(c) \/
               DrainCloses(c)
      PROVE  HandlesOfRelays'
  BY <1>1 DEF Publish, PolicyPasses, PolicyCloses, DialUpstream, ObsLeaves,
    DrainCloses
<1>2. ASSUME NEW c \in Conns, AskGate(c) \/ GateRefuses(c) PROVE HandlesOfRelays'
  BY <1>2 DEF AskGate, GateRefuses
<1>3. ASSUME NEW c \in Conns, GateGrants(c) PROVE HandlesOfRelays'
  BY <1>3 DEF GateGrants, GrantedOn
<1>4. ASSUME NEW c \in Conns, SrsAccepts(c) PROVE HandlesOfRelays'
  BY <1>4 DEF SrsAccepts
<1>5. ASSUME NEW c \in Conns, UpstreamFails(c) PROVE HandlesOfRelays'
  BY <1>5 DEF UpstreamFails, EndSession, Send, Settle
<1>6. ASSUME NEW c \in Conns, Unpublish(c) PROVE HandlesOfRelays'
  BY <1>6 DEF Unpublish, EndSession, Send, Settle
<1>7. ASSUME NEW c \in Conns, Register(c) PROVE HandlesOfRelays'
  BY <1>7 DEF Register
<1>8. ASSUME NEW c \in Conns, Unregister(c) PROVE HandlesOfRelays'
  BY <1>8 DEF Unregister
<1>9. ASSUME NEW n \in Names, KillStream(n) PROVE HandlesOfRelays'
  BY <1>9 DEF KillStream
<1>10. ASSUME NEW to \in CrashFaults, NodeCrashes(to) PROVE HandlesOfRelays'
  BY <1>10 DEF NodeCrashes, OpenAtOutage, Asked
<1>11. CASE
      \/ \E c \in Conns : SrsDrops(c) \/ MonitorPolls(c) \/
           MonitorReports(c) \/ HandleMetrics(c) \/ FallsSilent(c) \/
           AppGrants(c) \/ AppDenies(c) \/
           HandleEnd(c) \/ CloseGhost(c)
      \/ \E n \in Names : Ban(n) \/ Unban(n)
      \/ \E e \in Events : WindowOpens(e) \/ AutoStart(e) \/
           WindowCloses(e) \/ AutoEnd(e)
      \/ \E to \in LinkFaults, read \in SUBSET Conns : LinkFails(to, read)
      \/ IdleTimeout \/ Reconnect \/ UNCHANGED vars
  <2>1. UNCHANGED <<relays, pc>>
    BY <1>11 DEF SrsDrops, MonitorPolls, MonitorReports, HandleMetrics,
      FallsSilent, AppGrants, AppDenies, HandleEnd,
      CloseGhost, Ban, Unban, WindowOpens, AutoStart, WindowCloses, AutoEnd,
      LinkFails, IdleTimeout, Reconnect
  <2> QED
    BY <2>1
<1> QED
  BY <1>1, <1>2, <1>3, <1>4, <1>5, <1>6, <1>7, <1>8, <1>9, <1>10,
    <1>11
  DEF Next, Gateway, Monitor, App, Failure
\* SRS keeps authorised publishers only.
LEMMA AuthorisedStep ==
  ASSUME Shape, GrantsHaveRows, AuthorisedBeforeOnAir
  PROVE  [Next]_vars => AuthorisedBeforeOnAir'
<1> USE NoneIsNoConn DEF Shape, Granted, vars, nodeVars, linkVars, appVars,
    histVars, Leave, GrantsHaveRows, AuthorisedBeforeOnAir
<1>1. ASSUME NEW c \in Conns, SrsAccepts(c) PROVE AuthorisedBeforeOnAir'
  BY <1>1 DEF SrsAccepts
<1>2. ASSUME NEW c \in Conns, SrsDrops(c) PROVE AuthorisedBeforeOnAir'
  BY <1>2 DEF SrsDrops
<1>3. ASSUME NEW c \in Conns, AppGrants(c) PROVE AuthorisedBeforeOnAir'
  BY <1>3 DEF AppGrants
<1>4. ASSUME NEW c \in Conns, HandleEnd(c) \/ CloseGhost(c) PROVE AuthorisedBeforeOnAir'
  BY <1>4 DEF HandleEnd, EndRows, CloseGhost
<1>5. ASSUME NEW e \in Events, AutoEnd(e) PROVE AuthorisedBeforeOnAir'
  BY <1>5 DEF AutoEnd, EndRows, OpenRows
<1>6. ASSUME NEW to \in CrashFaults, NodeCrashes(to) PROVE AuthorisedBeforeOnAir'
  BY <1>6 DEF NodeCrashes, OpenAtOutage, Asked
<1>7. CASE
      \/ \E c \in Conns : Publish(c) \/ PolicyPasses(c) \/ PolicyCloses(c) \/
           DialUpstream(c) \/ ObsLeaves(c) \/ DrainCloses(c) \/ AskGate(c) \/
           GateRefuses(c) \/ GateGrants(c) \/ UpstreamFails(c) \/
           Unpublish(c) \/ Register(c) \/ Unregister(c) \/ MonitorPolls(c) \/
           MonitorReports(c) \/ HandleMetrics(c) \/ FallsSilent(c) \/
           AppDenies(c)
      \/ \E n \in Names : KillStream(n) \/ Ban(n) \/ Unban(n)
      \/ \E e \in Events : WindowOpens(e) \/ AutoStart(e) \/ WindowCloses(e)
      \/ \E to \in LinkFaults, read \in SUBSET Conns : LinkFails(to, read)
      \/ IdleTimeout \/ Reconnect \/ UNCHANGED vars
  <2>1. UNCHANGED <<srs, row>>
    BY <1>7 DEF Publish, PolicyPasses, PolicyCloses, DialUpstream, ObsLeaves,
      DrainCloses, AskGate, GateRefuses, GateGrants, UpstreamFails,
      Unpublish, Register, Unregister, MonitorPolls, MonitorReports,
      HandleMetrics, FallsSilent, AppDenies, KillStream,
      Ban, Unban, WindowOpens, AutoStart, WindowCloses, LinkFails,
      IdleTimeout, Reconnect
  <2> QED
    BY <2>1
<1> QED
  BY <1>1, <1>2, <1>3, <1>4, <1>5, <1>6,
    <1>7
  DEF Next, Gateway, Monitor, App, Failure
\* A session is started on a grant, under the name of its connection.
LEMMA SessionsOfGrantedStep ==
  ASSUME Shape, SessionsOfGranted, HandlesOfRelays
  PROVE  [Next]_vars => SessionsOfGranted'
<1> USE NoneIsNoConn DEF Shape, Granted, vars, nodeVars, linkVars, appVars,
    histVars, Leave, SessionsOfGranted, HandlesOfRelays
<1>1. ASSUME NEW c \in Conns, Publish(c) \/ PolicyPasses(c) \/
               PolicyCloses(c) \/ DialUpstream(c) \/ ObsLeaves(c) \/
               DrainCloses(c)
      PROVE  SessionsOfGranted'
  BY <1>1 DEF Publish, PolicyPasses, PolicyCloses, DialUpstream, ObsLeaves,
    DrainCloses
<1>2. ASSUME NEW c \in Conns, AskGate(c) \/ GateRefuses(c) PROVE SessionsOfGranted'
  BY <1>2 DEF AskGate, GateRefuses
<1>3. ASSUME NEW c \in Conns, GateGrants(c) PROVE SessionsOfGranted'
  <2>1. \A n \in Names : sessions'[n] = sessions[n] \/ (n = NameOf[c] /\ sessions'[n] = c)
    BY <1>3 DEF GateGrants
  <2>2. \A d \in Conns : pc'[d] = IF d = c THEN "granted" ELSE pc[d]
    BY <1>3 DEF GateGrants
  <2>3. \A d \in Conns : pc[d] \in Granted \cup {"closed"} => pc'[d] \in Granted \cup {"closed"}
    BY <2>2
  <2>4. QED
    BY <2>1, <2>2, <2>3
<1>4. ASSUME NEW c \in Conns, SrsAccepts(c) PROVE SessionsOfGranted'
  BY <1>4 DEF SrsAccepts
<1>5. ASSUME NEW c \in Conns, UpstreamFails(c) PROVE SessionsOfGranted'
  BY <1>5 DEF UpstreamFails, EndSession
<1>6. ASSUME NEW c \in Conns, Unpublish(c) PROVE SessionsOfGranted'
  BY <1>6 DEF Unpublish, EndSession
<1>7. ASSUME NEW c \in Conns, Register(c) PROVE SessionsOfGranted'
  BY <1>7 DEF Register
<1>8. ASSUME NEW c \in Conns, Unregister(c) PROVE SessionsOfGranted'
  BY <1>8 DEF Unregister
<1>9. ASSUME NEW n \in Names, KillStream(n) PROVE SessionsOfGranted'
  BY <1>9 DEF KillStream
<1>10. ASSUME NEW to \in CrashFaults, NodeCrashes(to) PROVE SessionsOfGranted'
  BY <1>10 DEF NodeCrashes, OpenAtOutage, Asked
<1>11. CASE
      \/ \E c \in Conns : SrsDrops(c) \/ MonitorPolls(c) \/
           MonitorReports(c) \/ HandleMetrics(c) \/ FallsSilent(c) \/
           AppGrants(c) \/ AppDenies(c) \/
           HandleEnd(c) \/ CloseGhost(c)
      \/ \E n \in Names : Ban(n) \/ Unban(n)
      \/ \E e \in Events : WindowOpens(e) \/ AutoStart(e) \/
           WindowCloses(e) \/ AutoEnd(e)
      \/ \E to \in LinkFaults, read \in SUBSET Conns : LinkFails(to, read)
      \/ IdleTimeout \/ Reconnect \/ UNCHANGED vars
  <2>1. UNCHANGED <<sessions, pc>>
    BY <1>11 DEF SrsDrops, MonitorPolls, MonitorReports, HandleMetrics,
      FallsSilent, AppGrants, AppDenies, HandleEnd,
      CloseGhost, Ban, Unban, WindowOpens, AutoStart, WindowCloses, AutoEnd,
      LinkFails, IdleTimeout, Reconnect
  <2> QED
    BY <2>1
<1> QED
  BY <1>1, <1>2, <1>3, <1>4, <1>5, <1>6, <1>7, <1>8, <1>9, <1>10,
    <1>11
  DEF Next, Gateway, Monitor, App, Failure

\* A granted publish that leaves changes the grants of its own name only.
LEMMA GrantsAfterLeaving ==
  ASSUME Shape, NEW c \in Conns, pc' = [pc EXCEPT ![c] = "closed"], NEW n \in Names
  PROVE  GrantedOn(n)' = GrantedOn(n) \ {c}
BY DEF Shape, GrantedOn, Granted

\* End, and the settling of the name, keep the session table in line.
LEMMA LeavingTracked ==
  ASSUME Shape, SessionsTrackPublishes, NEW c \in Conns, pc[c] \in Granted,
         pc' = [pc EXCEPT ![c] = "closed"],
         sessions' = [sessions EXCEPT ![NameOf[c]] = None], Settle(c)
  PROVE  SessionsTrackPublishes'
<1> SUFFICES ASSUME NEW n \in Names
             PROVE  /\ sessions'[n] # None => GrantedOn(n)' # {}
                    /\ n \notin contested' => \A d \in GrantedOn(n)' : sessions'[n] = d
  BY DEF SessionsTrackPublishes
<1>1. GrantedOn(n)' = GrantedOn(n) \ {c}
  BY GrantsAfterLeaving
<1>2. CASE n # NameOf[c]
  <2>1. c \notin GrantedOn(n)
    BY <1>2 DEF GrantedOn
  <2>2. sessions'[n] = sessions[n] /\ (n \in contested' <=> n \in contested)
    BY <1>2 DEF Shape, Settle
  <2> QED
    BY <1>1, <2>1, <2>2 DEF SessionsTrackPublishes
<1>3. CASE n = NameOf[c]
  <2>1. sessions'[n] = None
    BY <1>3 DEF Shape
  <2>2. c \in GrantedOn(n)
    BY <1>3 DEF GrantedOn
  <2>3. n \notin contested' => GrantedOn(n) = {c}
    BY <1>3, <2>2 DEF Settle, SessionsTrackPublishes
  <2> QED
    BY <1>1, <2>1, <2>3
<1> QED
  BY <1>2, <1>3

\* The session table goes on tracking the publishes.
LEMMA SessionsTrackStep ==
  ASSUME Shape, SessionsTrackPublishes, HandlesOfRelays
  PROVE  [Next]_vars => SessionsTrackPublishes'
<1> USE NoneIsNoConn DEF Shape, Granted, vars, nodeVars, linkVars, appVars,
    histVars, Leave, SessionsTrackPublishes, HandlesOfRelays, GrantedOn
<1>1. ASSUME NEW c \in Conns, Publish(c) \/ PolicyPasses(c) \/
               PolicyCloses(c) \/ DialUpstream(c) \/ ObsLeaves(c) \/
               DrainCloses(c)
      PROVE  SessionsTrackPublishes'
  BY <1>1 DEF Publish, PolicyPasses, PolicyCloses, DialUpstream, ObsLeaves,
    DrainCloses
<1>2. ASSUME NEW c \in Conns, AskGate(c) \/ GateRefuses(c) PROVE SessionsTrackPublishes'
  BY <1>2 DEF AskGate, GateRefuses
<1>3. ASSUME NEW c \in Conns, GateGrants(c) PROVE SessionsTrackPublishes'
  <2> DEFINE own == NameOf[c]
  <2>1. own \in Names /\ c # None
    BY ConstantsAssumption
  <2>2. /\ pc[c] = "gate" /\ pc' = [pc EXCEPT ![c] = "granted"]
        /\ sessions' = [sessions EXCEPT ![own] = IF @ = None THEN c ELSE @]
        /\ contested' = IF GrantedOn(own) = {} THEN contested ELSE contested \cup {own}
    BY <1>3 DEF GateGrants
  <2>3. GrantedOn(own)' = GrantedOn(own) \cup {c}
    BY <2>1, <2>2
  <2>4. ASSUME NEW m \in Names, m # own
        PROVE  GrantedOn(m)' = GrantedOn(m) /\ sessions'[m] = sessions[m]
                 /\ (m \in contested' <=> m \in contested)
    BY <2>1, <2>2, <2>4
  <2>5. sessions'[own] # None /\ GrantedOn(own)' # {}
    BY <2>1, <2>2, <2>3
  <2>6. ASSUME own \notin contested'
        PROVE  \A d \in GrantedOn(own)' : sessions'[own] = d
    <3>1. GrantedOn(own) = {} /\ sessions[own] = None
      BY <2>1, <2>2, <2>6
    <3>2. GrantedOn(own)' = {c} /\ sessions'[own] = c
      BY <2>1, <2>2, <2>3, <3>1
    <3>3. QED
      BY <3>2
  <2>7. ASSUME NEW m \in Names
        PROVE  /\ sessions'[m] # None => GrantedOn(m)' # {}
               /\ m \notin contested' => \A d \in GrantedOn(m)' : sessions'[m] = d
    <3> HIDE DEF GrantedOn, own
    <3>1. CASE m = own
      BY <3>1, <2>5, <2>6
    <3>2. CASE m # own
      BY <3>2, <2>4
    <3>3. QED
      BY <3>1, <3>2
  <2>8. QED
    BY <2>7
<1>4. ASSUME NEW c \in Conns, SrsAccepts(c) PROVE SessionsTrackPublishes'
  BY <1>4 DEF SrsAccepts
<1>5. ASSUME NEW c \in Conns, UpstreamFails(c) PROVE SessionsTrackPublishes'
  <2> HIDE DEF SessionsTrackPublishes, GrantedOn, Shape
  <2> QED
    BY <1>5, LeavingTracked DEF UpstreamFails, EndSession
<1>6. ASSUME NEW c \in Conns, Unpublish(c) PROVE SessionsTrackPublishes'
  <2> HIDE DEF SessionsTrackPublishes, GrantedOn, Shape
  <2> QED
    BY <1>6, LeavingTracked DEF Unpublish, EndSession
<1>7. ASSUME NEW c \in Conns, Register(c) PROVE SessionsTrackPublishes'
  BY <1>7 DEF Register
<1>8. ASSUME NEW c \in Conns, Unregister(c) PROVE SessionsTrackPublishes'
  BY <1>8 DEF Unregister
<1>9. ASSUME NEW n \in Names, KillStream(n) PROVE SessionsTrackPublishes'
  BY <1>9 DEF KillStream
<1>10. ASSUME NEW to \in CrashFaults, NodeCrashes(to) PROVE SessionsTrackPublishes'
  BY <1>10 DEF NodeCrashes, OpenAtOutage, Asked
<1>11. CASE
      \/ \E c \in Conns : SrsDrops(c) \/ MonitorPolls(c) \/
           MonitorReports(c) \/ HandleMetrics(c) \/ FallsSilent(c) \/
           AppGrants(c) \/ AppDenies(c) \/
           HandleEnd(c) \/ CloseGhost(c)
      \/ \E n \in Names : Ban(n) \/ Unban(n)
      \/ \E e \in Events : WindowOpens(e) \/ AutoStart(e) \/
           WindowCloses(e) \/ AutoEnd(e)
      \/ \E to \in LinkFaults, read \in SUBSET Conns : LinkFails(to, read)
      \/ IdleTimeout \/ Reconnect \/ UNCHANGED vars
  <2>1. UNCHANGED <<sessions, pc, contested>>
    BY <1>11 DEF SrsDrops, MonitorPolls, MonitorReports, HandleMetrics,
      FallsSilent, AppGrants, AppDenies, HandleEnd,
      CloseGhost, Ban, Unban, WindowOpens, AutoStart, WindowCloses, AutoEnd,
      LinkFails, IdleTimeout, Reconnect
  <2> QED
    BY <2>1
<1> QED
  BY <1>1, <1>2, <1>3, <1>4, <1>5, <1>6, <1>7, <1>8, <1>9, <1>10,
    <1>11
  DEF Next, Gateway, Monitor, App, Failure
\* A relay alone under its name keeps its handle.
LEMMA KickableStep ==
  ASSUME Shape, SoleStreamKickable, SessionsTrackPublishes, HandlesOfRelays
  PROVE  [Next]_vars => SoleStreamKickable'
<1> USE NoneIsNoConn DEF Shape, Granted, vars, nodeVars, linkVars, appVars,
    histVars, Leave, SoleStreamKickable, SessionsTrackPublishes,
    HandlesOfRelays, GrantedOn
<1>1. ASSUME NEW c \in Conns, Publish(c) \/ PolicyPasses(c) \/
               PolicyCloses(c) \/ DialUpstream(c) \/ ObsLeaves(c) \/
               DrainCloses(c)
      PROVE  SoleStreamKickable'
  BY <1>1 DEF Publish, PolicyPasses, PolicyCloses, DialUpstream, ObsLeaves,
    DrainCloses
<1>2. ASSUME NEW c \in Conns, AskGate(c) \/ GateRefuses(c) PROVE SoleStreamKickable'
  BY <1>2 DEF AskGate, GateRefuses
<1>3. ASSUME NEW c \in Conns, GateGrants(c) PROVE SoleStreamKickable'
  BY <1>3 DEF GateGrants, GrantedOn
<1>4. ASSUME NEW c \in Conns, SrsAccepts(c) PROVE SoleStreamKickable'
  BY <1>4 DEF SrsAccepts
<1>5. ASSUME NEW c \in Conns, UpstreamFails(c) PROVE SoleStreamKickable'
  BY <1>5 DEF UpstreamFails, EndSession, Settle
<1>6. ASSUME NEW c \in Conns, Unpublish(c) PROVE SoleStreamKickable'
  BY <1>6 DEF Unpublish, EndSession, Settle
<1>7. ASSUME NEW c \in Conns, Register(c) PROVE SoleStreamKickable'
  <2> SUFFICES ASSUME NEW d \in Conns, pc'[d] = "relaying", NameOf[d] \notin contested'
               PROVE  relays'[NameOf[d]] = d
    OBVIOUS
  <2>1. CASE d = c
    BY <1>7, <2>1, NamesOfConns DEF Register
  <2>2. CASE d # c
    <3>1. pc[d] = "relaying" /\ NameOf[d] \notin contested
      BY <1>7, <2>2 DEF Register
    <3>2. NameOf[d] # NameOf[c]
      BY <1>7, <2>2, <3>1, NamesOfConns DEF Register
    <3> QED
      BY <1>7, <3>1, <3>2, NamesOfConns DEF Register
  <2> QED
    BY <2>1, <2>2
<1>8. ASSUME NEW c \in Conns, Unregister(c) PROVE SoleStreamKickable'
  BY <1>8 DEF Unregister
<1>9. ASSUME NEW n \in Names, KillStream(n) PROVE SoleStreamKickable'
  BY <1>9 DEF KillStream
<1>10. ASSUME NEW to \in CrashFaults, NodeCrashes(to) PROVE SoleStreamKickable'
  BY <1>10 DEF NodeCrashes, OpenAtOutage, Asked
<1>11. CASE
      \/ \E c \in Conns : SrsDrops(c) \/ MonitorPolls(c) \/
           MonitorReports(c) \/ HandleMetrics(c) \/ FallsSilent(c) \/
           AppGrants(c) \/ AppDenies(c) \/
           HandleEnd(c) \/ CloseGhost(c)
      \/ \E n \in Names : Ban(n) \/ Unban(n)
      \/ \E e \in Events : WindowOpens(e) \/ AutoStart(e) \/
           WindowCloses(e) \/ AutoEnd(e)
      \/ \E to \in LinkFaults, read \in SUBSET Conns : LinkFails(to, read)
      \/ IdleTimeout \/ Reconnect \/ UNCHANGED vars
  <2>1. UNCHANGED <<pc, contested, relays>>
    BY <1>11 DEF SrsDrops, MonitorPolls, MonitorReports, HandleMetrics,
      FallsSilent, AppGrants, AppDenies, HandleEnd,
      CloseGhost, Ban, Unban, WindowOpens, AutoStart, WindowCloses, AutoEnd,
      LinkFails, IdleTimeout, Reconnect
  <2> QED
    BY <2>1
<1> QED
  BY <1>1, <1>2, <1>3, <1>4, <1>5, <1>6, <1>7, <1>8, <1>9, <1>10,
    <1>11
  DEF Next, Gateway, Monitor, App, Failure

\* The one report End sends is about the session it took.
LEMMA EndSessionReports ==
  ASSUME NEW n \in Names, EndSession(n), NEW c \in Conns,
         Report("end", c) \in wire', Report("end", c) \notin wire
  PROVE  sessions[n] = c
BY ReportsDiffer DEF EndSession, Send

\* The end of an event touches open rows only, and none while the node is online.
LEMMA EventEndRows ==
  ASSUME NEW e \in Events, AutoEnd(e), NEW c \in Conns
  PROVE  /\ (row[c] # "open" \/ link # "down") => row'[c] = row[c]
         /\ silent' \subseteq silent
<1>1. CASE NodeOnline
  BY <1>1 DEF AutoEnd
<1>2. CASE ~NodeOnline
  BY <1>2 DEF AutoEnd, EndRows, OpenRows, NodeOnline
<1> QED
  BY <1>1, <1>2

\* The app learns of a connection by its publish:start only.
LEMMA UnaskedStep ==
  ASSUME Shape, UnaskedUnknown, SessionsOfGranted, HandlesOfRelays
  PROVE  [Next]_vars => UnaskedUnknown'
<1> USE NoneIsNoConn, ReportsDiffer DEF Shape, Granted, vars, nodeVars,
    linkVars, appVars, histVars, Leave, UnaskedUnknown, SessionsOfGranted,
    HandlesOfRelays
<1>1. ASSUME NEW c \in Conns, Publish(c) \/ PolicyPasses(c) \/
               PolicyCloses(c) \/ DialUpstream(c) \/ ObsLeaves(c) \/
               DrainCloses(c)
      PROVE  UnaskedUnknown'
  BY <1>1 DEF Publish, PolicyPasses, PolicyCloses, DialUpstream, ObsLeaves,
    DrainCloses
<1>2. ASSUME NEW c \in Conns, AskGate(c) \/ GateRefuses(c) PROVE UnaskedUnknown'
  BY <1>2 DEF AskGate, GateRefuses
<1>3. ASSUME NEW c \in Conns, GateGrants(c) PROVE UnaskedUnknown'
  BY <1>3 DEF GateGrants, GrantedOn
<1>4. ASSUME NEW c \in Conns, SrsAccepts(c) PROVE UnaskedUnknown'
  BY <1>4 DEF SrsAccepts
<1>5. ASSUME NEW c \in Conns, UpstreamFails(c) PROVE UnaskedUnknown'
  <2>1. NameOf[c] \in Names /\ EndSession(NameOf[c])
    BY <1>5, NamesOfConns DEF UpstreamFails
  <2>2. ASSUME NEW d \in Conns, Report("end", d) \in wire', Report("end", d) \notin wire
        PROVE  pc[d] \in Granted \cup {"closed"}
    BY <2>1, <2>2, EndSessionReports
  <2> QED
    BY <1>5, <2>2 DEF UpstreamFails
<1>6. ASSUME NEW c \in Conns, Unpublish(c) PROVE UnaskedUnknown'
  <2>1. NameOf[c] \in Names /\ EndSession(NameOf[c])
    BY <1>6, NamesOfConns DEF Unpublish
  <2>2. ASSUME NEW d \in Conns, Report("end", d) \in wire', Report("end", d) \notin wire
        PROVE  pc[d] \in Granted \cup {"closed"}
    BY <2>1, <2>2, EndSessionReports
  <2> QED
    BY <1>6, <2>2 DEF Unpublish
<1>7. ASSUME NEW c \in Conns, Register(c) PROVE UnaskedUnknown'
  BY <1>7 DEF Register
<1>8. ASSUME NEW c \in Conns, Unregister(c) PROVE UnaskedUnknown'
  BY <1>8 DEF Unregister
<1>9. ASSUME NEW c \in Conns, MonitorReports(c) \/ HandleMetrics(c) \/
               FallsSilent(c)
      PROVE  UnaskedUnknown'
  BY <1>9 DEF MonitorReports, Send, HandleMetrics, FallsSilent
<1>10. ASSUME NEW c \in Conns, AppGrants(c) PROVE UnaskedUnknown'
  BY <1>10 DEF AppGrants, Answer, Asked
<1>11. ASSUME NEW c \in Conns, AppDenies(c) PROVE UnaskedUnknown'
  <2>1. UNCHANGED <<pc, row, silent, wire>> /\ rpc[c] # "none"
    BY <1>11 DEF AppDenies, Asked
  <2>2. \A d \in Conns : d # c => rpc'[d] = rpc[d]
    BY <1>11 DEF AppDenies, Answer
  <2> QED
    BY <2>1, <2>2
<1>12. ASSUME NEW c \in Conns, HandleEnd(c) \/ CloseGhost(c) PROVE UnaskedUnknown'
  BY <1>12 DEF HandleEnd, EndRows, CloseGhost
<1>13. ASSUME NEW n \in Names, KillStream(n) PROVE UnaskedUnknown'
  BY <1>13 DEF KillStream
<1>14. ASSUME NEW e \in Events, AutoEnd(e) PROVE UnaskedUnknown'
  <2>1. UNCHANGED <<pc, rpc, wire>>
    BY <1>14 DEF AutoEnd
  <2>2. \A d \in Conns : row[d] = "none" => row'[d] = "none"
    BY <1>14, EventEndRows
  <2> QED
    BY <1>14, <2>1, <2>2, EventEndRows
<1>15. ASSUME NEW to \in LinkFaults, NEW read \in SUBSET Conns, LinkFails(to, read)
      PROVE  UnaskedUnknown'
  BY <1>15 DEF LinkFails, LoseRpcs, OpenAtOutage
<1>16. ASSUME NEW to \in CrashFaults, NodeCrashes(to) PROVE UnaskedUnknown'
  BY <1>16 DEF NodeCrashes, OpenAtOutage, Asked
<1>17. CASE
      \/ \E c \in Conns : SrsDrops(c) \/ MonitorPolls(c)
      \/ \E n \in Names : Ban(n) \/ Unban(n)
      \/ \E e \in Events : WindowOpens(e) \/ AutoStart(e) \/ WindowCloses(e)
      \/ IdleTimeout \/ Reconnect \/ UNCHANGED vars
  <2>1. UNCHANGED <<pc, rpc, row, silent, wire>>
    BY <1>17 DEF SrsDrops, MonitorPolls, Ban, Unban, WindowOpens, AutoStart,
      WindowCloses, IdleTimeout, Reconnect
  <2> QED
    BY <2>1
<1> QED
  BY <1>1, <1>2, <1>3, <1>4, <1>5, <1>6, <1>7, <1>8, <1>9, <1>10,
    <1>11, <1>12, <1>13, <1>14, <1>15, <1>16,
    <1>17
  DEF Next, Gateway, Monitor, App, Failure
\* The row of an undisturbed publish stays open.
LEMMA UndisturbedStep ==
  ASSUME Shape, UndisturbedRowsOpen, UnaskedUnknown, SessionsOfGranted, SessionsTrackPublishes,
         HandlesOfRelays
  PROVE  [Next]_vars => UndisturbedRowsOpen'
<1> USE NoneIsNoConn, ReportsDiffer DEF Shape, Granted, vars, nodeVars,
    linkVars, appVars, histVars, Leave, UndisturbedRowsOpen, Undisturbed,
    SessionsOfGranted, HandlesOfRelays
<1>1. ASSUME NEW c \in Conns, Publish(c) \/ PolicyPasses(c) \/
               PolicyCloses(c) \/ DialUpstream(c) \/ ObsLeaves(c) \/
               DrainCloses(c)
      PROVE  UndisturbedRowsOpen'
  BY <1>1 DEF Publish, PolicyPasses, PolicyCloses, DialUpstream, ObsLeaves,
    DrainCloses
<1>2. ASSUME NEW c \in Conns, AskGate(c) \/ GateRefuses(c) PROVE UndisturbedRowsOpen'
  BY <1>2 DEF AskGate, GateRefuses, UnaskedUnknown
<1>3. ASSUME NEW c \in Conns, GateGrants(c) PROVE UndisturbedRowsOpen'
  BY <1>3 DEF GateGrants, GrantedOn
<1>4. ASSUME NEW c \in Conns, SrsAccepts(c) PROVE UndisturbedRowsOpen'
  BY <1>4 DEF SrsAccepts
<1>5. ASSUME NEW c \in Conns, UpstreamFails(c) PROVE UndisturbedRowsOpen'
  <2>1. NameOf[c] \in Names /\ EndSession(NameOf[c]) /\ pc[c] \in Granted
    BY <1>5, NamesOfConns DEF UpstreamFails
  <2>2. ASSUME NEW d \in Conns, Undisturbed(d)'
        PROVE  /\ Undisturbed(d)
               /\ NameOf[d] = NameOf[c] => pc[d] = "gate"
    <3>1. d # c
      BY <1>5, <2>2 DEF UpstreamFails
    <3>2. CASE pc[d] = "gate"
      BY <1>5, <2>2, <3>2 DEF UpstreamFails
    <3>3. CASE pc[d] # "gate"
      <4>1. pc[d] \in Granted /\ NameOf[d] \notin contested'
        BY <1>5, <2>2, <3>1, <3>3 DEF UpstreamFails
      <4>2. GrantedOn(NameOf[c]) # {c} \/ NameOf[d] # NameOf[c]
        BY <3>1, <4>1 DEF GrantedOn
      <4>3. NameOf[d] \notin contested
        BY <1>5, <4>1, <4>2 DEF UpstreamFails, Settle
      <4>4. NameOf[d] # NameOf[c]
        BY <2>1, <3>1, <4>1, <4>3 DEF SessionsTrackPublishes, GrantedOn
      <4> QED
        BY <1>5, <2>2, <4>1, <4>3, <4>4 DEF UpstreamFails
    <3> QED
      BY <3>2, <3>3
  <2>3. ASSUME NEW d \in Conns, Undisturbed(d)', Report("end", d) \in wire',
               Report("end", d) \notin wire
        PROVE  FALSE
    <3>1. sessions[NameOf[c]] = d
      BY <2>1, <2>3, EndSessionReports
    <3> QED
      BY <2>1, <2>2, <2>3, <3>1
  <2> QED
    BY <1>5, <2>2, <2>3 DEF UpstreamFails
<1>6. ASSUME NEW c \in Conns, Unpublish(c) PROVE UndisturbedRowsOpen'
  <2>1. NameOf[c] \in Names /\ EndSession(NameOf[c]) /\ pc[c] \in Granted
    BY <1>6, NamesOfConns DEF Unpublish
  <2>2. ASSUME NEW d \in Conns, Undisturbed(d)'
        PROVE  /\ Undisturbed(d)
               /\ NameOf[d] = NameOf[c] => pc[d] = "gate"
    <3>1. d # c
      BY <1>6, <2>2 DEF Unpublish
    <3>2. CASE pc[d] = "gate"
      BY <1>6, <2>2, <3>2 DEF Unpublish
    <3>3. CASE pc[d] # "gate"
      <4>1. pc[d] \in Granted /\ NameOf[d] \notin contested'
        BY <1>6, <2>2, <3>1, <3>3 DEF Unpublish
      <4>2. GrantedOn(NameOf[c]) # {c} \/ NameOf[d] # NameOf[c]
        BY <3>1, <4>1 DEF GrantedOn
      <4>3. NameOf[d] \notin contested
        BY <1>6, <4>1, <4>2 DEF Unpublish, Settle
      <4>4. NameOf[d] # NameOf[c]
        BY <2>1, <3>1, <4>1, <4>3 DEF SessionsTrackPublishes, GrantedOn
      <4> QED
        BY <1>6, <2>2, <4>1, <4>3, <4>4 DEF Unpublish
    <3> QED
      BY <3>2, <3>3
  <2>3. ASSUME NEW d \in Conns, Undisturbed(d)', Report("end", d) \in wire',
               Report("end", d) \notin wire
        PROVE  FALSE
    <3>1. sessions[NameOf[c]] = d
      BY <2>1, <2>3, EndSessionReports
    <3> QED
      BY <2>1, <2>2, <2>3, <3>1
  <2> QED
    BY <1>6, <2>2, <2>3 DEF Unpublish
<1>7. ASSUME NEW c \in Conns, Register(c) PROVE UndisturbedRowsOpen'
  BY <1>7 DEF Register
<1>8. ASSUME NEW c \in Conns, Unregister(c) PROVE UndisturbedRowsOpen'
  BY <1>8 DEF Unregister
<1>9. ASSUME NEW c \in Conns, MonitorReports(c) \/ HandleMetrics(c) \/
               FallsSilent(c)
      PROVE  UndisturbedRowsOpen'
  <2>1. CASE HandleMetrics(c)
    BY <2>1 DEF HandleMetrics
  <2>2. CASE MonitorReports(c)
    BY <2>2 DEF MonitorReports, Send
  <2>3. CASE FallsSilent(c)
    <3>1. ~Undisturbed(c)
      <4> SUFFICES ASSUME Undisturbed(c) PROVE FALSE
        OBVIOUS
      <4>1. link = "up" /\ pc[c] # "gate"
        BY <2>3 DEF FallsSilent, Transient
      <4>2. pc[c] = "relaying" /\ srs[KeyOf[c]] = c
        BY <2>3, <4>1 DEF FallsSilent, Transient
      <4>3. sessions[NameOf[c]] = c
        BY <4>1, NamesOfConns DEF SessionsTrackPublishes, GrantedOn
      <4>4. InSrs(NameOf[c])
        BY <4>2, ConstantsAssumption DEF InSrs, KeyOf
      <4> QED
        BY <2>3, <4>1, <4>3, <4>4 DEF FallsSilent, Reporting
    <3> QED
      BY <2>3, <3>1 DEF FallsSilent
  <2> QED
    BY <1>9, <2>1, <2>2, <2>3
<1>10. ASSUME NEW c \in Conns, AppGrants(c) PROVE UndisturbedRowsOpen'
  BY <1>10 DEF AppGrants
<1>11. ASSUME NEW c \in Conns, HandleEnd(c) \/ CloseGhost(c) PROVE UndisturbedRowsOpen'
  BY <1>11 DEF HandleEnd, EndRows, CloseGhost
<1>12. ASSUME NEW n \in Names, KillStream(n) PROVE UndisturbedRowsOpen'
  BY <1>12 DEF KillStream
<1>13. ASSUME NEW e \in Events, AutoEnd(e) PROVE UndisturbedRowsOpen'
  <2>1. UNCHANGED <<pc, wire, link, outaged, contested>>
    BY <1>13 DEF AutoEnd
  <2>2. \A d \in Conns : row[d] # "open" \/ link = "up" => row'[d] = row[d]
    BY <1>13, EventEndRows
  <2> QED
    BY <1>13, <2>1, <2>2, EventEndRows
<1>14. ASSUME NEW to \in LinkFaults, NEW read \in SUBSET Conns, LinkFails(to, read)
      PROVE  UndisturbedRowsOpen'
  BY <1>14 DEF LinkFails, LoseRpcs, OpenAtOutage
<1>15. ASSUME NEW to \in CrashFaults, NodeCrashes(to) PROVE UndisturbedRowsOpen'
  BY <1>15 DEF NodeCrashes, OpenAtOutage, Asked
<1>16. CASE IdleTimeout \/ Reconnect
  BY <1>16 DEF IdleTimeout, Reconnect
<1>17. CASE
      \/ \E c \in Conns : SrsDrops(c) \/ MonitorPolls(c) \/
           AppDenies(c)
      \/ \E n \in Names : Ban(n) \/ Unban(n)
      \/ \E e \in Events : WindowOpens(e) \/ AutoStart(e) \/ WindowCloses(e)
      \/ UNCHANGED vars
  <2>1. UNCHANGED <<pc, outaged, contested, row, silent, wire, link>>
    BY <1>17 DEF SrsDrops, MonitorPolls, AppDenies, Ban,
      Unban, WindowOpens, AutoStart, WindowCloses
  <2> QED
    BY <2>1
<1> QED
  BY <1>1, <1>2, <1>3, <1>4, <1>5, <1>6, <1>7, <1>8, <1>9, <1>10,
    <1>11, <1>12, <1>13, <1>14, <1>15, <1>16,
    <1>17
  DEF Next, Gateway, Monitor, App, Failure
\* SRS carries accepted publishers only.
LEMMA OnAirStep ==
  ASSUME Shape, OnAirWasAccepted, HandlesOfRelays
  PROVE  [Next]_vars => OnAirWasAccepted'
<1> USE NoneIsNoConn DEF Shape, Granted, vars, nodeVars, linkVars, appVars,
    histVars, Leave, OnAirWasAccepted, HandlesOfRelays
<1>1. ASSUME NEW c \in Conns, Publish(c) \/ PolicyPasses(c) \/
               PolicyCloses(c) \/ DialUpstream(c) \/ ObsLeaves(c) \/
               DrainCloses(c)
      PROVE  OnAirWasAccepted'
  BY <1>1 DEF Publish, PolicyPasses, PolicyCloses, DialUpstream, ObsLeaves,
    DrainCloses
<1>2. ASSUME NEW c \in Conns, AskGate(c) \/ GateRefuses(c) PROVE OnAirWasAccepted'
  BY <1>2 DEF AskGate, GateRefuses
<1>3. ASSUME NEW c \in Conns, GateGrants(c) PROVE OnAirWasAccepted'
  BY <1>3 DEF GateGrants, GrantedOn
<1>4. ASSUME NEW c \in Conns, SrsAccepts(c) PROVE OnAirWasAccepted'
  BY <1>4 DEF SrsAccepts
<1>5. ASSUME NEW c \in Conns, SrsDrops(c) PROVE OnAirWasAccepted'
  BY <1>5 DEF SrsDrops
<1>6. ASSUME NEW c \in Conns, UpstreamFails(c) PROVE OnAirWasAccepted'
  BY <1>6 DEF UpstreamFails, EndSession, Send, Settle
<1>7. ASSUME NEW c \in Conns, Unpublish(c) PROVE OnAirWasAccepted'
  BY <1>7 DEF Unpublish, EndSession, Send, Settle
<1>8. ASSUME NEW c \in Conns, Register(c) PROVE OnAirWasAccepted'
  BY <1>8 DEF Register
<1>9. ASSUME NEW c \in Conns, Unregister(c) PROVE OnAirWasAccepted'
  BY <1>9 DEF Unregister
<1>10. ASSUME NEW n \in Names, KillStream(n) PROVE OnAirWasAccepted'
  BY <1>10 DEF KillStream
<1>11. ASSUME NEW to \in CrashFaults, NodeCrashes(to) PROVE OnAirWasAccepted'
  BY <1>11 DEF NodeCrashes, OpenAtOutage, Asked
<1>12. CASE
      \/ \E c \in Conns : MonitorPolls(c) \/ MonitorReports(c) \/
           HandleMetrics(c) \/ FallsSilent(c) \/ AppGrants(c) \/
           AppDenies(c) \/ HandleEnd(c) \/ CloseGhost(c)
      \/ \E n \in Names : Ban(n) \/ Unban(n)
      \/ \E e \in Events : WindowOpens(e) \/ AutoStart(e) \/
           WindowCloses(e) \/ AutoEnd(e)
      \/ \E to \in LinkFaults, read \in SUBSET Conns : LinkFails(to, read)
      \/ IdleTimeout \/ Reconnect \/ UNCHANGED vars
  <2>1. UNCHANGED <<srs, pc>>
    BY <1>12 DEF MonitorPolls, MonitorReports, HandleMetrics, FallsSilent,
      AppGrants, AppDenies, HandleEnd, CloseGhost, Ban,
      Unban, WindowOpens, AutoStart, WindowCloses, AutoEnd, LinkFails,
      IdleTimeout, Reconnect
  <2> QED
    BY <2>1
<1> QED
  BY <1>1, <1>2, <1>3, <1>4, <1>5, <1>6, <1>7, <1>8, <1>9, <1>10,
    <1>11, <1>12
  DEF Next, Gateway, Monitor, App, Failure
\* A row appears with the answer.
LEMMA AskedStep ==
  ASSUME Shape, AskedHaveNoRow, UnaskedUnknown, SessionsHaveRows
  PROVE  [Next]_vars => AskedHaveNoRow'
<1> USE NoneIsNoConn DEF Shape, Granted, vars, nodeVars, linkVars, appVars,
    histVars, Leave, AskedHaveNoRow, UnaskedUnknown, SessionsHaveRows, Asked
<1>1. ASSUME NEW c \in Conns, AskGate(c) \/ GateRefuses(c) PROVE AskedHaveNoRow'
  BY <1>1 DEF AskGate, GateRefuses
<1>2. ASSUME NEW c \in Conns, GateGrants(c) PROVE AskedHaveNoRow'
  BY <1>2 DEF GateGrants, GrantedOn
<1>3. ASSUME NEW c \in Conns, AppGrants(c) PROVE AskedHaveNoRow'
  BY <1>3 DEF AppGrants, Answer, Asked
<1>4. ASSUME NEW c \in Conns, AppDenies(c) PROVE AskedHaveNoRow'
  BY <1>4 DEF Answer, Asked, AppDenies
<1>5. ASSUME NEW c \in Conns, HandleEnd(c) \/ CloseGhost(c) PROVE AskedHaveNoRow'
  BY <1>5 DEF HandleEnd, EndRows, CloseGhost
<1>6. ASSUME NEW e \in Events, AutoEnd(e) PROVE AskedHaveNoRow'
  BY <1>6 DEF AutoEnd, EndRows, OpenRows
<1>7. ASSUME NEW to \in LinkFaults, NEW read \in SUBSET Conns, LinkFails(to, read)
      PROVE  AskedHaveNoRow'
  BY <1>7 DEF LinkFails, LoseRpcs, OpenAtOutage
<1>8. ASSUME NEW to \in CrashFaults, NodeCrashes(to) PROVE AskedHaveNoRow'
  BY <1>8 DEF NodeCrashes, OpenAtOutage, Asked
<1>9. CASE
      \/ \E c \in Conns : Publish(c) \/ PolicyPasses(c) \/ PolicyCloses(c) \/
           DialUpstream(c) \/ ObsLeaves(c) \/ DrainCloses(c) \/
           SrsAccepts(c) \/ SrsDrops(c) \/ UpstreamFails(c) \/
           Unpublish(c) \/ Register(c) \/ Unregister(c) \/ MonitorPolls(c) \/
           MonitorReports(c) \/ HandleMetrics(c) \/ FallsSilent(c)
      \/ \E n \in Names : KillStream(n) \/ Ban(n) \/ Unban(n)
      \/ \E e \in Events : WindowOpens(e) \/ AutoStart(e) \/ WindowCloses(e)
      \/ IdleTimeout \/ Reconnect \/ UNCHANGED vars
  <2>1. UNCHANGED <<rpc, row>>
    BY <1>9 DEF Publish, PolicyPasses, PolicyCloses, DialUpstream, ObsLeaves,
      DrainCloses, SrsAccepts, SrsDrops, UpstreamFails, Unpublish, Register,
      Unregister, MonitorPolls, MonitorReports, HandleMetrics, FallsSilent,
      KillStream, Ban, Unban, WindowOpens, AutoStart, WindowCloses,
      IdleTimeout, Reconnect
  <2> QED
    BY <2>1
<1> QED
  BY <1>1, <1>2, <1>3, <1>4, <1>5, <1>6, <1>7, <1>8,
    <1>9
  DEF Next, Gateway, Monitor, App, Failure
\* Sessions and their ends are about rows.
LEMMA SessionsHaveRowsStep ==
  ASSUME Shape, SessionsHaveRows, GrantsHaveRows
  PROVE  [Next]_vars => SessionsHaveRows'
<1> USE NoneIsNoConn, ReportsDiffer DEF Shape, Granted, vars, nodeVars,
    linkVars, appVars, histVars, Leave, SessionsHaveRows, GrantsHaveRows
<1>1. ASSUME NEW c \in Conns, GateGrants(c) PROVE SessionsHaveRows'
  BY <1>1 DEF GateGrants, GrantedOn
<1>2. ASSUME NEW c \in Conns, UpstreamFails(c) PROVE SessionsHaveRows'
  <2>1. NameOf[c] \in Names /\ EndSession(NameOf[c])
    BY <1>2, NamesOfConns DEF UpstreamFails
  <2>2. \A d \in Conns : Report("end", d) \in wire' => row[d] # "none"
    BY <2>1, EndSessionReports
  <2> QED
    BY <1>2, <2>1, <2>2 DEF UpstreamFails, EndSession
<1>3. ASSUME NEW c \in Conns, Unpublish(c) PROVE SessionsHaveRows'
  <2>1. NameOf[c] \in Names /\ EndSession(NameOf[c])
    BY <1>3, NamesOfConns DEF Unpublish
  <2>2. \A d \in Conns : Report("end", d) \in wire' => row[d] # "none"
    BY <2>1, EndSessionReports
  <2> QED
    BY <1>3, <2>1, <2>2 DEF Unpublish, EndSession
<1>4. ASSUME NEW c \in Conns, MonitorReports(c) \/ HandleMetrics(c)
      PROVE  SessionsHaveRows'
  BY <1>4 DEF MonitorReports, Send, HandleMetrics
<1>5. ASSUME NEW c \in Conns, AppGrants(c) PROVE SessionsHaveRows'
  BY <1>5 DEF AppGrants, Answer, Asked
<1>6. ASSUME NEW c \in Conns, HandleEnd(c) \/ CloseGhost(c) PROVE SessionsHaveRows'
  BY <1>6 DEF HandleEnd, EndRows, CloseGhost
<1>7. ASSUME NEW e \in Events, AutoEnd(e) PROVE SessionsHaveRows'
  BY <1>7 DEF AutoEnd, EndRows, OpenRows
<1>8. ASSUME NEW to \in LinkFaults, NEW read \in SUBSET Conns, LinkFails(to, read)
      PROVE  SessionsHaveRows'
  BY <1>8 DEF LinkFails, LoseRpcs, OpenAtOutage
<1>9. ASSUME NEW to \in CrashFaults, NodeCrashes(to) PROVE SessionsHaveRows'
  BY <1>9 DEF NodeCrashes, OpenAtOutage, Asked
<1>10. CASE
      \/ \E c \in Conns : Publish(c) \/ PolicyPasses(c) \/ PolicyCloses(c) \/
           DialUpstream(c) \/ ObsLeaves(c) \/ DrainCloses(c) \/ AskGate(c) \/
           GateRefuses(c) \/ SrsAccepts(c) \/ SrsDrops(c) \/ Register(c) \/
           Unregister(c) \/ MonitorPolls(c) \/ FallsSilent(c) \/
           AppDenies(c)
      \/ \E n \in Names : KillStream(n) \/ Ban(n) \/ Unban(n)
      \/ \E e \in Events : WindowOpens(e) \/ AutoStart(e) \/ WindowCloses(e)
      \/ IdleTimeout \/ Reconnect \/ UNCHANGED vars
  <2>1. UNCHANGED <<sessions, wire, row>>
    BY <1>10 DEF Publish, PolicyPasses, PolicyCloses, DialUpstream,
      ObsLeaves, DrainCloses, AskGate, GateRefuses, SrsAccepts, SrsDrops,
      Register, Unregister, MonitorPolls, FallsSilent, AppDenies, KillStream, Ban, Unban, WindowOpens, AutoStart,
      WindowCloses, IdleTimeout, Reconnect
  <2> QED
    BY <2>1
<1> QED
  BY <1>1, <1>2, <1>3, <1>4, <1>5, <1>6, <1>7, <1>8, <1>9,
    <1>10
  DEF Next, Gateway, Monitor, App, Failure

-----------------------------------------------------------------------------
(* The theorems.                                                            *)

\* The inductive invariant holds.
THEOREM Invariance == Spec => []IInv
<1>1. Init => IInv
  <2> SUFFICES ASSUME Init PROVE IInv
    OBVIOUS
  <2>1. TypeOK
    BY ConstantsAssumption DEF Init, TypeOK, Keys
  <2>2. /\ \A c \in Conns : pc[c] = "idle" /\ rpc[c] = "none" /\ row[c] = "none"
        /\ \A n \in Names : sessions[n] = None /\ relays[n] = None /\ GrantedOn(n) = {}
        /\ \A k \in Keys : srs[k] = None
        /\ wire = {} /\ silent = {}
    BY DEF Init, GrantedOn, Granted
  <2>3. GrantsHaveRows /\ AskedHaveNoRow /\ UnaskedUnknown /\ UndisturbedRowsOpen
    BY <2>2 DEF GrantsHaveRows, AskedHaveNoRow, Asked, UnaskedUnknown,
                UndisturbedRowsOpen, Undisturbed, Granted
  <2>4. HandlesOfRelays /\ SessionsOfGranted /\ SessionsTrackPublishes /\ SessionsHaveRows
    BY <2>2, NoneIsNoConn DEF HandlesOfRelays, SessionsOfGranted, SessionsTrackPublishes,
                              SessionsHaveRows
  <2>5. AuthorisedBeforeOnAir /\ OnAirWasAccepted /\ SoleStreamKickable
    BY <2>2, NoneIsNoConn DEF AuthorisedBeforeOnAir, OnAirWasAccepted, SoleStreamKickable
  <2> QED
    BY <2>1, <2>3, <2>4, <2>5 DEF IInv
<1>2. IInv /\ [Next]_vars => IInv'
  BY TypeStep, TypedShape, GrantsHaveRowsStep, HandlesOfRelaysStep, AuthorisedStep,
     SessionsOfGrantedStep, SessionsTrackStep, KickableStep, UnaskedStep, UndisturbedStep,
     OnAirStep, AskedStep, SessionsHaveRowsStep
  DEF IInv
<1> QED
  BY <1>1, <1>2, PTL DEF Spec

\* Every reachable state is well typed.
THEOREM TypeCorrect == Spec => []TypeOK
BY Invariance, PTL DEF IInv

\* No publisher reaches SRS without the row the app opened for it: timeouts,
\* lost answers, duplicate publishers, kicks and crashes included.
THEOREM Authorised == Spec => []AuthorisedBeforeOnAir
BY Invariance, PTL DEF IInv

\* The node's session table neither leaks a session nor misses a publish
\* whose name is its own.
THEOREM SessionsTracked == Spec => []SessionsTrackPublishes
BY Invariance, PTL DEF IInv

\* A relay that does not share its name can be kicked.
THEOREM Kickable == Spec => []SoleStreamKickable
BY Invariance, PTL DEF IInv

\* The app gives up on a live stream after an outage or a duplicate only.
THEOREM ReapedAfterOutage == Spec => []ReapOnlyAfterOutage
<1>1. IInv => ReapOnlyAfterOutage
  <2> SUFFICES ASSUME IInv, NEW c \in Conns, pc[c] = "relaying",
                      NameOf[c] \notin contested, row[c] = "ended"
               PROVE  c \in outaged
    BY DEF ReapOnlyAfterOutage
  <2> QED
    BY DEF IInv, UndisturbedRowsOpen, Undisturbed, Granted
<1> QED
  BY <1>1, Invariance, PTL

-----------------------------------------------------------------------------
(* PublishSession implements Publication.                                   *)

\* Nothing the abstract specification sees.
LEMMA Stutters ==
  ASSUME \A c \in Conns : Phase(c)' = Phase(c) /\ Ledger(c)' = Ledger(c)
  PROVE  UNCHANGED Abstract!vars
BY DEF Abstract!vars

\* Some attempts are gone; nothing else changes.
LEMMA Leaves ==
  ASSUME NEW S \in SUBSET Conns,
         \A c \in S : Phase(c) # "gone" /\ Phase(c)' = "gone",
         \A c \in Conns \ S : Phase(c)' = Phase(c),
         \A c \in Conns : Ledger(c)' = Ledger(c)
  PROVE  [Abstract!Next]_(Abstract!vars)
<1>1. CASE S = {}
  BY <1>1, Stutters
<1>2. CASE S # {}
  <2>1. Abstract!Leave(S)
    BY <1>2 DEF Abstract!Leave
  <2> QED
    BY <2>1 DEF Abstract!Next
<1> QED
  BY <1>1, <1>2

\* Some entries are ended; nothing else changes.
LEMMA Closes ==
  ASSUME NEW S \in SUBSET Conns,
         \A c \in S : row[c] = "open" /\ row'[c] = "ended",
         \A c \in Conns \ S : row'[c] = row[c],
         \A c \in Conns : Phase(c)' = Phase(c)
  PROVE  [Abstract!Next]_(Abstract!vars)
<1>1. \A c \in Conns : Ledger(c)' = IF c \in S THEN "ended" ELSE Ledger(c)
  BY DEF Ledger
<1>2. \A c \in S : Ledger(c) = "open"
  BY DEF Ledger
<1>3. CASE S = {}
  BY <1>1, <1>3, Stutters
<1>4. CASE S # {}
  <2>1. Abstract!Close(S)
    BY <1>1, <1>2, <1>4 DEF Abstract!Close
  <2> QED
    BY <2>1 DEF Abstract!Next
<1> QED
  BY <1>3, <1>4

\* A connection moves on; once it left the stage it does not return.
LEMMA Moves ==
  ASSUME NEW c \in Conns, UNCHANGED <<srs, row>>,
         \A d \in Conns : d # c => pc'[d] = pc[d],
         pc[c] \in Offstage \/ pc'[c] \notin Offstage
  PROVE  [Abstract!Next]_(Abstract!vars)
<1>1. \A d \in Conns : Ledger(d)' = Ledger(d)
  BY DEF Ledger
<1>2. \A d \in Conns \ {c} : Phase(d)' = Phase(d)
  BY DEF Phase
<1>3. CASE Phase(c)' = Phase(c)
  BY <1>1, <1>2, <1>3, Stutters
<1>4. CASE Phase(c)' # Phase(c)
  <2>1. Phase(c) # "gone" /\ Phase(c)' = "gone"
    BY <1>4 DEF Phase
  <2> QED
    BY <1>1, <1>2, <2>1, Leaves
<1> QED
  BY <1>3, <1>4

\* Every step maps to a step of the abstract specification or to a stutter.
LEMMA StepRefines ==
  ASSUME IInv
  PROVE  [Next]_vars => [Abstract!Next]_(Abstract!vars)
<1> USE NoneIsNoConn DEF vars, nodeVars, linkVars, appVars, histVars
<1>s. Shape
  BY TypedShape DEF IInv
<1>k. \A c \in Conns : KeyOf[c] \in Keys
  BY ConstantsAssumption DEF KeyOf, Keys
<1>1. ASSUME NEW c \in Conns,
             \/ Publish(c) \/ PolicyPasses(c) \/ PolicyCloses(c) \/ AskGate(c)
             \/ GateGrants(c) \/ GateRefuses(c) \/ DialUpstream(c) \/ UpstreamFails(c)
             \/ Register(c) \/ ObsLeaves(c) \/ DrainCloses(c) \/ Unregister(c) \/ Unpublish(c)
      PROVE  [Abstract!Next]_(Abstract!vars)
  <2>1. UNCHANGED <<srs, row>>
    BY <1>1 DEF Publish, PolicyPasses, PolicyCloses, AskGate, GateGrants, GateRefuses,
                DialUpstream, UpstreamFails, Register, ObsLeaves, DrainCloses, Unregister,
                Unpublish
  <2>2. PICK to : pc' = [pc EXCEPT ![c] = to] /\ (pc[c] \in Offstage \/ to \notin Offstage)
    BY <1>1 DEF Publish, PolicyPasses, PolicyCloses, AskGate, GateGrants, GateRefuses,
                DialUpstream, UpstreamFails, Register, ObsLeaves, DrainCloses, Unregister,
                Unpublish, Leave, Offstage
  <2>3. /\ \A d \in Conns : d # c => pc'[d] = pc[d]
        /\ pc'[c] = to
    BY <1>s, <2>2 DEF Shape
  <2> QED
    BY <2>1, <2>2, <2>3, Moves
<1>2. ASSUME NEW c \in Conns, SrsAccepts(c) PROVE [Abstract!Next]_(Abstract!vars)
  <2>1. /\ \A d \in Conns : d # c => pc'[d] = pc[d]
        /\ pc[c] = "dialed" /\ srs[KeyOf[c]] = None
        /\ srs' = [srs EXCEPT ![KeyOf[c]] = c]
        /\ UNCHANGED row
    BY <1>2, <1>s DEF SrsAccepts, Leave, Shape
  <2>2. Phase(c) = "offstage" /\ Phase(c)' = "onair"
    BY <1>s, <1>k, <2>1 DEF Phase, Offstage, Shape
  <2>3. \A d \in Conns \ {c} : Phase(d)' = Phase(d)
    BY <1>s, <1>k, <2>1 DEF Phase, Shape
  <2>4. row[c] \in {"open", "ended"}
    BY <2>1 DEF IInv, TypeOK, GrantsHaveRows, Granted
  <2>5. \A d \in Conns : Phase(d) = "onair" => KeyOf[d] # KeyOf[c]
    BY <2>1 DEF Phase
  <2>6. \A d \in Conns : Ledger(d)' = Ledger(d)
    BY <2>1 DEF Ledger
  <2>7. Ledger(c) # "unlisted"
    BY <2>4 DEF Ledger
  <2>8. Abstract!GoOnAir(c)
    BY <2>2, <2>3, <2>5, <2>6, <2>7 DEF Abstract!GoOnAir
  <2> QED
    BY <2>8 DEF Abstract!Next
<1>3. ASSUME NEW c \in Conns, SrsDrops(c) PROVE [Abstract!Next]_(Abstract!vars)
  <2>1. /\ srs[KeyOf[c]] = c
        /\ srs' = [srs EXCEPT ![KeyOf[c]] = None]
        /\ UNCHANGED <<pc, row>>
    BY <1>3 DEF SrsDrops
  <2>2. pc[c] \notin Offstage
    BY <1>k, <2>1 DEF IInv, OnAirWasAccepted, Offstage
  <2>3. Phase(c) = "onair" /\ Phase(c)' = "gone"
    BY <1>s, <1>k, <2>1, <2>2 DEF Phase, Shape
  <2>4. \A d \in Conns \ {c} : Phase(d)' = Phase(d)
    BY <1>s, <1>k, <2>1 DEF Phase, Shape
  <2>5. \A d \in Conns : Ledger(d)' = Ledger(d)
    BY <2>1 DEF Ledger
  <2> QED
    BY <2>3, <2>4, <2>5, Leaves
<1>4. ASSUME NEW c \in Conns,
             \/ MonitorPolls(c) \/ MonitorReports(c) \/ AppDenies(c)
             \/ HandleMetrics(c) \/ FallsSilent(c)
      PROVE  [Abstract!Next]_(Abstract!vars)
  <2>1. UNCHANGED <<pc, srs, row>>
    BY <1>4 DEF MonitorPolls, MonitorReports, AppDenies, HandleMetrics,
                FallsSilent
  <2> QED
    BY <2>1, Stutters DEF Phase, Ledger
<1>5. ASSUME NEW c \in Conns, AppGrants(c) PROVE [Abstract!Next]_(Abstract!vars)
  <2>1. UNCHANGED <<pc, srs>> /\ row[c] = "none" /\ row' = [row EXCEPT ![c] = "open"]
    BY <1>5 DEF AppGrants, IInv, AskedHaveNoRow
  <2>2. \A d \in Conns : Phase(d)' = Phase(d)
    BY <2>1 DEF Phase
  <2>3. Phase(c) # "onair"
    BY <1>k, <2>1 DEF IInv, AuthorisedBeforeOnAir, Phase
  <2>4. Ledger(c) = "unlisted" /\ \A d \in Conns : Ledger(d)' = IF d = c THEN "open" ELSE Ledger(d)
    BY <1>s, <2>1 DEF Ledger, Shape
  <2>5. Abstract!List(c)
    BY <2>2, <2>3, <2>4 DEF Abstract!List
  <2> QED
    BY <2>5 DEF Abstract!Next
<1>6. ASSUME NEW c \in Conns, HandleEnd(c) \/ CloseGhost(c) PROVE [Abstract!Next]_(Abstract!vars)
  <2>1. UNCHANGED <<pc, srs>> /\ row[c] \in {"open", "ended"} /\ EndRows({c})
    BY <1>6 DEF HandleEnd, CloseGhost, IInv, TypeOK, SessionsHaveRows
  <2>2. \A d \in Conns : row'[d] = IF d = c THEN "ended" ELSE row[d]
    BY <2>1 DEF EndRows
  <2>3. \A d \in Conns : Phase(d)' = Phase(d)
    BY <2>1 DEF Phase
  <2>4. CASE row[c] = "open"
    <3>1. /\ \A d \in {c} : row[d] = "open" /\ row'[d] = "ended"
          /\ \A d \in Conns \ {c} : row'[d] = row[d]
      BY <2>2, <2>4
    <3> QED
      BY <2>3, <3>1, Closes
  <2>5. CASE row[c] = "ended"
    <3>1. \A d \in Conns : row'[d] = row[d]
      BY <2>2, <2>5
    <3> QED
      BY <2>3, <3>1, Stutters DEF Ledger
  <2> QED
    BY <2>1, <2>4, <2>5
<1>7. ASSUME NEW n \in Names, KillStream(n) PROVE [Abstract!Next]_(Abstract!vars)
  <2>1. /\ \A c \in Conns : pc'[c] = IF relays[n] = c THEN "closing" ELSE pc[c]
        /\ UNCHANGED <<srs, row>>
    BY <1>7 DEF KillStream
  <2>2. \A c \in Conns : relays[n] = c => pc[c] \notin Offstage
    BY DEF IInv, HandlesOfRelays, Offstage
  <2> QED
    BY <2>1, <2>2, Stutters DEF Phase, Ledger, Offstage
<1>8. ASSUME NEW n \in Names, Ban(n) \/ Unban(n) PROVE [Abstract!Next]_(Abstract!vars)
  <2>1. UNCHANGED <<pc, srs, row>>
    BY <1>8 DEF Ban, Unban
  <2> QED
    BY <2>1, Stutters DEF Phase, Ledger
<1>9. ASSUME NEW e \in Events, WindowOpens(e) \/ AutoStart(e) \/ WindowCloses(e)
      PROVE  [Abstract!Next]_(Abstract!vars)
  <2>1. UNCHANGED <<pc, srs, row>>
    BY <1>9 DEF WindowOpens, AutoStart, WindowCloses
  <2> QED
    BY <2>1, Stutters DEF Phase, Ledger
<1>10. ASSUME NEW e \in Events, AutoEnd(e) PROVE [Abstract!Next]_(Abstract!vars)
  <2>1. UNCHANGED <<pc, srs>>
    BY <1>10 DEF AutoEnd
  <2>2. \A c \in Conns : Phase(c)' = Phase(c)
    BY <2>1 DEF Phase
  <2>3. CASE NodeOnline
    BY <1>10, <2>2, <2>3, Stutters DEF AutoEnd, Ledger
  <2>4. CASE ~NodeOnline
    <3>1. \A c \in Conns : row'[c] = IF c \in OpenRows(e) THEN "ended" ELSE row[c]
      BY <1>10, <2>4 DEF AutoEnd, EndRows
    <3> QED
      BY <2>2, <3>1, Closes DEF OpenRows
  <2> QED
    BY <2>3, <2>4
<1>11. ASSUME NEW to \in CrashFaults, NodeCrashes(to) PROVE [Abstract!Next]_(Abstract!vars)
  <2> DEFINE S == {c \in Conns : pc[c] # "idle" /\ Phase(c) # "gone"}
  <2>1. /\ \A c \in Conns : pc'[c] = IF pc[c] = "idle" THEN "idle" ELSE "closed"
        /\ \A c \in Conns : srs'[KeyOf[c]] = None
        /\ UNCHANGED row
    BY <1>11, <1>k DEF NodeCrashes
  <2>2. \A c \in Conns : pc[c] = "idle" => srs[KeyOf[c]] # c
    BY <1>k DEF IInv, OnAirWasAccepted
  <2>3. \A c \in S : Phase(c) # "gone" /\ Phase(c)' = "gone"
    BY <2>1 DEF Phase, Offstage
  <2>4. \A c \in Conns \ S : Phase(c)' = Phase(c)
    BY <2>1, <2>2 DEF Phase, Offstage
  <2>5. \A c \in Conns : Ledger(c)' = Ledger(c)
    BY <2>1 DEF Ledger
  <2> QED
    BY <2>3, <2>4, <2>5, Leaves
<1>12. ASSUME NEW to \in LinkFaults, NEW read \in SUBSET Conns, LinkFails(to, read)
       PROVE  [Abstract!Next]_(Abstract!vars)
  BY <1>12, Stutters DEF LinkFails, Phase, Ledger
<1>13. CASE IdleTimeout \/ Reconnect \/ UNCHANGED vars
  <2>1. UNCHANGED <<pc, srs, row>>
    BY <1>13 DEF IdleTimeout, Reconnect
  <2> QED
    BY <2>1, Stutters DEF Phase, Ledger
<1> QED
  BY <1>1, <1>2, <1>3, <1>4, <1>5, <1>6, <1>7, <1>8, <1>9, <1>10, <1>11, <1>12, <1>13
  DEF Next, Gateway, Monitor, App, Failure

\* The node, the channel and the app together keep what Publication promises,
\* whatever the interleaving and the faults.
THEOREM Implements == Spec => ImplementsPublication
<1>1. Init => Abstract!Init
  <2> SUFFICES ASSUME Init PROVE Abstract!Init
    OBVIOUS
  <2>1. \A c \in Conns : pc[c] = "idle" /\ row[c] = "none" /\ srs[KeyOf[c]] = None
    BY ConstantsAssumption DEF Init, KeyOf, Keys
  <2>2. \A c \in Conns : Phase(c) = "offstage" /\ Ledger(c) = "unlisted"
    BY <2>1, NoneIsNoConn DEF Phase, Offstage, Ledger
  <2> QED
    BY <2>2 DEF Abstract!Init
<1> QED
  BY <1>1, StepRefines, Invariance, PTL DEF Spec, ImplementsPublication, Abstract!Spec


=============================================================================
