----------------------- MODULE ControlChannel_proofs -----------------------
(***************************************************************************)
(* Proofs about ControlChannel for any number of connections, calls and     *)
(* faults: its types, the agreement of registry and routing table, and the  *)
(* matching of answers and calls on both sides.                             *)
(***************************************************************************)
EXTENDS ControlChannel, TLAPS

\* The frames a channel holds, whatever their order.
InFlight(s) == {s[i] : i \in 1..Len(s)}

\* Nothing of the app refers to a connection that was not dialed yet.
Undialed ==
  \A c \in ConnIds : c > dials =>
    /\ c \notin conns /\ c \notin authed /\ c \notin discTasks
    /\ \A h \in handlers : h.conn # c

\* ... and nothing is in flight on it.
UndialedEmpty ==
  \A c \in ConnIds : c > dials => InFlight(up[c]) = {} /\ InFlight(down[c]) = {}

\* The route is a connection that said Hello, and the deferred cleanups are
\* those of closed connections the registry still knows.
RoutesKnown ==
  /\ byNode # None => byNode \in authed /\ byNode \in socketToNode
  /\ discTasks \subseteq socketToNode
  /\ discTasks \cap conns = {}

\* Calls the node made before its process was last replaced.
NodeBase == nodeCalls + 1 - nodeSeq

\* On the connection the node reads, a sequence number stands for the same
\* call in its pending table, in requests, in the app's handlers and in
\* answers.
NodeNumbers ==
  /\ nodeSeq \in 1..(nodeCalls + 1)
  /\ \A p \in nodePending : p.call = p.seq + NodeBase
  /\ phase # "idle" =>
       /\ \A f \in InFlight(up[dials]) : f.kind = "request" => f.call = f.seq + NodeBase
       /\ \A h \in handlers : h.conn = dials => h.call = h.seq + NodeBase
       /\ \A f \in InFlight(down[dials]) : f.kind = "response" => f.call = f.seq + NodeBase

\* As long as the app is not restarted, its sequence numbers are call numbers
\* wherever they travel.
AppNumbers ==
  /\ appSeq = appCalls + 1
  /\ \A p \in appPending : p.seq = p.call
  /\ \A t \in tasks : t.seq = t.call
  /\ \A c \in ConnIds :
       /\ \A f \in InFlight(up[c]) : f.kind = "response" => f.seq = f.call
       /\ \A f \in InFlight(down[c]) : f.kind = "request" => f.seq = f.call

-----------------------------------------------------------------------------
(* Channels.                                                                *)

\* A frame appended to a channel is the only new one.
LEMMA InFlightAppend ==
  ASSUME NEW s \in Seq(Frames), NEW f \in Frames
  PROVE  /\ Append(s, f) \in Seq(Frames)
         /\ InFlight(Append(s, f)) = InFlight(s) \cup {f}
<1>1. Append(s, f) \in Seq(Frames) /\ Len(Append(s, f)) = Len(s) + 1 /\ Len(s) \in Nat
  OBVIOUS
<1>2. \A i \in 1..Len(s) : Append(s, f)[i] = s[i]
  OBVIOUS
<1>3. Append(s, f)[Len(s) + 1] = f
  OBVIOUS
<1>4. 1..(Len(s) + 1) = (1..Len(s)) \cup {Len(s) + 1}
  BY <1>1
<1>5. QED
  BY <1>1, <1>2, <1>3, <1>4 DEF InFlight

\* Receiving a frame leaves only frames that were there.
LEMMA InFlightTail ==
  ASSUME NEW s \in Seq(Frames), s # <<>>
  PROVE  /\ Tail(s) \in Seq(Frames)
         /\ InFlight(Tail(s)) \subseteq InFlight(s)
         /\ Head(s) \in InFlight(s)
         /\ Head(s) \in Frames
<1>1. Len(s) \in Nat /\ Len(s) # 0
  OBVIOUS
<1>2. Tail(s) \in Seq(Frames) /\ Len(Tail(s)) = Len(s) - 1
  BY <1>1
<1>3. \A i \in 1..(Len(s) - 1) : Tail(s)[i] = s[i + 1] /\ i + 1 \in 1..Len(s)
  BY <1>1
<1>4. Head(s) = s[1] /\ 1 \in 1..Len(s) /\ s[1] \in Frames
  BY <1>1
<1>5. QED
  BY <1>2, <1>3, <1>4 DEF InFlight

\* The empty channel holds nothing.
LEMMA InFlightEmpty == <<>> \in Seq(Frames) /\ InFlight(<<>>) = {}
  BY DEF InFlight

\* What a write adds.
LEMMA WriteAdds ==
  ASSUME NEW ch \in [ConnIds -> Seq(Frames)], NEW c \in ConnIds, NEW f \in Frames
  PROVE  /\ Write(ch, c, f) \in [ConnIds -> Seq(Frames)]
         /\ \A d \in ConnIds : d # c => Write(ch, c, f)[d] = ch[d]
         /\ InFlight(Write(ch, c, f)[c]) \subseteq InFlight(ch[c]) \cup {f}
<1>1. CASE sock[c] = "open"
  <2>1. Write(ch, c, f) = [ch EXCEPT ![c] = Append(ch[c], f)]
    BY <1>1 DEF Write
  <2>2. ch[c] \in Seq(Frames)
    OBVIOUS
  <2>3. Append(ch[c], f) \in Seq(Frames) /\ InFlight(Append(ch[c], f)) = InFlight(ch[c]) \cup {f}
    BY <2>2, InFlightAppend
  <2>4. QED
    BY <2>1, <2>3
<1>2. CASE sock[c] # "open"
  BY <1>2 DEF Write
<1>3. QED
  BY <1>1, <1>2

\* The same, for every connection at once.
LEMMA WriteOnly ==
  ASSUME NEW ch \in [ConnIds -> Seq(Frames)], NEW c \in ConnIds, NEW f \in Frames,
         NEW d \in ConnIds, NEW g \in InFlight(Write(ch, c, f)[d])
  PROVE  g \in InFlight(ch[d]) \/ (d = c /\ g = f)
<1>1. ch \in [ConnIds -> Seq(Frames)] /\ c \in ConnIds /\ f \in Frames
  OBVIOUS
<1>2. CASE d = c
  <2>1. InFlight(Write(ch, c, f)[c]) \subseteq InFlight(ch[c]) \cup {f}
    BY <1>1, WriteAdds
  <2>2. g \in InFlight(Write(ch, c, f)[c])
    BY <1>2
  <2>3. QED
    BY <1>2, <2>1, <2>2
<1>3. CASE d # c
  <2>1. Write(ch, c, f)[d] = ch[d]
    BY <1>3, <1>1, WriteAdds
  <2>2. g \in InFlight(ch[d])
    BY <2>1
  <2>3. QED
    BY <2>2
<1>4. QED
  BY <1>2, <1>3

\* What a read takes.
LEMMA ReadTakes ==
  ASSUME NEW ch \in [ConnIds -> Seq(Frames)], NEW c \in ConnIds, ch[c] # <<>>
  PROVE  /\ [ch EXCEPT ![c] = Tail(@)] \in [ConnIds -> Seq(Frames)]
         /\ \A d \in ConnIds : InFlight([ch EXCEPT ![c] = Tail(@)][d]) \subseteq InFlight(ch[d])
         /\ Head(ch[c]) \in InFlight(ch[c]) /\ Head(ch[c]) \in Frames
<1>1. /\ Tail(ch[c]) \in Seq(Frames)
      /\ InFlight(Tail(ch[c])) \subseteq InFlight(ch[c])
      /\ Head(ch[c]) \in InFlight(ch[c])
      /\ Head(ch[c]) \in Frames
  <2>1. ch[c] \in Seq(Frames)
    OBVIOUS
  <2>2. QED
    BY <2>1, InFlightTail
<1>2. QED
  BY <1>1

\* A reset loses frames and adds none.
LEMMA ClearLoses ==
  ASSUME NEW ch \in [ConnIds -> Seq(Frames)], NEW S
  PROVE  /\ Clear(ch, S) \in [ConnIds -> Seq(Frames)]
         /\ \A d \in ConnIds : InFlight(Clear(ch, S)[d]) \subseteq InFlight(ch[d])
  BY InFlightEmpty DEF Clear

\* A frame is a frame.
LEMMA FrameType ==
  ASSUME NEW k \in {"hello", "helloAck", "request", "response"}, NEW s \in Nat, NEW n \in Nat
  PROVE  /\ Frame(k, s, n) \in Frames
         /\ Frame(k, s, n).kind = k /\ Frame(k, s, n).seq = s /\ Frame(k, s, n).call = n
  BY DEF Frame, Frames

\* A fault is counted.
LEMMA FaultCounts ==
  ASSUME NEW f, Fault(f), faults \in Nat
  PROVE  faults' \in Nat
  BY DEF Fault

-----------------------------------------------------------------------------
(* Types.                                                                   *)

\* Every step keeps the types.
LEMMA TypeStep ==
  ASSUME TypeOK, RegistryFollowsRoute
  PROVE [Next]_vars => TypeOK'
<1> SUFFICES ASSUME [Next]_vars PROVE TypeOK'
  OBVIOUS
<1>1. CASE Dial
  <2>1. dials + 1 \in ConnIds /\ dials + 1 \in 0..MaxConns
    BY <1>1, ControlAssumption DEF TypeOK, Dial, ConnIds
  <2>2. QED
    BY <2>1, <1>1 DEF TypeOK, Dial, nodeVars, wireVars, routeVars, appRpcVars, histVars
<1>2. CASE SendHello
  <2>1. Frame("hello", 0, 0) \in Frames
    BY FrameType
  <2>2. Write(up, dials, Frame("hello", 0, 0)) \in [ConnIds -> Seq(Frames)]
    BY <2>1, <1>2, WriteAdds DEF TypeOK, SendHello, Ws
  <2>3. QED
    BY <2>2, <1>2, ControlAssumption DEF TypeOK, SendHello, ConnIds, Ws, Pending, ConnPending,
       nodeVars, wireVars, routeVars, appRpcVars, histVars
<1>3. CASE RecvHelloAck
  <2>1. [down EXCEPT ![dials] = Tail(@)] \in [ConnIds -> Seq(Frames)]
    BY <1>3, ReadTakes DEF TypeOK, RecvHelloAck, Readable
  <2>2. QED
    BY <2>1, <1>3 DEF TypeOK, RecvHelloAck, nodeVars, wireVars, routeVars, appRpcVars, histVars
<1>4. CASE Dispatch
  <2>1. /\ [down EXCEPT ![dials] = Tail(@)] \in [ConnIds -> Seq(Frames)]
        /\ Received \in Frames
    BY <1>4, ReadTakes DEF TypeOK, Dispatch, Readable, Received
  <2>2. Received.seq \in Nat /\ Received.call \in Nat
    BY <2>1 DEF Frames
  <2>3. tasks' \subseteq Pending
    BY <2>2, <1>4 DEF TypeOK, Dispatch, Pending
  <2>4. nodePending' \subseteq Pending /\ mixed' \subseteq {"node", "app"}
    BY <1>4 DEF TypeOK, Dispatch
  <2>5. QED
    BY <2>1, <2>3, <2>4, <1>4 DEF TypeOK, Dispatch, nodeVars, wireVars, routeVars, appRpcVars,
       histVars
<1>5. CASE ReadFails
  BY <1>5 DEF TypeOK, ReadFails, nodeVars, wireVars, routeVars, appRpcVars, histVars
<1>6. CASE NodeCall
  <2>1. nodeCalls' \in Nat /\ nodeSeq' \in Nat /\ dials \in ConnIds
    BY <1>6 DEF TypeOK, NodeCall, Ws
  <2>2. Frame("request", nodeSeq, nodeCalls') \in Frames
    BY <2>1, FrameType DEF TypeOK
  <2>3. up' \in [ConnIds -> Seq(Frames)]
    BY <2>1, <2>2, <1>6, WriteAdds DEF TypeOK, NodeCall
  <2>4. nodePending' \subseteq Pending
    BY <2>1, <1>6 DEF TypeOK, NodeCall, Pending
  <2>5. QED
    BY <2>1, <2>3, <2>4, <1>6 DEF TypeOK, NodeCall, nodeVars, wireVars, routeVars, appRpcVars,
       histVars
<1>7. ASSUME NEW p \in nodePending, NodeCallTimeout(p)
     PROVE TypeOK'
  BY <1>7 DEF TypeOK, NodeCallTimeout, nodeVars, wireVars, routeVars, appRpcVars, histVars
<1>8. ASSUME NEW t \in tasks, TaskAnswers(t)
     PROVE TypeOK'
  <2>1. t.seq \in Nat /\ t.call \in Nat
    BY <1>8 DEF TypeOK, Pending
  <2>2. Frame("response", t.seq, t.call) \in Frames
    BY <2>1, FrameType
  <2>3. ASSUME Ws # None PROVE Write(up, dials, Frame("response", t.seq, t.call)) \in [ConnIds ->
     Seq(Frames)]
    <3>1. dials \in ConnIds
      BY <2>3 DEF TypeOK, Ws
    <3>2. QED
      BY <2>2, <3>1, WriteAdds DEF TypeOK
  <2>4. QED
    BY <2>3, <1>8 DEF TypeOK, TaskAnswers, nodeVars, wireVars, routeVars, appRpcVars, histVars
<1>9. ASSUME NEW c \in ConnIds, NEW now \in BOOLEAN, AppHello(c, now)
     PROVE TypeOK'
  <2>1. [up EXCEPT ![c] = Tail(@)] \in [ConnIds -> Seq(Frames)]
    BY <1>9, ReadTakes DEF TypeOK, AppHello, Arrives
  <2>2. Frame("helloAck", 0, 0) \in Frames
    BY FrameType
  <2>3. Write(down, c, Frame("helloAck", 0, 0)) \in [ConnIds -> Seq(Frames)]
    BY <2>2, WriteAdds DEF TypeOK
  <2>4. sock' \in [ConnIds -> {"unused", "open", "cut", "shut"}]
    BY <1>9 DEF TypeOK, AppHello, Shut
  <2>5. conns' \subseteq ConnIds /\ discTasks' \subseteq ConnIds /\ appPending' \subseteq
     ConnPending
    BY <1>9 DEF TypeOK, AppHello
  <2>6. closing' \subseteq conns'
    BY <1>9 DEF TypeOK, RegistryFollowsRoute, AppHello
  <2>7. QED
    BY <2>1, <2>3, <2>4, <2>5, <2>6, <1>9 DEF TypeOK, AppHello, nodeVars, wireVars, routeVars,
       appRpcVars, histVars
<1>10. ASSUME NEW c \in ConnIds, AppRequest(c)
     PROVE TypeOK'
  <2>1. /\ [up EXCEPT ![c] = Tail(@)] \in [ConnIds -> Seq(Frames)]
        /\ Head(up[c]) \in Frames
    BY <1>10, ReadTakes DEF TypeOK, AppRequest, Arrives
  <2>2. Head(up[c]).seq \in Nat /\ Head(up[c]).call \in Nat
    BY <2>1 DEF Frames
  <2>3. handlers' \subseteq ConnPending
    BY <2>2, <1>10 DEF TypeOK, AppRequest, ConnPending
  <2>4. QED
    BY <2>1, <2>3, <1>10 DEF TypeOK, AppRequest, nodeVars, wireVars, routeVars, appRpcVars, histVars
<1>11. ASSUME NEW c \in ConnIds, AppResponse(c)
     PROVE TypeOK'
  <2>1. /\ [up EXCEPT ![c] = Tail(@)] \in [ConnIds -> Seq(Frames)]
        /\ Head(up[c]) \in Frames
    BY <1>11, ReadTakes DEF TypeOK, AppResponse, Arrives
  <2>2. Head(up[c]).seq \in Nat /\ Head(up[c]).call \in Nat
    BY <2>1 DEF Frames
  <2>3. appPending' \subseteq ConnPending
    BY <2>2, <1>11 DEF TypeOK, AppResponse, ConnPending
  <2>4. QED
    BY <2>1, <2>3, <1>11 DEF TypeOK, AppResponse, nodeVars, wireVars, routeVars, appRpcVars,
       histVars
<1>12. ASSUME NEW c \in ConnIds, AppTimeout(c)
     PROVE TypeOK'
  BY <1>12 DEF TypeOK, AppTimeout, Shut, nodeVars, wireVars, routeVars, appRpcVars, histVars
<1>13. ASSUME NEW c \in ConnIds, OnWsClose(c)
     PROVE TypeOK'
  BY <1>13 DEF TypeOK, OnWsClose, nodeVars, wireVars, routeVars, appRpcVars, histVars
<1>14. ASSUME NEW c \in ConnIds, Disconnect(c)
     PROVE TypeOK'
  BY <1>14 DEF TypeOK, Disconnect, nodeVars, wireVars, routeVars, appRpcVars, histVars
<1>15. ASSUME NEW h \in handlers, AppAnswers(h)
     PROVE TypeOK'
  <2>1. h.conn \in ConnIds /\ h.seq \in Nat /\ h.call \in Nat
    BY <1>15 DEF TypeOK, ConnPending
  <2>2. Frame("response", h.seq, h.call) \in Frames
    BY <2>1, FrameType
  <2>3. Write(down, h.conn, Frame("response", h.seq, h.call)) \in [ConnIds -> Seq(Frames)]
    BY <2>1, <2>2, WriteAdds DEF TypeOK
  <2>4. QED
    BY <2>3, <1>15 DEF TypeOK, AppAnswers, nodeVars, wireVars, routeVars, appRpcVars, histVars
<1>16. CASE AppCall
  <2>1. byNode \in ConnIds
    BY <1>16 DEF TypeOK, AppCall
  <2>2. Frame("request", appSeq, appCalls + 1) \in Frames
    BY FrameType DEF TypeOK
  <2>3. Write(down, byNode, Frame("request", appSeq, appCalls + 1)) \in [ConnIds -> Seq(Frames)]
    BY <2>1, <2>2, WriteAdds DEF TypeOK
  <2>4. [conn |-> byNode, seq |-> appSeq, call |-> appCalls + 1] \in ConnPending
    BY <2>1 DEF TypeOK, ConnPending
  <2>5. QED
    BY <2>3, <2>4, <1>16 DEF TypeOK, AppCall, FreshSeq, nodeVars, wireVars, routeVars, appRpcVars,
       histVars
<1>17. ASSUME NEW p \in appPending, AppCallTimeout(p)
     PROVE TypeOK'
  BY <1>17 DEF TypeOK, AppCallTimeout, nodeVars, wireVars, routeVars, appRpcVars, histVars
<1>18. ASSUME NEW c \in ConnIds, Cut(c)
     PROVE TypeOK'
  <2>0. faults' \in Nat
    BY <1>18, FaultCounts DEF TypeOK, Cut
  <2>1. Clear(up, {c}) \in [ConnIds -> Seq(Frames)] /\ Clear(down, {c}) \in [ConnIds -> Seq(Frames)]
    BY ClearLoses DEF TypeOK
  <2>2. QED
    BY <2>0, <2>1, <1>18 DEF TypeOK, Cut, Shut, nodeVars, wireVars, routeVars, appRpcVars, histVars
<1>19. ASSUME NEW c \in ConnIds, Drop(c)
     PROVE TypeOK'
  <2>0. faults' \in Nat
    BY <1>19, FaultCounts DEF TypeOK, Drop
  <2>1. Clear(up, {c}) \in [ConnIds -> Seq(Frames)] /\ Clear(down, {c}) \in [ConnIds -> Seq(Frames)]
    BY ClearLoses DEF TypeOK
  <2>2. QED
    BY <2>0, <2>1, <1>19 DEF TypeOK, Drop, Shut, nodeVars, wireVars, routeVars, appRpcVars, histVars
<1>20. CASE SlowAck
  <2>1. faults' \in Nat
    BY <1>20, FaultCounts DEF TypeOK, SlowAck
  <2>2. QED
    BY <2>1, <1>20 DEF TypeOK, SlowAck, Shut, OpenConns, nodeVars, wireVars, routeVars, appRpcVars,
       histVars
<1>21. CASE NodeRestart
  <2>1. faults' \in Nat
    BY <1>21, FaultCounts DEF TypeOK, NodeRestart
  <2>2. QED
    BY <2>1, <1>21 DEF TypeOK, NodeRestart, Shut, OpenConns, nodeVars, wireVars, routeVars,
       appRpcVars, histVars
<1>22. CASE AppRestart
  <2>0. faults' \in Nat
    BY <1>22, FaultCounts DEF TypeOK, AppRestart
  <2>1. Clear(up, ConnIds) \in [ConnIds -> Seq(Frames)]
    BY ClearLoses DEF TypeOK
  <2>2. QED
    BY <2>0, <2>1, <1>22 DEF TypeOK, AppRestart, Shut, nodeVars, wireVars, routeVars, appRpcVars,
       histVars
<1>23. CASE UNCHANGED <<dials, phase, nodeSeq, nodePending, tasks, sock, up, down, conns,
   closing, authed, byNode, registry, socketToNode, discTasks, appSeq, appPending, handlers,
   nodeCalls, appCalls, faults, mixed>>
  BY <1>23 DEF TypeOK
<1>24. QED
  BY <1>1, <1>2, <1>3, <1>4, <1>5, <1>6, <1>7, <1>8, <1>9, <1>10, <1>11, <1>12, <1>13, <1>14,
     <1>15, <1>16, <1>17, <1>18, <1>19, <1>20, <1>21, <1>22, <1>23 DEF Next, NodeStep, AppStep,
     ConnStep, FaultStep,
     vars, nodeVars, wireVars, routeVars, appRpcVars, histVars

-----------------------------------------------------------------------------
(* Routing.                                                                 *)

\* A connection is dialed before the app knows anything of it.
LEMMA UndialedStep ==
  ASSUME TypeOK, Undialed, RegistryFollowsRoute
  PROVE [Next]_vars => Undialed'
<1> SUFFICES ASSUME [Next]_vars PROVE Undialed'
  OBVIOUS
<1>1. CASE Dial
  BY <1>1 DEF TypeOK, ConnIds, Undialed, Dial, routeVars, appRpcVars
<1>2. ASSUME NEW c \in ConnIds, NEW now \in BOOLEAN, AppHello(c, now)
     PROVE Undialed'
  <2>1. c \in conns /\ {byNode} \ {None} \subseteq conns
    BY <1>2 DEF AppHello, Arrives, RegistryFollowsRoute
  <2>2. /\ conns' \subseteq conns /\ authed' = authed \cup {c}
        /\ discTasks' \subseteq discTasks \cup conns
        /\ handlers' = handlers /\ dials' = dials
    BY <2>1, <1>2 DEF AppHello, nodeVars
  <2>3. QED
    BY <2>1, <2>2 DEF Undialed
<1>3. ASSUME NEW c \in ConnIds, AppRequest(c)
     PROVE Undialed'
  <2>1. c \in conns
    BY <1>3 DEF AppRequest, Arrives
  <2>2. \A h \in handlers' : h \in handlers \/ h.conn = c
    BY <1>3 DEF AppRequest
  <2>3. UNCHANGED <<dials, conns, authed, discTasks>>
    BY <1>3 DEF AppRequest, nodeVars, routeVars
  <2>4. QED
    BY <2>1, <2>2, <2>3 DEF Undialed
<1>4. ASSUME NEW c \in ConnIds, OnWsClose(c)
     PROVE Undialed'
  BY <1>4 DEF TypeOK, Undialed, OnWsClose, nodeVars
<1>5. ASSUME NEW c \in ConnIds, Disconnect(c)
     PROVE Undialed'
  BY <1>5 DEF Undialed, Disconnect, nodeVars, appRpcVars
<1>6. ASSUME NEW h \in handlers, AppAnswers(h)
     PROVE Undialed'
  BY <1>6 DEF Undialed, AppAnswers, nodeVars, routeVars
<1>7. CASE AppRestart
  BY <1>7 DEF Undialed, AppRestart, nodeVars
<1>8. CASE UNCHANGED <<dials, conns, authed, discTasks, handlers>>
  BY <1>8 DEF Undialed
<1>9. QED
  BY <1>1, <1>2, <1>3, <1>4, <1>5, <1>6, <1>7, <1>8 DEF Next, NodeStep, AppStep, ConnStep,
     FaultStep, SendHello, RecvHelloAck, Dispatch, ReadFails, NodeCall, NodeCallTimeout, TaskAnswers,
     AppResponse, AppTimeout, AppCall, AppCallTimeout, Cut, Drop, SlowAck, NodeRestart,
     vars, nodeVars, wireVars, routeVars, appRpcVars, histVars

\* The registry can be told of every connection that closes.
LEMMA RoutesKnownStep ==
  ASSUME TypeOK, Undialed, RoutesKnown, RegistryFollowsRoute
  PROVE [Next]_vars => RoutesKnown'
<1> SUFFICES ASSUME [Next]_vars PROVE RoutesKnown'
  OBVIOUS
<1>1. CASE Dial
  <2>1. dials + 1 \in ConnIds /\ dials + 1 > dials
    BY <1>1, ControlAssumption DEF TypeOK, Dial, ConnIds
  <2>2. dials + 1 \notin discTasks
    BY <2>1 DEF Undialed
  <2>3. QED
    BY <2>2, <1>1 DEF RoutesKnown, Dial
<1>2. ASSUME NEW c \in ConnIds, NEW now \in BOOLEAN, AppHello(c, now)
     PROVE RoutesKnown'
  <2>1. c \in conns /\ {byNode} \ {None} \subseteq conns /\ c \notin authed
    BY <1>2 DEF AppHello, Arrives, RegistryFollowsRoute
  <2>2. {byNode} \ {None} \subseteq socketToNode
    BY DEF RoutesKnown
  <2>3. \/ discTasks' = discTasks /\ conns' = conns
        \/ discTasks' = discTasks \cup ({byNode} \ {None}) /\ conns' = conns \ ({byNode} \ {None})
    BY <1>2 DEF AppHello
  <2>4. byNode' = c /\ authed' = authed \cup {c} /\ socketToNode' = socketToNode \cup {c}
    BY <1>2 DEF AppHello
  <2>5. QED
    BY <2>1, <2>2, <2>3, <2>4 DEF RoutesKnown
<1>3. ASSUME NEW c \in ConnIds, OnWsClose(c)
     PROVE RoutesKnown'
  <2>1. c # None /\ c \in conns
    BY <1>3, ControlAssumption DEF TypeOK, OnWsClose
  <2>2. conns' = conns \ {c} /\ UNCHANGED <<authed, socketToNode>>
    BY <1>3 DEF OnWsClose
  <2>3. CASE byNode = c
    BY <2>1, <2>2, <2>3, <1>3 DEF RoutesKnown, OnWsClose
  <2>4. CASE byNode # c
    BY <2>1, <2>2, <2>4, <1>3 DEF RoutesKnown, OnWsClose
  <2>5. QED
    BY <2>3, <2>4
<1>4. ASSUME NEW c \in ConnIds, Disconnect(c)
     PROVE RoutesKnown'
  BY <1>4 DEF RoutesKnown, RegistryFollowsRoute, Disconnect
<1>5. CASE AppRestart
  BY <1>5 DEF RoutesKnown, AppRestart
<1>6. CASE UNCHANGED <<byNode, authed, socketToNode, discTasks, conns>>
  BY <1>6 DEF RoutesKnown
<1>7. QED
  BY <1>1, <1>2, <1>3, <1>4, <1>5, <1>6 DEF Next, NodeStep, AppStep, ConnStep, FaultStep,
     SendHello, RecvHelloAck, Dispatch, ReadFails, NodeCall, NodeCallTimeout, TaskAnswers,
     AppRequest, AppResponse, AppTimeout, AppAnswers, AppCall, AppCallTimeout, Cut, Drop, SlowAck,
     NodeRestart,
     vars, nodeVars, wireVars, routeVars, appRpcVars, histVars

\* Registry and routing table stay in step.
LEMMA RegistryStep ==
  ASSUME TypeOK, RoutesKnown, RegistryFollowsRoute
  PROVE [Next]_vars => RegistryFollowsRoute'
<1> SUFFICES ASSUME [Next]_vars PROVE RegistryFollowsRoute'
  OBVIOUS
<1>1. CASE Dial
  BY <1>1 DEF RegistryFollowsRoute, Dial
<1>2. ASSUME NEW c \in ConnIds, NEW now \in BOOLEAN, AppHello(c, now)
     PROVE RegistryFollowsRoute'
  <2>1. c \in conns /\ c \notin {byNode} \ {None}
    BY <1>2 DEF AppHello, Arrives, RoutesKnown
  <2>2. c \in conns' /\ byNode' = c /\ registry' = c
    BY <2>1, <1>2 DEF AppHello
  <2>3. QED
    BY <2>2 DEF RegistryFollowsRoute
<1>3. ASSUME NEW c \in ConnIds, OnWsClose(c)
     PROVE RegistryFollowsRoute'
  BY <1>3 DEF RegistryFollowsRoute, OnWsClose
<1>4. ASSUME NEW c \in ConnIds, Disconnect(c)
     PROVE RegistryFollowsRoute'
  <2>1. c \in socketToNode /\ c \notin conns
    BY <1>4 DEF Disconnect, RoutesKnown
  <2>2. byNode # c
    BY <2>1, ControlAssumption DEF RegistryFollowsRoute
  <2>3. UNCHANGED <<byNode, conns>>
    BY <1>4 DEF Disconnect
  <2>4. CASE registry = c
    BY <2>1, <2>2, <2>3, <2>4, <1>4 DEF RegistryFollowsRoute, Disconnect
  <2>5. CASE registry # c
    BY <2>1, <2>2, <2>3, <2>5, <1>4 DEF RegistryFollowsRoute, Disconnect
  <2>6. QED
    BY <2>4, <2>5
<1>5. CASE AppRestart
  BY <1>5 DEF RegistryFollowsRoute, AppRestart
<1>6. CASE UNCHANGED <<byNode, registry, discTasks, conns>>
  BY <1>6 DEF RegistryFollowsRoute
<1>7. QED
  BY <1>1, <1>2, <1>3, <1>4, <1>5, <1>6 DEF Next, NodeStep, AppStep, ConnStep, FaultStep,
     SendHello, RecvHelloAck, Dispatch, ReadFails, NodeCall, NodeCallTimeout, TaskAnswers,
     AppRequest, AppResponse, AppTimeout, AppAnswers, AppCall, AppCallTimeout, Cut, Drop, SlowAck,
     NodeRestart,
     vars, nodeVars, wireVars, routeVars, appRpcVars, histVars

\* A superseded connection is on its way out.
LEMMA OneRouteStep ==
  ASSUME TypeOK, Undialed, OneRoute
  PROVE [Next]_vars => OneRoute'
<1> SUFFICES ASSUME [Next]_vars PROVE OneRoute'
  OBVIOUS
<1>1. CASE Dial
  <2>1. dials + 1 \in ConnIds /\ dials + 1 > dials
    BY <1>1, ControlAssumption DEF TypeOK, Dial, ConnIds
  <2>2. dials + 1 \notin authed
    BY <2>1 DEF Undialed
  <2>3. QED
    BY <2>2, <1>1 DEF OneRoute, Dial
<1>2. ASSUME NEW c \in ConnIds, NEW now \in BOOLEAN, AppHello(c, now)
     PROVE OneRoute'
  <2>1. byNode' = c /\ authed' = authed \cup {c}
    BY <1>2 DEF AppHello
  <2>2. \/ conns' = conns /\ closing' = closing \cup ({byNode} \ {None})
        \/ conns' = conns \ ({byNode} \ {None}) /\ closing' = closing \ ({byNode} \ {None})
    BY <1>2 DEF AppHello
  <2>3. None \notin conns
    BY ControlAssumption DEF TypeOK
  <2>4. QED
    BY <2>1, <2>2, <2>3 DEF OneRoute
<1>3. ASSUME NEW c \in ConnIds, AppTimeout(c)
     PROVE OneRoute'
  BY <1>3 DEF OneRoute, AppTimeout
<1>4. ASSUME NEW c \in ConnIds, OnWsClose(c)
     PROVE OneRoute'
  BY <1>4 DEF OneRoute, OnWsClose
<1>5. ASSUME NEW c \in ConnIds, Drop(c)
     PROVE OneRoute'
  BY <1>5 DEF OneRoute, Drop
<1>6. CASE NodeRestart
  BY <1>6 DEF OneRoute, NodeRestart
<1>7. CASE AppRestart
  BY <1>7 DEF OneRoute, AppRestart
<1>8. CASE UNCHANGED <<conns, authed, byNode, closing>>
  BY <1>8 DEF OneRoute
<1>9. QED
  BY <1>1, <1>2, <1>3, <1>4, <1>5, <1>6, <1>7, <1>8 DEF Next, NodeStep, AppStep, ConnStep,
     FaultStep, SendHello, RecvHelloAck, Dispatch, ReadFails, NodeCall, NodeCallTimeout, TaskAnswers,
     AppRequest, AppResponse, Disconnect, AppAnswers, AppCall, AppCallTimeout, Cut, SlowAck,
     vars, nodeVars, wireVars, routeVars, appRpcVars, histVars

\* A close rejects the calls that wait on the connection.
LEMMA PendingStep ==
  ASSUME RegistryFollowsRoute, PendingOnOpen
  PROVE [Next]_vars => PendingOnOpen'
<1> SUFFICES ASSUME [Next]_vars PROVE PendingOnOpen'
  OBVIOUS
<1>1. CASE Dial
  BY <1>1 DEF PendingOnOpen, Dial, appRpcVars
<1>2. ASSUME NEW c \in ConnIds, NEW now \in BOOLEAN, AppHello(c, now)
     PROVE PendingOnOpen'
  <2>1. \/ conns' = conns /\ appPending' = appPending
        \/ /\ conns' = conns \ ({byNode} \ {None})
           /\ appPending' = {p \in appPending : p.conn \notin {byNode} \ {None}}
    BY <1>2 DEF AppHello
  <2>2. QED
    BY <2>1 DEF PendingOnOpen
<1>3. ASSUME NEW c \in ConnIds, AppResponse(c)
     PROVE PendingOnOpen'
  BY <1>3 DEF PendingOnOpen, AppResponse, routeVars
<1>4. ASSUME NEW c \in ConnIds, OnWsClose(c)
     PROVE PendingOnOpen'
  BY <1>4 DEF PendingOnOpen, OnWsClose
<1>5. CASE AppCall
  <2>1. byNode \in conns /\ conns' = conns
    BY <1>5 DEF AppCall, RegistryFollowsRoute, routeVars
  <2>2. \A p \in appPending' : p \in appPending \/ p.conn = byNode
    BY <1>5 DEF AppCall
  <2>3. QED
    BY <2>1, <2>2 DEF PendingOnOpen
<1>6. ASSUME NEW p \in appPending, AppCallTimeout(p)
     PROVE PendingOnOpen'
  BY <1>6 DEF PendingOnOpen, AppCallTimeout, routeVars
<1>7. CASE AppRestart
  BY <1>7 DEF PendingOnOpen, AppRestart
<1>8. CASE UNCHANGED <<appPending, conns>>
  BY <1>8 DEF PendingOnOpen
<1>9. QED
  BY <1>1, <1>2, <1>3, <1>4, <1>5, <1>6, <1>7, <1>8 DEF Next, NodeStep, AppStep, ConnStep,
     FaultStep, SendHello, RecvHelloAck, Dispatch, ReadFails, NodeCall, NodeCallTimeout, TaskAnswers,
     AppRequest, AppTimeout, Disconnect, AppAnswers, Cut, Drop, SlowAck, NodeRestart,
     vars, nodeVars, wireVars, routeVars, appRpcVars, histVars

-----------------------------------------------------------------------------
(* Sequence numbers.                                                        *)

\* What a step may do to the node's numbering: it adds nothing that stands
\* for another call.
LEMMA NodeNumbersKept ==
  ASSUME NodeNumbers, NodeBase' = NodeBase, dials' = dials,
         nodeSeq' \in 1..(nodeCalls' + 1),
         \A p \in nodePending' : p \in nodePending \/ p.call = p.seq + NodeBase,
         phase' # "idle" =>
           /\ phase # "idle"
           /\ \A f \in InFlight(up'[dials]) :
                f.kind = "request" => f \in InFlight(up[dials]) \/ f.call = f.seq + NodeBase
           /\ \A h \in handlers' :
                h.conn = dials => h \in handlers \/ h.call = h.seq + NodeBase
           /\ \A f \in InFlight(down'[dials]) :
                f.kind = "response" => f \in InFlight(down[dials]) \/ f.call = f.seq + NodeBase
  PROVE  NodeNumbers'
<1>1. \A p \in nodePending' : p.call = p.seq + NodeBase'
  BY DEF NodeNumbers
<1>2. ASSUME phase' # "idle"
      PROVE  /\ \A f \in InFlight(up'[dials]) : f.kind = "request" => f.call = f.seq + NodeBase
             /\ \A h \in handlers' : h.conn = dials => h.call = h.seq + NodeBase
             /\ \A f \in InFlight(down'[dials]) : f.kind = "response" => f.call = f.seq + NodeBase
  BY <1>2 DEF NodeNumbers
<1>3. QED
  BY <1>1, <1>2 DEF NodeNumbers

\* The same for the app's numbering.
LEMMA AppNumbersKept ==
  ASSUME AppNumbers, appSeq' = appCalls' + 1,
         \A p \in appPending' : p \in appPending \/ p.seq = p.call,
         \A t \in tasks' : t \in tasks \/ t.seq = t.call,
         \A c \in ConnIds :
           /\ \A f \in InFlight(up'[c]) :
                f.kind = "response" => f \in InFlight(up[c]) \/ f.seq = f.call
           /\ \A f \in InFlight(down'[c]) :
                f.kind = "request" => f \in InFlight(down[c]) \/ f.seq = f.call
  PROVE  AppNumbers'
  BY DEF AppNumbers

\* Nothing is written to a connection before it is dialed.
LEMMA UndialedEmptyStep ==
  ASSUME TypeOK, Undialed, UndialedEmpty, RegistryFollowsRoute
  PROVE [Next]_vars => UndialedEmpty'
<1> SUFFICES ASSUME [Next]_vars PROVE UndialedEmpty'
  OBVIOUS
<1>1. CASE Dial
  BY <1>1 DEF TypeOK, ConnIds, UndialedEmpty, Dial
<1>2. CASE SendHello
  <2>1. /\ dials \in ConnIds /\ Frame("hello", 0, 0) \in Frames
    BY <1>2, FrameType DEF TypeOK, SendHello
  <2>2. up' = Write(up, dials, Frame("hello", 0, 0))
    BY <1>2 DEF SendHello, Ws
  <2>3. \A d \in ConnIds : \A g \in InFlight(up'[d]) :
           g \in InFlight(up[d]) \/ (d = dials /\ g = Frame("hello", 0, 0))
    <3>1. up \in [ConnIds -> Seq(Frames)]
      BY DEF TypeOK
    <3> DEFINE sent == Frame("hello", 0, 0)
               onto == dials
    <3>2. sent \in Frames /\ onto \in ConnIds /\ up' = Write(up, onto, sent)
      BY <2>1, <2>2
    <3> HIDE DEF sent, onto
    <3>3. \A d \in ConnIds : \A g \in InFlight(up'[d]) :
             g \in InFlight(up[d]) \/ (d = onto /\ g = sent)
      BY <3>1, <3>2, WriteOnly
    <3>4. QED
      BY <3>3 DEF sent, onto
  <2>4. down' = down
    BY <1>2 DEF SendHello, wireVars
  <2>5. dials' = dials
    BY <1>2 DEF SendHello, nodeVars
  <2>6. \A d \in ConnIds : d > dials => d # dials
    BY DEF TypeOK
  <2>7. QED
    BY <2>3, <2>4, <2>5, <2>6 DEF UndialedEmpty
<1>3. CASE RecvHelloAck
  <2>1. up' = up
    BY <1>3 DEF RecvHelloAck, wireVars
  <2>2. \A d \in ConnIds : InFlight(down'[d]) \subseteq InFlight(down[d])
    BY <1>3, ReadTakes DEF TypeOK, RecvHelloAck, Readable
  <2>3. dials' = dials
    BY <1>3 DEF RecvHelloAck, nodeVars
  <2>4. QED
    BY <2>1, <2>2, <2>3 DEF UndialedEmpty
<1>4. CASE Dispatch
  <2>1. up' = up
    BY <1>4 DEF Dispatch, wireVars
  <2>2. \A d \in ConnIds : InFlight(down'[d]) \subseteq InFlight(down[d])
    BY <1>4, ReadTakes DEF TypeOK, Dispatch, Readable
  <2>3. dials' = dials
    BY <1>4 DEF Dispatch, nodeVars
  <2>4. QED
    BY <2>1, <2>2, <2>3 DEF UndialedEmpty
<1>5. CASE NodeCall
  <2>1. /\ dials \in ConnIds /\ Frame("request", nodeSeq, nodeCalls') \in Frames
    BY <1>5, FrameType DEF TypeOK, NodeCall, Ws
  <2>2. up' = Write(up, dials, Frame("request", nodeSeq, nodeCalls'))
    BY <1>5 DEF NodeCall, Ws
  <2>3. \A d \in ConnIds : \A g \in InFlight(up'[d]) :
           g \in InFlight(up[d]) \/ (d = dials /\ g = Frame("request", nodeSeq, nodeCalls'))
    <3>1. up \in [ConnIds -> Seq(Frames)]
      BY DEF TypeOK
    <3> DEFINE sent == Frame("request", nodeSeq, nodeCalls')
               onto == dials
    <3>2. sent \in Frames /\ onto \in ConnIds /\ up' = Write(up, onto, sent)
      BY <2>1, <2>2
    <3> HIDE DEF sent, onto
    <3>3. \A d \in ConnIds : \A g \in InFlight(up'[d]) :
             g \in InFlight(up[d]) \/ (d = onto /\ g = sent)
      BY <3>1, <3>2, WriteOnly
    <3>4. QED
      BY <3>3 DEF sent, onto
  <2>4. down' = down
    BY <1>5 DEF NodeCall, wireVars
  <2>5. dials' = dials
    BY <1>5 DEF NodeCall, nodeVars
  <2>6. \A d \in ConnIds : d > dials => d # dials
    BY DEF TypeOK
  <2>7. QED
    BY <2>3, <2>4, <2>5, <2>6 DEF UndialedEmpty
<1>6. ASSUME NEW t \in tasks, TaskAnswers(t)
     PROVE UndialedEmpty'
  <2>1. t.seq \in Nat /\ t.call \in Nat
    BY DEF TypeOK, Pending
  <2>2. Frame("response", t.seq, t.call) \in Frames
    BY <2>1, FrameType
  <2>3. \A d \in ConnIds : \A f \in InFlight(up'[d]) :
           f \in InFlight(up[d]) \/ (f = Frame("response", t.seq, t.call) /\ phase # "idle" /\ d = dials)
    <3>1. CASE Ws = None
      <4>1. up' = up
        BY <3>1, <1>6 DEF TaskAnswers
      <4>2. QED
        BY <4>1
    <3>2. CASE Ws # None
      <4>1. phase # "idle" /\ dials \in ConnIds
        BY <3>2 DEF TypeOK, Ws
      <4>2. up' = Write(up, dials, Frame("response", t.seq, t.call))
        BY <3>2, <1>6 DEF TaskAnswers
      <4>3. up \in [ConnIds -> Seq(Frames)]
        BY DEF TypeOK
      <4>4. \A d \in ConnIds : \A f \in InFlight(up'[d]) :
               f \in InFlight(up[d]) \/ (d = dials /\ f = Frame("response", t.seq, t.call))
        <5> DEFINE sent == Frame("response", t.seq, t.call)
        <5>1. sent \in Frames /\ up' = Write(up, dials, sent)
          BY <2>2, <4>2
        <5> HIDE DEF sent
        <5>2. \A d \in ConnIds : \A f \in InFlight(up'[d]) :
                 f \in InFlight(up[d]) \/ (d = dials /\ f = sent)
          BY <5>1, <4>1, <4>3, WriteOnly
        <5>3. QED
          BY <5>2 DEF sent
      <4>5. QED
        BY <4>1, <4>4
    <3>3. QED
      BY <3>1, <3>2
  <2>4. down' = down
    BY <1>6 DEF TaskAnswers
  <2>5. dials' = dials
    BY <1>6 DEF TaskAnswers, nodeVars
  <2>6. \A d \in ConnIds : d > dials => d # dials
    BY DEF TypeOK
  <2>7. QED
    BY <2>3, <2>4, <2>5, <2>6 DEF UndialedEmpty
<1>7. ASSUME NEW c \in ConnIds, NEW now \in BOOLEAN, AppHello(c, now)
     PROVE UndialedEmpty'
  <2>1. \A d \in ConnIds : InFlight(up'[d]) \subseteq InFlight(up[d])
    BY <1>7, ReadTakes DEF TypeOK, AppHello, Arrives
  <2>2. /\ c \in ConnIds /\ Frame("helloAck", 0, 0) \in Frames
    BY FrameType
  <2>3. down' = Write(down, c, Frame("helloAck", 0, 0))
    BY <1>7 DEF AppHello, Ws
  <2>4. \A d \in ConnIds : \A g \in InFlight(down'[d]) :
           g \in InFlight(down[d]) \/ (d = c /\ g = Frame("helloAck", 0, 0))
    <3>1. down \in [ConnIds -> Seq(Frames)]
      BY DEF TypeOK
    <3> DEFINE sent == Frame("helloAck", 0, 0)
               onto == c
    <3>2. sent \in Frames /\ onto \in ConnIds /\ down' = Write(down, onto, sent)
      BY <2>2, <2>3
    <3> HIDE DEF sent, onto
    <3>3. \A d \in ConnIds : \A g \in InFlight(down'[d]) :
             g \in InFlight(down[d]) \/ (d = onto /\ g = sent)
      BY <3>1, <3>2, WriteOnly
    <3>4. QED
      BY <3>3 DEF sent, onto
  <2>5. dials' = dials
    BY <1>7 DEF AppHello, nodeVars
  <2>6. \A d \in ConnIds : d > dials => d # c
    BY <1>7 DEF AppHello, Arrives, Undialed
  <2>7. QED
    BY <2>1, <2>4, <2>5, <2>6 DEF UndialedEmpty
<1>8. ASSUME NEW c \in ConnIds, AppRequest(c)
     PROVE UndialedEmpty'
  <2>1. \A d \in ConnIds : InFlight(up'[d]) \subseteq InFlight(up[d])
    BY <1>8, ReadTakes DEF TypeOK, AppRequest, Arrives
  <2>2. down' = down
    BY <1>8 DEF AppRequest, wireVars
  <2>3. dials' = dials
    BY <1>8 DEF AppRequest, nodeVars
  <2>4. QED
    BY <2>1, <2>2, <2>3 DEF UndialedEmpty
<1>9. ASSUME NEW c \in ConnIds, AppResponse(c)
     PROVE UndialedEmpty'
  <2>1. \A d \in ConnIds : InFlight(up'[d]) \subseteq InFlight(up[d])
    BY <1>9, ReadTakes DEF TypeOK, AppResponse, Arrives
  <2>2. down' = down
    BY <1>9 DEF AppResponse, wireVars
  <2>3. dials' = dials
    BY <1>9 DEF AppResponse, nodeVars
  <2>4. QED
    BY <2>1, <2>2, <2>3 DEF UndialedEmpty
<1>10. ASSUME NEW h \in handlers, AppAnswers(h)
     PROVE UndialedEmpty'
  <2>1. h.conn \in ConnIds /\ h.seq \in Nat /\ h.call \in Nat
    BY DEF TypeOK, ConnPending
  <2>2. /\ h.conn \in ConnIds /\ Frame("response", h.seq, h.call) \in Frames
    BY <2>1, FrameType
  <2>3. down' = Write(down, h.conn, Frame("response", h.seq, h.call))
    BY <1>10 DEF AppAnswers, Ws
  <2>4. \A d \in ConnIds : \A g \in InFlight(down'[d]) :
           g \in InFlight(down[d]) \/ (d = h.conn /\ g = Frame("response", h.seq, h.call))
    <3>1. down \in [ConnIds -> Seq(Frames)]
      BY DEF TypeOK
    <3> DEFINE sent == Frame("response", h.seq, h.call)
               onto == h.conn
    <3>2. sent \in Frames /\ onto \in ConnIds /\ down' = Write(down, onto, sent)
      BY <2>2, <2>3
    <3> HIDE DEF sent, onto
    <3>3. \A d \in ConnIds : \A g \in InFlight(down'[d]) :
             g \in InFlight(down[d]) \/ (d = onto /\ g = sent)
      BY <3>1, <3>2, WriteOnly
    <3>4. QED
      BY <3>3 DEF sent, onto
  <2>5. up' = up
    BY <1>10 DEF AppAnswers, wireVars
  <2>6. dials' = dials
    BY <1>10 DEF AppAnswers, nodeVars
  <2>7. \A d \in ConnIds : d > dials => d # h.conn
    BY DEF Undialed
  <2>8. QED
    BY <2>5, <2>4, <2>6, <2>7 DEF UndialedEmpty
<1>11. CASE AppCall
  <2>1. byNode \in ConnIds /\ appCalls' \in Nat /\ FreshSeq \in Nat
    BY <1>11 DEF TypeOK, AppCall, FreshSeq
  <2>2. /\ byNode \in ConnIds /\ Frame("request", FreshSeq, appCalls') \in Frames
    BY <2>1, FrameType
  <2>3. down' = Write(down, byNode, Frame("request", FreshSeq, appCalls'))
    BY <1>11 DEF AppCall, Ws
  <2>4. \A d \in ConnIds : \A g \in InFlight(down'[d]) :
           g \in InFlight(down[d]) \/ (d = byNode /\ g = Frame("request", FreshSeq, appCalls'))
    <3>1. down \in [ConnIds -> Seq(Frames)]
      BY DEF TypeOK
    <3> DEFINE sent == Frame("request", FreshSeq, appCalls')
               onto == byNode
    <3>2. sent \in Frames /\ onto \in ConnIds /\ down' = Write(down, onto, sent)
      BY <2>2, <2>3
    <3> HIDE DEF sent, onto
    <3>3. \A d \in ConnIds : \A g \in InFlight(down'[d]) :
             g \in InFlight(down[d]) \/ (d = onto /\ g = sent)
      BY <3>1, <3>2, WriteOnly
    <3>4. QED
      BY <3>3 DEF sent, onto
  <2>5. up' = up
    BY <1>11 DEF AppCall, wireVars
  <2>6. dials' = dials
    BY <1>11 DEF AppCall, nodeVars
  <2>7. \A d \in ConnIds : d > dials => d # byNode
    BY <1>11 DEF AppCall, Undialed, RegistryFollowsRoute
  <2>8. QED
    BY <2>5, <2>4, <2>6, <2>7 DEF UndialedEmpty
<1>12. ASSUME NEW c \in ConnIds, Cut(c)
     PROVE UndialedEmpty'
  <2>1. \A d \in ConnIds : InFlight(up'[d]) \subseteq InFlight(up[d])
    BY <1>12, ClearLoses DEF TypeOK, Cut
  <2>2. \A d \in ConnIds : InFlight(down'[d]) \subseteq InFlight(down[d])
    BY <1>12, ClearLoses DEF TypeOK, Cut
  <2>3. dials' = dials
    BY <1>12 DEF Cut, nodeVars
  <2>4. QED
    BY <2>1, <2>2, <2>3 DEF UndialedEmpty
<1>13. ASSUME NEW c \in ConnIds, Drop(c)
     PROVE UndialedEmpty'
  <2>1. \A d \in ConnIds : InFlight(up'[d]) \subseteq InFlight(up[d])
    BY <1>13, ClearLoses DEF TypeOK, Drop
  <2>2. \A d \in ConnIds : InFlight(down'[d]) \subseteq InFlight(down[d])
    BY <1>13, ClearLoses DEF TypeOK, Drop
  <2>3. dials' = dials
    BY <1>13 DEF Drop, nodeVars
  <2>4. QED
    BY <2>1, <2>2, <2>3 DEF UndialedEmpty
<1>14. CASE AppRestart
  <2>1. \A d \in ConnIds : InFlight(up'[d]) \subseteq InFlight(up[d])
    BY <1>14, ClearLoses DEF TypeOK, AppRestart
  <2>2. down' = down
    BY <1>14 DEF AppRestart, wireVars
  <2>3. dials' = dials
    BY <1>14 DEF AppRestart, nodeVars
  <2>4. QED
    BY <2>1, <2>2, <2>3 DEF UndialedEmpty
<1>15. CASE UNCHANGED <<dials, up, down>>
  BY <1>15 DEF UndialedEmpty
<1>16. QED
  BY <1>1, <1>2, <1>3, <1>4, <1>5, <1>6, <1>7, <1>8, <1>9, <1>10, <1>11, <1>12, <1>13, <1>14,
     <1>15 DEF Next, NodeStep, AppStep, ConnStep, FaultStep, ReadFails, NodeCallTimeout, AppTimeout,
     OnWsClose, Disconnect, AppCallTimeout, SlowAck, NodeRestart,
     vars, nodeVars, wireVars, routeVars, appRpcVars, histVars

\* On the connection the node reads, numbers keep standing for its calls.
LEMMA NodeNumbersStep ==
  ASSUME TypeOK, Undialed, UndialedEmpty, NodeNumbers
  PROVE [Next]_vars => NodeNumbers'
<1> SUFFICES ASSUME [Next]_vars PROVE NodeNumbers'
  OBVIOUS
<1>1. CASE Dial
  <2>1. dials + 1 \in ConnIds /\ dials + 1 > dials
    BY <1>1, ControlAssumption DEF TypeOK, Dial, ConnIds
  <2>2. /\ InFlight(up[dials + 1]) = {} /\ InFlight(down[dials + 1]) = {}
        /\ \A h \in handlers : h.conn # dials + 1
    BY <2>1 DEF Undialed, UndialedEmpty
  <2>3. dials' = dials + 1 /\ UNCHANGED <<nodeSeq, nodeCalls, nodePending, up, down, handlers>>
    BY <1>1 DEF Dial, appRpcVars, histVars
  <2>4. NodeBase' = NodeBase
    BY <2>3 DEF NodeBase
  <2>5. QED
    BY <2>2, <2>3, <2>4 DEF NodeNumbers
<1>2. CASE SendHello
  <2>1. /\ dials \in ConnIds /\ Frame("hello", 0, 0) \in Frames
    BY <1>2, FrameType DEF TypeOK, SendHello
  <2>2. up' = Write(up, dials, Frame("hello", 0, 0))
    BY <1>2 DEF SendHello, Ws
  <2>3. \A d \in ConnIds : \A g \in InFlight(up'[d]) :
           g \in InFlight(up[d]) \/ (d = dials /\ g = Frame("hello", 0, 0))
    <3>1. up \in [ConnIds -> Seq(Frames)]
      BY DEF TypeOK
    <3> DEFINE sent == Frame("hello", 0, 0)
               onto == dials
    <3>2. sent \in Frames /\ onto \in ConnIds /\ up' = Write(up, onto, sent)
      BY <2>1, <2>2
    <3> HIDE DEF sent, onto
    <3>3. \A d \in ConnIds : \A g \in InFlight(up'[d]) :
             g \in InFlight(up[d]) \/ (d = onto /\ g = sent)
      BY <3>1, <3>2, WriteOnly
    <3>4. QED
      BY <3>3 DEF sent, onto
  <2>4. down' = down
    BY <1>2 DEF SendHello, wireVars
  <2>5. UNCHANGED <<nodeSeq, nodeCalls>>
    BY <1>2 DEF SendHello, nodeVars, histVars
  <2>6. NodeBase' = NodeBase /\ nodeSeq' \in 1..(nodeCalls' + 1)
    BY <2>5 DEF NodeBase, NodeNumbers
  <2>7. \A p \in nodePending' : p \in nodePending
    BY <1>2 DEF SendHello, nodeVars
  <2>8. dials' = dials /\ (phase' # "idle" => phase # "idle" /\ dials \in ConnIds)
    BY <1>2 DEF SendHello, nodeVars, TypeOK
  <2>9. \A h \in handlers' : h \in handlers
    BY <1>2 DEF SendHello, appRpcVars
  <2>10. ASSUME phase' # "idle"
        PROVE \A f \in InFlight(up'[dials]) :
                f.kind = "request" => f \in InFlight(up[dials]) \/ f.call = f.seq + NodeBase
    BY <2>10, <2>3, <2>8 DEF Frame
  <2>11. ASSUME phase' # "idle"
        PROVE \A f \in InFlight(down'[dials]) :
                f.kind = "response" => f \in InFlight(down[dials]) \/ f.call = f.seq + NodeBase
    BY <2>11, <2>4, <2>8
  <2>12. QED
    BY <2>5, <2>6, <2>7, <2>8, <2>9, <2>10, <2>11, NodeNumbersKept
<1>3. CASE RecvHelloAck
  <2>1. up' = up
    BY <1>3 DEF RecvHelloAck, wireVars
  <2>2. \A d \in ConnIds : InFlight(down'[d]) \subseteq InFlight(down[d])
    BY <1>3, ReadTakes DEF TypeOK, RecvHelloAck, Readable
  <2>3. UNCHANGED <<nodeSeq, nodeCalls>>
    BY <1>3 DEF RecvHelloAck, nodeVars, histVars
  <2>4. NodeBase' = NodeBase /\ nodeSeq' \in 1..(nodeCalls' + 1)
    BY <2>3 DEF NodeBase, NodeNumbers
  <2>5. \A p \in nodePending' : p \in nodePending
    BY <1>3 DEF RecvHelloAck, nodeVars
  <2>6. dials' = dials /\ (phase' # "idle" => phase # "idle" /\ dials \in ConnIds)
    BY <1>3 DEF RecvHelloAck, nodeVars, TypeOK
  <2>7. \A h \in handlers' : h \in handlers
    BY <1>3 DEF RecvHelloAck, appRpcVars
  <2>8. ASSUME phase' # "idle"
        PROVE \A f \in InFlight(up'[dials]) :
                f.kind = "request" => f \in InFlight(up[dials]) \/ f.call = f.seq + NodeBase
    BY <2>8, <2>1, <2>6
  <2>9. ASSUME phase' # "idle"
        PROVE \A f \in InFlight(down'[dials]) :
                f.kind = "response" => f \in InFlight(down[dials]) \/ f.call = f.seq + NodeBase
    BY <2>9, <2>2, <2>6
  <2>10. QED
    BY <2>3, <2>4, <2>5, <2>6, <2>7, <2>8, <2>9, NodeNumbersKept
<1>4. CASE Dispatch
  <2>1. up' = up
    BY <1>4 DEF Dispatch, wireVars
  <2>2. \A d \in ConnIds : InFlight(down'[d]) \subseteq InFlight(down[d])
    BY <1>4, ReadTakes DEF TypeOK, Dispatch, Readable
  <2>3. UNCHANGED <<nodeSeq, nodeCalls>>
    BY <1>4 DEF Dispatch, nodeVars, histVars
  <2>4. NodeBase' = NodeBase /\ nodeSeq' \in 1..(nodeCalls' + 1)
    BY <2>3 DEF NodeBase, NodeNumbers
  <2>5. \A p \in nodePending' : p \in nodePending
    BY <1>4 DEF Dispatch, nodeVars
  <2>6. dials' = dials /\ (phase' # "idle" => phase # "idle" /\ dials \in ConnIds)
    BY <1>4 DEF Dispatch, nodeVars, TypeOK
  <2>7. \A h \in handlers' : h \in handlers
    BY <1>4 DEF Dispatch, appRpcVars
  <2>8. ASSUME phase' # "idle"
        PROVE \A f \in InFlight(up'[dials]) :
                f.kind = "request" => f \in InFlight(up[dials]) \/ f.call = f.seq + NodeBase
    BY <2>8, <2>1, <2>6
  <2>9. ASSUME phase' # "idle"
        PROVE \A f \in InFlight(down'[dials]) :
                f.kind = "response" => f \in InFlight(down[dials]) \/ f.call = f.seq + NodeBase
    BY <2>9, <2>2, <2>6
  <2>10. QED
    BY <2>3, <2>4, <2>5, <2>6, <2>7, <2>8, <2>9, NodeNumbersKept
<1>5. CASE ReadFails
  <2>1. up' = up
    BY <1>5 DEF ReadFails, wireVars
  <2>2. down' = down
    BY <1>5 DEF ReadFails, wireVars
  <2>3. UNCHANGED <<nodeSeq, nodeCalls>>
    BY <1>5 DEF ReadFails, nodeVars, histVars
  <2>4. NodeBase' = NodeBase /\ nodeSeq' \in 1..(nodeCalls' + 1)
    BY <2>3 DEF NodeBase, NodeNumbers
  <2>5. \A p \in nodePending' : p \in nodePending
    BY <1>5 DEF ReadFails, nodeVars
  <2>6. dials' = dials /\ (phase' # "idle" => phase # "idle" /\ dials \in ConnIds)
    BY <1>5 DEF ReadFails, nodeVars, TypeOK
  <2>7. \A h \in handlers' : h \in handlers
    BY <1>5 DEF ReadFails, appRpcVars
  <2>8. ASSUME phase' # "idle"
        PROVE \A f \in InFlight(up'[dials]) :
                f.kind = "request" => f \in InFlight(up[dials]) \/ f.call = f.seq + NodeBase
    BY <2>8, <2>1, <2>6
  <2>9. ASSUME phase' # "idle"
        PROVE \A f \in InFlight(down'[dials]) :
                f.kind = "response" => f \in InFlight(down[dials]) \/ f.call = f.seq + NodeBase
    BY <2>9, <2>2, <2>6
  <2>10. QED
    BY <2>3, <2>4, <2>5, <2>6, <2>7, <2>8, <2>9, NodeNumbersKept
<1>6. CASE NodeCall
  <2>1. /\ dials \in ConnIds /\ Frame("request", nodeSeq, nodeCalls') \in Frames
    BY <1>6, FrameType DEF TypeOK, NodeCall, Ws
  <2>2. up' = Write(up, dials, Frame("request", nodeSeq, nodeCalls'))
    BY <1>6 DEF NodeCall, Ws
  <2>3. \A d \in ConnIds : \A g \in InFlight(up'[d]) :
           g \in InFlight(up[d]) \/ (d = dials /\ g = Frame("request", nodeSeq, nodeCalls'))
    <3>1. up \in [ConnIds -> Seq(Frames)]
      BY DEF TypeOK
    <3> DEFINE sent == Frame("request", nodeSeq, nodeCalls')
               onto == dials
    <3>2. sent \in Frames /\ onto \in ConnIds /\ up' = Write(up, onto, sent)
      BY <2>1, <2>2
    <3> HIDE DEF sent, onto
    <3>3. \A d \in ConnIds : \A g \in InFlight(up'[d]) :
             g \in InFlight(up[d]) \/ (d = onto /\ g = sent)
      BY <3>1, <3>2, WriteOnly
    <3>4. QED
      BY <3>3 DEF sent, onto
  <2>4. down' = down
    BY <1>6 DEF NodeCall, wireVars
  <2>5. nodeSeq' = nodeSeq + 1 /\ nodeCalls' = nodeCalls + 1 /\ nodeSeq' \in 1..(nodeCalls' + 1)
    BY <1>6 DEF TypeOK, NodeNumbers, NodeCall
  <2>6. NodeBase' = NodeBase /\ nodeCalls' = nodeSeq + NodeBase
    BY <2>5 DEF NodeBase, TypeOK
  <2>7. \A p \in nodePending' : p \in nodePending \/ p.call = p.seq + NodeBase
    BY <2>6, <1>6 DEF NodeCall
  <2>8. dials' = dials /\ (phase' # "idle" => phase # "idle" /\ dials \in ConnIds)
    BY <1>6 DEF NodeCall, nodeVars, TypeOK, Ws
  <2>9. \A h \in handlers' : h \in handlers
    BY <1>6 DEF NodeCall, appRpcVars
  <2>10. ASSUME phase' # "idle"
        PROVE \A f \in InFlight(up'[dials]) :
                f.kind = "request" => f \in InFlight(up[dials]) \/ f.call = f.seq + NodeBase
    BY <2>10, <2>3, <2>8, <2>5, <2>6 DEF Frame
  <2>11. ASSUME phase' # "idle"
        PROVE \A f \in InFlight(down'[dials]) :
                f.kind = "response" => f \in InFlight(down[dials]) \/ f.call = f.seq + NodeBase
    BY <2>11, <2>4, <2>8
  <2>12. QED
    BY <2>5, <2>6, <2>7, <2>8, <2>9, <2>10, <2>11, NodeNumbersKept
<1>7. ASSUME NEW p \in nodePending, NodeCallTimeout(p)
     PROVE NodeNumbers'
  <2>1. up' = up
    BY <1>7 DEF NodeCallTimeout, wireVars
  <2>2. down' = down
    BY <1>7 DEF NodeCallTimeout, wireVars
  <2>3. UNCHANGED <<nodeSeq, nodeCalls>>
    BY <1>7 DEF NodeCallTimeout, nodeVars, histVars
  <2>4. NodeBase' = NodeBase /\ nodeSeq' \in 1..(nodeCalls' + 1)
    BY <2>3 DEF NodeBase, NodeNumbers
  <2>5. \A q \in nodePending' : q \in nodePending
    BY <1>7 DEF NodeCallTimeout, nodeVars
  <2>6. dials' = dials /\ (phase' # "idle" => phase # "idle" /\ dials \in ConnIds)
    BY <1>7 DEF NodeCallTimeout, nodeVars, TypeOK
  <2>7. \A h \in handlers' : h \in handlers
    BY <1>7 DEF NodeCallTimeout, appRpcVars
  <2>8. ASSUME phase' # "idle"
        PROVE \A f \in InFlight(up'[dials]) :
                f.kind = "request" => f \in InFlight(up[dials]) \/ f.call = f.seq + NodeBase
    BY <2>8, <2>1, <2>6
  <2>9. ASSUME phase' # "idle"
        PROVE \A f \in InFlight(down'[dials]) :
                f.kind = "response" => f \in InFlight(down[dials]) \/ f.call = f.seq + NodeBase
    BY <2>9, <2>2, <2>6
  <2>10. QED
    BY <2>3, <2>4, <2>5, <2>6, <2>7, <2>8, <2>9, NodeNumbersKept
<1>8. ASSUME NEW t \in tasks, TaskAnswers(t)
     PROVE NodeNumbers'
  <2>1. t.seq \in Nat /\ t.call \in Nat
    BY DEF TypeOK, Pending
  <2>2. Frame("response", t.seq, t.call) \in Frames
    BY <2>1, FrameType
  <2>3. \A d \in ConnIds : \A f \in InFlight(up'[d]) :
           f \in InFlight(up[d]) \/ (f = Frame("response", t.seq, t.call) /\ phase # "idle" /\ d = dials)
    <3>1. CASE Ws = None
      <4>1. up' = up
        BY <3>1, <1>8 DEF TaskAnswers
      <4>2. QED
        BY <4>1
    <3>2. CASE Ws # None
      <4>1. phase # "idle" /\ dials \in ConnIds
        BY <3>2 DEF TypeOK, Ws
      <4>2. up' = Write(up, dials, Frame("response", t.seq, t.call))
        BY <3>2, <1>8 DEF TaskAnswers
      <4>3. up \in [ConnIds -> Seq(Frames)]
        BY DEF TypeOK
      <4>4. \A d \in ConnIds : \A f \in InFlight(up'[d]) :
               f \in InFlight(up[d]) \/ (d = dials /\ f = Frame("response", t.seq, t.call))
        <5> DEFINE sent == Frame("response", t.seq, t.call)
        <5>1. sent \in Frames /\ up' = Write(up, dials, sent)
          BY <2>2, <4>2
        <5> HIDE DEF sent
        <5>2. \A d \in ConnIds : \A f \in InFlight(up'[d]) :
                 f \in InFlight(up[d]) \/ (d = dials /\ f = sent)
          BY <5>1, <4>1, <4>3, WriteOnly
        <5>3. QED
          BY <5>2 DEF sent
      <4>5. QED
        BY <4>1, <4>4
    <3>3. QED
      BY <3>1, <3>2
  <2>4. down' = down
    BY <1>8 DEF TaskAnswers
  <2>5. UNCHANGED <<nodeSeq, nodeCalls>>
    BY <1>8 DEF TaskAnswers, nodeVars, histVars
  <2>6. NodeBase' = NodeBase /\ nodeSeq' \in 1..(nodeCalls' + 1)
    BY <2>5 DEF NodeBase, NodeNumbers
  <2>7. \A p \in nodePending' : p \in nodePending
    BY <1>8 DEF TaskAnswers, nodeVars
  <2>8. dials' = dials /\ (phase' # "idle" => phase # "idle" /\ dials \in ConnIds)
    BY <1>8 DEF TaskAnswers, nodeVars, TypeOK
  <2>9. \A h \in handlers' : h \in handlers
    BY <1>8 DEF TaskAnswers, appRpcVars
  <2>10. ASSUME phase' # "idle"
        PROVE \A f \in InFlight(up'[dials]) :
                f.kind = "request" => f \in InFlight(up[dials]) \/ f.call = f.seq + NodeBase
    BY <2>10, <2>3, <2>8 DEF Frame
  <2>11. ASSUME phase' # "idle"
        PROVE \A f \in InFlight(down'[dials]) :
                f.kind = "response" => f \in InFlight(down[dials]) \/ f.call = f.seq + NodeBase
    BY <2>11, <2>4, <2>8
  <2>12. QED
    BY <2>5, <2>6, <2>7, <2>8, <2>9, <2>10, <2>11, NodeNumbersKept
<1>9. ASSUME NEW c \in ConnIds, NEW now \in BOOLEAN, AppHello(c, now)
     PROVE NodeNumbers'
  <2>1. \A d \in ConnIds : InFlight(up'[d]) \subseteq InFlight(up[d])
    BY <1>9, ReadTakes DEF TypeOK, AppHello, Arrives
  <2>2. /\ c \in ConnIds /\ Frame("helloAck", 0, 0) \in Frames
    BY FrameType
  <2>3. down' = Write(down, c, Frame("helloAck", 0, 0))
    BY <1>9 DEF AppHello, Ws
  <2>4. \A d \in ConnIds : \A g \in InFlight(down'[d]) :
           g \in InFlight(down[d]) \/ (d = c /\ g = Frame("helloAck", 0, 0))
    <3>1. down \in [ConnIds -> Seq(Frames)]
      BY DEF TypeOK
    <3> DEFINE sent == Frame("helloAck", 0, 0)
               onto == c
    <3>2. sent \in Frames /\ onto \in ConnIds /\ down' = Write(down, onto, sent)
      BY <2>2, <2>3
    <3> HIDE DEF sent, onto
    <3>3. \A d \in ConnIds : \A g \in InFlight(down'[d]) :
             g \in InFlight(down[d]) \/ (d = onto /\ g = sent)
      BY <3>1, <3>2, WriteOnly
    <3>4. QED
      BY <3>3 DEF sent, onto
  <2>5. UNCHANGED <<nodeSeq, nodeCalls>>
    BY <1>9 DEF AppHello, nodeVars, histVars
  <2>6. NodeBase' = NodeBase /\ nodeSeq' \in 1..(nodeCalls' + 1)
    BY <2>5 DEF NodeBase, NodeNumbers
  <2>7. \A p \in nodePending' : p \in nodePending
    BY <1>9 DEF AppHello, nodeVars
  <2>8. dials' = dials /\ (phase' # "idle" => phase # "idle" /\ dials \in ConnIds)
    BY <1>9 DEF AppHello, nodeVars, TypeOK
  <2>9. \A h \in handlers' : h \in handlers
    BY <1>9 DEF AppHello, appRpcVars
  <2>10. ASSUME phase' # "idle"
        PROVE \A f \in InFlight(up'[dials]) :
                f.kind = "request" => f \in InFlight(up[dials]) \/ f.call = f.seq + NodeBase
    BY <2>10, <2>1, <2>8
  <2>11. ASSUME phase' # "idle"
        PROVE \A f \in InFlight(down'[dials]) :
                f.kind = "response" => f \in InFlight(down[dials]) \/ f.call = f.seq + NodeBase
    BY <2>11, <2>4, <2>8 DEF Frame
  <2>12. QED
    BY <2>5, <2>6, <2>7, <2>8, <2>9, <2>10, <2>11, NodeNumbersKept
<1>10. ASSUME NEW c \in ConnIds, AppRequest(c)
     PROVE NodeNumbers'
  <2>1. \A d \in ConnIds : InFlight(up'[d]) \subseteq InFlight(up[d])
    BY <1>10, ReadTakes DEF TypeOK, AppRequest, Arrives
  <2>2. down' = down
    BY <1>10 DEF AppRequest, wireVars
  <2>3. UNCHANGED <<nodeSeq, nodeCalls>>
    BY <1>10 DEF AppRequest, nodeVars, histVars
  <2>4. NodeBase' = NodeBase /\ nodeSeq' \in 1..(nodeCalls' + 1)
    BY <2>3 DEF NodeBase, NodeNumbers
  <2>5. \A p \in nodePending' : p \in nodePending
    BY <1>10 DEF AppRequest, nodeVars
  <2>6. dials' = dials /\ (phase' # "idle" => phase # "idle" /\ dials \in ConnIds)
    BY <1>10 DEF AppRequest, nodeVars, TypeOK
  <2>7. Head(up[c]) \in InFlight(up[c]) /\ Head(up[c]).kind = "request"
    BY <1>10, ReadTakes DEF TypeOK, AppRequest, Arrives
  <2>8. \A h \in handlers' : h \in handlers
             \/ h = [conn |-> c, seq |-> Head(up[c]).seq, call |-> Head(up[c]).call]
    BY <1>10 DEF AppRequest
  <2>9. ASSUME phase' # "idle"
        PROVE \A h \in handlers' : h.conn = dials => h \in handlers \/ h.call = h.seq + NodeBase
    BY <2>7, <2>8, <2>9, <2>6 DEF NodeNumbers
  <2>10. ASSUME phase' # "idle"
        PROVE \A f \in InFlight(up'[dials]) :
                f.kind = "request" => f \in InFlight(up[dials]) \/ f.call = f.seq + NodeBase
    BY <2>10, <2>1, <2>6
  <2>11. ASSUME phase' # "idle"
        PROVE \A f \in InFlight(down'[dials]) :
                f.kind = "response" => f \in InFlight(down[dials]) \/ f.call = f.seq + NodeBase
    BY <2>11, <2>2, <2>6
  <2>12. QED
    BY <2>3, <2>4, <2>5, <2>6, <2>9, <2>10, <2>11, NodeNumbersKept
<1>11. ASSUME NEW c \in ConnIds, AppResponse(c)
     PROVE NodeNumbers'
  <2>1. \A d \in ConnIds : InFlight(up'[d]) \subseteq InFlight(up[d])
    BY <1>11, ReadTakes DEF TypeOK, AppResponse, Arrives
  <2>2. down' = down
    BY <1>11 DEF AppResponse, wireVars
  <2>3. UNCHANGED <<nodeSeq, nodeCalls>>
    BY <1>11 DEF AppResponse, nodeVars, histVars
  <2>4. NodeBase' = NodeBase /\ nodeSeq' \in 1..(nodeCalls' + 1)
    BY <2>3 DEF NodeBase, NodeNumbers
  <2>5. \A p \in nodePending' : p \in nodePending
    BY <1>11 DEF AppResponse, nodeVars
  <2>6. dials' = dials /\ (phase' # "idle" => phase # "idle" /\ dials \in ConnIds)
    BY <1>11 DEF AppResponse, nodeVars, TypeOK
  <2>7. \A h \in handlers' : h \in handlers
    BY <1>11 DEF AppResponse, appRpcVars
  <2>8. ASSUME phase' # "idle"
        PROVE \A f \in InFlight(up'[dials]) :
                f.kind = "request" => f \in InFlight(up[dials]) \/ f.call = f.seq + NodeBase
    BY <2>8, <2>1, <2>6
  <2>9. ASSUME phase' # "idle"
        PROVE \A f \in InFlight(down'[dials]) :
                f.kind = "response" => f \in InFlight(down[dials]) \/ f.call = f.seq + NodeBase
    BY <2>9, <2>2, <2>6
  <2>10. QED
    BY <2>3, <2>4, <2>5, <2>6, <2>7, <2>8, <2>9, NodeNumbersKept
<1>12. ASSUME NEW h \in handlers, AppAnswers(h)
     PROVE NodeNumbers'
  <2>1. h.conn \in ConnIds /\ h.seq \in Nat /\ h.call \in Nat
    BY DEF TypeOK, ConnPending
  <2>2. /\ h.conn \in ConnIds /\ Frame("response", h.seq, h.call) \in Frames
    BY <2>1, FrameType
  <2>3. down' = Write(down, h.conn, Frame("response", h.seq, h.call))
    BY <1>12 DEF AppAnswers, Ws
  <2>4. \A d \in ConnIds : \A g \in InFlight(down'[d]) :
           g \in InFlight(down[d]) \/ (d = h.conn /\ g = Frame("response", h.seq, h.call))
    <3>1. down \in [ConnIds -> Seq(Frames)]
      BY DEF TypeOK
    <3> DEFINE sent == Frame("response", h.seq, h.call)
               onto == h.conn
    <3>2. sent \in Frames /\ onto \in ConnIds /\ down' = Write(down, onto, sent)
      BY <2>2, <2>3
    <3> HIDE DEF sent, onto
    <3>3. \A d \in ConnIds : \A g \in InFlight(down'[d]) :
             g \in InFlight(down[d]) \/ (d = onto /\ g = sent)
      BY <3>1, <3>2, WriteOnly
    <3>4. QED
      BY <3>3 DEF sent, onto
  <2>5. up' = up
    BY <1>12 DEF AppAnswers, wireVars
  <2>6. UNCHANGED <<nodeSeq, nodeCalls>>
    BY <1>12 DEF AppAnswers, nodeVars, histVars
  <2>7. NodeBase' = NodeBase /\ nodeSeq' \in 1..(nodeCalls' + 1)
    BY <2>6 DEF NodeBase, NodeNumbers
  <2>8. \A p \in nodePending' : p \in nodePending
    BY <1>12 DEF AppAnswers, nodeVars
  <2>9. dials' = dials /\ (phase' # "idle" => phase # "idle" /\ dials \in ConnIds)
    BY <1>12 DEF AppAnswers, nodeVars, TypeOK
  <2>10. \A k \in handlers' : k \in handlers
    BY <1>12 DEF AppAnswers, appRpcVars
  <2>11. ASSUME phase' # "idle"
        PROVE \A f \in InFlight(up'[dials]) :
                f.kind = "request" => f \in InFlight(up[dials]) \/ f.call = f.seq + NodeBase
    BY <2>11, <2>5, <2>9
  <2>12. ASSUME phase' # "idle", h.conn = dials
        PROVE h.call = h.seq + NodeBase
    BY <2>12, <2>9 DEF NodeNumbers
  <2>13. ASSUME phase' # "idle"
        PROVE \A f \in InFlight(down'[dials]) :
                f.kind = "response" => f \in InFlight(down[dials]) \/ f.call = f.seq + NodeBase
    BY <2>13, <2>4, <2>9, <2>12 DEF Frame
  <2>14. QED
    BY <2>6, <2>7, <2>8, <2>9, <2>10, <2>11, <2>13, NodeNumbersKept
<1>13. CASE AppCall
  <2>1. byNode \in ConnIds /\ appCalls' \in Nat /\ FreshSeq \in Nat
    BY <1>13 DEF TypeOK, AppCall, FreshSeq
  <2>2. /\ byNode \in ConnIds /\ Frame("request", FreshSeq, appCalls') \in Frames
    BY <2>1, FrameType
  <2>3. down' = Write(down, byNode, Frame("request", FreshSeq, appCalls'))
    BY <1>13 DEF AppCall, Ws
  <2>4. \A d \in ConnIds : \A g \in InFlight(down'[d]) :
           g \in InFlight(down[d]) \/ (d = byNode /\ g = Frame("request", FreshSeq, appCalls'))
    <3>1. down \in [ConnIds -> Seq(Frames)]
      BY DEF TypeOK
    <3> DEFINE sent == Frame("request", FreshSeq, appCalls')
               onto == byNode
    <3>2. sent \in Frames /\ onto \in ConnIds /\ down' = Write(down, onto, sent)
      BY <2>2, <2>3
    <3> HIDE DEF sent, onto
    <3>3. \A d \in ConnIds : \A g \in InFlight(down'[d]) :
             g \in InFlight(down[d]) \/ (d = onto /\ g = sent)
      BY <3>1, <3>2, WriteOnly
    <3>4. QED
      BY <3>3 DEF sent, onto
  <2>5. up' = up
    BY <1>13 DEF AppCall, wireVars
  <2>6. UNCHANGED <<nodeSeq, nodeCalls>>
    BY <1>13 DEF AppCall, nodeVars, histVars
  <2>7. NodeBase' = NodeBase /\ nodeSeq' \in 1..(nodeCalls' + 1)
    BY <2>6 DEF NodeBase, NodeNumbers
  <2>8. \A p \in nodePending' : p \in nodePending
    BY <1>13 DEF AppCall, nodeVars
  <2>9. dials' = dials /\ (phase' # "idle" => phase # "idle" /\ dials \in ConnIds)
    BY <1>13 DEF AppCall, nodeVars, TypeOK
  <2>10. \A h \in handlers' : h \in handlers
    BY <1>13 DEF AppCall, appRpcVars
  <2>11. ASSUME phase' # "idle"
        PROVE \A f \in InFlight(up'[dials]) :
                f.kind = "request" => f \in InFlight(up[dials]) \/ f.call = f.seq + NodeBase
    BY <2>11, <2>5, <2>9
  <2>12. ASSUME phase' # "idle"
        PROVE \A f \in InFlight(down'[dials]) :
                f.kind = "response" => f \in InFlight(down[dials]) \/ f.call = f.seq + NodeBase
    BY <2>12, <2>4, <2>9 DEF Frame
  <2>13. QED
    BY <2>6, <2>7, <2>8, <2>9, <2>10, <2>11, <2>12, NodeNumbersKept
<1>14. ASSUME NEW c \in ConnIds, Cut(c)
     PROVE NodeNumbers'
  <2>1. \A d \in ConnIds : InFlight(up'[d]) \subseteq InFlight(up[d])
    BY <1>14, ClearLoses DEF TypeOK, Cut
  <2>2. \A d \in ConnIds : InFlight(down'[d]) \subseteq InFlight(down[d])
    BY <1>14, ClearLoses DEF TypeOK, Cut
  <2>3. UNCHANGED <<nodeSeq, nodeCalls>>
    BY <1>14 DEF Cut, nodeVars, histVars
  <2>4. NodeBase' = NodeBase /\ nodeSeq' \in 1..(nodeCalls' + 1)
    BY <2>3 DEF NodeBase, NodeNumbers
  <2>5. \A p \in nodePending' : p \in nodePending
    BY <1>14 DEF Cut, nodeVars
  <2>6. dials' = dials /\ (phase' # "idle" => phase # "idle" /\ dials \in ConnIds)
    BY <1>14 DEF Cut, nodeVars, TypeOK
  <2>7. \A h \in handlers' : h \in handlers
    BY <1>14 DEF Cut, appRpcVars
  <2>8. ASSUME phase' # "idle"
        PROVE \A f \in InFlight(up'[dials]) :
                f.kind = "request" => f \in InFlight(up[dials]) \/ f.call = f.seq + NodeBase
    BY <2>8, <2>1, <2>6
  <2>9. ASSUME phase' # "idle"
        PROVE \A f \in InFlight(down'[dials]) :
                f.kind = "response" => f \in InFlight(down[dials]) \/ f.call = f.seq + NodeBase
    BY <2>9, <2>2, <2>6
  <2>10. QED
    BY <2>3, <2>4, <2>5, <2>6, <2>7, <2>8, <2>9, NodeNumbersKept
<1>15. ASSUME NEW c \in ConnIds, Drop(c)
     PROVE NodeNumbers'
  <2>1. \A d \in ConnIds : InFlight(up'[d]) \subseteq InFlight(up[d])
    BY <1>15, ClearLoses DEF TypeOK, Drop
  <2>2. \A d \in ConnIds : InFlight(down'[d]) \subseteq InFlight(down[d])
    BY <1>15, ClearLoses DEF TypeOK, Drop
  <2>3. UNCHANGED <<nodeSeq, nodeCalls>>
    BY <1>15 DEF Drop, nodeVars, histVars
  <2>4. NodeBase' = NodeBase /\ nodeSeq' \in 1..(nodeCalls' + 1)
    BY <2>3 DEF NodeBase, NodeNumbers
  <2>5. \A p \in nodePending' : p \in nodePending
    BY <1>15 DEF Drop, nodeVars
  <2>6. dials' = dials /\ (phase' # "idle" => phase # "idle" /\ dials \in ConnIds)
    BY <1>15 DEF Drop, nodeVars, TypeOK
  <2>7. \A h \in handlers' : h \in handlers
    BY <1>15 DEF Drop, appRpcVars
  <2>8. ASSUME phase' # "idle"
        PROVE \A f \in InFlight(up'[dials]) :
                f.kind = "request" => f \in InFlight(up[dials]) \/ f.call = f.seq + NodeBase
    BY <2>8, <2>1, <2>6
  <2>9. ASSUME phase' # "idle"
        PROVE \A f \in InFlight(down'[dials]) :
                f.kind = "response" => f \in InFlight(down[dials]) \/ f.call = f.seq + NodeBase
    BY <2>9, <2>2, <2>6
  <2>10. QED
    BY <2>3, <2>4, <2>5, <2>6, <2>7, <2>8, <2>9, NodeNumbersKept
<1>16. CASE SlowAck
  <2>1. up' = up
    BY <1>16 DEF SlowAck, wireVars
  <2>2. down' = down
    BY <1>16 DEF SlowAck, wireVars
  <2>3. UNCHANGED <<nodeSeq, nodeCalls>>
    BY <1>16 DEF SlowAck, nodeVars, histVars
  <2>4. NodeBase' = NodeBase /\ nodeSeq' \in 1..(nodeCalls' + 1)
    BY <2>3 DEF NodeBase, NodeNumbers
  <2>5. \A p \in nodePending' : p \in nodePending
    BY <1>16 DEF SlowAck, nodeVars
  <2>6. dials' = dials /\ (phase' # "idle" => phase # "idle" /\ dials \in ConnIds)
    BY <1>16 DEF SlowAck, nodeVars, TypeOK
  <2>7. \A h \in handlers' : h \in handlers
    BY <1>16 DEF SlowAck, appRpcVars
  <2>8. ASSUME phase' # "idle"
        PROVE \A f \in InFlight(up'[dials]) :
                f.kind = "request" => f \in InFlight(up[dials]) \/ f.call = f.seq + NodeBase
    BY <2>8, <2>1, <2>6
  <2>9. ASSUME phase' # "idle"
        PROVE \A f \in InFlight(down'[dials]) :
                f.kind = "response" => f \in InFlight(down[dials]) \/ f.call = f.seq + NodeBase
    BY <2>9, <2>2, <2>6
  <2>10. QED
    BY <2>3, <2>4, <2>5, <2>6, <2>7, <2>8, <2>9, NodeNumbersKept
<1>17. CASE NodeRestart
  <2>1. nodeSeq' = 1 /\ nodePending' = {} /\ phase' = "idle" /\ nodeCalls' = nodeCalls
    BY <1>17 DEF NodeRestart
  <2>2. nodeSeq' \in 1..(nodeCalls' + 1)
    BY <2>1 DEF TypeOK
  <2>3. QED
    BY <2>1, <2>2 DEF NodeNumbers
<1>18. CASE AppRestart
  <2>1. \A d \in ConnIds : InFlight(up'[d]) \subseteq InFlight(up[d])
    BY <1>18, ClearLoses DEF TypeOK, AppRestart
  <2>2. down' = down
    BY <1>18 DEF AppRestart, wireVars
  <2>3. UNCHANGED <<nodeSeq, nodeCalls>>
    BY <1>18 DEF AppRestart, nodeVars, histVars
  <2>4. NodeBase' = NodeBase /\ nodeSeq' \in 1..(nodeCalls' + 1)
    BY <2>3 DEF NodeBase, NodeNumbers
  <2>5. \A p \in nodePending' : p \in nodePending
    BY <1>18 DEF AppRestart, nodeVars
  <2>6. dials' = dials /\ (phase' # "idle" => phase # "idle" /\ dials \in ConnIds)
    BY <1>18 DEF AppRestart, nodeVars, TypeOK
  <2>7. handlers' = {}
    BY <1>18 DEF AppRestart
  <2>8. ASSUME phase' # "idle"
        PROVE \A f \in InFlight(up'[dials]) :
                f.kind = "request" => f \in InFlight(up[dials]) \/ f.call = f.seq + NodeBase
    BY <2>8, <2>1, <2>6
  <2>9. ASSUME phase' # "idle"
        PROVE \A f \in InFlight(down'[dials]) :
                f.kind = "response" => f \in InFlight(down[dials]) \/ f.call = f.seq + NodeBase
    BY <2>9, <2>2, <2>6
  <2>10. QED
    BY <2>3, <2>4, <2>5, <2>6, <2>7, <2>8, <2>9, NodeNumbersKept
<1>19. CASE UNCHANGED <<nodeSeq, nodeCalls, nodePending, phase, up, down, dials, handlers>>
  BY <1>19 DEF NodeNumbers, NodeBase
<1>20. QED
  BY <1>1, <1>2, <1>3, <1>4, <1>5, <1>6, <1>7, <1>8, <1>9, <1>10, <1>11, <1>12, <1>13, <1>14,
     <1>15, <1>16, <1>17, <1>18, <1>19 DEF Next, NodeStep, AppStep, ConnStep, FaultStep, AppTimeout,
     OnWsClose, Disconnect, AppCallTimeout,
     vars, nodeVars, wireVars, routeVars, appRpcVars, histVars

\* Without a restart of the app, its numbers are never used twice.
LEMMA AppNumbersStep ==
  ASSUME TypeOK, AppNumbers, "appRestart" \notin Faults
  PROVE [Next]_vars => AppNumbers'
<1> SUFFICES ASSUME [Next]_vars PROVE AppNumbers'
  OBVIOUS
<1>1. CASE SendHello
  <2>1. /\ dials \in ConnIds /\ Frame("hello", 0, 0) \in Frames
    BY <1>1, FrameType DEF TypeOK, SendHello
  <2>2. up' = Write(up, dials, Frame("hello", 0, 0))
    BY <1>1 DEF SendHello, Ws
  <2>3. \A d \in ConnIds : \A g \in InFlight(up'[d]) :
           g \in InFlight(up[d]) \/ (d = dials /\ g = Frame("hello", 0, 0))
    <3>1. up \in [ConnIds -> Seq(Frames)]
      BY DEF TypeOK
    <3> DEFINE sent == Frame("hello", 0, 0)
               onto == dials
    <3>2. sent \in Frames /\ onto \in ConnIds /\ up' = Write(up, onto, sent)
      BY <2>1, <2>2
    <3> HIDE DEF sent, onto
    <3>3. \A d \in ConnIds : \A g \in InFlight(up'[d]) :
             g \in InFlight(up[d]) \/ (d = onto /\ g = sent)
      BY <3>1, <3>2, WriteOnly
    <3>4. QED
      BY <3>3 DEF sent, onto
  <2>4. down' = down
    BY <1>1 DEF SendHello, wireVars
  <2>5. appSeq' = appCalls' + 1
    BY <1>1 DEF AppNumbers, SendHello, appRpcVars, histVars
  <2>6. \A p \in appPending' : p \in appPending
    BY <1>1 DEF SendHello, appRpcVars
  <2>7. \A t1 \in tasks' : t1 \in tasks
    BY <1>1 DEF SendHello, nodeVars
  <2>8. ASSUME NEW c1 \in ConnIds, NEW f \in InFlight(up'[c1]), f.kind = "response"
        PROVE  f \in InFlight(up[c1]) \/ f.seq = f.call
    BY <2>8, <2>3 DEF Frame
  <2>9. ASSUME NEW c1 \in ConnIds, NEW f \in InFlight(down'[c1]), f.kind = "request"
        PROVE  f \in InFlight(down[c1]) \/ f.seq = f.call
    BY <2>9, <2>4
  <2>10. QED
    BY <2>5, <2>6, <2>7, <2>8, <2>9, AppNumbersKept
<1>2. CASE RecvHelloAck
  <2>1. up' = up
    BY <1>2 DEF RecvHelloAck, wireVars
  <2>2. \A d \in ConnIds : InFlight(down'[d]) \subseteq InFlight(down[d])
    BY <1>2, ReadTakes DEF TypeOK, RecvHelloAck, Readable
  <2>3. appSeq' = appCalls' + 1
    BY <1>2 DEF AppNumbers, RecvHelloAck, appRpcVars, histVars
  <2>4. \A p \in appPending' : p \in appPending
    BY <1>2 DEF RecvHelloAck, appRpcVars
  <2>5. \A t1 \in tasks' : t1 \in tasks
    BY <1>2 DEF RecvHelloAck, nodeVars
  <2>6. ASSUME NEW c1 \in ConnIds, NEW f \in InFlight(up'[c1]), f.kind = "response"
        PROVE  f \in InFlight(up[c1]) \/ f.seq = f.call
    BY <2>6, <2>1
  <2>7. ASSUME NEW c1 \in ConnIds, NEW f \in InFlight(down'[c1]), f.kind = "request"
        PROVE  f \in InFlight(down[c1]) \/ f.seq = f.call
    BY <2>7, <2>2
  <2>8. QED
    BY <2>3, <2>4, <2>5, <2>6, <2>7, AppNumbersKept
<1>3. CASE Dispatch
  <2>1. up' = up
    BY <1>3 DEF Dispatch, wireVars
  <2>2. \A d \in ConnIds : InFlight(down'[d]) \subseteq InFlight(down[d])
    BY <1>3, ReadTakes DEF TypeOK, Dispatch, Readable
  <2>3. appSeq' = appCalls' + 1
    BY <1>3 DEF AppNumbers, Dispatch, appRpcVars, histVars
  <2>4. \A p \in appPending' : p \in appPending
    BY <1>3 DEF Dispatch, appRpcVars
  <2>5. phase # "idle" /\ dials \in ConnIds /\ Received \in InFlight(down[dials])
    BY <1>3, ReadTakes DEF TypeOK, Dispatch, Readable, Received
  <2>6. Received.kind = "request" => Received.seq = Received.call
    BY <2>5 DEF AppNumbers
  <2>7. \A t \in tasks' : t \in tasks \/ t.seq = t.call
    BY <2>6, <1>3 DEF Dispatch
  <2>8. ASSUME NEW c1 \in ConnIds, NEW f \in InFlight(up'[c1]), f.kind = "response"
        PROVE  f \in InFlight(up[c1]) \/ f.seq = f.call
    BY <2>8, <2>1
  <2>9. ASSUME NEW c1 \in ConnIds, NEW f \in InFlight(down'[c1]), f.kind = "request"
        PROVE  f \in InFlight(down[c1]) \/ f.seq = f.call
    BY <2>9, <2>2
  <2>10. QED
    BY <2>3, <2>4, <2>7, <2>8, <2>9, AppNumbersKept
<1>4. CASE NodeCall
  <2>1. /\ dials \in ConnIds /\ Frame("request", nodeSeq, nodeCalls') \in Frames
    BY <1>4, FrameType DEF TypeOK, NodeCall, Ws
  <2>2. up' = Write(up, dials, Frame("request", nodeSeq, nodeCalls'))
    BY <1>4 DEF NodeCall, Ws
  <2>3. \A d \in ConnIds : \A g \in InFlight(up'[d]) :
           g \in InFlight(up[d]) \/ (d = dials /\ g = Frame("request", nodeSeq, nodeCalls'))
    <3>1. up \in [ConnIds -> Seq(Frames)]
      BY DEF TypeOK
    <3> DEFINE sent == Frame("request", nodeSeq, nodeCalls')
               onto == dials
    <3>2. sent \in Frames /\ onto \in ConnIds /\ up' = Write(up, onto, sent)
      BY <2>1, <2>2
    <3> HIDE DEF sent, onto
    <3>3. \A d \in ConnIds : \A g \in InFlight(up'[d]) :
             g \in InFlight(up[d]) \/ (d = onto /\ g = sent)
      BY <3>1, <3>2, WriteOnly
    <3>4. QED
      BY <3>3 DEF sent, onto
  <2>4. down' = down
    BY <1>4 DEF NodeCall, wireVars
  <2>5. appSeq' = appCalls' + 1
    BY <1>4 DEF AppNumbers, NodeCall, appRpcVars, histVars
  <2>6. \A p \in appPending' : p \in appPending
    BY <1>4 DEF NodeCall, appRpcVars
  <2>7. \A t1 \in tasks' : t1 \in tasks
    BY <1>4 DEF NodeCall, nodeVars
  <2>8. ASSUME NEW c1 \in ConnIds, NEW f \in InFlight(up'[c1]), f.kind = "response"
        PROVE  f \in InFlight(up[c1]) \/ f.seq = f.call
    BY <2>8, <2>3 DEF Frame
  <2>9. ASSUME NEW c1 \in ConnIds, NEW f \in InFlight(down'[c1]), f.kind = "request"
        PROVE  f \in InFlight(down[c1]) \/ f.seq = f.call
    BY <2>9, <2>4
  <2>10. QED
    BY <2>5, <2>6, <2>7, <2>8, <2>9, AppNumbersKept
<1>5. ASSUME NEW t \in tasks, TaskAnswers(t)
     PROVE AppNumbers'
  <2>1. t.seq \in Nat /\ t.call \in Nat
    BY DEF TypeOK, Pending
  <2>2. Frame("response", t.seq, t.call) \in Frames
    BY <2>1, FrameType
  <2>3. \A d \in ConnIds : \A f \in InFlight(up'[d]) :
           f \in InFlight(up[d]) \/ (f = Frame("response", t.seq, t.call) /\ phase # "idle" /\ d = dials)
    <3>1. CASE Ws = None
      <4>1. up' = up
        BY <3>1, <1>5 DEF TaskAnswers
      <4>2. QED
        BY <4>1
    <3>2. CASE Ws # None
      <4>1. phase # "idle" /\ dials \in ConnIds
        BY <3>2 DEF TypeOK, Ws
      <4>2. up' = Write(up, dials, Frame("response", t.seq, t.call))
        BY <3>2, <1>5 DEF TaskAnswers
      <4>3. up \in [ConnIds -> Seq(Frames)]
        BY DEF TypeOK
      <4>4. \A d \in ConnIds : \A f \in InFlight(up'[d]) :
               f \in InFlight(up[d]) \/ (d = dials /\ f = Frame("response", t.seq, t.call))
        <5> DEFINE sent == Frame("response", t.seq, t.call)
        <5>1. sent \in Frames /\ up' = Write(up, dials, sent)
          BY <2>2, <4>2
        <5> HIDE DEF sent
        <5>2. \A d \in ConnIds : \A f \in InFlight(up'[d]) :
                 f \in InFlight(up[d]) \/ (d = dials /\ f = sent)
          BY <5>1, <4>1, <4>3, WriteOnly
        <5>3. QED
          BY <5>2 DEF sent
      <4>5. QED
        BY <4>1, <4>4
    <3>3. QED
      BY <3>1, <3>2
  <2>4. down' = down
    BY <1>5 DEF TaskAnswers
  <2>5. appSeq' = appCalls' + 1
    BY <1>5 DEF AppNumbers, TaskAnswers, appRpcVars, histVars
  <2>6. \A p \in appPending' : p \in appPending
    BY <1>5 DEF TaskAnswers, appRpcVars
  <2>7. \A t1 \in tasks' : t1 \in tasks
    BY <1>5 DEF TaskAnswers, nodeVars
  <2>8. t.seq = t.call
    BY DEF AppNumbers
  <2>9. ASSUME NEW c1 \in ConnIds, NEW f \in InFlight(up'[c1]), f.kind = "response"
        PROVE  f \in InFlight(up[c1]) \/ f.seq = f.call
    BY <2>9, <2>3, <2>8 DEF Frame
  <2>10. ASSUME NEW c1 \in ConnIds, NEW f \in InFlight(down'[c1]), f.kind = "request"
        PROVE  f \in InFlight(down[c1]) \/ f.seq = f.call
    BY <2>10, <2>4
  <2>11. QED
    BY <2>5, <2>6, <2>7, <2>9, <2>10, AppNumbersKept
<1>6. ASSUME NEW c \in ConnIds, NEW now \in BOOLEAN, AppHello(c, now)
     PROVE AppNumbers'
  <2>1. \A d \in ConnIds : InFlight(up'[d]) \subseteq InFlight(up[d])
    BY <1>6, ReadTakes DEF TypeOK, AppHello, Arrives
  <2>2. /\ c \in ConnIds /\ Frame("helloAck", 0, 0) \in Frames
    BY FrameType
  <2>3. down' = Write(down, c, Frame("helloAck", 0, 0))
    BY <1>6 DEF AppHello, Ws
  <2>4. \A d \in ConnIds : \A g \in InFlight(down'[d]) :
           g \in InFlight(down[d]) \/ (d = c /\ g = Frame("helloAck", 0, 0))
    <3>1. down \in [ConnIds -> Seq(Frames)]
      BY DEF TypeOK
    <3> DEFINE sent == Frame("helloAck", 0, 0)
               onto == c
    <3>2. sent \in Frames /\ onto \in ConnIds /\ down' = Write(down, onto, sent)
      BY <2>2, <2>3
    <3> HIDE DEF sent, onto
    <3>3. \A d \in ConnIds : \A g \in InFlight(down'[d]) :
             g \in InFlight(down[d]) \/ (d = onto /\ g = sent)
      BY <3>1, <3>2, WriteOnly
    <3>4. QED
      BY <3>3 DEF sent, onto
  <2>5. appSeq' = appCalls' + 1
    BY <1>6 DEF AppNumbers, AppHello, appRpcVars, histVars
  <2>6. \A p \in appPending' : p \in appPending
    BY <1>6 DEF AppHello, appRpcVars
  <2>7. \A t1 \in tasks' : t1 \in tasks
    BY <1>6 DEF AppHello, nodeVars
  <2>8. ASSUME NEW c1 \in ConnIds, NEW f \in InFlight(up'[c1]), f.kind = "response"
        PROVE  f \in InFlight(up[c1]) \/ f.seq = f.call
    BY <2>8, <2>1
  <2>9. ASSUME NEW c1 \in ConnIds, NEW f \in InFlight(down'[c1]), f.kind = "request"
        PROVE  f \in InFlight(down[c1]) \/ f.seq = f.call
    BY <2>9, <2>4 DEF Frame
  <2>10. QED
    BY <2>5, <2>6, <2>7, <2>8, <2>9, AppNumbersKept
<1>7. ASSUME NEW c \in ConnIds, AppRequest(c)
     PROVE AppNumbers'
  <2>1. \A d \in ConnIds : InFlight(up'[d]) \subseteq InFlight(up[d])
    BY <1>7, ReadTakes DEF TypeOK, AppRequest, Arrives
  <2>2. down' = down
    BY <1>7 DEF AppRequest, wireVars
  <2>3. appSeq' = appCalls' + 1
    BY <1>7 DEF AppNumbers, AppRequest, appRpcVars, histVars
  <2>4. \A p \in appPending' : p \in appPending
    BY <1>7 DEF AppRequest, appRpcVars
  <2>5. \A t1 \in tasks' : t1 \in tasks
    BY <1>7 DEF AppRequest, nodeVars
  <2>6. ASSUME NEW c1 \in ConnIds, NEW f \in InFlight(up'[c1]), f.kind = "response"
        PROVE  f \in InFlight(up[c1]) \/ f.seq = f.call
    BY <2>6, <2>1
  <2>7. ASSUME NEW c1 \in ConnIds, NEW f \in InFlight(down'[c1]), f.kind = "request"
        PROVE  f \in InFlight(down[c1]) \/ f.seq = f.call
    BY <2>7, <2>2
  <2>8. QED
    BY <2>3, <2>4, <2>5, <2>6, <2>7, AppNumbersKept
<1>8. ASSUME NEW c \in ConnIds, AppResponse(c)
     PROVE AppNumbers'
  <2>1. \A d \in ConnIds : InFlight(up'[d]) \subseteq InFlight(up[d])
    BY <1>8, ReadTakes DEF TypeOK, AppResponse, Arrives
  <2>2. down' = down
    BY <1>8 DEF AppResponse, wireVars
  <2>3. appSeq' = appCalls' + 1
    BY <1>8 DEF AppNumbers, AppResponse, appRpcVars, histVars
  <2>4. \A p \in appPending' : p \in appPending
    BY <1>8 DEF AppResponse, appRpcVars
  <2>5. \A t1 \in tasks' : t1 \in tasks
    BY <1>8 DEF AppResponse, nodeVars
  <2>6. ASSUME NEW c1 \in ConnIds, NEW f \in InFlight(up'[c1]), f.kind = "response"
        PROVE  f \in InFlight(up[c1]) \/ f.seq = f.call
    BY <2>6, <2>1
  <2>7. ASSUME NEW c1 \in ConnIds, NEW f \in InFlight(down'[c1]), f.kind = "request"
        PROVE  f \in InFlight(down[c1]) \/ f.seq = f.call
    BY <2>7, <2>2
  <2>8. QED
    BY <2>3, <2>4, <2>5, <2>6, <2>7, AppNumbersKept
<1>9. ASSUME NEW c \in ConnIds, OnWsClose(c)
     PROVE AppNumbers'
  BY <1>9 DEF AppNumbers, OnWsClose, nodeVars, wireVars, histVars
<1>10. ASSUME NEW h \in handlers, AppAnswers(h)
     PROVE AppNumbers'
  <2>1. h.conn \in ConnIds /\ h.seq \in Nat /\ h.call \in Nat
    BY DEF TypeOK, ConnPending
  <2>2. /\ h.conn \in ConnIds /\ Frame("response", h.seq, h.call) \in Frames
    BY <2>1, FrameType
  <2>3. down' = Write(down, h.conn, Frame("response", h.seq, h.call))
    BY <1>10 DEF AppAnswers, Ws
  <2>4. \A d \in ConnIds : \A g \in InFlight(down'[d]) :
           g \in InFlight(down[d]) \/ (d = h.conn /\ g = Frame("response", h.seq, h.call))
    <3>1. down \in [ConnIds -> Seq(Frames)]
      BY DEF TypeOK
    <3> DEFINE sent == Frame("response", h.seq, h.call)
               onto == h.conn
    <3>2. sent \in Frames /\ onto \in ConnIds /\ down' = Write(down, onto, sent)
      BY <2>2, <2>3
    <3> HIDE DEF sent, onto
    <3>3. \A d \in ConnIds : \A g \in InFlight(down'[d]) :
             g \in InFlight(down[d]) \/ (d = onto /\ g = sent)
      BY <3>1, <3>2, WriteOnly
    <3>4. QED
      BY <3>3 DEF sent, onto
  <2>5. up' = up
    BY <1>10 DEF AppAnswers, wireVars
  <2>6. appSeq' = appCalls' + 1
    BY <1>10 DEF AppNumbers, AppAnswers, appRpcVars, histVars
  <2>7. \A p \in appPending' : p \in appPending
    BY <1>10 DEF AppAnswers, appRpcVars
  <2>8. \A t1 \in tasks' : t1 \in tasks
    BY <1>10 DEF AppAnswers, nodeVars
  <2>9. ASSUME NEW c1 \in ConnIds, NEW f \in InFlight(up'[c1]), f.kind = "response"
        PROVE  f \in InFlight(up[c1]) \/ f.seq = f.call
    BY <2>9, <2>5
  <2>10. ASSUME NEW c1 \in ConnIds, NEW f \in InFlight(down'[c1]), f.kind = "request"
        PROVE  f \in InFlight(down[c1]) \/ f.seq = f.call
    BY <2>10, <2>4 DEF Frame
  <2>11. QED
    BY <2>6, <2>7, <2>8, <2>9, <2>10, AppNumbersKept
<1>11. CASE AppCall
  <2>1. byNode \in ConnIds /\ appCalls' \in Nat /\ FreshSeq \in Nat
    BY <1>11 DEF TypeOK, AppCall, FreshSeq
  <2>2. /\ byNode \in ConnIds /\ Frame("request", FreshSeq, appCalls') \in Frames
    BY <2>1, FrameType
  <2>3. down' = Write(down, byNode, Frame("request", FreshSeq, appCalls'))
    BY <1>11 DEF AppCall, Ws
  <2>4. \A d \in ConnIds : \A g \in InFlight(down'[d]) :
           g \in InFlight(down[d]) \/ (d = byNode /\ g = Frame("request", FreshSeq, appCalls'))
    <3>1. down \in [ConnIds -> Seq(Frames)]
      BY DEF TypeOK
    <3> DEFINE sent == Frame("request", FreshSeq, appCalls')
               onto == byNode
    <3>2. sent \in Frames /\ onto \in ConnIds /\ down' = Write(down, onto, sent)
      BY <2>2, <2>3
    <3> HIDE DEF sent, onto
    <3>3. \A d \in ConnIds : \A g \in InFlight(down'[d]) :
             g \in InFlight(down[d]) \/ (d = onto /\ g = sent)
      BY <3>1, <3>2, WriteOnly
    <3>4. QED
      BY <3>3 DEF sent, onto
  <2>5. up' = up
    BY <1>11 DEF AppCall, wireVars
  <2>6. appSeq' = appSeq + 1 /\ appCalls' = appCalls + 1 /\ FreshSeq = appCalls'
    BY <1>11 DEF AppNumbers, AppCall, FreshSeq
  <2>7. appSeq' = appCalls' + 1
    BY <2>6 DEF AppNumbers
  <2>8. \A p \in appPending' : p \in appPending \/ p.seq = p.call
    BY <2>6, <1>11 DEF AppCall
  <2>9. \A t1 \in tasks' : t1 \in tasks
    BY <1>11 DEF AppCall, nodeVars
  <2>10. ASSUME NEW c1 \in ConnIds, NEW f \in InFlight(up'[c1]), f.kind = "response"
        PROVE  f \in InFlight(up[c1]) \/ f.seq = f.call
    BY <2>10, <2>5
  <2>11. ASSUME NEW c1 \in ConnIds, NEW f \in InFlight(down'[c1]), f.kind = "request"
        PROVE  f \in InFlight(down[c1]) \/ f.seq = f.call
    BY <2>11, <2>4, <2>6 DEF Frame
  <2>12. QED
    BY <2>7, <2>8, <2>9, <2>10, <2>11, AppNumbersKept
<1>12. ASSUME NEW p \in appPending, AppCallTimeout(p)
     PROVE AppNumbers'
  BY <1>12 DEF AppNumbers, AppCallTimeout, nodeVars, wireVars, histVars
<1>13. ASSUME NEW c \in ConnIds, Cut(c)
     PROVE AppNumbers'
  <2>1. \A d \in ConnIds : InFlight(up'[d]) \subseteq InFlight(up[d])
    BY <1>13, ClearLoses DEF TypeOK, Cut
  <2>2. \A d \in ConnIds : InFlight(down'[d]) \subseteq InFlight(down[d])
    BY <1>13, ClearLoses DEF TypeOK, Cut
  <2>3. appSeq' = appCalls' + 1
    BY <1>13 DEF AppNumbers, Cut, appRpcVars, histVars
  <2>4. \A p \in appPending' : p \in appPending
    BY <1>13 DEF Cut, appRpcVars
  <2>5. \A t1 \in tasks' : t1 \in tasks
    BY <1>13 DEF Cut, nodeVars
  <2>6. ASSUME NEW c1 \in ConnIds, NEW f \in InFlight(up'[c1]), f.kind = "response"
        PROVE  f \in InFlight(up[c1]) \/ f.seq = f.call
    BY <2>6, <2>1
  <2>7. ASSUME NEW c1 \in ConnIds, NEW f \in InFlight(down'[c1]), f.kind = "request"
        PROVE  f \in InFlight(down[c1]) \/ f.seq = f.call
    BY <2>7, <2>2
  <2>8. QED
    BY <2>3, <2>4, <2>5, <2>6, <2>7, AppNumbersKept
<1>14. ASSUME NEW c \in ConnIds, Drop(c)
     PROVE AppNumbers'
  <2>1. \A d \in ConnIds : InFlight(up'[d]) \subseteq InFlight(up[d])
    BY <1>14, ClearLoses DEF TypeOK, Drop
  <2>2. \A d \in ConnIds : InFlight(down'[d]) \subseteq InFlight(down[d])
    BY <1>14, ClearLoses DEF TypeOK, Drop
  <2>3. appSeq' = appCalls' + 1
    BY <1>14 DEF AppNumbers, Drop, appRpcVars, histVars
  <2>4. \A p \in appPending' : p \in appPending
    BY <1>14 DEF Drop, appRpcVars
  <2>5. \A t1 \in tasks' : t1 \in tasks
    BY <1>14 DEF Drop, nodeVars
  <2>6. ASSUME NEW c1 \in ConnIds, NEW f \in InFlight(up'[c1]), f.kind = "response"
        PROVE  f \in InFlight(up[c1]) \/ f.seq = f.call
    BY <2>6, <2>1
  <2>7. ASSUME NEW c1 \in ConnIds, NEW f \in InFlight(down'[c1]), f.kind = "request"
        PROVE  f \in InFlight(down[c1]) \/ f.seq = f.call
    BY <2>7, <2>2
  <2>8. QED
    BY <2>3, <2>4, <2>5, <2>6, <2>7, AppNumbersKept
<1>15. CASE NodeRestart
  BY <1>15 DEF AppNumbers, NodeRestart, appRpcVars
<1>16. CASE AppRestart
  BY <1>16 DEF AppRestart, Fault
<1>17. CASE UNCHANGED <<appSeq, appCalls, appPending, tasks, up, down>>
  BY <1>17 DEF AppNumbers
<1>18. QED
  BY <1>1, <1>2, <1>3, <1>4, <1>5, <1>6, <1>7, <1>8, <1>9, <1>10, <1>11, <1>12, <1>13, <1>14,
     <1>15, <1>16, <1>17 DEF Next, NodeStep, AppStep, ConnStep, FaultStep, Dial, ReadFails,
     NodeCallTimeout, AppTimeout, Disconnect, SlowAck,
     vars, nodeVars, wireVars, routeVars, appRpcVars, histVars

\* The node never takes an answer for another call's.
LEMMA NodeMatchStep ==
  ASSUME TypeOK, NodeNumbers, NodeAnswersMatch
  PROVE [Next]_vars => NodeAnswersMatch'
<1> SUFFICES ASSUME [Next]_vars PROVE NodeAnswersMatch'
  OBVIOUS
<1>1. CASE Dispatch
  <2>1. phase # "idle" /\ Received \in InFlight(down[dials])
    BY <1>1, ReadTakes DEF TypeOK, Dispatch, Readable, Received
  <2>2. ASSUME NEW p \in nodePending, Received.kind = "response", p.seq = Received.seq
        PROVE  p.call = Received.call
    BY <2>1, <2>2 DEF NodeNumbers
  <2>3. mixed' = mixed
    BY <2>2, <1>1 DEF Dispatch
  <2>4. QED
    BY <2>3 DEF NodeAnswersMatch
<1>2. ASSUME NEW c \in ConnIds, AppResponse(c)
     PROVE NodeAnswersMatch'
  BY <1>2 DEF NodeAnswersMatch, AppResponse
<1>3. CASE UNCHANGED <<mixed>>
  BY <1>3 DEF NodeAnswersMatch
<1>4. QED
  BY <1>1, <1>2, <1>3 DEF Next, NodeStep, AppStep, ConnStep, FaultStep, Dial, SendHello,
     RecvHelloAck, ReadFails, NodeCall, NodeCallTimeout, TaskAnswers, AppHello, AppRequest,
     AppTimeout, OnWsClose, Disconnect, AppAnswers, AppCall, AppCallTimeout, Cut, Drop, SlowAck,
     NodeRestart, AppRestart,
     vars, nodeVars, wireVars, routeVars, appRpcVars, histVars

\* The app never takes an answer for another call's.
LEMMA AppMatchStep ==
  ASSUME TypeOK, AppNumbers, AppAnswersMatch
  PROVE [Next]_vars => AppAnswersMatch'
<1> SUFFICES ASSUME [Next]_vars PROVE AppAnswersMatch'
  OBVIOUS
<1>1. CASE Dispatch
  BY <1>1 DEF AppAnswersMatch, Dispatch
<1>2. ASSUME NEW c \in ConnIds, AppResponse(c)
     PROVE AppAnswersMatch'
  <2>1. Head(up[c]) \in InFlight(up[c]) /\ Head(up[c]).kind = "response"
    BY <1>2, ReadTakes DEF TypeOK, AppResponse, Arrives
  <2>2. ASSUME NEW p \in appPending, p.seq = Head(up[c]).seq
        PROVE  p.call = Head(up[c]).call
    BY <2>1, <2>2 DEF AppNumbers
  <2>3. mixed' = mixed
    BY <2>2, <1>2 DEF AppResponse
  <2>4. QED
    BY <2>3 DEF AppAnswersMatch
<1>3. CASE UNCHANGED <<mixed>>
  BY <1>3 DEF AppAnswersMatch
<1>4. QED
  BY <1>1, <1>2, <1>3 DEF Next, NodeStep, AppStep, ConnStep, FaultStep, Dial, SendHello,
     RecvHelloAck, ReadFails, NodeCall, NodeCallTimeout, TaskAnswers, AppHello, AppRequest,
     AppTimeout, OnWsClose, Disconnect, AppAnswers, AppCall, AppCallTimeout, Cut, Drop, SlowAck,
     NodeRestart, AppRestart,
     vars, nodeVars, wireVars, routeVars, appRpcVars, histVars

-----------------------------------------------------------------------------
(* Theorems.                                                                *)

IInv ==
  /\ TypeOK /\ Undialed /\ UndialedEmpty
  /\ RoutesKnown /\ RegistryFollowsRoute /\ OneRoute /\ PendingOnOpen
  /\ NodeNumbers /\ NodeAnswersMatch

\* Everything but the app's numbering holds initially.
LEMMA InitInv == Init => IInv
<1> SUFFICES ASSUME Init PROVE IInv
  OBVIOUS
<1>1. TypeOK
  <2>1. up \in [ConnIds -> Seq(Frames)] /\ down \in [ConnIds -> Seq(Frames)]
    BY InFlightEmpty DEF Init
  <2>2. sock \in [ConnIds -> {"unused", "open", "cut", "shut"}]
    BY DEF Init
  <2>3. dials \in 0..MaxConns
    BY ControlAssumption DEF Init
  <2>4. QED
    BY <2>1, <2>2, <2>3 DEF Init, TypeOK
<1>2. Undialed /\ RoutesKnown /\ RegistryFollowsRoute /\ OneRoute /\ PendingOnOpen
  BY DEF Init, Undialed, RoutesKnown, RegistryFollowsRoute, OneRoute, PendingOnOpen
<1>3. UndialedEmpty
  BY InFlightEmpty DEF Init, UndialedEmpty
<1>4. NodeNumbers /\ NodeAnswersMatch
  BY DEF Init, NodeNumbers, NodeAnswersMatch
<1>5. QED
  BY <1>1, <1>2, <1>3, <1>4 DEF IInv

\* The conjunction is inductive: routing rests on the order of dials, the
\* node's answers on its numbering.
THEOREM Invariance == Spec => []IInv
<1>1. IInv /\ [Next]_vars => IInv'
  <2> SUFFICES ASSUME IInv, [Next]_vars PROVE IInv'
    OBVIOUS
  <2>1. /\ TypeOK /\ Undialed /\ UndialedEmpty
        /\ RoutesKnown /\ RegistryFollowsRoute /\ OneRoute /\ PendingOnOpen
        /\ NodeNumbers /\ NodeAnswersMatch
    BY DEF IInv
  <2>2. TypeOK' /\ Undialed' /\ UndialedEmpty'
    BY <2>1, TypeStep, UndialedStep, UndialedEmptyStep
  <2>3. RoutesKnown' /\ RegistryFollowsRoute' /\ OneRoute' /\ PendingOnOpen'
    BY <2>1, RoutesKnownStep, RegistryStep, OneRouteStep, PendingStep
  <2>4. NodeNumbers' /\ NodeAnswersMatch'
    BY <2>1, NodeNumbersStep, NodeMatchStep
  <2>5. QED
    BY <2>2, <2>3, <2>4 DEF IInv
<1>2. QED
  BY <1>1, InitInv, PTL DEF Spec

\* Every variable keeps its type, for any number of connections and calls.
THEOREM TypeCorrect == Spec => []TypeOK
<1>1. IInv => TypeOK
  BY DEF IInv
<1>2. QED
  BY <1>1, Invariance, PTL

\* The registry and the routing table of media-node-ws.ts agree on the open
\* connection of the node, except while a closed one awaits its cleanup.
THEOREM RegistryInStep == Spec => []RegistryFollowsRoute
<1>1. IInv => RegistryFollowsRoute
  BY DEF IInv
<1>2. QED
  BY <1>1, Invariance, PTL

\* However the node reconnects, at most one connection that said Hello is
\* not on its way out, and it is the one frames are routed to.
THEOREM SingleRoute == Spec => []OneRoute
<1>1. IInv => OneRoute
  BY DEF IInv
<1>2. QED
  BY <1>1, Invariance, PTL

\* Registry, route and open connections name the one connection that counts
\* (media-node-ws.ts), whatever closes late.
THEOREM RoutesAgree == Spec => []RoutesInStep
<1>1. RegistryFollowsRoute /\ OneRoute => RoutesInStep
  BY DEF RoutesInStep
<1>2. QED
  BY <1>1, RegistryInStep, SingleRoute, PTL

\* No close event leaves a call of the app behind on the connection.
THEOREM NoStrandedCalls == Spec => []PendingOnOpen
<1>1. IInv => PendingOnOpen
  BY DEF IInv
<1>2. QED
  BY <1>1, Invariance, PTL

\* The node's calls are resolved by their own answers, across any number of
\* reconnects and restarts of either process.
THEOREM NodeAnswers == Spec => []NodeAnswersMatch
<1>1. IInv => NodeAnswersMatch
  BY DEF IInv
<1>2. QED
  BY <1>1, Invariance, PTL

\* The app's calls are resolved by their own answers for as long as its
\* process lives: numbers restart with it, and an answer to its predecessor
\* may resolve one of its calls.
THEOREM AppAnswersOwn ==
  ASSUME "appRestart" \notin Faults
  PROVE  Spec => []AppAnswersMatch
<1> DEFINE Inv == TypeOK /\ RegistryFollowsRoute /\ AppNumbers /\ AppAnswersMatch
<1>1. Init => Inv
  <2> SUFFICES ASSUME Init PROVE Inv
    OBVIOUS
  <2>1. TypeOK /\ RegistryFollowsRoute
    BY InitInv DEF IInv
  <2>2. AppNumbers /\ AppAnswersMatch
    BY InFlightEmpty DEF Init, AppNumbers, AppAnswersMatch
  <2>3. QED
    BY <2>1, <2>2
<1>2. IInv /\ IInv' /\ Inv /\ [Next]_vars => Inv'
  <2> SUFFICES ASSUME IInv', Inv, [Next]_vars PROVE Inv'
    OBVIOUS
  <2>1. AppNumbers' /\ AppAnswersMatch'
    BY AppNumbersStep, AppMatchStep
  <2>2. QED
    BY <2>1 DEF IInv
<1>3. QED
  BY <1>1, <1>2, Invariance, PTL DEF Spec

\* Both sides together: every answer resolves its own call, through reconnects
\* and restarts of the node, while one process of the app lives.
THEOREM AnswersOwn ==
  ASSUME "appRestart" \notin Faults
  PROVE  Spec => []AnswersMatch
<1>1. NodeAnswersMatch /\ AppAnswersMatch => AnswersMatch
  BY DEF AnswersMatch
<1>2. Spec => []NodeAnswersMatch
  BY NodeAnswers
<1>3. Spec => []AppAnswersMatch
  BY AppAnswersOwn
<1>4. QED
  BY <1>1, <1>2, <1>3, PTL
=============================================================================
