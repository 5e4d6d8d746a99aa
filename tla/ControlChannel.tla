--------------------------- MODULE ControlChannel ---------------------------
(***************************************************************************)
(* The control WebSocket between one media node and the app: the node's    *)
(* connection loop and RPC client (node/node/wsclient.go), the app's        *)
(* connection table, routing and RPC client (media-node-ws.ts) and the node *)
(* registry (media-node-registry.ts).                                       *)
(*                                                                          *)
(* Connections are numbered in the order they are dialed.  A frame is its   *)
(* kind and its sequence number; `call' is a ghost: the call the frame was  *)
(* written for, which the code does not transmit.  Reports and pushes are   *)
(* frames nobody answers and are left to PublishSession; heartbeats appear  *)
(* as what they achieve: the read deadlines of both sides run out only on a *)
(* connection whose peer is gone.                                           *)
(***************************************************************************)
EXTENDS Naturals, Sequences, FiniteSets

CONSTANTS
  MaxConns,     \* bound: connections the node dials
  MaxNodeCalls, \* bound: RPCs of the node (publish:start, auth:policy, ...)
  MaxAppCalls,  \* bound: RPCs of the app (whep_relay, recording_pull)
  MaxFaults,    \* bound: faults
  Faults,       \* which ones: "cut", "drop", "slowAck", "nodeRestart",
                \* "appRestart"
  None

ConnIds == 1..MaxConns

ASSUME ControlAssumption ==
  /\ MaxConns \in Nat /\ MaxNodeCalls \in Nat
  /\ MaxAppCalls \in Nat /\ MaxFaults \in Nat
  /\ None \notin ConnIds

VARIABLES
  \* media node
  dials,        \* connections dialed; the loop works on the last one
  phase,        \* connectOnce: idle, dialed, waiting (for hello_ack), serving
  nodeSeq,      \* WsClient.nextSeq
  nodePending,  \* WsClient.pending
  tasks,        \* goroutines that compute an answer for the app
  \* connections
  sock,         \* unused, open, cut (dead, nobody has noticed), shut
  up,           \* frames from node to app
  down,         \* frames from app to node
  \* app
  conns,        \* conns: connections whose close event has not run
  closing,      \* those of them whose close event is due
  authed,       \* connections with a nodeId
  byNode,       \* byNode: the connection frames for the node go to
  registry,     \* nodes: the connection the node is registered with
  socketToNode, \* registry connections a disconnect cleans up
  discTasks,    \* onWsClose's deferred disconnect calls
  appSeq,       \* nextSeq
  appPending,   \* WsConn.pending
  handlers,     \* handleRpcRequest calls that have not answered
  \* history
  nodeCalls, appCalls, faults,
  mixed         \* sides on which an answer resolved another call

nodeVars == <<dials, phase, nodeSeq, nodePending, tasks>>
wireVars == <<sock, up, down>>
routeVars == <<conns, closing, authed, byNode, registry, socketToNode, discTasks>>
appRpcVars == <<appSeq, appPending, handlers>>
histVars == <<nodeCalls, appCalls, faults, mixed>>
vars == <<nodeVars, wireVars, routeVars, appRpcVars, histVars>>

-----------------------------------------------------------------------------
Frame(kind, seq, call) == [kind |-> kind, seq |-> seq, call |-> call]

\* The connection sendEnvelope writes to: markDead leaves none.
Ws == IF phase = "idle" THEN None ELSE dials

\* A write to a connection that is not open is lost without a trace.
Write(ch, c, f) == IF sock[c] = "open" THEN [ch EXCEPT ![c] = Append(@, f)] ELSE ch

\* peer.close() and a reset end the connection for both sides.
Shut(S) == [c \in ConnIds |-> IF c \in S /\ sock[c] = "open" THEN "shut" ELSE sock[c]]

Clear(ch, S) == [c \in ConnIds |-> IF c \in S THEN <<>> ELSE ch[c]]

Init ==
  /\ dials = 0 /\ phase = "idle" /\ nodeSeq = 1 /\ nodePending = {} /\ tasks = {}
  /\ sock = [c \in ConnIds |-> "unused"]
  /\ up = [c \in ConnIds |-> <<>>]
  /\ down = [c \in ConnIds |-> <<>>]
  /\ conns = {} /\ closing = {} /\ authed = {} /\ byNode = None
  /\ registry = None /\ socketToNode = {} /\ discTasks = {}
  /\ appSeq = 1 /\ appPending = {} /\ handlers = {}
  /\ nodeCalls = 0 /\ appCalls = 0 /\ faults = 0 /\ mixed = {}

-----------------------------------------------------------------------------
(* The node's connection loop.                                              *)

\* The handshake makes the connection known to the app (onWsOpen); c.ws is
\* set, so every goroutine may write to it, before Hello is.
Dial ==
  /\ phase = "idle"
  /\ dials < MaxConns
  /\ dials' = dials + 1
  /\ phase' = "dialed"
  /\ sock' = [sock EXCEPT ![dials + 1] = "open"]
  /\ conns' = conns \cup {dials + 1}
  /\ UNCHANGED <<nodeSeq, nodePending, tasks, up, down, closing, authed, byNode,
                 registry, socketToNode, discTasks, appRpcVars, histVars>>

SendHello ==
  /\ phase = "dialed"
  /\ phase' = "waiting"
  /\ up' = Write(up, dials, Frame("hello", 0, 0))
  /\ UNCHANGED <<dials, nodeSeq, nodePending, tasks, sock, down, routeVars, appRpcVars, histVars>>

Received == Head(down[dials])

\* The connection still holds frames to read, closed by the app or not.
Readable == down[dials] # <<>> /\ sock[dials] \in {"open", "shut"}

\* Anything but hello_ack makes the node give the connection up.  It is
\* never closed, only forgotten.
RecvHelloAck ==
  /\ phase = "waiting"
  /\ Readable
  /\ down' = [down EXCEPT ![dials] = Tail(@)]
  /\ phase' = IF Received.kind = "helloAck" THEN "serving" ELSE "idle"
  /\ UNCHANGED <<dials, nodeSeq, nodePending, tasks, sock, up, routeVars, appRpcVars, histVars>>

\* dispatch: a response goes to the pending call of its sequence number, a
\* request to a goroutine.
Dispatch ==
  /\ phase = "serving"
  /\ Readable
  /\ down' = [down EXCEPT ![dials] = Tail(@)]
  /\ LET answered == {p \in nodePending : Received.kind = "response" /\ p.seq = Received.seq} IN
     /\ nodePending' = nodePending \ answered
     /\ mixed' = IF \E p \in answered : p.call # Received.call
                 THEN mixed \cup {"node"} ELSE mixed
  /\ tasks' = IF Received.kind = "request"
              THEN tasks \cup {[seq |-> Received.seq, call |-> Received.call]} ELSE tasks
  /\ UNCHANGED <<dials, phase, nodeSeq, sock, up, routeVars, appRpcVars, nodeCalls, appCalls, faults>>

\* A read error, or a read deadline that ran out.
ReadFails ==
  /\ phase \in {"waiting", "serving"}
  /\ sock[dials] \in {"shut", "cut"}
  /\ phase' = "idle"
  /\ UNCHANGED <<dials, nodeSeq, nodePending, tasks, wireVars, routeVars, appRpcVars, histVars>>

\* rpcCall: the pending entry is stored before the request is written.
NodeCall ==
  /\ Ws # None
  /\ nodeCalls < MaxNodeCalls
  /\ nodeCalls' = nodeCalls + 1
  /\ nodeSeq' = nodeSeq + 1
  /\ nodePending' = nodePending \cup {[seq |-> nodeSeq, call |-> nodeCalls']}
  /\ up' = Write(up, dials, Frame("request", nodeSeq, nodeCalls'))
  /\ UNCHANGED <<dials, phase, tasks, sock, down, routeVars, appRpcVars, appCalls, faults, mixed>>

NodeCallTimeout(p) ==
  /\ p \in nodePending
  /\ nodePending' = nodePending \ {p}
  /\ UNCHANGED <<dials, phase, nodeSeq, tasks, wireVars, routeVars, appRpcVars, histVars>>

\* respondRPC writes to the connection of the moment.
TaskAnswers(t) ==
  /\ t \in tasks
  /\ tasks' = tasks \ {t}
  /\ up' = IF Ws = None THEN up ELSE Write(up, dials, Frame("response", t.seq, t.call))
  /\ UNCHANGED <<dials, phase, nodeSeq, nodePending, sock, down, routeVars, appRpcVars, histVars>>

-----------------------------------------------------------------------------
(* The app's side of the connections.                                       *)

Arrives(c, kind) ==
  /\ c \in conns
  /\ sock[c] = "open"
  /\ up[c] # <<>>
  /\ Head(up[c]).kind = kind

\* Mutant: the connection a new Hello replaces is left open.
HelloKeepsPrevious(c, now) ==
  /\ Arrives(c, "hello")
  /\ c \notin authed
  /\ up' = [up EXCEPT ![c] = Tail(@)]
  /\ registry' = c
  /\ socketToNode' = socketToNode \cup {c}
  /\ authed' = authed \cup {c}
  /\ byNode' = c
  /\ down' = Write(down, c, Frame("helloAck", 0, 0))
  /\ UNCHANGED <<nodeVars, sock, conns, closing, discTasks, appRpcVars, histVars>>

\* register, supersede the previous connection, route to this one.  The
\* server may run the close event of peer.close() before it returns.
AppHello(c, now) ==
  LET previous == {byNode} \ {None} IN
  /\ Arrives(c, "hello")
  /\ c \notin authed
  /\ up' = [up EXCEPT ![c] = Tail(@)]
  /\ registry' = c
  /\ socketToNode' = socketToNode \cup {c}
  /\ authed' = authed \cup {c}
  /\ byNode' = c
  /\ down' = Write(down, c, Frame("helloAck", 0, 0))
  /\ sock' = Shut(previous)
  /\ IF now
     THEN /\ conns' = conns \ previous
          /\ closing' = closing \ previous
          /\ discTasks' = discTasks \cup previous
          /\ appPending' = {p \in appPending : p.conn \notin previous}
     ELSE /\ closing' = closing \cup previous
          /\ UNCHANGED <<conns, discTasks, appPending>>
  /\ UNCHANGED <<nodeVars, appSeq, handlers, histVars>>

\* Requests are handled whether or not Hello came first.
AppRequest(c) ==
  /\ Arrives(c, "request")
  /\ up' = [up EXCEPT ![c] = Tail(@)]
  /\ handlers' = handlers \cup {[conn |-> c, seq |-> Head(up[c]).seq, call |-> Head(up[c]).call]}
  /\ UNCHANGED <<nodeVars, sock, down, routeVars, appSeq, appPending, histVars>>

\* Mutant: the answer takes the node's current route.
AnswerOnRoute(h) ==
  /\ h \in handlers
  /\ handlers' = handlers \ {h}
  /\ down' = IF byNode = None THEN down
             ELSE Write(down, byNode, Frame("response", h.seq, h.call))
  /\ UNCHANGED <<nodeVars, sock, up, routeVars, appSeq, appPending, histVars>>

\* The answer is queued on the connection that asked.
AppAnswers(h) ==
  /\ h \in handlers
  /\ handlers' = handlers \ {h}
  /\ down' = Write(down, h.conn, Frame("response", h.seq, h.call))
  /\ UNCHANGED <<nodeVars, sock, up, routeVars, appSeq, appPending, histVars>>

\* An answer resolves the pending call of its number on that connection.
AppResponse(c) ==
  LET f == Head(up[c])
      answered == {p \in appPending : p.conn = c /\ p.seq = f.seq} IN
  /\ Arrives(c, "response")
  /\ up' = [up EXCEPT ![c] = Tail(@)]
  /\ appPending' = appPending \ answered
  /\ mixed' = IF \E p \in answered : p.call # f.call THEN mixed \cup {"app"} ELSE mixed
  /\ UNCHANGED <<nodeVars, sock, down, routeVars, appSeq, handlers, nodeCalls, appCalls, faults>>

\* Mutant: every connection numbers its own calls.
SeqPerConnection == 1 + Cardinality({p \in appPending : p.conn = byNode})

\* One counter numbers the calls of all connections.
FreshSeq == appSeq

AppCall ==
  /\ byNode # None
  /\ appCalls < MaxAppCalls
  /\ appCalls' = appCalls + 1
  /\ appSeq' = appSeq + 1
  /\ appPending' = appPending \cup {[conn |-> byNode, seq |-> FreshSeq, call |-> appCalls']}
  /\ down' = Write(down, byNode, Frame("request", FreshSeq, appCalls'))
  /\ UNCHANGED <<nodeVars, sock, up, routeVars, handlers, nodeCalls, faults, mixed>>

AppCallTimeout(p) ==
  /\ p \in appPending
  /\ appPending' = appPending \ {p}
  /\ UNCHANGED <<nodeVars, wireVars, routeVars, appSeq, handlers, histVars>>

\* Nothing arrives on it any more: it is dead, or the node has left it.
Silent(c) == sock[c] = "cut" \/ (sock[c] = "open" /\ up[c] = <<>> /\ Ws # c)

\* The idle timer, or the hello timer of a connection without a Hello.
AppTimeout(c) ==
  /\ c \in conns \ closing
  /\ Silent(c)
  /\ closing' = closing \cup {c}
  /\ sock' = Shut({c})
  /\ UNCHANGED <<nodeVars, up, down, conns, authed, byNode, registry, socketToNode,
                 discTasks, appRpcVars, histVars>>

\* Mutant: pending calls wait for their own timers.
CloseKeepsPending(c) ==
  /\ c \in closing
  /\ conns' = conns \ {c}
  /\ closing' = closing \ {c}
  /\ IF byNode = c
     THEN byNode' = None /\ discTasks' = discTasks \cup {c}
     ELSE UNCHANGED <<byNode, discTasks>>
  /\ UNCHANGED <<nodeVars, wireVars, authed, registry, socketToNode, appRpcVars, histVars>>

\* Mutant: a close drops the node's route whichever connection it is.
CloseDropsAnyRoute(c) ==
  /\ c \in closing
  /\ conns' = conns \ {c}
  /\ closing' = closing \ {c}
  /\ appPending' = {p \in appPending : p.conn # c}
  /\ IF c \in authed
     THEN byNode' = None /\ discTasks' = discTasks \cup {c}
     ELSE UNCHANGED <<byNode, discTasks>>
  /\ UNCHANGED <<nodeVars, wireVars, authed, registry, socketToNode, appSeq, handlers, histVars>>

\* The close event.  Only the routed connection takes the route down; the
\* registry is told after an await.
OnWsClose(c) ==
  /\ c \in closing
  /\ conns' = conns \ {c}
  /\ closing' = closing \ {c}
  /\ appPending' = {p \in appPending : p.conn # c}
  /\ IF byNode = c
     THEN byNode' = None /\ discTasks' = discTasks \cup {c}
     ELSE UNCHANGED <<byNode, discTasks>>
  /\ UNCHANGED <<nodeVars, wireVars, authed, registry, socketToNode, appSeq, handlers, histVars>>

\* Mutant: the node is removed whichever connection it is registered with.
DisconnectAny(c) ==
  /\ c \in discTasks
  /\ discTasks' = discTasks \ {c}
  /\ socketToNode' = socketToNode \ {c}
  /\ registry' = IF c \in socketToNode THEN None ELSE registry
  /\ UNCHANGED <<nodeVars, wireVars, conns, closing, authed, byNode, appRpcVars, histVars>>

\* registry.disconnect.
Disconnect(c) ==
  /\ c \in discTasks
  /\ discTasks' = discTasks \ {c}
  /\ socketToNode' = socketToNode \ {c}
  /\ registry' = IF c \in socketToNode /\ registry = c THEN None ELSE registry
  /\ UNCHANGED <<nodeVars, wireVars, conns, closing, authed, byNode, appRpcVars, histVars>>

-----------------------------------------------------------------------------
(* Faults.                                                                  *)

Fault(f) ==
  /\ f \in Faults
  /\ faults < MaxFaults
  /\ faults' = faults + 1

\* The network between the two dies without a word.
Cut(c) ==
  /\ Fault("cut")
  /\ sock[c] = "open"
  /\ sock' = [sock EXCEPT ![c] = "cut"]
  /\ up' = Clear(up, {c})
  /\ down' = Clear(down, {c})
  /\ UNCHANGED <<nodeVars, routeVars, appRpcVars, nodeCalls, appCalls, mixed>>

\* The connection is reset; both sides are told.
Drop(c) ==
  /\ Fault("drop")
  /\ sock[c] = "open"
  /\ sock' = Shut({c})
  /\ up' = Clear(up, {c})
  /\ down' = Clear(down, {c})
  /\ closing' = closing \cup ({c} \cap conns)
  /\ UNCHANGED <<nodeVars, conns, authed, byNode, registry, socketToNode, discTasks,
                 appRpcVars, nodeCalls, appCalls, mixed>>

\* hello_ack is not there within 10s of a healthy connection.
SlowAck ==
  /\ Fault("slowAck")
  /\ phase = "waiting"
  /\ phase' = "idle"
  /\ UNCHANGED <<dials, nodeSeq, nodePending, tasks, wireVars, routeVars, appRpcVars,
                 nodeCalls, appCalls, mixed>>

OpenConns == {c \in ConnIds : sock[c] = "open"}

\* The node process is replaced: its numbering starts again.
NodeRestart ==
  /\ Fault("nodeRestart")
  /\ phase' = "idle"
  /\ nodeSeq' = 1
  /\ nodePending' = {}
  /\ tasks' = {}
  /\ sock' = Shut(OpenConns)
  /\ closing' = closing \cup (OpenConns \cap conns)
  /\ UNCHANGED <<dials, up, down, conns, authed, byNode, registry, socketToNode, discTasks,
                 appRpcVars, nodeCalls, appCalls, mixed>>

\* The app process is replaced; nothing of this module's state is stored.
AppRestart ==
  /\ Fault("appRestart")
  /\ sock' = Shut(OpenConns)
  /\ up' = Clear(up, ConnIds)
  /\ conns' = {} /\ closing' = {} /\ authed' = {} /\ byNode' = None
  /\ registry' = None /\ socketToNode' = {} /\ discTasks' = {}
  /\ appSeq' = 1 /\ appPending' = {} /\ handlers' = {}
  /\ UNCHANGED <<nodeVars, down, nodeCalls, appCalls, mixed>>

-----------------------------------------------------------------------------
NodeStep ==
  \/ Dial \/ SendHello \/ RecvHelloAck \/ Dispatch \/ ReadFails \/ NodeCall
  \/ \E p \in nodePending : NodeCallTimeout(p)
  \/ \E t \in tasks : TaskAnswers(t)

ConnStep(c) ==
  \/ \E now \in BOOLEAN : AppHello(c, now)
  \/ AppRequest(c) \/ AppResponse(c) \/ AppTimeout(c) \/ OnWsClose(c) \/ Disconnect(c)

AppStep ==
  \/ \E c \in ConnIds : ConnStep(c)
  \/ \E h \in handlers : AppAnswers(h)
  \/ AppCall
  \/ \E p \in appPending : AppCallTimeout(p)

FaultStep ==
  \/ \E c \in ConnIds : Cut(c) \/ Drop(c)
  \/ SlowAck \/ NodeRestart \/ AppRestart

Next == NodeStep \/ AppStep \/ FaultStep

Spec == Init /\ [][Next]_vars

\* The connection loop, the event loop and both sides' timers go on.
Fairness ==
  /\ WF_vars(Dial \/ SendHello \/ RecvHelloAck \/ Dispatch \/ ReadFails)
  /\ \A c \in ConnIds : WF_vars(ConnStep(c))

FairSpec == Spec /\ Fairness

-----------------------------------------------------------------------------
(* Properties that hold.                                                    *)

Pending == [seq : Nat, call : Nat]
ConnPending == [conn : ConnIds, seq : Nat, call : Nat]
Frames == [kind : {"hello", "helloAck", "request", "response"}, seq : Nat, call : Nat]

\* Every variable has its type; a close event is due only once.
TypeOK ==
  /\ dials \in 0..MaxConns
  /\ phase \in {"idle", "dialed", "waiting", "serving"}
  /\ phase # "idle" => dials \in ConnIds
  /\ nodeSeq \in Nat /\ appSeq \in Nat
  /\ nodePending \subseteq Pending /\ tasks \subseteq Pending
  /\ appPending \subseteq ConnPending /\ handlers \subseteq ConnPending
  /\ sock \in [ConnIds -> {"unused", "open", "cut", "shut"}]
  /\ up \in [ConnIds -> Seq(Frames)] /\ down \in [ConnIds -> Seq(Frames)]
  /\ conns \subseteq ConnIds /\ closing \subseteq conns /\ authed \subseteq ConnIds
  /\ byNode \in ConnIds \cup {None} /\ registry \in ConnIds \cup {None}
  /\ socketToNode \subseteq ConnIds /\ discTasks \subseteq ConnIds
  /\ nodeCalls \in Nat /\ appCalls \in Nat /\ faults \in Nat
  /\ mixed \subseteq {"node", "app"}

\* The registry and the routing table name the same connection, and it is an
\* open one; they differ only between a close event and its deferred cleanup.
RegistryFollowsRoute ==
  /\ byNode # None => byNode \in conns /\ registry = byNode
  /\ registry # byNode => byNode = None /\ registry \in discTasks

\* A connection that said Hello is the node's route or is being closed.
OneRoute == \A c \in conns \cap authed : c = byNode \/ c \in closing

\* Whatever closes late, registry, route and open connections name the one
\* connection that counts (media-node-ws.ts:76-131).
RoutesInStep == RegistryFollowsRoute /\ OneRoute

\* No call of the app waits on a connection that is gone.
PendingOnOpen == \A p \in appPending : p.conn \in conns

\* An answer resolves the call it was computed for, on either side, across
\* reconnects and restarts of the node.
NodeAnswersMatch == "node" \notin mixed
AppAnswersMatch == "app" \notin mixed
AnswersMatch == NodeAnswersMatch /\ AppAnswersMatch

\* Once faults are over, the node ends up served, registered and routed on
\* the connection it reads.
ControlRestored ==
  <>[](phase = "serving" /\ byNode = dials /\ registry = dials)
=============================================================================
