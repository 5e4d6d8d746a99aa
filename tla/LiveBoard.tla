----------------------------- MODULE LiveBoard -----------------------------
(***************************************************************************)
(* The live pages of the dashboard: the reports of media nodes on publish   *)
(* sessions (services/media-node-handlers.ts), the node list and its caps,  *)
(* the bus, the sockets of administrators (services/admin-ws.ts and the     *)
(* gateway), the browser's reconnecting socket (composables/useSocket.ts),  *)
(* the streams page and the nodes page, and the publishing bans an          *)
(* administrator sets and lifts.                                            *)
(*                                                                          *)
(* A frame that the page of a tab has no handler for is left out of its     *)
(* wire.  A row of the streams page is the session it shows.  All sessions  *)
(* are of one account and one event.                                        *)
(***************************************************************************)
EXTENDS Naturals, Sequences, SequencesExt

CONSTANTS
  Tabs,      \* browser tabs
  Users,
  Owner,     \* the user of a tab
  Sessions,  \* publish sessions
  Nodes,     \* media nodes
  Peers,     \* connections the gateway holds at once
  MaxPresses,  \* bound: calls of people
  MaxMishaps, \* bound: connections that fail, reports that arrive late
  MaxWire,   \* bound: frames in flight when a metric is published
  Null

SessionRow == [status : {"allowed", "violating", "ended"}, ended : BOOLEAN]
NodeRows == Nodes \X {"default", "raised"}
SessionFrames == {"session:start", "session:metric", "session:violation", "session:stop"}

\* What is in flight to a page: the session a report is of, or the list of nodes.
FrameRows == [name : SessionFrames \cup {"nodes:changed", "close"},
              of : (SUBSET Sessions) \cup (SUBSET NodeRows) \cup {Null}]
ConnRows == [tab : Tabs, kept : BOOLEAN, up : BOOLEAN, wire : Seq(FrameRows)]
FetchRows == [answer : SUBSET NodeRows, first : BOOLEAN]

\* No connection, row or answer is what stands for its absence.
BoardConstants ==
  /\ Owner \in [Tabs -> Users]
  /\ MaxPresses \in Nat /\ MaxMishaps \in Nat /\ MaxWire \in Nat \ {0}
  /\ Null \notin Peers \cup {"dialing", "waiting"} /\ {"dialing", "waiting"} \cap Peers = {}
  /\ Null \notin SessionRow \cup ConnRows \cup FetchRows

ASSUME BoardAssumption == BoardConstants

VARIABLES
  row,      \* publish_sessions: Null, or the status and whether it has ended
  nodes,    \* registered nodes
  cap,      \* their caps: default or raised
  bans,     \* stream_bans: rows of an id and a scope
  admins,   \* users with the role
  conns,    \* the gateway's peers: Null, or the tab and the frames in flight
  byAdmin,  \* the peer of a user
  page,     \* what a tab shows
  sock,     \* its socket: Null, dialing, waiting, or the peer it is open on
  view,     \* the rows of the page
  fetch,    \* the answer to its request in flight, or Null
  presses, mishaps,
  clean,    \* history: tabs whose page was seeded and has heard every report since
  raced     \* history: tabs whose last answer was overtaken by a frame

dbVars == <<row, nodes, cap, bans, admins>>
serverVars == <<conns, byAdmin>>
tabVars == <<page, sock, view, fetch, raced>>
boardVars == <<dbVars, serverVars, tabVars, presses, mishaps, clean>>

-----------------------------------------------------------------------------
Scopes == {"site", "event"}

\* No row of node_settings: the default cap.
DefaultCaps == [n \in Nodes |-> "default"]

BoardInit ==
  /\ row = [s \in Sessions |-> Null]
  /\ nodes = {} /\ cap = DefaultCaps
  /\ bans = {} /\ admins = Users
  /\ conns = [p \in Peers |-> Null] /\ byAdmin = [u \in Users |-> Null]
  /\ page = [t \in Tabs |-> "away"] /\ sock = [t \in Tabs |-> Null]
  /\ view = [t \in Tabs |-> {}] /\ fetch = [t \in Tabs |-> Null]
  /\ presses = 0 /\ mishaps = 0 /\ clean = {} /\ raced = {}

Press == presses < MaxPresses /\ presses' = presses + 1
Mishap == mishaps < MaxMishaps /\ mishaps' = mishaps + 1

\* findActive: sessions not yet ended.
ListActiveSessions == {s \in Sessions : row[s] # Null /\ ~row[s].ended}
NodesSnapshot == {<<n, cap[n]>> : n \in nodes}

-----------------------------------------------------------------------------
(* The bus and the sockets of the gateway.                                  *)

Frame(name, of) == [name |-> name, of |-> of]

\* Mutant: session:stop is missing from the list.
ForwardStarts == (SessionFrames \ {"session:stop"}) \cup {"nodes:changed"}

Forward == SessionFrames \cup {"nodes:changed"}

Handled(t, name) ==
  \/ page[t] = "streams" /\ name \in SessionFrames
  \/ page[t] = "nodes" /\ name = "nodes:changed"

\* A connection the gateway has in its map, with both ends open.
Hears(p) == conns[p] # Null /\ conns[p].kept /\ conns[p].up

\* publish: a frame to every connection of the gateway's map.
Emit(frame) ==
  conns' = [p \in Peers |->
    IF Hears(p) /\ frame.name \in Forward /\ Handled(conns[p].tab, frame.name)
    THEN [conns[p] EXCEPT !.wire = Append(@, frame)] ELSE conns[p]]

Listening(t) == sock[t] \in Peers /\ Hears(sock[t])

\* Streams pages that a report passes by.
Deaf == {t \in Tabs : page[t] = "streams" /\ ~Listening(t)}

Room == \A p \in Peers : conns[p] # Null => Len(conns[p].wire) < MaxWire

Closing == Frame("close", Null)

\* Mutant: the older connection stays in the map.
SupersededKept(c, u) ==
  [p \in Peers |-> IF p = byAdmin[u] THEN [c[p] EXCEPT !.wire = Append(@, Closing)] ELSE c[p]]

\* One live connection per administrator: the newer tab replaces the first.
Superseded(c, u) ==
  [p \in Peers |-> IF p = byAdmin[u]
                   THEN [c[p] EXCEPT !.kept = FALSE, !.wire = Append(@, Closing)] ELSE c[p]]

Snapshot(t) == IF page[t] = "nodes" THEN NodesSnapshot ELSE ListActiveSessions

\* Mutant: the nodes page does not ask again.
OnConnectQuiet(t) == UNCHANGED <<fetch, raced>>

\* The nodes page asks for its list when its socket connects; the streams
\* page only shows that it is connected.
OnConnect(t) ==
  IF page[t] = "nodes"
  THEN fetch' = [fetch EXCEPT ![t] = [answer |-> NodesSnapshot, first |-> TRUE]] /\ raced' = raced \ {t}
  ELSE UNCHANGED <<fetch, raced>>

\* wsRoute, authenticateAdmin and onAdminWsOpen; the browser's onopen.
Open(t) ==
  /\ sock[t] = "dialing" /\ Owner[t] \in admins
  /\ \E q \in Peers : conns[q] = Null
  /\ LET p == CHOOSE q \in Peers : conns[q] = Null IN
       /\ conns' = [Superseded(conns, Owner[t]) EXCEPT
                      ![p] = [tab |-> t, kept |-> TRUE, up |-> TRUE, wire |-> <<>>]]
       /\ byAdmin' = [byAdmin EXCEPT ![Owner[t]] = p]
       /\ sock' = [sock EXCEPT ![t] = p]
  /\ OnConnect(t)
  /\ UNCHANGED <<dbVars, page, view, presses, mishaps, clean>>

\* The user is no administrator: the handshake ends with 403.
Refuse(t) ==
  /\ sock[t] = "dialing" /\ Owner[t] \notin admins
  /\ sock' = [sock EXCEPT ![t] = "waiting"]
  /\ UNCHANGED <<dbVars, serverVars, page, view, fetch, raced, presses, mishaps, clean>>

\* Mutant: a tab waits until the administrator has no other connection.
RedialAlone(t) ==
  /\ sock[t] = "waiting" /\ byAdmin[Owner[t]] = Null
  /\ sock' = [sock EXCEPT ![t] = "dialing"]
  /\ UNCHANGED <<dbVars, serverVars, page, view, fetch, raced, presses, mishaps, clean>>

\* The three seconds are over.
Redial(t) ==
  /\ sock[t] = "waiting"
  /\ sock' = [sock EXCEPT ![t] = "dialing"]
  /\ UNCHANGED <<dbVars, serverVars, page, view, fetch, raced, presses, mishaps, clean>>

\* onAdminWsClose: the peer of the map, unless a newer one took its place.
OnAdminWsClose(p, c) ==
  /\ conns' = c
  /\ byAdmin' = [u \in Users |-> IF byAdmin[u] = p THEN Null ELSE byAdmin[u]]

\* Ninety seconds of silence from a tab that is still there.
IdleTimeout(p) ==
  /\ Mishap
  /\ Hears(p)
  /\ OnAdminWsClose(p, [conns EXCEPT ![p].kept = FALSE, ![p].wire = Append(@, Closing)])
  /\ UNCHANGED <<dbVars, tabVars, presses, clean>>

\* The gateway learns that the browser's end is closed.
PeerGone(p) ==
  /\ conns[p] # Null /\ ~conns[p].up
  /\ OnAdminWsClose(p, [conns EXCEPT ![p] = Null])
  /\ UNCHANGED <<dbVars, tabVars, presses, mishaps, clean>>

\* onclose of a socket the page has not closed.
OnClose(t) == sock' = [sock EXCEPT ![t] = "waiting"]

\* The network drops the connection; what was in flight is gone.
NetworkDrop(t) ==
  /\ Mishap
  /\ sock[t] \in Peers
  /\ conns' = [conns EXCEPT ![sock[t]].up = FALSE, ![sock[t]].wire = <<>>]
  /\ clean' = IF conns[sock[t]].wire = <<>> THEN clean ELSE clean \ {t}
  /\ OnClose(t)
  /\ UNCHANGED <<dbVars, byAdmin, page, view, fetch, raced, presses>>

\* The handlers of the two pages.
Shown(t, frame) ==
  CASE frame.name = "nodes:changed" -> frame.of
    [] frame.name = "session:stop"  -> view[t] \ frame.of
    [] OTHER                        -> view[t] \cup frame.of

Receive(t) ==
  /\ sock[t] \in Peers /\ conns[sock[t]].wire # <<>>
  /\ LET p == sock[t]
         frame == Head(conns[p].wire) IN
     IF frame = Closing
     THEN /\ conns' = [conns EXCEPT ![p].up = FALSE, ![p].wire = <<>>]
          /\ OnClose(t)
          /\ UNCHANGED <<view, fetch, raced>>
     ELSE /\ conns' = [conns EXCEPT ![p].wire = Tail(@)]
          /\ view' = [view EXCEPT ![t] = Shown(t, frame)]
          /\ fetch' = IF fetch[t] # Null THEN [fetch EXCEPT ![t].first = FALSE] ELSE fetch
          /\ raced' = raced \ {t}
          /\ UNCHANGED sock
  /\ UNCHANGED <<dbVars, byAdmin, page, presses, mishaps, clean>>

-----------------------------------------------------------------------------
(* The pages.                                                               *)

\* A page loaded whole comes with its rows.
LoadPage(t, pg) ==
  /\ Press
  /\ page[t] = "away" /\ Owner[t] \in admins
  /\ page' = [page EXCEPT ![t] = pg]
  /\ view' = [view EXCEPT ![t] = IF pg = "nodes" THEN NodesSnapshot ELSE ListActiveSessions]
  /\ sock' = [sock EXCEPT ![t] = "dialing"]
  /\ clean' = clean \cup {t}
  /\ UNCHANGED <<dbVars, serverVars, fetch, raced, mishaps>>

\* A page reached from another one asks for them: the nodes page shows the
\* answer, the streams page copied the rows before it came.
EnterPage(t, pg) ==
  /\ Press
  /\ page[t] = "away" /\ Owner[t] \in admins
  /\ page' = [page EXCEPT ![t] = pg]
  /\ fetch' = IF pg = "nodes"
              THEN [fetch EXCEPT ![t] = [answer |-> NodesSnapshot, first |-> TRUE]] ELSE fetch
  /\ sock' = [sock EXCEPT ![t] = "dialing"]
  /\ clean' = IF pg = "streams" /\ ListActiveSessions = {} THEN clean \cup {t} ELSE clean
  /\ UNCHANGED <<dbVars, serverVars, view, raced, mishaps>>

Answer(t) ==
  /\ fetch[t] # Null
  /\ view' = [view EXCEPT ![t] = fetch[t].answer]
  /\ raced' = IF fetch[t].first THEN raced ELSE raced \cup {t}
  /\ fetch' = [fetch EXCEPT ![t] = Null]
  /\ UNCHANGED <<dbVars, serverVars, page, sock, presses, mishaps, clean>>

\* Mutant: the page goes without its socket.
LeaveOpen(t) ==
  /\ page[t] # "away"
  /\ page' = [page EXCEPT ![t] = "away"]
  /\ view' = [view EXCEPT ![t] = {}]
  /\ fetch' = [fetch EXCEPT ![t] = Null]
  /\ raced' = raced \ {t} /\ clean' = clean \ {t}
  /\ UNCHANGED <<dbVars, serverVars, sock, presses, mishaps>>

\* onBeforeUnmount: disposeSocket.
LeavePage(t) ==
  /\ page[t] # "away"
  /\ page' = [page EXCEPT ![t] = "away"]
  /\ view' = [view EXCEPT ![t] = {}]
  /\ fetch' = [fetch EXCEPT ![t] = Null]
  /\ raced' = raced \ {t} /\ clean' = clean \ {t}
  /\ sock' = [sock EXCEPT ![t] = Null]
  /\ conns' = IF sock[t] \in Peers
              THEN [conns EXCEPT ![sock[t]].up = FALSE, ![sock[t]].wire = <<>>] ELSE conns
  /\ UNCHANGED <<dbVars, byAdmin, presses, mishaps>>

-----------------------------------------------------------------------------
(* Reports on sessions and nodes.                                           *)

\* What the gateway asks of the app while a publisher connects: a
\* site-wide ban, then any that covers the event.
HandleAuthSalt == \E b \in bans : b.scope = "site"
Blocked == bans # {}

Update(s, status, ended) == row' = [row EXCEPT ![s] = [status |-> status, ended |-> ended]]

Report(s, name, status, ended) ==
  /\ Update(s, status, ended)
  /\ Emit(Frame(name, {s}))
  /\ clean' = clean \ Deaf
  /\ UNCHANGED <<nodes, cap, bans, admins, byAdmin, tabVars, presses>>

HandlePublishStart(s) ==
  /\ row[s] = Null /\ ~HandleAuthSalt /\ ~Blocked
  /\ \A t \in Sessions : row[t] # Null => row[t].ended
  /\ Report(s, "session:start", "allowed", FALSE)
  /\ UNCHANGED mishaps

\* Mutant: the metrics are stored and not announced.
HandleMetricsQuiet(s) ==
  /\ row[s] # Null /\ ~row[s].ended /\ Room
  /\ UNCHANGED boardVars

\* Every five seconds while the session is active on its node.
HandleMetrics(s) ==
  /\ row[s] # Null /\ ~row[s].ended /\ Room
  /\ Report(s, "session:metric", row[s].status, FALSE)
  /\ UNCHANGED mishaps

\* The declared spec of the stream's active session breaks a limit.
HandleSpec(s) ==
  /\ s \in ListActiveSessions /\ row[s].status = "allowed" /\ Room
  /\ Report(s, "session:violation", "violating", FALSE)
  /\ UNCHANGED mishaps

\* A report of the monitor that was under way when the session ended.
LateReport(s) ==
  /\ Mishap
  /\ row[s] # Null /\ row[s].ended
  /\ \/ Emit(Frame("session:metric", {s})) /\ UNCHANGED row
     \/ /\ Emit(Frame("session:violation", {s}))
        /\ row' = [row EXCEPT ![s].status = "violating"]
  /\ clean' = {}
  /\ UNCHANGED <<nodes, cap, bans, admins, byAdmin, tabVars, presses>>

HandleEnd(s) ==
  /\ s \in ListActiveSessions
  /\ Report(s, "session:stop", "ended", TRUE)
  /\ UNCHANGED mishaps

\* A node registers, loses its connection, or has its cap set on the page.
NodesChanged(registered, caps) ==
  /\ Press
  /\ nodes' = registered /\ cap' = caps
  /\ NodesSnapshot' # NodesSnapshot
  /\ Emit(Frame("nodes:changed", NodesSnapshot'))
  /\ UNCHANGED <<row, bans, admins, byAdmin, tabVars, mishaps, clean>>

HandleRegister(n) == NodesChanged(nodes \cup {n}, cap)
Disconnect(n) == NodesChanged(nodes \ {n}, cap)

SetCap(n) == [cap EXCEPT ![n] = "raised"]
SaveCap(n) == n \in nodes /\ NodesChanged(nodes, SetCap(n))

-----------------------------------------------------------------------------
(* Bans of the account.                                                     *)

NextBan == 1 + Len(SetToSeq(bans))

\* Mutant: a row is added for every call.
BanTwice(scope) == bans' = bans \cup {[id |-> NextBan, scope |-> scope]}

\* One row per scope: site-wide ones have no unique index.
Ban(scope) ==
  bans' = IF \E b \in bans : b.scope = scope THEN bans
          ELSE bans \cup {[id |-> NextBan, scope |-> scope]}

\* From a panel.
AddBan(scope) ==
  /\ Press
  /\ Ban(scope)
  /\ UNCHANGED <<row, nodes, cap, admins, serverVars, tabVars, mishaps, clean>>

\* From the streams page, for the row of a live session; the node is told to
\* end it and reports so.
BanLive(t, s) ==
  /\ Press
  /\ page[t] = "streams" /\ s \in view[t]
  /\ Ban("site")
  /\ UNCHANGED <<row, nodes, cap, admins, serverVars, tabVars, mishaps, clean>>

\* Lifting is by id; a row that is gone is not looked for.
Unban(b) ==
  /\ b \in bans /\ bans' = bans \ {b}
  /\ UNCHANGED <<row, nodes, cap, admins, serverVars, tabVars, presses, mishaps, clean>>

\* The role of a user is taken; connections that are open stay.
Demote(u) ==
  /\ Press
  /\ admins' = admins \ {u} /\ u \in admins
  /\ UNCHANGED <<row, nodes, cap, bans, serverVars, tabVars, mishaps, clean>>

-----------------------------------------------------------------------------
BoardNext ==
  \/ \E t \in Tabs :
       \/ Open(t) \/ Refuse(t) \/ Redial(t) \/ Receive(t) \/ NetworkDrop(t)
       \/ \E pg \in {"streams", "nodes"} : LoadPage(t, pg) \/ EnterPage(t, pg)
       \/ Answer(t) \/ LeavePage(t)
       \/ \E s \in Sessions : BanLive(t, s)
  \/ \E p \in Peers : IdleTimeout(p) \/ PeerGone(p)
  \/ \E s \in Sessions : \/ HandlePublishStart(s) \/ HandleMetrics(s) \/ HandleSpec(s)
                         \/ LateReport(s) \/ HandleEnd(s)
  \/ \E n \in Nodes : HandleRegister(n) \/ Disconnect(n) \/ SaveCap(n)
  \/ \E scope \in Scopes : AddBan(scope)
  \/ \E b \in bans : Unban(b)
  \/ \E u \in Users : Demote(u)

BoardSpec == BoardInit /\ [][BoardNext]_boardVars

\* Browser and gateway keep a socket going, frames arrive, and the monitor
\* of a session reports on its timer; people and faults owe nothing.
Fairness ==
  /\ \A t \in Tabs : WF_boardVars(Open(t)) /\ WF_boardVars(Redial(t)) /\ WF_boardVars(Receive(t))
  /\ \A p \in Peers : WF_boardVars(PeerGone(p))
  /\ \A s \in Sessions : SF_boardVars(HandleMetrics(s))

BoardFairSpec == BoardSpec /\ Fairness

-----------------------------------------------------------------------------
BoardTypeOK ==
  /\ \A s \in Sessions : row[s] # Null => row[s] \in SessionRow
  /\ nodes \subseteq Nodes /\ admins \subseteq Users
  /\ \A p \in Peers : conns[p] # Null =>
       /\ conns[p].tab \in Tabs
       /\ conns[p].up => sock[conns[p].tab] = p
  /\ \A t \in Tabs : /\ sock[t] \in Peers \cup {Null, "dialing", "waiting"}
                     /\ sock[t] = Null <=> page[t] = "away"
  /\ presses \in 0..MaxPresses /\ mishaps \in 0..MaxMishaps

\* However tabs connect, are superseded, time out and come back, the gateway
\* sends to one connection per administrator, the one its index names
\* (admin-ws.ts:44 conns and byAdmin).
OneConnPerAdmin ==
  /\ \A p \in Peers : conns[p] # Null /\ conns[p].kept => byAdmin[Owner[conns[p].tab]] = p
  /\ \A u \in Users : byAdmin[u] # Null =>
       /\ conns[byAdmin[u]] # Null /\ conns[byAdmin[u]].kept
       /\ Owner[conns[byAdmin[u]].tab] = u

\* A streams page that was seeded and has missed no report since shows the
\* active sessions, no more and no fewer, once it has read its frames
\* (streams.vue:33 onMounted, admin-ws.ts:116 FORWARD).
BoardExact ==
  \A t \in clean : page[t] = "streams" /\ (sock[t] \in Peers => conns[sock[t]].wire = <<>>) =>
    view[t] = ListActiveSessions

\* However many changes a nodes page missed while its socket was down, it
\* shows the registry again once it is back, unless a frame overtook the
\* answer (nodes.vue:13 the refetch on connect).
ListExact ==
  \A t \in Tabs \ raced : page[t] = "nodes" =>
    \/ ~Listening(t) \/ conns[sock[t]].wire # <<>> \/ fetch[t] # Null
    \/ view[t] = NodesSnapshot

\* A lift frees the account: whatever is banned and lifted twice, from the
\* panel of an event or of the site, a scope holds one row and no lift leaves
\* another one behind (stream-bans.ts:67 ban).
OneBanPerScope == \A b, c \in bans : b.scope = c.scope => b = c

\* A live page that the gateway does not send to is heard again, even when
\* tabs of the same administrator push each other out (useSocket.ts:53 onclose).
FeedResumes ==
  \A t \in Tabs :
    page[t] # "away" /\ ~Listening(t) ~>
      Listening(t) \/ page[t] = "away" \/ Owner[t] \notin admins

\* A session that goes on is on the streams page in the end, whatever the page
\* missed: its metrics add it.  Another tab of the administrator may take the
\* connection away (streams.vue:40, media-node-handlers.ts:220 handleMetrics).
LiveAppears ==
  \A t \in Tabs, s \in Sessions :
    page[t] = "streams" /\ s \in ListActiveSessions ~>
      \/ s \in view[t] \/ s \notin ListActiveSessions \/ page[t] # "streams"
      \/ Owner[t] \notin admins
      \/ \E o \in Tabs \ {t} : Owner[o] = Owner[t] /\ page[o] # "away"

\* Gateway and pages agree: one connection is sent to, what a page shows is
\* what the app has, and a lifted ban leaves none behind (admin-ws.ts:44,
\* streams.vue:33, nodes.vue:13, stream-bans.ts:67).
BoardInv == BoardTypeOK /\ OneConnPerAdmin /\ BoardExact /\ ListExact /\ OneBanPerScope
=============================================================================
