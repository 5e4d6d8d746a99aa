--------------------------- MODULE PublishSession ---------------------------
(***************************************************************************)
(* The life of a publish, end to end: the RTMP gateway connection of one   *)
(* media node (node/rtmp/server.go), the node's session manager            *)
(* (node/media/session.go) and its hooks (node/main.go), the app's publish *)
(* gate and report handlers (media-node-handlers.ts), the ghost reconciler *)
(* (reconcile.ts), the event lifecycle ticker (event-lifecycle.ts) and the *)
(* admin ban (clients/[clientId].delete.ts).                               *)
(*                                                                         *)
(* A connection makes one publish attempt, so the publish_sessions row the *)
(* gate inserts for it is named after it.  The control WebSocket is        *)
(* abstracted to a link state and to unordered in-flight frames: every     *)
(* kick runs in a goroutine of its own and every report leaves from        *)
(* another goroutine than the RPCs do, so no order between them can be     *)
(* relied on.  ControlChannel models the channel itself.                   *)
(***************************************************************************)
EXTENDS Naturals, FiniteSets

CONSTANTS
  Conns,      \* publisher connections accepted by the gateway
  Names,      \* stream names
  Events,
  NameOf,     \* the (sanitised) stream name each connection publishes under
  EventOf,    \* the event whose publish key it presents
  LinkFaults, \* how the control link may fail: halfdead, down
  CrashFaults,\* the same, when the media node dies
  None

ASSUME ConstantsAssumption ==
  /\ NameOf \in [Conns -> Names]
  /\ EventOf \in [Conns -> Events]
  /\ LinkFaults \subseteq {"halfdead", "down"}
  /\ CrashFaults \subseteq {"halfdead", "down"}
  /\ None \notin Conns

\* SRS distinguishes publishers by application (the event key) and name.
KeyOf == [c \in Conns |-> <<EventOf[c], NameOf[c]>>]
Keys == Events \X Names

VARIABLES
  \* media node
  pc,         \* where HandleOBS stands on each connection
  rpc,        \* the publish:start RPC of the connection
  sessions,   \* Manager.sessions: stream name -> the row it reports for
  polling,    \* monitors that passed their active check and query SRS
  relays,     \* rtmp.relays: stream name -> the connection a kick closes
  srs,        \* SRS: the publisher that holds an ingest key
  \* control channel
  link,       \* up, halfdead (frames vanish, the app has not noticed), down
  wire,       \* reports in flight to the app
  kicks,      \* kick_stream frames in flight to the node
  \* app
  row,        \* publish_sessions: none, open, ended
  silent,     \* open rows with no metrics for longer than is tolerated
  eventState, \* scheduled, due (window open, tick to come), live, over
              \* (window closed, tick to come), ended
  banned,     \* site-wide stream bans
  \* history
  contested,  \* names with a publish granted while another one was alive
  outaged     \* rows whose control link failed while they were open

nodeVars == <<pc, rpc, sessions, polling, relays, srs>>
linkVars == <<link, wire, kicks>>
appVars == <<row, silent, eventState, banned>>
histVars == <<contested, outaged>>
vars == <<nodeVars, linkVars, appVars, histVars>>

-----------------------------------------------------------------------------
\* A publish the gate approved and whose teardown has not reported its end.
Granted == {"granted", "dialed", "accepted", "relaying", "closing", "unregistered"}

GrantedOn(n) == {c \in Conns : NameOf[c] = n /\ pc[c] \in Granted}

\* App side: registry and byNode still hold the node's connection.
NodeOnline == link # "down"

\* A frame is delivered only over a healthy link; the sender cannot tell.
Send(frames) == wire' = IF link = "up" THEN wire \cup frames ELSE wire

Report(kind, c) == [kind |-> kind, of |-> c]

\* kickStream: enqueued whenever a connection is registered for the node.
Kick(names) == kicks' = IF link = "up" THEN kicks \cup names ELSE kicks

\* Manager.End: by stream NAME, whoever asks; reports publish:end.
EndSession(n) ==
  /\ sessions' = [sessions EXCEPT ![n] = None]
  /\ Send(IF sessions[n] = None THEN {} ELSE {Report("end", sessions[n])})

Leave(c, from, to) == pc[c] = from /\ pc' = [pc EXCEPT ![c] = to]

\* The last granted publish of a name settles the name again.
Settle(c) == contested' =
  IF GrantedOn(NameOf[c]) = {c} THEN contested \ {NameOf[c]} ELSE contested

Init ==
  /\ pc = [c \in Conns |-> "idle"]
  /\ rpc = [c \in Conns |-> "none"]
  /\ sessions = [n \in Names |-> None]
  /\ polling = {}
  /\ relays = [n \in Names |-> None]
  /\ srs = [k \in Keys |-> None]
  /\ link = "up"
  /\ wire = {}
  /\ kicks = {}
  /\ row = [c \in Conns |-> "none"]
  /\ silent = {}
  /\ eventState \in [Events -> {"scheduled", "live"}]
  /\ banned = {}
  /\ contested = {}
  /\ outaged = {}

-----------------------------------------------------------------------------
(* The gateway connection: policy, gate, upstream, relay, teardown.        *)

Publish(c) ==
  /\ Leave(c, "idle", "policy")
  /\ UNCHANGED <<rpc, sessions, polling, relays, srs, linkVars, appVars, histVars>>

\* auth:policy compares the clock with the window, not the event's status.
WindowOpen(e) == eventState[e] \in {"due", "live"}

PolicyPasses(c) ==
  /\ link = "up"
  /\ NameOf[c] \notin banned
  /\ WindowOpen(EventOf[c])
  /\ Leave(c, "policy", "cleared")
  /\ UNCHANGED <<rpc, sessions, polling, relays, srs, linkVars, appVars, histVars>>

\* A refusal (BadName), or an unreachable control plane (plain close).
PolicyCloses(c) ==
  /\ \/ link # "up"
     \/ NameOf[c] \in banned
     \/ ~WindowOpen(EventOf[c])
  /\ Leave(c, "policy", "closed")
  /\ UNCHANGED <<rpc, sessions, polling, relays, srs, linkVars, appVars, histVars>>

\* OnPublishGate sends publish:start; with no connection it fails closed.
AskGate(c) ==
  /\ \/ /\ link = "down"
        /\ Leave(c, "cleared", "closed")
        /\ UNCHANGED rpc
     \/ /\ link # "down"
        /\ Leave(c, "cleared", "gate")
        /\ rpc' = [rpc EXCEPT ![c] = IF link = "up" THEN "sent" ELSE "lost"]
  /\ UNCHANGED <<sessions, polling, relays, srs, linkVars, appVars, histVars>>

\* Mutant: a publish:start without an answer counts as allowed.
GateFailsOpen(c) ==
  LET n == NameOf[c] IN
  /\ rpc[c] \in {"allow", "sent", "lost"}
  /\ Leave(c, "gate", "granted")
  /\ rpc' = [rpc EXCEPT ![c] = "none"]
  /\ sessions' = [sessions EXCEPT ![n] = IF @ = None THEN c ELSE @]
  /\ contested' = IF GrantedOn(n) = {} THEN contested ELSE contested \cup {n}
  /\ UNCHANGED <<polling, relays, srs, linkVars, appVars, outaged>>

\* Manager.Start keeps an existing session of the name.
GateGrants(c) ==
  LET n == NameOf[c] IN
  /\ rpc[c] = "allow"
  /\ Leave(c, "gate", "granted")
  /\ rpc' = [rpc EXCEPT ![c] = "none"]
  /\ sessions' = [sessions EXCEPT ![n] = IF @ = None THEN c ELSE @]
  /\ contested' = IF GrantedOn(n) = {} THEN contested ELSE contested \cup {n}
  /\ UNCHANGED <<polling, relays, srs, linkVars, appVars, outaged>>

\* A deny, or no answer within 5s.  An unanswered request may still be
\* handled by the app: its answer finds no pending call.
GateRefuses(c) ==
  /\ Leave(c, "gate", "closed")
  /\ rpc' = [rpc EXCEPT ![c] = IF @ \in {"sent", "orphan"} THEN "orphan" ELSE "none"]
  /\ UNCHANGED <<sessions, polling, relays, srs, linkVars, appVars, histVars>>

DialUpstream(c) ==
  /\ Leave(c, "granted", "dialed")
  /\ UNCHANGED <<rpc, sessions, polling, relays, srs, linkVars, appVars, histVars>>

\* SRS takes one publisher per key.
SrsAccepts(c) ==
  /\ srs[KeyOf[c]] = None
  /\ srs' = [srs EXCEPT ![KeyOf[c]] = c]
  /\ Leave(c, "dialed", "accepted")
  /\ UNCHANGED <<rpc, sessions, polling, relays, linkVars, appVars, histVars>>

\* Mutant: the error path forgets OnUnpublish.
UpstreamFailsSilently(c) ==
  /\ pc[c] \in {"granted", "dialed"}
  /\ pc' = [pc EXCEPT ![c] = "closed"]
  /\ Settle(c)
  /\ UNCHANGED <<rpc, sessions, polling, relays, srs, linkVars, appVars, outaged>>

\* The dial fails or SRS rejects the publish: OnUnpublish(final) at once.
UpstreamFails(c) ==
  /\ pc[c] \in {"granted", "dialed"}
  /\ pc' = [pc EXCEPT ![c] = "closed"]
  /\ EndSession(NameOf[c])
  /\ Settle(c)
  /\ UNCHANGED <<rpc, polling, relays, srs, link, kicks, appVars, outaged>>

Register(c) ==
  /\ Leave(c, "accepted", "relaying")
  /\ relays' = [relays EXCEPT ![NameOf[c]] = c]
  /\ UNCHANGED <<rpc, sessions, polling, srs, linkVars, appVars, histVars>>

\* OBS stops or its connection breaks; an upstream write fails.
ObsLeaves(c) ==
  /\ Leave(c, "relaying", "closing")
  /\ UNCHANGED <<rpc, sessions, polling, relays, srs, linkVars, appVars, histVars>>

\* SRS drops the publisher: a restart, an onStatus error, or the upstream
\* connection the gateway closed.
SrsDrops(c) ==
  /\ srs[KeyOf[c]] = c
  /\ srs' = [srs EXCEPT ![KeyOf[c]] = None]
  /\ UNCHANGED <<pc, rpc, sessions, polling, relays, linkVars, appVars, histVars>>

\* Drain's onDeath closes the OBS connection of a dead upstream.
DrainCloses(c) ==
  /\ srs[KeyOf[c]] # c
  /\ Leave(c, "relaying", "closing")
  /\ UNCHANGED <<rpc, sessions, polling, relays, srs, linkVars, appVars, histVars>>

\* HandleOBS' deferred cleanup: the relay handle by NAME ...
Unregister(c) ==
  /\ Leave(c, "closing", "unregistered")
  /\ relays' = [relays EXCEPT ![NameOf[c]] = None]
  /\ UNCHANGED <<rpc, sessions, polling, srs, linkVars, appVars, histVars>>

\* ... then OnUnpublish.
Unpublish(c) ==
  /\ Leave(c, "unregistered", "closed")
  /\ EndSession(NameOf[c])
  /\ Settle(c)
  /\ UNCHANGED <<rpc, polling, relays, srs, link, kicks, appVars, outaged>>

\* Mutant: the handle is dropped and nothing is closed.
KillStreamHandleOnly(n) ==
  /\ n \in kicks
  /\ kicks' = kicks \ {n}
  /\ relays' = [relays EXCEPT ![n] = None]
  /\ UNCHANGED <<pc, rpc, sessions, polling, srs, link, wire, appVars, histVars>>

\* KillStream closes both halves of the registered relay, if there is one.
KillStream(n) ==
  /\ n \in kicks
  /\ kicks' = kicks \ {n}
  /\ relays' = [relays EXCEPT ![n] = None]
  /\ pc' = [c \in Conns |-> IF relays[n] = c THEN "closing" ELSE pc[c]]
  /\ UNCHANGED <<rpc, sessions, polling, srs, link, wire, appVars, histVars>>

Gateway(c) ==
  \/ Publish(c) \/ PolicyPasses(c) \/ PolicyCloses(c) \/ AskGate(c)
  \/ GateGrants(c) \/ GateRefuses(c) \/ DialUpstream(c) \/ SrsAccepts(c)
  \/ UpstreamFails(c) \/ Register(c) \/ ObsLeaves(c) \/ SrsDrops(c)
  \/ DrainCloses(c) \/ Unregister(c) \/ Unpublish(c)

-----------------------------------------------------------------------------
(* The session monitor: reads active, queries SRS, then reports.           *)

MonitorPolls(c) ==
  /\ sessions[NameOf[c]] = c
  /\ c \notin polling
  /\ polling' = polling \cup {c}
  /\ UNCHANGED <<pc, rpc, sessions, relays, srs, linkVars, appVars, histVars>>

InSrs(n) == \E e \in Events : srs[<<e, n>>] # None

MonitorReports(c) ==
  /\ c \in polling
  /\ polling' = polling \ {c}
  /\ Send(IF InSrs(NameOf[c]) THEN {Report("metrics", c)} ELSE {})
  /\ UNCHANGED <<pc, rpc, sessions, relays, srs, link, kicks, appVars, histVars>>

Monitor(c) == MonitorPolls(c) \/ MonitorReports(c)

-----------------------------------------------------------------------------
(* The app: the publish gate, the report handlers and the reconciler.      *)

\* An answer reaches the node only on the connection that asked.
Answer(c, verdict) ==
  rpc' = [rpc EXCEPT ![c] = CASE @ = "orphan" -> "none"
                              [] link = "up" -> verdict
                              [] OTHER -> "lost"]

Asked(c) == rpc[c] \in {"sent", "orphan"}

\* authorizePublish and the insert run without giving up the event loop once
\* the token is verified: the status and the row are one step.
AppGrants(c) ==
  /\ Asked(c)
  /\ eventState[EventOf[c]] = "live"
  /\ row' = [row EXCEPT ![c] = "open"]
  /\ outaged' = IF link = "up" THEN outaged ELSE outaged \cup {c}
  /\ Answer(c, "allow")
  /\ UNCHANGED <<pc, sessions, polling, relays, srs, linkVars, silent, eventState, banned, contested>>

\* An event that is not live (publishClosedReason) or whose window is over,
\* a revoked token, a node lock, an internal error.
AppDenies(c) ==
  /\ Asked(c)
  /\ Answer(c, "deny")
  /\ UNCHANGED <<pc, sessions, polling, relays, srs, linkVars, appVars, histVars>>

\* markEnded: whatever its state was.
EndRows(S) ==
  /\ row' = [c \in Conns |-> IF c \in S THEN "ended" ELSE row[c]]
  /\ silent' = silent \ S

\* Mutant: metrics of a session put it back among the open ones.
HandleMetricsReopens(c) ==
  /\ Report("metrics", c) \in wire
  /\ wire' = wire \ {Report("metrics", c)}
  /\ row' = [row EXCEPT ![c] = "open"]
  /\ UNCHANGED <<nodeVars, link, kicks, silent, eventState, banned, histVars>>

HandleMetrics(c) ==
  /\ Report("metrics", c) \in wire
  /\ wire' = wire \ {Report("metrics", c)}
  /\ silent' = silent \ {c}
  /\ UNCHANGED <<nodeVars, link, kicks, row, eventState, banned, histVars>>

HandleEnd(c) ==
  /\ Report("end", c) \in wire
  /\ wire' = wire \ {Report("end", c)}
  /\ EndRows({c})
  /\ UNCHANGED <<nodeVars, link, kicks, eventState, banned, histVars>>

\* Mutant: a session gets no time to report its first metrics.
TransientWithoutGrace(c) == pc[c] = "relaying" /\ srs[KeyOf[c]] # c

\* Steps of the node that take far less than the reconciler's 90s and 120s:
\* the gate RPC (5s), the dial of the colocated SRS, the teardown.
Transient(c) ==
  \/ pc[c] \in {"gate", "granted", "dialed", "accepted", "closing", "unregistered"}
  \/ pc[c] = "relaying" /\ srs[KeyOf[c]] # c

\* The monitor of the row's session delivers metrics every 5s.
Reporting(c) == link = "up" /\ sessions[NameOf[c]] = c /\ InSrs(NameOf[c])

\* Time passes with no metrics for an open row: 90s since the last, or 120s
\* with none at all.
FallsSilent(c) ==
  /\ row[c] = "open"
  /\ c \notin silent
  /\ ~Transient(c)
  /\ ~Reporting(c)
  /\ Report("metrics", c) \notin wire
  /\ silent' = silent \cup {c}
  /\ UNCHANGED <<nodeVars, linkVars, row, eventState, banned, histVars>>

\* Mutant: the sweep only visits nodes that are connected.
CloseGhostOnline(c) ==
  /\ NodeOnline
  /\ row[c] = "open"
  /\ c \in silent
  /\ EndRows({c})
  /\ UNCHANGED <<nodeVars, linkVars, eventState, banned, histVars>>

\* reconcileStaleSessions -> closeGhost.
CloseGhost(c) ==
  /\ row[c] = "open"
  /\ c \in silent
  /\ EndRows({c})
  /\ UNCHANGED <<nodeVars, linkVars, eventState, banned, histVars>>

App(c) ==
  \/ AppGrants(c) \/ AppDenies(c)
  \/ HandleMetrics(c) \/ HandleEnd(c) \/ FallsSilent(c) \/ CloseGhost(c)

-----------------------------------------------------------------------------
(* Events and bans.                                                        *)

WindowOpens(e) ==
  /\ eventState[e] = "scheduled"
  /\ eventState' = [eventState EXCEPT ![e] = "due"]
  /\ UNCHANGED <<nodeVars, linkVars, row, silent, banned, histVars>>

AutoStart(e) ==
  /\ eventState[e] = "due"
  /\ eventState' = [eventState EXCEPT ![e] = "live"]
  /\ UNCHANGED <<nodeVars, linkVars, row, silent, banned, histVars>>

WindowCloses(e) ==
  /\ eventState[e] = "live"
  /\ eventState' = [eventState EXCEPT ![e] = "over"]
  /\ UNCHANGED <<nodeVars, linkVars, row, silent, banned, histVars>>

OpenRows(e) == {c \in Conns : row[c] = "open" /\ EventOf[c] = e}

\* runEventLifecycle: cutEventStreams, then the status flips for good.
AutoEnd(e) ==
  /\ eventState[e] = "over"
  /\ eventState' = [eventState EXCEPT ![e] = "ended"]
  /\ IF NodeOnline
     THEN /\ Kick({NameOf[c] : c \in OpenRows(e)})
          /\ UNCHANGED <<row, silent>>
     ELSE /\ EndRows(OpenRows(e))
          /\ UNCHANGED kicks
  /\ UNCHANGED <<nodeVars, link, wire, banned, histVars>>

\* The ban is stored first; the kick follows the open row of the name.
Ban(n) ==
  /\ banned' = banned \cup {n}
  /\ IF \E c \in Conns : row[c] = "open" /\ NameOf[c] = n
     THEN Kick({n})
     ELSE UNCHANGED kicks
  /\ UNCHANGED <<nodeVars, link, wire, row, silent, eventState, histVars>>

Unban(n) ==
  /\ n \in banned
  /\ banned' = banned \ {n}
  /\ UNCHANGED <<nodeVars, linkVars, row, silent, eventState, histVars>>

-----------------------------------------------------------------------------
(* Failures.                                                               *)

\* A request the app has read before the link failed is still handled.
LoseRpcs(read) == rpc' =
  [c \in Conns |-> CASE rpc[c] = "sent" /\ c \in read -> "orphan"
                     [] rpc[c] \in {"sent", "allow", "deny"} -> "lost"
                     [] OTHER -> rpc[c]]

OpenAtOutage == {c \in Conns : row[c] = "open"}

\* The control link breaks: silently, or with a close event that takes the
\* node out of the registry (an app restart does, too).
LinkFails(to, read) ==
  /\ link = "up"
  /\ link' = to
  /\ wire' = {}
  /\ kicks' = {}
  /\ LoseRpcs(read)
  /\ outaged' = outaged \cup OpenAtOutage
  /\ UNCHANGED <<pc, sessions, polling, relays, srs, row, silent, eventState, banned, contested>>

\* The app's idle timer closes a silent connection.
IdleTimeout ==
  /\ link = "halfdead"
  /\ link' = "down"
  /\ UNCHANGED <<nodeVars, wire, kicks, row, silent, eventState, banned, histVars>>

\* The node's Hello registers it again.
Reconnect ==
  /\ link # "up"
  /\ link' = "up"
  /\ UNCHANGED <<nodeVars, wire, kicks, appVars, histVars>>

\* The media node dies, SRS with it: no connection is torn down in order.
NodeCrashes(to) ==
  /\ pc' = [c \in Conns |-> IF pc[c] = "idle" THEN "idle" ELSE "closed"]
  /\ rpc' = [c \in Conns |-> IF Asked(c) THEN "orphan" ELSE "none"]
  /\ sessions' = [n \in Names |-> None]
  /\ polling' = {}
  /\ relays' = [n \in Names |-> None]
  /\ srs' = [k \in Keys |-> None]
  /\ link' = IF link = "up" THEN to ELSE link
  /\ wire' = {}
  /\ kicks' = {}
  /\ contested' = {}
  /\ outaged' = outaged \cup OpenAtOutage
  /\ UNCHANGED <<row, silent, eventState, banned>>

Failure ==
  \/ \E to \in LinkFaults, read \in SUBSET Conns : LinkFails(to, read)
  \/ \E to \in CrashFaults : NodeCrashes(to)
  \/ IdleTimeout
  \/ Reconnect

-----------------------------------------------------------------------------
Next ==
  \/ \E c \in Conns : Gateway(c) \/ Monitor(c) \/ App(c)
  \/ \E n \in Names : KillStream(n) \/ Ban(n) \/ Unban(n)
  \/ \E e \in Events : WindowOpens(e) \/ AutoStart(e) \/ WindowCloses(e) \/ AutoEnd(e)
  \/ Failure

Spec == Init /\ [][Next]_vars
-----------------------------------------------------------------------------
(* Fairness.  The gateway's own steps, the app's handlers and timers go on  *)
(* by themselves; publishers, admins, the clock of an event and failures    *)
(* owe nothing.  SRS releases the key of an upstream the gateway closed.    *)

HandlesConn(c) ==
  \/ PolicyPasses(c) \/ PolicyCloses(c) \/ AskGate(c) \/ GateGrants(c)
  \/ GateRefuses(c) \/ DialUpstream(c) \/ SrsAccepts(c) \/ UpstreamFails(c)
  \/ Register(c) \/ DrainCloses(c) \/ Unregister(c) \/ Unpublish(c)

SrsReleases(c) == pc[c] \in {"closing", "unregistered", "closed"} /\ SrsDrops(c)

Fairness ==
  /\ \A c \in Conns :
       /\ WF_vars(HandlesConn(c)) /\ WF_vars(SrsReleases(c))
       /\ WF_vars(MonitorReports(c)) /\ WF_vars(MonitorPolls(c))
       /\ WF_vars(HandleMetrics(c)) /\ WF_vars(HandleEnd(c))
       /\ WF_vars(FallsSilent(c)) /\ WF_vars(CloseGhost(c))
  /\ \A n \in Names : WF_vars(KillStream(n))
  /\ \A e \in Events : WF_vars(AutoStart(e)) /\ WF_vars(AutoEnd(e))
  /\ WF_vars(IdleTimeout) /\ WF_vars(Reconnect)

FairSpec == Spec /\ Fairness

-----------------------------------------------------------------------------
(* Properties that hold.                                                    *)

\* Every variable has its type.
TypeOK ==
  /\ pc \in [Conns -> {"idle", "policy", "cleared", "gate", "granted", "dialed",
                       "accepted", "relaying", "closing", "unregistered", "closed"}]
  /\ rpc \in [Conns -> {"none", "sent", "orphan", "lost", "allow", "deny"}]
  /\ sessions \in [Names -> Conns \cup {None}]
  /\ polling \subseteq Conns
  /\ relays \in [Names -> Conns \cup {None}]
  /\ srs \in [Keys -> Conns \cup {None}]
  /\ link \in {"up", "halfdead", "down"}
  /\ wire \subseteq [kind : {"metrics", "end"}, of : Conns]
  /\ kicks \subseteq Names
  /\ row \in [Conns -> {"none", "open", "ended"}]
  /\ silent \subseteq Conns
  /\ eventState \in [Events -> {"scheduled", "due", "live", "over", "ended"}]
  /\ banned \subseteq Names
  /\ contested \subseteq Names
  /\ outaged \subseteq Conns

\* A publisher SRS carries was let in by the app: its row was opened before,
\* whatever was lost or late in between, and it holds its own event's key.
AuthorisedBeforeOnAir ==
  \A k \in Keys, c \in Conns :
    srs[k] = c => row[c] # "none" /\ KeyOf[c] = k

\* The session manager leaks nothing and loses nothing: a session is there
\* only while some approved publish of the name is, and an approved publish
\* that never shared its name with another one has its own session.
SessionsTrackPublishes ==
  \A n \in Names :
    /\ sessions[n] # None => GrantedOn(n) # {}
    /\ n \notin contested => \A c \in GrantedOn(n) : sessions[n] = c

\* A kick reaches every live relay that never shared its name.
SoleStreamKickable ==
  \A c \in Conns :
    pc[c] = "relaying" /\ NameOf[c] \notin contested => relays[NameOf[c]] = c

\* The app ends the row of a stream that is on the air only if the control
\* link failed during it or another publish took its name.
ReapOnlyAfterOutage ==
  \A c \in Conns :
    /\ pc[c] = "relaying"
    /\ srs[KeyOf[c]] = c
    /\ NameOf[c] \notin contested
    /\ row[c] = "ended"
    => c \in outaged

\* Whatever is lost or crashes, the row of a publish that is over is ended:
\* nothing stays on the dashboard for ever.
LostRowsClose ==
  \A c \in Conns : (pc[c] = "closed" /\ row[c] = "open") ~> (row[c] = "ended")

\* A kick on its way to a registered relay takes the publisher off the air,
\* unless the link breaks first or the name is shared.
KickTakesDown ==
  \A c \in Conns :
    (NameOf[c] \in kicks /\ relays[NameOf[c]] = c)
      ~> \/ pc[c] = "closed" /\ srs[KeyOf[c]] # c
         \/ link # "up"
         \/ NameOf[c] \in contested

\* The platform keeps the promises of Publication.
Offstage == {"idle", "policy", "cleared", "gate", "granted", "dialed"}

Phase(c) == IF srs[KeyOf[c]] = c THEN "onair"
            ELSE IF pc[c] \in Offstage THEN "offstage" ELSE "gone"

Ledger(c) == IF row[c] = "none" THEN "unlisted" ELSE row[c]

Abstract == INSTANCE Publication WITH
  Pubs <- Conns, KeyOf <- KeyOf,
  phase <- [c \in Conns |-> Phase(c)], ledger <- [c \in Conns |-> Ledger(c)]

ImplementsPublication == Abstract!Spec
=============================================================================
