------------------------------ MODULE Viewing ------------------------------
(***************************************************************************)
(* Watching a live stream: the re-encoded twins a watch is answered from    *)
(* (services/cleanstream.ts), the WHEP handler that relays an offer to the  *)
(* hosting node (api/streams/whep), and the player of a page                *)
(* (components/streams/Player.vue) with its timers and attempt token.       *)
(*                                                                          *)
(* Time is left to fairness, but for one fact: no watch request takes the   *)
(* two minutes after which a twin is idle.                                  *)
(* A stream has an active session exactly while its source is at SRS, and   *)
(* every session is hosted by one media node.                               *)
(***************************************************************************)
EXTENDS Naturals, FiniteSets

CONSTANTS
  Streams,
  First,        \* the stream the player is opened on
  Emails,       \* the streams whose name has a dot
  MayWatch,     \* the streams the account of the player may watch
  Cap,          \* CLEAN_MAX_CONCURRENT
  MaxCalls,     \* bound: things people do: switch, retry, watch from elsewhere
  MaxFaults,    \* bound: sources, nodes and connections that come and go
  None

\* One attempt of the player for its mount, and at most one for every call.
Attempts == 1 .. MaxCalls + 1
Twins == 1 .. MaxCalls + 1

\* A twin: its stream, how far its process is, and whether it was told to end.
TwinRows == [of : Streams, st : {"starting", "up", "exited", "torn", "final"}, killed : BOOLEAN]

ASSUME ViewingAssumption ==
  /\ MayWatch \cup Emails \subseteq Streams /\ First \in Streams
  /\ Cap \in Nat \ {0}
  /\ MaxCalls \in Nat /\ MaxFaults \in Nat
  /\ None \notin TwinRows

VARIABLES
  live,      \* streams with a source
  nodeUp,    \* the hosting node is connected
  variants,  \* the twin registered for a stream, or 0
  twins,     \* the ffmpeg processes, until torn down and their recording finalised
  wiping,    \* streams with a wipe of their twin's directory on its way
  junk,      \* streams whose twin's directory holds a recording
  shown,     \* props.streamName
  asks,      \* requests for playback URLs in flight, per stream
  urls,      \* the stream the URLs at hand are of, or None
  status, attempt,
  pc,        \* the peer connection, with its timers and listener
  post,      \* the WHEP request of an attempt
  mounted, calls, faults

twinVars == <<variants, twins, wiping, junk>>
worldVars == <<live, nodeUp>>
playerVars == <<shown, asks, urls, status, attempt, pc, mounted>>
vars == <<twinVars, worldVars, playerVars, post, calls, faults>>

-----------------------------------------------------------------------------
Call == calls < MaxCalls /\ calls' = calls + 1
Fault == faults < MaxFaults /\ faults' = faults + 1

NoPc == [own |-> 0, local |-> FALSE, remote |-> 0, conn |-> "new", from |-> None,
         frame |-> FALSE, listener |-> FALSE,
         watchdog |-> FALSE, frameWatchdog |-> FALSE, stray |-> FALSE, diag |-> FALSE]

Init ==
  /\ live = Streams /\ nodeUp = TRUE
  /\ variants = [s \in Streams |-> 0] /\ twins = [t \in Twins |-> None]
  /\ wiping = {} /\ junk = {}
  /\ shown = First /\ asks = [s \in Streams |-> IF s = shown THEN 1 ELSE 0]
  /\ urls = None /\ status = "loading" /\ attempt = 0 /\ pc = NoPc
  /\ post = [a \in Attempts |-> None]
  /\ mounted = TRUE /\ calls = 0 /\ faults = 0

-----------------------------------------------------------------------------
(* Twins.                                                                   *)

Running(t) == twins[t] # None /\ twins[t].st \in {"starting", "up"}
Registered == {s \in Streams : variants[s] # 0}

\* sendRecordingDelete: a frame to the node, or nothing while it is away.
Wipe(s) == wiping' = IF nodeUp THEN wiping \cup {s} ELSE wiping

NewTwin(s) == [of |-> s, st |-> "starting", killed |-> FALSE]

\* startTwin: wipe the directory, spawn, register.
StartTwin(s) ==
  LET t == CHOOSE x \in Twins : twins[x] = None IN
  /\ twins' = [twins EXCEPT ![t] = NewTwin(s)]
  /\ variants' = [variants EXCEPT ![s] = t]
  /\ Wipe(s)

Existing(s) == variants[s] # 0

\* Mutant: one twin above the cap.
FullLate == Cardinality(Registered) > Cap

Full == Cardinality(Registered) >= Cap

\* Mutant: a twin that is not up yet does not keep a second watch from spawning.
EnsureTwice(s) ==
  \/ \E t \in Twins : Running(t) /\ twins[t] = [NewTwin(s) EXCEPT !.st = "up"] /\ UNCHANGED <<variants, twins, wiping>>
  \/ (\A t \in Twins : twins[t] # [NewTwin(s) EXCEPT !.st = "up"]) /\ StartTwin(s)

\* ensureCleanStream, until it first waits.
EnsureCleanStream(s) ==
  \/ (Existing(s) \/ Full) /\ UNCHANGED <<variants, twins, wiping>>
  \/ ~Existing(s) /\ ~Full /\ StartTwin(s)

\* SRS has the twin: its source is there to be pulled.
TwinMounts(t) ==
  /\ Running(t) /\ twins[t].st = "starting" /\ twins[t].of \in live
  /\ twins' = [twins EXCEPT ![t].st = "up"]
  /\ UNCHANGED <<variants, wiping, junk, worldVars, playerVars, post, calls, faults>>

Ending(t) == twins[t].killed \/ twins[t].of \notin live

\* ffmpeg ends: killed, at the end of its source, or by itself.
TwinExits(t) ==
  /\ Running(t) /\ (Ending(t) \/ faults < MaxFaults)
  /\ faults' = IF Ending(t) THEN faults ELSE faults + 1
  /\ twins' = [twins EXCEPT ![t].st = IF @ = "up" THEN "exited" ELSE "final"]
  /\ UNCHANGED <<variants, wiping, junk, worldVars, playerVars, post, calls>>

\* SRS sees the push end, and at some time renames the recording into place.
Finalise(t) ==
  /\ twins[t] # None /\ twins[t].st \in {"exited", "torn"}
  /\ twins' = IF twins[t].st = "torn" THEN [twins EXCEPT ![t] = None]
                                     ELSE [twins EXCEPT ![t].st = "final"]
  /\ junk' = junk \cup {twins[t].of}
  /\ UNCHANGED <<variants, wiping, worldVars, playerVars, post, calls, faults>>

\* Mutant: the entry of a twin that is gone stays in the map.
UnregisterNone(t) == UNCHANGED variants

Unregister(t) ==
  variants' = [s \in Streams |-> IF variants[s] = t THEN 0 ELSE variants[s]]

\* teardown, but for the kill.
Teardown(t) == Unregister(t) /\ Wipe(twins[t].of)

\* Two seconds after the exit.
ExitTeardown(t) ==
  /\ twins[t] # None /\ twins[t].st \in {"exited", "final"}
  /\ Teardown(t)
  /\ twins' = IF twins[t].st = "final" THEN [twins EXCEPT ![t] = None]
                                      ELSE [twins EXCEPT ![t].st = "torn"]
  /\ UNCHANGED <<junk, worldVars, playerVars, post, calls, faults>>

\* Registered, and for two minutes no watch request came in.
Unwatched(t) ==
  /\ twins[t] # None /\ variants[twins[t].of] = t
  /\ \A a \in Attempts : post[a] # None => post[a].of # twins[t].of

\* Mutant: the reaper keeps a twin its source still feeds.
ReapSpares(t) ==
  /\ Unwatched(t) /\ Ending(t)
  /\ Teardown(t)
  /\ twins' = [twins EXCEPT ![t].killed = TRUE]
  /\ UNCHANGED <<junk, worldVars, playerVars, post, calls, faults>>

\* The reaper's round finds the twin of a stream idle.
Reap(t) ==
  /\ Unwatched(t)
  /\ Teardown(t)
  /\ twins' = [twins EXCEPT ![t].killed = TRUE]
  /\ UNCHANGED <<junk, worldVars, playerVars, post, calls, faults>>

\* The node removes the directory; a path that ends in .com names a file to it.
NodeWipes(s) ==
  /\ s \in wiping
  /\ wiping' = wiping \ {s} /\ junk' = IF s \in Emails THEN junk ELSE junk \ {s}
  /\ UNCHANGED <<variants, twins, worldVars, playerVars, post, calls, faults>>

\* Mutant: the node sweeps when it starts, not on a ticker.
NodeSweepsOnce ==
  /\ ~nodeUp /\ junk # {} /\ junk' = {}
  /\ UNCHANGED <<variants, twins, wiping, worldVars, playerVars, post, calls, faults>>

\* The node removes what twins left, on its own ticker.
NodeSweeps ==
  /\ junk # {} /\ junk' = {}
  /\ UNCHANGED <<variants, twins, wiping, worldVars, playerVars, post, calls, faults>>

-----------------------------------------------------------------------------
(* The WHEP handler.                                                        *)

\* An administrator, or the stream's own account.
CanWatch(s) == s \in MayWatch

\* Not the account's to watch, or not live.
Refused(s) == ~CanWatch(s) \/ s \notin live

\* getHostingNode: the node of the session, while it is registered.
Hosted == nodeUp

Posted(a, st) == post[a] # None /\ post[a].st = st

\* The handler up to its first wait; without a host it asks the local SRS.
WhepPost(a) ==
  LET s == post[a].of IN
  /\ Posted(a, "sent")
  /\ \/ /\ Refused(s)
        /\ post' = [post EXCEPT ![a].st = "bad"]
        /\ UNCHANGED <<variants, twins, wiping>>
     \/ /\ ~Refused(s) /\ ~Hosted
        /\ post' = [post EXCEPT ![a].st = "relay", ![a].via = "local"]
        /\ UNCHANGED <<variants, twins, wiping>>
     \/ /\ ~Refused(s) /\ Hosted
        /\ EnsureCleanStream(s)
        /\ post' = [post EXCEPT
             ![a].st = IF Existing(s) \/ Full THEN "relay" ELSE "mounting",
             ![a].via = IF Existing(s) \/ ~Full THEN "twin" ELSE "original"]
  /\ UNCHANGED <<junk, worldVars, playerVars, calls, faults>>

\* waitForMount: the mount is seen, or the time is up.
WaitForMount(a) ==
  /\ Posted(a, "mounting")
  /\ post' = [post EXCEPT ![a].st = "relay"]
  /\ UNCHANGED <<twinVars, worldVars, playerVars, calls, faults>>

\* wsRpcWhepRelay, or the local SRS: an answer or an error.
RelayAnswers(a) ==
  /\ Posted(a, "relay")
  /\ \/ (nodeUp \/ post[a].via = "local") /\ post' = [post EXCEPT ![a].st = "ok"]
     \/ post' = [post EXCEPT ![a].st = "bad"]
  /\ UNCHANGED <<twinVars, worldVars, playerVars, calls, faults>>

\* Another page of an administrator asks for a stream.
OtherWatch(s) ==
  /\ Call /\ s \in live /\ nodeUp
  /\ EnsureCleanStream(s)
  /\ UNCHANGED <<junk, worldVars, playerVars, post, faults>>

-----------------------------------------------------------------------------
(* The player.                                                              *)

\* Mutant: no wall-clock cap on the connection.
StartUnguarded(u) ==
  /\ u # None
  /\ attempt' = attempt + 1 /\ status' = "loading"
  /\ pc' = [NoPc EXCEPT !.own = attempt + 1]

\* startWebrtc, until it first waits: everything of the last attempt is torn down.
StartWebrtc(u) ==
  /\ u # None
  /\ attempt' = attempt + 1 /\ status' = "loading"
  /\ pc' = [NoPc EXCEPT !.own = attempt + 1, !.watchdog = TRUE]

\* Mutant: the error is shown over a connection that goes on.
FailKeeps == status' = "error" /\ UNCHANGED pc

\* fail, of the attempt at hand.
Fail == status' = "error" /\ pc' = NoPc

\* resolveUrls has its answer; the page goes on with the URLs it has.
Resolved(s) ==
  /\ mounted /\ asks[s] > 0
  /\ asks' = [asks EXCEPT ![s] = @ - 1]
  /\ \/ CanWatch(s) /\ urls' = s /\ StartWebrtc(s)
     \/ UNCHANGED urls /\ urls # None /\ StartWebrtc(urls)
     \/ UNCHANGED urls /\ urls = None /\ status' = "error" /\ UNCHANGED <<attempt, pc>>
  /\ UNCHANGED <<twinVars, worldVars, shown, post, mounted, calls, faults>>

\* Watch on another row: a new stream name, and resolveUrls.
SwitchTo(s) ==
  /\ mounted /\ s # shown /\ Call
  /\ shown' = s /\ status' = "loading"
  /\ asks' = [asks EXCEPT ![s] = @ + 1]
  /\ UNCHANGED <<twinVars, worldVars, urls, attempt, pc, post, mounted, faults>>

\* The button beside an error.
Retry ==
  /\ mounted /\ status = "error" /\ Call
  /\ StartWebrtc(urls)
  /\ UNCHANGED <<twinVars, worldVars, shown, asks, urls, post, mounted, faults>>

\* The player is closed, and its state with it; what it asked the server goes on.
Unmount ==
  /\ mounted
  /\ mounted' = FALSE /\ pc' = NoPc
  /\ asks' = [s \in Streams |-> 0] /\ urls' = None /\ status' = "closed" /\ attempt' = 0
  /\ UNCHANGED <<twinVars, worldVars, shown, post, calls, faults>>

\* createOffer and setLocalDescription; the offer is posted.
Offered ==
  /\ mounted /\ pc.own # 0 /\ ~pc.local
  /\ pc' = [pc EXCEPT !.local = TRUE]
  /\ post' = [post EXCEPT ![pc.own] = [of |-> urls, via |-> None, st |-> "sent"]]
  /\ UNCHANGED <<twinVars, worldVars, shown, asks, urls, status, attempt, mounted, calls, faults>>

\* The answer of attempt a is applied to the connection at hand, whose ever it is.
Answered(a) ==
  /\ post[a] # None /\ post[a].st \in {"ok", "bad"}
  /\ post' = [post EXCEPT ![a] = None]
  /\ LET fits == post[a].st = "ok" /\ pc.own # 0 /\ pc.local /\ pc.remote = 0 IN
     \/ /\ fits
        /\ pc' = [pc EXCEPT !.remote = a, !.from = [of |-> post[a].of, via |-> post[a].via]]
        /\ UNCHANGED status
     \/ ~fits /\ a = attempt /\ Fail
     \/ ~fits /\ a # attempt /\ UNCHANGED <<status, pc>>
  /\ UNCHANGED <<twinVars, worldVars, shown, asks, urls, attempt, mounted, calls, faults>>

\* The answer belongs to the connection's own offer.
Matched == pc.own # 0 /\ pc.remote = pc.own

Wait == [pc EXCEPT !.conn = "connected", !.watchdog = FALSE, !.listener = TRUE,
                   !.frameWatchdog = TRUE, !.stray = @ \/ pc.frameWatchdog]

\* Mutant: playing as soon as the connection is.
ConnectedPlays ==
  /\ mounted /\ Matched /\ pc.conn # "connected"
  /\ pc' = Wait /\ status' = "playing"
  /\ UNCHANGED <<twinVars, worldVars, shown, asks, urls, attempt, post, mounted, calls, faults>>

\* connected: wait for a frame, unless one is there already.
Connected ==
  /\ mounted /\ Matched /\ pc.conn # "connected"
  /\ \/ /\ pc.frame /\ status' = "playing"
        /\ pc' = [pc EXCEPT !.conn = "connected", !.watchdog = FALSE]
     \/ ~pc.frame /\ pc' = Wait /\ UNCHANGED status
  /\ UNCHANGED <<twinVars, worldVars, shown, asks, urls, attempt, post, mounted, calls, faults>>

\* disconnected: the handler ignores it.
Disconnected ==
  /\ mounted /\ pc.conn = "connected" /\ Fault
  /\ pc' = [pc EXCEPT !.conn = "disconnected"]
  /\ UNCHANGED <<twinVars, worldVars, shown, asks, urls, status, attempt, post, mounted, calls>>

\* failed.
ConnFailed ==
  /\ mounted /\ pc.remote # 0 /\ Fail
  /\ UNCHANGED <<twinVars, worldVars, shown, asks, urls, attempt, post, mounted, calls, faults>>

\* What SRS has to send to a watcher answered from `from`.
HasMedia(from) ==
  \/ from.via = "twin" /\ \E t \in Twins :
        Running(t) /\ twins[t].of = from.of /\ twins[t].st = "up"
  \/ from.via = "original" /\ from.of \in live

\* The first decoded frame gives the video its size.
FirstFrame ==
  /\ mounted /\ Matched /\ ~pc.frame /\ HasMedia(pc.from)
  /\ \/ /\ pc.listener /\ status' = "playing"
        /\ pc' = [pc EXCEPT !.frame = TRUE, !.frameWatchdog = FALSE]
     \/ ~pc.listener /\ pc' = [pc EXCEPT !.frame = TRUE] /\ UNCHANGED status
  /\ UNCHANGED <<twinVars, worldVars, shown, asks, urls, attempt, post, mounted, calls, faults>>

\* The cap on the connection.
Watchdog ==
  /\ mounted /\ pc.watchdog /\ Fail
  /\ UNCHANGED <<twinVars, worldVars, shown, asks, urls, attempt, post, mounted, calls, faults>>

\* The cap on the first frame; a second connected leaves the first timer armed.
FrameWatchdog ==
  /\ mounted
  /\ \/ pc.frameWatchdog /\ pc' = [pc EXCEPT !.frameWatchdog = FALSE, !.diag = TRUE]
     \/ pc.stray /\ pc' = [pc EXCEPT !.stray = FALSE, !.diag = TRUE]
  /\ UNCHANGED <<twinVars, worldVars, shown, asks, urls, status, attempt, post, mounted, calls, faults>>

\* getStats has answered.
StatsRead ==
  /\ mounted /\ pc.diag /\ Fail
  /\ UNCHANGED <<twinVars, worldVars, shown, asks, urls, attempt, post, mounted, calls, faults>>

-----------------------------------------------------------------------------
(* Sources and the node.                                                    *)

SourceEnds(s) ==
  /\ s \in live /\ Fault /\ live' = live \ {s}
  /\ UNCHANGED <<twinVars, nodeUp, playerVars, post, calls>>

SourceReturns(s) ==
  /\ s \notin live /\ live' = live \cup {s}
  /\ UNCHANGED <<twinVars, nodeUp, playerVars, post, calls, faults>>

NodeGone ==
  /\ nodeUp /\ Fault /\ nodeUp' = FALSE
  /\ wiping' = {}
  /\ UNCHANGED <<variants, twins, junk, live, playerVars, post, calls>>

NodeBack ==
  /\ ~nodeUp /\ nodeUp' = TRUE
  /\ UNCHANGED <<twinVars, live, playerVars, post, calls, faults>>

-----------------------------------------------------------------------------
Next ==
  \/ \E t \in Twins :
       TwinMounts(t) \/ TwinExits(t) \/ Finalise(t) \/ ExitTeardown(t) \/ Reap(t)
  \/ \E s \in Streams :
       NodeWipes(s) \/ OtherWatch(s) \/ Resolved(s) \/ SwitchTo(s) \/ SourceEnds(s) \/ SourceReturns(s)
  \/ \E a \in Attempts : WhepPost(a) \/ WaitForMount(a) \/ RelayAnswers(a) \/ Answered(a)
  \/ Retry \/ Unmount \/ Offered
  \/ Connected \/ Disconnected \/ ConnFailed \/ FirstFrame
  \/ Watchdog \/ FrameWatchdog \/ StatsRead
  \/ NodeGone \/ NodeBack \/ NodeSweeps

Spec == Init /\ [][Next]_vars

\* Processes end, timers fire, requests are answered; sources, nodes, people
\* and the connection of the browser promise nothing.
FairSpec ==
  /\ Spec
  /\ \A t \in Twins :
       /\ WF_vars(Running(t) /\ Ending(t) /\ TwinExits(t))
       /\ WF_vars(Finalise(t)) /\ WF_vars(ExitTeardown(t))
       /\ WF_vars(Reap(t))
  /\ \A s \in Streams : WF_vars(Resolved(s))
  /\ \A a \in Attempts :
       WF_vars(WhepPost(a)) /\ WF_vars(WaitForMount(a)) /\ WF_vars(RelayAnswers(a)) /\ WF_vars(Answered(a))
  /\ WF_vars(NodeSweeps) /\ WF_vars(Offered) /\ WF_vars(Watchdog) /\ WF_vars(FrameWatchdog) /\ WF_vars(StatsRead)

-----------------------------------------------------------------------------
(* Properties.                                                              *)

\* A registered twin is there, and of its stream; a connection is of the
\* attempt at hand (Player.vue:28-38, cleanstream.ts:54-61).
TypeOK ==
  /\ live \subseteq Streams /\ nodeUp \in BOOLEAN
  /\ variants \in [Streams -> Twins \cup {0}]
  /\ \A s \in Registered : twins[variants[s]] # None /\ twins[variants[s]].of = s
  /\ wiping \cup junk \subseteq Streams
  /\ shown \in Streams /\ urls \in Streams \cup {None}
  /\ asks \in [Streams -> 0 .. MaxCalls + 1]
  /\ status \in {"loading", "playing", "error", "closed"}
  /\ attempt \in 0 .. MaxCalls + 1 /\ pc.own \in {0, attempt}
  /\ (pc.own = 0 => pc = NoPc)
  /\ mounted \in BOOLEAN /\ calls \in 0 .. MaxCalls /\ faults \in 0 .. MaxFaults

\* No transcoder goes on that nobody can find any more: one that runs and was
\* not told to stop is the one registered for its stream (cleanstream.ts:131-134).
NoOrphanTwin ==
  \A t \in Twins : Running(t) /\ ~twins[t].killed => variants[twins[t].of] = t

\* The transcoders that are not on their way out never outnumber the cap
\* (cleanstream.ts:15, 137).
CapHolds == Cardinality({t \in Twins : Running(t) /\ ~twins[t].killed}) <= Cap

\* A twin nobody asks for any more ends, and is forgotten (cleanstream.ts:13-15).
TwinsEnd == \A t \in Twins : twins[t] # None ~> twins[t] = None

\* When nobody watches any more the disk of the node is free of recordings of
\* twins, whichever of wipe and rename comes first (main.go:76-88,
\* cleanstream.ts:152-163, 205-210).
RestsClean == <>[](junk = {})

\* Playing is honest: a frame of the attempt at hand was decoded, on the
\* connection that is open (Player.vue:14-17).
HonestPlaying == mounted /\ status = "playing" => pc.own = attempt /\ pc.frame

\* An attempt given up stays given up: nothing late turns an error into a
\* picture (Player.vue:12, 175-180).
ErrorIsFinal == [][status = "error" => status' # "playing"]_vars

\* The badge does not stay at Connecting: a frame or an error ends it, or the
\* player is closed (Player.vue:8-12).
PlayerSettles == (mounted /\ status = "loading") ~> (~mounted \/ status # "loading")

\* Twins are found again and within the cap, and the badge is honest
\* (cleanstream.ts:131-137, Player.vue:14-17).
ViewingInv == TypeOK /\ NoOrphanTwin /\ CapHolds /\ HonestPlaying
=============================================================================
