--------------------------- MODULE Pages_proofs ---------------------------
(***************************************************************************)
(* Proofs about the pages that follow the app live, for any constants.  Of  *)
(* Viewing: a transcoder can be found as long as it runs, the cap is kept,  *)
(* and the badge of the player is honest.  Of LiveBoard: one connection per  *)
(* administrator is sent to, and a page shows what the app has.             *)
(***************************************************************************)
EXTENDS Viewing, LiveBoard, FiniteSetTheorems, TLAPS

PostRows == [of : Streams, via : {None, "local", "twin", "original"},
             st : {"sent", "mounting", "relay", "ok", "bad"}]
Sources == [of : Streams, via : {None, "local", "twin", "original"}] \cup {None}
PcRows == [own : Nat, local : BOOLEAN, remote : Nat,
           conn : {"new", "connected", "disconnected"}, from : Sources, frame : BOOLEAN,
           listener : BOOLEAN, watchdog : BOOLEAN, frameWatchdog : BOOLEAN,
           stray : BOOLEAN, diag : BOOLEAN]

\* The types of the server's side.
ServerShape ==
  /\ live \subseteq Streams /\ nodeUp \in BOOLEAN
  /\ variants \in [Streams -> Twins \cup {0}]
  /\ twins \in [Twins -> TwinRows \cup {None}]
  /\ wiping \subseteq Streams /\ junk \subseteq Streams
  /\ calls \in 0 .. MaxCalls /\ faults \in 0 .. MaxFaults

\* The types of the player's side.
PlayerShape ==
  /\ shown \in Streams /\ urls \in Streams \cup {None}
  /\ asks \in [Streams -> Nat]
  /\ status \in {"loading", "playing", "error", "closed"}
  /\ attempt \in Nat /\ mounted \in BOOLEAN
  /\ pc \in PcRows
  /\ pc.own \in {0, attempt}
  /\ (pc.own = 0 => pc = NoPc)
  /\ post \in [Attempts -> PostRows \cup {None}]

\* The twin of the map is there, of its stream and not torn down, and a twin that
\* is to go on is the one of the map.
TwinsFound ==
  /\ \A s \in Registered : /\ twins[variants[s]] # None /\ twins[variants[s]].of = s
                           /\ twins[variants[s]].st # "torn"
  /\ NoOrphanTwin

\* The map of twins never outgrows the cap.
MapWithinCap == IsFiniteSet(Registered) /\ Cardinality(Registered) <= Cap

\* A connection has URLs, one that shows an error is none, and one that shows a
\* picture has decoded a frame.
Badge ==
  /\ pc.own # 0 => urls # None
  /\ status = "error" => pc.own = 0
  /\ HonestPlaying

\* What can still become a twin: requests for URLs, then a connection without
\* its offer, then an offer the server has not looked at.  Each has its call.
Pending == {x \in Streams \X (1 .. MaxCalls + 1) : x[2] <= asks[x[1]]}
Opening == IF pc.own # 0 /\ ~pc.local THEN 1 ELSE 0
Sent == {a \in Attempts : Posted(a, "sent")}
Spawned == {t \in Twins : twins[t] # None}

Budget ==
  /\ IsFiniteSet(Pending) /\ \A s \in Streams : asks[s] <= calls + 1
  /\ attempt + Cardinality(Pending) <= calls + 1
  /\ Cardinality(Spawned) + Cardinality(Sent) + Opening + Cardinality(Pending) <= calls + 1

IInv ==
  /\ ServerShape /\ PlayerShape
  /\ TwinsFound /\ MapWithinCap
  /\ Badge /\ Budget

-----------------------------------------------------------------------------
(* Finite sets of this model.                                               *)

LEMMA FiniteSlots ==
  /\ IsFiniteSet(Twins) /\ Cardinality(Twins) = MaxCalls + 1
  /\ IsFiniteSet(Attempts) /\ IsFiniteSet(Spawned) /\ IsFiniteSet(Sent)
  /\ Cardinality(Spawned) \in Nat /\ Cardinality(Sent) \in Nat
<1>1. MaxCalls + 1 \in Nat /\ MaxCalls \in Nat
  BY ViewingAssumption
<1>2. IsFiniteSet(Twins) /\ Cardinality(Twins) = MaxCalls + 1
  BY <1>1, FS_Interval DEF Twins
<1>3. IsFiniteSet(Attempts)
  BY <1>1, FS_Interval DEF Attempts
<1>4. Spawned \subseteq Twins /\ Sent \subseteq Attempts
  BY DEF Spawned, Sent
<1>5. IsFiniteSet(Spawned) /\ IsFiniteSet(Sent)
  BY <1>2, <1>3, <1>4, FS_Subset
<1>6. QED
  BY <1>2, <1>3, <1>5, FS_CardinalityType

\* Whoever may start a twin finds a slot for it.
LEMMA FreeSlot ==
  ASSUME ServerShape, PlayerShape, Budget, calls < MaxCalls \/ Sent # {}
  PROVE  \E t \in Twins : twins[t] = None
<1>1. /\ MaxCalls \in Nat /\ calls \in 0 .. MaxCalls /\ Opening \in {0, 1}
      /\ Cardinality(Pending) \in Nat
  BY ViewingAssumption, FS_CardinalityType DEF ServerShape, Opening, Budget
<1>2. Sent # {} => Cardinality(Sent) # 0
  BY FiniteSlots, FS_EmptySet
<1>3. Cardinality(Spawned) + Cardinality(Sent) + Opening + Cardinality(Pending) <= calls + 1
  BY DEF Budget
<1>4. Cardinality(Spawned) < MaxCalls + 1
  <2> DEFINE a == Cardinality(Spawned)
             b == Cardinality(Sent)
             c == Cardinality(Pending)
  <2>1. a \in Nat /\ b \in Nat
    BY FiniteSlots
  <2>2. calls < MaxCalls \/ b # 0
    BY <1>2
  <2>3. c \in Nat /\ a + b + Opening + c <= calls + 1
    BY <1>1, <1>3
  <2> HIDE DEF a, b, c
  <2>4. a < MaxCalls + 1
    BY <1>1, <2>1, <2>2, <2>3
  <2>5. QED
    BY <2>4 DEF a
<1>5. Spawned # Twins
  BY <1>4, FiniteSlots, ViewingAssumption
<1>6. QED
  BY <1>5 DEF Spawned

-----------------------------------------------------------------------------
(* Steps.                                                                   *)

\* A twin starts in a free slot.
Spawns ==
  \E s \in Streams, t \in Twins :
    /\ twins[t] = None /\ ~Existing(s) /\ ~Full
    /\ twins' = [twins EXCEPT ![t] = NewTwin(s)]
    /\ variants' = [variants EXCEPT ![s] = t]

\* Steps of the life of a twin that is there.
Ages(t) == TwinMounts(t) \/ TwinExits(t) \/ Finalise(t) \/ ExitTeardown(t) \/ Reap(t)

LEMMA EnsureStep ==
  ASSUME ServerShape, PlayerShape, Budget, calls < MaxCalls \/ Sent # {},
         NEW s \in Streams, EnsureCleanStream(s)
  PROVE  UNCHANGED <<variants, twins>> \/ Spawns
<1>1. CASE UNCHANGED <<variants, twins, wiping>>
  BY <1>1
<1>2. CASE ~Existing(s) /\ ~Full /\ StartTwin(s)
  <2> DEFINE t == CHOOSE x \in Twins : twins[x] = None
  <2>1. t \in Twins /\ twins[t] = None
    BY FreeSlot
  <2>2. /\ twins' = [twins EXCEPT ![t] = NewTwin(s)]
        /\ variants' = [variants EXCEPT ![s] = t]
    BY <1>2 DEF StartTwin
  <2>3. QED
    BY <1>2, <2>1, <2>2 DEF Spawns
<1>3. QED
  BY <1>1, <1>2 DEF EnsureCleanStream

\* What any step does to the twins.
LEMMA TwinSteps ==
  ASSUME ServerShape, PlayerShape, Budget, [Next]_vars
  PROVE  \/ UNCHANGED <<variants, twins>>
         \/ Spawns
         \/ \E t \in Twins : twins[t] # None /\ Ages(t)
<1>1. ASSUME NEW a \in Attempts, WhepPost(a)
      PROVE  UNCHANGED <<variants, twins>> \/ Spawns
  <2>1. post[a].of \in Streams /\ Sent # {}
    BY <1>1 DEF PlayerShape, WhepPost, Posted, PostRows, Sent
  <2>2. UNCHANGED <<variants, twins>> \/ EnsureCleanStream(post[a].of)
    BY <1>1 DEF WhepPost
  <2>3. QED
    BY <2>1, <2>2, EnsureStep
<1>2. ASSUME NEW s \in Streams, OtherWatch(s)
      PROVE  UNCHANGED <<variants, twins>> \/ Spawns
  BY <1>2, EnsureStep DEF OtherWatch, Call
<1>3. ASSUME NEW t \in Twins, Ages(t) PROVE twins[t] # None
  BY <1>3 DEF Ages, TwinMounts, TwinExits, Running, Finalise, ExitTeardown, Reap, Unwatched
<1>4. ASSUME NEW s \in Streams,
             \/ NodeWipes(s) \/ Resolved(s) \/ SwitchTo(s) \/ SourceEnds(s) \/ SourceReturns(s)
      PROVE  UNCHANGED <<variants, twins>>
  BY <1>4 DEF NodeWipes, Resolved, SwitchTo, SourceEnds, SourceReturns, twinVars
<1>5. ASSUME NEW a \in Attempts, WaitForMount(a) \/ RelayAnswers(a) \/ Answered(a)
      PROVE  UNCHANGED <<variants, twins>>
  BY <1>5 DEF WaitForMount, RelayAnswers, Answered, twinVars
<1>6. ASSUME \/ Retry \/ Unmount \/ Offered
             \/ Connected \/ Disconnected \/ ConnFailed \/ FirstFrame
             \/ Watchdog \/ FrameWatchdog \/ StatsRead
             \/ NodeGone \/ NodeBack \/ NodeSweeps
      PROVE  UNCHANGED <<variants, twins>>
  BY <1>6 DEF Retry, Unmount, Offered, Connected, Disconnected, ConnFailed, FirstFrame,
              Watchdog, FrameWatchdog, StatsRead, NodeGone, NodeBack, NodeSweeps, twinVars
<1>7. CASE UNCHANGED vars
  BY <1>7 DEF vars, twinVars
<1>8. QED
  BY <1>1, <1>2, <1>3, <1>4, <1>5, <1>6, <1>7 DEF Next, Ages

-----------------------------------------------------------------------------
(* Types.                                                                   *)

LEMMA SpawnShape ==
  ASSUME ServerShape, Spawns
  PROVE  variants' \in [Streams -> Twins \cup {0}] /\ twins' \in [Twins -> TwinRows \cup {None}]
<1>1. PICK s \in Streams, t \in Twins :
        /\ twins' = [twins EXCEPT ![t] = NewTwin(s)]
        /\ variants' = [variants EXCEPT ![s] = t]
  BY DEF Spawns
<1>2. NewTwin(s) \in TwinRows
  BY DEF NewTwin, TwinRows
<1>3. QED
  BY <1>1, <1>2 DEF ServerShape

LEMMA AgedShape ==
  ASSUME ServerShape, NEW t \in Twins, twins[t] # None, Ages(t)
  PROVE  variants' \in [Streams -> Twins \cup {0}] /\ twins' \in [Twins -> TwinRows \cup {None}]
<1> USE DEF ServerShape
<1>1. twins[t] \in TwinRows
  OBVIOUS
<1>2. CASE TwinMounts(t)
  BY <1>1, <1>2 DEF TwinMounts, TwinRows
<1>3. CASE TwinExits(t)
  BY <1>1, <1>3 DEF TwinExits, TwinRows
<1>4. CASE Finalise(t)
  BY <1>1, <1>4 DEF Finalise, TwinRows
<1>5. CASE ExitTeardown(t)
  BY <1>1, <1>5 DEF ExitTeardown, Teardown, Unregister, TwinRows
<1>6. CASE Reap(t)
  BY <1>1, <1>6 DEF Reap, Teardown, Unregister, TwinRows
<1>7. QED
  BY <1>2, <1>3, <1>4, <1>5, <1>6 DEF Ages

\* The twin of a step is a twin of a stream.
LEMMA TwinOf ==
  ASSUME ServerShape, NEW t \in Twins, twins[t] # None
  PROVE  twins[t] \in TwinRows /\ twins[t].of \in Streams
BY DEF ServerShape, TwinRows

LEMMA NodeUpStep ==
  ASSUME ServerShape, [Next]_vars
  PROVE  nodeUp' \in BOOLEAN
<1>1. nodeUp \in BOOLEAN
  BY DEF ServerShape
<1>2. nodeUp' = nodeUp \/ NodeGone \/ NodeBack
  BY DEF Next, vars, worldVars, TwinMounts, TwinExits, Finalise, ExitTeardown, Reap,
     NodeWipes, OtherWatch, Resolved, SwitchTo, SourceEnds, SourceReturns,
     WhepPost, WaitForMount, RelayAnswers, Answered, Retry, Unmount, Offered, Connected,
     Disconnected, ConnFailed, FirstFrame, Watchdog, FrameWatchdog, StatsRead, NodeSweeps
<1>3. NodeGone \/ NodeBack => nodeUp' \in {TRUE, FALSE}
  BY DEF NodeGone, NodeBack
<1>4. QED
  BY <1>1, <1>2, <1>3

LEMMA ServerShapeStep ==
  ASSUME ServerShape, PlayerShape, Budget, [Next]_vars
  PROVE  ServerShape'
<1> DEFINE Rest == /\ live' \subseteq Streams
                   /\ wiping' \subseteq Streams /\ junk' \subseteq Streams
                   /\ calls' \in 0 .. MaxCalls /\ faults' \in 0 .. MaxFaults
<1>1. variants' \in [Streams -> Twins \cup {0}] /\ twins' \in [Twins -> TwinRows \cup {None}]
  <2>1. CASE UNCHANGED <<variants, twins>>
    BY <2>1 DEF ServerShape
  <2>2. QED
    BY <2>1, TwinSteps, SpawnShape, AgedShape
<1>2. /\ live \subseteq Streams
      /\ wiping \subseteq Streams /\ junk \subseteq Streams
      /\ calls \in 0 .. MaxCalls /\ faults \in 0 .. MaxFaults
      /\ MaxCalls \in Nat /\ MaxFaults \in Nat
  BY ViewingAssumption DEF ServerShape
<1>3. \A s \in Streams : EnsureCleanStream(s) => wiping' \subseteq Streams
  BY <1>2 DEF EnsureCleanStream, StartTwin, Wipe
<1>5. ASSUME NEW t \in Twins, Ages(t) PROVE twins[t] # None
  BY <1>5 DEF Ages, TwinMounts, TwinExits, Running, Finalise, ExitTeardown, Reap, Unwatched
<1>4. ASSUME NEW t \in Twins, Ages(t) PROVE Rest
  BY <1>2, <1>4, <1>5, TwinOf DEF Ages, TwinMounts, TwinExits, Finalise, ExitTeardown, Reap,
     Teardown, Wipe, worldVars
<1>6. ASSUME NEW a \in Attempts, WhepPost(a) PROVE Rest
  <2>1. post[a].of \in Streams
    BY <1>6 DEF PlayerShape, WhepPost, Posted, PostRows
  <2>2. wiping' = wiping \/ EnsureCleanStream(post[a].of)
    BY <1>6 DEF WhepPost
  <2>3. QED
    BY <1>2, <1>3, <1>6, <2>1, <2>2 DEF WhepPost, worldVars
<1>7. ASSUME NEW s \in Streams,
             \/ NodeWipes(s) \/ OtherWatch(s) \/ Resolved(s) \/ SwitchTo(s)
             \/ SourceEnds(s) \/ SourceReturns(s)
      PROVE  Rest
  BY <1>2, <1>3, <1>7 DEF NodeWipes, OtherWatch, Resolved, SwitchTo, SourceEnds, SourceReturns,
     twinVars, worldVars, Call, Fault
<1>8. ASSUME NEW a \in Attempts, WaitForMount(a) \/ RelayAnswers(a) \/ Answered(a)
      PROVE  Rest
  BY <1>2, <1>8 DEF WaitForMount, RelayAnswers, Answered, twinVars, worldVars
<1>9. ASSUME \/ Retry \/ Unmount \/ Offered
             \/ Connected \/ Disconnected \/ ConnFailed \/ FirstFrame
             \/ Watchdog \/ FrameWatchdog \/ StatsRead
             \/ NodeGone \/ NodeBack \/ NodeSweeps
      PROVE  Rest
  <2>1. Retry \/ Unmount \/ Offered \/ Connected \/ Disconnected => Rest
    BY <1>2 DEF Retry, Unmount, Offered, Connected, Disconnected, twinVars, worldVars,
       Call, Fault
  <2>2. ConnFailed \/ FirstFrame \/ Watchdog \/ FrameWatchdog \/ StatsRead => Rest
    BY <1>2 DEF ConnFailed, FirstFrame, Watchdog, FrameWatchdog, StatsRead, twinVars,
       worldVars
  <2>3. NodeGone \/ NodeBack \/ NodeSweeps => Rest
    BY <1>2 DEF NodeGone, NodeBack, NodeSweeps, twinVars, worldVars, Fault
  <2>4. QED
    BY <1>9, <2>1, <2>2, <2>3
<1>10. UNCHANGED vars => Rest
  BY <1>2 DEF vars, twinVars, worldVars
<1> HIDE DEF Rest
<1>11. Rest
  BY <1>4, <1>6, <1>7, <1>8, <1>9, <1>10 DEF Next, Ages
<1>12. QED
  BY <1>1, <1>11, NodeUpStep DEF ServerShape, Rest

-----------------------------------------------------------------------------
(* The player.                                                              *)

\* A new connection of the attempt that begins.
LEMMA FreshPc ==
  ASSUME NEW a \in Nat
  PROVE  /\ NoPc \in PcRows
         /\ [NoPc EXCEPT !.own = a, !.watchdog = TRUE] \in PcRows
         /\ [NoPc EXCEPT !.own = a, !.watchdog = TRUE].own = a
BY DEF NoPc, PcRows, Sources

\* What a step does to the player that leaves the connection as it is, or
\* moves it on without changing whose it is.
Goes ==
  /\ pc' \in PcRows /\ pc.own # 0
  /\ pc'.own = pc.own /\ (pc.local => pc'.local) /\ (pc.frame => pc'.frame)
  /\ status' = status \/ (status' = "playing" /\ pc'.frame)
  /\ UNCHANGED <<asks, urls, attempt, mounted, shown>>

LEMMA GoesOn ==
  ASSUME ServerShape, PlayerShape,
         \/ Connected \/ Disconnected \/ FirstFrame \/ FrameWatchdog \/ Offered
  PROVE  Goes
<1>1. pc \in PcRows /\ attempt \in Nat
  BY DEF PlayerShape
<1>2. pc.own = 0 => ~pc.frameWatchdog /\ ~pc.stray /\ pc.conn = "new"
  BY DEF PlayerShape, NoPc
<1>3. CASE Connected
  BY <1>1, <1>3 DEF Connected, Matched, Wait, Goes, PcRows, playerVars
<1>4. CASE Disconnected
  BY <1>1, <1>2, <1>4 DEF Disconnected, Goes, PcRows
<1>5. CASE FirstFrame
  BY <1>1, <1>5 DEF FirstFrame, Matched, Goes, PcRows
<1>6. CASE FrameWatchdog
  BY <1>1, <1>2, <1>6 DEF FrameWatchdog, Goes, PcRows
<1>7. CASE Offered
  BY <1>1, <1>7 DEF Offered, Goes, PcRows
<1>8. QED
  BY <1>3, <1>4, <1>5, <1>6, <1>7

\* Giving up.
Fails == Fail /\ UNCHANGED <<asks, urls, attempt, mounted, shown>>

\* The answer of an attempt moves the connection on, ends it, or finds none.
LEMMA AnsweredStep ==
  ASSUME ServerShape, PlayerShape, NEW a \in Attempts, Answered(a)
  PROVE  \/ Goes /\ pc.local /\ status' = status
         \/ Fails
         \/ UNCHANGED playerVars
<1>1. pc \in PcRows /\ post[a] \in PostRows /\ a \in Nat
  BY ViewingAssumption DEF PlayerShape, Answered, Attempts
<1>2. [of |-> post[a].of, via |-> post[a].via] \in Sources
  BY <1>1 DEF PostRows, Sources
<1>3. ASSUME post[a].st = "ok" /\ pc.own # 0 /\ pc.local /\ pc.remote = 0,
             pc' = [pc EXCEPT !.remote = a, !.from = [of |-> post[a].of, via |-> post[a].via]],
             UNCHANGED status
      PROVE  Goes /\ pc.local /\ status' = status
  <2> DEFINE src == [of |-> post[a].of, via |-> post[a].via]
  <2> HIDE DEF src
  <2>1. pc' = [pc EXCEPT !.remote = a, !.from = src] /\ src \in Sources
    BY <1>2, <1>3 DEF src
  <2>2. pc' \in PcRows /\ pc'.own = pc.own /\ pc'.local = pc.local /\ pc'.frame = pc.frame
    BY <1>1, <2>1 DEF PcRows
  <2>3. QED
    BY <1>3, <2>2 DEF Goes, Answered
<1>4. QED
  BY <1>3 DEF Answered, Fails, playerVars

\* A new attempt, for the URLs u.
Starts(u) ==
  /\ u # None /\ attempt' = attempt + 1 /\ status' = "loading"
  /\ pc' = [NoPc EXCEPT !.own = attempt + 1, !.watchdog = TRUE]

\* What any step does to the player.
LEMMA PlayerSteps ==
  ASSUME ServerShape, PlayerShape, [Next]_vars
  PROVE  \/ UNCHANGED playerVars
         \/ Goes \/ Fails
         \/ \E s \in Streams : Resolved(s) \/ SwitchTo(s)
         \/ Retry \/ Unmount
<1>1. Connected \/ Disconnected \/ FirstFrame \/ FrameWatchdog \/ Offered => Goes
  BY GoesOn
<1>2. \A a \in Attempts : Answered(a) => Goes \/ Fails \/ UNCHANGED playerVars
  BY AnsweredStep
<1>3. ConnFailed \/ Watchdog \/ StatsRead => Fails
  BY DEF ConnFailed, Watchdog, StatsRead, Fails
<1>4. \A t \in Twins : TwinMounts(t) \/ TwinExits(t) \/ Finalise(t) \/ ExitTeardown(t) \/ Reap(t)
                       => UNCHANGED playerVars
  BY DEF TwinMounts, TwinExits, Finalise, ExitTeardown, Reap
<1>5. \A s \in Streams : NodeWipes(s) \/ OtherWatch(s) \/ SourceEnds(s) \/ SourceReturns(s)
                         => UNCHANGED playerVars
  BY DEF NodeWipes, OtherWatch, SourceEnds, SourceReturns
<1>6. \A a \in Attempts : WhepPost(a) \/ WaitForMount(a) \/ RelayAnswers(a)
                          => UNCHANGED playerVars
  BY DEF WhepPost, WaitForMount, RelayAnswers
<1>7. NodeGone \/ NodeBack \/ NodeSweeps => UNCHANGED playerVars
  BY DEF NodeGone, NodeBack, NodeSweeps
<1>8. UNCHANGED vars => UNCHANGED playerVars
  BY DEF vars
<1>9. QED
  BY <1>1, <1>2, <1>3, <1>4, <1>5, <1>6, <1>7, <1>8 DEF Next

LEMMA PostShapeStep ==
  ASSUME ServerShape, PlayerShape, pc.own # 0 => urls # None, [Next]_vars
  PROVE  post' \in [Attempts -> PostRows \cup {None}]
<1>1. post \in [Attempts -> PostRows \cup {None}]
  BY DEF PlayerShape
<1>2. ASSUME NEW a \in Attempts, WhepPost(a) PROVE post' \in [Attempts -> PostRows \cup {None}]
  <2>1. post[a] \in PostRows
    BY <1>1, <1>2 DEF WhepPost, Posted
  <2>2. PICK st \in {"bad", "relay", "mounting"}, via \in {post[a].via, "local", "twin", "original"} :
          post' = [post EXCEPT ![a].st = st, ![a].via = via]
    <3>1. CASE post' = [post EXCEPT ![a].st = "bad"]
      BY <1>1, <2>1, <3>1 DEF PostRows
    <3>2. CASE ~(post' = [post EXCEPT ![a].st = "bad"])
      BY <1>2, <3>2 DEF WhepPost
    <3>3. QED
      BY <3>1, <3>2
  <2>3. QED
    BY <1>1, <2>1, <2>2 DEF PostRows
<1>3. ASSUME NEW a \in Attempts, WaitForMount(a) \/ RelayAnswers(a) \/ Answered(a)
      PROVE  post' \in [Attempts -> PostRows \cup {None}]
  <2>1. WaitForMount(a) \/ RelayAnswers(a) => post[a] \in PostRows
    BY <1>1 DEF WaitForMount, RelayAnswers, Posted
  <2>2. WaitForMount(a) => post' \in [Attempts -> PostRows \cup {None}]
    BY <1>1, <2>1 DEF WaitForMount, PostRows
  <2>3. RelayAnswers(a) => post' \in [Attempts -> PostRows \cup {None}]
    BY <1>1, <2>1 DEF RelayAnswers, PostRows
  <2>4. Answered(a) => post' \in [Attempts -> PostRows \cup {None}]
    BY <1>1 DEF Answered
  <2>5. QED
    BY <1>3, <2>2, <2>3, <2>4
<1>4. Offered => post' \in [Attempts -> PostRows \cup {None}]
  <2> DEFINE new == [of |-> urls, via |-> None, st |-> "sent"]
  <2>1. Offered => new \in PostRows /\ post' = [post EXCEPT ![pc.own] = new]
    BY DEF Offered, PostRows, PlayerShape
  <2> HIDE DEF new
  <2>2. QED
    BY <1>1, <2>1
<1>5. \A t \in Twins : TwinMounts(t) \/ TwinExits(t) \/ Finalise(t) \/ ExitTeardown(t) \/ Reap(t)
                       => UNCHANGED post
  BY DEF TwinMounts, TwinExits, Finalise, ExitTeardown, Reap
<1>6. \A s \in Streams : \/ NodeWipes(s) \/ OtherWatch(s) \/ Resolved(s) \/ SwitchTo(s)
                         \/ SourceEnds(s) \/ SourceReturns(s)
                         => UNCHANGED post
  BY DEF NodeWipes, OtherWatch, Resolved, SwitchTo, SourceEnds, SourceReturns
<1>7. \/ Retry \/ Unmount \/ Connected \/ Disconnected \/ ConnFailed \/ FirstFrame
      \/ Watchdog \/ FrameWatchdog \/ StatsRead \/ NodeGone \/ NodeBack \/ NodeSweeps
      \/ UNCHANGED vars
      => UNCHANGED post
  BY DEF Retry, Unmount, Connected, Disconnected, ConnFailed, FirstFrame, Watchdog,
     FrameWatchdog, StatsRead, NodeGone, NodeBack, NodeSweeps, vars
<1>8. QED
  BY <1>1, <1>2, <1>3, <1>4, <1>5, <1>6, <1>7 DEF Next

\* A step that starts, keeps or ends a connection keeps the types.
LEMMA PlayerShapeStep ==
  ASSUME ServerShape, PlayerShape, Badge, [Next]_vars
  PROVE  PlayerShape'
<1>1. /\ shown \in Streams /\ urls \in Streams \cup {None} /\ asks \in [Streams -> Nat]
      /\ status \in {"loading", "playing", "error", "closed"}
      /\ attempt \in Nat /\ mounted \in BOOLEAN /\ pc \in PcRows
      /\ pc.own \in {0, attempt} /\ (pc.own = 0 => pc = NoPc)
  BY DEF PlayerShape
<1>2. post' \in [Attempts -> PostRows \cup {None}]
  BY PostShapeStep DEF Badge
<1>3. NoPc \in PcRows /\ NoPc.own = 0
  BY FreshPc DEF NoPc
<1>4. CASE UNCHANGED playerVars
  BY <1>1, <1>2, <1>4 DEF PlayerShape, playerVars
<1>5. CASE Goes
  BY <1>1, <1>2, <1>5 DEF PlayerShape, Goes
<1>6. CASE Fails
  BY <1>1, <1>2, <1>3, <1>6 DEF PlayerShape, Fails, Fail
<1>7. ASSUME NEW u, Starts(u)
      PROVE  attempt' \in Nat /\ pc' \in PcRows /\ pc'.own = attempt' /\ pc'.own # 0
  <2>1. attempt + 1 \in Nat /\ attempt + 1 # 0
    BY <1>1
  <2>2. QED
    BY <1>7, <2>1, FreshPc DEF Starts
<1>8. ASSUME NEW s \in Streams, Resolved(s) PROVE PlayerShape'
  <2>1. asks' \in [Streams -> Nat]
    <3>1. asks[s] \in Nat /\ asks[s] > 0 /\ asks' = [asks EXCEPT ![s] = @ - 1]
      BY <1>1, <1>8 DEF Resolved
    <3>2. asks[s] - 1 \in Nat
      BY <3>1
    <3>3. QED
      BY <1>1, <3>1, <3>2
  <2>2. UNCHANGED <<shown, mounted>>
    BY <1>8 DEF Resolved
  <2>3. CASE \E u \in {s, urls} : urls' \in {s, urls} /\ Starts(u)
    <3>1. urls' \in Streams \cup {None} /\ status' = "loading"
      BY <1>1, <2>3 DEF Starts
    <3>2. attempt' \in Nat /\ pc' \in PcRows /\ pc'.own = attempt' /\ pc'.own # 0
      BY <1>7, <2>3
    <3>3. QED
      BY <1>1, <1>2, <2>1, <2>2, <3>1, <3>2 DEF PlayerShape
  <2>4. CASE urls' = urls /\ status' = "error" /\ UNCHANGED <<attempt, pc>>
    BY <1>1, <1>2, <2>1, <2>2, <2>4 DEF PlayerShape
  <2>5. QED
    BY <1>8, <2>3, <2>4 DEF Resolved, StartWebrtc, Starts
<1>9. ASSUME NEW s \in Streams, SwitchTo(s) PROVE PlayerShape'
  <2>1. asks' \in [Streams -> Nat]
    BY <1>1, <1>9 DEF SwitchTo
  <2>2. QED
    BY <1>1, <1>2, <1>9, <2>1 DEF PlayerShape, SwitchTo
<1>10. CASE Retry
  <2>1. Starts(urls) /\ UNCHANGED <<shown, asks, urls, mounted>>
    BY <1>10 DEF Retry, StartWebrtc, Starts
  <2>2. status' = "loading"
    BY <2>1 DEF Starts
  <2>3. QED
    BY <1>1, <1>2, <1>7, <2>1, <2>2 DEF PlayerShape
<1>11. CASE Unmount
  BY <1>1, <1>2, <1>3, <1>11 DEF PlayerShape, Unmount
<1>12. QED
  BY <1>4, <1>5, <1>6, <1>8, <1>9, <1>10, <1>11, PlayerSteps

\* The badge stays honest.
LEMMA BadgeStep ==
  ASSUME ServerShape, PlayerShape, Badge, [Next]_vars
  PROVE  Badge'
<1>1. /\ attempt \in Nat /\ pc \in PcRows
      /\ pc.own \in {0, attempt} /\ (pc.own = 0 => pc = NoPc)
  BY DEF PlayerShape
<1>2. NoPc.own = 0
  BY DEF NoPc
<1>3. CASE UNCHANGED playerVars
  BY <1>3 DEF playerVars, Badge, HonestPlaying
<1>4. CASE Goes
  BY <1>1, <1>4 DEF Goes, Badge, HonestPlaying
<1>5. CASE Fails
  BY <1>2, <1>5 DEF Fails, Fail, Badge, HonestPlaying
<1>6. ASSUME NEW s \in Streams, Resolved(s) PROVE Badge'
  BY <1>1, <1>6, ViewingAssumption DEF Resolved, StartWebrtc, Badge, HonestPlaying
<1>7. ASSUME NEW s \in Streams, SwitchTo(s) PROVE Badge'
  BY <1>7 DEF SwitchTo, Badge, HonestPlaying
<1>8. CASE Retry
  BY <1>8 DEF Retry, StartWebrtc, Badge, HonestPlaying
<1>9. CASE Unmount
  BY <1>2, <1>9 DEF Unmount, Badge, HonestPlaying
<1>10. QED
  BY <1>3, <1>4, <1>5, <1>6, <1>7, <1>8, <1>9, PlayerSteps

-----------------------------------------------------------------------------
(* Twins are found again, within the cap.                                   *)

LEMMA SpawnFound ==
  ASSUME ServerShape, TwinsFound, Spawns
  PROVE  TwinsFound'
<1>1. PICK s \in Streams, t \in Twins :
        /\ twins[t] = None /\ ~Existing(s)
        /\ twins' = [twins EXCEPT ![t] = NewTwin(s)]
        /\ variants' = [variants EXCEPT ![s] = t]
  BY DEF Spawns
<1>2. /\ variants \in [Streams -> Twins \cup {0}] /\ twins \in [Twins -> TwinRows \cup {None}]
      /\ 0 \notin Twins
  BY DEF ServerShape, Twins
<1>3. NewTwin(s) \in TwinRows /\ NewTwin(s).of = s /\ NewTwin(s).st = "starting" /\ NewTwin(s) # None
  <2>1. NewTwin(s) \in TwinRows /\ NewTwin(s).of = s /\ NewTwin(s).st = "starting"
    BY DEF NewTwin, TwinRows
  <2>2. None \notin TwinRows
    BY ViewingAssumption
  <2>3. QED
    BY <2>1, <2>2
<1>4. ASSUME NEW v \in Streams, variants'[v] # 0
      PROVE  /\ twins'[variants'[v]] # None /\ twins'[variants'[v]].of = v
             /\ twins'[variants'[v]].st # "torn"
  <2>1. CASE v = s
    BY <1>1, <1>2, <1>3, <2>1
  <2>2. CASE v # s
    <3>1. variants'[v] = variants[v] /\ v \in Registered
      BY <1>1, <1>2, <1>4, <2>2 DEF Registered
    <3>2. twins[variants[v]] # None /\ variants[v] \in Twins
      BY <1>2, <3>1 DEF TwinsFound, Registered
    <3>3. twins'[variants[v]] = twins[variants[v]]
      BY <1>1, <1>2, <3>2
    <3>4. QED
      BY <3>1, <3>3 DEF TwinsFound
  <2>3. QED
    BY <2>1, <2>2
<1>5. ASSUME NEW u \in Twins, twins'[u] # None, twins'[u].st \in {"starting", "up"},
             ~twins'[u].killed
      PROVE  variants'[twins'[u].of] = u
  <2>1. CASE u = t
    BY <1>1, <1>2, <1>3, <2>1
  <2>2. CASE u # t
    <3>1. twins'[u] = twins[u]
      BY <1>1, <1>2, <2>2
    <3>2. variants[twins[u].of] = u /\ twins[u].of \in Streams
      BY <1>5, <3>1, TwinOf DEF TwinsFound, NoOrphanTwin, Running
    <3>3. twins[u].of # s
      BY <1>1, <1>2, <3>2 DEF Existing
    <3>4. QED
      BY <1>1, <1>2, <3>1, <3>2, <3>3
  <2>3. QED
    BY <2>1, <2>2
<1>6. QED
  BY <1>4, <1>5 DEF TwinsFound, Registered, NoOrphanTwin, Running

LEMMA AgedFound ==
  ASSUME ServerShape, TwinsFound, NEW t \in Twins, twins[t] # None, Ages(t)
  PROVE  TwinsFound'
<1>1. /\ variants \in [Streams -> Twins \cup {0}] /\ twins \in [Twins -> TwinRows \cup {None}]
      /\ 0 \notin Twins
  BY DEF ServerShape, Twins
<1>2. twins[t] \in TwinRows /\ twins[t].of \in Streams
  BY TwinOf
<1>3. ASSUME variants' = variants, NEW st \in {"up", "exited", "final"},
             twins' = [twins EXCEPT ![t].st = st], st = "up" => Running(t)
      PROVE  TwinsFound'
  <2>1. /\ twins'[t] \in TwinRows /\ twins'[t].of = twins[t].of
        /\ twins'[t].st = st /\ twins'[t].killed = twins[t].killed
    BY <1>1, <1>2, <1>3 DEF TwinRows
  <2>2. \A u \in Twins : u # t => twins'[u] = twins[u]
    BY <1>1, <1>3
  <2>3. twins'[t] # None
    BY <2>1, ViewingAssumption
  <2>4. \A v \in Streams : variants[v] # 0 => variants[v] \in Twins
    BY <1>1
  <2>5. QED
    BY <1>3, <2>1, <2>2, <2>3, <2>4 DEF TwinsFound, Registered, NoOrphanTwin, Running
<1>4. ASSUME variants' = variants, twins[t].st = "torn", twins' = [twins EXCEPT ![t] = None]
      PROVE  TwinsFound'
  <2>1. \A u \in Twins : u # t => twins'[u] = twins[u]
    BY <1>1, <1>4
  <2>2. twins'[t] = None
    BY <1>1, <1>4
  <2>3. \A v \in Streams : variants[v] # 0 => variants[v] \in Twins /\ variants[v] # t
    BY <1>1, <1>4 DEF TwinsFound, Registered
  <2>4. QED
    BY <1>4, <2>1, <2>2, <2>3 DEF TwinsFound, Registered, NoOrphanTwin, Running
<1>5. ASSUME Unregister(t), \A u \in Twins : u # t => twins'[u] = twins[u],
             ~(Running(t)' /\ ~twins'[t].killed)
      PROVE  TwinsFound'
  <2>1. \A v \in Streams : /\ variants'[v] # t
                           /\ variants'[v] # 0 => variants'[v] = variants[v]
                           /\ variants'[v] # 0 => variants'[v] \in Twins
                           /\ variants[v] # t => variants'[v] = variants[v]
    BY <1>1, <1>5 DEF Unregister
  <2>2. ASSUME NEW u \in Twins, u # t, twins[u] # None PROVE twins[u].of \in Streams
    BY <2>2, TwinOf
  <2>3. ASSUME NEW v \in Registered'
        PROVE  /\ twins'[variants'[v]] # None /\ twins'[variants'[v]].of = v
               /\ twins'[variants'[v]].st # "torn"
    BY <1>5, <2>1 DEF TwinsFound, Registered
  <2>4. NoOrphanTwin'
    BY <1>5, <2>1, <2>2 DEF TwinsFound, NoOrphanTwin, Running
  <2>5. QED
    BY <2>3, <2>4 DEF TwinsFound
<1>6. CASE TwinMounts(t)
  BY <1>3, <1>6 DEF TwinMounts
<1>7. CASE TwinExits(t)
  <2>1. PICK st \in {"exited", "final"} : twins' = [twins EXCEPT ![t].st = st]
    BY <1>7 DEF TwinExits
  <2>2. QED
    BY <1>3, <1>7, <2>1 DEF TwinExits
<1>8. CASE Finalise(t)
  BY <1>3, <1>4, <1>8 DEF Finalise
<1>9. CASE ExitTeardown(t)
  <2>1. Unregister(t) /\ \A u \in Twins : u # t => twins'[u] = twins[u]
    BY <1>1, <1>9 DEF ExitTeardown, Teardown
  <2>2. ~Running(t)'
    BY <1>1, <1>2, <1>9 DEF ExitTeardown, Running, TwinRows
  <2>3. QED
    BY <1>5, <2>1, <2>2
<1>10. CASE Reap(t)
  <2>1. Unregister(t) /\ \A u \in Twins : u # t => twins'[u] = twins[u]
    BY <1>1, <1>10 DEF Reap, Teardown
  <2>2. twins'[t].killed
    BY <1>1, <1>2, <1>10 DEF Reap, TwinRows
  <2>3. QED
    BY <1>5, <2>1, <2>2
<1>11. QED
  BY <1>6, <1>7, <1>8, <1>9, <1>10 DEF Ages

LEMMA TwinsFoundStep ==
  ASSUME ServerShape, PlayerShape, Budget, TwinsFound, [Next]_vars
  PROVE  TwinsFound'
<1>1. CASE UNCHANGED <<variants, twins>>
  BY <1>1 DEF TwinsFound, Registered, NoOrphanTwin, Running
<1>2. QED
  BY <1>1, TwinSteps, SpawnFound, AgedFound

\* The map grows by one below the cap, and otherwise shrinks.
LEMMA MapWithinCapStep ==
  ASSUME ServerShape, PlayerShape, Budget, MapWithinCap, [Next]_vars
  PROVE  MapWithinCap'
<1>1. variants \in [Streams -> Twins \cup {0}] /\ Cap \in Nat
  BY ViewingAssumption DEF ServerShape
<1>2. IsFiniteSet(Registered) /\ Cardinality(Registered) \in Nat /\ Cardinality(Registered) <= Cap
  BY FS_CardinalityType DEF MapWithinCap
<1>3. CASE Registered' \subseteq Registered
  <2>1. IsFiniteSet(Registered') /\ Cardinality(Registered') <= Cardinality(Registered)
    BY <1>2, <1>3, FS_Subset
  <2>2. Cardinality(Registered') \in Nat
    BY <2>1, FS_CardinalityType
  <2>3. QED
    BY <1>1, <1>2, <2>1, <2>2 DEF MapWithinCap
<1>4. CASE Spawns
  <2>1. PICK s \in Streams, t \in Twins :
          ~Full /\ variants[s] = 0 /\ variants' = [variants EXCEPT ![s] = t]
    BY <1>4 DEF Spawns, Existing
  <2>2. Registered' = Registered \cup {s}
    BY <1>1, <2>1 DEF Registered, Twins
  <2>3. IsFiniteSet(Registered') /\ Cardinality(Registered') = Cardinality(Registered) + 1
    BY <1>2, <2>1, <2>2, FS_AddElement DEF Registered
  <2>4. Cardinality(Registered) < Cap
    BY <1>1, <1>2, <2>1 DEF Full
  <2>5. QED
    BY <1>1, <1>2, <2>3, <2>4 DEF MapWithinCap
<1>5. ASSUME NEW t \in Twins, Ages(t) PROVE Registered' \subseteq Registered
  BY <1>1, <1>5 DEF Ages, TwinMounts, TwinExits, Finalise, ExitTeardown, Reap, Teardown,
     Unregister, Registered
<1>6. UNCHANGED <<variants, twins>> => Registered' \subseteq Registered
  BY DEF Registered
<1>7. QED
  BY <1>3, <1>4, <1>5, <1>6, TwinSteps

-----------------------------------------------------------------------------
(* The budget of twins.                                                     *)

\* A request for URLs is answered.
LEMMA PendingTaken ==
  ASSUME PlayerShape, ServerShape, Budget, NEW s \in Streams, Resolved(s)
  PROVE  /\ IsFiniteSet(Pending') /\ Cardinality(Pending') = Cardinality(Pending) - 1
         /\ \A v \in Streams : asks'[v] <= asks[v]
<1>1. asks \in [Streams -> Nat] /\ asks[s] > 0 /\ asks' = [asks EXCEPT ![s] = @ - 1]
  BY DEF PlayerShape, Resolved
<1>2. asks[s] <= MaxCalls + 1 /\ MaxCalls \in Nat
  BY <1>1, ViewingAssumption DEF Budget, ServerShape
<1> DEFINE x == <<s, asks[s]>>
<1>3. x \in Pending
  BY <1>1, <1>2 DEF Pending
<1>4. \A v \in Streams : asks'[v] = IF v = s THEN asks[s] - 1 ELSE asks[v]
  BY <1>1
<1>5. Pending' = Pending \ {x}
  <2>1. ASSUME NEW y \in Streams \X (1 .. MaxCalls + 1)
        PROVE  y[2] <= asks'[y[1]] <=> y[2] <= asks[y[1]] /\ y # x
    <3>1. PICK v \in Streams, i \in 1 .. MaxCalls + 1 : y = <<v, i>>
      OBVIOUS
    <3>2. i \in Nat /\ asks[v] \in Nat /\ asks[s] \in Nat
      BY <1>1, <1>2
    <3>3. CASE v = s
      BY <1>1, <1>4, <3>1, <3>2, <3>3
    <3>4. CASE v # s
      BY <1>1, <1>4, <3>1, <3>2, <3>4
    <3>5. QED
      BY <3>3, <3>4
  <2>2. QED
    BY <2>1 DEF Pending
<1>6. IsFiniteSet(Pending') /\ Cardinality(Pending') = Cardinality(Pending) - 1
  BY <1>3, <1>5, FS_RemoveElement DEF Budget
<1>7. QED
  BY <1>1, <1>4, <1>6

\* A request for URLs is made.
LEMMA PendingAdded ==
  ASSUME PlayerShape, ServerShape, Budget, NEW s \in Streams,
         calls < MaxCalls, asks' = [asks EXCEPT ![s] = @ + 1]
  PROVE  /\ IsFiniteSet(Pending') /\ Cardinality(Pending') = Cardinality(Pending) + 1
         /\ \A v \in Streams : asks'[v] <= asks[v] + 1
<1>1. asks \in [Streams -> Nat]
  BY DEF PlayerShape
<1>2. asks[s] <= MaxCalls /\ MaxCalls \in Nat
  BY <1>1, ViewingAssumption DEF Budget, ServerShape
<1> DEFINE x == <<s, asks[s] + 1>>
<1>3. x \in Streams \X (1 .. MaxCalls + 1) /\ x \notin Pending
  BY <1>1, <1>2 DEF Pending
<1>4. \A v \in Streams : asks'[v] = IF v = s THEN asks[s] + 1 ELSE asks[v]
  BY <1>1
<1>5. Pending' = Pending \cup {x}
  <2>1. ASSUME NEW y \in Streams \X (1 .. MaxCalls + 1)
        PROVE  y[2] <= asks'[y[1]] <=> y[2] <= asks[y[1]] \/ y = x
    <3>1. PICK v \in Streams, i \in 1 .. MaxCalls + 1 : y = <<v, i>>
      OBVIOUS
    <3>2. i \in Nat /\ asks[v] \in Nat /\ asks[s] \in Nat
      BY <1>1, <1>2
    <3>3. CASE v = s
      BY <1>1, <1>4, <3>1, <3>2, <3>3
    <3>4. CASE v # s
      BY <1>1, <1>4, <3>1, <3>2, <3>4
    <3>5. QED
      BY <3>3, <3>4
  <2>2. QED
    BY <1>3, <2>1 DEF Pending
<1>6. IsFiniteSet(Pending') /\ Cardinality(Pending') = Cardinality(Pending) + 1
  BY <1>3, <1>5, FS_AddElement DEF Budget
<1>7. QED
  BY <1>1, <1>4, <1>6

\* The slots that are taken, from one state to the next.
LEMMA SpawnedStep ==
  ASSUME ServerShape
  PROVE  /\ Cardinality(Spawned') \in Nat
         /\ UNCHANGED twins => Cardinality(Spawned') = Cardinality(Spawned)
         /\ Spawns => Cardinality(Spawned') = Cardinality(Spawned) + 1
         /\ \A t \in Twins : Ages(t) => Cardinality(Spawned') <= Cardinality(Spawned)
<1>1. IsFiniteSet(Spawned') /\ Cardinality(Spawned') \in Nat
  BY FiniteSlots, FS_Subset, FS_CardinalityType DEF Spawned
<1>2. UNCHANGED twins => Spawned' = Spawned
  BY DEF Spawned
<1>3. ASSUME Spawns PROVE Cardinality(Spawned') = Cardinality(Spawned) + 1
  <2>1. PICK s \in Streams, t \in Twins :
          twins[t] = None /\ twins' = [twins EXCEPT ![t] = NewTwin(s)]
    BY <1>3 DEF Spawns
  <2>2. NewTwin(s) # None
    <3>1. NewTwin(s) \in TwinRows
      BY DEF NewTwin, TwinRows
    <3>2. QED
      BY <3>1, ViewingAssumption
  <2>3. Spawned' = Spawned \cup {t} /\ t \notin Spawned
    BY <2>1, <2>2 DEF Spawned, ServerShape
  <2>4. QED
    BY <2>3, FiniteSlots, FS_AddElement
<1>4. ASSUME NEW t \in Twins, Ages(t) PROVE Cardinality(Spawned') <= Cardinality(Spawned)
  <2>1. twins[t] # None /\ \A u \in Twins : u # t => twins'[u] = twins[u]
    BY <1>4 DEF Ages, TwinMounts, TwinExits, Running, Finalise, ExitTeardown, Reap, Unwatched,
       ServerShape
  <2>2. Spawned' \subseteq Spawned
    BY <2>1 DEF Spawned
  <2>3. QED
    BY <2>2, FiniteSlots, FS_Subset
<1>5. QED
  BY <1>1, <1>2, <1>3, <1>4

\* The offers the server has not looked at, from one state to the next.
LEMMA SentStep ==
  ASSUME PlayerShape
  PROVE  /\ Cardinality(Sent') \in Nat
         /\ UNCHANGED post => Cardinality(Sent') = Cardinality(Sent)
         /\ \A a \in Attempts : WhepPost(a) => Cardinality(Sent') = Cardinality(Sent) - 1
         /\ \A a \in Attempts : WaitForMount(a) \/ RelayAnswers(a) \/ Answered(a)
                                => Cardinality(Sent') <= Cardinality(Sent)
         /\ Offered => Cardinality(Sent') <= Cardinality(Sent) + 1
<1>1. IsFiniteSet(Sent') /\ Cardinality(Sent') \in Nat
  BY FiniteSlots, FS_Subset, FS_CardinalityType DEF Sent
<1>2. UNCHANGED post => Sent' = Sent
  BY DEF Sent, Posted
<1>3. post \in [Attempts -> PostRows \cup {None}]
  BY DEF PlayerShape
<1>4. ASSUME NEW a \in Attempts, WhepPost(a) PROVE Cardinality(Sent') = Cardinality(Sent) - 1
  <2>1. a \in Sent /\ post[a] \in PostRows
    BY <1>3, <1>4 DEF WhepPost, Posted, Sent
  <2>2. post'[a].st # "sent" /\ \A b \in Attempts : b # a => post'[b] = post[b]
    BY <1>3, <1>4, <2>1 DEF WhepPost, PostRows
  <2>3. Sent' = Sent \ {a}
    BY <2>1, <2>2 DEF Sent, Posted
  <2>4. QED
    BY <2>1, <2>3, FiniteSlots, FS_RemoveElement
<1>5. ASSUME NEW a \in Attempts, WaitForMount(a) \/ RelayAnswers(a) \/ Answered(a)
      PROVE  Cardinality(Sent') <= Cardinality(Sent)
  <2>1. /\ post'[a] = None \/ post'[a].st # "sent"
        /\ \A b \in Attempts : b # a => post'[b] = post[b]
    <3>1. WaitForMount(a) \/ RelayAnswers(a) => post[a] \in PostRows
      BY <1>3 DEF WaitForMount, RelayAnswers, Posted
    <3>2. QED
      BY <1>3, <1>5, <3>1 DEF WaitForMount, RelayAnswers, Answered, PostRows
  <2>2. Sent' \subseteq Sent
    BY <2>1 DEF Sent, Posted
  <2>3. QED
    BY <2>2, FiniteSlots, FS_Subset
<1>6. ASSUME Offered PROVE Cardinality(Sent') <= Cardinality(Sent) + 1
  <2>1. \A b \in Attempts : b # pc.own => post'[b] = post[b]
    BY <1>3, <1>6 DEF Offered
  <2>2. Sent' \subseteq Sent \cup {pc.own}
    BY <2>1 DEF Sent, Posted
  <2>3. IsFiniteSet(Sent \cup {pc.own}) /\ Cardinality(Sent \cup {pc.own}) <= Cardinality(Sent) + 1
    <3>1. IsFiniteSet(Sent) /\ Cardinality(Sent) \in Nat
      BY FiniteSlots
    <3>2. CASE pc.own \in Sent
      BY <3>1, <3>2, FS_AddElement
    <3>3. CASE pc.own \notin Sent
      <4>1. Cardinality(Sent \cup {pc.own}) = Cardinality(Sent) + 1
        BY <3>1, <3>3, FS_AddElement
      <4>2. IsFiniteSet(Sent \cup {pc.own})
        BY <3>1, FS_AddElement
      <4>3. QED
        BY <3>1, <4>1, <4>2
    <3>4. QED
      BY <3>2, <3>3
  <2>4. Cardinality(Sent') <= Cardinality(Sent \cup {pc.own})
    BY <2>2, <2>3, FS_Subset
  <2>5. Cardinality(Sent \cup {pc.own}) \in Nat
    BY <2>3, FS_CardinalityType
  <2>6. QED
    BY <1>1, <2>3, <2>4, <2>5, FiniteSlots
<1>7. QED
  BY <1>1, <1>2, <1>4, <1>5, <1>6

\* A connection that goes on, or ends, has no offer more to make than before.
LEMMA OpeningStep ==
  ASSUME PlayerShape
  PROVE  /\ UNCHANGED pc => Opening' = Opening
         /\ Goes \/ Fails => Opening' <= Opening
         /\ Opening \in {0, 1} /\ Opening' \in {0, 1}
BY DEF Opening, Goes, Fails, Fail, NoPc

\* The requests that wait, while none is made or answered.
LEMMA PendingKept ==
  UNCHANGED asks => Pending' = Pending
BY DEF Pending

LEMMA AsksStep ==
  ASSUME ServerShape, PlayerShape, Budget, [Next]_vars
  PROVE  \A s \in Streams : asks'[s] <= calls' + 1
<1>1. /\ asks \in [Streams -> Nat] /\ calls \in Nat
      /\ \A s \in Streams : asks[s] <= calls + 1
  BY ViewingAssumption DEF PlayerShape, ServerShape, Budget
<1>2. calls' \in {calls, calls + 1}
  BY DEF Next, vars, TwinMounts, TwinExits, Finalise, ExitTeardown, Reap,
     NodeWipes, OtherWatch, Resolved, SwitchTo, SourceEnds, SourceReturns,
     WhepPost, WaitForMount, RelayAnswers, Answered, Retry, Unmount, Offered, Connected,
     Disconnected, ConnFailed, FirstFrame, Watchdog, FrameWatchdog, StatsRead, NodeSweeps,
     NodeGone, NodeBack, Call
<1>3. CASE UNCHANGED asks
  BY <1>1, <1>2, <1>3
<1>4. ASSUME NEW s \in Streams, Resolved(s) PROVE \A v \in Streams : asks'[v] <= calls' + 1
  <2>1. \A v \in Streams : asks'[v] <= asks[v] /\ asks'[v] \in Int
    BY <1>1, <1>4 DEF Resolved
  <2>2. QED
    BY <1>1, <1>2, <2>1
<1>5. ASSUME NEW s \in Streams, SwitchTo(s) PROVE \A v \in Streams : asks'[v] <= calls' + 1
  <2>1. \A v \in Streams : asks'[v] <= asks[v] + 1 /\ asks'[v] \in Int
    BY <1>1, <1>5 DEF SwitchTo
  <2>2. calls' = calls + 1
    BY <1>5 DEF SwitchTo, Call
  <2>3. QED
    BY <1>1, <2>1, <2>2
<1>6. Unmount => \A v \in Streams : asks'[v] <= calls' + 1
  BY <1>1 DEF Unmount
<1>7. UNCHANGED playerVars \/ Goes \/ Fails \/ Retry => UNCHANGED asks
  BY DEF playerVars, Goes, Fails, Retry
<1>8. QED
  BY <1>3, <1>4, <1>5, <1>6, <1>7, PlayerSteps

\* A sum that grows no more than the calls stays below them.
LEMMA SumKept ==
  ASSUME NEW x \in Nat, NEW y \in Nat, NEW c \in Nat, NEW d \in Nat,
         x <= c + 1, y <= x + d
  PROVE  y <= c + d + 1
OBVIOUS

\* What can become a twin is paid for.
LEMMA BudgetStep ==
  ASSUME ServerShape, PlayerShape, Badge, Budget, [Next]_vars
  PROVE  Budget'
<1> DEFINE sp == Cardinality(Spawned)
           se == Cardinality(Sent)
           pe == Cardinality(Pending)
           op == Opening
           spn == Cardinality(Spawned')
           sen == Cardinality(Sent')
           pen == Cardinality(Pending')
           opn == Opening'
           Kept == attempt' + pen <= calls' + 1 /\ spn + sen + opn + pen <= calls' + 1
<1>1. /\ calls \in Nat /\ attempt \in Nat /\ MaxCalls \in Nat
      /\ sp \in Nat /\ se \in Nat /\ pe \in Nat /\ op \in {0, 1}
      /\ attempt + pe <= calls + 1 /\ sp + se + op + pe <= calls + 1
  BY FiniteSlots, FS_CardinalityType, OpeningStep, ViewingAssumption
     DEF ServerShape, PlayerShape, Budget
<1>2. spn \in Nat /\ sen \in Nat /\ opn \in {0, 1}
  BY SpawnedStep, SentStep, OpeningStep
<1>3. UNCHANGED asks => pen = pe /\ IsFiniteSet(Pending')
  BY PendingKept DEF Budget
<1>4. /\ UNCHANGED twins => spn = sp
      /\ Spawns => spn = sp + 1
      /\ \A t \in Twins : Ages(t) => spn <= sp
  BY SpawnedStep
<1>5. /\ UNCHANGED post => sen = se
      /\ \A a \in Attempts : WhepPost(a) => sen = se - 1
      /\ \A a \in Attempts : WaitForMount(a) \/ RelayAnswers(a) \/ Answered(a) => sen <= se
      /\ Offered => sen <= se + 1
  BY SentStep
<1>6. (UNCHANGED pc => opn = op) /\ (Goes \/ Fails => opn <= op)
  BY OpeningStep
<1> HIDE DEF sp, se, pe, op, spn, sen, pen, opn
\* Whatever keeps the sums below the calls.
<1>7. ASSUME NEW d \in {0, 1}, calls' = calls + d, pen \in Nat, attempt' \in Nat,
             attempt' + pen <= attempt + pe + d,
             spn + sen + opn + pen <= sp + se + op + pe + d
      PROVE  Kept
  <2>1. d \in Nat /\ attempt + pe \in Nat /\ sp + se + op + pe \in Nat
    BY <1>1
  <2>2. attempt' + pen \in Nat /\ spn + sen + opn + pen \in Nat
    <3>1. \A x, y \in Nat : x + y \in Nat
      OBVIOUS
    <3>2. opn \in Nat
      BY <1>2
    <3>3. spn + sen \in Nat
      BY <1>2, <3>1
    <3>4. spn + sen + opn \in Nat
      BY <3>1, <3>2, <3>3
    <3>5. QED
      BY <1>7, <3>1, <3>4
  <2>3. attempt' + pen <= calls + d + 1
    BY <1>1, <1>7, <2>1, <2>2, SumKept
  <2>4. spn + sen + opn + pen <= calls + d + 1
    BY <1>1, <1>7, <2>1, <2>2, SumKept
  <2>5. QED
    BY <1>7, <2>3, <2>4
<1>8. ASSUME UNCHANGED <<asks, calls, attempt>>, spn + sen + opn <= sp + se + op
      PROVE  Kept /\ IsFiniteSet(Pending')
  <2>1. pen = pe /\ IsFiniteSet(Pending')
    BY <1>3, <1>8
  <2>2. calls' = calls /\ attempt' = attempt
    BY <1>8
  <2>3. Kept
    BY <1>1, <1>2, <1>8, <2>1, <2>2
  <2>4. QED
    BY <2>1, <2>3
<1> HIDE DEF Kept
<1>9. ASSUME NEW t \in Twins, Ages(t) PROVE Kept /\ IsFiniteSet(Pending')
  <2>1. UNCHANGED <<playerVars, post, calls>>
    BY <1>9 DEF Ages, TwinMounts, TwinExits, Finalise, ExitTeardown, Reap
  <2>2. UNCHANGED <<asks, calls, attempt, post, pc>>
    BY <2>1 DEF playerVars
  <2>3. spn <= sp /\ sen = se /\ opn = op
    BY <1>4, <1>5, <1>6, <1>9, <2>2
  <2>4. spn + sen + opn <= sp + se + op
    BY <1>1, <1>2, <2>3
  <2>5. QED
    BY <1>8, <2>2, <2>4
<1>10. ASSUME NEW a \in Attempts, WhepPost(a) PROVE Kept /\ IsFiniteSet(Pending')
  <2>1. UNCHANGED <<asks, calls, attempt, pc>>
    BY <1>10 DEF WhepPost, playerVars
  <2>2. Sent # {} /\ post[a].of \in Streams
    BY <1>10 DEF WhepPost, Sent, Posted, PlayerShape, PostRows
  <2>3. UNCHANGED <<variants, twins>> \/ EnsureCleanStream(post[a].of)
    BY <1>10 DEF WhepPost
  <2>4. UNCHANGED twins \/ Spawns
    BY <2>2, <2>3, EnsureStep
  <2>5. spn <= sp + 1 /\ sen = se - 1 /\ opn = op
    BY <1>1, <1>4, <1>5, <1>6, <1>10, <2>1, <2>4
  <2>6. spn + sen + opn <= sp + se + op
    BY <1>1, <1>2, <2>5
  <2>7. QED
    BY <1>8, <2>1, <2>6
<1>11. ASSUME NEW s \in Streams, OtherWatch(s) PROVE Kept /\ IsFiniteSet(Pending')
  <2>1. /\ UNCHANGED <<asks, attempt, pc, post>> /\ calls' = calls + 1 /\ calls < MaxCalls
        /\ EnsureCleanStream(s)
    BY <1>11 DEF OtherWatch, playerVars, Call
  <2>2. UNCHANGED twins \/ Spawns
    BY <2>1, EnsureStep
  <2>3. spn <= sp + 1 /\ sen = se /\ opn = op /\ pen = pe /\ IsFiniteSet(Pending')
    BY <1>1, <1>3, <1>4, <1>5, <1>6, <2>1, <2>2
  <2>4. /\ attempt' + pen <= attempt + pe + 1
        /\ spn + sen + opn + pen <= sp + se + op + pe + 1
        /\ attempt' \in Nat /\ pen \in Nat
    BY <1>1, <1>2, <2>1, <2>3
  <2>5. QED
    BY <1>7, <2>1, <2>3, <2>4
<1>12. ASSUME NEW a \in Attempts, WaitForMount(a) \/ RelayAnswers(a) \/ Answered(a)
       PROVE  Kept /\ IsFiniteSet(Pending')
  <2>1. UNCHANGED <<twins, calls>>
    BY <1>12 DEF WaitForMount, RelayAnswers, Answered, twinVars
  <2>2. WaitForMount(a) \/ RelayAnswers(a) => UNCHANGED playerVars
    BY DEF WaitForMount, RelayAnswers
  <2>3. Answered(a) => Goes \/ Fails \/ UNCHANGED playerVars
    BY AnsweredStep
  <2>4. /\ UNCHANGED playerVars => UNCHANGED <<asks, attempt, pc>>
        /\ Goes \/ Fails => UNCHANGED <<asks, attempt>>
    BY DEF playerVars, Goes, Fails
  <2>5. UNCHANGED <<asks, attempt>> /\ opn <= op
    BY <1>1, <1>6, <1>12, <2>2, <2>3, <2>4
  <2>6. spn = sp /\ sen <= se
    BY <1>4, <1>5, <1>12, <2>1
  <2>7. spn + sen + opn <= sp + se + op
    BY <1>1, <1>2, <2>5, <2>6
  <2>8. QED
    BY <1>8, <2>1, <2>5, <2>7
<1>13. ASSUME NEW s \in Streams, Resolved(s) PROVE Kept /\ IsFiniteSet(Pending')
  <2>1. UNCHANGED <<twins, post, calls>>
    BY <1>13 DEF Resolved, twinVars
  <2>2. IsFiniteSet(Pending') /\ pen = pe - 1
    BY <1>13, PendingTaken DEF pe, pen
  <2>3. \/ attempt' = attempt + 1
        \/ attempt' = attempt /\ UNCHANGED pc
    BY <1>13 DEF Resolved, StartWebrtc
  <2>4. opn <= op + 1 /\ attempt' \in Nat /\ attempt' <= attempt + 1
    BY <1>1, <1>2, <1>6, <2>3
  <2>5. spn = sp /\ sen = se /\ calls' = calls
    BY <1>4, <1>5, <2>1
  <2>6. pen \in Nat
    BY <2>2, FS_CardinalityType DEF pen
  <2>7. attempt' + pen <= attempt + pe + 0
    <3>1. \A x, y, z \in Nat : z <= x + 1 /\ y > 0 => z + (y - 1) <= x + y + 0
      OBVIOUS
    <3>2. pe > 0
      BY <1>1, <2>2, <2>6
    <3>3. QED
      BY <1>1, <2>2, <2>4, <3>1, <3>2
  <2>8. spn + sen + opn + pen <= sp + se + op + pe + 0
    <3>1. /\ op \in Nat /\ opn \in Nat /\ opn <= op + 1 /\ pen = pe - 1
          /\ sp \in Nat /\ se \in Nat /\ pe \in Nat
      BY <1>1, <1>2, <2>2, <2>4
    <3>2. opn + pen <= op + pe
      BY <3>1
    <3>3. QED
      BY <3>1, <3>2, <2>5
  <2>9. calls' = calls + 0
    BY <1>1, <2>5
  <2>10. QED
    BY <1>7, <2>2, <2>4, <2>6, <2>7, <2>8, <2>9
<1>14. ASSUME NEW s \in Streams, SwitchTo(s) PROVE Kept /\ IsFiniteSet(Pending')
  <2>1. /\ UNCHANGED <<twins, post, pc, attempt>> /\ calls' = calls + 1 /\ calls < MaxCalls
        /\ asks' = [asks EXCEPT ![s] = @ + 1]
    BY <1>14 DEF SwitchTo, twinVars, Call
  <2>2. IsFiniteSet(Pending') /\ pen = pe + 1
    BY <2>1, PendingAdded DEF pe, pen
  <2>3. spn = sp /\ sen = se /\ opn = op
    BY <1>4, <1>5, <1>6, <2>1
  <2>4. /\ attempt' + pen <= attempt + pe + 1
        /\ spn + sen + opn + pen <= sp + se + op + pe + 1
        /\ attempt' \in Nat /\ pen \in Nat
    BY <1>1, <1>2, <2>1, <2>2, <2>3
  <2>5. QED
    BY <1>7, <2>1, <2>2, <2>4
<1>15. ASSUME Retry PROVE Kept /\ IsFiniteSet(Pending')
  <2>1. UNCHANGED <<twins, post, asks>> /\ calls' = calls + 1 /\ attempt' = attempt + 1
    BY <1>15 DEF Retry, StartWebrtc, twinVars, Call
  <2>2. IsFiniteSet(Pending') /\ pen = pe /\ spn = sp /\ sen = se
    BY <1>3, <1>4, <1>5, <2>1
  <2>3. /\ attempt' + pen <= attempt + pe + 1
        /\ spn + sen + opn + pen <= sp + se + op + pe + 1
        /\ attempt' \in Nat /\ pen \in Nat
    BY <1>1, <1>2, <2>1, <2>2
  <2>4. QED
    BY <1>7, <2>1, <2>2, <2>3
<1>16. ASSUME Unmount PROVE Kept /\ IsFiniteSet(Pending')
  <2>1. /\ UNCHANGED <<twins, post, calls>> /\ attempt' = 0 /\ pc' = NoPc
        /\ \A s \in Streams : asks'[s] = 0
    BY <1>16 DEF Unmount, twinVars
  <2>2. Pending' = {}
    BY <2>1 DEF Pending
  <2>3. IsFiniteSet(Pending') /\ pen = 0
    BY <2>2, FS_EmptySet DEF pen
  <2>4. spn = sp /\ sen = se /\ opn = 0
    BY <1>4, <1>5, <2>1 DEF opn, Opening, NoPc
  <2>5. /\ attempt' + pen <= attempt + pe + 0
        /\ spn + sen + opn + pen <= sp + se + op + pe + 0
        /\ attempt' \in Nat /\ pen \in Nat
    BY <1>1, <1>2, <2>1, <2>3, <2>4
  <2>7. calls' = calls + 0
    BY <1>1, <2>1
  <2>6. QED
    BY <1>7, <2>3, <2>5, <2>7
<1>17. ASSUME Offered PROVE Kept /\ IsFiniteSet(Pending')
  <2>1. UNCHANGED <<twins, calls, asks, attempt>> /\ pc.own # 0 /\ ~pc.local
    BY <1>17 DEF Offered, twinVars
  <2>2. opn = 0 /\ op = 1
    BY <1>17, <2>1 DEF Offered, op, opn, Opening, PlayerShape, PcRows
  <2>3. spn = sp /\ sen <= se + 1
    BY <1>4, <1>5, <1>17, <2>1
  <2>4. spn + sen + opn <= sp + se + op
    BY <1>1, <1>2, <2>2, <2>3
  <2>5. QED
    BY <1>8, <2>1, <2>4
<1>18. ASSUME \/ Connected \/ Disconnected \/ ConnFailed \/ FirstFrame
              \/ Watchdog \/ FrameWatchdog \/ StatsRead
       PROVE  Kept /\ IsFiniteSet(Pending')
  <2>1. UNCHANGED <<twins, calls, asks, attempt, post>>
    BY <1>18 DEF Connected, Disconnected, ConnFailed, FirstFrame, Watchdog, FrameWatchdog,
       StatsRead, twinVars
  <2>2. Goes \/ Fails
    BY <1>18, GoesOn DEF ConnFailed, Watchdog, StatsRead, Fails
  <2>3. spn = sp /\ sen = se /\ opn <= op
    BY <1>4, <1>5, <1>6, <2>1, <2>2
  <2>4. spn + sen + opn <= sp + se + op
    BY <1>1, <1>2, <2>3
  <2>5. QED
    BY <1>8, <2>1, <2>4
<1>19. ASSUME \/ \E s \in Streams : NodeWipes(s) \/ SourceEnds(s) \/ SourceReturns(s)
              \/ NodeGone \/ NodeBack \/ NodeSweeps \/ UNCHANGED vars
       PROVE  Kept /\ IsFiniteSet(Pending')
  <2>1. UNCHANGED <<twins, calls, playerVars, post>>
    BY <1>19 DEF NodeWipes, SourceEnds, SourceReturns, NodeGone, NodeBack, NodeSweeps, vars,
       twinVars
  <2>2. UNCHANGED <<twins, calls, asks, attempt, post, pc>>
    BY <2>1 DEF playerVars
  <2>3. spn = sp /\ sen = se /\ opn = op
    BY <1>4, <1>5, <1>6, <2>2
  <2>4. spn + sen + opn <= sp + se + op
    BY <1>1, <1>2, <2>3
  <2>5. QED
    BY <1>8, <2>2, <2>4
<1>20. Kept /\ IsFiniteSet(Pending')
  BY <1>9, <1>10, <1>11, <1>12, <1>13, <1>14, <1>15, <1>16, <1>17, <1>18, <1>19 DEF Next, Ages
<1>21. QED
  BY <1>20, AsksStep DEF Kept, spn, sen, opn, pen, Budget

-----------------------------------------------------------------------------
(* The specification.                                                       *)

LEMMA InitInv == Init => IInv
<1> SUFFICES ASSUME Init PROVE IInv
  OBVIOUS
<1>1. /\ MaxCalls \in Nat /\ MaxFaults \in Nat /\ Cap \in Nat /\ First \in Streams
  BY ViewingAssumption
<1>2. /\ live = Streams /\ nodeUp = TRUE
      /\ variants = [s \in Streams |-> 0] /\ twins = [t \in Twins |-> None]
      /\ wiping = {} /\ junk = {}
      /\ shown = First /\ asks = [s \in Streams |-> IF s = First THEN 1 ELSE 0]
      /\ urls = None /\ status = "loading" /\ attempt = 0 /\ pc = NoPc
      /\ post = [a \in Attempts |-> None]
      /\ mounted = TRUE /\ calls = 0 /\ faults = 0
  BY DEF Init
<1>3. ServerShape
  BY <1>1, <1>2 DEF ServerShape
<1>4. PlayerShape
  <2>1. asks \in [Streams -> Nat]
    BY <1>2
  <2>2. QED
    BY <1>1, <1>2, <2>1, FreshPc DEF PlayerShape, NoPc
<1>5. Registered = {}
  BY <1>2 DEF Registered
<1>6. TwinsFound
  BY <1>2, <1>5 DEF TwinsFound, NoOrphanTwin, Running
<1>7. MapWithinCap
  BY <1>1, <1>5, FS_EmptySet DEF MapWithinCap
<1>8. Badge
  BY <1>2 DEF Badge, HonestPlaying, NoPc
<1>9. Budget
  <2>1. Pending = {<<First, 1>>}
    <3>1. \A x \in Streams \X (1 .. MaxCalls + 1) : x[2] <= asks[x[1]] <=> x = <<First, 1>>
      BY <1>1, <1>2
    <3>2. <<First, 1>> \in Streams \X (1 .. MaxCalls + 1)
      BY <1>1
    <3>3. QED
      BY <3>1, <3>2 DEF Pending
  <2>2. IsFiniteSet(Pending) /\ Cardinality(Pending) = 1
    BY <2>1, FS_Singleton
  <2>3. Spawned = {} /\ Sent = {}
    BY <1>2 DEF Spawned, Sent, Posted
  <2>4. Cardinality(Spawned) = 0 /\ Cardinality(Sent) = 0 /\ Opening = 0
    BY <1>2, <2>3, FS_EmptySet DEF Opening, NoPc
  <2>5. \A s \in Streams : asks[s] <= calls + 1
    BY <1>2
  <2>6. QED
    BY <1>2, <2>2, <2>4, <2>5 DEF Budget
<1>10. QED
  BY <1>3, <1>4, <1>6, <1>7, <1>8, <1>9 DEF IInv

THEOREM Invariance == Spec => []IInv
<1>1. IInv /\ [Next]_vars => IInv'
  BY ServerShapeStep, PlayerShapeStep, TwinsFoundStep, MapWithinCapStep, BadgeStep, BudgetStep
     DEF IInv
<1>2. QED
  BY InitInv, <1>1, PTL DEF Spec

\* The twins that are to go on are those of the map, one for each of its streams.
LEMMA CapFromMap ==
  ASSUME ServerShape, TwinsFound, MapWithinCap
  PROVE  CapHolds
<1> DEFINE On == {t \in Twins : Running(t) /\ ~twins[t].killed}
           f == [t \in On |-> twins[t].of]
<1>1. \A t \in On : twins[t].of \in Registered /\ variants[twins[t].of] = t
  BY TwinOf DEF TwinsFound, NoOrphanTwin, Running, Registered, Twins
<1>2. f \in Injection(On, Registered)
  <2>1. f \in [On -> Registered]
    BY <1>1
  <2>2. \A t, u \in On : f[t] = f[u] => t = u
    BY <1>1
  <2>3. QED
    BY <2>1, <2>2 DEF Injection, IsInjective
<1>3. IsFiniteSet(On) /\ Cardinality(On) <= Cardinality(Registered)
  BY <1>2, FS_Injection DEF MapWithinCap, ExistsInjection
<1>4. Cardinality(On) \in Nat /\ Cardinality(Registered) \in Nat /\ Cap \in Nat
  BY <1>3, FS_CardinalityType, ViewingAssumption DEF MapWithinCap
<1>5. Cardinality(On) <= Cap
  BY <1>3, <1>4 DEF MapWithinCap
<1>6. QED
  BY <1>5 DEF CapHolds

LEMMA TypesFromShape ==
  ASSUME IInv
  PROVE  TypeOK
<1>1. ServerShape /\ PlayerShape /\ TwinsFound /\ Budget
  BY DEF IInv
<1>2. MaxCalls \in Nat /\ calls \in 0 .. MaxCalls
  BY <1>1, ViewingAssumption DEF ServerShape
<1>3. asks \in [Streams -> 0 .. MaxCalls + 1]
  <2>1. asks \in [Streams -> Nat] /\ \A s \in Streams : asks[s] <= calls + 1
    BY <1>1 DEF PlayerShape, Budget
  <2>2. \A s \in Streams : asks[s] \in 0 .. MaxCalls + 1
    BY <1>2, <2>1
  <2>3. QED
    BY <2>1, <2>2
<1>4. attempt \in 0 .. MaxCalls + 1
  <2>1. attempt + Cardinality(Pending) <= calls + 1 /\ Cardinality(Pending) \in Nat
    BY <1>1, FS_CardinalityType DEF Budget
  <2>2. attempt \in Nat
    BY <1>1 DEF PlayerShape
  <2>3. QED
    BY <1>2, <2>1, <2>2
<1>5. QED
  BY <1>1, <1>3, <1>4 DEF TypeOK, ServerShape, PlayerShape, TwinsFound

\* However watches, reaper rounds, exits and the timers of the player
\* interleave: a transcoder that is not told to stop is the one the map has for
\* its stream, those do not outnumber the cap, and the badge says playing only
\* over a decoded frame of the attempt at hand (cleanstream.ts:131-163,
\* Player.vue:14-17).
THEOREM ViewingCorrect == Spec => []ViewingInv
<1>1. IInv => ViewingInv
  BY TypesFromShape, CapFromMap DEF IInv, ViewingInv, TwinsFound, Badge
<1>2. QED
  BY Invariance, <1>1, PTL

\* No late answer, frame or timer of an attempt that was given up turns its
\* error into a picture (Player.vue:12, 175-180).
THEOREM ErrorStays == Spec => ErrorIsFinal
<1>1. ASSUME IInv, [Next]_vars, status = "error" PROVE status' # "playing"
  <2>1. pc.own = 0
    BY <1>1 DEF IInv, Badge
  <2>2. ~Goes
    BY <2>1 DEF Goes
  <2>3. UNCHANGED playerVars \/ Fails => status' # "playing"
    BY <1>1 DEF playerVars, Fails, Fail
  <2>4. \A s \in Streams : Resolved(s) \/ SwitchTo(s) => status' # "playing"
    BY DEF Resolved, SwitchTo, StartWebrtc
  <2>5. Retry \/ Unmount => status' # "playing"
    BY DEF Retry, Unmount, StartWebrtc
  <2>6. QED
    BY <1>1, <2>2, <2>3, <2>4, <2>5, PlayerSteps DEF IInv
<1>2. IInv /\ [Next]_vars => [status = "error" => status' # "playing"]_vars
  BY <1>1
<1>3. QED
  BY Invariance, <1>2, PTL DEF Spec, ErrorIsFinal

-----------------------------------------------------------------------------
(* The live pages of the administrators, for any number of tabs, users,     *)
(* sessions, nodes and connections.  They share no variable with the player. *)
\* The types of the app's and the gateway's side.
ServerTyped ==
  /\ row \in [Sessions -> SessionRow \cup {Null}]
  /\ nodes \subseteq Nodes /\ cap \in [Nodes -> {"default", "raised"}] /\ admins \subseteq Users
  /\ conns \in [Peers -> ConnRows \cup {Null}] /\ byAdmin \in [Users -> Peers \cup {Null}]
  /\ presses \in 0 .. MaxPresses /\ mishaps \in 0 .. MaxMishaps

\* The types of the tabs.
TabsTyped ==
  /\ page \in [Tabs -> {"away", "streams", "nodes"}]
  /\ sock \in [Tabs -> Peers \cup {Null, "dialing", "waiting"}]
  /\ view \in [Tabs -> (SUBSET Sessions) \cup (SUBSET NodeRows)]
  /\ fetch \in [Tabs -> FetchRows \cup {Null}]
  /\ clean \subseteq Tabs /\ raced \subseteq Tabs

\* Both ends of a connection name each other as long as it is up.
SocketsPaired ==
  /\ \A t \in Tabs : sock[t] \in Peers =>
       conns[sock[t]] # Null /\ conns[sock[t]].tab = t /\ conns[sock[t]].up
  /\ \A p \in Peers : conns[p] # Null /\ conns[p].up => sock[conns[p].tab] = p

\* A tab that shows no page has no socket, no rows and no request.
PagesKept ==
  /\ \A t \in Tabs : sock[t] = Null <=> page[t] = "away"
  /\ \A t \in Tabs : page[t] = "away" => view[t] = {} /\ fetch[t] = Null /\ t \notin clean
  /\ \A t \in Tabs : fetch[t] # Null => page[t] = "nodes"
  /\ \A t \in Tabs : page[t] = "streams" => view[t] \subseteq Sessions

\* A frame the page of its tab shows.
Showable(pg, frame) ==
  \/ pg = "streams" /\ frame.name \in SessionFrames /\ \E s \in Sessions : frame.of = {s}
  \/ pg = "nodes" /\ frame.name = "nodes:changed" /\ frame.of \subseteq NodeRows

\* A connection that is up carries frames for the page of its tab, and the close
\* frame only as the last one of a connection the gateway no longer keeps.
WireSound(c) ==
  \A i \in DOMAIN c.wire :
    \/ Showable(page[c.tab], c.wire[i])
    \/ c.wire[i] = Closing /\ i = Len(c.wire) /\ ~c.kept
WiresSound == \A p \in Peers : conns[p] # Null /\ conns[p].up => WireSound(conns[p])

Concerns(w, i, s) == w[i].name \in SessionFrames /\ w[i].of = {s}

\* What a page that shows a set of sessions shows of one of them once it has read
\* its frames: as the last frame on it says, or as it is when there is none.
Foretold(w, listed, s, active) ==
  /\ (\A i \in DOMAIN w : ~Concerns(w, i, s)) => (s \in listed <=> s \in active)
  /\ \A i \in DOMAIN w :
       Concerns(w, i, s) /\ (\A j \in DOMAIN w : j > i => ~Concerns(w, j, s)) =>
         (w[i].name # "session:stop" <=> s \in active)

\* The wire of a tab.
WireOf(t) == IF sock[t] \in Peers THEN conns[sock[t]].wire ELSE <<>>

\* A clean streams page shows the active sessions as soon as its frames are read.
BoardSound ==
  \A t \in clean : page[t] = "streams" =>
    \A s \in Sessions : Foretold(WireOf(t), view[t], s, ListActiveSessions)

\* A nodes page that is heard has the registry in its last frame; with none in
\* flight, in its answer or, once a frame was read, in its rows.
NewestIsSnapshot(w, f, listed, overtaken, snap) ==
  /\ w # <<>> => w[Len(w)].of = snap
  /\ w = <<>> /\ f # Null /\ f.first => f.answer = snap
  /\ w = <<>> /\ f # Null /\ ~f.first => listed = snap
  /\ w = <<>> /\ f = Null /\ ~overtaken => listed = snap
ListSound ==
  \A t \in Tabs : page[t] = "nodes" /\ Listening(t) =>
    NewestIsSnapshot(conns[sock[t]].wire, fetch[t], view[t], t \in raced, NodesSnapshot)

BoardIInv ==
  /\ ServerTyped /\ TabsTyped /\ SocketsPaired /\ PagesKept /\ WiresSound
  /\ OneConnPerAdmin /\ BoardSound /\ ListSound /\ OneBanPerScope

-----------------------------------------------------------------------------
(* Wires and what they foretell.                                            *)

LEMMA ForetoldAppend ==
  ASSUME NEW w \in Seq(FrameRows), NEW f \in FrameRows, NEW s, NEW V, NEW A, NEW B,
         Foretold(w, V, s, A),
         f.name \in SessionFrames /\ f.of = {s} => (s \in B <=> f.name # "session:stop"),
         ~(f.name \in SessionFrames /\ f.of = {s}) => (s \in B <=> s \in A)
  PROVE  Foretold(Append(w, f), V, s, B)
<1> DEFINE x == Append(w, f)
<1>1. DOMAIN w = 1 .. Len(w) /\ Len(w) \in Nat /\ DOMAIN x = 1 .. Len(w) + 1
  OBVIOUS
<1>2. /\ \A i \in DOMAIN w : x[i] = w[i]
      /\ x[Len(w) + 1] = f
  OBVIOUS
<1> HIDE DEF x
<1>3. /\ \A i \in DOMAIN w : Concerns(x, i, s) <=> Concerns(w, i, s)
      /\ Concerns(x, Len(w) + 1, s) <=> f.name \in SessionFrames /\ f.of = {s}
  BY <1>2 DEF Concerns
<1>4. CASE Concerns(x, Len(w) + 1, s)
  <2>1. \A i \in DOMAIN x : i # Len(w) + 1 => \E j \in DOMAIN x : j > i /\ Concerns(x, j, s)
    BY <1>1, <1>4
  <2>2. Foretold(x, V, s, B)
    BY <1>1, <1>2, <1>3, <1>4, <2>1 DEF Foretold
  <2>3. QED
    BY <2>2 DEF x
<1>5. CASE ~Concerns(x, Len(w) + 1, s)
  <2>1. s \in B <=> s \in A
    BY <1>3, <1>5
  <2>2. (\A i \in DOMAIN x : ~Concerns(x, i, s)) => (s \in V <=> s \in B)
    BY <1>1, <1>3, <2>1 DEF Foretold
  <2>3. ASSUME NEW i \in DOMAIN x, Concerns(x, i, s),
               \A j \in DOMAIN x : j > i => ~Concerns(x, j, s)
        PROVE  x[i].name # "session:stop" <=> s \in B
    <3>1. i \in DOMAIN w
      BY <1>1, <1>5, <2>3
    <3>2. \A j \in DOMAIN w : j > i => ~Concerns(w, j, s)
      BY <1>1, <1>3, <2>3
    <3>3. QED
      BY <1>2, <1>3, <2>1, <2>3, <3>1, <3>2 DEF Foretold
  <2>4. Foretold(x, V, s, B)
    BY <2>2, <2>3 DEF Foretold
  <2>5. QED
    BY <2>4 DEF x
<1>6. QED
  BY <1>4, <1>5

LEMMA ForetoldTail ==
  ASSUME NEW w \in Seq(FrameRows), w # <<>>, NEW s, NEW V, NEW U, NEW A,
         Foretold(w, V, s, A),
         Concerns(w, 1, s) => (s \in U <=> w[1].name # "session:stop"),
         ~Concerns(w, 1, s) => (s \in U <=> s \in V)
  PROVE  Foretold(Tail(w), U, s, A)
<1> DEFINE x == Tail(w)
<1>1. DOMAIN w = 1 .. Len(w) /\ Len(w) \in Nat \ {0} /\ DOMAIN x = 1 .. Len(w) - 1
  OBVIOUS
<1>2. \A i \in DOMAIN x : x[i] = w[i + 1]
  OBVIOUS
<1> HIDE DEF x
<1>3. \A i \in DOMAIN x : Concerns(x, i, s) <=> Concerns(w, i + 1, s)
  BY <1>2 DEF Concerns
<1>4. \A j \in DOMAIN w :
        j # 1 => j - 1 \in DOMAIN x /\ (Concerns(w, j, s) <=> Concerns(x, j - 1, s))
  <2>1. SUFFICES ASSUME NEW j \in DOMAIN w, j # 1
                 PROVE  j - 1 \in DOMAIN x /\ (Concerns(w, j, s) <=> Concerns(x, j - 1, s))
    OBVIOUS
  <2>2. j - 1 \in DOMAIN x /\ (j - 1) + 1 = j
    BY <1>1, <2>1
  <2>3. QED
    BY <1>3, <2>2
<1>5. ASSUME \A i \in DOMAIN x : ~Concerns(x, i, s)
      PROVE  s \in U <=> s \in A
  <2>1. \A j \in DOMAIN w : j # 1 => ~Concerns(w, j, s)
    BY <1>4, <1>5
  <2>2. 1 \in DOMAIN w /\ \A j \in DOMAIN w : j > 1 => ~Concerns(w, j, s)
    BY <1>1, <2>1
  <2>3. QED
    BY <2>1, <2>2 DEF Foretold
<1>6. ASSUME NEW i \in DOMAIN x, Concerns(x, i, s),
             \A j \in DOMAIN x : j > i => ~Concerns(x, j, s)
      PROVE  x[i].name # "session:stop" <=> s \in A
  <2>1. i + 1 \in DOMAIN w /\ Concerns(w, i + 1, s)
    BY <1>1, <1>3, <1>6
  <2>2. \A j \in DOMAIN w : j > i + 1 => ~Concerns(w, j, s)
    <3>1. SUFFICES ASSUME NEW j \in DOMAIN w, j > i + 1 PROVE ~Concerns(w, j, s)
      OBVIOUS
    <3>2. j # 1 /\ j - 1 > i
      BY <1>1, <3>1
    <3>3. QED
      BY <1>4, <1>6, <3>1, <3>2
  <2>3. QED
    BY <1>2, <2>1, <2>2 DEF Foretold
<1>7. Foretold(x, U, s, A)
  BY <1>5, <1>6 DEF Foretold
<1>8. QED
  BY <1>7 DEF x

\* With nothing in flight a page shows what is.
LEMMA ForetoldEmpty ==
  ASSUME NEW s, NEW V, NEW A
  PROVE  Foretold(<<>>, V, s, A) <=> (s \in V <=> s \in A)
BY DEF Foretold

-----------------------------------------------------------------------------
(* One step.                                                                *)

\* Rows, frames and answers are told from their absence.
LEMMA RowsAreThere ==
  ASSUME BoardConstants
  PROVE  /\ Null \notin SessionRow
         /\ Null \notin ConnRows /\ Null \notin FetchRows
         /\ Null \notin Peers /\ "dialing" \notin Peers /\ "waiting" \notin Peers
         /\ Null # "dialing" /\ Null # "waiting"
BY DEF BoardConstants

\* Frames that reports and changes of the registry are announced with.
LEMMA Announced ==
  ASSUME ServerTyped
  PROVE  /\ NodesSnapshot \in SUBSET NodeRows
         /\ \A s \in Sessions, n \in SessionFrames : Frame(n, {s}) \in FrameRows
         /\ \A list \in SUBSET NodeRows :
              Frame("nodes:changed", list) \in FrameRows
         /\ Closing \in FrameRows
         /\ Closing.name = "close" /\ Closing.of = Null
<1>1. NodesSnapshot \in SUBSET NodeRows
  BY DEF ServerTyped, NodesSnapshot, NodeRows
<1>2. ASSUME NEW s \in Sessions, NEW n \in SessionFrames
      PROVE  Frame(n, {s}) \in FrameRows
  <2>1. {s} \in SUBSET Sessions
    OBVIOUS
  <2>2. QED
    BY <2>1 DEF Frame, FrameRows
<1>3. ASSUME NEW rows \in SUBSET NodeRows
      PROVE  Frame("nodes:changed", rows) \in FrameRows
  BY DEF Frame, FrameRows
<1>4. Closing \in FrameRows /\ Closing.name = "close" /\ Closing.of = Null
  BY DEF Frame, FrameRows, Closing
<1>5. QED
  BY <1>1, <1>2, <1>3, <1>4

\* A frame is sent to the connections that are heard and have a page for it.
Reaches(p, f) == Hears(p) /\ f.name \in Forward /\ Handled(conns[p].tab, f.name)

LEMMA EmitShape ==
  ASSUME BoardConstants, ServerTyped, NEW f \in FrameRows, Emit(f)
  PROVE  /\ conns' \in [Peers -> ConnRows \cup {Null}]
         /\ \A p \in Peers : conns[p] = Null => conns'[p] = Null
         /\ \A p \in Peers : conns[p] # Null =>
              /\ conns'[p] # Null
              /\ conns'[p].tab = conns[p].tab /\ conns'[p].kept = conns[p].kept
              /\ conns'[p].up = conns[p].up
              /\ conns'[p].wire = IF Reaches(p, f) THEN Append(conns[p].wire, f) ELSE conns[p].wire
<1>1. \A p \in Peers : conns'[p] = IF Reaches(p, f)
                                   THEN [conns[p] EXCEPT !.wire = Append(conns[p].wire, f)]
                                   ELSE conns[p]
  BY DEF Emit, Reaches
<1>2. \A p \in Peers :
        conns[p] # Null => conns[p] \in ConnRows /\ conns[p].wire \in Seq(FrameRows)
  BY DEF ServerTyped, ConnRows
<1>3. \A p \in Peers : Reaches(p, f) => conns[p] # Null
  BY DEF Reaches, Hears
<1>4. ASSUME NEW p \in Peers, Reaches(p, f)
      PROVE  /\ conns'[p] \in ConnRows
             /\ conns'[p].tab = conns[p].tab /\ conns'[p].kept = conns[p].kept
             /\ conns'[p].up = conns[p].up /\ conns'[p].wire = Append(conns[p].wire, f)
  <2>1. conns'[p] = [conns[p] EXCEPT !.wire = Append(conns[p].wire, f)]
    BY <1>1, <1>4
  <2>2. conns[p] \in ConnRows /\ Append(conns[p].wire, f) \in Seq(FrameRows)
    BY <1>2, <1>3, <1>4
  <2>3. QED
    BY <2>1, <2>2 DEF ConnRows
<1>5. conns' = [p \in Peers |-> conns'[p]]
  BY DEF Emit
<1>6. \A p \in Peers : conns'[p] \in ConnRows \cup {Null}
  BY <1>1, <1>2, <1>4
<1>7. QED
  BY <1>1, <1>2, <1>3, <1>4, <1>5, <1>6, RowsAreThere

\* An announcement leaves the connections as they are but for what is in flight, and
\* the pages can show what is.
LEMMA EmitKeeps ==
  ASSUME BoardConstants, BoardIInv, NEW f \in FrameRows, Emit(f),
         UNCHANGED <<page, sock, byAdmin>>,
         \A t \in Tabs : Handled(t, f.name) => Showable(page[t], f)
  PROVE  SocketsPaired' /\ WiresSound' /\ OneConnPerAdmin'
<1>1. ServerTyped /\ TabsTyped /\ SocketsPaired /\ WiresSound /\ OneConnPerAdmin
  BY DEF BoardIInv
<1>2. /\ \A p \in Peers : conns[p] = Null => conns'[p] = Null
      /\ \A p \in Peers : conns[p] # Null =>
              /\ conns'[p] # Null
              /\ conns'[p].tab = conns[p].tab /\ conns'[p].kept = conns[p].kept
              /\ conns'[p].up = conns[p].up
              /\ conns'[p].wire = IF Reaches(p, f) THEN Append(conns[p].wire, f) ELSE conns[p].wire
  BY <1>1, EmitShape
<1>3. SocketsPaired'
  <2>1. \A p \in Peers : conns[p] # Null => conns[p].tab \in Tabs
    BY <1>1 DEF ServerTyped, ConnRows
  <2>2. QED
    BY <1>1, <1>2, <2>1 DEF SocketsPaired
<1>4. OneConnPerAdmin'
  <2>1. \A u \in Users : byAdmin[u] # Null => byAdmin[u] \in Peers
    BY <1>1 DEF ServerTyped
  <2>2. QED
    BY <1>1, <1>2, <2>1 DEF OneConnPerAdmin
<1>5. ASSUME NEW p \in Peers, conns'[p] # Null, conns'[p].up
      PROVE  WireSound(conns[p])'
  <2>1. /\ conns[p] # Null /\ conns[p].up /\ conns'[p].tab = conns[p].tab
        /\ conns'[p].kept = conns[p].kept
        /\ conns[p].wire \in Seq(FrameRows) /\ conns[p].tab \in Tabs
    BY <1>1, <1>2, <1>5 DEF ServerTyped, ConnRows
  <2>2. WireSound(conns[p])
    BY <1>1, <2>1 DEF WiresSound
  <2>3. CASE Reaches(p, f)
    <3>1. conns'[p].wire = Append(conns[p].wire, f) /\ conns[p].kept
      BY <1>2, <2>1, <2>3 DEF Reaches, Hears
    <3>2. Showable(page[conns[p].tab], f)
      BY <2>1, <2>3 DEF Reaches
    <3>3. \A i \in DOMAIN conns[p].wire : Showable(page[conns[p].tab], conns[p].wire[i])
      BY <2>2, <3>1 DEF WireSound
    <3>4. \A i \in DOMAIN Append(conns[p].wire, f) :
            Showable(page[conns[p].tab], Append(conns[p].wire, f)[i])
      BY <2>1, <3>2, <3>3
    <3>5. QED
      BY <2>1, <3>1, <3>4 DEF WireSound, Showable
  <2>4. CASE ~Reaches(p, f)
    BY <1>2, <2>1, <2>2, <2>4 DEF WireSound, Showable, Closing, Frame
  <2>5. QED
    BY <2>3, <2>4
<1>6. QED
  BY <1>3, <1>4, <1>5 DEF WiresSound

\* What a report does to the streams pages it is heard on: the session of the report
\* is active exactly when the report is not of its end, and no other changes.
Tells(s, name) ==
  \/ clean' = {}
  \/ /\ clean' = clean \ Deaf
     /\ s \in ListActiveSessions' <=> name # "session:stop"
     /\ \A r \in Sessions \ {s} : r \in ListActiveSessions' <=> r \in ListActiveSessions

LEMMA ReportKeeps ==
  ASSUME BoardConstants, BoardIInv, NEW s \in Sessions, NEW name \in SessionFrames,
         Emit(Frame(name, {s})), Tells(s, name),
         row' \in [Sessions -> SessionRow \cup {Null}], mishaps' \in 0 .. MaxMishaps,
         UNCHANGED <<nodes, cap, bans, admins, byAdmin, tabVars, presses>>
  PROVE  BoardIInv'
<1> DEFINE f == Frame(name, {s})
<1>1. ServerTyped /\ TabsTyped /\ SocketsPaired /\ PagesKept /\ BoardSound /\ ListSound
      /\ OneBanPerScope
  BY DEF BoardIInv
<1>2. f \in FrameRows /\ f.name = name /\ f.of = {s}
  BY <1>1, Announced DEF Frame
<1>3. UNCHANGED <<nodes, cap, bans, admins, byAdmin, page, sock, view, fetch, raced, presses>>
  BY DEF tabVars
<1>4. Emit(f)
  OBVIOUS
<1> HIDE DEF f
<1>5. /\ conns' \in [Peers -> ConnRows \cup {Null}]
      /\ \A p \in Peers : conns[p] = Null => conns'[p] = Null
      /\ \A p \in Peers : conns[p] # Null =>
              /\ conns'[p] # Null
              /\ conns'[p].tab = conns[p].tab /\ conns'[p].kept = conns[p].kept
              /\ conns'[p].up = conns[p].up
              /\ conns'[p].wire = IF Reaches(p, f) THEN Append(conns[p].wire, f) ELSE conns[p].wire
  BY <1>1, <1>2, <1>4, EmitShape
<1>6. ServerTyped'
  BY <1>1, <1>3, <1>5 DEF ServerTyped
<1>7. clean' \subseteq clean
  BY DEF Tells
<1>8. TabsTyped' /\ PagesKept' /\ OneBanPerScope'
  BY <1>1, <1>3, <1>7 DEF TabsTyped, PagesKept, OneBanPerScope
<1>9. SocketsPaired' /\ WiresSound' /\ OneConnPerAdmin'
  <2>1. \A t \in Tabs : Handled(t, f.name) => Showable(page[t], f)
    BY <1>2 DEF Handled, Showable, SessionFrames
  <2>2. QED
    BY <1>2, <1>3, <1>4, <2>1, EmitKeeps
<1>10. ASSUME NEW t \in clean', page[t] = "streams", NEW r \in Sessions
       PROVE  Foretold(WireOf(t)', view[t], r, ListActiveSessions')
  <2>1. /\ t \in clean /\ t \in Tabs /\ t \notin Deaf
        /\ s \in ListActiveSessions' <=> name # "session:stop"
        /\ \A q \in Sessions \ {s} :
             q \in ListActiveSessions' <=> q \in ListActiveSessions
    BY <1>1, <1>10 DEF Tells, TabsTyped
  <2>2. Listening(t)
    BY <1>10, <2>1 DEF Deaf
  <2>3. PICK p \in Peers : p = sock[t] /\ Hears(p)
    BY <2>2 DEF Listening
  <2>4. conns[p] # Null /\ conns[p].tab = t
    BY <1>1, <2>1, <2>3 DEF SocketsPaired
  <2>5. Reaches(p, f)
    BY <1>2, <1>10, <2>3, <2>4 DEF Reaches, Handled, Forward
  <2>6. WireOf(t) = conns[p].wire /\ WireOf(t)' = Append(conns[p].wire, f)
    BY <1>3, <1>5, <2>3, <2>4, <2>5 DEF WireOf
  <2>7. conns[p].wire \in Seq(FrameRows)
    BY <1>1, <2>4 DEF ServerTyped, ConnRows
  <2>8. Foretold(conns[p].wire, view[t], r, ListActiveSessions)
    BY <1>1, <1>10, <2>1, <2>6 DEF BoardSound
  <2>9. /\ f.name \in SessionFrames /\ f.of = {r} =>
             (r \in ListActiveSessions' <=> f.name # "session:stop")
        /\ ~(f.name \in SessionFrames /\ f.of = {r}) =>
             (r \in ListActiveSessions' <=> r \in ListActiveSessions)
    BY <1>2, <2>1
  <2>10. Foretold(Append(conns[p].wire, f), view[t], r, ListActiveSessions')
    BY <1>2, <2>7, <2>8, <2>9, ForetoldAppend
  <2>11. QED
    BY <2>6, <2>10
<1>11. BoardSound'
  BY <1>3, <1>10 DEF BoardSound
<1>12. ListSound'
  <2>1. SUFFICES ASSUME NEW t \in Tabs, page[t] = "nodes", Listening(t)'
                 PROVE  NewestIsSnapshot(conns'[sock[t]].wire, fetch[t], view[t], t \in raced,
                                         NodesSnapshot)
    BY <1>3 DEF ListSound, NodesSnapshot
  <2>2. /\ Listening(t) /\ sock[t] \in Peers /\ conns[sock[t]] # Null
        /\ conns[sock[t]].tab = t
    BY <1>1, <1>3, <1>5, <2>1 DEF Listening, Hears, SocketsPaired
  <2>3. ~Reaches(sock[t], f)
    BY <1>2, <2>1, <2>2 DEF Reaches, Handled, SessionFrames
  <2>4. QED
    BY <1>1, <1>5, <2>1, <2>2, <2>3 DEF ListSound
<1>13. QED
  BY <1>6, <1>8, <1>9, <1>11, <1>12 DEF BoardIInv

\* A change of the registry reaches every nodes page that is heard.
LEMMA NodesChangedKeeps ==
  ASSUME BoardConstants, BoardIInv, NEW registered \in SUBSET Nodes,
         NEW caps \in [Nodes -> {"default", "raised"}], NodesChanged(registered, caps)
  PROVE  BoardIInv'
<1> DEFINE f == Frame("nodes:changed", NodesSnapshot')
<1>1. ServerTyped /\ TabsTyped /\ SocketsPaired /\ PagesKept /\ BoardSound /\ ListSound
      /\ OneBanPerScope
  BY DEF BoardIInv
<1>2. UNCHANGED <<row, bans, admins, byAdmin, page, sock, view, fetch, raced, mishaps, clean>>
  BY DEF NodesChanged, tabVars
<1>3. presses' \in 0 .. MaxPresses
  BY <1>1 DEF NodesChanged, Press, ServerTyped, BoardConstants
<1>4. NodesSnapshot' \in SUBSET NodeRows
  BY DEF NodesSnapshot, NodesChanged, NodeRows
<1>5. f \in FrameRows /\ f.name = "nodes:changed" /\ f.of = NodesSnapshot'
  BY <1>1, <1>4, Announced DEF Frame
<1>6. Emit(f)
  BY DEF NodesChanged
<1> HIDE DEF f
<1>7. /\ conns' \in [Peers -> ConnRows \cup {Null}]
      /\ \A p \in Peers : conns[p] = Null => conns'[p] = Null
      /\ \A p \in Peers : conns[p] # Null =>
              /\ conns'[p] # Null
              /\ conns'[p].tab = conns[p].tab /\ conns'[p].kept = conns[p].kept
              /\ conns'[p].up = conns[p].up
              /\ conns'[p].wire = IF Reaches(p, f) THEN Append(conns[p].wire, f) ELSE conns[p].wire
  BY <1>1, <1>5, <1>6, EmitShape
<1>8. ServerTyped'
  BY <1>1, <1>2, <1>3, <1>7 DEF ServerTyped, NodesChanged
<1>9. TabsTyped' /\ PagesKept' /\ OneBanPerScope'
  BY <1>1, <1>2 DEF TabsTyped, PagesKept, OneBanPerScope
<1>10. SocketsPaired' /\ WiresSound' /\ OneConnPerAdmin'
  <2>1. \A t \in Tabs : Handled(t, f.name) => Showable(page[t], f)
    BY <1>4, <1>5 DEF Handled, Showable, SessionFrames
  <2>2. QED
    BY <1>2, <1>5, <1>6, <2>1, EmitKeeps
<1>11. ASSUME NEW t \in clean, page[t] = "streams"
       PROVE  WireOf(t)' = WireOf(t)
  <2>1. CASE sock[t] \in Peers
    <3>1. conns[sock[t]] # Null /\ conns[sock[t]].tab = t
      BY <1>1, <2>1 DEF SocketsPaired, TabsTyped
    <3>2. ~Reaches(sock[t], f)
      BY <1>5, <1>11, <3>1 DEF Reaches, Handled, SessionFrames
    <3>3. QED
      BY <1>2, <1>7, <2>1, <3>1, <3>2 DEF WireOf
  <2>2. CASE sock[t] \notin Peers
    BY <1>2, <2>2 DEF WireOf
  <2>3. QED
    BY <2>1, <2>2
<1>12. BoardSound'
  BY <1>1, <1>2, <1>11 DEF BoardSound, ListActiveSessions
<1>13. ListSound'
  <2>1. SUFFICES ASSUME NEW t \in Tabs, page[t] = "nodes", Listening(t)'
                 PROVE  NewestIsSnapshot(conns'[sock[t]].wire, fetch[t], view[t], t \in raced,
                                         NodesSnapshot')
    BY <1>2 DEF ListSound
  <2>2. /\ Hears(sock[t]) /\ sock[t] \in Peers /\ conns[sock[t]] # Null
        /\ conns[sock[t]].tab = t
    BY <1>1, <1>2, <1>7, <2>1 DEF Listening, Hears, SocketsPaired
  <2>3. Reaches(sock[t], f)
    BY <1>5, <2>1, <2>2 DEF Reaches, Handled, Forward
  <2>4. conns[sock[t]].wire \in Seq(FrameRows)
    BY <1>1, <2>2 DEF ServerTyped, ConnRows
  <2>5. conns'[sock[t]].wire = Append(conns[sock[t]].wire, f)
    BY <1>7, <2>2, <2>3
  <2>6. /\ Append(conns[sock[t]].wire, f) # <<>>
        /\ Append(conns[sock[t]].wire, f)[Len(Append(conns[sock[t]].wire, f))] = f
    BY <2>4
  <2>7. QED
    BY <1>5, <2>5, <2>6 DEF NewestIsSnapshot
<1>14. QED
  BY <1>8, <1>9, <1>10, <1>12, <1>13 DEF BoardIInv

\* What people do to the rows of the app alone leaves the pages as they are.
LEMMA PeopleKeep ==
  ASSUME BoardIInv, UNCHANGED <<row, nodes, cap, serverVars, tabVars, clean>>,
         admins' \subseteq Users, presses' \in 0 .. MaxPresses, mishaps' \in 0 .. MaxMishaps,
         OneBanPerScope'
  PROVE  BoardIInv'
<1>1. UNCHANGED <<row, nodes, cap, conns, byAdmin, page, sock, view, fetch, raced, clean>>
  BY DEF serverVars, tabVars
<1>2. ServerTyped' /\ TabsTyped' /\ SocketsPaired' /\ PagesKept'
  BY <1>1 DEF BoardIInv, ServerTyped, TabsTyped, SocketsPaired, PagesKept
<1>3. WiresSound' /\ OneConnPerAdmin'
  BY <1>1 DEF BoardIInv, WiresSound, WireSound, OneConnPerAdmin
<1>4. BoardSound'
  BY <1>1 DEF BoardIInv, BoardSound, WireOf, ListActiveSessions
<1>5. ListSound'
  BY <1>1 DEF BoardIInv, ListSound, Listening, Hears, NodesSnapshot
<1>6. QED
  BY <1>2, <1>3, <1>4, <1>5 DEF BoardIInv

\* A socket that is not open changes hands between the timer and the dialer.
LEMMA DialKeeps ==
  ASSUME BoardConstants, BoardIInv, NEW t \in Tabs, sock[t] \in {"dialing", "waiting"},
         NEW x \in {"dialing", "waiting"}, sock' = [sock EXCEPT ![t] = x],
         UNCHANGED <<dbVars, serverVars, page, view, fetch, raced>>,
         UNCHANGED <<presses, mishaps, clean>>
  PROVE  BoardIInv'
<1>1. UNCHANGED <<row, nodes, cap, bans, admins, conns, byAdmin, page, view, fetch, raced,
                  presses, mishaps, clean>>
  BY DEF dbVars, serverVars
<1>2. ServerTyped /\ TabsTyped /\ SocketsPaired /\ PagesKept /\ WiresSound /\ OneConnPerAdmin
      /\ BoardSound /\ ListSound /\ OneBanPerScope
  BY DEF BoardIInv
<1>3. /\ \A o \in Tabs : sock'[o] = IF o = t THEN x ELSE sock[o]
      /\ sock[t] \notin Peers /\ x \notin Peers /\ x # Null /\ sock[t] # Null
  BY <1>2, RowsAreThere DEF TabsTyped
<1>4. ServerTyped' /\ OneBanPerScope' /\ OneConnPerAdmin'
  BY <1>1, <1>2 DEF ServerTyped, OneBanPerScope, OneConnPerAdmin
<1>5. TabsTyped'
  BY <1>1, <1>2 DEF TabsTyped
<1>6. SocketsPaired'
  <2>1. \A p \in Peers : conns[p] # Null => conns[p].tab \in Tabs
    BY <1>2 DEF ServerTyped, ConnRows
  <2>2. QED
    BY <1>1, <1>2, <1>3, <2>1 DEF SocketsPaired
<1>7. PagesKept'
  BY <1>1, <1>2, <1>3 DEF PagesKept
<1>8. WiresSound'
  BY <1>1, <1>2 DEF WiresSound, WireSound
<1>9. BoardSound'
  <2>1. \A o \in clean : WireOf(o)' = WireOf(o)
    BY <1>1, <1>2, <1>3 DEF WireOf, TabsTyped
  <2>2. QED
    BY <1>1, <1>2, <2>1 DEF BoardSound, ListActiveSessions
<1>10. ListSound'
  <2>1. \A o \in Tabs : Listening(o)' => Listening(o) /\ sock'[o] = sock[o]
    BY <1>1, <1>3 DEF Listening, Hears
  <2>2. QED
    BY <1>1, <1>2, <2>1 DEF ListSound, NodesSnapshot
<1>11. QED
  BY <1>4, <1>5, <1>6, <1>7, <1>8, <1>9, <1>10 DEF BoardIInv

\* An answer becomes the rows of the nodes page.
LEMMA AnswerKeeps ==
  ASSUME BoardConstants, BoardIInv, NEW t \in Tabs, Answer(t)
  PROVE  BoardIInv'
<1>1. UNCHANGED <<row, nodes, cap, bans, admins, conns, byAdmin, page, sock, presses, mishaps,
                  clean>>
  BY DEF Answer, dbVars, serverVars
<1>2. ServerTyped /\ TabsTyped /\ SocketsPaired /\ PagesKept /\ WiresSound /\ OneConnPerAdmin
      /\ BoardSound /\ ListSound /\ OneBanPerScope
  BY DEF BoardIInv
<1>3. /\ fetch[t] \in FetchRows /\ page[t] = "nodes"
      /\ fetch' = [fetch EXCEPT ![t] = Null]
      /\ view' = [view EXCEPT ![t] = fetch[t].answer]
      /\ raced' = IF fetch[t].first THEN raced ELSE raced \cup {t}
  BY <1>2 DEF Answer, TabsTyped, PagesKept
<1>4. ServerTyped' /\ OneBanPerScope' /\ OneConnPerAdmin' /\ SocketsPaired'
  BY <1>1, <1>2 DEF ServerTyped, OneBanPerScope, OneConnPerAdmin, SocketsPaired
<1>5. TabsTyped'
  BY <1>1, <1>2, <1>3 DEF TabsTyped, FetchRows
<1>6. PagesKept'
  BY <1>1, <1>2, <1>3 DEF PagesKept, TabsTyped
<1>7. WiresSound'
  BY <1>1, <1>2 DEF WiresSound, WireSound
<1>8. BoardSound'
  <2>1. \A o \in clean : page[o] = "streams" => view'[o] = view[o] /\ WireOf(o)' = WireOf(o)
    BY <1>1, <1>2, <1>3 DEF WireOf, TabsTyped
  <2>2. QED
    BY <1>1, <1>2, <2>1 DEF BoardSound, ListActiveSessions
<1>9. ASSUME NEW o \in Tabs, page[o] = "nodes", Listening(o)
      PROVE  NewestIsSnapshot(conns[sock[o]].wire, fetch'[o], view'[o], o \in raced',
                              NodesSnapshot)
  <2>1. NewestIsSnapshot(conns[sock[o]].wire, fetch[o], view[o], o \in raced, NodesSnapshot)
    BY <1>2, <1>9 DEF ListSound
  <2>2. CASE o # t
    <3>1. fetch'[o] = fetch[o] /\ view'[o] = view[o] /\ (o \in raced' <=> o \in raced)
      BY <1>2, <1>3, <2>2 DEF TabsTyped
    <3>2. QED
      BY <2>1, <3>1 DEF NewestIsSnapshot
  <2>3. CASE o = t
    <3>1. fetch'[t] = Null /\ view'[t] = fetch[t].answer /\ fetch[t] # Null
      BY <1>2, <1>3, RowsAreThere DEF TabsTyped
    <3>2. t \notin raced' => fetch[t].first
      BY <1>3
    <3>3. QED
      BY <2>1, <2>3, <3>1, <3>2 DEF NewestIsSnapshot
  <2>4. QED
    BY <2>2, <2>3
<1>10. ListSound'
  BY <1>1, <1>9 DEF ListSound, Listening, Hears, NodesSnapshot
<1>11. QED
  BY <1>4, <1>5, <1>6, <1>7, <1>8, <1>10 DEF BoardIInv

\* A page opens in a tab that showed none.
LEMMA ArriveKeeps ==
  ASSUME BoardConstants, BoardIInv, NEW t \in Tabs, page[t] = "away",
         NEW pg \in {"streams", "nodes"}, NEW f \in FetchRows \cup {Null},
         NEW v \in (SUBSET Sessions) \cup (SUBSET NodeRows),
         page' = [page EXCEPT ![t] = pg], sock' = [sock EXCEPT ![t] = "dialing"],
         view' = [view EXCEPT ![t] = v], fetch' = [fetch EXCEPT ![t] = f],
         f # Null => pg = "nodes", pg = "streams" => v \subseteq Sessions,
         clean' \in {clean, clean \cup {t}},
         t \in clean' /\ pg = "streams" => v = ListActiveSessions,
         presses' \in 0 .. MaxPresses, UNCHANGED <<dbVars, serverVars, raced, mishaps>>
  PROVE  BoardIInv'
<1>1. UNCHANGED <<row, nodes, cap, bans, admins, conns, byAdmin, raced, mishaps>>
  BY DEF dbVars, serverVars
<1>2. ServerTyped /\ TabsTyped /\ SocketsPaired /\ PagesKept /\ WiresSound /\ OneConnPerAdmin
      /\ BoardSound /\ ListSound /\ OneBanPerScope
  BY DEF BoardIInv
<1>3. /\ \A o \in Tabs : sock'[o] = IF o = t THEN "dialing" ELSE sock[o]
      /\ \A o \in Tabs : page'[o] = IF o = t THEN pg ELSE page[o]
      /\ \A o \in Tabs : view'[o] = IF o = t THEN v ELSE view[o]
      /\ \A o \in Tabs : fetch'[o] = IF o = t THEN f ELSE fetch[o]
      /\ sock[t] = Null /\ "dialing" \notin Peers /\ Null \notin Peers /\ "dialing" # Null
  BY <1>2, RowsAreThere DEF TabsTyped, PagesKept
<1>4. \A p \in Peers : conns[p] # Null /\ conns[p].up => conns[p].tab \in Tabs \ {t}
  BY <1>2, <1>3 DEF SocketsPaired, ServerTyped, ConnRows
<1>5. ServerTyped' /\ OneBanPerScope' /\ OneConnPerAdmin'
  BY <1>1, <1>2 DEF ServerTyped, OneBanPerScope, OneConnPerAdmin
<1>6. TabsTyped'
  BY <1>1, <1>2 DEF TabsTyped
<1>7. SocketsPaired'
  BY <1>1, <1>2, <1>3, <1>4 DEF SocketsPaired
<1>8. PagesKept'
  BY <1>1, <1>2, <1>3 DEF PagesKept
<1>9. WiresSound'
  BY <1>1, <1>2, <1>3, <1>4 DEF WiresSound, WireSound
<1>10. ASSUME NEW o \in clean', page'[o] = "streams", NEW s \in Sessions
       PROVE  Foretold(WireOf(o)', view'[o], s, ListActiveSessions)
  <2>1. CASE o = t
    <3>1. WireOf(t)' = <<>> /\ view'[t] = ListActiveSessions
      BY <1>3, <1>10, <2>1 DEF WireOf
    <3>2. QED
      BY <2>1, <3>1, ForetoldEmpty
  <2>2. CASE o # t
    <3>1. o \in Tabs /\ o \in clean /\ page[o] = "streams" /\ view'[o] = view[o]
      BY <1>2, <1>3, <1>10, <2>2 DEF TabsTyped
    <3>2. WireOf(o)' = WireOf(o)
      BY <1>1, <1>3, <2>2, <3>1 DEF WireOf
    <3>3. QED
      BY <1>2, <3>1, <3>2 DEF BoardSound
  <2>3. QED
    BY <2>1, <2>2
<1>11. BoardSound'
  BY <1>1, <1>10 DEF BoardSound, ListActiveSessions
<1>12. ListSound'
  <2>1. \A o \in Tabs : Listening(o)' =>
          /\ Listening(o) /\ sock'[o] = sock[o] /\ page'[o] = page[o]
          /\ fetch'[o] = fetch[o] /\ view'[o] = view[o]
    BY <1>1, <1>3 DEF Listening, Hears
  <2>2. QED
    BY <1>1, <1>2, <2>1 DEF ListSound, NodesSnapshot
<1>13. QED
  BY <1>5, <1>6, <1>7, <1>8, <1>9, <1>11, <1>12 DEF BoardIInv

LEMMA LoadPageKeeps ==
  ASSUME BoardConstants, BoardIInv, NEW t \in Tabs, NEW pg \in {"streams", "nodes"},
         LoadPage(t, pg)
  PROVE  BoardIInv'
<1> DEFINE v == IF pg = "nodes" THEN NodesSnapshot ELSE ListActiveSessions
<1>1. NodesSnapshot \in SUBSET NodeRows /\ ListActiveSessions \in SUBSET Sessions
  BY Announced DEF BoardIInv, ListActiveSessions
<1>2. v \in (SUBSET Sessions) \cup (SUBSET NodeRows)
      /\ (pg = "streams" => v \subseteq Sessions /\ v = ListActiveSessions)
  BY <1>1
<1>3. presses' \in 0 .. MaxPresses
  BY DEF LoadPage, Press, BoardIInv, ServerTyped, BoardConstants
<1>4. fetch[t] = Null /\ fetch' = [fetch EXCEPT ![t] = Null]
  BY DEF LoadPage, BoardIInv, PagesKept, TabsTyped
<1>5. /\ page[t] = "away" /\ page' = [page EXCEPT ![t] = pg]
      /\ sock' = [sock EXCEPT ![t] = "dialing"] /\ view' = [view EXCEPT ![t] = v]
      /\ clean' = clean \cup {t} /\ UNCHANGED <<dbVars, serverVars, raced, mishaps>>
  BY DEF LoadPage
<1> HIDE DEF v
<1>6. Null \in FetchRows \cup {Null} /\ clean' \in {clean, clean \cup {t}}
  BY <1>5
<1>7. QED
  BY <1>2, <1>3, <1>4, <1>5, <1>6, ArriveKeeps

LEMMA EnterPageKeeps ==
  ASSUME BoardConstants, BoardIInv, NEW t \in Tabs, NEW pg \in {"streams", "nodes"},
         EnterPage(t, pg)
  PROVE  BoardIInv'
<1> DEFINE f == IF pg = "nodes" THEN [answer |-> NodesSnapshot, first |-> TRUE] ELSE Null
<1>1. NodesSnapshot \in SUBSET NodeRows
  BY Announced DEF BoardIInv
<1>2. f \in FetchRows \cup {Null} /\ (f # Null => pg = "nodes")
  BY <1>1 DEF FetchRows
<1>3. presses' \in 0 .. MaxPresses
  BY DEF EnterPage, Press, BoardIInv, ServerTyped, BoardConstants
<1>4. page[t] = "away" /\ view[t] = {} /\ fetch[t] = Null /\ t \notin clean
  BY DEF EnterPage, BoardIInv, PagesKept
<1>5. view' = [view EXCEPT ![t] = {}]
  BY <1>4 DEF EnterPage, BoardIInv, TabsTyped
<1>6. fetch' = [fetch EXCEPT ![t] = f]
  BY <1>4 DEF EnterPage, BoardIInv, TabsTyped
<1>7. /\ page' = [page EXCEPT ![t] = pg]
      /\ sock' = [sock EXCEPT ![t] = "dialing"]
      /\ clean' \in {clean, clean \cup {t}}
      /\ UNCHANGED <<dbVars, serverVars, raced, mishaps>>
  BY DEF EnterPage
<1>8. t \in clean' /\ pg = "streams" => {} = ListActiveSessions
  BY <1>4 DEF EnterPage
<1> HIDE DEF f
<1>9. {} \in (SUBSET Sessions) \cup (SUBSET NodeRows) /\ {} \subseteq Sessions
  OBVIOUS
<1>10. QED
  BY <1>2, <1>3, <1>4, <1>5, <1>6, <1>7, <1>8, <1>9, ArriveKeeps

-----------------------------------------------------------------------------
(* A browser's end closes.                                                  *)

\* What was in flight is gone, and the gateway keeps the connection for now.
LEMMA RowMade ==
  ASSUME NEW t \in Tabs, NEW k \in BOOLEAN, NEW u \in BOOLEAN, NEW w \in Seq(FrameRows)
  PROVE  [tab |-> t, kept |-> k, up |-> u, wire |-> w] \in ConnRows
BY DEF ConnRows

LEMMA CutShape ==
  ASSUME BoardConstants, ServerTyped, NEW q \in Peers, conns[q] # Null,
         conns' = [conns EXCEPT ![q].up = FALSE, ![q].wire = <<>>]
  PROVE  /\ conns' \in [Peers -> ConnRows \cup {Null}]
         /\ \A p \in Peers \ {q} : conns'[p] = conns[p]
         /\ conns'[q] # Null /\ conns'[q].tab = conns[q].tab
         /\ conns'[q].kept = conns[q].kept /\ ~conns'[q].up /\ conns'[q].wire = <<>>
<1>1. conns[q] \in ConnRows
  BY DEF ServerTyped
<1>2. conns'[q] = [conns[q] EXCEPT !.up = FALSE, !.wire = <<>>]
  BY DEF ServerTyped
<1>3. <<>> \in Seq(FrameRows)
  OBVIOUS
<1>4. conns[q] = [tab |-> conns[q].tab, kept |-> conns[q].kept,
                   up |-> conns[q].up, wire |-> conns[q].wire]
      /\ conns[q].tab \in Tabs /\ conns[q].kept \in BOOLEAN
  BY <1>1 DEF ConnRows
<1>5. conns'[q] = [tab |-> conns[q].tab, kept |-> conns[q].kept, up |-> FALSE, wire |-> <<>>]
  BY <1>2, <1>4, ZenonT(40)
<1>6. conns'[q] \in ConnRows /\ conns'[q].tab = conns[q].tab
      /\ conns'[q].kept = conns[q].kept /\ ~conns'[q].up /\ conns'[q].wire = <<>>
  <2>1. conns'[q] \in ConnRows
    BY <1>3, <1>4, <1>5, RowMade
  <2>2. QED
    BY <1>5, <2>1
<1>7. QED
  BY <1>6, RowsAreThere DEF ServerTyped

\* The index is about who is kept, not about what is in flight.
LEMMA OneConnFrame ==
  ASSUME ServerTyped, OneConnPerAdmin, UNCHANGED byAdmin,
         \A p \in Peers : /\ conns'[p] # Null <=> conns[p] # Null
                          /\ conns[p] # Null => /\ conns'[p].tab = conns[p].tab
                                                /\ conns'[p].kept = conns[p].kept
  PROVE  OneConnPerAdmin'
<1>1. \A u \in Users : byAdmin[u] # Null => byAdmin[u] \in Peers
  BY DEF ServerTyped
<1>2. \A p \in Peers : conns'[p] # Null /\ conns'[p].kept => byAdmin'[Owner[conns'[p].tab]] = p
  BY DEF OneConnPerAdmin
<1>3. ASSUME NEW u \in Users, byAdmin'[u] # Null
      PROVE  /\ conns'[byAdmin'[u]] # Null /\ conns'[byAdmin'[u]].kept
             /\ Owner[conns'[byAdmin'[u]].tab] = u
  <2>1. byAdmin[u] \in Peers /\ byAdmin'[u] = byAdmin[u] /\ byAdmin[u] # Null
    BY <1>1, <1>3
  <2>2. conns[byAdmin[u]] # Null /\ conns[byAdmin[u]].kept /\ Owner[conns[byAdmin[u]].tab] = u
    BY <2>1 DEF OneConnPerAdmin
  <2>3. QED
    BY <2>1, <2>2
<1>4. QED
  BY <1>2, <1>3 DEF OneConnPerAdmin

LEMMA WireFrame ==
  ASSUME NEW o \in Tabs, sock'[o] = sock[o],
         sock[o] \in Peers => conns'[sock[o]] = conns[sock[o]]
  PROVE  WireOf(o)' = WireOf(o)
BY DEF WireOf

LEMMA CutKeeps ==
  ASSUME BoardConstants, BoardIInv, NEW t \in Tabs, sock[t] \in Peers,
         conns' = [conns EXCEPT ![sock[t]].up = FALSE, ![sock[t]].wire = <<>>],
         NEW x \in {Null, "waiting"}, sock' = [sock EXCEPT ![t] = x],
         \A o \in Tabs \ {t} : page'[o] = page[o], UNCHANGED byAdmin
  PROVE  /\ conns' \in [Peers -> ConnRows \cup {Null}]
         /\ SocketsPaired' /\ WiresSound' /\ OneConnPerAdmin'
         /\ \A o \in Tabs \ {t} : sock'[o] = sock[o] /\ WireOf(o)' = WireOf(o)
                                  /\ (Listening(o)' <=> Listening(o))
                                  /\ (Listening(o) => conns'[sock[o]] = conns[sock[o]])
         /\ WireOf(t)' = <<>> /\ ~Listening(t)' /\ sock'[t] = x
<1> DEFINE q == sock[t]
<1>1. ServerTyped /\ TabsTyped /\ SocketsPaired /\ WiresSound /\ OneConnPerAdmin
  BY DEF BoardIInv
<1>2. conns[q] # Null /\ conns[q].tab = t /\ q \in Peers
  BY <1>1 DEF SocketsPaired
<1>3. conns' = [conns EXCEPT ![q].up = FALSE, ![q].wire = <<>>]
  OBVIOUS
<1>4. /\ \A o \in Tabs : sock'[o] = IF o = t THEN x ELSE sock[o]
      /\ x \notin Peers
  BY <1>1, RowsAreThere DEF TabsTyped
<1>5. \A o \in Tabs \ {t} : sock[o] # q
  BY <1>1, <1>2 DEF SocketsPaired
<1> HIDE DEF q
<1>6. /\ conns' \in [Peers -> ConnRows \cup {Null}]
      /\ \A p \in Peers \ {q} : conns'[p] = conns[p]
      /\ conns'[q] # Null /\ conns'[q].tab = conns[q].tab
      /\ conns'[q].kept = conns[q].kept /\ ~conns'[q].up /\ conns'[q].wire = <<>>
  BY <1>1, <1>2, <1>3, CutShape
<1>7. \A p \in Peers : conns'[p] # Null /\ conns'[p].up =>
        p # q /\ conns'[p] = conns[p] /\ conns[p].tab \in Tabs \ {t}
  <2>1. SUFFICES ASSUME NEW p \in Peers, conns'[p] # Null, conns'[p].up
                 PROVE  p # q /\ conns'[p] = conns[p] /\ conns[p].tab \in Tabs \ {t}
    OBVIOUS
  <2>2. p # q /\ conns'[p] = conns[p]
    BY <1>6, <2>1
  <2>3. conns[p].tab \in Tabs /\ sock[conns[p].tab] = p
    BY <1>1, <2>1, <2>2 DEF ServerTyped, ConnRows, SocketsPaired
  <2>4. QED
    BY <2>2, <2>3 DEF q
<1>8. SocketsPaired'
  BY <1>1, <1>4, <1>5, <1>6, <1>7, SMTT(30) DEF SocketsPaired
<1>9. WiresSound'
  <2>1. \A p \in Peers : conns'[p] # Null /\ conns'[p].up =>
          page'[conns'[p].tab] = page[conns[p].tab]
    BY <1>7
  <2>2. SUFFICES ASSUME NEW p \in Peers, conns'[p] # Null, conns'[p].up
                 PROVE  WireSound(conns[p])'
    BY DEF WiresSound
  <2>3. conns'[p] = conns[p] /\ page'[conns[p].tab] = page[conns[p].tab] /\ WireSound(conns[p])
    BY <1>1, <1>7, <2>1, <2>2 DEF WiresSound
  <2>4. QED
    BY <2>3 DEF WireSound
<1>10. OneConnPerAdmin'
  <2>1. \A p \in Peers : /\ conns'[p] # Null <=> conns[p] # Null
                         /\ conns[p] # Null => /\ conns'[p].tab = conns[p].tab
                                               /\ conns'[p].kept = conns[p].kept
    BY <1>2, <1>6
  <2>2. QED
    BY <1>1, <2>1, OneConnFrame
<1>11. ASSUME NEW o \in Tabs \ {t}
       PROVE  sock'[o] = sock[o] /\ WireOf(o)' = WireOf(o)
                                 /\ (Listening(o)' <=> Listening(o))
                                 /\ (Listening(o) => conns'[sock[o]] = conns[sock[o]])
  <2>1. sock'[o] = sock[o] /\ sock[o] # q
    BY <1>4, <1>5
  <2>2. sock[o] \in Peers => conns'[sock[o]] = conns[sock[o]]
    BY <1>6, <2>1
  <2>3. WireOf(o)' = WireOf(o)
    BY <2>1, <2>2, WireFrame
  <2>4. Listening(o)' <=> Listening(o)
    BY <2>1, <2>2 DEF Listening, Hears
  <2>5. QED
    BY <2>1, <2>2, <2>3, <2>4 DEF Listening
<1>12. WireOf(t)' = <<>> /\ ~Listening(t)' /\ sock'[t] = x
  BY <1>4 DEF WireOf, Listening
<1>13. QED
  BY <1>6, <1>8, <1>9, <1>10, <1>11, <1>12

\* A socket is lost: the tab waits before it dials again.
LEMMA DropKeeps ==
  ASSUME BoardConstants, BoardIInv, NEW t \in Tabs, sock[t] \in Peers,
         conns' = [conns EXCEPT ![sock[t]].up = FALSE, ![sock[t]].wire = <<>>],
         sock' = [sock EXCEPT ![t] = "waiting"],
         clean' \subseteq clean, mishaps' \in 0 .. MaxMishaps,
         t \in clean' /\ page[t] = "streams" =>
           \A s \in Sessions : Foretold(<<>>, view[t], s, ListActiveSessions),
         UNCHANGED <<dbVars, byAdmin, page, view, fetch, raced, presses>>
  PROVE  BoardIInv'
<1>1. UNCHANGED <<row, nodes, cap, bans, admins, byAdmin, page, view, fetch, raced, presses>>
  BY DEF dbVars
<1>2. ServerTyped /\ TabsTyped /\ PagesKept /\ BoardSound /\ ListSound /\ OneBanPerScope
  BY DEF BoardIInv
<1>3. "waiting" \in {Null, "waiting"} /\ (\A o \in Tabs \ {t} : page'[o] = page[o])
      /\ UNCHANGED byAdmin
  BY <1>1
<1>4. /\ conns' \in [Peers -> ConnRows \cup {Null}]
      /\ SocketsPaired' /\ WiresSound' /\ OneConnPerAdmin'
      /\ \A o \in Tabs \ {t} : sock'[o] = sock[o] /\ WireOf(o)' = WireOf(o)
                               /\ (Listening(o)' <=> Listening(o))
                               /\ (Listening(o) => conns'[sock[o]] = conns[sock[o]])
      /\ WireOf(t)' = <<>> /\ ~Listening(t)' /\ sock'[t] = "waiting"
  BY <1>3, CutKeeps
<1>5. ServerTyped' /\ OneBanPerScope'
  BY <1>1, <1>2, <1>4 DEF ServerTyped, OneBanPerScope
<1>6. TabsTyped'
  BY <1>1, <1>2 DEF TabsTyped
<1>7. PagesKept'
  <2>1. sock[t] # Null /\ "waiting" # Null
    BY RowsAreThere
  <2>2. \A o \in Tabs : sock'[o] = Null <=> page'[o] = "away"
    BY <1>1, <1>2, <1>4, <2>1 DEF PagesKept
  <2>3. QED
    BY <1>1, <1>2, <2>2 DEF PagesKept
<1>8. ASSUME NEW o \in clean', page[o] = "streams", NEW s \in Sessions
      PROVE  Foretold(WireOf(o)', view[o], s, ListActiveSessions)
  <2>1. CASE o = t
    BY <1>4, <1>8, <2>1
  <2>2. CASE o # t
    <3>1. o \in Tabs /\ o \in clean /\ WireOf(o)' = WireOf(o)
      BY <1>2, <1>4, <2>2 DEF TabsTyped
    <3>2. QED
      BY <1>2, <1>8, <3>1 DEF BoardSound
  <2>3. QED
    BY <2>1, <2>2
<1>9. BoardSound'
  BY <1>1, <1>8 DEF BoardSound, ListActiveSessions
<1>10. ASSUME NEW o \in Tabs, page[o] = "nodes", Listening(o)'
       PROVE  NewestIsSnapshot(conns'[sock'[o]].wire, fetch[o], view[o], o \in raced,
                               NodesSnapshot)
  <2>1. o # t
    BY <1>4, <1>10
  <2>2. Listening(o) /\ sock'[o] = sock[o] /\ conns'[sock[o]] = conns[sock[o]]
    BY <1>4, <1>10, <2>1
  <2>3. QED
    BY <1>2, <1>10, <2>2 DEF ListSound
<1>11. ListSound'
  BY <1>1, <1>10 DEF ListSound, NodesSnapshot
<1>12. QED
  BY <1>4, <1>5, <1>6, <1>7, <1>9, <1>11 DEF BoardIInv

LEMMA NetworkDropKeeps ==
  ASSUME BoardConstants, BoardIInv, NEW t \in Tabs, NetworkDrop(t)
  PROVE  BoardIInv'
<1>1. /\ sock[t] \in Peers
      /\ conns' = [conns EXCEPT ![sock[t]].up = FALSE, ![sock[t]].wire = <<>>]
      /\ sock' = [sock EXCEPT ![t] = "waiting"]
      /\ clean' = IF conns[sock[t]].wire = <<>> THEN clean ELSE clean \ {t}
      /\ UNCHANGED <<dbVars, byAdmin, page, view, fetch, raced, presses>>
  BY DEF NetworkDrop, OnClose
<1>2. mishaps' \in 0 .. MaxMishaps
  BY DEF NetworkDrop, Mishap, BoardIInv, ServerTyped, BoardConstants
<1>3. clean' \subseteq clean
  BY <1>1
<1>4. ASSUME t \in clean', page[t] = "streams"
      PROVE  \A s \in Sessions : Foretold(<<>>, view[t], s, ListActiveSessions)
  <2>1. t \in clean /\ WireOf(t) = <<>>
    BY <1>1, <1>4 DEF WireOf
  <2>2. \A s \in Sessions : Foretold(WireOf(t), view[t], s, ListActiveSessions)
    BY <1>4, <2>1 DEF BoardIInv, BoardSound
  <2>3. QED
    BY <2>1, <2>2
<1>5. QED
  BY <1>1, <1>2, <1>3, <1>4, DropKeeps

LEMMA LeavePageKeeps ==
  ASSUME BoardConstants, BoardIInv, NEW t \in Tabs, LeavePage(t)
  PROVE  BoardIInv'
<1>1. /\ page' = [page EXCEPT ![t] = "away"] /\ view' = [view EXCEPT ![t] = {}]
      /\ fetch' = [fetch EXCEPT ![t] = Null] /\ sock' = [sock EXCEPT ![t] = Null]
      /\ raced' = raced \ {t} /\ clean' = clean \ {t}
      /\ UNCHANGED <<row, nodes, cap, bans, admins, byAdmin, presses, mishaps>>
  BY DEF LeavePage, dbVars
<1>2. ServerTyped /\ TabsTyped /\ SocketsPaired /\ PagesKept /\ WiresSound /\ OneConnPerAdmin
      /\ BoardSound /\ ListSound /\ OneBanPerScope
  BY DEF BoardIInv
<1>3. /\ \A o \in Tabs : page'[o] = IF o = t THEN "away" ELSE page[o]
      /\ \A o \in Tabs : view'[o] = IF o = t THEN {} ELSE view[o]
      /\ \A o \in Tabs : fetch'[o] = IF o = t THEN Null ELSE fetch[o]
      /\ \A o \in Tabs : sock'[o] = IF o = t THEN Null ELSE sock[o]
      /\ Null \notin Peers
  BY <1>1, <1>2, RowsAreThere DEF TabsTyped
<1>4. /\ conns' \in [Peers -> ConnRows \cup {Null}]
      /\ SocketsPaired' /\ WiresSound' /\ OneConnPerAdmin'
      /\ \A o \in Tabs \ {t} : sock'[o] = sock[o] /\ WireOf(o)' = WireOf(o)
                               /\ (Listening(o)' <=> Listening(o))
                               /\ (Listening(o) => conns'[sock[o]] = conns[sock[o]])
      /\ WireOf(t)' = <<>> /\ ~Listening(t)' /\ sock'[t] = Null
  <2>1. CASE sock[t] \in Peers
    <3>1. conns' = [conns EXCEPT ![sock[t]].up = FALSE, ![sock[t]].wire = <<>>]
      BY <2>1 DEF LeavePage
    <3>2. Null \in {Null, "waiting"} /\ (\A o \in Tabs \ {t} : page'[o] = page[o])
          /\ UNCHANGED byAdmin
      BY <1>1, <1>3
    <3>3. QED
      BY <1>1, <2>1, <3>1, <3>2, CutKeeps
  <2>2. CASE sock[t] \notin Peers
    <3>1. conns' = conns /\ byAdmin' = byAdmin
      BY <1>1, <2>2 DEF LeavePage
    <3>2. \A p \in Peers : conns[p] # Null /\ conns[p].up => conns[p].tab \in Tabs \ {t}
      BY <1>2, <2>2 DEF SocketsPaired, ServerTyped, ConnRows
    <3>3. SocketsPaired'
      BY <1>2, <1>3, <3>1, <3>2 DEF SocketsPaired
    <3>4. WiresSound'
      BY <1>2, <1>3, <3>1, <3>2 DEF WiresSound, WireSound
    <3>5. OneConnPerAdmin'
      BY <1>2, <3>1 DEF OneConnPerAdmin
    <3>6. \A o \in Tabs \ {t} : sock'[o] = sock[o] /\ WireOf(o)' = WireOf(o)
      BY <1>3, <3>1 DEF WireOf
    <3>7. \A o \in Tabs \ {t} : Listening(o)' <=> Listening(o)
      BY <1>3, <3>1 DEF Listening, Hears
    <3>8. WireOf(t)' = <<>> /\ ~Listening(t)' /\ sock'[t] = Null
      BY <1>3 DEF WireOf, Listening
    <3>9. QED
      BY <1>2, <3>1, <3>3, <3>4, <3>5, <3>6, <3>7, <3>8 DEF ServerTyped
  <2>3. QED
    BY <2>1, <2>2
<1>5. ServerTyped' /\ OneBanPerScope'
  BY <1>1, <1>2, <1>4 DEF ServerTyped, OneBanPerScope
<1>6. TabsTyped'
  BY <1>1, <1>2 DEF TabsTyped
<1>7. PagesKept'
  BY <1>1, <1>2, <1>3 DEF PagesKept
<1>8. ASSUME NEW o \in clean', page'[o] = "streams"
      PROVE  o \in clean /\ page[o] = "streams" /\ view'[o] = view[o] /\ WireOf(o)' = WireOf(o)
  BY <1>1, <1>2, <1>3, <1>4, <1>8 DEF TabsTyped
<1>9. BoardSound'
  BY <1>1, <1>2, <1>8 DEF BoardSound, ListActiveSessions
<1>10. ASSUME NEW o \in Tabs, page'[o] = "nodes", Listening(o)'
       PROVE  NewestIsSnapshot(conns'[sock'[o]].wire, fetch'[o], view'[o], o \in raced',
                               NodesSnapshot)
  <2>1. o # t
    BY <1>4, <1>10
  <2>2. Listening(o) /\ sock'[o] = sock[o] /\ conns'[sock[o]] = conns[sock[o]]
        /\ page[o] = "nodes" /\ fetch'[o] = fetch[o] /\ view'[o] = view[o]
        /\ (o \in raced' <=> o \in raced)
    BY <1>1, <1>3, <1>4, <1>10, <2>1
  <2>3. NewestIsSnapshot(conns[sock[o]].wire, fetch[o], view[o], o \in raced, NodesSnapshot)
    BY <1>2, <2>2 DEF ListSound
  <2>4. QED
    BY <2>2, <2>3 DEF NewestIsSnapshot
<1>11. ListSound'
  BY <1>1, <1>10 DEF ListSound, NodesSnapshot
<1>12. QED
  BY <1>4, <1>5, <1>6, <1>7, <1>9, <1>11 DEF BoardIInv

-----------------------------------------------------------------------------
(* The gateway lets a connection go.                                        *)

\* Closed(c): no longer kept, with the close frame behind what was in flight.
Closed(c) == [c EXCEPT !.kept = FALSE, !.wire = Append(@, Closing)]

LEMMA ClosedShape ==
  ASSUME ServerTyped, NEW c \in ConnRows
  PROVE  /\ Closed(c) \in ConnRows /\ Closed(c).tab = c.tab /\ Closed(c).up = c.up
         /\ Closed(c).kept = FALSE /\ Closed(c).wire = Append(c.wire, Closing)
<1>1. c = [tab |-> c.tab, kept |-> c.kept, up |-> c.up, wire |-> c.wire]
      /\ c.tab \in Tabs /\ c.up \in BOOLEAN /\ c.wire \in Seq(FrameRows)
  BY DEF ConnRows
<1>2. Closing \in FrameRows
  BY Announced
<1> DEFINE w == Append(c.wire, Closing)
<1>3. w \in Seq(FrameRows)
  BY <1>1, <1>2
<1> HIDE DEF w
<1>4. Closed(c) = [tab |-> c.tab, kept |-> FALSE, up |-> c.up, wire |-> w]
  <2>1. Closed(c) = [c EXCEPT !.kept = FALSE, !.wire = w]
    BY <1>1 DEF Closed, w
  <2>2. QED
    BY <1>1, <2>1
<1>5. Closed(c) \in ConnRows
  BY <1>1, <1>3, <1>4, RowMade
<1>6. QED
  BY <1>4, <1>5 DEF w

\* The close frame comes behind frames the page can show.
LEMMA ClosedWireSound ==
  ASSUME NEW c \in ConnRows, c.kept, WireSound(c), NEW d, d.tab = c.tab, ~d.kept,
         d.wire = Append(c.wire, Closing)
  PROVE  WireSound(d)
<1>1. c.wire \in Seq(FrameRows)
  BY DEF ConnRows
<1>2. \A i \in DOMAIN c.wire : Showable(page[c.tab], c.wire[i])
  BY DEF WireSound
<1>3. /\ DOMAIN d.wire = 1 .. Len(c.wire) + 1 /\ Len(d.wire) = Len(c.wire) + 1
      /\ DOMAIN c.wire = 1 .. Len(c.wire) /\ Len(c.wire) \in Nat
      /\ \A i \in DOMAIN c.wire : d.wire[i] = c.wire[i]
      /\ d.wire[Len(c.wire) + 1] = Closing
  BY <1>1
<1>4. QED
  BY <1>2, <1>3 DEF WireSound

\* It says nothing of a session.
LEMMA ClosedForetells ==
  ASSUME ServerTyped, NEW w \in Seq(FrameRows), NEW s, NEW V, NEW A, Foretold(w, V, s, A)
  PROVE  Foretold(Append(w, Closing), V, s, A)
<1>1. Closing \in FrameRows /\ Closing.name = "close"
  BY Announced
<1>2. Closing.name \notin SessionFrames
  BY <1>1 DEF SessionFrames
<1>3. QED
  BY <1>1, <1>2, ForetoldAppend

LEMMA IdleTimeoutKeeps ==
  ASSUME BoardConstants, BoardIInv, NEW p \in Peers, IdleTimeout(p)
  PROVE  BoardIInv'
<1>1. /\ Hears(p)
      /\ conns' = [conns EXCEPT ![p].kept = FALSE, ![p].wire = Append(@, Closing)]
      /\ byAdmin' = [u \in Users |-> IF byAdmin[u] = p THEN Null ELSE byAdmin[u]]
      /\ UNCHANGED <<row, nodes, cap, bans, admins, page, sock, view, fetch, raced, presses, clean>>
  BY DEF IdleTimeout, OnAdminWsClose, dbVars, tabVars
<1>2. ServerTyped /\ TabsTyped /\ SocketsPaired /\ PagesKept /\ WiresSound /\ OneConnPerAdmin
      /\ BoardSound /\ ListSound /\ OneBanPerScope
  BY DEF BoardIInv
<1>3. conns[p] # Null /\ conns[p] \in ConnRows /\ conns[p].kept /\ conns[p].up
  BY <1>1, <1>2 DEF Hears, ServerTyped
<1>4. conns'[p] = Closed(conns[p]) /\ \A q \in Peers \ {p} : conns'[q] = conns[q]
  BY <1>1, <1>2 DEF Closed, ServerTyped
<1>5. /\ conns'[p] \in ConnRows /\ conns'[p] # Null /\ conns'[p].tab = conns[p].tab
      /\ conns'[p].up = conns[p].up /\ ~conns'[p].kept
      /\ conns'[p].wire = Append(conns[p].wire, Closing)
  BY <1>2, <1>3, <1>4, ClosedShape, RowsAreThere
<1>6. mishaps' \in 0 .. MaxMishaps
  BY <1>2 DEF IdleTimeout, Mishap, ServerTyped, BoardConstants
<1>7. ServerTyped'
  <2>1. conns' \in [Peers -> ConnRows \cup {Null}]
    BY <1>1, <1>2, <1>5 DEF ServerTyped
  <2>2. byAdmin' \in [Users -> Peers \cup {Null}]
    BY <1>1, <1>2 DEF ServerTyped
  <2>3. QED
    BY <1>1, <1>2, <1>6, <2>1, <2>2 DEF ServerTyped
<1>8. TabsTyped' /\ PagesKept' /\ OneBanPerScope'
  BY <1>1, <1>2 DEF TabsTyped, PagesKept, OneBanPerScope
<1>9. SocketsPaired'
  <2>1. \A q \in Peers : /\ conns'[q] # Null <=> conns[q] # Null
                         /\ conns[q] # Null => /\ conns'[q].tab = conns[q].tab
                                               /\ conns'[q].up = conns[q].up
    BY <1>3, <1>4, <1>5
  <2>2. QED
    BY <1>1, <1>2, <2>1, ZenonT(40) DEF SocketsPaired
<1>10. WiresSound'
  <2>1. SUFFICES ASSUME NEW q \in Peers, conns'[q] # Null, conns'[q].up
                 PROVE  WireSound(conns'[q])
    BY <1>1 DEF WiresSound, WireSound
  <2>2. CASE q = p
    <3>1. WireSound(conns[p])
      BY <1>2, <1>3 DEF WiresSound
    <3>2. QED
      BY <1>3, <1>5, <2>2, <3>1, ClosedWireSound
  <2>3. CASE q # p
    BY <1>2, <1>4, <2>1, <2>3 DEF WiresSound
  <2>4. QED
    BY <2>2, <2>3
<1>11. OneConnPerAdmin'
  <2>1. \A u \in Users : byAdmin[u] # Null => byAdmin[u] \in Peers
    BY <1>2 DEF ServerTyped
  <2>2. ASSUME NEW q \in Peers, conns'[q] # Null, conns'[q].kept
        PROVE  byAdmin'[Owner[conns'[q].tab]] = q
    <3>1. q # p /\ conns'[q] = conns[q]
      BY <1>4, <1>5, <2>2
    <3>2. Owner[conns[q].tab] \in Users
      BY <1>2, <2>2, <3>1 DEF ServerTyped, ConnRows, BoardConstants
    <3>3. byAdmin[Owner[conns[q].tab]] = q
      BY <1>2, <2>2, <3>1 DEF OneConnPerAdmin
    <3>4. QED
      BY <1>1, <3>1, <3>2, <3>3
  <2>3. ASSUME NEW u \in Users, byAdmin'[u] # Null
        PROVE  /\ conns'[byAdmin'[u]] # Null /\ conns'[byAdmin'[u]].kept
               /\ Owner[conns'[byAdmin'[u]].tab] = u
    <3>1. byAdmin'[u] = byAdmin[u] /\ byAdmin[u] # Null /\ byAdmin[u] # p
      BY <1>1, <2>3
    <3>2. byAdmin[u] \in Peers /\ conns'[byAdmin[u]] = conns[byAdmin[u]]
      BY <1>4, <2>1, <3>1
    <3>3. QED
      BY <1>2, <3>1, <3>2 DEF OneConnPerAdmin
  <2>4. QED
    BY <2>2, <2>3 DEF OneConnPerAdmin
<1>12. ASSUME NEW o \in clean, page[o] = "streams", NEW s \in Sessions
       PROVE  Foretold(WireOf(o)', view[o], s, ListActiveSessions)
  <2>1. Foretold(WireOf(o), view[o], s, ListActiveSessions)
    BY <1>2, <1>12 DEF BoardSound
  <2>2. CASE sock[o] = p
    <3>1. WireOf(o) = conns[p].wire /\ WireOf(o)' = Append(conns[p].wire, Closing)
      BY <1>1, <1>5, <2>2 DEF WireOf
    <3>2. conns[p].wire \in Seq(FrameRows)
      BY <1>3 DEF ConnRows
    <3>3. QED
      BY <1>2, <2>1, <3>1, <3>2, ClosedForetells
  <2>3. CASE sock[o] # p
    BY <1>1, <1>4, <2>1, <2>3 DEF WireOf
  <2>4. QED
    BY <2>2, <2>3
<1>13. BoardSound'
  BY <1>1, <1>12 DEF BoardSound, ListActiveSessions
<1>14. ListSound'
  <2>1. \A o \in Tabs : Listening(o)' => sock[o] # p /\ Listening(o)
                                         /\ conns'[sock[o]] = conns[sock[o]]
    BY <1>1, <1>4, <1>5, ZenonT(40) DEF Listening, Hears
  <2>2. QED
    BY <1>1, <1>2, <2>1 DEF ListSound, NodesSnapshot
<1>15. QED
  BY <1>7, <1>8, <1>9, <1>10, <1>11, <1>13, <1>14 DEF BoardIInv

LEMMA PeerGoneKeeps ==
  ASSUME BoardConstants, BoardIInv, NEW p \in Peers, PeerGone(p)
  PROVE  BoardIInv'
<1>1. /\ conns[p] # Null /\ ~conns[p].up /\ conns' = [conns EXCEPT ![p] = Null]
      /\ byAdmin' = [u \in Users |-> IF byAdmin[u] = p THEN Null ELSE byAdmin[u]]
      /\ UNCHANGED <<row, nodes, cap, bans, admins, page, sock, view, fetch, raced, presses,
                     mishaps, clean>>
  BY DEF PeerGone, OnAdminWsClose, dbVars, tabVars
<1>2. ServerTyped /\ TabsTyped /\ SocketsPaired /\ PagesKept /\ WiresSound /\ OneConnPerAdmin
      /\ BoardSound /\ ListSound /\ OneBanPerScope
  BY DEF BoardIInv
<1>3. conns'[p] = Null /\ \A q \in Peers \ {p} : conns'[q] = conns[q]
  BY <1>1, <1>2 DEF ServerTyped
<1>4. \A o \in Tabs : sock[o] # p
  BY <1>1, <1>2 DEF SocketsPaired
<1>5. ServerTyped'
  BY <1>1, <1>2 DEF ServerTyped
<1>6. TabsTyped' /\ PagesKept' /\ OneBanPerScope'
  BY <1>1, <1>2 DEF TabsTyped, PagesKept, OneBanPerScope
<1>7. SocketsPaired'
  BY <1>1, <1>2, <1>3, <1>4 DEF SocketsPaired
<1>8. WiresSound'
  BY <1>1, <1>2, <1>3 DEF WiresSound, WireSound
<1>9. OneConnPerAdmin'
  <2>1. \A u \in Users : byAdmin[u] # Null => byAdmin[u] \in Peers
    BY <1>2 DEF ServerTyped
  <2>2. ASSUME NEW q \in Peers, conns'[q] # Null, conns'[q].kept
        PROVE  byAdmin'[Owner[conns'[q].tab]] = q
    <3>1. q # p /\ conns'[q] = conns[q]
      BY <1>3, <2>2
    <3>2. Owner[conns[q].tab] \in Users
      BY <1>2, <2>2, <3>1 DEF ServerTyped, ConnRows, BoardConstants
    <3>3. byAdmin[Owner[conns[q].tab]] = q
      BY <1>2, <2>2, <3>1 DEF OneConnPerAdmin
    <3>4. QED
      BY <1>1, <3>1, <3>2, <3>3
  <2>3. ASSUME NEW u \in Users, byAdmin'[u] # Null
        PROVE  /\ conns'[byAdmin'[u]] # Null /\ conns'[byAdmin'[u]].kept
               /\ Owner[conns'[byAdmin'[u]].tab] = u
    <3>1. byAdmin'[u] = byAdmin[u] /\ byAdmin[u] # Null /\ byAdmin[u] # p
      BY <1>1, <2>3
    <3>2. byAdmin[u] \in Peers /\ conns'[byAdmin[u]] = conns[byAdmin[u]]
      BY <1>3, <2>1, <3>1
    <3>3. QED
      BY <1>2, <3>1, <3>2 DEF OneConnPerAdmin
  <2>4. QED
    BY <2>2, <2>3 DEF OneConnPerAdmin
<1>10. BoardSound'
  <2>1. \A o \in clean : WireOf(o)' = WireOf(o)
    BY <1>1, <1>2, <1>3, <1>4 DEF WireOf, TabsTyped
  <2>2. QED
    BY <1>1, <1>2, <2>1 DEF BoardSound, ListActiveSessions
<1>11. ListSound'
  <2>1. \A o \in Tabs :
          Listening(o)' => Listening(o) /\ conns'[sock[o]] = conns[sock[o]]
    BY <1>1, <1>3, <1>4 DEF Listening, Hears
  <2>2. QED
    BY <1>1, <1>2, <2>1 DEF ListSound, NodesSnapshot
<1>12. QED
  BY <1>5, <1>6, <1>7, <1>8, <1>9, <1>10, <1>11 DEF BoardIInv

\* A socket opens: the connection the administrator had is closed, and the nodes page
\* asks for its list.
LEMMA OpenKeeps ==
  ASSUME BoardConstants, BoardIInv, NEW t \in Tabs, Open(t)
  PROVE  BoardIInv'
<1> DEFINE u == Owner[t]
           p == CHOOSE q \in Peers : conns[q] = Null
           new == [tab |-> t, kept |-> TRUE, up |-> TRUE, wire |-> <<>>]
<1>1. /\ sock[t] = "dialing" /\ p \in Peers /\ conns[p] = Null
      /\ conns' = [Superseded(conns, u) EXCEPT ![p] = new]
      /\ byAdmin' = [byAdmin EXCEPT ![u] = p] /\ sock' = [sock EXCEPT ![t] = p]
      /\ OnConnect(t)
      /\ UNCHANGED <<row, nodes, cap, bans, admins, page, view, presses, mishaps, clean>>
  BY DEF Open, dbVars
<1>2. ServerTyped /\ TabsTyped /\ SocketsPaired /\ PagesKept /\ WiresSound /\ OneConnPerAdmin
      /\ BoardSound /\ ListSound /\ OneBanPerScope
  BY DEF BoardIInv
<1>3. u \in Users /\ u = Owner[t]
  BY DEF BoardConstants
<1>4. new \in ConnRows /\ new # Null /\ new.tab = t /\ new.kept /\ new.up /\ new.wire = <<>>
  <2>1. <<>> \in Seq(FrameRows)
    OBVIOUS
  <2>2. QED
    BY <2>1, RowMade, RowsAreThere
<1> HIDE DEF u, p, new
<1>5. /\ conns'[p] = new
      /\ \A q \in Peers \ {p} : conns'[q] = IF q = byAdmin[u] THEN Closed(conns[q]) ELSE conns[q]
  BY <1>1 DEF Superseded, Closed
<1>6. /\ byAdmin[u] # p
      /\ byAdmin[u] \in Peers => conns[byAdmin[u]] # Null /\ conns[byAdmin[u]].kept
                                 /\ conns[byAdmin[u]] \in ConnRows
  BY <1>1, <1>2, <1>3, RowsAreThere DEF OneConnPerAdmin, ServerTyped
<1>7. /\ sock'[t] = p /\ \A o \in Tabs \ {t} : sock'[o] = sock[o]
      /\ \A o \in Tabs : sock[o] # p
      /\ sock[t] \notin Peers /\ sock[t] # Null /\ p # Null
  BY <1>1, <1>2, RowsAreThere DEF TabsTyped, SocketsPaired
\* What becomes of the other connections.
<1>8. ASSUME NEW q \in Peers, q # p
      PROVE  /\ conns'[q] # Null <=> conns[q] # Null
             /\ conns[q] # Null =>
                  /\ conns'[q] \in ConnRows
                  /\ conns'[q].tab = conns[q].tab /\ conns'[q].up = conns[q].up
             /\ q = byAdmin[u] => /\ ~conns'[q].kept
                                  /\ conns'[q].wire = Append(conns[q].wire, Closing)
             /\ q # byAdmin[u] => conns'[q] = conns[q]
  <2>1. CASE q = byAdmin[u]
    <3>1. conns[q] # Null /\ conns[q] \in ConnRows /\ conns'[q] = Closed(conns[q])
      BY <1>5, <1>6, <1>8, <2>1
    <3>2. QED
      BY <1>2, <2>1, <3>1, ClosedShape, RowsAreThere
  <2>2. CASE q # byAdmin[u]
    BY <1>2, <1>5, <1>8, <2>2 DEF ServerTyped
  <2>3. QED
    BY <2>1, <2>2
<1>9. ServerTyped'
  <2>1. \A q \in Peers : conns'[q] \in ConnRows \cup {Null}
    BY <1>4, <1>5, <1>8
  <2>2. conns' = [q \in Peers |-> conns'[q]]
    BY <1>1 DEF Superseded
  <2>3. byAdmin' \in [Users -> Peers \cup {Null}]
    BY <1>1, <1>2 DEF ServerTyped
  <2>4. QED
    BY <1>1, <1>2, <2>1, <2>2, <2>3 DEF ServerTyped
<1>10. /\ \A o \in Tabs : fetch'[o] = IF o = t /\ page[t] = "nodes"
                                      THEN [answer |-> NodesSnapshot, first |-> TRUE]
                                      ELSE fetch[o]
       /\ \A o \in Tabs \ {t} : o \in raced' <=> o \in raced
       /\ fetch' \in [Tabs -> FetchRows \cup {Null}] /\ raced' \subseteq Tabs
  <2>1. NodesSnapshot \in SUBSET NodeRows
    BY <1>2, Announced
  <2>2. [answer |-> NodesSnapshot, first |-> TRUE] \in FetchRows
    BY <2>1 DEF FetchRows
  <2>3. QED
    BY <1>1, <1>2, <2>2 DEF OnConnect, TabsTyped
<1>11. TabsTyped' /\ OneBanPerScope'
  BY <1>1, <1>2, <1>10 DEF TabsTyped, OneBanPerScope
<1>12. SocketsPaired'
  <2>1. \A q \in Peers : conns[q] # Null => conns[q].tab \in Tabs
    BY <1>2 DEF ServerTyped, ConnRows
  <2>2. ASSUME NEW o \in Tabs, sock'[o] \in Peers
        PROVE  conns'[sock'[o]] # Null /\ conns'[sock'[o]].tab = o /\ conns'[sock'[o]].up
    <3>1. CASE o = t
      BY <1>4, <1>5, <1>7, <3>1
    <3>2. CASE o # t
      <4>1. sock'[o] = sock[o] /\ sock[o] # p /\ sock[o] \in Peers
        BY <1>7, <2>2, <3>2
      <4>2. conns[sock[o]] # Null /\ conns[sock[o]].tab = o /\ conns[sock[o]].up
        BY <1>2, <4>1 DEF SocketsPaired
      <4>3. QED
        BY <1>8, <4>1, <4>2
    <3>3. QED
      BY <3>1, <3>2
  <2>3. ASSUME NEW q \in Peers, conns'[q] # Null, conns'[q].up
        PROVE  sock'[conns'[q].tab] = q
    <3>1. CASE q = p
      BY <1>4, <1>5, <1>7, <3>1
    <3>2. CASE q # p
      <4>1. conns[q] # Null /\ conns'[q].tab = conns[q].tab /\ conns[q].up
        BY <1>8, <2>3, <3>2
      <4>2. sock[conns[q].tab] = q /\ conns[q].tab \in Tabs
        BY <1>2, <2>1, <4>1 DEF SocketsPaired
      <4>3. conns[q].tab # t
        BY <1>7, <4>2
      <4>4. QED
        BY <1>7, <4>1, <4>2, <4>3
    <3>3. QED
      BY <3>1, <3>2
  <2>4. QED
    BY <2>2, <2>3 DEF SocketsPaired
<1>13. PagesKept'
  BY <1>1, <1>2, <1>7, <1>10 DEF PagesKept
<1>14. WiresSound'
  <2>1. SUFFICES ASSUME NEW q \in Peers, conns'[q] # Null, conns'[q].up
                 PROVE  WireSound(conns'[q])
    BY <1>1 DEF WiresSound, WireSound
  <2>2. CASE q = p
    BY <1>4, <1>5, <2>2 DEF WireSound
  <2>3. CASE q # p /\ q = byAdmin[u]
    <3>1. /\ conns[q] \in ConnRows /\ conns[q].kept /\ conns[q] # Null /\ conns[q].up
          /\ conns'[q].tab = conns[q].tab /\ ~conns'[q].kept
          /\ conns'[q].wire = Append(conns[q].wire, Closing)
      BY <1>6, <1>8, <2>1, <2>3
    <3>2. WireSound(conns[q])
      BY <1>2, <3>1 DEF WiresSound
    <3>3. QED
      BY <3>1, <3>2, ClosedWireSound
  <2>4. CASE q # p /\ q # byAdmin[u]
    BY <1>2, <1>8, <2>1, <2>4 DEF WiresSound
  <2>5. QED
    BY <2>2, <2>3, <2>4
<1>15. OneConnPerAdmin'
  <2>1. /\ byAdmin'[u] = p /\ \A v \in Users \ {u} : byAdmin'[v] = byAdmin[v]
        /\ \A v \in Users : byAdmin[v] \in Peers \cup {Null}
    BY <1>1, <1>2, <1>3 DEF ServerTyped
  <2>2. ASSUME NEW q \in Peers, conns'[q] # Null, conns'[q].kept
        PROVE  byAdmin'[Owner[conns'[q].tab]] = q
    <3>1. CASE q = p
      BY <1>3, <1>4, <1>5, <2>1, <3>1
    <3>2. CASE q # p
      <4>1. q # byAdmin[u] /\ conns'[q] = conns[q]
        BY <1>8, <2>2, <3>2
      <4>2. Owner[conns[q].tab] \in Users
        BY <1>2, <2>2, <4>1 DEF ServerTyped, ConnRows, BoardConstants
      <4>3. byAdmin[Owner[conns[q].tab]] = q
        BY <1>2, <2>2, <4>1 DEF OneConnPerAdmin
      <4>4. Owner[conns[q].tab] # u
        BY <4>1, <4>3
      <4>5. QED
        BY <2>1, <4>1, <4>2, <4>3, <4>4
    <3>3. QED
      BY <3>1, <3>2
  <2>3. ASSUME NEW v \in Users, byAdmin'[v] # Null
        PROVE  /\ conns'[byAdmin'[v]] # Null /\ conns'[byAdmin'[v]].kept
               /\ Owner[conns'[byAdmin'[v]].tab] = v
    <3>1. CASE v = u
      BY <1>3, <1>4, <1>5, <2>1, <3>1
    <3>2. CASE v # u
      <4>1. byAdmin'[v] = byAdmin[v] /\ byAdmin[v] \in Peers
        BY <2>1, <2>3, <3>2
      <4>2. conns[byAdmin[v]] # Null /\ conns[byAdmin[v]].kept /\ Owner[conns[byAdmin[v]].tab] = v
        BY <1>2, <2>3, <4>1 DEF OneConnPerAdmin
      <4>3. byAdmin[v] # p /\ byAdmin[v] # byAdmin[u]
        <5>1. byAdmin[v] # p
          BY <1>1, <4>2
        <5>2. ASSUME byAdmin[v] = byAdmin[u] PROVE FALSE
          <6>1. Owner[conns[byAdmin[u]].tab] = u
            BY <1>2, <1>3, <2>3, <4>1, <5>2 DEF OneConnPerAdmin
          <6>2. QED
            BY <3>2, <4>2, <5>2, <6>1
        <5>3. QED
          BY <5>1, <5>2
      <4>4. conns'[byAdmin[v]] = conns[byAdmin[v]]
        BY <1>8, <4>1, <4>3
      <4>5. QED
        BY <4>1, <4>2, <4>4
    <3>3. QED
      BY <3>1, <3>2
  <2>4. QED
    BY <2>2, <2>3 DEF OneConnPerAdmin
<1>16. ASSUME NEW o \in clean, page[o] = "streams", NEW s \in Sessions
       PROVE  Foretold(WireOf(o)', view[o], s, ListActiveSessions)
  <2>1. Foretold(WireOf(o), view[o], s, ListActiveSessions) /\ o \in Tabs
    BY <1>2, <1>16 DEF BoardSound, TabsTyped
  <2>2. CASE o = t
    <3>1. WireOf(t) = <<>> /\ WireOf(t)' = <<>>
      BY <1>1, <1>4, <1>5, <1>7 DEF WireOf
    <3>2. QED
      BY <2>1, <2>2, <3>1
  <2>3. CASE o # t /\ sock[o] \in Peers /\ sock[o] = byAdmin[u]
    <3>1. sock'[o] = sock[o] /\ sock[o] # p
      BY <1>7, <2>1, <2>3
    <3>2. WireOf(o) = conns[sock[o]].wire /\ WireOf(o)' = Append(conns[sock[o]].wire, Closing)
      BY <1>8, <2>3, <3>1 DEF WireOf
    <3>3. conns[sock[o]].wire \in Seq(FrameRows)
      BY <1>6, <2>3 DEF ConnRows
    <3>4. QED
      BY <1>2, <2>1, <3>2, <3>3, ClosedForetells
  <2>4. CASE o # t /\ ~(sock[o] \in Peers /\ sock[o] = byAdmin[u])
    <3>1. sock'[o] = sock[o] /\ sock[o] # p
      BY <1>7, <2>1, <2>4
    <3>2. sock[o] \in Peers => conns'[sock[o]] = conns[sock[o]]
      BY <1>8, <2>4, <3>1
    <3>3. WireOf(o)' = WireOf(o)
      BY <2>1, <3>1, <3>2, WireFrame
    <3>4. QED
      BY <2>1, <3>3
  <2>5. QED
    BY <2>2, <2>3, <2>4
<1>17. BoardSound'
  BY <1>1, <1>16 DEF BoardSound, ListActiveSessions
<1>18. ASSUME NEW o \in Tabs, page[o] = "nodes", Listening(o)'
       PROVE  NewestIsSnapshot(conns'[sock'[o]].wire, fetch'[o], view[o], o \in raced',
                               NodesSnapshot)
  <2>1. CASE o = t
    <3>1. conns'[sock'[o]].wire = <<>>
          /\ fetch'[o] = [answer |-> NodesSnapshot, first |-> TRUE]
      BY <1>4, <1>5, <1>7, <1>10, <1>18, <2>1
    <3>2. fetch'[o] # Null /\ fetch'[o].first /\ fetch'[o].answer = NodesSnapshot
      <4>1. NodesSnapshot \in SUBSET NodeRows
        BY <1>2, Announced
      <4>2. [answer |-> NodesSnapshot, first |-> TRUE] \in FetchRows
        BY <4>1 DEF FetchRows
      <4>3. fetch'[o] # Null
        BY <3>1, <4>2, RowsAreThere
      <4>4. QED
        BY <3>1, <4>3
    <3>3. QED
      BY <3>1, <3>2 DEF NewestIsSnapshot
  <2>2. CASE o # t
    <3>1. sock'[o] = sock[o] /\ sock[o] # p /\ sock[o] \in Peers
      BY <1>7, <1>18, <2>2 DEF Listening
    <3>2. conns'[sock[o]].kept
      BY <1>18, <3>1 DEF Listening, Hears
    <3>3. sock[o] # byAdmin[u] /\ conns'[sock[o]] = conns[sock[o]]
      BY <1>8, <3>1, <3>2
    <3>4. Listening(o)
      BY <1>18, <3>1, <3>3 DEF Listening, Hears
    <3>5. fetch'[o] = fetch[o] /\ (o \in raced' <=> o \in raced)
      BY <1>10, <2>2
    <3>6. NewestIsSnapshot(conns[sock[o]].wire, fetch[o], view[o], o \in raced, NodesSnapshot)
      BY <1>2, <1>18, <3>4 DEF ListSound
    <3>7. QED
      BY <3>1, <3>3, <3>5, <3>6 DEF NewestIsSnapshot
  <2>3. QED
    BY <2>1, <2>2
<1>19. ListSound'
  BY <1>1, <1>18 DEF ListSound, NodesSnapshot
<1>20. QED
  BY <1>9, <1>11, <1>12, <1>13, <1>14, <1>15, <1>17, <1>19 DEF BoardIInv

-----------------------------------------------------------------------------
(* A tab reads a frame.                                                     *)

LEMMA TailEmpty ==
  ASSUME NEW w \in Seq(FrameRows), w # <<>>
  PROVE  Tail(w) = <<>> => Len(w) = 1
<1>1. Len(w) = 1 \/ Len(w) > 1
  <2>1. Len(w) \in Nat /\ Len(w) # 0
    OBVIOUS
  <2>2. \A n \in Nat : n # 0 => n = 1 \/ n > 1
    OBVIOUS
  <2>3. QED
    BY <2>1, <2>2, Zenon
<1>2. Len(w) > 1 => 1 \in DOMAIN Tail(w)
  OBVIOUS
<1>3. 1 \notin DOMAIN <<>>
  OBVIOUS
<1>4. Len(w) > 1 => Tail(w) # <<>>
  BY <1>2, <1>3, Zenon
<1>5. QED
  BY <1>1, <1>4, Zenon

LEMMA TailWireSound ==
  ASSUME NEW c \in ConnRows, c.wire # <<>>, WireSound(c),
         NEW d, d.tab = c.tab, d.kept = c.kept,
         d.wire = Tail(c.wire)
  PROVE  WireSound(d)
<1>1. c.wire \in Seq(FrameRows)
  BY DEF ConnRows
<1>2. /\ DOMAIN c.wire = 1 .. Len(c.wire) /\ Len(c.wire) \in Nat \ {0}
      /\ Len(d.wire) = Len(c.wire) - 1 /\ DOMAIN d.wire = 1 .. Len(c.wire) - 1
      /\ \A i \in DOMAIN d.wire : d.wire[i] = c.wire[i + 1]
  BY <1>1
<1>3. SUFFICES ASSUME NEW i \in DOMAIN d.wire
               PROVE  \/ Showable(page[d.tab], d.wire[i])
                      \/ d.wire[i] = Closing /\ i = Len(d.wire) /\ ~d.kept
  BY DEF WireSound
<1>4. i + 1 \in DOMAIN c.wire /\ d.wire[i] = c.wire[i + 1] /\ i \in Int
  BY <1>2, <1>3
<1>5. \/ Showable(page[c.tab], c.wire[i + 1])
      \/ c.wire[i + 1] = Closing /\ i + 1 = Len(c.wire) /\ ~c.kept
  BY <1>4 DEF WireSound
<1>6. QED
  BY <1>2, <1>4, <1>5

\* What a streams page shows once it has read a report.
LEMMA ShownReport ==
  ASSUME ServerTyped, NEW t \in Tabs, NEW w \in Seq(FrameRows), w # <<>>, page[t] = "streams",
         Showable("streams", w[1]), NEW s \in Sessions,
         Foretold(w, view[t], s, ListActiveSessions)
  PROVE  Foretold(Tail(w), Shown(t, w[1]), s, ListActiveSessions)
<1>1. w[1].name \in SessionFrames /\ \E r \in Sessions : w[1].of = {r}
  BY DEF Showable
<1>2. PICK r \in Sessions : w[1].of = {r}
  BY <1>1
<1>3. Shown(t, w[1]) = IF w[1].name = "session:stop" THEN view[t] \ {r} ELSE view[t] \cup {r}
  BY <1>1, <1>2 DEF Shown, SessionFrames
<1>4. Concerns(w, 1, s) <=> r = s
  BY <1>1, <1>2 DEF Concerns
<1>5. /\ Concerns(w, 1, s) => (s \in Shown(t, w[1]) <=> w[1].name # "session:stop")
      /\ ~Concerns(w, 1, s) => (s \in Shown(t, w[1]) <=> s \in view[t])
  BY <1>3, <1>4
<1>6. QED
  BY <1>5, ForetoldTail

LEMMA ReceiveKeeps ==
  ASSUME BoardConstants, BoardIInv, NEW t \in Tabs, Receive(t)
  PROVE  BoardIInv'
<1> DEFINE p == sock[t]
           w == conns[p].wire
<1>1. /\ p \in Peers /\ w # <<>>
      /\ UNCHANGED <<row, nodes, cap, bans, admins, byAdmin, page, presses, mishaps, clean>>
  BY DEF Receive, dbVars
<1>2. ServerTyped /\ TabsTyped /\ SocketsPaired /\ PagesKept /\ WiresSound /\ OneConnPerAdmin
      /\ BoardSound /\ ListSound /\ OneBanPerScope
  BY DEF BoardIInv
<1>3. conns[p] # Null /\ conns[p] \in ConnRows /\ conns[p].tab = t /\ conns[p].up
  BY <1>1, <1>2 DEF SocketsPaired, ServerTyped
<1>4. w \in Seq(FrameRows) /\ Head(w) = w[1] /\ 1 \in DOMAIN w
  BY <1>1, <1>3 DEF ConnRows
<1>5. WireSound(conns[p])
  BY <1>1, <1>2, <1>3 DEF WiresSound
<1>6. \/ Showable(page[t], w[1])
      \/ w[1] = Closing /\ 1 = Len(w)
  BY <1>3, <1>4, <1>5 DEF WireSound
<1>7. CASE w[1] = Closing
  <2>1. /\ conns' = [conns EXCEPT ![p].up = FALSE, ![p].wire = <<>>]
        /\ sock' = [sock EXCEPT ![t] = "waiting"] /\ UNCHANGED <<view, fetch, raced>>
    BY <1>4, <1>7 DEF Receive, OnClose
  <2>2. ~Showable(page[t], w[1]) /\ w[1].name \notin SessionFrames
    BY <1>7 DEF Showable, SessionFrames, Closing, Frame
  <2>3. Len(w) = 1
    BY <1>6, <2>2
  <2>4. DOMAIN w = {1}
    BY <1>4, <2>3
  <2>5. ASSUME t \in clean, page[t] = "streams"
        PROVE  \A s \in Sessions : Foretold(<<>>, view[t], s, ListActiveSessions)
    <3>1. SUFFICES ASSUME NEW s \in Sessions
                   PROVE  Foretold(<<>>, view[t], s, ListActiveSessions)
      OBVIOUS
    <3>2. Foretold(w, view[t], s, ListActiveSessions)
      BY <1>1, <1>2, <2>5 DEF BoardSound, WireOf
    <3>3. s \in view[t] <=> s \in ListActiveSessions
      BY <2>2, <2>4, <3>2 DEF Foretold, Concerns
    <3>4. QED
      BY <3>3, ForetoldEmpty
  <2>6. UNCHANGED <<dbVars, byAdmin, page, view, fetch, raced, presses>>
    BY <1>1, <2>1 DEF dbVars
  <2>7. clean' \subseteq clean /\ mishaps' \in 0 .. MaxMishaps
    BY <1>1, <1>2 DEF ServerTyped
  <2>8. t \in clean' /\ page[t] = "streams" =>
          \A s \in Sessions : Foretold(<<>>, view[t], s, ListActiveSessions)
    BY <1>1, <2>5
  <2>9. QED
    BY <1>1, <2>1, <2>6, <2>7, <2>8, DropKeeps
<1>8. CASE w[1] # Closing
  <2>1. /\ conns' = [conns EXCEPT ![p].wire = Tail(@)]
        /\ view' = [view EXCEPT ![t] = Shown(t, w[1])]
        /\ fetch' = IF fetch[t] # Null THEN [fetch EXCEPT ![t].first = FALSE] ELSE fetch
        /\ raced' = raced \ {t} /\ UNCHANGED sock
    BY <1>4, <1>8 DEF Receive
  <2>2. Showable(page[t], w[1])
    BY <1>6, <1>8
  <2>3. /\ \A q \in Peers \ {p} : conns'[q] = conns[q]
        /\ conns'[p] = [conns[p] EXCEPT !.wire = Tail(w)]
    BY <1>1, <1>2, <2>1 DEF ServerTyped
  <2>4. Tail(w) \in Seq(FrameRows)
    BY <1>1, <1>4
  <2>5. conns'[p] \in ConnRows /\ conns'[p].tab = t /\ conns'[p].kept = conns[p].kept
        /\ conns'[p].up /\ conns'[p].wire = Tail(w) /\ conns'[p] # Null
    <3> HIDE DEF p, w
    <3>1. conns'[p] = [tab |-> t, kept |-> conns[p].kept, up |-> conns[p].up, wire |-> Tail(w)]
      BY <1>3, <2>3 DEF ConnRows
    <3>2. conns[p].kept \in BOOLEAN /\ conns[p].up \in BOOLEAN
      BY <1>3 DEF ConnRows
    <3>3. conns'[p] \in ConnRows
      BY <2>4, <3>1, <3>2, RowMade
    <3>4. conns'[p].tab = t /\ conns'[p].kept = conns[p].kept
          /\ conns'[p].up = conns[p].up /\ conns'[p].wire = Tail(w)
      BY <3>1
    <3>5. conns'[p] # Null
      BY <3>3, RowsAreThere
    <3>6. QED
      BY <1>3, <3>3, <3>4, <3>5
  <2> HIDE DEF p, w
  <2>6. ServerTyped'
    <3>1. conns' \in [Peers -> ConnRows \cup {Null}]
      BY <1>2, <2>1, <2>3, <2>5 DEF ServerTyped
    <3>2. QED
      BY <1>1, <1>2, <3>1 DEF ServerTyped
  <2>7. /\ \A o \in Tabs : view'[o] = IF o = t THEN Shown(t, w[1]) ELSE view[o]
        /\ \A o \in Tabs \ {t} : fetch'[o] = fetch[o]
        /\ fetch[t] = Null => fetch'[t] = Null
        /\ fetch[t] # Null => fetch'[t] = [fetch[t] EXCEPT !.first = FALSE]
    BY <1>2, <2>1 DEF TabsTyped
  <2>8. fetch[t] # Null => fetch'[t] \in FetchRows /\ fetch'[t].first = FALSE
    BY <1>2, <2>7 DEF TabsTyped, FetchRows
  <2>9. Shown(t, w[1]) \in (SUBSET Sessions) \cup (SUBSET NodeRows)
        /\ (page[t] = "streams" => Shown(t, w[1]) \subseteq Sessions)
        /\ (page[t] = "nodes" => Shown(t, w[1]) = w[1].of)
    <3>1. CASE page[t] = "streams"
      <4>1. view[t] \subseteq Sessions /\ w[1].name \in SessionFrames
            /\ \E s \in Sessions : w[1].of = {s}
        BY <1>2, <2>2, <3>1 DEF PagesKept, Showable
      <4>2. Shown(t, w[1]) \subseteq Sessions
        BY <4>1 DEF Shown, SessionFrames
      <4>3. QED
        BY <3>1, <4>2
    <3>2. CASE page[t] # "streams"
      <4>1. w[1].name = "nodes:changed" /\ w[1].of \subseteq NodeRows
        BY <2>2, <3>2 DEF Showable
      <4>2. QED
        BY <3>2, <4>1 DEF Shown
    <3>3. QED
      BY <3>1, <3>2
  <2>10. TabsTyped'
    <3>1. view' \in [Tabs -> (SUBSET Sessions) \cup (SUBSET NodeRows)]
      BY <1>2, <2>1, <2>9 DEF TabsTyped
    <3>2. fetch' \in [Tabs -> FetchRows \cup {Null}]
      <4>1. CASE fetch[t] = Null
        BY <1>2, <2>1, <4>1 DEF TabsTyped
      <4>2. CASE fetch[t] # Null
        <5>1. fetch' = [fetch EXCEPT ![t] = fetch'[t]] /\ fetch'[t] \in FetchRows
          BY <1>2, <2>1, <2>7, <2>8, <4>2 DEF TabsTyped
        <5>2. QED
          BY <1>2, <5>1 DEF TabsTyped
      <4>3. QED
        BY <4>1, <4>2
    <3>3. QED
      BY <1>1, <1>2, <2>1, <3>1, <3>2 DEF TabsTyped
  <2>11. page[t] # "away"
    BY <2>2 DEF Showable
  <2>12. PagesKept' /\ OneBanPerScope'
    BY <1>1, <1>2, <2>1, <2>7, <2>9, <2>11 DEF PagesKept, OneBanPerScope
  <2>13. \A q \in Peers : /\ conns'[q] # Null <=> conns[q] # Null
                          /\ conns[q] # Null => /\ conns'[q].tab = conns[q].tab
                                                /\ conns'[q].kept = conns[q].kept
    BY <1>3, <2>3, <2>5
  <2>14. \A q \in Peers : conns[q] # Null => (conns'[q].up <=> conns[q].up)
    BY <1>3, <2>3, <2>5
  <2>15. SocketsPaired'
    BY <1>2, <2>1, <2>13, <2>14 DEF SocketsPaired
  <2>16. OneConnPerAdmin'
    BY <1>1, <1>2, <2>13, OneConnFrame
  <2>17. WiresSound'
    <3>1. SUFFICES ASSUME NEW q \in Peers, conns'[q] # Null, conns'[q].up
                   PROVE  WireSound(conns'[q])
      BY <1>1 DEF WiresSound, WireSound
    <3>2. CASE q = p
      <4>1. conns[p].wire # <<>> /\ conns'[p].wire = Tail(conns[p].wire)
            /\ conns'[p].tab = conns[p].tab
        BY <1>1, <1>3, <2>5 DEF w
      <4>2. QED
        BY <1>3, <1>5, <2>5, <3>2, <4>1, TailWireSound
    <3>3. CASE q # p
      BY <1>2, <2>3, <3>1, <3>3 DEF WiresSound
    <3>4. QED
      BY <3>2, <3>3
  <2>18. ASSUME NEW o \in Tabs, o # t
         PROVE  sock'[o] = sock[o] /\ (sock[o] \in Peers => conns'[sock[o]] = conns[sock[o]])
                /\ WireOf(o)' = WireOf(o) /\ (Listening(o)' <=> Listening(o))
    <3>1. sock'[o] = sock[o] /\ (sock[o] \in Peers => sock[o] # p)
      BY <1>2, <1>3, <2>1, <2>18 DEF SocketsPaired
    <3>2. sock[o] \in Peers => conns'[sock[o]] = conns[sock[o]]
      BY <2>3, <3>1
    <3>3. WireOf(o)' = WireOf(o)
      BY <3>1, <3>2, WireFrame
    <3>4. Listening(o)' <=> Listening(o)
      BY <3>1, <3>2 DEF Listening, Hears
    <3>5. QED
      BY <3>1, <3>2, <3>3, <3>4
  <2>19. ASSUME NEW o \in clean, page[o] = "streams", NEW s \in Sessions
         PROVE  Foretold(WireOf(o)', view'[o], s, ListActiveSessions)
    <3>1. o \in Tabs /\ Foretold(WireOf(o), view[o], s, ListActiveSessions)
      BY <1>2, <2>19 DEF BoardSound, TabsTyped
    <3>2. CASE o = t
      <4>1. WireOf(t) = w /\ WireOf(t)' = Tail(w)
        BY <1>1, <2>1, <2>5 DEF WireOf, p, w
      <4>2. Showable("streams", w[1])
        BY <2>2, <2>19, <3>2
      <4>3. Foretold(Tail(w), Shown(t, w[1]), s, ListActiveSessions)
        BY <1>1, <1>2, <1>4, <2>19, <3>1, <3>2, <4>1, <4>2, ShownReport
      <4>4. QED
        BY <2>7, <3>1, <3>2, <4>1, <4>3
    <3>3. CASE o # t
      BY <2>7, <2>18, <3>1, <3>3
    <3>4. QED
      BY <3>2, <3>3
  <2>20. BoardSound'
    BY <1>1, <2>19 DEF BoardSound, ListActiveSessions
  <2>21. ASSUME NEW o \in Tabs, page[o] = "nodes", Listening(o)'
         PROVE  NewestIsSnapshot(conns'[sock'[o]].wire, fetch'[o], view'[o], o \in raced',
                                 NodesSnapshot)
    <3>1. CASE o = t
      <4>1. Listening(t) /\ sock'[t] = p /\ sock[t] = p
        BY <1>3, <2>1, <2>5, <2>21, <3>1 DEF Listening, Hears, p
      <4>2. NewestIsSnapshot(w, fetch[t], view[t], t \in raced, NodesSnapshot)
        BY <1>2, <2>21, <3>1, <4>1 DEF ListSound, w
      <4>3. w[Len(w)].of = NodesSnapshot
        BY <1>1, <4>2 DEF NewestIsSnapshot
      <4>4. Tail(w) # <<>> => Tail(w)[Len(Tail(w))] = w[Len(w)]
        BY <1>1, <1>4
      <4>5. Tail(w) = <<>> => Len(w) = 1
        BY <1>1, <1>4, TailEmpty
      <4>6. view'[t] = w[1].of /\ t \notin raced'
        BY <2>1, <2>7, <2>9, <2>21, <3>1
      <4>7. fetch'[t] # Null => ~fetch'[t].first
        BY <2>7, <2>8
      <4>8. NewestIsSnapshot(Tail(w), fetch'[t], view'[t], t \in raced', NodesSnapshot)
        BY <4>3, <4>4, <4>5, <4>6, <4>7 DEF NewestIsSnapshot
      <4>9. QED
        BY <2>5, <3>1, <4>1, <4>8
    <3>2. CASE o # t
      <4>1. Listening(o) /\ sock'[o] = sock[o] /\ conns'[sock[o]] = conns[sock[o]]
            /\ fetch'[o] = fetch[o] /\ view'[o] = view[o] /\ (o \in raced' <=> o \in raced)
        BY <2>1, <2>7, <2>18, <2>21, <3>2 DEF Listening
      <4>2. NewestIsSnapshot(conns[sock[o]].wire, fetch[o], view[o], o \in raced,
                             NodesSnapshot)
        BY <1>2, <2>21, <4>1 DEF ListSound
      <4>3. QED
        BY <4>1, <4>2 DEF NewestIsSnapshot
    <3>3. QED
      BY <3>1, <3>2
  <2>22. ListSound'
    BY <1>1, <2>21 DEF ListSound, NodesSnapshot
  <2>23. QED
    BY <2>6, <2>10, <2>12, <2>15, <2>16, <2>17, <2>20, <2>22 DEF BoardIInv
<1>9. QED
  BY <1>7, <1>8

-----------------------------------------------------------------------------
(* Reports, and the theorem.                                                *)

\* The reports of the nodes are told to the streams pages.
LEMMA ReportsKeep ==
  ASSUME BoardConstants, BoardIInv, NEW s \in Sessions,
         \/ HandlePublishStart(s) \/ HandleMetrics(s) \/ HandleSpec(s)
         \/ LateReport(s) \/ HandleEnd(s)
  PROVE  BoardIInv'
<1>1. ServerTyped
  BY DEF BoardIInv
<1>2. ASSUME NEW name \in SessionFrames, NEW st \in {"allowed", "violating", "ended"},
             NEW ended \in BOOLEAN, ended <=> name = "session:stop",
             Report(s, name, st, ended), UNCHANGED mishaps
      PROVE  BoardIInv'
  <2>1. /\ row' = [row EXCEPT ![s] = [status |-> st, ended |-> ended]]
        /\ Emit(Frame(name, {s})) /\ clean' = clean \ Deaf
        /\ UNCHANGED <<nodes, cap, bans, admins, byAdmin, tabVars, presses>>
    BY <1>2 DEF Report, Update
  <2>2. [status |-> st, ended |-> ended] \in SessionRow
    BY DEF SessionRow
  <2>3. row' \in [Sessions -> SessionRow \cup {Null}]
    BY <1>1, <2>1, <2>2 DEF ServerTyped
  <2>4. /\ row'[s] = [status |-> st, ended |-> ended] /\ row'[s] # Null
        /\ \A r \in Sessions \ {s} : row'[r] = row[r]
    BY <1>1, <2>1, <2>2, RowsAreThere DEF ServerTyped
  <2>5. row'[s].ended = ended
    BY <2>4
  <2>6. s \in ListActiveSessions' <=> name # "session:stop"
    BY <1>2, <2>4, <2>5 DEF ListActiveSessions
  <2>7. \A r \in Sessions \ {s} : r \in ListActiveSessions' <=> r \in ListActiveSessions
    BY <2>4 DEF ListActiveSessions
  <2>8. Tells(s, name)
    BY <2>1, <2>6, <2>7 DEF Tells
  <2>9. mishaps' \in 0 .. MaxMishaps
    BY <1>1, <1>2 DEF ServerTyped
  <2>10. QED
    BY <2>1, <2>3, <2>8, <2>9, ReportKeeps
<1>3. CASE HandlePublishStart(s)
  <2>1. "session:start" \in SessionFrames /\ (FALSE <=> "session:start" = "session:stop")
    BY DEF SessionFrames
  <2>2. Report(s, "session:start", "allowed", FALSE) /\ UNCHANGED mishaps
    BY <1>3 DEF HandlePublishStart
  <2>3. QED
    BY <1>2, <2>1, <2>2
<1>4. CASE HandleMetrics(s)
  <2>1. "session:metric" \in SessionFrames /\ (FALSE <=> "session:metric" = "session:stop")
    BY DEF SessionFrames
  <2>2. Report(s, "session:metric", row[s].status, FALSE) /\ UNCHANGED mishaps
    BY <1>4 DEF HandleMetrics
  <2>3. row[s].status \in {"allowed", "violating", "ended"}
    BY <1>1, <1>4 DEF HandleMetrics, ServerTyped, SessionRow
  <2>4. QED
    BY <1>2, <2>1, <2>2, <2>3
<1>5. CASE HandleSpec(s)
  <2>1. /\ "session:violation" \in SessionFrames
        /\ FALSE <=> "session:violation" = "session:stop"
    BY DEF SessionFrames
  <2>2. Report(s, "session:violation", "violating", FALSE) /\ UNCHANGED mishaps
    BY <1>5 DEF HandleSpec
  <2>3. QED
    BY <1>2, <2>1, <2>2
<1>6. CASE HandleEnd(s)
  <2>1. "session:stop" \in SessionFrames /\ (TRUE <=> "session:stop" = "session:stop")
    BY DEF SessionFrames
  <2>2. Report(s, "session:stop", "ended", TRUE) /\ UNCHANGED mishaps
    BY <1>6 DEF HandleEnd
  <2>3. QED
    BY <1>2, <2>1, <2>2
<1>7. CASE LateReport(s)
  <2>1. /\ row[s] # Null /\ clean' = {}
        /\ UNCHANGED <<nodes, cap, bans, admins, byAdmin, tabVars, presses>>
    BY <1>7 DEF LateReport
  <2>2. mishaps' \in 0 .. MaxMishaps
    BY <1>1, <1>7 DEF LateReport, Mishap, ServerTyped, BoardConstants
  <2>3. row' \in [Sessions -> SessionRow \cup {Null}]
    BY <1>1, <1>7, <2>1 DEF LateReport, ServerTyped, SessionRow
  <2>4. \E name \in SessionFrames : Emit(Frame(name, {s})) /\ Tells(s, name)
    BY <1>7, <2>1 DEF LateReport, SessionFrames, Tells
  <2>5. QED
    BY <2>1, <2>2, <2>3, <2>4, ReportKeeps
<1>8. QED
  BY <1>3, <1>4, <1>5, <1>6, <1>7

\* A ban adds a row only for a scope that has none.
LEMMA BansKeep ==
  ASSUME OneBanPerScope, NEW scope, Ban(scope)
  PROVE  OneBanPerScope'
BY DEF OneBanPerScope, Ban

LEMMA BoardStep ==
  ASSUME BoardConstants, BoardIInv, [BoardNext]_boardVars
  PROVE  BoardIInv'
<1>1. ServerTyped /\ OneBanPerScope
  BY DEF BoardIInv
<1>2. ASSUME Press PROVE presses' \in 0 .. MaxPresses
  BY <1>1, <1>2 DEF Press, ServerTyped, BoardConstants
<1>3. presses \in 0 .. MaxPresses /\ mishaps \in 0 .. MaxMishaps /\ admins \subseteq Users
  BY <1>1 DEF ServerTyped
<1>4. CASE UNCHANGED boardVars
  <2>1. UNCHANGED <<row, nodes, cap, serverVars, tabVars, clean>>
        /\ UNCHANGED <<admins, presses, mishaps, bans>>
    BY <1>4 DEF boardVars, dbVars
  <2>2. OneBanPerScope'
    BY <1>1, <2>1 DEF OneBanPerScope
  <2>3. QED
    BY <1>3, <2>1, <2>2, PeopleKeep
<1>5. ASSUME NEW t \in Tabs,
             \/ Open(t) \/ Receive(t) \/ NetworkDrop(t)
             \/ Answer(t) \/ LeavePage(t)
      PROVE  BoardIInv'
  BY <1>5, OpenKeeps, ReceiveKeeps, NetworkDropKeeps, AnswerKeeps, LeavePageKeeps
<1>6. ASSUME NEW t \in Tabs, Refuse(t) \/ Redial(t)
      PROVE  BoardIInv'
  <2>1. PICK x \in {"dialing", "waiting"} : sock' = [sock EXCEPT ![t] = x]
    BY <1>6 DEF Refuse, Redial
  <2>2. sock[t] \in {"dialing", "waiting"}
        /\ UNCHANGED <<dbVars, serverVars, page, view, fetch, raced>>
        /\ UNCHANGED <<presses, mishaps, clean>>
    BY <1>6 DEF Refuse, Redial
  <2>3. QED
    BY <2>1, <2>2, DialKeeps
<1>7. ASSUME NEW t \in Tabs, NEW pg \in {"streams", "nodes"},
             LoadPage(t, pg) \/ EnterPage(t, pg)
      PROVE  BoardIInv'
  BY <1>7, LoadPageKeeps, EnterPageKeeps
<1>8. ASSUME NEW t \in Tabs, NEW s \in Sessions, BanLive(t, s)
      PROVE  BoardIInv'
  <2>1. UNCHANGED <<row, nodes, cap, admins, serverVars, tabVars, mishaps, clean>>
        /\ Ban("site") /\ Press
    BY <1>8 DEF BanLive
  <2>2. QED
    BY <1>1, <1>2, <1>3, <2>1, BansKeep, PeopleKeep
<1>9. ASSUME NEW p \in Peers, IdleTimeout(p) \/ PeerGone(p)
      PROVE  BoardIInv'
  BY <1>9, IdleTimeoutKeeps, PeerGoneKeeps
<1>10. ASSUME NEW s \in Sessions,
              \/ HandlePublishStart(s) \/ HandleMetrics(s) \/ HandleSpec(s)
              \/ LateReport(s) \/ HandleEnd(s)
       PROVE  BoardIInv'
  BY <1>10, ReportsKeep
<1>11. ASSUME NEW n \in Nodes, HandleRegister(n) \/ Disconnect(n) \/ SaveCap(n)
       PROVE  BoardIInv'
  <2>1. nodes \cup {n} \in SUBSET Nodes /\ nodes \ {n} \in SUBSET Nodes /\ nodes \in SUBSET Nodes
        /\ cap \in [Nodes -> {"default", "raised"}]
        /\ SetCap(n) \in [Nodes -> {"default", "raised"}]
    BY <1>1 DEF ServerTyped, SetCap
  <2>2. QED
    BY <1>11, <2>1, NodesChangedKeeps DEF HandleRegister, Disconnect, SaveCap
<1>12. ASSUME NEW scope \in Scopes, AddBan(scope)
       PROVE  BoardIInv'
  <2>1. UNCHANGED <<row, nodes, cap, admins, serverVars, tabVars, mishaps, clean>>
        /\ Ban(scope) /\ Press
    BY <1>12 DEF AddBan
  <2>2. QED
    BY <1>1, <1>2, <1>3, <2>1, BansKeep, PeopleKeep
<1>13. ASSUME NEW b \in bans, Unban(b)
       PROVE  BoardIInv'
  <2>1. /\ UNCHANGED <<row, nodes, cap, admins, serverVars, tabVars>>
        /\ UNCHANGED <<presses, mishaps, clean>> /\ bans' = bans \ {b}
    BY <1>13 DEF Unban
  <2>2. OneBanPerScope'
    BY <1>1, <2>1 DEF OneBanPerScope
  <2>3. QED
    BY <1>3, <2>1, <2>2, PeopleKeep
<1>14. ASSUME NEW u \in Users, Demote(u)
       PROVE  BoardIInv'
  <2>1. UNCHANGED <<row, nodes, cap, bans, serverVars, tabVars, mishaps, clean>>
        /\ admins' = admins \ {u} /\ Press
    BY <1>14 DEF Demote
  <2>2. OneBanPerScope'
    BY <1>1, <2>1 DEF OneBanPerScope
  <2>3. QED
    BY <1>2, <1>3, <2>1, <2>2, PeopleKeep
<1>15. QED
  BY <1>4, <1>5, <1>6, <1>7, <1>8, <1>9, <1>10, <1>11, <1>12, <1>13, <1>14 DEF BoardNext

LEMMA BoardBegins ==
  ASSUME BoardConstants, BoardInit
  PROVE  BoardIInv
<1>1. /\ row \in [Sessions -> SessionRow \cup {Null}]
      /\ cap \in [Nodes -> {"default", "raised"}] /\ nodes \subseteq Nodes
      /\ conns \in [Peers -> ConnRows \cup {Null}] /\ byAdmin \in [Users -> Peers \cup {Null}]
  BY DEF BoardInit, DefaultCaps
<1>2. ServerTyped
  BY <1>1 DEF BoardInit, ServerTyped, BoardConstants
<1>3. TabsTyped
  BY DEF BoardInit, TabsTyped
<1>4. \A t \in Tabs : sock[t] \notin Peers /\ page[t] = "away"
  BY RowsAreThere DEF BoardInit
<1>5. SocketsPaired /\ PagesKept
  BY <1>4 DEF BoardInit, SocketsPaired, PagesKept
<1>6. WiresSound /\ OneConnPerAdmin /\ OneBanPerScope
  BY DEF BoardInit, WiresSound, OneConnPerAdmin, OneBanPerScope
<1>7. BoardSound /\ ListSound
  BY <1>4 DEF BoardInit, BoardSound, ListSound, Listening
<1>8. QED
  BY <1>2, <1>3, <1>5, <1>6, <1>7 DEF BoardIInv

\* What the gateway keeps, what a page shows and what is in flight to it add up to
\* what the runs check.
LEMMA BoardImplied ==
  ASSUME BoardConstants, BoardIInv
  PROVE  BoardInv
<1>1. ServerTyped /\ TabsTyped /\ SocketsPaired /\ PagesKept /\ BoardSound /\ ListSound
      /\ OneConnPerAdmin /\ OneBanPerScope
  BY DEF BoardIInv
<1>2. BoardTypeOK
  BY <1>1 DEF BoardTypeOK, ServerTyped, TabsTyped, SocketsPaired, PagesKept, ConnRows
<1>3. BoardExact
  <2>1. SUFFICES ASSUME NEW t \in clean, page[t] = "streams",
                        sock[t] \in Peers => conns[sock[t]].wire = <<>>
                 PROVE  view[t] = ListActiveSessions
    BY DEF BoardExact
  <2>2. WireOf(t) = <<>>
    BY <2>1 DEF WireOf
  <2>3. \A s \in Sessions : s \in view[t] <=> s \in ListActiveSessions
    BY <1>1, <2>1, <2>2, ForetoldEmpty DEF BoardSound
  <2>4. view[t] \subseteq Sessions /\ ListActiveSessions \subseteq Sessions
    BY <1>1, <2>1 DEF TabsTyped, PagesKept, ListActiveSessions
  <2>5. QED
    BY <2>3, <2>4
<1>4. ListExact
  BY <1>1 DEF ListExact, ListSound, NewestIsSnapshot
<1>5. QED
  BY <1>1, <1>2, <1>3, <1>4 DEF BoardInv

\* However tabs connect, push each other out, time out and come back, and however
\* reports, changes of the registry and answers overtake each other, the gateway sends
\* to one connection per administrator, a page that missed nothing shows what the app
\* has, and a scope is banned by one row (admin-ws.ts:44, streams.vue:33, nodes.vue:13,
\* stream-bans.ts:67).
THEOREM BoardCorrect ==
  BoardSpec => []BoardInv
<1>1. BoardInit => BoardIInv
  BY BoardBegins, BoardAssumption
<1>2. BoardIInv /\ [BoardNext]_boardVars => BoardIInv'
  BY BoardStep, BoardAssumption
<1>3. BoardIInv => BoardInv
  BY BoardImplied, BoardAssumption
<1>4. QED
  BY <1>1, <1>2, <1>3, PTL DEF BoardSpec
=============================================================================
