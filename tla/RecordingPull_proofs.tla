------------------------ MODULE RecordingPull_proofs ------------------------
(***************************************************************************)
(* Proofs about RecordingPull for any number of requests, segments, chunks  *)
(* and failures: what a request collects is in order, what ends without an  *)
(* error is whole, and only whole copies are cached unless the link failed. *)
(***************************************************************************)
EXTENDS RecordingPull, SequenceTheorems, TLAPS

\* The pulls a request has still to ask for.
Ahead(p) ==
  \/ at[p[1]] < p[2]
  \/ at[p[1]] = p[2] /\ asked[p[1]] = "no" /\ req[p[1]] \in {"new", "pulling"}

\* Only a request that is pulling has asked for something.
AskedPulls == \A r \in Requests : asked[r] # "no" => req[r] = "pulling"

\* The node knows nothing of a pull before it is asked.
AheadUnknown ==
  \A p \in Pulls : Ahead(p) =>
    Cmd("pull", p) \notin cmds /\ p \notin answers /\ task[p] = "none"

\* A transfer is asked for once, sends nothing before its file is open, and
\* holds a chunk of the file when it has read one.
TasksFollow ==
  \A p \in Pulls :
    /\ Cmd("pull", p) \in cmds => task[p] = "none"
    /\ task[p] \in {"none", "opening"} => wire[p] = <<>> /\ next[p] = 1
    /\ task[p] = "ready" => next[p] <= Chunks

Running(p) == task[p] \in {"reading", "ready"}

\* A wire carries chunks in the order of the file, all before the one the
\* node is at, and at most one more frame, the last of a transfer that is over.
FrameSound(p, j) ==
  /\ wire[p][j].kind = "chunk" => wire[p][j].no \in 1..Chunks
  /\ wire[p][j].kind # "chunk" => j = Len(wire[p]) /\ task[p] = "over"
  /\ Running(p) => wire[p][j].no < next[p]
  /\ \A i \in 1..(j - 1) : wire[p][j].kind = "chunk" => wire[p][i].no < wire[p][j].no

WireSound == \A p \in Pulls : \A j \in 1..Len(wire[p]) : FrameSound(p, j)

\* What a request has received goes on with what is on the wire and with what
\* the node has still to send.
DataBefore(r) ==
  /\ task[Pull(r)] \in {"none", "opening"} => data[r] = <<>>
  /\ \A i \in 1..Len(data[r]) :
       /\ Running(Pull(r)) => data[r][i] < next[Pull(r)]
       /\ \A j \in 1..Len(wire[Pull(r)]) :
            wire[Pull(r)][j].kind = "chunk" => data[r][i] < wire[Pull(r)][j].no

\* Nothing is missing while the link holds: data, wire and file are contiguous,
\* and an end frame comes after the last chunk.
Contiguous(r) ==
  /\ \A i \in 1..Len(data[r]) : data[r][i] = i
  /\ \A j \in 1..Len(wire[Pull(r)]) :
       LET f == wire[Pull(r)][j] IN
       /\ f.kind = "chunk" => f.no = Len(data[r]) + j
       /\ f.kind = "end" => Chunks = Len(data[r]) + j - 1
  /\ Running(Pull(r)) => next[Pull(r)] = Len(data[r]) + Len(wire[Pull(r)]) + 1

StreamOf(r) ==
  /\ Increasing(data[r])
  /\ ~Pending(r) => data[r] = <<>>
  /\ Pending(r) => DataBefore(r)
  /\ Pending(r) /\ Pull(r) \notin broken => Contiguous(r)

StreamsSound == \A r \in Requests : StreamOf(r)

\* Copies and cache, as long as the link has not failed.
CachedWhole ==
  fails = 0 =>
    /\ broken = {}
    /\ \A s \in Segs : copies[s] \in {None, Whole}
    /\ glued # None => \A s \in DOMAIN glued : glued[s] = Whole

IInv ==
  /\ TypeOK
  /\ AskedPulls /\ AheadUnknown /\ TasksFollow
  /\ WireSound /\ StreamsSound /\ CachedWhole

-----------------------------------------------------------------------------
LEMMA PullIsPull ==
  ASSUME TypeOK, NEW r \in Requests
  PROVE  /\ Pull(r) \in Pulls /\ Pull(r)[1] = r /\ Pull(r)[2] = at[r]
         /\ at[r] \in Segs /\ at[r] \in Nat /\ at[r] <= Segments
  BY PullAssumption DEF TypeOK, Pull, Pulls, Segs

LEMMA PullsArePairs ==
  ASSUME NEW p \in Pulls
  PROVE  p[1] \in Requests /\ p[2] \in Segs /\ p[2] \in Nat /\ p = <<p[1], p[2]>>
  BY PullAssumption DEF Pulls, Segs

\* What Tail does to a wire.
LEMMA TailOfWire ==
  ASSUME TypeOK, NEW p \in Pulls, wire[p] # <<>>
  PROVE  /\ Tail(wire[p]) \in Seq(Frames) /\ Head(wire[p]) = wire[p][1]
         /\ Head(wire[p]) \in Frames
         /\ Len(wire[p]) \in Nat \ {0}
         /\ Len(Tail(wire[p])) = Len(wire[p]) - 1
         /\ \A j \in 1..Len(Tail(wire[p])) : Tail(wire[p])[j] = wire[p][j + 1]
<1>1. wire[p] \in Seq(Frames)
  BY DEF TypeOK
<1>2. QED
  BY <1>1, HeadTailProperties, LenProperties

\* What a frame sent does to a wire.
LEMMA AppendToWire ==
  ASSUME TypeOK, NEW p \in Pulls, NEW f \in Frames
  PROVE  /\ Append(wire[p], f) \in Seq(Frames)
         /\ Len(wire[p]) \in Nat
         /\ Len(Append(wire[p], f)) = Len(wire[p]) + 1
         /\ \A j \in 1..Len(wire[p]) : Append(wire[p], f)[j] = wire[p][j]
         /\ Append(wire[p], f)[Len(wire[p]) + 1] = f
<1>1. wire[p] \in Seq(Frames)
  BY DEF TypeOK
<1>2. QED
  BY <1>1, AppendProperties, LenProperties

\* A request that is done with a pull has received nothing of the next one,
\* and has no new pull ahead.
LEMMA MovesOn ==
  ASSUME TypeOK, NEW r \in Requests, NEW S \in SUBSET Segs, req[r] = "pulling", Advance(r, S)
  PROVE  /\ req' \in [Requests -> {"new", "pulling", "concat", "served", "failed"}]
         /\ at' \in [Requests -> Segs]
         /\ asked' \in [Requests -> {"no", "waiting", "started"}]
         /\ data' \in [Requests -> Numbers]
         /\ paths' \in [Requests -> SUBSET Segs]
         /\ data' = [data EXCEPT ![r] = <<>>]
         /\ Pending(r)' = FALSE
         /\ \A q \in Requests \ {r} :
              Pending(q)' = Pending(q) /\ at'[q] = at[q] /\ Pull(q)' = Pull(q)
         /\ \A p \in Pulls : Ahead(p)' => Ahead(p)
<1>1. /\ asked' = [asked EXCEPT ![r] = "no"] /\ data' = [data EXCEPT ![r] = <<>>]
      /\ paths' = [paths EXCEPT ![r] = S]
  BY DEF Advance
<1>2. <<>> \in Numbers
  BY DEF Numbers
<1>3. at[r] \in Nat /\ Segments \in Nat
  BY PullIsPull, PullAssumption
<1>4. CASE at[r] < Segments
  <2>1. at' = [at EXCEPT ![r] = @ + 1] /\ req' = req
    BY <1>4 DEF Advance
  <2>2. at[r] + 1 \in Segs
    BY <1>3, <1>4 DEF Segs
  <2>3. \A p \in Pulls : Ahead(p)' => Ahead(p)
    <3> SUFFICES ASSUME NEW p \in Pulls, Ahead(p)' PROVE Ahead(p)
      OBVIOUS
    <3>1. CASE p[1] = r
      BY <1>1, <1>3, <2>1, <3>1, PullsArePairs DEF Ahead, TypeOK
    <3>2. CASE p[1] # r
      BY <1>1, <2>1, <3>2, PullsArePairs DEF Ahead, TypeOK
    <3>3. QED
      BY <3>1, <3>2
  <2>4. QED
    BY <1>1, <1>2, <2>1, <2>2, <2>3 DEF TypeOK, Pending, Pull
<1>5. CASE ~(at[r] < Segments)
  <2>1. at' = at /\ req' = [req EXCEPT ![r] = IF S = {} THEN "failed" ELSE "concat"]
    BY <1>5 DEF Advance
  <2>2. \A p \in Pulls : Ahead(p)' => Ahead(p)
    BY <1>1, <2>1, PullsArePairs DEF Ahead, TypeOK
  <2>3. QED
    BY <1>1, <1>2, <2>1, <2>2 DEF TypeOK, Pending, Pull
<1>6. QED
  BY <1>4, <1>5

\* The ways a step moves a running transfer on: no frame, a chunk, or the
\* return, with or without a last frame.
MovesTo(p, from, to) ==
  task[p] = from /\ task' = [task EXCEPT ![p] = to] /\ UNCHANGED <<wire, next>>

SendsNext(p) ==
  /\ task[p] = "ready" /\ next[p] <= Chunks
  /\ task' = [task EXCEPT ![p] = "reading"]
  /\ next' = [next EXCEPT ![p] = @ + 1]
  /\ wire' = [wire EXCEPT ![p] = Append(@, Chunk(next[p]))]

Returns(p) ==
  /\ task' = [task EXCEPT ![p] = "over"] /\ next' = [next EXCEPT ![p] = 1]
  /\ \/ UNCHANGED wire
     \/ wire' = [wire EXCEPT ![p] = Append(@, End(FALSE))]
     \/ /\ task[p] = "reading" /\ next[p] = Chunks + 1
        /\ wire' = [wire EXCEPT ![p] = Append(@, End(TRUE))]

Sends(p) ==
  /\ task[p] \in {"opening", "reading", "ready"}
  /\ UNCHANGED <<reqVars, storeVars, link, cmds, answers, files, histVars>>
  /\ canceled' \subseteq canceled
  /\ \/ MovesTo(p, "opening", "reading")
     \/ next[p] <= Chunks /\ MovesTo(p, "reading", "ready")
     \/ SendsNext(p)
     \/ Returns(p)

LEMMA NodeSends ==
  ASSUME TypeOK, TasksFollow, NEW p \in Pulls, OpenFile(p) \/ ReadFile(p) \/ SendChunk(p)
  PROVE  /\ Sends(p)
         /\ next[p] \in Nat
         /\ next[p] <= Chunks => Chunk(next[p]) \in Frames
         /\ End(TRUE) \in Frames /\ End(FALSE) \in Frames
<1>1. next[p] \in Nat /\ Chunks \in Nat /\ 1 <= next[p] /\ next[p] <= Chunks + 1
  BY PullAssumption DEF TypeOK
<1>2. ASSUME OpenFile(p) PROVE Sends(p)
  BY <1>2 DEF OpenFile, Continue, Return, Send, Sends, MovesTo, Returns
<1>3. ASSUME ReadFile(p) PROVE Sends(p)
  <2>1. CASE next[p] <= Chunks
    BY <1>3, <2>1 DEF ReadFile, Continue, Sends, MovesTo
  <2>2. CASE ~(next[p] <= Chunks)
    <3>1. next[p] = Chunks + 1
      BY <1>1, <2>2
    <3>2. Return(p, Send(p, End(TRUE))) /\ task[p] = "reading"
      BY <1>3, <2>2 DEF ReadFile
    <3>3. Returns(p)
      BY <3>1, <3>2 DEF Return, Send, Returns
    <3>4. QED
      BY <1>3, <2>2, <3>2, <3>3 DEF ReadFile, Return, Sends
  <2>3. QED
    BY <2>1, <2>2
<1>4. ASSUME SendChunk(p) PROVE Sends(p)
  BY <1>4 DEF SendChunk, Return, Send, Sends, SendsNext, Returns, TasksFollow
<1>5. QED
  BY <1>1, <1>2, <1>3, <1>4 DEF Chunk, End, Frames

\* A step keeps the types.
LEMMA TypeStep ==
  ASSUME TypeOK, TasksFollow, WireSound, [Next]_vars
  PROVE  TypeOK'
<1>1. ASSUME NEW r \in Requests, Request(r) PROVE TypeOK'
  BY <1>1 DEF TypeOK, Request, linkVars, taskVars, histVars
<1>2. ASSUME NEW r \in Requests, AskPull(r) PROVE TypeOK'
  <2>1. Cmd("pull", Pull(r)) \in [kind : {"pull", "cancel"}, of : Pulls]
    BY PullIsPull DEF Cmd
  <2>2. CASE link = "up"
    BY <1>2, <2>1, <2>2 DEF TypeOK, AskPull, storeVars, taskVars, histVars
  <2>3. CASE link # "up"
    <3>1. Advance(r, paths[r]) /\ req[r] = "pulling" /\ paths[r] \in SUBSET Segs
      BY <1>2, <2>3 DEF AskPull, Skip, TypeOK
    <3>2. QED
      BY <1>2, <2>3, <3>1, MovesOn DEF TypeOK, AskPull, storeVars, taskVars, histVars
  <2>4. QED
    BY <2>2, <2>3
<1>3. ASSUME NEW r \in Requests, PullStarts(r) PROVE TypeOK'
  BY <1>3 DEF TypeOK, PullStarts, storeVars, taskVars, histVars
<1>4. ASSUME NEW r \in Requests, PullNotStarted(r) PROVE TypeOK'
  <2>1. Advance(r, paths[r]) /\ req[r] = "pulling" /\ paths[r] \in SUBSET Segs
    BY <1>4 DEF PullNotStarted, Pending, Skip, TypeOK
  <2>2. QED
    BY <1>4, <2>1, MovesOn DEF TypeOK, PullNotStarted, storeVars, linkVars, taskVars, histVars
<1>5. ASSUME NEW r \in Requests, OnData(r) PROVE TypeOK'
  <2>1. /\ Pull(r) \in Pulls /\ wire[Pull(r)] # <<>> /\ Head(wire[Pull(r)]).kind = "chunk"
        /\ wire' = [wire EXCEPT ![Pull(r)] = Tail(@)]
        /\ data' = [data EXCEPT ![r] = Append(@, Head(wire[Pull(r)]).no)]
        /\ UNCHANGED <<req, at, asked, paths, storeVars, link, cmds, answers, taskVars, histVars>>
    BY <1>5, PullIsPull DEF OnData, Arrived, Consume
  <2>2. Head(wire[Pull(r)]).no \in 1..Chunks
    <3>1. Head(wire[Pull(r)]) = wire[Pull(r)][1] /\ 1 \in 1..Len(wire[Pull(r)])
      BY <2>1, TailOfWire
    <3>2. QED
      BY <2>1, <3>1 DEF WireSound, FrameSound
  <2>3. Append(data[r], Head(wire[Pull(r)]).no) \in Numbers
    BY <2>2, AppendProperties DEF TypeOK, Numbers
  <2>4. wire' \in [Pulls -> Seq(Frames)] /\ data' \in [Requests -> Numbers]
    BY <2>1, <2>3, TailOfWire DEF TypeOK
  <2>5. QED
    BY <2>1, <2>4 DEF TypeOK, storeVars, taskVars, histVars
<1>6. ASSUME NEW r \in Requests, OnEnd(r) PROVE TypeOK'
  <2>1. /\ wire[Pull(r)] # <<>> /\ wire' = [wire EXCEPT ![Pull(r)] = Tail(@)] /\ Pull(r) \in Pulls
        /\ req[r] = "pulling" /\ at[r] \in Segs /\ Store(r)
        /\ UNCHANGED <<dir, glued, link, cmds, answers, taskVars, histVars>>
    BY <1>6, PullIsPull DEF OnEnd, Arrived, Consume, Pending
  <2>2. wire' \in [Pulls -> Seq(Frames)]
    BY <2>1, TailOfWire DEF TypeOK
  <2>3. copies' \in [Segs -> Numbers \cup {None}]
    BY <2>1 DEF Store, TypeOK
  <2>4. PICK S \in SUBSET Segs : Advance(r, S)
    BY <2>1 DEF Store, Skip, TypeOK
  <2>5. QED
    BY <2>1, <2>2, <2>3, <2>4, MovesOn DEF TypeOK, taskVars, histVars
<1>7. ASSUME NEW r \in Requests, OnError(r) PROVE TypeOK'
  <2>1. /\ wire[Pull(r)] # <<>> /\ wire' = [wire EXCEPT ![Pull(r)] = Tail(@)] /\ Pull(r) \in Pulls
        /\ req[r] = "pulling" /\ paths[r] \in SUBSET Segs /\ Advance(r, paths[r])
        /\ UNCHANGED <<storeVars, link, cmds, answers, taskVars, histVars>>
    BY <1>7, PullIsPull DEF OnError, Arrived, Consume, Pending, Skip, TypeOK
  <2>2. wire' \in [Pulls -> Seq(Frames)]
    BY <2>1, TailOfWire DEF TypeOK
  <2>3. QED
    BY <2>1, <2>2, MovesOn DEF TypeOK, storeVars, taskVars, histVars
<1>8. ASSUME NEW r \in Requests, Stall(r) PROVE TypeOK'
  <2>1. /\ req[r] = "pulling" /\ paths[r] \in SUBSET Segs /\ Advance(r, paths[r])
        /\ UNCHANGED <<storeVars, link, answers, wire, taskVars, histVars>>
    BY <1>8 DEF Stall, Pending, Skip, TypeOK
  <2>2. cmds' \subseteq [kind : {"pull", "cancel"}, of : Pulls]
    BY <1>8, PullIsPull DEF Stall, CancelPull, Cmd, TypeOK
  <2>3. QED
    BY <2>1, <2>2, MovesOn DEF TypeOK, storeVars, taskVars, histVars
<1>9. ASSUME NEW r \in Requests, Concat(r) PROVE TypeOK'
  BY <1>9 DEF TypeOK, Concat, linkVars, taskVars, histVars
<1>10. ASSUME NEW p \in Pulls, DropFrame(p) PROVE TypeOK'
  <2>1. wire' \in [Pulls -> Seq(Frames)] /\ answers' \subseteq Pulls
    <3>1. wire \in [Pulls -> Seq(Frames)] /\ answers \subseteq Pulls
      BY DEF TypeOK
    <3>2. CASE wire[p] # <<>> /\ Consume(p) /\ UNCHANGED answers
      <4>1. Tail(wire[p]) \in Seq(Frames)
        BY <3>2, TailOfWire
      <4>2. QED
        BY <3>1, <3>2, <4>1 DEF Consume
    <3>3. CASE UNCHANGED wire /\ answers' = answers \ {p}
      BY <3>1, <3>3
    <3>4. QED
      BY <1>10, <3>2, <3>3 DEF DropFrame
  <2>2. QED
    BY <1>10, <2>1 DEF TypeOK, DropFrame, reqVars, storeVars, taskVars, histVars
<1>11. ASSUME NEW p \in Pulls, TakePull(p) PROVE TypeOK'
  BY <1>11 DEF TypeOK, TakePull, reqVars, storeVars, histVars
<1>12. ASSUME NEW p \in Pulls, OpenFile(p) \/ ReadFile(p) \/ SendChunk(p) PROVE TypeOK'
  <2>1. Sends(p)
    BY <1>12, NodeSends
  <2>2. /\ wire' \in [Pulls -> Seq(Frames)] /\ next' \in [Pulls -> 1..(Chunks + 1)]
        /\ task' \in [Pulls -> {"none", "opening", "reading", "ready", "over"}]
    <3>1. ASSUME NEW a \in {"reading", "opening"}, NEW b \in {"reading", "ready"}, MovesTo(p, a, b)
          PROVE  /\ wire' \in [Pulls -> Seq(Frames)] /\ next' \in [Pulls -> 1..(Chunks + 1)]
                 /\ task' \in [Pulls -> {"none", "opening", "reading", "ready", "over"}]
      BY <3>1 DEF MovesTo, TypeOK
    <3>2. CASE SendsNext(p)
      <4>1. Append(wire[p], Chunk(next[p])) \in Seq(Frames)
        BY <1>12, <3>2, NodeSends, AppendToWire DEF SendsNext
      <4>2. next[p] + 1 \in 1..(Chunks + 1)
        <5>1. next[p] \in Nat /\ next[p] <= Chunks /\ Chunks \in Nat
          BY <1>12, <3>2, NodeSends, PullAssumption DEF SendsNext
        <5>2. QED
          BY <5>1
      <4>3. QED
        BY <3>2, <4>1, <4>2 DEF SendsNext, TypeOK
    <3>3. CASE Returns(p)
      <4>1. \A ok \in BOOLEAN : Append(wire[p], End(ok)) \in Seq(Frames)
        BY <1>12, NodeSends, AppendToWire
      <4>2. 1 \in 1..(Chunks + 1)
        BY PullAssumption
      <4>3. QED
        BY <3>3, <4>1, <4>2 DEF Returns, TypeOK
    <3>4. QED
      BY <2>1, <3>1, <3>2, <3>3 DEF Sends
  <2>3. QED
    BY <2>1, <2>2 DEF TypeOK, Sends, reqVars, storeVars, histVars
<1>13. ASSUME NEW p \in Pulls, TakeCancel(p) PROVE TypeOK'
  BY <1>13 DEF TypeOK, TakeCancel, reqVars, storeVars, histVars
<1>14. CASE LinkFails
  <2>1. wire' \in [Pulls -> Seq(Frames)]
    BY <1>14 DEF LinkFails
  <2>2. QED
    BY <1>14, <2>1 DEF TypeOK, LinkFails, reqVars, storeVars, taskVars
<1>15. CASE LinkReturns
  BY <1>15 DEF TypeOK, LinkReturns, reqVars, storeVars, taskVars, histVars
<1>16. ASSUME NEW s \in Segs, LoseFile(s) PROVE TypeOK'
  BY <1>16 DEF TypeOK, LoseFile, reqVars, storeVars, linkVars, histVars
<1>17. CASE UNCHANGED vars
  BY <1>17 DEF TypeOK, vars, reqVars, storeVars, linkVars, taskVars, histVars
<1>18. QED
  BY <1>1, <1>2, <1>3, <1>4, <1>5, <1>6, <1>7, <1>8, <1>9, <1>10, <1>11, <1>12,
     <1>13, <1>14, <1>15, <1>16, <1>17 DEF Next, App, Node

-----------------------------------------------------------------------------
\* The first frame of a wire is taken off.
Takes(p) == wire[p] # <<>> /\ wire' = [wire EXCEPT ![p] = Tail(@)]

\* What ends a pull, whatever the reason, does apart from the copies.
EndsPull(r) ==
  /\ req[r] = "pulling"
  /\ data' = [data EXCEPT ![r] = <<>>]
  /\ asked' = [asked EXCEPT ![r] = "no"]
  /\ Pending(r)' = FALSE
  /\ \A q \in Requests \ {r} :
       req'[q] = req[q] /\ Pending(q)' = Pending(q) /\ Pull(q)' = Pull(q)
  /\ \A p \in Pulls : Ahead(p)' => Ahead(p)
  /\ UNCHANGED wire \/ Takes(Pull(r))
  /\ \A p \in Pulls : Cmd("pull", p) \in cmds' => Cmd("pull", p) \in cmds
  /\ UNCHANGED <<answers, link, taskVars, histVars>>

LEMMA PullEnds ==
  ASSUME TypeOK, NEW r \in Requests,
         \/ AskPull(r) /\ link # "up"
         \/ PullNotStarted(r) \/ OnEnd(r) \/ OnError(r) \/ Stall(r)
  PROVE  EndsPull(r)
<1>1. PICK S \in SUBSET Segs : Advance(r, S)
  BY DEF AskPull, PullNotStarted, OnEnd, OnError, Stall, Store, Skip, TypeOK
<1>2. req[r] = "pulling"
  BY DEF AskPull, PullNotStarted, OnEnd, OnError, Stall, Pending
<1>3. UNCHANGED wire \/ Takes(Pull(r))
  BY DEF AskPull, PullNotStarted, OnEnd, OnError, Stall, linkVars, Arrived, Consume, Takes
<1>4. \A p \in Pulls : Cmd("pull", p) \in cmds' => Cmd("pull", p) \in cmds
  BY DEF AskPull, PullNotStarted, OnEnd, OnError, Stall, linkVars, CancelPull, Cmd
<1>5. UNCHANGED <<answers, link, taskVars, histVars>>
  BY DEF AskPull, PullNotStarted, OnEnd, OnError, Stall, linkVars
<1>6. \A q \in Requests \ {r} : req'[q] = req[q]
  BY <1>1 DEF Advance, TypeOK
<1>7. asked' = [asked EXCEPT ![r] = "no"]
  BY <1>1 DEF Advance
<1>8. /\ data' = [data EXCEPT ![r] = <<>>] /\ Pending(r)' = FALSE
      /\ \A q \in Requests \ {r} : Pending(q)' = Pending(q) /\ Pull(q)' = Pull(q)
      /\ \A p \in Pulls : Ahead(p)' => Ahead(p)
  BY <1>1, <1>2, MovesOn
<1>9. QED
  BY <1>2, <1>3, <1>4, <1>5, <1>6, <1>7, <1>8 DEF EndsPull

\* The steps that take a frame off a wire.
LEMMA FrameTaken ==
  ASSUME TypeOK, NEW r \in Requests, OnData(r)
  PROVE  /\ Pending(r) /\ Takes(Pull(r)) /\ Head(wire[Pull(r)]).kind = "chunk"
         /\ data' = [data EXCEPT ![r] = Append(@, Head(wire[Pull(r)]).no)]
         /\ UNCHANGED <<req, at, asked, cmds, answers, link, taskVars, histVars, storeVars>>
  BY DEF OnData, Arrived, Consume, Takes

\* The steps, as the stream of a transfer sees them.
Quiet == UNCHANGED <<req, at, asked, data, cmds, answers, wire, task, next, fails, broken>>

LEMMA Steps ==
  ASSUME TypeOK, TasksFollow, [Next]_vars
  PROVE  \/ \E r \in Requests :
              \/ Request(r) \/ (AskPull(r) /\ link = "up") \/ PullStarts(r)
              \/ EndsPull(r) \/ OnData(r) \/ Concat(r)
         \/ \E p \in Pulls : DropFrame(p) \/ TakePull(p) \/ Sends(p) \/ TakeCancel(p)
         \/ LinkFails \/ Quiet
<1>1. ASSUME NEW r \in Requests, App(r)
      PROVE  \/ Request(r) \/ (AskPull(r) /\ link = "up") \/ PullStarts(r)
             \/ EndsPull(r) \/ OnData(r) \/ Concat(r)
  BY <1>1, PullEnds DEF App
<1>2. ASSUME NEW p \in Pulls, Node(p) PROVE TakePull(p) \/ Sends(p) \/ TakeCancel(p)
  BY <1>2, NodeSends DEF Node
<1>3. CASE LinkReturns \/ (\E s \in Segs : LoseFile(s)) \/ UNCHANGED vars
  BY <1>3 DEF Quiet, LinkReturns, LoseFile, vars, reqVars, linkVars, taskVars, histVars
<1>4. QED
  BY <1>1, <1>2, <1>3 DEF Next

\* Requests ask only while they pull.
LEMMA AskedStep ==
  ASSUME TypeOK, TasksFollow, AskedPulls, [Next]_vars
  PROVE  AskedPulls'
<1>1. ASSUME NEW r \in Requests, Request(r) PROVE AskedPulls'
  <2>1. req[r] = "new" /\ req' = [req EXCEPT ![r] = req'[r]] /\ asked' = asked
    BY <1>1 DEF Request, TypeOK
  <2>2. QED
    BY <2>1 DEF AskedPulls, TypeOK
<1>2. ASSUME NEW r \in Requests, AskPull(r), link = "up" PROVE AskedPulls'
  BY <1>2 DEF AskedPulls, AskPull, TypeOK
<1>3. ASSUME NEW r \in Requests, PullStarts(r) PROVE AskedPulls'
  BY <1>3 DEF AskedPulls, PullStarts, Pending, TypeOK
<1>4. ASSUME NEW r \in Requests, EndsPull(r) PROVE AskedPulls'
  BY <1>4 DEF AskedPulls, EndsPull, TypeOK
<1>5. ASSUME NEW r \in Requests, Concat(r) PROVE AskedPulls'
  <2>1. req[r] = "concat" /\ req' = [req EXCEPT ![r] = req'[r]] /\ asked' = asked
    BY <1>5 DEF Concat, TypeOK
  <2>2. QED
    BY <2>1 DEF AskedPulls, TypeOK
<1>6. CASE UNCHANGED <<req, asked>>
  BY <1>6 DEF AskedPulls
<1>7. QED
  BY <1>1, <1>2, <1>3, <1>4, <1>5, <1>6, Steps, FrameTaken
  DEF DropFrame, TakePull, Sends, TakeCancel, LinkFails, Quiet, reqVars

\* A pull is known to the node only when it has been asked, and asked once.
LEMMA AheadStep ==
  ASSUME TypeOK, AheadUnknown, TasksFollow, [Next]_vars
  PROVE  AheadUnknown' /\ TasksFollow'
<1>1. ASSUME UNCHANGED <<answers, wire, task, next>>,
             \A p \in Pulls : Ahead(p)' => Ahead(p),
             \A p \in Pulls : Cmd("pull", p) \in cmds' => Cmd("pull", p) \in cmds
      PROVE  AheadUnknown' /\ TasksFollow'
  BY <1>1 DEF AheadUnknown, TasksFollow
<1>2. ASSUME NEW q \in Pulls, Takes(q), answers' \subseteq answers, UNCHANGED <<task, next>>,
             \A p \in Pulls : Ahead(p)' => Ahead(p),
             \A p \in Pulls : Cmd("pull", p) \in cmds' => Cmd("pull", p) \in cmds
      PROVE  AheadUnknown' /\ TasksFollow'
  <2>1. \A p \in Pulls : wire[p] = <<>> => wire'[p] = <<>>
    BY <1>2 DEF Takes, TypeOK
  <2>2. QED
    BY <1>2, <2>1 DEF AheadUnknown, TasksFollow
<1>3. ASSUME NEW r \in Requests, Request(r) PROVE AheadUnknown' /\ TasksFollow'
  <2>1. \A p \in Pulls : Ahead(p)' => Ahead(p)
    <3>1. req[r] = "new" /\ req' = [req EXCEPT ![r] = req'[r]] /\ UNCHANGED <<at, asked>>
      BY <1>3 DEF Request, TypeOK
    <3>2. QED
      BY <3>1, PullsArePairs DEF Ahead, TypeOK
  <2>2. QED
    BY <1>1, <1>3, <2>1 DEF Request, linkVars, taskVars
<1>4. ASSUME NEW r \in Requests, AskPull(r), link = "up" PROVE AheadUnknown' /\ TasksFollow'
  <2>1. /\ req[r] = "pulling" /\ asked[r] = "no" /\ asked' = [asked EXCEPT ![r] = "waiting"]
        /\ cmds' = cmds \cup {Cmd("pull", Pull(r))}
        /\ UNCHANGED <<req, at, answers, wire, task, next>>
    BY <1>4 DEF AskPull, taskVars
  <2>2. \A p \in Pulls : Ahead(p)' => Ahead(p) /\ p # Pull(r)
    <3> SUFFICES ASSUME NEW p \in Pulls, Ahead(p)' PROVE Ahead(p) /\ p # Pull(r)
      OBVIOUS
    <3>1. CASE p = Pull(r)
      BY <2>1, <3>1, PullIsPull DEF Ahead, TypeOK
    <3>2. CASE p # Pull(r)
      BY <2>1, <3>2, PullsArePairs DEF Ahead, TypeOK
    <3>3. QED
      BY <3>1, <3>2
  <2>3. Ahead(Pull(r)) /\ Pull(r) \in Pulls
    BY <2>1, PullIsPull DEF Ahead
  <2>4. \A p \in Pulls : Cmd("pull", p) \in cmds' => Cmd("pull", p) \in cmds \/ p = Pull(r)
    BY <2>1 DEF Cmd
  <2>5. QED
    BY <2>1, <2>2, <2>3, <2>4 DEF AheadUnknown, TasksFollow
<1>5. ASSUME NEW r \in Requests, PullStarts(r) PROVE AheadUnknown' /\ TasksFollow'
  <2>1. \A p \in Pulls : Ahead(p)' => Ahead(p)
    BY <1>5, PullsArePairs DEF PullStarts, Ahead, TypeOK
  <2>2. answers' \subseteq answers /\ UNCHANGED <<cmds, wire, task, next>>
    BY <1>5 DEF PullStarts, taskVars
  <2>3. QED
    BY <2>1, <2>2 DEF AheadUnknown, TasksFollow
<1>6. ASSUME NEW r \in Requests, EndsPull(r) PROVE AheadUnknown' /\ TasksFollow'
  BY <1>1, <1>2, <1>6, PullIsPull DEF EndsPull, taskVars
<1>7. ASSUME NEW r \in Requests, OnData(r) PROVE AheadUnknown' /\ TasksFollow'
  <2>1. \A p \in Pulls : Ahead(p)' => Ahead(p)
    BY <1>7, FrameTaken DEF Ahead
  <2>2. QED
    BY <1>2, <1>7, <2>1, FrameTaken, PullIsPull DEF taskVars
<1>8. ASSUME NEW r \in Requests, Concat(r) PROVE AheadUnknown' /\ TasksFollow'
  <2>1. \A p \in Pulls : Ahead(p)' => Ahead(p)
    <3>1. /\ req[r] = "concat" /\ req' = [req EXCEPT ![r] = req'[r]] /\ UNCHANGED <<at, asked>>
          /\ req'[r] \in {"served", "failed"}
      BY <1>8 DEF Concat, TypeOK
    <3>2. QED
      BY <3>1, PullsArePairs DEF Ahead, TypeOK
  <2>2. QED
    BY <1>1, <1>8, <2>1 DEF Concat, linkVars, taskVars
<1>9. ASSUME NEW q \in Pulls, DropFrame(q) PROVE AheadUnknown' /\ TasksFollow'
  <2>1. \A p \in Pulls : Ahead(p)' => Ahead(p)
    BY <1>9 DEF DropFrame, Ahead, reqVars
  <2>2. CASE Takes(q) /\ answers' = answers
    BY <1>2, <1>9, <2>1, <2>2 DEF DropFrame, taskVars
  <2>3. CASE UNCHANGED wire /\ answers' \subseteq answers
    BY <1>9, <2>1, <2>3 DEF DropFrame, taskVars, AheadUnknown, TasksFollow
  <2>4. QED
    BY <1>9, <2>2, <2>3 DEF DropFrame, Takes, Consume
<1>10. ASSUME NEW q \in Pulls, TakePull(q) PROVE AheadUnknown' /\ TasksFollow'
  <2>1. /\ Cmd("pull", q) \in cmds /\ cmds' = cmds \ {Cmd("pull", q)}
        /\ task' = [task EXCEPT ![q] = "opening"] /\ answers' = answers \cup {q}
        /\ UNCHANGED <<req, at, asked, wire, next>>
    BY <1>10 DEF TakePull, reqVars
  <2>2. ~Ahead(q) /\ task[q] = "none"
    BY <2>1 DEF AheadUnknown, TasksFollow
  <2>3. \A p \in Pulls : Ahead(p)' = Ahead(p)
    BY <2>1 DEF Ahead
  <2>4. QED
    BY <2>1, <2>2, <2>3 DEF AheadUnknown, TasksFollow, TypeOK
<1>11. ASSUME NEW q \in Pulls, Sends(q) PROVE AheadUnknown' /\ TasksFollow'
  <2>1. \A p \in Pulls : Ahead(p)' = Ahead(p)
    BY <1>11 DEF Sends, Ahead, reqVars
  <2>2. task[q] # "none" /\ UNCHANGED <<cmds, answers>>
    BY <1>11 DEF Sends
  <2>3. /\ \A p \in Pulls \ {q} : task'[p] = task[p] /\ wire'[p] = wire[p] /\ next'[p] = next[p]
        /\ task'[q] \in {"reading", "ready", "over"}
        /\ task'[q] = "ready" => next'[q] <= Chunks
    BY <1>11 DEF Sends, MovesTo, SendsNext, Returns, TypeOK
  <2>4. AheadUnknown'
    BY <2>1, <2>2, <2>3 DEF AheadUnknown
  <2>5. TasksFollow'
    BY <2>2, <2>3 DEF TasksFollow
  <2>6. QED
    BY <2>4, <2>5
<1>12. ASSUME NEW q \in Pulls, TakeCancel(q) PROVE AheadUnknown' /\ TasksFollow'
  <2>1. \A p \in Pulls : Ahead(p)' => Ahead(p)
    BY <1>12 DEF TakeCancel, Ahead, reqVars
  <2>2. QED
    BY <1>1, <1>12, <2>1 DEF TakeCancel
<1>13. CASE LinkFails
  <2>1. \A p \in Pulls : Ahead(p)' => Ahead(p)
    BY <1>13 DEF LinkFails, Ahead, reqVars
  <2>2. QED
    BY <1>13, <2>1 DEF LinkFails, AheadUnknown, TasksFollow, taskVars
<1>14. CASE Quiet
  <2>1. \A p \in Pulls : Ahead(p)' => Ahead(p)
    BY <1>14 DEF Quiet, Ahead
  <2>2. QED
    BY <1>1, <1>14, <2>1 DEF Quiet
<1>15. QED
  BY <1>3, <1>4, <1>5, <1>6, <1>7, <1>8, <1>9, <1>10, <1>11, <1>12, <1>13, <1>14, Steps

-----------------------------------------------------------------------------
\* Frames keep the order of the file on the wire.
LEMMA WireStep ==
  ASSUME TypeOK, TasksFollow, WireSound, [Next]_vars
  PROVE  WireSound'
<1>1. CASE UNCHANGED <<wire, task, next>>
  BY <1>1 DEF WireSound, FrameSound, Running
<1>2. ASSUME NEW q \in Pulls, Takes(q), UNCHANGED <<task, next>> PROVE WireSound'
  <2> SUFFICES ASSUME NEW p \in Pulls, NEW j \in 1..Len(wire'[p]) PROVE FrameSound(p, j)'
    BY DEF WireSound
  <2>1. CASE p # q
    <3>1. wire'[p] = wire[p]
      BY <1>2, <2>1 DEF Takes, TypeOK
    <3>2. QED
      BY <1>2, <3>1 DEF WireSound, FrameSound, Running
  <2>2. CASE p = q
    <3>1. /\ Len(wire[p]) \in Nat \ {0} /\ Len(wire'[p]) = Len(wire[p]) - 1
          /\ \A i \in 1..Len(wire'[p]) : wire'[p][i] = wire[p][i + 1]
      <4>1. wire'[p] = Tail(wire[p])
        BY <1>2, <2>2 DEF Takes, TypeOK
      <4>2. QED
        BY <1>2, <2>2, <4>1, TailOfWire DEF Takes
    <3>2. j + 1 \in 1..Len(wire[p]) /\ FrameSound(p, j + 1)
      BY <3>1 DEF WireSound
    <3>3. \A i \in 1..(j - 1) : i + 1 \in 1..((j + 1) - 1) /\ wire'[p][i] = wire[p][i + 1]
      BY <3>1
    <3>4. wire'[p][j] = wire[p][j + 1] /\ (j + 1 = Len(wire[p]) => j = Len(wire'[p]))
      BY <3>1
    <3>5. \A i \in 1..(j - 1) : wire'[p][j].kind = "chunk" => wire'[p][i].no < wire'[p][j].no
      BY <3>2, <3>3, <3>4 DEF FrameSound
    <3>6. QED
      BY <1>2, <3>2, <3>4, <3>5 DEF FrameSound, Running
  <2>3. QED
    BY <2>1, <2>2
<1>3. ASSUME NEW q \in Pulls, DropFrame(q) PROVE WireSound'
  BY <1>1, <1>2, <1>3 DEF DropFrame, Consume, Takes, taskVars
<1>4. ASSUME NEW q \in Pulls, TakePull(q) PROVE WireSound'
  <2>1. wire[q] = <<>>
    BY <1>4 DEF TakePull, TasksFollow
  <2>2. Len(wire[q]) = 0
    BY <2>1
  <2>3. wire' = wire /\ next' = next /\ \A p \in Pulls \ {q} : task'[p] = task[p]
    BY <1>4 DEF TakePull, TypeOK
  <2>4. QED
    BY <2>2, <2>3 DEF WireSound, FrameSound, Running
<1>5. ASSUME NEW q \in Pulls, Sends(q) PROVE WireSound'
  <2>1. \A p \in Pulls \ {q} : wire'[p] = wire[p] /\ task'[p] = task[p] /\ next'[p] = next[p]
    BY <1>5 DEF Sends, MovesTo, SendsNext, Returns, TypeOK
  <2>2. ASSUME NEW j \in 1..Len(wire[q])
        PROVE  /\ wire[q][j].kind = "chunk" /\ wire[q][j] \in Frames /\ FrameSound(q, j)
               /\ task[q] # "opening"
    <3>1. FrameSound(q, j) /\ wire[q][j] \in Frames
      BY ElementOfSeq DEF WireSound, TypeOK
    <3>2. wire[q] # <<>>
      OBVIOUS
    <3>3. QED
      BY <1>5, <3>1, <3>2 DEF Sends, FrameSound, TasksFollow
  <2>3. ASSUME NEW j \in 1..Len(wire'[q]) PROVE FrameSound(q, j)'
    <3>1. ASSUME NEW a \in {"opening", "reading"}, NEW b \in {"reading", "ready"}, MovesTo(q, a, b)
          PROVE  FrameSound(q, j)'
      <4>1. wire' = wire /\ next' = next /\ task[q] = a /\ task'[q] = b
        BY <3>1 DEF MovesTo, TypeOK
      <4>2. FrameSound(q, j) /\ task[q] = "reading" /\ wire[q][j].kind = "chunk"
        BY <2>2, <4>1
      <4>3. QED
        BY <4>1, <4>2 DEF FrameSound, Running
    <3>2. CASE SendsNext(q)
      <4>1. next[q] \in Nat /\ next[q] \in 1..Chunks /\ Chunk(next[q]) \in Frames
        BY <3>2, PullAssumption DEF SendsNext, TypeOK, Chunk, Frames
      <4>2. /\ wire'[q] = Append(wire[q], Chunk(next[q])) /\ next'[q] = next[q] + 1
            /\ task[q] = "ready" /\ task'[q] = "reading"
        BY <3>2 DEF SendsNext, TypeOK
      <4>3. /\ Len(wire[q]) \in Nat /\ Len(wire'[q]) = Len(wire[q]) + 1
            /\ \A i \in 1..Len(wire[q]) : wire'[q][i] = wire[q][i]
            /\ wire'[q][Len(wire[q]) + 1] = Chunk(next[q])
        BY <4>1, <4>2, AppendToWire
      <4>4. \A i \in 1..Len(wire[q]) : wire[q][i].no \in Nat /\ wire[q][i].no < next[q]
        BY <2>2, <4>2 DEF FrameSound, Running, Frames
      <4>5. CASE j = Len(wire[q]) + 1
        BY <4>1, <4>2, <4>3, <4>4, <4>5 DEF FrameSound, Running, Chunk
      <4>6. CASE j \in 1..Len(wire[q])
        <5>1. \A i \in 1..(j - 1) : i \in 1..Len(wire[q])
          BY <4>3, <4>6
        <5>2. FrameSound(q, j) /\ wire[q][j].kind = "chunk"
          BY <2>2, <4>6
        <5>3. QED
          BY <4>1, <4>2, <4>3, <4>4, <4>6, <5>1, <5>2 DEF FrameSound, Running
      <4>7. QED
        BY <4>3, <4>5, <4>6
    <3>3. CASE Returns(q)
      <4>1. task'[q] = "over"
        BY <3>3 DEF Returns, TypeOK
      <4>2. CASE wire' = wire
        <5>1. FrameSound(q, j) /\ wire[q][j].kind = "chunk"
          BY <2>2, <4>2
        <5>2. QED
          BY <4>1, <4>2, <5>1 DEF FrameSound, Running
      <4>3. ASSUME NEW ok \in BOOLEAN, wire'[q] = Append(wire[q], End(ok)) PROVE FrameSound(q, j)'
        <5>1. End(ok) \in Frames /\ End(ok).kind # "chunk"
          BY PullAssumption DEF End, Frames
        <5>2. /\ Len(wire[q]) \in Nat /\ Len(wire'[q]) = Len(wire[q]) + 1
              /\ \A i \in 1..Len(wire[q]) : wire'[q][i] = wire[q][i]
              /\ wire'[q][Len(wire[q]) + 1] = End(ok)
          BY <4>3, <5>1, AppendToWire
        <5>3. CASE j = Len(wire[q]) + 1
          BY <4>1, <5>1, <5>2, <5>3 DEF FrameSound, Running
        <5>4. CASE j \in 1..Len(wire[q])
          <6>1. \A i \in 1..(j - 1) : i \in 1..Len(wire[q])
            BY <5>2, <5>4
          <6>2. FrameSound(q, j) /\ wire[q][j].kind = "chunk"
            BY <2>2, <5>4
          <6>3. QED
            BY <4>1, <5>2, <5>4, <6>1, <6>2 DEF FrameSound, Running
        <5>5. QED
          BY <5>2, <5>3, <5>4
      <4>4. wire' = wire \/ \E ok \in BOOLEAN : wire'[q] = Append(wire[q], End(ok))
        BY <3>3 DEF Returns, TypeOK
      <4>5. QED
        BY <4>2, <4>3, <4>4
    <3>4. QED
      BY <1>5, <3>1, <3>2, <3>3 DEF Sends
  <2>4. ASSUME NEW p \in Pulls \ {q}, NEW j \in 1..Len(wire'[p]) PROVE FrameSound(p, j)'
    BY <2>1, <2>4 DEF WireSound, FrameSound, Running
  <2>5. QED
    BY <2>3, <2>4 DEF WireSound
<1>6. CASE LinkFails
  <2>1. \A p \in Pulls : Len(wire'[p]) = 0
    BY <1>6 DEF LinkFails
  <2>2. QED
    BY <2>1 DEF WireSound
<1>7. ASSUME NEW r \in Requests, EndsPull(r) \/ OnData(r) PROVE WireSound'
  BY <1>1, <1>2, <1>7, PullIsPull, FrameTaken DEF EndsPull, taskVars
<1>8. QED
  BY <1>1, <1>3, <1>4, <1>5, <1>6, <1>7, Steps
  DEF Quiet, Request, AskPull, PullStarts, Concat, TakeCancel, linkVars, taskVars

-----------------------------------------------------------------------------
\* A step that leaves the stream of a request alone.
Untouched(q) ==
  /\ data'[q] = data[q] /\ Pending(q)' = Pending(q)
  /\ Pending(q) =>
       /\ Pull(q)' = Pull(q) /\ (Pull(q) \in broken => Pull(q) \in broken')
       /\ wire'[Pull(q)] = wire[Pull(q)]
       /\ task'[Pull(q)] = task[Pull(q)] /\ next'[Pull(q)] = next[Pull(q)]

LEMMA StreamKept ==
  ASSUME NEW q \in Requests, StreamOf(q), Untouched(q)
  PROVE  StreamOf(q)'
<1>1. CASE ~Pending(q)
  BY <1>1 DEF StreamOf, Untouched, Increasing
<1>2. CASE Pending(q)
  <2>1. DataBefore(q)'
    BY <1>2 DEF StreamOf, Untouched, DataBefore, Running
  <2>2. Pull(q)' \notin broken' => Contiguous(q)'
    BY <1>2 DEF StreamOf, Untouched, Contiguous, Running
  <2>3. QED
    BY <1>2, <2>1, <2>2 DEF StreamOf, Untouched, Increasing
<1>3. QED
  BY <1>1, <1>2

\* A request that waits for nothing has an empty stream.
LEMMA StreamEmpty ==
  ASSUME NEW q \in Requests, data'[q] = <<>>, Pending(q)' = FALSE
  PROVE  StreamOf(q)'
  BY DEF StreamOf, Increasing

LEMMA DataIsSeq ==
  ASSUME TypeOK, NEW r \in Requests
  PROVE  /\ data[r] \in Seq(1..Chunks) /\ Len(data[r]) \in Nat
         /\ \A i \in 1..Len(data[r]) : data[r][i] \in Nat
         /\ Chunks \in Nat
  BY PullAssumption, ElementOfSeq, LenProperties DEF TypeOK, Numbers

LEMMA IncreasingAppend ==
  ASSUME NEW q \in Seq(Nat), NEW h \in Nat, Increasing(q), \A i \in 1..Len(q) : q[i] < h
  PROVE  Increasing(Append(q, h))
<1>1. Len(q) \in Nat
  BY LenProperties
<1>2. /\ Len(Append(q, h)) = Len(q) + 1 /\ Append(q, h)[Len(q) + 1] = h
      /\ \A i \in 1..Len(q) : Append(q, h)[i] = q[i]
  BY AppendProperties
<1> SUFFICES ASSUME NEW i \in 1..(Len(q) + 1), NEW j \in 1..(Len(q) + 1), i < j
             PROVE  Append(q, h)[i] < Append(q, h)[j]
  BY <1>2 DEF Increasing
<1>3. i \in 1..Len(q) /\ (j \in 1..Len(q) \/ j = Len(q) + 1)
  BY <1>1
<1>4. CASE j \in 1..Len(q)
  BY <1>2, <1>3, <1>4 DEF Increasing
<1>5. CASE j = Len(q) + 1
  BY <1>2, <1>3, <1>5
<1>6. QED
  BY <1>3, <1>4, <1>5

\* A chunk received goes on with what was received before.
LEMMA StreamReceives ==
  ASSUME TypeOK, TasksFollow, WireSound, NEW r \in Requests, StreamOf(r), OnData(r)
  PROVE  StreamOf(r)'
<1> DEFINE p == Pull(r)
           w == wire[p]
           d == data[r]
           h == wire[p][1].no
<1>1. /\ p \in Pulls /\ Pending(r) /\ Pending(r)' /\ p' = p /\ wire[p] # <<>> /\ w[1].kind = "chunk"
      /\ wire'[p] = Tail(w) /\ data'[r] = Append(d, h) /\ UNCHANGED <<task, next, broken>>
  <2>1. Takes(p) /\ Head(w) = w[1] /\ p \in Pulls
    BY FrameTaken, PullIsPull, TailOfWire DEF Takes
  <2>2. QED
    <3>1. Pending(r) /\ UNCHANGED <<req, at, asked, task, next, broken>> /\ w # <<>>
      BY <2>1, FrameTaken DEF Takes, taskVars, histVars
    <3>2. Pending(r)' /\ p' = p
      BY <3>1 DEF Pending, Pull
    <3>3. wire'[p] = Tail(w) /\ w[1].kind = "chunk"
      BY <2>1, FrameTaken DEF Takes, TypeOK
    <3>4. data'[r] = Append(d, h)
      BY <2>1, FrameTaken DEF TypeOK
    <3>5. QED
      BY <2>1, <3>1, <3>2, <3>3, <3>4
<1>2. /\ Len(w) \in Nat \ {0} /\ Len(wire'[p]) = Len(w) - 1
      /\ \A j \in 1..Len(wire'[p]) : wire'[p][j] = w[j + 1] /\ j + 1 \in 1..Len(w)
  BY <1>1, TailOfWire
<1>3. FrameSound(p, 1) /\ h \in 1..Chunks /\ 1 \in 1..Len(w)
  BY <1>1, <1>2 DEF WireSound, FrameSound
<1>4. /\ Len(data'[r]) = Len(d) + 1 /\ data'[r][Len(d) + 1] = h
      /\ \A i \in 1..Len(d) : data'[r][i] = d[i]
  BY <1>1, <1>3, DataIsSeq, AppendProperties
<1>5. Len(d) \in Nat /\ \A i \in 1..Len(d) : d[i] \in Nat /\ d[i] < h
  BY <1>1, <1>3, DataIsSeq DEF StreamOf, DataBefore
<1>6. task[p] \notin {"none", "opening"}
  BY <1>1 DEF TasksFollow
<1>7. ASSUME NEW j \in 1..Len(wire'[p]), wire'[p][j].kind = "chunk"
      PROVE  h < wire'[p][j].no /\ wire'[p][j].no \in Nat
  <2>1. FrameSound(p, j + 1) /\ 1 \in 1..((j + 1) - 1) /\ wire'[p][j] = wire[p][j + 1]
    BY <1>1, <1>2 DEF WireSound
  <2>2. QED
    BY <1>7, <2>1 DEF FrameSound
<1>8. Running(p) => h < next[p] /\ next[p] \in Nat
  BY <1>1, <1>3 DEF FrameSound, TypeOK
<1>9. Increasing(data[r])'
  <2>1. d \in Seq(Nat) /\ h \in Nat /\ Increasing(d)
    BY <1>3, DataIsSeq, SeqMonotonic DEF StreamOf
  <2> HIDE DEF d, h
  <2>2. Increasing(data'[r])
    BY <1>1, <1>5, <2>1, IncreasingAppend
  <2>3. QED
    BY <2>2 DEF Increasing
<1>10. DataBefore(r)'
  <2>0. h \in Nat
    BY <1>3
  <2>1. ASSUME NEW i \in 1..Len(data'[r]) PROVE data'[r][i] \in Nat /\ data'[r][i] <= h
    <3>1. i \in 1..Len(d) \/ i = Len(d) + 1
      BY <1>4, <1>5
    <3> HIDE DEF d, h
    <3>2. CASE i \in 1..Len(d)
      BY <1>4, <1>5, <2>0, <3>2
    <3>3. CASE i = Len(d) + 1
      BY <1>4, <2>0, <3>3
    <3>4. QED
      BY <3>1, <3>2, <3>3
  <2>2. ASSUME NEW i \in 1..Len(data'[r]), Running(p) PROVE data'[r][i] < next[p]
    <3> HIDE DEF h
    <3>1. QED
      BY <1>8, <2>0, <2>1, <2>2
  <2>3. ASSUME NEW i \in 1..Len(data'[r]), NEW j \in 1..Len(wire'[p]), wire'[p][j].kind = "chunk"
        PROVE  data'[r][i] < wire'[p][j].no
    <3> HIDE DEF h
    <3>1. QED
      BY <1>7, <2>0, <2>1, <2>3
  <2>4. Pull(r)' = Pull(r) /\ UNCHANGED <<task, next>>
    BY <1>1
  <2>5. QED
    BY <1>6, <2>2, <2>3, <2>4 DEF DataBefore, Running
<1>11. ASSUME Pull(r) \notin broken PROVE Contiguous(r)'
  <2>1. Contiguous(r)
    BY <1>1, <1>11 DEF StreamOf
  <2>0. /\ Len(d) \in Nat /\ Len(w) \in Nat
        /\ Len(data'[r]) = Len(d) + 1 /\ Len(wire'[p]) = Len(w) - 1
    BY <1>2, <1>4, <1>5
  <2>2. h = Len(d) + 1
    BY <1>1, <1>3, <1>5, <2>1 DEF Contiguous
  <2>3. \A i \in 1..Len(data'[r]) : data'[r][i] = i
    BY <1>4, <1>5, <2>1, <2>2 DEF Contiguous
  <2>4. ASSUME NEW j \in 1..Len(wire'[p])
        PROVE  /\ wire'[p][j].kind = "chunk" => wire'[p][j].no = Len(data'[r]) + j
               /\ wire'[p][j].kind = "end" => Chunks = Len(data'[r]) + j - 1
    <3>1. j + 1 \in 1..Len(w) /\ wire'[p][j] = w[j + 1] /\ j \in Nat
      BY <1>2
    <3>2. /\ w[j + 1].kind = "chunk" => w[j + 1].no = Len(d) + (j + 1)
          /\ w[j + 1].kind = "end" => Chunks = Len(d) + (j + 1) - 1
      BY <2>1, <3>1 DEF Contiguous
    <3>3. QED
      <4>1. ASSUME NEW a \in Nat, NEW k \in Nat
            PROVE  a + (k + 1) = (a + 1) + k /\ a + (k + 1) - 1 = (a + 1) + k - 1
        OBVIOUS
      <4>2. Len(d) + (j + 1) = Len(data'[r]) + j /\ Len(d) + (j + 1) - 1 = Len(data'[r]) + j - 1
        <5>1. Len(d) \in Nat /\ j \in Nat /\ Len(data'[r]) = Len(d) + 1
          BY <2>0, <3>1
        <5> HIDE DEF d
        <5>2. QED
          BY <4>1, <5>1
      <4>3. QED
        BY <3>1, <3>2, <4>2
  <2>5. Running(p) => next[p] = Len(data'[r]) + Len(wire'[p]) + 1
    <3>1. ASSUME NEW a \in Nat, NEW b \in Nat PROVE a + b + 1 = (a + 1) + (b - 1) + 1
      OBVIOUS
    <3>2. Len(d) + Len(w) + 1 = Len(data'[r]) + Len(wire'[p]) + 1
      BY <2>0, <3>1
    <3>3. QED
      BY <2>1, <3>2 DEF Contiguous
  <2>6. QED
    BY <1>1, <2>3, <2>4, <2>5 DEF Contiguous, Running
<1>12. QED
  BY <1>1, <1>9, <1>10, <1>11 DEF StreamOf

\* A frame sent goes on with what is on the wire.
LEMMA StreamSent ==
  ASSUME TypeOK, TasksFollow, WireSound, NEW r \in Requests, StreamOf(r),
         Pending(r), Sends(Pull(r))
  PROVE  StreamOf(r)'
<1> DEFINE p == Pull(r)
           w == wire[p]
           d == data[r]
<1>1. p \in Pulls /\ p' = p /\ Pending(r)' /\ data' = data /\ broken' = broken
  <2>1. p \in Pulls
    BY PullIsPull
  <2>2. UNCHANGED <<req, at, asked, data, broken>>
    BY DEF Sends, reqVars, histVars
  <2>3. QED
    BY <2>1, <2>2 DEF Pull, Pending
<1>2. Len(d) \in Nat /\ (\A i \in 1..Len(d) : d[i] \in Nat) /\ next[p] \in Nat /\ Len(w) \in Nat
  BY <1>1, DataIsSeq, LenProperties DEF TypeOK
<1>3. Increasing(data[r])' /\ DataBefore(r)
  BY <1>1 DEF StreamOf, Increasing
<1>4. ASSUME NEW a \in {"opening", "reading"}, NEW b \in {"reading", "ready"}, MovesTo(p, a, b)
      PROVE  StreamOf(r)'
  <2>1. wire' = wire /\ next' = next /\ task[p] = a /\ task'[p] = b
    BY <1>1, <1>4 DEF MovesTo, TypeOK
  <2>2. a = "opening" => d = <<>> /\ w = <<>> /\ next[p] = 1
    BY <1>1, <1>3, <2>1 DEF DataBefore, TasksFollow
  <2>3. CASE a = "opening"
    <3> HIDE DEF d, w
    <3>0. Len(d) = 0 /\ Len(w) = 0 /\ next[p] = 1
      BY <2>2, <2>3
    <3>1. Len(d) = 0 /\ Len(w) = 0 /\ next[p] = Len(d) + Len(w) + 1
      BY <3>0
    <3> USE DEF d, w
    <3>2. DataBefore(r)' /\ Contiguous(r)'
      BY <1>1, <2>1, <3>1 DEF DataBefore, Contiguous
    <3>3. QED
      BY <1>1, <1>3, <3>2 DEF StreamOf
  <2>4. CASE a = "reading"
    <3>1. DataBefore(r)'
      BY <1>1, <1>3, <2>1, <2>4 DEF DataBefore, Running
    <3>2. ASSUME p \notin broken PROVE Contiguous(r)'
      BY <1>1, <2>1, <2>4, <3>2 DEF StreamOf, Contiguous, Running
    <3>3. QED
      BY <1>1, <1>3, <3>1, <3>2 DEF StreamOf
  <2>5. QED
    BY <2>3, <2>4
<1>5. CASE SendsNext(p)
  <2>1. Chunk(next[p]) \in Frames /\ Chunk(next[p]).kind = "chunk" /\ Chunk(next[p]).no = next[p]
    BY <1>1, <1>2, <1>5, PullAssumption DEF SendsNext, Chunk, Frames
  <2>2. /\ task[p] = "ready" /\ task'[p] = "reading" /\ next'[p] = next[p] + 1
        /\ wire'[p] = Append(w, Chunk(next[p]))
    BY <1>1, <1>5 DEF SendsNext, TypeOK
  <2>3. /\ Len(wire'[p]) = Len(w) + 1 /\ wire'[p][Len(w) + 1] = Chunk(next[p])
        /\ \A j \in 1..Len(w) : wire'[p][j] = w[j]
    BY <1>1, <2>1, <2>2, AppendToWire
  <2>4. \A i \in 1..Len(d) : d[i] < next[p]
    BY <1>3, <2>2 DEF DataBefore, Running
  <2>5. ASSUME NEW j \in 1..Len(wire'[p]) PROVE j \in 1..Len(w) \/ j = Len(w) + 1
    BY <1>2, <2>3
  <2>6. DataBefore(r)'
    <3>1. ASSUME NEW i \in 1..Len(d), NEW j \in 1..Len(wire'[p]), wire'[p][j].kind = "chunk"
          PROVE  d[i] < wire'[p][j].no
      BY <1>3, <2>1, <2>3, <2>4, <2>5, <3>1 DEF DataBefore
    <3>2. \A i \in 1..Len(d) : d[i] < next'[p]
      BY <1>2, <2>2, <2>4
    <3>3. QED
      BY <1>1, <2>2, <3>1, <3>2 DEF DataBefore
  <2>7. ASSUME p \notin broken PROVE Contiguous(r)'
    <3>1. Contiguous(r)
      BY <2>7 DEF StreamOf
    <3>2. next[p] = Len(d) + Len(w) + 1
      BY <2>2, <3>1 DEF Contiguous, Running
    <3>3. ASSUME NEW n \in Nat, NEW m \in Nat
          PROVE  (n + m + 1) + 1 = n + (m + 1) + 1 /\ n + m + 1 = n + (m + 1)
      OBVIOUS
    <3>4. next'[p] = Len(d) + Len(wire'[p]) + 1 /\ next[p] = Len(d) + (Len(w) + 1)
      BY <1>2, <2>2, <2>3, <3>2, <3>3
    <3>5. ASSUME NEW j \in 1..Len(wire'[p])
          PROVE  /\ wire'[p][j].kind = "chunk" => wire'[p][j].no = Len(d) + j
                 /\ wire'[p][j].kind = "end" => Chunks = Len(d) + j - 1
      <4>1. CASE j \in 1..Len(w)
        BY <2>3, <3>1, <4>1 DEF Contiguous
      <4>2. CASE j = Len(w) + 1
        BY <2>1, <2>3, <3>4, <4>2
      <4>3. QED
        BY <2>5, <4>1, <4>2
    <3>6. QED
      BY <1>1, <3>1, <3>4, <3>5 DEF Contiguous
  <2>8. QED
    BY <1>1, <1>3, <2>6, <2>7 DEF StreamOf
<1>6. CASE Returns(p)
  <2>1. task'[p] = "over"
    BY <1>1, <1>6 DEF Returns, TypeOK
  <2>2. CASE wire' = wire
    <3>1. DataBefore(r)'
      BY <1>1, <1>3, <2>1, <2>2 DEF DataBefore, Running
    <3>2. ASSUME p \notin broken PROVE Contiguous(r)'
      BY <1>1, <2>1, <2>2, <3>2 DEF StreamOf, Contiguous, Running
    <3>3. QED
      BY <1>1, <1>3, <3>1, <3>2 DEF StreamOf
  <2>3. ASSUME NEW ok \in BOOLEAN, wire'[p] = Append(w, End(ok)),
               ok => task[p] = "reading" /\ next[p] = Chunks + 1
        PROVE  StreamOf(r)'
    <3>1. End(ok) \in Frames /\ End(ok).kind # "chunk" /\ (End(ok).kind = "end" => ok)
      BY PullAssumption DEF End, Frames
    <3>2. /\ Len(wire'[p]) = Len(w) + 1 /\ wire'[p][Len(w) + 1] = End(ok)
          /\ \A j \in 1..Len(w) : wire'[p][j] = w[j]
      BY <1>1, <2>3, <3>1, AppendToWire
    <3>3. ASSUME NEW j \in 1..Len(wire'[p]) PROVE j \in 1..Len(w) \/ j = Len(w) + 1
      BY <1>2, <3>2
    <3>4. DataBefore(r)'
      <4>1. ASSUME NEW i \in 1..Len(d), NEW j \in 1..Len(wire'[p]), wire'[p][j].kind = "chunk"
            PROVE  d[i] < wire'[p][j].no
        BY <1>3, <3>1, <3>2, <3>3, <4>1 DEF DataBefore
      <4>2. QED
        BY <1>1, <2>1, <4>1 DEF DataBefore, Running
    <3>5. ASSUME p \notin broken PROVE Contiguous(r)'
      <4>1. Contiguous(r)
        BY <3>5 DEF StreamOf
      <4>2. ok => Chunks = Len(d) + (Len(w) + 1) - 1
        <5>1. ok => next[p] = Len(d) + Len(w) + 1 /\ next[p] = Chunks + 1
          BY <2>3, <4>1 DEF Contiguous, Running
        <5>2. ASSUME NEW n \in Nat, NEW m \in Nat, NEW c \in Nat, n + m + 1 = c + 1
              PROVE  c = n + (m + 1) - 1
          BY <5>2
        <5>3. Chunks \in Nat
          BY PullAssumption
        <5> HIDE DEF d, w
        <5>4. QED
          BY <1>2, <5>1, <5>2, <5>3
      <4>3. ASSUME NEW j \in 1..Len(wire'[p])
            PROVE  /\ wire'[p][j].kind = "chunk" => wire'[p][j].no = Len(d) + j
                   /\ wire'[p][j].kind = "end" => Chunks = Len(d) + j - 1
        <5>1. CASE j \in 1..Len(w)
          BY <3>2, <4>1, <5>1 DEF Contiguous
        <5>2. CASE j = Len(w) + 1
          BY <3>1, <3>2, <4>2, <5>2
        <5>3. QED
          BY <3>3, <5>1, <5>2
      <4>4. QED
        BY <1>1, <2>1, <4>1, <4>3 DEF Contiguous, Running
    <3>6. QED
      BY <1>1, <1>3, <3>4, <3>5 DEF StreamOf
  <2>4. wire' = wire \/ \E ok \in BOOLEAN :
          wire'[p] = Append(w, End(ok)) /\ (ok => task[p] = "reading" /\ next[p] = Chunks + 1)
    BY <1>1, <1>6 DEF Returns, TypeOK
  <2>5. QED
    BY <2>2, <2>3, <2>4
<1>7. QED
  BY <1>4, <1>5, <1>6 DEF Sends

\* What is received, on the wire and still to be sent stays one stream.
LEMMA StreamStep ==
  ASSUME TypeOK, AskedPulls, AheadUnknown, TasksFollow, WireSound, StreamsSound, [Next]_vars
  PROVE  StreamsSound'
<1>1. ASSUME \A q \in Requests : Untouched(q) PROVE StreamsSound'
  BY <1>1, StreamKept DEF StreamsSound
<1>2. ASSUME NEW r \in Requests, StreamOf(r)', \A q \in Requests \ {r} : Untouched(q)
      PROVE  StreamsSound'
  BY <1>2, StreamKept DEF StreamsSound
<1>3. \A q, r \in Requests : q # r => Pull(q) # Pull(r)
  BY DEF Pull
<1>4. ASSUME UNCHANGED <<at, data, wire, task, next, broken>>,
             \A q \in Requests : Pending(q)' = Pending(q)
      PROVE  StreamsSound'
  BY <1>1, <1>4 DEF Untouched, Pull
<1>5. ASSUME NEW r \in Requests, Request(r) PROVE StreamsSound'
  <2>1. /\ req[r] = "new" /\ req' = [req EXCEPT ![r] = req'[r]]
        /\ UNCHANGED <<at, asked, data, wire, task, next, broken>>
    BY <1>5 DEF Request, TypeOK, linkVars, taskVars, histVars
  <2>2. \A q \in Requests : Pending(q)' = Pending(q)
    BY <2>1 DEF Pending, AskedPulls, TypeOK
  <2>3. QED
    BY <1>4, <2>1, <2>2
<1>6. ASSUME NEW r \in Requests, AskPull(r), link = "up" PROVE StreamsSound'
  <2>1. /\ req[r] = "pulling" /\ asked[r] = "no" /\ asked' = [asked EXCEPT ![r] = "waiting"]
        /\ UNCHANGED <<req, at, data, wire, task, next, broken>>
    BY <1>6 DEF AskPull, taskVars, histVars
  <2>2. Pull(r)' = Pull(r) /\ Pull(r) \in Pulls /\ Ahead(Pull(r))
    BY <2>1, PullIsPull DEF Pull, Ahead
  <2>3. data[r] = <<>> /\ wire[Pull(r)] = <<>> /\ task[Pull(r)] = "none"
    BY <2>1, <2>2 DEF StreamsSound, StreamOf, Pending, AheadUnknown, TasksFollow
  <2>4. StreamOf(r)'
    <3>1. Len(data'[r]) = 0 /\ Len(wire'[Pull(r)]) = 0 /\ data'[r] = <<>>
      BY <2>1, <2>3
    <3>2. DataBefore(r)' /\ Contiguous(r)' /\ Increasing(data[r])'
      BY <2>1, <2>2, <2>3, <3>1 DEF DataBefore, Contiguous, Increasing, Running
    <3>3. QED
      BY <3>1, <3>2 DEF StreamOf
  <2>5. \A q \in Requests \ {r} : Untouched(q)
    BY <2>1 DEF Untouched, Pending, Pull, TypeOK
  <2>6. QED
    BY <1>2, <2>4, <2>5
<1>7. ASSUME NEW r \in Requests, PullStarts(r) PROVE StreamsSound'
  <2>1. /\ Pending(r) /\ asked' = [asked EXCEPT ![r] = "started"]
        /\ UNCHANGED <<req, at, data, wire, task, next, broken>>
    BY <1>7 DEF PullStarts, taskVars, histVars
  <2>2. \A q \in Requests : Pending(q)' = Pending(q)
    BY <2>1 DEF Pending, TypeOK
  <2>3. QED
    BY <1>4, <2>1, <2>2
<1>8. ASSUME NEW r \in Requests, EndsPull(r) PROVE StreamsSound'
  <2>1. StreamOf(r)'
    BY <1>8, StreamEmpty DEF EndsPull, TypeOK
  <2>2. ASSUME NEW q \in Requests \ {r} PROVE Untouched(q)
    <3>1. wire'[Pull(q)] = wire[Pull(q)]
      BY <1>3, <1>8, PullIsPull DEF EndsPull, Takes, TypeOK
    <3>2. QED
      BY <1>8, <3>1 DEF EndsPull, Untouched, taskVars, histVars, TypeOK
  <2>3. QED
    BY <1>2, <2>1, <2>2
<1>9. ASSUME NEW r \in Requests, OnData(r) PROVE StreamsSound'
  <2>1. StreamOf(r)'
    BY <1>9, StreamReceives DEF StreamsSound
  <2>2. ASSUME NEW q \in Requests \ {r} PROVE Untouched(q)
    <3>1. wire'[Pull(q)] = wire[Pull(q)] /\ data'[q] = data[q]
      BY <1>3, <1>9, FrameTaken, PullIsPull DEF Takes, TypeOK
    <3>2. QED
      BY <1>9, <3>1, FrameTaken DEF Untouched, Pending, Pull, taskVars, histVars
  <2>3. QED
    BY <1>2, <2>1, <2>2
<1>10. ASSUME NEW r \in Requests, Concat(r) PROVE StreamsSound'
  <2>1. /\ req[r] = "concat" /\ req' = [req EXCEPT ![r] = req'[r]] /\ req'[r] \in {"served", "failed"}
        /\ UNCHANGED <<at, asked, data, wire, task, next, broken>>
    BY <1>10 DEF Concat, TypeOK, linkVars, taskVars, histVars
  <2>2. \A q \in Requests : Pending(q)' = Pending(q)
    BY <2>1 DEF Pending, TypeOK
  <2>3. QED
    BY <1>4, <2>1, <2>2
<1>11. ASSUME NEW p \in Pulls, DropFrame(p) PROVE StreamsSound'
  <2>1. UNCHANGED <<req, at, asked, data, task, next, broken>>
    BY <1>11 DEF DropFrame, reqVars, taskVars, histVars
  <2>2. ASSUME NEW q \in Requests, Pending(q) PROVE wire'[Pull(q)] = wire[Pull(q)]
    <3>1. Pull(q) # p /\ Pull(q) \in Pulls
      BY <1>11, <2>2, PullIsPull DEF DropFrame
    <3>2. QED
      BY <1>11, <3>1 DEF DropFrame, Consume, TypeOK
  <2>3. QED
    BY <1>1, <2>1, <2>2 DEF Untouched, Pending, Pull
<1>12. ASSUME NEW p \in Pulls, TakePull(p) PROVE StreamsSound'
  <2>1. /\ task' = [task EXCEPT ![p] = "opening"] /\ task[p] = "none" /\ wire[p] = <<>>
        /\ UNCHANGED <<req, at, asked, data, wire, next, broken>>
    BY <1>12 DEF TakePull, reqVars, histVars, TasksFollow
  <2>2. ASSUME NEW q \in Requests PROVE StreamOf(q)'
    <3>1. Pull(q)' = Pull(q) /\ Pending(q)' = Pending(q) /\ Pull(q) \in Pulls /\ StreamOf(q)
      BY <2>1, PullIsPull DEF Pull, Pending, StreamsSound
    <3>2. CASE Pending(q) /\ Pull(q) = p
      <4>1. data'[q] = <<>> /\ Len(data'[q]) = 0 /\ Len(wire'[p]) = 0
        BY <2>1, <3>1, <3>2 DEF StreamOf, DataBefore
      <4>2. DataBefore(q)' /\ Contiguous(q)' /\ Increasing(data[q])'
        BY <2>1, <3>1, <3>2, <4>1 DEF DataBefore, Contiguous, Increasing, Running, TypeOK
      <4>3. QED
        BY <3>1, <3>2, <4>2 DEF StreamOf
    <3>3. CASE ~(Pending(q) /\ Pull(q) = p)
      BY <2>1, <3>1, <3>3, StreamKept DEF Untouched, TypeOK
    <3>4. QED
      BY <3>2, <3>3
  <2>3. QED
    BY <2>2 DEF StreamsSound
<1>13. ASSUME NEW p \in Pulls, Sends(p) PROVE StreamsSound'
  <2>1. /\ UNCHANGED <<req, at, asked, data, broken>>
        /\ \A x \in Pulls \ {p} : wire'[x] = wire[x] /\ task'[x] = task[x] /\ next'[x] = next[x]
    BY <1>13 DEF Sends, MovesTo, SendsNext, Returns, reqVars, histVars, TypeOK
  <2>2. ASSUME NEW q \in Requests PROVE StreamOf(q)'
    <3>1. Pull(q)' = Pull(q) /\ Pending(q)' = Pending(q) /\ Pull(q) \in Pulls /\ StreamOf(q)
      BY <2>1, PullIsPull DEF Pull, Pending, StreamsSound
    <3>2. CASE Pending(q) /\ Pull(q) = p
      BY <1>13, <3>1, <3>2, StreamSent
    <3>3. CASE ~(Pending(q) /\ Pull(q) = p)
      BY <2>1, <3>1, <3>3, StreamKept DEF Untouched
    <3>4. QED
      BY <3>2, <3>3
  <2>3. QED
    BY <2>2 DEF StreamsSound
<1>14. ASSUME NEW p \in Pulls, TakeCancel(p) PROVE StreamsSound'
  BY <1>4, <1>14 DEF TakeCancel, Pending, reqVars, histVars
<1>15. CASE LinkFails
  <2>1. /\ UNCHANGED <<req, at, asked, data, task, next>>
        /\ \A p \in Pulls : wire'[p] = <<>> /\ Len(wire'[p]) = 0
        /\ broken' = broken \cup {p \in Pulls : Pending(p[1]) /\ at[p[1]] = p[2]}
    BY <1>15 DEF LinkFails, reqVars, taskVars
  <2>2. ASSUME NEW q \in Requests PROVE StreamOf(q)'
    <3>1. Pull(q)' = Pull(q) /\ Pending(q)' = Pending(q) /\ Pull(q) \in Pulls /\ StreamOf(q)
      BY <2>1, PullIsPull DEF Pull, Pending, StreamsSound
    <3>2. Pending(q) => Pull(q) \in broken'
      BY <2>1, <3>1, PullIsPull
    <3>3. Pending(q) => DataBefore(q)'
      BY <2>1, <3>1 DEF StreamOf, DataBefore, Running
    <3>4. QED
      BY <2>1, <3>1, <3>2, <3>3 DEF StreamOf, Increasing
  <2>3. QED
    BY <2>2 DEF StreamsSound
<1>16. CASE Quiet
  BY <1>4, <1>16 DEF Quiet, Pending
<1>17. QED
  BY <1>5, <1>6, <1>7, <1>8, <1>9, <1>10, <1>11, <1>12, <1>13, <1>14, <1>15, <1>16, Steps

\* An end frame that a request takes off an unbroken stream follows the whole file.
LEMMA EndIsWhole ==
  ASSUME TypeOK, WireSound, StreamsSound, NEW r \in Requests,
         Pending(r), Arrived(r, "end"), Pull(r) \notin broken
  PROVE  data[r] = Whole
<1>1. /\ Pull(r) \in Pulls /\ wire[Pull(r)] # <<>>
      /\ Head(wire[Pull(r)]) = wire[Pull(r)][1] /\ 1 \in 1..Len(wire[Pull(r)])
      /\ wire[Pull(r)][1].kind = "end"
  BY PullIsPull, TailOfWire DEF Arrived
<1>2. Contiguous(r)
  BY DEF StreamsSound, StreamOf
<1>3. Chunks = Len(data[r]) + 1 - 1
  BY <1>1, <1>2 DEF Contiguous
<1>4. Len(data[r]) = Chunks
  BY <1>3, DataIsSeq
<1>5. data[r] = [i \in 1..Len(data[r]) |-> data[r][i]]
  BY DataIsSeq
<1>6. QED
  BY <1>2, <1>4, <1>5 DEF Contiguous, Whole

\* Only whole copies are stored and glued as long as the link holds.
LEMMA CachedStep ==
  ASSUME TypeOK, TasksFollow, WireSound, StreamsSound, CachedWhole, [Next]_vars
  PROVE  CachedWhole'
<1>1. CASE UNCHANGED <<copies, glued, fails, broken>>
  BY <1>1 DEF CachedWhole
<1>2. ASSUME NEW r \in Requests, OnEnd(r) PROVE CachedWhole'
  <2>1. Pending(r) /\ Arrived(r, "end") /\ Store(r) /\ UNCHANGED <<glued, fails, broken>>
    BY <1>2 DEF OnEnd, histVars
  <2>2. fails = 0 => data[r] = Whole
    BY <2>1, EndIsWhole DEF CachedWhole
  <2>3. copies' = copies \/ copies' = [copies EXCEPT ![at[r]] = data[r]]
    BY <2>1 DEF Store
  <2>4. QED
    BY <2>1, <2>2, <2>3 DEF CachedWhole, TypeOK
<1>3. ASSUME NEW r \in Requests, Concat(r) PROVE CachedWhole'
  <2>1. /\ copies' = [s \in Segs |-> None] /\ UNCHANGED <<fails, broken>>
        /\ glued' = glued \/ \E S \in Gluable(r) : glued' = [s \in S |-> copies[s]]
    BY <1>3 DEF Concat, histVars
  <2>2. ASSUME NEW S \in Gluable(r) PROVE \A s \in S : s \in Segs /\ copies[s] # None
    <3> DEFINE missing == {s \in paths[r] : copies[s] = None}
    <3>1. paths[r] \subseteq Segs
      BY DEF TypeOK
    <3>2. CASE missing = {}
      BY <2>2, <3>1, <3>2 DEF Gluable
    <3>3. CASE missing # {}
      <4>1. S = {} \/ S = {s \in paths[r] : \A m \in missing : s < m}
        BY <2>2, <3>3 DEF Gluable
      <4>2. \A s \in Segs : ~(s < s)
        BY DEF Segs
      <4>3. QED
        BY <3>1, <4>1, <4>2
    <3>4. QED
      BY <3>2, <3>3
  <2>3. QED
    BY <2>1, <2>2 DEF CachedWhole
<1>4. CASE LinkFails
  BY <1>4 DEF LinkFails, CachedWhole, TypeOK
<1>5. ASSUME NEW r \in Requests, App(r), ~OnEnd(r), ~Concat(r) PROVE CachedWhole'
  BY <1>1, <1>5
  DEF App, Request, AskPull, PullStarts, PullNotStarted, OnData, OnError, Stall, storeVars, histVars
<1>6. ASSUME NEW p \in Pulls, Node(p) \/ DropFrame(p) PROVE CachedWhole'
  BY <1>1, <1>6
  DEF Node, TakePull, OpenFile, ReadFile, SendChunk, TakeCancel, DropFrame, storeVars, histVars
<1>7. CASE LinkReturns \/ (\E s \in Segs : LoseFile(s)) \/ UNCHANGED vars
  BY <1>1, <1>7 DEF LinkReturns, LoseFile, vars, storeVars, histVars
<1>8. QED
  BY <1>2, <1>3, <1>4, <1>5, <1>6, <1>7 DEF Next

-----------------------------------------------------------------------------
LEMMA InitInv == Init => IInv
<1> SUFFICES ASSUME Init PROVE IInv
  OBVIOUS
<1>1. Segments \in Nat \ {0} /\ Chunks \in Nat \ {0} /\ MaxFails \in Nat
  BY PullAssumption
<1>2. TypeOK
  <2>1. 1 \in Segs /\ 1 \in 1..(Chunks + 1) /\ <<>> \in Numbers /\ 0 \in Nat
    BY <1>1 DEF Segs, Numbers
  <2>2. <<>> \in Seq(Frames)
    OBVIOUS
  <2>3. QED
    BY <2>1, <2>2 DEF Init, TypeOK
<1>3. AskedPulls /\ AheadUnknown /\ TasksFollow
  BY PullsArePairs DEF Init, AskedPulls, AheadUnknown, TasksFollow
<1>4. \A p \in Pulls : Len(wire[p]) = 0
  BY DEF Init
<1>5. WireSound
  BY <1>4 DEF WireSound
<1>6. StreamsSound
  BY DEF Init, StreamsSound, StreamOf, Pending, Increasing
<1>7. CachedWhole
  BY DEF Init, CachedWhole
<1>8. QED
  BY <1>2, <1>3, <1>5, <1>6, <1>7 DEF IInv

\* The invariant the theorems rest on.
THEOREM Invariance == Spec => []IInv
<1>1. IInv /\ [Next]_vars => IInv'
  BY TypeStep, AskedStep, AheadStep, WireStep, StreamStep, CachedStep DEF IInv
<1>2. QED
  BY <1>1, InitInv, PTL DEF Spec

LEMMA ImpliesPullInv == IInv => PullInv
<1> SUFFICES ASSUME IInv PROVE PullInv
  OBVIOUS
<1>1. ChunksInOrder
  BY DEF IInv, StreamsSound, StreamOf, ChunksInOrder
<1>2. EndsWhole
  BY EndIsWhole DEF IInv, EndsWhole
<1>3. CacheWhole
  BY DEF IInv, CachedWhole, CacheWhole
<1>4. QED
  BY <1>1, <1>2, <1>3 DEF IInv, PullInv

\* Whatever is lost, stalls, is skipped or is cancelled, and however many
\* requests share the directory of copies: a request collects chunks in the
\* order of the file, an end without an error means the whole file unless the
\* link failed during the transfer, and while the link holds the cache has only
\* whole copies (recordings.ts:201-257, relay.go:73-113).
THEOREM PullCorrect == Spec => []PullInv
<1>1. QED
  BY Invariance, ImpliesPullInv, PTL
=============================================================================
