---------------------------- MODULE RecordingPull ----------------------------
(***************************************************************************)
(* Playback of a recording whose files are on a media node: a request of    *)
(* the app (recordings/[id]/file.get.ts) pulls the segments one by one over *)
(* the control channel (services/recordings.ts), glues the copies and       *)
(* caches the result; the node streams a file in chunks (node/relay.go,     *)
(* wsclient.go).  Requests for one recording share the directory of copies. *)
(*                                                                          *)
(* A pull is the transfer of one segment for one request; its random reqId  *)
(* is the pair.  Frames of one pull keep their order, so every pull has its *)
(* own wire.  A file is the sequence of its chunks 1..Chunks; files end     *)
(* before the 2GiB cap.                                                     *)
(***************************************************************************)
EXTENDS Naturals, Sequences, FiniteSets

CONSTANTS
  Requests,   \* requests for the recording
  Segments,   \* the recording has segments 1..Segments
  Chunks,     \* chunks of a file
  MaxFails,   \* bound: failures of the control link
  MayLose,    \* segments whose file another deletion may remove
  None

Segs == 1..Segments
Pulls == Requests \X Segs
Whole == [i \in 1..Chunks |-> i]

ASSUME PullAssumption ==
  Segments \in Nat \ {0} /\ Chunks \in Nat \ {0} /\ MaxFails \in Nat
  /\ MayLose \subseteq Segs

VARIABLES
  \* app
  req,      \* new, pulling, concat (ffmpeg runs), served, failed
  at,       \* the segment a request is at
  asked,    \* recording_pull RPC of that segment: no, waiting, started
  data,     \* chunks: what the current pull has received
  paths,    \* absPaths: segments the request has copies of
  dir,      \* the directory of copies exists
  copies,   \* its files
  glued,    \* the cached glue: None or the contents of its segments
  \* control channel
  link,     \* up, or not
  cmds,     \* pull and cancel frames on their way to the node
  answers,  \* answers to recording_pull on their way to the app
  wire,     \* chunk and end frames on their way to the app
  \* node
  task,     \* streamFileWS: none, opening, reading, ready (a chunk), over
  next,     \* the chunk it reads or holds
  canceled, \* recPulls: transfers whose context has been cancelled
  files,    \* segments on the node's disk
  \* history
  fails,
  broken    \* pulls during which the link failed

reqVars == <<req, at, asked, data, paths>>
storeVars == <<dir, copies, glued>>
linkVars == <<link, cmds, answers, wire>>
taskVars == <<task, next, canceled, files>>
histVars == <<fails, broken>>
vars == <<reqVars, storeVars, linkVars, taskVars, histVars>>

-----------------------------------------------------------------------------
Cmd(kind, p) == [kind |-> kind, of |-> p]
Chunk(i) == [kind |-> "chunk", no |-> i]
End(ok) == [kind |-> IF ok THEN "end" ELSE "error", no |-> 0]

Pull(r) == <<r, at[r]>>

\* pendingPulls holds the handler of the pull a request waits for.
Pending(r) == req[r] = "pulling" /\ asked[r] # "no"

\* A frame is written if there is a connection to write it to.
Send(p, f) == IF link = "up" THEN [wire EXCEPT ![p] = Append(@, f)] ELSE wire

Init ==
  /\ req = [r \in Requests |-> "new"]
  /\ at = [r \in Requests |-> 1]
  /\ asked = [r \in Requests |-> "no"]
  /\ data = [r \in Requests |-> <<>>]
  /\ paths = [r \in Requests |-> {}]
  /\ dir = FALSE
  /\ copies = [s \in Segs |-> None]
  /\ glued = None
  /\ link = "up" /\ cmds = {} /\ answers = {}
  /\ wire = [p \in Pulls |-> <<>>]
  /\ task = [p \in Pulls |-> "none"]
  /\ next = [p \in Pulls |-> 1]
  /\ files = Segs
  /\ canceled = {}
  /\ fails = 0 /\ broken = {}

-----------------------------------------------------------------------------
(* A request of the app.                                                    *)

\* The cached glue is served; an offline node is a 503; otherwise the
\* directory is there and the first segment is next.
Request(r) ==
  /\ req[r] = "new"
  /\ LET outcome == CASE glued # None -> "served"
                      [] glued = None /\ link # "up" -> "failed"
                      [] OTHER -> "pulling" IN
     /\ req' = [req EXCEPT ![r] = outcome]
     /\ dir' = (dir \/ outcome = "pulling")
  /\ UNCHANGED <<at, asked, data, paths, copies, glued, linkVars, taskVars, histVars>>

\* Mutant: the loop does not stop after the last segment.
AdvanceAlways(r, S) ==
  /\ paths' = [paths EXCEPT ![r] = S]
  /\ asked' = [asked EXCEPT ![r] = "no"]
  /\ data' = [data EXCEPT ![r] = <<>>]
  /\ at' = [at EXCEPT ![r] = @ + 1]
  /\ req' = [req EXCEPT ![r] = IF at[r] < Segments THEN @ ELSE "concat"]

\* The pull of the current segment is over and leaves the request with the
\* copies S: on to the next segment, or to ffmpeg if there is any copy.
Advance(r, S) ==
  /\ paths' = [paths EXCEPT ![r] = S]
  /\ asked' = [asked EXCEPT ![r] = "no"]
  /\ data' = [data EXCEPT ![r] = <<>>]
  /\ IF at[r] < Segments
     THEN at' = [at EXCEPT ![r] = @ + 1] /\ UNCHANGED req
     ELSE /\ req' = [req EXCEPT ![r] = IF S = {} THEN "failed" ELSE "concat"]
          /\ UNCHANGED at

\* A segment that fails to transfer is skipped.
Skip(r) == Advance(r, paths[r])

AskPull(r) ==
  /\ req[r] = "pulling"
  /\ asked[r] = "no"
  /\ IF link = "up"
     THEN /\ asked' = [asked EXCEPT ![r] = "waiting"]
          /\ cmds' = cmds \cup {Cmd("pull", Pull(r))}
          /\ UNCHANGED <<req, at, data, paths>>
     ELSE Skip(r) /\ UNCHANGED cmds
  /\ UNCHANGED <<storeVars, link, answers, wire, taskVars, histVars>>

PullStarts(r) ==
  /\ Pending(r)
  /\ Pull(r) \in answers
  /\ answers' = answers \ {Pull(r)}
  /\ asked' = [asked EXCEPT ![r] = "started"]
  /\ UNCHANGED <<req, at, data, paths, storeVars, link, cmds, wire, taskVars, histVars>>

\* The RPC is not answered in 3s, or the connection closes under it.
PullNotStarted(r) ==
  /\ Pending(r)
  /\ asked[r] = "waiting"
  /\ Skip(r)
  /\ UNCHANGED <<storeVars, linkVars, taskVars, histVars>>

Arrived(r, kind) == wire[Pull(r)] # <<>> /\ Head(wire[Pull(r)]).kind = kind

Consume(p) == wire' = [wire EXCEPT ![p] = Tail(@)]

OnData(r) ==
  /\ Pending(r)
  /\ Arrived(r, "chunk")
  /\ Consume(Pull(r))
  /\ data' = [data EXCEPT ![r] = Append(@, Head(wire[Pull(r)]).no)]
  /\ UNCHANGED <<req, at, asked, paths, storeVars, link, cmds, answers, taskVars, histVars>>

\* finish(null) writes the copy; without the directory the write fails.
Store(r) ==
  IF dir
  THEN /\ copies' = [copies EXCEPT ![at[r]] = data[r]]
       /\ Advance(r, paths[r] \cup {at[r]})
  ELSE Skip(r) /\ UNCHANGED copies

OnEnd(r) ==
  /\ Pending(r)
  /\ Arrived(r, "end")
  /\ Consume(Pull(r))
  /\ Store(r)
  /\ UNCHANGED <<dir, glued, link, cmds, answers, taskVars, histVars>>

OnError(r) ==
  /\ Pending(r)
  /\ Arrived(r, "error")
  /\ Consume(Pull(r))
  /\ Skip(r)
  /\ UNCHANGED <<storeVars, link, cmds, answers, taskVars, histVars>>

CancelPull(r) == cmds' = IF link = "up" THEN cmds \cup {Cmd("cancel", Pull(r))} ELSE cmds

\* Mutant: a stalled transfer counts as finished.
StallFinishes(r) ==
  /\ Pending(r)
  /\ wire[Pull(r)] = <<>>
  /\ CancelPull(r)
  /\ Store(r)
  /\ UNCHANGED <<dir, glued, link, answers, wire, taskVars, histVars>>

\* Mutant: only transfers that have started are watched.
StallOfStarted(r) ==
  /\ Pending(r)
  /\ data[r] # <<>>
  /\ wire[Pull(r)] = <<>>
  /\ CancelPull(r)
  /\ Skip(r)
  /\ UNCHANGED <<storeVars, link, answers, wire, taskVars, histVars>>

\* The stall watchdog: 30s without a chunk.
Stall(r) ==
  /\ Pending(r)
  /\ wire[Pull(r)] = <<>>
  /\ CancelPull(r)
  /\ Skip(r)
  /\ UNCHANGED <<storeVars, link, answers, wire, taskVars, histVars>>

\* Frames of a pull nobody waits for any more are dropped.
DropFrame(p) ==
  /\ ~(Pending(p[1]) /\ at[p[1]] = p[2])
  /\ \/ wire[p] # <<>> /\ Consume(p) /\ UNCHANGED answers
     \/ p \in answers /\ answers' = answers \ {p} /\ UNCHANGED wire
  /\ UNCHANGED <<reqVars, storeVars, link, cmds, taskVars, histVars>>

\* What ffmpeg may glue: all the copies on its list; if one is missing,
\* nothing (it fails) or those before the first one missing.
Gluable(r) ==
  LET missing == {s \in paths[r] : copies[s] = None} IN
  IF missing = {} THEN {paths[r]}
  ELSE {{}, {s \in paths[r] : \A m \in missing : s < m}}

\* Whatever ffmpeg says, the request removes the directory.
Concat(r) ==
  /\ req[r] = "concat"
  /\ \E S \in Gluable(r) :
       IF S = {}
       THEN req' = [req EXCEPT ![r] = "failed"] /\ UNCHANGED glued
       ELSE /\ req' = [req EXCEPT ![r] = "served"]
            /\ glued' = [s \in S |-> copies[s]]
  /\ dir' = FALSE
  /\ copies' = [s \in Segs |-> None]
  /\ UNCHANGED <<at, asked, data, paths, linkVars, taskVars, histVars>>

App(r) ==
  \/ Request(r) \/ AskPull(r) \/ PullStarts(r) \/ PullNotStarted(r)
  \/ OnData(r) \/ OnEnd(r) \/ OnError(r) \/ Stall(r) \/ Concat(r)

-----------------------------------------------------------------------------
(* The node.                                                                *)

\* The transfer runs in a goroutine of its own, the answer does not wait.
TakePull(p) ==
  /\ Cmd("pull", p) \in cmds
  /\ cmds' = cmds \ {Cmd("pull", p)}
  /\ task' = [task EXCEPT ![p] = "opening"]
  /\ answers' = answers \cup {p}
  /\ UNCHANGED <<reqVars, storeVars, link, wire, next, canceled, files, histVars>>

\* The transfer goes on, or returns after writing the frames F (deferred:
\* its entry in recPulls goes).
Continue(p, step) == task' = [task EXCEPT ![p] = step] /\ UNCHANGED <<wire, next, canceled>>

Return(p, F) ==
  /\ task' = [task EXCEPT ![p] = "over"]
  /\ wire' = F
  /\ next' = [next EXCEPT ![p] = 1]
  /\ canceled' = canceled \ {p}

OpenFile(p) ==
  /\ task[p] = "opening"
  /\ IF p[2] \in files THEN Continue(p, "reading") ELSE Return(p, Send(p, End(FALSE)))
  /\ UNCHANGED <<reqVars, storeVars, link, cmds, answers, files, histVars>>

\* Mutant: data that comes with the end of the file is dropped.
ReadDropsLast(p) ==
  /\ task[p] = "reading"
  /\ IF next[p] < Chunks THEN Continue(p, "ready") ELSE Return(p, Send(p, End(TRUE)))
  /\ UNCHANGED <<reqVars, storeVars, link, cmds, answers, files, histVars>>

\* A read may take long; at the end of the file the transfer ends.
ReadFile(p) ==
  /\ task[p] = "reading"
  /\ IF next[p] <= Chunks THEN Continue(p, "ready") ELSE Return(p, Send(p, End(TRUE)))
  /\ UNCHANGED <<reqVars, storeVars, link, cmds, answers, files, histVars>>

\* Mutant: a chunk is sent again after a failure of the link.
SendChunkAgain(p) ==
  /\ task[p] = "ready"
  /\ IF link = "up"
     THEN /\ wire' = Send(p, Chunk(next[p]))
          /\ task' = [task EXCEPT ![p] = "reading"]
          /\ next' = [next EXCEPT ![p] = IF p \in broken THEN @ ELSE @ + 1]
          /\ UNCHANGED canceled
     ELSE Return(p, wire)
  /\ UNCHANGED <<reqVars, storeVars, link, cmds, answers, files, histVars>>

\* Without a connection the chunk and the end frame after it both fail.
SendChunk(p) ==
  /\ task[p] = "ready"
  /\ IF link = "up"
     THEN /\ wire' = Send(p, Chunk(next[p]))
          /\ task' = [task EXCEPT ![p] = "reading"]
          /\ next' = [next EXCEPT ![p] = @ + 1]
          /\ UNCHANGED canceled
     ELSE Return(p, wire)
  /\ UNCHANGED <<reqVars, storeVars, link, cmds, answers, files, histVars>>

\* The context of a running transfer is cancelled; relayFile looks at it
\* only after a read error.
TakeCancel(p) ==
  /\ Cmd("cancel", p) \in cmds
  /\ cmds' = cmds \ {Cmd("cancel", p)}
  /\ canceled' = IF task[p] \in {"none", "over"} THEN canceled ELSE canceled \cup {p}
  /\ UNCHANGED <<reqVars, storeVars, link, answers, wire, task, next, files, histVars>>

Node(p) == TakePull(p) \/ OpenFile(p) \/ ReadFile(p) \/ SendChunk(p) \/ TakeCancel(p)

-----------------------------------------------------------------------------
(* The control link and the node's disk.                                    *)

LinkFails ==
  /\ link = "up"
  /\ fails < MaxFails
  /\ fails' = fails + 1
  /\ link' = "down"
  /\ cmds' = {} /\ answers' = {}
  /\ wire' = [p \in Pulls |-> <<>>]
  /\ broken' = broken \cup {p \in Pulls : Pending(p[1]) /\ at[p[1]] = p[2]}
  /\ UNCHANGED <<reqVars, storeVars, taskVars>>

LinkReturns ==
  /\ link = "down"
  /\ link' = "up"
  /\ UNCHANGED <<reqVars, storeVars, cmds, answers, wire, taskVars, histVars>>

\* Another recording that lists the file is deleted.
LoseFile(s) ==
  /\ s \in files \cap MayLose
  /\ files' = files \ {s}
  /\ UNCHANGED <<reqVars, storeVars, linkVars, task, next, canceled, histVars>>

Next ==
  \/ \E r \in Requests : App(r)
  \/ \E p \in Pulls : Node(p) \/ DropFrame(p)
  \/ LinkFails \/ LinkReturns
  \/ \E s \in Segs : LoseFile(s)

Spec == Init /\ [][Next]_vars

\* The event loop with its timers and ffmpeg goes on; nothing is asked of the
\* node and the link.
Fairness == \A r \in Requests : WF_vars(App(r))

FairSpec == Spec /\ Fairness

-----------------------------------------------------------------------------
(* Properties that hold.                                                    *)

Numbers == Seq(1..Chunks)
Frames == [kind : {"chunk", "end", "error"}, no : 0..Chunks]

\* Every variable has its type.
TypeOK ==
  /\ req \in [Requests -> {"new", "pulling", "concat", "served", "failed"}]
  /\ at \in [Requests -> Segs]
  /\ asked \in [Requests -> {"no", "waiting", "started"}]
  /\ data \in [Requests -> Numbers]
  /\ paths \in [Requests -> SUBSET Segs]
  /\ dir \in BOOLEAN
  /\ copies \in [Segs -> Numbers \cup {None}]
  /\ link \in {"up", "down"}
  /\ cmds \subseteq [kind : {"pull", "cancel"}, of : Pulls]
  /\ answers \subseteq Pulls
  /\ wire \in [Pulls -> Seq(Frames)]
  /\ task \in [Pulls -> {"none", "opening", "reading", "ready", "over"}]
  /\ next \in [Pulls -> 1..(Chunks + 1)]
  /\ files \subseteq Segs
  /\ fails \in Nat /\ broken \subseteq Pulls /\ canceled \subseteq Pulls

Increasing(q) == \A i, j \in 1..Len(q) : i < j => q[i] < q[j]

\* Whatever is lost, stalls or is cancelled, a request collects chunks of
\* the segment it asked for, each once and in the order of the file.
ChunksInOrder == \A r \in Requests : Increasing(data[r])

\* A transfer that ends without an error has brought the whole file, unless
\* the link failed during it.
EndsWhole ==
  \A r \in Requests :
    Pending(r) /\ Arrived(r, "end") /\ Pull(r) \notin broken => data[r] = Whole

\* The cache never holds a copy that is not whole, if the link did not fail.
CacheWhole ==
  glued # None /\ fails = 0 => \A s \in DOMAIN glued : glued[s] = Whole

\* Every request is answered, whatever the node and the link do.
EveryRequestAnswered ==
  \A r \in Requests : req[r] = "pulling" ~> req[r] \in {"served", "failed"}

\* What a request collects, ends with and caches is in order and whole, under
\* the conditions named above (recordings.ts:201-257, relay.go:73-113).
PullInv == TypeOK /\ ChunksInOrder /\ EndsWhole /\ CacheWhole
=============================================================================
