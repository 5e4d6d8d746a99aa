------------------------- MODULE LocalStream_proofs -------------------------
(***************************************************************************)
(* Proofs about LocalStream for any number of names, publishes, restarts    *)
(* and any limits: rows, sessions in memory and recordings stay in step,    *)
(* a recording is filed once, and the sweep spares live publishes.          *)
(***************************************************************************)
EXTENDS LocalStream, FiniteSetTheorems, TLAPS

\* The types the proofs need.
Shape ==
  /\ srs \in [Pubs -> {"none", "allowed", "live", "leaving", "gone"}]
  /\ name \in [Pubs -> Names \cup {None}]
  /\ ended \subseteq Pubs /\ halted \subseteq Pubs
  /\ active \in [Names -> Pubs \cup {None}]
  /\ handle \in [Names -> Pubs \cup {None}]
  /\ quits \subseteq [rec : Pubs, of : Pubs, by : {"hook", "sweep"}]
  /\ filed \in [Pubs -> Nat]
  /\ sweep \in [phase : {"idle", "asked", "closing"}, seen : SUBSET Pubs,
                todo : SUBSET Pubs, at : Pubs \cup {None}]
  /\ steady \subseteq Pubs

Known == {p \in Pubs : name[p] # None}

\* Nothing refers to a publish before its row is inserted, and the session of a
\* name is a publish of that name.
RefersToRows ==
  /\ \A p \in Pubs : srs[p] # "none" => p \in Known
  /\ ended \subseteq Known /\ halted \subseteq Known
  /\ sweep.seen \subseteq Known /\ sweep.todo \subseteq Known
  /\ \A n \in Names : active[n] # None => name[active[n]] = n
  /\ \A p \in steady : srs[p] = "live"

\* The recordings of the handles, those that wait for ffmpeg and those filed
\* are different ones.
RecordingsApart ==
  /\ \A n \in Names : handle[n] # None =>
       /\ name[handle[n]] = n /\ filed[handle[n]] = 0
       /\ \A q \in quits : q.rec # handle[n]
  /\ \A q \in quits : q.rec \in Known /\ filed[q.rec] = 0
  /\ \A q, r \in quits : q.rec = r.rec => q = r
  /\ \A p \in Pubs : filed[p] # 0 => p \in Known

\* The rows a sweep read have different names, and those it is about to close
\* were not live when it began.
SweepSound ==
  /\ \A p, q \in sweep.seen : name[p] = name[q] => p = q
  /\ sweep.todo \cap steady = {}

\* The waiters are the queued monitors, each once; what is taken and who waits
\* agree with the limit.
Permits ==
  /\ mon \in [Pubs -> {"off", "settling", "queued", "probing", "sleeping"}]
  /\ busy \in Nat /\ limit \in 1..MaxLimit /\ waiters \in Seq(Pubs)
  /\ \A i \in 1..Len(waiters) : mon[waiters[i]] = "queued"
  /\ \A i, j \in 1..Len(waiters) : waiters[i] = waiters[j] => i = j
  /\ PermitsExact /\ NoIdlePermit

\* Monitors are of rows.
Watched == \A p \in Pubs : mon[p] # "off" => p \in Known

\* The rest of the types.
Judged ==
  /\ compliant \subseteq Pubs /\ marked \subseteq Pubs /\ panel \subseteq Pubs
  /\ restarts \in 0..MaxRestarts

IInv ==
  /\ Shape /\ RefersToRows
  /\ OneOpenRow /\ RecorderHasSession
  /\ RecordingsApart /\ FiledOnce
  /\ HaltedStaysGone
  /\ SweepSound
  /\ Permits /\ Watched /\ Judged

-----------------------------------------------------------------------------
(* A step keeps the types. *)
LEMMA ShapeStep ==
  ASSUME Shape, RefersToRows, [Next]_vars
  PROVE  Shape'
<1> USE LocalAssumption
<1>1. ASSUME NEW p \in Pubs, NEW n \in Names, OnPublish(p, n) PROVE Shape'
  BY <1>1 DEF Shape, OnPublish, Rows, StartRecording, semVars
<1>2. ASSUME NEW p \in Pubs, NEW n \in Names, OnReject(p, n) PROVE Shape'
  BY <1>2 DEF Shape, OnReject, recVars
<1>3. ASSUME NEW p \in Pubs, OnUnpublish(p) PROVE Shape'
  <2>1. name[p] \in Names
    BY <1>3 DEF Shape, RefersToRows, Known, OnUnpublish
  <2>2. CASE active[name[p]] = None
    BY <1>3, <2>1, <2>2 DEF Shape, OnUnpublish, recVars
  <2>3. CASE active[name[p]] # None
    <3> DEFINE n == name[p]
               s == active[n]
               new == [rec |-> handle[n], of |-> s, by |-> "hook"]
    <3>1. s \in Pubs
      BY <2>1, <2>3 DEF Shape
    <3>2. n \in Recording => new \in [rec : Pubs, of : Pubs, by : {"hook", "sweep"}]
      BY <2>1, <3>1 DEF Shape, Recording
    <3>3. /\ srs' = [srs EXCEPT ![p] = "gone"]
          /\ halted' = halted \cup {s} /\ ended' = ended \cup {s}
          /\ active' = [active EXCEPT ![n] = None]
          /\ handle' = [handle EXCEPT ![n] = None]
          /\ quits' = IF n \in Recording THEN quits \cup {new} ELSE quits
          /\ UNCHANGED <<name, filed, sweep, steady>>
      BY <1>3, <2>3 DEF OnUnpublish, StopRecording
    <3>4. quits' \subseteq [rec : Pubs, of : Pubs, by : {"hook", "sweep"}]
      BY <3>2, <3>3 DEF Shape
    <3> HIDE DEF new
    <3>5. QED
      BY <2>1, <3>1, <3>3, <3>4 DEF Shape
  <2>4. QED
    BY <2>2, <2>3
<1>4. CASE Srs
  BY <1>4 DEF Shape, Srs, TakesStream, Leaves, HookLost, SrsOnly, rowVars, recVars
<1>5. CASE \E p \in Pubs, verdict \in {"none", "over", "within"} : ProbeEnds(p, verdict)
  BY <1>5 DEF Shape, ProbeEnds
<1>6. ASSUME NEW q \in quits, NEW moved \in BOOLEAN, QuitEnds(q, moved) PROVE Shape'
  BY <1>6 DEF Shape, QuitEnds, rowVars
<1>7. CASE SweepReads
  <2>1. sweep'.phase = "asked" /\ sweep' = [phase |-> "asked", seen |-> OpenRows, todo |-> {}, at |-> None]
    BY <1>7 DEF SweepReads, NoSweep
  <2>2. OpenRows \subseteq Pubs
    BY DEF OpenRows
  <2>3. QED
    BY <1>7, <2>1, <2>2 DEF Shape, SweepReads, rowVars, recVars
<1>8. CASE SweepUnreachable
  BY <1>8 DEF Shape, SweepUnreachable, SweepOnly, NoSweep, rowVars, recVars
<1>9. CASE SweepAnswers
  <2>1. PICK S \in SUBSET sweep.seen :
          sweep' = NoSweep \/ sweep' = [sweep EXCEPT !.phase = "closing", !.todo = S]
    BY <1>9 DEF SweepAnswers
  <2>2. SweepOnly
    BY <1>9 DEF SweepAnswers
  <2>3. S \in SUBSET Pubs
    BY DEF Shape
  <2>4. sweep' \in [phase : {"idle", "asked", "closing"}, seen : SUBSET Pubs,
                    todo : SUBSET Pubs, at : Pubs \cup {None}]
    <3>1. CASE sweep' = NoSweep
      BY <3>1 DEF NoSweep
    <3>2. CASE sweep' = [sweep EXCEPT !.phase = "closing", !.todo = S]
      BY <2>3, <3>2 DEF Shape
    <3>3. QED
      BY <2>1, <3>1, <3>2
  <2>5. QED
    BY <2>2, <2>4 DEF Shape, SweepOnly, rowVars, recVars
<1>10. CASE CloseGhost
  <2>1. PICK p \in sweep.todo :
          /\ ended' = ended \cup {p}
          /\ StopRecording(name[p], p, "sweep")
          /\ sweep' = [sweep EXCEPT !.todo = @ \ {p}, !.at = p]
    BY <1>10 DEF CloseGhost
  <2>2. p \in Pubs /\ name[p] \in Names
    BY <2>1 DEF Shape, RefersToRows, Known
  <2> DEFINE new == [rec |-> handle[name[p]], of |-> p, by |-> "sweep"]
  <2>3. name[p] \in Recording => new \in [rec : Pubs, of : Pubs, by : {"hook", "sweep"}]
    BY <2>2 DEF Shape, Recording
  <2>4. quits' \subseteq [rec : Pubs, of : Pubs, by : {"hook", "sweep"}]
    BY <2>1, <2>3 DEF Shape, StopRecording
  <2>5. sweep' \in [phase : {"idle", "asked", "closing"}, seen : SUBSET Pubs,
                    todo : SUBSET Pubs, at : Pubs \cup {None}]
    BY <2>1, <2>2 DEF Shape
  <2>6. handle' = [handle EXCEPT ![name[p]] = None] /\ filed' = filed
    BY <2>1 DEF StopRecording
  <2> HIDE DEF new
  <2>7. QED
    BY <1>10, <2>1, <2>2, <2>4, <2>5, <2>6 DEF Shape, CloseGhost
<1>11. CASE GhostClosed
  BY <1>11 DEF Shape, GhostClosed, NoSweep, rowVars, recVars
<1>12. CASE Restart
  BY <1>12 DEF Shape, Restart, NoSweep, rowVars
<1>13. CASE UNCHANGED <<srs, name, ended, halted, active, handle, quits, filed, sweep, steady>>
  BY <1>13 DEF Shape
<1>14. QED
  BY <1>1, <1>2, <1>3, <1>4, <1>5, <1>6, <1>7, <1>8, <1>9, <1>10, <1>11, <1>12, <1>13
  DEF Next, Hooks, Sweep, Quit, Monitor, MonitorStops, Acquire, Queue, SetMax, MonOnly,
      rowVars, recVars, vars
-----------------------------------------------------------------------------
\* What names a publish names a row, and an inserted row keeps its name.
LEMMA RefersStep ==
  ASSUME Shape, RefersToRows, [Next]_vars
  PROVE  /\ RefersToRows'
         /\ \A p \in Known : p \in Known' /\ name'[p] = name[p]
<1> USE LocalAssumption
<1> DEFINE Goal == /\ RefersToRows'
                   /\ \A p \in Known : p \in Known' /\ name'[p] = name[p]
<1>1. ASSUME NEW p \in Pubs, NEW n \in Names, OnPublish(p, n) \/ OnReject(p, n) PROVE Goal
  <2>1. /\ p \notin Known
        /\ name' = [name EXCEPT ![p] = n]
        /\ srs' \in {[srs EXCEPT ![p] = "allowed"], [srs EXCEPT ![p] = "gone"]}
        /\ ended' \subseteq ended \cup {p} \cup Rows(n)
        /\ active' = active \/ active' = [active EXCEPT ![n] = p]
        /\ UNCHANGED <<halted, sweep, steady>>
    BY <1>1 DEF OnPublish, OnReject, Fresh, Known
  <2>2. Known' = Known \cup {p} /\ \A q \in Known : name'[q] = name[q]
    BY <2>1 DEF Shape, Known
  <2>3. Rows(n) \subseteq Known
    BY DEF Rows, Known
  <2>4. \A m \in Names : active'[m] # None => name'[active'[m]] = m
    BY <2>1, <2>2 DEF Shape, RefersToRows, Known
  <2>5. \A q \in Pubs : srs'[q] # "none" => q \in Known'
    BY <2>1, <2>2 DEF Shape, RefersToRows
  <2>6. \A q \in steady' : srs'[q] = "live"
    BY <2>1 DEF Shape, RefersToRows
  <2>7. ended' \subseteq Known' /\ halted' \subseteq Known'
    BY <2>1, <2>2, <2>3 DEF RefersToRows
  <2>8. sweep'.seen \subseteq Known' /\ sweep'.todo \subseteq Known'
    BY <2>1, <2>2 DEF RefersToRows
  <2>9. QED
    BY <2>2, <2>4, <2>5, <2>6, <2>7, <2>8 DEF RefersToRows
<1>2. ASSUME NEW p \in Pubs, OnUnpublish(p) PROVE Goal
  <2>1. /\ p \in Known
        /\ srs[p] = "leaving" /\ srs' = [srs EXCEPT ![p] = "gone"]
        /\ UNCHANGED <<name, sweep, steady>>
    BY <1>2 DEF Shape, RefersToRows, OnUnpublish
  <2>2. name[p] \in Names
    BY <2>1 DEF Shape, Known
  <2>3. \/ UNCHANGED <<ended, halted, active>>
        \/ /\ active[name[p]] # None
           /\ active' = [active EXCEPT ![name[p]] = None]
           /\ ended' = ended \cup {active[name[p]]}
           /\ halted' = halted \cup {active[name[p]]}
    BY <1>2 DEF OnUnpublish
  <2>4. active[name[p]] # None => active[name[p]] \in Known
    BY <2>2 DEF Shape, RefersToRows, Known
  <2>5. Known' = Known
    BY <2>1 DEF Known
  <2>6. \A m \in Names : active'[m] # None => active'[m] = active[m]
    BY <2>2, <2>3 DEF Shape
  <2>7. ended' \subseteq Known' /\ halted' \subseteq Known'
    BY <2>3, <2>4, <2>5 DEF RefersToRows
  <2>8. /\ \A q \in Pubs : srs'[q] # "none" => q \in Known'
        /\ \A q \in steady' : srs'[q] = "live"
    BY <2>1, <2>5 DEF Shape, RefersToRows
  <2>9. QED
    BY <2>1, <2>5, <2>6, <2>7, <2>8 DEF RefersToRows
<1>3. CASE Srs
  <2>1. /\ UNCHANGED <<name, ended, halted, active, sweep>>
        /\ \E p \in Pubs :
             \/ srs[p] = "allowed" /\ srs' = [srs EXCEPT ![p] = "live"] /\ steady' = steady
             \/ /\ srs[p] \in {"allowed", "live"} /\ srs' = [srs EXCEPT ![p] = "leaving"]
                /\ steady' = steady \ {p}
             \/ srs[p] = "leaving" /\ srs' = [srs EXCEPT ![p] = "gone"] /\ steady' = steady
    BY <1>3 DEF Srs, TakesStream, Leaves, HookLost, SrsOnly, rowVars
  <2>2. Known' = Known
    BY <2>1 DEF Known
  <2>3. /\ \A q \in Pubs : srs'[q] # "none" => srs[q] # "none"
        /\ \A q \in steady' : srs'[q] = "live"
    BY <2>1 DEF Shape, RefersToRows
  <2>4. QED
    BY <2>1, <2>2, <2>3 DEF RefersToRows
<1>4. CASE SweepReads
  <2>1. /\ sweep' = [phase |-> "asked", seen |-> OpenRows, todo |-> {}, at |-> None]
        /\ steady' = {p \in Pubs : srs[p] = "live"}
        /\ UNCHANGED <<srs, name, ended, halted, active>>
    BY <1>4 DEF SweepReads, NoSweep, rowVars
  <2>2. OpenRows \subseteq Known
    BY DEF OpenRows, Known
  <2>3. QED
    BY <2>1, <2>2 DEF RefersToRows, Known
<1>5. CASE SweepUnreachable \/ SweepAnswers \/ GhostClosed
  <2>1. /\ UNCHANGED <<srs, name, ended, halted, active, steady>>
        /\ sweep'.seen \subseteq sweep.seen /\ sweep'.todo \subseteq sweep.seen \cup sweep.todo
    <3>1. UNCHANGED <<srs, name, ended, halted, active, steady>>
      BY <1>5 DEF SweepUnreachable, SweepAnswers, GhostClosed, SweepOnly, rowVars
    <3>2. \/ sweep' = NoSweep \/ sweep' = [sweep EXCEPT !.at = None]
          \/ \E S \in SUBSET sweep.seen : sweep' = [sweep EXCEPT !.phase = "closing", !.todo = S]
      BY <1>5 DEF SweepUnreachable, SweepAnswers, GhostClosed
    <3>3. CASE sweep' = NoSweep
      BY <3>1, <3>3 DEF NoSweep
    <3>4. CASE sweep' = [sweep EXCEPT !.at = None]
      BY <3>1, <3>4 DEF Shape
    <3>5. ASSUME NEW S \in SUBSET sweep.seen,
                 sweep' = [sweep EXCEPT !.phase = "closing", !.todo = S]
          PROVE  sweep'.seen \subseteq sweep.seen /\ sweep'.todo \subseteq sweep.seen \cup sweep.todo
      BY <3>5 DEF Shape
    <3>6. QED
      BY <3>1, <3>2, <3>3, <3>4, <3>5
  <2>2. QED
    BY <2>1 DEF RefersToRows, Known
<1>6. CASE CloseGhost
  <2>1. PICK p \in sweep.todo :
          ended' = ended \cup {p} /\ sweep' = [sweep EXCEPT !.todo = @ \ {p}, !.at = p]
    BY <1>6 DEF CloseGhost
  <2>2. UNCHANGED <<srs, name, halted, active, steady>>
    BY <1>6 DEF CloseGhost
  <2>3. sweep'.seen = sweep.seen /\ sweep'.todo \subseteq sweep.todo
    BY <2>1 DEF Shape
  <2>4. QED
    BY <2>1, <2>2, <2>3 DEF RefersToRows, Known
<1>7. CASE Restart
  BY <1>7 DEF RefersToRows, Known, Restart, NoSweep, rowVars
<1>8. CASE UNCHANGED <<srs, name, ended, halted, active, sweep, steady>>
  BY <1>8 DEF RefersToRows, Known
<1>9. QED
  BY <1>1, <1>2, <1>3, <1>4, <1>5, <1>6, <1>7, <1>8
  DEF Next, Hooks, Sweep, Quit, QuitEnds, Monitor, MonitorStops, Acquire, Queue, ProbeEnds,
      SetMax, MonOnly, rowVars, vars

\* A name keeps at most one open row, and a recording keeps its session: a
\* publish opens its row as it ends the others and takes the name in memory, and
\* whatever ends the row of a name stops the recording of the name as well.
LEMMA RowsStep ==
  ASSUME Shape, RefersToRows, OneOpenRow, RecorderHasSession, [Next]_vars
  PROVE  OneOpenRow' /\ RecorderHasSession'
<1> USE LocalAssumption
<1> DEFINE Goal == OneOpenRow' /\ RecorderHasSession'
<1>1. ASSUME NEW p \in Pubs, NEW n \in Names, OnPublish(p, n) PROVE Goal
  <2>1. /\ p \notin Known
        /\ name' = [name EXCEPT ![p] = n]
        /\ ended' = ended \cup Rows(n)
        /\ active' = [active EXCEPT ![n] = p]
        /\ handle' = handle \/ handle' = [handle EXCEPT ![n] = p]
    BY <1>1 DEF OnPublish, StartRecording, Fresh, Known
  <2>2. OpenRows' = (OpenRows \ Rows(n)) \cup {p}
    BY <2>1 DEF Shape, RefersToRows, OpenRows, Rows, Known
  <2>3. \A q \in OpenRows \ Rows(n) : name'[q] = name[q] /\ name[q] # n
    BY <2>1 DEF Shape, OpenRows, Rows, Known
  <2>4. name'[p] = n
    BY <2>1 DEF Shape
  <2>5. OneOpenRow'
    BY <2>2, <2>3, <2>4 DEF OneOpenRow
  <2>6. ASSUME NEW m \in Names, handle'[m] # None PROVE active'[m] # None /\ active'[m] \in OpenRows'
    <3>1. CASE m = n
      <4>1. active'[n] = p
        BY <2>1 DEF Shape
      <4>2. p # None
        BY DEF Pubs
      <4>3. QED
        BY <2>2, <3>1, <4>1, <4>2
    <3>2. CASE m # n
      <4>1. handle[m] # None /\ active'[m] = active[m]
        BY <2>1, <2>6, <3>2 DEF Shape
      <4>2. active[m] # None /\ active[m] \in OpenRows /\ name[active[m]] = m
        BY <4>1 DEF RecorderHasSession, Recording, RefersToRows
      <4>3. QED
        BY <2>2, <3>2, <4>1, <4>2 DEF Rows
    <3>3. QED
      BY <3>1, <3>2
  <2>7. QED
    BY <2>5, <2>6 DEF RecorderHasSession, Recording
<1>2. ASSUME NEW p \in Pubs, NEW n \in Names, OnReject(p, n) PROVE Goal
  <2>1. /\ p \notin Known
        /\ name' = [name EXCEPT ![p] = n]
        /\ ended' = ended \cup {p}
        /\ UNCHANGED <<active, handle>>
    BY <1>2 DEF OnReject, Fresh, Known, recVars
  <2>2. OpenRows' = OpenRows /\ \A q \in OpenRows : name'[q] = name[q]
    BY <2>1 DEF Shape, OpenRows, Known
  <2>3. QED
    BY <2>1, <2>2 DEF OneOpenRow, RecorderHasSession, Recording
<1>3. ASSUME NEW p \in Pubs, OnUnpublish(p) PROVE Goal
  <2>1. name[p] \in Names /\ name' = name
    BY <1>3 DEF Shape, RefersToRows, Known, OnUnpublish
  <2>2. CASE active[name[p]] = None
    <3>1. UNCHANGED <<ended, active, handle>>
      BY <1>3, <2>2 DEF OnUnpublish, recVars
    <3>2. QED
      BY <2>1, <3>1 DEF OneOpenRow, RecorderHasSession, Recording, OpenRows
  <2>3. CASE active[name[p]] # None
    <3>1. /\ active' = [active EXCEPT ![name[p]] = None]
          /\ ended' = ended \cup {active[name[p]]}
          /\ handle' = [handle EXCEPT ![name[p]] = None]
      BY <1>3, <2>3 DEF OnUnpublish, StopRecording
    <3>2. OneOpenRow'
      BY <2>1, <3>1 DEF OneOpenRow, OpenRows
    <3>3. ASSUME NEW m \in Names, handle'[m] # None
          PROVE active'[m] # None /\ active'[m] \in OpenRows'
      <4>1. m # name[p] /\ handle[m] # None /\ active'[m] = active[m]
        BY <2>1, <3>1, <3>3 DEF Shape
      <4>2. active[m] # None /\ active[m] \in OpenRows /\ name[active[m]] = m
        BY <4>1 DEF RecorderHasSession, Recording, RefersToRows
      <4>3. name[active[name[p]]] = name[p]
        BY <2>1, <2>3 DEF RefersToRows
      <4>4. active[m] # active[name[p]]
        BY <4>1, <4>2, <4>3
      <4>5. QED
        BY <2>1, <3>1, <4>1, <4>2, <4>4 DEF OpenRows
    <3>4. QED
      BY <3>2, <3>3 DEF RecorderHasSession, Recording
  <2>4. QED
    BY <2>2, <2>3
<1>4. CASE CloseGhost
  <2>1. PICK p \in sweep.todo : ended' = ended \cup {p} /\ StopRecording(name[p], p, "sweep")
    BY <1>4 DEF CloseGhost
  <2>2. UNCHANGED <<name, active>> /\ handle' = [handle EXCEPT ![name[p]] = None]
    BY <1>4, <2>1 DEF CloseGhost, StopRecording
  <2>3. OneOpenRow'
    BY <2>1, <2>2 DEF OneOpenRow, OpenRows
  <2>4. ASSUME NEW m \in Names, handle'[m] # None
        PROVE active'[m] # None /\ active'[m] \in OpenRows'
    <3>1. m # name[p] /\ handle[m] # None
      BY <2>2, <2>4 DEF Shape
    <3>2. active[m] # None /\ active[m] \in OpenRows /\ name[active[m]] = m
      BY <3>1 DEF RecorderHasSession, Recording, RefersToRows
    <3>3. active[m] # p
      BY <3>1, <3>2
    <3>4. QED
      BY <2>1, <2>2, <3>2, <3>3 DEF OpenRows
  <2>5. QED
    BY <2>3, <2>4 DEF RecorderHasSession, Recording
<1>5. CASE Restart
  BY <1>5 DEF Restart, OneOpenRow, RecorderHasSession, Recording, OpenRows, rowVars
<1>6. CASE UNCHANGED <<name, ended, active, handle>>
  BY <1>6 DEF OneOpenRow, RecorderHasSession, Recording, OpenRows
<1>7. QED
  BY <1>1, <1>2, <1>3, <1>4, <1>5, <1>6
  DEF Next, Hooks, Srs, TakesStream, Leaves, HookLost, SrsOnly, Sweep, SweepReads,
      SweepUnreachable, SweepAnswers, GhostClosed, SweepOnly, Quit, QuitEnds, Monitor,
      MonitorStops, Acquire, Queue, ProbeEnds, SetMax, MonOnly, rowVars, recVars, vars
-----------------------------------------------------------------------------
\* A recording that is stopped leaves the handles and joins those that wait for
\* ffmpeg; nothing else does.
LEMMA StopApart ==
  ASSUME Shape, RefersToRows, RecordingsApart, FiledOnce,
         NEW n \in Names, NEW p \in Pubs, NEW by \in {"hook", "sweep"},
         StopRecording(n, p, by), name' = name
  PROVE  RecordingsApart' /\ FiledOnce'
<1> USE LocalAssumption
<1>1. handle' = [handle EXCEPT ![n] = None] /\ filed' = filed
  BY DEF StopRecording
<1>2. CASE handle[n] = None
  BY <1>1, <1>2 DEF Shape, StopRecording, Recording, RecordingsApart, FiledOnce, Known
<1>3. CASE handle[n] # None
  <2> DEFINE h == handle[n]
             new == [rec |-> h, of |-> p, by |-> by]
  <2>1. quits' = quits \cup {new} /\ new.rec = h
    BY <1>3 DEF StopRecording, Recording
  <2>2. h \in Pubs /\ name[h] = n /\ filed[h] = 0 /\ \A q \in quits : q.rec # h
    BY <1>3 DEF Shape, RecordingsApart
  <2>3. \A m \in Names : handle'[m] # None => m # n /\ handle'[m] = handle[m]
    BY <1>1 DEF Shape
  <2>4. \A m \in Names : handle'[m] # None => name[handle'[m]] = m /\ handle'[m] # h
    BY <2>2, <2>3 DEF RecordingsApart
  <2> HIDE DEF new, h
  <2>5. \A m \in Names : handle'[m] # None =>
          /\ name'[handle'[m]] = m /\ filed'[handle'[m]] = 0
          /\ \A q \in quits' : q.rec # handle'[m]
    BY <1>1, <2>1, <2>3, <2>4 DEF RecordingsApart
  <2>6. \A q \in quits' : q.rec \in Known' /\ filed'[q.rec] = 0
    BY <1>1, <2>1, <2>2 DEF RecordingsApart, Known
  <2>7. \A q, r \in quits' : q.rec = r.rec => q = r
    BY <2>1, <2>2 DEF RecordingsApart
  <2>8. QED
    BY <1>1, <2>5, <2>6, <2>7 DEF RecordingsApart, FiledOnce, Known
<1>4. QED
  BY <1>2, <1>3

\* A recording is filed once: a new one has the number of a new row, a stop
\* takes the handle with it, and filing ends the wait.
LEMMA RecordingStep ==
  ASSUME Shape, RefersToRows, RecordingsApart, FiledOnce, [Next]_vars
  PROVE  RecordingsApart' /\ FiledOnce'
<1> USE LocalAssumption
<1> DEFINE Goal == RecordingsApart' /\ FiledOnce'
<1>1. ASSUME NEW p \in Pubs, NEW n \in Names, OnPublish(p, n) PROVE Goal
  <2>1. /\ p \notin Known
        /\ name' = [name EXCEPT ![p] = n]
        /\ handle' = handle \/ handle' = [handle EXCEPT ![n] = p]
        /\ UNCHANGED <<quits, filed>>
    BY <1>1 DEF OnPublish, StartRecording, Fresh, Known
  <2>2. Known' = Known \cup {p} /\ (\A q \in Known : name'[q] = name[q]) /\ name'[p] = n
    BY <2>1 DEF Shape, Known
  <2>3. filed[p] = 0 /\ \A q \in quits : q.rec # p
    BY <2>1 DEF RecordingsApart
  <2>4. \A m \in Names : handle[m] # None => handle[m] \in Known
    BY DEF Shape, RecordingsApart, Known
  <2>5. \A m \in Names : handle'[m] # None => handle'[m] = handle[m] \/ (m = n /\ handle'[m] = p)
    BY <2>1 DEF Shape
  <2>6. \A m \in Names : handle'[m] # None =>
          /\ name'[handle'[m]] = m /\ filed'[handle'[m]] = 0
          /\ \A q \in quits' : q.rec # handle'[m]
    BY <2>1, <2>2, <2>3, <2>4, <2>5 DEF RecordingsApart
  <2>7. QED
    BY <2>1, <2>2, <2>6 DEF RecordingsApart, FiledOnce
<1>2. ASSUME NEW p \in Pubs, NEW n \in Names, OnReject(p, n) PROVE Goal
  <2>1. /\ p \notin Known
        /\ name' = [name EXCEPT ![p] = n]
        /\ UNCHANGED <<handle, quits, filed>>
    BY <1>2 DEF OnReject, Fresh, Known, recVars
  <2>2. Known' = Known \cup {p} /\ \A q \in Known : name'[q] = name[q]
    BY <2>1 DEF Shape, Known
  <2>3. \A m \in Names : handle[m] # None => handle[m] \in Known
    BY DEF Shape, RecordingsApart, Known
  <2>4. QED
    BY <2>1, <2>2, <2>3 DEF RecordingsApart, FiledOnce
<1>3. ASSUME NEW p \in Pubs, OnUnpublish(p) PROVE Goal
  <2>1. name[p] \in Names /\ name' = name
    BY <1>3 DEF Shape, RefersToRows, Known, OnUnpublish
  <2>2. CASE active[name[p]] = None
    <3>1. UNCHANGED <<handle, quits, filed>>
      BY <1>3, <2>2 DEF OnUnpublish, recVars
    <3>2. QED
      BY <2>1, <3>1 DEF RecordingsApart, FiledOnce, Known
  <2>3. CASE active[name[p]] # None
    <3>1. StopRecording(name[p], active[name[p]], "hook") /\ active[name[p]] \in Pubs
      BY <1>3, <2>1, <2>3 DEF OnUnpublish, Shape
    <3>2. QED
      BY <2>1, <3>1, StopApart
  <2>4. QED
    BY <2>2, <2>3
<1>4. CASE CloseGhost
  <2>1. PICK p \in sweep.todo : StopRecording(name[p], p, "sweep")
    BY <1>4 DEF CloseGhost
  <2>2. name' = name /\ p \in Pubs /\ name[p] \in Names
    BY <1>4 DEF CloseGhost, Shape, RefersToRows, Known
  <2>3. QED
    BY <2>1, <2>2, StopApart
<1>5. ASSUME NEW q \in quits, NEW moved \in BOOLEAN, QuitEnds(q, moved) PROVE Goal
  <2>1. /\ quits' = quits \ {q}
        /\ filed' = filed \/ filed' = [filed EXCEPT ![q.rec] = @ + 1]
        /\ UNCHANGED <<name, handle>>
    BY <1>5 DEF QuitEnds, rowVars
  <2>2. q.rec \in Pubs /\ filed[q.rec] = 0 /\ q.rec \in Known
    BY DEF Shape, RecordingsApart, Known
  <2>3. \A p \in Pubs : p # q.rec => filed'[p] = filed[p]
    BY <2>1 DEF Shape
  <2>4. filed'[q.rec] \in {0, 1}
    BY <2>1, <2>2 DEF Shape
  <2>5. \A r \in quits' : r \in quits /\ r.rec # q.rec /\ r.rec \in Pubs
    BY <2>1 DEF RecordingsApart, Known
  <2>6. \A m \in Names : handle[m] # None => handle[m] # q.rec /\ handle[m] \in Pubs
    BY DEF Shape, RecordingsApart
  <2>7. FiledOnce'
    BY <2>2, <2>3, <2>4 DEF FiledOnce
  <2>8. QED
    BY <2>1, <2>2, <2>3, <2>5, <2>6, <2>7 DEF RecordingsApart, Known
<1>6. CASE Restart
  BY <1>6 DEF Restart, RecordingsApart, FiledOnce, Known, rowVars
<1>7. CASE UNCHANGED <<name, handle, quits, filed>>
  BY <1>7 DEF RecordingsApart, FiledOnce, Known
<1>8. QED
  BY <1>1, <1>2, <1>3, <1>4, <1>5, <1>6, <1>7
  DEF Next, Hooks, Srs, TakesStream, Leaves, HookLost, SrsOnly, Sweep, SweepReads,
      SweepUnreachable, SweepAnswers, GhostClosed, SweepOnly, Quit, Monitor,
      MonitorStops, Acquire, Queue, ProbeEnds, SetMax, MonOnly, rowVars, recVars, vars

-----------------------------------------------------------------------------
\* A halted session stays off the panel: only a publish and a monitor that finds
\* its session in place put a row on it.
LEMMA HaltedStep ==
  ASSUME Shape, RefersToRows, HaltedStaysGone, [Next]_vars
  PROVE  HaltedStaysGone'
<1>1. ASSUME NEW p \in Pubs, NEW n \in Names, OnPublish(p, n) PROVE HaltedStaysGone'
  BY <1>1 DEF OnPublish, Fresh, RefersToRows, Known, HaltedStaysGone
<1>2. ASSUME NEW p \in Pubs, OnUnpublish(p) PROVE HaltedStaysGone'
  BY <1>2 DEF OnUnpublish, HaltedStaysGone
<1>3. ASSUME NEW p \in Pubs, NEW verdict \in {"none", "over", "within"}, ProbeEnds(p, verdict)
      PROVE  HaltedStaysGone'
  BY <1>3 DEF ProbeEnds, HaltedStaysGone
<1>4. CASE GhostClosed
  BY <1>4 DEF GhostClosed, HaltedStaysGone
<1>5. CASE Restart
  BY <1>5 DEF Restart, HaltedStaysGone
<1>6. CASE UNCHANGED <<halted, panel>>
  BY <1>6 DEF HaltedStaysGone
<1>7. QED
  BY <1>1, <1>2, <1>3, <1>4, <1>5, <1>6
  DEF Next, Hooks, OnReject, Srs, TakesStream, Leaves, HookLost, SrsOnly, Sweep, SweepReads,
      SweepUnreachable, SweepAnswers, CloseGhost, SweepOnly, Quit, QuitEnds, Monitor,
      MonitorStops, Acquire, Queue, SetMax, MonOnly, vars

\* A row that a sweep read is the only one of its name it read.  So it is the
\* newest, and it is kept if its publish has been live since.
LEMMA SweepStep ==
  ASSUME Shape, RefersToRows, OneOpenRow, SweepSound, [Next]_vars
  PROVE  SweepSound'
<1> USE LocalAssumption
<1>1. \A p \in Known : name'[p] = name[p]
  BY RefersStep
<1>2. CASE SweepReads
  <2>1. sweep'.seen = OpenRows /\ sweep'.todo = {} /\ name' = name
    BY <1>2 DEF SweepReads, NoSweep, rowVars
  <2>2. QED
    BY <2>1 DEF SweepSound, OneOpenRow
<1>3. CASE SweepAnswers
  <2>1. /\ UNCHANGED <<name, steady>>
    BY <1>3 DEF SweepAnswers, SweepOnly, rowVars
  <2>2. PICK late \in SUBSET {n \in Names : In("leaving", n)} :
          LET live == late \cup {n \in Names : In("live", n)}
              kept == {p \in sweep.seen : name[p] \in live
                                          /\ p = Newest(sweep.seen \cap Rows(name[p]))}
              doomed == sweep.seen \ kept
          IN sweep' = IF doomed = {} THEN NoSweep
                      ELSE [sweep EXCEPT !.phase = "closing", !.todo = doomed]
    BY <1>3 DEF SweepAnswers
  <2> DEFINE live == late \cup {n \in Names : In("live", n)}
             kept == {p \in sweep.seen : name[p] \in live
                                         /\ p = Newest(sweep.seen \cap Rows(name[p]))}
             doomed == sweep.seen \ kept
  <2>3. sweep' = IF doomed = {} THEN NoSweep
                 ELSE [sweep EXCEPT !.phase = "closing", !.todo = doomed]
    BY <2>2
  <2>4. ASSUME NEW p \in sweep.seen, p \in steady PROVE p \in kept
    <3>1. p \in Pubs /\ name[p] \in Names /\ srs[p] = "live"
      BY <2>4 DEF Shape, RefersToRows, Known
    <3>2. name[p] \in live
      BY <3>1 DEF In, Rows
    <3>3. sweep.seen \cap Rows(name[p]) = {p}
      BY <3>1 DEF SweepSound, Rows
    <3>4. Newest({p}) = p
      <4>1. p <= p
        BY <3>1 DEF Pubs
      <4>2. QED
        BY <4>1 DEF Newest
    <3>5. QED
      BY <3>2, <3>3, <3>4
  <2>5. doomed \cap steady = {}
    BY <2>4
  <2> HIDE DEF doomed
  <2>6. CASE doomed = {}
    BY <2>1, <2>3, <2>6 DEF SweepSound, NoSweep
  <2>7. CASE doomed # {}
    <3>1. sweep' = [sweep EXCEPT !.phase = "closing", !.todo = doomed]
      BY <2>3, <2>7
    <3>2. sweep'.seen = sweep.seen /\ sweep'.todo = doomed
      BY <3>1 DEF Shape
    <3>3. QED
      BY <2>1, <2>5, <3>2 DEF SweepSound
  <2>8. QED
    BY <2>6, <2>7
<1>4. CASE /\ sweep'.seen \subseteq sweep.seen /\ sweep'.todo \subseteq sweep.todo
           /\ steady' \subseteq steady
  BY <1>1, <1>4 DEF SweepSound, RefersToRows
<1>5. CASE SweepUnreachable \/ GhostClosed \/ Restart
  <2>1. /\ steady' = steady
        /\ sweep' = NoSweep \/ sweep' = [sweep EXCEPT !.at = None]
    BY <1>5 DEF SweepUnreachable, GhostClosed, Restart, SweepOnly
  <2>2. CASE sweep' = NoSweep
    BY <1>4, <2>1, <2>2 DEF NoSweep
  <2>3. CASE sweep' = [sweep EXCEPT !.at = None]
    BY <1>4, <2>1, <2>3 DEF Shape
  <2>4. QED
    BY <2>1, <2>2, <2>3
<1>6. CASE CloseGhost
  <2>1. PICK p \in sweep.todo : sweep' = [sweep EXCEPT !.todo = @ \ {p}, !.at = p]
    BY <1>6 DEF CloseGhost
  <2>2. sweep'.seen = sweep.seen /\ sweep'.todo \subseteq sweep.todo
    BY <2>1 DEF Shape
  <2>3. QED
    BY <1>4, <1>6, <2>2 DEF CloseGhost
<1>7. CASE sweep' = sweep /\ steady' \subseteq steady
  BY <1>4, <1>7
<1>8. QED
  BY <1>2, <1>3, <1>5, <1>6, <1>7
  DEF Next, Hooks, OnPublish, OnReject, OnUnpublish, Srs, TakesStream, Leaves, HookLost, SrsOnly,
      Sweep, Quit, QuitEnds, Monitor, MonitorStops, Acquire, Queue, ProbeEnds, SetMax, MonOnly,
      vars

-----------------------------------------------------------------------------
(* Permits. *)

Probing(m) == {p \in Pubs : m[p] = "probing"}

\* Sets of publishes are finite.
LEMMA PubsFinite ==
  ASSUME NEW S \in SUBSET Pubs
  PROVE  IsFiniteSet(S) /\ Cardinality(S) \in Nat
<1>1. IsFiniteSet(Pubs)
  BY LocalAssumption, FS_Interval DEF Pubs
<1>2. IsFiniteSet(S)
  BY <1>1, FS_Subset
<1>3. QED
  BY <1>2, FS_CardinalityType

\* The publishes that g different places of the queue name are g.
LEMMA WokenCount ==
  ASSUME waiters \in Seq(Pubs),
         \A i, j \in 1..Len(waiters) : waiters[i] = waiters[j] => i = j,
         NEW g \in Nat, g <= Len(waiters)
  PROVE  Cardinality({waiters[i] : i \in 1..g}) = g
<1> DEFINE woken == {waiters[i] : i \in 1..g}
           f == [i \in 1..g |-> waiters[i]]
<1>1. Len(waiters) \in Nat /\ \A i \in 1..g : i \in 1..Len(waiters)
  OBVIOUS
<1>2. f \in [1..g -> woken]
  OBVIOUS
<1>3. \A i, j \in 1..g : f[i] = f[j] => i = j
  BY <1>1
<1>4. \A p \in woken : \E i \in 1..g : f[i] = p
  OBVIOUS
<1> HIDE DEF f, woken
<1>5. f \in Surjection(1..g, woken)
  BY <1>2, <1>4 DEF Surjection
<1>6. f \in Injection(1..g, woken)
  BY <1>2, <1>3 DEF Injection, IsInjective
<1>7. IsFiniteSet(1..g) /\ Cardinality(1..g) = g
  BY FS_Interval
<1>8. Cardinality(woken) = Cardinality(1..g)
  BY <1>5, <1>6, <1>7, FS_Surjection
<1>9. QED
  BY <1>7, <1>8 DEF woken

\* pump leaves as many permits taken as monitors probe, no free permit beside a
\* waiter, and the queue in order.
LEMMA PumpKeeps ==
  ASSUME NEW b \in Nat, NEW m \in 1..MaxLimit,
         NEW next \in [Pubs -> {"off", "settling", "queued", "probing", "sleeping"}],
         waiters \in Seq(Pubs),
         \A i \in 1..Len(waiters) : next[waiters[i]] = "queued",
         \A i, j \in 1..Len(waiters) : waiters[i] = waiters[j] => i = j,
         b = Cardinality(Probing(next)),
         Pump(b, m, next), limit' = m
  PROVE  Permits'
<1> USE LocalAssumption
<1> DEFINE g == Granted(b, m)
           woken == {waiters[i] : i \in 1..g}
           n == Len(waiters)
<1>1. n \in Nat /\ m \in Nat
  OBVIOUS
<1>2. g \in Nat /\ g <= n /\ (b + g >= m \/ g = n)
  BY <1>1 DEF Granted
<1>3. /\ busy' = b + g
      /\ waiters' = SubSeq(waiters, g + 1, n)
      /\ mon' = [p \in Pubs |-> IF p \in woken THEN "probing" ELSE next[p]]
  BY DEF Pump
<1> HIDE DEF g
<1>4. woken \subseteq Pubs /\ woken \cap Probing(next) = {}
  <2>1. \A i \in 1..g : i \in 1..n /\ waiters[i] \in Pubs /\ next[waiters[i]] = "queued"
    BY <1>1, <1>2
  <2>2. QED
    BY <2>1 DEF Probing
<1>5. Cardinality(woken) = g
  BY <1>2, WokenCount
<1>6. Probing(mon') = Probing(next) \cup woken
  BY <1>3, <1>4 DEF Probing
<1>7. PermitsExact'
  <2>1. Probing(next) \in SUBSET Pubs /\ woken \in SUBSET Pubs
    BY <1>4 DEF Probing
  <2>2. IsFiniteSet(Probing(next)) /\ IsFiniteSet(woken)
    BY <2>1, PubsFinite
  <2>3. Cardinality(Probing(next) \cup woken)
          = Cardinality(Probing(next)) + Cardinality(woken) - Cardinality(Probing(next) \cap woken)
    BY <2>2, FS_Union
  <2>4. Cardinality(Probing(next) \cap woken) = 0
    BY <1>4, FS_EmptySet
  <2> HIDE DEF woken
  <2>5. Cardinality(Probing(mon')) = b + g
    BY <1>2, <1>5, <1>6, <2>3, <2>4
  <2>6. QED
    BY <1>3, <2>5 DEF PermitsExact, Probing
<1>8. /\ waiters' \in Seq(Pubs) /\ Len(waiters') = n - g
      /\ \A i \in 1..(n - g) : waiters'[i] = waiters[i + g] /\ i + g \in 1..n
  BY <1>1, <1>2, <1>3
<1>9. NoIdlePermit'
  <2>1. g = n => waiters' = <<>>
    BY <1>1, <1>8
  <2>2. QED
    BY <1>2, <1>3, <2>1 DEF NoIdlePermit
<1>10. \A k \in 1..Len(waiters') :
        k \in Int /\ waiters'[k] = waiters[k + g] /\ k + g \in 1..n /\ k + g > g
  <2>1. 1..Len(waiters') = 1..(n - g)
    BY <1>8
  <2>2. \A k \in 1..(n - g) : k \in Int /\ k + g > g
    BY <1>1, <1>2
  <2>3. QED
    BY <1>8, <2>1, <2>2
<1>11. ASSUME NEW i \in 1..Len(waiters'), NEW j \in 1..Len(waiters'), waiters'[i] = waiters'[j]
       PROVE  i = j
  <2>1. /\ i \in Int /\ waiters'[i] = waiters[i + g] /\ i + g \in 1..n
        /\ j \in Int /\ waiters'[j] = waiters[j + g] /\ j + g \in 1..n
    BY <1>10
  <2>2. waiters[i + g] = waiters[j + g]
    BY <1>11, <2>1
  <2>3. \A k, l \in 1..n : waiters[k] = waiters[l] => k = l
    OBVIOUS
  <2>4. i + g = j + g
    BY <2>1, <2>2, <2>3, Zenon
  <2>5. QED
    BY <1>2, <2>1, <2>4
<1>12. ASSUME NEW i \in 1..Len(waiters') PROVE mon'[waiters'[i]] = "queued"
  <2>1. i \in Int /\ waiters'[i] = waiters[i + g] /\ i + g \in 1..n /\ i + g > g
    BY <1>10
  <2>2. waiters[i + g] \in Pubs /\ next[waiters[i + g]] = "queued"
    BY <2>1
  <2>3. \A j \in 1..g : waiters[j] # waiters[i + g]
    BY <1>1, <1>2, <2>1
  <2>4. waiters[i + g] \notin woken
    BY <2>3
  <2>5. QED
    BY <1>3, <2>1, <2>2, <2>4
<1>13. mon' \in [Pubs -> {"off", "settling", "queued", "probing", "sleeping"}]
  BY <1>3
<1>14. busy' \in Nat /\ limit' \in 1..MaxLimit
  BY <1>2, <1>3
<1>15. QED
  BY <1>7, <1>8, <1>9, <1>11, <1>12, <1>13, <1>14 DEF Permits

\* A step keeps the permits: a probe that ends gives its permit back before pump
\* counts those it grants.
LEMMA PermitsStep ==
  ASSUME RefersToRows, Permits, Watched, [Next]_vars
  PROVE  Permits'
<1> USE LocalAssumption
<1> DEFINE Stages == {"off", "settling", "queued", "probing", "sleeping"}
<1>0. /\ mon \in [Pubs -> Stages] /\ busy \in Nat /\ limit \in 1..MaxLimit
      /\ waiters \in Seq(Pubs) /\ Len(waiters) \in Nat
      /\ \A i \in 1..Len(waiters) : waiters[i] \in Pubs /\ mon[waiters[i]] = "queued"
      /\ \A i, j \in 1..Len(waiters) : waiters[i] = waiters[j] => i = j
      /\ busy = Cardinality(Probing(mon))
  BY DEF Permits, PermitsExact, Probing
<1>1. ASSUME NEW p \in Pubs, NEW to \in Stages,
             mon[p] \notin {"queued", "probing"}, to \notin {"queued", "probing"},
             mon' = [mon EXCEPT ![p] = to], UNCHANGED semVars
      PROVE  Permits'
  <2>1. Probing(mon') = Probing(mon)
    BY <1>0, <1>1 DEF Probing
  <2>2. \A i \in 1..Len(waiters) : mon'[waiters[i]] = "queued"
    BY <1>0, <1>1
  <2>3. PermitsExact'
    BY <1>0, <1>1, <2>1 DEF PermitsExact, Probing, semVars
  <2>4. NoIdlePermit'
    BY <1>1 DEF Permits, NoIdlePermit, semVars
  <2>5. mon' \in [Pubs -> Stages]
    BY <1>0, <1>1
  <2>6. QED
    BY <1>0, <1>1, <2>2, <2>3, <2>4, <2>5 DEF Permits, semVars
<1>2. ASSUME NEW p \in Pubs, NEW n \in Names, OnPublish(p, n) PROVE Permits'
  <2>1. mon[p] = "off"
    BY <1>2 DEF OnPublish, Fresh, Watched, Known
  <2>2. mon' = [mon EXCEPT ![p] = "settling"] /\ UNCHANGED semVars
    BY <1>2 DEF OnPublish
  <2>3. QED
    BY <1>1, <2>1, <2>2
<1>3. ASSUME NEW p \in Pubs, MonitorStops(p) PROVE Permits'
  <2>1. mon[p] \notin {"queued", "probing"} /\ mon' = [mon EXCEPT ![p] = "off"]
        /\ UNCHANGED semVars
    BY <1>3 DEF MonitorStops, Awake
  <2>2. QED
    BY <1>1, <2>1
<1>4. ASSUME NEW p \in Pubs, Acquire(p) PROVE Permits'
  <2>1. /\ mon[p] \notin {"queued", "probing"} /\ mon' = [mon EXCEPT ![p] = "probing"]
        /\ busy < limit /\ busy' = busy + 1 /\ UNCHANGED <<limit, waiters>>
    BY <1>4 DEF Acquire, Awake
  <2>2. Probing(mon') = Probing(mon) \cup {p} /\ p \notin Probing(mon)
    BY <1>0, <2>1 DEF Probing
  <2>3. IsFiniteSet(Probing(mon))
    BY PubsFinite DEF Probing
  <2>4. Cardinality(Probing(mon')) = Cardinality(Probing(mon)) + 1
    BY <2>2, <2>3, FS_AddElement
  <2>5. PermitsExact'
    BY <1>0, <2>1, <2>4 DEF PermitsExact, Probing
  <2>6. waiters = <<>>
    BY <1>0, <2>1 DEF Permits, NoIdlePermit
  <2>7. mon' \in [Pubs -> Stages] /\ busy' \in Nat
    BY <1>0, <2>1
  <2>8. QED
    BY <1>0, <2>1, <2>5, <2>6, <2>7 DEF Permits, NoIdlePermit
<1>5. ASSUME NEW p \in Pubs, Queue(p) PROVE Permits'
  <2>1. /\ mon[p] \notin {"queued", "probing"} /\ mon' = [mon EXCEPT ![p] = "queued"]
        /\ busy >= limit /\ waiters' = Append(waiters, p) /\ UNCHANGED <<busy, limit>>
    BY <1>5 DEF Queue, Awake
  <2>2. Probing(mon') = Probing(mon)
    BY <1>0, <2>1 DEF Probing
  <2>3. PermitsExact'
    BY <1>0, <2>1, <2>2 DEF PermitsExact, Probing
  <2>4. /\ waiters' \in Seq(Pubs) /\ Len(waiters') = Len(waiters) + 1
        /\ \A i \in 1..Len(waiters) : waiters'[i] = waiters[i]
        /\ waiters'[Len(waiters) + 1] = p
    BY <1>0, <2>1
  <2>5. \A i \in 1..Len(waiters') : mon'[waiters'[i]] = "queued"
    BY <1>0, <2>1, <2>4
  <2>6. \A i \in 1..Len(waiters) : waiters[i] # p
    BY <1>0, <2>1
  <2>7. \A i, j \in 1..Len(waiters') : waiters'[i] = waiters'[j] => i = j
    BY <1>0, <2>4, <2>6
  <2>8. mon' \in [Pubs -> Stages] /\ NoIdlePermit'
    BY <1>0, <2>1 DEF NoIdlePermit
  <2>9. QED
    BY <1>0, <2>1, <2>3, <2>4, <2>5, <2>7, <2>8 DEF Permits
<1>6. ASSUME NEW p \in Pubs, NEW verdict \in {"none", "over", "within"}, ProbeEnds(p, verdict)
      PROVE  Permits'
  <2> DEFINE to == IF p \in halted THEN "off" ELSE "sleeping"
             next == [mon EXCEPT ![p] = to]
  <2>1. mon[p] = "probing" /\ Pump(busy - 1, limit, next) /\ limit' = limit
    BY <1>6 DEF ProbeEnds
  <2>2. next \in [Pubs -> Stages]
    BY <1>0
  <2>3. Probing(next) = Probing(mon) \ {p} /\ p \in Probing(mon)
    <3>1. next[p] # "probing" /\ \A q \in Pubs : q # p => next[q] = mon[q]
      BY <1>0
    <3>2. p \in Probing(mon)
      BY <2>1 DEF Probing
    <3> HIDE DEF next
    <3>3. QED
      BY <3>1, <3>2 DEF Probing
  <2>4. IsFiniteSet(Probing(mon))
    BY PubsFinite DEF Probing
  <2>5. Cardinality(Probing(next)) = busy - 1
    <3>1. Cardinality(Probing(mon) \ {p}) = Cardinality(Probing(mon)) - 1
      BY <2>3, <2>4, FS_RemoveElement
    <3>2. busy = Cardinality(Probing(mon))
      BY <1>0
    <3> HIDE DEF next
    <3>3. QED
      BY <2>3, <3>1, <3>2
  <2>6. Probing(next) \in SUBSET Pubs
    BY DEF Probing
  <2>7. busy - 1 \in Nat
    BY <2>5, <2>6, PubsFinite
  <2>8. \A i \in 1..Len(waiters) : next[waiters[i]] = "queued"
    <3>1. \A i \in 1..Len(waiters) : waiters[i] # p
      BY <1>0, <2>1
    <3>2. \A q \in Pubs : q # p => next[q] = mon[q]
      BY <1>0
    <3> HIDE DEF next
    <3>3. QED
      BY <1>0, <3>1, <3>2
  <2> HIDE DEF next
  <2>9. QED
    BY <1>0, <2>1, <2>2, <2>5, <2>7, <2>8, PumpKeeps
<1>7. ASSUME NEW m \in 0..MaxLimit, SetMax(m) PROVE Permits'
  <2>1. Pump(busy, limit', mon) /\ limit' \in 1..MaxLimit
    BY <1>7 DEF SetMax
  <2> DEFINE new == limit'
  <2>2. new \in 1..MaxLimit /\ Pump(busy, new, mon) /\ limit' = new
    BY <2>1
  <2> HIDE DEF new
  <2>3. QED
    BY <1>0, <2>2, PumpKeeps
<1>8. CASE Restart
  <2>1. mon' = [p \in Pubs |-> "off"] /\ busy' = 0 /\ waiters' = <<>> /\ limit' = limit
    BY <1>8 DEF Restart
  <2>2. Probing(mon') = {}
    BY <2>1 DEF Probing
  <2>3. PermitsExact'
    BY <2>1, <2>2, FS_EmptySet DEF PermitsExact, Probing
  <2>4. QED
    BY <1>0, <2>1, <2>3 DEF Permits, NoIdlePermit
<1>9. CASE UNCHANGED <<mon, semVars>>
  BY <1>9 DEF Permits, PermitsExact, NoIdlePermit, semVars
<1>10. QED
  BY <1>2, <1>3, <1>4, <1>5, <1>6, <1>7, <1>8, <1>9
  DEF Next, Hooks, OnReject, OnUnpublish, Srs, TakesStream, Leaves, HookLost, SrsOnly, Sweep,
      SweepReads, SweepUnreachable, SweepAnswers, CloseGhost, GhostClosed, SweepOnly, Quit,
      QuitEnds, Monitor, vars

\* A monitor starts with its row.
LEMMA WatchedStep ==
  ASSUME Shape, RefersToRows, Permits, Watched, [Next]_vars
  PROVE  Watched'
<1> USE LocalAssumption
<1>1. \A p \in Known : p \in Known'
  BY RefersStep
<1>2. CASE \A p \in Pubs : mon'[p] # "off" => mon[p] # "off"
  BY <1>1, <1>2 DEF Watched
<1>3. mon \in [Pubs -> {"off", "settling", "queued", "probing", "sleeping"}]
  BY DEF Permits
<1>4. ASSUME NEW p \in Pubs, NEW n \in Names, OnPublish(p, n) PROVE Watched'
  <2>1. mon' = [mon EXCEPT ![p] = "settling"] /\ name' = [name EXCEPT ![p] = n]
    BY <1>4 DEF OnPublish
  <2>2. p \in Known'
    BY <2>1 DEF Shape, Known
  <2>3. QED
    BY <1>1, <1>3, <2>1, <2>2 DEF Watched
<1>5. ASSUME NEW p \in Pubs, MonitorStops(p) \/ Acquire(p) \/ Queue(p) PROVE Watched'
  BY <1>2, <1>3, <1>5 DEF MonitorStops, Acquire, Queue, Awake
<1>6. ASSUME NEW b, NEW m, NEW next \in [Pubs -> {"off", "settling", "queued", "probing", "sleeping"}],
             \A p \in Pubs : next[p] # "off" => mon[p] # "off",
             b \in Int, m \in Int, Pump(b, m, next)
      PROVE  Watched'
  <2> DEFINE woken == {waiters[i] : i \in 1..Granted(b, m)}
  <2>1. Granted(b, m) \in Nat /\ Granted(b, m) <= Len(waiters) /\ Len(waiters) \in Nat
    BY <1>6 DEF Granted, Permits
  <2>2. \A p \in woken : mon[p] = "queued"
    BY <2>1 DEF Permits
  <2>3. mon' = [p \in Pubs |-> IF p \in woken THEN "probing" ELSE next[p]]
    BY <1>6 DEF Pump
  <2> HIDE DEF woken
  <2>4. QED
    BY <1>2, <1>6, <2>2, <2>3
<1>7. ASSUME NEW p \in Pubs, NEW verdict \in {"none", "over", "within"}, ProbeEnds(p, verdict)
      PROVE  Watched'
  <2> DEFINE next == [mon EXCEPT ![p] = IF p \in halted THEN "off" ELSE "sleeping"]
  <2>1. mon[p] = "probing" /\ Pump(busy - 1, limit, next) /\ busy - 1 \in Int /\ limit \in Int
    BY <1>7 DEF ProbeEnds, Permits
  <2>2. next \in [Pubs -> {"off", "settling", "queued", "probing", "sleeping"}]
        /\ \A q \in Pubs : next[q] # "off" => mon[q] # "off"
    BY <1>3, <2>1
  <2> HIDE DEF next
  <2>3. QED
    BY <1>6, <2>1, <2>2
<1>8. ASSUME NEW m \in 0..MaxLimit, SetMax(m) PROVE Watched'
  <2>1. Pump(busy, limit', mon) /\ limit' \in Int /\ busy \in Int
    BY <1>8 DEF SetMax, Permits
  <2>2. QED
    BY <1>3, <1>6, <2>1
<1>9. CASE Restart
  BY <1>2, <1>9 DEF Restart
<1>10. CASE mon' = mon
  BY <1>2, <1>10
<1>11. QED
  BY <1>4, <1>5, <1>7, <1>8, <1>9, <1>10
  DEF Next, Hooks, OnReject, OnUnpublish, Srs, TakesStream, Leaves, HookLost, SrsOnly, Sweep,
      SweepReads, SweepUnreachable, SweepAnswers, CloseGhost, GhostClosed, SweepOnly, Quit,
      QuitEnds, Monitor, vars

\* The remaining types.
LEMMA JudgedStep ==
  ASSUME Shape, RefersToRows, Judged, [Next]_vars
  PROVE  Judged'
<1> USE LocalAssumption
<1>1. ASSUME NEW p \in Pubs, NEW n \in Names, OnPublish(p, n) PROVE Judged'
  BY <1>1 DEF OnPublish, StartRecording, Judged
<1>2. ASSUME NEW p \in Pubs, OnUnpublish(p) PROVE Judged'
  BY <1>2 DEF OnUnpublish, StopRecording, recVars, Judged
<1>3. ASSUME NEW p \in Pubs, NEW verdict \in {"none", "over", "within"}, ProbeEnds(p, verdict)
      PROVE  Judged'
  <2>1. restarts' = restarts
    BY <1>3 DEF ProbeEnds
  <2>2. CASE p \in halted \/ verdict = "none"
    BY <1>3, <2>2 DEF ProbeEnds, Judged
  <2>3. CASE ~(p \in halted \/ verdict = "none")
    <3>1. In("live", name[p]) \/ In("leaving", name[p])
      BY <1>3, <2>3 DEF ProbeEnds
    <3>2. name[p] \in Names
      BY <3>1 DEF In, Rows, Shape, RefersToRows, Known
    <3>3. {handle[name[p]]} \ {None} \subseteq Pubs
      BY <3>2 DEF Shape
    <3>4. Judge(p, verdict) /\ panel' = panel \cup {p}
      BY <1>3, <2>3 DEF ProbeEnds
    <3>5. QED
      BY <2>1, <3>3, <3>4 DEF Judge, Judged
  <2>4. QED
    BY <2>2, <2>3
<1>4. CASE GhostClosed
  BY <1>4 DEF GhostClosed, rowVars, recVars, Judged
<1>5. CASE Restart
  BY <1>5 DEF Restart, rowVars, Judged
<1>6. ASSUME UNCHANGED <<compliant, marked, panel, restarts>> PROVE Judged'
  BY <1>6 DEF Judged
<1>7. CASE CloseGhost
  BY <1>6, <1>7 DEF CloseGhost, StopRecording
<1>8. QED
  BY <1>1, <1>2, <1>3, <1>4, <1>5, <1>6, <1>7
  DEF Next, Hooks, OnReject, Srs, TakesStream, Leaves, HookLost, SrsOnly, Sweep,
      SweepReads, SweepUnreachable, SweepAnswers, SweepOnly, Quit,
      QuitEnds, Monitor, MonitorStops, Acquire, Queue, SetMax, MonOnly, rowVars, recVars, vars

-----------------------------------------------------------------------------
\* The invariant holds at the start ...
LEMMA InitInv == Init => IInv
<1> SUFFICES ASSUME Init PROVE IInv
  OBVIOUS
<1> USE LocalAssumption
<1>1. Shape
  BY DEF Init, Shape, NoSweep
<1>2. RefersToRows
  BY DEF Init, RefersToRows, NoSweep
<1>3. OneOpenRow /\ RecorderHasSession
  BY DEF Init, OneOpenRow, OpenRows, RecorderHasSession, Recording
<1>4. RecordingsApart /\ FiledOnce
  BY DEF Init, RecordingsApart, FiledOnce
<1>5. HaltedStaysGone /\ SweepSound
  BY DEF Init, HaltedStaysGone, SweepSound, NoSweep
<1>6. Watched /\ Judged
  BY DEF Init, Watched, Judged
<1>7. Permits
  <2>1. Probing(mon) = {}
    BY DEF Init, Probing
  <2>2. PermitsExact
    BY <2>1, FS_EmptySet DEF Init, PermitsExact, Probing
  <2>3. QED
    BY <2>2 DEF Init, Permits, NoIdlePermit
<1>8. QED
  BY <1>1, <1>2, <1>3, <1>4, <1>5, <1>6, <1>7 DEF IInv

\* ... and every step keeps it.
THEOREM Invariance == Spec => []IInv
<1>1. IInv /\ [Next]_vars => IInv'
  <2> SUFFICES ASSUME IInv, [Next]_vars PROVE IInv'
    OBVIOUS
  <2>1. Shape /\ RefersToRows /\ OneOpenRow /\ RecorderHasSession
        /\ RecordingsApart /\ FiledOnce /\ HaltedStaysGone /\ SweepSound
        /\ Permits /\ Watched /\ Judged
    BY DEF IInv
  <2>2. Shape'
    BY <2>1, ShapeStep
  <2>3. RefersToRows'
    BY <2>1, RefersStep
  <2>4. OneOpenRow' /\ RecorderHasSession'
    BY <2>1, RowsStep
  <2>5. RecordingsApart' /\ FiledOnce'
    BY <2>1, RecordingStep
  <2>6. HaltedStaysGone'
    BY <2>1, HaltedStep
  <2>7. SweepSound'
    BY <2>1, SweepStep
  <2>8. Permits' /\ Watched'
    BY <2>1, PermitsStep, WatchedStep
  <2>9. Judged'
    BY <2>1, JudgedStep
  <2>10. QED
    BY <2>2, <2>3, <2>4, <2>5, <2>6, <2>7, <2>8, <2>9 DEF IInv
<1>2. QED
  BY <1>1, InitInv, PTL DEF Spec

\* Every variable of LocalStream keeps its type.
THEOREM TypeCorrect == Spec => []TypeOK
<1>1. IInv => TypeOK
  BY DEF IInv, Shape, Permits, Judged, TypeOK
<1>2. QED
  BY <1>1, Invariance, PTL

\* A permit of the probe semaphore is counted for each running probe, through
\* every wait and every change of the limit.
THEOREM PermitsCounted == Spec => []PermitsExact
<1>1. IInv => PermitsExact
  BY DEF IInv, Permits
<1>2. QED
  BY <1>1, Invariance, PTL

\* No monitor waits beside a free permit.
THEOREM NoPermitIdle == Spec => []NoIdlePermit
<1>1. IInv => NoIdlePermit
  BY DEF IInv, Permits
<1>2. QED
  BY <1>1, Invariance, PTL

\* The books of the semaphore are right: no permit leaks, none lies idle.
THEOREM PermitsCorrect == Spec => []PermitsInStep
<1>1. PermitsExact /\ NoIdlePermit => PermitsInStep
  BY DEF PermitsInStep
<1>2. QED
  BY <1>1, PermitsCounted, NoPermitIdle, PTL

\* A name has at most one open row, however many hooks were lost and whenever
\* the app was restarted (handlePublish supersedes the others).
THEOREM SingleOpenRow == Spec => []OneOpenRow
<1>1. IInv => OneOpenRow
  BY DEF IInv
<1>2. QED
  BY <1>1, Invariance, PTL

\* A name is recorded only for an open session in memory, so no supersede and no
\* sweep leaves an ffmpeg that nobody will stop.
THEOREM RecorderOwned == Spec => []RecorderHasSession
<1>1. IInv => RecorderHasSession
  BY DEF IInv
<1>2. QED
  BY <1>1, Invariance, PTL

\* stopRecording, called by hooks and sweeps in any order, files a recording at
\* most once.
THEOREM FiledAtMostOnce == Spec => []FiledOnce
<1>1. IInv => FiledOnce
  BY DEF IInv
<1>2. QED
  BY <1>1, Invariance, PTL

\* monitorSession never puts back on the panel what handleUnpublish removed.
THEOREM GoneFromPanel == Spec => []HaltedStaysGone
<1>1. IInv => HaltedStaysGone
  BY DEF IInv
<1>2. QED
  BY <1>1, Invariance, PTL

\* The sweep ends no row of a publish that was live since the sweep began.
THEOREM LiveSpared == Spec => SweepSparesLive
<1>1. IInv /\ [Next]_vars => (CloseGhost => \A p \in steady : p \in OpenRows => p \in OpenRows')
  <2> SUFFICES ASSUME IInv, CloseGhost, NEW p \in steady, p \in OpenRows
               PROVE  p \in OpenRows'
    OBVIOUS
  <2>1. PICK g \in sweep.todo : ended' = ended \cup {g}
    BY DEF CloseGhost
  <2>2. name' = name
    BY DEF CloseGhost
  <2>3. g # p
    BY DEF IInv, SweepSound
  <2>4. QED
    BY <2>1, <2>2, <2>3 DEF OpenRows
<1>2. QED
  BY <1>1, Invariance, PTL DEF Spec, SweepSparesLive

=============================================================================
