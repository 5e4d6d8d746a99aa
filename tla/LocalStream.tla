----------------------------- MODULE LocalStream -----------------------------
(***************************************************************************)
(* Publishes to the SRS the app runs itself: the http hooks                 *)
(* (stream-lifecycle.ts), one monitor per session that probes under a       *)
(* semaphore (semaphore.ts, probe.ts), the ffmpeg that records              *)
(* (recorder.ts), the sweep that closes rows of dead publishes              *)
(* (reconcile.ts) and the administrators' panel (streams.vue).              *)
(*                                                                          *)
(* A publish is numbered by the id of its row.  A handler runs without      *)
(* interleaving up to its next await, so an action is what lies between     *)
(* two awaits.  The status text of a row is left out: what the code decides *)
(* by is that the row is open (ended) and was judged compliant.             *)
(***************************************************************************)
EXTENDS Naturals, Sequences, FiniteSets

CONSTANTS
  Names,        \* stream names
  MaxPubs,      \* bound: publishes
  RecordCap,    \* record.maxConcurrency; 0 is record.enabled = false
  MaxLimit,     \* bound: the values of concurrency.probeMax
  MaxRestarts,  \* bound: restarts of the app
  None

Pubs == 1..MaxPubs

ASSUME LocalAssumption ==
  /\ MaxPubs \in Nat /\ RecordCap \in Nat /\ MaxRestarts \in Nat
  /\ MaxLimit \in Nat \ {0}
  /\ None \notin Names /\ None \notin Nat

VARIABLES
  srs,       \* of a publish: none, allowed (by the hook), live, leaving, gone
  \* publish_sessions
  name,      \* None: no such row yet
  compliant, \* session judged within the limits
  ended,
  \* memory of the app
  active,    \* the session of a name
  halted,    \* sessions with active = false
  mon,       \* monitorSession: off, settling, queued, probing, sleeping
  busy,      \* AsyncSemaphore.active
  limit,     \* AsyncSemaphore.max
  waiters,
  handle,    \* handles: the recording of a name, numbered by its first session
  marked,    \* recordings with compliant = true
  quits,     \* stopRecording calls that wait for ffmpeg
  sweep,     \* reconcileStaleSessions
  \* files, browser and history
  filed,     \* how often a recording was filed
  panel,     \* rows the panel shows
  steady,    \* publishes that are live since the sweep began
  restarts

rowVars == <<name, compliant, ended>>
semVars == <<busy, limit, waiters>>
recVars == <<handle, marked, quits, filed>>
vars == <<srs, rowVars, active, halted, mon, semVars, recVars, sweep, panel,
          steady, restarts>>

-----------------------------------------------------------------------------
Fresh(p) == name[p] = None /\ \A q \in Pubs : q < p => name[q] # None
Rows(n) == {p \in Pubs : name[p] = n}
OpenRows == {p \in Pubs : name[p] # None} \ ended
In(stage, n) == \E p \in Rows(n) : srs[p] = stage

NoSweep == [phase |-> "idle", seen |-> {}, todo |-> {}, at |-> None]

Init ==
  /\ srs = [p \in Pubs |-> "none"]
  /\ name = [p \in Pubs |-> None]
  /\ compliant = {} /\ ended = {}
  /\ active = [n \in Names |-> None]
  /\ halted = {}
  /\ mon = [p \in Pubs |-> "off"]
  /\ busy = 0 /\ limit \in 1..MaxLimit /\ waiters = <<>>
  /\ handle = [n \in Names |-> None]
  /\ marked = {} /\ quits = {}
  /\ sweep = NoSweep
  /\ filed = [p \in Pubs |-> 0]
  /\ panel = {} /\ steady = {}
  /\ restarts = 0

-----------------------------------------------------------------------------
(* The recorder. *)

Recording == {n \in Names : handle[n] # None}

\* With all places taken, or a handle of the name, nothing is started.
StartRecording(n, p) ==
  /\ handle' = IF Cardinality(Recording) < RecordCap /\ n \notin Recording
               THEN [handle EXCEPT ![n] = p] ELSE handle
  /\ UNCHANGED <<marked, quits, filed>>

\* Mutant: the handle is deleted after the wait for ffmpeg.
StopRecordingLate(n, p, by) ==
  /\ quits' = IF n \in Recording
              THEN quits \cup {[rec |-> handle[n], of |-> p, by |-> by]} ELSE quits
  /\ UNCHANGED <<handle, marked, filed>>

\* The handle is gone before the wait for ffmpeg.
StopRecording(n, p, by) ==
  /\ handle' = [handle EXCEPT ![n] = None]
  /\ quits' = IF n \in Recording
              THEN quits \cup {[rec |-> handle[n], of |-> p, by |-> by]} ELSE quits
  /\ UNCHANGED <<marked, filed>>

\* ffmpeg has exited or was killed after 10s: a compliant recording is moved
\* into place and gets its row, unless the move fails; others are removed.
QuitEnds(q, moved) ==
  /\ q \in quits
  /\ quits' = quits \ {q}
  /\ filed' = IF q.rec \in marked /\ moved
              THEN [filed EXCEPT ![q.rec] = @ + 1] ELSE filed
  /\ UNCHANGED <<srs, rowVars, active, halted, mon, semVars, handle, marked,
                 sweep, panel, steady, restarts>>

-----------------------------------------------------------------------------
(* The hooks. *)

\* Mutant: a publish supersedes only rows without a verdict.
OnPublishKeepsCompliant(p, n) ==
  /\ Fresh(p)
  /\ srs' = [srs EXCEPT ![p] = "allowed"]
  /\ name' = [name EXCEPT ![p] = n]
  /\ ended' = ended \cup (Rows(n) \ compliant)
  /\ active' = [active EXCEPT ![n] = p]
  /\ panel' = panel \cup {p}
  /\ StartRecording(n, p)
  /\ mon' = [mon EXCEPT ![p] = "settling"]
  /\ UNCHANGED <<compliant, halted, semVars, sweep, steady, restarts>>

\* handlePublish of an authorised publish, with monitorSession up to its sleep.
OnPublish(p, n) ==
  /\ Fresh(p)
  /\ srs' = [srs EXCEPT ![p] = "allowed"]
  /\ name' = [name EXCEPT ![p] = n]
  /\ ended' = ended \cup Rows(n)
  /\ active' = [active EXCEPT ![n] = p]
  /\ panel' = panel \cup {p}
  /\ StartRecording(n, p)
  /\ mon' = [mon EXCEPT ![p] = "settling"]
  /\ UNCHANGED <<compliant, halted, semVars, sweep, steady, restarts>>

\* authorizePublish refuses: a row for the history, nothing else.
OnReject(p, n) ==
  /\ Fresh(p)
  /\ srs' = [srs EXCEPT ![p] = "gone"]
  /\ name' = [name EXCEPT ![p] = n]
  /\ ended' = ended \cup {p}
  /\ UNCHANGED <<compliant, active, halted, mon, semVars, recVars, sweep, panel,
                 steady, restarts>>

\* handleUnpublish ends the session the name has, whoever left.
OnUnpublish(p) ==
  /\ srs[p] = "leaving"
  /\ srs' = [srs EXCEPT ![p] = "gone"]
  /\ LET n == name[p]
         s == active[name[p]]
     IN IF s = None
        THEN UNCHANGED <<ended, active, halted, panel, recVars>>
        ELSE /\ halted' = halted \cup {s}
             /\ active' = [active EXCEPT ![n] = None]
             /\ ended' = ended \cup {s}
             /\ panel' = panel \ {s}
             /\ StopRecording(n, s, "hook")
  /\ UNCHANGED <<name, compliant, mon, semVars, sweep, steady, restarts>>

-----------------------------------------------------------------------------
(* SRS: after the hook it takes a publisher for a name that has none.  A     *)
(* publisher it refuses leaves like any other; a hook may be lost.           *)

SrsOnly == UNCHANGED <<rowVars, active, halted, mon, semVars, recVars, sweep,
                       panel, restarts>>

TakesStream(p) ==
  /\ srs[p] = "allowed" /\ ~In("live", name[p])
  /\ srs' = [srs EXCEPT ![p] = "live"]
  /\ UNCHANGED steady /\ SrsOnly

Leaves(p) ==
  /\ srs[p] \in {"allowed", "live"}
  /\ srs' = [srs EXCEPT ![p] = "leaving"]
  /\ steady' = steady \ {p} /\ SrsOnly

HookLost(p) ==
  /\ srs[p] = "leaving"
  /\ srs' = [srs EXCEPT ![p] = "gone"]
  /\ UNCHANGED steady /\ SrsOnly

-----------------------------------------------------------------------------
(* The monitors and their semaphore. *)

\* pump: the waiters that get a permit when b of m are taken.
Granted(b, m) == IF b >= m THEN 0
                 ELSE IF m - b < Len(waiters) THEN m - b ELSE Len(waiters)

\* Mutant: the waiter counts its permit again when it is woken.
PumpCountsTwice(b, m, next) ==
  LET g == Granted(b, m)
      woken == {waiters[i] : i \in 1..g}
  IN /\ busy' = b + 2 * g
     /\ waiters' = SubSeq(waiters, g + 1, Len(waiters))
     /\ mon' = [p \in Pubs |-> IF p \in woken THEN "probing" ELSE next[p]]

Pump(b, m, next) ==
  LET g == Granted(b, m)
      woken == {waiters[i] : i \in 1..g}
  IN /\ busy' = b + g
     /\ waiters' = SubSeq(waiters, g + 1, Len(waiters))
     /\ mon' = [p \in Pubs |-> IF p \in woken THEN "probing" ELSE next[p]]

Awake(p) == mon[p] \in {"settling", "sleeping"}

MonOnly == UNCHANGED <<srs, rowVars, active, halted, recVars, sweep, panel,
                       steady, restarts>>

MonitorStops(p) ==
  /\ Awake(p) /\ p \in halted
  /\ mon' = [mon EXCEPT ![p] = "off"]
  /\ UNCHANGED semVars /\ MonOnly

\* run: the permit is taken at once ...
Acquire(p) ==
  /\ Awake(p) /\ p \notin halted
  /\ busy < limit
  /\ busy' = busy + 1
  /\ mon' = [mon EXCEPT ![p] = "probing"]
  /\ UNCHANGED <<limit, waiters>> /\ MonOnly

\* ... or waited for: pump counts it before it wakes the waiter.
Queue(p) ==
  /\ Awake(p) /\ p \notin halted
  /\ busy >= limit
  /\ waiters' = Append(waiters, p)
  /\ mon' = [mon EXCEPT ![p] = "queued"]
  /\ UNCHANGED <<busy, limit>> /\ MonOnly

\* The first result within the limits archives the recording the name has now.
Judge(p, verdict) ==
  IF verdict = "within" /\ p \notin compliant
  THEN /\ compliant' = compliant \cup {p}
       /\ marked' = marked \cup ({handle[name[p]]} \ {None})
  ELSE UNCHANGED <<compliant, marked>>

\* Mutant: the monitor does not look again at its session after the probe.
ProbeEndsUnchecked(p, verdict) ==
  /\ mon[p] = "probing"
  /\ verdict = "none" \/ In("live", name[p]) \/ In("leaving", name[p])
  /\ Pump(busy - 1, limit, [mon EXCEPT ![p] = "sleeping"])
  /\ IF verdict = "none"
     THEN UNCHANGED <<compliant, marked, panel>>
     ELSE Judge(p, verdict) /\ panel' = panel \cup {p}
  /\ UNCHANGED <<srs, name, ended, active, halted, limit, handle, quits, sweep,
                 filed, steady, restarts>>

\* The probe returns, with a result only if somebody streamed under the name:
\* the permit goes to the next waiter, and the monitor judges and sleeps unless
\* its session was halted.
ProbeEnds(p, verdict) ==
  /\ mon[p] = "probing"
  /\ verdict = "none" \/ In("live", name[p]) \/ In("leaving", name[p])
  /\ Pump(busy - 1, limit,
          [mon EXCEPT ![p] = IF p \in halted THEN "off" ELSE "sleeping"])
  /\ IF p \in halted \/ verdict = "none"
     THEN UNCHANGED <<compliant, marked, panel>>
     ELSE Judge(p, verdict) /\ panel' = panel \cup {p}
  /\ UNCHANGED <<srs, name, ended, active, halted, limit, handle, quits, sweep,
                 filed, steady, restarts>>

\* Mutant: a higher limit wakes nobody.
SetMaxWithoutPump(m) ==
  /\ limit' = IF m < 1 THEN 1 ELSE m
  /\ limit' # limit
  /\ UNCHANGED <<busy, waiters, mon>>
  /\ MonOnly

\* setProbeConcurrency, with its lower bound of 1.
SetMax(m) ==
  /\ limit' = IF m < 1 THEN 1 ELSE m
  /\ limit' # limit
  /\ Pump(busy, limit', mon)
  /\ MonOnly

-----------------------------------------------------------------------------
(* The sweep. *)

Newest(S) == CHOOSE p \in S : \A q \in S : q <= p

\* findActive, and the question to SRS.
SweepReads ==
  /\ sweep.phase = "idle" /\ OpenRows # {}
  /\ sweep' = [NoSweep EXCEPT !.phase = "asked", !.seen = OpenRows]
  /\ steady' = {p \in Pubs : srs[p] = "live"}
  /\ UNCHANGED <<srs, rowVars, active, halted, mon, semVars, recVars, panel, restarts>>

SweepOnly == UNCHANGED <<srs, rowVars, active, halted, mon, semVars, recVars,
                         panel, steady, restarts>>

\* Mutant: an API that cannot be reached reads as no live stream.
SweepUnreachableReaps ==
  /\ sweep.phase = "asked"
  /\ sweep' = [sweep EXCEPT !.phase = "closing", !.todo = sweep.seen]
  /\ SweepOnly

SweepUnreachable ==
  /\ sweep.phase = "asked"
  /\ sweep' = NoSweep /\ SweepOnly

\* Mutant: a sweep that finds no live stream gives up.
SweepAnswersOnlyIfLive ==
  /\ sweep.phase = "asked"
  /\ LET live == {n \in Names : In("live", n)}
         kept == {p \in sweep.seen : name[p] \in live
                                     /\ p = Newest(sweep.seen \cap Rows(name[p]))}
         doomed == sweep.seen \ kept
     IN sweep' = IF doomed = {} \/ live = {} THEN NoSweep
                 ELSE [sweep EXCEPT !.phase = "closing", !.todo = doomed]
  /\ SweepOnly

\* SRS lists the live names; it may still list those whose publisher is leaving.
\* Of the rows read, the newest of each listed name is kept.
SweepAnswers ==
  /\ sweep.phase = "asked"
  /\ \E late \in SUBSET {n \in Names : In("leaving", n)} :
       LET live == late \cup {n \in Names : In("live", n)}
           kept == {p \in sweep.seen : name[p] \in live
                                       /\ p = Newest(sweep.seen \cap Rows(name[p]))}
           doomed == sweep.seen \ kept
       IN sweep' = IF doomed = {} THEN NoSweep
                   ELSE [sweep EXCEPT !.phase = "closing", !.todo = doomed]
  /\ SweepOnly

\* Mutant: closeGhost does not stop the recording.
CloseGhostKeepsRecording ==
  /\ sweep.phase = "closing" /\ sweep.at = None
  /\ \E p \in sweep.todo :
     /\ ended' = ended \cup {p}
     /\ sweep' = [sweep EXCEPT !.todo = @ \ {p}, !.at = p]
  /\ UNCHANGED <<srs, name, compliant, active, halted, mon, semVars, recVars, panel,
                 steady, restarts>>

\* closeGhost up to its await; the order of rows is by seconds, so any.
CloseGhost ==
  /\ sweep.phase = "closing" /\ sweep.at = None
  /\ \E p \in sweep.todo :
     /\ ended' = ended \cup {p}
     /\ StopRecording(name[p], p, "sweep")
     /\ sweep' = [sweep EXCEPT !.todo = @ \ {p}, !.at = p]
  /\ UNCHANGED <<srs, name, compliant, active, halted, mon, semVars, panel,
                 steady, restarts>>

\* ... and after it.
GhostClosed ==
  /\ sweep.phase = "closing" /\ sweep.at # None
  /\ \A q \in quits : q.by # "sweep"
  /\ panel' = panel \ {sweep.at}
  /\ sweep' = IF sweep.todo = {} THEN NoSweep ELSE [sweep EXCEPT !.at = None]
  /\ UNCHANGED <<srs, rowVars, active, halted, mon, semVars, recVars, steady, restarts>>

\* The app restarts: rows stay, its memory and its ffmpegs are gone.
Restart ==
  /\ restarts < MaxRestarts
  /\ restarts' = restarts + 1
  /\ active' = [n \in Names |-> None] /\ halted' = {}
  /\ mon' = [p \in Pubs |-> "off"]
  /\ busy' = 0 /\ waiters' = <<>>
  /\ handle' = [n \in Names |-> None] /\ quits' = {}
  /\ sweep' = NoSweep
  /\ UNCHANGED <<srs, rowVars, limit, marked, filed, panel, steady>>

-----------------------------------------------------------------------------
Hooks == \E p \in Pubs :
  \/ \E n \in Names : OnPublish(p, n) \/ OnReject(p, n)
  \/ OnUnpublish(p)
Srs == \E p \in Pubs : TakesStream(p) \/ Leaves(p) \/ HookLost(p)
Monitor(p) ==
  \/ MonitorStops(p) \/ Acquire(p) \/ Queue(p)
  \/ \E verdict \in {"none", "over", "within"} : ProbeEnds(p, verdict)
Sweep == SweepReads \/ SweepUnreachable \/ SweepAnswers \/ CloseGhost \/ GhostClosed
Quit == \E q \in quits, moved \in BOOLEAN : QuitEnds(q, moved)

Next ==
  \/ Hooks \/ Srs \/ Sweep \/ Quit \/ Restart
  \/ \E p \in Pubs : Monitor(p)
  \/ \E m \in 0..MaxLimit : SetMax(m)

\* The event loop runs its timers and continuations, a probe and a quit have
\* their timeouts, and SRS answers a sweep now and then.
Fairness ==
  /\ \A p \in Pubs : WF_vars(Monitor(p))
  /\ WF_vars(Quit)
  /\ WF_vars(SweepReads) /\ SF_vars(SweepAnswers)
  /\ WF_vars(CloseGhost) /\ WF_vars(GhostClosed)

Spec == Init /\ [][Next]_vars
FairSpec == Spec /\ Fairness

-----------------------------------------------------------------------------
(* Properties. *)

TypeOK ==
  /\ srs \in [Pubs -> {"none", "allowed", "live", "leaving", "gone"}]
  /\ name \in [Pubs -> Names \cup {None}]
  /\ compliant \subseteq Pubs /\ ended \subseteq Pubs
  /\ active \in [Names -> Pubs \cup {None}]
  /\ halted \subseteq Pubs
  /\ mon \in [Pubs -> {"off", "settling", "queued", "probing", "sleeping"}]
  /\ busy \in Nat /\ limit \in 1..MaxLimit /\ waiters \in Seq(Pubs)
  /\ handle \in [Names -> Pubs \cup {None}]
  /\ marked \subseteq Pubs
  /\ quits \subseteq [rec : Pubs, of : Pubs, by : {"hook", "sweep"}]
  /\ sweep \in [phase : {"idle", "asked", "closing"}, seen : SUBSET Pubs,
                todo : SUBSET Pubs, at : Pubs \cup {None}]
  /\ filed \in [Pubs -> Nat]
  /\ panel \subseteq Pubs /\ steady \subseteq Pubs
  /\ restarts \in 0..MaxRestarts

\* A permit is counted for each running probe and for nothing else, whatever
\* the limit did while monitors waited (semaphore.ts:24: "doing so would
\* double-count the permit and leak it").
PermitsExact == busy = Cardinality({p \in Pubs : mon[p] = "probing"})

\* Nobody waits beside a free permit: a release and a higher limit wake the
\* waiters they have room for (semaphore.ts:16 setMax, 40 pump).
NoIdlePermit == waiters # <<>> => busy >= limit

\* The semaphore's books are right, whatever limits, waits and restarts mix:
\* no permit leaks and none lies idle beside a waiter (semaphore.ts).
PermitsInStep == PermitsExact /\ NoIdlePermit

\* A name has at most one open row, its newest: a publish supersedes what lost
\* hooks and restarts left open (stream-lifecycle.ts:109-121).
OneOpenRow == \A p, q \in OpenRows : name[p] = name[q] => p = q

\* ffmpeg records a name only for an open session in memory, so there is a hook
\* or a sweep to come that stops it: neither a supersede nor a sweep that works
\* with rows it read before an await leaves a recording without owner.
RecorderHasSession ==
  \A n \in Recording : active[n] # None /\ active[n] \in OpenRows

\* However hooks, sweep and the wait for ffmpeg interleave, a recording is filed
\* once (recorder.ts:98-101 takes the handle before it waits).
FiledOnce == \A p \in Pubs : filed[p] <= 1

\* A session the panel was told to forget is not put back by its monitor, whose
\* probe may come back after the unpublish (stream-lifecycle.ts:216).
HaltedStaysGone == halted \cap panel = {}

\* The sweep closes no row of a publish that was live all the time since the
\* sweep began, so no outage of the SRS API reaps anybody (reconcile.ts:8 "an
\* outage must never reap live sessions").
SweepSparesLive ==
  [][CloseGhost => \A p \in steady : p \in OpenRows => p \in OpenRows']_vars

\* An open row whose name nobody publishes any more is closed, whatever hook was
\* lost and however often the app restarted.
Idle(n) == \A p \in Rows(n) : srs[p] \in {"none", "gone"}
GhostsClose == \A p \in Pubs :
  (p \in OpenRows /\ Idle(name[p])) ~> (p \in ended \/ ~Idle(name[p]))
=============================================================================
