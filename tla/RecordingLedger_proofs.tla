------------------------ MODULE RecordingLedger_proofs ------------------------
(***************************************************************************)
(* Proofs about RecordingLedger for any sessions, hosts, events and rows: a *)
(* row lists a segment once, an event has one row, the app's disk keeps no  *)
(* file that no row lists, playback serves the list the row had.            *)
(***************************************************************************)
EXTENDS RecordingLedger, FiniteSetTheorems, TLAPS

-----------------------------------------------------------------------------
(* Lists without some of their segments.                                    *)

\* A set of numbers has a least one.
LEMMA Least ==
  ASSUME NEW T \in SUBSET Nat, T # {}
  PROVE  \E m \in T : \A n \in T : m <= n
<1>1. PICK m \in T : \A n \in T : ~(<<n, m>> \in OpToRel(<, Nat))
  BY NatLessThanWellFounded, WFMin
<1>2. ASSUME NEW n \in T PROVE m <= n
  <2>1. m \in Nat /\ n \in Nat /\ <<n, m>> \in Nat \X Nat
    OBVIOUS
  <2>2. ~(<<n, m>>[1] < <<n, m>>[2])
    BY <1>1, <2>1, Zenon DEF OpToRel
  <2>3. QED
    BY <2>1, <2>2
<1>3. QED
  BY <1>2

\* f is the function that Omit is made of.
OmitBy(f, segs, out, n) ==
  f = [i \in 0 .. n |-> IF i = 0 THEN <<>>
                        ELSE IF segs[i] \in out THEN f[i - 1]
                        ELSE Append(f[i - 1], segs[i])]

\* The recursion that Omit stands on has a solution.
LEMMA OmitDefined ==
  ASSUME NEW segs, NEW out, NEW n \in Nat
  PROVE  \E kept : OmitBy(kept, segs, out, n)
<1> DEFINE Up(f, i) == IF i = 0 THEN <<>>
                       ELSE IF segs[i] \in out THEN f[i - 1]
                       ELSE Append(f[i - 1], segs[i])
           Solves(f, m) == f = [i \in 0 .. m |-> Up(f, i)]
           T == {m \in Nat : ~\E f : Solves(f, m)}
<1>1. SUFFICES ASSUME T # {} PROVE FALSE
  <2>1. n \notin T => \E f : Solves(f, n)
    OBVIOUS
  <2>2. QED
    BY <2>1 DEF OmitBy
<1>2. PICK m \in T : \A k \in T : m <= k
  BY <1>1, Least
<1>3. m # 0
  <2> DEFINE f == [i \in 0 .. 0 |-> <<>>]
  <2>1. Solves(f, 0)
    OBVIOUS
  <2>2. QED
    BY <2>1
<1>4. m - 1 \in Nat /\ ~(m <= m - 1)
  BY <1>3
<1>5. PICK f : Solves(f, m - 1)
  BY <1>2, <1>4
<1> DEFINE g == [i \in 0 .. m |-> IF i < m THEN f[i] ELSE Up(f, m)]
<1>6. ASSUME NEW i \in 0 .. m PROVE g[i] = Up(g, i)
  <2>1. i # 0 => i - 1 \in 0 .. m /\ i - 1 < m
    BY <1>2
  <2>2. i # 0 => g[i - 1] = f[i - 1]
    BY <2>1
  <2>3. Up(g, i) = Up(f, i)
    BY <2>2
  <2>4. i < m => f[i] = Up(f, i)
    <3>1. i < m => i \in 0 .. m - 1
      BY <1>2
    <3>2. QED
      BY <1>5, <3>1
  <2>5. QED
    BY <2>3, <2>4
<1>7. Solves(g, m)
  BY <1>6
<1>8. QED
  BY <1>2, <1>7

LEMMA AppendFacts ==
  ASSUME NEW S, NEW q \in Seq(S), NEW x \in S
  PROVE  /\ Append(q, x) \in Seq(S)
         /\ ToSet(Append(q, x)) = ToSet(q) \cup {x}
         /\ IsInjective(q) /\ x \notin ToSet(q) => IsInjective(Append(q, x))
<1> DEFINE a == Append(q, x)
<1>1. /\ a \in Seq(S) /\ Len(a) = Len(q) + 1 /\ Len(q) \in Nat
      /\ a[Len(q) + 1] = x /\ \A i \in 1 .. Len(q) : a[i] = q[i]
      /\ DOMAIN q = 1 .. Len(q) /\ DOMAIN a = 1 .. Len(q) + 1
  OBVIOUS
<1> HIDE DEF a
<1>2. \A i \in 1 .. Len(q) + 1 : i \in 1 .. Len(q) \/ i = Len(q) + 1
  BY <1>1
<1>3. 1 .. Len(q) \subseteq 1 .. Len(q) + 1 /\ Len(q) + 1 \in 1 .. Len(q) + 1
  BY <1>1
<1>4. ToSet(a) = ToSet(q) \cup {x}
  BY <1>1, <1>2, <1>3 DEF ToSet
<1>5. ASSUME IsInjective(q), x \notin ToSet(q) PROVE IsInjective(a)
  <2>1. \A i \in 1 .. Len(q) : q[i] # x
    BY <1>1, <1>5 DEF ToSet
  <2>2. \A i, j \in 1 .. Len(q) : q[i] = q[j] => i = j
    BY <1>1, <1>5 DEF IsInjective
  <2>3. QED
    BY <1>1, <1>2, <2>1, <2>2 DEF IsInjective
<1>6. QED
  BY <1>1, <1>4, <1>5 DEF a

LEMMA ConcatFacts ==
  ASSUME NEW S, NEW p \in Seq(S), NEW q \in Seq(S)
  PROVE  /\ p \o q \in Seq(S) /\ Len(p \o q) = Len(p) + Len(q)
         /\ ToSet(p \o q) = ToSet(p) \cup ToSet(q)
         /\ IsPrefix(p, p \o q)
         /\ IsInjective(p) /\ IsInjective(q) /\ ToSet(p) \cap ToSet(q) = {}
            => IsInjective(p \o q)
<1> DEFINE c == p \o q
           m == Len(p)
           n == Len(q)
<1>1. /\ c \in Seq(S) /\ Len(c) = m + n /\ m \in Nat /\ n \in Nat
      /\ \A i \in 1 .. m : c[i] = p[i]
      /\ \A i \in 1 .. n : c[m + i] = q[i]
      /\ DOMAIN p = 1 .. m /\ DOMAIN q = 1 .. n /\ DOMAIN c = 1 .. m + n
  OBVIOUS
<1>2. IsPrefix(p, c)
  BY DEF IsPrefix
<1> HIDE DEF c, m, n
<1>3. \A i \in 1 .. m + n : i \in 1 .. m \/ \E j \in 1 .. n : i = m + j
  <2> SUFFICES ASSUME NEW i \in 1 .. m + n, i \notin 1 .. m PROVE \E j \in 1 .. n : i = m + j
    OBVIOUS
  <2>1. i - m \in 1 .. n /\ i = m + (i - m)
    BY <1>1
  <2>2. QED
    BY <2>1
<1>4. 1 .. m \subseteq 1 .. m + n /\ \A j \in 1 .. n : m + j \in 1 .. m + n
  BY <1>1
<1>5. ToSet(c) = ToSet(p) \cup ToSet(q)
  <2>1. ASSUME NEW x \in ToSet(c) PROVE x \in ToSet(p) \/ x \in ToSet(q)
    <3>1. PICK i \in 1 .. m + n : x = c[i]
      BY <1>1, <2>1 DEF ToSet
    <3>2. CASE i \in 1 .. m
      BY <1>1, <3>1, <3>2 DEF ToSet
    <3>3. CASE \E j \in 1 .. n : i = m + j
      BY <1>1, <3>1, <3>3 DEF ToSet
    <3>4. QED
      BY <1>3, <3>2, <3>3
  <2>2. \A i \in 1 .. m : p[i] \in ToSet(c)
    BY <1>1, <1>4 DEF ToSet
  <2>3. ASSUME NEW j \in 1 .. n PROVE q[j] \in ToSet(c)
    <3>1. m + j \in DOMAIN c /\ c[m + j] = q[j]
      BY <1>1, <1>4
    <3>2. QED
      BY <3>1 DEF ToSet
  <2>4. ToSet(p) \subseteq ToSet(c) /\ ToSet(q) \subseteq ToSet(c)
    BY <1>1, <2>2, <2>3 DEF ToSet
  <2>5. QED
    BY <2>1, <2>4
<1>6. ASSUME IsInjective(p), IsInjective(q), ToSet(p) \cap ToSet(q) = {} PROVE IsInjective(c)
  <2>1. \A i \in 1 .. m, j \in 1 .. n : p[i] # q[j]
    BY <1>1, <1>6 DEF ToSet
  <2>2. \A i, j \in 1 .. m : p[i] = p[j] => i = j
    BY <1>1, <1>6 DEF IsInjective
  <2>3. \A i, j \in 1 .. n : q[i] = q[j] => i = j
    BY <1>1, <1>6 DEF IsInjective
  <2>4. ASSUME NEW i \in 1 .. m + n, NEW j \in 1 .. m + n, c[i] = c[j] PROVE i = j
    <3>1. CASE i \in 1 .. m /\ j \in 1 .. m
      BY <1>1, <2>2, <2>4, <3>1
    <3>2. ASSUME NEW k \in 1 .. n, i = m + k, j \in 1 .. m PROVE FALSE
      BY <1>1, <2>1, <2>4, <3>2
    <3>3. ASSUME NEW k \in 1 .. n, j = m + k, i \in 1 .. m PROVE FALSE
      BY <1>1, <2>1, <2>4, <3>3
    <3>4. ASSUME NEW k \in 1 .. n, NEW l \in 1 .. n, i = m + k, j = m + l PROVE i = j
      <4>1. q[k] = c[m + k] /\ q[l] = c[m + l]
        BY <1>1
      <4>2. q[k] = q[l]
        BY <2>4, <3>4, <4>1
      <4>3. k = l
        BY <2>3, <4>2
      <4>4. QED
        BY <3>4, <4>3
    <3>5. QED
      BY <1>3, <3>1, <3>2, <3>3, <3>4
  <2>5. QED
    BY <1>1, <2>4 DEF IsInjective
<1>7. QED
  BY <1>1, <1>2, <1>5, <1>6 DEF c, m, n

\* What Omit returns: the same segments without those of out, none twice.
LEMMA OmitFacts ==
  ASSUME NEW S, NEW segs \in Seq(S), NEW out
  PROVE  /\ Omit(segs, out) \in Seq(S)
         /\ ToSet(Omit(segs, out)) = ToSet(segs) \ out
         /\ IsInjective(segs) => IsInjective(Omit(segs, out))
<1> DEFINE n == Len(segs)
           kept[i \in 0 .. n] == IF i = 0 THEN <<>>
                                 ELSE IF segs[i] \in out THEN kept[i - 1]
                                 ELSE Append(kept[i - 1], segs[i])
<1>1. n \in Nat /\ DOMAIN segs = 1 .. n /\ \A i \in 1 .. n : segs[i] \in S
  OBVIOUS
<1>2. Omit(segs, out) = kept[n]
  BY DEF Omit
<1>3. kept = [i \in 0 .. n |-> IF i = 0 THEN <<>>
                               ELSE IF segs[i] \in out THEN kept[i - 1]
                               ELSE Append(kept[i - 1], segs[i])]
  <2> HIDE DEF n
  <2>1. \E f : OmitBy(f, segs, out, n)
    BY <1>1, OmitDefined
  <2>2. QED
    BY <2>1 DEF OmitBy
<1> HIDE DEF n, kept
<1> DEFINE Before(i) == {segs[j] : j \in 1 .. i}
           Right(i) == /\ kept[i] \in Seq(S) /\ ToSet(kept[i]) = Before(i) \ out
                       /\ IsInjective(segs) => IsInjective(kept[i])
           Bad == {i \in 0 .. n : ~Right(i)}
<1>4. Right(0)
  <2>1. kept[0] = <<>>
    BY <1>1, <1>3
  <2>2. Before(0) = {}
    OBVIOUS
  <2>3. <<>> \in Seq(S) /\ ToSet(<<>>) = {} /\ IsInjective(<<>>)
    BY DEF ToSet, IsInjective
  <2>4. QED
    BY <2>1, <2>2, <2>3
<1>5. ASSUME NEW i \in 1 .. n, Right(i - 1) PROVE Right(i)
  <2>1. /\ i \in 0 .. n /\ i # 0 /\ segs[i] \in S /\ i - 1 \in Nat
        /\ 1 .. i - 1 \subseteq 1 .. n
    BY <1>1
  <2>2. kept[i] = IF segs[i] \in out THEN kept[i - 1] ELSE Append(kept[i - 1], segs[i])
    BY <1>3, <2>1
  <2>3. Before(i) = Before(i - 1) \cup {segs[i]}
    <3>1. \A j \in 1 .. i : j \in 1 .. i - 1 \/ j = i
      BY <2>1
    <3>2. 1 .. i - 1 \subseteq 1 .. i /\ i \in 1 .. i
      BY <2>1
    <3>3. QED
      BY <3>1, <3>2
  <2>4. IsInjective(segs) => segs[i] \notin Before(i - 1)
    <3>1. \A j \in 1 .. i - 1 : j \in 1 .. n /\ j # i
      BY <2>1
    <3>2. QED
      BY <1>1, <3>1 DEF IsInjective
  <2> HIDE DEF Before
  <2>5. CASE segs[i] \in out
    BY <1>5, <2>2, <2>3, <2>5
  <2>6. CASE segs[i] \notin out
    <3>1. /\ Append(kept[i - 1], segs[i]) \in Seq(S)
          /\ ToSet(Append(kept[i - 1], segs[i])) = ToSet(kept[i - 1]) \cup {segs[i]}
          /\ IsInjective(kept[i - 1]) /\ segs[i] \notin ToSet(kept[i - 1])
             => IsInjective(Append(kept[i - 1], segs[i]))
      BY <1>5, <2>1, AppendFacts
    <3>2. QED
      BY <1>5, <2>2, <2>3, <2>4, <2>6, <3>1
  <2>7. QED
    BY <2>5, <2>6
<1>6. Bad = {}
  <2> HIDE DEF Right
  <2>1. SUFFICES ASSUME Bad # {} PROVE FALSE
    OBVIOUS
  <2>2. Bad \in SUBSET Nat
    BY <1>1
  <2>3. PICK i \in Bad : \A j \in Bad : i <= j
    BY <2>1, <2>2, Least
  <2>4. i \in 0 .. n /\ ~Right(i)
    OBVIOUS
  <2>5. i \in 1 .. n /\ i - 1 \in 0 .. n /\ ~(i <= i - 1)
    BY <1>1, <1>4, <2>4
  <2>6. Right(i - 1)
    BY <2>3, <2>5
  <2>7. QED
    BY <1>5, <2>4, <2>5, <2>6
<1>7. Right(n)
  <2> HIDE DEF Right
  <2>1. n \in 0 .. n
    BY <1>1
  <2>2. QED
    BY <1>6, <2>1
<1>8. Before(n) = ToSet(segs)
  BY <1>1 DEF ToSet
<1>9. QED
  BY <1>2, <1>7, <1>8

-----------------------------------------------------------------------------
(* The invariant.                                                           *)

FrameRows == [from : Sessions, event : Events \cup {None}, segs : Seq(Sessions)]

\* Sessions know those before them.
SessionShape ==
  /\ session \in [Sessions -> SessionRows \cup {None}]
  /\ IsFiniteSet(Published)
  /\ \A s \in Published : /\ session[s].prior \subseteq Published
                          /\ session[s].near \subseteq session[s].prior
                          /\ s \notin session[s].prior

DiskShape == files \subseteq Published /\ tmp \subseteq Published

\* A list of an event: segments of its sessions, none twice.
ListOf(segs, e) ==
  /\ segs \in Seq(Sessions) /\ ToSet(segs) \subseteq Published
  /\ IsInjective(segs)
  /\ \A t \in ToSet(segs) : session[t].event = e

ReportShape ==
  /\ report \in [Sessions -> Seq(Sessions) \cup {None}]
  /\ \A s \in Sessions : report[s] # None =>
       s \in Published /\ ListOf(report[s], session[s].event)

LinkShape ==
  /\ online \subseteq Nodes
  /\ up \in [Nodes -> Seq(FrameRows)]
  /\ \A n \in Nodes : \A i \in 1 .. Len(up[n]) :
       up[n][i].from \in Published /\ ListOf(up[n][i].segs, up[n][i].event)

TableShape ==
  /\ rows \in [Ids -> RecordingRows \cup {None}]
  /\ nextRow \in 1 .. MaxRows + 1 /\ gone \subseteq Events
  /\ \A r \in Ids : Row(r) => /\ r < nextRow /\ rows[r].event \notin gone
                              /\ rows[r].size = Len(rows[r].segs)
                              /\ ListOf(rows[r].segs, rows[r].event)

HistoryShape == listed \subseteq Published /\ lost \subseteq Published

\* A cached file is glued from the list it is named by.
GlueShape == \A g \in glue : g.from = g.name.of

IInv ==
  /\ SessionShape /\ DiskShape /\ ReportShape /\ LinkShape /\ TableShape
  /\ HistoryShape /\ GlueShape
  /\ OneRowPerEvent /\ LocalFilesListed /\ GlueFresh

-----------------------------------------------------------------------------
(* Sessions.                                                                *)

\* A session keeps its event, its host and those before it.
Steady ==
  \A s \in Published :
    /\ s \in Published' /\ session'[s].event = session[s].event
    /\ session'[s].host = session[s].host
    /\ session'[s].prior = session[s].prior /\ session'[s].near = session[s].near

LEMMA SessionTypes ==
  ASSUME SessionShape, NEW s \in Sessions
  PROVE  s \in Published <=> session[s] \in SessionRows
BY LedgerAssumption DEF SessionShape, Published

\* Of some sessions the phase is another.
LEMMA PhaseStep ==
  ASSUME SessionShape, NEW ph \in {"live", "ended", "scanned", "cut"},
         session' \in [Sessions -> SessionRows \cup {None}],
         \A s \in Sessions : \/ session'[s] = session[s]
                             \/ /\ s \in Published
                                /\ session'[s] = [session[s] EXCEPT !.phase = ph]
  PROVE  SessionShape' /\ Steady
<1>1. ASSUME NEW s \in Published
      PROVE  /\ s \in Published' /\ session'[s].event = session[s].event
             /\ session'[s].host = session[s].host
             /\ session'[s].prior = session[s].prior /\ session'[s].near = session[s].near
  <2>1. s \in Sessions /\ session[s] \in SessionRows
    BY SessionTypes DEF Published
  <2>2. CASE session'[s] = session[s]
    BY <2>2 DEF Published
  <2>3. CASE session'[s] = [session[s] EXCEPT !.phase = ph]
    <3>1. /\ session'[s] \in SessionRows /\ session'[s].event = session[s].event
          /\ session'[s].host = session[s].host
          /\ session'[s].prior = session[s].prior /\ session'[s].near = session[s].near
      BY <2>1, <2>3 DEF SessionRows
    <3>2. session'[s] # None
      BY <3>1, LedgerAssumption
    <3>3. QED
      BY <2>1, <3>1, <3>2 DEF Published
  <2>4. QED
    BY <2>1, <2>2, <2>3
<1>2. Published' = Published
  BY <1>1 DEF Published
<1>3. QED
  BY <1>1, <1>2 DEF SessionShape, Steady

LEMMA SameSessions ==
  ASSUME SessionShape, session' = session
  PROVE  SessionShape' /\ Steady
BY DEF SessionShape, Steady, Published

LEMMA OnePhase ==
  ASSUME SessionShape, NEW s \in Published, NEW ph \in {"live", "ended", "scanned", "cut"},
         session' = [session EXCEPT ![s].phase = ph]
  PROVE  SessionShape' /\ Steady
<1>1. s \in Sessions /\ session[s] \in SessionRows
  BY SessionTypes DEF Published
<1>2. [session[s] EXCEPT !.phase = ph] \in SessionRows
  BY <1>1 DEF SessionRows
<1>3. /\ session' \in [Sessions -> SessionRows \cup {None}]
      /\ \A t \in Sessions : \/ session'[t] = session[t]
                             \/ /\ t \in Published
                                /\ session'[t] = [session[t] EXCEPT !.phase = ph]
  BY <1>1, <1>2 DEF SessionShape
<1>4. QED
  BY <1>3, PhaseStep

LEMMA StartStep ==
  ASSUME SessionShape, NEW s \in Sessions, NEW e \in Events \cup {None}, NEW h \in Hosts,
         Start(s, e, h)
  PROVE  SessionShape' /\ Steady /\ s \in Published'
<1>1. s \notin Published
  BY DEF Start
<1>2. PICK near \in SUBSET {t \in Published : session[t].event = e /\ session[t].host = h} :
        session' = [session EXCEPT ![s] = [event |-> e, host |-> h, near |-> near,
                                           prior |-> Published, phase |-> "live"]]
  BY DEF Start
<1> DEFINE r == [event |-> e, host |-> h, near |-> near, prior |-> Published, phase |-> "live"]
<1>3. r \in SessionRows /\ r.prior = Published /\ r.near \subseteq Published
  <2>1. near \subseteq Published /\ Published \subseteq Sessions
    BY DEF Published
  <2>2. QED
    BY <2>1 DEF SessionRows
<1>4. session' = [session EXCEPT ![s] = r]
  BY <1>2
<1> HIDE DEF r
<1>5. r # None
  BY <1>3, LedgerAssumption
<1>6. /\ \A t \in Sessions : session'[t] = IF t = s THEN r ELSE session[t]
      /\ session' \in [Sessions -> SessionRows \cup {None}]
  BY <1>3, <1>4 DEF SessionShape
<1>7. Published' = Published \cup {s}
  BY <1>5, <1>6 DEF Published
<1>8. IsFiniteSet(Published')
  BY <1>7, FS_AddElement DEF SessionShape
<1>9. Steady
  BY <1>1, <1>6, <1>7 DEF Steady, Published
<1>10. \A t \in Published' : /\ session'[t].prior \subseteq Published'
                             /\ session'[t].near \subseteq session'[t].prior
                             /\ t \notin session'[t].prior
  BY <1>1, <1>3, <1>6, <1>7 DEF SessionShape, Published
<1>11. QED
  BY <1>6, <1>7, <1>8, <1>9, <1>10 DEF SessionShape

LEMMA SessionStep ==
  ASSUME SessionShape, DiskShape, [Next]_vars
  PROVE  SessionShape' /\ Steady
<1>1. ASSUME NEW s \in Sessions, In(s, "live") \/ In(s, "ended"),
             NEW ph \in {"ended", "scanned"}, session' = [session EXCEPT ![s].phase = ph]
      PROVE  SessionShape' /\ Steady
  BY <1>1, OnePhase DEF In
<1>2. ASSUME NEW s \in Sessions, End(s) \/ Scan(s) \/ FinalizeRecording(s)
      PROVE  SessionShape' /\ Steady
  BY <1>1, <1>2 DEF End, Scan, FinalizeRecording
<1>3. ASSUME NEW s \in Sessions, Emit(s) \/ EmitUnsure(s) \/ GiveUp(s)
      PROVE  session' = session
  BY <1>3 DEF Emit, EmitUnsure, GiveUp, nodeVars
<1>4. ASSUME NEW n \in Nodes,
             \/ LinkDown(n) \/ LinkUp(n) \/ OnDelete(n)
             \/ HandleRecordingReady(n) \/ RefuseReport(n)
      PROVE  session' = session
  BY <1>4 DEF LinkDown, LinkUp, OnDelete, HandleRecordingReady, RefuseReport, nodeVars
<1>5. ASSUME NEW e \in Events, DeleteEvent(e) \/ Refresh(e) \/ RemoveRecording(e) \/ Play(e)
      PROVE  session' = session
  BY <1>5 DEF DeleteEvent, Refresh, RemoveRecording, Play, nodeVars
<1>6. \/ \E r \in Ids : GrowOld(r)
      \/ RunRetention \/ GlueDone \/ GlueFails \/ UnlinkGlue \/ SweepGlue \/ UNCHANGED vars
      => session' = session
  BY DEF GrowOld, RunRetention, GlueDone, GlueFails, UnlinkGlue, SweepGlue, vars, nodeVars
<1>7. ASSUME AppRestart PROVE SessionShape' /\ Steady
  <2>1. session' = [s \in Sessions |-> IF s \in tmp THEN [session[s] EXCEPT !.phase = "cut"]
                                       ELSE session[s]]
    BY <1>7 DEF AppRestart
  <2>2. ASSUME NEW s \in Sessions
        PROVE  /\ session'[s] \in SessionRows \cup {None}
               /\ \/ session'[s] = session[s]
                  \/ s \in Published /\ session'[s] = [session[s] EXCEPT !.phase = "cut"]
    <3>1. CASE s \in tmp
      <4>1. s \in Published /\ session[s] \in SessionRows
        BY <3>1, SessionTypes DEF DiskShape
      <4>2. [session[s] EXCEPT !.phase = "cut"] \in SessionRows
        BY <4>1 DEF SessionRows
      <4>3. QED
        BY <2>1, <3>1, <4>1, <4>2
    <3>2. CASE s \notin tmp
      BY <2>1, <3>2 DEF SessionShape
    <3>3. QED
      BY <3>1, <3>2
  <2>3. session' \in [Sessions -> SessionRows \cup {None}]
    BY <2>1, <2>2
  <2>4. QED
    BY <2>2, <2>3, PhaseStep
<1>8. QED
  BY <1>2, <1>3, <1>4, <1>5, <1>6, <1>7, StartStep, SameSessions DEF Next

-----------------------------------------------------------------------------
(* Disks, reports and connections.                                          *)

LEMMA SteadyLists ==
  ASSUME Steady, NEW segs, NEW e, ListOf(segs, e)
  PROVE  ListOf(segs, e)'
<1>1. ToSet(segs) \subseteq Published /\ \A t \in ToSet(segs) : session[t].event = e
  BY DEF ListOf
<1>2. ToSet(segs) \subseteq Published' /\ \A t \in ToSet(segs) : session'[t].event = e
  BY <1>1 DEF Steady
<1>3. QED
  BY <1>2 DEF ListOf

LEMMA DiskStep ==
  ASSUME SessionShape, DiskShape, [Next]_vars
  PROVE  DiskShape' /\ files' \subseteq Published
<1> DEFINE Goal == DiskShape' /\ files' \subseteq Published
<1>1. Published \subseteq Published'
  BY SessionStep DEF Steady
<1>2. ASSUME NEW s \in Sessions, NEW e \in Events \cup {None}, NEW h \in Hosts, Start(s, e, h)
      PROVE  files' \subseteq files /\ tmp' \subseteq tmp \cup {s} /\ s \in Published'
  BY <1>2, StartStep DEF Start
<1>3. ASSUME NEW s \in Sessions, End(s) \/ Scan(s) \/ FinalizeRecording(s)
      PROVE  s \in Published /\ files' \subseteq files \cup {s} /\ tmp' \subseteq tmp
  BY <1>3 DEF End, Scan, FinalizeRecording, In, diskVars
<1>4. ASSUME NEW s \in Sessions, Emit(s) \/ EmitUnsure(s) \/ GiveUp(s)
      PROVE  files' = files /\ tmp' = tmp
  BY <1>4 DEF Emit, EmitUnsure, GiveUp, diskVars
<1>5. ASSUME NEW n \in Nodes,
             \/ LinkDown(n) \/ LinkUp(n) \/ OnDelete(n)
             \/ HandleRecordingReady(n) \/ RefuseReport(n)
      PROVE  files' \subseteq files /\ tmp' = tmp
  BY <1>5 DEF LinkDown, LinkUp, OnDelete, HandleRecordingReady, RefuseReport, diskVars
<1>6. ASSUME NEW e \in Events, DeleteEvent(e) \/ Refresh(e) \/ RemoveRecording(e) \/ Play(e)
      PROVE  files' \subseteq files /\ tmp' = tmp
  BY <1>6 DEF DeleteEvent, Refresh, RemoveRecording, DeleteRecording, RmLocal, Play, diskVars
<1>7. \/ \E r \in Ids : GrowOld(r)
      \/ GlueDone \/ GlueFails \/ UnlinkGlue \/ SweepGlue \/ AppRestart \/ UNCHANGED vars
      => files' = files /\ tmp' = tmp
  BY DEF GrowOld, GlueDone, GlueFails, UnlinkGlue, SweepGlue, AppRestart, vars, diskVars
<1>8. RunRetention => files' \subseteq files /\ tmp' \subseteq tmp
  BY DEF RunRetention
<1>9. files' \subseteq files /\ tmp' \subseteq tmp => Goal
  BY <1>1 DEF DiskShape
<1>10. \A s \in Published' : files' \subseteq files /\ tmp' \subseteq tmp \cup {s} => Goal
  BY <1>1 DEF DiskShape
<1>11. \A s \in Published : files' \subseteq files \cup {s} /\ tmp' \subseteq tmp => Goal
  BY <1>1 DEF DiskShape
<1> HIDE DEF Goal
<1>12. ASSUME NEW s \in Sessions, \E e \in Events \cup {None}, h \in Hosts : Start(s, e, h)
       PROVE  Goal
  BY <1>2, <1>10, <1>12
<1>13. ASSUME NEW s \in Sessions, End(s) \/ Scan(s) \/ FinalizeRecording(s) PROVE Goal
  BY <1>3, <1>11, <1>13
<1>14. ASSUME NEW s \in Sessions, Emit(s) \/ EmitUnsure(s) \/ GiveUp(s) PROVE Goal
  BY <1>4, <1>9, <1>14
<1>15. Goal
  BY <1>5, <1>6, <1>7, <1>8, <1>9, <1>12, <1>13, <1>14 DEF Next
<1>16. QED
  BY <1>15 DEF Goal

\* A chronological sequence names no session twice.
LEMMA ChronologicalFacts ==
  ASSUME SessionShape, NEW S \in SUBSET Published, NEW f \in Chronological(S)
  PROVE  f \in Seq(Sessions) /\ ToSet(f) \subseteq S /\ IsInjective(f)
<1>1. IsFiniteSet(S)
  BY FS_Subset DEF SessionShape
<1>2. Cardinality(S) \in Nat
  BY <1>1, FS_CardinalityType
<1>3. /\ f \in [1 .. Cardinality(S) -> S]
      /\ \A j \in DOMAIN f : \A i \in 1 .. j - 1 : f[i] \in session[f[j]].prior
  BY DEF Chronological
<1>4. f \in Seq(Sessions)
  <2>1. f \in Seq(S) /\ S \subseteq Sessions
    BY <1>2, <1>3 DEF Published
  <2>2. QED
    BY <2>1
<1>5. ToSet(f) \subseteq S
  BY <1>3 DEF ToSet
<1>6. ASSUME NEW i \in 1 .. Cardinality(S), NEW j \in 1 .. Cardinality(S), i < j
      PROVE  f[i] # f[j]
  <2>1. i \in 1 .. j - 1
    BY <1>2, <1>6
  <2>2. f[i] \in session[f[j]].prior /\ f[j] \in Published
    BY <1>3, <2>1
  <2>3. QED
    BY <2>2 DEF SessionShape
<1>7. IsInjective(f)
  <2>1. \A i, j \in 1 .. Cardinality(S) : i = j \/ i < j \/ j < i
    BY <1>2
  <2>2. QED
    BY <1>3, <1>6, <2>1 DEF IsInjective
<1>8. QED
  BY <1>4, <1>5, <1>7

LEMMA WrittenFacts ==
  ASSUME SessionShape, DiskShape, NEW s \in Sessions, NEW segs \in Written(s)
  PROVE  ListOf(segs, session[s].event)
<1> DEFINE later == {t \in Published : s \in session[t].prior}
           own == {t \in ({s} \cup session[s].near \cup later) \cap files :
                     session[t].host = session[s].host /\ session[t].event = session[s].event}
<1>1. segs \in Chronological(own)
  BY DEF Written
<1>2. own \subseteq Published /\ \A t \in own : session[t].event = session[s].event
  BY DEF DiskShape
<1> HIDE DEF own
<1>3. QED
  BY <1>1, <1>2, ChronologicalFacts DEF ListOf

\* A list of a session's event stays one.
LEMMA ListStays ==
  ASSUME Steady, NEW s \in Published, NEW segs, ListOf(segs, session[s].event)
  PROVE  s \in Published' /\ \E e : e = session'[s].event /\ ListOf(segs, e)'
<1>1. PICK e : e = session[s].event
  OBVIOUS
<1>2. ListOf(segs, e)'
  BY <1>1, SteadyLists
<1>3. s \in Published' /\ session'[s].event = e
  BY <1>1 DEF Steady
<1>4. QED
  BY <1>2, <1>3

LEMMA ReportStep ==
  ASSUME SessionShape, DiskShape, ReportShape, [Next]_vars
  PROVE  ReportShape'
<1> DEFINE Fine(s, segs) == s \in Published' /\ \E e : e = session'[s].event /\ ListOf(segs, e)'
<1>1. Steady
  BY SessionStep
<1>2. ASSUME NEW s \in Sessions, NEW segs, segs = report[s], segs # None PROVE Fine(s, segs)
  <2>1. s \in Published /\ ListOf(segs, session[s].event)
    BY <1>2 DEF ReportShape
  <2>2. QED
    BY <1>1, <2>1, ListStays
<1>3. ASSUME NEW s \in Sessions, Scan(s), report' # report
      PROVE  \E segs \in Seq(Sessions) : Fine(s, segs) /\ report' = [report EXCEPT ![s] = segs]
  <2>1. PICK segs \in Written(s) : report' = [report EXCEPT ![s] = segs]
    BY <1>3 DEF Scan
  <2>2. s \in Published
    BY <1>3 DEF Scan, In
  <2>3. ListOf(segs, session[s].event) /\ segs \in Seq(Sessions)
    BY WrittenFacts DEF ListOf
  <2>4. QED
    BY <1>1, <2>1, <2>2, <2>3, ListStays
<1>4. ASSUME NEW s \in Sessions, Emit(s) \/ GiveUp(s)
      PROVE  report' = [report EXCEPT ![s] = None]
  BY <1>4 DEF Emit, GiveUp
<1>5. ASSUME NEW s \in Sessions,
             \/ \E e \in Events \cup {None}, h \in Hosts : Start(s, e, h)
             \/ End(s) \/ EmitUnsure(s) \/ FinalizeRecording(s)
      PROVE  report' = report
  BY <1>5 DEF Start, End, EmitUnsure, FinalizeRecording, nodeVars
<1>6. ASSUME NEW n \in Nodes,
             \/ LinkDown(n) \/ LinkUp(n) \/ OnDelete(n)
             \/ HandleRecordingReady(n) \/ RefuseReport(n)
      PROVE  report' = report
  BY <1>6 DEF LinkDown, LinkUp, OnDelete, HandleRecordingReady, RefuseReport, nodeVars
<1>7. ASSUME NEW e \in Events, DeleteEvent(e) \/ Refresh(e) \/ RemoveRecording(e) \/ Play(e)
      PROVE  report' = report
  BY <1>7 DEF DeleteEvent, Refresh, RemoveRecording, Play, nodeVars
<1>8. \/ \E r \in Ids : GrowOld(r)
      \/ RunRetention \/ GlueDone \/ GlueFails \/ UnlinkGlue \/ SweepGlue \/ AppRestart
      \/ UNCHANGED vars
      => report' = report
  BY DEF GrowOld, RunRetention, GlueDone, GlueFails, UnlinkGlue, SweepGlue, AppRestart, vars,
     nodeVars
<1> DEFINE Sound == /\ report' \in [Sessions -> Seq(Sessions) \cup {None}]
                    /\ \A s \in Sessions : \A segs :
                         segs = report'[s] /\ segs # None => Fine(s, segs)
<1>9. Sound => ReportShape'
  BY DEF ReportShape
<1> HIDE DEF Fine
<1>10. report' = report => Sound
  BY <1>2 DEF ReportShape
<1>11. \A s \in Sessions : report' = [report EXCEPT ![s] = None] => Sound
  BY <1>2 DEF ReportShape
<1>12. \A s \in Sessions : Scan(s) => Sound
  BY <1>2, <1>3, <1>10 DEF ReportShape
<1> HIDE DEF Sound
<1>13. ASSUME NEW s \in Sessions, \/ \E e \in Events \cup {None}, h \in Hosts : Start(s, e, h)
                                  \/ End(s) \/ Scan(s) \/ Emit(s) \/ EmitUnsure(s) \/ GiveUp(s)
                                  \/ FinalizeRecording(s)
       PROVE  Sound
  BY <1>4, <1>5, <1>10, <1>11, <1>12, <1>13
<1>14. Sound
  BY <1>6, <1>7, <1>8, <1>10, <1>13 DEF Next
<1>15. QED
  BY <1>9, <1>14

\* A frame on a connection lists what its event has.
FrameSound(f) == f.from \in Published /\ ListOf(f.segs, f.event)

LEMMA FrameStays ==
  ASSUME Steady, NEW f, FrameSound(f)
  PROVE  FrameSound(f)'
<1>1. PICK segs, e : segs = f.segs /\ e = f.event
  OBVIOUS
<1>2. ListOf(segs, e)'
  BY <1>1, SteadyLists DEF FrameSound
<1>3. f.from \in Published'
  BY DEF FrameSound, Steady
<1>4. QED
  BY <1>1, <1>2, <1>3 DEF FrameSound

\* Of the frames that wait, all are sound.
Queue(q) == q \in Seq(FrameRows) /\ \A i \in 1 .. Len(q) : FrameSound(q[i])

LEMMA QueueFacts ==
  /\ Queue(<<>>)
  /\ \A q : Queue(q) /\ q # <<>> => Queue(Tail(q)) /\ Head(q) \in FrameRows /\ FrameSound(Head(q))
  /\ \A q, f : Queue(q) /\ f \in FrameRows /\ FrameSound(f) => Queue(Append(q, f))
<1>1. Queue(<<>>)
  BY DEF Queue
<1>2. ASSUME NEW q, Queue(q), q # <<>>
      PROVE  Queue(Tail(q)) /\ Head(q) \in FrameRows /\ FrameSound(Head(q))
  <2>1. q \in Seq(FrameRows) /\ Len(q) \in Nat /\ Len(q) >= 1 /\ 1 \in 1 .. Len(q)
    BY <1>2 DEF Queue
  <2>2. /\ Tail(q) \in Seq(FrameRows) /\ Len(Tail(q)) = Len(q) - 1
        /\ \A i \in 1 .. Len(q) - 1 : Tail(q)[i] = q[i + 1] /\ i + 1 \in 1 .. Len(q)
        /\ Head(q) = q[1]
    BY <2>1
  <2>3. QED
    BY <1>2, <2>1, <2>2 DEF Queue
<1>3. ASSUME NEW q, NEW f \in FrameRows, Queue(q), FrameSound(f)
      PROVE  Queue(Append(q, f))
  <2>1. /\ q \in Seq(FrameRows) /\ Append(q, f) \in Seq(FrameRows)
        /\ Len(Append(q, f)) = Len(q) + 1 /\ Len(q) \in Nat
        /\ \A i \in 1 .. Len(q) + 1 :
             \/ i \in 1 .. Len(q) /\ Append(q, f)[i] = q[i]
             \/ Append(q, f)[i] = f
    BY <1>3 DEF Queue
  <2>2. QED
    BY <1>3, <2>1 DEF Queue
<1>4. QED
  BY <1>1, <1>2, <1>3

LEMMA QueueStays ==
  ASSUME Steady, NEW q, Queue(q)
  PROVE  Queue(q)'
BY FrameStays DEF Queue

\* A frame is put on a connection, taken from it, or the connection is cut.
LEMMA LinkSteps ==
  ASSUME LinkShape, SessionShape, ReportShape, [Next]_vars
  PROVE  /\ online' \subseteq Nodes
         /\ \/ up' = up
            \/ up' = [n \in Nodes |-> <<>>]
            \/ \E n \in Nodes : up' = [up EXCEPT ![n] = <<>>]
            \/ \E n \in Nodes : up[n] # <<>> /\ up' = [up EXCEPT ![n] = Tail(up[n])]
            \/ \E s \in Sessions : /\ report[s] # None /\ session[s].host \in Nodes
                                   /\ up' = [up EXCEPT ![session[s].host] =
                                               Append(up[session[s].host], Ready(s))]
<1> DEFINE Goal == /\ online' \subseteq Nodes
                   /\ \/ up' = up
                      \/ up' = [n \in Nodes |-> <<>>]
                      \/ \E n \in Nodes : up' = [up EXCEPT ![n] = <<>>]
                      \/ \E n \in Nodes : up[n] # <<>> /\ up' = [up EXCEPT ![n] = Tail(up[n])]
                      \/ \E s \in Sessions : /\ report[s] # None /\ session[s].host \in Nodes
                                             /\ up' = [up EXCEPT ![session[s].host] =
                                                         Append(up[session[s].host], Ready(s))]
<1>1. online \subseteq Nodes
  BY DEF LinkShape
<1>2. UNCHANGED <<online, up>> => Goal
  BY <1>1
<1>3. ASSUME NEW s \in Sessions, Emit(s) \/ EmitUnsure(s) PROVE Goal
  <2>1. report[s] # None /\ session[s].host \in Nodes /\ online' = online
    BY <1>1, <1>3 DEF Emit, EmitUnsure
  <2>2. up' = [up EXCEPT ![session[s].host] = Append(up[session[s].host], Ready(s))]
    BY <1>3 DEF Emit, EmitUnsure
  <2>3. QED
    BY <1>1, <2>1, <2>2
<1>4. ASSUME NEW s \in Sessions,
             \/ \E e \in Events \cup {None}, h \in Hosts : Start(s, e, h)
             \/ End(s) \/ Scan(s) \/ GiveUp(s) \/ FinalizeRecording(s)
      PROVE  UNCHANGED <<online, up>>
  BY <1>4 DEF Start, End, Scan, GiveUp, FinalizeRecording, linkVars
<1>5. ASSUME NEW n \in Nodes, LinkDown(n) \/ RefuseReport(n) PROVE Goal
  BY <1>1, <1>5 DEF LinkDown, RefuseReport, CutLink
<1>6. ASSUME NEW n \in Nodes, LinkUp(n) PROVE Goal
  BY <1>1, <1>6 DEF LinkUp
<1>7. ASSUME NEW n \in Nodes, HandleRecordingReady(n) PROVE Goal
  BY <1>1, <1>7 DEF HandleRecordingReady
<1>8. ASSUME NEW n \in Nodes, OnDelete(n) PROVE UNCHANGED <<online, up>>
  BY <1>8 DEF OnDelete
<1>9. ASSUME NEW e \in Events, DeleteEvent(e) \/ Refresh(e) \/ RemoveRecording(e) \/ Play(e)
      PROVE  UNCHANGED <<online, up>>
  BY <1>9 DEF DeleteEvent, Refresh, RemoveRecording, Play, linkVars
<1>10. \/ \E r \in Ids : GrowOld(r)
       \/ RunRetention \/ GlueDone \/ GlueFails \/ UnlinkGlue \/ SweepGlue \/ UNCHANGED vars
       => UNCHANGED <<online, up>>
  BY DEF GrowOld, RunRetention, GlueDone, GlueFails, UnlinkGlue, SweepGlue, vars, linkVars
<1>11. AppRestart => Goal
  BY DEF AppRestart
<1> HIDE DEF Goal
<1>12. Goal
  BY <1>2, <1>3, <1>4, <1>5, <1>6, <1>7, <1>8, <1>9, <1>10, <1>11 DEF Next
<1>13. QED
  BY <1>12 DEF Goal

LEMMA LinkStep ==
  ASSUME SessionShape, DiskShape, ReportShape, LinkShape, [Next]_vars
  PROVE  LinkShape'
<1>1. Steady
  BY SessionStep
<1>2. up \in [Nodes -> Seq(FrameRows)] /\ \A n \in Nodes : Queue(up[n])
  BY DEF LinkShape, Queue, FrameSound
\* What is on the connections after the step was sound before it.
<1>3. up' \in [Nodes -> Seq(FrameRows)] /\ \A n \in Nodes : \A q : q = up'[n] => Queue(q)
  <2> DEFINE Goal == up' \in [Nodes -> Seq(FrameRows)]
                     /\ \A n \in Nodes : \A q : q = up'[n] => Queue(q)
  <2>1. \A q : Queue(q) => q \in Seq(FrameRows)
    BY DEF Queue
  <2>2. ASSUME NEW n \in Nodes, NEW q, Queue(q), up' = [up EXCEPT ![n] = q] PROVE Goal
    BY <1>2, <2>1, <2>2
  <2>3. up' = up => Goal
    BY <1>2
  <2>4. up' = [n \in Nodes |-> <<>>] => Goal
    BY <2>1, QueueFacts
  <2>5. ASSUME NEW s \in Sessions, report[s] # None
        PROVE  Ready(s) \in FrameRows /\ FrameSound(Ready(s))
    <3>1. s \in Published /\ ListOf(report[s], session[s].event) /\ report[s] \in Seq(Sessions)
      BY <2>5 DEF ReportShape
    <3>2. session[s].event \in Events \cup {None}
      BY <3>1, SessionTypes DEF SessionRows
    <3>3. /\ Ready(s).from = s /\ Ready(s).event = session[s].event
          /\ Ready(s).segs = report[s] /\ Ready(s) \in FrameRows
      BY <3>1, <3>2 DEF Ready, FrameRows
    <3>4. QED
      BY <3>1, <3>3 DEF FrameSound
  <2>6. ASSUME NEW s \in Sessions, report[s] # None, NEW n \in Nodes,
               up' = [up EXCEPT ![n] = Append(up[n], Ready(s))]
        PROVE  Goal
    <3>1. Queue(Append(up[n], Ready(s)))
      BY <1>2, <2>5, <2>6, QueueFacts
    <3> HIDE DEF Goal
    <3>2. QED
      BY <2>2, <2>6, <3>1
  <2>7. ASSUME NEW n \in Nodes, up[n] # <<>>, up' = [up EXCEPT ![n] = Tail(up[n])] PROVE Goal
    <3>1. Queue(Tail(up[n]))
      BY <1>2, <2>7, QueueFacts
    <3> HIDE DEF Goal
    <3>2. QED
      BY <2>2, <2>7, <3>1
  <2>8. ASSUME NEW n \in Nodes, up' = [up EXCEPT ![n] = <<>>] PROVE Goal
    <3>1. Queue(<<>>)
      BY QueueFacts
    <3> HIDE DEF Goal
    <3>2. QED
      BY <2>2, <2>8, <3>1
  <2> HIDE DEF Goal
  <2>9. Goal
    BY <2>3, <2>4, <2>6, <2>7, <2>8, LinkSteps
  <2>10. QED
    BY <2>9 DEF Goal
<1>4. ASSUME NEW n \in Nodes, NEW q, q = up'[n] PROVE Queue(q)'
  BY <1>1, <1>3, <1>4, QueueStays
<1>5. \A n \in Nodes : \A i \in 1 .. Len(up'[n]) :
        up'[n][i].from \in Published' /\ ListOf(up[n][i].segs, up[n][i].event)'
  <2> SUFFICES ASSUME NEW n \in Nodes, NEW i \in 1 .. Len(up'[n])
               PROVE  up'[n][i].from \in Published' /\ ListOf(up[n][i].segs, up[n][i].event)'
    OBVIOUS
  <2>1. PICK q : q = up'[n]
    OBVIOUS
  <2>2. PICK f : f = q[i]
    OBVIOUS
  <2>3. FrameSound(f)'
    BY <1>4, <2>1, <2>2 DEF Queue
  <2>4. QED
    BY <2>1, <2>2, <2>3 DEF FrameSound
<1>6. QED
  BY <1>3, <1>5, LinkSteps DEF LinkShape

-----------------------------------------------------------------------------
(* The rows.                                                                *)

LEMMA RowFacts ==
  ASSUME TableShape, NEW r \in Ids
  PROVE  /\ Row(r) <=> rows[r] \in RecordingRows
         /\ Row(r) => rows[r].segs \in Seq(Sessions) /\ rows[r].event \in Events \cup {None}
BY LedgerAssumption DEF TableShape, Row, RecordingRows

\* The row that a report is filed in: it is of the report's event, lists what it listed and
\* what was reported, none twice.
FiledIn(k, row, e, segs) ==
  /\ rows' = [rows EXCEPT ![k] = row] /\ row.event = e
  /\ ListOf(row.segs, e) /\ row.size = Len(row.segs)
  /\ ToSet(segs) \subseteq ToSet(row.segs)
  /\ nextRow' \in 1 .. MaxRows + 1 /\ nextRow <= nextRow' /\ k < nextRow'
  /\ Row(k) => /\ rows[k].event = e /\ IsPrefix(rows[k].segs, row.segs)
               /\ ToSet(rows[k].segs) \subseteq ToSet(row.segs)
  /\ ~Row(k) => MergeTarget(e) = {}

LEMMA MergeFacts ==
  ASSUME TableShape, NEW k \in Ids, Row(k), NEW segs, ListOf(segs, rows[k].event),
         rows' = [rows EXCEPT ![k] = Merge(@, segs)], nextRow' = nextRow
  PROVE  \E row \in RecordingRows : FiledIn(k, row, rows[k].event, segs)
<1> DEFINE old == rows[k]
           fresh == Omit(segs, ToSet(old.segs))
           row == [old EXCEPT !.segs = old.segs \o fresh, !.size = old.size + Len(fresh)]
<1>1. /\ old \in RecordingRows /\ ListOf(old.segs, old.event) /\ old.size = Len(old.segs)
      /\ k < nextRow
  BY RowFacts DEF TableShape
<1>2. old.segs \in Seq(Sessions) /\ segs \in Seq(Sessions)
  BY <1>1 DEF ListOf
<1>3. /\ fresh \in Seq(Sessions) /\ ToSet(fresh) = ToSet(segs) \ ToSet(old.segs)
      /\ IsInjective(fresh)
  BY <1>2, OmitFacts DEF ListOf
<1>4. rows' = [rows EXCEPT ![k] = row]
  BY DEF Merge, TableShape
<1> HIDE DEF fresh
<1>5. /\ old.segs \o fresh \in Seq(Sessions)
      /\ Len(old.segs \o fresh) = Len(old.segs) + Len(fresh)
      /\ ToSet(old.segs \o fresh) = ToSet(old.segs) \cup ToSet(fresh)
      /\ IsPrefix(old.segs, old.segs \o fresh)
      /\ IsInjective(old.segs) /\ IsInjective(fresh) /\ ToSet(old.segs) \cap ToSet(fresh) = {}
         => IsInjective(old.segs \o fresh)
  BY <1>2, <1>3, ConcatFacts
<1>6. ToSet(old.segs \o fresh) = ToSet(old.segs) \cup ToSet(segs)
  BY <1>3, <1>5
<1>7. IsInjective(old.segs \o fresh)
  BY <1>1, <1>3, <1>5 DEF ListOf
<1>8. ListOf(old.segs \o fresh, old.event)
  BY <1>1, <1>5, <1>6, <1>7 DEF ListOf
<1>9. old.size + Len(fresh) \in Nat
  <2>1. Len(fresh) \in Nat /\ old.size \in Nat
    BY <1>1, <1>3 DEF RecordingRows
  <2>2. QED
    BY <2>1
<1>10. /\ row \in RecordingRows /\ row.event = old.event /\ row.segs = old.segs \o fresh
       /\ row.size = old.size + Len(fresh)
  BY <1>1, <1>5, <1>9 DEF RecordingRows
<1>11. row.size = Len(row.segs)
  BY <1>1, <1>5, <1>10
<1> HIDE DEF row
<1>12. nextRow \in 1 .. MaxRows + 1 /\ nextRow <= nextRow /\ MaxRows \in Nat
  BY LedgerAssumption DEF TableShape
<1>13. QED
  BY <1>1, <1>4, <1>5, <1>6, <1>8, <1>10, <1>11, <1>12 DEF FiledIn

LEMMA InsertFacts ==
  ASSUME TableShape, NEW e \in Events \cup {None}, NEW host \in Hosts, NEW segs, ListOf(segs, e),
         MergeTarget(e) = {}, InsertRow(e, host, segs)
  PROVE  \E k \in Ids, row \in RecordingRows : FiledIn(k, row, e, segs)
<1> DEFINE row == [event |-> e, host |-> host, segs |-> segs, size |-> Len(segs), aged |-> FALSE]
<1>1. /\ nextRow \in Ids /\ rows' = [rows EXCEPT ![nextRow] = row] /\ nextRow' = nextRow + 1
  BY DEF InsertRow
<1>2. segs \in Seq(Sessions) /\ Len(segs) \in Nat
  BY DEF ListOf
<1>3. /\ row \in RecordingRows /\ row.event = e /\ row.segs = segs /\ row.size = Len(segs)
  BY <1>2 DEF RecordingRows
<1> HIDE DEF row
<1>4. ~Row(nextRow)
  BY <1>1 DEF TableShape, Ids
<1>5. nextRow' \in 1 .. MaxRows + 1 /\ nextRow <= nextRow' /\ nextRow < nextRow'
  BY <1>1, LedgerAssumption DEF Ids
<1>6. QED
  BY <1>1, <1>3, <1>4, <1>5 DEF FiledIn

LEMMA FileFacts ==
  ASSUME TableShape, NEW e \in Events \cup {None}, NEW host \in Hosts, NEW segs, ListOf(segs, e),
         File(e, host, segs)
  PROVE  \E k \in Ids, row \in RecordingRows : FiledIn(k, row, e, segs)
<1>1. CASE MergeTarget(e) # {}
  <2>1. PICK k \in MergeTarget(e) : /\ rows' = [rows EXCEPT ![k] = Merge(@, segs)]
                                    /\ nextRow' = nextRow
    BY <1>1 DEF File
  <2>2. k \in Ids /\ Row(k) /\ rows[k].event = e
    BY <1>1, <2>1 DEF MergeTarget
  <2>3. QED
    BY <2>1, <2>2, MergeFacts
<1>2. CASE MergeTarget(e) = {}
  BY <1>2, InsertFacts DEF File
<1>3. QED
  BY <1>1, <1>2

\* Rows are left alone, and a file that is new is not on the app's disk or its event is gone.
Kept ==
  /\ UNCHANGED <<rows, nextRow, gone>>
  /\ \A s \in files' \ files : session[s].host # Local \/ session[s].event \in gone

\* A report is filed of an event that is there; what is new on a disk is in it.
Filed ==
  \E e \in Events \cup {None}, host \in Hosts, segs \in Seq(Sessions) :
    /\ e \notin gone /\ ListOf(segs, e) /\ File(e, host, segs) /\ gone' = gone
    /\ files' \ files \subseteq ToSet(segs)

\* Rows go with their files on the app's disk, or with their event.
Dropped ==
  /\ rows' \in [Ids -> RecordingRows \cup {None}] /\ nextRow' = nextRow
  /\ gone \subseteq gone' /\ gone' \subseteq Events /\ files' \subseteq files
  /\ \A r \in Ids : rows'[r] # None => rows'[r] = rows[r] /\ rows[r].event \notin gone'
  /\ \A r \in Ids : Row(r) /\ rows'[r] = None =>
       \A s \in ToSet(rows[r].segs) \cap files' :
         session[s].host # Local \/ session[s].event \in gone'

LEMMA DropSteps ==
  ASSUME TableShape
  PROVE  /\ \A e \in Events : RemoveRecording(e) \/ DeleteEvent(e) => Dropped
         /\ RunRetention => Dropped
<1>1. /\ rows \in [Ids -> RecordingRows \cup {None}] /\ gone \subseteq Events
      /\ \A r \in Ids : rows[r] # None => rows[r].event \notin gone
      /\ \A r \in Ids : rows[r] # None => ListOf(rows[r].segs, rows[r].event)
  BY DEF TableShape, Row
<1>2. ASSUME NEW e \in Events, RemoveRecording(e) PROVE Dropped
  <2>1. PICK r \in Ids : /\ Row(r) /\ rows' = [rows EXCEPT ![r] = None]
                         /\ files' = RmLocal(rows[r].segs)
                         /\ nextRow' = nextRow /\ gone' = gone
    BY <1>2 DEF RemoveRecording, DeleteRecording, Row
  <2>2. files' \subseteq files /\ \A s \in ToSet(rows[r].segs) \cap files' : session[s].host # Local
    BY <2>1 DEF RmLocal
  <2>3. /\ rows' \in [Ids -> RecordingRows \cup {None}]
        /\ \A q \in Ids : rows'[q] = IF q = r THEN None ELSE rows[q]
    BY <1>1, <2>1
  <2>4. QED
    BY <1>1, <2>1, <2>2, <2>3 DEF Dropped, Row
<1>3. ASSUME NEW e \in Events, DeleteEvent(e) PROVE Dropped
  <2>1. /\ files' = files /\ nextRow' = nextRow /\ gone' = gone \cup {e}
        /\ rows' = [r \in Ids |-> IF Row(r) /\ rows[r].event = e THEN None ELSE rows[r]]
    BY <1>3 DEF DeleteEvent, diskVars
  <2>2. /\ rows' \in [Ids -> RecordingRows \cup {None}]
        /\ \A r \in Ids : rows'[r] # None => rows'[r] = rows[r] /\ rows[r].event # e
    BY <1>1, <2>1 DEF Row
  <2>3. ASSUME NEW r \in Ids, Row(r), rows'[r] = None, NEW s \in ToSet(rows[r].segs)
        PROVE  session[s].event \in gone'
    <3>1. rows[r].event = e
      BY <2>1, <2>3 DEF Row
    <3>2. session[s].event = e
      BY <1>1, <2>3, <3>1 DEF ListOf, Row
    <3>3. QED
      BY <2>1, <3>2
  <2>4. \A r \in Ids : rows'[r] # None => rows[r].event \notin gone'
    BY <1>1, <2>1, <2>2
  <2>5. QED
    BY <1>1, <2>1, <2>2, <2>3, <2>4 DEF Dropped
<1>4. ASSUME RunRetention PROVE Dropped
  <2>1. /\ files' = files \ UNION {files \ RmLocal(rows[r].segs) : r \in Expired}
        /\ rows' = [r \in Ids |-> IF r \in Expired THEN None ELSE rows[r]]
        /\ nextRow' = nextRow /\ gone' = gone
    BY <1>4 DEF RunRetention
  <2>2. /\ rows' \in [Ids -> RecordingRows \cup {None}]
        /\ \A r \in Ids : rows'[r] # None => rows'[r] = rows[r]
        /\ \A r \in Ids : Row(r) /\ rows'[r] = None => r \in Expired
    BY <1>1, <2>1 DEF Row
  <2>3. ASSUME NEW r \in Expired, NEW s \in ToSet(rows[r].segs) \cap files'
        PROVE  session[s].host # Local
    <3>1. s \in files /\ s \notin files \ RmLocal(rows[r].segs)
      BY <2>1
    <3>2. QED
      BY <3>1 DEF RmLocal
  <2>4. files' \subseteq files
    BY <2>1
  <2>5. QED
    BY <1>1, <2>1, <2>2, <2>3, <2>4 DEF Dropped
<1>5. QED
  BY <1>2, <1>3, <1>4

LEMMA TableSteps ==
  ASSUME SessionShape, DiskShape, LinkShape, TableShape, [Next]_vars
  PROVE  Kept \/ Filed \/ Dropped \/ (\E r \in Ids : GrowOld(r))
<1>1. ASSUME NEW s \in Sessions, End(s) PROVE Kept
  BY <1>1 DEF End, Kept, tableVars
<1>2. ASSUME NEW s \in Sessions,
             \/ \E e \in Events \cup {None}, h \in Hosts : Start(s, e, h)
             \/ Scan(s) \/ Emit(s) \/ EmitUnsure(s) \/ GiveUp(s)
      PROVE  Kept
  BY <1>2 DEF Start, Scan, Emit, EmitUnsure, GiveUp, Kept, tableVars, diskVars
<1>3. ASSUME NEW n \in Nodes, LinkDown(n) \/ LinkUp(n) \/ OnDelete(n) \/ RefuseReport(n)
      PROVE  Kept
  BY <1>3 DEF LinkDown, LinkUp, OnDelete, RefuseReport, Kept, tableVars, diskVars
<1>4. ASSUME NEW e \in Events, Refresh(e) \/ Play(e) PROVE Kept
  BY <1>4 DEF Refresh, Play, Kept, tableVars, diskVars
<1>5. GlueDone \/ GlueFails \/ UnlinkGlue \/ SweepGlue \/ AppRestart \/ UNCHANGED vars => Kept
  BY DEF GlueDone, GlueFails, UnlinkGlue, SweepGlue, AppRestart, vars, Kept, tableVars, diskVars
<1>6. ASSUME NEW s \in Sessions, FinalizeRecording(s) PROVE Kept \/ Filed
  <2>1. s \in Published /\ session[s].event \in Events \cup {None}
    <3>1. s \in Published
      BY <1>6 DEF FinalizeRecording, In
    <3>2. session[s] \in SessionRows
      BY <3>1, SessionTypes
    <3>3. QED
      BY <3>1, <3>2 DEF SessionRows
  <2>2. gone' = gone
    BY <1>6 DEF FinalizeRecording
  <2>3. CASE files' = files /\ UNCHANGED <<rows, nextRow>>
    BY <2>2, <2>3 DEF Kept
  <2>4. CASE files' = files \cup {s} /\ session[s].event \in gone /\ UNCHANGED <<rows, nextRow>>
    BY <2>2, <2>4 DEF Kept
  <2>5. CASE /\ files' = files \cup {s} /\ session[s].event \notin gone
             /\ File(session[s].event, Local, <<s>>)
    <3> DEFINE one == <<s>>
    <3>1. one \in Seq(Sessions) /\ ToSet(one) = {s} /\ IsInjective(one)
      BY DEF ToSet, IsInjective
    <3>2. ListOf(one, session[s].event)
      BY <2>1, <3>1 DEF ListOf
    <3>3. File(session[s].event, Local, one) /\ Local \in Hosts
      BY <2>5 DEF Hosts
    <3> HIDE DEF one
    <3>4. Filed
      BY <2>1, <2>2, <2>5, <3>1, <3>2, <3>3 DEF Filed
    <3>5. QED
      BY <3>4
  <2>6. QED
    BY <1>6, <2>3, <2>4, <2>5 DEF FinalizeRecording
<1>7. ASSUME NEW n \in Nodes, HandleRecordingReady(n) PROVE Filed
  <2> DEFINE f == Head(up[n])
  <2>1. /\ up[n] # <<>> /\ f.event \notin gone /\ File(f.event, n, f.segs)
        /\ gone' = gone /\ files' = files
    BY <1>7 DEF HandleRecordingReady, diskVars
  <2>2. Queue(up[n])
    BY DEF LinkShape, Queue, FrameSound
  <2>3. f \in FrameRows /\ FrameSound(f)
    BY <2>1, <2>2, QueueFacts
  <2>4. f.event \in Events \cup {None} /\ f.segs \in Seq(Sessions) /\ ListOf(f.segs, f.event)
    BY <2>3 DEF FrameRows, FrameSound
  <2>5. n \in Hosts
    BY DEF Hosts
  <2> HIDE DEF f
  <2>6. QED
    BY <2>1, <2>4, <2>5 DEF Filed
<1>8. ASSUME NEW e \in Events, DeleteEvent(e) \/ RemoveRecording(e) PROVE Dropped
  BY <1>8, DropSteps
<1>9. RunRetention => Dropped
  BY DropSteps
<1>10. QED
  BY <1>1, <1>2, <1>3, <1>4, <1>5, <1>6, <1>7, <1>8, <1>9 DEF Next

\* What the rows are after a step, of the sessions before it.
RowsSound ==
  /\ rows' \in [Ids -> RecordingRows \cup {None}]
  /\ nextRow' \in 1 .. MaxRows + 1 /\ gone' \subseteq Events
  /\ \A r \in Ids : rows'[r] # None =>
       /\ r < nextRow' /\ rows'[r].event \notin gone'
       /\ rows'[r].size = Len(rows'[r].segs) /\ ListOf(rows'[r].segs, rows'[r].event)

RowsGrow ==
  \A r \in Ids : Row(r) /\ rows'[r] # None => IsPrefix(rows[r].segs, rows'[r].segs)

RowsApart ==
  \A r, q \in Ids : /\ rows'[r] # None /\ rows'[q] # None
                    /\ rows'[r].event # None /\ rows'[r].event = rows'[q].event
                    => r = q

FilesListed ==
  \A s \in files' : session[s].host = Local /\ session[s].event \notin gone' =>
    \E r \in Ids : rows'[r] # None /\ s \in ToSet(rows'[r].segs)

LEMMA PrefixOfItself ==
  ASSUME NEW q \in Seq(Sessions)
  PROVE  IsPrefix(q, q)
BY DEF IsPrefix

\* What is filed: one row is new or longer.
LEMMA FiledStep ==
  ASSUME TableShape, OneRowPerEvent, LocalFilesListed, Filed
  PROVE  RowsSound /\ RowsGrow /\ RowsApart /\ FilesListed
<1>1. PICK e \in Events \cup {None}, host \in Hosts, segs \in Seq(Sessions) :
        /\ e \notin gone /\ ListOf(segs, e) /\ File(e, host, segs) /\ gone' = gone
        /\ files' \ files \subseteq ToSet(segs)
  BY DEF Filed
<1>2. PICK k \in Ids, row \in RecordingRows : FiledIn(k, row, e, segs)
  BY <1>1, FileFacts
<1>3. /\ rows' = [rows EXCEPT ![k] = row] /\ row.event = e
      /\ ListOf(row.segs, e) /\ row.size = Len(row.segs)
      /\ ToSet(segs) \subseteq ToSet(row.segs)
      /\ nextRow' \in 1 .. MaxRows + 1 /\ nextRow <= nextRow' /\ k < nextRow'
      /\ Row(k) => /\ rows[k].event = e /\ IsPrefix(rows[k].segs, row.segs)
                   /\ ToSet(rows[k].segs) \subseteq ToSet(row.segs)
      /\ ~Row(k) => MergeTarget(e) = {}
  BY <1>2 DEF FiledIn
<1>4. /\ \A r \in Ids : rows'[r] = IF r = k THEN row ELSE rows[r]
      /\ rows' \in [Ids -> RecordingRows \cup {None}]
  BY <1>3 DEF TableShape
<1>5. row # None
  BY LedgerAssumption
<1>6. \A r \in Ids : r < nextRow => r < nextRow'
  <2>1. nextRow \in Nat /\ nextRow' \in Nat
    BY <1>3, LedgerAssumption DEF TableShape
  <2>2. QED
    BY <1>3, <2>1 DEF Ids
<1>7. RowsSound
  <2>1. ASSUME NEW r \in Ids, rows'[r] # None
        PROVE  /\ r < nextRow' /\ rows'[r].event \notin gone'
               /\ rows'[r].size = Len(rows'[r].segs) /\ ListOf(rows'[r].segs, rows'[r].event)
    <3>1. CASE r = k
      BY <1>1, <1>3, <1>4, <3>1
    <3>2. CASE r # k
      <4>1. rows'[r] = rows[r] /\ Row(r) /\ gone' = gone
        BY <1>1, <1>4, <2>1, <3>2 DEF Row
      <4>2. /\ r < nextRow /\ rows[r].event \notin gone
            /\ rows[r].size = Len(rows[r].segs) /\ ListOf(rows[r].segs, rows[r].event)
        BY <4>1 DEF TableShape
      <4>3. QED
        BY <1>6, <4>1, <4>2
    <3>3. QED
      BY <3>1, <3>2
  <2>2. gone' \subseteq Events
    BY <1>1 DEF TableShape
  <2>3. QED
    BY <1>3, <1>4, <2>1, <2>2 DEF RowsSound
<1>8. RowsGrow
  BY <1>3, <1>4, RowFacts, PrefixOfItself DEF RowsGrow
<1>9. RowsApart
  <2>1. ASSUME NEW q \in Ids, q # k, rows'[q] # None, rows'[q].event = e, e # None PROVE FALSE
    <3>1. Row(q) /\ rows[q].event = e
      BY <1>4, <2>1 DEF Row
    <3>2. MergeTarget(e) # {}
      BY <2>1, <3>1 DEF MergeTarget
    <3>3. Row(k) /\ rows[k].event = e
      BY <1>3, <3>2
    <3>4. QED
      BY <2>1, <3>1, <3>3 DEF OneRowPerEvent
  <2>2. \A r, q \in Ids : r # k /\ q # k /\ rows'[r] # None /\ rows'[q] # None
                          /\ rows'[r].event # None /\ rows'[r].event = rows'[q].event => r = q
    BY <1>4 DEF OneRowPerEvent, Row
  <2>3. rows'[k].event = e
    BY <1>3, <1>4
  <2>4. QED
    BY <2>1, <2>2, <2>3 DEF RowsApart
<1>10. FilesListed
  <2> SUFFICES ASSUME NEW s \in files', session[s].host = Local, session[s].event \notin gone'
               PROVE  \E r \in Ids : rows'[r] # None /\ s \in ToSet(rows'[r].segs)
    BY DEF FilesListed
  <2>1. CASE s \in ToSet(segs)
    BY <1>3, <1>4, <1>5, <2>1
  <2>2. CASE s \in files
    <3>1. PICK r \in Ids : Row(r) /\ s \in ToSet(rows[r].segs)
      BY <1>1, <2>2 DEF LocalFilesListed
    <3>2. CASE r = k
      BY <1>3, <1>4, <1>5, <3>1, <3>2
    <3>3. CASE r # k
      BY <1>4, <3>1, <3>3 DEF Row
    <3>4. QED
      BY <3>2, <3>3
  <2>3. QED
    BY <1>1, <2>1, <2>2
<1>11. QED
  BY <1>7, <1>8, <1>9, <1>10

LEMMA TableEffects ==
  ASSUME SessionShape, DiskShape, LinkShape, TableShape, OneRowPerEvent, LocalFilesListed,
         [Next]_vars
  PROVE  RowsSound /\ RowsGrow /\ RowsApart /\ FilesListed
<1>1. /\ \A r \in Ids : Row(r) => /\ r < nextRow /\ rows[r].event \notin gone
                                  /\ rows[r].size = Len(rows[r].segs)
                                  /\ ListOf(rows[r].segs, rows[r].event)
      /\ nextRow \in 1 .. MaxRows + 1
      /\ rows \in [Ids -> RecordingRows \cup {None}] /\ gone \subseteq Events
  BY DEF TableShape
<1>2. \A r \in Ids : Row(r) => rows[r].segs \in Seq(Sessions)
  BY RowFacts
<1>3. ASSUME Kept PROVE RowsSound /\ RowsGrow /\ RowsApart /\ FilesListed
  <2>1. rows' = rows /\ nextRow' = nextRow /\ gone' = gone
    BY <1>3 DEF Kept
  <2>2. RowsSound /\ RowsGrow
    BY <1>1, <1>2, <2>1, PrefixOfItself DEF RowsSound, RowsGrow, Row
  <2>3. RowsApart
    BY <2>1 DEF RowsApart, OneRowPerEvent, Row
  <2>4. FilesListed
    BY <1>3, <2>1 DEF FilesListed, LocalFilesListed, Row, Kept
  <2>5. QED
    BY <2>2, <2>3, <2>4
<1>4. ASSUME Dropped PROVE RowsSound /\ RowsGrow /\ RowsApart /\ FilesListed
  <2>1. /\ \A r \in Ids : rows'[r] # None =>
             Row(r) /\ rows'[r] = rows[r] /\ rows[r].event \notin gone'
        /\ rows' \in [Ids -> RecordingRows \cup {None}] /\ nextRow' = nextRow
        /\ gone \subseteq gone' /\ gone' \subseteq Events /\ files' \subseteq files
        /\ \A r \in Ids : Row(r) /\ rows'[r] = None =>
             \A s \in ToSet(rows[r].segs) \cap files' :
               session[s].host # Local \/ session[s].event \in gone'
    BY <1>4 DEF Dropped, Row
  <2>2. RowsSound /\ RowsGrow
    BY <1>1, <1>2, <2>1, PrefixOfItself DEF RowsSound, RowsGrow
  <2>3. RowsApart
    BY <2>1 DEF RowsApart, OneRowPerEvent
  <2>4. FilesListed
    <3> SUFFICES ASSUME NEW s \in files', session[s].host = Local, session[s].event \notin gone'
                 PROVE  \E r \in Ids : rows'[r] # None /\ s \in ToSet(rows'[r].segs)
      BY DEF FilesListed
    <3>1. PICK r \in Ids : Row(r) /\ s \in ToSet(rows[r].segs)
      BY <2>1 DEF LocalFilesListed
    <3>2. rows'[r] # None
      BY <2>1, <3>1
    <3>3. QED
      BY <2>1, <3>1, <3>2
  <2>5. QED
    BY <2>2, <2>3, <2>4
<1>5. ASSUME NEW k \in Ids, GrowOld(k)
      PROVE  RowsSound /\ RowsGrow /\ RowsApart /\ FilesListed
  <2> DEFINE old == rows[k]
             row == [old EXCEPT !.aged = TRUE]
  <2>1. /\ old \in RecordingRows /\ Row(k) /\ rows' = [rows EXCEPT ![k] = row]
        /\ nextRow' = nextRow /\ gone' = gone /\ files' = files
    BY <1>5, RowFacts DEF GrowOld, diskVars
  <2>2. /\ row \in RecordingRows /\ row.event = old.event /\ row.segs = old.segs
        /\ row.size = old.size
    BY <2>1 DEF RecordingRows
  <2> HIDE DEF row
  <2>3. row # None
    BY <2>2, LedgerAssumption
  <2>4. /\ \A r \in Ids : rows'[r] = IF r = k THEN row ELSE rows[r]
        /\ rows' \in [Ids -> RecordingRows \cup {None}]
    BY <1>1, <2>1, <2>2
  <2>5. \A r \in Ids : rows'[r] # None =>
          /\ Row(r) /\ rows'[r].event = rows[r].event /\ rows'[r].segs = rows[r].segs
          /\ rows'[r].size = rows[r].size
    BY <2>1, <2>2, <2>4 DEF Row
  <2>6. \A r \in Ids : Row(r) => rows'[r] # None
    BY <2>3, <2>4 DEF Row
  <2> HIDE DEF old
  <2>7. RowsSound /\ RowsGrow
    BY <1>1, <1>2, <2>1, <2>4, <2>5, PrefixOfItself DEF RowsSound, RowsGrow
  <2>8. RowsApart
    BY <2>5 DEF RowsApart, OneRowPerEvent
  <2>9. FilesListed
    BY <2>1, <2>5, <2>6 DEF FilesListed, LocalFilesListed
  <2>10. QED
    BY <2>7, <2>8, <2>9
<1>6. QED
  BY <1>3, <1>4, <1>5, FiledStep, TableSteps

LEMMA TableStep ==
  ASSUME SessionShape, DiskShape, LinkShape, TableShape, OneRowPerEvent, LocalFilesListed,
         [Next]_vars
  PROVE  TableShape' /\ OneRowPerEvent' /\ LocalFilesListed'
<1>1. RowsSound /\ RowsApart /\ FilesListed
  BY TableEffects
<1>2. Steady /\ files' \subseteq Published
  BY SessionStep, DiskStep
<1>3. ASSUME NEW r \in Ids, NEW segs, NEW e, rows'[r] # None, segs = rows'[r].segs,
             e = rows'[r].event
      PROVE  ListOf(segs, e)'
  <2>1. ListOf(segs, e)
    BY <1>1, <1>3 DEF RowsSound
  <2>2. QED
    BY <1>2, <2>1, SteadyLists
<1>4. TableShape'
  BY <1>1, <1>3 DEF RowsSound, TableShape, Row
<1>5. OneRowPerEvent'
  BY <1>1 DEF RowsApart, OneRowPerEvent, Row
<1>6. LocalFilesListed'
  <2>1. \A s \in files' : session'[s].host = session[s].host /\ session'[s].event = session[s].event
    BY <1>2 DEF Steady
  <2>2. QED
    BY <1>1, <2>1 DEF FilesListed, LocalFilesListed, Row
<1>7. QED
  BY <1>4, <1>5, <1>6

-----------------------------------------------------------------------------
(* Histories and the cache.                                                 *)

LEMMA HistoryStep ==
  ASSUME SessionShape, DiskShape, ReportShape, LinkShape, TableShape, HistoryShape,
         OneRowPerEvent, LocalFilesListed, [Next]_vars
  PROVE  HistoryShape'
<1>1. Published \subseteq Published'
  BY SessionStep DEF Steady
<1>2. Listings \subseteq Published
  <2>1. \A r \in Ids : rows'[r] # None => ToSet(rows'[r].segs) \subseteq Published
    BY TableEffects DEF RowsSound, ListOf
  <2>2. QED
    BY <2>1 DEF Listings
<1>3. \A n \in Nodes : Senders(n) \subseteq Published
  BY DEF Senders, LinkShape
<1> DEFINE Goal == listed' \subseteq Published /\ lost' \subseteq Published
<1>4. listed \subseteq Published /\ lost \subseteq Published
  BY DEF HistoryShape
<1>5. UNCHANGED <<listed, lost>> => Goal
  BY <1>4
<1>6. ASSUME NEW s \in Sessions, Scan(s) \/ GiveUp(s) PROVE Goal
  <2>1. s \in Published
    BY <1>6 DEF Scan, GiveUp, In, ReportShape
  <2>2. listed' = listed /\ lost' \subseteq lost \cup {s}
    BY <1>6 DEF Scan, GiveUp
  <2>3. QED
    BY <1>4, <2>1, <2>2
<1>7. ASSUME NEW s \in Sessions, FinalizeRecording(s) PROVE Goal
  <2>1. listed' \subseteq listed \cup Listings /\ lost' = lost
    BY <1>7 DEF FinalizeRecording
  <2>2. QED
    BY <1>2, <1>4, <2>1
<1>8. ASSUME NEW s \in Sessions,
             \/ \E e \in Events \cup {None}, h \in Hosts : Start(s, e, h)
             \/ End(s) \/ Emit(s) \/ EmitUnsure(s)
      PROVE  UNCHANGED <<listed, lost>>
  BY <1>8 DEF Start, End, Emit, EmitUnsure
<1>9. ASSUME NEW n \in Nodes, LinkDown(n) \/ RefuseReport(n) PROVE Goal
  <2>1. listed' = listed /\ lost' = lost \cup Senders(n)
    BY <1>9 DEF LinkDown, RefuseReport
  <2>2. QED
    BY <1>3, <1>4, <2>1
<1>10. ASSUME NEW n \in Nodes, HandleRecordingReady(n) PROVE Goal
  <2>1. listed' = listed \cup Listings /\ lost' = lost
    BY <1>10 DEF HandleRecordingReady
  <2>2. QED
    BY <1>2, <1>4, <2>1
<1>11. ASSUME NEW n \in Nodes, LinkUp(n) \/ OnDelete(n) PROVE UNCHANGED <<listed, lost>>
  BY <1>11 DEF LinkUp, OnDelete
<1>12. ASSUME NEW e \in Events, DeleteEvent(e) \/ Refresh(e) \/ RemoveRecording(e) \/ Play(e)
       PROVE  UNCHANGED <<listed, lost>>
  BY <1>12 DEF DeleteEvent, Refresh, RemoveRecording, Play
<1>13. \/ \E r \in Ids : GrowOld(r)
       \/ RunRetention \/ GlueDone \/ GlueFails \/ UnlinkGlue \/ SweepGlue \/ UNCHANGED vars
       => UNCHANGED <<listed, lost>>
  BY DEF GrowOld, RunRetention, GlueDone, GlueFails, UnlinkGlue, SweepGlue, vars
<1>14. AppRestart => Goal
  BY <1>3, <1>4 DEF AppRestart
<1> HIDE DEF Goal
<1>15. Goal
  BY <1>5, <1>6, <1>7, <1>8, <1>9, <1>10, <1>11, <1>12, <1>13, <1>14 DEF Next
<1>16. QED
  BY <1>1, <1>15 DEF Goal, HistoryShape

LEMMA GlueStep ==
  ASSUME GlueShape, GlueFresh, [Next]_vars
  PROVE  GlueShape' /\ GlueFresh'
<1> DEFINE Goal == GlueShape' /\ GlueFresh'
<1>1. UNCHANGED <<glue, answer>> => Goal
  BY DEF GlueShape, GlueFresh
<1>2. ASSUME glue' \subseteq glue, answer' = answer PROVE Goal
  BY <1>2 DEF GlueShape, GlueFresh
<1>3. ASSUME NEW s \in Sessions,
             \/ \E e \in Events \cup {None}, h \in Hosts : Start(s, e, h)
             \/ End(s) \/ Scan(s) \/ Emit(s) \/ EmitUnsure(s) \/ GiveUp(s) \/ FinalizeRecording(s)
      PROVE  UNCHANGED <<glue, answer>>
  BY <1>3 DEF Start, End, Scan, Emit, EmitUnsure, GiveUp, FinalizeRecording, cacheVars
<1>4. ASSUME NEW n \in Nodes,
             \/ LinkDown(n) \/ LinkUp(n) \/ OnDelete(n)
             \/ HandleRecordingReady(n) \/ RefuseReport(n)
      PROVE  UNCHANGED <<glue, answer>>
  BY <1>4 DEF LinkDown, LinkUp, OnDelete, HandleRecordingReady, RefuseReport, cacheVars
<1>5. ASSUME NEW e \in Events, DeleteEvent(e) \/ Refresh(e) \/ RemoveRecording(e)
      PROVE  UNCHANGED <<glue, answer>>
  BY <1>5 DEF DeleteEvent, Refresh, RemoveRecording, cacheVars
<1>6. \/ \E r \in Ids : GrowOld(r)
      \/ RunRetention \/ GlueFails \/ AppRestart \/ UNCHANGED vars
      => UNCHANGED <<glue, answer>>
  BY DEF GrowOld, RunRetention, GlueFails, AppRestart, vars, cacheVars
<1>7. UnlinkGlue \/ SweepGlue => glue' \subseteq glue /\ answer' = answer
  BY DEF UnlinkGlue, SweepGlue
\* What is served is named by the list it is asked of.
<1>8. ASSUME NEW r, NEW segs, NEW found, \A g \in found : g.from = g.name.of,
             ServeFile(r, segs, found)
      PROVE  GlueFresh'
  <2>1. PICK g \in found : /\ g.name = [row |-> r, of |-> segs]
                           /\ answer' = [of |-> segs, from |-> g.from]
    BY <1>8 DEF ServeFile, GlueName
  <2>2. g.from = segs
    BY <1>8, <2>1
  <2>3. QED
    BY <2>1, <2>2 DEF GlueFresh
<1>9. ASSUME NEW e \in Events, Play(e) PROVE Goal
  <2>1. glue' = glue
    BY <1>9 DEF Play
  <2>2. \/ answer' = answer
        \/ \E r, segs : ServeFile(r, segs, glue)
    BY <1>9 DEF Play
  <2>3. QED
    BY <1>1, <1>8, <2>1, <2>2 DEF GlueShape
<1>10. ASSUME GlueDone PROVE Goal
  <2> DEFINE name == GlueName(asked.row, asked.segs)
             made == [name |-> name, from |-> asked.segs]
  <2>1. /\ glue' = {g \in glue : g.name # name} \cup {made}
        /\ ServeFile(asked.row, asked.segs, {made})
    BY <1>10 DEF GlueDone
  <2>2. made.from = made.name.of
    BY DEF GlueName
  <2> HIDE DEF made, name
  <2>3. \A g \in {made} : g.from = g.name.of
    BY <2>2
  <2>4. GlueShape'
    BY <2>1, <2>3 DEF GlueShape
  <2>5. QED
    BY <1>8, <2>1, <2>3, <2>4
<1> HIDE DEF Goal
<1>11. Goal
  BY <1>1, <1>2, <1>3, <1>4, <1>5, <1>6, <1>7, <1>9, <1>10 DEF Next
<1>12. QED
  BY <1>11 DEF Goal

-----------------------------------------------------------------------------
(* The ledger.                                                              *)

LEMMA InitInv == Init => IInv
<1> SUFFICES ASSUME Init PROVE IInv
  OBVIOUS
<1>1. Published = {} /\ \A r \in Ids : ~Row(r)
  BY DEF Init, Published, Row
<1>2. SessionShape /\ DiskShape /\ ReportShape
  <2>1. IsFiniteSet({})
    BY FS_EmptySet
  <2>2. QED
    BY <1>1, <2>1 DEF Init, SessionShape, DiskShape, ReportShape
<1>3. LinkShape
  <2>1. \A n \in Nodes : up[n] = <<>> /\ Len(up[n]) = 0
    BY DEF Init
  <2>2. \A n \in Nodes : 1 .. Len(up[n]) = {}
    BY <2>1
  <2>3. up \in [Nodes -> Seq(FrameRows)] /\ online \subseteq Nodes
    BY DEF Init
  <2>4. QED
    BY <2>2, <2>3 DEF LinkShape
<1>4. TableShape
  <2>1. nextRow \in 1 .. MaxRows + 1
    BY LedgerAssumption DEF Init
  <2>2. QED
    BY <1>1, <2>1 DEF Init, TableShape
<1>5. HistoryShape /\ GlueShape /\ GlueFresh
  BY DEF Init, HistoryShape, GlueShape, GlueFresh
<1>6. OneRowPerEvent /\ LocalFilesListed
  BY <1>1 DEF Init, OneRowPerEvent, LocalFilesListed
<1>7. QED
  BY <1>2, <1>3, <1>4, <1>5, <1>6 DEF IInv

LEMMA NextInv ==
  ASSUME IInv, [Next]_vars
  PROVE  IInv'
<1>1. /\ SessionShape /\ DiskShape /\ ReportShape /\ LinkShape /\ TableShape
      /\ HistoryShape /\ GlueShape /\ OneRowPerEvent /\ LocalFilesListed /\ GlueFresh
  BY DEF IInv
<1>2. SessionShape' /\ DiskShape'
  BY <1>1, SessionStep, DiskStep
<1>3. ReportShape' /\ LinkShape'
  BY <1>1, ReportStep, LinkStep
<1>4. TableShape' /\ OneRowPerEvent' /\ LocalFilesListed'
  BY <1>1, TableStep
<1>5. HistoryShape'
  BY <1>1, HistoryStep
<1>6. GlueShape' /\ GlueFresh'
  BY <1>1, GlueStep
<1>7. QED
  BY <1>2, <1>3, <1>4, <1>5, <1>6 DEF IInv

THEOREM Invariance == Spec => []IInv
<1>1. IInv /\ [Next]_vars => IInv'
  BY NextInv
<1>2. QED
  BY <1>1, InitInv, PTL DEF Spec

LEMMA SeqOfPublished ==
  ASSUME NEW segs \in Seq(Sessions), ToSet(segs) \subseteq Published
  PROVE  segs \in Seq(Published)
<1>1. DOMAIN segs = 1 .. Len(segs) /\ Len(segs) \in Nat
  OBVIOUS
<1>2. \A i \in 1 .. Len(segs) : segs[i] \in Published
  BY <1>1 DEF ToSet
<1>3. QED
  BY <1>1, <1>2

LEMMA InvTypes == IInv => TypeOK
<1> SUFFICES ASSUME IInv PROVE TypeOK
  OBVIOUS
<1>1. /\ SessionShape /\ DiskShape /\ ReportShape /\ LinkShape /\ TableShape /\ HistoryShape
  BY DEF IInv
<1>2. ASSUME NEW s \in Published
      PROVE  /\ session[s].event \in Events \cup {None} /\ session[s].host \in Hosts
             /\ session[s].near \subseteq session[s].prior
             /\ session[s].prior \subseteq Published
             /\ session[s].phase \in {"live", "ended", "scanned", "cut"}
  <2>1. session[s] \in SessionRows
    BY <1>1, SessionTypes DEF Published
  <2>2. QED
    BY <1>1, <2>1 DEF SessionRows, SessionShape
<1>3. ASSUME NEW s \in Sessions, report[s] # None PROVE report[s] \in Seq(Published)
  <2>1. report[s] \in Seq(Sessions) /\ ToSet(report[s]) \subseteq Published
    BY <1>1, <1>3 DEF ReportShape, ListOf
  <2>2. QED
    BY <2>1, SeqOfPublished
<1>4. ASSUME NEW r \in Ids, Row(r)
      PROVE  /\ rows[r].host \in Hosts /\ rows[r].event \in (Events \ gone) \cup {None}
             /\ rows[r].segs \in Seq(Published)
  <2>1. rows[r] \in RecordingRows /\ rows[r].event \notin gone
    BY <1>1, <1>4, RowFacts DEF TableShape
  <2>2. rows[r].segs \in Seq(Sessions) /\ ToSet(rows[r].segs) \subseteq Published
    BY <1>1, <1>4 DEF TableShape, ListOf
  <2>3. rows[r].segs \in Seq(Published)
    BY <2>2, SeqOfPublished
  <2>4. QED
    BY <2>1, <2>3 DEF RecordingRows
<1>5. /\ files \subseteq Published /\ tmp \subseteq Published
      /\ online \subseteq Nodes /\ gone \subseteq Events /\ nextRow \in 1 .. MaxRows + 1
      /\ listed \subseteq Published /\ lost \subseteq Published
  BY <1>1 DEF DiskShape, LinkShape, TableShape, HistoryShape
<1>6. QED
  BY <1>2, <1>3, <1>4, <1>5 DEF TypeOK

\* For any sessions, hosts and events, through lost, repeated and overlapping reports,
\* deletions, retention and restarts: a row lists a segment once and counts it once, an
\* event has one row (media-node-handlers.ts:249-300, recordings.repository.ts:20), the
\* app's disk keeps no file that no row lists (retention.ts:19, recordings.ts:176), and a
\* viewer is served the list the row had (file.get.ts:127).
THEOREM LedgerCorrect == Spec => []LedgerInv
<1>1. IInv => CountedOnce
  BY DEF IInv, TableShape, ListOf, CountedOnce
<1>2. IInv => OneRowPerEvent /\ LocalFilesListed /\ GlueFresh
  BY DEF IInv
<1>3. IInv => LedgerInv
  BY <1>1, <1>2, InvTypes DEF LedgerInv
<1>4. QED
  BY <1>3, Invariance, PTL

\* For any reports in any order: what a row lists is a prefix of what it lists after the
\* next step, as long as the row is there (media-node-handlers.ts:260-280).
THEOREM PartsStayed == Spec => PartsStay
<1>1. IInv /\ [Next]_vars => RowsGrow
  BY TableEffects DEF IInv
<1>2. IInv /\ [Next]_vars
      => [\A r \in Ids : Row(r) /\ rows'[r] # None => IsPrefix(rows[r].segs, rows'[r].segs)]_vars
  BY <1>1 DEF RowsGrow
<1>3. QED
  BY <1>2, Invariance, PTL DEF Spec, PartsStay
=============================================================================
