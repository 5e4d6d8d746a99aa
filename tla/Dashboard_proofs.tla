--------------------------- MODULE Dashboard_proofs ---------------------------
(***************************************************************************)
(* Proofs about what the dashboard administers, for any constants.  Of       *)
(* EventCatalog: keys that open an event are of its roster, tokens stay with *)
(* their student, guide links with their event, windows open before they     *)
(* close.  Of Console: the stored rows, their caches and the forms over them *)
(* stay in step, and a form loses nothing that was typed.                    *)
(***************************************************************************)
EXTENDS EventCatalog, Console, TLAPS

Positive == Nat \ {0}
Tables == [Events -> [1 .. Names -> KeyRows \cup {None}]]
Rosters == [Events -> [Students -> Nat]]

\* The types of the catalog.
RowShape ==
  /\ row \in [Events -> EventRows \cup {None}]
  /\ \A e \in Events : Exists(e) => row[e].groups \subseteq groups
  /\ alias \in [Keys -> Events \cup {None}]
  /\ groups \subseteq Groups
  /\ holders \in [Keys -> SUBSET (Events \X Events)]

\* The types of rosters and keys.
KeyShape ==
  /\ enrolled \in Rosters /\ keys \in Tables
  /\ now \in 0 .. Horizon /\ seq \in Nat /\ calls \in 0 .. MaxCalls

\* A token that was made, and for whom.
MadeRows == [tok : Positive, of : Events, student : Students]

\* What a call that makes a key is about.
KeyJob(h) ==
  /\ h.student \in Students /\ h.rest \subseteq Students /\ h.out \subseteq MadeRows
  /\ h.enr \in Students \X (1 .. seq) /\ h.enr[1] = h.student

JobShape ==
  /\ \A h \in hashing : /\ h.kind \in {"event", "key"} /\ h.of \in Events /\ h.tok \in Positive
                        /\ h.kind = "key" => KeyJob(h)
  /\ handed \subseteq MadeRows

\* Tokens and ids that were given out.
Bounded ==
  /\ \A e \in Events, s \in Students : enrolled[e][s] <= seq
  /\ \A e \in Events, n \in 1 .. Names : keys[e][n] # None =>
       keys[e][n].tok <= seq /\ (keys[e][n].enr # None => keys[e][n].enr[2] <= seq)
  /\ \A h \in hashing : h.tok <= seq
  /\ \A e \in Events : Exists(e) => row[e].token <= seq

\* The tokens that somebody has or will have of a call.
Given == handed \cup UNION {h.out : h \in {j \in hashing : j.kind = "key"}}

Unused(t) ==
  /\ \A e \in Events, n \in 1 .. Names : keys[e][n] # None => keys[e][n].tok # t
  /\ \A e \in Events : Exists(e) => row[e].token # t
  /\ \A m \in Given : m.tok # t

\* A token that is being hashed is nobody's yet.
TokensFresh ==
  /\ \A g, h \in hashing : g.tok = h.tok => g = h
  /\ \A h \in hashing : Unused(h.tok)

\* A token that was made opens the keys of its student alone.
TokensApart ==
  \A m \in Given :
    /\ m.tok <= seq
    /\ \A e \in Events : Exists(e) => row[e].token # m.tok
    /\ \A e \in Events, n \in 1 .. Names :
         Active(e, n) /\ keys[e][n].tok = m.tok => e = m.of /\ keys[e][n].enr[1] = m.student

\* Of those that had the key e had it last, leaving aside those that have it.
HadLast(e, k) ==
  /\ <<e, e>> \in holders[k]
  /\ \A x \in holders[k] : <<x[1], e>> \in holders[k]

HasKey(e, k) == Exists(e) /\ row[e].slug = k

\* A key is one event's; a retired one leads to the event that had it last, should
\* the one that has it go.
GuideOf(k) ==
  /\ \A e, f \in Events : HasKey(e, k) /\ HasKey(f, k) => e = f
  /\ \A e \in Events : HasKey(e, k) => HadLast(e, k)
  /\ alias[k] # None =>
       /\ Exists(alias[k]) /\ <<alias[k], alias[k]>> \in holders[k]
       /\ \A x \in holders[k] : HasKey(x[1], k) \/ <<x[1], alias[k]>> \in holders[k]
GuideSound == \A k \in Keys : GuideOf(k)

IInv ==
  /\ RowShape /\ KeyShape /\ JobShape
  /\ Bounded /\ TokensFresh /\ TokensApart
  /\ ActiveKeysEnrolled /\ WindowOrdered /\ GuideSound

-----------------------------------------------------------------------------
(* What a step does to the catalog.                                         *)

\* Rows are edited, and keep their keys and windows.
Edited ==
  /\ row' \in [Events -> EventRows \cup {None}] /\ groups' \subseteq groups
  /\ UNCHANGED <<alias, holders>>
  /\ \A e \in Events :
       /\ Exists(e)' <=> Exists(e)
       /\ Exists(e) => /\ row'[e].slug = row[e].slug /\ row'[e].groups \subseteq groups'
                       /\ row'[e].starts = row[e].starts /\ row'[e].ends = row[e].ends

LEMMA RowTypes ==
  ASSUME RowShape, NEW e \in Events
  PROVE  /\ Exists(e) <=> row[e] \in EventRows
         /\ Exists(e) => row[e].groups \subseteq groups
BY CatalogAssumption DEF RowShape, Exists

\* One row is written anew.
LEMMA EditedRow ==
  ASSUME RowShape, NEW e \in Events, Exists(e), NEW r \in EventRows,
         r.slug = row[e].slug, r.groups = row[e].groups,
         r.starts = row[e].starts, r.ends = row[e].ends,
         row' = [row EXCEPT ![e] = r], UNCHANGED <<alias, groups, holders>>
  PROVE  Edited
<1>1. r # None
  BY CatalogAssumption
<1>2. /\ \A f \in Events : row'[f] = IF f = e THEN r ELSE row[f]
      /\ row' \in [Events -> EventRows \cup {None}]
  BY DEF RowShape
<1>3. QED
  BY <1>1, <1>2, RowTypes DEF Edited, Exists

LEMMA CatalogSteps ==
  ASSUME RowShape, JobShape, [Next]_vars
  PROVE  \/ Edited
         \/ \E e \in Events, k \in Keys, b \in Bodies : CreateEvent(e, k, b)
         \/ \E e \in Events, p \in Patches : UpdateEvent(e, p)
         \/ \E e \in Events : DeleteEvent(e)
<1>1. ASSUME UNCHANGED <<row, alias, groups, holders>> PROVE Edited
  BY <1>1, RowTypes DEF Edited, RowShape, Exists
<1>2. ASSUME NEW e \in Events, NEW k \in Keys \cup {None}, SetPublishKey(e, k) PROVE Edited
  <2> DEFINE r == [row[e] EXCEPT !.key = k]
  <2>1. Exists(e) /\ row[e] \in EventRows
    BY <1>2, RowTypes DEF SetPublishKey
  <2>2. /\ r \in EventRows /\ r.slug = row[e].slug /\ r.groups = row[e].groups
        /\ r.starts = row[e].starts /\ r.ends = row[e].ends
    BY <2>1 DEF EventRows
  <2>3. row' = [row EXCEPT ![e] = r] /\ UNCHANGED <<alias, groups, holders>>
    BY <1>2 DEF SetPublishKey, RowShape, histVars
  <2> HIDE DEF r
  <2>4. QED
    BY <2>1, <2>2, <2>3, EditedRow
<1>3. ASSUME NEW e \in Events, NEW t \in Nat, Exists(e), row' = [row EXCEPT ![e].token = t],
             UNCHANGED <<alias, groups, holders>>
      PROVE  Edited
  <2> DEFINE r == [row[e] EXCEPT !.token = t]
  <2>1. row[e] \in EventRows
    BY <1>3, RowTypes
  <2>2. /\ r \in EventRows /\ r.slug = row[e].slug /\ r.groups = row[e].groups
        /\ r.starts = row[e].starts /\ r.ends = row[e].ends
    BY <2>1 DEF EventRows
  <2>3. row' = [row EXCEPT ![e] = r]
    BY <1>3 DEF RowShape
  <2> HIDE DEF r
  <2>4. QED
    BY <1>3, <2>2, <2>3, EditedRow
<1>4. ASSUME NEW e \in Events, ClearPublishToken(e) PROVE Edited
  BY <1>3, <1>4 DEF ClearPublishToken, histVars
<1>5. ASSUME NEW h \in hashing, TokenHashed(h) PROVE Edited
  <2>1. h.of \in Events /\ h.tok \in Nat
    BY DEF JobShape, Positive
  <2>2. CASE Exists(h.of)
    BY <1>3, <1>5, <2>1, <2>2 DEF TokenHashed, histVars
  <2>3. CASE ~Exists(h.of)
    BY <1>1, <1>5, <2>3 DEF TokenHashed, histVars
  <2>4. QED
    BY <2>2, <2>3
<1>6. ASSUME NEW g \in Groups, DeleteGroup(g) PROVE Edited
  <2>1. /\ groups' = groups \ {g} /\ UNCHANGED <<alias, holders>>
        /\ row' = [e \in Events |-> IF Exists(e) THEN [row[e] EXCEPT !.groups = @ \ {g}]
                                    ELSE None]
    BY <1>6 DEF DeleteGroup, histVars
  <2>2. ASSUME NEW e \in Events, Exists(e)
        PROVE  /\ row'[e] \in EventRows /\ row'[e].slug = row[e].slug
               /\ row'[e].starts = row[e].starts /\ row'[e].ends = row[e].ends
               /\ row'[e].groups = row[e].groups \ {g}
    <3>1. row[e] \in EventRows /\ row'[e] = [row[e] EXCEPT !.groups = @ \ {g}]
      BY <2>1, <2>2, RowTypes
    <3>2. QED
      BY <3>1 DEF EventRows
  <2>3. \A e \in Events : ~Exists(e) => row'[e] = None
    BY <2>1
  <2>4. row' \in [Events -> EventRows \cup {None}]
    BY <2>1, <2>2, <2>3
  <2>5. \A e \in Events : Exists(e) <=> Exists(e)'
    BY <2>2, <2>3, CatalogAssumption DEF Exists
  <2>6. QED
    BY <2>1, <2>2, <2>4, <2>5, RowTypes DEF Edited
<1>7. CASE RunLifecycle
  <2>1. /\ UNCHANGED <<alias, groups, holders>>
        /\ row' = [e \in Events |-> IF Exists(e) THEN [row[e] EXCEPT !.status = Aged(row[e])]
                                    ELSE None]
    BY <1>7 DEF RunLifecycle, histVars
  <2>2. ASSUME NEW e \in Events, Exists(e)
        PROVE  /\ row'[e] \in EventRows /\ row'[e].slug = row[e].slug
               /\ row'[e].starts = row[e].starts /\ row'[e].ends = row[e].ends
               /\ row'[e].groups = row[e].groups
    <3>1. row[e] \in EventRows /\ row'[e] = [row[e] EXCEPT !.status = Aged(row[e])]
      BY <2>1, <2>2, RowTypes
    <3>2. Aged(row[e]) \in Statuses
      BY <3>1 DEF Aged, Statuses, EventRows
    <3>3. QED
      BY <3>1, <3>2 DEF EventRows
  <2>3. \A e \in Events : ~Exists(e) => row'[e] = None
    BY <2>1
  <2>4. row' \in [Events -> EventRows \cup {None}]
    BY <2>1, <2>2, <2>3
  <2>5. \A e \in Events : Exists(e) <=> Exists(e)'
    BY <2>2, <2>3, CatalogAssumption DEF Exists
  <2>6. QED
    BY <2>1, <2>2, <2>4, <2>5, RowTypes DEF Edited
<1>8. ASSUME NEW e \in Events,
             \/ RotatePublishToken(e)
             \/ \E S \in SUBSET Students \ {{}} : ImportRoster(e, S)
             \/ \E s \in Students : RemoveEnrollment(e, s) \/ GenerateKey(e, s)
             \/ GenerateUnkeyed(e) \/ \E n \in 1 .. Names : RevokeKey(e, n)
      PROVE  UNCHANGED <<row, alias, groups, holders>>
  BY <1>8 DEF RotatePublishToken, ImportRoster, RemoveEnrollment, GenerateKey, GenerateUnkeyed,
     RevokeKey, catalogVars, histVars
<1>9. \A h \in hashing : KeyHashed(h) => UNCHANGED <<row, alias, groups, holders>>
  BY DEF KeyHashed, catalogVars
<1>10. Tick \/ UNCHANGED vars => UNCHANGED <<row, alias, groups, holders>>
  BY DEF Tick, vars, catalogVars, histVars
<1>11. ASSUME NEW e \in Events, Admin(e)
       PROVE  \/ Edited
              \/ \E k \in Keys, b \in Bodies : CreateEvent(e, k, b)
              \/ \E p \in Patches : UpdateEvent(e, p)
              \/ DeleteEvent(e)
  BY <1>1, <1>2, <1>4, <1>8, <1>11 DEF Admin, ClearPublishKey
<1>12. QED
  BY <1>1, <1>5, <1>6, <1>7, <1>9, <1>10, <1>11 DEF Next

\* The row that a creation writes.
LEMMA CreatedRow ==
  ASSUME RowShape, NEW e \in Events, NEW k \in Keys, NEW b \in Bodies, CreateEvent(e, k, b)
  PROVE  \E r \in EventRows :
           /\ row' = [row EXCEPT ![e] = r] /\ ~Exists(e)
           /\ r.slug = k /\ r.groups \subseteq groups /\ r.token = 0
           /\ r.starts # None /\ r.ends # None => r.starts < r.ends
<1> DEFINE r == [slug |-> k, key |-> k, token |-> 0, starts |-> b.starts, ends |-> b.ends,
                 status |-> b.status, groups |-> SetEventGroups(b.groups)]
<1>1. /\ b.starts \in Times \cup {None} /\ b.ends \in Times \cup {None}
      /\ b.status \in Statuses /\ b.groups \subseteq Groups
  BY CatalogAssumption
<1>2. SetEventGroups(b.groups) \subseteq groups /\ groups \subseteq Groups
  BY DEF SetEventGroups, RowShape
<1>3. /\ r \in EventRows /\ r.slug = k /\ r.groups \subseteq groups /\ r.token = 0
      /\ r.starts = b.starts /\ r.ends = b.ends
  BY <1>1, <1>2 DEF EventRows
<1>4. /\ row' = [row EXCEPT ![e] = r] /\ ~Exists(e)
      /\ b.starts # None /\ b.ends # None => b.starts < b.ends
  BY DEF CreateEvent, WindowAllowed
<1> HIDE DEF r
<1>5. QED
  BY <1>3, <1>4

\* The row that a patch writes.
LEMMA PatchedRow ==
  ASSUME RowShape, WindowOrdered, NEW e \in Events, NEW p \in Patches, UpdateEvent(e, p)
  PROVE  \E r \in EventRows :
           /\ row' = [row EXCEPT ![e] = r] /\ Exists(e)
           /\ r.slug = Patched(p.slug, row[e].slug) /\ r.groups \subseteq groups
           /\ r.token = row[e].token
           /\ r.starts # None /\ r.ends # None => r.starts < r.ends
<1> DEFINE old == row[e]
           slug == Patched(p.slug, old.slug)
           status == Patched(p.status, old.status)
           starts == Patched(p.starts, old.starts)
           ends == Patched(p.ends, old.ends)
           key == IF slug = old.slug THEN old.key ELSE slug
           G == IF p.groups = Keep THEN old.groups ELSE SetEventGroups(p.groups)
           r == [old EXCEPT !.slug = slug, !.key = key, !.status = status, !.starts = starts,
                            !.ends = ends, !.groups = G]
<1>1. Exists(e) /\ old \in EventRows /\ old.groups \subseteq groups
  BY RowTypes DEF UpdateEvent
<1>2. row' = [row EXCEPT ![e] = r]
  BY DEF UpdateEvent
<1>3. /\ slug \in Keys /\ status \in Statuses /\ key \in Keys \cup {None}
      /\ starts \in Times \cup {None} /\ ends \in Times \cup {None}
  BY <1>1, CatalogAssumption DEF Patched, EventRows
<1>4. G \subseteq groups /\ groups \subseteq Groups
  BY <1>1 DEF SetEventGroups, RowShape
<1>5. starts # None /\ ends # None => starts < ends
  <2>1. /\ Checked(p.starts, old.starts) # None /\ Checked(p.ends, old.ends) # None
           => Checked(p.starts, old.starts) < Checked(p.ends, old.ends)
    BY DEF UpdateEvent, WindowAllowed
  <2>2. /\ starts # None => Checked(p.starts, old.starts) = starts
        /\ ends # None => Checked(p.ends, old.ends) = ends
    BY DEF Checked, Patched
  <2>3. QED
    BY <2>1, <2>2
<1> HIDE DEF old, slug, status, starts, ends, key, G
<1>6. /\ r \in EventRows /\ r.slug = slug /\ r.groups = G /\ r.token = old.token
      /\ r.starts = starts /\ r.ends = ends
  BY <1>1, <1>3, <1>4 DEF EventRows
<1> HIDE DEF r
<1>7. QED
  BY <1>1, <1>2, <1>4, <1>5, <1>6 DEF slug, old

LEMMA RowShapeStep ==
  ASSUME RowShape, JobShape, WindowOrdered, [Next]_vars
  PROVE  RowShape' /\ WindowOrdered'
<1>1. CASE Edited
  <2>1. RowShape'
    <3>1. groups' \subseteq Groups
      BY <1>1 DEF Edited, RowShape
    <3>2. QED
      BY <1>1, <3>1 DEF Edited, RowShape
  <2>2. WindowOrdered'
    BY <1>1 DEF Edited, WindowOrdered
  <2>3. QED
    BY <2>1, <2>2
\* One row is written, of this key or of another that is not taken.
<1>2. ASSUME NEW e \in Events, NEW r \in EventRows, row' = [row EXCEPT ![e] = r],
             r.groups \subseteq groups, r.starts # None /\ r.ends # None => r.starts < r.ends,
             alias' \in [Keys -> Events \cup {None}], groups' = groups,
             holders' \in [Keys -> SUBSET (Events \X Events)]
      PROVE  RowShape' /\ WindowOrdered'
  <2>1. /\ \A f \in Events : row'[f] = IF f = e THEN r ELSE row[f]
        /\ row' \in [Events -> EventRows \cup {None}]
    BY <1>2 DEF RowShape
  <2>2. \A f \in Events : f # e => (Exists(f)' <=> Exists(f))
    BY <2>1 DEF Exists
  <2>3. QED
    BY <1>2, <2>1, <2>2 DEF RowShape, WindowOrdered
<1>3. ASSUME NEW e \in Events, NEW k \in Keys, Holds(e, k)
      PROVE  holders' \in [Keys -> SUBSET (Events \X Events)]
  <2>1. AsLatest(e, Without(e, holders[k])) \subseteq Events \X Events
    BY DEF AsLatest, Without, RowShape
  <2>2. holders' = [holders EXCEPT ![k] = AsLatest(e, Without(e, holders[k]))]
    BY <1>3 DEF Holds
  <2>3. QED
    BY <2>1, <2>2 DEF RowShape
<1>4. ASSUME NEW e \in Events, NEW k \in Keys, NEW b \in Bodies, CreateEvent(e, k, b)
      PROVE  RowShape' /\ WindowOrdered'
  <2>1. Holds(e, k) /\ groups' = groups /\ alias' \in [Keys -> Events \cup {None}]
    BY <1>4 DEF CreateEvent, RowShape
  <2>2. QED
    BY <1>2, <1>3, <1>4, <2>1, CreatedRow
<1>5. ASSUME NEW e \in Events, NEW p \in Patches, UpdateEvent(e, p)
      PROVE  RowShape' /\ WindowOrdered'
  <2> DEFINE slug == Patched(p.slug, row[e].slug)
  <2>1. slug \in Keys /\ row[e].slug \in Keys
    BY <1>5, RowTypes, CatalogAssumption DEF UpdateEvent, Patched, EventRows
  <2>2. /\ groups' = groups
        /\ \/ alias' = alias /\ holders' = holders
           \/ alias' = Retire(row[e].slug, slug, e) /\ Holds(e, slug)
    BY <1>5 DEF UpdateEvent
  <2>3. Retire(row[e].slug, slug, e) \in [Keys -> Events \cup {None}]
    BY <2>1 DEF Retire, RowShape
  <2>4. /\ alias' \in [Keys -> Events \cup {None}]
        /\ holders' \in [Keys -> SUBSET (Events \X Events)]
    BY <1>3, <2>1, <2>2, <2>3 DEF RowShape
  <2>5. QED
    BY <1>2, <1>5, <2>2, <2>4, PatchedRow
<1>6. ASSUME NEW e \in Events, DeleteEvent(e) PROVE RowShape' /\ WindowOrdered'
  <2>1. /\ row' = [row EXCEPT ![e] = None] /\ groups' = groups
        /\ alias' = [k \in Keys |-> IF alias[k] = e THEN None ELSE alias[k]]
        /\ holders' = [k \in Keys |-> Without(e, holders[k])]
    BY <1>6 DEF DeleteEvent
  <2>2. /\ \A f \in Events : Exists(f)' => Exists(f) /\ row'[f] = row[f]
        /\ row' \in [Events -> EventRows \cup {None}]
    BY <2>1 DEF Exists, RowShape
  <2>3. /\ alias' \in [Keys -> Events \cup {None}]
        /\ holders' \in [Keys -> SUBSET (Events \X Events)]
    BY <2>1 DEF Without, RowShape
  <2>4. QED
    BY <2>1, <2>2, <2>3 DEF RowShape, WindowOrdered
<1>7. QED
  BY <1>1, <1>4, <1>5, <1>6, CatalogSteps

-----------------------------------------------------------------------------
(* Guide links.                                                             *)

\* Whoever had a key last, of those that are left, still did when one is gone.
LEMMA WithoutFacts ==
  ASSUME NEW H, NEW e, NEW g, g # e, <<g, g>> \in H
  PROVE  /\ <<g, g>> \in Without(e, H)
         /\ \A x \in Without(e, H) : x \in H /\ x[1] # e
         /\ \A x \in Without(e, H) : <<x[1], g>> \in H => <<x[1], g>> \in Without(e, H)
BY DEF Without

LEMMA LatestFacts ==
  ASSUME NEW H, NEW e
  PROVE  /\ <<e, e>> \in AsLatest(e, H)
         /\ \A x \in AsLatest(e, H) : <<x[1], e>> \in AsLatest(e, H)
         /\ \A x \in AsLatest(e, H) : x[1] = e \/ \E y \in H : y[1] = x[1]
         /\ H \subseteq AsLatest(e, H)
BY DEF AsLatest

\* A guide reads what it did: the key is of the same events, its alias is still there.
LEMMA GuideKept ==
  ASSUME RowShape, NEW k \in Keys, GuideOf(k), alias'[k] = alias[k], holders'[k] = holders[k],
         \A e \in Events : HasKey(e, k)' <=> HasKey(e, k),
         \A e \in Events : e = alias[k] /\ Exists(e) => Exists(e)'
  PROVE  GuideOf(k)'
<1>1. /\ \A e, f \in Events : HasKey(e, k)' /\ HasKey(f, k)' => e = f
      /\ \A e \in Events : HasKey(e, k)' => HadLast(e, k)'
  BY DEF GuideOf, HadLast
<1>2. ASSUME alias[k] # None
      PROVE  /\ (Exists(alias[k]) /\ <<alias[k], alias[k]>> \in holders[k])'
             /\ \A x \in holders'[k] : HasKey(x[1], k)' \/ <<x[1], alias'[k]>> \in holders'[k]
  <2>1. PICK a \in Events : a = alias[k] /\ Exists(a) /\ <<a, a>> \in holders[k]
    BY <1>2 DEF GuideOf, RowShape
  <2>2. Exists(a)' /\ alias'[k] = a
    BY <2>1
  <2>3. Exists(alias[k])'
    BY <2>2 DEF Exists
  <2>4. ASSUME NEW x \in holders[k] PROVE HasKey(x[1], k)' \/ <<x[1], a>> \in holders[k]
    <3>1. x[1] \in Events
      BY DEF RowShape
    <3>2. HasKey(x[1], k) \/ <<x[1], a>> \in holders[k]
      BY <1>2, <2>1 DEF GuideOf
    <3>3. QED
      BY <3>1, <3>2
  <2>5. QED
    BY <2>1, <2>2, <2>3, <2>4
<1>3. QED
  BY <1>1, <1>2 DEF GuideOf

\* A key that an event takes, when no other has it.
LEMMA GuideTaken ==
  ASSUME RowShape, NEW k \in Keys, GuideOf(k), NEW e \in Events,
         \A f \in Events : ~HasKey(f, k),
         \A f \in Events : HasKey(f, k)' <=> f = e,
         holders'[k] = AsLatest(e, Without(e, holders[k])),
         \/ alias'[k] = None
         \/ /\ alias'[k] = alias[k] /\ ~Exists(e)
            /\ \A f \in Events : Exists(f) => Exists(f)'
  PROVE  GuideOf(k)'
<1>1. \A f, g \in Events : HasKey(f, k)' /\ HasKey(g, k)' => f = g
  OBVIOUS
<1>2. HadLast(e, k)'
  BY LatestFacts DEF HadLast
<1>3. ASSUME alias'[k] # None
      PROVE  /\ (Exists(alias[k]) /\ <<alias[k], alias[k]>> \in holders[k])'
             /\ \A x \in holders'[k] : HasKey(x[1], k)' \/ <<x[1], alias'[k]>> \in holders'[k]
  <2>1. PICK a \in Events : a = alias[k] /\ Exists(a) /\ <<a, a>> \in holders[k] /\ a # e
    BY <1>3 DEF GuideOf, RowShape
  <2>2. alias'[k] = a /\ Exists(a)'
    BY <1>3, <2>1
  <2>3. Exists(alias[k])'
    BY <2>2 DEF Exists
  <2>4. /\ <<a, a>> \in Without(e, holders[k])
        /\ \A x \in Without(e, holders[k]) : x \in holders[k] /\ x[1] # e
        /\ \A x \in Without(e, holders[k]) :
             <<x[1], a>> \in holders[k] => <<x[1], a>> \in Without(e, holders[k])
    BY <2>1, WithoutFacts
  <2>5. \A x \in holders[k] : <<x[1], a>> \in holders[k]
    <3>1. \A x \in holders[k] : x[1] \in Events
      BY DEF RowShape
    <3>2. alias[k] # None
      BY <1>3
    <3>3. QED
      BY <2>1, <3>1, <3>2 DEF GuideOf
  <2> DEFINE W == Without(e, holders[k])
             L == AsLatest(e, W)
  <2>6. (\A x \in L : x[1] = e \/ \E y \in W : y[1] = x[1]) /\ W \subseteq L
    BY LatestFacts
  <2> HIDE DEF W, L
  <2>7. holders'[k] = L
    BY DEF L, W
  <2>8. ASSUME NEW x \in holders'[k] PROVE HasKey(x[1], k)' \/ <<x[1], a>> \in holders'[k]
    <3>1. x[1] = e \/ \E y \in W : y[1] = x[1]
      BY <2>8, <2>6, <2>7
    <3>2. CASE x[1] = e
      BY <3>2
    <3>3. ASSUME NEW y \in W, y[1] = x[1] PROVE <<x[1], a>> \in holders'[k]
      <4>1. <<y[1], a>> \in W
        BY <2>4, <2>5, <3>3 DEF W
      <4>2. QED
        BY <2>6, <2>7, <3>3, <4>1
    <3>4. QED
      BY <3>1, <3>2, <3>3
  <2>9. <<a, a>> \in holders'[k]
    BY <2>4, <2>6, <2>7 DEF W
  <2>10. QED
    BY <2>2, <2>3, <2>8, <2>9
<1>4. QED
  BY <1>1, <1>2, <1>3 DEF GuideOf

\* A key whose event goes.
LEMMA GuideLeft ==
  ASSUME RowShape, NEW k \in Keys, GuideOf(k), NEW e \in Events,
         \A f \in Events : HasKey(f, k)' <=> HasKey(f, k) /\ f # e,
         \A f \in Events : f # e /\ Exists(f) => Exists(f)',
         holders'[k] = Without(e, holders[k]),
         alias'[k] = IF alias[k] = e THEN None ELSE alias[k]
  PROVE  GuideOf(k)'
<1>1. \A x \in holders[k] : x[1] \in Events
  BY DEF RowShape
<1>2. /\ \A f, g \in Events : HasKey(f, k) /\ HasKey(g, k) => f = g
      /\ \A f \in Events : HasKey(f, k) => HadLast(f, k)
  BY DEF GuideOf
<1>3. ASSUME NEW f \in Events, HasKey(f, k)' PROVE HadLast(f, k)'
  BY <1>2, <1>3, WithoutFacts DEF HadLast
<1>4. ASSUME alias'[k] # None
      PROVE  /\ (Exists(alias[k]) /\ <<alias[k], alias[k]>> \in holders[k])'
             /\ \A x \in holders'[k] : HasKey(x[1], k)' \/ <<x[1], alias'[k]>> \in holders'[k]
  <2>1. PICK a \in Events : /\ a = alias[k] /\ Exists(a) /\ <<a, a>> \in holders[k] /\ a # e
                            /\ alias[k] # None
    BY <1>4 DEF GuideOf, RowShape
  <2>2. alias'[k] = a /\ Exists(a)'
    BY <2>1
  <2>3. Exists(alias[k])'
    BY <2>2 DEF Exists
  <2>4. /\ <<a, a>> \in Without(e, holders[k])
        /\ \A x \in Without(e, holders[k]) : x \in holders[k] /\ x[1] # e
        /\ \A x \in Without(e, holders[k]) :
             <<x[1], a>> \in holders[k] => <<x[1], a>> \in Without(e, holders[k])
    BY <2>1, WithoutFacts
  <2>5. ASSUME NEW x \in Without(e, holders[k])
        PROVE  HasKey(x[1], k)' \/ <<x[1], a>> \in Without(e, holders[k])
    <3>1. HasKey(x[1], k) \/ <<x[1], a>> \in holders[k]
      BY <2>1, <2>4 DEF GuideOf
    <3>2. x[1] \in Events /\ x[1] # e
      BY <1>1, <2>4
    <3>3. QED
      BY <2>4, <3>1, <3>2
  <2>6. QED
    BY <2>2, <2>3, <2>4, <2>5
<1>5. QED
  BY <1>2, <1>3, <1>4 DEF GuideOf

LEMMA GuideSoundStep ==
  ASSUME RowShape, JobShape, WindowOrdered, GuideSound, [Next]_vars
  PROVE  GuideSound'
<1>1. \A k \in Keys : GuideOf(k)
  BY DEF GuideSound
<1>2. SUFFICES ASSUME NEW k \in Keys PROVE GuideOf(k)'
  BY DEF GuideSound
<1>3. CASE Edited
  <2>1. /\ \A e \in Events : Exists(e)' <=> Exists(e)
        /\ \A e \in Events : HasKey(e, k)' <=> HasKey(e, k)
        /\ alias' = alias /\ holders' = holders
    BY <1>3 DEF Edited, HasKey
  <2>2. QED
    BY <1>1, <2>1, GuideKept
<1>4. ASSUME NEW e \in Events, NEW j \in Keys, NEW b \in Bodies, CreateEvent(e, j, b)
      PROVE  GuideOf(k)'
  <2>1. PICK r \in EventRows : row' = [row EXCEPT ![e] = r] /\ ~Exists(e) /\ r.slug = j
    BY <1>4, CreatedRow
  <2>2. r # None
    BY CatalogAssumption
  <2>3. \A f \in Events : row'[f] = IF f = e THEN r ELSE row[f]
    BY <2>1 DEF RowShape
  <2>4. /\ \A f \in Events : Exists(f) => Exists(f)'
        /\ \A f \in Events : HasKey(f, k)' <=> (IF f = e THEN k = j ELSE HasKey(f, k))
    BY <2>1, <2>2, <2>3 DEF Exists, HasKey
  <2>5. /\ Free(j, e) /\ holders' = [holders EXCEPT ![j] = AsLatest(e, Without(e, holders[j]))]
        /\ \/ alias' = alias
           \/ alias' = [alias EXCEPT ![j] = None]
    BY <1>4 DEF CreateEvent, Holds
  <2>6. CASE k = j
    <3>1. \A f \in Events : ~HasKey(f, k)
      BY <2>1, <2>5, <2>6 DEF Free, HasKey
    <3>2. \A f \in Events : HasKey(f, k)' <=> f = e
      BY <2>4, <2>6, <3>1
    <3>3. holders'[k] = AsLatest(e, Without(e, holders[k])) /\ alias'[k] \in {None, alias[k]}
      BY <2>5, <2>6 DEF RowShape
    <3>4. QED
      BY <1>1, <2>1, <2>4, <3>1, <3>2, <3>3, GuideTaken
  <2>7. CASE k # j
    <3>1. \A f \in Events : HasKey(f, k)' <=> HasKey(f, k)
      BY <2>1, <2>4, <2>7 DEF HasKey
    <3>2. alias'[k] = alias[k] /\ holders'[k] = holders[k]
      BY <2>5, <2>7 DEF RowShape
    <3>3. QED
      BY <1>1, <2>4, <3>1, <3>2, GuideKept
  <2>8. QED
    BY <2>6, <2>7
<1>5. ASSUME NEW e \in Events, NEW p \in Patches, UpdateEvent(e, p) PROVE GuideOf(k)'
  <2> DEFINE slug == Patched(p.slug, row[e].slug)
             was == row[e].slug
  <2>1. PICK r \in EventRows : row' = [row EXCEPT ![e] = r] /\ Exists(e) /\ r.slug = slug
    BY <1>5, PatchedRow
  <2>2. r # None
    BY CatalogAssumption
  <2>3. \A f \in Events : row'[f] = IF f = e THEN r ELSE row[f]
    BY <2>1 DEF RowShape
  <2>4. /\ slug # was => Free(slug, e)
        /\ IF slug = was
           THEN alias' = alias /\ holders' = holders
           ELSE /\ alias' = [alias EXCEPT ![was] = e, ![slug] = None]
                /\ holders' = [holders EXCEPT ![slug] = AsLatest(e, Without(e, holders[slug]))]
    BY <1>5 DEF UpdateEvent, Retire, Holds
  <2>5. HasKey(e, was) /\ was \in Keys
    BY <2>1, RowTypes DEF HasKey, EventRows
  <2> HIDE DEF slug, was
  <2>6. /\ \A f \in Events : Exists(f)' <=> Exists(f)
        /\ \A f \in Events : HasKey(f, k)' <=> (IF f = e THEN k = slug ELSE HasKey(f, k))
    BY <2>1, <2>2, <2>3 DEF Exists, HasKey
  <2>7. HasKey(e, k) <=> k = was
    BY <2>1 DEF HasKey, was
  <2>8. CASE slug = was
    <3>1. \A f \in Events : HasKey(f, k)' <=> HasKey(f, k)
      BY <2>6, <2>7, <2>8
    <3>2. alias'[k] = alias[k] /\ holders'[k] = holders[k]
      BY <2>4, <2>8
    <3>3. QED
      BY <1>1, <2>6, <3>1, <3>2, GuideKept
  <2>9. CASE slug # was /\ k = slug
    <3>1. \A f \in Events : ~HasKey(f, k)
      BY <2>4, <2>7, <2>9 DEF Free, HasKey
    <3>2. \A f \in Events : HasKey(f, k)' <=> f = e
      BY <2>6, <2>9, <3>1
    <3>3. holders'[k] = AsLatest(e, Without(e, holders[k])) /\ alias'[k] = None
      BY <2>4, <2>9 DEF RowShape
    <3>4. QED
      BY <1>1, <3>1, <3>2, <3>3, GuideTaken
  <2>10. CASE slug # was /\ k = was
    <3>1. \A f \in Events : HasKey(f, k) => f = e
      BY <1>1, <2>7, <2>10 DEF GuideOf
    <3>2. \A f \in Events : ~HasKey(f, k)'
      BY <2>6, <2>10, <3>1
    <3>3. alias'[k] = e /\ holders'[k] = holders[k]
      BY <2>4, <2>10 DEF RowShape
    <3>4. HadLast(e, k)
      BY <1>1, <2>7, <2>10 DEF GuideOf
    <3>5. Exists(e)'
      BY <2>1, <2>6
    <3>6. Exists(alias[k])'
      BY <3>3, <3>5 DEF Exists
    <3>7. QED
      BY <3>2, <3>3, <3>4, <3>6 DEF GuideOf, HadLast
  <2>11. CASE k # slug /\ k # was
    <3>1. \A f \in Events : HasKey(f, k)' <=> HasKey(f, k)
      BY <2>6, <2>7, <2>11
    <3>2. alias'[k] = alias[k] /\ holders'[k] = holders[k]
      BY <2>4, <2>11 DEF RowShape
    <3>3. QED
      BY <1>1, <2>6, <3>1, <3>2, GuideKept
  <2>12. QED
    BY <2>8, <2>9, <2>10, <2>11
<1>6. ASSUME NEW e \in Events, DeleteEvent(e) PROVE GuideOf(k)'
  <2>1. /\ row' = [row EXCEPT ![e] = None]
        /\ alias'[k] = IF alias[k] = e THEN None ELSE alias[k]
        /\ holders'[k] = Without(e, holders[k])
    BY <1>6 DEF DeleteEvent
  <2>2. \A f \in Events : row'[f] = IF f = e THEN None ELSE row[f]
    BY <2>1 DEF RowShape
  <2>3. /\ \A f \in Events : f # e /\ Exists(f) => Exists(f)'
        /\ \A f \in Events : HasKey(f, k)' <=> HasKey(f, k) /\ f # e
    BY <2>2 DEF Exists, HasKey
  <2>4. QED
    BY <1>1, <2>1, <2>3, GuideLeft
<1>7. QED
  BY <1>3, <1>4, <1>5, <1>6, CatalogSteps

-----------------------------------------------------------------------------
(* Rosters, keys and tokens.                                                *)

LEMMA KeySteps ==
  ASSUME [Next]_vars
  PROVE  \/ UNCHANGED <<enrolled, keys, hashing, seq, handed>>
         \/ \E e \in Events : DeleteEvent(e) \/ RotatePublishToken(e)
         \/ \E h \in hashing : TokenHashed(h) \/ KeyHashed(h)
         \/ \E e \in Events, S \in SUBSET Students : ImportRoster(e, S)
         \/ \E e \in Events, s \in Students : RemoveEnrollment(e, s)
         \/ \E e \in Events, n \in 1 .. Names : RevokeKey(e, n)
         \/ \E e \in Events, s \in Students, rest \in SUBSET Students :
              BeginKey(e, s, keys, rest, {}, hashing) /\ UNCHANGED <<keys, handed>>
<1> DEFINE Same == UNCHANGED <<enrolled, keys, hashing, seq, handed>>
           Starts == \E e \in Events, s \in Students, rest \in SUBSET Students :
                       BeginKey(e, s, keys, rest, {}, hashing) /\ UNCHANGED <<keys, handed>>
<1>1. ASSUME NEW e \in Events, NEW s \in Students, GenerateKey(e, s) PROVE Starts
  BY <1>1 DEF GenerateKey, histVars
<1>2. ASSUME NEW e \in Events, GenerateUnkeyed(e) PROVE Starts
  <2>1. PICK s \in Unkeyed(e) : BeginKey(e, s, keys, Unkeyed(e) \ {s}, {}, hashing)
    BY <1>2 DEF GenerateUnkeyed
  <2>2. s \in Students /\ Unkeyed(e) \ {s} \in SUBSET Students
    BY DEF Unkeyed
  <2>3. UNCHANGED <<keys, handed>>
    BY <1>2 DEF GenerateUnkeyed, histVars
  <2>4. QED
    BY <2>1, <2>2, <2>3
<1>3. ASSUME NEW e \in Events,
             \/ \E k \in Keys, b \in Bodies : CreateEvent(e, k, b)
             \/ \E p \in Patches : UpdateEvent(e, p)
             \/ \E k : SetPublishKey(e, k)
             \/ ClearPublishToken(e)
      PROVE  Same
  BY <1>3 DEF CreateEvent, UpdateEvent, SetPublishKey, ClearPublishToken, keyVars, histVars
<1>4. \/ \E g \in Groups : DeleteGroup(g)
      \/ RunLifecycle \/ Tick \/ UNCHANGED vars
      => Same
  BY DEF DeleteGroup, RunLifecycle, Tick, vars, keyVars, histVars
<1> HIDE DEF Same, Starts
<1>5. \/ Same \/ Starts
      \/ \E e \in Events : DeleteEvent(e) \/ RotatePublishToken(e)
      \/ \E h \in hashing : TokenHashed(h) \/ KeyHashed(h)
      \/ \E e \in Events, S \in SUBSET Students : ImportRoster(e, S)
      \/ \E e \in Events, s \in Students : RemoveEnrollment(e, s)
      \/ \E e \in Events, n \in 1 .. Names : RevokeKey(e, n)
  BY <1>1, <1>2, <1>3, <1>4 DEF Next, Admin, ClearPublishKey
<1>6. QED
  BY <1>5 DEF Same, Starts

\* An enrollment that is there stays as it is, and one that is made has a new id.
LEMMA EnrolFacts ==
  ASSUME KeyShape, NEW e \in Events, NEW S \in SUBSET Students
  PROVE  /\ Enrol(e, S) \in Rosters
         /\ \A f \in Events, s \in Students :
              /\ enrolled[f][s] # 0 => Enrol(e, S)[f][s] = enrolled[f][s]
              /\ Enrol(e, S)[f][s] \in {enrolled[f][s], seq + 1}
         /\ \A s \in S : Enrol(e, S)[e][s] # 0
<1> DEFINE R == [s \in Students |-> IF s \in S /\ enrolled[e][s] = 0 THEN seq + 1
                                    ELSE enrolled[e][s]]
<1>1. enrolled \in [Events -> [Students -> Nat]] /\ seq \in Nat
  BY DEF KeyShape, Rosters
<1>2. /\ R \in [Students -> Nat]
      /\ \A s \in Students : /\ enrolled[e][s] # 0 => R[s] = enrolled[e][s]
                             /\ R[s] \in {enrolled[e][s], seq + 1}
                             /\ s \in S => R[s] # 0
  BY <1>1
<1>3. Enrol(e, S) = [enrolled EXCEPT ![e] = R]
  BY DEF Enrol
<1> HIDE DEF R
<1>4. QED
  BY <1>1, <1>2, <1>3 DEF Rosters

\* What the making of a key begins with.
LEMMA BeginFacts ==
  ASSUME KeyShape, NEW e \in Events, NEW s \in Students, NEW K, NEW rest \in SUBSET Students,
         NEW out, NEW jobs, BeginKey(e, s, K, rest, out, jobs),
         \A f \in Events, t \in Students : enrolled[f][t] <= seq
  PROVE  \E h : /\ hashing' = jobs \cup {h} /\ seq' = seq + 2
                /\ enrolled' = Enrol(e, {s})
                /\ h.kind = "key" /\ h.of = e /\ h.tok = seq + 2 /\ h.student = s
                /\ h.rest = rest /\ h.out = out
                /\ h.enr \in Students \X (1 .. seq + 1) /\ h.enr[1] = s
<1> DEFINE E == Enrol(e, {s})
           h == Job(e, s, E, K, rest, out)
<1>1. hashing' = jobs \cup {h} /\ seq' = seq + 2 /\ enrolled' = E
  BY DEF BeginKey
<1>2. E \in Rosters /\ E[e][s] # 0 /\ E[e][s] \in {enrolled[e][s], seq + 1}
  BY EnrolFacts
<1>3. E[e][s] \in 1 .. seq + 1
  <2>1. /\ E[e][s] \in Nat /\ seq \in Nat /\ enrolled[e][s] \in Nat
        /\ enrolled[e][s] <= seq
    BY <1>2 DEF KeyShape, Rosters
  <2>2. QED
    BY <1>2, <2>1
<1>4. /\ h.kind = "key" /\ h.of = e /\ h.tok = seq + 2 /\ h.student = s
      /\ h.rest = rest /\ h.out = out /\ h.enr = <<s, E[e][s]>>
  BY DEF Job, Enrollment
<1> HIDE DEF E, h
<1>5. h.enr \in Students \X (1 .. seq + 1) /\ h.enr[1] = s
  BY <1>3, <1>4
<1>6. QED
  BY <1>1, <1>4, <1>5 DEF E

\* The key that is made: no other changes.
LEMMA IssueFacts ==
  ASSUME KeyShape, NEW h, h.of \in Events, h.tok \in Positive,
         h.enr \in Students \X Positive
  PROVE  /\ Issue(h) \in Tables
         /\ \A e \in Events, n \in 1 .. Names :
              \/ Issue(h)[e][n] = keys[e][n]
              \/ /\ e = h.of /\ Issue(h)[e][n].enr = h.enr /\ Issue(h)[e][n].tok = h.tok
                 /\ Issue(h)[e][n] # None
<1> DEFINE k == [enr |-> h.enr, tok |-> h.tok, revoked |-> FALSE]
<1>1. k \in KeyRows /\ k.enr = h.enr /\ k.tok = h.tok /\ k # None
  <2>1. k \in KeyRows /\ k.enr = h.enr /\ k.tok = h.tok
    BY DEF KeyRows, Positive
  <2>2. k # None
    BY <2>1, CatalogAssumption
  <2>3. QED
    BY <2>1, <2>2
<1>2. Issue(h) = [keys EXCEPT ![h.of][h.name] = k]
  BY DEF Issue
<1> HIDE DEF k
<1>3. keys \in [Events -> [1 .. Names -> KeyRows \cup {None}]]
  BY DEF KeyShape, Tables
<1>4. [keys[h.of] EXCEPT ![h.name] = k] \in [1 .. Names -> KeyRows \cup {None}]
  BY <1>1, <1>3
<1>5. QED
  BY <1>1, <1>2, <1>3, <1>4 DEF Tables

Made(h) == [tok |-> h.tok, of |-> h.of, student |-> h.student]

\* A key that is there had its token before, and opens no more than it did.
Faded(e, n) ==
  /\ keys[e][n] # None /\ keys'[e][n].tok = keys[e][n].tok
  /\ keys'[e][n].enr \in {keys[e][n].enr, None}
  /\ ~keys'[e][n].revoked => ~keys[e][n].revoked /\ keys'[e][n].enr = keys[e][n].enr

Makes(h, e, n) ==
  /\ h \in hashing /\ h \notin hashing' /\ h.kind = "key" /\ Enforced(h)
  /\ e = h.of /\ keys'[e][n].tok = h.tok /\ keys'[e][n].enr = h.enr

Fresh(j) ==
  /\ j.tok = seq' /\ seq < seq' /\ j.kind \in {"event", "key"} /\ j.of \in Events
  /\ j.kind = "key" => KeyJob(j)'

Stays == \A e \in Events, s \in Students : enrolled[e][s] # 0 => enrolled'[e][s] = enrolled[e][s]

Leaves == \E e \in Events : DeleteEvent(e) \/ \E s \in Students : RemoveEnrollment(e, s)

\* What a step does to rosters, keys and tokens.
Effects ==
  /\ enrolled' \in Rosters /\ keys' \in Tables /\ seq' \in Nat /\ seq <= seq'
  /\ \A e \in Events, s \in Students : enrolled'[e][s] <= seq'
  /\ \A j \in hashing' : j \in hashing \/ Fresh(j)
  /\ \A i, j \in hashing' \ hashing : i = j
  /\ \A m \in Given' : m \in Given \/ \E h \in hashing \ hashing' : h.kind = "key" /\ m = Made(h)
  /\ \A e \in Events, n \in 1 .. Names :
       keys'[e][n] # None => Faded(e, n) \/ \E h \in hashing : Makes(h, e, n)
  /\ Stays \/ Leaves

LEMMA GivenKept ==
  ASSUME hashing' \subseteq hashing, handed' = handed
  PROVE  Given' \subseteq Given
BY DEF Given

\* Nothing is made: keys fade, what waits may end.
LEMMA QuietEffects ==
  ASSUME KeyShape, Bounded, enrolled' \in Rosters, keys' \in Tables, seq' \in Nat, seq <= seq',
         \A e \in Events, s \in Students : enrolled'[e][s] \in {0, enrolled[e][s], seq'},
         hashing' \subseteq hashing, handed' = handed,
         \A e \in Events, n \in 1 .. Names : keys'[e][n] # None => Faded(e, n),
         Stays \/ Leaves
  PROVE  Effects
<1>1. seq \in Nat /\ seq' \in Nat /\ seq <= seq'
  BY DEF KeyShape
<1>2. ASSUME NEW e \in Events, NEW s \in Students PROVE enrolled'[e][s] <= seq'
  <2>1. enrolled[e][s] \in Nat /\ enrolled[e][s] <= seq
    BY DEF KeyShape, Rosters, Bounded
  <2>2. QED
    BY <1>1, <2>1
<1>3. Given' \subseteq Given
  BY GivenKept
<1>4. QED
  BY <1>1, <1>2, <1>3 DEF Effects

LEMMA SameKeys ==
  ASSUME KeyShape, keys' = keys, NEW e \in Events, NEW n \in 1 .. Names, keys'[e][n] # None
  PROVE  Faded(e, n)
BY DEF Faded

\* A call that goes on to the next student: its job is new, what it has made goes on.
LEMMA BeginEffects ==
  ASSUME KeyShape, JobShape, Bounded, NEW e \in Events, NEW s \in Students, NEW K,
         NEW rest \in SUBSET Students, NEW out \in SUBSET MadeRows, NEW jobs \in SUBSET hashing,
         BeginKey(e, s, K, rest, out, jobs), keys' \in Tables, handed' = handed
  PROVE  /\ \A h \in hashing \ jobs : h \notin hashing'
         /\ (/\ \A m \in out : m \in Given \/ \E h \in hashing \ jobs :
                                               h.kind = "key" /\ m = Made(h)
             /\ \A f \in Events, n \in 1 .. Names :
                  keys'[f][n] # None => Faded(f, n) \/ \E h \in hashing : Makes(h, f, n))
            => Effects
<1>1. \A f \in Events, t \in Students : enrolled[f][t] <= seq
  BY DEF Bounded
<1>2. PICK j : /\ hashing' = jobs \cup {j} /\ seq' = seq + 2
               /\ enrolled' = Enrol(e, {s})
               /\ j.kind = "key" /\ j.of = e /\ j.tok = seq + 2 /\ j.student = s
               /\ j.rest = rest /\ j.out = out
               /\ j.enr \in Students \X (1 .. seq + 1) /\ j.enr[1] = s
  BY <1>1, BeginFacts
<1>3. seq \in Nat /\ seq' \in Nat /\ seq <= seq' /\ seq < seq'
  BY <1>2 DEF KeyShape
<1>4. j \notin hashing
  <2>1. \A h \in hashing : h.tok \in Nat /\ h.tok <= seq
    BY DEF Bounded, JobShape, Positive
  <2>2. QED
    BY <1>2, <1>3, <2>1
<1>5. \A h \in hashing \ jobs : h \notin hashing'
  BY <1>2, <1>4
<1>6. Fresh(j)
  <2>1. j.enr \in Students \X (1 .. seq')
    <3>1. 1 .. seq + 1 \subseteq 1 .. seq'
      BY <1>2, <1>3
    <3>2. QED
      BY <1>2, <3>1
  <2>2. KeyJob(j)'
    BY <1>2, <2>1 DEF KeyJob
  <2>3. QED
    BY <1>2, <1>3, <2>2 DEF Fresh
<1>7. enrolled' \in Rosters /\ Stays
  <2>1. {s} \in SUBSET Students
    OBVIOUS
  <2>2. QED
    BY <1>2, <2>1, EnrolFacts DEF Stays
<1>8. ASSUME NEW f \in Events, NEW t \in Students PROVE enrolled'[f][t] <= seq'
  <2>1. {s} \in SUBSET Students
    OBVIOUS
  <2>2. enrolled'[f][t] \in {enrolled[f][t], seq + 1}
    BY <1>2, <2>1, EnrolFacts
  <2>3. enrolled[f][t] \in Nat /\ enrolled[f][t] <= seq
    BY <1>1 DEF KeyShape, Rosters
  <2>4. QED
    BY <1>2, <1>3, <2>2, <2>3
<1>9. \A m \in Given' : m \in Given \/ m \in out
  BY <1>2 DEF Given
<1>10. \A m \in out, h \in hashing \ jobs : m = Made(h) => h \in hashing \ hashing'
  BY <1>5
<1>11. /\ \A i \in hashing' : i \in hashing \/ Fresh(i)
       /\ \A i, h \in hashing' \ hashing : i = h
  BY <1>2, <1>6
<1>12. ASSUME \A m \in out : m \in Given \/ \E h \in hashing \ jobs :
                                               h.kind = "key" /\ m = Made(h),
              \A f \in Events, n \in 1 .. Names :
                keys'[f][n] # None => Faded(f, n) \/ \E h \in hashing : Makes(h, f, n)
       PROVE  Effects
  <2>1. \A m \in Given' : m \in Given \/ \E h \in hashing \ hashing' :
                                            h.kind = "key" /\ m = Made(h)
    BY <1>5, <1>9, <1>12
  <2>2. QED
    BY <1>3, <1>7, <1>8, <1>11, <1>12, <2>1 DEF Effects
<1>13. QED
  BY <1>5, <1>12

\* A key is made: no other changes.
LEMMA IssueMakes ==
  ASSUME KeyShape, JobShape, NEW h \in hashing, h.kind = "key", Enforced(h),
         h \notin hashing', keys' = Issue(h)
  PROVE  /\ keys' \in Tables
         /\ \A e \in Events, n \in 1 .. Names :
              keys'[e][n] # None => Faded(e, n) \/ Makes(h, e, n)
<1>1. h.of \in Events /\ h.tok \in Positive /\ h.enr \in Students \X Positive
  BY DEF JobShape, KeyJob, Positive, KeyShape
<1>2. QED
  BY <1>1, IssueFacts DEF Faded, Makes

LEMMA KeyEffects ==
  ASSUME KeyShape, JobShape, Bounded, TokensFresh, [Next]_vars
  PROVE  Effects
<1>1. /\ enrolled \in Rosters /\ keys \in Tables /\ seq \in Nat /\ seq + 1 \in Nat
      /\ seq <= seq /\ seq <= seq + 1
  BY DEF KeyShape
\* Keys are as before or less, rosters as before.
<1>0. ASSUME hashing' \subseteq hashing, UNCHANGED <<enrolled, seq, handed>>, keys' \in Tables,
             \A e \in Events, n \in 1 .. Names : keys'[e][n] # None => Faded(e, n)
      PROVE  Effects
  <2>1. enrolled' \in Rosters /\ seq' \in Nat /\ seq <= seq' /\ Stays
    BY <1>0, <1>1 DEF Stays
  <2>2. \A e \in Events, s \in Students : enrolled'[e][s] \in {0, enrolled[e][s], seq'}
    BY <1>0
  <2>3. QED
    BY <1>0, <2>1, <2>2, QuietEffects
<1>2. ASSUME hashing' \subseteq hashing, UNCHANGED <<enrolled, keys, seq, handed>>
      PROVE  Effects
  <2>1. \A e \in Events, n \in 1 .. Names : keys'[e][n] # None => Faded(e, n)
    BY <1>2, SameKeys
  <2>2. keys' \in Tables
    BY <1>1, <1>2
  <2>3. QED
    BY <1>0, <1>2, <2>1, <2>2
<1>3. ASSUME NEW e \in Events, DeleteEvent(e) PROVE Effects
  <2>1. /\ enrolled' = [enrolled EXCEPT ![e] = [s \in Students |-> 0]]
        /\ keys' = [keys EXCEPT ![e] = [n \in 1 .. Names |-> None]]
        /\ hashing' = hashing /\ seq' = seq /\ handed' = handed
    BY <1>3 DEF DeleteEvent
  <2>2. /\ enrolled' \in Rosters
        /\ \A f \in Events, s \in Students : enrolled'[f][s] \in {0, enrolled[f][s]}
    BY <1>1, <2>1 DEF Rosters
  <2>3. keys' \in Tables
    BY <1>1, <2>1 DEF Tables
  <2>4. \A f \in Events, n \in 1 .. Names : keys'[f][n] # None => Faded(f, n)
    BY <1>1, <2>1 DEF Tables, Faded
  <2>5. /\ Leaves /\ seq' \in Nat /\ seq <= seq'
        /\ \A f \in Events, s \in Students : enrolled'[f][s] \in {0, enrolled[f][s], seq'}
    BY <1>1, <1>3, <2>1, <2>2 DEF Leaves
  <2>6. QED
    BY <2>1, <2>2, <2>3, <2>4, <2>5, QuietEffects
<1>4. ASSUME NEW h \in hashing, TokenHashed(h) PROVE Effects
  <2>1. hashing' \subseteq hashing /\ UNCHANGED <<enrolled, keys, seq, handed>>
    BY <1>4 DEF TokenHashed, histVars
  <2>2. QED
    BY <1>2, <2>1
<1>5. ASSUME NEW e \in Events, NEW S \in SUBSET Students, ImportRoster(e, S) PROVE Effects
  <2>1. enrolled' = Enrol(e, S) /\ seq' = seq + 1 /\ UNCHANGED <<keys, hashing, handed>>
    BY <1>5 DEF ImportRoster, histVars
  <2>2. /\ enrolled' \in Rosters /\ Stays
        /\ \A f \in Events, s \in Students : enrolled'[f][s] \in {0, enrolled[f][s], seq'}
    BY <2>1, EnrolFacts DEF Stays
  <2>3. /\ keys' \in Tables /\ seq' \in Nat /\ seq <= seq'
        /\ \A f \in Events, n \in 1 .. Names : keys'[f][n] # None => Faded(f, n)
    BY <1>1, <2>1, SameKeys
  <2>4. QED
    BY <2>1, <2>2, <2>3, QuietEffects
<1>6. ASSUME NEW e \in Events, NEW s \in Students, RemoveEnrollment(e, s) PROVE Effects
  <2> DEFINE en == Enrollment(enrolled, e, s)
  <2>1. /\ keys' = [keys EXCEPT ![e] = [n \in 1 .. Names |-> Close(keys[e][n], en)]]
        /\ enrolled' = [enrolled EXCEPT ![e][s] = 0]
        /\ hashing' = hashing /\ seq' = seq /\ handed' = handed
    BY <1>6 DEF RemoveEnrollment, histVars
  <2>2. /\ enrolled' \in Rosters
        /\ \A f \in Events, t \in Students : enrolled'[f][t] \in {0, enrolled[f][t]}
    BY <1>1, <2>1 DEF Rosters
  <2> HIDE DEF en
  <2>3. ASSUME NEW k \in KeyRows \cup {None}
        PROVE  /\ Close(k, en) \in KeyRows \cup {None}
               /\ Close(k, en) # None =>
                    /\ k # None /\ Close(k, en).tok = k.tok
                    /\ Close(k, en).enr \in {k.enr, None}
                    /\ ~Close(k, en).revoked => ~k.revoked /\ Close(k, en).enr = k.enr
    BY DEF Close, KeyRows
  <2>4. keys' \in Tables
    BY <1>1, <2>1, <2>3 DEF Tables
  <2>5. \A f \in Events, n \in 1 .. Names :
           keys'[f][n] = (IF f = e THEN Close(keys[f][n], en) ELSE keys[f][n])
    BY <1>1, <2>1 DEF Tables
  <2>6. \A f \in Events, n \in 1 .. Names : keys'[f][n] # None => Faded(f, n)
    <3>1. \A f \in Events, n \in 1 .. Names : keys[f][n] \in KeyRows \cup {None}
      BY <1>1 DEF Tables
    <3>2. QED
      BY <2>3, <2>5, <3>1 DEF Faded
  <2>7. /\ Leaves /\ seq' \in Nat /\ seq <= seq'
        /\ \A f \in Events, t \in Students : enrolled'[f][t] \in {0, enrolled[f][t], seq'}
    BY <1>1, <1>6, <2>1, <2>2 DEF Leaves
  <2>8. QED
    BY <2>1, <2>2, <2>4, <2>6, <2>7, QuietEffects
<1>7. ASSUME NEW e \in Events, NEW n \in 1 .. Names, RevokeKey(e, n) PROVE Effects
  <2> DEFINE k == [keys[e][n] EXCEPT !.revoked = TRUE]
  <2>1. /\ keys[e][n] # None /\ keys' = [keys EXCEPT ![e][n] = k]
        /\ UNCHANGED <<enrolled, hashing, seq, handed>>
    BY <1>1, <1>7 DEF RevokeKey, Active, Tables, histVars
  <2>2. keys[e][n] \in KeyRows
    BY <1>1, <2>1 DEF Tables
  <2>3. /\ k \in KeyRows /\ k.tok = keys[e][n].tok /\ k.enr = keys[e][n].enr
        /\ k.revoked = TRUE
    BY <2>2 DEF KeyRows
  <2> HIDE DEF k
  <2>4. /\ keys' \in Tables
        /\ \A f \in Events, i \in 1 .. Names :
             keys'[f][i] = IF f = e /\ i = n THEN k ELSE keys[f][i]
    BY <1>1, <2>1, <2>3 DEF Tables
  <2>5. \A f \in Events, i \in 1 .. Names : keys'[f][i] # None => Faded(f, i)
    BY <2>1, <2>3, <2>4 DEF Faded
  <2>6. QED
    BY <1>0, <2>1, <2>4, <2>5
<1>8. ASSUME NEW e \in Events, RotatePublishToken(e) PROVE Effects
  <2> DEFINE j == [kind |-> "event", of |-> e, tok |-> seq + 1]
  <2>1. /\ hashing' = hashing \cup {j} /\ seq' = seq + 1
        /\ UNCHANGED <<enrolled, keys, handed>>
    BY <1>8 DEF RotatePublishToken, histVars
  <2>2. j.kind = "event" /\ j.of = e /\ j.tok = seq + 1
    OBVIOUS
  <2> HIDE DEF j
  <2>3. seq < seq' /\ seq <= seq' /\ seq' \in Nat
    BY <1>1, <2>1
  <2>4. Fresh(j)
    BY <2>1, <2>2, <2>3 DEF Fresh
  <2>5. \A m \in Given' : m \in Given
    BY <2>1, <2>2 DEF Given
  <2>6. \A f \in Events, s \in Students : enrolled'[f][s] <= seq'
    <3>1. \A f \in Events, s \in Students : enrolled[f][s] \in Nat /\ enrolled[f][s] <= seq
      BY DEF KeyShape, Rosters, Bounded
    <3>2. QED
      BY <1>1, <2>1, <3>1
  <2>7. \A f \in Events, n \in 1 .. Names : keys'[f][n] # None => Faded(f, n)
    BY <2>1, SameKeys
  <2>8. enrolled' \in Rosters /\ keys' \in Tables /\ Stays
    BY <1>1, <2>1 DEF Stays
  <2>9. QED
    BY <2>1, <2>3, <2>4, <2>5, <2>6, <2>7, <2>8 DEF Effects
<1>9. ASSUME NEW e \in Events, NEW s \in Students, NEW rest \in SUBSET Students,
             BeginKey(e, s, keys, rest, {}, hashing), UNCHANGED <<keys, handed>>
      PROVE  Effects
  <2>1. keys' \in Tables /\ handed' = handed /\ {} \in SUBSET MadeRows
        /\ hashing \in SUBSET hashing
    BY <1>1, <1>9
  <2>2. \A f \in Events, n \in 1 .. Names : keys'[f][n] # None => Faded(f, n)
    BY <1>9, SameKeys
  <2>3. QED
    BY <1>9, <2>1, <2>2, BeginEffects
<1>10. ASSUME NEW h \in hashing, KeyHashed(h) PROVE Effects
  <2> DEFINE made == h.out \cup {Made(h)}
             others == hashing \ {h}
  <2>1. /\ h.kind = "key" /\ KeyJob(h) /\ h.of \in Events /\ h.tok \in Positive
    BY <1>10 DEF KeyHashed, JobShape
  <2>2. Made(h) \in MadeRows /\ made \in SUBSET MadeRows /\ others \in SUBSET hashing
    BY <2>1 DEF Made, MadeRows, KeyJob
  <2>3. h.out \subseteq Given
    BY <2>1 DEF Given
  <2>4. CASE hashing' = others /\ UNCHANGED <<keys, enrolled, seq, handed>>
    BY <1>2, <2>4
  <2>5. CASE /\ Enforced(h) /\ keys' = Issue(h) /\ handed' = handed \cup made
             /\ hashing' = others /\ UNCHANGED <<enrolled, seq>>
    <3>1. h \notin hashing' /\ hashing' \subseteq hashing
      BY <2>5
    <3>2. /\ keys' \in Tables
          /\ \A e \in Events, n \in 1 .. Names :
               keys'[e][n] # None => Faded(e, n) \/ Makes(h, e, n)
      BY <2>1, <2>5, <3>1, IssueMakes
    <3>3. \A m \in Given' : m \in Given \/ m = Made(h)
      BY <2>3, <2>5, <3>1 DEF Given
    <3>4. \A e \in Events, s \in Students : enrolled[e][s] <= seq
      BY DEF Bounded
    <3>5. /\ enrolled' \in Rosters /\ seq' \in Nat /\ seq <= seq' /\ Stays
          /\ \A e \in Events, s \in Students : enrolled'[e][s] <= seq'
      BY <1>1, <2>5, <3>4 DEF Stays
    <3>6. QED
      BY <2>1, <3>1, <3>2, <3>3, <3>5 DEF Effects
  <2>6. ASSUME Enforced(h), keys' = Issue(h), handed' = handed, NEW s \in h.rest,
               BeginKey(h.of, s, Issue(h), h.rest \ {s}, made, others)
        PROVE  Effects
    <3>1. s \in Students /\ h.rest \ {s} \in SUBSET Students
      BY <2>1 DEF KeyJob
    <3> DEFINE K == Issue(h)
               rest == h.rest \ {s}
    <3>2. /\ h.of \in Events /\ s \in Students /\ rest \in SUBSET Students
          /\ made \in SUBSET MadeRows /\ others \in SUBSET hashing /\ h \notin others
          /\ BeginKey(h.of, s, K, rest, made, others) /\ handed' = handed
          /\ \A m \in made : m \in Given \/ m = Made(h)
      BY <2>1, <2>2, <2>3, <2>6, <3>1
    <3>3. keys' \in Tables
      <4>1. h.of \in Events /\ h.tok \in Positive /\ h.enr \in Students \X Positive
        BY <2>1 DEF JobShape, KeyJob, Positive, KeyShape
      <4>2. QED
        BY <2>6, <4>1, IssueFacts
    <3> HIDE DEF K, rest, made, others
    <3>4. h \notin hashing'
      BY <3>2, <3>3, BeginEffects
    <3>5. \A e \in Events, n \in 1 .. Names :
            keys'[e][n] # None => Faded(e, n) \/ Makes(h, e, n)
      BY <2>1, <2>6, <3>4, IssueMakes
    <3>6. \A m \in made : m \in Given \/ \E g \in hashing \ others :
                                              g.kind = "key" /\ m = Made(g)
      BY <2>1, <3>2
    <3>7. QED
      BY <3>2, <3>3, <3>5, <3>6, BeginEffects
  <2>7. QED
    BY <1>10, <2>4, <2>5, <2>6 DEF KeyHashed, Made
<1>11. QED
  BY <1>2, <1>3, <1>4, <1>5, <1>6, <1>7, <1>8, <1>9, <1>10, KeySteps

\* The token of an event is cleared, stays, or is the one that was being hashed.
LEMMA RowTokens ==
  ASSUME RowShape, JobShape, WindowOrdered, [Next]_vars, NEW e \in Events, Exists(e)'
  PROVE  \/ row'[e].token = 0
         \/ Exists(e) /\ row'[e].token = row[e].token
         \/ \E h \in hashing \ hashing' : h.kind = "event" /\ row'[e].token = h.tok
<1> DEFINE Goal == \/ row'[e].token = 0
                   \/ Exists(e) /\ row'[e].token = row[e].token
                   \/ \E h \in hashing \ hashing' : h.kind = "event" /\ row'[e].token = h.tok
<1>1. Exists(e) => row[e] \in EventRows
  BY RowTypes
<1>2. row' = row => Goal
  BY DEF Exists
<1>3. ASSUME NEW f \in Events, NEW r \in EventRows, row' = [row EXCEPT ![f] = r],
             r.token # 0 => Exists(f) /\ r.token = row[f].token
      PROVE  Goal
  <2>1. row'[e] = IF e = f THEN r ELSE row[e]
    BY <1>3 DEF RowShape
  <2>2. QED
    BY <1>3, <2>1 DEF Exists
<1>4. ASSUME NEW f \in Events, NEW k \in Keys, NEW b \in Bodies, CreateEvent(f, k, b)
      PROVE  Goal
  <2>1. PICK r \in EventRows : row' = [row EXCEPT ![f] = r] /\ r.token = 0
    BY <1>4, CreatedRow
  <2> HIDE DEF Goal
  <2>2. r.token # 0 => Exists(f) /\ r.token = row[f].token
    BY <2>1
  <2>3. QED
    BY <1>3, <2>1, <2>2
<1>5. ASSUME NEW f \in Events, NEW p \in Patches, UpdateEvent(f, p) PROVE Goal
  <2>1. PICK r \in EventRows : /\ row' = [row EXCEPT ![f] = r] /\ Exists(f)
                               /\ r.token = row[f].token
    BY <1>5, PatchedRow
  <2> HIDE DEF Goal
  <2>2. r.token # 0 => Exists(f) /\ r.token = row[f].token
    BY <2>1
  <2>3. QED
    BY <1>3, <2>1, <2>2
<1>6. ASSUME NEW f \in Events, DeleteEvent(f) PROVE Goal
  <2>1. row'[e] = IF e = f THEN None ELSE row[e]
    BY <1>6 DEF DeleteEvent, RowShape
  <2>2. QED
    BY <2>1 DEF Exists
<1>7. ASSUME NEW f \in Events, NEW k \in Keys \cup {None}, SetPublishKey(f, k) PROVE Goal
  <2> DEFINE r == [row[f] EXCEPT !.key = k]
  <2>1. Exists(f) /\ row[f] \in EventRows /\ row' = [row EXCEPT ![f] = r]
    BY <1>7, RowTypes DEF SetPublishKey, RowShape
  <2>2. r \in EventRows /\ r.token = row[f].token
    BY <2>1 DEF EventRows
  <2> HIDE DEF r, Goal
  <2>3. QED
    BY <1>3, <2>1, <2>2
<1>8. ASSUME NEW f \in Events, ClearPublishToken(f) PROVE Goal
  <2> DEFINE r == [row[f] EXCEPT !.token = 0]
  <2>1. Exists(f) /\ row[f] \in EventRows /\ row' = [row EXCEPT ![f] = r]
    BY <1>8, RowTypes DEF ClearPublishToken, RowShape
  <2>2. r \in EventRows /\ r.token = 0
    BY <2>1 DEF EventRows
  <2> HIDE DEF r, Goal
  <2>3. r.token # 0 => Exists(f) /\ r.token = row[f].token
    BY <2>2
  <2>4. QED
    BY <1>3, <2>1, <2>2, <2>3
<1>9. ASSUME NEW h \in hashing, TokenHashed(h) PROVE Goal
  <2>1. /\ h.kind = "event" /\ hashing' = hashing \ {h} /\ h.of \in Events
        /\ row' = IF Exists(h.of) THEN [row EXCEPT ![h.of].token = h.tok] ELSE row
    BY <1>9 DEF TokenHashed, JobShape
  <2>2. CASE Exists(h.of) /\ e = h.of
    <3>1. row'[e] = [row[e] EXCEPT !.token = h.tok]
      BY <2>1, <2>2 DEF RowShape
    <3>2. row'[e].token = h.tok
      BY <1>1, <2>2, <3>1 DEF EventRows
    <3>3. QED
      BY <2>1, <3>2
  <2>3. CASE ~(Exists(h.of) /\ e = h.of)
    <3>1. row'[e] = row[e]
      BY <2>1, <2>3 DEF RowShape
    <3>2. QED
      BY <3>1 DEF Exists
  <2>4. QED
    BY <2>2, <2>3
<1>10. ASSUME NEW g \in Groups, DeleteGroup(g) PROVE Goal
  <2>1. row'[e] = IF Exists(e) THEN [row[e] EXCEPT !.groups = @ \ {g}] ELSE None
    BY <1>10 DEF DeleteGroup
  <2>2. Exists(e)
    BY <2>1 DEF Exists
  <2>3. row'[e].token = row[e].token
    BY <1>1, <2>1, <2>2 DEF EventRows
  <2>4. QED
    BY <2>2, <2>3
<1>11. ASSUME RunLifecycle PROVE Goal
  <2>1. row'[e] = IF Exists(e) THEN [row[e] EXCEPT !.status = Aged(row[e])] ELSE None
    BY <1>11 DEF RunLifecycle
  <2>2. Exists(e)
    BY <2>1 DEF Exists
  <2>3. row'[e].token = row[e].token
    BY <1>1, <2>1, <2>2 DEF EventRows
  <2>4. QED
    BY <2>2, <2>3
<1>12. ASSUME NEW f \in Events,
              \/ RotatePublishToken(f)
              \/ \E S \in SUBSET Students \ {{}} : ImportRoster(f, S)
              \/ \E s \in Students : RemoveEnrollment(f, s) \/ GenerateKey(f, s)
              \/ GenerateUnkeyed(f) \/ \E n \in 1 .. Names : RevokeKey(f, n)
       PROVE  row' = row
  BY <1>12 DEF RotatePublishToken, ImportRoster, RemoveEnrollment, GenerateKey, GenerateUnkeyed,
     RevokeKey, catalogVars
<1>13. /\ \A h \in hashing : KeyHashed(h) => row' = row
       /\ Tick \/ UNCHANGED vars => row' = row
  BY DEF KeyHashed, Tick, vars, catalogVars
<1> HIDE DEF Goal
<1>14. ASSUME NEW f \in Events, Admin(f) PROVE Goal
  BY <1>2, <1>4, <1>5, <1>6, <1>7, <1>8, <1>12, <1>14 DEF Admin, ClearPublishKey
<1>15. \A h \in hashing : KeyHashed(h) => Goal
  BY <1>2, <1>13
<1>16. Tick \/ UNCHANGED vars => Goal
  BY <1>2, <1>13
<1>17. (\E f \in Events : Admin(f)) \/ (\E g \in Groups : DeleteGroup(g)) => Goal
  BY <1>10, <1>14
<1>18. (\E h \in hashing : TokenHashed(h) \/ KeyHashed(h)) => Goal
  BY <1>9, <1>15
<1>19. Goal
  BY <1>11, <1>16, <1>17, <1>18 DEF Next
<1>20. QED
  BY <1>19 DEF Goal

\* The clock and the calls stay within their bounds.
LEMMA CountersStep ==
  ASSUME KeyShape, [Next]_vars
  PROVE  now' \in 0 .. Horizon /\ calls' \in 0 .. MaxCalls
<1>1. Call => calls' \in 0 .. MaxCalls
  BY CatalogAssumption DEF Call, KeyShape
<1>2. ASSUME NEW e \in Events, Admin(e) PROVE Call /\ now' = now
  BY <1>2 DEF Admin, CreateEvent, UpdateEvent, DeleteEvent, SetPublishKey, ClearPublishKey,
     RotatePublishToken, ClearPublishToken, ImportRoster, RemoveEnrollment, GenerateKey,
     GenerateUnkeyed, RevokeKey
<1>3. ASSUME NEW g \in Groups, DeleteGroup(g) PROVE Call /\ now' = now
  BY <1>3 DEF DeleteGroup
<1>4. ASSUME NEW h \in hashing, TokenHashed(h) \/ KeyHashed(h)
      PROVE  now' = now /\ calls' = calls
  BY <1>4 DEF TokenHashed, KeyHashed
<1>5. CASE Tick
  <2>1. now' \in 0 .. Horizon
    BY <1>5, CatalogAssumption DEF Tick, KeyShape
  <2>2. QED
    BY <1>5, <2>1 DEF Tick, KeyShape
<1>6. RunLifecycle \/ UNCHANGED vars => now' = now /\ calls' = calls
  BY DEF RunLifecycle, vars
<1>7. now \in 0 .. Horizon /\ calls \in 0 .. MaxCalls
  BY DEF KeyShape
<1>8. QED
  BY <1>1, <1>2, <1>3, <1>4, <1>5, <1>6, <1>7 DEF Next

\* After a step: where tokens come from, and what is new.
LEMMA TokenSources ==
  ASSUME RowShape, KeyShape, JobShape, WindowOrdered, Bounded, TokensFresh, [Next]_vars
  PROVE  /\ \A e \in Events, n \in 1 .. Names : keys'[e][n] # None =>
              \/ Faded(e, n)
              \/ \E h \in hashing \ hashing' : /\ h.kind = "key" /\ keys'[e][n].tok = h.tok
                                               /\ e = h.of /\ keys'[e][n].enr = h.enr
         /\ \A e \in Events : Exists(e)' =>
              \/ row'[e].token = 0
              \/ Exists(e) /\ row'[e].token = row[e].token
              \/ \E h \in hashing \ hashing' : h.kind = "event" /\ row'[e].token = h.tok
         /\ \A m \in Given' : m \in Given \/ \E h \in hashing \ hashing' :
                                               h.kind = "key" /\ m = Made(h)
         /\ \A j \in hashing' : j \in hashing \/ Fresh(j)
         /\ \A i, j \in hashing' \ hashing : i = j
         /\ seq' \in Nat /\ seq <= seq'
<1>1. Effects
  BY KeyEffects
<1>2. \A e \in Events : Exists(e)' =>
              \/ row'[e].token = 0
              \/ Exists(e) /\ row'[e].token = row[e].token
              \/ \E h \in hashing \ hashing' : h.kind = "event" /\ row'[e].token = h.tok
  BY RowTokens
<1>3. QED
  BY <1>1, <1>2 DEF Effects, Makes

LEMMA KeyShapeStep ==
  ASSUME RowShape, KeyShape, JobShape, Bounded, TokensFresh, [Next]_vars
  PROVE  KeyShape'
<1>1. Effects
  BY KeyEffects
<1>2. QED
  BY <1>1, CountersStep DEF Effects, KeyShape

LEMMA JobShapeStep ==
  ASSUME KeyShape, JobShape, Bounded, TokensFresh, [Next]_vars
  PROVE  JobShape'
<1>1. Effects
  BY KeyEffects
<1>2. 1 .. seq \subseteq 1 .. seq'
  BY <1>1 DEF Effects, KeyShape
<1>3. ASSUME NEW h, KeyJob(h) PROVE KeyJob(h)'
  BY <1>2, <1>3 DEF KeyJob
<1>4. ASSUME NEW j \in hashing'
      PROVE  /\ j.kind \in {"event", "key"} /\ j.of \in Events /\ j.tok \in Positive
             /\ j.kind = "key" => KeyJob(j)'
  <2>1. CASE j \in hashing
    BY <1>3, <2>1 DEF JobShape
  <2>2. CASE Fresh(j)
    <3>1. seq' \in Positive
      BY <1>1, <2>2 DEF Effects, Fresh, KeyShape, Positive
    <3>2. QED
      BY <2>2, <3>1 DEF Fresh
  <2>3. QED
    BY <1>1, <2>1, <2>2 DEF Effects
<1>5. ASSUME NEW h \in hashing, h.kind = "key"
      PROVE  h.out \subseteq MadeRows /\ Made(h) \in MadeRows
  BY <1>5 DEF JobShape, KeyJob, Made, MadeRows
<1>6. handed' \subseteq Given'
  BY DEF Given
<1>7. Given \subseteq MadeRows
  BY <1>5 DEF Given, JobShape
<1>8. Given' \subseteq MadeRows
  BY <1>1, <1>5, <1>7 DEF Effects
<1>9. QED
  BY <1>4, <1>6, <1>8 DEF JobShape

LEMMA BoundedStep ==
  ASSUME RowShape, KeyShape, JobShape, WindowOrdered, Bounded, TokensFresh, [Next]_vars
  PROVE  Bounded'
<1>1. Effects
  BY KeyEffects
<1>2. seq \in Nat /\ seq' \in Nat /\ seq <= seq'
  BY <1>1 DEF Effects, KeyShape
<1>3. \A t \in Nat : t <= seq => t <= seq'
  BY <1>2
<1>4. ASSUME NEW h \in hashing PROVE h.tok \in Nat /\ h.tok <= seq /\ h.tok <= seq'
  BY <1>3 DEF JobShape, Bounded, Positive
<1>5. ASSUME NEW e \in Events, NEW n \in 1 .. Names, keys'[e][n] # None
      PROVE  keys'[e][n].tok <= seq' /\ (keys'[e][n].enr # None => keys'[e][n].enr[2] <= seq')
  <2>1. CASE Faded(e, n)
    <3>1. keys[e][n] \in KeyRows
      BY <2>1 DEF Faded, KeyShape, Tables
    <3>2. keys[e][n].tok \in Nat /\ keys[e][n].tok <= seq
      BY <2>1, <3>1 DEF Faded, KeyRows, Bounded
    <3>3. keys[e][n].enr # None => keys[e][n].enr[2] \in Nat /\ keys[e][n].enr[2] <= seq
      BY <2>1, <3>1 DEF Faded, KeyRows, Bounded
    <3>4. QED
      BY <1>3, <2>1, <3>2, <3>3 DEF Faded
  <2>2. ASSUME NEW h \in hashing, h.kind = "key", keys'[e][n].tok = h.tok, keys'[e][n].enr = h.enr
        PROVE  keys'[e][n].tok <= seq' /\ keys'[e][n].enr[2] <= seq'
    <3>1. h.enr[2] \in Nat /\ h.enr[2] <= seq
      BY <1>2, <2>2 DEF JobShape, KeyJob
    <3>2. QED
      BY <1>3, <1>4, <2>2, <3>1
  <2>3. QED
    BY <1>5, <2>1, <2>2, TokenSources
<1>6. \A j \in hashing' : j.tok <= seq'
  BY <1>1, <1>2, <1>4 DEF Effects, Fresh
<1>7. ASSUME NEW e \in Events, Exists(e)' PROVE row'[e].token <= seq'
  <2>1. row'[e].token = 0 => row'[e].token <= seq'
    BY <1>2
  <2>2. ASSUME Exists(e), row'[e].token = row[e].token PROVE row'[e].token <= seq'
    <3>1. row[e].token \in Nat /\ row[e].token <= seq
      BY <2>2, RowTypes DEF Bounded, EventRows
    <3>2. QED
      BY <1>3, <2>2, <3>1
  <2>3. QED
    BY <1>4, <1>7, <2>1, <2>2, RowTokens
<1>8. QED
  BY <1>1, <1>5, <1>6, <1>7 DEF Effects, Bounded

\* What is new is above all that was given out.
LEMMA NewToken ==
  ASSUME RowShape, KeyShape, JobShape, Bounded, TokensFresh, TokensApart, WindowOrdered,
         [Next]_vars
  PROVE  /\ \A e \in Events, n \in 1 .. Names : keys'[e][n] # None =>
              keys'[e][n].tok \in Nat /\ keys'[e][n].tok <= seq
         /\ \A e \in Events : Exists(e)' => row'[e].token \in Nat /\ row'[e].token <= seq
         /\ \A m \in Given' : m.tok \in Positive /\ m.tok <= seq
<1>1. \A h \in hashing : h.tok \in Positive /\ h.tok <= seq
  BY DEF JobShape, Bounded
<1>2. seq \in Nat
  BY DEF KeyShape
<1>3. ASSUME NEW e \in Events, NEW n \in 1 .. Names, Faded(e, n)
      PROVE  keys'[e][n].tok \in Nat /\ keys'[e][n].tok <= seq
  <2>1. keys[e][n] \in KeyRows
    BY <1>3 DEF Faded, KeyShape, Tables
  <2>2. QED
    BY <1>3, <2>1 DEF Faded, KeyRows, Bounded
<1>4. \A e \in Events, n \in 1 .. Names : keys'[e][n] # None =>
              keys'[e][n].tok \in Nat /\ keys'[e][n].tok <= seq
  BY <1>1, <1>3, TokenSources DEF Positive
<1>5. \A e \in Events : Exists(e) => row[e].token \in Nat /\ row[e].token <= seq
  BY RowTypes DEF Bounded, EventRows
<1>6. \A e \in Events : Exists(e)' => row'[e].token \in Nat /\ row'[e].token <= seq
  BY <1>1, <1>2, <1>5, TokenSources DEF Positive
<1>7. ASSUME NEW m \in Given PROVE m.tok \in Positive /\ m.tok <= seq
  <2>1. m \in MadeRows
    BY DEF Given, JobShape, KeyJob
  <2>2. QED
    BY <2>1 DEF MadeRows, TokensApart
<1>8. \A m \in Given' : m.tok \in Positive /\ m.tok <= seq
  BY <1>1, <1>7, TokenSources DEF Made
<1>9. QED
  BY <1>4, <1>6, <1>8

LEMMA TokensFreshStep ==
  ASSUME RowShape, KeyShape, JobShape, Bounded, TokensFresh, TokensApart, WindowOrdered,
         [Next]_vars
  PROVE  TokensFresh'
<1>1. \A h \in hashing : h.tok \in Positive /\ h.tok <= seq
  BY DEF JobShape, Bounded
<1>2. seq \in Nat /\ seq' \in Nat
  BY TokenSources DEF KeyShape
<1>3. ASSUME NEW g \in hashing', NEW h \in hashing', g.tok = h.tok PROVE g = h
  <2>1. g \in hashing /\ h \in hashing => g = h
    BY <1>3 DEF TokensFresh
  <2>2. ASSUME NEW i \in hashing, NEW j, Fresh(j) PROVE i.tok # j.tok
    BY <1>1, <1>2, <2>2 DEF Fresh, Positive
  <2>3. g \notin hashing /\ h \notin hashing => g = h
    BY TokenSources
  <2>4. QED
    BY <1>3, <2>1, <2>2, <2>3, TokenSources
\* A token that waits on is not the one that is used now.
<1>4. ASSUME NEW h \in hashing', h \in hashing PROVE Unused(h.tok)'
  <2>1. h.tok \in Positive /\ Unused(h.tok)
    BY <1>1, <1>4 DEF TokensFresh
  <2>2. \A g \in hashing \ hashing' : g.tok # h.tok
    BY <1>4 DEF TokensFresh
  <2>3. \A e \in Events, n \in 1 .. Names : keys'[e][n] # None => keys'[e][n].tok # h.tok
    BY <2>1, <2>2, TokenSources DEF Unused, Faded
  <2>4. \A e \in Events : Exists(e)' => row'[e].token # h.tok
    BY <2>1, <2>2, TokenSources DEF Unused, Positive
  <2>5. \A m \in Given' : m.tok # h.tok
    BY <2>1, <2>2, TokenSources DEF Unused, Made
  <2>6. QED
    BY <2>3, <2>4, <2>5 DEF Unused
<1>5. ASSUME NEW h \in hashing', Fresh(h) PROVE Unused(h.tok)'
  <2>1. h.tok = seq' /\ \A t \in Nat : t <= seq => t # h.tok
    BY <1>2, <1>5 DEF Fresh
  <2>2. \A m \in Given' : m.tok # h.tok
    BY <2>1, NewToken DEF Positive
  <2>3. /\ \A e \in Events, n \in 1 .. Names : keys'[e][n] # None => keys'[e][n].tok # h.tok
        /\ \A e \in Events : Exists(e)' => row'[e].token # h.tok
    BY <2>1, NewToken
  <2>4. QED
    BY <2>2, <2>3 DEF Unused
<1>6. QED
  BY <1>3, <1>4, <1>5, TokenSources DEF TokensFresh

LEMMA TokensApartStep ==
  ASSUME RowShape, KeyShape, JobShape, Bounded, TokensFresh, TokensApart, WindowOrdered,
         [Next]_vars
  PROVE  TokensApart'
<1>1. seq \in Nat /\ seq' \in Nat /\ seq <= seq'
  BY TokenSources DEF KeyShape
<1>2. ASSUME NEW m \in Given' PROVE m.tok <= seq'
  <2>1. m.tok \in Nat /\ m.tok <= seq
    BY NewToken DEF Positive
  <2>2. QED
    BY <1>1, <2>1
<1>3. \A m \in Given' : m.tok # 0
  BY NewToken DEF Positive
\* A token that was made before.
<1>4. ASSUME NEW m \in Given, m.tok # 0
      PROVE  /\ \A e \in Events : Exists(e)' => row'[e].token # m.tok
             /\ \A e \in Events, n \in 1 .. Names :
                  Active(e, n)' /\ keys'[e][n].tok = m.tok
                  => e = m.of /\ keys'[e][n].enr[1] = m.student
  <2>1. \A h \in hashing : h.tok # m.tok
    BY DEF TokensFresh, Unused
  <2>2. \A e \in Events : Exists(e)' => row'[e].token # m.tok
    BY <1>4, <2>1, TokenSources DEF TokensApart
  <2>3. ASSUME NEW e \in Events, NEW n \in 1 .. Names, Faded(e, n), ~keys'[e][n].revoked,
               keys'[e][n].tok = m.tok
        PROVE  e = m.of /\ keys'[e][n].enr[1] = m.student
    <3>1. Active(e, n) /\ keys[e][n].tok = m.tok /\ keys'[e][n].enr = keys[e][n].enr
      BY <2>3 DEF Faded, Active
    <3>2. e = m.of /\ keys[e][n].enr[1] = m.student
      BY <3>1 DEF TokensApart
    <3>3. QED
      BY <3>1, <3>2
  <2>4. ASSUME NEW e \in Events, NEW n \in 1 .. Names, Active(e, n)', keys'[e][n].tok = m.tok
        PROVE  e = m.of /\ keys'[e][n].enr[1] = m.student
    <3>1. keys'[e][n] # None /\ ~keys'[e][n].revoked
      BY <2>4 DEF Active
    <3>2. Faded(e, n)
      BY <2>1, <2>4, <3>1, TokenSources
    <3>3. QED
      BY <2>3, <2>4, <3>1, <3>2
  <2>5. QED
    BY <2>2, <2>4
\* A token that is made now.
<1>5. ASSUME NEW h \in hashing, h.kind = "key", h.tok # 0
      PROVE  /\ \A e \in Events : Exists(e)' => row'[e].token # h.tok
             /\ \A e \in Events, n \in 1 .. Names :
                  Active(e, n)' /\ keys'[e][n].tok = h.tok
                  => e = h.of /\ keys'[e][n].enr[1] = h.student
  <2>1. \A g \in hashing : g.tok = h.tok => g = h
    BY DEF TokensFresh
  <2>2. Unused(h.tok) /\ h.enr[1] = h.student
    BY <1>5 DEF TokensFresh, JobShape, KeyJob
  <2>3. \A e \in Events : Exists(e)' => row'[e].token # h.tok
    BY <1>5, <2>1, <2>2, TokenSources DEF Unused
  <2>4. ASSUME NEW e \in Events, NEW n \in 1 .. Names, keys'[e][n] # None,
               keys'[e][n].tok = h.tok
        PROVE  e = h.of /\ keys'[e][n].enr[1] = h.student
    <3>1. ~Faded(e, n)
      BY <2>2, <2>4 DEF Faded, Unused
    <3>2. PICK g \in hashing : keys'[e][n].tok = g.tok /\ e = g.of /\ keys'[e][n].enr = g.enr
      BY <2>4, <3>1, TokenSources
    <3>3. QED
      BY <2>1, <2>2, <2>4, <3>2
  <2>5. \A e \in Events, n \in 1 .. Names : Active(e, n)' => keys'[e][n] # None
    BY DEF Active
  <2>6. QED
    BY <2>3, <2>4, <2>5
<1>6. ASSUME NEW m \in Given'
      PROVE  /\ \A e \in Events : Exists(e)' => row'[e].token # m.tok
             /\ \A e \in Events, n \in 1 .. Names :
                  Active(e, n)' /\ keys'[e][n].tok = m.tok
                  => e = m.of /\ keys'[e][n].enr[1] = m.student
  <2>1. CASE m \in Given
    BY <1>3, <1>4, <2>1
  <2>2. ASSUME NEW h \in hashing, h.kind = "key", m = Made(h)
        PROVE  /\ \A e \in Events : Exists(e)' => row'[e].token # m.tok
               /\ \A e \in Events, n \in 1 .. Names :
                    Active(e, n)' /\ keys'[e][n].tok = m.tok
                    => e = m.of /\ keys'[e][n].enr[1] = m.student
    <3>1. m.tok = h.tok /\ m.of = h.of /\ m.student = h.student
      BY <2>2 DEF Made
    <3>2. h.tok # 0
      BY <1>3, <3>1
    <3>3. QED
      BY <1>5, <2>2, <3>1, <3>2
  <2>3. QED
    BY <2>1, <2>2, TokenSources
<1>7. QED
  BY <1>2, <1>6 DEF TokensApart

\* A key that opens an event is of its roster: a key is made of an enrollment that is
\* there, and a student that leaves takes the keys of the enrollment along.
LEMMA EnrolledStep ==
  ASSUME RowShape, KeyShape, JobShape, Bounded, TokensFresh, ActiveKeysEnrolled, [Next]_vars
  PROVE  ActiveKeysEnrolled'
<1>1. Effects
  BY KeyEffects
<1> DEFINE Of(E, K, e, n) == \E s \in Students : E[e][s] # 0 /\ K[e][n].enr = <<s, E[e][s]>>
<1>2. /\ \A e \in Events, n \in 1 .. Names :
           keys[e][n] # None /\ ~keys[e][n].revoked => Of(enrolled, keys, e, n)
      /\ (\A e \in Events, n \in 1 .. Names :
           keys'[e][n] # None /\ ~keys'[e][n].revoked => Of(enrolled', keys', e, n))
         => ActiveKeysEnrolled'
  BY DEF ActiveKeysEnrolled, Active, Enrollment
<1>3. ASSUME NEW e \in Events, NEW n \in 1 .. Names, keys'[e][n] # None, ~keys'[e][n].revoked, Stays
      PROVE  Of(enrolled', keys', e, n)
  <2>1. CASE Faded(e, n)
    <3>1. PICK s \in Students : enrolled[e][s] # 0 /\ keys[e][n].enr = <<s, enrolled[e][s]>>
      BY <1>2, <1>3, <2>1 DEF Faded
    <3>2. enrolled'[e][s] = enrolled[e][s] /\ keys'[e][n].enr = keys[e][n].enr
      BY <1>3, <2>1, <3>1 DEF Stays, Faded
    <3>3. QED
      BY <3>1, <3>2
  <2>2. ASSUME NEW h \in hashing, Makes(h, e, n) PROVE Of(enrolled', keys', e, n)
    <3>1. h.student \in Students /\ h.of = e
      BY <2>2 DEF Makes, JobShape, KeyJob
    <3>2. /\ enrolled[e][h.student] # 0 /\ keys'[e][n].enr = <<h.student, enrolled[e][h.student]>>
      BY <2>2, <3>1 DEF Makes, Enforced, Enrollment
    <3>3. enrolled'[e][h.student] = enrolled[e][h.student]
      BY <1>3, <3>1, <3>2 DEF Stays
    <3>4. QED
      BY <3>1, <3>2, <3>3
  <2>3. QED
    BY <1>1, <1>3, <2>1, <2>2 DEF Effects
<1>4. ASSUME NEW d \in Events, DeleteEvent(d),
             NEW e \in Events, NEW n \in 1 .. Names, keys'[e][n] # None, ~keys'[e][n].revoked
      PROVE  Of(enrolled', keys', e, n)
  <2>1. /\ enrolled' = [enrolled EXCEPT ![d] = [s \in Students |-> 0]]
        /\ keys' = [keys EXCEPT ![d] = [i \in 1 .. Names |-> None]]
    BY <1>4 DEF DeleteEvent
  <2>2. e # d
    BY <1>4, <2>1 DEF KeyShape, Tables
  <2>3. enrolled'[e] = enrolled[e] /\ keys'[e] = keys[e]
    BY <2>1, <2>2 DEF KeyShape, Tables, Rosters
  <2>4. QED
    BY <1>2, <1>4, <2>3
<1>5. ASSUME NEW d \in Events, NEW t \in Students, RemoveEnrollment(d, t),
             NEW e \in Events, NEW n \in 1 .. Names, keys'[e][n] # None, ~keys'[e][n].revoked
      PROVE  Of(enrolled', keys', e, n)
  <2>1. /\ enrolled' = [enrolled EXCEPT ![d][t] = 0]
        /\ keys' = [keys EXCEPT ![d] =
                      [i \in 1 .. Names |-> Close(keys[d][i], <<t, enrolled[d][t]>>)]]
    BY <1>5 DEF RemoveEnrollment, Enrollment
  <2>2. CASE e # d
    <3>1. enrolled'[e] = enrolled[e] /\ keys'[e] = keys[e]
      BY <2>1, <2>2 DEF KeyShape, Tables, Rosters
    <3>2. QED
      BY <1>2, <1>5, <3>1
  <2>3. CASE e = d
    <3>1. keys'[e][n] = Close(keys[e][n], <<t, enrolled[e][t]>>)
      BY <2>1, <2>3 DEF KeyShape, Tables
    <3>2. keys[e][n] \in KeyRows \cup {None}
      BY DEF KeyShape, Tables
    <3>3. ~(keys[e][n] # None /\ keys[e][n].enr = <<t, enrolled[e][t]>>)
      BY <1>5, <3>1, <3>2 DEF Close, KeyRows
    <3>4. keys'[e][n] = keys[e][n]
      BY <3>1, <3>3 DEF Close
    <3>5. PICK s \in Students : enrolled[e][s] # 0 /\ keys[e][n].enr = <<s, enrolled[e][s]>>
      BY <1>2, <1>5, <3>4
    <3>6. s # t
      BY <1>5, <3>3, <3>4, <3>5
    <3>7. enrolled'[e][s] = enrolled[e][s]
      BY <2>1, <3>6 DEF KeyShape, Rosters
    <3>8. QED
      BY <3>4, <3>5, <3>7
  <2>4. QED
    BY <2>2, <2>3
<1> HIDE DEF Of
<1>6. QED
  BY <1>1, <1>2, <1>3, <1>4, <1>5 DEF Effects, Leaves

-----------------------------------------------------------------------------
(* The theorems.                                                            *)

LEMMA InitInv == Init => IInv
<1> SUFFICES ASSUME Init PROVE IInv
  OBVIOUS
<1>1. RowShape /\ WindowOrdered
  BY DEF Init, RowShape, WindowOrdered, Exists
<1>2. KeyShape
  BY CatalogAssumption DEF Init, KeyShape, Rosters, Tables
<1>3. Given = {}
  BY DEF Init, Given
<1>4. \A e \in Events, n \in 1 .. Names : keys[e][n] = None
  BY DEF Init
<1>5. JobShape /\ Bounded
  BY <1>4 DEF Init, JobShape, Bounded, Exists
<1>6. TokensFresh /\ TokensApart
  BY <1>3, <1>4 DEF Init, TokensFresh, TokensApart
<1>7. ActiveKeysEnrolled
  BY <1>4 DEF ActiveKeysEnrolled, Active
<1>8. GuideSound
  BY DEF Init, GuideSound, GuideOf, HasKey, Exists
<1>9. QED
  BY <1>1, <1>2, <1>5, <1>6, <1>7, <1>8 DEF IInv

LEMMA NextInv == IInv /\ [Next]_vars => IInv'
<1> SUFFICES ASSUME IInv, [Next]_vars PROVE IInv'
  OBVIOUS
<1>1. /\ RowShape /\ KeyShape /\ JobShape /\ Bounded /\ TokensFresh /\ TokensApart
      /\ ActiveKeysEnrolled /\ WindowOrdered /\ GuideSound
  BY DEF IInv
<1>2. RowShape' /\ WindowOrdered'
  BY <1>1, RowShapeStep
<1>3. KeyShape' /\ JobShape' /\ Bounded'
  BY <1>1, KeyShapeStep, JobShapeStep, BoundedStep
<1>4. TokensFresh' /\ TokensApart' /\ ActiveKeysEnrolled'
  BY <1>1, TokensFreshStep, TokensApartStep, EnrolledStep
<1>5. GuideSound'
  BY <1>1, GuideSoundStep
<1>6. QED
  BY <1>2, <1>3, <1>4, <1>5 DEF IInv

THEOREM Invariance == Spec => []IInv
BY InitInv, NextInv, PTL DEF Spec

LEMMA InvTypes == IInv => TypeOK
<1> SUFFICES ASSUME IInv PROVE TypeOK
  OBVIOUS
<1>1. RowShape /\ KeyShape /\ JobShape /\ Bounded
  BY DEF IInv
<1>2. seq \in Nat
  BY <1>1 DEF KeyShape
<1>3. ASSUME NEW e \in Events, Exists(e)
      PROVE  /\ row[e].slug \in Keys /\ row[e].key \in Keys \cup {None}
             /\ row[e].token \in 0 .. seq
             /\ row[e].starts \in Times \cup {None} /\ row[e].ends \in Times \cup {None}
             /\ row[e].status \in Statuses /\ row[e].groups \subseteq groups
  <2>1. row[e] \in EventRows /\ row[e].groups \subseteq groups
    BY <1>1, <1>3, RowTypes
  <2>2. row[e].token \in Nat /\ row[e].token <= seq
    BY <1>1, <1>3, <2>1 DEF EventRows, Bounded
  <2>3. row[e].token \in 0 .. seq
    BY <1>2, <2>2
  <2>4. QED
    BY <2>1, <2>3 DEF EventRows
<1>4. enrolled \in [Events -> [Students -> 0 .. seq]]
  <2>1. \A e \in Events, s \in Students : enrolled[e][s] \in Nat /\ enrolled[e][s] <= seq
    BY <1>1 DEF KeyShape, Rosters, Bounded
  <2>2. \A e \in Events, s \in Students : enrolled[e][s] \in 0 .. seq
    BY <1>2, <2>1
  <2>3. QED
    BY <1>1, <2>2 DEF KeyShape, Rosters
<1>5. ASSUME NEW e \in Events, NEW n \in 1 .. Names, keys[e][n] # None
      PROVE  /\ keys[e][n].enr \in (Students \X (1 .. seq)) \cup {None}
             /\ keys[e][n].tok \in 1 .. seq /\ keys[e][n].revoked \in BOOLEAN
  <2>1. keys[e][n] \in KeyRows
    BY <1>1, <1>5 DEF KeyShape, Tables
  <2>2. keys[e][n].tok \in Nat \ {0} /\ keys[e][n].tok <= seq
    BY <1>1, <1>5, <2>1 DEF KeyRows, Bounded
  <2>3. keys[e][n].tok \in 1 .. seq
    BY <1>2, <2>2
  <2>4. ASSUME keys[e][n].enr # None PROVE keys[e][n].enr \in Students \X (1 .. seq)
    <3>1. keys[e][n].enr \in Students \X (Nat \ {0}) /\ keys[e][n].enr[2] <= seq
      BY <1>1, <1>5, <2>1, <2>4 DEF KeyRows, Bounded
    <3>2. keys[e][n].enr[2] \in 1 .. seq
      BY <1>2, <3>1
    <3>3. QED
      BY <3>1, <3>2
  <2>5. keys[e][n].revoked \in BOOLEAN
    BY <2>1 DEF KeyRows
  <2>6. QED
    BY <2>3, <2>4, <2>5
<1>6. ASSUME NEW h \in hashing
      PROVE  h.kind \in {"event", "key"} /\ h.of \in Events /\ h.tok \in 1 .. seq
  <2>1. h.tok \in Nat \ {0} /\ h.tok <= seq
    BY <1>1 DEF JobShape, Bounded, Positive
  <2>2. h.tok \in 1 .. seq
    BY <1>2, <2>1
  <2>3. QED
    BY <1>1, <2>2 DEF JobShape
<1>7. QED
  BY <1>1, <1>3, <1>4, <1>5, <1>6 DEF TypeOK, RowShape, KeyShape

LEMMA InvGuide == IInv => GuideFollowsKey
<1> SUFFICES ASSUME IInv, NEW k \in Keys, Guide(k) # None
             PROVE  /\ <<Guide(k), Guide(k)>> \in holders[k]
                    /\ \A x \in holders[k] : <<x[1], Guide(k)>> \in holders[k]
  BY DEF GuideFollowsKey
<1>1. GuideOf(k) /\ holders[k] \subseteq Events \X Events
  BY DEF IInv, GuideSound, RowShape
<1>2. CASE \E e \in Events : Exists(e) /\ row[e].slug = k
  <2>1. Guide(k) \in Events /\ HasKey(Guide(k), k)
    BY <1>2 DEF Guide, HasKey
  <2>2. QED
    BY <1>1, <2>1 DEF GuideOf, HadLast
<1>3. CASE ~\E e \in Events : Exists(e) /\ row[e].slug = k
  <2>1. Guide(k) = alias[k] /\ \A e \in Events : ~HasKey(e, k)
    BY <1>3 DEF Guide, HasKey
  <2>2. QED
    BY <1>1, <2>1 DEF GuideOf
<1>4. QED
  BY <1>2, <1>3

\* For any events, rosters, groups and calls: a key that opens an event belongs to a
\* student of its roster whatever was removed while its token was hashed
\* (stream-keys.ts:87-140), a guide link leads to the event that has the key or had it
\* last (events.ts:131-252, guide.get.ts), and a window opens before it closes.
THEOREM CatalogCorrect == Spec => []CatalogInv
<1>1. IInv => CatalogInv
  BY InvTypes, InvGuide DEF CatalogInv, IInv
<1>2. QED
  BY <1>1, Invariance, PTL

\* A token that was handed to an administrator for one student opens no other event and
\* no other student's name, however the calls that made tokens interleave with each other,
\* with removals and with event tokens (authorizePublish, access-control.ts).
THEOREM TokensCorrect == Spec => []TokensStayPersonal
<1>1. ASSUME IInv, NEW h \in handed, NEW n \in 1 .. Names, NEW e \in Events,
             e \in Admits(n, h.tok)
      PROVE  e = h.of /\ keys[e][n].enr[1] = h.student
  <2>1. h \in Given /\ h.tok \in Nat
    BY <1>1 DEF IInv, Given, JobShape, MadeRows, Positive
  <2>2. e \notin OfToken(h.tok)
    BY <1>1, <2>1 DEF IInv, TokensApart, OfToken
  <2>3. e \notin OfKey(h.tok)
    <3>1. ASSUME Exists(e) PROVE row[e].key \in Keys \cup {None}
      BY <1>1, <3>1, RowTypes DEF IInv, EventRows
    <3>2. h.tok \notin Keys \cup {None}
      BY <2>1, CatalogAssumption
    <3>3. QED
      BY <3>1, <3>2 DEF OfKey
  <2>4. e \in OfStudent(n, h.tok)
    BY <1>1, <2>2, <2>3 DEF Admits
  <2>5. QED
    BY <1>1, <2>1, <2>4 DEF OfStudent, IInv, TokensApart
<1>2. IInv => TokensStayPersonal
  BY <1>1 DEF TokensStayPersonal
<1>3. QED
  BY <1>2, Invariance, PTL

-----------------------------------------------------------------------------
(* The forms of the dashboard, for any tabs, users, groups, values and        *)
(* bounds.  They share no variable with the catalog.                          *)
\* Rows as a page lists them: a configuration is always there, a secret never shown.
Listed(p, rows) ==
  /\ rows \in [DocsOf(p) -> Row \cup {Gone}]
  /\ p \in Cached => rows[p] \in Row
  /\ p = "mail" => rows[p].b = Blank

\* The requests of a page: a page of one row sends that row, and an answer of the
\* mail form does not bring the secret back.
Requests(p, s) ==
  /\ DOMAIN s \subseteq DocsOf(p) /\ s \in [DOMAIN s -> SentRows]
  /\ ~Locked(p) => DOMAIN s = DocsOf(p)
  /\ p = "mail" => (s[p].at = "stored" => s[p].reply.b = Blank)

\* While its inputs are disabled, a page has no copies but those it has sent, and the
\* one of a group that was opened since and is still as it was loaded.
KeptCopies(p, copies, from, s) ==
  /\ p = "users" => \A d \in DOMAIN s : copies[d] \in {Null, s[d].body}
  /\ p = "groups" => \A d \in DocsOf(p) :
       copies[d] = Null \/ copies[d] = from[d] \/ (d \in DOMAIN s /\ copies[d] = s[d].body)

\* What holds of the form of a tab.
Form(p, rows, copies, from, s, asked, to, away) ==
  /\ p \in Pages
  /\ Listed(p, rows)
  /\ copies \in [DocsOf(p) -> Row \cup {Null}]
  /\ from \in [DocsOf(p) -> Row \cup {Gone}]
  /\ s # Null => Requests(p, s) /\ KeptCopies(p, copies, from, s)
  /\ asked \in BOOLEAN /\ away \in BOOLEAN /\ to \in Pages \cup {Null}
  /\ asked \/ away => to \in Pages

FormOf(t) == Form(page[t], base[t], draft[t], orig[t], sent[t], ask[t], pending[t], leaving[t])

\* The variables of the tabs have a value for each tab.
Shaped ==
  /\ DOMAIN base = Tabs /\ DOMAIN draft = Tabs /\ DOMAIN orig = Tabs /\ DOMAIN sent = Tabs
  /\ page = [t \in Tabs |-> page[t]] /\ pending = [t \in Tabs |-> pending[t]]
  /\ ask = [t \in Tabs |-> ask[t]] /\ leaving = [t \in Tabs |-> leaving[t]]
  /\ confirm \in [Tabs -> Docs \cup {Null}]

FormsTyped == Shaped /\ \A t \in Tabs : FormOf(t)

\* The stored rows, their caches, and the requests nobody waits for.
StoreTyped ==
  /\ table \in [Docs -> Row \cup {Gone}] /\ table["config"] \in Row /\ table["mail"] \in Row
  /\ cache \in [Cached -> Row \cup {Null}] /\ width \in Values
  /\ HotReloaded

LateTyped == late \subseteq Docs \X Row

ConsoleIInv == StoreTyped /\ LateTyped /\ FormsTyped

\* What a page edits, page by page.
LEMMA PageDocs ==
  /\ DocsOf("config") = {"config"} /\ DocsOf("mail") = {"mail"}
  /\ DocsOf("settings") = {"event"} /\ DocsOf("groups") = FormGroups
  /\ DocsOf("users") = Users /\ DocsOf("home") = {"note"}
  /\ \A p \in Pages : DocsOf(p) \subseteq Docs
BY ConsoleAssumption DEF DocsOf, Docs

LEMMA PageNames ==
  Pages \subseteq {"config", "mail", "settings", "groups", "users", "home"}
BY ConsoleAssumption

LEMMA ConfigsAreDocs == Cached \subseteq Docs /\ Blank \in Values
BY ConsoleAssumption DEF Cached, Docs, Blank

\* A row with other fields is a row.
LEMMA RowParts ==
  ASSUME NEW r \in Row
  PROVE  /\ r.a \in Values /\ r.b \in Values
         /\ r = [a |-> r.a, b |-> r.b]
         /\ \A v \in Values : /\ [r EXCEPT !.b = v] \in Row
                              /\ [r EXCEPT !.b = v] = [a |-> r.a, b |-> v]
         /\ \A f \in Fields, v \in Values : [r EXCEPT ![f] = v] \in Row
BY DEF Row, Fields

LEMMA MadeRow ==
  ASSUME NEW x \in Values, NEW y \in Values
  PROVE  [a |-> x, b |-> y] \in Row
BY DEF Row, Fields

\* What the app reads is what is stored.
LEMMA CurrentIsStored ==
  ASSUME StoreTyped, NEW d \in Docs
  PROVE  Current(d) = table[d] /\ (d \in Cached => table[d] \in Row)
BY DEF StoreTyped, HotReloaded, Current, Cached

LEMMA ViewTyped ==
  ASSUME StoreTyped, NEW d \in Docs
  PROVE  /\ View(d) \in Row \cup {Gone}
         /\ d \in Cached => View(d) \in Row
         /\ d = "mail" => View(d).b = Blank
<1>1. CASE d = "mail"
  <2>1. View(d) = Redacted(table["mail"]) /\ table["mail"] \in Row
    BY <1>1, CurrentIsStored DEF View, Cached
  <2>2. View(d) \in Row /\ View(d).b = Blank
    BY <2>1, RowParts, ConfigsAreDocs DEF Redacted
  <2>3. QED
    BY <2>2
<1>2. CASE d # "mail"
  BY <1>2, CurrentIsStored DEF View, StoreTyped
<1>3. QED
  BY <1>1, <1>2

\* A page that is opened lists its rows.
LEMMA LoadedListed ==
  ASSUME StoreTyped, NEW p \in Pages
  PROVE  Listed(p, Loaded(p))
<1>1. Loaded(p) \in [DocsOf(p) -> Row \cup {Gone}]
  BY ViewTyped, PageDocs DEF Loaded
<1>2. p \in Cached => Loaded(p)[p] = View(p) /\ p \in Docs
  BY PageDocs, ConfigsAreDocs DEF Loaded, Cached
<1>3. p = "mail" => p \in Cached
  BY DEF Cached
<1>4. QED
  BY <1>1, <1>2, <1>3, ViewTyped DEF Listed

\* Copies of what a page lists are rows of their own.
LEMMA CopiesTyped ==
  ASSUME NEW p \in Pages, NEW rows, Listed(p, rows)
  PROVE  Copies(p, rows) \in [DocsOf(p) -> Row \cup {Null}]
<1>1. CASE p = "config"
  BY <1>1, PageDocs DEF Copies, Listed, ConfigCopy, Cached
<1>2. CASE p = "mail"
  <2>1. MailCopy(rows["mail"]) \in Row
    BY <1>2, RowParts, ConfigsAreDocs DEF Listed, MailCopy, Cached
  <2>2. QED
    BY <1>2, <2>1, PageDocs DEF Copies
<1>3. CASE p = "settings"
  <2>1. rows["event"] \in Row \cup {Gone}
    BY <1>3, PageDocs DEF Listed
  <2>2. rows["event"] # Gone => SettingsCopy(rows["event"]) \in Row
    BY <2>1, RowParts, MadeRow DEF SettingsCopy, LimitsCopy
  <2>3. QED
    BY <1>3, <2>2, PageDocs DEF Copies
<1>4. CASE p \notin {"config", "mail", "settings"}
  BY <1>4 DEF Copies, NoDrafts
<1>5. QED
  BY <1>1, <1>2, <1>3, <1>4

\* Copies that were just made are not edited, whatever their edits began from.
LEMMA CopiesClean ==
  ASSUME NEW t \in Tabs, page[t] \in Pages, NEW rows, Listed(page[t], rows), NEW from
  PROVE  DirtyIn(t, Copies(page[t], rows), rows, from) = {}
<1> DEFINE copies == Copies(page[t], rows)
<1>1. SUFFICES ASSUME NEW d \in DocsOf(page[t]), copies[d] # Null,
                      EditedIn(page[t], copies[d], rows[d], from[d])
               PROVE  FALSE
  BY DEF DirtyIn
<1>2. CASE page[t] = "config"
  BY <1>1, <1>2, PageDocs DEF Copies, ConfigCopy, EditedIn, ConfigDirty
<1>3. CASE page[t] = "mail"
  <2>1. d = "mail" /\ rows["mail"] \in Row
    BY <1>1, <1>3, PageDocs DEF Listed, Cached
  <2>2. copies[d] = [a |-> rows["mail"].a, b |-> Blank]
    BY <1>3, <2>1, PageDocs, RowParts, ConfigsAreDocs DEF Copies, MailCopy
  <2>3. QED
    BY <1>1, <1>3, <2>1, <2>2 DEF EditedIn, MailDirty
<1>4. CASE page[t] = "settings"
  <2>1. d = "event" /\ rows["event"] \in Row \cup {Gone}
    BY <1>1, <1>4, PageDocs DEF Listed
  <2>2. rows["event"] # Gone => copies[d] = rows["event"]
    BY <1>4, <2>1, PageDocs, RowParts DEF Copies, SettingsCopy, LimitsCopy
  <2>3. QED
    BY <1>1, <1>4, <2>1, <2>2 DEF EditedIn, SettingsDirty
<1>5. CASE page[t] \notin {"config", "mail", "settings"}
  BY <1>1, <1>5 DEF Copies, NoDrafts
<1>6. QED
  BY <1>2, <1>3, <1>4, <1>5

\* What Discard leaves is not edited.
LEMMA DroppedTyped ==
  ASSUME NEW t \in Tabs, FormOf(t)
  PROVE  Dropped(t) \in [DocsOf(page[t]) -> Row \cup {Null}]
<1>1. page[t] \in Pages /\ Listed(page[t], base[t])
      /\ draft[t] \in [DocsOf(page[t]) -> Row \cup {Null}]
  BY DEF FormOf, Form
<1>2. CASE page[t] = "settings" /\ base[t]["event"] = Gone
  BY <1>1, <1>2, PageDocs DEF Dropped, SettingsReset
<1>3. CASE ~(page[t] = "settings" /\ base[t]["event"] = Gone)
  <2>1. Dropped(t) = Copies(page[t], base[t])
    BY <1>1, <1>3, PageDocs DEF Dropped, Copies, ConfigReset, MailReset, SettingsReset
  <2>2. QED
    BY <1>1, <2>1, CopiesTyped
<1>4. QED
  BY <1>2, <1>3

LEMMA DroppedClean ==
  ASSUME NEW t \in Tabs, FormOf(t)
  PROVE  Clean(t, Dropped(t), base[t])
<1>1. page[t] \in Pages /\ Listed(page[t], base[t])
  BY DEF FormOf, Form
<1>2. CASE page[t] = "settings" /\ base[t]["event"] = Gone
  BY <1>2, PageDocs DEF Clean, DirtyIn, EditedIn, SettingsDirty
<1>3. CASE ~(page[t] = "settings" /\ base[t]["event"] = Gone)
  <2>1. Dropped(t) = Copies(page[t], base[t])
    BY <1>1, <1>3, PageDocs DEF Dropped, Copies, ConfigReset, MailReset, SettingsReset
  <2>2. QED
    BY <1>1, <2>1, CopiesClean DEF Clean
<1>4. QED
  BY <1>2, <1>3

\* A page that was just opened.
LEMMA FreshForm ==
  ASSUME StoreTyped, NEW p \in Pages
  PROVE  Form(p, Loaded(p), Copies(p, Loaded(p)), Loaded(p), Null, FALSE, Null, FALSE)
<1>1. Listed(p, Loaded(p)) /\ Copies(p, Loaded(p)) \in [DocsOf(p) -> Row \cup {Null}]
  BY LoadedListed, CopiesTyped
<1>2. Loaded(p) \in [DocsOf(p) -> Row \cup {Gone}]
  BY <1>1 DEF Listed
<1>3. QED
  BY <1>1, <1>2 DEF Form

\* A step of one tab leaves the forms of the others.
Untouched(t) ==
  \A u \in Tabs \ {t} :
    /\ page'[u] = page[u] /\ base'[u] = base[u] /\ draft'[u] = draft[u] /\ orig'[u] = orig[u]
    /\ sent'[u] = sent[u] /\ ask'[u] = ask[u] /\ pending'[u] = pending[u]
    /\ leaving'[u] = leaving[u]

LEMMA OtherForms ==
  ASSUME FormsTyped, NEW t \in Tabs, Untouched(t), Shaped', FormOf(t)'
  PROVE  FormsTyped'
<1>1. ASSUME NEW u \in Tabs \ {t}
      PROVE  FormOf(u)'
  <2>1. FormOf(u)
    BY <1>1 DEF FormsTyped
  <2>2. QED
    BY <1>1, <2>1 DEF Untouched, FormOf
<1>2. QED
  BY <1>1 DEF FormsTyped

\* The page that is entered, after a step of its tab and of no other.
LEMMA EnterForms ==
  ASSUME StoreTyped, FormsTyped, NEW t \in Tabs, NEW p \in Pages, Enter(t, p),
         confirm' \in [Tabs -> Docs \cup {Null}]
  PROVE  FormsTyped'
<1>1. Shaped' /\ Untouched(t)
  BY DEF Enter, FormsTyped, Shaped, Untouched
<1>2. FormOf(t)'
  BY FreshForm DEF Enter, FormOf, FormsTyped, Shaped
<1>3. QED
  BY <1>1, <1>2, OtherForms

-----------------------------------------------------------------------------
\* The store.

LEMMA StoreKept ==
  ASSUME StoreTyped, UNCHANGED server
  PROVE  StoreTyped'
BY DEF StoreTyped, HotReloaded, server

LEMMA WriteStore ==
  ASSUME StoreTyped, NEW d \in Docs, NEW r \in Row, Write(d, r)
  PROVE  StoreTyped'
<1>1. table' = [table EXCEPT ![d] = r] /\ table \in [Docs -> Row \cup {Gone}]
  BY DEF Write, StoreTyped
<1>2. \A e \in Docs : table'[e] = IF e = d THEN r ELSE table[e]
  BY <1>1
<1>3. /\ table' \in [Docs -> Row \cup {Gone}]
      /\ table'["config"] \in Row /\ table'["mail"] \in Row
  BY <1>1, <1>2, ConfigsAreDocs DEF StoreTyped, Cached
<1>4. /\ cache' \in [Cached -> Row \cup {Null}]
      /\ \A e \in Cached : cache'[e] # Null => e # d /\ cache[e] # Null /\ cache'[e] = cache[e]
  BY DEF Write, StoreTyped
<1>5. \A e \in Cached : cache'[e] # Null => cache'[e] = table'[e]
  BY <1>2, <1>4, ConfigsAreDocs DEF StoreTyped, HotReloaded
<1>6. width' \in Values /\ width' = table'["config"].a
  BY <1>2, ConfigsAreDocs, RowParts DEF Write, StoreTyped, HotReloaded, Cached
<1>7. QED
  BY <1>3, <1>4, <1>5, <1>6 DEF StoreTyped, HotReloaded

LEMMA MergedTyped ==
  ASSUME StoreTyped, NEW d \in Docs, NEW body \in Row
  PROVE  Merged(d, body) \in Row
<1>1. Current("mail") \in Row
  BY CurrentIsStored, ConfigsAreDocs DEF Cached
<1>2. MailMerged(body) \in Row
  BY <1>1, RowParts DEF MailMerged
<1>3. QED
  BY <1>2 DEF Merged

LEMMA OrphansTyped ==
  ASSUME NEW t \in Tabs, FormOf(t)
  PROVE  Orphans(t) \subseteq Docs \X Row
<1>1. CASE Saving(t)
  <2>1. DOMAIN sent[t] \subseteq Docs /\ sent[t] \in [DOMAIN sent[t] -> SentRows]
    BY <1>1, PageDocs DEF Saving, FormOf, Form, Requests
  <2>2. \A d \in DOMAIN sent[t] : sent[t][d].body \in Row
    BY <2>1 DEF SentRows
  <2>3. QED
    BY <2>1, <2>2 DEF Orphans
<1>2. CASE ~Saving(t)
  BY <1>2 DEF Orphans
<1>3. QED
  BY <1>1, <1>2

\* The forms stay where only the store moves.
LEMMA FormsKept ==
  ASSUME FormsTyped, UNCHANGED tab
  PROVE  FormsTyped'
<1>1. Shaped'
  BY DEF FormsTyped, Shaped, tab
<1>2. ASSUME NEW t \in Tabs
      PROVE  FormOf(t)'
  BY DEF FormsTyped, FormOf, tab
<1>3. QED
  BY <1>1, <1>2 DEF FormsTyped

LEMMA HandleLateStep ==
  ASSUME ConsoleIInv, NEW x \in late, HandleLate(x)
  PROVE  ConsoleIInv'
<1>1. x[1] \in Docs /\ x[2] \in Row /\ StoreTyped
  BY DEF ConsoleIInv, LateTyped
<1>2. StoreTyped'
  BY <1>1, WriteStore, MergedTyped, StoreKept DEF HandleLate
<1>3. LateTyped' /\ UNCHANGED tab
  BY DEF HandleLate, ConsoleIInv, LateTyped
<1>4. QED
  BY <1>2, <1>3, FormsKept DEF ConsoleIInv

LEMMA SaveSchemasStep ==
  ASSUME ConsoleIInv, SaveSchemas
  PROVE  ConsoleIInv'
<1>1. StoreTyped /\ Current("mail") \in Row
  BY CurrentIsStored, ConfigsAreDocs DEF ConsoleIInv, Cached
<1>2. Redacted(Current("mail")) \in Row
  BY <1>1, RowParts, ConfigsAreDocs DEF Redacted
<1>3. MailMerged(Redacted(Current("mail"))) \in Row /\ "mail" \in Docs
  BY <1>1, <1>2, MergedTyped, ConfigsAreDocs DEF Merged, Cached
<1>4. StoreTyped'
  BY <1>1, <1>3, WriteStore DEF SaveSchemas
<1>5. LateTyped' /\ UNCHANGED tab
  BY DEF SaveSchemas, ConsoleIInv, LateTyped
<1>6. QED
  BY <1>4, <1>5, FormsKept DEF ConsoleIInv

LEMMA PopStep ==
  ASSUME ConsoleIInv, PopAnnouncement
  PROVE  ConsoleIInv'
<1>1. StoreTyped /\ Current("config") = table["config"] /\ table["config"] \in Row
      /\ "config" \in Docs
  BY CurrentIsStored, ConfigsAreDocs DEF ConsoleIInv, Cached
<1> DEFINE r == [Current("config") EXCEPT !.b = @ - 1]
<1>2. r \in Row /\ r.a = table["config"].a
  <2>1. table["config"].b > 0
    BY <1>1 DEF PopAnnouncement
  <2>2. table["config"].b - 1 \in Values
    BY <1>1, <2>1, RowParts, ConsoleAssumption
  <2>3. r = [table["config"] EXCEPT !.b = table["config"].b - 1]
    BY <1>1
  <2>4. QED
    BY <1>1, <2>2, <2>3, RowParts
<1>3. Write("config", r)
  <2>1. width' = r.a
    BY <1>1, <1>2 DEF PopAnnouncement, StoreTyped, HotReloaded
  <2>2. table' = [table EXCEPT !["config"] = r] /\ cache' = [cache EXCEPT !["config"] = Null]
    BY DEF PopAnnouncement
  <2>3. QED
    BY <2>1, <2>2 DEF Write, Cached
<1>4. StoreTyped'
  BY <1>1, <1>2, <1>3, WriteStore
<1>5. LateTyped' /\ UNCHANGED tab
  BY DEF PopAnnouncement, ConsoleIInv, LateTyped
<1>6. QED
  BY <1>4, <1>5, FormsKept DEF ConsoleIInv

LEMMA ReadStep ==
  ASSUME ConsoleIInv, NEW d \in Cached, ReadConfig(d)
  PROVE  ConsoleIInv'
<1>1. StoreTyped'
  BY CurrentIsStored, ConfigsAreDocs DEF ConsoleIInv, StoreTyped, HotReloaded, ReadConfig
<1>2. LateTyped' /\ UNCHANGED tab
  BY DEF ReadConfig, ConsoleIInv, LateTyped
<1>3. QED
  BY <1>1, <1>2, FormsKept DEF ConsoleIInv

-----------------------------------------------------------------------------
\* The steps of a tab.

LEMMA LeaveStep ==
  ASSUME ConsoleIInv, NEW t \in Tabs, NEW p \in Pages, Leave(t, p)
  PROVE  ConsoleIInv'
<1>1. StoreTyped' /\ UNCHANGED confirm
  BY StoreKept DEF Leave, ConsoleIInv, server
<1>2. LateTyped'
  BY OrphansTyped DEF Leave, ConsoleIInv, LateTyped, FormsTyped
<1>3. CASE HeldBack(t) /\ UNCHANGED <<late, page, base, draft, orig, sent, leaving>>
           /\ ask' = [ask EXCEPT ![t] = TRUE] /\ pending' = [pending EXCEPT ![t] = p]
  <2>1. Shaped' /\ Untouched(t)
    BY <1>1, <1>3 DEF ConsoleIInv, FormsTyped, Shaped, Untouched
  <2>2. FormOf(t)'
    BY <1>3 DEF ConsoleIInv, FormsTyped, Shaped, FormOf, Form
  <2>3. QED
    BY <1>1, <1>2, <2>1, <2>2, OtherForms DEF ConsoleIInv
<1>4. CASE Enter(t, p)
  BY <1>1, <1>2, <1>4, EnterForms DEF ConsoleIInv, FormsTyped, Shaped
<1>5. QED
  BY <1>3, <1>4 DEF Leave

LEMMA StayStep ==
  ASSUME ConsoleIInv, NEW t \in Tabs, Stay(t)
  PROVE  ConsoleIInv'
<1>1. StoreTyped' /\ LateTyped'
  BY StoreKept DEF Stay, ConsoleIInv, LateTyped, server
<1>2. Shaped' /\ Untouched(t)
  BY DEF Stay, ConsoleIInv, FormsTyped, Shaped, Untouched
<1>3. FormOf(t)'
  BY DEF Stay, ConsoleIInv, FormsTyped, Shaped, FormOf, Form
<1>4. QED
  BY <1>1, <1>2, <1>3, OtherForms DEF ConsoleIInv

\* A step that only opens or closes the dialog of a deletion.
LEMMA ConfirmStep ==
  ASSUME ConsoleIInv, confirm' \in [Tabs -> Docs \cup {Null}],
         UNCHANGED <<server, late, page, base, draft, orig, sent, ask, pending, leaving>>
  PROVE  ConsoleIInv'
<1>1. StoreTyped' /\ LateTyped'
  BY StoreKept DEF ConsoleIInv, LateTyped, server
<1>2. Shaped'
  BY DEF ConsoleIInv, FormsTyped, Shaped
<1>3. ASSUME NEW t \in Tabs
      PROVE  FormOf(t)'
  BY DEF ConsoleIInv, FormsTyped, FormOf
<1>4. QED
  BY <1>1, <1>2, <1>3 DEF ConsoleIInv, FormsTyped

LEMMA StartEditStep ==
  ASSUME ConsoleIInv, NEW t \in Tabs, NEW d \in DocsOf(page[t]), StartEdit(t, d)
  PROVE  ConsoleIInv'
<1>1. StoreTyped' /\ LateTyped'
  BY StoreKept DEF StartEdit, ConsoleIInv, LateTyped, server
<1>2. Shaped' /\ Untouched(t)
  BY DEF StartEdit, ConsoleIInv, FormsTyped, Shaped, Untouched
<1>3. FormOf(t) /\ base[t][d] \in Row /\ page[t] \in {"groups", "home"}
  BY DEF StartEdit, ConsoleIInv, FormsTyped, FormOf, Form, Listed
<1>4. /\ draft'[t] = [e \in DocsOf(page[t]) |-> IF e = d THEN base[t][d] ELSE Null]
      /\ orig'[t] = [orig[t] EXCEPT ![d] = base[t][d]]
  BY DEF StartEdit, ConsoleIInv, FormsTyped, Shaped, NoDrafts
<1>5. /\ draft'[t] \in [DocsOf(page[t]) -> Row \cup {Null}]
      /\ orig'[t] \in [DocsOf(page[t]) -> Row \cup {Gone}]
      /\ \A e \in DocsOf(page[t]) : draft'[t][e] = Null \/ draft'[t][e] = orig'[t][e]
  BY <1>3, <1>4 DEF FormOf, Form
<1>6. sent[t] # Null =>
        Requests(page[t], sent[t]) /\ KeptCopies(page[t], draft'[t], orig'[t], sent[t])
  BY <1>3, <1>5 DEF FormOf, Form, KeptCopies
<1>7. FormOf(t)'
  BY <1>3, <1>5, <1>6 DEF StartEdit, FormOf, Form
<1>8. QED
  BY <1>1, <1>2, <1>7, OtherForms DEF ConsoleIInv

LEMMA TypedStep ==
  ASSUME ConsoleIInv, NEW t \in Tabs, NEW d \in DocsOf(page[t]), NEW f \in Fields,
         NEW v \in Values, Typed(t, d, f, v)
  PROVE  ConsoleIInv'
<1>1. StoreTyped' /\ LateTyped'
  BY StoreKept DEF Typed, ConsoleIInv, LateTyped, server
<1>2. Shaped' /\ Untouched(t)
  BY DEF Typed, ConsoleIInv, FormsTyped, Shaped, Untouched
<1>3. FormOf(t) /\ base[t][d] \in Row
  BY DEF Typed, Editable, ConsoleIInv, FormsTyped, FormOf, Form, Listed
<1>4. EnsureDraft(t, d) \in Row
  BY <1>3 DEF EnsureDraft, FormOf, Form
<1>5. [EnsureDraft(t, d) EXCEPT ![f] = v] \in Row
  BY <1>4, RowParts
<1>6. /\ draft'[t] = [draft[t] EXCEPT ![d] = [EnsureDraft(t, d) EXCEPT ![f] = v]]
      /\ orig'[t] \in {orig[t], [orig[t] EXCEPT ![d] = base[t][d]]}
  <2>1. orig'[t] = [orig[t] EXCEPT ![d] = IF draft[t][d] = Null THEN base[t][d] ELSE orig[t][d]]
    BY DEF Typed, ConsoleIInv, FormsTyped, Shaped
  <2>2. orig[t] = [orig[t] EXCEPT ![d] = orig[t][d]]
    BY <1>3 DEF FormOf, Form
  <2>3. QED
    BY <2>1, <2>2 DEF Typed, ConsoleIInv, FormsTyped, Shaped
<1>7. /\ draft'[t] \in [DocsOf(page[t]) -> Row \cup {Null}]
      /\ orig'[t] \in [DocsOf(page[t]) -> Row \cup {Gone}]
  BY <1>3, <1>5, <1>6 DEF FormOf, Form
<1>8. sent[t] # Null => page[t] \notin {"users", "groups"}
  BY DEF Typed, Editable, Locked, Saving
<1>9. FormOf(t)'
  BY <1>3, <1>7, <1>8 DEF Typed, FormOf, Form, KeptCopies
<1>10. QED
  BY <1>1, <1>2, <1>9, OtherForms DEF ConsoleIInv

LEMMA DiscardStep ==
  ASSUME ConsoleIInv, NEW t \in Tabs, Discard(t)
  PROVE  ConsoleIInv'
<1>1. StoreTyped' /\ LateTyped'
  BY StoreKept DEF Discard, ConsoleIInv, LateTyped, server
<1>2. Shaped' /\ Untouched(t)
  BY DEF Discard, ConsoleIInv, FormsTyped, Shaped, Untouched
<1>3. FormOf(t) /\ draft'[t] = Dropped(t) /\ sent[t] = Null
  BY DEF Discard, Saving, ConsoleIInv, FormsTyped, Shaped
<1>4. FormOf(t)'
  BY <1>3, DroppedTyped DEF Discard, FormOf, Form
<1>5. QED
  BY <1>1, <1>2, <1>4, OtherForms DEF ConsoleIInv

\* Nothing is held back a second time after Discard.
LEMMA DiscardLeaves ==
  ASSUME ConsoleIInv, NEW t \in Tabs, DiscardAndLeave(t)
  PROVE  Enter(t, pending[t]) /\ pending[t] \in Pages
<1>1. FormOf(t)
  BY DEF ConsoleIInv, FormsTyped
<1>2. Enter(t, pending[t])
  BY <1>1, DroppedClean DEF DiscardAndLeave
<1>3. QED
  BY <1>1, <1>2 DEF DiscardAndLeave, FormOf, Form

LEMMA DiscardAndLeaveStep ==
  ASSUME ConsoleIInv, NEW t \in Tabs, DiscardAndLeave(t)
  PROVE  ConsoleIInv'
<1>1. StoreTyped' /\ LateTyped' /\ UNCHANGED confirm
  BY StoreKept DEF DiscardAndLeave, ConsoleIInv, LateTyped, server
<1>2. QED
  BY <1>1, DiscardLeaves, EnterForms DEF ConsoleIInv, FormsTyped, Shaped

\* A save sends copies that are there, and a page of one row that row.
LEMMA SendStep ==
  ASSUME ConsoleIInv, NEW t \in Tabs, NEW docs \in SUBSET DocsOf(page[t]), Send(t, docs),
         \A d \in docs : draft[t][d] # Null, page[t] = "groups" => docs = DirtyDocs(t)
  PROVE  ConsoleIInv'
<1>1. StoreTyped' /\ LateTyped'
  BY StoreKept DEF Send, ConsoleIInv, LateTyped, server
<1>2. Shaped' /\ Untouched(t)
  BY DEF Send, ConsoleIInv, FormsTyped, Shaped, Untouched
<1>3. FormOf(t) /\ docs # {}
  BY DEF Send, ConsoleIInv, FormsTyped
<1> DEFINE s == [d \in docs |-> [body |-> draft[t][d], at |-> "wire", reply |-> draft[t][d]]]
<1>4. sent'[t] = s
  BY DEF Send, ConsoleIInv, FormsTyped, Shaped
<1>5. \A d \in docs : draft[t][d] \in Row
  BY <1>3 DEF FormOf, Form
<1>6. Requests(page[t], s)
  <2>1. DOMAIN s = docs /\ s \in [docs -> SentRows]
    BY <1>5 DEF SentRows
  <2>2. ASSUME ~Locked(page[t])
        PROVE  docs = DocsOf(page[t])
    <3>1. page[t] \in {"config", "mail", "settings", "home"}
      BY <1>3, <2>2, PageNames DEF Locked, FormOf, Form
    <3>2. PICK x : DocsOf(page[t]) = {x}
      BY <3>1, PageDocs
    <3>3. QED
      BY <1>3, <3>2
  <2>3. page[t] = "mail" => s[page[t]].at = "wire"
    BY <2>1, <2>2, PageDocs DEF Locked
  <2>4. QED
    BY <2>1, <2>2, <2>3 DEF Requests
<1>7. KeptCopies(page[t], draft[t], orig[t], s)
  <2>1. \A d \in docs : d \in DOMAIN s /\ s[d].body = draft[t][d]
    OBVIOUS
  <2>2. ASSUME page[t] = "groups", NEW d \in DocsOf(page[t])
        PROVE  draft[t][d] = Null \/ draft[t][d] = orig[t][d] \/ d \in docs
    BY <2>2 DEF DirtyDocs, DirtyIn, EditedIn, GroupDirty
  <2>3. DOMAIN s = docs
    OBVIOUS
  <2> HIDE DEF s
  <2>4. QED
    BY <2>1, <2>2, <2>3 DEF KeptCopies
<1>8. leaving'[t] = ask[t] /\ UNCHANGED <<page, base, draft, orig, ask, pending>>
  BY DEF Send, ConsoleIInv, FormsTyped, Shaped
<1> HIDE DEF s
<1>9. FormOf(t)'
  BY <1>3, <1>4, <1>6, <1>7, <1>8 DEF FormOf, Form
<1>10. QED
  BY <1>1, <1>2, <1>9, OtherForms DEF ConsoleIInv

LEMMA SaveStep ==
  ASSUME ConsoleIInv, NEW t \in Tabs, Save(t)
  PROVE  ConsoleIInv'
<1>1. FormOf(t)
  BY DEF ConsoleIInv, FormsTyped
<1>2. /\ DirtyDocs(t) \in SUBSET DocsOf(page[t])
      /\ \A d \in DirtyDocs(t) : draft[t][d] # Null
  BY DEF DirtyDocs, DirtyIn
<1>3. CASE SaveNote(t)
  <2>1. {d \in {"note"} : draft[t][d] # Null} \in SUBSET DocsOf(page[t])
    BY <1>3, PageDocs DEF SaveNote
  <2>2. QED
    BY <1>3, <2>1, SendStep DEF SaveNote
<1>4. CASE ~SaveNote(t)
  <2>1. Send(t, DirtyDocs(t))
    BY <1>4 DEF Save, SaveConfig, SaveMail, SaveSettings, SaveEdit, SaveAll
  <2>2. QED
    BY <1>2, <2>1, SendStep
<1>5. QED
  BY <1>3, <1>4

\* A request that was handled.
LEMMA HandledForm ==
  ASSUME ConsoleIInv, NEW t \in Tabs, sent[t] # Null, NEW d \in DOMAIN sent[t],
         NEW at \in {"stored", "refused"}, NEW reply \in Row,
         Settle(t, d, at, reply),
         d = "mail" /\ at = "stored" => reply.b = Blank,
         UNCHANGED <<page, base, draft, orig, ask, pending, confirm, leaving>>
  PROVE  FormsTyped'
<1>1. Shaped' /\ Untouched(t)
  BY DEF ConsoleIInv, FormsTyped, Shaped, Untouched, Settle
<1>2. FormOf(t)
  BY DEF ConsoleIInv, FormsTyped
<1>3. Requests(page[t], sent[t]) /\ KeptCopies(page[t], draft[t], orig[t], sent[t])
  BY <1>2 DEF FormOf, Form
<1>4. sent'[t] = [sent[t] EXCEPT ![d] = [body |-> sent[t][d].body, at |-> at, reply |-> reply]]
  BY DEF ConsoleIInv, FormsTyped, Shaped, Settle
<1>5. sent[t] \in [DOMAIN sent[t] -> SentRows]
  BY <1>3 DEF Requests
<1>6. [body |-> sent[t][d].body, at |-> at, reply |-> reply] \in SentRows
  BY <1>5 DEF SentRows
<1>7. DOMAIN sent'[t] = DOMAIN sent[t] /\ sent'[t] \in [DOMAIN sent[t] -> SentRows]
  BY <1>4, <1>5, <1>6
<1>8. \A e \in DOMAIN sent[t] : sent'[t][e].body = sent[t][e].body
  BY <1>4, <1>5
<1>9. page[t] = "mail" => d = "mail" /\ sent'[t]["mail"].at = at /\ sent'[t]["mail"].reply = reply
  <2>1. page[t] = "mail" => d = "mail"
    BY <1>3, PageDocs DEF Requests
  <2>2. sent'[t][d].at = at /\ sent'[t][d].reply = reply
    BY <1>4, <1>5
  <2>3. QED
    BY <2>1, <2>2
<1>10. Requests(page[t], sent'[t])
  BY <1>3, <1>7, <1>9 DEF Requests
<1>11. KeptCopies(page[t], draft[t], orig[t], sent'[t])
  BY <1>3, <1>7, <1>8 DEF KeptCopies
<1>12. FormOf(t)'
  BY <1>2, <1>10, <1>11 DEF FormOf, Form
<1>13. QED
  BY <1>1, <1>12, OtherForms DEF ConsoleIInv

LEMMA HandleStep ==
  ASSUME ConsoleIInv, NEW t \in Tabs, NEW d \in DocsOf(page[t]), Handle(t, d)
  PROVE  ConsoleIInv'
<1>1. FormOf(t) /\ sent[t] # Null /\ d \in DOMAIN sent[t]
  BY DEF Handle, Saving, ConsoleIInv, FormsTyped
<1>2. sent[t] \in [DOMAIN sent[t] -> SentRows] /\ d \in Docs
  BY <1>1, PageDocs DEF FormOf, Form, Requests
<1>3. /\ sent[t][d].body \in Row /\ sent[t][d].reply \in Row
      /\ sent[t][d] = [body |-> sent[t][d].body, at |-> sent[t][d].at, reply |-> sent[t][d].reply]
  BY <1>1, <1>2 DEF SentRows
<1>4. LateTyped' /\ UNCHANGED <<page, base, draft, orig, ask, pending, confirm, leaving>>
  BY DEF Handle, ConsoleIInv, LateTyped
<1>5. DOMAIN sent = Tabs
  BY DEF ConsoleIInv, FormsTyped, Shaped
<1>6. CASE /\ Write(d, Merged(d, sent[t][d].body))
           /\ Settle(t, d, "stored", IF d = "mail" THEN Redacted(sent[t][d].body) ELSE sent[t][d].body)
  <2> DEFINE reply == IF d = "mail" THEN Redacted(sent[t][d].body) ELSE sent[t][d].body
  <2>1. reply \in Row /\ (d = "mail" => reply.b = Blank)
    BY <1>3, RowParts, ConfigsAreDocs DEF Redacted
  <2>2. StoreTyped'
    BY <1>2, <1>3, <1>6, MergedTyped, WriteStore DEF ConsoleIInv
  <2>3. Settle(t, d, "stored", reply)
    BY <1>6
  <2> HIDE DEF reply
  <2>4. FormsTyped'
    BY <1>1, <1>4, <2>1, <2>3, HandledForm
  <2>5. QED
    BY <1>4, <2>2, <2>4 DEF ConsoleIInv
<1>7. CASE Settle(t, d, "refused", sent[t][d].reply) /\ UNCHANGED server
  <2>1. StoreTyped'
    BY <1>7, StoreKept DEF ConsoleIInv
  <2>2. FormsTyped'
    BY <1>1, <1>3, <1>4, <1>7, HandledForm
  <2>3. QED
    BY <1>4, <2>1, <2>2 DEF ConsoleIInv
<1>8. QED
  BY <1>6, <1>7 DEF Handle

\* What a page shows after its save.
LEMMA AnswerListed ==
  ASSUME ConsoleIInv, NEW t \in Tabs, Saving(t),
         \A d \in DOMAIN sent[t] : sent[t][d].at = "stored"
  PROVE  Listed(page[t], Answer(t))
<1>1. page[t] \in Pages /\ Requests(page[t], sent[t])
  BY DEF ConsoleIInv, FormsTyped, FormOf, Form, Saving
<1>2. CASE Locked(page[t])
  BY <1>1, <1>2, LoadedListed DEF Answer, ConsoleIInv
<1>3. CASE ~Locked(page[t])
  <2>1. DOMAIN sent[t] = DocsOf(page[t]) /\ sent[t] \in [DOMAIN sent[t] -> SentRows]
    BY <1>1, <1>3 DEF Requests
  <2>2. \A d \in DocsOf(page[t]) : sent[t][d].reply \in Row
    BY <2>1 DEF SentRows
  <2>3. Answer(t) = [d \in DocsOf(page[t]) |-> sent[t][d].reply]
    BY <1>3 DEF Answer
  <2>4. page[t] \in Cached => page[t] \in DocsOf(page[t])
    BY PageDocs DEF Cached
  <2>5. page[t] = "mail" => "mail" \in DocsOf(page[t]) /\ sent[t]["mail"].reply.b = Blank
    BY <1>1, <2>1, PageDocs DEF Requests
  <2>6. QED
    BY <2>2, <2>3, <2>4, <2>5 DEF Listed
<1>4. QED
  BY <1>2, <1>3

\* A Save & leave that succeeded is held back by nothing.
LEMMA SavedLeaves ==
  ASSUME ConsoleIInv, NEW t \in Tabs, Saved(t), leaving[t]
  PROVE  Enter(t, pending[t]) /\ pending[t] \in Pages
<1>1. FormOf(t) /\ Listed(page[t], Answer(t))
  BY AnswerListed DEF Saved, ConsoleIInv, FormsTyped
<1>2. page[t] \in Pages /\ pending[t] \in Pages
  BY <1>1 DEF FormOf, Form
<1>3. Clean(t, Copies(page[t], Answer(t)), Answer(t))
  BY <1>1, <1>2, CopiesClean DEF Clean
<1>4. Enter(t, pending[t])
  BY <1>3 DEF Saved
<1>5. QED
  BY <1>2, <1>4

LEMMA SavedStep ==
  ASSUME ConsoleIInv, NEW t \in Tabs, Saved(t)
  PROVE  ConsoleIInv'
<1>1. StoreTyped' /\ LateTyped' /\ UNCHANGED confirm
  BY StoreKept DEF Saved, ConsoleIInv, LateTyped, server
<1>2. CASE leaving[t]
  BY <1>1, <1>2, SavedLeaves, EnterForms DEF ConsoleIInv, FormsTyped, Shaped
<1>3. CASE ~leaving[t]
  <2>1. /\ base' = [base EXCEPT ![t] = Answer(t)]
        /\ draft' = [draft EXCEPT ![t] = Copies(page[t], Answer(t))]
        /\ orig' = [orig EXCEPT ![t] = Answer(t)]
        /\ sent' = [sent EXCEPT ![t] = Null]
        /\ leaving' = [leaving EXCEPT ![t] = FALSE]
        /\ UNCHANGED <<page, ask, pending>>
    BY <1>3 DEF Saved
  <2>2. Shaped' /\ Untouched(t)
    BY <1>1, <2>1 DEF ConsoleIInv, FormsTyped, Shaped, Untouched
  <2>3. FormOf(t) /\ Listed(page[t], Answer(t))
    BY AnswerListed DEF Saved, ConsoleIInv, FormsTyped
  <2>4. Copies(page[t], Answer(t)) \in [DocsOf(page[t]) -> Row \cup {Null}]
    BY <2>3, CopiesTyped DEF FormOf, Form
  <2>5. /\ base'[t] = Answer(t) /\ draft'[t] = Copies(page[t], Answer(t))
        /\ orig'[t] = Answer(t) /\ sent'[t] = Null /\ leaving'[t] = FALSE
    BY <2>1 DEF ConsoleIInv, FormsTyped, Shaped
  <2>6. Answer(t) \in [DocsOf(page[t]) -> Row \cup {Gone}]
    BY <2>3 DEF Listed
  <2>7. FormOf(t)'
    BY <2>1, <2>3, <2>4, <2>5, <2>6 DEF FormOf, Form
  <2>8. QED
    BY <1>1, <2>2, <2>7, OtherForms DEF ConsoleIInv
<1>4. QED
  BY <1>2, <1>3

LEMMA SaveFailedStep ==
  ASSUME ConsoleIInv, NEW t \in Tabs, SaveFailed(t)
  PROVE  ConsoleIInv'
<1>1. StoreTyped' /\ UNCHANGED confirm
  BY StoreKept DEF SaveFailed, ConsoleIInv, server
<1>2. LateTyped'
  BY OrphansTyped DEF SaveFailed, ConsoleIInv, LateTyped, FormsTyped
<1>3. Shaped' /\ Untouched(t)
  BY <1>1 DEF SaveFailed, ConsoleIInv, FormsTyped, Shaped, Untouched
<1>4. FormOf(t) /\ base'[t] = (IF page[t] = "users" THEN Loaded("users") ELSE base[t])
      /\ sent'[t] = Null /\ leaving'[t] = FALSE
  BY DEF SaveFailed, ConsoleIInv, FormsTyped, Shaped
<1>5. Listed(page[t], base'[t])
  BY <1>4, LoadedListed DEF ConsoleIInv, FormOf, Form
<1>6. FormOf(t)'
  BY <1>4, <1>5 DEF SaveFailed, FormOf, Form
<1>7. QED
  BY <1>1, <1>2, <1>3, <1>6, OtherForms DEF ConsoleIInv

\* A page lists its rows again beneath its copies, some of which it may have dropped.
LEMMA RelistStep ==
  ASSUME ConsoleIInv, NEW t \in Tabs, NEW rows, Listed(page[t], rows),
         base' = [base EXCEPT ![t] = rows],
         \/ UNCHANGED draft
         \/ page[t] = "users" /\ \E u \in Users : draft' = [draft EXCEPT ![t][u] = Null],
         confirm' \in [Tabs -> Docs \cup {Null}],
         UNCHANGED <<late, page, orig, sent, ask, pending, leaving>>, StoreTyped'
  PROVE  ConsoleIInv'
<1>1. Shaped' /\ Untouched(t)
  BY DEF ConsoleIInv, FormsTyped, Shaped, Untouched
<1>2. FormOf(t) /\ base'[t] = rows
  BY DEF ConsoleIInv, FormsTyped, Shaped
<1>3. \/ draft'[t] = draft[t]
      \/ page[t] = "users" /\ \E u \in Users : draft'[t] = [draft[t] EXCEPT ![u] = Null]
  BY DEF ConsoleIInv, FormsTyped, Shaped
<1>4. /\ draft'[t] \in [DocsOf(page[t]) -> Row \cup {Null}]
      /\ sent[t] # Null => KeptCopies(page[t], draft'[t], orig[t], sent[t])
  <2>1. CASE draft'[t] = draft[t]
    BY <1>2, <2>1 DEF FormOf, Form
  <2>2. CASE page[t] = "users" /\ \E u \in Users : draft'[t] = [draft[t] EXCEPT ![u] = Null]
    <3>1. draft'[t] \in [Users -> Row \cup {Null}]
          /\ \A d \in Users : draft'[t][d] \in {draft[t][d], Null}
      BY <1>2, <2>2, PageDocs DEF FormOf, Form
    <3>2. sent[t] # Null => DOMAIN sent[t] \subseteq Users
      BY <1>2, <2>2, PageDocs DEF FormOf, Form, Requests
    <3>3. QED
      BY <1>2, <2>2, <3>1, <3>2, PageDocs DEF FormOf, Form, KeptCopies
  <2>3. QED
    BY <1>3, <2>1, <2>2
<1>5. FormOf(t)'
  BY <1>2, <1>4 DEF FormOf, Form
<1>6. LateTyped'
  BY DEF ConsoleIInv, LateTyped
<1>7. QED
  BY <1>1, <1>5, <1>6, OtherForms DEF ConsoleIInv

LEMMA RereadStep ==
  ASSUME ConsoleIInv, NEW t \in Tabs, NEW p \in {"groups", "users"}, Reread(t, p)
  PROVE  ConsoleIInv'
<1>1. page[t] \in Pages /\ page[t] = p
  BY DEF Reread, ConsoleIInv, FormsTyped, FormOf, Form
<1>2. Listed(page[t], Loaded(page[t])) /\ StoreTyped'
  BY <1>1, LoadedListed, StoreKept DEF Reread, ConsoleIInv
<1>3. confirm' \in [Tabs -> Docs \cup {Null}]
  BY DEF Reread, ConsoleIInv, FormsTyped, Shaped
<1>4. QED
  BY <1>1, <1>2, <1>3, RelistStep DEF Reread

\* A deletion that was accepted: the rows of the configuration stay.
LEMMA AcceptStore ==
  ASSUME ConsoleIInv, NEW t \in Tabs, NEW d \in FormGroups \cup Users \cup {"event"}, Accept(t, d)
  PROVE  StoreTyped' /\ confirm' \in [Tabs -> Docs \cup {Null}]
<1>1. d \notin Cached
  BY ConsoleAssumption DEF Cached
<1>2. \A e \in Docs : table'[e] = IF e = d THEN Gone ELSE table[e]
  BY DEF Accept, ConsoleIInv, StoreTyped
<1>3. table' \in [Docs -> Row \cup {Gone}]
  BY DEF Accept, ConsoleIInv, StoreTyped
<1>4. \A e \in Cached : table'[e] = table[e]
  BY <1>1, <1>2, ConfigsAreDocs
<1>5. StoreTyped'
  BY <1>3, <1>4 DEF Accept, ConsoleIInv, StoreTyped, HotReloaded, Cached
<1>6. QED
  BY <1>5 DEF Accept, ConsoleIInv, FormsTyped, Shaped

LEMMA RelistedListed ==
  ASSUME ConsoleIInv, NEW t \in Tabs, page[t] \in {"groups", "users"}, NEW d
  PROVE  Listed(page[t], Relisted(t, d))
<1>1. page[t] \in Pages /\ page[t] \notin Cached
  BY DEF ConsoleIInv, FormsTyped, FormOf, Form, Cached
<1>2. Relisted(t, d) \in [DocsOf(page[t]) -> Row \cup {Gone}]
  BY <1>1, ViewTyped, PageDocs DEF Relisted, ConsoleIInv
<1>3. QED
  BY <1>1, <1>2 DEF Listed

LEMMA RemoveGroupStep ==
  ASSUME ConsoleIInv, NEW t \in Tabs, NEW d \in DocsOf(page[t]), RemoveGroup(t, d)
  PROVE  ConsoleIInv'
<1>1. page[t] = "groups" /\ d \in FormGroups
  BY PageDocs DEF RemoveGroup
<1>2. QED
  BY <1>1, AcceptStore, RelistedListed, RelistStep DEF RemoveGroup

LEMMA DeleteUserStep ==
  ASSUME ConsoleIInv, NEW t \in Tabs, NEW d \in DocsOf(page[t]), DeleteUser(t, d)
  PROVE  ConsoleIInv'
<1>1. page[t] = "users" /\ d \in Users
  BY PageDocs DEF DeleteUser
<1>2. QED
  BY <1>1, AcceptStore, RelistedListed, RelistStep DEF DeleteUser

LEMMA DeleteEventStep ==
  ASSUME ConsoleIInv, NEW t \in Tabs, DeleteThisEvent(t)
  PROVE  ConsoleIInv'
<1>1. page[t] \in Pages /\ page[t] = "settings" /\ "home" \in Pages
  BY ConsoleAssumption DEF DeleteThisEvent, ConsoleIInv, FormsTyped, FormOf, Form
<1>2. StoreTyped' /\ confirm' \in [Tabs -> Docs \cup {Null}]
  BY AcceptStore DEF DeleteThisEvent
<1>3. LateTyped'
  BY OrphansTyped DEF DeleteThisEvent, ConsoleIInv, LateTyped, FormsTyped
<1>4. CASE HeldBack(t) /\ UNCHANGED <<late, page, base, draft, orig, sent, leaving>>
           /\ ask' = [ask EXCEPT ![t] = TRUE] /\ pending' = [pending EXCEPT ![t] = "home"]
  <2>1. Shaped' /\ Untouched(t)
    BY <1>2, <1>4 DEF ConsoleIInv, FormsTyped, Shaped, Untouched
  <2>2. FormOf(t)'
    BY <1>1, <1>4 DEF ConsoleIInv, FormsTyped, Shaped, FormOf, Form
  <2>3. QED
    BY <1>2, <1>3, <2>1, <2>2, OtherForms DEF ConsoleIInv
<1>5. CASE Enter(t, "home")
  BY <1>1, <1>2, <1>3, <1>5, EnterForms DEF ConsoleIInv
<1>6. QED
  BY <1>4, <1>5 DEF DeleteThisEvent

LEMMA RestartStep ==
  ASSUME ConsoleIInv, Restart
  PROVE  ConsoleIInv'
<1>1. StoreTyped'
  BY RowParts DEF Restart, ConsoleIInv, StoreTyped, HotReloaded
<1>2. LateTyped' /\ Shaped'
  BY DEF Restart, ConsoleIInv, FormsTyped, LateTyped, Shaped
<1>3. ASSUME NEW t \in Tabs
      PROVE  FormOf(t)'
  <2>1. FormOf(t)
    BY DEF ConsoleIInv, FormsTyped
  <2>2. CASE Saving(t)
    <3> DEFINE s == [d \in DOMAIN sent[t] |-> [sent[t][d] EXCEPT !.at = "refused"]]
    <3>1. sent'[t] = s
      BY <2>2 DEF Restart
    <3>2. Requests(page[t], sent[t]) /\ KeptCopies(page[t], draft[t], orig[t], sent[t])
      BY <2>1, <2>2 DEF FormOf, Form, Saving
    <3>3. DOMAIN s = DOMAIN sent[t] /\ \A d \in DOMAIN sent[t] :
            s[d] \in SentRows /\ s[d].body = sent[t][d].body /\ s[d].at = "refused"
      BY <3>2 DEF Requests, SentRows
    <3>4. s \in [DOMAIN s -> SentRows]
      BY <3>3
    <3>5. page[t] = "mail" => "mail" \in DOMAIN sent[t]
      BY <3>2, PageDocs DEF Requests, Locked
    <3> HIDE DEF s
    <3>6. Requests(page[t], s)
      BY <3>2, <3>3, <3>4, <3>5 DEF Requests
    <3>7. KeptCopies(page[t], draft[t], orig[t], s)
      BY <3>2, <3>3 DEF KeptCopies
    <3>8. QED
      BY <2>1, <3>1, <3>6, <3>7 DEF Restart, FormOf, Form
  <2>3. CASE ~Saving(t)
    <3>1. sent'[t] = Null
      BY <2>3 DEF Restart
    <3>2. QED
      BY <2>1, <3>1 DEF Restart, FormOf, Form
  <2>4. QED
    BY <2>2, <2>3
<1>4. QED
  BY <1>1, <1>2, <1>3 DEF ConsoleIInv, FormsTyped

LEMMA ConsoleBegins == ConsoleInit => ConsoleIInv
<1> SUFFICES ASSUME ConsoleInit
             PROVE  ConsoleIInv
  OBVIOUS
<1>1. StoreTyped
  <2>1. 0 \in Values /\ 1 \in Values
    BY ConsoleAssumption
  <2>2. \A d \in Docs : table[d] = [f \in Fields |-> IF d = "config" THEN 1 ELSE 0]
    BY DEF ConsoleInit
  <2>3. \A d \in Docs : table[d] \in Row
    BY <2>1, <2>2 DEF Row
  <2>4. table["config"].a = 1
    BY <2>2, ConfigsAreDocs, ZenonT(40) DEF Cached, Fields
  <2>5. QED
    BY <2>1, <2>3, <2>4, ConfigsAreDocs DEF ConsoleInit, StoreTyped, HotReloaded, Cached
<1>2. LateTyped /\ Shaped
  BY DEF ConsoleInit, LateTyped, Shaped
<1>3. ASSUME NEW t \in Tabs
      PROVE  FormOf(t)
  <2>1. page[t] \in Pages /\ base[t] = Loaded(page[t]) /\ orig[t] = Loaded(page[t])
        /\ draft[t] = Copies(page[t], Loaded(page[t]))
    BY DEF ConsoleInit
  <2>2. QED
    BY <1>1, <2>1, FreshForm DEF ConsoleInit, FormOf
<1>4. QED
  BY <1>1, <1>2, <1>3 DEF ConsoleIInv, FormsTyped

LEMMA ConsoleStep == ConsoleIInv /\ [ConsoleNext]_consoleVars => ConsoleIInv'
<1> SUFFICES ASSUME ConsoleIInv, [ConsoleNext]_consoleVars
             PROVE  ConsoleIInv'
  OBVIOUS
<1>1. ASSUME NEW t \in Tabs, NEW p \in Pages, Leave(t, p)
      PROVE  ConsoleIInv'
  BY <1>1, LeaveStep
<1>2. ASSUME NEW t \in Tabs, Stay(t) \/ Discard(t) \/ DiscardAndLeave(t)
      PROVE  ConsoleIInv'
  BY <1>2, StayStep, DiscardStep, DiscardAndLeaveStep
<1>3. ASSUME NEW t \in Tabs, NEW d \in DocsOf(page[t]), StartEdit(t, d) \/ Handle(t, d)
      PROVE  ConsoleIInv'
  BY <1>3, StartEditStep, HandleStep
<1>4. ASSUME NEW t \in Tabs, NEW d \in DocsOf(page[t]), AskDelete(t, d)
      PROVE  ConsoleIInv'
  <2>1. d \in Docs
    BY PageDocs DEF ConsoleIInv, FormsTyped, FormOf, Form
  <2>2. confirm' \in [Tabs -> Docs \cup {Null}]
    BY <1>4, <2>1 DEF AskDelete, ConsoleIInv, FormsTyped, Shaped
  <2>3. QED
    BY <1>4, <2>2, ConfirmStep DEF AskDelete
<1>5. ASSUME NEW t \in Tabs, CancelDelete(t)
      PROVE  ConsoleIInv'
  <2>1. confirm' \in [Tabs -> Docs \cup {Null}]
    BY <1>5 DEF CancelDelete, ConsoleIInv, FormsTyped, Shaped
  <2>2. QED
    BY <1>5, <2>1, ConfirmStep DEF CancelDelete
<1>6. ASSUME NEW t \in Tabs, NEW d \in DocsOf(page[t]), RemoveGroup(t, d) \/ DeleteUser(t, d)
      PROVE  ConsoleIInv'
  BY <1>6, RemoveGroupStep, DeleteUserStep
<1>7. ASSUME NEW t \in Tabs, NEW d \in DocsOf(page[t]), NEW f \in Fields, NEW v \in Values,
             Edit(t, d, f, v)
      PROVE  ConsoleIInv'
  BY <1>7, TypedStep DEF Edit, EditForm, EditUser, EditText
<1>8. ASSUME NEW t \in Tabs, Save(t) \/ Saved(t) \/ SaveFailed(t) \/ DeleteThisEvent(t)
      PROVE  ConsoleIInv'
  BY <1>8, SaveStep, SavedStep, SaveFailedStep, DeleteEventStep
<1>9. ASSUME NEW t \in Tabs,
             CreateGroup(t) \/ CreateInvite(t) \/ RemoveInvite(t) \/ SaveAnnouncement(t)
      PROVE  ConsoleIInv'
  BY <1>9, RereadStep DEF CreateGroup, CreateInvite, RemoveInvite, SaveAnnouncement
<1>10. ASSUME \/ \E x \in late : HandleLate(x)
              \/ SaveSchemas \/ PopAnnouncement \/ Restart
              \/ \E d \in Cached : ReadConfig(d)
       PROVE  ConsoleIInv'
  BY <1>10, HandleLateStep, SaveSchemasStep, PopStep, RestartStep, ReadStep
<1>11. CASE UNCHANGED consoleVars
  <2>1. confirm' \in [Tabs -> Docs \cup {Null}]
    BY <1>11 DEF consoleVars, ConsoleIInv, FormsTyped, Shaped
  <2>2. QED
    BY <1>11, <2>1, ConfirmStep DEF consoleVars, server
<1>12. QED
  BY <1>1, <1>2, <1>3, <1>4, <1>5, <1>6, <1>7, <1>8, <1>9, <1>10, <1>11 DEF ConsoleNext

LEMMA ConsoleImplied ==
  ASSUME ConsoleIInv
  PROVE  ConsoleInv
<1>1. page \in [Tabs -> Pages]
  BY DEF ConsoleIInv, FormsTyped, Shaped, FormOf, Form
<1>2. ASSUME NEW t \in Tabs
      PROVE  /\ base[t] \in [DocsOf(page[t]) -> Row \cup {Gone}]
             /\ draft[t] \in [DocsOf(page[t]) -> Row \cup {Null}]
             /\ orig[t] \in [DocsOf(page[t]) -> Row \cup {Gone}]
             /\ sent[t] # Null =>
                  /\ DOMAIN sent[t] \subseteq DocsOf(page[t])
                  /\ \A d \in DOMAIN sent[t] : sent[t][d] \in SentRows
  BY DEF ConsoleIInv, FormsTyped, FormOf, Form, Listed, Requests
<1>3. ask \in [Tabs -> BOOLEAN] /\ leaving \in [Tabs -> BOOLEAN]
      /\ pending \in [Tabs -> Pages \cup {Null}] /\ confirm \in [Tabs -> Docs \cup {Null}]
  BY DEF ConsoleIInv, FormsTyped, Shaped, FormOf, Form
<1>4. HotReloaded /\ table \in [Docs -> Row \cup {Gone}] /\ cache \in [Cached -> Row \cup {Null}]
      /\ width \in Values /\ late \subseteq Docs \X Row
  BY DEF ConsoleIInv, StoreTyped, LateTyped
<1>5. QED
  BY <1>1, <1>2, <1>3, <1>4 DEF ConsoleInv, ConsoleTypeOK

\* However saves, restarts, registrations and reads of a cache overtake each other, no
\* cache holds an older row, the semaphore has the stored width, and no page ends up
\* without the rows or the destination it needs (config-store.ts:26).
THEOREM ConsoleCorrect == ConsoleSpec => []ConsoleInv
<1>1. ConsoleInit => ConsoleIInv
  BY ConsoleBegins
<1>2. ConsoleIInv /\ [ConsoleNext]_consoleVars => ConsoleIInv'
  BY ConsoleStep
<1>3. ConsoleIInv => ConsoleInv
  BY ConsoleImplied
<1>4. QED
  BY <1>1, <1>2, <1>3, PTL DEF ConsoleSpec

-----------------------------------------------------------------------------
\* Nobody is stranded.

LEMMA EnterLands ==
  ASSUME FormsTyped, NEW t \in Tabs, NEW p, Enter(t, p)
  PROVE  page'[t] = p
BY DEF FormsTyped, Shaped, Enter

\* After Discard, and after a Save & leave that succeeded, the page is the one that was
\* asked for: the guard, tried again, finds nothing edited (useUnsavedLeaveGuard.ts).
THEOREM NobodyStranded == ConsoleSpec => NeverStranded
<1>1. ConsoleInit => ConsoleIInv
  BY ConsoleBegins
<1>2. ConsoleIInv /\ [ConsoleNext]_consoleVars => ConsoleIInv'
  BY ConsoleStep
<1>3. ConsoleIInv /\ [ConsoleNext]_consoleVars =>
        [\A t \in Tabs : /\ DiscardAndLeave(t) => page'[t] = pending[t]
                         /\ Saved(t) /\ leaving[t] => page'[t] = pending[t]]_consoleVars
  <2> SUFFICES ASSUME ConsoleIInv, NEW t \in Tabs
               PROVE  /\ DiscardAndLeave(t) => page'[t] = pending[t]
                      /\ Saved(t) /\ leaving[t] => page'[t] = pending[t]
    OBVIOUS
  <2>1. FormsTyped
    BY DEF ConsoleIInv
  <2>2. DiscardAndLeave(t) => page'[t] = pending[t]
    BY <2>1, DiscardLeaves, EnterLands
  <2>3. Saved(t) /\ leaving[t] => page'[t] = pending[t]
    BY <2>1, SavedLeaves, EnterLands
  <2>4. QED
    BY <2>2, <2>3
<1>4. QED
  BY <1>1, <1>2, <1>3, PTL DEF ConsoleSpec, NeverStranded

-----------------------------------------------------------------------------
\* The secret of the mail configuration.

LEMMA WriteSecret ==
  ASSUME StoreTyped, NEW d \in Docs, NEW body \in Row, Write(d, Merged(d, body)),
         table["mail"].b # Blank
  PROVE  table'["mail"].b # Blank
<1>1. Current("mail") = table["mail"] /\ table["mail"] \in Row /\ "mail" \in Docs
  BY CurrentIsStored, ConfigsAreDocs DEF Cached
<1>2. table'["mail"] = IF d = "mail" THEN Merged(d, body) ELSE table["mail"]
  BY <1>1 DEF Write, StoreTyped
<1>3. MailMerged(body).b # Blank
  BY <1>1, RowParts DEF MailMerged
<1>4. QED
  BY <1>2, <1>3 DEF Merged

LEMMA SecretStep ==
  ASSUME ConsoleIInv, [ConsoleNext]_consoleVars, table["mail"].b # Blank
  PROVE  table'["mail"].b # Blank
<1>1. StoreTyped /\ "mail" \in Docs
  BY ConfigsAreDocs DEF ConsoleIInv, Cached
<1>2. ASSUME NEW t \in Tabs, NEW d \in DocsOf(page[t]), Handle(t, d)
      PROVE  table'["mail"].b # Blank
  <2>1. d \in Docs /\ sent[t] \in [DOMAIN sent[t] -> SentRows] /\ d \in DOMAIN sent[t]
    BY <1>2, PageDocs DEF Handle, Saving, ConsoleIInv, FormsTyped, FormOf, Form, Requests
  <2>2. sent[t][d].body \in Row
    BY <2>1 DEF SentRows
  <2>3. QED
    BY <1>1, <1>2, <2>1, <2>2, WriteSecret DEF Handle, server
<1>3. ASSUME NEW x \in late, HandleLate(x)
      PROVE  table'["mail"].b # Blank
  <2>1. x[1] \in Docs /\ x[2] \in Row
    BY DEF ConsoleIInv, LateTyped
  <2>2. QED
    BY <1>1, <1>3, <2>1, WriteSecret DEF HandleLate, server
<1>4. ASSUME SaveSchemas
      PROVE  table'["mail"].b # Blank
  <2>1. Redacted(Current("mail")) \in Row
    BY <1>1, CurrentIsStored, RowParts, ConfigsAreDocs DEF Redacted, Cached
  <2>2. QED
    BY <1>1, <1>4, <2>1, WriteSecret DEF SaveSchemas, Merged
<1>5. ASSUME NEW t \in Tabs, NEW d \in FormGroups \cup Users \cup {"event"}, Accept(t, d)
      PROVE  table'["mail"].b # Blank
  BY <1>1, <1>5, ConsoleAssumption DEF Accept, StoreTyped
<1>6. ASSUME NEW t \in Tabs, NEW d \in DocsOf(page[t]), RemoveGroup(t, d) \/ DeleteUser(t, d)
      PROVE  table'["mail"].b # Blank
  BY <1>5, <1>6, PageDocs DEF RemoveGroup, DeleteUser
<1>7. ASSUME NEW t \in Tabs, DeleteThisEvent(t)
      PROVE  table'["mail"].b # Blank
  BY <1>5, <1>7 DEF DeleteThisEvent
<1>8. ASSUME PopAnnouncement
      PROVE  table'["mail"].b # Blank
  BY <1>1, <1>8 DEF PopAnnouncement, StoreTyped
<1>9. ASSUME NEW t \in Tabs, \/ \E p \in Pages : Leave(t, p)
                             \/ Stay(t) \/ Discard(t) \/ DiscardAndLeave(t)
                             \/ Save(t) \/ Saved(t) \/ SaveFailed(t) \/ CancelDelete(t)
      PROVE  table'["mail"].b # Blank
  BY <1>9 DEF Leave, Stay, Discard, DiscardAndLeave, Save, SaveConfig, SaveMail, SaveSettings,
              SaveEdit, SaveAll, SaveNote, Send, Saved, SaveFailed, CancelDelete, server
<1>10. ASSUME NEW t \in Tabs, NEW d \in DocsOf(page[t]),
              \/ StartEdit(t, d) \/ AskDelete(t, d)
              \/ \E f \in Fields, v \in Values : Edit(t, d, f, v)
       PROVE  table'["mail"].b # Blank
  BY <1>10 DEF StartEdit, AskDelete, Edit, EditForm, EditUser, EditText, Typed, server
<1>11. ASSUME NEW t \in Tabs,
              CreateGroup(t) \/ CreateInvite(t) \/ RemoveInvite(t) \/ SaveAnnouncement(t)
       PROVE  table'["mail"].b # Blank
  BY <1>11 DEF CreateGroup, CreateInvite, RemoveInvite, SaveAnnouncement, Reread, server
<1>12. ASSUME Restart \/ \E d \in Cached : ReadConfig(d)
       PROVE  table'["mail"].b # Blank
  BY <1>12 DEF Restart, ReadConfig
<1>13. CASE UNCHANGED consoleVars
  BY <1>13 DEF consoleVars
<1>14. QED
  BY <1>2, <1>3, <1>4, <1>6, <1>7, <1>8, <1>9, <1>10, <1>11, <1>12, <1>13 DEF ConsoleNext

\* Whatever the mail page, the library of schemas and restarts do, the stored secret is
\* only ever replaced by another (mail-config.ts: an empty secret keeps the stored one).
THEOREM SecretKept == ConsoleSpec => SecretSurvives
<1>1. ConsoleInit => ConsoleIInv
  BY ConsoleBegins
<1>2. ConsoleIInv /\ [ConsoleNext]_consoleVars => ConsoleIInv'
  BY ConsoleStep
<1>3. ConsoleIInv /\ [ConsoleNext]_consoleVars =>
        [table["mail"].b # Blank => table'["mail"].b # Blank]_consoleVars
  BY SecretStep
<1>4. QED
  BY <1>1, <1>2, <1>3, PTL DEF ConsoleSpec, SecretSurvives

-----------------------------------------------------------------------------
\* What was typed is not taken away.

\* A form that neither its page nor its copies leave loses nothing.
LEMMA NothingLost ==
  ASSUME NEW t \in Tabs, page'[t] = page[t], draft'[t] = draft[t], NEW d, NEW f
  PROVE  ~Lost(t, d, f)
BY DEF Lost, Unsaved

LEMMA UnsavedIsDirty ==
  ASSUME ConsoleIInv, NEW t \in Tabs, NEW d \in Docs, NEW f \in Fields, Unsaved(t, d, f),
         page[t] # "home"
  PROVE  Dirty(t)
<1>1. FormOf(t) /\ page[t] \in Pages /\ d \in DocsOf(page[t])
  BY DEF ConsoleIInv, FormsTyped, FormOf, Form, Unsaved
<1>2. draft[t][d] # Null /\ base[t][d] # Gone
      /\ draft[t][d][f] # orig[t][d][f] /\ draft[t][d][f] # base[t][d][f]
  BY DEF Unsaved
<1>3. EditedIn(page[t], draft[t][d], base[t][d], orig[t][d])
  <2>1. CASE page[t] = "mail"
    <3>1. d = "mail" /\ base[t][d].b = Blank /\ f \in {"a", "b"}
      BY <1>1, <2>1, PageDocs DEF FormOf, Form, Listed, Fields
    <3>2. QED
      BY <1>2, <2>1, <3>1 DEF EditedIn, MailDirty
  <2>2. CASE page[t] \in {"config", "settings", "users", "groups"}
    BY <1>2, <2>2 DEF EditedIn, ConfigDirty, SettingsDirty, UserDirty, GroupDirty
  <2>3. QED
    BY <1>1, <2>1, <2>2, PageNames
<1>4. QED
  BY <1>1, <1>2, <1>3 DEF Dirty, DirtyDocs, DirtyIn

LEMMA LeaveReleases ==
  ASSUME ConsoleIInv, NEW t \in Tabs, NEW d \in Docs, NEW f \in Fields, Lost(t, d, f),
         NEW u \in Tabs, NEW p \in Pages, Leave(u, p)
  PROVE  Released(t, d, f)
<1>1. CASE UNCHANGED <<page, draft>>
  BY <1>1, NothingLost
<1>2. CASE Enter(u, p) /\ ~HeldBack(u)
  <2>1. CASE u # t
    BY <1>2, <2>1, NothingLost DEF Enter, ConsoleIInv, FormsTyped, Shaped
  <2>2. CASE u = t
    <3>1. page[t] = "home" \/ Saving(t) \/ ~Dirty(t)
      BY <1>2, <2>2 DEF HeldBack, Guarded
    <3>2. QED
      BY <2>2, <3>1, UnsavedIsDirty DEF Released, Lost
  <2>3. QED
    BY <2>1, <2>2
<1>3. QED
  BY <1>1, <1>2 DEF Leave

LEMMA EditReleases ==
  ASSUME ConsoleIInv, NEW t \in Tabs, NEW d \in Docs, NEW f \in Fields, Lost(t, d, f),
         NEW u \in Tabs, NEW e \in DocsOf(page[u]), NEW g \in Fields, NEW v \in Values,
         Edit(u, e, g, v)
  PROVE  Released(t, d, f)
<1>1. Typed(u, e, g, v)
  BY DEF Edit, EditForm, EditUser, EditText
<1>2. FormOf(t) /\ d \in DocsOf(page[t]) /\ draft[t][d] # Null
  BY DEF ConsoleIInv, FormsTyped, Lost, Unsaved
<1>3. CASE u # t
  BY <1>1, <1>3, NothingLost DEF Typed, ConsoleIInv, FormsTyped, Shaped
<1>4. CASE u = t /\ e = d /\ g = f
  BY <1>4 DEF Released
<1>5. CASE u = t /\ ~(e = d /\ g = f)
  <2>1. draft'[t] = [draft[t] EXCEPT ![e] = [EnsureDraft(t, e) EXCEPT ![g] = v]]
        /\ page' = page
    BY <1>1, <1>5 DEF Typed, ConsoleIInv, FormsTyped, Shaped
  <2>2. draft[t] \in [DocsOf(page[t]) -> Row \cup {Null}] /\ draft[t][d] \in Row
    BY <1>2 DEF FormOf, Form
  <2>3. ~Lost(t, d, f)
    <3>1. CASE e # d
      BY <2>1, <2>2, <3>1 DEF Lost, Unsaved
    <3>2. CASE e = d /\ g # f
      <4>1. draft'[t][d] = [draft[t][d] EXCEPT ![g] = v]
        BY <1>2, <2>1, <2>2, <3>2 DEF EnsureDraft
      <4>2. draft'[t][d] \in Row /\ draft'[t][d][f] = draft[t][d][f]
        BY <2>2, <3>2, <4>1 DEF Row
      <4>3. QED
        BY <2>1, <4>2, ConsoleAssumption DEF Lost
    <3>3. QED
      BY <1>5, <3>1, <3>2
  <2>4. QED
    BY <2>3
<1>6. QED
  BY <1>3, <1>4, <1>5

LEMMA SavedReleases ==
  ASSUME ConsoleIInv, NEW t \in Tabs, NEW d \in Docs, NEW f \in Fields, Lost(t, d, f),
         NEW u \in Tabs, Saved(u)
  PROVE  Released(t, d, f)
<1>1. CASE u # t
  <2>1. page'[t] = page[t] /\ draft'[t] = draft[t]
    BY <1>1 DEF Saved, Enter, ConsoleIInv, FormsTyped, Shaped
  <2>2. QED
    BY <2>1, NothingLost
<1>2. CASE u = t
  <2>1. /\ page[t] \in Pages /\ d \in DocsOf(page[t])
        /\ Requests(page[t], sent[t]) /\ KeptCopies(page[t], draft[t], orig[t], sent[t])
    BY <1>2 DEF Saved, Saving, ConsoleIInv, FormsTyped, FormOf, Form, Lost, Unsaved
  <2>2. draft[t][d] # Null /\ draft[t][d] # orig[t][d]
    BY DEF Lost, Unsaved
  <2>3. CASE page[t] \in {"home", "users"} /\ d \notin DOMAIN sent[t]
    BY <1>2, <2>3 DEF Released
  <2>4. CASE d \in DOMAIN sent[t] /\ Locked(page[t])
    <3>1. draft[t][d] = sent[t][d].body
      BY <2>1, <2>2, <2>4 DEF KeptCopies, Locked
    <3>2. QED
      BY <1>2, <2>4, <3>1 DEF Released
  <2>5. CASE d \in DOMAIN sent[t] /\ ~Locked(page[t])
    BY <1>2, <2>5 DEF Released
  <2>6. CASE page[t] = "groups" /\ d \notin DOMAIN sent[t]
    BY <2>1, <2>2, <2>6 DEF KeptCopies
  <2>7. ~Locked(page[t]) => d \in DOMAIN sent[t]
    BY <2>1 DEF Requests
  <2>8. QED
    BY <2>3, <2>4, <2>5, <2>6, <2>7 DEF Locked
<1>3. QED
  BY <1>1, <1>2

LEMMA DeleteReleases ==
  ASSUME ConsoleIInv, NEW t \in Tabs, NEW d \in Docs, NEW f \in Fields, Lost(t, d, f),
         NEW u \in Tabs, DeleteThisEvent(u) \/ \E e \in DocsOf(page[u]) : DeleteUser(u, e)
  PROVE  Released(t, d, f)
<1>1. CASE DeleteThisEvent(u)
  <2>1. CASE u # t
    <3>1. page'[t] = page[t] /\ draft'[t] = draft[t]
      BY <1>1, <2>1 DEF DeleteThisEvent, Enter, ConsoleIInv, FormsTyped, Shaped
    <3>2. QED
      BY <3>1, NothingLost
  <2>2. CASE u = t
    <3>1. d = "event" /\ confirm[t] = "event"
      BY <1>1, <2>2, PageDocs DEF DeleteThisEvent, Accept, Lost, Unsaved
    <3>2. QED
      BY <3>1 DEF Released
  <2>3. QED
    BY <2>1, <2>2
<1>2. ASSUME NEW e \in DocsOf(page[u]), DeleteUser(u, e)
      PROVE  Released(t, d, f)
  <2>1. page' = page /\ draft' = [draft EXCEPT ![u][e] = Null] /\ confirm[u] = e
    BY <1>2 DEF DeleteUser, Accept
  <2>2. CASE u # t
    BY <2>1, <2>2, NothingLost DEF ConsoleIInv, FormsTyped, Shaped
  <2>3. CASE u = t /\ e = d
    BY <2>1, <2>3 DEF Released
  <2>4. CASE u = t /\ e # d
    <3>1. draft'[t] = [draft[t] EXCEPT ![e] = Null]
      BY <2>1, <2>4 DEF ConsoleIInv, FormsTyped, Shaped
    <3>2. draft[t] \in [DocsOf(page[t]) -> Row \cup {Null}] /\ d \in DocsOf(page[t])
      BY DEF ConsoleIInv, FormsTyped, FormOf, Form, Lost, Unsaved
    <3>3. draft'[t][d] = draft[t][d]
      BY <2>4, <3>1, <3>2
    <3>4. QED
      BY <2>1, <3>3 DEF Lost, Unsaved
  <2>5. QED
    BY <2>2, <2>3, <2>4
<1>3. QED
  BY <1>1, <1>2

LEMMA OwnHandReleases ==
  ASSUME ConsoleIInv, NEW t \in Tabs, NEW d \in Docs, NEW f \in Fields, Lost(t, d, f),
         NEW u \in Tabs,
         \/ Discard(u) \/ DiscardAndLeave(u)
         \/ \E e \in DocsOf(page[u]) : StartEdit(u, e)
  PROVE  Released(t, d, f)
<1>1. CASE u # t
  <2>1. page'[t] = page[t] /\ draft'[t] = draft[t]
    BY <1>1 DEF Discard, DiscardAndLeave, StartEdit, Enter, ConsoleIInv, FormsTyped, Shaped
  <2>2. QED
    BY <2>1, NothingLost
<1>2. CASE u = t /\ (Discard(u) \/ DiscardAndLeave(u))
  BY <1>2 DEF Released
<1>3. CASE u = t /\ \E e \in DocsOf(page[u]) : StartEdit(u, e)
  <2>1. page[t] = "home" \/ (page[t] = "groups" /\ \E e \in FormGroups : StartEdit(t, e))
    BY <1>3, PageDocs DEF StartEdit
  <2>2. QED
    BY <2>1 DEF Released
<1>4. QED
  BY <1>1, <1>2, <1>3

LEMMA EditsStep ==
  ASSUME ConsoleIInv, [ConsoleNext]_consoleVars, NEW t \in Tabs, NEW d \in Docs, NEW f \in Fields,
         Lost(t, d, f)
  PROVE  Released(t, d, f)
<1>1. ASSUME UNCHANGED <<page, draft>>
      PROVE  Released(t, d, f)
  BY <1>1, NothingLost
<1>2. ASSUME NEW u \in Tabs, \E p \in Pages : Leave(u, p)
      PROVE  Released(t, d, f)
  BY <1>2, LeaveReleases
<1>3. ASSUME NEW u \in Tabs, NEW e \in DocsOf(page[u]), NEW g \in Fields, NEW v \in Values,
             Edit(u, e, g, v)
      PROVE  Released(t, d, f)
  BY <1>3, EditReleases
<1>4. ASSUME NEW u \in Tabs, \/ Discard(u) \/ DiscardAndLeave(u)
                             \/ \E e \in DocsOf(page[u]) : StartEdit(u, e)
      PROVE  Released(t, d, f)
  BY <1>4, OwnHandReleases
<1>5. ASSUME NEW u \in Tabs, DeleteThisEvent(u) \/ \E e \in DocsOf(page[u]) : DeleteUser(u, e)
      PROVE  Released(t, d, f)
  BY <1>5, DeleteReleases
<1>6. ASSUME NEW u \in Tabs, Saved(u)
      PROVE  Released(t, d, f)
  BY <1>6, SavedReleases
<1>7. ASSUME NEW u \in Tabs, Stay(u) \/ Save(u) \/ SaveFailed(u) \/ CancelDelete(u)
      PROVE  UNCHANGED <<page, draft>>
  BY <1>7 DEF Stay, Save, SaveConfig, SaveMail, SaveSettings, SaveEdit, SaveAll, SaveNote, Send,
              SaveFailed, CancelDelete
<1>8. ASSUME NEW u \in Tabs, NEW e \in DocsOf(page[u]),
             Handle(u, e) \/ AskDelete(u, e) \/ RemoveGroup(u, e)
      PROVE  UNCHANGED <<page, draft>>
  BY <1>8 DEF Handle, AskDelete, RemoveGroup
<1>9. ASSUME NEW u \in Tabs,
             CreateGroup(u) \/ CreateInvite(u) \/ RemoveInvite(u) \/ SaveAnnouncement(u)
      PROVE  UNCHANGED <<page, draft>>
  BY <1>9 DEF CreateGroup, CreateInvite, RemoveInvite, SaveAnnouncement, Reread
<1>10. ASSUME \/ \E x \in late : HandleLate(x)
              \/ SaveSchemas \/ PopAnnouncement \/ Restart
              \/ \E e \in Cached : ReadConfig(e)
       PROVE  UNCHANGED <<page, draft>>
  BY <1>10 DEF HandleLate, SaveSchemas, PopAnnouncement, Restart, ReadConfig, tab
<1>11. ASSUME UNCHANGED consoleVars
       PROVE  UNCHANGED <<page, draft>>
  BY <1>11 DEF consoleVars
<1>12. QED
  BY <1>1, <1>2, <1>3, <1>4, <1>5, <1>6, <1>7, <1>8, <1>9, <1>10, <1>11 DEF ConsoleNext

\* What was typed leaves a form by the administrator's own hand or because the server has
\* it, whatever refreshes, failures of one of several requests, restarts and other tabs do
\* (users.vue:97 draft.value = {}).
THEOREM EditsStay == ConsoleSpec => EditsSurvive
<1>1. ConsoleInit => ConsoleIInv
  BY ConsoleBegins
<1>2. ConsoleIInv /\ [ConsoleNext]_consoleVars => ConsoleIInv'
  BY ConsoleStep
<1>3. ConsoleIInv /\ [ConsoleNext]_consoleVars =>
        [\A t \in Tabs, d \in Docs, f \in Fields : Lost(t, d, f) => Released(t, d, f)]_consoleVars
  BY EditsStep
<1>4. QED
  BY <1>1, <1>2, <1>3, PTL DEF ConsoleSpec, EditsSurvive
=============================================================================
