---------------------------- MODULE EventCatalog ----------------------------
(***************************************************************************)
(* The event catalog of the app (services/events.ts), the credentials that  *)
(* admit publishers to an event (services/stream-keys.ts, roster.ts,        *)
(* access-control.ts) and the ticker that moves events through their window *)
(* (services/event-lifecycle.ts).  The tables are SQLite's: a handler runs  *)
(* to its next await without interruption, foreign keys are enforced.       *)
(*                                                                          *)
(* A handler that refuses (4xx) changes nothing and is no step.  Stream     *)
(* names are the names derived from one base name, so every generated key   *)
(* clashes with the others of its event; name n is the base with suffix n.  *)
(***************************************************************************)
EXTENDS Naturals, FiniteSets

CONSTANTS
  Events,     \* row ids of events
  Keys,       \* event keys (slugs)
  Groups,     \* row ids of groups
  Students,   \* students of the rosters
  Names,      \* bound: suffixes 1..Names of stream names
  Bodies,     \* bodies of POST /api/events, without the key
  Patches,    \* bodies of PATCH /api/events/:id
  Horizon,    \* bound: the clock runs to Horizon
  MaxCalls,   \* bound: calls of the API that change something
  None, Keep  \* null, and an absent field of a patch

Times == 1..Horizon
Statuses == {"draft", "scheduled", "live", "ended", "archived"}

\* Rows of events with their groups, and of stream_keys.
EventRows == [slug : Keys, key : Keys \cup {None}, token : Nat, starts : Times \cup {None},
              ends : Times \cup {None}, status : Statuses, groups : SUBSET Groups]
KeyRows == [enr : (Students \X (Nat \ {0})) \cup {None}, tok : Nat \ {0}, revoked : BOOLEAN]

ASSUME CatalogAssumption ==
  /\ None \notin Nat \cup EventRows \cup KeyRows /\ Keys \cap Nat = {}
  /\ Names \in Nat \ {0} /\ Horizon \in Nat /\ MaxCalls \in Nat
  /\ \A b \in Bodies :
       /\ b.starts \in Times \cup {None} /\ b.ends \in Times \cup {None}
       /\ b.status \in Statuses /\ b.groups \subseteq Groups
  /\ \A p \in Patches :
       /\ p.slug \in Keys \cup {Keep}
       /\ p.starts \in Times \cup {None, Keep} /\ p.ends \in Times \cup {None, Keep}
       /\ p.status \in Statuses \cup {Keep}
       /\ p.groups = Keep \/ p.groups \subseteq Groups

VARIABLES
  row,      \* events: None or the row with its groups
  alias,    \* event_slug_aliases: retired key -> event
  groups,   \* groups that exist
  enrolled, \* event_enrollments: event -> student -> row id, 0 = none
  keys,     \* stream_keys: event -> name -> None or the row
  hashing,  \* handlers that wait for hashToken
  now,      \* the clock
  seq,      \* last token or row id given out
  calls,
  handed,   \* history: tokens returned to the administrator, and for whom
  holders   \* history: key -> pairs of events that had it, the second no earlier

catalogVars == <<row, alias, groups>>
keyVars == <<enrolled, keys, hashing, seq>>
histVars == <<handed, holders>>
vars == <<catalogVars, keyVars, now, calls, histVars>>

-----------------------------------------------------------------------------
Exists(e) == row[e] # None
Free(k, e) == \A f \in Events \ {e} : Exists(f) => row[f].slug # k

Init ==
  /\ row = [e \in Events |-> None]
  /\ alias = [k \in Keys |-> None]
  /\ groups = Groups
  /\ enrolled = [e \in Events |-> [s \in Students |-> 0]]
  /\ keys = [e \in Events |-> [n \in 1..Names |-> None]]
  /\ hashing = {}
  /\ now = 0 /\ seq = 0 /\ calls = 0
  /\ handed = {}
  /\ holders = [k \in Keys |-> {}]

\* One more call of the API.
Call == calls < MaxCalls /\ calls' = calls + 1

-----------------------------------------------------------------------------
(* Events.                                                                  *)

\* The rows of event_groups are deleted, then inserted; a group that is gone
\* fails the insert after the delete.
SetEventGroups(G) == IF G \subseteq groups THEN G ELSE {}

\* Mutant: the window is not checked on creation and update.
WindowUnchecked(status, s, t) == status = "scheduled" => s # None /\ t # None

WindowAllowed(status, s, t) ==
  /\ status = "scheduled" => s # None /\ t # None
  /\ s # None /\ t # None => s < t

\* The event had the key last of those that are there.
Without(e, H) == {x \in H : e \notin {x[1], x[2]}}
AsLatest(e, H) == H \cup (({x[1] : x \in H} \cup {e}) \X {e})
Holds(e, k) == holders' = [holders EXCEPT ![k] = AsLatest(e, Without(e, @))]

\* A failure to insert the groups leaves the row, and the alias with it.
CreateEvent(e, k, b) ==
  /\ Call
  /\ ~Exists(e)
  /\ Free(k, e)
  /\ WindowAllowed(b.status, b.starts, b.ends)
  /\ row' = [row EXCEPT ![e] = [slug |-> k, key |-> k, token |-> 0,
                                starts |-> b.starts, ends |-> b.ends, status |-> b.status,
                                groups |-> SetEventGroups(b.groups)]]
  /\ alias' = IF b.groups \subseteq groups THEN [alias EXCEPT ![k] = None] ELSE alias
  /\ Holds(e, k)
  /\ UNCHANGED <<groups, keyVars, now, handed>>

Patched(field, old) == IF field = Keep THEN old ELSE field

\* patch ?? existing: a bound the patch clears is checked with its old value.
Checked(field, old) == IF field \in {Keep, None} THEN old ELSE field

\* The retired key leads to the event, the new one is nobody's alias.
Retire(from, to, e) == [alias EXCEPT ![from] = e, ![to] = None]

UpdateEvent(e, p) ==
  /\ Call
  /\ Exists(e)
  /\ LET old == row[e]
         slug == Patched(p.slug, old.slug)
         status == Patched(p.status, old.status) IN
     /\ slug # old.slug => Free(slug, e)
     /\ WindowAllowed(status, Checked(p.starts, old.starts), Checked(p.ends, old.ends))
     /\ row' = [row EXCEPT ![e] =
          [old EXCEPT !.slug = slug,
                      !.key = IF slug = old.slug THEN @ ELSE slug,
                      !.status = status,
                      !.starts = Patched(p.starts, @),
                      !.ends = Patched(p.ends, @),
                      !.groups = IF p.groups = Keep THEN @ ELSE SetEventGroups(p.groups)]]
     /\ IF slug = old.slug
        THEN UNCHANGED <<alias, holders>>
        ELSE alias' = Retire(old.slug, slug, e) /\ Holds(e, slug)
  /\ UNCHANGED <<groups, keyVars, now, handed>>

\* Enrollments, stream keys and aliases go with the event.
DeleteEvent(e) ==
  /\ Call
  /\ Exists(e)
  /\ row' = [row EXCEPT ![e] = None]
  /\ alias' = [k \in Keys |-> IF alias[k] = e THEN None ELSE alias[k]]
  /\ enrolled' = [enrolled EXCEPT ![e] = [s \in Students |-> 0]]
  /\ keys' = [keys EXCEPT ![e] = [n \in 1..Names |-> None]]
  /\ holders' = [k \in Keys |-> Without(e, holders[k])]
  /\ UNCHANGED <<groups, hashing, seq, now, handed>>

\* The key is the administrator's choice or random; no other event is asked.
SetPublishKey(e, k) ==
  /\ Call
  /\ Exists(e)
  /\ row' = [row EXCEPT ![e].key = k]
  /\ UNCHANGED <<alias, groups, keyVars, now, histVars>>

ClearPublishKey(e) == SetPublishKey(e, None)

RotatePublishToken(e) ==
  /\ Call
  /\ Exists(e)
  /\ seq' = seq + 1
  /\ hashing' = hashing \cup {[kind |-> "event", of |-> e, tok |-> seq + 1]}
  /\ UNCHANGED <<catalogVars, enrolled, keys, now, histVars>>

\* The row may be gone by now: the update is of no row then.
TokenHashed(h) ==
  /\ h \in hashing /\ h.kind = "event"
  /\ hashing' = hashing \ {h}
  /\ row' = IF Exists(h.of) THEN [row EXCEPT ![h.of].token = h.tok] ELSE row
  /\ UNCHANGED <<alias, groups, enrolled, keys, seq, now, calls, histVars>>

ClearPublishToken(e) ==
  /\ Call
  /\ Exists(e)
  /\ row' = [row EXCEPT ![e].token = 0]
  /\ UNCHANGED <<alias, groups, keyVars, now, histVars>>

\* Mutant: the links of the group stay.
DeleteGroupOnly(g) ==
  /\ Call
  /\ g \in groups
  /\ groups' = groups \ {g}
  /\ UNCHANGED <<row, alias, keyVars, now, histVars>>

\* deleteGroup: the memberships and event links of the group go with it.
DeleteGroup(g) ==
  /\ Call
  /\ g \in groups
  /\ groups' = groups \ {g}
  /\ row' = [e \in Events |-> IF Exists(e) THEN [row[e] EXCEPT !.groups = @ \ {g}] ELSE None]
  /\ UNCHANGED <<alias, keyVars, now, histVars>>

\* Mutant: only live events are ended.
AgedIfLive(r) ==
  CASE r.status = "scheduled" /\ r.starts # None /\ r.starts <= now -> "live"
    [] r.status = "live" /\ r.ends # None /\ r.ends <= now -> "ended"
    [] OTHER -> r.status

\* runEventLifecycle for one row: the window opens before it closes.
Aged(r) ==
  CASE r.status = "scheduled" /\ r.starts # None /\ r.starts <= now -> "live"
    [] r.status \in {"live", "scheduled"} /\ r.ends # None /\ r.ends <= now -> "ended"
    [] OTHER -> r.status

RunLifecycle ==
  /\ \E e \in Events : Exists(e) /\ Aged(row[e]) # row[e].status
  /\ row' = [e \in Events |->
               IF Exists(e) THEN [row[e] EXCEPT !.status = Aged(row[e])] ELSE None]
  /\ UNCHANGED <<alias, groups, keyVars, now, calls, histVars>>

Tick ==
  /\ now < Horizon
  /\ now' = now + 1
  /\ UNCHANGED <<catalogVars, keyVars, calls, histVars>>

-----------------------------------------------------------------------------
(* Rosters and stream keys.  An enrollment is a student and the id of its   *)
(* row, so that one that was removed and made again is another.             *)

Enrollment(E, e, s) == <<s, E[e][s]>>
Enrol(e, S) ==
  [enrolled EXCEPT ![e] = [s \in Students |-> IF s \in S /\ @[s] = 0 THEN seq + 1 ELSE @[s]]]

ImportRoster(e, S) ==
  /\ Call
  /\ Exists(e)
  /\ enrolled' = Enrol(e, S)
  /\ seq' = seq + 1
  /\ UNCHANGED <<catalogVars, keys, hashing, now, histVars>>

Active(e, n) == keys[e][n] # None /\ ~keys[e][n].revoked

\* The keys of the enrollment are revoked, then lose it (on delete set null).
Close(k, en) ==
  IF k # None /\ k.enr = en THEN [k EXCEPT !.revoked = TRUE, !.enr = None] ELSE k

RemoveEnrollment(e, s) ==
  /\ Call
  /\ Exists(e) /\ enrolled[e][s] # 0
  /\ keys' = [keys EXCEPT ![e] =
       [n \in 1..Names |-> Close(@[n], Enrollment(enrolled, e, s))]]
  /\ enrolled' = [enrolled EXCEPT ![e][s] = 0]
  /\ UNCHANGED <<catalogVars, hashing, seq, now, histVars>>

RevokeKey(e, n) ==
  /\ Call
  /\ Active(e, n)
  /\ keys' = [keys EXCEPT ![e][n].revoked = TRUE]
  /\ UNCHANGED <<catalogVars, enrolled, hashing, seq, now, histVars>>

\* ensureUniqueStreamName: the first name that is free or already its own.
NamesFor(K, e, en) == {n \in 1..Names : K[e][n] = None \/ K[e][n].enr = en}
StreamName(K, e, en) == CHOOSE n \in NamesFor(K, e, en) : \A m \in NamesFor(K, e, en) : n <= m

\* A key is on its way for student s; rest are the students the same call
\* still has to serve, out the tokens it has made.
Job(e, s, E, K, rest, out) ==
  [kind |-> "key", of |-> e, student |-> s, enr |-> Enrollment(E, e, s),
   name |-> StreamName(K, e, Enrollment(E, e, s)), tok |-> seq + 2, rest |-> rest, out |-> out]

\* generateKeyForEvent up to its await; jobs are the others that wait.
BeginKey(e, s, K, rest, out, jobs) ==
  LET E == Enrol(e, {s}) IN
  /\ NamesFor(K, e, Enrollment(E, e, s)) # {}
  /\ enrolled' = E
  /\ hashing' = jobs \cup {Job(e, s, E, K, rest, out)}
  /\ seq' = seq + 2

GenerateKey(e, s) ==
  /\ Call
  /\ Exists(e)
  /\ BeginKey(e, s, keys, {}, {}, hashing)
  /\ UNCHANGED <<catalogVars, keys, now, histVars>>

Unkeyed(e) ==
  {s \in Students : /\ enrolled[e][s] # 0
                    /\ \A n \in 1..Names :
                         Active(e, n) => keys[e][n].enr # Enrollment(enrolled, e, s)}

GenerateUnkeyed(e) ==
  /\ Call
  /\ Exists(e)
  /\ \E s \in Unkeyed(e) : BeginKey(e, s, keys, Unkeyed(e) \ {s}, {}, hashing)
  /\ UNCHANGED <<catalogVars, keys, now, histVars>>

\* Mutant: a key that exists keeps its enrollment.
IssueKeepsEnrollment(h) ==
  [keys EXCEPT ![h.of][h.name] =
     [enr |-> IF @ = None THEN h.enr ELSE @.enr, tok |-> h.tok, revoked |-> FALSE]]

\* The key of that name is made, or rotated whoever has it by now.
Issue(h) ==
  [keys EXCEPT ![h.of][h.name] = [enr |-> h.enr, tok |-> h.tok, revoked |-> FALSE]]

\* Mutant: foreign keys are not enforced.
NotEnforced(h) == Exists(h.of)

\* The foreign key of the enrollment.
Enforced(h) == enrolled[h.of][h.student] # 0 /\ h.enr = Enrollment(enrolled, h.of, h.student)

\* The tokens reach the administrator when the last one is made; a failure
\* ends the call, and those made so far are shown to nobody.
KeyHashed(h) ==
  /\ h \in hashing /\ h.kind = "key"
  /\ LET made == h.out \cup {[tok |-> h.tok, of |-> h.of, student |-> h.student]}
         others == hashing \ {h} IN
     \/ /\ ~Enforced(h)
        /\ hashing' = others
        /\ UNCHANGED <<keys, enrolled, seq, handed>>
     \/ /\ Enforced(h) /\ h.rest = {}
        /\ keys' = Issue(h)
        /\ handed' = handed \cup made
        /\ hashing' = others
        /\ UNCHANGED <<enrolled, seq>>
     \/ /\ Enforced(h)
        /\ keys' = Issue(h)
        /\ \E s \in h.rest : BeginKey(h.of, s, Issue(h), h.rest \ {s}, made, others)
        /\ UNCHANGED handed
  /\ UNCHANGED <<catalogVars, now, calls, holders>>

-----------------------------------------------------------------------------
(* What the catalog answers.                                                *)

\* authorizePublish: the events a name and a credential may be admitted to.
OfStudent(n, cred) == {e \in Events : Active(e, n) /\ keys[e][n].tok = cred}
OfToken(cred) == {e \in Events : Exists(e) /\ row[e].token = cred}
OfKey(cred) == {e \in Events : Exists(e) /\ row[e].key = cred}

Admits(n, cred) ==
  LET found == CASE OfStudent(n, cred) # {} -> OfStudent(n, cred)
                 [] OfStudent(n, cred) = {} /\ OfToken(cred) # {} -> OfToken(cred)
                 [] OTHER -> OfKey(cred) IN
  {e \in found : /\ row[e].status = "live"
                 /\ row[e].starts # None => now >= row[e].starts
                 /\ row[e].ends # None => now <= row[e].ends}

\* Mutant: the retired keys are asked first.
AliasFirst(k) ==
  IF alias[k] # None THEN alias[k]
  ELSE IF \E e \in Events : Exists(e) /\ row[e].slug = k
       THEN CHOOSE e \in Events : Exists(e) /\ row[e].slug = k
       ELSE None

\* The guide of a key: the event that has it, or the one that retired it.
Guide(k) ==
  IF \E e \in Events : Exists(e) /\ row[e].slug = k
  THEN CHOOSE e \in Events : Exists(e) /\ row[e].slug = k
  ELSE alias[k]

-----------------------------------------------------------------------------
Admin(e) ==
  \/ \E k \in Keys, b \in Bodies : CreateEvent(e, k, b)
  \/ \E p \in Patches : UpdateEvent(e, p)
  \/ DeleteEvent(e)
  \/ (\E k \in Keys : SetPublishKey(e, k)) \/ ClearPublishKey(e)
  \/ RotatePublishToken(e) \/ ClearPublishToken(e)
  \/ \E S \in SUBSET Students \ {{}} : ImportRoster(e, S)
  \/ \E s \in Students : RemoveEnrollment(e, s) \/ GenerateKey(e, s)
  \/ GenerateUnkeyed(e)
  \/ \E n \in 1..Names : RevokeKey(e, n)

Next ==
  \/ \E e \in Events : Admin(e)
  \/ \E g \in Groups : DeleteGroup(g)
  \/ \E h \in hashing : TokenHashed(h) \/ KeyHashed(h)
  \/ RunLifecycle \/ Tick

Spec == Init /\ [][Next]_vars

\* The ticker runs every 20s.
FairSpec == Spec /\ WF_vars(RunLifecycle)

-----------------------------------------------------------------------------
(* Properties.                                                              *)

\* Every table has the columns the schema gives it.
TypeOK ==
  /\ \A e \in Events : Exists(e) =>
       /\ row[e].slug \in Keys /\ row[e].key \in Keys \cup {None}
       /\ row[e].token \in 0..seq
       /\ row[e].starts \in Times \cup {None} /\ row[e].ends \in Times \cup {None}
       /\ row[e].status \in Statuses /\ row[e].groups \subseteq groups
  /\ alias \in [Keys -> Events \cup {None}]
  /\ groups \subseteq Groups
  /\ enrolled \in [Events -> [Students -> 0..seq]]
  /\ \A e \in Events, n \in 1..Names : keys[e][n] # None =>
       /\ keys[e][n].enr \in (Students \X (1..seq)) \cup {None}
       /\ keys[e][n].tok \in 1..seq /\ keys[e][n].revoked \in BOOLEAN
  /\ \A h \in hashing : h.kind \in {"event", "key"} /\ h.of \in Events /\ h.tok \in 1..seq
  /\ now \in 0..Horizon /\ seq \in Nat /\ calls \in 0..MaxCalls

\* A key that opens an event belongs to a student of its roster, whatever
\* was removed while the key was being made.
ActiveKeysEnrolled ==
  \A e \in Events, n \in 1..Names :
    Active(e, n) => \E s \in Students : /\ enrolled[e][s] # 0
                                       /\ keys[e][n].enr = Enrollment(enrolled, e, s)

\* A token made for one student never opens another event or another
\* student's name, however the calls that made the two interleave.
TokensStayPersonal ==
  \A h \in handed, n \in 1..Names, e \in Events :
    e \in Admits(n, h.tok) => e = h.of /\ keys[e][n].enr[1] = h.student

\* A guide link shows the event that has the key now; once retired, the key
\* leads to the last event that had it and to no other.
GuideFollowsKey ==
  \A k \in Keys : Guide(k) # None =>
    /\ <<Guide(k), Guide(k)>> \in holders[k]
    /\ \A x \in holders[k] : <<x[1], Guide(k)>> \in holders[k]

\* However a window is patched, bound by bound, it opens before it closes.
WindowOrdered ==
  \A e \in Events : Exists(e) /\ row[e].starts # None /\ row[e].ends # None
                    => row[e].starts < row[e].ends

\* An event whose end has passed does not stay open, and one whose start has
\* come does not stay scheduled, whatever an administrator saves meanwhile.
Late(e) ==
  /\ Exists(e)
  /\ \/ row[e].status \in {"live", "scheduled"} /\ row[e].ends # None /\ row[e].ends <= now
     \/ row[e].status = "scheduled" /\ row[e].starts # None /\ row[e].starts <= now

WindowsRun == \A e \in Events : Late(e) ~> ~Late(e)

\* The catalog after any calls: each key that opens an event is a student's of
\* its roster, guide links follow their keys, windows are in order
\* (events.ts:131-252, stream-keys.ts:87-140, guide.get.ts).
CatalogInv == TypeOK /\ ActiveKeysEnrolled /\ GuideFollowsKey /\ WindowOrdered
=============================================================================
