--------------------------- MODULE MCEventCatalog ---------------------------
(***************************************************************************)
(* Instances of EventCatalog.                                               *)
(***************************************************************************)
EXTENDS EventCatalog

CONSTANTS e1, e2, k1, k2, g1, s1, s2

Same == [slug |-> Keep, status |-> Keep, starts |-> Keep, ends |-> Keep, groups |-> Keep]

\* What the console sends, and an event with all its fields.
SomeBodies ==
  {[status |-> "draft", starts |-> None, ends |-> None, groups |-> {}],
   [status |-> "scheduled", starts |-> 1, ends |-> 2, groups |-> Groups]}

\* One field, a bound of the window, or the state and window of the form.
SomePatches ==
  {[Same EXCEPT !.slug = k] : k \in Keys}
  \cup {[Same EXCEPT !.starts = s] : s \in {None, 2}}
  \cup {[Same EXCEPT !.ends = t] : t \in {None, 1}}
  \cup {[Same EXCEPT !.status = st] : st \in {"live", "scheduled"}}
  \cup {[Same EXCEPT !.groups = G] : G \in SUBSET Groups}
=============================================================================
