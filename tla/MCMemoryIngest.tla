--------------------------- MODULE MCMemoryIngest ---------------------------
(* The sessions share the topic of their first event.                           *)
EXTENDS MemoryIngest, TLC

CONSTANTS s1, s2, t1, t2, i1, i2, i3, a1

MCSessionOf == i1 :> s1 @@ i2 :> s1 @@ i3 :> s2
MCTopicOf == s1 :> <<t1, t2>> @@ s2 :> <<t1, t1>>
MCEvents(m, n) == s1 :> m @@ s2 :> n

(* Two ingests of a session that grows, one of which may die; an ingest of each *)
(* session beside a page that the model rewrites, one of which may die; both    *)
(* ingests of a session beside one of the other.                                *)
MCCasts == {
  [who |-> {i1, i2}, events |-> MCEvents(0, 2), crashes |-> 1],
  [who |-> {i1, i3, a1}, events |-> MCEvents(2, 1), crashes |-> 1],
  [who |-> {i1, i2, i3}, events |-> MCEvents(1, 1), crashes |-> 0]}
MCPageOf == a1 :> t1
=============================================================================
