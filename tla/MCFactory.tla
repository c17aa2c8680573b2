----------------------------- MODULE MCFactory -----------------------------
(***************************************************************************)
(* Factory on small instances: two slots work for one session, one after   *)
(* the other or one while the other closes, and a third for another.  No   *)
(* two ids end in the same eight characters.                               *)
(***************************************************************************)
EXTENDS Factory, TLC

CONSTANTS v1, v2, v3, s1, s2

MixedSessions == [v \in Slots |-> IF v = v3 THEN s2 ELSE s1]
OwnName == [i \in IDs |-> i]
\* the two slots of one session are interchangeable
Symmetry == Permutations({v1, v2})
=============================================================================
