--------------------------- MODULE MCStoneEvents ---------------------------
(* Small instances of StoneEvents: spheres with room for MaxUid stones.     *)
EXTENDS StoneEvents, TLC

CONSTANTS c1, c2, s1, s2, s3, s4, k1, k2

Symmetric == Permutations(Creators) \cup Permutations(Stones) \cup Permutations(Calls)
=============================================================================
