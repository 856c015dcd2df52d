-------------------------- MODULE MCEnergySampling --------------------------
(* Small instances of EnergySampling: a sample point at every second tick, *)
(* gaps of at most two sample points, and traces with a reset, a small     *)
(* decrease, points on and off the sample points and a gap.                *)
EXTENDS EnergySampling, TLC

CONSTANTS u1, u2

At(t, e) == [t |-> t, e |-> e]

Counters == {<<At(0, 4), At(3, 7), At(7, 9)>>,
             <<At(1, 20), At(3, 19), At(4, 2), At(6, 9)>>,
             <<At(1, 3), At(9, 0), At(10, 7)>>}

AnyCall == Permutations(Uploads)

\* All between two sample points that are four ticks apart.
OneSlot == {<<At(1, 2), At(2, 3), At(3, 4)>>}
=============================================================================
