------------------------ MODULE MCEnergyAggregation ------------------------
(* Small instances of EnergyAggregation: an hour of two slots, a day of two *)
(* hours, and samples with fragments, gaps and points on the sample points. *)
EXTENDS EnergyAggregation, TLC

CONSTANTS s1, s2, r1, r2, u1, u2

At(t, e, interval) == [t |-> t, e |-> e, interval |-> interval]

\* Slots of five minutes are two ticks: what lies between is a fragment.
Hour == [targetInterval |-> "1h", basedOnInterval |-> "5m", every |-> 4]
Day  == [targetInterval |-> "1d", basedOnInterval |-> "1h", every |-> 8]
HourAndDay == <<Hour, Day>>

KeepShort == [interval \in {"5m", "1h"} |-> IF interval = "5m" THEN 4 ELSE 8]

Dense  == <<At(2, 1, "5m"), At(4, 4, "5m"), At(6, 5, "5m"), At(8, 9, "5m")>>
Sparse == <<At(3, 2, "fragment"), At(5, 3, "fragment"), At(8, 9, "5m"), At(10, 9, "5m")>>
Gap    == <<At(3, 0, "fragment"), At(10, 9, "5m")>>
Few    == <<At(4, 2, "5m")>>

TwoStones == {[st \in Stones |-> IF st = s1 THEN long ELSE Few] : long \in {Dense, Sparse, Gap}}

Symmetric == Permutations(Callers) \cup Permutations(Uploads)
=============================================================================
