----------------------------- MODULE EnergyRules -----------------------------
(***************************************************************************)
(* How measured energy counters become samples at fixed points in time     *)
(* (processPair and what it calls, modules/energy/EnergyProcessor.ts).     *)
(*                                                                         *)
(* Time is counted in ticks, a sample point lies at every multiple of Slot *)
(* (five minutes).  A row is one measurement of a stone: the counter e at  *)
(* time t, and what the processor noted on it.                             *)
(***************************************************************************)
EXTENDS Integers, Sequences, FiniteSetsExt

CONSTANTS Slot,
          INTERPOLATION_THRESHOLD  \* the most sample points one gap may span

ASSUME EnergyRulesAssumption ==
    /\ Slot \in Nat \ {0}
    /\ INTERPOLATION_THRESHOLD \in Nat

Row(id, t, e) == [id |-> id, t |-> t, e |-> e, corrected |-> 0, checked |-> FALSE, processed |-> FALSE]

Sample(t, e, interval) == [t |-> t, e |-> e, interval |-> interval]

SamplePoint(t) == (t \div Slot) * Slot

ElapsedSamplePoints(prev, next) == (SamplePoint(next.t) - SamplePoint(prev.t)) \div Slot

-----------------------------------------------------------------------------
\* processSinglePoint: the first point of a stone is a sample if it is on time.
SinglePoint(row) ==
    LET onTime == row.t = SamplePoint(row.t)
    IN  [row     |-> [row EXCEPT !.corrected = row.e, !.checked = TRUE,
                                 !.processed = row.processed \/ onTime],
         samples |-> IF onTime THEN <<Sample(row.t, row.e, "5m")>> ELSE <<>>]

\* Mutant: the sum that was reached before a reset is forgotten.
CorrectedWithoutOffset(prev, next) == next.e

\* A counter that has dropped by more than a tenth has been reset, and what it shows
\* comes on top; a smaller decrease is ignored.
Corrected(prev, next) ==
    LET offset == prev.corrected - prev.e
        value  == IF next.e * 10 < prev.e * 9 THEN next.e + prev.corrected ELSE next.e + offset
    IN  Max({value, prev.corrected})

\* Mutant: the last sample point is left to the next pair.
InterpolatedShort(prev, next) ==
    [j \in 1..(ElapsedSamplePoints(prev, next) - 1) |->
        Sample(SamplePoint(prev.t) + j * Slot, prev.corrected, "5m")]

\* Math.round of the linear interpolation, at each sample point of the gap.
Interpolated(prev, next) ==
    LET dJ == Corrected(prev, next) - prev.corrected
        dT == next.t - prev.t
        at(j) == SamplePoint(prev.t) + j * Slot
    IN  [j \in 1..ElapsedSamplePoints(prev, next) |->
            Sample(at(j), prev.corrected + (2 * (at(j) - prev.t) * dJ + dT) \div (2 * dT), "5m")]

\* processDataPair, on a previous point that is checked.
DataPair(prev, next) ==
    LET value   == Corrected(prev, next)
        gap     == ElapsedSamplePoints(prev, next) > INTERPOLATION_THRESHOLD
        onTime  == next.t = SamplePoint(next.t)
        samples == IF ~gap THEN Interpolated(prev, next)
                   ELSE IF onTime THEN <<Sample(next.t, value, "5m")>>
                   ELSE IF ~prev.processed THEN <<Sample(prev.t, prev.corrected, "fragment")>>
                   ELSE <<>>
        used    == IF gap THEN onTime ELSE samples # <<>>
    IN  [row     |-> [next EXCEPT !.corrected = value, !.checked = TRUE,
                                  !.processed = next.processed \/ used],
         samples |-> samples]

\* done: the row that was processed last, and the samples so far.
processPair(done, next) ==
    LET first  == IF done.row.checked THEN [row |-> done.row, samples |-> <<>>]
                  ELSE SinglePoint(done.row)
        second == DataPair(first.row, next)
    IN  [row |-> second.row, samples |-> done.samples \o first.samples \o second.samples]

\* The rows in turn, from the row last: after each of them the row as it is kept, and the
\* samples so far.
UpTo(last, rows) ==
    LET upTo[k \in 0..Len(rows)] ==
            IF k = 0 THEN [row |-> last, samples |-> <<>>]
            ELSE processPair(upTo[k-1], rows[k])
    IN  upTo

ProcessRows(last, rows) == UpTo(last, rows)[Len(rows)]
=============================================================================
