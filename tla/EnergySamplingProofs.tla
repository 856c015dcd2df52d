------------------------- MODULE EnergySamplingProofs -------------------------
(***************************************************************************)
(* Proofs about EnergySampling, for any traces, numbers of calls, repeats, *)
(* interruptions and sizes of a page: no measured sample point is lost;    *)
(* and for calls that follow one another: how the measurements are cut     *)
(* into calls does not matter, and the samples come in order.              *)
(*                                                                         *)
(* What the recursive function of ProcessRows computes is shown without a  *)
(* rule of induction: the least place at which it would go wrong does not  *)
(* exist.                                                                  *)
(***************************************************************************)
EXTENDS EnergySampling, FiniteSetTheorems, SequenceTheorems, NaturalsInduction,
        WellFoundedInduction, TLAPS

-----------------------------------------------------------------------------
(* The inductive invariant.  It says nothing of the measurements after the *)
(* first one that was stored late: a run that comes late takes them out of *)
(* it, and its rows lie after all that stays.                              *)

Rows == [id : Nat, t : Nat, e : Int, corrected : Int, checked : BOOLEAN, processed : BOOLEAN]
Samples == [t : Nat, e : Int, interval : {"5m", "fragment"}]
TimesOf(samples) == {samples[k].t : k \in DOMAIN samples}

Times == {trace[i].t : i \in 1..sent}

IsRow(row) == row \in Rows /\ row.id \in 1..lastId /\ row.t \in Times

\* The rows have ids of their own.
Typed ==
    /\ trace \in Traces /\ sent \in 0..Len(trace) /\ inOrder \in 0..sent /\ lastId \in Nat
    /\ stage \in [Uploads -> Stages]
    /\ energyData \in [Uploads -> Seq(Rows)]
    /\ work \in [Uploads -> [samples : Seq(Samples), used : SUBSET Nat, last : Rows]]
    /\ stoneEnergyProcessed \in Seq(Samples)
    /\ \A row \in stoneEnergy : IsRow(row)
    /\ \A row, other \in stoneEnergy : row.id = other.id => row = other

Places(i) == {p \in (trace[i-1].t + 1)..trace[i].t : p = SamplePoint(p)}

\* A sample point between the measurements i - 1 and i has no sample yet.
Open(i) ==
    /\ ElapsedSamplePoints(trace[i-1], trace[i]) <= INTERPOLATION_THRESHOLD
    /\ ~(Places(i) \subseteq SampledAt)

\* The measurement m, one of those stored in order, is still needed: the next one may come,
\* or has not been used.
Needed(m) == m = sent \/ (m < inOrder /\ Open(m + 1))

\* The upload u is going to store what is missing between i - 1 and i.
Makes(u, i) ==
    /\ stage[u] = "creating"
    /\ Places(i) \subseteq TimesOf(work[u].samples)

\* What is needed is there.
Present ==
    /\ \A m \in 1..inOrder : Needed(m) => RowsAt(trace[m].t) # {}
    /\ \A i \in 2..inOrder : Open(i) => \E row \in Unchecked : row.t = trace[i].t

\* Measurements are checked in order of time: of what comes after an unchecked row there
\* is an unchecked row that was stored after it.
CheckedInOrder ==
    \A row \in Unchecked : \A j \in 1..inOrder :
        row.t < trace[j].t => \E next \in Unchecked : next.t = trace[j].t /\ row.id < next.id

\* The rows a call has read: the first ones in order, without a gap.
Page(u) ==
    LET rows == energyData[u]
    IN  /\ stage[u] \in {"idle", "reading"} <=> rows = <<>>
        /\ \A k \in DOMAIN rows : IsRow(rows[k])
        /\ \A j, k \in DOMAIN rows : j < k => Before(rows[j], rows[k]) /\ rows[j].id # rows[k].id
        /\ \A k \in 2..Len(rows) : \A j \in 1..inOrder : ~(rows[k-1].t < trace[j].t /\ trace[j].t < rows[k].t)
        /\ \A row \in stoneEnergy, k \in DOMAIN rows : row.id = rows[k].id => row.t = rows[k].t
        /\ \A row \in Unchecked, k \in DOMAIN rows :
              (row.t <= rows[k].t /\ row.id < rows[k].id) => \E j \in DOMAIN rows : rows[j].id = row.id

\* Nothing is missing before the first of them, and what they stand for has not gone.
Finding(u) ==
    LET rows == energyData[u]
    IN  stage[u] = "finding" =>
          /\ \A i \in 2..inOrder : trace[i].t < rows[1].t => ~Open(i)
          /\ \A m \in 1..inOrder, k \in DOMAIN rows :
                (Needed(m) /\ rows[k].t = trace[m].t) =>
                    \E row \in RowsAt(trace[m].t) : rows[k].id <= row.id

\* What a call is going to delete and to check is not the last of what is needed.
Working(u) ==
    LET rows == energyData[u]
        last == work[u].last
    IN  stage[u] \in {"creating", "deleting", "updating"} =>
          /\ IsRow(last) /\ last.checked /\ last.id \notin work[u].used
          /\ last.id = rows[Len(rows)].id /\ last.t = rows[Len(rows)].t
          /\ \A k \in 1..(Len(rows) - 1) : rows[k].id \in work[u].used
          /\ work[u].used \subseteq 1..lastId
          /\ \A row \in Unchecked : row.id \in work[u].used => \E k \in 1..(Len(rows) - 1) : rows[k].id = row.id
          /\ stage[u] = "updating" => \A row \in stoneEnergy : row.id \notin work[u].used
          /\ \A m \in 1..inOrder : (m = sent \/ (m < inOrder /\ Open(m + 1) /\ ~Makes(u, m + 1))) =>
                \A row \in RowsAt(trace[m].t) : row.id \in work[u].used =>
                    \E other \in RowsAt(trace[m].t) : row.id < other.id
          /\ \A i \in 2..inOrder : (Open(i) /\ ~Makes(u, i)) =>
                \A row \in Unchecked : (row.t = trace[i].t /\ row.id \in work[u].used \cup {last.id}) =>
                    \E other \in Unchecked : other.t = trace[i].t /\ row.id < other.id

Inv ==
    /\ Typed /\ Present /\ CheckedInOrder
    /\ \A u \in Uploads : Page(u) /\ Finding(u) /\ Working(u)


-----------------------------------------------------------------------------
(* Numbers.                                                                *)

LEMMA LeastOf ==
    ASSUME NEW S, S # {}, S \subseteq Nat
    PROVE  \E least \in S : \A n \in S : least <= n
  <1> DEFINE smaller == {p \in Nat \X Nat : p[1] < p[2]}
  <1>1. IsWellFoundedOn(smaller, Nat)
    BY NatLessThanWellFounded DEF OpToRel
  <1>2. \A m, n \in Nat : <<n, m>> \in smaller <=> n < m
    OBVIOUS
  <1> HIDE DEF smaller
  <1>3. PICK least \in S : \A n \in S : ~(<<n, least>> \in smaller)
    BY <1>1, WFMin
  <1>4. ASSUME NEW n \in S PROVE least <= n
    <2>1. n \in Nat /\ least \in Nat /\ ~(<<n, least>> \in smaller)
      BY <1>3
    <2>2. ~(n < least)
      BY <1>2, <2>1, Zenon
    <2>3. QED
      BY <2>1, <2>2
  <1>5. QED
    BY <1>4

\* The sample points lie at the multiples of Slot.
LEMMA SlotOf ==
    ASSUME NEW t \in Nat
    PROVE  /\ t \div Slot \in Nat
           /\ (t \div Slot) * Slot <= t /\ t < (t \div Slot) * Slot + Slot
           /\ SamplePoint(t) \in Nat
  BY EnergyRulesAssumption DEF SamplePoint

LEMMA SlotsBetween ==
    ASSUME NEW prev \in Rows, NEW next \in Rows
    PROVE  ElapsedSamplePoints(prev, next) = next.t \div Slot - prev.t \div Slot
  <1> DEFINE a == prev.t \div Slot
             b == next.t \div Slot
  <1>1. a \in Nat /\ b \in Nat
    BY SlotOf DEF Rows
  <1> HIDE DEF a, b
  <1>2. b * Slot - a * Slot = (b - a) * Slot
    BY <1>1, EnergyRulesAssumption
  <1>3. ((b - a) * Slot) \div Slot = b - a
    BY <1>1, EnergyRulesAssumption
  <1>4. QED
    BY <1>2, <1>3 DEF a, b, ElapsedSamplePoints, SamplePoint

\* A sample point of the gap is one of those that are interpolated.
LEMMA PointOfGap ==
    ASSUME NEW prev \in Rows, NEW next \in Rows,
           NEW p \in (prev.t + 1)..next.t, p = SamplePoint(p)
    PROVE  \E j \in 1..ElapsedSamplePoints(prev, next) : p = SamplePoint(prev.t) + j * Slot
  <1> DEFINE a == prev.t \div Slot
             b == next.t \div Slot
             c == p \div Slot
  <1>1. p \in Nat /\ prev.t \in Nat /\ next.t \in Nat /\ Slot \in Nat \ {0}
    BY EnergyRulesAssumption DEF Rows
  <1>2. /\ a \in Nat /\ a * Slot <= prev.t
        /\ b \in Nat /\ next.t < b * Slot + Slot
        /\ c \in Nat /\ p = c * Slot
    BY <1>1, SlotOf DEF SamplePoint
  <1> HIDE DEF a, b, c
  <1>3. a < c
    <2>1. a * Slot < c * Slot
      BY <1>1, <1>2
    <2>2. QED
      BY <2>1, <1>1, <1>2
  <1>4. c <= b
    <2>1. c * Slot < (b + 1) * Slot
      BY <1>1, <1>2
    <2>2. c < b + 1
      BY <2>1, <1>1, <1>2
    <2>3. QED
      BY <2>2, <1>2
  <1>5. p = a * Slot + (c - a) * Slot
    BY <1>1, <1>2
  <1>6. c - a \in 1..(b - a)
    BY <1>2, <1>3, <1>4
  <1>7. QED
    BY <1>5, <1>6, SlotsBetween DEF a, b, SamplePoint

-----------------------------------------------------------------------------
(* Two measurements after each other.                                      *)

LEMMA TimesJoin ==
    ASSUME NEW first \in Seq(Samples), NEW second \in Seq(Samples)
    PROVE  /\ first \o second \in Seq(Samples)
           /\ TimesOf(first \o second) = TimesOf(first) \cup TimesOf(second)
  <1>1. /\ first \o second \in Seq(Samples)
        /\ Len(first \o second) = Len(first) + Len(second)
        /\ \A k \in 1..Len(first) : (first \o second)[k] = first[k]
        /\ \A k \in 1..Len(second) : (first \o second)[Len(first) + k] = second[k]
    OBVIOUS
  <1>2. /\ Len(first) \in Nat /\ Len(second) \in Nat
        /\ DOMAIN first = 1..Len(first) /\ DOMAIN second = 1..Len(second)
        /\ DOMAIN (first \o second) = 1..(Len(first) + Len(second))
    OBVIOUS
  <1> DEFINE both == first \o second
  <1> HIDE DEF both
  <1>3. ASSUME NEW k \in DOMAIN both PROVE both[k].t \in TimesOf(first) \cup TimesOf(second)
    <2>1. CASE k \in 1..Len(first)
      BY <1>1, <1>2, <2>1 DEF TimesOf, both
    <2>2. CASE k \notin 1..Len(first)
      <3>1. k - Len(first) \in 1..Len(second) /\ Len(first) + (k - Len(first)) = k
        BY <1>2, <1>3, <2>2 DEF both
      <3>2. both[k] = second[k - Len(first)]
        BY <1>1, <3>1 DEF both
      <3>3. QED
        BY <1>2, <3>1, <3>2 DEF TimesOf
    <2>3. QED
      BY <2>1, <2>2
  <1>4. ASSUME NEW k \in DOMAIN first PROVE first[k].t \in TimesOf(both)
    <2>1. k \in DOMAIN both /\ both[k] = first[k]
      BY <1>1, <1>2, <1>4 DEF both
    <2>2. QED
      BY <2>1 DEF TimesOf
  <1>5. ASSUME NEW k \in DOMAIN second PROVE second[k].t \in TimesOf(both)
    <2>1. Len(first) + k \in DOMAIN both /\ both[Len(first) + k] = second[k]
      BY <1>1, <1>2, <1>5 DEF both
    <2>2. QED
      BY <2>1 DEF TimesOf
  <1>6. TimesOf(both) = TimesOf(first) \cup TimesOf(second)
    BY <1>3, <1>4, <1>5 DEF TimesOf
  <1>7. QED
    BY <1>1, <1>6 DEF both

LEMMA CorrectedIsInt ==
    ASSUME NEW prev \in Rows, NEW next \in Rows
    PROVE  Corrected(prev, next) \in Int
  <1> DEFINE offset == prev.corrected - prev.e
             value == IF next.e * 10 < prev.e * 9 THEN next.e + prev.corrected ELSE next.e + offset
  <1>1. value \in Int /\ prev.corrected \in Int
    BY DEF Rows
  <1>2. Corrected(prev, next) = Max({value, prev.corrected})
    BY DEF Corrected
  <1> HIDE DEF value
  <1>3. \E x \in {value, prev.corrected} : \A y \in {value, prev.corrected} : x >= y
    BY <1>1
  <1>4. Max({value, prev.corrected}) \in {value, prev.corrected}
    BY <1>3 DEF Max
  <1>5. QED
    BY <1>1, <1>2, <1>4

LEMMA SomeOrNone ==
    ASSUME NEW n \in Int, NEW T, NEW f, f = [j \in 1..n |-> f[j]], \A j \in 1..n : f[j] \in T
    PROVE  f \in Seq(T)
  <1>1. CASE n \in Nat
    <2>1. f \in [1..n -> T]
      BY Zenon
    <2>2. QED
      BY <1>1, <2>1
  <1>2. CASE n < 0
    <2>1. 1..n = {} /\ 1..0 = {}
      BY <1>2
    <2>2. f \in [1..0 -> T]
      BY <2>1, Zenon
    <2>3. QED
      BY <2>2
  <1>3. QED
    BY <1>1, <1>2

LEMMA InterpolatedSamples ==
    ASSUME NEW prev \in Rows, NEW next \in Rows
    PROVE  /\ Interpolated(prev, next) \in Seq(Samples)
           /\ \A p \in (prev.t + 1)..next.t : p = SamplePoint(p) => p \in TimesOf(Interpolated(prev, next))
  <1> DEFINE dJ == Corrected(prev, next) - prev.corrected
             dT == next.t - prev.t
             n == ElapsedSamplePoints(prev, next)
             at(j) == SamplePoint(prev.t) + j * Slot
             energy(j) == prev.corrected + (2 * (at(j) - prev.t) * dJ + dT) \div (2 * dT)
             f == Interpolated(prev, next)
  <1>1. /\ prev.t \in Nat /\ next.t \in Nat /\ prev.corrected \in Int /\ dJ \in Int
        /\ Slot \in Nat \ {0} /\ SamplePoint(prev.t) \in Nat
    BY CorrectedIsInt, SlotOf, EnergyRulesAssumption DEF Rows
  <1>2. n \in Int
    BY <1>1, SlotsBetween, SlotOf
  <1>3. f = [j \in 1..n |-> Sample(at(j), energy(j), "5m")]
    BY DEF Interpolated
  <1>4. ASSUME NEW j \in 1..n PROVE at(j) \in Nat /\ energy(j) \in Int
    <2>1. j \in Nat /\ at(j) \in Nat
      BY <1>1, <1>2
    <2>2. prev.t < next.t
      <3> DEFINE a == prev.t \div Slot
                 b == next.t \div Slot
      <3>1. /\ a \in Nat /\ prev.t < a * Slot + Slot
            /\ b \in Nat /\ b * Slot <= next.t
            /\ a + 1 <= b
        BY <1>1, <1>2, SlotOf, SlotsBetween
      <3> HIDE DEF a, b
      <3>2. (a + 1) * Slot <= b * Slot
        BY <3>1, <1>1
      <3>3. QED
        BY <3>1, <3>2, <1>1
    <2>3. 2 * dT \in Nat \ {0} /\ 2 * (at(j) - prev.t) * dJ + dT \in Int
      BY <1>1, <2>1, <2>2
    <2> HIDE DEF dT, dJ, at
    <2>4. (2 * (at(j) - prev.t) * dJ + dT) \div (2 * dT) \in Int
      BY <2>3
    <2>5. QED
      BY <2>1, <2>4, <1>1
  <1>5. \A j \in 1..n : f[j] = Sample(at(j), energy(j), "5m")
    BY <1>3
  <1> HIDE DEF n, at, energy, f, dJ, dT
  <1>6. ASSUME NEW j \in 1..n PROVE f[j] \in Samples
    <2>1. f[j] = [t |-> at(j), e |-> energy(j), interval |-> "5m"]
      BY <1>5 DEF Sample
    <2>2. QED
      BY <1>4, <2>1 DEF Samples
  <1>7. f \in Seq(Samples)
    BY <1>2, <1>3, <1>6, SomeOrNone
  <1>8. DOMAIN f = 1..n /\ \A j \in 1..n : f[j].t = at(j)
    BY <1>3, <1>5 DEF Sample
  <1>9. ASSUME NEW p \in (prev.t + 1)..next.t, p = SamplePoint(p) PROVE p \in TimesOf(f)
    BY <1>8, <1>9, PointOfGap DEF TimesOf, n, at
  <1>10. QED
    BY <1>7, <1>9 DEF f

\* The measurements prev and next have been looked at together.
Covers(samples, prev, next) ==
    ElapsedSamplePoints(prev, next) <= INTERPOLATION_THRESHOLD =>
        \A p \in (prev.t + 1)..next.t : p = SamplePoint(p) => p \in TimesOf(samples)

LEMMA DataPairCovers ==
    ASSUME NEW prev \in Rows, NEW next \in Rows
    PROVE  /\ DataPair(prev, next).row \in Rows
           /\ DataPair(prev, next).row.id = next.id /\ DataPair(prev, next).row.t = next.t
           /\ DataPair(prev, next).row.checked
           /\ DataPair(prev, next).samples \in Seq(Samples)
           /\ Covers(DataPair(prev, next).samples, prev, next)
  <1> DEFINE value   == Corrected(prev, next)
             gap     == ElapsedSamplePoints(prev, next) > INTERPOLATION_THRESHOLD
             onTime  == next.t = SamplePoint(next.t)
             samples == IF ~gap THEN Interpolated(prev, next)
                        ELSE IF onTime THEN <<Sample(next.t, value, "5m")>>
                        ELSE IF ~prev.processed THEN <<Sample(prev.t, prev.corrected, "fragment")>>
                        ELSE <<>>
             used    == IF gap THEN onTime ELSE samples # <<>>
             row     == [next EXCEPT !.corrected = value, !.checked = TRUE,
                                     !.processed = next.processed \/ used]
  <1>1. DataPair(prev, next).row = row /\ DataPair(prev, next).samples = samples
    BY DEF DataPair
  <1>2. value \in Int /\ Interpolated(prev, next) \in Seq(Samples)
    BY CorrectedIsInt, InterpolatedSamples
  <1>3. (next.processed \/ used) \in BOOLEAN
    BY DEF Rows
  <1>4. row \in Rows /\ row.id = next.id /\ row.t = next.t /\ row.checked
    BY <1>2, <1>3 DEF Rows
  <1>5. samples \in Seq(Samples)
    <2>1. Sample(next.t, value, "5m") \in Samples /\ Sample(prev.t, prev.corrected, "fragment") \in Samples
      BY <1>2 DEF Sample, Samples, Rows
    <2>2. QED
      BY <1>2, <2>1
  <1>6. Covers(samples, prev, next)
    <2>1. SUFFICES ASSUME ElapsedSamplePoints(prev, next) <= INTERPOLATION_THRESHOLD
                   PROVE  samples = Interpolated(prev, next)
      BY InterpolatedSamples DEF Covers
    <2>2. ~gap
      BY <2>1, SlotsBetween, SlotOf, EnergyRulesAssumption DEF Rows
    <2>3. QED
      BY <2>2
  <1>7. QED
    BY <1>1, <1>4, <1>5, <1>6

LEMMA SinglePointKeeps ==
    ASSUME NEW row \in Rows
    PROVE  /\ SinglePoint(row).row \in Rows
           /\ SinglePoint(row).row.t = row.t
           /\ SinglePoint(row).samples \in Seq(Samples)
  <1> DEFINE onTime == row.t = SamplePoint(row.t)
             kept == [row EXCEPT !.corrected = row.e, !.checked = TRUE, !.processed = row.processed \/ onTime]
             samples == IF onTime THEN <<Sample(row.t, row.e, "5m")>> ELSE <<>>
  <1>1. SinglePoint(row).row = kept /\ SinglePoint(row).samples = samples
    BY DEF SinglePoint
  <1>2. (row.processed \/ onTime) \in BOOLEAN
    BY DEF Rows
  <1>3. kept \in Rows /\ kept.t = row.t
    BY <1>2 DEF Rows
  <1>4. samples \in Seq(Samples)
    <2>1. Sample(row.t, row.e, "5m") \in Samples
      BY DEF Sample, Samples, Rows
    <2>2. QED
      BY <2>1
  <1>5. QED
    BY <1>1, <1>3, <1>4

LEMMA PairResult ==
    ASSUME NEW done, done.row \in Rows, done.samples \in Seq(Samples), NEW next \in Rows
    PROVE  /\ processPair(done, next).row \in Rows
           /\ processPair(done, next).row.id = next.id /\ processPair(done, next).row.t = next.t
           /\ processPair(done, next).row.checked
           /\ processPair(done, next).samples \in Seq(Samples)
           /\ TimesOf(done.samples) \subseteq TimesOf(processPair(done, next).samples)
           /\ Covers(processPair(done, next).samples, done.row, next)
  <1> DEFINE first == IF done.row.checked THEN [row |-> done.row, samples |-> <<>>]
                      ELSE SinglePoint(done.row)
             second == DataPair(first.row, next)
             early == done.samples \o first.samples
  <1>1. /\ processPair(done, next).row = second.row
        /\ processPair(done, next).samples = early \o second.samples
    BY DEF processPair
  <1>2. first.row \in Rows /\ first.row.t = done.row.t /\ first.samples \in Seq(Samples)
    BY SinglePointKeeps
  <1> HIDE DEF first
  <1>3. /\ second.row \in Rows /\ second.row.id = next.id /\ second.row.t = next.t /\ second.row.checked
        /\ second.samples \in Seq(Samples) /\ Covers(second.samples, first.row, next)
    BY <1>2, DataPairCovers
  <1> HIDE DEF second
  <1>4. early \in Seq(Samples) /\ TimesOf(early) = TimesOf(done.samples) \cup TimesOf(first.samples)
    BY <1>2, TimesJoin
  <1> HIDE DEF early
  <1>5. /\ early \o second.samples \in Seq(Samples)
        /\ TimesOf(early \o second.samples) = TimesOf(early) \cup TimesOf(second.samples)
    BY <1>3, <1>4, TimesJoin
  <1>6. Covers(second.samples, done.row, next)
    BY <1>2, <1>3 DEF Covers, ElapsedSamplePoints
  <1>7. QED
    BY <1>1, <1>3, <1>4, <1>5, <1>6 DEF Covers

-----------------------------------------------------------------------------
(* A row after the other.                                                  *)

\* The recursion of UpTo on the first n rows.
RunsUpTo(f, n, last, rows) ==
    f = [k \in 0..n |-> IF k = 0 THEN [row |-> last, samples |-> <<>>] ELSE processPair(f[k-1], rows[k])]

\* There is a function that does what UpTo says, on any number of rows.
LEMMA UpToIsDefined ==
    ASSUME NEW last, NEW rows \in Seq(Rows)
    PROVE  RunsUpTo(UpTo(last, rows), Len(rows), last, rows)
  <1> DEFINE start == [row |-> last, samples |-> <<>>]
             S == {n \in 0..Len(rows) : ~\E f : RunsUpTo(f, n, last, rows)}
  <1>1. S = {}
    <2>1. SUFFICES ASSUME S # {} PROVE FALSE
      OBVIOUS
    <2>2. S \subseteq Nat
      OBVIOUS
    <2>3. PICK n \in S : \A other \in S : n <= other
      <3> HIDE DEF S
      <3>1. QED
        BY <2>1, <2>2, LeastOf
    <2>4. n \in 0..Len(rows) /\ n \in Nat /\ \A f : ~RunsUpTo(f, n, last, rows)
      BY <2>3
    <2>5. CASE n = 0
      <3> DEFINE f == [k \in 0..n |-> start]
      <3>1. f = [k \in 0..n |-> IF k = 0 THEN start ELSE processPair(f[k-1], rows[k])]
        BY <2>5
      <3>2. QED
        BY <2>4, <3>1 DEF RunsUpTo
    <2>6. CASE n # 0
      <3>1. n - 1 \in 0..Len(rows) /\ n - 1 \notin S
        <4>1. n - 1 \in 0..Len(rows) /\ ~(n <= n - 1)
          BY <2>4, <2>6
        <4> HIDE DEF S
        <4>2. QED
          BY <2>3, <4>1
      <3>2. PICK g : RunsUpTo(g, n - 1, last, rows)
        BY <3>1
      <3> DEFINE f == [k \in 0..n |-> IF k = n THEN processPair(g[n-1], rows[n]) ELSE g[k]]
      <3>3. \A k \in 0..(n-1) : g[k] = IF k = 0 THEN start ELSE processPair(g[k-1], rows[k])
        BY <3>2 DEF RunsUpTo
      <3>4. \A k \in 0..n : f[k] = IF k = n THEN processPair(g[n-1], rows[n]) ELSE g[k]
        OBVIOUS
      <3> DEFINE h == [k \in 0..n |-> IF k = 0 THEN start ELSE processPair(f[k-1], rows[k])]
      <3>5. ASSUME NEW k \in 0..n PROVE f[k] = IF k = 0 THEN start ELSE processPair(f[k-1], rows[k])
        <4> HIDE DEF f, start
        <4>1. CASE k = n
          <5>1. n - 1 \in 0..n /\ n - 1 # n
            BY <2>4, <2>6
          <5>2. f[n-1] = g[n-1]
            BY <3>4, <5>1
          <5>3. f[n] = processPair(g[n-1], rows[n])
            BY <3>4, <2>4
          <5>4. QED
            BY <4>1, <5>2, <5>3, <2>6
        <4>2. CASE k = 0
          BY <3>3, <3>4, <4>2, <2>4, <2>6
        <4>3. CASE k # 0 /\ k # n
          <5>1. k \in 0..(n-1) /\ k - 1 \in 0..n /\ k - 1 # n
            BY <4>3, <2>4
          <5>2. f[k-1] = g[k-1] /\ f[k] = g[k]
            BY <3>4, <5>1, <4>3
          <5>3. QED
            BY <3>3, <5>1, <5>2, <4>3
        <4>4. QED
          BY <4>1, <4>2, <4>3
      <3>6. f = h
        BY <3>5, Zenon
      <3>7. QED
        BY <2>4, <3>6, Zenon DEF RunsUpTo
    <2>7. QED
      BY <2>5, <2>6
  <1>2. \E f : RunsUpTo(f, Len(rows), last, rows)
    <2>1. Len(rows) \in 0..Len(rows)
      OBVIOUS
    <2>2. QED
      BY <1>1, <2>1
  <1>3. QED
    BY <1>2 DEF UpTo, RunsUpTo

\* After each row it is the one that is kept, and what lies between it and the row before
\* it has been sampled, if the gap is not too large.
Processed(f, k, last, rows) ==
    /\ f[k].row \in Rows /\ f[k].samples \in Seq(Samples)
    /\ k = 0 => f[k].row = last
    /\ k > 0 =>
          /\ f[k].row.id = rows[k].id /\ f[k].row.t = rows[k].t /\ f[k].row.checked
          /\ Covers(f[k].samples, last, rows[1])
    /\ \A j \in 2..k : Covers(f[k].samples, rows[j-1], rows[j])

LEMMA CoversMore ==
    ASSUME NEW some, NEW more, TimesOf(some) \subseteq TimesOf(more), NEW prev, NEW next, Covers(some, prev, next)
    PROVE  Covers(more, prev, next)
  BY DEF Covers

LEMMA CoversSameTimes ==
    ASSUME NEW samples, NEW prev, NEW next, Covers(samples, prev, next),
           NEW first, first.t = prev.t, NEW second, second.t = next.t
    PROVE  Covers(samples, first, second)
  BY DEF Covers, ElapsedSamplePoints

LEMMA RowsInTurn ==
    ASSUME NEW last \in Rows, NEW rows \in Seq(Rows)
    PROVE  \A k \in 0..Len(rows) : Processed(UpTo(last, rows), k, last, rows)
  <1> DEFINE f == UpTo(last, rows)
             S == {k \in 0..Len(rows) : ~Processed(f, k, last, rows)}
  <1>1. \A k \in 0..Len(rows) :
            f[k] = IF k = 0 THEN [row |-> last, samples |-> <<>>] ELSE processPair(f[k-1], rows[k])
    BY UpToIsDefined DEF RunsUpTo
  <1> HIDE DEF f
  <1>2. SUFFICES ASSUME S # {} PROVE FALSE
    BY DEF f
  <1>3. S \subseteq Nat
    OBVIOUS
  <1>4. PICK k \in S : \A other \in S : k <= other
    <2> HIDE DEF S
    <2>1. QED
      BY <1>2, <1>3, LeastOf
  <1>5. k \in 0..Len(rows) /\ k \in Nat /\ ~Processed(f, k, last, rows)
    BY <1>4
  <1>6. CASE k = 0
    <2>1. f[0].row = last /\ f[0].samples = <<>>
      BY <1>1, <1>5, <1>6
    <2>2. f[0].row \in Rows /\ f[0].samples \in Seq(Samples)
      BY <2>1
    <2>3. Processed(f, 0, last, rows)
      BY <2>1, <2>2 DEF Processed
    <2>4. QED
      BY <2>3, <1>5, <1>6
  <1>7. CASE k # 0
    <2>1. k - 1 \in 0..Len(rows) /\ k - 1 \notin S
      <3>1. k - 1 \in 0..Len(rows) /\ ~(k <= k - 1)
        BY <1>5, <1>7
      <3> HIDE DEF S
      <3>2. QED
        BY <1>4, <3>1
    <2>2. Processed(f, k - 1, last, rows)
      BY <2>1
    <2>3. f[k] = processPair(f[k-1], rows[k]) /\ k \in 1..Len(rows) /\ rows[k] \in Rows
      BY <1>1, <1>5, <1>7
    <2>4. f[k-1].row \in Rows /\ f[k-1].samples \in Seq(Samples)
      BY <2>2 DEF Processed
    <2>5. /\ f[k].row \in Rows
          /\ f[k].row.id = rows[k].id /\ f[k].row.t = rows[k].t /\ f[k].row.checked
          /\ f[k].samples \in Seq(Samples)
          /\ TimesOf(f[k-1].samples) \subseteq TimesOf(f[k].samples)
          /\ Covers(f[k].samples, f[k-1].row, rows[k])
      <3> DEFINE before == f[k-1]
                 next == rows[k]
      <3>1. f[k] = processPair(before, next) /\ next \in Rows
        BY <2>3
      <3>2. before.row \in Rows /\ before.samples \in Seq(Samples)
        BY <2>4
      <3> HIDE DEF before, next
      <3>3. /\ processPair(before, next).row \in Rows
            /\ processPair(before, next).row.id = next.id /\ processPair(before, next).row.t = next.t
            /\ processPair(before, next).row.checked
            /\ processPair(before, next).samples \in Seq(Samples)
            /\ TimesOf(before.samples) \subseteq TimesOf(processPair(before, next).samples)
            /\ Covers(processPair(before, next).samples, before.row, next)
        BY <3>1, <3>2, PairResult
      <3>4. QED
        BY <3>1, <3>3 DEF before, next
    <2>6. CASE k = 1
      <3>1. Covers(f[k].samples, last, rows[1])
        BY <2>2, <2>5, <2>6 DEF Processed
      <3>2. QED
        BY <1>5, <2>5, <2>6, <3>1 DEF Processed
    <2>7. CASE k # 1
      <3>1. k - 1 > 0 /\ k - 1 \in Nat /\ k \in 2..k
        BY <1>5, <1>7, <2>7
      <3>2. Covers(f[k].samples, last, rows[1])
        BY <2>2, <2>5, <3>1, CoversMore DEF Processed
      <3>3. f[k-1].row.t = rows[k-1].t
        BY <2>2, <3>1 DEF Processed
      <3>4. Covers(f[k].samples, rows[k-1], rows[k])
        BY <2>5, <3>3, CoversSameTimes
      <3>5. ASSUME NEW j \in 2..k PROVE Covers(f[k].samples, rows[j-1], rows[j])
        <4>1. CASE j = k
          BY <3>4, <4>1
        <4>2. CASE j # k
          <5>1. j \in 2..(k-1)
            BY <3>1, <3>5, <4>2
          <5>2. Covers(f[k-1].samples, rows[j-1], rows[j])
            BY <2>2, <5>1 DEF Processed
          <5>3. QED
            BY <2>5, <5>2, CoversMore
        <4>3. QED
          BY <4>1, <4>2
      <3>6. QED
        BY <1>5, <1>7, <2>5, <3>2, <3>5 DEF Processed
    <2>8. QED
      BY <2>6, <2>7
  <1>8. QED
    BY <1>6, <1>7

-----------------------------------------------------------------------------
(* The first rows in order.                                                *)

Rank(U, row) == Cardinality({other \in U : Before(other, row)})

Ordered(U) ==
    /\ U \subseteq Rows /\ IsFiniteSet(U)
    /\ \A row, other \in U : row.id = other.id => row = other

LEMMA BeforeIsOrder ==
    ASSUME NEW U, Ordered(U), NEW a \in U, NEW b \in U
    PROVE  /\ a # b => Before(a, b) \/ Before(b, a)
           /\ ~(Before(a, b) /\ Before(b, a)) /\ ~Before(a, a)
           /\ \A c \in U : Before(a, b) /\ Before(b, c) => Before(a, c)
  <1>1. \A row \in U : row.t \in Nat /\ row.id \in Nat
    BY DEF Ordered, Rows
  <1>2. a # b => a.id # b.id
    BY DEF Ordered
  <1>3. QED
    BY <1>1, <1>2 DEF Before

LEMMA Ranks ==
    ASSUME NEW U, Ordered(U)
    PROVE  /\ Cardinality(U) \in Nat
           /\ \A row \in U : Rank(U, row) \in 0..(Cardinality(U) - 1)
           /\ \A a, b \in U : Rank(U, a) < Rank(U, b) <=> Before(a, b)
           /\ \A k \in 0..(Cardinality(U) - 1) : \E row \in U : Rank(U, row) = k
  <1> DEFINE below(row) == {other \in U : Before(other, row)}
             N == Cardinality(U)
  <1>1. IsFiniteSet(U) /\ N \in Nat
    BY FS_CardinalityType DEF Ordered
  <1>2. ASSUME NEW row \in U
        PROVE  IsFiniteSet(below(row)) /\ Rank(U, row) \in Nat /\ Rank(U, row) <= N - 1
    <2>1. below(row) \subseteq U \ {row}
      BY BeforeIsOrder
    <2>2. IsFiniteSet(U \ {row}) /\ Cardinality(U \ {row}) = N - 1
      BY <1>1, <1>2, FS_RemoveElement
    <2>3. IsFiniteSet(below(row)) /\ Cardinality(below(row)) <= N - 1
      BY <2>1, <2>2, FS_Subset
    <2>4. Cardinality(below(row)) \in Nat
      BY <2>3, FS_CardinalityType
    <2>5. QED
      BY <2>3, <2>4 DEF Rank
  <1>3. ASSUME NEW a \in U, NEW b \in U, Before(a, b)
        PROVE  Rank(U, a) < Rank(U, b)
    <2>1. a \notin below(a) /\ below(a) \cup {a} \subseteq below(b)
      BY <1>3, BeforeIsOrder
    <2>2. Cardinality(below(a) \cup {a}) = Cardinality(below(a)) + 1
      BY <1>2, <2>1, FS_AddElement
    <2>3. Cardinality(below(a) \cup {a}) <= Cardinality(below(b))
      BY <1>2, <2>1, FS_Subset
    <2>4. Rank(U, a) = Cardinality(below(a)) /\ Rank(U, b) = Cardinality(below(b))
      BY DEF Rank
    <2>5. Rank(U, a) \in Nat /\ Rank(U, b) \in Nat
      BY <1>2
    <2>6. Rank(U, a) + 1 <= Rank(U, b)
      BY <2>2, <2>3, <2>4, Zenon
    <2>7. QED
      BY <2>5, <2>6
  <1>4. ASSUME NEW a \in U, NEW b \in U PROVE Rank(U, a) < Rank(U, b) <=> Before(a, b)
    <2>1. Rank(U, a) \in Nat /\ Rank(U, b) \in Nat
      BY <1>2
    <2>2. ASSUME Rank(U, a) < Rank(U, b) PROVE Before(a, b)
      <3>1. a # b /\ ~Before(b, a)
        BY <1>3, <2>1, <2>2
      <3>2. QED
        BY <3>1, BeforeIsOrder
    <2>3. QED
      BY <1>3, <2>2
  <1> DEFINE f == [row \in U |-> Rank(U, row)]
  <1> HIDE DEF N, below
  <1>5. f \in [U -> 0..(N-1)]
    BY <1>1, <1>2
  <1>6. ASSUME NEW a \in U, NEW b \in U, f[a] = f[b] PROVE a = b
    <2>1. Rank(U, a) = Rank(U, b) /\ Rank(U, a) \in Nat
      BY <1>2, <1>6
    <2>2. ~Before(a, b) /\ ~Before(b, a)
      BY <1>3, <2>1
    <2>3. QED
      BY <2>2, BeforeIsOrder
  <1>7. DOMAIN f = U
    OBVIOUS
  <1> HIDE DEF f
  <1>8. f \in Injection(U, 0..(N-1))
    BY <1>5, <1>6, <1>7 DEF Injection, IsInjective
  <1>9. IsFiniteSet(0..(N-1)) /\ Cardinality(0..(N-1)) = N
    BY <1>1, FS_Interval
  <1>10. f \in Surjection(U, 0..(N-1))
    <2>1. Cardinality(U) = Cardinality(0..(N-1))
      BY <1>9 DEF N
    <2>2. QED
      BY <1>8, <1>9, <2>1, FS_Injection
  <1>11. ASSUME NEW k \in 0..(N-1) PROVE \E row \in U : Rank(U, row) = k
    <2>1. \E row \in U : f[row] = k
      BY <1>10 DEF Surjection
    <2>2. QED
      BY <2>1 DEF f
  <1>12. QED
    <2>1. \A row \in U : Rank(U, row) \in 0..(N - 1)
      BY <1>1, <1>2
    <2>2. QED
      BY <1>1, <1>4, <1>11, <2>1 DEF N

LEMMA UncheckedOrdered ==
    ASSUME Typed
    PROVE  Ordered(Unchecked)
  <1> DEFINE f == [row \in Unchecked |-> row.id]
  <1>1. Unchecked \subseteq Rows /\ \A row, other \in Unchecked : row.id = other.id => row = other
    BY DEF Typed, IsRow, Unchecked
  <1>2. f \in [Unchecked -> 1..lastId] /\ DOMAIN f = Unchecked
    BY DEF Typed, IsRow, Unchecked
  <1>3. \A row, other \in Unchecked : f[row] = f[other] => row = other
    BY <1>1
  <1> HIDE DEF f
  <1>4. f \in Injection(Unchecked, 1..lastId)
    BY <1>2, <1>3 DEF Injection, IsInjective
  <1>5. IsFiniteSet(1..lastId)
    BY FS_Interval DEF Typed
  <1>6. QED
    BY <1>1, <1>4, <1>5, FS_Injection DEF Ordered

LEMMA PageIsRead ==
    ASSUME Typed, Unchecked # {}
    PROVE  /\ FirstUnchecked \in Seq(Rows) /\ Len(FirstUnchecked) >= 1
           /\ \A k \in 1..Len(FirstUnchecked) : FirstUnchecked[k] \in Unchecked
           /\ \A j, k \in 1..Len(FirstUnchecked) : j < k => Before(FirstUnchecked[j], FirstUnchecked[k])
           /\ \A row \in Unchecked, k \in 1..Len(FirstUnchecked) : Before(row, FirstUnchecked[k]) =>
                 \E j \in 1..Len(FirstUnchecked) : FirstUnchecked[j] = row
  <1> DEFINE U == Unchecked
             N == Cardinality(U)
             n == Min({Limit, N})
             f == FirstUnchecked
  <1>1. Ordered(U)
    BY UncheckedOrdered
  <1>2. N \in Nat /\ N # 0
    BY <1>1, FS_CardinalityType, FS_EmptySet DEF Ordered
  <1>3. n \in Nat /\ 1 <= n /\ n <= N
    <2>1. Limit \in Nat \ {0}
      BY SamplingAssumption
    <2> HIDE DEF N
    <2>2. \E x \in {Limit, N} : \A y \in {Limit, N} : x =< y
      BY <1>2, <2>1
    <2>3. n \in {Limit, N} /\ n <= Limit /\ n <= N
      BY <2>2 DEF Min
    <2>4. QED
      BY <1>2, <2>1, <2>3
  <1>4. f = [i \in 1..n |-> CHOOSE row \in U : Rank(U, row) = i - 1]
    BY DEF FirstUnchecked, Rank
  <1> HIDE DEF U, N, n, f
  <1>5. ASSUME NEW k \in 1..n PROVE f[k] \in U /\ Rank(U, f[k]) = k - 1
    <2>1. k - 1 \in 0..(N - 1)
      BY <1>2, <1>3
    <2>2. \E row \in U : Rank(U, row) = k - 1
      BY <1>1, <2>1, Ranks DEF N
    <2>3. f[k] = CHOOSE row \in U : Rank(U, row) = k - 1
      BY <1>4
    <2>4. QED
      BY <2>2, <2>3
  <1>6. U \subseteq Rows
    BY <1>1 DEF Ordered
  <1>7. f \in Seq(Rows) /\ Len(f) = n
    <2>1. f \in [1..n -> Rows]
      BY <1>4, <1>5, <1>6
    <2>2. QED
      BY <2>1, <1>3
  <1>8. ASSUME NEW j \in 1..n, NEW k \in 1..n, j < k PROVE Before(f[j], f[k])
    <2>1. Rank(U, f[j]) < Rank(U, f[k])
      BY <1>3, <1>5, <1>8
    <2>2. QED
      BY <1>1, <1>5, <2>1, Ranks
  <1>9. ASSUME NEW row \in U, NEW k \in 1..n, Before(row, f[k])
        PROVE  \E j \in 1..n : f[j] = row
    <2>1. Rank(U, row) < k - 1 /\ Rank(U, row) \in Nat
      BY <1>1, <1>5, <1>9, Ranks
    <2> DEFINE j == Rank(U, row) + 1
    <2>2. j \in 1..n
      BY <1>3, <2>1
    <2>3. Rank(U, f[j]) = Rank(U, row) /\ f[j] \in U
      BY <1>5, <2>1, <2>2
    <2> HIDE DEF j
    <2>4. ~Before(f[j], row) /\ ~Before(row, f[j])
      <3>1. ~(Rank(U, f[j]) < Rank(U, row)) /\ ~(Rank(U, row) < Rank(U, f[j]))
        BY <2>1, <2>3
      <3>2. QED
        BY <1>1, <2>3, <3>1, Ranks
    <2>5. f[j] = row
      BY <1>1, <2>3, <2>4, BeforeIsOrder
    <2>6. QED
      BY <2>2, <2>5
  <1>10. QED
    BY <1>3, <1>5, <1>7, <1>8, <1>9 DEF f, U

-----------------------------------------------------------------------------
(* What a step of another call leaves as it is.                            *)

LEMMA TraceTimes ==
    ASSUME Typed
    PROVE  /\ DOMAIN trace = 1..Len(trace) /\ Len(trace) \in Nat /\ sent \in Nat /\ sent <= Len(trace)
           /\ inOrder \in Nat /\ inOrder <= sent
           /\ \A i \in 1..Len(trace) : trace[i].t \in Nat /\ trace[i].e \in Int
           /\ \A i, j \in 1..Len(trace) : trace[i].t < trace[j].t <=> i < j
           /\ \A i, j \in 1..Len(trace) : trace[i].t = trace[j].t <=> i = j
  <1>1. trace \in Seq([t : Nat, e : Int]) /\ sent \in 0..Len(trace) /\ inOrder \in 0..sent
    BY SamplingAssumption DEF Typed
  <1>2. /\ DOMAIN trace = 1..Len(trace) /\ Len(trace) \in Nat /\ sent \in Nat /\ sent <= Len(trace)
        /\ inOrder \in Nat /\ inOrder <= sent
        /\ \A i \in 1..Len(trace) : trace[i].t \in Nat /\ trace[i].e \in Int
    <2>1. /\ DOMAIN trace = 1..Len(trace) /\ Len(trace) \in Nat
          /\ \A i \in 1..Len(trace) : trace[i] \in [t : Nat, e : Int]
      <3> DEFINE Points == [t : Nat, e : Int]
      <3>1. trace \in Seq(Points)
        BY <1>1
      <3> HIDE DEF Points
      <3>2. /\ DOMAIN trace = 1..Len(trace) /\ Len(trace) \in Nat
            /\ \A i \in 1..Len(trace) : trace[i] \in Points
        BY <3>1
      <3>3. QED
        BY <3>2 DEF Points
    <2>2. QED
      BY <1>1, <2>1
  <1>3. \A i, j \in 1..Len(trace) : i < j => trace[i].t < trace[j].t
    BY <1>2, SamplingAssumption DEF Typed
  <1>4. QED
    BY <1>2, <1>3

\* What is in order grows only with the newest point.
Grows == inOrder' <= inOrder \/ inOrder = sent

\* What a step of a call does to what other calls rely on: the rows there were keep their
\* times, none becomes unchecked, and of what is needed something at least as new is left.
Keeps ==
    /\ trace' = trace /\ sent <= sent' /\ Grows /\ lastId <= lastId'
    /\ SampledAt \subseteq SampledAt'
    /\ \A row \in stoneEnergy' : row.id <= lastId =>
          \E old \in stoneEnergy : old.id = row.id /\ old.t = row.t /\ (~row.checked => ~old.checked)
    /\ \A m \in 1..inOrder : Needed(m)' => \A row \in stoneEnergy : row.t = trace[m].t =>
          \E other \in stoneEnergy' : other.t = trace[m].t /\ row.id <= other.id
    /\ \A i \in 2..inOrder : Open(i)' => \A row \in Unchecked : row.t = trace[i].t =>
          \E other \in Unchecked' : other.t = trace[i].t /\ row.id <= other.id

LEMMA NothingReopens ==
    ASSUME Typed, Typed', trace' = trace, sent <= sent', Grows, SampledAt \subseteq SampledAt'
    PROVE  /\ \A i \in 1..(Len(trace) + 1) : Open(i)' => Open(i)
           /\ \A m \in 1..inOrder : Needed(m)' => Needed(m)
           /\ \A t \in Times : \A i \in 1..inOrder' : trace[i].t <= t => i <= inOrder
           /\ Times \subseteq Times'
           /\ \A i \in 1..sent : trace[i].t \in Times
  <1>1. \A i : Open(i)' => Open(i)
    BY DEF Open, Places
  <1>2. /\ sent \in Nat /\ sent' \in Nat /\ sent <= sent' /\ sent' <= Len(trace) /\ Len(trace) \in Nat
        /\ inOrder \in Nat /\ inOrder <= sent /\ inOrder' \in Nat /\ inOrder' <= sent' /\ Grows
    BY DEF Typed
  <1>3. \A m \in 1..inOrder : Needed(m)' => Needed(m)
    <2> SUFFICES ASSUME NEW m \in 1..inOrder, Needed(m)' PROVE Needed(m)
      OBVIOUS
    <2>1. m = sent' \/ (m < inOrder' /\ Open(m + 1)')
      BY DEF Needed
    <2>2. m + 1 \in 1..(Len(trace) + 1) /\ m \in Nat
      BY <1>2
    <2>3. m = sent \/ (m < inOrder /\ Open(m + 1)')
      BY <1>2, <2>1, <2>2 DEF Grows
    <2>4. QED
      BY <1>1, <2>3 DEF Needed
  <1>4. ASSUME NEW t \in Times, NEW i \in 1..inOrder', trace[i].t <= t PROVE i <= inOrder
    <2>1. PICK j \in 1..sent : t = trace[j].t
      BY DEF Times
    <2>2. i \in 1..Len(trace) /\ j \in 1..Len(trace)
      BY <1>2
    <2>3. ~(j < i)
      BY <1>4, <2>1, <2>2, TraceTimes
    <2>4. i <= sent
      BY <1>2, <2>2, <2>3
    <2>5. QED
      BY <1>2, <2>4 DEF Grows
  <1>5. Times \subseteq Times' /\ \A i \in 1..sent : trace[i].t \in Times
    BY <1>2 DEF Times
  <1>6. QED
    BY <1>1, <1>3, <1>4, <1>5

LEMMA PageStays ==
    ASSUME Typed, Typed', Keeps, NEW v \in Uploads, Page(v),
           energyData'[v] = energyData[v],
           stage'[v] \in {"idle", "reading"} <=> stage[v] \in {"idle", "reading"}
    PROVE  Page(v)'
  <1> DEFINE rows == energyData[v]
  <1>1. rows \in Seq(Rows) /\ DOMAIN rows = 1..Len(rows) /\ Len(rows) \in Nat
    <2>1. rows \in Seq(Rows)
      BY DEF Typed
    <2> HIDE DEF rows
    <2>2. QED
      BY <2>1
  <1>2. \A k \in DOMAIN rows : IsRow(rows[k])
    BY DEF Page
  <1>3. /\ sent \in Nat /\ sent' \in Nat /\ sent <= sent' /\ lastId \in Nat /\ lastId' \in Nat /\ lastId <= lastId'
        /\ inOrder \in Nat /\ inOrder' \in Nat /\ inOrder' <= sent' /\ sent' <= Len(trace) /\ Len(trace) \in Nat
        /\ trace' = trace /\ Grows /\ SampledAt \subseteq SampledAt'
    BY DEF Typed, Keeps
  <1>4. ASSUME NEW k \in DOMAIN rows PROVE IsRow(energyData[v][k])'
    <2>1. rows[k] \in Rows /\ rows[k].id \in 1..lastId /\ rows[k].t \in Times
      BY <1>2 DEF IsRow
    <2>2. rows[k].t \in Times'
      BY <1>3, <2>1, NothingReopens
    <2>3. energyData'[v][k] = rows[k]
      OBVIOUS
    <2> HIDE DEF rows
    <2>4. rows[k].id \in 1..lastId'
      BY <1>3, <2>1
    <2>5. QED
      BY <2>1, <2>2, <2>3, <2>4 DEF IsRow, rows
  <1>5. \A k \in 2..Len(rows) : \A j \in 1..inOrder' : ~(rows[k-1].t < trace[j].t /\ trace[j].t < rows[k].t)
    <2> SUFFICES ASSUME NEW k \in 2..Len(rows), NEW j \in 1..inOrder', rows[k-1].t < trace[j].t, trace[j].t < rows[k].t
                 PROVE  FALSE
      OBVIOUS
    <2>1. rows[k].t \in Times /\ rows[k].t \in Nat
      <3>1. k \in DOMAIN rows
        BY <1>1
      <3>2. QED
        BY <1>2, <3>1 DEF IsRow, Rows
    <2>2. trace[j].t \in Nat
      BY <1>3, TraceTimes
    <2>3. j \in 1..inOrder
      BY <1>3, <2>1, <2>2, NothingReopens
    <2>4. QED
      BY <2>3 DEF Page
  <1>6. ASSUME NEW row \in stoneEnergy', NEW k \in DOMAIN rows, row.id = rows[k].id PROVE row.t = rows[k].t
    <2>1. row.id <= lastId
      BY <1>2, <1>3, <1>6 DEF IsRow
    <2>2. PICK old \in stoneEnergy : old.id = row.id /\ old.t = row.t
      BY <2>1 DEF Keeps
    <2>3. QED
      BY <1>6, <2>2 DEF Page
  <1>7. ASSUME NEW row \in Unchecked', NEW k \in DOMAIN rows, row.t <= rows[k].t, row.id < rows[k].id
        PROVE  \E j \in DOMAIN rows : rows[j].id = row.id
    <2>1. row \in stoneEnergy' /\ ~row.checked /\ row.id \in Nat
      BY DEF Unchecked, Typed, IsRow, Rows
    <2>2. row.id <= lastId
      BY <1>2, <1>3, <1>7, <2>1 DEF IsRow
    <2>3. PICK old \in stoneEnergy : old.id = row.id /\ old.t = row.t /\ ~old.checked
      BY <2>1, <2>2 DEF Keeps
    <2>4. old \in Unchecked
      BY <2>3 DEF Unchecked
    <2>5. QED
      BY <1>7, <2>3, <2>4 DEF Page
  <1>8. /\ \A j, k \in DOMAIN rows : j < k => Before(rows[j], rows[k]) /\ rows[j].id # rows[k].id
        /\ stage'[v] \in {"idle", "reading"} <=> rows = <<>>
    BY DEF Page
  <1> HIDE DEF rows
  <1>9. trace' = trace /\ energyData'[v] = rows
    BY <1>3 DEF rows
  <1>10. QED
    BY <1>4, <1>5, <1>6, <1>7, <1>8, <1>9 DEF Page

LEMMA FindingStays ==
    ASSUME Typed, Typed', Keeps, NEW v \in Uploads, Page(v), Finding(v),
           energyData'[v] = energyData[v], stage'[v] = "finding" => stage[v] = "finding"
    PROVE  Finding(v)'
  <1> DEFINE rows == energyData[v]
  <1> SUFFICES ASSUME stage'[v] = "finding"
               PROVE  Finding(v)'
    BY DEF Finding
  <1>1. rows \in Seq(Rows) /\ DOMAIN rows = 1..Len(rows) /\ rows # <<>> /\ Len(rows) >= 1
    <2>1. rows \in Seq(Rows) /\ rows # <<>>
      BY DEF Typed, Page
    <2> HIDE DEF rows
    <2>2. QED
      BY <2>1
  <1>2. /\ sent \in Nat /\ sent' \in Nat /\ sent <= sent' /\ sent' <= Len(trace) /\ Len(trace) \in Nat
        /\ inOrder \in Nat /\ inOrder' \in Nat /\ inOrder' <= sent'
        /\ trace' = trace /\ Grows /\ SampledAt \subseteq SampledAt'
    BY DEF Typed, Keeps
  <1>3. \A k \in DOMAIN rows : rows[k].t \in Times /\ rows[k].t \in Nat
    BY DEF Page, IsRow, Rows
  <1>4. ASSUME NEW i \in 2..inOrder', trace[i].t < rows[1].t PROVE ~Open(i)'
    <2>1. rows[1].t \in Times /\ rows[1].t \in Nat
      BY <1>1, <1>3
    <2>2. trace[i].t \in Nat /\ i \in 1..(Len(trace) + 1) /\ i \in 1..inOrder'
      BY <1>2, TraceTimes
    <2>3. i \in 2..inOrder
      BY <1>2, <1>4, <2>1, <2>2, NothingReopens
    <2>4. ~Open(i)
      BY <1>4, <2>3 DEF Finding
    <2>5. QED
      BY <1>2, <2>2, <2>4, NothingReopens
  <1>5. ASSUME NEW m \in 1..inOrder', NEW k \in DOMAIN rows, Needed(m)', rows[k].t = trace[m].t
        PROVE  \E row \in stoneEnergy' : row.t = trace[m].t /\ rows[k].id <= row.id
    <2>1. m \in 1..inOrder
      <3>1. trace[m].t \in Times /\ trace[m].t <= trace[m].t
        BY <1>3, <1>5
      <3>2. m <= inOrder
        BY <1>2, <3>1, NothingReopens
      <3>3. QED
        BY <1>2, <3>2
    <2>2. Needed(m)
      BY <1>2, <1>5, <2>1, NothingReopens
    <2>3. PICK row \in stoneEnergy : row.t = trace[m].t /\ rows[k].id <= row.id
      BY <1>5, <2>1, <2>2 DEF Finding, RowsAt
    <2>4. PICK other \in stoneEnergy' : other.t = trace[m].t /\ row.id <= other.id
      BY <1>5, <2>1, <2>3 DEF Keeps
    <2>5. rows[k].id \in Nat /\ row.id \in Nat /\ other.id \in Nat
      BY DEF Page, Typed, IsRow, Rows
    <2>6. QED
      BY <2>3, <2>4, <2>5
  <1> HIDE DEF rows
  <1>6. trace' = trace /\ energyData'[v] = rows
    BY <1>2 DEF rows
  <1>7. QED
    BY <1>4, <1>5, <1>6 DEF Finding, RowsAt

LEMMA WorkingStays ==
    ASSUME Typed, Typed', Keeps, NEW v \in Uploads, Page(v), Working(v),
           energyData'[v] = energyData[v], work'[v] = work[v],
           stage'[v] \in {"creating", "deleting", "updating"} => stage[v] \in {"creating", "deleting", "updating"},
           stage'[v] = "updating" => stage[v] = "updating" \/ \A row \in stoneEnergy' : row.id \notin work[v].used,
           \A i \in 2..inOrder : Open(i)' /\ Makes(v, i) => Makes(v, i)'
    PROVE  Working(v)'
  <1> DEFINE rows == energyData[v]
             last == work[v].last
             used == work[v].used
  <1> SUFFICES ASSUME stage'[v] \in {"creating", "deleting", "updating"}
               PROVE  Working(v)'
    BY DEF Working
  <1>1. /\ sent \in Nat /\ sent' \in Nat /\ sent <= sent' /\ lastId \in Nat /\ lastId' \in Nat /\ lastId <= lastId'
        /\ inOrder \in Nat /\ inOrder <= sent /\ inOrder' \in Nat /\ inOrder' <= sent' /\ Grows
        /\ trace' = trace /\ SampledAt \subseteq SampledAt' /\ sent' <= Len(trace) /\ Len(trace) \in Nat
    BY DEF Typed, Keeps
  <1>2. /\ last \in Rows /\ last.id \in 1..lastId /\ last.t \in Times /\ last.checked /\ last.id \notin used
        /\ last.id = rows[Len(rows)].id /\ last.t = rows[Len(rows)].t
        /\ \A k \in 1..(Len(rows) - 1) : rows[k].id \in used
        /\ used \subseteq 1..lastId
    BY DEF Working, IsRow
  <1>3. \A row \in stoneEnergy : row.id \in 1..lastId /\ row.id \in Nat /\ row.t \in Times /\ row.t \in Nat
    BY DEF Typed, IsRow, Rows
  <1>4. \A row \in stoneEnergy' : row.id \in Nat
    BY DEF Typed, IsRow, Rows
  <1>5. ASSUME NEW row \in stoneEnergy', row.id \in used \cup {last.id}
        PROVE  \E old \in stoneEnergy : old.id = row.id /\ old.t = row.t /\ (~row.checked => ~old.checked)
    <2>1. row.id <= lastId
      BY <1>1, <1>2, <1>5
    <2>2. QED
      BY <2>1 DEF Keeps
  <1>6. ASSUME NEW row \in Unchecked', row.id \in used
        PROVE  \E k \in 1..(Len(rows) - 1) : rows[k].id = row.id
    <2>1. row \in stoneEnergy' /\ ~row.checked
      BY DEF Unchecked
    <2>2. PICK old \in stoneEnergy : old.id = row.id /\ ~old.checked
      BY <1>5, <1>6, <2>1
    <2>3. old \in Unchecked /\ old.id \in work[v].used
      BY <1>6, <2>2 DEF Unchecked
    <2>4. QED
      BY <2>2, <2>3 DEF Working
  <1>7. stage'[v] = "updating" => \A row \in stoneEnergy' : row.id \notin used
    <2> SUFFICES ASSUME stage'[v] = "updating", stage[v] = "updating", NEW row \in stoneEnergy', row.id \in used
                 PROVE  FALSE
      OBVIOUS
    <2>1. PICK old \in stoneEnergy : old.id = row.id
      BY <1>5
    <2>2. QED
      BY <2>1 DEF Working
  <1>8. ASSUME NEW m \in 1..inOrder', m = sent' \/ (m < inOrder' /\ Open(m + 1)' /\ ~Makes(v, m + 1)'),
               NEW row \in stoneEnergy', row.t = trace[m].t, row.id \in used
        PROVE  \E other \in stoneEnergy' : other.t = trace[m].t /\ row.id < other.id
    <2>1. PICK old \in stoneEnergy : old.id = row.id /\ old.t = row.t
      BY <1>5, <1>8
    <2>2. m \in 1..inOrder
      BY <1>1, <1>3, <1>8, <2>1, NothingReopens
    <2>3. m = sent \/ (m < inOrder /\ Open(m + 1) /\ ~Makes(v, m + 1))
      <3>1. CASE m = sent
        BY <3>1
      <3>2. CASE m # sent
        <4>1. m # sent'
          BY <1>1, <2>2, <3>2
        <4>2. m < inOrder' /\ Open(m + 1)' /\ ~Makes(v, m + 1)'
          BY <1>8, <4>1
        <4>3. m < inOrder /\ m + 1 \in 2..inOrder /\ m + 1 \in 1..(Len(trace) + 1)
          BY <1>1, <2>2, <3>2, <4>2 DEF Grows
        <4>4. QED
          BY <1>1, <4>2, <4>3, NothingReopens
      <3>3. QED
        BY <3>1, <3>2
    <2>4. PICK other \in stoneEnergy : other.t = trace[m].t /\ old.id < other.id
      BY <1>8, <2>1, <2>2, <2>3 DEF Working, RowsAt
    <2>5. Needed(m)'
      BY <1>1, <1>8 DEF Needed
    <2>6. PICK newer \in stoneEnergy' : newer.t = trace[m].t /\ other.id <= newer.id
      BY <2>2, <2>4, <2>5 DEF Keeps
    <2>7. QED
      BY <1>3, <1>4, <2>1, <2>4, <2>6
  <1>9. ASSUME NEW i \in 2..inOrder', Open(i)', ~Makes(v, i)',
               NEW row \in Unchecked', row.t = trace[i].t, row.id \in used \cup {last.id}
        PROVE  \E other \in Unchecked' : other.t = trace[i].t /\ row.id < other.id
    <2>1. row \in stoneEnergy' /\ ~row.checked
      BY DEF Unchecked
    <2>2. PICK old \in stoneEnergy : old.id = row.id /\ old.t = row.t /\ ~old.checked
      BY <1>5, <1>9, <2>1
    <2>3. i \in 2..inOrder
      BY <1>1, <1>3, <1>9, <2>2, NothingReopens
    <2>4. Open(i) /\ ~Makes(v, i)
      BY <1>1, <1>9, <2>3, NothingReopens
    <2>5. old \in Unchecked
      BY <2>2 DEF Unchecked
    <2>6. PICK other \in Unchecked : other.t = trace[i].t /\ old.id < other.id
      BY <1>9, <2>2, <2>3, <2>4, <2>5 DEF Working
    <2>7. PICK newer \in Unchecked' : newer.t = trace[i].t /\ other.id <= newer.id
      BY <1>9, <2>3, <2>6 DEF Keeps
    <2>8. other \in stoneEnergy /\ newer \in stoneEnergy'
      BY DEF Unchecked
    <2>9. QED
      BY <1>3, <1>4, <2>1, <2>2, <2>6, <2>7, <2>8
  <1>10. IsRow(work[v].last)'
    <2>1. last.t \in Times' /\ last.id \in 1..lastId'
      BY <1>1, <1>2, NothingReopens
    <2>2. work'[v].last = last
      OBVIOUS
    <2> HIDE DEF last
    <2>3. QED
      BY <1>2, <2>1, <2>2 DEF IsRow
  <1>11. used \subseteq 1..lastId'
    BY <1>1, <1>2
  <1> HIDE DEF rows, last, used
  <1>12. trace' = trace /\ energyData'[v] = rows /\ work'[v].last = last /\ work'[v].used = used
    BY <1>1 DEF rows, last, used
  <1>13. QED
    BY <1>2, <1>6, <1>7, <1>8, <1>9, <1>10, <1>11, <1>12 DEF Working, RowsAt

\* A call that reads, or has ended, relies on nothing.
LEMMA NothingRead ==
    ASSUME NEW v \in Uploads, energyData'[v] = <<>>, stage'[v] \in {"idle", "reading"}
    PROVE  Page(v)' /\ Finding(v)' /\ Working(v)'
  <1>1. DOMAIN energyData'[v] = {} /\ 2..Len(energyData'[v]) = {}
    OBVIOUS
  <1>2. Page(v)'
    BY <1>1 DEF Page
  <1>3. Finding(v)' /\ Working(v)'
    BY DEF Finding, Working
  <1>4. QED
    BY <1>2, <1>3

LEMMA OthersKeep ==
    ASSUME Inv, Typed', Keeps, NEW u \in Uploads,
           \A v \in Uploads \ {u} :
              stage'[v] = stage[v] /\ energyData'[v] = energyData[v] /\ work'[v] = work[v],
           Page(u)', Finding(u)', Working(u)'
    PROVE  \A v \in Uploads : Page(v)' /\ Finding(v)' /\ Working(v)'
  <1> SUFFICES ASSUME NEW v \in Uploads, v # u
               PROVE  Page(v)' /\ Finding(v)' /\ Working(v)'
    OBVIOUS
  <1>1. Typed /\ Page(v) /\ Finding(v) /\ Working(v)
    BY DEF Inv
  <1>2. stage'[v] = stage[v] /\ energyData'[v] = energyData[v] /\ work'[v] = work[v]
    OBVIOUS
  <1>3. \A i \in 2..inOrder : Makes(v, i) => Makes(v, i)'
    BY <1>2 DEF Makes, Places, Keeps
  <1>4. Page(v)'
    BY <1>1, <1>2, PageStays
  <1>5. Finding(v)'
    BY <1>1, <1>2, FindingStays
  <1>6. Working(v)'
    BY <1>1, <1>2, <1>3, WorkingStays
  <1>7. QED
    BY <1>4, <1>5, <1>6

LEMMA PresentStays ==
    ASSUME Typed, Typed', Present, Keeps, sent' = sent, inOrder' = inOrder
    PROVE  Present'
  <1>1. /\ trace' = trace /\ SampledAt \subseteq SampledAt' /\ sent \in Nat /\ sent <= Len(trace) /\ Len(trace) \in Nat
        /\ inOrder \in Nat /\ inOrder <= sent /\ Grows
    BY DEF Typed, Keeps
  <1>2. ASSUME NEW m \in 1..inOrder, Needed(m)'
        PROVE  \E row \in stoneEnergy' : row.t = trace[m].t
    <2>1. Needed(m)
      BY <1>1, <1>2, NothingReopens
    <2>2. PICK row \in stoneEnergy : row.t = trace[m].t
      BY <2>1 DEF Present, RowsAt
    <2>3. QED
      BY <1>2, <2>2 DEF Keeps
  <1>3. ASSUME NEW i \in 2..inOrder, Open(i)'
        PROVE  \E row \in Unchecked' : row.t = trace[i].t
    <2>1. Open(i)
      BY <1>1, <1>3, NothingReopens
    <2>2. PICK row \in Unchecked : row.t = trace[i].t
      BY <2>1 DEF Present
    <2>3. QED
      BY <1>3, <2>2 DEF Keeps
  <1>4. QED
    BY <1>1, <1>2, <1>3 DEF Present, RowsAt

LEMMA QuietKeeps ==
    ASSUME Typed, UNCHANGED <<trace, sent, inOrder, lastId, stoneEnergy>>, SampledAt \subseteq SampledAt'
    PROVE  Keeps /\ (CheckedInOrder => CheckedInOrder')
  <1>1. sent \in Nat /\ inOrder \in Nat /\ lastId \in Nat /\ Unchecked' = Unchecked /\ Grows
    BY DEF Typed, Unchecked, Grows
  <1>2. \A row \in stoneEnergy : row.id \in Nat
    BY DEF Typed, IsRow, Rows
  <1>3. Keeps
    BY <1>1, <1>2 DEF Keeps, Unchecked
  <1>4. CheckedInOrder => CheckedInOrder'
    BY <1>1 DEF CheckedInOrder
  <1>5. QED
    BY <1>3, <1>4

-----------------------------------------------------------------------------
(* The steps of a call.                                                    *)

Ended(u) ==
    /\ stage' = [stage EXCEPT ![u] = stage'[u]] /\ stage'[u] \in {"idle", "reading"}
    /\ energyData' = [energyData EXCEPT ![u] = <<>>]
    /\ work' = [work EXCEPT ![u] = NoWork]

LEMMA Endings ==
    ASSUME Typed, NEW u \in Uploads
    PROVE  (EndIteration(u) => Ended(u)) /\ (EndCall(u) => Ended(u))
  BY DEF Typed, EndIteration, EndCall, Ended

LEMMA EndedTyped ==
    ASSUME Typed, NEW u \in Uploads, Ended(u)
    PROVE  /\ stage' \in [Uploads -> Stages]
           /\ energyData' \in [Uploads -> Seq(Rows)]
           /\ work' \in [Uploads -> [samples : Seq(Samples), used : SUBSET Nat, last : Rows]]
           /\ energyData'[u] = <<>>
           /\ \A v \in Uploads \ {u} :
                 stage'[v] = stage[v] /\ energyData'[v] = energyData[v] /\ work'[v] = work[v]
  <1>1. stage'[u] \in Stages
    BY DEF Ended, Stages
  <1>2. <<>> \in Seq(Rows) /\ <<>> \in Seq(Samples)
    OBVIOUS
  <1>3. NoWork \in [samples : Seq(Samples), used : SUBSET Nat, last : Rows]
    BY <1>2 DEF NoWork, Row, Rows
  <1>4. QED
    BY <1>1, <1>2, <1>3 DEF Typed, Ended

\* A call that ends and changes nothing else.
LEMMA EndKeepsInv ==
    ASSUME Inv, NEW u \in Uploads, Ended(u),
           UNCHANGED <<trace, sent, inOrder, lastId, stoneEnergy, stoneEnergyProcessed>>
    PROVE  Inv'
  <1>1. Typed
    BY DEF Inv
  <1>2. Typed'
    <2>1. Times' = Times
      BY DEF Times
    <2>2. \A row \in stoneEnergy' : IsRow(row)'
      BY <1>1, <2>1 DEF Typed, IsRow
    <2>3. QED
      BY <1>1, <2>2, EndedTyped DEF Typed
  <1>3. Keeps /\ CheckedInOrder'
    BY <1>1, QuietKeeps DEF Inv, SampledAt
  <1>4. Present'
    BY <1>1, <1>2, <1>3, PresentStays DEF Inv
  <1>5. Page(u)' /\ Finding(u)' /\ Working(u)'
    BY <1>1, EndedTyped, NothingRead DEF Ended
  <1>6. \A v \in Uploads : Page(v)' /\ Finding(v)' /\ Working(v)'
    BY <1>1, <1>2, <1>3, <1>5, EndedTyped, OthersKeep
  <1>7. QED
    BY <1>2, <1>3, <1>4, <1>6 DEF Inv

LEMMA InterruptKeeps ==
    ASSUME Inv, NEW u \in Uploads, Interrupt(u)
    PROVE  Inv'
  BY Endings, EndKeepsInv DEF Interrupt, Inv

LEMMA CollectKeeps ==
    ASSUME Inv, NEW u \in Uploads, NEW from \in 1..(Len(trace) + 1), NEW to \in 0..Len(trace),
           collectEnergyUsage(u, from, to)
    PROVE  Inv'
  <1> DEFINE new(i) == Row(lastId + 1 + i - from, trace[i].t, trace[i].e)
             News == {new(i) : i \in from..to}
  <1>1. Typed
    BY DEF Inv
  <1>2. /\ sent \in Nat /\ from \in Nat /\ to \in Nat /\ 1 <= from /\ from <= to + 1
        /\ sent <= Len(trace) /\ to <= Len(trace) /\ Len(trace) \in Nat /\ lastId \in Nat
        /\ inOrder \in Nat /\ inOrder <= sent
        /\ trace' = trace /\ lastId' = lastId + 1 + to - from /\ lastId <= lastId'
        /\ stoneEnergyProcessed' = stoneEnergyProcessed
        /\ stage[u] = "idle" /\ stage' = [stage EXCEPT ![u] = "reading"]
        /\ energyData' = energyData /\ work' = work
    BY <1>1 DEF Typed, collectEnergyUsage
  <1>3. sent' \in Nat /\ sent <= sent' /\ to <= sent' /\ sent' <= Len(trace)
    <2>1. \E x \in {sent, to} : \A y \in {sent, to} : x >= y
      BY <1>2
    <2>2. Max({sent, to}) \in {sent, to} /\ \A y \in {sent, to} : Max({sent, to}) >= y
      BY <2>1 DEF Max
    <2>3. sent' = Max({sent, to})
      BY DEF collectEnergyUsage
    <2>4. QED
      BY <1>2, <2>2, <2>3
  <1>4. inOrder' = IF to < inOrder THEN from - 1
                   ELSE IF inOrder = sent /\ from <= sent + 1 THEN to ELSE inOrder
    BY DEF collectEnergyUsage, StillInOrder
  <1>5. inOrder' \in Nat /\ inOrder' <= sent' /\ Grows
    BY <1>2, <1>3, <1>4 DEF Grows
  <1>6. ASSUME NEW j \in 1..inOrder' PROVE /\ j \in 1..Len(trace)
                                           /\ j \in from..to \/ j \in 1..inOrder
                                           /\ \A i \in from..to : i < j => j \in from..to
    BY <1>2, <1>3, <1>4, <1>5
  <1>7. stoneEnergy' = stoneEnergy \cup News
    BY DEF collectEnergyUsage
  <1>8. \A i \in 1..Len(trace) : trace[i].t \in Nat /\ trace[i].e \in Int
    BY <1>1, TraceTimes
  <1>9. \A row \in stoneEnergy : row \in Rows /\ row.id \in 1..lastId /\ row.t \in Times
    BY <1>1 DEF Typed, IsRow
  <1>10. ASSUME NEW i \in from..to
        PROVE  /\ new(i) \in News /\ new(i) \in Rows /\ ~new(i).checked
               /\ new(i).id = lastId + 1 + i - from /\ new(i).id \in 1..lastId' /\ lastId < new(i).id
               /\ new(i).t = trace[i].t /\ new(i).t \in Times' /\ i \in 1..Len(trace)
    <2>1. i \in 1..Len(trace) /\ i \in 1..sent' /\ lastId + 1 + i - from \in Nat
      BY <1>2, <1>3
    <2>2. new(i) = [id |-> lastId + 1 + i - from, t |-> trace[i].t, e |-> trace[i].e, corrected |-> 0,
                    checked |-> FALSE, processed |-> FALSE]
      BY DEF Row
    <2>3. new(i) \in Rows
      <3>1. trace[i].t \in Nat /\ trace[i].e \in Int /\ 0 \in Int
        BY <1>8, <2>1
      <3> HIDE DEF new
      <3>2. QED
        BY <2>1, <2>2, <3>1 DEF Rows
    <2>4. trace[i].t \in Times'
      BY <1>2, <2>1 DEF Times
    <2>5. lastId + 1 + i - from \in 1..lastId' /\ lastId < lastId + 1 + i - from
      BY <1>2
    <2> HIDE DEF new
    <2>6. QED
      BY <2>1, <2>2, <2>3, <2>4, <2>5
  <1> HIDE DEF new
  <1>11. \A row \in stoneEnergy' : row \in stoneEnergy \/ \E i \in from..to : row = new(i)
    BY <1>7
  <1>12. \A i \in from..to : new(i) \in stoneEnergy' /\ new(i) \in Unchecked'
    BY <1>7, <1>10 DEF Unchecked
  <1> HIDE DEF News
  <1>13. Times \subseteq Times'
    BY <1>2, <1>3 DEF Times
  <1>14. Typed'
    <2>1. ASSUME NEW row \in stoneEnergy' PROVE IsRow(row)'
      <3>1. CASE row \in stoneEnergy
        BY <1>2, <1>9, <1>13, <3>1 DEF IsRow
      <3>2. CASE \E i \in from..to : row = new(i)
        BY <1>10, <3>2 DEF IsRow
      <3>3. QED
        BY <1>11, <3>1, <3>2
    <2>2. ASSUME NEW row \in stoneEnergy', NEW other \in stoneEnergy', row.id = other.id PROVE row = other
      <3>1. CASE row \in stoneEnergy /\ other \in stoneEnergy
        BY <1>1, <2>2, <3>1 DEF Typed
      <3>2. CASE row \notin stoneEnergy /\ other \notin stoneEnergy
        <4>1. PICK i \in from..to : row = new(i)
          BY <1>11, <3>2
        <4>2. PICK j \in from..to : other = new(j)
          BY <1>11, <3>2
        <4>3. lastId + 1 + i - from = lastId + 1 + j - from
          BY <1>10, <2>2, <4>1, <4>2
        <4>4. i = j
          BY <1>2, <4>3
        <4>5. QED
          BY <4>1, <4>2, <4>4
      <3>3. CASE row \in stoneEnergy /\ other \notin stoneEnergy
        BY <1>2, <1>9, <1>10, <1>11, <2>2, <3>3
      <3>4. CASE row \notin stoneEnergy /\ other \in stoneEnergy
        BY <1>2, <1>9, <1>10, <1>11, <2>2, <3>4
      <3>5. QED
        BY <3>1, <3>2, <3>3, <3>4
    <2>3. stage' \in [Uploads -> Stages]
      BY <1>1, <1>2 DEF Typed, Stages
    <2>4. sent' \in 0..Len(trace') /\ inOrder' \in 0..sent' /\ lastId' \in Nat
      BY <1>2, <1>3, <1>5
    <2>5. QED
      BY <1>1, <1>2, <2>1, <2>2, <2>3, <2>4 DEF Typed
  <1>15. SampledAt' = SampledAt
    BY <1>2 DEF SampledAt
  <1>16. Keeps
    <2>1. ASSUME NEW row \in stoneEnergy', row.id <= lastId PROVE row \in stoneEnergy
      <3>1. CASE \E i \in from..to : row = new(i)
        <4>1. PICK i \in from..to : row = new(i)
          BY <3>1
        <4>2. lastId < row.id /\ row.id \in Nat
          BY <1>2, <1>10, <4>1
        <4>3. QED
          BY <1>2, <2>1, <4>2
      <3>2. QED
        BY <1>11, <3>1
    <2>2. \A row \in stoneEnergy : row \in stoneEnergy' /\ row.id <= row.id
      BY <1>7, <1>9 DEF Rows
    <2>3. \A row \in Unchecked : row \in Unchecked' /\ row.id <= row.id
      BY <2>2 DEF Unchecked
    <2>4. QED
      BY <1>2, <1>3, <1>5, <1>15, <2>1, <2>2, <2>3 DEF Keeps
  <1>17. Present'
    <2>1. ASSUME NEW m \in 1..inOrder', Needed(m)' PROVE \E row \in stoneEnergy' : row.t = trace[m].t
      <3>1. CASE m \in from..to
        BY <1>10, <1>12, <3>1
      <3>2. CASE m \notin from..to
        <4>1. m \in 1..inOrder
          BY <1>6, <3>2
        <4>2. Needed(m)
          BY <1>1, <1>2, <1>3, <1>5, <1>14, <1>15, <2>1, <4>1, NothingReopens
        <4>3. PICK row \in stoneEnergy : row.t = trace[m].t
          BY <4>1, <4>2 DEF Inv, Present, RowsAt
        <4>4. QED
          BY <1>7, <4>3
      <3>3. QED
        BY <3>1, <3>2
    <2>2. ASSUME NEW i \in 2..inOrder', Open(i)' PROVE \E row \in Unchecked' : row.t = trace[i].t
      <3>1. CASE i \in from..to
        BY <1>10, <1>12, <3>1
      <3>2. CASE i \notin from..to
        <4>1. i \in 2..inOrder
          BY <1>5, <1>6, <3>2
        <4>2. Open(i)
          BY <1>2, <1>15, <2>2 DEF Open, Places
        <4>3. PICK row \in Unchecked : row.t = trace[i].t
          BY <4>1, <4>2 DEF Inv, Present
        <4>4. row \in Unchecked'
          BY <1>7 DEF Unchecked
        <4>5. QED
          BY <4>3, <4>4
      <3>3. QED
        BY <3>1, <3>2
    <2>3. QED
      BY <1>2, <2>1, <2>2 DEF Present, RowsAt
  <1>18. CheckedInOrder'
    <2>1. SUFFICES ASSUME NEW row \in Unchecked', NEW j \in 1..inOrder', row.t < trace[j].t
                   PROVE  \E next \in Unchecked' : next.t = trace[j].t /\ row.id < next.id
      BY <1>2 DEF CheckedInOrder
    <2>2. row \in stoneEnergy' /\ ~row.checked
      BY DEF Unchecked
    <2>3. j \in 1..Len(trace)
      BY <1>2, <1>3, <1>5
    <2>4. CASE row \in stoneEnergy
      <3>1. CASE j \in from..to
        <4>1. row.id < new(j).id
          BY <1>2, <1>9, <1>10, <2>4, <3>1
        <4>2. QED
          BY <1>10, <1>12, <3>1, <4>1
      <3>2. CASE j \notin from..to
        <4>1. j \in 1..inOrder
          BY <1>6, <3>2
        <4>2. row \in Unchecked
          BY <2>2, <2>4 DEF Unchecked
        <4>3. PICK next \in Unchecked : next.t = trace[j].t /\ row.id < next.id
          BY <2>1, <4>1, <4>2 DEF Inv, CheckedInOrder
        <4>4. next \in Unchecked'
          BY <1>7 DEF Unchecked
        <4>5. QED
          BY <4>3, <4>4
      <3>3. QED
        BY <3>1, <3>2
    <2>5. CASE row \notin stoneEnergy
      <3>1. PICK i \in from..to : row = new(i)
        BY <1>11, <2>2, <2>5
      <3>2. i \in 1..Len(trace) /\ row.t = trace[i].t /\ row.id = lastId + 1 + i - from
        BY <1>10, <3>1
      <3>3. i < j
        BY <1>1, <2>1, <2>3, <3>2, TraceTimes
      <3>4. j \in from..to
        BY <1>6, <3>3
      <3>5. row.id < new(j).id
        BY <1>2, <1>10, <3>2, <3>3, <3>4
      <3>6. QED
        BY <1>10, <1>12, <3>4, <3>5
    <2>6. QED
      BY <2>4, <2>5
  <1>19. /\ stage'[u] = "reading" /\ energyData'[u] = <<>>
         /\ \A v \in Uploads \ {u} :
               stage'[v] = stage[v] /\ energyData'[v] = energyData[v] /\ work'[v] = work[v]
    BY <1>1, <1>2 DEF Typed, Inv, Page
  <1>20. Page(u)' /\ Finding(u)' /\ Working(u)'
    BY <1>19, NothingRead
  <1>21. \A v \in Uploads : Page(v)' /\ Finding(v)' /\ Working(v)'
    BY <1>14, <1>16, <1>19, <1>20, OthersKeep
  <1>22. QED
    BY <1>14, <1>17, <1>18, <1>21 DEF Inv

LEMMA ReadKeeps ==
    ASSUME Inv, NEW u \in Uploads, ReadUnchecked(u)
    PROVE  Inv'
  <1> DEFINE rows == FirstUnchecked
  <1>1. Typed
    BY DEF Inv
  <1>2. CASE Unchecked = {}
    BY <1>1, <1>2, Endings, EndKeepsInv DEF ReadUnchecked
  <1>3. CASE Unchecked # {}
    <2>1. /\ UNCHANGED <<trace, sent, inOrder, lastId, stoneEnergy, stoneEnergyProcessed, work>>
          /\ energyData' = [energyData EXCEPT ![u] = rows] /\ stage' = [stage EXCEPT ![u] = "finding"]
      BY <1>3 DEF ReadUnchecked
    <2>2. /\ rows \in Seq(Rows) /\ Len(rows) >= 1 /\ DOMAIN rows = 1..Len(rows) /\ Len(rows) \in Nat
          /\ \A k \in 1..Len(rows) : rows[k] \in Unchecked
          /\ \A j, k \in 1..Len(rows) : j < k => Before(rows[j], rows[k])
          /\ \A row \in Unchecked, k \in 1..Len(rows) : Before(row, rows[k]) =>
                \E j \in 1..Len(rows) : rows[j] = row
      <3>1. rows \in Seq(Rows)
        BY <1>1, <1>3, PageIsRead
      <3>2. DOMAIN rows = 1..Len(rows) /\ Len(rows) \in Nat
        <4> HIDE DEF rows
        <4>1. QED
          BY <3>1
      <3>3. QED
        BY <1>1, <1>3, <3>1, <3>2, PageIsRead
    <2> HIDE DEF rows
    <2>3. /\ energyData'[u] = rows /\ stage'[u] = "finding" /\ stage' \in [Uploads -> Stages]
          /\ energyData' \in [Uploads -> Seq(Rows)]
          /\ \A v \in Uploads \ {u} :
                stage'[v] = stage[v] /\ energyData'[v] = energyData[v] /\ work'[v] = work[v]
      BY <1>1, <2>1, <2>2 DEF Typed, Stages
    <2>4. Typed'
      <3>1. \A row \in stoneEnergy' : IsRow(row)'
        BY <1>1, <2>1 DEF Typed, IsRow, Times
      <3>2. QED
        BY <1>1, <2>1, <2>3, <3>1 DEF Typed
    <2>5. Keeps /\ CheckedInOrder'
      BY <1>1, <2>1, QuietKeeps DEF Inv, SampledAt
    <2>6. Present'
      BY <1>1, <2>1, <2>4, <2>5, PresentStays DEF Inv
    <2>7. /\ Unchecked' = Unchecked /\ Unchecked \subseteq stoneEnergy
          /\ \A row \in stoneEnergy : row \in Rows /\ row.id \in 1..lastId /\ row.t \in Times
                /\ row.t \in Nat /\ row.id \in Nat
      BY <1>1, <2>1 DEF Unchecked, Typed, IsRow, Rows
    <2>8. \A a, b \in Unchecked : a # b => a.id # b.id
      BY <1>1, <2>7 DEF Typed
    <2>9. Page(u)'
      <3>1. \A k \in DOMAIN rows : IsRow(rows[k])
        BY <2>2, <2>7 DEF IsRow
      <3>2. ASSUME NEW j \in DOMAIN rows, NEW k \in DOMAIN rows, j < k
            PROVE  Before(rows[j], rows[k]) /\ rows[j].id # rows[k].id
        BY <1>1, <2>2, <2>8, <3>2, UncheckedOrdered, BeforeIsOrder
      <3>3. ASSUME NEW k \in 2..Len(rows), NEW j \in 1..inOrder, rows[k-1].t < trace[j].t, trace[j].t < rows[k].t
            PROVE  FALSE
        <4>1. k \in 1..Len(rows) /\ k - 1 \in 1..Len(rows) /\ k \in Nat
          BY <2>2
        <4>2. rows[k-1] \in Unchecked /\ rows[k] \in Unchecked
          BY <2>2, <4>1
        <4>3. PICK next \in Unchecked : next.t = trace[j].t
          BY <3>3, <4>2 DEF Inv, CheckedInOrder
        <4>4. Before(next, rows[k]) /\ Before(rows[k-1], next)
          BY <3>3, <4>3 DEF Before
        <4>5. PICK l \in 1..Len(rows) : rows[l] = next
          BY <2>2, <4>1, <4>4
        <4>6. ~(k < l) /\ l # k /\ ~(l < k - 1) /\ l # k - 1
          BY <1>1, <2>2, <4>1, <4>2, <4>4, <4>5, UncheckedOrdered, BeforeIsOrder
        <4>7. QED
          BY <4>1, <4>6
      <3>4. \A row \in stoneEnergy, k \in DOMAIN rows : row.id = rows[k].id => row.t = rows[k].t
        BY <1>1, <2>2, <2>7 DEF Typed
      <3>5. ASSUME NEW row \in Unchecked, NEW k \in DOMAIN rows, row.t <= rows[k].t, row.id < rows[k].id
            PROVE  \E j \in DOMAIN rows : rows[j].id = row.id
        <4>1. rows[k] \in Unchecked
          BY <2>2
        <4>2. Before(row, rows[k])
          BY <2>7, <3>5, <4>1 DEF Before
        <4>3. QED
          BY <2>2, <4>2
      <3>6. rows # <<>>
        BY <2>2
      <3>7. \A k \in DOMAIN rows : IsRow(energyData[u][k])'
        BY <2>1, <2>3, <3>1 DEF IsRow, Times
      <3>8. QED
        BY <2>1, <2>3, <2>7, <3>2, <3>3, <3>4, <3>5, <3>6, <3>7 DEF Page
    <2>10. Finding(u)'
      <3>1. 1 \in 1..Len(rows) /\ rows[1] \in Unchecked
        BY <2>2
      <3>2. ASSUME NEW i \in 2..inOrder, trace[i].t < rows[1].t, Open(i) PROVE FALSE
        <4>1. PICK row \in Unchecked : row.t = trace[i].t
          BY <3>2 DEF Inv, Present
        <4>2. Before(row, rows[1])
          BY <3>2, <4>1 DEF Before
        <4>3. PICK j \in 1..Len(rows) : rows[j] = row
          BY <2>2, <3>1, <4>2
        <4>4. j = 1 \/ Before(rows[1], row)
          BY <2>2, <3>1, <4>3
        <4>5. QED
          BY <1>1, <3>1, <4>2, <4>3, <4>4, UncheckedOrdered, BeforeIsOrder
      <3>3. \A m \in 1..inOrder, k \in DOMAIN rows : rows[k].t = trace[m].t =>
                \E row \in stoneEnergy : row.t = trace[m].t /\ rows[k].id <= row.id
        BY <2>2, <2>7
      <3>4. \A i \in 2..inOrder : Open(i)' <=> Open(i)
        BY <2>1 DEF Open, Places, SampledAt
      <3>5. QED
        BY <2>1, <2>3, <3>2, <3>3, <3>4 DEF Finding, RowsAt
    <2>11. Working(u)'
      BY <2>3 DEF Working
    <2>12. \A v \in Uploads : Page(v)' /\ Finding(v)' /\ Working(v)'
      BY <2>3, <2>4, <2>5, <2>9, <2>10, <2>11, OthersKeep
    <2>13. QED
      BY <2>4, <2>5, <2>6, <2>12 DEF Inv
  <1>4. QED
    BY <1>2, <1>3

LEMMA CreateKeeps ==
    ASSUME Inv, NEW u \in Uploads, CreateSamples(u)
    PROVE  Inv'
  <1> DEFINE made == work[u].samples
  <1>1. Typed /\ Page(u) /\ Finding(u) /\ Working(u)
    BY DEF Inv
  <1>2. /\ UNCHANGED <<trace, sent, inOrder, lastId, stoneEnergy, energyData, work>>
        /\ stage[u] = "creating" /\ stage' = [stage EXCEPT ![u] = "deleting"]
        /\ stoneEnergyProcessed' = stoneEnergyProcessed \o made
    BY DEF CreateSamples
  <1>3. stoneEnergyProcessed \in Seq(Samples) /\ made \in Seq(Samples)
    BY <1>1 DEF Typed
  <1>4. /\ stoneEnergyProcessed' \in Seq(Samples)
        /\ SampledAt' = SampledAt \cup TimesOf(made)
    <2>1. SampledAt' = TimesOf(stoneEnergyProcessed') /\ SampledAt = TimesOf(stoneEnergyProcessed)
      BY DEF SampledAt, TimesOf
    <2> HIDE DEF made
    <2>2. QED
      BY <1>2, <1>3, <2>1, TimesJoin
  <1>5. Typed'
    <2>1. \A row \in stoneEnergy' : IsRow(row)'
      BY <1>1, <1>2 DEF Typed, IsRow, Times
    <2>2. stage' \in [Uploads -> Stages]
      BY <1>1, <1>2 DEF Typed, Stages
    <2>3. QED
      BY <1>1, <1>2, <1>4, <2>1, <2>2 DEF Typed
  <1>6. Keeps /\ CheckedInOrder'
    BY <1>1, <1>2, <1>4, QuietKeeps DEF Inv
  <1>7. Present'
    BY <1>1, <1>2, <1>5, <1>6, PresentStays DEF Inv
  <1>8. /\ stage'[u] = "deleting"
        /\ \A v \in Uploads \ {u} : stage'[v] = stage[v]
    BY <1>1, <1>2 DEF Typed
  <1>9. \A i \in 2..inOrder : Makes(u, i) => ~Open(i)'
    BY <1>2, <1>4 DEF Makes, Open, Places
  <1>10. Page(u)'
    BY <1>1, <1>2, <1>5, <1>6, <1>8, PageStays
  <1>11. Finding(u)'
    BY <1>8 DEF Finding
  <1>12. Working(u)'
    BY <1>1, <1>2, <1>5, <1>6, <1>8, <1>9, WorkingStays
  <1>13. \A v \in Uploads : Page(v)' /\ Finding(v)' /\ Working(v)'
    BY <1>2, <1>5, <1>6, <1>8, <1>10, <1>11, <1>12, OthersKeep
  <1>14. QED
    BY <1>5, <1>6, <1>7, <1>13 DEF Inv

LEMMA NewestOf ==
    ASSUME Typed, NEW S, S # {}, S \subseteq stoneEnergy
    PROVE  \E newest \in S : \A row \in S : row.id <= newest.id
  <1> DEFINE gaps == {lastId - row.id : row \in S}
  <1>1. \A row \in S : row.id \in 1..lastId /\ row.id \in Nat
    BY DEF Typed, IsRow
  <1>2. lastId \in Nat
    BY DEF Typed
  <1>3. gaps \subseteq Nat /\ gaps # {}
    BY <1>1, <1>2
  <1>4. PICK least \in gaps : \A n \in gaps : least <= n
    <2> HIDE DEF gaps
    <2>1. QED
      BY <1>3, LeastOf
  <1>5. PICK newest \in S : least = lastId - newest.id
    BY <1>4
  <1>6. ASSUME NEW row \in S PROVE row.id <= newest.id
    <2>1. lastId - newest.id <= lastId - row.id
      BY <1>4, <1>5
    <2>2. QED
      BY <1>1, <1>2, <2>1
  <1>7. QED
    BY <1>6

LEMMA DeleteKeeps ==
    ASSUME Inv, NEW u \in Uploads, DeleteUsed(u)
    PROVE  Inv'
  <1> DEFINE rows == energyData[u]
             used == work[u].used
             last == work[u].last
  <1>1. Typed /\ Page(u) /\ Finding(u) /\ Working(u)
    BY DEF Inv
  <1>2. /\ UNCHANGED <<trace, sent, inOrder, lastId, stoneEnergyProcessed, energyData, work>>
        /\ stage[u] = "deleting" /\ stage' = [stage EXCEPT ![u] = "updating"]
        /\ stoneEnergy' = {row \in stoneEnergy : row.id \notin used}
    BY DEF DeleteUsed
  <1>3. \A row \in stoneEnergy : row \in Rows /\ row.id \in Nat /\ row.t \in Nat
    BY <1>1 DEF Typed, IsRow, Rows
  <1>4. /\ Unchecked' = {row \in Unchecked : row.id \notin used}
        /\ Unchecked \subseteq stoneEnergy /\ Unchecked' \subseteq stoneEnergy'
    BY <1>2 DEF Unchecked
  <1>5. \A i \in 1..(Len(trace) + 1) : ~Makes(u, i) /\ (Open(i)' <=> Open(i))
    BY <1>2 DEF Makes, Open, Places, SampledAt
  <1>6. /\ sent \in Nat /\ sent <= Len(trace) /\ Len(trace) \in Nat /\ lastId \in Nat
        /\ inOrder \in Nat /\ inOrder <= sent /\ Grows
    BY <1>1, <1>2 DEF Typed, Grows
  <1>7. Typed'
    <2>1. \A row \in stoneEnergy' : IsRow(row)'
      BY <1>1, <1>2 DEF Typed, IsRow, Times
    <2>2. stage' \in [Uploads -> Stages]
      BY <1>1, <1>2 DEF Typed, Stages
    <2>3. QED
      BY <1>1, <1>2, <2>1, <2>2 DEF Typed
  <1>8. ASSUME NEW m \in 1..inOrder, Needed(m)', NEW row \in stoneEnergy, row.t = trace[m].t
        PROVE  \E other \in stoneEnergy' : other.t = trace[m].t /\ row.id <= other.id
    <2> DEFINE S == RowsAt(trace[m].t)
    <2>1. S \subseteq stoneEnergy /\ row \in S
      BY <1>8 DEF RowsAt
    <2>2. PICK newest \in S : \A other \in S : other.id <= newest.id
      <3> HIDE DEF S
      <3>1. QED
        BY <1>1, <2>1, NewestOf
    <2>3. m = sent \/ (m < inOrder /\ Open(m + 1) /\ ~Makes(u, m + 1))
      BY <1>2, <1>5, <1>6, <1>8 DEF Needed
    <2>4. newest.id \notin used
      <3>1. SUFFICES ASSUME newest.id \in used PROVE FALSE
        OBVIOUS
      <3>2. PICK other \in S : newest.id < other.id
        BY <1>1, <1>2, <2>3, <3>1 DEF Working
      <3>3. other.id <= newest.id /\ other.id \in Nat /\ newest.id \in Nat
        BY <1>3, <2>1, <2>2
      <3>4. QED
        BY <3>2, <3>3
    <2>5. newest \in stoneEnergy' /\ newest.t = trace[m].t
      BY <1>2, <2>4 DEF RowsAt
    <2>6. QED
      BY <2>1, <2>2, <2>5
  <1>9. ASSUME NEW i \in 2..inOrder, Open(i)', NEW row \in Unchecked, row.t = trace[i].t
        PROVE  \E other \in Unchecked' : other.t = trace[i].t /\ row.id <= other.id
    <2> DEFINE S == {other \in Unchecked : other.t = trace[i].t}
    <2>1. S \subseteq stoneEnergy /\ row \in S
      BY <1>4, <1>9
    <2>2. PICK newest \in S : \A other \in S : other.id <= newest.id
      <3> HIDE DEF S
      <3>1. QED
        BY <1>1, <2>1, NewestOf
    <2>3. Open(i) /\ ~Makes(u, i)
      BY <1>5, <1>6, <1>9
    <2>4. newest.id \notin used
      <3>1. SUFFICES ASSUME newest.id \in used PROVE FALSE
        OBVIOUS
      <3>2. PICK other \in S : newest.id < other.id
        BY <1>1, <1>2, <2>3, <3>1 DEF Working
      <3>3. other.id <= newest.id /\ other.id \in Nat /\ newest.id \in Nat
        BY <1>3, <2>1, <2>2
      <3>4. QED
        BY <3>2, <3>3
    <2>5. newest \in Unchecked'
      BY <1>4, <2>4
    <2>6. QED
      BY <2>1, <2>2, <2>5
  <1>10. Keeps
    <2>1. \A row \in stoneEnergy' : row \in stoneEnergy
      BY <1>2
    <2>2. SampledAt' = SampledAt
      BY <1>2 DEF SampledAt
    <2>3. QED
      BY <1>2, <1>6, <1>8, <1>9, <2>1, <2>2 DEF Keeps
  <1>11. /\ rows \in Seq(Rows) /\ DOMAIN rows = 1..Len(rows) /\ Len(rows) \in Nat /\ Len(rows) >= 1
    <2>1. rows \in Seq(Rows) /\ rows # <<>>
      BY <1>1, <1>2 DEF Typed, Page
    <2> HIDE DEF rows
    <2>2. QED
      BY <2>1
  <1>12. CheckedInOrder'
    <2>1. SUFFICES ASSUME NEW row \in Unchecked', NEW j \in 1..inOrder, row.t < trace[j].t
                   PROVE  \E next \in Unchecked' : next.t = trace[j].t /\ row.id < next.id
      BY <1>2 DEF CheckedInOrder
    <2>2. row \in Unchecked /\ row.id \notin used
      BY <1>4
    <2>3. PICK next \in Unchecked : next.t = trace[j].t /\ row.id < next.id
      BY <2>1, <2>2 DEF Inv, CheckedInOrder
    <2>4. next.id \notin used
      <3>1. SUFFICES ASSUME next.id \in used PROVE FALSE
        OBVIOUS
      <3>2. PICK k \in 1..(Len(rows) - 1) : rows[k].id = next.id
        BY <1>1, <1>2, <3>1 DEF Working
      <3>3. k \in DOMAIN rows /\ k < Len(rows) /\ Len(rows) \in DOMAIN rows
        BY <1>11
      <3>4. rows[k].t = next.t
        BY <1>1, <1>4, <3>2, <3>3 DEF Page
      <3>5. row.t <= rows[k].t
        BY <1>3, <1>4, <2>1, <2>2, <2>3, <3>4
      <3>6. PICK l \in DOMAIN rows : rows[l].id = row.id
        BY <1>1, <2>2, <2>3, <3>2, <3>3, <3>5 DEF Page
      <3>7. l = Len(rows)
        <4>1. l \notin 1..(Len(rows) - 1)
          BY <1>1, <1>2, <2>2, <3>6 DEF Working
        <4>2. QED
          BY <1>11, <4>1
      <3>8. row.t = rows[l].t
        BY <1>1, <1>4, <2>2, <3>6 DEF Page
      <3>9. Before(rows[k], rows[l])
        BY <1>1, <3>3, <3>7 DEF Page
      <3>10. rows[k].t \in Nat /\ rows[l].t \in Nat
        BY <1>3, <1>4, <2>2, <3>4, <3>8
      <3>11. QED
        BY <2>1, <2>3, <3>4, <3>8, <3>9, <3>10 DEF Before
    <2>5. QED
      BY <1>4, <2>3, <2>4
  <1>13. Present'
    BY <1>1, <1>2, <1>7, <1>10, PresentStays DEF Inv
  <1>14. /\ stage'[u] = "updating"
         /\ \A v \in Uploads \ {u} : stage'[v] = stage[v]
    BY <1>1, <1>2 DEF Typed
  <1>15. Page(u)'
    BY <1>1, <1>2, <1>7, <1>10, <1>14, PageStays
  <1>16. Finding(u)'
    BY <1>14 DEF Finding
  <1>17. Working(u)'
    <2>1. \A row \in stoneEnergy' : row.id \notin work[u].used
      BY <1>2
    <2>2. \A i \in 2..inOrder : ~Makes(u, i)
      BY <1>5, <1>6
    <2>3. QED
      BY <1>1, <1>2, <1>7, <1>10, <1>14, <2>1, <2>2, WorkingStays
  <1>18. \A v \in Uploads : Page(v)' /\ Finding(v)' /\ Working(v)'
    BY <1>2, <1>7, <1>10, <1>14, <1>15, <1>16, <1>17, OthersKeep
  <1>19. QED
    BY <1>7, <1>12, <1>13, <1>18 DEF Inv

LEMMA UpdateKeeps ==
    ASSUME Inv, NEW u \in Uploads, UpdateLast(u)
    PROVE  Inv'
  <1> DEFINE rows == energyData[u]
             used == work[u].used
             last == work[u].last
             kept(row) == IF row.id = last.id THEN last ELSE row
  <1>1. Typed /\ Page(u) /\ Finding(u) /\ Working(u)
    BY DEF Inv
  <1>2. /\ UNCHANGED <<trace, sent, inOrder, lastId, stoneEnergyProcessed>>
        /\ stage[u] = "updating" /\ Ended(u)
        /\ stoneEnergy' = {kept(row) : row \in stoneEnergy}
    BY <1>1, Endings DEF UpdateLast, Kept
  <1>3. \A row \in stoneEnergy : row \in Rows /\ row.id \in Nat /\ row.t \in Nat /\ row.id \in 1..lastId
    BY <1>1 DEF Typed, IsRow, Rows
  <1>4. /\ rows \in Seq(Rows) /\ DOMAIN rows = 1..Len(rows) /\ Len(rows) \in Nat /\ Len(rows) >= 1
    <2>1. rows \in Seq(Rows) /\ rows # <<>>
      BY <1>1, <1>2 DEF Typed, Page
    <2> HIDE DEF rows
    <2>2. QED
      BY <2>1
  <1>5. /\ last \in Rows /\ last.id \in 1..lastId /\ last.t \in Times /\ last.checked
        /\ last.id = rows[Len(rows)].id /\ last.t = rows[Len(rows)].t
        /\ \A k \in 1..(Len(rows) - 1) : rows[k].id \in used
        /\ \A row \in stoneEnergy : row.id \notin used
    BY <1>1, <1>2 DEF Working, IsRow
  <1>6. \A row \in stoneEnergy : kept(row).id = row.id /\ kept(row).t = row.t /\ (row.checked => kept(row).checked)
    <2>1. \A row \in stoneEnergy : row.id = last.id => row.t = last.t
      BY <1>1, <1>4, <1>5 DEF Page
    <2>2. QED
      BY <1>5, <2>1
  <1>7. \A row \in stoneEnergy : kept(row) \in stoneEnergy'
    BY <1>2
  <1>8. \A row \in stoneEnergy' : \E old \in stoneEnergy : row = kept(old)
    BY <1>2
  <1>9. \A row \in stoneEnergy : row.id # last.id => kept(row) = row
    OBVIOUS
  <1>10. \A row \in stoneEnergy : row.id = last.id => kept(row).checked
    BY <1>5
  <1> HIDE DEF kept
  <1>11. /\ sent \in Nat /\ sent <= Len(trace) /\ Len(trace) \in Nat /\ lastId \in Nat
         /\ inOrder \in Nat /\ inOrder <= sent /\ Grows
    BY <1>1, <1>2 DEF Typed, Grows
  <1>12. \A row \in Unchecked' : row \in Unchecked /\ row.id # last.id
    <2> SUFFICES ASSUME NEW row \in Unchecked' PROVE row \in Unchecked /\ row.id # last.id
      OBVIOUS
    <2>1. row \in stoneEnergy' /\ ~row.checked
      BY DEF Unchecked
    <2>2. PICK old \in stoneEnergy : row = kept(old)
      BY <1>8, <2>1
    <2>3. old.id # last.id /\ row = old
      BY <1>9, <1>10, <2>1, <2>2
    <2>4. QED
      BY <2>1, <2>2, <2>3 DEF Unchecked
  <1>13. \A row \in Unchecked : row.id # last.id => row \in Unchecked'
    BY <1>7, <1>9 DEF Unchecked
  <1>14. Unchecked \subseteq stoneEnergy
    BY DEF Unchecked
  <1>15. Typed'
    <2>1. Times' = Times
      BY <1>2 DEF Times
    <2>2. ASSUME NEW row \in stoneEnergy' PROVE IsRow(row)'
      <3>1. PICK old \in stoneEnergy : row = kept(old)
        BY <1>8
      <3>2. row = last \/ row = old
        BY <3>1 DEF kept
      <3>3. QED
        BY <1>1, <1>2, <1>5, <2>1, <3>2 DEF Typed, IsRow
    <2>3. ASSUME NEW row \in stoneEnergy', NEW other \in stoneEnergy', row.id = other.id PROVE row = other
      <3>1. PICK a \in stoneEnergy : row = kept(a)
        BY <1>8
      <3>2. PICK b \in stoneEnergy : other = kept(b)
        BY <1>8
      <3>3. a.id = b.id
        BY <1>6, <2>3, <3>1, <3>2
      <3>4. a = b
        BY <1>1, <3>3 DEF Typed
      <3>5. QED
        BY <3>1, <3>2, <3>4
    <2>4. QED
      BY <1>1, <1>2, <2>2, <2>3, EndedTyped DEF Typed
  <1>16. SampledAt' = SampledAt
    BY <1>2 DEF SampledAt
  <1>17. ASSUME NEW i \in 2..inOrder, Open(i)', NEW row \in Unchecked, row.t = trace[i].t
         PROVE  \E other \in Unchecked' : other.t = trace[i].t /\ row.id <= other.id
    <2>1. CASE row.id # last.id
      BY <1>3, <1>13, <1>14, <1>17, <2>1
    <2>2. CASE row.id = last.id
      <3>1. Open(i) /\ ~Makes(u, i)
        BY <1>2, <1>16, <1>17 DEF Open, Places, Makes
      <3>2. PICK other \in Unchecked : other.t = trace[i].t /\ row.id < other.id
        BY <1>1, <1>2, <1>17, <2>2, <3>1 DEF Working
      <3>3. row.id \in Nat /\ other.id \in Nat /\ other.id # last.id
        BY <1>3, <1>14, <2>2, <3>2
      <3>4. QED
        BY <1>13, <3>2, <3>3
    <2>3. QED
      BY <2>1, <2>2
  <1>18. Keeps
    <2>1. ASSUME NEW row \in stoneEnergy'
          PROVE  \E old \in stoneEnergy : old.id = row.id /\ old.t = row.t /\ (~row.checked => ~old.checked)
      <3>1. PICK old \in stoneEnergy : row = kept(old)
        BY <1>8
      <3>2. QED
        BY <1>6, <3>1
    <2>2. ASSUME NEW row \in stoneEnergy
          PROVE  \E other \in stoneEnergy' : other.t = row.t /\ row.id <= other.id
      BY <1>3, <1>6, <1>7
    <2>3. QED
      BY <1>2, <1>11, <1>16, <1>17, <2>1, <2>2 DEF Keeps
  <1>19. CheckedInOrder'
    <2>1. SUFFICES ASSUME NEW row \in Unchecked', NEW j \in 1..inOrder, row.t < trace[j].t
                   PROVE  \E next \in Unchecked' : next.t = trace[j].t /\ row.id < next.id
      BY <1>2 DEF CheckedInOrder
    <2>2. row \in Unchecked /\ row.id # last.id /\ row \in stoneEnergy
      BY <1>12, <1>14
    <2>3. PICK next \in Unchecked : next.t = trace[j].t /\ row.id < next.id
      BY <2>1, <2>2 DEF Inv, CheckedInOrder
    <2>4. next.id # last.id
      <3>1. SUFFICES ASSUME next.id = last.id PROVE FALSE
        OBVIOUS
      <3> DEFINE k == Len(rows)
      <3>2. k \in DOMAIN rows /\ rows[k].id = next.id
        BY <1>4, <1>5, <3>1
      <3>3. rows[k].t = next.t
        BY <1>1, <1>14, <3>2 DEF Page
      <3>4. row.t <= rows[k].t
        BY <1>3, <1>14, <2>1, <2>2, <2>3, <3>3
      <3>5. PICK l \in DOMAIN rows : rows[l].id = row.id
        BY <1>1, <2>2, <2>3, <3>2, <3>4 DEF Page
      <3>6. l \in 1..(Len(rows) - 1)
        BY <1>4, <1>5, <2>2, <3>5
      <3>7. QED
        BY <1>5, <2>2, <3>5, <3>6
    <2>5. QED
      BY <1>13, <2>3, <2>4
  <1>20. Present'
    BY <1>1, <1>2, <1>15, <1>18, PresentStays DEF Inv
  <1>21. Page(u)' /\ Finding(u)' /\ Working(u)'
    BY <1>1, <1>2, EndedTyped, NothingRead DEF Ended
  <1>22. \A v \in Uploads : Page(v)' /\ Finding(v)' /\ Working(v)'
    BY <1>1, <1>2, <1>15, <1>18, <1>21, EndedTyped, OthersKeep
  <1>23. QED
    BY <1>15, <1>19, <1>20, <1>22 DEF Inv

-----------------------------------------------------------------------------
(* What a call has found and computed.                                     *)

\* All pairs of neighbours on a page have been looked at together.
PageProcessed(rows, result) ==
    /\ result.row \in Rows /\ result.samples \in Seq(Samples)
    /\ result.row.id = rows[Len(rows)].id /\ result.row.t = rows[Len(rows)].t /\ result.row.checked
    /\ \A k \in 2..Len(rows) : Covers(result.samples, rows[k-1], rows[k])

LEMMA FromLastChecked ==
    ASSUME NEW rows \in Seq(Rows), rows # <<>>, NEW last \in Rows
    PROVE  PageProcessed(rows, ProcessRows(last, rows)) /\ Covers(ProcessRows(last, rows).samples, last, rows[1])
  <1>1. Len(rows) \in 0..Len(rows) /\ Len(rows) > 0
    OBVIOUS
  <1>2. Processed(UpTo(last, rows), Len(rows), last, rows)
    BY <1>1, RowsInTurn
  <1>3. QED
    BY <1>1, <1>2 DEF Processed, ProcessRows, PageProcessed

LEMMA FromFirstPoint ==
    ASSUME NEW rows \in Seq(Rows), Len(rows) >= 2
    PROVE  PageProcessed(rows, ProcessRows(Head(rows), Tail(rows)))
  <1> DEFINE rest == Tail(rows)
             result == ProcessRows(Head(rows), rest)
  <1>1. /\ Head(rows) \in Rows /\ Head(rows) = rows[1] /\ Len(rows) \in Nat
        /\ rest \in Seq(Rows) /\ Len(rest) = Len(rows) - 1
        /\ \A k \in 1..Len(rest) : rest[k] = rows[k+1]
    OBVIOUS
  <1> HIDE DEF rest
  <1>2. rest # <<>>
    BY <1>1
  <1>3. PageProcessed(rest, result) /\ Covers(result.samples, rows[1], rest[1])
    BY <1>1, <1>2, FromLastChecked
  <1> HIDE DEF result
  <1>4. rest[1] = rows[2] /\ rest[Len(rest)] = rows[Len(rows)]
    BY <1>1
  <1>5. ASSUME NEW k \in 2..Len(rows) PROVE Covers(result.samples, rows[k-1], rows[k])
    <2>1. CASE k = 2
      BY <1>3, <1>4, <2>1
    <2>2. CASE k # 2
      <3>1. k - 1 \in 2..Len(rest) /\ k - 1 \in 1..Len(rest) /\ k - 2 \in 1..Len(rest)
        BY <1>1, <2>2
      <3>2. Covers(result.samples, rest[(k-1)-1], rest[k-1])
        BY <1>3, <3>1 DEF PageProcessed
      <3>3. rest[(k-1)-1] = rows[k-1] /\ rest[k-1] = rows[k]
        BY <1>1, <3>1
      <3>4. QED
        BY <3>2, <3>3
    <2>3. QED
      BY <2>1, <2>2
  <1>6. QED
    BY <1>3, <1>4, <1>5 DEF PageProcessed, rest, result

LEMMA CoverMakes ==
    ASSUME NEW i \in 2..inOrder, Open(i), NEW samples, NEW prev, NEW next,
           Covers(samples, prev, next), prev.t = trace[i-1].t, next.t = trace[i].t
    PROVE  Places(i) \subseteq TimesOf(samples)
  <1>1. Covers(samples, trace[i-1], trace[i])
    BY CoversSameTimes
  <1>2. QED
    BY <1>1 DEF Covers, Open, Places

\* If there are checked rows before the page, findOne has one to return.
LEMMA SomeLastChecked ==
    ASSUME Typed, NEW u \in Uploads, energyData[u][1].t \in Nat,
           NEW row \in stoneEnergy, row.checked, row.t < energyData[u][1].t
    PROVE  LastChecked(u) # {}
  <1> DEFINE T == energyData[u][1].t
             before == {other \in stoneEnergy : other.checked /\ other.t < T}
             gaps == {T - other.t : other \in before}
  <1>1. \A other \in before : other.t \in Nat
    BY DEF Typed, IsRow, Rows
  <1>2. gaps \subseteq Nat /\ gaps # {}
    BY <1>1
  <1>3. PICK least \in gaps : \A n \in gaps : least <= n
    <2> HIDE DEF gaps
    <2>1. QED
      BY <1>2, LeastOf
  <1>4. PICK latest \in before : least = T - latest.t
    BY <1>3
  <1>5. ASSUME NEW other \in before PROVE other.t <= latest.t
    <2>1. T - latest.t <= T - other.t
      BY <1>3, <1>4
    <2> HIDE DEF before, T
    <2>2. T \in Nat
      BY DEF T
    <2>3. QED
      BY <1>1, <2>1, <2>2
  <1>6. QED
    BY <1>5 DEF LastChecked

\* On a page there is nothing between two neighbours.
LEMMA Neighbours ==
    ASSUME Typed, NEW u \in Uploads, Page(u), NEW k \in 2..Len(energyData[u]), NEW i \in 1..sent, NEW j \in 1..sent,
           energyData[u][k-1].t = trace[i].t, energyData[u][k].t = trace[j].t, i < j, i < inOrder
    PROVE  j = i + 1
  <1>1. SUFFICES ASSUME i + 1 < j PROVE FALSE
    OBVIOUS
  <1>2. i + 1 \in 1..inOrder /\ i + 1 \in 1..Len(trace) /\ i \in 1..Len(trace) /\ j \in 1..Len(trace)
    BY <1>1, TraceTimes
  <1>3. trace[i].t < trace[i+1].t /\ trace[i+1].t < trace[j].t
    BY <1>1, <1>2, TraceTimes
  <1>4. QED
    BY <1>2, <1>3 DEF Page

\* What a call has found before its page (nothing, or the last checked row) and computed
\* from it, and what it is going to delete.
Computed(u, found, result) ==
    /\ stage[u] = "finding"
    /\ found \subseteq LastChecked(u) /\ (found = {} => LastChecked(u) = {})
    /\ \A last \in found : Covers(result.samples, last, energyData[u][1])
    /\ PageProcessed(energyData[u], result)

UsedBy(u, found, result) ==
    ({row.id : row \in found} \cup {energyData[u][k].id : k \in DOMAIN energyData[u]}) \ {result.row.id}

LEMMA PageFacts ==
    ASSUME Inv, NEW u \in Uploads, energyData[u] # <<>>
    PROVE  LET rows == energyData[u]
           IN  /\ rows \in Seq(Rows) /\ Len(rows) \in Nat /\ Len(rows) >= 1 /\ DOMAIN rows = 1..Len(rows)
               /\ 1 \in DOMAIN rows /\ Len(rows) \in DOMAIN rows
               /\ \A k \in DOMAIN rows : /\ rows[k].t \in Times /\ rows[k].t \in Nat
                                         /\ rows[k].id \in Nat /\ rows[k].id \in 1..lastId
               /\ \A k \in DOMAIN rows : \E m \in 1..sent : rows[k].t = trace[m].t
               /\ \A j, k \in DOMAIN rows : j < k =>
                     rows[j].id # rows[k].id /\ rows[j].t <= rows[k].t
                     /\ (rows[j].t = rows[k].t => rows[j].id < rows[k].id)
               /\ \A row \in stoneEnergy, k \in DOMAIN rows : row.id = rows[k].id => row.t = rows[k].t
  <1> DEFINE rows == energyData[u]
  <1>1. rows \in Seq(Rows) /\ rows # <<>>
    BY DEF Inv, Typed
  <1>2. Len(rows) \in Nat /\ Len(rows) >= 1 /\ DOMAIN rows = 1..Len(rows) /\ \A k \in DOMAIN rows : rows[k] \in Rows
    <2> HIDE DEF rows
    <2>1. QED
      BY <1>1
  <1>3. 1 \in DOMAIN rows /\ Len(rows) \in DOMAIN rows
    BY <1>2
  <1>4. /\ \A k \in DOMAIN rows : IsRow(rows[k])
        /\ \A j, k \in DOMAIN rows : j < k => Before(rows[j], rows[k]) /\ rows[j].id # rows[k].id
        /\ \A row \in stoneEnergy, k \in DOMAIN rows : row.id = rows[k].id => row.t = rows[k].t
    BY DEF Inv, Page
  <1> HIDE DEF rows
  <1>5. \A k \in DOMAIN rows : /\ rows[k].t \in Times /\ rows[k].t \in Nat
                              /\ rows[k].id \in Nat /\ rows[k].id \in 1..lastId
    BY <1>2, <1>4 DEF IsRow, Rows
  <1>6. \A k \in DOMAIN rows : \E m \in 1..sent : rows[k].t = trace[m].t
    BY <1>5 DEF Times
  <1>7. \A j, k \in DOMAIN rows : j < k =>
              rows[j].id # rows[k].id /\ rows[j].t <= rows[k].t /\ (rows[j].t = rows[k].t => rows[j].id < rows[k].id)
    BY <1>4, <1>5 DEF Before
  <1>8. QED
    BY <1>1, <1>2, <1>3, <1>4, <1>5, <1>6, <1>7 DEF rows

LEMMA UsedRows ==
    ASSUME Inv, NEW u \in Uploads, energyData[u] # <<>>, NEW found, NEW result, Computed(u, found, result)
    PROVE  /\ UsedBy(u, found, result) \subseteq 1..lastId
           /\ \A k \in 1..(Len(energyData[u]) - 1) : energyData[u][k].id \in UsedBy(u, found, result)
           /\ \A row \in stoneEnergy : row.id \in UsedBy(u, found, result) =>
                 row \in found \/ \E k \in 1..(Len(energyData[u]) - 1) : energyData[u][k].id = row.id
           /\ \A row \in found : row \in stoneEnergy /\ row.checked /\ row.t < energyData[u][1].t
  <1> DEFINE rows == energyData[u]
  <1>1. /\ Len(rows) \in Nat /\ DOMAIN rows = 1..Len(rows)
        /\ \A k \in DOMAIN rows : rows[k].id \in 1..lastId
        /\ \A j, k \in DOMAIN rows : j < k => rows[j].id # rows[k].id
    BY PageFacts
  <1>2. \A row \in found : row \in stoneEnergy /\ row.checked /\ row.t < rows[1].t
    BY DEF Computed, LastChecked
  <1>3. result.row.id = rows[Len(rows)].id
    BY DEF Computed, PageProcessed
  <1>4. \A row, other \in stoneEnergy : row.id = other.id => row = other
    BY DEF Inv, Typed
  <1>5. \A row \in stoneEnergy : row.id \in 1..lastId
    BY DEF Inv, Typed, IsRow
  <1>6. UsedBy(u, found, result) = ({row.id : row \in found} \cup {rows[k].id : k \in DOMAIN rows}) \ {result.row.id}
    BY DEF UsedBy
  <1> HIDE DEF rows
  <1>7. UsedBy(u, found, result) \subseteq 1..lastId
    BY <1>1, <1>2, <1>5, <1>6
  <1>8. ASSUME NEW k \in 1..(Len(rows) - 1) PROVE rows[k].id \in UsedBy(u, found, result)
    <2>1. k \in DOMAIN rows /\ Len(rows) \in DOMAIN rows /\ k < Len(rows)
      BY <1>1
    <2>2. QED
      BY <1>1, <1>3, <1>6, <2>1
  <1>9. ASSUME NEW row \in stoneEnergy, row.id \in UsedBy(u, found, result), row \notin found
        PROVE  \E k \in 1..(Len(rows) - 1) : rows[k].id = row.id
    <2>1. row.id \notin {other.id : other \in found}
      BY <1>2, <1>4, <1>9
    <2>2. PICK k \in DOMAIN rows : rows[k].id = row.id
      BY <1>6, <1>9, <2>1
    <2>3. k # Len(rows)
      BY <1>3, <1>6, <1>9, <2>2
    <2>4. QED
      BY <1>1, <2>2, <2>3
  <1>10. QED
    BY <1>2, <1>7, <1>8, <1>9 DEF rows

\* Of what is still needed after the samples are stored, not the last row is deleted.
LEMMA NeededIsLeft ==
    ASSUME Inv, NEW u \in Uploads, energyData[u] # <<>>, NEW found, NEW result, Computed(u, found, result),
           NEW m \in 1..inOrder,
           m = sent \/ (m < inOrder /\ Open(m + 1) /\ ~(Places(m + 1) \subseteq TimesOf(result.samples))),
           NEW row \in stoneEnergy, row.t = trace[m].t, row.id \in UsedBy(u, found, result)
    PROVE  \E other \in stoneEnergy : other.t = trace[m].t /\ row.id < other.id
  <1> DEFINE rows == energyData[u]
             n == Len(rows)
  <1>1. /\ n \in Nat /\ n >= 1 /\ DOMAIN rows = 1..n
        /\ \A k \in DOMAIN rows : rows[k].id \in Nat /\ rows[k].t \in Nat
        /\ \A k \in DOMAIN rows : \E q \in 1..sent : rows[k].t = trace[q].t
        /\ \A j, k \in DOMAIN rows : j < k =>
              rows[j].t <= rows[k].t /\ (rows[j].t = rows[k].t => rows[j].id < rows[k].id)
    BY PageFacts
  <1>2. /\ sent \in Nat /\ sent <= Len(trace) /\ Len(trace) \in Nat /\ m \in 1..Len(trace) /\ Typed
        /\ inOrder \in Nat /\ inOrder <= sent
    BY DEF Inv, Typed
  <1>3. CASE row \in found
    <2>1. PICK r \in 1..sent : rows[1].t = trace[r].t
      BY <1>1
    <2>2. row.t < rows[1].t
      BY <1>3, UsedRows
    <2>3. r \in 1..Len(trace) /\ m < r
      BY <1>2, <2>1, <2>2, TraceTimes
    <2>4. Open(m + 1) /\ ~(Places(m + 1) \subseteq TimesOf(result.samples)) /\ m + 1 \in 2..inOrder /\ m + 1 \in 1..Len(trace)
      BY <1>2, <2>3
    <2>5. ~(trace[m+1].t < rows[1].t)
      BY <2>4 DEF Inv, Finding, Computed
    <2>6. r = m + 1
      <3>1. ~(m + 1 < r)
        BY <1>2, <2>1, <2>3, <2>4, <2>5, TraceTimes
      <3>2. QED
        BY <2>3, <3>1
    <2>7. Covers(result.samples, row, rows[1])
      BY <1>3 DEF Computed
    <2>8. (m + 1) - 1 = m
      OBVIOUS
    <2>9. Places(m + 1) \subseteq TimesOf(result.samples)
      BY <2>1, <2>4, <2>6, <2>7, <2>8, CoverMakes
    <2>10. QED
      BY <2>4, <2>9
  <1>4. CASE row \notin found
    <2>1. PICK k \in 1..(n - 1) : rows[k].id = row.id
      BY <1>4, UsedRows
    <2>2. k \in DOMAIN rows /\ k + 1 \in DOMAIN rows /\ k + 1 \in 2..n /\ k < k + 1 /\ (k + 1) - 1 = k
      BY <1>1
    <2>3. rows[k].t = trace[m].t
      BY <2>1, <2>2, PageFacts
    <2>4. CASE rows[k+1].t = rows[k].t
      <3>1. Needed(m)
        BY DEF Needed
      <3>2. PICK other \in stoneEnergy : other.t = trace[m].t /\ rows[k+1].id <= other.id
        <4>1. \A q \in 1..inOrder, l \in DOMAIN rows :
                 (Needed(q) /\ rows[l].t = trace[q].t) =>
                     \E other \in RowsAt(trace[q].t) : rows[l].id <= other.id
          BY DEF Inv, Finding, Computed
        <4> HIDE DEF rows
        <4>2. rows[k+1].t = trace[m].t /\ k + 1 \in DOMAIN rows
          BY <2>2, <2>3, <2>4
        <4>3. \E other \in RowsAt(trace[m].t) : rows[k+1].id <= other.id
          BY <3>1, <4>1, <4>2
        <4>4. QED
          BY <4>3 DEF RowsAt
      <3>3. rows[k].id < rows[k+1].id /\ rows[k].id \in Nat /\ rows[k+1].id \in Nat
        BY <1>1, <2>2, <2>4
      <3>4. other.id \in Nat
        BY <1>2 DEF Typed, IsRow, Rows
      <3>5. QED
        BY <2>1, <3>2, <3>3, <3>4
    <2>5. CASE rows[k+1].t # rows[k].t
      <3>1. PICK r \in 1..sent : rows[k+1].t = trace[r].t
        BY <1>1, <2>2
      <3>2. rows[k].t < rows[k+1].t
        BY <1>1, <2>2, <2>5
      <3>3. m < r
        BY <1>2, <2>3, <3>1, <3>2, TraceTimes
      <3>4. r = m + 1 /\ m < inOrder
        <4> DEFINE l == k + 1
        <4>1. l \in 2..Len(energyData[u]) /\ l - 1 = k
          BY <2>2
        <4>2. energyData[u][l-1].t = trace[m].t /\ energyData[u][l].t = trace[r].t
          BY <2>3, <3>1, <4>1
        <4> HIDE DEF l, rows
        <4>3. m # sent
          BY <1>2, <3>3
        <4>4. m < inOrder /\ m \in 1..sent
          BY <1>2, <4>3
        <4>5. QED
          BY <1>2, <3>3, <4>1, <4>2, <4>4, Neighbours DEF Inv
      <3>5. Open(m + 1) /\ ~(Places(m + 1) \subseteq TimesOf(result.samples)) /\ m + 1 \in 2..inOrder /\ (m + 1) - 1 = m
        BY <1>2, <3>3, <3>4
      <3>6. Covers(result.samples, rows[k], rows[k+1])
        BY <2>2 DEF Computed, PageProcessed
      <3>7. Places(m + 1) \subseteq TimesOf(result.samples)
        BY <2>3, <3>1, <3>4, <3>5, <3>6, CoverMakes
      <3>8. QED
        BY <3>5, <3>7
    <2>6. QED
      BY <2>4, <2>5
  <1>5. QED
    BY <1>3, <1>4

\* Nor is the last unchecked row deleted or checked.
LEMMA UncheckedIsLeft ==
    ASSUME Inv, NEW u \in Uploads, energyData[u] # <<>>, NEW found, NEW result, Computed(u, found, result),
           NEW i \in 2..inOrder, Open(i), ~(Places(i) \subseteq TimesOf(result.samples)),
           NEW row \in Unchecked, row.t = trace[i].t, row.id \in UsedBy(u, found, result) \cup {result.row.id}
    PROVE  \E other \in Unchecked : other.t = trace[i].t /\ row.id < other.id
  <1> DEFINE rows == energyData[u]
             n == Len(rows)
  <1>1. /\ n \in Nat /\ n >= 1 /\ DOMAIN rows = 1..n
        /\ \A k \in DOMAIN rows : rows[k].id \in Nat /\ rows[k].t \in Nat
        /\ \A k \in DOMAIN rows : \E q \in 1..sent : rows[k].t = trace[q].t
        /\ \A j, k \in DOMAIN rows : j < k => rows[j].t <= rows[k].t
    BY PageFacts
  <1>2. sent \in Nat /\ sent <= Len(trace) /\ Len(trace) \in Nat /\ i \in 1..Len(trace) /\ Typed
        /\ inOrder \in Nat /\ inOrder <= sent
        /\ i - 1 \in 1..inOrder /\ i - 1 \in 1..Len(trace) /\ (i - 1) + 1 = i /\ trace[i].t \in Nat
    <2>1. Typed
      BY DEF Inv
    <2>2. QED
      BY <2>1, TraceTimes
  <1>3. row \in stoneEnergy /\ ~row.checked
    BY DEF Unchecked
  <1>4. \A other \in stoneEnergy : other.id \in Nat /\ other.t \in Nat /\ \E q \in 1..sent : other.t = trace[q].t
    BY <1>2 DEF Typed, IsRow, Rows, Times
  <1>5. PICK k \in DOMAIN rows : rows[k].id = row.id
    <2>1. CASE row.id = result.row.id
      <3>1. n \in DOMAIN rows /\ result.row.id = rows[n].id
        BY <1>1 DEF Computed, PageProcessed
      <3>2. QED
        BY <2>1, <3>1
    <2>2. CASE row.id \in UsedBy(u, found, result)
      <3>1. row \notin found
        BY <1>3, UsedRows
      <3>2. PICK k \in 1..(n - 1) : rows[k].id = row.id
        BY <1>3, <2>2, <3>1, UsedRows
      <3>3. k \in DOMAIN rows
        BY <1>1
      <3>4. QED
        BY <3>2, <3>3
    <2>3. QED
      BY <2>1, <2>2
  <1>6. rows[k].t = trace[i].t
    BY <1>3, <1>5, PageFacts
  <1> DEFINE S == {l \in DOMAIN rows : rows[l].t = trace[i].t}
  <1>7. PICK l \in S : \A other \in S : l <= other
    <2>1. S \subseteq Nat /\ S # {}
      BY <1>1, <1>6
    <2> HIDE DEF S
    <2>2. QED
      BY <2>1, LeastOf
  <1>8. CASE l # 1
    <2>1. l \in DOMAIN rows /\ l \in 2..n /\ l - 1 \in DOMAIN rows /\ l - 1 < l /\ l \in Nat
      BY <1>1, <1>7, <1>8
    <2>2. l - 1 \notin S
      <3>1. ~(l <= l - 1)
        BY <2>1
      <3> HIDE DEF S
      <3>2. QED
        BY <1>7, <3>1
    <2>3. rows[l].t = trace[i].t /\ rows[l-1].t # trace[i].t
      BY <1>7, <2>1, <2>2
    <2>4. PICK q \in 1..sent : rows[l-1].t = trace[q].t
      BY <1>1, <2>1
    <2>5. rows[l-1].t < rows[l].t
      <3>1. rows[l-1].t <= rows[l].t /\ rows[l-1].t \in Nat /\ rows[l].t \in Nat
        BY <1>1, <2>1
      <3> HIDE DEF rows, S
      <3>2. rows[l-1].t # rows[l].t
        BY <2>3
      <3>3. QED
        BY <3>1, <3>2
    <2>6. q < i
      BY <1>2, <2>3, <2>4, <2>5, TraceTimes
    <2>7. i = q + 1
      <3> HIDE DEF S
      <3>1. energyData[u][l-1].t = trace[q].t /\ energyData[u][l].t = trace[i].t /\ l \in 2..Len(energyData[u])
        BY <2>1, <2>3, <2>4
      <3> HIDE DEF rows
      <3>2. i \in 1..sent /\ q < inOrder
        BY <1>2, <2>6
      <3>3. Typed /\ Page(u) /\ q < i
        BY <2>6 DEF Inv
      <3>4. QED
        BY <3>1, <3>2, <3>3, Neighbours
    <2>8. Covers(result.samples, rows[l-1], rows[l])
      BY <2>1 DEF Computed, PageProcessed
    <2>9. rows[l-1].t = trace[i-1].t
      BY <1>2, <2>4, <2>7
    <2>10. Places(i) \subseteq TimesOf(result.samples)
      BY <2>3, <2>8, <2>9, CoverMakes
    <2>11. QED
      BY <2>10
  <1>9. CASE l = 1
    <2>1. rows[1].t = trace[i].t /\ 1 \in DOMAIN rows
      BY <1>7, <1>9
    <2>2. Needed(i - 1)
      BY <1>2 DEF Needed
    <2>3. PICK x \in stoneEnergy : x.t = trace[i-1].t
      BY <1>2, <2>2 DEF Inv, Present, RowsAt
    <2>4. x.t < trace[i].t /\ x.id \in Nat /\ x.t \in Nat
      BY <1>2, <1>4, <2>3, TraceTimes
    <2>5. CASE x.checked
      <3>1. LastChecked(u) # {}
        BY <1>1, <1>2, <2>1, <2>4, <2>5, SomeLastChecked
      <3>2. PICK last \in found : last \in LastChecked(u)
        BY <3>1 DEF Computed
      <3>3. last \in stoneEnergy /\ last.t < rows[1].t /\ x.t <= last.t
        BY <2>1, <2>4, <2>5, <3>2 DEF LastChecked
      <3>4. PICK q \in 1..sent : last.t = trace[q].t
        BY <1>4, <3>3
      <3>5. q \in 1..Len(trace) /\ q < i /\ ~(q < i - 1)
        BY <1>2, <1>4, <2>1, <2>3, <3>3, <3>4, TraceTimes
      <3>6. q = i - 1
        BY <1>2, <3>5
      <3>7. Covers(result.samples, last, rows[1])
        BY <3>2 DEF Computed
      <3>8. Places(i) \subseteq TimesOf(result.samples)
        BY <2>1, <3>4, <3>6, <3>7, CoverMakes
      <3>9. QED
        BY <3>8
    <2>6. CASE ~x.checked
      <3>1. x \in Unchecked /\ i \in 1..inOrder
        BY <2>6 DEF Unchecked
      <3>2. PICK next \in Unchecked : next.t = trace[i].t /\ x.id < next.id
        BY <2>4, <3>1 DEF Inv, CheckedInOrder
      <3>3. next.id \in Nat /\ row.id \in Nat
        BY <1>3, <1>4 DEF Unchecked
      <3>4. ~(x.id < row.id)
        <4>1. SUFFICES ASSUME x.id < row.id PROVE FALSE
          OBVIOUS
        <4>2. x.t <= rows[k].t /\ x.id < rows[k].id
          BY <1>2, <1>5, <1>6, <2>4, <4>1
        <4>3. PICK j \in DOMAIN rows : rows[j].id = x.id
          BY <3>1, <4>2 DEF Inv, Page
        <4>4. rows[j].t = x.t
          BY <4>3, PageFacts
        <4>5. rows[1].t <= rows[j].t
          <5>1. CASE j = 1
            BY <1>1, <4>3, <5>1
          <5>2. CASE j # 1
            <6>1. 1 < j
              BY <1>1, <4>3, <5>2
            <6>2. QED
              BY <1>1, <2>1, <4>3, <6>1
          <5>3. QED
            BY <5>1, <5>2
        <4>6. QED
          BY <1>2, <2>1, <2>4, <4>4, <4>5
      <3>5. row.id <= x.id
        BY <2>4, <3>3, <3>4
      <3>6. row.id < next.id
        BY <2>4, <3>2, <3>3, <3>5
      <3>7. QED
        BY <3>2, <3>6
    <2>7. QED
      BY <2>5, <2>6
  <1>10. QED
    BY <1>8, <1>9

\* A call that has samples to store.
LEMMA ComputedKeeps ==
    ASSUME Inv, NEW u \in Uploads, NEW found, NEW result, Computed(u, found, result),
           UNCHANGED <<trace, sent, inOrder, lastId, stoneEnergy, stoneEnergyProcessed, energyData>>,
           stage' = [stage EXCEPT ![u] = "creating"],
           NEW used, used = UsedBy(u, found, result),
           work' = [work EXCEPT ![u] = [samples |-> result.samples, used |-> used, last |-> result.row]]
    PROVE  Inv'
  <1> DEFINE rows == energyData[u]
             n == Len(rows)
             last == result.row
  <1>1. Typed /\ Page(u) /\ stage[u] = "finding" /\ energyData[u] # <<>>
    BY DEF Inv, Page, Computed
  <1>2. /\ n \in Nat /\ n >= 1 /\ DOMAIN rows = 1..n /\ n \in DOMAIN rows
        /\ rows[n].id \in 1..lastId /\ rows[n].t \in Times
    BY <1>1, PageFacts
  <1>3. /\ last \in Rows /\ last.id = rows[n].id /\ last.t = rows[n].t /\ last.checked
        /\ result.samples \in Seq(Samples)
    BY DEF Computed, PageProcessed
  <1>4. used \subseteq 1..lastId /\ used \in SUBSET Nat /\ last.id \notin used
    <2>1. used \subseteq 1..lastId
      BY <1>1, UsedRows
    <2>2. last.id \notin used
      BY DEF UsedBy
    <2>3. QED
      BY <2>1, <2>2
  <1>5. /\ stage'[u] = "creating" /\ stage' \in [Uploads -> Stages]
        /\ work'[u] = [samples |-> result.samples, used |-> used, last |-> last]
        /\ \A v \in Uploads \ {u} :
              stage'[v] = stage[v] /\ energyData'[v] = energyData[v] /\ work'[v] = work[v]
        /\ energyData'[u] = rows
    BY <1>1 DEF Typed, Stages
  <1>6. work' \in [Uploads -> [samples : Seq(Samples), used : SUBSET Nat, last : Rows]]
    BY <1>1, <1>3, <1>4 DEF Typed
  <1>7. Times' = Times /\ SampledAt' = SampledAt /\ Unchecked' = Unchecked
    BY DEF Times, SampledAt, Unchecked
  <1>8. Typed'
    <2>1. \A row \in stoneEnergy' : IsRow(row)'
      BY <1>1, <1>7 DEF Typed, IsRow
    <2>2. QED
      BY <1>1, <1>5, <1>6, <2>1 DEF Typed
  <1>9. Keeps /\ CheckedInOrder'
    BY <1>1, <1>7, QuietKeeps DEF Inv
  <1>10. Present'
    BY <1>1, <1>8, <1>9, PresentStays DEF Inv
  <1>11. Page(u)'
    BY <1>1, <1>5, <1>8, <1>9, PageStays
  <1>12. Finding(u)'
    BY <1>5 DEF Finding
  <1>13. Working(u)'
    <2>1. IsRow(work[u].last)'
      <3>1. (work[u].last)' = last
        BY <1>5
      <3> HIDE DEF last, rows, n
      <3>2. QED
        BY <1>2, <1>3, <1>7, <3>1 DEF IsRow
    <2>2. \A k \in 1..(n - 1) : rows[k].id \in used
      BY <1>1, UsedRows
    <2>3. ASSUME NEW row \in Unchecked, row.id \in used
          PROVE  \E k \in 1..(n - 1) : rows[k].id = row.id
      <3>1. row \in stoneEnergy /\ ~row.checked
        BY DEF Unchecked
      <3>2. QED
        BY <1>1, <2>3, <3>1, UsedRows
    <2>4. \A i : /\ Open(i)' <=> Open(i)
                 /\ Makes(u, i)' <=> Places(i) \subseteq TimesOf(result.samples)
      BY <1>5, <1>7 DEF Open, Places, Makes
    <2>5. ASSUME NEW m \in 1..inOrder, m = sent \/ (m < inOrder /\ Open(m + 1)' /\ ~Makes(u, m + 1)'),
                 NEW row \in stoneEnergy, row.t = trace[m].t, row.id \in used
          PROVE  \E other \in stoneEnergy : other.t = trace[m].t /\ row.id < other.id
      <3>1. m = sent \/ (m < inOrder /\ Open(m + 1) /\ ~(Places(m + 1) \subseteq TimesOf(result.samples)))
        BY <2>4, <2>5
      <3>2. QED
        BY <1>1, <2>5, <3>1, NeededIsLeft
    <2>6. ASSUME NEW i \in 2..inOrder, Open(i)', ~Makes(u, i)',
                 NEW row \in Unchecked, row.t = trace[i].t, row.id \in used \cup {last.id}
          PROVE  \E other \in Unchecked : other.t = trace[i].t /\ row.id < other.id
      <3>1. Open(i) /\ ~(Places(i) \subseteq TimesOf(result.samples))
        BY <2>4, <2>6
      <3>2. QED
        BY <1>1, <2>6, <3>1, UncheckedIsLeft
    <2>7. work'[u].used = used /\ work'[u].last = last
      BY <1>5
    <2> HIDE DEF rows, n, last
    <2>8. Len(energyData'[u]) = n
      BY <1>5 DEF n
    <2>9. QED
      BY <1>3, <1>4, <1>5, <1>7, <2>1, <2>2, <2>3, <2>5, <2>6, <2>7, <2>8 DEF Working, RowsAt
  <1>14. \A v \in Uploads : Page(v)' /\ Finding(v)' /\ Working(v)'
    BY <1>5, <1>8, <1>9, <1>11, <1>12, <1>13, OthersKeep
  <1>15. QED
    BY <1>8, <1>9, <1>10, <1>14 DEF Inv

LEMMA FindKeeps ==
    ASSUME Inv, NEW u \in Uploads, FindLastChecked(u)
    PROVE  Inv'
  <1> DEFINE rows == energyData[u]
  <1>1. Typed /\ Page(u)
    BY DEF Inv
  <1>2. /\ stage[u] = "finding" /\ rows # <<>>
        /\ UNCHANGED <<trace, sent, inOrder, lastId, stoneEnergy, stoneEnergyProcessed>>
    BY <1>1 DEF FindLastChecked, Page
  <1>3. rows \in Seq(Rows) /\ Len(rows) \in Nat
    BY <1>1, <1>2, PageFacts
  <1>4. ASSUME EndIteration(u) PROVE Inv'
    BY <1>1, <1>2, <1>4, Endings, EndKeepsInv
  <1>5. ASSUME NEW found \in SUBSET LastChecked(u), found = {} => LastChecked(u) = {},
               NEW last, NEW rest, Process(u, last, rest),
               PageProcessed(rows, ProcessRows(last, rest)),
               \A other \in found : Covers(ProcessRows(last, rest).samples, other, rows[1]),
               Used(last, rest, ProcessRows(last, rest).row) = UsedBy(u, found, ProcessRows(last, rest))
        PROVE  Inv'
    <2> DEFINE result == ProcessRows(last, rest)
               used == UsedBy(u, found, result)
    <2>1. Computed(u, found, result)
      BY <1>2, <1>5 DEF Computed
    <2>2. CASE result.samples = <<>>
      BY <1>4, <1>5, <2>2 DEF Process
    <2>3. CASE result.samples # <<>>
      <3>1. /\ work' = [work EXCEPT ![u] = [samples |-> result.samples, used |-> used, last |-> result.row]]
            /\ stage' = [stage EXCEPT ![u] = "creating"] /\ energyData' = energyData
        BY <1>5, <2>3 DEF Process
      <3> HIDE DEF result
      <3>2. QED
        BY <1>2, <2>1, <3>1, ComputedKeeps
    <2>4. QED
      BY <2>2, <2>3
  <1>6. ASSUME NEW last \in LastChecked(u), Process(u, last, rows) PROVE Inv'
    <2>1. last \in Rows
      BY <1>1 DEF LastChecked, Typed, IsRow
    <2> DEFINE result == ProcessRows(last, rows)
    <2>2. PageProcessed(rows, result) /\ Covers(result.samples, last, rows[1])
      BY <1>2, <1>3, <2>1, FromLastChecked
    <2> HIDE DEF result
    <2>3. Used(last, rows, result.row) = UsedBy(u, {last}, result)
      <3>1. {row.id : row \in ToSet(rows)} = {rows[k].id : k \in DOMAIN rows}
        BY DEF ToSet
      <3>2. {row.id : row \in {last}} = {last.id}
        OBVIOUS
      <3> HIDE DEF rows
      <3>3. QED
        BY <3>1, <3>2 DEF Used, UsedBy, rows
    <2>4. QED
      BY <1>5, <1>6, <2>2, <2>3 DEF result
  <1>7. ASSUME LastChecked(u) = {}, Len(rows) >= 2, Process(u, Head(rows), Tail(rows)) PROVE Inv'
    <2> DEFINE result == ProcessRows(Head(rows), Tail(rows))
    <2>1. PageProcessed(rows, result)
      BY <1>3, <1>7, FromFirstPoint
    <2> HIDE DEF result
    <2>2. {Head(rows).id} \cup {row.id : row \in ToSet(Tail(rows))} = {rows[k].id : k \in DOMAIN rows}
      <3> DEFINE rest == Tail(rows)
      <3> HIDE DEF rows
      <3>1. /\ Head(rows) = rows[1] /\ DOMAIN rows = 1..Len(rows) /\ DOMAIN rest = 1..(Len(rows) - 1)
            /\ \A k \in 1..(Len(rows) - 1) : rest[k] = rows[k+1]
        BY <1>3, <1>7
      <3> HIDE DEF rest
      <3>2. {row.id : row \in ToSet(rest)} = {rest[k].id : k \in DOMAIN rest}
        BY DEF ToSet
      <3>3. ASSUME NEW k \in DOMAIN rows PROVE k = 1 \/ (k - 1 \in DOMAIN rest /\ rest[k-1] = rows[k])
        BY <1>3, <3>1, <3>3
      <3>4. ASSUME NEW k \in DOMAIN rest PROVE k + 1 \in DOMAIN rows /\ rest[k] = rows[k+1]
        BY <1>3, <3>1, <3>4
      <3>5. 1 \in DOMAIN rows
        BY <1>3, <1>7, <3>1
      <3>6. {rest[k].id : k \in DOMAIN rest} \subseteq {rows[k].id : k \in DOMAIN rows}
        BY <3>4
      <3>7. {rows[k].id : k \in DOMAIN rows} \subseteq {rows[1].id} \cup {rest[k].id : k \in DOMAIN rest}
        BY <3>3
      <3>8. QED
        BY <3>1, <3>2, <3>5, <3>6, <3>7 DEF rest
    <2>3. Used(Head(rows), Tail(rows), result.row) = UsedBy(u, {}, result)
      <3>1. {row.id : row \in {}} = {}
        OBVIOUS
      <3>2. QED
        BY <2>2, <3>1 DEF Used, UsedBy
    <2>4. {} \in SUBSET LastChecked(u)
      OBVIOUS
    <2>5. QED
      BY <1>5, <1>7, <2>1, <2>3, <2>4 DEF result
  <1>8. \/ \E last \in LastChecked(u) : Process(u, last, rows)
        \/ LastChecked(u) = {} /\ Len(rows) >= 2 /\ Process(u, Head(rows), Tail(rows))
        \/ EndIteration(u)
    BY DEF FindLastChecked
  <1>9. QED
    BY <1>4, <1>6, <1>7, <1>8

-----------------------------------------------------------------------------
(* Results.                                                                *)

LEMMA InitInv ==
    ASSUME Init
    PROVE  Inv
  <1>1. /\ trace \in Traces /\ Len(trace) \in Nat /\ sent = 0 /\ inOrder = 0 /\ lastId = 0 /\ stoneEnergy = {}
        /\ stoneEnergyProcessed = <<>>
        /\ \A u \in Uploads : stage[u] = "idle" /\ energyData[u] = <<>>
    <2>1. trace \in Traces /\ trace \in Seq([t : Nat, e : Int])
      BY SamplingAssumption DEF Init
    <2>2. QED
      BY <2>1 DEF Init
  <1>2. Typed
    <2>1. <<>> \in Seq(Rows) /\ <<>> \in Seq(Samples)
      OBVIOUS
    <2>2. NoWork \in [samples : Seq(Samples), used : SUBSET Nat, last : Rows]
      BY <2>1 DEF NoWork, Row, Rows
    <2>3. stage \in [Uploads -> Stages]
      BY DEF Init, Stages
    <2>4. energyData \in [Uploads -> Seq(Rows)]
      BY <2>1 DEF Init
    <2>5. work \in [Uploads -> [samples : Seq(Samples), used : SUBSET Nat, last : Rows]]
      BY <2>2 DEF Init
    <2>6. QED
      BY <1>1, <2>1, <2>3, <2>4, <2>5 DEF Typed
  <1>3. Present /\ CheckedInOrder
    BY <1>1 DEF Present, CheckedInOrder, Unchecked
  <1>4. ASSUME NEW u \in Uploads PROVE Page(u) /\ Finding(u) /\ Working(u)
    <2>1. stage[u] = "idle" /\ energyData[u] = <<>> /\ DOMAIN energyData[u] = {} /\ 2..Len(energyData[u]) = {}
      BY <1>1
    <2>2. QED
      BY <2>1 DEF Page, Finding, Working
  <1>5. QED
    BY <1>2, <1>3, <1>4 DEF Inv

LEMMA StepKeepsInv ==
    ASSUME Inv, [Next]_vars
    PROVE  Inv'
  <1>1. ASSUME NEW u \in Uploads, NEW from \in 1..(Len(trace) + 1), NEW to \in 0..Len(trace),
               collectEnergyUsage(u, from, to)
        PROVE  Inv'
    BY <1>1, CollectKeeps
  <1>2. ASSUME NEW u \in Uploads, ProcessStep(u) PROVE Inv'
    BY <1>2, ReadKeeps, FindKeeps, CreateKeeps, DeleteKeeps, UpdateKeeps DEF ProcessStep
  <1>3. ASSUME NEW u \in Uploads, Interrupt(u) PROVE Inv'
    BY <1>3, InterruptKeeps
  <1>4. CASE UNCHANGED vars
    <2>1. UNCHANGED <<trace, sent, inOrder, lastId, stoneEnergy, stoneEnergyProcessed, stage, energyData, work>>
      BY <1>4 DEF vars
    <2>2. Typed'
      BY <2>1 DEF Inv, Typed, IsRow, Times
    <2>3. Keeps /\ CheckedInOrder'
      BY <2>1, QuietKeeps DEF Inv, SampledAt
    <2>4. Present'
      BY <2>1, <2>2, <2>3, PresentStays DEF Inv
    <2>5. ASSUME NEW v \in Uploads PROVE Page(v)' /\ Finding(v)' /\ Working(v)'
      <3>1. Typed /\ Page(v) /\ Finding(v) /\ Working(v)
        BY DEF Inv
      <3>2. \A i \in 2..inOrder : Makes(v, i) => Makes(v, i)'
        BY <2>1 DEF Makes, Places
      <3>3. QED
        BY <2>1, <2>2, <2>3, <3>1, <3>2, PageStays, FindingStays, WorkingStays
    <2>6. QED
      BY <2>2, <2>3, <2>4, <2>5 DEF Inv
  <1>5. QED
    BY <1>1, <1>2, <1>3, <1>4 DEF Next

LEMMA InvKeepsSamples ==
    ASSUME Inv
    PROVE  NoSampleLost
  <1> SUFFICES ASSUME NEW i \in 2..inOrder,
                      ElapsedSamplePoints(trace[i-1], trace[i]) <= INTERPOLATION_THRESHOLD,
                      NEW p \in (trace[i-1].t + 1)..trace[i].t, p = SamplePoint(p), p \notin SampledAt
               PROVE  RowsAt(trace[i-1].t) # {} /\ \E row \in RowsAt(trace[i].t) : ~row.checked
    BY DEF NoSampleLost
  <1>1. Open(i)
    BY DEF Open, Places
  <1>2. i - 1 \in 1..inOrder /\ (i - 1) + 1 = i /\ i - 1 < inOrder
    BY DEF Inv, Typed
  <1>3. Needed(i - 1)
    BY <1>1, <1>2 DEF Needed
  <1>4. RowsAt(trace[i-1].t) # {}
    BY <1>2, <1>3 DEF Inv, Present
  <1>5. \E row \in Unchecked : row.t = trace[i].t
    BY <1>1 DEF Inv, Present
  <1>6. QED
    BY <1>4, <1>5 DEF Unchecked, RowsAt

\* However many calls overlap, repeat points, bring them late or break off, and whatever the
\* size of a page: a sample point between two measurements that are close enough, of those
\* before the first one stored out of order, has its sample in stoneEnergyProcessed, or both
\* measurements are in stoneEnergy and the later one is unchecked (collectEnergyUsage of
\* energy.controller.ts, processMeasurements of EnergyProcessor.ts).
THEOREM NoPointIsLost == Spec => []NoSampleLost
  <1>1. Init => Inv
    BY InitInv
  <1>2. Inv /\ [Next]_vars => Inv'
    BY StepKeepsInv
  <1>3. Inv => NoSampleLost
    BY InvKeepsSamples
  <1>4. QED
    BY <1>1, <1>2, <1>3, PTL DEF Spec

-----------------------------------------------------------------------------
(* Calls that follow one another.                                          *)

\* The rows as they are first stored, and what becomes of them in one go: the row that is
\* kept and the samples after the measurement d.
Measured(i) == Row(i, trace[i].t, trace[i].e)

Rest(d) == [k \in 1..(Len(trace) - d) |-> Measured(d + k)]

InOneGo(d) == UpTo(Measured(1), Rest(1))[d-1]

\* Everything up to the measurement d has been processed, and the rest is stored.
StoredAfter(d) == {InOneGo(d).row} \cup {Measured(i) : i \in (d + 1)..sent}

DoneTo(d) == d \in 1..sent /\ stoneEnergy = StoredAfter(d) /\ stoneEnergyProcessed = InOneGo(d).samples

Empty == sent = 0 /\ stoneEnergy = {} /\ stoneEnergyProcessed = <<>>

\* What is not processed yet gives no sample.
Settled == Empty \/ \E d \in 1..sent : DoneTo(d) /\ InOneGo(sent).samples = InOneGo(d).samples

\* The first measurement stays unchecked until there is a second one.
FirstLeft(d) == IF d = 1 THEN 1 ELSE d + 1

OnPage(u, d, e) ==
    /\ d \in 1..sent /\ e \in FirstLeft(d)..sent
    /\ energyData[u] = [k \in 1..(e - FirstLeft(d) + 1) |-> Measured(FirstLeft(d) - 1 + k)]
    /\ Len(energyData[u]) = Limit \/ e = sent

Doing(u, d, e) ==
    /\ OnPage(u, d, e) /\ d < e
    /\ work[u].used = d..(e - 1) /\ work[u].last = InOneGo(e).row
    /\ InOneGo(e).samples = InOneGo(d).samples \o work[u].samples

Phase(u) ==
    \/ stage[u] = "idle"
    \/ stage[u] = "reading" /\ (Empty \/ \E d \in 1..sent : DoneTo(d))
    \/ stage[u] = "finding" /\ \E d, e \in 1..sent : DoneTo(d) /\ OnPage(u, d, e)
    \/ stage[u] = "creating" /\ \E d, e \in 1..sent : DoneTo(d) /\ Doing(u, d, e)
    \/ stage[u] = "deleting" /\ \E d, e \in 1..sent :
          stoneEnergy = StoredAfter(d) /\ stoneEnergyProcessed = InOneGo(e).samples /\ Doing(u, d, e)
    \/ stage[u] = "updating" /\ \E d, e \in 1..sent :
          stoneEnergy = {Measured(i) : i \in e..sent} /\ stoneEnergyProcessed = InOneGo(e).samples /\ Doing(u, d, e)

QuietInv ==
    ~disturbed =>
        /\ lastId = sent
        /\ \A u, v \in Running : u = v
        /\ Running = {} => Settled
        /\ \A u \in Uploads : Phase(u)

\* The samples of one go are in order, and so is what may still be added to them.
Sorted(done) ==
    LET row == done.row
        samples == done.samples
    IN  /\ \A k \in DOMAIN samples :
              /\ samples[k].t <= row.t /\ samples[k].e <= row.corrected
              /\ samples[k].interval = "fragment" => samples[k].t # SamplePoint(samples[k].t)
        /\ \A j, k \in DOMAIN samples : j < k => samples[j].t < samples[k].t /\ samples[j].e <= samples[k].e
        /\ ~row.checked => samples = <<>>
        /\ row.checked /\ ~row.processed =>
              /\ row.t # SamplePoint(row.t)
              /\ \A k \in DOMAIN samples : samples[k].t < row.t

-----------------------------------------------------------------------------
(* The measurements in one go.                                             *)

\* What a pair adds depends on the rows only, not on the samples so far.
PairOf(row, next) == processPair([row |-> row, samples |-> <<>>], next)

LEMMA SamplesAssociate ==
    ASSUME NEW a \in Seq(Samples), NEW b \in Seq(Samples), NEW c \in Seq(Samples)
    PROVE  /\ (a \o b) \o c = a \o (b \o c)
           /\ a \o b \in Seq(Samples)
           /\ <<>> \in Seq(Samples) /\ a \o <<>> = a /\ <<>> \o a = a
  <1>1. (a \o b) \o c = a \o (b \o c)
    BY ConcatAssociative
  <1>2. a \o <<>> = a /\ <<>> \o a = a
    BY ConcatEmptySeq, Zenon
  <1>3. a \o b \in Seq(Samples) /\ <<>> \in Seq(Samples)
    OBVIOUS
  <1>4. QED
    BY <1>1, <1>2, <1>3

LEMMA PairAppends ==
    ASSUME NEW done, done.row \in Rows, done.samples \in Seq(Samples), NEW next \in Rows
    PROVE  /\ processPair(done, next).row = PairOf(done.row, next).row
           /\ processPair(done, next).samples = done.samples \o PairOf(done.row, next).samples
           /\ PairOf(done.row, next).samples \in Seq(Samples)
  <1> DEFINE start == [row |-> done.row, samples |-> <<>>]
             first == IF done.row.checked THEN [row |-> done.row, samples |-> <<>>]
                      ELSE SinglePoint(done.row)
             second == DataPair(first.row, next)
  <1>1. /\ processPair(done, next).row = second.row
        /\ processPair(done, next).samples = (done.samples \o first.samples) \o second.samples
    BY DEF processPair
  <1>2. /\ PairOf(done.row, next).row = second.row
        /\ PairOf(done.row, next).samples = (<<>> \o first.samples) \o second.samples
    BY DEF processPair, PairOf
  <1>3. first.row \in Rows /\ first.samples \in Seq(Samples)
    BY SinglePointKeeps
  <1> HIDE DEF first
  <1>4. second.samples \in Seq(Samples)
    BY <1>3, DataPairCovers
  <1> HIDE DEF second
  <1>5. <<>> \o first.samples = first.samples
    BY <1>3, SamplesAssociate
  <1>6. (done.samples \o first.samples) \o second.samples = done.samples \o (first.samples \o second.samples)
    <2> DEFINE a == done.samples
               b == first.samples
               c == second.samples
    <2>1. a \in Seq(Samples) /\ b \in Seq(Samples) /\ c \in Seq(Samples)
      BY <1>3, <1>4
    <2> HIDE DEF a, b, c
    <2>2. (a \o b) \o c = a \o (b \o c)
      BY <2>1, SamplesAssociate
    <2>3. QED
      BY <2>2 DEF a, b, c
  <1>7. first.samples \o second.samples \in Seq(Samples)
    BY <1>3, <1>4
  <1>8. QED
    BY <1>1, <1>2, <1>5, <1>6, <1>7

LEMMA MeasuredRows ==
    ASSUME Typed, NEW i \in 1..Len(trace)
    PROVE  /\ Measured(i) \in Rows /\ Measured(i).id = i /\ Measured(i).t = trace[i].t
           /\ ~Measured(i).checked /\ ~Measured(i).processed
  <1>1. trace[i].t \in Nat /\ trace[i].e \in Int /\ i \in Nat /\ 0 \in Int
    BY TraceTimes
  <1>2. Measured(i) = [id |-> i, t |-> trace[i].t, e |-> trace[i].e, corrected |-> 0,
                       checked |-> FALSE, processed |-> FALSE]
    BY DEF Measured, Row
  <1>3. QED
    BY <1>1, <1>2 DEF Rows

LEMMA RestRows ==
    ASSUME Typed, NEW d \in 1..Len(trace)
    PROVE  /\ Rest(d) \in Seq(Rows) /\ Len(Rest(d)) = Len(trace) - d
           /\ \A k \in 1..(Len(trace) - d) : Rest(d)[k] = Measured(d + k)
  <1>1. Len(trace) \in Nat /\ Len(trace) - d \in Nat
    BY TraceTimes
  <1>2. \A k \in 1..(Len(trace) - d) : d + k \in 1..Len(trace)
    BY <1>1
  <1>3. \A k \in 1..(Len(trace) - d) : Measured(d + k) \in Rows
    BY <1>2, MeasuredRows
  <1>4. Rest(d) \in [1..(Len(trace) - d) -> Rows]
    BY <1>3 DEF Rest
  <1>5. Len(Rest(d)) = Len(trace) - d /\ \A k \in 1..(Len(trace) - d) : Rest(d)[k] = Measured(d + k)
    BY <1>1 DEF Rest
  <1>6. Rest(d) \in Seq(Rows)
    <2> DEFINE n == Len(trace) - d
               rest == Rest(d)
    <2>1. n \in Nat /\ rest \in [1..n -> Rows]
      BY <1>1, <1>4
    <2> HIDE DEF n, rest
    <2>2. rest \in Seq(Rows)
      BY <2>1
    <2>3. QED
      BY <2>2 DEF rest
  <1>7. QED
    BY <1>5, <1>6

LEMMA OneGoSteps ==
    ASSUME Typed, 1 <= Len(trace)
    PROVE  /\ InOneGo(1).row = Measured(1) /\ InOneGo(1).samples = <<>>
           /\ \A d \in 2..Len(trace) : InOneGo(d) = processPair(InOneGo(d-1), Measured(d))
           /\ \A d \in 1..Len(trace) :
                 /\ InOneGo(d).row \in Rows /\ InOneGo(d).samples \in Seq(Samples)
                 /\ InOneGo(d).row.id = d /\ InOneGo(d).row.t = trace[d].t
                 /\ InOneGo(d).row.checked <=> d # 1
  <1> DEFINE rows == Rest(1)
             f == UpTo(Measured(1), rows)
  <1>1. 1 \in 1..Len(trace) /\ Len(trace) \in Nat /\ Len(trace) - 1 \in Nat
    BY TraceTimes
  <1>2. /\ rows \in Seq(Rows) /\ Len(rows) = Len(trace) - 1
        /\ \A k \in 1..(Len(trace) - 1) : rows[k] = Measured(1 + k)
    BY <1>1, RestRows
  <1>3. Measured(1) \in Rows
    BY <1>1, MeasuredRows
  <1> HIDE DEF rows
  <1>4. \A k \in 0..Len(rows) :
            f[k] = IF k = 0 THEN [row |-> Measured(1), samples |-> <<>>] ELSE processPair(f[k-1], rows[k])
    BY <1>2, UpToIsDefined DEF RunsUpTo
  <1>5. \A k \in 0..Len(rows) : Processed(f, k, Measured(1), rows)
    BY <1>2, <1>3, RowsInTurn
  <1>6. \A d : InOneGo(d) = f[d-1]
    BY DEF InOneGo, rows
  <1> HIDE DEF f
  <1>7. InOneGo(1).row = Measured(1) /\ InOneGo(1).samples = <<>>
    BY <1>1, <1>2, <1>4, <1>6
  <1>8. ASSUME NEW d \in 2..Len(trace) PROVE InOneGo(d) = processPair(InOneGo(d-1), Measured(d))
    <2>1. d - 1 \in 0..Len(rows) /\ d - 1 # 0 /\ d - 1 \in 1..(Len(trace) - 1) /\ 1 + (d - 1) = d
      BY <1>1, <1>2
    <2>2. f[d-1] = processPair(f[(d-1)-1], rows[d-1])
      BY <1>4, <2>1
    <2>3. rows[d-1] = Measured(d)
      BY <1>2, <2>1
    <2>4. QED
      BY <1>6, <2>2, <2>3
  <1>9. ASSUME NEW d \in 1..Len(trace)
        PROVE  /\ InOneGo(d).row \in Rows /\ InOneGo(d).samples \in Seq(Samples)
               /\ InOneGo(d).row.id = d /\ InOneGo(d).row.t = trace[d].t
               /\ InOneGo(d).row.checked <=> d # 1
    <2>1. CASE d = 1
      <3>1. /\ Measured(1).id = 1 /\ Measured(1).t = trace[1].t /\ ~Measured(1).checked
            /\ Measured(1) \in Rows
        BY <1>1, MeasuredRows
      <3>2. <<>> \in Seq(Samples)
        OBVIOUS
      <3>3. QED
        BY <1>7, <2>1, <3>1, <3>2
    <2>2. CASE d # 1
      <3>1. d - 1 \in 0..Len(rows) /\ d - 1 > 0 /\ d - 1 \in 1..(Len(trace) - 1) /\ 1 + (d - 1) = d
        BY <1>1, <1>2, <2>2
      <3>2. Processed(f, d - 1, Measured(1), rows)
        BY <1>5, <3>1
      <3>3. /\ f[d-1].row \in Rows /\ f[d-1].samples \in Seq(Samples)
            /\ f[d-1].row.id = rows[d-1].id /\ f[d-1].row.t = rows[d-1].t /\ f[d-1].row.checked
        BY <3>1, <3>2 DEF Processed
      <3>4. rows[d-1] = Measured(d)
        BY <1>2, <3>1
      <3>5. Measured(d).id = d /\ Measured(d).t = trace[d].t
        BY MeasuredRows
      <3>6. QED
        BY <1>6, <2>2, <3>3, <3>4, <3>5
    <2>3. QED
      BY <2>1, <2>2
  <1>10. QED
    BY <1>7, <1>8, <1>9

\* Going on from the row that was kept is the same as going on.
LEMMA GoesOn ==
    ASSUME Typed, NEW d \in 1..Len(trace), NEW rows \in Seq(Rows), d + Len(rows) <= Len(trace),
           \A k \in 1..Len(rows) : rows[k] = Measured(d + k)
    PROVE  /\ ProcessRows(InOneGo(d).row, rows).row = InOneGo(d + Len(rows)).row
           /\ ProcessRows(InOneGo(d).row, rows).samples \in Seq(Samples)
           /\ InOneGo(d + Len(rows)).samples = InOneGo(d).samples \o ProcessRows(InOneGo(d).row, rows).samples
  <1> DEFINE last == InOneGo(d).row
             f == UpTo(last, rows)
             Same(k) == /\ f[k].row = InOneGo(d + k).row /\ f[k].samples \in Seq(Samples)
                        /\ InOneGo(d + k).samples = InOneGo(d).samples \o f[k].samples
             S == {k \in 0..Len(rows) : ~Same(k)}
  <1>1. Len(trace) \in Nat /\ d \in Nat /\ Len(rows) \in Nat /\ 1 <= Len(trace)
    BY TraceTimes
  <1>2. last \in Rows /\ InOneGo(d).samples \in Seq(Samples)
    BY <1>1, OneGoSteps
  <1>3. \A k \in 0..Len(rows) :
            f[k] = IF k = 0 THEN [row |-> last, samples |-> <<>>] ELSE processPair(f[k-1], rows[k])
    BY UpToIsDefined DEF RunsUpTo
  <1>4. ProcessRows(last, rows) = f[Len(rows)]
    BY DEF ProcessRows
  <1> HIDE DEF f
  <1>5. SUFFICES ASSUME S # {} PROVE FALSE
    <2>1. Len(rows) \in 0..Len(rows)
      BY <1>1
    <2>2. QED
      BY <1>4, <2>1
  <1>6. S \subseteq Nat
    <2> HIDE DEF Same
    <2>1. QED
      BY <1>1
  <1>7. PICK k \in S : \A other \in S : k <= other
    <2> HIDE DEF S
    <2>1. QED
      BY <1>5, <1>6, LeastOf
  <1>8. k \in 0..Len(rows) /\ k \in Nat /\ ~Same(k)
    <2>1. k \in 0..Len(rows) /\ ~Same(k)
      <3> HIDE DEF Same
      <3>1. QED
        BY <1>7
    <2> HIDE DEF Same
    <2>2. QED
      BY <1>1, <2>1
  <1>9. CASE k = 0
    <2>1. f[0].row = last /\ f[0].samples = <<>>
      BY <1>1, <1>3
    <2>2. d + 0 = d /\ InOneGo(d).samples \o <<>> = InOneGo(d).samples /\ <<>> \in Seq(Samples)
      BY <1>1, <1>2, SamplesAssociate
    <2>3. Same(0)
      BY <2>1, <2>2
    <2>4. QED
      BY <1>8, <1>9, <2>3
  <1>10. CASE k # 0
    <2>1. k - 1 \in 0..Len(rows) /\ ~(k <= k - 1) /\ k \in 1..Len(rows)
      BY <1>1, <1>8, <1>10
    <2>2. k - 1 \notin S
      <3> HIDE DEF S
      <3>1. QED
        BY <1>7, <2>1
    <2>3. Same(k - 1)
      BY <2>1, <2>2
    <2>4. d + k \in 2..Len(trace) /\ d + k \in 1..Len(trace) /\ (d + k) - 1 = d + (k - 1) /\ d + (k - 1) \in 1..Len(trace)
      BY <1>1, <2>1
    <2> DEFINE before == InOneGo(d + (k - 1))
               next == Measured(d + k)
    <2>5. before.row \in Rows /\ before.samples \in Seq(Samples) /\ next \in Rows
      BY <1>1, <2>4, OneGoSteps, MeasuredRows
    <2>6. InOneGo(d + k) = processPair(before, next)
      BY <1>1, <2>4, OneGoSteps
    <2>7. f[k] = processPair(f[k-1], next)
      BY <1>3, <1>8, <1>10, <2>1
    <2>8. /\ f[k-1].row = before.row /\ f[k-1].samples \in Seq(Samples)
          /\ before.samples = InOneGo(d).samples \o f[k-1].samples
      BY <2>3
    <2> HIDE DEF before, next, S, Same
    <2>9. /\ f[k].row = PairOf(before.row, next).row
          /\ f[k].samples = f[k-1].samples \o PairOf(before.row, next).samples
      <3> DEFINE g == f[k-1]
      <3>1. g.row \in Rows /\ g.samples \in Seq(Samples) /\ g.row = before.row
        BY <2>5, <2>8
      <3> HIDE DEF g
      <3>2. /\ processPair(g, next).row = PairOf(g.row, next).row
            /\ processPair(g, next).samples = g.samples \o PairOf(g.row, next).samples
        BY <2>5, <3>1, PairAppends
      <3>3. QED
        BY <2>7, <3>1, <3>2 DEF g
    <2>10. /\ InOneGo(d + k).row = PairOf(before.row, next).row
           /\ InOneGo(d + k).samples = before.samples \o PairOf(before.row, next).samples
           /\ PairOf(before.row, next).samples \in Seq(Samples)
      BY <2>5, <2>6, PairAppends
    <2>11. (InOneGo(d).samples \o f[k-1].samples) \o PairOf(before.row, next).samples
               = InOneGo(d).samples \o (f[k-1].samples \o PairOf(before.row, next).samples)
      <3> DEFINE a == InOneGo(d).samples
                 b == f[k-1].samples
                 c == PairOf(before.row, next).samples
      <3>1. a \in Seq(Samples) /\ b \in Seq(Samples) /\ c \in Seq(Samples)
        BY <1>2, <2>8, <2>10
      <3> HIDE DEF a, b, c
      <3>2. (a \o b) \o c = a \o (b \o c)
        BY <3>1, SamplesAssociate
      <3>3. QED
        BY <3>2 DEF a, b, c
    <2>12. f[k].samples \in Seq(Samples)
      BY <2>8, <2>9, <2>10, SamplesAssociate
    <2>13. Same(k)
      BY <2>8, <2>9, <2>10, <2>11, <2>12 DEF Same
    <2>14. QED
      BY <1>8, <2>13
  <1>11. QED
    BY <1>9, <1>10

-----------------------------------------------------------------------------
(* The page of a call that nothing disturbs.                               *)

\* The measurements from a to b are as many rows.
LEMMA MeasuredCount ==
    ASSUME Typed, NEW a \in Nat, 1 <= a, NEW b \in Nat, b <= Len(trace), a <= b + 1
    PROVE  /\ IsFiniteSet({Measured(i) : i \in a..b})
           /\ Cardinality({Measured(i) : i \in a..b}) = b - a + 1
  <1> DEFINE S == {Measured(i) : i \in a..b}
             f == [i \in a..b |-> Measured(i)]
  <1>1. Len(trace) \in Nat /\ \A i \in a..b : i \in 1..Len(trace)
    BY TraceTimes
  <1>2. \A i \in a..b : Measured(i).id = i
    BY <1>1, MeasuredRows
  <1>3. IsFiniteSet(a..b) /\ Cardinality(a..b) = b - a + 1
    <2>1. Cardinality(a..b) = IF a > b THEN 0 ELSE b - a + 1
      BY FS_Interval
    <2>2. IsFiniteSet(a..b)
      BY FS_Interval
    <2>3. QED
      BY <2>1, <2>2
  <1>4. f \in Bijection(a..b, S)
    <2>1. f \in [a..b -> S] /\ \A s \in S : \E i \in a..b : f[i] = s
      OBVIOUS
    <2>2. \A i, j \in a..b : f[i] = f[j] => i = j
      BY <1>2
    <2> HIDE DEF f, S
    <2>3. DOMAIN f = a..b
      BY <2>1
    <2>4. QED
      BY <2>1, <2>2, <2>3 DEF Bijection, Injection, Surjection, IsInjective
  <1>5. ExistsBijection(a..b, S)
    BY <1>4 DEF ExistsBijection
  <1> HIDE DEF S
  <1>6. IsFiniteSet(S) /\ Cardinality(S) = Cardinality(a..b)
    BY <1>3, <1>5, FS_Bijection
  <1>7. QED
    BY <1>3, <1>6 DEF S

LEMMA MeasuredInOrder ==
    ASSUME Typed, NEW i \in 1..Len(trace), NEW j \in 1..Len(trace)
    PROVE  /\ Before(Measured(i), Measured(j)) <=> i < j
           /\ Measured(i) = Measured(j) => i = j
  BY MeasuredRows, TraceTimes DEF Before

\* The page that is read when exactly the measurements from a on are unchecked.
LEMMA MeasuredPage ==
    ASSUME Typed, NEW a \in 1..sent, Unchecked = {Measured(i) : i \in a..sent}
    PROVE  \E e \in a..sent :
              /\ FirstUnchecked = [k \in 1..(e - a + 1) |-> Measured(a - 1 + k)]
              /\ e - a + 1 = Limit \/ e = sent
  <1> DEFINE U == Unchecked
             N == Cardinality(U)
             n == Min({Limit, N})
             e == a + n - 1
  <1>1. sent \in Nat /\ Len(trace) \in Nat /\ sent <= Len(trace) /\ a \in Nat /\ 1 <= a /\ a <= sent
    BY TraceTimes
  <1>2. N = sent - a + 1
    <2>1. a <= sent + 1
      BY <1>1
    <2>2. Cardinality({Measured(i) : i \in a..sent}) = sent - a + 1
      BY <1>1, <2>1, MeasuredCount
    <2>3. QED
      BY <2>2
  <1>3. n \in Nat /\ 1 <= n /\ n <= N /\ (n = Limit \/ n = N)
    <2>1. Limit \in Nat \ {0}
      BY SamplingAssumption
    <2>2. N \in Nat /\ 1 <= N
      BY <1>1, <1>2
    <2> HIDE DEF N
    <2>3. \E x \in {Limit, N} : \A y \in {Limit, N} : x =< y
      BY <2>1, <2>2
    <2>4. n \in {Limit, N} /\ n <= Limit /\ n <= N
      BY <2>3 DEF Min
    <2>5. QED
      BY <2>1, <2>2, <2>4
  <1>4. FirstUnchecked = [k \in 1..n |-> CHOOSE row \in U : Rank(U, row) = k - 1]
    BY DEF FirstUnchecked, Rank
  <1>5. Ordered(U)
    BY UncheckedOrdered
  <1> HIDE DEF n, N
  <1>6. e \in a..sent /\ e - a + 1 = n
    BY <1>1, <1>2, <1>3
  <1>7. ASSUME NEW k \in 1..n
        PROVE  (CHOOSE row \in U : Rank(U, row) = k - 1) = Measured(a - 1 + k)
    <2> DEFINE m == a - 1 + k
    <2>1. m \in a..sent /\ m \in 1..Len(trace) /\ k \in Nat /\ m - 1 \in Nat /\ a <= (m - 1) + 1 /\ m - 1 <= Len(trace)
      BY <1>1, <1>2, <1>3
    <2>2. \A i \in a..sent : i \in 1..Len(trace)
      BY <1>1
    <2>3. \A i \in a..sent : Before(Measured(i), Measured(m)) <=> i < m
      BY <2>1, <2>2, MeasuredInOrder
    <2>4. {other \in U : Before(other, Measured(m))} = {Measured(i) : i \in a..(m - 1)}
      <3>1. \A i \in a..(m - 1) : i \in a..sent /\ i < m
        BY <1>1, <2>1
      <3>2. \A i \in a..sent : i < m => i \in a..(m - 1)
        BY <1>1, <2>1
      <3> HIDE DEF m
      <3>3. QED
        BY <2>3, <3>1, <3>2
    <2>5. Cardinality({Measured(i) : i \in a..(m - 1)}) = (m - 1) - a + 1
      BY <1>1, <2>1, MeasuredCount
    <2>6. Rank(U, Measured(m)) = k - 1 /\ Measured(m) \in U
      <3>1. Rank(U, Measured(m)) = (m - 1) - a + 1
        BY <2>4, <2>5 DEF Rank
      <3>2. Measured(m) \in U
        BY <2>1
      <3>3. QED
        BY <1>1, <2>1, <3>1, <3>2
    <2> DEFINE chosen == CHOOSE row \in U : Rank(U, row) = k - 1
    <2> HIDE DEF U, m
    <2>7. chosen \in U /\ Rank(U, chosen) = k - 1
      BY <2>6
    <2> HIDE DEF chosen
    <2>8. ~Before(chosen, Measured(m)) /\ ~Before(Measured(m), chosen)
      <3>1. ~(Rank(U, chosen) < Rank(U, Measured(m))) /\ ~(Rank(U, Measured(m)) < Rank(U, chosen))
        BY <2>1, <2>6, <2>7
      <3>2. QED
        BY <1>5, <2>6, <2>7, <3>1, Ranks
    <2>9. chosen = Measured(m)
      BY <1>5, <2>6, <2>7, <2>8, BeforeIsOrder
    <2>10. QED
      BY <2>9 DEF chosen, m
  <1>8. FirstUnchecked = [k \in 1..(e - a + 1) |-> Measured(a - 1 + k)]
    <2> HIDE DEF U, e
    <2>1. FirstUnchecked = [k \in 1..n |-> Measured(a - 1 + k)]
      BY <1>4, <1>7
    <2>2. QED
      BY <1>6, <2>1
  <1>9. e - a + 1 = Limit \/ e = sent
    <2>1. CASE n = Limit
      BY <1>6, <2>1
    <2>2. CASE n = N
      BY <1>1, <1>2, <1>6, <2>2
    <2>3. QED
      BY <1>3, <2>1, <2>2
  <1>10. QED
    BY <1>6, <1>8, <1>9

\* Which of the stored rows are checked.
LEMMA StoredRows ==
    ASSUME Typed, NEW d \in 1..sent, stoneEnergy = StoredAfter(d)
    PROVE  /\ Unchecked = {Measured(i) : i \in FirstLeft(d)..sent}
           /\ {row \in stoneEnergy : row.checked} = IF d = 1 THEN {} ELSE {InOneGo(d).row}
  <1>1. sent \in Nat /\ Len(trace) \in Nat /\ sent <= Len(trace) /\ 1 <= Len(trace) /\ d \in 1..Len(trace)
    BY TraceTimes
  <1>2. InOneGo(d).row.checked \in BOOLEAN /\ (InOneGo(d).row.checked <=> d # 1)
    <2>1. InOneGo(d).row \in Rows
      BY <1>1, OneGoSteps
    <2>2. InOneGo(d).row.checked <=> d # 1
      BY <1>1, OneGoSteps
    <2>3. QED
      BY <2>1, <2>2 DEF Rows
  <1>3. \A i \in (d + 1)..sent : ~Measured(i).checked
    <2>1. \A i \in (d + 1)..sent : i \in 1..Len(trace)
      BY <1>1
    <2>2. QED
      BY <2>1, MeasuredRows
  <1>4. stoneEnergy = {InOneGo(d).row} \cup {Measured(i) : i \in (d + 1)..sent}
    BY DEF StoredAfter
  <1>5. CASE d = 1
    <2>1. InOneGo(d).row = Measured(1) /\ ~Measured(1).checked
      BY <1>1, <1>5, OneGoSteps, MeasuredRows
    <2>2. \A i : i \in 1..sent <=> i = 1 \/ i \in (d + 1)..sent
      BY <1>1, <1>5
    <2>3. stoneEnergy = {Measured(i) : i \in 1..sent}
      BY <1>4, <2>1, <2>2
    <2>4. \A i \in 1..sent : ~Measured(i).checked
      BY <1>3, <2>1, <2>2
    <2>5. Unchecked = stoneEnergy /\ {row \in stoneEnergy : row.checked} = {}
      BY <2>3, <2>4 DEF Unchecked
    <2>6. FirstLeft(d) = 1
      BY <1>5 DEF FirstLeft
    <2>7. QED
      BY <1>5, <2>3, <2>5, <2>6
  <1>6. CASE d # 1
    <2>1. FirstLeft(d) = d + 1
      BY <1>6 DEF FirstLeft
    <2>2. Unchecked = {Measured(i) : i \in (d + 1)..sent}
      BY <1>2, <1>3, <1>4, <1>6 DEF Unchecked
    <2>3. {row \in stoneEnergy : row.checked} = {InOneGo(d).row}
      BY <1>2, <1>3, <1>4, <1>6
    <2>4. QED
      BY <1>6, <2>1, <2>2, <2>3
  <1>7. QED
    BY <1>5, <1>6

-----------------------------------------------------------------------------
(* The steps of calls that follow one another.                             *)

LEMMA SameTrace ==
    ASSUME trace' = trace
    PROVE  /\ \A d : InOneGo(d)' = InOneGo(d) /\ Measured(d)' = Measured(d)
  BY DEF InOneGo, Measured, Rest

\* A call that ends its iteration: it goes on reading, or it was the last.
LEMMA QuietEnd ==
    ASSUME Typed, QuietInv, ~disturbed, NEW u \in Uploads, stage[u] # "idle",
           UNCHANGED <<trace, sent, inOrder, lastId>>, Ended(u),
           stage'[u] = "reading" => Empty' \/ (\E d \in 1..sent : DoneTo(d))',
           stage'[u] = "idle" => Settled'
    PROVE  QuietInv'
  <1>1. /\ lastId = sent /\ \A v \in Uploads : v # u => stage[v] = "idle"
    BY DEF QuietInv, Running
  <1>2. \A v \in Uploads : v # u => stage'[v] = "idle"
    BY <1>1, EndedTyped
  <1>3. stage'[u] \in {"idle", "reading"}
    BY DEF Ended
  <1>4. (lastId = sent)'
    BY <1>1
  <1>5. \A v, w \in Running' : v = w
    BY <1>2 DEF Running
  <1>6. Running' = {} => Settled'
    BY <1>3 DEF Running
  <1>7. \A v \in Uploads : Phase(v)'
    BY <1>2, <1>3 DEF Phase
  <1>8. QED
    BY <1>4, <1>5, <1>6, <1>7 DEF QuietInv

\* A call that goes on to its next query.
LEMMA QuietGoesOn ==
    ASSUME QuietInv, ~disturbed, NEW u \in Uploads, stage[u] # "idle",
           UNCHANGED <<trace, sent, inOrder, lastId>>,
           stage' = [stage EXCEPT ![u] = stage'[u]], stage'[u] # "idle",
           stage \in [Uploads -> Stages],
           Phase(u)'
    PROVE  QuietInv'
  <1>1. /\ lastId = sent /\ \A v \in Uploads : v # u => stage[v] = "idle"
    BY DEF QuietInv, Running
  <1>2. \A v \in Uploads : v # u => stage'[v] = "idle"
    BY <1>1
  <1>3. (lastId = sent)'
    BY <1>1
  <1>4. (\A v, w \in Running' : v = w) /\ Running' # {}
    BY <1>2 DEF Running
  <1>5. \A v \in Uploads : Phase(v)'
    BY <1>2 DEF Phase
  <1>6. QED
    BY <1>3, <1>4, <1>5 DEF QuietInv

LEMMA QuietCollect ==
    ASSUME Typed, QuietInv, ~disturbed', NEW u \in Uploads, NEW from \in 1..(Len(trace) + 1), NEW to \in 0..Len(trace),
           collectEnergyUsage(u, from, to)
    PROVE  QuietInv'
  <1>1. /\ from = sent + 1 /\ Running = {} /\ ~disturbed /\ disturbed' = FALSE
        /\ from <= to \/ to = sent
        /\ sent' = Max({sent, to}) /\ lastId' = lastId + 1 + to - from
        /\ stoneEnergy' = stoneEnergy \cup {Row(lastId + 1 + i - from, trace[i].t, trace[i].e) : i \in from..to}
        /\ stage' = [stage EXCEPT ![u] = "reading"]
        /\ UNCHANGED <<trace, stoneEnergyProcessed, energyData, work>>
    BY DEF collectEnergyUsage
  <1>2. lastId = sent /\ Settled /\ \A v \in Uploads : stage[v] = "idle"
    BY <1>1 DEF QuietInv, Running
  <1>3. sent \in Nat /\ to \in Nat /\ sent <= to /\ to <= Len(trace) /\ Len(trace) \in Nat
    BY <1>1, TraceTimes
  <1>4. sent' = to
    <2>1. \E x \in {sent, to} : \A y \in {sent, to} : x >= y
      BY <1>3
    <2>2. Max({sent, to}) \in {sent, to} /\ \A y \in {sent, to} : Max({sent, to}) >= y
      BY <2>1 DEF Max
    <2>3. QED
      BY <1>1, <1>3, <2>2
  <1>5. stoneEnergy' = stoneEnergy \cup {Measured(i) : i \in (sent + 1)..to}
    <2>1. ASSUME NEW i \in (sent + 1)..to
          PROVE  Row(lastId + 1 + i - from, trace[i].t, trace[i].e) = Measured(i)
      <3>1. lastId + 1 + i - from = i
        BY <1>1, <1>2, <1>3
      <3>2. QED
        BY <3>1 DEF Measured
    <2>2. QED
      BY <1>1, <2>1
  <1>6. lastId' = sent'
    BY <1>1, <1>2, <1>3, <1>4
  <1>7. stage'[u] = "reading" /\ \A v \in Uploads : v # u => stage'[v] = "idle"
    BY <1>1, <1>2 DEF Typed
  <1>8. Empty' \/ (\E d \in 1..sent : DoneTo(d))'
    <2>1. CASE Empty /\ to = 0
      <3>1. {Measured(i) : i \in (sent + 1)..to} = {}
        BY <1>3, <2>1
      <3>2. QED
        BY <1>1, <1>4, <1>5, <2>1, <3>1 DEF Empty
    <2>2. CASE Empty /\ to # 0
      <3>1. 1 \in 1..to /\ 1 <= Len(trace)
        BY <1>3, <2>2
      <3>2. InOneGo(1).row = Measured(1) /\ InOneGo(1).samples = <<>>
        BY <3>1, OneGoSteps
      <3>3. \A i : i \in (sent + 1)..to <=> i = 1 \/ i \in (1 + 1)..to
        BY <1>3, <2>2, <3>1 DEF Empty
      <3>4. stoneEnergy' = {InOneGo(1).row} \cup {Measured(i) : i \in (1 + 1)..to}
        BY <1>5, <2>2, <3>2, <3>3 DEF Empty
      <3>5. stoneEnergyProcessed' = InOneGo(1).samples
        BY <1>1, <2>2, <3>2 DEF Empty
      <3>6. DoneTo(1)'
        BY <1>1, <1>4, <3>1, <3>4, <3>5, SameTrace DEF DoneTo, StoredAfter
      <3>7. QED
        BY <1>1, <1>4, <3>1, <3>6
    <2>3. CASE ~Empty
      <3>1. PICK d \in 1..sent : DoneTo(d)
        BY <1>2, <2>3 DEF Settled
      <3>2. d \in 1..to /\ \A i : i \in (d + 1)..to <=> i \in (d + 1)..sent \/ i \in (sent + 1)..to
        BY <1>3
      <3>3. stoneEnergy' = {InOneGo(d).row} \cup {Measured(i) : i \in (d + 1)..to}
        BY <1>5, <3>1, <3>2 DEF DoneTo, StoredAfter
      <3>4. DoneTo(d)'
        BY <1>1, <1>4, <3>1, <3>2, <3>3, SameTrace DEF DoneTo, StoredAfter
      <3>5. QED
        BY <1>1, <1>4, <3>2, <3>4
    <2>4. QED
      BY <2>1, <2>2, <2>3
  <1>9. \A v \in Uploads : Phase(v)'
    BY <1>7, <1>8 DEF Phase
  <1>10. (\A v, w \in Running' : v = w) /\ Running' # {}
    BY <1>7 DEF Running
  <1>11. QED
    BY <1>6, <1>9, <1>10 DEF QuietInv

LEMMA QuietRead ==
    ASSUME Typed, QuietInv, ~disturbed, NEW u \in Uploads, ReadUnchecked(u)
    PROVE  QuietInv'
  <1>1. /\ stage[u] = "reading" /\ stage[u] # "idle"
        /\ UNCHANGED <<trace, sent, inOrder, lastId, stoneEnergy, stoneEnergyProcessed, disturbed>>
    BY DEF ReadUnchecked
  <1>2. Phase(u)
    BY DEF QuietInv
  <1>3. Empty \/ \E d \in 1..sent : DoneTo(d)
    BY <1>1, <1>2 DEF Phase
  <1>4. sent \in Nat
    BY TraceTimes
  <1>5. CASE Unchecked = {}
    <2>1. Ended(u) /\ stage'[u] = "idle"
      <3>1. EndCall(u)
        BY <1>5 DEF ReadUnchecked
      <3>2. QED
        BY <3>1, Endings DEF EndCall, Typed
    <2>2. Settled'
      <3>1. CASE Empty
        BY <1>1, <3>1 DEF Settled, Empty
      <3>2. CASE ~Empty
        <4>1. PICK d \in 1..sent : DoneTo(d)
          BY <1>3, <3>2
        <4>2. {Measured(i) : i \in FirstLeft(d)..sent} = {}
          BY <1>5, <4>1, StoredRows DEF DoneTo
        <4>3. FirstLeft(d) \notin FirstLeft(d)..sent
          <5> DEFINE a == FirstLeft(d)
                     S == {Measured(i) : i \in a..sent}
          <5>1. S = {}
            BY <4>2
          <5>2. a \in a..sent => Measured(a) \in S
            OBVIOUS
          <5> HIDE DEF S
          <5>3. QED
            BY <5>1, <5>2
        <4>4. d = sent
          BY <1>4, <4>3 DEF FirstLeft
        <4>5. DoneTo(d)'
          BY <1>1, <4>1, SameTrace DEF DoneTo, StoredAfter
        <4>6. InOneGo(sent)'.samples = InOneGo(d)'.samples
          BY <1>1, <4>4
        <4>7. QED
          BY <1>1, <4>5, <4>6 DEF Settled
      <3>3. QED
        BY <3>1, <3>2
    <2>3. QED
      BY <1>1, <2>1, <2>2, QuietEnd
  <1>6. CASE Unchecked # {}
    <2>1. /\ energyData' = [energyData EXCEPT ![u] = FirstUnchecked]
          /\ stage' = [stage EXCEPT ![u] = "finding"]
      BY <1>6 DEF ReadUnchecked
    <2>2. ~Empty
      BY <1>6 DEF Empty, Unchecked
    <2>3. PICK d \in 1..sent : DoneTo(d)
      BY <1>3, <2>2
    <2> DEFINE a == FirstLeft(d)
    <2>4. Unchecked = {Measured(i) : i \in a..sent}
      BY <2>3, StoredRows DEF DoneTo
    <2>5. a \in 1..sent
      <3>1. PICK i \in a..sent : TRUE
        BY <1>6, <2>4
      <3>2. a \in Nat /\ 1 <= a
        BY <1>4 DEF FirstLeft
      <3> HIDE DEF a
      <3>3. QED
        BY <1>4, <3>1, <3>2
    <2>6. PICK e \in a..sent :
              /\ FirstUnchecked = [k \in 1..(e - a + 1) |-> Measured(a - 1 + k)]
              /\ e - a + 1 = Limit \/ e = sent
      <3> HIDE DEF a
      <3>1. QED
        BY <2>4, <2>5, MeasuredPage
    <2>7. e \in 1..sent
      BY <1>4, <2>5
    <2>8. energyData'[u] = FirstUnchecked /\ stage'[u] = "finding"
      BY <2>1 DEF Typed
    <2>9. OnPage(u, d, e)'
      <3>1. Len(FirstUnchecked) = e - a + 1
        <4>1. e - a + 1 \in Nat
          BY <1>4, <2>5
        <4> HIDE DEF a
        <4>2. QED
          BY <2>6, <4>1
      <3>2. energyData'[u] = [k \in 1..(e - a + 1) |-> Measured(a - 1 + k)]
        BY <2>6, <2>8
      <3>3. Len(energyData'[u]) = Limit \/ e = sent
        BY <2>6, <2>8, <3>1
      <3>4. \A k : Measured(k)' = Measured(k)
        BY <1>1, SameTrace
      <3>5. QED
        BY <1>1, <2>6, <3>2, <3>3, <3>4 DEF OnPage
    <2>10. DoneTo(d)'
      BY <1>1, <2>3, SameTrace DEF DoneTo, StoredAfter
    <2>11. Phase(u)'
      BY <1>1, <2>7, <2>8, <2>9, <2>10 DEF Phase
    <2>12. stage' = [stage EXCEPT ![u] = stage'[u]] /\ stage'[u] # "idle" /\ stage \in [Uploads -> Stages]
      BY <2>1, <2>8 DEF Typed
    <2>13. QED
      BY <1>1, <2>11, <2>12, QuietGoesOn
  <1>7. QED
    BY <1>5, <1>6

\* The samples of a page are stored, or there is nothing to store.
LEMMA QuietProcess ==
    ASSUME Typed, QuietInv, ~disturbed, NEW u \in Uploads, stage[u] = "finding",
           NEW d \in 1..sent, NEW e \in 1..sent, DoneTo(d), OnPage(u, d, e), d < e,
           NEW rows \in Seq(Rows), Len(rows) = e - d, \A k \in 1..Len(rows) : rows[k] = Measured(d + k),
           Process(u, InOneGo(d).row, rows),
           UNCHANGED <<trace, sent, inOrder, lastId, stoneEnergy, stoneEnergyProcessed, disturbed>>
    PROVE  QuietInv'
  <1> DEFINE last == InOneGo(d).row
             result == ProcessRows(last, rows)
  <1>1. /\ sent \in Nat /\ Len(trace) \in Nat /\ sent <= Len(trace) /\ d \in Nat /\ e \in Nat
        /\ d \in 1..Len(trace) /\ e \in 1..Len(trace) /\ 1 <= Len(trace) /\ Len(rows) \in Nat
    BY TraceTimes
  <1>2. /\ result.row = InOneGo(e).row /\ result.samples \in Seq(Samples)
        /\ InOneGo(e).samples = InOneGo(d).samples \o result.samples
    <2>1. d + Len(rows) = e /\ d + Len(rows) <= Len(trace)
      BY <1>1
    <2>2. QED
      BY <1>1, <2>1, GoesOn
  <1>3. DoneTo(d)'
    BY SameTrace DEF DoneTo, StoredAfter
  <1> HIDE DEF result, last
  <1>4. IF result.samples = <<>>
        THEN EndIteration(u)
        ELSE /\ work' = [work EXCEPT ![u] =
                    [samples |-> result.samples, used |-> Used(last, rows, result.row), last |-> result.row]]
             /\ stage' = [stage EXCEPT ![u] = "creating"]
             /\ UNCHANGED energyData
    BY DEF Process, result, last
  <1>5. CASE result.samples = <<>>
    <2>1. Ended(u) /\ stage'[u] = IF Len(energyData[u]) = Limit THEN "reading" ELSE "idle"
      <3>1. EndIteration(u)
        BY <1>4, <1>5
      <3>2. QED
        BY <3>1, Endings DEF EndIteration, Typed
    <2>2. InOneGo(e).samples = InOneGo(d).samples
      <3>1. InOneGo(d).samples \in Seq(Samples)
        BY <1>1, OneGoSteps
      <3>2. InOneGo(e).samples = InOneGo(d).samples \o <<>>
        BY <1>2, <1>5
      <3>3. QED
        BY <3>1, <3>2, SamplesAssociate
    <2>3. (\E m \in 1..sent : DoneTo(m))'
      BY <1>3
    <2>4. ASSUME stage'[u] = "idle" PROVE Settled'
      <3>1. e = sent
        BY <2>1, <2>4 DEF OnPage
      <3>2. (InOneGo(sent).samples = InOneGo(d).samples)'
        BY <2>2, <3>1, SameTrace
      <3>3. QED
        BY <1>3, <3>2 DEF Settled
    <2>5. QED
      BY <2>1, <2>3, <2>4, QuietEnd
  <1>6. CASE result.samples # <<>>
    <2>1. /\ work'[u] = [samples |-> result.samples, used |-> Used(last, rows, result.row), last |-> result.row]
          /\ stage'[u] = "creating" /\ energyData' = energyData
          /\ stage' = [stage EXCEPT ![u] = stage'[u]] /\ stage \in [Uploads -> Stages]
      BY <1>4, <1>6 DEF Typed
    <2>2. Used(last, rows, result.row) = d..(e - 1)
      <3>1. last.id = d /\ result.row.id = e
        BY <1>1, <1>2, OneGoSteps DEF last
      <3>2. \A k \in 1..Len(rows) : rows[k].id = d + k
        <4>1. \A k \in 1..Len(rows) : d + k \in 1..Len(trace)
          BY <1>1
        <4>2. QED
          BY <4>1, MeasuredRows
      <3>3. {row.id : row \in ToSet(rows)} = (d + 1)..e
        <4>1. DOMAIN rows = 1..Len(rows)
          OBVIOUS
        <4>2. {row.id : row \in ToSet(rows)} = {d + k : k \in 1..Len(rows)}
          <5> DEFINE Set == {rows[k] : k \in 1..Len(rows)}
          <5>1. \A k \in 1..Len(rows) : rows[k] \in Set /\ rows[k].id = d + k
            BY <3>2
          <5>2. \A row \in Set : \E k \in 1..Len(rows) : row = rows[k]
            OBVIOUS
          <5>3. ToSet(rows) = Set
            BY <4>1 DEF ToSet
          <5> HIDE DEF Set
          <5>4. {row.id : row \in Set} = {d + k : k \in 1..Len(rows)}
            <6>1. ASSUME NEW row \in Set PROVE \E k \in 1..Len(rows) : row.id = d + k
              <7>1. PICK k \in 1..Len(rows) : row = rows[k]
                BY <5>2
              <7>2. QED
                BY <5>1, <7>1
            <6>2. ASSUME NEW k \in 1..Len(rows) PROVE \E row \in Set : row.id = d + k
              BY <5>1
            <6>3. QED
              BY <6>1, <6>2, Zenon
          <5>5. QED
            BY <5>3, <5>4
        <4>3. {d + k : k \in 1..Len(rows)} = (d + 1)..e
          <5>1. \A k \in 1..Len(rows) : d + k \in (d + 1)..e
            BY <1>1
          <5>2. \A i \in (d + 1)..e : i - d \in 1..Len(rows) /\ d + (i - d) = i
            BY <1>1
          <5>3. QED
            BY <5>1, <5>2
        <4>4. QED
          BY <4>2, <4>3
      <3>4. Used(last, rows, result.row) = ({d} \cup (d + 1)..e) \ {e}
        BY <3>1, <3>3 DEF Used
      <3>5. ({d} \cup (d + 1)..e) \ {e} = d..(e - 1)
        BY <1>1
      <3>6. QED
        BY <3>4, <3>5
    <2>3. OnPage(u, d, e)'
      BY <2>1, SameTrace DEF OnPage
    <2>4. Doing(u, d, e)'
      <3>1. /\ work'[u].used = d..(e - 1) /\ work'[u].last = InOneGo(e).row
            /\ InOneGo(e).samples = InOneGo(d).samples \o work'[u].samples
        <4> DEFINE made == result.samples
                   kept == result.row
                   used == Used(last, rows, kept)
        <4>1. work'[u] = [samples |-> made, used |-> used, last |-> kept]
          BY <2>1
        <4>2. used = d..(e - 1) /\ kept = InOneGo(e).row /\ InOneGo(e).samples = InOneGo(d).samples \o made
          BY <1>2, <2>2
        <4> HIDE DEF made, kept, used
        <4>3. work'[u].samples = made /\ work'[u].used = used /\ work'[u].last = kept
          BY <4>1
        <4>4. QED
          BY <4>2, <4>3
      <3>2. InOneGo(e)' = InOneGo(e) /\ InOneGo(d)' = InOneGo(d)
        BY SameTrace
      <3>3. QED
        BY <2>3, <3>1, <3>2 DEF Doing
    <2>5. Phase(u)'
      BY <1>3, <2>1, <2>4 DEF Phase
    <2>6. QED
      BY <2>1, <2>5, QuietGoesOn
  <1>7. QED
    BY <1>5, <1>6

LEMMA QuietFind ==
    ASSUME Typed, QuietInv, ~disturbed, NEW u \in Uploads, FindLastChecked(u)
    PROVE  QuietInv'
  <1>1. /\ stage[u] = "finding" /\ stage[u] # "idle"
        /\ UNCHANGED <<trace, sent, inOrder, lastId, stoneEnergy, stoneEnergyProcessed, disturbed>>
    BY DEF FindLastChecked
  <1>2. Phase(u)
    BY DEF QuietInv
  <1>3. PICK d \in 1..sent, e \in 1..sent : DoneTo(d) /\ OnPage(u, d, e)
    BY <1>1, <1>2 DEF Phase
  <1> DEFINE a == FirstLeft(d)
             rows == energyData[u]
  <1>4. /\ sent \in Nat /\ Len(trace) \in Nat /\ sent <= Len(trace) /\ d \in Nat /\ e \in Nat
        /\ d \in 1..Len(trace) /\ e \in 1..Len(trace) /\ 1 <= Len(trace)
    BY TraceTimes
  <1>5. /\ a \in Nat /\ 1 <= a /\ a <= e /\ e - a + 1 \in Nat /\ e - a + 1 >= 1
        /\ d = 1 => a = 1
        /\ d # 1 => a = d + 1
    BY <1>3, <1>4 DEF OnPage, FirstLeft
  <1>6. /\ rows = [k \in 1..(e - a + 1) |-> Measured(a - 1 + k)] /\ (Len(rows) = Limit \/ e = sent)
    BY <1>3 DEF OnPage
  <1>7. rows \in Seq(Rows)
    BY DEF Typed
  <1> HIDE DEF a, rows
  <1>8. Len(rows) = e - a + 1 /\ \A k \in 1..Len(rows) : rows[k] = Measured(a - 1 + k)
    BY <1>5, <1>6
  <1>9. rows[1] = Measured(a) /\ rows[1].t = trace[a].t
    <2>1. a - 1 + 1 = a /\ a \in 1..Len(trace) /\ 1 \in 1..Len(rows)
      BY <1>4, <1>5, <1>8
    <2>2. QED
      BY <1>8, <2>1, MeasuredRows
  <1>10. {row \in stoneEnergy : row.checked} = IF d = 1 THEN {} ELSE {InOneGo(d).row}
    BY <1>3, StoredRows DEF DoneTo
  <1>11. CASE d = 1
    <2>1. LastChecked(u) = {}
      BY <1>10, <1>11 DEF LastChecked
    <2>2. CASE Len(rows) < 2
      <3>1. EndIteration(u)
        BY <2>1, <2>2 DEF FindLastChecked, rows
      <3>2. Ended(u) /\ stage'[u] = IF Len(rows) = Limit THEN "reading" ELSE "idle"
        BY <3>1, Endings DEF EndIteration, Typed, rows
      <3>3. DoneTo(d)'
        BY <1>1, <1>3, SameTrace DEF DoneTo, StoredAfter
      <3>4. (\E m \in 1..sent : DoneTo(m))'
        BY <1>1, <3>3
      <3>5. ASSUME stage'[u] = "idle" PROVE Settled'
        <4>1. d = sent
          BY <1>4, <1>5, <1>6, <1>8, <1>11, <2>2, <3>2, <3>5
        <4>2. QED
          BY <1>1, <3>3, <4>1 DEF Settled
      <3>6. QED
        BY <1>1, <3>2, <3>4, <3>5, QuietEnd
    <2>3. CASE Len(rows) >= 2
      <3> DEFINE rest == Tail(rows)
      <3>1. /\ rest \in Seq(Rows) /\ Len(rest) = Len(rows) - 1 /\ Head(rows) = rows[1]
            /\ \A k \in 1..Len(rest) : rest[k] = rows[k+1]
        BY <1>7, <2>3
      <3>2. Process(u, Head(rows), rest)
        <4>1. ~(Len(rows) < 2)
          BY <1>7, <2>3
        <4>2. QED
          BY <2>1, <4>1 DEF FindLastChecked, rows
      <3>3. Head(rows) = InOneGo(d).row
        BY <1>4, <1>5, <1>9, <1>11, <3>1, OneGoSteps
      <3> HIDE DEF rest
      <3>4. Len(rest) = e - d /\ d < e
        BY <1>4, <1>5, <1>8, <1>11, <2>3, <3>1
      <3>5. ASSUME NEW k \in 1..Len(rest) PROVE rest[k] = Measured(d + k)
        <4>1. k + 1 \in 1..Len(rows) /\ a - 1 + (k + 1) = d + k
          BY <1>4, <1>5, <1>8, <1>11, <3>1
        <4>2. QED
          BY <1>8, <3>1, <4>1
      <3>6. QED
        BY <1>1, <1>3, <3>1, <3>2, <3>3, <3>4, <3>5, QuietProcess
    <2>4. Len(rows) < 2 \/ Len(rows) >= 2
      BY <1>5, <1>8
    <2>5. QED
      BY <2>2, <2>3, <2>4
  <1>12. CASE d # 1
    <2> DEFINE last == InOneGo(d).row
    <2>1. last.t = trace[d].t /\ trace[d].t < trace[a].t
      <3>1. a \in 1..Len(trace) /\ d < a
        BY <1>4, <1>5, <1>12
      <3>2. QED
        BY <1>4, <3>1, OneGoSteps, TraceTimes
    <2>2. LastChecked(u) = {last}
      <3>1. {row \in stoneEnergy : row.checked} = {last}
        BY <1>10, <1>12
      <3>2. last.t < energyData[u][1].t /\ last.t <= last.t
        <4>1. last.t \in Nat
          BY <1>4, <2>1, TraceTimes
        <4>2. QED
          BY <1>9, <2>1, <4>1 DEF rows
      <3> HIDE DEF last
      <3>3. {row \in stoneEnergy : row.checked /\ row.t < energyData[u][1].t} = {last}
        BY <3>1, <3>2
      <3>4. QED
        BY <3>2, <3>3 DEF LastChecked
    <2>3. Process(u, last, rows)
      BY <2>2 DEF FindLastChecked, rows
    <2>4. Len(rows) = e - d /\ d < e
      BY <1>4, <1>5, <1>8, <1>12
    <2>5. ASSUME NEW k \in 1..Len(rows) PROVE rows[k] = Measured(d + k)
      <3>1. a - 1 + k = d + k
        BY <1>4, <1>5, <1>12
      <3>2. QED
        BY <1>8, <3>1
    <2>6. QED
      BY <1>1, <1>3, <1>7, <2>3, <2>4, <2>5, QuietProcess
  <1>13. QED
    BY <1>11, <1>12

\* What depends on the trace, on what is sent and on the page does not change with the rest.
LEMMA SameDoing ==
    ASSUME trace' = trace, sent' = sent, NEW u, energyData'[u] = energyData[u], work'[u] = work[u],
           NEW d, NEW e
    PROVE  /\ OnPage(u, d, e)' <=> OnPage(u, d, e)
           /\ Doing(u, d, e)' <=> Doing(u, d, e)
           /\ StoredAfter(d)' = StoredAfter(d)
  <1>1. \A k : Measured(k)' = Measured(k) /\ InOneGo(k)' = InOneGo(k)
    BY SameTrace
  <1>2. StoredAfter(d)' = StoredAfter(d)
    BY <1>1 DEF StoredAfter
  <1>3. OnPage(u, d, e)' <=> OnPage(u, d, e)
    BY <1>1 DEF OnPage
  <1>4. Doing(u, d, e)' <=> Doing(u, d, e)
    BY <1>1, <1>3 DEF Doing
  <1>5. QED
    BY <1>2, <1>3, <1>4

LEMMA QuietCreate ==
    ASSUME Typed, QuietInv, ~disturbed, NEW u \in Uploads, CreateSamples(u)
    PROVE  QuietInv'
  <1>1. /\ stage[u] = "creating" /\ stage[u] # "idle" /\ stage'[u] = "deleting" /\ stage'[u] # "idle"
        /\ stage' = [stage EXCEPT ![u] = stage'[u]] /\ stage \in [Uploads -> Stages]
        /\ stoneEnergyProcessed' = stoneEnergyProcessed \o work[u].samples
        /\ UNCHANGED <<trace, sent, inOrder, lastId, stoneEnergy, energyData, work>>
    BY DEF CreateSamples, Typed
  <1>2. Phase(u)
    BY DEF QuietInv
  <1>3. PICK d \in 1..sent, e \in 1..sent : DoneTo(d) /\ Doing(u, d, e)
    BY <1>1, <1>2 DEF Phase
  <1>4. stoneEnergyProcessed' = InOneGo(e).samples
    BY <1>1, <1>3 DEF DoneTo, Doing
  <1>5. Doing(u, d, e)'
    BY <1>1, <1>3, SameDoing
  <1>6. (stoneEnergy = StoredAfter(d) /\ stoneEnergyProcessed = InOneGo(e).samples)'
    <2>1. StoredAfter(d)' = StoredAfter(d) /\ InOneGo(e)' = InOneGo(e)
      BY <1>1, SameTrace, SameDoing
    <2>2. stoneEnergy' = StoredAfter(d)
      BY <1>1, <1>3 DEF DoneTo
    <2>3. QED
      BY <1>4, <2>1, <2>2
  <1>7. Phase(u)'
    BY <1>1, <1>5, <1>6 DEF Phase
  <1>8. QED
    BY <1>1, <1>7, QuietGoesOn

LEMMA QuietDelete ==
    ASSUME Typed, QuietInv, ~disturbed, NEW u \in Uploads, DeleteUsed(u)
    PROVE  QuietInv'
  <1>1. /\ stage[u] = "deleting" /\ stage[u] # "idle" /\ stage'[u] = "updating" /\ stage'[u] # "idle"
        /\ stage' = [stage EXCEPT ![u] = stage'[u]] /\ stage \in [Uploads -> Stages]
        /\ stoneEnergy' = {row \in stoneEnergy : row.id \notin work[u].used}
        /\ UNCHANGED <<trace, sent, inOrder, lastId, stoneEnergyProcessed, energyData, work>>
    BY DEF DeleteUsed, Typed
  <1>2. Phase(u)
    BY DEF QuietInv
  <1>3. PICK d \in 1..sent, e \in 1..sent :
            stoneEnergy = StoredAfter(d) /\ stoneEnergyProcessed = InOneGo(e).samples /\ Doing(u, d, e)
    BY <1>1, <1>2 DEF Phase
  <1>4. /\ sent \in Nat /\ Len(trace) \in Nat /\ sent <= Len(trace) /\ d \in Nat /\ e \in Nat
        /\ d \in 1..Len(trace) /\ e \in 1..Len(trace) /\ 1 <= Len(trace)
    BY TraceTimes
  <1>5. work[u].used = d..(e - 1) /\ d < e
    BY <1>3 DEF Doing
  <1>6. stoneEnergy = {InOneGo(d).row} \cup {Measured(i) : i \in (d + 1)..sent}
    BY <1>3 DEF StoredAfter
  <1>7. InOneGo(d).row.id = d
    BY <1>4, OneGoSteps
  <1>8. \A i \in (d + 1)..sent : Measured(i).id = i
    <2>1. \A i \in (d + 1)..sent : i \in 1..Len(trace)
      BY <1>4
    <2>2. QED
      BY <2>1, MeasuredRows
  <1>9. stoneEnergy' = {Measured(i) : i \in e..sent}
    <2>1. d \in d..(e - 1)
      BY <1>4, <1>5
    <2>2. \A i \in (d + 1)..sent : i \notin d..(e - 1) <=> i \in e..sent
      BY <1>4, <1>5
    <2>3. \A i \in e..sent : i \in (d + 1)..sent
      BY <1>4, <1>5
    <2>4. \A row \in stoneEnergy' : \E i \in e..sent : row = Measured(i)
      BY <1>1, <1>5, <1>6, <1>7, <1>8, <2>1, <2>2
    <2>5. \A i \in e..sent : Measured(i) \in stoneEnergy'
      BY <1>1, <1>5, <1>6, <1>8, <2>2, <2>3
    <2>6. QED
      BY <2>4, <2>5
  <1>10. Doing(u, d, e)'
    BY <1>1, <1>3, SameDoing
  <1>11. (stoneEnergy = {Measured(i) : i \in e..sent} /\ stoneEnergyProcessed = InOneGo(e).samples)'
    BY <1>1, <1>3, <1>9, SameTrace
  <1>12. Phase(u)'
    BY <1>1, <1>10, <1>11 DEF Phase
  <1>13. QED
    BY <1>1, <1>12, QuietGoesOn

LEMMA QuietUpdate ==
    ASSUME Typed, QuietInv, ~disturbed, NEW u \in Uploads, UpdateLast(u)
    PROVE  QuietInv'
  <1>1. /\ stage[u] = "updating" /\ stage[u] # "idle"
        /\ stoneEnergy' = Kept(work[u].last)
        /\ IF \E row \in stoneEnergy : row.id = work[u].last.id THEN EndIteration(u) ELSE EndCall(u)
        /\ UNCHANGED <<trace, sent, inOrder, lastId, stoneEnergyProcessed>>
    BY DEF UpdateLast
  <1>2. Phase(u)
    BY DEF QuietInv
  <1>3. PICK d \in 1..sent, e \in 1..sent :
            /\ stoneEnergy = {Measured(i) : i \in e..sent} /\ stoneEnergyProcessed = InOneGo(e).samples
            /\ Doing(u, d, e)
    BY <1>1, <1>2 DEF Phase
  <1>4. /\ sent \in Nat /\ Len(trace) \in Nat /\ sent <= Len(trace) /\ d \in Nat /\ e \in Nat
        /\ e \in 1..Len(trace) /\ 1 <= Len(trace) /\ e \in e..sent
    BY TraceTimes
  <1> DEFINE last == InOneGo(e).row
  <1>5. work[u].last = last /\ last.id = e
    BY <1>3, <1>4, OneGoSteps DEF Doing
  <1>6. \A i \in e..sent : Measured(i).id = i
    <2>1. \A i \in e..sent : i \in 1..Len(trace)
      BY <1>4
    <2>2. QED
      BY <2>1, MeasuredRows
  <1>7. stoneEnergy' = {last} \cup {Measured(i) : i \in (e + 1)..sent}
    <2>1. stoneEnergy' = {IF row.id = e THEN last ELSE row : row \in stoneEnergy}
      BY <1>1, <1>5 DEF Kept
    <2> HIDE DEF last
    <2>2. \A i \in e..sent : i = e \/ i \in (e + 1)..sent
      BY <1>4
    <2>3. \A i \in (e + 1)..sent : i \in e..sent /\ i # e
      BY <1>4
    <2>4. ASSUME NEW row \in stoneEnergy' PROVE row = last \/ \E i \in (e + 1)..sent : row = Measured(i)
      BY <1>3, <1>6, <2>1, <2>2
    <2>5. last \in stoneEnergy'
      <3>1. Measured(e) \in stoneEnergy /\ Measured(e).id = e
        BY <1>3, <1>4, <1>6
      <3>2. QED
        BY <2>1, <3>1
    <2>6. ASSUME NEW i \in (e + 1)..sent PROVE Measured(i) \in stoneEnergy'
      <3>1. Measured(i) \in stoneEnergy /\ Measured(i).id # e
        BY <1>3, <1>6, <2>3
      <3>2. QED
        BY <2>1, <3>1
    <2>7. QED
      BY <2>4, <2>5, <2>6
  <1>8. DoneTo(e)'
    BY <1>1, <1>3, <1>7, SameTrace DEF DoneTo, StoredAfter
  <1>9. Ended(u) /\ stage'[u] = IF Len(energyData[u]) = Limit THEN "reading" ELSE "idle"
    <2>1. \E row \in stoneEnergy : row.id = work[u].last.id
      BY <1>3, <1>4, <1>5, <1>6
    <2>2. EndIteration(u)
      BY <1>1, <2>1
    <2>3. QED
      BY <2>2, Endings DEF EndIteration, Typed
  <1>10. (\E m \in 1..sent : DoneTo(m))'
    BY <1>1, <1>8
  <1>11. ASSUME stage'[u] = "idle" PROVE Settled'
    <2>1. e = sent
      BY <1>3, <1>9, <1>11 DEF Doing, OnPage
    <2>2. QED
      BY <1>1, <1>8, <2>1 DEF Settled
  <1>12. QED
    BY <1>1, <1>9, <1>10, <1>11, QuietEnd

LEMMA StepKeepsQuiet ==
    ASSUME Inv, QuietInv, [Next]_vars
    PROVE  QuietInv'
  <1> SUFFICES ASSUME ~disturbed' PROVE QuietInv'
    BY DEF QuietInv
  <1>1. Typed
    BY DEF Inv
  <1>2. ASSUME NEW u \in Uploads, NEW from \in 1..(Len(trace) + 1), NEW to \in 0..Len(trace),
               collectEnergyUsage(u, from, to)
        PROVE  QuietInv'
    BY <1>1, <1>2, QuietCollect
  <1>3. ASSUME NEW u \in Uploads, ProcessStep(u) PROVE QuietInv'
    <2>1. CASE ReadUnchecked(u)
      <3>1. ~disturbed
        BY <2>1 DEF ReadUnchecked
      <3>2. QED
        BY <1>1, <2>1, <3>1, QuietRead
    <2>2. CASE FindLastChecked(u)
      <3>1. ~disturbed
        BY <2>2 DEF FindLastChecked
      <3>2. QED
        BY <1>1, <2>2, <3>1, QuietFind
    <2>3. CASE CreateSamples(u)
      <3>1. ~disturbed
        BY <2>3 DEF CreateSamples
      <3>2. QED
        BY <1>1, <2>3, <3>1, QuietCreate
    <2>4. CASE DeleteUsed(u)
      <3>1. ~disturbed
        BY <2>4 DEF DeleteUsed
      <3>2. QED
        BY <1>1, <2>4, <3>1, QuietDelete
    <2>5. CASE UpdateLast(u)
      <3>1. ~disturbed
        BY <2>5 DEF UpdateLast
      <3>2. QED
        BY <1>1, <2>5, <3>1, QuietUpdate
    <2>6. QED
      BY <1>3, <2>1, <2>2, <2>3, <2>4, <2>5 DEF ProcessStep
  <1>4. ASSUME NEW u \in Uploads, Interrupt(u) PROVE QuietInv'
    BY <1>4 DEF Interrupt
  <1>5. CASE UNCHANGED vars
    <2>1. /\ UNCHANGED <<trace, sent, inOrder, lastId, stoneEnergy, stoneEnergyProcessed, stage, energyData, work, disturbed>>
      BY <1>5 DEF vars
    <2>2. /\ lastId = sent
          /\ \A u, v \in Running : u = v
          /\ Running = {} => Settled
          /\ \A u \in Uploads : Phase(u)
      BY <2>1 DEF QuietInv
    <2>3. Running' = Running
      BY <2>1 DEF Running
    <2>4. \A d : DoneTo(d)' = DoneTo(d) /\ \A i : InOneGo(i)' = InOneGo(i)
      BY <2>1, SameTrace DEF DoneTo, StoredAfter
    <2>5. Settled => Settled'
      BY <2>1, <2>4 DEF Settled, Empty
    <2>6. \A u \in Uploads : \A d, e : /\ OnPage(u, d, e)' <=> OnPage(u, d, e)
                                       /\ Doing(u, d, e)' <=> Doing(u, d, e)
                                       /\ StoredAfter(d)' = StoredAfter(d)
      BY <2>1, SameDoing
    <2>7. \A u \in Uploads : Phase(u)'
      BY <2>1, <2>2, <2>4, <2>6, SameTrace DEF Phase, Empty
    <2>8. QED
      BY <2>1, <2>2, <2>3, <2>5, <2>7 DEF QuietInv
  <1>6. QED
    BY <1>2, <1>3, <1>4, <1>5 DEF Next

LEMMA InitQuiet ==
    ASSUME Init
    PROVE  QuietInv
  <1>1. lastId = sent /\ Empty /\ \A u \in Uploads : stage[u] = "idle"
    BY DEF Init, Empty
  <1>2. QED
    BY <1>1 DEF QuietInv, Running, Settled, Phase

LEMMA SettledIsOneGo ==
    ASSUME Typed, QuietInv
    PROVE  BatchesDontMatter
  <1> SUFFICES ASSUME ~disturbed, Running = {}
               PROVE  stoneEnergyProcessed =
                          IF sent < 2 THEN <<>> ELSE ProcessRows(Head(AllRows), Tail(AllRows)).samples
    BY DEF BatchesDontMatter
  <1>1. Settled
    BY DEF QuietInv
  <1>2. sent \in Nat /\ Len(trace) \in Nat /\ sent <= Len(trace)
    BY TraceTimes
  <1>3. CASE Empty
    BY <1>3 DEF Empty
  <1>4. CASE ~Empty
    <2>1. PICK d \in 1..sent : DoneTo(d) /\ InOneGo(sent).samples = InOneGo(d).samples
      BY <1>1, <1>4 DEF Settled
    <2>2. 1 <= Len(trace) /\ sent >= 1 /\ 1 \in 1..Len(trace)
      BY <1>2
    <2>3. stoneEnergyProcessed = InOneGo(sent).samples
      BY <2>1 DEF DoneTo
    <2>4. InOneGo(1).row = Measured(1) /\ InOneGo(1).samples = <<>>
      BY <2>2, OneGoSteps
    <2>5. CASE sent < 2
      <3>1. sent = 1
        BY <1>2, <2>2, <2>5
      <3>2. QED
        BY <2>3, <2>4, <2>5, <3>1
    <2>6. CASE ~(sent < 2)
      <3> DEFINE rows == AllRows
                 rest == Tail(rows)
      <3>1. rows \in Seq(Rows) /\ Len(rows) = sent /\ \A i \in 1..sent : rows[i] = Measured(i)
        <4>1. rows = [i \in 1..sent |-> Measured(i)]
          BY DEF AllRows, Measured
        <4>2. \A i \in 1..sent : i \in 1..Len(trace)
          BY <1>2
        <4>3. \A i \in 1..sent : Measured(i) \in Rows
          BY <4>2, MeasuredRows
        <4> HIDE DEF rows
        <4>4. rows \in [1..sent -> Rows]
          BY <4>1, <4>3
        <4>5. rows \in Seq(Rows)
          BY <1>2, <4>4
        <4>6. QED
          BY <1>2, <4>1, <4>5
      <3> HIDE DEF rows
      <3>2. /\ rest \in Seq(Rows) /\ Len(rest) = sent - 1 /\ Head(rows) = rows[1]
            /\ \A k \in 1..Len(rest) : rest[k] = rows[k+1]
        BY <1>2, <2>6, <3>1
      <3> HIDE DEF rest
      <3>3. \A k \in 1..Len(rest) : rest[k] = Measured(1 + k)
        <4>1. \A k \in 1..Len(rest) : k + 1 \in 1..sent /\ k + 1 = 1 + k
          BY <1>2, <3>2
        <4>2. QED
          BY <3>1, <3>2, <4>1
      <3>4. 1 + Len(rest) = sent /\ 1 + Len(rest) <= Len(trace)
        BY <1>2, <3>2
      <3>5. /\ ProcessRows(Measured(1), rest).samples \in Seq(Samples)
            /\ InOneGo(sent).samples = <<>> \o ProcessRows(Measured(1), rest).samples
        <4>1. /\ ProcessRows(InOneGo(1).row, rest).samples \in Seq(Samples)
              /\ InOneGo(1 + Len(rest)).samples = InOneGo(1).samples \o ProcessRows(InOneGo(1).row, rest).samples
          BY <2>2, <3>2, <3>3, <3>4, GoesOn
        <4>2. QED
          BY <2>4, <3>4, <4>1
      <3>6. InOneGo(sent).samples = ProcessRows(Measured(1), rest).samples
        BY <3>5, SamplesAssociate
      <3>7. Head(rows) = Measured(1)
        BY <1>2, <2>2, <3>1, <3>2
      <3>8. QED
        BY <2>3, <2>6, <3>6, <3>7 DEF rows, rest
    <2>7. QED
      BY <2>5, <2>6
  <1>5. QED
    BY <1>3, <1>4

\* How the hub cuts its measurements into calls does not matter, whatever it measures and
\* whatever the size of a page: calls that follow one another store the samples that one
\* call with all of the points would have stored (processMeasurements of EnergyProcessor.ts).
THEOREM BatchesAreOne == Spec => []BatchesDontMatter
  <1>1. Init => Inv /\ QuietInv
    BY InitInv, InitQuiet
  <1>2. Inv /\ QuietInv /\ [Next]_vars => (Inv /\ QuietInv)'
    BY StepKeepsInv, StepKeepsQuiet
  <1>3. Inv /\ QuietInv => BatchesDontMatter
    BY SettledIsOneGo DEF Inv
  <1>4. QED
    BY <1>1, <1>2, <1>3, PTL DEF Spec

-----------------------------------------------------------------------------
(* The order of the samples.                                               *)

\* Math.round of D * x / T.
Share(x, T, D) == (2 * x * D + T) \div (2 * T)

LEMMA Quotient ==
    ASSUME NEW a \in Int, NEW b \in Int, a <= b, NEW m \in Nat \ {0}
    PROVE  /\ a \div m \in Int
           /\ \A n \in Int : n * m <= a => n <= a \div m
           /\ \A n \in Int : a < n * m + m => a \div m <= n
           /\ a \div m <= b \div m
  <1>1. a \div m \in Int /\ \A n \in Int : n * m <= a => n <= a \div m
    OBVIOUS
  <1>2. \A n \in Int : a < n * m + m => a \div m <= n
    OBVIOUS
  <1>3. a \div m <= b \div m
    OBVIOUS
  <1>4. QED
    BY <1>1, <1>2, <1>3

LEMMA Product ==
    ASSUME NEW a \in Nat, NEW b \in Nat, NEW c \in Nat, a <= b
    PROVE  a * c \in Nat /\ a * c <= b * c
  OBVIOUS

LEMMA ShareGrows ==
    ASSUME NEW T \in Nat \ {0}, NEW D \in Nat, NEW x \in Nat, NEW y \in Nat, x <= y, y <= T
    PROVE  /\ Share(x, T, D) \in Int /\ 0 <= Share(x, T, D) /\ Share(x, T, D) <= D
           /\ Share(x, T, D) <= Share(y, T, D)
  <1> DEFINE up(n) == 2 * (n * D) + T
  <1>1. 2 * T \in Nat \ {0} /\ x <= T
    OBVIOUS
  <1>2. /\ x * D \in Nat /\ y * D \in Nat /\ T * D \in Nat
        /\ x * D <= y * D /\ x * D <= T * D
    BY <1>1, Product
  <1>3. Share(x, T, D) = up(x) \div (2 * T) /\ Share(y, T, D) = up(y) \div (2 * T)
    <2>1. \A n \in Nat : 2 * n * D = 2 * (n * D)
      OBVIOUS
    <2>2. QED
      BY <2>1 DEF Share
  <1>4. up(x) \in Int /\ up(y) \in Int /\ 0 <= up(x) /\ up(x) <= up(y) /\ up(x) <= 2 * (T * D) + T
    BY <1>2
  <1>5. 0 * (2 * T) <= up(x) /\ up(x) < D * (2 * T) + 2 * T
    <2>1. D * (2 * T) = 2 * (T * D) /\ 0 * (2 * T) = 0
      OBVIOUS
    <2> HIDE DEF up
    <2>2. QED
      BY <1>2, <1>4, <2>1
  <1> HIDE DEF up
  <1>6. QED
    BY <1>1, <1>3, <1>4, <1>5, Quotient

LEMMA CorrectedGrows ==
    ASSUME NEW prev \in Rows, NEW next \in Rows
    PROVE  Corrected(prev, next) \in Int /\ prev.corrected <= Corrected(prev, next)
  <1> DEFINE offset == prev.corrected - prev.e
             value == IF next.e * 10 < prev.e * 9 THEN next.e + prev.corrected ELSE next.e + offset
  <1>1. value \in Int /\ prev.corrected \in Int
    BY DEF Rows
  <1>2. Corrected(prev, next) = Max({value, prev.corrected})
    BY DEF Corrected
  <1> HIDE DEF value
  <1>3. \E x \in {value, prev.corrected} : \A y \in {value, prev.corrected} : x >= y
    BY <1>1
  <1>4. Max({value, prev.corrected}) >= prev.corrected /\ Max({value, prev.corrected}) \in {value, prev.corrected}
    BY <1>3 DEF Max
  <1>5. QED
    BY <1>1, <1>2, <1>4

InOrder(samples) ==
    \A j, k \in DOMAIN samples : j < k => samples[j].t < samples[k].t /\ samples[j].e <= samples[k].e

LEMMA InterpolatedInOrder ==
    ASSUME NEW prev \in Rows, NEW next \in Rows, prev.t < next.t
    PROVE  LET samples == Interpolated(prev, next)
           IN  /\ InOrder(samples)
               /\ \A k \in DOMAIN samples :
                     /\ samples[k].interval = "5m"
                     /\ prev.t < samples[k].t /\ samples[k].t <= next.t
                     /\ prev.corrected <= samples[k].e /\ samples[k].e <= Corrected(prev, next)
               /\ samples = <<>> => next.t # SamplePoint(next.t)
  <1> DEFINE D == Corrected(prev, next) - prev.corrected
             T == next.t - prev.t
             n == ElapsedSamplePoints(prev, next)
             at(j) == SamplePoint(prev.t) + j * Slot
             samples == Interpolated(prev, next)
             a == prev.t \div Slot
             b == next.t \div Slot
  <1>1. /\ prev.t \in Nat /\ next.t \in Nat /\ prev.corrected \in Int /\ D \in Nat /\ T \in Nat \ {0}
        /\ Slot \in Nat \ {0} /\ Corrected(prev, next) = prev.corrected + D
    BY CorrectedGrows, EnergyRulesAssumption DEF Rows
  <1>2. /\ a \in Nat /\ a * Slot <= prev.t /\ prev.t < a * Slot + Slot
        /\ b \in Nat /\ b * Slot <= next.t /\ next.t < b * Slot + Slot
        /\ SamplePoint(prev.t) = a * Slot /\ SamplePoint(next.t) = b * Slot
    BY <1>1, SlotOf DEF SamplePoint
  <1>3. n = b - a
    BY SlotsBetween
  <1>4. samples = [j \in 1..n |-> Sample(at(j), prev.corrected + Share(at(j) - prev.t, T, D), "5m")]
    BY DEF Interpolated, Share
  <1> HIDE DEF samples, a, b, n, D, T
  <1>5. \A j \in 1..n : /\ samples[j].t = at(j) /\ samples[j].interval = "5m"
                        /\ samples[j].e = prev.corrected + Share(at(j) - prev.t, T, D)
    BY <1>4 DEF Sample
  <1>6. DOMAIN samples = 1..n
    BY <1>4
  <1>7. ASSUME NEW j \in 1..n
        PROVE  /\ at(j) \in Nat /\ prev.t < at(j) /\ at(j) <= next.t
               /\ at(j) - prev.t \in Nat /\ at(j) - prev.t <= T
    <2>1. j \in Nat /\ 1 <= j /\ a + j <= b
      BY <1>2, <1>3
    <2>2. at(j) = (a + j) * Slot
      BY <1>1, <1>2, <2>1
    <2>3. 1 * Slot <= j * Slot /\ j * Slot \in Nat /\ (a + j) * Slot <= b * Slot
      BY <1>1, <1>2, <2>1, Product
    <2>4. QED
      BY <1>1, <1>2, <2>2, <2>3 DEF T
  <1>8. ASSUME NEW j \in 1..n, NEW k \in 1..n, j < k
        PROVE  at(j) < at(k)
    <2>1. j \in Nat /\ k \in Nat /\ j + 1 <= k
      BY <1>2, <1>3, <1>8
    <2>2. (j + 1) * Slot <= k * Slot /\ (j + 1) * Slot = j * Slot + Slot /\ j * Slot \in Nat /\ k * Slot \in Nat
      BY <1>1, <2>1, Product
    <2>3. a * Slot \in Nat
      BY <1>1, <1>2
    <2>4. QED
      BY <1>1, <1>2, <2>2, <2>3
  <1> HIDE DEF at
  <1>9. ASSUME NEW k \in 1..n
        PROVE  /\ samples[k].interval = "5m"
               /\ prev.t < samples[k].t /\ samples[k].t <= next.t
               /\ prev.corrected <= samples[k].e /\ samples[k].e <= Corrected(prev, next)
    <2> DEFINE s == Share(at(k) - prev.t, T, D)
    <2>1. s \in Int /\ 0 <= s /\ s <= D
      <3> DEFINE x == at(k) - prev.t
      <3>1. x \in Nat /\ x <= x /\ x <= T
        BY <1>7
      <3> HIDE DEF x
      <3>2. Share(x, T, D) \in Int /\ 0 <= Share(x, T, D) /\ Share(x, T, D) <= D
        BY <1>1, <3>1, ShareGrows
      <3>3. QED
        BY <3>2 DEF x
    <2>2. samples[k].e = prev.corrected + s
      BY <1>5
    <2> HIDE DEF s
    <2>3. prev.corrected <= samples[k].e /\ samples[k].e <= Corrected(prev, next)
      BY <1>1, <2>1, <2>2
    <2>4. QED
      BY <1>5, <1>7, <2>3
  <1>10. ASSUME NEW j \in 1..n, NEW k \in 1..n, j < k
         PROVE  samples[j].t < samples[k].t /\ samples[j].e <= samples[k].e
    <2> DEFINE s == Share(at(j) - prev.t, T, D)
               r == Share(at(k) - prev.t, T, D)
    <2>1. at(j) - prev.t <= at(k) - prev.t
      BY <1>1, <1>7, <1>8, <1>10
    <2>2. s \in Int /\ s <= r /\ r \in Int
      <3> DEFINE x == at(j) - prev.t
                 y == at(k) - prev.t
      <3>1. x \in Nat /\ y \in Nat /\ x <= y /\ x <= T /\ y <= T /\ y <= y
        BY <1>7, <2>1
      <3> HIDE DEF x, y
      <3>2. Share(x, T, D) \in Int /\ Share(x, T, D) <= Share(y, T, D) /\ Share(y, T, D) \in Int
        BY <1>1, <3>1, ShareGrows
      <3>3. QED
        BY <3>2 DEF x, y
    <2>3. samples[j].e = prev.corrected + s /\ samples[k].e = prev.corrected + r
      BY <1>5
    <2> HIDE DEF s, r
    <2>4. samples[j].e <= samples[k].e
      BY <1>1, <2>2, <2>3
    <2>5. QED
      BY <1>5, <1>8, <1>10, <2>4
  <1>11. ASSUME samples = <<>> PROVE next.t # SamplePoint(next.t)
    <2>1. 1 \notin 1..n
      BY <1>6, <1>11
    <2>2. b <= a
      BY <1>2, <1>3, <2>1
    <2>3. b * Slot <= a * Slot /\ a * Slot \in Nat /\ b * Slot \in Nat
      BY <1>1, <1>2, <2>2, Product
    <2>4. QED
      BY <1>1, <1>2, <2>3
  <1>12. InOrder(samples)
    BY <1>6, <1>10 DEF InOrder
  <1>13. QED
    BY <1>6, <1>9, <1>11, <1>12 DEF samples

\* What a pair adds comes after the samples there are, which lie at or before prev, and in
\* order.
LEMMA DataPairInOrder ==
    ASSUME NEW prev \in Rows, NEW next \in Rows, prev.t < next.t, ~next.processed,
           prev.checked, ~prev.processed => prev.t # SamplePoint(prev.t)
    PROVE  LET pair == DataPair(prev, next)
               made == pair.samples
           IN  /\ pair.row.t = next.t /\ pair.row.checked
               /\ pair.row.corrected = Corrected(prev, next)
               /\ InOrder(made)
               /\ \A k \in DOMAIN made :
                     /\ made[k].interval = "fragment" => made[k].t # SamplePoint(made[k].t)
                     /\ prev.t <= made[k].t /\ made[k].t <= next.t
                     /\ prev.processed => prev.t < made[k].t
                     /\ prev.corrected <= made[k].e /\ made[k].e <= Corrected(prev, next)
               /\ ~pair.row.processed =>
                     /\ next.t # SamplePoint(next.t)
                     /\ \A k \in DOMAIN made : made[k].t < next.t
  <1> DEFINE value   == Corrected(prev, next)
             gap     == ElapsedSamplePoints(prev, next) > INTERPOLATION_THRESHOLD
             onTime  == next.t = SamplePoint(next.t)
             made == IF ~gap THEN Interpolated(prev, next)
                     ELSE IF onTime THEN <<Sample(next.t, value, "5m")>>
                     ELSE IF ~prev.processed THEN <<Sample(prev.t, prev.corrected, "fragment")>>
                     ELSE <<>>
             used    == IF gap THEN onTime ELSE made # <<>>
  <1>1. /\ DataPair(prev, next).samples = made
        /\ DataPair(prev, next).row = [next EXCEPT !.corrected = value, !.checked = TRUE,
                                                   !.processed = next.processed \/ used]
    BY DEF DataPair
  <1>2. /\ prev.t \in Nat /\ next.t \in Nat /\ prev.corrected \in Int
        /\ value \in Int /\ prev.corrected <= value
    BY CorrectedGrows DEF Rows
  <1>3. /\ DataPair(prev, next).row.t = next.t /\ DataPair(prev, next).row.checked
        /\ DataPair(prev, next).row.corrected = value
        /\ ~DataPair(prev, next).row.processed => ~used
    <2> HIDE DEF used, value
    <2>1. QED
      BY <1>1 DEF Rows
  <1>4. CASE ~gap
    <2>1. made = Interpolated(prev, next) /\ (~used => made = <<>>)
      BY <1>4
    <2> HIDE DEF made, used, value
    <2>2. /\ InOrder(made)
          /\ \A k \in DOMAIN made :
                /\ made[k].interval = "5m"
                /\ prev.t < made[k].t /\ made[k].t <= next.t
                /\ prev.corrected <= made[k].e /\ made[k].e <= value
          /\ made = <<>> => next.t # SamplePoint(next.t)
      BY <2>1, InterpolatedInOrder DEF value
    <2>3. \A k \in DOMAIN made : made[k].interval # "fragment" /\ prev.t <= made[k].t
      <3>1. ASSUME NEW k \in DOMAIN made PROVE prev.t <= made[k].t
        <4>1. made \in Seq(Samples)
          BY <2>1, InterpolatedSamples
        <4>2. made[k].t \in Nat
          <5>1. made[k] \in Samples
            BY <4>1
          <5>2. QED
            BY <5>1 DEF Samples
        <4>3. QED
          BY <1>2, <2>2, <4>2
      <3>2. QED
        BY <2>2, <3>1
    <2>4. ~used => next.t # SamplePoint(next.t) /\ DOMAIN made = {}
      BY <2>1, <2>2
    <2>5. QED
      BY <1>1, <1>3, <2>2, <2>3, <2>4 DEF value
  <1>5. CASE gap /\ onTime
    <2>1. made = <<Sample(next.t, value, "5m")>> /\ used
      BY <1>5
    <2> HIDE DEF made, used, value
    <2>2. DOMAIN made = {1} /\ made[1].t = next.t /\ made[1].e = value /\ made[1].interval = "5m"
      BY <2>1 DEF Sample
    <2>3. InOrder(made)
      BY <2>2 DEF InOrder
    <2>4. QED
      BY <1>1, <1>2, <1>3, <2>1, <2>2, <2>3 DEF value
  <1>6. CASE gap /\ ~onTime /\ ~prev.processed
    <2>1. made = <<Sample(prev.t, prev.corrected, "fragment")>> /\ next.t # SamplePoint(next.t)
      BY <1>6
    <2> HIDE DEF made, used, value
    <2>2. DOMAIN made = {1} /\ made[1].t = prev.t /\ made[1].e = prev.corrected
      BY <2>1 DEF Sample
    <2>3. InOrder(made)
      BY <2>2 DEF InOrder
    <2>4. QED
      BY <1>1, <1>2, <1>3, <1>6, <2>1, <2>2, <2>3 DEF value
  <1>7. CASE gap /\ ~onTime /\ prev.processed
    <2>1. made = <<>> /\ next.t # SamplePoint(next.t)
      BY <1>7
    <2> HIDE DEF made, used, value
    <2>2. DOMAIN made = {}
      BY <2>1
    <2>3. InOrder(made)
      BY <2>2 DEF InOrder
    <2>4. QED
      BY <1>1, <1>3, <2>1, <2>2, <2>3 DEF value
  <1>8. QED
    BY <1>4, <1>5, <1>6, <1>7

\* The first measurement gives a sample, or it is not on time.
LEMMA FirstInOrder ==
    ASSUME NEW done, done.row \in Rows, done.samples \in Seq(Samples), Sorted(done),
           NEW first, first = IF done.row.checked THEN [row |-> done.row, samples |-> <<>>]
                              ELSE SinglePoint(done.row)
    PROVE  /\ Sorted([row |-> first.row, samples |-> done.samples \o first.samples])
           /\ first.row.checked /\ first.row.t = done.row.t
  <1>1. CASE done.row.checked
    <2>1. first.row = done.row /\ first.samples = <<>>
      BY <1>1
    <2>2. done.samples \o <<>> = done.samples
      BY SamplesAssociate
    <2>3. QED
      BY <1>1, <2>1, <2>2 DEF Sorted
  <1>2. CASE ~done.row.checked
    <2> DEFINE row == done.row
               onTime == row.t = SamplePoint(row.t)
               kept == [row EXCEPT !.corrected = row.e, !.checked = TRUE, !.processed = row.processed \/ onTime]
               samples == IF onTime THEN <<Sample(row.t, row.e, "5m")>> ELSE <<>>
    <2>1. first.row = kept /\ first.samples = samples
      BY <1>2 DEF SinglePoint
    <2>2. samples \in Seq(Samples)
      BY <2>1, SinglePointKeeps, <1>2
    <2>3. done.samples = <<>>
      BY <1>2 DEF Sorted
    <2>4. done.samples \o first.samples = samples
      <3> HIDE DEF samples
      <3>1. <<>> \o samples = samples
        BY <2>2, SamplesAssociate
      <3>2. QED
        BY <2>1, <2>3, <3>1
    <2>5. /\ kept.t = row.t /\ kept.checked /\ kept.corrected = row.e
          /\ ~kept.processed => ~onTime
          /\ row.t \in Nat /\ row.e \in Int
      <3> HIDE DEF onTime
      <3>1. QED
        BY DEF Rows
    <2>6. CASE onTime
      <3>1. samples = <<Sample(row.t, row.e, "5m")>>
        BY <2>6
      <3>2. kept.processed
        BY <2>5, <2>6
      <3> HIDE DEF samples, kept, onTime
      <3>3. DOMAIN samples = {1} /\ samples[1].t = row.t /\ samples[1].e = row.e /\ samples[1].interval = "5m"
        BY <3>1 DEF Sample
      <3>4. Sorted([row |-> kept, samples |-> samples])
        BY <2>5, <3>2, <3>3 DEF Sorted
      <3>5. QED
        BY <2>1, <2>4, <2>5, <3>4
    <2>7. CASE ~onTime
      <3>1. samples = <<>> /\ row.t # SamplePoint(row.t)
        BY <2>7
      <3> HIDE DEF samples, kept, onTime
      <3>2. DOMAIN samples = {}
        BY <3>1
      <3>3. Sorted([row |-> kept, samples |-> samples])
        BY <2>5, <3>1, <3>2 DEF Sorted
      <3>4. QED
        BY <2>1, <2>4, <2>5, <3>3
    <2>8. QED
      BY <2>6, <2>7
  <1>3. QED
    BY <1>1, <1>2

LEMMA JoinedAt ==
    ASSUME NEW first \in Seq(Samples), NEW second \in Seq(Samples)
    PROVE  LET both == first \o second
           IN  /\ DOMAIN both \subseteq Nat
               /\ \A k \in DOMAIN both :
                     \/ k \in DOMAIN first /\ both[k] = first[k] /\ k <= Len(first)
                     \/ k - Len(first) \in DOMAIN second /\ both[k] = second[k - Len(first)] /\ k > Len(first)
               /\ \A k \in DOMAIN first : k \in Nat /\ first[k].t \in Nat /\ first[k].e \in Int
               /\ \A k \in DOMAIN second : k \in Nat /\ second[k].t \in Nat /\ second[k].e \in Int
               /\ Len(first) \in Nat
  <1> DEFINE both == first \o second
  <1>1. /\ Len(first) \in Nat /\ Len(second) \in Nat
        /\ DOMAIN first = 1..Len(first) /\ DOMAIN second = 1..Len(second)
        /\ DOMAIN both = 1..(Len(first) + Len(second))
    OBVIOUS
  <1>2. /\ \A k \in 1..Len(first) : both[k] = first[k]
        /\ \A k \in 1..Len(second) : both[Len(first) + k] = second[k]
    OBVIOUS
  <1> HIDE DEF both
  <1>3. ASSUME NEW k \in DOMAIN both
        PROVE  \/ k \in DOMAIN first /\ both[k] = first[k] /\ k <= Len(first)
               \/ k - Len(first) \in DOMAIN second /\ both[k] = second[k - Len(first)] /\ k > Len(first)
    <2>1. CASE k <= Len(first)
      BY <1>1, <1>2, <2>1
    <2>2. CASE k > Len(first)
      <3>1. k - Len(first) \in 1..Len(second) /\ Len(first) + (k - Len(first)) = k
        BY <1>1, <2>2
      <3>2. QED
        BY <1>1, <1>2, <2>2, <3>1
    <2>3. QED
      BY <1>1, <2>1, <2>2
  <1>4. \A k \in DOMAIN first : first[k] \in Samples
    OBVIOUS
  <1>5. \A k \in DOMAIN second : second[k] \in Samples
    OBVIOUS
  <1>6. /\ \A k \in DOMAIN first : k \in Nat /\ first[k].t \in Nat /\ first[k].e \in Int
        /\ \A k \in DOMAIN second : k \in Nat /\ second[k].t \in Nat /\ second[k].e \in Int
    BY <1>1, <1>4, <1>5 DEF Samples
  <1>7. QED
    BY <1>1, <1>3, <1>6 DEF both

LEMMA SortedGoesOn ==
    ASSUME NEW done, done.row \in Rows, done.samples \in Seq(Samples), Sorted(done),
           NEW next \in Rows, done.row.t < next.t, ~next.processed
    PROVE  Sorted(processPair(done, next))
  <1> DEFINE first == IF done.row.checked THEN [row |-> done.row, samples |-> <<>>]
                      ELSE SinglePoint(done.row)
             second == DataPair(first.row, next)
             early == done.samples \o first.samples
  <1>1. /\ processPair(done, next).row = second.row
        /\ processPair(done, next).samples = early \o second.samples
    BY DEF processPair
  <1>2. first.row \in Rows /\ first.samples \in Seq(Samples)
    BY SinglePointKeeps
  <1>3. /\ Sorted([row |-> first.row, samples |-> early])
        /\ first.row.checked /\ first.row.t = done.row.t
    BY FirstInOrder
  <1> HIDE DEF first
  <1>4. second.samples \in Seq(Samples)
    BY <1>2, DataPairCovers
  <1>5. early \in Seq(Samples)
    BY <1>2, SamplesAssociate
  <1> DEFINE prev == first.row
             made == second.samples
             kept == second.row
             both == early \o made
             value == Corrected(prev, next)
  <1> HIDE DEF early
  <1>6. /\ \A k \in DOMAIN early :
              /\ early[k].t <= prev.t /\ early[k].e <= prev.corrected
              /\ early[k].interval = "fragment" => early[k].t # SamplePoint(early[k].t)
        /\ \A j, k \in DOMAIN early : j < k => early[j].t < early[k].t /\ early[j].e <= early[k].e
        /\ ~prev.processed =>
              /\ prev.t # SamplePoint(prev.t)
              /\ \A k \in DOMAIN early : early[k].t < prev.t
    BY <1>3 DEF Sorted
  <1>7. prev \in Rows /\ prev.t < next.t
    BY <1>2, <1>3
  <1>8. /\ kept.t = next.t /\ kept.checked /\ kept.corrected = value
        /\ InOrder(made)
        /\ \A k \in DOMAIN made :
              /\ made[k].interval = "fragment" => made[k].t # SamplePoint(made[k].t)
              /\ prev.t <= made[k].t /\ made[k].t <= next.t
              /\ prev.processed => prev.t < made[k].t
              /\ prev.corrected <= made[k].e /\ made[k].e <= value
        /\ ~kept.processed => next.t # SamplePoint(next.t) /\ \A k \in DOMAIN made : made[k].t < next.t
    BY <1>3, <1>6, <1>7, DataPairInOrder
  <1>9. /\ prev.t \in Nat /\ next.t \in Nat /\ prev.corrected \in Int
        /\ value \in Int /\ prev.corrected <= value
    BY <1>7, CorrectedGrows DEF Rows
  <1>10. /\ DOMAIN both \subseteq Nat
         /\ \A k \in DOMAIN both :
               \/ k \in DOMAIN early /\ both[k] = early[k] /\ k <= Len(early)
               \/ k - Len(early) \in DOMAIN made /\ both[k] = made[k - Len(early)] /\ k > Len(early)
         /\ \A k \in DOMAIN early : k \in Nat /\ early[k].t \in Nat /\ early[k].e \in Int
         /\ \A k \in DOMAIN made : k \in Nat /\ made[k].t \in Nat /\ made[k].e \in Int
         /\ Len(early) \in Nat
    BY <1>4, <1>5, JoinedAt
  <1> HIDE DEF second, prev, made, kept, both, value
  <1>11. ASSUME NEW k \in DOMAIN both
         PROVE  /\ both[k].t <= kept.t /\ both[k].e <= kept.corrected
                /\ both[k].interval = "fragment" => both[k].t # SamplePoint(both[k].t)
                /\ ~kept.processed => both[k].t < kept.t
    <2>1. CASE k \in DOMAIN early /\ both[k] = early[k]
      <3>1. early[k].t < next.t /\ early[k].e <= value
        BY <1>6, <1>7, <1>9, <1>10, <2>1
      <3>2. early[k].t <= next.t
        BY <1>9, <1>10, <2>1, <3>1
      <3>3. QED
        BY <1>6, <1>8, <2>1, <3>1, <3>2
    <2>2. CASE k - Len(early) \in DOMAIN made /\ both[k] = made[k - Len(early)]
      BY <1>8, <2>2
    <2>3. QED
      BY <1>10, <2>1, <2>2
  <1>12. ASSUME NEW j \in DOMAIN early, NEW k \in DOMAIN made
         PROVE  early[j].t < made[k].t /\ early[j].e <= made[k].e
    <2>1. early[j].e <= made[k].e
      BY <1>6, <1>8, <1>9, <1>10
    <2>2. CASE ~prev.processed
      BY <1>6, <1>8, <1>9, <1>10, <2>2
    <2>3. CASE prev.processed
      BY <1>6, <1>8, <1>9, <1>10, <2>3
    <2>4. QED
      BY <2>1, <2>2, <2>3
  <1>13. ASSUME NEW j \in DOMAIN both, NEW k \in DOMAIN both, j < k
         PROVE  both[j].t < both[k].t /\ both[j].e <= both[k].e
    <2>0. j \in Nat /\ k \in Nat /\ Len(early) \in Nat
      BY <1>10
    <2>1. CASE k <= Len(early)
      <3>1. j <= Len(early)
        BY <1>13, <2>0, <2>1
      <3>2. /\ j \in DOMAIN early /\ both[j] = early[j]
            /\ k \in DOMAIN early /\ both[k] = early[k]
        BY <1>10, <2>0, <2>1, <3>1
      <3>3. QED
        BY <1>6, <1>13, <3>2
    <2>2. CASE k > Len(early) /\ j <= Len(early)
      <3>1. /\ j \in DOMAIN early /\ both[j] = early[j]
            /\ k - Len(early) \in DOMAIN made /\ both[k] = made[k - Len(early)]
        BY <1>10, <2>0, <2>2
      <3>2. QED
        BY <1>12, <3>1
    <2>3. CASE k > Len(early) /\ j > Len(early)
      <3>1. /\ j - Len(early) \in DOMAIN made /\ both[j] = made[j - Len(early)]
            /\ k - Len(early) \in DOMAIN made /\ both[k] = made[k - Len(early)]
            /\ j - Len(early) < k - Len(early)
        BY <1>10, <1>13, <2>0, <2>3
      <3>2. QED
        BY <1>8, <3>1 DEF InOrder
    <2>4. QED
      BY <2>0, <2>1, <2>2, <2>3
  <1>14. ~kept.processed => kept.t # SamplePoint(kept.t)
    BY <1>8
  <1>15. kept.checked
    BY <1>8
  <1>16. Sorted([row |-> kept, samples |-> both])
    BY <1>11, <1>13, <1>14, <1>15 DEF Sorted
  <1>17. processPair(done, next).row = kept /\ processPair(done, next).samples = both
    BY <1>1 DEF kept, both, made
  <1>18. QED
    BY <1>16, <1>17 DEF Sorted

LEMMA OneGoSorted ==
    ASSUME Typed, 1 <= Len(trace)
    PROVE  \A d \in 1..Len(trace) : Sorted(InOneGo(d))
  <1> DEFINE S == {d \in 1..Len(trace) : ~Sorted(InOneGo(d))}
  <1>1. Len(trace) \in Nat /\ 1 \in 1..Len(trace)
    BY TraceTimes
  <1>2. SUFFICES ASSUME S # {} PROVE FALSE
    OBVIOUS
  <1>3. S \subseteq Nat
    BY <1>1
  <1>4. PICK d \in S : \A other \in S : d <= other
    <2> HIDE DEF S
    <2>1. QED
      BY <1>2, <1>3, LeastOf
  <1>5. d \in 1..Len(trace) /\ ~Sorted(InOneGo(d))
    BY <1>4
  <1>6. CASE d = 1
    <2>1. InOneGo(1).row = Measured(1) /\ InOneGo(1).samples = <<>> /\ ~Measured(1).checked
      BY <1>1, OneGoSteps, MeasuredRows
    <2>2. DOMAIN InOneGo(1).samples = {}
      BY <2>1
    <2>3. Sorted(InOneGo(1))
      BY <2>1, <2>2 DEF Sorted
    <2>4. QED
      BY <1>5, <1>6, <2>3
  <1>7. CASE d # 1
    <2>1. d \in 2..Len(trace) /\ d - 1 \in 1..Len(trace) /\ ~(d <= d - 1) /\ d - 1 < d
      BY <1>1, <1>5, <1>7
    <2>2. d - 1 \notin S
      <3> HIDE DEF S
      <3>1. QED
        BY <1>4, <2>1
    <2>3. Sorted(InOneGo(d-1))
      BY <2>1, <2>2
    <2> DEFINE done == InOneGo(d-1)
    <2>4. /\ InOneGo(d) = processPair(done, Measured(d))
          /\ done.row \in Rows /\ done.samples \in Seq(Samples) /\ done.row.t = trace[d-1].t
      BY <2>1, OneGoSteps
    <2>5. /\ Measured(d) \in Rows /\ Measured(d).t = trace[d].t /\ ~Measured(d).processed
          /\ trace[d-1].t < trace[d].t
      BY <1>5, <2>1, MeasuredRows, TraceTimes
    <2>6. Sorted(done)
      BY <2>3
    <2> HIDE DEF done
    <2>7. done.row.t < Measured(d).t
      BY <2>4, <2>5
    <2>8. Sorted(processPair(done, Measured(d)))
      BY <2>4, <2>5, <2>6, <2>7, SortedGoesOn
    <2>9. QED
      BY <1>5, <2>4, <2>8
  <1>8. QED
    BY <1>6, <1>7

\* What is stored along a behaviour without disturbance is what one go gives.
LEMMA StoredInOneGo ==
    ASSUME QuietInv, ~disturbed
    PROVE  stoneEnergyProcessed = <<>> \/ \E d \in 1..sent : stoneEnergyProcessed = InOneGo(d).samples
  <1>1. CASE Running = {}
    BY <1>1 DEF QuietInv, Settled, Empty, DoneTo
  <1>2. CASE Running # {}
    <2>1. PICK u \in Uploads : stage[u] # "idle"
      BY <1>2 DEF Running
    <2>2. Phase(u)
      BY DEF QuietInv
    <2>3. QED
      BY <2>1, <2>2 DEF Phase, Empty, DoneTo
  <1>3. QED
    BY <1>1, <1>2

LEMMA QuietInOrder ==
    ASSUME Typed, QuietInv
    PROVE  SamplesInOrder
  <1> DEFINE samples == stoneEnergyProcessed
  <1> SUFFICES ASSUME ~disturbed, NEW i \in DOMAIN samples
               PROVE  /\ samples[i].interval = "fragment" => samples[i].t # SamplePoint(samples[i].t)
                      /\ \A j \in (i + 1)..Len(samples) : samples[i].t < samples[j].t /\ samples[i].e <= samples[j].e
    BY DEF SamplesInOrder
  <1>1. DOMAIN samples = 1..Len(samples) /\ Len(samples) \in Nat
    BY DEF Typed
  <1>2. PICK d \in 1..sent : samples = InOneGo(d).samples
    <2>1. samples # <<>>
      OBVIOUS
    <2>2. QED
      BY <2>1, StoredInOneGo
  <1>3. Sorted(InOneGo(d))
    <2>1. d \in 1..Len(trace) /\ 1 <= Len(trace)
      BY TraceTimes
    <2>2. QED
      BY <2>1, OneGoSorted
  <1> HIDE DEF samples
  <1>4. /\ samples[i].interval = "fragment" => samples[i].t # SamplePoint(samples[i].t)
        /\ \A k \in DOMAIN samples : i < k => samples[i].t < samples[k].t /\ samples[i].e <= samples[k].e
    BY <1>2, <1>3 DEF Sorted
  <1>5. \A j \in (i + 1)..Len(samples) : j \in DOMAIN samples /\ i < j
    BY <1>1
  <1>6. QED
    BY <1>4, <1>5

\* As long as calls follow one another, the samples are stored in order of time, one for a
\* time, the energy does not fall, and a fragment does not lie at a sample point, whatever
\* the counter of the stone shows (processDataPair of EnergyProcessor.ts).
THEOREM SamplesComeInOrder == Spec => []SamplesInOrder
  <1>1. Init => Inv /\ QuietInv
    BY InitInv, InitQuiet
  <1>2. Inv /\ QuietInv /\ [Next]_vars => (Inv /\ QuietInv)'
    BY StepKeepsInv, StepKeepsQuiet
  <1>3. Inv /\ QuietInv => SamplesInOrder
    BY QuietInOrder DEF Inv
  <1>4. QED
    BY <1>1, <1>2, <1>3, PTL DEF Spec

=============================================================================
