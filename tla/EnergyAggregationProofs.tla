----------------------- MODULE EnergyAggregationProofs -----------------------
(***************************************************************************)
(* Proofs about EnergyAggregation, for any stones, samples, intervals and  *)
(* numbers of calls: there is one run at a time; as long as a stone has    *)
(* one metadata row, no point of it is aggregated twice and its energy     *)
(* does not fall; and no sample on a point is left out by a run.  Each     *)
(* part adds to the invariant of the one before it.                        *)
(***************************************************************************)
EXTENDS EnergyAggregation, FiniteSetTheorems, NaturalsInduction, WellFoundedInduction, TLAPS

-----------------------------------------------------------------------------
(* One run at a time.                                                      *)

RunStages == {"idle", "listing", "stones", "pages", "deleting", "ending"}

\* The calls and the flag; typed, so that stage' says which call has moved.
OneRunInv ==
    /\ stage \in [Callers -> RunStages]
    /\ AGGREGATING \in BOOLEAN
    /\ OneRunAtATime

LEMMA OneRunStart == Init => OneRunInv
  BY DEF Init, OneRunInv, OneRunAtATime, RunStages

\* Only AggegateAllSpheres brings a run about, and the flag is down when it does.
LEMMA RunBegins ==
    ASSUME OneRunInv, NEW r \in Callers, AggegateAllSpheres(r)
    PROVE  OneRunInv'
  <1>1. \A q \in Callers : stage[q] = "idle"
    BY DEF AggegateAllSpheres, MayAggregate, OneRunInv, OneRunAtATime
  <1>2. QED
    BY <1>1 DEF AggegateAllSpheres, OneRunInv, OneRunAtATime, RunStages

\* A run that ends puts the flag down; there is no other that would need it.
LEMMA RunEnds ==
    ASSUME OneRunInv, NEW r \in Callers, stage[r] # "idle", EndRun(r)
    PROVE  OneRunInv'
  <1>1. \A q \in Callers \ {r} : stage[q] = "idle"
    BY DEF OneRunInv, OneRunAtATime
  <1>2. QED
    BY <1>1 DEF EndRun, OneRunInv, OneRunAtATime, RunStages

LEMMA RunGoesOn ==
    ASSUME OneRunInv, NEW r \in Callers, stage[r] # "idle", NEW next \in RunStages \ {"idle"},
           stage' = [stage EXCEPT ![r] = next], UNCHANGED AGGREGATING
    PROVE  OneRunInv'
  BY DEF OneRunInv, OneRunAtATime, RunStages

LEMMA OneRunStep == OneRunInv /\ [Next]_vars => OneRunInv'
  <1> SUFFICES ASSUME OneRunInv, [Next]_vars PROVE OneRunInv'
    OBVIOUS
  <1>1. CASE UNCHANGED <<AGGREGATING, stage>>
    BY <1>1 DEF OneRunInv, OneRunAtATime
  <1>2. ASSUME NEW r \in Callers, AggegateAllSpheres(r) PROVE OneRunInv'
    BY <1>2, RunBegins
  <1>3. ASSUME NEW r \in Callers, InterruptRun(r) PROVE OneRunInv'
    BY <1>3, RunEnds DEF InterruptRun
  <1>4. ASSUME NEW r \in Callers, RunStep(r) PROVE OneRunInv'
    <2>1. CASE ListStones(r)
      BY <2>1, RunEnds, RunGoesOn DEF ListStones, RunStages
    <2>2. CASE StoreTime(r)
      BY <2>2, RunEnds DEF StoreTime
    <2>3. CASE \E st \in Stones : FindLastPoint(r, st)
      BY <2>3, RunGoesOn DEF FindLastPoint, RunStages
    <2>4. CASE ReadPage(r)
      <3>1. PICK next \in {"pages", "stones"} : stage' = [stage EXCEPT ![r] = next]
        BY <2>4 DEF ReadPage
      <3>2. QED
        BY <2>4, <3>1, RunGoesOn DEF ReadPage, RunStages
    <2>5. CASE CreateAggregates(r)
      BY <2>5, RunGoesOn DEF CreateAggregates, RunStages
    <2>6. CASE DeleteFragments(r)
      <3>1. PICK next \in {"ending", "stones"} : stage' = [stage EXCEPT ![r] = next]
        BY <2>6 DEF DeleteFragments
      <3>2. QED
        BY <2>6, <3>1, RunGoesOn DEF DeleteFragments, RunStages
    <2>7. QED
      BY <1>4, <2>1, <2>2, <2>3, <2>4, <2>5, <2>6 DEF RunStep
  <1>5. CASE Tick
    BY <1>1, <1>5 DEF Tick, runVars
  <1>6. ASSUME NEW u \in Uploads,
               \/ \E stones \in SUBSET Stones : StoreSamples(u, stones)
               \/ UpdateMetaData(u) \/ FindMissing(u) \/ CreateMissing(u) \/ InterruptUpload(u)
        PROVE  OneRunInv'
    BY <1>1, <1>6 DEF StoreSamples, UpdateMetaData, FindMissing, CreateMissing, InterruptUpload, runVars
  <1>7. ASSUME NEW interval, CollectGarbage(interval) PROVE OneRunInv'
    BY <1>1, <1>7 DEF CollectGarbage, runVars
  <1>8. ASSUME NEW stones, ProcessLeftRows(stones) PROVE OneRunInv'
    BY <1>1, <1>8 DEF ProcessLeftRows, runVars
  <1>9. QED
    BY <1>1, <1>2, <1>3, <1>4, <1>5, <1>6, <1>7, <1>8 DEF Next, vars, runVars

\* AGGREGATING is up exactly while a run goes on: no interleaving of calls starts a second
\* run, and no failed query and no run without stones leaves the flag up.
THEOREM RunsAlone == Spec => []OneRunAtATime
  <1>1. OneRunInv => OneRunAtATime
    BY DEF OneRunInv
  <1>2. QED
    BY <1>1, OneRunStart, OneRunStep, PTL DEF Spec


-----------------------------------------------------------------------------
(* The rows that are stored.                                               *)

\* "there is only one entry per stoneId"
Single(st) == metaData[st] <= 1

Typed ==
    /\ trace \in Traces /\ now \in Nat
    /\ sent \in [Stones -> Nat] /\ metaData \in [Stones -> Nat] /\ DOMAIN run = Callers

IsRow(row) ==
    /\ row = Sample(row.stone, row.t, row.e, row.interval)
    /\ row.stone \in Stones /\ row.t \in 0..now /\ row.e \in Int

\* A row comes from the sampling, or is an aggregate that lies on a point of its level.
Rooted(row) ==
    IF row.interval \in Targets
    THEN \E k \in DOMAIN Intervals : row.interval = Target(k) /\ isOnSamplePoint(k, row.t)
    ELSE \E i \in DOMAIN trace[row.stone] : row = Traced(row.stone, i)

RowsInv == \A row \in Stored : IsRow(row) /\ Rooted(row)

-----------------------------------------------------------------------------
(* What a run has in memory.                                               *)

IsRun(x) ==
    /\ x = [listed |-> x.listed, level |-> x.level, todo |-> x.todo, reading |-> x.reading,
            fromDate |-> x.fromDate, samples |-> x.samples, used |-> x.used]
    /\ x.listed \in [Stones -> Nat] /\ x.todo \in [Stones -> Nat]
    /\ x.level \in DOMAIN Intervals /\ x.reading \in SUBSET Stones /\ x.fromDate \in Nat

\* Per metadata row that was listed, a stone is read once in each level.
RunControl(r) ==
    LET x == run[r]
    IN  /\ IsRun(x)
        /\ stage[r] \in {"idle", "listing"} => x = NoRun
        /\ \A st \in Stones : x.todo[st] <= x.listed[st] /\ x.listed[st] <= metaData[st]
        /\ stage[r] # "pages" => x.reading = {}
        /\ \A st, other \in x.reading : st = other
        /\ stage[r] \notin {"stones", "pages"} => x.samples = EmptyBag

\* The aggregates that are going to be stored are all of this level,
\* one for a time, and later than what is stored.
Pending(r) ==
    LET x == run[r]
    IN  \A row \in BagToSet(x.samples) :
            /\ IsRow(row)
            /\ row.interval = Target(x.level) /\ isOnSamplePoint(x.level, row.t)
            /\ Single(row.stone) =>
                /\ x.samples[row] = 1 /\ x.todo[row.stone] = 0
                /\ \A other \in BagToSet(x.samples) :
                        other.stone = row.stone /\ other.t = row.t => other = row
                /\ \A other \in Stored :
                        other.stone = row.stone /\ other.interval = Target(x.level) => other.t < row.t

\* What the stone at work has of this level, stored or not, is no later than the next page.
Read(r) ==
    LET x == run[r]
    IN  \A st \in x.reading : Single(st) =>
            /\ x.todo[st] = 0
            /\ \A row \in BagToSet(x.samples) : row.stone = st => row.t <= x.fromDate
            /\ \A row \in Stored :
                    row.stone = st /\ row.interval = Target(x.level) => row.t <= x.fromDate

AggregateInv ==
    /\ Typed /\ OneRunInv /\ RowsInv /\ OneAggregatePerPoint
    /\ \A r \in Callers : RunControl(r) /\ Pending(r) /\ Read(r)


-----------------------------------------------------------------------------
(* Numbers.                                                                *)

LEMMA LeastOf ==
    ASSUME NEW S, S # {}, S \subseteq Nat
    PROVE  Min(S) \in S /\ \A n \in S : Min(S) <= n
  <1> DEFINE smaller == {p \in Nat \X Nat : p[1] < p[2]}
  <1>1. IsWellFoundedOn(smaller, Nat)
    BY NatLessThanWellFounded DEF OpToRel
  <1>2. \A m, n \in Nat : <<n, m>> \in smaller <=> n < m
    OBVIOUS
  <1> HIDE DEF smaller
  <1>3. PICK least \in S : \A n \in S : ~(<<n, least>> \in smaller)
    BY <1>1, WFMin
  <1>4. ASSUME NEW n \in S PROVE least <= n
    <2>1. n \in Nat /\ least \in Nat /\ ~(<<n, least>> \in smaller)
      BY <1>3
    <2>2. ~(n < least)
      BY <1>2, <2>1, Zenon
    <2>3. QED
      BY <2>1, <2>2
  <1>5. QED
    BY <1>4 DEF Min

\* The newest of some rows: Max finds it, if they are no later than some moment.
LEMMA GreatestOf ==
    ASSUME NEW S, S # {}, NEW bound \in Nat, S \subseteq -1..bound
    PROVE  Max(S) \in S /\ \A n \in S : n <= Max(S)
  <1> DEFINE T == {bound - n : n \in S}
  <1>1. \A n \in S : n \in Int /\ bound - n \in Nat
    OBVIOUS
  <1>2. T # {} /\ T \subseteq Nat
    BY <1>1
  <1>3. PICK least \in T : \A n \in T : least <= n
    BY <1>2, LeastOf
  <1>4. PICK m \in S : least = bound - m
    OBVIOUS
  <1>5. ASSUME NEW n \in S PROVE n <= m
    <2>1. bound - m <= bound - n
      BY <1>3, <1>4
    <2>2. QED
      BY <1>1, <2>1
  <1>6. QED
    BY <1>5 DEF Max

LEMMA ElementsOf ==
    ASSUME NEW S, NEW seq \in Seq(S)
    PROVE  DOMAIN seq = 1..Len(seq) /\ \A i \in DOMAIN seq : seq[i] \in S
  OBVIOUS

LEMMA EveryIsPositive == \A k \in DOMAIN Intervals : Every(k) \in Nat \ {0}
  <1> DEFINE Levels == [targetInterval : STRING \ {"5m", "fragment"}, basedOnInterval : STRING,
                        every : Nat \ {0}]
  <1>1. \A level \in Levels : level.every \in Nat \ {0}
    OBVIOUS
  <1>2. Intervals \in Seq(Levels)
    BY IntervalsAssumption
  <1> HIDE DEF Levels
  <1>3. QED
    BY <1>1, <1>2, ElementsOf DEF Every

LEMMA Multiples == ASSUME NEW a \in Int, NEW E \in Nat \ {0} PROVE (a * E) % E = 0
  OBVIOUS

\* The point before t is a point, and less than the length of the interval away.
LEMMA PreviousPoint ==
    ASSUME NEW k \in DOMAIN Intervals, NEW t \in Nat
    PROVE  /\ getPreviousSamplePoint(k, t) \in Nat
           /\ getPreviousSamplePoint(k, t) <= t /\ t < getPreviousSamplePoint(k, t) + Every(k)
  <1>1. Every(k) \in Nat \ {0}
    BY EveryIsPositive
  <1>2. QED
    BY <1>1 DEF getPreviousSamplePoint

\* The points that follow it, up to the point before a later time.
LEMMA PointsBetween ==
    ASSUME NEW k \in DOMAIN Intervals, NEW p, NEW q, p.t \in Nat, q.t \in Nat, NEW j \in 1..Elapsed(k, p, q),
           NEW t, t = getPreviousSamplePoint(k, p.t) + j * Every(k)
    PROVE  t \in Nat /\ isOnSamplePoint(k, t) /\ p.t < t /\ t <= q.t
  <1> DEFINE E == Every(k)
             from == getPreviousSamplePoint(k, p.t)
             to == getPreviousSamplePoint(k, q.t)
  <1>1. E \in Nat \ {0}
    BY EveryIsPositive
  <1>2. from \in Nat /\ from <= p.t /\ p.t < from + E /\ to \in Nat /\ to <= q.t
    BY PreviousPoint
  <1>3. PICK a \in Nat : from = a * E
    BY <1>1 DEF getPreviousSamplePoint
  <1> DEFINE n == (to - from) \div E
  <1>4. n \in Int /\ n = Elapsed(k, p, q)
    BY <1>1, <1>2 DEF Elapsed, getNumberOfSamplePointsBetween
  <1> HIDE DEF E, from, to
  <1>5. n * E <= to - from /\ n * E \in Int
    BY <1>1, <1>2
  <1> HIDE DEF n
  <1>6. j \in Nat /\ 1 <= j /\ j <= n
    BY <1>4
  <1>7. E <= j * E /\ j * E <= n * E /\ j * E \in Nat
    BY <1>1, <1>4, <1>6
  <1>8. t = from + j * E
    BY DEF E, from
  <1>9. t \in Nat /\ p.t < t /\ t <= q.t
    BY <1>1, <1>2, <1>5, <1>7, <1>8
  <1>10. t % E = 0
    <2>1. t = (a + j) * E /\ a + j \in Nat
      BY <1>1, <1>3, <1>6, <1>8
    <2> DEFINE m == a + j
    <2>2. m \in Int /\ t = m * E
      BY <2>1
    <2> HIDE DEF m
    <2>3. (m * E) % E = 0
      BY <1>1, <2>2, Multiples
    <2>4. QED
      BY <2>2, <2>3, Zenon
  <1>11. QED
    BY <1>9, <1>10 DEF isOnSamplePoint, E


-----------------------------------------------------------------------------
(* The rows of a page, and what is made of them.                           *)

LEMMA NoneIsTarget == "5m" \notin Targets /\ "fragment" \notin Targets
  <1> DEFINE Levels == [targetInterval : STRING \ {"5m", "fragment"}, basedOnInterval : STRING,
                        every : Nat \ {0}]
  <1>1. \A level \in Levels : level.targetInterval \notin {"5m", "fragment"}
    OBVIOUS
  <1>2. Intervals \in Seq(Levels)
    BY IntervalsAssumption
  <1> HIDE DEF Levels
  <1>3. QED
    BY <1>1, <1>2, ElementsOf DEF Targets, Target

\* The samples of a stone: one for a time, none a target, no fragment on a point.
LEMMA TraceRows ==
    ASSUME Typed, NEW st \in Stones, NEW i \in DOMAIN trace[st]
    PROVE  /\ trace[st][i].t \in Nat /\ trace[st][i].e \in Nat
           /\ trace[st][i].interval \in {"5m", "fragment"}
           /\ \A j \in DOMAIN trace[st] : trace[st][i].t = trace[st][j].t => i = j
           /\ \A k \in DOMAIN Intervals :
                 trace[st][i].interval = "fragment" => ~isOnSamplePoint(k, trace[st][i].t)
  <1> DEFINE Points == [t : Nat \ {0}, e : Nat, interval : {"5m", "fragment"}]
  <1>1. trace[st] \in Seq(Points)
    BY TracesAssumption DEF Typed
  <1>2. \A point \in Points : point.t \in Nat /\ point.e \in Nat /\ point.interval \in {"5m", "fragment"}
    OBVIOUS
  <1> HIDE DEF Points
  <1>3. /\ \A j \in DOMAIN trace[st] : trace[st][j].t \in Nat /\ trace[st][j].e \in Nat /\ trace[st][j].interval \in {"5m", "fragment"}
        /\ DOMAIN trace[st] = 1..Len(trace[st]) /\ Len(trace[st]) \in Nat
    BY <1>1, <1>2, ElementsOf
  <1>4. /\ \A j, l \in DOMAIN trace[st] : j < l => trace[st][j].t < trace[st][l].t
        /\ \A k \in DOMAIN Intervals :
                trace[st][i].interval = "fragment" => trace[st][i].t % Intervals[k].every # 0
    BY TracesAssumption DEF Typed
  <1>5. \A j \in DOMAIN trace[st] : trace[st][i].t = trace[st][j].t => i = j
    BY <1>3, <1>4
  <1>6. QED
    BY <1>3, <1>4, <1>5 DEF isOnSamplePoint, Every

LEMMA PageRows ==
    ASSUME AggregateInv, NEW k, NEW st, NEW from, NEW row \in Page(k, st, from)
    PROVE  /\ row \in Stored /\ IsRow(row) /\ Rooted(row) /\ row.stone = st /\ row.t > from
           /\ row.t \in Nat /\ row.e \in Int /\ row.interval \in {Intervals[k].basedOnInterval, "fragment"}
  BY DEF AggregateInv, Typed, RowsInv, IsRow, Page

\* A stone with one metadata row has one row at a time in a page.
LEMMA OneRowAtATime ==
    ASSUME AggregateInv, NEW k \in DOMAIN Intervals, NEW st \in Stones, Single(st), NEW from,
           NEW p \in Page(k, st, from), NEW q \in Page(k, st, from), p.t = q.t
    PROVE  p = q
  <1>1. Typed /\ OneAggregatePerPoint
    BY DEF AggregateInv
  <1>2. /\ p \in Stored /\ Rooted(p) /\ p.stone = st /\ p.interval \in {Intervals[k].basedOnInterval, "fragment"}
        /\ q \in Stored /\ Rooted(q) /\ q.stone = st /\ q.interval \in {Intervals[k].basedOnInterval, "fragment"}
    BY PageRows
  <1>3. CASE p.interval \in Targets /\ q.interval \in Targets
    <2>1. p.interval = q.interval
      BY <1>2, <1>3, NoneIsTarget
    <2>2. QED
      BY <1>1, <1>2, <1>3, <2>1 DEF OneAggregatePerPoint, Single
  <1>4. CASE p.interval \notin Targets /\ q.interval \notin Targets
    <2>1. PICK i \in DOMAIN trace[st] : p = Traced(st, i)
      BY <1>2, <1>4 DEF Rooted
    <2>2. PICK j \in DOMAIN trace[st] : q = Traced(st, j)
      BY <1>2, <1>4 DEF Rooted
    <2>3. trace[st][i].t = trace[st][j].t
      BY <2>1, <2>2 DEF Traced, Sample
    <2>4. i = j
      BY <1>1, <2>3, TraceRows
    <2>5. QED
      BY <2>1, <2>2, <2>4
  <1>5. ASSUME NEW a \in {p, q}, NEW b \in {p, q}, a.interval \in Targets, b.interval \notin Targets
        PROVE FALSE
    <2>1. b.interval = "fragment"
      BY <1>2, <1>5, NoneIsTarget
    <2>2. PICK i \in DOMAIN trace[st] : b = Traced(st, i)
      BY <1>2, <1>5 DEF Rooted
    <2>3. PICK l \in DOMAIN Intervals : isOnSamplePoint(l, a.t)
      BY <1>2, <1>5 DEF Rooted
    <2>4. trace[st][i].interval = "fragment" /\ trace[st][i].t = a.t
      BY <2>1, <2>2 DEF Traced, Sample
    <2>5. QED
      BY <1>1, <2>3, <2>4, TraceRows
  <1>6. QED
    BY <1>3, <1>4, <1>5

\* The point before q is the last of the page that is earlier.
LEMMA PointBefore ==
    ASSUME AggregateInv, NEW k, NEW st, NEW from,
           NEW q \in Page(k, st, from), NEW p \in Predecessor(Page(k, st, from), q)
    PROVE  /\ p \in Page(k, st, from) /\ p.t < q.t
           /\ \A o \in Page(k, st, from) : o.t < q.t => o.t <= p.t
  <1> DEFINE page == Page(k, st, from)
             times == {o.t : o \in {o \in page : o.t < q.t}} \cup {-1}
  <1>1. now \in Nat /\ \A o \in page : o.t \in 0..now
    BY PageRows DEF AggregateInv, Typed, IsRow
  <1>2. p \in page /\ p.t = Max(times) /\ q \in page
    BY DEF Predecessor
  <1>3. times # {} /\ times \subseteq -1..now
    BY <1>1
  <1>4. Max(times) \in times /\ \A n \in times : n <= Max(times)
    BY <1>1, <1>3, GreatestOf
  <1>5. p.t # -1
    BY <1>1, <1>2
  <1>6. p.t \in {o.t : o \in {o \in page : o.t < q.t}}
    BY <1>2, <1>4, <1>5
  <1>7. QED
    BY <1>2, <1>4, <1>6

\* What q adds lies after everything that precedes it in the page, and not after q.
LEMMA AddedBy ==
    ASSUME AggregateInv, NEW k \in DOMAIN Intervals, NEW st, NEW from \in Nat,
           NEW q \in Page(k, st, from),
           NEW s \in PointSamples(k, Predecessor(Page(k, st, from), q), q)
    PROVE  /\ s = Sample(st, s.t, s.e, Target(k))
           /\ s.t \in Nat /\ s.e \in Int /\ isOnSamplePoint(k, s.t) /\ from < s.t /\ s.t <= q.t
           /\ \A o \in Page(k, st, from) : o.t < q.t => o.t < s.t
  <1>0. /\ q = Sample(st, q.t, q.e, q.interval) /\ q.t \in Nat /\ q.e \in Int /\ from < q.t
        /\ \A o \in Page(k, st, from) : o.t \in Nat /\ from < o.t /\ o.stone = st
    BY PageRows DEF IsRow
  <1>1. CASE isOnSamplePoint(k, q.t)
    <2>1. s = [q EXCEPT !.interval = Target(k)]
      BY <1>1 DEF PointSamples
    <2>2. s = Sample(st, q.t, q.e, Target(k))
      BY <1>0, <2>1 DEF Sample
    <2>3. s.t = q.t /\ s.e = q.e
      BY <2>2 DEF Sample
    <2>4. QED
      BY <1>0, <1>1, <2>2, <2>3
  <1>2. CASE ~isOnSamplePoint(k, q.t)
    <2>1. PICK p \in Predecessor(Page(k, st, from), q) : s \in Interpolated(k, p, q)
      BY <1>2 DEF PointSamples
    <2>2. /\ p \in Page(k, st, from) /\ p.t < q.t
          /\ \A o \in Page(k, st, from) : o.t < q.t => o.t <= p.t
      BY PointBefore
    <2>3. p.t \in Nat /\ p.e \in Int /\ from < p.t /\ p.stone = st
      BY <1>0, <2>2, PageRows
    <2> DEFINE at(t) == p.e + (2 * (t - p.t) * (q.e - p.e) + (q.t - p.t)) \div (2 * (q.t - p.t))
    <2>4. PICK j \in 1..Elapsed(k, p, q) :
              s = Sample(st, getPreviousSamplePoint(k, p.t) + j * Every(k),
                         at(getPreviousSamplePoint(k, p.t) + j * Every(k)), Target(k))
      BY <2>1, <2>3 DEF Interpolated, Sample
    <2>5. /\ s.t = getPreviousSamplePoint(k, p.t) + j * Every(k) /\ s.e = at(s.t)
          /\ s = Sample(st, s.t, s.e, Target(k))
      BY <2>4 DEF Sample
    <2>6. s.t \in Nat /\ isOnSamplePoint(k, s.t) /\ p.t < s.t /\ s.t <= q.t
      BY <1>0, <2>3, <2>5, PointsBetween
    <2>7. \A o \in Page(k, st, from) : o.t < q.t => o.t < s.t
      BY <1>0, <2>2, <2>3, <2>6
    <2>8. s.e \in Int
      <3>1. /\ 2 * (q.t - p.t) \in Nat \ {0}
            /\ 2 * (s.t - p.t) * (q.e - p.e) + (q.t - p.t) \in Int
        BY <1>0, <2>2, <2>3, <2>6
      <3>2. QED
        BY <2>3, <2>5, <3>1
    <2>9. QED
      BY <2>3, <2>5, <2>6, <2>7, <2>8
  <1>3. QED
    BY <1>1, <1>2


\* What a page adds.
Added(k, st, from) ==
    LET page == Page(k, st, from)
    IN  UNION {PointSamples(k, Predecessor(page, q), q) : q \in page}

\* No two samples of a page have one time: those of a point come after the points before
\* it, and those between two points differ by their place.
LEMMA AddedOnce ==
    ASSUME AggregateInv, NEW k \in DOMAIN Intervals, NEW st \in Stones, Single(st), NEW from \in Nat,
           NEW s \in Added(k, st, from), NEW z \in Added(k, st, from), s.t = z.t
    PROVE  s = z
  <1> DEFINE page == Page(k, st, from)
  <1>1. PICK q \in page : s \in PointSamples(k, Predecessor(page, q), q)
    BY DEF Added
  <1>2. PICK o \in page : z \in PointSamples(k, Predecessor(page, o), o)
    BY DEF Added
  <1>3. /\ s.t \in Nat /\ s.t <= q.t /\ (o.t < q.t => o.t < s.t)
        /\ z.t \in Nat /\ z.t <= o.t /\ (q.t < o.t => q.t < z.t)
    BY <1>1, <1>2, AddedBy
  <1>4. q.t \in Nat /\ o.t \in Nat
    BY PageRows
  <1>5. q.t = o.t
    BY <1>3, <1>4
  <1>6. q = o
    BY <1>5, OneRowAtATime
  <1>7. CASE isOnSamplePoint(k, q.t)
    BY <1>1, <1>2, <1>6, <1>7 DEF PointSamples
  <1>8. CASE ~isOnSamplePoint(k, q.t)
    <2>1. PICK p \in Predecessor(page, q) : s \in Interpolated(k, p, q)
      BY <1>1, <1>8 DEF PointSamples
    <2>2. PICK r \in Predecessor(page, q) : z \in Interpolated(k, r, q)
      BY <1>2, <1>6, <1>8 DEF PointSamples
    <2>3. p \in page /\ r \in page /\ p.t = r.t
      BY DEF Predecessor
    <2>4. p = r
      BY <2>3, OneRowAtATime
    <2>5. s.t = z.t
      OBVIOUS
    <2>6. QED
      BY <2>1, <2>2, <2>4, <2>5 DEF Interpolated, Sample
  <1>9. QED
    BY <1>7, <1>8

\* What is stored of a level is no later than the newest row of it.
LEMMA NoneIsNewer ==
    ASSUME AggregateInv, NEW k, NEW st
    PROVE  /\ LastTime(k, st) \in Nat
           /\ \A row \in Stored : row.stone = st /\ row.interval = Target(k) => row.t <= LastTime(k, st)
  <1> DEFINE times == {row.t : row \in {row \in Stored : row.stone = st /\ row.interval = Target(k)}} \cup {0}
  <1>1. now \in Nat /\ \A row \in Stored : row.t \in 0..now
    BY DEF AggregateInv, Typed, RowsInv, IsRow
  <1>2. times # {} /\ times \subseteq -1..now /\ times \subseteq Nat
    BY <1>1
  <1>3. Max(times) \in times /\ \A n \in times : n <= Max(times)
    BY <1>1, <1>2, GreatestOf
  <1>4. QED
    BY <1>2, <1>3 DEF LastTime

\* The next page starts at the last row of this one.
LEMMA NextPage ==
    ASSUME AggregateInv, NEW k, NEW st, NEW from, Page(k, st, from) # {}
    PROVE  /\ NextFrom(Page(k, st, from)) \in Nat
           /\ \A q \in Page(k, st, from) : q.t <= NextFrom(Page(k, st, from))
  <1> DEFINE times == {row.t : row \in Page(k, st, from)}
  <1>1. now \in Nat /\ \A row \in Page(k, st, from) : row.t \in 0..now
    BY PageRows DEF AggregateInv, Typed, IsRow
  <1>2. times # {} /\ times \subseteq -1..now /\ times \subseteq Nat
    BY <1>1
  <1>3. Max(times) \in times /\ \A n \in times : n <= Max(times)
    BY <1>1, <1>2, GreatestOf
  <1>4. QED
    BY <1>2, <1>3 DEF NextFrom

-----------------------------------------------------------------------------
(* The invariant at the start, and by steps that leave the runs alone.     *)

LEMMA HandsEmpty ==
    ASSUME NEW r, run[r].samples = EmptyBag, run[r].reading = {}
    PROVE  Pending(r) /\ Read(r)
  BY DEF Pending, Read, BagToSet, EmptyBag, SetToBag

LEMMA NoRunIsRun ==
    /\ IsRun(NoRun) /\ NoRun.samples = EmptyBag /\ NoRun.reading = {}
    /\ \A st \in Stones : NoRun.todo[st] = 0 /\ NoRun.listed[st] = 0
  <1> DEFINE Levels == [targetInterval : STRING \ {"5m", "fragment"}, basedOnInterval : STRING,
                        every : Nat \ {0}]
  <1>1. Intervals \in Seq(Levels) /\ Intervals # <<>>
    BY IntervalsAssumption
  <1> HIDE DEF Levels
  <1>2. 1 \in DOMAIN Intervals
    BY <1>1
  <1>3. QED
    BY <1>2 DEF NoRun, IsRun

LEMMA AggregateStart == Init => AggregateInv
  <1> SUFFICES ASSUME Init PROVE AggregateInv
    OBVIOUS
  <1>1. Typed
    BY DEF Init, Typed
  <1>2. Stored = {}
    BY DEF Init, Stored, BagToSet, EmptyBag, SetToBag
  <1>3. RowsInv /\ OneAggregatePerPoint
    BY <1>2 DEF RowsInv, OneAggregatePerPoint
  <1>4. ASSUME NEW r \in Callers PROVE RunControl(r) /\ Pending(r) /\ Read(r)
    <2>1. run[r] = NoRun /\ stage[r] = "idle" /\ metaData = [st \in Stones |-> 0]
      BY DEF Init
    <2>2. QED
      BY <2>1, HandsEmpty, NoRunIsRun DEF RunControl
  <1>5. QED
    BY <1>1, <1>3, <1>4, OneRunStart DEF AggregateInv

\* Rows that go, and samples that come, disturb neither what is stored nor what is pending.
LEMMA RowsKept ==
    ASSUME AggregateInv, Typed', trace' = trace, now' >= now,
           \A st \in Stones : Single(st)' => Single(st),
           \A row \in Stored' :
                \/ row \in Stored /\ (stoneEnergyProcessed[row] = 1 => stoneEnergyProcessed'[row] = 1)
                \/ /\ row.interval \notin Targets /\ IsRow(row)'
                   /\ \E i \in DOMAIN trace[row.stone] : row = Traced(row.stone, i)
    PROVE  /\ RowsInv' /\ OneAggregatePerPoint'
           /\ \A r \in Callers : run'[r] = run[r] => Pending(r)' /\ Read(r)'
  <1>0. Typed /\ RowsInv /\ OneAggregatePerPoint /\ \A r \in Callers : RunControl(r) /\ Pending(r) /\ Read(r)
    BY DEF AggregateInv
  <1>1. \A row : IsRow(row) => IsRow(row)'
    BY <1>0 DEF IsRow, Typed
  <1>2. ASSUME NEW row \in Stored', row.interval \in Targets
        PROVE  /\ row \in Stored /\ row.stone \in Stones
               /\ stoneEnergyProcessed[row] = 1 => stoneEnergyProcessed'[row] = 1
    BY <1>0, <1>2 DEF RowsInv, IsRow
  <1>3. RowsInv'
    <2> SUFFICES ASSUME NEW row \in Stored' PROVE IsRow(row)' /\ Rooted(row)'
      BY DEF RowsInv
    <2>1. CASE row \in Stored
      BY <1>0, <1>1, <2>1 DEF RowsInv, Rooted, Traced
    <2>2. CASE row \notin Stored
      BY <2>2 DEF Rooted, Traced
    <2>3. QED
      BY <2>1, <2>2
  <1>4. OneAggregatePerPoint'
    BY <1>0, <1>2 DEF OneAggregatePerPoint, Single
  <1>5. ASSUME NEW r \in Callers, run'[r] = run[r] PROVE Pending(r)' /\ Read(r)'
    <2>1. Target(run[r].level) \in Targets
      BY <1>0 DEF RunControl, IsRun, Targets
    <2>2. Pending(r)'
      <3> SUFFICES ASSUME NEW row \in BagToSet(run[r].samples)
                   PROVE  /\ IsRow(row)'
                          /\ row.interval = Target(run[r].level) /\ isOnSamplePoint(run[r].level, row.t)
                          /\ Single(row.stone)' =>
                                /\ run[r].samples[row] = 1 /\ run[r].todo[row.stone] = 0
                                /\ \A other \in BagToSet(run[r].samples) :
                                        other.stone = row.stone /\ other.t = row.t => other = row
                                /\ \A other \in Stored' :
                                        other.stone = row.stone /\ other.interval = Target(run[r].level)
                                            => other.t < row.t
        BY <1>5 DEF Pending, Single
      <3>1. IsRow(row) /\ row.stone \in Stones
        BY <1>0 DEF Pending, IsRow
      <3>2. QED
        BY <1>0, <1>1, <1>2, <2>1, <3>1 DEF Pending
    <2>3. Read(r)'
      <3>1. run[r].reading \subseteq Stones
        BY <1>0 DEF RunControl, IsRun
      <3>2. QED
        BY <1>0, <1>2, <1>5, <2>1, <3>1 DEF Read, Single
    <2>4. QED
      BY <2>2, <2>3
  <1>6. QED
    BY <1>3, <1>4, <1>5


LEMMA ControlKept ==
    ASSUME AggregateInv, Typed', \A st \in Stones : metaData[st] <= metaData'[st],
           NEW r \in Callers, run'[r] = run[r],
           stage'[r] = stage[r] \/ (stage[r] = "idle" /\ stage'[r] = "listing")
    PROVE  RunControl(r)'
  <1>1. RunControl(r) /\ metaData \in [Stones -> Nat] /\ metaData' \in [Stones -> Nat]
    BY DEF AggregateInv, Typed
  <1>2. IsRun(run[r]) /\ IsRun(run'[r])
    BY <1>1 DEF RunControl
  <1>3. \A st \in Stones : run[r].listed[st] <= metaData'[st]
    BY <1>1, <1>2 DEF RunControl, IsRun
  <1>4. QED
    BY <1>1, <1>2, <1>3 DEF RunControl

\* Steps of uploads, and whatever else leaves the runs alone.
LEMMA QuietKeeps ==
    ASSUME AggregateInv, OneRunInv', Typed', trace' = trace, now' >= now, UNCHANGED run,
           \A st \in Stones : metaData[st] <= metaData'[st],
           \A row \in Stored' :
                \/ row \in Stored /\ (stoneEnergyProcessed[row] = 1 => stoneEnergyProcessed'[row] = 1)
                \/ /\ row.interval \notin Targets /\ IsRow(row)'
                   /\ \E i \in DOMAIN trace[row.stone] : row = Traced(row.stone, i),
           \A r \in Callers : stage'[r] = stage[r] \/ (stage[r] = "idle" /\ stage'[r] = "listing")
    PROVE  AggregateInv'
  <1>1. metaData \in [Stones -> Nat] /\ metaData' \in [Stones -> Nat]
    BY DEF AggregateInv, Typed
  <1>2. \A st \in Stones : Single(st)' => Single(st)
    BY <1>1 DEF Single
  <1>3. /\ RowsInv' /\ OneAggregatePerPoint'
        /\ \A r \in Callers : Pending(r)' /\ Read(r)'
    BY <1>2, RowsKept
  <1>4. \A r \in Callers : RunControl(r)'
    BY ControlKept
  <1>5. QED
    BY <1>3, <1>4 DEF AggregateInv

\* The samples an upload makes, of its own points or of those another one has left.
LEMMA ProcessKeeps ==
    ASSUME AggregateInv, OneRunInv', NEW stones \in SUBSET Stones, ProcessMeasurements(stones),
           UNCHANGED <<trace, now, metaData, runVars>>
    PROVE  AggregateInv'
  <1>0. Typed
    BY DEF AggregateInv
  <1> DEFINE samples == UNION {{Traced(st, i) : i \in Due(st)} : st \in stones}
  <1>1. ASSUME NEW st \in Stones
        PROVE  /\ Due(st) \subseteq DOMAIN trace[st] /\ Len(trace[st]) \in Nat
               /\ Due(st) \subseteq -1..Len(trace[st]) /\ Due(st) \subseteq Nat
    <2>1. trace[st] \in Seq([t : Nat \ {0}, e : Nat, interval : {"5m", "fragment"}])
      BY <1>0, TracesAssumption DEF Typed
    <2>2. DOMAIN trace[st] = 1..Len(trace[st]) /\ Len(trace[st]) \in Nat /\ sent[st] \in Nat
      BY <1>0, <2>1 DEF Typed
    <2>3. QED
      BY <2>2 DEF Due
  <1>2. sent' \in [Stones -> Nat]
    <2>1. \A st \in stones : Max(Due(st)) \in Nat
      BY <1>1, GreatestOf DEF ProcessMeasurements
    <2>2. QED
      BY <1>0, <2>1 DEF ProcessMeasurements, Typed
  <1>3. Typed'
    BY <1>0, <1>2 DEF Typed, runVars
  <1>4. stoneEnergyProcessed' = stoneEnergyProcessed (+) SetToBag(samples)
    BY DEF ProcessMeasurements
  <1>5. ASSUME NEW row \in Stored', row \notin samples
        PROVE  row \in Stored /\ stoneEnergyProcessed'[row] = stoneEnergyProcessed[row] + 0
    BY <1>4, <1>5 DEF Stored, BagToSet, SetToBag, (+)
  <1>6. ASSUME NEW row \in samples
        PROVE  /\ row.interval \notin Targets /\ IsRow(row)'
               /\ \E i \in DOMAIN trace[row.stone] : row = Traced(row.stone, i)
    <2>0. PICK st \in stones : row \in {Traced(st, i) : i \in Due(st)}
      OBVIOUS
    <2>1. PICK i \in Due(st) : row = Traced(st, i)
      BY <2>0
    <2>2. i \in DOMAIN trace[st] /\ st \in Stones /\ trace[st][i].t <= now
      BY <1>1, <2>1 DEF Due
    <2>3. row.stone = st /\ row.t = trace[st][i].t /\ row.interval = trace[st][i].interval /\ row.e = trace[st][i].e
          /\ row = Sample(row.stone, row.t, row.e, row.interval)
      BY <2>1 DEF Traced, Sample
    <2>4. row.t \in 0..now /\ row.e \in Int /\ row.interval \notin Targets
      BY <1>0, <2>2, <2>3, TraceRows, NoneIsTarget DEF Typed
    <2>5. QED
      BY <2>1, <2>2, <2>3, <2>4 DEF IsRow
  <1>7. QED
    BY <1>0, <1>3, <1>5, <1>6, QuietKeeps DEF runVars, Typed

LEMMA UploadKeeps ==
    ASSUME AggregateInv, OneRunInv', NEW u \in Uploads,
           \/ \E stones \in SUBSET Stones : StoreSamples(u, stones)
           \/ UpdateMetaData(u) \/ FindMissing(u) \/ CreateMissing(u) \/ InterruptUpload(u)
    PROVE  AggregateInv'
  <1>0. Typed
    BY DEF AggregateInv
  <1>1. ASSUME NEW stones \in SUBSET Stones, StoreSamples(u, stones) PROVE AggregateInv'
    BY <1>1, ProcessKeeps DEF StoreSamples
  <1>2. CASE CreateMissing(u)
    <2>1. /\ UNCHANGED <<trace, now, sent, stoneEnergyProcessed, runVars>>
          /\ metaData' = [st \in Stones |-> IF st \in brought[u] THEN metaData[st] + 1 ELSE metaData[st]]
      BY <1>2 DEF CreateMissing
    <2>2. Typed' /\ \A st \in Stones : metaData[st] <= metaData'[st]
      BY <1>0, <2>1 DEF Typed, runVars
    <2>3. QED
      BY <1>0, <2>1, <2>2, QuietKeeps DEF runVars, Typed, Stored
  <1>3. CASE UpdateMetaData(u) \/ FindMissing(u) \/ InterruptUpload(u)
    <2>1. UNCHANGED <<trace, now, sent, stoneEnergyProcessed, metaData, runVars>>
      BY <1>3 DEF UpdateMetaData, FindMissing, InterruptUpload
    <2>2. Typed' /\ \A st \in Stones : metaData[st] <= metaData'[st]
      BY <1>0, <2>1 DEF Typed, runVars
    <2>3. QED
      BY <1>0, <2>1, <2>2, QuietKeeps DEF runVars, Typed, Stored
  <1>4. QED
    BY <1>1, <1>2, <1>3


-----------------------------------------------------------------------------
(* The steps of a run.                                                     *)

\* The one run that goes on moves; rows may go.
LEMMA RunMoves ==
    ASSUME AggregateInv, OneRunInv', NEW r \in Callers,
           UNCHANGED <<trace, now, sent, metaData>>, DOMAIN run' = Callers,
           \A q \in Callers \ {r} : run'[q] = run[q] /\ stage'[q] = stage[q],
           \A row \in Stored' : row \in Stored /\ (stoneEnergyProcessed[row] = 1 => stoneEnergyProcessed'[row] = 1),
           RunControl(r)', Pending(r)', Read(r)'
    PROVE  AggregateInv'
  <1>1. Typed' /\ now' >= now /\ \A st \in Stones : metaData[st] <= metaData'[st] /\ (Single(st)' => Single(st))
    BY DEF AggregateInv, Typed, Single
  <1>2. /\ RowsInv' /\ OneAggregatePerPoint'
        /\ \A q \in Callers : run'[q] = run[q] => Pending(q)' /\ Read(q)'
    BY <1>1, RowsKept
  <1>3. \A q \in Callers \ {r} : RunControl(q)'
    BY <1>1, ControlKept
  <1>4. QED
    BY <1>1, <1>2, <1>3 DEF AggregateInv

\* A run that starts anew, or goes on with nothing in its hands.
LEMMA HandsEmptied ==
    ASSUME AggregateInv, OneRunInv', NEW r \in Callers,
           UNCHANGED <<trace, now, sent, metaData>>, DOMAIN run' = Callers,
           \A q \in Callers \ {r} : run'[q] = run[q] /\ stage'[q] = stage[q],
           \A row \in Stored' : row \in Stored /\ (stoneEnergyProcessed[row] = 1 => stoneEnergyProcessed'[row] = 1),
           RunControl(r)', run'[r].samples = EmptyBag, run'[r].reading = {}
    PROVE  AggregateInv'
  <1>1. Pending(r)' /\ Read(r)'
    BY DEF Pending, Read, BagToSet, EmptyBag, SetToBag
  <1>2. QED
    BY <1>1, RunMoves

LEMMA EndKeeps ==
    ASSUME AggregateInv, OneRunInv', NEW r \in Callers, EndRun(r),
           UNCHANGED <<trace, now, sent, stoneEnergyProcessed, metaData>>
    PROVE  AggregateInv'
  <1>1. /\ DOMAIN run' = Callers /\ run'[r] = NoRun /\ stage'[r] = "idle"
        /\ \A q \in Callers \ {r} : run'[q] = run[q] /\ stage'[q] = stage[q]
    BY DEF EndRun, AggregateInv, Typed, OneRunInv
  <1>2. metaData' \in [Stones -> Nat]
    BY DEF AggregateInv, Typed
  <1>3. \A st \in Stones : 0 <= 0 /\ 0 <= metaData'[st]
    BY <1>2
  <1>4. RunControl(r)'
    BY <1>1, <1>3, NoRunIsRun DEF RunControl, IsRun
  <1>5. run'[r].samples = EmptyBag /\ run'[r].reading = {}
    BY <1>1, NoRunIsRun
  <1>6. \A row \in Stored' : row \in Stored /\ (stoneEnergyProcessed[row] = 1 => stoneEnergyProcessed'[row] = 1)
    BY DEF Stored
  <1>7. QED
    BY <1>1, <1>4, <1>5, <1>6, HandsEmptied

\* A run that lists the stones has done nothing yet.
LEMMA ListKeeps ==
    ASSUME AggregateInv, OneRunInv', NEW r \in Callers, ListStones(r)
    PROVE  AggregateInv'
  <1>1. CASE newer = {}
    BY <1>1, EndKeeps DEF ListStones
  <1>2. CASE newer # {}
    <2> DEFINE rows == [st \in Stones |-> IF st \in newer THEN metaData[st] ELSE 0]
    <2>1. /\ RunControl(r) /\ stage[r] = "listing" /\ run[r] = NoRun /\ DOMAIN run = Callers
          /\ metaData \in [Stones -> Nat] /\ stage \in [Callers -> RunStages]
      BY <1>2 DEF ListStones, AggregateInv, RunControl, Typed, OneRunInv
    <2>2. /\ run' = [run EXCEPT ![r].listed = rows, ![r].todo = rows] /\ stage' = [stage EXCEPT ![r] = "stones"]
          /\ UNCHANGED <<trace, now, sent, stoneEnergyProcessed, metaData>>
      BY <1>2 DEF ListStones
    <2>3. rows \in [Stones -> Nat] /\ \A st \in Stones : rows[st] <= rows[st] /\ rows[st] <= metaData[st]
      BY <2>1
    <2> HIDE DEF rows
    <2>4. /\ DOMAIN run' = Callers /\ stage'[r] = "stones"
          /\ \A q \in Callers \ {r} : run'[q] = run[q] /\ stage'[q] = stage[q]
          /\ run'[r] = [NoRun EXCEPT !.listed = rows, !.todo = rows]
      BY <2>1, <2>2
    <2>5. /\ IsRun(run'[r]) /\ run'[r].listed = rows /\ run'[r].todo = rows
          /\ run'[r].samples = EmptyBag /\ run'[r].reading = {}
      BY <2>3, <2>4, NoRunIsRun DEF NoRun, IsRun
    <2>6. RunControl(r)'
      BY <2>2, <2>3, <2>4, <2>5 DEF RunControl
    <2>7. \A row \in Stored' : row \in Stored /\ (stoneEnergyProcessed[row] = 1 => stoneEnergyProcessed'[row] = 1)
      BY <2>2 DEF Stored
    <2>8. QED
      BY <2>2, <2>4, <2>5, <2>6, <2>7, HandsEmptied
  <1>3. QED
    BY <1>1, <1>2

\* The stone whose newest aggregate is looked up has no samples in memory: its only
\* metadata row has not been done.
LEMMA FindKeeps ==
    ASSUME AggregateInv, OneRunInv', NEW r \in Callers, NEW st \in Stones, FindLastPoint(r, st)
    PROVE  AggregateInv'
  <1> DEFINE x == run[r]
             y == run'[r]
             k == x.level
  <1>1. /\ Typed /\ RunControl(r) /\ Pending(r) /\ DOMAIN run = Callers
        /\ metaData \in [Stones -> Nat] /\ stage \in [Callers -> RunStages]
    BY DEF AggregateInv, Typed, OneRunInv
  <1>2. /\ run' = [run EXCEPT ![r].todo[st] = @ - 1, ![r].reading = {st}, ![r].fromDate = LastTime(k, st)]
        /\ stage' = [stage EXCEPT ![r] = "pages"] /\ stage[r] = "stones" /\ x.todo[st] > 0
        /\ UNCHANGED <<trace, now, sent, stoneEnergyProcessed, metaData>>
    BY DEF FindLastPoint
  <1>3. IsRun(x)
    BY <1>1 DEF RunControl
  <1> DEFINE todo == [x.todo EXCEPT ![st] = @ - 1]
  <1>4. todo \in [Stones -> Nat] /\ todo[st] = x.todo[st] - 1 /\ \A o \in Stones \ {st} : todo[o] = x.todo[o]
    BY <1>2, <1>3 DEF IsRun
  <1> HIDE DEF todo
  <1>5. /\ DOMAIN run' = Callers /\ stage'[r] = "pages"
        /\ \A q \in Callers \ {r} : run'[q] = run[q] /\ stage'[q] = stage[q]
        /\ y = [x EXCEPT !.todo = todo, !.reading = {st}, !.fromDate = LastTime(k, st)]
    BY <1>1, <1>2 DEF todo
  <1>6. LastTime(k, st) \in Nat
        /\ \A row \in Stored : row.stone = st /\ row.interval = Target(k) => row.t <= LastTime(k, st)
    BY NoneIsNewer
  <1> HIDE DEF y
  <1>7. /\ y.listed = x.listed /\ y.level = k /\ y.todo = todo /\ y.reading = {st}
        /\ y.fromDate = LastTime(k, st) /\ y.samples = x.samples /\ y.used = x.used
        /\ IsRun(y)
    BY <1>3, <1>4, <1>5, <1>6 DEF IsRun
  <1>8. RunControl(r)'
    <2>1. \A o \in Stones : todo[o] <= x.listed[o] /\ x.listed[o] <= metaData'[o]
      BY <1>1, <1>2, <1>3, <1>4 DEF RunControl, IsRun
    <2>2. QED
      BY <1>1, <1>2, <1>5, <1>7, <2>1 DEF RunControl, y
  <1>9. Stored' = Stored
    BY <1>2 DEF Stored
  <1>10. Pending(r)'
    <2> SUFFICES ASSUME NEW row \in BagToSet(x.samples)
                 PROVE  /\ IsRow(row)
                        /\ row.interval = Target(k) /\ isOnSamplePoint(k, row.t)
                        /\ Single(row.stone) =>
                            /\ x.samples[row] = 1 /\ todo[row.stone] = 0
                            /\ \A other \in BagToSet(x.samples) :
                                    other.stone = row.stone /\ other.t = row.t => other = row
                            /\ \A other \in Stored :
                                    other.stone = row.stone /\ other.interval = Target(k) => other.t < row.t
      BY <1>2, <1>7, <1>9 DEF Pending, IsRow, Single, y
    <2>1. row.stone \in Stones
      BY <1>1 DEF Pending, IsRow
    <2>2. Single(row.stone) => row.stone # st
      BY <1>1, <1>2 DEF Pending
    <2>3. QED
      BY <1>1, <1>4, <2>1, <2>2 DEF Pending
  <1>11. Read(r)'
    <2>1. ASSUME Single(st) PROVE x.todo[st] = 1
      BY <1>1, <1>2, <1>3, <2>1 DEF RunControl, IsRun, Single
    <2>2. ASSUME Single(st) PROVE todo[st] = 0 /\ \A row \in BagToSet(x.samples) : row.stone # st
      BY <1>1, <1>2, <1>4, <2>1, <2>2 DEF Pending
    <2>3. QED
      BY <1>2, <1>6, <1>7, <1>9, <2>2 DEF Read, Single, y
  <1>12. QED
    BY <1>2, <1>5, <1>8, <1>9, <1>10, <1>11, RunMoves


\* A page: what it adds is later than all the stone has of this level.
LEMMA ReadKeeps ==
    ASSUME AggregateInv, OneRunInv', NEW r \in Callers, ReadPage(r)
    PROVE  AggregateInv'
  <1> DEFINE x == run[r]
             y == run'[r]
             k == x.level
             from == x.fromDate
  <1>1. /\ Typed /\ RunControl(r) /\ Pending(r) /\ Read(r) /\ DOMAIN run = Callers
        /\ metaData \in [Stones -> Nat] /\ stage \in [Callers -> RunStages] /\ stage[r] = "pages"
    BY DEF AggregateInv, Typed, OneRunInv, ReadPage
  <1>2. IsRun(x) /\ k \in DOMAIN Intervals /\ from \in Nat
    BY <1>1 DEF RunControl, IsRun
  <1>3. PICK st \in x.reading :
          LET page == Page(k, st, from)
          IN  /\ run' = [run EXCEPT
                    ![r].samples = @ (+) SetToBag(UNION {PointSamples(k, Predecessor(page, q), q) : q \in page}),
                    ![r].used = @ \cup UNION {UsedUp(k, Predecessor(page, q), q) : q \in page},
                    ![r].fromDate = IF page = {} THEN @ ELSE NextFrom(page),
                    ![r].reading = IF Cardinality(page) = Limit THEN @ ELSE {}]
              /\ stage' = [stage EXCEPT ![r] = IF Cardinality(page) = Limit THEN "pages" ELSE "stones"]
    BY DEF ReadPage
  <1>4. UNCHANGED <<trace, now, sent, stoneEnergyProcessed, metaData>>
    BY DEF ReadPage
  <1>5. st \in Stones /\ x.reading = {st}
    BY <1>1, <1>2 DEF RunControl, IsRun
  <1> DEFINE page == Page(k, st, from)
             added == Added(k, st, from)
             next == IF page = {} THEN from ELSE NextFrom(page)
             samples == x.samples (+) SetToBag(added)
             used == x.used \cup UNION {UsedUp(k, Predecessor(page, q), q) : q \in page}
             reading == IF Cardinality(page) = Limit THEN x.reading ELSE {}
  <1>6. y = [x EXCEPT !.samples = samples, !.used = used, !.fromDate = next, !.reading = reading]
    BY <1>1, <1>3 DEF Added
  <1>7. /\ DOMAIN run' = Callers
        /\ \A q \in Callers \ {r} : run'[q] = run[q] /\ stage'[q] = stage[q]
        /\ \/ stage'[r] = "pages" /\ reading = {st}
           \/ stage'[r] = "stones" /\ reading = {}
    BY <1>1, <1>3, <1>5
  <1>8. next \in Nat /\ from <= next /\ \A q \in page : q.t <= next
    <2>1. CASE page = {}
      BY <1>2, <2>1
    <2>2. CASE page # {}
      <3>1. next \in Nat /\ \A q \in page : q.t <= next
        BY <2>2, NextPage
      <3>2. PICK q \in page : TRUE
        BY <2>2
      <3>3. q.t \in Nat /\ from < q.t
        BY PageRows
      <3>4. QED
        BY <1>2, <3>1, <3>3
    <2>3. QED
      BY <2>1, <2>2
  <1>9. /\ y.listed = x.listed /\ y.level = k /\ y.todo = x.todo /\ y.reading = reading
        /\ y.fromDate = next /\ y.samples = samples /\ y.used = used
        /\ y = [listed |-> y.listed, level |-> y.level, todo |-> y.todo, reading |-> y.reading,
                fromDate |-> y.fromDate, samples |-> y.samples, used |-> y.used]
    <2> HIDE DEF y, samples, used, next, reading
    <2>1. x = [listed |-> x.listed, level |-> x.level, todo |-> x.todo, reading |-> x.reading,
               fromDate |-> x.fromDate, samples |-> x.samples, used |-> x.used]
      BY <1>2 DEF IsRun
    <2>2. QED
      BY <1>6, <2>1
  <1>10. /\ \A s \in added : /\ s = Sample(st, s.t, s.e, Target(k)) /\ s.t \in Nat
                             /\ isOnSamplePoint(k, s.t) /\ from < s.t /\ s.t <= next /\ s.t <= now /\ s.e \in Int
    <2>1. SUFFICES ASSUME NEW s \in added
                   PROVE  /\ s = Sample(st, s.t, s.e, Target(k)) /\ s.t \in Nat
                          /\ isOnSamplePoint(k, s.t) /\ from < s.t /\ s.t <= next /\ s.t <= now /\ s.e \in Int
      OBVIOUS
    <2>2. PICK q \in page : s \in PointSamples(k, Predecessor(page, q), q)
      BY DEF Added
    <2>3. /\ s = Sample(st, s.t, s.e, Target(k)) /\ s.t \in Nat
          /\ isOnSamplePoint(k, s.t) /\ from < s.t /\ s.t <= q.t /\ s.e \in Int
      BY <1>2, <2>2, AddedBy
    <2>4. q.t <= next /\ q.t \in Nat /\ q.t <= now
      BY <1>8, PageRows DEF IsRow
    <2>5. QED
      BY <1>1, <1>8, <2>3, <2>4 DEF Typed
  <1>11. /\ BagToSet(samples) = BagToSet(x.samples) \cup added
         /\ \A s \in BagToSet(x.samples) \ added : x.samples[s] = 1 => samples[s] = 1
         /\ \A s \in added \ BagToSet(x.samples) : samples[s] = 1
    BY DEF BagToSet, SetToBag, (+)
  <1> HIDE DEF y, samples, used, added, next, page, reading
  <1>12. RunControl(r)'
    <2>1. IsRun(y)
      BY <1>2, <1>5, <1>7, <1>8, <1>9 DEF IsRun
    <2>2. stage'[r] \in {"pages", "stones"}
      BY <1>7
    <2>3. \A o \in Stones : x.todo[o] <= x.listed[o] /\ x.listed[o] <= metaData'[o]
      BY <1>1, <1>4 DEF RunControl
    <2>4. QED
      BY <1>7, <1>9, <2>1, <2>2, <2>3 DEF RunControl, y
  <1>13. Stored' = Stored
    BY <1>4 DEF Stored
  <1>14. ASSUME Single(st)
         PROVE  /\ x.todo[st] = 0
                /\ \A row \in BagToSet(x.samples) : row.stone = st => row.t <= from
                /\ \A row \in Stored : row.stone = st /\ row.interval = Target(k) => row.t <= from
    BY <1>1, <1>5, <1>14 DEF Read
  <1>15. ASSUME NEW s \in added
         PROVE  s.stone = st /\ s.interval = Target(k) /\ s.t \in Nat /\ from < s.t /\ s.t <= next
    BY <1>10 DEF Sample
  <1>16. \A row \in BagToSet(x.samples) : row.t \in Nat
    BY <1>1 DEF Pending, IsRow, Typed
  <1>17. \A row \in Stored : row.t \in Nat
    BY DEF AggregateInv, RowsInv, IsRow, Typed
  <1>18. Pending(r)'
    <2> SUFFICES ASSUME NEW row \in BagToSet(samples)
                 PROVE  /\ IsRow(row)
                        /\ row.interval = Target(k) /\ isOnSamplePoint(k, row.t)
                        /\ Single(row.stone) =>
                            /\ samples[row] = 1 /\ x.todo[row.stone] = 0
                            /\ \A other \in BagToSet(samples) :
                                    other.stone = row.stone /\ other.t = row.t => other = row
                            /\ \A other \in Stored :
                                    other.stone = row.stone /\ other.interval = Target(k) => other.t < row.t
      BY <1>4, <1>9, <1>13 DEF Pending, IsRow, Single, y
    <2>1. CASE row \in BagToSet(x.samples)
      <3>1. /\ IsRow(row) /\ row.interval = Target(k) /\ isOnSamplePoint(k, row.t)
            /\ Single(row.stone) =>
                /\ x.samples[row] = 1 /\ x.todo[row.stone] = 0
                /\ \A other \in BagToSet(x.samples) :
                        other.stone = row.stone /\ other.t = row.t => other = row
                /\ \A other \in Stored :
                        other.stone = row.stone /\ other.interval = Target(k) => other.t < row.t
        BY <1>1, <2>1 DEF Pending
      <3>2. ASSUME Single(row.stone), NEW other \in added PROVE ~(other.stone = row.stone /\ other.t = row.t)
        BY <1>2, <1>14, <1>15, <1>16, <2>1, <3>2
      <3>3. Single(row.stone) => row \notin added
        BY <3>2
      <3>4. QED
        BY <1>11, <2>1, <3>1, <3>2, <3>3
    <2>2. CASE row \in added
      <3>1. row.stone = st /\ row.interval = Target(k) /\ row.t \in Nat /\ from < row.t
        BY <1>15, <2>2
      <3>2. IsRow(row) /\ isOnSamplePoint(k, row.t)
        BY <1>1, <1>5, <1>10, <2>2, <3>1 DEF IsRow, Typed
      <3>3. ASSUME Single(st), NEW other \in BagToSet(x.samples) PROVE ~(other.stone = st /\ other.t = row.t)
        BY <1>2, <1>14, <1>16, <3>1, <3>3
      <3>4. Single(st) => row \notin BagToSet(x.samples)
        BY <3>1, <3>3
      <3>5. ASSUME Single(st), NEW other \in added, other.t = row.t PROVE other = row
        BY <1>2, <1>5, <2>2, <3>5, AddedOnce DEF added
      <3>6. ASSUME Single(st), NEW other \in Stored, other.stone = st, other.interval = Target(k)
            PROVE  other.t < row.t
        BY <1>2, <1>14, <1>17, <3>1, <3>6
      <3>7. QED
        BY <1>11, <1>14, <2>2, <3>1, <3>2, <3>3, <3>4, <3>5, <3>6
    <2>3. QED
      BY <1>11, <2>1, <2>2
  <1>19. Read(r)'
    <2> SUFFICES ASSUME Single(st), reading = {st}
                 PROVE  /\ x.todo[st] = 0
                        /\ \A row \in BagToSet(samples) : row.stone = st => row.t <= next
                        /\ \A row \in Stored : row.stone = st /\ row.interval = Target(k) => row.t <= next
      BY <1>4, <1>7, <1>9, <1>13 DEF Read, Single, y
    <2>1. \A row \in BagToSet(samples) : row.stone = st => row.t <= next
      BY <1>2, <1>8, <1>11, <1>14, <1>15, <1>16
    <2>2. \A row \in Stored : row.stone = st /\ row.interval = Target(k) => row.t <= next
      BY <1>2, <1>8, <1>14, <1>17
    <2>3. QED
      BY <1>14, <2>1, <2>2
  <1>20. QED
    BY <1>4, <1>7, <1>12, <1>13, <1>18, <1>19, RunMoves


\* The samples of a level are stored: each is later than what was stored of the level.
LEMMA CreateKeeps ==
    ASSUME AggregateInv, OneRunInv', NEW r \in Callers, CreateAggregates(r)
    PROVE  AggregateInv'
  <1> DEFINE x == run[r]
             y == run'[r]
             k == x.level
             made == BagToSet(x.samples)
  <1>1. /\ Typed /\ RowsInv /\ OneAggregatePerPoint /\ RunControl(r) /\ Pending(r) /\ DOMAIN run = Callers
        /\ stage \in [Callers -> RunStages] /\ stage[r] = "stones"
    BY DEF AggregateInv, Typed, OneRunInv, CreateAggregates
  <1>2. IsRun(x) /\ k \in DOMAIN Intervals /\ x.reading = {}
    BY <1>1 DEF RunControl, IsRun
  <1>3. /\ stoneEnergyProcessed' = stoneEnergyProcessed (+) x.samples
        /\ run' = [run EXCEPT ![r].samples = EmptyBag] /\ stage' = [stage EXCEPT ![r] = "deleting"]
        /\ UNCHANGED <<trace, now, sent, metaData>>
    BY DEF CreateAggregates
  <1>4. /\ DOMAIN run' = Callers /\ stage'[r] = "deleting"
        /\ \A q \in Callers \ {r} : run'[q] = run[q] /\ stage'[q] = stage[q]
        /\ y = [x EXCEPT !.samples = EmptyBag]
    BY <1>1, <1>3
  <1> HIDE DEF y
  <1>5. /\ y.listed = x.listed /\ y.level = k /\ y.todo = x.todo /\ y.reading = {} /\ y.samples = EmptyBag
        /\ y.fromDate = x.fromDate /\ IsRun(y)
    BY <1>2, <1>4 DEF IsRun
  <1>6. /\ Stored' = Stored \cup made
        /\ \A row \in Stored \ made : stoneEnergyProcessed[row] = 1 => stoneEnergyProcessed'[row] = 1
        /\ \A row \in made \ Stored : x.samples[row] = 1 => stoneEnergyProcessed'[row] = 1
    BY <1>3 DEF Stored, BagToSet, (+)
  <1> HIDE DEF made
  <1>7. \A row \in made :
            /\ IsRow(row) /\ row.interval = Target(k) /\ isOnSamplePoint(k, row.t)
            /\ row.stone \in Stones /\ row.t \in Nat
            /\ Single(row.stone) =>
                /\ x.samples[row] = 1
                /\ \A other \in made : other.stone = row.stone /\ other.t = row.t => other = row
                /\ \A other \in Stored :
                        other.stone = row.stone /\ other.interval = Target(k) => other.t < row.t
    BY <1>1 DEF Pending, IsRow, Typed, made
  <1>8. Target(k) \in Targets
    BY <1>2 DEF Targets
  <1>9. Typed'
    BY <1>1, <1>3, <1>4 DEF Typed
  <1>10. RowsInv'
    <2> SUFFICES ASSUME NEW row \in Stored \cup made PROVE IsRow(row) /\ Rooted(row)
      BY <1>3, <1>6 DEF RowsInv, IsRow, Rooted, Traced
    <2>1. CASE row \in made
      BY <1>2, <1>7, <1>8, <2>1 DEF Rooted
    <2>2. QED
      BY <1>1, <2>1 DEF RowsInv
  <1>11. OneAggregatePerPoint'
    <2> SUFFICES ASSUME NEW row \in Stored', row.interval \in Targets, Single(row.stone)
                 PROVE  /\ stoneEnergyProcessed'[row] = 1
                        /\ \A other \in Stored' :
                              (other.stone = row.stone /\ other.t = row.t /\ other.interval = row.interval)
                                  => other = row
      BY <1>3 DEF OneAggregatePerPoint, Single
    <2>1. \A other \in Stored : other.t \in Nat
      BY <1>1 DEF RowsInv, IsRow, Typed
    <2>2. CASE row \in made
      <3>1. row \notin Stored
        BY <1>7, <2>1, <2>2
      <3>2. stoneEnergyProcessed'[row] = 1
        BY <1>6, <1>7, <2>2, <3>1
      <3>3. ASSUME NEW other \in Stored', other.stone = row.stone, other.t = row.t, other.interval = row.interval
            PROVE  other = row
        <4>1. other \notin Stored
          BY <1>7, <2>1, <2>2, <3>3
        <4>2. QED
          BY <1>6, <1>7, <2>2, <3>3, <4>1
      <3>4. QED
        BY <3>2, <3>3
    <2>3. CASE row \notin made
      <3>1. row \in Stored
        BY <1>6, <2>3
      <3>2. /\ stoneEnergyProcessed[row] = 1
            /\ \A other \in Stored :
                  (other.stone = row.stone /\ other.t = row.t /\ other.interval = row.interval) => other = row
        BY <1>1, <3>1 DEF OneAggregatePerPoint, Single
      <3>3. ASSUME NEW other \in made, other.stone = row.stone, other.t = row.t, other.interval = row.interval
            PROVE  FALSE
        <4>1. row.t < other.t
          BY <1>7, <3>1, <3>3
        <4>2. QED
          BY <2>1, <3>1, <3>3, <4>1
      <3>4. QED
        BY <1>6, <2>3, <3>1, <3>2, <3>3
    <2>4. QED
      BY <2>2, <2>3
  <1>12. ASSUME NEW q \in Callers PROVE RunControl(q)' /\ Pending(q)' /\ Read(q)'
    <2>1. CASE q = r
      <3>1. RunControl(r)'
        BY <1>1, <1>3, <1>4, <1>5 DEF RunControl, y
      <3>2. Pending(r)' /\ Read(r)'
        BY <1>5 DEF Pending, Read, BagToSet, EmptyBag, SetToBag, y
      <3>3. QED
        BY <2>1, <3>1, <3>2
    <2>2. CASE q # r
      <3>1. run[q] = NoRun
        <4>1. stage[q] = "idle"
          BY <1>1, <2>2 DEF AggregateInv, OneRunInv, OneRunAtATime
        <4>2. QED
          BY <4>1 DEF AggregateInv, RunControl
      <3>2. run'[q].samples = EmptyBag /\ run'[q].reading = {}
        BY <1>4, <2>2, <3>1, NoRunIsRun
      <3>3. Pending(q)' /\ Read(q)'
        BY <3>2 DEF Pending, Read, BagToSet, EmptyBag, SetToBag
      <3>4. \A st \in Stones : metaData[st] <= metaData'[st]
        BY <1>1, <1>3 DEF Typed
      <3>5. RunControl(q)'
        BY <1>4, <1>9, <2>2, <3>4, ControlKept
      <3>6. QED
        BY <3>3, <3>5
    <2>3. QED
      BY <2>1, <2>2
  <1>13. QED
    BY <1>9, <1>10, <1>11, <1>12 DEF AggregateInv

LEMMA WithoutRows ==
    ASSUME NEW rows, stoneEnergyProcessed' = Without(rows)
    PROVE  \A row \in Stored' : row \in Stored /\ (stoneEnergyProcessed[row] = 1 => stoneEnergyProcessed'[row] = 1)
  BY DEF Without, Stored, BagToSet

\* The next level starts with nothing in memory.
LEMMA DeleteKeeps ==
    ASSUME AggregateInv, OneRunInv', NEW r \in Callers, DeleteFragments(r)
    PROVE  AggregateInv'
  <1> DEFINE x == run[r]
             y == run'[r]
  <1>1. /\ Typed /\ RunControl(r) /\ DOMAIN run = Callers
        /\ metaData \in [Stones -> Nat] /\ stage \in [Callers -> RunStages] /\ stage[r] = "deleting"
    BY DEF AggregateInv, Typed, OneRunInv, DeleteFragments
  <1>2. IsRun(x) /\ x.samples = EmptyBag /\ x.reading = {}
    BY <1>1 DEF RunControl
  <1>3. stoneEnergyProcessed' = Without(x.used) /\ UNCHANGED <<trace, now, sent, metaData>>
    BY DEF DeleteFragments
  <1>4. \A st \in Stones : /\ x.todo[st] <= x.listed[st] /\ x.listed[st] <= metaData'[st]
                           /\ x.listed[st] <= x.listed[st]
    BY <1>1, <1>2, <1>3 DEF RunControl, IsRun
  <1>5. CASE x.level + 1 <= Len(Intervals)
    <2>1. /\ run' = [run EXCEPT ![r].level = x.level + 1, ![r].used = {}, ![r].todo = x.listed]
          /\ stage' = [stage EXCEPT ![r] = "stones"]
      BY <1>5 DEF DeleteFragments
    <2>2. /\ y = [x EXCEPT !.level = x.level + 1, !.used = {}, !.todo = x.listed] /\ stage'[r] = "stones"
          /\ DOMAIN run' = Callers /\ \A q \in Callers \ {r} : run'[q] = run[q] /\ stage'[q] = stage[q]
      BY <1>1, <2>1
    <2>3. x.level + 1 \in DOMAIN Intervals
      BY <1>2, <1>5, IntervalsAssumption, ElementsOf DEF IsRun
    <2> HIDE DEF y
    <2>4. /\ IsRun(y) /\ y.samples = EmptyBag /\ y.reading = {} /\ y.todo = x.listed /\ y.listed = x.listed
      BY <1>2, <2>2, <2>3 DEF IsRun
    <2>5. RunControl(r)'
      BY <1>4, <2>2, <2>4 DEF RunControl, y
    <2>6. QED
      BY <1>3, <2>2, <2>4, <2>5, WithoutRows, HandsEmptied DEF y
  <1>6. CASE ~(x.level + 1 <= Len(Intervals))
    <2>1. run' = [run EXCEPT ![r].used = {}] /\ stage' = [stage EXCEPT ![r] = "ending"]
      BY <1>6 DEF DeleteFragments
    <2>2. /\ y = [x EXCEPT !.used = {}] /\ stage'[r] = "ending"
          /\ DOMAIN run' = Callers /\ \A q \in Callers \ {r} : run'[q] = run[q] /\ stage'[q] = stage[q]
      BY <1>1, <2>1
    <2> HIDE DEF y
    <2>3. /\ IsRun(y) /\ y.samples = EmptyBag /\ y.reading = {} /\ y.todo = x.todo /\ y.listed = x.listed
      BY <1>2, <2>2 DEF IsRun
    <2>4. RunControl(r)'
      BY <1>4, <2>2, <2>3 DEF RunControl, y
    <2>5. QED
      BY <1>3, <2>2, <2>3, <2>4, WithoutRows, HandsEmptied DEF y
  <1>7. QED
    BY <1>5, <1>6

-----------------------------------------------------------------------------
LEMMA AggregateStep == AggregateInv /\ [Next]_vars => AggregateInv'
  <1> SUFFICES ASSUME AggregateInv, [Next]_vars PROVE AggregateInv'
    OBVIOUS
  <1>1. OneRunInv' /\ Typed
    BY OneRunStep DEF AggregateInv
  <1>2. CASE UNCHANGED <<trace, sent, stoneEnergyProcessed, metaData, run>> /\ now' \in Nat /\ now' >= now
             /\ \A r \in Callers : stage'[r] = stage[r] \/ (stage[r] = "idle" /\ stage'[r] = "listing")
    <2>1. Typed' /\ \A st \in Stones : metaData[st] <= metaData'[st]
      BY <1>1, <1>2 DEF Typed
    <2>2. \A row \in Stored' : row \in Stored /\ (stoneEnergyProcessed[row] = 1 => stoneEnergyProcessed'[row] = 1)
      BY <1>2 DEF Stored
    <2>3. QED
      BY <1>1, <1>2, <2>1, <2>2, QuietKeeps
  <1>3. CASE Tick
    <2>1. now' \in {m \in Moments : m > now}
      <3> DEFINE later == {m \in Moments : m > now}
      <3>1. later # {} /\ later \subseteq Nat /\ now' = Min(later)
        BY <1>3, AggregationAssumption DEF Tick
      <3>2. QED
        BY <3>1, LeastOf
    <2>2. now' \in Nat /\ now' >= now
      BY <1>1, <2>1, AggregationAssumption DEF Typed
    <2>3. QED
      BY <1>2, <1>3, <2>2 DEF Tick, runVars
  <1>4. ASSUME NEW u \in Uploads,
               \/ \E stones \in SUBSET Stones : StoreSamples(u, stones)
               \/ UpdateMetaData(u) \/ FindMissing(u) \/ CreateMissing(u) \/ InterruptUpload(u)
        PROVE  AggregateInv'
    BY <1>1, <1>4, UploadKeeps
  <1>5. ASSUME NEW r \in Callers, AggegateAllSpheres(r) PROVE AggregateInv'
    <2>1. stage[r] = "idle" /\ stage' = [stage EXCEPT ![r] = "listing"] /\ stage \in [Callers -> RunStages]
      BY <1>5 DEF AggegateAllSpheres, AggregateInv, OneRunInv
    <2>2. \A q \in Callers : stage'[q] = stage[q] \/ (stage[q] = "idle" /\ stage'[q] = "listing")
      BY <2>1
    <2>3. QED
      BY <1>1, <1>2, <1>5, <2>2 DEF AggegateAllSpheres, Typed
  <1>6. ASSUME NEW r \in Callers, RunStep(r) PROVE AggregateInv'
    BY <1>1, <1>6, ListKeeps, FindKeeps, ReadKeeps, CreateKeeps, DeleteKeeps, EndKeeps DEF RunStep, StoreTime
  <1>7. ASSUME NEW r \in Callers, InterruptRun(r) PROVE AggregateInv'
    BY <1>1, <1>7, EndKeeps DEF InterruptRun
  <1>8. ASSUME NEW interval, CollectGarbage(interval) PROVE AggregateInv'
    <2>1. /\ UNCHANGED <<trace, now, sent, metaData, run, stage>>
          /\ \E rows : stoneEnergyProcessed' = Without(rows)
      BY <1>8 DEF CollectGarbage, runVars
    <2>2. Typed' /\ now' >= now /\ \A st \in Stones : metaData[st] <= metaData'[st]
      BY <1>1, <2>1 DEF Typed
    <2>3. \A row \in Stored' : row \in Stored /\ (stoneEnergyProcessed[row] = 1 => stoneEnergyProcessed'[row] = 1)
      BY <2>1, WithoutRows
    <2>4. QED
      BY <1>1, <2>1, <2>2, <2>3, QuietKeeps
  <1>9. CASE UNCHANGED vars
    <2>1. now' \in Nat /\ now' >= now
      BY <1>1, <1>9 DEF Typed, vars
    <2>2. QED
      BY <1>2, <1>9, <2>1 DEF vars, runVars
  <1>10. ASSUME NEW stones \in SUBSET Stones, ProcessLeftRows(stones) PROVE AggregateInv'
    BY <1>1, <1>10, ProcessKeeps DEF ProcessLeftRows
  <1>11. QED
    BY <1>3, <1>4, <1>5, <1>6, <1>7, <1>8, <1>9, <1>10 DEF Next

\* "there is only one entry per stoneId": as long as that is so, no order of runs, uploads,
\* interruptions and garbage collections aggregates a point twice, whatever the samples,
\* the page size, the intervals and the time things are kept.
THEOREM AggregatedOnce == Spec => []OneAggregatePerPoint
  <1>1. AggregateInv => OneAggregatePerPoint
    BY DEF AggregateInv
  <1>2. QED
    BY <1>1, AggregateStart, AggregateStep, PTL DEF Spec


-----------------------------------------------------------------------------
(* The energy of the samples and of the aggregates made of them.           *)

\* What level k reads of the samples of st: those that are there, and those to come.
Alive(k, st) ==
    {i \in DOMAIN trace[st] :
        /\ trace[st][i].interval \in {Intervals[k].basedOnInterval, "fragment"}
        /\ i > sent[st] \/ Traced(st, i) \in Stored}

\* The aggregates of the level, stored or in memory.
Rows == Stored \cup UNION {BagToSet(run[r].samples) : r \in Callers}

Made(k, st) == {row \in Rows : row.stone = st /\ row.interval = Target(k)}

\* An aggregate has its place among the samples.
Fits(k, st, z) ==
    \A i \in Alive(k, st) :
        /\ trace[st][i].t <= z.t => trace[st][i].e <= z.e
        /\ z.t <= trace[st][i].t => z.e <= trace[st][i].e

LevelInOrder(k, st) ==
    /\ \A z \in Made(k, st) : Fits(k, st, z)
    /\ \A z, y \in Made(k, st) : z.t <= y.t => z.e <= y.e

SentFirst == \A st \in Stones : \A i \in DOMAIN trace[st] : Traced(st, i) \in Stored => i <= sent[st]

UsageInv ==
    /\ AggregateInv /\ SentFirst
    /\ \A k \in DOMAIN Intervals, st \in Stones : (OfSamples(k) /\ Single(st)) => LevelInOrder(k, st)


\* Nothing but the times of p and q and the place of t between them matters; what is made
\* at t lies between the energies of p and q, and does not fall with t.
Between(p, q, t) == p.e + (2 * (t - p.t) * (q.e - p.e) + (q.t - p.t)) \div (2 * (q.t - p.t))

LEMMA Quotient ==
    ASSUME NEW a \in Int, NEW m \in Nat \ {0}
    PROVE  /\ a \div m \in Int
           /\ \A n \in Int : n * m <= a => n <= a \div m
           /\ \A n \in Int : a < n * m + m => a \div m <= n
  OBVIOUS

LEMMA QuotientGrows ==
    ASSUME NEW a \in Int, NEW b \in Int, a <= b, NEW m \in Nat \ {0}
    PROVE  a \div m <= b \div m
  OBVIOUS

LEMMA Product ==
    ASSUME NEW a \in Nat, NEW b \in Nat, NEW c \in Nat, a <= b
    PROVE  a * c \in Nat /\ a * c <= b * c
  OBVIOUS

LEMMA BetweenThem ==
    ASSUME NEW p, NEW q, p.t \in Nat, q.t \in Nat, p.e \in Int, q.e \in Int, p.e <= q.e,
           NEW t \in Nat, p.t < t, t <= q.t
    PROVE  /\ Between(p, q, t) \in Int /\ p.e <= Between(p, q, t) /\ Between(p, q, t) <= q.e
           /\ \A later \in Nat : t <= later /\ later <= q.t => Between(p, q, t) <= Between(p, q, later)
  <1> DEFINE T == q.t - p.t
             D == q.e - p.e
             up(n) == 2 * ((n - p.t) * D) + T
  <1>1. T \in Nat \ {0} /\ D \in Nat /\ 2 * T \in Nat \ {0}
    OBVIOUS
  <1>2. \A n \in Nat : 2 * (n - p.t) * D = 2 * ((n - p.t) * D)
    BY <1>1
  <1>3. \A n \in Nat : Between(p, q, n) = p.e + up(n) \div (2 * T)
    BY <1>2 DEF Between
  <1>4. \A n \in Nat : p.t < n /\ n <= q.t =>
            n - p.t \in Nat /\ (n - p.t) * D \in Nat /\ (n - p.t) * D <= T * D
    BY <1>1, Product
  <1>5. T * D \in Nat
    BY <1>1, Product
  <1> HIDE DEF T, D
  <1>6. up(t) \in Int /\ 0 <= up(t) /\ up(t) <= 2 * (T * D) + T
    BY <1>1, <1>4, <1>5
  <1>7. up(t) < D * (2 * T) + 2 * T
    <2>1. D * (2 * T) = 2 * (T * D)
      BY <1>1
    <2>2. QED
      BY <1>1, <1>5, <1>6, <2>1
  <1> DEFINE x == up(t) \div (2 * T)
  <1>8. x \in Int /\ 0 <= x /\ x <= D
    <2>1. 0 * (2 * T) <= up(t)
      BY <1>1, <1>6
    <2> HIDE DEF up
    <2>2. QED
      BY <1>1, <1>6, <1>7, <2>1, Quotient
  <1>9. ASSUME NEW later \in Nat, t <= later, later <= q.t PROVE x <= up(later) \div (2 * T)
    <2>1. (t - p.t) * D <= (later - p.t) * D /\ (later - p.t) * D \in Nat
      BY <1>1, <1>4, <1>9, Product
    <2>2. up(later) \in Int /\ up(t) <= up(later)
      BY <1>1, <1>4, <2>1
    <2> HIDE DEF up
    <2>3. QED
      BY <1>1, <1>6, <2>2, QuotientGrows
  <1>10. D = q.e - p.e
    BY DEF D
  <1>11. \A later \in Nat : t <= later /\ later <= q.t => up(later) \div (2 * T) \in Int
    <2> SUFFICES ASSUME NEW later \in Nat, t <= later, later <= q.t PROVE up(later) \div (2 * T) \in Int
      OBVIOUS
    <2>1. up(later) \in Int
      BY <1>1, <1>4
    <2> HIDE DEF up
    <2>2. QED
      BY <1>1, <2>1
  <1> HIDE DEF x, up
  <1>12. QED
    <2>1. Between(p, q, t) = p.e + x
      BY <1>3 DEF x
    <2>2. Between(p, q, t) \in Int /\ p.e <= Between(p, q, t) /\ Between(p, q, t) <= q.e
      BY <1>8, <1>10, <2>1
    <2>3. ASSUME NEW later \in Nat, t <= later, later <= q.t PROVE Between(p, q, t) <= Between(p, q, later)
      <3>1. Between(p, q, later) = p.e + up(later) \div (2 * T)
        BY <1>3
      <3>2. x <= up(later) \div (2 * T) /\ up(later) \div (2 * T) \in Int
        BY <1>9, <1>11, <2>3
      <3>3. QED
        BY <1>8, <2>1, <3>1, <3>2
    <2>4. QED
      BY <2>2, <2>3


\* The rows of a page of such a level are samples of the stone.
LEMMA PageIsOfTrace ==
    ASSUME UsageInv, NEW k \in DOMAIN Intervals, OfSamples(k), NEW st \in Stones, NEW from,
           NEW q \in Page(k, st, from)
    PROVE  \E i \in Alive(k, st) : q = Traced(st, i) /\ q.t = trace[st][i].t /\ q.e = trace[st][i].e /\ i <= sent[st]
  <1>1. /\ q \in Stored /\ Rooted(q) /\ q.stone = st
        /\ q.interval \in {Intervals[k].basedOnInterval, "fragment"}
    BY PageRows DEF UsageInv
  <1>2. q.interval \notin Targets
    BY <1>1, NoneIsTarget DEF OfSamples
  <1>3. PICK i \in DOMAIN trace[st] : q = Traced(st, i)
    BY <1>1, <1>2 DEF Rooted
  <1>4. trace[st][i].interval = q.interval /\ q.t = trace[st][i].t /\ q.e = trace[st][i].e
    BY <1>3 DEF Traced, Sample
  <1>5. i \in Alive(k, st) /\ i <= sent[st]
    BY <1>1, <1>3, <1>4 DEF Alive, UsageInv, SentFirst
  <1>6. QED
    BY <1>3, <1>4, <1>5

\* A page has the first rows: what is earlier than one of them is one of them.
LEMMA PageIsFirst ==
    ASSUME UsageInv, NEW k \in DOMAIN Intervals, OfSamples(k), NEW st \in Stones, NEW from,
           NEW q \in Page(k, st, from),
           NEW o \in Stored, o.stone = st, o.t > from, o.t < q.t,
           o.interval \in {Intervals[k].basedOnInterval, "fragment"}
    PROVE  o \in Page(k, st, from)
  <1> DEFINE rows == {row \in Stored : /\ row.stone = st /\ row.t > from
                                       /\ row.interval \in {Intervals[k].basedOnInterval, "fragment"}}
             before(x) == {other \in rows : other.t < x.t}
             f == [i \in DOMAIN trace[st] |-> Traced(st, i)]
             samples == {Traced(st, i) : i \in DOMAIN trace[st]}
  <1>1. AggregateInv /\ Typed
    BY DEF UsageInv, AggregateInv
  <1>2. IsFiniteSet(samples)
    <2>1. trace[st] \in Seq([t : Nat \ {0}, e : Nat, interval : {"5m", "fragment"}])
      BY <1>1, TracesAssumption DEF Typed
    <2>2. DOMAIN trace[st] = 1..Len(trace[st]) /\ Len(trace[st]) \in Nat
      BY <2>1
    <2>3. IsFiniteSet(DOMAIN trace[st])
      BY <2>2, FS_Interval
    <2>4. f \in Surjection(DOMAIN trace[st], samples)
      BY DEF Surjection
    <2>5. QED
      BY <2>3, <2>4, FS_Surjection
  <1>3. rows \subseteq samples
    <2> SUFFICES ASSUME NEW row \in rows PROVE row \in samples
      OBVIOUS
    <2>1. Rooted(row) /\ row.stone = st /\ row.interval \notin Targets
      BY <1>1, NoneIsTarget DEF OfSamples, AggregateInv, RowsInv
    <2>2. QED
      BY <2>1 DEF Rooted
  <1>4. \A row \in rows : row.t \in Nat
    BY <1>1 DEF AggregateInv, RowsInv, IsRow, Typed
  <1>5. o \in rows /\ q \in rows /\ Cardinality(before(q)) < Limit
    BY DEF Page
  <1>6. before(o) \subseteq before(q) /\ IsFiniteSet(before(q))
    <2>1. before(q) \subseteq samples
      BY <1>3
    <2>2. before(o) \subseteq before(q)
      BY <1>4, <1>5
    <2>3. QED
      BY <1>2, <2>1, <2>2, FS_Subset
  <1>7. /\ Cardinality(before(o)) <= Cardinality(before(q))
        /\ Cardinality(before(o)) \in Nat /\ Cardinality(before(q)) \in Nat
    BY <1>6, FS_Subset, FS_CardinalityType
  <1>8. Cardinality(before(o)) < Limit
    BY <1>5, <1>7, AggregationAssumption
  <1>9. QED
    BY <1>5, <1>8 DEF Page

\* No sample lies between a point and the one before it, now or later.
LEMMA NoneBetween ==
    ASSUME UsageInv, NEW k \in DOMAIN Intervals, OfSamples(k), NEW st \in Stones, NEW from \in Nat,
           NEW q \in Page(k, st, from), NEW p \in Predecessor(Page(k, st, from), q),
           NEW i \in Alive(k, st)
    PROVE  trace[st][i].t <= p.t \/ q.t <= trace[st][i].t
  <1>1. AggregateInv /\ Typed
    BY DEF UsageInv, AggregateInv
  <1>2. /\ p \in Page(k, st, from) /\ p.t < q.t
        /\ \A o \in Page(k, st, from) : o.t < q.t => o.t <= p.t
    BY <1>1, PointBefore
  <1>3. i \in DOMAIN trace[st] /\ trace[st][i].t \in Nat
    BY <1>1, TraceRows DEF Alive
  <1>4. p.t \in Nat /\ q.t \in Nat /\ from < p.t
    BY <1>1, <1>2, PageRows
  <1>5. CASE i > sent[st]
    <2>1. PICK l \in Alive(k, st) : q.t = trace[st][l].t /\ l <= sent[st]
      BY PageIsOfTrace
    <2>2. l \in DOMAIN trace[st] /\ l \in Int /\ i \in Int /\ sent[st] \in Nat
      <3>1. trace[st] \in Seq([t : Nat \ {0}, e : Nat, interval : {"5m", "fragment"}])
        BY <1>1, TracesAssumption DEF Typed
      <3>2. DOMAIN trace[st] \subseteq Int
        BY <3>1
      <3>3. QED
        BY <1>1, <1>3, <3>2 DEF Alive, Typed
    <2>3. l < i
      BY <1>5, <2>1, <2>2
    <2>4. trace[st][l].t < trace[st][i].t
      BY <1>1, <1>3, <2>2, <2>3, TracesAssumption DEF Typed
    <2>5. QED
      BY <1>3, <1>4, <2>1, <2>4
  <1>6. CASE Traced(st, i) \in Stored
    <2> DEFINE o == Traced(st, i)
    <2>1. o.stone = st /\ o.t = trace[st][i].t /\ o.interval \in {Intervals[k].basedOnInterval, "fragment"}
      BY DEF Traced, Sample, Alive
    <2>2. CASE o.t > from /\ o.t < q.t
      <3>1. o \in Page(k, st, from)
        BY <1>6, <2>1, <2>2, PageIsFirst
      <3>2. QED
        BY <1>2, <2>1, <2>2, <3>1
    <2>3. QED
      BY <1>3, <1>4, <2>1, <2>2
  <1>7. QED
    BY <1>5, <1>6 DEF Alive


LEMMA SamplesGrow ==
    ASSUME Typed, NEW st \in Stones, NEW i \in DOMAIN trace[st], NEW j \in DOMAIN trace[st],
           trace[st][i].t <= trace[st][j].t
    PROVE  trace[st][i].e <= trace[st][j].e
  <1>1. trace[st] \in Seq([t : Nat \ {0}, e : Nat, interval : {"5m", "fragment"}])
    BY TracesAssumption DEF Typed
  <1>2. DOMAIN trace[st] \subseteq Int
    BY <1>1
  <1>3. /\ trace[st][i].t \in Nat /\ trace[st][j].t \in Nat /\ trace[st][i].e \in Nat /\ trace[st][j].e \in Nat
    BY TraceRows
  <1>4. /\ j < i => trace[st][j].t < trace[st][i].t
        /\ i < j => trace[st][i].e <= trace[st][j].e
    BY TracesAssumption DEF Typed
  <1>5. QED
    BY <1>2, <1>3, <1>4

\* What is interpolated, at any of the points between p and q.
LEMMA InterpolatedAt ==
    ASSUME NEW k \in DOMAIN Intervals, NEW p, NEW q, p.t \in Nat, q.t \in Nat, NEW z \in Interpolated(k, p, q)
    PROVE  z.t \in Nat /\ p.t < z.t /\ z.t <= q.t /\ z.e = Between(p, q, z.t)
  <1>1. PICK j \in 1..Elapsed(k, p, q) :
            z = Sample(p.stone, getPreviousSamplePoint(k, p.t) + j * Every(k),
                       Between(p, q, getPreviousSamplePoint(k, p.t) + j * Every(k)), Target(k))
    BY DEF Interpolated, Between
  <1>2. z.t = getPreviousSamplePoint(k, p.t) + j * Every(k) /\ z.e = Between(p, q, z.t)
    BY <1>1 DEF Sample
  <1>3. QED
    BY <1>2, PointsBetween

\* An aggregate that q adds has at most the energy of q, at least that of the points
\* before it and of the aggregates before the page, and its place among the samples.
LEMMA AddedFits ==
    ASSUME UsageInv, NEW k \in DOMAIN Intervals, OfSamples(k), NEW st \in Stones, NEW from \in Nat,
           NEW q \in Page(k, st, from),
           NEW z \in PointSamples(k, Predecessor(Page(k, st, from), q), q)
    PROVE  /\ Fits(k, st, z) /\ z.e <= q.e
           /\ \A o \in Page(k, st, from) : o.t < q.t => o.e <= z.e
           /\ \A y : (y.t \in Nat /\ y.t <= from /\ y.e \in Int /\ Fits(k, st, y)) => y.e <= z.e
  <1>1. AggregateInv /\ Typed
    BY DEF UsageInv, AggregateInv
  <1>2. PICK m \in Alive(k, st) : q.t = trace[st][m].t /\ q.e = trace[st][m].e
    BY PageIsOfTrace
  <1>3. \A i \in Alive(k, st) : i \in DOMAIN trace[st] /\ trace[st][i].t \in Nat /\ trace[st][i].e \in Nat
    BY <1>1, TraceRows DEF Alive
  <1>4. \A o \in Page(k, st, from) : /\ o.t \in Nat /\ o.e \in Int /\ from < o.t
                                     /\ \E i \in Alive(k, st) : o.t = trace[st][i].t /\ o.e = trace[st][i].e
    BY <1>1, PageRows, PageIsOfTrace
  <1>5. \A o, x \in Page(k, st, from) : o.t <= x.t => o.e <= x.e
    BY <1>1, <1>3, <1>4, SamplesGrow
  <1>6. CASE isOnSamplePoint(k, q.t)
    <2>1. z.t = q.t /\ z.e = q.e
      <3>1. q = Sample(q.stone, q.t, q.e, q.interval) /\ z = [q EXCEPT !.interval = Target(k)]
        BY <1>1, <1>6, PageRows DEF PointSamples, IsRow
      <3>2. QED
        BY <3>1 DEF Sample
    <2>2. Fits(k, st, z)
      BY <1>1, <1>2, <1>3, <2>1, SamplesGrow DEF Fits
    <2>3. \A o \in Page(k, st, from) : o.t < q.t => o.e <= z.e
      BY <1>4, <1>5, <2>1
    <2>4. \A y : (y.t \in Nat /\ y.t <= from /\ y.e \in Int /\ Fits(k, st, y)) => y.e <= z.e
      BY <1>2, <1>4, <2>1 DEF Fits
    <2>5. QED
      BY <1>4, <2>1, <2>2, <2>3, <2>4
  <1>7. CASE ~isOnSamplePoint(k, q.t)
    <2>1. PICK p \in Predecessor(Page(k, st, from), q) : z \in Interpolated(k, p, q)
      BY <1>7 DEF PointSamples
    <2>2. /\ p \in Page(k, st, from) /\ p.t < q.t
          /\ \A o \in Page(k, st, from) : o.t < q.t => o.t <= p.t
      BY <1>1, PointBefore
    <2>3. p.t \in Nat /\ p.e \in Int /\ from < p.t /\ q.t \in Nat /\ q.e \in Int /\ p.e <= q.e
      BY <1>4, <1>5, <2>2
    <2>4. z.t \in Nat /\ p.t < z.t /\ z.t <= q.t /\ z.e = Between(p, q, z.t)
      BY <2>1, <2>3, InterpolatedAt
    <2>5. z.e \in Int /\ p.e <= z.e /\ z.e <= q.e
      BY <2>3, <2>4, BetweenThem
    <2>6. PICK l \in Alive(k, st) : p.t = trace[st][l].t /\ p.e = trace[st][l].e
      BY <1>4, <2>2
    <2>7. Fits(k, st, z)
      <3> SUFFICES ASSUME NEW i \in Alive(k, st)
                   PROVE  /\ trace[st][i].t <= z.t => trace[st][i].e <= z.e
                          /\ z.t <= trace[st][i].t => z.e <= trace[st][i].e
        BY DEF Fits
      <3>1. i \in DOMAIN trace[st] /\ trace[st][i].t \in Nat /\ trace[st][i].e \in Nat
        BY <1>3
      <3>2. CASE trace[st][i].t <= p.t
        <4>1. trace[st][i].e <= p.e
          BY <1>1, <1>3, <2>6, <3>1, <3>2, SamplesGrow
        <4>2. QED
          BY <2>3, <2>4, <2>5, <3>1, <3>2, <4>1
      <3>3. CASE q.t <= trace[st][i].t
        <4>1. q.e <= trace[st][i].e
          BY <1>1, <1>2, <1>3, <3>1, <3>3, SamplesGrow
        <4>2. trace[st][i].t <= z.t => trace[st][i].t = q.t
          BY <2>3, <2>4, <3>1, <3>3
        <4>3. z.t = q.t => z.e = q.e
          <5>1. Between(p, q, q.t) = q.e
            <6> DEFINE T == q.t - p.t
                       D == q.e - p.e
            <6>1. T \in Nat \ {0} /\ D \in Nat /\ 2 * T \in Nat \ {0}
              BY <2>2, <2>3
            <6>2. Between(p, q, q.t) = p.e + (2 * T * D + T) \div (2 * T)
              BY DEF Between
            <6> HIDE DEF T, D
            <6>3. 2 * T * D + T \in Int /\ 2 * T * D + T < D * (2 * T) + 2 * T /\ D * (2 * T) <= 2 * T * D + T
              BY <6>1
            <6>4. (2 * T * D + T) \div (2 * T) = D
              BY <6>1, <6>3, Quotient
            <6>5. QED
              BY <2>3, <6>2, <6>4 DEF D
          <5>2. QED
            BY <2>4, <5>1
        <4>4. trace[st][i].t <= z.t => z.t = q.t
          BY <2>3, <2>4, <3>1, <3>3
        <4>5. trace[st][i].t = q.t => trace[st][i].e = q.e
          BY <1>1, <1>2, <3>1, TraceRows DEF Alive
        <4>6. QED
          BY <2>3, <2>5, <3>1, <4>1, <4>2, <4>3, <4>4, <4>5
      <3>4. QED
        BY <2>1, <3>2, <3>3, NoneBetween
    <2>8. \A o \in Page(k, st, from) : o.t < q.t => o.e <= z.e
      BY <1>4, <1>5, <2>2, <2>3, <2>5
    <2>9. \A y : (y.t \in Nat /\ y.t <= from /\ y.e \in Int /\ Fits(k, st, y)) => y.e <= z.e
      BY <2>3, <2>5, <2>6 DEF Fits
    <2>10. QED
      BY <2>5, <2>7, <2>8, <2>9
  <1>8. QED
    BY <1>6, <1>7

LEMMA AddedInOrder ==
    ASSUME UsageInv, NEW k \in DOMAIN Intervals, OfSamples(k), NEW st \in Stones, Single(st), NEW from \in Nat,
           NEW z \in Added(k, st, from), NEW y \in Added(k, st, from), z.t <= y.t
    PROVE  z.e <= y.e
  <1> DEFINE page == Page(k, st, from)
  <1>0. AggregateInv
    BY DEF UsageInv
  <1>1. PICK q \in page : z \in PointSamples(k, Predecessor(page, q), q)
    BY DEF Added
  <1>2. PICK o \in page : y \in PointSamples(k, Predecessor(page, o), o)
    BY DEF Added
  <1>3. /\ z.t \in Nat /\ z.e \in Int /\ z.t <= q.t /\ (o.t < q.t => o.t < z.t)
        /\ y.t \in Nat /\ y.e \in Int /\ y.t <= o.t
    BY <1>0, <1>1, <1>2, AddedBy
  <1>4. q.t \in Nat /\ o.t \in Nat /\ q.e \in Int /\ o.e \in Int
    BY <1>0, PageRows
  <1>5. CASE q.t < o.t
    BY <1>1, <1>2, <1>3, <1>4, <1>5, AddedFits
  <1>6. CASE q.t = o.t
    <2>1. q = o
      BY <1>0, <1>6, OneRowAtATime
    <2>2. CASE isOnSamplePoint(k, q.t)
      BY <1>1, <1>2, <1>3, <2>1, <2>2 DEF PointSamples
    <2>3. CASE ~isOnSamplePoint(k, q.t)
      <3>1. PICK p \in Predecessor(page, q) : z \in Interpolated(k, p, q)
        BY <1>1, <2>3 DEF PointSamples
      <3>2. PICK r \in Predecessor(page, q) : y \in Interpolated(k, r, q)
        BY <1>2, <2>1, <2>3 DEF PointSamples
      <3>3. p \in page /\ r \in page /\ p.t = r.t
        BY DEF Predecessor
      <3>4. p = r
        BY <1>0, <3>3, OneRowAtATime
      <3>5. p.t \in Nat /\ p.e \in Int /\ p.t < q.t
        BY <1>0, <3>3, PageRows, PointBefore
      <3>6. p.e <= q.e
        <4>1. PICK i \in Alive(k, st) : p.t = trace[st][i].t /\ p.e = trace[st][i].e
          BY <3>3, PageIsOfTrace
        <4>2. PICK j \in Alive(k, st) : q.t = trace[st][j].t /\ q.e = trace[st][j].e
          BY PageIsOfTrace
        <4>3. i \in DOMAIN trace[st] /\ j \in DOMAIN trace[st] /\ trace[st][i].t <= trace[st][j].t
          BY <1>4, <3>5, <4>1, <4>2 DEF Alive
        <4>4. QED
          BY <1>0, <4>1, <4>2, <4>3, SamplesGrow DEF AggregateInv
      <3>7. /\ z.t \in Nat /\ p.t < z.t /\ z.t <= q.t /\ z.e = Between(p, q, z.t)
            /\ y.t \in Nat /\ p.t < y.t /\ y.t <= q.t /\ y.e = Between(p, q, y.t)
        BY <1>4, <3>1, <3>2, <3>4, <3>5, InterpolatedAt
      <3>8. QED
        BY <1>4, <3>5, <3>6, <3>7, BetweenThem
    <2>4. QED
      BY <2>2, <2>3
  <1>7. CASE o.t < q.t
    BY <1>3, <1>4, <1>7
  <1>8. QED
    BY <1>4, <1>5, <1>6, <1>7


LEMMA UsageStart == Init => UsageInv
  <1> SUFFICES ASSUME Init PROVE UsageInv
    OBVIOUS
  <1>1. Stored = {}
    BY DEF Init, Stored, BagToSet, EmptyBag, SetToBag
  <1>2. \A r \in Callers : BagToSet(run[r].samples) = {}
    BY DEF Init, NoRun, BagToSet, EmptyBag, SetToBag
  <1>3. \A k, st : Made(k, st) = {}
    BY <1>1, <1>2 DEF Made, Rows
  <1>4. QED
    BY <1>1, <1>3, AggregateStart DEF UsageInv, SentFirst, LevelInOrder

LEMMA RowsTyped ==
    ASSUME AggregateInv
    PROVE  /\ \A row \in Rows : row.t \in Nat /\ row.e \in Int /\ row.stone \in Stones
           /\ \A row \in Rows \ Stored : row.interval \in Targets
           /\ \A st \in Stones : \A i \in DOMAIN trace[st] :
                 Traced(st, i) \in Rows => Traced(st, i) \in Stored
  <1>1. \A row \in Stored : row.t \in Nat /\ row.e \in Int /\ row.stone \in Stones
    BY DEF AggregateInv, RowsInv, IsRow, Typed
  <1>2. ASSUME NEW r \in Callers, NEW row \in BagToSet(run[r].samples)
        PROVE  row.t \in Nat /\ row.e \in Int /\ row.stone \in Stones /\ row.interval \in Targets
    <2>1. Pending(r) /\ RunControl(r) /\ now \in Nat
      BY DEF AggregateInv, Typed
    <2>2. IsRow(row) /\ row.interval = Target(run[r].level) /\ run[r].level \in DOMAIN Intervals
      BY <1>2, <2>1 DEF Pending, RunControl, IsRun
    <2>3. QED
      BY <2>1, <2>2 DEF IsRow, Targets
  <1>3. ASSUME NEW st \in Stones, NEW i \in DOMAIN trace[st] PROVE Traced(st, i).interval \notin Targets
    BY TraceRows, NoneIsTarget DEF AggregateInv, Traced, Sample
  <1>4. QED
    BY <1>1, <1>2, <1>3 DEF Rows

\* Steps that make no aggregate: none of the samples comes back.
LEMMA NoneMade ==
    ASSUME UsageInv, AggregateInv', UNCHANGED <<trace, sent>>, Rows' \subseteq Rows,
           \A st \in Stones : Single(st)' => Single(st)
    PROVE  UsageInv'
  <1>1. AggregateInv
    BY DEF UsageInv
  <1>2. ASSUME NEW st \in Stones, NEW i \in DOMAIN trace[st], Traced(st, i) \in Stored'
        PROVE  Traced(st, i) \in Stored
    <2>1. Traced(st, i) \in Rows'
      BY <1>2 DEF Rows
    <2>2. QED
      BY <1>1, <2>1, RowsTyped
  <1>3. SentFirst'
    BY <1>2 DEF UsageInv, SentFirst, Traced
  <1>4. ASSUME NEW k \in DOMAIN Intervals, NEW st \in Stones, OfSamples(k), Single(st)'
        PROVE  LevelInOrder(k, st)'
    <2>1. LevelInOrder(k, st)
      BY <1>4 DEF UsageInv
    <2>2. Made(k, st)' \subseteq Made(k, st)
      BY DEF Made
    <2>3. Alive(k, st)' \subseteq Alive(k, st)
      BY <1>2 DEF Alive, Traced
    <2>4. \A z : Fits(k, st, z) => Fits(k, st, z)'
      BY <2>3 DEF Fits
    <2>5. QED
      BY <2>1, <2>2, <2>4 DEF LevelInOrder
  <1>5. QED
    BY <1>3, <1>4 DEF UsageInv

LEMMA StoreKeepsUsage ==
    ASSUME UsageInv, AggregateInv', NEW stones \in SUBSET Stones, ProcessMeasurements(stones),
           UNCHANGED <<trace, now, metaData, runVars>>
    PROVE  UsageInv'
  <1>1. AggregateInv /\ Typed /\ Typed'
    BY DEF UsageInv, AggregateInv
  <1>2. UNCHANGED <<trace, now, metaData, run>>
    BY DEF runVars
  <1> DEFINE samples == UNION {{Traced(st, i) : i \in Due(st)} : st \in stones}
  <1>3. Stored' = Stored \cup samples
    BY DEF ProcessMeasurements, Stored, BagToSet, SetToBag, (+)
  <1>4. ASSUME NEW st \in stones
        PROVE  /\ Due(st) # {} /\ Due(st) \subseteq DOMAIN trace[st] /\ Due(st) \subseteq Nat
               /\ \A i \in Due(st) : sent[st] < i /\ i <= sent'[st]
               /\ sent[st] \in Nat /\ sent'[st] \in Nat /\ sent[st] <= sent'[st]
    <2>1. trace[st] \in Seq([t : Nat \ {0}, e : Nat, interval : {"5m", "fragment"}])
      BY <1>1, TracesAssumption DEF Typed
    <2>2. DOMAIN trace[st] = 1..Len(trace[st]) /\ Len(trace[st]) \in Nat /\ sent[st] \in Nat
      BY <1>1, <2>1 DEF Typed
    <2>3. /\ Due(st) \subseteq DOMAIN trace[st] /\ Due(st) \subseteq Nat /\ Due(st) \subseteq -1..Len(trace[st])
          /\ \A i \in Due(st) : sent[st] < i
      BY <2>2 DEF Due
    <2>4. Due(st) # {} /\ sent'[st] = Max(Due(st))
      BY DEF ProcessMeasurements
    <2>5. Max(Due(st)) \in Due(st) /\ \A i \in Due(st) : i <= Max(Due(st))
      BY <2>2, <2>3, <2>4, GreatestOf
    <2>6. QED
      BY <2>2, <2>3, <2>4, <2>5
  <1>5. \A st \in Stones \ stones : sent'[st] = sent[st]
    BY DEF ProcessMeasurements
  <1>6. ASSUME NEW st \in Stones, NEW i \in DOMAIN trace[st], Traced(st, i) \in Stored'
        PROVE  Traced(st, i) \in Stored \/ (st \in stones /\ i \in Due(st))
    <2>1. SUFFICES ASSUME Traced(st, i) \in samples PROVE st \in stones /\ i \in Due(st)
      BY <1>3, <1>6
    <2>2. PICK s \in stones : Traced(st, i) \in {Traced(s, j) : j \in Due(s)}
      BY <2>1
    <2>3. PICK j \in Due(s) : Traced(st, i) = Traced(s, j)
      BY <2>2
    <2>4. st = s /\ trace[st][i].t = trace[s][j].t
      BY <2>3 DEF Traced, Sample
    <2>5. i = j
      BY <1>1, <1>4, <2>4, TraceRows
    <2>6. QED
      BY <2>4, <2>5
  <1>7. SentFirst'
    <2> SUFFICES ASSUME NEW st \in Stones, NEW i \in DOMAIN trace[st], Traced(st, i) \in Stored'
                 PROVE  i <= sent'[st]
      BY <1>2 DEF SentFirst, Traced
    <2>1. CASE Traced(st, i) \in Stored
      <3>1. i <= sent[st] /\ i \in Int
        <4>1. trace[st] \in Seq([t : Nat \ {0}, e : Nat, interval : {"5m", "fragment"}])
          BY <1>1, TracesAssumption DEF Typed
        <4>2. QED
          BY <2>1, <4>1 DEF UsageInv, SentFirst
      <3>2. QED
        BY <1>4, <1>5, <3>1
    <2>2. QED
      BY <1>4, <1>6, <2>1
  <1>8. ASSUME NEW k \in DOMAIN Intervals, NEW st \in Stones, OfSamples(k), Single(st)'
        PROVE  LevelInOrder(k, st)'
    <2>1. LevelInOrder(k, st)
      BY <1>2, <1>8 DEF UsageInv, Single
    <2>2. Made(k, st)' \subseteq Made(k, st)
      <3>1. \A row \in samples : row.interval \notin Targets
        BY <1>1, <1>4, TraceRows, NoneIsTarget DEF Traced, Sample
      <3>2. \A row \in Rows' : row \in Rows \/ row \in samples
        BY <1>2, <1>3 DEF Rows
      <3>3. QED
        BY <3>1, <3>2 DEF Made, Targets
    <2>3. Alive(k, st)' \subseteq Alive(k, st)
      <3> SUFFICES ASSUME NEW i \in DOMAIN trace[st], i > sent'[st] \/ Traced(st, i) \in Stored'
                   PROVE  i > sent[st] \/ Traced(st, i) \in Stored
        BY <1>2 DEF Alive, Traced
      <3>1. i \in Int
        <4>1. trace[st] \in Seq([t : Nat \ {0}, e : Nat, interval : {"5m", "fragment"}])
          BY <1>1, TracesAssumption DEF Typed
        <4>2. QED
          BY <4>1
      <3>2. QED
        BY <1>4, <1>5, <1>6, <3>1
    <2>4. \A z : Fits(k, st, z) => Fits(k, st, z)'
      BY <1>2, <2>3 DEF Fits
    <2>5. QED
      BY <2>1, <2>2, <2>4 DEF LevelInOrder
  <1>9. QED
    BY <1>7, <1>8 DEF UsageInv


\* A page that is read puts the new aggregates after the old ones.
LEMMA ReadKeepsUsage ==
    ASSUME UsageInv, AggregateInv', NEW r \in Callers, ReadPage(r)
    PROVE  UsageInv'
  <1> DEFINE x == run[r]
             level == x.level
             from == x.fromDate
  <1>1. /\ AggregateInv /\ Typed /\ RunControl(r) /\ Pending(r) /\ Read(r) /\ DOMAIN run = Callers
        /\ stage[r] = "pages"
    BY DEF UsageInv, AggregateInv, Typed, ReadPage
  <1>2. IsRun(x) /\ level \in DOMAIN Intervals /\ from \in Nat
    BY <1>1 DEF RunControl, IsRun
  <1>3. PICK stone \in x.reading :
          LET page == Page(level, stone, from)
          IN  run' = [run EXCEPT
                    ![r].samples = @ (+) SetToBag(UNION {PointSamples(level, Predecessor(page, q), q) : q \in page}),
                    ![r].used = @ \cup UNION {UsedUp(level, Predecessor(page, q), q) : q \in page},
                    ![r].fromDate = IF page = {} THEN @ ELSE NextFrom(page),
                    ![r].reading = IF Cardinality(page) = Limit THEN @ ELSE {}]
    BY DEF ReadPage
  <1>4. UNCHANGED <<trace, now, sent, stoneEnergyProcessed, metaData>>
    BY DEF ReadPage
  <1>5. stone \in Stones
    BY <1>2 DEF IsRun
  <1> DEFINE added == Added(level, stone, from)
  <1>6. BagToSet(run'[r].samples) = BagToSet(x.samples) \cup added
    <2>1. run'[r].samples = x.samples (+) SetToBag(added)
      <3>1. x = [listed |-> x.listed, level |-> x.level, todo |-> x.todo, reading |-> x.reading,
                 fromDate |-> x.fromDate, samples |-> x.samples, used |-> x.used]
        BY <1>2 DEF IsRun
      <3>2. QED
        BY <1>1, <1>3, <3>1 DEF Added
    <2>2. QED
      BY <2>1 DEF BagToSet, SetToBag, (+)
  <1>7. \A q \in Callers \ {r} : run'[q] = run[q]
    BY <1>1, <1>3
  <1>8. Rows' = Rows \cup added
    <2>1. Stored' = Stored
      BY <1>4 DEF Stored
    <2> HIDE DEF added
    <2>2. \A q \in Callers : BagToSet(run'[q].samples) = BagToSet(run[q].samples) \cup (IF q = r THEN added ELSE {})
      BY <1>6, <1>7
    <2>3. ASSUME NEW row PROVE row \in Rows' <=> row \in Rows \/ row \in added
      <3>1. row \in Rows' <=> row \in Stored \/ \E q \in Callers : row \in BagToSet(run'[q].samples)
        BY <2>1 DEF Rows
      <3>2. row \in Rows <=> row \in Stored \/ \E q \in Callers : row \in BagToSet(run[q].samples)
        BY DEF Rows
      <3>3. QED
        BY <2>2, <3>1, <3>2
    <2>4. QED
      BY <2>3
  <1>9. /\ \A k, st : Alive(k, st)' = Alive(k, st) /\ \A z : Fits(k, st, z)' = Fits(k, st, z)
        /\ SentFirst'
    BY <1>4 DEF Alive, Fits, Traced, UsageInv, SentFirst, Stored
  <1>10. ASSUME NEW s \in added
         PROVE  s.stone = stone /\ s.interval = Target(level) /\ s.t \in Nat /\ s.e \in Int /\ from < s.t
    <2>1. PICK q \in Page(level, stone, from) :
              s \in PointSamples(level, Predecessor(Page(level, stone, from), q), q)
      BY DEF Added
    <2>2. s = Sample(stone, s.t, s.e, Target(level)) /\ s.t \in Nat /\ s.e \in Int /\ from < s.t
      BY <1>1, <1>2, <2>1, AddedBy
    <2>3. QED
      BY <2>2 DEF Sample
  <1>11. ASSUME NEW k \in DOMAIN Intervals, NEW st \in Stones, OfSamples(k), Single(st)'
         PROVE  LevelInOrder(k, st)'
    <2>1. LevelInOrder(k, st) /\ Single(st)
      BY <1>4, <1>11 DEF UsageInv, Single
    <2>2. CASE st = stone /\ k = level
      <3>1. Made(k, st)' = Made(k, st) \cup added
        BY <1>8, <1>10, <2>2 DEF Made
      <3>2. ASSUME NEW y \in Made(k, st)
            PROVE  y.t \in Nat /\ y.e \in Int /\ y.t <= from /\ Fits(k, st, y)
        <4>1. y.t \in Nat /\ y.e \in Int /\ Fits(k, st, y)
          BY <1>1, <2>1, RowsTyped DEF Made, LevelInOrder
        <4>2. y \in Stored \/ y \in BagToSet(x.samples)
          <5>1. ASSUME NEW q \in Callers \ {r} PROVE BagToSet(run[q].samples) = {}
            <6>1. stage[q] = "idle"
              BY <1>1 DEF AggregateInv, OneRunInv, OneRunAtATime
            <6>2. run[q] = NoRun
              BY <1>1, <6>1 DEF AggregateInv, RunControl
            <6>3. QED
              BY <6>2 DEF NoRun, BagToSet, EmptyBag, SetToBag
          <5>2. QED
            BY <5>1 DEF Made, Rows
        <4>3. y.stone = st /\ y.interval = Target(level)
          BY <2>2 DEF Made
        <4>4. y.t <= from
          BY <1>1, <2>1, <2>2, <4>2, <4>3 DEF Read
        <4>5. QED
          BY <4>1, <4>4
      <3>3. ASSUME NEW z \in added
            PROVE  Fits(k, st, z) /\ \A y \in Made(k, st) : y.e <= z.e /\ y.t < z.t
        <4>1. PICK q \in Page(k, st, from) : z \in PointSamples(k, Predecessor(Page(k, st, from), q), q)
          BY <2>2 DEF Added
        <4>2. Fits(k, st, z) /\ \A y \in Made(k, st) : y.e <= z.e
          BY <1>2, <1>11, <3>2, <4>1, AddedFits
        <4>3. \A y \in Made(k, st) : y.t < z.t
          BY <1>2, <1>10, <3>2
        <4>4. QED
          BY <4>2, <4>3
      <3>4. ASSUME NEW z \in added, NEW y \in added, z.t <= y.t PROVE z.e <= y.e
        BY <1>2, <1>11, <2>1, <2>2, <3>4, AddedInOrder
      <3>5. \A z \in Made(k, st)' : Fits(k, st, z)
        BY <2>1, <3>1, <3>3 DEF LevelInOrder
      <3>6. \A z, y \in Made(k, st)' : z.t <= y.t => z.e <= y.e
        <4> SUFFICES ASSUME NEW z \in Made(k, st) \cup added, NEW y \in Made(k, st) \cup added, z.t <= y.t
                     PROVE  z.e <= y.e
          BY <3>1
        <4>1. CASE z \in Made(k, st) /\ y \in Made(k, st)
          BY <2>1, <4>1 DEF LevelInOrder
        <4>2. CASE z \in Made(k, st) /\ y \in added
          BY <3>3, <4>2
        <4>3. CASE z \in added /\ y \in Made(k, st)
          BY <1>10, <3>2, <3>3, <4>3
        <4>4. CASE z \in added /\ y \in added
          BY <3>4, <4>4
        <4>5. QED
          BY <4>1, <4>2, <4>3, <4>4
      <3>7. QED
        BY <1>9, <3>5, <3>6 DEF LevelInOrder
    <2>3. CASE ~(st = stone /\ k = level)
      <3>1. \A s \in added : ~(s.stone = st /\ s.interval = Target(k))
        BY <1>2, <1>10, <2>3, IntervalsAssumption DEF Target
      <3>2. Made(k, st)' = Made(k, st)
        BY <1>8, <3>1 DEF Made
      <3>3. QED
        BY <1>9, <2>1, <3>2 DEF LevelInOrder
    <2>4. QED
      BY <2>2, <2>3
  <1>12. QED
    BY <1>9, <1>11 DEF UsageInv

LEMMA UsageStep == UsageInv /\ [Next]_vars => UsageInv'
  <1> SUFFICES ASSUME UsageInv, [Next]_vars PROVE UsageInv'
    OBVIOUS
  <1>1. AggregateInv /\ AggregateInv' /\ Typed /\ DOMAIN run = Callers /\ metaData \in [Stones -> Nat]
    BY AggregateStep DEF UsageInv, AggregateInv, Typed
  <1>2. CASE UNCHANGED <<trace, sent, stoneEnergyProcessed, metaData, run>>
    <2>1. Rows' = Rows /\ \A st \in Stones : Single(st)' => Single(st)
      BY <1>2 DEF Rows, Stored, Single
    <2>2. QED
      BY <1>1, <1>2, <2>1, NoneMade
  <1>3. ASSUME UNCHANGED <<trace, sent, metaData>>, Stored' \subseteq Rows,
               \A r \in Callers : BagToSet(run'[r].samples) \subseteq Rows
        PROVE  UsageInv'
    <2>1. Rows' \subseteq Rows /\ \A st \in Stones : Single(st)' => Single(st)
      BY <1>3 DEF Rows, Single
    <2>2. QED
      BY <1>1, <1>3, <2>1, NoneMade
  <1>4. ASSUME NEW stones \in SUBSET Stones,
               ProcessLeftRows(stones) \/ \E u \in Uploads : StoreSamples(u, stones)
        PROVE  UsageInv'
    BY <1>1, <1>4, StoreKeepsUsage DEF StoreSamples, ProcessLeftRows
  <1>5. ASSUME NEW u \in Uploads, CreateMissing(u) PROVE UsageInv'
    <2>1. /\ UNCHANGED <<trace, sent, stoneEnergyProcessed, run>>
          /\ metaData' = [st \in Stones |-> IF st \in brought[u] THEN metaData[st] + 1 ELSE metaData[st]]
      BY <1>5 DEF CreateMissing, runVars
    <2>2. Rows' = Rows /\ \A st \in Stones : Single(st)' => Single(st)
      BY <1>1, <2>1 DEF Rows, Stored, Single
    <2>3. QED
      BY <1>1, <2>1, <2>2, NoneMade
  <1>6. ASSUME NEW r \in Callers, ReadPage(r) PROVE UsageInv'
    BY <1>1, <1>6, ReadKeepsUsage
  <1>7. \A r \in Callers : BagToSet(run[r].samples) \subseteq Rows /\ Stored \subseteq Rows
    BY DEF Rows
  <1>8. BagToSet(EmptyBag) = {} /\ NoRun.samples = EmptyBag
    BY DEF BagToSet, EmptyBag, SetToBag, NoRun
  <1>9. ASSUME NEW r \in Callers, EndRun(r), UNCHANGED <<trace, sent, stoneEnergyProcessed, metaData>>
        PROVE  UsageInv'
    <2>1. \A q \in Callers : run'[q] = run[q] \/ run'[q] = NoRun
      BY <1>1, <1>9 DEF EndRun
    <2>2. \A q \in Callers : BagToSet(run'[q].samples) \subseteq Rows
      BY <1>7, <1>8, <2>1
    <2>3. QED
      BY <1>3, <1>9, <2>2 DEF Rows, Stored
  <1>10. ASSUME NEW r \in Callers,
                \/ ListStones(r) \/ StoreTime(r) \/ InterruptRun(r) \/ \E st \in Stones : FindLastPoint(r, st)
         PROVE  UsageInv'
    <2>1. CASE EndRun(r)
      BY <1>9, <1>10, <2>1 DEF ListStones, StoreTime, InterruptRun, FindLastPoint
    <2>2. CASE ListStones(r) /\ ~EndRun(r)
      <3>1. /\ UNCHANGED <<trace, sent, stoneEnergyProcessed, metaData>>
            /\ \E rows : run' = [run EXCEPT ![r].listed = rows, ![r].todo = rows]
        BY <2>2 DEF ListStones
      <3>2. IsRun(run[r])
        BY <1>1 DEF AggregateInv, RunControl
      <3>3. run'[r].samples = run[r].samples /\ \A q \in Callers \ {r} : run'[q] = run[q]
        BY <1>1, <3>1, <3>2 DEF IsRun
      <3>4. QED
        BY <1>3, <1>7, <3>1, <3>3 DEF Stored
    <2>3. CASE \E st \in Stones : FindLastPoint(r, st)
      <3>1. PICK st \in Stones : FindLastPoint(r, st)
        BY <2>3
      <3>2. /\ UNCHANGED <<trace, sent, stoneEnergyProcessed, metaData>>
            /\ run' = [run EXCEPT ![r].todo[st] = @ - 1, ![r].reading = {st},
                                  ![r].fromDate = LastTime(run[r].level, st)]
        BY <3>1 DEF FindLastPoint
      <3>3. IsRun(run[r])
        BY <1>1 DEF AggregateInv, RunControl
      <3>4. run'[r].samples = run[r].samples /\ \A q \in Callers \ {r} : run'[q] = run[q]
        BY <1>1, <3>2, <3>3 DEF IsRun
      <3>5. QED
        BY <1>3, <1>7, <3>2, <3>4 DEF Stored
    <2>4. QED
      BY <1>10, <2>1, <2>2, <2>3 DEF StoreTime, InterruptRun
  <1>11. ASSUME NEW r \in Callers, CreateAggregates(r) PROVE UsageInv'
    <2>1. /\ UNCHANGED <<trace, sent, metaData>> /\ stoneEnergyProcessed' = stoneEnergyProcessed (+) run[r].samples
          /\ run' = [run EXCEPT ![r].samples = EmptyBag]
      BY <1>11 DEF CreateAggregates
    <2>2. Stored' \subseteq Stored \cup BagToSet(run[r].samples)
      BY <2>1 DEF Stored, BagToSet, (+)
    <2>3. IsRun(run[r])
      BY <1>1 DEF AggregateInv, RunControl
    <2>4. run'[r].samples = EmptyBag /\ \A q \in Callers \ {r} : run'[q] = run[q]
      BY <1>1, <2>1, <2>3 DEF IsRun
    <2>5. QED
      BY <1>3, <1>7, <1>8, <2>1, <2>2, <2>4
  <1>12. ASSUME NEW r \in Callers, DeleteFragments(r) PROVE UsageInv'
    <2>1. /\ UNCHANGED <<trace, sent, metaData>> /\ stoneEnergyProcessed' = Without(run[r].used)
      BY <1>12 DEF DeleteFragments
    <2>2. Stored' \subseteq Stored
      BY <2>1, WithoutRows
    <2>3. IsRun(run[r])
      BY <1>1 DEF AggregateInv, RunControl
    <2>4. \/ run' = [run EXCEPT ![r].level = run[r].level + 1, ![r].used = {}, ![r].todo = run[r].listed]
          \/ run' = [run EXCEPT ![r].used = {}]
      BY <1>12 DEF DeleteFragments
    <2>5. run'[r].samples = run[r].samples /\ \A q \in Callers \ {r} : run'[q] = run[q]
      BY <1>1, <2>3, <2>4 DEF IsRun
    <2>6. QED
      BY <1>3, <1>7, <2>1, <2>2, <2>5
  <1>13. ASSUME NEW interval, CollectGarbage(interval) PROVE UsageInv'
    <2>1. UNCHANGED <<trace, sent, metaData, run>> /\ \E rows : stoneEnergyProcessed' = Without(rows)
      BY <1>13 DEF CollectGarbage, runVars
    <2>2. Stored' \subseteq Stored
      BY <2>1, WithoutRows
    <2>3. UNCHANGED <<trace, sent, metaData>> /\ \A r \in Callers : BagToSet(run'[r].samples) \subseteq Rows
      BY <1>7, <2>1
    <2>4. Stored' \subseteq Rows
      BY <2>2 DEF Rows
    <2>5. QED
      BY <1>3, <2>3, <2>4
  <1>14. CASE UNCHANGED vars
    BY <1>2, <1>14 DEF vars, runVars
  <1>15. CASE Tick
    BY <1>2, <1>15 DEF Tick, runVars
  <1>16. ASSUME NEW u \in Uploads, UpdateMetaData(u) \/ FindMissing(u) \/ InterruptUpload(u) PROVE UsageInv'
    BY <1>2, <1>16 DEF UpdateMetaData, FindMissing, InterruptUpload, runVars
  <1>17. ASSUME NEW r \in Callers, AggegateAllSpheres(r) PROVE UsageInv'
    BY <1>2, <1>17 DEF AggegateAllSpheres
  <1>18. QED
    BY <1>4, <1>5, <1>6, <1>10, <1>11, <1>12, <1>13, <1>14, <1>15, <1>16, <1>17 DEF Next, RunStep

\* Of the samples of a stone with one metadata row and the hours made of them, none has
\* less energy than an earlier one: whatever the samples and the gaps between them, the
\* pages they are read in, what uploads bring between two pages, and whatever samples and
\* aggregates the garbage collection has taken away.
THEOREM EnergyDoesNotFall == Spec => []UsageNeverFalls
  <1>1. UsageInv => UsageNeverFalls
    <2> SUFFICES ASSUME UsageInv, NEW k \in DOMAIN Intervals, OfSamples(k),
                        NEW row \in Stored, NEW other \in Stored,
                        {row.interval, other.interval} \subseteq {Target(k), Intervals[k].basedOnInterval, "fragment"},
                        row.stone = other.stone, row.t <= other.t, metaData[row.stone] <= 1
                 PROVE  row.e <= other.e
      BY DEF UsageNeverFalls
    <2>1. Typed /\ \A o \in Stored : IsRow(o) /\ Rooted(o)
      BY DEF UsageInv, AggregateInv, RowsInv
    <2> DEFINE st == row.stone
    <2>2. st \in Stones /\ LevelInOrder(k, st)
      BY <2>1 DEF UsageInv, IsRow, Single
    <2>3. ASSUME NEW o \in {row, other}
          PROVE  \/ o \in Made(k, st)
                 \/ \E i \in Alive(k, st) : o.t = trace[st][i].t /\ o.e = trace[st][i].e
      <3>1. CASE o.interval = Target(k)
        BY <3>1 DEF Made, Rows
      <3>2. CASE o.interval # Target(k)
        <4>1. o.interval \in {Intervals[k].basedOnInterval, "fragment"} /\ o.stone = st
          BY <3>2
        <4>2. o.interval \notin Targets
          BY <4>1, NoneIsTarget DEF OfSamples
        <4>3. PICK i \in DOMAIN trace[st] : o = Traced(st, i)
          BY <2>1, <4>1, <4>2 DEF Rooted
        <4>4. o.t = trace[st][i].t /\ o.e = trace[st][i].e /\ o.interval = trace[st][i].interval
          BY <4>3 DEF Traced, Sample
        <4>5. i \in Alive(k, st)
          BY <4>1, <4>3, <4>4 DEF Alive
        <4>6. QED
          BY <4>4, <4>5
      <3>3. QED
        BY <3>1, <3>2
    <2>4. CASE row \in Made(k, st) /\ other \in Made(k, st)
      BY <2>2, <2>4 DEF LevelInOrder
    <2>5. CASE row \in Made(k, st) /\ other \notin Made(k, st)
      BY <2>2, <2>3, <2>5 DEF LevelInOrder, Fits
    <2>6. CASE row \notin Made(k, st) /\ other \in Made(k, st)
      BY <2>2, <2>3, <2>6 DEF LevelInOrder, Fits
    <2>7. CASE row \notin Made(k, st) /\ other \notin Made(k, st)
      <3>1. PICK i \in Alive(k, st) : row.t = trace[st][i].t /\ row.e = trace[st][i].e
        BY <2>3, <2>7
      <3>2. PICK j \in Alive(k, st) : other.t = trace[st][j].t /\ other.e = trace[st][j].e
        BY <2>3, <2>7
      <3>3. QED
        BY <2>1, <2>2, <3>1, <3>2, SamplesGrow DEF Alive
    <2>8. QED
      BY <2>4, <2>5, <2>6, <2>7
  <1>2. QED
    BY <1>1, UsageStart, UsageStep, PTL DEF Spec


-----------------------------------------------------------------------------
(* The samples on the points of a level, and the runs that take them.      *)

UploadStages == {"idle", "updating", "finding", "creating"}

UploadTyped ==
    /\ upStage \in [Uploads -> UploadStages] /\ brought \in [Uploads -> SUBSET Stones]
    /\ \A u \in Uploads : upStage[u] = "idle" => brought[u] = {}
    /\ newer \in SUBSET Stones /\ missed \in SUBSET Stones

\* Metadata that is later than the last aggregation is there; only fragments get used up.
ListsRows ==
    /\ newer \subseteq HasRow
    /\ \A r \in Callers : \A row \in run[r].used : row.interval = "fragment"

OnPoint(k) == {row \in Stored : row.interval = Intervals[k].basedOnInterval /\ isOnSamplePoint(k, row.t)}

Above(k, row) == [row EXCEPT !.interval = Target(k)]

Done(k, row) == Above(k, row) \in Stored \/ (Target(k) \in DOMAIN Keep /\ row.t < now - Keep[Target(k)])

InHand(k, row) == \E r \in Callers : Above(k, row) \in BagToSet(run[r].samples)

\* An upload of st that is going to make its metadata later, or to find none.
Waiting(st) ==
    \E u \in Uploads :
        /\ st \in brought[u]
        /\ upStage[u] = "finding" => st \notin HasRow

\* The run r is still going to read the row.
Ahead(k, r, row) ==
    LET x == run[r]
    IN  \/ /\ stage[r] \in {"stones", "pages", "deleting"}
           /\ x.level < k /\ x.listed[row.stone] > 0
        \/ /\ stage[r] \in {"stones", "pages"} /\ x.level = k
           /\ \/ x.todo[row.stone] > 0
              \/ row.stone \in x.reading /\ row.t > x.fromDate

NotForgotten(k, row) ==
    \/ Done(k, row) \/ row.stone \in missed \/ Waiting(row.stone)
    \/ /\ row.stone \in newer
       /\ Listing = {} \/ InHand(k, row) \/ \E r \in Callers : Ahead(k, r, row)

\* A level goes on where it has got to: the samples before that have been taken.
TakenBefore(k, row) ==
    /\ \A z \in Stored : (z.stone = row.stone /\ z.interval = Target(k) /\ row.t <= z.t) => Done(k, row)
    /\ \A z \in Made(k, row.stone) : row.t <= z.t => Done(k, row) \/ InHand(k, row)
    /\ \A r \in Callers : (run[r].level = k /\ row.stone \in run[r].reading /\ row.t <= run[r].fromDate)
                              => Done(k, row) \/ InHand(k, row)

\* And it has not got to the samples that are still to come.
BeforeWhatComes(k, st) ==
    \A i \in DOMAIN trace[st] : i > sent[st] =>
        /\ \A z \in Made(k, st) : z.t < trace[st][i].t
        /\ \A r \in Callers : (run[r].level = k /\ st \in run[r].reading) => run[r].fromDate < trace[st][i].t

LevelOnTime(k) ==
    /\ \A row \in OnPoint(k) : NotForgotten(k, row) /\ TakenBefore(k, row)
    /\ \A st \in Stones : BeforeWhatComes(k, st)

OnTimeInv ==
    /\ UsageInv /\ UploadTyped /\ ListsRows
    /\ \A k \in DOMAIN Intervals : OfSamples(k) => LevelOnTime(k)

LEMMA TimeGoesOn ==
    ASSUME Typed, [Next]_vars
    PROVE  now \in Nat /\ now' \in Nat /\ now <= now' /\ trace' = trace
  <1>1. CASE Tick
    <2> DEFINE later == {m \in Moments : m > now}
    <2>1. later # {} /\ later \subseteq Nat /\ now' = Min(later)
      BY <1>1, AggregationAssumption DEF Tick
    <2>2. now' \in later
      BY <2>1, LeastOf
    <2>3. QED
      BY <1>1, <2>1, <2>2 DEF Tick, Typed
  <1>2. CASE ~Tick
    <2>1. now' = now /\ trace' = trace
      BY <1>2 DEF Next, RunStep, ProcessLeftRows, StoreSamples, UpdateMetaData, FindMissing, CreateMissing, InterruptUpload,
                  AggegateAllSpheres, ListStones, FindLastPoint, ReadPage, CreateAggregates, DeleteFragments,
                  StoreTime, InterruptRun, CollectGarbage, vars
    <2>2. QED
      BY <2>1 DEF Typed
  <1>3. QED
    BY <1>1, <1>2

\* A row on a point of the level is a sample, and its aggregate another row.
LEMMA PointRow ==
    ASSUME AggregateInv, NEW k \in DOMAIN Intervals, OfSamples(k), NEW row \in OnPoint(k)
    PROVE  /\ row \in Stored /\ row.stone \in Stones /\ row.t \in Nat \ {0}
           /\ row.interval = Intervals[k].basedOnInterval /\ isOnSamplePoint(k, row.t)
           /\ \E i \in DOMAIN trace[row.stone] : row = Traced(row.stone, i) /\ row.t = trace[row.stone][i].t
           /\ Above(k, row) = Sample(row.stone, row.t, row.e, Target(k))
           /\ Target(k) \in Targets /\ Target(k) # "fragment"
  <1>1. /\ row \in Stored /\ IsRow(row) /\ Rooted(row) /\ Typed
        /\ row.interval = Intervals[k].basedOnInterval /\ isOnSamplePoint(k, row.t)
    BY DEF OnPoint, AggregateInv, RowsInv
  <1>2. PICK i \in DOMAIN trace[row.stone] : row = Traced(row.stone, i)
    BY <1>1 DEF Rooted, OfSamples
  <1>3. row.t = trace[row.stone][i].t
    BY <1>2 DEF Traced, Sample
  <1>4. row.stone \in Stones /\ row = Sample(row.stone, row.t, row.e, row.interval)
    BY <1>1 DEF IsRow
  <1>5. row.t \in Nat \ {0}
    <2> DEFINE Points == [t : Nat \ {0}, e : Nat, interval : {"5m", "fragment"}]
    <2>1. trace[row.stone] \in Seq(Points)
      BY <1>1, <1>4, TracesAssumption DEF Typed
    <2>2. \A point \in Points : point.t \in Nat \ {0}
      OBVIOUS
    <2> HIDE DEF Points
    <2>3. QED
      BY <1>2, <1>3, <2>1, <2>2, ElementsOf
  <1>6. Above(k, row) = Sample(row.stone, row.t, row.e, Target(k))
    BY <1>4 DEF Above, Sample
  <1>7. Target(k) \in Targets /\ Target(k) # "fragment"
    BY NoneIsTarget DEF Targets
  <1>8. QED
    BY <1>1, <1>2, <1>3, <1>4, <1>5, <1>6, <1>7

LEMMA OthersIdle ==
    ASSUME AggregateInv, NEW r \in Callers, stage[r] # "idle", NEW q \in Callers \ {r}
    PROVE  stage[q] = "idle" /\ run[q] = NoRun /\ BagToSet(run[q].samples) = {} /\ run[q].reading = {}
  <1>1. stage[q] = "idle"
    BY DEF AggregateInv, OneRunInv, OneRunAtATime
  <1>2. run[q] = NoRun
    BY <1>1 DEF AggregateInv, RunControl
  <1>3. QED
    BY <1>1, <1>2 DEF NoRun, BagToSet, EmptyBag, SetToBag

\* An aggregate goes only when it is old enough.
LEMMA AggregateStays ==
    ASSUME UsageInv, ListsRows, [Next]_vars, NEW z \in Stored, z.interval \in Targets
    PROVE  z \in Stored' \/ (z.interval \in DOMAIN Keep /\ z.t < now - Keep[z.interval])
  <1>1. CASE UNCHANGED stoneEnergyProcessed
    BY <1>1 DEF Stored
  <1>2. ASSUME NEW stones \in SUBSET Stones,
               ProcessLeftRows(stones) \/ \E u \in Uploads : StoreSamples(u, stones)
        PROVE  z \in Stored'
    BY <1>2 DEF ProcessLeftRows, StoreSamples, ProcessMeasurements, Stored, BagToSet, SetToBag, (+)
  <1>3. ASSUME NEW r \in Callers, CreateAggregates(r) PROVE z \in Stored'
    BY <1>3 DEF CreateAggregates, Stored, BagToSet, (+)
  <1>4. ASSUME NEW rows, stoneEnergyProcessed' = Without(rows), z \notin rows PROVE z \in Stored'
    BY <1>4 DEF Without, Stored, BagToSet
  <1>5. ASSUME NEW r \in Callers, DeleteFragments(r) PROVE z \in Stored'
    BY <1>4, <1>5, NoneIsTarget DEF DeleteFragments, ListsRows
  <1>6. ASSUME NEW interval, CollectGarbage(interval)
        PROVE  z \in Stored' \/ (z.interval = interval /\ z.t < now - Keep[interval])
    BY <1>4, <1>6 DEF CollectGarbage
  <1>7. CASE Next
    <2>1. ASSUME NEW interval \in DOMAIN Keep, CollectGarbage(interval)
          PROVE  z \in Stored' \/ (z.interval \in DOMAIN Keep /\ z.t < now - Keep[z.interval])
      BY <1>6, <2>1
    <2>2. CASE ~\E interval \in DOMAIN Keep : CollectGarbage(interval)
      BY <1>1, <1>2, <1>3, <1>5, <1>7, <2>2
         DEF Next, RunStep, Tick, UpdateMetaData, FindMissing, CreateMissing, InterruptUpload,
             AggegateAllSpheres, ListStones, FindLastPoint, ReadPage, StoreTime, InterruptRun
    <2>3. QED
      BY <2>1, <2>2
  <1>8. QED
    BY <1>1, <1>7 DEF vars

LEMMA DoneStays ==
    ASSUME UsageInv, ListsRows, [Next]_vars, NEW k \in DOMAIN Intervals, OfSamples(k),
           NEW row \in OnPoint(k), Done(k, row)
    PROVE  Done(k, row)'
  <1>1. AggregateInv /\ Typed
    BY DEF UsageInv, AggregateInv
  <1>2. now \in Nat /\ now' \in Nat /\ now <= now'
    BY <1>1, TimeGoesOn
  <1>3. row.t \in Nat /\ Above(k, row) = Sample(row.stone, row.t, row.e, Target(k)) /\ Target(k) \in Targets
    BY <1>1, PointRow
  <1>4. Above(k, row).interval = Target(k) /\ Above(k, row).t = row.t
    BY <1>3 DEF Sample
  <1>5. Target(k) \in DOMAIN Keep => Keep[Target(k)] \in Nat
    BY AggregationAssumption
  <1>6. CASE Target(k) \in DOMAIN Keep /\ row.t < now - Keep[Target(k)]
    BY <1>2, <1>3, <1>5, <1>6 DEF Done
  <1>7. CASE Above(k, row) \in Stored
    <2>1. Above(k, row) \in Stored' \/ (Target(k) \in DOMAIN Keep /\ row.t < now - Keep[Target(k)])
      BY <1>3, <1>4, <1>7, AggregateStays
    <2>2. CASE Above(k, row) \in Stored'
      BY <2>2 DEF Done, Above
    <2>3. QED
      BY <1>6, <2>1, <2>2
  <1>8. QED
    BY <1>6, <1>7 DEF Done

LEMMA UploadTypedStep ==
    ASSUME UsageInv, UploadTyped, ListsRows, [Next]_vars
    PROVE  UploadTyped'
  <1>1. HasRow \subseteq Stones
    BY DEF HasRow
  <1>2. CASE UNCHANGED <<upStage, brought, newer, missed>>
    BY <1>2 DEF UploadTyped
  <1>3. ASSUME NEW u \in Uploads, EndUpload(u), newer' \in SUBSET Stones, missed' \in SUBSET Stones
        PROVE  UploadTyped'
    BY <1>3 DEF EndUpload, UploadTyped, UploadStages
  <1>4. ASSUME NEW u \in Uploads, NEW stones \in SUBSET Stones, StoreSamples(u, stones) PROVE UploadTyped'
    BY <1>4 DEF StoreSamples, UploadTyped, UploadStages
  <1>5. ASSUME NEW u \in Uploads, UpdateMetaData(u) PROVE UploadTyped'
    <2>1. newer' \in SUBSET Stones /\ missed' \in SUBSET Stones
      BY <1>1, <1>5 DEF UpdateMetaData, MissedBy, UploadTyped
    <2>2. CASE EndUpload(u)
      BY <1>3, <2>1, <2>2
    <2>3. CASE ~EndUpload(u)
      <3>1. upStage' = [upStage EXCEPT ![u] = "finding"] /\ brought' = brought /\ upStage[u] = "updating"
        BY <1>5, <2>3 DEF UpdateMetaData
      <3>2. QED
        BY <2>1, <3>1 DEF UploadTyped, UploadStages
    <2>4. QED
      BY <2>2, <2>3
  <1>6. ASSUME NEW u \in Uploads, FindMissing(u) PROVE UploadTyped'
    <2>1. newer' \in SUBSET Stones /\ missed' \in SUBSET Stones
      BY <1>6 DEF FindMissing, UploadTyped
    <2>2. CASE EndUpload(u)
      BY <1>3, <2>1, <2>2
    <2>3. CASE ~EndUpload(u)
      <3>1. upStage' = [upStage EXCEPT ![u] = "creating"] /\ brought' = [brought EXCEPT ![u] = Stones \ HasRow]
        BY <1>6, <2>3 DEF FindMissing
      <3>2. QED
        BY <2>1, <3>1 DEF UploadTyped, UploadStages
    <2>4. QED
      BY <2>2, <2>3
  <1>7. ASSUME NEW u \in Uploads, CreateMissing(u) \/ InterruptUpload(u) PROVE UploadTyped'
    <2>1. newer' \in SUBSET Stones /\ missed' \in SUBSET Stones
      BY <1>7 DEF CreateMissing, InterruptUpload, MissedBy, UploadTyped
    <2>2. QED
      BY <1>3, <1>7, <2>1 DEF CreateMissing, InterruptUpload
  <1>8. ASSUME NEW r \in Callers, StoreTime(r) PROVE UploadTyped'
    BY <1>8 DEF StoreTime, UploadTyped, upVars
  <1>9. ASSUME NEW stones \in SUBSET Stones, ProcessLeftRows(stones) PROVE UploadTyped'
    BY <1>9 DEF ProcessLeftRows, UploadTyped, upVars
  <1>10. CASE Next
    <2>1. CASE \E u \in Uploads :
                \/ \E stones \in SUBSET Stones : StoreSamples(u, stones)
                \/ UpdateMetaData(u) \/ FindMissing(u) \/ CreateMissing(u) \/ InterruptUpload(u)
      BY <1>4, <1>5, <1>6, <1>7, <2>1
    <2>2. CASE Tick \/ \E interval \in DOMAIN Keep : CollectGarbage(interval)
      BY <1>2, <2>2 DEF Tick, CollectGarbage, upVars
    <2>3. ASSUME NEW r \in Callers, AggegateAllSpheres(r) \/ RunStep(r) \/ InterruptRun(r) PROVE UploadTyped'
      BY <1>2, <1>8, <2>3 DEF AggegateAllSpheres, RunStep, InterruptRun, ListStones, FindLastPoint, ReadPage,
                              CreateAggregates, DeleteFragments, upVars
    <2>4. QED
      BY <1>9, <1>10, <2>1, <2>2, <2>3 DEF Next
  <1>11. QED
    BY <1>2, <1>10 DEF vars, upVars

\* What a page changes.
LEMMA PageRead ==
    ASSUME AggregateInv, NEW r \in Callers, ReadPage(r)
    PROVE  /\ UNCHANGED <<trace, now, sent, stoneEnergyProcessed, metaData, newer, upVars, missed>>
           /\ DOMAIN run' = Callers /\ \A q \in Callers \ {r} : run'[q] = run[q] /\ stage'[q] = stage[q]
           /\ stage[r] = "pages" /\ run'[r].level = run[r].level /\ run'[r].listed = run[r].listed
           /\ run'[r].todo = run[r].todo
           /\ \E st \in Stones :
                LET page == Page(run[r].level, st, run[r].fromDate)
                IN  /\ run[r].reading = {st}
                    /\ BagToSet(run'[r].samples) = BagToSet(run[r].samples) \cup Added(run[r].level, st, run[r].fromDate)
                    /\ run'[r].used = run[r].used \cup UNION {UsedUp(run[r].level, Predecessor(page, q), q) : q \in page}
                    /\ run'[r].fromDate = IF page = {} THEN run[r].fromDate ELSE NextFrom(page)
                    /\ IF Cardinality(page) = Limit THEN run'[r].reading = {st} /\ stage'[r] = "pages"
                                                    ELSE run'[r].reading = {} /\ stage'[r] = "stones"
  <1> DEFINE x == run[r]
             k == x.level
             from == x.fromDate
  <1>1. /\ RunControl(r) /\ DOMAIN run = Callers /\ stage \in [Callers -> RunStages] /\ stage[r] = "pages"
    BY DEF AggregateInv, Typed, OneRunInv, ReadPage
  <1>2. IsRun(x)
    BY <1>1 DEF RunControl
  <1>3. PICK st \in x.reading :
          LET page == Page(k, st, from)
          IN  /\ run' = [run EXCEPT
                    ![r].samples = @ (+) SetToBag(UNION {PointSamples(k, Predecessor(page, q), q) : q \in page}),
                    ![r].used = @ \cup UNION {UsedUp(k, Predecessor(page, q), q) : q \in page},
                    ![r].fromDate = IF page = {} THEN @ ELSE NextFrom(page),
                    ![r].reading = IF Cardinality(page) = Limit THEN @ ELSE {}]
              /\ stage' = [stage EXCEPT ![r] = IF Cardinality(page) = Limit THEN "pages" ELSE "stones"]
    BY DEF ReadPage
  <1>4. st \in Stones /\ x.reading = {st}
    BY <1>1, <1>2 DEF RunControl, IsRun
  <1> DEFINE page == Page(k, st, from)
             samples == x.samples (+) SetToBag(Added(k, st, from))
             next == IF page = {} THEN from ELSE NextFrom(page)
             used == x.used \cup UNION {UsedUp(k, Predecessor(page, q), q) : q \in page}
             reading == IF Cardinality(page) = Limit THEN x.reading ELSE {}
  <1>5. /\ run'[r] = [x EXCEPT !.samples = samples, !.used = used, !.fromDate = next, !.reading = reading]
        /\ DOMAIN run' = Callers /\ \A q \in Callers \ {r} : run'[q] = run[q] /\ stage'[q] = stage[q]
        /\ stage'[r] = IF Cardinality(page) = Limit THEN "pages" ELSE "stones"
    BY <1>1, <1>3 DEF Added
  <1>6. BagToSet(samples) = BagToSet(x.samples) \cup Added(k, st, from)
    <2> DEFINE added == Added(k, st, from)
    <2> HIDE DEF added
    <2>1. BagToSet(x.samples (+) SetToBag(added)) = BagToSet(x.samples) \cup added
      BY DEF BagToSet, SetToBag, (+)
    <2>2. QED
      BY <2>1 DEF added
  <1>7. /\ run'[r].level = k /\ run'[r].listed = x.listed /\ run'[r].todo = x.todo /\ run'[r].reading = reading
        /\ run'[r].fromDate = next /\ run'[r].samples = samples /\ run'[r].used = used
    <2> HIDE DEF samples, used, next, reading
    <2>1. x = [listed |-> x.listed, level |-> x.level, todo |-> x.todo, reading |-> x.reading,
               fromDate |-> x.fromDate, samples |-> x.samples, used |-> x.used]
      BY <1>2 DEF IsRun
    <2>2. QED
      BY <1>5, <2>1
  <1>8. UNCHANGED <<trace, now, sent, stoneEnergyProcessed, metaData, newer, upVars, missed>>
    BY DEF ReadPage
  <1> HIDE DEF samples
  <1>9. /\ run[r].reading = {st}
        /\ BagToSet(run'[r].samples) = BagToSet(run[r].samples) \cup Added(k, st, from)
        /\ run'[r].used = run[r].used \cup UNION {UsedUp(k, Predecessor(page, q), q) : q \in page}
        /\ run'[r].fromDate = IF page = {} THEN run[r].fromDate ELSE NextFrom(page)
        /\ IF Cardinality(page) = Limit THEN run'[r].reading = {st} /\ stage'[r] = "pages"
                                        ELSE run'[r].reading = {} /\ stage'[r] = "stones"
    BY <1>4, <1>5, <1>6, <1>7
  <1>10. QED
    BY <1>1, <1>4, <1>5, <1>7, <1>8, <1>9

\* What a page uses up are fragments.
LEMMA UsedAreFragments ==
    ASSUME UsageInv, ListsRows, NEW r \in Callers, ReadPage(r), NEW q \in Callers, NEW row \in run'[q].used
    PROVE  row.interval = "fragment"
  <1>1. CASE row \in run[q].used
    BY <1>1 DEF ListsRows
  <1>2. CASE row \notin run[q].used
    <2>1. PICK st \in Stones :
            LET page == Page(run[r].level, st, run[r].fromDate)
            IN  run'[r].used = run[r].used \cup UNION {UsedUp(run[r].level, Predecessor(page, o), o) : o \in page}
      BY PageRead DEF UsageInv
    <2>2. q = r
      BY <1>2, PageRead DEF UsageInv
    <2>3. PICK o \in Page(run[r].level, st, run[r].fromDate) :
              row \in UsedUp(run[r].level, Predecessor(Page(run[r].level, st, run[r].fromDate), o), o)
      BY <1>2, <2>1, <2>2
    <2>4. QED
      BY <2>3 DEF UsedUp
  <1>3. QED
    BY <1>1, <1>2

LEMMA ListsRowsStep ==
    ASSUME UsageInv, UploadTyped, ListsRows, [Next]_vars
    PROVE  ListsRows'
  <1>1. /\ metaData \in [Stones -> Nat] /\ DOMAIN run = Callers /\ newer \subseteq HasRow
        /\ \A r \in Callers : IsRun(run[r])
    BY DEF UsageInv, AggregateInv, Typed, ListsRows, RunControl
  <1>2. newer' \subseteq HasRow'
    <2>1. CASE UNCHANGED <<newer, metaData>>
      BY <1>1, <2>1 DEF HasRow
    <2>2. ASSUME NEW u \in Uploads, UpdateMetaData(u) PROVE newer' \subseteq HasRow'
      BY <1>1, <2>2 DEF UpdateMetaData, HasRow
    <2>3. ASSUME NEW u \in Uploads, CreateMissing(u) PROVE newer' \subseteq HasRow'
      <3>1. brought[u] \subseteq Stones
        BY DEF UploadTyped
      <3>2. \A st \in Stones : metaData'[st] = IF st \in brought[u] THEN metaData[st] + 1 ELSE metaData[st]
        BY <2>3 DEF CreateMissing
      <3>3. brought[u] \subseteq HasRow' /\ HasRow \subseteq HasRow'
        BY <1>1, <3>1, <3>2 DEF HasRow
      <3>4. QED
        BY <1>1, <2>3, <3>3 DEF CreateMissing
    <2>4. ASSUME NEW r \in Callers, StoreTime(r) PROVE newer' \subseteq HasRow'
      BY <2>4 DEF StoreTime
    <2>5. QED
      BY <2>1, <2>2, <2>3, <2>4
         DEF Next, vars, RunStep, Tick, ProcessLeftRows, StoreSamples, FindMissing, InterruptUpload, AggegateAllSpheres, ListStones,
             FindLastPoint, ReadPage, CreateAggregates, DeleteFragments, InterruptRun, CollectGarbage
  <1>3. \A r \in Callers : \A row \in run'[r].used : row.interval = "fragment"
    <2>1. CASE UNCHANGED run
      BY <2>1 DEF ListsRows
    <2>2. ASSUME NEW r \in Callers, \A q \in Callers \ {r} : run'[q] = run[q],
                 run'[r].used \subseteq run[r].used
          PROVE  \A q \in Callers : \A row \in run'[q].used : row.interval = "fragment"
      BY <2>2 DEF ListsRows
    <2>3. ASSUME NEW r \in Callers, EndRun(r)
          PROVE  \A q \in Callers : \A row \in run'[q].used : row.interval = "fragment"
      BY <1>1, <2>2, <2>3 DEF EndRun, NoRun
    <2>4. ASSUME NEW r \in Callers, ListStones(r)
          PROVE  \A q \in Callers : \A row \in run'[q].used : row.interval = "fragment"
      <3>1. CASE EndRun(r)
        BY <2>3, <3>1
      <3>2. CASE ~EndRun(r)
        <4>1. \E rows : run' = [run EXCEPT ![r].listed = rows, ![r].todo = rows]
          BY <2>4, <3>2 DEF ListStones
        <4>2. QED
          BY <1>1, <2>2, <4>1 DEF IsRun
      <3>3. QED
        BY <3>1, <3>2
    <2>5. ASSUME NEW r \in Callers, NEW st \in Stones, FindLastPoint(r, st)
          PROVE  \A q \in Callers : \A row \in run'[q].used : row.interval = "fragment"
      <3>1. run' = [run EXCEPT ![r].todo[st] = @ - 1, ![r].reading = {st}, ![r].fromDate = LastTime(run[r].level, st)]
        BY <2>5 DEF FindLastPoint
      <3>2. QED
        BY <1>1, <2>2, <3>1 DEF IsRun
    <2>6. ASSUME NEW r \in Callers, CreateAggregates(r)
          PROVE  \A q \in Callers : \A row \in run'[q].used : row.interval = "fragment"
      <3>1. run' = [run EXCEPT ![r].samples = EmptyBag]
        BY <2>6 DEF CreateAggregates
      <3>2. QED
        BY <1>1, <2>2, <3>1 DEF IsRun
    <2>7. ASSUME NEW r \in Callers, DeleteFragments(r)
          PROVE  \A q \in Callers : \A row \in run'[q].used : row.interval = "fragment"
      <3>1. \/ run' = [run EXCEPT ![r].level = run[r].level + 1, ![r].used = {}, ![r].todo = run[r].listed]
            \/ run' = [run EXCEPT ![r].used = {}]
        BY <2>7 DEF DeleteFragments
      <3>2. run'[r].used = {} /\ \A q \in Callers \ {r} : run'[q] = run[q]
        BY <1>1, <3>1 DEF IsRun
      <3>3. QED
        BY <2>2, <3>2
    <2>8. ASSUME NEW r \in Callers, ReadPage(r)
          PROVE  \A q \in Callers : \A row \in run'[q].used : row.interval = "fragment"
      BY <2>8, UsedAreFragments
    <2>9. QED
      BY <2>1, <2>3, <2>4, <2>5, <2>6, <2>7, <2>8
         DEF Next, vars, runVars, RunStep, Tick, ProcessLeftRows, StoreSamples, UpdateMetaData, FindMissing, CreateMissing,
             InterruptUpload,
             AggegateAllSpheres, StoreTime, InterruptRun, CollectGarbage
  <1>4. QED
    BY <1>2, <1>3 DEF ListsRows

\* The places of the aggregates and of the runs, when nothing is made and no run moves.
LEMMA PlacesKept ==
    ASSUME OnTimeInv, [Next]_vars, UNCHANGED <<sent, run>>, Stored' \subseteq Stored,
           NEW k \in DOMAIN Intervals, OfSamples(k)
    PROVE  /\ \A row \in OnPoint(k)' : row \in OnPoint(k) /\ TakenBefore(k, row)'
           /\ \A st \in Stones : BeforeWhatComes(k, st)'
  <1>1. /\ UsageInv /\ ListsRows /\ AggregateInv /\ Typed
        /\ \A row \in OnPoint(k) : TakenBefore(k, row)
        /\ \A st \in Stones : BeforeWhatComes(k, st)
    BY DEF OnTimeInv, LevelOnTime, UsageInv, AggregateInv
  <1>2. trace' = trace
    BY <1>1, TimeGoesOn
  <1>3. \A st : Made(k, st)' \subseteq Made(k, st)
    BY DEF Made, Rows
  <1>4. \A row : InHand(k, row)' <=> InHand(k, row)
    BY DEF InHand, Above
  <1>5. ASSUME NEW row \in OnPoint(k)' PROVE row \in OnPoint(k) /\ TakenBefore(k, row)'
    <2>1. row \in OnPoint(k)
      BY DEF OnPoint
    <2>2. TakenBefore(k, row) /\ (Done(k, row) => Done(k, row)')
      BY <1>1, <2>1, DoneStays
    <2>3. QED
      BY <1>3, <1>4, <2>1, <2>2 DEF TakenBefore
  <1>6. ASSUME NEW st \in Stones PROVE BeforeWhatComes(k, st)'
    BY <1>1, <1>2, <1>3 DEF BeforeWhatComes
  <1>7. QED
    BY <1>5, <1>6

\* Time, the garbage collection, and a call that starts.
LEMMA QuietOnTime ==
    ASSUME OnTimeInv, [Next]_vars, UNCHANGED <<sent, metaData, newer, upVars, run, missed>>, Stored' \subseteq Stored,
           \A q \in Callers : stage'[q] = stage[q] \/ (stage[q] = "idle" /\ stage'[q] = "listing"),
           NEW k \in DOMAIN Intervals, OfSamples(k)
    PROVE  LevelOnTime(k)'
  <1>1. UsageInv /\ ListsRows /\ \A row \in OnPoint(k) : NotForgotten(k, row)
    BY DEF OnTimeInv, LevelOnTime
  <1>2. Listing' = Listing
    BY DEF Listing
  <1>3. ASSUME NEW row \in OnPoint(k)' PROVE NotForgotten(k, row)'
    <2>1. row \in OnPoint(k) /\ NotForgotten(k, row)
      BY <1>1, <1>3, PlacesKept
    <2>2. Done(k, row) => Done(k, row)'
      BY <1>1, <2>1, DoneStays
    <2>3. Waiting(row.stone) => Waiting(row.stone)'
      BY DEF Waiting, HasRow, upVars
    <2>4. \A r \in Callers : Ahead(k, r, row) => Ahead(k, r, row)'
      BY DEF Ahead
    <2>5. InHand(k, row) => InHand(k, row)'
      BY DEF InHand, Above
    <2>6. QED
      BY <1>2, <2>1, <2>2, <2>3, <2>4, <2>5 DEF NotForgotten
  <1>4. QED
    BY <1>3, PlacesKept DEF LevelOnTime

\* The samples an upload makes come after whatever has been aggregated, and wait for it, or
\* no metadata stands up for them.
LEMMA StoreOnTime ==
    ASSUME OnTimeInv, UsageInv', NEW stones \in SUBSET Stones,
           ProcessLeftRows(stones) \/ \E u \in Uploads : StoreSamples(u, stones),
           NEW k \in DOMAIN Intervals, OfSamples(k)
    PROVE  LevelOnTime(k)'
  <1>1. /\ UsageInv /\ UploadTyped /\ ListsRows /\ AggregateInv /\ Typed /\ Typed'
        /\ \A row \in OnPoint(k) : NotForgotten(k, row) /\ TakenBefore(k, row)
        /\ \A st \in Stones : BeforeWhatComes(k, st)
        /\ AggregateInv'
    BY DEF OnTimeInv, LevelOnTime, UsageInv, AggregateInv
  <1>2. /\ UNCHANGED <<trace, now, metaData, newer, run, stage>> /\ missed \subseteq missed'
        /\ ProcessMeasurements(stones)
    BY DEF StoreSamples, ProcessLeftRows, runVars
  <1>3. /\ \A st \in Stones : Waiting(st) => Waiting(st)'
        /\ \A st \in stones : st \in missed' \/ Waiting(st)'
    <2>1. HasRow' = HasRow
      BY <1>2 DEF HasRow
    <2>2. CASE ProcessLeftRows(stones)
      BY <2>1, <2>2 DEF ProcessLeftRows, Waiting, upVars
    <2>3. ASSUME NEW u \in Uploads, StoreSamples(u, stones)
          PROVE  /\ \A st \in Stones : Waiting(st) => Waiting(st)'
                 /\ \A st \in stones : st \in missed' \/ Waiting(st)'
      <3>1. /\ brought[u] = {}
            /\ \A w \in Uploads \ {u} : upStage'[w] = upStage[w] /\ brought'[w] = brought[w]
            /\ upStage'[u] = "updating" /\ brought'[u] = stones
        BY <1>1, <2>3 DEF StoreSamples, UploadTyped
      <3>2. QED
        BY <2>1, <3>1 DEF Waiting
    <2>4. QED
      BY <2>2, <2>3
  <1>4. ASSUME NEW row \in Stored' \ Stored
        PROVE  /\ row.interval \notin Targets /\ row.stone \in stones
               /\ \E i \in DOMAIN trace[row.stone] : i > sent[row.stone] /\ row.t = trace[row.stone][i].t
    <2> DEFINE samples == UNION {{Traced(st, i) : i \in Due(st)} : st \in stones}
    <2>1. row \in samples
      BY <1>2 DEF ProcessMeasurements, Stored, BagToSet, SetToBag, (+)
    <2>2. PICK st \in stones : row \in {Traced(st, i) : i \in Due(st)}
      BY <2>1
    <2>3. PICK i \in Due(st) : row = Traced(st, i)
      BY <2>2
    <2>4. trace[st] \in Seq([t : Nat \ {0}, e : Nat, interval : {"5m", "fragment"}])
      BY <1>1, TracesAssumption DEF Typed
    <2>5. DOMAIN trace[st] = 1..Len(trace[st]) /\ Len(trace[st]) \in Nat /\ sent[st] \in Nat
      BY <1>1, <2>4 DEF Typed
    <2>6. i \in DOMAIN trace[st] /\ i > sent[st]
      BY <2>5 DEF Due
    <2>7. row.stone = st /\ row.t = trace[st][i].t /\ row.interval = trace[st][i].interval
      BY <2>3 DEF Traced, Sample
    <2>8. QED
      BY <1>1, <2>6, <2>7, TraceRows, NoneIsTarget
  <1>5. Stored \subseteq Stored'
    BY <1>2 DEF ProcessMeasurements, Stored, BagToSet, SetToBag, (+)
  <1>6. Target(k) \in Targets /\ \A st : Made(k, st)' = Made(k, st)
    BY <1>2, <1>4, <1>5 DEF Made, Rows, Targets
  <1>7. \A z \in Stored' : z.interval = Target(k) => z \in Stored
    BY <1>4, <1>6
  <1>8. \A st \in Stones : sent[st] \in Nat /\ sent'[st] \in Nat /\ sent[st] <= sent'[st]
    <2> SUFFICES ASSUME NEW st \in Stones PROVE sent[st] <= sent'[st]
      BY <1>1 DEF Typed
    <2>1. CASE st \in stones
      <3>1. trace[st] \in Seq([t : Nat \ {0}, e : Nat, interval : {"5m", "fragment"}])
        BY <1>1, TracesAssumption DEF Typed
      <3>2. DOMAIN trace[st] = 1..Len(trace[st]) /\ Len(trace[st]) \in Nat /\ sent[st] \in Nat
        BY <1>1, <3>1 DEF Typed
      <3>3. Due(st) # {} /\ Due(st) \subseteq -1..Len(trace[st]) /\ \A i \in Due(st) : sent[st] < i
        BY <1>2, <2>1, <3>2 DEF Due, ProcessMeasurements
      <3>4. sent'[st] = Max(Due(st)) /\ Max(Due(st)) \in Due(st)
        BY <1>2, <2>1, <3>2, <3>3, GreatestOf DEF ProcessMeasurements
      <3>5. QED
        BY <1>1, <3>2, <3>3, <3>4 DEF Typed
    <2>2. CASE st \notin stones
      BY <1>1, <1>2, <2>2 DEF ProcessMeasurements, Typed
    <2>3. QED
      BY <2>1, <2>2
  <1>9. \A row : (InHand(k, row)' <=> InHand(k, row)) /\ (Done(k, row) => Done(k, row)')
    BY <1>2, <1>5 DEF InHand, Done, Above
  <1>10. ASSUME NEW row \in OnPoint(k)' PROVE NotForgotten(k, row)' /\ TakenBefore(k, row)'
    <2>1. CASE row \in Stored
      <3>1. row \in OnPoint(k)
        BY <1>10, <2>1 DEF OnPoint
      <3>2. NotForgotten(k, row) /\ TakenBefore(k, row)
        BY <1>1, <3>1
      <3>3. Waiting(row.stone) => Waiting(row.stone)'
        BY <1>1, <1>3, <3>1, PointRow
      <3>4. (\A r \in Callers : Ahead(k, r, row) => Ahead(k, r, row)') /\ Listing' = Listing
        BY <1>2 DEF Ahead, Listing
      <3>5. NotForgotten(k, row)'
        BY <1>2, <1>9, <3>2, <3>3, <3>4 DEF NotForgotten
      <3>6. TakenBefore(k, row)'
        BY <1>2, <1>6, <1>7, <1>9, <3>2 DEF TakenBefore
      <3>7. QED
        BY <3>5, <3>6
    <2>2. CASE row \notin Stored
      <3>1. row \in Stored' \ Stored
        BY <1>10, <2>2 DEF OnPoint
      <3>2. PICK i \in DOMAIN trace[row.stone] : i > sent[row.stone] /\ row.t = trace[row.stone][i].t
        BY <1>4, <3>1
      <3>3. row.stone \in stones /\ row.stone \in Stones
        BY <1>4, <3>1
      <3>4. row.stone \in missed' \/ Waiting(row.stone)'
        BY <1>3, <3>3
      <3>5. /\ \A z \in Made(k, row.stone) : z.t < row.t
            /\ \A r \in Callers : (run[r].level = k /\ row.stone \in run[r].reading) => run[r].fromDate < row.t
        BY <1>1, <3>2, <3>3 DEF BeforeWhatComes
      <3>6. row.t \in Nat /\ (\A z \in Made(k, row.stone) : z.t \in Nat) /\ \A r \in Callers : run[r].fromDate \in Nat
        BY <1>1, <3>2, <3>3, TraceRows, RowsTyped DEF Made, AggregateInv, RunControl, IsRun
      <3>7. TakenBefore(k, row)'
        <4>1. \A z \in Made(k, row.stone) : ~(row.t <= z.t)
          BY <3>5, <3>6
        <4>2. \A z \in Stored' : (z.stone = row.stone /\ z.interval = Target(k)) => z \in Made(k, row.stone)
          BY <1>7 DEF Made, Rows
        <4>3. \A r \in Callers : ~(run[r].level = k /\ row.stone \in run[r].reading /\ row.t <= run[r].fromDate)
          BY <3>5, <3>6
        <4>4. QED
          BY <1>2, <1>6, <4>1, <4>2, <4>3 DEF TakenBefore
      <3>8. QED
        BY <3>4, <3>7 DEF NotForgotten
    <2>3. QED
      BY <2>1, <2>2
  <1>11. ASSUME NEW st \in Stones PROVE BeforeWhatComes(k, st)'
    <2> SUFFICES ASSUME NEW i \in DOMAIN trace[st], i > sent'[st]
                 PROVE  /\ \A z \in Made(k, st) : z.t < trace[st][i].t
                        /\ \A r \in Callers : (run[r].level = k /\ st \in run[r].reading) => run[r].fromDate < trace[st][i].t
      BY <1>2, <1>6 DEF BeforeWhatComes
    <2>1. trace[st] \in Seq([t : Nat \ {0}, e : Nat, interval : {"5m", "fragment"}])
      BY <1>1, TracesAssumption DEF Typed
    <2>2. i \in Int
      BY <2>1
    <2>3. i > sent[st]
      BY <1>8, <2>2
    <2>4. QED
      BY <1>1, <2>3 DEF BeforeWhatComes
  <1>12. QED
    BY <1>10, <1>11 DEF LevelOnTime

\* The metadata an upload writes: whoever waited for it is newer or missed afterwards,
\* or goes on waiting.
LEMMA MetaDataOnTime ==
    ASSUME OnTimeInv, [Next]_vars, NEW u \in Uploads,
           UpdateMetaData(u) \/ FindMissing(u) \/ CreateMissing(u) \/ InterruptUpload(u),
           NEW k \in DOMAIN Intervals, OfSamples(k)
    PROVE  LevelOnTime(k)'
  <1>1. /\ UsageInv /\ UploadTyped /\ ListsRows /\ AggregateInv
        /\ \A row \in OnPoint(k) : NotForgotten(k, row)
    BY DEF OnTimeInv, LevelOnTime, UsageInv
  <1>2. UNCHANGED <<sent, stoneEnergyProcessed, run, stage>> /\ Stored' = Stored
    BY DEF UpdateMetaData, FindMissing, CreateMissing, InterruptUpload, runVars, Stored
  <1>3. /\ \A w \in Uploads \ {u} : upStage'[w] = upStage[w] /\ brought'[w] = brought[w]
        /\ Listing' = Listing
    BY <1>1, <1>2 DEF UpdateMetaData, FindMissing, CreateMissing, InterruptUpload, EndUpload, UploadTyped, Listing
  <1>4. ASSUME NEW row \in OnPoint(k), Done(k, row) \/ InHand(k, row) \/ \E r \in Callers : Ahead(k, r, row)
        PROVE  /\ Done(k, row) => Done(k, row)'
               /\ InHand(k, row) => InHand(k, row)'
               /\ \A r \in Callers : Ahead(k, r, row) => Ahead(k, r, row)'
    BY <1>1, <1>2, DoneStays DEF InHand, Above, Ahead
  <1>5. ASSUME NEW st \in Stones,
               \/ st \in missed \/ Waiting(st) \/ (st \in newer /\ Listing = {})
        PROVE  \/ st \in missed' \/ Waiting(st)' \/ (st \in newer' /\ Listing' = {})
    <2>1. CASE UpdateMetaData(u)
      <3>1. /\ upStage[u] = "updating" /\ newer' = newer \cup HasRow /\ metaData' = metaData
            /\ missed' = MissedBy(HasRow, brought[u] \ HasRow)
                 \/ (/\ missed' = MissedBy(HasRow, {})
                     /\ upStage' = [upStage EXCEPT ![u] = "finding"] /\ brought' = brought)
        BY <2>1 DEF UpdateMetaData
      <3>2. CASE st \in HasRow
        BY <1>3, <3>1, <3>2 DEF MissedBy
      <3>3. CASE st \notin HasRow /\ (st \in missed \/ (st \in newer /\ Listing = {}))
        BY <1>3, <3>1, <3>3 DEF MissedBy
      <3>4. ASSUME st \notin HasRow, NEW w \in Uploads \ {u}, st \in brought[w],
                   upStage[w] = "finding" => st \notin HasRow
            PROVE  Waiting(st)'
        BY <1>3, <3>1, <3>4 DEF Waiting, HasRow
      <3>5. CASE st \notin HasRow /\ st \in brought[u]
        <4>1. CASE missed' = MissedBy(HasRow, brought[u] \ HasRow)
          BY <3>5, <4>1 DEF MissedBy
        <4>2. CASE missed' # MissedBy(HasRow, brought[u] \ HasRow)
          BY <3>1, <3>5, <4>2 DEF Waiting, HasRow
        <4>3. QED
          BY <4>1, <4>2
      <3>6. QED
        BY <1>5, <3>2, <3>3, <3>4, <3>5 DEF Waiting
    <2>2. CASE FindMissing(u)
      <3>1. /\ upStage[u] = "finding" /\ UNCHANGED <<newer, missed, metaData>>
            /\ HasRow = Stones \/ (/\ upStage' = [upStage EXCEPT ![u] = "creating"]
                                   /\ brought' = [brought EXCEPT ![u] = Stones \ HasRow])
        BY <2>2 DEF FindMissing
      <3>2. ASSUME NEW w \in Uploads \ {u}, st \in brought[w], upStage[w] = "finding" => st \notin HasRow
            PROVE  Waiting(st)'
        BY <1>3, <3>1, <3>2 DEF Waiting, HasRow
      <3>3. CASE st \in brought[u] /\ st \notin HasRow
        <4>1. st \in brought'[u] /\ upStage'[u] = "creating"
          BY <1>1, <3>1, <3>3 DEF UploadTyped
        <4>2. QED
          BY <4>1 DEF Waiting
      <3>4. QED
        BY <1>3, <1>5, <3>1, <3>2, <3>3 DEF Waiting
    <2>3. CASE CreateMissing(u)
      <3>1. /\ upStage[u] = "creating" /\ newer' = newer \cup brought[u] /\ missed' = MissedBy(brought[u], {})
            /\ metaData' = [s \in Stones |-> IF s \in brought[u] THEN metaData[s] + 1 ELSE metaData[s]]
        BY <2>3 DEF CreateMissing
      <3>2. CASE st \in brought[u]
        BY <1>3, <3>1, <3>2 DEF MissedBy
      <3>3. CASE st \notin brought[u] /\ (st \in missed \/ (st \in newer /\ Listing = {}))
        BY <1>3, <3>1, <3>3 DEF MissedBy
      <3>4. ASSUME st \notin brought[u], NEW w \in Uploads \ {u}, st \in brought[w],
                   upStage[w] = "finding" => st \notin HasRow
            PROVE  Waiting(st)'
        BY <1>3, <3>1, <3>4 DEF Waiting, HasRow
      <3>5. QED
        BY <1>5, <3>2, <3>3, <3>4 DEF Waiting
    <2>4. CASE InterruptUpload(u)
      <3>1. missed' = missed \cup brought[u] /\ UNCHANGED <<newer, metaData>>
        BY <2>4 DEF InterruptUpload
      <3>2. ASSUME NEW w \in Uploads \ {u}, st \in brought[w], upStage[w] = "finding" => st \notin HasRow
            PROVE  Waiting(st)'
        BY <1>3, <3>1, <3>2 DEF Waiting, HasRow
      <3>3. QED
        BY <1>3, <1>5, <3>1, <3>2 DEF Waiting
    <2>5. QED
      BY <2>1, <2>2, <2>3, <2>4
  <1>6. newer \subseteq newer'
    BY DEF UpdateMetaData, FindMissing, CreateMissing, InterruptUpload
  <1>7. ASSUME NEW row \in OnPoint(k)' PROVE NotForgotten(k, row)'
    <2>1. row \in OnPoint(k) /\ NotForgotten(k, row) /\ row.stone \in Stones
      BY <1>1, <1>2, PointRow DEF OnPoint
    <2>2. QED
      BY <1>4, <1>5, <1>6, <2>1 DEF NotForgotten
  <1>8. QED
    BY <1>2, <1>7, PlacesKept DEF LevelOnTime

-----------------------------------------------------------------------------
(* The samples when a run moves.                                           *)

\* A run that has nothing in its hands, and the others, which have never anything.
LEMMA HandsAreEmpty ==
    ASSUME AggregateInv, NEW r \in Callers, stage[r] # "idle", BagToSet(run[r].samples) = {}, NEW k,
           NEW row, InHand(k, row)
    PROVE  FALSE
  BY OthersIdle DEF InHand

\* Every place is behind the samples that are done, when nothing is in memory any more.
LEMMA PlacesEmptied ==
    ASSUME OnTimeInv, [Next]_vars, UNCHANGED sent, Stored' \subseteq Stored,
           \A q \in Callers : BagToSet(run'[q].samples) = {} /\ run'[q].reading = {},
           NEW k \in DOMAIN Intervals, OfSamples(k)
    PROVE  /\ \A row \in OnPoint(k)' : row \in OnPoint(k) /\ TakenBefore(k, row)'
           /\ \A st \in Stones : BeforeWhatComes(k, st)'
  <1>1. /\ UsageInv /\ ListsRows /\ AggregateInv /\ Typed
        /\ \A row \in OnPoint(k) : TakenBefore(k, row)
        /\ \A st \in Stones : BeforeWhatComes(k, st)
    BY DEF OnTimeInv, LevelOnTime, UsageInv, AggregateInv
  <1>2. trace' = trace
    BY <1>1, TimeGoesOn
  <1>3. \A st : Made(k, st)' \subseteq {z \in Stored : z.stone = st /\ z.interval = Target(k)}
    BY DEF Made, Rows
  <1>4. \A st : Made(k, st)' \subseteq Made(k, st)
    BY <1>3 DEF Made, Rows
  <1>5. ASSUME NEW row \in OnPoint(k)' PROVE row \in OnPoint(k) /\ TakenBefore(k, row)'
    <2>1. row \in OnPoint(k)
      BY DEF OnPoint
    <2>2. TakenBefore(k, row) /\ (Done(k, row) => Done(k, row)')
      BY <1>1, <2>1, DoneStays
    <2>3. QED
      BY <1>3, <2>1, <2>2 DEF TakenBefore
  <1>6. ASSUME NEW st \in Stones PROVE BeforeWhatComes(k, st)'
    BY <1>1, <1>2, <1>4 DEF BeforeWhatComes
  <1>7. QED
    BY <1>5, <1>6

LEMMA EmptyHands == BagToSet(EmptyBag) = {} /\ BagToSet(NoRun.samples) = {} /\ NoRun.reading = {}
  BY DEF BagToSet, EmptyBag, SetToBag, NoRun

\* A run that ends: its stones stay newer, unless it has come to its end and has done them.
LEMMA EndOnTime ==
    ASSUME OnTimeInv, [Next]_vars, NEW r \in Callers, EndRun(r), stage[r] # "idle",
           UNCHANGED <<trace, now, sent, stoneEnergyProcessed, metaData, upVars, missed>>,
           newer' = newer \/ stage[r] = "ending",
           NEW k \in DOMAIN Intervals, OfSamples(k)
    PROVE  LevelOnTime(k)'
  <1>1. /\ UsageInv /\ ListsRows /\ AggregateInv /\ DOMAIN run = Callers /\ stage \in [Callers -> RunStages]
        /\ \A row \in OnPoint(k) : NotForgotten(k, row)
    BY DEF OnTimeInv, LevelOnTime, UsageInv, AggregateInv, Typed, OneRunInv
  <1>2. /\ run'[r] = NoRun /\ stage'[r] = "idle"
        /\ \A q \in Callers \ {r} : run'[q] = run[q] /\ stage'[q] = stage[q]
    BY <1>1 DEF EndRun
  <1>3. \A q \in Callers : BagToSet(run'[q].samples) = {} /\ run'[q].reading = {} /\ stage'[q] = "idle"
    BY <1>1, <1>2, OthersIdle, EmptyHands
  <1>4. Listing' = {}
    BY <1>3 DEF Listing
  <1>5. Stored' = Stored
    BY DEF Stored
  <1>6. ASSUME NEW row \in OnPoint(k)' PROVE NotForgotten(k, row)'
    <2>1. row \in OnPoint(k) /\ NotForgotten(k, row)
      BY <1>1, <1>5 DEF OnPoint
    <2>2. Done(k, row) => Done(k, row)'
      BY <1>1, <2>1, DoneStays
    <2>3. Waiting(row.stone) => Waiting(row.stone)'
      BY DEF Waiting, HasRow, upVars
    <2>4. CASE newer' = newer
      BY <1>4, <2>1, <2>2, <2>3, <2>4 DEF NotForgotten
    <2>5. CASE stage[r] = "ending"
      <3>1. RunControl(r)
        BY <1>1 DEF AggregateInv
      <3>2. BagToSet(run[r].samples) = {}
        BY <2>5, <3>1, EmptyHands DEF RunControl
      <3>3. ~InHand(k, row)
        BY <1>1, <3>2, HandsAreEmpty
      <3>4. \A q \in Callers : ~Ahead(k, q, row)
        BY <1>1, <2>5, OthersIdle DEF Ahead
      <3>5. Listing # {}
        BY <2>5 DEF Listing
      <3>6. QED
        BY <2>1, <2>2, <2>3, <3>3, <3>4, <3>5 DEF NotForgotten
    <2>6. QED
      BY <2>4, <2>5
  <1>7. QED
    BY <1>3, <1>5, <1>6, PlacesEmptied DEF LevelOnTime

\* A run that lists the stones is going to read whatever is newer.
LEMMA ListOnTime ==
    ASSUME OnTimeInv, [Next]_vars, NEW r \in Callers, ListStones(r), newer # {},
           NEW k \in DOMAIN Intervals, OfSamples(k)
    PROVE  LevelOnTime(k)'
  <1>1. /\ UsageInv /\ ListsRows /\ AggregateInv /\ DOMAIN run = Callers /\ stage \in [Callers -> RunStages]
        /\ \A row \in OnPoint(k) : NotForgotten(k, row)
        /\ metaData \in [Stones -> Nat]
    BY DEF OnTimeInv, LevelOnTime, UsageInv, AggregateInv, Typed, OneRunInv
  <1> DEFINE rows == [st \in Stones |-> IF st \in newer THEN metaData[st] ELSE 0]
  <1>2. /\ stage[r] = "listing" /\ run' = [run EXCEPT ![r].listed = rows, ![r].todo = rows]
        /\ stage' = [stage EXCEPT ![r] = "stones"]
        /\ UNCHANGED <<trace, now, sent, stoneEnergyProcessed, metaData, newer, upVars, missed>>
    BY DEF ListStones
  <1>3. run[r] = NoRun
    BY <1>1, <1>2 DEF AggregateInv, RunControl
  <1>4. /\ run'[r] = [NoRun EXCEPT !.listed = rows, !.todo = rows] /\ stage'[r] = "stones"
        /\ \A q \in Callers \ {r} : run'[q] = run[q] /\ stage'[q] = stage[q]
    BY <1>1, <1>2, <1>3
  <1>5. /\ run'[r].listed = rows /\ run'[r].todo = rows /\ run'[r].level = 1
        /\ run'[r].samples = EmptyBag /\ run'[r].reading = {}
    BY <1>4 DEF NoRun
  <1>6. \A q \in Callers : BagToSet(run'[q].samples) = {} /\ run'[q].reading = {}
    BY <1>1, <1>2, <1>4, <1>5, OthersIdle, EmptyHands
  <1>7. Stored' = Stored
    BY <1>2 DEF Stored
  <1>8. ASSUME NEW row \in OnPoint(k)' PROVE NotForgotten(k, row)'
    <2>1. row \in OnPoint(k) /\ NotForgotten(k, row) /\ row.stone \in Stones
      BY <1>1, <1>7, PointRow DEF OnPoint
    <2>2. Done(k, row) => Done(k, row)'
      BY <1>1, <2>1, DoneStays
    <2>3. Waiting(row.stone) => Waiting(row.stone)'
      BY <1>2 DEF Waiting, HasRow, upVars
    <2>4. ASSUME row.stone \in newer PROVE Ahead(k, r, row)'
      <3>1. rows[row.stone] > 0
        BY <1>1, <2>1, <2>4 DEF ListsRows, HasRow
      <3>2. k = 1 \/ 1 < k
        <4> DEFINE Levels == [targetInterval : STRING \ {"5m", "fragment"}, basedOnInterval : STRING, every : Nat \ {0}]
        <4>1. Intervals \in Seq(Levels)
          BY IntervalsAssumption
        <4> HIDE DEF Levels
        <4>2. k \in 1..Len(Intervals) /\ Len(Intervals) \in Nat
          BY <4>1
        <4>3. QED
          BY <4>2
      <3>3. QED
        BY <1>4, <1>5, <3>1, <3>2 DEF Ahead
    <2>5. QED
      BY <1>2, <2>1, <2>2, <2>3, <2>4 DEF NotForgotten, InHand
  <1>9. QED
    BY <1>2, <1>6, <1>7, <1>8, PlacesEmptied DEF LevelOnTime

\* The next level reads whatever was listed.
LEMMA DeleteOnTime ==
    ASSUME OnTimeInv, [Next]_vars, NEW r \in Callers, DeleteFragments(r),
           NEW k \in DOMAIN Intervals, OfSamples(k)
    PROVE  LevelOnTime(k)'
  <1>1. /\ UsageInv /\ ListsRows /\ AggregateInv /\ DOMAIN run = Callers /\ stage \in [Callers -> RunStages]
        /\ RunControl(r) /\ \A row \in OnPoint(k) : NotForgotten(k, row)
    BY DEF OnTimeInv, LevelOnTime, UsageInv, AggregateInv, Typed, OneRunInv
  <1>2. /\ stage[r] = "deleting" /\ stoneEnergyProcessed' = Without(run[r].used)
        /\ UNCHANGED <<trace, now, sent, metaData, newer, upVars, missed>>
    BY DEF DeleteFragments
  <1>3. IsRun(run[r]) /\ run[r].samples = EmptyBag /\ run[r].reading = {}
    BY <1>1, <1>2 DEF RunControl
  <1>4. /\ \A q \in Callers \ {r} : run'[q] = run[q] /\ stage'[q] = stage[q]
        /\ run'[r].samples = EmptyBag /\ run'[r].reading = {} /\ run'[r].listed = run[r].listed
        /\ run[r].level + 1 <= Len(Intervals) =>
              run'[r].level = run[r].level + 1 /\ run'[r].todo = run[r].listed /\ stage'[r] = "stones"
    <2>1. CASE run[r].level + 1 <= Len(Intervals)
      <3>1. /\ run' = [run EXCEPT ![r].level = run[r].level + 1, ![r].used = {}, ![r].todo = run[r].listed]
            /\ stage' = [stage EXCEPT ![r] = "stones"]
        BY <2>1 DEF DeleteFragments
      <3>2. QED
        BY <1>1, <1>3, <3>1 DEF IsRun
    <2>2. CASE ~(run[r].level + 1 <= Len(Intervals))
      <3>1. run' = [run EXCEPT ![r].used = {}] /\ stage' = [stage EXCEPT ![r] = "ending"]
        BY <2>2 DEF DeleteFragments
      <3>2. QED
        BY <1>1, <1>3, <2>2, <3>1 DEF IsRun
    <2>3. QED
      BY <2>1, <2>2
  <1>5. \A q \in Callers : BagToSet(run'[q].samples) = {} /\ run'[q].reading = {}
    BY <1>1, <1>2, <1>4, OthersIdle, EmptyHands
  <1>6. Stored' \subseteq Stored
    BY <1>2, WithoutRows
  <1>7. ASSUME NEW row \in OnPoint(k)' PROVE NotForgotten(k, row)'
    <2>1. row \in OnPoint(k) /\ NotForgotten(k, row)
      BY <1>1, <1>6 DEF OnPoint
    <2>2. Done(k, row) => Done(k, row)'
      BY <1>1, <2>1, DoneStays
    <2>3. Waiting(row.stone) => Waiting(row.stone)'
      BY <1>2 DEF Waiting, HasRow, upVars
    <2>4. ~InHand(k, row) /\ Listing # {}
      BY <1>1, <1>2, <1>3, EmptyHands, HandsAreEmpty DEF Listing
    <2>5. ASSUME NEW q \in Callers, Ahead(k, q, row) PROVE Ahead(k, r, row)'
      <3>1. q = r
        BY <1>1, <1>2, <2>5, OthersIdle DEF Ahead
      <3>2. run[r].level < k /\ run[r].listed[row.stone] > 0
        BY <1>2, <2>5, <3>1 DEF Ahead
      <3>3. k \in 1..Len(Intervals) /\ Len(Intervals) \in Nat /\ run[r].level \in Nat
        <4> DEFINE Levels == [targetInterval : STRING \ {"5m", "fragment"}, basedOnInterval : STRING, every : Nat \ {0}]
        <4>1. Intervals \in Seq(Levels)
          BY IntervalsAssumption
        <4> HIDE DEF Levels
        <4>2. DOMAIN Intervals = 1..Len(Intervals) /\ Len(Intervals) \in Nat
          BY <4>1
        <4>3. QED
          BY <1>3, <4>2 DEF IsRun
      <3>4. run'[r].level = run[r].level + 1 /\ run'[r].todo = run[r].listed /\ stage'[r] = "stones"
        BY <1>4, <3>2, <3>3
      <3>5. run'[r].level = k \/ run'[r].level < k
        BY <3>2, <3>3, <3>4
      <3>6. QED
        BY <1>4, <3>2, <3>4, <3>5 DEF Ahead
    <2>6. QED
      BY <1>2, <2>1, <2>2, <2>3, <2>4, <2>5 DEF NotForgotten
  <1>8. QED
    BY <1>2, <1>5, <1>6, <1>7, PlacesEmptied DEF LevelOnTime

\* What was in memory is stored.
LEMMA CreateOnTime ==
    ASSUME OnTimeInv, [Next]_vars, NEW r \in Callers, CreateAggregates(r),
           NEW k \in DOMAIN Intervals, OfSamples(k)
    PROVE  LevelOnTime(k)'
  <1>1. /\ UsageInv /\ ListsRows /\ AggregateInv /\ DOMAIN run = Callers /\ stage \in [Callers -> RunStages]
        /\ RunControl(r) /\ Pending(r) /\ \A row \in OnPoint(k) : NotForgotten(k, row) /\ TakenBefore(k, row)
        /\ \A st \in Stones : BeforeWhatComes(k, st)
    BY DEF OnTimeInv, LevelOnTime, UsageInv, AggregateInv, Typed, OneRunInv
  <1>2. /\ stage[r] = "stones" /\ \A st \in Stones : run[r].todo[st] = 0
        /\ stoneEnergyProcessed' = stoneEnergyProcessed (+) run[r].samples
        /\ run' = [run EXCEPT ![r].samples = EmptyBag] /\ stage' = [stage EXCEPT ![r] = "deleting"]
        /\ UNCHANGED <<trace, now, sent, metaData, newer, upVars, missed>>
    BY DEF CreateAggregates
  <1>3. IsRun(run[r]) /\ run[r].reading = {}
    BY <1>1, <1>2 DEF RunControl
  <1>4. /\ \A q \in Callers \ {r} : run'[q] = run[q] /\ stage'[q] = stage[q]
        /\ run'[r].samples = EmptyBag /\ run'[r].reading = {} /\ run'[r].listed = run[r].listed
        /\ run'[r].level = run[r].level /\ stage'[r] = "deleting"
    BY <1>1, <1>2, <1>3 DEF IsRun
  <1>5. \A q \in Callers : BagToSet(run'[q].samples) = {} /\ run'[q].reading = {}
    BY <1>1, <1>2, <1>4, OthersIdle, EmptyHands
  <1>6. Stored' = Stored \cup BagToSet(run[r].samples)
    BY <1>2 DEF Stored, BagToSet, (+)
  <1>7. \A row \in BagToSet(run[r].samples) : row.interval \in Targets
    BY <1>1, <1>3 DEF Pending, IsRun, Targets
  <1>8. \A st : Made(k, st)' \subseteq Made(k, st)
    BY <1>5, <1>6 DEF Made, Rows
  <1>9. ASSUME NEW row \in OnPoint(k)'
        PROVE  /\ row \in OnPoint(k)
               /\ Done(k, row) \/ InHand(k, row) => Done(k, row)'
    <2>1. row \in OnPoint(k)
      BY <1>6, <1>7, <1>9 DEF OnPoint, OfSamples
    <2>2. Done(k, row) => Done(k, row)'
      BY <1>1, <2>1, DoneStays
    <2>3. ASSUME InHand(k, row) PROVE Done(k, row)'
      <3>1. Above(k, row) \in BagToSet(run[r].samples)
        BY <1>1, <1>2, <2>3, OthersIdle DEF InHand
      <3>2. QED
        BY <1>6, <3>1 DEF Done, Above
    <2>4. QED
      BY <2>1, <2>2, <2>3
  <1>10. ASSUME NEW row \in OnPoint(k)' PROVE NotForgotten(k, row)'
    <2>1. row \in OnPoint(k) /\ NotForgotten(k, row) /\ row.stone \in Stones
      BY <1>1, <1>9, PointRow
    <2>2. Waiting(row.stone) => Waiting(row.stone)'
      BY <1>2 DEF Waiting, HasRow, upVars
    <2>3. Listing # {}
      BY <1>2 DEF Listing
    <2>4. ASSUME NEW q \in Callers, Ahead(k, q, row) PROVE Ahead(k, r, row)'
      <3>1. q = r
        BY <1>1, <1>2, <2>4, OthersIdle DEF Ahead
      <3>2. ~(run[r].todo[row.stone] > 0) /\ run[r].reading = {}
        BY <1>2, <1>3, <2>1
      <3>3. run[r].level < k /\ run[r].listed[row.stone] > 0
        BY <2>4, <3>1, <3>2 DEF Ahead
      <3>4. QED
        BY <1>4, <3>3 DEF Ahead
    <2>5. QED
      BY <1>2, <1>9, <2>1, <2>2, <2>3, <2>4 DEF NotForgotten
  <1>11. ASSUME NEW row \in OnPoint(k)' PROVE TakenBefore(k, row)'
    <2>1. TakenBefore(k, row) /\ (Done(k, row) \/ InHand(k, row) => Done(k, row)')
      BY <1>1, <1>9
    <2>2. \A z \in Stored' : (z.stone = row.stone /\ z.interval = Target(k)) => z \in Made(k, row.stone)
      BY <1>6 DEF Made, Rows
    <2>3. QED
      BY <1>5, <1>8, <2>1, <2>2 DEF TakenBefore
  <1>12. ASSUME NEW st \in Stones PROVE BeforeWhatComes(k, st)'
    BY <1>1, <1>2, <1>5, <1>8 DEF BeforeWhatComes
  <1>13. QED
    BY <1>10, <1>11, <1>12 DEF LevelOnTime

\* The newest aggregate is one of the stored ones, or there is none.
LEMMA LastTimeIsStored ==
    ASSUME AggregateInv, NEW k, NEW st
    PROVE  \/ LastTime(k, st) = 0
           \/ \E z \in Stored : z.stone = st /\ z.interval = Target(k) /\ z.t = LastTime(k, st)
  <1> DEFINE times == {row.t : row \in {row \in Stored : row.stone = st /\ row.interval = Target(k)}} \cup {0}
  <1>1. now \in Nat /\ \A row \in Stored : row.t \in 0..now
    BY DEF AggregateInv, Typed, RowsInv, IsRow
  <1>2. times # {} /\ times \subseteq -1..now
    BY <1>1
  <1>3. Max(times) \in times
    BY <1>1, <1>2, GreatestOf
  <1>4. QED
    BY <1>3 DEF LastTime

\* A stone is read from its newest aggregate on: what is earlier has been done.
LEMMA FindOnTime ==
    ASSUME OnTimeInv, [Next]_vars, NEW r \in Callers, NEW stone \in Stones, FindLastPoint(r, stone),
           NEW k \in DOMAIN Intervals, OfSamples(k)
    PROVE  LevelOnTime(k)'
  <1>1. /\ UsageInv /\ ListsRows /\ AggregateInv /\ DOMAIN run = Callers /\ stage \in [Callers -> RunStages]
        /\ RunControl(r) /\ \A row \in OnPoint(k) : NotForgotten(k, row) /\ TakenBefore(k, row)
        /\ \A st \in Stones : BeforeWhatComes(k, st)
        /\ Typed
    BY DEF OnTimeInv, LevelOnTime, UsageInv, AggregateInv, Typed, OneRunInv
  <1> DEFINE level == run[r].level
  <1>2. /\ stage[r] = "stones" /\ run[r].todo[stone] > 0
        /\ run' = [run EXCEPT ![r].todo[stone] = @ - 1, ![r].reading = {stone}, ![r].fromDate = LastTime(level, stone)]
        /\ stage' = [stage EXCEPT ![r] = "pages"]
        /\ UNCHANGED <<trace, now, sent, stoneEnergyProcessed, metaData, newer, upVars, missed>>
    BY DEF FindLastPoint
  <1>3. IsRun(run[r]) /\ run[r].reading = {}
    BY <1>1, <1>2 DEF RunControl
  <1>4. /\ \A q \in Callers \ {r} : run'[q] = run[q] /\ stage'[q] = stage[q]
        /\ stage'[r] = "pages" /\ run'[r].reading = {stone} /\ run'[r].fromDate = LastTime(level, stone)
        /\ run'[r].level = level /\ run'[r].listed = run[r].listed /\ run'[r].samples = run[r].samples
        /\ \A st \in Stones \ {stone} : run'[r].todo[st] = run[r].todo[st]
    BY <1>1, <1>2, <1>3 DEF IsRun
  <1>5. Stored' = Stored
    BY <1>2 DEF Stored
  <1>6. \A q \in Callers : run'[q].samples = run[q].samples
    BY <1>4
  <1>7. /\ OnPoint(k)' = OnPoint(k) /\ \A st : Made(k, st)' = Made(k, st)
        /\ \A row : InHand(k, row)' <=> InHand(k, row)
    BY <1>5, <1>6 DEF OnPoint, Made, Rows, InHand, Above
  <1>8. ASSUME NEW row \in OnPoint(k), row.stone = stone, level = k, row.t <= LastTime(k, stone)
        PROVE  Done(k, row)
    <2>1. row.t \in Nat \ {0}
      BY <1>1, PointRow
    <2>2. PICK z \in Stored : z.stone = stone /\ z.interval = Target(k) /\ z.t = LastTime(k, stone)
      BY <1>1, <1>8, <2>1, LastTimeIsStored
    <2>3. QED
      BY <1>1, <1>8, <2>2 DEF TakenBefore
  <1>9. ASSUME NEW row \in OnPoint(k) PROVE NotForgotten(k, row)'
    <2>1. NotForgotten(k, row) /\ row.stone \in Stones /\ row.t \in Nat
      BY <1>1, PointRow
    <2>2. Done(k, row) => Done(k, row)'
      BY <1>1, DoneStays
    <2>3. Waiting(row.stone) => Waiting(row.stone)'
      BY <1>2 DEF Waiting, HasRow, upVars
    <2>4. Listing # {}
      BY <1>2 DEF Listing
    <2>5. ASSUME NEW q \in Callers, Ahead(k, q, row) PROVE Ahead(k, r, row)' \/ Done(k, row)
      <3>1. q = r
        BY <1>1, <1>2, <2>5, OthersIdle DEF Ahead
      <3>2. CASE level < k /\ run[r].listed[row.stone] > 0
        BY <1>4, <3>2 DEF Ahead
      <3>3. CASE level = k /\ run[r].todo[row.stone] > 0 /\ row.stone # stone
        BY <1>4, <2>1, <3>3 DEF Ahead
      <3>4. CASE level = k /\ row.stone = stone
        <4>1. LastTime(k, stone) \in Nat
          BY <1>1, NoneIsNewer
        <4>2. CASE row.t <= LastTime(k, stone)
          BY <1>8, <3>4, <4>2
        <4>3. CASE row.t > LastTime(k, stone)
          BY <1>4, <3>4, <4>3 DEF Ahead
        <4>4. QED
          BY <2>1, <4>1, <4>2, <4>3
      <3>5. QED
        BY <1>3, <2>5, <3>1, <3>2, <3>3, <3>4 DEF Ahead
    <2>6. QED
      BY <1>2, <1>7, <2>1, <2>2, <2>3, <2>4, <2>5 DEF NotForgotten
  <1>10. ASSUME NEW row \in OnPoint(k) PROVE TakenBefore(k, row)'
    <2>1. TakenBefore(k, row) /\ (Done(k, row) => Done(k, row)')
      BY <1>1, DoneStays
    <2>2. ASSUME NEW q \in Callers, run'[q].level = k, row.stone \in run'[q].reading, row.t <= run'[q].fromDate
          PROVE  Done(k, row)'
      <3>1. q = r
        BY <1>1, <1>2, <1>4, <2>2, OthersIdle
      <3>2. row.stone = stone /\ level = k /\ row.t <= LastTime(k, stone)
        BY <1>4, <2>2, <3>1
      <3>3. QED
        BY <1>8, <2>1, <3>2
    <2>3. QED
      BY <1>5, <1>7, <2>1, <2>2 DEF TakenBefore
  <1>11. ASSUME NEW st \in Stones PROVE BeforeWhatComes(k, st)'
    <2> SUFFICES ASSUME NEW i \in DOMAIN trace[st], i > sent[st],
                        NEW q \in Callers, run'[q].level = k, st \in run'[q].reading
                 PROVE  run'[q].fromDate < trace[st][i].t
      BY <1>1, <1>2, <1>7 DEF BeforeWhatComes
    <2>1. q = r
      BY <1>1, <1>2, <1>4, OthersIdle
    <2>2. st = stone /\ level = k /\ run'[q].fromDate = LastTime(k, stone)
      BY <1>4, <2>1
    <2>3. trace[st][i].t \in Nat \ {0}
      <3> DEFINE Points == [t : Nat \ {0}, e : Nat, interval : {"5m", "fragment"}]
      <3>1. trace[st] \in Seq(Points)
        BY <1>1, TracesAssumption DEF Typed
      <3>2. \A point \in Points : point.t \in Nat \ {0}
        OBVIOUS
      <3> HIDE DEF Points
      <3>3. QED
        BY <3>1, <3>2, ElementsOf
    <2>4. ASSUME NEW z \in Stored, z.stone = stone, z.interval = Target(k), z.t = LastTime(k, stone)
          PROVE  LastTime(k, stone) < trace[st][i].t
      <3>1. z \in Made(k, st)
        BY <2>2, <2>4 DEF Made, Rows
      <3>2. QED
        BY <1>1, <2>4, <3>1 DEF BeforeWhatComes
    <2>5. QED
      BY <1>1, <2>2, <2>3, <2>4, LastTimeIsStored
  <1>12. QED
    BY <1>7, <1>9, <1>10, <1>11 DEF LevelOnTime

\* A page that leaves a row out is full, and stops before it.
LEMMA PageIsFull ==
    ASSUME UsageInv, NEW k \in DOMAIN Intervals, OfSamples(k), NEW st \in Stones, NEW from \in Nat,
           NEW row \in Stored, row.stone = st, row.t > from,
           row.interval \in {Intervals[k].basedOnInterval, "fragment"}, row \notin Page(k, st, from)
    PROVE  /\ Cardinality(Page(k, st, from)) = Limit /\ Page(k, st, from) # {}
           /\ \A q \in Page(k, st, from) : q.t < row.t
  <1> DEFINE rows == {o \in Stored : /\ o.stone = st /\ o.t > from
                                     /\ o.interval \in {Intervals[k].basedOnInterval, "fragment"}}
             before(x) == {other \in rows : other.t < x.t}
             page == Page(k, st, from)
             left == {o.t : o \in rows \ page}
             samples == {Traced(st, i) : i \in DOMAIN trace[st]}
             f == [i \in DOMAIN trace[st] |-> Traced(st, i)]
  <1>1. AggregateInv /\ Typed
    BY DEF UsageInv, AggregateInv
  <1>2. page = {o \in rows : Cardinality(before(o)) < Limit}
    BY DEF Page
  <1>3. ASSUME NEW o \in rows PROVE o.t \in Nat /\ o \in samples
    <2>1. o.t \in Nat /\ Rooted(o) /\ o.stone = st /\ o.interval \notin Targets
      BY <1>1, NoneIsTarget DEF OfSamples, AggregateInv, RowsInv, IsRow, Typed
    <2>2. QED
      BY <2>1 DEF Rooted
  <1>4. ASSUME NEW o \in rows, NEW p \in rows, o.t = p.t PROVE o = p
    <2>1. PICK i \in DOMAIN trace[st] : o = Traced(st, i)
      BY <1>3
    <2>2. PICK j \in DOMAIN trace[st] : p = Traced(st, j)
      BY <1>3
    <2>3. trace[st][i].t = trace[st][j].t
      BY <1>4, <2>1, <2>2 DEF Traced, Sample
    <2>4. QED
      BY <1>1, <2>1, <2>2, <2>3, TraceRows
  <1>5. IsFiniteSet(samples)
    <2>1. trace[st] \in Seq([t : Nat \ {0}, e : Nat, interval : {"5m", "fragment"}])
      BY <1>1, TracesAssumption DEF Typed
    <2>2. DOMAIN trace[st] = 1..Len(trace[st]) /\ Len(trace[st]) \in Nat
      BY <2>1
    <2>3. IsFiniteSet(DOMAIN trace[st])
      BY <2>2, FS_Interval
    <2>4. f \in Surjection(DOMAIN trace[st], samples)
      BY DEF Surjection
    <2>5. QED
      BY <2>3, <2>4, FS_Surjection
  <1>6. ASSUME NEW o \in page, NEW p \in rows, p.t < o.t PROVE p \in page
    <2>1. p \in Stored /\ p.stone = st /\ p.t > from /\ p.interval \in {Intervals[k].basedOnInterval, "fragment"}
      OBVIOUS
    <2> HIDE DEF rows
    <2>2. QED
      BY <1>6, <2>1, PageIsFirst
  <1> HIDE DEF samples, f
  <1>7. PICK m \in rows \ page : \A o \in rows \ page : m.t <= o.t
    <2>1. row \in rows \ page
      OBVIOUS
    <2>2. left # {} /\ left \subseteq Nat
      BY <1>3, <2>1
    <2>3. Min(left) \in left /\ \A n \in left : Min(left) <= n
      BY <2>2, LeastOf
    <2>4. PICK m \in rows \ page : m.t = Min(left)
      BY <2>3
    <2>5. \A o \in rows \ page : m.t <= o.t
      BY <2>3, <2>4
    <2>6. QED
      BY <2>5
  <1>8. page = before(m)
    <2>1. ASSUME NEW o \in page PROVE o \in rows /\ o.t < m.t
      <3>1. o \in rows /\ o.t \in Nat /\ m.t \in Nat
        BY <1>2, <1>3, <1>7
      <3>2. ~(m.t < o.t)
        BY <1>6, <1>7
      <3>3. m.t # o.t
        BY <1>4, <1>7, <3>1
      <3>4. QED
        BY <3>1, <3>2, <3>3
    <2>2. ASSUME NEW o \in before(m) PROVE o \in page
      <3>1. o \in rows /\ o.t < m.t /\ o.t \in Nat /\ m.t \in Nat
        BY <1>3, <1>7
      <3>2. QED
        BY <1>7, <3>1
    <2>3. QED
      BY <2>1, <2>2
  <1>9. IsFiniteSet(rows)
    BY <1>3, <1>5, FS_Subset
  <1>10. IsFiniteSet(page) /\ Cardinality(page) \in Nat
    BY <1>2, <1>9, FS_Subset, FS_CardinalityType
  <1>11. Limit <= Cardinality(page)
    <2>1. ~(Cardinality(before(m)) < Limit)
      BY <1>2, <1>7
    <2>2. QED
      BY <1>8, <1>10, <2>1, AggregationAssumption
  <1>12. page # {}
    BY <1>11, FS_EmptySet, AggregationAssumption
  <1>13. PICK q \in page : \A o \in page : o.t <= q.t
    <2> DEFINE times == {o.t : o \in page}
    <2>1. times # {} /\ times \subseteq -1..m.t /\ m.t \in Nat
      BY <1>3, <1>7, <1>8, <1>12
    <2>2. Max(times) \in times /\ \A n \in times : n <= Max(times)
      BY <2>1, GreatestOf
    <2>3. PICK q \in page : q.t = Max(times)
      BY <2>2
    <2>4. QED
      BY <2>2, <2>3
  <1>14. Cardinality(page) <= Limit
    <2>1. page \subseteq before(q) \cup {q}
      <3> SUFFICES ASSUME NEW o \in page, o # q PROVE o \in rows /\ o.t < q.t
        OBVIOUS
      <3>1. o \in rows /\ q \in rows /\ o.t \in Nat /\ q.t \in Nat
        BY <1>2, <1>3
      <3>2. o.t # q.t
        BY <1>4, <3>1
      <3>3. QED
        BY <1>13, <3>1, <3>2
    <2>2. q \in rows /\ Cardinality(before(q)) < Limit /\ q \notin before(q)
      BY <1>2, <1>3
    <2>3. IsFiniteSet(before(q)) /\ Cardinality(before(q)) \in Nat
      BY <1>9, FS_Subset, FS_CardinalityType
    <2>4. IsFiniteSet(before(q) \cup {q}) /\ Cardinality(before(q) \cup {q}) = Cardinality(before(q)) + 1
      BY <2>2, <2>3, FS_AddElement
    <2>5. Cardinality(page) <= Cardinality(before(q) \cup {q})
      BY <2>1, <2>4, FS_Subset
    <2>6. QED
      BY <1>10, <2>2, <2>3, <2>4, <2>5, AggregationAssumption
  <1>15. \A o \in page : o.t < row.t
    <2>1. m.t <= row.t /\ m.t \in Nat /\ row.t \in Nat
      BY <1>3, <1>7
    <2>2. \A o \in page : o.t < m.t /\ o.t \in Nat
      BY <1>3, <1>8
    <2>3. QED
      BY <2>1, <2>2
  <1>16. QED
    BY <1>10, <1>11, <1>12, <1>14, <1>15, AggregationAssumption

\* A page of the level takes all the rows up to its last one.
LEMMA PageTakes ==
    ASSUME OnTimeInv, NEW k \in DOMAIN Intervals, OfSamples(k), NEW st \in Stones, NEW from \in Nat,
           NEW row \in OnPoint(k), row.stone = st, row.t > from,
           NEW q \in Page(k, st, from), row.t <= q.t
    PROVE  Above(k, row) \in Added(k, st, from)
  <1>1. UsageInv /\ AggregateInv /\ Typed
    BY DEF OnTimeInv, UsageInv, AggregateInv
  <1>2. row \in Stored /\ row.t \in Nat /\ row.interval = Intervals[k].basedOnInterval /\ isOnSamplePoint(k, row.t)
    BY <1>1, PointRow
  <1>3. q.t \in Nat
    BY <1>1, PageRows
  <1>4. row \in Page(k, st, from)
    <2>1. CASE row.t < q.t
      BY <1>1, <1>2, <2>1, PageIsFirst
    <2>2. CASE row.t = q.t
      <3>1. PICK i \in DOMAIN trace[st] : row = Traced(st, i) /\ row.t = trace[st][i].t
        BY <1>1, PointRow
      <3>2. PICK j \in Alive(k, st) : q = Traced(st, j) /\ q.t = trace[st][j].t
        BY <1>1, PageIsOfTrace
      <3>3. i = j
        BY <1>1, <2>2, <3>1, <3>2, TraceRows DEF Alive
      <3>4. QED
        BY <3>1, <3>2, <3>3
    <2>3. QED
      BY <1>2, <1>3, <2>1, <2>2
  <1>5. Above(k, row) \in PointSamples(k, Predecessor(Page(k, st, from), row), row)
    BY <1>2 DEF PointSamples, Above
  <1>6. QED
    BY <1>4, <1>5 DEF Added

\* A page that is read: its rows on a point have their aggregates in memory, the others are
\* on a later page, and what is still to come is later than all of it.
LEMMA ReadOnTime ==
    ASSUME OnTimeInv, [Next]_vars, NEW r \in Callers, ReadPage(r),
           NEW k \in DOMAIN Intervals, OfSamples(k)
    PROVE  LevelOnTime(k)'
  <1> DEFINE level == run[r].level
             from == run[r].fromDate
  <1>1. /\ UsageInv /\ ListsRows /\ AggregateInv /\ RunControl(r) /\ Typed
        /\ \A row \in OnPoint(k) : NotForgotten(k, row) /\ TakenBefore(k, row)
        /\ \A st \in Stones : BeforeWhatComes(k, st)
    BY DEF OnTimeInv, LevelOnTime, UsageInv, AggregateInv
  <1>2. /\ UNCHANGED <<trace, now, sent, stoneEnergyProcessed, metaData, newer, upVars, missed>>
        /\ \A q \in Callers \ {r} : run'[q] = run[q] /\ stage'[q] = stage[q]
        /\ stage[r] = "pages" /\ run'[r].level = level /\ run'[r].listed = run[r].listed
        /\ run'[r].todo = run[r].todo
    BY <1>1, PageRead
  <1>3. PICK stone \in Stones :
                LET page == Page(level, stone, from)
                IN  /\ run[r].reading = {stone}
                    /\ BagToSet(run'[r].samples) = BagToSet(run[r].samples) \cup Added(level, stone, from)
                    /\ run'[r].fromDate = IF page = {} THEN from ELSE NextFrom(page)
                    /\ IF Cardinality(page) = Limit THEN run'[r].reading = {stone} /\ stage'[r] = "pages"
                                                    ELSE run'[r].reading = {} /\ stage'[r] = "stones"
    BY <1>1, PageRead
  <1> DEFINE page == Page(level, stone, from)
             added == Added(level, stone, from)
             next == run'[r].fromDate
  <1>4. from \in Nat /\ level \in DOMAIN Intervals
    BY <1>1 DEF RunControl, IsRun
  <1>5. /\ run[r].reading = {stone} /\ BagToSet(run'[r].samples) = BagToSet(run[r].samples) \cup added
        /\ run'[r].reading \subseteq {stone} /\ stage'[r] \in {"pages", "stones"}
        /\ Cardinality(page) = Limit => run'[r].reading = {stone} /\ stage'[r] = "pages"
    BY <1>3
  <1>6. /\ page = {} => next = from
        /\ page # {} => \E q \in page : q.t = next
        /\ \A q \in page : q.t <= next
        /\ next \in Nat
    <2>1. CASE page = {}
      BY <1>3, <1>4, <2>1
    <2>2. CASE page # {}
      <3> DEFINE times == {row.t : row \in page}
      <3>1. now \in Nat /\ \A row \in page : row.t \in 0..now
        BY <1>1, PageRows DEF Typed, IsRow
      <3>2. times # {} /\ times \subseteq -1..now /\ times \subseteq Nat
        BY <2>2, <3>1
      <3>3. Max(times) \in times /\ \A n \in times : n <= Max(times)
        BY <3>1, <3>2, GreatestOf
      <3>4. next = Max(times)
        BY <1>3, <2>2 DEF NextFrom
      <3>5. QED
        BY <2>2, <3>2, <3>3, <3>4
    <2>3. QED
      BY <2>1, <2>2
  <1>7. ASSUME NEW s \in added
        PROVE  /\ s.interval = Target(level) /\ s.stone = stone /\ s.t \in Nat
               /\ \E q \in page : s.t <= q.t /\ q.t \in Nat
    <2>1. PICK q \in page : s \in PointSamples(level, Predecessor(page, q), q)
      BY DEF Added
    <2>2. s = Sample(stone, s.t, s.e, Target(level)) /\ s.t \in Nat /\ s.t <= q.t
      BY <1>1, <1>4, <2>1, AddedBy
    <2>3. q.t \in Nat
      BY <1>1, PageRows
    <2>4. QED
      BY <2>2, <2>3 DEF Sample
  <1> HIDE DEF next, page, added
  <1>8. Stored' = Stored
    BY <1>2 DEF Stored
  <1>9. Rows' = Rows \cup added
    <2>1. \A q \in Callers : BagToSet(run'[q].samples) = BagToSet(run[q].samples) \cup (IF q = r THEN added ELSE {})
      BY <1>2, <1>5
    <2>2. QED
      BY <1>8, <2>1 DEF Rows
  <1>10. OnPoint(k)' = OnPoint(k)
    BY <1>8 DEF OnPoint
  <1>11. \A row : InHand(k, row) => InHand(k, row)'
    <2>1. \A q \in Callers : BagToSet(run[q].samples) \subseteq BagToSet(run'[q].samples)
      BY <1>2, <1>5
    <2>2. QED
      BY <2>1 DEF InHand, Above
  \* What the page has passed.
  <1>12. ASSUME level = k, NEW row \in OnPoint(k), row.stone = stone, row.t <= next
         PROVE  Done(k, row)' \/ InHand(k, row)'
    <2>1. row.t \in Nat
      BY <1>1, PointRow
    <2>2. CASE row.t <= from
      <3>1. Done(k, row) \/ InHand(k, row)
        BY <1>1, <1>5, <1>12, <2>2 DEF TakenBefore
      <3>2. QED
        BY <1>1, <1>11, <3>1, DoneStays
    <2>3. CASE row.t > from
      <3>1. page # {}
        BY <1>4, <1>6, <1>12, <2>1, <2>3
      <3>2. PICK q \in page : q.t = next
        BY <1>6, <3>1
      <3>3. Above(k, row) \in added
        BY <1>4, <1>12, <2>3, <3>2, PageTakes DEF page, added
      <3>4. Above(k, row) \in BagToSet(run'[r].samples)
        BY <1>5, <3>3
      <3>5. QED
        BY <3>4 DEF InHand, Above
    <2>4. QED
      BY <1>4, <2>1, <2>2, <2>3
  <1>13. ASSUME NEW row \in OnPoint(k) PROVE NotForgotten(k, row)'
    <2>1. NotForgotten(k, row) /\ row.stone \in Stones /\ row.t \in Nat /\ (Done(k, row) => Done(k, row)')
      BY <1>1, PointRow, DoneStays
    <2>2. Waiting(row.stone) => Waiting(row.stone)'
      BY <1>2 DEF Waiting, HasRow, upVars
    <2>3. Listing # {}
      BY <1>2 DEF Listing
    <2>4. ASSUME NEW q \in Callers, Ahead(k, q, row)
          PROVE  Ahead(k, r, row)' \/ Done(k, row)' \/ InHand(k, row)'
      <3>1. q = r
        BY <1>1, <1>2, <2>4, OthersIdle DEF Ahead
      <3>2. CASE level < k /\ run[r].listed[row.stone] > 0
        BY <1>2, <1>5, <3>2 DEF Ahead
      <3>3. CASE level = k /\ run[r].todo[row.stone] > 0
        BY <1>2, <1>5, <3>3 DEF Ahead
      <3>4. CASE level = k /\ row.stone = stone /\ row.t > from
        <4>1. CASE row.t <= next
          BY <1>12, <3>4, <4>1
        <4>2. CASE row.t > next
          <5>1. row \in Stored /\ row.interval = Intervals[k].basedOnInterval
            BY DEF OnPoint
          <5>2. row \notin page
            BY <1>6, <2>1, <4>2
          <5>3. Cardinality(page) = Limit
            BY <1>1, <1>4, <3>4, <5>1, <5>2, PageIsFull DEF page
          <5>4. run'[r].reading = {stone} /\ stage'[r] = "pages" /\ run'[r].level = k
            BY <1>2, <1>5, <3>4, <5>3
          <5>5. QED
            BY <3>4, <4>2, <5>4 DEF Ahead, next
        <4>3. QED
          BY <1>6, <2>1, <4>1, <4>2
      <3>5. QED
        BY <1>5, <2>4, <3>1, <3>2, <3>3, <3>4 DEF Ahead
    <2>5. QED
      BY <1>2, <1>11, <2>1, <2>2, <2>3, <2>4 DEF NotForgotten
  <1>14. ASSUME NEW row \in OnPoint(k) PROVE TakenBefore(k, row)'
    <2>1. TakenBefore(k, row) /\ row.t \in Nat /\ (Done(k, row) => Done(k, row)')
      BY <1>1, PointRow, DoneStays
    <2>2. ASSUME NEW z \in Made(k, row.stone)', row.t <= z.t PROVE Done(k, row)' \/ InHand(k, row)'
      <3>1. CASE z \in Made(k, row.stone)
        BY <1>11, <2>1, <2>2, <3>1 DEF TakenBefore
      <3>2. CASE z \notin Made(k, row.stone)
        <4>1. z \in added /\ z.stone = row.stone /\ z.interval = Target(k)
          BY <1>9, <3>2 DEF Made
        <4>2. level = k /\ row.stone = stone
          BY <1>4, <1>7, <4>1, IntervalsAssumption DEF Target
        <4>3. row.t <= next
          BY <1>6, <1>7, <2>1, <2>2, <4>1
        <4>4. QED
          BY <1>12, <4>2, <4>3
      <3>3. QED
        BY <3>1, <3>2
    <2>3. ASSUME NEW q \in Callers, run'[q].level = k, row.stone \in run'[q].reading, row.t <= run'[q].fromDate
          PROVE  Done(k, row)' \/ InHand(k, row)'
      <3>1. q = r
        BY <1>1, <1>2, <2>3, OthersIdle
      <3>2. QED
        BY <1>2, <1>5, <1>12, <2>3, <3>1 DEF next
    <2>4. QED
      BY <1>8, <2>1, <2>2, <2>3 DEF TakenBefore
  <1>15. ASSUME NEW st \in Stones PROVE BeforeWhatComes(k, st)'
    <2> SUFFICES ASSUME NEW i \in DOMAIN trace[st], i > sent[st]
                 PROVE  /\ \A z \in Made(k, st)' : z.t < trace[st][i].t
                        /\ \A q \in Callers : (run'[q].level = k /\ st \in run'[q].reading) => run'[q].fromDate < trace[st][i].t
      BY <1>2 DEF BeforeWhatComes
    <2>1. trace[st][i].t \in Nat
      BY <1>1, TraceRows
    <2>2. ASSUME level = k, st = stone, NEW q \in page PROVE q.t < trace[st][i].t
      <3>1. PICK l \in Alive(k, st) : q.t = trace[st][l].t /\ l <= sent[st]
        BY <1>1, <1>4, <2>2, PageIsOfTrace DEF page
      <3>2. trace[st] \in Seq([t : Nat \ {0}, e : Nat, interval : {"5m", "fragment"}])
        BY <1>1, TracesAssumption DEF Typed
      <3>3. l \in DOMAIN trace[st] /\ l \in Int /\ i \in Int /\ sent[st] \in Nat
        BY <1>1, <3>2 DEF Alive, Typed
      <3>4. l < i
        BY <3>1, <3>3
      <3>5. QED
        BY <1>1, <3>1, <3>3, <3>4, TracesAssumption DEF Typed
    <2>3. ASSUME NEW z \in Made(k, st)' PROVE z.t < trace[st][i].t
      <3>1. CASE z \in Made(k, st)
        BY <1>1, <3>1 DEF BeforeWhatComes
      <3>2. CASE z \notin Made(k, st)
        <4>1. z \in added /\ z.stone = st /\ z.interval = Target(k)
          BY <1>9, <3>2 DEF Made
        <4>2. level = k /\ st = stone
          BY <1>4, <1>7, <4>1, IntervalsAssumption DEF Target
        <4>3. PICK q \in page : z.t <= q.t /\ q.t \in Nat /\ z.t \in Nat
          BY <1>7, <4>1
        <4>4. QED
          BY <2>1, <2>2, <4>2, <4>3
      <3>3. QED
        BY <3>1, <3>2
    <2>4. ASSUME NEW q \in Callers, run'[q].level = k, st \in run'[q].reading
          PROVE  run'[q].fromDate < trace[st][i].t
      <3>1. q = r
        BY <1>1, <1>2, <2>4, OthersIdle
      <3>2. level = k /\ st = stone
        BY <1>2, <1>5, <2>4, <3>1
      <3>3. CASE page = {}
        BY <1>1, <1>5, <1>6, <3>1, <3>2, <3>3 DEF BeforeWhatComes, next
      <3>4. CASE page # {}
        BY <1>6, <2>2, <3>1, <3>2, <3>4 DEF next
      <3>5. QED
        BY <3>3, <3>4
    <2>5. QED
      BY <2>3, <2>4
  <1>16. QED
    BY <1>10, <1>13, <1>14, <1>15 DEF LevelOnTime

-----------------------------------------------------------------------------
LEMMA OnTimeStart == Init => OnTimeInv
  <1> SUFFICES ASSUME Init PROVE OnTimeInv
    OBVIOUS
  <1>1. UploadTyped
    BY DEF Init, UploadTyped, UploadStages
  <1>2. \A r \in Callers : run[r] = NoRun
    BY DEF Init
  <1>3. Stored = {} /\ newer = {}
    BY DEF Init, Stored, BagToSet, EmptyBag, SetToBag
  <1>4. ListsRows
    BY <1>2, <1>3 DEF ListsRows, NoRun
  <1>5. \A r \in Callers : BagToSet(run[r].samples) = {} /\ run[r].reading = {}
    BY <1>2, EmptyHands
  <1>6. \A k, st : Made(k, st) = {} /\ OnPoint(k) = {}
    BY <1>3, <1>5 DEF Made, Rows, OnPoint
  <1>7. \A k \in DOMAIN Intervals : LevelOnTime(k)
    BY <1>5, <1>6 DEF LevelOnTime, BeforeWhatComes
  <1>8. QED
    BY <1>1, <1>4, <1>7, UsageStart DEF OnTimeInv

LEMMA OnTimeStep == OnTimeInv /\ [Next]_vars => OnTimeInv'
  <1> SUFFICES ASSUME OnTimeInv, [Next]_vars PROVE OnTimeInv'
    OBVIOUS
  <1>1. UsageInv /\ UploadTyped /\ ListsRows /\ UsageInv' /\ UploadTyped' /\ ListsRows'
    BY UsageStep, UploadTypedStep, ListsRowsStep DEF OnTimeInv
  <1>2. ASSUME NEW k \in DOMAIN Intervals, OfSamples(k) PROVE LevelOnTime(k)'
    <2>1. stage \in [Callers -> RunStages]
      BY <1>1 DEF UsageInv, AggregateInv, OneRunInv
    <2>2. CASE UNCHANGED vars
      BY <1>2, <2>2, QuietOnTime DEF vars, upVars, runVars, Stored
    <2>3. CASE Tick
      BY <1>2, <2>3, QuietOnTime DEF Tick, upVars, runVars, Stored
    <2>4. ASSUME NEW interval \in DOMAIN Keep, CollectGarbage(interval) PROVE LevelOnTime(k)'
      <3>1. Stored' \subseteq Stored
        BY <2>4, WithoutRows DEF CollectGarbage
      <3>2. QED
        BY <1>2, <2>4, <3>1, QuietOnTime DEF CollectGarbage, upVars, runVars
    <2>5. ASSUME NEW r \in Callers, AggegateAllSpheres(r) PROVE LevelOnTime(k)'
      BY <1>2, <2>1, <2>5, QuietOnTime DEF AggegateAllSpheres, upVars, Stored
    <2>6. ASSUME NEW stones \in SUBSET Stones,
                 ProcessLeftRows(stones) \/ \E u \in Uploads : StoreSamples(u, stones)
          PROVE  LevelOnTime(k)'
      BY <1>1, <1>2, <2>6, StoreOnTime
    <2>7. ASSUME NEW u \in Uploads, UpdateMetaData(u) \/ FindMissing(u) \/ CreateMissing(u) \/ InterruptUpload(u)
          PROVE  LevelOnTime(k)'
      BY <1>2, <2>7, MetaDataOnTime
    <2>8. ASSUME NEW r \in Callers, ListStones(r) PROVE LevelOnTime(k)'
      <3>1. CASE newer = {}
        BY <1>2, <2>8, <3>1, EndOnTime DEF ListStones
      <3>2. CASE newer # {}
        BY <1>2, <2>8, <3>2, ListOnTime
      <3>3. QED
        BY <3>1, <3>2
    <2>9. ASSUME NEW r \in Callers, StoreTime(r) \/ InterruptRun(r) PROVE LevelOnTime(k)'
      BY <1>2, <2>9, EndOnTime DEF StoreTime, InterruptRun
    <2>10. ASSUME NEW r \in Callers,
                  \/ \E st \in Stones : FindLastPoint(r, st)
                  \/ ReadPage(r) \/ CreateAggregates(r) \/ DeleteFragments(r)
           PROVE  LevelOnTime(k)'
      BY <1>2, <2>10, FindOnTime, ReadOnTime, CreateOnTime, DeleteOnTime
    <2>11. QED
      BY <2>2, <2>3, <2>4, <2>5, <2>6, <2>7, <2>8, <2>9, <2>10 DEF Next, RunStep
  <1>3. QED
    BY <1>1, <1>2 DEF OnTimeInv

\* When nothing is going on, every sample on a point of its level is aggregated, or its
\* stone is one the next run lists or one no metadata stands up for: no page, no cut-off
\* run and no garbage collection leaves another one out.
THEOREM SamplesAreAggregated == Spec => []OnTimeAggregated
  <1>1. OnTimeInv => OnTimeAggregated
    <2> SUFFICES ASSUME OnTimeInv, NEW row \in Stored, Settled(row.stone), row.stone \notin missed,
                        NEW k \in DOMAIN Intervals, OfSamples(k),
                        row.interval = Intervals[k].basedOnInterval, isOnSamplePoint(k, row.t),
                        Target(k) \in DOMAIN Keep => row.t >= now - Keep[Target(k)]
                 PROVE  [row EXCEPT !.interval = Target(k)] \in Stored
      BY DEF OnTimeAggregated, AggregatedAbove
    <2>1. row \in OnPoint(k)
      BY DEF OnPoint
    <2>2. NotForgotten(k, row) /\ AggregateInv /\ Typed
      BY <2>1 DEF OnTimeInv, LevelOnTime, UsageInv, AggregateInv
    <2>3. ~Waiting(row.stone)
      BY DEF Settled, Waiting
    <2>4. row.stone \notin newer
      BY DEF Settled
    <2>5. Done(k, row)
      BY <2>2, <2>3, <2>4 DEF NotForgotten
    <2>6. row.t \in Nat /\ now \in Nat /\ (Target(k) \in DOMAIN Keep => Keep[Target(k)] \in Nat)
      BY <2>1, <2>2, PointRow, AggregationAssumption DEF Typed
    <2>7. QED
      BY <2>5, <2>6 DEF Done, Above
  <1>2. QED
    BY <1>1, OnTimeStart, OnTimeStep, PTL DEF Spec
=============================================================================
