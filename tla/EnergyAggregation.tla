-------------------------- MODULE EnergyAggregation --------------------------
(***************************************************************************)
(* The aggregation of energy samples into hours, days and months           *)
(* (AggegateAllSpheres of modules/energy/EnergyProcessor.ts, with the      *)
(* intervals of IntervalData.ts), the metadata rows by which an upload     *)
(* tells it which stones have new samples (collectEnergyUsage), and the    *)
(* garbage collection of old samples (DataGarbageCollection.ts).           *)
(*                                                                         *)
(* Every query is a step of its own.  Uploads, aggregations and garbage    *)
(* collections are separate HTTP calls and interleave.  How an upload      *)
(* makes samples of measurements is the business of EnergySampling: here   *)
(* it brings the next samples of a stone.                                  *)
(*                                                                         *)
(* Time is counted in ticks of the sphere's own clock, so that the sample  *)
(* points of an interval are the multiples of its length.  The time of the *)
(* last aggregation only matters by comparison with the updatedAt of the   *)
(* metadata: newer says which stones have one that is later.               *)
(***************************************************************************)
EXTENDS Integers, Sequences, FiniteSets, FiniteSetsExt, Bags

CONSTANTS Stones,       \* the stones of the sphere
          Callers,      \* calls of /aggregate-energy-data
          Uploads,      \* calls of /spheres/{id}/energyUsage
          Traces,       \* what the sampling makes for the stones: [Stones -> Seq([t, e, interval])]
          Intervals,    \* EnergyIntervalDataSet: [targetInterval, basedOnInterval, every] in turn
          Keep,         \* Keep[interval]: ticks a sample of a collected interval is kept
          Threshold,    \* interpolationThreshold
          Limit,        \* iterationSize
          Moments,      \* bound: the ticks at which anything happens
          MaxFaults     \* bound: interrupted calls

ASSUME AggregationAssumption ==
    /\ Keep \in [DOMAIN Keep -> Nat]
    /\ IsFiniteSet(Stones) /\ IsFiniteSet(Callers) /\ IsFiniteSet(Uploads)
    /\ Threshold \in Nat /\ Limit \in Nat \ {0} /\ Moments \subseteq Nat /\ IsFiniteSet(Moments) /\ MaxFaults \in Nat

\* EnergyIntervalDataSet is a record by the target; what the sampling makes is no target.
ASSUME IntervalsAssumption ==
    /\ Intervals # <<>>
    /\ \A j, k \in DOMAIN Intervals : Intervals[j].targetInterval = Intervals[k].targetInterval => j = k
    /\ Intervals \in Seq([targetInterval : STRING \ {"5m", "fragment"}, basedOnInterval : STRING,
                          every : Nat \ {0}])

\* Of measurements that come once and in order, the sampling makes samples in order, and
\* fragments that lie between the points of five minutes and so between those of a level
\* (SamplesInOrder of EnergySampling).
ASSUME TracesAssumption ==
    /\ Traces \subseteq [Stones -> Seq([t : Nat \ {0}, e : Nat, interval : {"5m", "fragment"}])]
    /\ \A trace \in Traces, st \in Stones :
        /\ \A i, j \in DOMAIN trace[st] :
                i < j => trace[st][i].t < trace[st][j].t /\ trace[st][i].e <= trace[st][j].e
        /\ \A i \in DOMAIN trace[st], k \in DOMAIN Intervals :
                trace[st][i].interval = "fragment" => trace[st][i].t % Intervals[k].every # 0

VARIABLES
    trace,                \* the samples of this behaviour
    now,
    sent,                 \* sent[st]: how many samples of its trace st has
    stoneEnergyProcessed, \* the stored samples, a bag of [stone, t, e, interval]
    metaData,             \* metaData[st]: how many metadata rows st has
    newer,                \* stones whose metadata is later than the last aggregation
    upStage,              \* upStage[u]: the query the upload u makes next
    brought,              \* brought[u]: the stones whose points u has brought
    AGGREGATING,
    stage,                \* stage[r]: the query the aggregation r makes next
    run,                  \* run[r]: what r has in memory
    faults,
    missed                \* history: stones with samples no metadata row stands up for

upVars  == <<upStage, brought>>
runVars == <<AGGREGATING, stage, run>>
vars == <<trace, now, sent, stoneEnergyProcessed, metaData, newer, upStage, brought,
          AGGREGATING, stage, run, faults, missed>>

Sample(st, t, e, interval) == [stone |-> st, t |-> t, e |-> e, interval |-> interval]

\* todo[st]: metadata rows of st that this level has not done; reading: the stone at work;
\* samples and used: what the level is going to create and to delete.
NoRun == [listed |-> [st \in Stones |-> 0], level |-> 1, todo |-> [st \in Stones |-> 0],
          reading |-> {}, fromDate |-> 0, samples |-> EmptyBag, used |-> {}]

Init ==
    /\ trace \in Traces
    /\ now = 0 /\ sent = [st \in Stones |-> 0]
    /\ stoneEnergyProcessed = EmptyBag
    /\ metaData = [st \in Stones |-> 0] /\ newer = {}
    /\ upStage = [u \in Uploads |-> "idle"] /\ brought = [u \in Uploads |-> {}]
    /\ AGGREGATING = FALSE
    /\ stage = [r \in Callers |-> "idle"] /\ run = [r \in Callers |-> NoRun]
    /\ faults = 0 /\ missed = {}

Stored == BagToSet(stoneEnergyProcessed)

Without(rows) ==
    [row \in Stored \ rows |-> stoneEnergyProcessed[row]]

\* Time passes.
Tick ==
    /\ {m \in Moments : m > now} # {}
    /\ now' = Min({m \in Moments : m > now})
    /\ UNCHANGED <<trace, sent, stoneEnergyProcessed, metaData, newer, upVars, runVars, faults, missed>>

-----------------------------------------------------------------------------
(* The end of an upload.                                                   *)

Traced(st, i) == Sample(st, trace[st][i].t, trace[st][i].e, trace[st][i].interval)

\* The samples of st an upload can bring now.
Due(st) == {i \in (sent[st] + 1)..Len(trace[st]) : trace[st][i].t <= now}

\* A run that has read the metadata and has not stored its time yet.
Listing == {r \in Callers : stage[r] \notin {"idle", "listing"}}

\* Metadata that is written while a run is past its listing is older than the time the
\* run stores at its end; otherwise it stands up for whatever its stone has.
MissedBy(withRow, without) ==
    IF Listing = {} THEN (missed \ withRow) \cup without ELSE missed \cup withRow \cup without

\* processMeasurements stores the samples of the points of these stones.
ProcessMeasurements(stones) ==
    /\ stones # {} /\ \A st \in stones : Due(st) # {}
    /\ stoneEnergyProcessed' = stoneEnergyProcessed (+)
            SetToBag(UNION {{Traced(st, i) : i \in Due(st)} : st \in stones})
    /\ sent' = [st \in Stones |-> IF st \in stones THEN Max(Due(st)) ELSE sent[st]]

\* Of the points the call has brought.
StoreSamples(u, stones) ==
    /\ upStage[u] = "idle"
    /\ ProcessMeasurements(stones)
    /\ upStage' = [upStage EXCEPT ![u] = "updating"]
    /\ brought' = [brought EXCEPT ![u] = stones]
    /\ UNCHANGED <<trace, now, metaData, newer, runVars, faults, missed>>

\* Of points that an interrupted upload has left unchecked: any other upload processes them.
\* One that brings points goes on with StoreSamples, one that brings none ends here and
\* writes no metadata.
ProcessLeftRows(stones) ==
    /\ faults < MaxFaults /\ faults' = faults + 1
    /\ ProcessMeasurements(stones)
    /\ missed' = missed \cup stones
    /\ UNCHANGED <<trace, now, metaData, newer, upVars, runVars>>

EndUpload(u) ==
    /\ upStage' = [upStage EXCEPT ![u] = "idle"]
    /\ brought' = [brought EXCEPT ![u] = {}]

HasRow == {st \in Stones : metaData[st] > 0}
rowCount == FoldSet(LAMBDA st, n : n + metaData[st], 0, Stones)

\* "check if we have metadata for all stonesIds": the number of rows of the whole sphere
\* is compared with the number of stones this call has brought.
AllHaveRows(u) == rowCount = Cardinality(brought[u])

UpdateMetaData(u) ==
    /\ upStage[u] = "updating"
    /\ newer' = newer \cup HasRow
    /\ \/ /\ AllHaveRows(u)
          /\ EndUpload(u)
          /\ missed' = MissedBy(HasRow, brought[u] \ HasRow)
       \/ /\ ~AllHaveRows(u)
          /\ upStage' = [upStage EXCEPT ![u] = "finding"]
          /\ missed' = MissedBy(HasRow, {})
          /\ UNCHANGED brought
    /\ UNCHANGED <<trace, now, sent, stoneEnergyProcessed, metaData, runVars, faults>>

\* The stones without a row; the field brought is theirs from here on.
FindMissing(u) ==
    /\ upStage[u] = "finding"
    /\ \/ /\ HasRow = Stones
          /\ EndUpload(u)
       \/ /\ HasRow # Stones
          /\ upStage' = [upStage EXCEPT ![u] = "creating"]
          /\ brought' = [brought EXCEPT ![u] = Stones \ HasRow]
    /\ UNCHANGED <<trace, now, sent, stoneEnergyProcessed, metaData, newer, runVars, faults, missed>>

CreateMissing(u) ==
    /\ upStage[u] = "creating"
    /\ metaData' = [st \in Stones |-> IF st \in brought[u] THEN metaData[st] + 1 ELSE metaData[st]]
    /\ newer' = newer \cup brought[u]
    /\ missed' = MissedBy(brought[u], {})
    /\ EndUpload(u)
    /\ UNCHANGED <<trace, now, sent, stoneEnergyProcessed, runVars, faults>>

InterruptUpload(u) ==
    /\ upStage[u] # "idle" /\ faults < MaxFaults
    /\ faults' = faults + 1
    /\ missed' = missed \cup brought[u]
    /\ EndUpload(u)
    /\ UNCHANGED <<trace, now, sent, stoneEnergyProcessed, metaData, newer, runVars>>

-----------------------------------------------------------------------------
(* One level of one stone: _processAggregations.                           *)

Every(k) == Intervals[k].every
Target(k) == Intervals[k].targetInterval

isOnSamplePoint(k, t) == t % Every(k) = 0
getPreviousSamplePoint(k, t) == (t \div Every(k)) * Every(k)
getNumberOfSamplePointsBetween(k, from, to) == (to - from) \div Every(k)

Elapsed(k, p, q) ==
    getNumberOfSamplePointsBetween(k, getPreviousSamplePoint(k, p.t), getPreviousSamplePoint(k, q.t))

\* Mutant: the rate is multiplied by the time to the next point.
InterpolatedFromNext(k, p, q) ==
    {Sample(p.stone, t, p.e + ((q.t - t) * (q.e - p.e)) \div (q.t - p.t), Target(k)) :
        t \in {getPreviousSamplePoint(k, p.t) + j * Every(k) : j \in 1..Elapsed(k, p, q)}}

\* Math.round of the linear interpolation at the sample points between p and q.
Interpolated(k, p, q) ==
    {Sample(p.stone, t, p.e + (2 * (t - p.t) * (q.e - p.e) + (q.t - p.t)) \div (2 * (q.t - p.t)), Target(k)) :
        t \in {getPreviousSamplePoint(k, p.t) + j * Every(k) : j \in 1..Elapsed(k, p, q)}}

\* What the point q adds, after the point p of the same page (previous is {p}, or {}).
PointSamples(k, previous, q) ==
    IF isOnSamplePoint(k, q.t) THEN {[q EXCEPT !.interval = Target(k)]}
    ELSE UNION {Interpolated(k, p, q) : p \in {p \in previous : Elapsed(k, p, q) <= Threshold}}

\* A fragment is used up by the next point of its slot, or when it has been interpolated
\* from, but not by a point on the sample point.
UsedUp(k, previous, q) ==
    {p \in previous : /\ p.interval = "fragment" /\ ~isOnSamplePoint(k, q.t)
                      /\ Elapsed(k, p, q) <= Threshold}

\* The rows of a page, in order of time.  (Copies of a row, made by a stone with two
\* metadata rows, are counted once.)
Page(k, st, fromDate) ==
    LET rows == {row \in Stored : /\ row.stone = st /\ row.t > fromDate
                                  /\ row.interval \in {Intervals[k].basedOnInterval, "fragment"}}
    IN  {row \in rows : Cardinality({other \in rows : other.t < row.t}) < Limit}

Predecessor(page, q) == {p \in page : p.t = Max({o.t : o \in {o \in page : o.t < q.t}} \cup {-1})}

\* Mutant: the newest row of the interval it is based on.
LastTimeOfBase(k, st) ==
    Max({row.t : row \in {row \in Stored : row.stone = st /\ row.interval = Intervals[k].basedOnInterval}} \cup {0})

\* The time of the newest row of the target interval, or 0.
LastTime(k, st) ==
    Max({row.t : row \in {row \in Stored : row.stone = st /\ row.interval = Target(k)}} \cup {0})
-----------------------------------------------------------------------------
(* A run over all stones: AggegateAllSpheres and _aggregateAllSpheres.     *)

\* Mutant: without the finally.
EndRunFlagged(r) ==
    /\ stage' = [stage EXCEPT ![r] = "idle"]
    /\ run' = [run EXCEPT ![r] = NoRun]
    /\ UNCHANGED AGGREGATING

EndRun(r) ==
    /\ stage' = [stage EXCEPT ![r] = "idle"]
    /\ run' = [run EXCEPT ![r] = NoRun]
    /\ AGGREGATING' = FALSE

\* Mutant: the flag is not looked at.
MayAggregateAlways == TRUE

MayAggregate == ~AGGREGATING

\* A call during another one is answered without doing anything.
AggegateAllSpheres(r) ==
    /\ stage[r] = "idle" /\ MayAggregate
    /\ AGGREGATING' = TRUE
    /\ stage' = [stage EXCEPT ![r] = "listing"]
    /\ UNCHANGED <<trace, now, sent, stoneEnergyProcessed, metaData, newer, upVars, run, faults, missed>>

\* The metadata rows that are later than the last aggregation; none, and the run is over.
ListStones(r) ==
    /\ stage[r] = "listing"
    /\ \/ /\ newer = {}
          /\ EndRun(r)
       \/ /\ newer # {}
          /\ LET rows == [st \in Stones |-> IF st \in newer THEN metaData[st] ELSE 0]
             IN  run' = [run EXCEPT ![r].listed = rows, ![r].todo = rows]
          /\ stage' = [stage EXCEPT ![r] = "stones"]
          /\ UNCHANGED AGGREGATING
    /\ UNCHANGED <<trace, now, sent, stoneEnergyProcessed, metaData, newer, upVars, faults, missed>>

\* The next metadata row of the level: findOne of its stone's newest sample.
FindLastPoint(r, st) ==
    /\ stage[r] = "stones" /\ run[r].todo[st] > 0
    /\ run' = [run EXCEPT ![r].todo[st] = @ - 1, ![r].reading = {st},
                          ![r].fromDate = LastTime(run[r].level, st)]
    /\ stage' = [stage EXCEPT ![r] = "pages"]
    /\ UNCHANGED <<trace, now, sent, stoneEnergyProcessed, metaData, newer, upVars, AGGREGATING, faults, missed>>

NextFrom(page) == Max({row.t : row \in page})

\* One page: its samples, its used fragments, and where the next page starts.
ReadPage(r) ==
    /\ stage[r] = "pages"
    /\ \E st \in run[r].reading :
         LET k    == run[r].level
             page == Page(k, st, run[r].fromDate)
         IN  /\ run' = [run EXCEPT
                    ![r].samples = @ (+) SetToBag(UNION {PointSamples(k, Predecessor(page, q), q) : q \in page}),
                    ![r].used = @ \cup UNION {UsedUp(k, Predecessor(page, q), q) : q \in page},
                    ![r].fromDate = IF page = {} THEN @ ELSE NextFrom(page),
                    ![r].reading = IF Cardinality(page) = Limit THEN @ ELSE {}]
             /\ stage' = [stage EXCEPT ![r] = IF Cardinality(page) = Limit THEN "pages" ELSE "stones"]
    /\ UNCHANGED <<trace, now, sent, stoneEnergyProcessed, metaData, newer, upVars, AGGREGATING, faults, missed>>

CreateAggregates(r) ==
    /\ stage[r] = "stones" /\ \A st \in Stones : run[r].todo[st] = 0
    /\ stoneEnergyProcessed' = stoneEnergyProcessed (+) run[r].samples
    /\ run' = [run EXCEPT ![r].samples = EmptyBag]
    /\ stage' = [stage EXCEPT ![r] = "deleting"]
    /\ UNCHANGED <<trace, now, sent, metaData, newer, upVars, AGGREGATING, faults, missed>>

\* The used fragments go, and the next level starts.
DeleteFragments(r) ==
    /\ stage[r] = "deleting"
    /\ stoneEnergyProcessed' = Without(run[r].used)
    /\ LET next == run[r].level + 1
       IN  IF next <= Len(Intervals)
           THEN /\ run' = [run EXCEPT ![r].level = next, ![r].used = {}, ![r].todo = run[r].listed]
                /\ stage' = [stage EXCEPT ![r] = "stones"]
           ELSE /\ run' = [run EXCEPT ![r].used = {}]
                /\ stage' = [stage EXCEPT ![r] = "ending"]
    /\ UNCHANGED <<trace, now, sent, metaData, newer, upVars, AGGREGATING, faults, missed>>

\* The time of the aggregation is the time at which it ends.
StoreTime(r) ==
    /\ stage[r] = "ending"
    /\ newer' = {}
    /\ EndRun(r)
    /\ UNCHANGED <<trace, now, sent, stoneEnergyProcessed, metaData, upVars, faults, missed>>

\* A query fails, or the process restarts: the flag is free again either way.
InterruptRun(r) ==
    /\ stage[r] # "idle" /\ faults < MaxFaults
    /\ faults' = faults + 1
    /\ EndRun(r)
    /\ UNCHANGED <<trace, now, sent, stoneEnergyProcessed, metaData, newer, upVars, missed>>

-----------------------------------------------------------------------------
\* DataGarbageCollection: one query per interval; a query that fails is passed over.
CollectGarbage(interval) ==
    /\ \E row \in Stored : row.interval = interval /\ row.t < now - Keep[interval]
    /\ stoneEnergyProcessed' = Without({row \in Stored : row.interval = interval /\ row.t < now - Keep[interval]})
    /\ UNCHANGED <<trace, now, sent, metaData, newer, upVars, runVars, faults, missed>>

-----------------------------------------------------------------------------
RunStep(r) ==
    \/ ListStones(r)
    \/ \E st \in Stones : FindLastPoint(r, st)
    \/ ReadPage(r) \/ CreateAggregates(r) \/ DeleteFragments(r) \/ StoreTime(r)

Next ==
    \/ Tick
    \/ \E stones \in SUBSET Stones : ProcessLeftRows(stones)
    \/ \E u \in Uploads :
        \/ \E stones \in SUBSET Stones : StoreSamples(u, stones)
        \/ UpdateMetaData(u) \/ FindMissing(u) \/ CreateMissing(u) \/ InterruptUpload(u)
    \/ \E r \in Callers : AggegateAllSpheres(r) \/ RunStep(r) \/ InterruptRun(r)
    \/ \E interval \in DOMAIN Keep : CollectGarbage(interval)

Spec == Init /\ [][Next]_vars

-----------------------------------------------------------------------------
(* Properties.                                                             *)

Targets == {Target(k) : k \in DOMAIN Intervals}

\* A level that is made of what the sampling stores, and not of aggregates.
OfSamples(k) == Intervals[k].basedOnInterval \notin Targets

\* AGGREGATING stands for a run that goes on: there is never a second one, and neither a
\* failure nor a run without stones leaves the flag up for ever.
OneRunAtATime ==
    /\ AGGREGATING = (\E r \in Callers : stage[r] # "idle")
    /\ \A r, q \in Callers : stage[r] # "idle" /\ stage[q] # "idle" => r = q

\* Nothing that happens now, and no row, says that st has samples to aggregate.
Settled(st) == ~AGGREGATING /\ st \notin newer /\ \A u \in Uploads : st \notin brought[u]

\* A sample that lies on a sample point of the interval above has its aggregate there,
\* unless that one has already been collected.
AggregatedAbove(row) ==
    \A k \in DOMAIN Intervals :
        (/\ OfSamples(k)
         /\ row.interval = Intervals[k].basedOnInterval /\ isOnSamplePoint(k, row.t)
         /\ Target(k) \in DOMAIN Keep => row.t >= now - Keep[Target(k)])
            => [row EXCEPT !.interval = Target(k)] \in Stored

\* A run takes "all stones that have new data since the last aggregation".  So when
\* nothing is going on, every sample on a sample point is aggregated or its stone is
\* going to be listed by the next run - but for stones whose upload was interrupted,
\* ended while a run was going on, or found no metadata row for them.  Uploads, runs
\* that are cut off, pages and the garbage collection leave no other sample out.  (The
\* levels above promise less: a day that was interpolated to a fragment which an upload
\* brought between the two levels of a run is not made again of the hour that follows.)
OnTimeAggregated ==
    \A row \in Stored : Settled(row.stone) /\ row.stone \notin missed => AggregatedAbove(row)

\* Whatever has been interpolated from whatever the runs, their pages and the garbage
\* collections have left: of the samples of a stone and the aggregates that are made of
\* them, none has less energy than an earlier one, and those of one time agree.  (A stone
\* with two metadata rows is read twice by one run, and a garbage collection between the
\* two makes two different aggregates of one time.)  The levels above promise less: a day
\* that is interpolated between two hours does not know the samples between them.
UsageNeverFalls ==
    \A k \in DOMAIN Intervals : OfSamples(k) =>
        \A row, other \in Stored :
            (/\ {row.interval, other.interval} \subseteq {Target(k), Intervals[k].basedOnInterval, "fragment"}
             /\ row.stone = other.stone /\ row.t <= other.t
             /\ metaData[row.stone] <= 1) => row.e <= other.e

\* EnergyProcessor.ts: "there is only one entry per stoneId".  As long as that is so, no
\* order of runs, interruptions and garbage collections aggregates a point twice.
OneAggregatePerPoint ==
    \A row \in Stored :
        (row.interval \in Targets /\ metaData[row.stone] <= 1) =>
            /\ stoneEnergyProcessed[row] = 1
            /\ \A other \in Stored :
                    (other.stone = row.stone /\ other.t = row.t /\ other.interval = row.interval) => other = row
=============================================================================
