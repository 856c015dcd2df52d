--------------------------- MODULE EnergySampling ---------------------------
(***************************************************************************)
(* The upload of energy measurements of a stone (collectEnergyUsage of     *)
(* controllers/energy.controller.ts, processMeasurements of                *)
(* modules/energy/EnergyProcessor.ts).  A call stores the points it brings *)
(* and then, whatever it brought, turns all unchecked points into samples: *)
(* it reads them, stores the samples, deletes the points it has used and   *)
(* keeps the last one for the next call.  These are separate queries, and  *)
(* nothing keeps two calls apart.                                          *)
(*                                                                         *)
(* A hub uploads runs of what it measured.  It may send points again, all  *)
(* or some of them, and it may send the next ones while a call is running. *)
(* A call makes three queries before it stores its points                  *)
(* (energy.controller.ts:119-126) that only read; so a call enters the     *)
(* model when it stores them, and calls store in any order: an earlier run *)
(* may still be on its way, may have been refused, or comes late.          *)
(* The stones of a sphere are processed one after the other; this is one.  *)
(***************************************************************************)
EXTENDS EnergyRules, FiniteSets, SequencesExt

CONSTANTS Uploads,      \* calls that can be in progress at the same time
          Traces,       \* what the stone may measure: sequences of [t, e]
          Limit,        \* iterationSize
          MaxRepeats,   \* bound: uploads that bring points again, or late
          MaxFaults     \* bound: interrupted calls

ASSUME SamplingAssumption ==
    /\ IsFiniteSet(Uploads)
    /\ Traces \subseteq Seq([t : Nat, e : Int])
    /\ \A trace \in Traces : \A i, j \in DOMAIN trace : i < j => trace[i].t < trace[j].t
    /\ Limit \in Nat \ {0} /\ MaxRepeats \in Nat /\ MaxFaults \in Nat

VARIABLES
    trace,                \* what the stone measures in this behaviour
    sent,                 \* the newest of its points that is stored
    inOrder,              \* history: up to this point all were stored in order of time
    lastId,               \* the last id the database has given to a row
    stoneEnergy,          \* the stored rows
    stoneEnergyProcessed, \* the samples, as they were stored
    stage,                \* stage[u]: the query the call u makes next
    energyData,           \* energyData[u]: the unchecked rows u has read
    work,                 \* work[u]: what u is going to store, delete and keep
    repeats, faults,
    disturbed             \* history: calls overlapped, were repeated or interrupted

callVars == <<stage, energyData, work>>
vars == <<trace, sent, inOrder, lastId, stoneEnergy, stoneEnergyProcessed, stage, energyData, work,
          repeats, faults, disturbed>>

Stages == {"idle", "reading", "finding", "creating", "deleting", "updating"}
NoWork == [samples |-> <<>>, used |-> {}, last |-> Row(0, 0, 0)]

Init ==
    /\ trace \in Traces
    /\ sent = 0 /\ inOrder = 0 /\ lastId = 0
    /\ stoneEnergy = {} /\ stoneEnergyProcessed = <<>>
    /\ stage = [u \in Uploads |-> "idle"]
    /\ energyData = [u \in Uploads |-> <<>>]
    /\ work = [u \in Uploads |-> NoWork]
    /\ repeats = 0 /\ faults = 0 /\ disturbed = FALSE

Running == {u \in Uploads : stage[u] # "idle"}

\* The call answers "Energy usage stored", or goes on with the next rows.
EndIteration(u) ==
    /\ stage' = [stage EXCEPT ![u] = IF Len(energyData[u]) = Limit THEN "reading" ELSE "idle"]
    /\ energyData' = [energyData EXCEPT ![u] = <<>>]
    /\ work' = [work EXCEPT ![u] = NoWork]

EndCall(u) ==
    /\ stage' = [stage EXCEPT ![u] = "idle"]
    /\ energyData' = [energyData EXCEPT ![u] = <<>>]
    /\ work' = [work EXCEPT ![u] = NoWork]

-----------------------------------------------------------------------------
\* What is in order when from..to has been stored.  A run that leaves out a point before
\* it ends it for good; so does one that brings older points without all that followed.
StillInOrder(from, to) ==
    IF to < inOrder THEN from - 1
    ELSE IF inOrder = sent /\ from <= sent + 1 THEN to
    ELSE inOrder

\* The points from..to of the trace are stored, whatever was stored before; from = to + 1
\* for a call that brings points of the other stones of the sphere only.
collectEnergyUsage(u, from, to) ==
    /\ stage[u] = "idle"
    /\ from <= to \/ (from = sent + 1 /\ to = sent)
    /\ from > sent \/ repeats < MaxRepeats
    /\ stoneEnergy' = stoneEnergy \cup
            {Row(lastId + 1 + i - from, trace[i].t, trace[i].e) : i \in from..to}
    /\ lastId' = lastId + 1 + to - from
    /\ sent' = Max({sent, to})
    /\ inOrder' = StillInOrder(from, to)
    /\ repeats' = IF from > sent THEN repeats ELSE repeats + 1
    /\ disturbed' = (disturbed \/ from # sent + 1 \/ Running # {})
    /\ stage' = [stage EXCEPT ![u] = "reading"]
    /\ UNCHANGED <<trace, stoneEnergyProcessed, energyData, work, faults>>

Unchecked == {row \in stoneEnergy : ~row.checked}

\* order timestamp ASC; rows of the same time come in the order they were stored.
Before(row, other) == row.t < other.t \/ (row.t = other.t /\ row.id < other.id)

\* The first Limit unchecked rows, in order.
FirstUnchecked ==
    [i \in 1..Min({Limit, Cardinality(Unchecked)}) |->
        CHOOSE row \in Unchecked :
            Cardinality({other \in Unchecked : Before(other, row)}) = i - 1]

ReadUnchecked(u) ==
    /\ stage[u] = "reading"
    /\ IF Unchecked = {}
       THEN EndCall(u)
       ELSE /\ energyData' = [energyData EXCEPT ![u] = FirstUnchecked]
            /\ stage' = [stage EXCEPT ![u] = "finding"]
            /\ UNCHANGED work
    /\ UNCHANGED <<trace, sent, inOrder, lastId, stoneEnergy, stoneEnergyProcessed, repeats, faults, disturbed>>

\* What findOne may return: the last checked row before the first unchecked one.
LastChecked(u) ==
    LET before == {row \in stoneEnergy : row.checked /\ row.t < energyData[u][1].t}
    IN  {row \in before : \A other \in before : other.t <= row.t}

\* Mutant: the last row is deleted as well.
UsedAll(last, rows, kept) == {last.id} \cup {row.id : row \in ToSet(rows)}

\* All rows that took part, but for the one that is kept.
Used(last, rows, kept) == ({last.id} \cup {row.id : row \in ToSet(rows)}) \ {kept.id}

Process(u, last, rows) ==
    LET result == ProcessRows(last, rows)
    IN  IF result.samples = <<>>
        THEN EndIteration(u)
        ELSE /\ work' = [work EXCEPT ![u] =
                    [samples |-> result.samples, used |-> Used(last, rows, result.row), last |-> result.row]]
             /\ stage' = [stage EXCEPT ![u] = "creating"]
             /\ UNCHANGED energyData

\* _processStoneEnergy: findOne, and what is computed from its result.
FindLastChecked(u) ==
    /\ stage[u] = "finding"
    /\ \/ \E last \in LastChecked(u) : Process(u, last, energyData[u])
       \/ /\ LastChecked(u) = {} /\ Len(energyData[u]) >= 2
          /\ Process(u, Head(energyData[u]), Tail(energyData[u]))
       \/ /\ LastChecked(u) = {} /\ Len(energyData[u]) < 2
          /\ EndIteration(u)
    /\ UNCHANGED <<trace, sent, inOrder, lastId, stoneEnergy, stoneEnergyProcessed, repeats, faults, disturbed>>

CreateSamples(u) ==
    /\ stage[u] = "creating"
    /\ stoneEnergyProcessed' = stoneEnergyProcessed \o work[u].samples
    /\ stage' = [stage EXCEPT ![u] = "deleting"]
    /\ UNCHANGED <<trace, sent, inOrder, lastId, stoneEnergy, energyData, work, repeats, faults, disturbed>>

DeleteUsed(u) ==
    /\ stage[u] = "deleting"
    /\ stoneEnergy' = {row \in stoneEnergy : row.id \notin work[u].used}
    /\ stage' = [stage EXCEPT ![u] = "updating"]
    /\ UNCHANGED <<trace, sent, inOrder, lastId, stoneEnergyProcessed, energyData, work, repeats, faults, disturbed>>

\* Mutant: the last row is kept, but not marked.
KeptUnmarked(last) == stoneEnergy

Kept(last) == {IF row.id = last.id THEN last ELSE row : row \in stoneEnergy}

\* update of a row another call has deleted throws, and ends the loop.
UpdateLast(u) ==
    /\ stage[u] = "updating"
    /\ stoneEnergy' = Kept(work[u].last)
    /\ IF \E row \in stoneEnergy : row.id = work[u].last.id THEN EndIteration(u) ELSE EndCall(u)
    /\ UNCHANGED <<trace, sent, inOrder, lastId, stoneEnergyProcessed, repeats, faults, disturbed>>

\* A query that fails, or a restart: the call ends where it is.
Interrupt(u) ==
    /\ stage[u] # "idle" /\ faults < MaxFaults
    /\ faults' = faults + 1
    /\ disturbed' = TRUE
    /\ EndCall(u)
    /\ UNCHANGED <<trace, sent, inOrder, lastId, stoneEnergy, stoneEnergyProcessed, repeats>>

-----------------------------------------------------------------------------
ProcessStep(u) ==
    ReadUnchecked(u) \/ FindLastChecked(u) \/ CreateSamples(u) \/ DeleteUsed(u) \/ UpdateLast(u)

Next ==
    \E u \in Uploads :
        \/ \E from \in 1..(Len(trace) + 1), to \in 0..Len(trace) : collectEnergyUsage(u, from, to)
        \/ ProcessStep(u)
        \/ Interrupt(u)

Spec == Init /\ [][Next]_vars

\* The queries of a call are answered; nobody has to upload.
FairSpec == Spec /\ \A u \in Uploads : WF_vars(ProcessStep(u))

-----------------------------------------------------------------------------
(* Properties.                                                             *)

SampledAt == {stoneEnergyProcessed[i].t : i \in DOMAIN stoneEnergyProcessed}
RowsAt(t) == {row \in stoneEnergy : row.t = t}

\* No measured sample point is lost, up to the first measurement that was stored out of
\* order.  However the calls overlap, repeat points or are interrupted: a sample point
\* between two of these measurements that are close enough has its sample, or both are
\* still there and the later one is unchecked, so that the next call makes it.  A run that
\* comes late takes nothing from the points before it.  From its first point on samples do
\* get lost: with a sample point at every second tick, the measurement at 1 kept and the
\* one at 6 processed before the one at 3 is stored, nothing makes the sample at 2.
NoSampleLost ==
    \A i \in 2..inOrder :
        LET a == trace[i-1]
            b == trace[i]
        IN  ElapsedSamplePoints(a, b) <= INTERPOLATION_THRESHOLD =>
              \A p \in (a.t + 1)..b.t :
                 (p = SamplePoint(p) /\ p \notin SampledAt)
                    => RowsAt(a.t) # {} /\ \E row \in RowsAt(b.t) : ~row.checked

\* How the hub cuts its measurements into calls does not matter: calls that follow one
\* another store the samples one call with all of the points would have stored.
AllRows == [i \in 1..sent |-> Row(i, trace[i].t, trace[i].e)]

BatchesDontMatter ==
    (~disturbed /\ Running = {}) =>
        stoneEnergyProcessed =
            IF sent < 2 THEN <<>> ELSE ProcessRows(Head(AllRows), Tail(AllRows)).samples

\* As long as calls follow one another, are not repeated and not interrupted, the samples
\* are stored in order of time, one for a time, the energy does not decrease, and the
\* fragments lie between the sample points.  This is what EnergyAggregation assumes of
\* the samples it is given.
SamplesInOrder ==
    ~disturbed =>
        \A i \in DOMAIN stoneEnergyProcessed :
            LET sample == stoneEnergyProcessed[i]
            IN  /\ sample.interval = "fragment" => sample.t # SamplePoint(sample.t)
                /\ \A j \in (i + 1)..Len(stoneEnergyProcessed) :
                        /\ sample.t < stoneEnergyProcessed[j].t
                        /\ sample.e <= stoneEnergyProcessed[j].e

\* Every upload is answered, also one whose points give no sample.
UploadAnswered == \A u \in Uploads : stage[u] # "idle" ~> stage[u] = "idle"
=============================================================================
