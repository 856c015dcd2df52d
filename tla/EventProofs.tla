---------------------------- MODULE EventProofs ----------------------------
(***************************************************************************)
(* Proofs about the two parts of the server that announce what they do.    *)
(*                                                                         *)
(* StoneEvents, for any number of stones, uids, creates, events and names: *)
(* no create is refused in a sphere that is not full, and the cache of the *)
(* events does not bring back an old name.                                 *)
(*                                                                         *)
(* TransformSession, for any number of sessions, phones, collections and   *)
(* maps: how a session ends, who is told, and what a transform is made     *)
(* from.  The two share no variable.                                       *)
(***************************************************************************)
EXTENDS StoneEvents, TransformSession, Integers, FiniteSetTheorems, WellFoundedInduction, SequencesExt, TLAPS

-----------------------------------------------------------------------------
(* The cache of the events.  The steps of stones leave it alone, so that    *)
(* its invariant is about EventStep and AnnounceCreated.                    *)

CallStages == {"idle", "wrote", "item", "find", "load", "send"}

\* A call writes, reads and shows names that the sphere has had.
NamesKnown ==
    /\ name \in Nat \ {0} /\ cached \in 0..name /\ outrun \in BOOLEAN
    /\ calls \in [Calls -> [about: {"none", "sphere", "item", "ability"}, stage: CallStages,
                            wrote: 0..name, seen: 0..name]]
    /\ \A k \in Calls : calls[k].stage = "item" => calls[k].about # "sphere"
    /\ \A k \in Calls : calls[k].stage = "load" => calls[k].seen # Events!NotCached

\* Between the read of a name and the event it is still not older than what the call wrote.
SeenIsNewer ==
    \A k \in Calls :
        (calls[k].stage \in {"load", "send"} /\ calls[k].about = "sphere") => calls[k].seen >= calls[k].wrote

\* As long as no write has met another name in hand, ...
HeldIsLatest ==
    ~outrun =>
        \* ... an update that is not merged yet is the latest, ...
        /\ \A k \in Calls : calls[k].stage = "wrote" => calls[k].wrote = name
        \* ... and without such an update every call that read the name read the latest.
        /\ (\A k \in Calls : calls[k].stage # "wrote") =>
                \A k \in Calls : calls[k].stage \in {"load", "send"} => calls[k].seen = name

EventInv == NamesKnown /\ SeenIsNewer /\ HeldIsLatest /\ CacheAgrees

LEMMA EventsStart == Events!Init => EventInv
  <1> SUFFICES ASSUME Events!Init PROVE EventInv
    OBVIOUS
  <1>1. /\ name = 1 /\ cached = 0 /\ outrun = FALSE
        /\ calls = [k \in Calls |-> [about |-> "none", stage |-> "idle", wrote |-> 0, seen |-> 0]]
    BY DEF Events!Init, Events!Idle, Events!Call, Events!NotCached
  <1>2. NamesKnown
    <2>1. name \in Nat \ {0} /\ cached \in 0..name
      BY <1>1
    <2>2. outrun \in BOOLEAN
      BY <1>1
    <2>3. \A k \in Calls : calls[k] = [about |-> "none", stage |-> "idle", wrote |-> 0, seen |-> 0]
      BY <1>1
    <2>4. calls \in [Calls -> [about: {"none", "sphere", "item", "ability"}, stage: CallStages,
                               wrote: 0..name, seen: 0..name]]
      BY <1>1 DEF CallStages
    <2>5. QED
      BY <2>1, <2>2, <2>3, <2>4 DEF NamesKnown
  <1>3. SeenIsNewer /\ HeldIsLatest /\ CacheAgrees
    BY <1>1 DEF SeenIsNewer, HeldIsLatest, CacheAgrees, Events!CacheAgrees, Events!NotCached
  <1>4. QED
    BY <1>2, <1>3 DEF EventInv

\* What getSphereData leaves in a call.
LEMMA AskedTyped ==
    ASSUME NEW n \in Nat, NEW known \in 0..n,
           NEW k \in [about: {"none", "sphere", "item", "ability"}, stage: CallStages,
                      wrote: 0..n, seen: 0..n]
    PROVE  /\ Events!Asked(k, known) \in [about: {"none", "sphere", "item", "ability"}, stage: CallStages,
                                        wrote: 0..n, seen: 0..n]
           /\ Events!Asked(k, known).about = k.about /\ Events!Asked(k, known).wrote = k.wrote
           /\ known = Events!NotCached => Events!Asked(k, known).stage = "find"
           /\ known # Events!NotCached =>
                Events!Asked(k, known).stage = "send" /\ Events!Asked(k, known).seen = known
  BY DEF Events!Asked, Events!NotCached, CallStages

LEMMA UpdateKeeps ==
    ASSUME EventInv, NEW k \in Calls, Events!Update(k)
    PROVE  EventInv'
  <1>1. NamesKnown'
    BY DEF EventInv, NamesKnown, Events!Update, Events!Call, CallStages, Events!NotCached
  <1>2. SeenIsNewer'
    BY DEF EventInv, NamesKnown, SeenIsNewer, Events!Update, Events!Call
  <1>3. HeldIsLatest'
    BY DEF EventInv, NamesKnown, HeldIsLatest, Events!Update, Events!Call, Events!Others, Events!Holds
  <1>4. CacheAgrees'
    BY DEF EventInv, NamesKnown, CacheAgrees, Events!CacheAgrees, Events!Update, Events!Call
  <1>5. QED
    BY <1>1, <1>2, <1>3, <1>4 DEF EventInv

LEMMA MergeKeeps ==
    ASSUME EventInv, NEW k \in Calls, Events!Merge(k)
    PROVE  EventInv'
  <1> DEFINE after == Events!Asked(calls[k], cached')
  <1>1. /\ name' = name /\ cached' \in 0..name
        /\ calls' = [calls EXCEPT ![k] = after]
        /\ calls[k].wrote \in 0..name
        /\ cached' # Events!NotCached => cached' = calls[k].wrote
    BY DEF EventInv, NamesKnown, Events!Merge, Events!Merged, Events!NotCached
  <1>2. /\ after \in [about: {"none", "sphere", "item", "ability"}, stage: CallStages,
                      wrote: 0..name, seen: 0..name]
        /\ after.about = calls[k].about /\ after.wrote = calls[k].wrote
        /\ cached' = Events!NotCached => after.stage = "find"
        /\ cached' # Events!NotCached => after.stage = "send" /\ after.seen = cached'
    BY <1>1, AskedTyped DEF EventInv, NamesKnown
  <1> HIDE DEF after
  <1>3. NamesKnown'
    BY <1>1, <1>2 DEF EventInv, NamesKnown, Events!Merge
  <1>4. SeenIsNewer'
    BY <1>1, <1>2 DEF EventInv, NamesKnown, SeenIsNewer
  <1>5. HeldIsLatest'
    BY <1>1, <1>2 DEF EventInv, NamesKnown, HeldIsLatest, Events!Merge, Events!Others, Events!Holds
  <1>6. CacheAgrees'
    BY <1>1, <1>2 DEF EventInv, NamesKnown, HeldIsLatest, CacheAgrees, Events!CacheAgrees, Events!Merge
  <1>7. QED
    BY <1>3, <1>4, <1>5, <1>6 DEF EventInv

\* AskSphere and AnnounceCreated: the call has a name from the cache, or goes to find one.
LEMMA AskKeeps ==
    ASSUME EventInv, NEW k \in Calls, NEW before,
           before \in [about: {"none", "item", "ability"}, stage: {"item"}, wrote: 0..name, seen: 0..name],
           calls[k].stage # "wrote",
           calls' = [calls EXCEPT ![k] = Events!Asked(before, cached)], UNCHANGED <<name, cached, outrun>>
    PROVE  EventInv'
  <1> DEFINE after == Events!Asked(before, cached)
  <1>1. /\ after \in [about: {"none", "sphere", "item", "ability"}, stage: CallStages,
                      wrote: 0..name, seen: 0..name]
        /\ after.about # "sphere"
        /\ cached = Events!NotCached => after.stage = "find"
        /\ cached # Events!NotCached => after.stage = "send" /\ after.seen = cached
    BY AskedTyped DEF EventInv, NamesKnown, CallStages
  <1>2. calls' = [calls EXCEPT ![k] = after]
    OBVIOUS
  <1> HIDE DEF after
  <1>3. NamesKnown'
    BY <1>1, <1>2 DEF EventInv, NamesKnown
  <1>4. SeenIsNewer'
    BY <1>1, <1>2 DEF EventInv, NamesKnown, SeenIsNewer
  <1>5. HeldIsLatest'
    BY <1>1, <1>2 DEF EventInv, NamesKnown, HeldIsLatest, CacheAgrees, Events!CacheAgrees
  <1>6. CacheAgrees'
    BY <1>1, <1>2 DEF EventInv, NamesKnown, CacheAgrees, Events!CacheAgrees
  <1>7. QED
    BY <1>3, <1>4, <1>5, <1>6 DEF EventInv

LEMMA ReadKeeps ==
    ASSUME EventInv, NEW k \in Calls, Events!FindSphere(k) \/ Events!Load(k)
    PROVE  EventInv'
  <1>1. CASE Events!FindSphere(k)
    <2>1. NamesKnown' /\ SeenIsNewer'
      BY <1>1 DEF EventInv, NamesKnown, CallStages, SeenIsNewer, Events!FindSphere, Events!NotCached
    <2>2. HeldIsLatest' /\ CacheAgrees'
      BY <1>1 DEF EventInv, NamesKnown, HeldIsLatest, CacheAgrees, Events!CacheAgrees, Events!FindSphere
    <2>3. QED
      BY <2>1, <2>2 DEF EventInv
  <1>2. CASE Events!Load(k)
    <2>1. NamesKnown' /\ SeenIsNewer'
      BY <1>2 DEF EventInv, NamesKnown, CallStages, SeenIsNewer, Events!Load, Events!NotCached
    <2>2. HeldIsLatest' /\ CacheAgrees'
      BY <1>2 DEF EventInv, NamesKnown, HeldIsLatest, CacheAgrees, Events!CacheAgrees, Events!Load
    <2>3. QED
      BY <2>1, <2>2 DEF EventInv
  <1>3. QED
    BY <1>1, <1>2

LEMMA SendKeeps ==
    ASSUME EventInv, NEW k \in Calls, Events!Send(k) \/ Events!Drop(k)
    PROVE  EventInv'
  <1>1. /\ calls' = [calls EXCEPT ![k] = Events!Idle]
        /\ calls[k].stage \in {"item", "send"} /\ name' = name /\ outrun' = outrun
        /\ Events!Idle = [about |-> "none", stage |-> "idle", wrote |-> 0, seen |-> 0]
    BY DEF Events!Send, Events!Drop, Events!Idle, Events!Call
  <1>2. cached' = cached \/ (cached' = calls[k].seen /\ calls[k].stage = "send")
    BY DEF Events!Send, Events!Drop
  <1>3. NamesKnown'
    BY <1>1, <1>2 DEF EventInv, NamesKnown, CallStages
  <1>4. SeenIsNewer' /\ HeldIsLatest'
    BY <1>1 DEF EventInv, NamesKnown, SeenIsNewer, HeldIsLatest
  <1>5. CacheAgrees'
    BY <1>1, <1>2 DEF EventInv, NamesKnown, HeldIsLatest, CacheAgrees, Events!CacheAgrees, Events!NotCached
  <1>6. QED
    BY <1>3, <1>4, <1>5 DEF EventInv

LEMMA EventStepKeeps ==
    ASSUME EventInv, Events!Next
    PROVE  EventInv'
  <1>1. CASE \E k \in Calls : Events!AnnounceCreated(k) \/ Events!AskSphere(k)
    <2> PICK k \in Calls : Events!AnnounceCreated(k) \/ Events!AskSphere(k)
      BY <1>1
    <2>1. CASE Events!AnnounceCreated(k)
      <3>1. Events!Call("item", "item", 0) \in
                [about: {"none", "item", "ability"}, stage: {"item"}, wrote: 0..name, seen: 0..name]
        BY DEF EventInv, NamesKnown, Events!Call
      <3>2. calls[k].stage = "idle"
        BY <2>1 DEF Events!AnnounceCreated, Events!Idle, Events!Call
      <3>3. QED
        BY <2>1, <3>1, <3>2, AskKeeps DEF Events!AnnounceCreated
    <2>2. CASE Events!AskSphere(k)
      <3>1. calls[k] \in [about: {"none", "item", "ability"}, stage: {"item"}, wrote: 0..name, seen: 0..name]
        BY <2>2 DEF EventInv, NamesKnown, Events!AskSphere
      <3>2. QED
        BY <2>2, <3>1, AskKeeps DEF Events!AskSphere, EventInv, NamesKnown
    <2>3. QED
      BY <2>1, <2>2
  <1>2. CASE \E k \in Calls : Events!Update(k) \/ Events!Merge(k)
    BY <1>2, UpdateKeeps, MergeKeeps
  <1>3. CASE \E k \in Calls : \/ Events!FindSphere(k) \/ Events!Load(k)
                              \/ Events!Send(k) \/ Events!Drop(k)
    BY <1>3, ReadKeeps, SendKeeps
  <1>4. CASE \E k \in Calls, about \in {"item", "ability"} : Events!AnnounceUpdated(k, about)
    <2>1. NamesKnown' /\ SeenIsNewer'
      BY <1>4 DEF EventInv, NamesKnown, CallStages, SeenIsNewer, Events!AnnounceUpdated, Events!Call, Events!Idle
    <2>2. HeldIsLatest' /\ CacheAgrees'
      BY <1>4 DEF EventInv, NamesKnown, HeldIsLatest, CacheAgrees, Events!CacheAgrees,
                  Events!AnnounceUpdated, Events!Call, Events!Idle
    <2>3. QED
      BY <2>1, <2>2 DEF EventInv
  <1>5. CASE Events!Expire
    <2>1. NamesKnown' /\ SeenIsNewer' /\ CacheAgrees'
      BY <1>5 DEF EventInv, NamesKnown, SeenIsNewer, CacheAgrees, Events!CacheAgrees, Events!Expire, Events!NotCached
    <2>2. HeldIsLatest'
      BY <1>5 DEF EventInv, NamesKnown, HeldIsLatest, Events!Expire, Events!Holds
    <2>3. QED
      BY <2>1, <2>2 DEF EventInv
  <1>6. CASE Events!CloudEdit
    <2>1. NamesKnown' /\ SeenIsNewer'
      BY <1>6 DEF EventInv, NamesKnown, CallStages, SeenIsNewer, Events!CloudEdit
    <2>2. HeldIsLatest' /\ CacheAgrees'
      BY <1>6 DEF EventInv, NamesKnown, HeldIsLatest, CacheAgrees, Events!CacheAgrees,
                  Events!CloudEdit, Events!Holds
    <2>3. QED
      BY <2>1, <2>2 DEF EventInv
  <1>7. QED
    BY <1>1, <1>2, <1>3, <1>4, <1>5, <1>6 DEF Events!Next, Events!EventStep

LEMMA StoneStepKeeps == EventInv /\ [StoneNext]_<<uidVars, eventVars>> => EventInv'
  <1> SUFFICES ASSUME EventInv, [StoneNext]_<<uidVars, eventVars>> PROVE EventInv'
    OBVIOUS
  <1>1. Events!Next \/ UNCHANGED eventVars
    BY DEF StoneNext, CreateStone, CreateWithoutKeys, Events!Next
  <1>2. CASE UNCHANGED eventVars
    BY <1>2 DEF eventVars, EventInv, NamesKnown, SeenIsNewer, HeldIsLatest, CacheAgrees, Events!CacheAgrees
  <1>3. QED
    BY <1>1, <1>2, EventStepKeeps

\* The event about an update of the sphere shows the name that was written, or a later
\* one, however many events share the cache and whoever else writes.
THEOREM UpdatesAreShown == StoneSpec => []UpdateShown
  <1>1. StoneInit => EventInv
    BY EventsStart DEF StoneInit
  <1>2. EventInv => UpdateShown
    BY DEF EventInv, SeenIsNewer, UpdateShown, Events!UpdateShown
  <1>3. QED
    BY <1>1, <1>2, StoneStepKeeps, PTL DEF StoneSpec

\* What is cached is what is stored, but for the writes that HeldIsLatest excludes: those
\* that meet a call with an older name in hand.
THEOREM CacheIsCurrent == StoneSpec => []CacheAgrees
  <1>1. StoneInit => EventInv
    BY EventsStart DEF StoneInit
  <1>2. EventInv => CacheAgrees
    BY DEF EventInv
  <1>3. QED
    BY <1>1, <1>2, StoneStepKeeps, PTL DEF StoneSpec

-----------------------------------------------------------------------------
(* The uids of stones.                                                     *)

LEMMA LeastNatural ==
    ASSUME NEW S \in SUBSET Nat, S # {}
    PROVE  /\ \E least \in S : \A n \in S : least <= n
           /\ Min(S) \in S /\ \A n \in S : Min(S) <= n
  <1> DEFINE smaller == {p \in Nat \X Nat : p[1] < p[2]}
  <1>1. IsWellFoundedOn(smaller, Nat)
    BY NatLessThanWellFounded DEF OpToRel
  <1>2. \A m, n \in Nat : <<n, m>> \in smaller <=> n < m
    OBVIOUS
  <1> HIDE DEF smaller
  <1>3. PICK least \in S : \A n \in S : ~(<<n, least>> \in smaller)
    BY <1>1, WFMin
  <1>4. ASSUME NEW n \in S PROVE least <= n
    <2>1. n \in Nat /\ least \in Nat
      OBVIOUS
    <2>2. ~(<<n, least>> \in smaller)
      BY <1>3
    <2>3. ~(n < least)
      BY <1>2, <2>1, <2>2, Zenon
    <2>4. QED
      BY <2>1, <2>3
  <1>5. \A n \in S : least <= n
    BY <1>4
  <1>6. Min(S) \in S /\ \A n \in S : Min(S) <= n
    BY <1>5 DEF Min
  <1>7. QED
    BY <1>5, <1>6

LEMMA GreatestNatural ==
    ASSUME NEW S, S # {}, NEW bound \in Nat, S \subseteq 0..bound
    PROVE  Max(S) \in S /\ \A n \in S : Max(S) >= n
  <1> DEFINE T == {bound - n : n \in S}
  <1>1. \A n \in S : n \in 0..bound /\ bound - n \in Nat
    OBVIOUS
  <1>2. PICK t \in T : \A u \in T : t <= u
    <2> PICK n \in S : TRUE
      OBVIOUS
    <2>1. bound - n \in T /\ \A u \in T : u \in Nat
      BY <1>1
    <2>2. QED
      BY <2>1, LeastNatural
  <1>3. PICK m \in S : t = bound - m
    OBVIOUS
  <1>4. \A n \in S : bound - m <= bound - n
    BY <1>2, <1>3
  <1>5. \A n \in S : m >= n
    BY <1>1, <1>4
  <1>6. QED
    BY <1>5 DEF Max

\* What is stored is typed, and a create that searches for a gap has seen the last uid
\* taken, which it still is unless the stones have changed.
UidInv ==
    /\ uid = [s \in stored |-> uid[s]] /\ stored \subseteq Stones
    /\ \A s \in stored : uid[s] \in 0..MaxUid
    /\ newUid \in [Creators -> 0..MaxUid]
    /\ creates \in [Creators -> {"idle", "searching", "inserting", "refused"}]
    /\ \A c \in Creators :
        (creates[c] = "searching" /\ c \notin stale) => \E s \in stored : uid[s] = MaxUid

LEMMA UidStart == UidInit => UidInv
  BY UidAssumption DEF UidInit, UidInv, stored, NoUid

LEMMA FindHighestKeeps ==
    ASSUME UidInv, NEW c \in Creators, FindHighest(c)
    PROVE  UidInv'
  <1>1. CASE NoRoom /\ creates' = [creates EXCEPT ![c] = "searching"] /\ UNCHANGED newUid
    <2> DEFINE uids == {uid[s] : s \in stored}
    <2>1. uids # {} /\ uids \subseteq 0..MaxUid /\ MaxUid \in Nat
      BY <1>1, UidAssumption DEF UidInv, NoRoom
    <2>2. Max(uids) \in uids
      BY <2>1, GreatestNatural
    <2>3. Max(uids) + 1 > MaxUid
      BY <1>1 DEF NoRoom, NoRoomAbove, highest
    <2>4. Max(uids) = MaxUid
      BY <2>1, <2>2, <2>3
    <2>5. \E s \in stored : uid[s] = MaxUid
      BY <2>2, <2>4
    <2>6. QED
      BY <1>1, <2>5 DEF UidInv, FindHighest, stored
  <1>2. CASE creates' = [creates EXCEPT ![c] = "inserting"] /\ newUid' = [newUid EXCEPT ![c] = InjectedUid]
    <2>1. InjectedUid \in 0..MaxUid
      BY UidAssumption DEF InjectedUid, NoUid
    <2>2. QED
      BY <1>2, <2>1 DEF UidInv, FindHighest, stored
  <1>3. QED
    BY <1>1, <1>2 DEF FindHighest

\* A create that saw the stones before they change is stale from then on.
LEMMA StonesChangeKeeps ==
    ASSUME UidInv, NEW c \in Creators, NEW s \in Stones, Insert(c, s) \/ Delete(s)
    PROVE  UidInv'
  <1>1. \A d \in Creators : creates'[d] = "searching" => d \in stale'
    BY DEF UidInv, Insert, Delete, Searching
  <1>2. CASE Insert(c, s)
    <2>1. /\ stored' = stored \cup {s}
          /\ \A t \in stored' : uid'[t] = IF t = s THEN newUid[c] ELSE uid[t]
          /\ uid' = [t \in stored' |-> uid'[t]]
      BY <1>2 DEF Insert, stored
    <2>2. \A t \in stored' : uid'[t] \in 0..MaxUid
      BY <2>1 DEF UidInv
    <2>3. newUid' \in [Creators -> 0..MaxUid] /\ creates' \in [Creators -> {"idle", "searching", "inserting", "refused"}]
      BY <1>2, UidAssumption DEF UidInv, Insert, NoUid
    <2>4. QED
      BY <1>1, <2>1, <2>2, <2>3 DEF UidInv
  <1>3. CASE Delete(s)
    <2>1. /\ stored' = stored \ {s} /\ uid' = [t \in stored' |-> uid[t]]
      BY <1>3 DEF Delete, stored
    <2>2. QED
      BY <1>1, <1>3, <2>1 DEF UidInv, Delete
  <1>4. QED
    BY <1>2, <1>3

LEMMA UidStepKeeps == UidInv /\ [StoneNext]_<<uidVars, eventVars>> => UidInv'
  <1> SUFFICES ASSUME UidInv, [StoneNext]_<<uidVars, eventVars>> PROVE UidInv'
    OBVIOUS
  <1>1. ASSUME NEW c \in Creators, NEW n \in 1..MaxUid, CreateGiven(c, n)
        PROVE  UidInv'
    <2>1. n \in 0..MaxUid
      BY UidAssumption
    <2>2. QED
      BY <1>1, <2>1 DEF CreateGiven, UidInv, stored
  <1>2. ASSUME NEW c \in Creators, FindGap(c) \/ Refuse(c)
        PROVE  UidInv'
    BY <1>2, UidAssumption DEF FindGap, Refuse, UidInv, stored, NoUid
  <1>3. CASE UNCHANGED uidVars
    BY <1>3 DEF uidVars, UidInv, stored
  <1>4. ASSUME NEW s \in Stones, Delete(s)
        PROVE  UidInv'
    <2>1. CASE Creators # {}
      BY <1>4, <2>1, StonesChangeKeeps
    <2>2. CASE Creators = {}
      <3>1. stored' = stored \ {s} /\ uid' = [t \in stored' |-> uid[t]]
        BY <1>4 DEF Delete, stored
      <3>2. QED
        BY <1>4, <2>2, <3>1 DEF UidInv, Delete
    <2>3. QED
      BY <2>1, <2>2
  <1>5. QED
    BY <1>1, <1>2, <1>3, <1>4, FindHighestKeeps, StonesChangeKeeps DEF StoneNext, CreateStone, CreateWithoutKeys

\* When the search from a taken last uid finds no gap, every uid is taken: the i-th stone
\* in ascending order has uid i, for as many stones as there are uids.
LEMMA NoGapIsFull ==
    ASSUME UidInv, NEW top \in stored, uid[top] = MaxUid, ~GapFound
    PROVE  Taken = 1..MaxUid
  <1> DEFINE below(n) == {s \in stored : uid[s] < n}
             upto(n)  == {s \in stored : uid[s] <= n}
             m        == Cardinality(stored)
  <1>1. MaxUid \in Nat \ {0} /\ \A s \in stored : uid[s] \in 0..MaxUid
    BY UidAssumption DEF UidInv
  <1>2. IsFiniteSet(stored) /\ m \in Nat /\ m # 0
    <2>1. IsFiniteSet(stored)
      BY UidAssumption, FS_Subset DEF UidInv
    <2>2. QED
      BY <2>1, FS_CardinalityType, FS_EmptySet
  <1>a. \A n : /\ below(n) \in SUBSET stored /\ \A s \in stored : s \in below(n) <=> uid[s] < n
               /\ upto(n) \in SUBSET stored /\ \A s \in stored : s \in upto(n) <=> uid[s] <= n
    OBVIOUS
  <1>b. \A i \in 1..m : UidAt(i) = CHOOSE n \in 0..MaxUid :
                            Cardinality(below(n)) < i /\ i <= Cardinality(upto(n))
    BY DEF UidAt
  <1> HIDE DEF below, upto
  <1>3. \A n : /\ IsFiniteSet(below(n)) /\ Cardinality(below(n)) \in Nat
               /\ IsFiniteSet(upto(n)) /\ Cardinality(upto(n)) \in Nat
    BY <1>2, <1>a, FS_Subset, FS_CardinalityType
  <1>4. ASSUME NEW i \in 1..m
        PROVE  \E n \in 0..MaxUid : Cardinality(below(n)) < i /\ i <= Cardinality(upto(n))
    <2> DEFINE enough == {n \in 0..MaxUid : i <= Cardinality(upto(n))}
    <2>1. upto(MaxUid) = stored
      <3>1. \A s \in stored : s \in upto(MaxUid)
        BY <1>1, <1>a
      <3>2. QED
        BY <1>a, <3>1
    <2>2. MaxUid \in enough
      <3>1. i <= Cardinality(upto(MaxUid))
        BY <1>2, <2>1
      <3>2. QED
        BY <1>1, <3>1
    <2>3. PICK n \in enough : \A k \in enough : n <= k
      <3>1. enough \in SUBSET Nat /\ enough # {}
        BY <1>1, <2>2
      <3> HIDE DEF enough
      <3>2. QED
        BY <3>1, LeastNatural
    <2>4. Cardinality(below(n)) < i
      <3>1. CASE n = 0
        <4>1. below(n) = {}
          BY <1>1, <1>a, <3>1
        <4>2. QED
          BY <4>1, FS_EmptySet
      <3>2. CASE n # 0
        <4>1. n \in 0..MaxUid /\ n - 1 \in 0..MaxUid /\ ~(n <= n - 1)
          BY <1>1, <3>2
        <4>2. below(n) = upto(n - 1)
          <5>1. \A s \in stored : s \in below(n) <=> s \in upto(n - 1)
            BY <1>1, <1>a, <4>1
          <5>2. QED
            BY <1>a, <5>1
        <4>3. ~(i <= Cardinality(upto(n - 1)))
          BY <2>3, <4>1
        <4>4. QED
          BY <1>3, <4>2, <4>3
      <3>3. QED
        BY <3>1, <3>2
    <2>5. QED
      BY <2>3, <2>4
  <1>5. ASSUME NEW i \in 1..m, i <= MaxUid
        PROVE  Cardinality(below(i)) < i /\ i <= Cardinality(upto(i))
    <2>1. UidAt(i) = i
      <3> SUFFICES ASSUME UidAt(i) # i PROVE FALSE
        OBVIOUS
      <3>1. i \in Gaps /\ Gaps \in SUBSET Nat
        BY DEF Gaps
      <3>2. Min(Gaps) \in Nat /\ Min(Gaps) <= i
        BY <3>1, LeastNatural
      <3>3. Min(Gaps) <= MaxUid
        BY <1>1, <1>5, <3>2
      <3>4. QED
        BY <3>1, <3>3 DEF GapFound
    <2>2. Cardinality(below(UidAt(i))) < i /\ i <= Cardinality(upto(UidAt(i)))
      BY <1>4, <1>b
    <2>3. QED
      BY <2>1, <2>2
  <1>6. ~(m < MaxUid)
    <2> SUFFICES ASSUME m < MaxUid PROVE FALSE
      OBVIOUS
    <2>1. m <= Cardinality(upto(m))
      <3>1. m \in 1..m /\ m <= MaxUid
        BY <1>1, <1>2
      <3>2. QED
        BY <1>5, <3>1
    <2>2. upto(m) \in SUBSET stored /\ top \notin upto(m)
      BY <1>1, <1>2, <1>a
    <2>3. upto(m) = stored
      <3>1. Cardinality(upto(m)) <= m /\ (m = Cardinality(upto(m)) => stored = upto(m))
        BY <1>2, <2>2, FS_Subset
      <3>2. m = Cardinality(upto(m))
        BY <1>2, <1>3, <2>1, <3>1
      <3>3. QED
        BY <3>1, <3>2
    <2>4. QED
      BY <2>2, <2>3
  <1>7. ASSUME NEW i \in 1..MaxUid
        PROVE  i \in Taken
    <2>1. i \in 1..m
      BY <1>1, <1>2, <1>6
    <2>2. Cardinality(below(i)) < Cardinality(upto(i))
      BY <1>3, <1>5, <2>1
    <2>3. below(i) # upto(i)
      BY <2>2, <1>3
    <2>4. PICK s \in stored : uid[s] <= i /\ ~(uid[s] < i)
      <3> SUFFICES ASSUME \A s \in stored : ~(uid[s] <= i /\ ~(uid[s] < i)) PROVE below(i) = upto(i)
        BY <2>3
      <3>1. \A s \in stored : s \in below(i) <=> s \in upto(i)
        BY <1>1, <1>a
      <3>2. QED
        BY <1>a, <3>1
    <2>5. uid[s] = i
      BY <1>1, <2>4
    <2>6. QED
      BY <1>1, <2>5 DEF Taken, NoUid
  <1>8. Taken \subseteq 1..MaxUid
    BY <1>1 DEF Taken, NoUid
  <1>9. QED
    BY <1>7, <1>8

\* A stone is refused only in a sphere whose uids are all taken, or when the stones have
\* changed between the two queries of its create.
THEOREM RefusalMeansFull == StoneSpec => RefusedOnlyWhenFull
  <1> DEFINE Full == \A c \in Creators :
                (creates[c] # "refused" /\ creates'[c] = "refused") => Taken = 1..MaxUid \/ c \in stale
  <1>1. StoneInit => UidInv
    BY UidStart DEF StoneInit
  <1>2. UidInv /\ [StoneNext]_<<uidVars, eventVars>> => [Full]_uidVars
    <2> SUFFICES ASSUME UidInv, StoneNext, NEW c \in Creators,
                        creates[c] # "refused", creates'[c] = "refused"
                 PROVE  Taken = 1..MaxUid \/ c \in stale
      BY DEF uidVars
    <2>1. creates[c] = "searching" /\ ~GapFound
      BY DEF UidInv, StoneNext, CreateGiven, FindHighest, FindGap, Refuse, Insert, Delete,
             CreateStone, CreateWithoutKeys, uidVars
    <2>2. QED
      BY <2>1, NoGapIsFull DEF UidInv
  <1>3. QED
    BY <1>1, <1>2, UidStepKeeps, PTL DEF StoneSpec, RefusedOnlyWhenFull

Stages == {"new", "initialising", "open", "over"}

\* The datasets of a session: for some collections, what each side has delivered.
Typed ==
    /\ stage \in [Sessions -> Stages]
    /\ timers \in [Sessions -> SUBSET Timers]
    /\ invitePending \in [Sessions -> BOOLEAN]
    /\ DOMAIN datasets = Sessions
    /\ \A s \in Sessions : \A d \in DOMAIN datasets[s] : datasets[s][d] \in [Sides -> Maps \cup {Null}]

\* Timers run for active sessions only, and the two of the invitation not before others
\* can know the session.
TimersOfActive ==
    \A s \in Sessions :
        /\ stage[s] \in {"new", "over"} => timers[s] = {}
        /\ stage[s] = "initialising" => timers[s] = {"cleanupTimeout"}

Inv == Typed /\ TimersOfActive /\ TransformFromPairs

\* The steps of one session.
Step(s) ==
    \/ createNewSession(s) \/ initDone(s) \/ initFails(s)
    \/ InviteTick(s) \/ InviteTimeout(s) \/ CleanupTimeout(s)
    \/ killSession(s) \/ generateTransformSets(s)
    \/ \E phone \in Phones : joinSession(s, phone)
    \/ \E d \in Collections : startDatasetCollection(s, d)
    \/ \E d \in Collections, phone \in Phones, map \in Maps :
           finishedCollectingDataset(s, d, phone, map)

-----------------------------------------------------------------------------
(* The invariant of the transform sessions.                                *)

LEMMA InitInv == Init => Inv
  <1> SUFFICES ASSUME Init PROVE Inv
    OBVIOUS
  <1>1. Typed
    BY DEF Init, Typed, Stages
  <1>2. TimersOfActive
    BY DEF Init, TimersOfActive
  <1>3. TransformFromPairs
    BY DEF Init, TransformFromPairs
  <1>4. QED
    BY <1>1, <1>2, <1>3 DEF Inv

\* Dropping a session leaves no timer behind.
LEMMA DroppedKeeps ==
    ASSUME Typed, TimersOfActive, NEW s \in Sessions, Dropped(s)
    PROVE  Typed' /\ TimersOfActive'
  <1>1. Typed'
    BY DEF Dropped, Cleared, Typed, Stages
  <1>2. TimersOfActive'
    BY DEF Dropped, Cleared, Typed, TimersOfActive
  <1>3. QED
    BY <1>1, <1>2

\* Steps that leave the datasets alone.
LEMMA ControlKeeps ==
    ASSUME Typed, TimersOfActive, NEW s \in Sessions,
           \/ createNewSession(s) \/ initDone(s) \/ initFails(s)
           \/ InviteTick(s) \/ InviteTimeout(s) \/ CleanupTimeout(s) \/ killSession(s)
           \/ \E phone \in Phones : joinSession(s, phone)
    PROVE  Typed' /\ TimersOfActive'
  <1>1. CASE createNewSession(s)
    BY <1>1 DEF createNewSession, Typed, TimersOfActive, Stages, Timers
  <1>2. CASE initDone(s)
    BY <1>2 DEF initDone, Typed, TimersOfActive, Stages, Timers
  <1>3. CASE Dropped(s)
    BY <1>3, DroppedKeeps
  <1>4. CASE UNCHANGED <<stage, invitePending, datasets>> /\ timers' = [timers EXCEPT ![s] = @ \ {"inviteInterval", "inviteTimeout"}]
    <2>1. timers' \in [Sessions -> SUBSET Timers]
      BY <1>4 DEF Typed
    <2>2. QED
      BY <1>4, <2>1 DEF Typed, TimersOfActive
  <1>5. CASE UNCHANGED <<stage, timers, invitePending, datasets>>
    BY <1>5 DEF Typed, TimersOfActive
  <1>6. CASE \E phone \in Phones : joinSession(s, phone)
    <2>1. /\ stage' = stage /\ datasets' = datasets /\ stage[s] = "open"
          /\ invitePending' = [invitePending EXCEPT ![s] = FALSE]
          /\ timers' = [timers EXCEPT ![s] = @ \ {"inviteInterval", "inviteTimeout"}]
      BY <1>6 DEF joinSession, Joined
    <2>2. timers' \in [Sessions -> SUBSET Timers] /\ invitePending' \in [Sessions -> BOOLEAN]
      BY <2>1 DEF Typed
    <2>3. QED
      BY <2>1, <2>2 DEF Typed, TimersOfActive
  <1>7. QED
    BY <1>1, <1>2, <1>3, <1>4, <1>5, <1>6
       DEF initFails, InviteTick, InviteTimeout, CleanupTimeout, killSession, cleanup

LEMMA CollectionKeeps ==
    ASSUME Typed, TimersOfActive, NEW s \in Sessions, NEW d, startDatasetCollection(s, d)
    PROVE  Typed' /\ TimersOfActive'
  <1>1. /\ UNCHANGED <<stage, timers, invitePending>> /\ DOMAIN datasets' = Sessions
        /\ \A t \in Sessions \ {s} : datasets'[t] = datasets[t]
        /\ DOMAIN datasets'[s] = DOMAIN datasets[s] \cup {d}
        /\ \A e \in DOMAIN datasets'[s] :
                datasets'[s][e] = IF e = d THEN [side \in Sides |-> Null] ELSE datasets[s][e]
    BY DEF startDatasetCollection, Typed
  <1>2. QED
    BY <1>1 DEF Typed, TimersOfActive

LEMMA ReceivedKeeps ==
    ASSUME Typed, TimersOfActive, NEW s \in Sessions, NEW d, NEW phone, NEW map \in Maps,
           finishedCollectingDataset(s, d, phone, map)
    PROVE  Typed' /\ TimersOfActive'
  <1>1. Received(s, d, phone, map) \in [Sides -> Maps \cup {Null}]
    BY DEF Received, Typed, finishedCollectingDataset
  <1>2. /\ UNCHANGED <<stage, timers, invitePending>>
        /\ datasets' = [datasets EXCEPT ![s][d] = Received(s, d, phone, map)]
    BY DEF finishedCollectingDataset
  <1>3. QED
    BY <1>1, <1>2 DEF Typed, TimersOfActive

\* Whatever is in two sets that are there is a map.
LEMMA PairsAreMaps ==
    ASSUME Typed, NEW s \in Sessions
    PROVE  /\ Pairs(s, "setA", "setB") \subseteq Maps \X Maps
           /\ Pairs(s, "setB", "setA") = {<<p[2], p[1]>> : p \in Pairs(s, "setA", "setB")}
           /\ Used(s) # {} => Pairs(s, "setA", "setB") # {}
  <1>1. ASSUME NEW d \in Used(s)
        PROVE  datasets[s][d]["setA"] \in Maps /\ datasets[s][d]["setB"] \in Maps
    BY DEF Used, Complete, Typed, Sides
  <1>2. Pairs(s, "setA", "setB") \subseteq Maps \X Maps
    BY <1>1 DEF Pairs
  <1>3. Pairs(s, "setB", "setA") = {<<p[2], p[1]>> : p \in Pairs(s, "setA", "setB")}
    <2>1. ASSUME NEW d \in Used(s)
          PROVE  <<datasets[s][d]["setB"], datasets[s][d]["setA"]>>
                    \in {<<p[2], p[1]>> : p \in Pairs(s, "setA", "setB")}
      <3>1. <<datasets[s][d]["setA"], datasets[s][d]["setB"]>> \in Pairs(s, "setA", "setB")
        BY DEF Pairs
      <3>2. QED
        BY <3>1
    <2>2. ASSUME NEW p \in Pairs(s, "setA", "setB")
          PROVE  <<p[2], p[1]>> \in Pairs(s, "setB", "setA")
      <3>1. PICK d \in Used(s) : p = <<datasets[s][d]["setA"], datasets[s][d]["setB"]>>
        BY DEF Pairs
      <3>2. QED
        BY <3>1 DEF Pairs
    <2>3. QED
      BY <2>1, <2>2 DEF Pairs
  <1>4. Used(s) # {} => Pairs(s, "setA", "setB") # {}
    BY DEF Pairs
  <1>5. QED
    BY <1>2, <1>3, <1>4

\* What a step of a session says: nothing; that the session, which was open, is over; or
\* one thing about the session, which stays open.
SaysNothing(s) == emitted' = <<>> /\ (stage[s] = "open" => stage' = stage)

SaysStopped(s) ==
    stage[s] = "open" /\ Dropped(s) /\ emitted' = <<Event("sessionStopped", s, Null)>>

SaysOther(s) ==
    /\ stage[s] = "open" /\ stage' = stage
    /\ \E type, about :
          /\ emitted' = <<Event(type, s, about)>>
          /\ type # "sessionStopped"
          /\ type = "transformSetFinished" => generateTransformSets(s)

LEMMA StepSays ==
    ASSUME Typed, TimersOfActive, NEW s \in Sessions, Step(s)
    PROVE  SaysNothing(s) \/ SaysStopped(s) \/ SaysOther(s)
  <1> USE DEF SaysNothing
  <1>1. CASE createNewSession(s) \/ initDone(s) \/ initFails(s)
    BY <1>1 DEF createNewSession, initDone, initFails
  <1>2. CASE InviteTick(s)
    <2>1. stage[s] = "open"
      BY <1>2 DEF InviteTick, Typed, TimersOfActive, Stages
    <2>2. stage' = stage /\ emitted' = <<Event("sessionRequested", s, Null)>>
      BY <1>2 DEF InviteTick
    <2>3. QED
      BY <2>1, <2>2 DEF SaysOther
  <1>3. CASE InviteTimeout(s)
    BY <1>3 DEF InviteTimeout, cleanup, Typed, TimersOfActive, Stages, SaysStopped
  <1>4. CASE CleanupTimeout(s)
    BY <1>4 DEF CleanupTimeout, cleanup, Typed, TimersOfActive, Stages, SaysStopped
  <1>5. CASE killSession(s)
    BY <1>5 DEF killSession, cleanup, activeSessions, SaysStopped
  <1>6. CASE generateTransformSets(s)
    BY <1>6 DEF generateTransformSets, SaysOther
  <1>7. CASE \E phone \in Phones : joinSession(s, phone)
    <2>1. /\ stage[s] = "open" /\ stage' = stage
          /\ emitted' = <<Event("sessionReady", s, Null)>>
      BY <1>7 DEF joinSession, Joined
    <2>2. QED
      BY <2>1 DEF SaysOther
  <1>8. CASE \E d \in Collections : startDatasetCollection(s, d)
    <2>1. PICK d \in Collections : startDatasetCollection(s, d)
      BY <1>8
    <2>2. /\ stage[s] = "open" /\ stage' = stage
          /\ emitted' = <<Event("datacollectionStarted", s, d)>>
      BY <2>1 DEF startDatasetCollection
    <2>3. QED
      BY <2>2 DEF SaysOther
  <1>9. CASE \E d \in Collections, phone \in Phones, map \in Maps :
               finishedCollectingDataset(s, d, phone, map)
    <2>1. PICK d \in Collections, phone \in Phones, map \in Maps :
               finishedCollectingDataset(s, d, phone, map)
      BY <1>9
    <2>2. /\ stage[s] = "open" /\ stage' = stage
          /\ \/ emitted' = <<>>
             \/ emitted' = <<Event("datacollectionFinished", s, d)>>
             \/ emitted' = <<Event("datacollectionReceived", s, d)>>
      BY <2>1 DEF finishedCollectingDataset, ReceivedEvents
    <2>3. QED
      BY <2>2 DEF SaysOther
  <1>10. QED
    BY <1>1, <1>2, <1>3, <1>4, <1>5, <1>6, <1>7, <1>8, <1>9 DEF Step

LEMMA GeneratedFromPairs ==
    ASSUME Typed, NEW s \in Sessions, generateTransformSets(s)
    PROVE  TransformFromPairs'
  <1> DEFINE sets == [aToB |-> Pairs(s, "setA", "setB"), bToA |-> Pairs(s, "setB", "setA")]
  <1>1. emitted' = <<Event("transformSetFinished", s, sets)>> /\ Used(s) # {}
    BY DEF generateTransformSets
  <1>2. ASSUME NEW i \in DOMAIN emitted' PROVE emitted'[i].about = sets
    <2>1. i = 1
      BY <1>1
    <2>2. QED
      BY <1>1, <2>1 DEF Event
  <1>3. /\ sets.aToB # {} /\ sets.aToB \subseteq Maps \X Maps
        /\ sets.bToA = {<<p[2], p[1]>> : p \in sets.aToB}
    BY <1>1, PairsAreMaps
  <1> HIDE DEF sets
  <1>4. QED
    BY <1>2, <1>3 DEF TransformFromPairs

LEMMA StepTransforms ==
    ASSUME Typed, TimersOfActive, NEW s \in Sessions, Step(s)
    PROVE  TransformFromPairs'
  <1>1. CASE generateTransformSets(s)
    BY <1>1, GeneratedFromPairs
  <1>2. CASE ~generateTransformSets(s)
    <2>1. ASSUME NEW i \in DOMAIN emitted' PROVE emitted'[i].type # "transformSetFinished"
      <3>1. CASE emitted' = <<>>
        BY <3>1
      <3>2. CASE \E type, about : type # "transformSetFinished" /\ emitted' = <<Event(type, s, about)>>
        <4>1. PICK type, about : type # "transformSetFinished" /\ emitted' = <<Event(type, s, about)>>
          BY <3>2
        <4>2. i = 1 /\ emitted'[1] = Event(type, s, about)
          BY <4>1
        <4>3. QED
          BY <4>1, <4>2 DEF Event
      <3>3. QED
        BY <1>2, <3>1, <3>2, StepSays DEF SaysNothing, SaysStopped, SaysOther
    <2>2. QED
      BY <2>1 DEF TransformFromPairs
  <1>3. QED
    BY <1>1, <1>2

LEMMA NextInv == Inv /\ [Next]_vars => Inv'
  <1> SUFFICES ASSUME Inv, [Next]_vars PROVE Inv'
    OBVIOUS
  <1>1. CASE UNCHANGED vars
    BY <1>1 DEF vars, Inv, Typed, TimersOfActive, TransformFromPairs
  <1>2. ASSUME NEW s \in Sessions, Step(s)
        PROVE  Inv'
    <2>1. CASE generateTransformSets(s)
      <3>1. Typed' /\ TimersOfActive'
        BY <2>1 DEF generateTransformSets, Inv, Typed, TimersOfActive
      <3>2. QED
        BY <1>2, <3>1, StepTransforms DEF Inv
    <2>2. QED
      BY <1>2, <2>1, ControlKeeps, CollectionKeeps, ReceivedKeeps, StepTransforms DEF Step, Inv
  <1>3. QED
    BY <1>1, <1>2 DEF Next, Step

\* A transform is made from pairs of sets that were measured for the same collection,
\* whatever uploads, timers and endings came before.
THEOREM TransformsFromPairs == Spec => []TransformFromPairs
  <1>1. Inv => TransformFromPairs
    BY DEF Inv
  <1>2. QED
    BY InitInv, NextInv, <1>1, PTL DEF Spec
-----------------------------------------------------------------------------
(* The steps of the transform sessions.                                    *)

\* Only one session moves.
LEMMA OthersStay ==
    ASSUME Typed, NEW s \in Sessions, Step(s), NEW t \in Sessions, t # s
    PROVE  stage'[t] = stage[t] /\ datasets'[t] = datasets[t]
  <1>1. CASE Dropped(s)
    BY <1>1 DEF Dropped, Typed
  <1>2. CASE ~Dropped(s)
    BY <1>2 DEF Step, Typed, createNewSession, initDone, initFails, InviteTick, InviteTimeout,
                CleanupTimeout, killSession, generateTransformSets, joinSession, Joined, cleanup,
                startDatasetCollection, finishedCollectingDataset
  <1>3. QED
    BY <1>1, <1>2

\* What is said is about the session that moves, and at most one thing.
LEMMA SaidAboutActive ==
    ASSUME Typed, TimersOfActive, NEW s \in Sessions, Step(s), NEW i \in DOMAIN emitted'
    PROVE  /\ i = 1 /\ Len(emitted') = 1
           /\ emitted'[i].session = s /\ stage[s] = "open"
           /\ emitted'[i].type = "sessionStopped" <=> SaysStopped(s)
           /\ SaysStopped(s) => emitted'[i] = Event("sessionStopped", s, Null)
  <1>1. ~SaysNothing(s)
    BY DEF SaysNothing
  <1>2. CASE SaysStopped(s)
    BY <1>2 DEF SaysStopped, Event
  <1>3. CASE SaysOther(s)
    <2>1. PICK type, about : emitted' = <<Event(type, s, about)>> /\ type # "sessionStopped"
      BY <1>3 DEF SaysOther
    <2>2. i = 1 /\ Len(emitted') = 1 /\ emitted'[1] = Event(type, s, about)
      BY <2>1
    <2>3. emitted'[1].session = s /\ emitted'[1].type # "sessionStopped"
      BY <2>1, <2>2 DEF Event
    <2>4. ~SaysStopped(s)
      BY <2>3 DEF SaysStopped, Event
    <2>5. QED
      BY <1>3, <2>2, <2>3, <2>4 DEF SaysOther
  <1>4. QED
    BY <1>1, <1>2, <1>3, StepSays

\* Every event is about an active session, the last one says that it has stopped, and an
\* open session does not end without it, however late a timer or a call comes.
THEOREM StoppedIsTheLastWord == Spec => StoppedIsLast
  <1> DEFINE A == /\ \A i \in DOMAIN emitted' :
                       /\ emitted'[i].session \in activeSessions
                       /\ emitted'[i].type = "sessionStopped" => i = Len(emitted')
                 /\ \A s \in Sessions :
                       stage[s] = "open" /\ stage'[s] # "open"
                          <=> Emits(Event("sessionStopped", s, Null))
  <1>1. Inv /\ [Next]_vars => [A]_vars
    <2> SUFFICES ASSUME Inv, NEW s \in Sessions, Step(s) PROVE A
      BY DEF Next, Step
    <2>1. Typed /\ TimersOfActive
      BY DEF Inv
    <2>2. \A i \in DOMAIN emitted' :
             /\ emitted'[i].session \in activeSessions
             /\ emitted'[i].type = "sessionStopped" => i = Len(emitted')
      BY <2>1, SaidAboutActive DEF activeSessions
    <2>3. ASSUME NEW t \in Sessions
          PROVE  Emits(Event("sessionStopped", t, Null)) <=> t = s /\ SaysStopped(s)
      <3>1. ASSUME Emits(Event("sessionStopped", t, Null))
            PROVE  t = s /\ SaysStopped(s)
        <4>1. PICK i \in DOMAIN emitted' : emitted'[i] = Event("sessionStopped", t, Null)
          BY <3>1 DEF Emits, ToSet
        <4>2. QED
          BY <2>1, <4>1, SaidAboutActive DEF Event
      <3>2. ASSUME t = s, SaysStopped(s)
            PROVE  Emits(Event("sessionStopped", t, Null))
        <4>1. 1 \in DOMAIN emitted' /\ emitted'[1] = Event("sessionStopped", t, Null)
          BY <3>2 DEF SaysStopped
        <4>2. QED
          BY <4>1 DEF Emits, ToSet
      <3>3. QED
        BY <3>1, <3>2
    <2>4. ASSUME NEW t \in Sessions
          PROVE  stage[t] = "open" /\ stage'[t] # "open" <=> t = s /\ SaysStopped(s)
      <3>1. CASE t # s
        BY <2>1, <3>1, OthersStay
      <3>2. CASE t = s
        BY <2>1, <3>2, StepSays DEF SaysNothing, SaysStopped, SaysOther, Dropped, Typed
      <3>3. QED
        BY <3>1, <3>2
    <2>5. QED
      BY <2>2, <2>3, <2>4
  <1>2. QED
    BY <1>1, InitInv, NextInv, PTL DEF Spec, StoppedIsLast

\* A step that ends an open session is the end of its invitation, of its half hour, or a
\* call.
LEMMA EndedBy ==
    ASSUME Typed, TimersOfActive, NEW s \in Sessions, Step(s),
           stage[s] = "open", stage'[s] = "over"
    PROVE  \/ killSession(s) \/ CleanupTimeout(s)
           \/ InviteTimeout(s) /\ invitePending[s] /\ emitted' = <<Event("sessionStopped", s, Null)>>
  <1>1. CASE InviteTimeout(s)
    BY <1>1 DEF InviteTimeout, cleanup
  <1>2. CASE ~InviteTimeout(s)
    BY <1>2 DEF Step, createNewSession, initDone, initFails, InviteTick, generateTransformSets,
                joinSession, Joined, startDatasetCollection, finishedCollectingDataset
  <1>3. QED
    BY <1>1, <1>2

\* Once B has joined, only a call or the half hour ends the session: neither the minute of
\* the invitation nor a tick of it does.
THEOREM JoiningIsInTime == Spec => JoinedSessionStays
  <1> DEFINE A == \A s \in Sessions :
                    (/\ stage[s] = "open" /\ stage'[s] = "over"
                     /\ ~invitePending[s] \/ Emits(Event("sessionReady", s, Null)))
                       => killSession(s) \/ CleanupTimeout(s)
  <1>1. Inv /\ [Next]_vars => [A]_vars
    <2> SUFFICES ASSUME Inv, NEW s \in Sessions, Step(s), NEW t \in Sessions,
                        stage[t] = "open", stage'[t] = "over",
                        ~invitePending[t] \/ Emits(Event("sessionReady", t, Null))
                 PROVE  killSession(t) \/ CleanupTimeout(t)
      BY DEF Next, Step
    <2>1. Typed /\ TimersOfActive
      BY DEF Inv
    <2>2. t = s
      BY <2>1, OthersStay
    <2>3. CASE emitted' = <<Event("sessionStopped", s, Null)>> /\ invitePending[s]
      <3>1. ~Emits(Event("sessionReady", s, Null))
        BY <2>3 DEF Emits, ToSet, Event
      <3>2. QED
        BY <2>2, <2>3, <3>1
    <2>4. QED
      BY <2>1, <2>2, <2>3, EndedBy
  <1>2. QED
    BY <1>1, InitInv, NextInv, PTL DEF Spec, JoinedSessionStays

\* An upload fills an empty side of one collection, and touches nothing else.
LEMMA UploadAdds ==
    ASSUME Typed, NEW s \in Sessions, NEW d, NEW phone, NEW map \in Maps,
           finishedCollectingDataset(s, d, phone, map), NEW e \in DOMAIN datasets[s]
    PROVE  /\ \A side \in Sides :
                datasets[s][e][side] # Null => datasets'[s][e][side] = datasets[s][e][side]
           /\ Emits(Event("datacollectionFinished", s, e)) => Complete(datasets'[s][e])
  <1> DEFINE sets == Received(s, d, phone, map)
  <1>1. /\ d \in DOMAIN datasets[s]
        /\ datasets' = [datasets EXCEPT ![s][d] = sets]
        /\ emitted' = ReceivedEvents(s, d, phone, sets)
    BY DEF finishedCollectingDataset
  <1>2. \A side \in Sides : datasets[s][d][side] # Null => sets[side] = datasets[s][d][side]
    BY DEF Received, MayStore
  <1>3. Emits(Event("datacollectionFinished", s, e)) => e = d /\ Complete(sets)
    <2> HIDE DEF sets
    <2>1. SUFFICES ASSUME Emits(Event("datacollectionFinished", s, e))
                   PROVE  e = d /\ Complete(sets)
      OBVIOUS
    <2>2. PICK i \in DOMAIN emitted' : emitted'[i] = Event("datacollectionFinished", s, e)
      BY <2>1 DEF Emits, ToSet
    <2>3. QED
      BY <1>1, <2>2 DEF ReceivedEvents, Event
  <1> HIDE DEF sets
  <1>4. datasets'[s][e] = IF e = d THEN sets ELSE datasets[s][e]
    BY <1>1 DEF Typed
  <1>5. QED
    BY <1>2, <1>3, <1>4

\* The steps that are no upload leave every set that is there, or end the session.
LEMMA SetsStay ==
    ASSUME Typed, NEW s \in Sessions, Step(s), stage'[s] = "open",
           \A d \in Collections, phone \in Phones, map \in Maps :
               ~finishedCollectingDataset(s, d, phone, map),
           NEW e \in DOMAIN datasets[s]
    PROVE  /\ datasets'[s][e] = datasets[s][e]
           /\ ~Emits(Event("datacollectionFinished", s, e))
  <1>1. CASE \E d \in Collections : startDatasetCollection(s, d)
    <2>1. PICK d \in Collections : startDatasetCollection(s, d)
      BY <1>1
    <2>2. e # d
      BY <2>1 DEF startDatasetCollection, Started
    <2>3. datasets'[s][e] = datasets[s][e]
      BY <2>1, <2>2 DEF startDatasetCollection, Typed
    <2>4. ~Emits(Event("datacollectionFinished", s, e))
      BY <2>1 DEF startDatasetCollection, Emits, ToSet, Event
    <2>5. QED
      BY <2>3, <2>4
  <1>2. CASE ~\E d \in Collections : startDatasetCollection(s, d)
    <2>1. ~Dropped(s)
      BY DEF Dropped, Typed
    <2>2. datasets' = datasets
      BY <1>2, <2>1 DEF Step, createNewSession, initDone, initFails, InviteTick, InviteTimeout,
            CleanupTimeout, killSession, generateTransformSets, joinSession, Joined, cleanup
    <2>3. ASSUME NEW i \in DOMAIN emitted'
          PROVE  emitted'[i].type # "datacollectionFinished"
      BY <1>2, <2>1 DEF Step, createNewSession, initDone, initFails, InviteTick, InviteTimeout,
            CleanupTimeout, killSession, generateTransformSets, joinSession, Joined, cleanup, Event
    <2>4. QED
      BY <2>2, <2>3 DEF Emits, ToSet, Event
  <1>3. QED
    BY <1>1, <1>2

\* What has been delivered stays what it was, and Finished is said of a complete pair.
THEOREM DeliveredSetsStay == Spec => DeliveredStays
  <1> DEFINE A == \A s \in Sessions : stage'[s] = "open" =>
                    \A d \in DOMAIN datasets[s] :
                       /\ \A side \in Sides :
                            datasets[s][d][side] # Null
                               => datasets'[s][d][side] = datasets[s][d][side]
                       /\ Emits(Event("datacollectionFinished", s, d))
                            => Complete(datasets'[s][d])
  <1>1. Inv /\ [Next]_vars => [A]_vars
    <2> SUFFICES ASSUME Inv, NEW s \in Sessions, Step(s), NEW t \in Sessions, stage'[t] = "open",
                        NEW e \in DOMAIN datasets[t]
                 PROVE  /\ \A side \in Sides :
                             datasets[t][e][side] # Null
                                => datasets'[t][e][side] = datasets[t][e][side]
                        /\ Emits(Event("datacollectionFinished", t, e))
                             => Complete(datasets'[t][e])
      BY DEF Next, Step
    <2>1. Typed /\ TimersOfActive
      BY DEF Inv
    <2>2. CASE t # s
      <3>1. datasets'[t] = datasets[t]
        BY <2>1, <2>2, OthersStay
      <3>2. ~Emits(Event("datacollectionFinished", t, e))
        BY <2>1, <2>2, SaidAboutActive DEF Emits, ToSet, Event
      <3>3. QED
        BY <3>1, <3>2
    <2>3. CASE t = s /\ \E d \in Collections, phone \in Phones, map \in Maps :
                           finishedCollectingDataset(s, d, phone, map)
      BY <2>1, <2>3, UploadAdds
    <2>4. CASE t = s /\ ~\E d \in Collections, phone \in Phones, map \in Maps :
                           finishedCollectingDataset(s, d, phone, map)
      BY <2>1, <2>4, SetsStay
    <2>5. QED
      BY <2>2, <2>3, <2>4
  <1>2. QED
    BY <1>1, InitInv, NextInv, PTL DEF Spec, DeliveredStays
=============================================================================
