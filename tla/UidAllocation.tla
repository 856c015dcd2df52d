--------------------------- MODULE UidAllocation ---------------------------
(***************************************************************************)
(* The uid a stone gets when it is created in a sphere (injectUID of       *)
(* repositories/data/stone.repository.ts; location.repository.ts has the   *)
(* same code with 64 for 255).  A create is two or three queries: the      *)
(* stone with the highest uid, all stones when there is no room above it,  *)
(* and the insert.  Other creates and deletions may come in between.       *)
(*                                                                         *)
(* A stone without a uid is stored as such; it sorts below all others.     *)
(***************************************************************************)
EXTENDS Naturals, FiniteSets, FiniteSetsExt

CONSTANTS Creators,   \* creates that can be in progress at the same time
          Stones,     \* bound: ids that can be stored at the same time
          MaxUid      \* 255 for stones, 64 for locations

ASSUME UidAssumption ==
    /\ IsFiniteSet(Stones) /\ IsFiniteSet(Creators)
    /\ MaxUid \in Nat \ {0}

VARIABLES
    uid,      \* uid[s] of the stored stones; the function's domain is what is stored
    creates,  \* creates[c]: how far a create has come
    newUid,   \* newUid[c]: the uid of the entity c will insert
    stale     \* history: creates that wait for their second look at stones that
              \* have changed since the first

uidVars == <<uid, creates, newUid, stale>>

NoUid == 0
stored == DOMAIN uid
Taken == {uid[s] : s \in stored} \ {NoUid}

UidInit ==
    /\ uid = [s \in {} |-> NoUid]
    /\ creates = [c \in Creators |-> "idle"]
    /\ newUid = [c \in Creators |-> NoUid]
    /\ stale = {}

Creating == {c \in Creators : creates[c] \in {"searching", "inserting"}}

Searching == {c \in Creators : creates[c] = "searching"}

\* The bound Stones leaves room for the creates that have started.
CanCreate(c) ==
    /\ creates[c] = "idle"
    /\ Cardinality(stored) + Cardinality(Creating) < Cardinality(Stones)

-----------------------------------------------------------------------------
\* The highest uid of the sphere: stones.find, order "uid DESC", limit 1.
highest == Max({uid[s] : s \in stored})

\* Mutant: no room is seen one uid too early.
FullTooEarly(top) == top + 1 >= MaxUid

NoRoomAbove(top) == top + 1 > MaxUid

NoRoom == stored # {} /\ NoRoomAbove(highest)

\* What injectUID leaves in the entity.  In a sphere that has stones it sets the uid
\* of the stone it has found (a local variable of the same name hides the entity),
\* so that the entity has none.
InjectedUid == IF stored = {} THEN 1 ELSE NoUid

\* The uid at place i, counted from 1, of all stones in ascending order.
UidAt(i) ==
    CHOOSE n \in 0..MaxUid :
        /\ Cardinality({s \in stored : uid[s] < n}) < i
        /\ i <= Cardinality({s \in stored : uid[s] <= n})

\* The places at which injectUIDinGap stops: the first of them is available.
Gaps == {i \in 1..Cardinality(stored) : UidAt(i) # i}

GapFound == Gaps # {} /\ Min(Gaps) <= MaxUid

-----------------------------------------------------------------------------
\* create of an entity that brings its uid along: injectUID returns at once.
CreateGiven(c, n) ==
    /\ CanCreate(c)
    /\ creates' = [creates EXCEPT ![c] = "inserting"]
    /\ newUid' = [newUid EXCEPT ![c] = n]
    /\ UNCHANGED <<uid, stale>>

FindHighest(c) ==
    /\ CanCreate(c)
    /\ \/ /\ NoRoom
          /\ creates' = [creates EXCEPT ![c] = "searching"]
          /\ UNCHANGED newUid
       \/ /\ ~NoRoom
          /\ creates' = [creates EXCEPT ![c] = "inserting"]
          /\ newUid' = [newUid EXCEPT ![c] = InjectedUid]
    /\ UNCHANGED <<uid, stale>>

\* injectUIDinGap is handed the stone that was found, not the entity.
FindGap(c) ==
    /\ creates[c] = "searching"
    /\ \/ /\ GapFound
          /\ creates' = [creates EXCEPT ![c] = "inserting"]
       \/ /\ ~GapFound
          /\ creates' = [creates EXCEPT ![c] = "refused"]
    /\ newUid' = [newUid EXCEPT ![c] = NoUid]
    /\ stale' = stale \ {c}
    /\ UNCHANGED uid

\* The database has its own id for the new stone.
Insert(c, s) ==
    /\ creates[c] = "inserting" /\ s \notin stored
    /\ uid' = [t \in stored \cup {s} |-> IF t = s THEN newUid[c] ELSE uid[t]]
    /\ creates' = [creates EXCEPT ![c] = "idle"]
    /\ newUid' = [newUid EXCEPT ![c] = NoUid]
    /\ stale' = stale \cup Searching

\* The HTTP error reaches the client.
Refuse(c) ==
    /\ creates[c] = "refused"
    /\ creates' = [creates EXCEPT ![c] = "idle"]
    /\ UNCHANGED <<uid, newUid, stale>>

Delete(s) ==
    /\ s \in stored
    /\ uid' = [t \in stored \ {s} |-> uid[t]]
    /\ stale' = stale \cup Searching
    /\ UNCHANGED <<creates, newUid>>

UidNext ==
    \/ \E c \in Creators, n \in 1..MaxUid : CreateGiven(c, n)
    \/ \E c \in Creators : FindHighest(c) \/ FindGap(c) \/ Refuse(c)
    \/ \E c \in Creators, s \in Stones : Insert(c, s)
    \/ \E s \in Stones : Delete(s)

UidSpec == UidInit /\ [][UidNext]_uidVars

-----------------------------------------------------------------------------
(* Properties.                                                             *)

\* stone.repository.ts: "If all gaps are filled, we throw an error to tell the user
\* that he reached the maximum amount."  A create is refused only when every uid of
\* the sphere is taken; or the stones have changed between its two queries, and the
\* one with the highest uid, which sent it on the search, may have gone.
RefusedOnlyWhenFull ==
    [][\A c \in Creators :
         (creates[c] # "refused" /\ creates'[c] = "refused") => Taken = 1..MaxUid \/ c \in stale]_uidVars
=============================================================================
