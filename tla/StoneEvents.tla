---------------------------- MODULE StoneEvents ----------------------------
(***************************************************************************)
(* Stones that are created in a REQUEST and announced: the create of the   *)
(* repository (UidAllocation), then createEventCallback of Sync_Stones,    *)
(* whose event takes the sphere from the cache of the events (EventCache). *)
(***************************************************************************)
EXTENDS UidAllocation

CONSTANTS Calls, MaxName

VARIABLES name, cached, calls, outrun

Events == INSTANCE EventCache

eventVars == <<name, cached, calls, outrun>>

StoneInit == UidInit /\ Events!Init

\* The stone is stored, and nobody waits for the event.
CreateStone(c, s) == Insert(c, s) /\ \E k \in Calls : Events!AnnounceCreated(k)

\* The stone is stored, but its keys are not: the create fails, and nothing is announced.
CreateWithoutKeys(c, s) == Insert(c, s) /\ UNCHANGED eventVars

StoneNext ==
    \/ \E c \in Creators, n \in 1..MaxUid : CreateGiven(c, n) /\ UNCHANGED eventVars
    \/ \E c \in Creators : (FindHighest(c) \/ FindGap(c) \/ Refuse(c)) /\ UNCHANGED eventVars
    \/ \E c \in Creators, s \in Stones : CreateStone(c, s)
    \/ \E c \in Creators, s \in Stones : CreateWithoutKeys(c, s)
    \/ \E s \in Stones : Delete(s) /\ UNCHANGED eventVars
    \/ Events!EventStep /\ UNCHANGED uidVars

StoneSpec == StoneInit /\ [][StoneNext]_<<uidVars, eventVars>>

UpdateShown == Events!UpdateShown

CacheAgrees == Events!CacheAgrees
=============================================================================
