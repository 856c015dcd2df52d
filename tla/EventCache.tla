----------------------------- MODULE EventCache -----------------------------
(***************************************************************************)
(* The name of the sphere in SSE events (modules/sse/events).  Every event *)
(* shows it.  EventConstructor looks it up and keeps it in a cache for     *)
(* five seconds after its last use; when the sync handler has updated the  *)
(* sphere, it merges the new name into the cache.  Events are made without *)
(* anybody waiting for them, so several are in the making at any time.     *)
(*                                                                         *)
(* A name is the number of times it has been written.  Stones, locations   *)
(* and abilities have caches or lookups of their own, which come before    *)
(* that of the sphere and only take their time here.                       *)
(***************************************************************************)
EXTENDS Naturals

CONSTANTS Calls,      \* bound: events in the making at the same time
          MaxName     \* bound: names the sphere can have

VARIABLES
    name,       \* the sphere's name in the database
    cached,     \* its name in the cache, or NotCached
    calls,      \* calls[k]: an event in the making
    outrun      \* history: a name was written while a call had an older one in hand

vars == <<name, cached, calls, outrun>>

NotCached == 0

\* An event is about the sphere, an item (a stone or a location), or an ability.
Call(about, at, n) == [about |-> about, stage |-> at, wrote |-> n, seen |-> 0]
Idle == Call("none", "idle", 0)

Init ==
    /\ name = 1
    /\ cached = NotCached
    /\ calls = [k \in Calls |-> Idle]
    /\ outrun = FALSE

-----------------------------------------------------------------------------
\* The call has a name in hand that it will still merge, cache or show.
Holds(k) == calls[k].stage \in {"wrote", "load", "send"}

Others(k) == \E other \in Calls \ {k} : Holds(other)

\* Mutant: an update that has failed goes on to the event all the same.
UpdateOrNot(k) ==
    /\ calls[k] = Idle /\ name < MaxName
    /\ name' \in {name, name + 1}
    /\ calls' = [calls EXCEPT ![k] = Call("sphere", "wrote", name + 1)]
    /\ outrun' = (outrun \/ Others(k))
    /\ UNCHANGED cached

\* updateById of the sphere in a REPLY.
Update(k) ==
    /\ calls[k] = Idle /\ name < MaxName
    /\ name' = name + 1
    /\ calls' = [calls EXCEPT ![k] = Call("sphere", "wrote", name + 1)]
    /\ outrun' = (outrun \/ Others(k))
    /\ UNCHANGED cached

\* getSphereData: the name from the cache, or a query.
Asked(call, known) ==
    IF known # NotCached THEN [call EXCEPT !.seen = known, !.stage = "send"]
                         ELSE [call EXCEPT !.stage = "find"]

\* Mutant: the update is merged together with the wrapper it came in ({data: {name: ...}}).
NothingMerged(n) == cached

\* merge changes what is cached and adds nothing.
Merged(n) == IF cached # NotCached THEN n ELSE NotCached

\* The update has succeeded: merge, and ask for the event's data in the same turn.
Merge(k) ==
    /\ calls[k].stage = "wrote"
    /\ cached' = Merged(calls[k].wrote)
    /\ calls' = [calls EXCEPT ![k] = Asked(@, cached')]
    /\ outrun' = (outrun \/ Others(k))
    /\ UNCHANGED name

\* createEventCallback: the new item is at hand, only the sphere is looked up.
AnnounceCreated(k) ==
    /\ calls[k] = Idle
    /\ calls' = [calls EXCEPT ![k] = Asked(Call("item", "item", 0), cached)]
    /\ UNCHANGED <<name, cached, outrun>>

\* updateEventCallback of an item or an ability: the item is looked up first.
AnnounceUpdated(k, about) ==
    /\ calls[k] = Idle
    /\ calls' = [calls EXCEPT ![k] = Call(about, "item", 0)]
    /\ UNCHANGED <<name, cached, outrun>>

\* It is known, from its cache or the database: the sphere is next.
AskSphere(k) ==
    /\ calls[k].stage = "item"
    /\ calls' = [calls EXCEPT ![k] = Asked(@, cached)]
    /\ UNCHANGED <<name, cached, outrun>>

\* findById reads the row ...
FindSphere(k) ==
    /\ calls[k].stage = "find"
    /\ calls' = [calls EXCEPT ![k].seen = name, ![k].stage = "load"]
    /\ UNCHANGED <<name, cached, outrun>>

\* ... and its answer arrives.  It replaces what the cache has got in the meantime.
Load(k) ==
    /\ calls[k].stage = "load"
    /\ cached' = calls[k].seen
    /\ calls' = [calls EXCEPT ![k].stage = "send"]
    /\ UNCHANGED <<name, outrun>>

\* The event; except for an ability, the name it shows is cached once more.
Send(k) ==
    /\ calls[k].stage = "send"
    /\ cached' = IF calls[k].about = "ability" THEN cached ELSE calls[k].seen
    /\ calls' = [calls EXCEPT ![k] = Idle]
    /\ UNCHANGED <<name, outrun>>

\* An item that is looked up, before the sphere, or an ability, after it, has gone: no event.
Drop(k) ==
    /\ \/ calls[k].stage = "item"
       \/ calls[k].stage = "send" /\ calls[k].about = "ability"
    /\ calls' = [calls EXCEPT ![k] = Idle]
    /\ UNCHANGED <<name, cached, outrun>>

\* Five seconds without a use.
Expire ==
    /\ cached # NotCached
    /\ cached' = NotCached
    /\ outrun' = (outrun /\ \E k \in Calls : Holds(k))
    /\ UNCHANGED <<name, calls>>

\* Cloud v1 writes the sphere.
CloudEdit ==
    /\ name < MaxName
    /\ name' = name + 1
    /\ outrun' = (outrun \/ cached # NotCached \/ \E k \in Calls : Holds(k))
    /\ UNCHANGED <<cached, calls>>

\* All but the announcement of items that are created.
EventStep ==
    \/ \E k \in Calls :
         \/ Update(k) \/ Merge(k) \/ AskSphere(k) \/ FindSphere(k) \/ Load(k) \/ Send(k) \/ Drop(k)
         \/ \E about \in {"item", "ability"} : AnnounceUpdated(k, about)
    \/ Expire
    \/ CloudEdit

Next == EventStep \/ \E k \in Calls : AnnounceCreated(k)

Spec == Init /\ [][Next]_vars

-----------------------------------------------------------------------------
(* Properties.                                                             *)

\* EventConstructor.ts: "The merge function is then used before the call that generates an
\* event to update the cached item-id combination."  The event about an update of the sphere
\* shows the name that was written, or a later one.
UpdateShown ==
    \A k \in Calls :
        (calls[k].stage = "send" /\ calls[k].about = "sphere") => calls[k].seen >= calls[k].wrote

\* The cache has the name that is in the database, except between the write of an update and
\* its merge, and after a write that met a call with an older name in hand, or a cached name
\* that cloud v1 knows nothing of.
CacheAgrees ==
    (cached # NotCached /\ ~outrun /\ \A k \in Calls : calls[k].stage # "wrote") => cached = name
=============================================================================
