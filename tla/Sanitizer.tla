------------------------------ MODULE Sanitizer ------------------------------
(***************************************************************************)
(* DataSanitizer.sanitize (modules/dataManagement/Sanitizer.ts): a run     *)
(* over the whole database that reads the ids of one table and deletes     *)
(* what refers to any other id from the next ones.                         *)
(*                                                                         *)
(* The run is the sequence Queries; one query is one step.  Between the    *)
(* queries users, hubs and the first version of the cloud go on: a row is  *)
(* announced when its parents have been looked up and inserted later, a    *)
(* user deletes his account, and other programs delete rows of the same    *)
(* database.                                                               *)
(*                                                                         *)
(* A row is [table, id, fields], fields a record of ids.  Tokens and       *)
(* sphere access are two tables each, by principalType and by role, which  *)
(* is what the queries tell apart.  The expiry of tokens is left out.      *)
(***************************************************************************)
EXTENDS Integers, Sequences, FiniteSets, SequencesExt

CONSTANTS Order,       \* every row that may ever be stored, in the order find returns them
          Old,         \* the rows stored at first
          Vanish,      \* tables of which rows are deleted by others
          MaxOther     \* bound: steps of others

Rows == ToSet(Order)

\* A find returns a row once.
ASSUME SanitizerAssumption ==
    /\ Order \in Seq(Rows) /\ Old \subseteq Rows /\ MaxOther \in Nat
    /\ \A i, j \in DOMAIN Order : Order[i] = Order[j] => i = j
    /\ \A r, q \in Rows : (r.table = q.table /\ r.id = q.id) => r = q

VARIABLES stored,     \* the rows in the database
          announced,  \* rows whose parents have been looked up and that are not inserted yet
          pc,         \* the place in Queries of the query the run makes next; 0: no run
          lists,      \* the arrays of ids the run has in memory
          others,     \* steps of others so far
          fresh,      \* history: the rows inserted since the run began
          gone,       \* history: the rows others deleted since the run began
          quiet       \* history: complete runs in a row during and after which nobody did anything, up to 2

vars == <<stored, announced, pc, lists, others, fresh, gone, quiet>>

-----------------------------------------------------------------------------
(* The queries.                                                            *)

\* find: each list of reads becomes the values of a field.
Find(table, reads) == [does |-> "find", tables |-> {table}, reads |-> reads]
\* deleteAll({field: {nin: the ids of the lists}})
Delete(tables, field, from) == [does |-> "delete", tables |-> tables, field |-> field, from |-> from]
\* find, and of the rows that agree on field and type the first is kept
Duplicates(table, field, keep, delete) ==
    [does |-> "duplicates", tables |-> {table}, field |-> field, keep |-> keep, delete |-> delete]
\* deleteAll({id: {inq: list}})
DeleteListed(table, list) == [does |-> "listed", tables |-> {table}, from |-> {list}]

\* Mutant: without role: {neq: hub}.
OfUsersAnyRole == <<
    Find("user", [userIds |-> "id", userImageIds |-> "profilePicId"]),
    Delete({"sphereAccess", "hubAccess"}, "userId", {"userIds"}) >>

OfUsers == <<
    Find("user", [userIds |-> "id", userImageIds |-> "profilePicId"]),
    Delete({"userToken"}, "userId", {"userIds"}),
    Delete({"oauthToken"}, "userId", {"userIds"}),
    Delete({"device"}, "ownerId", {"userIds"}),
    Find("device", [existingDeviceIds |-> "id"]),
    Delete({"deviceLocationMap"}, "deviceId", {"existingDeviceIds"}),
    Delete({"deviceSphereMap"},   "deviceId", {"existingDeviceIds"}),
    Delete({"appInstallation"},   "deviceId", {"existingDeviceIds"}),
    Delete({"devicePreferences"}, "deviceId", {"existingDeviceIds"}),
    Delete({"fingerprintLinker"}, "deviceId", {"existingDeviceIds"}),
    Find("fingerprintLinker", [linkedFingerprintIds |-> "fingerprintId"]),
    Delete({"fingerprint"}, "id", {"linkedFingerprintIds"}),
    Delete({"sphereAccess"}, "userId", {"userIds"}) >>

\* Mutant: the access to spheres that are gone stays.
OfSpheresAccessStays == <<
    Find("sphereAccess", [spheresWithOwnerIds |-> "sphereId"]),
    Delete({"sphere"},   "id",       {"spheresWithOwnerIds"}),
    Delete({"stone"},    "sphereId", {"spheresWithOwnerIds"}),
    Find("stone",  [stoneIds |-> "id"]) >>

OfSpheres == <<
    Find("sphereAccess", [spheresWithOwnerIds |-> "sphereId"]),
    Delete({"sphere"}, "id", {"spheresWithOwnerIds"}),
    Delete({"scene"},    "sphereId", {"spheresWithOwnerIds"}),
    Delete({"location"}, "sphereId", {"spheresWithOwnerIds"}),
    Delete({"stone"},    "sphereId", {"spheresWithOwnerIds"}),
    Find("stone",  [stoneIds |-> "id"]),
    Find("sphere", [sphereIds |-> "id"]),
    Delete({"sphereAccess", "hubAccess"}, "sphereId", {"sphereIds"}) >>

OfStones == <<
    Delete({"stoneBehaviour"},       "stoneId", {"stoneIds"}),
    Delete({"stoneAbility"},         "stoneId", {"stoneIds"}),
    Delete({"stoneAbilityProperty"}, "stoneId", {"stoneIds"}),
    Delete({"stoneSwitchState"},     "stoneId", {"stoneIds"}),
    Delete({"stoneKeys"},            "stoneId", {"stoneIds"}),
    Delete({"stoneEnergy"},          "stoneId", {"stoneIds"}),
    Delete({"stoneEnergyProcessed"}, "stoneId", {"stoneIds"}),
    Delete({"stoneEnergyMetaData"},  "stoneId", {"stoneIds"}),
    Duplicates("stoneAbility", "stoneId", "abilitiesToKeep", "abilitiesToDelete"),
    DeleteListed("stoneAbility", "abilitiesToDelete"),
    Delete({"stoneAbilityProperty"}, "abilityId", {"abilitiesToKeep"}),
    Duplicates("stoneAbilityProperty", "abilityId", "abilitiesPropertiesToKeep", "abilitiesPropertiesToDelete"),
    DeleteListed("stoneAbilityProperty", "abilitiesPropertiesToDelete") >>

OfHubs == <<
    Delete({"hub"}, "sphereId", {"spheresWithOwnerIds"}),
    Find("hub", [existingHubIds |-> "id"]),
    Delete({"hubToken"},  "userId", {"existingHubIds"}),
    Delete({"hubAccess"}, "userId", {"existingHubIds"}) >>

OfTheRest == <<
    Delete({"sphereKeys"},           "sphereId", {"spheresWithOwnerIds"}),
    Delete({"messageV2"},            "sphereId", {"spheresWithOwnerIds"}),
    Delete({"messageRecipientUser"}, "sphereId", {"spheresWithOwnerIds"}),
    Delete({"messageReadByUser"},    "sphereId", {"spheresWithOwnerIds"}),
    Delete({"messageDeletedByUser"}, "sphereId", {"spheresWithOwnerIds"}),
    Delete({"message"},              "sphereId", {"spheresWithOwnerIds"}),
    Delete({"messageState"},         "sphereId", {"spheresWithOwnerIds"}),
    Delete({"messageUser"},          "sphereId", {"spheresWithOwnerIds"}),
    Delete({"toon"},                 "sphereId", {"spheresWithOwnerIds"}),
    Delete({"sphereTrackingNumber"}, "sphereId", {"spheresWithOwnerIds"}),
    Find("scene",    [sceneImageIds |-> "customPictureId"]),
    Find("location", [locationIds |-> "imageId"]),
    Delete({"fsFiles"},  "id",       {"userImageIds", "sceneImageIds", "locationIds"}),
    Delete({"fsChunks"}, "files_id", {"userImageIds", "sceneImageIds", "locationIds"}) >>

Queries == OfUsers \o OfSpheres \o OfStones \o OfHubs \o OfTheRest

Changes(q) == q.does \in {"delete", "listed"}
Makes(q) == IF q.does = "find" THEN DOMAIN q.reads
            ELSE IF q.does = "duplicates" THEN {q.keep, q.delete} ELSE {}

\* A deletion from a table that has no rows changes nothing, and a list that no other
\* deletion uses is not needed: these queries are passed over.
Used == {r.table : r \in Rows}
Needed(q) ==
    IF Changes(q) THEN q.tables \cap Used # {}
    ELSE \E user \in ToSet(Queries) :
            Changes(user) /\ user.tables \cap Used # {} /\ user.from \cap Makes(q) # {}
Steps == {i \in DOMAIN Queries : Needed(Queries[i])}
Lists == UNION {Makes(q) : q \in ToSet(Queries)}

-----------------------------------------------------------------------------
(* What a query does.                                                      *)

\* The values of a field: an empty set for a row that does not have it.
Value(r, field) ==
    IF field = "id" THEN {r.id} ELSE IF field \in DOMAIN r.fields THEN {r.fields[field]} ELSE {}

In(tables) == {r \in stored : r.table \in tables}

\* nin also holds for a row without the field.
Matches(r, q) == Value(r, q.field) \cap UNION {lists[l] : l \in q.from} = {}

Alike(r, other, field) ==
    Value(r, field) = Value(other, field) /\ Value(r, "type") = Value(other, "type")

Before(other, r) == \E i, j \in DOMAIN Order : i < j /\ Order[i] = other /\ Order[j] = r

\* Mutant: the description is made with the id of the row itself.
RepeatsNever(r, q) == FALSE

Repeats(r, q) == \E other \in In(q.tables) : Alike(r, other, q.field) /\ Before(other, r)

ListsAfter(q) ==
    IF q.does = "find"
    THEN [l \in Lists |-> IF l \in DOMAIN q.reads
                          THEN UNION {Value(r, q.reads[l]) : r \in In(q.tables)} ELSE lists[l]]
    ELSE IF q.does = "duplicates"
    THEN [lists EXCEPT ![q.keep] = {r.id : r \in {r \in In(q.tables) : ~Repeats(r, q)}},
                       ![q.delete] = {r.id : r \in {r \in In(q.tables) : Repeats(r, q)}}]
    ELSE lists

Deleted(q) ==
    IF q.does = "delete" THEN {r \in In(q.tables) : Matches(r, q)}
    ELSE IF q.does = "listed" THEN {r \in In(q.tables) : r.id \in UNION {lists[l] : l \in q.from}}
    ELSE {}

-----------------------------------------------------------------------------
Init ==
    /\ stored = Old /\ announced = {}
    /\ pc = 0 /\ lists = [l \in Lists |-> {}]
    /\ others = 0 /\ fresh = {} /\ gone = {} /\ quiet = 0

\* The arrays are gone when the call returns.
ListsGone == lists' = [l \in Lists |-> {}]

\* The step after query i; End: there is none, and the call returns.
End == Len(Queries) + 1
NextStep(i) == Min({j \in Steps : j > i} \cup {End})

sanitize ==
    /\ pc = 0
    /\ pc' = NextStep(0)
    /\ fresh' = {} /\ gone' = {}
    /\ UNCHANGED <<stored, announced, lists, others, quiet>>

Query ==
    /\ pc \in Steps
    /\ stored' = stored \ Deleted(Queries[pc])
    /\ lists' = ListsAfter(Queries[pc])
    /\ pc' = NextStep(pc)
    /\ UNCHANGED <<announced, others, fresh, gone, quiet>>

Return ==
    /\ pc = End
    /\ pc' = 0 /\ ListsGone
    /\ quiet' = IF quiet = 2 THEN 2 ELSE quiet + 1
    /\ UNCHANGED <<stored, announced, others, fresh, gone>>

\* Whatever others do, the run that is going on, -1, is not a quiet one.
Other(running) ==
    /\ others < MaxOther
    /\ others' = others + 1
    /\ quiet' = IF running THEN -1 ELSE 0

\* A query fails, or the process stops: the rest of the run is not made.
Interrupt ==
    /\ pc # 0
    /\ Other(FALSE)
    /\ pc' = 0 /\ ListsGone
    /\ UNCHANGED <<stored, announced, fresh, gone>>

\* What belongs to what: the tables that have a field with the id of another row.
OfSphere == {"sphereAccess", "hubAccess", "scene", "location", "stone", "hub", "sphereKeys",
             "messageV2", "messageRecipientUser", "messageReadByUser", "messageDeletedByUser",
             "message", "messageState", "messageUser", "toon", "sphereTrackingNumber"}
OfStone == {"stoneBehaviour", "stoneAbility", "stoneAbilityProperty", "stoneSwitchState", "stoneKeys",
            "stoneEnergy", "stoneEnergyProcessed", "stoneEnergyMetaData"}
OfDevice == {"deviceLocationMap", "deviceSphereMap", "appInstallation", "devicePreferences", "fingerprintLinker"}
Belonging == [sphereId |-> OfSphere, stoneId |-> OfStone, deviceId |-> OfDevice, ownerId |-> {"device"},
              userId |-> {"userToken", "oauthToken", "sphereAccess", "hubToken", "hubAccess"},
              abilityId |-> {"stoneAbilityProperty"}]

\* The table whose id the field holds.  A hub has its tokens and access in userId too.
Parent(r, field) ==
    IF field = "userId" /\ r.table \in {"hubToken", "hubAccess"} THEN "hub"
    ELSE [sphereId |-> "sphere", stoneId |-> "stone", deviceId |-> "device", ownerId |-> "user",
          userId |-> "user", abilityId |-> "stoneAbility"][field]

Parents(r) == {field \in DOMAIN Belonging : r.table \in Belonging[field]}
IsParent(p, r, field) == p.table = Parent(r, field) /\ p.id \in Value(r, field)
Has(r, field) == \E p \in stored : IsParent(p, r, field)

\* The parents of a row are looked up, ...
Announce(r) ==
    /\ r \notin stored \cup announced
    /\ \A field \in Parents(r) : Has(r, field)
    /\ Other(pc # 0)
    /\ announced' = announced \cup {r}
    /\ UNCHANGED <<stored, pc, lists, fresh, gone>>

\* ... and the row is inserted, whatever has become of them.
Insert(r) ==
    /\ r \in announced
    /\ Other(pc # 0)
    /\ announced' = announced \ {r}
    /\ stored' = stored \cup {r}
    /\ fresh' = IF pc = 0 THEN {} ELSE fresh \cup {r}
    /\ UNCHANGED <<pc, lists, gone>>

\* DELETE /user removes the row of the user and leaves the rest to the sanitizer; the
\* first version of the cloud deletes other rows, with or without what belongs to them.
DeleteElsewhere(r) ==
    /\ r \in stored /\ r.table \in Vanish
    /\ Other(pc # 0)
    /\ stored' = stored \ {r}
    /\ gone' = IF pc = 0 THEN {} ELSE gone \cup {r}
    /\ UNCHANGED <<announced, pc, lists, fresh>>

Next ==
    \/ sanitize \/ Query \/ Return \/ Interrupt
    \/ \E r \in Rows : Announce(r) \/ Insert(r) \/ DeleteElsewhere(r)

Spec == Init /\ [][Next]_vars

-----------------------------------------------------------------------------
(* Properties.                                                             *)

\* What has to be named by a field of another table to stay, and by which of its own.
Images == {<<"user", "profilePicId">>, <<"scene", "customPictureId">>, <<"location", "imageId">>}
NamedBy == [sphere |-> {<<"sphereAccess", "sphereId">>}, fingerprint |-> {<<"fingerprintLinker", "fingerprintId">>},
            fsFiles |-> Images, fsChunks |-> Images]
NameOf(r) == Value(r, IF r.table = "fsChunks" THEN "files_id" ELSE "id")

Names(n, r) == \E by \in NamedBy[r.table] : n.table = by[1] /\ Value(n, by[2]) \cap NameOf(r) # {}

Orphan(r) ==
    \/ \E field \in Parents(r) : ~Has(r, field)
    \/ r.table \in DOMAIN NamedBy /\ ~\E n \in stored : Names(n, r)

\* Abilities of a type of a stone, properties of a type of an ability.
Copies(r, other) ==
    /\ r # other /\ r.table = other.table
    /\ \/ r.table = "stoneAbility" /\ Alike(r, other, "stoneId")
       \/ r.table = "stoneAbilityProperty" /\ Alike(r, other, "abilityId")

\* Another row of its kind stays.
Copied(r) == \E other \in stored' : Copies(r, other)

\* What it belongs to, or what names it, was inserted during the run, as it was itself, or
\* its last copy was deleted by somebody else.
Raced(r) ==
    \/ r \in fresh
    \/ r.table \in DOMAIN NamedBy /\ \E n \in fresh : Names(n, r)
    \/ \E p \in fresh : \E field \in Parents(r) : IsParent(p, r, field)
    \/ \E other \in gone : Copies(r, other)

\* The sanitizer deletes "with missing userIds", "with missing stoneIds", and so on, from
\* ids it read some queries earlier.  A query deletes nothing but orphans, all copies but
\* one, and what somebody made while it ran: whatever others delete between the queries,
\* and wherever an earlier run stopped, a row that was there with all it belongs to stays.
\* (The one copy that is kept may be deleted by others before the query that deletes the
\* rest: then there is none.)
OnlyOrphansGo ==
    [][pc # 0 /\ pc' # pc /\ stored' # stored =>
        \A r \in stored \ stored' : Orphan(r) \/ Copied(r) \/ Raced(r)]_vars

\* The run of a sanitizer that nobody disturbs makes the next one find everything it has
\* to: after two of them nothing is left that the comment at the end of the class says is
\* deleted.  (After one there may be: spheresWithOwnerIds still names the sphere of an
\* access row whose sphere is gone.)
TwoRunsClean ==
    quiet = 2 => \A r \in stored : ~Orphan(r)

\* One quiet run is enough for the copies of abilities and properties, also for those
\* whose ability was a copy itself.
OneRunUnique ==
    (pc = 0 /\ quiet \in {1, 2}) => \A r, other \in stored : ~Copies(r, other)
=============================================================================
