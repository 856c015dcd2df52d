-------------------------- MODULE SanitizerProofs --------------------------
(***************************************************************************)
(* Proofs about Sanitizer, for any database, any others and any number of  *)
(* runs: what a run deletes, and what two quiet runs leave.                *)
(*                                                                         *)
(* First come the queries: what each of them uses has been made before it, *)
(* and why it deletes.  RunInv says what the queries that were made are    *)
(* worth, whatever others have done since.  QuietInv adds what they are    *)
(* worth when nobody did anything.                                         *)
(***************************************************************************)
EXTENDS Sanitizer, SequenceTheorems, WellFoundedInduction, TLAPS

\* Anything a part has.
Written == ToSet(OfUsers) \cup ToSet(OfSpheres) \cup ToSet(OfStones) \cup ToSet(OfHubs) \cup ToSet(OfTheRest)

\* The five parts, and how long they are.
LEMMA PartsAre ==
    /\ OfUsers \in Seq(Written) /\ DOMAIN OfUsers = 1..13
    /\ OfSpheres \in Seq(Written) /\ DOMAIN OfSpheres = 1..8
    /\ OfStones \in Seq(Written) /\ DOMAIN OfStones = 1..13
    /\ OfHubs \in Seq(Written) /\ DOMAIN OfHubs = 1..4
    /\ OfTheRest \in Seq(Written) /\ DOMAIN OfTheRest = 1..14
  <1>1. OfUsers \in Seq(ToSet(OfUsers)) /\ DOMAIN OfUsers = 1..13
    BY DEF OfUsers, ToSet
  <1>2. OfSpheres \in Seq(ToSet(OfSpheres)) /\ DOMAIN OfSpheres = 1..8
    BY DEF OfSpheres, ToSet
  <1>3. OfStones \in Seq(ToSet(OfStones)) /\ DOMAIN OfStones = 1..13
    BY DEF OfStones, ToSet
  <1>4. OfHubs \in Seq(ToSet(OfHubs)) /\ DOMAIN OfHubs = 1..4
    BY DEF OfHubs, ToSet
  <1>5. OfTheRest \in Seq(ToSet(OfTheRest)) /\ DOMAIN OfTheRest = 1..14
    BY DEF OfTheRest, ToSet
  <1>6. \A S, T : S \subseteq T => Seq(S) \subseteq Seq(T)
    OBVIOUS
  <1>7. /\ ToSet(OfUsers) \subseteq Written /\ ToSet(OfSpheres) \subseteq Written
        /\ ToSet(OfStones) \subseteq Written /\ ToSet(OfHubs) \subseteq Written
        /\ ToSet(OfTheRest) \subseteq Written
    BY DEF Written
  <1>8. QED
    BY <1>1, <1>2, <1>3, <1>4, <1>5, <1>6, <1>7

\* What is at each place of two sequences after one another, ...
LEMMA Concatenated ==
    ASSUME NEW s \in Seq(Written), NEW t \in Seq(Written)
    PROVE  /\ s \o t \in Seq(Written) /\ DOMAIN (s \o t) = 1..(Len(s) + Len(t))
           /\ \A i \in 1..Len(s) : (s \o t)[i] = s[i]
           /\ \A i \in (Len(s) + 1)..(Len(s) + Len(t)) : (s \o t)[i] = t[i - Len(s)]
  OBVIOUS

\* What joined is: s, of m queries, and after it t, up to n.
Follows(joined, s, t, m, n) ==
    /\ joined \in Seq(Written) /\ DOMAIN joined = 1..n
    /\ \A i \in 1..m : joined[i] = s[i]
    /\ \A i \in (m+1)..n : joined[i] = t[i - m]

\* ... where their lengths are known.
LEMMA Joined ==
    ASSUME NEW s \in Seq(Written), NEW t \in Seq(Written), NEW m \in Nat, NEW l \in Nat, NEW n \in Nat,
           DOMAIN s = 1..m, DOMAIN t = 1..l, n = m + l
    PROVE  Follows(s \o t, s, t, m, n)
  <1>1. Len(s) = m /\ Len(t) = l
    OBVIOUS
  <1>2. QED
    BY <1>1, Concatenated DEF Follows

\* The query at each place.
LEMMA QueriesAre ==
    /\ DOMAIN Queries = 1..52
    /\ \A k \in 1..13 : Queries[k] = OfUsers[k]
    /\ \A k \in 14..21 : Queries[k] = OfSpheres[k - 13]
    /\ \A k \in 22..34 : Queries[k] = OfStones[k - 21]
    /\ \A k \in 35..38 : Queries[k] = OfHubs[k - 34]
    /\ \A k \in 39..52 : Queries[k] = OfTheRest[k - 38]
  <1> DEFINE a == OfUsers \o OfSpheres
             b == a \o OfStones
             c == b \o OfHubs
             d == c \o OfTheRest
  <1>0. Queries = d
    BY DEF Queries
  <1>1. Follows(a, OfUsers, OfSpheres, 13, 21)
    <2> DEFINE l == 8
               m == 13
               n == 21
    <2>1. m \in Nat /\ l \in Nat /\ n \in Nat /\ n = m + l
      OBVIOUS
    <2>2. OfUsers \in Seq(Written) /\ OfSpheres \in Seq(Written) /\ DOMAIN OfUsers = 1..m /\ DOMAIN OfSpheres = 1..l
      BY PartsAre
    <2> HIDE DEF l, m, n
    <2>3. Follows(OfUsers \o OfSpheres, OfUsers, OfSpheres, m, n)
      BY <2>1, <2>2, Joined
    <2>4. QED
      BY <2>3 DEF l, m, n
  <1> HIDE DEF a
  <1>2. Follows(b, a, OfStones, 21, 34)
    <2> DEFINE l == 13
               m == 21
               n == 34
    <2>1. m \in Nat /\ l \in Nat /\ n \in Nat /\ n = m + l
      OBVIOUS
    <2>2. a \in Seq(Written) /\ OfStones \in Seq(Written) /\ DOMAIN a = 1..m /\ DOMAIN OfStones = 1..l
      BY <1>1, PartsAre DEF Follows
    <2> HIDE DEF l, m, n
    <2>3. Follows(a \o OfStones, a, OfStones, m, n)
      BY <2>1, <2>2, Joined
    <2>4. QED
      BY <2>3 DEF l, m, n
  <1> HIDE DEF b
  <1>3. Follows(c, b, OfHubs, 34, 38)
    <2> DEFINE l == 4
               m == 34
               n == 38
    <2>1. m \in Nat /\ l \in Nat /\ n \in Nat /\ n = m + l
      OBVIOUS
    <2>2. b \in Seq(Written) /\ OfHubs \in Seq(Written) /\ DOMAIN b = 1..m /\ DOMAIN OfHubs = 1..l
      BY <1>2, PartsAre DEF Follows
    <2> HIDE DEF l, m, n
    <2>3. Follows(b \o OfHubs, b, OfHubs, m, n)
      BY <2>1, <2>2, Joined
    <2>4. QED
      BY <2>3 DEF l, m, n
  <1> HIDE DEF c
  <1>4. Follows(d, c, OfTheRest, 38, 52)
    <2> DEFINE l == 14
               m == 38
               n == 52
    <2>1. m \in Nat /\ l \in Nat /\ n \in Nat /\ n = m + l
      OBVIOUS
    <2>2. c \in Seq(Written) /\ OfTheRest \in Seq(Written) /\ DOMAIN c = 1..m /\ DOMAIN OfTheRest = 1..l
      BY <1>3, PartsAre DEF Follows
    <2> HIDE DEF l, m, n
    <2>3. Follows(c \o OfTheRest, c, OfTheRest, m, n)
      BY <2>1, <2>2, Joined
    <2>4. QED
      BY <2>3 DEF l, m, n
  <1> HIDE DEF d
  <1>5. /\ DOMAIN d = 1..52
        /\ \A k \in 1..38 : d[k] = c[k]
        /\ \A k \in 1..34 : c[k] = b[k]
        /\ \A k \in 1..21 : b[k] = a[k]
    BY <1>2, <1>3, <1>4 DEF Follows
  <1>6. /\ \A k \in 1..13 : a[k] = OfUsers[k]
        /\ \A k \in 14..21 : a[k] = OfSpheres[k - 13]
        /\ \A k \in 22..34 : b[k] = OfStones[k - 21]
        /\ \A k \in 35..38 : c[k] = OfHubs[k - 34]
        /\ \A k \in 39..52 : d[k] = OfTheRest[k - 38]
    BY <1>1, <1>2, <1>3, <1>4 DEF Follows
  <1>7. QED
    BY <1>0, <1>5, <1>6

-----------------------------------------------------------------------------
(* What the queries use and why they delete.                               *)

\* The query that makes each list, and the table and field a find makes it of.
Maker == [userIds |-> 1, userImageIds |-> 1, existingDeviceIds |-> 5, linkedFingerprintIds |-> 11,
          spheresWithOwnerIds |-> 14, stoneIds |-> 19, sphereIds |-> 20,
          abilitiesToKeep |-> 30, abilitiesToDelete |-> 30,
          abilitiesPropertiesToKeep |-> 33, abilitiesPropertiesToDelete |-> 33,
          existingHubIds |-> 36, sceneImageIds |-> 49, locationIds |-> 50]

Source == [userIds |-> <<"user", "id">>, userImageIds |-> <<"user", "profilePicId">>,
           existingDeviceIds |-> <<"device", "id">>,
           linkedFingerprintIds |-> <<"fingerprintLinker", "fingerprintId">>,
           spheresWithOwnerIds |-> <<"sphereAccess", "sphereId">>,
           stoneIds |-> <<"stone", "id">>, sphereIds |-> <<"sphere", "id">>,
           existingHubIds |-> <<"hub", "id">>,
           sceneImageIds |-> <<"scene", "customPictureId">>, locationIds |-> <<"location", "imageId">>]

\* A query is found in its place: what it makes is made there, of what Source says, and
\* what it uses is made before.
Placed(q, k) ==
    /\ q.does \in {"find", "delete", "duplicates", "listed"}
    /\ \A l \in Makes(q) : l \in DOMAIN Maker /\ Maker[l] = k
    /\ q.does = "find" => \A l \in DOMAIN q.reads :
            l \in DOMAIN Source /\ q.tables = {Source[l][1]} /\ q.reads[l] = Source[l][2]
    /\ Changes(q) => \A l \in q.from : l \in DOMAIN Maker /\ Maker[l] < k

\* A row is deleted for want of what names it, from a list of the fields that may, or of what
\* it belongs to: the list has the ids of the table it belongs to, or of those of its rows
\* that an earlier query left.
ForWantOfName(q, r) ==
    /\ r.table \in DOMAIN NamedBy /\ q.field = (IF r.table = "fsChunks" THEN "files_id" ELSE "id")
    /\ \A by \in NamedBy[r.table] : \E l \in q.from : l \in DOMAIN Source /\ Source[l] = by
    /\ \A l \in q.from : l \in DOMAIN Source /\ Source[l] \in NamedBy[r.table]

ForWantOfParent(q, k, r) ==
    /\ q.field \in DOMAIN Belonging /\ r.table \in Belonging[q.field]
    /\ \/ \E l \in DOMAIN Source : q.from = {l} /\ Source[l] = <<Parent(r, q.field), "id">>
       \/ Parent(r, q.field) = "sphere" /\ q.from = {"spheresWithOwnerIds"} /\ k > 15
       \/ Parent(r, q.field) = "stoneAbility" /\ q.from = {"abilitiesToKeep"} /\ k > 31

Grounded(q, k) ==
    q.does = "delete" => \A r \in Rows : r.table \in q.tables => ForWantOfName(q, r) \/ ForWantOfParent(q, k, r)

\* What a list was made of is not deleted from later, but for the access to spheres.
Settled(q, k) ==
    Changes(q) =>
        /\ \A l \in DOMAIN Source \ {"spheresWithOwnerIds"} : Source[l][1] \in q.tables => k < Maker[l]
        /\ "sphereAccess" \in q.tables => k \in {13, 21}
        /\ "sphere" \in q.tables => k = 15
        /\ "stoneAbility" \in q.tables => k \in {23, 31}

\* Each query is in its place, grounded and settled, part by part, ...
LEMMA UsersPlaced ==
    ASSUME NEW k \in 1..13
    PROVE  Placed(OfUsers[k], k) /\ Grounded(OfUsers[k], k) /\ Settled(OfUsers[k], k)
  <1>1. Placed(OfUsers[k], k)
    BY DEF Placed, OfUsers, Find, Delete, Duplicates, DeleteListed, Makes, Changes, Maker, Source
  <1>2. Grounded(OfUsers[k], k)
    BY DEF Grounded, ForWantOfName, ForWantOfParent, NamedBy, Images, Belonging, OfSphere, OfStone, OfDevice,
           Parent, OfUsers, Find, Delete, Duplicates, DeleteListed, Source
  <1>3. Settled(OfUsers[k], k)
    BY DEF Settled, Changes, Source, Maker, OfUsers, Find, Delete, Duplicates, DeleteListed
  <1>4. QED
    BY <1>1, <1>2, <1>3

\* ... that of the spheres, ...
LEMMA SpheresPlaced ==
    ASSUME NEW k \in 1..8
    PROVE  Placed(OfSpheres[k], 13 + k) /\ Grounded(OfSpheres[k], 13 + k) /\ Settled(OfSpheres[k], 13 + k)
  <1>1. Placed(OfSpheres[k], 13 + k)
    BY DEF Placed, OfSpheres, Find, Delete, Duplicates, DeleteListed, Makes, Changes, Maker, Source
  <1>2. Grounded(OfSpheres[k], 13 + k)
    BY DEF Grounded, ForWantOfName, ForWantOfParent, NamedBy, Images, Belonging, OfSphere, OfStone, OfDevice,
           Parent, OfSpheres, Find, Delete, Duplicates, DeleteListed, Source
  <1>3. Settled(OfSpheres[k], 13 + k)
    BY DEF Settled, Changes, Source, Maker, OfSpheres, Find, Delete, Duplicates, DeleteListed
  <1>4. QED
    BY <1>1, <1>2, <1>3

\* ... of the stones, ...
LEMMA StonesPlaced ==
    ASSUME NEW k \in 1..13
    PROVE  Placed(OfStones[k], 21 + k) /\ Grounded(OfStones[k], 21 + k) /\ Settled(OfStones[k], 21 + k)
  <1>1. Placed(OfStones[k], 21 + k)
    BY DEF Placed, OfStones, Find, Delete, Duplicates, DeleteListed, Makes, Changes, Maker, Source
  <1>2. Grounded(OfStones[k], 21 + k)
    BY DEF Grounded, ForWantOfName, ForWantOfParent, NamedBy, Images, Belonging, OfSphere, OfStone, OfDevice,
           Parent, OfStones, Find, Delete, Duplicates, DeleteListed, Source
  <1>3. Settled(OfStones[k], 21 + k)
    BY DEF Settled, Changes, Source, Maker, OfStones, Find, Delete, Duplicates, DeleteListed
  <1>4. QED
    BY <1>1, <1>2, <1>3

\* ... of the hubs, ...
LEMMA HubsPlaced ==
    ASSUME NEW k \in 1..4
    PROVE  Placed(OfHubs[k], 34 + k) /\ Grounded(OfHubs[k], 34 + k) /\ Settled(OfHubs[k], 34 + k)
  <1>1. Placed(OfHubs[k], 34 + k)
    BY DEF Placed, OfHubs, Find, Delete, Duplicates, DeleteListed, Makes, Changes, Maker, Source
  <1>2. Grounded(OfHubs[k], 34 + k)
    BY DEF Grounded, ForWantOfName, ForWantOfParent, NamedBy, Images, Belonging, OfSphere, OfStone, OfDevice,
           Parent, OfHubs, Find, Delete, Duplicates, DeleteListed, Source
  <1>3. Settled(OfHubs[k], 34 + k)
    BY DEF Settled, Changes, Source, Maker, OfHubs, Find, Delete, Duplicates, DeleteListed
  <1>4. QED
    BY <1>1, <1>2, <1>3

\* ... and of all the rest that has a sphere.
LEMMA TheRestPlaced ==
    ASSUME NEW k \in 1..14
    PROVE  Placed(OfTheRest[k], 38 + k) /\ Grounded(OfTheRest[k], 38 + k) /\ Settled(OfTheRest[k], 38 + k)
  <1>1. Placed(OfTheRest[k], 38 + k)
    BY DEF Placed, OfTheRest, Find, Delete, Duplicates, DeleteListed, Makes, Changes, Maker, Source
  <1>2. Grounded(OfTheRest[k], 38 + k)
    BY DEF Grounded, ForWantOfName, ForWantOfParent, NamedBy, Images, Belonging, OfSphere, OfStone, OfDevice,
           Parent, OfTheRest, Find, Delete, Duplicates, DeleteListed, Source
  <1>3. Settled(OfTheRest[k], 38 + k)
    BY DEF Settled, Changes, Source, Maker, OfTheRest, Find, Delete, Duplicates, DeleteListed
  <1>4. QED
    BY <1>1, <1>2, <1>3

\* So all queries are.
LEMMA QueriesPlaced ==
    ASSUME NEW k \in DOMAIN Queries
    PROVE  k \in 1..52 /\ Placed(Queries[k], k) /\ Grounded(Queries[k], k) /\ Settled(Queries[k], k)
  <1>0. k \in 1..52
    BY QueriesAre
  <1>1. CASE k \in 1..13
    BY <1>0, <1>1, QueriesAre, UsersPlaced
  <1>2. CASE k \in 14..21
    <2>1. k - 13 \in 1..8 /\ 13 + (k - 13) = k
      BY <1>2
    <2>2. QED
      BY <1>0, <1>2, <2>1, QueriesAre, SpheresPlaced
  <1>3. CASE k \in 22..34
    <2>1. k - 21 \in 1..13 /\ 21 + (k - 21) = k
      BY <1>3
    <2>2. QED
      BY <1>0, <1>3, <2>1, QueriesAre, StonesPlaced
  <1>4. CASE k \in 35..38
    <2>1. k - 34 \in 1..4 /\ 34 + (k - 34) = k
      BY <1>4
    <2>2. QED
      BY <1>0, <1>4, <2>1, QueriesAre, HubsPlaced
  <1>5. CASE k \in 39..52
    <2>1. k - 38 \in 1..14 /\ 38 + (k - 38) = k
      BY <1>5
    <2>2. QED
      BY <1>0, <1>5, <2>1, QueriesAre, TheRestPlaced
  <1>6. QED
    BY <1>0, <1>1, <1>2, <1>3, <1>4, <1>5

\* The finds.
LEMMA FindsAre ==
    /\ Queries[1] = Find("user", [userIds |-> "id", userImageIds |-> "profilePicId"])
    /\ Queries[5] = Find("device", [existingDeviceIds |-> "id"])
    /\ Queries[11] = Find("fingerprintLinker", [linkedFingerprintIds |-> "fingerprintId"])
    /\ Queries[14] = Find("sphereAccess", [spheresWithOwnerIds |-> "sphereId"])
    /\ Queries[19] = Find("stone",  [stoneIds |-> "id"])
    /\ Queries[20] = Find("sphere", [sphereIds |-> "id"])
    /\ Queries[36] = Find("hub", [existingHubIds |-> "id"])
    /\ Queries[49] = Find("scene",    [sceneImageIds |-> "customPictureId"])
    /\ Queries[50] = Find("location", [locationIds |-> "imageId"])
  <1>1. /\ Queries[1] = OfUsers[1] /\ Queries[5] = OfUsers[5] /\ Queries[11] = OfUsers[11]
        /\ Queries[14] = OfSpheres[1] /\ Queries[19] = OfSpheres[6] /\ Queries[20] = OfSpheres[7]
        /\ Queries[36] = OfHubs[2] /\ Queries[49] = OfTheRest[11] /\ Queries[50] = OfTheRest[12]
    BY QueriesAre
  <1>2. QED
    BY <1>1 DEF OfUsers, OfSpheres, OfHubs, OfTheRest

\* The queries on copies, and the one that deletes spheres.
LEMMA CopiesAre ==
    /\ Queries[30] = Duplicates("stoneAbility", "stoneId", "abilitiesToKeep", "abilitiesToDelete")
    /\ Queries[31] = DeleteListed("stoneAbility", "abilitiesToDelete")
    /\ Queries[33] = Duplicates("stoneAbilityProperty", "abilityId",
                                "abilitiesPropertiesToKeep", "abilitiesPropertiesToDelete")
    /\ Queries[34] = DeleteListed("stoneAbilityProperty", "abilitiesPropertiesToDelete")
    /\ Queries[15] = Delete({"sphere"}, "id", {"spheresWithOwnerIds"})
  <1>1. /\ Queries[30] = OfStones[9] /\ Queries[31] = OfStones[10]
        /\ Queries[33] = OfStones[12] /\ Queries[34] = OfStones[13] /\ Queries[15] = OfSpheres[2]
    BY QueriesAre
  <1>2. QED
    BY <1>1 DEF OfStones, OfSpheres

\* No other query is about copies.
LEMMA OnlyCopies ==
    ASSUME NEW k \in DOMAIN Queries
    PROVE  /\ Queries[k].does = "duplicates" => k \in {30, 33}
           /\ Queries[k].does = "listed" => k \in {31, 34}
  <1>1. \A i \in 1..13 : OfUsers[i].does \in {"find", "delete"}
    BY DEF OfUsers, Find, Delete
  <1>2. \A i \in 1..8 : OfSpheres[i].does \in {"find", "delete"}
    BY DEF OfSpheres, Find, Delete
  <1>3. \A i \in 1..13 : /\ OfStones[i].does = "duplicates" => i \in {9, 12}
                         /\ OfStones[i].does = "listed" => i \in {10, 13}
    BY DEF OfStones, Delete, Duplicates, DeleteListed
  <1>4. \A i \in 1..4 : OfHubs[i].does \in {"find", "delete"}
    BY DEF OfHubs, Find, Delete
  <1>5. \A i \in 1..14 : OfTheRest[i].does \in {"find", "delete"}
    BY DEF OfTheRest, Find, Delete
  <1>6. k \in 1..52
    BY QueriesAre
  <1>7. CASE k \in 1..13
    BY <1>1, <1>7, QueriesAre
  <1>8. CASE k \in 14..21
    BY <1>2, <1>8, QueriesAre
  <1>9. CASE k \in 22..34
    BY <1>3, <1>9, QueriesAre
  <1>10. CASE k \in 35..38
    BY <1>4, <1>10, QueriesAre
  <1>11. CASE k \in 39..52
    BY <1>5, <1>11, QueriesAre
  <1>12. QED
    BY <1>6, <1>7, <1>8, <1>9, <1>10, <1>11

\* The makers make what Maker says.
LEMMA MakersAre ==
    /\ \A l \in DOMAIN Maker : Maker[l] \in 1..52 /\ l \in Makes(Queries[Maker[l]])
    /\ \A l \in DOMAIN Source : /\ l \in DOMAIN Maker /\ Queries[Maker[l]].does = "find"
                                /\ l \in DOMAIN Queries[Maker[l]].reads
  BY FindsAre, CopiesAre DEF Maker, Source, Makes, Find, Duplicates

\* What a query that is made uses has been made.
LEMMA MakerIsStep ==
    ASSUME NEW k \in Steps, Changes(Queries[k]), NEW l \in Queries[k].from
    PROVE  l \in DOMAIN Maker /\ Maker[l] \in Steps /\ Maker[l] < k
  <1>1. k \in DOMAIN Queries /\ Queries[k].tables \cap Used # {}
    BY DEF Steps, Needed
  <1>2. l \in DOMAIN Maker /\ Maker[l] < k
    BY <1>1, QueriesPlaced DEF Placed
  <1>3. Maker[l] \in DOMAIN Queries /\ l \in Makes(Queries[Maker[l]])
    BY <1>2, MakersAre, QueriesAre
  <1>4. ~Changes(Queries[Maker[l]])
    BY <1>3 DEF Makes, Changes
  <1>5. Queries[k] \in ToSet(Queries)
    BY <1>1 DEF ToSet
  <1>6. Needed(Queries[Maker[l]])
    BY <1>1, <1>3, <1>4, <1>5 DEF Needed
  <1>7. QED
    BY <1>2, <1>3, <1>6 DEF Steps

\* A list is made once, and not by a query that comes after one that uses it.
LEMMA MadeOnce ==
    ASSUME NEW i \in DOMAIN Queries, NEW j \in DOMAIN Queries, i < j
    PROVE  /\ Makes(Queries[i]) \cap Makes(Queries[j]) = {}
           /\ Changes(Queries[i]) => Queries[i].from \cap Makes(Queries[j]) = {}
  <1>1. i \in 1..52 /\ j \in 1..52
    BY QueriesAre
  <1>2. QED
    BY <1>1, QueriesPlaced DEF Placed

\* A deletion of rows that are there is made.
LEMMA DeletionIsStep ==
    ASSUME NEW k \in DOMAIN Queries, Changes(Queries[k]), NEW r \in Rows, r.table \in Queries[k].tables
    PROVE  k \in Steps
  BY DEF Steps, Needed, Used

-----------------------------------------------------------------------------
(* What the queries that were made are worth.                              *)

\* Query i of the run that goes on has been made.
Done(i) == i \in Steps /\ i < pc

Typed ==
    /\ stored \subseteq Rows /\ announced \subseteq Rows
    /\ pc \in Steps \cup {0, End}
    /\ lists = [l \in Lists |-> lists[l]]

\* A list that was read has the values of every row that is not newer than the run.
ReadsHold ==
    \A i \in Steps : (Done(i) /\ Queries[i].does = "find") =>
        \A l \in DOMAIN Queries[i].reads, r \in In(Queries[i].tables) \ fresh :
            Value(r, Queries[i].reads[l]) \subseteq lists[l]

\* A deletion that was made would find nothing more, but for rows that are newer.
NothingLeft ==
    \A i \in Steps : (Done(i) /\ Changes(Queries[i])) => Deleted(Queries[i]) \subseteq fresh

\* A row is in one list or the other after the copies have been looked for, ...
CopiesListed ==
    \A i \in Steps : (Done(i) /\ Queries[i].does = "duplicates") =>
        \A r \in In(Queries[i].tables) \ fresh :
            r.id \in lists[Queries[i].keep] \cup lists[Queries[i].delete]

\* ... and of those to delete one that is not is there until they are deleted, unless others delete it.
CopyStays ==
    \A i \in Steps : (Queries[i].does = "duplicates" /\ pc = i + 1) =>
        \A r \in In(Queries[i].tables) \ fresh : r.id \in lists[Queries[i].delete] =>
            \E other \in stored \cup gone : Copies(r, other) /\ other.id \notin lists[Queries[i].delete]

\* Of two copies one is listed to be deleted, ...
CopiesCaught ==
    \A i \in Steps : (Queries[i].does = "duplicates" /\ pc = i + 1) =>
        \A r, other \in In(Queries[i].tables) \ fresh : Copies(r, other) =>
            r.id \in lists[Queries[i].delete] \/ other.id \in lists[Queries[i].delete]

\* ... and when they are no two are left.
NoCopies ==
    \A i \in Steps : (Queries[i].does = "duplicates" /\ i + 1 < pc) =>
        \A r, other \in In(Queries[i].tables) \ fresh : ~Copies(r, other)

RunInv == Typed /\ ReadsHold /\ NothingLeft /\ CopiesListed /\ CopyStays /\ CopiesCaught /\ NoCopies

-----------------------------------------------------------------------------
(* The steps of a run.                                                     *)

\* A set of numbers has a least one.
LEMMA LeastOf ==
    ASSUME NEW S, S # {}, S \subseteq Nat
    PROVE  \E least \in S : \A n \in S : least <= n
  <1> DEFINE smaller == {p \in Nat \X Nat : p[1] < p[2]}
  <1>1. IsWellFoundedOn(smaller, Nat)
    BY NatLessThanWellFounded DEF OpToRel
  <1>2. \A m, n \in Nat : <<n, m>> \in smaller <=> n < m
    OBVIOUS
  <1> HIDE DEF smaller
  <1>3. PICK least \in S : \A n \in S : ~(<<n, least>> \in smaller)
    BY <1>1, WFMin
  <1>4. ASSUME NEW n \in S PROVE least <= n
    <2>1. n \in Nat /\ least \in Nat /\ ~(<<n, least>> \in smaller)
      BY <1>3
    <2>2. ~(n < least)
      BY <1>2, <2>1, Zenon
    <2>3. QED
      BY <2>1, <2>2
  <1>5. QED
    BY <1>4

\* A step is one of the 52 queries.
LEMMA StepsAre == Steps \subseteq 1..52 /\ Steps \subseteq DOMAIN Queries /\ End = 53
  <1>1. Steps \subseteq 1..52 /\ Steps \subseteq DOMAIN Queries
    BY QueriesAre DEF Steps
  <1>2. Len(Queries) = 52
    BY QueriesAre
  <1>3. QED
    BY <1>1, <1>2 DEF End

\* The next step is later, and there is none between.
LEMMA NextStepIs ==
    ASSUME NEW i \in 0..52
    PROVE  /\ NextStep(i) \in Steps \cup {End} /\ i < NextStep(i)
           /\ \A j \in Steps : j < NextStep(i) => j <= i
  <1> DEFINE next == {j \in Steps : j > i} \cup {End}
  <1>0. End = 53 /\ \A j \in Steps : j \in 1..53
    BY StepsAre
  <1>1. next \subseteq 1..53 /\ End \in next
    BY <1>0
  <1>2. next \subseteq Nat /\ next # {}
    BY <1>1
  <1>3. \A j \in next : j = End \/ (j \in Steps /\ j > i)
    OBVIOUS
  <1>4. \A j \in Steps : j > i => j \in next
    OBVIOUS
  <1>5. NextStep(i) = Min(next)
    BY DEF NextStep
  <1> HIDE DEF next
  <1>6. \E least \in next : \A n \in next : least <= n
    BY <1>2, LeastOf
  <1>7. NextStep(i) \in next /\ \A n \in next : NextStep(i) <= n
    BY <1>5, <1>6 DEF Min
  <1>8. NextStep(i) \in Steps \cup {End} /\ i < NextStep(i) /\ NextStep(i) \in 1..53
    <2> DEFINE least == NextStep(i)
    <2>1. least \in next /\ least \in 1..53
      BY <1>1, <1>7
    <2>2. least = End \/ (least \in Steps /\ least > i)
      BY <1>3, <2>1
    <2> HIDE DEF least
    <2>3. least \in Steps \cup {End} /\ i < least
      BY <1>0, <2>1, <2>2
    <2>4. QED
      BY <2>1, <2>3 DEF least
  <1>9. ASSUME NEW j \in Steps, j < NextStep(i) PROVE j <= i
    <2>1. j \in 1..52
      BY StepsAre
    <2>2. CASE j > i
      BY <1>4, <1>7, <1>8, <1>9, <2>1, <2>2
    <2>3. QED
      BY <2>1, <2>2
  <1>10. QED
    BY <1>8, <1>9

\* No step comes before the first one.
LEMMA FirstStep == \A i \in Steps : i >= NextStep(0)
  <1> DEFINE first == NextStep(0)
  <1>1. first \in Steps \cup {End} /\ \A j \in Steps : j < first => j <= 0
    BY NextStepIs
  <1> HIDE DEF first
  <1>2. SUFFICES ASSUME NEW i \in Steps PROVE i >= first
    BY DEF first
  <1>3. i \in 1..52 /\ first \in 1..53
    BY <1>1, StepsAre
  <1>4. ~(i < first)
    BY <1>1, <1>3
  <1>5. QED
    BY <1>3, <1>4

-----------------------------------------------------------------------------
(* Steps of others.                                                        *)

\* Where a run has made no query there is nothing to keep.
LEMMA IdleKeeps ==
    ASSUME Typed', \A i \in Steps : i >= pc'
    PROVE  RunInv'
  <1>1. pc' \in 0..53
    BY StepsAre DEF Typed
  <1>2. ASSUME NEW i \in Steps PROVE ~(Done(i)') /\ pc' # i + 1 /\ ~(i + 1 < pc')
    <2>1. i \in 1..52 /\ i >= pc'
      BY StepsAre
    <2>2. ~(i < pc') /\ pc' # i + 1 /\ ~(i + 1 < pc')
      BY <1>1, <2>1
    <2>3. QED
      BY <2>2 DEF Done
  <1>3. QED
    BY <1>2 DEF RunInv, ReadsHold, NothingLeft, CopiesListed, CopyStays, CopiesCaught, NoCopies

\* Others add rows that are newer than the run, and take rows that are then gone.
LEMMA OthersKeep ==
    ASSUME RunInv, Typed', pc' = pc, lists' = lists,
           stored' \ fresh' \subseteq stored \ fresh, stored \cup gone \subseteq stored' \cup gone'
    PROVE  RunInv'
  <1>1. \A i : Done(i)' <=> Done(i)
    BY DEF Done
  <1>2. \A tables : In(tables)' \ fresh' \subseteq In(tables) \ fresh
    BY DEF In
  <1>3. ReadsHold'
    BY <1>1, <1>2 DEF RunInv, ReadsHold
  <1>4. NothingLeft'
    <2>1. ASSUME NEW i \in Steps, Done(i), Changes(Queries[i])
          PROVE  Deleted(Queries[i])' \subseteq fresh'
      <3>1. Deleted(Queries[i]) \subseteq fresh
        BY <2>1 DEF RunInv, NothingLeft
      <3>2. Deleted(Queries[i])' \ fresh' \subseteq Deleted(Queries[i]) \ fresh
        BY <1>2 DEF Deleted, Matches
      <3>3. QED
        BY <3>1, <3>2
    <2>2. QED
      BY <1>1, <2>1 DEF NothingLeft
  <1>5. CopiesListed'
    BY <1>1, <1>2 DEF RunInv, CopiesListed
  <1>6. CopyStays'
    BY <1>2 DEF RunInv, CopyStays
  <1>7. CopiesCaught' /\ NoCopies'
    BY <1>2 DEF RunInv, CopiesCaught, NoCopies
  <1>8. QED
    BY <1>3, <1>4, <1>5, <1>6, <1>7 DEF RunInv

-----------------------------------------------------------------------------
(* A query of the run.                                                     *)

\* The queries that look for copies.
LEMMA CopyQuery ==
    ASSUME NEW k \in Steps, Queries[k].does = "duplicates"
    PROVE  \E table, keep, delete :
              /\ Queries[k].tables = {table} /\ Queries[k].keep = keep /\ Queries[k].delete = delete
              /\ keep # delete /\ keep \in Lists /\ delete \in Lists
              /\ \/ table = "stoneAbility" /\ Queries[k].field = "stoneId"
                 \/ table = "stoneAbilityProperty" /\ Queries[k].field = "abilityId"
  <1>1. k \in {30, 33}
    BY StepsAre, OnlyCopies
  <1>2. /\ 30 \in DOMAIN Queries /\ 33 \in DOMAIN Queries
    BY QueriesAre
  <1>3. Makes(Queries[k]) \subseteq Lists
    BY <1>1, <1>2 DEF Lists, ToSet
  <1>4. Makes(Queries[k]) = {Queries[k].keep, Queries[k].delete}
    BY <1>1, CopiesAre DEF Makes, Duplicates
  <1>5. QED
    BY <1>1, <1>3, <1>4, CopiesAre DEF Duplicates

\* The first of the copies is not a repeated one.
LEMMA FirstCopy ==
    ASSUME NEW q, stored \subseteq Rows, NEW r \in In(q.tables), Repeats(r, q)
    PROVE  \E other \in In(q.tables) : other # r /\ Alike(r, other, q.field) /\ ~Repeats(other, q)
  <1> DEFINE places == {n \in DOMAIN Order : Order[n] \in In(q.tables) /\ Alike(r, Order[n], q.field)}
  <1>1. PICK a \in DOMAIN Order, b \in DOMAIN Order :
           a < b /\ Order[a] \in In(q.tables) /\ Alike(r, Order[a], q.field) /\ Order[b] = r
    BY DEF Repeats, Before
  <1>2. DOMAIN Order \subseteq Nat
    BY SanitizerAssumption
  <1>3. places # {} /\ places \subseteq Nat
    BY <1>1, <1>2
  <1>4. PICK n \in places : \A m \in places : n <= m
    BY <1>3, LeastOf
  <1>5. Order[n] # r
    <2>1. n <= a /\ n \in Nat /\ a \in Nat /\ b \in Nat
      BY <1>1, <1>2, <1>4
    <2>2. n # b
      BY <1>1, <2>1
    <2>3. QED
      BY <1>1, <2>2, SanitizerAssumption
  <1>6. ~Repeats(Order[n], q)
    <2> SUFFICES ASSUME NEW c \in DOMAIN Order, NEW d \in DOMAIN Order, c < d, Order[d] = Order[n],
                        Order[c] \in In(q.tables), Alike(Order[n], Order[c], q.field)
                 PROVE  FALSE
      BY DEF Repeats, Before
    <2>1. d = n
      BY SanitizerAssumption
    <2>2. c \in places
      BY DEF Alike
    <2>3. n <= c /\ c \in Nat /\ n \in Nat /\ d \in Nat
      BY <1>2, <1>4, <2>2
    <2>4. QED
      BY <2>1, <2>3
  <1>7. QED
    BY <1>5, <1>6

\* A query leaves the lists alone that it does not make.
LEMMA ListsKept ==
    ASSUME Typed, NEW k \in Steps, NEW l \in Lists, l \notin Makes(Queries[k])
    PROVE  ListsAfter(Queries[k])[l] = lists[l]
  <1>1. CASE Queries[k].does = "find"
    BY <1>1 DEF ListsAfter, Makes
  <1>2. CASE Queries[k].does = "duplicates"
    BY <1>2 DEF ListsAfter, Makes, Typed
  <1>3. CASE Queries[k].does \notin {"find", "duplicates"}
    BY <1>3 DEF ListsAfter
  <1>4. QED
    BY <1>1, <1>2, <1>3

\* A find makes its lists of the values it reads.
LEMMA FoundLists ==
    ASSUME NEW k \in Steps, Queries[k].does = "find", NEW l \in DOMAIN Queries[k].reads
    PROVE  /\ l \in Lists /\ l \in Makes(Queries[k])
           /\ ListsAfter(Queries[k])[l] = UNION {Value(r, Queries[k].reads[l]) : r \in In(Queries[k].tables)}
  <1>1. l \in Makes(Queries[k])
    BY DEF Makes
  <1>2. Queries[k] \in ToSet(Queries)
    BY StepsAre DEF ToSet
  <1>3. l \in Lists
    BY <1>1, <1>2 DEF Lists
  <1>4. QED
    BY <1>1, <1>3 DEF ListsAfter

\* A search for copies makes one list of the first of each kind and one of the repeated ones.
LEMMA CopyLists ==
    ASSUME Typed, NEW k \in Steps, Queries[k].does = "duplicates"
    PROVE  LET q == Queries[k] IN
           /\ ListsAfter(q)[q.keep] = {r.id : r \in {r \in In(q.tables) : ~Repeats(r, q)}}
           /\ ListsAfter(q)[q.delete] = {r.id : r \in {r \in In(q.tables) : Repeats(r, q)}}
  <1>1. Queries[k].keep \in Lists /\ Queries[k].delete \in Lists /\ Queries[k].keep # Queries[k].delete
    BY CopyQuery
  <1>2. QED
    BY <1>1 DEF ListsAfter, Typed

\* The lists a query makes or uses are lists of the run.
LEMMA StepLists ==
    ASSUME NEW k \in Steps
    PROVE  /\ Makes(Queries[k]) \subseteq Lists
           /\ Changes(Queries[k]) => Queries[k].from \subseteq Lists
  <1>1. \A i \in DOMAIN Queries : Makes(Queries[i]) \subseteq Lists
    BY DEF Lists, ToSet
  <1>2. k \in DOMAIN Queries
    BY StepsAre
  <1>3. ASSUME Changes(Queries[k]), NEW l \in Queries[k].from
        PROVE  l \in Lists
    <2>1. l \in DOMAIN Maker /\ Maker[l] \in DOMAIN Queries
      BY <1>3, MakerIsStep, StepsAre
    <2>2. l \in Makes(Queries[Maker[l]])
      BY <2>1, MakersAre
    <2>3. QED
      BY <1>1, <2>1, <2>2
  <1>4. QED
    BY <1>1, <1>2, <1>3

\* The copies that were looked for are deleted by the next query.
LEMMA ListedNext ==
    ASSUME NEW i \in 1..52, Queries[i].does = "duplicates"
    PROVE  \E table, delete :
              /\ i + 1 \in 1..52 /\ Queries[i + 1] = DeleteListed(table, delete)
              /\ Queries[i].tables = {table} /\ Queries[i].delete = delete
  <1>1. i \in {30, 33}
    BY QueriesAre, OnlyCopies
  <1>2. CASE i = 30
    <2>1. i + 1 = 31
      BY <1>2
    <2>2. Queries[i + 1] = DeleteListed("stoneAbility", "abilitiesToDelete")
      BY <2>1, CopiesAre
    <2>3. Queries[i].tables = {"stoneAbility"} /\ Queries[i].delete = "abilitiesToDelete"
      BY <1>2, CopiesAre DEF Duplicates
    <2>4. QED
      BY <2>1, <2>2, <2>3
  <1>3. CASE i = 33
    <2>1. i + 1 = 34
      BY <1>3
    <2>2. Queries[i + 1] = DeleteListed("stoneAbilityProperty", "abilitiesPropertiesToDelete")
      BY <2>1, CopiesAre
    <2>3. Queries[i].tables = {"stoneAbilityProperty"} /\ Queries[i].delete = "abilitiesPropertiesToDelete"
      BY <1>3, CopiesAre DEF Duplicates
    <2>4. QED
      BY <2>1, <2>2, <2>3
  <1>4. QED
    BY <1>1, <1>2, <1>3

\* A query of the run.
LEMMA QueryKeeps ==
    ASSUME RunInv, Query
    PROVE  RunInv'
  <1> DEFINE q == Queries[pc]
  <1>1. /\ pc \in Steps /\ pc \in 1..52 /\ pc \in DOMAIN Queries
        /\ stored' = stored \ Deleted(q) /\ lists' = ListsAfter(q)
        /\ fresh' = fresh /\ gone' = gone /\ announced' = announced
        /\ pc' \in Steps \cup {End} /\ pc' \in 1..53 /\ pc < pc' /\ \A j \in Steps : j < pc' => j <= pc
    <2>1. pc \in Steps /\ pc' = NextStep(pc)
      BY DEF Query
    <2>2. pc \in 0..52 /\ pc \in 1..52 /\ pc \in DOMAIN Queries
      BY <2>1, StepsAre
    <2>3. /\ NextStep(pc) \in Steps \cup {End} /\ pc < NextStep(pc)
          /\ \A j \in Steps : j < NextStep(pc) => j <= pc
      BY <2>2, NextStepIs
    <2>4. pc' \in Steps \cup {End} /\ pc < pc' /\ \A j \in Steps : j < pc' => j <= pc
      BY <2>1, <2>3
    <2>5. pc' \in 1..53
      BY <2>4, StepsAre
    <2>6. QED
      BY <2>1, <2>2, <2>4, <2>5 DEF Query
  <1>2. \A i \in Steps : (Done(i))' => i \in 1..52 /\ i \in DOMAIN Queries /\ (Done(i) \/ i = pc)
    BY <1>1, StepsAre DEF Done
  <1>3. \A l \in Lists : l \notin Makes(q) => lists'[l] = lists[l]
    BY <1>1, ListsKept DEF RunInv
  <1>4. \A tables : In(tables)' \subseteq In(tables)
    BY <1>1 DEF In
  <1>5. \A i \in Steps : Done(i) => /\ Makes(Queries[i]) \cap Makes(q) = {}
                                    /\ Changes(Queries[i]) => Queries[i].from \cap Makes(q) = {}
    BY <1>1, StepsAre, MadeOnce DEF Done
  <1>6. Typed'
    <2>1. lists' = [l \in Lists |-> lists'[l]]
      <3>1. CASE q.does = "find"
        BY <1>1, <3>1 DEF ListsAfter
      <3>2. CASE q.does # "find"
        BY <1>1, <3>2 DEF ListsAfter, RunInv, Typed
      <3>3. QED
        BY <3>1, <3>2
    <2>2. QED
      BY <1>1, <2>1 DEF RunInv, Typed
  <1> HIDE DEF q
  <1>7. ReadsHold'
    <2> SUFFICES ASSUME NEW i \in Steps, Done(i)', Queries[i].does = "find", NEW l \in DOMAIN Queries[i].reads,
                        NEW r \in In(Queries[i].tables)' \ fresh'
                 PROVE  Value(r, Queries[i].reads[l]) \subseteq lists'[l]
      BY DEF ReadsHold
    <2>1. r \in In(Queries[i].tables) \ fresh
      BY <1>1, <1>4
    <2>2. CASE Done(i)
      <3>1. l \in Lists /\ l \in Makes(Queries[i])
        BY FoundLists
      <3>2. lists'[l] = lists[l]
        BY <1>3, <1>5, <2>2, <3>1
      <3>3. QED
        BY <2>1, <2>2, <3>2 DEF RunInv, ReadsHold
    <2>3. CASE i = pc
      <3>1. lists'[l] = UNION {Value(n, Queries[i].reads[l]) : n \in In(Queries[i].tables)}
        BY <1>1, <2>3, FoundLists DEF q
      <3>2. QED
        BY <2>1, <3>1
    <2>4. QED
      BY <1>2, <2>2, <2>3
  <1>8. NothingLeft'
    <2> SUFFICES ASSUME NEW i \in Steps, Done(i)', Changes(Queries[i]),
                        NEW r \in Deleted(Queries[i])'
                 PROVE  r \in fresh'
      BY DEF NothingLeft
    <2>1. \A l \in Queries[i].from : lists'[l] = lists[l]
      <3>1. Queries[i].from \subseteq Lists
        BY StepLists
      <3>2. CASE Done(i)
        BY <1>3, <1>5, <3>1, <3>2
      <3>3. CASE i = pc
        BY <1>1, <3>3 DEF ListsAfter, Changes, q
      <3>4. QED
        BY <1>2, <3>2, <3>3
    <2>2. r \in Deleted(Queries[i]) /\ r \in stored'
      BY <1>4, <2>1 DEF Deleted, Matches, In
    <2>3. CASE Done(i)
      BY <1>1, <2>2, <2>3 DEF RunInv, NothingLeft
    <2>4. CASE i = pc
      BY <1>1, <2>2, <2>4 DEF q
    <2>5. QED
      BY <1>2, <2>3, <2>4
  <1>9. CopiesListed'
    <2> SUFFICES ASSUME NEW i \in Steps, Done(i)', Queries[i].does = "duplicates",
                        NEW r \in In(Queries[i].tables)' \ fresh'
                 PROVE  r.id \in lists'[Queries[i].keep] \cup lists'[Queries[i].delete]
      BY DEF CopiesListed
    <2>1. r \in In(Queries[i].tables) \ fresh
      BY <1>1, <1>4
    <2>2. CASE Done(i)
      <3>1. /\ Queries[i].keep \in Lists /\ Queries[i].delete \in Lists
            /\ Queries[i].keep \in Makes(Queries[i]) /\ Queries[i].delete \in Makes(Queries[i])
        BY CopyQuery DEF Makes
      <3>2. lists'[Queries[i].keep] = lists[Queries[i].keep] /\ lists'[Queries[i].delete] = lists[Queries[i].delete]
        BY <1>3, <1>5, <2>2, <3>1
      <3>3. QED
        BY <2>1, <2>2, <3>2 DEF RunInv, CopiesListed
    <2>3. CASE i = pc
      <3>1. /\ lists'[Queries[i].keep] = {n.id : n \in {n \in In(Queries[i].tables) : ~Repeats(n, Queries[i])}}
            /\ lists'[Queries[i].delete] = {n.id : n \in {n \in In(Queries[i].tables) : Repeats(n, Queries[i])}}
        BY <1>1, <2>3, CopyLists DEF q, RunInv
      <3>2. QED
        BY <2>1, <3>1
    <2>4. QED
      BY <1>2, <2>2, <2>3
  <1>10. CopyStays'
    <2> SUFFICES ASSUME NEW i \in Steps, Queries[i].does = "duplicates", pc' = i + 1,
                        NEW r \in In(Queries[i].tables)' \ fresh', r.id \in lists'[Queries[i].delete]
                 PROVE  \E other \in stored' \cup gone' :
                            Copies(r, other) /\ other.id \notin lists'[Queries[i].delete]
      BY DEF CopyStays
    <2>1. i = pc
      <3>1. i \in 1..52 /\ i < pc' /\ pc < i + 1
        BY <1>1, StepsAre
      <3>2. QED
        BY <1>1, <3>1
    <2>2. r \in In(q.tables) /\ stored' = stored
      BY <1>1, <1>4, <2>1 DEF q, Deleted
    <2>3. /\ lists'[q.delete] = {n.id : n \in {n \in In(q.tables) : Repeats(n, q)}}
      BY <1>1, <2>1, CopyLists DEF q, RunInv
    <2>4. PICK table : /\ q.tables = {table}
                       /\ \/ table = "stoneAbility" /\ q.field = "stoneId"
                          \/ table = "stoneAbilityProperty" /\ q.field = "abilityId"
      BY <2>1, CopyQuery DEF q
    <2>5. \A n, m \in In(q.tables) : n.id = m.id => n = m
      <3>1. \A n \in In(q.tables) : n \in Rows /\ n.table = table
        BY <2>4 DEF In, RunInv, Typed
      <3>2. QED
        BY <3>1, SanitizerAssumption
    <2>6. Repeats(r, q)
      BY <2>1, <2>2, <2>3, <2>5 DEF q
    <2>7. PICK other \in In(q.tables) : other # r /\ Alike(r, other, q.field) /\ ~Repeats(other, q)
      BY <2>2, <2>6, FirstCopy DEF RunInv, Typed
    <2>8. other.id \notin lists'[q.delete]
      BY <2>3, <2>5, <2>7
    <2>9. other \in stored' /\ Copies(r, other)
      BY <2>2, <2>4, <2>7 DEF Copies, In
    <2>10. QED
      BY <2>1, <2>8, <2>9 DEF q
  <1>11. CopiesCaught'
    <2> SUFFICES ASSUME NEW i \in Steps, Queries[i].does = "duplicates", pc' = i + 1,
                        NEW r \in In(Queries[i].tables)' \ fresh', NEW other \in In(Queries[i].tables)' \ fresh',
                        Copies(r, other)
                 PROVE  r.id \in lists'[Queries[i].delete] \/ other.id \in lists'[Queries[i].delete]
      BY DEF CopiesCaught
    <2>1. i = pc
      <3>1. i \in 1..52 /\ i < pc' /\ pc < i + 1
        BY <1>1, StepsAre
      <3>2. QED
        BY <1>1, <3>1
    <2>2. r \in In(q.tables) /\ other \in In(q.tables)
      BY <1>4, <2>1 DEF q
    <2>3. /\ lists'[q.delete] = {n.id : n \in {n \in In(q.tables) : Repeats(n, q)}}
      BY <1>1, <2>1, CopyLists DEF q, RunInv
    <2>4. Alike(r, other, q.field) /\ Alike(other, r, q.field) /\ r # other
      <3>1. PICK table : /\ q.tables = {table}
                         /\ \/ table = "stoneAbility" /\ q.field = "stoneId"
                            \/ table = "stoneAbilityProperty" /\ q.field = "abilityId"
        BY <2>1, CopyQuery DEF q
      <3>2. QED
        BY <2>2, <3>1 DEF Copies, Alike, In
    <2>5. PICK a \in DOMAIN Order, b \in DOMAIN Order : Order[a] = r /\ Order[b] = other
      BY <2>2 DEF In, RunInv, Typed, Rows, ToSet
    <2>6. a \in Nat /\ b \in Nat /\ a # b
      BY <2>4, <2>5, SanitizerAssumption
    <2>7. Repeats(r, q) \/ Repeats(other, q)
      BY <2>2, <2>4, <2>5, <2>6 DEF Repeats, Before
    <2>8. QED
      BY <2>1, <2>2, <2>3, <2>7 DEF q
  <1>12. NoCopies'
    <2> SUFFICES ASSUME NEW i \in Steps, Queries[i].does = "duplicates", i + 1 < pc',
                        NEW r \in In(Queries[i].tables)' \ fresh', NEW other \in In(Queries[i].tables)' \ fresh',
                        Copies(r, other)
                 PROVE  FALSE
      BY DEF NoCopies
    <2>1. i \in 1..52
      BY StepsAre
    <2>2. r \in In(Queries[i].tables) \ fresh /\ other \in In(Queries[i].tables) \ fresh
      BY <1>1, <1>4
    <2>3. CASE i + 1 < pc
      BY <2>2, <2>3 DEF RunInv, NoCopies
    <2>4. CASE ~(i + 1 < pc)
      <3>1. PICK table, delete : /\ i + 1 \in 1..52 /\ Queries[i + 1] = DeleteListed(table, delete)
                                 /\ Queries[i].tables = {table} /\ Queries[i].delete = delete
        BY <2>1, ListedNext
      <3>2. i + 1 \in Steps
        <4>1. r \in Rows /\ r.table \in Queries[i + 1].tables
          BY <2>2, <3>1 DEF In, RunInv, Typed, DeleteListed
        <4>2. QED
          BY <3>1, <4>1, DeletionIsStep, QueriesAre DEF Changes, DeleteListed
      <3>3. i + 1 = pc
        BY <1>1, <2>1, <2>4, <3>2
      <3>4. r.id \in lists[delete] \/ other.id \in lists[delete]
        BY <2>2, <3>1, <3>3 DEF RunInv, CopiesCaught
      <3>5. r \in Deleted(Queries[pc]) \/ other \in Deleted(Queries[pc])
        BY <2>2, <3>1, <3>3, <3>4 DEF Deleted, DeleteListed
      <3>6. r \in stored' /\ other \in stored'
        BY DEF In
      <3>7. QED
        BY <1>1, <3>5, <3>6 DEF q
    <2>5. QED
      BY <2>3, <2>4
  <1>13. QED
    BY <1>6, <1>7, <1>8, <1>9, <1>10, <1>11, <1>12 DEF RunInv

-----------------------------------------------------------------------------
(* Every step.                                                             *)

\* At first there is no run.
LEMMA InitRunInv == Init => RunInv
  <1> SUFFICES ASSUME Init PROVE RunInv
    OBVIOUS
  <1>1. pc = 0 /\ Typed
    BY SanitizerAssumption DEF Init, Typed
  <1>2. ASSUME NEW i \in Steps PROVE ~Done(i) /\ pc # i + 1 /\ ~(i + 1 < pc)
    BY <1>1, StepsAre DEF Done
  <1>3. QED
    BY <1>1, <1>2 DEF RunInv, ReadsHold, NothingLeft, CopiesListed, CopyStays, CopiesCaught, NoCopies

\* Every step keeps what is said of the run.
LEMMA NextRunInv == RunInv /\ [Next]_vars => RunInv'
  <1> SUFFICES ASSUME RunInv, [Next]_vars PROVE RunInv'
    OBVIOUS
  <1> USE DEF RunInv
  <1>1. CASE UNCHANGED vars
    <2>1. Typed'
      BY <1>1 DEF vars, Typed
    <2>2. QED
      BY <1>1, <2>1, OthersKeep DEF vars
  <1>2. CASE sanitize
    <2>1. pc' = NextStep(0) /\ stored' = stored /\ announced' = announced /\ lists' = lists
      BY <1>2 DEF sanitize
    <2>2. NextStep(0) \in Steps \cup {End} /\ \A i \in Steps : i >= NextStep(0)
      BY NextStepIs, FirstStep
    <2>3. Typed'
      BY <2>1, <2>2 DEF Typed
    <2>4. QED
      BY <2>1, <2>2, <2>3, IdleKeeps
  <1>3. CASE Query
    BY <1>3, QueryKeeps
  <1>4. CASE Return \/ Interrupt
    <2>1. Typed' /\ pc' = 0
      BY <1>4 DEF Return, Interrupt, ListsGone, Typed
    <2>2. \A i \in Steps : i >= pc'
      BY <2>1, StepsAre
    <2>3. QED
      BY <2>1, <2>2, IdleKeeps
  <1>5. ASSUME NEW r \in Rows, Announce(r) PROVE RunInv'
    <2>1. Typed'
      BY <1>5 DEF Announce, Typed
    <2>2. QED
      BY <1>5, <2>1, OthersKeep DEF Announce
  <1>6. ASSUME NEW r \in Rows, Insert(r) PROVE RunInv'
    <2>1. Typed' /\ pc' = pc
      BY <1>6 DEF Insert, Typed
    <2>2. CASE pc = 0
      <3>1. \A i \in Steps : i >= pc'
        BY <2>1, <2>2, StepsAre
      <3>2. QED
        BY <2>1, <3>1, IdleKeeps
    <2>3. CASE pc # 0
      BY <1>6, <2>1, <2>3, OthersKeep DEF Insert
    <2>4. QED
      BY <2>2, <2>3
  <1>7. ASSUME NEW r \in Rows, DeleteElsewhere(r) PROVE RunInv'
    <2>1. Typed' /\ pc' = pc
      BY <1>7 DEF DeleteElsewhere, Typed
    <2>2. CASE pc = 0
      <3>1. \A i \in Steps : i >= pc'
        BY <2>1, <2>2, StepsAre
      <3>2. QED
        BY <2>1, <3>1, IdleKeeps
    <2>3. CASE pc # 0
      BY <1>7, <2>1, <2>3, OthersKeep DEF DeleteElsewhere
    <2>4. QED
      BY <2>2, <2>3
  <1>8. QED
    BY <1>1, <1>2, <1>3, <1>4, <1>5, <1>6, <1>7 DEF Next

\* A list has the values of what is there, where it is used.
LEMMA ListIsComplete ==
    ASSUME RunInv, pc \in Steps, Changes(Queries[pc]), NEW l \in Queries[pc].from, l \in DOMAIN Source,
           NEW n \in stored \ fresh, n.table = Source[l][1]
    PROVE  Value(n, Source[l][2]) \subseteq lists[l]
  <1>1. Maker[l] \in Steps /\ Maker[l] < pc
    BY MakerIsStep
  <1>2. /\ Queries[Maker[l]].does = "find" /\ l \in DOMAIN Queries[Maker[l]].reads
    BY MakersAre
  <1>3. Queries[Maker[l]].tables = {Source[l][1]} /\ Queries[Maker[l]].reads[l] = Source[l][2]
    BY <1>1, <1>2, StepsAre, QueriesPlaced DEF Placed
  <1>4. n \in In(Queries[Maker[l]].tables) \ fresh
    BY <1>3 DEF In
  <1>5. QED
    BY <1>1, <1>2, <1>3, <1>4 DEF RunInv, ReadsHold, Done

\* What is deleted for want of a name has none, ...
LEMMA NamelessGo ==
    ASSUME RunInv, pc \in Steps, Queries[pc].does = "delete", NEW r \in Deleted(Queries[pc]),
           ForWantOfName(Queries[pc], r)
    PROVE  Orphan(r) \/ Raced(r)
  <1> SUFFICES ASSUME NEW n \in stored \ fresh, Names(n, r)
               PROVE  FALSE
    BY DEF Orphan, Raced, ForWantOfName
  <1>1. PICK by \in NamedBy[r.table] : n.table = by[1] /\ Value(n, by[2]) \cap NameOf(r) # {}
    BY DEF Names
  <1>2. PICK l \in Queries[pc].from : l \in DOMAIN Source /\ Source[l] = by
    BY <1>1 DEF ForWantOfName
  <1>3. Value(n, by[2]) \subseteq lists[l]
    BY <1>1, <1>2, ListIsComplete DEF Changes
  <1>4. NameOf(r) = Value(r, Queries[pc].field)
    BY DEF NameOf, ForWantOfName
  <1>5. Value(r, Queries[pc].field) \cap UNION {lists[m] : m \in Queries[pc].from} = {}
    BY DEF Deleted, Matches
  <1>6. QED
    BY <1>1, <1>2, <1>3, <1>4, <1>5

\* ... and what is deleted for want of a parent has none.
LEMMA ParentlessGo ==
    ASSUME RunInv, pc \in Steps, Queries[pc].does = "delete", NEW r \in Deleted(Queries[pc]),
           ForWantOfParent(Queries[pc], pc, r)
    PROVE  Orphan(r) \/ Raced(r)
  <1> DEFINE q == Queries[pc]
  <1>0. q.field \in Parents(r)
    BY DEF ForWantOfParent, Parents
  <1> SUFFICES ASSUME NEW p \in stored \ fresh, IsParent(p, r, q.field)
               PROVE  FALSE
    BY <1>0 DEF Orphan, Raced, Has
  <1>1. p \in Rows /\ p.table = Parent(r, q.field) /\ p.id \in Value(r, q.field)
    BY DEF IsParent, RunInv, Typed
  <1>2. \A l \in q.from : p.id \notin lists[l]
    BY <1>1 DEF Deleted, Matches
  <1>3. CASE \E l \in DOMAIN Source : q.from = {l} /\ Source[l] = <<Parent(r, q.field), "id">>
    <2>1. PICK l \in DOMAIN Source : q.from = {l} /\ Source[l] = <<Parent(r, q.field), "id">>
      BY <1>3
    <2>2. Value(p, "id") \subseteq lists[l]
      BY <1>1, <2>1, ListIsComplete DEF Changes
    <2>3. QED
      BY <1>2, <2>1, <2>2 DEF Value
  <1>4. CASE Parent(r, q.field) = "sphere" /\ q.from = {"spheresWithOwnerIds"} /\ pc > 15
    <2>1. 15 \in DOMAIN Queries /\ Queries[15] = Delete({"sphere"}, "id", {"spheresWithOwnerIds"})
      BY QueriesAre, CopiesAre
    <2>2. 15 \in Steps
      BY <1>1, <1>4, <2>1, DeletionIsStep DEF Changes, Delete
    <2>3. Deleted(Queries[15]) \subseteq fresh
      <3>1. Done(15) /\ Changes(Queries[15])
        BY <1>4, <2>1, <2>2, StepsAre DEF Done, Changes, Delete
      <3>2. QED
        BY <2>2, <3>1 DEF RunInv, NothingLeft
    <2>4. p.id \in lists["spheresWithOwnerIds"]
      BY <1>1, <1>4, <2>1, <2>3 DEF Deleted, Delete, Matches, In, Value
    <2>5. QED
      BY <1>2, <1>4, <2>4
  <1>5. CASE Parent(r, q.field) = "stoneAbility" /\ q.from = {"abilitiesToKeep"} /\ pc > 31
    <2>1. /\ 30 \in DOMAIN Queries /\ 31 \in DOMAIN Queries
          /\ Queries[30] = Duplicates("stoneAbility", "stoneId", "abilitiesToKeep", "abilitiesToDelete")
          /\ Queries[31] = DeleteListed("stoneAbility", "abilitiesToDelete")
      BY QueriesAre, CopiesAre
    <2>2. 31 \in Steps
      BY <1>1, <1>5, <2>1, DeletionIsStep DEF Changes, DeleteListed
    <2>3. Deleted(Queries[31]) \subseteq fresh
      <3>1. Done(31) /\ Changes(Queries[31])
        BY <1>5, <2>1, <2>2, StepsAre DEF Done, Changes, DeleteListed
      <3>2. QED
        BY <2>2, <3>1 DEF RunInv, NothingLeft
    <2>4. p.id \notin lists["abilitiesToDelete"]
      BY <1>1, <1>5, <2>1, <2>3 DEF Deleted, DeleteListed, In
    <2>5. 30 \in Steps
      <3>1. Maker["abilitiesToKeep"] \in Steps
        BY <1>5, MakerIsStep DEF Changes
      <3>2. QED
        BY <3>1 DEF Maker
    <2>6. p.id \in lists["abilitiesToKeep"] \cup lists["abilitiesToDelete"]
      <3>1. Done(30) /\ Queries[30].does = "duplicates"
        BY <1>5, <2>1, <2>5, StepsAre DEF Done, Duplicates
      <3>2. p \in In(Queries[30].tables) \ fresh
        BY <1>1, <1>5, <2>1 DEF Duplicates, In
      <3>3. p.id \in lists[Queries[30].keep] \cup lists[Queries[30].delete]
        BY <2>5, <3>1, <3>2 DEF RunInv, CopiesListed
      <3>4. QED
        BY <2>1, <3>3 DEF Duplicates
    <2>7. QED
      BY <1>2, <1>5, <2>4, <2>6
  <1>6. QED
    BY <1>3, <1>4, <1>5 DEF ForWantOfParent

\* A copy that is deleted leaves another, unless somebody else has deleted that.
LEMMA CopiesGo ==
    ASSUME RunInv, pc \in Steps, Queries[pc].does = "listed", stored' = stored \ Deleted(Queries[pc]),
           NEW r \in Deleted(Queries[pc])
    PROVE  Copied(r) \/ Raced(r)
  <1>1. CASE r \in fresh
    BY <1>1 DEF Raced
  <1>2. CASE r \notin fresh
    <2>1. pc \in {31, 34}
      BY StepsAre, OnlyCopies
    <2>2. PICK table, delete :
             /\ Queries[pc] = DeleteListed(table, delete) /\ pc - 1 \in 1..52
             /\ Queries[pc - 1].does = "duplicates" /\ Queries[pc - 1].tables = {table}
             /\ Queries[pc - 1].delete = delete /\ delete \in DOMAIN Maker /\ Maker[delete] = pc - 1
      <3>1. CASE pc = 31
        <4>1. pc - 1 = 30 /\ 30 \in 1..52
          BY <3>1
        <4>2. Queries[pc] = DeleteListed("stoneAbility", "abilitiesToDelete")
          BY <3>1, CopiesAre
        <4>3. /\ Queries[pc - 1].does = "duplicates" /\ Queries[pc - 1].tables = {"stoneAbility"}
              /\ Queries[pc - 1].delete = "abilitiesToDelete"
          BY <4>1, CopiesAre DEF Duplicates
        <4>4. "abilitiesToDelete" \in DOMAIN Maker /\ Maker["abilitiesToDelete"] = pc - 1
          BY <4>1 DEF Maker
        <4>5. QED
          BY <4>1, <4>2, <4>3, <4>4
      <3>2. CASE pc = 34
        <4>1. pc - 1 = 33 /\ 33 \in 1..52
          BY <3>2
        <4>2. Queries[pc] = DeleteListed("stoneAbilityProperty", "abilitiesPropertiesToDelete")
          BY <3>2, CopiesAre
        <4>3. /\ Queries[pc - 1].does = "duplicates" /\ Queries[pc - 1].tables = {"stoneAbilityProperty"}
              /\ Queries[pc - 1].delete = "abilitiesPropertiesToDelete"
          BY <4>1, CopiesAre DEF Duplicates
        <4>4. "abilitiesPropertiesToDelete" \in DOMAIN Maker /\ Maker["abilitiesPropertiesToDelete"] = pc - 1
          BY <4>1 DEF Maker
        <4>5. QED
          BY <4>1, <4>2, <4>3, <4>4
      <3>3. QED
        BY <2>1, <3>1, <3>2
    <2>3. pc - 1 \in Steps /\ pc = (pc - 1) + 1
      <3>1. Maker[delete] \in Steps
        BY <2>2, MakerIsStep DEF Changes, DeleteListed
      <3>2. QED
        BY <2>1, <2>2, <3>1
    <2>4. r \in In({table}) \ fresh /\ r.id \in lists[delete]
      BY <1>2, <2>2 DEF Deleted, DeleteListed, In
    <2>5. PICK other \in stored \cup gone : Copies(r, other) /\ other.id \notin lists[delete]
      BY <2>2, <2>3, <2>4 DEF RunInv, CopyStays
    <2>6. CASE other \in gone
      BY <2>5, <2>6 DEF Raced
    <2>7. CASE other \in stored
      <3>1. other \notin Deleted(Queries[pc])
        BY <2>2, <2>5 DEF Deleted, DeleteListed
      <3>2. QED
        BY <2>5, <2>7, <3>1 DEF Copied
    <2>8. QED
      BY <2>6, <2>7
  <1>3. QED
    BY <1>1, <1>2

\* So a query takes only orphans, copies, and what met somebody else's step.
LEMMA QueryTakesOrphans ==
    ASSUME RunInv, Query, NEW r \in stored \ stored'
    PROVE  Orphan(r) \/ Copied(r) \/ Raced(r)
  <1>1. pc \in Steps /\ pc \in DOMAIN Queries /\ stored' = stored \ Deleted(Queries[pc])
    BY StepsAre DEF Query, RunInv, Typed
  <1>2. r \in Deleted(Queries[pc]) /\ r \in Rows
    BY <1>1 DEF RunInv, Typed
  <1>3. Queries[pc].does \in {"delete", "listed"}
    BY <1>2 DEF Deleted
  <1>4. CASE Queries[pc].does = "delete"
    <2>1. r.table \in Queries[pc].tables
      BY <1>2, <1>4 DEF Deleted, In
    <2>2. ForWantOfName(Queries[pc], r) \/ ForWantOfParent(Queries[pc], pc, r)
      BY <1>1, <1>2, <1>4, <2>1, QueriesPlaced DEF Grounded
    <2>3. QED
      BY <1>1, <1>2, <1>4, <2>2, NamelessGo, ParentlessGo
  <1>5. CASE Queries[pc].does = "listed"
    BY <1>1, <1>2, <1>5, CopiesGo
  <1>6. QED
    BY <1>3, <1>4, <1>5

\* A query of the sanitizer deletes nothing but orphans, all copies but one, and what was
\* inserted while the run was going on or belongs to that: for any database and any steps
\* of others between the queries.  RunInv says that a list has the ids of all rows that are
\* not newer than the run.
THEOREM OrphansGo == Spec => OnlyOrphansGo
  <1>1. ASSUME RunInv, [Next]_vars
        PROVE  [pc # 0 /\ pc' # pc /\ stored' # stored =>
                   \A r \in stored \ stored' : Orphan(r) \/ Copied(r) \/ Raced(r)]_vars
    <2>1. CASE UNCHANGED vars
      BY <2>1
    <2>2. CASE Query
      BY <1>1, <2>2, QueryTakesOrphans
    <2>3. CASE sanitize \/ Return \/ Interrupt
      BY <2>3 DEF sanitize, Return, Interrupt
    <2>4. CASE \E r \in Rows : Announce(r) \/ Insert(r) \/ DeleteElsewhere(r)
      BY <2>4 DEF Announce, Insert, DeleteElsewhere
    <2>5. QED
      BY <1>1, <2>1, <2>2, <2>3, <2>4 DEF Next
  <1>2. QED
    BY <1>1, InitRunInv, NextRunInv, PTL DEF Spec, OnlyOrphansGo

-----------------------------------------------------------------------------
(* What a run looks for.                                                   *)

\* A query deletes from a table for want of a field.
Checks(k, table, field) ==
    /\ k \in DOMAIN Queries /\ Queries[k].does = "delete"
    /\ table \in Queries[k].tables /\ Queries[k].field = field

\* The deletion that looks for each kind of child, and of each that has to be named.
LEMMA ChecksAre ==
    /\ Checks(2, "userToken", "userId") /\ Checks(3, "oauthToken", "userId")
    /\ Checks(4, "device", "ownerId") /\ Checks(6, "deviceLocationMap", "deviceId")
    /\ Checks(7, "deviceSphereMap", "deviceId") /\ Checks(8, "appInstallation", "deviceId")
    /\ Checks(9, "devicePreferences", "deviceId") /\ Checks(10, "fingerprintLinker", "deviceId")
    /\ Checks(12, "fingerprint", "id") /\ Checks(13, "sphereAccess", "userId")
    /\ Checks(15, "sphere", "id") /\ Checks(16, "scene", "sphereId")
    /\ Checks(17, "location", "sphereId") /\ Checks(18, "stone", "sphereId")
    /\ Checks(21, "hubAccess", "sphereId") /\ Checks(21, "sphereAccess", "sphereId")
    /\ Checks(22, "stoneBehaviour", "stoneId") /\ Checks(23, "stoneAbility", "stoneId")
    /\ Checks(24, "stoneAbilityProperty", "stoneId") /\ Checks(25, "stoneSwitchState", "stoneId")
    /\ Checks(26, "stoneKeys", "stoneId") /\ Checks(27, "stoneEnergy", "stoneId")
    /\ Checks(28, "stoneEnergyProcessed", "stoneId") /\ Checks(29, "stoneEnergyMetaData", "stoneId")
    /\ Checks(32, "stoneAbilityProperty", "abilityId") /\ Checks(35, "hub", "sphereId")
    /\ Checks(37, "hubToken", "userId") /\ Checks(38, "hubAccess", "userId")
    /\ Checks(39, "sphereKeys", "sphereId") /\ Checks(40, "messageV2", "sphereId")
    /\ Checks(41, "messageRecipientUser", "sphereId") /\ Checks(42, "messageReadByUser", "sphereId")
    /\ Checks(43, "messageDeletedByUser", "sphereId") /\ Checks(44, "message", "sphereId")
    /\ Checks(45, "messageState", "sphereId") /\ Checks(46, "messageUser", "sphereId")
    /\ Checks(47, "toon", "sphereId") /\ Checks(48, "sphereTrackingNumber", "sphereId")
    /\ Checks(51, "fsFiles", "id") /\ Checks(52, "fsChunks", "files_id")
  <1>1. /\ Checks(2, "userToken", "userId")
        /\ Checks(3, "oauthToken", "userId")
        /\ Checks(4, "device", "ownerId")
        /\ Checks(6, "deviceLocationMap", "deviceId")
        /\ Checks(7, "deviceSphereMap", "deviceId")
        /\ Checks(8, "appInstallation", "deviceId")
        /\ Checks(9, "devicePreferences", "deviceId")
        /\ Checks(10, "fingerprintLinker", "deviceId")
        /\ Checks(12, "fingerprint", "id")
        /\ Checks(13, "sphereAccess", "userId")
    <2>1. DOMAIN Queries = 1..52
      BY QueriesAre
    <2>2. /\ Queries[2] = OfUsers[2] /\ Queries[3] = OfUsers[3] /\ Queries[4] = OfUsers[4]
          /\ Queries[6] = OfUsers[6] /\ Queries[7] = OfUsers[7] /\ Queries[8] = OfUsers[8]
          /\ Queries[9] = OfUsers[9] /\ Queries[10] = OfUsers[10] /\ Queries[12] = OfUsers[12]
          /\ Queries[13] = OfUsers[13]
      BY QueriesAre
    <2>3. QED
      BY <2>1, <2>2 DEF Checks, OfUsers, Delete
  <1>2. /\ Checks(15, "sphere", "id")
        /\ Checks(16, "scene", "sphereId")
        /\ Checks(17, "location", "sphereId")
        /\ Checks(18, "stone", "sphereId")
        /\ Checks(21, "hubAccess", "sphereId")
        /\ Checks(21, "sphereAccess", "sphereId")
    <2>1. DOMAIN Queries = 1..52
      BY QueriesAre
    <2>2. /\ Queries[15] = OfSpheres[2] /\ Queries[16] = OfSpheres[3] /\ Queries[17] = OfSpheres[4]
          /\ Queries[18] = OfSpheres[5] /\ Queries[21] = OfSpheres[8]
      BY QueriesAre
    <2>3. QED
      BY <2>1, <2>2 DEF Checks, OfSpheres, Delete
  <1>3. /\ Checks(22, "stoneBehaviour", "stoneId")
        /\ Checks(23, "stoneAbility", "stoneId")
        /\ Checks(24, "stoneAbilityProperty", "stoneId")
        /\ Checks(25, "stoneSwitchState", "stoneId")
        /\ Checks(26, "stoneKeys", "stoneId")
        /\ Checks(27, "stoneEnergy", "stoneId")
        /\ Checks(28, "stoneEnergyProcessed", "stoneId")
        /\ Checks(29, "stoneEnergyMetaData", "stoneId")
        /\ Checks(32, "stoneAbilityProperty", "abilityId")
    <2>1. DOMAIN Queries = 1..52
      BY QueriesAre
    <2>2. /\ Queries[22] = OfStones[1] /\ Queries[23] = OfStones[2] /\ Queries[24] = OfStones[3]
          /\ Queries[25] = OfStones[4] /\ Queries[26] = OfStones[5] /\ Queries[27] = OfStones[6]
          /\ Queries[28] = OfStones[7] /\ Queries[29] = OfStones[8] /\ Queries[32] = OfStones[11]
      BY QueriesAre
    <2>3. QED
      BY <2>1, <2>2 DEF Checks, OfStones, Delete
  <1>4. /\ Checks(35, "hub", "sphereId")
        /\ Checks(37, "hubToken", "userId")
        /\ Checks(38, "hubAccess", "userId")
    <2>1. DOMAIN Queries = 1..52
      BY QueriesAre
    <2>2. /\ Queries[35] = OfHubs[1] /\ Queries[37] = OfHubs[3] /\ Queries[38] = OfHubs[4]
      BY QueriesAre
    <2>3. QED
      BY <2>1, <2>2 DEF Checks, OfHubs, Delete
  <1>5. /\ Checks(39, "sphereKeys", "sphereId")
        /\ Checks(40, "messageV2", "sphereId")
        /\ Checks(41, "messageRecipientUser", "sphereId")
        /\ Checks(42, "messageReadByUser", "sphereId")
        /\ Checks(43, "messageDeletedByUser", "sphereId")
        /\ Checks(44, "message", "sphereId")
        /\ Checks(45, "messageState", "sphereId")
        /\ Checks(46, "messageUser", "sphereId")
        /\ Checks(47, "toon", "sphereId")
        /\ Checks(48, "sphereTrackingNumber", "sphereId")
        /\ Checks(51, "fsFiles", "id")
        /\ Checks(52, "fsChunks", "files_id")
    <2>1. DOMAIN Queries = 1..52
      BY QueriesAre
    <2>2. /\ Queries[39] = OfTheRest[1] /\ Queries[40] = OfTheRest[2] /\ Queries[41] = OfTheRest[3]
          /\ Queries[42] = OfTheRest[4] /\ Queries[43] = OfTheRest[5] /\ Queries[44] = OfTheRest[6]
          /\ Queries[45] = OfTheRest[7] /\ Queries[46] = OfTheRest[8] /\ Queries[47] = OfTheRest[9]
          /\ Queries[48] = OfTheRest[10] /\ Queries[51] = OfTheRest[13] /\ Queries[52] = OfTheRest[14]
      BY QueriesAre
    <2>3. QED
      BY <2>1, <2>2 DEF Checks, OfTheRest, Delete
  <1>6. QED
    BY <1>1, <1>2, <1>3, <1>4, <1>5

\* Whatever belongs to a row or is named by one is looked for.
LEMMA Checked ==
    ASSUME NEW r \in Rows
    PROVE  /\ \A field \in Parents(r) : \E k \in Steps : Checks(k, r.table, field)
           /\ r.table \in DOMAIN NamedBy =>
                 \E k \in Steps : Checks(k, r.table, IF r.table = "fsChunks" THEN "files_id" ELSE "id")
  <1>1. \A k, field : Checks(k, r.table, field) => k \in Steps
    BY DeletionIsStep DEF Checks, Changes
  <1>2. ASSUME NEW field \in Parents(r)
        PROVE  \E k : Checks(k, r.table, field)
    <2>1. field \in DOMAIN Belonging /\ r.table \in Belonging[field]
      BY DEF Parents
    <2>2. CASE field = "sphereId"
      <3>1. r.table \in OfSphere
        BY <2>1, <2>2 DEF Belonging
      <3>2. QED
        BY <2>2, <3>1, ChecksAre DEF OfSphere
    <2>3. CASE field = "stoneId"
      <3>1. r.table \in OfStone
        BY <2>1, <2>3 DEF Belonging
      <3>2. QED
        BY <2>3, <3>1, ChecksAre DEF OfStone
    <2>4. CASE field = "deviceId"
      <3>1. r.table \in OfDevice
        BY <2>1, <2>4 DEF Belonging
      <3>2. QED
        BY <2>4, <3>1, ChecksAre DEF OfDevice
    <2>5. CASE field \in {"ownerId", "userId", "abilityId"}
      <3>1. \/ field = "ownerId" /\ r.table = "device"
            \/ field = "abilityId" /\ r.table = "stoneAbilityProperty"
            \/ field = "userId" /\ r.table \in {"userToken", "oauthToken", "sphereAccess", "hubToken", "hubAccess"}
        BY <2>1, <2>5 DEF Belonging
      <3>2. QED
        BY <3>1, ChecksAre
    <2>6. QED
      BY <2>1, <2>2, <2>3, <2>4, <2>5 DEF Belonging
  <1>3. ASSUME r.table \in DOMAIN NamedBy
        PROVE  \E k : Checks(k, r.table, IF r.table = "fsChunks" THEN "files_id" ELSE "id")
    <2>1. r.table \in {"sphere", "fingerprint", "fsFiles", "fsChunks"}
      BY <1>3 DEF NamedBy
    <2>2. QED
      BY <2>1, ChecksAre
  <1>4. QED
    BY <1>1, <1>2, <1>3

-----------------------------------------------------------------------------
(* What a quiet run is worth.                                              *)

\* In a run that nobody disturbs nothing is newer than the run, ...
Quiet == pc # 0 /\ quiet # -1
NobodyElse == quiet \in -1..2 /\ (Quiet => fresh = {} /\ gone = {})

\* ... and what a list has is there to the end of the run, ...
ListsHold ==
    Quiet => \A l \in DOMAIN Source \ {"spheresWithOwnerIds"} :
        (Maker[l] \in Steps /\ Maker[l] < pc) =>
            \A v \in lists[l] : \E n \in stored : n.table = Source[l][1] /\ v \in Value(n, Source[l][2])

\* ... also the abilities that are kept, ...
KeptStay ==
    (Quiet /\ Done(30)) =>
        \A v \in lists["abilitiesToKeep"] :
            /\ v \notin lists["abilitiesToDelete"]
            /\ \E n \in stored : n.table = "stoneAbility" /\ n.id = v

\* ... but not the access to a sphere that is gone.
OwnersStay ==
    (Quiet /\ Done(14)) =>
        \A s \in In({"sphere"}) : s.id \in lists["spheresWithOwnerIds"] =>
            \E a \in In({"sphereAccess"}) : s.id \in Value(a, "sphereId")

\* After one quiet run there is no copy left, and no access to a sphere that is gone, ...
OnceUnique == quiet \in {1, 2} => \A r, other \in stored : ~Copies(r, other)
AccessKnown ==
    quiet \in {1, 2} =>
        \A a \in In({"sphereAccess"}) : \E s \in In({"sphere"}) : s.id \in Value(a, "sphereId")

\* ... so that the next one finds the spheres there are.
SpheresKnown ==
    (Quiet /\ quiet \in {1, 2} /\ Done(14)) =>
        \A v \in lists["spheresWithOwnerIds"] : \E s \in In({"sphere"}) : s.id = v

\* After the second there is no orphan.
TwiceClean == quiet = 2 => \A r \in stored : ~Orphan(r)

QuietInv ==
    /\ NobodyElse /\ ListsHold /\ KeptStay /\ OwnersStay
    /\ OnceUnique /\ AccessKnown /\ SpheresKnown /\ TwiceClean

\* What a list was made of stays.
LEMMA Settles ==
    ASSUME NEW k \in Steps, Changes(Queries[k])
    PROVE  /\ \A l \in DOMAIN Source \ {"spheresWithOwnerIds"} :
                 Source[l][1] \in Queries[k].tables => k < Maker[l]
           /\ "sphereAccess" \in Queries[k].tables => k \in {13, 21}
           /\ "sphere" \in Queries[k].tables => k = 15
           /\ "stoneAbility" \in Queries[k].tables => k \in {23, 31}
  BY StepsAre, QueriesPlaced DEF Settled

\* A query leaves the rows of other tables alone.
LEMMA RowsStay ==
    ASSUME Query, NEW r \in stored, ~Changes(Queries[pc]) \/ r.table \notin Queries[pc].tables
    PROVE  r \in stored'
  <1>1. stored' = stored \ Deleted(Queries[pc])
    BY DEF Query
  <1>2. r \notin Deleted(Queries[pc])
    BY DEF Deleted, In, Changes
  <1>3. QED
    BY <1>1, <1>2

\* What is known of the step a query makes.
LEMMA QueryIs ==
    ASSUME RunInv, Query
    PROVE  /\ pc \in Steps /\ pc \in 1..52
           /\ stored' = stored \ Deleted(Queries[pc]) /\ lists' = ListsAfter(Queries[pc])
           /\ fresh' = fresh /\ gone' = gone /\ quiet' = quiet
           /\ pc' # 0 /\ \A i \in Steps : i < pc' => i = pc \/ i < pc
  <1>1. pc \in Steps /\ pc' = NextStep(pc)
    BY DEF Query
  <1>2. pc \in 0..52 /\ pc \in 1..52
    BY <1>1, StepsAre
  <1>3. pc' \in Steps \cup {End} /\ \A j \in Steps : j < pc' => j <= pc
    BY <1>1, <1>2, NextStepIs
  <1>4. \A j \in Steps : j \in 1..52
    BY StepsAre
  <1>5. pc' # 0
    BY <1>3, <1>4, StepsAre
  <1>6. \A i \in Steps : i < pc' => i = pc \/ i < pc
    BY <1>2, <1>3, <1>4
  <1>7. QED
    BY <1>1, <1>2, <1>5, <1>6 DEF Query

\* A list that was made is not made again.
LEMMA MadeStays ==
    ASSUME RunInv, Query, NEW l \in DOMAIN Maker, Maker[l] \in Steps, Maker[l] < pc
    PROVE  lists'[l] = lists[l]
  <1>1. l \in Makes(Queries[Maker[l]]) /\ Maker[l] \in DOMAIN Queries
    BY MakersAre, StepsAre
  <1>2. pc \in Steps /\ pc \in DOMAIN Queries /\ lists' = ListsAfter(Queries[pc])
    BY QueryIs, StepsAre
  <1>3. l \notin Makes(Queries[pc])
    BY <1>1, <1>2, MadeOnce
  <1>4. l \in Lists
    BY <1>1, StepLists
  <1>5. QED
    BY <1>2, <1>3, <1>4, ListsKept DEF RunInv

\* The query that deletes the access to spheres that are gone.
LEMMA SphereAccessIs ==
    21 \in DOMAIN Queries /\ Queries[21] = Delete({"sphereAccess", "hubAccess"}, "sphereId", {"sphereIds"})
  <1>1. Queries[21] = OfSpheres[8] /\ 21 \in DOMAIN Queries
    BY QueriesAre
  <1>2. QED
    BY <1>1 DEF OfSpheres

-----------------------------------------------------------------------------
(* The part of the invariant about quiet runs, query by query.             *)

\* What a list has stays, ...
LEMMA QueryHolds ==
    ASSUME RunInv, ListsHold, Query
    PROVE  ListsHold'
  <1> SUFFICES ASSUME Quiet, NEW l \in DOMAIN Source \ {"spheresWithOwnerIds"},
                      Maker[l] \in Steps, Maker[l] < pc', NEW v \in lists'[l]
               PROVE  \E n \in stored' : n.table = Source[l][1] /\ v \in Value(n, Source[l][2])
    BY QueryIs DEF ListsHold, Quiet
  <1>1. l \in DOMAIN Maker /\ Queries[Maker[l]].does = "find" /\ l \in DOMAIN Queries[Maker[l]].reads
    BY MakersAre
  <1>2. \E n \in stored : n.table = Source[l][1] /\ v \in Value(n, Source[l][2])
    <2>1. CASE Maker[l] = pc
      <3>1. lists'[l] = UNION {Value(r, Queries[pc].reads[l]) : r \in In(Queries[pc].tables)}
        BY <1>1, <2>1, QueryIs, FoundLists
      <3>2. Queries[pc].tables = {Source[l][1]} /\ Queries[pc].reads[l] = Source[l][2]
        BY <1>1, <2>1, StepsAre, QueriesPlaced DEF Placed
      <3>3. QED
        BY <3>1, <3>2 DEF In
    <2>2. CASE Maker[l] < pc
      BY <1>1, <2>2, MadeStays DEF ListsHold
    <2>3. QED
      BY <2>1, <2>2, QueryIs
  <1>3. ~Changes(Queries[pc]) \/ Source[l][1] \notin Queries[pc].tables
    <2>1. CASE Maker[l] = pc
      BY <1>1, <2>1 DEF Changes
    <2>2. CASE Maker[l] < pc
      <3>1. pc \in 1..52 /\ pc \in Steps
        BY QueryIs
      <3>2. Maker[l] \in 1..52
        BY StepsAre
      <3>3. ~(pc < Maker[l])
        BY <2>2, <3>1, <3>2
      <3>4. QED
        BY <3>1, <3>3, Settles
    <2>3. QED
      BY <2>1, <2>2, QueryIs
  <1>4. QED
    BY <1>2, <1>3, RowsStay

\* ... the first of the abilities of a kind do, ...
LEMMA QueryKeepsKept ==
    ASSUME RunInv, KeptStay, Query
    PROVE  KeptStay'
  <1> DEFINE keep == "abilitiesToKeep"
             delete == "abilitiesToDelete"
  <1> SUFFICES ASSUME Quiet, Done(30)', NEW v \in lists'[keep]
               PROVE  /\ v \notin lists'[delete]
                      /\ \E n \in stored' : n.table = "stoneAbility" /\ n.id = v
    BY QueryIs DEF KeptStay, Quiet
  <1>1. 30 \in Steps /\ (30 = pc \/ 30 < pc)
    BY QueryIs DEF Done
  <1>2. Queries[30] = Duplicates("stoneAbility", "stoneId", keep, delete)
    BY CopiesAre
  <1>3. CASE 30 = pc
    <2>1. Queries[pc].does = "duplicates" /\ Queries[pc].tables = {"stoneAbility"}
      BY <1>2, <1>3 DEF Duplicates
    <2>2. /\ lists'[keep] = {n.id : n \in {n \in In({"stoneAbility"}) : ~Repeats(n, Queries[pc])}}
          /\ lists'[delete] = {n.id : n \in {n \in In({"stoneAbility"}) : Repeats(n, Queries[pc])}}
      <3>1. Queries[pc].keep = keep /\ Queries[pc].delete = delete
        BY <1>2, <1>3 DEF Duplicates
      <3>2. QED
        BY <2>1, <3>1, QueryIs, CopyLists DEF RunInv
    <2>3. \A n, m \in In({"stoneAbility"}) : n.id = m.id => n = m
      BY SanitizerAssumption DEF In, RunInv, Typed
    <2>4. PICK n \in In({"stoneAbility"}) : n.id = v /\ ~Repeats(n, Queries[pc])
      BY <2>2
    <2>5. v \notin lists'[delete]
      BY <2>2, <2>3, <2>4
    <2>6. n \in stored' /\ n.table = "stoneAbility"
      BY <2>1, <2>4, RowsStay DEF In, Changes
    <2>7. QED
      BY <2>4, <2>5, <2>6
  <1>4. CASE 30 < pc
    <2>1. Maker[keep] = 30 /\ Maker[delete] = 30 /\ keep \in DOMAIN Maker /\ delete \in DOMAIN Maker
      BY DEF Maker
    <2>2. lists'[keep] = lists[keep] /\ lists'[delete] = lists[delete]
      BY <1>1, <1>4, <2>1, MadeStays
    <2>3. v \notin lists[delete] /\ \E n \in stored : n.table = "stoneAbility" /\ n.id = v
      BY <1>1, <1>4, <2>2 DEF KeptStay, Done
    <2>4. PICK n \in stored : n.table = "stoneAbility" /\ n.id = v
      BY <2>3
    <2>5. n \in stored'
      <3>1. CASE pc = 31
        <4>1. Queries[pc] = DeleteListed("stoneAbility", delete)
          BY <3>1, CopiesAre
        <4>2. n \notin Deleted(Queries[pc])
          BY <2>3, <2>4, <4>1 DEF Deleted, DeleteListed
        <4>3. QED
          BY <4>2, QueryIs
      <3>2. CASE pc # 31
        <4>1. ~Changes(Queries[pc]) \/ "stoneAbility" \notin Queries[pc].tables
          <5>1. pc \notin {23, 31}
            BY <1>4, <3>2
          <5>2. QED
            BY <5>1, QueryIs, Settles
        <4>2. QED
          BY <2>4, <4>1, RowsStay
      <3>3. QED
        BY <3>1, <3>2
    <2>6. QED
      BY <2>2, <2>3, <2>4, <2>5
  <1>5. QED
    BY <1>1, <1>3, <1>4

\* ... the access to a sphere that is there does, ...
LEMMA QueryKeepsOwners ==
    ASSUME RunInv, NobodyElse, OwnersStay, Query
    PROVE  OwnersStay'
  <1> DEFINE owned == "spheresWithOwnerIds"
  <1> SUFFICES ASSUME Quiet, Done(14)', NEW s \in In({"sphere"})', s.id \in lists'[owned]
               PROVE  \E a \in In({"sphereAccess"})' : s.id \in Value(a, "sphereId")
    BY QueryIs DEF OwnersStay, Quiet
  <1>1. 14 \in Steps /\ (14 = pc \/ 14 < pc)
    BY QueryIs DEF Done
  <1>2. s \in stored /\ s.table = "sphere"
    BY QueryIs DEF In
  <1>3. CASE 14 = pc
    <2>1. Queries[pc] = Find("sphereAccess", [spheresWithOwnerIds |-> "sphereId"])
      BY <1>3, FindsAre
    <2>2. /\ Queries[pc].does = "find" /\ owned \in DOMAIN Queries[pc].reads
          /\ Queries[pc].reads[owned] = "sphereId" /\ Queries[pc].tables = {"sphereAccess"}
      BY <2>1 DEF Find
    <2>3. lists'[owned] = UNION {Value(a, "sphereId") : a \in In({"sphereAccess"})}
      <3>1. lists'[owned] = UNION {Value(a, Queries[pc].reads[owned]) : a \in In(Queries[pc].tables)}
        <4>1. pc \in Steps /\ lists' = ListsAfter(Queries[pc])
          BY QueryIs
        <4>2. QED
          BY <2>2, <4>1, FoundLists
      <3>2. QED
        BY <2>2, <3>1
    <2>4. PICK a \in In({"sphereAccess"}) : s.id \in Value(a, "sphereId")
      BY <2>3
    <2>5. a \in stored'
      BY <2>2, <2>4, RowsStay DEF In, Changes
    <2>6. QED
      BY <2>4, <2>5 DEF In
  <1>4. CASE 14 < pc
    <2>1. lists'[owned] = lists[owned]
      <3>1. owned \in DOMAIN Maker /\ Maker[owned] = 14
        BY DEF Maker
      <3>2. QED
        BY <1>1, <1>4, <3>1, MadeStays
    <2>2. PICK a \in In({"sphereAccess"}) : s.id \in Value(a, "sphereId")
      BY <1>1, <1>2, <1>4, <2>1 DEF OwnersStay, Done, In
    <2>3. a \in stored'
      <3>1. CASE pc = 21
        <4>1. 21 \in DOMAIN Queries /\ Queries[21].from = {"sphereIds"}
              /\ Queries[21].does = "delete" /\ Queries[21].field = "sphereId"
          BY SphereAccessIs DEF Delete
        <4>2. Maker["sphereIds"] \in Steps
          BY <3>1, <4>1, QueryIs, MakerIsStep DEF Changes
        <4>3. 20 \in Steps /\ 20 < pc
          BY <3>1, <4>2 DEF Maker
        <4>4. /\ Queries[20].does = "find" /\ "sphereIds" \in DOMAIN Queries[20].reads
              /\ Queries[20].reads["sphereIds"] = "id" /\ Queries[20].tables = {"sphere"}
          BY FindsAre DEF Find
        <4>5. s \in In({"sphere"}) \ fresh \/ s \in fresh
          BY <1>2 DEF In
        <4>6. s.id \in lists["sphereIds"] \/ s \in fresh
          BY <4>3, <4>4, <4>5 DEF RunInv, ReadsHold, Done, Value
        <4>7. s \notin fresh
          BY DEF NobodyElse
        <4>8. a \notin Deleted(Queries[pc])
          BY <2>2, <3>1, <4>1, <4>6, <4>7 DEF Deleted, Matches
        <4>9. QED
          BY <2>2, <4>8, QueryIs DEF In
      <3>2. CASE pc # 21
        <4>1. ~Changes(Queries[pc]) \/ "sphereAccess" \notin Queries[pc].tables
          <5>1. pc \notin {13, 21}
            BY <1>4, <3>2
          <5>2. QED
            BY <5>1, QueryIs, Settles
        <4>2. QED
          BY <2>2, <4>1, RowsStay DEF In
      <3>3. QED
        BY <3>1, <3>2
    <2>4. QED
      BY <2>2, <2>3 DEF In
  <1>5. QED
    BY <1>1, <1>3, <1>4

\* ... and after a quiet run the spheres that are named.
LEMMA QueryKeepsSpheres ==
    ASSUME RunInv, AccessKnown, SpheresKnown, Query
    PROVE  SpheresKnown'
  <1> DEFINE owned == "spheresWithOwnerIds"
  <1> SUFFICES ASSUME Quiet, quiet \in {1, 2}, Done(14)', NEW v \in lists'[owned]
               PROVE  \E s \in In({"sphere"})' : s.id = v
    BY QueryIs DEF SpheresKnown, Quiet
  <1>1. 14 \in Steps /\ (14 = pc \/ 14 < pc)
    BY QueryIs DEF Done
  <1>2. CASE 14 = pc
    <2>1. Queries[pc] = Find("sphereAccess", [spheresWithOwnerIds |-> "sphereId"])
      BY <1>2, FindsAre
    <2>2. /\ Queries[pc].does = "find" /\ owned \in DOMAIN Queries[pc].reads
          /\ Queries[pc].reads[owned] = "sphereId" /\ Queries[pc].tables = {"sphereAccess"}
      BY <2>1 DEF Find
    <2>3. lists'[owned] = UNION {Value(a, "sphereId") : a \in In({"sphereAccess"})}
      <3>1. lists'[owned] = UNION {Value(a, Queries[pc].reads[owned]) : a \in In(Queries[pc].tables)}
        <4>1. pc \in Steps /\ lists' = ListsAfter(Queries[pc])
          BY QueryIs
        <4>2. QED
          BY <2>2, <4>1, FoundLists
      <3>2. QED
        BY <2>2, <3>1
    <2>4. PICK a \in In({"sphereAccess"}) : v \in Value(a, "sphereId")
      BY <2>3
    <2>5. PICK s \in In({"sphere"}) : s.id \in Value(a, "sphereId")
      BY DEF AccessKnown
    <2>6. s.id = v
      BY <2>4, <2>5 DEF Value
    <2>7. s \in stored'
      BY <2>2, <2>5, RowsStay DEF In, Changes
    <2>8. QED
      BY <2>5, <2>6, <2>7 DEF In
  <1>3. CASE 14 < pc
    <2>1. lists'[owned] = lists[owned]
      <3>1. owned \in DOMAIN Maker /\ Maker[owned] = 14
        BY DEF Maker
      <3>2. QED
        BY <1>1, <1>3, <3>1, MadeStays
    <2>2. PICK s \in In({"sphere"}) : s.id = v
      BY <1>1, <1>3, <2>1 DEF SpheresKnown, Done
    <2>3. s \in stored'
      <3>1. CASE pc = 15
        <4>1. Queries[pc] = Delete({"sphere"}, "id", {owned})
          BY <3>1, CopiesAre
        <4>2. s \notin Deleted(Queries[pc])
          BY <2>1, <2>2, <4>1 DEF Deleted, Delete, Matches, Value
        <4>3. QED
          BY <2>2, <4>2, QueryIs DEF In
      <3>2. CASE pc # 15
        <4>1. ~Changes(Queries[pc]) \/ "sphere" \notin Queries[pc].tables
          BY <3>2, QueryIs, Settles
        <4>2. QED
          BY <2>2, <4>1, RowsStay DEF In
      <3>3. QED
        BY <3>1, <3>2
    <2>4. QED
      BY <2>2, <2>3 DEF In
  <1>4. QED
    BY <1>1, <1>2, <1>3

\* A quiet run deletes nothing but orphans and copies, and after two no row.
LEMMA QueryKeepsKnown ==
    ASSUME RunInv, NobodyElse, AccessKnown, OnceUnique, TwiceClean, Query
    PROVE  AccessKnown' /\ OnceUnique' /\ TwiceClean'
  <1>0. stored' \subseteq stored /\ quiet' = quiet
    BY QueryIs
  <1>1. OnceUnique'
    BY <1>0 DEF OnceUnique
  <1>2. ASSUME quiet \in {1, 2}, NEW r \in stored \ stored'
        PROVE  Orphan(r)
    <2>1. Orphan(r) \/ Copied(r) \/ Raced(r)
      BY QueryTakesOrphans
    <2>2. ~Copied(r)
      BY <1>0, <1>2 DEF Copied, OnceUnique
    <2>3. ~Raced(r)
      <3>1. pc # 0
        BY QueryIs
      <3>2. fresh = {} /\ gone = {}
        BY <1>2, <3>1 DEF NobodyElse, Quiet
      <3>3. QED
        BY <3>2 DEF Raced
    <2>4. QED
      BY <2>1, <2>2, <2>3
  <1>3. AccessKnown'
    <2> SUFFICES ASSUME quiet \in {1, 2}, NEW a \in In({"sphereAccess"})'
                 PROVE  \E s \in In({"sphere"})' : s.id \in Value(a, "sphereId")
      BY <1>0 DEF AccessKnown
    <2>1. a \in In({"sphereAccess"})
      BY <1>0 DEF In
    <2>2. PICK s \in In({"sphere"}) : s.id \in Value(a, "sphereId")
      BY <2>1 DEF AccessKnown
    <2>3. ~Orphan(s)
      <3>1. s.table = "sphere" /\ a.table = "sphereAccess" /\ a \in stored
        BY <2>1, <2>2 DEF In
      <3>2. Parents(s) = {}
        BY <3>1 DEF Parents, Belonging, OfSphere, OfStone, OfDevice
      <3>3. Names(a, s)
        <4>1. NameOf(s) = {s.id}
          BY <3>1 DEF NameOf, Value
        <4>2. NamedBy[s.table] = {<<"sphereAccess", "sphereId">>}
          BY <3>1 DEF NamedBy
        <4>3. Value(a, "sphereId") \cap NameOf(s) # {}
          BY <2>2, <4>1
        <4>4. QED
          BY <3>1, <4>2, <4>3 DEF Names
      <3>4. QED
        BY <3>1, <3>2, <3>3 DEF Orphan
    <2>4. s \in stored'
      BY <1>2, <2>2, <2>3 DEF In
    <2>5. QED
      BY <2>2, <2>4 DEF In
  <1>4. TwiceClean'
    <2> SUFFICES ASSUME quiet = 2
                 PROVE  \A r \in stored' : ~Orphan(r)'
      BY <1>0 DEF TwiceClean
    <2>1. stored' = stored
      BY <1>0, <1>2 DEF TwiceClean
    <2>2. QED
      BY <2>1 DEF TwiceClean, Orphan, Has
  <1>5. QED
    BY <1>1, <1>3, <1>4

-----------------------------------------------------------------------------
(* The end of a quiet run.                                                 *)

\* What a run checked and that is still there has a value in the list it was checked with.
LEMMA CheckedHas ==
    ASSUME RunInv, pc = End, fresh = {}, NEW r \in stored, NEW k \in Steps, NEW field, Checks(k, r.table, field)
    PROVE  \E l \in Queries[k].from :
              /\ Value(r, field) \cap lists[l] # {}
              /\ l \in DOMAIN Maker /\ Maker[l] \in Steps /\ Maker[l] < pc
  <1>1. Queries[k].does = "delete" /\ r.table \in Queries[k].tables /\ Queries[k].field = field
    BY DEF Checks
  <1>2. k \in 1..52 /\ pc = 53 /\ \A i \in Steps : i \in 1..52
    BY StepsAre
  <1>3. Done(k) /\ Changes(Queries[k])
    BY <1>1, <1>2 DEF Done, Changes
  <1>4. r \notin Deleted(Queries[k])
    BY <1>3 DEF RunInv, NothingLeft
  <1>5. PICK l \in Queries[k].from : Value(r, field) \cap lists[l] # {}
    BY <1>1, <1>4 DEF Deleted, Matches, In
  <1>6. l \in DOMAIN Maker /\ Maker[l] \in Steps
    BY <1>3, MakerIsStep
  <1>7. Maker[l] < pc
    <2> DEFINE maker == Maker[l]
    <2>1. maker \in 1..52
      BY <1>2, <1>6
    <2> HIDE DEF maker
    <2>2. maker < pc
      BY <1>2, <2>1
    <2>3. QED
      BY <2>2 DEF maker
  <1>8. QED
    BY <1>5, <1>6, <1>7

\* After a quiet run no two copies are left, ...
LEMMA ReturnUnique ==
    ASSUME RunInv, pc = End, fresh = {}
    PROVE  \A r, other \in stored : ~Copies(r, other)
  <1> SUFFICES ASSUME NEW r \in stored, NEW other \in stored, Copies(r, other)
               PROVE  FALSE
    OBVIOUS
  <1>0. r \in Rows /\ other.table = r.table /\ r.table \in {"stoneAbility", "stoneAbilityProperty"}
    BY DEF Copies, RunInv, Typed
  <1>1. pc = 53 /\ DOMAIN Queries = 1..52
    BY StepsAre, QueriesAre
  <1>2. CASE r.table = "stoneAbility"
    <2>1. Queries[31] = DeleteListed("stoneAbility", "abilitiesToDelete")
      BY CopiesAre
    <2>2. 31 \in Steps
      BY <1>0, <1>1, <1>2, <2>1, DeletionIsStep DEF Changes, DeleteListed
    <2>3. Maker["abilitiesToDelete"] \in Steps
      BY <2>1, <2>2, MakerIsStep DEF Changes, DeleteListed
    <2>4. 30 \in Steps
      BY <2>3 DEF Maker
    <2>5. Queries[30].does = "duplicates" /\ Queries[30].tables = {"stoneAbility"}
      BY CopiesAre DEF Duplicates
    <2>6. 30 + 1 < pc
      BY <1>1
    <2>7. r \in In(Queries[30].tables) \ fresh /\ other \in In(Queries[30].tables) \ fresh
      BY <1>0, <1>2, <2>5 DEF In
    <2>8. QED
      BY <2>4, <2>5, <2>6, <2>7 DEF RunInv, NoCopies
  <1>3. CASE r.table = "stoneAbilityProperty"
    <2>1. Queries[34] = DeleteListed("stoneAbilityProperty", "abilitiesPropertiesToDelete")
      BY CopiesAre
    <2>2. 34 \in Steps
      BY <1>0, <1>1, <1>3, <2>1, DeletionIsStep DEF Changes, DeleteListed
    <2>3. Maker["abilitiesPropertiesToDelete"] \in Steps
      BY <2>1, <2>2, MakerIsStep DEF Changes, DeleteListed
    <2>4. 33 \in Steps
      BY <2>3 DEF Maker
    <2>5. Queries[33].does = "duplicates" /\ Queries[33].tables = {"stoneAbilityProperty"}
      BY CopiesAre DEF Duplicates
    <2>6. 33 + 1 < pc
      BY <1>1
    <2>7. r \in In(Queries[33].tables) \ fresh /\ other \in In(Queries[33].tables) \ fresh
      BY <1>0, <1>3, <2>5 DEF In
    <2>8. QED
      BY <2>4, <2>5, <2>6, <2>7 DEF RunInv, NoCopies
  <1>4. QED
    BY <1>0, <1>2, <1>3

\* ... no access to a sphere that is gone, ...
LEMMA ReturnKnown ==
    ASSUME RunInv, Quiet, ListsHold, pc = End, fresh = {}, NEW a \in In({"sphereAccess"})
    PROVE  \E s \in In({"sphere"}) : s.id \in Value(a, "sphereId")
  <1>1. a \in stored /\ a \in Rows /\ a.table = "sphereAccess"
    BY DEF In, RunInv, Typed
  <1>2. 21 \in Steps /\ Checks(21, a.table, "sphereId") /\ Queries[21].from = {"sphereIds"}
    <2>1. /\ 21 \in DOMAIN Queries /\ Queries[21].does = "delete" /\ Queries[21].field = "sphereId"
          /\ Queries[21].from = {"sphereIds"} /\ a.table \in Queries[21].tables
      BY <1>1, SphereAccessIs DEF Delete
    <2>2. QED
      BY <1>1, <2>1, DeletionIsStep DEF Checks, Changes
  <1>3. /\ Value(a, "sphereId") \cap lists["sphereIds"] # {}
        /\ Maker["sphereIds"] \in Steps /\ Maker["sphereIds"] < pc
    BY <1>1, <1>2, CheckedHas
  <1>4. /\ "sphereIds" \in DOMAIN Source \ {"spheresWithOwnerIds"}
        /\ Source["sphereIds"][1] = "sphere" /\ Source["sphereIds"][2] = "id"
    BY DEF Source
  <1>5. PICK v \in lists["sphereIds"] : v \in Value(a, "sphereId")
    BY <1>3
  <1>6. PICK s \in stored : s.table = "sphere" /\ v \in Value(s, "id")
    BY <1>3, <1>4, <1>5 DEF ListsHold
  <1>7. s.id = v
    BY <1>6 DEF Value
  <1>8. QED
    BY <1>5, <1>6, <1>7 DEF In

\* ... and what belongs to a row still does, ...
LEMMA ReturnHas ==
    ASSUME RunInv, Quiet, ListsHold, KeptStay, SpheresKnown, quiet \in {1, 2}, pc = End, fresh = {},
           NEW r \in stored, NEW field \in Parents(r)
    PROVE  Has(r, field)
  <1>1. r \in Rows /\ field \in DOMAIN Belonging /\ field # "id"
    BY DEF RunInv, Typed, Parents, Belonging
  <1>2. PICK k \in Steps : Checks(k, r.table, field)
    BY <1>1, Checked
  <1> DEFINE q == Queries[k]
  <1>3. q.does = "delete" /\ r.table \in q.tables /\ q.field = field /\ k \in DOMAIN Queries
    BY <1>2 DEF Checks
  <1>4. ForWantOfParent(q, k, r)
    <2>1. ForWantOfName(q, r) \/ ForWantOfParent(q, k, r)
      BY <1>1, <1>3, QueriesPlaced DEF Grounded
    <2>2. ~ForWantOfName(q, r)
      BY <1>1, <1>3 DEF ForWantOfName, Belonging
    <2>3. QED
      BY <2>1, <2>2
  <1>5. PICK l \in q.from : /\ Value(r, field) \cap lists[l] # {}
                            /\ l \in DOMAIN Maker /\ Maker[l] \in Steps /\ Maker[l] < pc
    BY <1>2, CheckedHas
  <1>6. PICK v \in lists[l] : v \in Value(r, field)
    BY <1>5
  <1>7. SUFFICES \E p \in stored : p.table = Parent(r, field) /\ p.id = v
    BY <1>6 DEF Has, IsParent
  <1> HIDE DEF q
  <1>8. CASE \E m \in DOMAIN Source : q.from = {m} /\ Source[m] = <<Parent(r, field), "id">>
    <2>1. l \in DOMAIN Source /\ Source[l] = <<Parent(r, field), "id">>
      BY <1>5, <1>8
    <2>2. Source["spheresWithOwnerIds"][2] # "id" /\ Source[l][1] = Parent(r, field) /\ Source[l][2] = "id"
      BY <2>1 DEF Source
    <2>3. l # "spheresWithOwnerIds"
      BY <2>2
    <2>4. PICK p \in stored : p.table = Parent(r, field) /\ v \in Value(p, "id")
      BY <1>5, <1>6, <2>1, <2>2, <2>3 DEF ListsHold
    <2>5. QED
      BY <2>4 DEF Value
  <1>9. CASE Parent(r, field) = "sphere" /\ q.from = {"spheresWithOwnerIds"}
    <2>1. l = "spheresWithOwnerIds"
      BY <1>5, <1>9
    <2>2. Done(14)
      BY <1>5, <2>1 DEF Maker, Done
    <2>3. QED
      BY <1>6, <1>9, <2>1, <2>2 DEF SpheresKnown, In
  <1>10. CASE Parent(r, field) = "stoneAbility" /\ q.from = {"abilitiesToKeep"}
    <2>1. l = "abilitiesToKeep"
      BY <1>5, <1>10
    <2>2. Done(30)
      BY <1>5, <2>1 DEF Maker, Done
    <2>3. QED
      BY <1>6, <1>10, <2>1, <2>2 DEF KeptStay
  <1>11. QED
    BY <1>3, <1>4, <1>8, <1>9, <1>10 DEF ForWantOfParent, q

\* ... as does what is named.
LEMMA ReturnNamed ==
    ASSUME RunInv, Quiet, ListsHold, OwnersStay, pc = End, fresh = {},
           NEW r \in stored, r.table \in DOMAIN NamedBy
    PROVE  \E n \in stored : Names(n, r)
  <1> DEFINE field == IF r.table = "fsChunks" THEN "files_id" ELSE "id"
  <1>1. r \in Rows
    BY DEF RunInv, Typed
  <1>2. PICK k \in Steps : Checks(k, r.table, field)
    BY <1>1, Checked
  <1> DEFINE q == Queries[k]
  <1>3. q.does = "delete" /\ r.table \in q.tables /\ q.field = field /\ k \in DOMAIN Queries
    BY <1>2 DEF Checks
  <1>4. ForWantOfName(q, r)
    <2>1. ForWantOfName(q, r) \/ ForWantOfParent(q, k, r)
      BY <1>1, <1>3, QueriesPlaced DEF Grounded
    <2>2. ~ForWantOfParent(q, k, r)
      BY <1>3 DEF ForWantOfParent, Belonging
    <2>3. QED
      BY <2>1, <2>2
  <1>5. PICK l \in q.from : /\ Value(r, field) \cap lists[l] # {}
                            /\ l \in DOMAIN Maker /\ Maker[l] \in Steps /\ Maker[l] < pc
    BY <1>2, CheckedHas
  <1>6. PICK v \in lists[l] : v \in Value(r, field)
    BY <1>5
  <1>7. l \in DOMAIN Source /\ Source[l] \in NamedBy[r.table]
    BY <1>4, <1>5 DEF ForWantOfName
  <1>8. NameOf(r) = Value(r, field)
    BY DEF NameOf
  <1>9. SUFFICES \E n \in stored : n.table = Source[l][1] /\ v \in Value(n, Source[l][2])
    BY <1>6, <1>7, <1>8 DEF Names
  <1>10. CASE l # "spheresWithOwnerIds"
    BY <1>5, <1>6, <1>7, <1>10 DEF ListsHold
  <1>11. CASE l = "spheresWithOwnerIds"
    <2>1. Source[l] = <<"sphereAccess", "sphereId">>
      BY <1>11 DEF Source
    <2>2. r.table = "sphere"
      BY <1>7, <2>1 DEF NamedBy, Images
    <2>3. v = r.id
      BY <1>6, <2>2 DEF Value
    <2>4. Done(14)
      BY <1>5, <1>11 DEF Maker, Done
    <2>5. \E a \in In({"sphereAccess"}) : v \in Value(a, "sphereId")
      BY <1>6, <1>11, <2>2, <2>3, <2>4 DEF OwnersStay, In
    <2>6. QED
      BY <2>1, <2>5 DEF In
  <1>12. QED
    BY <1>10, <1>11

-----------------------------------------------------------------------------
(* The invariant.                                                          *)

\* Others are at work, or no run is going on: nothing is said of a quiet run.
LEMMA NotQuiet ==
    ASSUME NobodyElse', ~(Quiet')
    PROVE  ListsHold' /\ KeptStay' /\ OwnersStay' /\ SpheresKnown'
  BY DEF ListsHold, KeptStay, OwnersStay, SpheresKnown

\* At first no run has been made.
LEMMA InitQuietInv == Init => QuietInv
  BY DEF Init, QuietInv, NobodyElse, Quiet, ListsHold, KeptStay, OwnersStay, OnceUnique, AccessKnown,
         SpheresKnown, TwiceClean

\* A run begins.
LEMMA SanitizeQuiet ==
    ASSUME QuietInv, sanitize
    PROVE  QuietInv'
  <1>1. /\ stored' = stored /\ fresh' = {} /\ gone' = {} /\ quiet' = quiet /\ pc' = NextStep(0)
    BY DEF sanitize
  <1>2. \A i \in Steps : ~(i < pc') /\ ~(Done(i)')
    <2>1. ASSUME NEW i \in Steps PROVE ~(i < pc')
      <3>1. i >= pc'
        BY <1>1, FirstStep
      <3>2. NextStep(0) \in Steps \cup {End}
        BY NextStepIs
      <3>3. pc' \in Steps \cup {End}
        BY <1>1, <3>2
      <3>4. i \in 1..52 /\ pc' \in 1..53
        BY <3>3, StepsAre
      <3>5. QED
        BY <3>1, <3>4
    <2>2. QED
      BY <2>1 DEF Done
  <1>3. NobodyElse'
    BY <1>1 DEF QuietInv, NobodyElse
  <1>4. ListsHold' /\ KeptStay' /\ OwnersStay' /\ SpheresKnown'
    BY <1>2 DEF ListsHold, KeptStay, OwnersStay, SpheresKnown, Done
  <1>5. OnceUnique' /\ AccessKnown' /\ TwiceClean'
    BY <1>1 DEF QuietInv, OnceUnique, AccessKnown, TwiceClean, In, Orphan, Has
  <1>6. QED
    BY <1>3, <1>4, <1>5 DEF QuietInv

\* A query is made.
LEMMA QueryQuiet ==
    ASSUME RunInv, QuietInv, Query
    PROVE  QuietInv'
  <1>1. NobodyElse'
    <2>1. pc # 0
      BY QueryIs
    <2>2. QED
      BY <2>1, QueryIs DEF QuietInv, NobodyElse, Quiet
  <1>2. ListsHold' /\ KeptStay'
    BY QueryHolds, QueryKeepsKept DEF QuietInv
  <1>3. OwnersStay' /\ SpheresKnown'
    BY QueryKeepsOwners, QueryKeepsSpheres DEF QuietInv
  <1>4. OnceUnique' /\ AccessKnown' /\ TwiceClean'
    BY QueryKeepsKnown DEF QuietInv
  <1>5. QED
    BY <1>1, <1>2, <1>3, <1>4 DEF QuietInv

\* A run ends: if nobody did anything, it was worth something.
LEMMA ReturnQuiet ==
    ASSUME RunInv, QuietInv, Return
    PROVE  QuietInv'
  <1> USE DEF QuietInv
  <1>1. pc = End /\ pc' = 0 /\ quiet' = (IF quiet = 2 THEN 2 ELSE quiet + 1) /\ stored' = stored
    BY DEF Return
  <1>2. pc # 0
    BY <1>1, StepsAre
  <1>3. quiet \in -1..2 /\ quiet' \in 0..2
    BY <1>1 DEF NobodyElse
  <1>4. NobodyElse' /\ ~(Quiet')
    BY <1>1, <1>3 DEF NobodyElse, Quiet
  <1>5. ASSUME quiet' \in {1, 2}
        PROVE  Quiet /\ fresh = {}
    BY <1>1, <1>2, <1>3, <1>5 DEF NobodyElse, Quiet
  <1>6. OnceUnique' /\ AccessKnown'
    BY <1>1, <1>5, ReturnUnique, ReturnKnown DEF OnceUnique, AccessKnown, In
  <1>7. TwiceClean'
    <2> SUFFICES ASSUME quiet' = 2, NEW r \in stored
                 PROVE  ~Orphan(r)
      BY <1>1 DEF TwiceClean, Orphan, Has
    <2>1. Quiet /\ fresh = {} /\ quiet \in {1, 2}
      BY <1>1, <1>3, <1>5
    <2>2. \A field \in Parents(r) : Has(r, field)
      BY <1>1, <2>1, ReturnHas
    <2>3. r.table \in DOMAIN NamedBy => \E n \in stored : Names(n, r)
      BY <1>1, <2>1, ReturnNamed
    <2>4. QED
      BY <2>2, <2>3 DEF Orphan
  <1>8. QED
    BY <1>4, <1>6, <1>7, NotQuiet

\* Every step keeps what is said of quiet runs; one of somebody else ends the quiet.
LEMMA NextQuietInv == RunInv /\ QuietInv /\ [Next]_vars => QuietInv'
  <1> SUFFICES ASSUME RunInv, QuietInv, [Next]_vars PROVE QuietInv'
    OBVIOUS
  <1>1. CASE UNCHANGED vars
    <2>1. stored' = stored /\ pc' = pc /\ lists' = lists /\ fresh' = fresh /\ gone' = gone /\ quiet' = quiet
      BY <1>1 DEF vars
    <2>2. QED
      BY <2>1 DEF QuietInv, NobodyElse, Quiet, ListsHold, KeptStay, OwnersStay, OnceUnique, AccessKnown,
                  SpheresKnown, TwiceClean, In, Done, Orphan, Has
  <1>2. CASE Interrupt \/ \E r \in Rows : Announce(r) \/ Insert(r) \/ DeleteElsewhere(r)
    <2>1. quiet' \in {-1, 0} /\ (pc' # 0 => quiet' = -1)
      BY <1>2 DEF Interrupt, Announce, Insert, DeleteElsewhere, Other
    <2>2. NobodyElse' /\ ~(Quiet')
      BY <2>1 DEF NobodyElse, Quiet
    <2>3. OnceUnique' /\ AccessKnown' /\ TwiceClean'
      BY <2>1 DEF OnceUnique, AccessKnown, TwiceClean
    <2>4. QED
      BY <2>2, <2>3, NotQuiet DEF QuietInv
  <1>3. QED
    BY <1>1, <1>2, SanitizeQuiet, QueryQuiet, ReturnQuiet DEF Next

\* Both parts together hold in every state.
LEMMA Quieted == Spec => [](RunInv /\ QuietInv)
  <1>1. Init => RunInv /\ QuietInv
    BY InitRunInv, InitQuietInv
  <1>2. RunInv /\ QuietInv /\ [Next]_vars => (RunInv /\ QuietInv)'
    BY NextRunInv, NextQuietInv
  <1>3. QED
    BY <1>1, <1>2, PTL DEF Spec

\* After two runs during and after which nobody did anything, no row is left whose parent is
\* gone or that nothing names, whatever was in the database before and however earlier runs ended:
\* what the comment at the end of the class lists has been deleted.
THEOREM RunTwiceClean == Spec => []TwoRunsClean
  <1>1. RunInv /\ QuietInv => TwoRunsClean
    BY DEF QuietInv, TwiceClean, TwoRunsClean
  <1>2. QED
    BY <1>1, Quieted, PTL

\* After one quiet run no two abilities of a stone, and no two properties of an ability, have
\* the same type: the properties of abilities that were copies have gone with them.
THEOREM RunOnceUnique == Spec => []OneRunUnique
  <1>1. RunInv /\ QuietInv => OneRunUnique
    BY DEF QuietInv, OnceUnique, OneRunUnique
  <1>2. QED
    BY <1>1, Quieted, PTL
=============================================================================
