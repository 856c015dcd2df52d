----------------------------- MODULE MCSanitizer -----------------------------
(* A small database for Sanitizer: two users and a hub in two spheres, a    *)
(* stone with two copies of an ability, a fingerprint and a photo.      *)
EXTENDS Sanitizer

Row(table, id, fields) == [table |-> table, id |-> id, fields |-> fields]
None == [x \in {} |-> x]

Database == <<
    Row("user", "anne", [profilePicId |-> "photo"]), Row("user", "bob", None),
    Row("fsFiles", "photo", None), Row("fsChunks", "chunk", [files_id |-> "photo"]),
    Row("sphere", "home", None), Row("sphere", "office", None),
    Row("sphereAccess", "anne_home",   [userId |-> "anne", sphereId |-> "home"]),
    Row("sphereAccess", "bob_home",    [userId |-> "bob",  sphereId |-> "home"]),
    Row("sphereAccess", "anne_office", [userId |-> "anne", sphereId |-> "office"]),
    Row("hub", "hub", [sphereId |-> "home"]),
    Row("hubAccess", "hub_home", [userId |-> "hub", sphereId |-> "home"]),
    Row("stone", "lamp", [sphereId |-> "home"]),
    Row("stoneAbility", "a1", [stoneId |-> "lamp", type |-> "dimming"]),
    Row("stoneAbility", "a2", [stoneId |-> "lamp", type |-> "dimming"]),
    Row("stoneAbilityProperty", "p1", [stoneId |-> "lamp", abilityId |-> "a1", type |-> "speed"]),
    Row("stoneAbilityProperty", "p2", [stoneId |-> "lamp", abilityId |-> "a1", type |-> "speed"]),
    Row("stoneAbilityProperty", "p3", [stoneId |-> "lamp", abilityId |-> "a2", type |-> "speed"]),
    Row("device", "phone", [ownerId |-> "bob"]),
    Row("fingerprintLinker", "link", [deviceId |-> "phone", fingerprintId |-> "print"]),
    Row("fingerprint", "print", None) >>

\* The second copies and the office come later.
AtFirst == {r \in Rows : r.id \notin {"office", "anne_office", "a2", "p2", "p3"}}
Vanishing == {"user", "sphere", "stone", "stoneAbility", "sphereAccess", "hub"}
=============================================================================
