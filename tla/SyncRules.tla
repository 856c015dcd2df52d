------------------------------ MODULE SyncRules ------------------------------
(***************************************************************************)
(* The rules one collection of a sphere is synchronised by: which role may *)
(* create or edit an item of it, what a second create of the same thing    *)
(* does, whether the REPLY call reads it, and the status an item is        *)
(* answered with.  They are pure operators, shared by the specification of *)
(* the protocol and by its proofs.                                         *)
(*                                                                         *)
(* A version of an item is its updatedAt, a natural number; Gone, zero, is *)
(* "there is no such item".                                                *)
(***************************************************************************)
EXTENDS Naturals

\* The collections of a sphere: field names of the sync request.
Categories == {"locations", "messages", "fingerprints", "scenes", "toons",
               "stones", "hubs", "behaviours", "abilities", "properties",
               "readBy", "deletedBy"}

Roles == {"admin", "member", "guest", "hub"}

Gone == 0

-----------------------------------------------------------------------------
(* The permission tables at the head of every syncer.                      *)

\* Children of a stone or a message, which a hub may write as well.
HubWritten == {"behaviours", "properties", "readBy", "deletedBy"}

writePermissions(category) ==
    IF category \in {"hubs", "stones"} THEN {"admin"}
    ELSE IF category \in HubWritten THEN {"admin", "member", "hub"}
    ELSE {"admin", "member"}

editPermissions(category) ==
    IF category = "hubs" THEN {"admin"}
    ELSE IF category \in HubWritten THEN {"admin", "member", "hub"}
    ELSE {"admin", "member"}

\* What the repository's create does with a second item of the same kind under
\* the same parent: it throws with the existing item as the alternative, it
\* returns the existing item, or it inserts another one.
OnDuplicate(category) ==
    IF category \in {"abilities", "properties"} THEN "throws"
    ELSE IF category \in {"readBy", "deletedBy"} THEN "returns"
    ELSE "inserts"

\* The collections handleReplySync hands to a syncer; messages, with their
\* children, and fingerprints are not among them.
TakenInReply(category) == category \notin {"messages", "fingerprints", "readBy", "deletedBy"}

-----------------------------------------------------------------------------
(* The status of an item the client listed in its request.                 *)

SyncStates == {"NOT_AVAILABLE", "IN_SYNC", "NEW_DATA_AVAILABLE", "REQUEST_DATA",
               "CREATED_IN_CLOUD", "UPDATED_IN_CLOUD", "ALREADY_IN_CLOUD",
               "ACCESS_DENIED", "ERROR"}

\* Mutant: the two directions are swapped.
getReplySwapped(request, cloudTime) ==
    IF request = cloudTime THEN "IN_SYNC"
    ELSE IF request > cloudTime THEN "NEW_DATA_AVAILABLE"
    ELSE "REQUEST_DATA"

\* Mutant: newer data of the client is taken for the same data.
getReplyOneWay(request, cloudTime) ==
    IF request >= cloudTime THEN "IN_SYNC" ELSE "NEW_DATA_AVAILABLE"

\* Mutant: the name SYNCING.md has for this status, which no client handles.
getReplyRenamed(request, cloudTime) ==
    IF request = cloudTime THEN "IN_SYNC"
    ELSE IF request < cloudTime THEN "NEWER_DATA_AVAILABLE"
    ELSE "REQUEST_DATA"

getReplyBasedOnTime(request, cloudTime) ==
    IF request = cloudTime THEN "IN_SYNC"
    ELSE IF request < cloudTime THEN "NEW_DATA_AVAILABLE"
    ELSE "REQUEST_DATA"

getReply(request, cloudTime) ==
    IF cloudTime = Gone THEN "NOT_AVAILABLE"
    ELSE IF request = Gone THEN "NEW_DATA_AVAILABLE"
    ELSE getReplyBasedOnTime(request, cloudTime)

\* Only a role that may edit is asked for its newer data.
StatusFor(category, accessRole, request, cloudTime) ==
    LET status == getReply(request, cloudTime)
    IN  IF status = "REQUEST_DATA" /\ accessRole \notin editPermissions(category)
        THEN "IN_SYNC" ELSE status

\* These two statuses carry the item, read from the database when the status is
\* decided and not when the ids were listed.
CarriesData(request, cloudTime) ==
    getReply(request, cloudTime) \in {"NEW_DATA_AVAILABLE", "REQUEST_DATA"}
=============================================================================
