------------------------------ MODULE StoneTree ------------------------------
(***************************************************************************)
(* The nested part of the sync: locations, stones, their behaviours and    *)
(* abilities, and the properties of abilities (processSyncCollection and   *)
(* processSyncReply with the callbacks of Sync_Stones and of               *)
(* Sync_Stone_Abilities).  SyncCollection looks at the versions of one     *)
(* collection; here only the tree counts: which rows are made, under which *)
(* ids, and who is answered what.                                          *)
(*                                                                         *)
(* A request is a sequence of items in the order the handlers reach them:  *)
(* categories in the order of handleRequestSync, children after their      *)
(* parent.  The id of the row that a call makes of it is <<call, place>>.  *)
(* Each query is a step; calls of several clients interleave.  After a     *)
(* REQUEST the client sends a REPLY with what it was asked for; both calls *)
(* read the role of their user, which may change in between.               *)
(***************************************************************************)
EXTENDS Naturals, Sequences, FiniteSets

CONSTANTS Calls,      \* REQUEST calls, each with its REPLY
          Requests,   \* the requests a client may send
          Roles,      \* access roles of the users and hubs that call
          NoRole,     \* of a user or hub that the sphere has removed
          AtFirst,    \* the rows stored at first
          NoId,       \* no parent, no reference
          MaxFaults   \* bound: queries that fail and rows that somebody deletes

Categories == {"locations", "stones", "behaviours", "abilities", "properties"}

\* id: the client's own id of a new item, the id of the row otherwise.
\* above: the place of the parent in the request, 0 for none.  reference: the id of a
\* location, the client's or the cloud's.  newer: the client's version is newer.
ItemFields == {"id", "category", "above", "type", "reference", "new", "newer"}

ASSUME TreeAssumption ==
    /\ IsFiniteSet(Calls) /\ MaxFaults \in Nat
    /\ NoRole \notin {"admin", "member", "guest", "hub"}
    /\ \A r \in Requests :
         /\ r \in Seq({r[i] : i \in DOMAIN r}) /\ r # <<>>
         /\ \A i \in DOMAIN r :
              /\ DOMAIN r[i] = ItemFields /\ r[i].category \in Categories
              /\ r[i].above \in 0..(i - 1)

\* What is nested in what: behaviours and abilities are in a stone, properties in an ability.
ASSUME NestingAssumption ==
    \A r \in Requests : \A i \in DOMAIN r :
        /\ r[i].above = 0 <=> r[i].category \in {"locations", "stones"}
        /\ r[i].category \in {"behaviours", "abilities"} => r[r[i].above].category = "stones"
        /\ r[i].category = "properties" => r[r[i].above].category = "abilities"

FirstIds == {row.id : row \in AtFirst}

\* Only stones refer to something: to a location the cloud has, or to a new one that is in
\* the request, before it.  The rows at first refer to each other.
ASSUME ReferenceAssumption ==
    /\ \A row \in AtFirst : {row.parent, row.reference} \subseteq FirstIds \cup {NoId}
    /\ \A r \in Requests : \A i \in DOMAIN r : r[i].reference # NoId =>
         /\ r[i].category = "stones"
         /\ \/ r[i].reference \in FirstIds
            \/ \E j \in 1..(i - 1) :
                 r[j].category = "locations" /\ r[j].new /\ r[j].id = r[i].reference

VARIABLES
    stored,      \* the rows: [id, category, parent, type, reference]
    request,     \* request[c]: the items of the call
    role,        \* role[c]: the role that the running call has read at its start
    cloud,       \* cloud[c]: the rows the call has read at its start
    at,          \* at[c]: the item the call handles next
    stage,       \* stage[c]: the query c makes next ("asked": the REPLY has not begun)
    status,      \* status[c][i]: what the REQUEST answers to the item
    cloudId,     \* cloudId[c][i]: the id the handlers of its children get
    accepted,    \* accepted[c][i]: what the REPLY answers to the item
    faults,
    failed,      \* history: client ids whose create has failed
    gone         \* history: ids of deleted rows

callVars == <<request, role, cloud, at, stage, status, cloudId, accepted>>
vars == <<stored, callVars, faults, failed, gone>>

Init ==
    /\ stored = AtFirst
    /\ request \in [Calls -> Requests] /\ role \in [Calls -> Roles]
    /\ cloud = [c \in Calls |-> {}]
    /\ at = [c \in Calls |-> 1]
    /\ stage = [c \in Calls |-> "reading"]
    /\ status   = [c \in Calls |-> [i \in DOMAIN request[c] |-> "none"]]
    /\ cloudId  = [c \in Calls |-> [i \in DOMAIN request[c] |-> NoId]]
    /\ accepted = [c \in Calls |-> [i \in DOMAIN request[c] |-> "none"]]
    /\ faults = 0 /\ failed = {} /\ gone = {}

-----------------------------------------------------------------------------
(* Permissions.                                                            *)

\* writePermissions and editPermissions of the syncers.
MayWrite(category) ==
    IF category = "stones" THEN {"admin"}
    ELSE IF category \in {"behaviours", "properties"} THEN {"admin", "member", "hub"}
    ELSE {"admin", "member"}

MayEdit(category) ==
    IF category \in {"behaviours", "properties"} THEN {"admin", "member", "hub"} ELSE {"admin", "member"}

-----------------------------------------------------------------------------
(* The REQUEST.                                                            *)

Item(c) == request[c][at[c]]
\* The id under which the children of the place i are stored.
Under(c, i) == IF i = 0 THEN NoId ELSE cloudId[c][i]

\* The statuses after which syncClientItemCallback is not reached.
Stops == {"ACCESS_DENIED", "NOT_AVAILABLE"}

\* The handlers reach an item when they have reached its parent and gone on from there.
Reached(c, i) ==
    LET p == request[c][i].above
    IN  p # 0 => status[c][p] \notin Stops \cup {"none"}

\* markChildrenAsNew: what is under a new item is new, whatever the client says.
IsNew(c, i) ==
    LET p == request[c][i].above
    IN  \/ request[c][i].new
        \/ p # 0 /\ request[c][p].new
        \/ p # 0 /\ request[c][p].above # 0 /\ request[c][request[c][p].above].new

\* The end of the item: on to the next, or to what the client makes of the answer.
Answer(c, answer, id) ==
    /\ status'  = [status  EXCEPT ![c][at[c]] = answer]
    /\ cloudId' = [cloudId EXCEPT ![c][at[c]] = id]
    /\ IF at[c] = Len(request[c])
       THEN stage' = [stage EXCEPT ![c] = "asked"] /\ at' = [at EXCEPT ![c] = 1]
       ELSE stage' = [stage EXCEPT ![c] = "items"] /\ at' = [at EXCEPT ![c] = @ + 1]

\* The queries at the start of handleRequestSync.
Read(c) ==
    /\ stage[c] = "reading"
    /\ cloud' = [cloud EXCEPT ![c] = stored]
    /\ stage' = [stage EXCEPT ![c] = "items"]
    /\ UNCHANGED <<stored, request, role, at, status, cloudId, accepted, faults, failed, gone>>

\* An item nobody looks at.
PassOver(c) ==
    /\ stage[c] = "items" /\ ~Reached(c, at[c])
    /\ Answer(c, "none", NoId)
    /\ UNCHANGED <<stored, request, role, cloud, accepted, faults, failed, gone>>

Deny(c) ==
    /\ stage[c] = "items" /\ Reached(c, at[c])
    /\ IsNew(c, at[c]) /\ role[c] \notin MayWrite(Item(c).category)
    /\ Answer(c, "ACCESS_DENIED", Item(c).id)
    /\ UNCHANGED <<stored, request, role, cloud, accepted, faults, failed, gone>>

\* An item that isn't new is compared with the row that was read under its parent.
\* (NEW_DATA_AVAILABLE, by which the client gets a newer row, is folded into IN_SYNC:
\* either way it delivers nothing.)
Compare(c) ==
    LET item == Item(c)
        known == \E row \in cloud[c] : /\ row.id = item.id /\ row.category = item.category
                                       /\ row.parent = Under(c, item.above)
    IN  /\ stage[c] = "items" /\ Reached(c, at[c]) /\ ~IsNew(c, at[c])
        /\ Answer(c, IF ~known THEN "NOT_AVAILABLE"
                     ELSE IF item.newer /\ role[c] \in MayEdit(item.category) THEN "REQUEST_DATA"
                     ELSE "IN_SYNC", item.id)
        /\ UNCHANGED <<stored, request, role, cloud, accepted, faults, failed, gone>>

Creatable(c) ==
    /\ stage[c] = "items" /\ Reached(c, at[c])
    /\ IsNew(c, at[c]) /\ role[c] \in MayWrite(Item(c).category)

\* Mutant: of any parent.
AlternativesAnywhere(c) ==
    {row \in stored : /\ row.category = Item(c).category /\ row.category \in {"abilities", "properties"}
                      /\ row.type = Item(c).type}

\* Abilities and properties: there is one of each type under a parent.
Alternatives(c) ==
    {row \in stored : /\ row.category = Item(c).category /\ row.category \in {"abilities", "properties"}
                      /\ row.parent = Under(c, Item(c).above) /\ row.type = Item(c).type}

\* The findOne of _validate: db.create is left with the row that was found, or goes on.
Validate(c) ==
    /\ Creatable(c)
    /\ \/ \E row \in Alternatives(c) : Answer(c, "ALREADY_IN_CLOUD", row.id)
       \/ /\ Alternatives(c) = {}
          /\ stage' = [stage EXCEPT ![c] = "creating"]
          /\ UNCHANGED <<at, status, cloudId>>
    /\ UNCHANGED <<stored, request, role, cloud, accepted, faults, failed, gone>>

\* The creationMap of the call: client ids of what it has made so far.
Mapped(c) == {i \in DOMAIN request[c] : status[c][i] \in {"CREATED_IN_CLOUD", "ALREADY_IN_CLOUD"} /\ IsNew(c, i)}

\* Mutant: the map is filled after all items.
processCreationMapLate(c, id) == id

processCreationMap(c, id) ==
    IF \E i \in Mapped(c) : request[c][i].id = id
    THEN cloudId[c][CHOOSE i \in Mapped(c) : request[c][i].id = id]
    ELSE id

Create(c) ==
    LET id  == <<c, at[c]>>
        row == [id |-> id, category |-> Item(c).category, parent |-> Under(c, Item(c).above),
                type |-> Item(c).type, reference |-> processCreationMap(c, Item(c).reference)]
    IN  /\ stage[c] = "creating"
        /\ stored' = stored \cup {row}
        /\ Answer(c, "CREATED_IN_CLOUD", id)
        /\ UNCHANGED <<request, role, cloud, accepted, faults, failed, gone>>

Fault == faults < MaxFaults /\ faults' = faults + 1

\* The create throws: the callback for the children runs with the client's id.
FailCreate(c) ==
    /\ stage[c] = "creating" /\ Fault
    /\ failed' = failed \cup {Item(c).id}
    /\ Answer(c, "ERROR", Item(c).id)
    /\ UNCHANGED <<stored, request, role, cloud, accepted, gone>>

-----------------------------------------------------------------------------
(* The REPLY: the items that were asked for, and what they are under.      *)

\* The role of a user is changed by others, or he is removed; a hub is only removed.
MayBecome(r) == IF r = "hub" THEN {"hub", NoRole} ELSE (Roles \ {"hub"}) \cup {r, NoRole}

\* handleReplySync reads the roles of the user again.
ReadRole(c) ==
    /\ stage[c] = "asked"
    /\ \E r \in MayBecome(role[c]) : role' = [role EXCEPT ![c] = r]
    /\ stage' = [stage EXCEPT ![c] = "updating"]
    /\ cloud' = [cloud EXCEPT ![c] = {}]
    /\ UNCHANGED <<stored, request, at, status, cloudId, accepted, faults, failed, gone>>

Asked(c, i) == status[c][i] = "REQUEST_DATA"
InReply(c, i) ==
    \/ Asked(c, i)
    \/ \E j \in DOMAIN request[c] : Asked(c, j) /\
            (request[c][j].above = i \/ (request[c][j].above # 0 /\ request[c][request[c][j].above].above = i))

Accept(c, answer) ==
    /\ accepted' = [accepted EXCEPT ![c][at[c]] = answer]
    /\ IF at[c] = Len(request[c])
       THEN stage' = [stage EXCEPT ![c] = "done"] /\ UNCHANGED at
       ELSE at' = [at EXCEPT ![c] = @ + 1] /\ UNCHANGED stage

\* updateClientItemCallback runs after an update and after a failed one.
ReplyReached(c, i) ==
    LET p == request[c][i].above
    IN  InReply(c, i) /\ (p # 0 => accepted[c][p] \in {"UPDATED_IN_CLOUD", "ERROR"})

\* Mutant: as in the REQUEST, those who may not write are refused.
MayUpdateWriters(c) == role[c] \in MayWrite(Item(c).category)

MayUpdate(c) == role[c] \in MayEdit(Item(c).category)

Update(c) ==
    /\ stage[c] = "updating"
    /\ \/ ~ReplyReached(c, at[c]) /\ Accept(c, "none")
       \/ ReplyReached(c, at[c]) /\ ~MayUpdate(c) /\ Accept(c, "ACCESS_DENIED")
       \/ /\ ReplyReached(c, at[c]) /\ MayUpdate(c)
          /\ Accept(c, IF \E row \in stored : row.id = Item(c).id THEN "UPDATED_IN_CLOUD" ELSE "ERROR")
    /\ UNCHANGED <<stored, request, role, cloud, status, cloudId, faults, failed, gone>>

-----------------------------------------------------------------------------
\* Somebody else deletes a row, with or without what is under it.
DeleteElsewhere(row) ==
    /\ row \in stored /\ Fault
    /\ stored' = stored \ {row}
    /\ gone' = gone \cup {row.id}
    /\ UNCHANGED <<callVars, failed>>

Next ==
    \/ \E c \in Calls :
        \/ Read(c) \/ PassOver(c) \/ Deny(c) \/ Compare(c) \/ Validate(c)
        \/ Create(c) \/ FailCreate(c) \/ ReadRole(c) \/ Update(c)
    \/ \E row \in stored : DeleteElsewhere(row)

Spec == Init /\ [][Next]_vars

-----------------------------------------------------------------------------
(* Properties.                                                             *)

Ids == {row.id : row \in stored}
\* An id that leads somewhere, or to what has been deleted, or to a create that failed.
Explained(id) == id \in Ids \cup gone \cup failed \cup {NoId}

\* Nothing is stored under an id, or refers to an id, that is only a client's: the parent
\* and the location of every row have been stored before it.  It goes wrong for what is
\* under, or in, an item whose own create has failed, and for nothing else.
NothingDangles ==
    \A row \in stored : Explained(row.parent) /\ Explained(row.reference)

\* Whatever an item turned out to be - made, found, or found because another client made
\* it a moment before - the row the client is told of has the type of the item and is
\* under the row the client is told of for its parent.
AnsweredTree ==
    \A c \in Calls : \A i \in DOMAIN request[c] :
        status[c][i] \in {"CREATED_IN_CLOUD", "ALREADY_IN_CLOUD"} =>
            \/ cloudId[c][i] \in gone
            \/ \E row \in stored : /\ row.id = cloudId[c][i] /\ row.type = request[c][i].type
                                   /\ row.parent = Under(c, request[c][i].above)

\* What the REQUEST asks a client for, the REPLY takes from it exactly if the client is an
\* admin or a member by then.  So a user who has lost the right to edit in between brings
\* nothing in, one who has kept it is not refused, whatever others have made or deleted in
\* between - and a hub is asked in vain: it may edit behaviours and properties, but the
\* REPLY doesn't get past their stone, which it may not edit.
AskedIsAccepted ==
    \A c \in Calls : stage[c] = "done" =>
        \A i \in DOMAIN request[c] : Asked(c, i) =>
            (accepted[c][i] \in {"UPDATED_IN_CLOUD", "ERROR"} <=> role[c] \in {"admin", "member"})
=============================================================================
