--------------------------- MODULE SyncCollection ---------------------------
(***************************************************************************)
(* The two-call synchronisation of one collection of a sphere (modules/    *)
(* sync): any number of clients, each with a local copy, one database.     *)
(* Which collection it is differs from behaviour to behaviour.             *)
(*                                                                         *)
(* A REQUEST is handled in many steps, each of which awaits the database:  *)
(* the access roles, the list of ids and times of the whole collection,    *)
(* then one item at a time.  Requests of several clients, REPLY calls and  *)
(* writes of the other cloud service interleave between those steps.       *)
(*                                                                         *)
(* The app is not in the repository: what a client does with an answer is  *)
(* what SYNCING.md tells it to do.  A client does not edit while one of    *)
(* its syncs is running, and every write has a timestamp of its own.       *)
(***************************************************************************)
EXTENDS SyncRules, FiniteSets

CONSTANTS Collections,  \* the collections of the sphere that are looked at
          Clients,      \* the devices that sync this collection
          Ids,          \* ids the database can hand out
          Drafts,       \* what can be made on a client; the type of an ability
          NoId,
          Existing,     \* Existing[category]: ids that are in the cloud at the start
          Demotable,    \* Demotable[category]: clients whose role may drop to guest
          InitialRole,  \* the role of each client at the start
          MaxTime,      \* bound: the last timestamp
          MaxFaults     \* MaxFaults[category], a bound: lost answers and crashes of the server

ASSUME SyncAssumption ==
    /\ Collections \subseteq Categories
    /\ NoId \notin Ids \cup Clients
    /\ Existing \in [Collections -> SUBSET Ids]
    /\ Demotable \in [Collections -> SUBSET Clients]
    /\ InitialRole \in [Clients -> Roles]
    /\ MaxTime \in Nat \ {0}
    /\ MaxFaults \in [Collections -> Nat]

VARIABLES
    category,    \* the collection that is synchronised
    clock,       \* the last timestamp given out
    cloud,       \* cloud[i]: updatedAt of the stored item, or Gone
    used,        \* ids ever handed out
    maker,       \* maker[i]: the client and draft an item was made from, if any
    role,        \* role[c]: the sphereAccess role
    local,       \* local[c][i]: updatedAt of the client's copy, or Gone
    draft,       \* draft[c][k]: has c made k, and does it know its cloud id
    stage,       \* stage[c]: how far the sync of c has come
    accessRole,  \* accessRole[c]: the role the running call has read
    snap,        \* snap[c]: the ids and times the REQUEST has listed
    taken,       \* taken[c]: ids removed from that list since
    answer,      \* answer[c][i]: the reply under a cloud id
    answerNew,   \* answerNew[c][k]: the reply under the local id of a draft
    faults,      \* lost answers and crashes so far
    touched,     \* history: ids others wrote since c listed the collection
    unanswered   \* history: some REQUEST of c ended without its answer

cloudVars  == <<category, clock, cloud, used, maker>>
clientVars == <<local, draft>>
callVars   == <<stage, accessRole, snap, taken, answer, answerNew>>
vars == <<category, clock, cloud, used, maker, role, local, draft, stage, accessRole,
          snap, taken, answer, answerNew, faults, touched, unanswered>>

-----------------------------------------------------------------------------
Stages == {"idle", "asked", "answering", "answered", "pushing"}

NoAnswer    == [status |-> "none", time |-> Gone]
NoNewAnswer == [status |-> "none", id |-> NoId, time |-> Gone]

Answers    == [status : SyncStates \cup {"none"}, time : Nat]
NewAnswers == [status : SyncStates \cup {"none", "checked"}, id : Ids \cup {NoId}, time : Nat]

Init ==
    /\ category \in Collections
    /\ clock = 1
    /\ cloud = [i \in Ids |-> IF i \in Existing[category] THEN 1 ELSE Gone]
    /\ used = Existing[category]
    /\ maker = [i \in Ids |-> {}]
    /\ role = InitialRole
    /\ local \in [Clients -> [Ids -> {Gone, 1}]]
    /\ \A c \in Clients, i \in Ids \ Existing[category] : local[c][i] = Gone
    /\ draft = [c \in Clients |-> [k \in Drafts |-> "none"]]
    /\ stage = [c \in Clients |-> "idle"]
    /\ accessRole = InitialRole
    /\ snap = [c \in Clients |-> [i \in Ids |-> Gone]]
    /\ taken = [c \in Clients |-> {}]
    /\ answer = [c \in Clients |-> [i \in Ids |-> NoAnswer]]
    /\ answerNew = [c \in Clients |-> [k \in Drafts |-> NoNewAnswer]]
    /\ faults = 0
    /\ touched = [c \in Clients |-> {}]
    /\ unanswered = [c \in Clients |-> FALSE]

-----------------------------------------------------------------------------
(* Helpers.                                                                *)

\* The calls in progress, other than that of c, did not see this write of i.
TouchedBy(c, i) ==
    [d \in Clients |-> IF d = c \/ stage[d] \in {"idle", "asked"}
                       THEN touched[d] ELSE touched[d] \cup {i}]

\* The call of c is over; nothing of it stays behind in the server.
EndCall(c) ==
    /\ stage' = [stage EXCEPT ![c] = "idle"]
    /\ snap' = [snap EXCEPT ![c] = [i \in Ids |-> Gone]]
    /\ taken' = [taken EXCEPT ![c] = {}]
    /\ answer' = [answer EXCEPT ![c] = [i \in Ids |-> NoAnswer]]
    /\ answerNew' = [answerNew EXCEPT ![c] = [k \in Drafts |-> NoNewAnswer]]
    /\ touched' = [touched EXCEPT ![c] = {}]
    /\ UNCHANGED accessRole

\* cloud_items_in_sphere, as the loop over the request finds it.
Listed(c, i) == IF i \in taken[c] THEN Gone ELSE snap[c][i]

\* Items of the request, by their cloud id and by their local id.
Known(c)     == {i \in Ids : local[c][i] # Gone}
NewInCall(c) == {k \in Drafts : draft[c][k] = "fresh"}

RequestHandled(c) ==
    /\ \A i \in Known(c) : answer[c][i].status # "none"
    /\ \A k \in NewInCall(c) : answerNew[c][k].status \notin {"none", "checked"}

\* Mutant: the second loop is missing.
UnofferedNever(c) == {}

\* Cloud items the second loop still has to offer.
Unoffered(c) ==
    {i \in Ids \ Known(c) : Listed(c, i) # Gone /\ answer[c][i].status = "none"}

\* Mutant: the lookup filters on the wrong field and finds nothing.
OfKindMissed(k) == {}

\* Stored items of the kind k: what findOne of a repository's create looks for.
OfKind(k) == {i \in Ids : cloud[i] # Gone /\ \E c \in Clients : <<c, k>> \in maker[i]}

-----------------------------------------------------------------------------
(* The app and the other writers of the database.                          *)

\* The user changes an item on the device.
LocalEdit(c, i) ==
    /\ stage[c] = "idle" /\ i \in Known(c) /\ clock < MaxTime
    /\ clock' = clock + 1
    /\ local' = [local EXCEPT ![c][i] = clock + 1]
    /\ UNCHANGED <<category, cloud, used, maker, role, draft, callVars, faults, touched, unanswered>>

\* The user makes an item on the device: it has no cloud id yet.
LocalCreate(c, k) ==
    /\ stage[c] = "idle" /\ draft[c][k] = "none"
    /\ draft' = [draft EXCEPT ![c][k] = "fresh"]
    /\ UNCHANGED <<cloudVars, role, local, callVars, faults, touched, unanswered>>

\* The other cloud service works on the same database.
CloudEdit(i) ==
    /\ cloud[i] # Gone /\ clock < MaxTime
    /\ clock' = clock + 1
    /\ cloud' = [cloud EXCEPT ![i] = clock + 1]
    /\ touched' = TouchedBy(NoId, i)
    /\ UNCHANGED <<category, used, maker, role, clientVars, callVars, faults, unanswered>>

CloudDelete(i) ==
    /\ cloud[i] # Gone
    /\ cloud' = [cloud EXCEPT ![i] = Gone]
    /\ touched' = TouchedBy(NoId, i)
    /\ UNCHANGED <<category, clock, used, maker, role, clientVars, callVars, faults, unanswered>>

Demote(c) ==
    /\ c \in Demotable[category] /\ role[c] # "guest"
    /\ role' = [role EXCEPT ![c] = "guest"]
    /\ UNCHANGED <<cloudVars, clientVars, callVars, faults, touched, unanswered>>

-----------------------------------------------------------------------------
(* The REQUEST call.                                                       *)

\* handleRequestSync starts: it reads the role of the user in the sphere.
StartRequest(c) ==
    /\ stage[c] = "idle"
    /\ stage' = [stage EXCEPT ![c] = "asked"]
    /\ accessRole' = [accessRole EXCEPT ![c] = role[c]]
    /\ UNCHANGED <<cloudVars, role, clientVars, snap, taken, answer, answerNew,
                   faults, touched, unanswered>>

\* The ids and times of the whole collection, in one query.
ListCollection(c) ==
    /\ stage[c] = "asked"
    /\ stage' = [stage EXCEPT ![c] = "answering"]
    /\ snap' = [snap EXCEPT ![c] = cloud]
    /\ UNCHANGED <<cloudVars, role, clientVars, accessRole, taken, answer, answerNew,
                   faults, touched, unanswered>>

\* findById throws on an item that is gone since it was listed: the whole
\* request ends in an error, whatever it has created so far.
AbortRequest(c) ==
    /\ EndCall(c)
    /\ unanswered' = [unanswered EXCEPT ![c] = TRUE]
    /\ UNCHANGED <<cloudVars, role, clientVars, faults>>

\* What answering one item of a request leaves alone, whatever the answer.
handling == <<cloudVars, role, clientVars, stage, accessRole, snap, faults,
              touched, unanswered>>

\* The items of one request are handled one after the other: none starts while
\* the create of another is between its two queries.
Handling(c) ==
    /\ stage[c] = "answering"
    /\ \A k \in Drafts : answerNew[c][k].status # "checked"

\* An item of the request that has a cloud id.
AnswerKnown(c, i) ==
    /\ Handling(c) /\ i \in Known(c) /\ answer[c][i].status = "none"
    /\ \/ /\ ~CarriesData(local[c][i], Listed(c, i))
          /\ answer' = [answer EXCEPT ![c][i] =
                [status |-> StatusFor(category, accessRole[c], local[c][i], Listed(c, i)), time |-> Gone]]
          /\ UNCHANGED <<handling, taken, answerNew>>
       \/ /\ CarriesData(local[c][i], Listed(c, i)) /\ cloud[i] # Gone
          /\ answer' = [answer EXCEPT ![c][i] =
                [status |-> StatusFor(category, accessRole[c], local[c][i], Listed(c, i)), time |-> cloud[i]]]
          /\ UNCHANGED <<handling, taken, answerNew>>
       \/ /\ CarriesData(local[c][i], Listed(c, i)) /\ cloud[i] = Gone
          /\ AbortRequest(c)

AnswerDraft(c, k, reply) == answerNew' = [answerNew EXCEPT ![c][k] = reply]

\* An item of the request that is marked new.
MayCreate(c, k) ==
    /\ Handling(c) /\ k \in NewInCall(c) /\ answerNew[c][k].status = "none"

DenyCreate(c, k) ==
    /\ MayCreate(c, k) /\ accessRole[c] \notin writePermissions(category)
    /\ AnswerDraft(c, k, [NoNewAnswer EXCEPT !.status = "ACCESS_DENIED"])
    /\ UNCHANGED <<handling, taken, answer>>

\* create refuses the data: the error is the answer of this item only.
CreateFails(c, k) ==
    /\ MayCreate(c, k) /\ accessRole[c] \in writePermissions(category)
    /\ AnswerDraft(c, k, [NoNewAnswer EXCEPT !.status = "ERROR"])
    /\ UNCHANGED <<handling, taken, answer>>

\* Mutant: an item that already existed stays in the list.
TakenOutNever(c, i) == taken[c]

\* The ids that leave cloud_items_in_sphere when create has returned i.
TakenOut(c, i) == taken[c] \cup {i}

\* A repository that keeps one item per kind looks for it first.
FindExisting(c, k) ==
    /\ MayCreate(c, k) /\ accessRole[c] \in writePermissions(category)
    /\ OnDuplicate(category) # "inserts"
    /\ \/ /\ OfKind(k) = {}
          /\ AnswerDraft(c, k, [NoNewAnswer EXCEPT !.status = "checked"])
          /\ UNCHANGED taken
       \/ \E i \in OfKind(k) :
          /\ OnDuplicate(category) = "throws"
          /\ AnswerDraft(c, k, [status |-> "ALREADY_IN_CLOUD", id |-> i, time |-> cloud[i]])
          /\ UNCHANGED taken
       \/ \E i \in OfKind(k) :
          /\ OnDuplicate(category) = "returns"
          /\ AnswerDraft(c, k, [status |-> "CREATED_IN_CLOUD", id |-> i, time |-> cloud[i]])
          /\ taken' = [taken EXCEPT ![c] = TakenOut(c, i)]
    /\ UNCHANGED <<handling, answer>>

\* create inserts right away, or once it has found no item of the kind.
InsertDue(c, k) ==
    IF OnDuplicate(category) = "inserts" THEN MayCreate(c, k)
    ELSE stage[c] = "answering" /\ answerNew[c][k].status = "checked"

Insert(c, k) ==
    /\ InsertDue(c, k)
    /\ accessRole[c] \in writePermissions(category)
    /\ clock < MaxTime
    /\ \E i \in Ids \ used :
       /\ clock' = clock + 1
       /\ cloud' = [cloud EXCEPT ![i] = clock + 1]
       /\ used' = used \cup {i}
       /\ maker' = [maker EXCEPT ![i] = {<<c, k>>}]
       /\ AnswerDraft(c, k, [status |-> "CREATED_IN_CLOUD", id |-> i, time |-> clock + 1])
       /\ taken' = [taken EXCEPT ![c] = TakenOut(c, i)]
       /\ touched' = TouchedBy(c, i)
    /\ UNCHANGED <<category, role, clientVars, stage, accessRole, snap, answer, faults, unanswered>>

\* The insert itself fails.
InsertFails(c, k) ==
    /\ stage[c] = "answering" /\ answerNew[c][k].status = "checked"
    /\ AnswerDraft(c, k, [NoNewAnswer EXCEPT !.status = "ERROR"])
    /\ UNCHANGED <<handling, taken, answer>>

\* A listed item the client does not know.
OfferUnknown(c, i) ==
    /\ stage[c] = "answering" /\ RequestHandled(c) /\ i \in Unoffered(c)
    /\ \/ /\ cloud[i] # Gone
          /\ answer' = [answer EXCEPT ![c][i] =
                [status |-> "NEW_DATA_AVAILABLE", time |-> cloud[i]]]
          /\ UNCHANGED <<handling, taken, answerNew>>
       \/ /\ cloud[i] = Gone
          /\ AbortRequest(c)

SendAnswer(c) ==
    /\ stage[c] = "answering" /\ RequestHandled(c) /\ Unoffered(c) = {}
    /\ stage' = [stage EXCEPT ![c] = "answered"]
    /\ UNCHANGED <<cloudVars, role, clientVars, accessRole, snap, taken, answer, answerNew,
                   faults, touched, unanswered>>

-----------------------------------------------------------------------------
(* The answer of the REQUEST reaches the client, and the REPLY call.       *)

Requested(c) == {i \in Ids : answer[c][i].status = "REQUEST_DATA"}

\* The client's copies once it has followed the statuses of the answer; what the
\* cloud has asked for stays as it is until it is sent.
Applied(c) ==
    [i \in Ids |->
        IF i \in Requested(c) THEN local[c][i]
        ELSE IF \E k \in Drafts : answerNew[c][k].id = i
        THEN (CHOOSE a \in {answerNew[c][k] : k \in Drafts} : a.id = i).time
        ELSE IF answer[c][i].status = "NEW_DATA_AVAILABLE" THEN answer[c][i].time
        ELSE IF answer[c][i].status = "NOT_AVAILABLE" THEN Gone
        ELSE local[c][i]]

\* The client stores what it got and, when the cloud has asked for data, makes
\* the second call, which reads the role again.
ReceiveAnswer(c) ==
    /\ stage[c] = "answered"
    /\ local' = [local EXCEPT ![c] = Applied(c)]
    /\ draft' = [draft EXCEPT ![c] = [k \in Drafts |->
                    IF answerNew[c][k].id # NoId THEN "synced" ELSE draft[c][k]]]
    /\ \/ /\ Requested(c) = {}
          /\ EndCall(c)
       \/ /\ Requested(c) # {}
          /\ stage' = [stage EXCEPT ![c] = "pushing"]
          /\ accessRole' = [accessRole EXCEPT ![c] = role[c]]
          /\ UNCHANGED <<snap, taken, answer, answerNew, touched>>
    /\ UNCHANGED <<cloudVars, role, faults, unanswered>>

\* Mutant: the REPLY upserts.
PushStatusUpsert(c, i) ==
    IF accessRole[c] \notin editPermissions(category) THEN "ACCESS_DENIED" ELSE "UPDATED_IN_CLOUD"

\* One item of the REPLY: the row is overwritten, times included, whatever it
\* holds by now; a row that is gone is an error, not an insert.
PushStatus(c, i) ==
    IF accessRole[c] \notin editPermissions(category) THEN "ACCESS_DENIED"
    ELSE IF cloud[i] = Gone THEN "ERROR"
    ELSE "UPDATED_IN_CLOUD"

Push(c, i) ==
    /\ stage[c] = "pushing" /\ TakenInReply(category) /\ i \in Requested(c)
    /\ answer' = [answer EXCEPT ![c][i] = [status |-> PushStatus(c, i), time |-> Gone]]
    /\ \/ /\ PushStatus(c, i) = "UPDATED_IN_CLOUD"
          /\ cloud' = [cloud EXCEPT ![i] = local[c][i]]
          /\ touched' = TouchedBy(c, i)
       \/ /\ PushStatus(c, i) # "UPDATED_IN_CLOUD"
          /\ UNCHANGED <<cloud, touched>>
    /\ UNCHANGED <<category, clock, used, maker, role, clientVars, stage, accessRole, snap, taken,
                   answerNew, faults, unanswered>>

FinishReply(c) ==
    /\ stage[c] = "pushing"
    /\ TakenInReply(category) => Requested(c) = {}
    /\ EndCall(c)
    /\ UNCHANGED <<cloudVars, role, clientVars, faults, unanswered>>

-----------------------------------------------------------------------------
(* Failures.                                                               *)

\* The answer is lost on its way: the app does not know what was created.
LoseAnswer(c) ==
    /\ stage[c] = "answered" /\ faults < MaxFaults[category]
    /\ faults' = faults + 1
    /\ unanswered' = [unanswered EXCEPT ![c] = TRUE]
    /\ EndCall(c)
    /\ UNCHANGED <<cloudVars, role, clientVars>>

\* The process restarts: every call in progress ends where it is.
Crash ==
    /\ faults < MaxFaults[category]
    /\ \E c \in Clients : stage[c] # "idle"
    /\ faults' = faults + 1
    /\ unanswered' = [c \in Clients |->
            unanswered[c] \/ stage[c] \in {"asked", "answering", "answered"}]
    /\ stage' = [c \in Clients |-> "idle"]
    /\ snap' = [c \in Clients |-> [i \in Ids |-> Gone]]
    /\ taken' = [c \in Clients |-> {}]
    /\ answer' = [c \in Clients |-> [i \in Ids |-> NoAnswer]]
    /\ answerNew' = [c \in Clients |-> [k \in Drafts |-> NoNewAnswer]]
    /\ touched' = [c \in Clients |-> {}]
    /\ UNCHANGED <<cloudVars, role, clientVars, accessRole>>

-----------------------------------------------------------------------------
UserStep(c) ==
    \/ \E i \in Ids : LocalEdit(c, i)
    \/ \E k \in Drafts : LocalCreate(c, k)
    \/ Demote(c)

\* What a client that syncs, and the server that answers it, do.
SyncStep(c) ==
    \/ StartRequest(c)
    \/ ListCollection(c)
    \/ \E i \in Ids : AnswerKnown(c, i)
    \/ \E k \in Drafts : DenyCreate(c, k)
    \/ \E k \in Drafts : CreateFails(c, k)
    \/ \E k \in Drafts : FindExisting(c, k)
    \/ \E k \in Drafts : Insert(c, k)
    \/ \E k \in Drafts : InsertFails(c, k)
    \/ \E i \in Ids : OfferUnknown(c, i)
    \/ SendAnswer(c)
    \/ ReceiveAnswer(c)
    \/ \E i \in Ids : Push(c, i)
    \/ FinishReply(c)

OtherStep == \E i \in Ids : CloudEdit(i) \/ CloudDelete(i)

Next ==
    \/ \E c \in Clients : UserStep(c)
    \/ \E c \in Clients : SyncStep(c)
    \/ \E c \in Clients : LoseAnswer(c)
    \/ OtherStep
    \/ Crash

Spec == Init /\ [][Next]_vars

\* Clients keep syncing and the server keeps handling their calls; nobody has
\* to edit anything.
FairSpec == Spec /\ \A c \in Clients : WF_vars(SyncStep(c))

-----------------------------------------------------------------------------
(* Properties.                                                             *)

TypeOK ==
    /\ category \in Collections
    /\ clock \in 1..MaxTime
    /\ cloud \in [Ids -> Nat]
    /\ used \in SUBSET Ids
    /\ maker \in [Ids -> SUBSET (Clients \X Drafts)]
    /\ role \in [Clients -> Roles]
    /\ local \in [Clients -> [Ids -> Nat]]
    /\ draft \in [Clients -> [Drafts -> {"none", "fresh", "synced"}]]
    /\ stage \in [Clients -> Stages]
    /\ accessRole \in [Clients -> Roles]
    /\ snap \in [Clients -> [Ids -> Nat]]
    /\ taken \in [Clients -> SUBSET Ids]
    /\ answer \in [Clients -> [Ids -> Answers]]
    /\ answerNew \in [Clients -> [Drafts -> NewAnswers]]
    /\ faults \in Nat
    /\ touched \in [Clients -> SUBSET Ids]
    /\ unanswered \in [Clients -> BOOLEAN]

\* A call of c ends with everything delivered and handled.
Completes(c) ==
    /\ stage[c] \in {"answered", "pushing"} /\ stage'[c] = "idle"
    /\ faults' = faults

\* The copy of a client that may edit agrees with the cloud on every item that nobody
\* else has written in the meantime.
Converges(c) ==
    Completes(c) /\ accessRole[c] \in editPermissions(category)
        => \A i \in Ids \ touched[c] : local'[c][i] = cloud'[i]

\* When the (at most two) calls of a sync are over, what was newer on the device is in
\* the cloud, what was newer there is here, what was made on either side is on both,
\* and what was deleted is on neither: for the collections the REPLY takes.
TwoCallsConverge ==
    [][TakenInReply(category) => \A c \in Clients : Converges(c)]_vars

\* SYNCING.md: "This endpoint will be called a maximum of 2 times per sync", said of
\* all collections.
EveryCollectionConverges ==
    [][\A c \in Clients : Converges(c)]_vars

\* processSyncReply overwrites without comparing times.  All the same, the stored
\* version of an item goes back only when the client that pushes it compared its
\* own with a version that somebody has replaced since.
RollbackOnlyWhenStale ==
    [][\A i \in Ids :
         (cloud'[i] # Gone /\ cloud'[i] < cloud[i])
            => \E c \in Clients : /\ stage[c] = "pushing" /\ i \in Requested(c)
                                  /\ snap[c][i] < cloud[i]]_vars

\* A client's own copy goes back to an older version only for an item that others
\* have written while its call was running - or that create has returned for a draft: a
\* returned item leaves the list, so that a newer copy of it, handled after the draft, is
\* answered with NOT_AVAILABLE and not asked for.
LocalRollbackOnlyWhenTouched ==
    [][\A c \in Clients, i \in Ids :
         (local'[c][i] # Gone /\ local'[c][i] < local[c][i])
            => \/ i \in touched[c]
               \/ OnDuplicate(category) = "returns" /\ \E k \in Drafts : answerNew[c][k].id = i]_vars

\* An item that was deleted stays deleted: no copy that a client still holds, and
\* no REPLY that was already on its way, brings the id back.
NoResurrection ==
    [][\A i \in used : cloud[i] = Gone => cloud'[i] = Gone]_vars

\* What a user made once is stored once, also when the app has to send it again;
\* a collection without a uniqueness rule can only promise that as long as the app
\* got its answers.
StoredOnce ==
    \A c \in Clients, k \in Drafts :
        (OnDuplicate(category) # "inserts" \/ ~unanswered[c])
            => \A i, j \in {m \in Ids : cloud[m] # Gone} :
                 (<<c, k>> \in maker[i] /\ <<c, k>> \in maker[j]) => i = j

\* SyncHelpers.ts: "if the creation has returned an already existing item due to
\* uniqueness constrains, we have to take it out of the cloudItems list": an id
\* that answers a draft is not offered a second time, as an item the client does
\* not know.
NotOfferedTwice ==
    \A c \in Clients, k \in Drafts :
        LET i == answerNew[c][k].id
        IN  (stage[c] = "answered" /\ i # NoId /\ local[c][i] = Gone)
                => answer[c][i].status = "none"

\* The same for the collections whose create returns the item that exists.
ReturnedIsNotOffered == OnDuplicate(category) = "returns" => NotOfferedTwice

\* Whatever was edited, lost, overwritten by a stale REPLY or interrupted: once the
\* edits stop and the clients go on syncing, every copy agrees with the cloud.
EventuallyConsistent ==
    <>[](\A c \in Clients, i \in Ids : local[c][i] = cloud[i])
=============================================================================
