------------------------------- MODULE Messages -------------------------------
(***************************************************************************)
(* Messages of one sphere: sending, marking as read or deleted, getting    *)
(* and deleting them (message.controller and messageV2.repository).  Rows  *)
(* of four tables belong together and every query on one of them is a      *)
(* step, so that the calls of several users interleave between the         *)
(* queries.  A call may stop before any of them: a query fails, or the     *)
(* process is restarted.                                                   *)
(*                                                                         *)
(* The message that a call sends has the name of the call as its id.       *)
(***************************************************************************)
EXTENDS Naturals, Sequences, FiniteSets

CONSTANTS Calls,       \* calls of the endpoints
          Role,        \* Role[u]: the role of u in the sphere, or "none" outside of it
          Recipients,  \* lists of recipients that a sender may give
          Old,         \* ids of messages stored at first
          Owner,       \* the user that sent these
          Nobody,
          MaxFaults    \* bound: calls that stop halfway

Users == DOMAIN Role

ASSUME MessagesAssumption ==
    /\ \A u \in Users : Role[u] \in {"admin", "member", "guest", "basic", "hub", "none"}
    /\ Recipients \subseteq Seq(Users) /\ Owner \in Users
    /\ Old \cap Calls = {} /\ Nobody \notin Users \cup Calls /\ MaxFaults \in Nat

Lists == {"recipients", "readBy", "deletedBy"}

VARIABLES
    messages,   \* the messages: [id, owner, everyoneInSphere]
    rows,       \* rows of the other tables: [table, message, user, by]
    call,       \* call[c]: [does, user, message, stage, given, rest]: what it was given
                \* (recipients, tables to empty) and the rest of that
    seen,       \* seen[c]: what the queries of getMessages have returned so far
    faults,
    told,       \* history: whom a notification of which message has gone to
    overlap,    \* history: the calls that ran at the same time
    hidden      \* history: messages that the caller had marked as deleted at the start

vars == <<messages, rows, call, seen, faults, told, overlap, hidden>>

Nothing == [messages |-> {}, rows |-> {}, unread |-> {}]
Idle == [does |-> "nothing", user |-> Nobody, message |-> Nobody, stage |-> "ready",
         given |-> <<>>, rest |-> <<>>]

\* At first everybody is a recipient of the old messages, and a member has hidden them.
OldRows ==
    {[table |-> "recipients", message |-> m, user |-> u, by |-> Nobody] :
        m \in Old, u \in {u \in Users : Role[u] # "none"}}
    \cup {[table |-> "deletedBy", message |-> m, user |-> u, by |-> Nobody] :
            m \in Old, u \in {u \in Users : Role[u] = "member"}}

Init ==
    /\ messages = {[id |-> m, owner |-> Owner, everyoneInSphere |-> FALSE] : m \in Old}
    /\ rows = OldRows
    /\ call = [c \in Calls |-> Idle]
    /\ seen = [c \in Calls |-> Nothing]
    /\ faults = 0 /\ told = {}
    /\ overlap = [c \in Calls |-> {}]
    /\ hidden = [c \in Calls |-> {}]

-----------------------------------------------------------------------------
Ids == {m.id : m \in messages}

Running(c) == call[c].stage \notin {"ready", "done", "stopped"}

SphereMember == {u \in Users : Role[u] \in {"admin", "member", "hub"}}
SphereAccess == {u \in Users : Role[u] \in {"admin", "member", "guest", "basic", "hub"}}
SphereAdmin  == {u \in Users : Role[u] = "admin"}

\* A call that its user is authorized for begins.
Begin(c, does, u, m, stage, rest) ==
    /\ call[c] = Idle
    /\ call' = [call EXCEPT ![c] = [does |-> does, user |-> u, message |-> m, stage |-> stage,
                                            given |-> rest, rest |-> rest]]
    /\ overlap' = [d \in Calls |->
                    IF d = c THEN {o \in Calls : Running(o)}
                    ELSE IF Running(d) THEN overlap[d] \cup {c} ELSE overlap[d]]
    /\ hidden' = IF does \in {"get", "request"}
                 THEN [hidden EXCEPT ![c] = {r.message : r \in {r \in rows : r.table = "deletedBy" /\ r.user = u}}]
                 ELSE hidden

To(c, stage) == call' = [call EXCEPT ![c].stage = stage]
Step(c, stage) == To(c, stage) /\ UNCHANGED <<faults, overlap, hidden>>

-----------------------------------------------------------------------------
(* Sending.                                                                *)

sendMessage(c, u, everyone, recipients) ==
    /\ u \in SphereMember
    /\ Begin(c, "send", u, c, "recipients", recipients)
    /\ messages' = messages \cup {[id |-> c, owner |-> u, everyoneInSphere |-> everyone]}
    /\ UNCHANGED <<rows, seen, faults, told>>

\* Mutant: whoever is given becomes a recipient.
InSphereAll(u) == TRUE

InSphere(u) == u \in SphereAccess

\* addRecipient: the user is looked up in the sphere, ...
FindRecipient(c) ==
    /\ call[c].stage = "recipients" /\ call[c].rest # <<>>
    /\ Step(c, IF InSphere(Head(call[c].rest)) THEN "add" ELSE "done")
    /\ UNCHANGED <<messages, rows, seen, told>>

Row(c, table, user) == [table |-> table, message |-> call[c].message, user |-> user, by |-> c]

\* ... and the row is made.
AddRecipient(c) ==
    /\ call[c].stage = "add"
    /\ rows' = rows \cup {Row(c, "recipients", Head(call[c].rest))}
    /\ call' = [call EXCEPT ![c].stage = "recipients", ![c].rest = Tail(@)]
    /\ UNCHANGED <<messages, seen, faults, told, overlap, hidden>>

\* getSphereUserIds: hubs are not notified.
SphereUsers == {u \in SphereAccess : Role[u] # "hub"}

\* The recipients that the call has added; the whole sphere when there are none.
Told(c) ==
    LET added == {r.user : r \in {r \in rows : r.table = "recipients" /\ r.by = c}}
    IN  IF added = {} THEN SphereUsers ELSE added

\* Mutant: the sender is not left waiting for the recipients, who are told at once.
AllAddedNotYet(c) == call[c].stage = "recipients"

AllAdded(c) == call[c].stage = "recipients" /\ call[c].rest = <<>>

Notify(c) ==
    /\ AllAdded(c)
    /\ told' = told \cup {<<u, c>> : u \in Told(c)}
    /\ Step(c, "done")
    /\ UNCHANGED <<messages, rows, seen>>

-----------------------------------------------------------------------------
(* Marking.                                                                *)

\* markAsRead, markAsDeleted: the message is there when the call begins.
mark(c, u, m, table) ==
    /\ u \in SphereMember /\ m \in Ids
    /\ Begin(c, table, u, m, "find", <<>>)
    /\ UNCHANGED <<messages, rows, seen, faults, told>>

\* Mutant: the mark is made without a look at those there are.
AlreadyExistingNever(c) == FALSE

AlreadyExisting(c) ==
    \E r \in rows : r.table = call[c].does /\ r.message = call[c].message /\ r.user = call[c].user

\* The mark is looked for twice, by messageV2.repository and by the create of its table.
FindMark(c) ==
    /\ call[c].stage \in {"find", "validate"}
    /\ Step(c, IF AlreadyExisting(c) THEN "done"
               ELSE IF call[c].stage = "find" THEN "validate" ELSE "mark")
    /\ UNCHANGED <<messages, rows, seen, told>>

CreateMark(c) ==
    /\ call[c].stage = "mark"
    /\ rows' = rows \cup {Row(c, call[c].does, call[c].user)}
    /\ Step(c, "done")
    /\ UNCHANGED <<messages, seen, told>>

-----------------------------------------------------------------------------
(* Getting.                                                                *)

\* getMessages, or a REQUEST of the sync, whose fields leave out the owner.
getMessages(c, u, does) ==
    /\ u \in SphereAccess
    /\ Begin(c, does, u, Nobody, "include", <<>>)
    /\ seen' = [seen EXCEPT ![c] = [messages |-> messages, rows |-> {}, unread |-> {"recipients", "deletedBy"}]]
    /\ UNCHANGED <<messages, rows, faults, told>>

\* The relations are included by queries of their own, in any order; the marks are those
\* of the user.  (What the user has read is passed on and decides nothing: left out.)
Include(c, table) ==
    /\ call[c].stage = "include" /\ table \in seen[c].unread
    /\ seen' = [seen EXCEPT
        ![c].rows = @ \cup {r \in rows : /\ r.table = table
                                         /\ \E m \in seen[c].messages : m.id = r.message
                                         /\ table = "recipients" \/ r.user = call[c].user},
        ![c].unread = @ \ {table}]
    /\ Step(c, IF seen[c].unread = {table} THEN "done" ELSE "include")
    /\ UNCHANGED <<messages, rows, told>>

\* filterForMyMessages, on messages and rows that were read.
Has(read, table, m) == \E r \in read.rows : r.table = table /\ r.message = m.id
Gets(read, m, u, owner) ==
    \/ m.owner = u /\ owner
    \/ m.everyoneInSphere
    \/ \E r \in read.rows : r.table = "recipients" /\ r.message = m.id /\ r.user = u

\* Mutant: the owner of a message is let through before its marks are looked at.
MineOwnerFirst(read, u, owner) ==
    {m \in read.messages : (m.owner = u /\ owner) \/ (~Has(read, "deletedBy", m) /\ Gets(read, m, u, owner))}

Mine(read, u, owner) ==
    {m \in read.messages : ~Has(read, "deletedBy", m) /\ Gets(read, m, u, owner)}

Shown(c) == Mine(seen[c], call[c].user, call[c].does = "get")

-----------------------------------------------------------------------------
(* Deleting.                                                               *)

\* Mutant: a message that is deleted keeps its marks.
AllTablesButMarks(does) ==
    IF does = "delete" THEN <<"recipients", "messages">>
    ELSE <<"messages", "recipients", "readBy", "deletedBy">>

\* Mutant: the messages of a sphere go, and what belongs to those that are there.
AllTablesButReadBy(does) ==
    IF does = "delete" THEN <<"recipients", "readBy", "deletedBy", "messages">>
    ELSE <<"messages", "recipients", "deletedBy">>

\* The tables in the order in which deleteById and deleteSphereMessages empty them.
AllTables(does) ==
    IF does = "delete" THEN <<"recipients", "readBy", "deletedBy", "messages">>
    ELSE <<"messages", "recipients", "readBy", "deletedBy">>

\* Only its owner may.
Owns(u, m) == \E message \in messages : message.id = m /\ message.owner = u

deleteMessage(c, u, m) ==
    /\ u \in SphereMember /\ Owns(u, m)
    /\ Begin(c, "delete", u, m, "deleting", AllTables("delete"))
    /\ UNCHANGED <<messages, rows, seen, faults, told>>

deleteSphereMessages(c, u) ==
    /\ u \in SphereAdmin
    /\ Begin(c, "deleteAll", u, Nobody, "deleting", AllTables("deleteAll"))
    /\ UNCHANGED <<messages, rows, seen, faults, told>>

DeleteRows(c) ==
    LET Of(m) == call[c].does = "deleteAll" \/ m = call[c].message
        table == Head(call[c].rest)
    IN  /\ call[c].stage = "deleting"
        /\ messages' = IF table = "messages" THEN {m \in messages : ~Of(m.id)} ELSE messages
        /\ rows' = {r \in rows : ~(r.table = table /\ Of(r.message))}
        /\ call' = [call EXCEPT ![c].rest = Tail(@),
                                ![c].stage = IF Len(call[c].rest) = 1 THEN "done" ELSE "deleting"]
        /\ UNCHANGED <<seen, faults, told, overlap, hidden>>

-----------------------------------------------------------------------------
\* A query of the call fails, or the process stops: what it has stored stays.
Stop(c) ==
    /\ Running(c) /\ faults < MaxFaults
    /\ faults' = faults + 1
    /\ To(c, "stopped")
    /\ UNCHANGED <<messages, rows, seen, told, overlap, hidden>>

Next ==
    \E c \in Calls :
        \/ \E u \in Users :
            \/ \E everyone \in BOOLEAN, list \in Recipients : sendMessage(c, u, everyone, list)
            \/ \E m \in Ids :
                deleteMessage(c, u, m) \/ \E table \in {"readBy", "deletedBy"} : mark(c, u, m, table)
            \/ \E does \in {"get", "request"} : getMessages(c, u, does)
            \/ deleteSphereMessages(c, u)
        \/ FindRecipient(c) \/ AddRecipient(c) \/ Notify(c)
        \/ FindMark(c) \/ CreateMark(c)
        \/ \E table \in {"recipients", "deletedBy"} : Include(c, table)
        \/ DeleteRows(c) \/ Stop(c)

Spec == Init /\ [][Next]_vars

-----------------------------------------------------------------------------
(* Properties.                                                             *)

Stages == {"ready", "recipients", "add", "find", "validate", "mark", "include", "deleting", "done", "stopped"}

TypeOK ==
    /\ \A m \in messages : m.id \in Old \cup Calls /\ m.owner \in Users
    /\ \A m, n \in messages : m.id = n.id => m = n
    /\ \A r \in rows :
        r.table \in Lists /\ r.message \in Old \cup Calls /\ r.user \in SphereAccess /\ r.by \in Calls \cup {Nobody}
    /\ \A c \in Calls :
        /\ call[c].stage \in Stages /\ overlap[c] \subseteq Calls \ {c}
        /\ (call[c].stage = "ready") = (call[c] = Idle)
        /\ seen[c].unread # {} => call[c].stage \in {"include", "stopped"}
    /\ told \subseteq SphereAccess \X Calls /\ faults \in 0..MaxFaults

Deletes(d, m) == call[d].does = "deleteAll" \/ (call[d].does = "delete" /\ call[d].message = m)

\* What a query at this moment would return.
Now(u) == [messages |-> messages,
           rows |-> {r \in rows : r.table = "recipients" \/ r.user = u}, unread |-> {}]

\* Whoever gets the notification of a message finds the message, in spite of calls that
\* fail halfway, until its deletion begins or he marks it as deleted.  It does not hold
\* of a message without recipients that is not for everyone, although a comment says that
\* then "the entire sphere is a recipient": the whole sphere is notified and only the
\* owner sees it.  Nor of a message sent while the messages of the sphere are deleted:
\* it stays, without its recipients.
NotifiedCanRead ==
    \A t \in told : \A m \in messages :
        LET u == t[1]
            c == t[2]
        IN  m.id = c =>
                \/ m \in Mine(Now(u), u, TRUE)
                \/ Has(Now(u), "deletedBy", m)
                \/ call[c].given = <<>> /\ ~m.everyoneInSphere
                \/ \E d \in Calls : call[d].does = "delete" /\ call[d].message = c
                \/ \E d \in overlap[c] : call[d].does = "deleteAll"

\* What a user has marked as deleted before he asks is not shown to him, not even when he
\* sent it, and whatever is stored between the queries of getMessages; only while or
\* after its owner or an admin deletes it, since the marks go before the message.
HiddenStaysHidden ==
    \A c \in Calls :
        (call[c].does \in {"get", "request"} /\ call[c].stage = "done") =>
            \A m \in Shown(c) :
                m.id \in hidden[c] =>
                    \/ \E d \in overlap[c] : call[d].does = "deleteAll"
                    \/ \E d \in Calls : call[d].does = "delete" /\ call[d].message = m.id

\* A recipient or a mark without its message is the work of a call that ran at the same
\* time as the deletion, or the deletion has not come to its end.
RowsHaveMessage ==
    \A r \in rows :
        \/ r.message \in Ids
        \/ \E d \in Calls : Deletes(d, r.message) /\ call[d].stage \in {"deleting", "stopped"}
        \/ r.by \in Calls /\ \E d \in overlap[r.by] : Deletes(d, r.message)

\* "already existing, do nothing": a user marks a message twice only with two calls that
\* run at the same time.
OneMarkEach ==
    \A r, q \in rows :
        (r # q /\ r.table # "recipients" /\ r.table = q.table /\ r.message = q.message /\ r.user = q.user)
            => r.by \in Calls /\ q.by \in Calls /\ r.by \in overlap[q.by]

\* When the messages of a sphere have been deleted nothing is left of what calls before
\* it had stored, also of deletions that stopped halfway.
SphereEmptied ==
    [][\A c \in Calls :
        (call[c].does = "deleteAll" /\ Running(c) /\ call'[c].stage = "done") =>
            /\ \A m \in messages' : m.id \in overlap[c]
            /\ \A r \in rows' : r.by \in overlap[c]]_vars
=============================================================================
