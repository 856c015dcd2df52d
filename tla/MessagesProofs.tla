---------------------------- MODULE MessagesProofs ----------------------------
(***************************************************************************)
(* Proofs about Messages, for any sphere, any number of calls and any      *)
(* number of calls that stop halfway: which rows belong to a message, who  *)
(* can read what he was told of, and what a deletion leaves behind.        *)
(***************************************************************************)
EXTENDS Messages, TLAPS

MessageIds == Old \cup Calls

Tables == Lists \cup {"messages"}

RowType == [table : Lists, message : MessageIds, user : SphereAccess, by : Calls \cup {Nobody}]

MessageType == [id : MessageIds, owner : Users, everyoneInSphere : BOOLEAN]

SeenType == [messages : SUBSET MessageType, rows : SUBSET RowType, unread : SUBSET Lists]

\* The tables that a deletion has still to empty: an end of its list.
RestTables(does) ==
    LET all == AllTables(does)
    IN  {all, <<all[2], all[3], all[4]>>, <<all[3], all[4]>>, <<all[4]>>, <<>>}

Left(d) == {call[d].rest[i] : i \in DOMAIN call[d].rest}

\* The shape of a call of each kind.
SendCall(c) ==
    /\ call[c].does = "send" /\ call[c].user \in SphereMember /\ call[c].message = c
    /\ call[c].stage \in {"recipients", "add", "done", "stopped"}
    /\ call[c].given \in Seq(Users) /\ call[c].rest \in Seq(Users)
    /\ call[c].stage = "add" => call[c].rest # <<>> /\ Head(call[c].rest) \in SphereAccess

MarkCall(c) ==
    /\ call[c].does \in {"readBy", "deletedBy"} /\ call[c].user \in SphereMember
    /\ call[c].message \in MessageIds
    /\ call[c].stage \in {"find", "validate", "mark", "done", "stopped"}

GetCall(c) ==
    /\ call[c].does \in {"get", "request"} /\ call[c].user \in SphereAccess
    /\ call[c].stage \in {"include", "done", "stopped"}

DeleteCall(c) ==
    /\ call[c].does \in {"delete", "deleteAll"}
    /\ call[c].does = "delete" => call[c].message \in MessageIds
    /\ call[c].stage \in {"deleting", "done", "stopped"}
    /\ call[c].rest \in RestTables(call[c].does)
    /\ call[c].stage = "deleting" => call[c].rest # <<>>

CallType ==
    [does : {"nothing", "send", "readBy", "deletedBy", "get", "request", "delete", "deleteAll"},
     user : Users \cup {Nobody}, message : MessageIds \cup {Nobody}, stage : Stages,
     given : Seq(Users \cup Tables), rest : Seq(Users \cup Tables)]

CallsShaped ==
    /\ call \in [Calls -> CallType]
    /\ \A c \in Calls : call[c] = Idle \/ SendCall(c) \/ MarkCall(c) \/ GetCall(c) \/ DeleteCall(c)

\* A call that has sent a message has begun, and a message has one record.
Stored ==
    /\ rows \subseteq RowType
    /\ messages \subseteq MessageType
    /\ \A m \in messages : m.id \in Calls => call[m.id] # Idle
    /\ \A m, n \in messages : m.id = n.id => m = n
    /\ told \subseteq SphereAccess \X Calls /\ faults \in 0..MaxFaults

\* Who ran at the same time as whom; everybody who is running did.
Overlaps ==
    /\ overlap \in [Calls -> SUBSET Calls]
    /\ \A c \in Calls : c \notin overlap[c]
    /\ \A c, d \in Calls : d \in overlap[c] => c \in overlap[d]
    /\ \A c, d \in Calls : d \in overlap[c] => call[d] # Idle
    /\ \A c, d \in Calls : c # d /\ Running(c) /\ Running(d) => d \in overlap[c]

\* A row is the work of a call that is about its message.
RowsOfCalls ==
    \A r \in rows : r.by \in Calls =>
        /\ call[r.by] # Idle /\ r.message = call[r.by].message
        /\ IF r.table = "recipients" THEN call[r.by].does = "send"
           ELSE r.table = call[r.by].does /\ r.user = call[r.by].user

\* Between its look and its mark a call can only be overtaken by one that runs as well.
MarksRaced ==
    \A c \in Calls : call[c].stage \in {"validate", "mark"} =>
        \A r \in rows :
            r.table = call[c].does /\ r.message = call[c].message /\ r.user = call[c].user
                => r.by \in overlap[c]

\* The message that a call adds rows for is there, or is deleted while the call runs.
MessageKept ==
    \A c \in Calls : call[c].stage \in {"recipients", "add", "find", "validate", "mark"} =>
        call[c].message \in Ids \/ \E d \in overlap[c] : Deletes(d, call[c].message)

\* The tables that a deletion has been through hold only what was added meanwhile.
Emptied(d) ==
    /\ \A r \in rows :
         Deletes(d, r.message) /\ r.table \notin Left(d) => r.by \in overlap[d]
    /\ call[d].does = "deleteAll" /\ "messages" \notin Left(d)
         => \A m \in messages : m.id \in overlap[d]

DeletesProgress == \A d \in Calls : call[d].stage = "deleting" => Emptied(d)

\* The deletions that can take away what c stored and told of.
Undone(c) ==
    \/ \E d \in Calls : call[d].does = "delete" /\ call[d].message = c
    \/ \E d \in overlap[c] : call[d].does = "deleteAll"

\* The recipients that a call has added so far.
RecipientsKept ==
    \A c \in Calls :
        (call[c].stage \in {"recipients", "add"} /\ call[c].rest # call[c].given) =>
            Undone(c) \/ \E r \in rows : r.table = "recipients" /\ r.by = c

\* Who has been told of a message that is there is one of its recipients.
ToldKept ==
    \A t \in told :
        /\ call[t[2]].stage = "done"
        /\ \A m \in messages : m.id = t[2] =>
             \/ call[t[2]].given = <<>>
             \/ \E r \in rows : r.table = "recipients" /\ r.message = t[2] /\ r.user = t[1]
             \/ Undone(t[2])

\* The deletions that can take the mark of message m from a call that gets it.
Unmarked(c, m) ==
    \/ \E d \in overlap[c] : call[d].does = "deleteAll"
    \/ \E d \in Calls : call[d].does = "delete" /\ call[d].message = m

\* A call reads each of the tables once.
SeenOnce ==
    /\ seen \in [Calls -> SeenType]
    /\ \A c \in Calls : seen[c].unread # {} => call[c].stage \in {"include", "stopped"}

HiddenTyped == hidden \in [Calls -> SUBSET MessageIds]

\* What the user had hidden is still marked, or was when the marks were read.
HiddenKept ==
    \A c \in Calls : GetCall(c) =>
        IF "deletedBy" \in seen[c].unread
        THEN call[c].stage # "stopped" => \A m \in hidden[c] :
                Unmarked(c, m) \/ \E r \in rows :
                    r.table = "deletedBy" /\ r.message = m /\ r.user = call[c].user
        ELSE \A m \in seen[c].messages : m.id \in hidden[c] =>
                Unmarked(c, m.id) \/ Has(seen[c], "deletedBy", m)

Inv ==
    /\ CallsShaped /\ Stored /\ Overlaps /\ RowsOfCalls /\ MarksRaced /\ OneMarkEach
    /\ MessageKept /\ DeletesProgress /\ RowsHaveMessage /\ RecipientsKept /\ ToldKept
    /\ SeenOnce /\ HiddenTyped /\ HiddenKept

\* The steps of one call.
StepOf(c) ==
    \/ \E u \in Users :
        \/ \E everyone \in BOOLEAN, list \in Recipients : sendMessage(c, u, everyone, list)
        \/ \E m \in Ids :
            deleteMessage(c, u, m) \/ \E table \in {"readBy", "deletedBy"} : mark(c, u, m, table)
        \/ \E does \in {"get", "request"} : getMessages(c, u, does)
        \/ deleteSphereMessages(c, u)
    \/ FindRecipient(c) \/ AddRecipient(c) \/ Notify(c)
    \/ FindMark(c) \/ CreateMark(c)
    \/ \E table \in {"recipients", "deletedBy"} : Include(c, table)
    \/ DeleteRows(c) \/ Stop(c)

-----------------------------------------------------------------------------
(* What a step changes.                                                    *)

\* A call begins: it is about a message, and those that run are at the same time as it.
Begins(c) ==
    \/ \E u \in Users, everyone \in BOOLEAN, list \in Recipients : sendMessage(c, u, everyone, list)
    \/ \E u \in Users, m \in Ids : deleteMessage(c, u, m)
    \/ \E u \in Users, m \in Ids, table \in {"readBy", "deletedBy"} : mark(c, u, m, table)
    \/ \E u \in Users, does \in {"get", "request"} : getMessages(c, u, does)
    \/ \E u \in Users : deleteSphereMessages(c, u)

Goes(c) ==
    \/ FindRecipient(c) \/ AddRecipient(c) \/ Notify(c)
    \/ FindMark(c) \/ CreateMark(c)
    \/ \E table \in {"recipients", "deletedBy"} : Include(c, table)
    \/ DeleteRows(c) \/ Stop(c)

LEMMA StepKinds == ASSUME NEW c, StepOf(c) PROVE Begins(c) \/ Goes(c)
  BY DEF StepOf, Begins, Goes

LEMMA MembersHaveAccess == SphereMember \subseteq SphereAccess /\ SphereAdmin \subseteq SphereMember
  BY DEF SphereMember, SphereAccess, SphereAdmin

\* The record of a call that begins.
LEMMA BeginShapes ==
    ASSUME Inv, NEW c \in Calls, Begins(c)
    PROVE  /\ call[c] = Idle
           /\ \E new \in CallType : call' = [call EXCEPT ![c] = new] /\ new.stage \notin {"ready", "done", "stopped"}
           /\ SendCall(c)' \/ MarkCall(c)' \/ GetCall(c)' \/ DeleteCall(c)'
           /\ rows' = rows /\ told' = told /\ faults' = faults
           /\ overlap' = [d \in Calls |->
                    IF d = c THEN {o \in Calls : Running(o)}
                    ELSE IF Running(d) THEN overlap[d] \cup {c} ELSE overlap[d]]
  <1> USE DEF Inv, CallsShaped
  <1>1. CASE \E u \in Users, everyone \in BOOLEAN, list \in Recipients : sendMessage(c, u, everyone, list)
    <2>1. PICK u \in Users, everyone \in BOOLEAN, list \in Recipients : sendMessage(c, u, everyone, list)
      BY <1>1
    <2> DEFINE new == [does |-> "send", user |-> u, message |-> c, stage |-> "recipients", given |-> list, rest |-> list]
    <2>2. list \in Seq(Users) /\ list \in Seq(Users \cup Tables)
      BY MessagesAssumption
    <2>3. new \in CallType /\ new.stage \notin {"ready", "done", "stopped"}
      BY <2>2 DEF CallType, Stages, MessageIds
    <2>4. call' = [call EXCEPT ![c] = new]
      BY <2>1 DEF sendMessage, Begin
    <2>5. SendCall(c)'
      BY <2>1, <2>2, <2>4 DEF SendCall, sendMessage
    <2>6. QED
      BY <2>1, <2>3, <2>4, <2>5 DEF sendMessage, Begin
  <1>2. CASE \E u \in Users, m \in Ids : deleteMessage(c, u, m)
    <2>1. PICK u \in Users, m \in Ids : deleteMessage(c, u, m)
      BY <1>2
    <2> DEFINE list == AllTables("delete")
               new == [does |-> "delete", user |-> u, message |-> m, stage |-> "deleting", given |-> list, rest |-> list]
    <2>2. list \in Seq(Users \cup Tables) /\ list # <<>>
      BY DEF AllTables, Tables, Lists
    <2>3. m \in MessageIds
      BY DEF Ids, Stored, MessageType
    <2>4. new \in CallType /\ new.stage \notin {"ready", "done", "stopped"}
      BY <2>2, <2>3 DEF CallType, Stages, MessageIds
    <2>5. call' = [call EXCEPT ![c] = new]
      BY <2>1 DEF deleteMessage, Begin
    <2>6. DeleteCall(c)'
      BY <2>2, <2>3, <2>5 DEF DeleteCall, RestTables
    <2>7. QED
      BY <2>1, <2>4, <2>5, <2>6 DEF deleteMessage, Begin
  <1>3. CASE \E u \in Users, m \in Ids, table \in {"readBy", "deletedBy"} : mark(c, u, m, table)
    <2>1. PICK u \in Users, m \in Ids, table \in {"readBy", "deletedBy"} : mark(c, u, m, table)
      BY <1>3
    <2> DEFINE new == [does |-> table, user |-> u, message |-> m, stage |-> "find", given |-> <<>>, rest |-> <<>>]
    <2>2. m \in MessageIds
      BY DEF Ids, Stored, MessageType
    <2>3. new \in CallType /\ new.stage \notin {"ready", "done", "stopped"}
      BY <2>2 DEF CallType, Stages, MessageIds
    <2>4. call' = [call EXCEPT ![c] = new]
      BY <2>1 DEF mark, Begin
    <2>5. MarkCall(c)'
      BY <2>1, <2>2, <2>4 DEF MarkCall, mark
    <2>6. QED
      BY <2>1, <2>3, <2>4, <2>5 DEF mark, Begin
  <1>4. CASE \E u \in Users, does \in {"get", "request"} : getMessages(c, u, does)
    <2>1. PICK u \in Users, does \in {"get", "request"} : getMessages(c, u, does)
      BY <1>4
    <2> DEFINE new == [does |-> does, user |-> u, message |-> Nobody, stage |-> "include", given |-> <<>>, rest |-> <<>>]
    <2>2. new \in CallType /\ new.stage \notin {"ready", "done", "stopped"}
      BY DEF CallType, Stages, MessageIds
    <2>3. call' = [call EXCEPT ![c] = new]
      BY <2>1 DEF getMessages, Begin
    <2>4. GetCall(c)'
      BY <2>1, <2>3 DEF GetCall, getMessages
    <2>5. QED
      BY <2>1, <2>2, <2>3, <2>4 DEF getMessages, Begin
  <1>5. CASE \E u \in Users : deleteSphereMessages(c, u)
    <2>1. PICK u \in Users : deleteSphereMessages(c, u)
      BY <1>5
    <2> DEFINE list == AllTables("deleteAll")
               new == [does |-> "deleteAll", user |-> u, message |-> Nobody, stage |-> "deleting", given |-> list, rest |-> list]
    <2>2. list \in Seq(Users \cup Tables) /\ list # <<>>
      BY DEF AllTables, Tables, Lists
    <2>3. new \in CallType /\ new.stage \notin {"ready", "done", "stopped"}
      BY <2>2 DEF CallType, Stages, MessageIds
    <2>4. call' = [call EXCEPT ![c] = new]
      BY <2>1 DEF deleteSphereMessages, Begin
    <2>5. DeleteCall(c)'
      BY <2>2, <2>4 DEF DeleteCall, RestTables
    <2>6. QED
      BY <2>1, <2>3, <2>4, <2>5 DEF deleteSphereMessages, Begin
  <1>6. QED
    BY <1>1, <1>2, <1>3, <1>4, <1>5 DEF Begins

\* The list of a deletion gets shorter from its front.
LEMMA ListsEnd ==
    ASSUME NEW does \in {"delete", "deleteAll"}, NEW rest \in RestTables(does), rest # <<>>
    PROVE  /\ Tail(rest) \in RestTables(does) /\ rest \in Seq(Tables)
           /\ Len(rest) = 1 <=> Tail(rest) = <<>>
  <1> DEFINE all == AllTables(does)
  <1>1. /\ all = <<all[1], all[2], all[3], all[4]>>
        /\ all[1] \in Tables /\ all[2] \in Tables /\ all[3] \in Tables /\ all[4] \in Tables
    BY DEF AllTables, Tables, Lists
  <1> HIDE DEF all
  <1>2. CASE rest = all
    <2>1. rest = <<all[1], all[2], all[3], all[4]>>
      BY <1>1, <1>2
    <2>2. /\ Tail(rest) = <<all[2], all[3], all[4]>> /\ rest \in Seq(Tables)
          /\ Len(rest) = 4 /\ Tail(rest) # <<>>
      BY <1>1, <2>1
    <2>3. QED
      BY <2>2 DEF RestTables, all
  <1>3. CASE rest = <<all[2], all[3], all[4]>>
    BY <1>1, <1>3 DEF RestTables, all
  <1>4. CASE rest = <<all[3], all[4]>>
    BY <1>1, <1>4 DEF RestTables, all
  <1>5. CASE rest = <<all[4]>>
    BY <1>1, <1>5 DEF RestTables, all
  <1>6. QED
    BY <1>2, <1>3, <1>4, <1>5 DEF RestTables, all

\* The kind of a call, by its stage.
LEMMA KindOfStage ==
    ASSUME CallsShaped, NEW c \in Calls
    PROVE  /\ call[c] \in CallType
           /\ call[c].stage \in {"recipients", "add"} => SendCall(c)
           /\ call[c].stage \in {"find", "validate", "mark"} => MarkCall(c)
           /\ call[c].stage = "include" => GetCall(c)
           /\ call[c].stage = "deleting" => DeleteCall(c)
           /\ Running(c) => call[c] # Idle
           /\ call[c] # Idle => SendCall(c) \/ MarkCall(c) \/ GetCall(c) \/ DeleteCall(c)
           /\ call[c] # Idle => call[c].stage # "ready" /\ call[c].does # "nothing"
  BY DEF CallsShaped, SendCall, MarkCall, GetCall, DeleteCall, Idle, Running

\* What a call is about does not change while it goes on.
LEMMA GoShapes ==
    ASSUME CallsShaped, NEW c \in Calls, Goes(c)
    PROVE  /\ Running(c)
           /\ \E stage \in Stages, rest \in {call[c].rest, Tail(call[c].rest)} :
                call' = [call EXCEPT ![c].stage = stage, ![c].rest = rest]
           /\ overlap' = overlap /\ hidden' = hidden
           /\ SendCall(c)' \/ MarkCall(c)' \/ GetCall(c)' \/ DeleteCall(c)'
           /\ (Running(c)') => Running(c)
  <1> USE DEF CallsShaped
  <1> DEFINE r == call[c].rest
  <1>0. call[c] \in CallType
    BY KindOfStage
  <1>1. CASE FindRecipient(c)
    <2>1. SendCall(c)
      BY <1>1, KindOfStage DEF FindRecipient
    <2>2. PICK stage \in {"add", "done"} :
              /\ call' = [call EXCEPT ![c].stage = stage]
              /\ stage = "add" => Head(r) \in SphereAccess
      BY <1>1 DEF FindRecipient, Step, To, InSphere
    <2>3. call' = [call EXCEPT ![c].stage = stage, ![c].rest = r]
      BY <1>0, <2>2 DEF CallType
    <2>4. SendCall(c)'
      BY <1>0, <1>1, <2>1, <2>2 DEF SendCall, CallType, FindRecipient
    <2>5. QED
      BY <1>1, <2>3, <2>4 DEF FindRecipient, Step, Running, Stages
  <1>2. CASE AddRecipient(c)
    <2>1. SendCall(c)
      BY <1>2, KindOfStage DEF AddRecipient
    <2>2. call' = [call EXCEPT ![c].stage = "recipients", ![c].rest = Tail(r)]
      BY <1>2 DEF AddRecipient
    <2>3. Tail(r) \in Seq(Users)
      BY <1>2, <2>1 DEF SendCall, AddRecipient
    <2>4. SendCall(c)'
      BY <1>0, <2>1, <2>2, <2>3 DEF SendCall, CallType
    <2>5. QED
      BY <1>2, <2>2, <2>4 DEF AddRecipient, Running, Stages
  <1>3. CASE Notify(c)
    <2>1. SendCall(c) /\ call' = [call EXCEPT ![c].stage = "done"]
      BY <1>3, KindOfStage DEF Notify, AllAdded, Step, To
    <2>2. call' = [call EXCEPT ![c].stage = "done", ![c].rest = r]
      BY <1>0, <2>1 DEF CallType
    <2>3. SendCall(c)'
      BY <1>0, <2>1 DEF SendCall, CallType
    <2>4. QED
      BY <1>3, <2>2, <2>3 DEF Notify, AllAdded, Step, Running, Stages
  <1>4. CASE FindMark(c) \/ CreateMark(c)
    <2>1. MarkCall(c)
      BY <1>4, KindOfStage DEF FindMark, CreateMark
    <2>2. PICK stage \in {"validate", "mark", "done"} : call' = [call EXCEPT ![c].stage = stage]
      BY <1>4 DEF FindMark, CreateMark, Step, To
    <2>3. call' = [call EXCEPT ![c].stage = stage, ![c].rest = r]
      BY <1>0, <2>2 DEF CallType
    <2>4. MarkCall(c)'
      BY <1>0, <2>1, <2>2 DEF MarkCall, CallType
    <2>5. QED
      BY <1>4, <2>3, <2>4 DEF FindMark, CreateMark, Step, Running, Stages
  <1>5. CASE \E table \in {"recipients", "deletedBy"} : Include(c, table)
    <2>1. GetCall(c)
      BY <1>5, KindOfStage DEF Include
    <2>2. PICK stage \in {"include", "done"} : call' = [call EXCEPT ![c].stage = stage]
      BY <1>5 DEF Include, Step, To
    <2>3. call' = [call EXCEPT ![c].stage = stage, ![c].rest = r]
      BY <1>0, <2>2 DEF CallType
    <2>4. GetCall(c)'
      BY <1>0, <2>1, <2>2 DEF GetCall, CallType
    <2>5. QED
      BY <1>5, <2>3, <2>4 DEF Include, Step, Running, Stages
  <1>6. CASE DeleteRows(c)
    <2>1. DeleteCall(c)
      BY <1>6, KindOfStage DEF DeleteRows
    <2>2. r # <<>> /\ r \in RestTables(call[c].does)
      BY <1>6, <2>1 DEF DeleteCall, DeleteRows
    <2>3. /\ Tail(r) \in RestTables(call[c].does)
          /\ Len(r) = 1 <=> Tail(r) = <<>>
      BY <2>1, <2>2, ListsEnd DEF DeleteCall
    <2>4. PICK stage \in {"deleting", "done"} :
              /\ call' = [call EXCEPT ![c].rest = Tail(r), ![c].stage = stage]
              /\ stage = "deleting" => Tail(r) # <<>>
      BY <1>6, <2>3 DEF DeleteRows
    <2>5. call' = [call EXCEPT ![c].stage = stage, ![c].rest = Tail(r)]
      BY <1>0, <2>4 DEF CallType
    <2>6. DeleteCall(c)'
      BY <1>0, <2>1, <2>3, <2>4 DEF DeleteCall, CallType
    <2>7. QED
      BY <1>6, <2>5, <2>6 DEF DeleteRows, Running, Stages
  <1>7. CASE Stop(c)
    <2>1. call' = [call EXCEPT ![c].stage = "stopped"] /\ Running(c)
      BY <1>7 DEF Stop, To
    <2>2. call' = [call EXCEPT ![c].stage = "stopped", ![c].rest = r]
      BY <1>0, <2>1 DEF CallType
    <2>3. SendCall(c) \/ MarkCall(c) \/ GetCall(c) \/ DeleteCall(c)
      BY <2>1, KindOfStage
    <2>4. SendCall(c)' \/ MarkCall(c)' \/ GetCall(c)' \/ DeleteCall(c)'
      <3>1. call'[c] = [call[c] EXCEPT !.stage = "stopped"]
        BY <1>0, <2>1 DEF CallType
      <3>2. QED
        BY <1>0, <2>3, <3>1 DEF CallType, SendCall, MarkCall, GetCall, DeleteCall
    <2>5. QED
      BY <1>7, <2>1, <2>2, <2>4 DEF Stop, Running, Stages
  <1>8. QED
    BY <1>1, <1>2, <1>3, <1>4, <1>5, <1>6, <1>7 DEF Goes

LEMMA KeepsShape == ASSUME Inv, NEW c \in Calls, StepOf(c) PROVE CallsShaped'
  <1>1. CallsShaped
    BY DEF Inv
  <1>2. CASE Begins(c)
    BY <1>1, <1>2, BeginShapes DEF CallsShaped, SendCall, MarkCall, GetCall, DeleteCall, Idle
  <1>3. CASE Goes(c)
    <2>1. PICK stage \in Stages, rest \in {call[c].rest, Tail(call[c].rest)} :
              call' = [call EXCEPT ![c].stage = stage, ![c].rest = rest]
      BY <1>1, <1>3, GoShapes
    <2>2. call[c] \in CallType
      BY <1>1, KindOfStage
    <2>3. rest \in Seq(Users \cup Tables)
      <3>1. CASE rest = call[c].rest
        BY <2>2, <3>1 DEF CallType
      <3>2. CASE rest = Tail(call[c].rest) /\ call[c].rest # <<>>
        BY <2>2, <3>2 DEF CallType
      <3>3. CASE rest # call[c].rest /\ call[c].rest = <<>>
        BY <3>3, <2>1
      <3>4. QED
        BY <3>1, <3>2, <3>3
    <2>4. call' \in [Calls -> CallType]
      BY <1>1, <2>1, <2>2, <2>3 DEF CallsShaped, CallType
    <2>5. ASSUME NEW d \in Calls, d # c
          PROVE  (call[d] = Idle \/ SendCall(d) \/ MarkCall(d) \/ GetCall(d) \/ DeleteCall(d))'
      <3>1. call'[d] = call[d]
        BY <1>1, <2>1, <2>5 DEF CallsShaped
      <3>2. QED
        BY <1>1, <3>1 DEF CallsShaped, SendCall, MarkCall, GetCall, DeleteCall
    <2>6. QED
      BY <1>1, <1>3, <2>4, <2>5, GoShapes DEF CallsShaped
  <1>4. QED
    BY <1>2, <1>3, StepKinds

\* What a call is about stays, and who ran at the same time as whom.
LEMMA Steady ==
    ASSUME Inv, NEW c \in Calls, StepOf(c)
    PROVE  /\ \A d \in Calls : call[d] # Idle =>
                /\ call'[d] # Idle /\ call'[d].does = call[d].does /\ call'[d].user = call[d].user
                /\ call'[d].message = call[d].message /\ call'[d].given = call[d].given
           /\ \A d \in Calls : d # c => call'[d] = call[d]
           /\ \A d \in Calls : overlap[d] \subseteq overlap'[d]
           /\ \A d \in Calls : call'[d] = Idle => call[d] = Idle
           /\ call'[c] # Idle
  <1>1. CallsShaped /\ Overlaps
    BY DEF Inv
  <1>2. CASE Begins(c)
    <2>1. /\ call[c] = Idle
          /\ \E new \in CallType : call' = [call EXCEPT ![c] = new] /\ new.stage \notin {"ready", "done", "stopped"}
          /\ overlap' = [d \in Calls |->
                    IF d = c THEN {o \in Calls : Running(o)}
                    ELSE IF Running(d) THEN overlap[d] \cup {c} ELSE overlap[d]]
      BY <1>2, BeginShapes
    <2>2. overlap[c] = {}
      BY <1>1, <2>1 DEF Overlaps
    <2>3. call'[c].stage # "ready"
      BY <1>1, <2>1 DEF CallsShaped
    <2>4. QED
      BY <1>1, <2>1, <2>2, <2>3 DEF CallsShaped, Idle
  <1>3. CASE Goes(c)
    <2>1. PICK stage \in Stages, rest \in {call[c].rest, Tail(call[c].rest)} :
              call' = [call EXCEPT ![c].stage = stage, ![c].rest = rest]
      BY <1>1, <1>3, GoShapes
    <2>2. call[c] \in CallType /\ overlap' = overlap
      BY <1>1, <1>3, KindOfStage, GoShapes
    <2>3. call'[c].stage # "ready"
      BY <1>1, <1>3, GoShapes DEF SendCall, MarkCall, GetCall, DeleteCall
    <2>4. /\ call'[c].does = call[c].does /\ call'[c].user = call[c].user
          /\ call'[c].message = call[c].message /\ call'[c].given = call[c].given
          /\ \A d \in Calls : d # c => call'[d] = call[d]
      BY <1>1, <2>1, <2>2 DEF CallsShaped, CallType
    <2>5. call'[c] # Idle /\ call[c] # Idle
      BY <1>1, <1>3, <2>3, GoShapes, KindOfStage DEF Idle
    <2>6. QED
      BY <2>2, <2>4, <2>5
  <1>4. QED
    BY <1>2, <1>3, StepKinds

LEMMA KeepsOverlaps == ASSUME Inv, NEW c \in Calls, StepOf(c) PROVE Overlaps'
  <1>1. CallsShaped /\ Overlaps
    BY DEF Inv
  <1>2. CASE Begins(c)
    <2>1. /\ call[c] = Idle
          /\ overlap' = [d \in Calls |->
                    IF d = c THEN {o \in Calls : Running(o)}
                    ELSE IF Running(d) THEN overlap[d] \cup {c} ELSE overlap[d]]
      BY <1>2, BeginShapes
    <2>2. ~Running(c) /\ \A d \in Calls : c \notin overlap[d]
      BY <1>1, <2>1 DEF Overlaps, Running, Idle
    <2>3. \A d \in Calls : d # c => (Running(d)' <=> Running(d))
      BY Steady DEF Running
    <2>4. overlap' \in [Calls -> SUBSET Calls]
      BY <1>1, <2>1 DEF Overlaps
    <2>5. ASSUME NEW d \in Calls, NEW e \in overlap'[d]
          PROVE  d \in overlap'[e] /\ e # d /\ call'[e] # Idle
      <3>1. e \in Calls
        BY <2>4
      <3>2. CASE d = c
        <4>1. Running(e) /\ e # c
          BY <2>1, <2>2, <3>2
        <4>2. QED
          BY <1>1, <2>1, <3>1, <3>2, <4>1, KindOfStage, Steady
      <3>3. CASE d # c /\ e = c
        BY <1>1, <2>1, <2>2, <3>3, Steady DEF Overlaps
      <3>4. CASE d # c /\ e # c
        BY <1>1, <2>1, <3>1, <3>4, Steady DEF Overlaps
      <3>5. QED
        BY <3>2, <3>3, <3>4
    <2>6. ASSUME NEW d \in Calls, NEW e \in Calls, d # e, Running(d)', Running(e)'
          PROVE  e \in overlap'[d]
      BY <1>1, <2>1, <2>3, <2>6 DEF Overlaps
    <2>7. QED
      BY <2>4, <2>5, <2>6 DEF Overlaps
  <1>3. CASE Goes(c)
    <2>1. overlap' = overlap /\ (Running(c)' => Running(c))
      BY <1>1, <1>3, GoShapes
    <2>2. \A d \in Calls : d # c => (Running(d)' <=> Running(d))
      BY Steady DEF Running
    <2>3. QED
      BY <1>1, <2>1, <2>2, Steady DEF Overlaps
  <1>4. QED
    BY <1>2, <1>3, StepKinds

\* A row is added by a call, about its message; or a deletion takes rows away.
Added(c, row) ==
    /\ rows' = rows \cup {row} /\ messages' = messages /\ told' = told
    /\ row \in RowType /\ row.by = c /\ row.message = call[c].message
    /\ \/ AddRecipient(c) /\ row.table = "recipients" /\ call[c].does = "send"
       \/ CreateMark(c) /\ row.table \in {"readBy", "deletedBy"}
          /\ row.table = call[c].does /\ row.user = call[c].user

LEMMA RowChanges ==
    ASSUME Inv, NEW c \in Calls, StepOf(c)
    PROVE  rows' = rows \/ (\E row : Added(c, row)) \/ DeleteRows(c)
  <1>0. CallsShaped
    BY DEF Inv
  <1>1. CASE AddRecipient(c)
    <2> DEFINE row == Row(c, "recipients", Head(call[c].rest))
    <2>1. SendCall(c) /\ Head(call[c].rest) \in SphereAccess
      BY <1>0, <1>1, KindOfStage DEF AddRecipient, SendCall
    <2>2. row \in RowType /\ row.by = c /\ row.message = call[c].message /\ row.table = "recipients"
      BY <2>1 DEF Row, RowType, SendCall, MessageIds, Lists
    <2>3. QED
      BY <1>1, <2>1, <2>2 DEF Added, AddRecipient, SendCall
  <1>2. CASE CreateMark(c)
    <2> DEFINE row == Row(c, call[c].does, call[c].user)
    <2>1. MarkCall(c) /\ call[c].user \in SphereAccess
      BY <1>0, <1>2, KindOfStage, MembersHaveAccess DEF CreateMark, MarkCall
    <2>2. /\ row \in RowType /\ row.by = c /\ row.message = call[c].message
          /\ row.table = call[c].does /\ row.user = call[c].user
          /\ call[c].does \in {"readBy", "deletedBy"}
      BY <2>1 DEF Row, RowType, MarkCall, MessageIds, Lists
    <2>3. QED
      BY <1>2, <2>2 DEF Added, CreateMark
  <1>3. CASE ~AddRecipient(c) /\ ~CreateMark(c) /\ ~DeleteRows(c)
    <2>1. CASE Begins(c)
      BY <2>1, BeginShapes
    <2>2. CASE Goes(c)
      BY <1>3, <2>2 DEF Goes, FindRecipient, Notify, FindMark, Include, Stop
    <2>3. QED
      BY <2>1, <2>2, StepKinds
  <1>4. QED
    BY <1>1, <1>2, <1>3

\* A message is added by the call that sends it.
Sent(c, m) ==
    /\ messages' = messages \cup {m} /\ rows' = rows /\ told' = told
    /\ m \in MessageType /\ m.id = c /\ call[c] = Idle /\ Running(c)'

LEMMA MessageChanges ==
    ASSUME Inv, NEW c \in Calls, StepOf(c)
    PROVE  messages' = messages \/ (\E m : Sent(c, m)) \/ DeleteRows(c)
  <1>1. CASE \E u \in Users, everyone \in BOOLEAN, list \in Recipients : sendMessage(c, u, everyone, list)
    <2>1. PICK u \in Users, everyone \in BOOLEAN, list \in Recipients : sendMessage(c, u, everyone, list)
      BY <1>1
    <2> DEFINE m == [id |-> c, owner |-> u, everyoneInSphere |-> everyone]
    <2>2. m \in MessageType /\ m.id = c
      BY DEF MessageType, MessageIds
    <2>3. messages' = messages \cup {m} /\ rows' = rows /\ told' = told /\ call[c] = Idle
      BY <2>1 DEF sendMessage, Begin
    <2>4. call'[c].stage = "recipients"
      BY <2>1 DEF sendMessage, Begin, Inv, CallsShaped
    <2> HIDE DEF m
    <2>5. Sent(c, m)
      BY <2>2, <2>3, <2>4 DEF Sent, Running
    <2>6. QED
      BY <2>5
  <1>2. CASE Begins(c) /\ ~\E u \in Users, everyone \in BOOLEAN, list \in Recipients : sendMessage(c, u, everyone, list)
    BY <1>2 DEF Begins, deleteMessage, mark, getMessages, deleteSphereMessages
  <1>3. CASE Goes(c)
    BY <1>3 DEF Goes, FindRecipient, AddRecipient, Notify, FindMark, CreateMark, Include, Stop
  <1>4. QED
    BY <1>1, <1>2, <1>3, StepKinds

\* A step that adds a row is one of a call that is running; so is one that deletes.
LEMMA AddedWhileRunning ==
    ASSUME CallsShaped, NEW c \in Calls, NEW row, Added(c, row) \/ DeleteRows(c)
    PROVE  Running(c) /\ call[c] # Idle
  BY KindOfStage DEF Added, AddRecipient, CreateMark, DeleteRows, Running

\* What a deletion takes away, and what it leaves.
LEMMA RowsDeleted ==
    ASSUME CallsShaped, NEW c \in Calls, DeleteRows(c)
    PROVE  /\ call[c].does \in {"delete", "deleteAll"}
           /\ rows' \subseteq rows /\ messages' \subseteq messages
           /\ \A r \in rows \ rows' : Deletes(c, r.message)
           /\ \A m \in messages \ messages' : Deletes(c, m.id)
           /\ Left(c) = Left(c)' \cup {Head(call[c].rest)}
           /\ \A r \in rows' : Deletes(c, r.message) => r.table # Head(call[c].rest)
           /\ Head(call[c].rest) # "messages" => messages' = messages
           /\ Head(call[c].rest) = "messages" => \A m \in messages' : ~Deletes(c, m.id)
           /\ call[c].does = "deleteAll" => "messages" \notin Left(c)'
           /\ call'[c].stage = "deleting" \/ (call'[c].stage = "done" /\ Left(c)' = {})
           /\ told' = told
  <1> DEFINE r == call[c].rest
  <1>1. DeleteCall(c) /\ call[c] \in CallType /\ call[c].stage = "deleting"
    BY KindOfStage DEF DeleteRows
  <1>2. r # <<>> /\ r \in RestTables(call[c].does) /\ call[c].does \in {"delete", "deleteAll"}
    BY <1>1 DEF DeleteCall
  <1>3. /\ Tail(r) \in RestTables(call[c].does) /\ r \in Seq(Tables)
        /\ Len(r) = 1 <=> Tail(r) = <<>>
    BY <1>2, ListsEnd
  <1>4. /\ call'[c].rest = Tail(r)
        /\ call'[c].stage = IF Len(r) = 1 THEN "done" ELSE "deleting"
    BY <1>1 DEF DeleteRows, CallsShaped, CallType
  <1>5. /\ Left(c) = Left(c)' \cup {Head(r)}
        /\ \A x \in Left(c)' : \E j \in DOMAIN r : j # 1 /\ x = r[j]
    <2>1. /\ Len(r) \in Nat /\ DOMAIN r = 1..Len(r) /\ Len(Tail(r)) = Len(r) - 1
          /\ DOMAIN Tail(r) = 1..(Len(r) - 1)
      BY <1>2, <1>3
    <2>2. \A i \in 1..(Len(r) - 1) : Tail(r)[i] = r[i + 1]
      BY <1>2, <1>3
    <2>3. ASSUME NEW i \in DOMAIN r
          PROVE  r[i] = Head(r) \/ \E j \in DOMAIN Tail(r) : r[i] = Tail(r)[j]
      <3>1. CASE i = 1
        BY <3>1, <1>2, <1>3
      <3>2. CASE i # 1
        <4>1. i - 1 \in 1..(Len(r) - 1) /\ (i - 1) + 1 = i
          BY <2>1, <3>2
        <4>2. QED
          BY <2>1, <2>2, <4>1
      <3>3. QED
        BY <3>1, <3>2
    <2>5. \A i \in DOMAIN Tail(r) : i + 1 \in DOMAIN r /\ i + 1 # 1 /\ Tail(r)[i] = r[i + 1]
      BY <2>1, <2>2
    <2>4. 1 \in DOMAIN r /\ r[1] = Head(r)
      BY <1>2, <1>3
    <2>6. QED
      BY <1>4, <2>3, <2>4, <2>5 DEF Left
  <1>6. call[c].does = "deleteAll" => "messages" \notin Left(c)'
    <2> SUFFICES ASSUME call[c].does = "deleteAll" PROVE "messages" \notin Left(c)'
      OBVIOUS
    <2> HIDE DEF r
    <2>1. r \in {<<"messages", "recipients", "readBy", "deletedBy">>,
                 <<"recipients", "readBy", "deletedBy">>, <<"readBy", "deletedBy">>, <<"deletedBy">>}
      BY <1>2 DEF RestTables, AllTables
    <2>2. \A j \in DOMAIN r : j # 1 => r[j] # "messages"
      <3>1. CASE r = <<"messages", "recipients", "readBy", "deletedBy">>
        BY <3>1
      <3>2. CASE r = <<"recipients", "readBy", "deletedBy">>
        BY <3>2
      <3>3. CASE r = <<"readBy", "deletedBy">> \/ r = <<"deletedBy">>
        BY <3>3
      <3>4. QED
        BY <2>1, <3>1, <3>2, <3>3
    <2>3. QED
      BY <1>5, <2>2
  <1>7. call'[c].stage = "done" => Left(c)' = {}
    BY <1>3, <1>4 DEF Left
  <1>8. /\ rows' \subseteq rows /\ messages' \subseteq messages
        /\ \A q \in rows \ rows' : Deletes(c, q.message)
        /\ \A m \in messages \ messages' : Deletes(c, m.id)
        /\ \A q \in rows' : Deletes(c, q.message) => q.table # Head(r)
        /\ Head(r) # "messages" => messages' = messages
        /\ Head(r) = "messages" => \A m \in messages' : ~Deletes(c, m.id)
        /\ told' = told
    BY <1>2 DEF DeleteRows, Deletes
  <1>9. QED
    BY <1>2, <1>4, <1>5, <1>6, <1>7, <1>8

\* Whoever runs while a call of another does something ran at the same time as it.
LEMMA RunningOverlap ==
    ASSUME Inv, NEW c \in Calls, NEW d \in Calls, c # d, Running(c), Running(d)
    PROVE  c \in overlap[d] /\ d \in overlap[c]
  BY DEF Inv, Overlaps

LEMMA DeletesSteady ==
    ASSUME Inv, NEW c \in Calls, StepOf(c), NEW d \in Calls, NEW m
    PROVE  /\ Deletes(d, m) => Deletes(d, m)'
           /\ Deletes(d, m)' /\ call[d] # Idle => Deletes(d, m)
           /\ Undone(d) => Undone(d)'
           /\ Unmarked(d, m) => Unmarked(d, m)'
  <1>1. ASSUME NEW e \in Calls, Deletes(e, m) \/ call[e].does \in {"delete", "deleteAll"}
        PROVE  call'[e].does = call[e].does /\ call'[e].message = call[e].message
    <2>1. call[e] # Idle
      BY <1>1 DEF Deletes, Idle
    <2>2. QED
      BY <2>1, Steady
  <1>2. overlap[d] \subseteq Calls /\ overlap[d] \subseteq overlap'[d]
    BY Steady DEF Inv, Overlaps
  <1>3. Undone(d) => Undone(d)'
    BY <1>1, <1>2 DEF Undone
  <1>4. Unmarked(d, m) => Unmarked(d, m)'
    BY <1>1, <1>2 DEF Unmarked
  <1>5. Deletes(d, m) => Deletes(d, m)'
    BY <1>1 DEF Deletes
  <1>6. Deletes(d, m)' /\ call[d] # Idle => Deletes(d, m)
    BY Steady DEF Deletes
  <1>7. QED
    BY <1>3, <1>4, <1>5, <1>6

LEMMA KeepsRowsOfCalls == ASSUME Inv, NEW c \in Calls, StepOf(c) PROVE RowsOfCalls'
  <1> SUFFICES ASSUME NEW r \in rows', r.by \in Calls
               PROVE  /\ call'[r.by] # Idle /\ r.message = call'[r.by].message
                      /\ IF r.table = "recipients" THEN call'[r.by].does = "send"
                         ELSE r.table = call'[r.by].does /\ r.user = call'[r.by].user
    BY DEF RowsOfCalls
  <1>1. CASE r \in rows
    BY <1>1, Steady DEF Inv, RowsOfCalls
  <1>2. CASE \E row : Added(c, row) /\ r = row
    <2>1. Added(c, r)
      BY <1>2
    <2>2. call[c] # Idle
      BY <2>1, AddedWhileRunning DEF Inv
    <2>3. QED
      BY <2>1, <2>2, Steady DEF Added
  <1>3. QED
    BY <1>1, <1>2, RowChanges, RowsDeleted DEF Inv, Added

\* Only its second look, which finds no mark, brings a call to making one.
LEMMA LookedBefore ==
    ASSUME CallsShaped, NEW c \in Calls, StepOf(c), call'[c].stage \in {"validate", "mark"}
    PROVE  FindMark(c) /\ ~AlreadyExisting(c)
  <1>1. CASE Begins(c)
    <2>1. call'[c].stage \in {"recipients", "deleting", "find", "include"}
      BY <1>1 DEF Begins, sendMessage, deleteMessage, mark, getMessages, deleteSphereMessages, Begin, CallsShaped
    <2>2. QED
      BY <2>1
  <1>2. CASE Goes(c)
    <2>1. call[c] \in CallType
      BY KindOfStage
    <2>2. QED
      BY <1>2, <2>1 DEF Goes, FindRecipient, AddRecipient, Notify, FindMark, CreateMark, Include,
                        DeleteRows, Stop, Step, To, CallsShaped, CallType
  <1>3. QED
    BY <1>1, <1>2, StepKinds

LEMMA KeepsMarksRaced == ASSUME Inv, NEW c \in Calls, StepOf(c) PROVE MarksRaced'
  <1> SUFFICES ASSUME NEW d \in Calls, call'[d].stage \in {"validate", "mark"},
                      NEW r \in rows', r.table = call'[d].does, r.message = call'[d].message,
                      r.user = call'[d].user
               PROVE  r.by \in overlap'[d]
    BY DEF MarksRaced
  <1>0. CallsShaped
    BY DEF Inv
  <1>1. CASE d = c
    <2>1. FindMark(c) /\ ~AlreadyExisting(c)
      BY <1>0, <1>1, LookedBefore
    <2>2. rows' = rows /\ call[c] # Idle
      BY <1>0, <2>1, KindOfStage DEF FindMark, Running
    <2>3. QED
      BY <1>1, <2>1, <2>2, Steady DEF AlreadyExisting
  <1>2. CASE d # c
    <2>1. call'[d] = call[d]
      BY <1>2, Steady
    <2>2. CASE r \in rows
      BY <2>1, <2>2, Steady DEF Inv, MarksRaced
    <2>3. CASE \E row : Added(c, row) /\ r = row
      <3>1. Running(c) /\ Running(d) /\ r.by = c
        BY <1>0, <2>1, <2>3, AddedWhileRunning DEF Added, Running
      <3>2. QED
        BY <1>2, <3>1, RunningOverlap, Steady
    <2>4. QED
      BY <1>0, <2>2, <2>3, RowChanges, RowsDeleted DEF Added
  <1>3. QED
    BY <1>1, <1>2

LEMMA KeepsOneMark == ASSUME Inv, NEW c \in Calls, StepOf(c) PROVE OneMarkEach'
  <1> SUFFICES ASSUME NEW r \in rows', NEW q \in rows', r # q, r.table # "recipients",
                      r.table = q.table, r.message = q.message, r.user = q.user
               PROVE  r.by \in Calls /\ q.by \in Calls /\ r.by \in overlap'[q.by]
    BY DEF OneMarkEach
  <1>0. CallsShaped
    BY DEF Inv
  <1>1. CASE r \in rows /\ q \in rows
    BY <1>1, Steady DEF Inv, OneMarkEach
  <1>2. ASSUME NEW new \in rows', NEW old \in rows, Added(c, new),
               new.table # "recipients", new.table = old.table, new.message = old.message,
               new.user = old.user
        PROVE  new.by = c /\ old.by \in Calls /\ old.by \in overlap'[c] /\ c \in overlap'[old.by]
    <2>1. call[c].stage = "mark" /\ old.by \in overlap[c]
      BY <1>2 DEF Added, CreateMark, Inv, MarksRaced
    <2>2. old.by \in Calls /\ c \in overlap[old.by]
      BY <2>1 DEF Inv, Overlaps
    <2>3. QED
      BY <1>2, <2>1, <2>2, Steady DEF Added
  <1>3. QED
    BY <1>0, <1>1, <1>2, RowChanges, RowsDeleted DEF Added

LEMMA KeepsMessage == ASSUME Inv, NEW c \in Calls, StepOf(c) PROVE MessageKept'
  <1> DEFINE S == {"recipients", "add", "find", "validate", "mark"}
  <1> SUFFICES ASSUME NEW d \in Calls, call'[d].stage \in S
               PROVE  (call[d].message \in Ids \/ \E e \in overlap[d] : Deletes(e, call[d].message))'
    BY DEF MessageKept
  <1>0. CallsShaped
    BY DEF Inv
  <1>1. CASE d # c
    <2>1. call'[d] = call[d]
      BY <1>1, Steady
    <2>2. CASE \E e \in overlap[d] : Deletes(e, call[d].message)
      <3>1. PICK e \in overlap[d] : Deletes(e, call[d].message)
        BY <2>2
      <3>2. e \in Calls
        BY DEF Inv, Overlaps
      <3>3. QED
        BY <2>1, <3>1, <3>2, DeletesSteady, Steady
    <2>3. CASE call[d].message \in Ids /\ call[d].message \notin Ids'
      <3>1. DeleteRows(c) /\ Deletes(c, call[d].message)
        BY <1>0, <2>3, MessageChanges, RowsDeleted DEF Ids, Sent
      <3>2. Running(c) /\ Running(d)
        BY <1>0, <2>1, <3>1, AddedWhileRunning DEF Running
      <3>3. QED
        BY <1>1, <2>1, <3>1, <3>2, RunningOverlap, DeletesSteady, Steady
    <2>4. QED
      BY <2>1, <2>2, <2>3 DEF Inv, MessageKept
  <1>2. CASE d = c /\ Begins(c)
    <2>1. CASE \E u \in Users, everyone \in BOOLEAN, list \in Recipients : sendMessage(c, u, everyone, list)
      <3>1. PICK u \in Users, everyone \in BOOLEAN, list \in Recipients : sendMessage(c, u, everyone, list)
        BY <2>1
      <3>2. call'[c].message = c
        BY <1>0, <3>1 DEF sendMessage, Begin, CallsShaped
      <3>3. [id |-> c, owner |-> u, everyoneInSphere |-> everyone] \in messages'
        BY <3>1 DEF sendMessage
      <3>4. c \in Ids'
        BY <3>3 DEF Ids
      <3>5. QED
        BY <1>2, <3>2, <3>4
    <2>2. CASE \E u \in Users, m \in Ids, table \in {"readBy", "deletedBy"} : mark(c, u, m, table)
      BY <1>0, <1>2, <2>2 DEF mark, Begin, CallsShaped, Ids
    <2>3. CASE ~\E u \in Users, everyone \in BOOLEAN, list \in Recipients : sendMessage(c, u, everyone, list)
      <3>1. CASE ~\E u \in Users, m \in Ids, table \in {"readBy", "deletedBy"} : mark(c, u, m, table)
        BY <1>0, <1>2, <2>3, <3>1 DEF Begins, deleteMessage, getMessages, deleteSphereMessages, Begin, CallsShaped
      <3>2. QED
        BY <2>2, <3>1
    <2>4. QED
      BY <2>1, <2>3
  <1>3. CASE d = c /\ Goes(c)
    <2>1. call[c] \in CallType /\ call[c] # Idle
      BY <1>0, <1>3, KindOfStage, GoShapes
    <2>2. FindRecipient(c) \/ AddRecipient(c) \/ FindMark(c)
      BY <1>0, <1>3, <2>1 DEF Goes, Notify, CreateMark, Include, DeleteRows, Stop, Step, To, CallsShaped, CallType
    <2>3. call[c].stage \in S /\ messages' = messages
      BY <2>2 DEF FindRecipient, AddRecipient, FindMark
    <2>4. CASE call[c].message \in Ids
      BY <1>3, <2>1, <2>3, <2>4, Steady DEF Ids
    <2>5. CASE \E e \in overlap[c] : Deletes(e, call[c].message)
      <3>1. PICK e \in overlap[c] : Deletes(e, call[c].message)
        BY <2>5
      <3>2. e \in Calls
        BY DEF Inv, Overlaps
      <3>3. QED
        BY <1>3, <2>1, <3>1, <3>2, DeletesSteady, Steady
    <2>6. QED
      BY <2>3, <2>4, <2>5 DEF Inv, MessageKept
  <1>4. QED
    BY <1>1, <1>2, <1>3, StepKinds

\* However its list ends: a step of a deletion leaves nothing in the tables it has been
\* through but what was added meanwhile.
LEMMA RowsEmptied ==
    ASSUME Inv, NEW c \in Calls, DeleteRows(c)
    PROVE  Emptied(c)'
  <1> DEFINE head == Head(call[c].rest)
  <1>0. CallsShaped /\ StepOf(c)
    BY DEF Inv, StepOf
  <1>1. Emptied(c)
    BY DEF DeleteRows, Inv, DeletesProgress
  <1>2. /\ call[c] # Idle /\ rows' \subseteq rows /\ messages' \subseteq messages
        /\ Left(c) = Left(c)' \cup {head}
        /\ \A r \in rows' : Deletes(c, r.message) => r.table # head
        /\ head = "messages" => \A m \in messages' : ~Deletes(c, m.id)
    BY <1>0, RowsDeleted, AddedWhileRunning
  <1> HIDE DEF head
  <1>3. ASSUME NEW r \in rows', Deletes(c, r.message)', r.table \notin Left(c)'
        PROVE  r.by \in overlap'[c]
    <2>1. Deletes(c, r.message)
      BY <1>0, <1>2, <1>3, DeletesSteady
    <2>2. r.table \notin Left(c)
      BY <1>2, <1>3, <2>1
    <2>3. QED
      BY <1>0, <1>1, <1>2, <2>1, <2>2, Steady DEF Emptied
  <1>4. ASSUME call'[c].does = "deleteAll", "messages" \notin Left(c)', NEW m \in messages'
        PROVE  m.id \in overlap'[c]
    <2>1. call[c].does = "deleteAll"
      BY <1>0, <1>2, <1>4, Steady
    <2>2. head # "messages"
      BY <1>2, <2>1 DEF Deletes
    <2>3. m.id \in overlap[c]
      BY <1>1, <1>2, <1>4, <2>1, <2>2 DEF Emptied
    <2>4. QED
      BY <1>0, <2>3, Steady
  <1>5. QED
    BY <1>3, <1>4 DEF Emptied

\* A deletion that begins has all tables before it.
LEMMA DeletingBegins ==
    ASSUME Inv, NEW c \in Calls, Begins(c), call'[c].stage = "deleting"
    PROVE  Emptied(c)'
  <1>1. CallsShaped
    BY DEF Inv
  <1>2. call'[c].rest \in {AllTables("delete"), AllTables("deleteAll")}
    BY <1>1 DEF Begins, sendMessage, deleteMessage, mark, getMessages, deleteSphereMessages, Begin, CallsShaped
  <1>3. Tables \subseteq Left(c)'
    <2>1. \E i, j, k, l \in DOMAIN call'[c].rest :
             /\ call'[c].rest[i] = "recipients" /\ call'[c].rest[j] = "readBy"
             /\ call'[c].rest[k] = "deletedBy" /\ call'[c].rest[l] = "messages"
      <3>1. CASE call'[c].rest = <<"recipients", "readBy", "deletedBy", "messages">>
        BY <3>1
      <3>2. CASE call'[c].rest = <<"messages", "recipients", "readBy", "deletedBy">>
        BY <3>2
      <3>3. QED
        BY <1>2, <3>1, <3>2 DEF AllTables
    <2>2. QED
      BY <2>1 DEF Left, Tables, Lists
  <1>4. rows' \subseteq RowType
    BY BeginShapes DEF Inv, Stored
  <1>5. QED
    BY <1>3, <1>4 DEF Emptied, RowType, Tables

LEMMA KeepsProgress == ASSUME Inv, NEW c \in Calls, StepOf(c) PROVE DeletesProgress'
  <1> SUFFICES ASSUME NEW d \in Calls, call'[d].stage = "deleting" PROVE Emptied(d)'
    BY DEF DeletesProgress
  <1>0. CallsShaped
    BY DEF Inv
  <1>1. CASE d # c
    <2>1. call'[d] = call[d] /\ Left(d)' = Left(d) /\ Emptied(d) /\ overlap[d] \subseteq overlap'[d]
      BY <1>1, Steady DEF Left, Inv, DeletesProgress
    <2>2. Running(d) /\ Running(d)'
      BY <2>1 DEF Running
    <2>3. ASSUME NEW r \in rows', Deletes(d, r.message)', r.table \notin Left(d)'
          PROVE  r.by \in overlap'[d]
      <3>1. CASE r \in rows
        BY <2>1, <2>3, <3>1 DEF Emptied, Deletes
      <3>2. CASE \E row : Added(c, row) /\ r = row
        <4>1. Running(c) /\ r.by = c
          BY <1>0, <3>2, AddedWhileRunning DEF Added
        <4>2. QED
          BY <1>1, <2>1, <2>2, <4>1, RunningOverlap
      <3>3. QED
        BY <1>0, <3>1, <3>2, RowChanges, RowsDeleted DEF Added
    <2>4. ASSUME call'[d].does = "deleteAll", "messages" \notin Left(d)', NEW m \in messages'
          PROVE  m.id \in overlap'[d]
      <3>1. CASE m \in messages
        BY <2>1, <2>4, <3>1 DEF Emptied
      <3>2. CASE \E new : Sent(c, new) /\ m = new
        <4>1. Running(c)' /\ m.id = c
          BY <3>2 DEF Sent
        <4>2. QED
          BY <1>1, <2>2, <4>1, KeepsOverlaps DEF Overlaps
      <3>3. QED
        BY <1>0, <3>1, <3>2, MessageChanges, RowsDeleted DEF Sent
    <2>5. QED
      BY <2>3, <2>4 DEF Emptied
  <1>2. CASE d = c /\ Begins(c)
    BY <1>2, DeletingBegins
  <1>3. CASE d = c /\ Goes(c)
    <2>1. call[c] \in CallType
      BY <1>0, KindOfStage
    <2>2. DeleteRows(c)
      BY <1>0, <1>3, <2>1 DEF Goes, FindRecipient, AddRecipient, Notify, FindMark, CreateMark,
                              Include, Stop, Step, To, CallsShaped, CallType
    <2>3. QED
      BY <1>3, <2>2, RowsEmptied
  <1>4. QED
    BY <1>1, <1>2, <1>3, StepKinds

LEMMA KeepsRowsHaveMessage == ASSUME Inv, NEW c \in Calls, StepOf(c) PROVE RowsHaveMessage'
  <1> SUFFICES ASSUME NEW r \in rows'
               PROVE  (\/ r.message \in Ids
                       \/ \E d \in Calls : Deletes(d, r.message) /\ call[d].stage \in {"deleting", "stopped"}
                       \/ r.by \in Calls /\ \E d \in overlap[r.by] : Deletes(d, r.message))'
    BY DEF RowsHaveMessage
  <1>0. CallsShaped /\ overlap \in [Calls -> SUBSET Calls]
    BY DEF Inv, Overlaps
  <1>1. CASE r.by \in Calls /\ \E d \in overlap[r.by] : Deletes(d, r.message)
    <2>1. PICK d \in overlap[r.by] : Deletes(d, r.message)
      BY <1>1
    <2>2. d \in Calls /\ d \in overlap'[r.by]
      BY <1>0, <1>1, Steady
    <2>3. QED
      BY <1>1, <2>1, <2>2, DeletesSteady
  <1>2. ASSUME DeleteRows(c), Deletes(c, r.message)
        PROVE  \/ (Deletes(c, r.message) /\ call[c].stage = "deleting")'
               \/ (r.by \in Calls /\ \E d \in overlap[r.by] : Deletes(d, r.message))'
    <2>1. CASE call'[c].stage = "deleting"
      BY <1>2, <2>1, DeletesSteady
    <2>2. CASE Left(c)' = {}
      <3>1. Deletes(c, r.message)'
        BY <1>2, DeletesSteady
      <3>2. r.by \in overlap'[c]
        BY <1>2, <2>2, <3>1, RowsEmptied DEF Emptied
      <3>3. r.by \in Calls /\ c \in overlap'[r.by]
        BY <3>2, KeepsOverlaps DEF Overlaps
      <3>4. QED
        BY <3>1, <3>3
    <2>3. QED
      BY <1>0, <1>2, <2>1, <2>2, RowsDeleted
  <1>3. CASE r \in rows /\ r.message \in Ids /\ r.message \notin Ids'
    <2>1. DeleteRows(c) /\ Deletes(c, r.message)
      BY <1>0, <1>3, MessageChanges, RowsDeleted DEF Ids, Sent
    <2>2. QED
      BY <1>2, <2>1
  <1>4. CASE \E d \in Calls : Deletes(d, r.message) /\ call[d].stage \in {"deleting", "stopped"}
    <2>1. PICK d \in Calls : Deletes(d, r.message) /\ call[d].stage \in {"deleting", "stopped"}
      BY <1>4
    <2>2. CASE d # c
      BY <2>1, <2>2, Steady, DeletesSteady
    <2>3. CASE d = c
      <3>1. Goes(c) /\ Running(c) /\ call[c] \in CallType
        BY <1>0, <2>1, <2>3, StepKinds, BeginShapes, GoShapes, KindOfStage DEF Idle
      <3>2. DeleteRows(c) \/ Stop(c)
        BY <2>1, <2>3, <3>1 DEF Goes, FindRecipient, AddRecipient, Notify, AllAdded, FindMark, CreateMark,
                                Include, Running
      <3>3. CASE Stop(c)
        BY <1>0, <2>1, <2>3, <3>1, <3>3, DeletesSteady DEF Stop, To, CallsShaped, CallType
      <3>4. QED
        BY <1>2, <2>1, <2>3, <3>2, <3>3
    <2>4. QED
      BY <2>2, <2>3
  <1>5. CASE \E row : Added(c, row) /\ r = row
    <2>1. Added(c, r)
      BY <1>5
    <2>2. r.message = call[c].message /\ r.by = c /\ Ids' = Ids
      BY <2>1 DEF Added, Ids
    <2>3. call[c].stage \in {"add", "mark"}
      BY <2>1 DEF Added, AddRecipient, CreateMark
    <2>4. r.message \in Ids \/ \E d \in overlap[r.by] : Deletes(d, r.message)
      BY <2>2, <2>3 DEF Inv, MessageKept
    <2>5. QED
      BY <1>1, <2>2, <2>4
  <1>6. r \in rows \/ \E row : Added(c, row) /\ r = row
    BY <1>0, RowChanges, RowsDeleted DEF Added
  <1>7. QED
    BY <1>1, <1>3, <1>4, <1>5, <1>6 DEF Inv, RowsHaveMessage

LEMMA KeepsRecipients == ASSUME Inv, NEW c \in Calls, StepOf(c) PROVE RecipientsKept'
  <1> SUFFICES ASSUME NEW d \in Calls, call'[d].stage \in {"recipients", "add"},
                      call'[d].rest # call'[d].given
               PROVE  Undone(d)' \/ \E r \in rows' : r.table = "recipients" /\ r.by = d
    BY DEF RecipientsKept
  <1>0. CallsShaped
    BY DEF Inv
  <1>1. CASE d # c
    <2>1. call'[d] = call[d] /\ SendCall(d) /\ Running(d)
      BY <1>0, <1>1, Steady, KindOfStage DEF Running
    <2>2. CASE Undone(d)
      BY <2>2, DeletesSteady
    <2>3. ASSUME NEW r \in rows, r.table = "recipients", r.by = d, r \notin rows'
          PROVE  Undone(d)
      <3>1. DeleteRows(c) /\ Deletes(c, r.message)
        BY <1>0, <2>3, RowChanges, RowsDeleted DEF Added
      <3>2. r.message = d
        BY <2>1, <2>3 DEF Inv, RowsOfCalls, SendCall
      <3>3. Running(c)
        BY <1>0, <3>1, AddedWhileRunning
      <3>4. QED
        BY <1>1, <2>1, <3>1, <3>2, <3>3, RunningOverlap DEF Deletes, Undone
    <2>4. QED
      BY <2>1, <2>2, <2>3, DeletesSteady DEF Inv, RecipientsKept
  <1>2. CASE d = c /\ Begins(c)
    <2>1. call'[c].rest = call'[c].given
      BY <1>0, <1>2 DEF Begins, sendMessage, deleteMessage, mark, getMessages, deleteSphereMessages, Begin, CallsShaped
    <2>2. QED
      BY <1>2, <2>1
  <1>3. CASE d = c /\ Goes(c)
    <2>1. call[c] \in CallType
      BY <1>0, KindOfStage
    <2>2. FindRecipient(c) \/ AddRecipient(c)
      BY <1>0, <1>3, <2>1 DEF Goes, Notify, FindMark, CreateMark, Include, DeleteRows,
                              Stop, Step, To, CallsShaped, CallType
    <2>3. CASE FindRecipient(c)
      <3>1. call'[c].rest = call[c].rest /\ call'[c].given = call[c].given
            /\ call[c].stage = "recipients" /\ rows' = rows
        BY <1>0, <2>1, <2>3 DEF FindRecipient, Step, To, CallsShaped, CallType
      <3>2. QED
        BY <1>3, <3>1, DeletesSteady DEF Inv, RecipientsKept
    <2>4. CASE AddRecipient(c)
      <3>1. Row(c, "recipients", Head(call[c].rest)) \in rows'
        BY <2>4 DEF AddRecipient
      <3>2. QED
        BY <1>3, <3>1 DEF Row
    <2>5. QED
      BY <2>2, <2>3, <2>4
  <1>4. QED
    BY <1>1, <1>2, <1>3, StepKinds

\* A call that has told somebody is over, and has sent.
LEMMA ToldByDone ==
    ASSUME Inv, NEW t \in told
    PROVE  t[2] \in Calls /\ call[t[2]].stage = "done" /\ call[t[2]] # Idle /\ ~Running(t[2])
  BY DEF Inv, Stored, ToldKept, Idle, Running

LEMMA KeepsTold == ASSUME Inv, NEW c \in Calls, StepOf(c) PROVE ToldKept'
  <1> DEFINE Reached(u, e) ==
        \/ call[e].given = <<>>
        \/ \E r \in rows : r.table = "recipients" /\ r.message = e /\ r.user = u
        \/ Undone(e)
  <1> SUFFICES ASSUME NEW t \in told'
               PROVE  /\ call'[t[2]].stage = "done"
                      /\ \A m \in messages' : m.id = t[2] => Reached(t[1], t[2])'
    BY DEF ToldKept
  <1>0. CallsShaped
    BY DEF Inv
  <1>1. CASE t \in told
    <2>1. t[2] \in Calls /\ call[t[2]] # Idle /\ call[t[2]].stage = "done" /\ ~Running(t[2])
      BY <1>1, ToldByDone
    <2>2. t[2] # c
      BY <1>0, <2>1, StepKinds, BeginShapes, GoShapes
    <2>3. call'[t[2]] = call[t[2]]
      BY <2>1, <2>2, Steady
    <2>4. ASSUME NEW m \in messages', m.id = t[2]
          PROVE  Reached(t[1], t[2])'
      <3>1. m \in messages
        BY <1>0, <2>2, <2>4, MessageChanges, RowsDeleted DEF Sent
      <3>2. CASE call[t[2]].given = <<>> \/ Undone(t[2])
        BY <2>1, <2>3, <3>2, DeletesSteady
      <3>3. CASE \E r \in rows : r.table = "recipients" /\ r.message = t[2] /\ r.user = t[1]
        <4>1. PICK r \in rows : r.table = "recipients" /\ r.message = t[2] /\ r.user = t[1]
          BY <3>3
        <4>2. CASE r \in rows'
          BY <4>1, <4>2
        <4>3. CASE r \notin rows'
          <5>1. /\ DeleteRows(c) /\ Deletes(c, t[2])
                /\ call[c].does = "deleteAll" => "messages" \notin Left(c)'
                /\ call[c] # Idle
            BY <1>0, <4>1, <4>3, RowChanges, RowsDeleted, AddedWhileRunning DEF Added
          <5>2. CASE call[c].does = "delete"
            BY <2>1, <5>1, <5>2, DeletesSteady DEF Deletes, Undone
          <5>3. CASE call[c].does = "deleteAll"
            <6>1. call'[c].does = "deleteAll"
              BY <5>1, <5>3, Steady
            <6>2. t[2] \in overlap'[c]
              BY <2>4, <5>1, <5>3, <6>1, RowsEmptied DEF Emptied
            <6>3. c \in overlap'[t[2]]
              BY <2>1, <6>2, KeepsOverlaps DEF Overlaps
            <6>4. QED
              BY <6>1, <6>3 DEF Undone
          <5>4. QED
            BY <5>1, <5>2, <5>3 DEF Deletes
        <4>4. QED
          BY <4>2, <4>3
      <3>4. QED
        BY <1>1, <2>4, <3>1, <3>2, <3>3 DEF Inv, ToldKept
    <2> HIDE DEF Reached
    <2>5. QED
      BY <2>1, <2>3, <2>4
  <1>2. CASE t \notin told
    <2>1. Notify(c)
      BY <1>2, StepKinds, BeginShapes DEF Goes, FindRecipient, AddRecipient, FindMark, CreateMark,
                                          Include, DeleteRows, Stop
    <2>2. PICK u \in Told(c) : t = <<u, c>>
      BY <1>2, <2>1 DEF Notify
    <2>3. /\ call[c].stage = "recipients" /\ call[c].rest = <<>>
          /\ rows' = rows /\ SendCall(c) /\ call[c] \in CallType
      BY <1>0, <2>1, KindOfStage DEF Notify, AllAdded
    <2>4. call'[c].stage = "done" /\ call'[c].given = call[c].given
      BY <1>0, <2>1, <2>3 DEF Notify, Step, To, CallsShaped, CallType
    <2>5. CASE \E r \in rows : r.table = "recipients" /\ r.by = c /\ r.user = u
      BY <2>2, <2>3, <2>4, <2>5 DEF Inv, RowsOfCalls, SendCall
    <2>6. CASE ~\E r \in rows : r.table = "recipients" /\ r.by = c
      <3>1. call[c].given = <<>> \/ Undone(c)
        BY <2>3, <2>6 DEF Inv, RecipientsKept
      <3>2. QED
        BY <2>2, <2>4, <3>1, DeletesSteady
    <2>7. QED
      BY <2>2, <2>5, <2>6 DEF Told
  <1>3. QED
    BY <1>1, <1>2

LEMMA KeepsStored == ASSUME Inv, NEW c \in Calls, StepOf(c) PROVE Stored'
  <1>0. CallsShaped /\ Stored
    BY DEF Inv
  <1>1. rows' \subseteq RowType
    BY <1>0, RowChanges, RowsDeleted DEF Added, Stored
  <1>2. /\ messages' \subseteq MessageType
        /\ \A m \in messages' : m.id \in Calls => call'[m.id] # Idle
        /\ \A m, n \in messages' : m.id = n.id => m = n
    <2>1. CASE messages' \subseteq messages
      BY <1>0, <2>1, Steady DEF Stored
    <2>2. CASE \E m : Sent(c, m)
      BY <1>0, <2>2, Steady DEF Stored, Sent
    <2>3. QED
      BY <1>0, <2>1, <2>2, MessageChanges, RowsDeleted
  <1>3. told' \subseteq SphereAccess \X Calls
    <2>1. CASE Notify(c)
      <3>1. Told(c) \subseteq SphereAccess
        BY <1>0 DEF Told, SphereUsers, Stored, RowType
      <3>2. QED
        BY <1>0, <2>1, <3>1 DEF Notify, Stored
    <2>2. CASE told' = told
      BY <1>0, <2>2 DEF Stored
    <2>3. QED
      BY <2>1, <2>2, StepKinds, BeginShapes DEF Goes, FindRecipient, AddRecipient, FindMark,
                CreateMark, Include, DeleteRows, Stop
  <1>4. faults' \in 0..MaxFaults
    <2>1. CASE Stop(c)
      BY <1>0, <2>1, MessagesAssumption DEF Stop, Stored
    <2>2. CASE faults' = faults
      BY <1>0, <2>2 DEF Stored
    <2>3. QED
      BY <2>1, <2>2, StepKinds, BeginShapes DEF Goes, FindRecipient, AddRecipient, FindMark,
                CreateMark, Include, DeleteRows, Notify, Step
  <1>5. QED
    BY <1>1, <1>2, <1>3, <1>4 DEF Stored

\* What a call has seen changes in its own steps: when it begins, and table by table.
LEMMA SeenChanges ==
    ASSUME Inv, NEW c \in Calls, StepOf(c)
    PROVE  \/ seen' = seen
           \/ /\ call[c] = Idle /\ call'[c].stage = "include"
              /\ seen' = [seen EXCEPT ![c] =
                    [messages |-> messages, rows |-> {}, unread |-> {"recipients", "deletedBy"}]]
           \/ \E table \in {"recipients", "deletedBy"} : Include(c, table)
  <1>0. CallsShaped
    BY DEF Inv
  <1>1. CASE \E u \in Users, does \in {"get", "request"} : getMessages(c, u, does)
    BY <1>0, <1>1 DEF getMessages, Begin, CallsShaped
  <1>2. CASE Begins(c) /\ ~\E u \in Users, does \in {"get", "request"} : getMessages(c, u, does)
    BY <1>2 DEF Begins, sendMessage, deleteMessage, mark, deleteSphereMessages
  <1>3. CASE Goes(c)
    BY <1>3 DEF Goes, FindRecipient, AddRecipient, Notify, FindMark, CreateMark, DeleteRows, Stop
  <1>4. QED
    BY <1>1, <1>2, <1>3, StepKinds

LEMMA KeepsSeen == ASSUME Inv, NEW c \in Calls, StepOf(c) PROVE SeenOnce'
  <1>0. CallsShaped /\ SeenOnce /\ Stored
    BY DEF Inv
  <1>1. ASSUME NEW d \in Calls, d # c, seen'[d] = seen[d]
        PROVE  seen'[d].unread # {} => call'[d].stage \in {"include", "stopped"}
    BY <1>0, <1>1, Steady DEF SeenOnce
  <1>2. CASE seen' = seen /\ ~\E table \in {"recipients", "deletedBy"} : Include(c, table)
    <2>1. seen[c].unread # {} => call'[c].stage \in {"include", "stopped"}
      <3>1. SUFFICES ASSUME seen[c].unread # {} PROVE call'[c].stage \in {"include", "stopped"}
        OBVIOUS
      <3>2. call[c].stage \in {"include", "stopped"}
        BY <1>0, <3>1 DEF SeenOnce
      <3>3. Goes(c)
        BY <3>2, StepKinds, BeginShapes DEF Idle
      <3>4. Stop(c)
        BY <1>2, <3>2, <3>3 DEF Goes, FindRecipient, AddRecipient, Notify, AllAdded, FindMark,
                                CreateMark, DeleteRows
      <3>5. call[c] \in CallType
        BY <1>0, KindOfStage
      <3>6. QED
        BY <1>0, <3>4, <3>5 DEF Stop, To, CallsShaped, CallType
    <2>2. QED
      BY <1>0, <1>1, <1>2, <2>1 DEF SeenOnce
  <1>3. CASE /\ call'[c].stage = "include"
             /\ seen' = [seen EXCEPT ![c] =
                    [messages |-> messages, rows |-> {}, unread |-> {"recipients", "deletedBy"}]]
    <2>1. [messages |-> messages, rows |-> {}, unread |-> {"recipients", "deletedBy"}] \in SeenType
      BY <1>0 DEF Stored, SeenType, Lists
    <2>2. QED
      BY <1>0, <1>1, <1>3, <2>1 DEF SeenOnce
  <1>4. CASE \E table \in {"recipients", "deletedBy"} : Include(c, table)
    <2>1. PICK table \in {"recipients", "deletedBy"} : Include(c, table)
      BY <1>4
    <2>2. seen[c] \in SeenType /\ call[c] \in CallType
      BY <1>0, KindOfStage DEF SeenOnce
    <2> DEFINE read == {r \in rows : /\ r.table = table
                                     /\ \E m \in seen[c].messages : m.id = r.message
                                     /\ table = "recipients" \/ r.user = call[c].user}
    <2>3. seen' = [seen EXCEPT ![c].rows = @ \cup read, ![c].unread = @ \ {table}]
      BY <2>1 DEF Include
    <2>4. read \subseteq RowType
      BY <1>0 DEF Stored
    <2> HIDE DEF read
    <2>5. seen' \in [Calls -> SeenType] /\ seen'[c].unread = seen[c].unread \ {table}
      BY <1>0, <2>2, <2>3, <2>4 DEF SeenOnce, SeenType
    <2>6. call'[c].stage = IF seen[c].unread = {table} THEN "done" ELSE "include"
      BY <1>0, <2>1, <2>2 DEF Include, Step, To, CallsShaped, CallType
    <2>7. \A d \in Calls : d # c => seen'[d] = seen[d]
      BY <1>0, <2>3 DEF SeenOnce
    <2>8. QED
      BY <1>1, <2>5, <2>6, <2>7 DEF SeenOnce
  <1>5. QED
    BY <1>2, <1>3, <1>4, SeenChanges

\* What a call had hidden is noted when it begins.
LEMMA HiddenChanges ==
    ASSUME Inv, NEW c \in Calls, StepOf(c)
    PROVE  \/ hidden' = hidden
           \/ \E u : /\ call[c] = Idle /\ call'[c].user = u /\ rows' = rows
                     /\ seen'[c].unread = {"recipients", "deletedBy"}
                     /\ hidden' = [hidden EXCEPT ![c] =
                          {r.message : r \in {r \in rows : r.table = "deletedBy" /\ r.user = u}}]
  <1>0. CallsShaped /\ seen \in [Calls -> SeenType]
    BY DEF Inv, SeenOnce
  <1>1. CASE \E u \in Users, does \in {"get", "request"} : getMessages(c, u, does)
    <2>1. PICK u \in Users, does \in {"get", "request"} : getMessages(c, u, does)
      BY <1>1
    <2>2. /\ call[c] = Idle /\ call'[c].user = u /\ rows' = rows
          /\ seen'[c].unread = {"recipients", "deletedBy"}
      BY <1>0, <2>1 DEF getMessages, Begin, CallsShaped
    <2>3. hidden' = [hidden EXCEPT ![c] =
                          {r.message : r \in {r \in rows : r.table = "deletedBy" /\ r.user = u}}]
      BY <2>1 DEF getMessages, Begin
    <2>4. QED
      BY <2>2, <2>3
  <1>2. CASE Begins(c) /\ ~\E u \in Users, does \in {"get", "request"} : getMessages(c, u, does)
    BY <1>2 DEF Begins, sendMessage, deleteMessage, mark, deleteSphereMessages, Begin
  <1>3. CASE Goes(c)
    BY <1>0, <1>3, GoShapes
  <1>4. QED
    BY <1>1, <1>2, <1>3, StepKinds

\* A mark that is there stays, or a deletion that can take it away is going on.
LEMMA MarkStays ==
    ASSUME Inv, NEW c \in Calls, StepOf(c), NEW d \in Calls, d # c, Running(d),
           NEW r \in rows, r \notin rows'
    PROVE  Unmarked(d, r.message)
  <1>0. CallsShaped
    BY DEF Inv
  <1>1. DeleteRows(c) /\ Deletes(c, r.message)
    BY <1>0, RowChanges, RowsDeleted DEF Added
  <1>2. Running(c)
    BY <1>0, <1>1, AddedWhileRunning
  <1>3. QED
    BY <1>1, <1>2, RunningOverlap DEF Deletes, Unmarked

LEMMA KeepsHidden == ASSUME Inv, NEW c \in Calls, StepOf(c) PROVE HiddenKept'
  <1> DEFINE Marked(d, m) == \E r \in rows : r.table = "deletedBy" /\ r.message = m /\ r.user = call[d].user
             Before(d) == call[d].stage # "stopped" => \A m \in hidden[d] : Unmarked(d, m) \/ Marked(d, m)
             After(d) == \A m \in seen[d].messages : m.id \in hidden[d] =>
                            Unmarked(d, m.id) \/ Has(seen[d], "deletedBy", m)
  <1> SUFFICES ASSUME NEW d \in Calls, GetCall(d)'
               PROVE  IF "deletedBy" \in seen'[d].unread THEN Before(d)' ELSE After(d)'
    BY DEF HiddenKept
  <1>0. CallsShaped /\ SeenOnce /\ hidden \in [Calls -> SUBSET MessageIds]
    BY DEF Inv, SeenOnce, HiddenTyped
  <1>1. CASE d # c
    <2>1. call'[d] = call[d] /\ seen'[d] = seen[d] /\ hidden'[d] = hidden[d] /\ GetCall(d)
      <3>1. call'[d] = call[d] /\ GetCall(d)
        BY <1>1, Steady DEF GetCall
      <3>2. seen'[d] = seen[d]
        BY <1>0, <1>1, SeenChanges DEF SeenOnce, Include
      <3>3. hidden'[d] = hidden[d]
        BY <1>0, <1>1, HiddenChanges
      <3>4. QED
        BY <3>1, <3>2, <3>3
    <2>2. CASE "deletedBy" \in seen[d].unread
      <3>1. Before(d)
        BY <2>1, <2>2 DEF Inv, HiddenKept
      <3>2. ASSUME call'[d].stage # "stopped", NEW m \in hidden[d]
            PROVE  (Unmarked(d, m) \/ Marked(d, m))'
        <4>1. Running(d)
          BY <1>0, <2>1, <2>2, <3>2 DEF SeenOnce, Running
        <4>2. CASE Unmarked(d, m)
          BY <4>2, DeletesSteady
        <4>3. CASE Marked(d, m)
          <5>1. PICK r \in rows : r.table = "deletedBy" /\ r.message = m /\ r.user = call[d].user
            BY <4>3
          <5>2. CASE r \in rows'
            BY <2>1, <5>1, <5>2
          <5>3. CASE r \notin rows'
            BY <1>1, <4>1, <5>1, <5>3, MarkStays, DeletesSteady
          <5>4. QED
            BY <5>2, <5>3
        <4>4. QED
          BY <2>1, <3>1, <3>2, <4>2, <4>3
      <3>3. QED
        BY <2>1, <2>2, <3>2
    <2>3. CASE "deletedBy" \notin seen[d].unread
      <3>1. After(d)
        BY <2>1, <2>3 DEF Inv, HiddenKept
      <3>2. QED
        BY <2>1, <2>3, <3>1, DeletesSteady DEF Has
    <2>4. QED
      BY <2>2, <2>3
  <1>2. CASE d = c /\ Begins(c)
    <2>1. call'[c].stage = "include" /\ call[c] = Idle
      BY <1>2, BeginShapes DEF GetCall, CallsShaped, Inv
    <2>2. PICK u \in Users, does \in {"get", "request"} : getMessages(c, u, does)
      BY <1>0, <1>2 DEF Begins, GetCall, sendMessage, deleteMessage, mark, deleteSphereMessages, Begin, CallsShaped
    <2>3. /\ rows' = rows /\ call'[c].user = u /\ "deletedBy" \in seen'[c].unread
          /\ hidden'[c] = {r.message : r \in {r \in rows : r.table = "deletedBy" /\ r.user = u}}
      BY <1>0, <2>2 DEF getMessages, Begin, CallsShaped, SeenOnce
    <2>4. QED
      BY <1>2, <2>3
  <1>3. CASE d = c /\ Goes(c)
    <2>1. /\ GetCall(c) /\ call[c] \in CallType /\ hidden' = hidden /\ call[c] # Idle
          /\ call'[c].user = call[c].user /\ Running(c) /\ call[c].stage # "stopped"
      <3>1. call[c] \in CallType /\ call[c] # Idle /\ hidden' = hidden /\ Running(c)
        BY <1>0, <1>3, KindOfStage, GoShapes
      <3>2. call'[c].user = call[c].user /\ call'[c].does = call[c].does
        BY <3>1, Steady
      <3>3. GetCall(c)
        BY <1>0, <1>3, <3>1, <3>2, KindOfStage DEF GetCall, SendCall, MarkCall, DeleteCall
      <3>4. QED
        BY <3>1, <3>2, <3>3 DEF Running
    <2>2. CASE \E table \in {"recipients", "deletedBy"} : Include(c, table)
      <3>1. PICK table \in {"recipients", "deletedBy"} : Include(c, table)
        BY <2>2
      <3> DEFINE read == {r \in rows : /\ r.table = table
                                       /\ \E m \in seen[c].messages : m.id = r.message
                                       /\ table = "recipients" \/ r.user = call[c].user}
      <3>2. /\ seen' = [seen EXCEPT ![c].rows = @ \cup read, ![c].unread = @ \ {table}]
            /\ rows' = rows
        BY <3>1 DEF Include
      <3>3. seen[c] \in SeenType
        BY <1>0 DEF SeenOnce
      <3>4. /\ seen'[c].messages = seen[c].messages
            /\ seen'[c].rows = seen[c].rows \cup read
            /\ seen'[c].unread = seen[c].unread \ {table}
        <4> HIDE DEF read
        <4>1. QED
          BY <1>0, <3>2, <3>3 DEF SeenOnce, SeenType
      <3>5. CASE "deletedBy" \in seen'[c].unread
        <4>1. Before(c)
          BY <2>1, <3>4, <3>5 DEF Inv, HiddenKept
        <4>2. \A m \in hidden[c] : (Unmarked(c, m) \/ Marked(c, m))'
          BY <2>1, <3>2, <4>1, DeletesSteady
        <4>3. QED
          BY <1>3, <2>1, <3>5, <4>2
      <3>6. CASE "deletedBy" \notin seen[c].unread
        <4>1. After(c)
          BY <2>1, <3>6 DEF Inv, HiddenKept
        <4>2. ASSUME NEW m \in seen[c].messages, m.id \in hidden[c]
              PROVE  Unmarked(c, m.id)' \/ Has(seen'[c], "deletedBy", m)
          BY <3>4, <4>1, <4>2, DeletesSteady DEF Has
        <4>3. QED
          BY <1>3, <2>1, <3>4, <3>6, <4>2
      <3>7. CASE "deletedBy" \in seen[c].unread /\ table = "deletedBy"
        <4>1. Before(c)
          BY <2>1, <3>7 DEF Inv, HiddenKept
        <4>2. ASSUME NEW m \in seen[c].messages, m.id \in hidden[c]
              PROVE  Unmarked(c, m.id)' \/ Has(seen'[c], "deletedBy", m)
          <5>1. CASE Unmarked(c, m.id)
            BY <5>1, DeletesSteady
          <5>2. CASE Marked(c, m.id)
            <6>1. PICK r \in rows : r.table = "deletedBy" /\ r.message = m.id /\ r.user = call[c].user
              BY <5>2
            <6>2. r \in seen'[c].rows
              BY <3>4, <3>7, <6>1
            <6>3. QED
              BY <6>1, <6>2 DEF Has
          <5>3. QED
            BY <2>1, <4>1, <4>2, <5>1, <5>2
        <4>3. QED
          BY <1>3, <2>1, <3>4, <3>7, <4>2
      <3>8. QED
        BY <3>4, <3>5, <3>6, <3>7
    <2>3. CASE Stop(c) /\ ~\E table \in {"recipients", "deletedBy"} : Include(c, table)
      <3>1. call'[c].stage = "stopped" /\ seen' = seen
        BY <1>0, <2>1, <2>3 DEF Stop, To, CallsShaped, CallType
      <3>2. CASE "deletedBy" \notin seen[c].unread
        <4>1. After(c)
          BY <2>1, <3>2 DEF Inv, HiddenKept
        <4>2. QED
          BY <1>3, <2>1, <3>1, <3>2, <4>1, DeletesSteady DEF Has
      <3>3. QED
        BY <1>3, <3>1, <3>2
    <2>4. call[c].stage = "include"
      BY <2>1 DEF GetCall, Running
    <2>5. QED
      BY <1>3, <2>2, <2>3, <2>4 DEF Goes, FindRecipient, AddRecipient, Notify, AllAdded, FindMark,
                                    CreateMark, DeleteRows
  <1>4. QED
    BY <1>1, <1>2, <1>3, StepKinds

LEMMA KeepsHiddenTyped == ASSUME Inv, NEW c \in Calls, StepOf(c) PROVE HiddenTyped'
  <1>1. HiddenTyped /\ rows \subseteq RowType
    BY DEF Inv, Stored
  <1>2. QED
    BY <1>1, HiddenChanges DEF HiddenTyped, RowType

-----------------------------------------------------------------------------
(* The invariant.                                                          *)

LEMMA InitInv == Init => Inv
  <1> SUFFICES ASSUME Init PROVE Inv
    OBVIOUS
  <1>1. CallsShaped /\ call = [c \in Calls |-> Idle]
    BY DEF Init, CallsShaped, CallType, Idle, Stages
  <1>2. Stored
    <2>1. rows \subseteq RowType
      BY MessagesAssumption DEF Init, OldRows, RowType, Lists, MessageIds, SphereAccess
    <2>2. ASSUME NEW m \in messages
          PROVE  m \in MessageType /\ m.id \notin Calls /\ m = [id |-> m.id, owner |-> Owner, everyoneInSphere |-> FALSE]
      <3>1. PICK o \in Old : m = [id |-> o, owner |-> Owner, everyoneInSphere |-> FALSE]
        BY DEF Init
      <3>2. o \in MessageIds /\ o \notin Calls /\ Owner \in Users
        BY MessagesAssumption DEF MessageIds
      <3>3. QED
        BY <3>1, <3>2 DEF MessageType
    <2>3. \A m, n \in messages : m.id = n.id => m = n
      BY <2>2
    <2>4. told \subseteq SphereAccess \X Calls /\ faults \in 0..MaxFaults
      BY MessagesAssumption DEF Init
    <2>5. QED
      BY <2>1, <2>2, <2>3, <2>4 DEF Stored
  <1>3. ASSUME NEW r \in rows PROVE r.by \notin Calls /\ r.message \in Ids
    <2>1. r.by = Nobody /\ r.message \in Old
      BY DEF Init, OldRows
    <2>2. [id |-> r.message, owner |-> Owner, everyoneInSphere |-> FALSE] \in messages
      BY <2>1 DEF Init
    <2>3. r.message \in Ids
      BY <2>2 DEF Ids
    <2>4. QED
      BY <2>1, <2>3, MessagesAssumption
  <1>4. Overlaps
    BY <1>1 DEF Init, Overlaps, Running, Idle
  <1>5. RowsOfCalls /\ RowsHaveMessage
    BY <1>3 DEF RowsOfCalls, RowsHaveMessage
  <1>6. MarksRaced /\ MessageKept /\ DeletesProgress /\ RecipientsKept /\ HiddenKept
    BY <1>1 DEF MarksRaced, MessageKept, DeletesProgress, RecipientsKept, HiddenKept, GetCall, Idle
  <1>7. OneMarkEach
    BY DEF Init, OldRows, OneMarkEach
  <1>8. ToldKept
    BY DEF Init, ToldKept
  <1>9. SeenOnce
    BY DEF Init, SeenOnce, SeenType, Nothing
  <1>10. HiddenTyped
    BY DEF Init, HiddenTyped
  <1>11. QED
    BY <1>1, <1>2, <1>4, <1>5, <1>6, <1>7, <1>8, <1>9, <1>10 DEF Inv

LEMMA NextInv == Inv /\ [Next]_vars => Inv'
  <1> SUFFICES ASSUME Inv, [Next]_vars PROVE Inv'
    OBVIOUS
  <1>1. ASSUME NEW c \in Calls, StepOf(c) PROVE Inv'
    BY <1>1, KeepsShape, KeepsStored, KeepsOverlaps, KeepsRowsOfCalls, KeepsMarksRaced, KeepsOneMark,
       KeepsMessage, KeepsProgress, KeepsRowsHaveMessage, KeepsRecipients, KeepsTold, KeepsSeen,
       KeepsHidden, KeepsHiddenTyped DEF Inv
  <1>2. CASE UNCHANGED vars
    <2>1. (CallsShaped /\ Stored /\ Overlaps)'
      BY <1>2 DEF vars, Inv, CallsShaped, SendCall, MarkCall, GetCall, DeleteCall, Stored, Overlaps, Running
    <2>2. (RowsOfCalls /\ MarksRaced /\ OneMarkEach /\ MessageKept /\ RowsHaveMessage)'
      BY <1>2 DEF vars, Inv, RowsOfCalls, MarksRaced, OneMarkEach, MessageKept, RowsHaveMessage, Ids, Deletes
    <2>3. (DeletesProgress /\ RecipientsKept /\ ToldKept)'
      BY <1>2 DEF vars, Inv, DeletesProgress, Emptied, Deletes, Left, RecipientsKept, ToldKept, Undone
    <2>4. (SeenOnce /\ HiddenTyped /\ HiddenKept)'
      BY <1>2 DEF vars, Inv, SeenOnce, HiddenTyped, HiddenKept, GetCall, Unmarked, Has
    <2>5. QED
      BY <2>1, <2>2, <2>3, <2>4 DEF Inv
  <1>3. QED
    BY <1>1, <1>2 DEF Next, StepOf

-----------------------------------------------------------------------------
(* The properties.                                                         *)

\* The type invariant: one record per message, rows of members only, and what the stage
\* of a call says about what it has seen.
THEOREM MessagesTyped == Spec => []TypeOK
  <1>1. Inv => TypeOK
    <2> SUFFICES ASSUME Inv PROVE TypeOK
      OBVIOUS
    <2>1. CallsShaped /\ Stored /\ Overlaps /\ SeenOnce
      BY DEF Inv
    <2>2. ASSUME NEW c \in Calls
          PROVE  /\ call[c].stage \in Stages /\ overlap[c] \subseteq Calls \ {c}
                 /\ (call[c].stage = "ready") = (call[c] = Idle)
                 /\ seen[c].unread # {} => call[c].stage \in {"include", "stopped"}
      <3>1. call[c].stage \in Stages
        BY <2>1 DEF CallsShaped, CallType
      <3>2. call[c].stage = "ready" <=> call[c] = Idle
        BY <2>1, KindOfStage DEF Idle
      <3>3. overlap[c] \subseteq Calls \ {c}
        BY <2>1 DEF Overlaps
      <3>4. QED
        BY <2>1, <3>1, <3>2, <3>3 DEF SeenOnce
    <2>3. QED
      BY <2>1, <2>2 DEF TypeOK, Stored, RowType, MessageType, MessageIds
  <1>2. QED
    BY InitInv, NextInv, <1>1, PTL DEF Spec

\* A user marks a message twice only with two calls that run at the same time.
THEOREM MarksAreSingle == Spec => []OneMarkEach
  <1>1. Inv => OneMarkEach
    BY DEF Inv
  <1>2. QED
    BY InitInv, NextInv, <1>1, PTL DEF Spec

\* A row without its message is the work of a call that ran at the same time as the
\* deletion, or the deletion has not come to its end.
THEOREM RowsBelong == Spec => []RowsHaveMessage
  <1>1. Inv => RowsHaveMessage
    BY DEF Inv
  <1>2. QED
    BY InitInv, NextInv, <1>1, PTL DEF Spec

\* Who has been notified of a message can read it, until it is deleted or he hides it.
THEOREM NotifiedMayRead == Spec => []NotifiedCanRead
  <1>1. Inv => NotifiedCanRead
    <2> SUFFICES ASSUME Inv, NEW t \in told, NEW m \in messages, m.id = t[2],
                        ~Has(Now(t[1]), "deletedBy", m), ~Undone(t[2]),
                        ~(call[t[2]].given = <<>> /\ ~m.everyoneInSphere)
                 PROVE  m \in Mine(Now(t[1]), t[1], TRUE)
      BY DEF NotifiedCanRead, Undone
    <2>1. CASE m.everyoneInSphere
      BY <2>1 DEF Mine, Now, Gets
    <2>2. CASE \E r \in rows : r.table = "recipients" /\ r.message = t[2] /\ r.user = t[1]
      BY <2>2 DEF Mine, Now, Gets
    <2>3. QED
      BY <2>1, <2>2 DEF Inv, ToldKept
  <1>2. QED
    BY InitInv, NextInv, <1>1, PTL DEF Spec

\* What a user has marked as deleted before he asks is not shown to him.
THEOREM HiddenIsNotShown == Spec => []HiddenStaysHidden
  <1>1. Inv => HiddenStaysHidden
    <2> SUFFICES ASSUME Inv, NEW c \in Calls, call[c].does \in {"get", "request"},
                        call[c].stage = "done", NEW m \in Shown(c), m.id \in hidden[c]
                 PROVE  Unmarked(c, m.id)
      BY DEF HiddenStaysHidden, Unmarked
    <2>1. CallsShaped /\ SeenOnce /\ HiddenKept
      BY DEF Inv
    <2>2. GetCall(c)
      BY <2>1 DEF CallsShaped, SendCall, MarkCall, DeleteCall, Idle
    <2>3. "deletedBy" \notin seen[c].unread
      BY <2>1 DEF SeenOnce
    <2>4. m \in seen[c].messages /\ ~Has(seen[c], "deletedBy", m)
      BY DEF Shown, Mine
    <2>5. QED
      BY <2>1, <2>2, <2>3, <2>4 DEF HiddenKept
  <1>2. QED
    BY InitInv, NextInv, <1>1, PTL DEF Spec

\* When the messages of a sphere have been deleted, only what came meanwhile is left.
THEOREM SphereIsEmptied == Spec => SphereEmptied
  <1> DEFINE A == \A c \in Calls :
        (call[c].does = "deleteAll" /\ Running(c) /\ call'[c].stage = "done") =>
            /\ \A m \in messages' : m.id \in overlap[c]
            /\ \A r \in rows' : r.by \in overlap[c]
  <1>1. Inv /\ [Next]_vars => [A]_vars
    <2> SUFFICES ASSUME Inv, NEW c \in Calls, StepOf(c), NEW d \in Calls,
                        call[d].does = "deleteAll", Running(d), call'[d].stage = "done"
                 PROVE  /\ \A m \in messages' : m.id \in overlap[d]
                        /\ \A r \in rows' : r.by \in overlap[d]
      BY DEF Next, StepOf
    <2>1. CallsShaped
      BY DEF Inv
    <2>2. d = c
      BY Steady DEF Running
    <2>3. Goes(c) /\ call[c] \in CallType /\ call[c] # Idle /\ overlap' = overlap
      BY <2>1, <2>2, StepKinds, BeginShapes, GoShapes, KindOfStage DEF Idle
    <2>4. call[c].stage = "deleting"
      BY <2>1, <2>2, <2>3, KindOfStage DEF SendCall, MarkCall, GetCall, DeleteCall, Running
    <2>5. DeleteRows(c)
      BY <2>1, <2>2, <2>3, <2>4 DEF Goes, FindRecipient, AddRecipient, Notify, AllAdded, FindMark,
                                    CreateMark, Include, Stop, To, CallsShaped, CallType
    <2>6. Left(c)' = {} /\ Emptied(c)' /\ call'[c].does = "deleteAll"
      BY <2>1, <2>2, <2>3, <2>5, RowsDeleted, RowsEmptied, Steady
    <2>7. QED
      BY <2>2, <2>3, <2>6 DEF Emptied, Deletes
  <1>2. QED
    BY <1>1, InitInv, NextInv, PTL DEF Spec, SphereEmptied
=============================================================================
