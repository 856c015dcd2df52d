---------------------------- MODULE StoneTreeProofs ----------------------------
(***************************************************************************)
(* Proofs about StoneTree, for any requests of any number of clients: that *)
(* no row hangs on an id only a client knows, that the answers make up the *)
(* tree that was sent, and of whom what was asked for is taken.            *)
(***************************************************************************)
EXTENDS StoneTree, TLAPS

Asking == {"reading", "items", "creating"}
Answers == {"none", "ACCESS_DENIED", "NOT_AVAILABLE", "IN_SYNC", "REQUEST_DATA", "ALREADY_IN_CLOUD",
            "CREATED_IN_CLOUD", "ERROR"}
Made == {"CREATED_IN_CLOUD", "ALREADY_IN_CLOUD"}
Taken == {"UPDATED_IN_CLOUD", "ERROR"}

Typed ==
    /\ request \in [Calls -> Requests]
    /\ stage \in [Calls -> Asking \cup {"asked", "updating", "done"}]
    /\ DOMAIN role = Calls /\ DOMAIN at = Calls /\ DOMAIN cloud = Calls
    /\ DOMAIN status = Calls /\ DOMAIN cloudId = Calls /\ DOMAIN accepted = Calls
    /\ \A c \in Calls :
        /\ at[c] \in DOMAIN request[c]
        /\ DOMAIN status[c] = DOMAIN request[c] /\ DOMAIN cloudId[c] = DOMAIN request[c]
        /\ DOMAIN accepted[c] = DOMAIN request[c]
        /\ \A i \in DOMAIN request[c] : status[c][i] \in Answers

\* The items are answered in their order, and once.
InOrder ==
    \A c \in Calls :
        /\ stage[c] \in {"reading", "asked"} => at[c] = 1
        /\ stage[c] \in Asking => \A i \in DOMAIN request[c] : i >= at[c] => status[c][i] = "none"
        /\ stage[c] = "creating" =>
             Reached(c, at[c]) /\ IsNew(c, at[c]) /\ role[c] \in MayWrite(Item(c).category)

\* What was stored when a call began is still, or has been deleted since.
Remembered ==
    /\ FirstIds \subseteq Ids \cup gone
    /\ \A c \in Calls : \A row \in cloud[c] : row.id \in Ids \cup gone

\* The handlers of the children get an id that leads somewhere.
UnderExplained ==
    \A c \in Calls : \A i \in DOMAIN request[c] :
        status[c][i] \notin Stops \cup {"none"} => Explained(cloudId[c][i])

\* Who may make stones has made the new locations before them, or it has failed.
LocationsFirst ==
    \A c \in Calls : (stage[c] \in {"items", "creating"} /\ role[c] \in MayWrite("stones")) =>
        \A j \in DOMAIN request[c] :
            (j < at[c] /\ request[c][j].category = "locations" /\ request[c][j].new) =>
                status[c][j] \in Made \/ request[c][j].id \in failed

\* The REPLY of whoever may edit everything has been taken so far.
TakenSoFar ==
    \A c \in Calls : role[c] \in {"admin", "member"} =>
        \A i \in DOMAIN request[c] :
            (InReply(c, i) /\ (stage[c] = "done" \/ (stage[c] = "updating" /\ i < at[c])))
                => accepted[c][i] \in Taken

\* Of whoever is no admin and no member by now the REPLY has taken nothing: what is
\* under nothing he may not edit, and the rest is under that.
NothingTaken ==
    \A c \in Calls : (stage[c] \in Asking \cup {"asked"} \/ role[c] \notin {"admin", "member"}) =>
        \A i \in DOMAIN request[c] : accepted[c][i] \notin Taken

Inv ==
    /\ Typed /\ InOrder /\ Remembered /\ UnderExplained /\ LocationsFirst
    /\ NothingDangles /\ AnsweredTree /\ TakenSoFar /\ NothingTaken

StepOf(c) ==
    \/ Read(c) \/ PassOver(c) \/ Deny(c) \/ Compare(c) \/ Validate(c)
    \/ Create(c) \/ FailCreate(c) \/ ReadRole(c) \/ Update(c)

-----------------------------------------------------------------------------
(* What the steps change.                                                  *)

\* The places of a request.
LEMMA Places ==
    ASSUME Typed, NEW c \in Calls
    PROVE  /\ Len(request[c]) \in Nat \ {0} /\ DOMAIN request[c] = 1..Len(request[c])
           /\ at[c] \in 1..Len(request[c])
           /\ \A i \in DOMAIN request[c] :
                request[c][i].above \in 0..(i - 1) /\ request[c][i].category \in Categories
  <1>1. request[c] \in Requests /\ at[c] \in DOMAIN request[c]
    BY DEF Typed
  <1>2. request[c] \in Seq({request[c][i] : i \in DOMAIN request[c]}) /\ request[c] # <<>>
    BY <1>1, TreeAssumption
  <1>3. QED
    BY <1>1, <1>2, TreeAssumption

\* An answer is noted for the item at hand, and the call goes on.
LEMMA AnswerNotes ==
    ASSUME Typed, NEW c \in Calls, NEW answer, NEW id, Answer(c, answer, id)
    PROVE  /\ DOMAIN status' = Calls /\ DOMAIN cloudId' = Calls
           /\ DOMAIN stage' = Calls /\ DOMAIN at' = Calls
           /\ \A d \in Calls : d # c =>
                status'[d] = status[d] /\ cloudId'[d] = cloudId[d] /\ stage'[d] = stage[d] /\ at'[d] = at[d]
           /\ DOMAIN status'[c] = DOMAIN request[c] /\ DOMAIN cloudId'[c] = DOMAIN request[c]
           /\ status'[c][at[c]] = answer /\ cloudId'[c][at[c]] = id
           /\ \A i \in DOMAIN request[c] : i # at[c] =>
                status'[c][i] = status[c][i] /\ cloudId'[c][i] = cloudId[c][i]
           /\ \/ at[c] = Len(request[c]) /\ stage'[c] = "asked" /\ at'[c] = 1
              \/ at[c] # Len(request[c]) /\ stage'[c] = "items" /\ at'[c] = at[c] + 1
  <1>1. /\ status' = [status EXCEPT ![c][at[c]] = answer]
        /\ cloudId' = [cloudId EXCEPT ![c][at[c]] = id]
    BY DEF Answer
  <1>2. at[c] \in DOMAIN status[c] /\ at[c] \in DOMAIN cloudId[c]
    BY DEF Typed
  <1>3. QED
    BY <1>1, <1>2 DEF Answer, Typed

\* What answers the item at hand, and what the answer goes with.
Answering(c) ==
    \E answer \in Answers : \E id :
        /\ Answer(c, answer, id)
        /\ stage[c] \in {"items", "creating"}
        /\ UNCHANGED <<request, role, cloud, accepted, gone>>
        /\ answer # "none" => Reached(c, at[c])
        /\ answer = "none" => ~Reached(c, at[c])
        /\ answer \notin {"ACCESS_DENIED", "none"} /\ IsNew(c, at[c]) => answer \in Made \cup {"ERROR"}
        /\ answer = "ACCESS_DENIED" => role[c] \notin MayWrite(Item(c).category)
        /\ \/ answer \in Stops \cup {"none"} /\ stored' = stored /\ failed' = failed
           \/ /\ answer \in {"REQUEST_DATA", "IN_SYNC"} /\ stored' = stored /\ failed' = failed
              /\ \E row \in cloud[c] : row.id = id
              /\ answer = "REQUEST_DATA" => role[c] \in MayEdit(Item(c).category)
           \/ /\ answer = "ALREADY_IN_CLOUD" /\ stored' = stored /\ failed' = failed
              /\ \E row \in Alternatives(c) : row.id = id
           \/ /\ answer = "CREATED_IN_CLOUD" /\ failed' = failed
              /\ stored' = stored \cup
                    {[id |-> id, category |-> Item(c).category, parent |-> Under(c, Item(c).above),
                      type |-> Item(c).type, reference |-> processCreationMap(c, Item(c).reference)]}
              /\ stage[c] = "creating"
           \/ /\ answer = "ERROR" /\ stored' = stored /\ failed' = failed \cup {id}
              /\ id = Item(c).id

LEMMA StepKinds ==
    ASSUME Typed, InOrder, NEW c \in Calls, StepOf(c)
    PROVE  \/ Read(c) \/ ReadRole(c) \/ Update(c) \/ Answering(c)
           \/ /\ stage[c] = "items" /\ stage' = [stage EXCEPT ![c] = "creating"]
              /\ Creatable(c)
              /\ UNCHANGED <<stored, request, role, cloud, at, status, cloudId, accepted, faults, failed, gone>>
  <1>1. CASE PassOver(c)
    BY <1>1 DEF PassOver, Answering, Answers
  <1>2. CASE Deny(c)
    BY <1>2 DEF Deny, Answering, Answers, Stops
  <1>3. CASE Compare(c)
    <2> DEFINE known == \E row \in cloud[c] : /\ row.id = Item(c).id /\ row.category = Item(c).category
                                              /\ row.parent = Under(c, Item(c).above)
               answer == IF ~known THEN "NOT_AVAILABLE"
                         ELSE IF Item(c).newer /\ role[c] \in MayEdit(Item(c).category) THEN "REQUEST_DATA"
                         ELSE "IN_SYNC"
    <2>1. /\ stage[c] = "items" /\ Reached(c, at[c]) /\ ~IsNew(c, at[c])
          /\ Answer(c, answer, Item(c).id)
          /\ UNCHANGED <<stored, request, role, cloud, accepted, faults, failed, gone>>
      BY <1>3 DEF Compare
    <2>2. \/ answer = "NOT_AVAILABLE"
          \/ /\ answer \in {"REQUEST_DATA", "IN_SYNC"} /\ \E row \in cloud[c] : row.id = Item(c).id
             /\ answer = "REQUEST_DATA" => role[c] \in MayEdit(Item(c).category)
      OBVIOUS
    <2> HIDE DEF answer
    <2>3. QED
      BY <2>1, <2>2 DEF Answering, Answers, Stops
  <1>4. CASE Validate(c)
    <2>1. CASE \E row \in Alternatives(c) : Answer(c, "ALREADY_IN_CLOUD", row.id)
      BY <1>4, <2>1 DEF Validate, Creatable, Answering, Answers, Made
    <2>2. QED
      BY <1>4, <2>1 DEF Validate, Creatable
  <1>5. CASE Create(c)
    <2>1. Reached(c, at[c]) /\ stage[c] = "creating"
      BY <1>5 DEF Create, InOrder
    <2>2. Answer(c, "CREATED_IN_CLOUD", <<c, at[c]>>)
      BY <1>5 DEF Create
    <2>3. QED
      BY <1>5, <2>1, <2>2 DEF Create, Answering, Answers, Made
  <1>6. CASE FailCreate(c)
    <2>1. Reached(c, at[c]) /\ stage[c] = "creating"
      BY <1>6 DEF FailCreate, InOrder
    <2>2. Answer(c, "ERROR", Item(c).id)
      BY <1>6 DEF FailCreate
    <2>3. QED
      BY <1>6, <2>1, <2>2 DEF FailCreate, Answering, Answers
  <1>7. QED
    BY <1>1, <1>2, <1>3, <1>4, <1>5, <1>6 DEF StepOf

\* An id that leads somewhere keeps doing so, or it is the id of a deleted row.
LEMMA ExplainedStays ==
    ASSUME Typed, InOrder, [Next]_vars, NEW id
    PROVE  /\ Explained(id) => Explained(id)'
           /\ id \in Ids \cup gone => id \in Ids' \cup gone'
           /\ failed \subseteq failed' /\ gone \subseteq gone'
           /\ \A row \in stored : row \in stored' \/ row.id \in gone'
  <1>1. /\ failed \subseteq failed' /\ gone \subseteq gone'
        /\ \A row \in stored : row \in stored' \/ row.id \in gone'
    <2>1. ASSUME NEW c \in Calls, StepOf(c)
          PROVE  stored \subseteq stored' /\ failed \subseteq failed' /\ gone' = gone
      BY <2>1 DEF StepOf, Read, PassOver, Deny, Compare, Validate, Create, FailCreate, ReadRole, Update
    <2>2. ASSUME NEW row \in stored, DeleteElsewhere(row)
          PROVE  stored' = stored \ {row} /\ failed' = failed /\ gone' = gone \cup {row.id}
      BY <2>2 DEF DeleteElsewhere
    <2>3. QED
      BY <2>1, <2>2 DEF Next, StepOf, vars
  <1>2. id \in Ids => id \in Ids' \cup gone'
    BY <1>1 DEF Ids
  <1>3. QED
    BY <1>1, <1>2 DEF Explained

\* A REPLY begins with the role its user has by now.
LEMMA ReadRoleNotes ==
    ASSUME Typed, NEW c \in Calls, ReadRole(c)
    PROVE  /\ stage[c] = "asked" /\ stage'[c] = "updating"
           /\ UNCHANGED <<stored, request, at, status, cloudId, accepted, failed, gone>>
           /\ DOMAIN role' = Calls /\ DOMAIN stage' = Calls /\ DOMAIN cloud' = Calls
           /\ \A d \in Calls : d # c => role'[d] = role[d] /\ stage'[d] = stage[d]
           /\ \A d \in Calls : cloud'[d] \subseteq cloud[d]
  BY DEF ReadRole, Typed

\* A REPLY notes what it answers to the item at hand.
LEMMA UpdateNotes ==
    ASSUME Typed, NEW c \in Calls, Update(c)
    PROVE  /\ stage[c] = "updating"
           /\ UNCHANGED <<stored, request, role, cloud, status, cloudId, failed, gone>>
           /\ DOMAIN accepted' = Calls /\ DOMAIN stage' = Calls /\ DOMAIN at' = Calls
           /\ \A d \in Calls : d # c =>
                accepted'[d] = accepted[d] /\ stage'[d] = stage[d] /\ at'[d] = at[d]
           /\ DOMAIN accepted'[c] = DOMAIN request[c]
           /\ \A i \in DOMAIN request[c] : i # at[c] => accepted'[c][i] = accepted[c][i]
           /\ accepted'[c][at[c]] \in Taken <=> ReplyReached(c, at[c]) /\ MayUpdate(c)
           /\ \/ at[c] = Len(request[c]) /\ stage'[c] = "done" /\ at'[c] = at[c]
              \/ at[c] # Len(request[c]) /\ stage'[c] = "updating" /\ at'[c] = at[c] + 1
  <1>1. PICK answer :
            /\ Accept(c, answer)
            /\ answer \in Taken <=> ReplyReached(c, at[c]) /\ MayUpdate(c)
    BY DEF Update, Taken
  <1>2. at[c] \in DOMAIN accepted[c] /\ stage[c] = "updating"
    BY DEF Typed, Update
  <1>3. accepted' = [accepted EXCEPT ![c][at[c]] = answer]
    BY <1>1 DEF Accept
  <1>4. /\ DOMAIN accepted' = Calls /\ DOMAIN accepted'[c] = DOMAIN request[c]
        /\ \A d \in Calls : d # c => accepted'[d] = accepted[d]
        /\ \A i \in DOMAIN request[c] : i # at[c] => accepted'[c][i] = accepted[c][i]
        /\ accepted'[c][at[c]] = answer
    BY <1>2, <1>3 DEF Typed
  <1>5. /\ DOMAIN stage' = Calls /\ DOMAIN at' = Calls
        /\ \A d \in Calls : d # c => stage'[d] = stage[d] /\ at'[d] = at[d]
        /\ \/ at[c] = Len(request[c]) /\ stage'[c] = "done" /\ at'[c] = at[c]
           \/ at[c] # Len(request[c]) /\ stage'[c] = "updating" /\ at'[c] = at[c] + 1
    BY <1>1, <1>2 DEF Accept, Typed
  <1>6. QED
    BY <1>1, <1>2, <1>4, <1>5 DEF Update

\* An answering step, with its answer.
LEMMA AnsweringNotes ==
    ASSUME Typed, NEW c \in Calls, Answering(c)
    PROVE  /\ stage[c] \in {"items", "creating"}
           /\ UNCHANGED <<request, role, cloud, accepted, gone>>
           /\ DOMAIN status' = Calls /\ DOMAIN cloudId' = Calls
           /\ DOMAIN stage' = Calls /\ DOMAIN at' = Calls
           /\ \A d \in Calls : d # c =>
                status'[d] = status[d] /\ cloudId'[d] = cloudId[d] /\ stage'[d] = stage[d] /\ at'[d] = at[d]
           /\ DOMAIN status'[c] = DOMAIN request[c] /\ DOMAIN cloudId'[c] = DOMAIN request[c]
           /\ status'[c][at[c]] \in Answers
           /\ \A i \in DOMAIN request[c] : i # at[c] =>
                status'[c][i] = status[c][i] /\ cloudId'[c][i] = cloudId[c][i]
           /\ \/ at[c] = Len(request[c]) /\ stage'[c] = "asked" /\ at'[c] = 1
              \/ at[c] # Len(request[c]) /\ stage'[c] = "items" /\ at'[c] = at[c] + 1
  <1>1. PICK answer, id : answer \in Answers /\ Answer(c, answer, id)
    BY DEF Answering
  <1>2. QED
    BY <1>1, AnswerNotes DEF Answering

-----------------------------------------------------------------------------
(* The invariant, part by part.                                            *)

Creates(c) ==
    /\ stage[c] = "items" /\ stage' = [stage EXCEPT ![c] = "creating"]
    /\ Creatable(c)
    /\ UNCHANGED <<stored, request, role, cloud, at, status, cloudId, accepted, faults, failed, gone>>

LEMMA KeepsTyped == ASSUME Inv, NEW c \in Calls, StepOf(c) PROVE Typed'
  <1>0. Typed /\ InOrder
    BY DEF Inv
  <1>1. CASE Read(c)
    BY <1>0, <1>1 DEF Read, Typed, Asking
  <1>2. CASE Creates(c)
    BY <1>0, <1>2 DEF Creates, Typed, Asking
  <1>3. CASE Update(c)
    <2>1. at'[c] \in DOMAIN request[c] /\ stage'[c] \in {"updating", "done"}
      BY <1>0, <1>3, UpdateNotes, Places
    <2>2. stage' \in [Calls -> Asking \cup {"asked", "updating", "done"}]
      <3>1. stage' = [stage EXCEPT ![c] = stage'[c]]
        BY <1>0, <1>3, <2>1 DEF Update, Accept, Typed
      <3>2. QED
        BY <1>0, <2>1, <3>1 DEF Typed
    <2>3. QED
      BY <1>0, <1>3, <2>1, <2>2, UpdateNotes DEF Typed
  <1>4. CASE Answering(c)
    <2>1. at'[c] \in DOMAIN request[c] /\ stage'[c] \in {"items", "asked"}
      BY <1>0, <1>4, AnsweringNotes, Places
    <2>2. stage' \in [Calls -> Asking \cup {"asked", "updating", "done"}]
      <3>1. stage' = [stage EXCEPT ![c] = stage'[c]]
        BY <1>0, <1>4, <2>1 DEF Answering, Answer, Typed
      <3>2. QED
        BY <1>0, <2>1, <3>1 DEF Typed, Asking
    <2>3. request' = request /\ DOMAIN role' = Calls /\ DOMAIN cloud' = Calls /\ accepted' = accepted
      BY <1>0, <1>4, AnsweringNotes DEF Typed
    <2>4. \A i \in DOMAIN request[c] : status'[c][i] \in Answers
      BY <1>0, <1>4, AnsweringNotes DEF Typed
    <2>5. /\ DOMAIN status' = Calls /\ DOMAIN cloudId' = Calls /\ DOMAIN at' = Calls
          /\ DOMAIN status'[c] = DOMAIN request[c] /\ DOMAIN cloudId'[c] = DOMAIN request[c]
          /\ \A d \in Calls : d # c => status'[d] = status[d] /\ cloudId'[d] = cloudId[d] /\ at'[d] = at[d]
      BY <1>0, <1>4, AnsweringNotes
    <2>6. QED
      BY <1>0, <2>1, <2>2, <2>3, <2>4, <2>5 DEF Typed
  <1>5. CASE ReadRole(c)
    <2>1. stage' \in [Calls -> Asking \cup {"asked", "updating", "done"}]
      BY <1>0, <1>5 DEF ReadRole, Typed
    <2>2. QED
      BY <1>0, <1>5, <2>1, ReadRoleNotes DEF Typed
  <1>6. QED
    BY <1>0, <1>1, <1>2, <1>3, <1>4, <1>5, StepKinds DEF Creates

LEMMA KeepsOrder == ASSUME Inv, NEW c \in Calls, StepOf(c) PROVE InOrder'
  <1>0. Typed /\ InOrder
    BY DEF Inv
  <1>1. ASSUME NEW d \in Calls, request' = request, role'[d] = role[d], status'[d] = status[d],
               stage'[d] = stage[d], at'[d] = at[d]
        PROVE  /\ stage'[d] \in {"reading", "asked"} => at'[d] = 1
               /\ stage'[d] \in Asking => \A i \in DOMAIN request'[d] : i >= at'[d] => status'[d][i] = "none"
               /\ stage'[d] = "creating" =>
                    (Reached(d, at[d]) /\ IsNew(d, at[d]) /\ role[d] \in MayWrite(Item(d).category))'
    BY <1>0, <1>1 DEF InOrder, Reached, IsNew, Item
  <1>2. CASE Read(c)
    <2>1. stage'[c] = "items" /\ UNCHANGED <<request, role, status, at>> /\ stage[c] = "reading"
          /\ \A d \in Calls : d # c => stage'[d] = stage[d]
      BY <1>0, <1>2 DEF Read, Typed
    <2>2. QED
      BY <1>0, <1>1, <2>1 DEF InOrder, Asking
  <1>3. CASE Creates(c)
    <2>1. /\ stage'[c] = "creating" /\ UNCHANGED <<request, role, status, at>> /\ stage[c] = "items"
          /\ \A d \in Calls : d # c => stage'[d] = stage[d]
      BY <1>0, <1>3 DEF Creates, Typed
    <2>2. (Reached(c, at[c]) /\ IsNew(c, at[c]) /\ role[c] \in MayWrite(Item(c).category))'
      BY <1>3, <2>1 DEF Creates, Creatable, Reached, IsNew, Item
    <2>3. QED
      BY <1>0, <1>1, <2>1, <2>2 DEF InOrder, Asking
  <1>4. CASE Update(c)
    BY <1>0, <1>1, <1>4, UpdateNotes DEF InOrder, Asking
  <1>5. CASE Answering(c)
    <2>1. ASSUME stage'[c] = "items", NEW i \in DOMAIN request[c], i >= at'[c]
          PROVE  status'[c][i] = "none"
      <3>1. at'[c] = at[c] + 1 /\ stage[c] \in Asking /\ i # at[c] /\ i >= at[c]
        BY <1>0, <1>5, <2>1, AnsweringNotes, Places DEF Asking
      <3>2. QED
        BY <1>0, <1>5, <3>1, AnsweringNotes DEF InOrder
    <2>2. stage'[c] \in {"items", "asked"} /\ request' = request /\ role' = role
      BY <1>0, <1>5, AnsweringNotes
    <2>3. QED
      BY <1>0, <1>1, <1>5, <2>1, <2>2, AnsweringNotes DEF InOrder, Asking
  <1>6. CASE ReadRole(c)
    BY <1>0, <1>1, <1>6, ReadRoleNotes DEF InOrder, Asking
  <1>7. QED
    BY <1>0, <1>2, <1>3, <1>4, <1>5, <1>6, StepKinds DEF Creates

LEMMA KeepsRemembered == ASSUME Inv, [Next]_vars PROVE Remembered'
  <1>0. Typed /\ InOrder /\ Remembered
    BY DEF Inv
  <1>1. ASSUME NEW c \in Calls, NEW row \in cloud'[c]
        PROVE  row \in cloud[c] \/ row \in stored
    <2>1. CASE \E d \in Calls : StepOf(d)
      <3>1. PICK d \in Calls : StepOf(d)
        BY <2>1
      <3>2. cloud' = cloud \/ cloud' = [cloud EXCEPT ![d] = stored] \/ cloud' = [cloud EXCEPT ![d] = {}]
        BY <3>1 DEF StepOf, Read, PassOver, Deny, Compare, Validate, Create, FailCreate, ReadRole, Update
      <3>3. QED
        BY <1>0, <1>1, <3>2 DEF Typed
    <2>2. CASE \E r \in stored : DeleteElsewhere(r)
      BY <1>1, <2>2 DEF DeleteElsewhere, callVars
    <2>3. CASE UNCHANGED vars
      BY <1>1, <2>3 DEF vars, callVars
    <2>4. QED
      BY <2>1, <2>2, <2>3 DEF Next, StepOf
  <1>2. ASSUME NEW c \in Calls, NEW row \in cloud'[c]
        PROVE  row.id \in Ids' \cup gone'
    BY <1>0, <1>1, <1>2, ExplainedStays DEF Remembered, Ids
  <1>3. FirstIds \subseteq Ids' \cup gone'
    BY <1>0, ExplainedStays DEF Remembered
  <1>4. QED
    BY <1>2, <1>3 DEF Remembered

\* The id that goes with an answer leads somewhere, unless nothing comes of the item.
LEMMA AnsweredExplained ==
    ASSUME Inv, NEW c \in Calls, Answering(c), StepOf(c), NEW i, i = at[c],
           status'[c][i] \notin Stops \cup {"none"}
    PROVE  Explained(cloudId[c][i])'
  <1>0. Typed /\ InOrder /\ Remembered
    BY DEF Inv
  <1>1. PICK answer, id :
        /\ answer \in Answers
        /\ Answer(c, answer, id) /\ gone' = gone
        /\ \/ answer \in Stops \cup {"none"}
           \/ stored' = stored /\ \E row \in cloud[c] : row.id = id
           \/ stored' = stored /\ \E row \in Alternatives(c) : row.id = id
           \/ \E row : stored' = stored \cup {row} /\ row.id = id
           \/ failed' = failed \cup {id}
    <2>1. PICK answer, id :
            /\ answer \in Answers
            /\ Answer(c, answer, id) /\ gone' = gone
            /\ \/ answer \in Stops \cup {"none"}
               \/ stored' = stored /\ \E row \in cloud[c] : row.id = id
               \/ stored' = stored /\ \E row \in Alternatives(c) : row.id = id
               \/ stored' = stored \cup
                    {[id |-> id, category |-> Item(c).category, parent |-> Under(c, Item(c).above),
                      type |-> Item(c).type, reference |-> processCreationMap(c, Item(c).reference)]}
               \/ failed' = failed \cup {id}
      BY DEF Answering
    <2>2. QED
      BY <2>1
  <1>2. status'[c][i] = answer /\ cloudId'[c][i] = id
    BY <1>0, <1>1, AnswerNotes
  <1>3. CASE \E row \in cloud[c] : row.id = id
    <2>1. id \in Ids \cup gone
      BY <1>0, <1>3 DEF Remembered
    <2>2. Explained(id)
      BY <2>1 DEF Explained
    <2>3. [Next]_vars
      BY DEF Next, StepOf
    <2>4. QED
      BY <1>0, <1>2, <2>2, <2>3, ExplainedStays DEF Explained
  <1>4. CASE \E row \in stored' : row.id = id
    BY <1>2, <1>4 DEF Explained, Ids
  <1>5. CASE id \in failed'
    BY <1>2, <1>5 DEF Explained
  <1>6. QED
    BY <1>1, <1>2, <1>3, <1>4, <1>5 DEF Alternatives

\* Steps that answer nothing leave the answers of the REQUESTs.
LEMMA StatusStays ==
    ASSUME Inv, [Next]_vars
    PROVE  /\ request' = request
           /\ \A d \in Calls : role'[d] = role[d] \/ (ReadRole(d) /\ stage[d] = "asked" /\ stage'[d] = "updating")
           /\ \/ status' = status /\ cloudId' = cloudId
              \/ \E c \in Calls : StepOf(c) /\ Answering(c)
  <1>0. Typed /\ InOrder
    BY DEF Inv
  <1>1. CASE \E c \in Calls : StepOf(c)
    BY <1>0, <1>1, StepKinds, ReadRoleNotes DEF Read, Update, Answering
  <1>2. CASE \E row \in stored : DeleteElsewhere(row)
    BY <1>2 DEF DeleteElsewhere, callVars
  <1>3. CASE UNCHANGED vars
    BY <1>3 DEF vars, callVars
  <1>4. QED
    BY <1>1, <1>2, <1>3 DEF Next, StepOf

LEMMA KeepsUnder == ASSUME Inv, [Next]_vars PROVE UnderExplained'
  <1> SUFFICES ASSUME NEW c \in Calls, NEW i \in DOMAIN request'[c],
                      status'[c][i] \notin Stops \cup {"none"}
               PROVE  Explained(cloudId[c][i])'
    BY DEF UnderExplained
  <1>0. Typed /\ InOrder /\ request' = request
    BY StatusStays DEF Inv
  <1>1. CASE status'[c][i] = status[c][i] /\ cloudId'[c][i] = cloudId[c][i]
    <2>1. Explained(cloudId[c][i])
      BY <1>0, <1>1 DEF Inv, UnderExplained
    <2>2. QED
      BY <1>0, <1>1, <2>1, ExplainedStays DEF Explained
  <1>2. CASE StepOf(c) /\ Answering(c) /\ i = at[c]
    BY <1>2, AnsweredExplained
  <1>3. QED
    BY <1>0, <1>1, <1>2, StatusStays, AnsweringNotes

LEMMA KeepsLocations == ASSUME Inv, [Next]_vars PROVE LocationsFirst'
  <1> SUFFICES ASSUME NEW c \in Calls, stage'[c] \in {"items", "creating"},
                      role'[c] \in MayWrite("stones"), NEW j \in DOMAIN request'[c],
                      j < at'[c], request'[c][j].category = "locations", request'[c][j].new
               PROVE  status'[c][j] \in Made \/ request'[c][j].id \in failed'
    BY DEF LocationsFirst
  <1>0. /\ Typed /\ InOrder /\ LocationsFirst
        /\ request' = request /\ role'[c] = role[c] /\ failed \subseteq failed'
    BY StatusStays, ExplainedStays DEF Inv
  <1>1. CASE stage[c] \in {"items", "creating"} /\ j < at[c] /\ status'[c][j] = status[c][j]
    BY <1>0, <1>1 DEF LocationsFirst
  <1>2. CASE StepOf(c) /\ Answering(c)
    <2>1. CASE j # at[c]
      <3>1. stage[c] \in {"items", "creating"} /\ at'[c] = at[c] + 1 /\ j < at[c]
        BY <1>0, <1>2, <2>1, AnsweringNotes, Places
      <3>2. QED
        BY <1>0, <1>1, <1>2, <2>1, <3>1, AnsweringNotes
    <2>2. CASE j = at[c]
      <3>1. PICK answer, id :
              /\ answer \in Answers
              /\ Answer(c, answer, id)
              /\ answer = "none" => ~Reached(c, at[c])
              /\ answer \notin {"ACCESS_DENIED", "none"} /\ IsNew(c, at[c]) => answer \in Made \cup {"ERROR"}
              /\ answer = "ACCESS_DENIED" => role[c] \notin MayWrite(Item(c).category)
              /\ answer = "ERROR" => failed' = failed \cup {id} /\ id = Item(c).id
        BY <1>2 DEF Answering, Stops
      <3>2. request[c] \in Requests
        BY <1>0 DEF Typed
      <3>3. request[c][j].above = 0
        BY <1>0, <3>2, NestingAssumption
      <3>4. Reached(c, at[c]) /\ IsNew(c, at[c])
        BY <1>0, <2>2, <3>3 DEF Reached, IsNew
      <3>5. role[c] \in MayWrite(Item(c).category)
        BY <1>0, <2>2 DEF MayWrite, Item
      <3>6. answer \in Made \/ Item(c).id \in failed'
        BY <3>1, <3>4, <3>5
      <3>7. status'[c][at[c]] = answer
        BY <1>0, <3>1, AnswerNotes
      <3>8. QED
        BY <1>0, <2>2, <3>6, <3>7 DEF Item
    <2>3. QED
      BY <2>1, <2>2
  <1>3. CASE Read(c)
    <2>1. at'[c] = 1
      BY <1>0, <1>3 DEF Read, InOrder
    <2>2. QED
      BY <1>0, <2>1, Places
  <1>4. CASE Creates(c) \/ Update(c)
    BY <1>0, <1>1, <1>4, UpdateNotes DEF Creates
  <1>5. CASE UNCHANGED <<stage[c], at[c], status[c]>>
    BY <1>0, <1>1, <1>5
  <1>6. QED
    <2>1. CASE \E d \in Calls : StepOf(d)
      <3>1. PICK d \in Calls : StepOf(d)
        BY <2>1
      <3>2. CASE d = c
        BY <1>0, <1>2, <1>3, <1>4, <3>1, <3>2, StepKinds, ReadRoleNotes DEF Creates
      <3>3. CASE d # c /\ (Read(d) \/ Creates(d))
        BY <1>0, <1>5, <3>3 DEF Read, Creates, Typed
      <3>4. CASE d # c /\ (ReadRole(d) \/ Update(d) \/ Answering(d))
        BY <1>0, <1>5, <3>4, ReadRoleNotes, UpdateNotes, AnsweringNotes
      <3>5. QED
        BY <1>0, <3>1, <3>2, <3>3, <3>4, StepKinds DEF Creates
    <2>2. CASE UNCHANGED callVars
      BY <1>5, <2>2 DEF callVars
    <2>3. QED
      BY <2>1, <2>2 DEF Next, StepOf, DeleteElsewhere, vars

\* A row is made under an id, and refers to an id, that leads somewhere.
LEMMA CreatedExplained ==
    ASSUME Inv, NEW c \in Calls, stage[c] = "creating"
    PROVE  Explained(Under(c, Item(c).above)) /\ Explained(processCreationMap(c, Item(c).reference))
  <1> DEFINE p == Item(c).above
             ref == Item(c).reference
  <1>0. /\ Typed /\ InOrder /\ Remembered /\ UnderExplained /\ LocationsFirst
        /\ request[c] \in Requests /\ at[c] \in DOMAIN request[c]
    BY DEF Inv, Typed
  <1>1. Reached(c, at[c]) /\ role[c] \in MayWrite(Item(c).category)
    BY <1>0 DEF InOrder
  <1>2. Explained(Under(c, p))
    <2>1. CASE p = 0
      BY <2>1 DEF Under, Explained
    <2>2. CASE p # 0
      <3>1. p \in DOMAIN request[c]
        BY <1>0, <2>2, Places DEF Item
      <3>2. status[c][p] \notin Stops \cup {"none"}
        BY <1>1, <2>2 DEF Reached, Item
      <3>3. QED
        BY <1>0, <2>2, <3>1, <3>2 DEF Under, UnderExplained
    <2>3. QED
      BY <2>1, <2>2
  <1>3. Explained(processCreationMap(c, ref))
    <2>1. CASE \E i \in Mapped(c) : request[c][i].id = ref
      <3> DEFINE i == CHOOSE i \in Mapped(c) : request[c][i].id = ref
      <3>1. i \in Mapped(c) /\ processCreationMap(c, ref) = cloudId[c][i]
        BY <2>1 DEF processCreationMap
      <3> HIDE DEF i
      <3>2. i \in DOMAIN request[c] /\ status[c][i] \notin Stops \cup {"none"}
        BY <3>1 DEF Mapped, Stops
      <3>3. QED
        BY <1>0, <3>1, <3>2 DEF UnderExplained
    <2>2. CASE ~\E i \in Mapped(c) : request[c][i].id = ref
      <3>1. processCreationMap(c, ref) = ref
        BY <2>2 DEF processCreationMap
      <3>2. CASE ref = NoId \/ ref \in FirstIds
        BY <1>0, <3>1, <3>2 DEF Explained, Remembered
      <3>3. CASE ref # NoId /\ ref \notin FirstIds
        <4>1. PICK j \in 1..(at[c] - 1) :
                request[c][j].category = "locations" /\ request[c][j].new /\ request[c][j].id = ref
          BY <1>0, <3>3, ReferenceAssumption DEF Item
        <4>2. Item(c).category = "stones"
          BY <1>0, <3>3, ReferenceAssumption DEF Item
        <4>3. j \in DOMAIN request[c] /\ j < at[c]
          BY <1>0, <4>1, Places
        <4>4. status[c][j] \in Made \/ ref \in failed
          BY <1>0, <1>1, <4>1, <4>2, <4>3 DEF LocationsFirst
        <4>5. status[c][j] \notin Made
          BY <2>2, <4>1, <4>3 DEF Mapped, Made, IsNew
        <4>6. QED
          BY <3>1, <4>4, <4>5 DEF Explained
      <3>4. QED
        BY <3>2, <3>3
    <2>3. QED
      BY <2>1, <2>2
  <1>4. QED
    BY <1>2, <1>3

LEMMA KeepsNothingDangles == ASSUME Inv, [Next]_vars PROVE NothingDangles'
  <1> SUFFICES ASSUME NEW row \in stored' PROVE Explained(row.parent)' /\ Explained(row.reference)'
    BY DEF NothingDangles
  <1>0. Typed /\ InOrder
    BY DEF Inv
  <1>1. CASE row \in stored
    BY <1>0, <1>1, ExplainedStays DEF Inv, NothingDangles
  <1>2. CASE row \notin stored
    <2>1. PICK c \in Calls : Create(c)
      <3>1. CASE \E c \in Calls : StepOf(c) /\ ~Create(c)
        BY <1>2, <3>1 DEF StepOf, Read, PassOver, Deny, Compare, Validate, FailCreate, ReadRole, Update
      <3>2. CASE (\E r \in stored : DeleteElsewhere(r)) \/ UNCHANGED vars
        BY <1>2, <3>2 DEF DeleteElsewhere, vars
      <3>3. QED
        BY <3>1, <3>2 DEF Next, StepOf
    <2>2. /\ row.parent = Under(c, Item(c).above)
          /\ row.reference = processCreationMap(c, Item(c).reference)
      BY <1>2, <2>1 DEF Create
    <2>3. Explained(row.parent) /\ Explained(row.reference)
      BY <2>1, <2>2, CreatedExplained DEF Create
    <2>4. QED
      BY <1>0, <2>3, ExplainedStays
  <1>3. QED
    BY <1>1, <1>2

\* The row of an answer: of the type of the item, under what the client is told.
RowOf(c, i, row) ==
    /\ row.id = cloudId[c][i] /\ row.type = request[c][i].type
    /\ row.parent = Under(c, request[c][i].above)

\* A row that was the one of an answer stays that, or is deleted.
LEMMA RowOfStays ==
    ASSUME Inv, [Next]_vars, NEW c \in Calls, NEW i \in DOMAIN request[c],
           status[c][i] # "none", cloudId'[c][i] = cloudId[c][i],
           NEW row \in stored, RowOf(c, i, row)
    PROVE  cloudId'[c][i] \in gone' \/ (row \in stored' /\ RowOf(c, i, row)')
  <1>0. Typed /\ InOrder /\ request' = request
    BY StatusStays DEF Inv
  <1>1. Under(c, request[c][i].above)' = Under(c, request[c][i].above)
    <2>1. CASE request[c][i].above = 0
      BY <1>0, <2>1 DEF Under
    <2>2. CASE cloudId' = cloudId
      BY <1>0, <2>2 DEF Under
    <2>3. CASE request[c][i].above # 0 /\ \E d \in Calls : StepOf(d) /\ Answering(d)
      <3>1. PICK d \in Calls : StepOf(d) /\ Answering(d)
        BY <2>3
      <3>2. CASE d # c
        BY <1>0, <3>1, <3>2, AnsweringNotes DEF Under
      <3>3. CASE d = c
        <4>1. i < at[c]
          <5>1. stage[c] \in Asking
            BY <1>0, <3>1, <3>3, AnsweringNotes DEF Asking
          <5>2. QED
            BY <1>0, <5>1, Places DEF InOrder
        <4>2. request[c][i].above \in DOMAIN request[c] /\ request[c][i].above # at[c]
          BY <1>0, <2>3, <4>1, Places
        <4>3. QED
          BY <1>0, <2>3, <3>1, <3>3, <4>2, AnsweringNotes DEF Under
      <3>4. QED
        BY <3>2, <3>3
    <2>4. QED
      BY <2>1, <2>2, <2>3, StatusStays
  <1>2. QED
    BY <1>0, <1>1, ExplainedStays DEF RowOf

\* The row of a new answer.
LEMMA RowOfAnswer ==
    ASSUME Inv, NEW c \in Calls, StepOf(c), Answering(c), NEW i, i = at[c], status'[c][i] \in Made
    PROVE  \E row \in stored' : RowOf(c, i, row)'
  <1>0. Typed /\ InOrder /\ i \in DOMAIN request[c]
    BY DEF Inv, Typed
  <1>1. PICK answer, id :
        /\ answer \in Answers
        /\ Answer(c, answer, id) /\ request' = request
        /\ \/ answer \notin Made
           \/ stored' = stored /\ \E row \in Alternatives(c) : row.id = id
           \/ stored' = stored \cup
                    {[id |-> id, category |-> Item(c).category, parent |-> Under(c, Item(c).above),
                      type |-> Item(c).type, reference |-> processCreationMap(c, Item(c).reference)]}
    BY DEF Answering, Made, Stops
  <1>2. status'[c][i] = answer /\ cloudId'[c][i] = id
    BY <1>0, <1>1, AnswerNotes
  <1>3. PICK row \in stored' :
            row.id = id /\ row.type = Item(c).type /\ row.parent = Under(c, Item(c).above)
    <2>1. answer \in Made
      BY <1>2
    <2>2. CASE stored' = stored /\ \E row \in Alternatives(c) : row.id = id
      <3>1. PICK row \in Alternatives(c) : row.id = id
        BY <2>2
      <3>2. row \in stored'
        BY <2>2 DEF Alternatives
      <3>3. row.type = Item(c).type /\ row.parent = Under(c, Item(c).above)
        BY DEF Alternatives
      <3>4. QED
        BY <3>1, <3>2, <3>3
    <2>3. CASE stored' = stored \cup
                 {[id |-> id, category |-> Item(c).category, parent |-> Under(c, Item(c).above),
                   type |-> Item(c).type, reference |-> processCreationMap(c, Item(c).reference)]}
      <3> DEFINE row == [id |-> id, category |-> Item(c).category, parent |-> Under(c, Item(c).above),
                         type |-> Item(c).type, reference |-> processCreationMap(c, Item(c).reference)]
      <3>1. row \in stored'
        BY <2>3
      <3>2. row.id = id /\ row.type = Item(c).type /\ row.parent = Under(c, Item(c).above)
        OBVIOUS
      <3>3. QED
        BY <3>1, <3>2
    <2>4. QED
      BY <1>1, <2>1, <2>2, <2>3
  <1>4. Under(c, request[c][i].above)' = Under(c, Item(c).above)
    <2>1. request[c][i].above = 0 \/ request[c][i].above \in DOMAIN request[c] \ {i}
      BY <1>0, Places
    <2>2. QED
      BY <1>0, <1>1, <2>1, AnswerNotes DEF Under, Item
  <1>5. QED
    BY <1>1, <1>2, <1>3, <1>4 DEF RowOf, Item

LEMMA KeepsAnswered == ASSUME Inv, [Next]_vars PROVE AnsweredTree'
  <1> SUFFICES ASSUME NEW c \in Calls, NEW i \in DOMAIN request'[c], status'[c][i] \in Made
               PROVE  cloudId'[c][i] \in gone' \/ \E row \in stored' : RowOf(c, i, row)'
    BY DEF AnsweredTree, RowOf, Made
  <1>0. Typed /\ InOrder /\ request' = request
    BY StatusStays DEF Inv
  <1>1. CASE status'[c][i] = status[c][i] /\ cloudId'[c][i] = cloudId[c][i]
    <2>1. status[c][i] \in Made /\ status[c][i] # "none"
      BY <1>1 DEF Made
    <2>2. cloudId[c][i] \in gone \/ \E row \in stored : RowOf(c, i, row)
      BY <1>0, <2>1 DEF Inv, AnsweredTree, RowOf, Made
    <2>3. gone \subseteq gone'
      BY <1>0, ExplainedStays
    <2>4. QED
      BY <1>0, <1>1, <2>1, <2>2, <2>3, RowOfStays
  <1>2. CASE StepOf(c) /\ Answering(c) /\ i = at[c]
    BY <1>2, RowOfAnswer
  <1>3. QED
    BY <1>0, <1>1, <1>2, StatusStays, AnsweringNotes

\* What is in the REPLY is there with what it is under.
LEMMA ReplyNested ==
    ASSUME Typed, NEW c \in Calls, NEW i \in DOMAIN request[c], InReply(c, i), request[c][i].above # 0
    PROVE  InReply(c, request[c][i].above)
  <1> DEFINE r == request[c]
             p == r[i].above
  <1>0. r \in Requests /\ p \in DOMAIN r
    <2>1. r \in Requests
      BY DEF Typed
    <2>2. DOMAIN r = 1..Len(r) /\ Len(r) \in Nat /\ p \in 0..(i - 1)
      BY Places
    <2>3. QED
      BY <2>1, <2>2
  <1>1. CASE Asked(c, i)
    BY <1>1 DEF InReply
  <1>2. CASE \E j \in DOMAIN r : Asked(c, j) /\ r[j].above = i
    BY <1>0, <1>2, Places DEF InReply
  <1>3. ASSUME NEW j \in DOMAIN r, r[j].above # 0, r[r[j].above].above = i
        PROVE  FALSE
    <2>1. r[j].above \in DOMAIN r /\ i # 0
      BY <1>3, Places
    <2>2. r[i].category \in {"behaviours", "abilities", "properties"}
      BY <1>0, NestingAssumption, Places DEF Categories
    <2>3. r[r[j].above].category = "properties"
      BY <1>0, <1>3, <2>1, <2>2, NestingAssumption, Places DEF Categories
    <2>4. QED
      BY <1>0, <1>3, <2>1, <2>3, NestingAssumption, Places DEF Categories
  <1>4. QED
    BY <1>1, <1>2, <1>3 DEF InReply

LEMMA KeepsTaken == ASSUME Inv, [Next]_vars PROVE TakenSoFar'
  <1> SUFFICES ASSUME NEW c \in Calls, role'[c] \in {"admin", "member"},
                      NEW i \in DOMAIN request'[c], InReply(c, i)',
                      stage'[c] = "done" \/ (stage'[c] = "updating" /\ i < at'[c])
               PROVE  accepted'[c][i] \in Taken
    BY DEF TakenSoFar
  <1>0. Typed /\ InOrder /\ request' = request
    BY StatusStays DEF Inv
  <1>1. CASE UNCHANGED <<role[c], status[c], stage[c], at[c], accepted[c]>>
    <2>1. InReply(c, i)
      BY <1>0, <1>1 DEF InReply, Asked
    <2>2. QED
      BY <1>0, <1>1, <2>1 DEF Inv, TakenSoFar
  <1>2. CASE Update(c)
    <2>1. InReply(c, i) /\ stage[c] = "updating" /\ role' = role
      BY <1>0, <1>2, UpdateNotes DEF InReply, Asked
    <2>2. CASE i # at[c]
      <3>1. i < at[c]
        BY <1>0, <1>2, <2>2, UpdateNotes, Places
      <3>2. accepted[c][i] \in Taken
        BY <1>0, <2>1, <3>1 DEF Inv, TakenSoFar
      <3>3. QED
        BY <1>0, <1>2, <2>2, <3>2, UpdateNotes
    <2>3. CASE i = at[c]
      <3>1. ReplyReached(c, i)
        <4>1. CASE request[c][i].above = 0
          BY <2>1, <4>1 DEF ReplyReached
        <4>2. CASE request[c][i].above # 0
          <5> DEFINE p == request[c][i].above
          <5>1. p \in DOMAIN request[c] /\ p < at[c] /\ InReply(c, p)
            BY <1>0, <2>1, <2>3, <4>2, ReplyNested, Places
          <5>2. accepted[c][p] \in Taken
            BY <1>0, <2>1, <5>1 DEF Inv, TakenSoFar
          <5>3. QED
            BY <2>1, <5>2 DEF ReplyReached, Taken
        <4>3. QED
          BY <4>1, <4>2
      <3>2. MayUpdate(c)
        BY <2>1 DEF MayUpdate, MayEdit
      <3>3. QED
        BY <1>0, <1>2, <2>3, <3>1, <3>2, UpdateNotes
    <2>4. QED
      BY <2>2, <2>3
  <1>3. CASE Answering(c)
    BY <1>0, <1>3, AnsweringNotes
  <1>4. CASE Read(c) \/ Creates(c)
    BY <1>0, <1>4 DEF Read, Creates, Typed
  <1>5. CASE ReadRole(c)
    <2>1. at'[c] = 1 /\ stage'[c] = "updating"
      BY <1>0, <1>5, ReadRoleNotes DEF InOrder
    <2>2. QED
      BY <1>0, <2>1, Places
  <1>6. QED
    <2>1. CASE \E d \in Calls : StepOf(d)
      <3>1. PICK d \in Calls : StepOf(d)
        BY <2>1
      <3>2. CASE d = c
        BY <1>0, <1>2, <1>3, <1>4, <1>5, <3>1, <3>2, StepKinds DEF Creates
      <3>3. CASE d # c /\ (Read(d) \/ Creates(d))
        BY <1>0, <1>1, <3>3 DEF Read, Creates, Typed
      <3>4. CASE d # c /\ (ReadRole(d) \/ Update(d) \/ Answering(d))
        BY <1>0, <1>1, <3>4, ReadRoleNotes, UpdateNotes, AnsweringNotes
      <3>5. QED
        BY <1>0, <3>1, <3>2, <3>3, <3>4, StepKinds DEF Creates
    <2>2. CASE UNCHANGED callVars
      BY <1>1, <2>2 DEF callVars
    <2>3. QED
      BY <2>1, <2>2 DEF Next, StepOf, DeleteElsewhere, vars

LEMMA KeepsNothingTaken == ASSUME Inv, [Next]_vars PROVE NothingTaken'
  <1> SUFFICES ASSUME NEW c \in Calls,
                      stage'[c] \in Asking \cup {"asked"} \/ role'[c] \notin {"admin", "member"},
                      NEW i \in DOMAIN request'[c]
               PROVE  accepted'[c][i] \notin Taken
    BY DEF NothingTaken
  <1>0. Typed /\ InOrder /\ request' = request
    BY StatusStays DEF Inv
  <1>1. CASE accepted'[c] = accepted[c] /\ stage[c] \in Asking \cup {"asked"}
    BY <1>0, <1>1 DEF Inv, NothingTaken
  <1>2. CASE UNCHANGED <<role[c], stage[c], accepted[c]>>
    BY <1>0, <1>2 DEF Inv, NothingTaken
  <1>3. CASE Update(c)
    <2>1. stage'[c] \in {"updating", "done"} /\ role' = role
      BY <1>0, <1>3, UpdateNotes
    <2>2. role[c] \notin {"admin", "member"}
      BY <2>1 DEF Asking
    <2>3. \A j \in DOMAIN request[c] : accepted[c][j] \notin Taken
      BY <2>2 DEF Inv, NothingTaken
    <2>4. ~(ReplyReached(c, at[c]) /\ MayUpdate(c))
      <3>1. request[c] \in Requests /\ at[c] \in DOMAIN request[c]
        BY <1>0 DEF Typed
      <3>2. CASE Item(c).above = 0
        <4>1. Item(c).category \in {"locations", "stones"}
          BY <3>1, <3>2, NestingAssumption DEF Item
        <4>2. QED
          BY <2>2, <4>1 DEF MayUpdate, MayEdit
      <3>3. CASE Item(c).above # 0
        <4>1. Item(c).above \in DOMAIN request[c]
          BY <1>0, <3>1, <3>3, Places DEF Item
        <4>2. QED
          BY <2>3, <3>3, <4>1 DEF ReplyReached, Item, Taken
      <3>4. QED
        BY <3>2, <3>3
    <2>5. QED
      BY <1>0, <1>3, <2>3, <2>4, UpdateNotes
  <1>4. CASE Read(c) \/ Creates(c) \/ ReadRole(c) \/ Answering(c)
    <2>1. accepted' = accepted /\ stage[c] \in Asking \cup {"asked"}
      BY <1>0, <1>4, ReadRoleNotes, AnsweringNotes DEF Read, Creates, Asking
    <2>2. QED
      BY <1>1, <2>1
  <1>5. QED
    <2>1. CASE \E d \in Calls : StepOf(d)
      <3>1. PICK d \in Calls : StepOf(d)
        BY <2>1
      <3>2. CASE d = c
        BY <1>0, <1>3, <1>4, <3>1, <3>2, StepKinds DEF Creates
      <3>3. CASE d # c /\ (Read(d) \/ Creates(d))
        BY <1>0, <1>2, <3>3 DEF Read, Creates, Typed
      <3>4. CASE d # c /\ (ReadRole(d) \/ Update(d) \/ Answering(d))
        BY <1>0, <1>2, <3>4, ReadRoleNotes, UpdateNotes, AnsweringNotes
      <3>5. QED
        BY <1>0, <3>1, <3>2, <3>3, <3>4, StepKinds DEF Creates
    <2>2. CASE UNCHANGED callVars
      BY <1>2, <2>2 DEF callVars
    <2>3. QED
      BY <2>1, <2>2 DEF Next, StepOf, DeleteElsewhere, vars

-----------------------------------------------------------------------------
(* The invariant and the properties.                                       *)

LEMMA InitInv == Init => Inv
  <1> SUFFICES ASSUME Init PROVE Inv
    OBVIOUS
  <1>1. Typed
    <2>1. ASSUME NEW c \in Calls PROVE 1 \in DOMAIN request[c]
      <3>1. request[c] \in Requests
        BY DEF Init
      <3>2. request[c] \in Seq({request[c][i] : i \in DOMAIN request[c]}) /\ request[c] # <<>>
        BY <3>1, TreeAssumption
      <3>3. QED
        BY <3>2
    <2>2. QED
      BY <2>1 DEF Init, Typed, Asking, Answers
  <1>2. \A c \in Calls : \A i \in DOMAIN request[c] : status[c][i] = "none"
    BY DEF Init
  <1>3. InOrder
    BY <1>2 DEF Init, InOrder
  <1>4. Remembered
    BY DEF Init, Remembered, FirstIds, Ids
  <1>5. UnderExplained /\ AnsweredTree
    BY <1>2 DEF UnderExplained, AnsweredTree
  <1>6. LocationsFirst /\ TakenSoFar /\ NothingTaken
    BY DEF Init, LocationsFirst, TakenSoFar, NothingTaken, Taken
  <1>7. NothingDangles
    BY ReferenceAssumption DEF Init, NothingDangles, Explained, Ids, FirstIds
  <1>8. QED
    BY <1>1, <1>3, <1>4, <1>5, <1>6, <1>7 DEF Inv

LEMMA NextInv == Inv /\ [Next]_vars => Inv'
  <1> SUFFICES ASSUME Inv, [Next]_vars PROVE Inv'
    OBVIOUS
  <1>1. (Typed /\ InOrder)'
    <2>1. CASE \E c \in Calls : StepOf(c)
      BY <2>1, KeepsTyped, KeepsOrder
    <2>2. CASE UNCHANGED callVars
      BY <2>2 DEF callVars, Inv, Typed, InOrder, Reached, IsNew, Item
    <2>3. QED
      BY <2>1, <2>2 DEF Next, StepOf, DeleteElsewhere, vars
  <1>2. QED
    BY <1>1, KeepsRemembered, KeepsUnder, KeepsLocations, KeepsNothingDangles, KeepsAnswered,
       KeepsTaken, KeepsNothingTaken DEF Inv

\* No row is stored under an id, or refers to an id, that only a client knows, but for what
\* a create that failed should have made.
THEOREM NoRowDangles == Spec => []NothingDangles
  <1>1. Inv => NothingDangles
    BY DEF Inv
  <1>2. QED
    BY InitInv, NextInv, <1>1, PTL DEF Spec

\* The rows a client is told of for its items make up the tree it has sent.
THEOREM AnswersMakeTheTree == Spec => []AnsweredTree
  <1>1. Inv => AnsweredTree
    BY DEF Inv
  <1>2. QED
    BY InitInv, NextInv, <1>1, PTL DEF Spec

\* What the REQUEST asks a client for the REPLY takes from it exactly if the client is an
\* admin or a member when the REPLY reads its role: not from a hub, and not from a user who
\* has lost the right to edit in between.
THEOREM AskedIsTaken == Spec => []AskedIsAccepted
  <1>1. Inv => AskedIsAccepted
    <2> SUFFICES ASSUME Inv, NEW c \in Calls, stage[c] = "done", NEW i \in DOMAIN request[c], Asked(c, i)
                 PROVE  accepted[c][i] \in Taken <=> role[c] \in {"admin", "member"}
      BY DEF AskedIsAccepted, Taken
    <2>1. InReply(c, i)
      BY DEF InReply
    <2>2. role[c] \in {"admin", "member"} => accepted[c][i] \in Taken
      BY <2>1 DEF Inv, TakenSoFar
    <2>3. role[c] \notin {"admin", "member"} => accepted[c][i] \notin Taken
      BY DEF Inv, NothingTaken
    <2>4. QED
      BY <2>2, <2>3
  <1>2. QED
    BY InitInv, NextInv, <1>1, PTL DEF Spec
=============================================================================
