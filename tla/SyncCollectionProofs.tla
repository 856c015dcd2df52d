------------------------ MODULE SyncCollectionProofs ------------------------
(***************************************************************************)
(* Proofs about SyncCollection, for any number of clients, items, drafts,  *)
(* timestamps and faults, any assignment of roles and any collection.      *)
(***************************************************************************)
EXTENDS SyncCollection, TLAPS

-----------------------------------------------------------------------------
(* Type correctness, a group of actions at a time.                         *)

LEMMA StatusTyped ==
    ASSUME NEW k, NEW r \in Roles, NEW a \in Nat, NEW b \in Nat
    PROVE  StatusFor(k, r, a, b) \in SyncStates
  BY DEF StatusFor, getReply, getReplyBasedOnTime, SyncStates, Gone

LEMMA BlankTyped ==
    /\ [i \in Ids |-> NoAnswer] \in [Ids -> Answers]
    /\ [k \in Drafts |-> NoNewAnswer] \in [Drafts -> NewAnswers]
    /\ [i \in Ids |-> Gone] \in [Ids -> Nat]
  <1>1. NoAnswer \in Answers
    BY DEF NoAnswer, Answers, Gone
  <1>2. NoNewAnswer \in NewAnswers
    BY DEF NoNewAnswer, NewAnswers, Gone
  <1>3. QED
    BY <1>1, <1>2 DEF Gone

LEMMA InitTyped == Init => TypeOK
  <1> SUFFICES ASSUME Init PROVE TypeOK
    OBVIOUS
  <1>1. category \in Collections /\ clock \in 1..MaxTime /\ faults \in Nat
    BY SyncAssumption DEF Init
  <1>2. cloud \in [Ids -> Nat] /\ local \in [Clients -> [Ids -> Nat]]
    <2>1. cloud \in [Ids -> Nat]
      BY DEF Init, Gone
    <2>2. local \in [Clients -> [Ids -> {Gone, 1}]] /\ {Gone, 1} \subseteq Nat
      BY DEF Init, Gone
    <2>3. QED
      BY <2>1, <2>2, Zenon
  <1>3. used \in SUBSET Ids /\ maker \in [Ids -> SUBSET (Clients \X Drafts)]
    BY SyncAssumption DEF Init
  <1>4. role \in [Clients -> Roles] /\ accessRole \in [Clients -> Roles]
    BY SyncAssumption DEF Init
  <1>5. /\ draft \in [Clients -> [Drafts -> {"none", "fresh", "synced"}]]
        /\ stage \in [Clients -> Stages]
    BY DEF Init, Stages
  <1>6. /\ snap \in [Clients -> [Ids -> Nat]]
        /\ taken \in [Clients -> SUBSET Ids]
        /\ touched \in [Clients -> SUBSET Ids]
        /\ unanswered \in [Clients -> BOOLEAN]
    BY BlankTyped DEF Init
  <1>7. /\ answer \in [Clients -> [Ids -> Answers]]
        /\ answerNew \in [Clients -> [Drafts -> NewAnswers]]
    BY BlankTyped DEF Init
  <1>8. QED
    BY <1>1, <1>2, <1>3, <1>4, <1>5, <1>6, <1>7 DEF TypeOK

LEMMA EndCallTyped ==
    ASSUME TypeOK, NEW c \in Clients, EndCall(c)
    PROVE  /\ stage' \in [Clients -> Stages]
           /\ accessRole' \in [Clients -> Roles]
           /\ snap' \in [Clients -> [Ids -> Nat]]
           /\ taken' \in [Clients -> SUBSET Ids]
           /\ answer' \in [Clients -> [Ids -> Answers]]
           /\ answerNew' \in [Clients -> [Drafts -> NewAnswers]]
           /\ touched' \in [Clients -> SUBSET Ids]
  BY BlankTyped DEF EndCall, TypeOK, Stages

LEMMA TouchedTyped ==
    ASSUME TypeOK, NEW c, NEW i \in Ids
    PROVE  TouchedBy(c, i) \in [Clients -> SUBSET Ids]
  BY DEF TouchedBy, TypeOK

LEMMA AppliedTyped ==
    ASSUME TypeOK, NEW c \in Clients
    PROVE  Applied(c) \in [Ids -> Nat]
  <1> SUFFICES ASSUME NEW i \in Ids PROVE Applied(c)[i] \in Nat
    BY DEF Applied
  <1> DEFINE A == {answerNew[c][k] : k \in Drafts}
  <1>1. \A a \in A : a.time \in Nat
    BY DEF TypeOK, NewAnswers
  <1>2. ASSUME NEW k \in Drafts, answerNew[c][k].id = i
        PROVE  (CHOOSE a \in A : a.id = i).time \in Nat
    <2>1. \E a \in A : a.id = i
      BY <1>2
    <2>2. (CHOOSE a \in A : a.id = i) \in A
      BY <2>1
    <2>3. QED
      BY <1>1, <2>2
  <1>3. local[c][i] \in Nat /\ answer[c][i].time \in Nat
    BY DEF TypeOK, Answers
  <1>4. QED
    BY <1>2, <1>3 DEF Applied, Gone
-----------------------------------------------------------------------------
LEMMA UserStepTyped ==
    ASSUME TypeOK, NEW c \in Clients, UserStep(c)
    PROVE  TypeOK'
  <1>1. CASE \E i \in Ids : LocalEdit(c, i)
    <2> PICK i \in Ids : LocalEdit(c, i)
      BY <1>1
    <2>1. clock' \in 1..MaxTime /\ local' \in [Clients -> [Ids -> Nat]]
      BY SyncAssumption DEF LocalEdit, TypeOK
    <2>2. QED
      BY <2>1 DEF LocalEdit, TypeOK, callVars
  <1>2. CASE \E k \in Drafts : LocalCreate(c, k)
    BY <1>2 DEF LocalCreate, TypeOK, callVars, cloudVars
  <1>3. CASE Demote(c)
    BY <1>3 DEF Demote, TypeOK, callVars, cloudVars, clientVars, Roles
  <1>4. QED
    BY <1>1, <1>2, <1>3 DEF UserStep

LEMMA OtherStepTyped ==
    ASSUME TypeOK, OtherStep
    PROVE  TypeOK'
  <1> PICK i \in Ids : CloudEdit(i) \/ CloudDelete(i)
    BY DEF OtherStep
  <1>1. TouchedBy(NoId, i) \in [Clients -> SUBSET Ids]
    BY TouchedTyped
  <1>2. CASE CloudEdit(i)
    <2>1. clock' \in 1..MaxTime /\ cloud' \in [Ids -> Nat]
      BY <1>2, SyncAssumption DEF CloudEdit, TypeOK
    <2>2. QED
      BY <1>1, <1>2, <2>1 DEF CloudEdit, TypeOK, clientVars, callVars
  <1>3. CASE CloudDelete(i)
    <2>1. cloud' \in [Ids -> Nat]
      BY <1>3 DEF CloudDelete, TypeOK, Gone
    <2>2. QED
      BY <1>1, <1>3, <2>1 DEF CloudDelete, TypeOK, clientVars, callVars
  <1>4. QED
    BY <1>2, <1>3

LEMMA AbortTyped ==
    ASSUME TypeOK, NEW c \in Clients, AbortRequest(c)
    PROVE  TypeOK'
  <1>1. unanswered' \in [Clients -> BOOLEAN]
    BY DEF AbortRequest, TypeOK
  <1>2. QED
    BY <1>1, EndCallTyped DEF AbortRequest, TypeOK, cloudVars, clientVars

LEMMA AnswerKnownTyped ==
    ASSUME TypeOK, NEW c \in Clients, NEW i \in Ids, AnswerKnown(c, i)
    PROVE  TypeOK'
  <1>1. StatusFor(category, accessRole[c], local[c][i], Listed(c, i)) \in SyncStates
    <2>1. accessRole[c] \in Roles /\ local[c][i] \in Nat /\ Listed(c, i) \in Nat
      BY DEF TypeOK, Listed, Gone
    <2>2. QED
      BY <2>1, StatusTyped
  <1> DEFINE s == StatusFor(category, accessRole[c], local[c][i], Listed(c, i))
  <1>2. ASSUME NEW t \in Nat,
               answer' = [answer EXCEPT ![c][i] = [status |-> s, time |-> t]]
        PROVE  answer' \in [Clients -> [Ids -> Answers]]
    <2>1. [status |-> s, time |-> t] \in Answers
      BY <1>1 DEF Answers
    <2> HIDE DEF s
    <2>2. QED
      BY <1>2, <2>1 DEF TypeOK
  <1>3. Gone \in Nat /\ cloud[i] \in Nat
    BY DEF Gone, TypeOK
  <1>4. CASE AbortRequest(c)
    BY <1>4, AbortTyped
  <1>5. CASE ~AbortRequest(c)
    <2>1. /\ answer' \in [Clients -> [Ids -> Answers]]
          /\ UNCHANGED <<handling, taken, answerNew>>
      BY <1>2, <1>3, <1>5 DEF AnswerKnown
    <2>2. QED
      BY <2>1 DEF TypeOK, handling, cloudVars, clientVars
  <1>6. QED
    BY <1>4, <1>5

LEMMA DraftAnswerTyped ==
    ASSUME TypeOK, NEW c \in Clients, NEW k \in Drafts, NEW r \in NewAnswers,
           AnswerDraft(c, k, r)
    PROVE  answerNew' \in [Clients -> [Drafts -> NewAnswers]]
  BY DEF AnswerDraft, TypeOK

LEMMA TakenTyped ==
    ASSUME TypeOK, NEW c \in Clients, NEW i \in Ids,
           taken' = [taken EXCEPT ![c] = TakenOut(c, i)]
    PROVE  taken' \in [Clients -> SUBSET Ids]
  BY DEF TakenOut, TypeOK

LEMMA DraftTyped ==
    ASSUME TypeOK, NEW c \in Clients, NEW k \in Drafts,
           DenyCreate(c, k) \/ CreateFails(c, k) \/ FindExisting(c, k) \/ InsertFails(c, k)
    PROVE  TypeOK'
  <1>1. ASSUME NEW s \in {"ACCESS_DENIED", "ERROR", "checked"}
        PROVE  [NoNewAnswer EXCEPT !.status = s] \in NewAnswers
    BY <1>1 DEF NoNewAnswer, NewAnswers, SyncStates, Gone
  <1>2. ASSUME NEW s \in {"ALREADY_IN_CLOUD", "CREATED_IN_CLOUD"}, NEW i \in OfKind(k)
        PROVE  [status |-> s, id |-> i, time |-> cloud[i]] \in NewAnswers
    <2>1. i \in Ids /\ cloud[i] \in Nat
      BY DEF OfKind, TypeOK
    <2>2. QED
      BY <1>2, <2>1 DEF NewAnswers, SyncStates
  <1>3. answerNew' \in [Clients -> [Drafts -> NewAnswers]]
    <2>1. CASE DenyCreate(c, k)
      BY <2>1, <1>1, DraftAnswerTyped DEF DenyCreate
    <2>2. CASE CreateFails(c, k)
      BY <2>2, <1>1, DraftAnswerTyped DEF CreateFails
    <2>3. CASE InsertFails(c, k)
      BY <2>3, <1>1, DraftAnswerTyped DEF InsertFails
    <2>4. CASE FindExisting(c, k)
      <3>1. \E r \in NewAnswers : AnswerDraft(c, k, r)
        BY <2>4, <1>1, <1>2 DEF FindExisting
      <3>2. QED
        BY <3>1, DraftAnswerTyped
    <2>5. QED
      BY <2>1, <2>2, <2>3, <2>4
  <1>4. taken' \in [Clients -> SUBSET Ids]
    <2>1. CASE UNCHANGED taken
      BY <2>1 DEF TypeOK
    <2>2. CASE \E i \in OfKind(k) : taken' = [taken EXCEPT ![c] = TakenOut(c, i)]
      BY <2>2, TakenTyped DEF OfKind
    <2>3. QED
      BY <2>1, <2>2 DEF DenyCreate, CreateFails, InsertFails, FindExisting
  <1>5. UNCHANGED <<handling, answer>>
    BY DEF DenyCreate, CreateFails, InsertFails, FindExisting
  <1>6. QED
    BY <1>3, <1>4, <1>5 DEF TypeOK, handling, cloudVars, clientVars

LEMMA InsertTyped ==
    ASSUME TypeOK, NEW c \in Clients, NEW k \in Drafts, Insert(c, k)
    PROVE  TypeOK'
  <1> PICK i \in Ids \ used :
         /\ clock' = clock + 1
         /\ cloud' = [cloud EXCEPT ![i] = clock + 1]
         /\ used' = used \cup {i}
         /\ maker' = [maker EXCEPT ![i] = {<<c, k>>}]
         /\ AnswerDraft(c, k, [status |-> "CREATED_IN_CLOUD", id |-> i, time |-> clock + 1])
         /\ taken' = [taken EXCEPT ![c] = TakenOut(c, i)]
         /\ touched' = TouchedBy(c, i)
    BY DEF Insert
  <1>1. clock' \in 1..MaxTime /\ clock + 1 \in Nat
    BY SyncAssumption DEF Insert, TypeOK
  <1>2. cloud' \in [Ids -> Nat] /\ used' \in SUBSET Ids
    BY <1>1 DEF TypeOK
  <1>3. maker' \in [Ids -> SUBSET (Clients \X Drafts)]
    BY DEF TypeOK
  <1>4. [status |-> "CREATED_IN_CLOUD", id |-> i, time |-> clock + 1] \in NewAnswers
    BY <1>1 DEF NewAnswers, SyncStates
  <1>5. answerNew' \in [Clients -> [Drafts -> NewAnswers]]
    BY <1>4, DraftAnswerTyped
  <1>6. taken' \in [Clients -> SUBSET Ids] /\ touched' \in [Clients -> SUBSET Ids]
    BY TakenTyped, TouchedTyped
  <1>7. QED
    BY <1>1, <1>2, <1>3, <1>5, <1>6 DEF Insert, TypeOK, clientVars

LEMMA OfferTyped ==
    ASSUME TypeOK, NEW c \in Clients, NEW i \in Ids, OfferUnknown(c, i)
    PROVE  TypeOK'
  <1>1. CASE AbortRequest(c)
    BY <1>1, AbortTyped
  <1>2. CASE ~AbortRequest(c)
    <2> DEFINE a == [status |-> "NEW_DATA_AVAILABLE", time |-> cloud[i]]
    <2>1. a \in Answers
      BY DEF TypeOK, Answers, SyncStates
    <2>2. answer' = [answer EXCEPT ![c][i] = a] /\ UNCHANGED <<handling, taken, answerNew>>
      BY <1>2 DEF OfferUnknown
    <2> HIDE DEF a
    <2>3. answer' \in [Clients -> [Ids -> Answers]]
      BY <2>1, <2>2 DEF TypeOK
    <2>4. QED
      BY <2>2, <2>3 DEF TypeOK, handling, cloudVars, clientVars
  <1>3. QED
    BY <1>1, <1>2

LEMMA PushTyped ==
    ASSUME TypeOK, NEW c \in Clients, NEW i \in Ids, Push(c, i)
    PROVE  TypeOK'
  <1>1. [status |-> PushStatus(c, i), time |-> Gone] \in Answers
    BY DEF PushStatus, Answers, SyncStates, Gone
  <1>2. answer' \in [Clients -> [Ids -> Answers]]
    <2> DEFINE a == [status |-> PushStatus(c, i), time |-> Gone]
    <2>1. a \in Answers /\ answer' = [answer EXCEPT ![c][i] = a]
      BY <1>1 DEF Push
    <2> HIDE DEF a
    <2>2. QED
      BY <2>1 DEF TypeOK
  <1>3. cloud' \in [Ids -> Nat] /\ touched' \in [Clients -> SUBSET Ids]
    BY TouchedTyped DEF Push, TypeOK
  <1>4. QED
    BY <1>2, <1>3 DEF Push, TypeOK, clientVars

LEMMA ReceiveTyped ==
    ASSUME TypeOK, NEW c \in Clients, ReceiveAnswer(c)
    PROVE  TypeOK'
  <1>1. local' \in [Clients -> [Ids -> Nat]]
    BY AppliedTyped DEF ReceiveAnswer, TypeOK
  <1>2. draft' \in [Clients -> [Drafts -> {"none", "fresh", "synced"}]]
    BY DEF ReceiveAnswer, TypeOK
  <1>3. CASE EndCall(c)
    BY <1>1, <1>2, <1>3, EndCallTyped DEF ReceiveAnswer, TypeOK, cloudVars
  <1>4. CASE ~EndCall(c)
    <2>1. /\ stage' \in [Clients -> Stages]
          /\ accessRole' \in [Clients -> Roles]
          /\ UNCHANGED <<snap, taken, answer, answerNew, touched>>
      BY <1>4 DEF ReceiveAnswer, TypeOK, Stages
    <2>2. QED
      BY <1>1, <1>2, <2>1 DEF ReceiveAnswer, TypeOK, cloudVars
  <1>5. QED
    BY <1>3, <1>4

LEMMA CallTyped ==
    ASSUME TypeOK, NEW c \in Clients,
           \/ StartRequest(c) \/ ListCollection(c) \/ SendAnswer(c)
           \/ FinishReply(c) \/ LoseAnswer(c)
    PROVE  TypeOK'
  <1>1. CASE StartRequest(c)
    BY <1>1 DEF StartRequest, TypeOK, Stages, cloudVars, clientVars
  <1>2. CASE ListCollection(c)
    BY <1>2 DEF ListCollection, TypeOK, Stages, cloudVars, clientVars
  <1>3. CASE SendAnswer(c)
    BY <1>3 DEF SendAnswer, TypeOK, Stages, cloudVars, clientVars
  <1>4. CASE FinishReply(c)
    BY <1>4, EndCallTyped DEF FinishReply, TypeOK, cloudVars, clientVars
  <1>5. CASE LoseAnswer(c)
    <2>1. unanswered' \in [Clients -> BOOLEAN] /\ faults' \in Nat
      BY <1>5 DEF LoseAnswer, TypeOK
    <2>2. QED
      BY <1>5, <2>1, EndCallTyped DEF LoseAnswer, TypeOK, cloudVars, clientVars
  <1>6. QED
    BY <1>1, <1>2, <1>3, <1>4, <1>5

LEMMA CrashTyped ==
    ASSUME TypeOK, Crash
    PROVE  TypeOK'
  <1>1. /\ answer' \in [Clients -> [Ids -> Answers]]
        /\ answerNew' \in [Clients -> [Drafts -> NewAnswers]]
        /\ snap' \in [Clients -> [Ids -> Nat]]
    BY BlankTyped DEF Crash
  <1>2. /\ stage' \in [Clients -> Stages]
        /\ taken' \in [Clients -> SUBSET Ids]
        /\ touched' \in [Clients -> SUBSET Ids]
    BY DEF Crash, Stages
  <1>3. unanswered' \in [Clients -> BOOLEAN] /\ faults' \in Nat
    BY DEF Crash, TypeOK
  <1>4. QED
    BY <1>1, <1>2, <1>3 DEF Crash, TypeOK, cloudVars, clientVars

\* TypeOK: every variable keeps its shape, in particular every answer that leaves
\* the server carries one of the statuses that SYNCING.md tells clients about.
THEOREM TypeCorrect == Spec => []TypeOK
  <1>1. TypeOK /\ [Next]_vars => TypeOK'
    <2> SUFFICES ASSUME TypeOK, [Next]_vars PROVE TypeOK'
      OBVIOUS
    <2>1. ASSUME NEW c \in Clients, UserStep(c) PROVE TypeOK'
      BY <2>1, UserStepTyped
    <2>2. ASSUME NEW c \in Clients, SyncStep(c) PROVE TypeOK'
      BY <2>2, AnswerKnownTyped, DraftTyped, InsertTyped, OfferTyped, PushTyped,
         ReceiveTyped, CallTyped DEF SyncStep
    <2>3. ASSUME NEW c \in Clients, LoseAnswer(c) PROVE TypeOK'
      BY <2>3, CallTyped
    <2>4. CASE OtherStep
      BY <2>4, OtherStepTyped
    <2>5. CASE Crash
      BY <2>5, CrashTyped
    <2>6. CASE UNCHANGED vars
      BY <2>6 DEF vars, TypeOK
    <2>7. QED
      BY <2>1, <2>2, <2>3, <2>4, <2>5, <2>6 DEF Next
  <1>2. QED
    BY <1>1, InitTyped, PTL DEF Spec

-----------------------------------------------------------------------------
(* Who writes the stored items; what is deleted stays deleted.             *)

LEMMA CloudWriters ==
    ASSUME [Next]_vars
    PROVE  \/ UNCHANGED cloud
           \/ OtherStep
           \/ \E c \in Clients, k \in Drafts : Insert(c, k)
           \/ \E c \in Clients, i \in Ids : Push(c, i)
  <1>1. ASSUME NEW c \in Clients, UserStep(c) PROVE UNCHANGED cloud
    BY <1>1 DEF UserStep, LocalEdit, LocalCreate, Demote, cloudVars
  <1>2. ASSUME NEW c \in Clients, SyncStep(c),
               \A k \in Drafts : ~Insert(c, k), \A j \in Ids : ~Push(c, j)
        PROVE  UNCHANGED cloud
    BY <1>2 DEF SyncStep, StartRequest, ListCollection, AnswerKnown, AbortRequest,
       DenyCreate, CreateFails, FindExisting, InsertFails, OfferUnknown, SendAnswer,
       ReceiveAnswer, FinishReply, handling, cloudVars
  <1>3. QED
    BY <1>1, <1>2 DEF Next, LoseAnswer, Crash, vars, cloudVars

\* NoResurrection: a REPLY overwrites a row or reports an error, create only hands
\* out ids that were never used, and the other service edits what is there.
THEOREM DeletedStaysDeleted == Spec => NoResurrection
  <1> DEFINE Stays == \A i \in used : cloud[i] = Gone => cloud'[i] = Gone
  <1>1. TypeOK /\ [Next]_vars => Stays
    <2> SUFFICES ASSUME TypeOK, [Next]_vars,
                        NEW i \in used, cloud[i] = Gone
                 PROVE  cloud'[i] = Gone
      OBVIOUS
    <2>1. i \in Ids /\ cloud \in [Ids -> Nat]
      BY DEF TypeOK
    <2>2. CASE UNCHANGED cloud
      BY <2>2
    <2>3. CASE OtherStep
      BY <2>1, <2>3 DEF OtherStep, CloudEdit, CloudDelete
    <2>4. ASSUME NEW c \in Clients, NEW k \in Drafts, Insert(c, k)
          PROVE  cloud'[i] = Gone
      BY <2>1, <2>4 DEF Insert
    <2>5. ASSUME NEW c \in Clients, NEW j \in Ids, Push(c, j)
          PROVE  cloud'[i] = Gone
      BY <2>1, <2>5 DEF Push, PushStatus
    <2>6. QED
      BY <2>2, <2>3, <2>4, <2>5, CloudWriters
  <1>2. QED
    BY <1>1, TypeCorrect, PTL DEF Spec, NoResurrection

-----------------------------------------------------------------------------
(* The stored version of an item goes back only under a stale REPLY.       *)

\* Every version there is has a timestamp that was given out.
TimesPast ==
    /\ \A i \in Ids : cloud[i] <= clock
    /\ \A c \in Clients, i \in Ids : local[c][i] <= clock /\ answer[c][i].time <= clock
    /\ \A c \in Clients, k \in Drafts : answerNew[c][k].time <= clock

\* The cloud asks a client only for what was newer there than the version listed,
\* and that still holds when the client sends it.
AskedForNewer ==
    \A c \in Clients, i \in Ids :
        i \in Requested(c) => /\ stage[c] \in {"answering", "answered", "pushing"}
                              /\ snap[c][i] < local[c][i]

IInv == TypeOK /\ TimesPast /\ AskedForNewer

LEMMA BlankAnswers ==
    /\ NoAnswer.time = 0 /\ NoNewAnswer.time = 0
    /\ NoAnswer.status # "REQUEST_DATA"
  BY DEF NoAnswer, NoNewAnswer, Gone

LEMMA EndCallAsks ==
    ASSUME IInv, TypeOK', NEW c \in Clients, EndCall(c), UNCHANGED clock,
           NEW d \in Clients
    PROVE  /\ \A i \in Ids : answer'[d][i].time <= clock'
           /\ \A k \in Drafts : answerNew'[d][k].time <= clock'
           /\ \A i \in Ids : answer'[d][i].status = "REQUEST_DATA" =>
                 /\ d # c /\ stage'[d] = stage[d] /\ snap'[d] = snap[d]
                 /\ answer[d][i].status = "REQUEST_DATA"
  BY BlankAnswers DEF IInv, TypeOK, TimesPast, EndCall

LEMMA AppliedPast ==
    ASSUME IInv, NEW c \in Clients, NEW i \in Ids
    PROVE  Applied(c)[i] <= clock /\ (i \in Requested(c) => Applied(c)[i] = local[c][i])
  <1> DEFINE A == {answerNew[c][k] : k \in Drafts}
  <1>1. \A a \in A : a.time <= clock
    BY DEF IInv, TimesPast
  <1>2. ASSUME NEW k \in Drafts, answerNew[c][k].id = i
        PROVE  (CHOOSE a \in A : a.id = i).time <= clock
    <2>1. \E a \in A : a.id = i
      BY <1>2
    <2>2. (CHOOSE a \in A : a.id = i) \in A
      BY <2>1
    <2>3. QED
      BY <1>1, <2>2
  <1>3. local[c][i] <= clock /\ answer[c][i].time <= clock /\ 0 <= clock
    BY DEF IInv, TimesPast, TypeOK
  <1>4. QED
    BY <1>2, <1>3 DEF Applied, Gone

\* What a step does to the timestamps.
LEMMA TimesStep ==
    ASSUME IInv, TypeOK', [Next]_vars
    PROVE  TimesPast'
  <1>1. ASSUME UNCHANGED <<clock, cloud, local, answer, answerNew>> PROVE TimesPast'
    BY <1>1 DEF IInv, TimesPast
  <1>2. ASSUME NEW c \in Clients, NEW i \in Ids, LocalEdit(c, i) PROVE TimesPast'
    BY <1>2 DEF IInv, TypeOK, TimesPast, LocalEdit, callVars, Answers, NewAnswers
  <1>3. ASSUME NEW i \in Ids, CloudEdit(i) \/ CloudDelete(i) PROVE TimesPast'
    <2>1. clock' \in {clock, clock + 1} /\ \A j \in Ids : cloud'[j] <= clock'
      <3>1. clock \in Nat /\ cloud \in [Ids -> Nat] /\ \A j \in Ids : cloud[j] <= clock
        BY DEF IInv, TypeOK, TimesPast
      <3>2. CASE CloudEdit(i)
        BY <3>1, <3>2 DEF CloudEdit
      <3>3. CASE CloudDelete(i)
        BY <3>1, <3>3 DEF CloudDelete, Gone
      <3>4. QED
        BY <1>3, <3>2, <3>3
    <2>2. UNCHANGED <<local, answer, answerNew>>
      BY <1>3 DEF CloudEdit, CloudDelete, clientVars, callVars
    <2>3. QED
      BY <2>1, <2>2 DEF IInv, TypeOK, TimesPast, Answers, NewAnswers
  <1>4. ASSUME NEW c \in Clients, EndCall(c), UNCHANGED <<cloudVars, local>>
        PROVE  TimesPast'
    BY <1>4, EndCallAsks DEF IInv, TimesPast, cloudVars
  <1>5. ASSUME NEW c \in Clients, NEW i \in Ids, NEW s, NEW t \in Nat, t <= clock,
               answer' = [answer EXCEPT ![c][i] = [status |-> s, time |-> t]],
               UNCHANGED <<clock, cloud, local, answerNew>>
        PROVE  TimesPast'
    BY <1>5 DEF IInv, TypeOK, TimesPast
  <1>6. ASSUME NEW c \in Clients, NEW k \in Drafts, NEW r, r.time <= clock,
               AnswerDraft(c, k, r), UNCHANGED <<clock, cloud, local, answer>>
        PROVE  TimesPast'
    BY <1>6 DEF IInv, TypeOK, TimesPast, AnswerDraft
  <1>7. ASSUME NEW c \in Clients, UserStep(c) PROVE TimesPast'
    BY <1>1, <1>2, <1>7 DEF UserStep, LocalCreate, Demote, cloudVars, clientVars, callVars
  <1>8. ASSUME NEW c \in Clients, NEW i \in Ids, AnswerKnown(c, i) \/ OfferUnknown(c, i)
        PROVE  TimesPast'
    <2>1. Gone \in Nat /\ cloud[i] \in Nat /\ Gone <= clock /\ cloud[i] <= clock
      BY DEF IInv, TypeOK, TimesPast, Gone
    <2>2. CASE AbortRequest(c)
      BY <1>4, <2>2 DEF AbortRequest, clientVars
    <2>3. CASE ~AbortRequest(c)
      <3>1. UNCHANGED <<clock, cloud, local, answerNew>>
        BY <1>8, <2>3 DEF AnswerKnown, OfferUnknown, handling, cloudVars, clientVars
      <3>2. \E s : \E t \in {Gone, cloud[i]} :
               answer' = [answer EXCEPT ![c][i] = [status |-> s, time |-> t]]
        BY <1>8, <2>3 DEF AnswerKnown, OfferUnknown
      <3>3. QED
        BY <1>5, <2>1, <3>1, <3>2
    <2>4. QED
      BY <2>2, <2>3
  <1>9. ASSUME NEW c \in Clients, NEW k \in Drafts,
               DenyCreate(c, k) \/ CreateFails(c, k) \/ FindExisting(c, k) \/ InsertFails(c, k)
        PROVE  TimesPast'
    <2>1. UNCHANGED <<clock, cloud, local, answer>>
      BY <1>9 DEF DenyCreate, CreateFails, FindExisting, InsertFails, handling,
         cloudVars, clientVars
    <2>2. \A s : [NoNewAnswer EXCEPT !.status = s].time <= clock
      BY DEF NoNewAnswer, Gone, IInv, TypeOK
    <2>3. \A s : \A i \in OfKind(k) : [status |-> s, id |-> i, time |-> cloud[i]].time <= clock
      BY DEF OfKind, IInv, TimesPast
    <2>4. \E r : r.time <= clock /\ AnswerDraft(c, k, r)
      BY <1>9, <2>2, <2>3 DEF DenyCreate, CreateFails, FindExisting, InsertFails
    <2>5. QED
      BY <1>6, <2>1, <2>4
  <1>10. ASSUME NEW c \in Clients, NEW k \in Drafts, Insert(c, k) PROVE TimesPast'
    BY <1>10 DEF IInv, TypeOK, TimesPast, Insert, AnswerDraft, clientVars, Answers, NewAnswers
  <1>11. ASSUME NEW c \in Clients, ReceiveAnswer(c) PROVE TimesPast'
    <2>1. \A d \in Clients, i \in Ids : local'[d][i] <= clock
      BY <1>11, AppliedPast DEF ReceiveAnswer, IInv, TypeOK, TimesPast
    <2>2. UNCHANGED <<clock, cloud>>
      BY <1>11 DEF ReceiveAnswer, cloudVars
    <2>3. EndCall(c) \/ UNCHANGED <<answer, answerNew>>
      BY <1>11 DEF ReceiveAnswer
    <2>4. QED
      BY <2>1, <2>2, <2>3, EndCallAsks DEF IInv, TimesPast
  <1>12. ASSUME NEW c \in Clients, NEW i \in Ids, Push(c, i) PROVE TimesPast'
    <2>1. UNCHANGED <<clock, local, answerNew>>
      BY <1>12 DEF Push, clientVars
    <2>2. \A j \in Ids : cloud'[j] <= clock
      BY <1>12 DEF Push, IInv, TypeOK, TimesPast
    <2>3. \A d \in Clients, j \in Ids : answer'[d][j].time <= clock
      BY <1>12 DEF Push, IInv, TypeOK, TimesPast, Gone
    <2>4. QED
      BY <2>1, <2>2, <2>3 DEF IInv, TimesPast
  <1>13. CASE Crash
    BY <1>13, BlankAnswers DEF Crash, IInv, TypeOK, TimesPast, cloudVars, clientVars
  <1>14. ASSUME NEW c \in Clients, SyncStep(c) PROVE TimesPast'
    <2>1. ASSUME StartRequest(c) \/ ListCollection(c) \/ SendAnswer(c) PROVE TimesPast'
      BY <1>1, <2>1 DEF StartRequest, ListCollection, SendAnswer, cloudVars, clientVars
    <2>2. ASSUME FinishReply(c) PROVE TimesPast'
      BY <1>4, <2>2 DEF FinishReply, clientVars
    <2>3. QED
      BY <1>8, <1>9, <1>10, <1>11, <1>12, <1>14, <2>1, <2>2 DEF SyncStep
  <1>15. QED
    <2>1. ASSUME NEW c \in Clients, LoseAnswer(c) PROVE TimesPast'
      BY <1>4, <2>1 DEF LoseAnswer, clientVars
    <2>2. QED
      BY <1>1, <1>3, <1>7, <1>13, <1>14, <2>1 DEF Next, OtherStep, vars

\* What a step does to the items the cloud has asked for.
LEMMA AskedStep ==
    ASSUME IInv, TypeOK', [Next]_vars
    PROVE  AskedForNewer'
  <1> SUFFICES ASSUME NEW d \in Clients, NEW j \in Ids,
                      answer'[d][j].status = "REQUEST_DATA"
               PROVE  /\ stage'[d] \in {"answering", "answered", "pushing"}
                      /\ snap'[d][j] < local'[d][j]
    BY DEF AskedForNewer, Requested
  <1> DEFINE Asked == /\ stage[d] \in {"answering", "answered", "pushing"}
                      /\ snap[d][j] < local[d][j]
  <1>0. answer[d][j].status = "REQUEST_DATA" => Asked
    BY DEF IInv, AskedForNewer, Requested
  <1>1. ASSUME answer'[d][j] = answer[d][j],
               stage'[d] = stage[d] \/ stage'[d] \in {"answering", "answered", "pushing"},
               stage[d] = "asked" \/ snap'[d] = snap[d], local'[d][j] = local[d][j]
        PROVE  Asked /\ Asked'
    BY <1>0, <1>1
  <1>2. ASSUME NEW c \in Clients, EndCall(c), UNCHANGED <<cloudVars, local>>
        PROVE  Asked'
    BY <1>0, <1>2, EndCallAsks DEF cloudVars
  <1>3. ASSUME NEW c \in Clients, NEW i \in Ids, LocalEdit(c, i) PROVE Asked'
    BY <1>0, <1>3 DEF LocalEdit, callVars, IInv, TypeOK
  <1>4. ASSUME NEW c \in Clients, UserStep(c) PROVE Asked'
    BY <1>1, <1>3, <1>4 DEF UserStep, LocalCreate, Demote, cloudVars, clientVars, callVars
  <1>5. CASE OtherStep
    BY <1>1, <1>5 DEF OtherStep, CloudEdit, CloudDelete, clientVars, callVars
  <1>6. ASSUME NEW c \in Clients, NEW i \in Ids, AnswerKnown(c, i) PROVE Asked'
    <2>1. CASE AbortRequest(c)
      BY <1>2, <2>1 DEF AbortRequest, clientVars
    <2> SUFFICES ASSUME ~AbortRequest(c) PROVE Asked'
      BY <2>1
    <2>2. UNCHANGED <<stage, snap, local>> /\ stage[c] = "answering"
      BY <1>6 DEF AnswerKnown, Handling, handling, clientVars
    <2> DEFINE s == StatusFor(category, accessRole[c], local[c][i], Listed(c, i))
    <2>3. \E t : answer' = [answer EXCEPT ![c][i] = [status |-> s, time |-> t]]
      BY <1>6 DEF AnswerKnown
    <2>4. s = "REQUEST_DATA" => snap[c][i] < local[c][i]
      <3>1. local[c][i] \in Nat /\ snap[c][i] \in Nat
        BY DEF IInv, TypeOK
      <3>2. QED
        BY <3>1 DEF StatusFor, getReply, getReplyBasedOnTime, Listed, Gone
    <2> HIDE DEF s
    <2>5. CASE d = c /\ j = i
      <3>1. answer'[d][j].status = s
        BY <2>3, <2>5 DEF IInv, TypeOK
      <3>2. QED
        BY <2>2, <2>4, <2>5, <3>1
    <2>6. CASE ~(d = c /\ j = i)
      <3>1. answer'[d][j] = answer[d][j]
        BY <2>3, <2>6 DEF IInv, TypeOK
      <3>2. QED
        BY <1>1, <2>2, <3>1
    <2>7. QED
      BY <2>5, <2>6
  <1>7. ASSUME NEW c \in Clients, NEW i \in Ids, OfferUnknown(c, i) PROVE Asked'
    <2>1. CASE AbortRequest(c)
      BY <1>2, <2>1 DEF AbortRequest, clientVars
    <2>2. CASE ~AbortRequest(c)
      <3>1. UNCHANGED <<stage, snap, local>>
        BY <1>7, <2>2 DEF OfferUnknown, handling, clientVars
      <3> DEFINE a == [status |-> "NEW_DATA_AVAILABLE", time |-> cloud[i]]
      <3>2. answer' = [answer EXCEPT ![c][i] = a] /\ a.status # "REQUEST_DATA"
        BY <1>7, <2>2 DEF OfferUnknown
      <3> HIDE DEF a
      <3>3. answer'[d][j] = answer[d][j]
        BY <3>2 DEF IInv, TypeOK
      <3>4. QED
        BY <1>1, <3>1, <3>3
    <2>3. QED
      BY <2>1, <2>2
  <1>8. ASSUME NEW c \in Clients, NEW k \in Drafts,
               \/ DenyCreate(c, k) \/ CreateFails(c, k) \/ FindExisting(c, k)
               \/ InsertFails(c, k) \/ Insert(c, k)
        PROVE  Asked'
    BY <1>1, <1>8 DEF DenyCreate, CreateFails, FindExisting, InsertFails, Insert,
       handling, clientVars
  <1>9. ASSUME NEW c \in Clients, ReceiveAnswer(c) PROVE Asked'
    <2>1. UNCHANGED cloudVars
      BY <1>9 DEF ReceiveAnswer
    <2>2. CASE EndCall(c)
      <3>1. d # c /\ stage'[d] = stage[d] /\ snap'[d] = snap[d] /\ Asked
        BY <1>0, <2>1, <2>2, EndCallAsks DEF cloudVars
      <3>2. local'[d] = local[d]
        BY <1>9, <3>1 DEF ReceiveAnswer, IInv, TypeOK
      <3>3. QED
        BY <3>1, <3>2
    <2>3. CASE ~EndCall(c)
      <3>1. UNCHANGED <<snap, answer>> /\ stage' = [stage EXCEPT ![c] = "pushing"]
        BY <1>9, <2>3 DEF ReceiveAnswer
      <3>2. local'[d][j] = local[d][j]
        <4>1. CASE d = c
          BY <1>9, <3>1, <4>1, AppliedPast DEF ReceiveAnswer, Requested, IInv, TypeOK
        <4>2. CASE d # c
          BY <1>9, <4>2 DEF ReceiveAnswer, IInv, TypeOK
        <4>3. QED
          BY <4>1, <4>2
      <3>3. stage'[d] = stage[d] \/ stage'[d] = "pushing"
        BY <3>1 DEF IInv, TypeOK
      <3>4. QED
        BY <1>1, <3>1, <3>2, <3>3
    <2>4. QED
      BY <2>2, <2>3
  <1>10. ASSUME NEW c \in Clients, NEW i \in Ids, Push(c, i) PROVE Asked'
    <2>1. UNCHANGED <<stage, snap, local>>
      BY <1>10 DEF Push, clientVars
    <2>2. answer'[d][j] = answer[d][j]
      BY <1>10 DEF Push, PushStatus, IInv, TypeOK
    <2>3. QED
      BY <1>1, <2>1, <2>2
  <1>11. ASSUME NEW c \in Clients, StartRequest(c) PROVE Asked'
    <2>1. UNCHANGED <<snap, local, answer>> /\ stage[c] = "idle"
          /\ stage' = [stage EXCEPT ![c] = "asked"]
      BY <1>11 DEF StartRequest, clientVars
    <2>2. d # c /\ stage'[d] = stage[d]
      BY <1>0, <2>1 DEF IInv, TypeOK
    <2>3. QED
      BY <1>1, <2>1, <2>2
  <1>12. ASSUME NEW c \in Clients, ListCollection(c) PROVE Asked'
    <2>1. UNCHANGED <<local, answer>> /\ stage[c] = "asked"
          /\ stage' = [stage EXCEPT ![c] = "answering"] /\ snap' = [snap EXCEPT ![c] = cloud]
      BY <1>12 DEF ListCollection, clientVars
    <2>2. d # c /\ stage'[d] = stage[d] /\ snap'[d] = snap[d]
      BY <1>0, <2>1 DEF IInv, TypeOK
    <2>3. QED
      BY <1>1, <2>1, <2>2
  <1>13. ASSUME NEW c \in Clients, SendAnswer(c) PROVE Asked'
    <2>1. UNCHANGED <<snap, local, answer>> /\ stage' = [stage EXCEPT ![c] = "answered"]
      BY <1>13 DEF SendAnswer, clientVars
    <2>2. stage'[d] = stage[d] \/ stage'[d] = "answered"
      BY <2>1 DEF IInv, TypeOK
    <2>3. QED
      BY <1>1, <2>1, <2>2
  <1>14. ASSUME NEW c \in Clients, FinishReply(c) \/ LoseAnswer(c) PROVE Asked'
    BY <1>2, <1>14 DEF FinishReply, LoseAnswer, clientVars
  <1>15. CASE Crash
    BY <1>15, BlankAnswers DEF Crash
  <1>16. CASE UNCHANGED vars
    BY <1>1, <1>16 DEF vars
  <1>17. QED
    <2>1. ASSUME NEW c \in Clients, SyncStep(c) PROVE Asked'
      BY <1>6, <1>7, <1>8, <1>9, <1>10, <1>11, <1>12, <1>13, <1>14, <2>1 DEF SyncStep
    <2>2. QED
      BY <1>4, <1>5, <1>14, <1>15, <1>16, <2>1 DEF Next

LEMMA IInvInvariant == Spec => []IInv
  <1>1. Init => IInv
    <2> SUFFICES ASSUME Init PROVE IInv
      OBVIOUS
    <2>1. TypeOK
      BY InitTyped
    <2>2. TimesPast
      <3>1. clock = 1 /\ \A i \in Ids : cloud[i] \in {0, 1}
        BY DEF Init, Gone
      <3>2. \A c \in Clients, i \in Ids : local[c][i] \in {0, 1} /\ answer[c][i].time = 0
        BY BlankAnswers DEF Init, Gone
      <3>3. \A c \in Clients, k \in Drafts : answerNew[c][k].time = 0
        BY BlankAnswers DEF Init
      <3>4. QED
        BY <3>1, <3>2, <3>3 DEF TimesPast
    <2>3. AskedForNewer
      BY BlankAnswers DEF Init, AskedForNewer, Requested
    <2>4. QED
      BY <2>1, <2>2, <2>3 DEF IInv
  <1>2. IInv /\ TypeOK' /\ [Next]_vars => IInv'
    BY TimesStep, AskedStep DEF IInv
  <1>3. QED
    BY <1>1, <1>2, TypeCorrect, PTL DEF Spec

\* RollbackOnlyWhenStale: processSyncReply writes whatever it is sent, yet the stored
\* version goes back only when somebody wrote the item after the client's REQUEST
\* had listed it.
THEOREM RollbackNeedsStaleReply == Spec => RollbackOnlyWhenStale
  <1> DEFINE Stale(i) == \E c \in Clients : /\ stage[c] = "pushing" /\ i \in Requested(c)
                                           /\ snap[c][i] < cloud[i]
  <1> DEFINE Allowed == \A i \in Ids : (cloud'[i] # Gone /\ cloud'[i] < cloud[i]) => Stale(i)
  <1>1. IInv /\ [Next]_vars => Allowed
    <2> SUFFICES ASSUME IInv, [Next]_vars, NEW i \in Ids,
                        cloud'[i] # Gone, cloud'[i] < cloud[i]
                 PROVE  Stale(i)
      OBVIOUS
    <2>1. cloud \in [Ids -> Nat] /\ clock \in Nat /\ cloud[i] <= clock
      BY DEF IInv, TypeOK, TimesPast
    <2>2. cloud'[i] # cloud[i]
      BY <2>1
    <2>3. ASSUME NEW c \in Clients, NEW j \in Ids, Push(c, j) PROVE Stale(i)
      <3>1. j = i /\ cloud'[i] = local[c][i] /\ stage[c] = "pushing" /\ i \in Requested(c)
        BY <2>1, <2>2, <2>3 DEF Push
      <3>2. snap[c][i] < local[c][i]
        BY <3>1 DEF IInv, AskedForNewer
      <3>3. snap[c][i] \in Nat /\ local[c][i] \in Nat
        BY DEF IInv, TypeOK
      <3>4. QED
        BY <2>1, <3>1, <3>2, <3>3
    <2>4. CASE OtherStep
      BY <2>1, <2>4 DEF OtherStep, CloudEdit, CloudDelete
    <2>5. ASSUME NEW c \in Clients, NEW k \in Drafts, Insert(c, k) PROVE Stale(i)
      BY <2>1, <2>5 DEF Insert
    <2>6. QED
      BY <2>2, <2>3, <2>4, <2>5, CloudWriters
  <1>2. Allowed => [\A i \in Ids :
         (cloud'[i] # Gone /\ cloud'[i] < cloud[i])
            => \E c \in Clients : /\ stage[c] = "pushing" /\ i \in Requested(c)
                                  /\ snap[c][i] < cloud[i]]_vars
    OBVIOUS
  <1> HIDE DEF Allowed
  <1>3. QED
    BY <1>1, <1>2, IInvInvariant, PTL DEF Spec, RollbackOnlyWhenStale

-----------------------------------------------------------------------------
(***************************************************************************)
(* What one call does to the client's own copies: that the (at most two)   *)
(* calls of a sync converge, that a copy goes back only for what others    *)
(* have written, that what a user made is stored once, and that an id is   *)
(* not offered twice.                                                      *)
(*                                                                         *)
(* The argument is about one client and its call at a time: CallInv(c)     *)
(* says what the answers so far are worth, and a step of anybody else      *)
(* keeps it because what the others write is in touched[c].                *)
(***************************************************************************)

(* The inductive invariant.                                                *)

Answering(c) == stage[c] \in {"answering", "answered"}

\* Whatever an id is used for, it has been handed out.
IdsUsed ==
    /\ \A i \in Ids : cloud[i] # Gone \/ maker[i] # {} => i \in used
    /\ \A c \in Clients, i \in Ids :
         local[c][i] # Gone \/ snap[c][i] # Gone \/ answer[c][i].time # Gone => i \in used
    /\ \A c \in Clients, k \in Drafts : answerNew[c][k].id \in used \cup {NoId}

\* Before the collection is listed, nothing is answered.
Blank(c) ==
    stage[c] \in {"idle", "asked"} =>
        /\ touched[c] = {} /\ taken[c] = {}
        /\ \A i \in Ids : answer[c][i] = NoAnswer
        /\ \A k \in Drafts : answerNew[c][k] = NoNewAnswer

\* What the status of an answer says of the copy and of the list.
Compared(c) ==
    Answering(c) => \A i \in Ids :
        /\ answer[c][i].status \in {"none", "IN_SYNC", "NOT_AVAILABLE", "NEW_DATA_AVAILABLE", "REQUEST_DATA"}
        /\ answer[c][i].status = "IN_SYNC" =>
                \/ local[c][i] = snap[c][i]
                \/ accessRole[c] \notin editPermissions(category)
        /\ answer[c][i].status = "NOT_AVAILABLE" => snap[c][i] = Gone \/ i \in taken[c]
        /\ answer[c][i].status = "NEW_DATA_AVAILABLE" =>
                /\ local[c][i] < snap[c][i]
                /\ i \in touched[c] \/ answer[c][i].time = cloud[i]
        /\ answer[c][i].status = "REQUEST_DATA" =>
                /\ snap[c][i] # Gone
                /\ accessRole[c] \in editPermissions(category)

\* What nobody else has written is as it was listed, or made by this very call.
ListHolds(c) ==
    Answering(c) => \A i \in Ids \ touched[c] :
        \/ cloud[i] = snap[c][i]
        \/ snap[c][i] = Gone /\ i \in taken[c]

\* What create has returned.
Created(c) ==
    Answering(c) =>
        /\ \A k \in Drafts : LET new == answerNew[c][k] IN
             /\ new.status \in {"none", "checked"} => new.id = NoId
             /\ new.status = "checked" => k \in NewInCall(c)
             /\ new.id # NoId =>
                    /\ accessRole[c] \in writePermissions(category)
                    /\ new.id \in touched[c] \/ new.time = cloud[new.id]
                    /\ OnDuplicate(category) = "returns" => new.id \in taken[c]
        /\ \A i \in taken[c] :
             /\ \E k \in Drafts : answerNew[c][k].id = i
             /\ OnDuplicate(category) # "returns" => local[c][i] = Gone /\ snap[c][i] = Gone

\* A unique item is inserted only if none of its kind has come up since it was looked for.
CheckedIsFree(c) ==
    Answering(c) => \A k \in Drafts : answerNew[c][k].status = "checked" =>
        \A i \in Ids : cloud[i] # Gone => <<c, k>> \notin maker[i]

\* The second loop comes after the first, and the answer after both.
LoopsInOrder(c) ==
    /\ Answering(c) => \A i \in Ids :
         (local[c][i] = Gone /\ answer[c][i].status # "none") => RequestHandled(c) /\ i \notin taken[c]
    /\ stage[c] = "answered" => RequestHandled(c) /\ Unoffered(c) = {}

\* What is left to be sent is what keeps the copy and the cloud apart.
OnlyRequestedDiffers(c) ==
    stage[c] = "pushing" => \A i \in Ids \ touched[c] :
        /\ i \in Requested(c) => cloud[i] # Gone
        /\ accessRole[c] \in editPermissions(category) /\ TakenInReply(category)
                => i \in Requested(c) \/ local[c][i] = cloud[i]

\* A draft the client knows the id of is no draft any more; one it doesn't, and for which
\* no answer was lost, has not been made.
DraftsKept(c) ==
    \A k \in Drafts :
        /\ stage[c] = "pushing" /\ answerNew[c][k].id # NoId => draft[c][k] = "synced"
        /\ (/\ OnDuplicate(category) = "inserts" /\ ~unanswered[c]
            /\ draft[c][k] # "synced" /\ answerNew[c][k].id = NoId)
                => \A i \in Ids : <<c, k>> \notin maker[i]

CallInv(c) ==
    /\ Blank(c) /\ Compared(c) /\ ListHolds(c) /\ Created(c) /\ CheckedIsFree(c)
    /\ LoopsInOrder(c) /\ OnlyRequestedDiffers(c) /\ DraftsKept(c)

Inv == TypeOK /\ IdsUsed /\ StoredOnce /\ \A c \in Clients : CallInv(c)


-----------------------------------------------------------------------------
(* A step of the others.                                                   *)

\* What a step of somebody else leaves of the call of d, and of what it rests on.
Bystander(d) ==
    /\ category' = category
    /\ stage'[d] = stage[d] /\ accessRole'[d] = accessRole[d]
    /\ snap'[d] = snap[d] /\ taken'[d] = taken[d]
    /\ answer'[d] = answer[d] /\ answerNew'[d] = answerNew[d]
    /\ local'[d] = local[d] /\ draft'[d] = draft[d] /\ unanswered'[d] = unanswered[d]
    /\ touched[d] \subseteq touched'[d]
    /\ stage[d] \in {"idle", "asked"} => touched'[d] = touched[d]
    /\ \A i \in Ids :
         /\ cloud'[i] = cloud[i] \/ stage[d] \in {"idle", "asked"} \/ i \in touched'[d]
         /\ \A k \in Drafts : <<d, k>> \in maker'[i] =>
                <<d, k>> \in maker[i] /\ (cloud'[i] # Gone => cloud[i] # Gone)

LEMMA BystanderKeeps ==
    ASSUME TypeOK, TypeOK', NEW d \in Clients, CallInv(d), Bystander(d),
           \A k \in Drafts : answerNew[d][k].id \in Ids \cup {NoId}
    PROVE  CallInv(d)'
  <1>1. Blank(d)'
    BY DEF CallInv, Blank, Bystander
  <1>2. Compared(d)'
    <2> SUFFICES ASSUME Answering(d)', NEW i \in Ids
                 PROVE  /\ answer'[d][i].status \in {"none", "IN_SYNC", "NOT_AVAILABLE", "NEW_DATA_AVAILABLE", "REQUEST_DATA"}
                        /\ answer'[d][i].status = "IN_SYNC" =>
                                \/ local'[d][i] = snap'[d][i]
                                \/ accessRole'[d] \notin editPermissions(category')
                        /\ answer'[d][i].status = "NOT_AVAILABLE" => snap'[d][i] = Gone \/ i \in taken'[d]
                        /\ answer'[d][i].status = "NEW_DATA_AVAILABLE" =>
                                /\ local'[d][i] < snap'[d][i]
                                /\ i \in touched'[d] \/ answer'[d][i].time = cloud'[i]
                        /\ answer'[d][i].status = "REQUEST_DATA" =>
                                /\ snap'[d][i] # Gone
                                /\ accessRole'[d] \in editPermissions(category')
      BY DEF Compared, editPermissions, HubWritten
    <2>1. Answering(d) /\ Compared(d)
      BY DEF Bystander, Answering, CallInv
    <2>2. cloud'[i] = cloud[i] \/ i \in touched'[d]
      BY <2>1 DEF Bystander, Answering
    <2>3. QED
      BY <2>1, <2>2 DEF Compared, Bystander
  <1>3. ListHolds(d)'
    <2> SUFFICES ASSUME Answering(d)', NEW i \in Ids, i \notin touched'[d]
                 PROVE  cloud'[i] = snap'[d][i] \/ (snap'[d][i] = Gone /\ i \in taken'[d])
      BY DEF ListHolds
    <2>1. Answering(d) /\ ListHolds(d) /\ i \notin touched[d] /\ cloud'[i] = cloud[i]
      BY DEF Bystander, Answering, CallInv
    <2>2. QED
      BY <2>1 DEF ListHolds, Bystander
  <1>4. Created(d)'
    <2> SUFFICES ASSUME Answering(d)' PROVE Created(d)'
      BY DEF Created
    <2>1. Answering(d) /\ Created(d)
      BY DEF Bystander, Answering, CallInv
    <2>2. ASSUME NEW k \in Drafts, answerNew[d][k].id # NoId
          PROVE  answerNew[d][k].id \in touched'[d] \/ answerNew[d][k].time = cloud'[answerNew[d][k].id]
      <3>1. answerNew[d][k].id \in Ids
        BY <2>2
      <3>2. answerNew[d][k].id \in touched[d] \/ answerNew[d][k].time = cloud[answerNew[d][k].id]
        BY <2>1, <2>2 DEF Created
      <3>3. QED
        BY <2>1, <3>1, <3>2 DEF Bystander, Answering
    <2>3. NewInCall(d)' = NewInCall(d)
      BY DEF NewInCall, Bystander
    <2>4. QED
      BY <2>1, <2>2, <2>3 DEF Created, Bystander
  <1>5. CheckedIsFree(d)'
    BY DEF CallInv, CheckedIsFree, Answering, Bystander
  <1>6. (RequestHandled(d)' <=> RequestHandled(d)) /\ Unoffered(d)' = Unoffered(d)
    BY DEF Bystander, RequestHandled, Unoffered, Known, NewInCall, Listed
  <1>7. LoopsInOrder(d)'
    BY <1>6 DEF CallInv, LoopsInOrder, Answering, Bystander
  <1>8. OnlyRequestedDiffers(d)'
    <2> SUFFICES ASSUME stage'[d] = "pushing", NEW i \in Ids, i \notin touched'[d]
                 PROVE  /\ i \in Requested(d)' => cloud'[i] # Gone
                        /\ accessRole'[d] \in editPermissions(category') /\ TakenInReply(category')
                             => i \in Requested(d)' \/ local'[d][i] = cloud'[i]
      BY DEF OnlyRequestedDiffers, editPermissions, HubWritten, TakenInReply
    <2>1. stage[d] = "pushing" /\ i \notin touched[d] /\ cloud'[i] = cloud[i] /\ Requested(d)' = Requested(d)
      BY DEF Bystander, Requested
    <2>2. QED
      BY <2>1 DEF CallInv, OnlyRequestedDiffers, Bystander
  <1>9. DraftsKept(d)'
    BY DEF CallInv, DraftsKept, Bystander
  <1>10. QED
    BY <1>1, <1>2, <1>3, <1>4, <1>5, <1>7, <1>8, <1>9 DEF CallInv

LEMMA TouchedGrows ==
    ASSUME TypeOK, NEW c, NEW i \in Ids, NEW d \in Clients, touched' = TouchedBy(c, i)
    PROVE  /\ touched[d] \subseteq touched'[d]
           /\ stage[d] \in {"idle", "asked"} => touched'[d] = touched[d]
           /\ d = c => touched'[d] = touched[d]
           /\ d # c => stage[d] \in {"idle", "asked"} \/ i \in touched'[d]
  BY DEF TypeOK, TouchedBy

LEMMA OtherIsBystander ==
    ASSUME TypeOK, OtherStep, NEW d \in Clients
    PROVE  Bystander(d)
  <1> PICK i \in Ids : CloudEdit(i) \/ CloudDelete(i)
    BY DEF OtherStep
  <1>1. /\ touched' = TouchedBy(NoId, i) /\ cloud[i] # Gone
        /\ \A j \in Ids : j # i => cloud'[j] = cloud[j]
        /\ UNCHANGED <<category, maker, local, draft, stage, accessRole, snap, taken, answer, answerNew, unanswered>>
    BY DEF CloudEdit, CloudDelete, clientVars, callVars, TypeOK
  <1>2. d # NoId
    BY SyncAssumption
  <1>3. QED
    BY <1>1, <1>2, TouchedGrows DEF Bystander

LEMMA UserIsBystander ==
    ASSUME TypeOK, NEW c \in Clients, UserStep(c), NEW d \in Clients, d # c \/ Demote(c)
    PROVE  Bystander(d)
  <1>1. ASSUME NEW i \in Ids, LocalEdit(c, i), d # c PROVE Bystander(d)
    BY <1>1 DEF LocalEdit, callVars, Bystander, TypeOK
  <1>2. ASSUME NEW k \in Drafts, LocalCreate(c, k), d # c PROVE Bystander(d)
    BY <1>2 DEF LocalCreate, cloudVars, callVars, Bystander, TypeOK
  <1>3. ASSUME Demote(c) PROVE Bystander(d)
    BY <1>3 DEF Demote, cloudVars, clientVars, callVars, Bystander
  <1>4. QED
    BY <1>1, <1>2, <1>3 DEF UserStep

LEMMA InsertBystander ==
    ASSUME TypeOK, NEW c \in Clients, NEW k \in Drafts, Insert(c, k), NEW d \in Clients, d # c
    PROVE  Bystander(d)
  <1> PICK i \in Ids \ used :
       /\ cloud' = [cloud EXCEPT ![i] = clock + 1]
       /\ maker' = [maker EXCEPT ![i] = {<<c, k>>}]
       /\ \E reply : AnswerDraft(c, k, reply)
       /\ taken' = [taken EXCEPT ![c] = TakenOut(c, i)]
       /\ touched' = TouchedBy(c, i)
    BY DEF Insert
  <1>1. UNCHANGED <<category, local, draft, stage, accessRole, snap, answer, unanswered>>
    BY DEF Insert, clientVars
  <1>2. taken'[d] = taken[d] /\ answerNew'[d] = answerNew[d]
    BY DEF TypeOK, AnswerDraft
  <1>3. \A j \in Ids : /\ cloud'[j] = cloud[j] \/ j = i
                       /\ \A l \in Drafts : <<d, l>> \in maker'[j] => <<d, l>> \in maker[j] /\ cloud'[j] = cloud[j]
    BY DEF TypeOK
  <1>4. QED
    BY <1>1, <1>2, <1>3, TouchedGrows DEF Bystander

LEMMA PushBystander ==
    ASSUME TypeOK, NEW c \in Clients, NEW i \in Ids, Push(c, i), NEW d \in Clients, d # c
    PROVE  Bystander(d)
  <1>1. /\ UNCHANGED <<category, maker, local, draft, stage, accessRole, snap, taken, answerNew, unanswered>>
        /\ answer'[d] = answer[d]
    BY DEF Push, clientVars, TypeOK
  <1>2. CASE PushStatus(c, i) = "UPDATED_IN_CLOUD"
    <2>1. touched' = TouchedBy(c, i) /\ cloud[i] # Gone
      BY <1>2 DEF Push, PushStatus
    <2>2. \A j \in Ids : j # i => cloud'[j] = cloud[j]
      BY <1>2 DEF Push, TypeOK
    <2>3. QED
      BY <1>1, <2>1, <2>2, TouchedGrows DEF Bystander
  <1>3. CASE PushStatus(c, i) # "UPDATED_IN_CLOUD"
    BY <1>1, <1>3 DEF Push, Bystander
  <1>4. QED
    BY <1>2, <1>3

LEMMA EndCallBystander ==
    ASSUME TypeOK, NEW c \in Clients, EndCall(c), NEW d \in Clients, d # c,
           UNCHANGED <<category, cloud, maker>>,
           local'[d] = local[d], draft'[d] = draft[d], unanswered'[d] = unanswered[d]
    PROVE  Bystander(d)
  BY DEF EndCall, Bystander, TypeOK

LEMMA SyncIsBystander ==
    ASSUME TypeOK, NEW c \in Clients, SyncStep(c) \/ LoseAnswer(c), NEW d \in Clients, d # c
    PROVE  Bystander(d)
  <1>1. ASSUME StartRequest(c) \/ ListCollection(c) \/ SendAnswer(c) PROVE Bystander(d)
    BY <1>1 DEF StartRequest, ListCollection, SendAnswer, cloudVars, clientVars, Bystander, TypeOK
  <1>2. ASSUME AbortRequest(c) \/ FinishReply(c) \/ LoseAnswer(c) PROVE Bystander(d)
    BY <1>2, EndCallBystander DEF AbortRequest, FinishReply, LoseAnswer, cloudVars, clientVars, TypeOK
  <1>3. ASSUME NEW i \in Ids, AnswerKnown(c, i) \/ OfferUnknown(c, i), ~AbortRequest(c) PROVE Bystander(d)
    <2>1. UNCHANGED <<handling, taken, answerNew>> /\ \E a : answer' = [answer EXCEPT ![c][i] = a]
      BY <1>3 DEF AnswerKnown, OfferUnknown
    <2>2. answer'[d] = answer[d]
      BY <2>1 DEF TypeOK
    <2>3. QED
      BY <2>1, <2>2 DEF handling, cloudVars, clientVars, Bystander
  <1>4. ASSUME NEW k \in Drafts, DenyCreate(c, k) \/ CreateFails(c, k) \/ InsertFails(c, k) \/ FindExisting(c, k)
        PROVE  Bystander(d)
    <2>1. UNCHANGED <<handling, answer>> /\ \E a : answerNew' = [answerNew EXCEPT ![c][k] = a]
      BY <1>4 DEF DenyCreate, CreateFails, InsertFails, FindExisting, AnswerDraft
    <2>2. taken' = taken \/ \E s : taken' = [taken EXCEPT ![c] = s]
      BY <1>4 DEF DenyCreate, CreateFails, InsertFails, FindExisting
    <2>3. answerNew'[d] = answerNew[d] /\ taken'[d] = taken[d]
      BY <2>1, <2>2 DEF TypeOK
    <2>4. QED
      BY <2>1, <2>3 DEF handling, cloudVars, clientVars, Bystander
  <1>5. ASSUME ReceiveAnswer(c) PROVE Bystander(d)
    <2>1. UNCHANGED <<category, cloud, maker, unanswered>> /\ local'[d] = local[d] /\ draft'[d] = draft[d]
      BY <1>5 DEF ReceiveAnswer, cloudVars, TypeOK
    <2>2. CASE EndCall(c)
      BY <2>1, <2>2, EndCallBystander
    <2>3. CASE ~EndCall(c)
      <3>1. UNCHANGED <<snap, taken, answer, answerNew, touched>>
            /\ stage'[d] = stage[d] /\ accessRole'[d] = accessRole[d]
        BY <1>5, <2>3 DEF ReceiveAnswer, TypeOK
      <3>2. QED
        BY <2>1, <3>1 DEF Bystander
    <2>4. QED
      BY <2>2, <2>3
  <1>6. QED
    BY <1>1, <1>2, <1>3, <1>4, <1>5, InsertBystander, PushBystander DEF SyncStep

-----------------------------------------------------------------------------
(* The steps of a call itself: while it is answered.                       *)

LEMMA ListedFact ==
    ASSUME NEW c \in Clients, NEW i \in Ids
    PROVE  Listed(c, i) = IF i \in taken[c] THEN 0 ELSE snap[c][i]
  BY DEF Listed, Gone

\* What a status says of the two times it was made from.
LEMMA StatusSays ==
    ASSUME NEW g, NEW r, NEW a \in Nat \ {0}, NEW b \in Nat
    PROVE  /\ StatusFor(g, r, a, b) \in {"IN_SYNC", "NOT_AVAILABLE", "NEW_DATA_AVAILABLE", "REQUEST_DATA"}
           /\ StatusFor(g, r, a, b) = "IN_SYNC" => b # 0 /\ (a = b \/ r \notin editPermissions(g))
           /\ StatusFor(g, r, a, b) = "NOT_AVAILABLE" => b = 0
           /\ StatusFor(g, r, a, b) = "NEW_DATA_AVAILABLE" => a < b /\ CarriesData(a, b)
           /\ StatusFor(g, r, a, b) = "REQUEST_DATA" => b # 0 /\ r \in editPermissions(g)
  BY DEF StatusFor, CarriesData, getReply, getReplyBasedOnTime, Gone

LEMMA AnswerKnownKeeps ==
    ASSUME Inv, TypeOK', NEW c \in Clients, NEW i \in Ids, AnswerKnown(c, i), ~AbortRequest(c)
    PROVE  CallInv(c)'
  <1> DEFINE s == StatusFor(category, accessRole[c], local[c][i], Listed(c, i))
  <1>0. TypeOK /\ IdsUsed /\ CallInv(c)
    BY DEF Inv
  <1>1. /\ UNCHANGED <<category, cloud, used, maker, local, draft, stage, accessRole, snap, taken,
                       answerNew, touched, unanswered>>
        /\ stage[c] = "answering" /\ i \in Known(c) /\ answer[c][i].status = "none"
        /\ \A k \in Drafts : answerNew[c][k].status # "checked"
    BY DEF AnswerKnown, Handling, handling, cloudVars, clientVars
  <1>2. PICK t : /\ answer' = [answer EXCEPT ![c][i] = [status |-> s, time |-> t]]
                 /\ CarriesData(local[c][i], Listed(c, i)) => t = cloud[i]
    BY DEF AnswerKnown
  <1> DEFINE b == Listed(c, i)
  <1>3. local[c][i] \in Nat \ {0} /\ b \in Nat /\ (b = snap[c][i] \/ (b = 0 /\ i \in taken[c]))
    <2>1. local[c][i] \in Nat /\ local[c][i] # 0 /\ snap[c][i] \in Nat
      BY <1>0, <1>1 DEF TypeOK, Known, Gone
    <2>2. b = snap[c][i] \/ (b = 0 /\ i \in taken[c])
      BY ListedFact
    <2>3. QED
      BY <2>1, <2>2
  <1>4. /\ s \in {"IN_SYNC", "NOT_AVAILABLE", "NEW_DATA_AVAILABLE", "REQUEST_DATA"}
        /\ s = "IN_SYNC" => local[c][i] = snap[c][i] \/ accessRole[c] \notin editPermissions(category)
        /\ s = "NOT_AVAILABLE" => snap[c][i] = 0 \/ i \in taken[c]
        /\ s = "NEW_DATA_AVAILABLE" => local[c][i] < snap[c][i] /\ t = cloud[i]
        /\ s = "REQUEST_DATA" => snap[c][i] # 0 /\ accessRole[c] \in editPermissions(category)
    <2> HIDE DEF b
    <2>1. s = StatusFor(category, accessRole[c], local[c][i], b)
      BY DEF b
    <2>2. CarriesData(local[c][i], b) => t = cloud[i]
      BY <1>2 DEF b
    <2> HIDE DEF s
    <2>3. QED
      BY <1>3, <2>1, <2>2, StatusSays
  <1> HIDE DEF s, b
  <1>5. /\ answer'[c][i].status = s /\ answer'[c][i].time = t
        /\ \A j \in Ids : j # i => answer'[c][j] = answer[c][j]
    BY <1>0, <1>2 DEF TypeOK
  <1>6. Answering(c) /\ Answering(c)' /\ Compared(c)
    BY <1>0, <1>1 DEF Answering, CallInv
  <1>7. Compared(c)'
    <2>1. \A j \in Ids :
            /\ answer'[c][j].status \in {"none", "IN_SYNC", "NOT_AVAILABLE", "NEW_DATA_AVAILABLE", "REQUEST_DATA"}
            /\ answer'[c][j].status = "IN_SYNC" =>
                    \/ local[c][j] = snap[c][j]
                    \/ accessRole[c] \notin editPermissions(category)
            /\ answer'[c][j].status = "NOT_AVAILABLE" => snap[c][j] = Gone \/ j \in taken[c]
            /\ answer'[c][j].status = "NEW_DATA_AVAILABLE" =>
                    /\ local[c][j] < snap[c][j]
                    /\ j \in touched[c] \/ answer'[c][j].time = cloud[j]
            /\ answer'[c][j].status = "REQUEST_DATA" =>
                    /\ snap[c][j] # Gone
                    /\ accessRole[c] \in editPermissions(category)
      BY <1>4, <1>5, <1>6 DEF Compared, Gone
    <2>2. editPermissions(category)' = editPermissions(category)
      BY <1>1 DEF editPermissions, HubWritten
    <2>3. QED
      BY <1>1, <2>1, <2>2 DEF Compared
  <1>8. ~RequestHandled(c)
    BY <1>1 DEF RequestHandled
  <1>9. LoopsInOrder(c)'
    <2>1. \A j \in Ids : local[c][j] = Gone => answer[c][j].status = "none" /\ j # i
      BY <1>0, <1>3, <1>6, <1>8 DEF CallInv, LoopsInOrder, Gone
    <2>2. QED
      BY <1>1, <1>5, <2>1 DEF LoopsInOrder
  <1>10. Blank(c)' /\ OnlyRequestedDiffers(c)'
    BY <1>1 DEF Blank, OnlyRequestedDiffers
  <1>11. ListHolds(c)' /\ CheckedIsFree(c)' /\ DraftsKept(c)'
    BY <1>0, <1>1 DEF CallInv, ListHolds, CheckedIsFree, DraftsKept, Answering
  <1>12. Created(c)'
    BY <1>0, <1>1 DEF CallInv, Created, Answering, NewInCall, writePermissions, HubWritten
  <1>13. QED
    BY <1>7, <1>9, <1>10, <1>11, <1>12 DEF CallInv

LEMMA OfferKeeps ==
    ASSUME Inv, TypeOK', NEW c \in Clients, NEW i \in Ids, OfferUnknown(c, i), ~AbortRequest(c)
    PROVE  CallInv(c)'
  <1>0. TypeOK /\ IdsUsed /\ CallInv(c)
    BY DEF Inv
  <1>1. /\ UNCHANGED <<category, cloud, used, maker, local, draft, stage, accessRole, snap, taken,
                       answerNew, touched, unanswered>>
        /\ stage[c] = "answering" /\ RequestHandled(c) /\ i \in Unoffered(c)
    BY DEF OfferUnknown, handling, cloudVars, clientVars
  <1>2. answer' = [answer EXCEPT ![c][i] = [status |-> "NEW_DATA_AVAILABLE", time |-> cloud[i]]]
    BY DEF OfferUnknown
  <1>3. local[c][i] = 0 /\ snap[c][i] # 0 /\ snap[c][i] \in Nat /\ i \notin taken[c] /\ i \notin Known(c)
    BY <1>0, <1>1, ListedFact DEF TypeOK, Unoffered, Known, Gone
  <1>5. /\ answer'[c][i].status = "NEW_DATA_AVAILABLE" /\ answer'[c][i].time = cloud[i]
        /\ \A j \in Ids : j # i => answer'[c][j] = answer[c][j]
    BY <1>0, <1>2 DEF TypeOK
  <1>6. Answering(c) /\ Answering(c)' /\ Compared(c)
    BY <1>0, <1>1 DEF Answering, CallInv
  <1>7. Compared(c)'
    <2>1. \A j \in Ids :
            /\ answer'[c][j].status \in {"none", "IN_SYNC", "NOT_AVAILABLE", "NEW_DATA_AVAILABLE", "REQUEST_DATA"}
            /\ answer'[c][j].status = "IN_SYNC" =>
                    \/ local[c][j] = snap[c][j]
                    \/ accessRole[c] \notin editPermissions(category)
            /\ answer'[c][j].status = "NOT_AVAILABLE" => snap[c][j] = Gone \/ j \in taken[c]
            /\ answer'[c][j].status = "NEW_DATA_AVAILABLE" =>
                    /\ local[c][j] < snap[c][j]
                    /\ j \in touched[c] \/ answer'[c][j].time = cloud[j]
            /\ answer'[c][j].status = "REQUEST_DATA" =>
                    /\ snap[c][j] # Gone
                    /\ accessRole[c] \in editPermissions(category)
      BY <1>3, <1>5, <1>6 DEF Compared, Gone
    <2>2. editPermissions(category)' = editPermissions(category)
      BY <1>1 DEF editPermissions, HubWritten
    <2>3. QED
      BY <1>1, <2>1, <2>2 DEF Compared
  <1>8. RequestHandled(c)'
    BY <1>1, <1>3, <1>5 DEF RequestHandled, Known, NewInCall
  <1>9. LoopsInOrder(c)'
    <2>1. \A j \in Ids : local[c][j] = Gone /\ answer'[c][j].status # "none" => j \notin taken[c]
      BY <1>0, <1>3, <1>5, <1>6 DEF CallInv, LoopsInOrder
    <2>2. QED
      BY <1>1, <1>8, <2>1 DEF LoopsInOrder
  <1>10. Blank(c)' /\ OnlyRequestedDiffers(c)'
    BY <1>1 DEF Blank, OnlyRequestedDiffers
  <1>11. ListHolds(c)' /\ CheckedIsFree(c)' /\ DraftsKept(c)'
    BY <1>0, <1>1 DEF CallInv, ListHolds, CheckedIsFree, DraftsKept, Answering
  <1>12. Created(c)'
    BY <1>0, <1>1 DEF CallInv, Created, Answering, NewInCall, writePermissions, HubWritten
  <1>13. QED
    BY <1>7, <1>9, <1>10, <1>11, <1>12 DEF CallInv

\* A draft still has no answer: the second loop has not begun.
LEMMA FirstLoop ==
    ASSUME NEW c \in Clients, NEW k \in NewInCall(c), TypeOK, CallInv(c),
           stage[c] = "answering", answerNew[c][k].status \in {"none", "checked"}
    PROVE  /\ ~RequestHandled(c)
           /\ \A j \in Ids : local[c][j] = Gone => answer[c][j].status = "none"
  <1>1. ~RequestHandled(c)
    BY DEF RequestHandled
  <1>2. QED
    BY <1>1 DEF CallInv, LoopsInOrder, Answering

\* What is left to show of a step that answers the draft k with reply, without an insert.
LEMMA DraftAnswerKeeps ==
    ASSUME Inv, TypeOK', NEW c \in Clients, NEW k \in Drafts, NEW reply \in NewAnswers,
           AnswerDraft(c, k, reply), UNCHANGED <<handling, answer>>,
           k \in NewInCall(c), stage[c] = "answering", answerNew[c][k].status \in {"none", "checked"},
           taken[c] \subseteq taken'[c],
           \A i \in taken'[c] : i \in taken[c] \/ (i = reply.id /\ OnDuplicate(category) = "returns"),
           reply.status \in {"none", "checked"} => reply.id = NoId,
           reply.id # NoId => /\ accessRole[c] \in writePermissions(category)
                              /\ reply.time = cloud[reply.id]
                              /\ OnDuplicate(category) = "returns" => reply.id \in taken'[c],
           reply.status = "checked" => \A i \in Ids : cloud[i] # Gone => <<c, k>> \notin maker[i]
    PROVE  CallInv(c)'
  <1>0. TypeOK /\ CallInv(c) /\ TypeOK'
    BY DEF Inv
  <1>1. UNCHANGED <<category, cloud, maker, local, draft, stage, accessRole, snap, touched, unanswered, answer>>
    BY DEF handling, cloudVars, clientVars
  <1>2. /\ answerNew'[c][k] = reply
        /\ \A l \in Drafts : l # k => answerNew'[c][l] = answerNew[c][l]
    BY <1>0 DEF TypeOK, AnswerDraft
  <1>3. Answering(c) /\ Answering(c)'
    BY <1>1 DEF Answering
  <1>4. answerNew[c][k].id = NoId
    BY <1>0, <1>3 DEF CallInv, Created
  <1>5. editPermissions(category)' = editPermissions(category)
        /\ writePermissions(category)' = writePermissions(category)
        /\ OnDuplicate(category)' = OnDuplicate(category) /\ NewInCall(c)' = NewInCall(c)
    BY <1>1 DEF editPermissions, writePermissions, HubWritten, OnDuplicate, NewInCall
  <1>6. Blank(c)' /\ OnlyRequestedDiffers(c)'
    BY <1>1 DEF Blank, OnlyRequestedDiffers
  <1>7. Compared(c)'
    BY <1>0, <1>1, <1>3, <1>5 DEF CallInv, Compared
  <1>8. ListHolds(c)'
    BY <1>0, <1>1, <1>3 DEF CallInv, ListHolds
  <1>9. LoopsInOrder(c)'
    BY <1>0, <1>1, FirstLoop DEF LoopsInOrder
  <1>10. CheckedIsFree(c)'
    BY <1>0, <1>1, <1>2, <1>3 DEF CallInv, CheckedIsFree
  <1>11. Created(c)'
    <2>1. ASSUME NEW l \in Drafts
          PROVE  LET new == answerNew'[c][l] IN
                 /\ new.status \in {"none", "checked"} => new.id = NoId
                 /\ new.status = "checked" => l \in NewInCall(c)
                 /\ new.id # NoId =>
                        /\ accessRole[c] \in writePermissions(category)
                        /\ new.id \in touched[c] \/ new.time = cloud[new.id]
                        /\ OnDuplicate(category) = "returns" => new.id \in taken'[c]
      <3>1. CASE l = k
        BY <1>2, <3>1
      <3>2. CASE l # k
        BY <1>0, <1>2, <1>3, <3>2 DEF CallInv, Created
      <3>3. QED
        BY <3>1, <3>2
    <2>2. ASSUME NEW i \in taken'[c]
          PROVE  /\ \E l \in Drafts : answerNew'[c][l].id = i
                 /\ OnDuplicate(category) # "returns" => local[c][i] = Gone /\ snap[c][i] = Gone
      <3>1. CASE i \in taken[c]
        <4>1. i \in Ids /\ i # NoId
          BY <1>0, <3>1, SyncAssumption DEF TypeOK
        <4>2. PICK l \in Drafts : answerNew[c][l].id = i
          BY <1>0, <1>3, <3>1 DEF CallInv, Created
        <4>3. answerNew'[c][l].id = i
          BY <1>2, <1>4, <4>1, <4>2
        <4>4. QED
          BY <1>0, <1>3, <3>1, <4>3 DEF CallInv, Created
      <3>2. CASE i \notin taken[c]
        BY <1>2, <3>2
      <3>3. QED
        BY <3>1, <3>2
    <2>3. QED
      BY <1>1, <1>5, <2>1, <2>2 DEF Created
  <1>12. DraftsKept(c)'
    <2>1. stage'[c] # "pushing"
      BY <1>1
    <2>2. \A l \in Drafts : answerNew'[c][l].id = NoId => answerNew[c][l].id = NoId
      BY <1>2, <1>4
    <2>3. QED
      BY <1>0, <1>1, <1>5, <2>1, <2>2 DEF CallInv, DraftsKept
  <1>13. QED
    BY <1>6, <1>7, <1>8, <1>9, <1>10, <1>11, <1>12 DEF CallInv

LEMMA DraftKeeps ==
    ASSUME Inv, TypeOK', NEW c \in Clients, NEW k \in Drafts,
           DenyCreate(c, k) \/ CreateFails(c, k) \/ FindExisting(c, k) \/ InsertFails(c, k)
    PROVE  CallInv(c)'
  <1>0. TypeOK /\ CallInv(c)
    BY DEF Inv
  <1>1. ASSUME MayCreate(c, k)
        PROVE  k \in NewInCall(c) /\ stage[c] = "answering" /\ answerNew[c][k].status \in {"none", "checked"}
    BY <1>1 DEF MayCreate, Handling
  <1>2. ASSUME NEW status \in {"ACCESS_DENIED", "ERROR", "checked"}
        PROVE  LET reply == [NoNewAnswer EXCEPT !.status = status]
               IN  reply \in NewAnswers /\ reply.id = NoId /\ reply.status = status
    BY DEF NoNewAnswer, NewAnswers, SyncStates, Gone
  <1>3. CASE DenyCreate(c, k)
    <2> DEFINE reply == [NoNewAnswer EXCEPT !.status = "ACCESS_DENIED"]
    <2>1. reply \in NewAnswers /\ reply.id = NoId /\ reply.status = "ACCESS_DENIED"
      BY <1>2
    <2>2. MayCreate(c, k) /\ AnswerDraft(c, k, reply) /\ UNCHANGED <<handling, answer, taken>>
      BY <1>3 DEF DenyCreate
    <2> HIDE DEF reply
    <2>3. QED
      BY <1>1, <2>1, <2>2, DraftAnswerKeeps
  <1>4. CASE CreateFails(c, k) \/ InsertFails(c, k)
    <2> DEFINE reply == [NoNewAnswer EXCEPT !.status = "ERROR"]
    <2>1. reply \in NewAnswers /\ reply.id = NoId /\ reply.status = "ERROR"
      BY <1>2
    <2>2. AnswerDraft(c, k, reply) /\ UNCHANGED <<handling, answer, taken>>
      BY <1>4 DEF CreateFails, InsertFails
    <2>3. k \in NewInCall(c) /\ stage[c] = "answering" /\ answerNew[c][k].status \in {"none", "checked"}
      BY <1>0, <1>1, <1>4 DEF CreateFails, InsertFails, CallInv, Created, Answering
    <2> HIDE DEF reply
    <2>4. QED
      BY <2>1, <2>2, <2>3, DraftAnswerKeeps
  <1>5. CASE FindExisting(c, k)
    <2>1. MayCreate(c, k) /\ accessRole[c] \in writePermissions(category) /\ UNCHANGED <<handling, answer>>
      BY <1>5 DEF FindExisting
    <2>2. CASE OfKind(k) = {} /\ AnswerDraft(c, k, [NoNewAnswer EXCEPT !.status = "checked"]) /\ UNCHANGED taken
      <3> DEFINE reply == [NoNewAnswer EXCEPT !.status = "checked"]
      <3>1. reply \in NewAnswers /\ reply.id = NoId /\ reply.status = "checked" /\ AnswerDraft(c, k, reply)
        BY <1>2, <2>2
      <3>2. \A i \in Ids : cloud[i] # Gone => <<c, k>> \notin maker[i]
        BY <2>2 DEF OfKind
      <3> HIDE DEF reply
      <3>3. QED
        BY <1>1, <2>1, <2>2, <3>1, <3>2, DraftAnswerKeeps
    <2>3. ASSUME NEW i \in OfKind(k), NEW status \in {"ALREADY_IN_CLOUD", "CREATED_IN_CLOUD"},
                 AnswerDraft(c, k, [status |-> status, id |-> i, time |-> cloud[i]]),
                 \/ OnDuplicate(category) = "throws" /\ UNCHANGED taken
                 \/ OnDuplicate(category) = "returns" /\ taken' = [taken EXCEPT ![c] = taken[c] \cup {i}]
          PROVE  CallInv(c)'
      <3> DEFINE reply == [status |-> status, id |-> i, time |-> cloud[i]]
      <3>1. i \in Ids
        BY DEF OfKind
      <3>2. reply \in NewAnswers /\ AnswerDraft(c, k, reply)
        BY <1>0, <2>3, <3>1 DEF TypeOK, NewAnswers, SyncStates
      <3>3. reply.id = i /\ reply.time = cloud[i] /\ reply.status \notin {"none", "checked"}
        OBVIOUS
      <3> HIDE DEF reply
      <3>4. /\ taken[c] \subseteq taken'[c]
            /\ \A j \in taken'[c] : j \in taken[c] \/ (j = i /\ OnDuplicate(category) = "returns")
            /\ OnDuplicate(category) = "returns" => i \in taken'[c]
        BY <1>0, <2>3 DEF TypeOK
      <3>5. QED
        BY <1>1, <2>1, <3>2, <3>3, <3>4, DraftAnswerKeeps
    <2>4. QED
      BY <1>5, <2>2, <2>3 DEF FindExisting, TakenOut
  <1>6. QED
    BY <1>3, <1>4, <1>5

LEMMA InsertKeeps ==
    ASSUME Inv, TypeOK', NEW c \in Clients, NEW k \in Drafts, Insert(c, k)
    PROVE  CallInv(c)'
  <1>0. TypeOK /\ IdsUsed /\ CallInv(c)
    BY DEF Inv
  <1> PICK i \in Ids \ used :
       /\ cloud' = [cloud EXCEPT ![i] = clock + 1]
       /\ maker' = [maker EXCEPT ![i] = {<<c, k>>}]
       /\ AnswerDraft(c, k, [status |-> "CREATED_IN_CLOUD", id |-> i, time |-> clock + 1])
       /\ taken' = [taken EXCEPT ![c] = taken[c] \cup {i}]
       /\ touched' = TouchedBy(c, i)
    BY DEF Insert, TakenOut
  <1>1. /\ UNCHANGED <<category, local, draft, stage, accessRole, snap, answer, unanswered>>
        /\ accessRole[c] \in writePermissions(category) /\ stage[c] = "answering"
        /\ answerNew[c][k].status \in {"none", "checked"}
    BY DEF Insert, InsertDue, MayCreate, Handling, clientVars
  <1>2. Answering(c) /\ Answering(c)'
    BY <1>1 DEF Answering
  <1>3. k \in NewInCall(c)
    <2>1. answerNew[c][k].status = "none" => k \in NewInCall(c)
      BY DEF Insert, InsertDue, MayCreate
    <2>2. answerNew[c][k].status = "checked" => k \in NewInCall(c)
      BY <1>0, <1>2 DEF CallInv, Created
    <2>3. QED
      BY <1>1, <2>1, <2>2
  <1>4. /\ answerNew'[c][k] = [status |-> "CREATED_IN_CLOUD", id |-> i, time |-> clock + 1]
        /\ \A l \in Drafts : l # k => answerNew'[c][l] = answerNew[c][l]
    BY <1>0 DEF TypeOK, AnswerDraft
  <1>5. /\ cloud'[i] = clock + 1 /\ \A j \in Ids : j # i => cloud'[j] = cloud[j]
        /\ maker'[i] = {<<c, k>>} /\ \A j \in Ids : j # i => maker'[j] = maker[j]
        /\ taken'[c] = taken[c] \cup {i} /\ touched'[c] = touched[c]
    <2>1. touched'[c] = touched[c]
      BY <1>0, TouchedGrows
    <2>2. QED
      BY <1>0, <2>1 DEF TypeOK
  <1>6. snap[c][i] = Gone /\ local[c][i] = Gone /\ i # NoId
    BY <1>0, SyncAssumption DEF IdsUsed
  <1>7. editPermissions(category)' = editPermissions(category)
        /\ writePermissions(category)' = writePermissions(category)
        /\ OnDuplicate(category)' = OnDuplicate(category) /\ NewInCall(c)' = NewInCall(c)
    BY <1>1 DEF editPermissions, writePermissions, HubWritten, OnDuplicate, NewInCall
  <1>8. answerNew[c][k].id = NoId
    BY <1>0, <1>1, <1>2 DEF CallInv, Created
  <1>9. Blank(c)' /\ OnlyRequestedDiffers(c)'
    BY <1>1 DEF Blank, OnlyRequestedDiffers
  <1>10. Compared(c)'
    <2>1. \A j \in Ids :
            /\ answer[c][j].status \in {"none", "IN_SYNC", "NOT_AVAILABLE", "NEW_DATA_AVAILABLE", "REQUEST_DATA"}
            /\ answer[c][j].status = "IN_SYNC" =>
                    \/ local[c][j] = snap[c][j]
                    \/ accessRole[c] \notin editPermissions(category)
            /\ answer[c][j].status = "NOT_AVAILABLE" => snap[c][j] = Gone \/ j \in taken'[c]
            /\ answer[c][j].status = "NEW_DATA_AVAILABLE" =>
                    /\ local[c][j] < snap[c][j]
                    /\ j \in touched'[c] \/ answer[c][j].time = cloud'[j]
            /\ answer[c][j].status = "REQUEST_DATA" =>
                    /\ snap[c][j] # Gone
                    /\ accessRole[c] \in editPermissions(category)
      BY <1>0, <1>2, <1>5, <1>6 DEF CallInv, Compared, Gone
    <2>2. QED
      BY <1>1, <1>7, <2>1 DEF Compared
  <1>11. ListHolds(c)'
    BY <1>0, <1>1, <1>2, <1>5, <1>6 DEF CallInv, ListHolds
  <1>12. LoopsInOrder(c)'
    BY <1>0, <1>1, <1>3, FirstLoop DEF LoopsInOrder
  <1>13. CheckedIsFree(c)'
    <2> SUFFICES ASSUME NEW l \in Drafts, answerNew'[c][l].status = "checked", NEW j \in Ids, cloud'[j] # Gone
                 PROVE  <<c, l>> \notin maker'[j]
      BY DEF CheckedIsFree
    <2>1. l # k
      BY <1>4
    <2>2. CASE j = i
      BY <1>5, <2>1, <2>2
    <2>3. CASE j # i
      BY <1>0, <1>2, <1>4, <1>5, <2>1, <2>3 DEF CallInv, CheckedIsFree
    <2>4. QED
      BY <2>2, <2>3
  <1>14. Created(c)'
    <2>1. ASSUME NEW l \in Drafts
          PROVE  LET new == answerNew'[c][l] IN
                 /\ new.status \in {"none", "checked"} => new.id = NoId
                 /\ new.status = "checked" => l \in NewInCall(c)
                 /\ new.id # NoId =>
                        /\ accessRole[c] \in writePermissions(category)
                        /\ new.id \in touched'[c] \/ new.time = cloud'[new.id]
                        /\ OnDuplicate(category) = "returns" => new.id \in taken'[c]
      <3>1. CASE l = k
        BY <1>1, <1>4, <1>5, <3>1
      <3>2. CASE l # k
        <4>1. answerNew[c][l].id \in used \cup {NoId} /\ used \subseteq Ids
          BY <1>0 DEF IdsUsed, TypeOK
        <4>2. answerNew[c][l].id # NoId => cloud'[answerNew[c][l].id] = cloud[answerNew[c][l].id]
          BY <1>5, <4>1
        <4>3. QED
          BY <1>0, <1>2, <1>4, <1>5, <3>2, <4>2 DEF CallInv, Created
      <3>3. QED
        BY <3>1, <3>2
    <2>2. ASSUME NEW j \in taken'[c]
          PROVE  /\ \E l \in Drafts : answerNew'[c][l].id = j
                 /\ OnDuplicate(category) # "returns" => local[c][j] = Gone /\ snap[c][j] = Gone
      <3>1. CASE j = i
        BY <1>4, <1>6, <3>1
      <3>2. CASE j # i
        <4>1. j \in taken[c] /\ j # NoId
          BY <1>0, <1>5, <3>2, SyncAssumption DEF TypeOK
        <4>2. PICK l \in Drafts : answerNew[c][l].id = j
          BY <1>0, <1>2, <4>1 DEF CallInv, Created
        <4>3. answerNew'[c][l].id = j
          BY <1>4, <1>8, <4>1, <4>2
        <4>4. QED
          BY <1>0, <1>2, <4>1, <4>3 DEF CallInv, Created
      <3>3. QED
        BY <3>1, <3>2
    <2>3. QED
      BY <1>1, <1>7, <2>1, <2>2 DEF Created
  <1>15. DraftsKept(c)'
    <2>1. stage'[c] # "pushing"
      BY <1>1
    <2>2. ASSUME NEW l \in Drafts, OnDuplicate(category) = "inserts", ~unanswered[c],
                 draft[c][l] # "synced", answerNew'[c][l].id = NoId, NEW j \in Ids
          PROVE  <<c, l>> \notin maker'[j]
      <3>1. l # k /\ answerNew[c][l].id = NoId
        BY <1>4, <1>6, <2>2
      <3>2. <<c, l>> \notin maker[j]
        BY <1>0, <2>2, <3>1 DEF CallInv, DraftsKept
      <3>3. QED
        BY <1>5, <3>1, <3>2
    <2>3. QED
      BY <1>1, <1>7, <2>1, <2>2 DEF DraftsKept
  <1>16. QED
    BY <1>9, <1>10, <1>11, <1>12, <1>13, <1>14, <1>15 DEF CallInv

LEMMA ListKeeps ==
    ASSUME Inv, TypeOK', NEW c \in Clients, ListCollection(c)
    PROVE  CallInv(c)'
  <1>0. TypeOK /\ CallInv(c)
    BY DEF Inv
  <1>1. /\ stage[c] = "asked" /\ stage'[c] = "answering" /\ snap'[c] = cloud
        /\ UNCHANGED <<category, cloud, maker, local, draft, taken, answer, answerNew, touched, unanswered, accessRole>>
    BY <1>0 DEF ListCollection, cloudVars, clientVars, TypeOK
  <1>2. /\ touched[c] = {} /\ taken[c] = {}
        /\ \A i \in Ids : answer[c][i] = NoAnswer
        /\ \A k \in Drafts : answerNew[c][k] = NoNewAnswer
    BY <1>0, <1>1 DEF CallInv, Blank
  <1>3. NoAnswer.status = "none" /\ NoNewAnswer.status = "none" /\ NoNewAnswer.id = NoId
    BY DEF NoAnswer, NoNewAnswer
  <1>4. Blank(c)' /\ Compared(c)' /\ ListHolds(c)' /\ CheckedIsFree(c)' /\ OnlyRequestedDiffers(c)'
    BY <1>1, <1>2, <1>3 DEF Blank, Compared, ListHolds, CheckedIsFree, OnlyRequestedDiffers
  <1>5. Created(c)'
    BY <1>1, <1>2, <1>3 DEF Created
  <1>6. LoopsInOrder(c)'
    BY <1>1, <1>2, <1>3 DEF LoopsInOrder
  <1>7. DraftsKept(c)'
    BY <1>0, <1>1 DEF CallInv, DraftsKept, OnDuplicate
  <1>8. QED
    BY <1>4, <1>5, <1>6, <1>7 DEF CallInv

LEMMA SendKeeps ==
    ASSUME Inv, TypeOK', NEW c \in Clients, SendAnswer(c)
    PROVE  CallInv(c)'
  <1>0. TypeOK /\ CallInv(c)
    BY DEF Inv
  <1>1. /\ stage[c] = "answering" /\ stage'[c] = "answered" /\ RequestHandled(c) /\ Unoffered(c) = {}
        /\ UNCHANGED <<category, cloud, maker, local, draft, snap, taken, answer, answerNew, touched, unanswered, accessRole>>
    BY <1>0 DEF SendAnswer, cloudVars, clientVars, TypeOK
  <1>2. Answering(c) /\ Answering(c)'
    BY <1>1 DEF Answering
  <1>3. RequestHandled(c)' /\ Unoffered(c)' = {}
    BY <1>1 DEF RequestHandled, Unoffered, Known, NewInCall, Listed
  <1>4. Blank(c)' /\ OnlyRequestedDiffers(c)'
    BY <1>1 DEF Blank, OnlyRequestedDiffers
  <1>5. Compared(c)'
    BY <1>0, <1>1, <1>2 DEF CallInv, Compared, editPermissions, HubWritten
  <1>6. ListHolds(c)' /\ CheckedIsFree(c)'
    BY <1>0, <1>1, <1>2 DEF CallInv, ListHolds, CheckedIsFree
  <1>7. Created(c)'
    BY <1>0, <1>1, <1>2 DEF CallInv, Created, writePermissions, HubWritten, NewInCall, OnDuplicate
  <1>8. LoopsInOrder(c)'
    BY <1>0, <1>1, <1>2, <1>3 DEF CallInv, LoopsInOrder
  <1>9. DraftsKept(c)'
    BY <1>0, <1>1 DEF CallInv, DraftsKept, OnDuplicate
  <1>10. QED
    BY <1>4, <1>5, <1>6, <1>7, <1>8, <1>9 DEF CallInv

-----------------------------------------------------------------------------
(* The steps of a call itself: its end.                                    *)

\* The drafts of which the client still waits to hear, when no call runs.
DraftsFree(c) ==
    \A k \in Drafts : (OnDuplicate(category) = "inserts" /\ ~unanswered[c] /\ draft[c][k] # "synced")
        => \A i \in Ids : <<c, k>> \notin maker[i]

\* When no call of c runs, only what the next one starts from counts.
LEMMA QuietCall ==
    ASSUME NEW c \in Clients, stage'[c] \in {"idle", "asked"}, DraftsFree(c)',
           touched'[c] = {}, taken'[c] = {},
           \A i \in Ids : answer'[c][i] = NoAnswer,
           \A k \in Drafts : answerNew'[c][k] = NoNewAnswer
    PROVE  CallInv(c)'
  <1>1. ~Answering(c)' /\ stage'[c] # "pushing" /\ stage'[c] # "answered"
    BY DEF Answering
  <1>2. Blank(c)'
    BY DEF Blank, NoAnswer, NoNewAnswer
  <1>3. Compared(c)' /\ ListHolds(c)' /\ Created(c)' /\ CheckedIsFree(c)'
        /\ LoopsInOrder(c)' /\ OnlyRequestedDiffers(c)'
    BY <1>1 DEF Compared, ListHolds, Created, CheckedIsFree, LoopsInOrder, OnlyRequestedDiffers
  <1>4. DraftsKept(c)'
    BY <1>1 DEF DraftsKept, DraftsFree
  <1>5. QED
    BY <1>2, <1>3, <1>4 DEF CallInv

LEMMA EndCallQuiet ==
    ASSUME TypeOK, NEW c \in Clients, EndCall(c), DraftsFree(c)'
    PROVE  CallInv(c)'
  BY QuietCall DEF TypeOK, EndCall

\* Nothing has been made of a draft the client still has when its call ends without an
\* error; otherwise the answer counts as lost.
LEMMA FreeWhenNotMade ==
    ASSUME NEW c \in Clients, CallInv(c), UNCHANGED <<category, maker>>,
           \/ unanswered'[c]
           \/ /\ unanswered'[c] = unanswered[c]
              /\ \A k \in Drafts : draft'[c][k] # "synced" =>
                    draft[c][k] # "synced" /\ answerNew[c][k].id = NoId
    PROVE  DraftsFree(c)'
  BY DEF CallInv, DraftsKept, DraftsFree, OnDuplicate

LEMMA UserKeeps ==
    ASSUME Inv, TypeOK', NEW c \in Clients, UserStep(c)
    PROVE  CallInv(c)'
  <1>0. TypeOK /\ CallInv(c)
    BY DEF Inv
  <1>1. CASE Demote(c)
    BY <1>0, <1>1, UserIsBystander, BystanderKeeps DEF TypeOK, NewAnswers
  <1>2. CASE (\E i \in Ids : LocalEdit(c, i)) \/ (\E k \in Drafts : LocalCreate(c, k))
    <2>1. /\ stage[c] = "idle"
          /\ UNCHANGED <<category, maker, stage, touched, taken, answer, answerNew, unanswered>>
      BY <1>2 DEF LocalEdit, LocalCreate, cloudVars, callVars
    <2>2. /\ touched[c] = {} /\ taken[c] = {}
          /\ \A i \in Ids : answer[c][i] = NoAnswer
          /\ \A k \in Drafts : answerNew[c][k] = NoNewAnswer
      BY <1>0, <2>1 DEF CallInv, Blank
    <2>3. \A k \in Drafts : draft'[c][k] # "synced" => draft[c][k] # "synced"
      BY <1>0, <1>2 DEF TypeOK, LocalEdit, LocalCreate
    <2>4. DraftsFree(c)'
      BY <1>0, <2>1, <2>2, <2>3, FreeWhenNotMade DEF NoNewAnswer
    <2>5. QED
      BY <2>1, <2>2, <2>4, QuietCall
  <1>3. QED
    BY <1>1, <1>2 DEF UserStep

LEMMA StartKeeps ==
    ASSUME Inv, TypeOK', NEW c \in Clients, StartRequest(c)
    PROVE  CallInv(c)'
  <1>0. TypeOK /\ CallInv(c)
    BY DEF Inv
  <1>1. /\ stage[c] = "idle" /\ stage'[c] = "asked"
        /\ UNCHANGED <<category, maker, draft, touched, taken, answer, answerNew, unanswered>>
    BY <1>0 DEF StartRequest, cloudVars, clientVars, TypeOK
  <1>2. /\ touched[c] = {} /\ taken[c] = {}
        /\ \A i \in Ids : answer[c][i] = NoAnswer
        /\ \A k \in Drafts : answerNew[c][k] = NoNewAnswer
    BY <1>0, <1>1 DEF CallInv, Blank
  <1>3. DraftsFree(c)'
    BY <1>0, <1>1, <1>2, FreeWhenNotMade DEF NoNewAnswer
  <1>4. QED
    BY <1>1, <1>2, <1>3, QuietCall

LEMMA BreakKeeps ==
    ASSUME Inv, TypeOK', NEW c \in Clients, AbortRequest(c) \/ LoseAnswer(c) \/ FinishReply(c)
    PROVE  CallInv(c)'
  <1>0. TypeOK /\ CallInv(c)
    BY DEF Inv
  <1>1. EndCall(c) /\ UNCHANGED <<category, maker, draft>>
    BY DEF AbortRequest, LoseAnswer, FinishReply, cloudVars, clientVars
  <1>2. CASE AbortRequest(c) \/ LoseAnswer(c)
    <2>1. unanswered'[c]
      BY <1>0, <1>2 DEF AbortRequest, LoseAnswer, TypeOK
    <2>2. QED
      BY <1>0, <1>1, <2>1, FreeWhenNotMade, EndCallQuiet
  <1>3. CASE FinishReply(c)
    <2>1. stage[c] = "pushing" /\ unanswered' = unanswered
      BY <1>3 DEF FinishReply
    <2>2. \A k \in Drafts : draft[c][k] # "synced" => answerNew[c][k].id = NoId
      BY <1>0, <2>1 DEF CallInv, DraftsKept
    <2>3. QED
      BY <1>0, <1>1, <2>1, <2>2, FreeWhenNotMade, EndCallQuiet
  <1>4. QED
    BY <1>2, <1>3

LEMMA CrashKeeps ==
    ASSUME Inv, TypeOK', NEW c \in Clients, Crash
    PROVE  CallInv(c)'
  <1>0. TypeOK /\ CallInv(c)
    BY DEF Inv
  <1>1. /\ stage'[c] = "idle" /\ touched'[c] = {} /\ taken'[c] = {}
        /\ \A i \in Ids : answer'[c][i] = NoAnswer
        /\ \A k \in Drafts : answerNew'[c][k] = NoNewAnswer
        /\ UNCHANGED <<category, maker, draft>>
        /\ unanswered'[c] = (unanswered[c] \/ stage[c] \in {"asked", "answering", "answered"})
    BY DEF Crash, cloudVars, clientVars
  <1>2. DraftsFree(c)'
    <2>1. CASE stage[c] \in {"asked", "answering", "answered"}
      BY <1>0, <1>1, <2>1, FreeWhenNotMade
    <2>2. CASE stage[c] \in {"idle", "pushing"}
      <3>1. unanswered'[c] = unanswered[c]
        BY <1>0, <1>1, <2>2 DEF TypeOK
      <3>2. \A k \in Drafts : draft[c][k] # "synced" => answerNew[c][k].id = NoId
        <4>1. CASE stage[c] = "idle"
          BY <1>0, <4>1 DEF CallInv, Blank, NoNewAnswer
        <4>2. CASE stage[c] = "pushing"
          BY <1>0, <4>2 DEF CallInv, DraftsKept
        <4>3. QED
          BY <2>2, <4>1, <4>2
      <3>3. QED
        BY <1>0, <1>1, <3>1, <3>2, FreeWhenNotMade
    <2>3. QED
      BY <1>0, <2>1, <2>2 DEF TypeOK, Stages
  <1>3. QED
    BY <1>1, <1>2, QuietCall

-----------------------------------------------------------------------------
(* What the client makes of the answer.                                    *)

LEMMA AppliedCases ==
    ASSUME TypeOK, NEW c \in Clients, NEW i \in Ids
    PROVE  \/ i \in Requested(c) /\ Applied(c)[i] = local[c][i]
           \/ i \notin Requested(c) /\ \E k \in Drafts : answerNew[c][k].id = i /\ Applied(c)[i] = answerNew[c][k].time
           \/ /\ i \notin Requested(c) /\ \A k \in Drafts : answerNew[c][k].id # i
              /\ Applied(c)[i] = IF answer[c][i].status = "NEW_DATA_AVAILABLE" THEN answer[c][i].time
                                 ELSE IF answer[c][i].status = "NOT_AVAILABLE" THEN Gone
                                 ELSE local[c][i]
  <1> DEFINE A == {answerNew[c][k] : k \in Drafts}
  <1>1. CASE i \in Requested(c)
    BY <1>1 DEF Applied
  <1>2. CASE i \notin Requested(c) /\ \E k \in Drafts : answerNew[c][k].id = i
    <2> DEFINE a == CHOOSE x \in A : x.id = i
    <2>1. a \in A /\ a.id = i
      BY <1>2
    <2>2. Applied(c)[i] = a.time
      BY <1>2 DEF Applied
    <2> HIDE DEF a
    <2>3. PICK k \in Drafts : a = answerNew[c][k]
      BY <2>1
    <2>4. QED
      BY <1>2, <2>1, <2>2, <2>3
  <1>3. CASE i \notin Requested(c) /\ \A k \in Drafts : answerNew[c][k].id # i
    BY <1>3 DEF Applied
  <1>4. QED
    BY <1>1, <1>2, <1>3

\* What nobody else has written is, on the device that has followed the answer, as it is
\* in the cloud - but for what the cloud has asked for, and for the newer copies of a
\* client that may not edit.
LEMMA AppliedAgrees ==
    ASSUME TypeOK, NEW c \in Clients, CallInv(c), stage[c] = "answered",
           NEW i \in Ids, i \notin touched[c], i \notin Requested(c)
    PROVE  \/ Applied(c)[i] = cloud[i]
           \/ accessRole[c] \notin editPermissions(category) /\ Applied(c)[i] = local[c][i]
  <1>0. Answering(c)
    BY DEF Answering
  <1>1. CASE \E k \in Drafts : answerNew[c][k].id = i /\ Applied(c)[i] = answerNew[c][k].time
    <2>1. i # NoId
      BY SyncAssumption
    <2>2. QED
      BY <1>0, <1>1, <2>1 DEF CallInv, Created
  <1>2. CASE /\ \A k \in Drafts : answerNew[c][k].id # i
             /\ Applied(c)[i] = IF answer[c][i].status = "NEW_DATA_AVAILABLE" THEN answer[c][i].time
                                ELSE IF answer[c][i].status = "NOT_AVAILABLE" THEN Gone
                                ELSE local[c][i]
    <2>1. i \notin taken[c] /\ cloud[i] = snap[c][i]
      BY <1>0, <1>2 DEF CallInv, Created, ListHolds
    <2>2. answer[c][i].status # "REQUEST_DATA"
      BY DEF Requested
    <2>3. CASE answer[c][i].status \in {"NEW_DATA_AVAILABLE", "NOT_AVAILABLE", "IN_SYNC"}
      BY <1>0, <1>2, <2>1, <2>3 DEF CallInv, Compared
    <2>4. CASE answer[c][i].status = "none"
      <3>1. RequestHandled(c) /\ Unoffered(c) = {}
        BY DEF CallInv, LoopsInOrder
      <3>2. local[c][i] = Gone
        BY <2>4, <3>1 DEF RequestHandled, Known
      <3>3. snap[c][i] = Gone
        BY <2>1, <2>4, <3>1, <3>2 DEF Unoffered, Listed, Known
      <3>4. QED
        BY <1>2, <2>1, <2>4, <3>2, <3>3
    <2>5. QED
      BY <1>0, <2>2, <2>3, <2>4 DEF CallInv, Compared
  <1>3. QED
    BY <1>1, <1>2, AppliedCases

LEMMA ReceiveKeeps ==
    ASSUME Inv, TypeOK', NEW c \in Clients, ReceiveAnswer(c)
    PROVE  CallInv(c)'
  <1>0. TypeOK /\ CallInv(c)
    BY DEF Inv
  <1>1. /\ UNCHANGED <<category, cloud, maker, unanswered>> /\ stage[c] = "answered"
        /\ local'[c] = Applied(c)
        /\ \A k \in Drafts : draft'[c][k] = IF answerNew[c][k].id # NoId THEN "synced" ELSE draft[c][k]
    BY <1>0 DEF ReceiveAnswer, cloudVars, TypeOK
  <1>2. Answering(c)
    BY <1>1 DEF Answering
  <1>3. CASE EndCall(c)
    BY <1>0, <1>1, <1>3, FreeWhenNotMade, EndCallQuiet
  <1>4. CASE ~EndCall(c)
    <2>1. /\ Requested(c) # {} /\ stage'[c] = "pushing"
          /\ UNCHANGED <<snap, taken, answer, answerNew, touched>>
      BY <1>0, <1>4 DEF ReceiveAnswer, TypeOK
    <2>2. ~Answering(c)'
      BY <2>1 DEF Answering
    <2>3. Blank(c)' /\ Compared(c)' /\ ListHolds(c)' /\ Created(c)' /\ CheckedIsFree(c)' /\ LoopsInOrder(c)'
      BY <2>1, <2>2 DEF Blank, Compared, ListHolds, Created, CheckedIsFree, LoopsInOrder
    <2>4. OnlyRequestedDiffers(c)'
      <3>1. Requested(c)' = Requested(c)
        BY <2>1 DEF Requested
      <3>2. accessRole[c] \in editPermissions(category)
        BY <1>0, <1>2, <2>1 DEF CallInv, Compared, Requested
      <3>3. ASSUME NEW i \in Ids, i \notin touched[c]
            PROVE  /\ i \in Requested(c) => cloud[i] # Gone
                   /\ i \in Requested(c) \/ Applied(c)[i] = cloud[i]
        <4>1. CASE i \in Requested(c)
          <5>1. answer[c][i].status = "REQUEST_DATA"
            BY <4>1 DEF Requested
          <5>2. snap[c][i] # Gone
            BY <1>0, <1>2, <5>1 DEF CallInv, Compared
          <5>3. cloud[i] # Gone
            BY <1>0, <1>2, <3>3, <5>2 DEF CallInv, ListHolds
          <5>4. QED
            BY <4>1, <5>3
        <4>2. CASE i \notin Requested(c)
          BY <1>0, <1>1, <3>2, <3>3, <4>2, AppliedAgrees
        <4>3. QED
          BY <4>1, <4>2
      <3>4. QED
        BY <1>1, <2>1, <3>1, <3>3 DEF OnlyRequestedDiffers
    <2>5. DraftsKept(c)'
      BY <1>0, <1>1, <2>1 DEF CallInv, DraftsKept, OnDuplicate
    <2>6. QED
      BY <2>3, <2>4, <2>5 DEF CallInv
  <1>5. QED
    BY <1>3, <1>4

LEMMA PushKeeps ==
    ASSUME Inv, TypeOK', NEW c \in Clients, NEW i \in Ids, Push(c, i)
    PROVE  CallInv(c)'
  <1>0. TypeOK /\ CallInv(c)
    BY DEF Inv
  <1>1. /\ stage[c] = "pushing" /\ i \in Requested(c)
        /\ UNCHANGED <<category, maker, local, draft, stage, accessRole, snap, taken, answerNew, unanswered>>
    BY DEF Push, clientVars
  <1>2. /\ answer'[c][i].status = PushStatus(c, i)
        /\ \A j \in Ids : j # i => answer'[c][j] = answer[c][j]
    BY <1>0 DEF Push, TypeOK
  <1>3. ~Answering(c)' /\ stage'[c] = "pushing"
    BY <1>1 DEF Answering
  <1>4. Blank(c)' /\ Compared(c)' /\ ListHolds(c)' /\ Created(c)' /\ CheckedIsFree(c)' /\ LoopsInOrder(c)'
    BY <1>3 DEF Blank, Compared, ListHolds, Created, CheckedIsFree, LoopsInOrder
  <1>5. DraftsKept(c)'
    BY <1>0, <1>1 DEF CallInv, DraftsKept, OnDuplicate
  <1>6. Requested(c)' = Requested(c) \ {i}
    BY <1>2 DEF Requested, PushStatus
  <1>7. /\ \A j \in Ids : j # i => cloud'[j] = cloud[j]
        /\ touched'[c] = touched[c]
        /\ PushStatus(c, i) = "UPDATED_IN_CLOUD" => cloud'[i] = local[c][i]
    BY <1>0, TouchedGrows DEF Push, TypeOK
  <1>8. OnlyRequestedDiffers(c)'
    <2> SUFFICES ASSUME NEW j \in Ids, j \notin touched[c]
                 PROVE  /\ j \in Requested(c)' => cloud'[j] # Gone
                        /\ accessRole[c] \in editPermissions(category) /\ TakenInReply(category)
                                => j \in Requested(c)' \/ local[c][j] = cloud'[j]
      BY <1>1, <1>7 DEF OnlyRequestedDiffers, editPermissions, HubWritten, TakenInReply
    <2>1. /\ j \in Requested(c) => cloud[j] # Gone
          /\ accessRole[c] \in editPermissions(category) /\ TakenInReply(category)
                => j \in Requested(c) \/ local[c][j] = cloud[j]
      BY <1>0, <1>1 DEF CallInv, OnlyRequestedDiffers
    <2>2. CASE j = i
      <3>1. cloud[i] # Gone
        BY <1>1, <2>1, <2>2
      <3>2. accessRole[c] \in editPermissions(category) => cloud'[i] = local[c][i]
        BY <1>7, <3>1 DEF PushStatus
      <3>3. QED
        BY <1>6, <2>2, <3>2
    <2>3. CASE j # i
      BY <1>6, <1>7, <2>1, <2>3
    <2>4. QED
      BY <2>2, <2>3
  <1>9. QED
    BY <1>4, <1>5, <1>8 DEF CallInv

-----------------------------------------------------------------------------
(* The whole of the invariant.                                             *)

LEMMA OwnKeeps ==
    ASSUME Inv, TypeOK', NEW c \in Clients, SyncStep(c)
    PROVE  CallInv(c)'
  <1>1. ASSUME NEW i \in Ids, AnswerKnown(c, i) PROVE CallInv(c)'
    BY <1>1, AnswerKnownKeeps, BreakKeeps
  <1>2. ASSUME NEW i \in Ids, OfferUnknown(c, i) PROVE CallInv(c)'
    BY <1>2, OfferKeeps, BreakKeeps
  <1>3. QED
    BY <1>1, <1>2, StartKeeps, ListKeeps, DraftKeeps, InsertKeeps, SendKeeps, ReceiveKeeps,
       PushKeeps, BreakKeeps DEF SyncStep

LEMMA CallsKept ==
    ASSUME Inv, TypeOK', [Next]_vars, NEW d \in Clients
    PROVE  CallInv(d)'
  <1>0. TypeOK /\ CallInv(d) /\ \A k \in Drafts : answerNew[d][k].id \in Ids \cup {NoId}
    BY DEF Inv, TypeOK, NewAnswers
  <1>1. ASSUME Bystander(d) PROVE CallInv(d)'
    BY <1>0, <1>1, BystanderKeeps
  <1>2. ASSUME NEW c \in Clients, UserStep(c) PROVE CallInv(d)'
    BY <1>0, <1>1, <1>2, UserIsBystander, UserKeeps
  <1>3. ASSUME NEW c \in Clients, SyncStep(c) PROVE CallInv(d)'
    BY <1>0, <1>1, <1>3, SyncIsBystander, OwnKeeps
  <1>4. ASSUME NEW c \in Clients, LoseAnswer(c) PROVE CallInv(d)'
    BY <1>0, <1>1, <1>4, SyncIsBystander, BreakKeeps
  <1>5. CASE OtherStep
    BY <1>0, <1>1, <1>5, OtherIsBystander
  <1>6. CASE UNCHANGED vars
    <2>1. Bystander(d)
      BY <1>6 DEF vars, Bystander
    <2>2. QED
      BY <1>1, <2>1
  <1>7. QED
    BY <1>2, <1>3, <1>4, <1>5, <1>6, CrashKeeps DEF Next

\* An id that the client stores or that is stored comes from the cloud.
LEMMA IdsStep ==
    ASSUME Inv, TypeOK', [Next]_vars
    PROVE  IdsUsed'
  <1>0. TypeOK /\ IdsUsed
    BY DEF Inv
  <1>1. used \subseteq used'
    BY DEF Next, UserStep, SyncStep, OtherStep, LocalEdit, LocalCreate, Demote, StartRequest, ListCollection,
       AnswerKnown, AbortRequest, DenyCreate, CreateFails, FindExisting, Insert, InsertFails, OfferUnknown,
       SendAnswer, ReceiveAnswer, Push, FinishReply, CloudEdit, CloudDelete, LoseAnswer, Crash,
       handling, cloudVars, clientVars, callVars, vars
  <1>2. \A i \in Ids : cloud'[i] # Gone \/ maker'[i] # {} => i \in used'
    <2>1. ASSUME NEW c \in Clients, NEW k \in Drafts, Insert(c, k)
          PROVE  \A i \in Ids : cloud'[i] # Gone \/ maker'[i] # {} => i \in used'
      BY <1>0, <2>1 DEF IdsUsed, TypeOK, Insert
    <2>2. ASSUME NEW c \in Clients, NEW j \in Ids, Push(c, j)
          PROVE  \A i \in Ids : (cloud'[i] # Gone => cloud[i] # Gone) /\ maker'[i] = maker[i]
      BY <1>0, <2>2 DEF TypeOK, Push, PushStatus
    <2>3. CASE OtherStep
      <3>1. \A i \in Ids : (cloud'[i] # Gone => cloud[i] # Gone) /\ maker'[i] = maker[i]
        BY <1>0, <2>3 DEF TypeOK, OtherStep, CloudEdit, CloudDelete
      <3>2. QED
        BY <1>0, <1>1, <3>1 DEF IdsUsed
    <2>4. (\E c \in Clients, k \in Drafts : Insert(c, k)) \/ maker' = maker
      BY DEF Next, UserStep, SyncStep, OtherStep, LocalEdit, LocalCreate, Demote, StartRequest, ListCollection,
         AnswerKnown, AbortRequest, DenyCreate, CreateFails, FindExisting, InsertFails, OfferUnknown,
         SendAnswer, ReceiveAnswer, Push, FinishReply, CloudEdit, CloudDelete, LoseAnswer, Crash,
         handling, cloudVars, clientVars, callVars, vars
    <2>5. QED
      BY <1>0, <1>1, <2>1, <2>2, <2>3, <2>4, CloudWriters DEF IdsUsed
  <1> SUFFICES ASSUME NEW c \in Clients
               PROVE  /\ \A i \in Ids : local'[c][i] # Gone \/ snap'[c][i] # Gone \/ answer'[c][i].time # Gone
                                            => i \in used'
                      /\ \A k \in Drafts : answerNew'[c][k].id \in used' \cup {NoId}
    BY <1>2 DEF IdsUsed
  <1> DEFINE Known1 == \A i \in Ids : local[c][i] # Gone \/ snap[c][i] # Gone \/ answer[c][i].time # Gone => i \in used
             Known2 == \A k \in Drafts : answerNew[c][k].id \in used \cup {NoId}
  <1>3. Known1 /\ Known2
    BY <1>0 DEF IdsUsed
  <1>4. ASSUME Bystander(c) PROVE Known1' /\ Known2'
    BY <1>1, <1>3, <1>4 DEF Bystander
  <1>5. ASSUME EndCall(c), \A i \in Ids : local'[c][i] # Gone => i \in used' PROVE Known1' /\ Known2'
    BY <1>0, <1>5 DEF EndCall, TypeOK, NoAnswer, NoNewAnswer
  <1>6. ASSUME UserStep(c) PROVE Known1' /\ Known2'
    <2>1. ASSUME NEW i \in Ids, LocalEdit(c, i) PROVE Known1' /\ Known2'
      BY <1>0, <1>1, <1>3, <2>1 DEF LocalEdit, callVars, TypeOK, Known
    <2>2. QED
      BY <1>1, <1>3, <1>6, <2>1 DEF UserStep, LocalCreate, Demote, cloudVars, clientVars, callVars
  <1>7. ASSUME SyncStep(c) PROVE Known1' /\ Known2'
    <2>1. ASSUME StartRequest(c) \/ ListCollection(c) \/ SendAnswer(c) PROVE Known1' /\ Known2'
      BY <1>0, <1>1, <1>3, <2>1 DEF StartRequest, ListCollection, SendAnswer, cloudVars, clientVars, TypeOK, IdsUsed
    <2>2. ASSUME AbortRequest(c) \/ FinishReply(c) PROVE Known1' /\ Known2'
      BY <1>1, <1>3, <1>5, <2>2 DEF AbortRequest, FinishReply, clientVars
    <2>3. ASSUME NEW i \in Ids, AnswerKnown(c, i) \/ OfferUnknown(c, i), ~AbortRequest(c) PROVE Known1' /\ Known2'
      <3>1. UNCHANGED <<handling, answerNew>>
            /\ \E s : \/ answer' = [answer EXCEPT ![c][i] = [status |-> s, time |-> Gone]]
                      \/ answer' = [answer EXCEPT ![c][i] = [status |-> s, time |-> cloud[i]]]
        BY <2>3 DEF AnswerKnown, OfferUnknown
      <3>2. UNCHANGED <<used, local, snap>>
        BY <3>1 DEF handling, cloudVars, clientVars
      <3>3. \A j \in Ids : answer'[c][j].time \in {answer[c][j].time, Gone, cloud[j]}
        <4>1. PICK s : \/ answer' = [answer EXCEPT ![c][i] = [status |-> s, time |-> Gone]]
                       \/ answer' = [answer EXCEPT ![c][i] = [status |-> s, time |-> cloud[i]]]
          BY <3>1
        <4>2. PICK n : n \in {Gone, cloud[i]} /\ answer' = [answer EXCEPT ![c][i] = [status |-> s, time |-> n]]
          BY <4>1
        <4>3. answer'[c][i].time = n /\ \A j \in Ids : j # i => answer'[c][j] = answer[c][j]
          BY <1>0, <4>2 DEF TypeOK
        <4>4. QED
          BY <4>2, <4>3
      <3>4. QED
        BY <1>0, <1>3, <3>1, <3>2, <3>3 DEF IdsUsed
    <2>4. ASSUME NEW k \in Drafts, DenyCreate(c, k) \/ CreateFails(c, k) \/ InsertFails(c, k) \/ FindExisting(c, k)
          PROVE  Known1' /\ Known2'
      <3>1. UNCHANGED <<handling, answer>>
            /\ \E r : AnswerDraft(c, k, r) /\ (r.id = NoId \/ r.id \in OfKind(k))
        <4>1. \A s : [NoNewAnswer EXCEPT !.status = s].id = NoId
          BY DEF NoNewAnswer
        <4>2. CASE DenyCreate(c, k) \/ CreateFails(c, k) \/ InsertFails(c, k)
          BY <4>1, <4>2 DEF DenyCreate, CreateFails, InsertFails
        <4>3. ASSUME NEW i \in OfKind(k), NEW s, AnswerDraft(c, k, [status |-> s, id |-> i, time |-> cloud[i]])
              PROVE  \E r : AnswerDraft(c, k, r) /\ (r.id = NoId \/ r.id \in OfKind(k))
          <5> WITNESS [status |-> s, id |-> i, time |-> cloud[i]]
          <5>1. QED
            BY <4>3
        <4>4. CASE FindExisting(c, k)
          BY <4>1, <4>3, <4>4 DEF FindExisting
        <4>5. QED
          BY <2>4, <4>2, <4>4
      <3>2. UNCHANGED <<used, local, snap>>
        BY <3>1 DEF handling, cloudVars, clientVars
      <3>3. \A l \in Drafts : answerNew'[c][l].id = answerNew[c][l].id \/ answerNew'[c][l].id \in used \cup {NoId}
        BY <1>0, <3>1 DEF TypeOK, AnswerDraft, OfKind, IdsUsed
      <3>4. QED
        BY <1>3, <3>1, <3>2, <3>3
    <2>5. ASSUME NEW k \in Drafts, Insert(c, k) PROVE Known1' /\ Known2'
      <3>1. UNCHANGED <<local, snap, answer>>
        BY <2>5 DEF Insert, clientVars
      <3>2. \A l \in Drafts : answerNew'[c][l].id = answerNew[c][l].id \/ answerNew'[c][l].id \in used'
        BY <1>0, <2>5 DEF Insert, AnswerDraft, TypeOK
      <3>3. QED
        BY <1>1, <1>3, <3>1, <3>2
    <2>6. ASSUME ReceiveAnswer(c) PROVE Known1' /\ Known2'
      <3>1. ASSUME NEW i \in Ids, local'[c][i] # Gone PROVE i \in used'
        <4>1. local'[c][i] = Applied(c)[i]
          BY <1>0, <2>6 DEF ReceiveAnswer, TypeOK
        <4>2. i # NoId
          BY SyncAssumption
        <4>3. QED
          BY <1>0, <1>1, <1>3, <3>1, <4>1, <4>2, AppliedCases
      <3>2. CASE EndCall(c)
        BY <1>5, <3>1, <3>2
      <3>3. CASE ~EndCall(c)
        <4>1. UNCHANGED <<snap, answer, answerNew>>
          BY <2>6, <3>3 DEF ReceiveAnswer
        <4>2. QED
          BY <1>1, <1>3, <3>1, <4>1
      <3>4. QED
        BY <3>2, <3>3
    <2>7. ASSUME NEW i \in Ids, Push(c, i) PROVE Known1' /\ Known2'
      <3>1. UNCHANGED <<local, snap, answerNew>> /\ \E s : answer' = [answer EXCEPT ![c][i] = [status |-> s, time |-> Gone]]
        BY <2>7 DEF Push, clientVars
      <3>2. \A j \in Ids : answer'[c][j].time \in {answer[c][j].time, Gone}
        BY <1>0, <3>1 DEF TypeOK
      <3>3. QED
        BY <1>1, <1>3, <3>1, <3>2
    <2>8. QED
      BY <1>7, <2>1, <2>2, <2>3, <2>4, <2>5, <2>6, <2>7 DEF SyncStep
  <1>8. ASSUME LoseAnswer(c) PROVE Known1' /\ Known2'
    BY <1>1, <1>3, <1>5, <1>8 DEF LoseAnswer, clientVars
  <1>9. CASE Crash
    BY <1>1, <1>3, <1>9 DEF Crash, clientVars, NoAnswer, NoNewAnswer
  <1>10. CASE UNCHANGED vars
    BY <1>3, <1>10 DEF vars
  <1>11. CASE OtherStep
    BY <1>0, <1>4, <1>11, OtherIsBystander
  <1>12. ASSUME NEW d \in Clients, d # c, UserStep(d) \/ SyncStep(d) \/ LoseAnswer(d) PROVE Known1' /\ Known2'
    BY <1>0, <1>4, <1>12, UserIsBystander, SyncIsBystander
  <1>13. Known1' /\ Known2'
    <2>1. ASSUME NEW d \in Clients, UserStep(d) \/ SyncStep(d) \/ LoseAnswer(d) PROVE Known1' /\ Known2'
      BY <1>6, <1>7, <1>8, <1>12, <2>1
    <2>2. QED
      BY <1>9, <1>10, <1>11, <2>1 DEF Next
  <1>14. QED
    BY <1>13

LEMMA StoredOnceStep ==
    ASSUME Inv, TypeOK', [Next]_vars
    PROVE  StoredOnce'
  <1>0. TypeOK /\ IdsUsed /\ StoredOnce /\ \A c \in Clients : CallInv(c)
    BY DEF Inv
  <1>1. ASSUME UNCHANGED <<category, maker>>, \A i \in Ids : cloud'[i] # Gone => cloud[i] # Gone,
               \A c \in Clients : unanswered[c] => unanswered'[c]
        PROVE  StoredOnce'
    BY <1>0, <1>1 DEF StoredOnce, OnDuplicate
  <1>2. ASSUME NEW c \in Clients, NEW k \in Drafts, Insert(c, k) PROVE StoredOnce'
    <2> PICK n \in Ids \ used : /\ cloud' = [cloud EXCEPT ![n] = clock + 1]
                                /\ maker' = [maker EXCEPT ![n] = {<<c, k>>}]
      BY <1>2 DEF Insert
    <2>1. UNCHANGED <<category, unanswered>> /\ stage[c] = "answering"
      BY <1>2 DEF Insert, InsertDue, MayCreate, Handling
    <2>2. /\ maker'[n] = {<<c, k>>} /\ \A j \in Ids : j # n => maker'[j] = maker[j] /\ cloud'[j] = cloud[j]
      BY <1>0 DEF TypeOK
    <2>3. ASSUME OnDuplicate(category) # "inserts" \/ ~unanswered[c]
          PROVE  \A i \in Ids : cloud[i] # Gone => <<c, k>> \notin maker[i]
      <3>1. CASE answerNew[c][k].status = "checked"
        BY <1>0, <2>1, <3>1 DEF CallInv, CheckedIsFree, Answering
      <3>2. CASE OnDuplicate(category) = "inserts"
        <4>1. draft[c][k] # "synced" /\ answerNew[c][k].status = "none"
          BY <1>2, <3>2 DEF Insert, InsertDue, MayCreate, NewInCall
        <4>2. answerNew[c][k].id = NoId
          BY <1>0, <2>1, <4>1 DEF CallInv, Created, Answering
        <4>3. QED
          BY <1>0, <2>3, <3>2, <4>1, <4>2 DEF CallInv, DraftsKept
      <3>3. QED
        BY <1>2, <3>1, <3>2 DEF Insert, InsertDue
    <2> SUFFICES ASSUME NEW d \in Clients, NEW l \in Drafts,
                        OnDuplicate(category) # "inserts" \/ ~unanswered[d],
                        NEW i \in Ids, NEW j \in Ids, cloud'[i] # Gone, cloud'[j] # Gone,
                        <<d, l>> \in maker'[i], <<d, l>> \in maker'[j]
                 PROVE  i = j
      BY <2>1 DEF StoredOnce, OnDuplicate
    <2>4. CASE i # n /\ j # n
      BY <1>0, <2>2, <2>4 DEF StoredOnce
    <2>5. CASE i = n /\ j # n
      <3>1. d = c /\ l = k
        BY <2>2, <2>5
      <3>2. cloud[j] # Gone /\ <<c, k>> \in maker[j]
        BY <2>2, <2>5, <3>1
      <3>3. QED
        BY <2>3, <3>1, <3>2
    <2>6. CASE i # n /\ j = n
      <3>1. d = c /\ l = k
        BY <2>2, <2>6
      <3>2. cloud[i] # Gone /\ <<c, k>> \in maker[i]
        BY <2>2, <2>6, <3>1
      <3>3. QED
        BY <2>3, <3>1, <3>2
    <2>7. QED
      BY <2>4, <2>5, <2>6
  <1>3. ASSUME \A c \in Clients, k \in Drafts : ~Insert(c, k) PROVE StoredOnce'
    <2>1. UNCHANGED <<category, maker>>
      BY <1>3 DEF Next, UserStep, SyncStep, OtherStep, LocalEdit, LocalCreate, Demote, StartRequest, ListCollection,
         AnswerKnown, AbortRequest, DenyCreate, CreateFails, FindExisting, InsertFails, OfferUnknown,
         SendAnswer, ReceiveAnswer, Push, FinishReply, CloudEdit, CloudDelete, LoseAnswer, Crash,
         handling, cloudVars, clientVars, callVars, vars
    <2>2. \A i \in Ids : cloud'[i] # Gone => cloud[i] # Gone
      <3>1. CASE OtherStep
        BY <1>0, <3>1 DEF OtherStep, CloudEdit, CloudDelete, TypeOK
      <3>2. ASSUME NEW c \in Clients, NEW i \in Ids, Push(c, i)
            PROVE  \A j \in Ids : cloud'[j] # Gone => cloud[j] # Gone
        BY <1>0, <3>2 DEF Push, PushStatus, TypeOK
      <3>3. QED
        BY <1>3, <3>1, <3>2, CloudWriters
    <2>3. \A c \in Clients : unanswered[c] => unanswered'[c]
      <3>1. ASSUME NEW d \in Clients, AbortRequest(d) \/ LoseAnswer(d)
            PROVE  \A c \in Clients : unanswered[c] => unanswered'[c]
        BY <1>0, <3>1 DEF AbortRequest, LoseAnswer, TypeOK
      <3>2. CASE Crash
        BY <3>2 DEF Crash
      <3>3. ASSUME ~Crash, \A d \in Clients : ~AbortRequest(d) /\ ~LoseAnswer(d)
            PROVE  unanswered' = unanswered
        BY <3>3 DEF Next, UserStep, SyncStep, OtherStep, LocalEdit, LocalCreate, Demote, StartRequest, ListCollection,
           AnswerKnown, DenyCreate, CreateFails, FindExisting, Insert, InsertFails, OfferUnknown,
           SendAnswer, ReceiveAnswer, Push, FinishReply, CloudEdit, CloudDelete,
           handling, cloudVars, clientVars, callVars, vars
      <3>4. QED
        BY <3>1, <3>2, <3>3
    <2>4. QED
      BY <1>1, <2>1, <2>2, <2>3
  <1>4. QED
    BY <1>2, <1>3

LEMMA InitInv == Init => Inv
  <1> SUFFICES ASSUME Init PROVE Inv
    OBVIOUS
  <1>1. TypeOK
    BY InitTyped
  <1>2. /\ used = Existing[category] /\ \A i \in Ids : maker[i] = {}
        /\ \A i \in Ids : cloud[i] # Gone => i \in used
        /\ \A c \in Clients, i \in Ids : snap[c][i] = Gone /\ answer[c][i] = NoAnswer
        /\ \A c \in Clients, k \in Drafts : answerNew[c][k] = NoNewAnswer
        /\ \A c \in Clients : stage[c] = "idle" /\ taken[c] = {} /\ touched[c] = {}
    BY DEF Init
  <1>3. \A c \in Clients, i \in Ids : local[c][i] # Gone => i \in used
    BY DEF Init
  <1>4. IdsUsed
    BY <1>2, <1>3 DEF IdsUsed, NoAnswer, NoNewAnswer
  <1>5. StoredOnce
    BY <1>2 DEF StoredOnce
  <1>6. ASSUME NEW c \in Clients PROVE CallInv(c)
    <2>1. ~Answering(c) /\ stage[c] # "pushing" /\ stage[c] # "answered"
      BY <1>2 DEF Answering
    <2>2. Blank(c) /\ DraftsKept(c)
      BY <1>2 DEF Blank, DraftsKept
    <2>3. Compared(c) /\ ListHolds(c) /\ Created(c) /\ CheckedIsFree(c) /\ LoopsInOrder(c) /\ OnlyRequestedDiffers(c)
      BY <2>1 DEF Compared, ListHolds, Created, CheckedIsFree, LoopsInOrder, OnlyRequestedDiffers
    <2>4. QED
      BY <2>2, <2>3 DEF CallInv
  <1>7. QED
    BY <1>1, <1>4, <1>5, <1>6 DEF Inv

LEMMA InvInvariant == Spec => []Inv
  <1>1. Inv /\ TypeOK' /\ [Next]_vars => Inv'
    BY CallsKept, IdsStep, StoredOnceStep DEF Inv
  <1>2. QED
    BY <1>1, InitInv, TypeCorrect, PTL DEF Spec

-----------------------------------------------------------------------------
(* The theorems.                                                           *)

\* StoredOnce: an answer that comes to nothing is the only way to store a draft twice,
\* and only where create looks for no item of the same kind.
THEOREM MadeOnceStoredOnce == Spec => []StoredOnce
  <1>1. Inv => StoredOnce
    BY DEF Inv
  <1>2. QED
    BY <1>1, InvInvariant, PTL

\* ReturnedIsNotOffered: what create returned is off the list before the second loop
\* offers what is left of it.
THEOREM ReturnedOffTheList == Spec => []ReturnedIsNotOffered
  <1>1. Inv => ReturnedIsNotOffered
    <2> SUFFICES ASSUME Inv, OnDuplicate(category) = "returns", NEW c \in Clients, NEW k \in Drafts,
                        stage[c] = "answered", answerNew[c][k].id # NoId, local[c][answerNew[c][k].id] = Gone
                 PROVE  answer[c][answerNew[c][k].id].status = "none"
      BY DEF ReturnedIsNotOffered, NotOfferedTwice
    <2>1. CallInv(c) /\ Answering(c) /\ answerNew[c][k].id \in Ids
      BY DEF Inv, Answering, TypeOK, NewAnswers
    <2>2. answerNew[c][k].id \in taken[c]
      BY <2>1 DEF CallInv, Created
    <2>3. QED
      BY <2>1, <2>2 DEF CallInv, LoopsInOrder
  <1>2. QED
    BY <1>1, InvInvariant, PTL

\* Who changes the client's copies.
LEMMA LocalWriters ==
    ASSUME TypeOK, [Next]_vars, NEW c \in Clients
    PROVE  \/ local'[c] = local[c]
           \/ \E i \in Ids : LocalEdit(c, i)
           \/ ReceiveAnswer(c)
  <1>1. UNCHANGED local \/ (\E d \in Clients, i \in Ids : LocalEdit(d, i)) \/ (\E d \in Clients : ReceiveAnswer(d))
    BY DEF Next, UserStep, SyncStep, OtherStep, LocalCreate, Demote, StartRequest, ListCollection,
       AnswerKnown, AbortRequest, DenyCreate, CreateFails, FindExisting, Insert, InsertFails, OfferUnknown,
       SendAnswer, Push, FinishReply, CloudEdit, CloudDelete, LoseAnswer, Crash,
       handling, cloudVars, clientVars, callVars, vars
  <1>2. ASSUME NEW d \in Clients, d # c, (\E i \in Ids : LocalEdit(d, i)) \/ ReceiveAnswer(d)
        PROVE  local'[c] = local[c]
    BY <1>2 DEF TypeOK, LocalEdit, ReceiveAnswer
  <1>3. QED
    BY <1>1, <1>2

\* LocalRollbackOnlyWhenTouched: the answer gives a client an older version than its own
\* only of what somebody has written since the list, or of what create returned.
THEOREM CopyGoesBackForOthers == Spec => LocalRollbackOnlyWhenTouched
  <1> DEFINE Allowed ==
        \A c \in Clients, i \in Ids :
            (local'[c][i] # Gone /\ local'[c][i] < local[c][i])
              => \/ i \in touched[c]
                 \/ OnDuplicate(category) = "returns" /\ \E k \in Drafts : answerNew[c][k].id = i
  <1>1. Inv /\ IInv /\ [Next]_vars => Allowed
    <2> SUFFICES ASSUME Inv, IInv, [Next]_vars, NEW c \in Clients, NEW i \in Ids,
                        local'[c][i] # Gone, local'[c][i] < local[c][i], i \notin touched[c]
                 PROVE  OnDuplicate(category) = "returns" /\ \E k \in Drafts : answerNew[c][k].id = i
      OBVIOUS
    <2>0. /\ TypeOK /\ CallInv(c) /\ local[c][i] \in Nat /\ snap[c][i] \in Nat /\ cloud[i] \in Nat
          /\ clock \in Nat /\ local[c][i] <= clock
      BY DEF Inv, IInv, TypeOK, TimesPast
    <2>1. local'[c] # local[c]
      BY <2>0
    <2>2. ASSUME NEW j \in Ids, LocalEdit(c, j) PROVE FALSE
      <3>1. local'[c][i] \in {local[c][i], clock + 1}
        BY <2>0, <2>2 DEF LocalEdit, TypeOK
      <3>2. QED
        BY <2>0, <3>1
    <2>3. ReceiveAnswer(c) /\ local'[c][i] = Applied(c)[i] /\ stage[c] = "answered" /\ Answering(c)
      <3>1. ReceiveAnswer(c)
        BY <2>0, <2>1, <2>2, LocalWriters
      <3>2. QED
        BY <2>0, <3>1 DEF ReceiveAnswer, TypeOK, Answering
    <2>4. i \notin Requested(c)
      BY <2>0, <2>3, AppliedCases
    <2>5. /\ Applied(c)[i] = cloud[i] /\ cloud[i] # Gone /\ cloud[i] < local[c][i]
      BY <2>0, <2>3, <2>4, AppliedAgrees
    <2>6. \E k \in Drafts : answerNew[c][k].id = i
      <3> SUFFICES ASSUME \A k \in Drafts : answerNew[c][k].id # i PROVE FALSE
        OBVIOUS
      <3>1. Applied(c)[i] = IF answer[c][i].status = "NEW_DATA_AVAILABLE" THEN answer[c][i].time
                            ELSE IF answer[c][i].status = "NOT_AVAILABLE" THEN Gone
                            ELSE local[c][i]
        BY <2>0, <2>4, AppliedCases
      <3>2. answer[c][i].status = "NEW_DATA_AVAILABLE"
        BY <2>0, <2>3, <2>5, <3>1
      <3>3. i \notin taken[c] /\ local[c][i] < snap[c][i] /\ cloud[i] = snap[c][i]
        BY <2>0, <2>3, <3>2 DEF CallInv, Created, Compared, ListHolds
      <3>4. QED
        BY <2>0, <2>5, <3>3
    <2>7. OnDuplicate(category) = "returns"
      <3> SUFFICES ASSUME OnDuplicate(category) # "returns" PROVE FALSE
        OBVIOUS
      <3>1. i \notin taken[c]
        BY <2>0, <2>3, <2>5 DEF CallInv, Created, Gone
      <3>2. cloud[i] = snap[c][i]
        BY <2>0, <2>3, <3>1 DEF CallInv, ListHolds
      <3>3. accessRole[c] \in editPermissions(category)
        <4>1. PICK k \in Drafts : answerNew[c][k].id = i
          BY <2>6
        <4>2. i # NoId
          BY SyncAssumption
        <4>3. accessRole[c] \in writePermissions(category)
          BY <2>0, <2>3, <4>1, <4>2 DEF CallInv, Created
        <4>4. QED
          BY <4>3 DEF writePermissions, editPermissions, HubWritten
      <3>4. RequestHandled(c) /\ local[c][i] # Gone
        BY <2>0, <2>3, <2>5 DEF CallInv, LoopsInOrder, Gone
      <3>5. answer[c][i].status # "none"
        BY <3>4 DEF RequestHandled, Known
      <3>6. answer[c][i].status \in {"IN_SYNC", "NOT_AVAILABLE", "NEW_DATA_AVAILABLE"}
        BY <2>0, <2>3, <2>4, <3>5 DEF CallInv, Compared, Requested
      <3>7. CASE answer[c][i].status = "IN_SYNC"
        BY <2>0, <2>3, <2>5, <3>2, <3>3, <3>7 DEF CallInv, Compared
      <3>8. CASE answer[c][i].status = "NOT_AVAILABLE"
        BY <2>0, <2>3, <2>5, <3>1, <3>2, <3>8 DEF CallInv, Compared
      <3>9. CASE answer[c][i].status = "NEW_DATA_AVAILABLE"
        <4>1. local[c][i] < snap[c][i]
          BY <2>0, <2>3, <3>9 DEF CallInv, Compared
        <4>2. QED
          BY <2>0, <2>5, <3>2, <4>1
      <3>10. QED
        BY <3>6, <3>7, <3>8, <3>9
    <2>8. QED
      BY <2>6, <2>7
  <1>2. Allowed => [\A c \in Clients, i \in Ids :
         (local'[c][i] # Gone /\ local'[c][i] < local[c][i])
            => \/ i \in touched[c]
               \/ OnDuplicate(category) = "returns" /\ \E k \in Drafts : answerNew[c][k].id = i]_vars
    OBVIOUS
  <1> HIDE DEF Allowed
  <1>3. QED
    BY <1>1, <1>2, InvInvariant, IInvInvariant, PTL DEF Spec, LocalRollbackOnlyWhenTouched

\* TwoCallsConverge: a call that ends with everything delivered leaves nothing that
\* the client and the cloud disagree on, but for what others have written meanwhile.
THEOREM SyncConverges == Spec => TwoCallsConverge
  <1> DEFINE Allowed == TakenInReply(category) => \A c \in Clients : Converges(c)
  <1>1. Inv /\ [Next]_vars => Allowed
    <2> SUFFICES ASSUME Inv, [Next]_vars, TakenInReply(category), NEW c \in Clients, Completes(c),
                        accessRole[c] \in editPermissions(category), NEW i \in Ids, i \notin touched[c]
                 PROVE  local'[c][i] = cloud'[i]
      BY DEF Converges
    <2>0. TypeOK /\ CallInv(c) /\ stage[c] \in {"answered", "pushing"} /\ stage'[c] = "idle" /\ faults' = faults
      BY DEF Inv, Completes
    <2>1. (ReceiveAnswer(c) /\ EndCall(c)) \/ FinishReply(c)
      <3>1. ~Bystander(c)
        BY <2>0 DEF Bystander
      <3>2. ASSUME NEW d \in Clients, d # c PROVE ~UserStep(d) /\ ~SyncStep(d) /\ ~LoseAnswer(d)
        BY <2>0, <3>1, <3>2, UserIsBystander, SyncIsBystander
      <3>3. ~OtherStep /\ ~UNCHANGED vars
        BY <2>0, <3>1, OtherIsBystander DEF vars
      <3>4. ~Crash /\ ~LoseAnswer(c)
        BY <2>0 DEF Crash, LoseAnswer, TypeOK
      <3>5. ~UserStep(c)
        BY <2>0 DEF UserStep, LocalEdit, LocalCreate, Demote, callVars
      <3>6. SyncStep(c)
        BY <3>2, <3>3, <3>4, <3>5 DEF Next
      <3>7. ASSUME StartRequest(c) \/ ListCollection(c) \/ SendAnswer(c) \/ (\E j \in Ids : AnswerKnown(c, j) \/ OfferUnknown(c, j))
            PROVE  FALSE
        BY <2>0, <3>7 DEF StartRequest, ListCollection, SendAnswer, AnswerKnown, OfferUnknown, Handling, TypeOK
      <3>8. ASSUME NEW k \in Drafts, DenyCreate(c, k) \/ CreateFails(c, k) \/ FindExisting(c, k) \/ Insert(c, k) \/ InsertFails(c, k)
            PROVE  FALSE
        BY <2>0, <3>8 DEF DenyCreate, CreateFails, FindExisting, Insert, InsertFails, handling
      <3>9. ASSUME NEW j \in Ids, Push(c, j) PROVE FALSE
        BY <2>0, <3>9 DEF Push
      <3>10. ReceiveAnswer(c) \/ FinishReply(c)
        BY <3>6, <3>7, <3>8, <3>9 DEF SyncStep
      <3>11. QED
        BY <2>0, <3>10 DEF ReceiveAnswer, TypeOK
    <2>2. CASE ReceiveAnswer(c) /\ EndCall(c)
      <3>1. Requested(c) = {} /\ cloud' = cloud /\ local'[c] = Applied(c) /\ stage[c] = "answered"
        BY <2>0, <2>2 DEF ReceiveAnswer, cloudVars, TypeOK
      <3>2. QED
        BY <2>0, <3>1, AppliedAgrees
    <2>3. CASE FinishReply(c)
      <3>1. Requested(c) = {} /\ cloud' = cloud /\ local' = local /\ stage[c] = "pushing"
        BY <2>3 DEF FinishReply, cloudVars, clientVars
      <3>2. QED
        BY <2>0, <3>1 DEF CallInv, OnlyRequestedDiffers
    <2>4. QED
      BY <2>1, <2>2, <2>3
  <1>2. Allowed => [TakenInReply(category) => \A c \in Clients : Converges(c)]_vars
    OBVIOUS
  <1> HIDE DEF Allowed
  <1>3. QED
    BY <1>1, <1>2, InvInvariant, PTL DEF Spec, TwoCallsConverge
=============================================================================
