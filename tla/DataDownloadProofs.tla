------------------------- MODULE DataDownloadProofs -------------------------
(***************************************************************************)
(* Proofs about DataDownload, for any number of calls and users and any    *)
(* SESSION_LIMIT: nobody in the queue is lost, no place stays empty, and   *)
(* the steps are those of DownloadTurns.                                   *)
(***************************************************************************)
EXTENDS DataDownload, SequenceTheorems, FiniteSetTheorems, TLAPS

-----------------------------------------------------------------------------
(* The three operations on the queue, on a sequence without repetitions.   *)

Distinct(s) == \A i, j \in DOMAIN s : s[i] = s[j] => i = j

LEMMA AppendDistinct ==
    ASSUME NEW S, NEW s \in Seq(S), Distinct(s), NEW e \in S, e \notin ToSet(s)
    PROVE  /\ Append(s, e) \in Seq(S) /\ Distinct(Append(s, e))
           /\ ToSet(Append(s, e)) = ToSet(s) \cup {e}
           /\ Len(Append(s, e)) = Len(s) + 1
           /\ \A i \in 1..Len(s) : Append(s, e)[i] = s[i]
           /\ Append(s, e)[Len(s) + 1] = e
  BY DEF Distinct, ToSet

LEMMA TailDistinct ==
    ASSUME NEW S, NEW s \in Seq(S), Distinct(s), s # <<>>
    PROVE  /\ Tail(s) \in Seq(S) /\ Distinct(Tail(s))
           /\ Head(s) \in S /\ Head(s) \in ToSet(s)
           /\ ToSet(Tail(s)) = ToSet(s) \ {Head(s)}
           /\ Len(Tail(s)) = Len(s) - 1
           /\ \A i \in 1..Len(Tail(s)) : Tail(s)[i] = s[i + 1]
  <1>1. /\ Len(s) \in Nat \ {0} /\ DOMAIN s = 1..Len(s) /\ Head(s) = s[1]
        /\ Tail(s) \in Seq(S) /\ Len(Tail(s)) = Len(s) - 1 /\ DOMAIN Tail(s) = 1..(Len(s) - 1)
        /\ \A i \in 1..Len(Tail(s)) : Tail(s)[i] = s[i + 1]
    BY HeadTailProperties, EmptySeq, LenProperties
  <1>2. Distinct(Tail(s))
    BY <1>1 DEF Distinct
  <1>3. ToSet(Tail(s)) = ToSet(s) \ {Head(s)}
    <2>1. ASSUME NEW i \in 1..(Len(s) - 1)
          PROVE  Tail(s)[i] \in ToSet(s) \ {Head(s)}
      BY <1>1 DEF Distinct, ToSet
    <2>2. ASSUME NEW i \in 1..Len(s), s[i] # Head(s)
          PROVE  s[i] \in ToSet(Tail(s))
      <3>1. i - 1 \in 1..(Len(s) - 1) /\ Tail(s)[i - 1] = s[i]
        BY <1>1, <2>2
      <3>2. QED
        BY <1>1, <3>1 DEF ToSet
    <2>3. QED
      BY <1>1, <2>1, <2>2 DEF ToSet
  <1>4. QED
    BY <1>1, <1>2, <1>3 DEF ToSet

LEMMA RemoveAtSeq ==
    ASSUME NEW S, NEW s \in Seq(S), NEW i \in 1..Len(s)
    PROVE  /\ RemoveAt(s, i) \in Seq(S)
           /\ Len(RemoveAt(s, i)) = Len(s) - 1
           /\ \A j \in 1..(Len(s) - 1) : RemoveAt(s, i)[j] = IF j < i THEN s[j] ELSE s[j + 1]
  <1> DEFINE front == SubSeq(s, 1, i - 1)
             back  == SubSeq(s, i + 1, Len(s))
  <1>1. Len(s) \in Nat /\ i \in Nat /\ \A j \in 1..Len(s) : s[j] \in S
    BY LenProperties, ElementOfSeq
  <1>2. front \in Seq(S) /\ Len(front) = i - 1 /\ \A j \in 1..(i - 1) : front[j] = s[j]
    BY <1>1, SubSeqProperties
  <1>3. back \in Seq(S) /\ Len(back) = Len(s) - i /\ \A j \in 1..(Len(s) - i) : back[j] = s[j + i]
    BY <1>1, SubSeqProperties
  <1> HIDE DEF front, back
  <1> DEFINE both == front \o back
  <1>4. /\ both \in Seq(S) /\ Len(both) = Len(front) + Len(back)
        /\ \A j \in 1..(Len(front) + Len(back)) :
            both[j] = IF j <= Len(front) THEN front[j] ELSE back[j - Len(front)]
    BY <1>2, <1>3, ConcatProperties, Zenon
  <1> HIDE DEF both
  <1>5. ASSUME NEW j \in 1..(Len(s) - 1)
        PROVE  both[j] = IF j < i THEN s[j] ELSE s[j + 1]
    <2>1. CASE j < i
      BY <2>1, <1>1, <1>2, <1>3, <1>4
    <2>2. CASE ~(j < i)
      <3>1. j - (i - 1) \in 1..(Len(s) - i) /\ j - (i - 1) + i = j + 1
        BY <2>2, <1>1
      <3>2. both[j] = back[j - (i - 1)]
        <4>1. j \in 1..(Len(front) + Len(back)) /\ ~(j <= Len(front))
          BY <2>2, <1>1, <1>2, <1>3
        <4>2. both[j] = back[j - Len(front)]
          BY <4>1, <1>4
        <4>3. QED
          BY <4>2, <1>2
      <3>3. back[j - (i - 1)] = s[j - (i - 1) + i]
        BY <3>1, <1>3
      <3>4. QED
        BY <2>2, <3>1, <3>2, <3>3
    <2>3. QED
      BY <2>1, <2>2
  <1>6. RemoveAt(s, i) = both
    BY DEF RemoveAt, front, back, both
  <1>7. Len(both) = Len(s) - 1
    BY <1>1, <1>2, <1>3, <1>4
  <1>8. QED
    BY <1>4, <1>5, <1>6, <1>7

\* The only place of an element is the one that is removed.
LEMMA RemoveFirstIsRemoveAt ==
    ASSUME NEW S, NEW s \in Seq(S), Distinct(s), NEW i \in 1..Len(s)
    PROVE  RemoveFirst(s, s[i]) = RemoveAt(s, i)
  <1>1. {j \in 1..Len(s) : s[j] = s[i]} = {i}
    BY LenProperties DEF Distinct
  <1>2. Min({i}) = i
    BY DEF Min
  <1>3. SelectInSeq(s, LAMBDA v : v = s[i]) = i
    BY <1>1, <1>2 DEF SelectInSeq
  <1>4. QED
    BY <1>3 DEF RemoveFirst

LEMMA RemoveFirstAbsent ==
    ASSUME NEW S, NEW s \in Seq(S), NEW e, e \notin ToSet(s)
    PROVE  RemoveFirst(s, e) = s
  BY LenProperties DEF RemoveFirst, ToSet

LEMMA RemoveFirstDistinct ==
    ASSUME NEW S, NEW s \in Seq(S), Distinct(s), NEW e
    PROVE  /\ RemoveFirst(s, e) \in Seq(S) /\ Distinct(RemoveFirst(s, e))
           /\ ToSet(RemoveFirst(s, e)) = ToSet(s) \ {e}
  <1>1. CASE e \notin ToSet(s)
    BY <1>1, RemoveFirstAbsent
  <1>2. CASE e \in ToSet(s)
    <2>1. PICK i \in 1..Len(s) : s[i] = e
      BY <1>2, LenProperties DEF ToSet
    <2> DEFINE t == RemoveAt(s, i)
    <2>2. RemoveFirst(s, e) = t
      BY <2>1, RemoveFirstIsRemoveAt
    <2>3. /\ t \in Seq(S) /\ DOMAIN t = 1..(Len(s) - 1) /\ Len(s) \in Nat /\ DOMAIN s = 1..Len(s)
          /\ \A j \in 1..(Len(s) - 1) : t[j] = IF j < i THEN s[j] ELSE s[j + 1]
      BY RemoveAtSeq, LenProperties
    <2> HIDE DEF t
    <2>4. Distinct(t)
      BY <2>3 DEF Distinct
    <2>5. ASSUME NEW j \in 1..(Len(s) - 1)
          PROVE  t[j] \in ToSet(s) \ {e}
      BY <2>1, <2>3 DEF Distinct, ToSet
    <2>6. ASSUME NEW j \in 1..Len(s), s[j] # e
          PROVE  s[j] \in ToSet(t)
      <3>1. CASE j < i
        BY <3>1, <2>3 DEF ToSet
      <3>2. CASE j > i
        <4>1. j - 1 \in 1..(Len(s) - 1) /\ t[j - 1] = s[j]
          BY <3>2, <2>3
        <4>2. QED
          BY <4>1, <2>3 DEF ToSet
      <3>3. QED
        BY <3>1, <3>2, <2>1, <2>6
    <2>7. ToSet(t) = ToSet(s) \ {e}
      BY <2>3, <2>5, <2>6 DEF ToSet
    <2>8. QED
      BY <2>2, <2>3, <2>4, <2>7
  <1>3. QED
    BY <1>1, <1>2

-----------------------------------------------------------------------------
(* The queue, the registered promises, the waiting calls and the timers    *)
(* agree; sessions are those of running calls.                             *)

SessionsOfRunning == sessions \subseteq {UserOf[r] : r \in {q \in Calls : state[q] = "running"}}

Inv == TypeOK /\ QueueMatchesWaiting /\ TimersMatchWaiting /\ SessionsOfRunning

LEMMA InvInit == Init => Inv
  <1> SUFFICES ASSUME Init PROVE Inv
    OBVIOUS
  <1>1. TypeOK
    BY DEF Init, TypeOK, CallStates
  <1>2. Waiting = {} /\ ToSet(waitingSessionsQueue) = {} /\ DOMAIN waitingSessionsQueue = {}
    BY DEF Init, Waiting, ToSet
  <1>3. QueueMatchesWaiting
    BY <1>2, DownloadAssumption DEF QueueMatchesWaiting, Init
  <1>4. QED
    BY <1>1, <1>2, <1>3 DEF Inv, TimersMatchWaiting, SessionsOfRunning, Init

\* A user has at most one waiting call, the registered one.
LEMMA OneWaitingEach ==
    ASSUME Inv, NEW q \in Waiting
    PROVE  q = waitingSessions[UserOf[q]]
  BY DEF Inv, QueueMatchesWaiting

LEMMA WaitInv ==
    ASSUME Inv, NEW r \in Calls, state[r] = "idle", waitToInitiateSession(r), UNCHANGED sessions
    PROVE  Inv'
  <1> DEFINE u == UserOf[r]
             p == waitingSessions[u]
             rest == RemoveFirst(waitingSessionsQueue, u)
  <1>1. u \in Users /\ p \in Calls \cup {NoCall} /\ p # r
    BY DownloadAssumption DEF Inv, TypeOK, QueueMatchesWaiting, Waiting
  <1>2. Waiting' = (Waiting \ {p}) \cup {r}
    BY DEF Waiting, waitToInitiateSession, Inv, TypeOK, CallStates
  <1>3. Distinct(waitingSessionsQueue) /\ waitingSessionsQueue \in Seq(Users)
    BY DEF Inv, TypeOK, QueueMatchesWaiting, Distinct
  <1>4. rest \in Seq(Users) /\ Distinct(rest) /\ ToSet(rest) = ToSet(waitingSessionsQueue) \ {u}
    BY <1>3, RemoveFirstDistinct
  <1>5. /\ waitingSessionsQueue' \in Seq(Users) /\ Distinct(waitingSessionsQueue)'
        /\ ToSet(waitingSessionsQueue)' = ToSet(waitingSessionsQueue) \cup {u}
    <2>1. u \notin ToSet(rest)
      BY <1>4
    <2> HIDE DEF rest
    <2>2. waitingSessionsQueue' = Append(rest, u)
      BY DEF waitToInitiateSession, rest
    <2>3. /\ Append(rest, u) \in Seq(Users) /\ Distinct(Append(rest, u))
          /\ ToSet(Append(rest, u)) = ToSet(rest) \cup {u}
      BY <1>1, <1>4, <2>1, AppendDistinct
    <2>4. Distinct(waitingSessionsQueue)' = Distinct(waitingSessionsQueue')
      BY DEF Distinct
    <2>5. ToSet(waitingSessionsQueue)' = ToSet(waitingSessionsQueue')
      BY DEF ToSet
    <2>6. QED
      BY <1>4, <2>2, <2>3, <2>4, <2>5
  <1>6. waitingSessions' = [waitingSessions EXCEPT ![u] = r] /\ timers' = (timers \ {p}) \cup {r}
    BY DEF waitToInitiateSession
  <1> HIDE DEF rest
  <1>7. TypeOK'
    BY <1>1, <1>5, <1>6 DEF TypeOK, Inv, CallStates, waitToInitiateSession
  <1>8. QueueMatchesWaiting'
    <2>1. \A q \in Waiting' : waitingSessions'[UserOf[q]] = q
      BY <1>1, <1>2, <1>6, DownloadAssumption DEF Inv, TypeOK, QueueMatchesWaiting, Waiting
    <2>2. ASSUME NEW v \in Users, waitingSessions'[v] # NoCall
          PROVE  waitingSessions'[v] \in Waiting' /\ UserOf[waitingSessions'[v]] = v
      BY <1>1, <1>2, <1>6, <2>2 DEF Inv, TypeOK, QueueMatchesWaiting
    <2>3. {UserOf[q] : q \in Waiting'} = {UserOf[q] : q \in Waiting} \cup {u}
      <3>1. p \in Waiting => UserOf[p] = u
        BY <1>1, DownloadAssumption DEF Inv, QueueMatchesWaiting, Waiting
      <3>2. QED
        BY <1>2, <3>1
    <2>4. QED
      BY <1>5, <2>1, <2>2, <2>3 DEF QueueMatchesWaiting, Inv, Distinct
  <1>9. TimersMatchWaiting'
    BY <1>2, <1>6 DEF TimersMatchWaiting, Inv
  <1>10. SessionsOfRunning'
    <2>1. \A q \in Calls : state[q] = "running" => q # p
      BY <1>1, DownloadAssumption DEF Inv, QueueMatchesWaiting, Waiting
    <2>2. \A q \in Calls : state[q] = "running" => state'[q] = "running"
      BY <2>1 DEF waitToInitiateSession
    <2>3. QED
      BY <2>2 DEF SessionsOfRunning, Inv
  <1>11. QED
    BY <1>7, <1>8, <1>9, <1>10 DEF Inv

LEMMA EnterInv ==
    ASSUME Inv, NEW r \in Calls, state[r] \in {"idle", "admitted"}, Enter(r),
           UNCHANGED <<waitingSessions, waitingSessionsQueue, timers>>
    PROVE  Inv'
  <1>1. UserOf[r] \in Users
    BY DownloadAssumption
  <1>2. state' = [state EXCEPT ![r] = "running"] /\ sessions' = sessions \cup {UserOf[r]}
    BY DEF Enter
  <1>3. Waiting' = Waiting
    BY <1>2 DEF Waiting, Inv, TypeOK
  <1>4. TypeOK'
    BY <1>1, <1>2 DEF TypeOK, Inv, CallStates
  <1>5. QueueMatchesWaiting' /\ TimersMatchWaiting'
    BY <1>3 DEF Inv, QueueMatchesWaiting, TimersMatchWaiting
  <1>6. SessionsOfRunning'
    BY <1>2 DEF SessionsOfRunning, Inv, TypeOK
  <1>7. QED
    BY <1>4, <1>5, <1>6 DEF Inv

LEMMA TimeoutInv ==
    ASSUME Inv, NEW r \in Calls, WaitTimeout(r)
    PROVE  Inv'
  <1> DEFINE u == UserOf[r]
  <1>1. u \in Users /\ r \in Waiting /\ waitingSessions[u] = r /\ r # NoCall
    BY DownloadAssumption DEF Inv, TimersMatchWaiting, QueueMatchesWaiting, WaitTimeout
  <1>2. /\ state' = [q \in Calls |-> IF q = r THEN "idle" ELSE state[q]]
        /\ timers' = timers \ {r}
        /\ waitingSessionsQueue' = RemoveFirst(waitingSessionsQueue, u)
        /\ waitingSessions' = [waitingSessions EXCEPT ![u] = NoCall]
        /\ sessions' = sessions
    BY <1>1 DEF WaitTimeout
  <1>3. Waiting' = Waiting \ {r}
    BY <1>2 DEF Waiting
  <1>4. /\ waitingSessionsQueue' \in Seq(Users) /\ Distinct(waitingSessionsQueue')
        /\ ToSet(waitingSessionsQueue') = ToSet(waitingSessionsQueue) \ {u}
    <2>1. Distinct(waitingSessionsQueue) /\ waitingSessionsQueue \in Seq(Users)
      BY DEF Inv, TypeOK, QueueMatchesWaiting, Distinct
    <2>2. QED
      BY <1>2, <2>1, RemoveFirstDistinct
  <1>5. TypeOK'
    BY <1>2, <1>4 DEF TypeOK, Inv, CallStates
  <1>6. QueueMatchesWaiting'
    <2>1. \A q \in Waiting' : waitingSessions'[UserOf[q]] = q
      BY <1>1, <1>2, <1>3, DownloadAssumption DEF Inv, TypeOK, QueueMatchesWaiting, Waiting
    <2>2. ASSUME NEW v \in Users, waitingSessions'[v] # NoCall
          PROVE  waitingSessions'[v] \in Waiting' /\ UserOf[waitingSessions'[v]] = v
      BY <1>1, <1>2, <1>3, <2>2 DEF Inv, TypeOK, QueueMatchesWaiting
    <2>3. {UserOf[q] : q \in Waiting'} = {UserOf[q] : q \in Waiting} \ {u}
      BY <1>1, <1>3, OneWaitingEach
    <2>4. QED
      BY <1>4, <2>1, <2>2, <2>3 DEF QueueMatchesWaiting, Inv, Distinct, ToSet
  <1>7. TimersMatchWaiting'
    BY <1>2, <1>3 DEF TimersMatchWaiting, Inv
  <1>8. SessionsOfRunning'
    BY <1>1, <1>2 DEF SessionsOfRunning, Inv, Waiting
  <1>9. QED
    BY <1>5, <1>6, <1>7, <1>8 DEF Inv

\* The call at the head of the queue is the registered one of its user, and it waits.
LEMMA HeadWaits ==
    ASSUME Inv, waitingSessionsQueue # <<>>
    PROVE  LET u == Head(waitingSessionsQueue)
           IN  /\ u \in Users /\ waitingSessions[u] \in Waiting
               /\ UserOf[waitingSessions[u]] = u
  <1>1. Distinct(waitingSessionsQueue) /\ waitingSessionsQueue \in Seq(Users)
    BY DEF Inv, TypeOK, QueueMatchesWaiting, Distinct
  <1>2. Head(waitingSessionsQueue) \in {UserOf[r] : r \in Waiting} /\ Head(waitingSessionsQueue) \in Users
    BY <1>1, TailDistinct DEF Inv, QueueMatchesWaiting
  <1>3. QED
    BY <1>2 DEF Inv, QueueMatchesWaiting

\* endSession with somebody in the queue: a is the call it admits.
LEMMA AdmitInv ==
    ASSUME Inv, NEW r \in Calls, endSession(r), waitingSessionsQueue # <<>>
    PROVE  Inv'
  <1> DEFINE u == Head(waitingSessionsQueue)
             a == waitingSessions[u]
  <1>1. u \in Users /\ a \in Waiting /\ UserOf[a] = u /\ a # r /\ a \in Calls
    BY HeadWaits DEF endSession, Waiting
  <1>2. /\ state' = [q \in Calls |-> IF q = r THEN "idle" ELSE IF q = a THEN "admitted" ELSE state[q]]
        /\ timers' = timers \ {a}
        /\ waitingSessionsQueue' = Tail(waitingSessionsQueue)
        /\ waitingSessions' = [waitingSessions EXCEPT ![u] = NoCall]
        /\ sessions' = sessions \ {UserOf[r]}
    BY DEF endSession, Admitted, AdmitNext
  <1>3. Waiting' = Waiting \ {a}
    BY <1>1, <1>2 DEF Waiting, endSession
  <1>4. /\ waitingSessionsQueue' \in Seq(Users) /\ Distinct(waitingSessionsQueue')
        /\ ToSet(waitingSessionsQueue') = ToSet(waitingSessionsQueue) \ {u}
    <2>1. Distinct(waitingSessionsQueue) /\ waitingSessionsQueue \in Seq(Users)
      BY DEF Inv, TypeOK, QueueMatchesWaiting, Distinct
    <2>2. QED
      BY <1>2, <2>1, TailDistinct
  <1> HIDE DEF u
  <1>5. TypeOK'
    BY <1>2, <1>4 DEF TypeOK, Inv, CallStates
  <1>6. QueueMatchesWaiting'
    <2>1. \A q \in Waiting' : waitingSessions'[UserOf[q]] = q
      BY <1>1, <1>2, <1>3, DownloadAssumption DEF Inv, TypeOK, QueueMatchesWaiting, Waiting
    <2>2. ASSUME NEW v \in Users, waitingSessions'[v] # NoCall
          PROVE  waitingSessions'[v] \in Waiting' /\ UserOf[waitingSessions'[v]] = v
      BY <1>1, <1>2, <1>3, <2>2 DEF Inv, TypeOK, QueueMatchesWaiting
    <2>3. {UserOf[q] : q \in Waiting'} = {UserOf[q] : q \in Waiting} \ {u}
      BY <1>1, <1>3, OneWaitingEach
    <2>4. QED
      BY <1>4, <2>1, <2>2, <2>3 DEF QueueMatchesWaiting, Inv, Distinct, ToSet
  <1>7. TimersMatchWaiting'
    BY <1>2, <1>3 DEF TimersMatchWaiting, Inv
  <1>8. SessionsOfRunning'
    <2>1. ASSUME NEW q \in Calls, state[q] = "running", UserOf[q] # UserOf[r]
          PROVE  state'[q] = "running"
      BY <1>1, <1>2, <2>1 DEF Waiting
    <2>2. QED
      BY <1>2, <2>1 DEF SessionsOfRunning, Inv
  <1>9. QED
    BY <1>5, <1>6, <1>7, <1>8 DEF Inv

LEMMA EndAloneInv ==
    ASSUME Inv, NEW r \in Calls, endSession(r), waitingSessionsQueue = <<>>
    PROVE  Inv'
  <1>1. /\ state' = [q \in Calls |-> IF q = r THEN "idle" ELSE state[q]]
        /\ UNCHANGED <<waitingSessions, waitingSessionsQueue, timers>>
        /\ sessions' = sessions \ {UserOf[r]}
    BY DEF endSession, Admitted, AdmitNext
  <1>2. Waiting' = Waiting
    BY <1>1 DEF Waiting, endSession
  <1>3. TypeOK'
    BY <1>1 DEF TypeOK, Inv, CallStates
  <1>4. QueueMatchesWaiting' /\ TimersMatchWaiting'
    BY <1>1, <1>2 DEF Inv, QueueMatchesWaiting, TimersMatchWaiting
  <1>5. SessionsOfRunning'
    BY <1>1 DEF SessionsOfRunning, Inv
  <1>6. QED
    BY <1>3, <1>4, <1>5 DEF Inv

LEMMA InvStep == Inv /\ [Next]_vars => Inv'
  <1> SUFFICES ASSUME Inv, [Next]_vars PROVE Inv'
    OBVIOUS
  <1>1. ASSUME NEW r \in Calls, startSession(r) PROVE Inv'
    BY <1>1, WaitInv, EnterInv DEF startSession
  <1>2. ASSUME NEW r \in Calls, Continue(r) PROVE Inv'
    BY <1>2, EnterInv DEF Continue
  <1>3. ASSUME NEW r \in Calls, WaitTimeout(r) PROVE Inv'
    BY <1>3, TimeoutInv
  <1>4. ASSUME NEW r \in Calls, endSession(r) PROVE Inv'
    BY <1>4, AdmitInv, EndAloneInv
  <1>5. CASE UNCHANGED vars
    BY <1>5 DEF vars, Inv, TypeOK, QueueMatchesWaiting, TimersMatchWaiting, SessionsOfRunning, Waiting
  <1>6. QED
    BY <1>1, <1>2, <1>3, <1>4, <1>5 DEF Next

LEMMA InvAlways == Spec => []Inv
  BY InvInit, InvStep, PTL DEF Spec

\* A state of a call is one of the four, the queue one of users, a registered promise one
\* of a call.
THEOREM TypeCorrect == Spec => []TypeOK
  <1>1. Inv => TypeOK
    BY DEF Inv
  <1>2. QED
    BY <1>1, InvAlways, PTL

\* The queue, the registered promises and the waiting calls are the same users, each
\* once: the shift of endSession always finds a promise to resolve.
THEOREM QueueAgrees == Spec => []QueueMatchesWaiting
  <1>1. Inv => QueueMatchesWaiting
    BY DEF Inv
  <1>2. QED
    BY <1>1, InvAlways, PTL

\* Exactly the waiting calls have a timer: cleanup never rejects a later call of the user.
THEOREM TimersAgree == Spec => []TimersMatchWaiting
  <1>1. Inv => TimersMatchWaiting
    BY DEF Inv
  <1>2. QED
    BY <1>1, InvAlways, PTL

-----------------------------------------------------------------------------
(* No place stays empty while somebody waits for it.                       *)

LEMMA ActiveFinite ==
    ASSUME Inv
    PROVE  IsFiniteSet(Active) /\ Cardinality(Active) \in Nat
  BY DownloadAssumption, FS_Subset, FS_CardinalityType DEF Active

\* There are not more sessions than calls that run.
LEMMA SessionsAtMostActive ==
    ASSUME Inv
    PROVE  Cardinality(sessions) \in Nat /\ Cardinality(sessions) <= Cardinality(Active)
  <1> DEFINE running == {q \in Calls : state[q] = "running"}
             users == {UserOf[q] : q \in running}
  <1>1. IsFiniteSet(running) /\ Cardinality(running) <= Cardinality(Active)
    BY ActiveFinite, FS_Subset DEF Active
  <1>2. IsFiniteSet(users) /\ Cardinality(users) <= Cardinality(running)
    <2> DEFINE f == [q \in running |-> UserOf[q]]
    <2>1. f \in Surjection(running, users)
      BY DEF Surjection
    <2>2. QED
      BY <1>1, <2>1, FS_Surjection
  <1>3. sessions \subseteq users
    BY DEF Inv, SessionsOfRunning
  <1>4. IsFiniteSet(sessions) /\ Cardinality(sessions) <= Cardinality(users)
    BY <1>2, <1>3, FS_Subset
  <1>5. QED
    BY <1>1, <1>2, <1>4, ActiveFinite, FS_CardinalityType

LEMMA NoIdleStep ==
    ASSUME Inv, NoIdlePlace, [Next]_vars
    PROVE  NoIdlePlace'
  <1>1. Inv' /\ SESSION_LIMIT \in Nat
    BY InvStep, DownloadAssumption
  <1>2. IsFiniteSet(Active) /\ IsFiniteSet(Active') /\ Cardinality(Active) \in Nat /\ Cardinality(Active') \in Nat
    <2>1. Active \subseteq Calls /\ Active' \subseteq Calls
      BY DEF Active
    <2>2. QED
      BY <2>1, DownloadAssumption, FS_Subset, FS_CardinalityType
  <1>3. ASSUME Active \subseteq Active', Cardinality(Active) > SESSION_LIMIT
        PROVE  NoIdlePlace'
    BY <1>1, <1>2, <1>3, FS_Subset DEF NoIdlePlace
  <1>4. ASSUME NEW r \in Calls, startSession(r) PROVE NoIdlePlace'
    <2>1. CASE Cardinality(sessions) > SESSION_LIMIT /\ waitToInitiateSession(r) /\ UNCHANGED sessions
      <3>1. Cardinality(Active) > SESSION_LIMIT
        BY <1>1, <1>2, <2>1, SessionsAtMostActive
      <3>2. waitingSessions[UserOf[r]] \in Waiting \cup {NoCall}
        BY DownloadAssumption DEF Inv, TypeOK, QueueMatchesWaiting
      <3>3. Active \subseteq Active'
        BY <1>4, <2>1, <3>2, DownloadAssumption DEF Active, Waiting, waitToInitiateSession, startSession
      <3>4. QED
        BY <1>3, <3>1, <3>3
    <2>2. CASE Enter(r) /\ UNCHANGED <<waitingSessions, waitingSessionsQueue, timers>>
      <3>1. Active \subseteq Active' /\ waitingSessionsQueue' = waitingSessionsQueue
        BY <2>2 DEF Active, Enter, Inv, TypeOK
      <3>2. QED
        BY <1>3, <3>1 DEF NoIdlePlace
    <2>3. QED
      BY <1>4, <2>1, <2>2 DEF startSession
  <1>5. ASSUME NEW r \in Calls, Continue(r) PROVE NoIdlePlace'
    <2>1. Active \subseteq Active' /\ waitingSessionsQueue' = waitingSessionsQueue
      BY <1>5 DEF Active, Continue, Enter, Inv, TypeOK
    <2>2. QED
      BY <1>3, <2>1 DEF NoIdlePlace
  <1>6. ASSUME NEW r \in Calls, WaitTimeout(r) PROVE NoIdlePlace'
    <2>1. r \in Waiting /\ waitingSessions[UserOf[r]] = r
      BY <1>6 DEF Inv, TimersMatchWaiting, QueueMatchesWaiting, WaitTimeout
    <2>2. waitingSessionsQueue # <<>>
      BY <2>1 DEF Inv, QueueMatchesWaiting, ToSet
    <2>3. Active \subseteq Active'
      BY <1>6, <2>1 DEF Active, WaitTimeout, Waiting
    <2>4. QED
      BY <1>3, <2>2, <2>3 DEF NoIdlePlace
  <1>7. ASSUME NEW r \in Calls, endSession(r) PROVE NoIdlePlace'
    <2> DEFINE a == waitingSessions[Head(waitingSessionsQueue)]
    <2>1. CASE waitingSessionsQueue = <<>>
      BY <1>7, <2>1 DEF NoIdlePlace, endSession, AdmitNext
    <2>2. CASE waitingSessionsQueue # <<>>
      <3>1. a \in Waiting /\ a \in Calls /\ a # r /\ a \notin Active /\ r \in Active
        BY <1>7, <2>2, HeadWaits DEF Waiting, Active, endSession
      <3> HIDE DEF a
      <3>2. state' = [q \in Calls |-> IF q = r THEN "idle" ELSE IF q = a THEN "admitted" ELSE state[q]]
        BY <1>7, <2>2 DEF endSession, Admitted, a
      <3>3. Active' = (Active \ {r}) \cup {a}
        BY <3>1, <3>2 DEF Active
      <3>4. Cardinality(Active \ {r}) = Cardinality(Active) - 1 /\ IsFiniteSet(Active \ {r})
        BY <1>2, <3>1, FS_RemoveElement
      <3>5. Cardinality(Active') = Cardinality(Active)
        <4>1. a \notin Active \ {r}
          BY <3>1
        <4>2. Cardinality((Active \ {r}) \cup {a}) = Cardinality(Active \ {r}) + 1
          BY <3>4, <4>1, FS_AddElement
        <4>3. QED
          BY <1>2, <3>3, <3>4, <4>2
      <3>6. QED
        BY <2>2, <3>5 DEF NoIdlePlace
    <2>3. QED
      BY <2>1, <2>2
  <1>8. CASE UNCHANGED vars
    BY <1>8 DEF vars, NoIdlePlace, Active
  <1>9. QED
    BY <1>4, <1>5, <1>6, <1>7, <1>8 DEF Next

\* Whoever leaves lets one in: while somebody waits all places are taken.
THEOREM NoPlaceIdle == Spec => []NoIdlePlace
  <1>1. Init => NoIdlePlace
    BY DEF Init, NoIdlePlace
  <1>2. QED
    BY <1>1, InvInit, InvStep, NoIdleStep, PTL DEF Spec

-----------------------------------------------------------------------------
(* The steps are those of DownloadTurns, on the queue of registered calls. *)

CallsOf(users, registered) == [i \in DOMAIN users |-> registered[users[i]]]
CallQueue == CallsOf(waitingSessionsQueue, waitingSessions)

\* The queue of calls is that of their users.
LEMMA CallQueueMatches ==
    ASSUME Inv
    PROVE  /\ CallQueue \in Seq(Calls)
           /\ Len(waitingSessionsQueue) \in Nat /\ Len(CallQueue) = Len(waitingSessionsQueue)
           /\ \A i \in 1..Len(waitingSessionsQueue) :
                /\ CallQueue[i] = waitingSessions[waitingSessionsQueue[i]]
                /\ CallQueue[i] \in Waiting
                /\ UserOf[CallQueue[i]] = waitingSessionsQueue[i]
                /\ waitingSessionsQueue[i] \in Users
  <1>1. /\ DOMAIN waitingSessionsQueue = 1..Len(waitingSessionsQueue)
        /\ Len(waitingSessionsQueue) \in Nat
        /\ \A i \in 1..Len(waitingSessionsQueue) : waitingSessionsQueue[i] \in Users
    BY LenProperties, ElementOfSeq DEF Inv, TypeOK
  <1>2. ASSUME NEW i \in 1..Len(waitingSessionsQueue)
        PROVE  /\ waitingSessions[waitingSessionsQueue[i]] \in Waiting
               /\ UserOf[waitingSessions[waitingSessionsQueue[i]]] = waitingSessionsQueue[i]
    <2>1. PICK q \in Waiting : UserOf[q] = waitingSessionsQueue[i]
      <3>1. waitingSessionsQueue[i] \in ToSet(waitingSessionsQueue)
        BY <1>1 DEF ToSet
      <3>2. QED
        BY <3>1 DEF Inv, QueueMatchesWaiting
    <2>2. QED
      BY <2>1 DEF Inv, QueueMatchesWaiting
  <1>3. Waiting \subseteq Calls
    BY DEF Waiting
  <1>4. QED
    BY <1>1, <1>2, <1>3 DEF CallQueue, CallsOf

\* Outside is every call that neither waits nor is active.
LEMMA IdleOutside ==
    ASSUME Inv, NEW r \in Calls, state[r] = "idle"
    PROVE  Turns!Outside(r)
  <1>1. r \notin Active /\ r \notin Waiting
    BY DEF Active, Waiting
  <1>2. \A i \in DOMAIN CallQueue : CallQueue[i] # r
    BY <1>1, CallQueueMatches, LenProperties
  <1>3. QED
    BY <1>1, <1>2 DEF Turns!Outside, CallQueue, CallsOf

\* To take the call of a user out of the queue of calls is to take the user out.
LEMMA QueueWithoutUser ==
    ASSUME Inv, NEW u \in Users
    PROVE  LET rest == RemoveFirst(waitingSessionsQueue, u)
           IN  /\ Turns!QueueWithout(u) = CallsOf(rest, waitingSessions)
               /\ rest \in Seq(Users) /\ u \notin ToSet(rest)
  <1> DEFINE rest == RemoveFirst(waitingSessionsQueue, u)
  <1>1. Distinct(waitingSessionsQueue) /\ waitingSessionsQueue \in Seq(Users)
    BY DEF Inv, TypeOK, QueueMatchesWaiting, Distinct
  <1>2. rest \in Seq(Users) /\ u \notin ToSet(rest)
    BY <1>1, RemoveFirstDistinct
  <1>3. DOMAIN CallQueue = 1..Len(waitingSessionsQueue) /\ DOMAIN waitingSessionsQueue = 1..Len(waitingSessionsQueue)
    BY <1>1, CallQueueMatches, LenProperties
  <1>4. Turns!QueueWithout(u) =
            IF \E i \in DOMAIN CallQueue : UserOf[CallQueue[i]] = u
            THEN RemoveAt(CallQueue, CHOOSE i \in DOMAIN CallQueue : UserOf[CallQueue[i]] = u)
            ELSE CallQueue
    BY DEF Turns!QueueWithout, Turns!RemoveAt, RemoveAt, CallQueue, CallsOf
  <1>5. CASE u \in ToSet(waitingSessionsQueue)
    <2>1. PICK i \in 1..Len(waitingSessionsQueue) : waitingSessionsQueue[i] = u
      BY <1>3, <1>5 DEF ToSet
    <2>2. \A j \in DOMAIN CallQueue : UserOf[CallQueue[j]] = u <=> j = i
      BY <1>1, <1>3, <2>1, CallQueueMatches DEF Distinct
    <2>3. (CHOOSE j \in DOMAIN CallQueue : UserOf[CallQueue[j]] = u) = i
      BY <1>3, <2>2
    <2>4. Turns!QueueWithout(u) = RemoveAt(CallQueue, i)
      BY <1>3, <1>4, <2>2, <2>3
    <2>5. rest = RemoveAt(waitingSessionsQueue, i)
      BY <1>1, <2>1, RemoveFirstIsRemoveAt
    <2> DEFINE n == Len(waitingSessionsQueue) - 1
               cut == RemoveAt(CallQueue, i)
    <2>6. /\ cut \in Seq(Calls) /\ Len(cut) = n /\ DOMAIN cut = 1..n
          /\ \A j \in 1..n : cut[j] = IF j < i THEN CallQueue[j] ELSE CallQueue[j + 1]
      BY <2>1, CallQueueMatches, RemoveAtSeq, LenProperties
    <2>7. /\ DOMAIN rest = 1..n
          /\ \A j \in 1..n : rest[j] = IF j < i THEN waitingSessionsQueue[j] ELSE waitingSessionsQueue[j + 1]
      BY <1>1, <2>1, <2>5, RemoveAtSeq, LenProperties
    <2> HIDE DEF rest, cut
    <2>8. ASSUME NEW j \in 1..n
          PROVE  cut[j] = waitingSessions[rest[j]]
      <3>1. j \in 1..Len(waitingSessionsQueue) /\ j + 1 \in 1..Len(waitingSessionsQueue)
        BY CallQueueMatches
      <3>2. QED
        BY <2>6, <2>7, <3>1, CallQueueMatches
    <2>9. cut = CallsOf(rest, waitingSessions)
      <3>1. cut = [j \in 1..n |-> cut[j]]
        BY <2>6, LenProperties
      <3>2. QED
        BY <2>7, <2>8, <3>1 DEF CallsOf
    <2>10. QED
      BY <1>2, <2>4, <2>9 DEF rest, cut
  <1>6. CASE u \notin ToSet(waitingSessionsQueue)
    <2>1. rest = waitingSessionsQueue
      BY <1>1, <1>6, RemoveFirstAbsent
    <2>2. \A j \in DOMAIN CallQueue : UserOf[CallQueue[j]] # u
      BY <1>3, <1>6, CallQueueMatches DEF ToSet
    <2>3. QED
      BY <1>2, <1>4, <2>1, <2>2 DEF CallQueue
  <1>7. QED
    BY <1>5, <1>6

LEMMA WaitQueuesUp ==
    ASSUME Inv, NEW r \in Calls, state[r] = "idle", waitToInitiateSession(r)
    PROVE  Turns!QueueUp(r)
  <1> DEFINE u == UserOf[r]
             rest == RemoveFirst(waitingSessionsQueue, u)
             calls == CallsOf(rest, waitingSessions)
  <1>1. u \in Users
    BY DownloadAssumption
  <1>2. rest \in Seq(Users) /\ u \notin ToSet(rest) /\ Turns!QueueWithout(u) = calls
    BY <1>1, QueueWithoutUser
  <1>3. waitingSessionsQueue' = Append(rest, u) /\ waitingSessions' = [waitingSessions EXCEPT ![u] = r]
    BY DEF waitToInitiateSession
  <1> HIDE DEF rest
  <1>4. /\ Len(rest) \in Nat /\ DOMAIN rest = 1..Len(rest)
        /\ \A i \in 1..Len(rest) : rest[i] \in Users /\ rest[i] # u
    BY <1>2, LenProperties, ElementOfSeq DEF ToSet
  <1>5. /\ DOMAIN Append(rest, u) = 1..(Len(rest) + 1)
        /\ \A i \in 1..Len(rest) : Append(rest, u)[i] = rest[i]
        /\ Append(rest, u)[Len(rest) + 1] = u
    BY <1>1, <1>2, AppendProperties, LenProperties
  <1>6. \A i \in 1..Len(rest) : waitingSessions'[rest[i]] = waitingSessions[rest[i]]
    BY <1>3, <1>4 DEF Inv, TypeOK
  <1>7. waitingSessions'[u] = r
    BY <1>1, <1>3 DEF Inv, TypeOK
  <1>8. calls = [i \in 1..Len(rest) |-> waitingSessions[rest[i]]]
    BY <1>4 DEF CallsOf
  <1>9. CallQueue' = [i \in 1..(Len(rest) + 1) |-> waitingSessions'[Append(rest, u)[i]]]
    BY <1>3, <1>5 DEF CallQueue, CallsOf
  <1> DEFINE S == {waitingSessions[v] : v \in Users} \cup {r}
  <1>10. calls \in Seq(S) /\ Len(calls) = Len(rest)
    BY <1>4, <1>8
  <1>11. /\ DOMAIN Append(calls, r) = 1..(Len(rest) + 1)
         /\ \A i \in 1..Len(rest) : Append(calls, r)[i] = waitingSessions[rest[i]]
         /\ Append(calls, r)[Len(rest) + 1] = r
         /\ Append(calls, r) \in Seq(S)
    BY <1>8, <1>10, AppendProperties, LenProperties
  <1>12. CallQueue' = Append(calls, r)
    <2>1. Append(calls, r) = [i \in 1..(Len(rest) + 1) |-> Append(calls, r)[i]]
      BY <1>11, LenProperties
    <2>2. \A i \in 1..(Len(rest) + 1) : Append(calls, r)[i] = waitingSessions'[Append(rest, u)[i]]
      BY <1>4, <1>5, <1>6, <1>7, <1>11
    <2>3. QED
      BY <1>9, <2>1, <2>2
  <1>13. Active' = Active
    <2>1. waitingSessions[u] \in Waiting \cup {NoCall}
      BY <1>1 DEF Inv, QueueMatchesWaiting
    <2>2. QED
      BY <2>1, DownloadAssumption DEF Active, Waiting, waitToInitiateSession
  <1>14. QED
    BY <1>2, <1>12, <1>13, IdleOutside DEF Turns!QueueUp, CallQueue, CallsOf

LEMMA EnterWalksIn ==
    ASSUME Inv, NEW r \in Calls, state[r] = "idle", Enter(r),
           UNCHANGED <<waitingSessions, waitingSessionsQueue, timers>>
    PROVE  Turns!WalkIn(r)
  <1>1. Active' = Active \cup {r}
    BY DEF Active, Enter, Inv, TypeOK
  <1>2. QED
    BY <1>1, IdleOutside DEF Turns!WalkIn

LEMMA TimeoutGivesUp ==
    ASSUME Inv, NEW r \in Calls, WaitTimeout(r)
    PROVE  Turns!GiveUp(r)
  <1> DEFINE u == UserOf[r]
             rest == RemoveFirst(waitingSessionsQueue, u)
  <1>1. u \in Users /\ r \in Waiting /\ waitingSessions[u] = r
    BY DownloadAssumption DEF Inv, TimersMatchWaiting, QueueMatchesWaiting, WaitTimeout
  <1>2. rest \in Seq(Users) /\ u \notin ToSet(rest) /\ Turns!QueueWithout(u) = CallsOf(rest, waitingSessions)
    BY <1>1, QueueWithoutUser
  <1>3. waitingSessionsQueue' = rest /\ waitingSessions' = [waitingSessions EXCEPT ![u] = NoCall]
    BY DEF WaitTimeout
  <1> HIDE DEF rest
  <1>4. \A i \in DOMAIN rest : waitingSessions'[rest[i]] = waitingSessions[rest[i]]
    <2>1. \A i \in DOMAIN rest : rest[i] \in Users /\ rest[i] # u
      BY <1>2, LenProperties, ElementOfSeq DEF ToSet
    <2>2. QED
      BY <1>3, <2>1 DEF Inv, TypeOK
  <1>5. CallQueue' = CallsOf(rest, waitingSessions)
    BY <1>3, <1>4 DEF CallQueue, CallsOf
  <1>6. \E i \in DOMAIN CallQueue : CallQueue[i] = r
    <2>1. u \in ToSet(waitingSessionsQueue)
      BY <1>1 DEF Inv, QueueMatchesWaiting
    <2>2. PICK i \in DOMAIN waitingSessionsQueue : waitingSessionsQueue[i] = u
      BY <2>1 DEF ToSet
    <2>3. QED
      BY <1>1, <2>2 DEF CallQueue, CallsOf
  <1>7. Active' = Active
    BY <1>1 DEF Active, Waiting, WaitTimeout
  <1>8. QED
    BY <1>2, <1>5, <1>6, <1>7 DEF Turns!GiveUp, CallQueue, CallsOf

LEMMA EndLeaves ==
    ASSUME Inv, NEW r \in Calls, endSession(r)
    PROVE  Turns!Leave(r)
  <1>1. r \in Active
    BY DEF Active, endSession
  <1>2. CASE waitingSessionsQueue = <<>>
    <2>1. Active' = Active \ {r} /\ CallQueue' = CallQueue
      BY <1>2 DEF Active, endSession, Admitted, AdmitNext, CallQueue, CallsOf
    <2>2. CallQueue = <<>>
      BY <1>2 DEF CallQueue, CallsOf
    <2>3. QED
      BY <1>1, <2>1, <2>2 DEF Turns!Leave, CallQueue, CallsOf
  <1>3. CASE waitingSessionsQueue # <<>>
    <2> DEFINE u == Head(waitingSessionsQueue)
               a == waitingSessions[u]
               n == Len(waitingSessionsQueue)
    <2>1. u \in Users /\ a \in Waiting /\ a \in Calls /\ a # r
      BY <1>3, HeadWaits DEF Waiting, endSession
    <2>2. Distinct(waitingSessionsQueue) /\ waitingSessionsQueue \in Seq(Users)
      BY DEF Inv, TypeOK, QueueMatchesWaiting, Distinct
    <2>3. /\ n \in Nat \ {0} /\ u = waitingSessionsQueue[1]
          /\ DOMAIN Tail(waitingSessionsQueue) = 1..(n - 1)
          /\ \A i \in 1..(n - 1) : Tail(waitingSessionsQueue)[i] = waitingSessionsQueue[i + 1]
      BY <1>3, <2>2, HeadTailProperties, EmptySeq, LenProperties
    <2>4. \A i \in 1..(n - 1) : waitingSessionsQueue[i + 1] # u /\ waitingSessionsQueue[i + 1] \in Users
      BY <2>2, <2>3, LenProperties, ElementOfSeq DEF Distinct
    <2>5. CallQueue # <<>> /\ Head(CallQueue) = a
      BY <2>3, CallQueueMatches
    <2>6. /\ DOMAIN Tail(CallQueue) = 1..(n - 1)
          /\ \A i \in 1..(n - 1) : Tail(CallQueue)[i] = waitingSessions[waitingSessionsQueue[i + 1]]
          /\ Tail(CallQueue) \in Seq(Calls)
      <3>1. Len(CallQueue) = n /\ CallQueue \in Seq(Calls)
        BY CallQueueMatches
      <3>2. /\ Tail(CallQueue) \in Seq(Calls) /\ Len(Tail(CallQueue)) = n - 1
            /\ \A i \in 1..(n - 1) : Tail(CallQueue)[i] = CallQueue[i + 1]
        BY <2>5, <3>1, HeadTailProperties
      <3>3. \A i \in 1..(n - 1) : i + 1 \in 1..n
        BY <2>3
      <3>4. QED
        BY <3>2, <3>3, CallQueueMatches, LenProperties
    <2> HIDE DEF u, n
    <2>7. /\ waitingSessionsQueue' = Tail(waitingSessionsQueue)
          /\ waitingSessions' = [waitingSessions EXCEPT ![u] = NoCall]
          /\ state' = [q \in Calls |-> IF q = r THEN "idle" ELSE IF q = a THEN "admitted" ELSE state[q]]
      BY <1>3 DEF endSession, Admitted, AdmitNext, u
    <2>8. CallQueue' = [i \in 1..(n - 1) |-> waitingSessions[waitingSessionsQueue[i + 1]]]
      <3>1. CallQueue' = [i \in 1..(n - 1) |-> waitingSessions'[waitingSessionsQueue[i + 1]]]
        BY <2>3, <2>7 DEF CallQueue, CallsOf
      <3>2. \A i \in 1..(n - 1) :
                waitingSessions'[waitingSessionsQueue[i + 1]] = waitingSessions[waitingSessionsQueue[i + 1]]
        BY <2>4, <2>7 DEF Inv, TypeOK
      <3>3. QED
        BY <3>1, <3>2
    <2>9. CallQueue' = Tail(CallQueue)
      <3>1. Tail(CallQueue) = [i \in 1..(n - 1) |-> Tail(CallQueue)[i]]
        BY <2>6, LenProperties
      <3>2. QED
        BY <2>6, <2>8, <3>1
    <2>10. Active' = (Active \ {r}) \cup {a}
      BY <2>1, <2>7 DEF Active, Waiting
    <2>11. QED
      BY <1>1, <2>5, <2>9, <2>10 DEF Turns!Leave, CallQueue, CallsOf
  <1>4. QED
    BY <1>2, <1>3

LEMMA StepTakesTurns == Inv /\ [Next]_vars => [Turns!Next]_(Turns!vars)
  <1> SUFFICES ASSUME Inv, [Next]_vars PROVE [Turns!Next]_(Turns!vars)
    OBVIOUS
  <1>1. ASSUME NEW r \in Calls, startSession(r) PROVE Turns!Next
    BY <1>1, WaitQueuesUp, EnterWalksIn DEF startSession, Turns!Next
  <1>2. ASSUME NEW r \in Calls, Continue(r) PROVE UNCHANGED Turns!vars
    <2>1. Active' = Active
      BY <1>2 DEF Active, Continue, Enter, Inv, TypeOK
    <2>2. QED
      BY <1>2, <2>1 DEF Continue, Turns!vars
  <1>3. ASSUME NEW r \in Calls, WaitTimeout(r) PROVE Turns!Next
    BY <1>3, TimeoutGivesUp DEF Turns!Next
  <1>4. ASSUME NEW r \in Calls, endSession(r) PROVE Turns!Next
    BY <1>4, EndLeaves DEF Turns!Next
  <1>5. CASE UNCHANGED vars
    BY <1>5 DEF vars, Active, Turns!vars
  <1>6. QED
    BY <1>1, <1>2, <1>3, <1>4, <1>5 DEF Next

\* The throttle implements DownloadTurns: its records per user, its timers and the
\* admission in two steps never show.
THEOREM Refinement == Spec => Turns!Spec
  <1>1. Init => Turns!Init
    BY DEF Init, Turns!Init, Active
  <1>2. QED
    BY <1>1, InvInit, InvStep, StepTakesTurns, PTL DEF Spec, Turns!Spec
=============================================================================
