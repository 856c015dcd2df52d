---------------------------- MODULE DataDownload ----------------------------
(***************************************************************************)
(* UserDataDownloadThrottle (modules/dataManagement/DataDownloader.ts): how *)
(* many downloads of user data run at the same time, and who waits.        *)
(*                                                                         *)
(* A call of /user/allUserData enters startSession, may wait there for a   *)
(* promise, runs, and leaves through endSession in the finally of          *)
(* download.  The steps of different calls interleave at every await: in   *)
(* particular, a call whose promise has been resolved continues in a later *)
(* microtask, not inside the endSession that resolved it.                  *)
(*                                                                         *)
(* Sessions and the queue are kept per user, not per call.  The times in   *)
(* userIds are left out: only allowUserSession reads them, and its one use *)
(* is commented out in the controller.                                     *)
(***************************************************************************)
EXTENDS Naturals, Sequences, FiniteSets, SequencesExt

CONSTANTS Calls,          \* requests that can be in flight at the same time
          Users,
          UserOf,         \* the user who makes each call
          SESSION_LIMIT,
          NoCall

ASSUME DownloadAssumption ==
    /\ IsFiniteSet(Calls)
    /\ UserOf \in [Calls -> Users]
    /\ SESSION_LIMIT \in Nat
    /\ NoCall \notin Calls

VARIABLES
    state,                \* where each call is
    sessions,             \* the users in the sessions record
    waitingSessions,      \* waitingSessions[u]: the call whose promise u waits for
    waitingSessionsQueue, \* users, in the order of their turn
    timers                \* calls whose 15 second timer is running

vars == <<state, sessions, waitingSessions, waitingSessionsQueue, timers>>

\* A waiting call that is resolved is admitted until it runs again.
CallStates == {"idle", "waiting", "admitted", "running"}

Init ==
    /\ state = [r \in Calls |-> "idle"]
    /\ sessions = {}
    /\ waitingSessions = [u \in Users |-> NoCall]
    /\ waitingSessionsQueue = <<>>
    /\ timers = {}

-----------------------------------------------------------------------------
\* Mutant: the session is registered under the call, not under the user.
EnterCounted(r) ==
    /\ sessions' = sessions \cup {r}
    /\ state' = [state EXCEPT ![r] = "running"]

\* The lines after the await of startSession: the download runs.
Enter(r) ==
    /\ sessions' = sessions \cup {UserOf[r]}
    /\ state' = [state EXCEPT ![r] = "running"]

\* Mutant: a user who is already waiting does not lose the first place.
WaitAgain(r) ==
    LET u == UserOf[r]
    IN  /\ state' = [q \in Calls |-> IF q = r THEN "waiting"
                                     ELSE IF q = waitingSessions[u] THEN "idle"
                                     ELSE state[q]]
        /\ timers' = (timers \ {waitingSessions[u]}) \cup {r}
        /\ waitingSessionsQueue' = Append(waitingSessionsQueue, u)
        /\ waitingSessions' = [waitingSessions EXCEPT ![u] = r]

\* waitToInitiateSession: a call of the same user that is waiting is rejected with
\* ALREADY_IN_QUEUE and the new one takes a place at the end.
waitToInitiateSession(r) ==
    LET u == UserOf[r]
    IN  /\ state' = [q \in Calls |-> IF q = r THEN "waiting"
                                     ELSE IF q = waitingSessions[u] THEN "idle"
                                     ELSE state[q]]
        /\ timers' = (timers \ {waitingSessions[u]}) \cup {r}
        /\ waitingSessionsQueue' = Append(RemoveFirst(waitingSessionsQueue, u), u)
        /\ waitingSessions' = [waitingSessions EXCEPT ![u] = r]

startSession(r) ==
    /\ state[r] = "idle"
    /\ \/ /\ Cardinality(sessions) > SESSION_LIMIT
          /\ waitToInitiateSession(r)
          /\ UNCHANGED sessions
       \/ /\ Cardinality(sessions) <= SESSION_LIMIT
          /\ Enter(r)
          /\ UNCHANGED <<waitingSessions, waitingSessionsQueue, timers>>

\* A resolved call continues.
Continue(r) ==
    /\ state[r] = "admitted"
    /\ Enter(r)
    /\ UNCHANGED <<waitingSessions, waitingSessionsQueue, timers>>

\* The timer of r fires: cleanup("REQUEST_WAIT_TIMEOUT") rejects the promise that
\* is registered for the user.
WaitTimeout(r) ==
    LET u == UserOf[r]
    IN  /\ r \in timers
        /\ state' = [q \in Calls |-> IF q = waitingSessions[u] THEN "idle" ELSE state[q]]
        /\ timers' = timers \ {r, waitingSessions[u]}
        /\ waitingSessionsQueue' = RemoveFirst(waitingSessionsQueue, u)
        /\ waitingSessions' = [waitingSessions EXCEPT ![u] = NoCall]
        /\ UNCHANGED sessions

\* Mutant: endSession leaves the queue alone, everybody waits for the timeout.
AdmitNobody ==
    UNCHANGED <<waitingSessions, waitingSessionsQueue, timers>>

\* Mutant: the timer of the next user keeps running.
AdmitWithTimer ==
    LET u == Head(waitingSessionsQueue)
    IN  IF waitingSessionsQueue = <<>>
        THEN UNCHANGED <<waitingSessions, waitingSessionsQueue, timers>>
        ELSE /\ waitingSessionsQueue' = Tail(waitingSessionsQueue)
             /\ waitingSessions' = [waitingSessions EXCEPT ![u] = NoCall]
             /\ UNCHANGED timers

\* Mutant: the turn of the next user is over before the timer is stopped, and
\* the promise is never resolved.
AdmittedUnresolved(r) == [state EXCEPT ![r] = "idle"]

\* The states after endSession of r: the first in the queue is resolved.
Admitted(r) ==
    [q \in Calls |->
        IF q = r THEN "idle"
        ELSE IF /\ waitingSessionsQueue # <<>>
                /\ q = waitingSessions[Head(waitingSessionsQueue)]
        THEN "admitted"
        ELSE state[q]]

\* The next user leaves the queue, with the registered promise and its timer.
AdmitNext ==
    LET u == Head(waitingSessionsQueue)
    IN  IF waitingSessionsQueue = <<>>
        THEN UNCHANGED <<waitingSessions, waitingSessionsQueue, timers>>
        ELSE /\ waitingSessionsQueue' = Tail(waitingSessionsQueue)
             /\ waitingSessions' = [waitingSessions EXCEPT ![u] = NoCall]
             /\ timers' = timers \ {waitingSessions[u]}

\* endSession, in the finally of download: whether the download was sent or not.
endSession(r) ==
    /\ state[r] = "running"
    /\ sessions' = sessions \ {UserOf[r]}
    /\ state' = Admitted(r)
    /\ AdmitNext

-----------------------------------------------------------------------------
Next ==
    \E r \in Calls : startSession(r) \/ Continue(r) \/ WaitTimeout(r) \/ endSession(r)

Spec == Init /\ [][Next]_vars

\* Microtasks and timers run, and a download ends: by its last query or by a
\* query that throws.  Nobody has to call.
FairSpec ==
    Spec /\ \A r \in Calls : WF_vars(Continue(r)) /\ WF_vars(endSession(r)) /\ WF_vars(WaitTimeout(r))

-----------------------------------------------------------------------------
(* Properties.                                                             *)

TypeOK ==
    /\ state \in [Calls -> CallStates]
    /\ sessions \in SUBSET Users
    /\ waitingSessions \in [Users -> Calls \cup {NoCall}]
    /\ waitingSessionsQueue \in Seq(Users)
    /\ timers \in SUBSET Calls

Waiting == {r \in Calls : state[r] = "waiting"}
Active  == {r \in Calls : state[r] \in {"admitted", "running"}}

\* The queue, the registered promises and the waiting calls are the same users, each
\* once: otherwise the shift in endSession finds no promise to resolve, and throws in
\* the finally of somebody else's download.
QueueMatchesWaiting ==
    /\ \A r \in Waiting : waitingSessions[UserOf[r]] = r
    /\ \A u \in Users : waitingSessions[u] # NoCall =>
            waitingSessions[u] \in Waiting /\ UserOf[waitingSessions[u]] = u
    /\ ToSet(waitingSessionsQueue) = {UserOf[r] : r \in Waiting}
    /\ \A i, j \in DOMAIN waitingSessionsQueue :
            waitingSessionsQueue[i] = waitingSessionsQueue[j] => i = j

\* A timer that fires finds the promise it was made for: otherwise cleanup rejects
\* a later call of the user, or throws out of a timer and takes the process down.
TimersMatchWaiting == timers = Waiting

\* No place stays empty while somebody waits for it: whoever leaves lets one in.
NoIdlePlace ==
    waitingSessionsQueue # <<>> => Cardinality(Active) > SESSION_LIMIT

\* The records per user, the admission in two steps and the timers keep the promise of
\* DownloadTurns: the queue is that of the registered calls, and an admitted call is in.
Turns == INSTANCE DownloadTurns WITH
    inside <- Active,
    queue  <- [i \in DOMAIN waitingSessionsQueue |-> waitingSessions[waitingSessionsQueue[i]]]

\* Whoever leaves admits the one who has waited longest, and every call is answered, with
\* the data or with an error, whatever the other calls of its user and of others do.
TakesTurns == Turns!FairSpec
=============================================================================
