-------------------------- MODULE TransformSession --------------------------
(***************************************************************************)
(* Sessions in which two users calibrate their phones against each other   *)
(* (modules/fingerprintTransform): user A opens a session, B is invited by *)
(* an event every two seconds and joins, both upload a dataset for each    *)
(* collection, and the complete pairs are turned into a transform.         *)
(*                                                                         *)
(* Three timers run beside the REST calls of a session: the interval of    *)
(* the invitations, the minute an invitation lasts and the half hour a     *)
(* session lasts.  All of it is in the memory of one process; init is the  *)
(* only call that awaits something, and until it is over nobody has been   *)
(* told the id of the session.  It takes less than half an hour.           *)
(***************************************************************************)
EXTENDS Sequences, SequencesExt

CONSTANTS Sessions,     \* bound: sessions that are created, each has its own uuid
          Collections,  \* bound: uuids of data collections
          Phones,       \* pairs of a user and a device
          PhoneA,       \* PhoneA[s]: who opened s
          PhoneB,       \* PhoneB[s]: who is invited
          Maps,         \* measurements that are uploaded
          Null

ASSUME TransformAssumption ==
    /\ PhoneA \in [Sessions -> Phones]
    /\ PhoneB \in [Sessions -> Phones]
    /\ Null \notin Maps \cup Collections

VARIABLES
    stage,          \* stage[s]: "open" when others can know s
    timers,         \* timers[s]: the timers of s that run
    invitePending,  \* invitePending[s]
    datasets,       \* datasets[s]: the collections of s, with the set of A and that of B
    emitted         \* the events of the last step

vars == <<stage, timers, invitePending, datasets, emitted>>

Timers == {"inviteInterval", "inviteTimeout", "cleanupTimeout"}
Sides  == {"setA", "setB"}

activeSessions == {s \in Sessions : stage[s] \in {"initialising", "open"}}

Started == UNION {DOMAIN datasets[s] : s \in Sessions}

Event(type, s, about) == [type |-> type, session |-> s, about |-> about]

Init ==
    /\ stage = [s \in Sessions |-> "new"]
    /\ timers = [s \in Sessions |-> {}]
    /\ invitePending = [s \in Sessions |-> FALSE]
    /\ datasets = [s \in Sessions |-> <<>>]
    /\ emitted = <<>>

-----------------------------------------------------------------------------
\* Mutant: the invitations of a session that is over go on.
ClearedExceptInterval(s) == [timers EXCEPT ![s] = @ \cap {"inviteInterval"}]

\* cleanup stops every timer.
Cleared(s) == [timers EXCEPT ![s] = {}]

\* The destructor takes the session out of activeSessions: nothing can reach it.
Dropped(s) ==
    /\ timers' = Cleared(s)
    /\ stage' = [stage EXCEPT ![s] = "over"]
    /\ invitePending' = [invitePending EXCEPT ![s] = FALSE]
    /\ datasets' = [datasets EXCEPT ![s] = <<>>]

cleanup(s) ==
    /\ Dropped(s)
    /\ emitted' = <<Event("sessionStopped", s, Null)>>

\* createNewSession up to the first await of init.
createNewSession(s) ==
    /\ stage[s] = "new"
    /\ stage' = [stage EXCEPT ![s] = "initialising"]
    /\ timers' = [timers EXCEPT ![s] = {"cleanupTimeout"}]
    /\ emitted' = <<>>
    /\ UNCHANGED <<invitePending, datasets>>

\* The users and the sphere have been found.
initDone(s) ==
    /\ stage[s] = "initialising"
    /\ stage' = [stage EXCEPT ![s] = "open"]
    /\ timers' = [timers EXCEPT ![s] = @ \cup {"inviteInterval", "inviteTimeout"}]
    /\ invitePending' = [invitePending EXCEPT ![s] = TRUE]
    /\ emitted' = <<>>
    /\ UNCHANGED datasets

\* One of them has not: cleanup drops the session and fails on the event, for which
\* it has no sphere.
initFails(s) ==
    /\ stage[s] = "initialising"
    /\ Dropped(s)
    /\ emitted' = <<>>

-----------------------------------------------------------------------------
InviteTick(s) ==
    /\ "inviteInterval" \in timers[s]
    /\ timers' = IF invitePending[s] THEN timers
                 ELSE [timers EXCEPT ![s] = @ \ {"inviteInterval", "inviteTimeout"}]
    /\ emitted' = <<Event("sessionRequested", s, Null)>>
    /\ UNCHANGED <<stage, invitePending, datasets>>

\* The invitation has lasted a minute: _stopInviting ends a session nobody joined.
InviteTimeout(s) ==
    /\ "inviteTimeout" \in timers[s]
    /\ IF invitePending[s] THEN cleanup(s)
       ELSE /\ timers' = [timers EXCEPT ![s] = @ \ {"inviteInterval", "inviteTimeout"}]
            /\ emitted' = <<>>
            /\ UNCHANGED <<stage, invitePending, datasets>>

CleanupTimeout(s) ==
    /\ stage[s] # "initialising"
    /\ "cleanupTimeout" \in timers[s]
    /\ cleanup(s)

-----------------------------------------------------------------------------
\* Mutant: _stopInviting runs before invitePending is reset, and ends the session.
JoinedTooLate(s) ==
    /\ Dropped(s)
    /\ emitted' = <<Event("sessionStopped", s, Null), Event("sessionReady", s, Null)>>

\* Mutant: joining stops the half hour as well.
JoinedForEver(s) ==
    /\ invitePending' = [invitePending EXCEPT ![s] = FALSE]
    /\ timers' = [timers EXCEPT ![s] = {}]
    /\ emitted' = <<Event("sessionReady", s, Null)>>
    /\ UNCHANGED <<stage, datasets>>

\* Once the invitation is no longer pending, _stopInviting only stops its timers.
Joined(s) ==
    /\ invitePending' = [invitePending EXCEPT ![s] = FALSE]
    /\ timers' = [timers EXCEPT ![s] = @ \ {"inviteInterval", "inviteTimeout"}]
    /\ emitted' = <<Event("sessionReady", s, Null)>>
    /\ UNCHANGED <<stage, datasets>>

\* Only the user is compared, not the device; joining again sends the event again.
joinSession(s, phone) ==
    /\ stage[s] = "open"
    /\ phone[1] = PhoneB[s][1]
    /\ Joined(s)

\* The session of an id that is not active is not an error.
killSession(s) ==
    /\ stage[s] \in {"open", "over"}
    /\ IF s \in activeSessions THEN cleanup(s)
       ELSE /\ emitted' = <<>>
            /\ UNCHANGED <<stage, timers, invitePending, datasets>>

startDatasetCollection(s, d) ==
    /\ stage[s] = "open" /\ d \notin Started
    /\ datasets' = [datasets EXCEPT ![s] =
            [e \in DOMAIN @ \cup {d} |->
                IF e = d THEN [side \in Sides |-> Null] ELSE datasets[s][e]]]
    /\ emitted' = <<Event("datacollectionStarted", s, d)>>
    /\ UNCHANGED <<stage, timers, invitePending>>

-----------------------------------------------------------------------------
Complete(sets) == \A side \in Sides : sets[side] # Null

\* Mutant: an upload replaces the one that is there.
MayStoreAgain(s, d, phone) ==
    {side \in Sides : phone = (IF side = "setA" THEN PhoneA[s] ELSE PhoneB[s])}

\* The branch an upload takes: a phone that is both stores its set as A's.  An upload
\* by any other phone stores nothing, and is not refused.
MayStore(s, d, phone) ==
    IF phone = PhoneA[s] THEN {side \in {"setA"} : datasets[s][d][side] = Null}
    ELSE IF phone = PhoneB[s] THEN {side \in {"setB"} : datasets[s][d][side] = Null}
    ELSE {}

Received(s, d, phone, map) ==
    [side \in Sides |-> IF side \in MayStore(s, d, phone) THEN map ELSE datasets[s][d][side]]

ReceivedEvents(s, d, phone, sets) ==
    IF Complete(sets) THEN <<Event("datacollectionFinished", s, d)>>
    ELSE IF MayStore(s, d, phone) # {} THEN <<Event("datacollectionReceived", s, d)>>
    ELSE <<>>

\* The second upload of a participant for a collection is an error.
finishedCollectingDataset(s, d, phone, map) ==
    /\ stage[s] = "open" /\ d \in DOMAIN datasets[s]
    /\ phone \in {PhoneA[s], PhoneB[s]} => MayStore(s, d, phone) # {}
    /\ LET sets == Received(s, d, phone, map)
       IN  /\ datasets' = [datasets EXCEPT ![s][d] = sets]
           /\ emitted' = ReceivedEvents(s, d, phone, sets)
    /\ UNCHANGED <<stage, timers, invitePending>>

\* Mutant: one set of a pair is enough.
UsedWhenStarted(s) == {d \in DOMAIN datasets[s] : \E side \in Sides : datasets[s][d][side] # Null}

\* The collections a transform is made from.
Used(s) == {d \in DOMAIN datasets[s] : Complete(datasets[s][d])}

Pairs(s, from, to) == {<<datasets[s][d][from], datasets[s][d][to]>> : d \in Used(s)}

\* In both directions; without a complete pair it is an error.
generateTransformSets(s) ==
    /\ stage[s] = "open" /\ Used(s) # {}
    /\ emitted' = <<Event("transformSetFinished", s,
                        [aToB |-> Pairs(s, "setA", "setB"), bToA |-> Pairs(s, "setB", "setA")])>>
    /\ UNCHANGED <<stage, timers, invitePending, datasets>>

-----------------------------------------------------------------------------
Next ==
    \E s \in Sessions :
        \/ createNewSession(s) \/ initDone(s) \/ initFails(s)
        \/ InviteTick(s) \/ InviteTimeout(s) \/ CleanupTimeout(s)
        \/ killSession(s) \/ generateTransformSets(s)
        \/ \E phone \in Phones : joinSession(s, phone)
        \/ \E d \in Collections : startDatasetCollection(s, d)
        \/ \E d \in Collections, phone \in Phones, map \in Maps :
               finishedCollectingDataset(s, d, phone, map)

Spec == Init /\ [][Next]_vars

\* init settles and the timers run; nobody has to call anything.
FairSpec ==
    Spec /\ \A s \in Sessions :
        WF_vars(initDone(s) \/ initFails(s)) /\ WF_vars(InviteTimeout(s)) /\ WF_vars(CleanupTimeout(s))

-----------------------------------------------------------------------------
(* Properties.                                                             *)

Emits(e) == e \in ToSet(emitted')

\* The apps of both users follow a session by its events.  Whoever ends it and however
\* late a timer or a call comes: every event is about a session that is active, the last
\* one says that it has stopped, and an open session does not end without it.
StoppedIsLast ==
    [][/\ \A i \in DOMAIN emitted' :
             /\ emitted'[i].session \in activeSessions
             /\ emitted'[i].type = "sessionStopped" => i = Len(emitted')
       /\ \A s \in Sessions :
             stage[s] = "open" /\ stage'[s] # "open" <=> Emits(Event("sessionStopped", s, Null))]_vars

\* Once B has joined, neither the minute of the invitation nor a further tick of it
\* ends the session: only a call or the half hour does.
JoinedSessionStays ==
    [][\A s \in Sessions :
         (/\ stage[s] = "open" /\ stage'[s] = "over"
          /\ ~invitePending[s] \/ Emits(Event("sessionReady", s, Null)))
            => killSession(s) \/ CleanupTimeout(s)]_vars

\* What a participant has delivered for a collection stays what it was, whoever
\* uploads again, and the quality that is reported with the Finished event is that of
\* two sets.
DeliveredStays ==
    [][\A s \in Sessions : stage'[s] = "open" =>
         \A d \in DOMAIN datasets[s] :
            /\ \A side \in Sides :
                 datasets[s][d][side] # Null => datasets'[s][d][side] = datasets[s][d][side]
            /\ Emits(Event("datacollectionFinished", s, d)) => Complete(datasets'[s][d])]_vars

\* A transform is made from pairs of sets the two phones measured for the same
\* collection, each set once as the source and once as the target.
TransformFromPairs ==
    \A i \in DOMAIN emitted : emitted[i].type = "transformSetFinished" =>
        LET about == emitted[i].about
        IN  /\ about.aToB # {}
            /\ about.aToB \subseteq Maps \X Maps
            /\ about.bToA = {<<p[2], p[1]>> : p \in about.aToB}

\* Every session ends, also when nobody joins, finalises or kills it: activeSessions
\* does not fill up.
SessionsEnd == \A s \in Sessions : s \in activeSessions ~> s \notin activeSessions
=============================================================================
