---------------------------- MODULE DownloadTurns ----------------------------
(***************************************************************************)
(* What the throttle of the user data downloads promises, without its      *)
(* bookkeeping per user: calls that are inside, and one queue of calls.    *)
(*                                                                         *)
(*   - a user has at most one call in the queue: a second one takes a new  *)
(*     place at the end and its predecessor is sent away;                  *)
(*   - whoever leaves lets the first of the queue in, and nobody else      *)
(*     does;                                                               *)
(*   - a call leaves the queue by that, by a call of the same user or by   *)
(*     its own patience, never by anything that happens to somebody else.  *)
(*                                                                         *)
(* A call that comes may walk in past the queue: there is no promise that  *)
(* it does not, and the code lets it (see DataDownload).                   *)
(***************************************************************************)
EXTENDS Naturals, Sequences, SequencesExt

CONSTANTS Calls, UserOf

VARIABLES inside, queue

vars == <<inside, queue>>

Init == inside = {} /\ queue = <<>>

\* The queue without the call of u: it has one at most.
QueueWithout(u) ==
    IF \E i \in DOMAIN queue : UserOf[queue[i]] = u
    THEN RemoveAt(queue, CHOOSE i \in DOMAIN queue : UserOf[queue[i]] = u)
    ELSE queue

Outside(r) == r \notin inside /\ \A i \in DOMAIN queue : queue[i] # r

WalkIn(r) ==
    /\ Outside(r)
    /\ inside' = inside \cup {r}
    /\ UNCHANGED queue

QueueUp(r) ==
    /\ Outside(r)
    /\ queue' = Append(QueueWithout(UserOf[r]), r)
    /\ UNCHANGED inside

GiveUp(r) ==
    /\ \E i \in DOMAIN queue : queue[i] = r
    /\ queue' = QueueWithout(UserOf[r])
    /\ UNCHANGED inside

Leave(r) ==
    /\ r \in inside
    /\ \/ /\ queue = <<>>
          /\ inside' = inside \ {r}
          /\ UNCHANGED queue
       \/ /\ queue # <<>>
          /\ inside' = (inside \ {r}) \cup {Head(queue)}
          /\ queue' = Tail(queue)

Next == \E r \in Calls : WalkIn(r) \/ QueueUp(r) \/ GiveUp(r) \/ Leave(r)

Spec == Init /\ [][Next]_vars

\* Nobody stays inside for ever, and nobody's patience lasts for ever.
FairSpec == Spec /\ \A r \in Calls : WF_vars(Leave(r)) /\ WF_vars(GiveUp(r))
=============================================================================
