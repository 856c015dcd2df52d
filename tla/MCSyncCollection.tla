-------------------------- MODULE MCSyncCollection --------------------------
(* Small instances of SyncCollection for TLC.                               *)
EXTENDS SyncCollection, TLC

CONSTANTS c1, c2, i1, i2, k1

Admins == [c \in Clients |-> "admin"]

\* Where two clients make the same kind of thing, the collection starts empty, and an
\* answer may be lost or the server restart.
OfAKind == {"abilities", "readBy"}

Start(g) == IF g \in OfAKind THEN {} ELSE {i1}

StartEmpty == [g \in Collections |-> {}]
StartSmall == [g \in Collections |-> Start(g)]
Nobody     == [g \in Collections |-> {}]
LosesRole  == [g \in Collections |-> IF g = "hubs" THEN {c2} ELSE {}]
Reliable   == [g \in Collections |-> 0]
OneFault   == [g \in Collections |-> 1]
KindsFail  == [g \in Collections |-> IF g \in OfAKind THEN 1 ELSE 0]
=============================================================================
