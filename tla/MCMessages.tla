------------------------------ MODULE MCMessages ------------------------------
(* A small instance of Messages: an admin and a member of a sphere, somebody  *)
(* outside of it, and a message that the member has sent and marked as        *)
(* deleted.                                                                   *)
EXTENDS Messages, TLC

CONSTANTS c1, c2, c3

Roles == [ann |-> "admin", bob |-> "member", out |-> "none"]

\* The last list fails after its first recipient.
Given == { << >>, <<"ann">>, <<"bob", "out">> }

Symmetric == Permutations(Calls)
=============================================================================
