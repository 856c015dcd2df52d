--------------------------- MODULE MCDataDownload ---------------------------
(* Small instances of DataDownload: two calls of each user. *)
EXTENDS DataDownload, TLC

CONSTANTS u1, u2, u3, r1, r2, r3, r4, r5, r6

SixCalls == (r1 :> u1) @@ (r2 :> u1) @@ (r3 :> u2) @@ (r4 :> u3) @@ (r5 :> u3) @@ (r6 :> u2)
=============================================================================
