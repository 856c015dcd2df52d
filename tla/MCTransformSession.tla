------------------------- MODULE MCTransformSession -------------------------
(* Small instances of TransformSession: one session of two users, one of two *)
(* phones of the same user.                                                *)
EXTENDS TransformSession, TLC

CONSTANTS s1, s2, d1, d2, m1, m2, anna, bob, phone1, phone2

AnnasPhone  == <<anna, phone1>>
AnnasTablet == <<anna, phone2>>
BobsPhone   == <<bob, phone1>>

AllPhones == {AnnasPhone, AnnasTablet, BobsPhone}
Openers   == [s \in Sessions |-> AnnasPhone]
Invited   == [s \in Sessions |-> IF s = s1 THEN BobsPhone ELSE AnnasTablet]
=============================================================================
