---------------------------- MODULE MCViewTrack ----------------------------
(* Model-checking instance of ViewTrack: one device's clock is fast. *)
EXTENDS ViewTrack

CONSTANTS s1, s2, s3  \* visits

MCAhead == [s \in Screens |-> IF s = s1 THEN 2 ELSE 0]
=============================================================================
