----------------------------- MODULE MCHomeFeed -----------------------------
(* Model-checking instances of HomeFeed: the third post is by the current *)
(* user, and of the others the odd ones are by a followed user.           *)
EXTENDS HomeFeed

CONSTANTS me, u1, u2  \* users

MCFollowed == <<u1>>
MCAuthorOf == [p \in 1..MaxPosts |-> IF p = 3 THEN me
                                     ELSE IF p % 2 = 1 THEN u1 ELSE u2]
MCSuggestions == <<2, 1>>

\* A user who does not wait, without and with a failed query, and one who does.
Visitors == {[patient |-> FALSE, posts |-> 3, taps |-> 4, faults |-> 0],
             [patient |-> FALSE, posts |-> 3, taps |-> 3, faults |-> 1],
             [patient |-> TRUE, posts |-> 5, taps |-> 5, faults |-> 1]}

PatientUser == {[patient |-> TRUE, posts |-> 5, taps |-> 3, faults |-> 0]}
=============================================================================
