---------------------------- MODULE MCDetailLikes ----------------------------
(* Model-checking instances of DetailLikes. *)
EXTENDS DetailLikes, TLC

CONSTANTS artist, fan,          \* users
          s1, s2, s3            \* visits

\* The fan visits twice and the artist once.
MCUserOf == (s1 :> fan) @@ (s2 :> fan) @@ (s3 :> artist)

\* Patient users: both visits of the fan, one of each, and all three; then hasty
\* visits of the fan, with many taps or with a fault, and of the artist, with a
\* fault or with a refresh.
Visits == {[screens |-> {s1, s2}, patient |-> TRUE,
            taps |-> 2, refreshes |-> 1, faults |-> 0],
           [screens |-> {s1, s3}, patient |-> TRUE,
            taps |-> 2, refreshes |-> 1, faults |-> 0],
           [screens |-> Screens, patient |-> TRUE,
            taps |-> 1, refreshes |-> 0, faults |-> 0],
           [screens |-> {s1}, patient |-> FALSE,
            taps |-> 2, refreshes |-> 0, faults |-> 0],
           [screens |-> {s1}, patient |-> FALSE,
            taps |-> 1, refreshes |-> 0, faults |-> 1],
           [screens |-> {s3}, patient |-> FALSE,
            taps |-> 2, refreshes |-> 0, faults |-> 1],
           [screens |-> {s3}, patient |-> FALSE,
            taps |-> 1, refreshes |-> 1, faults |-> 0]}

HastyVisit == {[screens |-> {s1}, patient |-> FALSE,
                taps |-> 2, refreshes |-> 0, faults |-> 0]}
=============================================================================
