-------------------------- MODULE MCDetailComments --------------------------
(* Model-checking instances of DetailComments. *)
EXTENDS DetailComments

CONSTANTS s1, s2  \* visits; the second is the author's

\* A fan and the author, both patient; hasty visits, one with many comments and
\* one with a fault; and one to a post without critiques.
Visits == {[screens |-> {s1, s2}, patient |-> TRUE, crit |-> TRUE,
            posts |-> 2, fetches |-> 1, faults |-> 1],
           [screens |-> {s1}, patient |-> FALSE, crit |-> TRUE,
            posts |-> 3, fetches |-> 0, faults |-> 0],
           [screens |-> {s1}, patient |-> FALSE, crit |-> TRUE,
            posts |-> 2, fetches |-> 0, faults |-> 1],
           [screens |-> {s2}, patient |-> FALSE, crit |-> FALSE,
            posts |-> 2, fetches |-> 1, faults |-> 1]}

NoCritiques == {[screens |-> {s1}, patient |-> TRUE, crit |-> FALSE,
                 posts |-> 2, fetches |-> 1, faults |-> 0]}
=============================================================================
