------------------------------ MODULE MCAccount ------------------------------
(* Model-checking instances of CurrentUser and ProfileFollow. *)
EXTENDS ProfileFollow

CONSTANTS ann, bob  \* accounts

Nobody == [start |-> "nobody", patient |-> TRUE, names |-> {"same"},
           entries |-> 0, logouts |-> 0, edits |-> 0, follows |-> 0,
           profiles |-> 0, faults |-> 0, kills |-> 0]
Ann == [Nobody EXCEPT !.start = ann]
AnyName == {"same", "free", "taken"}

\* Patient people: one who comes and goes and edits, with a fault and a kill, one
\* who edits with names that may be taken, one who follows and edits while all
\* goes well, one for whom it does not, one who goes back and forth between
\* profiles of the same user, and one whose logout may be cut in two.
Patient == {[Nobody EXCEPT !.names = AnyName, !.entries = 2, !.logouts = 1,
                           !.edits = 2, !.faults = 1, !.kills = 1],
            [Ann EXCEPT !.names = AnyName, !.entries = 1, !.logouts = 1, !.edits = 3],
            [Ann EXCEPT !.names = {"same", "free"}, !.profiles = 2,
                        !.follows = 3, !.edits = 2, !.kills = 1],
            [Ann EXCEPT !.names = {"free", "taken"}, !.profiles = 1,
                        !.follows = 2, !.edits = 2, !.faults = 1],
            [Ann EXCEPT !.profiles = 3, !.follows = 3],
            [Ann EXCEPT !.logouts = 1, !.edits = 1, !.profiles = 2, !.follows = 1,
                        !.kills = 1]}

\* Hasty ones: a user who edits and logs out, with a kill; logins of which some
\* are of the same account; follow taps while edits are being saved or faults
\* happen; profiles opened again and gone back to; and a second login answered
\* after that.
Hasty == {[Ann EXCEPT !.entries = 2, !.logouts = 1, !.edits = 2, !.kills = 1],
          [Nobody EXCEPT !.entries = 3, !.logouts = 1, !.edits = 1],
          [Ann EXCEPT !.profiles = 1, !.follows = 3, !.edits = 1],
          [Ann EXCEPT !.profiles = 1, !.follows = 2, !.faults = 1, !.kills = 1],
          [Ann EXCEPT !.profiles = 3, !.follows = 2],
          [Nobody EXCEPT !.entries = 2, !.profiles = 1, !.follows = 2]}

Everybody == Patient \cup {[s EXCEPT !.patient = FALSE] : s \in Hasty}

EditsAndLogsOut == {[Ann EXCEPT !.patient = FALSE, !.logouts = 1, !.edits = 1]}
=============================================================================
