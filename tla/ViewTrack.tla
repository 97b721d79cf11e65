------------------------------ MODULE ViewTrack ------------------------------
(***************************************************************************)
(* The view counter of one post, numViews, and its history, viewTrack: the *)
(* number of views in each hour since the post was created.  Opening a     *)
(* detail screen reads both from the server, changes them in the screen's  *)
(* copy (Post viewed:) and saves the copy, so a save writes absolute       *)
(* values over whatever other devices have written meanwhile.  The         *)
(* insights screen (GraphViewController) draws the copy's viewTrack.       *)
(***************************************************************************)
EXTENDS Integers, Sequences, Functions

CONSTANTS
    Screens,   \* visits to the post, each on a device of its own
    Ahead,     \* [Screens -> 0..MaxAhead]: hours the device's clock is ahead
    MaxAhead,  \* the most that any of the clocks is ahead
    W,         \* length of the history: 730 hours, a month
    MaxAge,    \* bound: age of the post in hours
    MaxFaults  \* bound: saves that fail

ASSUME AheadType == MaxAhead \in Nat /\ Ahead \in [Screens -> 0..MaxAhead]
ASSUME WindowType == W \in Nat \ {0, 1}
ASSUME BoundsType == MaxAge \in Nat /\ MaxFaults \in Nat

VARIABLES
    age,      \* hours since the post was created
    row,      \* the server's [numViews, viewTrack]
    copy,     \* per screen: the same two fields of self.obj
    phase,    \* per screen: "unopened", "saving", "unsaved" or "saved"
    openedAt, \* history, per screen: the hour of the visit, by its device
    viewsAt,  \* history: views made in each hour, by the devices' clocks
    late,     \* history: has a view been made in hour W - 1 or later
    faults    \* counter for the bound

historyVars == <<openedAt, viewsAt, late>>
vars == <<age, row, copy, phase, historyVars, faults>>

Views == [numViews : Nat, viewTrack : Seq(Nat)]
Total(track) == FoldFunction(+, 0, track)
Zeros(n) == [i \in 1..n |-> 0]

-----------------------------------------------------------------------------
\* The hour of the post's life, as the screen's device counts it.
Hours(s) == age + Ahead[s]

\* The array viewed: starts from.
Started(track) == IF track = <<>> THEN <<0>> ELSE track

\* Deviations: one zero too few, and zeros before the history.
PaddedShort(track, hours) ==
    IF hours > Len(track) - 1 THEN track \o Zeros(hours - Len(track)) ELSE track
PaddedInFront(track, hours) ==
    IF hours > Len(track) - 1 THEN Zeros(hours - Len(track) + 2) \o track ELSE track

\* Zeros for the hours since the last view; the loop appends one more than
\* the index needs.
Padded(track, hours) ==
    IF hours > Len(track) - 1 THEN track \o Zeros(hours - Len(track) + 2) ELSE track

\* Deviation: the history grows for ever.
Untrimmed(track) == track

\* Only the last W entries are kept.
Trimmed(track) ==
    IF Len(track) > W THEN SubSeq(track, Len(track) - W + 1, Len(track)) ELSE track

\* Post viewed:
Viewed(post, hours) ==
    [numViews |-> post.numViews + 1,
     viewTrack |-> Trimmed([Padded(Started(post.viewTrack), hours)
                               EXCEPT ![hours + 1] = @ + 1])]

\* GraphViewController viewDidLoad: the chart is filled up to a month.
Chart(track) == IF Len(track) < W THEN Zeros(W - Len(track)) \o track ELSE track

\* Where the insights draw hour h of the post in the chart of views.
PlaceInViews(track, h) == Len(Chart(track)) - Len(track) + h + 1

\* The whole hours between a row created in hour h of the post and now, by the
\* device of the screen: rounded down (getPostData:), so that they depend on the
\* minutes of both, which leave either number possible.  In the hour that runs,
\* the row cannot be younger than the present.
HoursSince(s, h) == {Hours(s) - h} \cup (IF h < age THEN {Hours(s) - h - 1} ELSE {})

\* Where they may draw it now in the charts of likes, comments and engagements,
\* which count the rows of the month by the hours since then, turned around.
PlacesInLikes(s, h) == {W - k : k \in {j \in HoursSince(s, h) : j < W}}

\* Deviation: entries beyond the shorter history are left out.
MergedShort(old, new) ==
    [j \in 1..(IF old = <<>> THEN Len(new) ELSE Len(old)) |->
        (IF j \in DOMAIN old THEN old[j] ELSE 0) + (IF j \in DOMAIN new THEN new[j] ELSE 0)]

\* The profile's chart: the histories of several posts, hour by hour.
Merged(old, new) ==
    [j \in 1..(IF Len(old) < Len(new) THEN Len(new) ELSE Len(old)) |->
        (IF j \in DOMAIN old THEN old[j] ELSE 0) + (IF j \in DOMAIN new THEN new[j] ELSE 0)]

-----------------------------------------------------------------------------
Init ==
    /\ age = 0
    /\ row = [numViews |-> 0, viewTrack |-> <<>>]
    /\ copy = [s \in Screens |-> row]
    /\ phase = [s \in Screens |-> "unopened"]
    /\ openedAt = [s \in Screens |-> 0]
    /\ viewsAt = [h \in 0..(MaxAge + MaxAhead + 1) |-> 0]
    /\ late = FALSE
    /\ faults = 0

\* viewDidLoad: refreshUser fetches the post, Post viewed: changes the copy
\* and enqueues its save.
Open(s) ==
    /\ phase[s] = "unopened"
    /\ copy' = [copy EXCEPT ![s] = Viewed(row, Hours(s))]
    /\ phase' = [phase EXCEPT ![s] = "saving"]
    /\ openedAt' = [openedAt EXCEPT ![s] = Hours(s)]
    /\ viewsAt' = [viewsAt EXCEPT ![Hours(s)] = @ + 1]
    /\ late' = (late \/ Hours(s) >= W - 1)
    /\ UNCHANGED <<age, row, faults>>

\* Deviation: the save carries the counter alone.
CounterAlone(s) == [row EXCEPT !.numViews = copy[s].numViews]

\* Both fields travel in one operation set.
Saved(s) == copy[s]

\* The server executes the save.  An attempt whose reply is lost is repeated
\* with the same values, and one that was given up may be executed at any time,
\* after the saves of other devices too.
SaveDone(s) ==
    /\ phase[s] = "saving"
    /\ row' = Saved(s)
    /\ phase' = [phase EXCEPT ![s] = "saved"]
    /\ UNCHANGED <<age, copy, historyVars, faults>>

SaveExecuted(s) ==
    /\ phase[s] # "unopened" /\ faults < MaxFaults
    /\ faults' = faults + 1
    /\ row' = Saved(s)
    /\ UNCHANGED <<age, copy, phase, historyVars>>

\* The save is given up; its operations stay in the instance.
SaveFails(s) ==
    /\ phase[s] = "saving" /\ faults < MaxFaults
    /\ faults' = faults + 1
    /\ phase' = [phase EXCEPT ![s] = "unsaved"]
    /\ UNCHANGED <<age, row, copy, historyVars>>

\* ... and go out with the next save of the instance: a like or a comment.
SaveAgain(s) ==
    /\ phase[s] = "unsaved"
    /\ phase' = [phase EXCEPT ![s] = "saving"]
    /\ UNCHANGED <<age, row, copy, historyVars, faults>>

Hour ==
    /\ age < MaxAge
    /\ age' = age + 1
    /\ UNCHANGED <<row, copy, phase, historyVars, faults>>

Next ==
    \/ \E s \in Screens : \/ Open(s) \/ SaveDone(s) \/ SaveExecuted(s)
                          \/ SaveFails(s) \/ SaveAgain(s)
    \/ Hour

Spec == Init /\ [][Next]_vars

-----------------------------------------------------------------------------
AllCopies == {row} \cup {copy[s] : s \in Screens}

\* The variables; a history is never longer than the month it is kept for.
TypeOK ==
    /\ age \in 0..MaxAge
    /\ row \in Views
    /\ copy \in [Screens -> Views]
    /\ phase \in [Screens -> {"unopened", "saving", "unsaved", "saved"}]
    /\ openedAt \in [Screens -> Nat]
    /\ viewsAt \in [0..(MaxAge + MaxAhead + 1) -> Nat]
    /\ late \in BOOLEAN
    /\ faults \in 0..MaxFaults
    /\ \A p \in AllCopies : Len(p.viewTrack) <= W

\* viewed: writes tempViewArr[hours]: whatever devices have opened the post
\* before, in whatever hours, the padded array has that index.
HourIsAnIndex ==
    \A s \in Screens, p \in AllCopies :
        Hours(s) + 1 \in DOMAIN Padded(Started(p.viewTrack), Hours(s))

\* The two fields never part: for all the updates lost between devices that
\* save over each other, numViews is the sum of viewTrack, on the server and
\* in every copy, as long as no view came after the month; and a view is
\* never counted in viewTrack without being counted in numViews.  The chart
\* of two posts has the views of both, whichever history is longer.
ViewsAddUp ==
    \A p \in AllCopies :
        /\ Total(p.viewTrack) <= p.numViews
        /\ ~late => Total(p.viewTrack) = p.numViews
        /\ \A q \in AllCopies : Total(Merged(p.viewTrack, q.viewTrack)) =
                                    Total(p.viewTrack) + Total(q.viewTrack)

\* Nor does a view slip into another hour: an entry never counts more views
\* than were made in its hour (fewer, when an update was lost).
HoursTruthful ==
    ~late => \A p \in AllCopies : \A i \in DOMAIN p.viewTrack :
        p.viewTrack[i] <= viewsAt[i - 1]

\* The chart of views and that of likes can be read together.  The insights may
\* be opened at any time of a visit, and fetch the likes then, while the history is
\* the copy's, of `passed` hours ago: an hour is drawn in the chart of views up to
\* two places before its place in that of likes, one for the surplus zero and one
\* for the minutes, later by the hours passed, and earlier by the lead of
\* another device's clock, which has put entries after the present.
ChartsAgree ==
    \A s \in Screens : phase[s] # "unopened" /\ ~late =>
        LET track == copy[s].viewTrack
            passed == Hours(s) - openedAt[s]
        IN  \A h \in 0..age : h + 1 \in DOMAIN track =>
              \A place \in PlacesInLikes(s, h) :
                  place - PlaceInViews(track, h) \in (-passed)..(2 + MaxAhead - passed)
=============================================================================
