---------------------------- MODULE SuggestedFeed ----------------------------
(***************************************************************************)
(* The suggested feed of the home screen (HomeViewController): pages of    *)
(* posts ranked by views, loaded in advance by jobs on concurrent          *)
(* background queues.  The jobs and the main thread share suggestedCount,  *)
(* how far the feed has been asked for, and suggestedArray, the pages      *)
(* loaded so far, without a lock.                                          *)
(*                                                                         *)
(* A page is the run of ranks it was cut from.  That Suggested sorts it by *)
(* likeness to the user's own post changes only the order within the page. *)
(* What makeQuery does to the collection view after the first page has     *)
(* come belongs to the other two feeds, HomeFeed.                          *)
(***************************************************************************)
EXTENDS Integers, Sequences, Functions

CONSTANTS
    Incre,      \* posts per page: 15
    MaxPosts,   \* bound: other users' posts
    MaxAppears, \* bound: times the home screen appears
    MaxPulls,   \* bound: pulls to refresh, and changes of feed
    MaxFaults   \* bound: queries that fail

ASSUME IncreType == Incre \in Nat \ {0}
ASSUME MaxPostsType == MaxPosts \in Nat

Jobs == 1..(MaxPosts \div Incre)

VARIABLES
    posts,           \* how many posts other users have on the server
    maxLim, suggestedCount, isForYou, showHUD, didInitSuggested,
    suggestedArray,  \* the pages loaded, in the order they were added
    postArray,       \* the pages the collection view shows, on this feed
    jobs,            \* per load: where loadSuggested is, and its locals
    huds,            \* activity views that cover the screen
    refreshing,      \* is the refresh control spinning
    overlapped,      \* history: were two loads ever under way together
    appears, pulls, faults \* counters for the bounds

feedVars == <<isForYou, suggestedArray, postArray>>
hudVars == <<showHUD, huds>>
boundVars == <<appears, pulls, faults>>
vars == <<posts, maxLim, suggestedCount, didInitSuggested, feedVars, jobs,
          hudVars, refreshing, overlapped, boundVars>>

-----------------------------------------------------------------------------
Page == [location : 0..MaxPosts, length : 0..MaxPosts]
NoPage == [location |-> 0, length |-> 0]
NotStarted == [phase |-> "none", limit |-> 0, count |-> 0, page |-> NoPage,
               base |-> <<>>]

UnderWay == {j \in Jobs : jobs[j].phase \notin {"none", "over"}}
Smaller(a, b) == IF a < b THEN a ELSE b
RowsShown == FoldFunction(LAMBDA p, n : p.length + n, 0, postArray)

\* Deviation: the count may pass the maximum.
MayAlwaysLoad == suggestedCount + Incre <= MaxPosts

MayLoad == suggestedCount + Incre < maxLim

\* loadhud: the HUD only for a load asked for at the bottom of this feed.
Load(withHUD) ==
    /\ suggestedCount' = suggestedCount + Incre
    /\ jobs' = [jobs EXCEPT ![suggestedCount \div Incre].phase = "dispatched"]
    /\ huds' = IF isForYou /\ withHUD THEN huds + 1 ELSE huds
    /\ overlapped' = (overlapped \/ UnderWay # {})
NoLoad == UNCHANGED <<suggestedCount, jobs, huds, overlapped>>

Loadhud(withHUD) == IF MayLoad THEN Load(withHUD) ELSE NoLoad

-----------------------------------------------------------------------------
\* viewDidLoad: nothing is loaded before the screen has appeared.
Init ==
    /\ posts \in 0..MaxPosts
    /\ maxLim = 0 /\ suggestedCount = Incre
    /\ isForYou = FALSE /\ didInitSuggested = FALSE
    /\ suggestedArray = <<>> /\ postArray = <<>>
    /\ jobs = [j \in Jobs |-> NotStarted]
    /\ showHUD = FALSE /\ huds = 0
    /\ refreshing = FALSE /\ overlapped = FALSE
    /\ appears = 0 /\ pulls = 0 /\ faults = 0

\* viewDidAppear: getMax waits for the server, then loadhud; a failed query
\* counts no posts.
ViewDidAppear(limit) ==
    /\ appears < MaxAppears
    /\ appears' = appears + 1
    /\ maxLim' = limit
    /\ IF ~didInitSuggested /\ suggestedCount + Incre < limit
       THEN Load(showHUD) ELSE NoLoad
    /\ UNCHANGED <<posts, didInitSuggested, feedVars, showHUD, refreshing, pulls>>

Appear == ViewDidAppear(posts) /\ UNCHANGED faults
AppearOffline == /\ faults < MaxFaults
                 /\ faults' = faults + 1
                 /\ ViewDidAppear(0)

\* willDisplayCell, for a row with cells below it.
DisplayCell(row) ==
    /\ appears > 0
    /\ isForYou => row + 1 < RowsShown
    /\ didInitSuggested
    /\ row + Incre * (IF isForYou THEN 2 ELSE 1) >= suggestedCount
    /\ Loadhud(showHUD)
    /\ UNCHANGED <<posts, maxLim, didInitSuggested, feedVars, showHUD, refreshing,
                   boundVars>>

\* willDisplayCell for the last row of this feed: loadhud in advance and a
\* second time for the bottom.
DisplayLastCell ==
    /\ isForYou /\ RowsShown > 0
    /\ showHUD' = TRUE
    /\ LET inAdvance == didInitSuggested /\ RowsShown - 1 + Incre * 2 >= suggestedCount
           first == suggestedCount \div Incre
       IN  IF inAdvance /\ suggestedCount + Incre * 2 < maxLim
           THEN /\ suggestedCount' = suggestedCount + Incre * 2
                /\ jobs' = [jobs EXCEPT ![first].phase = "dispatched",
                                        ![first + 1].phase = "dispatched"]
                /\ huds' = huds + IF showHUD THEN 2 ELSE 1
                /\ overlapped' = TRUE
           ELSE Loadhud(showHUD \/ ~inAdvance)
    /\ UNCHANGED <<posts, maxLim, didInitSuggested, feedVars, refreshing, boundVars>>

\* changedFeedType; an activity view keeps touches from the control.  The
\* other feeds query at once, which stops the refresh control.
ChangedFeedType(suggested) ==
    /\ appears > 0 /\ huds = 0 /\ pulls < MaxPulls
    /\ suggested # isForYou
    /\ pulls' = pulls + 1
    /\ isForYou' = suggested
    /\ postArray' = IF suggested THEN suggestedArray ELSE <<>>
    /\ refreshing' = FALSE
    /\ UNCHANGED <<posts, maxLim, suggestedCount, didInitSuggested, suggestedArray,
                   jobs, hudVars, overlapped, appears, faults>>

\* Pull to refresh on this feed before its first page has come: makeQuery
\* leaves it to loadhud, if a page has been asked for, to stop the control.
Pull ==
    /\ isForYou /\ ~didInitSuggested
    /\ huds = 0 /\ pulls < MaxPulls
    /\ pulls' = pulls + 1
    /\ refreshing' = TRUE
    /\ IF suggestedCount > Incre THEN Loadhud(showHUD) ELSE NoLoad
    /\ UNCHANGED <<posts, maxLim, didInitSuggested, feedVars, showHUD, appears,
                   faults>>

\* didPost: the user's own new post is not in this feed, but the feed shown
\* is emptied and queried again.
DidPost ==
    /\ isForYou /\ ~didInitSuggested
    /\ huds = 0 /\ pulls < MaxPulls
    /\ pulls' = pulls + 1
    /\ postArray' = <<>>
    /\ IF suggestedCount > Incre THEN Loadhud(showHUD) ELSE NoLoad
    /\ UNCHANGED <<posts, maxLim, didInitSuggested, isForYou, suggestedArray, showHUD,
                   refreshing, appears, faults>>

\* Another user posts.
OthersPost ==
    /\ posts < MaxPosts
    /\ posts' = posts + 1
    /\ UNCHANGED <<maxLim, suggestedCount, didInitSuggested, feedVars, jobs, hudVars,
                   refreshing, overlapped, boundVars>>

-----------------------------------------------------------------------------
(***************************************************************************)
(* loadSuggested, on a background thread.  It reads suggestedCount three   *)
(* times, and the main thread may raise it in between.                     *)
(***************************************************************************)
jobFrame == <<posts, maxLim, suggestedCount, didInitSuggested, isForYou, postArray,
              hudVars, refreshing, overlapped, appears, pulls>>

ReadLimit(j) ==
    /\ jobs[j].phase = "dispatched"
    /\ jobs' = [jobs EXCEPT ![j].phase = "limited", ![j].limit = suggestedCount]
    /\ UNCHANGED <<jobFrame, suggestedArray, faults>>

\* Deviation: the page begins where it should end.
FromTheCount == suggestedCount

RangeLocation == suggestedCount - Incre

\* range.location is set just before the query is sent.
Find(j, found) ==
    /\ jobs[j].phase = "limited"
    /\ jobs' = [jobs EXCEPT ![j].phase = "found", ![j].count = found,
                            ![j].page.location = RangeLocation]
    /\ UNCHANGED <<jobFrame, suggestedArray>>

FindObjects(j) == Find(j, Smaller(jobs[j].limit, posts)) /\ UNCHANGED faults
FindFails(j) == faults < MaxFaults /\ faults' = faults + 1 /\ Find(j, 0)

\* Deviation: a page is always a full one.
FullLength(j) == Incre

Length(j) ==
    IF jobs[j].count < suggestedCount
    THEN jobs[j].count - jobs[j].page.location ELSE Incre

\* subarrayWithRange:, unless fewer posts were found than the range begins at.
CutPage(j) ==
    /\ jobs[j].phase = "found"
    /\ jobs' = IF jobs[j].count >= jobs[j].page.location
               THEN [jobs EXCEPT ![j].phase = "cut", ![j].page.length = Length(j)]
               ELSE [jobs EXCEPT ![j].phase = "loaded"]
    /\ UNCHANGED <<jobFrame, suggestedArray, faults>>

\* addObjectsFromArray: on an array other threads change too: of two calls
\* that overlap, one may be lost.
BeginAdd(j) ==
    /\ jobs[j].phase = "cut"
    /\ jobs' = [jobs EXCEPT ![j].phase = "adding", ![j].base = suggestedArray]
    /\ UNCHANGED <<jobFrame, suggestedArray, faults>>

EndAdd(j) ==
    /\ jobs[j].phase = "adding"
    /\ suggestedArray' = Append(jobs[j].base, jobs[j].page)
    /\ jobs' = [jobs EXCEPT ![j].phase = "loaded", ![j].base = <<>>]
    /\ UNCHANGED <<jobFrame, faults>>

\* Deviation: only a shown HUD is followed by the end of the refresh.
SpinsOn == refreshing /\ ~(isForYou /\ showHUD)

SpinsAfterLoad == refreshing /\ ~isForYou

\* completehud, on the main queue; if the HUD is to be shown, one is hidden.
Completehud(j) ==
    /\ jobs[j].phase = "loaded"
    /\ jobs' = [jobs EXCEPT ![j].phase = "over"]
    /\ postArray' = IF isForYou THEN suggestedArray ELSE postArray
    /\ refreshing' = SpinsAfterLoad
    /\ IF isForYou /\ showHUD
       THEN huds' = (IF huds > 0 THEN huds - 1 ELSE 0) /\ showHUD' = FALSE
       ELSE UNCHANGED hudVars
    /\ didInitSuggested' = TRUE
    /\ UNCHANGED <<posts, maxLim, suggestedCount, isForYou, suggestedArray,
                   overlapped, boundVars>>

-----------------------------------------------------------------------------
UserStep ==
    \/ Appear \/ AppearOffline \/ DisplayLastCell \/ Pull \/ DidPost \/ OthersPost
    \/ \E row \in 0..(MaxPosts - 1) : DisplayCell(row)
    \/ \E suggested \in BOOLEAN : ChangedFeedType(suggested)

JobStep(j) ==
    \/ ReadLimit(j) \/ FindObjects(j) \/ FindFails(j) \/ CutPage(j)
    \/ BeginAdd(j) \/ EndAdd(j) \/ Completehud(j)

Next == UserStep \/ \E j \in Jobs : JobStep(j)

Spec == Init /\ [][Next]_vars

\* The background queues run every job, and every query is answered.
FairSpec == Spec /\ \A j \in Jobs : WF_vars(JobStep(j))

-----------------------------------------------------------------------------
JobType == [phase : {"none", "dispatched", "limited", "found", "cut", "adding",
                     "loaded", "over"},
            limit : 0..MaxPosts, count : 0..MaxPosts, page : Page, base : Seq(Page)]

\* The variables; in particular the count is never asked beyond the posts
\* there are ("do not query for more beyond the limit").
TypeOK ==
    /\ posts \in 0..MaxPosts /\ maxLim \in 0..MaxPosts
    /\ suggestedCount = Incre \/ suggestedCount < posts
    /\ isForYou \in BOOLEAN /\ didInitSuggested \in BOOLEAN
    /\ suggestedArray \in Seq(Page) /\ postArray \in Seq(Page)
    /\ jobs \in [Jobs -> JobType]
    /\ showHUD \in BOOLEAN /\ huds \in Nat
    /\ refreshing \in BOOLEAN /\ overlapped \in BOOLEAN
    /\ appears \in Nat /\ pulls \in Nat /\ faults \in Nat

\* subarrayWithRange: never raises, although the three reads of
\* suggestedCount a range is made from may see three different values.
RangeInBounds ==
    \A j \in Jobs : jobs[j].phase = "cut" =>
        jobs[j].page.location + jobs[j].page.length <= jobs[j].count

\* As long as no load begins before the one before it is over, and no query
\* fails, the feed grows by full pages in the order of the ranking.
SerialPagesInOrder ==
    ~overlapped /\ faults = 0 =>
        \A i \in DOMAIN suggestedArray :
            suggestedArray[i] = [location |-> Incre * i, length |-> Incre]

\* The activity view covers the screen only while something is loading.
HUDOnlyWhileLoading == huds > 0 => UnderWay # {}

\* A refresh stops spinning once a page has been asked for: some load that
\* completes afterwards stops it, or the user leaves the feed.
RefreshEnds == (refreshing /\ suggestedCount > Incre) ~> ~refreshing
=============================================================================
