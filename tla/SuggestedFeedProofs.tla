------------------------- MODULE SuggestedFeedProofs -------------------------
(***************************************************************************)
(* Proofs about SuggestedFeed, for pages of any size, any number of posts  *)
(* and any interleaving of loads.                                          *)
(*                                                                         *)
(* A range is in bounds because suggestedCount only grows: whichever of    *)
(* its values a job has begun its range from, the length is the rest of    *)
(* what was found, or a page that the present count still covers.          *)
(***************************************************************************)
EXTENDS SuggestedFeed, TLAPS

Phases == {"none", "dispatched", "limited", "found", "cut", "adding", "loaded", "over"}

\* The part of the state the ranges depend on.
CountOK ==
    /\ posts \in 0..MaxPosts /\ maxLim \in 0..MaxPosts /\ maxLim <= posts
    /\ suggestedCount \in Nat /\ Incre <= suggestedCount
    /\ suggestedCount = Incre \/ suggestedCount < posts

\* A job exists only if a page has been asked for.
JobsAskedFor ==
    \A j \in Jobs : jobs[j].phase # "none" => suggestedCount < posts

RangesCovered ==
    \A j \in Jobs : jobs[j].phase \in {"found", "cut"} =>
        jobs[j].page.location + Incre <= suggestedCount

IInv == TypeOK /\ CountOK /\ JobsAskedFor /\ RangesCovered /\ RangeInBounds

LEMMA JobsAreRecords ==
    ASSUME TypeOK, NEW j \in Jobs
    PROVE  /\ jobs[j].phase \in Phases
           /\ jobs[j].limit \in 0..MaxPosts /\ jobs[j].count \in 0..MaxPosts
           /\ jobs[j].page \in Page /\ jobs[j].base \in Seq(Page)
           /\ jobs[j].page.location \in 0..MaxPosts
           /\ jobs[j].page.length \in 0..MaxPosts
BY DEF TypeOK, JobType, Page, Phases

LEMMA IInvInit == Init => IInv
<1> SUFFICES ASSUME Init PROVE IInv
  OBVIOUS
<1>1. jobs \in [Jobs -> JobType] /\ \A j \in Jobs : jobs[j].phase = "none"
  BY MaxPostsType DEF Init, NotStarted, NoPage, JobType, Page
<1>2. CountOK
  BY IncreType, MaxPostsType DEF Init, CountOK
<1>3. suggestedArray \in Seq(Page) /\ postArray \in Seq(Page)
  BY DEF Init
<1>4. /\ isForYou \in BOOLEAN /\ didInitSuggested \in BOOLEAN /\ showHUD \in BOOLEAN
      /\ refreshing \in BOOLEAN /\ overlapped \in BOOLEAN
  BY DEF Init
<1>5. huds \in Nat /\ appears \in Nat /\ pulls \in Nat /\ faults \in Nat
  BY DEF Init
<1>6. TypeOK
  BY <1>1, <1>2, <1>3, <1>4, <1>5 DEF TypeOK, CountOK
<1> QED
  BY <1>1, <1>2, <1>6 DEF IInv, JobsAskedFor, RangesCovered, RangeInBounds

-----------------------------------------------------------------------------
\* Asking for one page, or two, while the maximum allows it.
LEMMA AskKeeps ==
    ASSUME IInv, NEW n \in {1, 2}, suggestedCount + Incre * n < maxLim',
           suggestedCount' = suggestedCount + Incre * n,
           maxLim' \in 0..MaxPosts, maxLim' <= posts, UNCHANGED posts,
           jobs' \in [Jobs -> JobType],
           \A j \in Jobs : /\ jobs'[j].page = jobs[j].page
                          /\ jobs'[j].count = jobs[j].count
                          /\ jobs'[j].phase \in {jobs[j].phase, "dispatched"}
    PROVE  CountOK' /\ JobsAskedFor' /\ RangesCovered' /\ RangeInBounds'
<1>1. CountOK'
  BY IncreType, MaxPostsType DEF IInv, CountOK
<1>2. suggestedCount' < posts' /\ suggestedCount <= suggestedCount'
  BY IncreType, MaxPostsType DEF IInv, CountOK
<1>3. RangesCovered'
  <2> SUFFICES ASSUME NEW j \in Jobs, jobs'[j].phase \in {"found", "cut"}
               PROVE  jobs'[j].page.location + Incre <= suggestedCount'
    BY DEF RangesCovered
  <2>1. jobs[j].page.location + Incre <= suggestedCount /\ jobs'[j].page = jobs[j].page
    BY DEF IInv, RangesCovered
  <2>2. jobs[j].page.location \in Nat
    BY JobsAreRecords DEF IInv
  <2> QED
    BY <1>2, <2>1, <2>2, IncreType DEF IInv, CountOK, RangesCovered
<1>4. RangeInBounds'
  BY DEF IInv, RangeInBounds
<1> QED
  BY <1>1, <1>2, <1>3, <1>4 DEF JobsAskedFor

\* A step that leaves counts and jobs alone.
LEMMA FrameKeeps ==
    ASSUME IInv, UNCHANGED <<posts, maxLim, suggestedCount, jobs>>
    PROVE  CountOK' /\ JobsAskedFor' /\ RangesCovered' /\ RangeInBounds'
BY DEF IInv, CountOK, JobsAskedFor, RangesCovered, RangeInBounds

\* Load: the job of the page is dispatched.
LEMMA LoadKeeps ==
    ASSUME IInv, NEW withHUD \in BOOLEAN, Load(withHUD),
           suggestedCount + Incre < maxLim', maxLim' \in 0..MaxPosts, maxLim' <= posts,
           UNCHANGED posts
    PROVE  /\ CountOK' /\ JobsAskedFor' /\ RangesCovered' /\ RangeInBounds'
           /\ jobs' \in [Jobs -> JobType] /\ huds' \in Nat /\ overlapped' \in BOOLEAN
<1> DEFINE k == suggestedCount \div Incre
<1>1. jobs' = [jobs EXCEPT ![k].phase = "dispatched"]
  BY DEF Load
<1> HIDE DEF k
<1>2. jobs \in [Jobs -> JobType]
  BY DEF IInv, TypeOK
<1>3. jobs' \in [Jobs -> JobType]
  BY <1>1, <1>2 DEF JobType
<1>4. \A j \in Jobs : /\ jobs'[j].page = jobs[j].page
                     /\ jobs'[j].count = jobs[j].count
                     /\ jobs'[j].phase \in {jobs[j].phase, "dispatched"}
  BY <1>1, <1>2 DEF JobType
<1>5. suggestedCount' = suggestedCount + Incre * 1 /\ Incre * 1 = Incre
  BY IncreType DEF Load
<1>6. CountOK' /\ JobsAskedFor' /\ RangesCovered' /\ RangeInBounds'
  BY <1>3, <1>4, <1>5, AskKeeps
<1>7. huds' \in Nat /\ overlapped' \in BOOLEAN
  BY DEF Load, IInv, TypeOK
<1> QED
  BY <1>3, <1>6, <1>7

LEMMA LoadhudKeeps ==
    ASSUME IInv, NEW withHUD \in BOOLEAN, Loadhud(withHUD), UNCHANGED <<posts, maxLim>>
    PROVE  /\ CountOK' /\ JobsAskedFor' /\ RangesCovered' /\ RangeInBounds'
           /\ jobs' \in [Jobs -> JobType] /\ huds' \in Nat /\ overlapped' \in BOOLEAN
<1>1. CASE MayLoad
  BY <1>1, LoadKeeps DEF Loadhud, MayLoad, IInv, CountOK
<1>2. CASE ~MayLoad
  BY <1>2, FrameKeeps DEF Loadhud, NoLoad, IInv, TypeOK
<1> QED
  BY <1>1, <1>2

LEMMA AppearKeeps ==
    ASSUME IInv, NEW limit, limit \in {0, posts}, ViewDidAppear(limit), faults' \in Nat
    PROVE  IInv'
<1>1. maxLim' = limit /\ limit \in 0..MaxPosts /\ limit <= posts /\ UNCHANGED posts
  BY MaxPostsType DEF ViewDidAppear, IInv, CountOK
<1>2. showHUD \in BOOLEAN
  BY DEF IInv, TypeOK
<1>3. /\ CountOK' /\ JobsAskedFor' /\ RangesCovered' /\ RangeInBounds'
      /\ jobs' \in [Jobs -> JobType] /\ huds' \in Nat /\ overlapped' \in BOOLEAN
  <2>1. CASE ~didInitSuggested /\ suggestedCount + Incre < limit
    BY <1>1, <1>2, <2>1, LoadKeeps DEF ViewDidAppear
  <2>2. CASE ~(~didInitSuggested /\ suggestedCount + Incre < limit)
    BY <1>1, <2>2
    DEF ViewDidAppear, NoLoad, IInv, TypeOK, CountOK, JobsAskedFor, RangesCovered,
        RangeInBounds
  <2> QED
    BY <2>1, <2>2
<1>4. /\ UNCHANGED <<didInitSuggested, feedVars, showHUD, refreshing, pulls>>
      /\ appears' \in Nat
  BY DEF ViewDidAppear, IInv, TypeOK
<1>5. TypeOK'
  BY <1>3, <1>4 DEF TypeOK, feedVars, CountOK, IInv
<1> QED
  BY <1>3, <1>5 DEF IInv

\* The last row of the feed may ask for two pages at once.
LEMMA DisplayLastCellKeeps ==
    ASSUME IInv, DisplayLastCell
    PROVE  IInv'
<1> DEFINE inAdvance == didInitSuggested /\ RowsShown - 1 + Incre * 2 >= suggestedCount
           first == suggestedCount \div Incre
<1>1. /\ UNCHANGED <<posts, maxLim, didInitSuggested, feedVars, refreshing, boundVars>>
      /\ showHUD' = TRUE
  BY DEF DisplayLastCell
<1>2. /\ CountOK' /\ JobsAskedFor' /\ RangesCovered' /\ RangeInBounds'
      /\ jobs' \in [Jobs -> JobType] /\ huds' \in Nat /\ overlapped' \in BOOLEAN
  <2>1. CASE inAdvance /\ suggestedCount + Incre * 2 < maxLim
    <3>1. /\ suggestedCount' = suggestedCount + Incre * 2
          /\ jobs' = [jobs EXCEPT ![first].phase = "dispatched",
                                  ![first + 1].phase = "dispatched"]
          /\ huds' = huds + IF showHUD THEN 2 ELSE 1
          /\ overlapped' = TRUE
      BY <2>1 DEF DisplayLastCell
    <3> HIDE DEF first, inAdvance
    <3>2. jobs \in [Jobs -> JobType] /\ huds \in Nat
      BY DEF IInv, TypeOK
    <3> DEFINE one == [jobs EXCEPT ![first].phase = "dispatched"]
    <3>7. /\ one \in [Jobs -> JobType]
          /\ \A j \in Jobs : /\ one[j].page = jobs[j].page
                             /\ one[j].count = jobs[j].count
                             /\ one[j].phase \in {jobs[j].phase, "dispatched"}
      BY <3>2 DEF JobType
    <3>8. jobs' = [one EXCEPT ![first + 1].phase = "dispatched"]
      BY <3>1
    <3> HIDE DEF one
    <3>3. jobs' \in [Jobs -> JobType]
      <4>1. first + 1 \in Jobs => [one[first + 1] EXCEPT !.phase = "dispatched"] \in JobType
        BY <3>7 DEF JobType
      <4> QED
        BY <3>7, <3>8, <4>1
    <3>4. \A j \in Jobs : /\ jobs'[j].page = jobs[j].page
                         /\ jobs'[j].count = jobs[j].count
                         /\ jobs'[j].phase \in {jobs[j].phase, "dispatched"}
      <4>1. \A j \in Jobs : /\ jobs'[j].page = one[j].page
                           /\ jobs'[j].count = one[j].count
                           /\ jobs'[j].phase \in {one[j].phase, "dispatched"}
        BY <3>7, <3>8 DEF JobType
      <4> QED
        BY <3>7, <4>1
    <3>5. huds' \in Nat /\ overlapped' \in BOOLEAN
      BY <3>1, <3>2
    <3>6. maxLim' = maxLim /\ maxLim \in 0..MaxPosts /\ maxLim <= posts /\ posts' = posts
      BY <1>1 DEF IInv, CountOK
    <3> QED
      BY <2>1, <3>1, <3>3, <3>4, <3>5, <3>6, AskKeeps
  <2>2. CASE ~(inAdvance /\ suggestedCount + Incre * 2 < maxLim)
    <3>1. Loadhud(showHUD \/ ~inAdvance)
      BY <2>2 DEF DisplayLastCell
    <3>2. (showHUD \/ ~inAdvance) \in BOOLEAN
      OBVIOUS
    <3> QED
      BY <1>1, <3>1, <3>2, LoadhudKeeps
  <2> QED
    BY <2>1, <2>2
<1>3. TypeOK'
  BY <1>1, <1>2 DEF TypeOK, feedVars, boundVars, CountOK, IInv
<1> QED
  BY <1>2, <1>3 DEF IInv

\* The other things a user does.
LEMMA UserKeeps ==
    ASSUME IInv,
           \/ \E row \in 0..(MaxPosts - 1) : DisplayCell(row)
           \/ \E suggested \in BOOLEAN : ChangedFeedType(suggested)
           \/ Pull \/ DidPost \/ OthersPost
    PROVE  IInv'
<1> USE DEF IInv
<1>1. showHUD \in BOOLEAN
  BY DEF TypeOK
<1>2. ASSUME NEW row \in 0..(MaxPosts - 1), DisplayCell(row) PROVE IInv'
  <2>1. Loadhud(showHUD) /\ UNCHANGED <<posts, maxLim>>
    BY <1>2 DEF DisplayCell
  <2>2. /\ CountOK' /\ JobsAskedFor' /\ RangesCovered' /\ RangeInBounds'
        /\ jobs' \in [Jobs -> JobType] /\ huds' \in Nat /\ overlapped' \in BOOLEAN
    BY <1>1, <2>1, LoadhudKeeps
  <2>3. UNCHANGED <<didInitSuggested, feedVars, showHUD, refreshing, boundVars>>
    BY <1>2 DEF DisplayCell
  <2>4. TypeOK'
    BY <2>2, <2>3 DEF TypeOK, feedVars, boundVars, CountOK
  <2> QED
    BY <2>2, <2>4
<1>3. ASSUME NEW suggested \in BOOLEAN, ChangedFeedType(suggested) PROVE IInv'
  <2>1. CountOK' /\ JobsAskedFor' /\ RangesCovered' /\ RangeInBounds'
    BY <1>3, FrameKeeps DEF ChangedFeedType
  <2>2. postArray' \in Seq(Page)
    <3>1. <<>> \in Seq(Page) /\ suggestedArray \in Seq(Page)
      BY DEF TypeOK
    <3> QED
      BY <1>3, <3>1 DEF ChangedFeedType
  <2>4. isForYou' \in BOOLEAN /\ refreshing' \in BOOLEAN /\ pulls' \in Nat
    <3>1. isForYou' = suggested /\ refreshing' = FALSE /\ pulls' = pulls + 1
      BY <1>3, Zenon DEF ChangedFeedType
    <3>2. isForYou' \in BOOLEAN /\ refreshing' \in BOOLEAN
      BY <3>1, Zenon
    <3>3. pulls' \in Nat
      BY <3>1 DEF TypeOK
    <3> QED
      BY <3>2, <3>3, Zenon
  <2>5. UNCHANGED <<posts, maxLim, suggestedCount, didInitSuggested, suggestedArray,
                    jobs, showHUD, huds, overlapped, appears, faults>>
    BY <1>3 DEF ChangedFeedType, hudVars
  <2>3. TypeOK'
    BY <2>2, <2>4, <2>5 DEF TypeOK
  <2> QED
    BY <2>1, <2>3
<1>4. ASSUME Pull \/ DidPost PROVE IInv'
  <2>3. /\ suggestedArray' \in Seq(Page) /\ postArray' \in Seq(Page)
        /\ isForYou' \in BOOLEAN /\ didInitSuggested' \in BOOLEAN
        /\ showHUD' \in BOOLEAN /\ refreshing' \in BOOLEAN
        /\ appears' \in Nat /\ pulls' \in Nat /\ faults' \in Nat
    <3>1. <<>> \in Seq(Page)
      OBVIOUS
    <3>2. CASE Pull
      BY <3>2 DEF Pull, feedVars, TypeOK
    <3>3. CASE DidPost
      BY <3>1, <3>3 DEF DidPost, TypeOK
    <3> QED
      BY <1>4, <3>2, <3>3
  <2>1. CASE suggestedCount > Incre
    <3>1. Loadhud(showHUD) /\ UNCHANGED <<posts, maxLim>>
      BY <1>4, <2>1 DEF Pull, DidPost
    <3>2. /\ CountOK' /\ JobsAskedFor' /\ RangesCovered' /\ RangeInBounds'
          /\ jobs' \in [Jobs -> JobType] /\ huds' \in Nat /\ overlapped' \in BOOLEAN
      BY <1>1, <3>1, LoadhudKeeps
    <3> QED
      BY <3>2, <2>3 DEF TypeOK, CountOK
  <2>2. CASE ~(suggestedCount > Incre)
    <3>1. UNCHANGED <<posts, maxLim, suggestedCount, jobs, huds, overlapped>>
      BY <1>4, <2>2 DEF Pull, DidPost, NoLoad
    <3>2. CountOK' /\ JobsAskedFor' /\ RangesCovered' /\ RangeInBounds'
      BY <3>1, FrameKeeps
    <3> QED
      BY <2>3, <3>1, <3>2 DEF TypeOK, CountOK
  <2> QED
    BY <2>1, <2>2
<1>5. ASSUME OthersPost PROVE IInv'
  <2>1. CountOK'
    BY <1>5, MaxPostsType DEF OthersPost, CountOK
  <2>2. /\ posts' = posts + 1 /\ posts \in Nat /\ suggestedCount \in Nat
        /\ UNCHANGED <<suggestedCount, jobs>>
    BY <1>5, MaxPostsType DEF OthersPost, CountOK
  <2>3. JobsAskedFor' /\ RangesCovered' /\ RangeInBounds'
    BY <2>2 DEF JobsAskedFor, RangesCovered, RangeInBounds
  <2>4. TypeOK'
    BY <1>5, <2>1 DEF OthersPost, TypeOK, CountOK, feedVars, hudVars, boundVars
  <2> QED
    BY <2>1, <2>3, <2>4
<1> QED
  BY <1>2, <1>3, <1>4, <1>5

-----------------------------------------------------------------------------
\* A step of a job changes its own record and, at most, the arrays and the
\* activity view.
LEMMA JobFrame ==
    ASSUME IInv, NEW j \in Jobs, NEW new \in JobType,
           jobs' = [jobs EXCEPT ![j] = new],
           UNCHANGED <<posts, maxLim, suggestedCount>>,
           suggestedCount < posts,
           new.phase \in {"found", "cut"} => new.page.location + Incre <= suggestedCount,
           new.phase = "cut" => new.page.location + new.page.length <= new.count
    PROVE  /\ CountOK' /\ JobsAskedFor' /\ RangesCovered' /\ RangeInBounds'
           /\ jobs' \in [Jobs -> JobType]
<1>1. jobs \in [Jobs -> JobType]
  BY DEF IInv, TypeOK
<1>2. /\ jobs' \in [Jobs -> JobType]
      /\ \A i \in Jobs : jobs'[i] = IF i = j THEN new ELSE jobs[i]
  BY <1>1
<1> QED
  BY <1>2 DEF IInv, CountOK, JobsAskedFor, RangesCovered, RangeInBounds

LEMMA JobKeeps ==
    ASSUME IInv, NEW j \in Jobs, JobStep(j)
    PROVE  IInv'
<1> DEFINE b == jobs[j]
<1>1. /\ b \in JobType /\ b.phase \in Phases
      /\ b.limit \in 0..MaxPosts /\ b.count \in 0..MaxPosts
      /\ b.page \in Page /\ b.base \in Seq(Page)
      /\ b.page.location \in 0..MaxPosts /\ b.page.length \in 0..MaxPosts
      /\ jobs \in [Jobs -> JobType]
  BY JobsAreRecords DEF IInv, TypeOK
<1>2. /\ posts \in Nat /\ posts <= MaxPosts /\ MaxPosts \in Nat
      /\ suggestedCount \in Nat /\ Incre <= suggestedCount /\ Incre \in Nat \ {0}
  BY MaxPostsType, IncreType DEF IInv, CountOK
<1>3. b.phase # "none" => suggestedCount < posts
  BY DEF IInv, JobsAskedFor
<1>4. b.phase \in {"found", "cut"} => b.page.location + Incre <= suggestedCount
  BY DEF IInv, RangesCovered
<1>5. CASE ReadLimit(j)
  <2> DEFINE new == [b EXCEPT !.phase = "limited", !.limit = suggestedCount]
  <2>1. jobs' = [jobs EXCEPT ![j] = new] /\ b.phase = "dispatched"
    BY <1>1, <1>5 DEF ReadLimit, JobType
  <2>2. suggestedCount \in 0..MaxPosts
    BY <1>2, <1>3, <2>1
  <2>3. new \in JobType /\ new.phase = "limited"
    BY <1>1, <2>2 DEF JobType
  <2>4. UNCHANGED <<jobFrame, suggestedArray, faults>>
    BY <1>5 DEF ReadLimit
  <2> HIDE DEF new
  <2>5. /\ CountOK' /\ JobsAskedFor' /\ RangesCovered' /\ RangeInBounds'
        /\ jobs' \in [Jobs -> JobType]
    BY <1>3, <2>1, <2>3, <2>4, JobFrame DEF jobFrame
  <2>6. TypeOK'
    BY <2>4, <2>5 DEF jobFrame, hudVars, IInv, TypeOK
  <2> QED
    BY <2>5, <2>6 DEF IInv
<1>6. ASSUME NEW found \in 0..MaxPosts, Find(j, found), faults' \in Nat PROVE IInv'
  <2> DEFINE new == [b EXCEPT !.phase = "found", !.count = found,
                              !.page.location = RangeLocation]
  <2>1. jobs' = [jobs EXCEPT ![j] = new] /\ b.phase = "limited"
    BY <1>1, <1>6 DEF Find, JobType
  <2>2. RangeLocation \in 0..MaxPosts /\ RangeLocation + Incre = suggestedCount
    BY <1>2, <1>3, <2>1 DEF RangeLocation
  <2>3. /\ new \in JobType /\ new.phase = "found"
        /\ new.page.location = RangeLocation
    BY <1>1, <2>2 DEF JobType, Page
  <2>4. UNCHANGED <<jobFrame, suggestedArray>>
    BY <1>6 DEF Find
  <2> HIDE DEF new
  <2>5. /\ CountOK' /\ JobsAskedFor' /\ RangesCovered' /\ RangeInBounds'
        /\ jobs' \in [Jobs -> JobType]
    <3>1. new.page.location + Incre <= suggestedCount
      BY <1>2, <2>2, <2>3
    <3>2. new \in JobType /\ new.phase = "found" /\ suggestedCount < posts
      BY <1>3, <2>1, <2>3
    <3>3. UNCHANGED <<posts, maxLim, suggestedCount>>
      BY <2>4 DEF jobFrame
    <3> QED
      BY <2>1, <3>1, <3>2, <3>3, JobFrame
  <2>6. TypeOK'
    BY <1>6, <2>4, <2>5 DEF jobFrame, hudVars, IInv, TypeOK
  <2> QED
    BY <2>5, <2>6 DEF IInv
<1>7. CASE FindObjects(j)
  <2>1. Smaller(b.limit, posts) \in 0..MaxPosts /\ faults' \in Nat
    BY <1>1, <1>2, <1>7 DEF Smaller, FindObjects, IInv, TypeOK
  <2> QED
    BY <1>6, <1>7, <2>1 DEF FindObjects
<1>8. CASE FindFails(j)
  <2>1. 0 \in 0..MaxPosts /\ faults' \in Nat
    BY <1>2, <1>8 DEF FindFails, IInv, TypeOK
  <2> QED
    BY <1>6, <1>8, <2>1 DEF FindFails
<1>9. CASE CutPage(j)
  <2>1. UNCHANGED <<jobFrame, suggestedArray, faults>> /\ b.phase = "found"
    BY <1>9 DEF CutPage
  <2>2. b.page.location + Incre <= suggestedCount /\ suggestedCount < posts
    BY <1>3, <1>4, <2>1
  <2>3. CASE b.page.location <= b.count
    <3> DEFINE new == [b EXCEPT !.phase = "cut", !.page.length = Length(j)]
    <3>1. jobs' = [jobs EXCEPT ![j] = new]
      BY <1>1, <1>9, <2>3 DEF CutPage, JobType
    <3>2. /\ Length(j) \in 0..MaxPosts
          /\ b.page.location + Length(j) <= b.count
      <4>1. CASE b.count < suggestedCount
        <5>1. Length(j) = b.count - b.page.location
          BY <4>1 DEF Length
        <5> QED
          BY <1>1, <1>2, <2>3, <5>1
      <4>2. CASE ~(b.count < suggestedCount)
        <5>1. Length(j) = Incre
          BY <4>2 DEF Length
        <5> QED
          BY <1>1, <1>2, <2>2, <4>2, <5>1
      <4> QED
        BY <4>1, <4>2
    <3>3. /\ new \in JobType /\ new.phase = "cut"
          /\ new.page.location = b.page.location /\ new.page.length = Length(j)
          /\ new.count = b.count
      BY <1>1, <3>2 DEF JobType, Page
    <3> HIDE DEF new
    <3>4. /\ CountOK' /\ JobsAskedFor' /\ RangesCovered' /\ RangeInBounds'
          /\ jobs' \in [Jobs -> JobType]
      BY <2>1, <2>2, <3>1, <3>2, <3>3, JobFrame DEF jobFrame
    <3>5. TypeOK'
      BY <2>1, <3>4 DEF jobFrame, hudVars, IInv, TypeOK
    <3> QED
      BY <3>4, <3>5 DEF IInv
  <2>4. CASE ~(b.page.location <= b.count)
    <3> DEFINE new == [b EXCEPT !.phase = "loaded"]
    <3>1. jobs' = [jobs EXCEPT ![j] = new]
      BY <1>1, <1>9, <2>4 DEF CutPage, JobType
    <3>2. new \in JobType /\ new.phase = "loaded"
      BY <1>1 DEF JobType
    <3> HIDE DEF new
    <3>3. /\ CountOK' /\ JobsAskedFor' /\ RangesCovered' /\ RangeInBounds'
          /\ jobs' \in [Jobs -> JobType]
      BY <2>1, <2>2, <3>1, <3>2, JobFrame DEF jobFrame
    <3>4. TypeOK'
      BY <2>1, <3>3 DEF jobFrame, hudVars, IInv, TypeOK
    <3> QED
      BY <3>3, <3>4 DEF IInv
  <2> QED
    BY <2>3, <2>4
<1>10. CASE BeginAdd(j)
  <2> DEFINE new == [b EXCEPT !.phase = "adding", !.base = suggestedArray]
  <2>1. jobs' = [jobs EXCEPT ![j] = new] /\ b.phase = "cut"
    BY <1>1, <1>10 DEF BeginAdd, JobType
  <2>2. suggestedArray \in Seq(Page)
    BY DEF IInv, TypeOK
  <2>3. new \in JobType /\ new.phase = "adding"
    BY <1>1, <2>2 DEF JobType
  <2>4. UNCHANGED <<jobFrame, suggestedArray, faults>>
    BY <1>10 DEF BeginAdd
  <2> HIDE DEF new
  <2>5. /\ CountOK' /\ JobsAskedFor' /\ RangesCovered' /\ RangeInBounds'
        /\ jobs' \in [Jobs -> JobType]
    BY <1>3, <2>1, <2>3, <2>4, JobFrame DEF jobFrame
  <2>6. TypeOK'
    BY <2>4, <2>5 DEF jobFrame, hudVars, IInv, TypeOK
  <2> QED
    BY <2>5, <2>6 DEF IInv
<1>11. CASE EndAdd(j)
  <2> DEFINE new == [b EXCEPT !.phase = "loaded", !.base = <<>>]
  <2>1. jobs' = [jobs EXCEPT ![j] = new] /\ b.phase = "adding"
    BY <1>1, <1>11 DEF EndAdd, JobType
  <2>2. new \in JobType /\ new.phase = "loaded"
    <3>1. <<>> \in Seq(Page)
      OBVIOUS
    <3> QED
      BY <1>1, <3>1 DEF JobType
  <2>3. UNCHANGED <<jobFrame, faults>> /\ suggestedArray' = Append(b.base, b.page)
    BY <1>11 DEF EndAdd
  <2> HIDE DEF new
  <2>4. /\ CountOK' /\ JobsAskedFor' /\ RangesCovered' /\ RangeInBounds'
        /\ jobs' \in [Jobs -> JobType]
    BY <1>3, <2>1, <2>2, <2>3, JobFrame DEF jobFrame
  <2>5. suggestedArray' \in Seq(Page)
    BY <1>1, <2>3
  <2>6. TypeOK'
    BY <2>3, <2>4, <2>5 DEF jobFrame, hudVars, IInv, TypeOK
  <2> QED
    BY <2>4, <2>6 DEF IInv
<1>12. CASE Completehud(j)
  <2> DEFINE new == [b EXCEPT !.phase = "over"]
  <2>1. jobs' = [jobs EXCEPT ![j] = new] /\ b.phase = "loaded"
    BY <1>1, <1>12 DEF Completehud, JobType
  <2>2. new \in JobType /\ new.phase = "over"
    BY <1>1 DEF JobType
  <2>3. /\ UNCHANGED <<posts, maxLim, suggestedCount, isForYou, suggestedArray,
                       overlapped, boundVars>>
        /\ postArray' = IF isForYou THEN suggestedArray ELSE postArray
        /\ refreshing' = SpinsAfterLoad /\ didInitSuggested' = TRUE
    BY <1>12 DEF Completehud
  <2>4. huds' \in Nat /\ showHUD' \in BOOLEAN
    <3>1. huds' \in Nat
      <4>1. huds' \in {huds, huds - 1, 0} /\ (huds' = huds - 1 => huds # 0 \/ huds' = huds)
        BY <1>12 DEF Completehud, hudVars, IInv, TypeOK
      <4>2. huds \in Nat
        BY DEF IInv, TypeOK
      <4> QED
        BY <4>1, <4>2
    <3>2. showHUD' = FALSE \/ showHUD' = showHUD
      BY <1>12 DEF Completehud, hudVars
    <3>3. showHUD' \in BOOLEAN
      BY <3>2, Zenon DEF IInv, TypeOK
    <3> QED
      BY <3>1, <3>3
  <2> HIDE DEF new
  <2>5. /\ CountOK' /\ JobsAskedFor' /\ RangesCovered' /\ RangeInBounds'
        /\ jobs' \in [Jobs -> JobType]
    BY <1>3, <2>1, <2>2, <2>3, JobFrame
  <2>6. refreshing' \in BOOLEAN /\ postArray' \in Seq(Page)
    BY <2>3 DEF SpinsAfterLoad, IInv, TypeOK
  <2>7. TypeOK'
    BY <2>3, <2>4, <2>5, <2>6 DEF boundVars, IInv, TypeOK
  <2> QED
    BY <2>5, <2>7 DEF IInv
<1> QED
  BY <1>5, <1>7, <1>8, <1>9, <1>10, <1>11, <1>12 DEF JobStep

LEMMA IInvNext == IInv /\ [Next]_vars => IInv'
<1> SUFFICES ASSUME IInv, [Next]_vars PROVE IInv'
  OBVIOUS
<1>1. CASE Appear
  BY <1>1, AppearKeeps DEF Appear, IInv, TypeOK
<1>2. CASE AppearOffline
  BY <1>2, AppearKeeps DEF AppearOffline, IInv, TypeOK
<1>3. CASE DisplayLastCell
  BY <1>3, DisplayLastCellKeeps
<1>4. CASE \/ \E row \in 0..(MaxPosts - 1) : DisplayCell(row)
           \/ \E suggested \in BOOLEAN : ChangedFeedType(suggested)
           \/ Pull \/ DidPost \/ OthersPost
  BY <1>4, UserKeeps
<1>5. CASE \E j \in Jobs : JobStep(j)
  BY <1>5, JobKeeps
<1>6. CASE UNCHANGED vars
  <2>1. CountOK' /\ JobsAskedFor' /\ RangesCovered' /\ RangeInBounds'
    BY <1>6, FrameKeeps DEF vars
  <2>2. TypeOK'
    BY <1>6 DEF vars, feedVars, hudVars, boundVars, IInv, TypeOK
  <2> QED
    BY <2>1, <2>2 DEF IInv
<1> QED
  BY <1>1, <1>2, <1>3, <1>4, <1>5, <1>6 DEF Next, UserStep

THEOREM IInvHolds == Spec => []IInv
BY IInvInit, IInvNext, PTL DEF Spec

\* The variables keep their types; in particular the feed never asks beyond the
\* posts there are, however many loads overlap (loadhud: and getMax).
THEOREM TypeCorrect == Spec => []TypeOK
<1>1. IInv => TypeOK
  BY DEF IInv
<1> QED
  BY <1>1, IInvHolds, PTL

\* subarrayWithRange: in loadSuggested never gets a range beyond the posts found,
\* whichever values of suggestedCount its three reads have seen.
THEOREM RangesStayInBounds == Spec => []RangeInBounds
<1>1. IInv => RangeInBounds
  BY DEF IInv
<1> QED
  BY <1>1, IInvHolds, PTL
-----------------------------------------------------------------------------
(***************************************************************************)
(* Loads that take turns.  The count is one page ahead of the pages in the *)
(* feed, two while a load has not added its page yet; the load's reads of  *)
(* the count all see the same value, so its page is the next one.          *)
(***************************************************************************)
\* Multiplication and division, which number the jobs.
LEMMA MulMonotone ==
    ASSUME NEW d \in Nat, NEW a \in Nat, NEW b \in Nat, a <= b
    PROVE  d * a <= d * b
<1>1. b - a \in Nat /\ d * (b - a) = d * b - d * a
  OBVIOUS
<1>2. d * (b - a) \in Nat /\ d * b \in Nat /\ d * a \in Nat
  BY <1>1
<1> QED
  BY <1>1, <1>2

LEMMA DivOfProduct ==
    ASSUME NEW d \in Nat \ {0}, NEW m \in Nat
    PROVE  (d * m) \div d = m
OBVIOUS

LEMMA DivBound ==
    ASSUME NEW d \in Nat \ {0}, NEW m \in Nat, NEW n \in Nat, d * m <= n
    PROVE  m <= n \div d
<1> DEFINE q == n \div d
<1>1. q \in Nat /\ n < d * q + d
  OBVIOUS
<1> HIDE DEF q
<1>2. CASE q < m
  <2>1. q + 1 \in Nat /\ q + 1 <= m
    BY <1>1, <1>2
  <2>2. d * (q + 1) <= d * m
    BY <2>1, MulMonotone
  <2>3. d * (q + 1) = d * q + d
    BY <1>1
  <2>4. d * q \in Nat /\ d * m \in Nat
    BY <1>1
  <2> QED
    BY <1>1, <2>2, <2>3, <2>4
<1> QED
  BY <1>1, <1>2 DEF q

LoadingPhases == {"dispatched", "limited", "found", "cut", "adding"}
Serial == ~overlapped /\ faults = 0

\* What a job that is loading the next page after `feed` has read.
ReadsNextPage(b, feed) ==
    b.phase \in LoadingPhases =>
        /\ suggestedCount = Incre * (Len(feed) + 2)
        /\ b.phase # "dispatched" => b.limit = suggestedCount
        /\ b.phase \in {"found", "cut", "adding"} =>
              b.count = suggestedCount /\ b.page.location = suggestedCount - Incre
        /\ b.phase \in {"cut", "adding"} => b.page.length = Incre
        /\ b.phase = "adding" => b.base = feed

PagesInOrder(feed) ==
    \A i \in DOMAIN feed : feed[i] = [location |-> Incre * i, length |-> Incre]

SerialState ==
    /\ \A i, j \in UnderWay : i = j
    /\ \A j \in Jobs : ReadsNextPage(jobs[j], suggestedArray)
    /\ (\A j \in Jobs : jobs[j].phase \notin LoadingPhases) =>
           suggestedCount = Incre * (Len(suggestedArray) + 1)
    /\ PagesInOrder(suggestedArray)

SInv == IInv /\ (Serial => SerialState)

LEMMA SInvInit == Init => SInv
<1> SUFFICES ASSUME Init PROVE SerialState
  BY IInvInit DEF SInv
<1>1. \A j \in Jobs : jobs[j].phase = "none"
  BY DEF Init, NotStarted
<1>2. suggestedArray = <<>> /\ Len(suggestedArray) = 0
  BY DEF Init
<1>3. suggestedCount = Incre * (0 + 1)
  BY IncreType DEF Init
<1>4. PagesInOrder(suggestedArray)
  BY <1>2 DEF PagesInOrder
<1> QED
  BY <1>1, <1>2, <1>3, <1>4 DEF SerialState, UnderWay, ReadsNextPage, LoadingPhases

LEMMA SerialFrame ==
    ASSUME SInv, UNCHANGED <<suggestedCount, jobs, suggestedArray>>, Serial' => Serial
    PROVE  Serial' => SerialState'
BY DEF SInv, SerialState, UnderWay, ReadsNextPage

\* A load that begins when none is under way is the job of the next page.
LEMMA SerialLoad ==
    ASSUME SInv, NEW withHUD \in BOOLEAN, Load(withHUD),
           suggestedCount + Incre < maxLim', maxLim' \in 0..MaxPosts,
           UNCHANGED suggestedArray, Serial', faults' = faults
    PROVE  SerialState'
<1> DEFINE n == Len(suggestedArray)
           k == suggestedCount \div Incre
<1>1. ~overlapped /\ UnderWay = {} /\ faults = 0
  BY DEF Load, Serial
<1>2. SerialState
  BY <1>1 DEF SInv, Serial
<1>3. \A j \in Jobs : jobs[j].phase \notin LoadingPhases
  BY <1>1 DEF UnderWay, LoadingPhases
<1>4. n \in Nat /\ suggestedCount = Incre * (n + 1)
  BY <1>2, <1>3 DEF SerialState, SInv, IInv, TypeOK
<1>5. jobs' = [jobs EXCEPT ![k].phase = "dispatched"] /\ suggestedCount' = suggestedCount + Incre
  BY DEF Load
<1> HIDE DEF n, k
<1>6. k = n + 1
  <2>1. n + 1 \in Nat
    BY <1>4
  <2> QED
    BY <1>4, <2>1, IncreType, DivOfProduct DEF k
<1>7. k \in Jobs
  <2>1. suggestedCount <= MaxPosts
    BY IncreType, MaxPostsType DEF SInv, IInv, CountOK
  <2>2. n + 1 \in Nat /\ Incre * (n + 1) <= MaxPosts
    BY <1>4, <2>1
  <2>3. n + 1 <= MaxPosts \div Incre
    BY <2>2, IncreType, MaxPostsType, DivBound
  <2>4. MaxPosts \div Incre \in Nat
    BY IncreType, MaxPostsType
  <2> QED
    BY <1>4, <1>6, <2>3, <2>4 DEF Jobs
<1>8. suggestedCount' = Incre * (n + 2)
  <2>1. Incre * (n + 2) = Incre * (n + 1) + Incre
    BY <1>4, IncreType
  <2> QED
    BY <1>4, <1>5, <2>1
<1>9. /\ jobs'[k].phase = "dispatched"
      /\ \A j \in Jobs \ {k} : jobs'[j] = jobs[j]
  BY <1>5, <1>7 DEF SInv, IInv, TypeOK, JobType
<1>10. UnderWay' = {k}
  BY <1>1, <1>7, <1>9 DEF UnderWay
<1>11. \A j \in Jobs : ReadsNextPage(jobs[j], suggestedArray)'
  BY <1>3, <1>8, <1>9 DEF ReadsNextPage, LoadingPhases, n
<1>12. PagesInOrder(suggestedArray')
  BY <1>2 DEF SerialState
<1>13. jobs'[k].phase \in LoadingPhases
  BY <1>9 DEF LoadingPhases
<1> QED
  BY <1>7, <1>10, <1>11, <1>12, <1>13 DEF SerialState

LEMMA SerialLoadhud ==
    ASSUME SInv, NEW withHUD \in BOOLEAN, Loadhud(withHUD),
           UNCHANGED <<maxLim, suggestedArray, faults>>, Serial'
    PROVE  SerialState'
<1>1. CASE MayLoad
  BY <1>1, SerialLoad DEF Loadhud, MayLoad, SInv, IInv, CountOK
<1>2. CASE ~MayLoad
  BY <1>2, SerialFrame DEF Loadhud, NoLoad, Serial
<1> QED
  BY <1>1, <1>2

\* What a user does, or another user's post.
LEMMA SerialUser ==
    ASSUME SInv, UserStep, Serial'
    PROVE  SerialState'
<1>1. showHUD \in BOOLEAN /\ faults \in Nat
  BY DEF SInv, IInv, TypeOK
<1>2. CASE Appear
  <2>1. ViewDidAppear(posts) /\ UNCHANGED <<suggestedArray, faults>>
    BY <1>2 DEF Appear, ViewDidAppear, feedVars
  <2>2. CASE ~didInitSuggested /\ suggestedCount + Incre < posts
    <3>1. Load(showHUD) /\ maxLim' = posts /\ posts \in 0..MaxPosts
      BY <2>1, <2>2 DEF ViewDidAppear, SInv, IInv, CountOK
    <3> QED
      BY <1>1, <2>1, <2>2, <3>1, SerialLoad
  <2>3. CASE ~(~didInitSuggested /\ suggestedCount + Incre < posts)
    BY <2>1, <2>3, SerialFrame DEF ViewDidAppear, NoLoad, Serial
  <2> QED
    BY <2>2, <2>3
<1>3. CASE AppearOffline
  <2>1. faults' = faults + 1
    BY <1>3 DEF AppearOffline
  <2> QED
    BY <1>1, <2>1 DEF Serial
<1>4. CASE DisplayLastCell
  <2> DEFINE inAdvance == didInitSuggested /\ RowsShown - 1 + Incre * 2 >= suggestedCount
  <2>1. CASE inAdvance /\ suggestedCount + Incre * 2 < maxLim
    <3>1. overlapped' = TRUE
      BY <1>4, <2>1 DEF DisplayLastCell
    <3> QED
      BY <3>1 DEF Serial
  <2>2. CASE ~(inAdvance /\ suggestedCount + Incre * 2 < maxLim)
    <3>1. Loadhud(showHUD \/ ~inAdvance)
      BY <1>4, <2>2 DEF DisplayLastCell
    <3>2. (showHUD \/ ~inAdvance) \in BOOLEAN
      OBVIOUS
    <3>3. UNCHANGED <<maxLim, suggestedArray, faults>>
      BY <1>4 DEF DisplayLastCell, feedVars, boundVars
    <3> QED
      BY <3>1, <3>2, <3>3, SerialLoadhud
  <2> QED
    BY <2>1, <2>2
<1>5. ASSUME NEW row \in 0..(MaxPosts - 1), DisplayCell(row) PROVE SerialState'
  <2>1. Loadhud(showHUD) /\ UNCHANGED <<maxLim, suggestedArray, faults>>
    BY <1>5 DEF DisplayCell, feedVars, boundVars
  <2> QED
    BY <1>1, <2>1, SerialLoadhud
<1>6. CASE Pull \/ DidPost
  <2>1. UNCHANGED <<maxLim, suggestedArray, faults>>
    BY <1>6 DEF Pull, DidPost, feedVars
  <2>2. CASE suggestedCount > Incre
    <3>1. Loadhud(showHUD)
      BY <1>6, <2>2 DEF Pull, DidPost
    <3> QED
      BY <1>1, <2>1, <3>1, SerialLoadhud
  <2>3. CASE ~(suggestedCount > Incre)
    <3>1. UNCHANGED <<suggestedCount, jobs, overlapped>>
      BY <1>6, <2>3 DEF Pull, DidPost, NoLoad
    <3> QED
      BY <2>1, <3>1, SerialFrame DEF Serial
  <2> QED
    BY <2>2, <2>3
<1>7. CASE OthersPost
  BY <1>7, SerialFrame DEF OthersPost, Serial, feedVars, boundVars
<1>8. ASSUME NEW suggested \in BOOLEAN, ChangedFeedType(suggested) PROVE SerialState'
  BY <1>8, SerialFrame DEF ChangedFeedType, Serial
<1> QED
  BY <1>2, <1>3, <1>4, <1>5, <1>6, <1>7, <1>8 DEF UserStep

\* The only load under way takes a step.
LEMMA SerialOne ==
    ASSUME SInv, SerialState, NEW j \in Jobs, NEW new \in JobType,
           jobs[j].phase \notin {"none", "over"},
           jobs' = [jobs EXCEPT ![j] = new], UNCHANGED suggestedCount,
           ReadsNextPage(new, suggestedArray'),
           new.phase \notin LoadingPhases =>
               suggestedCount = Incre * (Len(suggestedArray') + 1),
           PagesInOrder(suggestedArray')
    PROVE  SerialState'
<1>1. \A i \in Jobs : jobs'[i] = IF i = j THEN new ELSE jobs[i]
  BY DEF SInv, IInv, TypeOK
<1>2. j \in UnderWay
  BY DEF UnderWay
<1>3. \A i \in Jobs : i # j => jobs[i].phase \in {"none", "over"}
  BY <1>2 DEF SerialState, UnderWay
<1>4. \A i \in UnderWay' : i = j
  BY <1>1, <1>3 DEF UnderWay
<1>5. \A i \in Jobs : ReadsNextPage(jobs[i], suggestedArray)'
  BY <1>1, <1>3 DEF ReadsNextPage, LoadingPhases
<1>6. (\A i \in Jobs : jobs'[i].phase \notin LoadingPhases) =>
          suggestedCount' = Incre * (Len(suggestedArray') + 1)
  BY <1>1
<1> QED
  BY <1>4, <1>5, <1>6 DEF SerialState

LEMMA SerialJob ==
    ASSUME SInv, NEW j \in Jobs, JobStep(j), Serial'
    PROVE  SerialState'
<1> DEFINE b == jobs[j]
           n == Len(suggestedArray)
<1>1. /\ b \in JobType /\ b.limit \in 0..MaxPosts /\ b.count \in 0..MaxPosts
      /\ b.page \in Page /\ b.base \in Seq(Page)
      /\ jobs \in [Jobs -> JobType] /\ suggestedArray \in Seq(Page) /\ n \in Nat
  BY JobsAreRecords DEF SInv, IInv, TypeOK
<1>2. /\ posts \in Nat /\ suggestedCount \in Nat /\ Incre <= suggestedCount
      /\ Incre \in Nat \ {0} /\ faults \in Nat
  BY MaxPostsType, IncreType DEF SInv, IInv, CountOK, TypeOK
<1>3. UNCHANGED <<suggestedCount, overlapped>> /\ (faults' = faults \/ faults' = faults + 1)
  BY DEF JobStep, jobFrame, ReadLimit, FindObjects, FindFails, Find, CutPage, BeginAdd,
         EndAdd, Completehud, boundVars
<1>4. SerialState /\ faults = 0
  BY <1>2, <1>3 DEF SInv, Serial
<1>5. ReadsNextPage(b, suggestedArray) /\ PagesInOrder(suggestedArray)
  BY <1>4 DEF SerialState
<1>6. b.phase # "none" => suggestedCount < posts
  BY DEF SInv, IInv, JobsAskedFor
<1>7. CASE ReadLimit(j)
  <2> DEFINE new == [b EXCEPT !.phase = "limited", !.limit = suggestedCount]
  <2>1. jobs' = [jobs EXCEPT ![j] = new] /\ b.phase = "dispatched"
    BY <1>1, <1>7 DEF ReadLimit, JobType
  <2>2. suggestedCount \in 0..MaxPosts
    BY <1>2, <1>6, <2>1, MaxPostsType DEF SInv, IInv, CountOK
  <2>3. new \in JobType /\ new.phase = "limited" /\ new.limit = suggestedCount
    BY <1>1, <2>2 DEF JobType
  <2>4. suggestedArray' = suggestedArray
    BY <1>7 DEF ReadLimit
  <2>5. suggestedCount = Incre * (n + 2)
    BY <1>5, <2>1 DEF ReadsNextPage, LoadingPhases
  <2> HIDE DEF new
  <2>6. ReadsNextPage(new, suggestedArray')
    BY <2>3, <2>4, <2>5 DEF ReadsNextPage
  <2>7. new.phase \in LoadingPhases
    BY <2>3 DEF LoadingPhases
  <2> QED
    BY <1>3, <1>4, <1>5, <2>1, <2>3, <2>4, <2>6, <2>7, SerialOne
<1>8. CASE FindObjects(j)
  <2> DEFINE new == [b EXCEPT !.phase = "found", !.count = suggestedCount,
                              !.page.location = suggestedCount - Incre]
  <2>1. b.phase = "limited"
    BY <1>8 DEF FindObjects, Find
  <2>2. suggestedCount = Incre * (n + 2) /\ b.limit = suggestedCount
    BY <1>5, <2>1 DEF ReadsNextPage, LoadingPhases
  <2>3. Smaller(b.limit, posts) = suggestedCount
    BY <1>2, <1>6, <2>1, <2>2 DEF Smaller
  <2>4. jobs' = [jobs EXCEPT ![j] = new]
    BY <1>1, <1>8, <2>3 DEF FindObjects, Find, RangeLocation, JobType, Page
  <2>5. suggestedCount \in 0..MaxPosts /\ suggestedCount - Incre \in 0..MaxPosts
    BY <1>2, <1>6, <2>1, MaxPostsType DEF SInv, IInv, CountOK
  <2>6. /\ new \in JobType /\ new.phase = "found" /\ new.count = suggestedCount
        /\ new.page.location = suggestedCount - Incre /\ new.limit = suggestedCount
    BY <1>1, <2>2, <2>5 DEF JobType, Page
  <2>7. suggestedArray' = suggestedArray
    BY <1>8 DEF FindObjects, Find
  <2> HIDE DEF new
  <2>8. ReadsNextPage(new, suggestedArray')
    BY <2>2, <2>6, <2>7 DEF ReadsNextPage
  <2>9. new.phase \in LoadingPhases
    BY <2>6 DEF LoadingPhases
  <2> QED
    BY <1>3, <1>4, <1>5, <2>1, <2>4, <2>6, <2>7, <2>8, <2>9, SerialOne
<1>9. CASE FindFails(j)
  <2>1. faults' = faults + 1
    BY <1>9 DEF FindFails
  <2> QED
    BY <1>2, <2>1 DEF Serial
<1>10. CASE CutPage(j)
  <2> DEFINE new == [b EXCEPT !.phase = "cut", !.page.length = Incre]
  <2>1. b.phase = "found"
    BY <1>10 DEF CutPage
  <2>2. /\ suggestedCount = Incre * (n + 2) /\ b.limit = suggestedCount
        /\ b.count = suggestedCount /\ b.page.location = suggestedCount - Incre
    BY <1>5, <2>1 DEF ReadsNextPage, LoadingPhases
  <2>3. Length(j) = Incre /\ b.count >= b.page.location
    BY <1>2, <2>2 DEF Length
  <2>4. jobs' = [jobs EXCEPT ![j] = new]
    BY <1>1, <1>10, <2>3 DEF CutPage, JobType, Page
  <2>5. Incre \in 0..MaxPosts
    BY <1>2, <1>6, <2>1, MaxPostsType DEF SInv, IInv, CountOK
  <2>6. /\ new \in JobType /\ new.phase = "cut" /\ new.count = suggestedCount
        /\ new.page.location = suggestedCount - Incre /\ new.limit = suggestedCount
        /\ new.page.length = Incre
    BY <1>1, <2>2, <2>5 DEF JobType, Page
  <2>7. suggestedArray' = suggestedArray
    BY <1>10 DEF CutPage
  <2> HIDE DEF new
  <2>8. ReadsNextPage(new, suggestedArray')
    BY <2>2, <2>6, <2>7 DEF ReadsNextPage
  <2>9. new.phase \in LoadingPhases
    BY <2>6 DEF LoadingPhases
  <2> QED
    BY <1>3, <1>4, <1>5, <2>1, <2>4, <2>6, <2>7, <2>8, <2>9, SerialOne
<1>11. CASE BeginAdd(j)
  <2> DEFINE new == [b EXCEPT !.phase = "adding", !.base = suggestedArray]
  <2>1. b.phase = "cut" /\ jobs' = [jobs EXCEPT ![j] = new]
    BY <1>1, <1>11 DEF BeginAdd, JobType
  <2>2. /\ suggestedCount = Incre * (n + 2) /\ b.limit = suggestedCount
        /\ b.count = suggestedCount /\ b.page.location = suggestedCount - Incre
        /\ b.page.length = Incre
    BY <1>5, <2>1 DEF ReadsNextPage, LoadingPhases
  <2>6. /\ new \in JobType /\ new.phase = "adding" /\ new.count = suggestedCount
        /\ new.page = b.page /\ new.limit = suggestedCount
        /\ new.base = suggestedArray
    BY <1>1, <2>2 DEF JobType
  <2>7. suggestedArray' = suggestedArray
    BY <1>11 DEF BeginAdd
  <2> HIDE DEF new
  <2>8. ReadsNextPage(new, suggestedArray')
    BY <2>2, <2>6, <2>7 DEF ReadsNextPage
  <2>9. new.phase \in LoadingPhases
    BY <2>6 DEF LoadingPhases
  <2> QED
    BY <1>3, <1>4, <1>5, <2>1, <2>6, <2>7, <2>8, <2>9, SerialOne
<1>12. CASE EndAdd(j)
  <2> DEFINE new == [b EXCEPT !.phase = "loaded", !.base = <<>>]
             feed == suggestedArray'
  <2>1. b.phase = "adding" /\ jobs' = [jobs EXCEPT ![j] = new]
    BY <1>1, <1>12 DEF EndAdd, JobType
  <2>2. /\ suggestedCount = Incre * (n + 2) /\ b.base = suggestedArray
        /\ b.page.location = suggestedCount - Incre /\ b.page.length = Incre
    BY <1>5, <2>1 DEF ReadsNextPage, LoadingPhases
  <2>3. new \in JobType /\ new.phase = "loaded"
    <3>1. <<>> \in Seq(Page)
      OBVIOUS
    <3> QED
      BY <1>1, <3>1 DEF JobType
  <2>4. suggestedArray' = Append(suggestedArray, b.page)
    BY <1>12, <2>2 DEF EndAdd
  <2>5. Len(feed) = n + 1
    BY <1>1, <2>4
  <2>6. suggestedCount - Incre = Incre * (n + 1) /\ Incre * (n + 2) = Incre * ((n + 1) + 1)
    BY <1>1, <1>2, <2>2
  <2>7. b.page = [location |-> Incre * (n + 1), length |-> Incre]
    BY <1>1, <2>2, <2>6 DEF Page
  <2>8. PagesInOrder(feed)
    <3> SUFFICES ASSUME NEW i \in DOMAIN feed
                 PROVE  feed[i] = [location |-> Incre * i, length |-> Incre]
      BY DEF PagesInOrder
    <3>1. i \in 1..(n + 1)
      BY <1>1, <2>4
    <3>2. CASE i = n + 1
      BY <1>1, <2>4, <2>7, <3>2
    <3>3. CASE i # n + 1
      <4>1. i \in DOMAIN suggestedArray /\ feed[i] = suggestedArray[i]
        BY <1>1, <2>4, <3>1, <3>3
      <4> QED
        BY <1>5, <4>1 DEF PagesInOrder
    <3> QED
      BY <3>2, <3>3
  <2> HIDE DEF new, feed
  <2>9. ReadsNextPage(new, feed)
    BY <2>3 DEF ReadsNextPage, LoadingPhases
  <2>10. suggestedCount = Incre * (Len(feed) + 1)
    BY <2>2, <2>5, <2>6
  <2> QED
    BY <1>3, <1>4, <2>1, <2>3, <2>8, <2>9, <2>10, SerialOne DEF feed
<1>13. CASE Completehud(j)
  <2> DEFINE new == [b EXCEPT !.phase = "over"]
  <2>1. b.phase = "loaded" /\ jobs' = [jobs EXCEPT ![j] = new]
    BY <1>1, <1>13 DEF Completehud, JobType
  <2>2. new \in JobType /\ new.phase = "over"
    BY <1>1 DEF JobType
  <2>3. suggestedArray' = suggestedArray
    BY <1>13 DEF Completehud
  <2>4. suggestedCount = Incre * (n + 1)
    <3>1. j \in UnderWay
      BY <2>1 DEF UnderWay
    <3>2. \A i \in Jobs : jobs[i].phase \notin LoadingPhases
      BY <1>4, <2>1, <3>1 DEF SerialState, UnderWay, LoadingPhases
    <3> QED
      BY <1>4, <3>2 DEF SerialState
  <2> HIDE DEF new
  <2>5. ReadsNextPage(new, suggestedArray')
    BY <2>2 DEF ReadsNextPage, LoadingPhases
  <2> QED
    BY <1>3, <1>4, <1>5, <2>1, <2>2, <2>3, <2>4, <2>5, SerialOne
<1> QED
  BY <1>7, <1>8, <1>9, <1>10, <1>11, <1>12, <1>13 DEF JobStep

LEMMA SInvNext == SInv /\ [Next]_vars => SInv'
<1> SUFFICES ASSUME SInv, [Next]_vars, Serial' PROVE SerialState'
  BY IInvNext DEF SInv
<1>1. CASE UserStep
  BY <1>1, SerialUser
<1>2. CASE \E j \in Jobs : JobStep(j)
  BY <1>2, SerialJob
<1>3. CASE UNCHANGED vars
  BY <1>3, SerialFrame DEF vars, feedVars, boundVars, Serial
<1> QED
  BY <1>1, <1>2, <1>3 DEF Next

\* While loads take turns and none fails, loadSuggested adds full pages in the
\* order of the ranking, none twice and none left out.
THEOREM SerialPages == Spec => []SerialPagesInOrder
<1>1. SInv => SerialPagesInOrder
  BY DEF SInv, Serial, SerialState, PagesInOrder, SerialPagesInOrder
<1> QED
  BY <1>1, SInvInit, SInvNext, PTL DEF Spec
=============================================================================
