------------------------------- MODULE HomeFeed -------------------------------
(***************************************************************************)
(* The global and the following feed of the home screen                    *)
(* (HomeViewController).  The collection view shows postArray.  makeQuery  *)
(* asks for the newest postCount posts, and its callback appends those     *)
(* beyond the end of postArray, whatever postArray is by then; homeArray   *)
(* and followingArray keep what each feed has shown.  followingArray is    *)
(* also the list of followed users, and every feed change starts from it.  *)
(*                                                                         *)
(* Of the suggested feed (SuggestedFeed) only the first page is here, for  *)
(* which suggestedCount has gone from Incre to twice that.                 *)
(***************************************************************************)
EXTENDS Integers, Sequences, SequencesExt

CONSTANTS
    Users,
    Me,          \* the current user
    Followed,    \* the users Me follows, in the order of the Follower query
    MaxPosts,    \* bound: posts, which are numbered in the order of creation
    AuthorOf,    \* [1..MaxPosts -> Users]
    Suggestions, \* the first page of suggested posts, of those that exist
    Incre,       \* posts per page: 15
    Scenarios    \* what is explored: whether the user is patient (acts only
                 \* when no answer is due), and bounds on posts, on refreshes,
                 \* feed changes and ends of the feed reached, and on queries
                 \* that fail

ASSUME FollowedType == Followed \in Seq(Users \ {Me})
ASSUME IncreType == Incre \in Nat \ {0}
ASSUME MaxPostsType == MaxPosts \in Nat
ASSUME AuthorOfType == AuthorOf \in [1..MaxPosts -> Users]
ASSUME SuggestionsType == Suggestions \in Seq(1..MaxPosts)
ASSUME ScenariosType ==
    Scenarios \subseteq [patient : BOOLEAN, posts : 0..MaxPosts, taps : Nat,
                         faults : Nat]

VARIABLES
    scenario,       \* the one of Scenarios this behaviour belongs to
    posts,          \* the number of posts on the server
    isForYou, isGlobal, postCount,
    postArray, homeArray, followingArray, \* sequences of posts or users
    nils,           \* those of the three that are nil, and count no entries
    didInitSuggested, suggestedArray,
    queries,        \* post queries the server has not executed
    answers,        \* their results, on the way to the callback
    followQueries,  \* loadFollowers queries under way
    didPosts,       \* own posts created whose callback is due
    disturbed,      \* history: a post has come the feed was not cleared for
    left,           \* history: has the user left the global feed
    taps, faults    \* counters for the bounds

feedVars == <<isForYou, isGlobal>>
arrayVars == <<postArray, homeArray, followingArray, nils>>
suggestedVars == <<didInitSuggested, suggestedArray>>
requestVars == <<queries, answers, followQueries>>
vars == <<scenario, posts, feedVars, postCount, arrayVars, suggestedVars,
          requestVars, didPosts, disturbed, left, taps, faults>>

-----------------------------------------------------------------------------
\* The nil arrays once `to` is a mutableCopy of `from`.
Copied(from, to) == (nils \ {to}) \cup IF from \in nils THEN {to} ELSE {}

NewestFirst == [i \in 1..posts |-> posts + 1 - i]

FirstOf(list, n) == SubSeq(list, 1, IF n < Len(list) THEN n ELSE Len(list))

\* The entries of list that are in set, in their order.
Selected(list, set) ==
    LET upTo[i \in 0..Len(list)] ==
            IF i = 0 THEN <<>>
            ELSE IF list[i] \in set THEN Append(upTo[i - 1], list[i])
            ELSE upTo[i - 1]
    IN  upTo[Len(list)]

\* The answer to a query; authors that are no users match nothing.
Found(q) ==
    FirstOf(IF q.global THEN NewestFirst
            ELSE Selected(NewestFirst, {p \in 1..posts : AuthorOf[p] \in q.authors}),
            q.limit)

Quiet == queries = {} /\ answers = {} /\ followQueries = 0 /\ didPosts = 0
UserMayAct == taps < scenario.taps /\ (scenario.patient => Quiet)
Tap == taps' = taps + 1

\* What a query off the global feed asks for: the list as it is.  A nil list
\* leaves the condition on the author empty, which the server may take for one
\* that nothing meets, or for none.
AuthorFilters ==
    IF "following" \in nils THEN {{}, Users} ELSE {ToSet(followingArray) \cap Users}

\* makeQuery, unless the suggested feed waits for its first page.  Off the
\* global feed the list is loaded anew.
MakeQuery(forYou, global, limit) ==
    IF forYou /\ ~didInitSuggested THEN UNCHANGED requestVars
    ELSE /\ \E authors \in IF global THEN {{}} ELSE AuthorFilters :
               queries' = queries \cup {[no |-> taps, global |-> global,
                                         limit |-> limit, authors |-> authors]}
         /\ followQueries' = followQueries + IF global THEN 0 ELSE 1
         /\ UNCHANGED answers

-----------------------------------------------------------------------------
\* viewDidLoad, with the first query sent.
Init ==
    /\ scenario \in Scenarios
    /\ posts \in 0..scenario.posts
    /\ isForYou = FALSE /\ isGlobal = TRUE /\ postCount = Incre
    /\ postArray = <<>> /\ homeArray = <<>> /\ followingArray = <<>>
    /\ nils = {"home", "following"}
    /\ didInitSuggested = FALSE /\ suggestedArray = <<>>
    /\ queries = {[no |-> 0, global |-> TRUE, limit |-> Incre, authors |-> {}]}
    /\ answers = {} /\ followQueries = 1 /\ didPosts = 0
    /\ disturbed = FALSE /\ left = FALSE
    /\ taps = 1 /\ faults = 0

\* The screen appears again: loadFollowers.
ViewDidAppear ==
    /\ UserMayAct /\ Tap
    /\ followQueries' = followQueries + 1
    /\ UNCHANGED <<scenario, posts, feedVars, postCount, arrayVars,
                   suggestedVars, queries, answers, didPosts, disturbed,
                   left, faults>>

\* changedFeedType:
ToFollowing ==
    /\ UserMayAct /\ Tap
    /\ isForYou \/ isGlobal
    /\ isForYou' = FALSE /\ isGlobal' = FALSE
    /\ postCount' = Len(followingArray) + Incre
    /\ postArray' = followingArray /\ nils' = Copied("following", "post")
    /\ MakeQuery(FALSE, FALSE, postCount')
    /\ left' = TRUE
    /\ UNCHANGED <<scenario, posts, homeArray, followingArray, suggestedVars,
                   didPosts, disturbed, faults>>

ToSuggested ==
    /\ UserMayAct /\ Tap
    /\ ~isForYou
    /\ isForYou' = TRUE /\ isGlobal' = FALSE
    /\ postCount' \in IF didInitSuggested THEN {2 * Incre} ELSE {Incre, 2 * Incre}
    /\ postArray' = suggestedArray /\ nils' = nils \ {"post"}
    /\ left' = TRUE
    /\ UNCHANGED <<scenario, posts, homeArray, followingArray, suggestedVars,
                   requestVars, didPosts, disturbed, faults>>

\* Deviation: the global feed starts from what the last feed has shown.
KeptArray == postArray

ArrayOfGlobal == homeArray

ToGlobal ==
    /\ UserMayAct /\ Tap
    /\ ~isGlobal
    /\ isForYou' = FALSE /\ isGlobal' = TRUE
    /\ postCount' = Len(homeArray) + Incre
    /\ postArray' = ArrayOfGlobal /\ nils' = Copied("home", "post")
    /\ MakeQuery(FALSE, TRUE, postCount')
    /\ UNCHANGED <<scenario, posts, homeArray, followingArray, suggestedVars,
                   didPosts, disturbed, left, faults>>

\* Pull to refresh.
Refresh ==
    /\ UserMayAct /\ Tap
    /\ MakeQuery(isForYou, isGlobal, postCount)
    /\ UNCHANGED <<scenario, posts, feedVars, postCount, arrayVars,
                   suggestedVars, didPosts, disturbed, left, faults>>

\* willDisplayCell for the last row, which may be in sight at once.
ReachBottom ==
    /\ taps < scenario.taps /\ Tap
    /\ ~isForYou /\ postArray # <<>>
    /\ postCount' = postCount + Incre
    /\ MakeQuery(FALSE, isGlobal, postCount')
    /\ UNCHANGED <<scenario, posts, feedVars, arrayVars, suggestedVars,
                   didPosts, disturbed, left, faults>>

\* A post is created; if it is the user's own, didPost is called back.
NewPost ==
    /\ posts < scenario.posts
    /\ posts' = posts + 1
    /\ AuthorOf[posts'] = Me => UserMayAct
    /\ didPosts' = didPosts + IF AuthorOf[posts'] = Me THEN 1 ELSE 0
    /\ disturbed' = TRUE
    /\ UNCHANGED <<scenario, feedVars, postCount, arrayVars, suggestedVars,
                   requestVars, left, taps, faults>>

\* Deviation: the feed is not emptied.
NotCleared == postArray

ClearedArray == <<>>

\* didPost; to empty nil does nothing.
DidPost ==
    /\ didPosts > 0 /\ taps < scenario.taps /\ Tap
    /\ didPosts' = didPosts - 1
    /\ postCount' = Incre
    /\ postArray' = ClearedArray
    /\ MakeQuery(isForYou, isGlobal, Incre)
    /\ disturbed' = (disturbed /\ ~(isGlobal /\ queries = {} /\ answers = {}))
    /\ UNCHANGED <<scenario, posts, feedVars, homeArray, followingArray, nils,
                   suggestedVars, left, faults>>

\* loadSuggested, on a background thread, adds the first page,
AddPage ==
    /\ ~didInitSuggested /\ suggestedArray = <<>>
    /\ suggestedArray' = Selected(Suggestions, 1..posts)
    /\ UNCHANGED <<scenario, posts, feedVars, postCount, arrayVars,
                   didInitSuggested, requestVars, didPosts, disturbed, left, taps,
                   faults>>

\* ... unless its query failed, and completehud follows on the main queue.
FirstPage ==
    /\ ~didInitSuggested
    /\ didInitSuggested' = TRUE
    /\ postArray' = IF isForYou THEN suggestedArray ELSE postArray
    /\ nils' = nils \ IF isForYou THEN {"post"} ELSE {}
    /\ postCount' = IF isForYou THEN 2 * Incre ELSE postCount
    /\ UNCHANGED <<scenario, posts, feedVars, homeArray, followingArray,
                   suggestedArray, requestVars, didPosts, disturbed, left, taps,
                   faults>>

-----------------------------------------------------------------------------
ExecuteQuery(q) ==
    /\ q \in queries
    /\ queries' = queries \ {q}
    /\ answers' = answers \cup {[no |-> q.no, found |-> Found(q)]}
    /\ UNCHANGED <<scenario, posts, feedVars, postCount, arrayVars,
                   suggestedVars, followQueries, didPosts, disturbed, left,
                   taps, faults>>

\* The callback takes nil for an answer without posts.
QueryFails(q) ==
    /\ q \in queries /\ faults < scenario.faults
    /\ faults' = faults + 1
    /\ queries' = queries \ {q}
    /\ answers' = answers \cup {[no |-> q.no, found |-> <<>>]}
    /\ UNCHANGED <<scenario, posts, feedVars, postCount, arrayVars,
                   suggestedVars, followQueries, didPosts, disturbed, left,
                   taps>>

\* Deviation: the whole answer is appended.
AllAppended(found) == postArray \o found

\* Nothing is added to nil.
Extended(found) ==
    IF "post" \in nils THEN postArray
    ELSE postArray \o SubSeq(found, Len(postArray) + 1, Len(found))

\* makeQuery's callback, on the feed shown by then.
ShowAnswer(a) ==
    /\ a \in answers
    /\ answers' = answers \ {a}
    /\ IF Len(postArray) = Len(a.found) THEN UNCHANGED arrayVars
       ELSE /\ postArray' = Extended(a.found)
            /\ homeArray' = IF isGlobal THEN postArray' ELSE homeArray
            /\ followingArray' = IF isGlobal THEN followingArray ELSE postArray'
            /\ nils' = Copied("post", IF isGlobal THEN "home" ELSE "following")
    /\ UNCHANGED <<scenario, posts, feedVars, postCount, suggestedVars,
                   queries, followQueries, didPosts, disturbed, left, taps,
                   faults>>

\* loadFollowers' callback.
FollowersLoaded ==
    /\ followQueries > 0
    /\ followQueries' = followQueries - 1
    /\ followingArray' = Followed /\ nils' = nils \ {"following"}
    /\ UNCHANGED <<scenario, posts, feedVars, postCount, postArray, homeArray,
                   suggestedVars, queries, answers, didPosts, disturbed,
                   left, taps, faults>>

LoadFollowersFails ==
    /\ followQueries > 0 /\ faults < scenario.faults
    /\ faults' = faults + 1
    /\ followQueries' = followQueries - 1
    /\ UNCHANGED <<scenario, posts, feedVars, postCount, arrayVars,
                   suggestedVars, queries, answers, didPosts, disturbed,
                   left, taps>>

Next ==
    \/ ViewDidAppear \/ ToFollowing \/ ToSuggested \/ ToGlobal \/ Refresh
    \/ ReachBottom \/ NewPost \/ DidPost \/ AddPage \/ FirstPage
    \/ \E q \in queries : ExecuteQuery(q) \/ QueryFails(q)
    \/ \E a \in answers : ShowAnswer(a)
    \/ FollowersLoaded \/ LoadFollowersFails

Spec == Init /\ [][Next]_vars

-----------------------------------------------------------------------------
\* The variables; only posts that exist are in an array, and none in nil.
TypeOK ==
    /\ scenario \in Scenarios
    /\ posts \in 0..MaxPosts
    /\ isForYou \in BOOLEAN /\ isGlobal \in BOOLEAN /\ ~(isForYou /\ isGlobal)
    /\ postCount \in Nat
    /\ \A array \in {postArray, homeArray, followingArray} : array \in Seq(Users \cup (1..posts))
    /\ homeArray \in Seq(1..posts)
    /\ nils \subseteq {"post", "home", "following"}
    /\ "post" \in nils => postArray = <<>>
    /\ "home" \in nils => homeArray = <<>>
    /\ "following" \in nils => followingArray = <<>>
    /\ didInitSuggested \in BOOLEAN /\ suggestedArray \in Seq(1..posts)
    /\ \A q \in queries : q.limit \in Nat /\ q.authors \subseteq Users
    /\ \A a \in answers : a.found \in Seq(1..posts)
    /\ followQueries \in Nat /\ didPosts \in Nat
    /\ disturbed \in BOOLEAN /\ left \in BOOLEAN
    /\ taps \in Nat /\ faults \in Nat

\* A user who stays on the global feed, however fast he scrolls and refreshes
\* and in whatever order the answers come, sees the newest posts in order,
\* none missing and none twice, as long as no post comes from elsewhere.
GlobalInOrder ==
    ~left /\ ~disturbed => IsPrefix(postArray, NewestFirst)

\* A user who waits for every answer finds, whatever feeds he has looked at,
\* the newest postCount posts on the global feed, also after posting there:
\* unless he has come back to it when it had not shown a post yet, and so to an
\* array that is nil and stays empty.
GlobalComplete ==
    scenario.patient /\ Quiet /\ isGlobal /\ "post" \notin nils /\ ~disturbed
        /\ faults = 0 => postArray = FirstOf(NewestFirst, postCount)

\* followingArray is the list of users the current user follows.
FollowingHoldsUsers == followingArray \in Seq(Users)
=============================================================================
