----------------------------- MODULE DetailLikes -----------------------------
(***************************************************************************)
(* Likes of one post: the detail screens showing it (DetailViewController) *)
(* and the server's Post row, Liked table and Notifications table.         *)
(*                                                                         *)
(* A like lives in three places that no transaction ties together: the     *)
(* Post's likeCount, which each screen overwrites with its own copy plus or *)
(* minus one; a Liked row with isEngage = NO; and the screen's `liked`     *)
(* flag.  The Liked table also holds one engagement row per user who has   *)
(* opened the post (isEngage = YES).                                       *)
(*                                                                         *)
(* A screen is one visit: it opens once and closes once, and its requests  *)
(* outlive it.  Any number of them may be open, on several devices or on   *)
(* one, where a profile opened from the post leads to the post again, and  *)
(* none hears of what the others do.  PostSaves models the saves of a      *)
(* screen's Post instance.                                                 *)
(***************************************************************************)
EXTENDS Integers, Sequences, FiniteSets, Functions

CONSTANTS
    Users,
    Author,      \* the user who posted
    Screens,
    UserOf,      \* [Screens -> Users]
    MayLikeAlready, \* users who may like the post before the first visit
    Scenarios    \* what is explored: which of the screens are opened, whether
                 \* their users are patient (each acts only when nothing is
                 \* under way), and bounds on taps on the like button and
                 \* refreshes, per screen, and on requests that fail, time out
                 \* or are executed twice

ASSUME ScreensFinite == IsFiniteSet(Screens)
ASSUME AuthorIsUser == Author \in Users
ASSUME UserOfType == UserOf \in [Screens -> Users]
ASSUME MayLikeAlreadyType == MayLikeAlready \subseteq Users /\ IsFiniteSet(MayLikeAlready)
ASSUME ScenariosType ==
    Scenarios \subseteq [screens : SUBSET Screens, patient : BOOLEAN,
                         taps : Nat, refreshes : Nat, faults : Nat]

\* Requests whose only state is how many of them are on the way.
Kinds == {"findLike", "findEngage", "createLike", "createEngage",
          "newNotif", "createNotif", "findAny"}

VARIABLES
    scenario,   \* the one of Scenarios this behaviour belongs to
    likeCount,  \* the Post row's likeCount
    rows,       \* the Liked table: [id, user, engage], id in creation order
    nextId,
    notifs,     \* Notifications of type 2 for this post
    visit,      \* per screen: "unopened", "open" or "closed"
    liked,      \* per screen: self.liked
    count,      \* per screen: self.obj.likeCount
    dirty, queue, sending, \* per screen: saves of self.obj, see PostSaves
    abandoned, overwritten, \* its attempts without an answer, see PostSaves
    calls,      \* per screen and kind: requests the server has not executed
    readings,   \* per screen and result: answers of findLike on their way back
    deletes,    \* rows whose deletion has been asked for
    behind,     \* history, per screen: what taps on other screens have made
                \* out of date on it, its "count" or its "heart"
    crossed,    \* history: what was out of date on a screen when it was tapped
    taps, likeTaps, refreshes, faults  \* counters: bounds and history

serverVars == <<likeCount, rows, nextId, notifs>>
lateVars == <<abandoned, overwritten>>
saveVars == <<dirty, queue, sending, lateVars>>
requestVars == <<calls, readings, deletes>>
tapVars == <<scenario, behind, crossed, taps, likeTaps, refreshes>>
boundVars == <<tapVars, faults>>
vars == <<serverVars, visit, liked, count, saveVars, requestVars, boundVars>>

-----------------------------------------------------------------------------
INSTANCE PostSaves WITH stored <- likeCount, shown <- count

Likes(u) == {r \in rows : r.user = u /\ ~r.engage}
Engagements(u) == {r \in rows : r.user = u /\ r.engage}
RowsOf(u) == {r \in rows : r.user = u}

\* Deviation: the query orders by ascending createdAt.
Oldest(set) == CHOOSE r \in set : \A q \in set : q.id >= r.id

\* The answer of a query ordered by descending createdAt, limited to one row.
Newest(set) == CHOOSE r \in set : \A q \in set : q.id <= r.id

Call(s, kinds) == [calls EXCEPT ![s] =
                      [k \in Kinds |-> @[k] + IF k \in kinds THEN 1 ELSE 0]]
\* Deviation: a callback runs although its request is over.
AlwaysPending(s, kind) == TRUE

Pending(s, kind) == calls[s][kind] > 0
Answered(s, kind) == [calls EXCEPT ![s][kind] = @ - 1]

\* Nothing of this screen is under way.
QuietScreen(s) ==
    /\ \A k \in Kinds : calls[s][k] = 0
    /\ \A b \in BOOLEAN : readings[s][b] = 0
    /\ NoSaves(s)
Quiet == deletes = {} /\ \A s \in Screens : QuietScreen(s)

UserMayAct == scenario.patient => Quiet

-----------------------------------------------------------------------------
\* Some users like the post already; they have opened it before.
Init ==
    /\ scenario \in Scenarios
    /\ \E likers \in SUBSET MayLikeAlready :
        /\ likeCount = Cardinality(likers)
        /\ \E order \in [likers -> 1..Cardinality(likers)] :
            /\ \A u, v \in likers : u # v => order[u] # order[v]
            /\ rows = {[id |-> 2 * order[u] - 1, user |-> u, engage |-> TRUE] :
                          u \in likers}
                      \cup
                      {[id |-> 2 * order[u], user |-> u, engage |-> FALSE] :
                          u \in likers}
        /\ nextId = 2 * Cardinality(likers) + 1
    /\ notifs = 0
    /\ visit = [s \in Screens |-> "unopened"]
    /\ liked = [s \in Screens |-> FALSE]
    /\ count = [s \in Screens |-> 0]
    /\ SavesInit
    /\ calls = [s \in Screens |-> [k \in Kinds |-> 0]]
    /\ readings = [s \in Screens |-> [b \in BOOLEAN |-> 0]]
    /\ deletes = {}
    /\ behind = [s \in Screens |-> {}] /\ crossed = {}
    /\ taps = [s \in Screens |-> 0]
    /\ likeTaps = [s \in Screens |-> 0]
    /\ refreshes = [s \in Screens |-> 0]
    /\ faults = 0

\* viewDidLoad: refreshUser fetches the post, checkEngage and setDetails query
\* the Liked table, and Post viewed: saves the instance.
Open(s) ==
    /\ visit[s] = "unopened" /\ s \in scenario.screens
    /\ UserMayAct
    /\ visit' = [visit EXCEPT ![s] = "open"]
    /\ count' = [count EXCEPT ![s] = likeCount]
    /\ calls' = Call(s, {"findEngage", "findLike"})
    /\ SaveView(s)
    /\ UNCHANGED <<serverVars, liked, sending, lateVars, readings, deletes, boundVars>>

Close(s) ==
    /\ visit[s] = "open"
    /\ UserMayAct
    /\ visit' = [visit EXCEPT ![s] = "closed"]
    /\ UNCHANGED <<serverVars, liked, count, saveVars, requestVars, boundVars>>

\* fetchComments calls setDetails again (pull to refresh, segment, comment).
Refresh(s) ==
    /\ visit[s] = "open" /\ refreshes[s] < scenario.refreshes
    /\ UserMayAct
    /\ refreshes' = [refreshes EXCEPT ![s] = @ + 1]
    /\ calls' = Call(s, {"findLike"})
    /\ behind' = [behind EXCEPT ![s] = @ \ {"heart"}]
    /\ UNCHANGED <<scenario, serverVars, visit, liked, count, saveVars, readings,
                   deletes, crossed, taps, likeTaps, faults>>

\* What a tap on screen s makes out of date on screen t.
Overtaken(s, t) ==
    IF t = s \/ visit[t] # "open" THEN {}
    ELSE IF UserOf[t] = UserOf[s] THEN {"count", "heart"} ELSE {"count"}

\* visLike/visUnlike and the save that starts dataLike/dataUnlike.
SetLiked(s, value, newCount) ==
    /\ visit[s] = "open" /\ taps[s] < scenario.taps
    /\ UserMayAct
    /\ taps' = [taps EXCEPT ![s] = @ + 1]
    /\ liked' = [liked EXCEPT ![s] = value]
    /\ SaveCount(s, newCount)
    /\ behind' = [t \in Screens |-> behind[t] \cup Overtaken(s, t)]
    /\ crossed' = crossed \cup behind[s]
    /\ UNCHANGED <<scenario, serverVars, visit, sending, lateVars, readings, deletes,
                   refreshes, faults>>

\* triggerLike when the heart is empty: visLike, dataLike.
Like(s) ==
    /\ ~liked[s]
    /\ SetLiked(s, TRUE, count[s] + 1)
    /\ calls' = Call(s, {"createLike"} \cup
                        IF UserOf[s] # Author THEN {"newNotif"} ELSE {})
    /\ likeTaps' = [likeTaps EXCEPT ![s] = @ + 1]

\* Deviation: visUnlike leaves the count alone.
KeptCount(s) == count[s]

CountWithoutLike(s) == count[s] - 1

\* triggerLike when the heart is full: visUnlike, dataUnlike.
Unlike(s) ==
    /\ liked[s]
    /\ SetLiked(s, FALSE, CountWithoutLike(s))
    /\ calls' = Call(s, {"findAny"})
    /\ UNCHANGED likeTaps

-----------------------------------------------------------------------------
(***************************************************************************)
(* Saves of the screen's Post instance, and the notifications that wait    *)
(* for them.                                                               *)
(***************************************************************************)
CollectNotif(s) ==
    /\ Pending(s, "newNotif")
    /\ IF NeedsBatch(s)
       THEN EnqueueBatch(s) /\ calls' = Answered(s, "newNotif")
       ELSE /\ calls' = [Answered(s, "newNotif") EXCEPT ![s]["createNotif"] = @ + 1]
            /\ UNCHANGED queue
    /\ UNCHANGED <<serverVars, visit, liked, count, dirty, sending, lateVars,
                   readings, deletes, boundVars>>

PostSaveTurn(s) ==
    /\ SaveTurn(s)
    /\ UNCHANGED <<rows, nextId, notifs, visit, liked, requestVars, boundVars>>

\* Deviation: the notification that waited for a batch is forgotten.
NothingAfterSave(s) == calls

\* A notification that waited for its post's batch save is created next.
CallsAfterSave(s) ==
    IF sending[s].kind = "batch" THEN Call(s, {"createNotif"}) ELSE calls

PostSaveDone(s) ==
    /\ SaveDone(s)
    /\ calls' = CallsAfterSave(s)
    /\ UNCHANGED <<rows, nextId, notifs, visit, liked, readings, deletes, boundVars>>

PostSaveRetried(s) ==
    /\ faults < scenario.faults
    /\ faults' = faults + 1
    /\ SaveRetried(s, faults')
    /\ UNCHANGED <<rows, nextId, notifs, visit, liked, requestVars, tapVars>>

\* A notification waiting for a batch that fails is never created.
PostSaveFails(s) ==
    /\ faults < scenario.faults
    /\ faults' = faults + 1
    /\ SaveFails(s, faults')
    /\ UNCHANGED <<rows, nextId, notifs, visit, liked, requestVars, tapVars>>

\* An attempt given up is executed after all.
PostSavedLate(a) ==
    /\ ExecuteLate(a)
    /\ UNCHANGED <<rows, nextId, notifs, visit, liked, requestVars, boundVars>>

-----------------------------------------------------------------------------
(***************************************************************************)
(* The Liked and Notifications tables.  A request is executed once, or not *)
(* at all (Fails), or twice because its reply was lost and the command     *)
(* runner sent it again (CreateTwice).                                     *)
(***************************************************************************)
FindLike(s) ==
    /\ Pending(s, "findLike")
    /\ calls' = Answered(s, "findLike")
    /\ readings' = [readings EXCEPT ![s][Likes(UserOf[s]) # {}] = @ + 1]
    /\ UNCHANGED <<serverVars, visit, liked, count, saveVars, deletes, boundVars>>

\* The callback gets nil for an error as for "no such row".
FindLikeFails(s) ==
    /\ Pending(s, "findLike") /\ faults < scenario.faults
    /\ faults' = faults + 1
    /\ calls' = Answered(s, "findLike")
    /\ readings' = [readings EXCEPT ![s][FALSE] = @ + 1]
    /\ UNCHANGED <<serverVars, visit, liked, count, saveVars, deletes, tapVars>>

\* setDetails' callback, whenever it arrives.
ShowLiked(s, b) ==
    /\ readings[s][b] > 0
    /\ readings' = [readings EXCEPT ![s][b] = @ - 1]
    /\ liked' = [liked EXCEPT ![s] = b]
    /\ UNCHANGED <<serverVars, visit, count, saveVars, calls, deletes, boundVars>>

\* checkEngage creates the engagement row if it finds none.
FindEngage(s) ==
    /\ Pending(s, "findEngage")
    /\ calls' = IF Engagements(UserOf[s]) = {}
                THEN [Answered(s, "findEngage") EXCEPT ![s]["createEngage"] = @ + 1]
                ELSE Answered(s, "findEngage")
    /\ UNCHANGED <<serverVars, visit, liked, count, saveVars, readings, deletes,
                   boundVars>>

FindEngageFails(s) ==
    /\ Pending(s, "findEngage") /\ faults < scenario.faults
    /\ faults' = faults + 1
    /\ calls' = [Answered(s, "findEngage") EXCEPT ![s]["createEngage"] = @ + 1]
    /\ UNCHANGED <<serverVars, visit, liked, count, saveVars, readings, deletes,
                   tapVars>>

\* The server executes a create request.
Insert(s, kind) ==
    IF kind = "createNotif"
    THEN notifs' = notifs + 1 /\ UNCHANGED <<rows, nextId>>
    ELSE /\ rows' = rows \cup {[id |-> nextId, user |-> UserOf[s],
                                engage |-> kind = "createEngage"]}
         /\ nextId' = nextId + 1
         /\ UNCHANGED notifs

CreateKinds == {"createLike", "createEngage", "createNotif"}

Create(s, kind) ==
    /\ Pending(s, kind)
    /\ calls' = Answered(s, kind)
    /\ Insert(s, kind)
    /\ UNCHANGED <<likeCount, visit, liked, count, saveVars, readings, deletes,
                   boundVars>>

CreateTwice(s, kind) ==
    /\ Pending(s, kind) /\ faults < scenario.faults
    /\ faults' = faults + 1
    /\ Insert(s, kind)
    /\ UNCHANGED <<likeCount, visit, liked, count, saveVars, requestVars, tapVars>>

CreateFails(s, kind) ==
    /\ Pending(s, kind) /\ faults < scenario.faults
    /\ faults' = faults + 1
    /\ calls' = Answered(s, kind)
    /\ UNCHANGED <<serverVars, visit, liked, count, saveVars, readings, deletes,
                   tapVars>>

\* dataUnlike's query names the post and the user, not isEngage, and its
\* callback deletes the one row it gets.
FindAny(s) ==
    /\ Pending(s, "findAny")
    /\ calls' = Answered(s, "findAny")
    /\ deletes' = IF RowsOf(UserOf[s]) = {} THEN deletes
                  ELSE deletes \cup {Newest(RowsOf(UserOf[s])).id}
    /\ UNCHANGED <<serverVars, visit, liked, count, saveVars, readings, boundVars>>

FindAnyFails(s) ==
    /\ Pending(s, "findAny") /\ faults < scenario.faults
    /\ faults' = faults + 1
    /\ calls' = Answered(s, "findAny")
    /\ UNCHANGED <<serverVars, visit, liked, count, saveVars, readings, deletes,
                   tapVars>>

Delete(id) ==
    /\ id \in deletes
    /\ deletes' = deletes \ {id}
    /\ rows' = {r \in rows : r.id # id}
    /\ UNCHANGED <<likeCount, nextId, notifs, visit, liked, count, saveVars, calls,
                   readings, boundVars>>

DeleteFails(id) ==
    /\ id \in deletes /\ faults < scenario.faults
    /\ faults' = faults + 1
    /\ deletes' = deletes \ {id}
    /\ UNCHANGED <<serverVars, visit, liked, count, saveVars, calls, readings,
                   tapVars>>

-----------------------------------------------------------------------------
UserStep(s) == Open(s) \/ Close(s) \/ Refresh(s) \/ Like(s) \/ Unlike(s)

\* What the SDK, the network and the server do when nothing goes wrong.
ServiceStep(s) ==
    \/ CollectNotif(s) \/ PostSaveTurn(s) \/ PostSaveDone(s)
    \/ FindLike(s) \/ FindEngage(s) \/ FindAny(s)
    \/ \E b \in BOOLEAN : ShowLiked(s, b)
    \/ \E kind \in CreateKinds : Create(s, kind)

FaultStep(s) ==
    \/ PostSaveRetried(s) \/ PostSaveFails(s)
    \/ FindLikeFails(s) \/ FindEngageFails(s) \/ FindAnyFails(s)
    \/ \E kind \in CreateKinds : CreateTwice(s, kind) \/ CreateFails(s, kind)

Next ==
    \/ \E s \in Screens : UserStep(s) \/ ServiceStep(s) \/ FaultStep(s)
    \/ \E id \in deletes : Delete(id) \/ DeleteFails(id)
    \/ \E a \in abandoned : PostSavedLate(a)

Spec == Init /\ [][Next]_vars

\* Every request is answered in the end, and the task queues run.
Progress == \/ \E s \in Screens : ServiceStep(s)
            \/ \E id \in deletes : Delete(id)
FairSpec == Spec /\ WF_vars(Progress)

-----------------------------------------------------------------------------
LikeRows == {r \in rows : ~r.engage}

\* The variables; ids are unique and below nextId, and no callback runs more
\* often than its request was made.
TypeOK ==
    /\ scenario \in Scenarios
    /\ likeCount \in Int /\ nextId \in Nat /\ notifs \in Nat
    /\ rows \subseteq [id : 1..(nextId - 1), user : Users, engage : BOOLEAN]
    /\ \A r, q \in rows : r.id = q.id => r = q
    /\ visit \in [Screens -> {"unopened", "open", "closed"}]
    /\ liked \in [Screens -> BOOLEAN]
    /\ count \in [Screens -> Int]
    /\ SavesType
    /\ calls \in [Screens -> [Kinds -> Nat]]
    /\ readings \in [Screens -> [BOOLEAN -> Nat]]
    /\ deletes \subseteq 1..(nextId - 1)
    /\ taps \in [Screens -> Nat] /\ likeTaps \in [Screens -> Nat]
    /\ refreshes \in [Screens -> Nat] /\ faults \in Nat
    /\ behind \in [Screens -> SUBSET {"count", "heart"}]
    /\ crossed \subseteq {"count", "heart"}

\* When users wait for their taps to settle and no request is lost, the three
\* places a like lives in agree whenever nothing is under way, however many
\* screens are open: likeCount is the number of Liked rows with isEngage = NO.
\* Excepted is what the code does get wrong: a tap on a screen that was opened
\* before somebody else's tap saves its own old count plus or minus one.
CountMatchesRows ==
    scenario.patient /\ faults = 0 /\ "count" \notin crossed /\ Quiet =>
        likeCount = Cardinality(LikeRows)

\* ... and an open screen's heart is full exactly if its user has such a row,
\* of which there is never a second one.  Excepted is a screen whose user has
\* tapped another one since its last refresh, until it is refreshed, and all
\* that follows from a tap on such a screen.
HeartMatchesRows ==
    scenario.patient /\ faults = 0 /\ "heart" \notin crossed /\ Quiet =>
        /\ \A s \in Screens : visit[s] = "open" /\ "heart" \notin behind[s] =>
               liked[s] = (Likes(UserOf[s]) # {})
        /\ \A u \in Users : Cardinality(Likes(u)) <= 1

\* A screen that is alone with the post, whatever its user taps, in whatever
\* order saves and batch saves run, are retried and fail: once its saves are
\* over and nothing is left unsaved, the server has the count the screen shows,
\* unless an attempt given up has been executed after the last one.
ServerHasShownCount ==
    \A s \in Screens :
        /\ visit[s] # "unopened"
        /\ \A t \in Screens \ {s} : visit[t] = "unopened"
        /\ sending[s] = Idle /\ dirty[s] = {}
        => likeCount = count[s] \/ overwritten

\* Every like of somebody else's post leads to one notification, also when it
\* has to wait for a batch save of the post; a fault loses or doubles one.
LikesNotified ==
    LET due == FoldFunctionOnSet(+, 0, likeTaps,
                                 {s \in Screens : UserOf[s] # Author})
    IN  /\ notifs <= due + faults
        /\ Quiet => notifs >= due - faults

\* Unliking deletes likes: an engagement row, once created, is never deleted.
UnlikeKeepsEngagements ==
    [][\A r \in rows \ rows' : ~r.engage]_vars

\* Every tap, refresh and visit comes to rest: no request, task or callback
\* waits for ever on another.
ComesToRest == []<>Quiet
=============================================================================
