--------------------------- MODULE DetailLikesProofs ---------------------------
(***************************************************************************)
(* Proofs about DetailLikes, for any number of users, screens, taps,       *)
(* refreshes and faults.                                                   *)
(***************************************************************************)
EXTENDS DetailLikes, SumTheorems

Task == {"save", "batch"}

ServerOK ==
    /\ likeCount \in Int /\ nextId \in Nat \ {0} /\ notifs \in Nat
    /\ rows \subseteq [id : 1..(nextId - 1), user : Users, engage : BOOLEAN]
    /\ \A r, q \in rows : r.id = q.id => r = q
    /\ deletes \subseteq 1..(nextId - 1)

ScreenOK ==
    /\ visit \in [Screens -> {"unopened", "open", "closed"}]
    /\ liked \in [Screens -> BOOLEAN]
    /\ count \in [Screens -> Int]

RequestsOK ==
    /\ calls \in [Screens -> [Kinds -> Nat]]
    /\ readings \in [Screens -> [BOOLEAN -> Nat]]

BoundsOK ==
    /\ scenario \in Scenarios
    /\ taps \in [Screens -> Nat] /\ likeTaps \in [Screens -> Nat]
    /\ refreshes \in [Screens -> Nat] /\ faults \in Nat
    /\ behind \in [Screens -> SUBSET {"count", "heart"}]
    /\ crossed \subseteq {"count", "heart"}

\* A screen that was never opened has nothing to save.
FreshOK == \A s \in Screens : visit[s] = "unopened" => NoSaves(s) /\ dirty[s] = {}

\* A heart is out of date only where the count is.
StaleOK ==
    /\ \A s \in Screens : "heart" \in behind[s] => "count" \in behind[s]
    /\ "heart" \in crossed => "count" \in crossed

\* An attempt is given up by a fault, and named after it.
LateOK == \A a \in abandoned : a.id \in 1..faults

IInv == /\ ServerOK /\ ScreenOK /\ SavesType /\ RequestsOK /\ BoundsOK /\ FreshOK
        /\ StaleOK /\ LateOK

Step(s) == UserStep(s) \/ ServiceStep(s) \/ FaultStep(s)
DeleteStep == \E id \in deletes : Delete(id) \/ DeleteFails(id)
LateStep == \E a \in abandoned : PostSavedLate(a)

LEMMA TypeOfIInv == IInv => TypeOK
BY DEF IInv, TypeOK, ServerOK, ScreenOK, RequestsOK, BoundsOK

-----------------------------------------------------------------------------
(***************************************************************************)
(* The newest row of a user exists.                                        *)
(***************************************************************************)
LEMMA NewestExists ==
    ASSUME ServerOK, NEW set, set \subseteq rows, set # {}
    PROVE  /\ Newest(set) \in set
           /\ \A q \in set : q.id <= Newest(set).id
<1> DEFINE T == {nextId - r.id : r \in set}
<1>1. \A r \in set : r.id \in 1..(nextId - 1)
  BY DEF ServerOK
<1>2. T \subseteq Nat /\ T # {}
  BY <1>1 DEF ServerOK
<1>3. PICK x \in T : \A y \in T : x <= y
  BY <1>2, Smallest
<1>4. PICK r \in set : x = nextId - r.id
  BY <1>3
<1>5. \A q \in set : q.id <= r.id
  <2> SUFFICES ASSUME NEW q \in set PROVE q.id <= r.id
    OBVIOUS
  <2>1. nextId - r.id <= nextId - q.id
    BY <1>3, <1>4
  <2> QED
    BY <1>1, <2>1 DEF ServerOK
<1>6. \E p \in set : \A q \in set : q.id <= p.id
  BY <1>5
<1> QED
  BY <1>6 DEF Newest

-----------------------------------------------------------------------------
(***************************************************************************)
(* Counters of requests.                                                   *)
(***************************************************************************)
LEMMA CallType ==
    ASSUME RequestsOK, NEW s \in Screens, NEW kinds
    PROVE  Call(s, kinds) \in [Screens -> [Kinds -> Nat]]
<1>1. calls[s] \in [Kinds -> Nat]
  BY DEF RequestsOK
<1>2. [k \in Kinds |-> calls[s][k] + IF k \in kinds THEN 1 ELSE 0] \in [Kinds -> Nat]
  BY <1>1
<1> QED
  BY <1>2 DEF Call, RequestsOK

LEMMA CallValue ==
    ASSUME RequestsOK, NEW s \in Screens, NEW kinds, NEW c, c = Call(s, kinds)
    PROVE  /\ \A k \in Kinds : c[s][k] = calls[s][k] + IF k \in kinds THEN 1 ELSE 0
           /\ \A t \in Screens \ {s} : c[t] = calls[t]
BY DEF Call, RequestsOK

LEMMA AnsweredType ==
    ASSUME RequestsOK, NEW s \in Screens, NEW kind \in Kinds, Pending(s, kind)
    PROVE  Answered(s, kind) \in [Screens -> [Kinds -> Nat]]
<1>1. calls[s] \in [Kinds -> Nat] /\ calls[s][kind] - 1 \in Nat
  BY DEF RequestsOK, Pending
<1>2. [calls[s] EXCEPT ![kind] = @ - 1] \in [Kinds -> Nat]
  BY <1>1
<1> QED
  BY <1>2 DEF Answered, RequestsOK

LEMMA AnsweredValue ==
    ASSUME RequestsOK, NEW s \in Screens, NEW kind \in Kinds, NEW c, c = Answered(s, kind)
    PROVE  /\ c[s][kind] = calls[s][kind] - 1
           /\ \A k \in Kinds \ {kind} : c[s][k] = calls[s][k]
           /\ \A t \in Screens \ {s} : c[t] = calls[t]
BY DEF Answered, RequestsOK

\* A request answered that starts another one.
Replaced(s, kind, next) == [Answered(s, kind) EXCEPT ![s][next] = @ + 1]

LEMMA ReplacedType ==
    ASSUME RequestsOK, NEW s \in Screens, NEW kind \in Kinds, Pending(s, kind),
           NEW next \in Kinds
    PROVE  Replaced(s, kind, next) \in [Screens -> [Kinds -> Nat]]
<1>1. Answered(s, kind) \in [Screens -> [Kinds -> Nat]]
  BY AnsweredType
<1> DEFINE a == Answered(s, kind)
<1> HIDE DEF a
<1>2. a \in [Screens -> [Kinds -> Nat]]
  BY <1>1 DEF a
<1>3. [a[s] EXCEPT ![next] = @ + 1] \in [Kinds -> Nat]
  BY <1>2
<1> QED
  BY <1>2, <1>3 DEF Replaced, a

LEMMA ReplacedValue ==
    ASSUME RequestsOK, NEW s \in Screens, NEW kind \in Kinds, NEW next \in Kinds \ {kind},
           NEW c, c = Replaced(s, kind, next), Pending(s, kind)
    PROVE  /\ c[s][kind] = calls[s][kind] - 1
           /\ c[s][next] = calls[s][next] + 1
           /\ \A k \in Kinds \ {kind, next} : c[s][k] = calls[s][k]
           /\ \A t \in Screens \ {s} : c[t] = calls[t]
<1> DEFINE a == Answered(s, kind)
<1>1. a \in [Screens -> [Kinds -> Nat]]
  BY AnsweredType
<1>2. /\ a[s][kind] = calls[s][kind] - 1
      /\ \A k \in Kinds \ {kind} : a[s][k] = calls[s][k]
      /\ \A t \in Screens \ {s} : a[t] = calls[t]
  BY AnsweredValue
<1> HIDE DEF a
<1>3. c = [a EXCEPT ![s][next] = @ + 1]
  BY DEF Replaced, a
<1> QED
  BY <1>1, <1>2, <1>3

-----------------------------------------------------------------------------
\* The rows of those who like the post already: an engagement, then the like.
LEMMA RowsInit ==
    ASSUME Init
    PROVE  ServerOK
<1>0. PICK likers \in SUBSET MayLikeAlready :
          /\ likeCount = Cardinality(likers)
          /\ \E order \in [likers -> 1..Cardinality(likers)] :
                /\ \A u, v \in likers : u # v => order[u] # order[v]
                /\ rows = {[id |-> 2 * order[u] - 1, user |-> u, engage |-> TRUE] :
                               u \in likers}
                          \cup {[id |-> 2 * order[u], user |-> u, engage |-> FALSE] :
                                    u \in likers}
          /\ nextId = 2 * Cardinality(likers) + 1
  BY DEF Init
<1>1. PICK order \in [likers -> 1..Cardinality(likers)] :
          /\ \A u, v \in likers : u # v => order[u] # order[v]
          /\ rows = {[id |-> 2 * order[u] - 1, user |-> u, engage |-> TRUE] : u \in likers}
                    \cup {[id |-> 2 * order[u], user |-> u, engage |-> FALSE] : u \in likers}
  BY <1>0
<1>2. Cardinality(likers) \in Nat
  BY MayLikeAlreadyType, FS_Subset, FS_CardinalityType
<1>3. ASSUME NEW r \in rows
      PROVE  \E u \in likers : /\ r.id = 2 * order[u] - (IF r.engage THEN 1 ELSE 0)
                               /\ r.user = u /\ r.engage \in BOOLEAN
                               /\ r = [id |-> r.id, user |-> u, engage |-> r.engage]
  <2>1. CASE r \in {[id |-> 2 * order[u] - 1, user |-> u, engage |-> TRUE] : u \in likers}
    <3>1. PICK u \in likers : r = [id |-> 2 * order[u] - 1, user |-> u, engage |-> TRUE]
      BY <2>1
    <3>2. r.id = 2 * order[u] - 1 /\ r.user = u /\ r.engage = TRUE
      BY <3>1
    <3>3. r = [id |-> r.id, user |-> u, engage |-> r.engage]
      BY <3>1, <3>2
    <3> QED
      BY <3>2, <3>3
  <2>2. CASE r \in {[id |-> 2 * order[u], user |-> u, engage |-> FALSE] : u \in likers}
    <3>1. PICK u \in likers : r = [id |-> 2 * order[u], user |-> u, engage |-> FALSE]
      BY <2>2
    <3>2. r.id = 2 * order[u] /\ r.user = u /\ r.engage = FALSE
      BY <3>1
    <3>3. r = [id |-> r.id, user |-> u, engage |-> r.engage]
      BY <3>1, <3>2
    <3>4. 2 * order[u] \in Int
      <4>1. order[u] \in 1..Cardinality(likers)
        OBVIOUS
      <4> QED
        BY <4>1
    <3>5. r.id = 2 * order[u] - (IF r.engage THEN 1 ELSE 0)
      BY <3>2, <3>4
    <3> QED
      BY <3>2, <3>3, <3>5, Zenon
  <2> QED
    BY <1>1, <2>1, <2>2
<1>4. \A u \in likers : order[u] \in Nat \ {0} /\ order[u] <= Cardinality(likers) /\ u \in Users
  BY <1>1, <1>2, MayLikeAlreadyType
<1>5. \A r \in rows : r \in [id : 1..(nextId - 1), user : Users, engage : BOOLEAN]
  <2> SUFFICES ASSUME NEW r \in rows
               PROVE  r \in [id : 1..(nextId - 1), user : Users, engage : BOOLEAN]
    OBVIOUS
  <2>1. PICK u \in likers : /\ r.id = 2 * order[u] - (IF r.engage THEN 1 ELSE 0)
                            /\ r.user = u /\ r.engage \in BOOLEAN
                            /\ r = [id |-> r.id, user |-> u, engage |-> r.engage]
    BY <1>3
  <2>2. r.id \in 1..(nextId - 1)
    BY <1>0, <1>2, <1>4, <2>1
  <2> QED
    BY <1>4, <2>1, <2>2
<1>6. ASSUME NEW r \in rows, NEW q \in rows, r.id = q.id PROVE r = q
  <2>1. PICK u \in likers : /\ r.id = 2 * order[u] - (IF r.engage THEN 1 ELSE 0)
                            /\ r.user = u /\ r.engage \in BOOLEAN
                            /\ r = [id |-> r.id, user |-> u, engage |-> r.engage]
    BY <1>3
  <2>2. PICK v \in likers : /\ q.id = 2 * order[v] - (IF q.engage THEN 1 ELSE 0)
                            /\ q.user = v /\ q.engage \in BOOLEAN
                            /\ q = [id |-> q.id, user |-> v, engage |-> q.engage]
    BY <1>3
  <2>3. order[u] \in Nat /\ order[v] \in Nat
    BY <1>4
  <2>4. order[u] = order[v] /\ r.engage = q.engage
    BY <1>6, <2>1, <2>2, <2>3
  <2>5. u = v
    BY <1>1, <2>4
  <2> QED
    BY <1>6, <2>1, <2>2, <2>4, <2>5
<1>7. likeCount \in Int /\ nextId \in Nat \ {0}
  BY <1>0, <1>2
<1>8. notifs \in Nat /\ deletes \subseteq 1..(nextId - 1)
  BY DEF Init
<1> QED
  BY <1>5, <1>6, <1>7, <1>8 DEF ServerOK

LEMMA IInvInit == Init => IInv
<1> SUFFICES ASSUME Init PROVE IInv
  OBVIOUS
<1>1. ScreenOK
  BY DEF Init, ScreenOK
<1>2. SavesType
  <2>1. <<>> \in Seq(Task)
    OBVIOUS
  <2>2. abandoned = {} /\ overwritten = FALSE
    BY DEF Init, SavesInit
  <2>3. /\ dirty \in [Screens -> SUBSET KeySet]
        /\ queue \in [Screens -> Seq({"save", "batch"})]
        /\ sending \in [Screens -> [kind : {"idle", "save", "batch"},
                                    keys : SUBSET KeySet, count : Int]]
    BY <2>1 DEF Init, SavesInit, Idle, KeySet, Task
  <2> QED
    BY <2>2, <2>3 DEF SavesType
<1>3. RequestsOK
  BY DEF Init, RequestsOK
<1>4. BoundsOK
  BY DEF Init, BoundsOK
<1>5. FreshOK
  BY DEF Init, SavesInit, FreshOK, NoSaves
<1>6. LateOK /\ StaleOK
  BY DEF Init, SavesInit, LateOK, StaleOK
<1> QED
  BY <1>1, <1>2, <1>3, <1>4, <1>5, <1>6, RowsInit DEF IInv

-----------------------------------------------------------------------------
(***************************************************************************)
(* What a step of a screen may do.                                         *)
(***************************************************************************)
LEMMA Changes ==
    ASSUME NEW s \in Screens, Step(s)
    PROVE  /\ scenario' = scenario
           /\ faults' = faults \/ faults' = faults + 1
           /\ taps' = taps \/ taps' = [taps EXCEPT ![s] = taps[s] + 1]
           /\ likeTaps' = likeTaps \/ likeTaps' = [likeTaps EXCEPT ![s] = likeTaps[s] + 1]
           /\ refreshes' = refreshes \/ refreshes' = [refreshes EXCEPT ![s] = refreshes[s] + 1]
           /\ \/ visit' = visit
              \/ Open(s) /\ visit' = [visit EXCEPT ![s] = "open"]
              \/ Close(s) /\ visit' = [visit EXCEPT ![s] = "closed"]
           /\ liked' = liked \/ \E b \in BOOLEAN : liked' = [liked EXCEPT ![s] = b]
           /\ \/ count' = count \/ count' = [count EXCEPT ![s] = likeCount]
              \/ count' = [count EXCEPT ![s] = count[s] + 1]
              \/ count' = [count EXCEPT ![s] = count[s] - 1]
           /\ \/ dirty' = dirty \/ dirty' = [dirty EXCEPT ![s] = {"numViews"}]
              \/ dirty' = [dirty EXCEPT ![s] = dirty[s] \cup {"count"}]
              \/ dirty' = [dirty EXCEPT ![s] = {}]
              \/ dirty' = [dirty EXCEPT ![s] = DirtyAgain(s)]
           /\ \/ queue' = queue \/ queue' = [queue EXCEPT ![s] = <<"save">>]
              \/ queue' = [queue EXCEPT ![s] = Append(queue[s], "save")]
              \/ queue' = [queue EXCEPT ![s] = Append(queue[s], "batch")]
              \/ queue[s] # <<>> /\ queue' = [queue EXCEPT ![s] = Tail(queue[s])]
           /\ \/ sending' = sending \/ sending' = [sending EXCEPT ![s] = Idle]
              \/ queue[s] # <<>> /\ sending' = [sending EXCEPT ![s] =
                     [kind |-> Head(queue[s]), keys |-> dirty[s], count |-> count[s]]]
<1>1. CASE UserStep(s)
  BY <1>1
  DEF UserStep, Open, Close, Refresh, Like, Unlike, SetLiked, SaveView, SaveCount,
      CountWithoutLike, boundVars, tapVars, saveVars
<1>2. CASE ServiceStep(s)
  BY <1>2
  DEF ServiceStep, CollectNotif, EnqueueBatch, PostSaveTurn, SaveTurn, QueueAfterTurn,
      PostSaveDone, SaveDone, FindLike, FindEngage, FindAny, ShowLiked, Create,
      boundVars, tapVars, saveVars
<1>3. CASE FaultStep(s)
  BY <1>3
  DEF FaultStep, PostSaveRetried, SaveRetried, PostSaveFails, SaveFails, FindLikeFails,
      FindEngageFails, FindAnyFails, CreateTwice, CreateFails, boundVars, tapVars, saveVars
<1> QED
  BY <1>1, <1>2, <1>3 DEF Step

\* A step of a screen may leave an attempt without an answer.
LEMMA LateChanges ==
    ASSUME NEW s \in Screens, Step(s)
    PROVE  /\ \/ overwritten' = overwritten
              \/ overwritten' = FALSE /\ "count" \in sending[s].keys
           /\ \/ abandoned' = abandoned
              \/ /\ faults' = faults + 1
                 /\ abandoned' = abandoned \cup Attempt(s, faults')
<1>1. CASE UserStep(s)
  BY <1>1
  DEF UserStep, Open, Close, Refresh, Like, Unlike, SetLiked, saveVars, lateVars
<1>2. CASE ServiceStep(s)
  BY <1>2
  DEF ServiceStep, CollectNotif, PostSaveTurn, SaveTurn, PostSaveDone, SaveDone, WriteCount,
      FindLike, FindEngage, FindAny, ShowLiked, Create, saveVars, lateVars
<1>3. CASE FaultStep(s)
  BY <1>3
  DEF FaultStep, PostSaveRetried, SaveRetried, PostSaveFails, SaveFails, Unanswered,
      WriteCount, FindLikeFails, FindEngageFails, FindAnyFails, CreateTwice, CreateFails,
      saveVars, lateVars
<1> QED
  BY <1>1, <1>2, <1>3 DEF Step

\* Only saves write the post.
LEMMA OnlySavesWrite ==
    ASSUME NEW s \in Screens, Step(s),
           ~(PostSaveDone(s) \/ PostSaveRetried(s) \/ PostSaveFails(s))
    PROVE  overwritten' = overwritten
<1>1. CASE UserStep(s)
  BY <1>1
  DEF UserStep, Open, Close, Refresh, Like, Unlike, SetLiked, saveVars, lateVars
<1>2. CASE ServiceStep(s)
  BY <1>2
  DEF ServiceStep, CollectNotif, PostSaveTurn, SaveTurn, FindLike, FindEngage, FindAny,
      ShowLiked, Create, saveVars, lateVars
<1>3. CASE FaultStep(s)
  BY <1>3
  DEF FaultStep, FindLikeFails, FindEngageFails, FindAnyFails, CreateTwice, CreateFails,
      saveVars, lateVars
<1> QED
  BY <1>1, <1>2, <1>3 DEF Step

\* Refreshes and taps change what is out of date.
LEMMA StaleChanges ==
    ASSUME NEW s \in Screens, Step(s)
    PROVE  \/ UNCHANGED <<behind, crossed>>
           \/ Refresh(s) /\ behind' = [behind EXCEPT ![s] = @ \ {"heart"}] /\ crossed' = crossed
           \/ /\ Like(s) \/ Unlike(s)
              /\ behind' = [t \in Screens |-> behind[t] \cup Overtaken(s, t)]
              /\ crossed' = crossed \cup behind[s]
<1>1. CASE UserStep(s)
  BY <1>1
  DEF UserStep, Open, Close, Refresh, Like, Unlike, SetLiked, boundVars, tapVars
<1>2. CASE ServiceStep(s)
  BY <1>2
  DEF ServiceStep, CollectNotif, PostSaveTurn, PostSaveDone, FindLike, FindEngage,
      FindAny, ShowLiked, Create, boundVars, tapVars
<1>3. CASE FaultStep(s)
  BY <1>3
  DEF FaultStep, PostSaveRetried, PostSaveFails, FindLikeFails, FindEngageFails,
      FindAnyFails, CreateTwice, CreateFails, tapVars
<1> QED
  BY <1>1, <1>2, <1>3 DEF Step

LEMMA StaleKeeps ==
    ASSUME IInv, NEW s \in Screens, Step(s)
    PROVE  StaleOK'
<1>1. StaleOK /\ DOMAIN behind = Screens
  BY DEF IInv, BoundsOK
<1>2. \A t \in Screens : "heart" \in Overtaken(s, t) => "count" \in Overtaken(s, t)
  BY DEF Overtaken
<1>3. CASE UNCHANGED <<behind, crossed>>
  BY <1>1, <1>3 DEF StaleOK
<1>4. CASE behind' = [behind EXCEPT ![s] = @ \ {"heart"}] /\ crossed' = crossed
  BY <1>1, <1>4 DEF StaleOK
<1>5. CASE /\ behind' = [t \in Screens |-> behind[t] \cup Overtaken(s, t)]
           /\ crossed' = crossed \cup behind[s]
  BY <1>1, <1>2, <1>5 DEF StaleOK
<1> QED
  BY <1>3, <1>4, <1>5, StaleChanges

LEMMA BoundsKeep ==
    ASSUME IInv, NEW s \in Screens, Step(s)
    PROVE  BoundsOK'
<1>1. /\ taps \in [Screens -> Nat] /\ likeTaps \in [Screens -> Nat]
      /\ refreshes \in [Screens -> Nat] /\ scenario \in Scenarios /\ faults \in Nat
  BY DEF IInv, BoundsOK
<1>2. scenario' \in Scenarios /\ faults' \in Nat
  <2>1. scenario' = scenario
    BY Changes
  <2>2. faults' = faults \/ faults' = faults + 1
    BY Changes
  <2> QED
    BY <1>1, <2>1, <2>2
<1>3. taps' \in [Screens -> Nat]
  <2>1. taps' = taps \/ taps' = [taps EXCEPT ![s] = taps[s] + 1]
    BY Changes
  <2> QED
    BY <1>1, <2>1
<1>4. likeTaps' \in [Screens -> Nat]
  <2>1. likeTaps' = likeTaps \/ likeTaps' = [likeTaps EXCEPT ![s] = likeTaps[s] + 1]
    BY Changes
  <2> QED
    BY <1>1, <2>1
<1>5. refreshes' \in [Screens -> Nat]
  <2>1. refreshes' = refreshes \/ refreshes' = [refreshes EXCEPT ![s] = refreshes[s] + 1]
    BY Changes
  <2> QED
    BY <1>1, <2>1
<1>6. behind' \in [Screens -> SUBSET {"count", "heart"}] /\ crossed' \subseteq {"count", "heart"}
  <2>1. behind \in [Screens -> SUBSET {"count", "heart"}] /\ crossed \subseteq {"count", "heart"}
    BY DEF IInv, BoundsOK
  <2>2. \A t \in Screens : Overtaken(s, t) \subseteq {"count", "heart"}
    BY DEF Overtaken
  <2>3. CASE UNCHANGED <<behind, crossed>>
    BY <2>1, <2>3
  <2>4. CASE behind' = [behind EXCEPT ![s] = @ \ {"heart"}] /\ crossed' = crossed
    <3>1. behind[s] \ {"heart"} \in SUBSET {"count", "heart"}
      BY <2>1
    <3> QED
      BY <2>1, <2>4, <3>1
  <2>5. CASE /\ behind' = [t \in Screens |-> behind[t] \cup Overtaken(s, t)]
             /\ crossed' = crossed \cup behind[s]
    <3>1. \A t \in Screens : behind[t] \cup Overtaken(s, t) \in SUBSET {"count", "heart"}
      BY <2>1, <2>2
    <3> QED
      BY <2>1, <2>5, <3>1
  <2> QED
    BY <2>3, <2>4, <2>5, StaleChanges
<1> QED
  BY <1>2, <1>3, <1>4, <1>5, <1>6 DEF BoundsOK

LEMMA ScreenKeeps ==
    ASSUME IInv, NEW s \in Screens, Step(s)
    PROVE  ScreenOK'
<1>1. /\ visit \in [Screens -> {"unopened", "open", "closed"}]
      /\ liked \in [Screens -> BOOLEAN] /\ count \in [Screens -> Int] /\ likeCount \in Int
  BY DEF IInv, ScreenOK, ServerOK
<1>2. visit' \in [Screens -> {"unopened", "open", "closed"}]
  <2>1. \/ visit' = visit \/ visit' = [visit EXCEPT ![s] = "open"]
        \/ visit' = [visit EXCEPT ![s] = "closed"]
    BY Changes
  <2> QED
    BY <1>1, <2>1
<1>3. liked' \in [Screens -> BOOLEAN]
  <2>1. liked' = liked \/ \E b \in BOOLEAN : liked' = [liked EXCEPT ![s] = b]
    BY Changes
  <2> QED
    BY <1>1, <2>1
<1>4. count' \in [Screens -> Int]
  <2>1. \/ count' = count \/ count' = [count EXCEPT ![s] = likeCount]
        \/ count' = [count EXCEPT ![s] = count[s] + 1]
        \/ count' = [count EXCEPT ![s] = count[s] - 1]
    BY Changes
  <2> QED
    BY <1>1, <2>1
<1> QED
  BY <1>2, <1>3, <1>4 DEF ScreenOK

\* What is left of an attempt is named after its fault.
LEMMA AttemptIs ==
    ASSUME NEW s \in Screens, NEW id
    PROVE  \A a \in Attempt(s, id) : a = [id |-> id, count |-> sending[s].count]
BY DEF Attempt

LEMMA AttemptsKeep ==
    ASSUME IInv, NEW s \in Screens, Step(s)
    PROVE  LateOK' /\ abandoned' \subseteq [id : Nat, count : Int] /\ overwritten' \in BOOLEAN
<1>1. /\ abandoned \subseteq [id : Nat, count : Int] /\ overwritten \in BOOLEAN
      /\ sending[s].count \in Int /\ faults \in Nat
      /\ \A a \in abandoned : a.id \in 1..faults
  BY DEF IInv, SavesType, BoundsOK, LateOK
<1>2. faults' = faults \/ faults' = faults + 1
  BY Changes
<1>3. \A a \in Attempt(s, faults') : a = [id |-> faults', count |-> sending[s].count]
  BY AttemptIs
<1>4. overwritten' \in BOOLEAN
  BY <1>1, LateChanges
<1>5. CASE abandoned' = abandoned
  BY <1>1, <1>2, <1>4, <1>5 DEF LateOK
<1>6. CASE faults' = faults + 1 /\ abandoned' = abandoned \cup Attempt(s, faults')
  BY <1>1, <1>3, <1>4, <1>6 DEF LateOK
<1> QED
  BY <1>5, <1>6, LateChanges

LEMMA SavesKeep ==
    ASSUME IInv, NEW s \in Screens, Step(s)
    PROVE  SavesType'
<1> DEFINE Save == [kind : {"idle", "save", "batch"}, keys : SUBSET KeySet, count : Int]
<1>1. /\ count \in [Screens -> Int] /\ dirty \in [Screens -> SUBSET KeySet]
      /\ queue \in [Screens -> Seq(Task)] /\ sending \in [Screens -> Save]
  BY DEF IInv, ScreenOK, SavesType, Task
<1>2. /\ queue[s] \in Seq(Task) /\ <<"save">> \in Seq(Task)
      /\ Append(queue[s], "save") \in Seq(Task) /\ Append(queue[s], "batch") \in Seq(Task)
      /\ queue[s] # <<>> => Tail(queue[s]) \in Seq(Task) /\ Head(queue[s]) \in Task
  BY <1>1 DEF Task
<1>3. dirty' \in [Screens -> SUBSET KeySet]
  <2>1. \E d \in SUBSET KeySet : dirty' = dirty \/ dirty' = [dirty EXCEPT ![s] = d]
    <3>1. /\ {} \in SUBSET KeySet /\ {"numViews"} \in SUBSET KeySet
          /\ dirty[s] \cup {"count"} \in SUBSET KeySet
          /\ DirtyAgain(s) \in SUBSET KeySet
      BY <1>1 DEF KeySet, DirtyAgain
    <3>2. \/ dirty' = dirty \/ dirty' = [dirty EXCEPT ![s] = {"numViews"}]
          \/ dirty' = [dirty EXCEPT ![s] = dirty[s] \cup {"count"}]
          \/ dirty' = [dirty EXCEPT ![s] = {}]
          \/ dirty' = [dirty EXCEPT ![s] = DirtyAgain(s)]
      BY Changes
    <3> QED
      BY <3>1, <3>2
  <2> QED
    BY <1>1, <2>1
<1>4. queue' \in [Screens -> Seq(Task)]
  <2>1. \/ queue' = queue \/ queue' = [queue EXCEPT ![s] = <<"save">>]
        \/ queue' = [queue EXCEPT ![s] = Append(queue[s], "save")]
        \/ queue' = [queue EXCEPT ![s] = Append(queue[s], "batch")]
        \/ queue[s] # <<>> /\ queue' = [queue EXCEPT ![s] = Tail(queue[s])]
    BY Changes
  <2> QED
    BY <1>1, <1>2, <2>1
<1>5. sending' \in [Screens -> Save]
  <2>1. \/ sending' = sending \/ sending' = [sending EXCEPT ![s] = Idle]
        \/ queue[s] # <<>> /\ sending' = [sending EXCEPT ![s] =
               [kind |-> Head(queue[s]), keys |-> dirty[s], count |-> count[s]]]
    BY Changes
  <2>2. Idle \in Save
    BY DEF Idle
  <2>3. queue[s] # <<>> =>
            [kind |-> Head(queue[s]), keys |-> dirty[s], count |-> count[s]] \in Save
    BY <1>1, <1>2 DEF Task
  <2> HIDE DEF Save
  <2> QED
    BY <1>1, <2>1, <2>2, <2>3
<1> QED
  BY <1>3, <1>4, <1>5, AttemptsKeep DEF SavesType, Task

\* The other screens are as they were.
LEMMA OthersUntouched ==
    ASSUME IInv, NEW s \in Screens, Step(s), NEW t \in Screens, t # s
    PROVE  UNCHANGED <<visit[t], liked[t], count[t], dirty[t], queue[t], sending[t]>>
<1>1. /\ DOMAIN visit = Screens /\ DOMAIN liked = Screens /\ DOMAIN count = Screens
      /\ DOMAIN dirty = Screens /\ DOMAIN queue = Screens /\ DOMAIN sending = Screens
  BY DEF IInv, ScreenOK, SavesType
<1>2. visit'[t] = visit[t] /\ liked'[t] = liked[t]
  BY <1>1, Changes
<1>3. count'[t] = count[t] /\ dirty'[t] = dirty[t]
  BY <1>1, Changes
<1>4. queue'[t] = queue[t] /\ sending'[t] = sending[t]
  BY <1>1, Changes
<1> QED
  BY <1>2, <1>3, <1>4

-----------------------------------------------------------------------------
(***************************************************************************)
(* The server's rows.                                                      *)
(***************************************************************************)
\* What a step of a screen does to the server's tables.
LEMMA ServerChanges ==
    ASSUME NEW s \in Screens, Step(s)
    PROVE  /\ \/ likeCount' = likeCount
              \/ "count" \in sending[s].keys /\ likeCount' = sending[s].count
           /\ \/ UNCHANGED <<rows, nextId, notifs>>
              \/ \E kind \in CreateKinds : Insert(s, kind)
           /\ \/ deletes' = deletes
              \/ /\ RowsOf(UserOf[s]) # {}
                 /\ deletes' = deletes \cup {Newest(RowsOf(UserOf[s])).id}
                 /\ UNCHANGED <<rows, nextId>>
<1>1. CASE UserStep(s)
  BY <1>1
  DEF UserStep, Open, Close, Refresh, Like, Unlike, SetLiked, SaveView, SaveCount,
      serverVars, requestVars
<1>2. CASE ServiceStep(s)
  <2>1. CASE PostSaveTurn(s) \/ PostSaveDone(s)
    BY <2>1 DEF PostSaveTurn, SaveTurn, PostSaveDone, SaveDone, WriteCount, requestVars
  <2>2. CASE \E kind \in CreateKinds : Create(s, kind)
    BY <2>2 DEF Create
  <2>3. CASE FindAny(s)
    BY <2>3 DEF FindAny, serverVars
  <2>4. CASE CollectNotif(s) \/ FindLike(s) \/ FindEngage(s)
             \/ \E b \in BOOLEAN : ShowLiked(s, b)
    BY <2>4 DEF CollectNotif, FindLike, FindEngage, ShowLiked, serverVars
  <2> QED
    BY <1>2, <2>1, <2>2, <2>3, <2>4 DEF ServiceStep
<1>3. CASE FaultStep(s)
  <2>1. CASE PostSaveRetried(s) \/ PostSaveFails(s)
    BY <2>1
    DEF PostSaveRetried, SaveRetried, PostSaveFails, SaveFails, Unanswered, WriteCount,
        requestVars
  <2>2. CASE FindLikeFails(s) \/ FindEngageFails(s) \/ FindAnyFails(s)
    BY <2>2 DEF FindLikeFails, FindEngageFails, FindAnyFails, serverVars
  <2>3. CASE \E kind \in CreateKinds : CreateTwice(s, kind) \/ CreateFails(s, kind)
    BY <2>3 DEF CreateTwice, CreateFails, serverVars, requestVars
  <2> QED
    BY <1>3, <2>1, <2>2, <2>3 DEF FaultStep
<1> QED
  BY <1>1, <1>2, <1>3 DEF Step

\* Inserting a row with the next id.
LEMMA InsertKeeps ==
    ASSUME ServerOK, NEW s \in Screens, NEW kind \in CreateKinds, Insert(s, kind)
    PROVE  /\ nextId' \in Nat \ {0} /\ notifs' \in Nat /\ nextId <= nextId'
           /\ rows' \subseteq [id : 1..(nextId' - 1), user : Users, engage : BOOLEAN]
           /\ \A r, q \in rows' : r.id = q.id => r = q
<1>1. /\ nextId \in Nat \ {0} /\ notifs \in Nat
      /\ \A r \in rows : r \in [id : 1..(nextId - 1), user : Users, engage : BOOLEAN]
      /\ \A r, q \in rows : r.id = q.id => r = q
  BY DEF ServerOK
<1>2. CASE kind = "createNotif"
  BY <1>1, <1>2 DEF Insert
<1>3. CASE kind # "createNotif"
  <2> DEFINE new == [id |-> nextId, user |-> UserOf[s], engage |-> kind = "createEngage"]
  <2>1. rows' = rows \cup {new} /\ nextId' = nextId + 1 /\ notifs' = notifs
    BY <1>3 DEF Insert
  <2>2. new \in [id : 1..(nextId' - 1), user : Users, engage : BOOLEAN]
    <3>1. nextId \in 1..(nextId' - 1)
      BY <1>1, <2>1
    <3>2. UserOf[s] \in Users
      BY UserOfType
    <3>3. (kind = "createEngage") \in BOOLEAN
      OBVIOUS
    <3> QED
      BY <3>1, <3>2, <3>3
  <2>3. \A r \in rows : r \in [id : 1..(nextId' - 1), user : Users, engage : BOOLEAN]
    <3>1. 1..(nextId - 1) \subseteq 1..(nextId' - 1)
      BY <1>1, <2>1
    <3> QED
      BY <1>1, <3>1
  <2>4. \A r \in rows : r.id # new.id
    <3>1. \A r \in rows : r.id \in 1..(nextId - 1)
      BY <1>1
    <3>2. new.id = nextId
      OBVIOUS
    <3> HIDE DEF new
    <3> QED
      BY <1>1, <3>1, <3>2
  <2>5. nextId' \in Nat \ {0} /\ nextId <= nextId' /\ notifs' \in Nat
    BY <1>1, <2>1
  <2> HIDE DEF new
  <2>6. rows' \subseteq [id : 1..(nextId' - 1), user : Users, engage : BOOLEAN]
    BY <2>1, <2>2, <2>3
  <2>7. ASSUME NEW r \in rows', NEW q \in rows', r.id = q.id PROVE r = q
    BY <1>1, <2>1, <2>4, <2>7, Zenon
  <2> QED
    BY <2>5, <2>6, <2>7
<1> QED
  BY <1>2, <1>3

LEMMA RangeGrows == \A m, n \in Nat : m <= n => 1..(m - 1) \subseteq 1..(n - 1)
OBVIOUS

LEMMA ServerKeeps ==
    ASSUME IInv, NEW s \in Screens, Step(s)
    PROVE  ServerOK'
<1>0. ServerOK
  BY DEF IInv
<1>1. /\ nextId \in Nat \ {0} /\ notifs \in Nat /\ likeCount \in Int
      /\ rows \subseteq [id : 1..(nextId - 1), user : Users, engage : BOOLEAN]
      /\ \A r, q \in rows : r.id = q.id => r = q
      /\ deletes \subseteq 1..(nextId - 1)
  BY <1>0 DEF ServerOK
<1>2. likeCount' \in Int
  <2>1. sending[s].count \in Int
    BY DEF IInv, SavesType
  <2> QED
    BY <1>1, <2>1, ServerChanges
<1>3. /\ nextId' \in Nat \ {0} /\ notifs' \in Nat /\ nextId <= nextId'
      /\ rows' \subseteq [id : 1..(nextId' - 1), user : Users, engage : BOOLEAN]
      /\ \A r, q \in rows' : r.id = q.id => r = q
  <2>1. CASE UNCHANGED <<rows, nextId, notifs>>
    <3>1. rows' = rows /\ nextId' = nextId /\ notifs' = notifs
      BY <2>1
    <3>2. nextId <= nextId
      BY <1>1
    <3> QED
      BY <1>1, <3>1, <3>2, Zenon
  <2>2. CASE \E kind \in CreateKinds : Insert(s, kind)
    BY <1>0, <2>2, InsertKeeps
  <2> QED
    BY <2>1, <2>2, ServerChanges
<1>4. deletes' \subseteq 1..(nextId' - 1)
  <2>1. 1..(nextId - 1) \subseteq 1..(nextId' - 1)
    <3>1. nextId \in Nat /\ nextId' \in Nat /\ nextId <= nextId'
      BY <1>1, <1>3
    <3> QED
      BY <3>1, RangeGrows
  <2>2. CASE deletes' = deletes
    BY <1>1, <2>1, <2>2
  <2>3. CASE /\ RowsOf(UserOf[s]) # {}
             /\ deletes' = deletes \cup {Newest(RowsOf(UserOf[s])).id}
    <3>1. Newest(RowsOf(UserOf[s])) \in rows
      <4>1. RowsOf(UserOf[s]) \subseteq rows
        BY DEF RowsOf
      <4> QED
        BY <1>0, <2>3, <4>1, NewestExists
    <3>2. Newest(RowsOf(UserOf[s])).id \in 1..(nextId - 1)
      BY <1>1, <3>1
    <3> QED
      BY <1>1, <2>1, <2>3, <3>2
  <2> QED
    BY <2>2, <2>3, ServerChanges
<1> QED
  BY <1>2, <1>3, <1>4 DEF ServerOK

-----------------------------------------------------------------------------
(***************************************************************************)
(* The requests under way.                                                 *)
(***************************************************************************)
\* A step of a screen sends or answers requests of its own.
LEMMA RequestChanges ==
    ASSUME NEW s \in Screens, Step(s)
    PROVE  /\ \/ calls' = calls
              \/ \E kinds \in SUBSET Kinds : calls' = Call(s, kinds)
              \/ \E kind \in Kinds : /\ Pending(s, kind)
                                     /\ \/ calls' = Answered(s, kind)
                                        \/ \E next \in Kinds :
                                               calls' = Replaced(s, kind, next)
           /\ \/ readings' = readings
              \/ \E b \in BOOLEAN : readings' = [readings EXCEPT ![s][b] = @ + 1]
              \/ \E b \in BOOLEAN : /\ readings[s][b] > 0
                                    /\ readings' = [readings EXCEPT ![s][b] = @ - 1]
<1>1. CASE UserStep(s)
  <2>1. readings' = readings
    BY <1>1 DEF UserStep, Open, Close, Refresh, Like, Unlike, SetLiked, requestVars
  <2>2. calls' = calls \/ \E kinds \in SUBSET Kinds : calls' = Call(s, kinds)
    BY <1>1 DEF UserStep, Open, Close, Refresh, Like, Unlike, requestVars, Kinds
  <2> QED
    BY <2>1, <2>2
<1>2. CASE CollectNotif(s)
  <2>1. readings' = readings /\ Pending(s, "newNotif") /\ "newNotif" \in Kinds
        /\ "createNotif" \in Kinds
    BY <1>2 DEF CollectNotif, Kinds
  <2>2. calls' = Answered(s, "newNotif") \/ calls' = Replaced(s, "newNotif", "createNotif")
    BY <1>2 DEF CollectNotif, Replaced
  <2> QED
    BY <2>1, <2>2
<1>3. CASE PostSaveTurn(s) \/ PostSaveRetried(s) \/ PostSaveFails(s)
  BY <1>3 DEF PostSaveTurn, PostSaveRetried, PostSaveFails, requestVars
<1>4. CASE PostSaveDone(s)
  BY <1>4 DEF PostSaveDone, CallsAfterSave, Kinds
<1>5. CASE FindLike(s) \/ FindLikeFails(s)
  <2>1. Pending(s, "findLike") /\ calls' = Answered(s, "findLike") /\ "findLike" \in Kinds
    BY <1>5 DEF FindLike, FindLikeFails, Kinds
  <2>2. \E b \in BOOLEAN : readings' = [readings EXCEPT ![s][b] = @ + 1]
    <3>1. (Likes(UserOf[s]) # {}) \in BOOLEAN /\ FALSE \in BOOLEAN
      OBVIOUS
    <3> QED
      BY <1>5, <3>1, Zenon DEF FindLike, FindLikeFails
  <2> QED
    BY <2>1, <2>2
<1>6. CASE FindEngage(s) \/ FindEngageFails(s)
  <2>1. /\ Pending(s, "findEngage") /\ "findEngage" \in Kinds /\ "createEngage" \in Kinds
        /\ readings' = readings
    BY <1>6 DEF FindEngage, FindEngageFails, Kinds
  <2>2. \/ calls' = Answered(s, "findEngage")
        \/ calls' = Replaced(s, "findEngage", "createEngage")
    BY <1>6 DEF FindEngage, FindEngageFails, Replaced
  <2> QED
    BY <2>1, <2>2
<1>7. CASE FindAny(s) \/ FindAnyFails(s)
  <2>1. /\ Pending(s, "findAny") /\ "findAny" \in Kinds /\ calls' = Answered(s, "findAny")
        /\ readings' = readings
    BY <1>7 DEF FindAny, FindAnyFails, Kinds
  <2> QED
    BY <2>1
<1>8. CASE \E b \in BOOLEAN : ShowLiked(s, b)
  BY <1>8 DEF ShowLiked
<1>9. CASE \E kind \in CreateKinds :
               Create(s, kind) \/ CreateTwice(s, kind) \/ CreateFails(s, kind)
  <2>1. PICK kind \in CreateKinds :
            Create(s, kind) \/ CreateTwice(s, kind) \/ CreateFails(s, kind)
    BY <1>9
  <2>2. kind \in Kinds
    BY DEF CreateKinds, Kinds
  <2>3. Pending(s, kind) /\ readings' = readings /\ (calls' = calls \/ calls' = Answered(s, kind))
    BY <2>1 DEF Create, CreateTwice, CreateFails, requestVars
  <2> QED
    BY <2>2, <2>3
<1> QED
  BY <1>1, <1>2, <1>3, <1>4, <1>5, <1>6, <1>7, <1>8, <1>9
  DEF Step, ServiceStep, FaultStep

LEMMA RequestsKeep ==
    ASSUME IInv, NEW s \in Screens, Step(s)
    PROVE  RequestsOK'
<1>0. RequestsOK
  BY DEF IInv
<1>1. calls' \in [Screens -> [Kinds -> Nat]]
  <2>1. CASE calls' = calls
    BY <1>0, <2>1 DEF RequestsOK
  <2>2. CASE \E kinds \in SUBSET Kinds : calls' = Call(s, kinds)
    BY <1>0, <2>2, CallType
  <2>3. CASE \E kind \in Kinds : /\ Pending(s, kind)
                                 /\ \/ calls' = Answered(s, kind)
                                    \/ \E next \in Kinds : calls' = Replaced(s, kind, next)
    BY <1>0, <2>3, AnsweredType, ReplacedType
  <2> QED
    BY <2>1, <2>2, <2>3, RequestChanges
<1>2. readings' \in [Screens -> [BOOLEAN -> Nat]]
  <2>1. readings \in [Screens -> [BOOLEAN -> Nat]] /\ readings[s] \in [BOOLEAN -> Nat]
    BY <1>0 DEF RequestsOK
  <2>2. CASE readings' = readings
    BY <2>1, <2>2
  <2>3. CASE \E b \in BOOLEAN : readings' = [readings EXCEPT ![s][b] = @ + 1]
    <3>1. PICK b \in BOOLEAN : readings' = [readings EXCEPT ![s][b] = @ + 1]
      BY <2>3
    <3>2. [readings[s] EXCEPT ![b] = @ + 1] \in [BOOLEAN -> Nat]
      BY <2>1
    <3> QED
      BY <2>1, <3>1, <3>2
  <2>4. CASE \E b \in BOOLEAN : /\ readings[s][b] > 0
                                /\ readings' = [readings EXCEPT ![s][b] = @ - 1]
    <3>1. PICK b \in BOOLEAN : /\ readings[s][b] > 0
                               /\ readings' = [readings EXCEPT ![s][b] = @ - 1]
      BY <2>4
    <3>2. readings[s][b] - 1 \in Nat
      BY <2>1, <3>1
    <3>3. [readings[s] EXCEPT ![b] = @ - 1] \in [BOOLEAN -> Nat]
      BY <2>1, <3>2
    <3> QED
      BY <2>1, <3>1, <3>3
  <2> QED
    BY <2>2, <2>3, <2>4, RequestChanges
<1> QED
  BY <1>1, <1>2 DEF RequestsOK

\* The requests of the other screens are as they were.
LEMMA OtherCalls ==
    ASSUME IInv, NEW s \in Screens, Step(s), NEW t \in Screens, t # s
    PROVE  calls'[t] = calls[t]
<1>1. RequestsOK
  BY DEF IInv
<1>2. CASE \E kinds \in SUBSET Kinds : calls' = Call(s, kinds)
  BY <1>1, <1>2, CallValue
<1>3. CASE \E kind \in Kinds : calls' = Answered(s, kind)
  BY <1>1, <1>3, AnsweredValue
<1>4. CASE \E kind, next \in Kinds : calls' = Replaced(s, kind, next)
  BY <1>1, <1>4 DEF Replaced, Answered, RequestsOK
<1> QED
  BY <1>2, <1>3, <1>4, RequestChanges

-----------------------------------------------------------------------------
(***************************************************************************)
(* The saves of a screen.                                                  *)
(***************************************************************************)
\* The steps of a screen that touch what it saves.
LEMMA SaveChanges ==
    ASSUME NEW s \in Screens, Step(s)
    PROVE  \/ Open(s) \/ PostSaveTurn(s) \/ PostSaveDone(s)
           \/ PostSaveRetried(s) \/ PostSaveFails(s)
           \/ /\ visit[s] = "open" /\ UNCHANGED <<likeCount, sending>>
              /\ UNCHANGED <<count, dirty, queue>> \/ \E n : SaveCount(s, n)
           \/ /\ UNCHANGED <<likeCount, visit, count, dirty, sending>>
              /\ \/ queue' = queue
                 \/ /\ NeedsBatch(s)
                    /\ queue' = [queue EXCEPT ![s] = Append(queue[s], "batch")]
<1>1. CASE UserStep(s)
  <2>1. CASE Close(s) \/ Refresh(s)
    BY <2>1 DEF Close, Refresh, serverVars, saveVars
  <2>2. CASE Like(s) \/ Unlike(s)
    BY <2>2 DEF Like, Unlike, SetLiked, serverVars
  <2> QED
    BY <1>1, <2>1, <2>2 DEF UserStep
<1>2. CASE ServiceStep(s)
  <2>1. CASE CollectNotif(s)
    BY <2>1 DEF CollectNotif, EnqueueBatch, serverVars
  <2>2. CASE \/ FindLike(s) \/ FindEngage(s) \/ FindAny(s)
             \/ \E b \in BOOLEAN : ShowLiked(s, b)
             \/ \E kind \in CreateKinds : Create(s, kind)
    BY <2>2 DEF FindLike, FindEngage, FindAny, ShowLiked, Create, serverVars, saveVars
  <2> QED
    BY <1>2, <2>1, <2>2 DEF ServiceStep
<1>3. CASE FaultStep(s)
  BY <1>3
  DEF FaultStep, FindLikeFails, FindEngageFails, FindAnyFails, CreateTwice, CreateFails,
      serverVars, saveVars
<1> QED
  BY <1>1, <1>2, <1>3 DEF Step

LEMMA FreshKeeps ==
    ASSUME IInv, NEW s \in Screens, Step(s)
    PROVE  FreshOK'
<1> SUFFICES ASSUME NEW t \in Screens, visit'[t] = "unopened"
             PROVE  NoSaves(t)' /\ dirty'[t] = {}
  BY DEF FreshOK
<1>1. DOMAIN visit = Screens
  BY DEF IInv, ScreenOK
<1>2. CASE t # s
  <2>1. UNCHANGED <<visit[t], dirty[t], queue[t], sending[t]>>
    BY <1>2, OthersUntouched
  <2>2. NoSaves(t) /\ dirty[t] = {}
    BY <2>1 DEF IInv, FreshOK
  <2> QED
    BY <2>1, <2>2 DEF NoSaves
<1>3. CASE t = s
  <2>1. visit'[s] = "unopened"
    BY <1>3
  <2>2. visit[s] = "unopened" /\ ~Open(s)
    BY <1>1, <2>1, Changes DEF Open
  <2>3. queue[s] = <<>> /\ sending[s] = Idle /\ dirty[s] = {}
    BY <2>2 DEF IInv, FreshOK, NoSaves
  <2>4. /\ ~PostSaveTurn(s) /\ ~PostSaveDone(s) /\ ~PostSaveRetried(s)
        /\ ~PostSaveFails(s)
    BY <2>3
    DEF PostSaveTurn, SaveTurn, PostSaveDone, SaveDone, PostSaveRetried, SaveRetried,
        PostSaveFails, SaveFails
  <2>5. UNCHANGED <<dirty, sending>> /\ queue' = queue
    BY <2>2, <2>3, <2>4, SaveChanges DEF NeedsBatch
  <2> QED
    BY <1>3, <2>3, <2>5 DEF NoSaves
<1> QED
  BY <1>2, <1>3

-----------------------------------------------------------------------------
(***************************************************************************)
(* The deletions of dataUnlike.                                            *)
(***************************************************************************)
LEMMA DeleteKeeps ==
    ASSUME IInv, DeleteStep
    PROVE  IInv'
<1>1. PICK id \in deletes : Delete(id) \/ DeleteFails(id)
  BY DEF DeleteStep
<1>2. UNCHANGED <<likeCount, nextId, notifs, visit, liked, count, dirty, queue, sending,
                  abandoned, overwritten, calls, readings, tapVars>>
  BY <1>1 DEF Delete, DeleteFails, serverVars, saveVars, lateVars, boundVars
<1>3. rows' \subseteq rows /\ deletes' \subseteq deletes
  BY <1>1 DEF Delete, DeleteFails, serverVars
<1>4. faults' = faults \/ faults' = faults + 1
  BY <1>1 DEF Delete, DeleteFails, boundVars, tapVars
<1>5. ServerOK'
  <2>1. ServerOK
    BY DEF IInv
  <2>2. likeCount' = likeCount /\ nextId' = nextId /\ notifs' = notifs
    BY <1>2
  <2>3. \A r, q \in rows' : r.id = q.id => r = q
    BY <1>3, <2>1, Zenon DEF ServerOK
  <2> QED
    BY <1>3, <2>1, <2>2, <2>3 DEF ServerOK
<1>6. ScreenOK' /\ RequestsOK' /\ FreshOK'
  BY <1>2 DEF IInv, ScreenOK, RequestsOK, FreshOK, NoSaves
<1>7. SavesType'
  BY <1>2 DEF IInv, SavesType
<1>8. BoundsOK'
  BY <1>2, <1>4 DEF IInv, BoundsOK, tapVars
<1>9. LateOK' /\ StaleOK'
  BY <1>2, <1>4 DEF IInv, BoundsOK, LateOK, StaleOK, tapVars
<1> QED
  BY <1>5, <1>6, <1>7, <1>8, <1>9 DEF IInv

-----------------------------------------------------------------------------
(***************************************************************************)
(* The attempts given up.                                                  *)
(***************************************************************************)
LEMMA LateKeeps ==
    ASSUME IInv, NEW a \in abandoned, PostSavedLate(a)
    PROVE  IInv'
<1>1. /\ UNCHANGED <<rows, nextId, notifs, visit, liked, count, dirty, queue, sending,
                     calls, readings, deletes, tapVars, faults>>
      /\ likeCount' = a.count /\ abandoned' = abandoned \ {a} /\ overwritten' = TRUE
  BY DEF PostSavedLate, ExecuteLate, requestVars, boundVars
<1>2. a.count \in Int
  BY DEF IInv, SavesType
<1>3. ServerOK' /\ ScreenOK'
  BY <1>1, <1>2 DEF IInv, ServerOK, ScreenOK
<1>4. SavesType' /\ RequestsOK'
  BY <1>1 DEF IInv, SavesType, RequestsOK
<1>5. BoundsOK' /\ FreshOK' /\ LateOK' /\ StaleOK'
  BY <1>1 DEF IInv, BoundsOK, FreshOK, LateOK, StaleOK, NoSaves, tapVars
<1> QED
  BY <1>3, <1>4, <1>5 DEF IInv

-----------------------------------------------------------------------------
LEMMA NextSteps ==
    ASSUME Next PROVE (\E s \in Screens : Step(s)) \/ DeleteStep \/ LateStep
BY DEF Next, Step, DeleteStep, LateStep

LEMMA IInvNext == IInv /\ [Next]_vars => IInv'
<1> SUFFICES ASSUME IInv, [Next]_vars PROVE IInv'
  OBVIOUS
<1>1. ASSUME NEW s \in Screens, Step(s) PROVE IInv'
  BY <1>1, ServerKeeps, ScreenKeeps, SavesKeep, RequestsKeep, BoundsKeep, FreshKeeps,
     AttemptsKeep, StaleKeeps
  DEF IInv
<1>2. CASE DeleteStep \/ LateStep
  BY <1>2, DeleteKeeps, LateKeeps DEF LateStep
<1>3. CASE UNCHANGED vars
  <2>1. UNCHANGED <<likeCount, rows, nextId, notifs, visit, liked, count, dirty, queue,
                    sending, abandoned, overwritten, calls, readings, deletes>>
    BY <1>3 DEF vars, serverVars, saveVars, lateVars, requestVars
  <2>2. UNCHANGED <<scenario, behind, crossed, taps, likeTaps, refreshes, faults>>
    BY <1>3 DEF vars, boundVars, tapVars
  <2>3. ServerOK' /\ ScreenOK'
    BY <2>1 DEF IInv, ServerOK, ScreenOK
  <2>4. SavesType' /\ RequestsOK'
    BY <2>1 DEF IInv, SavesType, RequestsOK
  <2>5. BoundsOK' /\ FreshOK' /\ LateOK' /\ StaleOK'
    BY <2>1, <2>2 DEF IInv, BoundsOK, FreshOK, LateOK, StaleOK, NoSaves
  <2> QED
    BY <2>3, <2>4, <2>5 DEF IInv
<1> QED
  BY <1>1, <1>2, <1>3, NextSteps

LEMMA IInvHolds == Spec => []IInv
BY IInvInit, IInvNext, PTL DEF Spec

\* The variables keep their types; ids of rows stay unique and below nextId,
\* and no callback runs more often than its request was made.
THEOREM TypeCorrect == Spec => []TypeOK
BY IInvHolds, TypeOfIInv, PTL

-----------------------------------------------------------------------------
(***************************************************************************)
(* A screen alone with the post: what it shows is unsaved, on its way, or  *)
(* what the server has, if no attempt given up has come late.              *)
(***************************************************************************)
Alone(s) == visit[s] # "unopened" /\ \A t \in Screens \ {s} : visit[t] = "unopened"

ShownIsSaved(s) ==
    \/ "count" \in dirty[s]
    \/ "count" \in sending[s].keys /\ sending[s].count = count[s]
    \/ "count" \notin sending[s].keys /\ (likeCount = count[s] \/ overwritten)

AloneIsSaved == \A s \in Screens : Alone(s) => ShownIsSaved(s)

LEMMA ServerHasShownCountOfAlone == AloneIsSaved => ServerHasShownCount
BY DEF AloneIsSaved, Alone, ShownIsSaved, ServerHasShownCount, Idle

\* A step of a screen that is alone, or opens to be.
LEMMA OwnStepSaves ==
    ASSUME IInv, NEW s \in Screens, Step(s), visit[s] = "unopened" \/ ShownIsSaved(s),
           visit'[s] # "unopened"
    PROVE  ShownIsSaved(s)'
<1>1. /\ DOMAIN count = Screens /\ DOMAIN dirty = Screens /\ DOMAIN sending = Screens
      /\ DOMAIN visit = Screens
  BY DEF IInv, ScreenOK, SavesType
<1>2. CASE Open(s)
  <2>1. visit[s] = "unopened" /\ count' = [count EXCEPT ![s] = likeCount]
        /\ sending' = sending /\ likeCount' = likeCount
    BY <1>2 DEF Open, serverVars
  <2>2. sending[s] = Idle
    BY <2>1 DEF IInv, FreshOK, NoSaves
  <2> QED
    BY <1>1, <2>1, <2>2 DEF ShownIsSaved, Idle
<1>3. CASE PostSaveTurn(s)
  <2>1. /\ sending[s] = Idle /\ UNCHANGED <<likeCount, count, overwritten>>
        /\ \/ UNCHANGED <<dirty, sending>>
           \/ /\ sending' = [sending EXCEPT ![s] =
                     [kind |-> Head(queue[s]), keys |-> dirty[s], count |-> count[s]]]
              /\ dirty' = [dirty EXCEPT ![s] = {}]
    BY <1>3 DEF PostSaveTurn, SaveTurn
  <2>2. visit[s] # "unopened"
    BY <1>3 DEF PostSaveTurn, SaveTurn, IInv, FreshOK, NoSaves
  <2>3. sending[s].keys = {}
    BY <2>1 DEF Idle
  <2>4. CASE UNCHANGED <<dirty, sending>>
    BY <2>1, <2>2, <2>4 DEF ShownIsSaved
  <2>5. CASE /\ sending' = [sending EXCEPT ![s] =
                     [kind |-> Head(queue[s]), keys |-> dirty[s], count |-> count[s]]]
             /\ dirty' = [dirty EXCEPT ![s] = {}]
    <3>1. sending'[s].keys = dirty[s] /\ sending'[s].count = count[s]
      BY <1>1, <2>5
    <3>2. "count" \in dirty[s] \/ likeCount = count[s] \/ overwritten
      BY <2>2, <2>3 DEF ShownIsSaved
    <3> QED
      BY <2>1, <3>1, <3>2 DEF ShownIsSaved
  <2> QED
    BY <2>1, <2>4, <2>5
<1>4. CASE PostSaveDone(s) \/ PostSaveFails(s)
  <2>1. /\ sending[s] # Idle /\ count' = count
        /\ sending' = [sending EXCEPT ![s] = Idle]
        /\ \/ WriteCount(s) /\ dirty' = dirty
           \/ /\ WriteCount(s) \/ UNCHANGED <<likeCount, overwritten>>
              /\ dirty' = [dirty EXCEPT ![s] = DirtyAgain(s)]
    BY <1>4 DEF PostSaveDone, SaveDone, PostSaveFails, SaveFails, Unanswered
  <2>2. visit[s] # "unopened"
    BY <2>1 DEF IInv, FreshOK, NoSaves
  <2>3. sending'[s].keys = {}
    BY <1>1, <2>1 DEF Idle
  <2>4. dirty[s] \subseteq dirty'[s]
    BY <1>1, <2>1 DEF DirtyAgain
  <2>5. CASE "count" \in dirty[s]
    BY <2>4, <2>5 DEF ShownIsSaved
  <2>6. CASE "count" \in sending[s].keys /\ sending[s].count = count[s]
    <3>1. "count" \in dirty'[s] \/ likeCount' = count[s]
      BY <1>1, <2>1, <2>6 DEF WriteCount, DirtyAgain
    <3> QED
      BY <2>1, <2>3, <3>1 DEF ShownIsSaved
  <2>7. CASE "count" \notin sending[s].keys /\ (likeCount = count[s] \/ overwritten)
    <3>1. likeCount' = likeCount /\ overwritten' = overwritten
      BY <2>1, <2>7 DEF WriteCount
    <3> QED
      BY <2>1, <2>3, <2>7, <3>1 DEF ShownIsSaved
  <2> QED
    BY <2>2, <2>5, <2>6, <2>7 DEF ShownIsSaved
<1>5. CASE visit[s] = "open" /\ UNCHANGED <<likeCount, sending>> /\ \E n : SaveCount(s, n)
  BY <1>1, <1>5 DEF SaveCount, ShownIsSaved
<1>6. CASE /\ UNCHANGED <<likeCount, count, dirty, sending, overwritten>>
           /\ visit[s] # "unopened"
  BY <1>6 DEF ShownIsSaved
<1>7. CASE PostSaveRetried(s)
  <2>1. /\ sending[s] # Idle /\ UNCHANGED <<count, dirty, sending>>
        /\ WriteCount(s) \/ UNCHANGED <<likeCount, overwritten>>
    BY <1>7 DEF PostSaveRetried, SaveRetried, Unanswered
  <2>2. visit[s] # "unopened"
    BY <2>1 DEF IInv, FreshOK, NoSaves
  <2> QED
    BY <2>1, <2>2 DEF ShownIsSaved, WriteCount
<1>8. CASE ~(PostSaveDone(s) \/ PostSaveRetried(s) \/ PostSaveFails(s))
  <2>1. overwritten' = overwritten
    BY <1>8, OnlySavesWrite
  <2> QED
    BY <1>2, <1>3, <1>5, <1>6, <1>8, <2>1, SaveChanges
<1> QED
  BY <1>4, <1>7, <1>8

LEMMA AloneKeeps ==
    ASSUME IInv, AloneIsSaved, NEW s \in Screens, Step(s)
    PROVE  AloneIsSaved'
<1> SUFFICES ASSUME NEW t \in Screens, Alone(t)' PROVE ShownIsSaved(t)'
  BY DEF AloneIsSaved
<1>1. visit'[t] # "unopened" /\ \A u \in Screens \ {t} : visit'[u] = "unopened"
  BY DEF Alone
<1>2. \A u \in Screens : visit'[u] = "unopened" => visit[u] = "unopened"
  <2>1. DOMAIN visit = Screens
    BY DEF IInv, ScreenOK
  <2>2. \/ visit' = visit \/ visit' = [visit EXCEPT ![s] = "open"]
        \/ visit' = [visit EXCEPT ![s] = "closed"]
    BY Changes
  <2> QED
    BY <2>1, <2>2
<1>3. visit[t] = "unopened" \/ ShownIsSaved(t)
  BY <1>1, <1>2 DEF AloneIsSaved, Alone
<1>4. CASE t = s
  BY <1>1, <1>3, <1>4, OwnStepSaves
<1>5. CASE t # s
  <2>1. UNCHANGED <<visit[t], count[t], dirty[t], sending[t]>>
    BY <1>5, OthersUntouched
  <2>2. sending[s] = Idle
    BY <1>1, <1>2, <1>5 DEF IInv, FreshOK, NoSaves
  <2>3. "count" \notin sending[s].keys
    BY <2>2 DEF Idle
  <2>4. likeCount' = likeCount /\ overwritten' = overwritten
    BY <2>3, ServerChanges, LateChanges
  <2> QED
    BY <1>1, <1>3, <2>1, <2>4 DEF ShownIsSaved
<1> QED
  BY <1>4, <1>5

LEMMA AloneNext == IInv /\ AloneIsSaved /\ [Next]_vars => AloneIsSaved'
<1> SUFFICES ASSUME IInv, AloneIsSaved, [Next]_vars PROVE AloneIsSaved'
  OBVIOUS
<1>1. CASE \E s \in Screens : Step(s)
  BY <1>1, AloneKeeps
<1>2. CASE UNCHANGED <<likeCount, visit, count, dirty, sending, overwritten>>
  BY <1>2 DEF AloneIsSaved, Alone, ShownIsSaved
<1>3. ASSUME DeleteStep
      PROVE  UNCHANGED <<likeCount, visit, count, dirty, sending, overwritten>>
  BY <1>3 DEF DeleteStep, Delete, DeleteFails, serverVars, saveVars, lateVars
<1>4. ASSUME UNCHANGED vars
      PROVE  UNCHANGED <<likeCount, visit, count, dirty, sending, overwritten>>
  BY <1>4 DEF vars, serverVars, saveVars, lateVars
<1>5. CASE LateStep
  <2>1. UNCHANGED <<visit, count, dirty, sending>> /\ overwritten'
    BY <1>5 DEF LateStep, PostSavedLate, ExecuteLate
  <2> QED
    BY <2>1 DEF AloneIsSaved, Alone, ShownIsSaved
<1> QED
  BY <1>1, <1>2, <1>3, <1>4, <1>5, NextSteps

\* A screen alone with the post: once its saves are over and nothing is left
\* unsaved, the server has the count it shows, whatever was retried or failed on
\* the way, unless an attempt given up came after the last save.
THEOREM CountSaved == Spec => []ServerHasShownCount
<1>1. Init => AloneIsSaved
  BY DEF Init, AloneIsSaved, Alone
<1> QED
  BY <1>1, IInvHolds, AloneNext, ServerHasShownCountOfAlone, PTL DEF Spec
-----------------------------------------------------------------------------
(***************************************************************************)
(* Patient users and no fault: the count, the heart and the rows agree.    *)
(* One of the open screens has something under way at a time, the mover,   *)
(* and it is one of four things: nothing that matters, a like to create, a *)
(* like to look for, or a like row to delete.  The other open screens are  *)
(* at rest; a tap marks on each what it makes out of date, before the rows *)
(* change.  Nothing is said of hearts once one out of date was tapped, and *)
(* nothing of the count once one on a screen with an old count was.        *)
(***************************************************************************)
Calm == scenario.patient /\ faults = 0 /\ "heart" \notin crossed

UserRowsOK ==
    /\ \A r, q \in LikeRows : r.user = q.user => r = q
    /\ \A r \in LikeRows : Engagements(r.user) # {}
    /\ \A r \in LikeRows : \A e \in Engagements(r.user) : e.id < r.id

IsOpen(s) == visit[s] = "open"
Fresh == "count" \notin crossed

\* A screen that is not open has nothing under way; without any, the count is right.
AtRest(s) == QuietScreen(s) /\ dirty[s] = {}
RestOK == \A s \in Screens : ~IsOpen(s) => AtRest(s)
NobodyOK == (\A s \in Screens : ~IsOpen(s)) =>
                deletes = {} /\ (Fresh => likeCount = Cardinality(LikeRows))

HasLike(s) == Likes(UserOf[s]) # {}
Asking(s) == calls[s]["findLike"] # 0 \/ \E b \in BOOLEAN : readings[s][b] # 0
Entering(s) == calls[s]["findEngage"] # 0 \/ calls[s]["createEngage"] # 0
Acting(s) == Asking(s) \/ Entering(s)

\* checkEngage makes the one engagement row its user lacks.
EngageOK(s) ==
    /\ calls[s]["findEngage"] \in {0, 1} /\ calls[s]["createEngage"] \in {0, 1}
    /\ calls[s]["findEngage"] = 0 \/ calls[s]["createEngage"] = 0
    /\ calls[s]["createEngage"] # 0 => Engagements(UserOf[s]) = {}
    /\ ~Entering(s) => Engagements(UserOf[s]) # {}

\* An answer on its way back is still true.
ReadingsOK(s) ==
    /\ readings[s][TRUE] # 0 => HasLike(s)
    /\ readings[s][FALSE] # 0 => ~HasLike(s)

\* The count the server has, or will have after the saves of screen s, is off
\* by what the screen is about to change in the rows, and shown by the screen.
Coming(s) == IF "count" \in dirty[s] THEN count[s]
             ELSE IF "count" \in sending[s].keys THEN sending[s].count ELSE likeCount
Counts(s, change) ==
    Fresh => /\ Coming(s) = Cardinality(LikeRows) + change
             /\ "count" \notin behind[s] => count[s] = Coming(s)

\* What a tap on screen s makes out of date is marked on the others.
Overtook(s) == \A t \in Screens : Overtaken(s, t) \subseteq behind[t]

Settled(s) ==
    /\ calls[s]["createLike"] = 0 /\ calls[s]["findAny"] = 0 /\ deletes = {}
    /\ Counts(s, 0)
    /\ "heart" \in behind[s] \/ Asking(s) \/ (liked[s] <=> HasLike(s))

Liking(s) ==
    /\ ~Acting(s) /\ liked[s] /\ ~HasLike(s)
    /\ calls[s]["createLike"] = 1 /\ calls[s]["findAny"] = 0 /\ deletes = {}
    /\ Counts(s, 1) /\ Overtook(s)

Unliking(s) ==
    /\ ~Acting(s) /\ ~liked[s] /\ HasLike(s)
    /\ calls[s]["createLike"] = 0 /\ calls[s]["findAny"] = 1 /\ deletes = {}
    /\ Counts(s, -1) /\ Overtook(s)

Deleting(s) ==
    /\ ~Acting(s) /\ ~liked[s]
    /\ calls[s]["createLike"] = 0 /\ calls[s]["findAny"] = 0
    /\ \E r \in Likes(UserOf[s]) : deletes = {r.id}
    /\ Counts(s, -1) /\ Overtook(s)

RowView(s) ==
    /\ EngageOK(s) /\ ReadingsOK(s)
    /\ Settled(s) \/ Liking(s) \/ Unliking(s) \/ Deleting(s)

UnsavedQueued(s) == dirty[s] # {} => queue[s] # <<>>

\* What an open screen at rest shows is right, or marked as out of date.
Standing(t) ==
    /\ Engagements(UserOf[t]) # {}
    /\ "heart" \notin behind[t] => (liked[t] <=> HasLike(t))
    /\ Fresh /\ "count" \notin behind[t] => count[t] = Cardinality(LikeRows)

Others(s) == \A t \in Screens \ {s} : IsOpen(t) => AtRest(t) /\ Standing(t)
Mover(s) == UnsavedQueued(s) /\ RowView(s) /\ Others(s)
VisitOK == (\E s \in Screens : IsOpen(s)) => \E s \in Screens : IsOpen(s) /\ Mover(s)

CalmOK == UserRowsOK /\ RestOK /\ NobodyOK /\ VisitOK
CalmInv == Calm => CalmOK

LEMMA RowsFinite == ASSUME ServerOK PROVE IsFiniteSet(rows) /\ IsFiniteSet(LikeRows)
<1> DEFINE f == [r \in rows |-> r.id]
<1>1. /\ nextId \in Nat /\ \A r \in rows : r.id \in 1..(nextId - 1)
      /\ \A r, q \in rows : r.id = q.id => r = q
  BY DEF ServerOK
<1>2. f \in Injection(rows, 1..(nextId - 1))
  BY <1>1 DEF Injection, IsInjective
<1>3. IsFiniteSet(1..(nextId - 1))
  BY <1>1, FS_Interval
<1>4. IsFiniteSet(rows)
  BY <1>2, <1>3, FS_Injection
<1> QED
  BY <1>4, FS_Subset DEF LikeRows

LEMMA CardinalityOfLikes == ASSUME ServerOK PROVE Cardinality(LikeRows) \in Nat
BY RowsFinite, FS_CardinalityType

\* A screen at rest: its counts and its heart.
LEMMA RestingView ==
    ASSUME IInv, NEW s \in Screens, RowView(s), UnsavedQueued(s), QuietScreen(s),
           deletes = {}
    PROVE  /\ AtRest(s) /\ Standing(s)
           /\ Fresh => likeCount = Cardinality(LikeRows)
<1>1. /\ \A k \in Kinds : calls[s][k] = 0
      /\ \A b \in BOOLEAN : readings[s][b] = 0
      /\ queue[s] = <<>> /\ sending[s] = Idle
  BY DEF QuietScreen, NoSaves
<1>2. dirty[s] = {} /\ sending[s].keys = {}
  BY <1>1 DEF UnsavedQueued, Idle
<1>3. {"createLike", "findAny", "findLike", "findEngage", "createEngage"} \subseteq Kinds
  BY DEF Kinds
<1>4. ~Asking(s) /\ ~Entering(s)
  BY <1>1, <1>3 DEF Asking, Entering
<1>5. Settled(s)
  BY <1>1, <1>3 DEF RowView, Liking, Unliking, Deleting
<1>6. Engagements(UserOf[s]) # {}
  BY <1>4 DEF RowView, EngageOK
<1>7. Coming(s) = likeCount
  BY <1>2 DEF Coming
<1>8. Cardinality(LikeRows) + 0 = Cardinality(LikeRows)
  BY CardinalityOfLikes DEF IInv
<1>9. Fresh => /\ likeCount = Cardinality(LikeRows)
               /\ "count" \notin behind[s] => count[s] = likeCount
  BY <1>5, <1>7, <1>8 DEF Settled, Counts
<1> QED
  BY <1>2, <1>4, <1>5, <1>6, <1>9 DEF AtRest, Standing, Settled

\* When nothing is under way any open screen may be the next to move.
LEMMA MovesOn ==
    ASSUME IInv, CalmOK, Quiet
    PROVE  /\ Fresh => likeCount = Cardinality(LikeRows)
           /\ \A t \in Screens : AtRest(t) /\ (IsOpen(t) => Standing(t) /\ Mover(t))
<1>1. deletes = {} /\ \A t \in Screens : QuietScreen(t)
  BY DEF Quiet
<1>2. CASE \A s \in Screens : ~IsOpen(s)
  BY <1>1, <1>2 DEF CalmOK, NobodyOK, RestOK
<1>3. CASE \E s \in Screens : IsOpen(s)
  <2>1. PICK s \in Screens : IsOpen(s) /\ Mover(s)
    BY <1>3 DEF CalmOK, VisitOK
  <2>2. AtRest(s) /\ Standing(s) /\ (Fresh => likeCount = Cardinality(LikeRows))
    BY <1>1, <2>1, RestingView DEF Mover
  <2>3. \A t \in Screens : AtRest(t) /\ (IsOpen(t) => Standing(t))
    BY <2>1, <2>2 DEF Mover, Others, CalmOK, RestOK
  <2>4. ASSUME NEW t \in Screens, IsOpen(t) PROVE Mover(t)
    <3>1. AtRest(t) /\ Standing(t) /\ Others(t)
      BY <2>3, <2>4 DEF Others
    <3>2. /\ \A k \in Kinds : calls[t][k] = 0
          /\ \A b \in BOOLEAN : readings[t][b] = 0
          /\ dirty[t] = {} /\ sending[t].keys = {}
      BY <3>1 DEF AtRest, QuietScreen, NoSaves, Idle
    <3>3. /\ calls[t]["findEngage"] = 0 /\ calls[t]["createEngage"] = 0
          /\ calls[t]["createLike"] = 0 /\ calls[t]["findAny"] = 0
      BY <3>2 DEF Kinds
    <3>4. EngageOK(t) /\ ReadingsOK(t)
      BY <3>1, <3>2, <3>3 DEF Standing, EngageOK, ReadingsOK
    <3>5. Coming(t) = likeCount
      BY <3>2 DEF Coming
    <3>6. Cardinality(LikeRows) + 0 = Cardinality(LikeRows)
      BY CardinalityOfLikes DEF IInv
    <3>7. Counts(t, 0)
      BY <2>2, <3>1, <3>5, <3>6 DEF Standing, Counts
    <3>8. Settled(t)
      BY <1>1, <3>1, <3>3, <3>7 DEF Settled, Standing
    <3>9. UnsavedQueued(t)
      BY <3>2 DEF UnsavedQueued
    <3> QED
      BY <3>1, <3>4, <3>8, <3>9 DEF Mover, RowView
  <2> QED
    BY <2>2, <2>3, <2>4
<1> QED
  BY <1>2, <1>3

\* Agreement whenever nothing is under way.
LEMMA CalmAgrees ==
    ASSUME IInv, CalmInv, Calm, Quiet
    PROVE  /\ Fresh => likeCount = Cardinality(LikeRows)
           /\ \A s \in Screens : IsOpen(s) /\ "heart" \notin behind[s] =>
                                     (liked[s] <=> HasLike(s))
           /\ UserRowsOK
<1>1. CalmOK
  BY DEF CalmInv
<1> QED
  BY <1>1, MovesOn DEF CalmOK, Standing

LEMMA CalmCount == IInv /\ CalmInv => CountMatchesRows
<1> SUFFICES ASSUME IInv, CalmInv, scenario.patient, faults = 0, Fresh, Quiet
             PROVE  likeCount = Cardinality(LikeRows)
  BY DEF CountMatchesRows, Fresh
<1>1. Calm
  BY DEF IInv, StaleOK, Fresh, Calm
<1> QED
  BY <1>1, CalmAgrees

LEMMA CalmHeart == IInv /\ CalmInv => HeartMatchesRows
<1> SUFFICES ASSUME IInv, CalmInv, Calm, Quiet
             PROVE  /\ \A s \in Screens : visit[s] = "open" /\ "heart" \notin behind[s] =>
                           liked[s] = (Likes(UserOf[s]) # {})
                    /\ \A u \in Users : Cardinality(Likes(u)) <= 1
  BY DEF HeartMatchesRows, Calm
<1>1. ASSUME NEW s \in Screens, visit[s] = "open", "heart" \notin behind[s]
      PROVE  liked[s] = (Likes(UserOf[s]) # {})
  <2>1. liked[s] <=> (Likes(UserOf[s]) # {})
    BY <1>1, CalmAgrees DEF IsOpen, HasLike
  <2>2. liked[s] = TRUE \/ liked[s] = FALSE
    BY DEF IInv, ScreenOK
  <2> QED
    BY <2>1, <2>2
<1>2. ASSUME NEW u \in Users PROVE Cardinality(Likes(u)) <= 1
  <2>1. \A r, q \in Likes(u) : r = q
    BY CalmAgrees DEF UserRowsOK, LikeRows, Likes
  <2>2. CASE Likes(u) = {}
    BY <2>2, FS_EmptySet
  <2>3. CASE Likes(u) # {}
    <3>1. PICK r \in Likes(u) : TRUE
      BY <2>3
    <3>2. Likes(u) = {r}
      BY <2>1, <3>1
    <3>3. Cardinality({r}) = 1
      BY FS_Singleton
    <3> QED
      BY <3>2, <3>3
  <2> QED
    BY <2>2, <2>3
<1> QED
  BY <1>1, <1>2

-----------------------------------------------------------------------------
LEMMA CalmInit == ASSUME Init PROVE CalmOK
<1>0. PICK likers \in SUBSET MayLikeAlready :
          /\ likeCount = Cardinality(likers)
          /\ \E order \in [likers -> 1..Cardinality(likers)] :
                /\ \A u, v \in likers : u # v => order[u] # order[v]
                /\ rows = {[id |-> 2 * order[u] - 1, user |-> u, engage |-> TRUE] :
                               u \in likers}
                          \cup {[id |-> 2 * order[u], user |-> u, engage |-> FALSE] :
                                    u \in likers}
  BY DEF Init
<1>1. PICK order \in [likers -> 1..Cardinality(likers)] :
          rows = {[id |-> 2 * order[u] - 1, user |-> u, engage |-> TRUE] : u \in likers}
                 \cup {[id |-> 2 * order[u], user |-> u, engage |-> FALSE] : u \in likers}
  BY <1>0
<1>2. IsFiniteSet(likers) /\ Cardinality(likers) \in Nat
  BY MayLikeAlreadyType, FS_Subset, FS_CardinalityType
<1> DEFINE engagement(u) == [id |-> 2 * order[u] - 1, user |-> u, engage |-> TRUE]
           like == [u \in likers |-> [id |-> 2 * order[u], user |-> u, engage |-> FALSE]]
<1>3. \A u \in likers : /\ like[u].user = u /\ like[u].engage = FALSE
                        /\ like[u].id = 2 * order[u]
                        /\ engagement(u).user = u /\ engagement(u).engage = TRUE
                        /\ engagement(u).id = 2 * order[u] - 1
  OBVIOUS
<1>4. rows = {engagement(u) : u \in likers} \cup {like[u] : u \in likers}
  BY <1>1
<1>5. \A u \in likers : order[u] \in Nat
  BY <1>1, <1>2
<1>5a. like = [u \in likers |-> like[u]]
  OBVIOUS
<1> HIDE DEF engagement, like
<1>6. LikeRows = {like[u] : u \in likers}
  BY <1>3, <1>4 DEF LikeRows
<1>7. Cardinality(LikeRows) = Cardinality(likers)
  <2>1. like \in Bijection(likers, LikeRows)
    <3>1. like \in [likers -> LikeRows]
      BY <1>5a, <1>6
    <3>2. \A u, v \in likers : like[u] = like[v] => u = v
      BY <1>3
    <3> QED
      BY <1>6, <3>1, <3>2
      DEF Bijection, Injection, Surjection, IsInjective
  <2> QED
    BY <1>2, <2>1, FS_Bijection DEF ExistsBijection
<1>8. UserRowsOK
  <2>1. \A r, q \in LikeRows : r.user = q.user => r = q
    BY <1>3, <1>6
  <2>2. ASSUME NEW r \in LikeRows
        PROVE  /\ Engagements(r.user) # {}
               /\ \A e \in Engagements(r.user) : e.id < r.id
    <3>1. PICK u \in likers : r = like[u]
      BY <1>6
    <3>2. r.user = u /\ r.id = 2 * order[u]
      BY <1>3, <3>1
    <3>3. engagement(u) \in Engagements(r.user)
      BY <1>3, <1>4, <3>2 DEF Engagements
    <3>4. ASSUME NEW e \in Engagements(r.user) PROVE e.id = 2 * order[u] - 1
      <4>1. e \in rows /\ e.user = u /\ e.engage
        BY <3>2 DEF Engagements
      <4>2. PICK v \in likers : e = engagement(v)
        BY <1>3, <1>4, <4>1
      <4> QED
        BY <1>3, <4>1, <4>2
    <3>5. 2 * order[u] - 1 < 2 * order[u]
      BY <1>5
    <3> QED
      BY <3>2, <3>3, <3>4, <3>5
  <2> QED
    BY <2>1, <2>2 DEF UserRowsOK
<1>9. \A s \in Screens : ~IsOpen(s) /\ AtRest(s)
  BY DEF Init, IsOpen, AtRest, QuietScreen, NoSaves, SavesInit
<1>10. deletes = {}
  BY DEF Init
<1> QED
  BY <1>0, <1>7, <1>8, <1>9, <1>10 DEF CalmOK, RestOK, NobodyOK, VisitOK

-----------------------------------------------------------------------------
(***************************************************************************)
(* What holds for every step of the mover.                                 *)
(***************************************************************************)
\* The rows as they were: the sets taken from them too.
LEMMA SameRows ==
    ASSUME rows' = rows
    PROVE  /\ LikeRows' = LikeRows /\ (UserRowsOK <=> UserRowsOK')
           /\ \A s \in Screens : /\ HasLike(s)' <=> HasLike(s)
                                 /\ Likes(UserOf[s])' = Likes(UserOf[s])
                                 /\ Engagements(UserOf[s])' = Engagements(UserOf[s])
BY DEF LikeRows, UserRowsOK, HasLike, Likes, Engagements

LEMMA OthersAtRest ==
    ASSUME IInv, NEW s \in Screens, Step(s), NEW t \in Screens, t # s, AtRest(t)
    PROVE  AtRest(t)'
<1>1. calls'[t] = calls[t]
  BY OtherCalls
<1>2. readings'[t] = readings[t]
  <2>1. DOMAIN readings = Screens
    BY DEF IInv, RequestsOK
  <2> QED
    BY <2>1, RequestChanges
<1>3. queue'[t] = queue[t] /\ sending'[t] = sending[t] /\ dirty'[t] = dirty[t]
  BY OthersUntouched
<1> QED
  BY <1>1, <1>2, <1>3 DEF AtRest, QuietScreen, NoSaves

\* A screen with nothing under way moves only when its user does.
LEMMA QuietMoves ==
    ASSUME NEW s \in Screens, QuietScreen(s)
    PROVE  ~ServiceStep(s) /\ ~FaultStep(s)
<1>1. /\ \A k \in Kinds : calls[s][k] = 0
      /\ \A b \in BOOLEAN : readings[s][b] = 0
      /\ queue[s] = <<>> /\ sending[s] = Idle
  BY DEF QuietScreen, NoSaves
<1>2. \A k \in Kinds : ~Pending(s, k)
  BY <1>1 DEF Pending
<1>3. CreateKinds \subseteq Kinds /\ {"newNotif", "findLike", "findEngage", "findAny"} \subseteq Kinds
  BY DEF CreateKinds, Kinds
<1>4. ~ServiceStep(s)
  BY <1>1, <1>2, <1>3
  DEF ServiceStep, CollectNotif, PostSaveTurn, SaveTurn, PostSaveDone, SaveDone, FindLike,
      FindEngage, FindAny, ShowLiked, Create
<1>5. ~FaultStep(s)
  BY <1>1, <1>2, <1>3
  DEF FaultStep, PostSaveRetried, SaveRetried, PostSaveFails, SaveFails, FindLikeFails,
      FindEngageFails, FindAnyFails, CreateTwice, CreateFails
<1> QED
  BY <1>4, <1>5

LEMMA NoFaultStep ==
    ASSUME IInv, Calm', NEW s \in Screens
    PROVE  ~FaultStep(s)
<1>1. faults \in Nat /\ faults' = 0
  BY DEF IInv, BoundsOK, Calm
<1>2. faults' # faults + 1
  BY <1>1
<1> QED
  BY <1>2
  DEF FaultStep, PostSaveRetried, PostSaveFails, FindLikeFails, FindEngageFails,
      FindAnyFails, CreateTwice, CreateFails

LEMMA UnsavedKeeps ==
    ASSUME IInv, NEW s \in Screens, Step(s), ~FaultStep(s),
           Open(s) \/ UnsavedQueued(s)
    PROVE  UnsavedQueued(s)'
<1>1. /\ DOMAIN dirty = Screens /\ DOMAIN queue = Screens /\ queue[s] \in Seq(Task)
  BY DEF IInv, SavesType, Task
<1>2. CASE Open(s)
  BY <1>1, <1>2 DEF Open, SaveView, UnsavedQueued
<1>3. CASE PostSaveTurn(s)
  <2>1. CASE Head(queue[s]) = "save" /\ dirty[s] = {}
    BY <1>3, <2>1 DEF PostSaveTurn, SaveTurn, UnsavedQueued
  <2>2. CASE ~(Head(queue[s]) = "save" /\ dirty[s] = {})
    <3>1. dirty'[s] = {}
      BY <1>1, <1>3, <2>2 DEF PostSaveTurn, SaveTurn
    <3> QED
      BY <3>1 DEF UnsavedQueued
  <2> QED
    BY <2>1, <2>2
<1>4. CASE PostSaveDone(s)
  <2>1. dirty' = dirty /\ queue' = queue /\ visit' = visit
    BY <1>4 DEF PostSaveDone, SaveDone
  <2>2. ~Open(s)
    BY <2>1 DEF IInv, ScreenOK, Open
  <2> QED
    BY <2>1, <2>2 DEF UnsavedQueued
<1>5. ASSUME NEW x, queue' = [queue EXCEPT ![s] = Append(queue[s], x)]
      PROVE  queue'[s] # <<>>
  BY <1>1, <1>5
<1>6. CASE UNCHANGED <<dirty, queue>> /\ ~Open(s)
  BY <1>6 DEF UnsavedQueued
<1>7. CASE \E n : SaveCount(s, n)
  BY <1>5, <1>7 DEF SaveCount, UnsavedQueued
<1>8. CASE dirty' = dirty /\ queue' = [queue EXCEPT ![s] = Append(queue[s], "batch")]
  BY <1>5, <1>8 DEF UnsavedQueued
<1>9. ~PostSaveFails(s) /\ ~PostSaveRetried(s)
  BY DEF FaultStep
<1> QED
  BY <1>2, <1>3, <1>4, <1>6, <1>7, <1>8, <1>9, SaveChanges

\* A screen that stands keeps standing while the rows it is about stay ...
LEMMA StandingKeeps ==
    ASSUME IInv, NEW s \in Screens, Step(s), NEW t \in Screens \ {s}, Standing(t),
           LikeRows' = LikeRows, HasLike(t)' <=> HasLike(t), Engagements(UserOf[t])' # {}
    PROVE  Standing(t)'
<1>1. liked'[t] = liked[t] /\ count'[t] = count[t]
  BY OthersUntouched
<1>2. behind[t] \subseteq behind'[t] /\ crossed \subseteq crossed'
  BY StaleChanges DEF IInv, BoundsOK
<1> QED
  BY <1>1, <1>2 DEF Standing, Fresh

LEMMA OthersStand ==
    ASSUME IInv, NEW s \in Screens, Step(s), Others(s), rows' = rows,
           NEW t \in Screens \ {s}, IsOpen(t)
    PROVE  Standing(t)'
<1>1. Standing(t)
  BY DEF Others
<1> QED
  BY <1>1, SameRows, StandingKeeps DEF Standing

\* ... and when one it is not about goes or comes, of which the tap has marked it.
LEMMA MarkedStands ==
    ASSUME NEW s \in Screens, Overtook(s), NEW t \in Screens \ {s}, IsOpen(t), Standing(t),
           UNCHANGED <<liked[t], behind[t]>>,
           UserOf[t] # UserOf[s] => (HasLike(t)' <=> HasLike(t)),
           Engagements(UserOf[t])' = Engagements(UserOf[t])
    PROVE  Standing(t)'
<1>1. "count" \in behind'[t] /\ (UserOf[t] = UserOf[s] => "heart" \in behind'[t])
  BY DEF Overtook, Overtaken, IsOpen
<1> QED
  BY <1>1 DEF Standing

\* It is enough to look at the mover and its rows, and that the others stand.
LEMMA MoverKeeps ==
    ASSUME IInv, CalmOK, NEW s \in Screens, Step(s), ~FaultStep(s), visit' = visit,
           IsOpen(s), Mover(s), UserRowsOK', RowView(s)',
           \A t \in Screens \ {s} : IsOpen(t) => Standing(t)'
    PROVE  CalmOK'
<1>1. UnsavedQueued(s)'
  BY UnsavedKeeps DEF Mover
<1>2. \A t \in Screens : IsOpen(t)' <=> IsOpen(t)
  BY DEF IsOpen
<1>3. \A t \in Screens \ {s} : AtRest(t) => AtRest(t)'
  BY OthersAtRest
<1>4. Others(s)'
  BY <1>2, <1>3 DEF Mover, Others
<1>5. VisitOK' /\ NobodyOK'
  BY <1>1, <1>2, <1>4 DEF Mover, VisitOK, NobodyOK
<1>6. RestOK'
  BY <1>2, <1>3 DEF CalmOK, RestOK
<1> QED
  BY <1>5, <1>6 DEF CalmOK

\* Counts follow the rows.
LEMMA CountsKept ==
    ASSUME NEW s \in Screens, UNCHANGED <<visit, behind, crossed, count[s]>>,
           Coming(s)' = Coming(s), NEW d \in Int, NEW e \in Int,
           Cardinality(LikeRows)' + e = Cardinality(LikeRows) + d
    PROVE  (Counts(s, d) => Counts(s, e)') /\ (Overtook(s) => Overtook(s)')
<1>1. Counts(s, d) => Counts(s, e)'
  BY DEF Counts, Fresh
<1>2. Overtook(s) => Overtook(s)'
  BY DEF Overtook, Overtaken
<1> QED
  BY <1>1, <1>2

\* Steps that leave the saves alone.
LEMMA ComingStays ==
    ASSUME NEW s \in Screens, UNCHANGED <<likeCount, count, dirty, sending>>
    PROVE  Coming(s)' = Coming(s)
BY DEF Coming

\* Nothing the rows' view depends on changes.
LEMMA SameView ==
    ASSUME NEW s \in Screens, RowView(s), UserRowsOK, Coming(s)' = Coming(s),
           UNCHANGED <<rows, deletes, visit, behind, crossed, liked[s], count[s], readings[s]>>,
           \A k \in {"findLike", "findEngage", "findAny", "createLike", "createEngage"} :
               calls'[s][k] = calls[s][k]
    PROVE  UserRowsOK' /\ RowView(s)'
<1>1. /\ LikeRows' = LikeRows /\ \A u : Likes(u)' = Likes(u)
      /\ \A u : Engagements(u)' = Engagements(u)
  BY DEF LikeRows, Likes, Engagements
<1>2. UserRowsOK'
  BY <1>1 DEF UserRowsOK
<1>3. (Asking(s)' <=> Asking(s)) /\ (Entering(s)' <=> Entering(s)) /\ (HasLike(s)' <=> HasLike(s))
  BY <1>1 DEF Asking, Entering, HasLike
<1>4. EngageOK(s)' /\ ReadingsOK(s)'
  BY <1>1, <1>3 DEF RowView, EngageOK, ReadingsOK
<1>5. /\ \A d \in {0, 1, -1} : Counts(s, d) => Counts(s, d)'
      /\ Overtook(s) => Overtook(s)'
  BY <1>1, CountsKept
<1>6. (Settled(s) => Settled(s)') /\ (Liking(s) => Liking(s)')
  BY <1>1, <1>3, <1>5 DEF Settled, Liking, Acting
<1>7. (Unliking(s) => Unliking(s)') /\ (Deleting(s) => Deleting(s)')
  BY <1>1, <1>3, <1>5 DEF Unliking, Deleting, Acting
<1> QED
  BY <1>2, <1>4, <1>6, <1>7 DEF RowView

-----------------------------------------------------------------------------
(***************************************************************************)
(* A patient user acts when nothing is under way.                          *)
(***************************************************************************)
LEMMA QuietView ==
    ASSUME NEW s \in Screens, RowView(s), Quiet
    PROVE  /\ \A k \in Kinds : calls[s][k] = 0
           /\ \A b \in BOOLEAN : readings[s][b] = 0
           /\ deletes = {} /\ Counts(s, 0)
           /\ "heart" \in behind[s] \/ (liked[s] <=> HasLike(s))
           /\ Engagements(UserOf[s]) # {}
<1>1. /\ \A k \in Kinds : calls[s][k] = 0
      /\ \A b \in BOOLEAN : readings[s][b] = 0
      /\ deletes = {}
  BY DEF Quiet, QuietScreen
<1>2. {"createLike", "findAny", "findLike", "findEngage", "createEngage"} \subseteq Kinds
  BY DEF Kinds
<1>3. ~Asking(s) /\ ~Entering(s)
  BY <1>1, <1>2 DEF Asking, Entering
<1>4. Settled(s)
  BY <1>1, <1>2 DEF RowView, Liking, Unliking, Deleting
<1> QED
  BY <1>1, <1>3, <1>4 DEF RowView, Settled, EngageOK

LEMMA RefreshView ==
    ASSUME IInv, NEW s \in Screens, RowView(s), UserRowsOK, Quiet, Refresh(s)
    PROVE  UserRowsOK' /\ RowView(s)' /\ rows' = rows
<1>1. /\ UNCHANGED <<rows, likeCount, deletes, liked, count, dirty, sending, readings, crossed>>
      /\ calls' = Call(s, {"findLike"})
      /\ behind' = [behind EXCEPT ![s] = @ \ {"heart"}]
  BY DEF Refresh, serverVars, saveVars
<1>2. /\ calls'[s]["findLike"] = calls[s]["findLike"] + 1
      /\ \A k \in Kinds \ {"findLike"} : calls'[s][k] = calls[s][k]
  <2>1. \A k \in Kinds : calls'[s][k] = calls[s][k] + IF k \in {"findLike"} THEN 1 ELSE 0
    BY <1>1, CallValue DEF IInv
  <2>2. \A k \in Kinds : calls[s][k] = 0
    BY QuietView
  <2> QED
    BY <2>1, <2>2 DEF Kinds
<1>3. /\ \A k \in Kinds : calls[s][k] = 0
      /\ \A b \in BOOLEAN : readings[s][b] = 0
      /\ deletes = {} /\ Counts(s, 0)
      /\ Engagements(UserOf[s]) # {}
  BY QuietView
<1>4. Kinds = {"findLike", "findEngage", "createLike", "createEngage",
               "newNotif", "createNotif", "findAny"}
  BY DEF Kinds
<1>5. Asking(s)'
  BY <1>2, <1>3, <1>4 DEF Asking
<1>6. Counts(s, 0)'
  <2>1. "count" \in behind'[s] <=> "count" \in behind[s]
    BY <1>1 DEF IInv, BoundsOK
  <2> QED
    BY <1>1, <1>3, <2>1, SameRows, ComingStays DEF Counts, Fresh
<1>7. Settled(s)'
  BY <1>1, <1>2, <1>3, <1>4, <1>5, <1>6 DEF Settled
<1>8. EngageOK(s)' /\ ReadingsOK(s)'
  BY <1>1, <1>2, <1>3, <1>4, SameRows DEF EngageOK, ReadingsOK, Entering
<1> QED
  BY <1>1, <1>7, <1>8, SameRows DEF RowView

\* A tap: the screen's count and heart are right, or taps on it are not spoken of.
LEMMA TapView ==
    ASSUME IInv, NEW s \in Screens, RowView(s), Quiet, Calm',
           NEW b, NEW n \in Int, SetLiked(s, b, count[s] + n)
    PROVE  /\ UNCHANGED <<rows, deletes, readings>> /\ liked'[s] = b
           /\ liked[s] <=> HasLike(s)
           /\ Counts(s, n)' /\ Overtook(s)'
<1>1. /\ UNCHANGED <<rows, deletes, readings, visit>>
      /\ liked' = [liked EXCEPT ![s] = b] /\ count' = [count EXCEPT ![s] = count[s] + n]
      /\ dirty' = [dirty EXCEPT ![s] = @ \cup {"count"}]
      /\ behind' = [t \in Screens |-> behind[t] \cup Overtaken(s, t)]
      /\ crossed' = crossed \cup behind[s]
  BY DEF SetLiked, SaveCount, serverVars
<1>2. "heart" \notin behind[s]
  BY <1>1 DEF Calm
<1>3. liked[s] <=> HasLike(s)
  BY <1>2, QuietView
<1>4. /\ liked'[s] = b /\ count'[s] = count[s] + n /\ "count" \in dirty'[s]
  BY <1>1 DEF IInv, ScreenOK, SavesType
<1>5. Counts(s, n)'
  <2> SUFFICES ASSUME Fresh' PROVE Coming(s)' = Cardinality(LikeRows)' + n /\ count'[s] = Coming(s)'
    BY DEF Counts
  <2>1. Fresh /\ "count" \notin behind[s]
    BY <1>1 DEF Fresh
  <2>2. Counts(s, 0)
    BY QuietView
  <2>3. Cardinality(LikeRows) \in Nat
    BY CardinalityOfLikes DEF IInv
  <2>4. count[s] = Cardinality(LikeRows)
    BY <2>1, <2>2, <2>3 DEF Counts
  <2>5. Coming(s)' = count'[s] /\ Cardinality(LikeRows)' = Cardinality(LikeRows)
    BY <1>1, <1>4, SameRows DEF Coming
  <2> QED
    BY <1>4, <2>4, <2>5
<1>6. Overtook(s)'
  <2> SUFFICES ASSUME NEW t \in Screens PROVE Overtaken(s, t)' \subseteq behind'[t]
    BY DEF Overtook
  <2>1. Overtaken(s, t)' = Overtaken(s, t)
    BY <1>1 DEF Overtaken
  <2> QED
    BY <1>1, <2>1
<1> QED
  BY <1>1, <1>3, <1>4, <1>5, <1>6

LEMMA LikeView ==
    ASSUME IInv, NEW s \in Screens, RowView(s), UserRowsOK, Quiet, Like(s), Calm'
    PROVE  UserRowsOK' /\ RowView(s)' /\ rows' = rows
<1> DEFINE extra == IF UserOf[s] # Author THEN {"newNotif"} ELSE {}
<1>1. /\ ~liked[s] /\ SetLiked(s, TRUE, count[s] + 1)
      /\ calls' = Call(s, {"createLike"} \cup extra)
  BY DEF Like
<1>2. /\ calls'[s]["createLike"] = 1
      /\ \A k \in {"findLike", "findEngage", "createEngage", "findAny"} : calls'[s][k] = 0
  <2>1. \A k \in Kinds : calls'[s][k] =
            calls[s][k] + IF k \in {"createLike"} \cup extra THEN 1 ELSE 0
    BY <1>1, CallValue DEF IInv
  <2>2. \A k \in Kinds : calls[s][k] = 0
    BY QuietView
  <2> QED
    BY <2>1, <2>2 DEF Kinds
<1>3. /\ UNCHANGED <<rows, deletes, readings>> /\ liked'[s] /\ ~HasLike(s)
      /\ Counts(s, 1)' /\ Overtook(s)'
  <2>1. 1 \in Int /\ TRUE \in BOOLEAN
    OBVIOUS
  <2> QED
    BY <1>1, <2>1, TapView, Zenon
<1>4. /\ \A b \in BOOLEAN : readings[s][b] = 0
      /\ deletes = {} /\ Engagements(UserOf[s]) # {}
  BY QuietView
<1>5. ~Acting(s)'
  BY <1>2, <1>3, <1>4 DEF Acting, Asking, Entering
<1>6. Liking(s)'
  BY <1>2, <1>3, <1>4, <1>5, SameRows DEF Liking
<1>7. EngageOK(s)' /\ ReadingsOK(s)'
  BY <1>2, <1>3, <1>4, SameRows DEF EngageOK, ReadingsOK, Entering
<1> QED
  BY <1>3, <1>6, <1>7, SameRows DEF RowView

LEMMA UnlikeView ==
    ASSUME IInv, NEW s \in Screens, RowView(s), UserRowsOK, Quiet, Unlike(s), Calm'
    PROVE  UserRowsOK' /\ RowView(s)' /\ rows' = rows
<1>1. /\ liked[s] /\ SetLiked(s, FALSE, count[s] + (-1)) /\ calls' = Call(s, {"findAny"})
  <2>1. count[s] - 1 = count[s] + (-1)
    BY DEF IInv, ScreenOK
  <2> QED
    BY <2>1 DEF Unlike, CountWithoutLike
<1>2. /\ calls'[s]["findAny"] = 1
      /\ \A k \in {"findLike", "findEngage", "createEngage", "createLike"} : calls'[s][k] = 0
  <2>1. \A k \in Kinds : calls'[s][k] = calls[s][k] + IF k \in {"findAny"} THEN 1 ELSE 0
    BY <1>1, CallValue DEF IInv
  <2>2. \A k \in Kinds : calls[s][k] = 0
    BY QuietView
  <2> QED
    BY <2>1, <2>2 DEF Kinds
<1>3. /\ UNCHANGED <<rows, deletes, readings>> /\ ~liked'[s] /\ HasLike(s)
      /\ Counts(s, -1)' /\ Overtook(s)'
  <2>1. -1 \in Int /\ FALSE \in BOOLEAN
    OBVIOUS
  <2> QED
    BY <1>1, <2>1, TapView, Zenon
<1>4. /\ \A b \in BOOLEAN : readings[s][b] = 0
      /\ deletes = {} /\ Engagements(UserOf[s]) # {}
  BY QuietView
<1>5. ~Acting(s)'
  BY <1>2, <1>3, <1>4 DEF Acting, Asking, Entering
<1>6. Unliking(s)'
  BY <1>2, <1>3, <1>4, <1>5, SameRows DEF Unliking
<1>7. EngageOK(s)' /\ ReadingsOK(s)'
  BY <1>2, <1>3, <1>4, SameRows DEF EngageOK, ReadingsOK, Entering
<1> QED
  BY <1>3, <1>6, <1>7, SameRows DEF RowView

-----------------------------------------------------------------------------
(***************************************************************************)
(* The queries and their answers.                                          *)
(***************************************************************************)
\* A query or its answer under way: no tap is.
LEMMA ActingIsSettled ==
    ASSUME NEW s \in Screens, RowView(s), Acting(s) PROVE Settled(s)
BY DEF RowView, Liking, Unliking, Deleting

\* What a query leaves alone, and its answer but for the heart.
LEMMA QueriesCount ==
    ASSUME NEW s \in Screens,
           \/ FindLike(s) \/ FindEngage(s) \/ FindAny(s)
           \/ \E b \in BOOLEAN : ShowLiked(s, b)
    PROVE  /\ UNCHANGED <<rows, visit, behind, crossed, count>>
           /\ \A d \in {0, 1, -1} : Counts(s, d) => Counts(s, d)'
           /\ Overtook(s) => Overtook(s)'
<1>1. UNCHANGED <<likeCount, rows, visit, behind, crossed, count, dirty, sending>>
  BY DEF FindLike, FindEngage, FindAny, ShowLiked, serverVars, saveVars, boundVars, tapVars
<1>2. Cardinality(LikeRows)' = Cardinality(LikeRows) /\ Coming(s)' = Coming(s)
  BY <1>1, SameRows, ComingStays
<1> QED
  BY <1>1, <1>2, CountsKept

LEMMA FindLikeView ==
    ASSUME IInv, NEW s \in Screens, RowView(s), UserRowsOK, FindLike(s)
    PROVE  UserRowsOK' /\ RowView(s)'
<1>1. /\ UNCHANGED <<rows, deletes, liked, count>>
      /\ "findLike" \in Kinds /\ Pending(s, "findLike") /\ calls' = Answered(s, "findLike")
  BY DEF FindLike, serverVars, Kinds
<1>2. \A k \in Kinds \ {"findLike"} : calls'[s][k] = calls[s][k]
  BY <1>1, AnsweredValue DEF IInv
<1>3. readings \in [Screens -> [BOOLEAN -> Nat]] /\ readings[s] \in [BOOLEAN -> Nat]
  BY DEF IInv, RequestsOK
<1>4. Settled(s)
  <2>1. calls[s]["findLike"] # 0
    BY <1>1 DEF Pending
  <2> QED
    BY <2>1, ActingIsSettled DEF Acting, Asking
<1>5. PICK b \in BOOLEAN : /\ b <=> HasLike(s)
                           /\ readings' = [readings EXCEPT ![s][b] = @ + 1]
  <2>1. CASE HasLike(s)
    <3>1. (Likes(UserOf[s]) # {}) = TRUE
      BY <2>1 DEF HasLike
    <3>2. readings' = [readings EXCEPT ![s][TRUE] = @ + 1]
      BY <3>1, Zenon DEF FindLike
    <3> QED
      BY <2>1, <3>2
  <2>2. CASE ~HasLike(s)
    <3>1. (Likes(UserOf[s]) # {}) = FALSE
      BY <2>2 DEF HasLike
    <3>2. readings' = [readings EXCEPT ![s][FALSE] = @ + 1]
      BY <3>1, Zenon DEF FindLike
    <3> QED
      BY <2>2, <3>2
  <2> QED
    BY <2>1, <2>2
<1>6. readings'[s][b] = readings[s][b] + 1 /\ \A c \in BOOLEAN \ {b} : readings'[s][c] = readings[s][c]
  BY <1>3, <1>5
<1>7. readings[s][b] + 1 # 0
  BY <1>3
<1>8. Asking(s)'
  BY <1>6, <1>7 DEF Asking
<1>9. {"createLike", "findAny", "findEngage", "createEngage"} \subseteq Kinds \ {"findLike"}
  BY DEF Kinds
<1>10. Settled(s)'
  BY <1>1, <1>2, <1>4, <1>8, <1>9, QueriesCount DEF Settled
<1>11. EngageOK(s)'
  BY <1>1, <1>2, <1>9, SameRows DEF RowView, EngageOK, Entering
<1>12. ReadingsOK(s)'
  BY <1>1, <1>5, <1>6, SameRows DEF RowView, ReadingsOK
<1> QED
  BY <1>1, <1>10, <1>11, <1>12, SameRows DEF RowView

LEMMA ShowLikedView ==
    ASSUME IInv, NEW s \in Screens, RowView(s), UserRowsOK, NEW b \in BOOLEAN, ShowLiked(s, b)
    PROVE  UserRowsOK' /\ RowView(s)'
<1>1. /\ UNCHANGED <<rows, deletes, count, calls>>
      /\ readings[s][b] > 0 /\ readings' = [readings EXCEPT ![s][b] = @ - 1]
      /\ liked' = [liked EXCEPT ![s] = b]
  BY DEF ShowLiked, serverVars
<1>2. readings \in [Screens -> [BOOLEAN -> Nat]] /\ readings[s] \in [BOOLEAN -> Nat]
  BY DEF IInv, RequestsOK
<1>3. readings[s][b] # 0
  BY <1>1, <1>2
<1>4. Settled(s)
  BY <1>3, ActingIsSettled DEF Acting, Asking
<1>5. b <=> HasLike(s)
  BY <1>3 DEF RowView, ReadingsOK
<1>6. liked'[s] = b
  BY <1>1 DEF IInv, ScreenOK
<1>7. \A c \in BOOLEAN : readings'[s][c] # 0 => readings[s][c] # 0
  <2>1. \A c \in BOOLEAN \ {b} : readings'[s][c] = readings[s][c]
    BY <1>1, <1>2
  <2> QED
    BY <1>3, <2>1
<1>8. Settled(s)'
  BY <1>1, <1>4, <1>5, <1>6, SameRows, QueriesCount DEF Settled
<1>9. EngageOK(s)'
  BY <1>1, SameRows DEF RowView, EngageOK, Entering
<1>10. ReadingsOK(s)'
  BY <1>1, <1>7, SameRows DEF RowView, ReadingsOK
<1> QED
  BY <1>1, <1>8, <1>9, <1>10, SameRows DEF RowView

LEMMA FindEngageView ==
    ASSUME IInv, NEW s \in Screens, RowView(s), UserRowsOK, FindEngage(s)
    PROVE  UserRowsOK' /\ RowView(s)'
<1>1. /\ UNCHANGED <<rows, deletes, liked, count, readings>>
      /\ "findEngage" \in Kinds /\ "createEngage" \in Kinds \ {"findEngage"}
      /\ Pending(s, "findEngage")
  BY DEF FindEngage, serverVars, Kinds
<1>2. calls[s] \in [Kinds -> Nat]
  BY DEF IInv, RequestsOK
<1>3. calls[s]["findEngage"] = 1 /\ calls[s]["createEngage"] = 0
  BY <1>1 DEF RowView, EngageOK, Pending
<1>4. Settled(s)
  BY <1>3, ActingIsSettled DEF Acting, Entering
<1>5. /\ calls'[s]["findEngage"] = 0
      /\ \/ calls'[s]["createEngage"] = 1 /\ Engagements(UserOf[s]) = {}
         \/ calls'[s]["createEngage"] = 0 /\ Engagements(UserOf[s]) # {}
      /\ \A k \in Kinds \ {"findEngage", "createEngage"} : calls'[s][k] = calls[s][k]
  <2>1. CASE Engagements(UserOf[s]) = {}
    <3>1. calls' = Replaced(s, "findEngage", "createEngage")
      BY <2>1 DEF FindEngage, Replaced
    <3>2. /\ calls'[s]["findEngage"] = calls[s]["findEngage"] - 1
          /\ calls'[s]["createEngage"] = calls[s]["createEngage"] + 1
          /\ \A k \in Kinds \ {"findEngage", "createEngage"} : calls'[s][k] = calls[s][k]
      BY <1>1, <3>1, ReplacedValue DEF IInv
    <3> QED
      BY <1>3, <2>1, <3>2
  <2>2. CASE Engagements(UserOf[s]) # {}
    <3>1. calls' = Answered(s, "findEngage")
      BY <2>2 DEF FindEngage
    <3>2. /\ calls'[s]["findEngage"] = calls[s]["findEngage"] - 1
          /\ \A k \in Kinds \ {"findEngage"} : calls'[s][k] = calls[s][k]
      BY <1>1, <3>1, AnsweredValue DEF IInv
    <3>3. calls'[s]["createEngage"] = calls[s]["createEngage"]
      BY <1>1, <3>2
    <3> QED
      BY <1>3, <2>2, <3>2, <3>3
  <2> QED
    BY <2>1, <2>2
<1>6. {"createLike", "findAny", "findLike"} \subseteq Kinds \ {"findEngage", "createEngage"}
  BY DEF Kinds
<1>7. Asking(s)' <=> Asking(s)
  BY <1>1, <1>5, <1>6 DEF Asking
<1>8. Settled(s)'
  BY <1>1, <1>4, <1>5, <1>6, <1>7, SameRows, QueriesCount DEF Settled
<1>9. EngageOK(s)' /\ ReadingsOK(s)'
  BY <1>1, <1>5, SameRows DEF RowView, EngageOK, ReadingsOK, Entering
<1> QED
  BY <1>1, <1>8, <1>9, SameRows DEF RowView

-----------------------------------------------------------------------------
(***************************************************************************)
(* The server creates a row.                                               *)
(***************************************************************************)
LEMMA NewRow ==
    ASSUME ServerOK, NEW s \in Screens, NEW kind \in {"createLike", "createEngage"},
           Insert(s, kind)
    PROVE  \E n : /\ n.id = nextId /\ n.user = UserOf[s] /\ n \notin rows
                  /\ (kind = "createEngage" <=> n.engage)
                  /\ rows' = rows \cup {n}
                  /\ \A r \in rows : r.id < n.id
<1> DEFINE n == [id |-> nextId, user |-> UserOf[s], engage |-> kind = "createEngage"]
<1>1. rows' = rows \cup {n}
  BY DEF Insert
<1>2. n.id = nextId /\ n.user = UserOf[s] /\ (kind = "createEngage" <=> n.engage)
  OBVIOUS
<1>3. \A r \in rows : r.id \in 1..(nextId - 1)
  BY DEF ServerOK
<1>4. nextId \in Nat
  BY DEF ServerOK
<1> HIDE DEF n
<1>5. \A r \in rows : r.id < n.id
  BY <1>2, <1>3, <1>4
<1>6. n \notin rows
  BY <1>2, <1>3, <1>4
<1> QED
  BY <1>1, <1>2, <1>5, <1>6

LEMMA CreateEngageView ==
    ASSUME IInv, NEW s \in Screens, RowView(s), UserRowsOK, Create(s, "createEngage")
    PROVE  /\ UserRowsOK' /\ RowView(s)'
           /\ LikeRows' = LikeRows /\ \A u : Likes(u)' = Likes(u)
           /\ \A u : Engagements(u) # {} => Engagements(u)' # {}
<1>1. /\ UNCHANGED <<deletes, liked, count, readings, likeCount, visit, dirty, sending,
                     behind, crossed>>
      /\ "createEngage" \in Kinds /\ Pending(s, "createEngage")
      /\ calls' = Answered(s, "createEngage") /\ Insert(s, "createEngage")
  BY DEF Create, Kinds, saveVars, boundVars, tapVars
<1>2. PICK n : /\ n.id = nextId /\ n.user = UserOf[s] /\ n \notin rows /\ n.engage
               /\ rows' = rows \cup {n} /\ \A r \in rows : r.id < n.id
  BY <1>1, NewRow DEF IInv
<1>3. /\ calls'[s]["createEngage"] = calls[s]["createEngage"] - 1
      /\ \A k \in Kinds \ {"createEngage"} : calls'[s][k] = calls[s][k]
  BY <1>1, AnsweredValue DEF IInv
<1>4. calls[s] \in [Kinds -> Nat]
  BY DEF IInv, RequestsOK
<1>5. /\ calls[s]["createEngage"] = 1 /\ calls[s]["findEngage"] = 0
      /\ Engagements(UserOf[s]) = {}
  BY <1>1, <1>4 DEF RowView, EngageOK, Pending
<1>6. Settled(s)
  BY <1>5, ActingIsSettled DEF Acting, Entering
<1>7. LikeRows' = LikeRows /\ \A u : Likes(u)' = Likes(u)
  BY <1>2 DEF LikeRows, Likes
<1>8. /\ Engagements(UserOf[s])' = {n}
      /\ \A u : u # UserOf[s] => Engagements(u)' = Engagements(u)
  <2>1. Engagements(UserOf[s])' = Engagements(UserOf[s]) \cup {n}
    BY <1>2 DEF Engagements
  <2>2. \A u : u # UserOf[s] => Engagements(u)' = Engagements(u)
    BY <1>2 DEF Engagements
  <2> QED
    BY <1>5, <2>1, <2>2
<1>9. \A r \in LikeRows : r.user # UserOf[s]
  BY <1>5 DEF UserRowsOK
<1>10. UserRowsOK'
  BY <1>7, <1>8, <1>9 DEF UserRowsOK
<1>11. HasLike(s)' <=> HasLike(s)
  BY <1>7 DEF HasLike
<1>12. {"createLike", "findAny", "findLike", "findEngage"} \subseteq Kinds \ {"createEngage"}
  BY DEF Kinds
<1>13. Asking(s)' <=> Asking(s)
  BY <1>1, <1>3, <1>12 DEF Asking
<1>13a. Counts(s, 0)'
  BY <1>1, <1>6, <1>7, CountsKept, ComingStays DEF Settled
<1>14. Settled(s)'
  BY <1>1, <1>3, <1>6, <1>7, <1>11, <1>12, <1>13, <1>13a DEF Settled
<1>15. calls'[s]["createEngage"] = 0 /\ calls'[s]["findEngage"] = 0
  BY <1>3, <1>5, <1>12
<1>16. EngageOK(s)'
  BY <1>8, <1>15 DEF EngageOK
<1>17. ReadingsOK(s)'
  BY <1>1, <1>11 DEF RowView, ReadingsOK
<1>18. \A u : Engagements(u) # {} => Engagements(u)' # {}
  BY <1>8
<1> QED
  BY <1>7, <1>10, <1>14, <1>16, <1>17, <1>18 DEF RowView

LEMMA CreateLikeView ==
    ASSUME IInv, NEW s \in Screens, RowView(s), UserRowsOK, Create(s, "createLike")
    PROVE  /\ UserRowsOK' /\ RowView(s)' /\ Overtook(s)
           /\ \A u : u # UserOf[s] => Likes(u)' = Likes(u)
           /\ \A u : Engagements(u)' = Engagements(u)
<1>1. /\ UNCHANGED <<deletes, liked, count, readings, likeCount, visit, dirty, sending,
                     behind, crossed>>
      /\ "createLike" \in Kinds /\ Pending(s, "createLike")
      /\ calls' = Answered(s, "createLike") /\ Insert(s, "createLike")
  BY DEF Create, Kinds, saveVars, boundVars, tapVars
<1>2. PICK n : /\ n.id = nextId /\ n.user = UserOf[s] /\ n \notin rows /\ ~n.engage
               /\ rows' = rows \cup {n} /\ \A r \in rows : r.id < n.id
  BY <1>1, NewRow DEF IInv
<1>3. /\ calls'[s]["createLike"] = calls[s]["createLike"] - 1
      /\ \A k \in Kinds \ {"createLike"} : calls'[s][k] = calls[s][k]
  BY <1>1, AnsweredValue DEF IInv
<1>4. calls[s]["createLike"] # 0
  BY <1>1 DEF Pending
<1>5. Liking(s)
  BY <1>4 DEF RowView, Settled, Unliking, Deleting
<1>6. LikeRows' = LikeRows \cup {n} /\ n \notin LikeRows
  BY <1>2 DEF LikeRows
<1>7. Cardinality(LikeRows') = Cardinality(LikeRows) + 1
  BY <1>6, RowsFinite, FS_AddElement DEF IInv
<1>8. \A u : Engagements(u)' = Engagements(u)
  BY <1>2 DEF Engagements
<1>9. \A r \in LikeRows : r.user # UserOf[s]
  BY <1>5 DEF Liking, HasLike, Likes, LikeRows
<1>10. Engagements(UserOf[s]) # {} /\ ~Entering(s) /\ ~Asking(s)
  BY <1>5 DEF RowView, EngageOK, Liking, Acting
<1>11. \A e \in Engagements(UserOf[s]) : e.id < n.id
  BY <1>2 DEF Engagements
<1>12. UserRowsOK'
  BY <1>2, <1>6, <1>8, <1>9, <1>10, <1>11 DEF UserRowsOK
<1>13. HasLike(s)'
  BY <1>2 DEF HasLike, Likes
<1>14. {"findAny", "findLike", "findEngage", "createEngage"} \subseteq Kinds \ {"createLike"}
  BY DEF Kinds
<1>15. ~Asking(s)' /\ ~Entering(s)'
  BY <1>1, <1>3, <1>10, <1>14 DEF Asking, Entering
<1>16. calls'[s]["createLike"] = 0
  BY <1>3, <1>5 DEF Liking
<1>16a. Counts(s, 0)'
  <2>1. Cardinality(LikeRows) \in Nat
    BY CardinalityOfLikes DEF IInv
  <2>2. Cardinality(LikeRows)' + 0 = Cardinality(LikeRows) + 1
    BY <1>7, <2>1
  <2> QED
    BY <1>1, <1>5, <2>2, CountsKept, ComingStays DEF Liking
<1>17. Settled(s)'
  BY <1>1, <1>3, <1>5, <1>13, <1>14, <1>16, <1>16a DEF Liking, Settled
<1>18. EngageOK(s)'
  BY <1>3, <1>8, <1>10, <1>14 DEF RowView, EngageOK
<1>19. ReadingsOK(s)'
  BY <1>15 DEF ReadingsOK, Asking
<1>20. \A u : u # UserOf[s] => Likes(u)' = Likes(u)
  BY <1>2 DEF Likes
<1>21. Overtook(s)
  BY <1>5 DEF Liking
<1> QED
  BY <1>8, <1>12, <1>17, <1>18, <1>19, <1>20, <1>21 DEF RowView

-----------------------------------------------------------------------------
(***************************************************************************)
(* Unliking: the newest row is the like, because the engagement is older.  *)
(***************************************************************************)
LEMMA FindAnyView ==
    ASSUME IInv, NEW s \in Screens, RowView(s), UserRowsOK, FindAny(s)
    PROVE  UserRowsOK' /\ RowView(s)'
<1>1. /\ UNCHANGED <<rows, liked, count, readings>>
      /\ "findAny" \in Kinds /\ Pending(s, "findAny") /\ calls' = Answered(s, "findAny")
  BY DEF FindAny, serverVars, Kinds
<1>2. /\ calls'[s]["findAny"] = calls[s]["findAny"] - 1
      /\ \A k \in Kinds \ {"findAny"} : calls'[s][k] = calls[s][k]
  BY <1>1, AnsweredValue DEF IInv
<1>3. calls[s]["findAny"] # 0
  BY <1>1 DEF Pending
<1>4. Unliking(s)
  BY <1>3 DEF RowView, Settled, Liking, Deleting
<1> DEFINE mine == RowsOf(UserOf[s])
<1>5. PICK r \in Likes(UserOf[s]) : TRUE
  BY <1>4 DEF Unliking, HasLike
<1>6. mine \subseteq rows /\ r \in mine
  BY <1>5 DEF RowsOf, Likes
<1>7. Newest(mine) \in mine /\ \A q \in mine : q.id <= Newest(mine).id
  BY <1>6, NewestExists DEF IInv
<1>8. Newest(mine) \in Likes(UserOf[s])
  <2>1. CASE ~Newest(mine).engage
    BY <1>7, <2>1 DEF RowsOf, Likes
  <2>2. CASE Newest(mine).engage
    <3>1. r \in LikeRows /\ Newest(mine) \in Engagements(r.user)
      BY <1>5, <1>7, <2>2 DEF LikeRows, Likes, RowsOf, Engagements
    <3>2. Newest(mine).id < r.id
      BY <3>1 DEF UserRowsOK
    <3>3. r.id <= Newest(mine).id
      BY <1>6, <1>7
    <3>4. r.id \in Int /\ Newest(mine).id \in Int
      BY <1>6, <1>7 DEF IInv, ServerOK
    <3> HIDE DEF mine
    <3> QED
      BY <3>2, <3>3, <3>4
  <2> QED
    BY <2>1, <2>2
<1>9. deletes' = {Newest(mine).id}
  <2>1. deletes = {}
    BY <1>4 DEF Unliking
  <2> QED
    BY <1>6, <2>1 DEF FindAny
<1> HIDE DEF mine
<1>10. {"createLike", "findLike", "findEngage", "createEngage"} \subseteq Kinds \ {"findAny"}
  BY DEF Kinds
<1>11. calls'[s]["findAny"] = 0
  BY <1>2, <1>4 DEF Unliking
<1>12. ~Acting(s)'
  BY <1>1, <1>2, <1>4, <1>10 DEF Unliking, Acting, Asking, Entering
<1>13. Deleting(s)'
  <2>1. Likes(UserOf[s])' = Likes(UserOf[s])
    BY <1>1, SameRows
  <2>2. Counts(s, -1)' /\ Overtook(s)'
    BY <1>4, QueriesCount DEF Unliking
  <2> QED
    BY <1>1, <1>2, <1>4, <1>8, <1>9, <1>10, <1>11, <1>12, <2>1, <2>2 DEF Unliking, Deleting
<1>14. EngageOK(s)' /\ ReadingsOK(s)'
  BY <1>1, <1>2, <1>10, SameRows DEF RowView, EngageOK, ReadingsOK, Entering
<1> QED
  BY <1>1, <1>13, <1>14, SameRows DEF RowView

LEMMA DeleteView ==
    ASSUME IInv, CalmOK, NEW id \in deletes, Delete(id)
    PROVE  CalmOK'
<1>1. /\ UNCHANGED <<likeCount, visit, liked, count, dirty, queue, sending, calls, readings,
                     behind, crossed>>
      /\ deletes' = deletes \ {id} /\ rows' = {r \in rows : r.id # id}
  BY DEF Delete, saveVars, boundVars, tapVars
<1>2. PICK s \in Screens : IsOpen(s) /\ Mover(s)
  BY DEF CalmOK, NobodyOK, VisitOK
<1>3. UnsavedQueued(s) /\ RowView(s) /\ Others(s)
  BY <1>2 DEF Mover
<1>4. Deleting(s)
  BY <1>3 DEF RowView, Settled, Liking, Unliking
<1>5. PICK r \in Likes(UserOf[s]) : deletes = {r.id}
  BY <1>4 DEF Deleting
<1>6. r.id = id /\ deletes' = {} /\ r \in rows /\ r \in LikeRows /\ r.user = UserOf[s]
  BY <1>1, <1>5 DEF Likes, LikeRows
<1>7. rows' = rows \ {r}
  BY <1>1, <1>6 DEF IInv, ServerOK
<1>8. /\ LikeRows' = LikeRows \ {r} /\ \A u : Engagements(u)' = Engagements(u)
      /\ \A u : u # UserOf[s] => Likes(u)' = Likes(u)
  BY <1>6, <1>7 DEF LikeRows, Likes, Engagements
<1>9. Cardinality(LikeRows') = Cardinality(LikeRows) - 1
  BY <1>6, <1>8, RowsFinite, FS_RemoveElement DEF IInv
<1>10. UserRowsOK'
  BY <1>8 DEF CalmOK, UserRowsOK
<1>11. ~HasLike(s)'
  <2>1. \A q \in LikeRows : q.user = UserOf[s] => q = r
    BY <1>6 DEF CalmOK, UserRowsOK
  <2>2. \A q \in LikeRows' : q.user # UserOf[s]
    BY <1>8, <2>1
  <2> QED
    BY <2>2 DEF HasLike, Likes, LikeRows
<1>12. /\ (Asking(s)' <=> Asking(s)) /\ (Entering(s)' <=> Entering(s))
       /\ ~Asking(s) /\ ~liked[s]
  BY <1>1, <1>4 DEF Asking, Entering, Deleting, Acting
<1>13. Counts(s, 0)'
  <2>1. Cardinality(LikeRows) \in Nat
    BY CardinalityOfLikes DEF IInv
  <2>2. Cardinality(LikeRows)' + 0 = Cardinality(LikeRows) + (-1)
    BY <1>9, <2>1
  <2> QED
    BY <1>1, <1>4, <2>2, CountsKept, ComingStays DEF Deleting
<1>14. Settled(s)'
  BY <1>1, <1>4, <1>6, <1>11, <1>12, <1>13 DEF Deleting, Settled
<1>15. EngageOK(s)'
  BY <1>1, <1>3, <1>8, <1>12 DEF RowView, EngageOK
<1>16. ReadingsOK(s)'
  BY <1>12 DEF ReadingsOK, Asking
<1>17. UnsavedQueued(s)'
  BY <1>1, <1>3 DEF UnsavedQueued
<1>18. \A t \in Screens : (IsOpen(t)' <=> IsOpen(t)) /\ (AtRest(t) => AtRest(t)')
  BY <1>1 DEF IsOpen, AtRest, QuietScreen, NoSaves
<1>19. Others(s)'
  <2> SUFFICES ASSUME NEW t \in Screens \ {s}, IsOpen(t)' PROVE AtRest(t)' /\ Standing(t)'
    BY DEF Others
  <2>1. IsOpen(t) /\ AtRest(t) /\ Standing(t)
    BY <1>3, <1>18 DEF Others
  <2>2. UserOf[t] # UserOf[s] => (HasLike(t)' <=> HasLike(t))
    BY <1>8 DEF HasLike
  <2>3. Overtook(s)
    BY <1>4 DEF Deleting
  <2> QED
    BY <1>1, <1>8, <1>18, <2>1, <2>2, <2>3, MarkedStands
<1>20. VisitOK' /\ NobodyOK'
  BY <1>2, <1>14, <1>15, <1>16, <1>17, <1>18, <1>19
  DEF VisitOK, Mover, RowView, NobodyOK
<1>21. RestOK'
  BY <1>18 DEF CalmOK, RestOK
<1> QED
  BY <1>10, <1>20, <1>21 DEF CalmOK

-----------------------------------------------------------------------------
(***************************************************************************)
(* A visit begins and ends with the count right.                           *)
(***************************************************************************)
LEMMA OpenView ==
    ASSUME IInv, CalmOK, Calm, NEW s \in Screens, Open(s)
    PROVE  CalmOK'
<1>1. /\ UNCHANGED <<likeCount, rows, liked, sending, readings, deletes, behind, crossed>>
      /\ visit[s] = "unopened" /\ visit' = [visit EXCEPT ![s] = "open"]
      /\ count' = [count EXCEPT ![s] = likeCount]
      /\ dirty' = [dirty EXCEPT ![s] = {"numViews"}]
      /\ calls' = Call(s, {"findEngage", "findLike"})
      /\ Quiet
  BY DEF Open, serverVars, boundVars, tapVars, SaveView, Calm, UserMayAct
<1>2. Step(s)
  BY DEF Step, UserStep
<1>3. /\ deletes = {} /\ (Fresh => likeCount = Cardinality(LikeRows))
      /\ \A t \in Screens : AtRest(t) /\ (IsOpen(t) => Standing(t))
  BY <1>1, MovesOn DEF Quiet
<1>4. /\ calls'[s]["findEngage"] = 1 /\ calls'[s]["findLike"] = 1
      /\ \A k \in {"createEngage", "createLike", "findAny"} : calls'[s][k] = 0
  <2>1. \A k \in Kinds : calls'[s][k] =
            calls[s][k] + IF k \in {"findEngage", "findLike"} THEN 1 ELSE 0
    BY <1>1, CallValue DEF IInv
  <2>2. \A k \in Kinds : calls[s][k] = 0
    BY <1>3 DEF AtRest, QuietScreen
  <2> QED
    BY <2>1, <2>2 DEF Kinds
<1>5. visit'[s] = "open" /\ count'[s] = likeCount /\ dirty'[s] = {"numViews"}
  BY <1>1 DEF IInv, ScreenOK, SavesType
<1>6. Asking(s)' /\ Entering(s)'
  BY <1>4 DEF Asking, Entering
<1>7. Counts(s, 0)'
  <2>1. sending'[s].keys = {}
    BY <1>1, <1>3 DEF AtRest, QuietScreen, NoSaves, Idle
  <2>2. Coming(s)' = likeCount
    BY <1>1, <1>5, <2>1 DEF Coming
  <2>3. Cardinality(LikeRows)' = Cardinality(LikeRows) /\ Cardinality(LikeRows) \in Nat
    BY <1>1, SameRows, CardinalityOfLikes DEF IInv
  <2>4. Cardinality(LikeRows)' + 0 = Cardinality(LikeRows)
    BY <2>3
  <2> QED
    BY <1>1, <1>3, <1>5, <2>2, <2>4 DEF Counts, Fresh
<1>8. Settled(s)'
  BY <1>1, <1>3, <1>4, <1>6, <1>7 DEF Settled
<1>9. EngageOK(s)'
  BY <1>4, <1>6 DEF EngageOK
<1>10. ReadingsOK(s)'
  BY <1>1, <1>3 DEF ReadingsOK, AtRest, QuietScreen
<1>11. ~FaultStep(s)
  BY <1>1, QuietMoves DEF Quiet
<1>12. UnsavedQueued(s)'
  BY <1>2, <1>11, UnsavedKeeps
<1>13. \A t \in Screens : IsOpen(t)' <=> t = s \/ IsOpen(t)
  BY <1>1, <1>5 DEF IsOpen, IInv, ScreenOK
<1>14. \A t \in Screens \ {s} : AtRest(t)'
  BY <1>2, <1>3, OthersAtRest
<1>15. Others(s)'
  <2>1. ASSUME NEW t \in Screens \ {s}, IsOpen(t) PROVE Standing(t)'
    BY <1>1, <1>2, <1>3, <2>1, SameRows, StandingKeeps DEF Standing
  <2> QED
    BY <1>13, <1>14, <2>1 DEF Others
<1>16. VisitOK' /\ NobodyOK' /\ RestOK'
  BY <1>8, <1>9, <1>10, <1>12, <1>13, <1>14, <1>15
  DEF VisitOK, Mover, RowView, NobodyOK, RestOK
<1>17. UserRowsOK'
  BY <1>1, SameRows DEF CalmOK
<1> QED
  BY <1>16, <1>17 DEF CalmOK

LEMMA CloseView ==
    ASSUME IInv, CalmOK, Calm, NEW s \in Screens, Close(s)
    PROVE  CalmOK'
<1>1. /\ UNCHANGED <<likeCount, rows, deletes, calls, readings, liked, count, dirty, queue,
                     sending, behind, crossed>>
      /\ visit' = [visit EXCEPT ![s] = "closed"] /\ Quiet
  BY DEF Close, serverVars, saveVars, requestVars, boundVars, tapVars, UserMayAct, Calm
<1>2. /\ Fresh => likeCount = Cardinality(LikeRows)
      /\ \A t \in Screens : AtRest(t) /\ (IsOpen(t) => Standing(t) /\ Mover(t))
  BY <1>1, MovesOn
<1>3. \A t \in Screens : IsOpen(t)' => t # s /\ IsOpen(t)
  BY <1>1 DEF IsOpen, IInv, ScreenOK
<1>4. \A t \in Screens : AtRest(t)'
  BY <1>1, <1>2 DEF AtRest, QuietScreen, NoSaves
<1>5. UserRowsOK'
  BY <1>1, SameRows DEF CalmOK
<1>6. NobodyOK'
  BY <1>1, <1>2, SameRows DEF NobodyOK, Quiet, Fresh
<1>7. ASSUME NEW t \in Screens, IsOpen(t)' PROVE Mover(t)'
  <2>1. Standing(t) /\ AtRest(t) /\ UnsavedQueued(t) /\ RowView(t) /\ Others(t)
    BY <1>2, <1>3, <1>7 DEF Mover
  <2>2. QuietScreen(t) /\ deletes = {}
    BY <1>1 DEF Quiet
  <2>3. Engagements(UserOf[t])' # {} /\ (HasLike(t)' <=> HasLike(t))
    BY <1>1, <2>1, SameRows DEF Standing
  <2>4. /\ calls[t]["findEngage"] = 0 /\ calls[t]["createEngage"] = 0
        /\ calls[t]["createLike"] = 0 /\ calls[t]["findAny"] = 0
        /\ \A b \in BOOLEAN : readings[t][b] = 0
    BY <2>2 DEF QuietScreen, Kinds
  <2>5. EngageOK(t)' /\ ReadingsOK(t)'
    BY <1>1, <2>3, <2>4 DEF EngageOK, ReadingsOK
  <2>6. Counts(t, 0)'
    BY <1>1, <2>1, <2>2, SameRows, ComingStays, QuietView DEF Counts, Fresh
  <2>7. Settled(t)'
    BY <1>1, <2>1, <2>2, <2>3, <2>4, <2>6 DEF Settled, Standing
  <2>8. UnsavedQueued(t)'
    BY <1>1, <2>1 DEF UnsavedQueued
  <2>9. \A r \in Screens : Standing(r) => Standing(r)'
    BY <1>1, SameRows DEF Standing, Fresh
  <2>10. Others(t)'
    BY <1>2, <1>3, <1>4, <2>9 DEF Others
  <2> QED
    BY <2>5, <2>7, <2>8, <2>10 DEF Mover, RowView
<1>8. VisitOK' /\ RestOK'
  BY <1>4, <1>7 DEF VisitOK, RestOK
<1> QED
  BY <1>5, <1>6, <1>8 DEF CalmOK

-----------------------------------------------------------------------------
\* Saves and notifications leave the rows and their view alone.
LEMMA SaveStepView ==
    ASSUME IInv, NEW s \in Screens, RowView(s), UserRowsOK,
           \/ CollectNotif(s) \/ PostSaveTurn(s) \/ PostSaveDone(s)
           \/ Create(s, "createNotif")
    PROVE  UserRowsOK' /\ RowView(s)' /\ rows' = rows
<1>1. /\ "newNotif" \in Kinds /\ "createNotif" \in Kinds \ {"newNotif"}
      /\ {"findLike", "findEngage", "findAny", "createLike", "createEngage"}
             = Kinds \ {"newNotif", "createNotif"}
  BY DEF Kinds
<1>2. UNCHANGED <<rows, deletes, visit, behind, crossed, liked, count, readings>>
  <2>1. CASE CollectNotif(s)
    BY <2>1 DEF CollectNotif, serverVars, boundVars, tapVars
  <2>2. CASE PostSaveTurn(s) \/ PostSaveDone(s)
    BY <2>2 DEF PostSaveTurn, PostSaveDone, SaveTurn, SaveDone, requestVars, boundVars, tapVars
  <2>3. CASE Create(s, "createNotif")
    BY <2>3 DEF Create, Insert, boundVars, tapVars
  <2> QED
    BY <2>1, <2>2, <2>3
<1>3. \A k \in Kinds \ {"newNotif", "createNotif"} : calls'[s][k] = calls[s][k]
  <2>1. CASE CollectNotif(s)
    <3>1. /\ Pending(s, "newNotif")
          /\ \/ calls' = Answered(s, "newNotif")
             \/ calls' = Replaced(s, "newNotif", "createNotif")
      BY <2>1 DEF CollectNotif, Replaced
    <3> QED
      BY <1>1, <3>1, AnsweredValue, ReplacedValue DEF IInv
  <2>2. CASE PostSaveTurn(s)
    BY <2>2 DEF PostSaveTurn, requestVars
  <2>3. CASE PostSaveDone(s)
    <3>1. calls' = calls \/ calls' = Call(s, {"createNotif"})
      BY <2>3 DEF PostSaveDone, CallsAfterSave
    <3>2. calls[s] \in [Kinds -> Nat]
      BY DEF IInv, RequestsOK
    <3>3. CASE calls' = Call(s, {"createNotif"})
      <4>1. \A k \in Kinds : calls'[s][k] =
                calls[s][k] + IF k \in {"createNotif"} THEN 1 ELSE 0
        BY <3>3, CallValue DEF IInv
      <4> QED
        BY <3>2, <4>1
    <3> QED
      BY <3>1, <3>3
  <2>4. CASE Create(s, "createNotif")
    <3>1. calls' = Answered(s, "createNotif")
      BY <2>4 DEF Create
    <3> QED
      BY <1>1, <3>1, AnsweredValue DEF IInv
  <2> QED
    BY <2>1, <2>2, <2>3, <2>4
<1>4. Coming(s)' = Coming(s)
  <2>1. DOMAIN dirty = Screens /\ DOMAIN sending = Screens
    BY DEF IInv, SavesType
  <2>2. CASE CollectNotif(s) \/ Create(s, "createNotif")
    BY <2>2, ComingStays DEF CollectNotif, Create, serverVars, saveVars
  <2>3. CASE PostSaveTurn(s)
    <3>1. UNCHANGED <<likeCount, count>> /\ sending[s].keys = {}
      BY <2>3 DEF PostSaveTurn, SaveTurn, Idle
    <3>2. CASE Head(queue[s]) = "save" /\ dirty[s] = {}
      BY <2>3, <3>1, <3>2, ComingStays DEF PostSaveTurn, SaveTurn
    <3>3. CASE ~(Head(queue[s]) = "save" /\ dirty[s] = {})
      <4>1. /\ sending'[s] = [kind |-> Head(queue[s]), keys |-> dirty[s], count |-> count[s]]
            /\ dirty'[s] = {}
        BY <2>1, <2>3, <3>3 DEF PostSaveTurn, SaveTurn
      <4>2. sending'[s].keys = dirty[s] /\ sending'[s].count = count[s]
        BY <4>1
      <4> QED
        BY <3>1, <4>1, <4>2 DEF Coming
    <3> QED
      BY <3>2, <3>3
  <2>4. CASE PostSaveDone(s)
    <3>1. UNCHANGED <<count, dirty>> /\ sending'[s].keys = {}
      BY <2>1, <2>4 DEF PostSaveDone, SaveDone, Idle
    <3>2. likeCount' = IF "count" \in sending[s].keys THEN sending[s].count ELSE likeCount
      BY <2>4 DEF PostSaveDone, SaveDone, WriteCount
    <3> QED
      BY <3>1, <3>2 DEF Coming
  <2> QED
    BY <2>2, <2>3, <2>4
<1> QED
  BY <1>1, <1>2, <1>3, <1>4, SameView

LEMMA CalmStep ==
    ASSUME IInv, CalmOK, Calm, Calm', NEW s \in Screens, Step(s)
    PROVE  CalmOK'
<1>1. CASE Open(s)
  BY <1>1, OpenView
<1>2. CASE Close(s)
  BY <1>2, CloseView
<1>3. CASE ~Open(s) /\ ~Close(s)
  <2>1. visit' = visit
    BY <1>3, Changes
  <2>2. ~FaultStep(s)
    BY NoFaultStep
  <2>3. Refresh(s) \/ Like(s) \/ Unlike(s) => Quiet /\ IsOpen(s)
    BY DEF Calm, Refresh, Like, Unlike, SetLiked, UserMayAct, IsOpen
  <2>4. IsOpen(s) /\ Mover(s)
    <3>1. CASE QuietScreen(s)
      <4>1. Quiet /\ IsOpen(s)
        BY <1>3, <2>3, <3>1, QuietMoves DEF Step, UserStep
      <4> QED
        BY <4>1, MovesOn
    <3>2. CASE ~QuietScreen(s)
      <4>1. IsOpen(s)
        BY <3>2 DEF CalmOK, RestOK, AtRest
      <4>2. PICK t \in Screens : IsOpen(t) /\ Mover(t)
        BY <4>1 DEF CalmOK, VisitOK
      <4>3. t = s
        BY <3>2, <4>1, <4>2 DEF Mover, Others, AtRest
      <4> QED
        BY <4>2, <4>3
    <3> QED
      BY <3>1, <3>2
  <2>5. RowView(s) /\ Others(s) /\ UserRowsOK
    BY <2>4 DEF Mover, CalmOK
  <2>6. /\ UserRowsOK' /\ RowView(s)'
        /\ \A t \in Screens \ {s} : IsOpen(t) => Standing(t)'
    <3>1. CASE Refresh(s) \/ Like(s) \/ Unlike(s)
      BY <2>3, <2>5, <3>1, RefreshView, LikeView, UnlikeView, OthersStand
    <3>2. CASE CollectNotif(s) \/ PostSaveTurn(s) \/ PostSaveDone(s)
      BY <2>5, <3>2, SaveStepView, OthersStand
    <3>3. CASE FindLike(s) \/ FindEngage(s) \/ FindAny(s)
      BY <2>5, <3>3, FindLikeView, FindEngageView, FindAnyView, QueriesCount, OthersStand
    <3>4. CASE \E b \in BOOLEAN : ShowLiked(s, b)
      BY <2>5, <3>4, ShowLikedView, QueriesCount, OthersStand
    <3>5. CASE Create(s, "createNotif")
      BY <2>5, <3>5, SaveStepView, OthersStand
    <3>6. CASE Create(s, "createEngage")
      <4>1. /\ UserRowsOK' /\ RowView(s)' /\ LikeRows' = LikeRows
            /\ \A u : Likes(u)' = Likes(u)
            /\ \A u : Engagements(u) # {} => Engagements(u)' # {}
        BY <2>5, <3>6, CreateEngageView
      <4>2. ASSUME NEW t \in Screens \ {s}, IsOpen(t) PROVE Standing(t)'
        <5>1. Standing(t)
          BY <2>5, <4>2 DEF Others
        <5> QED
          BY <4>1, <5>1, StandingKeeps DEF Standing, HasLike
      <4> QED
        BY <4>1, <4>2
    <3>7. CASE Create(s, "createLike")
      <4>1. /\ UserRowsOK' /\ RowView(s)' /\ Overtook(s)
            /\ \A u : u # UserOf[s] => Likes(u)' = Likes(u)
            /\ \A u : Engagements(u)' = Engagements(u)
        BY <2>5, <3>7, CreateLikeView
      <4>2. UNCHANGED <<liked, behind>>
        BY <3>7 DEF Create, boundVars, tapVars
      <4>3. ASSUME NEW t \in Screens \ {s}, IsOpen(t) PROVE Standing(t)'
        <5>1. Standing(t)
          BY <2>5, <4>3 DEF Others
        <5> QED
          BY <4>1, <4>2, <4>3, <5>1, MarkedStands DEF HasLike
      <4> QED
        BY <4>1, <4>3
    <3> QED
      BY <1>3, <2>2, <3>1, <3>2, <3>3, <3>4, <3>5, <3>6, <3>7
      DEF Step, UserStep, ServiceStep, CreateKinds
  <2> QED
    BY <2>1, <2>2, <2>4, <2>6, MoverKeeps
<1> QED
  BY <1>1, <1>2, <1>3

LEMMA CalmNext == IInv /\ CalmInv /\ [Next]_vars => CalmInv'
<1> SUFFICES ASSUME IInv, CalmInv, [Next]_vars, Calm' PROVE CalmOK'
  BY DEF CalmInv
<1>1. ASSUME NEW s \in Screens, Step(s) PROVE CalmOK'
  <2>1. scenario' = scenario /\ crossed \subseteq crossed'
    BY <1>1, Changes, StaleChanges
  <2>2. faults = 0
    <3>1. (faults' = faults \/ faults' = faults + 1) /\ faults \in Nat
      BY <1>1, Changes DEF IInv, BoundsOK
    <3> QED
      BY <3>1 DEF Calm
  <2>3. Calm
    BY <2>1, <2>2 DEF Calm
  <2> QED
    BY <1>1, <2>3, CalmStep DEF CalmInv
<1>2. CASE DeleteStep
  <2>1. PICK id \in deletes : Delete(id) \/ DeleteFails(id)
    BY <1>2 DEF DeleteStep
  <2>2. ~DeleteFails(id)
    <3>1. faults \in Nat /\ faults' = 0
      BY DEF IInv, BoundsOK, Calm
    <3> QED
      BY <3>1 DEF DeleteFails
  <2>3. Calm
    BY <2>1, <2>2 DEF Delete, boundVars, tapVars, Calm
  <2> QED
    BY <2>1, <2>2, <2>3, DeleteView DEF CalmInv
<1>3. CASE LateStep
  <2>1. PICK a \in abandoned : PostSavedLate(a)
    BY <1>3 DEF LateStep
  <2>2. faults = 0
    BY <2>1 DEF PostSavedLate, boundVars, Calm
  <2>3. a.id \in 1..0
    BY <2>1, <2>2 DEF IInv, LateOK
  <2> QED
    BY <2>3
<1>4. CASE UNCHANGED vars
  <2>1. UNCHANGED <<likeCount, rows, visit, liked, count, dirty, queue, sending, calls,
                    readings, deletes, scenario, faults, behind, crossed>>
    BY <1>4 DEF vars, serverVars, saveVars, requestVars, boundVars, tapVars
  <2>2. CalmOK
    BY <2>1 DEF CalmInv, Calm
  <2>3. UserRowsOK' /\ LikeRows' = LikeRows
    BY <2>1, <2>2, SameRows DEF CalmOK
  <2>4. ASSUME NEW s \in Screens
        PROVE  /\ (IsOpen(s)' <=> IsOpen(s)) /\ (AtRest(s) => AtRest(s)')
               /\ (UnsavedQueued(s) => UnsavedQueued(s)') /\ (Standing(s) => Standing(s)')
               /\ Coming(s)' = Coming(s)
    BY <2>1, SameRows DEF IsOpen, AtRest, QuietScreen, NoSaves, UnsavedQueued, Standing,
                          Fresh, Coming
  <2>5. ASSUME NEW s \in Screens, Mover(s) PROVE Mover(s)'
    <3>1. RowView(s)'
      BY <2>1, <2>2, <2>4, <2>5, SameView DEF Mover, CalmOK
    <3> QED
      BY <2>4, <2>5, <3>1 DEF Mover, Others
  <2>6. RestOK' /\ VisitOK'
    BY <2>2, <2>4, <2>5 DEF CalmOK, RestOK, VisitOK
  <2>7. NobodyOK'
    BY <2>1, <2>2, <2>3, <2>4 DEF CalmOK, NobodyOK, Fresh
  <2> QED
    BY <2>3, <2>6, <2>7 DEF CalmOK
<1> QED
  BY <1>1, <1>2, <1>3, <1>4, NextSteps

LEMMA CalmHolds == Spec => []CalmInv
<1>1. Init => CalmInv
  BY CalmInit DEF CalmInv
<1> QED
  BY <1>1, IInvHolds, CalmNext, PTL DEF Spec

\* Patient users, no fault, any number of open screens: whenever nothing is under
\* way, the post's count is the number of its like rows, until somebody taps a
\* screen that was opened before another screen's tap.
THEOREM CountAgrees == Spec => []CountMatchesRows
BY IInvHolds, CalmHolds, CalmCount, PTL

\* ... the heart of an open screen says whether its user has such a row, unless
\* the user has tapped another screen since it last asked, and nobody has two,
\* until somebody taps such a heart.
THEOREM HeartAgrees == Spec => []HeartMatchesRows
BY IInvHolds, CalmHolds, CalmHeart, PTL

-----------------------------------------------------------------------------
(***************************************************************************)
(* Notifications.  Each like of somebody else's post is a notification     *)
(* made, or one on its way: not yet collected, waiting for a batch in the  *)
(* queue or on the wire, or about to be created.  What a screen owes is    *)
(* its likes less those on the way; notifs is the sum of what the screens  *)
(* owe, off by one for each fault at most.                                 *)
(***************************************************************************)
BatchMarks(q) == [k \in 1..Len(q) |-> IF q[k] = "batch" THEN 1 ELSE 0]
Batches(q) == SumFrom(BatchMarks(q), 0, Len(q))
BatchOut(save) == IF save.kind = "batch" THEN 1 ELSE 0

OnTheWay(c, q, save) == c["newNotif"] + c["createNotif"] + Batches(q) + BatchOut(save)
Due(s, n) == IF UserOf[s] # Author THEN n ELSE 0

Way(s) == OnTheWay(calls[s], queue[s], sending[s])
Owed == [s \in Screens |-> Due(s, likeTaps[s]) - Way(s)]

NotifsOK ==
    /\ notifs <= SumOn(Owed, Screens) + faults
    /\ SumOn(Owed, Screens) <= notifs + faults

LEMMA MarksAre ==
    ASSUME NEW q \in Seq(Task)
    PROVE  /\ Len(q) \in Nat
           /\ \A k \in 1..Len(q) : BatchMarks(q)[k] = IF q[k] = "batch" THEN 1 ELSE 0
BY DEF BatchMarks

LEMMA BatchesNone == Batches(<<>>) = 0
<1>1. (0 + 1)..(0 + 0) = {} /\ Len(<<>>) = 0
  OBVIOUS
<1> QED
  BY <1>1, SumUnfolds, FS_EmptySet DEF Batches, SumFrom

LEMMA BatchesType ==
    ASSUME NEW q \in Seq(Task) PROVE Batches(q) \in Nat
<1> DEFINE D == (0 + 1)..(0 + Len(q))
           f == BatchMarks(q)
<1>1. IsFiniteSet(D)
  BY FS_Interval, 0 + 1 \in Int, 0 + Len(q) \in Int
<1>2. \A k \in D : f[k] \in Nat
  BY MarksAre
<1> HIDE DEF D, f
<1>3. SumOn(f, D) \in Nat
  BY <1>1, <1>2, SumNatural
<1> QED
  BY <1>3 DEF Batches, SumFrom, D, f

LEMMA BatchesAppend ==
    ASSUME NEW q \in Seq(Task), NEW t \in Task
    PROVE  Batches(Append(q, t)) = Batches(q) + (IF t = "batch" THEN 1 ELSE 0)
<1> DEFINE p == Append(q, t)
           f == BatchMarks(q)
           g == BatchMarks(p)
           n == Len(q)
<1>1. /\ p \in Seq(Task) /\ n \in Nat /\ Len(p) = n + 1
      /\ \A k \in 1..n : p[k] = q[k]
      /\ p[n + 1] = t
  OBVIOUS
<1> HIDE DEF p
<1>2. \A k \in 1..(n + 1) : g[k] = IF p[k] = "batch" THEN 1 ELSE 0
  BY <1>1, MarksAre
<1>3. \A k \in 1..n : f[k] = IF q[k] = "batch" THEN 1 ELSE 0
  BY MarksAre
<1> HIDE DEF f, g, n
<1>4. \A k \in 1..n : f[k] \in Int /\ g[k] = f[k]
  BY <1>1, <1>2, <1>3
<1>5. SumOn(g, 1..(n + 1)) = g[n + 1] + SumOn(g, 1..n)
  <2>1. \A i \in 1..(n + 1) : g[i] \in Int
    BY <1>2
  <2> QED
    BY <1>1, <2>1, SumLast, 1 \in Int, n \in Int
<1>6. SumOn(g, 1..n) = SumOn(f, 1..n)
  <2> DEFINE D == 1..n
  <2> SUFFICES SumOn(g, D) = SumOn(f, D)
    OBVIOUS
  <2>1. IsFiniteSet(D) /\ \A k \in D : f[k] \in Int /\ g[k] = f[k]
    BY <1>1, <1>4, FS_Interval, 1 \in Int, n \in Int
  <2> HIDE DEF D
  <2> QED
    BY <2>1, SumSame
<1>7. g[n + 1] = IF t = "batch" THEN 1 ELSE 0
  BY <1>1, <1>2
<1>8. /\ Batches(q) = SumOn(f, 1..n) /\ Batches(p) = SumOn(g, 1..(n + 1))
  <2>1. (0 + 1)..(0 + n) = 1..n /\ (0 + 1)..(0 + (n + 1)) = 1..(n + 1)
    BY <1>1
  <2> QED
    BY <1>1, <2>1 DEF Batches, SumFrom, f, g, n
<1>9. Batches(q) \in Nat
  BY BatchesType
<1> QED
  BY <1>5, <1>6, <1>7, <1>8, <1>9 DEF p

LEMMA BatchesTail ==
    ASSUME NEW q \in Seq(Task), q # <<>>
    PROVE  Batches(q) = Batches(Tail(q)) + (IF Head(q) = "batch" THEN 1 ELSE 0)
<1> DEFINE p == Tail(q)
           f == BatchMarks(p)
           g == BatchMarks(q)
           n == Len(p)
           D == 1..(n + 1)
           E == (1 + 1)..(1 + n)
<1>1. /\ p \in Seq(Task) /\ n \in Nat /\ Len(q) = n + 1
      /\ \A k \in 1..n : p[k] = q[1 + k]
      /\ q[1] = Head(q)
  OBVIOUS
<1> HIDE DEF p
<1>2. \A k \in 1..(n + 1) : g[k] = IF q[k] = "batch" THEN 1 ELSE 0
  BY <1>1, MarksAre
<1>3. \A k \in 1..n : f[k] = IF p[k] = "batch" THEN 1 ELSE 0
  BY <1>1, MarksAre
<1> HIDE DEF f, g, n
<1>4. \A k \in 1..n : f[k] \in Int /\ g[1 + k] = f[k]
  <2> SUFFICES ASSUME NEW k \in 1..n PROVE f[k] \in Int /\ g[1 + k] = f[k]
    OBVIOUS
  <2>1. 1 + k \in 1..(n + 1) /\ p[k] = q[1 + k]
    BY <1>1
  <2> QED
    BY <1>2, <1>3, <2>1
<1>5. SumFrom(g, 1, n) = SumFrom(f, 0, n)
  BY <1>1, <1>4, SumShifts, 1 \in Nat
<1>6. IsFiniteSet(D) /\ 1 \in D /\ D \ {1} = E
  <2>1. IsFiniteSet(D)
    BY <1>1, FS_Interval, 1 \in Int, n + 1 \in Int
  <2> QED
    BY <1>1, <2>1
<1>7. \A k \in D : g[k] \in Int
  BY <1>2
<1> HIDE DEF D, E
<1>8. SumOn(g, D) = g[1] + SumOn(g, E)
  BY <1>6, <1>7, SumTakes
<1>9. g[1] = IF Head(q) = "batch" THEN 1 ELSE 0
  BY <1>1, <1>2
<1>10. Batches(q) = SumOn(g, D) /\ SumOn(g, E) = SumFrom(f, 0, n)
  <2>1. (0 + 1)..(0 + (n + 1)) = D
    BY <1>1 DEF D
  <2> QED
    BY <1>1, <1>5, <2>1 DEF Batches, SumFrom, g, E
<1>11. Batches(p) = SumFrom(f, 0, n) /\ Batches(p) \in Nat
  BY <1>1, BatchesType DEF Batches, f, n
<1> QED
  BY <1>8, <1>9, <1>10, <1>11 DEF p

\* A step owes what it makes; a fault loses or doubles one at most.
Excess(s) == notifs + Way(s) - Due(s, likeTaps[s])

Balanced(s) ==
    \/ faults' = faults /\ Excess(s)' = Excess(s)
    \/ faults' = faults + 1 /\ Excess(s)' <= Excess(s) + 1 /\ Excess(s) <= Excess(s)' + 1

LEMMA WayType ==
    ASSUME IInv, NEW s \in Screens
    PROVE  /\ calls[s]["newNotif"] \in Nat /\ calls[s]["createNotif"] \in Nat
           /\ queue[s] \in Seq(Task) /\ Batches(queue[s]) \in Nat
           /\ BatchOut(sending[s]) \in Nat /\ Way(s) \in Nat
           /\ Due(s, likeTaps[s]) \in Nat /\ notifs \in Nat /\ faults \in Nat
           /\ Excess(s) \in Int
<1>1. calls[s]["newNotif"] \in Nat /\ calls[s]["createNotif"] \in Nat
  BY DEF IInv, RequestsOK, Kinds
<1>2. queue[s] \in Seq(Task)
  BY DEF IInv, SavesType, Task
<1>3. Batches(queue[s]) \in Nat
  BY <1>2, BatchesType
<1>4. BatchOut(sending[s]) \in Nat
  BY DEF BatchOut
<1>5. Way(s) \in Nat
  BY <1>1, <1>3, <1>4 DEF Way, OnTheWay
<1>6. Due(s, likeTaps[s]) \in Nat
  BY DEF Due, IInv, BoundsOK
<1>7. notifs \in Nat /\ faults \in Nat
  BY DEF IInv, ServerOK, BoundsOK
<1>8. Excess(s) \in Int
  BY <1>5, <1>6, <1>7 DEF Excess
<1> QED
  BY <1>1, <1>2, <1>3, <1>4, <1>5, <1>6, <1>7, <1>8

LEMMA WayInts ==
    ASSUME IInv, NEW s \in Screens
    PROVE  /\ calls[s]["newNotif"] \in Int /\ calls[s]["createNotif"] \in Int
           /\ Batches(queue[s]) \in Int /\ BatchOut(sending[s]) \in Int /\ Way(s) \in Int
<1>1. /\ calls[s]["newNotif"] \in Nat /\ calls[s]["createNotif"] \in Nat
      /\ Batches(queue[s]) \in Nat /\ BatchOut(sending[s]) \in Nat /\ Way(s) \in Nat
  BY WayType
<1> QED
  BY <1>1

LEMMA WaySums ==
    ASSUME IInv, NEW s \in Screens
    PROVE  /\ Way(s) = calls[s]["newNotif"] + calls[s]["createNotif"]
                       + Batches(queue[s]) + BatchOut(sending[s])
           /\ Way(s)' = calls'[s]["newNotif"] + calls'[s]["createNotif"]
                        + Batches(queue'[s]) + BatchOut(sending'[s])
BY DEF Way, OnTheWay

\* Steps that leave alone what is on the way, what is due and what is made.
LEMMA SameWay ==
    ASSUME IInv, NEW s \in Screens,
           calls'[s]["newNotif"] = calls[s]["newNotif"],
           calls'[s]["createNotif"] = calls[s]["createNotif"],
           Batches(queue'[s]) = Batches(queue[s]),
           BatchOut(sending'[s]) = BatchOut(sending[s]),
           notifs' = notifs, Due(s, likeTaps'[s]) = Due(s, likeTaps[s]),
           faults' = faults \/ faults' = faults + 1
    PROVE  Balanced(s)
<1>1. Way(s)' = Way(s)
  BY DEF Way, OnTheWay
<1>2. Excess(s)' = Excess(s)
  BY <1>1 DEF Excess
<1> QED
  BY <1>2, WayType DEF Balanced

LEMMA OtherCall ==
    ASSUME IInv, NEW s \in Screens, NEW kinds, {"newNotif", "createNotif"} \cap kinds = {},
           calls' = Call(s, kinds)
    PROVE  /\ calls'[s]["newNotif"] = calls[s]["newNotif"]
           /\ calls'[s]["createNotif"] = calls[s]["createNotif"]
<1>1. RequestsOK /\ {"newNotif", "createNotif"} \subseteq Kinds
  BY DEF IInv, Kinds
<1>2. \A k \in Kinds : calls'[s][k] = calls[s][k] + IF k \in kinds THEN 1 ELSE 0
  BY <1>1, CallValue
<1> QED
  BY <1>1, <1>2, WayType

LEMMA OtherAnswer ==
    ASSUME IInv, NEW s \in Screens, NEW kind \in Kinds \ {"newNotif", "createNotif"},
           calls' = Answered(s, kind)
    PROVE  /\ calls'[s]["newNotif"] = calls[s]["newNotif"]
           /\ calls'[s]["createNotif"] = calls[s]["createNotif"]
<1>1. RequestsOK /\ {"newNotif", "createNotif"} \subseteq Kinds
  BY DEF IInv, Kinds
<1> QED
  BY <1>1, AnsweredValue

LEMMA OpenOwes ==
    ASSUME IInv, NEW s \in Screens, Open(s) PROVE Balanced(s)
<1>1. /\ calls' = Call(s, {"findEngage", "findLike"}) /\ visit[s] = "unopened"
      /\ queue' = [queue EXCEPT ![s] = <<"save">>] /\ sending' = sending
      /\ notifs' = notifs /\ likeTaps' = likeTaps /\ faults' = faults
  BY DEF Open, SaveView, serverVars, boundVars, tapVars
<1>2. /\ calls'[s]["newNotif"] = calls[s]["newNotif"]
      /\ calls'[s]["createNotif"] = calls[s]["createNotif"]
  BY <1>1, OtherCall
<1>3. queue[s] = <<>>
  BY <1>1 DEF IInv, FreshOK, NoSaves
<1>4. queue'[s] = Append(<<>>, "save")
  BY <1>1 DEF IInv, SavesType
<1>5. Batches(queue'[s]) = Batches(queue[s])
  <2>1. <<>> \in Seq(Task) /\ "save" \in Task /\ "save" # "batch"
    BY DEF Task
  <2>2. Batches(Append(<<>>, "save")) = Batches(<<>>) + 0
    BY <2>1, BatchesAppend
  <2> QED
    BY <1>3, <1>4, <2>2, BatchesNone
<1> QED
  BY <1>1, <1>2, <1>5, SameWay

LEMMA QuietTapOwes ==
    ASSUME IInv, NEW s \in Screens, Close(s) \/ Refresh(s) PROVE Balanced(s)
<1>1. /\ queue' = queue /\ sending' = sending
      /\ notifs' = notifs /\ likeTaps' = likeTaps /\ faults' = faults
  BY DEF Close, Refresh, serverVars, boundVars, tapVars, saveVars
<1>2. calls' = calls \/ calls' = Call(s, {"findLike"})
  BY DEF Close, Refresh, requestVars
<1>3. /\ calls'[s]["newNotif"] = calls[s]["newNotif"]
      /\ calls'[s]["createNotif"] = calls[s]["createNotif"]
  BY <1>2, OtherCall
<1> QED
  BY <1>1, <1>3, SameWay

LEMMA SavedTap ==
    ASSUME IInv, NEW s \in Screens, NEW n, SaveCount(s, n)
    PROVE  Batches(queue'[s]) = Batches(queue[s])
<1>1. queue[s] \in Seq(Task) /\ queue'[s] = Append(queue[s], "save") /\ "save" \in Task
  BY DEF SaveCount, IInv, SavesType, Task
<1>2. Batches(Append(queue[s], "save")) = Batches(queue[s]) + 0
  BY <1>1, BatchesAppend
<1> QED
  BY <1>1, <1>2, BatchesType

LEMMA UnlikeOwes ==
    ASSUME IInv, NEW s \in Screens, Unlike(s) PROVE Balanced(s)
<1>1. /\ calls' = Call(s, {"findAny"}) /\ SaveCount(s, CountWithoutLike(s))
      /\ sending' = sending /\ notifs' = notifs /\ likeTaps' = likeTaps /\ faults' = faults
  BY DEF Unlike, SetLiked, serverVars
<1>2. /\ calls'[s]["newNotif"] = calls[s]["newNotif"]
      /\ calls'[s]["createNotif"] = calls[s]["createNotif"]
  BY <1>1, OtherCall
<1>3. Batches(queue'[s]) = Batches(queue[s])
  BY <1>1, SavedTap
<1> QED
  BY <1>1, <1>2, <1>3, SameWay

LEMMA LikeOwes ==
    ASSUME IInv, NEW s \in Screens, Like(s) PROVE Balanced(s)
<1> DEFINE one == IF UserOf[s] # Author THEN 1 ELSE 0
           kinds == {"createLike"} \cup IF UserOf[s] # Author THEN {"newNotif"} ELSE {}
<1>1. /\ calls' = Call(s, kinds) /\ SaveCount(s, count[s] + 1)
      /\ sending' = sending /\ notifs' = notifs /\ faults' = faults
      /\ likeTaps' = [likeTaps EXCEPT ![s] = @ + 1]
  BY DEF Like, SetLiked, serverVars
<1>2. RequestsOK /\ {"newNotif", "createNotif"} \subseteq Kinds
  BY DEF IInv, Kinds
<1>3. \A k \in Kinds : calls'[s][k] = calls[s][k] + IF k \in kinds THEN 1 ELSE 0
  BY <1>1, <1>2, CallValue
<1>4. calls'[s]["newNotif"] = calls[s]["newNotif"] + one
  <2>1. ("newNotif" \in kinds) = (UserOf[s] # Author)
    OBVIOUS
  <2> QED
    BY <1>2, <1>3, <2>1
<1>5. calls'[s]["createNotif"] = calls[s]["createNotif"]
  <2>1. "createNotif" \notin kinds
    OBVIOUS
  <2> QED
    BY <1>2, <1>3, <2>1, WayType
<1>6. Batches(queue'[s]) = Batches(queue[s])
  BY <1>1, SavedTap
<1>7. likeTaps'[s] = likeTaps[s] + 1 /\ likeTaps[s] \in Nat
  BY <1>1 DEF IInv, BoundsOK
<1>8. Due(s, likeTaps'[s]) = Due(s, likeTaps[s]) + one
  BY <1>7 DEF Due
<1>9. one \in Nat
  OBVIOUS
<1> HIDE DEF one
<1>10. Way(s)' = Way(s) + (one + 0 + 0 + 0)
  <2>1. calls'[s]["createNotif"] = calls[s]["createNotif"] + 0
    BY <1>5, WayType
  <2>2. Batches(queue'[s]) = Batches(queue[s]) + 0
    BY <1>6, WayType
  <2>3. BatchOut(sending'[s]) = BatchOut(sending[s]) + 0
    BY <1>1, WayType
  <2> QED
    BY <1>4, <1>9, <2>1, <2>2, <2>3, WayInts, WaySums
<1> QED
  BY <1>1, <1>8, <1>9, <1>10, WayType DEF Balanced, Excess

\* A notification moves on: collected, sent with its batch, or created next.
LEMMA CollectOwes ==
    ASSUME IInv, NEW s \in Screens, CollectNotif(s) PROVE Balanced(s)
<1>0. RequestsOK /\ "newNotif" \in Kinds /\ "createNotif" \in Kinds \ {"newNotif"}
  BY DEF IInv, Kinds
<1>1. /\ Pending(s, "newNotif") /\ sending' = sending /\ notifs' = notifs
      /\ likeTaps' = likeTaps /\ faults' = faults
  BY DEF CollectNotif, serverVars, boundVars, tapVars
<1>2. BatchOut(sending'[s]) = BatchOut(sending[s]) + 0
  BY <1>1, WayType
<1>3. Way(s)' = Way(s)
  <2>1. CASE NeedsBatch(s)
    <3>1. calls' = Answered(s, "newNotif") /\ queue' = [queue EXCEPT ![s] = Append(@, "batch")]
      BY <2>1 DEF CollectNotif, EnqueueBatch
    <3>2. calls'[s]["newNotif"] = calls[s]["newNotif"] - 1
      BY <1>0, <3>1, AnsweredValue
    <3>3. calls'[s]["createNotif"] = calls[s]["createNotif"]
      BY <1>0, <3>1, AnsweredValue
    <3>4. queue'[s] = Append(queue[s], "batch") /\ queue[s] \in Seq(Task) /\ "batch" \in Task
      BY <3>1 DEF IInv, SavesType, Task
    <3>5. Batches(queue'[s]) = Batches(queue[s]) + 1
      BY <3>4, BatchesAppend
    <3>6. Way(s)' = Way(s) + (-1 + 0 + 1 + 0)
      BY <1>2, <3>2, <3>3, <3>5, WayInts, WaySums
    <3> QED
      BY <3>6, WayType
  <2>2. CASE ~NeedsBatch(s)
    <3>1. calls' = Replaced(s, "newNotif", "createNotif") /\ queue' = queue
      BY <2>2 DEF CollectNotif, Replaced
    <3>2. /\ calls'[s]["newNotif"] = calls[s]["newNotif"] - 1
          /\ calls'[s]["createNotif"] = calls[s]["createNotif"] + 1
      BY <1>0, <1>1, <3>1, ReplacedValue
    <3>3. Batches(queue'[s]) = Batches(queue[s]) + 0
      BY <3>1, WayType
    <3>4. Way(s)' = Way(s) + (-1 + 1 + 0 + 0)
      BY <1>2, <3>2, <3>3, WayInts, WaySums
    <3> QED
      BY <3>4, WayType
  <2> QED
    BY <2>1, <2>2
<1> QED
  BY <1>1, <1>3, WayType DEF Balanced, Excess

LEMMA TurnOwes ==
    ASSUME IInv, NEW s \in Screens, PostSaveTurn(s) PROVE Balanced(s)
<1> DEFINE t == IF Head(queue[s]) = "batch" THEN 1 ELSE 0
<1>1. /\ queue[s] # <<>> /\ queue' = [queue EXCEPT ![s] = Tail(@)] /\ sending[s] = Idle
      /\ \/ Head(queue[s]) = "save" /\ sending' = sending
         \/ \E keys, n : sending' = [sending EXCEPT ![s] =
                             [kind |-> Head(queue[s]), keys |-> keys, count |-> n]]
  BY DEF PostSaveTurn, SaveTurn, QueueAfterTurn
<1>2. calls' = calls /\ notifs' = notifs /\ likeTaps' = likeTaps /\ faults' = faults
  BY DEF PostSaveTurn, requestVars, boundVars, tapVars
<1>3. /\ queue[s] \in Seq(Task) /\ queue'[s] = Tail(queue[s])
      /\ s \in DOMAIN sending /\ Tail(queue[s]) \in Seq(Task)
  BY <1>1 DEF IInv, SavesType, Task
<1>4. Batches(queue[s]) = Batches(queue'[s]) + t
  BY <1>1, <1>3, BatchesTail
<1>5. BatchOut(sending'[s]) = BatchOut(sending[s]) + t
  <2>1. BatchOut(sending[s]) = 0
    BY <1>1 DEF BatchOut, Idle
  <2>2. BatchOut(sending'[s]) = t
    BY <1>1, <1>3 DEF BatchOut, Idle
  <2> QED
    BY <2>1, <2>2
<1>6. t \in Int
  OBVIOUS
<1> HIDE DEF t
<1>7. Batches(queue'[s]) = Batches(queue[s]) + (-t)
  <2>1. Batches(queue'[s]) \in Int
    <3>1. Batches(Tail(queue[s])) \in Nat
      BY <1>3, BatchesType
    <3> QED
      BY <1>3, <3>1
  <2> QED
    BY <1>4, <1>6, <2>1
<1>8. Way(s)' = Way(s) + (0 + 0 + (-t) + t)
  BY <1>2, <1>5, <1>6, <1>7, WayInts, WaySums
<1>9. Way(s)' = Way(s)
  BY <1>6, <1>8, WayType
<1> QED
  BY <1>2, <1>9, WayType DEF Balanced, Excess

LEMMA SavedOwes ==
    ASSUME IInv, NEW s \in Screens, PostSaveDone(s) PROVE Balanced(s)
<1> DEFINE t == BatchOut(sending[s])
<1>1. /\ sending' = [sending EXCEPT ![s] = Idle] /\ queue' = queue /\ notifs' = notifs
      /\ likeTaps' = likeTaps /\ faults' = faults /\ calls' = CallsAfterSave(s)
  BY DEF PostSaveDone, SaveDone, boundVars, tapVars
<1>2. BatchOut(sending'[s]) = 0
  BY <1>1 DEF IInv, SavesType, BatchOut, Idle
<1>3. RequestsOK /\ {"newNotif", "createNotif"} \subseteq Kinds
  BY DEF IInv, Kinds
<1>4. /\ calls'[s]["newNotif"] = calls[s]["newNotif"]
      /\ calls'[s]["createNotif"] = calls[s]["createNotif"] + t
  <2>1. CASE sending[s].kind = "batch"
    <3>1. calls' = Call(s, {"createNotif"}) /\ t = 1
      BY <1>1, <2>1 DEF CallsAfterSave, BatchOut
    <3>2. \A k \in Kinds : calls'[s][k] = calls[s][k] + IF k \in {"createNotif"} THEN 1 ELSE 0
      BY <1>3, <3>1, CallValue
    <3> QED
      BY <1>3, <3>1, <3>2, WayType
  <2>2. CASE sending[s].kind # "batch"
    BY <1>1, <2>2, WayType DEF CallsAfterSave, BatchOut
  <2> QED
    BY <2>1, <2>2
<1>5. t \in Int
  BY WayType
<1>6. BatchOut(sending'[s]) = BatchOut(sending[s]) + (-t)
  BY <1>2, <1>5
<1> HIDE DEF t
<1>7. Batches(queue'[s]) = Batches(queue[s]) + 0
  BY <1>1, WayType
<1>8. Way(s)' = Way(s) + (0 + t + 0 + (-t))
  BY <1>4, <1>5, <1>6, <1>7, WayInts, WaySums
<1>9. Way(s)' = Way(s)
  BY <1>5, <1>8, WayType
<1> QED
  BY <1>1, <1>9, WayType DEF Balanced, Excess

\* A batch that fails takes its notification with it.
LEMMA SaveFailsOwes ==
    ASSUME IInv, NEW s \in Screens, PostSaveFails(s) PROVE Balanced(s)
<1> DEFINE t == BatchOut(sending[s])
<1>1. /\ sending' = [sending EXCEPT ![s] = Idle] /\ queue' = queue /\ notifs' = notifs
      /\ likeTaps' = likeTaps /\ faults' = faults + 1 /\ calls' = calls
  BY DEF PostSaveFails, SaveFails, requestVars, tapVars
<1>2. BatchOut(sending'[s]) = 0
  BY <1>1 DEF IInv, SavesType, BatchOut, Idle
<1>3. t \in 0..1
  BY DEF BatchOut
<1>4. BatchOut(sending'[s]) = BatchOut(sending[s]) + (-t)
  BY <1>2, <1>3
<1> HIDE DEF t
<1>5. Way(s)' = Way(s) + (0 + 0 + 0 + (-t))
  BY <1>1, <1>3, <1>4, WayInts, WaySums
<1>6. Way(s) \in Nat /\ Due(s, likeTaps[s]) \in Nat /\ notifs \in Nat
  BY WayType
<1>7. Excess(s)' = Excess(s) + (-t) /\ Excess(s) \in Int
  <2>1. Excess(s)' = notifs + Way(s)' - Due(s, likeTaps[s])
    BY <1>1 DEF Excess
  <2>2. Excess(s) = notifs + Way(s) - Due(s, likeTaps[s])
    BY DEF Excess
  <2> QED
    BY <1>3, <1>5, <1>6, <2>1, <2>2
<1>8. Excess(s)' <= Excess(s) + 1 /\ Excess(s) <= Excess(s)' + 1
  BY <1>3, <1>7
<1> QED
  BY <1>1, <1>8 DEF Balanced

LEMMA RetriedOwes ==
    ASSUME IInv, NEW s \in Screens, PostSaveRetried(s) PROVE Balanced(s)
<1>1. /\ UNCHANGED <<sending, queue, notifs, likeTaps, calls>> /\ faults' = faults + 1
  BY DEF PostSaveRetried, SaveRetried, requestVars, tapVars
<1> QED
  BY <1>1, SameWay

\* Requests that carry no notification.
LEMMA FindOwes ==
    ASSUME IInv, NEW s \in Screens,
           \/ FindLike(s) \/ FindLikeFails(s) \/ FindEngage(s) \/ FindEngageFails(s)
           \/ FindAny(s) \/ FindAnyFails(s) \/ \E b \in BOOLEAN : ShowLiked(s, b)
    PROVE  Balanced(s)
<1>1. /\ queue' = queue /\ sending' = sending /\ notifs' = notifs /\ likeTaps' = likeTaps
      /\ faults' = faults \/ faults' = faults + 1
  BY DEF FindLike, FindLikeFails, FindEngage, FindEngageFails, FindAny, FindAnyFails,
         ShowLiked, serverVars, saveVars, boundVars, tapVars
<1>2. /\ calls'[s]["newNotif"] = calls[s]["newNotif"]
      /\ calls'[s]["createNotif"] = calls[s]["createNotif"]
  <2>1. CASE \/ FindLike(s) \/ FindLikeFails(s) \/ FindAny(s) \/ FindAnyFails(s)
    <3>1. \E kind \in Kinds \ {"newNotif", "createNotif"} : calls' = Answered(s, kind)
      BY <2>1 DEF FindLike, FindLikeFails, FindAny, FindAnyFails, Kinds
    <3> QED
      BY <3>1, OtherAnswer
  <2>2. CASE FindEngage(s) \/ FindEngageFails(s)
    <3>1. /\ Pending(s, "findEngage")
          /\ \/ calls' = Answered(s, "findEngage")
             \/ calls' = Replaced(s, "findEngage", "createEngage")
      BY <2>2 DEF FindEngage, FindEngageFails, Replaced
    <3>2. /\ RequestsOK /\ "findEngage" \in Kinds \ {"newNotif", "createNotif"}
          /\ "createEngage" \in Kinds \ {"findEngage"}
          /\ {"newNotif", "createNotif"} \subseteq Kinds \ {"findEngage", "createEngage"}
      BY DEF IInv, Kinds
    <3>3. CASE calls' = Answered(s, "findEngage")
      BY <3>2, <3>3, OtherAnswer
    <3>4. CASE calls' = Replaced(s, "findEngage", "createEngage")
      BY <3>1, <3>2, <3>4, ReplacedValue
    <3> QED
      BY <3>1, <3>3, <3>4
  <2>3. CASE \E b \in BOOLEAN : ShowLiked(s, b)
    BY <2>3 DEF ShowLiked
  <2> QED
    BY <2>1, <2>2, <2>3
<1> QED
  BY <1>1, <1>2, SameWay

LEMMA CreateRowOwes ==
    ASSUME IInv, NEW s \in Screens, NEW kind \in {"createLike", "createEngage"},
           Create(s, kind) \/ CreateTwice(s, kind) \/ CreateFails(s, kind)
    PROVE  Balanced(s)
<1>1. /\ queue' = queue /\ sending' = sending /\ likeTaps' = likeTaps
      /\ faults' = faults \/ faults' = faults + 1
  BY DEF Create, CreateTwice, CreateFails, serverVars, saveVars, boundVars, tapVars
<1>2. notifs' = notifs
  <2>1. kind # "createNotif"
    OBVIOUS
  <2> QED
    BY <2>1 DEF Create, CreateTwice, CreateFails, Insert, serverVars
<1>3. calls' = calls \/ calls' = Answered(s, kind)
  BY DEF Create, CreateTwice, CreateFails, requestVars
<1>4. kind \in Kinds \ {"newNotif", "createNotif"}
  BY DEF Kinds
<1>5. /\ calls'[s]["newNotif"] = calls[s]["newNotif"]
      /\ calls'[s]["createNotif"] = calls[s]["createNotif"]
  BY <1>3, <1>4, OtherAnswer
<1> QED
  BY <1>1, <1>2, <1>5, SameWay

LEMMA CreateNotifOwes ==
    ASSUME IInv, NEW s \in Screens,
           \/ Create(s, "createNotif") \/ CreateTwice(s, "createNotif")
           \/ CreateFails(s, "createNotif")
    PROVE  Balanced(s)
<1>0. RequestsOK /\ "createNotif" \in Kinds /\ "newNotif" \in Kinds \ {"createNotif"}
  BY DEF IInv, Kinds
<1>1. queue' = queue /\ sending' = sending /\ likeTaps' = likeTaps
  BY DEF Create, CreateTwice, CreateFails, serverVars, saveVars, boundVars, tapVars
<1>2. /\ Batches(queue'[s]) = Batches(queue[s])
      /\ BatchOut(sending'[s]) = BatchOut(sending[s])
      /\ Due(s, likeTaps'[s]) = Due(s, likeTaps[s])
  BY <1>1
<1>3. ASSUME calls' = Answered(s, "createNotif") PROVE Way(s)' = Way(s) - 1
  <2>1. /\ calls'[s]["newNotif"] = calls[s]["newNotif"]
        /\ calls'[s]["createNotif"] = calls[s]["createNotif"] - 1
    BY <1>0, <1>3, AnsweredValue
  <2> QED
    BY <1>2, <2>1, WayInts, WaySums
<1>4. Excess(s) = notifs + Way(s) - Due(s, likeTaps[s])
  BY DEF Excess
<1>5. Excess(s)' = notifs' + Way(s)' - Due(s, likeTaps[s])
  BY <1>2 DEF Excess
<1>6. Way(s) \in Nat /\ Due(s, likeTaps[s]) \in Nat /\ notifs \in Nat
  BY WayType
<1>7. CASE Create(s, "createNotif")
  <2>1. notifs' = notifs + 1 /\ faults' = faults /\ calls' = Answered(s, "createNotif")
    BY <1>7 DEF Create, Insert, boundVars, tapVars
  <2>2. Way(s)' = Way(s) - 1
    BY <1>3, <2>1
  <2>3. Excess(s)' = Excess(s)
    BY <1>4, <1>5, <1>6, <2>1, <2>2
  <2> QED
    BY <2>1, <2>3 DEF Balanced
<1>8. CASE CreateTwice(s, "createNotif")
  <2>1. notifs' = notifs + 1 /\ faults' = faults + 1 /\ calls' = calls
    BY <1>8 DEF CreateTwice, Insert, requestVars
  <2>2. Way(s)' = Way(s)
    BY <1>1, <2>1 DEF Way
  <2>3. Excess(s)' = Excess(s) + 1 /\ Excess(s) \in Int
    BY <1>4, <1>5, <1>6, <2>1, <2>2
  <2> QED
    BY <2>1, <2>3 DEF Balanced
<1>9. CASE CreateFails(s, "createNotif")
  <2>1. notifs' = notifs /\ faults' = faults + 1 /\ calls' = Answered(s, "createNotif")
    BY <1>9 DEF CreateFails, serverVars
  <2>2. Way(s)' = Way(s) - 1
    BY <1>3, <2>1
  <2>3. Excess(s)' = Excess(s) - 1 /\ Excess(s) \in Int
    BY <1>4, <1>5, <1>6, <2>1, <2>2
  <2> QED
    BY <2>1, <2>3 DEF Balanced
<1> QED
  BY <1>7, <1>8, <1>9

LEMMA OwnStepOwes ==
    ASSUME IInv, NEW s \in Screens, Step(s) PROVE Balanced(s)
<1>1. CASE UserStep(s)
  BY <1>1, OpenOwes, QuietTapOwes, LikeOwes, UnlikeOwes DEF UserStep
<1>2. CASE ServiceStep(s)
  <2>1. CASE \E kind \in CreateKinds : Create(s, kind)
    <3>1. \/ Create(s, "createNotif")
          \/ \E kind \in {"createLike", "createEngage"} : Create(s, kind)
      BY <2>1 DEF CreateKinds
    <3> QED
      BY <3>1, CreateNotifOwes, CreateRowOwes
  <2>2. CASE CollectNotif(s) \/ PostSaveTurn(s) \/ PostSaveDone(s)
    BY <2>2, CollectOwes, TurnOwes, SavedOwes
  <2>3. CASE \/ FindLike(s) \/ FindEngage(s) \/ FindAny(s)
             \/ \E b \in BOOLEAN : ShowLiked(s, b)
    BY <2>3, FindOwes
  <2> QED
    BY <1>2, <2>1, <2>2, <2>3 DEF ServiceStep
<1>3. CASE FaultStep(s)
  <2>1. CASE \E kind \in CreateKinds : CreateTwice(s, kind) \/ CreateFails(s, kind)
    <3>1. \/ CreateTwice(s, "createNotif") \/ CreateFails(s, "createNotif")
          \/ \E kind \in {"createLike", "createEngage"} :
                 CreateTwice(s, kind) \/ CreateFails(s, kind)
      BY <2>1 DEF CreateKinds
    <3> QED
      BY <3>1, CreateNotifOwes, CreateRowOwes
  <2>2. CASE PostSaveRetried(s) \/ PostSaveFails(s)
    BY <2>2, RetriedOwes, SaveFailsOwes
  <2>3. CASE FindLikeFails(s) \/ FindEngageFails(s) \/ FindAnyFails(s)
    BY <2>3, FindOwes
  <2> QED
    BY <1>3, <2>1, <2>2, <2>3 DEF FaultStep
<1> QED
  BY <1>1, <1>2, <1>3 DEF Step

-----------------------------------------------------------------------------
(***************************************************************************)
(* The sum over the screens, of which a step changes one term.             *)
(***************************************************************************)
LEMMA OwedType ==
    ASSUME IInv
    PROVE  /\ \A s \in Screens : Owed[s] \in Int /\ Owed[s] = Due(s, likeTaps[s]) - Way(s)
           /\ SumOn(Owed, Screens) \in Int
<1>1. ASSUME NEW s \in Screens
      PROVE  Owed[s] \in Int /\ Owed[s] = Due(s, likeTaps[s]) - Way(s)
  <2>1. Owed[s] = Due(s, likeTaps[s]) - Way(s)
    BY DEF Owed
  <2> QED
    BY <2>1, WayType
<1> DEFINE f == Owed
<1>2. \A s \in Screens : f[s] \in Int
  BY <1>1
<1> HIDE DEF f
<1>3. SumOn(f, Screens) \in Int
  BY <1>2, ScreensFinite, SumType
<1> QED
  BY <1>1, <1>3 DEF f

LEMMA OtherOwes ==
    ASSUME IInv, NEW s \in Screens, Step(s), NEW t \in Screens, t # s
    PROVE  Owed'[t] = Owed[t]
<1>1. calls'[t] = calls[t]
  BY OtherCalls
<1>2. queue'[t] = queue[t]
  <2>1. queue \in [Screens -> Seq(Task)]
    BY DEF IInv, SavesType, Task
  <2> QED
    BY <2>1, Changes
<1>3. sending'[t] = sending[t]
  <2>1. DOMAIN sending = Screens
    BY DEF IInv, SavesType
  <2> QED
    BY <2>1, Changes
<1>4. likeTaps'[t] = likeTaps[t]
  <2>1. DOMAIN likeTaps = Screens
    BY DEF IInv, BoundsOK
  <2>2. likeTaps' = likeTaps \/ likeTaps' = [likeTaps EXCEPT ![s] = likeTaps[s] + 1]
    BY Changes
  <2> QED
    BY <2>1, <2>2
<1> QED
  BY <1>1, <1>2, <1>3, <1>4 DEF Owed, Way

LEMMA WayStays ==
    ASSUME IInv', NEW s \in Screens
    PROVE  Way(s)' \in Int /\ Due(s, likeTaps'[s]) \in Int
<1>1. calls'[s]["newNotif"] \in Int /\ calls'[s]["createNotif"] \in Int
  BY DEF IInv, RequestsOK, Kinds
<1>2. Batches(queue'[s]) \in Int
  <2>1. queue'[s] \in Seq(Task)
    BY DEF IInv, SavesType, Task
  <2> QED
    BY <2>1, BatchesType
<1>3. BatchOut(sending'[s]) \in Int
  BY DEF BatchOut
<1>4. Way(s)' = calls'[s]["newNotif"] + calls'[s]["createNotif"]
                + Batches(queue'[s]) + BatchOut(sending'[s])
  BY DEF Way, OnTheWay
<1>5. Way(s)' \in Int
  BY <1>1, <1>2, <1>3, <1>4
<1>6. Due(s, likeTaps'[s]) \in Int
  BY DEF Due, IInv, BoundsOK
<1> QED
  BY <1>5, <1>6

LEMMA NotifsStep ==
    ASSUME IInv, IInv', NotifsOK, NEW s \in Screens, Step(s) PROVE NotifsOK'
<1>1. PICK f : f = Owed
  OBVIOUS
<1>2. PICK g : g = Owed'
  OBVIOUS
<1>3. \A t \in Screens : f[t] \in Int
  BY <1>1, OwedType
<1>4. \A t \in Screens : t # s => g[t] = f[t]
  BY <1>1, <1>2, OtherOwes
<1>5. f[s] = Due(s, likeTaps[s]) - Way(s)
  BY <1>1 DEF Owed
<1>6. g[s] = Due(s, likeTaps'[s]) - Way(s)'
  BY <1>2 DEF Owed
<1>7. g[s] \in Int
  BY <1>6, WayStays
<1>8. SumOn(g, Screens) = SumOn(f, Screens) + (g[s] - f[s]) /\ SumOn(f, Screens) \in Int
  <2>1. \A t \in Screens : f[t] \in Int /\ g[t] \in Int /\ (t # s => g[t] = f[t])
    BY <1>3, <1>4, <1>7
  <2> QED
    BY <2>1, ScreensFinite, SumChanges, SumType
<1>9. Excess(s) = notifs - f[s]
  <2>1. Excess(s) = notifs + Way(s) - Due(s, likeTaps[s])
    BY DEF Excess
  <2>2. Way(s) \in Nat /\ Due(s, likeTaps[s]) \in Nat /\ notifs \in Nat
    BY WayType
  <2> QED
    BY <1>5, <2>1, <2>2
<1>10. notifs' \in Nat /\ notifs \in Nat /\ faults \in Nat /\ faults' \in Nat
  BY DEF IInv, ServerOK, BoundsOK
<1>11. Excess(s)' = notifs' - g[s]
  <2>1. Excess(s)' = notifs' + Way(s)' - Due(s, likeTaps'[s])
    BY DEF Excess
  <2> QED
    BY <1>6, <1>10, <2>1, WayStays
<1>12. Balanced(s)
  BY OwnStepOwes
<1>13. /\ notifs <= SumOn(f, Screens) + faults /\ SumOn(f, Screens) <= notifs + faults
  BY <1>1 DEF NotifsOK
<1>14. \/ faults' = faults /\ notifs' - g[s] = notifs - f[s]
       \/ /\ faults' = faults + 1
          /\ notifs' - g[s] <= notifs - f[s] + 1 /\ notifs - f[s] <= notifs' - g[s] + 1
  BY <1>9, <1>11, <1>12 DEF Balanced
<1>15. /\ notifs' <= SumOn(g, Screens) + faults' /\ SumOn(g, Screens) <= notifs' + faults'
  <2>1. f[s] \in Int
    BY <1>3
  <2> QED
    BY <1>7, <1>8, <1>10, <1>13, <1>14, <2>1
<1> QED
  BY <1>2, <1>15 DEF NotifsOK

LEMMA NotifsNext == IInv /\ IInv' /\ NotifsOK /\ [Next]_vars => NotifsOK'
<1> SUFFICES ASSUME IInv, IInv', NotifsOK, [Next]_vars PROVE NotifsOK'
  OBVIOUS
<1>1. CASE \E s \in Screens : Step(s)
  BY <1>1, NotifsStep
<1>2. CASE DeleteStep \/ LateStep \/ UNCHANGED vars
  <2>1. /\ notifs' = notifs /\ calls' = calls /\ queue' = queue /\ sending' = sending
        /\ likeTaps' = likeTaps /\ (faults' = faults \/ faults' = faults + 1)
    BY <1>2
    DEF DeleteStep, Delete, DeleteFails, LateStep, PostSavedLate, ExecuteLate, vars,
        serverVars, saveVars, requestVars, boundVars, tapVars
  <2>2. Owed' = Owed
    BY <2>1 DEF Owed, Way
  <2>3. SumOn(Owed, Screens) \in Int /\ notifs \in Nat /\ faults \in Nat
    BY OwedType DEF IInv, ServerOK, BoundsOK
  <2>4. PICK n : n = SumOn(Owed, Screens)
    OBVIOUS
  <2>5. n \in Int /\ notifs <= n + faults /\ n <= notifs + faults
    BY <2>3, <2>4 DEF NotifsOK
  <2>6. notifs <= n + faults' /\ n <= notifs + faults'
    BY <2>1, <2>3, <2>5
  <2>7. n = SumOn(Owed', Screens)
    BY <2>2, <2>4
  <2> QED
    BY <2>1, <2>6, <2>7 DEF NotifsOK
<1> QED
  BY <1>1, <1>2, NextSteps

LEMMA NotifsInit == Init => NotifsOK
<1> SUFFICES ASSUME Init PROVE NotifsOK
  OBVIOUS
<1>1. ASSUME NEW s \in Screens PROVE Owed[s] = 0
  <2>1. /\ calls[s]["newNotif"] = 0 /\ calls[s]["createNotif"] = 0
        /\ queue[s] = <<>> /\ sending[s] = Idle /\ likeTaps[s] = 0
    BY DEF Init, SavesInit, Kinds
  <2>2. BatchOut(sending[s]) = 0
    BY <2>1 DEF BatchOut, Idle
  <2>3. Way(s) = 0
    BY <2>1, <2>2, BatchesNone DEF Way, OnTheWay
  <2>4. Due(s, likeTaps[s]) = 0
    BY <2>1 DEF Due
  <2> QED
    BY <2>3, <2>4 DEF Owed
<1>2. PICK f : f = Owed
  OBVIOUS
<1>3. SumOn(f, Screens) = 0
  BY <1>1, <1>2, ScreensFinite, SumZero
<1>4. notifs = 0 /\ faults = 0
  BY DEF Init
<1> QED
  BY <1>2, <1>3, <1>4 DEF NotifsOK

LEMMA NotifsHold == Spec => []NotifsOK
BY IInvHolds, NotifsInit, NotifsNext, PTL DEF Spec

\* What is due in all is what the screens owe and what is on the way.
LEMMA NotifsSettle ==
    ASSUME IInv, NotifsOK PROVE LikesNotified
<1> DEFINE Notifying == {s \in Screens : UserOf[s] # Author}
<1>1. PICK f : f = Owed
  OBVIOUS
<1>2. PICK w : w = [s \in Screens |-> Way(s)]
  OBVIOUS
<1>3. PICK d : d = [s \in Screens |-> Due(s, likeTaps[s])]
  OBVIOUS
<1>4. \A s \in Screens : w[s] \in Nat /\ d[s] \in Nat /\ f[s] = d[s] - w[s]
  BY <1>1, <1>2, <1>3, WayType DEF Owed
<1>5. \A s \in Screens : d[s] = IF UserOf[s] # Author THEN likeTaps[s] ELSE 0
  BY <1>3 DEF Due
<1>6. \A s \in Screens : likeTaps[s] \in Int
  BY DEF IInv, BoundsOK
<1>7. PICK rest : rest = Screens \ Notifying
  OBVIOUS
<1>8. /\ Notifying \subseteq Screens /\ rest = Screens \ Notifying
      /\ \A s \in Notifying : s \in Screens /\ UserOf[s] # Author
      /\ \A s \in rest : s \in Screens /\ UserOf[s] = Author
  BY <1>7
<1> HIDE DEF Notifying
<1>9. IsFiniteSet(Notifying) /\ IsFiniteSet(rest)
  <2>1. rest \subseteq Screens
    BY <1>8
  <2> QED
    BY <1>8, <2>1, ScreensFinite, FS_Subset
<1>10. SumOn(d, Screens) = SumOn(f, Screens) + SumOn(w, Screens)
  <2>1. \A s \in Screens : f[s] \in Int /\ w[s] \in Int /\ d[s] = f[s] + w[s]
    BY <1>4
  <2> QED
    BY <2>1, ScreensFinite, SumAdd
<1>11. SumOn(d, Screens) = SumOn(d, Notifying) + SumOn(d, rest)
  <2>1. \A s \in Screens : d[s] \in Int
    BY <1>4
  <2>2. SumOn(d, Screens) = SumOn(d, Notifying) + SumOn(d, Screens \ Notifying)
    BY <1>8, <2>1, ScreensFinite, SumSplits
  <2> QED
    BY <1>8, <2>2
<1>12. SumOn(d, rest) = 0
  <2>1. \A s \in rest : d[s] = 0
    BY <1>5, <1>8
  <2> QED
    BY <1>9, <2>1, SumZero
<1>13. SumOn(d, Notifying) = SumOn(likeTaps, Notifying) /\ SumOn(likeTaps, Notifying) \in Int
  <2>1. \A s \in Notifying : likeTaps[s] \in Int /\ d[s] = likeTaps[s]
    BY <1>5, <1>6, <1>8
  <2> QED
    BY <1>9, <2>1, SumSame, SumType
<1>14. SumOn(w, Screens) \in Nat
  BY <1>4, ScreensFinite, SumNatural
<1>15. SumOn(f, Screens) \in Int /\ notifs \in Nat /\ faults \in Nat
  BY <1>1, OwedType DEF IInv, ServerOK, BoundsOK
<1>16. notifs <= SumOn(f, Screens) + faults /\ SumOn(f, Screens) <= notifs + faults
  BY <1>1 DEF NotifsOK
<1>17. ASSUME Quiet PROVE SumOn(w, Screens) = 0
  <2>1. ASSUME NEW s \in Screens PROVE w[s] = 0
    <3>1. /\ calls[s]["newNotif"] = 0 /\ calls[s]["createNotif"] = 0
          /\ queue[s] = <<>> /\ sending[s] = Idle
      BY <1>17 DEF Quiet, QuietScreen, NoSaves, Kinds
    <3>2. BatchOut(sending[s]) = 0
      BY <3>1 DEF BatchOut, Idle
    <3>3. Way(s) = 0
      BY <3>1, <3>2, BatchesNone DEF Way, OnTheWay
    <3> QED
      BY <1>2, <3>3
  <2> QED
    BY <2>1, ScreensFinite, SumZero
<1>18. PICK due : due = SumOn(likeTaps, Notifying)
  OBVIOUS
<1>19. due = SumOn(f, Screens) + SumOn(w, Screens) /\ due \in Int
  BY <1>10, <1>11, <1>12, <1>13, <1>18
<1>20. notifs <= due + faults
  BY <1>14, <1>15, <1>16, <1>19
<1>21. Quiet => notifs >= due - faults
  BY <1>15, <1>16, <1>17, <1>19
<1>22. due = FoldFunctionOnSet(+, 0, likeTaps, {s \in Screens : UserOf[s] # Author})
  BY <1>18 DEF SumOn, Notifying
<1> QED
  BY <1>20, <1>21, <1>22 DEF LikesNotified

\* Every like of somebody else's post makes one notification in the end, up to
\* one lost or doubled for each fault, and never more.
THEOREM EachLikeNotified == Spec => []LikesNotified
BY IInvHolds, NotifsHold, NotifsSettle, PTL
=============================================================================
