------------------------ MODULE DetailCommentsProofs ------------------------
(***************************************************************************)
(* Proofs about DetailComments, for any number of screens, texts, taps,    *)
(* refreshes and faults.                                                   *)
(***************************************************************************)
EXTENDS DetailComments, FunctionTheorems, FiniteSetTheorems, SequenceTheorems, TLAPS

Task == {"save", "batch"}

\* The tables are finite, and a row's id tells it from the rows to come.
RowsOK ==
    /\ IsFiniteSet(comments) /\ IsFiniteSet(notifs)
    /\ \A c \in comments : c.id <= Cardinality(comments)

\* A screen that was never opened has nothing under way.
FreshOK == \A s \in Screens : visit[s] = "unopened" => QuietScreen(s) /\ dirty[s] = {}

\* An attempt is given up by a fault, and named after it.
LateOK == \A a \in abandoned : a.id \in 1..faults

IInv == TypeOK /\ RowsOK /\ FreshOK /\ LateOK

LateStep == \E a \in abandoned : PostSavedLate(a)
Step(s) == UserStep(s) \/ ServiceStep(s) \/ FaultStep(s)

-----------------------------------------------------------------------------
\* Counting the batches of a task queue.
LEMMA BatchesFinite ==
    ASSUME NEW q \in Seq(Task)
    PROVE  IsFiniteSet(Batches(q)) /\ Cardinality(Batches(q)) \in Nat
<1>1. Batches(q) \in SUBSET (1..Len(q)) /\ Len(q) \in Nat
  BY DEF Batches
<1>2. IsFiniteSet(1..Len(q))
  BY <1>1, FS_Interval
<1>3. IsFiniteSet(Batches(q))
  BY <1>1, <1>2, FS_Subset
<1> QED
  BY <1>3, FS_CardinalityType

LEMMA BatchesEmpty == Cardinality(Batches(<<>>)) = 0
BY FS_EmptySet DEF Batches

LEMMA BatchesSave == Cardinality(Batches(<<"save">>)) = 0
<1>1. Batches(<<"save">>) = {}
  BY DEF Batches
<1> QED
  BY <1>1, FS_EmptySet

LEMMA BatchesAppend ==
    ASSUME NEW q \in Seq(Task), NEW k \in Task
    PROVE  /\ Append(q, k) \in Seq(Task)
           /\ Cardinality(Batches(Append(q, k))) =
                  Cardinality(Batches(q)) + IF k = "batch" THEN 1 ELSE 0
<1>1. /\ Append(q, k) \in Seq(Task) /\ Len(q) \in Nat
      /\ DOMAIN Append(q, k) = 1..(Len(q) + 1) /\ DOMAIN q = 1..Len(q)
      /\ \A i \in 1..Len(q) : Append(q, k)[i] = q[i]
      /\ Append(q, k)[Len(q) + 1] = k
  OBVIOUS
<1>2. CASE k = "batch"
  <2>1. Batches(Append(q, k)) = Batches(q) \cup {Len(q) + 1}
    BY <1>1, <1>2 DEF Batches
  <2>2. Len(q) + 1 \notin Batches(q)
    BY <1>1 DEF Batches
  <2> QED
    BY <1>1, <1>2, <2>1, <2>2, BatchesFinite, FS_AddElement
<1>3. CASE k # "batch"
  <2>1. Batches(Append(q, k)) = Batches(q)
    BY <1>1, <1>3 DEF Batches
  <2> QED
    BY <1>1, <1>3, <2>1, BatchesFinite
<1> QED
  BY <1>2, <1>3

LEMMA BatchesTail ==
    ASSUME NEW q \in Seq(Task), q # <<>>
    PROVE  /\ Tail(q) \in Seq(Task) /\ Head(q) \in Task
           /\ Cardinality(Batches(q)) =
                  Cardinality(Batches(Tail(q))) + IF Head(q) = "batch" THEN 1 ELSE 0
<1> DEFINE S == Batches(Tail(q))
           T == Batches(q) \ {1}
           f == [i \in S |-> i + 1]
<1>1. /\ Tail(q) \in Seq(Task) /\ Head(q) = q[1] /\ q[1] \in Task
      /\ Len(q) \in Nat \ {0} /\ DOMAIN q = 1..Len(q)
      /\ DOMAIN Tail(q) = 1..(Len(q) - 1)
      /\ \A i \in 1..(Len(q) - 1) : Tail(q)[i] = q[i + 1]
  OBVIOUS
<1>2. f \in [S -> T]
  BY <1>1 DEF Batches
<1>3. \A a, b \in S : f[a] = f[b] => a = b
  BY <1>1 DEF Batches
<1>4. \A t \in T : \E i \in S : f[i] = t
  <2> SUFFICES ASSUME NEW t \in T PROVE t - 1 \in S /\ f[t - 1] = t
    OBVIOUS
  <2>1. t \in 2..Len(q) /\ q[t] = "batch"
    BY <1>1 DEF Batches
  <2>2. t - 1 \in 1..(Len(q) - 1) /\ (t - 1) + 1 = t
    BY <1>1, <2>1
  <2>3. Tail(q)[t - 1] = "batch"
    BY <1>1, <2>1, <2>2
  <2>4. t - 1 \in S
    BY <1>1, <2>2, <2>3 DEF Batches
  <2> QED
    BY <2>2, <2>4
<1> HIDE DEF f
<1>5. f \in Bijection(S, T)
  BY <1>2, <1>3, <1>4, Fun_IsBij
<1>6. ExistsBijection(S, T)
  BY <1>5, Fun_ExistsBij
<1>7. IsFiniteSet(S) /\ Cardinality(S) \in Nat
  BY <1>1, BatchesFinite
<1>8. Cardinality(T) = Cardinality(S)
  BY <1>6, <1>7, FS_Bijection
<1>9. /\ Cardinality(T) = IF 1 \in Batches(q) THEN Cardinality(Batches(q)) - 1
                          ELSE Cardinality(Batches(q))
      /\ Cardinality(Batches(q)) \in Nat
  BY BatchesFinite, FS_RemoveElement
<1>10. 1 \in Batches(q) <=> Head(q) = "batch"
  BY <1>1 DEF Batches
<1> QED
  BY <1>1, <1>7, <1>8, <1>9, <1>10

-----------------------------------------------------------------------------
LEMMA IInvInit == Init => IInv
<1> SUFFICES ASSUME Init PROVE IInv
  OBVIOUS
<1>1. ServerOK /\ BoundsOK
  BY MaxDraftsType DEF Init, ServerOK, BoundsOK, Drafts
<1>2. FormOK
  BY MaxDraftsType DEF Init, FormOK, Drafts, Empty
<1>3. count \in [Screens -> Int] /\ SavesType
  <2>1. <<>> \in Seq(Task)
    OBVIOUS
  <2>2. Idle \in [kind : {"idle", "save", "batch"}, keys : SUBSET KeySet, count : Int]
    BY DEF Idle
  <2>3. sending \in [Screens -> [kind : {"idle", "save", "batch"},
                                 keys : SUBSET KeySet, count : Int]]
    BY <2>2 DEF Init, SavesInit
  <2>4. abandoned = {} /\ overwritten = FALSE
    BY DEF Init, SavesInit
  <2>5. dirty \in [Screens -> SUBSET KeySet]
    BY DEF Init, SavesInit
  <2>6. queue \in [Screens -> Seq({"save", "batch"})]
    BY <2>1 DEF Init, SavesInit, Task
  <2>7. count \in [Screens -> Int]
    BY DEF Init
  <2> QED
    BY <2>3, <2>4, <2>5, <2>6, <2>7 DEF SavesType
<1>4. RequestsOK
  <2>1. <<>> \in Seq(Notice)
    OBVIOUS
  <2> QED
    BY <2>1 DEF Init, RequestsOK
<1>5. WaitsOK
  BY BatchesEmpty DEF Init, SavesInit, Idle, WaitsOK
<1>6. RowsOK
  BY FS_EmptySet DEF Init, RowsOK
<1>7. FreshOK
  BY DEF Init, SavesInit, FreshOK, QuietScreen, NoSaves
<1>8. LateOK
  BY DEF Init, SavesInit, LateOK
<1> QED
  BY <1>1, <1>2, <1>3, <1>4, <1>5, <1>6, <1>7, <1>8 DEF IInv, TypeOK

-----------------------------------------------------------------------------
(***************************************************************************)
(* What a step leaves alone.                                               *)
(***************************************************************************)
\* A step is one of a screen that is open after it.
LEMMA StepOpens ==
    ASSUME IInv, NEW s \in Screens, Step(s)
    PROVE  visit'[s] = "open" /\ (visit[s] = "open" \/ Open(s))
<1>1. visit \in [Screens -> {"unopened", "open"}]
  BY DEF IInv, TypeOK, FormOK
<1>2. CASE Open(s)
  BY <1>1, <1>2 DEF Open
<1>3. CASE UserStep(s) /\ ~Open(s)
  BY <1>1, <1>3 DEF UserStep, Refresh, Type, Draw, DidComment, ChangeSegment, UserMayAct
<1>4. CASE ServiceStep(s) \/ FaultStep(s)
  <2>1. ~(QuietScreen(s) /\ dirty[s] = {})
    BY <1>4 DEF ServiceStep, FaultStep, CreateComment, Commented, CollectNotif, CreateNotif,
                PostSaveTurn, SaveTurn, PostSaveDone, SaveDone, CreateCommentTwice,
                CreateCommentFails, CreateNotifTwice, CreateNotifFails, PostSaveRetried,
                PostSaveFails, SaveRetried, SaveFails, QuietScreen, NoSaves
  <2>2. visit[s] = "open"
    BY <1>1, <2>1 DEF IInv, FreshOK
  <2>3. visit' = visit
    BY <1>4 DEF ServiceStep, FaultStep, CreateComment, Commented, CollectNotif, CreateNotif,
                PostSaveTurn, PostSaveDone, CreateCommentTwice, CreateCommentFails,
                CreateNotifTwice, CreateNotifFails, PostSaveRetried, PostSaveFails
  <2> QED
    BY <2>2, <2>3
<1> QED
  BY <1>2, <1>3, <1>4 DEF Step

\* The other screens are as they were.
LEMMA OthersUntouched ==
    ASSUME IInv, NEW s \in Screens, Step(s), NEW t \in Screens, t # s
    PROVE  /\ UNCHANGED <<visit[t], field[t], markUp[t], count[t]>>
           /\ UNCHANGED <<dirty[t], queue[t], sending[t]>>
           /\ UNCHANGED <<requests[t], answers[t], notices[t], batched[t], creates[t]>>
<1>1. /\ visit \in [Screens -> {"unopened", "open"}]
      /\ field \in [Screens -> Drafts] /\ markUp \in [Screens -> Drafts]
      /\ count \in [Screens -> Int]
  BY DEF IInv, TypeOK, FormOK
<1>2. /\ dirty \in [Screens -> SUBSET KeySet]
      /\ queue \in [Screens -> Seq(Task)]
      /\ DOMAIN sending = Screens /\ sending = [x \in Screens |-> sending[x]]
  BY DEF IInv, TypeOK, SavesType, Task
<1>3. /\ requests \in [Screens -> SUBSET CommentRequest]
      /\ answers \in [Screens -> SUBSET CommentRequest]
      /\ notices \in [Screens -> SUBSET Notice]
      /\ creates \in [Screens -> SUBSET Notice]
      /\ batched \in [Screens -> Seq(Notice)]
  BY DEF IInv, TypeOK, RequestsOK
<1>4. CASE UserStep(s)
  <2>1. UNCHANGED <<visit[t], field[t], markUp[t], count[t]>>
    BY <1>1, <1>4 DEF UserStep, Open, Refresh, Type, Draw, DidComment, ChangeSegment,
                      formVars
  <2>2. UNCHANGED <<dirty[t], queue[t], sending[t]>>
    BY <1>2, <1>4 DEF UserStep, Open, Refresh, Type, Draw, DidComment, ChangeSegment,
                      SaveView, saveVars
  <2>3. UNCHANGED <<requests[t], answers[t], notices[t], batched[t], creates[t]>>
    BY <1>3, <1>4 DEF UserStep, Open, Refresh, Type, Draw, DidComment, ChangeSegment,
                      requestVars, noticeVars
  <2> QED
    BY <2>1, <2>2, <2>3
<1>5. CASE ServiceStep(s)
  <2>1. UNCHANGED <<visit[t], field[t], markUp[t], count[t]>>
    BY <1>1, <1>5 DEF ServiceStep, CreateComment, Commented, CollectNotif, CreateNotif,
                      PostSaveTurn, SaveTurn, PostSaveDone, SaveDone, SaveCount,
                      ClearForm, formVars
  <2>2. UNCHANGED <<dirty[t], queue[t], sending[t]>>
    BY <1>2, <1>5 DEF ServiceStep, CreateComment, Commented, CollectNotif, CreateNotif,
                      PostSaveTurn, SaveTurn, PostSaveDone, SaveDone, SaveCount,
                      EnqueueBatch, QueueAfterTurn, saveVars
  <2>3. UNCHANGED <<requests[t], answers[t], notices[t], batched[t], creates[t]>>
    BY <1>3, <1>5 DEF ServiceStep, CreateComment, Commented, CollectNotif, CreateNotif,
                      PostSaveTurn, PostSaveDone, requestVars, noticeVars
  <2> QED
    BY <2>1, <2>2, <2>3
<1>6. CASE FaultStep(s)
  <2>1. UNCHANGED <<visit[t], field[t], markUp[t], count[t]>>
    BY <1>1, <1>6 DEF FaultStep, CreateCommentTwice, CreateCommentFails, CreateNotifTwice,
                      CreateNotifFails, PostSaveRetried, PostSaveFails, SaveRetried,
                      SaveFails, formVars
  <2>2. UNCHANGED <<dirty[t], queue[t], sending[t]>>
    BY <1>2, <1>6 DEF FaultStep, CreateCommentTwice, CreateCommentFails, CreateNotifTwice,
                      CreateNotifFails, PostSaveRetried, PostSaveFails, SaveRetried,
                      SaveFails, saveVars
  <2>3. UNCHANGED <<requests[t], answers[t], notices[t], batched[t], creates[t]>>
    BY <1>3, <1>6 DEF FaultStep, CreateCommentTwice, CreateCommentFails, CreateNotifTwice,
                      CreateNotifFails, PostSaveRetried, PostSaveFails, BatchedAfterFailure,
                      requestVars, noticeVars
  <2> QED
    BY <2>1, <2>2, <2>3
<1> QED
  BY <1>4, <1>5, <1>6 DEF Step

\* What a step may do to each of the other variables.
LEMMA Changes ==
    ASSUME NEW s \in Screens, Step(s)
    PROVE  /\ scenario' = scenario
           /\ drafts' = drafts \/ (drafts < MaxDrafts /\ drafts' = drafts + 1)
           /\ faults' = faults \/ faults' = faults + 1
           /\ posts' = posts \/ posts' = [posts EXCEPT ![s] = @ + 1]
           /\ fetches' = fetches \/ fetches' = [fetches EXCEPT ![s] = @ + 1]
           /\ visit' = visit \/ visit' = [visit EXCEPT ![s] = "open"]
           /\ \/ UNCHANGED segmentVars
              \/ FetchComments(s)
              \/ \E i \in DOMAIN segments[s] :
                     selected' = [selected EXCEPT ![s] = i] /\ UNCHANGED segments
           /\ \/ UNCHANGED formVars
              \/ /\ drafts' = drafts + 1
                 /\ \/ field' = [field EXCEPT ![s] = drafts'] /\ UNCHANGED markUp
                    \/ markUp' = [markUp EXCEPT ![s] = drafts'] /\ UNCHANGED field
              \/ ClearForm(s)
           /\ \/ count' = count \/ count' = [count EXCEPT ![s] = commentCount]
              \/ count' = [count EXCEPT ![s] = count[s] + 1]
           /\ \/ dirty' = dirty \/ dirty' = [dirty EXCEPT ![s] = {"numViews"}]
              \/ dirty' = [dirty EXCEPT ![s] = dirty[s] \cup {"count"}]
              \/ dirty' = [dirty EXCEPT ![s] = {}]
              \/ dirty' = [dirty EXCEPT ![s] = DirtyAgain(s)]
           /\ \/ queue' = queue \/ queue' = [queue EXCEPT ![s] = <<"save">>]
              \/ queue' = [queue EXCEPT ![s] = Append(queue[s], "save")]
              \/ queue' = [queue EXCEPT ![s] = Append(queue[s], "batch")]
              \/ queue[s] # <<>> /\ queue' = [queue EXCEPT ![s] = Tail(queue[s])]
           /\ \/ sending' = sending \/ sending' = [sending EXCEPT ![s] = Idle]
              \/ queue[s] # <<>> /\ sending' = [sending EXCEPT ![s] =
                     [kind |-> Head(queue[s]), keys |-> dirty[s], count |-> count[s]]]
<1>1. CASE UserStep(s)
  BY <1>1
  DEF UserStep, Open, Refresh, Type, Draw, DidComment, ChangeSegment, SaveView, boundVars,
      segmentVars, formVars, saveVars, tapVars
<1>2. CASE ServiceStep(s)
  BY <1>2
  DEF ServiceStep, CreateComment, Commented, CollectNotif, CreateNotif, PostSaveTurn,
      SaveTurn, PostSaveDone, SaveDone, SaveCount, CountWithComment, EnqueueBatch,
      QueueAfterTurn, boundVars, segmentVars, formVars, saveVars, tapVars
<1>3. CASE FaultStep(s)
  BY <1>3
  DEF FaultStep, CreateCommentTwice, CreateCommentFails, CreateNotifTwice, CreateNotifFails,
      PostSaveRetried, PostSaveFails, SaveRetried, SaveFails, boundVars,
      segmentVars, formVars, saveVars, tapVars
<1> QED
  BY <1>1, <1>2, <1>3 DEF Step

-----------------------------------------------------------------------------
(***************************************************************************)
(* The parts of the type invariant, each by the steps that touch it.       *)
(***************************************************************************)
LEMMA BoundsKeep ==
    ASSUME IInv, NEW s \in Screens, Step(s)
    PROVE  BoundsOK'
<1>1. /\ posts \in [Screens -> Nat] /\ fetches \in [Screens -> Nat]
      /\ scenario \in Scenarios /\ drafts \in Drafts /\ faults \in Nat
      /\ MaxDrafts \in Nat
  BY MaxDraftsType DEF IInv, TypeOK, BoundsOK
<1>2. drafts' \in Drafts /\ faults' \in Nat
  BY <1>1, Changes DEF Drafts
<1>3. posts' \in [Screens -> Nat] /\ fetches' \in [Screens -> Nat]
  BY <1>1, Changes
<1> QED
  BY <1>1, <1>2, <1>3, Changes DEF BoundsOK

\* A new row has a new id.
LEMMA RowIsNew ==
    ASSUME IInv, NEW s \in Screens, NEW r \in requests[s], comments' = comments \cup {Row(r)}
    PROVE  /\ Row(r) \notin comments /\ IsFiniteSet(comments')
           /\ Cardinality(comments) \in Nat
           /\ Cardinality(comments') = Cardinality(comments) + 1
           /\ \A c \in comments' : c.id <= Cardinality(comments')
           /\ Row(r) \in [id : Nat, text : Drafts, drawing : Drafts, crit : BOOLEAN]
           /\ r \in CommentRequest
<1>1. Cardinality(comments) \in Nat /\ IsFiniteSet(comments)
  BY FS_CardinalityType DEF IInv, RowsOK
<1>2. r \in CommentRequest
  BY DEF IInv, TypeOK, RequestsOK
<1>3. /\ Row(r) \in [id : Nat, text : Drafts, drawing : Drafts, crit : BOOLEAN]
      /\ Row(r).id = Cardinality(comments) + 1
  BY <1>1, <1>2 DEF Row, CommentRequest
<1>4. Row(r) \notin comments
  BY <1>1, <1>3 DEF IInv, RowsOK
<1>5. IsFiniteSet(comments') /\ Cardinality(comments') = Cardinality(comments) + 1
  BY <1>1, <1>4, FS_AddElement
<1>6. \A c \in comments : c.id \in Nat /\ c.id <= Cardinality(comments)
  BY DEF IInv, RowsOK, TypeOK, ServerOK
<1>7. \A c \in comments' : c.id <= Cardinality(comments')
  BY <1>1, <1>3, <1>5, <1>6
<1> QED
  BY <1>1, <1>2, <1>3, <1>4, <1>5, <1>7

LEMMA ServerKeeps ==
    ASSUME IInv, NEW s \in Screens, Step(s)
    PROVE  ServerOK' /\ RowsOK'
<1>1. ServerOK /\ RowsOK /\ sending \in [Screens -> [kind : {"idle", "save", "batch"},
                                                    keys : SUBSET KeySet, count : Int]]
  BY DEF IInv, TypeOK, SavesType
<1>2. ASSUME NEW r \in requests[s], comments' = comments \cup {Row(r)},
             UNCHANGED <<commentCount, notifs>>
      PROVE  ServerOK' /\ RowsOK'
  BY <1>1, <1>2, RowIsNew DEF ServerOK, RowsOK
<1>3. ASSUME NEW n \in creates[s], notifs' = notifs \cup {NotifRow(n)},
             UNCHANGED <<commentCount, comments>>
      PROVE  ServerOK' /\ RowsOK'
  <2>1. Cardinality(notifs) \in Nat /\ n \in Notice
    BY <1>1, FS_CardinalityType DEF RowsOK, IInv, TypeOK, RequestsOK
  <2>2. NotifRow(n) \in [id : Nat, text : Drafts, crit : BOOLEAN]
    BY <2>1 DEF NotifRow, Notice
  <2>3. IsFiniteSet(notifs')
    BY <1>1, <1>3, FS_AddElement DEF RowsOK
  <2> QED
    BY <1>1, <1>3, <2>2, <2>3 DEF ServerOK, RowsOK
<1>4. ASSUME WriteCount(s) \/ UNCHANGED commentCount, UNCHANGED <<comments, notifs>>
      PROVE  ServerOK' /\ RowsOK'
  <2>1. commentCount' \in Int
    BY <1>1, <1>4 DEF ServerOK, WriteCount
  <2> QED
    BY <1>1, <1>4, <2>1 DEF ServerOK, RowsOK
<1>5. \/ UNCHANGED serverVars
      \/ \E r \in requests[s] : comments' = comments \cup {Row(r)} /\ UNCHANGED <<commentCount, notifs>>
      \/ \E n \in creates[s] : notifs' = notifs \cup {NotifRow(n)} /\ UNCHANGED <<commentCount, comments>>
      \/ (WriteCount(s) \/ UNCHANGED commentCount) /\ UNCHANGED <<comments, notifs>>
  <2>1. CASE UserStep(s)
    BY <2>1 DEF UserStep, Open, Refresh, Type, Draw, DidComment, ChangeSegment, serverVars
  <2>2. CASE ServiceStep(s)
    BY <2>2 DEF ServiceStep, CreateComment, Commented, CollectNotif, CreateNotif,
                PostSaveTurn, SaveTurn, PostSaveDone, SaveDone, serverVars
  <2>3. CASE FaultStep(s)
    BY <2>3 DEF FaultStep, CreateCommentTwice, CreateCommentFails, CreateNotifTwice,
                CreateNotifFails, PostSaveRetried, PostSaveFails, SaveRetried, SaveFails, Unanswered, serverVars
  <2> QED
    BY <2>1, <2>2, <2>3 DEF Step
<1>6. CASE UNCHANGED serverVars
  BY <1>1, <1>6 DEF serverVars, ServerOK, RowsOK
<1> QED
  BY <1>2, <1>3, <1>4, <1>5, <1>6

Title == {"Comments", "Critiques"}

LEMMA RemoveSegmentType ==
    ASSUME NEW titles \in Seq(Title), titles # <<>>, NEW i \in Nat \ {0}
    PROVE  /\ RemoveSegment(titles, i) \in Seq(Title)
           /\ Len(RemoveSegment(titles, i)) = Len(titles) - 1
<1> DEFINE pinned == IF i > Len(titles) THEN Len(titles) ELSE i
           rest == [j \in 1..(Len(titles) - 1) |-> titles[IF j < pinned THEN j ELSE j + 1]]
<1>1. Len(titles) \in Nat \ {0} /\ \A j \in 1..Len(titles) : titles[j] \in Title
  OBVIOUS
<1>2. pinned \in Nat
  BY <1>1
<1> HIDE DEF pinned
<1>3. Len(titles) - 1 \in Nat
  BY <1>1
<1>4. rest \in [1..(Len(titles) - 1) -> Title]
  BY <1>1, <1>2
<1>5. rest \in Seq(Title) /\ Len(rest) = Len(titles) - 1
  <2>1. rest \in Seq(Title)
    BY <1>3, <1>4, SeqDef
  <2>2. DOMAIN rest = 1..Len(rest) /\ Len(rest) \in Nat
    BY <2>1, LenProperties
  <2>3. DOMAIN rest = 1..(Len(titles) - 1)
    BY <1>4
  <2> HIDE DEF rest
  <2> QED
    BY <1>3, <2>1, <2>2, <2>3
<1> QED
  BY <1>5 DEF RemoveSegment, pinned

LEMMA SegmentsType ==
    ASSUME IInv, NEW s \in Screens
    PROVE  /\ segments[s] \in Seq(Title) /\ selected[s] \in Nat
           /\ SegmentsAfterFetch(segments[s]) \in Seq(Title)
           /\ SelectedAfterFetch(s) \in Nat
           /\ SelectedAfterFetch(s) <= Len(SegmentsAfterFetch(segments[s]))
<1>1. segments[s] \in Seq(Title) /\ selected[s] \in Nat /\ selected[s] <= Len(segments[s])
  BY DEF IInv, TypeOK, FormOK, Title
<1>2. SegmentsAfterFetch(segments[s]) \in Seq(Title)
  BY <1>1, RemoveSegmentType DEF SegmentsAfterFetch
<1>3. Len(SegmentsAfterFetch(segments[s])) \in Nat
  BY <1>2, LenProperties
<1> QED
  BY <1>1, <1>2, <1>3 DEF SelectedAfterFetch

LEMMA FormKeeps ==
    ASSUME IInv, NEW s \in Screens, Step(s)
    PROVE  FormOK'
<1> DEFINE titles == SegmentsAfterFetch(segments[s])
           sel == SelectedAfterFetch(s)
<1>1. /\ visit \in [Screens -> {"unopened", "open"}]
      /\ segments \in [Screens -> Seq(Title)]
      /\ selected \in [Screens -> Nat]
      /\ \A t \in Screens : selected[t] <= Len(segments[t])
  BY DEF IInv, TypeOK, FormOK, Title
<1>2. titles \in Seq(Title) /\ sel \in Nat /\ sel <= Len(titles)
  BY SegmentsType
<1>3. field \in [Screens -> Drafts] /\ markUp \in [Screens -> Drafts]
  BY DEF IInv, TypeOK, FormOK
<1>4. visit' \in [Screens -> {"unopened", "open"}]
  <2>1. visit' = visit \/ visit' = [visit EXCEPT ![s] = "open"]
    BY Changes
  <2> QED
    BY <1>1, <2>1
<1>5. /\ segments' \in [Screens -> Seq(Title)] /\ selected' \in [Screens -> Nat]
      /\ \A t \in Screens : selected'[t] <= Len(segments'[t])
  <2>1. \/ UNCHANGED segmentVars
        \/ FetchComments(s)
        \/ \E i \in DOMAIN segments[s] : /\ selected' = [selected EXCEPT ![s] = i]
                                         /\ UNCHANGED segments
    BY Changes
  <2>2. CASE UNCHANGED segmentVars
    BY <1>1, <2>2 DEF segmentVars
  <2>3. CASE FetchComments(s)
    <3>1. segments' = [segments EXCEPT ![s] = titles] /\ selected' = [selected EXCEPT ![s] = sel]
      BY <1>1, <2>3 DEF FetchComments
    <3> HIDE DEF titles, sel
    <3> QED
      BY <1>1, <1>2, <3>1
  <2>4. ASSUME NEW i \in DOMAIN segments[s], selected' = [selected EXCEPT ![s] = i],
               UNCHANGED segments
        PROVE  /\ segments' \in [Screens -> Seq(Title)] /\ selected' \in [Screens -> Nat]
               /\ \A t \in Screens : selected'[t] <= Len(segments'[t])
    <3>1. i \in Nat /\ i <= Len(segments[s])
      BY <1>1, <2>4
    <3> QED
      BY <1>1, <2>4, <3>1
  <2> QED
    BY <2>1, <2>2, <2>3, <2>4
<1>6. field' \in [Screens -> Drafts] /\ markUp' \in [Screens -> Drafts]
  <2>1. \/ UNCHANGED formVars
        \/ drafts' \in Drafts /\ field' = [field EXCEPT ![s] = drafts'] /\ UNCHANGED markUp
        \/ drafts' \in Drafts /\ markUp' = [markUp EXCEPT ![s] = drafts'] /\ UNCHANGED field
        \/ ClearForm(s)
    BY BoundsKeep, Changes DEF BoundsOK
  <2>2. Empty \in Drafts
    BY MaxDraftsType DEF Empty, Drafts
  <2> QED
    BY <1>3, <2>1, <2>2 DEF ClearForm, formVars
<1> QED
  BY <1>4, <1>5, <1>6 DEF FormOK, Title

\* A step may give up an attempt, named after the fault that it is.
LEMMA LateChanges ==
    ASSUME NEW s \in Screens, Step(s)
    PROVE  /\ \/ UNCHANGED abandoned
              \/ faults' = faults + 1 /\ abandoned' = abandoned \cup Attempt(s, faults')
           /\ overwritten' = overwritten \/ overwritten' = FALSE
<1>1. CASE UserStep(s)
  BY <1>1
  DEF UserStep, Open, Refresh, Type, Draw, DidComment, ChangeSegment, saveVars, lateVars
<1>2. CASE ServiceStep(s)
  BY <1>2
  DEF ServiceStep, CreateComment, Commented, CollectNotif, CreateNotif, PostSaveTurn,
      SaveTurn, PostSaveDone, SaveDone, WriteCount, saveVars, lateVars
<1>3. CASE FaultStep(s)
  BY <1>3
  DEF FaultStep, CreateCommentTwice, CreateCommentFails, CreateNotifTwice, CreateNotifFails,
      PostSaveRetried, PostSaveFails, SaveRetried, SaveFails, Unanswered, WriteCount,
      saveVars, lateVars
<1> QED
  BY <1>1, <1>2, <1>3 DEF Step

LEMMA AttemptIs ==
    ASSUME NEW s \in Screens, NEW id, NEW a \in Attempt(s, id)
    PROVE  "count" \in sending[s].keys /\ a = [id |-> id, count |-> sending[s].count]
BY DEF Attempt

LEMMA AttemptsKeep ==
    ASSUME IInv, NEW s \in Screens, Step(s)
    PROVE  LateOK' /\ abandoned' \subseteq [id : Nat, count : Int] /\ overwritten' \in BOOLEAN
<1>1. /\ abandoned \subseteq [id : Nat, count : Int] /\ overwritten \in BOOLEAN
      /\ faults \in Nat /\ LateOK /\ sending[s].count \in Int
  BY DEF IInv, TypeOK, SavesType, BoundsOK
<1>2. faults' = faults \/ faults' = faults + 1
  BY Changes
<1>2a. \A k \in 1..faults : k \in 1..faults'
  BY <1>1, <1>2
<1>3. CASE UNCHANGED abandoned
  BY <1>1, <1>2a, <1>3, LateChanges DEF LateOK
<1>4. CASE faults' = faults + 1 /\ abandoned' = abandoned \cup Attempt(s, faults')
  <2>1. ASSUME NEW a \in abandoned' PROVE a.id \in 1..faults' /\ a \in [id : Nat, count : Int]
    <3>1. CASE a \in abandoned
      BY <1>1, <1>2a, <3>1 DEF LateOK
    <3>2. CASE a \in Attempt(s, faults')
      <4>1. a = [id |-> faults', count |-> sending[s].count]
        BY <3>2, AttemptIs
      <4> QED
        BY <1>1, <1>4, <4>1
    <3> QED
      BY <1>4, <3>1, <3>2
  <2> QED
    BY <1>1, <2>1, LateChanges DEF LateOK
<1> QED
  BY <1>3, <1>4, LateChanges

LEMMA SavesKeep ==
    ASSUME IInv, NEW s \in Screens, Step(s)
    PROVE  count' \in [Screens -> Int] /\ SavesType'
<1> DEFINE Save == [kind : {"idle", "save", "batch"}, keys : SUBSET KeySet, count : Int]
<1>1. /\ count \in [Screens -> Int] /\ dirty \in [Screens -> SUBSET KeySet]
      /\ queue \in [Screens -> Seq(Task)] /\ sending \in [Screens -> Save]
      /\ commentCount \in Int
  BY DEF IInv, TypeOK, SavesType, Task, ServerOK
<1>2. /\ queue[s] \in Seq(Task) /\ <<"save">> \in Seq(Task)
      /\ Append(queue[s], "save") \in Seq(Task) /\ Append(queue[s], "batch") \in Seq(Task)
      /\ queue[s] # <<>> => Tail(queue[s]) \in Seq(Task) /\ Head(queue[s]) \in Task
  BY <1>1, BatchesAppend, BatchesTail DEF Task
<1>3. count' \in [Screens -> Int]
  <2>1. \/ count' = count \/ count' = [count EXCEPT ![s] = commentCount]
        \/ count' = [count EXCEPT ![s] = count[s] + 1]
    BY Changes
  <2> QED
    BY <1>1, <2>1
<1>4. dirty' \in [Screens -> SUBSET KeySet]
  <2>1. \E d \in SUBSET KeySet : dirty' = dirty \/ dirty' = [dirty EXCEPT ![s] = d]
    <3>1. /\ {} \in SUBSET KeySet /\ {"numViews"} \in SUBSET KeySet
          /\ dirty[s] \cup {"count"} \in SUBSET KeySet
          /\ DirtyAgain(s) \in SUBSET KeySet
      BY <1>1 DEF KeySet, DirtyAgain
    <3>2. \/ dirty' = dirty \/ dirty' = [dirty EXCEPT ![s] = {"numViews"}]
          \/ dirty' = [dirty EXCEPT ![s] = dirty[s] \cup {"count"}]
          \/ dirty' = [dirty EXCEPT ![s] = {}]
          \/ dirty' = [dirty EXCEPT ![s] = DirtyAgain(s)]
      BY Changes
    <3> QED
      BY <3>1, <3>2
  <2> QED
    BY <1>1, <2>1
<1>5. queue' \in [Screens -> Seq(Task)]
  <2>1. \/ queue' = queue \/ queue' = [queue EXCEPT ![s] = <<"save">>]
        \/ queue' = [queue EXCEPT ![s] = Append(queue[s], "save")]
        \/ queue' = [queue EXCEPT ![s] = Append(queue[s], "batch")]
        \/ queue[s] # <<>> /\ queue' = [queue EXCEPT ![s] = Tail(queue[s])]
    BY Changes
  <2> QED
    BY <1>1, <1>2, <2>1
<1>6. sending' \in [Screens -> Save]
  <2>1. \/ sending' = sending \/ sending' = [sending EXCEPT ![s] = Idle]
        \/ queue[s] # <<>> /\ sending' = [sending EXCEPT ![s] =
               [kind |-> Head(queue[s]), keys |-> dirty[s], count |-> count[s]]]
    BY Changes
  <2>2. Idle \in Save
    BY DEF Idle
  <2>3. queue[s] # <<>> =>
            [kind |-> Head(queue[s]), keys |-> dirty[s], count |-> count[s]] \in Save
    BY <1>1, <1>2 DEF Task
  <2> HIDE DEF Save
  <2> QED
    BY <1>1, <2>1, <2>2, <2>3
<1> QED
  BY <1>3, <1>4, <1>5, <1>6, AttemptsKeep DEF SavesType, Task

\* A batch under way has a notification that waits for it.
LEMMA WaitingNotice ==
    ASSUME IInv, NEW s \in Screens, sending[s].kind = "batch"
    PROVE  /\ batched[s] # <<>> /\ Head(batched[s]) \in Notice
           /\ Tail(batched[s]) \in Seq(Notice)
           /\ Len(Tail(batched[s])) = Len(batched[s]) - 1
<1>1. batched[s] \in Seq(Notice) /\ queue[s] \in Seq(Task)
  BY DEF IInv, TypeOK, RequestsOK, SavesType, Task
<1>2. Len(batched[s]) = Cardinality(Batches(queue[s])) + 1
  BY DEF IInv, TypeOK, WaitsOK
<1>3. Cardinality(Batches(queue[s])) \in Nat
  BY <1>1, BatchesFinite
<1>4. Len(batched[s]) # 0
  BY <1>2, <1>3
<1> QED
  BY <1>1, <1>4

LEMMA RequestsKeep ==
    ASSUME IInv, NEW s \in Screens, Step(s)
    PROVE  RequestsOK'
<1>1. /\ requests \in [Screens -> SUBSET CommentRequest]
      /\ answers \in [Screens -> SUBSET CommentRequest]
      /\ notices \in [Screens -> SUBSET Notice]
      /\ creates \in [Screens -> SUBSET Notice]
      /\ batched \in [Screens -> Seq(Notice)]
  BY DEF IInv, TypeOK, RequestsOK
<1>2. /\ posts[s] \in Nat /\ field[s] \in Drafts /\ markUp[s] \in Drafts
      /\ posts \in [Screens -> Nat]
  BY DEF IInv, TypeOK, BoundsOK, FormOK
<1>3. CASE UserStep(s) /\ ~DidComment(s)
  <2>1. UNCHANGED requestVars
    BY <1>3 DEF UserStep, Open, Refresh, Type, Draw, ChangeSegment
  <2> QED
    BY <1>1, <2>1 DEF requestVars, noticeVars, RequestsOK
<1>4. CASE DidComment(s)
  <2> DEFINE r == [tap |-> posts'[s], text |-> field[s], drawing |-> markUp[s],
                   crit |-> PostsCritique(s)]
  <2>1. /\ requests' = [requests EXCEPT ![s] = @ \cup {r}]
        /\ posts'[s] = posts[s] + 1 /\ UNCHANGED <<answers, noticeVars>>
    BY <1>2, <1>4 DEF DidComment
  <2>2. PostsCritique(s) \in BOOLEAN
    BY Zenon DEF PostsCritique
  <2>3. r \in CommentRequest
    <3>1. posts'[s] \in Nat
      BY <1>2, <2>1
    <3> QED
      BY <1>2, <2>2, <3>1, Zenon DEF CommentRequest
  <2> HIDE DEF r
  <2> QED
    BY <1>1, <2>1, <2>3 DEF noticeVars, RequestsOK
<1>5. ASSUME NEW r \in requests[s],
             \/ CreateComment(s, r) \/ CreateCommentTwice(s, r) \/ CreateCommentFails(s, r)
      PROVE  RequestsOK'
  <2>1. /\ requests' = requests \/ requests' = [requests EXCEPT ![s] = @ \ {r}]
        /\ answers' = answers \/ answers' = [answers EXCEPT ![s] = @ \cup {r}]
        /\ UNCHANGED noticeVars
    BY <1>5 DEF CreateComment, CreateCommentTwice, CreateCommentFails, requestVars
  <2>2. r \in CommentRequest
    BY <1>1
  <2>3. answers[s] \cup {r} \in SUBSET CommentRequest
    BY <1>1, <2>2
  <2>4. requests[s] \ {r} \in SUBSET CommentRequest
    BY <1>1
  <2>5. requests' \in [Screens -> SUBSET CommentRequest]
    BY <1>1, <2>1, <2>4
  <2>6. answers' \in [Screens -> SUBSET CommentRequest]
    BY <1>1, <2>1, <2>3
  <2> QED
    BY <1>1, <2>1, <2>5, <2>6 DEF noticeVars, RequestsOK
<1>6. ASSUME NEW r \in answers[s], Commented(s, r) PROVE RequestsOK'
  <2> DEFINE n == [tap |-> r.tap, text |-> NoticeText(s, r), crit |-> r.crit]
  <2>1. /\ answers' = [answers EXCEPT ![s] = @ \ {r}]
        /\ notices' = notices \/ notices' = [notices EXCEPT ![s] = @ \cup {n}]
        /\ UNCHANGED <<requests, batched, creates>>
    BY <1>6 DEF Commented
  <2>2. n \in Notice
    BY <1>1, <1>2 DEF Notice, CommentRequest, NoticeText
  <2> HIDE DEF n
  <2> QED
    BY <1>1, <2>1, <2>2 DEF RequestsOK
<1>7. ASSUME NEW n \in notices[s], CollectNotif(s, n) PROVE RequestsOK'
  <2>1. /\ notices' = [notices EXCEPT ![s] = @ \ {n}] /\ UNCHANGED <<requests, answers>>
        /\ batched' = batched \/ batched' = [batched EXCEPT ![s] = Append(@, n)]
        /\ creates' = creates \/ creates' = [creates EXCEPT ![s] = @ \cup {n}]
    BY <1>7 DEF CollectNotif
  <2>2. n \in Notice
    BY <1>1
  <2>3. notices' \in [Screens -> SUBSET Notice]
    <3>1. notices[s] \ {n} \in SUBSET Notice
      BY <1>1
    <3>2. notices' = [notices EXCEPT ![s] = @ \ {n}]
      BY <2>1
    <3> QED
      BY <1>1, <3>1, <3>2
  <2>4. creates' \in [Screens -> SUBSET Notice]
    <3>1. creates[s] \cup {n} \in SUBSET Notice
      BY <1>1, <2>2
    <3> QED
      BY <1>1, <2>1, <3>1
  <2>5. batched' \in [Screens -> Seq(Notice)]
    <3>1. Append(batched[s], n) \in Seq(Notice)
      BY <1>1, <2>2
    <3> QED
      BY <1>1, <2>1, <3>1
  <2> QED
    BY <1>1, <2>1, <2>3, <2>4, <2>5 DEF RequestsOK
<1>8. ASSUME NEW n \in creates[s],
             CreateNotif(s, n) \/ CreateNotifTwice(s, n) \/ CreateNotifFails(s, n)
      PROVE  RequestsOK'
  <2>1. /\ creates' = creates \/ creates' = [creates EXCEPT ![s] = @ \ {n}]
        /\ UNCHANGED <<requests, answers, notices, batched>>
    BY <1>8 DEF CreateNotif, CreateNotifTwice, CreateNotifFails, requestVars, noticeVars
  <2> QED
    BY <1>1, <2>1 DEF RequestsOK
<1>9. CASE PostSaveTurn(s)
  BY <1>1, <1>9 DEF PostSaveTurn, requestVars, noticeVars, RequestsOK
<1>10. CASE PostSaveDone(s) \/ PostSaveFails(s)
  <2>1. /\ UNCHANGED <<requests, answers, notices>>
        /\ \/ UNCHANGED <<batched, creates>>
           \/ /\ sending[s].kind = "batch"
              /\ batched' = [batched EXCEPT ![s] = Tail(@)]
              /\ \/ creates' = creates
                 \/ creates' = [creates EXCEPT ![s] = @ \cup {Head(batched[s])}]
    BY <1>10 DEF PostSaveDone, PostSaveRetried, PostSaveFails, BatchedAfterFailure
  <2>2. CASE UNCHANGED <<batched, creates>>
    BY <1>1, <2>1, <2>2 DEF RequestsOK
  <2>3. CASE ~UNCHANGED <<batched, creates>>
    <3>1. Head(batched[s]) \in Notice /\ Tail(batched[s]) \in Seq(Notice)
      BY <2>1, <2>3, WaitingNotice
    <3>2. batched' \in [Screens -> Seq(Notice)]
      BY <1>1, <2>1, <2>3, <3>1
    <3>3. creates' \in [Screens -> SUBSET Notice]
      <4>1. creates[s] \cup {Head(batched[s])} \in SUBSET Notice
        BY <1>1, <3>1
      <4>2. \/ creates' = creates
            \/ creates' = [creates EXCEPT ![s] = creates[s] \cup {Head(batched[s])}]
        BY <2>1, <2>3
      <4> QED
        BY <1>1, <4>1, <4>2
    <3> QED
      BY <1>1, <2>1, <3>2, <3>3 DEF RequestsOK
  <2> QED
    BY <2>2, <2>3
<1>11. CASE PostSaveRetried(s)
  BY <1>1, <1>11 DEF PostSaveRetried, requestVars, noticeVars, RequestsOK
<1> QED
  BY <1>3, <1>4, <1>5, <1>6, <1>7, <1>8, <1>9, <1>10, <1>11
  DEF Step, UserStep, ServiceStep, FaultStep

\* One notification per batch.
LEMMA WaitsKeep ==
    ASSUME IInv, NEW s \in Screens, Step(s)
    PROVE  WaitsOK'
<1> DEFINE b(t) == Cardinality(Batches(queue[t]))
           w(t) == IF sending[t].kind = "batch" THEN 1 ELSE 0
<1>1. /\ queue[s] \in Seq(Task) /\ batched[s] \in Seq(Notice)
      /\ queue \in [Screens -> Seq(Task)] /\ batched \in [Screens -> Seq(Notice)]
      /\ sending \in [Screens -> [kind : {"idle", "save", "batch"},
                                  keys : SUBSET KeySet, count : Int]]
  BY DEF IInv, TypeOK, RequestsOK, SavesType, Task
<1>2. /\ Len(batched[s]) = b(s) + w(s) /\ b(s) \in Nat /\ Len(batched[s]) \in Nat
  BY <1>1, BatchesFinite DEF IInv, TypeOK, WaitsOK
<1>3. ASSUME Len(batched'[s]) = Cardinality(Batches(queue'[s]))
                                   + IF sending'[s].kind = "batch" THEN 1 ELSE 0
      PROVE  WaitsOK'
  <2> SUFFICES ASSUME NEW t \in Screens
               PROVE  Len(batched'[t]) = Cardinality(Batches(queue'[t]))
                                            + IF sending'[t].kind = "batch" THEN 1 ELSE 0
    BY DEF WaitsOK
  <2>1. CASE t = s
    BY <1>3, <2>1
  <2>2. CASE t # s
    BY <2>2, OthersUntouched DEF IInv, TypeOK, WaitsOK
  <2> QED
    BY <2>1, <2>2
<1>4. CASE UNCHANGED <<queue, sending, batched>>
  BY <1>4 DEF IInv, TypeOK, WaitsOK
<1>5. CASE Open(s)
  <2>1. QuietScreen(s)
    BY <1>5 DEF Open, IInv, FreshOK
  <2>2. batched'[s] = <<>> /\ sending'[s] = Idle /\ queue'[s] = <<"save">>
    BY <1>1, <1>5, <2>1
    DEF Open, SaveView, QuietScreen, NoSaves, requestVars, noticeVars
  <2>3. Len(batched'[s]) = 0 /\ sending'[s].kind # "batch"
    BY <2>2 DEF Idle
  <2> QED
    BY <1>3, <2>2, <2>3, BatchesSave
<1>6. ASSUME NEW r \in answers[s], Commented(s, r) PROVE WaitsOK'
  <2>1. queue'[s] = Append(queue[s], "save") /\ UNCHANGED <<sending, batched>>
    BY <1>1, <1>6 DEF Commented, SaveCount
  <2>2. Cardinality(Batches(queue'[s])) = b(s) + 0
    BY <1>1, <2>1, BatchesAppend DEF Task
  <2> QED
    BY <1>2, <1>3, <2>1, <2>2
<1>7. ASSUME NEW n \in notices[s], CollectNotif(s, n) PROVE WaitsOK'
  <2>1. CASE NeedsBatch(s)
    <3>1. /\ queue'[s] = Append(queue[s], "batch") /\ batched'[s] = Append(batched[s], n)
          /\ UNCHANGED sending
      BY <1>1, <1>7, <2>1 DEF CollectNotif, EnqueueBatch
    <3>2. Cardinality(Batches(queue'[s])) = b(s) + 1
      BY <1>1, <3>1, BatchesAppend DEF Task
    <3>3. Len(batched'[s]) = Len(batched[s]) + 1
      BY <1>1, <3>1, n \in Notice DEF IInv, TypeOK, RequestsOK
    <3> QED
      BY <1>2, <1>3, <3>1, <3>2, <3>3
  <2>2. CASE ~NeedsBatch(s)
    BY <1>4, <1>7, <2>2 DEF CollectNotif
  <2> QED
    BY <2>1, <2>2
<1>8. CASE PostSaveTurn(s)
  <2>1. /\ sending[s] = Idle /\ queue[s] # <<>> /\ queue'[s] = Tail(queue[s])
        /\ UNCHANGED batched
    BY <1>1, <1>8 DEF PostSaveTurn, SaveTurn, QueueAfterTurn, requestVars, noticeVars
  <2>2. /\ b(s) = Cardinality(Batches(queue'[s]))
                     + IF Head(queue[s]) = "batch" THEN 1 ELSE 0
        /\ Head(queue[s]) \in Task /\ queue'[s] \in Seq(Task)
    BY <1>1, <2>1, BatchesTail
  <2>3. Cardinality(Batches(queue'[s])) \in Nat
    BY <2>2, BatchesFinite
  <2>4. CASE Head(queue[s]) = "save" /\ dirty[s] = {}
    <3>1. sending' = sending
      BY <1>8, <2>4 DEF PostSaveTurn, SaveTurn
    <3> QED
      BY <1>2, <1>3, <2>1, <2>2, <2>3, <2>4, <3>1 DEF Idle
  <2>5. CASE ~(Head(queue[s]) = "save" /\ dirty[s] = {})
    <3>1. sending'[s].kind = Head(queue[s])
      BY <1>1, <1>8, <2>5 DEF PostSaveTurn, SaveTurn
    <3> QED
      BY <1>2, <1>3, <2>1, <2>2, <2>3, <3>1 DEF Idle
  <2> QED
    BY <2>4, <2>5
<1>9. CASE PostSaveDone(s) \/ PostSaveFails(s)
  <2>1. sending'[s] = Idle /\ UNCHANGED queue
    BY <1>1, <1>9 DEF PostSaveDone, PostSaveRetried, PostSaveFails, SaveDone, SaveRetried,
                      SaveFails
  <2>2. CASE sending[s].kind = "batch"
    <3>1. batched'[s] = Tail(batched[s])
      BY <1>1, <1>9, <2>2 DEF PostSaveDone, PostSaveRetried, PostSaveFails,
                              BatchedAfterFailure
    <3>2. Len(batched'[s]) = Len(batched[s]) - 1
      BY <2>2, <3>1, WaitingNotice
    <3> QED
      BY <1>2, <1>3, <2>1, <2>2, <3>2 DEF Idle
  <2>3. CASE sending[s].kind # "batch"
    <3>1. batched' = batched
      BY <1>9, <2>3 DEF PostSaveDone, PostSaveRetried, PostSaveFails, BatchedAfterFailure
    <3> QED
      BY <1>2, <1>3, <2>1, <2>3, <3>1 DEF Idle
  <2> QED
    BY <2>2, <2>3
<1>10. CASE UserStep(s) /\ ~Open(s)
  BY <1>4, <1>10
  DEF UserStep, Refresh, Type, Draw, DidComment, ChangeSegment, saveVars, requestVars,
      noticeVars
<1>11. ASSUME NEW r \in requests[s],
              \/ CreateComment(s, r) \/ CreateCommentTwice(s, r) \/ CreateCommentFails(s, r)
       PROVE  WaitsOK'
  BY <1>4, <1>11
  DEF CreateComment, CreateCommentTwice, CreateCommentFails, saveVars, requestVars,
      noticeVars
<1>12. ASSUME NEW n \in creates[s],
             CreateNotif(s, n) \/ CreateNotifTwice(s, n) \/ CreateNotifFails(s, n)
       PROVE  WaitsOK'
  BY <1>4, <1>12
  DEF CreateNotif, CreateNotifTwice, CreateNotifFails, saveVars, requestVars, noticeVars
<1>13. CASE PostSaveRetried(s)
  BY <1>4, <1>13 DEF PostSaveRetried, SaveRetried, requestVars, noticeVars
<1> QED
  BY <1>5, <1>6, <1>7, <1>8, <1>9, <1>10, <1>11, <1>12, <1>13
  DEF Step, UserStep, ServiceStep, FaultStep

LEMMA FreshKeeps ==
    ASSUME IInv, NEW s \in Screens, Step(s)
    PROVE  FreshOK'
<1> SUFFICES ASSUME NEW t \in Screens, visit'[t] = "unopened"
             PROVE  QuietScreen(t)' /\ dirty'[t] = {}
  BY DEF FreshOK
<1>1. t # s
  BY StepOpens
<1>2. visit[t] = "unopened"
  BY <1>1, OthersUntouched
<1>3. QuietScreen(t) /\ dirty[t] = {}
  BY <1>2 DEF IInv, FreshOK
<1> QED
  BY <1>1, <1>3, OthersUntouched DEF QuietScreen, NoSaves

\* The attempt executed at last changes the row only.
LEMMA LateKeeps ==
    ASSUME IInv, NEW a \in abandoned, PostSavedLate(a)
    PROVE  IInv'
<1>1. /\ UNCHANGED <<comments, notifs, visit, segmentVars, formVars, requestVars, boundVars>>
      /\ UNCHANGED <<count, dirty, queue, sending>>
      /\ commentCount' = a.count /\ abandoned' = abandoned \ {a} /\ overwritten' = TRUE
  BY DEF PostSavedLate, ExecuteLate
<1>2. a.count \in Int
  BY DEF IInv, TypeOK, SavesType
<1>3. ServerOK' /\ RowsOK' /\ FormOK' /\ BoundsOK'
  BY <1>1, <1>2
  DEF IInv, TypeOK, ServerOK, RowsOK, FormOK, BoundsOK, segmentVars, formVars, boundVars,
      tapVars
<1>4. SavesType' /\ (count \in [Screens -> Int])'
  BY <1>1 DEF IInv, TypeOK, SavesType
<1>5. RequestsOK' /\ WaitsOK'
  BY <1>1 DEF IInv, TypeOK, RequestsOK, WaitsOK, requestVars, noticeVars
<1>6. FreshOK' /\ LateOK'
  BY <1>1
  DEF IInv, FreshOK, QuietScreen, NoSaves, LateOK, requestVars, noticeVars, boundVars
<1> QED
  BY <1>3, <1>4, <1>5, <1>6 DEF IInv, TypeOK

LEMMA IInvNext == IInv /\ [Next]_vars => IInv'
<1> SUFFICES ASSUME IInv, [Next]_vars PROVE IInv'
  OBVIOUS
<1>1. ASSUME NEW s \in Screens, Step(s) PROVE IInv'
  BY <1>1, BoundsKeep, ServerKeeps, FormKeeps, SavesKeep, RequestsKeep, WaitsKeep,
     FreshKeeps, AttemptsKeep
  DEF IInv, TypeOK
<1>2. CASE LateStep
  BY <1>2, LateKeeps DEF LateStep
<1>3. CASE UNCHANGED vars
  <2> USE <1>3 DEF vars, serverVars, segmentVars, formVars, saveVars, lateVars, requestVars,
                   noticeVars, boundVars, IInv, TypeOK, tapVars
  <2>1. ServerOK' /\ RowsOK' /\ BoundsOK' /\ FormOK'
    BY DEF ServerOK, RowsOK, BoundsOK, FormOK
  <2>2. (count \in [Screens -> Int])' /\ SavesType' /\ RequestsOK' /\ WaitsOK'
    BY DEF SavesType, RequestsOK, WaitsOK
  <2>3. FreshOK' /\ LateOK'
    BY DEF FreshOK, QuietScreen, NoSaves, LateOK
  <2> QED
    BY <2>1, <2>2, <2>3
<1> QED
  BY <1>1, <1>2, <1>3 DEF Next, Step, LateStep

THEOREM IInvHolds == Spec => []IInv
BY IInvInit, IInvNext, PTL DEF Spec

\* The variables keep their types, the selected segment is one of the control,
\* and each batch of the task queue has its notification.
THEOREM TypeCorrect == Spec => []TypeOK
<1>1. IInv => TypeOK
  BY DEF IInv
<1> QED
  BY <1>1, IInvHolds, PTL

-----------------------------------------------------------------------------
(***************************************************************************)
(* The count of a screen that is alone with the post.  Each comment whose  *)
(* callback is due will raise the screen's count by one, so count and due  *)
(* callbacks together never exceed the rows; while no request is lost they *)
(* are equal, and what the row lacks is dirty or under way.                *)
(***************************************************************************)
Blank == (\A s \in Screens : visit[s] = "unopened") =>
             commentCount = 0 /\ comments = {} /\ abandoned = {}

NotAhead(s) ==
    /\ IsFiniteSet(answers[s])
    /\ count[s] + Cardinality(answers[s]) <= Cardinality(comments)
    /\ commentCount <= Cardinality(comments)
    /\ "count" \in sending[s].keys => sending[s].count <= Cardinality(comments)
    /\ \A a \in abandoned : a.count <= Cardinality(comments)

Exact(s) ==
    /\ count[s] + Cardinality(answers[s]) = Cardinality(comments)
    /\ requests[s] \cap answers[s] = {}
    /\ \A r \in requests[s] \cup answers[s] : r.tap <= posts[s]
    /\ dirty[s] # {} => queue[s] # <<>>
    /\ \/ "count" \in dirty[s]
       \/ "count" \in sending[s].keys /\ sending[s].count = count[s]
       \/ "count" \notin sending[s].keys /\ commentCount = count[s]

CountState(s) == NotAhead(s) /\ (faults = 0 => Exact(s))

CInv == IInv /\ Blank /\ \A s \in Screens : Alone(s) => CountState(s)

LEMMA CInvInit == Init => CInv
<1>1. Init => Blank /\ \A s \in Screens : ~Alone(s)
  BY DEF Init, SavesInit, Blank, Alone
<1> QED
  BY <1>1, IInvInit DEF CInv

\* Only the screen itself acts while it is alone.
LEMMA AloneActs ==
    ASSUME IInv, NEW s \in Screens, Step(s), NEW t \in Screens, Alone(t)'
    PROVE  /\ t = s
           /\ \/ Alone(s) /\ ~Open(s)
              \/ Open(s) /\ \A u \in Screens : visit[u] = "unopened"
<1>1. t = s
  BY StepOpens DEF Alone
<1>2. \A u \in Screens \ {s} : visit[u] = "unopened"
  BY <1>1, OthersUntouched DEF Alone
<1>3. CASE visit[s] = "open"
  BY <1>1, <1>2, <1>3 DEF Alone, Open
<1>4. CASE visit[s] # "open"
  <2>1. Open(s)
    BY <1>4, StepOpens
  <2>2. visit[s] = "unopened"
    BY <2>1 DEF Open
  <2> QED
    BY <1>1, <1>2, <2>1, <2>2
<1> QED
  BY <1>3, <1>4

LEMMA CountFrame ==
    ASSUME NEW s \in Screens, CountState(s),
           UNCHANGED <<comments, commentCount, answers, requests, count, sending, dirty,
                       abandoned>>,
           queue[s] # <<>> => queue'[s] # <<>>, posts'[s] = posts[s],
           faults' = 0 => faults = 0
    PROVE  CountState(s)'
BY DEF CountState, NotAhead, Exact

\* Opening a post nobody has opened or commented.
LEMMA CountOpen ==
    ASSUME CInv, NEW s \in Screens, Open(s), \A u \in Screens : visit[u] = "unopened"
    PROVE  CountState(s)'
<1>1. commentCount = 0 /\ comments = {} /\ abandoned = {}
  BY DEF CInv, Blank
<1>2. QuietScreen(s)
  BY DEF CInv, IInv, FreshOK
<1>3. /\ UNCHANGED <<comments, commentCount, requests, answers, sending, abandoned>>
      /\ answers[s] = {} /\ requests[s] = {} /\ sending[s] = Idle
  BY <1>2 DEF Open, serverVars, requestVars, lateVars, QuietScreen, NoSaves
<1>4. count'[s] = 0 /\ queue'[s] = <<"save">> /\ dirty'[s] = {"numViews"}
  BY <1>1 DEF Open, SaveView, CInv, IInv, TypeOK, SavesType
<1>5. Cardinality({}) = 0 /\ IsFiniteSet({})
  BY FS_EmptySet
<1>6. NotAhead(s)'
  BY <1>1, <1>3, <1>4, <1>5 DEF NotAhead, Idle
<1>7. queue'[s] # <<>>
  BY <1>4
<1>8. Exact(s)'
  BY <1>1, <1>3, <1>4, <1>5, <1>7 DEF Exact, Idle
<1> QED
  BY <1>6, <1>8 DEF CountState

\* A comment row more, with its callback due or (created twice) not yet.
LEMMA CountCreate ==
    ASSUME CInv, NEW s \in Screens, CountState(s), NEW r \in requests[s],
           CreateComment(s, r) \/ CreateCommentTwice(s, r)
    PROVE  CountState(s)'
<1> DEFINE n == Cardinality(comments)
           a == Cardinality(answers[s])
<1>1. /\ count[s] \in Int /\ commentCount \in Int /\ sending[s].count \in Int
      /\ faults \in Nat /\ answers \in [Screens -> SUBSET CommentRequest]
      /\ requests \in [Screens -> SUBSET CommentRequest]
  BY DEF CInv, IInv, TypeOK, ServerOK, SavesType, BoundsOK, RequestsOK
<1>2. /\ comments' = comments \cup {Row(r)}
      /\ UNCHANGED <<commentCount, count, sending, dirty, queue, abandoned, posts>>
  BY DEF CreateComment, CreateCommentTwice, saveVars, lateVars, boundVars, tapVars
<1>3. Cardinality(comments') = n + 1 /\ n \in Nat
  BY <1>2, RowIsNew DEF CInv
<1>4. IsFiniteSet(answers[s]) /\ a \in Nat
  BY FS_CardinalityType DEF CountState, NotAhead
<1>7. \A b \in abandoned' : b.count <= Cardinality(comments')
  <2>1. \A b \in abandoned : b.count \in Int /\ b.count <= n
    BY DEF CInv, IInv, TypeOK, SavesType, CountState, NotAhead
  <2> QED
    BY <1>2, <1>3, <2>1
<1>5. CASE CreateCommentTwice(s, r)
  <2>1. faults' = faults + 1 /\ answers' = answers
    BY <1>5 DEF CreateCommentTwice, requestVars
  <2>2. NotAhead(s)'
    BY <1>1, <1>2, <1>3, <1>4, <1>7, <2>1 DEF CountState, NotAhead
  <2> QED
    BY <1>1, <2>1, <2>2 DEF CountState
<1>6. CASE CreateComment(s, r)
  <2>1. /\ answers'[s] = answers[s] \cup {r} /\ requests'[s] = requests[s] \ {r}
        /\ faults' = faults
    BY <1>1, <1>6 DEF CreateComment, boundVars, tapVars
  <2>2. IsFiniteSet(answers'[s])
    BY <1>4, <2>1, FS_AddElement
  <2>3. Cardinality(answers'[s]) = IF r \in answers[s] THEN a ELSE a + 1
    BY <1>4, <2>1, FS_AddElement
  <2> HIDE DEF a, n
  <2>4. NotAhead(s)'
    <3>1. count[s] + a <= n /\ commentCount <= n
      BY DEF CountState, NotAhead, a, n
    <3>2. "count" \in sending[s].keys => sending[s].count <= n
      BY DEF CountState, NotAhead, n
    <3>3. count'[s] + Cardinality(answers'[s]) <= Cardinality(comments')
      BY <1>1, <1>2, <1>3, <1>4, <2>3, <3>1
    <3>4. /\ commentCount' <= Cardinality(comments')
          /\ "count" \in sending'[s].keys => sending'[s].count <= Cardinality(comments')
      BY <1>1, <1>2, <1>3, <3>1, <3>2
    <3> QED
      BY <1>7, <2>2, <3>3, <3>4 DEF NotAhead
  <2>5. ASSUME faults = 0 PROVE Exact(s)'
    <3>1. Exact(s)
      BY <2>5 DEF CountState
    <3>2. r \notin answers[s]
      BY <3>1 DEF Exact
    <3>3. count'[s] + Cardinality(answers'[s]) = Cardinality(comments')
      BY <1>1, <1>2, <1>3, <1>4, <2>3, <3>1, <3>2 DEF Exact, a, n
    <3>4. /\ requests'[s] \cap answers'[s] = {}
          /\ \A q \in requests'[s] \cup answers'[s] : q.tap <= posts'[s]
      BY <1>2, <2>1, <3>1 DEF Exact
    <3> QED
      BY <1>2, <3>1, <3>3, <3>4 DEF Exact
  <2> QED
    BY <2>1, <2>4, <2>5 DEF CountState
<1> QED
  BY <1>5, <1>6

\* The callback of a comment: the count catches up with a row.
LEMMA CountCommented ==
    ASSUME CInv, NEW s \in Screens, CountState(s), NEW r \in answers[s], Commented(s, r)
    PROVE  CountState(s)'
<1> DEFINE n == Cardinality(comments)
           a == Cardinality(answers[s])
<1>1. /\ count[s] \in Int /\ commentCount \in Int /\ sending[s].count \in Int
      /\ faults \in Nat /\ answers \in [Screens -> SUBSET CommentRequest]
      /\ count \in [Screens -> Int] /\ dirty \in [Screens -> SUBSET KeySet]
      /\ queue \in [Screens -> Seq(Task)]
  BY DEF CInv, IInv, TypeOK, ServerOK, SavesType, BoundsOK, RequestsOK, Task
<1>2. /\ answers'[s] = answers[s] \ {r} /\ count'[s] = count[s] + 1
      /\ dirty'[s] = dirty[s] \cup {"count"} /\ queue'[s] = Append(queue[s], "save")
      /\ UNCHANGED <<comments, commentCount, requests, sending, abandoned, posts, faults>>
  BY <1>1 DEF Commented, SaveCount, CountWithComment, serverVars, lateVars, boundVars, tapVars
<1>3. n \in Nat
  BY FS_CardinalityType DEF CInv, IInv, RowsOK
<1>4. IsFiniteSet(answers[s]) /\ a \in Nat
  BY FS_CardinalityType DEF CountState, NotAhead
<1>5. IsFiniteSet(answers'[s]) /\ Cardinality(answers'[s]) = a - 1
  BY <1>2, <1>4, FS_RemoveElement
<1> HIDE DEF a, n
<1>6. NotAhead(s)'
  BY <1>1, <1>2, <1>3, <1>4, <1>5 DEF CountState, NotAhead, a, n
<1>7. ASSUME faults = 0 PROVE Exact(s)'
  <2>1. Exact(s)
    BY <1>7 DEF CountState
  <2>2. count'[s] + Cardinality(answers'[s]) = Cardinality(comments')
    BY <1>1, <1>2, <1>3, <1>4, <1>5, <2>1 DEF Exact, a, n
  <2>3. /\ requests'[s] \cap answers'[s] = {}
        /\ \A q \in requests'[s] \cup answers'[s] : q.tap <= posts'[s]
    BY <1>2, <2>1 DEF Exact
  <2>4. queue'[s] # <<>>
    <3>1. queue[s] \in Seq(Task) /\ "save" \in Task
      BY <1>1 DEF Task
    <3>2. Len(Append(queue[s], "save")) = Len(queue[s]) + 1 /\ Len(queue[s]) \in Nat
      BY <3>1
    <3>3. queue'[s] = Append(queue[s], "save")
      BY <1>2
    <3>4. Len(queue'[s]) # 0
      BY <3>2, <3>3
    <3> QED
      BY <3>4
  <2> QED
    BY <1>2, <2>2, <2>3, <2>4 DEF Exact
<1> QED
  BY <1>2, <1>6, <1>7 DEF CountState

\* A turn of the task queue, and the end of a save.
LEMMA CountSave ==
    ASSUME CInv, NEW s \in Screens, CountState(s),
           \/ PostSaveTurn(s) \/ PostSaveDone(s)
           \/ PostSaveRetried(s) \/ PostSaveFails(s)
    PROVE  CountState(s)'
<1> DEFINE n == Cardinality(comments)
<1>1. /\ count[s] \in Int /\ commentCount \in Int /\ faults \in Nat /\ n \in Nat
      /\ Cardinality(answers[s]) \in Nat /\ sending[s].count \in Int
      /\ dirty \in [Screens -> SUBSET KeySet] /\ queue \in [Screens -> Seq(Task)]
      /\ sending \in [Screens -> [kind : {"idle", "save", "batch"},
                                  keys : SUBSET KeySet, count : Int]]
  BY FS_CardinalityType
  DEF CInv, IInv, TypeOK, ServerOK, SavesType, BoundsOK, RowsOK, CountState, NotAhead, Task
<1>2. UNCHANGED <<comments, count, requests, answers, posts>>
  BY DEF PostSaveTurn, SaveTurn, PostSaveDone, SaveDone, PostSaveRetried, PostSaveFails,
         SaveRetried, SaveFails, requestVars, boundVars, tapVars
<1>3. /\ count[s] <= n /\ commentCount <= n
      /\ "count" \in sending[s].keys => sending[s].count <= n
  BY <1>1 DEF CountState, NotAhead
<1>4. CASE PostSaveTurn(s)
  <2>1. /\ sending[s] = Idle /\ queue[s] # <<>>
        /\ UNCHANGED <<commentCount, faults, abandoned>>
    BY <1>4 DEF PostSaveTurn, SaveTurn, boundVars, tapVars
  <2>2. \/ dirty[s] = {} /\ UNCHANGED <<dirty, sending>>
        \/ /\ sending'[s].keys = dirty[s] /\ sending'[s].count = count[s]
           /\ dirty'[s] = {}
    BY <1>1, <1>4 DEF PostSaveTurn, SaveTurn
  <2>3. NotAhead(s)'
    <3>1. "count" \in sending'[s].keys => sending'[s].count <= n
      BY <1>3, <2>1, <2>2 DEF Idle
    <3> QED
      BY <1>2, <2>1, <3>1 DEF CountState, NotAhead
  <2>4. ASSUME faults = 0 PROVE Exact(s)'
    <3>1. Exact(s)
      BY <2>4 DEF CountState
    <3>2. dirty'[s] = {}
      BY <2>2
    <3>3. \/ "count" \in sending'[s].keys /\ sending'[s].count = count[s]
          \/ "count" \notin sending'[s].keys /\ commentCount = count[s]
      BY <2>1, <2>2, <3>1 DEF Exact, Idle
    <3> QED
      BY <1>2, <2>1, <3>1, <3>2, <3>3 DEF Exact
  <2> QED
    BY <2>1, <2>3, <2>4 DEF CountState
<1>5. CASE PostSaveDone(s) \/ PostSaveRetried(s) \/ PostSaveFails(s)
  <2>1. /\ \/ commentCount' = commentCount
           \/ "count" \in sending[s].keys /\ commentCount' = sending[s].count
        /\ sending'[s] = Idle \/ (sending' = sending /\ PostSaveRetried(s))
        /\ \A a \in abandoned' : a \in abandoned \/ \E id : a \in Attempt(s, id)
    <3>1. /\ WriteCount(s) \/ UNCHANGED commentCount
          /\ sending' = [sending EXCEPT ![s] = Idle] \/ (sending' = sending /\ PostSaveRetried(s))
          /\ UNCHANGED abandoned \/ \E id : abandoned' = abandoned \cup Attempt(s, id)
      <4>1. CASE PostSaveDone(s)
        BY <4>1 DEF PostSaveDone, SaveDone
      <4>2. CASE PostSaveRetried(s)
        <5>1. sending' = sending /\ Unanswered(s, faults')
          BY <4>2 DEF PostSaveRetried, SaveRetried
        <5> QED
          BY <4>2, <5>1 DEF Unanswered
      <4>3. CASE PostSaveFails(s)
        <5>1. sending' = [sending EXCEPT ![s] = Idle] /\ Unanswered(s, faults')
          BY <4>3 DEF PostSaveFails, SaveFails
        <5> QED
          BY <5>1 DEF Unanswered
      <4> QED
        BY <1>5, <4>1, <4>2, <4>3
    <3>2. \/ commentCount' = commentCount
          \/ "count" \in sending[s].keys /\ commentCount' = sending[s].count
      BY <3>1 DEF WriteCount
    <3>3. sending'[s] = Idle \/ (sending' = sending /\ PostSaveRetried(s))
      BY <1>1, <3>1
    <3> QED
      BY <3>1, <3>2, <3>3
  <2>2. NotAhead(s)'
    <3>1. ASSUME NEW a \in abandoned' PROVE a.count <= n
      <4>1. CASE a \in abandoned
        BY <4>1 DEF CountState, NotAhead
      <4>2. ASSUME NEW id, a \in Attempt(s, id) PROVE a.count <= n
        <5>1. "count" \in sending[s].keys /\ a = [id |-> id, count |-> sending[s].count]
          BY <4>2, AttemptIs
        <5> QED
          BY <1>3, <5>1
      <4> QED
        BY <2>1, <4>1, <4>2
    <3>2. "count" \in sending'[s].keys => sending'[s].count <= n
      BY <1>3, <2>1 DEF Idle
    <3> QED
      BY <1>2, <1>3, <2>1, <3>1, <3>2 DEF CountState, NotAhead
  <2>3. CASE PostSaveRetried(s) \/ PostSaveFails(s)
    <3>1. faults' # 0
      BY <1>1, <2>3 DEF PostSaveRetried, PostSaveFails
    <3> QED
      BY <2>2, <3>1 DEF CountState
  <2>4. CASE PostSaveDone(s)
    <3>1. UNCHANGED <<dirty, queue, faults>> /\ WriteCount(s)
      BY <2>4 DEF PostSaveDone, SaveDone, boundVars, tapVars
    <3>2. ASSUME faults = 0 PROVE Exact(s)'
      <4>1. Exact(s)
        BY <3>2 DEF CountState
      <4>2. "count" \in dirty'[s] \/ commentCount' = count'[s]
        BY <1>2, <3>1, <4>1 DEF Exact, WriteCount
      <4>3. sending'[s] = Idle
        BY <1>1, <2>4 DEF PostSaveDone, SaveDone
      <4> QED
        BY <1>2, <3>1, <4>1, <4>2, <4>3 DEF Exact, Idle
    <3> QED
      BY <2>2, <3>1, <3>2 DEF CountState
  <2> QED
    BY <1>5, <2>3, <2>4
<1> QED
  BY <1>4, <1>5

LEMMA CInvNext == CInv /\ [Next]_vars => CInv'
<1> SUFFICES ASSUME CInv, [Next]_vars PROVE CInv'
  OBVIOUS
<1>1. IInv'
  BY IInvNext DEF CInv
<1>2. ASSUME NEW s \in Screens, Step(s) PROVE Blank' /\ \A t \in Screens : Alone(t)' => CountState(t)'
  <2>1. Blank'
    BY <1>2, StepOpens DEF CInv, Blank
  <2> SUFFICES ASSUME NEW t \in Screens, Alone(t)' PROVE CountState(t)'
    BY <2>1
  <2>2. /\ t = s
        /\ \/ Alone(s) /\ ~Open(s)
           \/ Open(s) /\ \A u \in Screens : visit[u] = "unopened"
    <3>1. IInv
      BY DEF CInv
    <3> QED
      BY <1>2, <3>1, AloneActs
  <2>3. CASE Open(s) /\ \A u \in Screens : visit[u] = "unopened"
    BY <2>2, <2>3, CountOpen
  <2>4. CASE Alone(s) /\ ~Open(s)
    <3> SUFFICES CountState(s)'
      BY <2>2
    <3>1. CountState(s)
      BY <2>4 DEF CInv
    <3>2. /\ faults \in Nat /\ requests \in [Screens -> SUBSET CommentRequest]
          /\ posts \in [Screens -> Nat] /\ queue \in [Screens -> Seq(Task)]
      BY DEF CInv, IInv, TypeOK, BoundsOK, RequestsOK, SavesType, Task
    <3>3. CASE UserStep(s) /\ ~DidComment(s)
      <4>1. UNCHANGED <<serverVars, count, saveVars, requestVars, posts, faults>>
        BY <2>4, <3>3 DEF UserStep, Refresh, Type, Draw, ChangeSegment
      <4> QED
        BY <3>1, <4>1, CountFrame DEF serverVars, saveVars, lateVars, requestVars
    <3>4. CASE DidComment(s)
      <4>1. /\ UNCHANGED <<serverVars, count, saveVars, answers, faults>>
            /\ posts'[s] = posts[s] + 1
            /\ \A r \in requests'[s] : r \in requests[s] \/ r.tap = posts'[s]
        BY <3>2, <3>4 DEF DidComment
      <4>2. NotAhead(s)'
        BY <3>1, <4>1 DEF CountState, NotAhead, serverVars, saveVars, lateVars
      <4>3. ASSUME faults = 0 PROVE Exact(s)'
        <5>1. Exact(s)
          BY <3>1, <4>3 DEF CountState
        <5>2. \A r \in requests[s] \cup answers[s] : r.tap \in Nat /\ r.tap <= posts[s]
          BY <5>1 DEF Exact, CInv, IInv, TypeOK, RequestsOK, CommentRequest
        <5>3. /\ posts[s] \in Nat /\ posts'[s] <= posts'[s]
              /\ \A r \in requests[s] \cup answers[s] : r.tap <= posts'[s] /\ r.tap # posts'[s]
          BY <3>2, <4>1, <5>2
        <5>4. /\ requests'[s] \cap answers'[s] = {}
              /\ \A r \in requests'[s] \cup answers'[s] : r.tap <= posts'[s]
          BY <4>1, <5>1, <5>3 DEF Exact
        <5> QED
          BY <4>1, <5>1, <5>4 DEF Exact, serverVars, saveVars, lateVars
      <4> QED
        BY <4>1, <4>2, <4>3 DEF CountState
    <3>5. ASSUME NEW r \in requests[s], CreateComment(s, r) \/ CreateCommentTwice(s, r)
          PROVE  CountState(s)'
      BY <3>1, <3>5, CountCreate
    <3>6. ASSUME NEW r \in requests[s], CreateCommentFails(s, r) PROVE CountState(s)'
      <4>1. /\ UNCHANGED <<serverVars, count, saveVars, answers>> /\ faults' = faults + 1
        BY <3>6 DEF CreateCommentFails
      <4> QED
        BY <3>1, <3>2, <4>1 DEF CountState, NotAhead, serverVars, saveVars, lateVars
    <3>7. ASSUME NEW r \in answers[s], Commented(s, r) PROVE CountState(s)'
      BY <3>1, <3>7, CountCommented
    <3>8. ASSUME NEW n \in notices[s], CollectNotif(s, n) PROVE CountState(s)'
      <4>1. queue'[s] = queue[s] \/ queue'[s] = Append(queue[s], "batch")
        BY <3>2, <3>8 DEF CollectNotif, EnqueueBatch
      <4>2. queue[s] # <<>> => queue'[s] # <<>>
        BY <3>2, <4>1
      <4> QED
        BY <3>1, <3>8, <4>2, CountFrame
        DEF CollectNotif, serverVars, lateVars, boundVars, tapVars
    <3>9. ASSUME NEW n \in creates[s],
                 CreateNotif(s, n) \/ CreateNotifTwice(s, n) \/ CreateNotifFails(s, n)
          PROVE  CountState(s)'
      <4>1. faults' = 0 => faults = 0
        BY <3>2, <3>9 DEF CreateNotif, CreateNotifTwice, CreateNotifFails, boundVars,
                          tapVars
      <4> QED
        BY <3>1, <3>9, <4>1, CountFrame
        DEF CreateNotif, CreateNotifTwice, CreateNotifFails, serverVars, saveVars, lateVars,
            requestVars, boundVars, tapVars
    <3>10. CASE \/ PostSaveTurn(s) \/ PostSaveDone(s)
                \/ PostSaveRetried(s) \/ PostSaveFails(s)
      BY <3>1, <3>10, CountSave
    <3> QED
      BY <1>2, <2>4, <3>3, <3>4, <3>5, <3>6, <3>7, <3>8, <3>9, <3>10
      DEF Step, UserStep, ServiceStep, FaultStep
  <2> QED
    BY <2>2, <2>3, <2>4
<1>3. CASE LateStep
  <2>1. PICK a \in abandoned : PostSavedLate(a)
    BY <1>3 DEF LateStep
  <2>2. /\ UNCHANGED <<comments, answers, requests, count, sending, visit, faults>>
        /\ commentCount' = a.count /\ abandoned' = abandoned \ {a}
    BY <2>1 DEF PostSavedLate, ExecuteLate, requestVars, boundVars
  <2>3. Blank'
    BY <2>2 DEF CInv, Blank
  <2>4. faults # 0
    <3>1. a.id \in 1..faults
      BY DEF CInv, IInv, LateOK
    <3> QED
      BY <3>1
  <2>5. ASSUME NEW s \in Screens, Alone(s)' PROVE CountState(s)'
    <3>1. Alone(s)
      BY <2>2, <2>5 DEF Alone
    <3> QED
      BY <2>2, <2>4, <3>1 DEF CInv, CountState, NotAhead
  <2> QED
    BY <1>1, <2>3, <2>5 DEF CInv
<1>4. CASE UNCHANGED vars
  <2>1. UNCHANGED <<visit, commentCount, comments, answers, requests, count, sending, dirty,
                    queue, posts, faults, abandoned>>
    BY <1>4 DEF vars, serverVars, saveVars, lateVars, requestVars, boundVars, tapVars
  <2>2. Blank'
    BY <2>1 DEF CInv, Blank
  <2>3. ASSUME NEW s \in Screens, Alone(s)' PROVE CountState(s)'
    <3>1. Alone(s)
      BY <2>1, <2>3 DEF Alone
    <3> QED
      BY <2>1, <3>1, CountFrame DEF CInv
  <2> QED
    BY <1>1, <2>2, <2>3 DEF CInv
<1> QED
  BY <1>1, <1>2, <1>3, <1>4 DEF CInv, Next, Step, LateStep

\* The post of a screen that is alone with it never claims more comments than
\* there are rows: didComment:'s callback counts each row once, after it is there.
THEOREM CountNeverAheadHolds == Spec => []CountNeverAhead
<1>1. CInv => CountNeverAhead
  BY DEF CInv, CountState, NotAhead, CountNeverAhead
<1> QED
  BY <1>1, CInvInit, CInvNext, PTL DEF Spec

\* When such a screen is quiet and no request was lost, the post's commentCount
\* is the number of its comments.
THEOREM CountSettlesHolds == Spec => []CountSettles
<1>1. CInv => CountSettles
  <2> SUFFICES ASSUME CInv, NEW s \in Screens, Alone(s), faults = 0, QuietScreen(s)
               PROVE  commentCount = Cardinality(comments)
    BY DEF CountSettles
  <2>1. Exact(s) /\ commentCount \in Int /\ count[s] \in Int
    BY DEF CInv, CountState, IInv, TypeOK, ServerOK
  <2>2. answers[s] = {} /\ queue[s] = <<>> /\ sending[s] = Idle
    BY DEF QuietScreen, NoSaves
  <2>3. dirty[s] = {} /\ commentCount = count[s]
    BY <2>1, <2>2 DEF Exact, Idle
  <2>4. Cardinality(answers[s]) = 0
    BY <2>2, FS_EmptySet
  <2> QED
    BY <2>1, <2>3, <2>4 DEF Exact
<1> QED
  BY <1>1, CInvInit, CInvNext, PTL DEF Spec

-----------------------------------------------------------------------------
(***************************************************************************)
(* Patient users.  One comment at a time goes from the button to its       *)
(* callback, and the form it was made from waits for it; so the text the   *)
(* callback quotes is the text of a row.  A draft is in one form only, and *)
(* in no row until its comment is created.                                 *)
(***************************************************************************)
Due(s) == requests[s] \cup answers[s]

OneAtATime(s) ==
    /\ requests[s] = {} \/ answers[s] = {}
    /\ \A r, q \in Due(s) : r = q
    /\ \A r \in Due(s) : r.text = field[s] /\ r.text # Empty /\ r.drawing = markUp[s]

Quoted(n) == \E c \in comments : c.text = n.text /\ c.crit = n.crit

AllQuoted(s) ==
    /\ \A n \in answers[s] \cup notices[s] \cup creates[s] : Quoted(n)
    /\ \A i \in DOMAIN batched[s] : Quoted(batched[s][i])

QuoteState ==
    /\ \A s \in Screens : OneAtATime(s) /\ AllQuoted(s)
    /\ \A n \in notifs : Quoted(n)

QInv == IInv /\ (scenario.patient => QuoteState)

LEMMA QInvInit == Init => QInv
<1> SUFFICES ASSUME Init PROVE QuoteState
  BY IInvInit DEF QInv
<1>1. ASSUME NEW s \in Screens PROVE OneAtATime(s) /\ AllQuoted(s)
  <2>1. DOMAIN batched[s] = {}
    BY DEF Init
  <2> QED
    BY <2>1 DEF Init, OneAtATime, AllQuoted, Due
<1> QED
  BY <1>1 DEF Init, QuoteState

\* Rows are never deleted.
LEMMA CommentsGrow ==
    ASSUME NEW s \in Screens, Step(s)
    PROVE  comments \subseteq comments'
<1>1. CASE UserStep(s)
  BY <1>1 DEF UserStep, Open, Refresh, Type, Draw, DidComment, ChangeSegment, serverVars
<1>2. CASE ServiceStep(s)
  BY <1>2 DEF ServiceStep, CreateComment, Commented, CollectNotif, CreateNotif,
              PostSaveTurn, PostSaveDone, serverVars
<1>3. CASE FaultStep(s)
  BY <1>3 DEF FaultStep, CreateCommentTwice, CreateCommentFails, CreateNotifTwice,
              CreateNotifFails, PostSaveRetried, PostSaveFails, serverVars
<1> QED
  BY <1>1, <1>2, <1>3 DEF Step

LEMMA StaysQuoted ==
    ASSUME comments \subseteq comments', NEW n, Quoted(n)
    PROVE  Quoted(n)'
BY DEF Quoted

\* What is left to show of a step is what it does to its own screen.
LEMMA QuoteOwn ==
    ASSUME IInv, QuoteState, NEW s \in Screens, Step(s),
           OneAtATime(s)', AllQuoted(s)', \A n \in notifs' : Quoted(n)'
    PROVE  QuoteState'
<1> SUFFICES ASSUME NEW t \in Screens, t # s PROVE OneAtATime(t)' /\ AllQuoted(t)'
  BY DEF QuoteState
<1>1. OneAtATime(t) /\ AllQuoted(t)
  BY DEF QuoteState
<1>2. /\ UNCHANGED <<requests[t], answers[t], notices[t], batched[t], creates[t]>>
      /\ UNCHANGED <<field[t], markUp[t]>>
  BY OthersUntouched
<1>3. OneAtATime(t)'
  BY <1>1, <1>2 DEF OneAtATime, Due
<1>4. AllQuoted(t)'
  BY <1>1, <1>2, CommentsGrow DEF AllQuoted, Quoted
<1> QED
  BY <1>3, <1>4

\* The form changes, or a comment is sent, only on a quiet screen.
LEMMA QuoteUser ==
    ASSUME IInv, QuoteState, scenario.patient, NEW s \in Screens, UserStep(s)
    PROVE  QuoteState'
<1>1. UNCHANGED <<comments, notifs, answers, notices, creates, batched>>
  BY DEF UserStep, Open, Refresh, Type, Draw, DidComment, ChangeSegment, serverVars,
         requestVars, noticeVars
<1>2. AllQuoted(s)' /\ \A n \in notifs' : Quoted(n)'
  BY <1>1 DEF QuoteState, AllQuoted, Quoted
<1>3. Step(s)
  BY DEF Step
<1>4. /\ requests \in [Screens -> SUBSET CommentRequest]
      /\ posts \in [Screens -> Nat]
  BY DEF IInv, TypeOK, RequestsOK, BoundsOK
<1>5. OneAtATime(s)'
  <2>1. CASE Open(s) \/ Refresh(s) \/ \E i \in DOMAIN segments[s] : ChangeSegment(s, i)
    <3>1. UNCHANGED <<field, markUp, requests>>
      BY <2>1 DEF Open, Refresh, ChangeSegment, formVars, requestVars
    <3> QED
      BY <1>1, <3>1 DEF QuoteState, OneAtATime, Due
  <2>2. CASE Type(s) \/ Draw(s)
    <3>1. QuietScreen(s) /\ UNCHANGED requests
      BY <2>2 DEF Type, Draw, UserMayAct, requestVars
    <3> QED
      BY <1>1, <3>1 DEF QuietScreen, OneAtATime, Due
  <2>3. CASE DidComment(s)
    <3> DEFINE r == [tap |-> posts'[s], text |-> field[s], drawing |-> markUp[s],
                     crit |-> PostsCritique(s)]
    <3>1. /\ QuietScreen(s) /\ requests'[s] = requests[s] \cup {r}
          /\ field[s] # Empty /\ UNCHANGED <<field, markUp>>
      BY <1>4, <2>3 DEF DidComment, UserMayAct, formVars
    <3>2. requests'[s] = {r} /\ answers'[s] = {}
      BY <1>1, <3>1 DEF QuietScreen
    <3>3. r.text = field'[s] /\ r.text # Empty /\ r.drawing = markUp'[s]
      BY <3>1
    <3> HIDE DEF r
    <3> QED
      BY <3>2, <3>3 DEF OneAtATime, Due
  <2> QED
    BY <2>1, <2>2, <2>3 DEF UserStep
<1> QED
  BY <1>2, <1>3, <1>5, QuoteOwn

\* The comment is created, or fails.
LEMMA QuoteCreate ==
    ASSUME IInv, QuoteState, NEW s \in Screens, NEW r \in requests[s],
           CreateComment(s, r) \/ CreateCommentTwice(s, r) \/ CreateCommentFails(s, r)
    PROVE  QuoteState'
<1>1. Step(s)
  BY DEF Step, ServiceStep, FaultStep
<1>2. /\ requests \in [Screens -> SUBSET CommentRequest]
      /\ answers \in [Screens -> SUBSET CommentRequest]
  BY DEF IInv, TypeOK, RequestsOK
<1>3. OneAtATime(s) /\ AllQuoted(s) /\ comments \subseteq comments'
  BY <1>1, CommentsGrow DEF QuoteState
<1>4. UNCHANGED <<field, markUp, notices, creates, batched, notifs>>
  BY DEF CreateComment, CreateCommentTwice, CreateCommentFails, formVars, serverVars,
         requestVars, noticeVars
<1>5. \/ UNCHANGED <<requests, answers>>
      \/ requests'[s] = requests[s] \ {r} /\ answers' = answers
      \/ /\ requests'[s] = requests[s] \ {r} /\ answers'[s] = answers[s] \cup {r}
         /\ comments' = comments \cup {Row(r)}
  BY <1>2 DEF CreateComment, CreateCommentTwice, CreateCommentFails, requestVars
<1>6. OneAtATime(s)'
  BY <1>3, <1>4, <1>5 DEF OneAtATime, Due
<1>7. \A n \in answers'[s] : Quoted(n)'
  <2>1. ASSUME r \in answers'[s], r \notin answers[s] PROVE Quoted(r)'
    <3>1. Row(r) \in comments' /\ Row(r).text = r.text /\ Row(r).crit = r.crit
      BY <1>5, <2>1 DEF Row
    <3> QED
      BY <3>1 DEF Quoted
  <2> QED
    BY <1>3, <1>5, <2>1, StaysQuoted DEF AllQuoted
<1>8. AllQuoted(s)'
  BY <1>3, <1>4, <1>7 DEF AllQuoted, Quoted
<1>9. \A n \in notifs' : Quoted(n)'
  BY <1>3, <1>4, StaysQuoted DEF QuoteState
<1> QED
  BY <1>1, <1>6, <1>8, <1>9, QuoteOwn

\* The callback quotes the field, which still holds the comment's text.
LEMMA QuoteCommented ==
    ASSUME IInv, QuoteState, NEW s \in Screens, NEW r \in answers[s], Commented(s, r)
    PROVE  QuoteState'
<1>1. Step(s)
  BY DEF Step, ServiceStep
<1>2. /\ answers \in [Screens -> SUBSET CommentRequest]
      /\ notices \in [Screens -> SUBSET Notice]
  BY DEF IInv, TypeOK, RequestsOK
<1>3. OneAtATime(s) /\ AllQuoted(s)
  BY DEF QuoteState
<1> DEFINE n == [tap |-> r.tap, text |-> NoticeText(s, r), crit |-> r.crit]
<1>4. /\ answers'[s] = answers[s] \ {r} /\ UNCHANGED <<requests, batched, creates>>
      /\ UNCHANGED <<comments, notifs>>
      /\ notices'[s] = notices[s] \/ notices'[s] = notices[s] \cup {n}
  BY <1>2 DEF Commented, serverVars
<1>5. Quoted(n)
  <2>1. n.text = r.text /\ n.crit = r.crit
    BY <1>3 DEF OneAtATime, Due, NoticeText
  <2>2. Quoted(r)
    BY <1>3 DEF AllQuoted
  <2> QED
    BY <2>1, <2>2 DEF Quoted
<1> HIDE DEF n
<1>6. Due(s)' = {}
  BY <1>3, <1>4 DEF OneAtATime, Due
<1>7. OneAtATime(s)'
  BY <1>6 DEF OneAtATime, Due
<1>8. AllQuoted(s)'
  BY <1>3, <1>4, <1>5 DEF AllQuoted, Quoted
<1>9. \A m \in notifs' : Quoted(m)'
  BY <1>4 DEF QuoteState, Quoted
<1> QED
  BY <1>1, <1>7, <1>8, <1>9, QuoteOwn

\* A notification on its way stays the same.
LEMMA QuoteNotice ==
    ASSUME IInv, QuoteState, NEW s \in Screens,
           \/ \E n \in notices[s] : CollectNotif(s, n)
           \/ \E n \in creates[s] : \/ CreateNotif(s, n) \/ CreateNotifTwice(s, n)
                                    \/ CreateNotifFails(s, n)
           \/ PostSaveTurn(s) \/ PostSaveDone(s)
           \/ PostSaveRetried(s) \/ PostSaveFails(s)
    PROVE  QuoteState'
<1>1. Step(s)
  BY DEF Step, ServiceStep, FaultStep
<1>2. /\ notices \in [Screens -> SUBSET Notice]
      /\ creates \in [Screens -> SUBSET Notice]
      /\ batched \in [Screens -> Seq(Notice)] /\ batched[s] \in Seq(Notice)
  BY DEF IInv, TypeOK, RequestsOK
<1>3. OneAtATime(s) /\ AllQuoted(s) /\ \A n \in notifs : Quoted(n)
  BY DEF QuoteState
<1>4. UNCHANGED <<field, markUp, requests, answers, comments>>
  BY DEF CollectNotif, CreateNotif, CreateNotifTwice, CreateNotifFails, PostSaveTurn,
         PostSaveDone, PostSaveRetried, PostSaveFails, formVars, requestVars, serverVars
<1>5. OneAtATime(s)'
  BY <1>3, <1>4 DEF OneAtATime, Due
<1>6. ASSUME NEW n \in notices[s], CollectNotif(s, n)
      PROVE  AllQuoted(s)' /\ \A m \in notifs' : Quoted(m)'
  <2>1. /\ notices'[s] = notices[s] \ {n} /\ notifs' = notifs
        /\ batched'[s] = batched[s] \/ batched'[s] = Append(batched[s], n)
        /\ creates'[s] = creates[s] \/ creates'[s] = creates[s] \cup {n}
    BY <1>2, <1>6 DEF CollectNotif, serverVars
  <2>2. Quoted(n)
    BY <1>3 DEF AllQuoted
  <2>3. \A i \in DOMAIN batched'[s] : Quoted(batched'[s][i])
    <3>1. CASE batched'[s] = batched[s]
      BY <1>3, <3>1 DEF AllQuoted
    <3>2. CASE batched'[s] = Append(batched[s], n)
      <4> SUFFICES ASSUME NEW i \in DOMAIN batched'[s] PROVE Quoted(batched'[s][i])
        OBVIOUS
      <4>1. n \in Notice
        BY <1>2
      <4>2. \/ i \in DOMAIN batched[s] /\ batched'[s][i] = batched[s][i]
            \/ batched'[s][i] = n
        BY <1>2, <3>2, <4>1
      <4> QED
        BY <1>3, <2>2, <4>2 DEF AllQuoted
    <3> QED
      BY <2>1, <3>1, <3>2
  <2> QED
    BY <1>3, <1>4, <2>1, <2>2, <2>3 DEF AllQuoted, Quoted
<1>7. ASSUME NEW n \in creates[s],
             CreateNotif(s, n) \/ CreateNotifTwice(s, n) \/ CreateNotifFails(s, n)
      PROVE  AllQuoted(s)' /\ \A m \in notifs' : Quoted(m)'
  <2>1. /\ creates'[s] = creates[s] \/ creates'[s] = creates[s] \ {n}
        /\ notifs' = notifs \/ notifs' = notifs \cup {NotifRow(n)}
        /\ UNCHANGED <<notices, batched>>
    BY <1>2, <1>7 DEF CreateNotif, CreateNotifTwice, CreateNotifFails, requestVars,
                      noticeVars, serverVars
  <2>2. Quoted(NotifRow(n))
    <3>1. NotifRow(n).text = n.text /\ NotifRow(n).crit = n.crit
      BY DEF NotifRow
    <3> QED
      BY <1>3, <3>1 DEF AllQuoted, Quoted
  <2> QED
    BY <1>3, <1>4, <2>1, <2>2 DEF AllQuoted, Quoted
<1>8. ASSUME PostSaveTurn(s) \/ PostSaveRetried(s)
      PROVE  AllQuoted(s)' /\ \A m \in notifs' : Quoted(m)'
  <2>1. UNCHANGED <<notices, batched, creates, notifs>>
    BY <1>8 DEF PostSaveTurn, PostSaveRetried, requestVars, noticeVars
  <2> QED
    BY <1>3, <1>4, <2>1 DEF AllQuoted, Quoted
<1>9. ASSUME PostSaveDone(s) \/ PostSaveFails(s)
      PROVE  AllQuoted(s)' /\ \A m \in notifs' : Quoted(m)'
  <2>1. UNCHANGED <<notices, notifs>>
    BY <1>9 DEF PostSaveDone, PostSaveFails
  <2>2. \/ UNCHANGED <<batched, creates>>
        \/ /\ sending[s].kind = "batch" /\ batched'[s] = Tail(batched[s])
           /\ \/ creates' = creates
              \/ creates'[s] = creates[s] \cup {Head(batched[s])}
    BY <1>2, <1>9 DEF PostSaveDone, PostSaveFails, BatchedAfterFailure
  <2>3. CASE UNCHANGED <<batched, creates>>
    BY <1>3, <1>4, <2>1, <2>3 DEF AllQuoted, Quoted
  <2>4. CASE ~UNCHANGED <<batched, creates>>
    <3>1. batched[s] # <<>>
      BY <2>2, <2>4, WaitingNotice
    <3>2. /\ 1 \in DOMAIN batched[s] /\ Head(batched[s]) = batched[s][1]
          /\ \A i \in DOMAIN Tail(batched[s]) :
                 i + 1 \in DOMAIN batched[s] /\ Tail(batched[s])[i] = batched[s][i + 1]
      BY <1>2, <3>1
    <3>3. \A i \in DOMAIN batched'[s] : Quoted(batched'[s][i])
      BY <1>3, <2>2, <2>4, <3>2 DEF AllQuoted
    <3>4. \A n \in creates'[s] : Quoted(n)
      BY <1>3, <2>2, <2>4, <3>2 DEF AllQuoted
    <3> QED
      BY <1>3, <1>4, <2>1, <3>3, <3>4 DEF AllQuoted, Quoted
  <2> QED
    BY <2>3, <2>4
<1>10. AllQuoted(s)' /\ \A n \in notifs' : Quoted(n)'
  BY <1>6, <1>7, <1>8, <1>9
<1> QED
  BY <1>1, <1>5, <1>10, QuoteOwn

LEMMA QInvNext == QInv /\ [Next]_vars => QInv'
<1> SUFFICES ASSUME QInv, [Next]_vars PROVE QInv'
  OBVIOUS
<1>1. IInv /\ IInv'
  BY IInvNext DEF QInv
<1>2. ASSUME NEW s \in Screens, Step(s), scenario'.patient PROVE QuoteState'
  <2>1. scenario.patient /\ QuoteState
    BY <1>2, Changes DEF QInv
  <2>2. CASE UserStep(s)
    BY <1>1, <2>1, <2>2, QuoteUser
  <2>3. CASE ServiceStep(s) \/ FaultStep(s)
    BY <1>1, <2>1, <2>3, QuoteCreate, QuoteCommented, QuoteNotice
    DEF ServiceStep, FaultStep
  <2> QED
    BY <1>2, <2>2, <2>3 DEF Step
<1>3. CASE LateStep \/ UNCHANGED vars
  <2>1. UNCHANGED <<scenario, comments, notifs, field, markUp, requests, answers, notices,
                    batched, creates>>
    <3>1. CASE LateStep
      BY <3>1 DEF LateStep, PostSavedLate, formVars, requestVars, noticeVars, boundVars,
                  tapVars
    <3>2. CASE UNCHANGED vars
      BY <3>2 DEF vars, serverVars, formVars, requestVars, noticeVars, boundVars, tapVars
    <3> QED
      BY <1>3, <3>1, <3>2
  <2> QED
    BY <1>1, <2>1 DEF QInv, QuoteState, OneAtATime, AllQuoted, Quoted, Due
<1> QED
  BY <1>1, <1>2, <1>3 DEF QInv, Next, Step, LateStep

\* What a patient user's comment notifies of quotes a comment of the same type:
\* the text field didComment:'s callback reads is the one the comment was made from.
THEOREM NotifQuotesCommentHolds == Spec => []NotifQuotesComment
<1>1. QInv => NotifQuotesComment
  BY DEF QInv, QuoteState, Quoted, NotifQuotesComment
<1> QED
  BY <1>1, QInvInit, QInvNext, PTL DEF Spec

-----------------------------------------------------------------------------
(***************************************************************************)
(* ... and if no request is lost, the same draft is not posted twice.      *)
(***************************************************************************)
PostedOnce ==
    \A c, d \in comments : c # d =>
        /\ c.text # d.text
        /\ c.drawing = d.drawing => c.drawing = Empty

\* New drafts are numbered on.
DraftsSoFar ==
    /\ \A c \in comments : c.text <= drafts /\ c.drawing <= drafts
    /\ \A s \in Screens : field[s] <= drafts /\ markUp[s] <= drafts

\* No draft is in two forms.
FormsApart ==
    \A s, t \in Screens : s # t =>
        /\ field[s] = field[t] => field[s] = Empty
        /\ markUp[s] = markUp[t] => markUp[s] = Empty

\* What is in a form is in no row yet, unless its comment's callback is due.
Unposted ==
    \A s \in Screens : answers[s] = {} =>
        \A c \in comments : /\ c.text = field[s] => field[s] = Empty
                            /\ c.drawing = markUp[s] => markUp[s] = Empty

DraftState == PostedOnce /\ DraftsSoFar /\ FormsApart /\ Unposted

DInv == QInv /\ (scenario.patient /\ faults = 0 => DraftState)

LEMMA DInvInit == Init => DInv
<1> SUFFICES ASSUME Init PROVE DraftState
  BY QInvInit DEF DInv
<1>1. comments = {} /\ drafts = 0 /\ \A s \in Screens : field[s] = Empty /\ markUp[s] = Empty
  BY DEF Init
<1> QED
  BY <1>1 DEF DraftState, PostedOnce, DraftsSoFar, FormsApart, Unposted, Empty

LEMMA DraftTypes ==
    ASSUME IInv
    PROVE  /\ drafts \in Nat /\ Empty \in Nat
           /\ field \in [Screens -> Drafts] /\ markUp \in [Screens -> Drafts]
           /\ \A s \in Screens : field[s] \in Nat /\ markUp[s] \in Nat
           /\ \A c \in comments : c.text \in Nat /\ c.drawing \in Nat
           /\ answers \in [Screens -> SUBSET CommentRequest]
BY MaxDraftsType
DEF IInv, TypeOK, BoundsOK, FormOK, ServerOK, RequestsOK, Drafts, Empty

\* Neither rows nor forms change, and no callback has run.
LEMMA DraftFrame ==
    ASSUME DraftState, UNCHANGED <<comments, drafts, field, markUp, answers>>
    PROVE  DraftState'
BY DEF DraftState, PostedOnce, DraftsSoFar, FormsApart, Unposted

\* A new text.
LEMMA DraftType ==
    ASSUME IInv, DraftState, NEW s \in Screens, Type(s)
    PROVE  DraftState'
<1>1. /\ drafts' = drafts + 1 /\ field' = [field EXCEPT ![s] = drafts']
      /\ UNCHANGED <<comments, markUp, answers>>
  BY DEF Type, serverVars, requestVars
<1>2. field'[s] = drafts + 1 /\ \A t \in Screens \ {s} : field'[t] = field[t]
  BY <1>1, DraftTypes
<1>3. DraftsSoFar'
  BY <1>1, <1>2, DraftTypes DEF DraftState, DraftsSoFar
<1>4. /\ \A t \in Screens \ {s} : field'[t] # field'[s]
      /\ \A c \in comments : c.text # field'[s]
  BY <1>2, DraftTypes DEF DraftState, DraftsSoFar
<1>5. FormsApart'
  BY <1>1, <1>2, <1>4 DEF DraftState, FormsApart
<1>6. Unposted'
  BY <1>1, <1>2, <1>4 DEF DraftState, Unposted
<1> QED
  BY <1>1, <1>3, <1>5, <1>6 DEF DraftState, PostedOnce

\* A new drawing.
LEMMA DraftDraw ==
    ASSUME IInv, DraftState, NEW s \in Screens, Draw(s)
    PROVE  DraftState'
<1>1. /\ drafts' = drafts + 1 /\ markUp' = [markUp EXCEPT ![s] = drafts']
      /\ UNCHANGED <<comments, field, answers>>
  BY DEF Draw, serverVars, requestVars
<1>2. markUp'[s] = drafts + 1 /\ \A t \in Screens \ {s} : markUp'[t] = markUp[t]
  BY <1>1, DraftTypes
<1>3. DraftsSoFar'
  BY <1>1, <1>2, DraftTypes DEF DraftState, DraftsSoFar
<1>4. /\ \A t \in Screens \ {s} : markUp'[t] # markUp'[s]
      /\ \A c \in comments : c.drawing # markUp'[s]
  BY <1>2, DraftTypes DEF DraftState, DraftsSoFar
<1>5. FormsApart'
  BY <1>1, <1>2, <1>4 DEF DraftState, FormsApart
<1>6. Unposted'
  BY <1>1, <1>2, <1>4 DEF DraftState, Unposted
<1> QED
  BY <1>1, <1>3, <1>5, <1>6 DEF DraftState, PostedOnce

\* The draft of a form becomes a row.
LEMMA DraftCreate ==
    ASSUME IInv, QuoteState, DraftState, NEW s \in Screens, NEW r \in requests[s],
           CreateComment(s, r)
    PROVE  DraftState'
<1>1. /\ comments' = comments \cup {Row(r)} /\ answers'[s] = answers[s] \cup {r}
      /\ \A t \in Screens \ {s} : answers'[t] = answers[t]
      /\ UNCHANGED <<drafts, field, markUp>>
  BY DraftTypes DEF CreateComment, formVars, boundVars, tapVars
<1>2. /\ answers[s] = {} /\ r.text = field[s] /\ field[s] # Empty /\ r.drawing = markUp[s]
  BY DEF QuoteState, OneAtATime, Due
<1>3. Row(r).text = field[s] /\ Row(r).drawing = markUp[s]
  BY <1>2 DEF Row
<1>4. \A c \in comments : /\ c.text # Row(r).text
                          /\ c.drawing = Row(r).drawing => c.drawing = Empty
  BY <1>2, <1>3 DEF DraftState, Unposted
<1>5. PostedOnce'
  BY <1>1, <1>4 DEF DraftState, PostedOnce
<1>6. DraftsSoFar'
  BY <1>1, <1>3 DEF DraftState, DraftsSoFar
<1>7. FormsApart'
  BY <1>1 DEF DraftState, FormsApart
<1>8. Unposted'
  <2> SUFFICES ASSUME NEW t \in Screens, answers'[t] = {}, NEW c \in comments'
               PROVE  /\ c.text = field[t] => field[t] = Empty
                      /\ c.drawing = markUp[t] => markUp[t] = Empty
    BY <1>1 DEF Unposted
  <2>1. t # s /\ answers[t] = {}
    BY <1>1
  <2>2. CASE c \in comments
    BY <2>1, <2>2 DEF DraftState, Unposted
  <2>3. CASE c = Row(r)
    BY <1>3, <2>1, <2>3 DEF DraftState, FormsApart
  <2> QED
    BY <1>1, <2>2, <2>3
<1> QED
  BY <1>5, <1>6, <1>7, <1>8 DEF DraftState

\* The form is emptied.
LEMMA DraftCommented ==
    ASSUME IInv, DraftState, NEW s \in Screens, NEW r \in answers[s], Commented(s, r)
    PROVE  DraftState'
<1>1. /\ field' = [field EXCEPT ![s] = Empty] /\ markUp' = [markUp EXCEPT ![s] = Empty]
      /\ answers' = [answers EXCEPT ![s] = @ \ {r}]
      /\ UNCHANGED <<comments, drafts>>
  BY DEF Commented, ClearForm, serverVars, boundVars, tapVars
<1>2. /\ field'[s] = Empty /\ markUp'[s] = Empty
      /\ \A t \in Screens \ {s} : UNCHANGED <<field[t], markUp[t], answers[t]>>
  BY <1>1, DraftTypes
<1>3. DraftsSoFar'
  BY <1>1, <1>2, DraftTypes DEF DraftState, DraftsSoFar, Empty
<1>4. FormsApart'
  BY <1>2 DEF DraftState, FormsApart
<1>5. Unposted'
  BY <1>1, <1>2 DEF DraftState, Unposted
<1> QED
  BY <1>1, <1>3, <1>4, <1>5 DEF DraftState, PostedOnce

LEMMA DInvNext == DInv /\ [Next]_vars => DInv'
<1> SUFFICES ASSUME DInv, [Next]_vars PROVE DInv'
  OBVIOUS
<1>1. QInv /\ QInv' /\ IInv /\ faults \in Nat
  BY QInvNext DEF DInv, QInv, IInv, TypeOK, BoundsOK
<1>2. ASSUME NEW s \in Screens, Step(s), scenario'.patient, faults' = 0 PROVE DraftState'
  <2>1. scenario.patient /\ faults = 0 /\ ~FaultStep(s)
    <3>1. scenario.patient /\ faults = 0
      BY <1>1, <1>2, Changes
    <3>2. FaultStep(s) => faults' = faults + 1
      BY DEF FaultStep, CreateCommentTwice, CreateCommentFails, CreateNotifTwice,
             CreateNotifFails, PostSaveRetried, PostSaveFails
    <3> QED
      BY <1>2, <3>1, <3>2
  <2>2. DraftState /\ QuoteState
    BY <2>1 DEF DInv, QInv
  <2>3. CASE Type(s) \/ Draw(s)
    BY <1>1, <2>2, <2>3, DraftType, DraftDraw
  <2>4. CASE UserStep(s) /\ ~(Type(s) \/ Draw(s))
    BY <2>2, <2>4, DraftFrame
    DEF UserStep, Open, Refresh, DidComment, ChangeSegment, serverVars, formVars,
        requestVars, boundVars, tapVars
  <2>5. ASSUME NEW r \in requests[s], CreateComment(s, r) PROVE DraftState'
    BY <1>1, <2>2, <2>5, DraftCreate
  <2>6. ASSUME NEW r \in answers[s], Commented(s, r) PROVE DraftState'
    BY <1>1, <2>2, <2>6, DraftCommented
  <2>7. CASE \/ \E n \in notices[s] : CollectNotif(s, n)
             \/ \E n \in creates[s] : CreateNotif(s, n)
             \/ PostSaveTurn(s) \/ PostSaveDone(s)
    BY <2>2, <2>7, DraftFrame
    DEF CollectNotif, CreateNotif, PostSaveTurn, PostSaveDone, serverVars, formVars,
        requestVars, boundVars, tapVars
  <2> QED
    BY <1>2, <2>1, <2>3, <2>4, <2>5, <2>6, <2>7 DEF Step, UserStep, ServiceStep
<1>3. CASE LateStep \/ UNCHANGED vars
  <2>1. UNCHANGED <<scenario, faults, comments, drafts, field, markUp, answers>>
    <3>1. CASE LateStep
      BY <3>1 DEF LateStep, PostSavedLate, formVars, requestVars, boundVars, tapVars
    <3>2. CASE UNCHANGED vars
      BY <3>2 DEF vars, serverVars, formVars, requestVars, boundVars, tapVars
    <3> QED
      BY <1>3, <3>1, <3>2
  <2> QED
    BY <1>1, <2>1, DraftFrame DEF DInv
<1> QED
  BY <1>1, <1>2, <1>3 DEF DInv, Next, Step, LateStep

\* A patient user whose requests all get through posts no text and no drawing
\* twice, although the form is emptied only by didComment:'s callback.
THEOREM DraftPostedOnceHolds == Spec => []DraftPostedOnce
<1>1. DInv => DraftPostedOnce
  BY DEF DInv, DraftState, PostedOnce, DraftPostedOnce
<1> QED
  BY <1>1, DInvInit, DInvNext, PTL DEF Spec
=============================================================================
