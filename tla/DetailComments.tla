--------------------------- MODULE DetailComments ---------------------------
(***************************************************************************)
(* Commenting from the detail screens of one post (DetailViewController,   *)
(* didComment: and fetchComments).                                         *)
(*                                                                         *)
(* A comment is sent with the text field and the drawing as they are when  *)
(* the button is tapped.  When the server has answered, a callback on the  *)
(* main thread refreshes the screen, saves the post's commentCount as the  *)
(* screen's copy plus one, notifies the author and empties the field: all  *)
(* of it with the screen as it is by then.  Whether it is a comment or a   *)
(* critique depends on the title of the selected segment.                  *)
(***************************************************************************)
EXTENDS Integers, Sequences, FiniteSets

CONSTANTS
    Screens,
    Authors,    \* the screens whose user is the author of the post
    MaxDrafts,  \* bound: texts typed and drawings made, all screens together
    Scenarios   \* what is explored: which of the screens are opened, whether
                \* their users are patient (each acts only when nothing of the
                \* screen is under way), whether the post allows critiques, and
                \* bounds on taps on the comment button and on refreshes and
                \* changes of segment, per screen, and on requests that fail,
                \* time out or are executed twice

ASSUME AuthorsType == Authors \subseteq Screens
ASSUME MaxDraftsType == MaxDrafts \in Nat
ASSUME ScenariosType ==
    Scenarios \subseteq [screens : SUBSET Screens, patient : BOOLEAN, crit : BOOLEAN,
                         posts : Nat, fetches : Nat, faults : Nat]

VARIABLES
    scenario,     \* the one of Scenarios this behaviour belongs to
    commentCount, \* the Post row's commentCount
    comments,     \* the Comment table: [id, text, drawing, crit]
    notifs,       \* the Notifications table: [id, text, crit]
    visit,        \* per screen: "unopened" or "open"
    segments,     \* per screen: the titles of segCon
    selected,     \* per screen: the selected segment, 0 for none
    field,        \* per screen: commentField.text, a draft's number or Empty
    markUp,       \* per screen: the drawing to attach, or Empty
    count,        \* per screen: self.obj.commentCount
    dirty, queue, sending, \* per screen: saves of self.obj, see PostSaves
    abandoned, overwritten, \* its attempts without an answer, see PostSaves
    requests,     \* per screen: comments being created, by number of the tap
    answers,      \* per screen: created comments whose callback is due
    notices,      \* per screen: notifications whose save has begun
    batched,      \* per screen: notifications waiting for a batch save
    creates,      \* per screen: notifications being created
    drafts, posts, fetches, faults \* counters for the bounds

serverVars == <<commentCount, comments, notifs>>
formVars == <<field, markUp>>
segmentVars == <<segments, selected>>
lateVars == <<abandoned, overwritten>>
saveVars == <<dirty, queue, sending, lateVars>>
noticeVars == <<notices, batched, creates>>
requestVars == <<requests, answers, noticeVars>>
tapVars == <<scenario, drafts, posts, fetches>>
boundVars == <<tapVars, faults>>
vars == <<serverVars, visit, segmentVars, formVars, count, saveVars,
          requestVars, boundVars>>

INSTANCE PostSaves WITH stored <- commentCount, shown <- count

CritBool == scenario.crit

Empty == 0

-----------------------------------------------------------------------------
(***************************************************************************)
(* The segmented control.  UIKit pins an index beyond the last segment to  *)
(* the last one, ignores a removal from an empty control, and selects      *)
(* nothing when the selected segment is removed.                           *)
(***************************************************************************)
RemoveSegment(titles, i) ==
    LET pinned == IF i > Len(titles) THEN Len(titles) ELSE i
    IN  [j \in 1..(Len(titles) - 1) |-> titles[IF j < pinned THEN j ELSE j + 1]]

\* fetchComments takes the second segment away if the post allows no
\* critiques, every time it runs.
SegmentsAfterFetch(titles) ==
    IF CritBool \/ titles = <<>> THEN titles ELSE RemoveSegment(titles, 2)

SelectedAfterFetch(s) ==
    IF selected[s] <= Len(SegmentsAfterFetch(segments[s])) THEN selected[s] ELSE 0

\* Whatever is not titled "Comments" is a critique.
PostsCritique(s) ==
    selected[s] = 0 \/ segments[s][selected[s]] # "Comments"

FetchComments(s) ==
    /\ segments' = [segments EXCEPT ![s] = SegmentsAfterFetch(@)]
    /\ selected' = [selected EXCEPT ![s] = SelectedAfterFetch(s)]

QuietScreen(s) ==
    /\ requests[s] = {} /\ answers[s] = {}
    /\ notices[s] = {} /\ batched[s] = <<>> /\ creates[s] = {}
    /\ NoSaves(s)
Quiet == \A s \in Screens : QuietScreen(s)

UserMayAct(s) == visit[s] = "open" /\ (scenario.patient => QuietScreen(s))

-----------------------------------------------------------------------------
Init ==
    /\ scenario \in Scenarios
    /\ commentCount = 0 /\ comments = {} /\ notifs = {}
    /\ visit = [s \in Screens |-> "unopened"]
    /\ segments = [s \in Screens |-> <<"Comments", "Critiques">>]
    /\ selected = [s \in Screens |-> 1]
    /\ field = [s \in Screens |-> Empty]
    /\ markUp = [s \in Screens |-> Empty]
    /\ count = [s \in Screens |-> 0]
    /\ SavesInit
    /\ requests = [s \in Screens |-> {}]
    /\ answers = [s \in Screens |-> {}]
    /\ notices = [s \in Screens |-> {}]
    /\ batched = [s \in Screens |-> <<>>]
    /\ creates = [s \in Screens |-> {}]
    /\ drafts = 0
    /\ posts = [s \in Screens |-> 0]
    /\ fetches = [s \in Screens |-> 0]
    /\ faults = 0

\* viewDidLoad: the post is fetched, its view saved, its comments fetched.
Open(s) ==
    /\ visit[s] = "unopened" /\ s \in scenario.screens
    /\ visit' = [visit EXCEPT ![s] = "open"]
    /\ count' = [count EXCEPT ![s] = commentCount]
    /\ SaveView(s)
    /\ FetchComments(s)
    /\ UNCHANGED <<serverVars, formVars, sending, lateVars, requestVars, boundVars>>

\* Pull to refresh.
Refresh(s) ==
    /\ UserMayAct(s) /\ fetches[s] < scenario.fetches
    /\ fetches' = [fetches EXCEPT ![s] = @ + 1]
    /\ FetchComments(s)
    /\ UNCHANGED <<scenario, serverVars, visit, formVars, count, saveVars,
                   requestVars, drafts, posts, faults>>

\* A change of segment, then segChanged:.  There is another segment to choose
\* only if critiques are allowed, and then fetchComments leaves both.
ChangeSegment(s, i) ==
    /\ UserMayAct(s) /\ fetches[s] < scenario.fetches
    /\ i \in DOMAIN segments[s] \ {selected[s]}
    /\ fetches' = [fetches EXCEPT ![s] = @ + 1]
    /\ selected' = [selected EXCEPT ![s] = i]
    /\ UNCHANGED <<scenario, serverVars, visit, segments, formVars, count,
                   saveVars, requestVars, drafts, posts, faults>>

\* The user replaces what is in the text field.
Type(s) ==
    /\ UserMayAct(s) /\ drafts < MaxDrafts
    /\ drafts' = drafts + 1
    /\ field' = [field EXCEPT ![s] = drafts']
    /\ UNCHANGED <<scenario, serverVars, visit, segmentVars, markUp, count,
                   saveVars, requestVars, posts, fetches, faults>>

Draw(s) ==
    /\ UserMayAct(s) /\ drafts < MaxDrafts
    /\ drafts' = drafts + 1
    /\ markUp' = [markUp EXCEPT ![s] = drafts']
    /\ UNCHANGED <<scenario, serverVars, visit, segmentVars, field, count,
                   saveVars, requestVars, posts, fetches, faults>>

\* didComment: with text in the field.
DidComment(s) ==
    /\ UserMayAct(s) /\ posts[s] < scenario.posts
    /\ field[s] # Empty
    /\ posts' = [posts EXCEPT ![s] = @ + 1]
    /\ requests' = [requests EXCEPT ![s] = @ \cup
          {[tap |-> posts'[s], text |-> field[s], drawing |-> markUp[s],
            crit |-> PostsCritique(s)]}]
    /\ UNCHANGED <<scenario, serverVars, visit, segmentVars, formVars, count,
                   saveVars, answers, noticeVars, drafts, fetches, faults>>

-----------------------------------------------------------------------------
\* The Comment row a request asks for.
Row(r) == [id |-> Cardinality(comments) + 1, text |-> r.text,
           drawing |-> r.drawing, crit |-> r.crit]

CreateComment(s, r) ==
    /\ r \in requests[s]
    /\ comments' = comments \cup {Row(r)}
    /\ requests' = [requests EXCEPT ![s] = @ \ {r}]
    /\ answers' = [answers EXCEPT ![s] = @ \cup {r}]
    /\ UNCHANGED <<commentCount, notifs, visit, segmentVars, formVars, count,
                   saveVars, noticeVars, boundVars>>

\* The reply is lost and the request sent again: a second row.
CreateCommentTwice(s, r) ==
    /\ r \in requests[s] /\ faults < scenario.faults
    /\ faults' = faults + 1
    /\ comments' = comments \cup {Row(r)}
    /\ UNCHANGED <<commentCount, notifs, visit, segmentVars, formVars, count,
                   saveVars, requestVars, tapVars>>

\* Deviation: the callback does not look at the error.
CommentedAnyway(s, r) ==
    /\ r \in requests[s] /\ faults < scenario.faults
    /\ faults' = faults + 1
    /\ requests' = [requests EXCEPT ![s] = @ \ {r}]
    /\ answers' = [answers EXCEPT ![s] = @ \cup {r}]
    /\ UNCHANGED <<serverVars, visit, segmentVars, formVars, count, saveVars,
                   noticeVars, tapVars>>

\* The callback only logs the error; field and drawing stay for another try.
CreateCommentFails(s, r) ==
    /\ r \in requests[s] /\ faults < scenario.faults
    /\ faults' = faults + 1
    /\ requests' = [requests EXCEPT ![s] = @ \ {r}]
    /\ UNCHANGED <<serverVars, visit, segmentVars, formVars, count, saveVars,
                   answers, noticeVars, tapVars>>

\* Deviation: the count is left to the next visit.
SameCount(s) == count[s]

CountWithComment(s) == count[s] + 1

\* Deviation: the field is not emptied.
KeepForm(s) == UNCHANGED formVars

ClearForm(s) == /\ field' = [field EXCEPT ![s] = Empty]
                /\ markUp' = [markUp EXCEPT ![s] = Empty]

\* Deviation: the field is emptied before the notification is made.
EmptiedText(s, r) == Empty

\* The text of the notification: the field's when the callback runs.
NoticeText(s, r) == field[s]

\* didComment:'s callback after success.
Commented(s, r) ==
    /\ r \in answers[s]
    /\ answers' = [answers EXCEPT ![s] = @ \ {r}]
    /\ FetchComments(s)
    /\ SaveCount(s, CountWithComment(s))
    /\ notices' = IF s \in Authors THEN notices
                  ELSE [notices EXCEPT ![s] = @ \cup
                     {[tap |-> r.tap, text |-> NoticeText(s, r), crit |-> r.crit]}]
    /\ ClearForm(s)
    /\ UNCHANGED <<serverVars, visit, sending, lateVars, requests, batched, creates,
                   boundVars>>

-----------------------------------------------------------------------------
\* Saving the notification saves the post it points to first if that is dirty.
CollectNotif(s, n) ==
    /\ n \in notices[s]
    /\ notices' = [notices EXCEPT ![s] = @ \ {n}]
    /\ IF NeedsBatch(s)
       THEN /\ EnqueueBatch(s)
            /\ batched' = [batched EXCEPT ![s] = Append(@, n)]
            /\ UNCHANGED creates
       ELSE /\ creates' = [creates EXCEPT ![s] = @ \cup {n}]
            /\ UNCHANGED <<queue, batched>>
    /\ UNCHANGED <<serverVars, visit, segmentVars, formVars, count, dirty, sending,
                   lateVars, requests, answers, boundVars>>

PostSaveTurn(s) ==
    /\ SaveTurn(s)
    /\ UNCHANGED <<comments, notifs, visit, segmentVars, formVars, requestVars,
                   boundVars>>

\* The notifications wait for their batches in the order of the task queue.
PostSaveDone(s) ==
    /\ SaveDone(s)
    /\ IF sending[s].kind = "batch"
       THEN /\ creates' = [creates EXCEPT ![s] = @ \cup {Head(batched[s])}]
            /\ batched' = [batched EXCEPT ![s] = Tail(@)]
       ELSE UNCHANGED <<creates, batched>>
    /\ UNCHANGED <<comments, notifs, visit, segmentVars, formVars, requests,
                   answers, notices, boundVars>>

\* Deviation: a notification goes on waiting for a batch that has failed.
StillWaiting(s) == batched

\* The save of a notification fails with the batch it waits for.
BatchedAfterFailure(s) ==
    IF sending[s].kind = "batch" THEN [batched EXCEPT ![s] = Tail(@)] ELSE batched

PostSaveRetried(s) ==
    /\ faults < scenario.faults
    /\ faults' = faults + 1
    /\ SaveRetried(s, faults')
    /\ UNCHANGED <<comments, notifs, visit, segmentVars, formVars, requestVars,
                   tapVars>>

PostSaveFails(s) ==
    /\ faults < scenario.faults
    /\ faults' = faults + 1
    /\ SaveFails(s, faults')
    /\ batched' = BatchedAfterFailure(s)
    /\ UNCHANGED <<comments, notifs, visit, segmentVars, formVars, requests,
                   answers, notices, creates, tapVars>>

\* An attempt given up is executed after all.
PostSavedLate(a) ==
    /\ ExecuteLate(a)
    /\ UNCHANGED <<comments, notifs, visit, segmentVars, formVars, requestVars,
                   boundVars>>

NotifRow(n) == [id |-> Cardinality(notifs) + 1, text |-> n.text, crit |-> n.crit]

CreateNotif(s, n) ==
    /\ n \in creates[s]
    /\ notifs' = notifs \cup {NotifRow(n)}
    /\ creates' = [creates EXCEPT ![s] = @ \ {n}]
    /\ UNCHANGED <<commentCount, comments, visit, segmentVars, formVars, count,
                   saveVars, requests, answers, notices, batched, boundVars>>

CreateNotifTwice(s, n) ==
    /\ n \in creates[s] /\ faults < scenario.faults
    /\ faults' = faults + 1
    /\ notifs' = notifs \cup {NotifRow(n)}
    /\ UNCHANGED <<commentCount, comments, visit, segmentVars, formVars, count,
                   saveVars, requestVars, tapVars>>

CreateNotifFails(s, n) ==
    /\ n \in creates[s] /\ faults < scenario.faults
    /\ faults' = faults + 1
    /\ creates' = [creates EXCEPT ![s] = @ \ {n}]
    /\ UNCHANGED <<serverVars, visit, segmentVars, formVars, count, saveVars,
                   requests, answers, notices, batched, tapVars>>

-----------------------------------------------------------------------------
UserStep(s) ==
    \/ Open(s) \/ Refresh(s) \/ Type(s) \/ Draw(s) \/ DidComment(s)
    \/ \E i \in DOMAIN segments[s] : ChangeSegment(s, i)

\* What the SDK, the network and the server do when nothing goes wrong.
ServiceStep(s) ==
    \/ \E r \in requests[s] : CreateComment(s, r)
    \/ \E r \in answers[s] : Commented(s, r)
    \/ \E n \in notices[s] : CollectNotif(s, n)
    \/ \E n \in creates[s] : CreateNotif(s, n)
    \/ PostSaveTurn(s) \/ PostSaveDone(s)

FaultStep(s) ==
    \/ \E r \in requests[s] : CreateCommentTwice(s, r) \/ CreateCommentFails(s, r)
    \/ \E n \in creates[s] : CreateNotifTwice(s, n) \/ CreateNotifFails(s, n)
    \/ PostSaveRetried(s) \/ PostSaveFails(s)

Next ==
    \/ \E s \in Screens : UserStep(s) \/ ServiceStep(s) \/ FaultStep(s)
    \/ \E a \in abandoned : PostSavedLate(a)

Spec == Init /\ [][Next]_vars

\* Every request is answered in the end, and the task queues run.
Progress == \E s \in Screens : ServiceStep(s)
FairSpec == Spec /\ WF_vars(Progress)

-----------------------------------------------------------------------------
Drafts == 0..MaxDrafts
CommentRequest == [tap : Nat, text : Drafts, drawing : Drafts, crit : BOOLEAN]
Notice == [tap : Nat, text : Drafts, crit : BOOLEAN]

ServerOK ==
    /\ commentCount \in Int
    /\ comments \subseteq [id : Nat, text : Drafts, drawing : Drafts, crit : BOOLEAN]
    /\ notifs \subseteq [id : Nat, text : Drafts, crit : BOOLEAN]

FormOK ==
    /\ visit \in [Screens -> {"unopened", "open"}]
    /\ segments \in [Screens -> Seq({"Comments", "Critiques"})]
    /\ selected \in [Screens -> Nat]
    /\ \A s \in Screens : selected[s] <= Len(segments[s])
    /\ field \in [Screens -> Drafts] /\ markUp \in [Screens -> Drafts]

RequestsOK ==
    /\ requests \in [Screens -> SUBSET CommentRequest]
    /\ answers \in [Screens -> SUBSET CommentRequest]
    /\ notices \in [Screens -> SUBSET Notice]
    /\ creates \in [Screens -> SUBSET Notice]
    /\ batched \in [Screens -> Seq(Notice)]

\* The batches a screen's notifications wait for.
Batches(tasks) == {i \in DOMAIN tasks : tasks[i] = "batch"}
WaitsOK ==
    \A s \in Screens :
        Len(batched[s]) = Cardinality(Batches(queue[s]))
                              + IF sending[s].kind = "batch" THEN 1 ELSE 0

BoundsOK ==
    /\ scenario \in Scenarios /\ drafts \in Drafts /\ faults \in Nat
    /\ posts \in [Screens -> Nat] /\ fetches \in [Screens -> Nat]

\* The variables; one notification waits for each batch of a task queue, and
\* the selected segment, if any, exists.
TypeOK ==
    /\ ServerOK /\ FormOK /\ count \in [Screens -> Int] /\ SavesType
    /\ RequestsOK /\ WaitsOK /\ BoundsOK

Alone(s) == /\ visit[s] = "open"
            /\ \A t \in Screens \ {s} : visit[t] = "unopened"

\* A screen that is alone with the post: however its comments overlap, fail
\* or are created twice, and however late its saves are executed, the post
\* never claims more comments than there are.
CountNeverAhead ==
    \A s \in Screens : Alone(s) => commentCount <= Cardinality(comments)

\* ... and when all is quiet and no request was lost, exactly as many.
CountSettles ==
    \A s \in Screens : Alone(s) /\ faults = 0 /\ QuietScreen(s) =>
        commentCount = Cardinality(comments)

\* A user who waits for a comment to be through before touching the screen
\* gets notifications that quote the comments made: the text is that of a
\* comment of the same type.
NotifQuotesComment ==
    scenario.patient => \A n \in notifs :
        \E c \in comments : c.text = n.text /\ c.crit = n.crit

\* ... and, if no request is lost, posts no text and no drawing twice.
DraftPostedOnce ==
    scenario.patient /\ faults = 0 =>
        \A c, d \in comments : c # d =>
            /\ c.text # d.text
            /\ c.drawing = d.drawing => c.drawing = Empty

\* The poster's choice is respected: a post that allows no critiques gets none.
NoCritiqueUnlessAllowed ==
    ~CritBool => \A c \in comments : ~c.crit

\* Every comment comes to rest: request, callback, save and notification.
ComesToRest == []<>Quiet
=============================================================================
