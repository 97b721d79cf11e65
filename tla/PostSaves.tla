------------------------------ MODULE PostSaves ------------------------------
(***************************************************************************)
(* How one counter of a Post row (likeCount or commentCount) is saved from *)
(* the screens that show the post, each with a Post instance of its own.   *)
(*                                                                         *)
(* This is PFObjectSave seen from the application: one save at a time per  *)
(* instance, the snapshot taken when the turn comes, the operations of a   *)
(* failed save left to the next one.  Request and reply of a save are one  *)
(* step here, because no other save of the instance can start in between;  *)
(* an attempt that is not answered in time is retried or given up, and may *)
(* still be executed at any later time.  The instance has one more dirty   *)
(* key, numViews, that Post viewed: assigns when the screen opens.         *)
(***************************************************************************)
EXTENDS Integers, Sequences

CONSTANT Screens

VARIABLES
    stored,  \* the counter in the server's row
    shown,   \* per screen: the counter of the screen's instance
    dirty,   \* per screen: unsaved keys
    queue,   \* per screen: the task queue
    sending, \* per screen: what the save under way carries
    abandoned,  \* attempts without an answer, still on the network
    overwritten \* history: stored was last written by one of these

KeySet == {"numViews", "count"}
Idle == [kind |-> "idle", keys |-> {}, count |-> 0]

SavesInit ==
    /\ dirty = [s \in Screens |-> {}]
    /\ queue = [s \in Screens |-> <<>>]
    /\ sending = [s \in Screens |-> Idle]
    /\ abandoned = {} /\ overwritten = FALSE

SavesType ==
    /\ dirty \in [Screens -> SUBSET KeySet]
    /\ queue \in [Screens -> Seq({"save", "batch"})]
    /\ sending \in [Screens -> [kind : {"idle", "save", "batch"},
                                keys : SUBSET KeySet, count : Int]]
    /\ abandoned \subseteq [id : Nat, count : Int]
    /\ overwritten \in BOOLEAN

NoSaves(s) == queue[s] = <<>> /\ sending[s] = Idle

\* Post viewed: on a fresh instance.
SaveView(s) ==
    /\ dirty' = [dirty EXCEPT ![s] = {"numViews"}]
    /\ queue' = [queue EXCEPT ![s] = <<"save">>]

\* instance.counter = n; [instance saveInBackground]
SaveCount(s, n) ==
    /\ shown' = [shown EXCEPT ![s] = n]
    /\ dirty' = [dirty EXCEPT ![s] = @ \cup {"count"}]
    /\ queue' = [queue EXCEPT ![s] = Append(@, "save")]

\* A notification that points to the instance is about to be saved: the
\* instance is saved first, as a batch, if it is dirty.
NeedsBatch(s) == dirty[s] # {}
EnqueueBatch(s) == queue' = [queue EXCEPT ![s] = Append(@, "batch")]

\* Deviation: a save that finds nothing to save never completes its task.
StuckWhenClean(s) ==
    IF dirty[s] = {} THEN queue ELSE [queue EXCEPT ![s] = Tail(@)]

QueueAfterTurn(s) == [queue EXCEPT ![s] = Tail(@)]

\* The turn of the first task: a save with nothing left to save ends at once.
SaveTurn(s) ==
    /\ sending[s] = Idle /\ queue[s] # <<>>
    /\ queue' = QueueAfterTurn(s)
    /\ IF Head(queue[s]) = "save" /\ dirty[s] = {}
       THEN UNCHANGED <<dirty, sending>>
       ELSE /\ sending' = [sending EXCEPT ![s] =
                  [kind |-> Head(queue[s]), keys |-> dirty[s], count |-> shown[s]]]
            /\ dirty' = [dirty EXCEPT ![s] = {}]
    /\ UNCHANGED <<stored, shown, abandoned, overwritten>>

\* The server executes the save: an absolute value, whatever the row holds.
WriteCount(s) ==
    IF "count" \in sending[s].keys
    THEN stored' = sending[s].count /\ overwritten' = FALSE
    ELSE UNCHANGED <<stored, overwritten>>

SaveDone(s) ==
    /\ sending[s] # Idle
    /\ WriteCount(s)
    /\ sending' = [sending EXCEPT ![s] = Idle]
    /\ UNCHANGED <<shown, dirty, queue, abandoned>>

\* What an attempt given up leaves on the network.
Attempt(s, id) ==
    IF "count" \in sending[s].keys THEN {[id |-> id, count |-> sending[s].count]} ELSE {}

\* An attempt gets no answer: the server has executed it, or will later if ever.
Unanswered(s, id) ==
    \/ WriteCount(s) /\ UNCHANGED abandoned
    \/ /\ abandoned' = abandoned \cup Attempt(s, id)
       /\ UNCHANGED <<stored, overwritten>>

\* The command runner tries again.
SaveRetried(s, id) ==
    /\ sending[s] # Idle
    /\ Unanswered(s, id)
    /\ UNCHANGED <<shown, dirty, queue, sending>>

\* Deviation: the operations of a failed save are dropped.
DirtyOnlyNew(s) == dirty[s]

\* What stays unsaved after a failed save.
DirtyAgain(s) == dirty[s] \cup sending[s].keys

\* The save is reported as failed, whatever becomes of its last attempt.
SaveFails(s, id) ==
    /\ sending[s] # Idle
    /\ Unanswered(s, id)
    /\ sending' = [sending EXCEPT ![s] = Idle]
    /\ dirty' = [dirty EXCEPT ![s] = DirtyAgain(s)]
    /\ UNCHANGED <<shown, queue>>

\* The server executes an attempt that nobody waits for any more.
ExecuteLate(a) ==
    /\ a \in abandoned
    /\ abandoned' = abandoned \ {a}
    /\ stored' = a.count
    /\ overwritten' = TRUE
    /\ UNCHANGED <<shown, dirty, queue, sending>>
=============================================================================
