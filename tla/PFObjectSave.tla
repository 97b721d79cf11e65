---------------------------- MODULE PFObjectSave ----------------------------
(***************************************************************************)
(* One PFObject instance on one device (a Post, a Comment, the current     *)
(* User) and the row it stands for on the Parse server.                    *)
(*                                                                         *)
(* Every write of the application ends here: a property setter puts a Set  *)
(* operation into the last operation set of operationSetQueue, and a save  *)
(* is enqueued on the instance's PFTaskQueue, either by saveInBackground   *)
(* or by the save of another object that points to this one (a             *)
(* Notifications row points to its Post).  A save takes its snapshot only  *)
(* when its turn comes, sends it through a command runner that retries     *)
(* temporary errors, and on failure rolls the operations forward into the  *)
(* next operation set.                                                     *)
(*                                                                         *)
(* The instance comes from a query and itself points only to clean objects *)
(* (post.author, comment.author: nothing assigns to those instances).      *)
(***************************************************************************)
EXTENDS Naturals, Sequences

CONSTANTS
    Keys,        \* the fields of the object the application writes
    Values,      \* the values it writes
    None,        \* "this operation set does not mention the key"
    InitValue,   \* the value every field has when the instance is fetched
    MaxAttempts, \* PFCommandRunningDefaultMaxAttemptsCount (5 in the code)
    MaxWrites,   \* bound: setter calls on this instance
    MaxSaves,    \* bound: saves of this instance, own and as a child
    MaxForeign   \* bound: saves of the same row by other devices

ASSUME NoneIsNoValue == None \notin Values
ASSUME InitIsValue == InitValue \in Values
ASSUME AttemptsPositive == MaxAttempts \in Nat \ {0}

VARIABLES
    operationSetQueue, \* sets of pending operations; the last one is unsaved
    serverData,        \* what the client believes the server holds
    estimatedData,     \* the cached values the getters return
    collected,         \* parent saves that found this object dirty
    waiting,           \* the task queue: saves whose turn has not come
    command,           \* the REST command of the save whose turn it is
    row,               \* the row on the server
    abandoned,         \* requests the client gave up on, still on the network
    written,           \* history: last value the application set, per key
    overwritten,       \* history: keys of row last written by someone else
    writes, saves, foreign  \* counters for the bounds

vars == <<operationSetQueue, serverData, estimatedData, collected, waiting,
          command, row, abandoned, written, overwritten, writes, saves, foreign>>
dataVars == <<operationSetQueue, serverData, estimatedData>>
taskVars == <<collected, waiting>>
historyVars == <<written, writes, saves, foreign>>

-----------------------------------------------------------------------------
(***************************************************************************)
(* Operation sets.  The application only assigns, so every operation is a  *)
(* PFSetOperation and merging keeps the later one.                         *)
(***************************************************************************)
OperationSet == [Keys -> Values \cup {None}]
NoOps == [k \in Keys |-> None]

HasChanges(set) == \E k \in Keys : set[k] # None

\* `later` applied over `earlier`, which is either data or an operation set.
Overlay(earlier, later) ==
    [k \in Keys |-> IF later[k] = None THEN earlier[k] ELSE later[k]]

UnsavedChanges == operationSetQueue[Len(operationSetQueue)]

\* serverData with every set of the queue applied in order: for each key the
\* last set that mentions it wins.
EstimatedFrom(data, queue) ==
    [k \in Keys |->
        LET setters == {i \in DOMAIN queue : queue[i][k] # None}
        IN  IF setters = {} THEN data[k]
            ELSE queue[CHOOSE i \in setters : \A j \in setters : j <= i][k]]

\* Deviation: the rebuild ignores what is still pending.
EstimatedFromServer(data, queue) == data

\* rebuildEstimatedData: after a save that succeeded.
RebuiltEstimate(data, queue) == EstimatedFrom(data, queue)

\* Deviations: a failed save loses its operations, or lets them win over the
\* operations of the next one.
DroppedOnFailure(queue) == Tail(queue)
OlderWins(queue) == [Tail(queue) EXCEPT ![1] = Overlay(queue[2], queue[1])]

\* The queue after a failed save: its operations go under the next save's.
RolledForward(queue) == [Tail(queue) EXCEPT ![1] = Overlay(queue[1], queue[2])]

Idle == [phase |-> "idle", changes |-> NoOps, attempts |-> 0]

\* Deviation: a save does not wait for the one before it.
TurnAtOnce(kind) == waiting # <<>> /\ Head(waiting) = kind

\* It is the turn of the first task of the queue, and it is of this kind.
Turn(kind) == /\ command.phase = "idle"
              /\ waiting # <<>> /\ Head(waiting) = kind

\* Deviation: the command carries the whole object.
WholeObject == estimatedData

\* What a save sends.
Snapshot == UnsavedChanges

\* Deviations: the retries never run out, or go on below zero.
AlwaysAttemptsLeft(n) == TRUE
SameAttempts(n) == n

AttemptsLeft(n) == n > 1
NextAttempts(n) == n - 1

\* The client stops waiting for a request: one that has not been executed is
\* either lost or may still reach the server later.
GiveUpRequest ==
    abandoned' \in {abandoned,
                    IF command.phase = "request"
                    THEN abandoned \cup {command.changes} ELSE abandoned}

-----------------------------------------------------------------------------
Init ==
    /\ operationSetQueue = <<NoOps>>
    /\ serverData = [k \in Keys |-> InitValue]
    /\ estimatedData = serverData
    /\ collected = 0
    /\ waiting = <<>>
    /\ command = Idle
    /\ row = serverData
    /\ abandoned = {}
    /\ written = NoOps
    /\ overwritten = {}
    /\ writes = 0 /\ saves = 0 /\ foreign = 0

\* object.key = value
SetObject(k, v) ==
    /\ writes < MaxWrites
    /\ writes' = writes + 1
    /\ estimatedData' = [estimatedData EXCEPT ![k] = v]
    /\ operationSetQueue' =
          [operationSetQueue EXCEPT ![Len(operationSetQueue)][k] = v]
    /\ written' = [written EXCEPT ![k] = v]
    /\ UNCHANGED <<serverData, taskVars, command, row, abandoned, overwritten,
                   saves, foreign>>

\* [object saveInBackground]: the task only takes its place in the queue.
SaveInBackground ==
    /\ saves < MaxSaves
    /\ saves' = saves + 1
    /\ waiting' = Append(waiting, "save")
    /\ UNCHANGED <<dataVars, collected, command, row, abandoned, written,
                   overwritten, writes, foreign>>

\* The save of an object that points to this one looks for dirty children.
CollectAsChild ==
    /\ saves < MaxSaves
    /\ HasChanges(UnsavedChanges)
    /\ saves' = saves + 1
    /\ collected' = collected + 1
    /\ UNCHANGED <<dataVars, waiting, command, row, abandoned, written,
                   overwritten, writes, foreign>>

\* ... and later takes its place in the task queue.
EnqueueBatch ==
    /\ collected > 0
    /\ collected' = collected - 1
    /\ waiting' = Append(waiting, "batch")
    /\ UNCHANGED <<dataVars, command, row, abandoned, overwritten, historyVars>>

\* The turn of a save, and there is nothing left to save: an earlier save of
\* the queue has already taken this one's changes.
SaveAsyncClean ==
    /\ Turn("save")
    /\ ~HasChanges(UnsavedChanges)
    /\ waiting' = Tail(waiting)
    /\ UNCHANGED <<dataVars, collected, command, row, abandoned, overwritten,
                   historyVars>>

\* Snapshot the unsaved changes, push a new operation set for later writes,
\* and send the command.
StartCommand(attempts) ==
    /\ waiting' = Tail(waiting)
    /\ command' = [phase |-> "request", changes |-> Snapshot,
                   attempts |-> attempts]
    /\ operationSetQueue' = Append(operationSetQueue, NoOps)
    /\ UNCHANGED <<serverData, estimatedData, collected, row, abandoned,
                   overwritten, historyVars>>

\* The turn of a save.
SaveAsync ==
    /\ Turn("save")
    /\ HasChanges(UnsavedChanges)
    /\ StartCommand(MaxAttempts)

\* The turn of a batch save.  Whether the object is still dirty is not asked
\* again, and the batch command runs without retries.
SaveAsChild ==
    /\ Turn("batch")
    /\ StartCommand(1)

\* The server executes the update.
ServerApply ==
    /\ command.phase = "request"
    /\ row' = Overlay(row, command.changes)
    /\ overwritten' = {k \in overwritten : command.changes[k] = None}
    /\ command' = [command EXCEPT !.phase = "reply"]
    /\ UNCHANGED <<dataVars, taskVars, abandoned, historyVars>>

\* A temporary error with attempts left: the same request is sent again.
Retry ==
    /\ command.phase \in {"request", "reply"}
    /\ AttemptsLeft(command.attempts)
    /\ command' = [command EXCEPT !.phase = "request",
                                  !.attempts = NextAttempts(@)]
    /\ GiveUpRequest
    /\ UNCHANGED <<dataVars, taskVars, row, overwritten, historyVars>>

\* The save succeeded.  Its operations are taken from the head of the queue.
SaveSucceeded ==
    /\ command.phase = "reply"
    /\ command' = Idle
    /\ operationSetQueue' = Tail(operationSetQueue)
    /\ serverData' = Overlay(serverData, Head(operationSetQueue))
    /\ estimatedData' = RebuiltEstimate(serverData', operationSetQueue')
    /\ UNCHANGED <<taskVars, row, abandoned, overwritten, historyVars>>

\* The save failed for good: no attempt left, or an error that is not
\* temporary.  Nothing is scheduled; its operations go out with whatever save
\* comes next.
SaveFailed ==
    /\ command.phase \in {"request", "reply"}
    /\ command' = Idle
    /\ operationSetQueue' = RolledForward(operationSetQueue)
    /\ GiveUpRequest
    /\ UNCHANGED <<serverData, estimatedData, taskVars, row, overwritten,
                   historyVars>>

\* Another device saves the same row.
ForeignSave(k, v) ==
    /\ foreign < MaxForeign
    /\ foreign' = foreign + 1
    /\ row' = [row EXCEPT ![k] = v]
    /\ overwritten' = overwritten \cup {k}
    /\ UNCHANGED <<dataVars, taskVars, command, abandoned, written, writes,
                   saves>>

\* The server executes a request the client has given up on.
ApplyAbandoned(set) ==
    /\ set \in abandoned
    /\ row' = Overlay(row, set)
    /\ overwritten' = overwritten \cup {k \in Keys : set[k] # None}
    /\ abandoned' = abandoned \ {set}
    /\ UNCHANGED <<dataVars, taskVars, command, historyVars>>

\* What the SDK and the network do by themselves, without the application.
Progress == \/ EnqueueBatch \/ SaveAsyncClean \/ SaveAsync \/ SaveAsChild
            \/ ServerApply \/ SaveSucceeded

Next ==
    \/ \E k \in Keys, v \in Values : SetObject(k, v)
    \/ SaveInBackground
    \/ CollectAsChild
    \/ EnqueueBatch
    \/ SaveAsyncClean
    \/ SaveAsync
    \/ SaveAsChild
    \/ ServerApply
    \/ Retry
    \/ SaveSucceeded
    \/ SaveFailed
    \/ \E k \in Keys, v \in Values : ForeignSave(k, v)
    \/ \E set \in abandoned : ApplyAbandoned(set)

Spec == Init /\ [][Next]_vars

\* The task queue runs a task as soon as the previous one is over, and every
\* request is answered or times out.
FairSpec == Spec /\ WF_vars(Progress)

-----------------------------------------------------------------------------
CommandType == [phase : {"idle", "request", "reply"},
                changes : OperationSet, attempts : 0..MaxAttempts]

\* The state of the instance, its task queue and its row; in particular the
\* attempts of a command never leave 0..MaxAttempts.
TypeOK ==
    /\ operationSetQueue \in Seq(OperationSet)
    /\ serverData \in [Keys -> Values]
    /\ estimatedData \in [Keys -> Values]
    /\ collected \in Nat
    /\ waiting \in Seq({"save", "batch"})
    /\ command \in CommandType
    /\ row \in [Keys -> Values]
    /\ abandoned \subseteq OperationSet
    /\ written \in OperationSet
    /\ overwritten \subseteq Keys
    /\ writes \in Nat /\ saves \in Nat /\ foreign \in Nat

\* While a command is out, the head of operationSetQueue is exactly what the
\* command carries and one more set collects the writes made since; with no
\* command out there is one set.  _mergeAfterSaveWithResult: pops index 0
\* without looking which save has completed, so this is what makes it right.
HeadIsInFlight ==
    /\ command.phase = "idle" => Len(operationSetQueue) = 1
    /\ command.phase # "idle" =>
          /\ Len(operationSetQueue) = 2
          /\ operationSetQueue[1] = command.changes

\* A getter always returns the last value the application assigned, however
\* saves complete, fail and are retried meanwhile: rebuildEstimatedData after
\* an older save never takes a newer write back.
GettersSeeLastWrite ==
    \A k \in Keys : written[k] # None => estimatedData[k] = written[k]

\* The cached estimate is the server data with the pending operations applied,
\* also after a failed save, where _mergeAfterSaveWithResult: moves operations
\* between sets and does not rebuild the cache.
EstimateIsCurrent ==
    estimatedData = EstimatedFrom(serverData, operationSetQueue)

\* With no save under way and nothing unsaved, the row holds what the getters
\* return, except where another device or a late request has written since:
\* no assignment is dropped between the setter and the server.
SavedWhenClean ==
    command.phase = "idle" /\ ~HasChanges(UnsavedChanges) =>
        \A k \in Keys : row[k] = estimatedData[k] \/ k \in overwritten

\* A save never writes a key the application has not assigned on this
\* instance: what other devices wrote to the other fields of the row stays.
OnlyAssignedKeysSent ==
    \A k \in Keys : written[k] = None =>
        /\ command.changes[k] = None
        /\ \A i \in DOMAIN operationSetQueue : operationSetQueue[i][k] = None

\* The fields with an operation still in the queue, sent or not.
PendingKeys == {k \in Keys : \E i \in DOMAIN operationSetQueue :
                                  operationSetQueue[i][k] # None}

\* Task queue, operation sets, retries and roll-forward implement the contract
\* an application can rely on: getters change by assignments only, only pending
\* fields are written, and a field stops being pending only with the row
\* holding what its getter returns; a failed save is a stuttering step.
Contract == INSTANCE ObjectContract WITH value <- estimatedData, dirty <- PendingKeys
ImplementsContract == Contract!Spec

\* Every save that was asked for comes to an end, with or without success, so
\* the task queue never blocks the saves behind it.
SavesComplete ==
    []<>(collected = 0 /\ waiting = <<>> /\ command.phase = "idle")
=============================================================================
