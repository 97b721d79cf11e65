------------------------- MODULE PFObjectSaveProofs -------------------------
(***************************************************************************)
(* Proofs about PFObjectSave, for every set of keys and values, any number *)
(* of attempts, writes and saves.                                          *)
(*                                                                         *)
(* The argument: the task queue lets one save at a time past SaveAsync, so *)
(* operationSetQueue has one set between saves and two while a command is  *)
(* out, and the first of the two is the command's own (HeadIsInFlight).    *)
(* With at most two sets the estimate is one or two overlays, and each     *)
(* step can be followed key by key.                                        *)
(***************************************************************************)
EXTENDS PFObjectSave, SequenceTheorems, TLAPS

\* Why a difference between the row and serverData is never forgotten: either
\* someone else made it, or an operation of this instance is still pending;
\* and once the server has executed the command the row shows it.
RowIsExplained ==
    \A k \in Keys \ overwritten :
        /\ \/ row[k] = serverData[k]
           \/ \E i \in DOMAIN operationSetQueue : operationSetQueue[i][k] # None
        /\ command.phase = "reply" /\ command.changes[k] # None =>
               row[k] = command.changes[k]

IInv == /\ TypeOK
        /\ HeadIsInFlight
        /\ EstimateIsCurrent
        /\ GettersSeeLastWrite
        /\ RowIsExplained

-----------------------------------------------------------------------------
LEMMA NoOpsIsSet == NoOps \in OperationSet
BY DEF NoOps, OperationSet

\* Overlaying data gives data, overlaying an operation set gives one.
LEMMA OverlayType ==
    ASSUME NEW later \in OperationSet
    PROVE  /\ \A d \in [Keys -> Values] : Overlay(d, later) \in [Keys -> Values]
           /\ \A s \in OperationSet : Overlay(s, later) \in OperationSet
BY DEF Overlay, OperationSet

\* Overlaying is associative: applying two sets in order is applying the
\* merged set.  This is what makes a failed save invisible to the getters.
LEMMA OverlayAssociative ==
    ASSUME NEW d, NEW a \in OperationSet, NEW b \in OperationSet
    PROVE  Overlay(Overlay(d, a), b) = Overlay(d, Overlay(a, b))
BY NoneIsNoValue DEF Overlay, OperationSet

LEMMA OverlayNoOps ==
    ASSUME NEW d \in [Keys -> Values]
    PROVE  Overlay(d, NoOps) = d
BY DEF Overlay, NoOps

\* The estimate from a queue of one set, and from a queue of two.
LEMMA EstimatedFromOne ==
    ASSUME NEW d, NEW q \in Seq(OperationSet), Len(q) = 1
    PROVE  EstimatedFrom(d, q) = Overlay(d, q[1])
<1>1. DOMAIN q = {1}
  OBVIOUS
<1>2. SUFFICES ASSUME NEW k \in Keys
               PROVE  EstimatedFrom(d, q)[k] = Overlay(d, q[1])[k]
  BY DEF EstimatedFrom, Overlay
<1> DEFINE setters == {i \in DOMAIN q : q[i][k] # None}
<1>3. EstimatedFrom(d, q)[k] =
        IF setters = {} THEN d[k]
        ELSE q[CHOOSE i \in setters : \A j \in setters : j <= i][k]
  BY DEF EstimatedFrom
<1>4. CASE q[1][k] = None
  <2>1. setters = {}
    BY <1>1, <1>4
  <2> QED
    BY <2>1, <1>3, <1>4 DEF Overlay
<1>5. CASE q[1][k] # None
  <2>1. setters = {1}
    BY <1>1, <1>5
  <2>2. (CHOOSE i \in setters : \A j \in setters : j <= i) = 1
    BY <2>1
  <2> QED
    BY <2>1, <2>2, <1>3, <1>5 DEF Overlay
<1> QED
  BY <1>4, <1>5

LEMMA EstimatedFromTwo ==
    ASSUME NEW d, NEW q \in Seq(OperationSet), Len(q) = 2
    PROVE  EstimatedFrom(d, q) = Overlay(Overlay(d, q[1]), q[2])
<1>1. DOMAIN q = {1, 2}
  OBVIOUS
<1>2. SUFFICES ASSUME NEW k \in Keys
               PROVE  EstimatedFrom(d, q)[k] = Overlay(Overlay(d, q[1]), q[2])[k]
  BY DEF EstimatedFrom, Overlay
<1> DEFINE setters == {i \in DOMAIN q : q[i][k] # None}
           last == CHOOSE i \in setters : \A j \in setters : j <= i
<1>3. EstimatedFrom(d, q)[k] = IF setters = {} THEN d[k] ELSE q[last][k]
  BY DEF EstimatedFrom
<1>4. CASE q[2][k] # None
  <2>1. 2 \in setters /\ \A j \in setters : j <= 2
    BY <1>1, <1>4
  <2>2. last = 2
    <3>1. last \in setters /\ \A j \in setters : j <= last
      BY <2>1
    <3>2. last \in {1, 2}
      BY <3>1, <1>1
    <3> HIDE DEF last
    <3> QED
      BY <3>1, <3>2, <2>1
  <2> QED
    BY <2>1, <2>2, <1>3, <1>4 DEF Overlay
<1>5. CASE q[2][k] = None /\ q[1][k] # None
  <2>1. setters = {1}
    BY <1>1, <1>5
  <2>2. last = 1
    BY <2>1
  <2> QED
    BY <2>1, <2>2, <1>3, <1>5 DEF Overlay
<1>6. CASE q[2][k] = None /\ q[1][k] = None
  <2>1. setters = {}
    BY <1>1, <1>6
  <2> QED
    BY <2>1, <1>3, <1>6 DEF Overlay
<1> QED
  BY <1>4, <1>5, <1>6

-----------------------------------------------------------------------------
\* Sequences of one and of two elements.
LEMMA SeqOfOne ==
    ASSUME NEW S, NEW q \in Seq(S), Len(q) = 1
    PROVE  /\ DOMAIN q = {1} /\ q[1] \in S
           /\ \A e \in S : /\ Append(q, e) \in Seq(S)
                           /\ Len(Append(q, e)) = 2
                           /\ Append(q, e)[1] = q[1]
                           /\ Append(q, e)[2] = e
<1>1. DOMAIN q = {1}
  BY LenProperties
<1>2. q[1] \in S
  BY <1>1, ElementOfSeq
<1>3. ASSUME NEW e \in S
      PROVE  /\ Append(q, e) \in Seq(S)
             /\ Len(Append(q, e)) = 2
             /\ Append(q, e)[1] = q[1]
             /\ Append(q, e)[2] = e
  <2>1. Append(q, e) \in Seq(S)
    OBVIOUS
  <2>2. Len(Append(q, e)) = 2
    OBVIOUS
  <2>3. Append(q, e)[1] = q[1]
    OBVIOUS
  <2>4. Append(q, e)[2] = e
    <3>1. Append(q, e)[Len(q) + 1] = e
      BY AppendProperties
    <3> QED
      BY <3>1
  <2> QED
    BY <2>1, <2>2, <2>3, <2>4
<1> QED
  BY <1>1, <1>2, <1>3

LEMMA SeqOfTwo ==
    ASSUME NEW S, NEW q \in Seq(S), Len(q) = 2
    PROVE  /\ DOMAIN q = {1, 2} /\ q[1] \in S /\ q[2] \in S
           /\ Head(q) = q[1]
           /\ Tail(q) \in Seq(S) /\ Len(Tail(q)) = 1 /\ Tail(q)[1] = q[2]
           /\ DOMAIN Tail(q) = {1}
<1>1. DOMAIN q = {1, 2}
  BY LenProperties
<1>2. q[1] \in S /\ q[2] \in S
  BY ElementOfSeq
<1>3. q # << >>
  OBVIOUS
<1>4. /\ Tail(q) \in Seq(S) /\ Len(Tail(q)) = 1
      /\ \A i \in 1..Len(Tail(q)) : Tail(q)[i] = q[i+1]
  BY <1>3, HeadTailProperties
<1>5. Tail(q)[1] = q[2]
  BY <1>4
<1>6. Head(q) = q[1]
  OBVIOUS
<1>7. DOMAIN Tail(q) = {1}
  BY <1>4, SeqOfOne
<1> QED
  BY <1>1, <1>2, <1>4, <1>5, <1>6, <1>7

\* The two shapes of the queue, with the estimate each gives.
LEMMA QueueBetweenSaves ==
    ASSUME TypeOK, HeadIsInFlight, command.phase = "idle"
    PROVE  /\ Len(operationSetQueue) = 1
           /\ UnsavedChanges = operationSetQueue[1]
           /\ EstimatedFrom(serverData, operationSetQueue)
                 = Overlay(serverData, operationSetQueue[1])
<1>1. operationSetQueue \in Seq(OperationSet) /\ Len(operationSetQueue) = 1
  BY DEF TypeOK, HeadIsInFlight
<1>2. EstimatedFrom(serverData, operationSetQueue)
        = Overlay(serverData, operationSetQueue[1])
  BY <1>1, EstimatedFromOne
<1> QED
  BY <1>1, <1>2 DEF UnsavedChanges

LEMMA QueueDuringSave ==
    ASSUME TypeOK, HeadIsInFlight, command.phase # "idle"
    PROVE  /\ Len(operationSetQueue) = 2
           /\ UnsavedChanges = operationSetQueue[2]
           /\ operationSetQueue[1] = command.changes
           /\ EstimatedFrom(serverData, operationSetQueue)
                 = Overlay(Overlay(serverData, operationSetQueue[1]),
                           operationSetQueue[2])
<1>1. operationSetQueue \in Seq(OperationSet) /\ Len(operationSetQueue) = 2
  BY DEF TypeOK, HeadIsInFlight
<1>2. EstimatedFrom(serverData, operationSetQueue)
        = Overlay(Overlay(serverData, operationSetQueue[1]), operationSetQueue[2])
  BY <1>1, EstimatedFromTwo
<1> QED
  BY <1>1, <1>2 DEF UnsavedChanges, HeadIsInFlight

\* Setting a key in the last set sets it in the estimate and nowhere else.
LEMMA SetInOverlay ==
    ASSUME NEW d, NEW set \in OperationSet, NEW k \in Keys, NEW v \in Values
    PROVE  /\ [set EXCEPT ![k] = v] \in OperationSet
           /\ Overlay(d, [set EXCEPT ![k] = v])
                 = [Overlay(d, set) EXCEPT ![k] = v]
BY NoneIsNoValue DEF Overlay, OperationSet

-----------------------------------------------------------------------------
LEMMA InitIInv == Init => IInv
<1> SUFFICES ASSUME Init PROVE IInv
  OBVIOUS
<1> USE DEF Init
<1>1. NoOps \in OperationSet
  BY NoOpsIsSet
<1>2. TypeOK
  BY <1>1, InitIsValue, AttemptsPositive DEF TypeOK, CommandType, Idle
<1>3. HeadIsInFlight
  BY DEF HeadIsInFlight, Idle
<1>4. EstimateIsCurrent
  <2>1. EstimatedFrom(serverData, operationSetQueue) = Overlay(serverData, NoOps)
    <3>1. operationSetQueue \in Seq(OperationSet) /\ Len(operationSetQueue) = 1
          /\ operationSetQueue[1] = NoOps
      BY <1>1
    <3> QED
      BY <3>1, EstimatedFromOne
  <2> QED
    BY <2>1, OverlayNoOps, <1>2 DEF EstimateIsCurrent, TypeOK
<1>5. GettersSeeLastWrite
  BY DEF GettersSeeLastWrite, NoOps
<1>6. RowIsExplained
  BY DEF RowIsExplained, Idle
<1> QED
  BY <1>2, <1>3, <1>4, <1>5, <1>6 DEF IInv

\* A step that leaves the queue, the data and the row alone keeps everything
\* but, perhaps, the types of what it changes.
LEMMA DataUntouched ==
    ASSUME IInv, TypeOK',
           UNCHANGED <<dataVars, command, row, overwritten, written>>
    PROVE  IInv'
BY DEF IInv, TypeOK, dataVars, HeadIsInFlight, EstimateIsCurrent,
       GettersSeeLastWrite, RowIsExplained

LEMMA SetObjectIInv ==
    ASSUME IInv, NEW k \in Keys, NEW v \in Values, SetObject(k, v)
    PROVE  IInv'
<1> DEFINE n == Len(operationSetQueue)
           set == [UnsavedChanges EXCEPT ![k] = v]
<1>1. TypeOK /\ HeadIsInFlight /\ EstimateIsCurrent
  BY DEF IInv
<1>2. /\ n \in {1, 2}
      /\ n \in DOMAIN operationSetQueue
      /\ UnsavedChanges \in OperationSet
      /\ UnsavedChanges = operationSetQueue[n]
  <2>1. operationSetQueue \in Seq(OperationSet)
    BY <1>1 DEF TypeOK
  <2>2. CASE command.phase = "idle"
    BY <1>1, <2>1, <2>2, QueueBetweenSaves, SeqOfOne
  <2>3. CASE command.phase # "idle"
    <3>1. Len(operationSetQueue) = 2 /\ UnsavedChanges = operationSetQueue[2]
      BY <1>1, <2>3, QueueDuringSave
    <3>2. DOMAIN operationSetQueue = {1, 2} /\ operationSetQueue[2] \in OperationSet
      BY <2>1, <3>1, SeqOfTwo
    <3> QED
      BY <3>1, <3>2
  <2> QED
    BY <2>2, <2>3
<1>3. set \in OperationSet
  BY <1>2, SetInOverlay
<1>4. operationSetQueue' = [operationSetQueue EXCEPT ![n] = set]
  BY DEF SetObject, UnsavedChanges
<1>5. /\ operationSetQueue' \in Seq(OperationSet)
      /\ Len(operationSetQueue') = n
      /\ operationSetQueue'[n] = set
      /\ n = 2 => operationSetQueue'[1] = operationSetQueue[1]
  BY <1>1, <1>2, <1>3, <1>4, SMTT(20) DEF TypeOK
<1>6. TypeOK'
  <2>1. written' \in OperationSet
    BY <1>1, SetInOverlay DEF TypeOK, SetObject
  <2> QED
    BY <1>1, <1>5, <2>1 DEF TypeOK, SetObject, taskVars
<1>7. HeadIsInFlight'
  BY <1>1, <1>5 DEF HeadIsInFlight, SetObject
<1>8. EstimateIsCurrent'
  <2>0. serverData' = serverData /\ estimatedData' = [estimatedData EXCEPT ![k] = v]
    BY DEF SetObject
  <2>1. CASE n = 1
    <3>1. estimatedData = Overlay(serverData, UnsavedChanges)
      BY <1>1, <1>2, <2>1, EstimatedFromOne DEF EstimateIsCurrent, TypeOK
    <3>2. Overlay(serverData, set)
            = [Overlay(serverData, UnsavedChanges) EXCEPT ![k] = v]
      BY <1>2, SetInOverlay
    <3>3. estimatedData' = Overlay(serverData, set)
      BY <3>1, <3>2, <2>0
    <3>4. EstimatedFrom(serverData', operationSetQueue') = Overlay(serverData, set)
      BY <1>5, <2>0, <2>1, EstimatedFromOne, ZenonT(30)
    <3> QED
      BY <3>3, <3>4 DEF EstimateIsCurrent
  <2>2. CASE n = 2
    <3> DEFINE base == Overlay(serverData, operationSetQueue[1])
    <3>1. estimatedData = Overlay(base, UnsavedChanges)
      BY <1>1, <1>2, <2>2, EstimatedFromTwo DEF EstimateIsCurrent, TypeOK
    <3>2. Overlay(base, set) = [Overlay(base, UnsavedChanges) EXCEPT ![k] = v]
      BY <1>2, SetInOverlay
    <3>3. estimatedData' = Overlay(base, set)
      BY <3>1, <3>2, <2>0
    <3>4. EstimatedFrom(serverData', operationSetQueue') = Overlay(base, set)
      BY <1>5, <2>0, <2>2, EstimatedFromTwo
    <3> QED
      BY <3>3, <3>4 DEF EstimateIsCurrent
  <2> QED
    BY <1>2, <2>1, <2>2
<1>9. GettersSeeLastWrite'
  BY <1>1 DEF IInv, GettersSeeLastWrite, SetObject, TypeOK, OperationSet
<1>10. RowIsExplained'
  <2>1. SUFFICES ASSUME NEW j \in Keys \ overwritten
                 PROVE  /\ \/ row[j] = serverData[j]
                           \/ \E i \in DOMAIN operationSetQueue' :
                                 operationSetQueue'[i][j] # None
                        /\ command.phase = "reply" /\ command.changes[j] # None
                             => row[j] = command.changes[j]
    BY DEF RowIsExplained, SetObject
  <2>2. \A i \in DOMAIN operationSetQueue :
           operationSetQueue[i][j] # None => operationSetQueue'[i][j] # None
    BY <1>1, <1>2, <1>3, <1>4, NoneIsNoValue DEF TypeOK, OperationSet
  <2>3. DOMAIN operationSetQueue' = DOMAIN operationSetQueue
    BY <1>4
  <2> QED
    BY <2>2, <2>3 DEF IInv, RowIsExplained
<1> QED
  BY <1>6, <1>7, <1>8, <1>9, <1>10 DEF IInv

LEMMA StartCommandIInv ==
    ASSUME IInv, NEW kind, Turn(kind), NEW n \in 1..MaxAttempts,
           StartCommand(n)
    PROVE  IInv'
<1>1. TypeOK /\ HeadIsInFlight /\ EstimateIsCurrent /\ command.phase = "idle"
  BY DEF IInv, Turn
<1> DEFINE q == operationSetQueue
<1>2. /\ Len(q) = 1 /\ DOMAIN q = {1}
      /\ q[1] \in OperationSet
      /\ UnsavedChanges = q[1]
      /\ operationSetQueue' \in Seq(OperationSet)
      /\ Len(operationSetQueue') = 2
      /\ operationSetQueue'[1] = q[1]
      /\ operationSetQueue'[2] = NoOps
      /\ estimatedData = Overlay(serverData, q[1])
  <2>1. q \in Seq(OperationSet) /\ NoOps \in OperationSet
    BY <1>1, NoOpsIsSet DEF TypeOK
  <2> QED
    BY <1>1, <2>1, QueueBetweenSaves, SeqOfOne
       DEF StartCommand, EstimateIsCurrent
<1>3. command' = [phase |-> "request", changes |-> q[1], attempts |-> n]
  BY <1>2 DEF StartCommand, Snapshot
<1>4. TypeOK'
  <2>1. command' \in CommandType
    BY <1>2, <1>3, AttemptsPositive DEF CommandType
  <2>2. waiting' \in Seq({"save", "batch"})
    BY <1>1 DEF TypeOK, StartCommand, Turn
  <2> QED
    BY <1>1, <1>2, <2>1, <2>2 DEF TypeOK, StartCommand, historyVars
<1>5. HeadIsInFlight'
  BY <1>2, <1>3 DEF HeadIsInFlight
<1>6. EstimateIsCurrent'
  <2>1. EstimatedFrom(serverData, operationSetQueue')
          = Overlay(Overlay(serverData, q[1]), NoOps)
    BY <1>2, EstimatedFromTwo
  <2>2. Overlay(serverData, q[1]) \in [Keys -> Values]
    BY <1>1, <1>2, OverlayType DEF TypeOK
  <2> QED
    BY <1>2, <2>1, <2>2, OverlayNoOps DEF EstimateIsCurrent, StartCommand
<1>7. GettersSeeLastWrite'
  BY DEF IInv, GettersSeeLastWrite, StartCommand, historyVars
<1>8. RowIsExplained'
  <2>1. 1 \in DOMAIN operationSetQueue'
    BY <1>2
  <2> QED
    BY <1>2, <1>3, <2>1 DEF IInv, RowIsExplained, StartCommand
<1> QED
  BY <1>4, <1>5, <1>6, <1>7, <1>8 DEF IInv

LEMMA ServerApplyIInv == IInv /\ ServerApply => IInv'
<1> SUFFICES ASSUME IInv, ServerApply PROVE IInv'
  OBVIOUS
<1>1. TypeOK /\ HeadIsInFlight /\ command.phase = "request"
  BY DEF IInv, ServerApply
<1> DEFINE changes == command.changes
<1>2. /\ changes \in OperationSet
      /\ command' = [command EXCEPT !.phase = "reply"]
      /\ command'.phase = "reply" /\ command'.changes = changes
      /\ row' = Overlay(row, changes)
  BY <1>1 DEF TypeOK, CommandType, ServerApply
<1>3. TypeOK'
  <2>1. row' \in [Keys -> Values]
    BY <1>1, <1>2, OverlayType DEF TypeOK
  <2>2. command' \in CommandType
    BY <1>1, <1>2 DEF TypeOK, CommandType
  <2> QED
    BY <1>1, <2>1, <2>2
       DEF TypeOK, ServerApply, dataVars, taskVars, historyVars
<1>4. HeadIsInFlight'
  BY <1>1, <1>2 DEF HeadIsInFlight, ServerApply, dataVars
<1>5. EstimateIsCurrent' /\ GettersSeeLastWrite'
  BY DEF IInv, EstimateIsCurrent, GettersSeeLastWrite, ServerApply, dataVars,
         historyVars
<1>6. RowIsExplained'
  <2>1. 1 \in DOMAIN operationSetQueue /\ operationSetQueue[1] = changes
    <3>1. operationSetQueue \in Seq(OperationSet)
      BY <1>1 DEF TypeOK
    <3> QED
      BY <1>1, <3>1, QueueDuringSave, SeqOfTwo
  <2>2. SUFFICES ASSUME NEW k \in Keys \ overwritten'
                 PROVE  /\ \/ row'[k] = serverData[k]
                           \/ \E i \in DOMAIN operationSetQueue :
                                 operationSetQueue[i][k] # None
                        /\ changes[k] # None => row'[k] = changes[k]
    BY <1>2 DEF RowIsExplained, ServerApply, dataVars
  <2>3. CASE changes[k] # None
    BY <1>2, <2>1, <2>3 DEF Overlay
  <2>4. CASE changes[k] = None
    BY <1>2, <2>4 DEF Overlay, IInv, RowIsExplained, ServerApply
  <2> QED
    BY <2>3, <2>4
<1> QED
  BY <1>3, <1>4, <1>5, <1>6 DEF IInv

LEMMA RetryIInv == IInv /\ Retry => IInv'
<1> SUFFICES ASSUME IInv, Retry PROVE IInv'
  OBVIOUS
<1>1. TypeOK /\ HeadIsInFlight /\ command.phase \in {"request", "reply"}
  BY DEF IInv, Retry
<1>2. /\ command' = [command EXCEPT !.phase = "request",
                                   !.attempts = command.attempts - 1]
      /\ command.attempts > 1
  BY DEF Retry, NextAttempts, AttemptsLeft
<1>3. /\ command' \in CommandType
      /\ command'.phase = "request" /\ command'.changes = command.changes
  <2>1. /\ command \in CommandType
        /\ command.attempts \in 0..MaxAttempts
        /\ command.changes \in OperationSet
    BY <1>1 DEF TypeOK, CommandType
  <2>2. command.attempts - 1 \in 0..MaxAttempts
    BY <2>1, <1>2, AttemptsPositive
  <2>3. command' = [phase |-> "request", changes |-> command.changes,
                    attempts |-> command.attempts - 1]
    BY <2>1, <1>2 DEF CommandType
  <2> QED
    BY <2>1, <2>2, <2>3 DEF CommandType
<1>4. TypeOK'
  <2>1. abandoned' \subseteq OperationSet
    BY <1>1 DEF TypeOK, CommandType, Retry, GiveUpRequest
  <2> QED
    BY <1>1, <1>3, <2>1 DEF TypeOK, Retry, dataVars, taskVars, historyVars
<1>5. HeadIsInFlight'
  BY <1>1, <1>3 DEF HeadIsInFlight, Retry, dataVars
<1>6. EstimateIsCurrent' /\ GettersSeeLastWrite'
  BY DEF IInv, EstimateIsCurrent, GettersSeeLastWrite, Retry, dataVars,
         historyVars
<1>7. RowIsExplained'
  BY <1>3 DEF IInv, RowIsExplained, Retry, dataVars
<1> QED
  BY <1>4, <1>5, <1>6, <1>7 DEF IInv

LEMMA SaveSucceededIInv == IInv /\ SaveSucceeded => IInv'
<1> SUFFICES ASSUME IInv, SaveSucceeded PROVE IInv'
  OBVIOUS
<1> DEFINE q == operationSetQueue
<1>1. TypeOK /\ HeadIsInFlight /\ EstimateIsCurrent /\ command.phase = "reply"
  BY DEF IInv, SaveSucceeded
<1>2. /\ q \in Seq(OperationSet) /\ Len(q) = 2 /\ DOMAIN q = {1, 2}
      /\ q[1] \in OperationSet /\ q[2] \in OperationSet
      /\ q[1] = command.changes
      /\ Head(q) = q[1]
      /\ Tail(q) \in Seq(OperationSet) /\ Len(Tail(q)) = 1
      /\ DOMAIN Tail(q) = {1} /\ Tail(q)[1] = q[2]
      /\ estimatedData = Overlay(Overlay(serverData, q[1]), q[2])
  <2>1. q \in Seq(OperationSet)
    BY <1>1 DEF TypeOK
  <2>2. Len(q) = 2 /\ q[1] = command.changes
        /\ estimatedData = Overlay(Overlay(serverData, q[1]), q[2])
    BY <1>1, QueueDuringSave DEF EstimateIsCurrent
  <2> QED
    BY <2>1, <2>2, SeqOfTwo
<1>3. /\ operationSetQueue' = Tail(q)
      /\ serverData' = Overlay(serverData, q[1])
      /\ estimatedData' = EstimatedFrom(serverData', operationSetQueue')
      /\ command' = Idle
      /\ UNCHANGED <<taskVars, row, abandoned, overwritten, historyVars>>
  BY <1>2 DEF SaveSucceeded, RebuiltEstimate
<1>4. estimatedData' = estimatedData
  <2>1. EstimatedFrom(serverData', Tail(q)) = Overlay(serverData', q[2])
    BY <1>2, EstimatedFromOne
  <2> QED
    BY <2>1, <1>2, <1>3
<1>5. TypeOK'
  <2>1. serverData' \in [Keys -> Values]
    BY <1>1, <1>2, <1>3, OverlayType DEF TypeOK
  <2>2. command' \in CommandType
    BY <1>3, NoOpsIsSet, AttemptsPositive DEF CommandType, Idle
  <2> QED
    BY <1>1, <1>2, <1>3, <1>4, <2>1, <2>2 DEF TypeOK, taskVars, historyVars
<1>6. HeadIsInFlight'
  BY <1>2, <1>3 DEF HeadIsInFlight, Idle
<1>7. EstimateIsCurrent'
  BY <1>3 DEF EstimateIsCurrent
<1>8. GettersSeeLastWrite'
  BY <1>3, <1>4 DEF IInv, GettersSeeLastWrite, historyVars
<1>9. RowIsExplained'
  <2>1. SUFFICES ASSUME NEW k \in Keys \ overwritten
                 PROVE  \/ row[k] = serverData'[k]
                        \/ \E i \in {1} : Tail(q)[i][k] # None
    BY <1>2, <1>3 DEF RowIsExplained, Idle
  <2>2. CASE q[1][k] # None
    <3>1. row[k] = q[1][k]
      BY <1>1, <1>2, <2>2 DEF IInv, RowIsExplained
    <3> QED
      BY <3>1, <1>3, <2>2 DEF Overlay
  <2>3. CASE q[1][k] = None
    <3>1. serverData'[k] = serverData[k]
      BY <1>3, <2>3 DEF Overlay
    <3>2. row[k] = serverData[k] \/ q[2][k] # None
      BY <1>2, <2>3 DEF IInv, RowIsExplained
    <3> QED
      BY <3>1, <3>2, <1>2
  <2> QED
    BY <2>2, <2>3
<1> QED
  BY <1>5, <1>6, <1>7, <1>8, <1>9 DEF IInv

LEMMA SaveFailedIInv == IInv /\ SaveFailed => IInv'
<1> SUFFICES ASSUME IInv, SaveFailed PROVE IInv'
  OBVIOUS
<1> DEFINE q == operationSetQueue
           merged == Overlay(q[1], q[2])
<1>1. /\ TypeOK /\ HeadIsInFlight /\ EstimateIsCurrent
      /\ command.phase \in {"request", "reply"}
  BY DEF IInv, SaveFailed
<1>2. /\ q \in Seq(OperationSet) /\ Len(q) = 2 /\ DOMAIN q = {1, 2}
      /\ q[1] \in OperationSet /\ q[2] \in OperationSet
      /\ Tail(q) \in Seq(OperationSet) /\ Len(Tail(q)) = 1
      /\ DOMAIN Tail(q) = {1}
      /\ estimatedData = Overlay(Overlay(serverData, q[1]), q[2])
  <2>1. q \in Seq(OperationSet)
    BY <1>1 DEF TypeOK
  <2>2. /\ Len(q) = 2
        /\ estimatedData = Overlay(Overlay(serverData, q[1]), q[2])
    BY <1>1, QueueDuringSave DEF EstimateIsCurrent
  <2> QED
    BY <2>1, <2>2, SeqOfTwo
<1>3. merged \in OperationSet
  BY <1>2, OverlayType
<1>4. operationSetQueue' = [Tail(q) EXCEPT ![1] = merged]
  BY DEF SaveFailed, RolledForward
<1>5. /\ operationSetQueue' \in Seq(OperationSet)
      /\ Len(operationSetQueue') = 1
      /\ DOMAIN operationSetQueue' = {1}
      /\ operationSetQueue'[1] = merged
  <2> DEFINE t == Tail(q)
  <2>1. /\ t \in Seq(OperationSet) /\ Len(t) = 1 /\ DOMAIN t = {1}
        /\ operationSetQueue' = [t EXCEPT ![1] = merged]
    BY <1>2, <1>4
  <2> HIDE DEF t, merged
  <2> QED
    BY <2>1, <1>3
<1>6. TypeOK'
  <2>1. command' \in CommandType
    BY NoOpsIsSet, AttemptsPositive DEF CommandType, Idle, SaveFailed
  <2>2. abandoned' \subseteq OperationSet
    BY <1>1 DEF TypeOK, CommandType, SaveFailed, GiveUpRequest
  <2> QED
    BY <1>1, <1>5, <2>1, <2>2 DEF TypeOK, SaveFailed, taskVars, historyVars
<1>7. HeadIsInFlight'
  BY <1>5 DEF HeadIsInFlight, SaveFailed, Idle
<1>8. EstimateIsCurrent'
  <2>1. EstimatedFrom(serverData, operationSetQueue') = Overlay(serverData, merged)
    BY <1>5, EstimatedFromOne
  <2>2. Overlay(serverData, merged) = Overlay(Overlay(serverData, q[1]), q[2])
    BY <1>2, OverlayAssociative
  <2> QED
    BY <1>2, <2>1, <2>2 DEF EstimateIsCurrent, SaveFailed
<1>9. GettersSeeLastWrite'
  BY DEF IInv, GettersSeeLastWrite, SaveFailed, historyVars
<1>10. RowIsExplained'
  <2>1. SUFFICES ASSUME NEW k \in Keys \ overwritten, row[k] # serverData[k]
                 PROVE  operationSetQueue'[1][k] # None
    BY <1>5 DEF RowIsExplained, SaveFailed, Idle
  <2>2. q[1][k] # None \/ q[2][k] # None
    BY <1>2, <2>1 DEF IInv, RowIsExplained
  <2> QED
    BY <1>5, <2>2 DEF Overlay
<1> QED
  BY <1>6, <1>7, <1>8, <1>9, <1>10 DEF IInv

LEMMA ForeignSaveIInv ==
    ASSUME IInv, NEW k \in Keys, NEW v \in Values, ForeignSave(k, v)
    PROVE  IInv'
<1>1. TypeOK'
  BY DEF IInv, TypeOK, ForeignSave, dataVars, taskVars
<1>2. HeadIsInFlight' /\ EstimateIsCurrent' /\ GettersSeeLastWrite'
  BY DEF IInv, HeadIsInFlight, EstimateIsCurrent, GettersSeeLastWrite,
         ForeignSave, dataVars
<1>3. RowIsExplained'
  BY DEF IInv, TypeOK, RowIsExplained, ForeignSave, dataVars
<1> QED
  BY <1>1, <1>2, <1>3 DEF IInv

LEMMA ApplyAbandonedIInv ==
    ASSUME IInv, NEW set \in abandoned, ApplyAbandoned(set)
    PROVE  IInv'
<1>1. set \in OperationSet
  BY DEF IInv, TypeOK
<1>2. TypeOK'
  <2>1. row' \in [Keys -> Values]
    BY <1>1, OverlayType DEF IInv, TypeOK, ApplyAbandoned
  <2> QED
    BY <2>1 DEF IInv, TypeOK, ApplyAbandoned, dataVars, taskVars, historyVars
<1>3. HeadIsInFlight' /\ EstimateIsCurrent' /\ GettersSeeLastWrite'
  BY DEF IInv, HeadIsInFlight, EstimateIsCurrent, GettersSeeLastWrite,
         ApplyAbandoned, dataVars, historyVars
<1>4. RowIsExplained'
  BY DEF IInv, RowIsExplained, ApplyAbandoned, Overlay, dataVars
<1> QED
  BY <1>2, <1>3, <1>4 DEF IInv

LEMMA NextIInv == IInv /\ [Next]_vars => IInv'
<1> SUFFICES ASSUME IInv, [Next]_vars PROVE IInv'
  OBVIOUS
<1>0. TypeOK
  BY DEF IInv
<1>1. ASSUME NEW k \in Keys, NEW v \in Values, SetObject(k, v) PROVE IInv'
  BY <1>1, SetObjectIInv
<1>2. CASE SaveInBackground
  <2>1. TypeOK'
    BY <1>0, <1>2 DEF TypeOK, SaveInBackground, dataVars
  <2> QED
    BY <1>2, <2>1, DataUntouched DEF SaveInBackground
<1>3. CASE CollectAsChild
  <2>1. TypeOK'
    BY <1>0, <1>3 DEF TypeOK, CollectAsChild, dataVars
  <2> QED
    BY <1>3, <2>1, DataUntouched DEF CollectAsChild
<1>4. CASE EnqueueBatch
  <2>1. TypeOK'
    BY <1>0, <1>4 DEF TypeOK, EnqueueBatch, dataVars, historyVars
  <2> QED
    BY <1>4, <2>1, DataUntouched DEF EnqueueBatch, historyVars
<1>5. CASE SaveAsyncClean
  <2>1. TypeOK'
    BY <1>0, <1>5 DEF TypeOK, SaveAsyncClean, Turn, dataVars, historyVars
  <2> QED
    BY <1>5, <2>1, DataUntouched DEF SaveAsyncClean, historyVars
<1>6. CASE SaveAsync
  BY <1>6, AttemptsPositive, StartCommandIInv DEF SaveAsync
<1>7. CASE SaveAsChild
  BY <1>7, AttemptsPositive, StartCommandIInv DEF SaveAsChild
<1>8. CASE ServerApply
  BY <1>8, ServerApplyIInv
<1>9. CASE Retry
  BY <1>9, RetryIInv
<1>10. CASE SaveSucceeded
  BY <1>10, SaveSucceededIInv
<1>11. CASE SaveFailed
  BY <1>11, SaveFailedIInv
<1>12. ASSUME NEW k \in Keys, NEW v \in Values, ForeignSave(k, v) PROVE IInv'
  BY <1>12, ForeignSaveIInv
<1>13. ASSUME NEW set \in abandoned, ApplyAbandoned(set) PROVE IInv'
  BY <1>13, ApplyAbandonedIInv
<1>14. CASE UNCHANGED vars
  <2>1. TypeOK'
    BY <1>0, <1>14 DEF TypeOK, vars
  <2> QED
    BY <1>14, <2>1, DataUntouched DEF vars, dataVars
<1> QED
  BY <1>1, <1>2, <1>3, <1>4, <1>5, <1>6, <1>7, <1>8, <1>9, <1>10, <1>11,
     <1>12, <1>13, <1>14 DEF Next

\* Between saves the row and the estimate can differ only where someone else
\* has written or an operation is still pending.
LEMMA IInvImpliesSavedWhenClean == IInv => SavedWhenClean
<1> SUFFICES ASSUME IInv, command.phase = "idle", ~HasChanges(UnsavedChanges),
                    NEW k \in Keys, k \notin overwritten
             PROVE  row[k] = estimatedData[k]
  BY DEF SavedWhenClean
<1>1. TypeOK /\ HeadIsInFlight /\ EstimateIsCurrent
  BY DEF IInv
<1>2. /\ DOMAIN operationSetQueue = {1}
      /\ operationSetQueue[1][k] = None
      /\ estimatedData[k] = serverData[k]
  <2>1. operationSetQueue \in Seq(OperationSet)
    BY <1>1 DEF TypeOK
  <2>2. Len(operationSetQueue) = 1 /\ operationSetQueue[1][k] = None
    BY <1>1, QueueBetweenSaves DEF HasChanges
  <2>3. estimatedData = Overlay(serverData, operationSetQueue[1])
    BY <1>1, QueueBetweenSaves DEF EstimateIsCurrent
  <2> QED
    BY <2>1, <2>2, <2>3, SeqOfOne DEF Overlay
<1>3. row[k] = serverData[k]
  BY <1>2 DEF IInv, RowIsExplained
<1> QED
  BY <1>2, <1>3

-----------------------------------------------------------------------------
LEMMA InductiveInvariant == Spec => []IInv
<1>1. Init => IInv
  BY InitIInv
<1>2. IInv /\ [Next]_vars => IInv'
  BY NextIInv
<1> QED
  BY <1>1, <1>2, PTL DEF Spec

\* The variables keep their types; a command never runs out of range of its
\* attempts.
THEOREM TypeCorrect == Spec => []TypeOK
<1>1. IInv => TypeOK
  BY DEF IInv
<1> QED
  BY <1>1, InductiveInvariant, PTL

\* _mergeAfterSaveWithResult: always pops the operations of the save that has
\* just ended, however saves, batch saves, retries and failures interleave.
THEOREM HeadOfQueueIsInFlight == Spec => []HeadIsInFlight
<1>1. IInv => HeadIsInFlight
  BY DEF IInv
<1> QED
  BY <1>1, InductiveInvariant, PTL

\* The getters' cache is current although a failed save does not rebuild it.
THEOREM CacheIsCurrent == Spec => []EstimateIsCurrent
<1>1. IInv => EstimateIsCurrent
  BY DEF IInv
<1> QED
  BY <1>1, InductiveInvariant, PTL

\* Getters return the last value assigned, whatever happens to older saves.
THEOREM ReadYourWrites == Spec => []GettersSeeLastWrite
<1>1. IInv => GettersSeeLastWrite
  BY DEF IInv
<1> QED
  BY <1>1, InductiveInvariant, PTL

\* No assignment is lost between the setter and the server's row.
THEOREM NoWriteLost == Spec => []SavedWhenClean
<1>1. IInv => SavedWhenClean
  BY IInvImpliesSavedWhenClean
<1> QED
  BY <1>1, InductiveInvariant, PTL
-----------------------------------------------------------------------------
(***************************************************************************)
(* What is sent.  A key enters an operation set only through its setter:   *)
(* starting a command moves a set, and ending one drops it or merges it.   *)
(***************************************************************************)
LEMMA InitOnlyAssigned == Init => OnlyAssignedKeysSent
BY DEF Init, OnlyAssignedKeysSent, Idle, NoOps

LEMMA StartCommandOnlyAssigned ==
    ASSUME IInv, OnlyAssignedKeysSent, command.phase = "idle",
           NEW n, StartCommand(n)
    PROVE  OnlyAssignedKeysSent'
<1> USE DEF OnlyAssignedKeysSent
<1> SUFFICES ASSUME NEW k \in Keys, written'[k] = None
             PROVE  /\ command'.changes[k] = None
                    /\ \A i \in DOMAIN operationSetQueue' :
                           operationSetQueue'[i][k] = None
  OBVIOUS
<1>1. operationSetQueue \in Seq(OperationSet) /\ Len(operationSetQueue) = 1
  BY QueueBetweenSaves DEF IInv, TypeOK
<1>2. written' = written /\ operationSetQueue[1][k] = None
  BY <1>1, SeqOfOne DEF StartCommand, historyVars
<1>3. command'.changes = operationSetQueue[1]
  BY QueueBetweenSaves DEF StartCommand, Snapshot, IInv
<1>4. /\ operationSetQueue' \in Seq(OperationSet) /\ Len(operationSetQueue') = 2
      /\ operationSetQueue'[1] = operationSetQueue[1]
      /\ operationSetQueue'[2] = NoOps
  BY <1>1, SeqOfOne, NoOpsIsSet DEF StartCommand
<1>5. DOMAIN operationSetQueue' = {1, 2}
  BY <1>4, SeqOfTwo
<1> QED
  BY <1>2, <1>3, <1>4, <1>5 DEF NoOps

LEMMA EndOfCommandOnlyAssigned ==
    ASSUME IInv, OnlyAssignedKeysSent, SaveSucceeded \/ SaveFailed
    PROVE  OnlyAssignedKeysSent'
<1> USE DEF OnlyAssignedKeysSent
<1> SUFFICES ASSUME NEW k \in Keys, written'[k] = None
             PROVE  /\ command'.changes[k] = None
                    /\ \A i \in DOMAIN operationSetQueue' :
                           operationSetQueue'[i][k] = None
  OBVIOUS
<1>1. command.phase # "idle"
  BY DEF SaveSucceeded, SaveFailed
<1>2. operationSetQueue \in Seq(OperationSet) /\ Len(operationSetQueue) = 2
  BY <1>1, QueueDuringSave DEF IInv, TypeOK
<1>3. /\ DOMAIN operationSetQueue = {1, 2}
      /\ Tail(operationSetQueue) \in Seq(OperationSet)
      /\ DOMAIN Tail(operationSetQueue) = {1}
      /\ Tail(operationSetQueue)[1] = operationSetQueue[2]
  BY <1>2, SeqOfTwo
<1>4. written[k] = None /\ command'.changes[k] = None
  BY DEF SaveSucceeded, SaveFailed, historyVars, Idle, NoOps
<1>5. operationSetQueue[1][k] = None /\ operationSetQueue[2][k] = None
  BY <1>3, <1>4
<1>6. CASE SaveSucceeded
  BY <1>3, <1>4, <1>5, <1>6 DEF SaveSucceeded
<1>7. CASE SaveFailed
  <2>1. /\ DOMAIN operationSetQueue' = {1}
        /\ operationSetQueue'[1] = Overlay(operationSetQueue[1], operationSetQueue[2])
    BY <1>3, <1>7 DEF SaveFailed, RolledForward
  <2>2. Overlay(operationSetQueue[1], operationSetQueue[2])[k] = None
    BY <1>5 DEF Overlay
  <2> QED
    BY <1>4, <2>1, <2>2
<1> QED
  BY <1>6, <1>7

LEMMA SetObjectOnlyAssigned ==
    ASSUME IInv, OnlyAssignedKeysSent, NEW j \in Keys, NEW v \in Values,
           SetObject(j, v)
    PROVE  OnlyAssignedKeysSent'
<1> USE DEF OnlyAssignedKeysSent
<1> SUFFICES ASSUME NEW k \in Keys, written'[k] = None
             PROVE  /\ command'.changes[k] = None
                    /\ \A i \in DOMAIN operationSetQueue' :
                           operationSetQueue'[i][k] = None
  OBVIOUS
<1>1. /\ operationSetQueue \in Seq(OperationSet)
      /\ written \in [Keys -> Values \cup {None}]
  BY DEF IInv, TypeOK, OperationSet
<1>2. k # j /\ written[k] = None
  BY <1>1, NoneIsNoValue DEF SetObject
<1>3. /\ DOMAIN operationSetQueue' = DOMAIN operationSetQueue
      /\ \A i \in DOMAIN operationSetQueue :
             operationSetQueue'[i][k] = operationSetQueue[i][k]
  <2>1. \A i \in DOMAIN operationSetQueue : operationSetQueue[i] \in OperationSet
    BY <1>1, ElementOfSeq
  <2> QED
    BY <2>1, <1>2 DEF SetObject, OperationSet
<1> QED
  BY <1>2, <1>3 DEF SetObject

LEMMA NextOnlyAssigned ==
    IInv /\ OnlyAssignedKeysSent /\ [Next]_vars => OnlyAssignedKeysSent'
<1> SUFFICES ASSUME IInv, OnlyAssignedKeysSent, [Next]_vars
             PROVE  OnlyAssignedKeysSent'
  OBVIOUS
<1>1. ASSUME NEW k \in Keys, NEW v \in Values, SetObject(k, v)
      PROVE  OnlyAssignedKeysSent'
  BY <1>1, SetObjectOnlyAssigned
<1>2. CASE SaveAsync \/ SaveAsChild
  BY <1>2, StartCommandOnlyAssigned DEF SaveAsync, SaveAsChild, Turn
<1>3. CASE SaveSucceeded \/ SaveFailed
  BY <1>3, EndOfCommandOnlyAssigned
<1>4. ASSUME UNCHANGED <<operationSetQueue, written>>,
             command'.changes = command.changes
      PROVE  OnlyAssignedKeysSent'
  BY <1>4 DEF OnlyAssignedKeysSent
<1>5. CASE ServerApply \/ Retry
  <2>1. command'.changes = command.changes
    BY <1>5 DEF ServerApply, Retry, IInv, TypeOK, CommandType
  <2> QED
    BY <1>4, <1>5, <2>1 DEF ServerApply, Retry, dataVars, historyVars
<1>6. CASE \/ SaveInBackground \/ CollectAsChild \/ EnqueueBatch \/ SaveAsyncClean
           \/ UNCHANGED vars
           \/ \E k \in Keys, v \in Values : ForeignSave(k, v)
           \/ \E set \in abandoned : ApplyAbandoned(set)
  BY <1>4, <1>6 DEF SaveInBackground, CollectAsChild, EnqueueBatch,
     SaveAsyncClean, ForeignSave, ApplyAbandoned, vars, dataVars, historyVars
<1> QED
  BY <1>1, <1>2, <1>3, <1>5, <1>6 DEF Next

\* A save carries only keys that were assigned on this instance, so fields that
\* other devices write stay theirs.
THEOREM NothingElseSent == Spec => []OnlyAssignedKeysSent
<1>1. Init => OnlyAssignedKeysSent
  BY InitOnlyAssigned
<1>2. IInv /\ OnlyAssignedKeysSent /\ [Next]_vars => OnlyAssignedKeysSent'
  BY NextOnlyAssigned
<1> QED
  BY <1>1, <1>2, InductiveInvariant, PTL DEF Spec

-----------------------------------------------------------------------------
(***************************************************************************)
(* PFObjectSave implements ObjectContract.                                 *)
(*                                                                         *)
(* The mapping: the contract's value is the estimate, and a field is dirty *)
(* while an operation on it is anywhere in the queue.  Starting a command, *)
(* retrying it and failing it move operations between the sets of the      *)
(* queue, so they are stuttering steps; the four steps that are not are    *)
(* followed key by key, with the inductive invariant above saying which    *)
(* set the command carries and what the row holds.                         *)
(***************************************************************************)
\* Which keys are pending, for the two shapes of the queue.
LEMMA PendingInOne ==
    ASSUME NEW q \in Seq(OperationSet), Len(q) = 1, operationSetQueue = q
    PROVE  PendingKeys = {k \in Keys : q[1][k] # None}
<1>1. DOMAIN q = {1}
  BY SeqOfOne
<1> QED
  BY <1>1 DEF PendingKeys

LEMMA PendingInTwo ==
    ASSUME NEW q \in Seq(OperationSet), Len(q) = 2, operationSetQueue = q
    PROVE  PendingKeys = {k \in Keys : q[1][k] # None \/ q[2][k] # None}
<1>1. DOMAIN q = {1, 2}
  BY SeqOfTwo
<1> QED
  BY <1>1 DEF PendingKeys

\* Pending keys after a step, from the queue after it.
LEMMA PendingAfterOne ==
    ASSUME operationSetQueue' \in Seq(OperationSet), Len(operationSetQueue') = 1
    PROVE  PendingKeys' = {k \in Keys : operationSetQueue'[1][k] # None}
<1>1. DOMAIN operationSetQueue' = {1}
  BY SeqOfOne
<1> QED
  BY <1>1 DEF PendingKeys

LEMMA PendingAfterTwo ==
    ASSUME operationSetQueue' \in Seq(OperationSet), Len(operationSetQueue') = 2
    PROVE  PendingKeys' = {k \in Keys : \/ operationSetQueue'[1][k] # None
                                        \/ operationSetQueue'[2][k] # None}
<1>1. DOMAIN operationSetQueue' = {1, 2}
  BY SeqOfTwo
<1> QED
  BY <1>1 DEF PendingKeys

LEMMA FirstReplaced ==
    ASSUME NEW S, NEW t \in Seq(S), Len(t) = 1, NEW e \in S
    PROVE  /\ [t EXCEPT ![1] = e] \in Seq(S)
           /\ Len([t EXCEPT ![1] = e]) = 1
           /\ [t EXCEPT ![1] = e][1] = e
OBVIOUS

\* A step that touches neither the queue nor the estimate nor the row.
LEMMA UntouchedStutters ==
    ASSUME UNCHANGED <<operationSetQueue, estimatedData, row, overwritten>>
    PROVE  UNCHANGED Contract!vars
BY DEF Contract!vars, PendingKeys

-----------------------------------------------------------------------------
LEMMA InitMapsToInit == Init => Contract!Init
<1> SUFFICES ASSUME Init PROVE Contract!Init
  OBVIOUS
<1>1. estimatedData \in [Keys -> Values] /\ row = estimatedData
  BY InitIsValue DEF Init
<1>2. PendingKeys = {}
  <2>1. /\ operationSetQueue \in Seq(OperationSet)
        /\ Len(operationSetQueue) = 1 /\ operationSetQueue[1] = NoOps
    BY NoOpsIsSet DEF Init
  <2> QED
    BY <2>1, PendingInOne DEF NoOps
<1> QED
  BY <1>1, <1>2 DEF Contract!Init, Init

\* The setter changes the last set of the queue, whichever of the two shapes
\* the queue has.
LEMMA SetObjectAssigns ==
    ASSUME IInv, IInv', NEW k \in Keys, NEW v \in Values, SetObject(k, v)
    PROVE  Contract!Assign(k)
<1> DEFINE q == operationSetQueue
           set == [q[Len(q)] EXCEPT ![k] = v]
<1>1. /\ estimatedData' = [estimatedData EXCEPT ![k] = v]
      /\ estimatedData \in [Keys -> Values] /\ estimatedData' \in [Keys -> Values]
      /\ UNCHANGED <<row, overwritten, command>>
  BY DEF SetObject, IInv, TypeOK
<1>2. q \in Seq(OperationSet) /\ q' \in Seq(OperationSet) /\ v # None
  BY NoneIsNoValue DEF IInv, TypeOK
<1>3. q' = [q EXCEPT ![Len(q)] = set]
  BY DEF SetObject
<1>4. PendingKeys' = PendingKeys \cup {k}
  <2>1. CASE Len(q) = 1
    <3>1. DOMAIN q = {1} /\ q[1] \in OperationSet
      BY <1>2, <2>1, SeqOfOne
    <3>2. Len(q') = 1
      BY <1>2, <1>3, <2>1
    <3>3. q'[1] = [q[1] EXCEPT ![k] = v]
      BY <1>3, <2>1, <3>1
    <3>4. PendingKeys' = {j \in Keys : q'[1][j] # None}
      BY <1>2, <3>2, PendingAfterOne
    <3>5. PendingKeys = {j \in Keys : q[1][j] # None}
      BY <1>2, <2>1, PendingInOne
    <3> QED
      BY <1>2, <3>1, <3>3, <3>4, <3>5 DEF OperationSet
  <2>2. CASE Len(q) = 2
    <3>1. DOMAIN q = {1, 2} /\ q[1] \in OperationSet /\ q[2] \in OperationSet
      BY <1>2, <2>2, SeqOfTwo
    <3>2. Len(q') = 2
      BY <1>2, <1>3, <2>2
    <3>3. q'[1] = q[1] /\ q'[2] = [q[2] EXCEPT ![k] = v]
      BY <1>3, <2>2, <3>1
    <3>4. PendingKeys' = {j \in Keys : q'[1][j] # None \/ q'[2][j] # None}
      BY <1>2, <3>2, PendingAfterTwo
    <3>5. PendingKeys = {j \in Keys : q[1][j] # None \/ q[2][j] # None}
      BY <1>2, <2>2, PendingInTwo
    <3> QED
      BY <1>2, <3>1, <3>3, <3>4, <3>5 DEF OperationSet
  <2> QED
    BY <2>1, <2>2 DEF IInv, HeadIsInFlight
<1> QED
  BY <1>1, <1>4 DEF Contract!Assign

\* Starting a command appends an empty set: nothing else becomes pending.
LEMMA StartCommandStutters ==
    ASSUME IInv, IInv', NEW kind, Turn(kind), NEW n, StartCommand(n)
    PROVE  UNCHANGED Contract!vars
<1> DEFINE q == operationSetQueue
<1>1. q \in Seq(OperationSet) /\ Len(q) = 1 /\ NoOps \in OperationSet
  BY NoOpsIsSet DEF IInv, TypeOK, HeadIsInFlight, Turn
<1>2. q' = Append(q, NoOps) /\ UNCHANGED <<estimatedData, row, overwritten>>
  BY DEF StartCommand
<1>3. /\ q' \in Seq(OperationSet) /\ Len(q') = 2
      /\ q'[1] = q[1] /\ q'[2] = NoOps
  BY <1>1, <1>2, SeqOfOne
<1>4. PendingKeys' = PendingKeys
  <2>1. PendingKeys' = {k \in Keys : q'[1][k] # None \/ q'[2][k] # None}
    BY <1>3, PendingAfterTwo
  <2>2. PendingKeys = {k \in Keys : q[1][k] # None}
    BY <1>1, PendingInOne
  <2> QED
    BY <1>3, <2>1, <2>2 DEF NoOps
<1> QED
  BY <1>2, <1>4 DEF Contract!vars

\* What the server executes is pending: it is the first set of the queue.
LEMMA ServerApplyStores ==
    ASSUME IInv, IInv', ServerApply
    PROVE  \E ks \in SUBSET Keys : Contract!Store(ks)
<1> DEFINE changes == command.changes
           ks == {k \in Keys : changes[k] # None}
<1>1. /\ operationSetQueue \in Seq(OperationSet) /\ Len(operationSetQueue) = 2
      /\ operationSetQueue[1] = changes
  BY DEF IInv, TypeOK, HeadIsInFlight, ServerApply
<1>2. ks \subseteq PendingKeys
  BY <1>1, PendingInTwo
<1>3. /\ row' = Overlay(row, changes)
      /\ overwritten' = {k \in overwritten : changes[k] = None}
      /\ UNCHANGED <<operationSetQueue, estimatedData>>
  BY DEF ServerApply, dataVars
<1>4. row' \in [Keys -> Values] /\ overwritten \subseteq Keys
  BY DEF IInv, TypeOK
<1>5. overwritten' = overwritten \ ks
  BY <1>3, <1>4
<1>6. \A k \in Keys \ ks : row'[k] = row[k]
  BY <1>3 DEF Overlay
<1>7. PendingKeys' = PendingKeys
  BY <1>3 DEF PendingKeys
<1>8. Contract!Store(ks)
  BY <1>2, <1>3, <1>4, <1>5, <1>6, <1>7 DEF Contract!Store, Contract!Write
<1> QED
  BY <1>8

\* A save that succeeds confirms the keys of the first set that the second
\* does not mention: the row and the getters agree on them.
LEMMA SaveSucceededConfirms ==
    ASSUME IInv, IInv', SaveSucceeded
    PROVE  \E ks \in SUBSET Keys : Contract!Confirm(ks)
<1> DEFINE q == operationSetQueue
           ks == {k \in Keys : q[1][k] # None /\ q[2][k] = None}
<1>1. /\ TypeOK /\ HeadIsInFlight /\ EstimateIsCurrent
      /\ command.phase = "reply"
  BY DEF IInv, SaveSucceeded
<1>2. /\ q \in Seq(OperationSet) /\ Len(q) = 2 /\ DOMAIN q = {1, 2}
      /\ q[1] \in OperationSet /\ q[2] \in OperationSet
      /\ q[1] = command.changes /\ Head(q) = q[1]
      /\ Tail(q) \in Seq(OperationSet) /\ Len(Tail(q)) = 1 /\ Tail(q)[1] = q[2]
      /\ estimatedData = Overlay(Overlay(serverData, q[1]), q[2])
  <2>1. q \in Seq(OperationSet)
    BY <1>1 DEF TypeOK
  <2>2. /\ Len(q) = 2 /\ q[1] = command.changes
        /\ estimatedData = Overlay(Overlay(serverData, q[1]), q[2])
    BY <1>1, QueueDuringSave DEF EstimateIsCurrent
  <2> QED
    BY <2>1, <2>2, SeqOfTwo
<1>3. /\ q' = Tail(q) /\ serverData' = Overlay(serverData, q[1])
      /\ estimatedData' = EstimatedFrom(serverData', q')
      /\ UNCHANGED <<row, overwritten>>
  BY <1>2 DEF SaveSucceeded, RebuiltEstimate
<1>4. estimatedData' = estimatedData
  <2>1. EstimatedFrom(serverData', Tail(q)) = Overlay(serverData', q[2])
    BY <1>2, EstimatedFromOne
  <2> QED
    BY <2>1, <1>2, <1>3
<1>5. PendingKeys' = PendingKeys \ ks
  <2>1. PendingKeys' = {k \in Keys : q'[1][k] # None}
    BY <1>2, <1>3, PendingAfterOne
  <2>2. PendingKeys = {k \in Keys : q[1][k] # None \/ q[2][k] # None}
    BY <1>2, PendingInTwo
  <2> QED
    BY <1>2, <1>3, <2>1, <2>2
<1>6. ASSUME NEW k \in ks
      PROVE  row[k] = estimatedData[k] \/ k \in overwritten
  <2>1. estimatedData[k] = q[1][k]
    BY <1>2 DEF Overlay
  <2>2. k \in overwritten \/ row[k] = q[1][k]
    BY <1>1, <1>2 DEF IInv, RowIsExplained
  <2> QED
    BY <2>1, <2>2
<1>7. Contract!Confirm(ks)
  BY <1>3, <1>4, <1>5, <1>6 DEF Contract!Confirm
<1> QED
  BY <1>7

\* A failed save merges the two sets: the same keys are pending.
LEMMA SaveFailedStutters ==
    ASSUME IInv, IInv', SaveFailed
    PROVE  UNCHANGED Contract!vars
<1> DEFINE q == operationSetQueue
           merged == Overlay(q[1], q[2])
<1>1. q \in Seq(OperationSet) /\ Len(q) = 2
  BY DEF IInv, TypeOK, HeadIsInFlight, SaveFailed
<1>2. /\ q[1] \in OperationSet /\ q[2] \in OperationSet
      /\ Tail(q) \in Seq(OperationSet) /\ Len(Tail(q)) = 1 /\ DOMAIN Tail(q) = {1}
  BY <1>1, SeqOfTwo
<1>3. q' = [Tail(q) EXCEPT ![1] = merged]
  BY DEF SaveFailed, RolledForward
<1>4. q' \in Seq(OperationSet) /\ Len(q') = 1 /\ q'[1] = merged
  <2>1. merged \in OperationSet
    BY <1>2, OverlayType
  <2> QED
    BY <1>2, <1>3, <2>1, FirstReplaced
<1>5. PendingKeys' = PendingKeys
  <2>1. PendingKeys' = {k \in Keys : q'[1][k] # None}
    BY <1>4, PendingAfterOne
  <2>2. PendingKeys = {k \in Keys : q[1][k] # None \/ q[2][k] # None}
    BY <1>1, PendingInTwo
  <2>3. \A k \in Keys : merged[k] # None <=> q[1][k] # None \/ q[2][k] # None
    BY DEF Overlay
  <2> QED
    BY <1>4, <2>1, <2>2, <2>3
<1> QED
  BY <1>5 DEF Contract!vars, SaveFailed

LEMMA ForeignSaveOverwrites ==
    ASSUME IInv, IInv', NEW k \in Keys, NEW v \in Values, ForeignSave(k, v)
    PROVE  \E ks \in SUBSET Keys : Contract!Overwrite(ks)
<1>1. /\ row' = [row EXCEPT ![k] = v] /\ overwritten' = overwritten \cup {k}
      /\ UNCHANGED <<operationSetQueue, estimatedData>>
  BY DEF ForeignSave, dataVars
<1>2. row \in [Keys -> Values] /\ row' \in [Keys -> Values]
  BY DEF IInv, TypeOK
<1>3. PendingKeys' = PendingKeys
  BY <1>1 DEF PendingKeys
<1>4. Contract!Overwrite({k})
  BY <1>1, <1>2, <1>3 DEF Contract!Overwrite, Contract!Write
<1> QED
  BY <1>4

LEMMA ApplyAbandonedOverwrites ==
    ASSUME IInv, IInv', NEW set \in abandoned, ApplyAbandoned(set)
    PROVE  \E ks \in SUBSET Keys : Contract!Overwrite(ks)
<1> DEFINE ks == {k \in Keys : set[k] # None}
<1>1. /\ row' = Overlay(row, set) /\ overwritten' = overwritten \cup ks
      /\ UNCHANGED <<operationSetQueue, estimatedData>>
  BY DEF ApplyAbandoned, dataVars
<1>2. row' \in [Keys -> Values]
  BY DEF IInv, TypeOK
<1>3. \A k \in Keys \ ks : row'[k] = row[k]
  BY <1>1 DEF Overlay
<1>4. PendingKeys' = PendingKeys
  BY <1>1 DEF PendingKeys
<1>5. Contract!Overwrite(ks)
  BY <1>1, <1>2, <1>3, <1>4 DEF Contract!Overwrite, Contract!Write
<1> QED
  BY <1>5

LEMMA NextMapsToNext ==
    ASSUME IInv, IInv', [Next]_vars
    PROVE  [Contract!Next]_(Contract!vars)
<1>1. ASSUME NEW k \in Keys, NEW v \in Values, SetObject(k, v)
      PROVE  Contract!Next
  BY <1>1, SetObjectAssigns DEF Contract!Next
<1>2. CASE \/ SaveInBackground \/ CollectAsChild \/ EnqueueBatch
           \/ SaveAsyncClean \/ Retry \/ UNCHANGED vars
  <2>1. UNCHANGED <<operationSetQueue, estimatedData, row, overwritten>>
    BY <1>2 DEF SaveInBackground, CollectAsChild, EnqueueBatch, SaveAsyncClean,
                Retry, vars, dataVars
  <2> QED
    BY <2>1, UntouchedStutters
<1>3. CASE SaveAsync
  BY <1>3, StartCommandStutters DEF SaveAsync
<1>4. CASE SaveAsChild
  BY <1>4, StartCommandStutters DEF SaveAsChild
<1>5. CASE ServerApply
  BY <1>5, ServerApplyStores DEF Contract!Next
<1>6. CASE SaveSucceeded
  BY <1>6, SaveSucceededConfirms DEF Contract!Next
<1>7. CASE SaveFailed
  BY <1>7, SaveFailedStutters
<1>8. ASSUME NEW k \in Keys, NEW v \in Values, ForeignSave(k, v)
      PROVE  Contract!Next
  BY <1>8, ForeignSaveOverwrites DEF Contract!Next
<1>9. ASSUME NEW set \in abandoned, ApplyAbandoned(set) PROVE Contract!Next
  BY <1>9, ApplyAbandonedOverwrites DEF Contract!Next
<1> QED
  BY <1>1, <1>2, <1>3, <1>4, <1>5, <1>6, <1>7, <1>8, <1>9 DEF Next

-----------------------------------------------------------------------------
\* The save machinery of PFObject keeps the contract the application relies on:
\* the saves, retries, failures and late requests of an object are assignments,
\* stores, confirmations and overwrites of its fields, or nothing at all.
THEOREM SavesImplementContract == Spec => ImplementsContract
<1>1. Init => Contract!Init
  BY InitMapsToInit
<1>2. IInv /\ IInv' /\ [Next]_vars => [Contract!Next]_(Contract!vars)
  BY NextMapsToNext
<1> QED
  BY <1>1, <1>2, InductiveInvariant, PTL
     DEF Spec, ImplementsContract, Contract!Spec

\* The contract promises, step by step, that a field with nothing to confirm is
\* on the server as the getters show it, also while other fields are saved.
THEOREM ContractKeepsConfirmed == Spec => []Contract!ConfirmedIsStored
<1>1. Contract!Init => Contract!ConfirmedIsStored
  BY DEF Contract!Init, Contract!ConfirmedIsStored
<1>2. Contract!ConfirmedIsStored /\ [Contract!Next]_(Contract!vars)
        => Contract!ConfirmedIsStored'
  <2> SUFFICES ASSUME Contract!ConfirmedIsStored,
                      [Contract!Next]_(Contract!vars)
               PROVE  Contract!ConfirmedIsStored'
    OBVIOUS
  <2> USE DEF Contract!ConfirmedIsStored
  <2>1. ASSUME NEW k \in Keys, Contract!Assign(k)
        PROVE  Contract!ConfirmedIsStored'
    BY <2>1 DEF Contract!Assign
  <2>2. ASSUME NEW ks \in SUBSET Keys, Contract!Store(ks)
        PROVE  Contract!ConfirmedIsStored'
    BY <2>2 DEF Contract!Store, Contract!Write
  <2>3. ASSUME NEW ks \in SUBSET Keys, Contract!Overwrite(ks)
        PROVE  Contract!ConfirmedIsStored'
    BY <2>3 DEF Contract!Overwrite, Contract!Write
  <2>4. ASSUME NEW ks \in SUBSET Keys, Contract!Confirm(ks)
        PROVE  Contract!ConfirmedIsStored'
    BY <2>4 DEF Contract!Confirm
  <2>5. CASE UNCHANGED Contract!vars
    BY <2>5 DEF Contract!vars
  <2> QED
    BY <2>1, <2>2, <2>3, <2>4, <2>5 DEF Contract!Next
<1> QED
  BY <1>1, <1>2, SavesImplementContract, PTL
     DEF ImplementsContract, Contract!Spec
=============================================================================
