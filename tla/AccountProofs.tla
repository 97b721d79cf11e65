---------------------------- MODULE AccountProofs ----------------------------
(***************************************************************************)
(* Proofs about CurrentUser and ProfileFollow, for any accounts, any       *)
(* number of instances, sessions and actions of the person, kills and      *)
(* faults.                                                                 *)
(*                                                                         *)
(* What races is serialised by the data queue, so the invariant is about   *)
(* its tasks: each own task of an instance has a save of that instance     *)
(* waiting for it, one each; between the halves of the first task the disk *)
(* already is the one's the task makes current; and whenever the disk      *)
(* lags behind, a task that writes it is in the queue.                     *)
(*                                                                         *)
(* Two more invariants build on it: one of someone who waits for each      *)
(* answer, for what he sees, edits and follows (PatientInv); and one of    *)
(* someone hasty, who taps follow as often as he likes (HastyInv).         *)
(***************************************************************************)
EXTENDS ProfileFollow, FiniteSetTheorems, TLAPS

Tasks(n) == [kind : Kinds, who : 0..n]
Own(t) == t.kind \in {"lookup", "persist"}
Waiting(s) == s.phase \in {"lookup", "persist", "persistFailed"}

\* A task of an instance that exists, whose save waits for it if it is its own.
TaskOK(t, n, saves) ==
    /\ t.kind # "logout" => t.who \in 1..n
    /\ t.kind = "lookup" => saves[t.who].phase = "lookup"
    /\ t.kind = "persist" => saves[t.who].phase \in {"persist", "persistFailed"}

TasksOK(q, n, saves) == \A k \in 1..Len(q) : TaskOK(q[k], n, saves)

OneEach(q) ==
    \A k, l \in 1..Len(q) : k # l /\ Own(q[k]) /\ Own(q[l]) => q[k].who # q[l].who

\* Some task of the queue writes the disk.
Later(q) == \E k \in 1..Len(q) : q[k].kind # "lookup"

-----------------------------------------------------------------------------
LEMMA AppendIs ==
    ASSUME NEW T, NEW q \in Seq(T), NEW t \in T
    PROVE  /\ Append(q, t) \in Seq(T) /\ Append(q, t) # <<>>
           /\ Len(q) \in Nat /\ Len(Append(q, t)) = Len(q) + 1
           /\ \A k \in 1..Len(q) : Append(q, t)[k] = q[k]
           /\ Append(q, t)[Len(q) + 1] = t
           /\ q # <<>> => Head(Append(q, t)) = Head(q)
<1>1. /\ Append(q, t) \in Seq(T) /\ Len(q) \in Nat /\ Len(Append(q, t)) = Len(q) + 1
      /\ \A k \in 1..Len(q) : Append(q, t)[k] = q[k]
      /\ Append(q, t)[Len(q) + 1] = t
  OBVIOUS
<1>2. Append(q, t) # <<>>
  BY <1>1
<1>3. ASSUME q # <<>> PROVE Head(Append(q, t)) = Head(q)
  <2>1. 1 \in 1..Len(q) /\ Head(q) = q[1]
    BY <1>3
  <2>2. Head(Append(q, t)) = Append(q, t)[1]
    BY <1>1, <1>2
  <2> QED
    BY <1>1, <2>1, <2>2
<1> QED
  BY <1>1, <1>2, <1>3

LEMMA TailIs ==
    ASSUME NEW T, NEW q \in Seq(T), q # <<>>
    PROVE  /\ Tail(q) \in Seq(T) /\ Head(q) \in T /\ Head(q) = q[1]
           /\ Len(q) \in Nat /\ 1 <= Len(q) /\ Len(Tail(q)) = Len(q) - 1
           /\ \A k \in 1..(Len(q) - 1) : Tail(q)[k] = q[k + 1]
OBVIOUS

\* A save that no task is for may change.
LEMMA TasksStay ==
    ASSUME NEW n \in Nat, NEW q \in Seq(Tasks(n)), NEW saves, NEW saves2,
           TasksOK(q, n, saves),
           \A i \in 1..n : saves2[i] # saves[i] => ~Waiting(saves[i])
    PROVE  TasksOK(q, n, saves2)
BY DEF TasksOK, TaskOK, Waiting

\* A task more: of an instance of which none is in the queue, if it is its own.
LEMMA TasksAppend ==
    ASSUME NEW n \in Nat, NEW q \in Seq(Tasks(n)), NEW saves, NEW saves2,
           NEW t \in Tasks(n), TasksOK(q, n, saves), OneEach(q),
           TaskOK(t, n, saves2), Own(t) => ~Waiting(saves[t.who]),
           \A i \in 1..n : saves2[i] # saves[i] => ~Waiting(saves[i])
    PROVE  TasksOK(Append(q, t), n, saves2) /\ OneEach(Append(q, t))
<1> DEFINE q2 == Append(q, t)
<1>1. /\ Len(q) \in Nat /\ Len(q2) = Len(q) + 1
      /\ \A k \in 1..Len(q) : q2[k] = q[k]
      /\ q2[Len(q) + 1] = t
  BY AppendIs
<1> HIDE DEF q2
<1>2. TasksOK(q, n, saves2)
  BY TasksStay
<1>3. \A k \in 1..Len(q2) : k \in 1..Len(q) \/ k = Len(q) + 1
  BY <1>1
<1>4. TasksOK(q2, n, saves2)
  BY <1>1, <1>2, <1>3 DEF TasksOK
<1>5. ASSUME NEW k \in 1..Len(q), Own(q[k]), Own(t) PROVE q[k].who # t.who
  BY <1>5 DEF TasksOK, TaskOK, Own, Waiting
<1>6. OneEach(q2)
  BY <1>1, <1>3, <1>5 DEF OneEach
<1> QED
  BY <1>4, <1>6 DEF q2

\* The first task done: the save that waited for it goes on.
LEMMA TasksTail ==
    ASSUME NEW n \in Nat, NEW q \in Seq(Tasks(n)), NEW saves, NEW saves2, q # <<>>,
           TasksOK(q, n, saves), OneEach(q),
           \A i \in 1..n : saves2[i] # saves[i] => i = Head(q).who /\ Own(Head(q))
    PROVE  TasksOK(Tail(q), n, saves2) /\ OneEach(Tail(q))
<1> DEFINE q2 == Tail(q)
<1>1. /\ Len(q) \in Nat /\ 1 <= Len(q) /\ Len(q2) = Len(q) - 1 /\ Head(q) = q[1]
      /\ \A k \in 1..(Len(q) - 1) : q2[k] = q[k + 1]
  BY TailIs
<1> HIDE DEF q2
<1>2. \A k \in 1..Len(q2) : k + 1 \in 1..Len(q) /\ k + 1 # 1 /\ q2[k] = q[k + 1]
  BY <1>1
<1>3. ASSUME NEW k \in 1..Len(q2) PROVE TaskOK(q2[k], n, saves2)
  <2>1. TaskOK(q[k + 1], n, saves) /\ q2[k] = q[k + 1]
    BY <1>2 DEF TasksOK
  <2>2. Own(q[k + 1]) /\ Own(Head(q)) => q[k + 1].who # Head(q).who
    BY <1>1, <1>2 DEF OneEach
  <2>3. Own(q[k + 1]) => q[k + 1].who \in 1..n
    BY <2>1 DEF TaskOK, Own
  <2>4. Own(q[k + 1]) => saves2[q[k + 1].who] = saves[q[k + 1].who]
    BY <2>2, <2>3
  <2> QED
    BY <2>1, <2>4 DEF TaskOK, Own
<1>4. ASSUME NEW k \in 1..Len(q2), NEW l \in 1..Len(q2), k # l, Own(q2[k]), Own(q2[l])
      PROVE  q2[k].who # q2[l].who
  <2>1. k + 1 # l + 1
    BY <1>1, <1>4
  <2> QED
    BY <1>2, <1>4, <2>1 DEF OneEach
<1> QED
  BY <1>3, <1>4 DEF TasksOK, OneEach, q2

\* A task that does not write the disk may go, and any may come.
LEMMA LaterStays ==
    ASSUME NEW T, NEW q \in Seq(T), NEW t \in T
    PROVE  /\ Later(q) \/ t.kind # "lookup" => Later(Append(q, t))
           /\ Later(q) /\ q # <<>> /\ Head(q).kind = "lookup" => Later(Tail(q))
<1>1. ASSUME Later(q) \/ t.kind # "lookup" PROVE Later(Append(q, t))
  <2>1. /\ Len(q) \in Nat /\ Len(Append(q, t)) = Len(q) + 1
        /\ \A k \in 1..Len(q) : Append(q, t)[k] = q[k]
        /\ Append(q, t)[Len(q) + 1] = t
    BY AppendIs
  <2>2. \A k \in 1..Len(q) : k \in 1..Len(Append(q, t))
    BY <2>1
  <2>3. Len(q) + 1 \in 1..Len(Append(q, t))
    BY <2>1
  <2> QED
    BY <1>1, <2>1, <2>2, <2>3 DEF Later
<1>2. ASSUME Later(q), q # <<>>, Head(q).kind = "lookup" PROVE Later(Tail(q))
  <2>1. /\ Len(q) \in Nat /\ Len(Tail(q)) = Len(q) - 1 /\ Head(q) = q[1]
        /\ \A k \in 1..(Len(q) - 1) : Tail(q)[k] = q[k + 1]
    BY <1>2, TailIs
  <2>2. PICK k \in 1..Len(q) : q[k].kind # "lookup"
    BY <1>2 DEF Later
  <2>3. k - 1 \in 1..Len(Tail(q)) /\ (k - 1) + 1 = k
    BY <1>2, <2>1, <2>2
  <2>4. Tail(q)[k - 1] = q[k]
    BY <2>1, <2>3
  <2> QED
    BY <2>2, <2>3, <2>4 DEF Later
<1> QED
  BY <1>1, <1>2

-----------------------------------------------------------------------------
\* Whatever points to an instance points to one there is.
Shape ==
    /\ file = NoFile \/ file.account \in Users
    /\ \A i \in 1..made : account[i] \in Users
    /\ \A i \in Instances : current[i] => i \in 1..made
    /\ \A i \in Instances : queue[i] # <<>> => i \in 1..made
    /\ \A i \in Instances : sending[i].phase # "idle" => queue[i] # <<>>
    /\ \A o \in objects : o.who \in 1..made

TasksInv ==
    /\ TasksOK(dataQueue, made, sending) /\ OneEach(dataQueue)
    /\ halfDone => dataQueue # <<>> /\ Head(dataQueue).kind # "lookup"

\* The account of i is logged in once.
OnlyOne(i) == \A k \in 1..made : k # i => account[k] # account[i]

\* Where an account is logged in once, only the current instance has the flag, or
\* the one that is about to become current.
FlagsInv ==
    \A i \in Instances : current[i] /\ OnlyOne(i) =>
        IF halfDone THEN Head(dataQueue).kind # "logout" /\ i = Head(dataQueue).who
        ELSE i = currentUser

OnDisk ==
    IF currentUser = 0 THEN file = NoFile
    ELSE /\ file = [account |-> account[currentUser], saved |-> saved[currentUser]]
         /\ keychain = token[currentUser]

DiskInv ==
    IF halfDone
    THEN Head(dataQueue).kind # "logout" =>
            current[Head(dataQueue).who] /\ keychain = token[Head(dataQueue).who]
    ELSE /\ currentUser # 0 => current[currentUser]
         /\ OnDisk \/ Later(dataQueue)

UserInv == UserTypeOK /\ Shape /\ TasksInv /\ FlagsInv /\ DiskInv

-----------------------------------------------------------------------------
LEMMA InstancesNat ==
    /\ MaxInstances \in Nat /\ MaxInstances # 0 /\ MaxTokens \in Nat
    /\ \A n \in 0..MaxInstances : n \in Nat /\ 1..n \subseteq Instances
BY MaxInstancesType, MaxTokensType DEF Instances

LEMMA NoEditIsEdit == NoEdit \in Edits /\ Idle \in Sendings
BY DEF NoEdit, Edits, Idle, Sendings, Phases

LEMMA NothingQueued ==
    ASSUME NEW T, NEW n \in Nat, NEW saves
    PROVE  /\ <<>> \in Seq(T) /\ Len(<<>>) = 0
           /\ TasksOK(<<>>, n, saves) /\ OneEach(<<>>) /\ ~Later(<<>>)
BY DEF TasksOK, OneEach, Later

LEMMA UserInit == InitUser => UserInv
<1> SUFFICES ASSUME InitUser PROVE UserInv
  OBVIOUS
<1> DEFINE in == scenario.start # "nobody"
<1>1. /\ scenario \in Scenarios /\ scenario.start \in Users \cup {"nobody"}
      /\ 1 \in Instances /\ MaxTokens \in Nat \ {0} /\ made \in 0..MaxInstances
      /\ 1 \in Tokens /\ made = IF in THEN 1 ELSE 0
  BY ScenariosType, MaxTokensType, InstancesNat DEF InitUser, Instances, Tokens
<1>2. InstancesOK
  BY <1>1, NoEditIsEdit, NothingQueued DEF InitUser, InstancesOK, Accounts
<1>3. ControllerOK
  <2>1. token[1] \in {0} \cup Tokens /\ currentUser \in 0..made
    BY <1>1, <1>2 DEF InitUser, InstancesOK
  <2> QED
    BY <1>1, <2>1, NothingQueued DEF InitUser, ControllerOK, Accounts
<1>4. ScreensOK /\ ServerOK
  BY <1>1 DEF InitUser, ScreensOK, ServerOK
<1>5. HistoryOK
  <2>1. edited \in [Users -> Edits]
    BY NoEditIsEdit DEF InitUser
  <2>2. issued \in 0..MaxTokens
    BY <1>1 DEF InitUser
  <2> QED
    BY <1>1, <2>1, <2>2 DEF InitUser, HistoryOK
<1>6. Shape
  <2>1. file = NoFile \/ file.account \in Users
    BY <1>1 DEF InitUser, NoFile
  <2>2. \A i \in 1..made : i = 1 /\ in
    BY <1>1
  <2>3. \A i \in 1..made : account[i] \in Users
    BY <1>1, <2>2 DEF InitUser
  <2>4. \A i \in Instances : current[i] => i \in 1..made
    <3>1. \A i \in Instances : current[i] => i = 1 /\ in
      BY Zenon DEF InitUser
    <3>2. in => 1 \in 1..made
      BY <1>1
    <3> QED
      BY <3>1, <3>2
  <2>5. \A i \in Instances : queue[i] = <<>> /\ sending[i].phase = "idle"
    BY DEF InitUser, Idle
  <2> QED
    BY <2>1, <2>3, <2>4, <2>5 DEF InitUser, Shape
<1>7. TasksInv
  BY <1>1, NothingQueued, InstancesNat DEF InitUser, TasksInv
<1>8. FlagsInv
  BY <1>1 DEF InitUser, FlagsInv
<1>9. DiskInv
  <2>1. halfDone = FALSE /\ currentUser = made
    BY DEF InitUser
  <2>2. CASE in
    <3>1. /\ currentUser = 1 /\ current[1] /\ keychain = token[1]
          /\ account[1] = scenario.start /\ saved[1] = 0
          /\ file = [account |-> scenario.start, saved |-> 0]
      BY <1>1, <2>1, <2>2 DEF InitUser
    <3> QED
      BY <2>1, <3>1 DEF DiskInv, OnDisk
  <2>3. CASE ~in
    BY <1>1, <2>1, <2>3 DEF InitUser, DiskInv, OnDisk, NoFile
  <2> QED
    BY <2>2, <2>3
<1> QED
  BY <1>2, <1>3, <1>4, <1>5, <1>6, <1>7, <1>8, <1>9 DEF UserInv, UserTypeOK

-----------------------------------------------------------------------------
(***************************************************************************)
(* What an action leaves alone.                                            *)
(***************************************************************************)
deviceVars == <<instanceVars, controllerVars, diskVars, objects>>

LEMMA DeviceFrame ==
    ASSUME Shape, TasksInv, FlagsInv, DiskInv, UNCHANGED deviceVars
    PROVE  Shape' /\ TasksInv' /\ FlagsInv' /\ DiskInv'
BY DEF deviceVars, instanceVars, controllerVars, diskVars, Shape, TasksInv, FlagsInv,
       OnlyOne, DiskInv, OnDisk

\* The flags and the disk, when tasks may have been added.
LEMMA FlagsFrame ==
    ASSUME FlagsInv, UNCHANGED <<made, account, current, currentUser, halfDone>>,
           halfDone => Head(dataQueue') = Head(dataQueue)
    PROVE  FlagsInv'
BY DEF FlagsInv, OnlyOne

LEMMA DiskFrame ==
    ASSUME DiskInv, UNCHANGED <<account, current, token, currentUser, halfDone, diskVars>>,
           halfDone => Head(dataQueue') = Head(dataQueue),
           ~halfDone => (OnDisk \/ Later(dataQueue) => OnDisk' \/ Later(dataQueue'))
    PROVE  DiskInv'
BY DEF DiskInv, diskVars

\* Actions of the screens and the server: the device's instances, its queue and
\* disk stay.
LEMMA EnterKeeps ==
    ASSUME UserInv, NEW u \in Users, NEW kind \in {"logIn", "signUp", "google"},
           Enter(u, kind)
    PROVE  UserInv'
<1>1. UNCHANGED <<instanceVars, controllerVars, diskVars, screen, objects, serverVars>>
  BY DEF Enter
<1>2. InstancesOK' /\ ControllerOK' /\ ServerOK'
  BY <1>1 DEF UserInv, UserTypeOK, InstancesOK, ControllerOK, ServerOK, instanceVars,
              controllerVars, diskVars, serverVars
<1>3. HistoryOK' /\ ScreensOK'
  BY DEF Enter, UserInv, UserTypeOK, HistoryOK, ScreensOK
<1>4. UNCHANGED deviceVars
  BY <1>1 DEF deviceVars
<1> QED
  BY <1>2, <1>3, <1>4, DeviceFrame DEF UserInv, UserTypeOK

LEMMA RefuseKeeps ==
    ASSUME UserInv, NEW r \in entering, Refuse(r)
    PROVE  UserInv'
<1>1. UNCHANGED <<instanceVars, controllerVars, diskVars, screen, objects, serverVars, boundVars>>
  BY DEF Refuse
<1>2. InstancesOK' /\ ControllerOK' /\ ServerOK' /\ HistoryOK'
  BY <1>1 DEF UserInv, UserTypeOK, InstancesOK, ControllerOK, ServerOK, HistoryOK,
              instanceVars, controllerVars, diskVars, serverVars, boundVars
<1>3. ScreensOK'
  BY DEF Refuse, UserInv, UserTypeOK, ScreensOK
<1>4. UNCHANGED deviceVars
  BY <1>1 DEF deviceVars
<1> QED
  BY <1>2, <1>3, <1>4, DeviceFrame DEF UserInv, UserTypeOK

LEMMA SignUpReplyLostKeeps ==
    ASSUME UserInv, NEW r \in entering, SignUpReplyLost(r)
    PROVE  UserInv'
<1>1. UNCHANGED <<instanceVars, controllerVars, diskVars, uiVars>>
  BY DEF SignUpReplyLost
<1>2. InstancesOK' /\ ControllerOK' /\ ScreensOK'
  BY <1>1 DEF UserInv, UserTypeOK, InstancesOK, ControllerOK, ScreensOK, instanceVars,
              controllerVars, diskVars, uiVars
<1>3. HistoryOK' /\ ServerOK'
  BY DEF SignUpReplyLost, UserInv, UserTypeOK, HistoryOK, ServerOK, ScreensOK
<1>4. UNCHANGED deviceVars
  BY <1>1 DEF deviceVars, uiVars
<1> QED
  BY <1>2, <1>3, <1>4, DeviceFrame DEF UserInv, UserTypeOK

LEMMA CreateKeeps ==
    ASSUME UserInv, NEW o \in objects, NEW copies \in {0, 1, 2}, Create(o, copies)
    PROVE  UserInv'
<1>1. /\ UNCHANGED <<instanceVars, controllerVars, diskVars, screen, entering>>
      /\ objects' \subseteq objects
  BY DEF Create
<1>2. InstancesOK' /\ ControllerOK' /\ ScreensOK'
  BY <1>1 DEF UserInv, UserTypeOK, InstancesOK, ControllerOK, ScreensOK, instanceVars,
              controllerVars, diskVars
<1>3. HistoryOK'
  BY DEF Create, UserInv, UserTypeOK, HistoryOK
<1>4. ServerOK'
  <2>1. o.id \in Ids /\ account[o.who] \in Users
    BY DEF UserInv, UserTypeOK, ScreensOK, NewObjects, Shape
  <2>2. [id : {o.id}, by : {account[o.who]}, copy : 1..copies]
            \subseteq [id : Ids, by : Users, copy : 1..2]
    BY <2>1
  <2> QED
    BY <2>2 DEF Create, UserInv, UserTypeOK, ServerOK
<1>5. Shape'
  BY <1>1 DEF UserInv, Shape, instanceVars, controllerVars, diskVars
<1>6. TasksInv' /\ FlagsInv' /\ DiskInv'
  BY <1>1 DEF UserInv, instanceVars, controllerVars, diskVars, TasksInv, FlagsInv,
              OnlyOne, DiskInv, OnDisk
<1> QED
  BY <1>2, <1>3, <1>4, <1>5, <1>6 DEF UserInv, UserTypeOK

-----------------------------------------------------------------------------
(***************************************************************************)
(* Actions that add a task or change the saves of one instance.            *)
(***************************************************************************)
LEMMA RolledIsEdit ==
    ASSUME NEW a \in Edits, NEW b \in Edits PROVE RolledForward(a, b) \in Edits
BY DEF RolledForward, Edits

LEMMA UpdateUserKeeps ==
    ASSUME UserInv, NEW name \in {"same", "free", "taken"}, UpdateUser(name)
    PROVE  UserInv'
<1> DEFINE new == [name |-> name, edit |-> edits']
<1>1. /\ UNCHANGED <<made, account, current, token, saved, sending, controllerVars,
                     diskVars, uiVars, serverVars>>
      /\ edits' \in Nat /\ new \in Edits
      /\ currentUser \in 1..made /\ currentUser \in Instances
      /\ UserTypeOK /\ Shape /\ TasksInv /\ FlagsInv /\ DiskInv
  <2>1. UNCHANGED <<made, account, current, token, saved, sending, controllerVars,
                    diskVars, uiVars, serverVars>>
    BY DEF UpdateUser
  <2>2. edits' \in Nat /\ new \in Edits
    BY DEF UpdateUser, UserInv, UserTypeOK, HistoryOK, Edits
  <2>3. currentUser # 0 /\ currentUser \in 0..made /\ made \in 0..MaxInstances
    BY DEF UpdateUser, MayUseUser, UserInv, UserTypeOK, ControllerOK, InstancesOK
  <2>4. currentUser \in 1..made /\ currentUser \in Instances
    BY <2>3, InstancesNat
  <2> QED
    BY <2>1, <2>2, <2>4 DEF UserInv
<1>2. pending' = [pending EXCEPT ![currentUser] = RolledForward(@, new)]
      /\ queue' = [queue EXCEPT ![currentUser] = Append(@, OwnSave)]
  BY DEF UpdateUser
<1>3. pending' \in [Instances -> Edits]
  <2>1. pending \in [Instances -> Edits]
    BY <1>1 DEF UserTypeOK, InstancesOK
  <2>2. RolledForward(pending[currentUser], new) \in Edits
    BY <1>1, <2>1, RolledIsEdit
  <2> QED
    BY <1>2, <2>1, <2>2
<1>4. /\ queue \in [Instances -> Seq(Saves)] /\ OwnSave \in Saves
  BY <1>1 DEF UserTypeOK, InstancesOK, OwnSave, Saves, Ids
<1>5. Append(queue[currentUser], OwnSave) \in Seq(Saves)
      /\ Append(queue[currentUser], OwnSave) # <<>>
  BY <1>1, <1>4, AppendIs
<1>6. queue' \in [Instances -> Seq(Saves)]
  BY <1>2, <1>4, <1>5
<1>7. InstancesOK'
  BY <1>1, <1>3, <1>6 DEF UserTypeOK, InstancesOK
<1>8. ControllerOK' /\ ScreensOK' /\ ServerOK'
  BY <1>1 DEF UserTypeOK, ControllerOK, ScreensOK, ServerOK, controllerVars, diskVars,
              uiVars, serverVars
<1>9. HistoryOK'
  <2>1. edited' \in [Users -> Edits]
    <3>1. edited \in [Users -> Edits]
      BY <1>1 DEF UserTypeOK, HistoryOK
    <3>2. account[currentUser] \in Users
      BY <1>1 DEF Shape
    <3>3. [name |-> IF name = "same" THEN edited[account[currentUser]].name ELSE name,
           edit |-> edits'] \in Edits
      BY <1>1, <3>1, <3>2 DEF Edits
    <3> QED
      BY <3>1, <3>2, <3>3 DEF UpdateUser
  <2> QED
    BY <1>1, <2>1 DEF UpdateUser, UserTypeOK, HistoryOK
<1>10. \A i \in Instances : /\ queue'[i] # <<>> => queue[i] # <<>> \/ i = currentUser
                            /\ queue[i] # <<>> => queue'[i] # <<>>
  BY <1>1, <1>2, <1>4, <1>5
<1>11. Shape'
  BY <1>1, <1>10 DEF Shape, controllerVars, diskVars, uiVars
<1>12. TasksInv' /\ FlagsInv' /\ DiskInv'
  BY <1>1 DEF controllerVars, diskVars, TasksInv, FlagsInv, OnlyOne, DiskInv, OnDisk
<1> QED
  BY <1>7, <1>8, <1>9, <1>11, <1>12 DEF UserInv, UserTypeOK

LEMMA DidLogoutKeeps ==
    ASSUME UserInv, DidLogout
    PROVE  UserInv'
<1> DEFINE t == Task("logout", 0)
<1>1. /\ UNCHANGED <<instanceVars, currentUser, halfDone, diskVars, uiVars, serverVars>>
      /\ dataQueue' = Append(dataQueue, t)
      /\ UserTypeOK /\ Shape /\ TasksInv /\ FlagsInv /\ DiskInv
  BY DEF DidLogout, UserInv
<1>2. /\ made \in Nat /\ dataQueue \in Seq(Tasks(made)) /\ t \in Tasks(made)
      /\ TaskOK(t, made, sending) /\ ~Own(t) /\ t.kind # "lookup"
  BY <1>1, InstancesNat DEF UserTypeOK, InstancesOK, ControllerOK, Tasks, Task, Kinds, TaskOK, Own
<1> HIDE DEF t
<1>3. /\ dataQueue' \in Seq(Tasks(made)) /\ dataQueue' # <<>>
      /\ dataQueue # <<>> => Head(dataQueue') = Head(dataQueue)
  BY <1>1, <1>2, AppendIs
<1>4. InstancesOK' /\ ScreensOK' /\ ServerOK'
  BY <1>1 DEF UserTypeOK, InstancesOK, ScreensOK, ServerOK, instanceVars, uiVars, serverVars
<1>5. ControllerOK'
  BY <1>1, <1>3 DEF UserTypeOK, ControllerOK, instanceVars, diskVars, Tasks
<1>6. HistoryOK'
  BY <1>1 DEF DidLogout, UserTypeOK, HistoryOK
<1>7. Shape'
  BY <1>1 DEF Shape, instanceVars, diskVars, uiVars
<1>8. TasksInv'
  <2>1. TasksOK(dataQueue', made, sending) /\ OneEach(dataQueue')
    BY <1>1, <1>2, TasksAppend DEF TasksInv
  <2> QED
    BY <1>1, <1>3, <2>1 DEF TasksInv, instanceVars
<1>9. halfDone => dataQueue # <<>>
  BY <1>1 DEF TasksInv
<1>10. FlagsInv'
  BY <1>1, <1>3, <1>9, FlagsFrame DEF instanceVars
<1>11. Later(dataQueue')
  BY <1>1, <1>2, LaterStays
<1>12. DiskInv'
  BY <1>1, <1>3, <1>9, <1>11, DiskFrame DEF instanceVars
<1> QED
  BY <1>4, <1>5, <1>6, <1>7, <1>8, <1>10, <1>12 DEF UserInv, UserTypeOK

LEMMA SaveTurnKeeps ==
    ASSUME UserInv, NEW i \in Instances, SaveTurn(i)
    PROVE  UserInv'
<1> DEFINE t == Task("lookup", i)
<1>1. /\ UNCHANGED <<made, account, current, token, saved, pending, queue, currentUser,
                     halfDone, diskVars, uiVars, serverVars, boundVars>>
      /\ queue[i] # <<>> /\ sending[i] = Idle
      /\ sending' = [sending EXCEPT ![i].phase = "lookup"]
      /\ dataQueue' = Append(dataQueue, t)
      /\ UserTypeOK /\ Shape /\ TasksInv /\ FlagsInv /\ DiskInv
  BY DEF SaveTurn, UserInv
<1>2. /\ sending \in [Instances -> Sendings] /\ [sending[i] EXCEPT !.phase = "lookup"] \in Sendings
      /\ ~Waiting(sending[i])
  <2>1. sending \in [Instances -> Sendings]
    BY <1>1 DEF UserTypeOK, InstancesOK
  <2>2. [sending[i] EXCEPT !.phase = "lookup"] \in Sendings
    BY <2>1 DEF Sendings, Phases
  <2>3. ~Waiting(sending[i])
    BY <1>1 DEF Waiting, Idle
  <2> QED
    BY <2>1, <2>2, <2>3
<1>3. /\ sending' \in [Instances -> Sendings] /\ sending'[i].phase = "lookup"
      /\ \A j \in Instances : j # i => sending'[j] = sending[j]
  BY <1>1, <1>2 DEF Sendings
<1>4. i \in 1..made /\ made \in Nat /\ 1..made \subseteq Instances
  BY <1>1, InstancesNat DEF Shape, UserTypeOK, InstancesOK
<1>5. /\ dataQueue \in Seq(Tasks(made)) /\ t \in Tasks(made)
      /\ TaskOK(t, made, sending') /\ Own(t) /\ t.who = i
  BY <1>1, <1>3, <1>4 DEF UserTypeOK, ControllerOK, Tasks, Task, Kinds, TaskOK, Own
<1> HIDE DEF t
<1>6. /\ dataQueue' \in Seq(Tasks(made)) /\ dataQueue' # <<>>
      /\ dataQueue # <<>> => Head(dataQueue') = Head(dataQueue)
  BY <1>1, <1>5, AppendIs
<1>7. InstancesOK'
  BY <1>1, <1>3 DEF UserTypeOK, InstancesOK
<1>8. ScreensOK' /\ ServerOK' /\ HistoryOK'
  BY <1>1 DEF UserTypeOK, ScreensOK, ServerOK, HistoryOK, uiVars, serverVars, boundVars
<1>9. ControllerOK'
  BY <1>1, <1>6 DEF UserTypeOK, ControllerOK, diskVars, Tasks
<1>10. Shape'
  BY <1>1, <1>3 DEF Shape, diskVars, uiVars
<1>11. TasksInv'
  <2>1. \A j \in 1..made : sending'[j] # sending[j] => ~Waiting(sending[j])
    BY <1>2, <1>3, <1>4
  <2>2. TasksOK(dataQueue', made, sending') /\ OneEach(dataQueue')
    BY <1>1, <1>2, <1>4, <1>5, <2>1, TasksAppend DEF TasksInv
  <2> QED
    BY <1>1, <1>6, <2>2 DEF TasksInv
<1>12. halfDone => dataQueue # <<>>
  BY <1>1 DEF TasksInv
<1>13. FlagsInv'
  BY <1>1, <1>6, <1>12, FlagsFrame
<1>14. Later(dataQueue) => Later(dataQueue')
  BY <1>1, <1>5, LaterStays
<1>15. OnDisk => OnDisk'
  BY <1>1 DEF OnDisk, diskVars
<1>16. DiskInv'
  BY <1>1, <1>6, <1>12, <1>14, <1>15, DiskFrame
<1> QED
  BY <1>7, <1>8, <1>9, <1>10, <1>11, <1>13, <1>16 DEF UserInv, UserTypeOK

-----------------------------------------------------------------------------
(***************************************************************************)
(* The save under way of one instance.                                     *)
(***************************************************************************)
LEMMA EndTaskKeeps ==
    ASSUME UserTypeOK, Shape, NEW i \in Instances, NEW ok \in BOOLEAN, queue[i] # <<>>,
           EndTask(i, ok)
    PROVE  /\ queue' \in [Instances -> Seq(Saves)]
           /\ \A j \in Instances : /\ j # i => queue'[j] = queue[j]
                                   /\ queue'[j] # <<>> => j \in 1..made
           /\ objects' \subseteq NewObjects
           /\ \A o \in objects' : o.who \in 1..made
<1>1. queue \in [Instances -> Seq(Saves)] /\ objects \subseteq NewObjects
      /\ queue' = [queue EXCEPT ![i] = Tail(@)]
  BY DEF UserTypeOK, InstancesOK, ScreensOK, EndTask
<1>2. Tail(queue[i]) \in Seq(Saves)
  BY <1>1, TailIs
<1>3. queue' \in [Instances -> Seq(Saves)] /\ \A j \in Instances : j # i => queue'[j] = queue[j]
  BY <1>1, <1>2
<1>4. \A j \in Instances : queue'[j] # <<>> => j \in 1..made
  BY <1>3 DEF Shape
<1>5. \A o \in objects' : o \in objects \/ \E p \in objects : o = [p EXCEPT !.phase = "create"]
  BY DEF EndTask
<1>6. \A p \in objects : /\ [p EXCEPT !.phase = "create"] \in NewObjects
                         /\ [p EXCEPT !.phase = "create"].who = p.who
  BY <1>1 DEF NewObjects
<1>7. \A o \in objects' : o \in NewObjects /\ o.who \in 1..made
  BY <1>1, <1>5, <1>6 DEF Shape
<1> QED
  BY <1>3, <1>4, <1>7

\* The save of instance i goes on without the data queue.
LEMMA SendingGoesOn ==
    ASSUME UserTypeOK, Shape, TasksInv, NEW i \in Instances, NEW save \in Sendings,
           ~Waiting(sending[i]), queue[i] # <<>>,
           sending' = [sending EXCEPT ![i] = save],
           UNCHANGED <<made, queue, account, current, controllerVars, file, objects>>
    PROVE  sending' \in [Instances -> Sendings] /\ Shape' /\ TasksInv'
<1>1. sending \in [Instances -> Sendings] /\ made \in Nat /\ 1..made \subseteq Instances
      /\ dataQueue \in Seq(Tasks(made))
  BY InstancesNat DEF UserTypeOK, InstancesOK, ControllerOK, Tasks
<1>2. sending' \in [Instances -> Sendings]
      /\ \A j \in Instances : sending'[j] # sending[j] => j = i
  BY <1>1
<1>3. Shape'
  BY <1>2 DEF Shape
<1>4. \A j \in 1..made : sending'[j] # sending[j] => ~Waiting(sending[j])
  BY <1>1, <1>2
<1>5. TasksOK(dataQueue, made, sending')
  BY <1>1, <1>4, TasksStay DEF TasksInv
<1> QED
  BY <1>2, <1>3, <1>5 DEF TasksInv, controllerVars

LEMMA BatchTurnKeeps ==
    ASSUME UserInv, NEW i \in Instances, BatchTurn(i)
    PROVE  UserInv'
<1> DEFINE save == [phase |-> "request", name |-> pending[i].name, edit |-> pending[i].edit,
                    auth |-> IF current[i] THEN token[i] ELSE Head(queue[i]).auth]
<1>1. /\ UNCHANGED <<made, account, current, token, saved, queue, controllerVars,
                     diskVars, uiVars, serverVars, boundVars>>
      /\ queue[i] # <<>> /\ sending[i] = Idle
      /\ sending' = [sending EXCEPT ![i] = save]
      /\ pending' = [pending EXCEPT ![i] = NoEdit]
      /\ UserTypeOK /\ Shape /\ TasksInv /\ FlagsInv /\ DiskInv
  BY DEF BatchTurn, Started, UserInv
<1>2. /\ pending \in [Instances -> Edits] /\ queue \in [Instances -> Seq(Saves)]
      /\ token \in [Instances -> {0} \cup Tokens]
  BY <1>1 DEF UserTypeOK, InstancesOK
<1>3. pending' \in [Instances -> Edits]
  BY <1>1, <1>2, NoEditIsEdit
<1>4. Head(queue[i]) \in Saves
  BY <1>1, <1>2, TailIs
<1>5. save \in Sendings
  BY <1>2, <1>4 DEF Saves, Edits, Sendings, Phases
<1> HIDE DEF save
<1>6. ~Waiting(sending[i])
  BY <1>1 DEF Waiting, Idle
<1>7. sending' \in [Instances -> Sendings] /\ Shape' /\ TasksInv'
  BY <1>1, <1>5, <1>6, SendingGoesOn DEF diskVars, uiVars
<1>8. InstancesOK'
  BY <1>1, <1>3, <1>7 DEF UserTypeOK, InstancesOK
<1>9. ControllerOK' /\ ScreensOK' /\ ServerOK' /\ HistoryOK'
  BY <1>1 DEF UserTypeOK, ControllerOK, ScreensOK, ServerOK, HistoryOK, controllerVars,
              diskVars, uiVars, serverVars, boundVars
<1>10. FlagsInv' /\ DiskInv'
  BY <1>1 DEF controllerVars, diskVars, FlagsInv, OnlyOne, DiskInv, OnDisk
<1> QED
  BY <1>7, <1>8, <1>9, <1>10 DEF UserInv, UserTypeOK

LEMMA ExecuteKeeps ==
    ASSUME UserInv, NEW i \in Instances, Execute(i)
    PROVE  UserInv'
<1>1. /\ UNCHANGED <<made, account, current, token, saved, pending, queue, controllerVars,
                     diskVars, uiVars, registered, sessions, created, boundVars>>
      /\ sending[i].phase = "request"
      /\ UserTypeOK /\ Shape /\ TasksInv /\ FlagsInv /\ DiskInv
  BY DEF Execute, UserInv
<1>2. PICK phase \in {"saved", "failed"} : sending' = [sending EXCEPT ![i].phase = phase]
  BY DEF Execute
<1>3. sending \in [Instances -> Sendings]
  BY <1>1 DEF UserTypeOK, InstancesOK
<1> DEFINE save == [sending[i] EXCEPT !.phase = phase]
<1>4. save \in Sendings
  BY <1>3 DEF Sendings, Phases
<1>5. sending' = [sending EXCEPT ![i] = save]
  BY <1>2, <1>3 DEF Sendings
<1> HIDE DEF save
<1>6. ~Waiting(sending[i]) /\ queue[i] # <<>>
  BY <1>1 DEF Waiting, Shape
<1>7. sending' \in [Instances -> Sendings] /\ Shape' /\ TasksInv'
  BY <1>1, <1>4, <1>5, <1>6, SendingGoesOn DEF diskVars, uiVars
<1>8. InstancesOK'
  BY <1>1, <1>7 DEF UserTypeOK, InstancesOK
<1>9. ControllerOK' /\ ScreensOK' /\ HistoryOK'
  BY <1>1 DEF UserTypeOK, ControllerOK, ScreensOK, HistoryOK, controllerVars,
              diskVars, uiVars, boundVars
<1>10. ServerOK'
  <2>1. rows \in [Users -> Nat] /\ sending[i].edit \in Nat
    BY <1>1, <1>3 DEF UserTypeOK, ServerOK, Sendings
  <2>2. rows' \in [Users -> Nat]
    BY <2>1 DEF Execute
  <2> QED
    BY <1>1, <2>2 DEF UserTypeOK, ServerOK
<1>11. FlagsInv' /\ DiskInv'
  BY <1>1 DEF controllerVars, diskVars, FlagsInv, OnlyOne, DiskInv, OnDisk
<1> QED
  BY <1>7, <1>8, <1>9, <1>10, <1>11 DEF UserInv, UserTypeOK

LEMMA RequestLostKeeps ==
    ASSUME UserInv, NEW i \in Instances, RequestLost(i)
    PROVE  UserInv'
<1>1. /\ UNCHANGED <<made, account, current, token, saved, pending, queue, controllerVars,
                     diskVars, uiVars, serverVars>>
      /\ sending[i].phase \in {"request", "saved"}
      /\ sending' = [sending EXCEPT ![i].phase = "failed"]
      /\ UserTypeOK /\ Shape /\ TasksInv /\ FlagsInv /\ DiskInv
  BY DEF RequestLost, UserInv
<1>2. sending \in [Instances -> Sendings]
  BY <1>1 DEF UserTypeOK, InstancesOK
<1> DEFINE save == [sending[i] EXCEPT !.phase = "failed"]
<1>3. save \in Sendings
  BY <1>2 DEF Sendings, Phases
<1>4. sending' = [sending EXCEPT ![i] = save]
  BY <1>1, <1>2 DEF Sendings
<1> HIDE DEF save
<1>5. ~Waiting(sending[i]) /\ queue[i] # <<>>
  BY <1>1 DEF Waiting, Shape
<1>6. sending' \in [Instances -> Sendings] /\ Shape' /\ TasksInv'
  BY <1>1, <1>3, <1>4, <1>5, SendingGoesOn DEF diskVars, uiVars
<1>7. InstancesOK'
  BY <1>1, <1>6 DEF UserTypeOK, InstancesOK
<1>8. ControllerOK' /\ ScreensOK' /\ ServerOK'
  BY <1>1 DEF UserTypeOK, ControllerOK, ScreensOK, ServerOK, controllerVars,
              diskVars, uiVars, serverVars
<1>9. HistoryOK'
  BY DEF RequestLost, UserInv, UserTypeOK, HistoryOK
<1>10. FlagsInv' /\ DiskInv'
  BY <1>1 DEF controllerVars, diskVars, FlagsInv, OnlyOne, DiskInv, OnDisk
<1> QED
  BY <1>6, <1>7, <1>8, <1>9, <1>10 DEF UserInv, UserTypeOK

LEMMA CollectUserKeeps ==
    ASSUME UserInv, NEW o \in objects, CollectUser(o)
    PROVE  UserInv'
<1>1. /\ UNCHANGED <<made, account, current, token, saved, pending, sending,
                     controllerVars, diskVars, screen, entering, serverVars, boundVars>>
      /\ UserTypeOK /\ Shape /\ TasksInv /\ FlagsInv /\ DiskInv
  BY DEF CollectUser, UserInv
<1>2. PICK phase \in {"batched", "create"} :
          objects' = (objects \ {o}) \cup {[o EXCEPT !.phase = phase]}
  BY DEF CollectUser
<1>3. o \in NewObjects /\ objects \subseteq NewObjects /\ o.who \in 1..made /\ o.who \in Instances
  BY <1>1 DEF UserTypeOK, ScreensOK, Shape, NewObjects
<1>4. [o EXCEPT !.phase = phase] \in NewObjects /\ [o EXCEPT !.phase = phase].who = o.who
  BY <1>3 DEF NewObjects
<1>5. objects' \subseteq NewObjects /\ \A p \in objects' : p.who \in 1..made
  BY <1>1, <1>2, <1>3, <1>4 DEF Shape
<1>6. queue \in [Instances -> Seq(Saves)] /\ BatchFor(o) \in Saves
  BY <1>1, <1>3 DEF UserTypeOK, InstancesOK, BatchFor, Saves, NewObjects
<1>7. Append(queue[o.who], BatchFor(o)) \in Seq(Saves) /\ Append(queue[o.who], BatchFor(o)) # <<>>
  BY <1>3, <1>6, AppendIs
<1>8. \/ queue' = queue
      \/ queue' = [queue EXCEPT ![o.who] = Append(queue[o.who], BatchFor(o))]
  BY <1>3, <1>6 DEF CollectUser
<1>9. /\ queue' \in [Instances -> Seq(Saves)]
      /\ \A i \in Instances : /\ queue'[i] # <<>> => queue[i] # <<>> \/ i = o.who
                              /\ queue[i] # <<>> => queue'[i] # <<>>
  BY <1>3, <1>6, <1>7, <1>8
<1>10. InstancesOK'
  BY <1>1, <1>9 DEF UserTypeOK, InstancesOK
<1>11. ScreensOK' /\ ControllerOK' /\ ServerOK' /\ HistoryOK'
  BY <1>1, <1>5 DEF UserTypeOK, ScreensOK, ControllerOK, ServerOK, HistoryOK,
                    controllerVars, diskVars, serverVars, boundVars
<1>12. Shape'
  BY <1>1, <1>3, <1>5, <1>9 DEF Shape, diskVars
<1>13. TasksInv' /\ FlagsInv' /\ DiskInv'
  BY <1>1 DEF controllerVars, diskVars, TasksInv, FlagsInv, OnlyOne, DiskInv, OnDisk
<1> QED
  BY <1>10, <1>11, <1>12, <1>13 DEF UserInv, UserTypeOK

-----------------------------------------------------------------------------
(***************************************************************************)
(* The tasks of the data queue.                                            *)
(***************************************************************************)
LEMMA FirstTask ==
    ASSUME UserTypeOK, TasksInv, dataQueue # <<>>
    PROVE  /\ dataQueue \in Seq(Tasks(made)) /\ made \in Nat /\ 1..made \subseteq Instances
           /\ Tail(dataQueue) \in Seq(Tasks(made))
           /\ Head(dataQueue) \in Tasks(made)
           /\ TaskOK(Head(dataQueue), made, sending)
<1>1. dataQueue \in Seq(Tasks(made)) /\ made \in Nat /\ 1..made \subseteq Instances
  BY InstancesNat DEF UserTypeOK, ControllerOK, InstancesOK, Tasks
<1>2. /\ Tail(dataQueue) \in Seq(Tasks(made)) /\ Head(dataQueue) \in Tasks(made)
      /\ Head(dataQueue) = dataQueue[1] /\ Len(dataQueue) \in Nat /\ 1 <= Len(dataQueue)
  BY <1>1, TailIs
<1>3. 1 \in 1..Len(dataQueue)
  BY <1>2
<1> QED
  BY <1>1, <1>2, <1>3 DEF TasksInv, TasksOK

LEMMA LookupKeeps ==
    ASSUME UserInv, Lookup
    PROVE  UserInv'
<1> DEFINE i == Head(dataQueue).who
           save == [phase |-> IF MayBeSaved(i, currentUser) THEN "request" ELSE "failed",
                    name |-> pending[i].name, edit |-> pending[i].edit,
                    auth |-> IF current[i] THEN token[i] ELSE TokenOf(currentUser)]
<1>1. /\ UNCHANGED <<made, account, current, token, saved, currentUser, halfDone,
                     diskVars, uiVars, serverVars, boundVars>>
      /\ dataQueue # <<>> /\ Head(dataQueue).kind = "lookup"
      /\ dataQueue' = Tail(dataQueue)
      /\ \/ /\ sending' = [sending EXCEPT ![i] = Idle]
            /\ queue' = [queue EXCEPT ![i] = Tail(queue[i])]
            /\ pending' = pending
         \/ /\ sending' = [sending EXCEPT ![i] = save]
            /\ pending' = [pending EXCEPT ![i] = NoEdit]
            /\ queue' = queue
      /\ UserTypeOK /\ Shape /\ TasksInv /\ FlagsInv /\ DiskInv
  BY DEF Lookup, Started, UserInv
<1>2. /\ dataQueue \in Seq(Tasks(made)) /\ made \in Nat /\ 1..made \subseteq Instances
      /\ dataQueue' \in Seq(Tasks(made)) /\ TaskOK(Head(dataQueue), made, sending)
  BY <1>1, FirstTask
<1>3. i \in 1..made /\ i \in Instances /\ sending[i].phase = "lookup"
  BY <1>1, <1>2 DEF TaskOK
<1>4. queue[i] # <<>> /\ halfDone = FALSE
  BY <1>1, <1>3 DEF Shape, TasksInv, UserTypeOK, ControllerOK
<1>5. /\ pending \in [Instances -> Edits] /\ queue \in [Instances -> Seq(Saves)]
      /\ sending \in [Instances -> Sendings] /\ token \in [Instances -> {0} \cup Tokens]
      /\ currentUser \in 0..made
  BY <1>1 DEF UserTypeOK, InstancesOK, ControllerOK
<1>6. save \in Sendings
  <2>1. TokenOf(currentUser) \in {0} \cup Tokens
    BY <1>2, <1>5 DEF TokenOf
  <2> QED
    BY <1>3, <1>5, <2>1 DEF Sendings, Phases, Edits
<1> HIDE DEF save, i
<1>7. Tail(queue[i]) \in Seq(Saves)
  BY <1>3, <1>4, <1>5, TailIs
<1>8. /\ sending' \in [Instances -> Sendings] /\ pending' \in [Instances -> Edits]
      /\ queue' \in [Instances -> Seq(Saves)]
  BY <1>1, <1>5, <1>6, <1>7, NoEditIsEdit
<1>9. \A j \in Instances : /\ sending'[j] # sending[j] => j = i
                           /\ j # i => queue'[j] = queue[j]
  BY <1>1, <1>5
<1>10. InstancesOK'
  BY <1>1, <1>8 DEF UserTypeOK, InstancesOK
<1>11. ControllerOK'
  BY <1>1, <1>2 DEF UserTypeOK, ControllerOK, diskVars, Tasks
<1>12. ScreensOK' /\ ServerOK' /\ HistoryOK'
  BY <1>1 DEF UserTypeOK, ScreensOK, ServerOK, HistoryOK, uiVars, serverVars, boundVars
<1>13. Shape'
  <2>1. sending'[i] = Idle \/ queue'[i] = queue[i]
    BY <1>1, <1>3, <1>5
  <2>2. \A j \in Instances : sending'[j].phase # "idle" => queue'[j] # <<>>
    BY <1>1, <1>4, <1>9, <2>1 DEF Shape, Idle
  <2>3. \A j \in Instances : queue'[j] # <<>> => j \in 1..made
    BY <1>1, <1>3, <1>9 DEF Shape
  <2> QED
    BY <1>1, <2>2, <2>3 DEF Shape, diskVars, uiVars
<1>14. TasksInv'
  <2>1. \A j \in 1..made : sending'[j] # sending[j] =>
            j = Head(dataQueue).who /\ Own(Head(dataQueue))
    BY <1>1, <1>2, <1>9 DEF Own, i
  <2>2. TasksOK(dataQueue', made, sending') /\ OneEach(dataQueue')
    BY <1>1, <1>2, <2>1, TasksTail DEF TasksInv
  <2> QED
    BY <1>1, <1>4, <2>2 DEF TasksInv
<1>15. FlagsInv'
  BY <1>1, <1>4, FlagsFrame
<1>16. Later(dataQueue) => Later(dataQueue')
  BY <1>1, <1>2, LaterStays
<1>17. OnDisk => OnDisk'
  BY <1>1 DEF OnDisk, diskVars
<1>18. DiskInv'
  BY <1>1, <1>4, <1>16, <1>17, DiskFrame
<1> QED
  BY <1>10, <1>11, <1>12, <1>13, <1>14, <1>15, <1>18 DEF UserInv, UserTypeOK

LEMMA HandleResultKeeps ==
    ASSUME UserInv, NEW i \in Instances, HandleResult(i)
    PROVE  UserInv'
<1> DEFINE ok == sending[i].phase = "saved"
           edit == [name |-> sending[i].name, edit |-> sending[i].edit]
           t == Task("persist", i)
           save == [sending[i] EXCEPT !.phase = IF ok THEN "persist" ELSE "persistFailed"]
<1>1. /\ UNCHANGED <<made, account, current, token, currentUser, halfDone, diskVars,
                     screen, entering, serverVars, boundVars>>
      /\ sending[i].phase \in {"saved", "failed"}
      /\ saved' = [saved EXCEPT ![i] = IF ok /\ edit.edit # 0 THEN edit.edit ELSE @]
      /\ pending' = [pending EXCEPT ![i] = IF ok THEN @ ELSE RolledForward(edit, @)]
      /\ UserTypeOK /\ Shape /\ TasksInv /\ FlagsInv /\ DiskInv
  BY DEF HandleResult, UserInv
<1>2. \/ /\ current[i]
         /\ dataQueue' = Append(dataQueue, t)
         /\ sending' = [sending EXCEPT ![i].phase = IF ok THEN "persist" ELSE "persistFailed"]
         /\ queue' = queue /\ objects' = objects
      \/ /\ ~current[i] /\ EndTask(i, ok) /\ ok \in BOOLEAN
         /\ sending' = [sending EXCEPT ![i] = Idle]
         /\ dataQueue' = dataQueue
  BY DEF HandleResult, Persisted
<1>3. /\ sending \in [Instances -> Sendings] /\ queue \in [Instances -> Seq(Saves)]
      /\ saved \in [Instances -> Nat] /\ pending \in [Instances -> Edits]
      /\ made \in Nat /\ 1..made \subseteq Instances /\ dataQueue \in Seq(Tasks(made))
  <2>1. InstancesOK /\ ControllerOK
    BY <1>1 DEF UserTypeOK
  <2>2. /\ sending \in [Instances -> Sendings] /\ queue \in [Instances -> Seq(Saves)]
        /\ saved \in [Instances -> Nat] /\ pending \in [Instances -> Edits]
        /\ made \in 0..MaxInstances
    BY <2>1 DEF InstancesOK
  <2>3. made \in Nat /\ 1..made \subseteq Instances
    BY <2>2, InstancesNat
  <2>4. dataQueue \in Seq(Tasks(made))
    BY <2>1 DEF ControllerOK, Tasks
  <2> QED
    BY <2>2, <2>3, <2>4
<1>4. queue[i] # <<>> /\ i \in 1..made /\ ~Waiting(sending[i])
  BY <1>1 DEF Shape, Waiting
<1>5. edit \in Edits /\ save \in Sendings
  <2>1. sending[i] \in Sendings
    BY <1>3
  <2>2. edit \in Edits
    BY <2>1 DEF Edits, Sendings
  <2>3. save \in Sendings
    BY <2>1 DEF Sendings, Phases
  <2> QED
    BY <2>2, <2>3
<1>6. saved' \in [Instances -> Nat]
  BY <1>1, <1>3, <1>5 DEF Edits
<1>7. pending' \in [Instances -> Edits]
  <2>1. RolledForward(edit, pending[i]) \in Edits
    BY <1>3, <1>5, RolledIsEdit
  <2> QED
    BY <1>1, <1>3, <2>1
<1> HIDE DEF ok, edit
<1>8. current[i] => sending' = [sending EXCEPT ![i] = save]
  BY <1>2, <1>3 DEF Sendings
<1>9. /\ t \in Tasks(made) /\ Own(t) /\ t.who = i /\ t.kind = "persist"
      /\ save.phase \in {"persist", "persistFailed"}
  BY <1>3, <1>4 DEF Tasks, Task, Kinds, Own, Sendings
<1> HIDE DEF t, save
<1>10. /\ sending' \in [Instances -> Sendings]
       /\ \A j \in Instances : j # i => sending'[j] = sending[j]
       /\ sending'[i] = IF current[i] THEN save ELSE Idle
  BY <1>2, <1>3, <1>5, <1>8, NoEditIsEdit
<1>11. ~current[i] =>
         /\ queue' \in [Instances -> Seq(Saves)]
         /\ \A j \in Instances : /\ j # i => queue'[j] = queue[j]
                                 /\ queue'[j] # <<>> => j \in 1..made
         /\ objects' \subseteq NewObjects
         /\ \A o \in objects' : o.who \in 1..made
  BY <1>1, <1>2, <1>4, EndTaskKeeps
<1>12. /\ current[i] => dataQueue' = Append(dataQueue, t) /\ queue' = queue /\ objects' = objects
       /\ ~current[i] => dataQueue' = dataQueue
  BY <1>2
<1>13. /\ dataQueue' \in Seq(Tasks(made))
       /\ dataQueue # <<>> => dataQueue' # <<>> /\ Head(dataQueue') = Head(dataQueue)
  <2>1. CASE dataQueue' = Append(dataQueue, t)
    BY <1>3, <1>9, <2>1, AppendIs
  <2>2. CASE dataQueue' = dataQueue
    BY <1>3, <2>2
  <2> QED
    BY <1>12, <2>1, <2>2
<1>14. InstancesOK'
  BY <1>1, <1>3, <1>6, <1>7, <1>10, <1>11, <1>12 DEF UserTypeOK, InstancesOK
<1>15. ControllerOK'
  BY <1>1, <1>13 DEF UserTypeOK, ControllerOK, diskVars, Tasks
<1>16. ScreensOK'
  BY <1>1, <1>11, <1>12 DEF UserTypeOK, ScreensOK
<1>17. ServerOK' /\ HistoryOK'
  BY <1>1 DEF UserTypeOK, ServerOK, HistoryOK, serverVars, boundVars
<1>18. Shape'
  <2>1. \A j \in Instances : sending'[j].phase # "idle" => queue'[j] # <<>>
    BY <1>1, <1>4, <1>10, <1>11, <1>12 DEF Shape, Idle
  <2>2. \A j \in Instances : queue'[j] # <<>> => j \in 1..made
    BY <1>1, <1>11, <1>12 DEF Shape
  <2>3. \A o \in objects' : o.who \in 1..made
    BY <1>1, <1>11, <1>12 DEF Shape
  <2> QED
    BY <1>1, <2>1, <2>2, <2>3 DEF Shape, diskVars
<1>19. TasksInv'
  <2>1. \A j \in 1..made : sending'[j] # sending[j] => ~Waiting(sending[j])
    BY <1>3, <1>4, <1>10
  <2>2. CASE current[i]
    <3>1. TaskOK(t, made, sending')
      BY <1>4, <1>9, <1>10, <2>2 DEF TaskOK
    <3>2. TasksOK(dataQueue', made, sending') /\ OneEach(dataQueue')
      BY <1>1, <1>3, <1>4, <1>9, <1>12, <2>1, <2>2, <3>1, TasksAppend DEF TasksInv
    <3> QED
      BY <1>1, <1>13, <3>2 DEF TasksInv
  <2>3. CASE ~current[i]
    <3>1. TasksOK(dataQueue, made, sending')
      BY <1>1, <1>3, <2>1, TasksStay DEF TasksInv
    <3> QED
      BY <1>1, <1>12, <2>3, <3>1 DEF TasksInv
  <2> QED
    BY <2>2, <2>3
<1>20. halfDone => dataQueue # <<>>
  BY <1>1 DEF TasksInv
<1>21. FlagsInv'
  BY <1>1, <1>13, <1>20, FlagsFrame
<1>22. ASSUME ~halfDone, OnDisk \/ Later(dataQueue) PROVE OnDisk' \/ Later(dataQueue')
  <2>1. CASE current[i]
    BY <1>3, <1>9, <1>12, <2>1, LaterStays
  <2>2. CASE ~current[i]
    <3>1. currentUser # 0 => currentUser # i
      BY <1>1, <1>22, <2>2 DEF DiskInv
    <3>2. currentUser # 0 => saved'[currentUser] = saved[currentUser]
      BY <1>1, <1>3, <3>1
    <3>3. OnDisk => OnDisk'
      BY <1>1, <3>2 DEF OnDisk, diskVars
    <3> QED
      BY <1>12, <1>22, <2>2, <3>3
  <2> QED
    BY <2>1, <2>2
<1>23. DiskInv'
  BY <1>1, <1>13, <1>20, <1>22, DiskFrame
<1> QED
  BY <1>14, <1>15, <1>16, <1>17, <1>18, <1>19, <1>21, <1>23 DEF UserInv, UserTypeOK

\* The instances flagged, the tokens and the sessions that a logout leaves.
LEMMA LoggedOutKeeps ==
    ASSUME InstancesOK, ServerOK, NEW out, NEW now \in SUBSET Instances, LoggedOut(out, now)
    PROVE  /\ current' \in [Instances -> BOOLEAN] /\ token' \in [Instances -> {0} \cup Tokens]
           /\ \A j \in Instances :
                 /\ current'[j] <=> (current[j] /\ j \notin out) \/ j \in now
                 /\ j \notin out => token'[j] = token[j]
           /\ sessions' \subseteq Tokens /\ halfDone' = TRUE
<1>1. current' \in [Instances -> BOOLEAN]
      /\ \A j \in Instances : current'[j] <=> (current[j] /\ j \notin out) \/ j \in now
  BY Zenon DEF LoggedOut
<1>2. token' \in [Instances -> {0} \cup Tokens]
      /\ \A j \in Instances : j \notin out => token'[j] = token[j]
  BY DEF LoggedOut, InstancesOK
<1>3. sessions' \subseteq Tokens /\ halfDone' = TRUE
  BY DEF LoggedOut, ServerOK
<1> QED
  BY <1>1, <1>2, <1>3

LEMMA BecomeCurrentKeeps ==
    ASSUME UserInv, BecomeCurrent
    PROVE  UserInv'
<1> DEFINE h == Head(dataQueue).who
           out == LoggedOutFor(h)
<1>1. /\ UNCHANGED <<made, account, saved, pending, queue, sending, currentUser,
                     dataQueue, file, uiVars, rows, registered, created, boundVars>>
      /\ dataQueue # <<>> /\ halfDone = FALSE
      /\ Head(dataQueue).kind \in {"enter", "persist"}
      /\ LoggedOut(out, {h}) /\ keychain' = token[h]
      /\ UserTypeOK /\ Shape /\ TasksInv /\ FlagsInv /\ DiskInv
  BY DEF BecomeCurrent, UserInv, UserTypeOK, ControllerOK
<1>2. /\ TaskOK(Head(dataQueue), made, sending) /\ 1..made \subseteq Instances
  BY <1>1, FirstTask
<1>3. h \in 1..made /\ h \in Instances
  BY <1>1, <1>2 DEF TaskOK
<1>4. h \notin out /\ \A j \in Instances : j # 0 =>
          (j \in out <=> j = currentUser /\ j # h /\ account[j] # account[h])
  BY DEF LoggedOutFor
<1> HIDE DEF h, out
<1>5. /\ current' \in [Instances -> BOOLEAN] /\ token' \in [Instances -> {0} \cup Tokens]
      /\ \A j \in Instances : /\ current'[j] <=> (current[j] /\ j \notin out) \/ j \in {h}
                              /\ j \notin out => token'[j] = token[j]
      /\ sessions' \subseteq Tokens /\ halfDone' = TRUE
  BY <1>1, <1>3, LoggedOutKeeps DEF UserTypeOK
<1>6. InstancesOK'
  BY <1>1, <1>5 DEF UserTypeOK, InstancesOK
<1>7. ControllerOK'
  <2>1. keychain' \in {0} \cup Tokens
    BY <1>1, <1>3 DEF UserTypeOK, InstancesOK
  <2> QED
    BY <1>1, <1>5, <2>1 DEF UserTypeOK, ControllerOK
<1>8. ServerOK' /\ ScreensOK' /\ HistoryOK'
  BY <1>1, <1>5 DEF UserTypeOK, ServerOK, ScreensOK, HistoryOK, uiVars, boundVars
<1>9. Shape'
  BY <1>1, <1>3, <1>5 DEF Shape, uiVars
<1>10. TasksInv'
  BY <1>1 DEF TasksInv
<1>11. FlagsInv'
  <2> SUFFICES ASSUME NEW i \in Instances, current'[i], OnlyOne(i)' PROVE i = h
    BY <1>1, <1>5 DEF FlagsInv, h
  <2>1. OnlyOne(i)
    BY <1>1 DEF OnlyOne
  <2> SUFFICES ASSUME i # h PROVE FALSE
    OBVIOUS
  <2>2. current[i] /\ i \notin out
    BY <1>5
  <2>3. i = currentUser
    BY <1>1, <2>1, <2>2 DEF FlagsInv
  <2>4. i # 0
    BY InstancesNat DEF Instances
  <2>5. account[i] = account[h]
    BY <1>4, <2>2, <2>3, <2>4
  <2> QED
    BY <1>3, <2>1, <2>5 DEF OnlyOne
<1>12. DiskInv'
  BY <1>1, <1>3, <1>4, <1>5 DEF DiskInv, h
<1> QED
  BY <1>6, <1>7, <1>8, <1>9, <1>10, <1>11, <1>12 DEF UserInv, UserTypeOK

LEMMA LogOutKeeps ==
    ASSUME UserInv, LogOut
    PROVE  UserInv'
<1> DEFINE out == {currentUser} \ {0}
<1>1. /\ UNCHANGED <<made, account, saved, pending, queue, sending, currentUser,
                     dataQueue, file, uiVars, rows, registered, created, boundVars>>
      /\ dataQueue # <<>> /\ halfDone = FALSE
      /\ Head(dataQueue).kind = "logout"
      /\ LoggedOut(out, {}) /\ keychain' = 0
      /\ UserTypeOK /\ Shape /\ TasksInv /\ FlagsInv /\ DiskInv
  BY DEF LogOut, UserInv, UserTypeOK, ControllerOK
<1>2. /\ current' \in [Instances -> BOOLEAN] /\ token' \in [Instances -> {0} \cup Tokens]
      /\ \A j \in Instances : /\ current'[j] <=> (current[j] /\ j \notin out) \/ j \in {}
                              /\ j \notin out => token'[j] = token[j]
      /\ sessions' \subseteq Tokens /\ halfDone' = TRUE
  BY <1>1, LoggedOutKeeps, {} \in SUBSET Instances DEF UserTypeOK
<1>3. InstancesOK' /\ ControllerOK'
  BY <1>1, <1>2 DEF UserTypeOK, InstancesOK, ControllerOK
<1>4. ServerOK' /\ ScreensOK' /\ HistoryOK'
  BY <1>1, <1>2 DEF UserTypeOK, ServerOK, ScreensOK, HistoryOK, uiVars, boundVars
<1>5. Shape'
  BY <1>1, <1>2 DEF Shape, uiVars
<1>6. TasksInv' /\ DiskInv'
  BY <1>1, <1>2 DEF TasksInv, DiskInv
<1>7. FlagsInv'
  <2> SUFFICES ASSUME NEW i \in Instances, current'[i], OnlyOne(i)' PROVE FALSE
    BY DEF FlagsInv
  <2>1. OnlyOne(i)
    BY <1>1 DEF OnlyOne
  <2>2. current[i] /\ i \notin out /\ i # 0
    BY <1>2, InstancesNat DEF Instances
  <2> QED
    BY <1>1, <2>1, <2>2 DEF FlagsInv
<1> QED
  BY <1>3, <1>4, <1>5, <1>6, <1>7 DEF UserInv, UserTypeOK

LEMMA LoggedOutDoneKeeps ==
    ASSUME UserInv, LoggedOutDone
    PROVE  UserInv'
<1>1. /\ UNCHANGED <<instanceVars, keychain, entering, objects, serverVars, boundVars>>
      /\ dataQueue # <<>> /\ halfDone = TRUE /\ Head(dataQueue).kind = "logout"
      /\ dataQueue' = Tail(dataQueue) /\ halfDone' = FALSE
      /\ currentUser' = 0 /\ file' = NoFile /\ screen' = "login"
      /\ UserTypeOK /\ Shape /\ TasksInv /\ FlagsInv /\ DiskInv
  BY DEF LoggedOutDone, FileAfterLogOut, UserInv, UserTypeOK, ControllerOK
<1>2. dataQueue \in Seq(Tasks(made)) /\ dataQueue' \in Seq(Tasks(made)) /\ made \in Nat
  BY <1>1, FirstTask
<1>3. InstancesOK'
  BY <1>1 DEF UserTypeOK, InstancesOK, instanceVars
<1>4. ControllerOK'
  <2>1. file' \in [account : Accounts, saved : Nat]
    BY <1>1 DEF NoFile, Accounts
  <2>2. made' = made /\ currentUser' \in 0..made' /\ keychain' \in {0} \cup Tokens
    BY <1>1, <1>2 DEF UserTypeOK, ControllerOK, instanceVars
  <2> QED
    BY <1>1, <1>2, <2>1, <2>2 DEF ControllerOK, Tasks
<1>5. ScreensOK' /\ ServerOK' /\ HistoryOK'
  BY <1>1 DEF UserTypeOK, ScreensOK, ServerOK, HistoryOK, serverVars, boundVars
<1>6. Shape'
  BY <1>1 DEF Shape, instanceVars
<1>7. TasksInv'
  <2>1. TasksOK(dataQueue', made, sending) /\ OneEach(dataQueue')
    BY <1>1, <1>2, TasksTail DEF TasksInv
  <2> QED
    BY <1>1, <2>1 DEF TasksInv, instanceVars
<1>8. FlagsInv'
  BY <1>1 DEF FlagsInv, OnlyOne, instanceVars
<1>9. DiskInv'
  BY <1>1 DEF DiskInv, OnDisk
<1> QED
  BY <1>3, <1>4, <1>5, <1>6, <1>7, <1>8, <1>9 DEF UserInv, UserTypeOK

LEMMA SavedCurrentKeeps ==
    ASSUME UserInv, SavedCurrent
    PROVE  UserInv'
<1> DEFINE h == Head(dataQueue).who
           ok == sending[h].phase = "persist"
<1>1. /\ UNCHANGED <<made, account, current, token, saved, pending, keychain, entering,
                     serverVars, boundVars>>
      /\ dataQueue # <<>> /\ halfDone = TRUE
      /\ Head(dataQueue).kind \in {"enter", "persist"}
      /\ dataQueue' = Tail(dataQueue) /\ halfDone' = FALSE /\ currentUser' = h
      /\ file' = [account |-> account[h], saved |-> saved[h]]
      /\ \/ screen' = "tabs" /\ UNCHANGED <<queue, sending, objects>>
         \/ /\ Head(dataQueue).kind = "persist" /\ UNCHANGED screen
            /\ EndTask(h, ok) /\ ok \in BOOLEAN
            /\ sending' = [sending EXCEPT ![h] = Idle]
      /\ UserTypeOK /\ Shape /\ TasksInv /\ FlagsInv /\ DiskInv
  BY DEF SavedCurrent, UserInv, UserTypeOK, ControllerOK
<1>2. /\ dataQueue \in Seq(Tasks(made)) /\ dataQueue' \in Seq(Tasks(made)) /\ made \in Nat
      /\ TaskOK(Head(dataQueue), made, sending) /\ 1..made \subseteq Instances
  BY <1>1, FirstTask
<1>3. h \in 1..made /\ h \in Instances
      /\ (Head(dataQueue).kind = "persist" => sending[h].phase \in {"persist", "persistFailed"})
  BY <1>1, <1>2 DEF TaskOK
<1>4. Head(dataQueue).kind = "persist" => queue[h] # <<>>
  BY <1>1, <1>3 DEF Shape
<1>5. /\ sending \in [Instances -> Sendings] /\ account[h] \in Users /\ saved[h] \in Nat
  BY <1>1, <1>3 DEF UserTypeOK, InstancesOK, Shape
<1> HIDE DEF h, ok
<1>6. /\ queue' \in [Instances -> Seq(Saves)]
      /\ \A j \in Instances : /\ j # h => queue'[j] = queue[j]
                              /\ queue'[j] # <<>> => j \in 1..made
      /\ objects' \subseteq NewObjects
      /\ \A o \in objects' : o.who \in 1..made
  <2>1. CASE UNCHANGED <<queue, sending, objects>>
    BY <1>1, <2>1 DEF UserTypeOK, InstancesOK, ScreensOK, Shape
  <2>2. CASE Head(dataQueue).kind = "persist" /\ EndTask(h, ok) /\ ok \in BOOLEAN
    BY <1>1, <1>3, <1>4, <2>2, EndTaskKeeps
  <2> QED
    BY <1>1, <2>1, <2>2
<1>7. /\ sending' \in [Instances -> Sendings]
      /\ \A j \in Instances : sending'[j] # sending[j] =>
            j = h /\ Head(dataQueue).kind = "persist" /\ sending'[j] = Idle
      /\ queue' = queue \/ sending'[h] = Idle
  BY <1>1, <1>3, <1>5, NoEditIsEdit
<1>8. InstancesOK'
  BY <1>1, <1>6, <1>7 DEF UserTypeOK, InstancesOK
<1>9. ControllerOK'
  <2>1. file' \in [account : Accounts, saved : Nat]
    BY <1>1, <1>5 DEF Accounts
  <2>2. made' = made /\ currentUser' \in 0..made' /\ keychain' \in {0} \cup Tokens
    BY <1>1, <1>2, <1>3 DEF UserTypeOK, ControllerOK
  <2> QED
    BY <1>1, <1>2, <2>1, <2>2 DEF ControllerOK, Tasks
<1>10. ScreensOK' /\ ServerOK' /\ HistoryOK'
  BY <1>1, <1>6 DEF UserTypeOK, ScreensOK, ServerOK, HistoryOK, serverVars, boundVars
<1>11. Shape'
  <2>1. \A j \in Instances : sending'[j].phase # "idle" => queue'[j] # <<>>
    BY <1>1, <1>3, <1>6, <1>7 DEF Shape, Idle
  <2> QED
    BY <1>1, <1>5, <1>6, <2>1 DEF Shape
<1>12. TasksInv'
  <2>1. \A j \in 1..made : sending'[j] # sending[j] =>
            j = Head(dataQueue).who /\ Own(Head(dataQueue))
    BY <1>2, <1>7 DEF Own, h
  <2>2. TasksOK(dataQueue', made, sending') /\ OneEach(dataQueue')
    BY <1>1, <1>2, <2>1, TasksTail DEF TasksInv
  <2> QED
    BY <1>1, <2>2 DEF TasksInv
<1>13. FlagsInv'
  BY <1>1 DEF FlagsInv, OnlyOne, h
<1>14. DiskInv'
  <2>1. current[h] /\ keychain = token[h]
    BY <1>1 DEF DiskInv, h
  <2> QED
    BY <1>1, <1>3, <2>1 DEF DiskInv, OnDisk
<1> QED
  BY <1>8, <1>9, <1>10, <1>11, <1>12, <1>13, <1>14 DEF UserInv, UserTypeOK

-----------------------------------------------------------------------------
(***************************************************************************)
(* Logins, launches and new objects.                                       *)
(***************************************************************************)
LEMMA AdmitKeeps ==
    ASSUME UserInv, NEW r \in entering, Admit(r)
    PROVE  UserInv'
<1> DEFINE n == made + 1
           t == Task("enter", n)
<1>1. /\ UNCHANGED <<current, pending, queue, sending, currentUser, halfDone, diskVars,
                     screen, objects, rows, created, scenario, edited, cutShort,
                     entries, logouts, edits, taps, faults, kills>>
      /\ made < MaxInstances /\ issued < MaxTokens
      /\ made' = n /\ issued' = issued + 1
      /\ account' = [account EXCEPT ![n] = r.user]
      /\ token' = [token EXCEPT ![n] = issued']
      /\ saved' = [saved EXCEPT ![n] = rows[r.user]]
      /\ registered' = registered \cup {r.user} /\ sessions' = sessions \cup {issued'}
      /\ entering' = entering \ {r}
      /\ dataQueue' = Append(dataQueue, t)
      /\ UserTypeOK /\ Shape /\ TasksInv /\ FlagsInv /\ DiskInv
  BY DEF Admit, UserInv
<1>2. /\ made \in Nat /\ n \in 0..MaxInstances /\ n \in Instances /\ n \notin 1..made
      /\ 1..n = 1..made \cup {n} /\ 0..made \subseteq 0..n
  <2>1. made \in 0..MaxInstances
    BY <1>1 DEF UserTypeOK, InstancesOK
  <2> QED
    BY <1>1, <2>1, MaxInstancesType DEF Instances
<1>3. issued' \in 0..MaxTokens /\ issued' \in Tokens
  <2>1. issued \in 0..MaxTokens
    BY <1>1 DEF UserTypeOK, HistoryOK
  <2> QED
    BY <1>1, <2>1, MaxTokensType DEF Tokens
<1>4. r.user \in Users /\ rows[r.user] \in Nat
  BY <1>1 DEF UserTypeOK, ScreensOK, ServerOK
<1>5. /\ account \in [Instances -> Accounts] /\ token \in [Instances -> {0} \cup Tokens]
      /\ saved \in [Instances -> Nat] /\ dataQueue \in Seq(Tasks(made))
      /\ currentUser \in 0..made
  BY <1>1 DEF UserTypeOK, InstancesOK, ControllerOK, Tasks
<1>6. /\ dataQueue \in Seq(Tasks(n)) /\ t \in Tasks(n)
      /\ TaskOK(t, n, sending) /\ ~Own(t) /\ t.kind # "lookup"
  <2>1. Tasks(made) \subseteq Tasks(n)
    BY <1>2 DEF Tasks
  <2>2. dataQueue \in Seq(Tasks(n))
    BY <1>5, <2>1
  <2>3. n \in 0..n /\ n \in 1..n
    BY <1>2
  <2> QED
    BY <2>2, <2>3 DEF Tasks, Task, Kinds, TaskOK, Own
<1> HIDE DEF n, t
<1>7. /\ account' \in [Instances -> Accounts] /\ account'[n] = r.user
      /\ \A i \in Instances : i # n => account'[i] = account[i]
  BY <1>1, <1>2, <1>4, <1>5 DEF Accounts
<1>8. /\ token' \in [Instances -> {0} \cup Tokens]
      /\ \A i \in Instances : i # n => token'[i] = token[i]
  BY <1>1, <1>3, <1>5
<1>9. /\ saved' \in [Instances -> Nat]
      /\ \A i \in Instances : i # n => saved'[i] = saved[i]
  BY <1>1, <1>4, <1>5
<1>10. /\ dataQueue' \in Seq(Tasks(n)) /\ dataQueue' # <<>>
       /\ dataQueue # <<>> => Head(dataQueue') = Head(dataQueue)
  BY <1>1, <1>6, AppendIs
<1>11. InstancesOK'
  BY <1>1, <1>2, <1>7, <1>8, <1>9 DEF UserTypeOK, InstancesOK
<1>12. ControllerOK'
  BY <1>1, <1>2, <1>5, <1>10 DEF UserTypeOK, ControllerOK, diskVars, Tasks
<1>13. ScreensOK' /\ ServerOK'
  BY <1>1, <1>3, <1>4 DEF UserTypeOK, ScreensOK, ServerOK
<1>14. HistoryOK'
  BY <1>1, <1>3 DEF UserTypeOK, HistoryOK
<1>15. \A i \in 1..made : i \in 1..n /\ i # n /\ i \in Instances
  BY <1>2, InstancesNat, <1>1 DEF UserTypeOK, InstancesOK
<1>16. Shape'
  <2>1. \A i \in 1..n : account'[i] \in Users
    BY <1>1, <1>2, <1>4, <1>7, <1>15 DEF Shape
  <2> QED
    BY <1>1, <1>15, <2>1 DEF Shape, diskVars
<1>17. TasksInv'
  <2>1. TasksOK(dataQueue, n, sending)
    BY <1>1, <1>15 DEF TasksInv, TasksOK, TaskOK
  <2>2. n \in Nat
    BY <1>2
  <2>3. TasksOK(dataQueue', n, sending) /\ OneEach(dataQueue')
    BY <1>1, <1>6, <2>1, <2>2, TasksAppend DEF TasksInv
  <2> QED
    BY <1>1, <1>10, <2>3 DEF TasksInv
<1>18. halfDone => dataQueue # <<>>
  BY <1>1 DEF TasksInv
<1>19. FlagsInv'
  <2> SUFFICES ASSUME NEW i \in Instances, current[i], OnlyOne(i)'
               PROVE  IF halfDone THEN Head(dataQueue).kind # "logout" /\ i = Head(dataQueue).who
                      ELSE i = currentUser
    BY <1>1, <1>10, <1>18 DEF FlagsInv
  <2>1. i \in 1..made /\ i # n
    BY <1>1, <1>15 DEF Shape
  <2>2. ASSUME NEW k \in 1..made, k # i PROVE account[k] # account[i]
    <3>1. account'[k] # account'[i]
      BY <1>1, <1>15, <2>2 DEF OnlyOne
    <3> QED
      BY <1>7, <1>15, <2>1, <3>1
  <2>3. OnlyOne(i)
    BY <2>2 DEF OnlyOne
  <2> QED
    BY <1>1, <2>3 DEF FlagsInv
<1>20. Later(dataQueue')
  BY <1>1, <1>6, LaterStays
<1>21. DiskInv'
  <2>1. CASE halfDone
    <3>1. Head(dataQueue).kind # "logout" => Head(dataQueue).who \in 1..made
      BY <1>1, <1>18, <2>1, FirstTask DEF TaskOK
    <3> QED
      BY <1>1, <1>8, <1>10, <1>15, <1>18, <2>1, <3>1 DEF DiskInv, diskVars
  <2>2. CASE ~halfDone
    BY <1>1, <1>20, <2>2 DEF DiskInv
  <2> QED
    BY <2>1, <2>2
<1> QED
  BY <1>11, <1>12, <1>13, <1>14, <1>16, <1>17, <1>19, <1>21 DEF UserInv, UserTypeOK

LEMMA KillKeeps ==
    ASSUME UserInv, Kill
    PROVE  UserInv'
<1> DEFINE in == file # NoFile
<1>1. /\ UNCHANGED <<diskVars, serverVars, scenario, edited, entries, logouts, edits,
                     taps, faults, issued>>
      /\ kills' = kills + 1 /\ cutShort' = (cutShort \/ halfDone)
      /\ Launched(file, keychain)
      /\ UserTypeOK /\ Shape /\ TasksInv /\ FlagsInv /\ DiskInv
  BY DEF Kill, UserInv
<1>2. /\ made' = IF in THEN 1 ELSE 0
      /\ made' \in 0..MaxInstances /\ 1 \in Instances /\ made' \in Nat
  BY <1>1, MaxInstancesType DEF Launched, Instances
<1>3. /\ file \in [account : Accounts, saved : Nat] /\ keychain \in {0} \cup Tokens
      /\ in => file.account \in Users
  BY <1>1 DEF UserTypeOK, ControllerOK, Shape
<1>4. /\ current' \in [Instances -> BOOLEAN]
      /\ \A i \in Instances : current'[i] <=> i = 1 /\ in
  BY <1>1, Zenon DEF Launched
<1>5. /\ account' \in [Instances -> Accounts] /\ saved' \in [Instances -> Nat]
      /\ token' \in [Instances -> {0} \cup Tokens]
  BY <1>1, <1>3 DEF Launched, Accounts
<1>6. /\ pending' \in [Instances -> Edits] /\ sending' \in [Instances -> Sendings]
      /\ queue' \in [Instances -> Seq(Saves)]
  BY <1>1, NoEditIsEdit, NothingQueued DEF Launched
<1>7. /\ account'[1] = file.account /\ saved'[1] = file.saved
      /\ token'[1] = IF in THEN keychain ELSE 0
  BY <1>1, <1>2 DEF Launched
<1>8. /\ currentUser' = made' /\ dataQueue' = <<>> /\ halfDone' = FALSE
      /\ screen' \in {"login", "tabs"} /\ entering' = {} /\ objects' = {}
      /\ \A i \in Instances : queue'[i] = <<>> /\ sending'[i].phase = "idle"
  BY <1>1 DEF Launched, Idle
<1>9. InstancesOK'
  BY <1>2, <1>4, <1>5, <1>6 DEF InstancesOK
<1>10. ControllerOK'
  <2>1. <<>> \in Seq([kind : Kinds, who : 0..made'])
    OBVIOUS
  <2>2. currentUser' \in 0..made'
    BY <1>2, <1>8
  <2> QED
    BY <1>1, <1>3, <1>8, <2>1, <2>2 DEF ControllerOK, diskVars
<1>11. ScreensOK' /\ ServerOK'
  BY <1>1, <1>8 DEF UserTypeOK, ScreensOK, ServerOK, serverVars
<1>12. HistoryOK'
  BY <1>1 DEF UserTypeOK, HistoryOK, ControllerOK
<1>13. Shape'
  <2>1. \A i \in 1..made' : i = 1 /\ in
    BY <1>2
  <2>2. \A i \in 1..made' : account'[i] \in Users
    BY <1>3, <1>7, <2>1
  <2>3. in => 1 \in 1..made'
    BY <1>2
  <2>4. \A i \in Instances : current'[i] => i \in 1..made'
    BY <1>4, <2>3
  <2> QED
    BY <1>1, <1>8, <2>2, <2>4 DEF Shape, diskVars
<1>14. TasksInv'
  BY <1>2, <1>8, NothingQueued DEF TasksInv
<1>15. FlagsInv'
  BY <1>2, <1>4, <1>8 DEF FlagsInv
<1>16. DiskInv'
  <2>1. CASE in
    <3>1. file = [account |-> file.account, saved |-> file.saved]
      BY <1>3
    <3> QED
      BY <1>1, <1>2, <1>4, <1>7, <1>8, <2>1, <3>1 DEF DiskInv, OnDisk, diskVars
  <2>2. CASE ~in
    BY <1>1, <1>2, <1>8, <2>2 DEF DiskInv, OnDisk, diskVars
  <2> QED
    BY <2>1, <2>2
<1> QED
  BY <1>9, <1>10, <1>11, <1>12, <1>13, <1>14, <1>15, <1>16 DEF UserInv, UserTypeOK

-----------------------------------------------------------------------------
(***************************************************************************)
(* The follow button.                                                      *)
(***************************************************************************)
QueryOK(q) ==
    /\ q.n \in Nat /\ q.by \in Users /\ q.auth \in {0} \cup Tokens
    /\ q.phase \in {"asked", "answered"} /\ Cardinality(q.found) <= 1

FollowOK ==
    /\ opened \in Nat /\ live \subseteq 1..opened /\ profile \in live \cup {0}
    /\ isFollowing \subseteq live /\ behind \subseteq live
    /\ overtaken \in BOOLEAN /\ crossed \in BOOLEAN
    /\ \A q \in checking : QueryOK(q)
    /\ \A q \in unfollowing : QueryOK(q)

IInv == UserInv /\ FollowOK

LEMMA TypeOfIInv == IInv => TypeOK
BY DEF IInv, UserInv, FollowOK, QueryOK, TypeOK

LEMMA FirstIsSmall ==
    ASSUME NEW u, NEW auth, NEW found \in First(u, auth) PROVE Cardinality(found) <= 1
<1>1. found = {} \/ \E r : found = {r}
  BY DEF First
<1>2. Cardinality({}) = 0 /\ \A r : Cardinality({r}) = 1
  BY FS_EmptySet, FS_Singleton
<1>3. Cardinality(found) = 0 \/ Cardinality(found) = 1
  BY <1>1, <1>2, Zenon
<1> QED
  BY <1>3

\* A query about the current user, who is there whenever he can be used.
LEMMA QueryIsOK ==
    ASSUME UserInv, MayUseUser, NEW n \in Nat
    PROVE  /\ currentUser \in 1..made /\ currentUser \in Instances
           /\ TokenOf(currentUser) \in {0} \cup Tokens
           /\ QueryOK(FollowQuery(n))
<1>1. currentUser # 0 /\ currentUser \in 0..made /\ made \in 0..MaxInstances
      /\ token \in [Instances -> {0} \cup Tokens]
  BY DEF MayUseUser, UserInv, UserTypeOK, ControllerOK, InstancesOK
<1>2. currentUser \in 1..made /\ currentUser \in Instances
  BY <1>1, InstancesNat
<1>3. TokenOf(currentUser) \in {0} \cup Tokens
  BY <1>1, <1>2 DEF TokenOf
<1>4. account[currentUser] \in Users
  BY <1>2 DEF UserInv, Shape
<1>5. Cardinality({}) <= 1
  BY FS_EmptySet
<1> QED
  BY <1>2, <1>3, <1>4, <1>5 DEF QueryOK, FollowQuery

LEMMA AccountInit == Init => IInv
<1> SUFFICES ASSUME Init PROVE UserInv /\ FollowOK
  BY DEF IInv
<1> QED
  BY UserInit DEF Init, FollowOK

LEMMA UserFrame ==
    ASSUME UserInv, UNCHANGED userVars PROVE UserInv'
<1>1. UNCHANGED deviceVars
  BY DEF userVars, deviceVars, uiVars
<1>2. UserTypeOK'
  BY DEF UserInv, UserTypeOK, InstancesOK, ControllerOK, ScreensOK, ServerOK, HistoryOK,
         userVars, instanceVars, controllerVars, diskVars, uiVars, serverVars, boundVars
<1> QED
  BY <1>1, <1>2, DeviceFrame DEF UserInv

\* Only faults are counted.
LEMMA FaultFrame ==
    ASSUME UserInv, faults' \in Nat,
           UNCHANGED <<instanceVars, controllerVars, diskVars, uiVars, serverVars,
                       scenario, edited, cutShort, entries, logouts, edits, taps, kills,
                       issued>>
    PROVE  UserInv'
<1>1. UNCHANGED deviceVars
  BY DEF deviceVars, uiVars
<1>2. UserTypeOK'
  BY DEF UserInv, UserTypeOK, InstancesOK, ControllerOK, ScreensOK, ServerOK, HistoryOK,
         instanceVars, controllerVars, diskVars, uiVars, serverVars
<1> QED
  BY <1>1, <1>2, DeviceFrame DEF UserInv

LEMMA ElsewhereKeeps ==
    ASSUME FollowOK, Elsewhere \/ ProfileGone PROVE FollowOK'
<1>1. /\ UNCHANGED <<opened, checking, unfollowing, overtaken, crossed>>
      /\ \/ UNCHANGED <<profile, live, isFollowing, behind>>
         \/ profile' = 0 /\ live' = {} /\ isFollowing' = {} /\ behind' = {}
  BY DEF Elsewhere, ProfileGone, followVars
<1> QED
  BY <1>1 DEF FollowOK

LEMMA OpenProfileKeeps ==
    ASSUME IInv, OpenProfile PROVE IInv'
<1>1. UserInv' /\ MayUseUser
  BY UserFrame DEF OpenProfile, IInv
<1>2. opened \in Nat /\ opened' = opened + 1 /\ opened' \in Nat
  BY DEF IInv, FollowOK, OpenProfile
<1>3. QueryOK(FollowQuery(opened'))
  BY <1>1, <1>2, QueryIsOK DEF IInv
<1>4. /\ profile' = opened' /\ live' = live \cup {opened'}
      /\ UNCHANGED <<isFollowing, unfollowing, behind, crossed>>
      /\ checking' = checking \cup {FollowQuery(opened')} /\ overtaken' \in BOOLEAN
  BY DEF OpenProfile, FirstCheck, IInv, FollowOK
<1>5. live' \subseteq 1..opened' /\ profile' \in live'
  BY <1>2, <1>4 DEF IInv, FollowOK
<1> QED
  BY <1>1, <1>2, <1>3, <1>4, <1>5 DEF IInv, FollowOK

LEMMA ShowAgainKeeps ==
    ASSUME IInv, NEW n \in live, ShowAgain(n) PROVE IInv'
BY UserFrame DEF ShowAgain, IInv, FollowOK

\* An answered query is still a query.
LEMMA AnsweredIsOK ==
    ASSUME NEW q, QueryOK(q), NEW found, Cardinality(found) <= 1
    PROVE  QueryOK(Answered(q, found))
BY DEF QueryOK, Answered

LEMMA AnswerCheckKeeps ==
    ASSUME IInv, NEW q \in checking, AnswerCheck(q) PROVE IInv'
<1>1. UserInv' /\ UNCHANGED <<profile, live, opened, isFollowing, unfollowing, overtaken,
                              behind, crossed>>
  BY UserFrame DEF AnswerCheck, IInv
<1>2. PICK found \in First(q.by, q.auth) :
          checking' = (checking \ {q}) \cup
                {Answered(q, found)}
  BY DEF AnswerCheck
<1>3. QueryOK(Answered(q, found))
  BY <1>2, FirstIsSmall, AnsweredIsOK DEF IInv, FollowOK
<1>4. \A p \in checking' : QueryOK(p)
  BY <1>2, <1>3 DEF IInv, FollowOK
<1> QED
  BY <1>1, <1>4 DEF IInv, FollowOK

LEMMA AnswerUnfollowKeeps ==
    ASSUME IInv, NEW q \in unfollowing, AnswerUnfollow(q) PROVE IInv'
<1>1. UserInv' /\ UNCHANGED <<profile, live, opened, isFollowing, checking, overtaken,
                              behind, crossed>>
  BY UserFrame DEF AnswerUnfollow, IInv
<1>2. PICK found \in First(q.by, q.auth) :
          unfollowing' = (unfollowing \ {q}) \cup
             (IF found = {} THEN {}
              ELSE {Answered(q, found)})
  BY DEF AnswerUnfollow, Unfollowed
<1>3. QueryOK(Answered(q, found))
  BY <1>2, FirstIsSmall, AnsweredIsOK DEF IInv, FollowOK
<1>4. \A p \in unfollowing' : QueryOK(p)
  BY <1>2, <1>3 DEF IInv, FollowOK
<1> QED
  BY <1>1, <1>4 DEF IInv, FollowOK

LEMMA ShowCheckKeeps ==
    ASSUME IInv, NEW q \in checking, ShowCheck(q) PROVE IInv'
<1>1. faults' \in Nat
  BY DEF ShowCheck, IInv, UserInv, UserTypeOK, HistoryOK
<1>2. UserInv'
  BY <1>1, FaultFrame DEF ShowCheck, IInv
<1> QED
  BY <1>2 DEF ShowCheck, IInv, FollowOK

LEMMA UnfollowLostKeeps ==
    ASSUME IInv, NEW q \in unfollowing, UnfollowLost(q) PROVE IInv'
<1>1. faults' \in Nat
  BY DEF UnfollowLost, IInv, UserInv, UserTypeOK, HistoryOK
<1>2. UserInv'
  BY <1>1, FaultFrame DEF UnfollowLost, IInv
<1> QED
  BY <1>2 DEF UnfollowLost, IInv, FollowOK

LEMMA DeleteKeeps ==
    ASSUME IInv, NEW q \in unfollowing, Delete(q) PROVE IInv'
<1>1. /\ UNCHANGED <<instanceVars, controllerVars, diskVars, uiVars, rows, registered,
                     sessions, boundVars>>
      /\ created' \subseteq created
  BY DEF Delete
<1>2. UNCHANGED deviceVars
  BY <1>1 DEF deviceVars, uiVars
<1>3. UserTypeOK'
  BY <1>1 DEF IInv, UserInv, UserTypeOK, InstancesOK, ControllerOK, ScreensOK, ServerOK,
         HistoryOK, instanceVars, controllerVars, diskVars, uiVars, boundVars
<1>4. UserInv'
  BY <1>2, <1>3, DeviceFrame DEF IInv, UserInv
<1> QED
  BY <1>4 DEF Delete, IInv, FollowOK

LEMMA DidFollowKeeps ==
    ASSUME IInv, DidFollow PROVE IInv'
<1>1. /\ MayUseUser /\ taps' \in Nat
      /\ UNCHANGED <<instanceVars, controllerVars, diskVars, screen, entering,
                     serverVars, scenario, edited, cutShort, entries, logouts, edits,
                     faults, kills, issued, profile, live, opened, checking>>
      /\ isFollowing' \subseteq live /\ behind' \subseteq live
      /\ overtaken' \in BOOLEAN /\ crossed' \in BOOLEAN
  BY DEF DidFollow, IInv, FollowOK, UserInv, UserTypeOK, HistoryOK
<1>2. /\ currentUser \in 1..made /\ currentUser \in Instances
      /\ TokenOf(currentUser) \in {0} \cup Tokens /\ QueryOK(FollowQuery(taps'))
  BY <1>1, QueryIsOK DEF IInv
<1> DEFINE follow == NewObject(<<taps', "follow">>)
           notice == NewObject(<<taps', "notice">>)
<1>3. /\ unfollowing' \subseteq unfollowing \cup {FollowQuery(taps')}
      /\ objects' \subseteq objects \cup {follow, notice}
  BY DEF DidFollow
<1>4. \A o \in {follow, notice} : o \in NewObjects /\ o.who = currentUser
  BY <1>1, <1>2 DEF NewObject, NewObjects, Ids
<1> HIDE DEF follow, notice
<1>5. objects' \subseteq NewObjects /\ \A o \in objects' : o.who \in 1..made
  BY <1>2, <1>3, <1>4 DEF IInv, UserInv, UserTypeOK, ScreensOK, Shape
<1>6. UserTypeOK'
  BY <1>1, <1>5 DEF IInv, UserInv, UserTypeOK, InstancesOK, ControllerOK, ScreensOK,
         ServerOK, HistoryOK, instanceVars, controllerVars, diskVars, serverVars
<1>7. Shape'
  BY <1>1, <1>5 DEF IInv, UserInv, Shape, instanceVars, diskVars
<1>8. TasksInv' /\ FlagsInv' /\ DiskInv'
  BY <1>1 DEF IInv, UserInv, TasksInv, FlagsInv, OnlyOne, DiskInv, OnDisk,
              instanceVars, controllerVars, diskVars
<1>9. FollowOK'
  BY <1>1, <1>2, <1>3 DEF IInv, FollowOK
<1> QED
  BY <1>6, <1>7, <1>8, <1>9 DEF IInv, UserInv

LEMMA RelaunchKeeps ==
    ASSUME IInv, Relaunch PROVE IInv'
<1>1. UserInv'
  BY KillKeeps DEF Relaunch, IInv
<1> QED
  BY <1>1 DEF Relaunch, IInv, FollowOK

-----------------------------------------------------------------------------
LEMMA IInvNext == IInv /\ [Next]_vars => IInv'
<1> SUFFICES ASSUME IInv, [Next]_vars PROVE IInv'
  OBVIOUS
<1>1. UserInv /\ FollowOK
  BY DEF IInv
<1>2. UserInv' /\ (Elsewhere \/ ProfileGone) => IInv'
  BY <1>1, ElsewhereKeeps DEF IInv
<1>3. CASE Tap
  <2>1. ASSUME NEW u \in Users, NEW kind \in {"logIn", "signUp", "google"},
               Enter(u, kind), Elsewhere
        PROVE  IInv'
    BY <1>1, <1>2, <2>1, EnterKeeps
  <2>2. CASE DidLogout /\ Elsewhere
    BY <1>1, <1>2, <2>2, DidLogoutKeeps
  <2>3. ASSUME NEW name \in {"same", "free", "taken"}, UpdateUser(name), Elsewhere
        PROVE  IInv'
    BY <1>1, <1>2, <2>3, UpdateUserKeeps
  <2> QED
    BY <1>3, <2>1, <2>2, <2>3, OpenProfileKeeps, ShowAgainKeeps,
       DidFollowKeeps DEF Tap
<1>4. CASE Service
  <2>1. ASSUME NEW r \in entering, Admit(r), Elsewhere PROVE IInv'
    BY <1>1, <1>2, <2>1, AdmitKeeps
  <2>2. ASSUME NEW r \in entering, Refuse(r), Elsewhere PROVE IInv'
    BY <1>1, <1>2, <2>2, RefuseKeeps
  <2>3. ASSUME NEW i \in Instances, SaveTurn(i), Elsewhere PROVE IInv'
    BY <1>1, <1>2, <2>3, SaveTurnKeeps
  <2>4. CASE Lookup /\ Elsewhere
    BY <1>1, <1>2, <2>4, LookupKeeps
  <2>5. ASSUME NEW i \in Instances, BatchTurn(i), Elsewhere PROVE IInv'
    BY <1>1, <1>2, <2>5, BatchTurnKeeps
  <2>6. ASSUME NEW i \in Instances, Execute(i), Elsewhere PROVE IInv'
    BY <1>1, <1>2, <2>6, ExecuteKeeps
  <2>7. ASSUME NEW i \in Instances, HandleResult(i), Elsewhere PROVE IInv'
    BY <1>1, <1>2, <2>7, HandleResultKeeps
  <2>8. CASE BecomeCurrent /\ Elsewhere
    BY <1>1, <1>2, <2>8, BecomeCurrentKeeps
  <2>9. CASE SavedCurrent /\ ProfileGone
    BY <1>1, <1>2, <2>9, SavedCurrentKeeps
  <2>10. CASE LogOut /\ Elsewhere
    BY <1>1, <1>2, <2>10, LogOutKeeps
  <2>11. CASE LoggedOutDone /\ ProfileGone
    BY <1>1, <1>2, <2>11, LoggedOutDoneKeeps
  <2>12. ASSUME NEW o \in objects, CollectUser(o), Elsewhere PROVE IInv'
    BY <1>1, <1>2, <2>12, CollectUserKeeps
  <2>13. ASSUME NEW o \in objects, Create(o, 1), Elsewhere PROVE IInv'
    BY <1>1, <1>2, <2>13, CreateKeeps
  <2>14. ASSUME NEW q \in checking, AnswerCheck(q) \/ ShowCheck(q) PROVE IInv'
    BY <2>14, AnswerCheckKeeps, ShowCheckKeeps
  <2>15. ASSUME NEW q \in unfollowing, AnswerUnfollow(q) \/ Delete(q) PROVE IInv'
    BY <2>15, AnswerUnfollowKeeps, DeleteKeeps
  <2> QED
    BY <1>4, <2>1, <2>2, <2>3, <2>4, <2>5, <2>6, <2>7, <2>8, <2>9, <2>10, <2>11,
       <2>12, <2>13, <2>14, <2>15 DEF Service
<1>5. CASE Fault
  <2>1. ASSUME NEW r \in entering, SignUpReplyLost(r), Elsewhere PROVE IInv'
    BY <1>1, <1>2, <2>1, SignUpReplyLostKeeps
  <2>2. ASSUME NEW i \in Instances, RequestLost(i), Elsewhere PROVE IInv'
    BY <1>1, <1>2, <2>2, RequestLostKeeps
  <2>3. ASSUME NEW o \in objects, NEW copies \in {0, 2}, Create(o, copies), Elsewhere
        PROVE  IInv'
    BY <1>1, <1>2, <2>3, CreateKeeps
  <2>4. ASSUME NEW q \in checking, ShowCheck(q) PROVE IInv'
    BY <2>4, ShowCheckKeeps
  <2>5. ASSUME NEW q \in unfollowing, UnfollowLost(q) PROVE IInv'
    BY <2>5, UnfollowLostKeeps
  <2> QED
    BY <1>5, <2>1, <2>2, <2>3, <2>4, <2>5, RelaunchKeeps DEF Fault
<1>6. CASE UNCHANGED vars
  <2>1. UserInv' /\ Elsewhere
    BY <1>1, <1>6, UserFrame DEF vars, Elsewhere
  <2> QED
    BY <1>2, <2>1
<1> QED
  BY <1>3, <1>4, <1>5, <1>6 DEF Next

THEOREM IInvHolds == Spec => []IInv
BY AccountInit, IInvNext, PTL DEF Spec

\* The state of the instances, the controller, the disk, the server and the
\* follow button keeps its type; every index is of an instance that was made.
THEOREM TypeCorrect == Spec => []TypeOK
BY IInvHolds, TypeOfIInv, PTL

\* Two accounts believe to be current at once only if one of them was logged in
\* twice: _saveCurrentUserAsync: and logOutCurrentUserAsync unset the flags of
\* everybody else, however logins, logouts and saves race.
THEOREM OneAccountIsCurrent == Spec => []CurrentIsOneAccount
<1>1. IInv => CurrentIsOneAccount
  <2> SUFFICES ASSUME IInv, NEW i \in Instances, NEW j \in Instances,
                      current[i], current[j], account[i] # account[j],
                      OnlyOne(i), OnlyOne(j)
               PROVE  FALSE
    BY DEF CurrentIsOneAccount, OnlyOne
  <2> QED
    BY DEF IInv, UserInv, FlagsInv
<1> QED
  BY <1>1, IInvHolds, PTL

\* With no task waiting, the current user's file and keychain item are those of
\* the current user as last confirmed, and gone after a logout, also after kills.
THEOREM DiskStaysCurrent == Spec => []DiskIsCurrent
<1>1. IInv => DiskIsCurrent
  <2> SUFFICES ASSUME IInv, dataQueue = <<>> PROVE OnDisk
    BY DEF DiskIsCurrent, OnDisk
  <2>1. ~halfDone /\ ~Later(dataQueue)
    BY DEF IInv, UserInv, TasksInv, Later
  <2> QED
    BY <2>1 DEF IInv, UserInv, DiskInv
<1> QED
  BY <1>1, IInvHolds, PTL

-----------------------------------------------------------------------------
(***************************************************************************)
(* One who waits for each answer.                                          *)
(*                                                                         *)
(* He taps only when nothing is under way, so the device is in one of four *)
(* modes.  In the first three the instances are quiet and nothing else is  *)
(* asked for; in the tabs only the current instance is busy, everything    *)
(* under way is about it and carries its session, and the data queue has   *)
(* at most one task, of its save.                                          *)
(***************************************************************************)
NoRequests == /\ \A i \in Instances : InstanceQuiet(i)
              /\ objects = {} /\ checking = {} /\ unfollowing = {}

Only(kind) == /\ dataQueue # <<>> /\ Len(dataQueue) <= 1
              /\ Head(dataQueue).kind = kind

\* The current user's session is valid, and on disk.
SessionOK == /\ token[currentUser] \in sessions
             /\ keychain = token[currentUser]

\* The login screen, with at most one request.
AtLogin ==
    /\ currentUser = 0 /\ screen = "login" /\ file = NoFile
    /\ NoRequests /\ dataQueue = <<>>
    /\ \A r, s \in entering : r = s

\* A new instance is becoming the current user.
LoggingIn ==
    /\ currentUser = 0 /\ screen = "login" /\ file = NoFile
    /\ NoRequests /\ entering = {} /\ Only("enter")
    /\ pending[Head(dataQueue).who] = NoEdit
    /\ ~cutShort => /\ token[Head(dataQueue).who] \in sessions
                    /\ halfDone => keychain = token[Head(dataQueue).who]

LoggingOut ==
    /\ currentUser # 0 /\ screen = "tabs" /\ file # NoFile
    /\ NoRequests /\ entering = {} /\ Only("logout")
    /\ ~cutShort /\ ~halfDone => SessionOK

\* The data queue has nothing, or the task the current user's save waits for.
InTurn ==
    dataQueue # <<>> => /\ Len(dataQueue) <= 1
                        /\ Head(dataQueue).kind \in {"lookup", "persist"}
                        /\ Head(dataQueue).who = currentUser

SessionOf(q, a) == \A k \in 1..Len(q) : q[k] = OwnSave \/ q[k].auth = a

\* What is under way is about the current instance, with its session.
Ours ==
    /\ \A i \in Instances : i # currentUser => InstanceQuiet(i)
    /\ \A o \in objects : o.who = currentUser /\ o.auth = token[currentUser]
    /\ SessionOf(queue[currentUser], token[currentUser])
    /\ sending[currentUser].phase = "request" =>
          sending[currentUser].auth = token[currentUser]
    /\ \A q \in checking \cup unfollowing :
          q.by = account[currentUser] /\ q.auth = token[currentUser]

InTabs ==
    /\ currentUser # 0 /\ screen = "tabs" /\ file # NoFile
    /\ entering = {} /\ InTurn /\ Ours
    /\ ~cutShort => SessionOK

OneThing == AtLogin \/ LoggingIn \/ LoggingOut \/ InTabs

-----------------------------------------------------------------------------
LEMMA IsCurrent ==
    ASSUME UserInv, currentUser # 0
    PROVE  /\ currentUser \in 1..made /\ currentUser \in Instances
           /\ account[currentUser] \in Users /\ token[currentUser] \in {0} \cup Tokens
<1>1. currentUser \in 0..made /\ made \in 0..MaxInstances
  BY DEF UserInv, UserTypeOK, ControllerOK, InstancesOK
<1>2. currentUser \in 1..made /\ currentUser \in Instances
  BY <1>1, InstancesNat
<1> QED
  BY <1>2 DEF UserInv, Shape, UserTypeOK, InstancesOK

\* Whoever is busy is the current user, in the tabs.
LEMMA BusyInTabs ==
    ASSUME OneThing
    PROVE  /\ \A i \in Instances : ~InstanceQuiet(i) => InTabs /\ i = currentUser
           /\ objects # {} \/ checking # {} \/ unfollowing # {} => InTabs
           /\ dataQueue = <<>> => AtLogin \/ InTabs
           /\ screen = "tabs" /\ dataQueue = <<>> => InTabs
BY DEF OneThing, AtLogin, LoggingIn, LoggingOut, InTabs, NoRequests, Only, Ours

\* While its save is not waiting for the data queue, nothing is there.
LEMMA FreeQueue ==
    ASSUME UserInv, InTabs, ~Waiting(sending[currentUser]) PROVE dataQueue = <<>>
<1> SUFFICES ASSUME dataQueue # <<>> PROVE FALSE
  OBVIOUS
<1>1. TaskOK(Head(dataQueue), made, sending)
  BY FirstTask DEF UserInv
<1> QED
  BY <1>1 DEF InTabs, InTurn, TaskOK, Waiting

LEMMA OneTask ==
    ASSUME NEW T, NEW t \in T
    PROVE  /\ Append(<<>>, t) # <<>> /\ Len(Append(<<>>, t)) <= 1
           /\ Head(Append(<<>>, t)) = t
OBVIOUS

LEMMA LastTask ==
    ASSUME NEW T, NEW q \in Seq(T), q # <<>>, Len(q) <= 1 PROVE Tail(q) = <<>>
OBVIOUS

LEMMA SessionOfParts ==
    ASSUME NEW q \in Seq(Saves), NEW a
    PROVE  /\ SessionOf(<<>>, a)
           /\ SessionOf(q, a) /\ q # <<>> => SessionOf(Tail(q), a)
           /\ SessionOf(q, a) /\ q # <<>> /\ Head(q) # OwnSave => Head(q).auth = a
           /\ \A s \in Saves : SessionOf(q, a) /\ (s = OwnSave \/ s.auth = a) =>
                 SessionOf(Append(q, s), a)
<1>1. SessionOf(<<>>, a)
  BY DEF SessionOf
<1>2. ASSUME SessionOf(q, a), q # <<>>
      PROVE  SessionOf(Tail(q), a) /\ (Head(q) # OwnSave => Head(q).auth = a)
  <2>1. /\ Len(q) \in Nat /\ 1 <= Len(q) /\ Len(Tail(q)) = Len(q) - 1 /\ Head(q) = q[1]
        /\ \A k \in 1..(Len(q) - 1) : Tail(q)[k] = q[k + 1]
    BY <1>2, TailIs
  <2>2. \A k \in 1..Len(Tail(q)) : k + 1 \in 1..Len(q) /\ Tail(q)[k] = q[k + 1]
    BY <2>1
  <2>3. 1 \in 1..Len(q)
    BY <2>1
  <2> QED
    BY <1>2, <2>1, <2>2, <2>3 DEF SessionOf
<1>3. ASSUME SessionOf(q, a), NEW s \in Saves, s = OwnSave \/ s.auth = a
      PROVE  SessionOf(Append(q, s), a)
  <2>1. /\ Len(q) \in Nat /\ Len(Append(q, s)) = Len(q) + 1
        /\ \A k \in 1..Len(q) : Append(q, s)[k] = q[k]
        /\ Append(q, s)[Len(q) + 1] = s
    BY AppendIs
  <2>2. \A k \in 1..Len(Append(q, s)) : k \in 1..Len(q) \/ k = Len(q) + 1
    BY <2>1
  <2> QED
    BY <1>3, <2>1, <2>2 DEF SessionOf
<1> QED
  BY <1>1, <1>2, <1>3

\* With nothing else under way, everything is about the current instance.
LEMMA NothingIsOurs ==
    ASSUME NoRequests, currentUser \in Instances PROVE Ours
BY DEF NoRequests, Ours, InstanceQuiet, Idle, SessionOf

\* What no instance has been made for has no edits.
Blank == \A i \in Instances : i \notin 1..made => pending[i] = NoEdit

LEMMA TabsFrame ==
    ASSUME InTabs, UNCHANGED <<currentUser, screen, entering, token, sessions, keychain,
                               cutShort>>,
           file' # NoFile, InTurn', Ours'
    PROVE  OneThing'
BY DEF InTabs, OneThing, SessionOK

LEMMA ModeFrame ==
    ASSUME OneThing,
           UNCHANGED <<instanceVars, controllerVars, diskVars, uiVars, checking,
                       unfollowing, sessions, cutShort>>
    PROVE  OneThing'
BY DEF OneThing, AtLogin, LoggingIn, LoggingOut, InTabs, NoRequests, Only, SessionOK,
       InTurn, Ours, InstanceQuiet, instanceVars, controllerVars, diskVars, uiVars

-----------------------------------------------------------------------------
(***************************************************************************)
(* What is under way stays about the current instance: this needs no one   *)
(* to be patient, only that the instance and its session stay.             *)
(***************************************************************************)
LEMMA BusyIsOurs ==
    ASSUME IInv, Ours, NEW i \in Instances, ~InstanceQuiet(i)
    PROVE  /\ i = currentUser /\ currentUser \in 1..made /\ currentUser # 0
           /\ pending \in [Instances -> Edits] /\ queue \in [Instances -> Seq(Saves)]
           /\ sending \in [Instances -> Sendings]
<1>1. i = currentUser
  BY DEF Ours
<1>2. currentUser \in 1..made
  BY <1>1, IsCurrent DEF IInv, Instances
<1> QED
  BY <1>1, <1>2 DEF IInv, UserInv, UserTypeOK, InstancesOK

LEMMA OursFrame ==
    ASSUME Ours, UNCHANGED <<queue, sending, checking, unfollowing>>,
           objects' \subseteq objects,
           currentUser' = currentUser, token'[currentUser] = token[currentUser],
           account'[currentUser] = account[currentUser]
    PROVE  Ours'
BY DEF Ours, InstanceQuiet

LEMMA UpdateUserOurs ==
    ASSUME IInv, Ours, NEW name, UpdateUser(name), Elsewhere PROVE Ours'
<1>1. currentUser \in Instances /\ queue \in [Instances -> Seq(Saves)]
  BY IsCurrent DEF UpdateUser, MayUseUser, IInv, UserInv, UserTypeOK, InstancesOK
<1>2. /\ queue' = [queue EXCEPT ![currentUser] = Append(queue[currentUser], OwnSave)]
      /\ UNCHANGED <<account, token, sending, currentUser, objects, checking, unfollowing>>
  BY DEF UpdateUser, Elsewhere, followVars, controllerVars, uiVars
<1>3. OwnSave \in Saves
  BY DEF OwnSave, Saves, Ids
<1>4. SessionOf(Append(queue[currentUser], OwnSave), token[currentUser])
  BY <1>1, <1>3, SessionOfParts DEF Ours
<1>5. /\ \A j \in Instances : j # currentUser => queue'[j] = queue[j]
      /\ SessionOf(queue'[currentUser], token[currentUser])
  BY <1>1, <1>2, <1>4
<1> QED
  BY <1>2, <1>5 DEF Ours, InstanceQuiet

LEMMA SaveTurnOurs ==
    ASSUME IInv, Ours, NEW i \in Instances, SaveTurn(i), Elsewhere PROVE Ours'
<1>1. /\ queue[i] # <<>> /\ sending' = [sending EXCEPT ![i].phase = "lookup"]
      /\ UNCHANGED <<account, token, queue, currentUser, objects, checking, unfollowing>>
  BY DEF SaveTurn, Elsewhere, followVars, uiVars
<1>2. i = currentUser /\ sending \in [Instances -> Sendings]
  BY <1>1, BusyIsOurs DEF InstanceQuiet
<1>3. /\ \A j \in Instances : j # i => sending'[j] = sending[j]
      /\ sending'[i].phase = "lookup"
  BY <1>1, <1>2 DEF Sendings
<1> QED
  BY <1>1, <1>2, <1>3 DEF Ours, InstanceQuiet

LEMMA LookupOurs ==
    ASSUME IInv, Ours, Lookup, Elsewhere
    PROVE  Ours' /\ Head(dataQueue).who = currentUser
<1> DEFINE i == Head(dataQueue).who
           save(allowed) == [phase |-> IF allowed THEN "request" ELSE "failed",
                             name |-> pending[i].name, edit |-> pending[i].edit,
                             auth |-> IF current[i] THEN token[i] ELSE TokenOf(currentUser)]
<1>1. /\ dataQueue # <<>> /\ Head(dataQueue).kind = "lookup"
      /\ UNCHANGED <<account, token, currentUser, objects, checking, unfollowing>>
  BY DEF Lookup, Elsewhere, followVars, uiVars
<1>2. \/ /\ sending' = [sending EXCEPT ![i] = Idle]
         /\ queue' = [queue EXCEPT ![i] = Tail(@)]
         /\ pending' = pending
      \/ \E allowed \in BOOLEAN :
            /\ sending' = [sending EXCEPT ![i] = save(allowed)]
            /\ pending' = [pending EXCEPT ![i] = NoEdit]
            /\ queue' = queue
  BY Zenon DEF Lookup, Started, MayBeSaved
<1>3. TaskOK(Head(dataQueue), made, sending) /\ 1..made \subseteq Instances
  BY <1>1, FirstTask DEF IInv, UserInv
<1>4. i \in Instances /\ sending[i].phase = "lookup"
  BY <1>1, <1>3 DEF TaskOK
<1>5. /\ i = currentUser /\ currentUser # 0
      /\ sending \in [Instances -> Sendings] /\ queue \in [Instances -> Seq(Saves)]
      /\ pending \in [Instances -> Edits]
  BY <1>4, BusyIsOurs DEF InstanceQuiet, Idle
<1> HIDE DEF i
<1>6. TokenOf(currentUser) = token[currentUser]
  BY <1>5 DEF TokenOf
<1>7. queue[i] # <<>>
  BY <1>4 DEF IInv, UserInv, Shape
<1> DEFINE OnlyI ==
              /\ \A j \in Instances : j # i => sending'[j] = sending[j] /\ queue'[j] = queue[j]
              /\ sending'[i].phase = "request" => sending'[i].auth = token[i]
              /\ queue'[i] \in {queue[i], Tail(queue[i])}
<1>8. OnlyI
  <2>1. CASE /\ sending' = [sending EXCEPT ![i] = Idle]
             /\ queue' = [queue EXCEPT ![i] = Tail(@)]
    BY <1>4, <1>5, <2>1 DEF Idle
  <2>2. ASSUME NEW allowed \in BOOLEAN, sending' = [sending EXCEPT ![i] = save(allowed)],
               queue' = queue
        PROVE  OnlyI
    BY <1>4, <1>5, <1>6, <2>2
  <2> QED
    BY <1>2, <2>1, <2>2
<1>9. SessionOf(queue'[i], token[i])
  <2>1. queue[i] \in Seq(Saves) /\ queue[i] # <<>> /\ SessionOf(queue[i], token[i])
    BY <1>4, <1>5, <1>7 DEF Ours
  <2>2. SessionOf(Tail(queue[i]), token[i])
    BY <2>1, SessionOfParts
  <2> QED
    BY <1>8, <2>1, <2>2
<1>10. Ours'
  BY <1>1, <1>5, <1>8, <1>9 DEF Ours, InstanceQuiet
<1> QED
  BY <1>5, <1>10 DEF i

LEMMA BatchTurnOurs ==
    ASSUME IInv, Ours, NEW i \in Instances, BatchTurn(i), Elsewhere PROVE Ours'
<1> DEFINE save == [phase |-> "request", name |-> pending[i].name, edit |-> pending[i].edit,
                    auth |-> IF current[i] THEN token[i] ELSE Head(queue[i]).auth]
<1>1. /\ queue[i] # <<>> /\ Head(queue[i]) # OwnSave
      /\ sending' = [sending EXCEPT ![i] = save]
      /\ UNCHANGED <<account, token, queue, currentUser, objects, checking, unfollowing>>
  BY DEF BatchTurn, Started, Elsewhere, followVars, controllerVars, uiVars
<1>2. /\ i = currentUser /\ queue \in [Instances -> Seq(Saves)]
      /\ sending \in [Instances -> Sendings]
  BY <1>1, BusyIsOurs DEF InstanceQuiet
<1>3. save.auth = token[i]
  BY <1>1, <1>2, SessionOfParts DEF Ours
<1> HIDE DEF save
<1> QED
  BY <1>1, <1>2, <1>3 DEF Ours, InstanceQuiet

\* The server's answer, or none.
LEMMA AnswerOurs ==
    ASSUME IInv, Ours, NEW i \in Instances, Execute(i) \/ RequestLost(i), Elsewhere
    PROVE  Ours' /\ i = currentUser
<1>1. PICK phase \in {"saved", "failed"} : sending' = [sending EXCEPT ![i].phase = phase]
  BY DEF Execute, RequestLost
<1>2. /\ sending[i].phase \in {"request", "saved"}
      /\ UNCHANGED <<account, token, queue, currentUser, objects, checking, unfollowing>>
  BY DEF Execute, RequestLost, Elsewhere, followVars, controllerVars, uiVars
<1>3. i = currentUser /\ sending \in [Instances -> Sendings]
  BY <1>2, BusyIsOurs DEF InstanceQuiet, Idle
<1>4. /\ \A j \in Instances : j # i => sending'[j] = sending[j]
      /\ sending'[i].phase # "request"
  BY <1>1, <1>3 DEF Sendings
<1> QED
  BY <1>2, <1>3, <1>4 DEF Ours, InstanceQuiet

\* The end of a task keeps what each new object is about.
LEMMA EndTaskObjects ==
    ASSUME UserTypeOK, NEW i, NEW ok, EndTask(i, ok)
    PROVE  \A o \in objects' : \E p \in objects :
              o.id = p.id /\ o.who = p.who /\ o.auth = p.auth
<1>1. objects \subseteq NewObjects
  BY DEF UserTypeOK, ScreensOK
<1>2. \A o \in objects' : o \in objects \/ \E p \in objects : o = [p EXCEPT !.phase = "create"]
  BY DEF EndTask
<1>3. \A p \in NewObjects : LET o == [p EXCEPT !.phase = "create"]
                            IN  o.id = p.id /\ o.who = p.who /\ o.auth = p.auth
  BY DEF NewObjects
<1>4. ASSUME NEW o \in objects', o \notin objects
      PROVE  \E p \in objects : o.id = p.id /\ o.who = p.who /\ o.auth = p.auth
  <2>1. PICK p \in objects : o = [p EXCEPT !.phase = "create"]
    BY <1>2, <1>4
  <2> QED
    BY <1>1, <1>3, <2>1
<1> QED
  BY <1>4

LEMMA EndTaskOurs ==
    ASSUME IInv, Ours, currentUser \in Instances, queue[currentUser] # <<>>,
           NEW ok, EndTask(currentUser, ok),
           sending' = [sending EXCEPT ![currentUser] = Idle],
           UNCHANGED <<account, token, currentUser, checking, unfollowing>>
    PROVE  Ours'
<1> DEFINE i == currentUser
<1>1. /\ queue \in [Instances -> Seq(Saves)] /\ sending \in [Instances -> Sendings]
      /\ UserTypeOK
  BY DEF IInv, UserInv, UserTypeOK, InstancesOK
<1>2. \A o \in objects' : \E p \in objects : o.who = p.who /\ o.auth = p.auth
  BY <1>1, EndTaskObjects
<1>3. queue' = [queue EXCEPT ![i] = Tail(@)]
  BY DEF EndTask
<1>4. /\ \A j \in Instances : j # i => sending'[j] = sending[j] /\ queue'[j] = queue[j]
      /\ sending'[i].phase # "request" /\ queue'[i] = Tail(queue[i])
  BY <1>1, <1>3 DEF Idle
<1>5. SessionOf(queue'[i], token[i])
  BY <1>1, <1>4, SessionOfParts DEF Ours
<1> QED
  BY <1>2, <1>4, <1>5 DEF Ours, InstanceQuiet

LEMMA HandleResultOurs ==
    ASSUME IInv, Ours, NEW i \in Instances, HandleResult(i), Elsewhere
    PROVE  Ours' /\ i = currentUser
<1> DEFINE ok == sending[i].phase = "saved"
<1>1. /\ sending[i].phase \in {"saved", "failed"}
      /\ UNCHANGED <<account, token, currentUser, checking, unfollowing>>
  BY DEF HandleResult, Elsewhere, followVars
<1>2. /\ i = currentUser /\ sending \in [Instances -> Sendings] /\ queue[i] # <<>>
  BY <1>1, BusyIsOurs DEF InstanceQuiet, Idle, IInv, UserInv, Shape
<1>3. CASE Persisted(i)
  <2>1. /\ \E phase \in {"persist", "persistFailed"} :
              sending' = [sending EXCEPT ![i].phase = phase]
        /\ UNCHANGED <<queue, objects>>
    BY <1>3 DEF HandleResult
  <2>2. /\ \A j \in Instances : j # i => sending'[j] = sending[j]
        /\ sending'[i].phase # "request"
    BY <1>2, <2>1 DEF Sendings
  <2> QED
    BY <1>1, <1>2, <2>1, <2>2 DEF Ours, InstanceQuiet
<1>4. CASE ~Persisted(i)
  <2>1. EndTask(i, ok) /\ sending' = [sending EXCEPT ![i] = Idle]
    BY <1>4 DEF HandleResult
  <2> HIDE DEF ok
  <2> QED
    BY <1>1, <1>2, <2>1, EndTaskOurs
<1> QED
  BY <1>2, <1>3, <1>4

LEMMA CollectUserOurs ==
    ASSUME IInv, Ours, currentUser \in Instances, NEW o \in objects, CollectUser(o), Elsewhere
    PROVE  Ours'
<1>1. PICK phase \in {"batched", "create"} :
          objects' = (objects \ {o}) \cup {[o EXCEPT !.phase = phase]}
  BY DEF CollectUser
<1>2. UNCHANGED <<account, token, sending, currentUser, checking, unfollowing>>
  BY DEF CollectUser, Elsewhere, followVars, controllerVars
<1>3. /\ o.who = currentUser /\ o.auth = token[currentUser] /\ o \in NewObjects
      /\ queue \in [Instances -> Seq(Saves)]
  BY DEF Ours, IInv, UserInv, UserTypeOK, ScreensOK, InstancesOK
<1>4. \/ queue' = queue
      \/ queue' = [queue EXCEPT ![currentUser] = Append(queue[currentUser], BatchFor(o))]
  BY <1>3 DEF CollectUser
<1>5. BatchFor(o) \in Saves /\ BatchFor(o).auth = token[currentUser]
  BY <1>3 DEF BatchFor, Saves, NewObjects
<1>6. SessionOf(Append(queue[currentUser], BatchFor(o)), token[currentUser])
  BY <1>3, <1>5, SessionOfParts DEF Ours
<1>7. /\ \A j \in Instances : j # currentUser => queue'[j] = queue[j]
      /\ SessionOf(queue'[currentUser], token[currentUser])
  BY <1>3, <1>4, <1>6 DEF Ours
<1>8. \A p \in objects' : p.who = currentUser /\ p.auth = token[currentUser]
  <2>1. LET p == [o EXCEPT !.phase = phase]
        IN  p.who = currentUser /\ p.auth = token[currentUser]
    BY <1>3 DEF NewObjects
  <2> QED
    BY <1>1, <1>3, <2>1 DEF Ours
<1> QED
  BY <1>2, <1>3, <1>7, <1>8 DEF Ours, InstanceQuiet

\* The requests of the follow button come and go, about the current user.
LEMMA RequestsOurs ==
    ASSUME Ours, UNCHANGED <<instanceVars, currentUser>>,
           \A o \in objects' : o.who = currentUser /\ o.auth = token[currentUser],
           \A q \in checking' \cup unfollowing' :
              q.by = account[currentUser] /\ q.auth = token[currentUser]
    PROVE  Ours'
BY DEF Ours, InstanceQuiet, instanceVars

LEMMA QueryIsOurs ==
    ASSUME currentUser # 0, NEW n
    PROVE  FollowQuery(n).by = account[currentUser] /\ FollowQuery(n).auth = token[currentUser]
BY DEF FollowQuery, TokenOf

LEMMA OpenProfileOurs ==
    ASSUME Ours, OpenProfile PROVE Ours'
<1>1. /\ UNCHANGED <<userVars, unfollowing>> /\ currentUser # 0
      /\ checking' = checking \cup {FollowQuery(opened')}
  BY DEF OpenProfile, FirstCheck, MayUseUser
<1>2. \A q \in checking' \cup unfollowing' :
          q.by = account[currentUser] /\ q.auth = token[currentUser]
  BY <1>1, QueryIsOurs DEF Ours
<1> QED
  BY <1>1, <1>2, RequestsOurs DEF userVars, controllerVars, uiVars, Ours

LEMMA DidFollowOurs ==
    ASSUME Ours, DidFollow PROVE Ours'
<1> DEFINE follow == NewObject(<<taps', "follow">>)
           notice == NewObject(<<taps', "notice">>)
<1>1. /\ UNCHANGED <<instanceVars, controllerVars, checking>> /\ currentUser # 0
      /\ unfollowing' \subseteq unfollowing \cup {FollowQuery(taps')}
      /\ objects' \subseteq objects \cup {follow, notice}
  BY DEF DidFollow, MayUseUser
<1>2. \A o \in {follow, notice} : o.who = currentUser /\ o.auth = token[currentUser]
  BY <1>1 DEF NewObject, TokenOf
<1> HIDE DEF follow, notice
<1>3. \A q \in checking' \cup unfollowing' :
          q.by = account[currentUser] /\ q.auth = token[currentUser]
  BY <1>1, QueryIsOurs DEF Ours
<1>4. \A o \in objects' : o.who = currentUser /\ o.auth = token[currentUser]
  BY <1>1, <1>2 DEF Ours
<1> QED
  BY <1>1, <1>3, <1>4, RequestsOurs DEF controllerVars

LEMMA CheckOurs ==
    ASSUME Ours, NEW q \in checking, AnswerCheck(q) \/ ShowCheck(q) PROVE Ours'
<1>1. /\ UNCHANGED <<instanceVars, controllerVars, uiVars, unfollowing>>
      /\ \E found : checking' \subseteq checking \cup {Answered(q, found)}
  BY DEF AnswerCheck, ShowCheck, userVars
<1> QED
  BY <1>1, RequestsOurs DEF controllerVars, uiVars, Ours, Answered

LEMMA UnfollowOurs ==
    ASSUME Ours, NEW q \in unfollowing,
           AnswerUnfollow(q) \/ Delete(q) \/ UnfollowLost(q)
    PROVE  Ours'
<1>1. /\ UNCHANGED <<instanceVars, controllerVars, uiVars, checking>>
      /\ \E found : unfollowing' \subseteq unfollowing \cup {Answered(q, found)}
  BY DEF AnswerUnfollow, Delete, UnfollowLost, userVars
<1> QED
  BY <1>1, RequestsOurs DEF controllerVars, uiVars, Ours, Answered

-----------------------------------------------------------------------------
\* The modes, at the start and step by step.
LEMMA ModeInit == Init => OneThing /\ Blank
<1> SUFFICES ASSUME Init PROVE OneThing /\ Blank
  OBVIOUS
<1> DEFINE in == scenario.start # "nobody"
<1>1. /\ UserInv /\ made = IF in THEN 1 ELSE 0
      /\ 1 \in Instances /\ currentUser = made
      /\ file = [account |-> scenario.start, saved |-> 0]
      /\ dataQueue = <<>> /\ entering = {}
      /\ token[1] = (IF in THEN 1 ELSE 0) /\ keychain = token[1]
      /\ sessions = (IF in THEN {1} ELSE {})
      /\ screen = IF in THEN "tabs" ELSE "login"
  BY UserInit, InstancesNat DEF Init, InitUser, Instances
<1>2. NoRequests
  BY DEF Init, InitUser, NoRequests, InstanceQuiet
<1>3. Blank
  BY DEF Init, InitUser, Blank
<1>4. CASE in
  <2>1. file # NoFile /\ currentUser = 1 /\ SessionOK
    BY <1>1, <1>4 DEF NoFile, SessionOK
  <2>2. Ours
    BY <1>1, <1>2, <2>1, NothingIsOurs
  <2> QED
    BY <1>1, <1>3, <1>4, <2>1, <2>2 DEF OneThing, InTabs, InTurn
<1>5. CASE ~in
  BY <1>1, <1>2, <1>3, <1>5 DEF OneThing, AtLogin, NoFile
<1> QED
  BY <1>4, <1>5

-----------------------------------------------------------------------------
(***************************************************************************)
(* The login screen, and the taps of someone patient.                      *)
(***************************************************************************)
LEMMA EnterMode ==
    ASSUME IInv, OneThing, scenario.patient, Patiently, NEW u, NEW kind, Enter(u, kind),
           Elsewhere
    PROVE  OneThing'
<1>1. AtLogin /\ entering = {}
  BY BusyInTabs DEF Enter, MayTap, Patiently, Quiet, QuietUser, InTabs
<1>2. entering' = {[user |-> u, kind |-> kind, n |-> entries']}
  BY <1>1 DEF Enter
<1>3. AtLogin'
  BY <1>1, <1>2 DEF Enter, Elsewhere, AtLogin, NoRequests, InstanceQuiet, instanceVars,
                    controllerVars, diskVars, followVars
<1> QED
  BY <1>3 DEF OneThing

LEMMA EnteringAtLogin == ASSUME OneThing, entering # {} PROVE AtLogin
BY DEF OneThing, LoggingIn, LoggingOut, InTabs

LEMMA AdmitMode ==
    ASSUME IInv, OneThing, Blank, NEW r \in entering, Admit(r), Elsewhere
    PROVE  OneThing'
<1> DEFINE t == Task("enter", made')
<1>1. AtLogin
  BY EnteringAtLogin
<1>2. /\ made' = made + 1 /\ made' \in Instances /\ made \in Nat
      /\ token \in [Instances -> {0} \cup Tokens]
  BY InstancesNat DEF Admit, IInv, UserInv, UserTypeOK, InstancesOK, Instances
<1>3. /\ token' = [token EXCEPT ![made'] = issued']
      /\ sessions' = sessions \cup {issued'}
      /\ entering' = entering \ {r}
      /\ dataQueue' = Append(dataQueue, t)
      /\ UNCHANGED <<current, pending, queue, sending, currentUser, halfDone, diskVars,
                     screen, objects, cutShort, checking, unfollowing>>
  BY DEF Admit, Elsewhere, followVars
<1>4. dataQueue' # <<>> /\ Len(dataQueue') <= 1 /\ Head(dataQueue') = t
  BY <1>1, <1>3, OneTask DEF AtLogin
<1>5. t.kind = "enter" /\ t.who = made'
  BY DEF Task
<1> HIDE DEF t
<1>6. token'[made'] \in sessions'
  BY <1>2, <1>3
<1>7. pending'[made'] = NoEdit
  BY <1>2, <1>3 DEF Blank
<1>8. ~halfDone'
  BY <1>1, <1>3 DEF AtLogin, IInv, UserInv, TasksInv
<1>9. LoggingIn'
  BY <1>1, <1>3, <1>4, <1>5, <1>6, <1>7, <1>8
  DEF AtLogin, LoggingIn, Only, NoRequests, InstanceQuiet, diskVars
<1> QED
  BY <1>9 DEF OneThing

LEMMA RefuseMode ==
    ASSUME OneThing, NEW r \in entering, Refuse(r), Elsewhere PROVE OneThing'
<1>1. AtLogin
  BY EnteringAtLogin
<1>2. \A p, s \in entering' : p = s
  BY <1>1 DEF Refuse, AtLogin
<1>3. AtLogin'
  BY <1>1, <1>2 DEF Refuse, Elsewhere, AtLogin, NoRequests, InstanceQuiet, instanceVars,
                    controllerVars, diskVars, followVars
<1> QED
  BY <1>3 DEF OneThing

LEMMA SignUpReplyLostMode ==
    ASSUME OneThing, NEW r \in entering, SignUpReplyLost(r), Elsewhere PROVE OneThing'
BY ModeFrame DEF SignUpReplyLost, Elsewhere, followVars

LEMMA DidLogoutMode ==
    ASSUME IInv, OneThing, scenario.patient, Patiently, DidLogout, Elsewhere
    PROVE  OneThing'
<1> DEFINE t == Task("logout", 0)
<1>1. InTabs /\ Quiet
  BY BusyInTabs DEF DidLogout, MayTap, Patiently, Quiet, QuietUser
<1>2. /\ dataQueue' = Append(dataQueue, t)
      /\ UNCHANGED <<instanceVars, currentUser, halfDone, diskVars, uiVars, sessions,
                     cutShort, checking, unfollowing>>
  BY DEF DidLogout, Elsewhere, followVars, serverVars
<1>3. dataQueue' # <<>> /\ Len(dataQueue') <= 1 /\ Head(dataQueue') = t
  BY <1>1, <1>2, OneTask DEF Quiet, QuietUser
<1>4. t.kind = "logout"
  BY DEF Task
<1> HIDE DEF t
<1>5. NoRequests'
  BY <1>1, <1>2 DEF Quiet, QuietUser, NoRequests, InstanceQuiet, instanceVars, uiVars
<1>6. LoggingOut'
  BY <1>1, <1>2, <1>3, <1>4, <1>5
  DEF LoggingOut, Only, InTabs, SessionOK, instanceVars, uiVars, diskVars
<1> QED
  BY <1>6 DEF OneThing

LEMMA UpdateUserMode ==
    ASSUME IInv, OneThing, scenario.patient, Patiently, NEW name, UpdateUser(name),
           Elsewhere
    PROVE  OneThing'
<1>1. InTabs /\ Quiet
  BY BusyInTabs DEF UpdateUser, MayUseUser, MayTap, Patiently, Quiet, QuietUser
<1>2. UNCHANGED <<token, controllerVars, diskVars, uiVars, sessions, cutShort>>
  BY DEF UpdateUser, serverVars
<1>3. Ours'
  BY <1>1, UpdateUserOurs DEF InTabs
<1>4. InTurn'
  BY <1>1, <1>2 DEF Quiet, QuietUser, InTurn, controllerVars
<1>5. OneThing'
  BY <1>1, <1>2, <1>3, <1>4, TabsFrame DEF InTabs, controllerVars, diskVars, uiVars
<1> QED
  BY <1>5

-----------------------------------------------------------------------------
(***************************************************************************)
(* The saves of the current instance.                                      *)
(***************************************************************************)
\* Whatever is under way about instance i means that it is the current one.
LEMMA BusyIsCurrent ==
    ASSUME IInv, OneThing, NEW i \in Instances, ~InstanceQuiet(i)
    PROVE  /\ InTabs /\ i = currentUser /\ currentUser \in Instances
           /\ pending \in [Instances -> Edits] /\ queue \in [Instances -> Seq(Saves)]
           /\ sending \in [Instances -> Sendings] /\ i \in 1..made
           /\ ~Waiting(sending[i]) => dataQueue = <<>>
<1>1. InTabs /\ i = currentUser
  BY BusyInTabs
<1>2. currentUser \in Instances /\ currentUser \in 1..made
  BY <1>1, IsCurrent DEF IInv, InTabs
<1>3. ~Waiting(sending[i]) => dataQueue = <<>>
  BY <1>1, FreeQueue DEF IInv
<1> QED
  BY <1>1, <1>2, <1>3 DEF IInv, UserInv, UserTypeOK, InstancesOK

LEMMA SaveTurnMode ==
    ASSUME IInv, OneThing, NEW i \in Instances, SaveTurn(i), Elsewhere
    PROVE  OneThing'
<1> DEFINE t == Task("lookup", i)
<1>1. /\ queue[i] # <<>> /\ sending[i] = Idle
      /\ dataQueue' = Append(dataQueue, t)
      /\ UNCHANGED <<token, currentUser, diskVars, uiVars, sessions, cutShort>>
  BY DEF SaveTurn, serverVars, boundVars
<1>2. /\ InTabs /\ i = currentUser /\ dataQueue = <<>>
  BY <1>1, BusyIsCurrent DEF InstanceQuiet, Waiting, Idle
<1>3. dataQueue' # <<>> /\ Len(dataQueue') <= 1 /\ Head(dataQueue') = t
  BY <1>1, <1>2, OneTask
<1>4. t.kind = "lookup" /\ t.who = i
  BY DEF Task
<1> HIDE DEF t
<1>5. InTurn'
  BY <1>1, <1>2, <1>3, <1>4 DEF InTurn
<1>6. Ours'
  BY <1>2, SaveTurnOurs DEF InTabs
<1>7. OneThing'
  BY <1>1, <1>2, <1>5, <1>6, TabsFrame DEF InTabs, diskVars, uiVars
<1> QED
  BY <1>7

LEMMA LookupMode ==
    ASSUME IInv, OneThing, Lookup, Elsewhere
    PROVE  OneThing'
<1>1. /\ dataQueue # <<>> /\ Head(dataQueue).kind = "lookup"
      /\ dataQueue' = Tail(dataQueue)
      /\ UNCHANGED <<token, currentUser, diskVars, uiVars, sessions, cutShort>>
  BY DEF Lookup, serverVars, boundVars
<1>2. /\ dataQueue \in Seq(Tasks(made)) /\ TaskOK(Head(dataQueue), made, sending)
      /\ 1..made \subseteq Instances
  BY <1>1, FirstTask DEF IInv, UserInv
<1>3. PICK i \in Instances : sending[i].phase = "lookup"
  BY <1>1, <1>2 DEF TaskOK
<1>4. InTabs
  BY <1>3, BusyIsCurrent DEF InstanceQuiet, Idle
<1>5. dataQueue' = <<>>
  BY <1>1, <1>2, <1>4, LastTask DEF InTabs, InTurn
<1>6. Ours'
  BY <1>4, LookupOurs DEF InTabs
<1>7. OneThing'
  BY <1>1, <1>4, <1>5, <1>6, TabsFrame DEF InTabs, InTurn, diskVars, uiVars
<1> QED
  BY <1>7

LEMMA BatchTurnMode ==
    ASSUME IInv, OneThing, NEW i \in Instances, BatchTurn(i), Elsewhere
    PROVE  OneThing'
<1>1. /\ queue[i] # <<>>
      /\ UNCHANGED <<token, controllerVars, diskVars, uiVars, sessions, cutShort>>
  BY DEF BatchTurn, serverVars, boundVars
<1>2. InTabs
  BY <1>1, BusyIsCurrent DEF InstanceQuiet
<1>3. Ours'
  BY <1>2, BatchTurnOurs DEF InTabs
<1>4. OneThing'
  BY <1>1, <1>2, <1>3, TabsFrame DEF InTabs, InTurn, controllerVars, diskVars, uiVars
<1> QED
  BY <1>4

\* The server's answer, or none.
LEMMA AnswerMode ==
    ASSUME IInv, OneThing, NEW i \in Instances, Execute(i) \/ RequestLost(i), Elsewhere
    PROVE  OneThing'
<1>1. /\ sending[i].phase \in {"request", "saved"}
      /\ UNCHANGED <<token, controllerVars, diskVars, uiVars, sessions, cutShort>>
  BY DEF Execute, RequestLost, serverVars, boundVars
<1>2. InTabs
  BY <1>1, BusyIsCurrent DEF InstanceQuiet, Idle
<1>3. Ours'
  BY <1>2, AnswerOurs DEF InTabs
<1>4. OneThing'
  BY <1>1, <1>2, <1>3, TabsFrame DEF InTabs, InTurn, controllerVars, diskVars, uiVars
<1> QED
  BY <1>4

\* The result of a save of the current instance is always written to disk.
LEMMA ResultIsPersisted ==
    ASSUME IInv, OneThing, NEW i \in Instances, HandleResult(i)
    PROVE  /\ InTabs /\ i = currentUser /\ currentUser \in Instances /\ i \in 1..made
           /\ pending \in [Instances -> Edits] /\ sending \in [Instances -> Sendings]
           /\ queue \in [Instances -> Seq(Saves)] /\ dataQueue = <<>>
           /\ dataQueue' = Append(dataQueue, Task("persist", i))
           /\ sending' = [sending EXCEPT ![i].phase =
                 IF sending[i].phase = "saved" THEN "persist" ELSE "persistFailed"]
           /\ UNCHANGED <<queue, objects>>
<1>1. sending[i].phase \in {"saved", "failed"}
  BY DEF HandleResult
<1> ~InstanceQuiet(i) /\ ~Waiting(sending[i])
  BY <1>1 DEF InstanceQuiet, Waiting, Idle
<1>2. /\ InTabs /\ i = currentUser /\ currentUser \in Instances /\ i \in 1..made
      /\ pending \in [Instances -> Edits] /\ sending \in [Instances -> Sendings]
      /\ queue \in [Instances -> Seq(Saves)] /\ dataQueue = <<>>
  BY BusyIsCurrent
<1>3. current[i]
  BY <1>2 DEF IInv, UserInv, TasksInv, DiskInv, InTabs
<1> QED
  BY <1>2, <1>3 DEF HandleResult, Persisted

LEMMA HandleResultMode ==
    ASSUME IInv, OneThing, NEW i \in Instances, HandleResult(i), Elsewhere
    PROVE  OneThing'
<1> DEFINE t == Task("persist", i)
<1>1. /\ InTabs /\ i = currentUser /\ dataQueue = <<>>
      /\ dataQueue' = Append(dataQueue, t)
  BY ResultIsPersisted
<1>2. UNCHANGED <<token, currentUser, diskVars, screen, entering, sessions, cutShort>>
  BY DEF HandleResult, serverVars, boundVars
<1>3. dataQueue' # <<>> /\ Len(dataQueue') <= 1 /\ Head(dataQueue') = t
  BY <1>1, OneTask
<1>4. t.kind = "persist" /\ t.who = i
  BY DEF Task
<1> HIDE DEF t
<1>5. InTurn'
  BY <1>1, <1>2, <1>3, <1>4 DEF InTurn
<1>6. Ours'
  BY <1>1, HandleResultOurs DEF InTabs
<1>7. OneThing'
  BY <1>1, <1>2, <1>5, <1>6, TabsFrame DEF InTabs, diskVars
<1> QED
  BY <1>7

-----------------------------------------------------------------------------
(***************************************************************************)
(* The tasks of the data queue, and launches.                              *)
(***************************************************************************)
\* Which mode a task is done in.
LEMMA ModeOfTask ==
    ASSUME IInv, OneThing, dataQueue # <<>>
    PROVE  /\ dataQueue \in Seq(Tasks(made)) /\ TaskOK(Head(dataQueue), made, sending)
           /\ 1..made \subseteq Instances /\ Tail(dataQueue) = <<>>
           /\ Head(dataQueue).kind = "enter" => LoggingIn
           /\ Head(dataQueue).kind = "logout" => LoggingOut
           /\ Head(dataQueue).kind = "persist" => InTabs /\ Head(dataQueue).who = currentUser
<1>1. /\ dataQueue \in Seq(Tasks(made)) /\ TaskOK(Head(dataQueue), made, sending)
      /\ 1..made \subseteq Instances
  BY FirstTask DEF IInv, UserInv
<1>2. Len(dataQueue) <= 1
  BY DEF OneThing, AtLogin, LoggingIn, LoggingOut, InTabs, InTurn, Only
<1>3. Tail(dataQueue) = <<>>
  BY <1>1, <1>2, LastTask
<1> QED
  BY <1>1, <1>3 DEF OneThing, AtLogin, LoggingIn, LoggingOut, InTabs, InTurn, Only

LEMMA BecomeCurrentMode ==
    ASSUME IInv, OneThing, BecomeCurrent, Elsewhere
    PROVE  OneThing'
<1> DEFINE h == Head(dataQueue).who
<1>1. /\ dataQueue # <<>> /\ Head(dataQueue).kind \in {"enter", "persist"}
      /\ LoggedOut(LoggedOutFor(h), {h}) /\ keychain' = token[h]
      /\ UNCHANGED <<made, account, pending, queue, sending, currentUser, dataQueue, file,
                     uiVars, cutShort, checking, unfollowing>>
  BY DEF BecomeCurrent, Elsewhere, followVars, boundVars
<1>2. LoggedOutFor(h) = {}
  BY <1>1, ModeOfTask DEF LoggedOutFor, LoggingIn
<1>3. token \in [Instances -> {0} \cup Tokens]
  BY DEF IInv, UserInv, UserTypeOK, InstancesOK
<1>4. token' = token /\ sessions' = sessions
  BY <1>1, <1>2, <1>3 DEF LoggedOut
<1>6. CASE Head(dataQueue).kind = "enter"
  BY <1>1, <1>4, <1>6, ModeOfTask
  DEF OneThing, LoggingIn, NoRequests, InstanceQuiet, Only, uiVars
<1>7. CASE Head(dataQueue).kind = "persist"
  <2>1. InTabs /\ h = currentUser
    BY <1>1, <1>7, ModeOfTask
  <2>2. InTurn' /\ Ours'
    BY <1>1, <1>4, <2>1 DEF InTabs, InTurn, Ours, InstanceQuiet, uiVars
  <2>3. ~cutShort' => SessionOK'
    BY <1>1, <1>4, <2>1 DEF InTabs, SessionOK
  <2>4. InTabs'
    BY <1>1, <2>1, <2>2, <2>3 DEF InTabs, uiVars
  <2> QED
    BY <2>4 DEF OneThing
<1> QED
  BY <1>1, <1>6, <1>7

LEMMA LogOutMode ==
    ASSUME IInv, OneThing, LogOut, Elsewhere
    PROVE  OneThing'
<1>1. /\ dataQueue # <<>> /\ Head(dataQueue).kind = "logout" /\ halfDone' = TRUE
      /\ UNCHANGED <<made, pending, queue, sending, currentUser, dataQueue, file,
                     uiVars, cutShort, checking, unfollowing>>
  BY DEF LogOut, LoggedOut, Elsewhere, followVars, boundVars
<1>2. LoggingOut
  BY <1>1, ModeOfTask
<1>3. LoggingOut'
  BY <1>1, <1>2 DEF LoggingOut, NoRequests, InstanceQuiet, Only, uiVars
<1> QED
  BY <1>1, <1>3 DEF OneThing

LEMMA LoggedOutDoneMode ==
    ASSUME IInv, OneThing, LoggedOutDone, ProfileGone
    PROVE  OneThing'
<1>1. /\ dataQueue # <<>> /\ Head(dataQueue).kind = "logout" /\ dataQueue' = Tail(dataQueue)
      /\ currentUser' = 0 /\ file' = NoFile /\ screen' = "login"
      /\ UNCHANGED <<instanceVars, entering, objects, checking, unfollowing>>
  BY DEF LoggedOutDone, FileAfterLogOut, ProfileGone
<1>2. LoggingOut /\ dataQueue' = <<>>
  BY <1>1, ModeOfTask
<1>3. AtLogin'
  BY <1>1, <1>2 DEF LoggingOut, AtLogin, NoRequests, InstanceQuiet, instanceVars
<1> QED
  BY <1>1, <1>3 DEF OneThing, instanceVars

LEMMA SavedCurrentMode ==
    ASSUME IInv, OneThing, SavedCurrent, ProfileGone
    PROVE  OneThing'
<1> DEFINE h == Head(dataQueue).who
           ok == sending[h].phase = "persist"
<1>1. /\ dataQueue # <<>> /\ Head(dataQueue).kind \in {"enter", "persist"} /\ halfDone
      /\ dataQueue' = Tail(dataQueue) /\ currentUser' = h
      /\ file' = [account |-> account[h], saved |-> saved[h]]
      /\ UNCHANGED <<made, account, token, pending, keychain, entering, sessions, cutShort,
                     checking, unfollowing>>
  BY DEF SavedCurrent, ProfileGone, serverVars, boundVars
<1>2. /\ TaskOK(Head(dataQueue), made, sending) /\ 1..made \subseteq Instances
      /\ dataQueue' = <<>>
  BY <1>1, ModeOfTask
<1>3. /\ h \in 1..made /\ h \in Instances /\ account[h] \in Users /\ h # 0
      /\ Head(dataQueue).kind = "persist" => sending[h].phase \in {"persist", "persistFailed"}
  BY <1>1, <1>2, InstancesNat DEF TaskOK, IInv, UserInv, Shape, Instances
<1>4. file' # NoFile
  BY <1>1, <1>3, UsersType DEF NoFile
<1>6. CASE Head(dataQueue).kind = "enter"
  <2>1. LoggingIn /\ screen' = "tabs" /\ UNCHANGED <<queue, sending, objects>>
    BY <1>1, <1>6, ModeOfTask DEF SavedCurrent
  <2>2. Ours'
    BY <1>1, <1>3, <2>1
    DEF LoggingIn, NoRequests, InstanceQuiet, Idle, Ours, SessionOf
  <2>3. ~cutShort' => SessionOK'
    BY <1>1, <2>1 DEF LoggingIn, SessionOK
  <2>4. InTabs'
    BY <1>1, <1>2, <1>3, <1>4, <2>1, <2>2, <2>3 DEF LoggingIn, InTabs, InTurn
  <2> QED
    BY <2>4 DEF OneThing
<1>7. CASE Head(dataQueue).kind = "persist"
  <2>1. /\ InTabs /\ h = currentUser /\ UNCHANGED screen
        /\ sending' = [sending EXCEPT ![h] = Idle] /\ EndTask(h, ok)
    BY <1>1, <1>7, ModeOfTask DEF SavedCurrent
  <2>2. queue[h] # <<>>
    BY <1>3, <1>7 DEF IInv, UserInv, Shape
  <2> HIDE DEF h, ok
  <2>3. Ours'
    BY <1>1, <1>3, <2>1, <2>2, EndTaskOurs DEF InTabs
  <2>4. OneThing'
    BY <1>1, <1>2, <1>4, <2>1, <2>3, TabsFrame DEF InTabs, InTurn
  <2> QED
    BY <2>4
<1> QED
  BY <1>1, <1>6, <1>7

LEMMA RelaunchMode ==
    ASSUME IInv, OneThing, Relaunch
    PROVE  OneThing'
<1> DEFINE in == file # NoFile
<1>1. /\ Launched(file, keychain) /\ cutShort' = (cutShort \/ halfDone)
      /\ UNCHANGED <<diskVars, sessions>> /\ checking' = {} /\ unfollowing' = {}
  BY DEF Relaunch, Kill, serverVars
<1>2. /\ made' = (IF in THEN 1 ELSE 0) /\ currentUser' = made' /\ 1 \in Instances
      /\ dataQueue' = <<>> /\ entering' = {} /\ objects' = {}
      /\ screen' = IF in THEN "tabs" ELSE "login"
      /\ \A i \in Instances : pending'[i] = NoEdit /\ queue'[i] = <<>> /\ sending'[i] = Idle
  BY <1>1, InstancesNat DEF Launched, Instances
<1>3. NoRequests'
  BY <1>1, <1>2 DEF NoRequests, InstanceQuiet
<1>4. CASE in
  <2>1. token'[1] = keychain /\ currentUser' = 1
    BY <1>1, <1>2, <1>4 DEF Launched
  <2>2. ~cutShort' => keychain \in sessions
    BY <1>1, <1>4 DEF OneThing, AtLogin, LoggingIn, LoggingOut, InTabs, SessionOK
  <2>3. ~cutShort' => SessionOK'
    BY <1>1, <2>1, <2>2 DEF SessionOK, diskVars
  <2>4. Ours'
    BY <1>1, <1>2, <2>1 DEF Ours, InstanceQuiet, Idle, SessionOf
  <2>5. InTabs'
    BY <1>1, <1>2, <1>4, <2>1, <2>3, <2>4 DEF InTabs, InTurn, diskVars
  <2> QED
    BY <1>3, <2>5 DEF OneThing
<1>5. CASE ~in
  <2>1. AtLogin'
    BY <1>1, <1>2, <1>3, <1>5 DEF AtLogin, diskVars
  <2> QED
    BY <1>3, <2>1 DEF OneThing
<1> QED
  BY <1>4, <1>5

-----------------------------------------------------------------------------
(***************************************************************************)
(* New objects, and the follow button.                                     *)
(***************************************************************************)
LEMMA CollectUserMode ==
    ASSUME IInv, OneThing, NEW o \in objects, CollectUser(o), Elsewhere
    PROVE  OneThing'
<1>1. UNCHANGED <<token, controllerVars, diskVars, screen, entering, sessions, cutShort>>
  BY DEF CollectUser, serverVars, boundVars
<1>2. InTabs /\ currentUser \in Instances
  BY BusyInTabs, IsCurrent DEF InTabs, IInv
<1>3. Ours'
  BY <1>2, CollectUserOurs DEF InTabs
<1>4. OneThing'
  BY <1>1, <1>2, <1>3, TabsFrame DEF InTabs, InTurn, controllerVars, diskVars
<1> QED
  BY <1>4

LEMMA CreateMode ==
    ASSUME IInv, OneThing, NEW o \in objects, NEW copies, Create(o, copies), Elsewhere
    PROVE  OneThing'
<1>1. /\ UNCHANGED <<instanceVars, controllerVars, diskVars, screen, entering, sessions,
                     cutShort, checking, unfollowing>>
      /\ objects' \subseteq objects
  BY DEF Create, Elsewhere, followVars
<1>2. InTabs
  BY BusyInTabs
<1>3. Ours'
  BY <1>1, <1>2, OursFrame DEF InTabs, instanceVars, controllerVars
<1>4. OneThing'
  BY <1>1, <1>2, <1>3, TabsFrame DEF InTabs, InTurn, instanceVars, controllerVars, diskVars
<1> QED
  BY <1>4

\* The requests of the follow button come and go.
LEMMA RequestsMode ==
    ASSUME InTabs, Ours',
           UNCHANGED <<instanceVars, controllerVars, diskVars, screen, entering, sessions,
                       cutShort>>
    PROVE  OneThing'
<1>1. InTurn' /\ file' # NoFile
  BY DEF InTabs, InTurn, controllerVars, diskVars
<1> QED
  BY <1>1, TabsFrame DEF instanceVars, controllerVars, diskVars

LEMMA OpenProfileMode ==
    ASSUME IInv, OneThing, OpenProfile PROVE OneThing'
<1>1. UNCHANGED userVars /\ InTabs
  BY BusyInTabs DEF OpenProfile, MayUseUser, MayTap
<1>2. Ours'
  BY <1>1, OpenProfileOurs DEF InTabs
<1> QED
  BY <1>1, <1>2, RequestsMode DEF userVars, uiVars, serverVars, boundVars

LEMMA ShowAgainMode ==
    ASSUME IInv, OneThing, NEW n, ShowAgain(n) PROVE OneThing'
BY ModeFrame DEF ShowAgain, userVars, serverVars, boundVars

LEMMA DidFollowMode ==
    ASSUME IInv, OneThing, DidFollow PROVE OneThing'
<1>1. /\ UNCHANGED <<instanceVars, controllerVars, diskVars, screen, entering, serverVars,
                     cutShort>>
      /\ InTabs
  BY BusyInTabs DEF DidFollow, MayUseUser, MayTap
<1>2. Ours'
  BY <1>1, DidFollowOurs DEF InTabs
<1> QED
  BY <1>1, <1>2, RequestsMode DEF serverVars

LEMMA CheckMode ==
    ASSUME IInv, OneThing, NEW q \in checking, AnswerCheck(q) \/ ShowCheck(q)
    PROVE  OneThing'
<1>1. UNCHANGED <<instanceVars, controllerVars, diskVars, uiVars, sessions, cutShort>>
  BY DEF AnswerCheck, ShowCheck, userVars, serverVars, boundVars
<1>2. InTabs
  BY BusyInTabs
<1>3. Ours'
  BY <1>2, CheckOurs DEF InTabs
<1> QED
  BY <1>1, <1>2, <1>3, RequestsMode DEF uiVars

LEMMA UnfollowMode ==
    ASSUME IInv, OneThing, NEW q \in unfollowing,
           AnswerUnfollow(q) \/ Delete(q) \/ UnfollowLost(q)
    PROVE  OneThing'
<1>1. UNCHANGED <<instanceVars, controllerVars, diskVars, uiVars, sessions, cutShort>>
  BY DEF AnswerUnfollow, Delete, UnfollowLost, userVars, serverVars, boundVars
<1>2. InTabs
  BY BusyInTabs
<1>3. Ours'
  BY <1>2, UnfollowOurs DEF InTabs
<1> QED
  BY <1>1, <1>2, <1>3, RequestsMode DEF uiVars

-----------------------------------------------------------------------------
\* Edits are of instances that were made.
LEMMA BlankNext ==
    ASSUME IInv, Blank, Next PROVE Blank'
<1>1. /\ UserInv /\ pending \in [Instances -> Edits] /\ made \in Nat
      /\ \A i \in Instances : queue[i] # <<>> \/ sending[i].phase # "idle" => i \in 1..made
  BY InstancesNat DEF IInv, UserInv, UserTypeOK, InstancesOK, Shape
<1> SUFFICES ASSUME ~Relaunch
             PROVE  /\ made' \in {made, made + 1}
                    /\ \A i \in Instances : i \notin 1..made => pending'[i] = pending[i]
  <2>1. CASE Relaunch
    BY <2>1 DEF Relaunch, Kill, Launched, Blank
  <2>2. ASSUME made' \in {made, made + 1},
               \A i \in Instances : i \notin 1..made => pending'[i] = pending[i]
        PROVE  Blank'
    <3>1. \A i : i \notin 1..made' => i \notin 1..made
      BY <1>1, <2>2
    <3> QED
      BY <2>2, <3>1 DEF Blank
  <2> QED
    BY <2>1, <2>2
<1>2. CASE Tap
  <2>1. ASSUME NEW name, UpdateUser(name) PROVE currentUser \in 1..made
    BY <1>1, <2>1, IsCurrent DEF UpdateUser, MayUseUser
  <2>2. ASSUME NEW name, UpdateUser(name)
        PROVE  made' = made /\ \A i \in Instances : i \notin 1..made => pending'[i] = pending[i]
    BY <1>1, <2>1, <2>2 DEF UpdateUser
  <2> QED
    BY <1>2, <2>2 DEF Tap, Enter, DidLogout, OpenProfile,
       ShowAgain, DidFollow, instanceVars, userVars
<1>3. CASE Service
  <2>1. ASSUME NEW r, Admit(r) PROVE made' = made + 1 /\ pending' = pending
    BY <2>1 DEF Admit
  <2>2. ASSUME Lookup
        PROVE  made' = made /\ \A i \in Instances : i \notin 1..made => pending'[i] = pending[i]
    <3>1. Head(dataQueue).who \in 1..made
      BY <1>1, <2>2, FirstTask DEF Lookup, TaskOK, UserInv
    <3> QED
      BY <1>1, <2>2, <3>1 DEF Lookup, Started
  <2>3. ASSUME NEW i \in Instances, BatchTurn(i)
        PROVE  made' = made /\ \A j \in Instances : j \notin 1..made => pending'[j] = pending[j]
    BY <1>1, <2>3 DEF BatchTurn, Started
  <2>4. ASSUME NEW i \in Instances, HandleResult(i)
        PROVE  made' = made /\ \A j \in Instances : j \notin 1..made => pending'[j] = pending[j]
    BY <1>1, <2>4 DEF HandleResult
  <2>5. ASSUME NEW i, SaveTurn(i) \/ Execute(i) PROVE made' = made /\ pending' = pending
    BY <2>5 DEF SaveTurn, Execute
  <2>6. ASSUME BecomeCurrent \/ SavedCurrent \/ LogOut \/ LoggedOutDone
        PROVE  made' = made /\ pending' = pending
    BY <2>6 DEF BecomeCurrent, SavedCurrent, LogOut, LoggedOutDone, instanceVars
  <2>7. ASSUME NEW r, Refuse(r) \/ CollectUser(r) \/ Create(r, 1)
        PROVE  made' = made /\ pending' = pending
    BY <2>7 DEF Refuse, CollectUser, Create, instanceVars
  <2>8. ASSUME NEW q, AnswerCheck(q) \/ ShowCheck(q) \/ AnswerUnfollow(q) \/ Delete(q)
        PROVE  made' = made /\ pending' = pending
    BY <2>8 DEF AnswerCheck, ShowCheck, AnswerUnfollow, Delete, instanceVars, userVars
  <2> QED
    BY <1>3, <2>1, <2>2, <2>3, <2>4, <2>5, <2>6, <2>7, <2>8 DEF Service
<1>4. CASE Fault
  <2>1. ASSUME NEW i, RequestLost(i) \/ SignUpReplyLost(i) PROVE made' = made /\ pending' = pending
    BY <2>1 DEF RequestLost, SignUpReplyLost, instanceVars
  <2>2. ASSUME NEW o, NEW copies, Create(o, copies) PROVE made' = made /\ pending' = pending
    BY <2>2 DEF Create, instanceVars
  <2>3. ASSUME NEW q, ShowCheck(q) \/ UnfollowLost(q) PROVE made' = made /\ pending' = pending
    BY <2>3 DEF ShowCheck, UnfollowLost, instanceVars
  <2> QED
    BY <1>4, <2>1, <2>2, <2>3 DEF Fault
<1> QED
  BY <1>2, <1>3, <1>4 DEF Next

LEMMA ModeNext ==
    ASSUME IInv, OneThing, Blank, scenario.patient, Next PROVE OneThing'
<1>1. CASE Tap
  BY <1>1, EnterMode, DidLogoutMode, UpdateUserMode, OpenProfileMode, ShowAgainMode,
     DidFollowMode DEF Tap
<1>2. CASE Service
  BY <1>2, AdmitMode, RefuseMode, SaveTurnMode, LookupMode, BatchTurnMode, AnswerMode,
     HandleResultMode, BecomeCurrentMode, SavedCurrentMode, LogOutMode, LoggedOutDoneMode,
     CollectUserMode, CreateMode, CheckMode, UnfollowMode DEF Service
<1>3. CASE Fault
  BY <1>3, SignUpReplyLostMode, AnswerMode, CreateMode, CheckMode, UnfollowMode,
     RelaunchMode DEF Fault
<1> QED
  BY <1>1, <1>2, <1>3 DEF Next

-----------------------------------------------------------------------------
(***************************************************************************)
(* The edits of someone patient, without faults and kills: the last edit   *)
(* of a profile is on its row, or with the current instance and on its     *)
(* way, unless the last name asked for is taken.                           *)
(***************************************************************************)
Confirmed(u) == rows[u] = edited[u].edit \/ edited[u].name = "taken"

\* Edits that are nothing or the last ones.
PartOf(e, last) == /\ e.edit = 0 \/ e.edit = last.edit
                   /\ e.edit = 0 => e.name = "same"
                   /\ e.name = "same" \/ e.name = last.name

OnTheWay(c) ==
    \/ /\ pending[c].edit # 0 /\ queue[c] # <<>>
       /\ sending[c].phase \in {"idle", "lookup"}
    \/ sending[c].phase = "request" /\ sending[c].edit # 0

\* What instance c has of the last edits, and why its save may fail.
Has(c, last) ==
    /\ PartOf(pending[c], last) /\ PartOf(sending[c], last)
    /\ sending[c].phase \in {"request", "saved", "failed"} => pending[c] = NoEdit
    /\ sending[c].phase \in {"failed", "persistFailed"} => last.name = "taken"

EditsInv ==
    /\ ~cutShort
    /\ \A u \in Users :
          \/ Confirmed(u)
          \/ currentUser # 0 /\ account[currentUser] = u /\ OnTheWay(currentUser)
    /\ currentUser # 0 => Has(currentUser, edited[account[currentUser]])

EditsOK == faults = 0 /\ kills = 0 => EditsInv

LEMMA NothingIsPart == \A last : PartOf(NoEdit, last) /\ PartOf(Idle, last)
BY DEF PartOf, NoEdit, Idle

LEMMA QuietConfirmed ==
    ASSUME EditsInv, currentUser # 0 => InstanceQuiet(currentUser)
    PROVE  \A u \in Users : Confirmed(u)
BY DEF EditsInv, OnTheWay, InstanceQuiet, Idle

LEMMA EditsInit == Init => EditsOK
<1> SUFFICES ASSUME Init PROVE EditsInv
  BY DEF EditsOK
<1>1. UserInv /\ pending = [i \in Instances |-> NoEdit]
      /\ sending = [i \in Instances |-> Idle] /\ ~cutShort
  BY UserInit DEF Init, InitUser
<1>2. \A u \in Users : Confirmed(u)
  BY DEF Init, InitUser, Confirmed, NoEdit
<1>3. ASSUME currentUser # 0 PROVE Has(currentUser, edited[account[currentUser]])
  BY <1>1, <1>3, IsCurrent, NothingIsPart DEF Has, Idle
<1> QED
  BY <1>1, <1>2, <1>3 DEF EditsInv

LEMMA EditsFrame ==
    ASSUME EditsInv, UNCHANGED <<rows, edited, currentUser, pending, queue, sending, cutShort>>,
           currentUser # 0 => UNCHANGED account
    PROVE  EditsInv'
BY DEF EditsInv, Confirmed, OnTheWay, Has

\* The current instance, its edits and its save.
LEMMA CurrentEdits ==
    ASSUME IInv, OneThing, EditsInv, NEW i \in Instances, ~InstanceQuiet(i)
    PROVE  /\ InTabs /\ i = currentUser /\ currentUser \in Instances /\ currentUser # 0
           /\ pending \in [Instances -> Edits] /\ queue \in [Instances -> Seq(Saves)]
           /\ sending \in [Instances -> Sendings] /\ rows \in [Users -> Nat]
           /\ account[i] \in Users /\ token[i] \in sessions
           /\ Has(i, edited[account[i]])
           /\ sending[i].phase = "request" => sending[i].auth = token[i]
           /\ \A u \in Users : Confirmed(u) \/ (account[i] = u /\ OnTheWay(i))
<1>1. /\ InTabs /\ i = currentUser /\ currentUser \in Instances
      /\ pending \in [Instances -> Edits] /\ queue \in [Instances -> Seq(Saves)]
      /\ sending \in [Instances -> Sendings]
  BY BusyIsCurrent
<1>2. rows \in [Users -> Nat] /\ account[i] \in Users
  BY <1>1, IsCurrent DEF InTabs, IInv, UserInv, UserTypeOK, ServerOK
<1>3. token[i] \in sessions
  BY <1>1 DEF InTabs, SessionOK, EditsInv
<1> QED
  BY <1>1, <1>2, <1>3 DEF EditsInv, InTabs, Ours

\* What is left to show of a step that concerns only the current instance.
LEMMA EditsStep ==
    ASSUME IInv, EditsInv, NEW c, c = currentUser, currentUser # 0,
           UNCHANGED <<edited, currentUser, account, cutShort>>,
           \A u \in Users : Confirmed(u) \/ (account[c] = u /\ OnTheWay(c)) =>
                Confirmed(u)' \/ (account[c] = u /\ OnTheWay(c)'),
           Has(c, edited[account[c]])'
    PROVE  EditsInv'
BY DEF EditsInv

LEMMA UpdateUserEdits ==
    ASSUME IInv, OneThing, EditsInv, scenario.patient, Patiently,
           NEW name \in {"same", "free", "taken"}, UpdateUser(name)
    PROVE  EditsInv'
<1> DEFINE c == currentUser
           a == account[c]
           old == pending[c]
           last == edited[a]
           new == [name |-> name, edit |-> edits']
<1>1. /\ Quiet /\ currentUser # 0 /\ c \in Instances /\ a \in Users
      /\ pending \in [Instances -> Edits] /\ queue \in [Instances -> Seq(Saves)]
      /\ edited \in [Users -> Edits] /\ edits' \in Nat /\ edits' # 0
  <2>1. Quiet /\ currentUser # 0
    BY DEF UpdateUser, MayUseUser, Patiently
  <2>2. c \in Instances /\ a \in Users
    BY <2>1, IsCurrent DEF IInv, UserInv
  <2>3. pending \in [Instances -> Edits] /\ queue \in [Instances -> Seq(Saves)]
    BY DEF IInv, UserInv, UserTypeOK, InstancesOK
  <2>4. edited \in [Users -> Edits] /\ edits \in Nat
    BY DEF IInv, UserInv, UserTypeOK, HistoryOK
  <2>5. edits' \in Nat /\ edits' # 0
    BY <2>4 DEF UpdateUser
  <2> QED
    BY <2>1, <2>2, <2>3, <2>4, <2>5
<1>2. /\ edited' = [edited EXCEPT ![a] =
            [name |-> IF name = "same" THEN last.name ELSE name, edit |-> edits']]
      /\ pending' = [pending EXCEPT ![c] = RolledForward(old, new)]
      /\ queue' = [queue EXCEPT ![c] = Append(@, OwnSave)]
      /\ UNCHANGED <<account, rows, sending, currentUser, cutShort>>
  BY DEF UpdateUser, controllerVars, serverVars
<1>3. sending[c] = Idle /\ queue[c] = <<>> /\ \A u \in Users : Confirmed(u)
  BY <1>1, QuietConfirmed DEF Quiet, QuietUser, InstanceQuiet
<1>4. PartOf(old, last)
  BY <1>1 DEF EditsInv, Has
<1>5. /\ edited'[a].edit = edits' /\ edited'[a].name = (IF name = "same" THEN last.name ELSE name)
      /\ pending'[c] = RolledForward(old, new) /\ queue'[c] = Append(<<>>, OwnSave)
      /\ \A u \in Users : u # a => edited'[u] = edited[u]
  BY <1>1, <1>2, <1>3
<1>6. /\ pending'[c].edit = edits'
      /\ pending'[c].name = (IF name = "same" THEN old.name ELSE name)
  BY <1>1, <1>5 DEF RolledForward
<1> HIDE DEF new, old, last
<1>7. PartOf(pending[c], edited[a])'
  BY <1>1, <1>2, <1>4, <1>5, <1>6 DEF PartOf, old, last
<1>8. Has(c, edited[a])'
  BY <1>2, <1>3, <1>7, NothingIsPart DEF Has, Idle
<1>9. OnTheWay(c)'
  BY <1>1, <1>2, <1>3, <1>5, <1>6 DEF OnTheWay, Idle
<1>10. \A u \in Users : u # a => Confirmed(u)'
  BY <1>2, <1>3, <1>5 DEF Confirmed
<1> QED
  BY <1>1, <1>2, <1>8, <1>9, <1>10 DEF EditsInv

LEMMA SaveTurnEdits ==
    ASSUME IInv, OneThing, EditsInv, NEW i \in Instances, SaveTurn(i)
    PROVE  EditsInv'
<1>1. /\ sending[i] = Idle /\ queue[i] # <<>>
      /\ sending' = [sending EXCEPT ![i].phase = "lookup"]
      /\ UNCHANGED <<account, pending, queue, currentUser, rows, edited, cutShort>>
  BY DEF SaveTurn, serverVars, boundVars
<1>2. /\ i = currentUser /\ currentUser # 0 /\ sending \in [Instances -> Sendings]
      /\ Has(i, edited[account[i]])
  BY <1>1, CurrentEdits DEF InstanceQuiet
<1>3. sending'[i].phase = "lookup" /\ sending'[i].name = "same" /\ sending'[i].edit = 0
  BY <1>1, <1>2 DEF Sendings, Idle
<1>4. Has(i, edited[account[i]])'
  BY <1>1, <1>2, <1>3 DEF Has, PartOf
<1>5. OnTheWay(i) => OnTheWay(i)'
  BY <1>1, <1>3 DEF OnTheWay, Idle
<1>6. \A u \in Users : Confirmed(u) => Confirmed(u)'
  BY <1>1 DEF Confirmed
<1> QED
  BY <1>1, <1>2, <1>4, <1>5, <1>6, EditsStep

\* The save of the current instance starts, with all its edits.
LEMMA StartedEdits ==
    ASSUME IInv, OneThing, EditsInv, NEW i \in Instances, ~InstanceQuiet(i),
           sending[i].phase \in {"idle", "lookup"}, NEW auth, Started(i, auth, TRUE),
           UNCHANGED <<account, currentUser, rows, edited, cutShort>>
    PROVE  EditsInv'
<1>1. /\ i = currentUser /\ currentUser # 0 /\ sending \in [Instances -> Sendings]
      /\ pending \in [Instances -> Edits] /\ Has(i, edited[account[i]])
  BY CurrentEdits
<1>2. /\ pending'[i] = NoEdit /\ sending'[i].phase = "request"
      /\ sending'[i].name = pending[i].name /\ sending'[i].edit = pending[i].edit
  BY <1>1 DEF Started
<1>3. Has(i, edited[account[i]])'
  BY <1>1, <1>2, NothingIsPart DEF Has, PartOf
<1>4. OnTheWay(i) => OnTheWay(i)'
  BY <1>2 DEF OnTheWay
<1>5. \A u \in Users : Confirmed(u) => Confirmed(u)'
  BY DEF Confirmed
<1> QED
  BY <1>1, <1>3, <1>4, <1>5, EditsStep

LEMMA LookupEdits ==
    ASSUME IInv, OneThing, EditsInv, Lookup PROVE EditsInv'
<1>1. /\ dataQueue # <<>> /\ Head(dataQueue).kind = "lookup"
      /\ UNCHANGED <<account, currentUser, rows, edited, cutShort>>
  BY DEF Lookup, serverVars, boundVars
<1>2. TaskOK(Head(dataQueue), made, sending) /\ 1..made \subseteq Instances
  BY <1>1, FirstTask DEF IInv, UserInv
<1>3. PICK i \in Instances : i = Head(dataQueue).who /\ sending[i].phase = "lookup"
  BY <1>1, <1>2 DEF TaskOK
<1>4. ~InstanceQuiet(i)
  BY <1>3 DEF InstanceQuiet, Idle
<1>5. /\ i = currentUser /\ currentUser # 0 /\ Has(i, edited[account[i]])
      /\ sending \in [Instances -> Sendings]
      /\ \A u \in Users : Confirmed(u) \/ (account[i] = u /\ OnTheWay(i))
  BY <1>4, CurrentEdits
<1>6. CASE pending[i] = NoEdit
  <2>1. /\ sending' = [sending EXCEPT ![i] = Idle] /\ pending' = pending
    BY <1>3, <1>6 DEF Lookup
  <2>2. sending'[i] = Idle /\ Idle.phase = "idle"
    BY <1>5, <2>1 DEF Idle
  <2>3. Has(i, edited[account[i]])'
    BY <1>1, <1>5, <2>1, <2>2, NothingIsPart DEF Has
  <2>4. ~OnTheWay(i)
    BY <1>3, <1>6 DEF OnTheWay, NoEdit
  <2>5. \A u \in Users : Confirmed(u)'
    BY <1>1, <1>5, <2>4 DEF Confirmed
  <2> QED
    BY <1>1, <1>5, <2>3, <2>5, EditsStep
<1>7. CASE pending[i] # NoEdit
  <2>1. MayBeSaved(i, currentUser)
    BY <1>5 DEF MayBeSaved
  <2>2. Started(i, TokenOf(currentUser), TRUE)
    BY <1>3, <1>7, <2>1 DEF Lookup, Started
  <2> QED
    BY <1>1, <1>3, <1>4, <2>2, StartedEdits
<1> QED
  BY <1>6, <1>7

LEMMA BatchTurnEdits ==
    ASSUME IInv, OneThing, EditsInv, NEW i \in Instances, BatchTurn(i) PROVE EditsInv'
<1>1. /\ queue[i] # <<>> /\ sending[i] = Idle
      /\ Started(i, Head(queue[i]).auth, TRUE)
      /\ UNCHANGED <<account, currentUser, rows, edited, cutShort>>
  BY DEF BatchTurn, controllerVars, serverVars, boundVars
<1>2. ~InstanceQuiet(i) /\ sending[i].phase = "idle"
  BY <1>1 DEF InstanceQuiet, Idle
<1> QED
  BY <1>1, <1>2, StartedEdits

LEMMA ExecuteEdits ==
    ASSUME IInv, OneThing, EditsInv, NEW i \in Instances, Execute(i) PROVE EditsInv'
<1> DEFINE ok == sending[i].auth \in sessions /\ sending[i].name # "taken"
           a == account[i]
<1>1. /\ sending[i].phase = "request" /\ ~InstanceQuiet(i)
      /\ sending' = [sending EXCEPT ![i].phase = IF ok THEN "saved" ELSE "failed"]
      /\ rows' = [rows EXCEPT ![a] = IF ok /\ sending[i].edit # 0 THEN sending[i].edit ELSE @]
      /\ UNCHANGED <<account, pending, queue, currentUser, edited, cutShort>>
  BY DEF Execute, InstanceQuiet, Idle, controllerVars, boundVars
<1>2. /\ i = currentUser /\ currentUser # 0 /\ Has(i, edited[a]) /\ a \in Users
      /\ sending \in [Instances -> Sendings] /\ rows \in [Users -> Nat]
      /\ sending[i].auth \in sessions
      /\ \A u \in Users : Confirmed(u) \/ (a = u /\ OnTheWay(i))
  BY <1>1, CurrentEdits
<1>3. ok <=> sending[i].name # "taken"
  BY <1>2
<1> HIDE DEF ok
<1>4. /\ sending'[i].phase = (IF ok THEN "saved" ELSE "failed")
      /\ sending'[i].name = sending[i].name /\ sending'[i].edit = sending[i].edit
  BY <1>1, <1>2 DEF Sendings
<1>5. Has(i, edited[a])'
  BY <1>1, <1>2, <1>3, <1>4 DEF Has, PartOf
<1>6. \A u \in Users : u # a => Confirmed(u) /\ rows'[u] = rows[u]
  BY <1>1, <1>2
<1>7. Confirmed(a)'
  <2>1. CASE ~ok
    BY <1>1, <1>2, <1>3, <2>1 DEF Has, PartOf, Confirmed
  <2>2. CASE ok /\ sending[i].edit # 0
    <3>1. rows'[a] = sending[i].edit /\ sending[i].edit = edited[a].edit
      BY <1>1, <1>2, <2>2 DEF Has, PartOf
    <3> QED
      BY <1>1, <3>1 DEF Confirmed
  <2>3. CASE ok /\ sending[i].edit = 0
    <3>1. ~OnTheWay(i) /\ rows'[a] = rows[a]
      BY <1>1, <1>2, <2>3 DEF OnTheWay
    <3> QED
      BY <1>1, <1>2, <3>1 DEF Confirmed
  <2> QED
    BY <2>1, <2>2, <2>3
<1>8. \A u \in Users : Confirmed(u)'
  BY <1>1, <1>6, <1>7 DEF Confirmed
<1> QED
  BY <1>1, <1>2, <1>5, <1>8, EditsStep

LEMMA HandleResultEdits ==
    ASSUME IInv, OneThing, EditsInv, NEW i \in Instances, HandleResult(i) PROVE EditsInv'
<1> DEFINE ok == sending[i].phase = "saved"
           e == [name |-> sending[i].name, edit |-> sending[i].edit]
           a == account[i]
<1>1. /\ sending[i].phase \in {"saved", "failed"} /\ ~InstanceQuiet(i)
      /\ pending' = [pending EXCEPT ![i] = IF ok THEN @ ELSE RolledForward(e, @)]
      /\ UNCHANGED <<account, currentUser, rows, edited, cutShort>>
  BY DEF HandleResult, InstanceQuiet, Idle, serverVars, boundVars
<1>2. /\ sending' = [sending EXCEPT ![i].phase = IF ok THEN "persist" ELSE "persistFailed"]
      /\ pending \in [Instances -> Edits] /\ sending \in [Instances -> Sendings]
  BY ResultIsPersisted
<1>3. /\ i = currentUser /\ currentUser # 0 /\ Has(i, edited[a])
      /\ \A u \in Users : Confirmed(u) \/ (a = u /\ OnTheWay(i))
  BY <1>1, CurrentEdits
<1>4. /\ sending'[i].phase = (IF ok THEN "persist" ELSE "persistFailed")
      /\ sending'[i].name = sending[i].name /\ sending'[i].edit = sending[i].edit
  BY <1>2 DEF Sendings
<1>5. pending[i] = NoEdit
  BY <1>1, <1>3 DEF Has
<1>6. /\ ok => pending'[i] = NoEdit
      /\ ~ok => pending'[i].name = sending[i].name /\ pending'[i].edit = sending[i].edit
  BY <1>1, <1>2, <1>5 DEF RolledForward, NoEdit
<1>7. ok <=> sending[i].phase # "failed"
  BY <1>1
<1> HIDE DEF ok
<1>8. Has(i, edited[a])'
  BY <1>1, <1>3, <1>4, <1>6, <1>7, NothingIsPart DEF Has, PartOf
<1>9. ~OnTheWay(i)
  BY <1>1 DEF OnTheWay
<1>10. \A u \in Users : Confirmed(u)'
  BY <1>1, <1>3, <1>9 DEF Confirmed
<1> QED
  BY <1>1, <1>3, <1>8, <1>10, EditsStep

LEMMA SavedCurrentEdits ==
    ASSUME IInv, OneThing, EditsInv, SavedCurrent PROVE EditsInv'
<1>1. /\ dataQueue # <<>> /\ Head(dataQueue).kind \in {"enter", "persist"}
      /\ currentUser' = Head(dataQueue).who
      /\ UNCHANGED <<account, pending, rows, edited, cutShort>>
  BY DEF SavedCurrent, serverVars, boundVars
<1> Idle.phase = "idle"
  BY DEF Idle
<1>2. /\ TaskOK(Head(dataQueue), made, sending) /\ 1..made \subseteq Instances
  BY <1>1, ModeOfTask
<1>3. PICK h \in Instances :
         /\ h = Head(dataQueue).who
         /\ Head(dataQueue).kind = "persist" => sending[h].phase \in {"persist", "persistFailed"}
  BY <1>1, <1>2 DEF TaskOK
<1>4. CASE Head(dataQueue).kind = "enter"
  <2>1. LoggingIn /\ sending' = sending
    BY <1>1, <1>4, ModeOfTask DEF SavedCurrent
  <2>2. pending[h] = NoEdit /\ sending[h] = Idle
    BY <1>3, <2>1 DEF LoggingIn, NoRequests, InstanceQuiet
  <2>3. Has(h, edited[account[h]])'
    BY <1>1, <2>1, <2>2, NothingIsPart DEF Has
  <2>4. \A u \in Users : Confirmed(u)'
    BY <1>1, <2>1, QuietConfirmed DEF LoggingIn, Confirmed
  <2> QED
    BY <1>1, <1>3, <2>3, <2>4 DEF EditsInv
<1>5. CASE Head(dataQueue).kind = "persist"
  <2>1. ~InstanceQuiet(h) /\ sending[h].phase \in {"persist", "persistFailed"}
    BY <1>3, <1>5 DEF InstanceQuiet, Idle
  <2>2. /\ h = currentUser /\ currentUser # 0 /\ Has(h, edited[account[h]])
        /\ sending \in [Instances -> Sendings]
        /\ \A u \in Users : Confirmed(u) \/ (account[h] = u /\ OnTheWay(h))
    BY <1>3, <2>1, CurrentEdits
  <2>3. sending' = [sending EXCEPT ![h] = Idle]
    BY <1>3, <1>5 DEF SavedCurrent
  <2>4. sending'[h] = Idle
    BY <1>3, <2>2, <2>3
  <2>5. Has(h, edited[account[h]])'
    BY <1>1, <2>2, <2>4, NothingIsPart DEF Has
  <2>6. ~OnTheWay(h)
    BY <2>1 DEF OnTheWay
  <2>7. \A u \in Users : Confirmed(u)'
    BY <1>1, <2>2, <2>6 DEF Confirmed
  <2>8. currentUser' = currentUser
    BY <1>1, <1>3, <2>2
  <2> QED
    BY <1>1, <2>2, <2>5, <2>7, <2>8, EditsStep
<1> QED
  BY <1>1, <1>4, <1>5

LEMMA LoggedOutDoneEdits ==
    ASSUME IInv, OneThing, EditsInv, LoggedOutDone PROVE EditsInv'
<1>1. /\ dataQueue # <<>> /\ Head(dataQueue).kind = "logout" /\ currentUser' = 0
      /\ UNCHANGED <<rows, edited, cutShort>>
  BY DEF LoggedOutDone, serverVars, boundVars
<1>2. currentUser # 0 => InstanceQuiet(currentUser)
  BY <1>1, ModeOfTask, IsCurrent DEF LoggingOut, NoRequests, IInv
<1> QED
  BY <1>1, <1>2, QuietConfirmed DEF EditsInv, Confirmed

\* A task more in the queue is no loss.
LEMMA CollectUserEdits ==
    ASSUME IInv, OneThing, EditsInv, NEW o \in objects, CollectUser(o) PROVE EditsInv'
<1>1. UNCHANGED <<account, pending, sending, currentUser, rows, edited, cutShort>>
  BY DEF CollectUser, controllerVars, serverVars, boundVars
<1>2. /\ InTabs /\ o.who = currentUser /\ currentUser \in Instances /\ currentUser # 0
      /\ queue \in [Instances -> Seq(Saves)] /\ o \in NewObjects
  BY BusyInTabs, IsCurrent
  DEF InTabs, Ours, IInv, UserInv, UserTypeOK, InstancesOK, ScreensOK
<1>3. BatchFor(o) \in Saves
  BY <1>2 DEF BatchFor, Saves, NewObjects
<1>4. Append(queue[currentUser], BatchFor(o)) # <<>>
  BY <1>2, <1>3, AppendIs
<1>5. queue[currentUser] # <<>> => queue'[currentUser] # <<>>
  BY <1>2, <1>4 DEF CollectUser
<1> QED
  BY <1>1, <1>2, <1>5 DEF EditsInv, Confirmed, OnTheWay, Has

LEMMA EditsNext ==
    ASSUME IInv, OneThing, EditsOK, scenario.patient, Next
    PROVE  EditsOK'
<1>1. /\ faults \in Nat /\ kills \in Nat
  BY DEF IInv, UserInv, UserTypeOK, HistoryOK
<1> SUFFICES ASSUME faults' = 0, kills' = 0 PROVE EditsInv'
  BY DEF EditsOK
<1>2. CASE Tap
  <2>1. EditsInv
    BY <1>2, <1>1 DEF EditsOK, Tap, Enter, DidLogout, UpdateUser, OpenProfile, ShowAgain, DidFollow,
                      userVars, boundVars
  <2>2. ASSUME NEW u, NEW kind, Enter(u, kind) PROVE EditsInv'
    BY <2>1, <2>2, EditsFrame DEF Enter, instanceVars, controllerVars, serverVars
  <2>3. CASE DidLogout
    BY <2>1, <2>3, EditsFrame DEF DidLogout, instanceVars, serverVars
  <2>4. CASE OpenProfile
    BY <2>1, <2>4, EditsFrame DEF OpenProfile, userVars, instanceVars, controllerVars,
                                  serverVars, boundVars
  <2>5. CASE DidFollow
    BY <2>1, <2>5, EditsFrame DEF DidFollow, instanceVars, controllerVars, serverVars
  <2>6. ASSUME NEW n, ShowAgain(n) PROVE EditsInv'
    BY <2>1, <2>6, EditsFrame DEF ShowAgain, userVars, instanceVars, controllerVars,
                                  serverVars, boundVars
  <2> QED
    BY <1>2, <2>1, <2>2, <2>3, <2>4, <2>5, <2>6, UpdateUserEdits DEF Tap
<1>3. CASE Service
  <2>1. faults = 0 /\ kills = 0
    BY <1>1, <1>3 DEF Service, Admit, Refuse, SaveTurn, Lookup, BatchTurn, Execute,
       HandleResult, BecomeCurrent, SavedCurrent, LogOut, LoggedOutDone, CollectUser, Create,
       AnswerCheck, ShowCheck, AnswerUnfollow, Delete, userVars, boundVars
  <2>2. EditsInv
    BY <2>1 DEF EditsOK
  <2>3. ASSUME NEW r \in entering, Admit(r) PROVE EditsInv'
    <3>1. currentUser = 0
      BY <2>3, EnteringAtLogin DEF AtLogin
    <3> QED
      BY <2>2, <2>3, <3>1, EditsFrame DEF Admit
  <2>4. ASSUME NEW r \in entering, Refuse(r) PROVE EditsInv'
    BY <2>2, <2>4, EditsFrame DEF Refuse, instanceVars, controllerVars, serverVars, boundVars
  <2>5. CASE BecomeCurrent \/ LogOut
    BY <2>2, <2>5, EditsFrame DEF BecomeCurrent, LogOut, boundVars
  <2>6. ASSUME NEW o \in objects, Create(o, 1) PROVE EditsInv'
    BY <2>2, <2>6, EditsFrame DEF Create, instanceVars, controllerVars
  <2>7. ASSUME NEW q, AnswerCheck(q) \/ ShowCheck(q) PROVE EditsInv'
    BY <2>2, <2>7, EditsFrame DEF AnswerCheck, ShowCheck, userVars, instanceVars,
       controllerVars, serverVars, boundVars
  <2>8. ASSUME NEW q, AnswerUnfollow(q) \/ Delete(q) PROVE EditsInv'
    BY <2>2, <2>8, EditsFrame DEF AnswerUnfollow, Delete, userVars, instanceVars,
       controllerVars, serverVars, boundVars
  <2> QED
    BY <1>3, <2>2, <2>3, <2>4, <2>5, <2>6, <2>7, <2>8, SaveTurnEdits, LookupEdits,
       BatchTurnEdits, ExecuteEdits, HandleResultEdits, SavedCurrentEdits,
       LoggedOutDoneEdits, CollectUserEdits DEF Service
<1>4. CASE Fault
  <2>1. ASSUME NEW q, q.phase = "asked", ShowCheck(q) PROVE FALSE
    BY <1>1, <2>1 DEF ShowCheck
  <2>2. ASSUME NEW o, NEW copies \in {0, 2}, Create(o, copies) PROVE FALSE
    BY <1>1, <2>2 DEF Create
  <2> QED
    BY <1>1, <1>4, <2>1, <2>2 DEF Fault, SignUpReplyLost, RequestLost, UnfollowLost, Relaunch,
                                  Kill
<1> QED
  BY <1>2, <1>3, <1>4 DEF Next

-----------------------------------------------------------------------------
(***************************************************************************)
(* The follow button of someone patient, as long as nothing fails: the     *)
(* saves he waits for never fail, so a new row is always made.             *)
(***************************************************************************)
NotTaken == \A i \in Instances : pending[i].name # "taken" /\ sending[i].name # "taken"

NamesOK == "taken" \notin scenario.names => NotTaken

NoneFailed == \A i \in Instances : sending[i].phase \notin {"failed", "persistFailed"}

Follows == {o \in objects : o.id[2] = "follow"}
Rows == FollowRows(account[currentUser])

OneRow == \A r, s \in created :
             r.id[2] = "follow" /\ s.id[2] = "follow" /\ r.by = s.by => r = s

\* The profiles no tap on another one has left behind.
Fresh == live \ behind

\* One request at a time, and what the buttons of the fresh profiles say is what
\* the server has or is about to have, except that of one that is being checked.
Button ==
    /\ \A o, p \in Follows : o = p
    /\ Follows # {} => Fresh \subseteq isFollowing /\ Rows = {}
    /\ \A q, r \in unfollowing : q = r
    /\ \A q \in unfollowing : /\ \A n \in Fresh : n \notin isFollowing
                              /\ objects = {} /\ Rows # {}
                              /\ q.phase = "answered" => q.found = Rows
    /\ \A q, r \in checking : q = r
    /\ \A q \in checking : /\ objects = {} /\ unfollowing = {}
                           /\ q.phase = "answered" => q.found = Rows
    /\ unfollowing = {} /\ Follows = {} =>
          \A n \in Fresh : (\A q \in checking : q.n # n) =>
                            (n \in isFollowing <=> Rows # {})
    /\ live # {} => currentUser # 0

Smooth == NothingRefused /\ ~cutShort /\ ~crossed
FollowOKIf == Smooth => NoneFailed /\ OneRow /\ Button

\* Names asked for, kept and sent.
LEMMA NamesNext ==
    ASSUME IInv, NamesOK, Next PROVE NamesOK'
<1>1. /\ pending \in [Instances -> Edits] /\ sending \in [Instances -> Sendings]
      /\ currentUser # 0 => currentUser \in Instances
  BY IsCurrent DEF IInv, UserInv, UserTypeOK, InstancesOK
<1>2. scenario' = scenario
  BY DEF Next, Tap, Service, Fault, Enter, DidLogout, UpdateUser, OpenProfile, ShowAgain, DidFollow,
       Admit, Refuse, SaveTurn, Lookup, BatchTurn, Execute, HandleResult, BecomeCurrent,
       SavedCurrent, LogOut, LoggedOutDone, CollectUser, Create, AnswerCheck, ShowCheck,
       AnswerUnfollow, Delete, SignUpReplyLost, RequestLost, UnfollowLost, Relaunch, Kill,
       userVars, boundVars
<1> SUFFICES ASSUME "taken" \notin scenario.names, NotTaken PROVE NotTaken'
  BY <1>2 DEF NamesOK
<1>3. ASSUME UNCHANGED <<pending, sending>> PROVE NotTaken'
  BY <1>3 DEF NotTaken
<1>4. CASE Tap
  <2>1. ASSUME NEW name, UpdateUser(name) PROVE NotTaken'
    BY <1>1, <2>1 DEF UpdateUser, MayUseUser, NotTaken, RolledForward
  <2> QED
    BY <1>3, <1>4, <2>1 DEF Tap, Enter, DidLogout, OpenProfile,
       ShowAgain, DidFollow, instanceVars, userVars
<1>5. ASSUME NEW i \in Instances, NEW auth, NEW allowed, Started(i, auth, allowed) PROVE NotTaken'
  BY <1>1, <1>5 DEF Started, NotTaken, NoEdit
<1>6. ASSUME NEW i \in Instances, NEW phase, sending' = [sending EXCEPT ![i].phase = phase],
             pending' = pending
      PROVE  NotTaken'
  BY <1>1, <1>6 DEF NotTaken, Sendings
<1>7. ASSUME NEW i, sending' = [sending EXCEPT ![i] = Idle], pending' = pending PROVE NotTaken'
  BY <1>1, <1>7 DEF NotTaken, Idle
<1>8. CASE Service
  <2>1. ASSUME NEW i \in Instances, SaveTurn(i) \/ Execute(i) PROVE NotTaken'
    BY <1>6, <2>1 DEF SaveTurn, Execute
  <2>2. CASE Lookup
    <3>1. dataQueue # <<>> /\ Head(dataQueue).kind = "lookup"
      BY <2>2 DEF Lookup
    <3>2. TaskOK(Head(dataQueue), made, sending) /\ 1..made \subseteq Instances
      BY <3>1, FirstTask DEF IInv, UserInv
    <3>3. Head(dataQueue).who \in Instances
      BY <3>1, <3>2 DEF TaskOK
    <3> QED
      BY <1>5, <1>7, <2>2, <3>3 DEF Lookup
  <2>3. ASSUME NEW i \in Instances, BatchTurn(i) PROVE NotTaken'
    BY <1>5, <2>3 DEF BatchTurn
  <2>4. ASSUME NEW i \in Instances, HandleResult(i) PROVE NotTaken'
    <3>1. \/ \E phase : sending' = [sending EXCEPT ![i].phase = phase]
          \/ sending' = [sending EXCEPT ![i] = Idle]
      BY <2>4 DEF HandleResult
    <3>2. \A j \in Instances : sending'[j].name # "taken"
      BY <1>1, <3>1 DEF NotTaken, Sendings, Idle
    <3>3. \A j \in Instances : pending'[j].name # "taken"
      BY <1>1, <2>4 DEF HandleResult, NotTaken, RolledForward
    <3> QED
      BY <3>2, <3>3 DEF NotTaken
  <2>5. CASE SavedCurrent
    BY <1>3, <1>7, <2>5 DEF SavedCurrent
  <2>6. ASSUME NEW r, Admit(r) \/ Refuse(r) \/ CollectUser(r) \/ Create(r, 1) PROVE NotTaken'
    BY <1>3, <2>6 DEF Admit, Refuse, CollectUser, Create, instanceVars
  <2>7. CASE BecomeCurrent \/ LogOut \/ LoggedOutDone
    BY <1>3, <2>7 DEF BecomeCurrent, LogOut, LoggedOutDone, instanceVars
  <2>8. ASSUME NEW q, AnswerCheck(q) \/ ShowCheck(q) \/ AnswerUnfollow(q) \/ Delete(q)
        PROVE  NotTaken'
    BY <1>3, <2>8 DEF AnswerCheck, ShowCheck, AnswerUnfollow, Delete, instanceVars, userVars
  <2> QED
    BY <1>8, <2>1, <2>2, <2>3, <2>4, <2>5, <2>6, <2>7, <2>8 DEF Service
<1>9. CASE Fault
  <2>1. ASSUME NEW i \in Instances, RequestLost(i) PROVE NotTaken'
    BY <1>6, <2>1 DEF RequestLost
  <2>2. ASSUME NEW o, NEW copies, Create(o, copies) PROVE NotTaken'
    BY <1>3, <2>2 DEF Create, instanceVars
  <2>3. ASSUME NEW q, SignUpReplyLost(q) \/ ShowCheck(q) \/ UnfollowLost(q) PROVE NotTaken'
    BY <1>3, <2>3 DEF SignUpReplyLost, ShowCheck, UnfollowLost, instanceVars
  <2>4. CASE Relaunch
    BY <2>4 DEF Relaunch, Kill, Launched, NotTaken, NoEdit, Idle
  <2> QED
    BY <1>9, <2>1, <2>2, <2>3, <2>4 DEF Fault
<1> QED
  BY <1>4, <1>8, <1>9 DEF Next

\* With no fault, a name that is not taken and a valid session, no save fails.
LEMMA NoneFailedNext ==
    ASSUME IInv, NoneFailed, NotTaken, faults' = faults, Next,
           (\E i \in Instances : ~InstanceQuiet(i)) => Ours /\ token[currentUser] \in sessions
    PROVE  NoneFailed'
<1>1. sending \in [Instances -> Sendings] /\ faults \in Nat
  BY DEF IInv, UserInv, UserTypeOK, InstancesOK, HistoryOK
<1>2. ASSUME sending' = sending PROVE NoneFailed'
  BY <1>2 DEF NoneFailed
<1>3. ASSUME NEW i, sending' = [sending EXCEPT ![i] = Idle] PROVE NoneFailed'
  BY <1>1, <1>3 DEF NoneFailed, Idle
<1>4. ASSUME NEW i \in Instances, NEW phase \in {"lookup", "saved", "persist"},
             sending' = [sending EXCEPT ![i].phase = phase]
      PROVE  NoneFailed'
  BY <1>1, <1>4 DEF NoneFailed, Sendings
<1>5. ASSUME NEW i \in Instances, NEW auth, Started(i, auth, TRUE) PROVE NoneFailed'
  BY <1>1, <1>5 DEF NoneFailed, Started
<1>6. CASE Tap
  BY <1>2, <1>6 DEF Tap, Enter, DidLogout, UpdateUser, OpenProfile,
       ShowAgain, DidFollow, instanceVars,
                    userVars
<1>7. CASE Service
  <2>1. ASSUME NEW i \in Instances, SaveTurn(i) PROVE NoneFailed'
    BY <1>4, <2>1 DEF SaveTurn
  <2>2. CASE Lookup
    <3>1. dataQueue # <<>> /\ Head(dataQueue).kind = "lookup"
      BY <2>2 DEF Lookup
    <3>2. TaskOK(Head(dataQueue), made, sending) /\ 1..made \subseteq Instances
      BY <3>1, FirstTask DEF IInv, UserInv
    <3>3. PICK i \in Instances : i = Head(dataQueue).who /\ sending[i].phase = "lookup"
      BY <3>1, <3>2 DEF TaskOK
    <3>4. MayBeSaved(i, currentUser)
      BY <3>3, BusyIsOurs DEF InstanceQuiet, Idle, MayBeSaved
    <3>5. \/ sending' = [sending EXCEPT ![i] = Idle]
          \/ Started(i, TokenOf(currentUser), TRUE)
      BY <2>2, <3>3, <3>4 DEF Lookup, Started
    <3> QED
      BY <1>3, <1>5, <3>5
  <2>3. ASSUME NEW i \in Instances, BatchTurn(i) PROVE NoneFailed'
    BY <1>5, <2>3 DEF BatchTurn
  <2>4. ASSUME NEW i \in Instances, Execute(i) PROVE NoneFailed'
    <3>1. sending[i].phase = "request" /\ ~InstanceQuiet(i)
      BY <2>4 DEF Execute, InstanceQuiet, Idle
    <3>2. sending[i].auth \in sessions
      BY <3>1, BusyIsOurs DEF Ours
    <3>3. sending' = [sending EXCEPT ![i].phase = "saved"]
      BY <2>4, <3>2 DEF Execute, NotTaken
    <3> QED
      BY <1>4, <3>3
  <2>5. ASSUME NEW i \in Instances, HandleResult(i) PROVE NoneFailed'
    <3>1. sending[i].phase = "saved"
      BY <2>5 DEF HandleResult, NoneFailed
    <3>2. \/ sending' = [sending EXCEPT ![i].phase = "persist"]
          \/ sending' = [sending EXCEPT ![i] = Idle]
      BY <2>5, <3>1 DEF HandleResult
    <3> QED
      BY <1>3, <1>4, <3>2
  <2>6. CASE SavedCurrent
    BY <1>2, <1>3, <2>6 DEF SavedCurrent
  <2>7. ASSUME NEW r, Admit(r) \/ Refuse(r) \/ CollectUser(r) \/ Create(r, 1) PROVE NoneFailed'
    BY <1>2, <2>7 DEF Admit, Refuse, CollectUser, Create, instanceVars
  <2>8. CASE BecomeCurrent \/ LogOut \/ LoggedOutDone
    BY <1>2, <2>8 DEF BecomeCurrent, LogOut, LoggedOutDone, instanceVars
  <2>9. ASSUME NEW q, AnswerCheck(q) \/ ShowCheck(q) \/ AnswerUnfollow(q) \/ Delete(q)
        PROVE  NoneFailed'
    BY <1>2, <2>9 DEF AnswerCheck, ShowCheck, AnswerUnfollow, Delete, instanceVars, userVars
  <2> QED
    BY <1>7, <2>1, <2>2, <2>3, <2>4, <2>5, <2>6, <2>7, <2>8, <2>9 DEF Service
<1>8. CASE Fault
  <2>1. ASSUME NEW i, RequestLost(i) PROVE FALSE
    BY <1>1, <2>1 DEF RequestLost
  <2>2. ASSUME NEW o, NEW copies, Create(o, copies) PROVE NoneFailed'
    BY <1>2, <2>2 DEF Create, instanceVars
  <2>3. ASSUME NEW q, SignUpReplyLost(q) \/ ShowCheck(q) \/ UnfollowLost(q) PROVE NoneFailed'
    BY <1>2, <2>3 DEF SignUpReplyLost, ShowCheck, UnfollowLost, instanceVars
  <2>4. CASE Relaunch
    BY <2>4 DEF Relaunch, Kill, Launched, NoneFailed, Idle
  <2> QED
    BY <1>8, <2>1, <2>2, <2>3, <2>4 DEF Fault
<1> QED
  BY <1>6, <1>7, <1>8 DEF Next

-----------------------------------------------------------------------------
\* With nothing asked for and no profile, the button is right.
LEMMA NoButton ==
    ASSUME objects' = {}, checking' = {}, unfollowing' = {}, live' = {}
    PROVE  Button'
BY DEF Button, Follows, Fresh

\* A step that keeps the rows, the button and what it waits for.
LEMMA ButtonFrame ==
    ASSUME Button, UNCHANGED <<created, live, behind, isFollowing, checking, unfollowing>>,
           currentUser' = currentUser, account'[currentUser] = account[currentUser],
           \A o, p \in Follows' : o = p,
           Follows' # {} <=> Follows # {},
           objects = {} => objects' = {}
    PROVE  Button'
<1>1. Rows' = Rows /\ Fresh' = Fresh
  BY DEF Rows, FollowRows, Fresh
<1> QED
  BY <1>1 DEF Button

\* New objects go on to another phase.
LEMMA FollowsGoOn ==
    ASSUME UserTypeOK, NEW W \in SUBSET objects, NEW phase,
           objects' = (objects \ W) \cup {[o EXCEPT !.phase = phase] : o \in W},
           \A o, p \in Follows : o = p
    PROVE  /\ \A o, p \in Follows' : o = p
           /\ Follows' # {} <=> Follows # {}
           /\ objects = {} => objects' = {}
<1>1. \A o \in objects : [o EXCEPT !.phase = phase].id = o.id
  BY DEF UserTypeOK, ScreensOK, NewObjects
<1> DEFINE next(o) == IF o \in W THEN [o EXCEPT !.phase = phase] ELSE o
<1>2. /\ \A o \in objects : next(o) \in objects' /\ next(o).id = o.id
      /\ \A o \in objects' : \E p \in objects : o = next(p)
  BY <1>1
<1> HIDE DEF next
<1>3. \A o \in objects : o \in Follows => next(o) \in Follows'
  BY <1>2 DEF Follows
<1>4. \A o \in Follows' : \E p \in Follows : o = next(p)
  BY <1>2 DEF Follows
<1>5. Follows \subseteq objects
  BY DEF Follows
<1> QED
  BY <1>2, <1>3, <1>4, <1>5

\* The one row there is.
LEMMA FirstIsAll ==
    ASSUME OneRow, InTabs, ~cutShort, NEW q \in checking \cup unfollowing,
           NEW found \in First(q.by, q.auth)
    PROVE  found = Rows
<1>1. q.by = account[currentUser] /\ q.auth \in sessions
  BY DEF InTabs, Ours, SessionOK
<1>2. \A r, s \in Rows : r = s
  BY DEF OneRow, Rows, FollowRows
<1>3. IF Rows = {} THEN found = {} ELSE \E r \in Rows : found = {r}
  BY <1>1 DEF First, Rows
<1> QED
  BY <1>2, <1>3

LEMMA CreateButton ==
    ASSUME IInv, InTabs, ~cutShort, OneRow, Button, NEW o \in objects, Create(o, 1), Elsewhere
    PROVE  OneRow' /\ Button'
<1> DEFINE row == [id |-> o.id, by |-> account[currentUser], copy |-> 1]
<1>1. /\ UNCHANGED <<account, currentUser, live, Fresh, isFollowing, checking, unfollowing>>
      /\ objects' = objects \ {o}
      /\ o.who = currentUser /\ o.auth \in sessions
  BY DEF Create, Elsewhere, Fresh, followVars, instanceVars, controllerVars, InTabs, Ours, SessionOK
<1>2. created' = created \cup [id : {o.id}, by : {account[currentUser]}, copy : 1..1]
  BY <1>1 DEF Create
<1>3. [id : {o.id}, by : {account[currentUser]}, copy : 1..1] = {row}
  <2>1. 1..1 = {1}
    OBVIOUS
  <2>2. row \in [id : {o.id}, by : {account[currentUser]}, copy : {1}]
    OBVIOUS
  <2>3. ASSUME NEW r \in [id : {o.id}, by : {account[currentUser]}, copy : {1}] PROVE r = row
    <3>1. r.id = o.id /\ r.by = account[currentUser] /\ r.copy = 1
      OBVIOUS
    <3>2. r = [id |-> r.id, by |-> r.by, copy |-> r.copy]
      OBVIOUS
    <3> QED
      BY <3>1, <3>2
  <2> QED
    BY <2>1, <2>2, <2>3
<1>4. created' = created \cup {row} /\ row.id = o.id /\ row.by = account[currentUser]
  BY <1>2, <1>3
<1> HIDE DEF row
<1>5. checking = {} /\ unfollowing = {} /\ (live # {} => currentUser # 0)
  BY DEF Button
<1>6. CASE o.id[2] = "follow"
  <2>1. o \in Follows /\ Rows = {} /\ Fresh \subseteq isFollowing /\ \A p \in Follows : p = o
    BY <1>6 DEF Button, Follows
  <2>2. Follows' = {}
    BY <1>1, <2>1 DEF Follows
  <2>3. \A r \in created : r.id[2] = "follow" => r.by # row.by
    BY <1>4, <2>1 DEF Rows, FollowRows
  <2>4. OneRow'
    BY <1>4, <2>3 DEF OneRow
  <2>5. Rows' # {}
    BY <1>1, <1>4, <1>6 DEF Rows, FollowRows
  <2> QED
    BY <1>1, <1>5, <2>1, <2>2, <2>4, <2>5 DEF Button
<1>7. CASE o.id[2] # "follow"
  <2>1. Follows' = Follows
    BY <1>1, <1>7 DEF Follows
  <2>2. Rows' = Rows
    BY <1>1, <1>4, <1>7 DEF Rows, FollowRows
  <2>3. OneRow'
    BY <1>4, <1>7 DEF OneRow
  <2> QED
    BY <1>1, <1>5, <2>1, <2>2, <2>3 DEF Button
<1> QED
  BY <1>6, <1>7

LEMMA OpenProfileButton ==
    ASSUME IInv, scenario.patient, OneRow, Button, OpenProfile
    PROVE  OneRow' /\ Button'
<1>1. /\ objects = {} /\ objects' = {} /\ checking = {} /\ unfollowing = {}
      /\ unfollowing' = {} /\ currentUser' # 0
      /\ UNCHANGED <<created, account, currentUser, isFollowing>>
      /\ checking' = {FollowQuery(opened')} /\ Fresh' \subseteq Fresh \cup {opened'}
  BY DEF OpenProfile, FirstCheck, Quiet, QuietUser, MayUseUser, Fresh, userVars, uiVars,
         instanceVars, controllerVars, serverVars
<1>2. FollowQuery(opened').n = opened' /\ FollowQuery(opened').phase = "asked"
  BY DEF FollowQuery
<1>3. OneRow' /\ Rows' = Rows
  BY <1>1 DEF OneRow, Rows, FollowRows
<1>4. Follows = {} /\ Follows' = {}
  BY <1>1 DEF Follows
<1>5. \A n \in Fresh : n \in isFollowing <=> Rows # {}
  BY <1>1, <1>4 DEF Button
<1> QED
  BY <1>1, <1>2, <1>3, <1>4, <1>5 DEF Button

LEMMA DidFollowButton ==
    ASSUME IInv, scenario.patient, OneRow, Button, DidFollow, ~crossed'
    PROVE  OneRow' /\ Button'
<1> DEFINE follow == NewObject(<<taps', "follow">>)
           notice == NewObject(<<taps', "notice">>)
<1>1. /\ objects = {} /\ unfollowing = {} /\ checking = {} /\ profile \in live
      /\ UNCHANGED <<account, currentUser, created, checking>>
      /\ profile \notin behind
  BY DEF DidFollow, Quiet, QuietUser, instanceVars, controllerVars, serverVars, IInv, FollowOK
<1>2. OneRow' /\ Rows' = Rows /\ Follows = {}
  BY <1>1 DEF OneRow, Rows, FollowRows, Follows
<1>3. (profile \in isFollowing <=> Rows # {}) /\ currentUser # 0
  BY <1>1, <1>2 DEF Button, Fresh
<1>4. Fresh' = {profile} /\ (profile \in isFollowing' <=> profile \notin isFollowing)
  BY <1>1 DEF DidFollow, Fresh
<1>5. CASE profile \in isFollowing
  <2>1. objects' = {} /\ unfollowing' = {FollowQuery(taps')}
    BY <1>1, <1>5 DEF DidFollow
  <2>2. FollowQuery(taps').phase = "asked"
    BY DEF FollowQuery
  <2>3. Follows' = {}
    BY <2>1 DEF Follows
  <2> QED
    BY <1>1, <1>2, <1>3, <1>4, <1>5, <2>1, <2>2, <2>3 DEF Button
<1>6. CASE profile \notin isFollowing
  <2>1. objects' = {follow, notice} /\ unfollowing' = {}
    BY <1>1, <1>6 DEF DidFollow
  <2>2. follow.id[2] = "follow" /\ notice.id[2] = "notice"
    BY DEF NewObject
  <2> HIDE DEF follow, notice
  <2>3. Follows' = {follow}
    BY <2>1, <2>2 DEF Follows
  <2> QED
    BY <1>1, <1>2, <1>3, <1>4, <1>6, <2>1, <2>3 DEF Button
<1> QED
  BY <1>5, <1>6

LEMMA CheckButton ==
    ASSUME IInv, InTabs, ~cutShort, OneRow, Button, NEW q \in checking,
           AnswerCheck(q) \/ (q.phase = "answered" /\ ShowCheck(q))
    PROVE  OneRow' /\ Button'
<1>1. /\ UNCHANGED <<account, currentUser, created, objects, live, Fresh, unfollowing>>
  BY DEF AnswerCheck, ShowCheck, Fresh, userVars, instanceVars, controllerVars, uiVars, serverVars
<1>2. /\ objects = {} /\ unfollowing = {} /\ \A r \in checking : r = q
      /\ q.phase = "answered" => q.found = Rows
  BY DEF Button
<1>3. OneRow' /\ Rows' = Rows /\ Follows' = {}
  BY <1>1, <1>2 DEF OneRow, Rows, FollowRows, Follows
<1>4. ASSUME AnswerCheck(q) PROVE Button'
  <2>1. PICK found \in First(q.by, q.auth) :
            checking' = (checking \ {q}) \cup {Answered(q, found)}
    BY <1>4 DEF AnswerCheck
  <2>2. found = Rows
    BY <2>1, FirstIsAll
  <2>3. checking' = {Answered(q, found)} /\ Answered(q, found).n = q.n
        /\ Answered(q, found).found = found /\ isFollowing' = isFollowing
    BY <1>2, <1>4, <2>1 DEF Answered, AnswerCheck
  <2>4. \A n \in Fresh : n # q.n => (n \in isFollowing <=> Rows # {})
    BY <1>2, <1>3 DEF Button, Follows
  <2> QED
    BY <1>1, <1>2, <1>3, <2>2, <2>3, <2>4 DEF Button
<1>5. ASSUME q.phase = "answered", ShowCheck(q) PROVE Button'
  <2>1. /\ checking' = {}
        /\ isFollowing' = (isFollowing \ {q.n}) \cup (IF Rows # {} THEN {q.n} \cap live ELSE {})
    BY <1>2, <1>5 DEF ShowCheck
  <2>2. \A n \in Fresh : n # q.n => (n \in isFollowing <=> Rows # {})
    BY <1>2, <1>3 DEF Button, Follows
  <2>3. \A n \in Fresh : n \in isFollowing' <=> Rows # {}
    BY <2>1, <2>2 DEF Fresh
  <2> QED
    BY <1>1, <1>2, <1>3, <2>1, <2>3 DEF Button
<1> QED
  BY <1>3, <1>4, <1>5

LEMMA UnfollowButton ==
    ASSUME IInv, InTabs, ~cutShort, OneRow, Button, NEW q \in unfollowing,
           AnswerUnfollow(q) \/ Delete(q)
    PROVE  OneRow' /\ Button'
<1>1. UNCHANGED <<account, currentUser, objects, live, Fresh, isFollowing, checking>>
  BY DEF AnswerUnfollow, Delete, Fresh, userVars, instanceVars, controllerVars, uiVars
<1>2. /\ \A n \in Fresh : n \notin isFollowing
      /\ objects = {} /\ Rows # {} /\ \A r \in unfollowing : r = q
      /\ q.phase = "answered" => q.found = Rows
      /\ checking = {} /\ (live # {} => currentUser # 0)
  BY DEF Button
<1>3. Follows' = {} /\ checking' = {} /\ objects' = {} /\ (live' # {} => currentUser' # 0)
      /\ \A n \in Fresh' : n \notin isFollowing'
  BY <1>1, <1>2 DEF Follows
<1>4. ASSUME AnswerUnfollow(q) PROVE OneRow' /\ Button'
  <2>1. PICK found \in First(q.by, q.auth) :
            unfollowing' = (unfollowing \ {q}) \cup
               (IF found = {} THEN {} ELSE {Answered(q, found)})
    BY <1>4 DEF AnswerUnfollow, Unfollowed
  <2>2. found = Rows
    BY <2>1, FirstIsAll
  <2>3. unfollowing' = {Answered(q, found)} /\ Answered(q, found).found = found
    BY <1>2, <2>1, <2>2 DEF Answered
  <2>4. created' = created
    BY <1>4 DEF AnswerUnfollow, userVars, serverVars
  <2>5. OneRow' /\ Rows' = Rows
    BY <1>1, <2>4 DEF OneRow, Rows, FollowRows
  <2> QED
    BY <1>2, <1>3, <2>2, <2>3, <2>5 DEF Button
<1>5. ASSUME Delete(q) PROVE OneRow' /\ Button'
  <2>1. created' = created \ Rows /\ unfollowing' = {}
    BY <1>2, <1>5 DEF Delete
  <2>2. Rows' = {}
    BY <1>1, <2>1 DEF Rows, FollowRows
  <2>3. OneRow'
    BY <2>1 DEF OneRow
  <2> QED
    BY <1>3, <2>1, <2>2, <2>3 DEF Button
<1> QED
  BY <1>4, <1>5

LEMMA SavedCurrentButton ==
    ASSUME IInv, OneThing, NoneFailed, OneRow, Button, SavedCurrent, ProfileGone
    PROVE  OneRow' /\ Button'
<1>1. /\ dataQueue # <<>> /\ Head(dataQueue).kind \in {"enter", "persist"}
      /\ currentUser' = Head(dataQueue).who
      /\ UNCHANGED <<account, created, checking, unfollowing>>
  BY DEF SavedCurrent, ProfileGone, serverVars
<1>2. OneRow'
  BY <1>1 DEF OneRow
<1>3. /\ TaskOK(Head(dataQueue), made, sending) /\ 1..made \subseteq Instances
  BY <1>1, ModeOfTask
<1>4. CASE Head(dataQueue).kind = "enter"
  <2>1. LoggingIn /\ screen' = "tabs" /\ objects' = objects
    BY <1>1, <1>4, ModeOfTask DEF SavedCurrent
  <2>2. live' = {} /\ NoRequests
    BY <2>1 DEF ProfileGone, LoggingIn
  <2> QED
    BY <1>1, <1>2, <2>1, <2>2, NoButton DEF NoRequests
<1>5. CASE Head(dataQueue).kind = "persist"
  <2>1. PICK i \in Instances : /\ i = Head(dataQueue).who
                               /\ sending[i].phase \in {"persist", "persistFailed"}
    BY <1>3, <1>5 DEF TaskOK
  <2>2. /\ InTabs /\ i = currentUser /\ sending[i].phase = "persist"
        /\ UNCHANGED <<live, behind, isFollowing>>
        /\ EndTask(i, sending[i].phase = "persist")
    BY <1>1, <1>5, <2>1, ModeOfTask DEF SavedCurrent, ProfileGone, NoneFailed
  <2>3. PICK W \in SUBSET objects :
            objects' = (objects \ W) \cup {[o EXCEPT !.phase = "create"] : o \in W}
    BY <2>2 DEF EndTask
  <2>4. /\ \A o, p \in Follows' : o = p
        /\ Follows' # {} <=> Follows # {}
        /\ objects = {} => objects' = {}
    <3>1. UserTypeOK /\ \A o, p \in Follows : o = p
      BY DEF Button, IInv, UserInv
    <3> QED
      BY <2>3, <3>1, FollowsGoOn
  <2>5. currentUser' = currentUser
    BY <1>1, <2>1, <2>2
  <2> QED
    BY <1>1, <1>2, <2>2, <2>4, <2>5, ButtonFrame
<1> QED
  BY <1>1, <1>4, <1>5

LEMMA CollectUserButton ==
    ASSUME IInv, OneRow, Button, NEW o \in objects, CollectUser(o), Elsewhere
    PROVE  OneRow' /\ Button'
<1>1. UNCHANGED <<account, currentUser, created, live, behind, isFollowing, checking,
                  unfollowing>>
  BY DEF CollectUser, Elsewhere, followVars, controllerVars, serverVars
<1>2. PICK phase : objects' = (objects \ {o}) \cup {[o EXCEPT !.phase = phase]}
  BY DEF CollectUser
<1>3. {[p EXCEPT !.phase = phase] : p \in {o}} = {[o EXCEPT !.phase = phase]}
  OBVIOUS
<1>4. /\ \A p, q \in Follows' : p = q
      /\ Follows' # {} <=> Follows # {}
      /\ objects = {} => objects' = {}
  BY <1>2, <1>3, FollowsGoOn, {o} \in SUBSET objects DEF Button, IInv, UserInv
<1>5. OneRow'
  BY <1>1 DEF OneRow
<1> QED
  BY <1>1, <1>4, <1>5, ButtonFrame

LEMMA ButtonNext ==
    ASSUME IInv, OneThing, scenario.patient, NoneFailed, ~cutShort, faults' = faults,
           ~crossed', OneRow, Button, Next
    PROVE  OneRow' /\ Button'
<1>1. faults \in Nat /\ faults + 1 # faults
  BY DEF IInv, UserInv, UserTypeOK, HistoryOK
<1>2. ASSUME UNCHANGED <<account, currentUser, objects, created, live, behind, isFollowing,
                         checking, unfollowing>>
      PROVE  OneRow' /\ Button'
  <2>1. OneRow' /\ Follows' = Follows
    BY <1>2 DEF OneRow, Follows
  <2>2. Button'
    BY <1>2, <2>1, ButtonFrame DEF Button
  <2> QED
    BY <2>1, <2>2
<1>3. ASSUME NoRequests, live' = {},
             UNCHANGED <<created, objects, checking, unfollowing>>
      PROVE  OneRow' /\ Button'
  BY <1>3, NoButton DEF NoRequests, OneRow
<1>4. CASE Tap
  <2>1. ASSUME NEW u, NEW kind, Enter(u, kind), Elsewhere PROVE OneRow' /\ Button'
    BY <1>2, <2>1 DEF Enter, Elsewhere, followVars, instanceVars, controllerVars, serverVars
  <2>2. ASSUME DidLogout, Elsewhere PROVE OneRow' /\ Button'
    BY <1>2, <2>2 DEF DidLogout, Elsewhere, followVars, instanceVars, uiVars, serverVars
  <2>3. ASSUME NEW name, UpdateUser(name), Elsewhere PROVE OneRow' /\ Button'
    BY <1>2, <2>3 DEF UpdateUser, Elsewhere, followVars, controllerVars, uiVars, serverVars
  <2>4. ASSUME NEW n, ShowAgain(n) PROVE OneRow' /\ Button'
    BY <1>2, <2>4 DEF ShowAgain, userVars, instanceVars, controllerVars, uiVars, serverVars
  <2> QED
    BY <1>4, <2>1, <2>2, <2>3, <2>4, OpenProfileButton, DidFollowButton DEF Tap
<1>5. CASE Service
  <2>1. ASSUME NEW r \in entering, Admit(r), Elsewhere PROVE OneRow' /\ Button'
    <3>1. AtLogin
      BY <2>1, EnteringAtLogin
    <3>2. live' = {} /\ UNCHANGED <<created, objects, checking, unfollowing>>
      BY <2>1, <3>1 DEF Admit, Elsewhere, followVars, AtLogin, Button
    <3> QED
      BY <1>3, <3>1, <3>2 DEF AtLogin
  <2>2. ASSUME NEW r, Refuse(r), Elsewhere PROVE OneRow' /\ Button'
    BY <1>2, <2>2 DEF Refuse, Elsewhere, followVars, instanceVars, controllerVars, serverVars
  <2>3. ASSUME NEW i, SaveTurn(i) \/ BatchTurn(i), Elsewhere PROVE OneRow' /\ Button'
    BY <1>2, <2>3 DEF SaveTurn, BatchTurn, Elsewhere, followVars, controllerVars, uiVars, serverVars
  <2>4. ASSUME Lookup, Elsewhere PROVE OneRow' /\ Button'
    BY <1>2, <2>4 DEF Lookup, Elsewhere, followVars, uiVars, serverVars
  <2>5. ASSUME NEW i, Execute(i), Elsewhere PROVE OneRow' /\ Button'
    BY <1>2, <2>5 DEF Execute, Elsewhere, followVars, controllerVars, uiVars
  <2>6. ASSUME NEW i \in Instances, HandleResult(i), Elsewhere PROVE OneRow' /\ Button'
    <3>1. UNCHANGED <<account, currentUser, created>>
      BY <2>6 DEF HandleResult, serverVars
    <3>2. objects' = objects
      BY <2>6, ResultIsPersisted
    <3> QED
      BY <1>2, <2>6, <3>1, <3>2 DEF Elsewhere, followVars
  <2>7. ASSUME BecomeCurrent \/ LogOut, Elsewhere PROVE OneRow' /\ Button'
    BY <1>2, <2>7 DEF BecomeCurrent, LogOut, Elsewhere, followVars, uiVars
  <2>8. ASSUME LoggedOutDone, ProfileGone PROVE OneRow' /\ Button'
    <3>1. /\ dataQueue # <<>> /\ Head(dataQueue).kind = "logout" /\ screen' = "login"
          /\ UNCHANGED <<created, objects, checking, unfollowing>>
      BY <2>8 DEF LoggedOutDone, ProfileGone, serverVars
    <3>2. LoggingOut
      BY <3>1, ModeOfTask
    <3> QED
      BY <1>3, <2>8, <3>1, <3>2 DEF LoggingOut, ProfileGone
  <2>9. ASSUME NEW o \in objects PROVE InTabs
    BY BusyInTabs
  <2>10. ASSUME NEW q \in checking \cup unfollowing PROVE InTabs
    BY BusyInTabs
  <2> QED
    BY <1>5, <2>1, <2>2, <2>3, <2>4, <2>5, <2>6, <2>7, <2>8, <2>9, <2>10, SavedCurrentButton,
       CollectUserButton, CreateButton, CheckButton, UnfollowButton DEF Service
<1>6. CASE Fault
  <2>1. CASE Relaunch
    <3>1. UNCHANGED created /\ objects' = {} /\ checking' = {} /\ unfollowing' = {} /\ live' = {}
      BY <2>1 DEF Relaunch, Kill, Launched, serverVars
    <3> QED
      BY <3>1, NoButton DEF OneRow
  <2>2. ASSUME NEW o \in objects, NEW copies \in {0, 2}, Create(o, copies) PROVE FALSE
    BY <1>1, <2>2 DEF Create
  <2>3. ASSUME NEW q \in checking, q.phase = "asked", ShowCheck(q) PROVE FALSE
    BY <1>1, <2>3 DEF ShowCheck
  <2>4. ASSUME NEW q, RequestLost(q) \/ SignUpReplyLost(q) \/ UnfollowLost(q) PROVE FALSE
    BY <1>1, <2>4 DEF RequestLost, SignUpReplyLost, UnfollowLost
  <2> QED
    BY <1>6, <2>1, <2>2, <2>3, <2>4 DEF Fault
<1> QED
  BY <1>4, <1>5, <1>6 DEF Next

\* Once a request has failed, a task was cut in two or an old button was tapped,
\* it stays so.
LEMMA SmoothBefore ==
    ASSUME IInv, Next, Smooth'
    PROVE  /\ Smooth /\ faults' = faults
<1>1. faults \in Nat /\ cutShort \in BOOLEAN
  BY DEF IInv, UserInv, UserTypeOK, HistoryOK
<1>2. scenario' = scenario
  BY DEF Next, Tap, Service, Fault, Enter, DidLogout, UpdateUser, OpenProfile, ShowAgain, DidFollow,
       Admit, Refuse, SaveTurn, Lookup, BatchTurn, Execute, HandleResult, BecomeCurrent,
       SavedCurrent, LogOut, LoggedOutDone, CollectUser, Create, AnswerCheck, ShowCheck,
       AnswerUnfollow, Delete, SignUpReplyLost, RequestLost, UnfollowLost, Relaunch, Kill,
       userVars, boundVars
<1>3. faults' = faults \/ faults' = faults + 1
  BY DEF Next, Tap, Service, Fault, Enter, DidLogout, UpdateUser, OpenProfile, ShowAgain, DidFollow,
       Admit, Refuse, SaveTurn, Lookup, BatchTurn, Execute, HandleResult, BecomeCurrent,
       SavedCurrent, LogOut, LoggedOutDone, CollectUser, Create, AnswerCheck, ShowCheck,
       AnswerUnfollow, Delete, SignUpReplyLost, RequestLost, UnfollowLost, Relaunch, Kill,
       userVars, boundVars
<1>4. cutShort => cutShort'
  BY DEF Next, Tap, Service, Fault, Enter, DidLogout, UpdateUser, OpenProfile, ShowAgain, DidFollow,
       Admit, Refuse, SaveTurn, Lookup, BatchTurn, Execute, HandleResult, BecomeCurrent,
       SavedCurrent, LogOut, LoggedOutDone, CollectUser, Create, AnswerCheck, ShowCheck,
       AnswerUnfollow, Delete, SignUpReplyLost, RequestLost, UnfollowLost, Relaunch, Kill,
       userVars, boundVars
<1>5. crossed => crossed'
  BY DEF Next, Tap, Service, Fault, Elsewhere, ProfileGone, OpenProfile, ShowAgain, DidFollow,
       AnswerCheck, ShowCheck, AnswerUnfollow, Delete, UnfollowLost, Relaunch, followVars
<1> QED
  BY <1>1, <1>2, <1>3, <1>4, <1>5 DEF Smooth, NothingRefused

LEMMA FollowOKNext ==
    ASSUME IInv, OneThing, scenario.patient, NamesOK, FollowOKIf, Next
    PROVE  FollowOKIf'
<1> SUFFICES ASSUME Smooth' PROVE (NoneFailed /\ OneRow /\ Button)'
  BY DEF FollowOKIf
<1>1. Smooth /\ faults' = faults
  BY SmoothBefore
<1>2. NoneFailed /\ OneRow /\ Button /\ NotTaken /\ ~cutShort /\ ~crossed'
  BY <1>1 DEF FollowOKIf, Smooth, NothingRefused, NamesOK
<1>3. (\E i \in Instances : ~InstanceQuiet(i)) => Ours /\ token[currentUser] \in sessions
  BY <1>2, BusyInTabs DEF InTabs, SessionOK
<1> QED
  BY <1>1, <1>2, <1>3, NoneFailedNext, ButtonNext

LEMMA FollowInit == Init => NamesOK /\ FollowOKIf
<1> SUFFICES ASSUME Init PROVE NotTaken /\ NoneFailed /\ OneRow /\ Button
  BY DEF NamesOK, FollowOKIf
<1>1. NotTaken /\ NoneFailed
  BY DEF Init, InitUser, NotTaken, NoneFailed, NoEdit, Idle
<1>2. created = {} /\ objects = {} /\ checking = {} /\ unfollowing = {} /\ live = {}
  BY DEF Init, InitUser
<1> QED
  BY <1>1, <1>2 DEF OneRow, Button, Follows, Fresh

-----------------------------------------------------------------------------
\* What is shown of someone patient.
PatientInv ==
    /\ IInv /\ Blank /\ NamesOK
    /\ scenario.patient => OneThing /\ EditsOK /\ FollowOKIf

LEMMA PatientInvNext == PatientInv /\ [Next]_vars => PatientInv'
<1> SUFFICES ASSUME PatientInv, [Next]_vars PROVE PatientInv'
  OBVIOUS
<1>1. IInv'
  BY IInvNext DEF PatientInv
<1>2. CASE Next
  <2>1. Blank'
    BY <1>2, BlankNext DEF PatientInv
  <2>2. scenario' = scenario
    BY <1>2 DEF Next, Tap, Service, Fault, Enter, DidLogout, UpdateUser, OpenProfile,
       ShowAgain, DidFollow,
       Admit, Refuse, SaveTurn, Lookup, BatchTurn, Execute, HandleResult, BecomeCurrent,
       SavedCurrent, LogOut, LoggedOutDone, CollectUser, Create, AnswerCheck, ShowCheck,
       AnswerUnfollow, Delete, SignUpReplyLost, RequestLost, UnfollowLost, Relaunch, Kill,
       userVars, boundVars
  <2>3. NamesOK'
    BY <1>2, NamesNext DEF PatientInv
  <2> QED
    BY <1>1, <1>2, <2>1, <2>2, <2>3, ModeNext, EditsNext, FollowOKNext DEF PatientInv
<1>3. CASE UNCHANGED vars
  <2>1. UNCHANGED <<userVars, followVars>>
    BY <1>3 DEF vars
  <2>2. Blank' /\ scenario' = scenario /\ (EditsOK => EditsOK')
    BY <2>1 DEF PatientInv, Blank, userVars, instanceVars, controllerVars, serverVars,
       boundVars, EditsOK, EditsInv, Confirmed, OnTheWay, Has
  <2>3. OneThing => OneThing'
    BY <2>1, ModeFrame DEF userVars, serverVars, boundVars, followVars
  <2>4. (NamesOK => NamesOK') /\ (Smooth' => Smooth) /\ (NoneFailed => NoneFailed')
    BY <2>1 DEF userVars, instanceVars, boundVars, followVars, NamesOK, NotTaken, NoneFailed,
       Smooth, NothingRefused
  <2>5. OneRow /\ Button => OneRow' /\ Button'
    BY <2>1 DEF userVars, instanceVars, controllerVars, uiVars, serverVars, followVars,
       OneRow, Button, Follows, Rows, FollowRows, Fresh
  <2>6. FollowOKIf => FollowOKIf'
    BY <2>4, <2>5 DEF FollowOKIf
  <2> QED
    BY <1>1, <2>2, <2>3, <2>4, <2>6 DEF PatientInv
<1> QED
  BY <1>2, <1>3

\* The modes of someone patient, what his edits and his follow button agree with,
\* hold in every state.
THEOREM PatientHolds == Spec => []PatientInv
<1>1. Init => PatientInv
  BY AccountInit, ModeInit, EditsInit, FollowInit DEF PatientInv
<1> QED
  BY <1>1, PatientInvNext, PTL DEF Spec

\* Someone who waits for each answer sees the login screen exactly when there is
\* no user, in memory or on disk, and otherwise has a session the server accepts:
\* the root view controllers that didLogin: and didLogout's block show agree with
\* what PFCurrentUserController has in memory, in the file and in the keychain.
THEOREM ScreenFollowsSession == Spec => []ScreenMatchesSession
<1>1. PatientInv => ScreenMatchesSession
  BY BusyInTabs DEF PatientInv, ScreenMatchesSession, QuietUser, AtLogin, InTabs, SessionOK
<1> QED
  BY <1>1, PatientHolds, PTL

\* Without faults and kills, someone patient finds his last edit on the server at
\* rest, or has asked for a name that is taken: no operation of updateUser: is
\* lost between the operation sets, the queues and the results.
THEOREM LastEditReachesServer == Spec => []EditsReachServer
<1>1. PatientInv => EditsReachServer
  <2> SUFFICES ASSUME PatientInv, scenario.patient, EditsInv, QuietUser
               PROVE  \A u \in Users : Confirmed(u)
    BY DEF PatientInv, EditsOK, EditsReachServer, Confirmed
  <2>1. currentUser # 0 => InstanceQuiet(currentUser)
    BY IsCurrent DEF PatientInv, IInv, QuietUser
  <2> QED
    BY <2>1, QuietConfirmed
<1> QED
  BY <1>1, PatientHolds, PTL

\* What someone patient sees on a profile at rest is what the server has, as long
\* as nothing fails: didFollow: and checkFollow keep one row or none behind the
\* button, through saves that a follow waits for, launches, and whichever of his
\* profiles he goes back to.  Only one he left behind for a tap on another may
\* differ, and once he has tapped such a one, nothing is said any more.
THEOREM ButtonShowsTheRow == Spec => []FollowMatchesRow
<1>1. PatientInv => FollowMatchesRow
  <2> SUFFICES ASSUME PatientInv, scenario.patient, ~cutShort, NothingRefused, Quiet,
                      ~crossed, NEW n \in Fresh
               PROVE  Cardinality(Rows) = (IF n \in isFollowing THEN 1 ELSE 0)
    BY DEF FollowMatchesRow, Rows, Fresh
  <2>1. OneRow /\ Button
    BY DEF PatientInv, FollowOKIf, Smooth
  <2>2. Follows = {}
    BY DEF Quiet, QuietUser, Follows
  <2>3. n \in isFollowing <=> Rows # {}
    BY <2>1, <2>2 DEF Quiet, Button
  <2>4. Rows # {} => \E r \in Rows : Rows = {r}
    BY <2>1 DEF OneRow, Rows, FollowRows
  <2> QED
    BY <2>3, <2>4, FS_EmptySet, FS_Singleton
<1> QED
  BY <1>1, PatientHolds, PTL

-----------------------------------------------------------------------------
(***************************************************************************)
(* The follow button of someone hasty: one login, no logout yet, nothing   *)
(* that fails.  Each follow under way or made has an id of its own, the    *)
(* number of its tap, and each unfollow under way takes at most one away;  *)
(* so the ids outnumber the unfollows, by one if the button says Unfollow. *)
(***************************************************************************)
HasTask(q, kind) == \E k \in 1..Len(q) : q[k].kind = kind

\* The numbers of the taps; and a check and an unfollow that are out together.
Taps ==
    /\ \A o \in objects : o.id[1] <= taps
    /\ \A r \in created : r.id[1] <= taps
    /\ IsFiniteSet(unfollowing)
    /\ \A q \in checking \cup unfollowing : \A r, s \in q.found : r = s
    /\ ~overtaken /\ checking # {} => unfollowing = {}
    /\ screen = "login" => live = {}

Steady == made <= 1 /\ kills = 0 /\ NothingRefused

\* The login screen is left for good, and shown again only after a logout.
Landing ==
    /\ made = 0 => logouts = 0 /\ dataQueue = <<>> /\ screen = "login"
    /\ HasTask(dataQueue, "enter") => /\ Len(dataQueue) <= 1
                                      /\ screen = "login" /\ logouts = 0
    /\ logouts # 0 => HasTask(dataQueue, "logout") \/ screen = "login"

\* Before the first logout: one user with one session, once he is logged in.
Alone ==
    /\ ~HasTask(dataQueue, "logout") /\ NoneFailed
    /\ currentUser = 0 => screen = "login" /\ NoRequests /\ isFollowing = {}
    /\ currentUser # 0 => screen = "tabs" /\ Ours
    /\ made # 0 => token[1] \in sessions

FollowIds == {o.id : o \in Follows} \cup {r.id : r \in Rows}

Balance ==
    /\ \A n \in Fresh :
          Cardinality(unfollowing) + (IF n \in isFollowing THEN 1 ELSE 0)
              <= Cardinality(FollowIds)
    /\ \A q \in checking : q.phase = "answered" => q.found \subseteq Rows

SteadyOK ==
    Steady => /\ Landing
              /\ logouts = 0 => /\ Alone
                                /\ currentUser # 0 /\ ~overtaken => Balance

-----------------------------------------------------------------------------
LEMMA HasTaskParts ==
    ASSUME NEW T, NEW q \in Seq(T)
    PROVE  /\ \A t \in T : \A kind : HasTask(Append(q, t), kind) <=> HasTask(q, kind) \/ t.kind = kind
           /\ q # <<>> => \A kind : /\ HasTask(Tail(q), kind) => HasTask(q, kind)
                                    /\ Head(q).kind = kind => HasTask(q, kind)
                                    /\ HasTask(q, kind) => Head(q).kind = kind \/ HasTask(Tail(q), kind)
<1>1. ASSUME NEW t \in T, NEW kind
      PROVE  HasTask(Append(q, t), kind) <=> HasTask(q, kind) \/ t.kind = kind
  <2>1. /\ Len(q) \in Nat /\ Len(Append(q, t)) = Len(q) + 1
        /\ \A k \in 1..Len(q) : Append(q, t)[k] = q[k]
        /\ Append(q, t)[Len(q) + 1] = t
    BY AppendIs
  <2>2. /\ \A k \in 1..Len(Append(q, t)) : k \in 1..Len(q) \/ k = Len(q) + 1
        /\ \A k \in 1..Len(q) : k \in 1..Len(Append(q, t))
        /\ Len(q) + 1 \in 1..Len(Append(q, t))
    BY <2>1
  <2> QED
    BY <2>1, <2>2 DEF HasTask
<1>2. ASSUME q # <<>>, NEW kind
      PROVE  /\ HasTask(Tail(q), kind) => HasTask(q, kind)
             /\ Head(q).kind = kind => HasTask(q, kind)
             /\ HasTask(q, kind) => Head(q).kind = kind \/ HasTask(Tail(q), kind)
  <2>1. /\ Len(q) \in Nat /\ 1 <= Len(q) /\ Len(Tail(q)) = Len(q) - 1 /\ Head(q) = q[1]
        /\ \A k \in 1..(Len(q) - 1) : Tail(q)[k] = q[k + 1]
    BY <1>2, TailIs
  <2>2. \A k \in 1..Len(Tail(q)) : k + 1 \in 1..Len(q) /\ Tail(q)[k] = q[k + 1]
    BY <2>1
  <2>3. 1 \in 1..Len(q)
    BY <2>1
  <2>4. ASSUME NEW k \in 1..Len(q), k # 1 PROVE k - 1 \in 1..Len(Tail(q)) /\ Tail(q)[k - 1] = q[k]
    <3>1. k - 1 \in 1..(Len(q) - 1) /\ (k - 1) + 1 = k
      BY <2>1, <2>4
    <3> QED
      BY <2>1, <3>1
  <2> QED
    BY <2>1, <2>2, <2>3, <2>4 DEF HasTask
<1> QED
  BY <1>1, <1>2

LEMMA TapsNext ==
    ASSUME IInv, Taps, Next PROVE Taps'
<1>1. /\ taps \in Nat /\ objects \subseteq NewObjects /\ created \subseteq [id : Ids, by : Users, copy : 1..2]
      /\ UserTypeOK
  BY DEF IInv, UserInv, UserTypeOK, HistoryOK, ScreensOK, ServerOK
<1>2. ASSUME taps' = taps,
             \A o \in objects' : \E p \in objects : o.id = p.id,
             \A r \in created' : r \in created \/ \E p \in objects : r.id = p.id
      PROVE  /\ \A o \in objects' : o.id[1] <= taps'
             /\ \A r \in created' : r.id[1] <= taps'
  BY <1>2 DEF Taps
<1>3. ASSUME UNCHANGED <<taps, created, unfollowing, checking, overtaken>>,
             \A o \in objects' : \E p \in objects : o.id = p.id,
             screen' = "login" => live' = {}
      PROVE  Taps'
  BY <1>2, <1>3 DEF Taps
<1>4. ASSUME UNCHANGED <<taps, created, objects, followVars>>, screen' = screen
      PROVE  Taps'
  BY <1>3, <1>4 DEF followVars, Taps
<1>5. ASSUME UNCHANGED <<taps, screen, objects, live>>, created' \subseteq created
      PROVE  /\ \A o \in objects' : o.id[1] <= taps'
             /\ \A r \in created' : r.id[1] <= taps'
             /\ screen' = "login" => live' = {}
  BY <1>5 DEF Taps
<1>6. CASE Tap
  <2>1. ASSUME NEW u, NEW kind, Enter(u, kind), Elsewhere PROVE Taps'
    BY <1>4, <2>1 DEF Enter, Elsewhere, serverVars
  <2>2. ASSUME DidLogout, Elsewhere PROVE Taps'
    BY <1>4, <2>2 DEF DidLogout, Elsewhere, uiVars, serverVars
  <2>3. ASSUME NEW name, UpdateUser(name), Elsewhere PROVE Taps'
    BY <1>4, <2>3 DEF UpdateUser, Elsewhere, uiVars, serverVars
  <2>4. CASE OpenProfile
    <3>1. /\ UNCHANGED <<taps, created, objects, screen, unfollowing>> /\ screen = "tabs"
          /\ checking' = checking \cup {FollowQuery(opened')}
          /\ overtaken' = (overtaken \/ unfollowing # {})
      BY <2>4 DEF OpenProfile, MayUseUser, MayTap, FirstCheck, userVars, uiVars, serverVars,
                  boundVars
    <3>2. FollowQuery(opened').found = {}
      BY DEF FollowQuery
    <3>3. \A q \in checking' \cup unfollowing' : \A r, s \in q.found : r = s
      BY <3>1, <3>2 DEF Taps
    <3> QED
      BY <3>1, <3>3 DEF Taps
  <2>5. CASE DidFollow
    <3>1. /\ UNCHANGED <<created, screen, live, checking>> /\ screen = "tabs"
          /\ taps' = taps + 1
          /\ overtaken' = (overtaken \/ checking # {})
          /\ unfollowing' \in {unfollowing, unfollowing \cup {FollowQuery(taps')}}
          /\ objects' \subseteq objects \cup
                {NewObject(<<taps', "follow">>), NewObject(<<taps', "notice">>)}
      BY <2>5 DEF DidFollow, MayUseUser, MayTap, serverVars
    <3>2. FollowQuery(taps').found = {}
      BY DEF FollowQuery
    <3>3. \A q \in checking' \cup unfollowing' : \A r, s \in q.found : r = s
      BY <3>1, <3>2 DEF Taps
    <3>4. \A n : NewObject(n).id = n
      BY DEF NewObject
    <3>5. ASSUME NEW id \in Ids, id[1] <= taps PROVE id[1] <= taps'
      BY <1>1, <3>1, <3>5 DEF Ids, Nothing
    <3>6. /\ \A o \in objects : o.id \in Ids
          /\ \A r \in created : r.id \in Ids
      BY <1>1 DEF NewObjects
    <3>7. ASSUME NEW o \in objects' PROVE o.id[1] <= taps'
      <4>1. CASE o \in objects
        BY <3>5, <3>6, <4>1 DEF Taps
      <4>2. CASE o.id \in {<<taps', "follow">>, <<taps', "notice">>}
        BY <1>1, <3>1, <4>2
      <4> QED
        BY <3>1, <3>4, <4>1, <4>2
    <3>8. \A r \in created' : r.id[1] <= taps'
      BY <3>1, <3>5, <3>6 DEF Taps
    <3>9. IsFiniteSet(unfollowing')
      BY <3>1, FS_AddElement DEF Taps
    <3> QED
      BY <3>1, <3>3, <3>7, <3>8, <3>9 DEF Taps
  <2>6. ASSUME NEW n, ShowAgain(n) PROVE Taps'
    BY <2>6 DEF ShowAgain, userVars, uiVars, serverVars, boundVars, Taps
  <2> QED
    BY <1>6, <2>1, <2>2, <2>3, <2>4, <2>5, <2>6 DEF Tap
<1>7. ASSUME NEW i, NEW ok, EndTask(i, ok) PROVE \A o \in objects' : \E p \in objects : o.id = p.id
  BY <1>1, <1>7, EndTaskObjects
<1>8. ASSUME NEW o \in objects, NEW copies, Create(o, copies), Elsewhere PROVE Taps'
  <2>1. /\ UNCHANGED <<taps, screen, followVars>> /\ objects' = objects \ {o}
        /\ created' \subseteq created \cup [id : {o.id}, by : {account[o.who]}, copy : 1..copies]
    BY <1>8 DEF Create, Elsewhere
  <2>2. \A r \in [id : {o.id}, by : {account[o.who]}, copy : 1..copies] : r.id = o.id
    OBVIOUS
  <2>3. /\ \A p \in objects' : p.id[1] <= taps'
        /\ \A r \in created' : r.id[1] <= taps'
    BY <1>2, <2>1, <2>2
  <2> QED
    BY <2>1, <2>3 DEF Taps, followVars
<1>9. ASSUME NEW q \in checking, ShowCheck(q) PROVE Taps'
  BY <1>9 DEF ShowCheck, uiVars, serverVars, Taps
<1>10. ASSUME NEW q, NEW found \in First(q.by, q.auth)
       PROVE  \A r, s \in Answered(q, found).found : r = s
  BY DEF First, Answered
<1>11. CASE Service
  <2>1. ASSUME NEW r, Admit(r) \/ Refuse(r), Elsewhere PROVE Taps'
    BY <1>4, <2>1 DEF Admit, Refuse, Elsewhere, serverVars, boundVars
  <2>2. ASSUME NEW i, SaveTurn(i) \/ BatchTurn(i) \/ Execute(i), Elsewhere PROVE Taps'
    BY <1>4, <2>2 DEF SaveTurn, BatchTurn, Execute, Elsewhere, uiVars, serverVars, boundVars
  <2>3. ASSUME Lookup \/ BecomeCurrent \/ LogOut, Elsewhere PROVE Taps'
    BY <1>4, <2>3 DEF Lookup, BecomeCurrent, LogOut, Elsewhere, uiVars, serverVars, boundVars
  <2>4. ASSUME NEW i, HandleResult(i), Elsewhere PROVE Taps'
    <3>1. UNCHANGED <<taps, created, screen, live, unfollowing, checking, overtaken>>
      BY <2>4 DEF HandleResult, Elsewhere, followVars, serverVars, boundVars
    <3>2. \A o \in objects' : \E p \in objects : o.id = p.id
      BY <1>7, <2>4 DEF HandleResult
    <3> QED
      BY <1>3, <3>1, <3>2 DEF Taps
  <2>5. ASSUME SavedCurrent, ProfileGone PROVE Taps'
    <3>1. /\ UNCHANGED <<taps, created, unfollowing, checking, overtaken>>
          /\ screen' = "login" => live' = {}
      BY <2>5 DEF SavedCurrent, ProfileGone, serverVars, boundVars, Taps
    <3>2. \A o \in objects' : \E p \in objects : o.id = p.id
      BY <1>7, <2>5 DEF SavedCurrent
    <3> QED
      BY <1>3, <3>1, <3>2
  <2>6. ASSUME LoggedOutDone, ProfileGone PROVE Taps'
    BY <1>3, <2>6 DEF LoggedOutDone, ProfileGone, serverVars, boundVars, Taps
  <2>7. ASSUME NEW o \in objects, CollectUser(o), Elsewhere PROVE Taps'
    <3>1. UNCHANGED <<taps, created, screen, live, unfollowing, checking, overtaken>>
      BY <2>7 DEF CollectUser, Elsewhere, followVars, serverVars, boundVars
    <3>2. PICK phase : objects' = (objects \ {o}) \cup {[o EXCEPT !.phase = phase]}
      BY <2>7 DEF CollectUser
    <3>3. [o EXCEPT !.phase = phase].id = o.id
      BY <1>1 DEF NewObjects
    <3> QED
      BY <1>3, <3>1, <3>2, <3>3 DEF Taps
  <2>8. ASSUME NEW q \in checking, AnswerCheck(q) PROVE Taps'
    <3>1. /\ UNCHANGED <<taps, created, objects, screen, live, unfollowing, overtaken>>
      BY <2>8 DEF AnswerCheck, userVars, uiVars, serverVars, boundVars
    <3>2. PICK found \in First(q.by, q.auth) :
              checking' = (checking \ {q}) \cup {Answered(q, found)}
      BY <2>8 DEF AnswerCheck
    <3>3. \A p \in checking' \cup unfollowing' : \A r, s \in p.found : r = s
      BY <1>10, <3>1, <3>2 DEF Taps
    <3> QED
      BY <3>1, <3>3 DEF Taps
  <2>9. ASSUME NEW q \in unfollowing, AnswerUnfollow(q) PROVE Taps'
    <3>1. /\ UNCHANGED <<taps, created, objects, screen, live, checking, overtaken>>
      BY <2>9 DEF AnswerUnfollow, userVars, uiVars, serverVars, boundVars
    <3>2. PICK found \in First(q.by, q.auth) :
              unfollowing' = (unfollowing \ {q}) \cup
                 (IF found = {} THEN {} ELSE {Answered(q, found)})
      BY <2>9 DEF AnswerUnfollow, Unfollowed
    <3>3. \A p \in checking' \cup unfollowing' : \A r, s \in p.found : r = s
      BY <1>10, <3>1, <3>2 DEF Taps
    <3>4. IsFiniteSet(unfollowing \ {q}) /\ IsFiniteSet((unfollowing \ {q}) \cup {Answered(q, found)})
      BY FS_RemoveElement, FS_AddElement DEF Taps
    <3>5. IsFiniteSet(unfollowing')
      BY <3>2, <3>4
    <3>6. checking' # {} /\ ~overtaken' => unfollowing' = {}
      BY <3>1 DEF Taps
    <3> QED
      BY <3>1, <3>3, <3>5, <3>6 DEF Taps
  <2>10. ASSUME NEW q \in unfollowing, Delete(q) PROVE Taps'
    <3>1. /\ UNCHANGED <<taps, objects, screen, live, checking, overtaken>>
          /\ created' \subseteq created /\ unfollowing' = unfollowing \ {q}
      BY <2>10 DEF Delete, uiVars, boundVars
    <3>2. IsFiniteSet(unfollowing')
      BY <3>1, FS_RemoveElement DEF Taps
    <3> QED
      BY <1>5, <3>1, <3>2 DEF Taps
  <2> QED
    BY <1>8, <1>9, <1>11, <2>1, <2>2, <2>3, <2>4, <2>5, <2>6, <2>7, <2>8, <2>9, <2>10 DEF Service
<1>12. CASE Fault
  <2>1. ASSUME NEW i, RequestLost(i) \/ SignUpReplyLost(i), Elsewhere PROVE Taps'
    BY <1>4, <2>1 DEF RequestLost, SignUpReplyLost, Elsewhere, uiVars, serverVars
  <2>2. ASSUME NEW q \in unfollowing, UnfollowLost(q) PROVE Taps'
    <3>1. /\ UNCHANGED <<taps, created, objects, screen, live, checking, overtaken>>
          /\ unfollowing' = unfollowing \ {q}
      BY <2>2 DEF UnfollowLost, uiVars, serverVars
    <3>2. IsFiniteSet(unfollowing')
      BY <3>1, FS_RemoveElement DEF Taps
    <3> QED
      BY <1>5, <3>1, <3>2 DEF Taps
  <2>3. CASE Relaunch
    BY <2>3, FS_EmptySet DEF Relaunch, Kill, Launched, serverVars, Taps
  <2> QED
    BY <1>8, <1>9, <1>12, <2>1, <2>2, <2>3 DEF Fault
<1> QED
  BY <1>6, <1>11, <1>12 DEF Next

\* A steady step comes after steady ones; an instance is made only if there is none.
LEMMA SteadyBefore ==
    ASSUME IInv, IInv', Next, Steady'
    PROVE  /\ Steady /\ faults' = faults /\ ~Relaunch
           /\ made' = made \/ made = 0
           /\ currentUser \in {0, 1} /\ (made = 0 => currentUser = 0)
           /\ \A i \in 1..made : i = 1 /\ made = 1
<1>1. /\ faults \in Nat /\ kills \in Nat /\ made \in Nat /\ made' \in Nat
      /\ currentUser \in 0..made
  BY InstancesNat DEF IInv, UserInv, UserTypeOK, HistoryOK, InstancesOK, ControllerOK
<1>2. ~Relaunch
  BY <1>1 DEF Relaunch, Kill, Steady
<1>3. scenario' = scenario /\ kills' = kills
  BY <1>2 DEF Next, Tap, Service, Fault, Enter, DidLogout, UpdateUser, OpenProfile,
       ShowAgain, DidFollow,
       Admit, Refuse, SaveTurn, Lookup, BatchTurn, Execute, HandleResult, BecomeCurrent,
       SavedCurrent, LogOut, LoggedOutDone, CollectUser, Create, AnswerCheck, ShowCheck,
       AnswerUnfollow, Delete, SignUpReplyLost, RequestLost, UnfollowLost,
       userVars, boundVars
<1>4. faults' = faults \/ faults' = faults + 1
  BY <1>2 DEF Next, Tap, Service, Fault, Enter, DidLogout, UpdateUser, OpenProfile,
       ShowAgain, DidFollow,
       Admit, Refuse, SaveTurn, Lookup, BatchTurn, Execute, HandleResult, BecomeCurrent,
       SavedCurrent, LogOut, LoggedOutDone, CollectUser, Create, AnswerCheck, ShowCheck,
       AnswerUnfollow, Delete, SignUpReplyLost, RequestLost, UnfollowLost,
       userVars, boundVars
<1>5. made' = made \/ made' = made + 1
  BY <1>2 DEF Next, Tap, Service, Fault, Enter, DidLogout, UpdateUser, OpenProfile,
       ShowAgain, DidFollow,
       Admit, Refuse, SaveTurn, Lookup, BatchTurn, Execute, HandleResult, BecomeCurrent,
       SavedCurrent, LogOut, LoggedOutDone, CollectUser, Create, AnswerCheck, ShowCheck,
       AnswerUnfollow, Delete, SignUpReplyLost, RequestLost, UnfollowLost,
       userVars, instanceVars
<1>6. Steady /\ faults' = faults /\ (made' = made \/ made = 0)
  BY <1>1, <1>3, <1>4, <1>5 DEF Steady, NothingRefused
<1>7. currentUser \in {0, 1} /\ (made = 0 => currentUser = 0) /\ \A i \in 1..made : i = 1 /\ made = 1
  BY <1>1, <1>6 DEF Steady
<1> QED
  BY <1>2, <1>6, <1>7

\* Whoever is busy has been made, and has entered.
LEMMA BusyIsIn ==
    ASSUME IInv, Landing, logouts = 0 => Alone, NEW i \in Instances, queue[i] # <<>>
    PROVE  made # 0 /\ ~HasTask(dataQueue, "enter") /\ i \in 1..made
<1>1. i \in 1..made
  BY DEF IInv, UserInv, Shape
<1>2. ASSUME HasTask(dataQueue, "enter") PROVE FALSE
  BY <1>2 DEF Landing, Alone, NoRequests, InstanceQuiet
<1> QED
  BY <1>1, <1>2

LEMMA LandingNext ==
    ASSUME IInv, IInv', Landing, logouts = 0 => Alone, Next, Steady'
    PROVE  Landing'
<1>1. /\ ~Relaunch /\ faults' = faults /\ faults \in Nat /\ faults + 1 # faults
      /\ logouts \in Nat /\ made \in Nat /\ made' <= 1
      /\ dataQueue \in Seq(Tasks(made))
  <2>1. ~Relaunch /\ faults' = faults
    BY SteadyBefore
  <2>2. faults \in Nat /\ logouts \in Nat /\ dataQueue \in Seq(Tasks(made))
    BY DEF IInv, UserInv, UserTypeOK, HistoryOK, ControllerOK, Tasks
  <2>3. made \in Nat
    BY InstancesNat DEF IInv, UserInv, UserTypeOK, InstancesOK
  <2> QED
    BY <2>1, <2>2, <2>3 DEF Steady
<1>2. ASSUME UNCHANGED <<made, dataQueue, logouts, screen>> PROVE Landing'
  BY <1>2 DEF Landing
<1>3. ASSUME NEW i \in Instances, queue[i] # <<>>, NEW kind \in {"lookup", "persist"},
             dataQueue' = Append(dataQueue, Task(kind, i)),
             UNCHANGED <<made, logouts, screen>>
      PROVE  Landing'
  <2>1. made # 0 /\ ~HasTask(dataQueue, "enter") /\ i \in 1..made
    BY <1>3, BusyIsIn
  <2>2. Task(kind, i) \in Tasks(made) /\ Task(kind, i).kind = kind
    BY <2>1 DEF Task, Tasks, Kinds
  <2>3. /\ HasTask(dataQueue', "enter") => HasTask(dataQueue, "enter")
        /\ HasTask(dataQueue, "logout") => HasTask(dataQueue', "logout")
    BY <1>1, <1>3, <2>2, HasTaskParts
  <2> QED
    BY <1>3, <2>1, <2>3 DEF Landing
<1>4. ASSUME dataQueue # <<>>, Head(dataQueue).kind # "logout" \/ screen' = "login",
             Head(dataQueue).kind # "enter",
             dataQueue' = Tail(dataQueue), UNCHANGED <<made, logouts>>,
             screen' = screen \/ screen' = "login"
      PROVE  Landing'
  <2>1. /\ HasTask(dataQueue', "enter") => HasTask(dataQueue, "enter")
        /\ HasTask(dataQueue, "logout") => HasTask(dataQueue', "logout") \/ screen' = "login"
    BY <1>1, <1>4, HasTaskParts
  <2>2. Len(dataQueue) <= 1 => Len(dataQueue') <= 1
    BY <1>1, <1>4
  <2>3. made # 0
    BY <1>4 DEF Landing
  <2> QED
    BY <1>4, <2>1, <2>2, <2>3 DEF Landing
<1>5. CASE Tap
  <2>1. ASSUME NEW u, NEW kind, Enter(u, kind) PROVE Landing'
    BY <1>2, <2>1 DEF Enter, instanceVars, controllerVars
  <2>2. ASSUME DidLogout PROVE Landing'
    <3>1. /\ screen = "tabs" /\ logouts' = logouts + 1
          /\ dataQueue' = Append(dataQueue, Task("logout", 0))
          /\ UNCHANGED <<made, screen>>
      BY <2>2 DEF DidLogout, MayTap, instanceVars, uiVars
    <3>2. Task("logout", 0) \in Tasks(made) /\ Task("logout", 0).kind = "logout"
      BY <1>1 DEF Task, Tasks, Kinds
    <3>3. HasTask(dataQueue', "logout") /\ (HasTask(dataQueue', "enter") => HasTask(dataQueue, "enter"))
      BY <1>1, <3>1, <3>2, HasTaskParts
    <3> QED
      BY <3>1, <3>3 DEF Landing
  <2>3. ASSUME NEW name, UpdateUser(name) PROVE Landing'
    BY <1>2, <2>3 DEF UpdateUser, controllerVars, uiVars
  <2> QED
    BY <1>2, <1>5, <2>1, <2>2, <2>3
    DEF Tap, OpenProfile,
       ShowAgain, DidFollow, userVars, instanceVars, controllerVars, uiVars, boundVars
<1>6. CASE Service
  <2>1. ASSUME NEW r \in entering, Admit(r) PROVE Landing'
    <3>1. made = 0 /\ made' = 1 /\ dataQueue = <<>> /\ screen = "login" /\ logouts = 0
      BY <1>1, <2>1 DEF Admit, Landing
    <3>2. /\ dataQueue' = Append(<<>>, Task("enter", made')) /\ screen' = screen
          /\ logouts' = logouts
      BY <2>1, <3>1 DEF Admit
    <3>3. Task("enter", made') \in Tasks(made') /\ <<>> \in Seq(Tasks(made'))
      BY <3>1 DEF Task, Tasks, Kinds
    <3>4. Len(dataQueue') <= 1
      BY <3>2, <3>3, OneTask
    <3> QED
      BY <3>1, <3>2, <3>4 DEF Landing
  <2>2. ASSUME NEW r, Refuse(r) \/ CollectUser(r) \/ Create(r, 1) PROVE Landing'
    BY <1>2, <2>2 DEF Refuse, CollectUser, Create, instanceVars, controllerVars, boundVars
  <2>3. ASSUME NEW i \in Instances, SaveTurn(i) PROVE Landing'
    BY <1>3, <2>3 DEF SaveTurn, uiVars, boundVars
  <2>4. ASSUME NEW i \in Instances, BatchTurn(i) \/ Execute(i) PROVE Landing'
    BY <1>2, <2>4 DEF BatchTurn, Execute, controllerVars, uiVars, boundVars
  <2>5. ASSUME NEW i \in Instances, HandleResult(i) PROVE Landing'
    <3>1. queue[i] # <<>> /\ UNCHANGED <<made, logouts, screen>>
      BY <2>5 DEF HandleResult, IInv, UserInv, Shape, boundVars
    <3>2. dataQueue' = dataQueue \/ dataQueue' = Append(dataQueue, Task("persist", i))
      BY <2>5 DEF HandleResult
    <3> QED
      BY <1>2, <1>3, <3>1, <3>2
  <2>6. ASSUME Lookup PROVE Landing'
    BY <1>4, <2>6 DEF Lookup, uiVars, boundVars
  <2>7. ASSUME BecomeCurrent \/ LogOut PROVE Landing'
    BY <1>2, <2>7 DEF BecomeCurrent, LogOut, uiVars, boundVars
  <2>8. ASSUME SavedCurrent PROVE Landing'
    <3>1. /\ dataQueue # <<>> /\ Head(dataQueue).kind \in {"enter", "persist"}
          /\ dataQueue' = Tail(dataQueue) /\ UNCHANGED <<made, logouts>>
      BY <2>8 DEF SavedCurrent, boundVars
    <3>2. CASE Head(dataQueue).kind = "persist"
      BY <1>4, <2>8, <3>1, <3>2 DEF SavedCurrent
    <3>3. CASE Head(dataQueue).kind = "enter"
      <4>1. HasTask(dataQueue, "enter")
        BY <1>1, <3>1, <3>3, HasTaskParts
      <4>2. Len(dataQueue) <= 1 /\ logouts = 0 /\ made # 0
        BY <3>1, <4>1 DEF Landing
      <4>3. dataQueue' = <<>>
        BY <1>1, <3>1, <4>2, LastTask
      <4> QED
        BY <3>1, <4>2, <4>3 DEF Landing, HasTask
    <3> QED
      BY <3>1, <3>2, <3>3
  <2>9. ASSUME LoggedOutDone PROVE Landing'
    BY <1>4, <2>9 DEF LoggedOutDone, instanceVars, boundVars
  <2>10. ASSUME NEW q, AnswerCheck(q) \/ ShowCheck(q) \/ AnswerUnfollow(q) \/ Delete(q)
         PROVE  Landing'
    BY <1>2, <2>10 DEF AnswerCheck, ShowCheck, AnswerUnfollow, Delete, instanceVars,
       controllerVars, uiVars, boundVars, userVars
  <2> QED
    BY <1>6, <2>1, <2>2, <2>3, <2>4, <2>5, <2>6, <2>7, <2>8, <2>9, <2>10 DEF Service
<1>7. ASSUME Fault PROVE Landing'
  <2>1. ASSUME NEW q, RequestLost(q) \/ SignUpReplyLost(q) \/ UnfollowLost(q) PROVE FALSE
    BY <1>1, <2>1 DEF RequestLost, SignUpReplyLost, UnfollowLost
  <2>2. ASSUME NEW o, NEW copies, Create(o, copies) PROVE Landing'
    BY <1>2, <2>2 DEF Create, instanceVars, controllerVars
  <2>3. ASSUME NEW q, ShowCheck(q) PROVE Landing'
    BY <1>2, <2>3 DEF ShowCheck, instanceVars, controllerVars, uiVars
  <2> QED
    BY <1>1, <1>7, <2>1, <2>2, <2>3 DEF Fault
<1> QED
  BY <1>5, <1>6, <1>7 DEF Next

-----------------------------------------------------------------------------
\* The user is in: his instance and his session stay, and what he asks for is his.
LEMMA AloneInTabs ==
    ASSUME IInv, IInv', Landing, Alone, currentUser # 0, logouts = 0, logouts' = 0,
           Next, Steady'
    PROVE  /\ UNCHANGED <<currentUser, account, token, sessions, screen, made>>
           /\ Ours' /\ ~HasTask(dataQueue', "logout")
<1>1. /\ currentUser = 1 /\ made' = 1 /\ made = 1 /\ ~Relaunch
      /\ faults' = faults /\ faults \in Nat /\ faults + 1 # faults
      /\ screen = "tabs" /\ Ours /\ currentUser \in Instances
      /\ dataQueue \in Seq(Tasks(made)) /\ logouts + 1 # logouts
      /\ token \in [Instances -> {0} \cup Tokens]
  <2>1. /\ currentUser \in {0, 1} /\ (made = 0 => currentUser = 0) /\ ~Relaunch
        /\ faults' = faults /\ (made' = made \/ made = 0)
        /\ \A i \in 1..made : i = 1 /\ made = 1
    BY SteadyBefore
  <2>2. currentUser \in 1..made /\ currentUser \in Instances
    BY IsCurrent DEF IInv
  <2>3. faults \in Nat /\ logouts \in Nat /\ dataQueue \in Seq(Tasks(made))
    BY DEF IInv, UserInv, UserTypeOK, HistoryOK, ControllerOK, Tasks
  <2>4. token \in [Instances -> {0} \cup Tokens]
    BY DEF IInv, UserInv, UserTypeOK, InstancesOK
  <2> QED
    BY <2>1, <2>2, <2>3, <2>4 DEF Alone
<1>2. ~HasTask(dataQueue, "enter") /\ ~HasTask(dataQueue, "logout")
  BY <1>1 DEF Landing, Alone
<1>3. dataQueue # <<>> => /\ Head(dataQueue).kind \notin {"enter", "logout"}
                          /\ ~HasTask(Tail(dataQueue), "logout")
                          /\ Head(dataQueue).who = 1
  <2> SUFFICES ASSUME dataQueue # <<>>
               PROVE  /\ Head(dataQueue).kind \notin {"enter", "logout"}
                      /\ ~HasTask(Tail(dataQueue), "logout")
                      /\ Head(dataQueue).who = 1
    OBVIOUS
  <2>1. /\ Head(dataQueue).kind \notin {"enter", "logout"}
        /\ ~HasTask(Tail(dataQueue), "logout")
    BY <1>1, <1>2, HasTaskParts
  <2>2. TaskOK(Head(dataQueue), made, sending)
    BY FirstTask DEF IInv, UserInv
  <2> QED
    BY <1>1, <2>1, <2>2 DEF TaskOK
<1> DEFINE Goal == /\ UNCHANGED <<currentUser, account, token, sessions, screen, made>>
                   /\ Ours' /\ ~HasTask(dataQueue', "logout")
<1>4. ASSUME UNCHANGED <<currentUser, account, token, sessions, screen, dataQueue>>, Ours'
      PROVE  Goal
  BY <1>1, <1>2, <1>4
<1>5. ASSUME UNCHANGED <<currentUser, account, token, sessions, screen>>, Ours',
             NEW kind \in {"lookup", "persist"}, NEW i, i = currentUser,
             dataQueue' = Append(dataQueue, Task(kind, i))
      PROVE  Goal
  <2>1. Task(kind, i) \in Tasks(made) /\ Task(kind, i).kind = kind
    BY <1>1, <1>5 DEF Task, Tasks, Kinds
  <2>2. ~HasTask(dataQueue', "logout")
    BY <1>1, <1>2, <1>5, <2>1, HasTaskParts
  <2> QED
    BY <1>1, <1>5, <2>2
<1> SUFFICES Goal
  OBVIOUS
<1> HIDE DEF Goal
<1>6. CASE Tap
  <2>1. ASSUME NEW u, NEW kind, Enter(u, kind) PROVE FALSE
    BY <1>1, <2>1 DEF Enter, MayTap
  <2>2. ASSUME DidLogout PROVE FALSE
    BY <1>1, <2>2 DEF DidLogout
  <2>3. ASSUME NEW name, UpdateUser(name), Elsewhere PROVE Goal
    BY <1>4, <2>3, UpdateUserOurs, <1>1 DEF UpdateUser, controllerVars, uiVars, serverVars
  <2>4. ASSUME OpenProfile PROVE Goal
    BY <1>1, <1>4, <2>4, OpenProfileOurs
    DEF OpenProfile, userVars, instanceVars, controllerVars, uiVars, serverVars
  <2>5. ASSUME DidFollow PROVE Goal
    BY <1>1, <1>4, <2>5, DidFollowOurs DEF DidFollow, instanceVars, controllerVars, serverVars
  <2>6. ASSUME NEW n, ShowAgain(n) PROVE Goal
    <3>1. UNCHANGED <<currentUser, account, token, sessions, screen, dataQueue, queue,
                      sending, objects, checking, unfollowing>>
      BY <2>6 DEF ShowAgain, userVars, instanceVars, controllerVars, uiVars, serverVars
    <3> QED
      BY <1>1, <1>4, <3>1, OursFrame
  <2> QED
    BY <1>6, <2>1, <2>2, <2>3, <2>4, <2>5, <2>6 DEF Tap
<1>7. CASE Service
  <2>1. ASSUME NEW r, Admit(r) PROVE FALSE
    BY <1>1, <2>1 DEF Admit
  <2>2. ASSUME NEW r, Refuse(r), Elsewhere PROVE Goal
    <3>1. UNCHANGED <<currentUser, account, token, sessions, screen, dataQueue, queue,
                      sending, objects, checking, unfollowing>>
      BY <2>2 DEF Refuse, Elsewhere, followVars, instanceVars, controllerVars, serverVars
    <3> QED
      BY <1>1, <1>4, <3>1, OursFrame
  <2>3. ASSUME NEW i \in Instances, SaveTurn(i), Elsewhere PROVE Goal
    <3>1. i = currentUser
      BY <1>1, <2>3, BusyIsOurs DEF SaveTurn, InstanceQuiet
    <3> QED
      BY <1>1, <1>5, <2>3, <3>1, SaveTurnOurs DEF SaveTurn, uiVars, serverVars
  <2>4. ASSUME Lookup, Elsewhere PROVE Goal
    BY <1>1, <1>3, <2>4, LookupOurs DEF Lookup, uiVars, serverVars, Goal
  <2>5. ASSUME NEW i \in Instances, BatchTurn(i), Elsewhere PROVE Goal
    BY <1>1, <1>4, <2>5, BatchTurnOurs DEF BatchTurn, controllerVars, uiVars, serverVars
  <2>6. ASSUME NEW i \in Instances, Execute(i), Elsewhere PROVE Goal
    BY <1>1, <1>4, <2>6, AnswerOurs DEF Execute, controllerVars, uiVars, serverVars
  <2>7. ASSUME NEW i \in Instances, HandleResult(i), Elsewhere PROVE Goal
    <3>1. i = currentUser /\ Ours'
      BY <1>1, <2>7, HandleResultOurs
    <3>2. UNCHANGED <<currentUser, account, token, sessions, screen>>
      BY <2>7 DEF HandleResult, serverVars
    <3>3. dataQueue' = dataQueue \/ dataQueue' = Append(dataQueue, Task("persist", i))
      BY <2>7 DEF HandleResult
    <3> QED
      BY <1>4, <1>5, <3>1, <3>2, <3>3
  <2>8. ASSUME BecomeCurrent, Elsewhere PROVE Goal
    <3>1. /\ dataQueue # <<>> /\ LoggedOut(LoggedOutFor(Head(dataQueue).who), {Head(dataQueue).who})
          /\ UNCHANGED <<currentUser, account, screen, dataQueue, queue, sending, objects,
                         checking, unfollowing>>
      BY <2>8 DEF BecomeCurrent, Elsewhere, followVars, uiVars
    <3>2. LoggedOutFor(Head(dataQueue).who) = {}
      BY <1>1, <1>3, <3>1 DEF LoggedOutFor
    <3>3. token' = token /\ sessions' = sessions
      BY <1>1, <3>1, <3>2 DEF LoggedOut
    <3> QED
      BY <1>1, <1>4, <3>1, <3>3, OursFrame
  <2>9. ASSUME SavedCurrent, ProfileGone PROVE Goal
    <3>1. /\ dataQueue # <<>> /\ Head(dataQueue).kind = "persist"
          /\ dataQueue' = Tail(dataQueue) /\ currentUser' = Head(dataQueue).who
          /\ UNCHANGED <<account, token, sessions, checking, unfollowing>>
      BY <1>3, <2>9 DEF SavedCurrent, ProfileGone, serverVars
    <3>2. PICK i \in Instances : /\ i = Head(dataQueue).who /\ i = currentUser
                                 /\ sending[i].phase \in {"persist", "persistFailed"}
      <4>1. TaskOK(Head(dataQueue), made, sending)
        BY <3>1, FirstTask DEF IInv, UserInv
      <4> QED
        BY <1>1, <1>3, <3>1, <4>1 DEF TaskOK
    <3>3. /\ EndTask(i, sending[i].phase = "persist") /\ screen' = screen
          /\ sending' = [sending EXCEPT ![i] = Idle]
      BY <2>9, <3>1, <3>2 DEF SavedCurrent
    <3>4. queue[i] # <<>>
      BY <3>2 DEF IInv, UserInv, Shape
    <3>5. Ours'
      BY <1>1, <3>1, <3>2, <3>3, <3>4, EndTaskOurs
    <3> QED
      BY <1>1, <1>3, <3>1, <3>2, <3>3, <3>5 DEF Goal
  <2>10. ASSUME LogOut \/ LoggedOutDone PROVE FALSE
    BY <1>3, <2>10 DEF LogOut, LoggedOutDone
  <2>11. ASSUME NEW o \in objects, CollectUser(o), Elsewhere PROVE Goal
    BY <1>1, <1>4, <2>11, CollectUserOurs DEF CollectUser, controllerVars, serverVars
  <2>12. ASSUME NEW o \in objects, Create(o, 1), Elsewhere PROVE Goal
    <3>1. /\ UNCHANGED <<currentUser, account, token, sessions, screen, dataQueue, queue,
                         sending, checking, unfollowing>>
          /\ objects' \subseteq objects
      BY <2>12 DEF Create, Elsewhere, followVars, instanceVars, controllerVars
    <3> QED
      BY <1>1, <1>4, <3>1, OursFrame
  <2>13. ASSUME NEW q \in checking, AnswerCheck(q) \/ ShowCheck(q) PROVE Goal
    BY <1>1, <1>4, <2>13, CheckOurs
    DEF AnswerCheck, ShowCheck, userVars, instanceVars, controllerVars, uiVars, serverVars
  <2>14. ASSUME NEW q \in unfollowing, AnswerUnfollow(q) \/ Delete(q) PROVE Goal
    BY <1>1, <1>4, <2>14, UnfollowOurs
    DEF AnswerUnfollow, Delete, userVars, instanceVars, controllerVars, uiVars, serverVars
  <2> QED
    BY <1>7, <2>1, <2>2, <2>3, <2>4, <2>5, <2>6, <2>7, <2>8, <2>9, <2>10, <2>11, <2>12,
       <2>13, <2>14 DEF Service
<1>8. CASE Fault
  <2>1. ASSUME NEW q, RequestLost(q) \/ SignUpReplyLost(q) \/ UnfollowLost(q) PROVE FALSE
    BY <1>1, <2>1 DEF RequestLost, SignUpReplyLost, UnfollowLost
  <2>2. ASSUME NEW o, NEW copies \in {0, 2}, Create(o, copies) PROVE FALSE
    BY <1>1, <2>2 DEF Create
  <2>3. ASSUME NEW q, q.phase = "asked", ShowCheck(q) PROVE FALSE
    BY <1>1, <2>3 DEF ShowCheck
  <2> QED
    BY <1>1, <1>8, <2>1, <2>2, <2>3 DEF Fault
<1> QED
  BY <1>6, <1>7, <1>8 DEF Next

LEMMA AloneNext ==
    ASSUME IInv, IInv', Landing, Alone, NotTaken, logouts = 0, logouts' = 0, Next, Steady'
    PROVE  /\ Alone'
           /\ currentUser = 0 /\ currentUser' # 0 =>
                 NoRequests' /\ isFollowing' = {} /\ UNCHANGED overtaken
<1>1. /\ currentUser \in {0, 1} /\ (made = 0 => currentUser = 0) /\ ~Relaunch
      /\ faults' = faults /\ (made' = made \/ made = 0)
      /\ \A i \in 1..made : i = 1 /\ made = 1
  BY SteadyBefore
<1>2. faults \in Nat /\ dataQueue \in Seq(Tasks(made)) /\ logouts + 1 # logouts
  BY DEF IInv, UserInv, UserTypeOK, HistoryOK, ControllerOK, Tasks
<1>3. (\E i \in Instances : ~InstanceQuiet(i)) => Ours /\ token[currentUser] \in sessions
  BY <1>1 DEF Alone, NoRequests
<1>4. NoneFailed'
  BY <1>1, <1>3, NoneFailedNext DEF Alone
<1>5. CASE currentUser # 0
  <2>1. /\ UNCHANGED <<currentUser, account, token, sessions, screen, made>>
        /\ Ours' /\ ~HasTask(dataQueue', "logout")
    BY <1>5, AloneInTabs
  <2> QED
    BY <1>4, <1>5, <2>1 DEF Alone
<1>6. CASE currentUser = 0
  <2>1. screen = "login" /\ NoRequests /\ isFollowing = {} /\ ~HasTask(dataQueue, "logout")
    BY <1>6 DEF Alone
  <2>2. /\ objects = {} /\ checking = {} /\ unfollowing = {}
        /\ \A i \in Instances : queue[i] = <<>> /\ sending[i].phase = "idle"
    BY <2>1 DEF NoRequests, InstanceQuiet, Idle
  <2>3. dataQueue # <<>> => /\ Head(dataQueue).kind = "enter" /\ Head(dataQueue).who = 1
                            /\ ~HasTask(Tail(dataQueue), "logout") /\ made = 1
    <3> SUFFICES ASSUME dataQueue # <<>>
                 PROVE  /\ Head(dataQueue).kind = "enter" /\ Head(dataQueue).who = 1
                        /\ ~HasTask(Tail(dataQueue), "logout") /\ made = 1
      OBVIOUS
    <3>1. /\ TaskOK(Head(dataQueue), made, sending) /\ 1..made \subseteq Instances
          /\ Head(dataQueue) \in Tasks(made)
      BY FirstTask DEF IInv, UserInv
    <3>2. Head(dataQueue).kind # "logout" /\ ~HasTask(Tail(dataQueue), "logout")
      BY <1>2, <2>1, HasTaskParts
    <3>3. Head(dataQueue).kind \in Kinds
      BY <3>1 DEF Tasks
    <3> QED
      BY <1>1, <2>2, <3>1, <3>2, <3>3 DEF TaskOK, Kinds
  <2> DEFINE Same == UNCHANGED <<currentUser, screen, queue, sending, objects, checking,
                                 unfollowing, isFollowing>>
  <2>4. ASSUME Same, ~HasTask(dataQueue', "logout"), made' # 0 => token'[1] \in sessions'
        PROVE  Alone' /\ currentUser' = 0
    BY <1>4, <1>6, <2>1, <2>4 DEF Alone, NoRequests, InstanceQuiet
  <2>5. ASSUME Same, UNCHANGED <<dataQueue, made, token, sessions>>
        PROVE  Alone' /\ currentUser' = 0
    BY <2>1, <2>4, <2>5 DEF Alone
  <2>6. CASE Tap
    <3>1. ASSUME NEW u, NEW kind, Enter(u, kind), Elsewhere PROVE Alone' /\ currentUser' = 0
      BY <2>5, <3>1 DEF Enter, Elsewhere, followVars, instanceVars, controllerVars, serverVars
    <3>2. ~MayTap("tabs")
      BY <2>1 DEF MayTap
    <3> QED
      BY <2>6, <3>1, <3>2 DEF Tap, DidLogout, UpdateUser, OpenProfile,
       ShowAgain, DidFollow, MayUseUser
  <2>7. CASE Service
    <3>1. ASSUME NEW r, Admit(r), Elsewhere PROVE Alone' /\ currentUser' = 0
      <4>1. /\ UNCHANGED <<currentUser, screen, queue, sending, objects, checking, unfollowing,
                           isFollowing>>
            /\ made' = made + 1 /\ token' = [token EXCEPT ![made'] = issued']
            /\ sessions' = sessions \cup {issued'}
            /\ dataQueue' = Append(dataQueue, Task("enter", made'))
        BY <3>1 DEF Admit, Elsewhere, followVars
      <4>2. made = 0 /\ made' = 1 /\ dataQueue = <<>> /\ 1 \in Instances
        <5>1. made = 0 /\ made' = 1
          <6>1. made \in Nat
            BY InstancesNat DEF IInv, UserInv, UserTypeOK, InstancesOK
          <6> QED
            BY <1>1, <4>1, <6>1
        <5>2. 1 \in Instances
          BY InstancesNat DEF Instances
        <5> QED
          BY <5>1, <5>2 DEF Landing
      <4>3. token'[1] \in sessions'
        BY <4>1, <4>2 DEF IInv, UserInv, UserTypeOK, InstancesOK
      <4>4. Task("enter", made') \in Tasks(made') /\ <<>> \in Seq(Tasks(made'))
            /\ Task("enter", made').kind = "enter" /\ ~HasTask(<<>>, "logout")
        BY <4>2 DEF Task, Tasks, Kinds, HasTask
      <4>5. ~HasTask(dataQueue', "logout")
        BY <4>1, <4>2, <4>4, HasTaskParts
      <4> QED
        BY <2>4, <4>1, <4>3, <4>5
    <3>2. ASSUME NEW r, Refuse(r), Elsewhere PROVE Alone' /\ currentUser' = 0
      BY <2>5, <3>2 DEF Refuse, Elsewhere, followVars, instanceVars, controllerVars, serverVars
    <3>3. ASSUME NEW i \in Instances,
                 SaveTurn(i) \/ BatchTurn(i) \/ Execute(i) \/ HandleResult(i)
          PROVE  FALSE
      BY <2>2, <3>3 DEF SaveTurn, BatchTurn, Execute, HandleResult
    <3>4. ASSUME Lookup \/ LogOut \/ LoggedOutDone PROVE FALSE
      BY <2>3, <3>4 DEF Lookup, LogOut, LoggedOutDone
    <3>5. ASSUME BecomeCurrent, Elsewhere PROVE Alone' /\ currentUser' = 0
      <4>1. /\ dataQueue # <<>> /\ LoggedOut(LoggedOutFor(Head(dataQueue).who), {Head(dataQueue).who})
            /\ UNCHANGED <<currentUser, made, screen, dataQueue, queue, sending, objects,
                           checking, unfollowing, isFollowing>>
        BY <3>5 DEF BecomeCurrent, Elsewhere, followVars, uiVars
      <4>2. LoggedOutFor(Head(dataQueue).who) = {}
        BY <1>6 DEF LoggedOutFor
      <4>3. token' = token /\ sessions' = sessions
        BY <4>1, <4>2 DEF LoggedOut, IInv, UserInv, UserTypeOK, InstancesOK
      <4> QED
        BY <2>5, <4>1, <4>3
    <3>6. ASSUME SavedCurrent, ProfileGone
          PROVE  Alone' /\ NoRequests' /\ isFollowing' = {} /\ UNCHANGED overtaken
      <4>1. /\ dataQueue # <<>> /\ dataQueue' = Tail(dataQueue)
            /\ currentUser' = Head(dataQueue).who
            /\ UNCHANGED <<made, account, token, sessions, checking, unfollowing, overtaken>>
        BY <3>6 DEF SavedCurrent, ProfileGone, serverVars
      <4>2. currentUser' = 1 /\ screen' = "tabs" /\ UNCHANGED <<queue, sending, objects>>
        BY <2>3, <3>6, <4>1 DEF SavedCurrent
      <4>3. isFollowing' = {}
        BY <2>1, <3>6, <4>2 DEF ProfileGone
      <4>4. NoRequests' /\ 1 \in Instances
        BY <2>1, <4>1, <4>2, InstancesNat DEF NoRequests, InstanceQuiet, Instances
      <4>5. Ours'
        BY <4>2, <4>4 DEF NoRequests, InstanceQuiet, Ours, SessionOf, Idle
      <4> QED
        BY <1>4, <2>1, <2>3, <4>1, <4>2, <4>3, <4>4, <4>5 DEF Alone
    <3> QED
      BY <1>6, <2>2, <2>7, <3>1, <3>2, <3>3, <3>4, <3>5, <3>6 DEF Service
  <2>8. CASE Fault
    <3>1. ASSUME NEW q, RequestLost(q) \/ SignUpReplyLost(q) PROVE FALSE
      BY <1>1, <1>2, <3>1 DEF RequestLost, SignUpReplyLost
    <3> QED
      BY <1>1, <2>2, <2>8, <3>1 DEF Fault
  <2> QED
    BY <1>6, <2>6, <2>7, <2>8 DEF Next
<1> QED
  BY <1>5, <1>6

-----------------------------------------------------------------------------
LEMMA TapIdsFinite ==
    ASSUME NEW n \in Nat, NEW F \in SUBSET ((0..n) \X {"follow"})
    PROVE  IsFiniteSet(F) /\ Cardinality(F) \in Nat
<1>1. IsFiniteSet(0..n) /\ IsFiniteSet({"follow"})
  BY 0 \in Int, n \in Int, FS_Interval, FS_Singleton
<1>2. IsFiniteSet((0..n) \X {"follow"})
  BY <1>1, FS_Product
<1>3. IsFiniteSet(F)
  BY <1>2, FS_Subset
<1> QED
  BY <1>3, FS_CardinalityType

LEMMA FollowIdsAreTaps ==
    ASSUME IInv, Taps
    PROVE  FollowIds \subseteq (0..taps) \X {"follow"}
<1>1. /\ \A o \in objects : o.id \in Ids
      /\ \A r \in created : r.id \in Ids
      /\ taps \in Nat
  BY DEF IInv, UserInv, UserTypeOK, ScreensOK, ServerOK, HistoryOK, NewObjects
<1>2. \A id \in Ids : id[1] <= taps /\ id[2] = "follow" => id \in (0..taps) \X {"follow"}
  BY <1>1 DEF Ids, Nothing
<1> QED
  BY <1>1, <1>2 DEF FollowIds, Follows, Rows, FollowRows, Taps

LEMMA FollowIdsAreTapsNext ==
    ASSUME IInv', Taps'
    PROVE  FollowIds' \subseteq (0..taps') \X {"follow"}
<1>1. /\ \A o \in objects' : o.id \in Ids
      /\ \A r \in created' : r.id \in Ids
      /\ taps' \in Nat
  BY DEF IInv, UserInv, UserTypeOK, ScreensOK, ServerOK, HistoryOK, NewObjects
<1>2. \A id \in Ids : id[1] <= taps' /\ id[2] = "follow" => id \in (0..taps') \X {"follow"}
  BY <1>1 DEF Ids, Nothing
<1> QED
  BY <1>1, <1>2 DEF FollowIds, Follows, Rows, FollowRows, Taps

LEMMA BalanceNext ==
    ASSUME IInv, IInv', Taps, Taps', Landing, Alone, logouts = 0, logouts' = 0,
           currentUser # 0, ~overtaken', ~overtaken => Balance, Next, Steady'
    PROVE  Balance'
<1>1. /\ UNCHANGED <<currentUser, account, token, sessions, screen, made>>
      /\ screen = "tabs" /\ NoneFailed /\ Ours /\ currentUser = 1 /\ made = 1
      /\ ~Relaunch /\ faults' = faults /\ faults \in Nat /\ taps \in Nat
      /\ objects \subseteq NewObjects /\ UserTypeOK
  <2>1. UNCHANGED <<currentUser, account, token, sessions, screen, made>>
    BY AloneInTabs
  <2>2. /\ currentUser \in {0, 1} /\ (made = 0 => currentUser = 0) /\ ~Relaunch
        /\ faults' = faults /\ \A i \in 1..made : i = 1 /\ made = 1
    BY SteadyBefore
  <2>3. currentUser \in 1..made
    BY IsCurrent DEF IInv
  <2>4. /\ faults \in Nat /\ taps \in Nat
        /\ objects \subseteq NewObjects /\ UserTypeOK
    BY DEF IInv, UserInv, UserTypeOK, HistoryOK, ScreensOK, FollowOK
  <2> QED
    BY <2>1, <2>2, <2>3, <2>4 DEF Alone
<1>2. /\ IsFiniteSet(FollowIds) /\ Cardinality(FollowIds) \in Nat
      /\ IsFiniteSet(FollowIds') /\ Cardinality(FollowIds') \in Nat
      /\ IsFiniteSet(unfollowing) /\ Cardinality(unfollowing) \in Nat
      /\ IsFiniteSet(unfollowing') /\ Cardinality(unfollowing') \in Nat
  <2>1. IsFiniteSet(FollowIds) /\ Cardinality(FollowIds) \in Nat
    BY <1>1, FollowIdsAreTaps, TapIdsFinite
  <2>2. taps' \in Nat
    BY DEF IInv, UserInv, UserTypeOK, HistoryOK
  <2>3. IsFiniteSet(FollowIds') /\ Cardinality(FollowIds') \in Nat
    BY <2>2, FollowIdsAreTapsNext, TapIdsFinite
  <2> QED
    BY <2>1, <2>3, FS_CardinalityType DEF Taps
<1>3. ~overtaken
  BY <1>1 DEF Next, Tap, Service, Fault, Elsewhere, OpenProfile, ShowAgain, DidFollow, AnswerCheck,
       ShowCheck, AnswerUnfollow, Delete, UnfollowLost, ProfileGone, followVars
<1>4. /\ \A n \in Fresh :
            Cardinality(unfollowing) + (IF n \in isFollowing THEN 1 ELSE 0)
                <= Cardinality(FollowIds)
      /\ \A q \in checking : q.phase = "answered" => q.found \subseteq Rows
      /\ checking # {} => unfollowing = {}
  BY <1>3 DEF Balance, Taps
\* What is promised may grow, and what is asked for may shrink.
<1>5. ASSUME NEW n \in Fresh, FollowIds \subseteq FollowIds',
             n \in isFollowing' => n \in isFollowing,
             Cardinality(unfollowing') <= Cardinality(unfollowing)
      PROVE  Cardinality(unfollowing') + (IF n \in isFollowing' THEN 1 ELSE 0)
                 <= Cardinality(FollowIds')
  <2>1. Cardinality(FollowIds) <= Cardinality(FollowIds')
    BY <1>2, <1>5, FS_Subset
  <2> QED
    BY <1>1, <1>2, <1>4, <1>5, <2>1
<1>6. ASSUME UNCHANGED followVars, FollowIds \subseteq FollowIds', Rows \subseteq Rows'
      PROVE  Balance'
  <2>1. unfollowing' = unfollowing /\ isFollowing' = isFollowing /\ checking' = checking
        /\ Fresh' = Fresh
    BY <1>6 DEF followVars, Fresh
  <2>2. Cardinality(unfollowing') <= Cardinality(unfollowing)
    BY <1>2, <2>1
  <2> QED
    BY <1>4, <1>5, <1>6, <2>1, <2>2 DEF Balance
<1>7. ASSUME created' = created PROVE Rows' = Rows
  BY <1>1, <1>7 DEF Rows, FollowRows
<1>8. ASSUME created' = created, objects' = objects PROVE FollowIds' = FollowIds
  BY <1>7, <1>8 DEF FollowIds, Follows
<1>9. ASSUME created' = created, objects' = objects, UNCHANGED followVars PROVE Balance'
  BY <1>6, <1>7, <1>8, <1>9
<1>10. ASSUME NEW W \in SUBSET objects, NEW phase, created' = created, UNCHANGED followVars,
              objects' = (objects \ W) \cup {[o EXCEPT !.phase = phase] : o \in W}
       PROVE  Balance'
  <2>1. \A o \in objects : [o EXCEPT !.phase = phase].id = o.id
    BY <1>1 DEF NewObjects
  <2>2. \A o \in objects : \E p \in objects' : p.id = o.id
    BY <1>10, <2>1
  <2>3. \A o \in Follows : \E p \in Follows' : p.id = o.id
    BY <2>2 DEF Follows
  <2>4. Rows' = Rows /\ FollowIds \subseteq FollowIds'
    BY <1>7, <1>10, <2>3 DEF FollowIds
  <2> QED
    BY <1>6, <1>10, <2>4
<1>11. CASE OpenProfile
  <2>1. /\ created' = created /\ objects' = objects /\ unfollowing' = unfollowing
        /\ isFollowing' = isFollowing /\ checking' = checking \cup {FollowQuery(opened')}
        /\ Fresh' \subseteq Fresh \cup {opened'} /\ unfollowing = {} /\ opened' = opened + 1
    BY <1>11 DEF OpenProfile, FirstCheck, Fresh, userVars, uiVars, serverVars
  <2>2. FollowQuery(opened').phase = "asked"
    BY DEF FollowQuery
  <2>3. Cardinality(unfollowing') <= Cardinality(unfollowing) /\ Cardinality(unfollowing') = 0
    BY <1>2, <2>1, FS_EmptySet
  <2>4. opened' \notin isFollowing'
    <3>1. opened \in Nat /\ isFollowing \subseteq 1..opened
      BY DEF IInv, FollowOK
    <3> QED
      BY <2>1, <3>1
  <2>5. ASSUME NEW n \in Fresh'
        PROVE  Cardinality(unfollowing') + (IF n \in isFollowing' THEN 1 ELSE 0)
                   <= Cardinality(FollowIds')
    <3>1. CASE n \in Fresh
      BY <1>5, <1>8, <2>1, <2>3, <3>1
    <3>2. CASE n = opened'
      BY <1>2, <2>3, <2>4, <3>2
    <3> QED
      BY <2>1, <3>1, <3>2
  <2> QED
    BY <1>4, <1>7, <2>1, <2>2, <2>5 DEF Balance
<1>12. CASE DidFollow
  <2>1. /\ created' = created /\ checking' = checking /\ taps' = taps + 1
        /\ profile \in isFollowing' <=> profile \notin isFollowing
        /\ Fresh' \subseteq {profile} /\ Fresh' \subseteq Fresh
    BY <1>12 DEF DidFollow, Fresh, serverVars
  <2>2. CASE profile \in Fresh /\ profile \in isFollowing
    <3>1. unfollowing' = unfollowing \cup {FollowQuery(taps')} /\ objects' = objects
      BY <1>12, <2>2 DEF DidFollow
    <3>2. Cardinality(unfollowing') <= Cardinality(unfollowing) + 1
      BY <1>2, <3>1, FS_AddElement, SMTT(20)
    <3>3. Cardinality(unfollowing') + 0 <= Cardinality(FollowIds')
      BY <1>2, <1>4, <1>8, <2>1, <2>2, <3>1, <3>2
    <3> QED
      BY <1>4, <1>7, <2>1, <2>2, <3>3 DEF Balance
  <2>3. CASE profile \in Fresh /\ profile \notin isFollowing
    <3> DEFINE id == <<taps', "follow">>
    <3>1. unfollowing' = unfollowing
          /\ objects' = objects \cup {NewObject(id), NewObject(<<taps', "notice">>)}
      BY <1>12, <2>3 DEF DidFollow
    <3>2. NewObject(id).id = id /\ id[2] = "follow"
      BY DEF NewObject
    <3>3. id \notin FollowIds
      <4>1. FollowIds \subseteq (0..taps) \X {"follow"}
        BY FollowIdsAreTaps
      <4>2. taps + 1 \notin 0..taps
        BY <1>1
      <4> QED
        BY <2>1, <4>1, <4>2
    <3> HIDE DEF id
    <3>4. FollowIds \cup {id} \subseteq FollowIds'
      BY <1>7, <2>1, <3>1, <3>2 DEF FollowIds, Follows
    <3>5. Cardinality(FollowIds \cup {id}) = Cardinality(FollowIds) + 1
      BY <1>2, <3>3, FS_AddElement
    <3>6. Cardinality(FollowIds) + 1 <= Cardinality(FollowIds')
      BY <1>2, <3>4, <3>5, FS_Subset
    <3>7. Cardinality(unfollowing') + 1 <= Cardinality(FollowIds')
      BY <1>2, <1>4, <2>3, <3>1, <3>6
    <3> QED
      BY <1>4, <1>7, <2>1, <2>3, <3>7 DEF Balance
  <2>4. CASE Fresh' = {}
    BY <1>4, <1>7, <2>1, <2>4 DEF Balance
  <2>5. profile \in Fresh \/ Fresh' = {}
    BY <2>1
  <2> QED
    BY <2>2, <2>3, <2>4, <2>5
<1>13. ASSUME NEW q \in checking, AnswerCheck(q) PROVE Balance'
  <2>1. UNCHANGED <<created, objects, unfollowing, isFollowing, Fresh>>
    BY <1>13 DEF AnswerCheck, Fresh, userVars, uiVars, serverVars
  <2>2. PICK found \in First(q.by, q.auth) :
            checking' = (checking \ {q}) \cup {Answered(q, found)}
    BY <1>13 DEF AnswerCheck
  <2>3. found \subseteq Rows /\ Answered(q, found).found = found
    BY <1>1, <2>2 DEF First, Rows, Answered, Ours
  <2>4. Cardinality(unfollowing') <= Cardinality(unfollowing)
    BY <1>2, <2>1
  <2> QED
    BY <1>4, <1>5, <1>7, <1>8, <2>1, <2>2, <2>3, <2>4 DEF Balance
<1>14. ASSUME NEW q \in checking, q.phase = "answered", ShowCheck(q) PROVE Balance'
  <2>1. /\ UNCHANGED <<created, objects, unfollowing>> /\ unfollowing = {}
        /\ checking' = checking \ {q} /\ Fresh' = Fresh
        /\ isFollowing' \subseteq isFollowing \cup (IF q.found # {} THEN {q.n} ELSE {})
    BY <1>4, <1>14 DEF ShowCheck, Fresh, uiVars, serverVars
  <2>2. Cardinality(unfollowing) = 0
    BY <2>1, FS_EmptySet
  <2>3. ASSUME NEW n \in Fresh, n \in isFollowing' PROVE FollowIds # {}
    <3>1. CASE n \in isFollowing
      BY <1>2, <1>4, <2>2, <3>1, FS_EmptySet
    <3>2. CASE q.found # {}
      BY <1>4, <1>14, <3>2 DEF FollowIds
    <3> QED
      BY <2>1, <2>3, <3>1, <3>2
  <2>4. \A n \in Fresh : n \in isFollowing' => 1 <= Cardinality(FollowIds)
    BY <1>2, <2>3, FS_EmptySet
  <2>5. \A n \in Fresh : Cardinality(unfollowing') + (IF n \in isFollowing' THEN 1 ELSE 0)
                             <= Cardinality(FollowIds')
    BY <1>1, <1>2, <1>8, <2>1, <2>2, <2>4
  <2> QED
    BY <1>4, <1>7, <2>1, <2>5 DEF Balance
<1>15. ASSUME NEW q \in unfollowing, AnswerUnfollow(q) PROVE Balance'
  <2>1. UNCHANGED <<created, objects, checking, isFollowing, Fresh>>
    BY <1>15 DEF AnswerUnfollow, Fresh, userVars, uiVars, serverVars
  <2>2. PICK found : unfollowing' = (unfollowing \ {q}) \cup
                        (IF found = {} THEN {} ELSE {Answered(q, found)})
    BY <1>15 DEF AnswerUnfollow
  <2>3. /\ IsFiniteSet(unfollowing \ {q})
        /\ Cardinality(unfollowing \ {q}) = Cardinality(unfollowing) - 1
    BY <1>2, FS_RemoveElement
  <2>4. ASSUME NEW x, unfollowing' = (unfollowing \ {q}) \cup {x}
        PROVE  Cardinality(unfollowing') <= Cardinality(unfollowing)
    <3>1. Cardinality((unfollowing \ {q}) \cup {x}) =
             IF x \in unfollowing \ {q} THEN Cardinality(unfollowing \ {q})
             ELSE Cardinality(unfollowing \ {q}) + 1
      BY <2>3, FS_AddElement
    <3> QED
      BY <1>2, <2>3, <2>4, <3>1
  <2>5. Cardinality(unfollowing') <= Cardinality(unfollowing)
    <3>1. CASE found = {}
      <4>1. unfollowing' = unfollowing \ {q}
        BY <2>2, <3>1
      <4> QED
        BY <1>2, <2>3, <4>1
    <3>2. CASE found # {}
      BY <2>2, <2>4, <3>2
    <3> QED
      BY <3>1, <3>2
  <2> QED
    BY <1>4, <1>5, <1>7, <1>8, <2>1, <2>5 DEF Balance
<1>16. ASSUME NEW q \in unfollowing, Delete(q) PROVE Balance'
  <2>1. /\ UNCHANGED <<objects, checking, isFollowing, Fresh>> /\ checking = {}
        /\ created' = created \ q.found /\ unfollowing' = unfollowing \ {q}
    BY <1>4, <1>16 DEF Delete, Fresh, uiVars
  <2>2. Cardinality(unfollowing') = Cardinality(unfollowing) - 1
    BY <1>2, <2>1, FS_RemoveElement
  <2>3. \A r, s \in q.found : r = s
    BY DEF Taps
  <2>4. PICK id : FollowIds \ {id} \subseteq FollowIds'
    <3>1. CASE q.found = {}
      <4>1. created' = created
        BY <2>1, <3>1
      <4> QED
        BY <1>8, <2>1, <4>1
    <3>2. ASSUME NEW r \in q.found PROVE FollowIds \ {r.id} \subseteq FollowIds'
      <4>1. created' = created \ {r}
        BY <2>1, <2>3
      <4> QED
        BY <1>1, <2>1, <4>1 DEF FollowIds, Follows, Rows, FollowRows
    <3> QED
      BY <3>1, <3>2
  <2>5. Cardinality(FollowIds) - 1 <= Cardinality(FollowIds \ {id})
    <3>1. Cardinality(FollowIds \ {id}) =
             IF id \in FollowIds THEN Cardinality(FollowIds) - 1 ELSE Cardinality(FollowIds)
      BY <1>2, FS_RemoveElement
    <3> QED
      BY <1>2, <3>1
  <2>6. Cardinality(FollowIds \ {id}) <= Cardinality(FollowIds') /\ Cardinality(FollowIds \ {id}) \in Nat
    BY <1>2, <2>4, FS_Subset, FS_RemoveElement, FS_CardinalityType
  <2>7. \A n \in Fresh : Cardinality(unfollowing') + (IF n \in isFollowing' THEN 1 ELSE 0)
                             <= Cardinality(FollowIds')
    BY <1>1, <1>2, <1>4, <2>1, <2>2, <2>5, <2>6
  <2> QED
    BY <2>1, <2>7 DEF Balance
<1>17. ASSUME NEW o \in objects, Create(o, 1), Elsewhere PROVE Balance'
  <2> DEFINE row == [id |-> o.id, by |-> account[currentUser], copy |-> 1]
  <2>1. /\ UNCHANGED followVars /\ objects' = objects \ {o}
        /\ o.who = currentUser /\ o.auth \in sessions
    BY <1>1, <1>17 DEF Create, Elsewhere, Ours, Alone
  <2>2. created' = created \cup [id : {o.id}, by : {account[currentUser]}, copy : 1..1]
    BY <1>17, <2>1 DEF Create
  <2>3. row \in [id : {o.id}, by : {account[currentUser]}, copy : 1..1]
    OBVIOUS
  <2>4. row \in created' /\ row.id = o.id /\ row.by = account[currentUser] /\ created \subseteq created'
    BY <2>2, <2>3
  <2> HIDE DEF row
  <2>5. Rows \subseteq Rows' /\ (o \in Follows => row \in Rows')
    BY <1>1, <2>4 DEF Rows, FollowRows, Follows
  <2>6. FollowIds \subseteq FollowIds'
    BY <2>1, <2>4, <2>5 DEF FollowIds, Follows
  <2> QED
    BY <1>6, <2>1, <2>5, <2>6
<1>18. ASSUME NEW o \in objects, CollectUser(o), Elsewhere PROVE Balance'
  <2>1. created' = created /\ UNCHANGED followVars
    BY <1>18 DEF CollectUser, Elsewhere, serverVars
  <2>2. PICK phase : objects' = (objects \ {o}) \cup {[o EXCEPT !.phase = phase]}
    BY <1>18 DEF CollectUser
  <2> DEFINE W == {o}
  <2>3. W \in SUBSET objects
    OBVIOUS
  <2>4. objects' = (objects \ W) \cup {[p EXCEPT !.phase = phase] : p \in W}
    BY <2>2
  <2> HIDE DEF W
  <2> QED
    BY <1>10, <2>1, <2>3, <2>4
<1>19. ASSUME NEW i \in Instances, HandleResult(i), Elsewhere PROVE Balance'
  <2>1. created' = created /\ UNCHANGED followVars /\ sending[i].phase = "saved"
    BY <1>1, <1>19 DEF HandleResult, Elsewhere, serverVars, NoneFailed
  <2>2. objects' = objects \/ EndTask(i, sending[i].phase = "saved")
    BY <1>19 DEF HandleResult
  <2>3. CASE EndTask(i, sending[i].phase = "saved")
    <3>1. PICK W \in SUBSET objects :
              objects' = (objects \ W) \cup {[o EXCEPT !.phase = "create"] : o \in W}
      BY <2>1, <2>3 DEF EndTask
    <3> QED
      BY <1>10, <2>1, <3>1
  <2> QED
    BY <1>9, <2>1, <2>2, <2>3
<1>20. ASSUME SavedCurrent, ProfileGone PROVE Balance'
  <2>1. created' = created /\ UNCHANGED followVars
    BY <1>1, <1>20 DEF SavedCurrent, ProfileGone, serverVars, followVars
  <2>2. \/ objects' = objects
        \/ \E i \in Instances : sending[i].phase = "persist" /\ EndTask(i, sending[i].phase = "persist")
    <3>1. CASE Head(dataQueue).kind = "enter"
      BY <1>20, <3>1 DEF SavedCurrent
    <3>2. CASE Head(dataQueue).kind = "persist"
      <4>1. dataQueue # <<>> /\ EndTask(Head(dataQueue).who, sending[Head(dataQueue).who].phase = "persist")
        BY <1>20, <3>2 DEF SavedCurrent
      <4>2. TaskOK(Head(dataQueue), made, sending) /\ 1..made \subseteq Instances
        BY <4>1, FirstTask DEF IInv, UserInv
      <4>3. PICK i \in Instances : /\ i = Head(dataQueue).who
                                   /\ sending[i].phase \in {"persist", "persistFailed"}
        BY <3>2, <4>2 DEF TaskOK
      <4> QED
        BY <1>1, <4>1, <4>3 DEF NoneFailed
    <3> QED
      BY <1>20, <3>1, <3>2 DEF SavedCurrent
  <2>3. ASSUME NEW i \in Instances, sending[i].phase = "persist",
               EndTask(i, sending[i].phase = "persist")
        PROVE  Balance'
    <3>1. PICK W \in SUBSET objects :
              objects' = (objects \ W) \cup {[o EXCEPT !.phase = "create"] : o \in W}
      BY <2>3 DEF EndTask
    <3> QED
      BY <1>10, <2>1, <3>1
  <2> QED
    BY <1>9, <2>1, <2>2, <2>3
<1>21. CASE Tap
  <2>1. ASSUME NEW u, NEW kind, Enter(u, kind), Elsewhere PROVE Balance'
    BY <1>9, <2>1 DEF Enter, Elsewhere, serverVars
  <2>2. ASSUME DidLogout, Elsewhere PROVE Balance'
    BY <1>9, <2>2 DEF DidLogout, Elsewhere, uiVars, serverVars
  <2>3. ASSUME NEW name, UpdateUser(name), Elsewhere PROVE Balance'
    BY <1>9, <2>3 DEF UpdateUser, Elsewhere, uiVars, serverVars
  <2>4. ASSUME NEW n, ShowAgain(n) PROVE Balance'
    <3>1. UNCHANGED <<created, objects, unfollowing, checking, isFollowing, Fresh>>
      BY <2>4 DEF ShowAgain, Fresh, userVars, uiVars, serverVars
    <3> QED
      BY <1>4, <1>7, <1>8, <3>1 DEF Balance
  <2> QED
    BY <1>11, <1>12, <1>21, <2>1, <2>2, <2>3, <2>4 DEF Tap
<1>22. CASE Service
  <2>1. ASSUME NEW r, Admit(r) \/ Refuse(r), Elsewhere PROVE Balance'
    BY <1>9, <2>1 DEF Admit, Refuse, Elsewhere, serverVars
  <2>2. ASSUME NEW i, SaveTurn(i) \/ BatchTurn(i) \/ Execute(i), Elsewhere PROVE Balance'
    BY <1>9, <2>2 DEF SaveTurn, BatchTurn, Execute, Elsewhere, uiVars, serverVars
  <2>3. ASSUME Lookup \/ BecomeCurrent \/ LogOut, Elsewhere PROVE Balance'
    BY <1>9, <2>3 DEF Lookup, BecomeCurrent, LogOut, Elsewhere, uiVars, serverVars
  <2>4. ASSUME LoggedOutDone, ProfileGone PROVE Balance'
    <3>1. created' = created /\ objects' = objects /\ UNCHANGED followVars
      BY <1>1, <2>4 DEF LoggedOutDone, ProfileGone, serverVars, followVars
    <3> QED
      BY <1>9, <3>1
  <2> QED
    BY <1>13, <1>14, <1>15, <1>16, <1>17, <1>18, <1>19, <1>20, <1>22, <2>1, <2>2, <2>3, <2>4
    DEF Service
<1>23. CASE Fault
  <2>1. ASSUME NEW q, RequestLost(q) \/ SignUpReplyLost(q) \/ UnfollowLost(q) PROVE FALSE
    BY <1>1, <2>1 DEF RequestLost, SignUpReplyLost, UnfollowLost
  <2>2. ASSUME NEW o, NEW copies \in {0, 2}, Create(o, copies) PROVE FALSE
    BY <1>1, <2>2 DEF Create
  <2>3. ASSUME NEW q, q.phase = "asked", ShowCheck(q) PROVE FALSE
    BY <1>1, <2>3 DEF ShowCheck
  <2> QED
    BY <1>1, <1>23, <2>1, <2>2, <2>3 DEF Fault
<1> QED
  BY <1>21, <1>22, <1>23 DEF Next

-----------------------------------------------------------------------------
\* What is shown of anyone, patient or not.
HastyInv == IInv /\ NamesOK /\ Taps /\ SteadyOK

LEMMA HastyInit == Init => HastyInv
<1> SUFFICES ASSUME Init PROVE Taps /\ Landing /\ Alone /\ Balance
  BY AccountInit, FollowInit DEF HastyInv, SteadyOK
<1>1. /\ created = {} /\ objects = {} /\ checking = {} /\ unfollowing = {} /\ live = {}
      /\ isFollowing = {} /\ dataQueue = <<>> /\ logouts = 0 /\ currentUser = made
      /\ Len(dataQueue) = 0
      /\ \A i \in Instances : queue[i] = <<>> /\ sending[i] = Idle
  BY DEF Init, InitUser
<1>2. Taps
  BY <1>1, FS_EmptySet DEF Taps
<1>3. made = 0 => screen = "login"
  BY DEF Init, InitUser
<1>4. Landing
  BY <1>1, <1>3 DEF Landing, HasTask
<1>5. NoRequests /\ NoneFailed
  BY <1>1 DEF NoRequests, InstanceQuiet, NoneFailed, Idle
<1>6. made # 0 => /\ screen = "tabs" /\ token[1] \in sessions
                  /\ currentUser \in Instances
  <2>1. 1 \in Instances
    BY InstancesNat DEF Instances
  <2> QED
    BY <1>1, <2>1 DEF Init, InitUser
<1>7. Alone
  BY <1>1, <1>3, <1>5, <1>6, NothingIsOurs DEF Alone, HasTask
<1>8. FollowIds = {}
  BY <1>1 DEF FollowIds, Follows, Rows, FollowRows
<1>9. Balance
  BY <1>1, <1>8, FS_EmptySet DEF Balance, Fresh
<1> QED
  BY <1>2, <1>4, <1>7, <1>9

LEMMA SteadyOKNext ==
    ASSUME IInv, IInv', NamesOK, Taps, Taps', SteadyOK, Next
    PROVE  SteadyOK'
<1> SUFFICES ASSUME Steady'
             PROVE  /\ Landing'
                    /\ logouts' = 0 => Alone' /\ (currentUser' # 0 /\ ~overtaken' => Balance')
  BY DEF SteadyOK
<1>1. Steady
  BY SteadyBefore
<1>2. Landing /\ NotTaken /\ (logouts = 0 => Alone)
  BY <1>1 DEF SteadyOK, NamesOK, Steady, NothingRefused
<1>3. Landing'
  BY <1>2, LandingNext
<1> SUFFICES ASSUME logouts' = 0
             PROVE  Alone' /\ (currentUser' # 0 /\ ~overtaken' => Balance')
  BY <1>3
<1>4. logouts = 0
  <2>1. logouts \in Nat /\ logouts' \in Nat /\ ~Relaunch
    BY SteadyBefore DEF IInv, UserInv, UserTypeOK, HistoryOK
  <2>2. logouts' = logouts \/ logouts' = logouts + 1
    BY <2>1 DEF Next, Tap, Service, Fault, Enter, DidLogout, UpdateUser, OpenProfile,
       ShowAgain, DidFollow,
       Admit, Refuse, SaveTurn, Lookup, BatchTurn, Execute, HandleResult, BecomeCurrent,
       SavedCurrent, LogOut, LoggedOutDone, CollectUser, Create, AnswerCheck, ShowCheck,
       AnswerUnfollow, Delete, SignUpReplyLost, RequestLost, UnfollowLost,
       userVars, boundVars
  <2> QED
    BY <2>1, <2>2
<1>5. /\ Alone'
      /\ currentUser = 0 /\ currentUser' # 0 =>
            NoRequests' /\ isFollowing' = {} /\ UNCHANGED overtaken
  BY <1>2, <1>4, AloneNext
<1>6. ASSUME currentUser' # 0, ~overtaken' PROVE Balance'
  <2>1. CASE currentUser # 0
    BY <1>1, <1>2, <1>4, <1>6, <2>1, BalanceNext DEF SteadyOK
  <2>2. CASE currentUser = 0
    <3>1. checking' = {} /\ unfollowing' = {} /\ isFollowing' = {}
      BY <1>5, <1>6, <2>2 DEF NoRequests
    <3>2. taps' \in Nat
      BY DEF IInv, UserInv, UserTypeOK, HistoryOK
    <3>3. Cardinality(FollowIds') \in Nat /\ Cardinality(unfollowing') = 0
      BY <3>1, <3>2, FollowIdsAreTapsNext, TapIdsFinite, FS_EmptySet
    <3> QED
      BY <3>1, <3>3 DEF Balance
  <2> QED
    BY <2>1, <2>2
<1> QED
  BY <1>5, <1>6

LEMMA HastyInvNext == HastyInv /\ [Next]_vars => HastyInv'
<1> SUFFICES ASSUME HastyInv, [Next]_vars PROVE HastyInv'
  OBVIOUS
<1>1. IInv'
  BY IInvNext DEF HastyInv
<1>2. CASE Next
  <2>1. NamesOK' /\ Taps'
    BY <1>2, NamesNext, TapsNext DEF HastyInv
  <2> QED
    BY <1>1, <1>2, <2>1, SteadyOKNext DEF HastyInv
<1>3. CASE UNCHANGED vars
  <2>1. UNCHANGED <<userVars, followVars>>
    BY <1>3 DEF vars
  <2>2. (NamesOK => NamesOK') /\ (Taps => Taps') /\ (Landing => Landing') /\ (Steady' => Steady)
    BY <2>1 DEF userVars, instanceVars, controllerVars, uiVars, serverVars, boundVars,
       followVars, NamesOK, NotTaken, Taps, Landing, Steady, NothingRefused
  <2>3. Alone => Alone'
    BY <2>1 DEF userVars, instanceVars, controllerVars, uiVars, serverVars, followVars, Alone,
       NoneFailed, NoRequests, InstanceQuiet, Ours
  <2>4. FollowIds' = FollowIds /\ Rows' = Rows
    BY <2>1 DEF userVars, instanceVars, controllerVars, uiVars, serverVars, FollowIds, Follows,
       Rows, FollowRows
  <2>5. Balance => Balance'
    BY <2>1, <2>4 DEF followVars, Balance, Fresh
  <2>6. logouts' = logouts /\ currentUser' = currentUser /\ overtaken' = overtaken
    BY <2>1 DEF userVars, controllerVars, boundVars, followVars
  <2>7. SteadyOK => SteadyOK'
    BY <2>2, <2>3, <2>5, <2>6 DEF SteadyOK
  <2> QED
    BY <1>1, <2>2, <2>7 DEF HastyInv
<1> QED
  BY <1>2, <1>3

\* What keeps the follows of someone hasty in balance holds in every state.
THEOREM HastyHolds == Spec => []HastyInv
BY HastyInit, HastyInvNext, PTL DEF Spec

\* However fast the follow buttons are tapped, a button at rest that says Unfollow
\* has a row behind it: didFollow: sends as many follows as unfollows, and one
\* more while it says so, and its getFirstObject deletes one row at most.  A
\* profile left behind for a tap on another is excepted, not what comes after.
THEOREM FollowsAreNotLost == Spec => []NoFollowLost
<1>1. HastyInv => NoFollowLost
  <2> SUFFICES ASSUME HastyInv, ~overtaken, NothingRefused, kills = 0, made <= 1, Quiet,
                      NEW n \in isFollowing \ behind
               PROVE  Rows # {}
    BY DEF NoFollowLost, Rows
  <2>1. Landing /\ (logouts = 0 => Alone /\ (currentUser # 0 => Balance))
    BY DEF HastyInv, SteadyOK, Steady
  <2>2. n \in Fresh /\ screen # "login" /\ ~HasTask(dataQueue, "logout")
    BY DEF HastyInv, IInv, FollowOK, Fresh, Taps, Quiet, QuietUser, HasTask
  <2>3. Balance
    BY <2>1, <2>2 DEF Landing, Alone
  <2>4. Cardinality({}) = 0 /\ unfollowing = {} /\ Follows = {}
    BY FS_EmptySet DEF Quiet, QuietUser, Follows
  <2>5. FollowIds # {}
    BY <2>2, <2>3, <2>4 DEF Balance
  <2> QED
    BY <2>4, <2>5 DEF FollowIds
<1> QED
  BY <1>1, HastyHolds, PTL
=============================================================================
