----------------------------- MODULE CurrentUser -----------------------------
(***************************************************************************)
(* The user of the application: logging in and out, editing the profile,   *)
(* and what other objects that point to the user wait for.                 *)
(*                                                                         *)
(* PFCurrentUserController keeps one current PFUser instance, a file and a *)
(* keychain item, and changes them only in tasks of _dataTaskQueue: a      *)
(* login, or a finished save of an instance that believes to be current,   *)
(* enqueues a save of the current user; a logout enqueues its own task.    *)
(* The save of an instance looks the current user up through the same      *)
(* queue.  Main-thread code that asks for User.currentUser waits for the   *)
(* queue to get there.                                                     *)
(*                                                                         *)
(* A user's row refuses a taken name; the whole save fails then, and its   *)
(* operations stay with the instance (PFObjectSave).  Every object that    *)
(* points to the user saves the instance first, as a batch, if it is dirty.*)
(***************************************************************************)
EXTENDS Naturals, Sequences, FiniteSets

CONSTANTS
    Users,        \* the accounts
    MaxInstances, \* bound: PFUser instances between two launches
    MaxTokens,    \* bound: sessions the server issues
    Scenarios     \* what is explored: whether a user is logged in at the
                  \* start, whether the person is patient (acts only when
                  \* nothing is under way), which names he gives to the
                  \* profile, and bounds on entries (log in, sign up), logouts,
                  \* edits, follow taps, profiles opened, faults and kills

ASSUME UsersType == "nobody" \notin Users
ASSUME MaxInstancesType == MaxInstances \in Nat \ {0}
ASSUME MaxTokensType == MaxTokens \in Nat \ {0}
ASSUME ScenariosType ==
    Scenarios \subseteq
      [start : Users \cup {"nobody"}, patient : BOOLEAN,
       names : SUBSET {"same", "free", "taken"}, entries : Nat, logouts : Nat,
       edits : Nat, follows : Nat, profiles : Nat, faults : Nat, kills : Nat]

Instances == 1..MaxInstances
Tokens == 1..MaxTokens

VARIABLES
    scenario,    \* the one of Scenarios this behaviour belongs to
    \* the device's memory: PFUser instances
    made,        \* instances made since the launch
    account,     \* per instance: the account it stands for
    current,     \* per instance: its flag _current
    token,       \* per instance: its sessionToken, 0 for none
    saved,       \* per instance: the last edit in its _state
    pending,     \* per instance: edits not confirmed, and the name they set
    queue,       \* per instance: its task queue
    sending,     \* per instance: the save under way
    \* the current user controller
    currentUser, \* _currentUser, 0 for nil
    dataQueue,   \* _dataTaskQueue
    halfDone,    \* the first task of dataQueue has done its first half
    \* the device's disk
    file,        \* the current user's file
    keychain,    \* the session token kept beside it, 0 for none
    \* the screens
    screen,      \* "login" or "tabs"
    entering,    \* requests of the login screen not yet answered
    objects,     \* new rows being saved that point to the current user
    \* the server
    rows,        \* per account: the last edit its row has
    registered,  \* the accounts that exist
    sessions,    \* the valid session tokens
    created,     \* the rows made from objects
    \* history and bounds
    edited,      \* per account: the last edit and the last name asked for
    cutShort,    \* the application was killed in the middle of a task
    entries, logouts, edits, taps, faults, kills, issued

instanceVars == <<made, account, current, token, saved, pending, queue, sending>>
controllerVars == <<currentUser, dataQueue, halfDone>>
diskVars == <<file, keychain>>
uiVars == <<screen, entering, objects>>
serverVars == <<rows, registered, sessions, created>>
boundVars == <<scenario, edited, cutShort, entries, logouts, edits, taps, faults,
               kills, issued>>
userVars == <<instanceVars, controllerVars, diskVars, uiVars, serverVars,
              boundVars>>

-----------------------------------------------------------------------------
NoFile == [account |-> "nobody", saved |-> 0]
NoEdit == [name |-> "same", edit |-> 0]
Idle == [phase |-> "idle", name |-> "same", edit |-> 0, auth |-> 0]
Nothing == <<0, "nothing">>

\* Deviation: of two names waiting to be saved, the older one wins.
OlderNameWins(old, new) ==
    [name |-> IF old.name = "same" THEN new.name ELSE old.name,
     edit |-> IF new.edit = 0 THEN old.edit ELSE new.edit]

\* The pending edits after `old`, which failed, has been put under `new`.
RolledForward(old, new) ==
    [name |-> IF new.name = "same" THEN old.name ELSE new.name,
     edit |-> IF new.edit = 0 THEN old.edit ELSE new.edit]

Task(kind, i) == [kind |-> kind, who |-> i]
OwnSave == [for |-> Nothing, auth |-> 0]
BatchFor(o) == [for |-> o.id, auth |-> o.auth]

InstanceQuiet(i) == queue[i] = <<>> /\ sending[i] = Idle
QuietUser == /\ dataQueue = <<>> /\ entering = {} /\ objects = {}
             /\ \A i \in Instances : InstanceQuiet(i)

\* What a person can do with the screen: taps that read User.currentUser take
\* effect when the data queue has got there.
MayTap(s) == screen = s /\ (scenario.patient => QuietUser)
MayUseUser == MayTap("tabs") /\ dataQueue = <<>> /\ currentUser # 0

\* The instances after a launch: the user of the file, or none.
Launched(f, k) ==
    /\ made' = IF f = NoFile THEN 0 ELSE 1
    /\ account' = [i \in Instances |-> IF i = 1 THEN f.account ELSE "nobody"]
    /\ current' = [i \in Instances |-> i = 1 /\ f # NoFile]
    /\ token' = [i \in Instances |-> IF i = 1 /\ f # NoFile THEN k ELSE 0]
    /\ saved' = [i \in Instances |-> IF i = 1 THEN f.saved ELSE 0]
    /\ pending' = [i \in Instances |-> NoEdit]
    /\ queue' = [i \in Instances |-> <<>>]
    /\ sending' = [i \in Instances |-> Idle]
    /\ currentUser' = made'
    /\ dataQueue' = <<>> /\ halfDone' = FALSE
    /\ screen' = IF f = NoFile THEN "login" ELSE "tabs"
    /\ entering' = {} /\ objects' = {}

InitUser ==
    /\ scenario \in Scenarios
    /\ LET in == scenario.start # "nobody"
       IN  /\ made = IF in THEN 1 ELSE 0
           /\ account = [i \in Instances |-> IF i = 1 THEN scenario.start ELSE "nobody"]
           /\ current = [i \in Instances |-> i = 1 /\ in]
           /\ token = [i \in Instances |-> IF i = 1 /\ in THEN 1 ELSE 0]
           /\ issued = IF in THEN 1 ELSE 0
           /\ sessions = IF in THEN {1} ELSE {}
           /\ screen = IF in THEN "tabs" ELSE "login"
           /\ registered = {scenario.start} \ {"nobody"}
    /\ saved = [i \in Instances |-> 0]
    /\ pending = [i \in Instances |-> NoEdit]
    /\ queue = [i \in Instances |-> <<>>]
    /\ sending = [i \in Instances |-> Idle]
    /\ currentUser = made
    /\ dataQueue = <<>> /\ halfDone = FALSE
    /\ file = [account |-> scenario.start, saved |-> 0]
    /\ keychain = token[1]
    /\ entering = {} /\ objects = {}
    /\ rows = [u \in Users |-> 0]
    /\ created = {}
    /\ edited = [u \in Users |-> NoEdit]
    /\ cutShort = FALSE
    /\ entries = 0 /\ logouts = 0 /\ edits = 0 /\ taps = 0
    /\ faults = 0 /\ kills = 0

-----------------------------------------------------------------------------
(***************************************************************************)
(* The login screen.                                                       *)
(***************************************************************************)
\* didLogin:, didSignUp: and googleLogin:, with both fields filled in.
Enter(u, kind) ==
    /\ MayTap("login") /\ entries < scenario.entries
    /\ entries' = entries + 1
    /\ entering' = entering \cup {[user |-> u, kind |-> kind, n |-> entries']}
    /\ UNCHANGED <<instanceVars, controllerVars, diskVars, screen, objects,
                   serverVars, scenario, edited, cutShort, logouts, edits, taps,
                   faults, kills, issued>>

\* The server knows the account and issues a session, or makes the account.
Admitted(r) == (r.kind = "logIn") = (r.user \in registered)

\* A new instance, which the controller is asked to make the current user.
Admit(r) ==
    /\ r \in entering /\ Admitted(r)
    /\ made < MaxInstances /\ issued < MaxTokens
    /\ made' = made + 1
    /\ issued' = issued + 1
    /\ account' = [account EXCEPT ![made'] = r.user]
    /\ token' = [token EXCEPT ![made'] = issued']
    /\ saved' = [saved EXCEPT ![made'] = rows[r.user]]
    /\ registered' = registered \cup {r.user}
    /\ sessions' = sessions \cup {issued'}
    /\ entering' = entering \ {r}
    /\ dataQueue' = Append(dataQueue, Task("enter", made'))
    /\ UNCHANGED <<current, pending, queue, sending, currentUser, halfDone, diskVars,
                   screen, objects, rows, created, scenario, edited, cutShort,
                   entries, logouts, edits, taps, faults, kills>>

\* An alert; the Google sign-in goes on with a login instead.
Refuse(r) ==
    /\ r \in entering /\ ~Admitted(r)
    /\ entering' = (entering \ {r}) \cup
          (IF r.kind = "google" THEN {[r EXCEPT !.kind = "logIn"]} ELSE {})
    /\ UNCHANGED <<instanceVars, controllerVars, diskVars, screen, objects,
                   serverVars, boundVars>>

\* A sign-up is executed and its reply lost: the retry will be refused.
SignUpReplyLost(r) ==
    /\ r \in entering /\ r.kind # "logIn" /\ Admitted(r)
    /\ faults < scenario.faults
    /\ faults' = faults + 1
    /\ registered' = registered \cup {r.user}
    /\ UNCHANGED <<instanceVars, controllerVars, diskVars, uiVars, rows, sessions,
                   created, scenario, edited, cutShort, entries, logouts, edits,
                   taps, kills, issued>>

-----------------------------------------------------------------------------
(***************************************************************************)
(* The tabs: logging out, editing the profile.                             *)
(***************************************************************************)
\* didLogout: only enqueues; the screen changes when the task is over.
DidLogout ==
    /\ MayTap("tabs") /\ logouts < scenario.logouts
    /\ logouts' = logouts + 1
    /\ dataQueue' = Append(dataQueue, Task("logout", 0))
    /\ UNCHANGED <<instanceVars, currentUser, halfDone, diskVars, uiVars,
                   serverVars, scenario, edited, cutShort, entries, edits, taps,
                   faults, kills, issued>>

\* updateUser: assigns the fields, perhaps the name, and saves; so does
\* switchColorMode:, which leaves the name alone.
UpdateUser(name) ==
    /\ MayUseUser /\ edits < scenario.edits /\ name \in scenario.names
    /\ edits' = edits + 1
    /\ edited' = [edited EXCEPT ![account[currentUser]] =
          [name |-> IF name = "same" THEN @.name ELSE name, edit |-> edits']]
    /\ pending' = [pending EXCEPT ![currentUser] =
          RolledForward(@, [name |-> name, edit |-> edits'])]
    /\ queue' = [queue EXCEPT ![currentUser] = Append(@, OwnSave)]
    /\ UNCHANGED <<made, account, current, token, saved, sending, controllerVars,
                   diskVars, uiVars, serverVars, scenario, cutShort, entries,
                   logouts, taps, faults, kills, issued>>

-----------------------------------------------------------------------------
(***************************************************************************)
(* Saves of an instance.                                                   *)
(***************************************************************************)
\* Whether _checkSaveParametersWithCurrentUser: lets instance i be saved while
\* c is the current user.
MayBeSaved(i, c) ==
    \/ c # 0 /\ account[i] = account[c]
    \/ (token[i] # 0 \/ c = 0) /\ current[i]

\* The end of the first task of a task queue, and what it means to the object
\* that waits for it: it is created next, or its save fails too.
EndTask(i, ok) ==
    LET waits == {o \in objects : o.phase = "batched" /\ o.id = Head(queue[i]).for}
    IN  /\ queue' = [queue EXCEPT ![i] = Tail(@)]
        /\ objects' = (objects \ waits) \cup
              (IF ok THEN {[o EXCEPT !.phase = "create"] : o \in waits} ELSE {})

\* The turn of a save of the instance itself: look up the current user.
SaveTurn(i) ==
    /\ queue[i] # <<>> /\ Head(queue[i]) = OwnSave /\ sending[i] = Idle
    /\ sending' = [sending EXCEPT ![i].phase = "lookup"]
    /\ dataQueue' = Append(dataQueue, Task("lookup", i))
    /\ UNCHANGED <<made, account, current, token, saved, pending, queue, currentUser,
                   halfDone, diskVars, uiVars, serverVars, boundVars>>

TokenOf(c) == IF c = 0 THEN 0 ELSE token[c]

\* Snapshot the pending edits and send them, if the instance may be saved, with
\* the token that was looked up: a flagged instance takes its own.
Started(i, auth, allowed) ==
    /\ sending' = [sending EXCEPT ![i] =
          [phase |-> IF allowed THEN "request" ELSE "failed",
           name |-> pending[i].name, edit |-> pending[i].edit,
           auth |-> IF current[i] THEN token[i] ELSE auth]]
    /\ pending' = [pending EXCEPT ![i] = NoEdit]

\* The lookup has run: nothing to save, or start.
Lookup ==
    /\ dataQueue # <<>> /\ Head(dataQueue).kind = "lookup"
    /\ dataQueue' = Tail(dataQueue)
    /\ LET i == Head(dataQueue).who
       IN  IF pending[i] = NoEdit
           THEN /\ sending' = [sending EXCEPT ![i] = Idle]
                /\ queue' = [queue EXCEPT ![i] = Tail(@)]
                /\ UNCHANGED pending
           ELSE /\ Started(i, TokenOf(currentUser), MayBeSaved(i, currentUser))
                /\ UNCHANGED queue
    /\ UNCHANGED <<made, account, current, token, saved, currentUser, halfDone,
                   diskVars, uiVars, serverVars, boundVars>>

\* The turn of a batch: sent with what its object has looked up, dirty or not.
BatchTurn(i) ==
    /\ queue[i] # <<>> /\ Head(queue[i]) # OwnSave /\ sending[i] = Idle
    /\ Started(i, Head(queue[i]).auth, TRUE)
    /\ UNCHANGED <<made, account, current, token, saved, queue, controllerVars,
                   diskVars, uiVars, serverVars, boundVars>>

\* The server executes the save: it refuses a session it does not know and a
\* name that is taken.
Execute(i) ==
    /\ sending[i].phase = "request"
    /\ LET accepted == sending[i].auth \in sessions /\ sending[i].name # "taken"
       IN  /\ sending' = [sending EXCEPT ![i].phase =
                 IF accepted THEN "saved" ELSE "failed"]
           /\ rows' = [rows EXCEPT ![account[i]] =
                 IF accepted /\ sending[i].edit # 0 THEN sending[i].edit ELSE @]
    /\ UNCHANGED <<made, account, current, token, saved, pending, queue,
                   controllerVars, diskVars, uiVars, registered, sessions, created,
                   boundVars>>

\* No attempt is left: the request, or its reply, is lost.
RequestLost(i) ==
    /\ sending[i].phase \in {"request", "saved"}
    /\ faults < scenario.faults
    /\ faults' = faults + 1
    /\ sending' = [sending EXCEPT ![i].phase = "failed"]
    /\ UNCHANGED <<made, account, current, token, saved, pending, queue,
                   controllerVars, diskVars, uiVars, serverVars, scenario, edited,
                   cutShort, entries, logouts, edits, taps, kills, issued>>

\* Deviation: the result is not written to disk.
NotPersisted(i) == FALSE

\* Whether the result of a save is written to disk.
Persisted(i) == current[i]

\* handleSaveResultAsync: of PFUser.
HandleResult(i) ==
    /\ sending[i].phase \in {"saved", "failed"}
    /\ LET ok == sending[i].phase = "saved"
           edit == [name |-> sending[i].name, edit |-> sending[i].edit]
       IN  /\ saved' = [saved EXCEPT ![i] = IF ok /\ edit.edit # 0 THEN edit.edit ELSE @]
           /\ pending' = [pending EXCEPT ![i] =
                 IF ok THEN @ ELSE RolledForward(edit, @)]
           /\ IF Persisted(i)
              THEN /\ dataQueue' = Append(dataQueue, Task("persist", i))
                   /\ sending' = [sending EXCEPT ![i].phase =
                         IF ok THEN "persist" ELSE "persistFailed"]
                   /\ UNCHANGED <<queue, objects>>
              ELSE /\ EndTask(i, ok)
                   /\ sending' = [sending EXCEPT ![i] = Idle]
                   /\ UNCHANGED dataQueue
    /\ UNCHANGED <<made, account, current, token, currentUser, halfDone, diskVars,
                   screen, entering, serverVars, boundVars>>

-----------------------------------------------------------------------------
(***************************************************************************)
(* Tasks of _dataTaskQueue.  Each is cut in two: between the halves other  *)
(* threads see the flags of the first and the current user of before, and  *)
(* the application may be killed.  The request that revokes the session    *)
(* has been executed by the end of the first half.                         *)
(***************************************************************************)
\* Deviation: the user who was current stays so.
NobodyLoggedOut(i) == {}

\* The instance logged out when instance i becomes current: the current one, if
\* it is of another account.
LoggedOutFor(i) ==
    {c \in {currentUser} \ {0, i} : account[c] # account[i]}

\* Instances lose the flag and their token; the server revokes it.
LoggedOut(out, now) ==
    /\ current' = [j \in Instances |-> (current[j] /\ j \notin out) \/ j \in now]
    /\ token' = [j \in Instances |-> IF j \in out THEN 0 ELSE token[j]]
    /\ sessions' = sessions \ {token[j] : j \in out}
    /\ halfDone' = TRUE

\* _saveCurrentUserAsync:, up to the keychain.
BecomeCurrent ==
    /\ dataQueue # <<>> /\ ~halfDone
    /\ Head(dataQueue).kind \in {"enter", "persist"}
    /\ LET i == Head(dataQueue).who
       IN  /\ LoggedOut(LoggedOutFor(i), {i})
           /\ keychain' = token[i]
    /\ UNCHANGED <<made, account, saved, pending, queue, sending, currentUser,
                   dataQueue, file, uiVars, rows, registered, created, boundVars>>

\* The file and _currentUser, and what waited for it: the segue from the login
\* screen, or the end of the save.
SavedCurrent ==
    /\ dataQueue # <<>> /\ halfDone
    /\ Head(dataQueue).kind \in {"enter", "persist"}
    /\ dataQueue' = Tail(dataQueue)
    /\ halfDone' = FALSE
    /\ LET i == Head(dataQueue).who
       IN  /\ currentUser' = i
           /\ file' = [account |-> account[i], saved |-> saved[i]]
           /\ IF Head(dataQueue).kind = "enter"
              THEN /\ screen' = "tabs"
                   /\ UNCHANGED <<queue, sending, objects>>
              ELSE /\ EndTask(i, sending[i].phase = "persist")
                   /\ sending' = [sending EXCEPT ![i] = Idle]
                   /\ UNCHANGED screen
    /\ UNCHANGED <<made, account, current, token, saved, pending, keychain, entering,
                   serverVars, boundVars>>

\* Deviation: the task waits for the saves of the instance.
WhenSaved(c) == c # 0 => queue[c] = <<>>

\* When a logout may start: at once.
MayLogOut(c) == TRUE

\* logOutCurrentUserAsync, up to the keychain.
LogOut ==
    /\ dataQueue # <<>> /\ ~halfDone
    /\ Head(dataQueue).kind = "logout"
    /\ MayLogOut(currentUser)
    /\ LoggedOut({currentUser} \ {0}, {})
    /\ keychain' = 0
    /\ UNCHANGED <<made, account, saved, pending, queue, sending, currentUser,
                   dataQueue, file, uiVars, rows, registered, created, boundVars>>

\* Deviation: the file stays.
FileKept == file

\* What a logout leaves on disk.
FileAfterLogOut == NoFile

\* The file and _currentUser, then didLogout's block shows the login screen.
LoggedOutDone ==
    /\ dataQueue # <<>> /\ halfDone
    /\ Head(dataQueue).kind = "logout"
    /\ dataQueue' = Tail(dataQueue)
    /\ halfDone' = FALSE
    /\ currentUser' = 0
    /\ file' = FileAfterLogOut
    /\ screen' = "login"
    /\ UNCHANGED <<instanceVars, keychain, entering, objects, serverVars, boundVars>>

\* The application is killed and launched again.  Requests that have not been
\* executed are lost.
Kill ==
    /\ kills < scenario.kills
    /\ kills' = kills + 1
    /\ cutShort' = (cutShort \/ halfDone)
    /\ Launched(file, keychain)
    /\ UNCHANGED <<diskVars, serverVars, scenario, edited, entries, logouts, edits,
                   taps, faults, issued>>

-----------------------------------------------------------------------------
(***************************************************************************)
(* New objects that point to the current user: a Follower row and its      *)
(* notification.  Such a save looks the user up when it is asked for.      *)
(***************************************************************************)
NewObject(id) == [id |-> id, who |-> currentUser, auth |-> TokenOf(currentUser),
                  phase |-> "collect"]

\* The save looks for dirty children: a dirty user is saved first.
CollectUser(o) ==
    /\ o \in objects /\ o.phase = "collect"
    /\ LET dirty == pending[o.who] # NoEdit
       IN  /\ objects' = (objects \ {o}) \cup
                 {[o EXCEPT !.phase = IF dirty THEN "batched" ELSE "create"]}
           /\ queue' = [queue EXCEPT ![o.who] = IF dirty THEN Append(@, BatchFor(o)) ELSE @]
    /\ UNCHANGED <<made, account, current, token, saved, pending, sending,
                   controllerVars, diskVars, screen, entering, serverVars, boundVars>>

\* The object is created `copies` times: once, or twice if a reply is lost and
\* the request sent again, or not at all with a session no longer valid.
Create(o, copies) ==
    /\ o \in objects /\ o.phase = "create"
    /\ copies # 1 => faults < scenario.faults
    /\ faults' = IF copies # 1 THEN faults + 1 ELSE faults
    /\ objects' = objects \ {o}
    /\ created' = created \cup
          (IF o.auth \in sessions \cup {0}
           THEN [id : {o.id}, by : {account[o.who]}, copy : 1..copies] ELSE {})
    /\ UNCHANGED <<instanceVars, controllerVars, diskVars, screen, entering, rows,
                   registered, sessions, scenario, edited, cutShort, entries,
                   logouts, edits, taps, kills, issued>>

-----------------------------------------------------------------------------
Edits == [name : {"same", "free", "taken"}, edit : Nat]
Ids == {Nothing} \cup (Nat \X {"follow", "notice"})
Accounts == Users \cup {"nobody"}

Phases == {"idle", "lookup", "request", "saved", "failed", "persist", "persistFailed"}
Sendings == [phase : Phases, name : {"same", "free", "taken"}, edit : Nat,
             auth : {0} \cup Tokens]
Saves == [for : Ids, auth : {0} \cup Tokens]
Kinds == {"enter", "persist", "logout", "lookup"}
NewObjects == [id : Ids, who : Instances, auth : {0} \cup Tokens,
               phase : {"collect", "batched", "create"}]

InstancesOK ==
    /\ made \in 0..MaxInstances
    /\ account \in [Instances -> Accounts]
    /\ current \in [Instances -> BOOLEAN]
    /\ token \in [Instances -> {0} \cup Tokens]
    /\ saved \in [Instances -> Nat]
    /\ pending \in [Instances -> Edits]
    /\ queue \in [Instances -> Seq(Saves)]
    /\ sending \in [Instances -> Sendings]

ControllerOK ==
    /\ currentUser \in 0..made
    /\ dataQueue \in Seq([kind : Kinds, who : 0..made])
    /\ halfDone \in BOOLEAN
    /\ file \in [account : Accounts, saved : Nat]
    /\ keychain \in {0} \cup Tokens

ScreensOK ==
    /\ screen \in {"login", "tabs"}
    /\ entering \subseteq [user : Users, kind : {"logIn", "signUp", "google"}, n : Nat]
    /\ objects \subseteq NewObjects

ServerOK ==
    /\ rows \in [Users -> Nat]
    /\ registered \subseteq Users
    /\ sessions \subseteq Tokens
    /\ created \subseteq [id : Ids, by : Users, copy : 1..2]

HistoryOK ==
    /\ scenario \in Scenarios
    /\ edited \in [Users -> Edits]
    /\ cutShort \in BOOLEAN
    /\ entries \in Nat /\ logouts \in Nat /\ edits \in Nat /\ taps \in Nat
    /\ faults \in Nat /\ kills \in Nat /\ issued \in 0..MaxTokens

\* The state of the instances, the controller, the disk and the server.
UserTypeOK == InstancesOK /\ ControllerOK /\ ScreensOK /\ ServerOK /\ HistoryOK

\* A stale flag _current makes the next result of that instance take the
\* session over (handleSaveResultAsync: of PFUser).  Becoming current logs the
\* other account out, so instances of two accounts are flagged at once only if
\* one of the accounts was logged in twice: a logout clears one instance.
CurrentIsOneAccount ==
    \A i, j \in Instances : current[i] /\ current[j] /\ account[i] # account[j] =>
        \E k \in 1..made : \/ k # i /\ account[k] = account[i]
                           \/ k # j /\ account[k] = account[j]

\* With no task waiting, the disk has what a launch needs to come back with the
\* same user, session and confirmed edits, whichever of the logins, logouts and
\* saves that race for the data queue came last.
DiskIsCurrent ==
    dataQueue = <<>> =>
        IF currentUser = 0 THEN file = NoFile
        ELSE /\ file = [account |-> account[currentUser], saved |-> saved[currentUser]]
             /\ keychain = token[currentUser]

\* Someone who waits for each answer is shown the login screen exactly when the
\* device has no user, in memory or on disk, and the tabs with a user whose
\* session the server accepts, through failed saves, lost replies of sign-ups
\* and kills that do not cut a task of the data queue in two.
ScreenMatchesSession ==
    scenario.patient /\ ~cutShort /\ QuietUser =>
        IF screen = "login" THEN currentUser = 0 /\ file = NoFile
        ELSE currentUser # 0 /\ token[currentUser] \in sessions

\* Without faults and kills, the last edit of a profile is on its row at rest,
\* also after an edit whose name was refused, unless the last name asked for is
\* taken: then nothing of the profile can be saved until another is chosen.
EditsReachServer ==
    scenario.patient /\ faults = 0 /\ kills = 0 /\ QuietUser =>
        \A u \in Users : rows[u] = edited[u].edit \/ edited[u].name = "taken"

\* PFUser.h: after a logout "all future calls to `+currentUser` will return
\* `nil`", until someone logs in.
LoggedOutStaysOut ==
    screen = "login" /\ QuietUser => currentUser = 0
=============================================================================
