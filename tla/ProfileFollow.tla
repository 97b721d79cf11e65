---------------------------- MODULE ProfileFollow ----------------------------
(***************************************************************************)
(* The follow button of another user's profile (ProfileViewController).    *)
(*                                                                         *)
(* checkFollow asks for the Follower row when the profile is opened and    *)
(* sets the button; didFollow: flips the button at once and then either    *)
(* saves a new Follower row and a notification, which wait for the current *)
(* user's own saves (CurrentUser), or looks one row up and deletes it.     *)
(* Nothing orders these requests, and the button believes the last tap or  *)
(* the last answer.                                                        *)
(*                                                                         *)
(* The profile can be opened again from any of its posts, on top of itself *)
(* or in another tab.  The older screen stays, with its button as it was,  *)
(* and is shown again without another checkFollow.                         *)
(***************************************************************************)
EXTENDS CurrentUser

VARIABLES
    profile,     \* the number of the profile on the screen, 0 for none
    live,        \* the profiles that can be shown again, and that one
    opened,      \* bound: profiles opened
    isFollowing, \* the live profiles whose button says Unfollow
    checking,    \* answers of checkFollow not yet shown
    unfollowing, \* what didFollow: has asked for to delete it
    overtaken,   \* history: a check and a tap's request have met
    behind,      \* history: live profiles left behind by a tap on another
    crossed      \* history: a profile that was behind has been tapped

followVars == <<profile, live, opened, isFollowing, checking, unfollowing,
                overtaken, behind, crossed>>
vars == <<userVars, followVars>>

Init ==
    /\ InitUser
    /\ profile = 0 /\ live = {} /\ opened = 0 /\ isFollowing = {}
    /\ checking = {} /\ unfollowing = {}
    /\ overtaken = FALSE /\ behind = {} /\ crossed = FALSE

FollowRows(u) == {r \in created : r.id[2] = "follow" /\ r.by = u}

\* getFirstObject with this session: one of the rows, or nothing.
First(u, auth) ==
    LET rs == IF auth \in sessions \cup {0} THEN {{r} : r \in FollowRows(u)} ELSE {}
    IN  IF rs = {} THEN {{}} ELSE rs

Quiet == QuietUser /\ checking = {} /\ unfollowing = {}
FollowQuery(n) == [n |-> n, by |-> account[currentUser],
                   auth |-> TokenOf(currentUser), phase |-> "asked", found |-> {}]

Answered(q, found) ==
    [n |-> q.n, by |-> q.by, auth |-> q.auth, phase |-> "answered", found |-> found]

\* Deviation: the profile does not ask who follows whom.
NothingAsked == {}

\* What viewDidLoad asks for about the button.
FirstCheck == {FollowQuery(opened')}

\* A profile is opened: a new view controller, whose button says Follow.
OpenProfile ==
    /\ MayUseUser /\ (scenario.patient => Quiet)
    /\ opened < scenario.profiles
    /\ opened' = opened + 1
    /\ profile' = opened' /\ live' = live \cup {opened'}
    /\ checking' = checking \cup FirstCheck
    /\ overtaken' = (overtaken \/ unfollowing # {})
    /\ UNCHANGED <<userVars, isFollowing, unfollowing, behind, crossed>>

\* Back to another profile, or to its tab: viewWillAppear: sets the colors,
\* those of the current user.
ShowAgain(n) ==
    /\ MayTap("tabs") /\ dataQueue = <<>> /\ (scenario.patient => Quiet)
    /\ n \in live \ {profile}
    /\ profile' = n
    /\ UNCHANGED <<userVars, live, opened, isFollowing, checking, unfollowing,
                   overtaken, behind, crossed>>

\* The server answers the query of checkFollow.
AnswerCheck(q) ==
    /\ q \in checking /\ q.phase = "asked"
    /\ \E found \in First(q.by, q.auth) :
          checking' = (checking \ {q}) \cup
                {Answered(q, found)}
    /\ UNCHANGED <<userVars, profile, live, opened, isFollowing, unfollowing,
                   overtaken, behind, crossed>>

\* checkFollow's block: the button shows the answer, or Follow after an error.
ShowCheck(q) ==
    /\ q \in checking
    /\ q.phase = "asked" => faults < scenario.faults
    /\ faults' = IF q.phase = "asked" THEN faults + 1 ELSE faults
    /\ checking' = checking \ {q}
    /\ isFollowing' = (isFollowing \ {q.n}) \cup
          (IF q.found # {} THEN {q.n} \cap live ELSE {})
    /\ UNCHANGED <<instanceVars, controllerVars, diskVars, uiVars, serverVars,
                   scenario, edited, cutShort, entries, logouts, edits, taps, kills,
                   issued, profile, live, opened, unfollowing, overtaken, behind,
                   crossed>>

\* didFollow:
DidFollow ==
    /\ MayUseUser /\ (scenario.patient => Quiet)
    /\ profile # 0 /\ taps < scenario.follows
    /\ taps' = taps + 1
    /\ isFollowing' = IF profile \in isFollowing THEN isFollowing \ {profile}
                      ELSE isFollowing \cup {profile}
    /\ IF profile \in isFollowing
       THEN /\ unfollowing' = unfollowing \cup {FollowQuery(taps')}
            /\ UNCHANGED objects
       ELSE /\ objects' = objects \cup
                  {NewObject(<<taps', "follow">>), NewObject(<<taps', "notice">>)}
            /\ UNCHANGED unfollowing
    /\ overtaken' = (overtaken \/ checking # {})
    /\ behind' = behind \cup (live \ {profile})
    /\ crossed' = (crossed \/ profile \in behind)
    /\ UNCHANGED <<instanceVars, controllerVars, diskVars, screen, entering,
                   serverVars, scenario, edited, cutShort, entries, logouts, edits,
                   faults, kills, issued, profile, live, opened, checking>>

\* Deviation: all rows are looked up, and deleted.
All(u, auth) == {FollowRows(u)}

\* What an unfollow deletes.
Unfollowed(u, auth) == First(u, auth)

\* The server answers the query of an unfollow.
AnswerUnfollow(q) ==
    /\ q \in unfollowing /\ q.phase = "asked"
    /\ \E found \in Unfollowed(q.by, q.auth) :
          unfollowing' = (unfollowing \ {q}) \cup
             (IF found = {} THEN {}
              ELSE {Answered(q, found)})
    /\ UNCHANGED <<userVars, profile, live, opened, isFollowing, checking,
                   overtaken, behind, crossed>>

\* The row is deleted, which may have happened already.
Delete(q) ==
    /\ q \in unfollowing /\ q.phase = "answered"
    /\ created' = created \ q.found
    /\ unfollowing' = unfollowing \ {q}
    /\ UNCHANGED <<instanceVars, controllerVars, diskVars, uiVars, rows, registered,
                   sessions, boundVars, profile, live, opened, isFollowing,
                   checking, overtaken, behind, crossed>>

\* The query, or the delete, of an unfollow fails.
UnfollowLost(q) ==
    /\ q \in unfollowing
    /\ faults < scenario.faults
    /\ faults' = faults + 1
    /\ unfollowing' = unfollowing \ {q}
    /\ UNCHANGED <<instanceVars, controllerVars, diskVars, uiVars, serverVars,
                   scenario, edited, cutShort, entries, logouts, edits, taps, kills,
                   issued, profile, live, opened, isFollowing, checking, overtaken,
                   behind, crossed>>

-----------------------------------------------------------------------------
Elsewhere == UNCHANGED followVars

\* The screens of the tabs are gone when another root is shown.
ProfileGone ==
    /\ IF screen' = screen THEN UNCHANGED <<profile, live, isFollowing, behind>>
       ELSE profile' = 0 /\ live' = {} /\ isFollowing' = {} /\ behind' = {}
    /\ UNCHANGED <<opened, checking, unfollowing, overtaken, crossed>>

\* ... and after a new launch, with what they were waiting for.
Relaunch ==
    /\ Kill
    /\ profile' = 0 /\ live' = {} /\ isFollowing' = {} /\ behind' = {}
    /\ checking' = {} /\ unfollowing' = {}
    /\ UNCHANGED <<opened, overtaken, crossed>>

\* What the SDK and the server do by themselves.
Service ==
    \/ \E r \in entering : Admit(r) /\ Elsewhere
    \/ \E r \in entering : Refuse(r) /\ Elsewhere
    \/ \E i \in Instances : SaveTurn(i) /\ Elsewhere
    \/ Lookup /\ Elsewhere
    \/ \E i \in Instances : BatchTurn(i) /\ Elsewhere
    \/ \E i \in Instances : Execute(i) /\ Elsewhere
    \/ \E i \in Instances : HandleResult(i) /\ Elsewhere
    \/ BecomeCurrent /\ Elsewhere
    \/ SavedCurrent /\ ProfileGone
    \/ LogOut /\ Elsewhere
    \/ LoggedOutDone /\ ProfileGone
    \/ \E o \in objects : CollectUser(o) /\ Elsewhere
    \/ \E o \in objects : Create(o, 1) /\ Elsewhere
    \/ \E q \in checking : AnswerCheck(q)
    \/ \E q \in checking : q.phase = "answered" /\ ShowCheck(q)
    \/ \E q \in unfollowing : AnswerUnfollow(q)
    \/ \E q \in unfollowing : Delete(q)

\* What goes wrong.
Fault ==
    \/ \E r \in entering : SignUpReplyLost(r) /\ Elsewhere
    \/ \E i \in Instances : RequestLost(i) /\ Elsewhere
    \/ \E o \in objects, copies \in {0, 2} : Create(o, copies) /\ Elsewhere
    \/ \E q \in checking : q.phase = "asked" /\ ShowCheck(q)
    \/ \E q \in unfollowing : UnfollowLost(q)
    \/ Relaunch

\* What a person does, who may wait for all answers first.
Patiently == scenario.patient => Quiet

Tap ==
    \/ \E u \in Users, kind \in {"logIn", "signUp", "google"} :
          Enter(u, kind) /\ Patiently /\ Elsewhere
    \/ DidLogout /\ Patiently /\ Elsewhere
    \/ \E name \in {"same", "free", "taken"} :
          UpdateUser(name) /\ Patiently /\ Elsewhere
    \/ OpenProfile
    \/ \E n \in live : ShowAgain(n)
    \/ DidFollow

Next == Tap \/ Service \/ Fault

Spec == Init /\ [][Next]_vars

\* Every request is answered or times out, and the SDK's queues are served.
FairSpec == Spec /\ WF_vars(Service)

-----------------------------------------------------------------------------
\* The state of CurrentUser and of the follow button.
TypeOK ==
    /\ UserTypeOK
    /\ opened \in Nat /\ live \subseteq 1..opened /\ profile \in live \cup {0}
    /\ isFollowing \subseteq live /\ behind \subseteq live
    /\ overtaken \in BOOLEAN /\ crossed \in BOOLEAN
    /\ \A q \in checking \cup unfollowing :
          /\ q.n \in Nat /\ q.by \in Users /\ q.auth \in {0} \cup Tokens
          /\ q.phase \in {"asked", "answered"} /\ Cardinality(q.found) <= 1

NothingRefused == faults = 0 /\ "taken" \notin scenario.names

\* Someone who waits for each answer sees, at rest, Unfollow exactly when he
\* follows the user on the server, with one row, whichever of the profiles he has
\* opened and gone back to, as long as no request fails and no name is refused: a
\* new row waits for the user's own edits, and is not made when they are refused.
\* Excepted are a profile that was open while another one was tapped, whose
\* button is as it was, and what follows a tap on it; and a launch after a logout
\* was cut in two: the user is back with a session the server has revoked, his
\* edits are refused, and a follow that waits for them is lost.
FollowMatchesRow ==
    scenario.patient /\ ~cutShort /\ NothingRefused /\ ~crossed /\ Quiet =>
        \A n \in live \ behind :
            Cardinality(FollowRows(account[currentUser])) = (IF n \in isFollowing THEN 1 ELSE 0)

\* However fast the buttons are tapped, at rest a button that says Unfollow has a
\* row behind it: every unfollow deletes at most one row, and every follow makes
\* one.  Excepted are a profile left behind by a tap on another one (but not
\* those opened after a tap on that profile); a check that was out at the same
\* time as a tap's requests: its answer may be older than the tap; and a second
\* login, whose answer may change the user under a profile that is open already.
NoFollowLost ==
    ~overtaken /\ NothingRefused /\ kills = 0 /\ made <= 1 /\ Quiet
        /\ isFollowing \ behind # {} => FollowRows(account[currentUser]) # {}

\* Logins, logouts, saves and what waits for them all come to an end: the saves
\* of the user wait for the data queue, its tasks never wait for the saves.
ComesToRest == []<>Quiet
=============================================================================
