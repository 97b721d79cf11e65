# ArtTap, specified in TLA+

ArtTap is an iOS application for sharing drawings. It has no server code of its own:
every screen talks to a hosted Parse server through the Parse SDK, and whatever must hold
between the tables of that server (a like is counted once, a comment is notified, a view
counter agrees with its history) is up to the screens' callbacks. No transaction spans two
requests, requests are retried and reordered, and several devices write the same row.
This directory models those screens together with the part of the SDK that carries their
writes. Paths below are relative to `src/ArtTap/ArtTap/` unless they begin with `Pods/`
(`src/ArtTap/Pods/Parse/Parse/Parse/...`).

Run a check with `tlc -config <run>.cfg <module>.tla`, the proofs of a module `X` with
`tlapm XProofs.tla`. `PROJECT.json` lists the runs, the mutants that show that a
property can fail, the source lines of every definition, the findings and the hazards.

## 1. Inventory

| Part | State | Operations | Talks to | Hard about it |
|---|---|---|---|---|
| **Object saves**: `PFObject.m`, `PFTaskQueue.m`, `PFOperationSet.m`, `PFObjectEstimatedData.m`, `PFURLSessionCommandRunner.m` | per instance: `operationSetQueue`, server data, estimated data, task queue; the row | setter, `saveInBackground`, save as a child of another save, retry, success, failure | every screen that saves; the server | writes during a save, failures that roll operations forward, replies that are lost, saves through a parent |
| **Likes**: `DetailViewController.m`, `Liked.m`, `Notifications.m`, `Post.m` | `likeCount` of the Post, rows of Liked, `liked` and the count on each screen | open, refresh, like, unlike, check engagement | object saves; insights count the engagement rows | three requests per tap, answers that arrive after the next tap, several screens of a post open together (on several devices or on one), failure of any one |
| **Comments and critiques**: `DetailViewController.m`, `Comment.m` | `commentCount`, rows of Comment, the form, the segmented control | type, draw, post, change segment, refresh | object saves, notifications, drawing | the callback works on the screen as it is *then*; duplicated and failed requests |
| **View history**: `Post.m` `viewed:`, `GraphViewController.swift` | `numViews`, `viewTrack` | open a post, save, draw the chart | detail screen | absolute values written by several devices, indices computed from clocks, a window of 730 entries |
| **Suggested feed**: `HomeViewController.m`, `Suggested.swift` | `suggestedCount`, `suggestedArray`, `showHUD`, background jobs | appear, scroll, pull, change feed, load | the other feeds (shared arrays and refresh control) | concurrent jobs and the main thread share counters and an array without a lock |
| **Global and following feed**: `HomeViewController.m` | `postArray`, `homeArray`, `followingArray`, `postCount` | query, scroll, pull, change feed, post | `Follower` table, `CreateViewController` (`didPost`) | answers out of order, applied to whatever feed is shown |
| Likes of comments: `CommentCell.m`, `CommentLikes.m` | `likeCount` of the Comment, rows, the cell's heart | like, unlike, check | detail screen's table | as likes, in cells that are reused |
| **Session and profile**: `PFCurrentUserController.m`, `PFUser.m`, `LoginViewController.m`, `EditViewController.m`, `User.m`, `SceneDelegate.m` | the `PFUser` instances with their flags, tokens and saves, `_currentUser` and its task queue, file and keychain, the screen | sign up, log in, log out, edit, launch | every save, which looks the current user up; the follow button | three queues (the user's saves, the controller's tasks, the main thread) wait for each other's results; a kill between file and keychain |
| **Following**: `ProfileViewController.m`, `Follower.m` | `isFollowing`, rows of Follower, notifications | open a profile, check, follow, unfollow | session (a new row saves the dirty user first) | find and delete in two requests, double taps, a check answered after a tap, older profiles shown again with the button they had |
| **Insights**: `ProfileViewController.m`, `GraphViewController.swift` | charts of several posts | merge histories, place an hour | view history, likes, comments | histories of different length, two ways of counting hours |
| Creating a post: `CreateViewController.m` | chosen image and speedpaint | choose, share | home feed | upload, then callback |
| Search, trending, notifications: their view controllers | the lists shown | query, filter on the device, display | server | a query per cell, one table from several queries |
| Drawing, cells, layouts, pop-ups | what is on screen | | | display only |
| Other libraries in `Pods/` | | | | third-party code |

What would make each correct:

- *object saves*: no assignment is lost between setter and row; a getter never goes back
  to an older value; every save ends.
- *likes*: count, row and heart agree at rest; one notification per like; unliking
  removes the like and nothing else.
- *comments*: the count never exceeds the rows and settles at them; a notification quotes a
  comment that exists; a draft is posted once; a post without critiques gets none.
- *view history*: the index is valid, the total equals the counter, views stay in their
  hour, the chart has the length it is drawn with.
- *insights*: how far apart the charts one looks at together draw an hour is bounded, and
  the merged chart has the views of all posts.
- *session*: one account is current, in memory, on disk and on the screen; whoever logs
  out stays out; an edit that was accepted is on the row.
- *following*: the button says what the table says; a follow is one row and notified.
- *feeds*: ranges within bounds, no post missing or repeated, the order of the ranking, the
  spinner and the activity view go away.

## 2. Modules

| Module | Models | How state and actions correspond |
|---|---|---|
| `PFObjectSave` | one `PFObject`, its task queue and its row | Variables have the names of the ivars. `waiting` is the `PFTaskQueue`, `command` the REST command whose turn it is; a save *takes its snapshot when its turn comes*, as in `saveAsync:`. `collected` holds saves of a parent that found the object dirty (`collectDirtyChildren`) but have not enqueued their batch yet. `abandoned` are requests the client no longer waits for that the server may still execute. `written` and `overwritten` are history. |
| `ObjectContract` | what an application may rely on | Four variables: what the getters return, the row, the fields not confirmed, the fields others have written. `PFObjectSave` instantiates it (`Contract`) with the cached values and the keys of all operation sets. |
| `PostSaves` | `PFObjectSave` as the detail screens use it: one counter of a Post and the key `numViews` | `dirty` is the set of unsaved keys, `queue` the task queue, `sending` the snapshot under way. Request and reply of a save are one step, because no other save of the instance starts in between. An attempt without an answer is retried (`SaveRetried`) or the last one (`SaveFails`); either way the server has executed it, or may do so at any later time: it then is in `abandoned`, and `ExecuteLate` writes its value over newer ones (`overwritten` is history). Instantiated by the next two. |
| `DetailLikes` | likes of one post | A visit opens once and closes once, any number of them may be open together, and requests outlive them. `behind` and `crossed` are history: which screens a tap on another one has left with an old count or heart, and whether such a screen has been tapped since. Requests without data are counted per kind in `calls`, answers to `setDetails`' query in `readings`. `Like` is `visLike` and `dataLike`, `Unlike` is `visUnlike` and `dataUnlike`, each with every request they start. |
| `DetailComments` | comments on one post | A request carries the form as it was at the tap; the callback (`Commented`) does everything `didComment:` does after success: fetch, count, notification, emptying the form. Texts and drawings are numbers of drafts. |
| `ViewTrack` | `numViews`, `viewTrack` and the charts | `Viewed` is `Post viewed:` as a function; `Open` reads the row and changes the copy, `SaveDone` writes the copy's absolute values. An attempt of a save may be executed late, after other devices' saves. `PlaceInViews` and `PlacesInLikes` are where the insights, opened at any time of the visit, draw an hour; the minutes, on which the rounding of `getPostData:` depends, are a choice (`HoursSince`). `Merged` is the profile's chart of several posts. |
| `SuggestedFeed` | paging of the suggested feed | A job steps through the reads of `loadSuggested`: the limit, the query with the range's beginning, the length, the unlocked addition in two steps, `completehud`. A page is the run of ranks it was cut from. |
| `HomeFeed` | the other two feeds | `MakeQuery` is `makeQuery`, `ShowAnswer` its callback. `Selected` keeps the rows a query matches, in order. `nils` are the arrays that are nil, which count no entries and take none. Of the suggested feed it has the first page only. |
| `CurrentUser` | the user of the application | `made` instances of `PFUser`, each with its flag, token, saves (`queue`, `sending`) and unconfirmed edits; `dataQueue` is `_dataTaskQueue`, whose tasks log in, log out, persist and look up. The login screen's requests are `entering`, rows being created are `objects`. `Kill` is the end of the process and the next launch (`SceneDelegate`). |
| `ProfileFollow` | the follow button, composed with `CurrentUser` | Its `Next` is the next-state relation of the whole: every action of `CurrentUser` with `Elsewhere`, those that replace the root view controller with `ProfileGone`, and the button's own. `DidFollow` is `didFollow:`; a new row goes through `CurrentUser`'s objects, so that it waits for the user's own edits. `live` are the profiles of the other user on the navigation stacks, each with its button; `ShowAgain` goes back to one, which asks for nothing. `behind` and `crossed` are history, as in `DetailLikes`. |
| `SumTheorems` | no code: facts about sums | What a fold of + over a finite set computes, whatever order it takes the elements in; the counters of `DetailLikes` and the histories of `ViewTrack` are such sums. |
| `PFObjectSaveProofs`, `ViewTrackProofs`, `SuggestedFeedProofs`, `HomeFeedProofs`, `DetailLikesProofs`, `DetailCommentsProofs`, `AccountProofs` | proofs about them | section 5; `AccountProofs` is about `CurrentUser` and `ProfileFollow` |

The `MC*` modules define the values a `.cfg` cannot write. Operators marked *Deviation* are
plausible bugs; no specification uses them, the mutants do.

Modules that are checked in several situations take a constant `Scenarios`, a set of
records from which `Init` chooses one: which screens take part, whether their users are
patient, and the bounds. A *patient* user waits until nothing is under way before tapping.
Some promises of this application hold only for such users (a hasty one can make the
heart contradict the table), and the properties say so in their premises; the others are
checked with hasty users. A premise of this kind excepts a hazard and does not catch it;
`PROJECT.json` says so at each of them.

`PFObjectSave` assumes that the instance was fetched and points to clean objects, so that
a save has no dirty children of its own. That holds for the Posts, Comments and Users of the
application. It matters: when collecting children fails, `saveAsync:` (1468-1474) returns
without removing the operation set it has just pushed, and the queue would not have the
length `HeadIsInFlight` states.

`CurrentUser` abstracts further. A task of the data queue is cut in two, between the flags
and the keychain on one side and the file and `_currentUser` on the other, where other
threads and a kill can come in between; its smaller steps are not told apart. The request
that revokes a session succeeds. Requests the server has not executed before a kill are
lost. A new row looks up the current user at the tap, since the main thread has
just waited for the data queue to get there. Passwords, pictures and the Google dialogue
before the sign-up are left out. A repeated save of the profile writes the same values and
shows nothing new; a repeated create does, and is modelled.

## 3. Runs

| Run | Instance | What it shows |
|---|---|---|
| `PFObjectSave` | 2 keys, 3 values, 3 writes, 2 saves (own or as a child), 2 attempts, 1 foreign save | Writes before, during and after a save that is retried, fails or is executed late: the head of the queue is what is in flight, getters see the last write, the cache is current, no write is lost, only assigned keys are sent. Every save ends. The whole implements `ObjectContract` (`ImplementsContract`). |
| `DetailLikes` | patient users: both screens of a fan, or one of his and the artist's, with 2 taps and a refresh each, or all three with a tap each, open one after the other or together; hasty visits of one of them with 1 or 2 taps and a fault or a refresh; the post may have been liked before | For patient users count, row and heart agree at rest, but for screens left behind by a tap on another one. For a hasty user alone with the post the server ends with the count shown, unless a late attempt overwrites it. One notification per like but for faults. All comes to rest. |
| `DetailComments` | a fan and the author, 2 comments each, 1 refresh, 1 fault; a hasty fan with 3 comments, or 2 and a fault; a post without critiques | The count never exceeds the rows, late attempts of its saves included, and settles at them; notifications quote comments; drafts are posted once; all comes to rest. |
| `ViewTrack` | 3 visits, one by a device two hours ahead; a window of 5 instead of 730 entries; 7 hours; 2 faults | The index exists, counter, history and merged chart agree, views stay in their hours, an hour is drawn in the chart of views at most two places before its place in that of likes, up to the hours the screen has been open and the lead of a clock. |
| `SuggestedFeed` | pages of 2, up to 9 posts (3 loads can overlap), 2 appearances, 2 pulls, 1 failed query | Ranges stay in bounds however the jobs interleave; loads that take turns give full pages in order; a refresh ends once a page has been asked for. |
| `HomeFeed` | pages of 2; 3 posts and 4 taps for a hasty user, or 3 taps and a failed query; 5 posts, 5 taps and a failed query for a patient one | The global feed is in order without gaps or repetitions whatever order answers come in; for a patient user it is complete, also after visits to the other feeds and own posts, but for a feed that is nil. |
| `Account` | 2 accounts, up to 4 instances and sessions; patient people who enter twice, edit with names that may be taken, follow, go back and forth between three profiles of one user, log out with profiles open, with a fault and a kill; hasty ones who edit and log out, who log in three times at once, who tap the button during edits, faults and checks and on up to three profiles, or log in a second time behind it | One account is current; with no task waiting the disk is what memory says; for patient people screen and session agree and the button says what the table does, but on profiles left behind by a tap on another one; edits reach the row; no follow is lost to hasty taps; all comes to rest. |
| `DetailLikes_engage_deleted` | one hasty visit | **Violated.** `dataUnlike` looks for a row of the user without naming `isEngage`, and can delete the engagement. |
| `DetailComments_critique` | a post without critiques | **Violated.** `fetchComments` removes the second segment each time; the second time it takes "Comments" away, and the next comment is a critique. |
| `SuggestedFeed_hud` | 1 appearance | **Violated.** Two loads show an activity view each, one is hidden; the other covers the screen with nothing loading. |
| `HomeFeed_following` | a patient user | **Violated.** The callback of the following feed stores posts in the list of followed users, which is also the filter of the next query. |
| `Account_logout` | one edit and one logout | **Violated.** A save that is handled between the logout's being enqueued and its start enqueues its user behind it: he is current again, on the login screen and on disk. |

Why the bounds are enough. Two keys tell a key that is saved from one that is assigned
meanwhile; three writes put one before, one during and one after a save, and two saves meet
in the task queue, one of them possibly a batch. (The proofs remove these bounds for the
properties they cover.) Likes and comments need two actions of a user that overlap and one
fault at any request in between; a second visit sees what the first left behind, or is left
behind by it when both are open, and a third finds the rest as they were. The
window of `ViewTrack` must be shorter than the life of the post, longer than the lead of
the fast clock. Three overlapping loads are the fewest for which all three reads of
`suggestedCount` can differ. A page of 2 shows an answer that ends within a page and one
that fills it. A session needs two accounts (one to replace the other), a third login to
have two instances of one account beside another, two edits for a failed one under a newer
one, a third to send both again; three taps follow, unfollow and follow again; three
profiles are one that is tapped, one it leaves behind and one opened after; one kill
can fall between any two steps, and what it leaves is again a state from which a launch
begins.

All configurations bound what users do, so behaviours end and TLC's deadlock check is off
where it would report that end; `SavesComplete`, the three `ComesToRest` and `RefreshEnds` show that
nothing under way waits for ever.

### Fairness

Only what the platform does by itself is fair, never the user, a fault, a retry or
another device.

- `PFObjectSave`, `DetailLikes`, `DetailComments`: weak fairness of the disjunction of the
  SDK's, network's and server's steps. A task queue starts its next task when the last is
  over (`PFTaskQueue enqueue:`), and every request is answered or times out
  (`NSURLSession`); a time-out is the fault or the failure action, which is an allowed
  but not a required outcome. Since each module bounds what users can begin, progress of
  some request is enough for all to end.
- `ProfileFollow`: weak fairness of `Service`, all steps of the SDK's queues and of the
  server together, for the same reason. It is enough because no task of the data queue
  waits for a save, while saves wait for the data queue (the deviation `WhenSaved`, in
  which a logout waits for the user's saves, does not come to rest).
- `SuggestedFeed`: weak fairness of each job, since a global concurrent queue runs every
  block.

## 4. Findings

The five violated runs above. Further things the models made visible that no
document contradicts and no run states:

- `likeCount` is saved as the screen's copy plus or minus one, and the copy is fetched when
  the screen opens only. Of two screens of a post that are open together, whoever taps second
  overwrites the other's like in the count, with all users waiting for every answer.
  `CountMatchesRows` excludes what follows such a tap (`crossed`).
- The post can be opened again from a profile that was opened from it. The older screen's
  heart then stays as it was, and a tap on it likes a second time, or unlikes what is not
  liked. `HeartMatchesRows` excludes screens left behind (`behind`), until they are refreshed,
  and what follows a tap on one.
- In the same way the older of two profiles of a user keeps its follow button: `checkFollow`
  runs when a profile is loaded or the user's own has been edited, not when it appears
  again. It can say Unfollow without a row, and a tap on Follow there makes a second row.
  `FollowMatchesRow` and `NoFollowLost` exclude the profiles left behind.
- An attempt of a save that timed out may be executed after a newer save and put the old
  count back, with nothing left unsaved. `ServerHasShownCount` excludes it (`overwritten`).
- A name the server refuses fails the whole save and stays among the unconfirmed edits,
  under the next edit's: every later save of the profile fails with it until another name
  is given or the application is restarted. Rows that point to the user (a follow, its
  notification, a like, a post) save him first and fail as well; the follow button says Unfollow
  all the same. `FollowMatchesRow` and `NoFollowLost` exclude it (`NothingRefused`).
- The answer of a second login, sent before the first was answered, replaces the user under
  tabs, and a profile, that are open already: the follow button then shows what the first
  user did. `NoFollowLost` excludes second logins (`made <= 1`).
- A kill in the middle of a logout, after the keychain and before the file, leaves a user
  without a session: the next launch shows the tabs, and everything he does is refused,
  so that a follow that waits for his edits is lost without a word. `ScreenMatchesSession`
  and `FollowMatchesRow` exclude it (`cutShort`).
- Two logins of one account before the first is over leave two instances; a logout clears
  the flag of one. The other still takes the session over when a save of it returns.
  `CurrentIsOneAccount` excludes it.
- `+currentUser` waits for the data queue, and with it the main thread for the request
  that revokes a session.
- `GraphViewController.swift` draws an hour in the chart of views up to two places before
  its place in those of likes, comments and engagements: `viewed:` pads one zero more
  than its index needs and the chart ends where the history ends, and `getPostData:` rounds
  the age of a like down, not the hours of both. The likes are counted when the insights
  are opened and the history is the visit's, so the longer the screen has been open the
  further the likes move the other way (`ChartsAgree`). The profile's chart adds
  histories by the age of each post, so views of the same hour of different posts stand
  in different places. For none or one view, line 81 shows the number of engagements in the
  place of the views.
- `RefreshEnds` has the premise that a page has been asked for. When there are at most two
  pages of posts, or `getMax` failed, `makeQuery` leaves the refresh control to a load that
  never comes, and it spins until the user changes the feed.
- `homeArray` is nil until an answer has posts. A user who leaves the global feed before
  that and comes back shows `[nil mutableCopy]`: `addObject:` then does nothing, and the
  feed stays blank, also after a post of his own. `GlobalComplete` excludes it (`nils`).
  A query with a nil list of followed users has an empty condition on the author; what
  the server makes of it is left open (`AuthorFilters`).
- The first page of suggestions begins at rank 15, so the 15 most viewed posts are never
  suggested; `getMax` sees at most 100 posts, the default limit of a query.
- Two overlapping loads read `suggestedCount` after both have raised it, cut the same
  page and skip the one before it: `SerialPagesInOrder` excludes them for that reason.
- From the month on, `viewTrack` loses its oldest entries at every view, and more than one
  at a time, so that hours and entries part: `ViewsAddUp` and `HoursTruthful` exclude it.

## 5. Proofs

Everything below holds for every value of the constants that satisfies the modules'
assumptions: any sets of fields, values, screens and accounts, any page size and window,
any number of attempts, and any bounds on what users, faults and kills do. TLC evaluates
these assumptions in the runs.

| Module | Theorems (and the properties they state) | Assumptions used |
|---|---|---|
| `PFObjectSaveProofs` | `TypeCorrect` (`TypeOK`), `HeadOfQueueIsInFlight` (`HeadIsInFlight`), `CacheIsCurrent` (`EstimateIsCurrent`), `ReadYourWrites` (`GettersSeeLastWrite`), `NoWriteLost` (`SavedWhenClean`), `NothingElseSent` (`OnlyAssignedKeysSent`), `SavesImplementContract` (`ImplementsContract`), `ContractKeepsConfirmed` | `NoneIsNoValue`, `InitIsValue`, `AttemptsPositive` |
| `ViewTrackProofs` | `TypeCorrect` (`TypeOK`), `HourIndexesHistory` (`HourIsAnIndex`), `HoursStayTruthful` (`HoursTruthful`), `ChartsAgreeAlways` (`ChartsAgree`), `ViewsAlwaysAddUp` (`ViewsAddUp`) | `AheadType`, `WindowType`, `BoundsType` |
| `SuggestedFeedProofs` | `TypeCorrect` (`TypeOK`), `RangesStayInBounds` (`RangeInBounds`), `SerialPages` (`SerialPagesInOrder`) | `IncreType`, `MaxPostsType` |
| `HomeFeedProofs` | `TypeCorrect` (`TypeOK`), `GlobalFeedInOrder` (`GlobalInOrder`), `GlobalFeedComplete` (`GlobalComplete`) | `FollowedType`, `IncreType`, `MaxPostsType`, `SuggestionsType`, `ScenariosType` |
| `DetailLikesProofs` | `TypeCorrect` (`TypeOK`), `CountSaved` (`ServerHasShownCount`), `CountAgrees` (`CountMatchesRows`), `HeartAgrees` (`HeartMatchesRows`), `EachLikeNotified` (`LikesNotified`) | `ScreensFinite`, `UserOfType`, `MayLikeAlreadyType` |
| `DetailCommentsProofs` | `TypeCorrect` (`TypeOK`), `CountNeverAheadHolds` (`CountNeverAhead`), `CountSettlesHolds` (`CountSettles`), `NotifQuotesCommentHolds` (`NotifQuotesComment`), `DraftPostedOnceHolds` (`DraftPostedOnce`) | `MaxDraftsType` |
| `AccountProofs` | `TypeCorrect` (`TypeOK`), `OneAccountIsCurrent` (`CurrentIsOneAccount`), `DiskStaysCurrent` (`DiskIsCurrent`), `ScreenFollowsSession` (`ScreenMatchesSession`), `LastEditReachesServer` (`EditsReachServer`), `ButtonShowsTheRow` (`FollowMatchesRow`), `FollowsAreNotLost` (`NoFollowLost`) | `UsersType`, `MaxInstancesType`, `MaxTokensType`, `ScenariosType` |
| `SumTheorems` | lemmas: `SumUnfolds`, `SumTakes`, `SumChanges`, `SumAdd`, `SumSplits`, `SumShifts`, ... | none |

*Object saves.* The task queue lets one save at a time past `SaveAsync`, so there is one
operation set between saves and two while a command is out. `HeadIsInFlight` says so and
that the first of the two is the command's. Then `EstimatedFrom` is one or two overlays
(`EstimateOfOne`, `EstimateOfTwo`), and since overlaying is associative
(`OverlayAssociative`) a failed save, which merges the two sets, leaves the estimate as it
was without a rebuild. `SavedWhenClean` is not inductive: it says nothing while something
is pending. The inductive invariant `IInv` adds `RowIsExplained`: where the row differs from
the server data the client knows, an operation is still pending or somebody else has
written; and once the server has executed the command, the row shows it. With an empty
last set and no command out, that is `SavedWhenClean`. `OnlyAssignedKeysSent` is inductive
relative to `IInv`: only a setter puts a key into a set, and it assigns `written` as well.

*Refinement.* `SavesImplementContract` uses that invariant: a setter is an assignment, the
execution of a request writes pending keys, success confirms keys whose values the row
holds or others have overwritten, and all else, a failure included, leaves getters, row and
pending keys as they are. `ContractKeepsConfirmed` is an invariant of the abstract object,
and so holds for `PFObjectSave` through the refinement.

*View history.* No history is longer than the window (part of `TypeOK`), and padding
reaches the hour, so the index exists. Before the month is over nothing is trimmed:
`Bounded` says how far a history reaches, namely to at most one entry behind the latest hour a
clock has shown, `EndsAtVisit` that a copy reaches its own visit; both charts then count
from ends that differ by that entry and the clocks' lead. `viewed:` changes one entry and
keeps the others, which gives `HoursTruthful`.

*Sums.* Counters and histories are added up by the library's folds, which take the elements
of a set in an order that CHOOSE fixes. `SumTheorems` shows that the order does not matter:
the sum over a set is any one of its values and the sum over the rest (`SumTakes`). The
library's induction theorems cannot be used for that, having an operator as a parameter;
`NatSets` and `SetInduction` state induction with a *set* of the cases that are done, and
follow from the well-foundedness of < on the naturals. `ViewsAddUp` is inductive relative to
`TypeOK` once a sum of a history is known to grow by one with one of its entries, to keep
its value when zeros are added and not to grow when it is trimmed in front; a save
overwrites both fields with those of a copy, so that what holds of each copy holds of the
row.

*Suggested feed.* `suggestedCount` only grows, and a load exists only if a page was asked
for; so each range ends within the count its load has read, whichever of its values the
three reads have seen (`RangesCovered`). `SerialPagesInOrder` adds `SerialState`: where no
two loads overlap, `suggestedCount` is one page more than the pages added, two while a load
is under way, and that load has read no older value.

*Global feed.* Every answer to the global query, and every `postArray` made from one, is a
prefix of the newest posts, and of two prefixes the callback leaves one (`Ordered`). For
completeness of a patient user's feed, `Complete` says that either the feed shows the
newest `postCount` posts or a query with that limit, or its answer, is on its way; and
`homeArray` is `postArray` except just after it was cleared. Where the global feed shows
nil, `homeArray` is nil as well (`NilsOK`), so that the next return starts from no posts
again. `TypeOK` needs to know which
list an array was made from: the followed users are in `postArray` only off the global feed,
and `homeArray` and the answers never hold any; `Selected` keeps members
of its list only (by induction on its length, `NatSets`).

*Likes.* Of a screen alone with its post, the count shown is unsaved, on its way, or what the
server has (`ShownIsSaved`), unless a late attempt has come after it; a failed save makes it unsaved
again, and a task that turns to it sends all that is unsaved. For patient users and no fault,
`CalmOK` says that of the open screens one may have something under way, the `Mover`, and
the others are `Standing`: at rest, with a count and a heart that agree with the rows unless
they are `behind`. The mover is in one of four states: `Settled`, `Liking` (a row to create),
`Unliking` (a row to look for), `Deleting` (a row to delete), each with its distance between
count and rows; a tap makes its screen the mover, and while it is on its way no other screen
whose view it has outdated counts as current (`Overtook`). That `dataUnlike`, which takes the
newest row of the user, deletes the like and not the engagement needs `UserRowsOK`: whoever
likes the post has an engagement, and it is older. That holds because `checkEngage` has
created it before anything can be tapped, which a hasty user does not wait for: the run
`DetailLikes_engage_deleted` shows what happens to him. `LikesNotified` is about all
screens together, hasty ones too: a notification is made when the save of the Post it points
to has been collected, queued and sent. `NotifsOK` says that `notifs` is the sum over the
screens of the likes tapped minus those whose notification is still on one of these ways
(`Owed`), but for one per fault; each action moves one screen's like from one way to the
next, which leaves the sum (`SumSame`), or ends it (`SumChanges`), and at rest nothing is
on the way.

*Comments.* For a screen alone with its post, its count and the callbacks due are together
at most the rows made, and so are `commentCount` and every value being saved or left to be
executed late; as long as nothing was lost, the first are equal (`CountState`); the
numbers of comments under way are fresh (`FreshOK`). For patient users there is at most one
comment under way per screen, its row exists before its notification is made
(`QuoteState`), and a draft is in one place: the form, a request or a row (`DraftState`).

*Session.* Each task of the data queue that a save waits for is that save's only one
(`TasksInv`). `FlagsInv` says who may carry the flag: for accounts of one instance, the
controller's current user or, between the halves of a task, the one about to be.
`DiskIsCurrent` says nothing while tasks wait; `DiskInv` adds that the disk differs from
memory only if a task that writes it is still in the queue, and that a current user has his
flag, which is what makes his next result write the disk.

*Someone patient* taps only when nothing is under way, so that his device is in one of four
modes (`OneThing`): at the login screen, logging in, logging out, or in the tabs, where
everything under way is about the current instance and carries its session (`Ours`), and the
data queue holds at most the one task a save waits for. That gives `ScreenMatchesSession`,
and is what the other two stand on. `EditsInv` says that without faults and
kills a last edit is on the row, or its user is the current one and it is on the way: among the
unconfirmed edits with a save queued, or in the request that is out; only a name that is taken
makes a save fail. `Button` says that at most one request of the follow buttons is out, and what
the table has and is about to have when it is over, which is what the buttons of all profiles
say that no tap on another one has left behind (`Fresh`), but for one being checked.

*Someone hasty.* `NoFollowLost` says nothing while requests are out. `Balance` counts: each
follow under way or made has an identity of its own, the number of its tap, an unfollow takes at
most one row away, and taps alternate; so the follows outnumber the unfollows under
way, by one while the button of a fresh profile says Unfollow: a tap leaves all other profiles
behind, and one opened later says Follow until its check finds a row. With none under way,
there is a row.

Only model-checked: liveness, namely `SavesComplete`, the three `ComesToRest` and
`RefreshEnds` (TLAPS does not reason about ENABLED, by which fairness is defined). Every
invariant and action property of a passing run is a theorem. The runs still carry weight:
they check the same invariants against states the program reaches, and with each mutant
that the property can fail.

## 6. Not modelled

- *In the modelled parts*: fetching, deleting and pinning `PFObject`s, operations other than
  Set, objects that have not been created yet (a create is one request in the detail
  modules); a visit whose first query fails, after which the screen has no post; the
  contents and order of the comment list; the likeness ranking within a page of
  suggestions; a crash from changing an `NSMutableArray` on two threads (the model loses
  the addition); clocks that are behind the server's, with which `viewed:` indexes before
  the array; what images and texts contain; passwords, pictures and the Google
  dialogue; the lists of followers; the time frames and labels of the charts.
- *Likes of comments*: the count-and-row pattern of `DetailLikes` again, in table cells
  that are reused: what an answer changes depends on which comment the cell shows by then,
  which is decided by the table view, outside the source.
- *Search and trending*: queries whose answers replace a list no other part shares; the
  search box filters that list on the device. The number of followers beside a result is
  set by a query of a cell that may have been reused, as with the likes of comments.
- *List of notifications, creating a post, drawing, cells, layouts, pop-ups*: display, or
  forms whose effect on other parts is modelled there.
- *Third-party libraries* other than Parse's path of a save and its current user. By
  volume they are nearly all C and C++ headers and sources of the repository (`Pods/`:
  nanopb, gRPC, Firebase, Facebook); the application itself is Objective-C and Swift.

## 7. Plan

Order: first what every write goes through, then what several writes must agree on, then
what is read.

1. Done: `PFObjectSave`, `ObjectContract` and the refinement between them; `PostSaves`,
   `DetailLikes`, `DetailComments`; `ViewTrack` with the insights' charts; `SuggestedFeed`;
   `HomeFeed`; `CurrentUser` composed with `ProfileFollow`; proofs about all of them.
2. `PostSaves` related to `ObjectContract`, so that the detail screens stand on the abstract
   object.
3. `CommentLikes`: the heart of a reused cell, with the table view's reuse as an external
   choice.
4. The other labels that a reused cell's query sets (`SearchCell`, `NotifCell`), with the same
   external choice.
5. Clocks behind the server's in `ViewTrack`.
