---------------------------- MODULE HomeFeedProofs ----------------------------
(***************************************************************************)
(* Proofs about HomeFeed, for pages of any size, any number of posts and   *)
(* taps, and any ranking of suggestions.                                   *)
(*                                                                         *)
(* Everything on the global feed is a prefix of the newest posts: every    *)
(* answer is one, and extending one prefix by what another has beyond it   *)
(* gives the longer of the two, so the order of the answers is immaterial. *)
(* The types come last, as they need what a query selects.                 *)
(***************************************************************************)
EXTENDS HomeFeed, SequenceTheorems, SumTheorems, TLAPS

\* The n newest of p posts.
Newest(p, n) == [i \in 1..n |-> p + 1 - i]

Least(m, n) == IF m < n THEN m ELSE n
Most(m, n) == IF m < n THEN n ELSE m

-----------------------------------------------------------------------------
LEMMA NewestIsSeq ==
    ASSUME NEW p \in Nat, NEW n \in Nat
    PROVE  /\ Newest(p, n) \in Seq(Int) /\ Len(Newest(p, n)) = n
           /\ \A i \in 1..n : Newest(p, n)[i] = p + 1 - i
BY DEF Newest

LEMMA NewestEqual ==
    ASSUME NEW p \in Nat, NEW n \in Nat, NEW s \in Seq(Int), Len(s) = n,
           \A i \in 1..n : s[i] = p + 1 - i
    PROVE  s = Newest(p, n)
<1>1. Newest(p, n) \in Seq(Int) /\ Len(Newest(p, n)) = n
      /\ \A i \in 1..n : Newest(p, n)[i] = p + 1 - i
  BY NewestIsSeq
<1>2. \A i \in 1..Len(s) : s[i] = Newest(p, n)[i]
  BY <1>1
<1> QED
  BY <1>1, <1>2, SeqEqual

LEMMA PartOfNewest ==
    ASSUME NEW s \in Seq(Int), NEW m \in Nat, NEW n \in Nat, m <= n, n <= Len(s)
    PROVE  /\ SubSeq(s, m + 1, n) \in Seq(Int) /\ Len(SubSeq(s, m + 1, n)) = n - m
           /\ \A i \in 1..(n - m) : SubSeq(s, m + 1, n)[i] = s[m + i]
<1>1. m + 1 \in Int /\ n \in Int /\ Len(s) \in Nat
  OBVIOUS
<1>2. \A i \in (m + 1)..n : s[i] \in Int
  BY <1>1
<1> DEFINE part == SubSeq(s, m + 1, n)
<1>3. /\ part \in Seq(Int) /\ Len(part) = IF m + 1 <= n THEN n - (m + 1) + 1 ELSE 0
      /\ \A i \in 1..(n - (m + 1) + 1) : part[i] = s[(m + 1) + i - 1]
  BY <1>1, <1>2, SubSeqProperties
<1> HIDE DEF part
<1>4. Len(part) = n - m
  BY <1>1, <1>3
<1>5. \A i \in 1..(n - m) : part[i] = s[m + i]
  <2> SUFFICES ASSUME NEW i \in 1..(n - m) PROVE part[i] = s[m + i]
    OBVIOUS
  <2>1. i \in 1..(n - (m + 1) + 1) /\ (m + 1) + i - 1 = m + i
    OBVIOUS
  <2> QED
    BY <1>3, <2>1
<1> QED
  BY <1>3, <1>4, <1>5 DEF part

\* A beginning of the newest posts.
LEMMA BeginningOfNewest ==
    ASSUME NEW p \in Nat, NEW m \in Nat, NEW n \in 0..m
    PROVE  SubSeq(Newest(p, m), 1, n) = Newest(p, n)
<1> DEFINE s == Newest(p, m)
<1>1. s \in Seq(Int) /\ Len(s) = m /\ \A i \in 1..m : s[i] = p + 1 - i
  BY NewestIsSeq
<1> HIDE DEF s
<1>2. /\ SubSeq(s, 1, n) \in Seq(Int) /\ Len(SubSeq(s, 1, n)) = n
      /\ \A i \in 1..n : SubSeq(s, 1, n)[i] = s[i]
  BY <1>1
<1>3. \A i \in 1..n : SubSeq(s, 1, n)[i] = p + 1 - i
  BY <1>1, <1>2
<1>4. n \in Nat
  OBVIOUS
<1>5. SubSeq(s, 1, n) = Newest(p, n)
  BY <1>2, <1>3, <1>4, NewestEqual
<1> QED
  BY <1>5 DEF s

LEMMA FirstOfNewest ==
    ASSUME NEW p \in Nat, NEW n \in Nat
    PROVE  FirstOf(Newest(p, p), n) = Newest(p, Least(n, p))
<1>1. Len(Newest(p, p)) = p
  BY NewestIsSeq
<1>2. Least(n, p) \in 0..p
  BY DEF Least
<1>3. FirstOf(Newest(p, p), n) = SubSeq(Newest(p, p), 1, Least(n, p))
  BY <1>1 DEF FirstOf, Least
<1> QED
  BY <1>2, <1>3, BeginningOfNewest

LEMMA NewestIsPrefix ==
    ASSUME NEW p \in Nat, NEW n \in 0..p
    PROVE  IsPrefix(Newest(p, n), Newest(p, p))
<1>1. Len(Newest(p, n)) = n /\ Len(Newest(p, p)) = p
  BY NewestIsSeq
<1>2. SubSeq(Newest(p, n), 1, n) = Newest(p, n)
  BY BeginningOfNewest
<1>3. SubSeq(Newest(p, p), 1, n) = Newest(p, n)
  BY BeginningOfNewest
<1> QED
  BY <1>1, <1>2, <1>3 DEF IsPrefix

LEMMA JoinedIs ==
    ASSUME NEW s \in Seq(Int), NEW t \in Seq(Int)
    PROVE  /\ s \o t \in Seq(Int) /\ Len(s \o t) = Len(s) + Len(t)
           /\ \A i \in 1..(Len(s) + Len(t)) :
                 (s \o t)[i] = IF i <= Len(s) THEN s[i] ELSE t[i - Len(s)]
BY ConcatProperties, Zenon

\* What makeQuery's callback appends to a beginning of the newest posts.
LEMMA ExtendedIsNewest ==
    ASSUME NEW p \in Nat, NEW m \in Nat, NEW n \in Nat
    PROVE  LET s == Newest(p, m)
               t == Newest(p, n)
           IN  s \o SubSeq(t, Len(s) + 1, Len(t)) = Newest(p, Most(m, n))
<1> DEFINE s == Newest(p, m)
           t == Newest(p, n)
<1> SUFFICES s \o SubSeq(t, Len(s) + 1, Len(t)) = Newest(p, Most(m, n))
  OBVIOUS
<1>0. s = Newest(p, m) /\ t = Newest(p, n)
  OBVIOUS
<1>1. /\ s \in Seq(Int) /\ Len(s) = m /\ \A i \in 1..m : s[i] = p + 1 - i
      /\ t \in Seq(Int) /\ Len(t) = n /\ \A i \in 1..n : t[i] = p + 1 - i
  BY NewestIsSeq
<1> HIDE DEF s, t
<1>2. CASE m < n
  <2> DEFINE rest == SubSeq(t, m + 1, n)
  <2>1. m <= n /\ n <= Len(t)
    BY <1>1, <1>2
  <2>2. /\ rest \in Seq(Int) /\ Len(rest) = n - m
        /\ \A i \in 1..(n - m) : rest[i] = t[m + i]
    BY <1>1, <2>1, PartOfNewest
  <2>3. Len(rest) = n - m /\ \A i \in 1..(n - m) : rest[i] = p + 1 - (m + i)
    BY <1>1, <1>2, <2>2
  <2> HIDE DEF rest
  <2>4. /\ s \o rest \in Seq(Int) /\ Len(s \o rest) = Len(s) + Len(rest)
        /\ \A i \in 1..(Len(s) + Len(rest)) :
              (s \o rest)[i] = IF i <= Len(s) THEN s[i] ELSE rest[i - Len(s)]
    BY <1>1, <2>2, JoinedIs
  <2>5. Len(s \o rest) = n
    BY <1>1, <2>3, <2>4
  <2>6. ASSUME NEW i \in 1..n PROVE (s \o rest)[i] = p + 1 - i
    <3>1. i \in 1..(Len(s) + Len(rest))
      BY <1>1, <2>3
    <3>2. CASE i <= m
      BY <1>1, <2>4, <3>1, <3>2
    <3>3. CASE ~(i <= m)
      <4>1. i - m \in 1..(n - m)
        BY <3>3
      <4>2. (s \o rest)[i] = rest[i - m]
        BY <1>1, <2>4, <3>1, <3>3
      <4> QED
        BY <2>3, <4>1, <4>2
    <3> QED
      BY <3>2, <3>3
  <2>7. s \o rest = Newest(p, n)
    BY <2>4, <2>5, <2>6, NewestEqual
  <2> QED
    BY <1>0, <1>1, <1>2, <2>7 DEF rest, Most
<1>3. CASE ~(m < n)
  <2>1. SubSeq(t, m + 1, n) = <<>>
    BY <1>3, SubSeqEmpty
  <2>2. s \o <<>> = s
    BY <1>1, ConcatEmptySeq
  <2> QED
    BY <1>0, <1>1, <1>3, <2>1, <2>2 DEF Most
<1> QED
  BY <1>2, <1>3

LEMMA NothingIsNewest ==
    ASSUME NEW p \in Nat
    PROVE  Newest(p, 0) = <<>>
BY DEF Newest

-----------------------------------------------------------------------------
\* The beginnings of the list of posts with at most c posts.
Beginnings(p, c) == {Newest(p, n) : n \in 0..Least(c, p)}

StateOK ==
    /\ posts \in Nat /\ didPosts \in Nat /\ faults \in Nat
    /\ isForYou \in BOOLEAN /\ isGlobal \in BOOLEAN
    /\ left \in BOOLEAN /\ disturbed \in BOOLEAN
    /\ ~(isForYou /\ isGlobal)
    /\ ~left => isGlobal /\ postCount \in Nat
    /\ didPosts # 0 => posts # 0

\* The feed of a user who has not left it, whatever he taps.
Ordered ==
    ~left /\ ~disturbed =>
        /\ postArray \in Beginnings(posts, posts)
        /\ \A q \in queries : q.global /\ q.limit \in Nat
        /\ \A a \in answers : a.found \in Beginnings(posts, posts)

\* A patient user posts again only when the feed has been told of the last post.
OnePost ==
    scenario.patient => didPosts \in {0, 1} /\ (didPosts = 1 => disturbed)

Asked == \E q \in queries : q.limit = postCount
Answered == \E a \in answers : a.found = Newest(posts, Least(postCount, posts))

\* For a patient user all that is missing of the global feed is on its way, and
\* homeArray is what a return to it begins with.
HomeOK ==
    /\ homeArray = postArray \/ (postArray = <<>> /\ posts # 0)
    /\ postCount \in Nat /\ Incre <= postCount
    /\ postArray \in Beginnings(posts, postCount)
    /\ \A q \in queries : q.global /\ q.limit \in Nat /\ q.limit <= postCount
    /\ \A a \in answers : a.found \in Beginnings(posts, postCount)
    /\ postArray = Newest(posts, Least(postCount, posts)) \/ Asked \/ Answered

\* Is the global feed shown, in an array that can be extended?
Shown == isGlobal /\ "post" \notin nils

Complete ==
    scenario.patient /\ ~disturbed /\ faults = 0 =>
        IF Shown THEN HomeOK ELSE homeArray \in Beginnings(posts, posts)

\* An array that is nil has no entries, and the global feed shows nil only
\* where homeArray is nil as well.
NilsOK ==
    /\ nils \subseteq {"post", "home", "following"}
    /\ "post" \in nils => postArray = <<>>
    /\ "home" \in nils => homeArray = <<>>
    /\ "following" \in nils => followingArray = <<>>
    /\ isGlobal /\ "post" \in nils => "home" \in nils

IInv == StateOK /\ Ordered /\ OnePost /\ Complete /\ NilsOK

-----------------------------------------------------------------------------
\* A global query's answer.
LEMMA FoundGlobal ==
    ASSUME StateOK, NEW q, q.global, q.limit \in Nat
    PROVE  Found(q) = Newest(posts, Least(q.limit, posts))
<1>1. NewestFirst = Newest(posts, posts)
  BY DEF NewestFirst, Newest
<1>2. posts \in Nat
  BY DEF StateOK
<1>3. Found(q) = FirstOf(NewestFirst, q.limit)
  BY DEF Found
<1> QED
  BY <1>1, <1>2, <1>3, FirstOfNewest

LEMMA ExtendedBeginning ==
    ASSUME NEW p \in Nat, NEW c \in Nat,
           NEW s \in Beginnings(p, c), NEW t \in Beginnings(p, c)
    PROVE  /\ s \o SubSeq(t, Len(s) + 1, Len(t)) \in Beginnings(p, c)
           /\ t = Newest(p, Least(c, p)) \/ s = Newest(p, Least(c, p)) =>
                 s \o SubSeq(t, Len(s) + 1, Len(t)) = Newest(p, Least(c, p))
           /\ Len(s) = Len(t) => s = t
<1>1. PICK m \in 0..Least(c, p) : s = Newest(p, m)
  BY DEF Beginnings
<1>2. PICK n \in 0..Least(c, p) : t = Newest(p, n)
  BY DEF Beginnings
<1>3. m \in Nat /\ n \in Nat /\ Least(c, p) \in Nat
  BY DEF Least
<1>4. s \o SubSeq(t, Len(s) + 1, Len(t)) = Newest(p, Most(m, n))
  <2>1. Newest(p, m) \o SubSeq(Newest(p, n), Len(Newest(p, m)) + 1, Len(Newest(p, n)))
            = Newest(p, Most(m, n))
    BY <1>3, ExtendedIsNewest
  <2> QED
    BY <1>1, <1>2, <2>1
<1>5. Len(s) = m /\ Len(t) = n /\ Len(Newest(p, Least(c, p))) = Least(c, p)
  BY <1>1, <1>2, <1>3, NewestIsSeq
<1>6. Most(m, n) \in 0..Least(c, p)
  BY <1>3 DEF Most
<1>7. ASSUME t = Newest(p, Least(c, p)) \/ s = Newest(p, Least(c, p))
      PROVE  Most(m, n) = Least(c, p)
  BY <1>3, <1>5, <1>7 DEF Most
<1> QED
  BY <1>1, <1>2, <1>4, <1>5, <1>6, <1>7 DEF Beginnings

LEMMA BeginningsGrow ==
    ASSUME NEW p \in Nat, NEW c \in Nat, NEW d \in Nat, c <= d
    PROVE  Beginnings(p, c) \subseteq Beginnings(p, d)
<1>1. Least(c, p) \in Nat /\ Least(d, p) \in Nat /\ Least(c, p) <= Least(d, p)
  BY DEF Least
<1> QED
  BY <1>1 DEF Beginnings

LEMMA NothingIsBeginning ==
    ASSUME NEW p \in Nat, NEW c \in Nat
    PROVE  <<>> \in Beginnings(p, c)
<1>1. 0 \in 0..Least(c, p)
  BY DEF Least
<1> QED
  BY <1>1, NothingIsNewest DEF Beginnings

LEMMA BeginningOfAll ==
    ASSUME NEW p \in Nat, NEW c \in Nat
    PROVE  /\ Newest(p, Least(c, p)) \in Beginnings(p, c)
           /\ Beginnings(p, c) \subseteq Beginnings(p, p)
<1>1. Least(c, p) \in 0..Least(c, p) /\ 0..Least(c, p) \subseteq 0..Least(p, p)
  BY DEF Least
<1> QED
  BY <1>1 DEF Beginnings

-----------------------------------------------------------------------------
LEMMA IInvInit == Init => IInv
<1> SUFFICES ASSUME Init PROVE IInv
  OBVIOUS
<1>1. posts \in Nat
  BY ScenariosType DEF Init
<1>2. Incre \in Nat /\ Incre <= Incre
  BY IncreType
<1>3. StateOK
  BY <1>1, <1>2 DEF Init, StateOK
<1>7. OnePost
  BY DEF Init, OnePost
<1>4. <<>> \in Beginnings(posts, posts) /\ <<>> \in Beginnings(posts, Incre)
  BY <1>1, <1>2, NothingIsBeginning
<1>5. Ordered
  BY <1>2, <1>4 DEF Init, Ordered
<1>6. HomeOK
  BY <1>2, <1>4 DEF Init, HomeOK, Asked
<1>8. NilsOK
  BY DEF Init, NilsOK
<1>9. Shown
  BY DEF Init, Shown
<1> QED
  BY <1>3, <1>5, <1>6, <1>7, <1>8, <1>9 DEF IInv, Complete

LEMMA StateNext == IInv /\ [Next]_vars => StateOK' /\ OnePost'
<1> SUFFICES ASSUME IInv, [Next]_vars PROVE StateOK' /\ OnePost'
  OBVIOUS
<1> USE IncreType DEF IInv, StateOK, OnePost
<1>1. CASE ViewDidAppear
  BY <1>1 DEF ViewDidAppear, feedVars
<1>2. CASE ToFollowing
  BY <1>2 DEF ToFollowing
<1>3. CASE ToSuggested
  BY <1>3 DEF ToSuggested
<1>4. CASE ToGlobal
  BY <1>4 DEF ToGlobal
<1>5. CASE Refresh
  BY <1>5 DEF Refresh, feedVars
<1>6. CASE ReachBottom
  BY <1>6 DEF ReachBottom, feedVars
<1>7. CASE NewPost
  BY <1>7 DEF NewPost, feedVars, UserMayAct, Quiet
<1>8. CASE DidPost
  BY <1>8 DEF DidPost, feedVars
<1>9. CASE AddPage
  BY <1>9 DEF AddPage, feedVars
<1>10. CASE FirstPage
  BY <1>10 DEF FirstPage, feedVars
<1>11. ASSUME NEW q \in queries, ExecuteQuery(q) PROVE StateOK' /\ OnePost'
  BY <1>11 DEF ExecuteQuery, feedVars
<1>12. ASSUME NEW q \in queries, QueryFails(q) PROVE StateOK' /\ OnePost'
  BY <1>12 DEF QueryFails, feedVars
<1>13. ASSUME NEW a \in answers, ShowAnswer(a) PROVE StateOK' /\ OnePost'
  BY <1>13 DEF ShowAnswer, feedVars
<1>14. CASE FollowersLoaded
  BY <1>14 DEF FollowersLoaded, feedVars
<1>15. CASE LoadFollowersFails
  BY <1>15 DEF LoadFollowersFails, feedVars
<1>16. CASE UNCHANGED vars
  BY <1>16 DEF vars, feedVars
<1> QED
  BY <1>1, <1>2, <1>3, <1>4, <1>5, <1>6, <1>7, <1>8, <1>9, <1>10, <1>11, <1>12,
     <1>13, <1>14, <1>15, <1>16 DEF Next

LEMMA NilsNext == IInv /\ [Next]_vars => NilsOK'
<1> SUFFICES ASSUME NilsOK, ~(isForYou /\ isGlobal), [Next]_vars PROVE NilsOK'
  BY DEF IInv, StateOK
<1>1. CASE ToFollowing
  BY <1>1 DEF ToFollowing, NilsOK, Copied
<1>2. CASE ToSuggested
  BY <1>2 DEF ToSuggested, NilsOK
<1>3. CASE ToGlobal
  BY <1>3 DEF ToGlobal, ArrayOfGlobal, NilsOK, Copied
<1>4. CASE DidPost
  BY <1>4 DEF DidPost, ClearedArray, NilsOK, feedVars
<1>5. CASE FirstPage
  BY <1>5 DEF FirstPage, NilsOK, feedVars
<1>6. CASE FollowersLoaded
  BY <1>6 DEF FollowersLoaded, NilsOK, feedVars
<1>7. ASSUME NEW a \in answers, ShowAnswer(a) PROVE NilsOK'
  <2>1. isGlobal' = isGlobal
    BY <1>7 DEF ShowAnswer, feedVars
  <2>2. CASE Len(postArray) = Len(a.found)
    BY <1>7, <2>1, <2>2 DEF ShowAnswer, NilsOK, arrayVars
  <2>3. CASE Len(postArray) # Len(a.found)
    <3>1. /\ postArray' = Extended(a.found)
          /\ homeArray' = IF isGlobal THEN postArray' ELSE homeArray
          /\ followingArray' = IF isGlobal THEN followingArray ELSE postArray'
          /\ nils' = Copied("post", IF isGlobal THEN "home" ELSE "following")
      BY <1>7, <2>3 DEF ShowAnswer
    <3>2. "post" \in nils => postArray' = <<>>
      BY <3>1 DEF Extended, NilsOK
    <3> QED
      BY <2>1, <3>1, <3>2 DEF NilsOK, Copied
  <2> QED
    BY <2>2, <2>3
<1>8. CASE UNCHANGED <<feedVars, arrayVars>>
  BY <1>8 DEF feedVars, arrayVars, NilsOK
<1>9. CASE \/ ViewDidAppear \/ Refresh \/ ReachBottom \/ NewPost \/ AddPage
           \/ LoadFollowersFails \/ UNCHANGED vars
  BY <1>8, <1>9 DEF ViewDidAppear, Refresh, ReachBottom, NewPost, AddPage, LoadFollowersFails, vars
<1>10. ASSUME NEW q \in queries, ExecuteQuery(q) \/ QueryFails(q) PROVE NilsOK'
  BY <1>8, <1>10 DEF ExecuteQuery, QueryFails
<1> QED
  BY <1>1, <1>2, <1>3, <1>4, <1>5, <1>6, <1>7, <1>9, <1>10 DEF Next

-----------------------------------------------------------------------------
\* What makeQuery adds while the global feed is shown.
LEMMA QueryAdded ==
    ASSUME NEW limit, MakeQuery(FALSE, TRUE, limit)
    PROVE  /\ queries' = queries \cup {[no |-> taps, global |-> TRUE, limit |-> limit,
                                        authors |-> {}]}
           /\ answers' = answers
BY DEF MakeQuery

\* Nothing of the ordering changes.
OrderVars == <<posts, postArray, queries, answers, disturbed, left>>

LEMMA OrderedNext == IInv /\ [Next]_vars => Ordered'
<1> SUFFICES ASSUME IInv, [Next]_vars, ~left', ~disturbed' PROVE Ordered'
  BY DEF Ordered
<1> DEFINE Goal == /\ postArray' \in Beginnings(posts', posts')
                   /\ \A q \in queries' : q.global /\ q.limit \in Nat
                   /\ \A a \in answers' : a.found \in Beginnings(posts', posts')
<1> SUFFICES Goal
  BY DEF Ordered
<1>0. /\ StateOK /\ Ordered /\ posts \in Nat
      /\ ~left => isGlobal /\ ~isForYou /\ postCount \in Nat
      /\ Incre \in Nat
  BY IncreType DEF IInv, StateOK
<1>1. CASE UNCHANGED OrderVars
  BY <1>0, <1>1 DEF Ordered, OrderVars
<1>2. CASE ToFollowing \/ ToSuggested
  BY <1>2 DEF ToFollowing, ToSuggested
<1>3. CASE ToGlobal
  BY <1>0, <1>3 DEF ToGlobal
<1>4. CASE Refresh
  <2>1. UNCHANGED <<posts, postArray, disturbed, left>> /\ MakeQuery(isForYou, isGlobal, postCount)
    BY <1>4 DEF Refresh, arrayVars
  <2>2. isGlobal = TRUE /\ isForYou = FALSE /\ postCount \in Nat
    BY <1>0, <2>1 DEF StateOK
  <2>3. queries' = queries \cup {[no |-> taps, global |-> TRUE, limit |-> postCount, authors |-> {}]}
        /\ answers' = answers
    BY <2>1, <2>2, QueryAdded
  <2> QED
    BY <1>0, <2>1, <2>2, <2>3 DEF Ordered
<1>5. CASE ReachBottom
  <2>1. /\ UNCHANGED <<posts, postArray, disturbed, left>>
        /\ MakeQuery(FALSE, isGlobal, postCount') /\ postCount' = postCount + Incre
    BY <1>5 DEF ReachBottom, arrayVars
  <2>2. isGlobal = TRUE /\ postCount' \in Nat
    BY <1>0, <2>1 DEF StateOK
  <2>3. queries' = queries \cup {[no |-> taps, global |-> TRUE, limit |-> postCount', authors |-> {}]}
        /\ answers' = answers
    BY <2>1, <2>2, QueryAdded
  <2> QED
    BY <1>0, <2>1, <2>2, <2>3 DEF Ordered
<1>6. CASE NewPost
  BY <1>6 DEF NewPost
<1>7. CASE DidPost
  <2>1. /\ UNCHANGED <<posts, left>> /\ postArray' = <<>>
        /\ MakeQuery(isForYou, isGlobal, Incre)
        /\ disturbed => queries = {} /\ answers = {}
    BY <1>7 DEF DidPost, ClearedArray
  <2>2. isGlobal = TRUE /\ isForYou = FALSE
    BY <1>0, <2>1 DEF StateOK
  <2>3. queries' = queries \cup {[no |-> taps, global |-> TRUE, limit |-> Incre, authors |-> {}]}
        /\ answers' = answers
    BY <2>1, <2>2, QueryAdded
  <2>4. postArray' \in Beginnings(posts', posts')
    BY <1>0, <2>1, NothingIsBeginning
  <2> QED
    BY <1>0, <2>1, <2>3, <2>4 DEF Ordered
<1>8. CASE FirstPage
  BY <1>0, <1>8 DEF FirstPage, Ordered, requestVars
<1>9. ASSUME NEW q \in queries, ExecuteQuery(q) PROVE Goal
  <2>1. /\ UNCHANGED <<posts, postArray, disturbed, left>> /\ queries' \subseteq queries
        /\ answers' = answers \cup {[no |-> q.no, found |-> Found(q)]}
    BY <1>9 DEF ExecuteQuery, arrayVars
  <2>2. q.global /\ q.limit \in Nat
    BY <1>0, <2>1 DEF Ordered
  <2>3. Found(q) \in Beginnings(posts, posts)
    BY <1>0, <2>2, FoundGlobal, BeginningOfAll
  <2> QED
    BY <1>0, <2>1, <2>3 DEF Ordered
<1>10. ASSUME NEW q \in queries, QueryFails(q) PROVE Goal
  <2>1. /\ UNCHANGED <<posts, postArray, disturbed, left>> /\ queries' \subseteq queries
        /\ answers' = answers \cup {[no |-> q.no, found |-> <<>>]}
    BY <1>10 DEF QueryFails, arrayVars
  <2>2. <<>> \in Beginnings(posts, posts)
    BY <1>0, NothingIsBeginning
  <2> QED
    BY <1>0, <2>1, <2>2 DEF Ordered
<1>11. ASSUME NEW a \in answers, ShowAnswer(a) PROVE Goal
  <2>1. /\ UNCHANGED <<posts, queries, disturbed, left>> /\ answers' \subseteq answers
        /\ \/ postArray' = postArray
           \/ postArray' = postArray \o SubSeq(a.found, Len(postArray) + 1, Len(a.found))
    BY <1>11 DEF ShowAnswer, Extended, arrayVars
  <2>2. postArray \in Beginnings(posts, posts) /\ a.found \in Beginnings(posts, posts)
    BY <1>0, <2>1 DEF Ordered
  <2>3. postArray \o SubSeq(a.found, Len(postArray) + 1, Len(a.found))
            \in Beginnings(posts, posts)
    BY <1>0, <2>2, ExtendedBeginning, Zenon
  <2> QED
    BY <1>0, <2>1, <2>2, <2>3 DEF Ordered
<1>12. ViewDidAppear \/ AddPage \/ FollowersLoaded \/ LoadFollowersFails \/ UNCHANGED vars
          => UNCHANGED OrderVars
  BY DEF ViewDidAppear, AddPage, FollowersLoaded, LoadFollowersFails, vars, OrderVars,
         arrayVars, requestVars
<1> QED
  BY <1>1, <1>2, <1>3, <1>4, <1>5, <1>6, <1>7, <1>8, <1>9, <1>10, <1>11, <1>12 DEF Next

-----------------------------------------------------------------------------
\* When nothing is under way, what the user sees is what homeArray has.
LEMMA HomeWhenQuiet ==
    ASSUME StateOK, HomeOK, queries = {}, answers = {}
    PROVE  /\ homeArray = postArray
           /\ postArray = Newest(posts, Least(postCount, posts))
           /\ homeArray \in Beginnings(posts, posts)
<1>1. posts \in Nat /\ postCount \in Nat /\ Incre \in Nat \ {0} /\ Incre <= postCount
  BY IncreType DEF StateOK, HomeOK
<1>2. postArray = Newest(posts, Least(postCount, posts))
  BY DEF HomeOK, Asked, Answered
<1>3. Least(postCount, posts) \in Nat /\ (posts # 0 => Least(postCount, posts) # 0)
  BY <1>1 DEF Least
<1>4. Len(postArray) = Least(postCount, posts) /\ Len(<<>>) = 0
  BY <1>1, <1>2, <1>3, NewestIsSeq
<1>5. homeArray = postArray
  BY <1>3, <1>4 DEF HomeOK
<1> QED
  BY <1>1, <1>2, <1>5, BeginningOfAll

HomeVars == <<posts, postCount, postArray, homeArray, queries, answers>>

\* A query for all that is to be shown makes good what is missing.
LEMMA AskedForAll ==
    ASSUME StateOK, HomeOK, NEW d \in Nat, postCount <= d, postCount' = d,
           MakeQuery(FALSE, TRUE, d), UNCHANGED <<posts, postArray, homeArray>>
    PROVE  HomeOK'
<1>1. /\ posts \in Nat /\ postCount \in Nat /\ Incre \in Nat /\ Incre <= postCount
      /\ postArray \in Beginnings(posts, postCount)
  BY IncreType DEF StateOK, HomeOK
<1>2. Beginnings(posts, postCount) \subseteq Beginnings(posts, d)
  BY <1>1, BeginningsGrow
<1>3. /\ queries' = queries \cup {[no |-> taps, global |-> TRUE, limit |-> d, authors |-> {}]}
      /\ answers' = answers
  BY QueryAdded
<1>4. \A q \in queries' : q.global /\ q.limit \in Nat /\ q.limit <= d
  BY <1>1, <1>3 DEF HomeOK
<1>5. \A a \in answers' : a.found \in Beginnings(posts', d)
  BY <1>2, <1>3 DEF HomeOK
<1>6. Asked'
  <2> DEFINE query == [no |-> taps, global |-> TRUE, limit |-> d, authors |-> {}]
  <2>1. query \in queries' /\ query.limit = d
    BY <1>3
  <2> HIDE DEF query
  <2>2. \E q \in queries' : q.limit = d
    BY <2>1
  <2> QED
    BY <2>2 DEF Asked
<1>7. homeArray' = postArray' \/ (postArray' = <<>> /\ posts' # 0)
  BY DEF HomeOK
<1>8. postArray' \in Beginnings(posts', d) /\ Incre <= d
  BY <1>1, <1>2
<1> QED
  BY <1>4, <1>5, <1>6, <1>7, <1>8 DEF HomeOK

LEMMA ExecutedHome ==
    ASSUME StateOK, HomeOK, NEW q \in queries, ExecuteQuery(q) PROVE HomeOK'
<1>1. /\ UNCHANGED <<posts, postCount, postArray, homeArray>>
      /\ queries' = queries \ {q}
      /\ answers' = answers \cup {[no |-> q.no, found |-> Found(q)]}
  BY DEF ExecuteQuery, arrayVars
<1>2. /\ posts \in Nat /\ postCount \in Nat
      /\ q.global /\ q.limit \in Nat /\ q.limit <= postCount
  BY DEF StateOK, HomeOK
<1>3. Found(q) = Newest(posts, Least(q.limit, posts))
  BY <1>2, FoundGlobal
<1>4. Found(q) \in Beginnings(posts, postCount)
  BY <1>2, <1>3, BeginningOfAll, BeginningsGrow
<1>5. Asked => Asked' \/ Answered'
  <2>1. ASSUME NEW r \in queries, r.limit = postCount PROVE Asked' \/ Answered'
    <3>1. CASE r = q
      <4>1. Found(q) = Newest(posts, Least(postCount, posts))
        BY <1>3, <2>1, <3>1
      <4>2. [no |-> q.no, found |-> Found(q)] \in answers'
        BY <1>1
      <4> QED
        BY <1>1, <4>1, <4>2 DEF Answered
    <3>2. CASE r # q
      BY <1>1, <2>1, <3>2 DEF Asked
    <3> QED
      BY <3>1, <3>2
  <2> QED
    BY <2>1 DEF Asked
<1>6. Answered => Answered'
  BY <1>1 DEF Answered
<1>7. \A a \in answers' : a.found \in Beginnings(posts', postCount')
  BY <1>1, <1>4 DEF HomeOK
<1>8. /\ homeArray' = postArray' \/ (postArray' = <<>> /\ posts' # 0)
      /\ postCount' \in Nat /\ Incre <= postCount'
      /\ postArray' \in Beginnings(posts', postCount')
      /\ \A r \in queries' : r.global /\ r.limit \in Nat /\ r.limit <= postCount'
  BY <1>1 DEF HomeOK
<1>9. postArray' = Newest(posts', Least(postCount', posts')) \/ Asked' \/ Answered'
  BY <1>1, <1>5, <1>6 DEF HomeOK
<1> QED
  BY <1>7, <1>8, <1>9 DEF HomeOK

LEMMA ShownHome ==
    ASSUME StateOK, HomeOK, Shown, NEW a \in answers, ShowAnswer(a) PROVE HomeOK'
<1> DEFINE longer == postArray \o SubSeq(a.found, Len(postArray) + 1, Len(a.found))
           all == Newest(posts, Least(postCount, posts))
<1>1. /\ UNCHANGED <<posts, postCount, queries>>
      /\ answers' = answers \ {a}
      /\ IF Len(postArray) = Len(a.found)
         THEN postArray' = postArray /\ homeArray' = homeArray
         ELSE postArray' = longer /\ homeArray' = postArray'
  BY DEF ShowAnswer, Extended, Shown, arrayVars
<1>2. /\ posts \in Nat /\ postCount \in Nat /\ Incre <= postCount
      /\ postArray \in Beginnings(posts, postCount)
      /\ a.found \in Beginnings(posts, postCount)
  BY DEF StateOK, HomeOK
<1>3. /\ longer \in Beginnings(posts, postCount)
      /\ a.found = all \/ postArray = all => longer = all
      /\ Len(postArray) = Len(a.found) => postArray = a.found
  BY <1>2, ExtendedBeginning, Zenon
<1> HIDE DEF longer, all
<1>4. postArray' \in Beginnings(posts', postCount')
  BY <1>1, <1>2, <1>3
<1>5. homeArray' = postArray' \/ (postArray' = <<>> /\ posts' # 0)
  BY <1>1 DEF HomeOK
<1>6. \A b \in answers' : b.found \in Beginnings(posts', postCount')
  BY <1>1 DEF HomeOK
<1>7. \A q \in queries' : q.global /\ q.limit \in Nat /\ q.limit <= postCount'
  BY <1>1 DEF HomeOK
<1>8. postArray' = all \/ Asked' \/ Answered'
  <2>1. CASE postArray = all \/ a.found = all
    BY <1>1, <1>3, <2>1
  <2>2. CASE Asked
    BY <1>1, <2>2 DEF Asked
  <2>3. ASSUME NEW b \in answers, b.found = all PROVE postArray' = all \/ Answered'
    <3>1. CASE b = a
      BY <1>1, <1>3, <2>3, <3>1
    <3>2. CASE b # a
      BY <1>1, <2>3, <3>2 DEF Answered, all
    <3> QED
      BY <3>1, <3>2
  <2> QED
    BY <2>1, <2>2, <2>3 DEF HomeOK, Answered, all
<1> QED
  BY <1>1, <1>2, <1>4, <1>5, <1>6, <1>7, <1>8 DEF HomeOK, all

\* A post of the user's own, when the feed is told of it with nothing under way.
LEMMA ClearedHome ==
    ASSUME StateOK, isGlobal, DidPost, queries = {}, answers = {} PROVE HomeOK'
<1>1. /\ posts \in Nat /\ posts # 0 /\ Incre \in Nat
      /\ isGlobal = TRUE /\ isForYou = FALSE
  BY IncreType DEF StateOK, DidPost
<1>2. /\ posts' = posts /\ postCount' = Incre /\ postArray' = <<>>
      /\ MakeQuery(FALSE, TRUE, Incre)
  BY <1>1 DEF DidPost, ClearedArray
<1>3. /\ queries' = queries \cup {[no |-> taps, global |-> TRUE, limit |-> Incre, authors |-> {}]}
      /\ answers' = answers
  BY <1>2, QueryAdded
<1>4. <<>> \in Beginnings(posts, Incre)
  BY <1>1, NothingIsBeginning
<1>5. \E q \in queries' : q.limit = Incre
  BY <1>3
<1>6. Asked'
  BY <1>2, <1>5 DEF Asked
<1>7. \A q \in queries' : q.global /\ q.limit \in Nat /\ q.limit <= Incre
  BY <1>1, <1>3
<1> QED
  BY <1>1, <1>2, <1>3, <1>4, <1>6, <1>7 DEF HomeOK

LEMMA CompleteNext == IInv /\ [Next]_vars => Complete'
<1> DEFINE Steady == scenario.patient /\ ~disturbed /\ faults = 0
           Kept == IF Shown THEN HomeOK ELSE homeArray \in Beginnings(posts, posts)
           FeedVars == <<Shown, HomeVars>>
<1> SUFFICES ASSUME IInv, [Next]_vars, Steady' PROVE Kept'
  BY DEF Complete
<1>0. /\ StateOK /\ OnePost /\ (Steady => Kept) /\ NilsOK /\ NilsOK'
      /\ posts \in Nat /\ faults \in Nat /\ Incre \in Nat
  BY IncreType, NilsNext DEF IInv, StateOK, Complete
\* Where nil is shown, homeArray has no posts.
<1>16. ASSUME isGlobal', ~Shown' PROVE Kept'
  <2>1. homeArray' = <<>> /\ posts' \in Nat
    BY <1>0, <1>16, StateNext DEF Shown, NilsOK, StateOK
  <2>2. homeArray' \in Beginnings(posts', posts')
    BY <2>1, NothingIsBeginning
  <2> QED
    BY <1>16, <2>2
<1>1. UNCHANGED <<scenario, disturbed, faults>> => Steady
  OBVIOUS
<1>2. ASSUME Steady, UNCHANGED FeedVars PROVE Kept'
  BY <1>0, <1>2 DEF HomeVars, HomeOK, Asked, Answered
<1>3. ASSUME Steady, Quiet PROVE homeArray \in Beginnings(posts, posts)
  BY <1>0, <1>3, HomeWhenQuiet DEF Quiet
<1>4. CASE ToFollowing \/ ToSuggested
  <2>1. /\ UNCHANGED <<scenario, disturbed, faults, posts, homeArray>> /\ isGlobal' = FALSE
        /\ scenario.patient => Quiet
    BY <1>4 DEF ToFollowing, ToSuggested, UserMayAct
  <2>2. homeArray \in Beginnings(posts, posts)
    BY <1>1, <1>3, <2>1
  <2> QED
    BY <2>1, <2>2 DEF Shown
<1>5. CASE ToGlobal
  <2>1. /\ UNCHANGED <<scenario, disturbed, faults, posts, homeArray>>
        /\ isGlobal = FALSE /\ isGlobal' = TRUE
        /\ Quiet
        /\ postCount' = Len(homeArray) + Incre /\ postArray' = homeArray
        /\ MakeQuery(FALSE, TRUE, postCount')
    BY <1>0, <1>5 DEF ToGlobal, UserMayAct, ArrayOfGlobal, StateOK
  <2>2. homeArray \in Beginnings(posts, posts)
    BY <1>1, <1>3, <2>1
  <2>3. PICK n \in 0..Least(posts, posts) : homeArray = Newest(posts, n)
    BY <2>2 DEF Beginnings
  <2>4. n \in Nat /\ n <= posts
    BY <1>0, <2>3 DEF Least
  <2>5. Len(homeArray) = n /\ postCount' = n + Incre /\ postCount' \in Nat
    BY <1>0, <2>1, <2>3, <2>4, NewestIsSeq
  <2>6. n \in 0..Least(postCount', posts) /\ Incre <= postCount'
    BY <1>0, <2>4, <2>5 DEF Least
  <2>7. postArray' \in Beginnings(posts', postCount')
    BY <2>1, <2>3, <2>6 DEF Beginnings
  <2>8. queries' = {[no |-> taps, global |-> TRUE, limit |-> postCount', authors |-> {}]}
        /\ answers' = {}
    BY <2>1, QueryAdded DEF Quiet
  <2>9. \E q \in queries' : q.limit = postCount'
    BY <2>8
  <2>10. Asked'
    BY <2>9 DEF Asked
  <2>11. \A q \in queries' : q.global /\ q.limit \in Nat /\ q.limit <= postCount'
    BY <2>5, <2>8
  <2> QED
    BY <1>16, <2>1, <2>5, <2>6, <2>7, <2>8, <2>10, <2>11 DEF HomeOK
<1>6. CASE Refresh
  <2>1. /\ UNCHANGED <<scenario, disturbed, faults, isGlobal, isForYou, nils, posts, postCount,
                       postArray, homeArray>>
        /\ MakeQuery(isForYou, isGlobal, postCount)
    BY <1>6 DEF Refresh, arrayVars, feedVars
  <2>2. CASE Shown
    <3>1. isGlobal = TRUE /\ isForYou = FALSE /\ HomeOK
      BY <1>0, <1>1, <2>1, <2>2 DEF StateOK, Shown
    <3>2. postCount \in Nat /\ postCount <= postCount
      BY <3>1 DEF HomeOK
    <3>3. HomeOK'
      BY <1>0, <2>1, <3>1, <3>2, AskedForAll
    <3> QED
      BY <2>1, <2>2, <3>3 DEF Shown
  <2>3. CASE ~Shown
    BY <1>0, <1>1, <2>1, <2>3 DEF Shown
  <2> QED
    BY <2>2, <2>3
<1>7. CASE ReachBottom
  <2>1. /\ UNCHANGED <<scenario, disturbed, faults, isGlobal, nils, posts, postArray, homeArray>>
        /\ MakeQuery(FALSE, isGlobal, postCount') /\ postCount' = postCount + Incre
    BY <1>7 DEF ReachBottom, arrayVars, feedVars
  <2>2. CASE Shown
    <3>1. isGlobal = TRUE /\ HomeOK
      BY <1>0, <1>1, <2>1, <2>2 DEF StateOK, Shown
    <3>2. postCount' \in Nat /\ postCount <= postCount'
      BY <1>0, <2>1, <3>1 DEF HomeOK
    <3>3. HomeOK'
      BY <1>0, <2>1, <3>1, <3>2, AskedForAll
    <3> QED
      BY <2>1, <2>2, <3>3 DEF Shown
  <2>3. CASE ~Shown
    BY <1>0, <1>1, <2>1, <2>3 DEF Shown
  <2> QED
    BY <2>2, <2>3
<1>8. CASE NewPost
  BY <1>8 DEF NewPost
<1>9. CASE DidPost
  <2>1. /\ UNCHANGED <<scenario, faults, isGlobal, homeArray>>
        /\ didPosts # 0
        /\ disturbed' = (disturbed /\ ~(isGlobal /\ queries = {} /\ answers = {}))
    BY <1>0, <1>9 DEF DidPost, feedVars, StateOK
  <2>2. disturbed
    BY <1>0, <2>1 DEF OnePost
  <2>3. isGlobal /\ queries = {} /\ answers = {}
    BY <2>1, <2>2
  <2>4. HomeOK'
    BY <1>0, <1>9, <2>3, ClearedHome
  <2> QED
    BY <1>16, <2>1, <2>3, <2>4
<1>10. CASE FirstPage
  <2>1. UNCHANGED <<scenario, disturbed, faults, isGlobal, posts, homeArray, queries, answers>>
    BY <1>10 DEF FirstPage, feedVars, requestVars
  <2>2. isGlobal => UNCHANGED FeedVars
    BY <1>0, <1>10, <2>1 DEF FirstPage, StateOK, HomeVars, Shown
  <2>3. CASE isGlobal
    BY <1>1, <1>2, <2>1, <2>2, <2>3
  <2>4. CASE ~isGlobal
    BY <1>0, <1>1, <2>1, <2>4 DEF Shown
  <2> QED
    BY <2>3, <2>4
<1>11. ASSUME NEW q \in queries, ExecuteQuery(q) PROVE Kept'
  <2>1. UNCHANGED <<scenario, disturbed, faults, isGlobal, nils, posts, homeArray>>
    BY <1>11 DEF ExecuteQuery, feedVars, arrayVars
  <2>2. Shown => HomeOK'
    BY <1>0, <1>1, <1>11, <2>1, ExecutedHome
  <2> QED
    BY <1>0, <1>1, <2>1, <2>2 DEF Shown
<1>12. ASSUME NEW q \in queries, QueryFails(q) PROVE Kept'
  <2>1. faults' = faults + 1
    BY <1>12 DEF QueryFails
  <2> QED
    BY <1>0, <2>1
<1>13. ASSUME NEW a \in answers, ShowAnswer(a) PROVE Kept'
  <2>1. /\ UNCHANGED <<scenario, disturbed, faults, isGlobal, posts>>
        /\ ~isGlobal => UNCHANGED homeArray
    BY <1>13 DEF ShowAnswer, feedVars, arrayVars
  <2>2. Shown => HomeOK'
    BY <1>0, <1>1, <1>13, <2>1, ShownHome
  <2>3. isGlobal' = isGlobal
    BY <2>1
  <2>4. CASE Shown
    BY <1>16, <2>2, <2>3, <2>4 DEF Shown
  <2>5. CASE ~isGlobal
    BY <1>0, <1>1, <2>1, <2>5 DEF Shown
  <2>6. CASE isGlobal /\ ~Shown
    <3>1. ~Shown'
      <4>1. "post" \in nils /\ "post" \in nils'
        BY <1>13, <2>6 DEF Shown, ShowAnswer, Copied, arrayVars
      <4> QED
        BY <4>1 DEF Shown
    <3> QED
      BY <1>16, <2>3, <2>6, <3>1
  <2> QED
    BY <2>4, <2>5, <2>6 DEF Shown
<1>14. CASE LoadFollowersFails
  <2>1. faults' = faults + 1
    BY <1>14 DEF LoadFollowersFails
  <2> QED
    BY <1>0, <2>1
<1>15. CASE ViewDidAppear \/ AddPage \/ FollowersLoaded \/ UNCHANGED vars
  <2>1. UNCHANGED <<scenario, disturbed, faults>> /\ UNCHANGED FeedVars
    BY <1>15 DEF ViewDidAppear, AddPage, FollowersLoaded, vars, HomeVars, arrayVars,
                 requestVars, feedVars, Shown
  <2> QED
    BY <1>1, <1>2, <2>1
<1> QED
  BY <1>4, <1>5, <1>6, <1>7, <1>8, <1>9, <1>10, <1>11, <1>12, <1>13, <1>14, <1>15 DEF Next

-----------------------------------------------------------------------------
LEMMA IInvNext == IInv /\ [Next]_vars => IInv'
BY StateNext, OrderedNext, CompleteNext, NilsNext DEF IInv

THEOREM IInvHolds == Spec => []IInv
BY IInvInit, IInvNext, PTL DEF Spec

\* However fast a user scrolls and refreshes the global feed, and in whatever
\* order makeQuery's answers come, postArray is in order, without gaps and
\* repetitions, until a post comes that the feed was not cleared for.
THEOREM GlobalFeedInOrder == Spec => []GlobalInOrder
<1>1. IInv => GlobalInOrder
  <2> SUFFICES ASSUME IInv, ~left, ~disturbed PROVE IsPrefix(postArray, NewestFirst)
    BY DEF GlobalInOrder
  <2>1. posts \in Nat /\ postArray \in Beginnings(posts, posts)
    BY DEF IInv, StateOK, Ordered
  <2>2. PICK n \in 0..Least(posts, posts) : postArray = Newest(posts, n)
    BY <2>1 DEF Beginnings
  <2>3. n \in 0..posts
    BY <2>1, <2>2 DEF Least
  <2>4. NewestFirst = Newest(posts, posts)
    BY DEF NewestFirst, Newest
  <2> QED
    BY <2>1, <2>2, <2>3, <2>4, NewestIsPrefix
<1> QED
  BY <1>1, IInvHolds, PTL

\* A patient user finds the newest postCount posts on the global feed whenever no
\* answer is due, whatever feeds changedFeedType: has shown in between and also
\* after posting (didPost), but for the nil array that changedFeedType: makes of
\* a global feed that had shown no post when he left it.
THEOREM GlobalFeedComplete == Spec => []GlobalComplete
<1>1. IInv => GlobalComplete
  <2> SUFFICES ASSUME IInv, scenario.patient, Quiet, isGlobal, "post" \notin nils,
                      ~disturbed, faults = 0
               PROVE  postArray = FirstOf(NewestFirst, postCount)
    BY DEF GlobalComplete
  <2>1. StateOK /\ HomeOK /\ queries = {} /\ answers = {}
    BY DEF IInv, Complete, Quiet, Shown
  <2>2. postArray = Newest(posts, Least(postCount, posts))
    BY <2>1, HomeWhenQuiet
  <2>3. NewestFirst = Newest(posts, posts) /\ posts \in Nat /\ postCount \in Nat
    BY <2>1 DEF NewestFirst, Newest, StateOK, HomeOK
  <2> QED
    BY <2>2, <2>3, FirstOfNewest
<1> QED
  BY <1>1, IInvHolds, PTL

-----------------------------------------------------------------------------
(***************************************************************************)
(* What a query selects is a list of entries of the list it selects from.  *)
(***************************************************************************)
Chosen(list, set, g, i) ==
    IF i = 0 THEN <<>>
    ELSE IF list[i] \in set THEN Append(g[i - 1], list[i]) ELSE g[i - 1]
Selects(list, set, n, g) == g = [i \in 0..n |-> Chosen(list, set, g, i)]

LEMMA SelectedIs ==
    ASSUME NEW list, NEW set
    PROVE  Selected(list, set) = (CHOOSE g : Selects(list, set, Len(list), g))[Len(list)]
BY DEF Selected, Selects, Chosen

LEMMA SelectionExists ==
    ASSUME NEW list, NEW set, NEW m \in Nat
    PROVE  \E g : Selects(list, set, m, g)
<1> DEFINE N == {n \in Nat : \E g : Selects(list, set, n, g)}
<1>1. 0 \in N
  <2> DEFINE g == [i \in 0..0 |-> <<>>]
  <2>1. Selects(list, set, 0, g)
    BY DEF Selects, Chosen
  <2> HIDE DEF g
  <2> QED
    BY <2>1
<1>2. ASSUME NEW n \in N PROVE n + 1 \in N
  <2>1. PICK g : Selects(list, set, n, g)
    OBVIOUS
  <2> DEFINE h == [i \in 0..(n + 1) |-> Chosen(list, set, g, i)]
  <2>2. n \in Nat /\ 0..n \subseteq 0..(n + 1)
    OBVIOUS
  <2>3. \A i \in 0..n : h[i] = g[i]
    <3>1. \A i \in 0..n : g[i] = Chosen(list, set, g, i)
      BY <2>1 DEF Selects
    <3> QED
      BY <2>2, <3>1
  <2>4. ASSUME NEW i \in 0..(n + 1) PROVE Chosen(list, set, g, i) = Chosen(list, set, h, i)
    <3>1. CASE i = 0
      BY <3>1 DEF Chosen
    <3>2. CASE i # 0
      <4>1. i - 1 \in 0..n
        BY <2>2, <3>2
      <4>2. h[i - 1] = g[i - 1]
        BY <2>3, <4>1
      <4> HIDE DEF h
      <4> QED
        BY <4>2 DEF Chosen
    <3> QED
      BY <3>1, <3>2
  <2>5. Selects(list, set, n + 1, h)
    <3>1. h = [i \in 0..(n + 1) |-> Chosen(list, set, h, i)]
      BY <2>4
    <3> QED
      BY <3>1 DEF Selects
  <2> HIDE DEF h
  <2> QED
    BY <2>2, <2>5
<1> HIDE DEF N
<1>3. m \in N
  BY <1>1, <1>2, NatSets
<1> QED
  BY <1>3 DEF N

LEMMA SelectedWithin ==
    ASSUME NEW S, NEW list \in Seq(S), NEW set
    PROVE  Selected(list, set) \in Seq(S)
           /\ Selected(list, set) \in Seq(set)
<1>1. Len(list) \in Nat /\ \A i \in 1..Len(list) : list[i] \in S
  OBVIOUS
<1>2. PICK g : Selects(list, set, Len(list), g) /\ Selected(list, set) = g[Len(list)]
  BY <1>1, SelectedIs, SelectionExists
<1>3. \A i \in 0..Len(list) : g[i] = Chosen(list, set, g, i)
  BY <1>2 DEF Selects
<1> DEFINE N == {i \in Nat : i <= Len(list) => g[i] \in Seq(S) /\ g[i] \in Seq(set)}
<1>4. 0 \in N
  <2>1. 0 \in 0..Len(list)
    BY <1>1
  <2>2. g[0] = <<>>
    BY <1>3, <2>1 DEF Chosen
  <2>3. <<>> \in Seq(S) /\ <<>> \in Seq(set)
    OBVIOUS
  <2> QED
    BY <2>2, <2>3
<1>5. ASSUME NEW n \in N PROVE n + 1 \in N
  <2> SUFFICES ASSUME n + 1 <= Len(list) PROVE g[n + 1] \in Seq(S) /\ g[n + 1] \in Seq(set)
    OBVIOUS
  <2>1. n \in Nat /\ g[n] \in Seq(S) /\ g[n] \in Seq(set) /\ list[n + 1] \in S
    BY <1>1
  <2>2. g[n + 1] = Chosen(list, set, g, n + 1) /\ n + 1 # 0 /\ n + 1 - 1 = n
    BY <1>1, <1>3, <2>1
  <2>3. g[n + 1] = IF list[n + 1] \in set THEN Append(g[n], list[n + 1]) ELSE g[n]
    BY <2>2 DEF Chosen
  <2> QED
    BY <2>1, <2>3
<1> HIDE DEF N
<1>6. Len(list) \in N
  BY <1>1, <1>4, <1>5, NatSets
<1> QED
  BY <1>1, <1>2, <1>6 DEF N

LEMMA PartType ==
    ASSUME NEW S, NEW s \in Seq(S), NEW m \in Nat \ {0}, NEW n \in Nat, n <= Len(s)
    PROVE  SubSeq(s, m, n) \in Seq(S)
<1>1. \A i \in m..n : i \in 1..Len(s)
  OBVIOUS
<1>2. \A i \in m..n : s[i] \in S
  BY <1>1
<1> QED
  BY <1>2, SubSeqProperties

LEMMA FirstOfType ==
    ASSUME NEW S, NEW s \in Seq(S), NEW n \in Nat
    PROVE  FirstOf(s, n) \in Seq(S)
<1>1. Len(s) \in Nat
  OBVIOUS
<1> DEFINE m == IF n < Len(s) THEN n ELSE Len(s)
<1>2. m \in Nat /\ m <= Len(s)
  BY <1>1
<1> HIDE DEF m
<1>3. SubSeq(s, 1, m) \in Seq(S)
  BY <1>2, PartType, 1 \in Nat \ {0}
<1> QED
  BY <1>3 DEF FirstOf, m

LEMMA ExtendedType ==
    ASSUME NEW S, postArray \in Seq(S), NEW found \in Seq(S)
    PROVE  Extended(found) \in Seq(S)
<1>1. Len(postArray) + 1 \in Nat \ {0} /\ Len(found) \in Nat /\ Len(found) <= Len(found)
  OBVIOUS
<1>2. SubSeq(found, Len(postArray) + 1, Len(found)) \in Seq(S)
  BY <1>1, PartType
<1>3. postArray \o SubSeq(found, Len(postArray) + 1, Len(found)) \in Seq(S)
  BY <1>2
<1> QED
  BY <1>3, Zenon DEF Extended

LEMMA SeqGrows ==
    ASSUME NEW S, NEW T, S \subseteq T, NEW s \in Seq(S)
    PROVE  s \in Seq(T)
OBVIOUS

LEMMA FoundType ==
    ASSUME posts \in Nat, NEW q, q.limit \in Nat
    PROVE  Found(q) \in Seq(1..posts)
<1>1. NewestFirst \in Seq(1..posts)
  BY DEF NewestFirst
<1> DEFINE S == 1..posts
           wanted == {p \in 1..posts : AuthorOf[p] \in q.authors}
           list == IF q.global THEN NewestFirst ELSE Selected(NewestFirst, wanted)
<1>2. NewestFirst \in Seq(S)
  BY <1>1
<1> HIDE DEF S, wanted
<1>3. list \in Seq(S)
  BY <1>2, SelectedWithin
<1> HIDE DEF list
<1>4. FirstOf(list, q.limit) \in Seq(S)
  BY <1>3, FirstOfType
<1> QED
  BY <1>4 DEF Found, S, wanted, list

-----------------------------------------------------------------------------
(***************************************************************************)
(* Types.  The global feed holds no users: off it postArray may begin as   *)
(* followingArray does, but a return to it starts from homeArray.          *)
(***************************************************************************)
Entries(n) == Users \cup (1..n)

ScalarsOK ==
    /\ scenario \in Scenarios /\ posts \in 0..MaxPosts
    /\ didInitSuggested \in BOOLEAN
    /\ followQueries \in Nat /\ taps \in Nat

ArraysOK ==
    /\ postArray \in Seq(Entries(posts)) /\ followingArray \in Seq(Entries(posts))
    /\ homeArray \in Seq(1..posts) /\ suggestedArray \in Seq(1..posts)
    /\ isGlobal => postArray \in Seq(1..posts)

RequestsOK ==
    /\ postCount \in Nat
    /\ \A q \in queries : q.limit \in Nat /\ q.authors \subseteq Users
    /\ \A a \in answers : a.found \in Seq(1..posts)

TypeInv == ScalarsOK /\ ArraysOK /\ RequestsOK

LEMMA TypeOfTypeInv == IInv /\ TypeInv => TypeOK
<1> SUFFICES ASSUME IInv, TypeInv PROVE TypeOK
  OBVIOUS
<1>1. 1..posts \subseteq Entries(posts)
  BY DEF Entries
<1> DEFINE S == 1..posts
           T == Entries(posts)
<1>2. S \subseteq T /\ homeArray \in Seq(S)
  BY <1>1 DEF TypeInv, ArraysOK
<1> HIDE DEF S, T
<1>3. homeArray \in Seq(T)
  BY <1>2, SeqGrows
<1>4. \A array \in {postArray, homeArray, followingArray} : array \in Seq(Users \cup (1..posts))
  BY <1>3 DEF T, TypeInv, ArraysOK, Entries
<1> QED
  BY <1>4, Zenon DEF IInv, StateOK, NilsOK, TypeInv, TypeOK, ScalarsOK, ArraysOK, RequestsOK

LEMMA TypeInit == Init => TypeInv
<1> SUFFICES ASSUME Init PROVE TypeInv
  OBVIOUS
<1>1. ScalarsOK
  <2>1. posts \in 0..MaxPosts
    <3>1. scenario.posts \in 0..MaxPosts /\ posts \in 0..scenario.posts
      BY ScenariosType DEF Init
    <3> QED
      BY <3>1, MaxPostsType
  <2> QED
    BY <2>1 DEF Init, ScalarsOK
<1>2. ArraysOK
  <2>1. \A S : <<>> \in Seq(S)
    OBVIOUS
  <2> QED
    BY <2>1, Zenon DEF Init, ArraysOK
<1>3. RequestsOK
  BY IncreType DEF Init, RequestsOK
<1> QED
  BY <1>1, <1>2, <1>3 DEF TypeInv

LEMMA ScalarChanges ==
    ASSUME [Next]_vars
    PROVE  /\ scenario' = scenario
           /\ posts' = posts \/ (posts < scenario.posts /\ posts' = posts + 1)
           /\ didInitSuggested' = didInitSuggested \/ didInitSuggested' = TRUE
           /\ \/ followQueries' = followQueries \/ followQueries' = followQueries + 1
              \/ followQueries' = followQueries + 0
              \/ followQueries # 0 /\ followQueries' = followQueries - 1
           /\ taps' = taps \/ taps' = taps + 1
<1>1. CASE ViewDidAppear \/ ToFollowing \/ ToSuggested \/ ToGlobal
  BY <1>1
  DEF ViewDidAppear, ToFollowing, ToSuggested, ToGlobal, suggestedVars, requestVars, Tap,
      MakeQuery
<1>2. CASE Refresh \/ ReachBottom \/ DidPost
  BY <1>2 DEF Refresh, ReachBottom, DidPost, suggestedVars, requestVars, Tap, MakeQuery
<1>3. CASE NewPost \/ AddPage \/ FirstPage
  BY <1>3 DEF NewPost, AddPage, FirstPage, suggestedVars, requestVars
<1>4. CASE FollowersLoaded \/ LoadFollowersFails \/ UNCHANGED vars
  BY <1>4 DEF FollowersLoaded, LoadFollowersFails, vars, suggestedVars, requestVars
<1>5. ASSUME NEW q \in queries, ExecuteQuery(q) \/ QueryFails(q)
      PROVE  UNCHANGED <<scenario, posts, didInitSuggested, followQueries, taps>>
  BY <1>5 DEF ExecuteQuery, QueryFails, suggestedVars
<1>6. ASSUME NEW a \in answers, ShowAnswer(a)
      PROVE  UNCHANGED <<scenario, posts, didInitSuggested, followQueries, taps>>
  BY <1>6 DEF ShowAnswer, suggestedVars
<1> QED
  BY <1>1, <1>2, <1>3, <1>4, <1>5, <1>6 DEF Next

LEMMA ScalarsNext == TypeInv /\ [Next]_vars => ScalarsOK'
<1> SUFFICES ASSUME ScalarsOK, [Next]_vars PROVE ScalarsOK'
  BY DEF TypeInv
<1>1. scenario' \in Scenarios
  BY ScalarChanges DEF ScalarsOK
<1>2. posts' \in 0..MaxPosts
  <2>1. scenario.posts \in 0..MaxPosts /\ posts \in 0..MaxPosts
    BY ScenariosType DEF ScalarsOK
  <2>2. posts' = posts \/ (posts < scenario.posts /\ posts' = posts + 1)
    BY ScalarChanges
  <2> QED
    BY <2>1, <2>2, MaxPostsType
<1>3. didInitSuggested' \in BOOLEAN
  BY ScalarChanges DEF ScalarsOK
<1>4. followQueries' \in Nat
  <2>1. followQueries \in Nat
    BY DEF ScalarsOK
  <2>2. \/ followQueries' = followQueries \/ followQueries' = followQueries + 1
        \/ followQueries' = followQueries + 0
        \/ followQueries # 0 /\ followQueries' = followQueries - 1
    BY ScalarChanges
  <2> QED
    BY <2>1, <2>2
<1>5. taps' \in Nat
  <2>1. taps \in Nat
    BY DEF ScalarsOK
  <2>2. taps' = taps \/ taps' = taps + 1
    BY ScalarChanges
  <2> QED
    BY <2>1, <2>2
<1> QED
  BY <1>1, <1>2, <1>3, <1>4, <1>5 DEF ScalarsOK

\* Posts are created and never go, so that lists of posts stay such lists.
LEMMA PostsGrow == TypeInv /\ [Next]_vars =>
    posts \in Nat /\ posts' \in Nat /\ (posts' = posts \/ posts' = posts + 1)
<1> SUFFICES ASSUME TypeInv, [Next]_vars
             PROVE  posts \in Nat /\ posts' \in Nat /\ (posts' = posts \/ posts' = posts + 1)
  OBVIOUS
<1>1. posts \in Nat
  BY DEF TypeInv, ScalarsOK
<1>2. posts' = posts \/ posts' = posts + 1
  BY ScalarChanges
<1> QED
  BY <1>1, <1>2

LEMMA ListsGrow ==
    ASSUME TypeInv, [Next]_vars, NEW s
    PROVE  /\ s \in Seq(1..posts) => s \in Seq(1..posts') /\ s \in Seq(Entries(posts'))
           /\ s \in Seq(Entries(posts)) => s \in Seq(Entries(posts'))
<1> DEFINE A == 1..posts
           B == 1..posts'
           E == Entries(posts)
           F == Entries(posts')
<1>1. A \subseteq B
  BY PostsGrow
<1>2. A \subseteq F /\ E \subseteq F
  BY <1>1 DEF Entries
<1> HIDE DEF A, B, E, F
<1>3. /\ s \in Seq(A) => s \in Seq(B) /\ s \in Seq(F)
      /\ s \in Seq(E) => s \in Seq(F)
  BY <1>1, <1>2, SeqGrows
<1> QED
  BY <1>3 DEF A, B, E, F

\* What a step makes of the arrays.
LEMMA ArrayChanges ==
    ASSUME IInv, [Next]_vars
    PROVE  /\ \/ postArray' = postArray /\ (isGlobal' => isGlobal)
              \/ ~isGlobal' /\ postArray' \in {followingArray, suggestedArray}
              \/ isGlobal' /\ postArray' = homeArray
              \/ postArray' = <<>>
              \/ \E a \in answers : isGlobal' = isGlobal /\ postArray' = Extended(a.found)
           /\ \/ homeArray' = homeArray
              \/ \E a \in answers : isGlobal /\ homeArray' = Extended(a.found)
           /\ \/ followingArray' = followingArray \/ followingArray' = Followed
              \/ \E a \in answers : followingArray' = Extended(a.found)
           /\ \/ suggestedArray' = suggestedArray
              \/ suggestedArray' = Selected(Suggestions, 1..posts) /\ posts' = posts
<1>1. CASE ToFollowing \/ ToSuggested
  <2>1. /\ isGlobal' = FALSE /\ (postArray' = followingArray \/ postArray' = suggestedArray)
        /\ homeArray' = homeArray /\ followingArray' = followingArray
        /\ suggestedArray' = suggestedArray
    BY <1>1 DEF ToFollowing, ToSuggested, suggestedVars
  <2> QED
    BY <2>1
<1>2. CASE ToGlobal
  <2>1. /\ isGlobal' = TRUE /\ postArray' = homeArray
        /\ homeArray' = homeArray /\ followingArray' = followingArray
        /\ suggestedArray' = suggestedArray
    BY <1>2 DEF ToGlobal, ArrayOfGlobal, suggestedVars
  <2> QED
    BY <2>1
<1>10. CASE ViewDidAppear \/ Refresh \/ ReachBottom
  <2>1. UNCHANGED <<postArray, homeArray, followingArray, suggestedArray, isGlobal>>
    BY <1>10 DEF ViewDidAppear, Refresh, ReachBottom, suggestedVars, feedVars, arrayVars
  <2> QED
    BY <2>1
<1>11. CASE DidPost
  BY <1>11 DEF DidPost, suggestedVars, feedVars, ClearedArray
<1>3. CASE NewPost \/ AddPage
  BY <1>3 DEF NewPost, AddPage, suggestedVars, feedVars, arrayVars
<1>4. CASE FollowersLoaded \/ LoadFollowersFails \/ UNCHANGED vars
  BY <1>4 DEF FollowersLoaded, LoadFollowersFails, vars, suggestedVars, feedVars, arrayVars
<1>5. ASSUME NEW q \in queries, ExecuteQuery(q) \/ QueryFails(q)
      PROVE  UNCHANGED <<arrayVars, suggestedArray, isGlobal>>
  BY <1>5 DEF ExecuteQuery, QueryFails, suggestedVars, feedVars
<1>6. ASSUME NEW a \in answers, ShowAnswer(a)
      PROVE  /\ isGlobal' = isGlobal /\ suggestedArray' = suggestedArray
             /\ \/ UNCHANGED arrayVars
                \/ /\ postArray' = Extended(a.found)
                   /\ homeArray' = IF isGlobal THEN postArray' ELSE homeArray
                   /\ followingArray' = IF isGlobal THEN followingArray ELSE postArray'
  BY <1>6 DEF ShowAnswer, suggestedVars, feedVars
<1>7. CASE \E a \in answers : ShowAnswer(a)
  BY <1>6, <1>7 DEF arrayVars
<1>8. CASE \E q \in queries : ExecuteQuery(q) \/ QueryFails(q)
  BY <1>5, <1>8 DEF arrayVars
<1>9. CASE FirstPage
  <2>1. /\ isGlobal' = isGlobal /\ homeArray' = homeArray
        /\ followingArray' = followingArray /\ suggestedArray' = suggestedArray
        /\ postArray' = IF isForYou THEN suggestedArray ELSE postArray
    BY <1>9 DEF FirstPage, feedVars
  <2>2. isForYou => ~isGlobal
    BY DEF IInv, StateOK
  <2> QED
    BY <2>1, <2>2
<1> QED
  BY <1>1, <1>2, <1>3, <1>4, <1>7, <1>8, <1>9, <1>10, <1>11 DEF Next

LEMMA ArraysNext == IInv /\ TypeInv /\ [Next]_vars => ArraysOK'
<1> SUFFICES ASSUME IInv, TypeInv, [Next]_vars PROVE ArraysOK'
  OBVIOUS
<1>1. ArraysOK /\ RequestsOK
  BY DEF TypeInv
<1>2. \A a \in answers : /\ a.found \in Seq(1..posts) /\ a.found \in Seq(Entries(posts))
  <2> DEFINE S == 1..posts
             T == Entries(posts)
  <2>1. S \subseteq T /\ \A a \in answers : a.found \in Seq(S)
    BY <1>1 DEF RequestsOK, Entries
  <2> HIDE DEF S, T
  <2>2. \A a \in answers : a.found \in Seq(S) /\ a.found \in Seq(T)
    BY <2>1, SeqGrows
  <2> QED
    BY <2>2 DEF S, T
\* All of it among the posts there were before the step ...
<1>3. /\ postArray' \in Seq(Entries(posts)) \/ postArray' \in Seq(1..posts)
      /\ isGlobal' => postArray' \in Seq(1..posts)
  <2> DEFINE S == 1..posts
             T == Entries(posts)
  <2>1. /\ postArray \in Seq(T) /\ followingArray \in Seq(T) /\ homeArray \in Seq(S)
        /\ suggestedArray \in Seq(S) /\ (isGlobal => postArray \in Seq(S))
        /\ \A a \in answers : a.found \in Seq(S) /\ a.found \in Seq(T)
    BY <1>1, <1>2 DEF ArraysOK
  <2>2. \A R : <<>> \in Seq(R)
    OBVIOUS
  <2> HIDE DEF S, T
  <2>3. \A a \in answers : /\ Extended(a.found) \in Seq(T)
                           /\ isGlobal => Extended(a.found) \in Seq(S)
    BY <2>1, ExtendedType
  <2>4. \/ postArray' = postArray /\ (isGlobal' => isGlobal)
        \/ ~isGlobal' /\ postArray' \in {followingArray, suggestedArray}
        \/ isGlobal' /\ postArray' = homeArray
        \/ postArray' = <<>>
        \/ \E a \in answers : isGlobal' = isGlobal /\ postArray' = Extended(a.found)
    BY ArrayChanges
  <2>5. /\ postArray' \in Seq(T) \/ postArray' \in Seq(S)
        /\ isGlobal' => postArray' \in Seq(S)
    <3>1. CASE postArray' = postArray /\ (isGlobal' => isGlobal)
      BY <2>1, <3>1
    <3>2. CASE ~isGlobal' /\ postArray' \in {followingArray, suggestedArray}
      BY <2>1, <3>2
    <3>3. CASE postArray' = homeArray \/ postArray' = <<>>
      BY <2>1, <2>2, <3>3
    <3>4. CASE \E a \in answers : isGlobal' = isGlobal /\ postArray' = Extended(a.found)
      BY <2>3, <3>4
    <3> QED
      BY <2>4, <3>1, <3>2, <3>3, <3>4, Zenon
  <2> QED
    BY <2>5 DEF S, T
<1>4. homeArray' \in Seq(1..posts)
  <2> DEFINE S == 1..posts
  <2>1. /\ homeArray \in Seq(S) /\ (isGlobal => postArray \in Seq(S))
        /\ \A a \in answers : a.found \in Seq(S)
    BY <1>1, <1>2 DEF ArraysOK
  <2> HIDE DEF S
  <2>2. \A a \in answers : isGlobal => Extended(a.found) \in Seq(S)
    BY <2>1, ExtendedType
  <2>3. \/ homeArray' = homeArray
        \/ \E a \in answers : isGlobal /\ homeArray' = Extended(a.found)
    BY ArrayChanges
  <2>4. homeArray' \in Seq(S)
    BY <2>1, <2>2, <2>3
  <2> QED
    BY <2>4 DEF S
<1>5. followingArray' \in Seq(Entries(posts))
  <2> DEFINE T == Entries(posts)
             U == Users \ {Me}
  <2>1. /\ postArray \in Seq(T) /\ followingArray \in Seq(T)
        /\ \A a \in answers : a.found \in Seq(T)
    BY <1>1, <1>2 DEF ArraysOK
  <2>2. U \subseteq T /\ Followed \in Seq(U)
    BY FollowedType DEF Entries
  <2> HIDE DEF T, U
  <2>3. Followed \in Seq(T) /\ \A a \in answers : Extended(a.found) \in Seq(T)
    BY <2>1, <2>2, ExtendedType, SeqGrows
  <2>4. \/ followingArray' = followingArray \/ followingArray' = Followed
        \/ \E a \in answers : followingArray' = Extended(a.found)
    BY ArrayChanges
  <2>5. followingArray' \in Seq(T)
    BY <2>1, <2>3, <2>4
  <2> QED
    BY <2>5 DEF T
<1>6. suggestedArray' \in Seq(1..posts)
  <2>1. suggestedArray \in Seq(1..posts)
    BY <1>1 DEF ArraysOK
  <2>2. Selected(Suggestions, 1..posts) \in Seq(1..posts)
    BY SuggestionsType, SelectedWithin
  <2>3. \/ suggestedArray' = suggestedArray
        \/ suggestedArray' = Selected(Suggestions, 1..posts)
    BY ArrayChanges
  <2> QED
    BY <2>1, <2>2, <2>3, Zenon
\* ... and so among those there are after it.
<1> QED
  BY <1>3, <1>4, <1>5, <1>6, ListsGrow DEF ArraysOK

LEMMA RequestsNext == TypeInv /\ [Next]_vars => RequestsOK'
<1> SUFFICES ASSUME TypeInv, [Next]_vars PROVE RequestsOK'
  OBVIOUS
<1>1. RequestsOK /\ posts \in Nat /\ Incre \in Nat
  BY PostsGrow, IncreType DEF TypeInv
<1>2. Len(followingArray) \in Nat /\ Len(homeArray) \in Nat
  <2> DEFINE S == 1..posts
             T == Entries(posts)
  <2>1. followingArray \in Seq(T) /\ homeArray \in Seq(S)
    BY DEF TypeInv, ArraysOK
  <2> HIDE DEF S, T
  <2> QED
    BY <2>1
<1>3. postCount' \in Nat
  <2>1. \/ postCount' = postCount \/ postCount' = Len(followingArray) + Incre
        \/ postCount' \in {Incre, 2 * Incre} \/ postCount' = Len(homeArray) + Incre
        \/ postCount' = postCount + Incre
    <3>1. CASE ViewDidAppear \/ Refresh \/ NewPost \/ AddPage
      BY <3>1 DEF ViewDidAppear, Refresh, NewPost, AddPage
    <3>2. CASE ToFollowing \/ ToGlobal
      BY <3>2 DEF ToFollowing, ToGlobal
    <3>3. CASE ToSuggested
      BY <3>3 DEF ToSuggested
    <3>4. CASE ReachBottom \/ DidPost \/ FirstPage
      BY <3>4 DEF ReachBottom, DidPost, FirstPage
    <3>5. CASE FollowersLoaded \/ LoadFollowersFails \/ UNCHANGED vars
      BY <3>5 DEF FollowersLoaded, LoadFollowersFails, vars
    <3>6. CASE \E q \in queries : ExecuteQuery(q) \/ QueryFails(q)
      BY <3>6 DEF ExecuteQuery, QueryFails
    <3>7. CASE \E a \in answers : ShowAnswer(a)
      BY <3>7 DEF ShowAnswer
    <3> QED
      BY <3>1, <3>2, <3>3, <3>4, <3>5, <3>6, <3>7 DEF Next
  <2> QED
    BY <1>1, <1>2, <2>1 DEF RequestsOK
<1>4. ASSUME NEW forYou, NEW global, NEW limit \in Nat, MakeQuery(forYou, global, limit)
      PROVE  /\ answers' = answers
             /\ \A q \in queries' : q.limit \in Nat /\ q.authors \subseteq Users
  <2>1. answers' = answers
    BY <1>4 DEF MakeQuery, requestVars
  <2>2. PICK authors : /\ authors \subseteq Users
                       /\ queries' \subseteq queries \cup
                             {[no |-> taps, global |-> global, limit |-> limit,
                               authors |-> authors]}
    <3>1. CASE forYou /\ ~didInitSuggested
      BY <1>4, <3>1 DEF MakeQuery, requestVars
    <3>2. CASE ~(forYou /\ ~didInitSuggested)
      <4>1. PICK authors \in IF global THEN {{}} ELSE AuthorFilters :
              queries' = queries \cup {[no |-> taps, global |-> global, limit |-> limit,
                                        authors |-> authors]}
        BY <1>4, <3>2 DEF MakeQuery
      <4>2. authors \subseteq Users
        <5> DEFINE listed == ToSet(followingArray) \cap Users
        <5>1. listed \subseteq Users
          OBVIOUS
        <5> HIDE DEF listed
        <5> QED
          BY <5>1 DEF AuthorFilters, listed
      <4> QED
        BY <4>1, <4>2
    <3> QED
      BY <3>1, <3>2
  <2>3. \A q \in queries : q.limit \in Nat /\ q.authors \subseteq Users
    BY <1>1 DEF RequestsOK
  <2> QED
    BY <2>1, <2>2, <2>3
<1>5. ASSUME answers' = answers
      PROVE  \A a \in answers' : a.found \in Seq(1..posts')
  <2>1. \A a \in answers : a.found \in Seq(1..posts)
    BY <1>1 DEF RequestsOK
  <2>2. \A a \in answers : a.found \in Seq(1..posts')
    BY <2>1, ListsGrow
  <2> QED
    BY <1>5, <2>2
<1>6. CASE \/ ToFollowing \/ ToGlobal \/ Refresh \/ ReachBottom \/ DidPost
  <2>1. \E forYou, global : \E limit \in Nat : MakeQuery(forYou, global, limit)
    <3>1. CASE ToFollowing
      BY <1>3, <3>1 DEF ToFollowing
    <3>2. CASE ToGlobal
      BY <1>3, <3>2 DEF ToGlobal
    <3>3. CASE Refresh
      <4>1. MakeQuery(isForYou, isGlobal, postCount) /\ postCount \in Nat
        BY <1>1, <3>3 DEF Refresh, RequestsOK
      <4> QED
        BY <4>1
    <3>4. CASE ReachBottom
      <4>1. MakeQuery(FALSE, isGlobal, postCount')
        BY <3>4 DEF ReachBottom
      <4> QED
        BY <1>3, <4>1
    <3>5. CASE DidPost
      <4>1. MakeQuery(isForYou, isGlobal, Incre)
        BY <3>5 DEF DidPost
      <4> QED
        BY <1>1, <4>1
    <3> QED
      BY <1>6, <3>1, <3>2, <3>3, <3>4, <3>5
  <2> QED
    BY <1>3, <1>4, <1>5, <2>1 DEF RequestsOK
<1>7. CASE \/ ViewDidAppear \/ ToSuggested \/ NewPost \/ AddPage \/ FirstPage
           \/ FollowersLoaded \/ LoadFollowersFails \/ UNCHANGED vars
  <2>1. queries' = queries /\ answers' = answers
    BY <1>7
    DEF ViewDidAppear, ToSuggested, NewPost, AddPage, FirstPage, FollowersLoaded,
        LoadFollowersFails, vars, requestVars
  <2> QED
    BY <1>1, <1>3, <1>5, <2>1 DEF RequestsOK
<1>8. CASE \E q \in queries : ExecuteQuery(q) \/ QueryFails(q)
  <2>1. PICK q \in queries : ExecuteQuery(q) \/ QueryFails(q)
    BY <1>8
  <2>2. /\ queries' = queries \ {q} /\ posts' = posts
        /\ \/ answers' = answers \cup {[no |-> q.no, found |-> Found(q)]}
           \/ answers' = answers \cup {[no |-> q.no, found |-> <<>>]}
    BY <2>1 DEF ExecuteQuery, QueryFails
  <2>3. q.limit \in Nat
    BY <1>1 DEF RequestsOK
  <2>4. Found(q) \in Seq(1..posts) /\ <<>> \in Seq(1..posts)
    BY <1>1, <2>3, FoundType
  <2>5. PICK found : /\ found \in Seq(1..posts)
                     /\ answers' = answers \cup {[no |-> q.no, found |-> found]}
    BY <2>2, <2>4, Zenon
  <2>6. \A a \in answers : a.found \in Seq(1..posts)
    BY <1>1 DEF RequestsOK
  <2>7. \A a \in answers' : a.found \in Seq(1..posts)
    <3> DEFINE S == 1..posts
    <3>1. found \in Seq(S) /\ \A a \in answers : a.found \in Seq(S)
      BY <2>5, <2>6
    <3> HIDE DEF S
    <3>2. \A a \in answers' : a.found \in Seq(S)
      BY <2>5, <3>1
    <3> QED
      BY <3>2 DEF S
  <2> QED
    BY <1>1, <1>3, <2>2, <2>7 DEF RequestsOK
<1>9. CASE \E a \in answers : ShowAnswer(a)
  <2>1. answers' \subseteq answers /\ queries' = queries /\ posts' = posts
    BY <1>9 DEF ShowAnswer
  <2> QED
    BY <1>1, <1>3, <2>1 DEF RequestsOK
<1> QED
  BY <1>6, <1>7, <1>8, <1>9 DEF Next

\* The variables keep their types: the arrays hold users and posts that exist,
\* homeArray, suggestedArray and the answers posts only, for any answers in any
\* order.
THEOREM TypeCorrect == Spec => []TypeOK
<1>1. IInv /\ TypeInv /\ [Next]_vars => TypeInv'
  BY ScalarsNext, ArraysNext, RequestsNext DEF TypeInv
<1>2. Spec => []TypeInv
  BY <1>1, TypeInit, IInvHolds, PTL DEF Spec
<1> QED
  BY <1>2, IInvHolds, TypeOfTypeInv, PTL
=============================================================================
