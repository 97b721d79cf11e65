--------------------------- MODULE ViewTrackProofs ---------------------------
(***************************************************************************)
(* Proofs about ViewTrack, for any number of devices and visits, any       *)
(* clocks that are ahead, a window of any length and a post of any age.    *)
(*                                                                         *)
(* They rest on what one call of viewed: does to a history (ViewedKeeps,   *)
(* ViewedBeforeTheMonth): it never leaves more than W entries, and before  *)
(* the month is over it keeps every entry, adds one view to the entry of   *)
(* the hour, and ends at most one entry behind that hour.                  *)
(***************************************************************************)
EXTENDS ViewTrack, SumTheorems

LastHour == MaxAge + MaxAhead + 1

LEMMA HoursType ==
    ASSUME TypeOK, NEW s \in Screens
    PROVE  Hours(s) \in Nat /\ Hours(s) >= age /\ Hours(s) <= age + MaxAhead
BY AheadType, BoundsType DEF Hours, TypeOK

LEMMA ZerosType ==
    ASSUME NEW n \in Nat
    PROVE  /\ Zeros(n) \in Seq(Nat) /\ Len(Zeros(n)) = n
           /\ \A i \in 1..n : Zeros(n)[i] = 0
BY DEF Zeros

LEMMA StartedKeeps ==
    ASSUME NEW track \in Seq(Nat)
    PROVE  /\ Started(track) \in Seq(Nat)
           /\ Len(Started(track)) = IF Len(track) = 0 THEN 1 ELSE Len(track)
           /\ \A i \in 1..Len(Started(track)) :
                 Started(track)[i] = IF i <= Len(track) THEN track[i] ELSE 0
BY DEF Started

\* Padding keeps the entries, adds zeros only, and ends one entry behind the
\* hour if it adds any.
LEMMA PaddedKeeps ==
    ASSUME NEW track \in Seq(Nat), NEW hours \in Nat
    PROVE  /\ Padded(track, hours) \in Seq(Nat)
           /\ Len(Padded(track, hours)) =
                 IF hours > Len(track) - 1 THEN hours + 2 ELSE Len(track)
           /\ \A i \in 1..Len(Padded(track, hours)) : Padded(track, hours)[i] =
                 IF i <= Len(track) THEN track[i] ELSE 0
<1>1. CASE hours > Len(track) - 1
  <2> DEFINE n == hours - Len(track) + 2
  <2>1. n \in Nat
    BY <1>1
  <2>2. Zeros(n) \in Seq(Nat) /\ Len(Zeros(n)) = n /\ \A i \in 1..n : Zeros(n)[i] = 0
    BY <2>1, ZerosType
  <2>3. Padded(track, hours) = track \o Zeros(n)
    BY <1>1 DEF Padded
  <2> HIDE DEF n
  <2>4. track \o Zeros(n) \in Seq(Nat) /\ Len(track \o Zeros(n)) = Len(track) + n
    BY <2>1, <2>2
  <2>5. ASSUME NEW i \in 1..(Len(track) + n)
        PROVE  (track \o Zeros(n))[i] = IF i <= Len(track) THEN track[i] ELSE 0
    BY <2>1, <2>2
  <2> QED
    BY <1>1, <2>3, <2>4, <2>5 DEF n
<1>2. CASE ~(hours > Len(track) - 1)
  BY <1>2 DEF Padded
<1> QED
  BY <1>1, <1>2

\* The hour is an index of the padded array.
LEMMA HourInPadded ==
    ASSUME NEW track \in Seq(Nat), NEW hours \in Nat
    PROVE  hours + 1 \in DOMAIN Padded(Started(track), hours)
<1>1. Started(track) \in Seq(Nat)
  BY StartedKeeps
<1> DEFINE t == Started(track)
<1>2. /\ Padded(t, hours) \in Seq(Nat)
      /\ Len(Padded(t, hours)) = IF hours > Len(t) - 1 THEN hours + 2 ELSE Len(t)
  BY <1>1, PaddedKeeps
<1> HIDE DEF t
<1>3. DOMAIN Padded(t, hours) = 1..Len(Padded(t, hours))
  BY <1>2
<1> QED
  BY <1>1, <1>2, <1>3 DEF t

LEMMA TrimmedKeeps ==
    ASSUME NEW track \in Seq(Nat)
    PROVE  /\ Trimmed(track) \in Seq(Nat) /\ Len(Trimmed(track)) <= W
           /\ Len(track) <= W => Trimmed(track) = track
BY WindowType DEF Trimmed

\* The array before it is trimmed.
Counted(track, hours) == [Padded(Started(track), hours) EXCEPT ![hours + 1] = @ + 1]

LEMMA CountedKeeps ==
    ASSUME NEW track \in Seq(Nat), NEW hours \in Nat
    PROVE  /\ Counted(track, hours) \in Seq(Nat)
           /\ hours + 1 <= Len(Counted(track, hours))
           /\ Len(track) <= Len(Counted(track, hours))
           /\ \/ Len(Counted(track, hours)) = hours + 2
              \/ Len(Counted(track, hours)) = Len(track)
              \/ Len(track) = 0 /\ hours = 0 /\ Len(Counted(track, hours)) = 1
           /\ \A i \in 1..Len(Counted(track, hours)) : Counted(track, hours)[i] =
                 (IF i <= Len(track) THEN track[i] ELSE 0)
                 + (IF i = hours + 1 THEN 1 ELSE 0)
<1> DEFINE t == Started(track)
           p == Padded(t, hours)
<1>1. /\ t \in Seq(Nat)
      /\ Len(t) = IF Len(track) = 0 THEN 1 ELSE Len(track)
      /\ \A i \in 1..Len(t) : t[i] = IF i <= Len(track) THEN track[i] ELSE 0
  BY StartedKeeps
<1>2. /\ p \in Seq(Nat)
      /\ Len(p) = IF hours > Len(t) - 1 THEN hours + 2 ELSE Len(t)
      /\ \A i \in 1..Len(p) : p[i] = IF i <= Len(t) THEN t[i] ELSE 0
  BY <1>1, PaddedKeeps
<1>3. Counted(track, hours) = [p EXCEPT ![hours + 1] = @ + 1]
  BY DEF Counted
<1> HIDE DEF t, p
<1>4. hours + 1 \in 1..Len(p)
  BY <1>1, <1>2
<1>5. /\ [p EXCEPT ![hours + 1] = @ + 1] \in Seq(Nat)
      /\ Len([p EXCEPT ![hours + 1] = @ + 1]) = Len(p)
      /\ \A i \in 1..Len(p) : [p EXCEPT ![hours + 1] = @ + 1][i] =
            p[i] + (IF i = hours + 1 THEN 1 ELSE 0)
  BY <1>2, <1>4, SMTT(20)
<1>6. hours + 1 <= Len(p) /\ Len(track) <= Len(p)
  BY <1>1, <1>2, <1>4
<1>7. \/ Len(p) = hours + 2 \/ Len(p) = Len(track)
      \/ Len(track) = 0 /\ hours = 0 /\ Len(p) = 1
  BY <1>1, <1>2
<1>8. ASSUME NEW i \in 1..Len(p)
      PROVE  p[i] = IF i <= Len(track) THEN track[i] ELSE 0
  BY <1>1, <1>2, SMTT(20)
<1> QED
  BY <1>3, <1>5, <1>6, <1>7, <1>8, ZenonT(30)

LEMMA ViewedIsTrimmed ==
    ASSUME NEW post, NEW hours
    PROVE  Viewed(post, hours) = [numViews |-> post.numViews + 1,
                                  viewTrack |-> Trimmed(Counted(post.viewTrack, hours))]
BY DEF Viewed, Counted

LEMMA ViewedKeeps ==
    ASSUME NEW post \in Views, NEW hours \in Nat
    PROVE  Viewed(post, hours) \in Views /\ Len(Viewed(post, hours).viewTrack) <= W
<1>1. post.viewTrack \in Seq(Nat) /\ post.numViews \in Nat
  BY DEF Views
<1>2. Counted(post.viewTrack, hours) \in Seq(Nat)
  BY <1>1, CountedKeeps
<1>3. /\ Trimmed(Counted(post.viewTrack, hours)) \in Seq(Nat)
      /\ Len(Trimmed(Counted(post.viewTrack, hours))) <= W
  BY <1>2, TrimmedKeeps
<1> QED
  BY <1>1, <1>3, ViewedIsTrimmed DEF Views

\* Before the month is over nothing is trimmed.
LEMMA ViewedBeforeTheMonth ==
    ASSUME NEW post \in Views, NEW hours \in Nat,
           hours < W - 1, Len(post.viewTrack) <= W
    PROVE  Viewed(post, hours).viewTrack = Counted(post.viewTrack, hours)
<1>1. post.viewTrack \in Seq(Nat)
  BY DEF Views
<1> DEFINE c == Counted(post.viewTrack, hours)
<1>2. /\ c \in Seq(Nat)
      /\ Len(c) = hours + 2 \/ Len(c) = Len(post.viewTrack) \/ Len(c) = 1
  BY <1>1, CountedKeeps
<1> HIDE DEF c
<1>3. Len(c) <= W
  <2>1. Len(c) \in Nat /\ Len(post.viewTrack) \in Nat /\ W \in Nat /\ 2 <= W
    BY <1>1, <1>2, WindowType
  <2>2. \A l, p, h, w \in Nat :
            (l = h + 2 \/ l = p \/ l = 1) /\ h < w - 1 /\ p <= w /\ 2 <= w => l <= w
    OBVIOUS
  <2> QED
    BY <1>2, <2>1, <2>2
<1> QED
  BY <1>2, <1>3, TrimmedKeeps, ViewedIsTrimmed DEF c
-----------------------------------------------------------------------------
LEMMA CopyType ==
    ASSUME TypeOK, NEW p \in AllCopies
    PROVE  /\ p \in Views /\ p.viewTrack \in Seq(Nat)
           /\ Len(p.viewTrack) \in Nat /\ Len(p.viewTrack) <= W
<1>1. p \in Views /\ Len(p.viewTrack) <= W
  BY DEF TypeOK, AllCopies
<1>2. p.viewTrack \in Seq(Nat)
  BY <1>1 DEF Views
<1> QED
  BY <1>1, <1>2

THEOREM TypeInit == Init => TypeOK
<1> SUFFICES ASSUME Init PROVE TypeOK
  OBVIOUS
<1>1. row \in Views /\ Len(row.viewTrack) = 0
  BY DEF Init, Views
<1>2. copy \in [Screens -> Views] /\ \A s \in Screens : copy[s] = row
  BY <1>1 DEF Init
<1>3. \A p \in AllCopies : Len(p.viewTrack) <= W
  <2>1. \A p \in AllCopies : p = row
    BY <1>2 DEF AllCopies
  <2> QED
    BY <1>1, <2>1, WindowType
<1>4. viewsAt \in [0..(MaxAge + MaxAhead + 1) -> Nat] /\ openedAt \in [Screens -> Nat]
  BY DEF Init
<1>5. age \in 0..MaxAge /\ faults \in 0..MaxFaults
  BY BoundsType DEF Init
<1>6. phase \in [Screens -> {"unopened", "saving", "unsaved", "saved"}] /\ late \in BOOLEAN
  BY DEF Init
<1> QED
  BY <1>1, <1>2, <1>3, <1>4, <1>5, <1>6 DEF TypeOK

LEMMA TypeNext == TypeOK /\ [Next]_vars => TypeOK'
<1> SUFFICES ASSUME TypeOK, [Next]_vars PROVE TypeOK'
  OBVIOUS
<1> USE DEF TypeOK, historyVars
<1>1. ASSUME NEW s \in Screens, Open(s) PROVE TypeOK'
  <2>1. Hours(s) \in Nat
    BY HoursType
  <2> DEFINE v == Viewed(row, Hours(s))
  <2>2. v \in Views /\ Len(v.viewTrack) <= W
    BY <2>1, ViewedKeeps
  <2> HIDE DEF v
  <2>3. copy' = [copy EXCEPT ![s] = v]
    BY <1>1 DEF Open, v
  <2>4. copy' \in [Screens -> Views] /\ \A p \in AllCopies' : Len(p.viewTrack) <= W
    <3>1. row' = row
      BY <1>1 DEF Open
    <3>2. copy' \in [Screens -> Views] /\ \A p \in AllCopies' : p \in AllCopies \/ p = v
      BY <2>2, <2>3, <3>1 DEF AllCopies
    <3> QED
      BY <2>2, <3>2
  <2>5. viewsAt' \in [0..LastHour -> Nat]
    <3>1. Hours(s) \in 0..LastHour
      BY HoursType, BoundsType, AheadType DEF LastHour
    <3> QED
      BY <1>1, <3>1 DEF Open, LastHour
  <2> QED
    BY <1>1, <2>1, <2>4, <2>5 DEF Open, LastHour
<1>2. ASSUME NEW s \in Screens, SaveDone(s) PROVE TypeOK'
  BY <1>2 DEF SaveDone, Saved, AllCopies
<1>3. ASSUME NEW s \in Screens, SaveExecuted(s) PROVE TypeOK'
  BY <1>3, BoundsType DEF SaveExecuted, Saved, AllCopies
<1>4. ASSUME NEW s \in Screens, SaveFails(s) PROVE TypeOK'
  BY <1>4, BoundsType DEF SaveFails, AllCopies
<1>5. ASSUME NEW s \in Screens, SaveAgain(s) PROVE TypeOK'
  BY <1>5 DEF SaveAgain, AllCopies
<1>6. ASSUME Hour PROVE TypeOK'
  BY <1>6, BoundsType DEF Hour, AllCopies
<1>7. ASSUME UNCHANGED vars PROVE TypeOK'
  BY <1>7 DEF vars, AllCopies
<1> QED
  BY <1>1, <1>2, <1>3, <1>4, <1>5, <1>6, <1>7 DEF Next

\* The variables keep their types, and no history grows beyond the window,
\* however many views are made in whatever hours (Post viewed:).
THEOREM TypeCorrect == Spec => []TypeOK
<1>1. Init => TypeOK
  BY TypeInit
<1>2. TypeOK /\ [Next]_vars => TypeOK'
  BY TypeNext
<1> QED
  BY <1>1, <1>2, PTL DEF Spec

\* viewed: never indexes beyond the array it has padded, for any clocks and any
\* history other devices have left.
THEOREM HourIndexesHistory == Spec => []HourIsAnIndex
<1>1. TypeOK => HourIsAnIndex
  <2> SUFFICES ASSUME TypeOK, NEW s \in Screens, NEW p \in AllCopies
               PROVE  Hours(s) + 1 \in DOMAIN Padded(Started(p.viewTrack), Hours(s))
    BY DEF HourIsAnIndex
  <2>1. p.viewTrack \in Seq(Nat)
    BY CopyType
  <2> QED
    BY <2>1, HoursType, HourInPadded
<1> QED
  BY <1>1, TypeCorrect, PTL

-----------------------------------------------------------------------------
(***************************************************************************)
(* Before the month is over.  That no entry counts more views than were    *)
(* made is inductive if histories end where viewsAt does; and they do,     *)
(* because a history ends at most one entry behind the hour of the last    *)
(* view, by a clock that is ahead by at most MaxAhead.                     *)
(***************************************************************************)
Bounded == \A p \in AllCopies : Len(p.viewTrack) <= age + MaxAhead + 2

EndsAtVisit ==
    \A s \in Screens : phase[s] # "unopened" =>
        /\ openedAt[s] + 1 <= Len(copy[s].viewTrack)
        /\ Len(copy[s].viewTrack) <= openedAt[s] + 2 + MaxAhead

IInv == TypeOK /\ (~late => Bounded /\ EndsAtVisit) /\ HoursTruthful

LEMMA IInvInit == Init => IInv
<1> SUFFICES ASSUME Init PROVE IInv
  OBVIOUS
<1>1. TypeOK
  BY TypeInit
<1>2. \A p \in AllCopies : p.viewTrack = <<>>
  BY DEF Init, AllCopies
<1>3. Bounded
  BY <1>2, AheadType DEF Init, Bounded
<1>4. EndsAtVisit
  BY DEF Init, EndsAtVisit
<1>5. HoursTruthful
  BY <1>2 DEF HoursTruthful
<1> QED
  BY <1>1, <1>3, <1>4, <1>5 DEF IInv

\* The arithmetic of the two steps below, on plain numbers.
LEMMA EndArithmetic ==
    ASSUME NEW hours \in Nat, NEW now \in Nat, NEW ahead \in Nat, NEW len \in Nat,
           now <= hours, len <= now + ahead + 2
    PROVE  len <= hours + 2 + ahead
OBVIOUS

LEMMA PlaceArithmetic ==
    ASSUME NEW w \in Nat, NEW now \in Int, NEW opened \in Nat, NEW len \in Nat,
           NEW h \in Nat, NEW lead \in Nat, NEW k \in {now - h, now - h - 1},
           opened + 1 <= len, len <= opened + 2 + lead
    PROVE  (w - k) - (w - len + h + 1)
              \in (-(now - opened))..(2 + lead - (now - opened))
<1>1. (w - k) - (w - len + h + 1) = len - h - 1 - k
  OBVIOUS
<1> QED
  BY <1>1

\* What a visit before the end of the month makes of the row.
LEMMA OpenBeforeTheMonth ==
    ASSUME IInv, NEW s \in Screens, Open(s), ~late'
    PROVE  /\ copy'[s].viewTrack = Counted(row.viewTrack, Hours(s))
           /\ \A t \in Screens \ {s} : copy'[t] = copy[t]
           /\ row' = row /\ ~late
<1>1. Hours(s) \in Nat /\ Hours(s) < W - 1 /\ ~late
  <2>1. TypeOK /\ late' = (late \/ Hours(s) >= W - 1)
    BY DEF Open, IInv
  <2>2. Hours(s) \in Nat
    BY <2>1, HoursType
  <2>3. ~late /\ ~(Hours(s) >= W - 1)
    BY <2>1
  <2> QED
    BY <2>2, <2>3, WindowType
<1>2. row \in Views /\ Len(row.viewTrack) <= W
  BY CopyType DEF IInv, AllCopies
<1>3. Viewed(row, Hours(s)).viewTrack = Counted(row.viewTrack, Hours(s))
  BY <1>1, <1>2, ViewedBeforeTheMonth
<1>4. /\ copy \in [Screens -> Views] /\ row' = row
      /\ copy' = [copy EXCEPT ![s] = Viewed(row, Hours(s))]
  BY DEF Open, IInv, TypeOK
<1> QED
  BY <1>1, <1>3, <1>4

LEMMA OpenKeeps ==
    ASSUME IInv, NEW s \in Screens, Open(s), TypeOK'
    PROVE  IInv'
<1> SUFFICES ASSUME ~late' PROVE (Bounded /\ EndsAtVisit /\ HoursTruthful)'
  BY DEF IInv, HoursTruthful
<1> DEFINE c == Counted(row.viewTrack, Hours(s))
<1>1. /\ copy'[s].viewTrack = c
      /\ \A t \in Screens \ {s} : copy'[t] = copy[t]
      /\ row' = row /\ ~late
  BY OpenBeforeTheMonth
<1>2. TypeOK /\ Bounded /\ EndsAtVisit /\ HoursTruthful /\ row \in AllCopies
  BY <1>1 DEF IInv, AllCopies
<1>hours. Hours(s) \in Nat /\ Hours(s) >= age /\ Hours(s) <= age + MaxAhead
  BY <1>2, HoursType
<1>bounds. age \in Nat /\ MaxAhead \in Nat /\ age <= MaxAge /\ MaxAge \in Nat
  BY <1>2, AheadType, BoundsType DEF TypeOK
<1>row. row.viewTrack \in Seq(Nat) /\ Len(row.viewTrack) <= age + MaxAhead + 2
  BY <1>2, CopyType DEF Bounded
<1>seq. c \in Seq(Nat)
  BY <1>hours, <1>row, CountedKeeps
<1>first. Hours(s) + 1 <= Len(c)
  BY <1>hours, <1>row, CountedKeeps
<1>len. Len(c) = Hours(s) + 2 \/ Len(c) = Len(row.viewTrack) \/ Len(c) = 1
  BY <1>hours, <1>row, CountedKeeps
<1>3. \A i \in 1..Len(c) : c[i] =
            (IF i <= Len(row.viewTrack) THEN row.viewTrack[i] ELSE 0)
            + (IF i = Hours(s) + 1 THEN 1 ELSE 0)
  <2> DEFINE track == row.viewTrack
             h == Hours(s)
  <2>1. track \in Seq(Nat) /\ h \in Nat
    BY <1>hours, <1>row
  <2> HIDE DEF track, h
  <2>2. \A i \in 1..Len(Counted(track, h)) : Counted(track, h)[i] =
            (IF i <= Len(track) THEN track[i] ELSE 0) + (IF i = h + 1 THEN 1 ELSE 0)
    BY <2>1, CountedKeeps
  <2> QED
    BY <2>2 DEF track, h
<1> HIDE DEF c
<1>4. /\ age' = age /\ openedAt' = [openedAt EXCEPT ![s] = Hours(s)]
      /\ phase' = [phase EXCEPT ![s] = "saving"]
      /\ viewsAt' = [viewsAt EXCEPT ![Hours(s)] = @ + 1]
  BY DEF Open
<1>5. Len(c) <= age + MaxAhead + 2
  <2>1. Len(row.viewTrack) \in Nat /\ Len(c) \in Nat
    BY <1>row, <1>seq
  <2>2. CASE Len(c) = Hours(s) + 2
    BY <1>hours, <1>bounds, <2>1, <2>2
  <2>3. CASE Len(c) = Len(row.viewTrack)
    BY <1>row, <2>3
  <2>4. CASE Len(c) = 1
    BY <1>bounds, <2>4
  <2> QED
    BY <1>len, <2>2, <2>3, <2>4
<1>6. Bounded'
  <2>1. \A p \in AllCopies' : p \in AllCopies \/ p.viewTrack = c
    BY <1>1 DEF AllCopies
  <2> QED
    BY <1>2, <1>4, <1>5, <2>1 DEF Bounded
<1>7. EndsAtVisit'
  <2>1. Hours(s) + 1 <= Len(c) /\ Len(c) <= Hours(s) + 2 + MaxAhead
    <3>1. Len(c) \in Nat
      BY <1>seq
    <3>2. Len(c) <= Hours(s) + 2 + MaxAhead
      BY <1>hours, <1>bounds, <1>5, <3>1, EndArithmetic
    <3> QED
      BY <1>first, <3>2
  <2> QED
    BY <1>1, <1>2, <1>4, <2>1 DEF EndsAtVisit, TypeOK
<1>8. HoursTruthful'
  <2> SUFFICES ASSUME NEW p \in AllCopies', NEW i \in DOMAIN p.viewTrack
               PROVE  p.viewTrack[i] <= viewsAt'[i - 1]
    BY DEF HoursTruthful
  <2>1. \A h \in 0..LastHour : /\ viewsAt[h] \in Nat /\ viewsAt'[h] \in Nat
                               /\ viewsAt'[h] = viewsAt[h] +
                                     (IF h = Hours(s) THEN 1 ELSE 0)
    BY <1>2, <1>4 DEF TypeOK, LastHour
  <2>2. CASE p.viewTrack = c
    <3>1. i \in 1..Len(c) /\ i - 1 \in 0..LastHour
      BY <1>hours, <1>bounds, <1>seq, <1>5, <2>2 DEF LastHour
    <3>2. CASE i <= Len(row.viewTrack)
      <4>1. row.viewTrack[i] <= viewsAt[i - 1]
        <5>1. i \in DOMAIN row.viewTrack /\ row \in AllCopies /\ ~late
          BY <1>1, <1>row, <3>1, <3>2 DEF AllCopies
        <5> QED
          BY <1>2, <5>1 DEF HoursTruthful
      <4> QED
        <5>1. row.viewTrack[i] \in Nat
          BY <1>row, <3>1, <3>2
        <5>2. c[i] = row.viewTrack[i] + (IF i - 1 = Hours(s) THEN 1 ELSE 0)
          <6>1. c[i] = row.viewTrack[i] + (IF i = Hours(s) + 1 THEN 1 ELSE 0)
            BY <1>3, <3>1, <3>2
          <6> QED
            BY <6>1, <1>hours, <3>1
        <5> QED
          BY <2>1, <2>2, <3>1, <4>1, <5>1, <5>2
    <3>3. CASE ~(i <= Len(row.viewTrack))
      <4>1. c[i] = IF i - 1 = Hours(s) THEN 1 ELSE 0
        BY <1>3, <1>hours, <3>1, <3>3
      <4> QED
        BY <2>1, <2>2, <3>1, <4>1
    <3> QED
      BY <3>2, <3>3
  <2>3. CASE p \in AllCopies
    <3>1. p.viewTrack \in Seq(Nat) /\ Len(p.viewTrack) <= age + MaxAhead + 2
      BY <1>2, <2>3, CopyType DEF Bounded
    <3>2. i \in 1..Len(p.viewTrack) /\ i - 1 \in 0..LastHour /\ p.viewTrack[i] \in Nat
      BY <1>bounds, <3>1 DEF LastHour
    <3>3. p.viewTrack[i] <= viewsAt[i - 1]
      BY <1>1, <1>2, <2>3 DEF HoursTruthful
    <3> QED
      BY <2>1, <3>2, <3>3
  <2>4. p.viewTrack = c \/ p \in AllCopies
    BY <1>1 DEF AllCopies
  <2> QED
    BY <2>2, <2>3, <2>4
<1> QED
  BY <1>6, <1>7, <1>8

\* A step that only moves copies to the row.
LEMMA SaveKeeps ==
    ASSUME IInv, TypeOK', AllCopies' \subseteq AllCopies,
           UNCHANGED <<copy, historyVars>>, age' >= age,
           \A s \in Screens : phase'[s] # "unopened" => phase[s] # "unopened"
    PROVE  IInv'
<1> SUFFICES ASSUME ~late' PROVE (Bounded /\ EndsAtVisit /\ HoursTruthful)'
  BY DEF IInv, HoursTruthful
<1>1. Bounded /\ EndsAtVisit /\ HoursTruthful /\ ~late
  BY DEF IInv, historyVars
<1>2. Bounded'
  <2> SUFFICES ASSUME NEW p \in AllCopies' PROVE Len(p.viewTrack) <= age' + MaxAhead + 2
    BY DEF Bounded
  <2>1. Len(p.viewTrack) \in Nat /\ Len(p.viewTrack) <= age + MaxAhead + 2
    BY <1>1, CopyType DEF Bounded, IInv
  <2> QED
    BY <2>1, AheadType DEF IInv, TypeOK
<1>3. EndsAtVisit'
  BY <1>1 DEF EndsAtVisit, historyVars
<1>4. HoursTruthful'
  BY <1>1 DEF HoursTruthful, historyVars
<1> QED
  BY <1>2, <1>3, <1>4

LEMMA IInvNext == IInv /\ [Next]_vars => IInv'
<1> SUFFICES ASSUME IInv, [Next]_vars PROVE IInv'
  OBVIOUS
<1>1. TypeOK /\ TypeOK'
  BY TypeNext DEF IInv
<1>2. ASSUME NEW s \in Screens, Open(s) PROVE IInv'
  BY <1>1, <1>2, OpenKeeps
<1>3. ASSUME NEW s \in Screens, SaveDone(s) PROVE IInv'
  <2>1. AllCopies' \subseteq AllCopies
    BY <1>3 DEF SaveDone, Saved, AllCopies
  <2> QED
    BY <1>1, <1>3, <2>1, SaveKeeps DEF SaveDone, TypeOK
<1>4. ASSUME NEW s \in Screens, SaveExecuted(s) PROVE IInv'
  <2>1. AllCopies' \subseteq AllCopies
    BY <1>4 DEF SaveExecuted, Saved, AllCopies
  <2> QED
    BY <1>1, <1>4, <2>1, SaveKeeps DEF SaveExecuted, TypeOK
<1>5. ASSUME NEW s \in Screens, SaveFails(s) \/ SaveAgain(s) PROVE IInv'
  <2>1. AllCopies' = AllCopies
    BY <1>5 DEF SaveFails, SaveAgain, AllCopies
  <2> QED
    BY <1>1, <1>5, <2>1, SaveKeeps DEF SaveFails, SaveAgain, TypeOK
<1>6. ASSUME Hour PROVE IInv'
  <2>1. AllCopies' = AllCopies /\ age' >= age
    BY <1>1, <1>6 DEF Hour, AllCopies, TypeOK
  <2> QED
    BY <1>1, <1>6, <2>1, SaveKeeps DEF Hour
<1>7. ASSUME UNCHANGED vars PROVE IInv'
  <2>1. AllCopies' = AllCopies /\ age' >= age
    BY <1>1, <1>7 DEF vars, AllCopies, TypeOK
  <2> QED
    BY <1>1, <1>7, <2>1, SaveKeeps DEF vars
<1> QED
  BY <1>2, <1>3, <1>4, <1>5, <1>6, <1>7 DEF Next

THEOREM IInvHolds == Spec => []IInv
BY IInvInit, IInvNext, PTL DEF Spec

\* A view is never counted in another hour than its own, however devices save
\* over each other, as long as no view came after the month (viewTrack).
THEOREM HoursStayTruthful == Spec => []HoursTruthful
<1>1. IInv => HoursTruthful
  BY DEF IInv
<1> QED
  BY <1>1, IInvHolds, PTL

\* The charts of views and likes of the insights, whenever they are opened, put an
\* hour at the same place but for two entries, the hours the screen has been open
\* and the lead of other clocks (GraphViewController).
THEOREM ChartsAgreeAlways == Spec => []ChartsAgree
<1>1. IInv => ChartsAgree
  <2> DEFINE passed(s) == Hours(s) - openedAt[s]
  <2> SUFFICES ASSUME IInv, NEW s \in Screens, phase[s] # "unopened", ~late,
                      NEW h \in 0..age, h + 1 \in DOMAIN copy[s].viewTrack,
                      NEW place \in PlacesInLikes(s, h)
               PROVE  place - PlaceInViews(copy[s].viewTrack, h)
                        \in (-passed(s))..(2 + MaxAhead - passed(s))
    BY DEF ChartsAgree
  <2> DEFINE track == copy[s].viewTrack
  <2>1. /\ track \in Seq(Nat) /\ Len(track) <= W /\ openedAt[s] \in Nat
        /\ openedAt[s] + 1 <= Len(track)
        /\ Len(track) <= openedAt[s] + 2 + MaxAhead
    BY DEF IInv, TypeOK, AllCopies, Views, EndsAtVisit
  <2> HIDE DEF track
  <2>2. Len(Chart(track)) = W
    <3>1. CASE Len(track) < W
      <4>1. W - Len(track) \in Nat
        BY <2>1, <3>1, WindowType
      <4>2. Zeros(W - Len(track)) \in Seq(Nat)
            /\ Len(Zeros(W - Len(track))) = W - Len(track)
        BY <4>1, ZerosType
      <4> QED
        BY <2>1, <3>1, <4>2, WindowType DEF Chart
    <3>2. CASE ~(Len(track) < W)
      BY <2>1, <3>2, WindowType DEF Chart
    <3> QED
      BY <3>1, <3>2
  <2>3. h \in Nat /\ Hours(s) \in Nat
    BY HoursType DEF IInv, TypeOK
  <2>4. PICK k \in {Hours(s) - h, Hours(s) - h - 1} : place = W - k
    BY DEF PlacesInLikes, HoursSince
  <2>5. PlaceInViews(track, h) = W - Len(track) + h + 1
    BY <2>2 DEF PlaceInViews
  <2>6. W \in Nat /\ Len(track) \in Nat /\ MaxAhead \in Nat
    BY <2>1, WindowType, AheadType
  <2>7. place - PlaceInViews(track, h) \in (-passed(s))..(2 + MaxAhead - passed(s))
    <3> DEFINE now == Hours(s)
               opened == openedAt[s]
               len == Len(track)
    <3>1. /\ W \in Nat /\ now \in Int /\ opened \in Nat /\ len \in Nat /\ h \in Nat
          /\ MaxAhead \in Nat /\ k \in {now - h, now - h - 1}
          /\ opened + 1 <= len /\ len <= opened + 2 + MaxAhead
      BY <2>1, <2>3, <2>4, <2>6
    <3> HIDE DEF now, opened, len
    <3>2. (W - k) - (W - len + h + 1)
             \in (-(now - opened))..(2 + MaxAhead - (now - opened))
      BY <3>1, PlaceArithmetic
    <3> QED
      BY <2>4, <2>5, <3>2 DEF now, opened, len
  <2> QED
    BY <2>7 DEF track
<1> QED
  BY <1>1, IInvHolds, PTL

-----------------------------------------------------------------------------
(***************************************************************************)
(* The sum of a history.  A visit adds one to it, unless entries that fall *)
(* out of the month take something away.                                   *)
(***************************************************************************)
LEMMA TotalIs ==
    ASSUME NEW track \in Seq(Nat)
    PROVE  /\ Total(track) = SumOn(track, 1..Len(track)) /\ Total(track) \in Nat
           /\ IsFiniteSet(1..Len(track)) /\ \A i \in 1..Len(track) : track[i] \in Nat
<1>1. DOMAIN track = 1..Len(track)
  OBVIOUS
<1>2. Total(track) = SumOn(track, DOMAIN track)
  BY DEF Total, FoldFunction, SumOn
<1>3. IsFiniteSet(1..Len(track))
  BY FS_Interval, 1 \in Int, Len(track) \in Int
<1>4. \A i \in 1..Len(track) : track[i] \in Nat
  OBVIOUS
<1>5. SumOn(track, 1..Len(track)) \in Nat
  BY <1>3, <1>4, SumNatural
<1> QED
  BY <1>1, <1>2, <1>3, <1>4, <1>5

\* Zeros behind a history do not count.
LEMMA TotalExtends ==
    ASSUME NEW track \in Seq(Nat), NEW n \in Nat, Len(track) <= n,
           NEW g, \A i \in 1..n : g[i] = IF i <= Len(track) THEN track[i] ELSE 0
    PROVE  SumOn(g, 1..n) = Total(track)
<1> DEFINE E == 1..Len(track)
           D == 1..n
<1>1. IsFiniteSet(D) /\ E \subseteq D
  BY FS_Interval, 1 \in Int, n \in Int
<1>2. \A i \in E : track[i] \in Int /\ g[i] = track[i]
  OBVIOUS
<1>3. \A i \in D \ E : g[i] = 0
  OBVIOUS
<1>4. \A i \in D : g[i] \in Int
  OBVIOUS
<1>5. Total(track) = SumOn(track, E) /\ Total(track) \in Nat
  BY TotalIs
<1> HIDE DEF D, E
<1>6. SumOn(g, D) = SumOn(g, E) + SumOn(g, D \ E)
  BY <1>1, <1>4, SumSplits
<1>7. SumOn(g, E) = SumOn(track, E)
  BY <1>1, <1>2, FS_Subset, SumSame
<1>8. SumOn(g, D \ E) = 0
  BY <1>1, <1>3, FS_Subset, SumZero
<1> QED
  BY <1>5, <1>6, <1>7, <1>8 DEF D

LEMMA TotalCounted ==
    ASSUME NEW track \in Seq(Nat), NEW hours \in Nat
    PROVE  Total(Counted(track, hours)) = Total(track) + 1
<1> DEFINE c == Counted(track, hours)
           n == Len(c)
           y == hours + 1
           g == [i \in 1..n |-> IF i <= Len(track) THEN track[i] ELSE 0]
<1>1. /\ c \in Seq(Nat) /\ y <= n /\ Len(track) <= n
      /\ \A i \in 1..n : c[i] = (IF i <= Len(track) THEN track[i] ELSE 0)
                                + (IF i = y THEN 1 ELSE 0)
  BY CountedKeeps
<1> HIDE DEF c
<1>2. n \in Nat /\ y \in 1..n
  BY <1>1
<1>3. \A i \in 1..n : /\ g[i] = IF i <= Len(track) THEN track[i] ELSE 0
                      /\ g[i] \in Int /\ c[i] \in Int
                      /\ c[i] = g[i] + (IF i = y THEN 1 ELSE 0)
  BY <1>1
<1> HIDE DEF g
<1>4. SumOn(g, 1..n) = Total(track)
  BY <1>1, <1>2, <1>3, TotalExtends
<1>5. IsFiniteSet(1..n)
  BY <1>2, FS_Interval, 1 \in Int, n \in Int
<1>6. Total(c) = SumOn(c, 1..n)
  BY <1>1, TotalIs
<1>7. c[y] - g[y] = 1
  BY <1>2, <1>3
<1>8. \A i \in 1..n : g[i] \in Int /\ c[i] \in Int /\ (i # y => c[i] = g[i])
  BY <1>3
<1> HIDE DEF n, y
<1>9. SumOn(c, 1..n) = SumOn(g, 1..n) + (c[y] - g[y])
  BY <1>2, <1>5, <1>8, SumChanges
<1> QED
  BY <1>4, <1>6, <1>7, <1>9 DEF c

LEMMA TotalTrimmed ==
    ASSUME NEW track \in Seq(Nat) PROVE Total(Trimmed(track)) <= Total(track)
<1>1. CASE Len(track) <= W
  <2>1. Trimmed(track) = track
    BY <1>1, TrimmedKeeps
  <2> QED
    BY <2>1, TotalIs
<1>2. CASE ~(Len(track) <= W)
  <2> DEFINE a == Len(track) - W
             t == Trimmed(track)
  <2>1. a \in Nat /\ W \in Nat /\ a + W = Len(track) /\ t = SubSeq(track, a + 1, a + W)
    BY <1>2, WindowType DEF Trimmed
  <2>2. /\ t \in Seq(Nat) /\ Len(t) = W
        /\ \A i \in 1..W : t[i] \in Int /\ track[a + i] = t[i]
    BY <2>1
  <2> DEFINE A == 1..W
             B == (a + 1)..(a + W)
             D == 1..Len(track)
  <2>3. B \subseteq D
    BY <2>1
  <2>5. A = 1..W /\ B = (a + 1)..(a + W) /\ W \in Nat
    BY <2>1
  <2>7. IsFiniteSet(D) /\ \A i \in D : track[i] \in Nat
    BY TotalIs
  <2> HIDE DEF a, t, A, B, D
  <2>8. SumOn(track, B) = SumOn(t, A)
    <3>1. SumFrom(track, a, W) = SumFrom(t, 0, W)
      BY <2>1, <2>2, SumShifts
    <3> QED
      BY <2>5, <3>1, (0 + 1)..(0 + W) = 1..W DEF SumFrom
  <2>9. SumOn(track, B) <= SumOn(track, D)
    BY <2>3, <2>7, SumOfPart
  <2>6. Total(t) = SumOn(t, 1..W) /\ Total(track) = SumOn(track, 1..Len(track))
    BY <2>2, TotalIs
  <2> QED
    BY <2>6, <2>8, <2>9 DEF t, A, D
<1> QED
  BY <1>1, <1>2

LEMMA TotalMerged ==
    ASSUME NEW old \in Seq(Nat), NEW new \in Seq(Nat)
    PROVE  Total(Merged(old, new)) = Total(old) + Total(new)
<1> DEFINE n == IF Len(old) < Len(new) THEN Len(new) ELSE Len(old)
           m == Merged(old, new)
           f == [i \in 1..n |-> IF i <= Len(old) THEN old[i] ELSE 0]
           g == [i \in 1..n |-> IF i <= Len(new) THEN new[i] ELSE 0]
<1>1. n \in Nat /\ Len(old) <= n /\ Len(new) <= n
  OBVIOUS
<1>2. m = [j \in 1..n |-> (IF j \in DOMAIN old THEN old[j] ELSE 0)
                          + (IF j \in DOMAIN new THEN new[j] ELSE 0)]
  BY DEF Merged
<1> HIDE DEF n, m
<1>3. \A i \in 1..n : /\ (i \in DOMAIN old) = (i <= Len(old))
                      /\ (i \in DOMAIN new) = (i <= Len(new))
  BY <1>1
<1>4. \A i \in 1..n : f[i] \in Nat /\ g[i] \in Nat /\ m[i] = f[i] + g[i]
  BY <1>1, <1>2, <1>3
<1>5. m \in Seq(Nat) /\ Len(m) = n
  BY <1>1, <1>2, <1>4, SMTT(20)
<1>6. /\ \A i \in 1..n : f[i] = IF i <= Len(old) THEN old[i] ELSE 0
      /\ \A i \in 1..n : g[i] = IF i <= Len(new) THEN new[i] ELSE 0
  OBVIOUS
<1> HIDE DEF f, g
<1>7. SumOn(f, 1..n) = Total(old) /\ SumOn(g, 1..n) = Total(new)
  BY <1>1, <1>6, TotalExtends
<1>8. IsFiniteSet(1..n)
  BY <1>1, FS_Interval, 1 \in Int, n \in Int
<1>9. \A i \in 1..n : f[i] \in Int /\ g[i] \in Int /\ m[i] = f[i] + g[i]
  BY <1>4
<1>10. SumOn(m, 1..n) = SumOn(f, 1..n) + SumOn(g, 1..n)
  <2> DEFINE D == 1..n
  <2> SUFFICES SumOn(m, D) = SumOn(f, D) + SumOn(g, D)
    OBVIOUS
  <2>1. IsFiniteSet(D) /\ \A i \in D : f[i] \in Int /\ g[i] \in Int /\ m[i] = f[i] + g[i]
    BY <1>8, <1>9
  <2> HIDE DEF D
  <2> QED
    BY <2>1, SumAdd
<1> QED
  BY <1>5, <1>7, <1>10, TotalIs DEF m

-----------------------------------------------------------------------------
AddsUp(p) == /\ Total(p.viewTrack) <= p.numViews
             /\ ~late => Total(p.viewTrack) = p.numViews

SumInv == IInv /\ \A p \in AllCopies : AddsUp(p)

LEMMA SumInit == Init => SumInv
<1> SUFFICES ASSUME Init PROVE SumInv
  OBVIOUS
<1>1. \A p \in AllCopies : p.viewTrack = <<>> /\ p.numViews = 0
  BY DEF Init, AllCopies
<1>2. Total(<<>>) = 0
  <2>1. <<>> \in Seq(Nat) /\ Len(<<>>) = 0 /\ 1..0 = {}
    OBVIOUS
  <2>2. Total(<<>>) = SumOn(<<>>, {})
    BY <2>1, TotalIs
  <2> QED
    BY <2>2, SumUnfolds, FS_EmptySet
<1> QED
  BY <1>1, <1>2, IInvInit DEF SumInv, AddsUp

LEMMA SumOpen ==
    ASSUME SumInv, NEW s \in Screens, Open(s) PROVE \A p \in AllCopies' : AddsUp(p)'
<1> DEFINE v == Viewed(row, Hours(s))
           c == Counted(row.viewTrack, Hours(s))
<1>1. TypeOK /\ Hours(s) \in Nat /\ row \in Views /\ Len(row.viewTrack) <= W
      /\ row.viewTrack \in Seq(Nat) /\ AddsUp(row)
  BY HoursType, CopyType DEF SumInv, IInv, AllCopies
<1>2. /\ row' = row /\ copy' = [copy EXCEPT ![s] = v]
      /\ late' = (late \/ Hours(s) >= W - 1) /\ copy \in [Screens -> Views]
  BY <1>1 DEF Open, TypeOK
<1>3. v.numViews = row.numViews + 1 /\ v.viewTrack = Trimmed(c) /\ row.numViews \in Nat
  BY <1>1, ViewedIsTrimmed DEF Views
<1>4. c \in Seq(Nat) /\ Total(c) = Total(row.viewTrack) + 1
  BY <1>1, CountedKeeps, TotalCounted
<1>5. Trimmed(c) \in Seq(Nat) /\ Total(Trimmed(c)) <= Total(c)
  BY <1>4, TrimmedKeeps, TotalTrimmed
<1>6. Total(row.viewTrack) \in Nat /\ Total(c) \in Nat /\ Total(Trimmed(c)) \in Nat
  BY <1>1, <1>4, <1>5, TotalIs
<1>7. late \in BOOLEAN
  BY <1>1 DEF TypeOK
<1>8. Total(v.viewTrack) <= v.numViews
  BY <1>1, <1>3, <1>4, <1>5, <1>6 DEF AddsUp
<1>9. ~late' => Total(v.viewTrack) = v.numViews
  <2> SUFFICES ASSUME ~late' PROVE Total(v.viewTrack) = v.numViews
    OBVIOUS
  <2>1. ~late /\ ~(Hours(s) >= W - 1)
    BY <1>2
  <2>2. Hours(s) < W - 1
    BY <1>1, <2>1, WindowType
  <2>3. v.viewTrack = c
    BY <1>1, <2>2, ViewedBeforeTheMonth
  <2> QED
    BY <1>1, <1>3, <1>4, <2>1, <2>3 DEF AddsUp
<1> HIDE DEF v
<1>10. \A p \in AllCopies' : p \in AllCopies \/ p = v
  BY <1>2 DEF AllCopies
<1>11. ~late' => ~late
  BY <1>2, <1>7, Zenon
<1> QED
  BY <1>8, <1>9, <1>10, <1>11 DEF SumInv, AddsUp

LEMMA SumNext == SumInv /\ [Next]_vars => SumInv'
<1> SUFFICES ASSUME SumInv, [Next]_vars PROVE SumInv'
  OBVIOUS
<1>1. IInv'
  BY IInvNext DEF SumInv
<1>2. ASSUME NEW s \in Screens, Open(s) PROVE SumInv'
  BY <1>1, <1>2, SumOpen DEF SumInv
<1>3. ASSUME late' = late, AllCopies' \subseteq AllCopies PROVE SumInv'
  BY <1>1, <1>3 DEF SumInv, AddsUp
<1>4. ASSUME NEW s \in Screens, SaveDone(s) \/ SaveExecuted(s) \/ SaveFails(s) \/ SaveAgain(s)
      PROVE  late' = late /\ AllCopies' \subseteq AllCopies
  BY <1>4 DEF SaveDone, SaveExecuted, SaveFails, SaveAgain, Saved, AllCopies, historyVars
<1>5. CASE Hour \/ UNCHANGED vars
  <2>1. late' = late /\ AllCopies' \subseteq AllCopies
    BY <1>5 DEF Hour, vars, historyVars, AllCopies
  <2> QED
    BY <1>3, <2>1
<1> QED
  BY <1>2, <1>3, <1>4, <1>5 DEF Next

\* The two fields viewed: changes never part: however devices save over each
\* other, numViews is the sum of viewTrack until the month is over and at least
\* the sum ever after, and the chart of two posts has the views of both.
THEOREM ViewsAlwaysAddUp == Spec => []ViewsAddUp
<1>1. SumInv => ViewsAddUp
  <2> SUFFICES ASSUME SumInv, NEW p \in AllCopies, NEW q \in AllCopies
               PROVE  /\ AddsUp(p)
                      /\ Total(Merged(p.viewTrack, q.viewTrack)) =
                            Total(p.viewTrack) + Total(q.viewTrack)
    BY DEF ViewsAddUp, AddsUp
  <2>1. p.viewTrack \in Seq(Nat) /\ q.viewTrack \in Seq(Nat)
    BY CopyType DEF SumInv, IInv
  <2> QED
    BY <2>1, TotalMerged DEF SumInv
<1> QED
  BY <1>1, SumInit, SumNext, PTL DEF Spec
=============================================================================
