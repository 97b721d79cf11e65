----------------------------- MODULE SumTheorems -----------------------------
(***************************************************************************)
(* Sums: what Functions!FoldFunctionOnSet computes for + over a finite     *)
(* set, as the histories of ViewTrack and the counters of DetailLikes use  *)
(* it.  A fold takes its elements in an order that CHOOSE fixes; a sum     *)
(* does not depend on it.                                                  *)
(*                                                                         *)
(* Induction on sets is stated for a set of subsets instead of a           *)
(* predicate: G holds those the claim is true of.                          *)
(***************************************************************************)
EXTENDS Integers, Sequences, FiniteSets, Functions, FiniteSetTheorems,
        WellFoundedInduction, TLAPS

SumOn(f, D) == FoldFunctionOnSet(+, 0, f, D)

-----------------------------------------------------------------------------
LEMMA Smallest ==
    ASSUME NEW T, T \subseteq Nat, T # {} PROVE \E x \in T : \A y \in T : x <= y
<1>1. PICK R : /\ \A y \in T, x \in T : y < x => <<y, x>> \in R
               /\ \E x \in T : \A y \in T : ~(<<y, x>> \in R)
  <2> DEFINE Q == OpToRel(<, Nat)
  <2>1. \E x \in T : \A y \in T : ~(<<y, x>> \in Q)
    BY NatLessThanWellFounded, WFMin
  <2>2. \A x, y \in Nat : x < y => <<x, y>> \in Q
    BY DEF OpToRel
  <2>3. \A x, y \in T : x < y => <<x, y>> \in Q
    BY <2>2, Zenon
  <2> HIDE DEF Q
  <2> QED
    BY <2>1, <2>3, Zenon
<1>2. PICK x \in T : \A y \in T : ~(<<y, x>> \in R)
  BY <1>1, Zenon
<1>3. ASSUME NEW y \in T PROVE x <= y
  <2>1. ~(y < x)
    BY <1>1, <1>2, Zenon
  <2>2. x \in Int /\ y \in Int
    OBVIOUS
  <2> HIDE <1>1, <1>2
  <2> QED
    BY <2>1, <2>2
<1> QED
  BY <1>3, Zenon

LEMMA NatSets ==
    ASSUME NEW N, 0 \in N, \A n \in Nat : n \in N => n + 1 \in N
    PROVE  Nat \subseteq N
<1> DEFINE T == Nat \ N
<1> SUFFICES ASSUME T # {} PROVE FALSE
  OBVIOUS
<1>1. PICK x \in T : \A y \in T : x <= y
  BY Smallest
<1>2. x \in Nat /\ x \notin N /\ x # 0
  OBVIOUS
<1>3. x - 1 \in Nat /\ ~(x <= x - 1)
  BY <1>2
<1>4. x - 1 \in N
  BY <1>1, <1>3
<1>5. x - 1 + 1 = x
  BY <1>2
<1> QED
  BY <1>2, <1>3, <1>4, <1>5

LEMMA SetInduction ==
    ASSUME NEW D, IsFiniteSet(D), NEW G, {} \in G,
           \A s \in SUBSET D : s # {} /\ (\A x \in s : s \ {x} \in G) => s \in G
    PROVE  SUBSET D \subseteq G
<1> DEFINE Small(n) == {s \in SUBSET D : Cardinality(s) <= n}
           N == {n \in Nat : Small(n) \subseteq G}
<1>1. \A s \in SUBSET D : IsFiniteSet(s) /\ Cardinality(s) \in Nat
  BY FS_Subset, FS_CardinalityType
<1>2. 0 \in N
  <2>1. ASSUME NEW s \in Small(0) PROVE s = {}
    <3>1. IsFiniteSet(s) /\ Cardinality(s) = 0
      BY <1>1
    <3> QED
      BY <3>1, FS_EmptySet
  <2> QED
    BY <2>1
<1>3. ASSUME NEW n \in N PROVE n + 1 \in N
  <2>1. ASSUME NEW s \in Small(n + 1), s # {}, NEW x \in s PROVE s \ {x} \in G
    <3>1. Cardinality(s \ {x}) = Cardinality(s) - 1
      BY <1>1, FS_RemoveElement
    <3>2. s \ {x} \in Small(n)
      BY <1>1, <3>1
    <3> QED
      BY <3>2
  <2>2. ASSUME NEW s \in Small(n + 1) PROVE s \in G
    BY <2>1, <2>2
  <2> QED
    BY <2>2
<1> HIDE DEF N
<1>4. Nat \subseteq N
  BY <1>2, <1>3, NatSets
<1> QED
  BY <1>1, <1>4 DEF N

-----------------------------------------------------------------------------
(***************************************************************************)
(* The function over subsets that a fold chooses exists.                   *)
(***************************************************************************)
First(s) == CHOOSE x \in s : TRUE

\* One step of the fold, from what g says of smaller sets.
Unfolded(f, g, s) == IF s = {} THEN 0 ELSE f[First(s)] + g[s \ {First(s)}]
Iterates(f, D, g) == g = [s \in SUBSET D |-> Unfolded(f, g, s)]

LEMMA SumIs ==
    ASSUME NEW f, NEW D
    PROVE  SumOn(f, D) = (CHOOSE g : Iterates(f, D, g))[D]
BY DEF SumOn, FoldFunctionOnSet, MapThenFoldSet, Iterates, Unfolded, First

LEMMA FirstIn == ASSUME NEW s, s # {} PROVE First(s) \in s
BY DEF First

\* The sets of at most n elements.
Level(D, n) == {s \in SUBSET D : Cardinality(s) <= n}
IteratesTo(f, D, n, g) == g = [s \in Level(D, n) |-> Unfolded(f, g, s)]

LEMMA IterationExists ==
    ASSUME NEW f, NEW D, IsFiniteSet(D)
    PROVE  \E g : Iterates(f, D, g)
<1> DEFINE N == {n \in Nat : \E g : IteratesTo(f, D, n, g)}
<1>1. \A s \in SUBSET D : IsFiniteSet(s) /\ Cardinality(s) \in Nat
  BY FS_Subset, FS_CardinalityType
<1>2. 0 \in N
  <2> DEFINE g == [s \in Level(D, 0) |-> 0]
  <2>1. ASSUME NEW s \in Level(D, 0) PROVE s = {}
    <3>1. IsFiniteSet(s) /\ Cardinality(s) = 0
      BY <1>1 DEF Level
    <3> QED
      BY <3>1, FS_EmptySet
  <2>2. IteratesTo(f, D, 0, g)
    BY <2>1 DEF IteratesTo, Unfolded
  <2> HIDE DEF g
  <2> QED
    BY <2>2
<1>3. ASSUME NEW n \in N PROVE n + 1 \in N
  <2>1. PICK g : IteratesTo(f, D, n, g)
    OBVIOUS
  <2> DEFINE h == [s \in Level(D, n + 1) |-> Unfolded(f, g, s)]
  <2>2. n \in Nat /\ Level(D, n) \subseteq Level(D, n + 1)
    BY <1>1 DEF Level
  <2>3. \A s \in Level(D, n) : h[s] = g[s]
    <3>1. \A s \in Level(D, n) : g[s] = Unfolded(f, g, s)
      BY <2>1 DEF IteratesTo
    <3> QED
      BY <2>2, <3>1
  <2>4. ASSUME NEW s \in Level(D, n + 1) PROVE Unfolded(f, g, s) = Unfolded(f, h, s)
    <3>1. CASE s = {}
      BY <3>1 DEF Unfolded
    <3>2. CASE s # {}
      <4> DEFINE x == First(s)
      <4>1. x \in s
        BY <3>2, FirstIn
      <4> HIDE DEF x
      <4>2. Cardinality(s \ {x}) = Cardinality(s) - 1
        BY <1>1, <4>1, FS_RemoveElement DEF Level
      <4>3. s \ {x} \in Level(D, n)
        BY <1>1, <2>2, <4>2 DEF Level
      <4>4. g[s \ {x}] = h[s \ {x}]
        BY <2>3, <4>3
      <4> HIDE DEF h
      <4> QED
        BY <4>4 DEF Unfolded, x
    <3> QED
      BY <3>1, <3>2
  <2>5. IteratesTo(f, D, n + 1, h)
    <3>1. h = [s \in Level(D, n + 1) |-> Unfolded(f, h, s)]
      BY <2>4
    <3> QED
      BY <3>1 DEF IteratesTo
  <2> HIDE DEF h
  <2> QED
    BY <2>2, <2>5
<1> HIDE DEF N
<1>4. Cardinality(D) \in N
  BY <1>1, <1>2, <1>3, NatSets
<1>5. Level(D, Cardinality(D)) = SUBSET D
  BY FS_Subset DEF Level
<1> QED
  BY <1>4, <1>5 DEF N, IteratesTo, Iterates

\* The sums over the subsets of a finite set, as one function.
LEMMA SumsExist ==
    ASSUME NEW f, NEW D, IsFiniteSet(D)
    PROVE  \E g : Iterates(f, D, g) /\ SumOn(f, D) = g[D]
BY IterationExists, SumIs

LEMMA SumsAgree ==
    ASSUME NEW f, NEW D, IsFiniteSet(D), NEW g, Iterates(f, D, g)
    PROVE  \A E \in SUBSET D : \A h : Iterates(f, E, h) => g[E] = h[E]
<1> SUFFICES ASSUME NEW E \in SUBSET D, NEW h, Iterates(f, E, h)
             PROVE  g[E] = h[E]
  OBVIOUS
<1> DEFINE G == {s \in SUBSET E : g[s] = h[s]}
<1>1. /\ \A s \in SUBSET E : g[s] = Unfolded(f, g, s) /\ h[s] = Unfolded(f, h, s)
      /\ IsFiniteSet(E)
  BY FS_Subset DEF Iterates
<1>2. {} \in G
  BY <1>1 DEF Unfolded
<1>3. ASSUME NEW s \in SUBSET E, s # {}, \A x \in s : s \ {x} \in G PROVE s \in G
  <2>1. g[s \ {First(s)}] = h[s \ {First(s)}]
    BY <1>3, FirstIn
  <2> QED
    BY <1>1, <2>1 DEF Unfolded
<1> HIDE DEF G
<1>4. SUBSET E \subseteq G
  BY <1>1, <1>2, <1>3, SetInduction
<1> QED
  BY <1>4 DEF G

-----------------------------------------------------------------------------
(***************************************************************************)
(* Sums over finite sets.                                                  *)
(***************************************************************************)
LEMMA SumUnfolds ==
    ASSUME NEW f, NEW D, IsFiniteSet(D)
    PROVE  SumOn(f, D) = IF D = {} THEN 0 ELSE f[First(D)] + SumOn(f, D \ {First(D)})
<1>1. PICK g : Iterates(f, D, g) /\ SumOn(f, D) = g[D]
  BY SumsExist
<1>2. SumOn(f, D) = Unfolded(f, g, D)
  BY <1>1 DEF Iterates
<1>3. ASSUME NEW E, E \subseteq D PROVE SumOn(f, E) = g[E]
  <2>1. PICK h : Iterates(f, E, h) /\ SumOn(f, E) = h[E]
    BY <1>3, SumsExist, FS_Subset
  <2>2. Iterates(f, D, g) /\ Iterates(f, E, h)
    BY <1>1, <2>1
  <2>3. g[E] = h[E]
    BY <1>3, <2>2, SumsAgree
  <2> QED
    BY <2>1, <2>3
<1>4. SumOn(f, D \ {First(D)}) = g[D \ {First(D)}]
  BY <1>3
<1> QED
  BY <1>2, <1>4 DEF Unfolded

LEMMA SumType ==
    ASSUME NEW f, NEW D, IsFiniteSet(D), \A x \in D : f[x] \in Int
    PROVE  SumOn(f, D) \in Int
<1> DEFINE G == {s \in SUBSET D : SumOn(f, s) \in Int}
<1>1. {} \in G
  <2>1. SumOn(f, {}) = 0
    BY SumUnfolds, FS_EmptySet
  <2> QED
    BY <2>1
<1>2. ASSUME NEW s \in SUBSET D, s # {}, \A x \in s : s \ {x} \in G PROVE s \in G
  <2>1. SumOn(f, s) = f[First(s)] + SumOn(f, s \ {First(s)})
    BY <1>2, SumUnfolds, FS_Subset
  <2>2. f[First(s)] \in Int /\ SumOn(f, s \ {First(s)}) \in Int
    BY <1>2, FirstIn
  <2> QED
    BY <2>1, <2>2
<1> HIDE DEF G
<1>3. SUBSET D \subseteq G
  BY <1>1, <1>2, SetInduction
<1> QED
  BY <1>3 DEF G

\* Any element may come first.
LEMMA SumTakes ==
    ASSUME NEW f, NEW D, IsFiniteSet(D), \A x \in D : f[x] \in Int
    PROVE  /\ SumOn(f, {}) = 0 /\ SumOn(f, D) \in Int
           /\ \A y \in D : SumOn(f, D) = f[y] + SumOn(f, D \ {y})
<1> DEFINE G == {s \in SUBSET D : \A y \in s : SumOn(f, s) = f[y] + SumOn(f, s \ {y})}
<1>0. \A s \in SUBSET D : SumOn(f, s) \in Int
  BY SumType, FS_Subset
<1>1. SumOn(f, {}) = 0
  BY SumUnfolds, FS_EmptySet
<1>2. {} \in G
  BY <1>1
<1>3. ASSUME NEW s \in SUBSET D, s # {}, \A x \in s : s \ {x} \in G PROVE s \in G
  <2> DEFINE x == First(s)
  <2>1. x \in s /\ SumOn(f, s) = f[x] + SumOn(f, s \ {x})
    BY <1>3, SumUnfolds, FS_Subset, FirstIn
  <2> HIDE DEF x
  <2>2. s \ {x} \in G /\ f[x] \in Int
    BY <1>3, <2>1
  <2>4. ASSUME NEW y \in s, y # x PROVE SumOn(f, s) = f[y] + SumOn(f, s \ {y})
    <3>1. s \ {y} \in G /\ f[y] \in Int
      BY <1>3
    <3>2. SumOn(f, s \ {x}) = f[y] + SumOn(f, (s \ {x}) \ {y})
      BY <2>2, <2>4
    <3>3. SumOn(f, s \ {y}) = f[x] + SumOn(f, (s \ {y}) \ {x})
      BY <2>1, <2>4, <3>1
    <3>4. (s \ {x}) \ {y} = (s \ {y}) \ {x}
      OBVIOUS
    <3>5. SumOn(f, (s \ {x}) \ {y}) \in Int
      <4>1. (s \ {x}) \ {y} \in SUBSET D
        OBVIOUS
      <4> QED
        BY <1>0, <4>1
    <3>6. SumOn(f, s) = f[x] + (f[y] + SumOn(f, (s \ {x}) \ {y}))
      BY <2>1, <3>2
    <3>7. SumOn(f, s \ {y}) = f[x] + SumOn(f, (s \ {x}) \ {y})
      BY <3>3, <3>4
    <3> HIDE DEF G
    <3> QED
      BY <2>2, <3>1, <3>5, <3>6, <3>7
  <2> QED
    BY <2>1, <2>4
<1> HIDE DEF G
<1>4. SUBSET D \subseteq G
  BY <1>2, <1>3, SetInduction
<1> QED
  BY <1>0, <1>1, <1>4 DEF G

LEMMA SumAdd ==
    ASSUME NEW f, NEW g, NEW h, NEW D, IsFiniteSet(D),
           \A x \in D : f[x] \in Int /\ g[x] \in Int /\ h[x] = f[x] + g[x]
    PROVE  SumOn(h, D) = SumOn(f, D) + SumOn(g, D)
<1> DEFINE G == {s \in SUBSET D : SumOn(h, s) = SumOn(f, s) + SumOn(g, s)}
<1>1. \A x \in D : h[x] \in Int
  OBVIOUS
<1>2. {} \in G
  <2>1. SumOn(h, {}) = 0 /\ SumOn(f, {}) = 0 /\ SumOn(g, {}) = 0
    BY SumUnfolds, FS_EmptySet
  <2> QED
    BY <2>1
<1>3. ASSUME NEW s \in SUBSET D, s # {}, \A x \in s : s \ {x} \in G PROVE s \in G
  <2>1. PICK x \in s : TRUE
    BY <1>3
  <2>2. IsFiniteSet(s) /\ IsFiniteSet(s \ {x})
    BY FS_Subset
  <2>3. SumOn(h, s) = h[x] + SumOn(h, s \ {x})
    BY <1>1, <2>2, SumTakes
  <2>4. SumOn(f, s) = f[x] + SumOn(f, s \ {x}) /\ SumOn(f, s \ {x}) \in Int
    BY <2>2, SumTakes
  <2>5. SumOn(g, s) = g[x] + SumOn(g, s \ {x}) /\ SumOn(g, s \ {x}) \in Int
    BY <2>2, SumTakes
  <2>6. SumOn(h, s \ {x}) = SumOn(f, s \ {x}) + SumOn(g, s \ {x})
    BY <1>3
  <2>7. f[x] \in Int /\ g[x] \in Int /\ h[x] = f[x] + g[x]
    OBVIOUS
  <2>8. SumOn(h, s) = SumOn(f, s) + SumOn(g, s)
    <3> HIDE DEF G
    <3> QED
      BY <2>3, <2>4, <2>5, <2>6, <2>7
  <2> QED
    BY <2>8
<1> HIDE DEF G
<1>4. SUBSET D \subseteq G
  BY <1>2, <1>3, SetInduction
<1> QED
  BY <1>4 DEF G

LEMMA SumZero ==
    ASSUME NEW f, NEW D, IsFiniteSet(D), \A x \in D : f[x] = 0
    PROVE  SumOn(f, D) = 0
<1>1. SumOn(f, D) = SumOn(f, D) + SumOn(f, D)
  BY SumAdd
<1>2. SumOn(f, D) \in Int
  BY SumType
<1>3. \A m, n \in Int : m = n + n /\ m = n => m = 0
  OBVIOUS
<1> QED
  BY <1>1, <1>2, <1>3

LEMMA SumSame ==
    ASSUME NEW f, NEW g, NEW D, IsFiniteSet(D), \A x \in D : f[x] \in Int /\ g[x] = f[x]
    PROVE  SumOn(g, D) = SumOn(f, D)
<1> DEFINE z == [x \in D |-> 0]
<1>1. SumOn(z, D) = 0
  BY SumZero
<1>2. \A x \in D : f[x] \in Int /\ z[x] \in Int /\ g[x] = f[x] + z[x]
  OBVIOUS
<1> HIDE DEF z
<1>3. SumOn(g, D) = SumOn(f, D) + SumOn(z, D)
  BY <1>2, SumAdd
<1> QED
  BY <1>1, <1>3, SumType

LEMMA SumNatural ==
    ASSUME NEW f, NEW D, IsFiniteSet(D), \A x \in D : f[x] \in Nat
    PROVE  SumOn(f, D) \in Nat
<1> DEFINE G == {s \in SUBSET D : SumOn(f, s) \in Nat}
<1>1. {} \in G
  <2>1. SumOn(f, {}) = 0
    BY SumUnfolds, FS_EmptySet
  <2> QED
    BY <2>1
<1>2. ASSUME NEW s \in SUBSET D, s # {}, \A x \in s : s \ {x} \in G PROVE s \in G
  <2>1. PICK x \in s : TRUE
    BY <1>2
  <2>2. SumOn(f, s) = f[x] + SumOn(f, s \ {x})
    BY FS_Subset, SumTakes
  <2>3. f[x] \in Nat /\ SumOn(f, s \ {x}) \in Nat
    BY <1>2
  <2> QED
    BY <2>2, <2>3
<1> HIDE DEF G
<1>3. SUBSET D \subseteq G
  BY <1>1, <1>2, SetInduction
<1> QED
  BY <1>3 DEF G

\* A sum over two parts.
LEMMA SumSplits ==
    ASSUME NEW f, NEW D, IsFiniteSet(D), \A x \in D : f[x] \in Int, NEW E, E \subseteq D
    PROVE  SumOn(f, D) = SumOn(f, E) + SumOn(f, D \ E)
<1> DEFINE G == {s \in SUBSET (D \ E) : SumOn(f, E \cup s) = SumOn(f, E) + SumOn(f, s)}
<1>1. IsFiniteSet(E) /\ IsFiniteSet(D \ E) /\ SumOn(f, E) \in Int
  BY FS_Subset, SumType
<1>2. {} \in G
  <2>1. SumOn(f, {}) = 0 /\ E \cup {} = E
    BY SumUnfolds, FS_EmptySet
  <2> QED
    BY <1>1, <2>1
<1>3. ASSUME NEW s \in SUBSET (D \ E), s # {}, \A x \in s : s \ {x} \in G PROVE s \in G
  <2>1. PICK x \in s : TRUE
    BY <1>3
  <2>2. IsFiniteSet(s) /\ IsFiniteSet(E \cup s) /\ IsFiniteSet(s \ {x})
    BY FS_Subset
  <2>3. SumOn(f, s) = f[x] + SumOn(f, s \ {x}) /\ SumOn(f, s \ {x}) \in Int
    BY <2>2, SumTakes
  <2>4. SumOn(f, E \cup s) = f[x] + SumOn(f, (E \cup s) \ {x})
    BY <2>2, SumTakes
  <2>5. (E \cup s) \ {x} = E \cup (s \ {x})
    OBVIOUS
  <2>6. SumOn(f, E \cup (s \ {x})) = SumOn(f, E) + SumOn(f, s \ {x})
    BY <1>3
  <2>7. f[x] \in Int
    OBVIOUS
  <2>8. SumOn(f, E \cup s) = SumOn(f, E) + SumOn(f, s)
    <3>1. SumOn(f, E \cup s) = f[x] + (SumOn(f, E) + SumOn(f, s \ {x}))
      BY <2>4, <2>5, <2>6
    <3> HIDE DEF G
    <3> QED
      BY <1>1, <2>3, <2>7, <3>1
  <2> QED
    BY <2>8
<1> HIDE DEF G
<1>4. SUBSET (D \ E) \subseteq G
  BY <1>1, <1>2, <1>3, SetInduction
<1>5. E \cup (D \ E) = D
  OBVIOUS
<1> QED
  BY <1>4, <1>5 DEF G

LEMMA SumOfPart ==
    ASSUME NEW f, NEW D, IsFiniteSet(D), \A x \in D : f[x] \in Nat, NEW E, E \subseteq D
    PROVE  SumOn(f, E) <= SumOn(f, D)
<1>1. SumOn(f, D) = SumOn(f, E) + SumOn(f, D \ E)
  BY SumSplits
<1>2. SumOn(f, E) \in Nat /\ SumOn(f, D \ E) \in Nat
  BY FS_Subset, SumNatural
<1> QED
  BY <1>1, <1>2

\* One entry changes.
LEMMA SumChanges ==
    ASSUME NEW f, NEW g, NEW D, IsFiniteSet(D), NEW y \in D,
           \A x \in D : f[x] \in Int /\ g[x] \in Int /\ (x # y => g[x] = f[x])
    PROVE  SumOn(g, D) = SumOn(f, D) + (g[y] - f[y])
<1>1. SumOn(f, D) = f[y] + SumOn(f, D \ {y}) /\ SumOn(g, D) = g[y] + SumOn(g, D \ {y})
  BY SumTakes
<1>2. IsFiniteSet(D \ {y})
  BY FS_Subset
<1>3. SumOn(g, D \ {y}) = SumOn(f, D \ {y})
  BY <1>2, SumSame
<1>4. SumOn(f, D \ {y}) \in Int
  BY <1>2, SumType
<1> QED
  BY <1>1, <1>3, <1>4

\* An interval is summed from its end.
LEMMA SumLast ==
    ASSUME NEW f, NEW a \in Int, NEW b \in Int, a <= b + 1,
           \A i \in a..(b + 1) : f[i] \in Int
    PROVE  SumOn(f, a..(b + 1)) = f[b + 1] + SumOn(f, a..b)
<1>1. PICK D, y : D = a..(b + 1) /\ y = b + 1
  OBVIOUS
<1>2. IsFiniteSet(D)
  BY <1>1, FS_Interval, b + 1 \in Int
<1>3. y \in D /\ D \ {y} = a..b
  BY <1>1
<1>4. \A x \in D : f[x] \in Int
  BY <1>1
<1>5. SumOn(f, D) = f[y] + SumOn(f, D \ {y})
  BY <1>2, <1>3, <1>4, SumTakes
<1> QED
  BY <1>1, <1>3, <1>5

\* The same entries, at a places more.
SumFrom(f, a, n) == SumOn(f, (a + 1)..(a + n))

LEMMA SumShifts ==
    ASSUME NEW f, NEW g, NEW a \in Nat, NEW m \in Nat,
           \A i \in 1..m : f[i] \in Int /\ g[a + i] = f[i]
    PROVE  SumFrom(g, a, m) = SumFrom(f, 0, m)
<1> SUFFICES SumOn(g, (a + 1)..(a + m)) = SumOn(f, 1..m)
  BY (0 + 1)..(0 + m) = 1..m DEF SumFrom
<1> DEFINE N == {n \in Nat : n <= m => SumOn(g, (a + 1)..(a + n)) = SumOn(f, 1..n)}
<1>1. 0 \in N
  <2>1. SumOn(f, {}) = 0 /\ SumOn(g, {}) = 0
    BY SumUnfolds, FS_EmptySet
  <2>2. 1..0 = {} /\ (a + 1)..(a + 0) = {}
    OBVIOUS
  <2> QED
    BY <2>1, <2>2
<1>2. ASSUME NEW n \in N PROVE n + 1 \in N
  <2>1. n \in Nat
    OBVIOUS
  <2> SUFFICES ASSUME n + 1 <= m
               PROVE  SumOn(g, (a + 1)..(a + (n + 1))) = SumOn(f, 1..(n + 1))
    BY <2>1
  <2>2. \A i \in 1..(n + 1) : f[i] \in Int
    BY <2>1
  <2>3. SumOn(f, 1..(n + 1)) = f[n + 1] + SumOn(f, 1..n)
    BY <2>1, <2>2, SumLast
  <2>4. ASSUME NEW j \in (a + 1)..((a + n) + 1) PROVE g[j] \in Int
    <3>1. j - a \in 1..m /\ a + (j - a) = j
      BY <2>1
    <3> QED
      BY <3>1
  <2>5. a + 1 \in Int /\ a + n \in Int /\ a + 1 <= (a + n) + 1 /\ (a + n) + 1 = a + (n + 1)
    BY <2>1
  <2>6. SumOn(g, (a + 1)..((a + n) + 1)) = g[(a + n) + 1] + SumOn(g, (a + 1)..(a + n))
    BY <2>4, <2>5, SumLast
  <2>7. g[a + (n + 1)] = f[n + 1]
    BY <2>1
  <2>8. SumOn(g, (a + 1)..(a + n)) = SumOn(f, 1..n)
    BY <2>1
  <2> HIDE DEF N
  <2> QED
    BY <2>3, <2>5, <2>6, <2>7, <2>8
<1> HIDE DEF N
<1>3. m \in N
  BY <1>1, <1>2, NatSets
<1> QED
  BY <1>3 DEF N
=============================================================================
