----------------------------- MODULE FoldProofs -----------------------------
(***************************************************************************)
(* Least numbers, sets of positions, and what a fold over a sequence       *)
(* keeps.  FoldLeft of the community modules is MapThenFoldSet, which      *)
(* chooses a function on sets of positions: there is one (FoldExists), and *)
(* what holds at the start and is kept by each step holds of it            *)
(* (FoldWithin).  A module that proves something about a FoldLeft unfolds  *)
(* it and cites FoldHas and FoldMeets.                                     *)
(***************************************************************************)
EXTENDS SequencesExt, FiniteSetTheorems, WellFoundedInduction, TLAPS

\* A set of numbers that is not empty has a least element.
LEMMA LeastNat ==
    ASSUME NEW T, T \subseteq Nat, T # {}
    PROVE  \E x \in T : \A y \in T : x <= y
<1>1. PICK x \in T : \A y \in T : <<y, x>> \notin OpToRel(<, Nat)
  BY NatLessThanWellFounded, WFMin
<1>2. \A y \in T : ~ (y < x)
  BY <1>1 DEF OpToRel
<1> QED  BY <1>2

\* Sets of positions are finite.
LEMMA PositionsAre ==
    ASSUME NEW n \in Nat, NEW s \in SUBSET (1..n)
    PROVE  IsFiniteSet(s) /\ Cardinality(s) \in Nat /\ Cardinality(s) <= n
<1>1. IsFiniteSet(1..n) /\ Cardinality(1..n) = n
  BY FS_Interval
<1>2. IsFiniteSet(s) /\ Cardinality(s) <= n
  BY <1>1, FS_Subset
<1> QED  BY <1>2, FS_CardinalityType

\* Max of a set of positions.
LEMMA MaxIs ==
    ASSUME NEW n \in Nat, NEW S \in SUBSET (1..n), S # {}
    PROVE  Max(S) \in S /\ \A y \in S : y <= Max(S)
<1> DEFINE B == {b \in Nat : \A y \in S : y <= b}
<1>1. PICK b \in B : \A y \in B : b <= y
  <2>1. n \in B
    OBVIOUS
  <2> QED  BY <2>1, LeastNat
<1>2. b \in S
  <2>1. SUFFICES ASSUME b \notin S PROVE FALSE
    OBVIOUS
  <2>2. b > 0
    <3>1. PICK y \in S : TRUE
      OBVIOUS
    <3>2. y \in 1..n /\ y <= b /\ b \in Nat
      BY <3>1
    <3> QED  BY <3>2
  <2>3. b - 1 \in Nat /\ \A y \in S : y <= b - 1
    <3>1. b \in Nat /\ \A y \in S : y \in Nat /\ y <= b /\ y # b
      BY <1>1, <2>1
    <3> QED  BY <2>2, <3>1
  <2> QED  BY <1>1, <2>2, <2>3
<1>3. \E x \in S : \A y \in S : x >= y
  BY <1>1, <1>2
<1> QED  BY <1>3 DEF Max

\* What a fold computes, step by step: D are the positions, base is where it
\* starts, and st[s] the step that has dealt with the positions s.
Steps(g, D, base, st) ==
    g = [s \in SUBSET D |-> IF s = {} THEN base ELSE st[s][g[s \ {Max(s)}]]]

\* There is such a function.
LEMMA FoldExists ==
    ASSUME NEW n \in Nat, NEW st, NEW base
    PROVE  \E g : Steps(g, 1..n, base, st)
<1> DEFINE D == 1..n
           Small(k) == {s \in SUBSET D : Cardinality(s) <= k}
           Good(g, k) ==
               g = [s \in Small(k) |-> IF s = {} THEN base ELSE st[s][g[s \ {Max(s)}]]]
           Bad == {k \in Nat : ~ \E g : Good(g, k)}
<1>0. \A s \in SUBSET D : IsFiniteSet(s) /\ Cardinality(s) \in Nat /\ Cardinality(s) <= n
  BY PositionsAre
<1>1. Bad = {}
  <2>1. SUFFICES ASSUME Bad # {} PROVE FALSE
    OBVIOUS
  <2>2. PICK k \in Bad : \A j \in Bad : k <= j
    BY <2>1, LeastNat
  <2>3. k # 0
    <3>1. Small(0) = {{}}
      <4>1. \A s \in SUBSET D : Cardinality(s) <= 0 <=> s = {}
        <5>1. \A s \in SUBSET D : Cardinality(s) <= 0 <=> Cardinality(s) = 0
          BY <1>0
        <5> QED  BY <1>0, <5>1, FS_EmptySet
      <4>2. {} \in SUBSET D
        OBVIOUS
      <4> QED  BY <4>1, <4>2
    <3> DEFINE g == [s \in {{}} |-> base]
    <3>2. Good(g, 0)
      <4>1. g = [s \in {{}} |-> IF s = {} THEN base ELSE st[s][g[s \ {Max(s)}]]]
        OBVIOUS
      <4> HIDE DEF g, Small
      <4> QED  BY <3>1, <4>1
    <3> HIDE DEF Good, g
    <3> QED  BY <2>2, <3>2
  <2>4. PICK g : Good(g, k - 1)
    <3>1. k \in Nat /\ k - 1 \in Nat /\ ~ (k <= k - 1)
      BY <2>2, <2>3
    <3>2. k - 1 \notin Bad
      BY <2>2, <3>1
    <3> HIDE DEF Good
    <3> QED  BY <3>1, <3>2
  <2> DEFINE h == [s \in Small(k) |-> IF s = {} THEN base ELSE st[s][g[s \ {Max(s)}]]]
  <2>5. \A s \in Small(k) : s # {} => s \ {Max(s)} \in Small(k - 1)
    <3>1. SUFFICES ASSUME NEW s \in SUBSET D, Cardinality(s) <= k, s # {}
                   PROVE  s \ {Max(s)} \in SUBSET D /\ Cardinality(s \ {Max(s)}) <= k - 1
      OBVIOUS
    <3>2. Max(s) \in s
      BY <3>1, MaxIs
    <3>3. Cardinality(s \ {Max(s)}) = Cardinality(s) - 1
      BY <1>0, <3>2, FS_RemoveElement
    <3>4. k \in Nat /\ Cardinality(s) \in Nat
      BY <1>0, <2>2
    <3>5. Cardinality(s \ {Max(s)}) <= k - 1
      BY <3>1, <3>3, <3>4
    <3> QED  BY <3>1, <3>5
  <2>6. \A s \in Small(k - 1) : h[s] = g[s]
    <3>1. Small(k - 1) \subseteq Small(k)
      BY <1>0, <2>2, <2>3
    <3> QED  BY <2>4, <3>1
  <2>7. Good(h, k)
    BY <2>5, <2>6
  <2> QED  BY <2>2, <2>7
<1>2. PICK g : Good(g, n)
  BY <1>1
<1>3. Small(n) = SUBSET D
  BY <1>0
<1> QED  BY <1>2, <1>3 DEF Steps

\* What holds at the start and is kept by each step holds at the end.
LEMMA FoldWithin ==
    ASSUME NEW n \in Nat, NEW g, NEW X, g[{}] \in X[{}],
           \A s \in SUBSET (1..n) :
               s # {} /\ g[s \ {Max(s)}] \in X[s \ {Max(s)}] => g[s] \in X[s]
    PROVE  \A s \in SUBSET (1..n) : g[s] \in X[s]
<1> DEFINE D == 1..n
           Bad == {k \in Nat : \E s \in SUBSET D : Cardinality(s) = k /\ g[s] \notin X[s]}
<1>0. \A s \in SUBSET D : IsFiniteSet(s) /\ Cardinality(s) \in Nat
  BY PositionsAre
<1>1. Bad = {}
  <2>1. SUFFICES ASSUME Bad # {} PROVE FALSE
    OBVIOUS
  <2>2. PICK k \in Bad : \A j \in Bad : k <= j
    BY <2>1, LeastNat
  <2>3. PICK s \in SUBSET D : Cardinality(s) = k /\ g[s] \notin X[s]
    BY <2>2
  <2>4. s # {}
    BY <2>3
  <2>5. Max(s) \in s
    BY <2>4, MaxIs
  <2>6. Cardinality(s \ {Max(s)}) = k - 1 /\ k - 1 \in Nat
    <3>1. Cardinality(s \ {Max(s)}) = k - 1
      BY <1>0, <2>3, <2>5, FS_RemoveElement
    <3> QED  BY <1>0, <3>1
  <2>7. k - 1 \notin Bad
    BY <2>2, <2>6
  <2>8. g[s \ {Max(s)}] \in X[s \ {Max(s)}]
    BY <2>6, <2>7
  <2> QED  BY <2>3, <2>4, <2>8
<1> QED  BY <1>0, <1>1

\* Induction up to a bound, over a set of numbers instead of a predicate.
LEMMA Climb ==
    ASSUME NEW n \in Nat, NEW P, 0 \in P, \A k \in 1..n : k - 1 \in P => k \in P
    PROVE  \A k \in 0..n : k \in P
<1> DEFINE Bad == {k \in Nat : k <= n /\ k \notin P}
<1>1. Bad = {}
  <2>1. SUFFICES ASSUME Bad # {} PROVE FALSE
    OBVIOUS
  <2>2. PICK k \in Bad : \A j \in Bad : k <= j
    BY <2>1, LeastNat
  <2>3. k # 0 /\ k \in 1..n
    BY <2>2
  <2>4. k - 1 \in Nat /\ ~ (k <= k - 1) /\ k - 1 <= n
    BY <2>3
  <2>5. k - 1 \notin Bad
    BY <2>2, <2>4
  <2>6. k - 1 \in P
    BY <2>4, <2>5
  <2> QED  BY <2>2, <2>3, <2>6
<1> QED  BY <1>1

\* A fold over a sequence of n elements, as the equation that FoldLeft
\* chooses a solution of; step[k] is what it does with the k-th element.
FoldEq(g, n, base, step) ==
    g = [s \in SUBSET (1..n) |-> IF s = {} THEN base ELSE step[Max(s)][g[s \ {Max(s)}]]]

\* It has a solution.
LEMMA FoldHas ==
    ASSUME NEW n \in Nat, NEW base, NEW step
    PROVE  \E g : FoldEq(g, n, base, step)
<1> DEFINE st == [s \in SUBSET (1..n) |-> step[Max(s)]]
<1>1. PICK g : Steps(g, 1..n, base, st)
  BY FoldExists
<1>2. g = [s \in SUBSET (1..n) |-> IF s = {} THEN base ELSE step[Max(s)][g[s \ {Max(s)}]]]
  BY <1>1 DEF Steps
<1> QED  BY <1>2 DEF FoldEq

\* h is what a fold over n elements goes through, from h[0] to h[n].
Trace(h, n, U, base, step) ==
    /\ h \in [0..n -> U] /\ h[0] = base
    /\ \A k \in 1..n : h[k] = step[k][h[k-1]]

\* Each solution goes through the elements in order.
LEMMA FoldOf ==
    ASSUME NEW n \in Nat, NEW U, NEW base \in U, NEW step \in [1..n -> [U -> U]],
           NEW g, FoldEq(g, n, base, step)
    PROVE  /\ \A s \in SUBSET (1..n) : g[s] \in U
           /\ \E h : Trace(h, n, U, base, step) /\ h[n] = g[1..n]
<1>1. g[{}] = base /\ \A s \in SUBSET (1..n) : s # {} => g[s] = step[Max(s)][g[s \ {Max(s)}]]
  BY DEF FoldEq
<1> DEFINE X == [s \in SUBSET (1..n) |-> U]
<1>2. \A s \in SUBSET (1..n) :
         s # {} /\ g[s \ {Max(s)}] \in X[s \ {Max(s)}] => g[s] \in X[s]
  <2> TAKE s \in SUBSET (1..n)
  <2>1. HAVE s # {} /\ g[s \ {Max(s)}] \in X[s \ {Max(s)}]
  <2>2. Max(s) \in 1..n
    BY <2>1, MaxIs
  <2>3. g[s \ {Max(s)}] \in U
    BY <2>1
  <2> QED  BY <1>1, <2>1, <2>2, <2>3
<1>3. g[{}] \in X[{}]
  BY <1>1
<1> HIDE DEF X
<1>4. \A s \in SUBSET (1..n) : g[s] \in X[s]
  BY <1>2, <1>3, FoldWithin
<1>5. \A s \in SUBSET (1..n) : g[s] \in U
  BY <1>4 DEF X
<1> DEFINE h == [k \in 0..n |-> g[1..k]]
<1>6. h \in [0..n -> U]
  <2>1. \A k \in 0..n : 1..k \in SUBSET (1..n)
    OBVIOUS
  <2> QED  BY <1>5, <2>1
<1>7. h[0] = base
  <2>1. 1..0 = {}
    OBVIOUS
  <2> QED  BY <1>1, <2>1
<1>8. ASSUME NEW k \in 1..n PROVE h[k] = step[k][h[k-1]]
  <2>1. 1..k \in SUBSET (1..n) /\ k \in 1..k /\ k - 1 \in 0..n
    OBVIOUS
  <2>2. Max(1..k) \in 1..k /\ \A y \in 1..k : y <= Max(1..k)
    BY <2>1, MaxIs
  <2>3. Max(1..k) = k
    BY <2>1, <2>2
  <2>4. (1..k) \ {k} = 1..(k - 1)
    OBVIOUS
  <2>5. g[1..k] = step[k][g[1..(k - 1)]]
    BY <1>1, <2>1, <2>3, <2>4
  <2> QED  BY <2>1, <2>5
<1>9. h[n] = g[1..n]
  OBVIOUS
<1> HIDE DEF h
<1>10. Trace(h, n, U, base, step)
  BY <1>6, <1>7, <1>8 DEF Trace
<1> QED  BY <1>5, <1>9, <1>10

\* An operator for a step need only agree with step where the fold leads.
LEMMA FoldMeets ==
    ASSUME NEW n \in Nat, NEW U, NEW base \in U, NEW step \in [1..n -> [U -> U]], NEW g,
           g = [s \in SUBSET (1..n) |-> g[s]], g[{}] = base,
           \A s \in SUBSET (1..n) : s # {} /\ g[s \ {Max(s)}] \in U =>
              g[s] = step[Max(s)][g[s \ {Max(s)}]]
    PROVE  FoldEq(g, n, base, step)
<1> DEFINE X == [s \in SUBSET (1..n) |-> U]
<1>1. \A s \in SUBSET (1..n) :
         s # {} /\ g[s \ {Max(s)}] \in X[s \ {Max(s)}] => g[s] \in X[s]
  <2> TAKE s \in SUBSET (1..n)
  <2>1. HAVE s # {} /\ g[s \ {Max(s)}] \in X[s \ {Max(s)}]
  <2>2. Max(s) \in 1..n
    BY <2>1, MaxIs
  <2>3. g[s \ {Max(s)}] \in U
    BY <2>1
  <2>4. g[s] = step[Max(s)][g[s \ {Max(s)}]]
    BY <2>1, <2>3
  <2> QED  BY <2>2, <2>3, <2>4
<1>2. g[{}] \in X[{}]
  OBVIOUS
<1> HIDE DEF X
<1>3. \A s \in SUBSET (1..n) : g[s] \in X[s]
  BY <1>1, <1>2, FoldWithin
<1>4. \A s \in SUBSET (1..n) : s # {} => g[s] = step[Max(s)][g[s \ {Max(s)}]]
  <2> TAKE s \in SUBSET (1..n)
  <2>1. HAVE s # {}
  <2>2. g[s \ {Max(s)}] \in U
    BY <1>3 DEF X
  <2> QED  BY <2>1, <2>2
<1>5. \A s \in SUBSET (1..n) : g[s] = IF s = {} THEN base ELSE step[Max(s)][g[s \ {Max(s)}]]
  BY <1>4
<1> QED  BY <1>5 DEF FoldEq
=============================================================================
