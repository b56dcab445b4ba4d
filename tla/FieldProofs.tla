------------------------------ MODULE FieldProofs ------------------------------
(***************************************************************************)
(* What the arithmetic of frost-taproot yields for every field, and what   *)
(* a fold over a set of any size yields: the lemmas that proofs about      *)
(* shares and signatures rest on.                                          *)
(***************************************************************************)
EXTENDS FrostSigning, FiniteSetTheorems, WellFoundedInduction, TLAPS

-----------------------------------------------------------------------------
(* Induction and recursion, stated of sets and functions.                  *)

(* A set of numbers has a least element.                                   *)
LEMMA LeastElement ==
  ASSUME NEW A \in SUBSET Nat, A # {}
  PROVE  \E m \in A : \A k \in A : m <= k
<1>1. PICK m \in A : \A k \in A : <<k, m>> \notin OpToRel(<, Nat)
  BY NatLessThanWellFounded, WFMin
<1>2. ASSUME NEW k \in A PROVE m <= k
  <2>1. ~(k < m)
    BY <1>1 DEF OpToRel
  <2> QED
    BY <2>1
<1> QED
  BY <1>2

(* A set of numbers that has 0 and with each number the next has them all. *)
LEMMA SetInduction ==
  ASSUME NEW A \in SUBSET Nat, 0 \in A, \A n \in A : n + 1 \in A
  PROVE  \A n \in Nat : n \in A
<1> SUFFICES ASSUME Nat \ A # {} PROVE FALSE
  OBVIOUS
<1>1. PICK m \in Nat \ A : \A k \in Nat \ A : m <= k
  BY LeastElement
<1>2. m # 0 /\ m - 1 \in Nat
  BY <1>1
<1>3. m - 1 \in A
  BY <1>1, <1>2
<1>4. (m - 1) + 1 \in A
  BY <1>3
<1> QED
  BY <1>1, <1>4

(* A function on the numbers that is defined from its value one below      *)
(* exists.                                                                 *)
Chain(g, n, V, base, step) ==
  /\ g \in [0..n -> V] /\ g[0] = base
  /\ \A e \in 0..(n - 1) : g[e + 1] = step[e][g[e]]

Recurs(p, base, step) == p[0] = base /\ \A n \in Nat : p[n + 1] = step[n][p[n]]

(* A chain cut short is a chain.                                           *)
LEMMA ChainPrefix ==
  ASSUME NEW n \in Nat, NEW V, NEW base, NEW step, NEW g, Chain(g, n + 1, V, base, step)
  PROVE  Chain([e \in 0..n |-> g[e]], n, V, base, step)
<1>1. 0..n \subseteq 0..(n + 1) /\ \A e \in 0..(n - 1) : e \in 0..n /\ e + 1 \in 0..n /\ e \in 0..((n + 1) - 1)
  OBVIOUS
<1> QED
  BY <1>1 DEF Chain

(* A function on the numbers that is defined by its base and its step      *)
(* exists.                                                                 *)
LEMMA NatRecursion ==
  ASSUME NEW V, NEW base \in V, NEW step \in [Nat -> [V -> V]]
  PROVE  \E p \in [Nat -> V] : Recurs(p, base, step)
<1> DEFINE A == {n \in Nat : \E g : Chain(g, n, V, base, step)}
           U == {n \in Nat : \A g, h : Chain(g, n, V, base, step) /\ Chain(h, n, V, base, step)
                                         => g[n] = h[n]}
<1>1. 0 \in A
  <2> DEFINE g == [e \in 0..0 |-> base]
  <2>1. Chain(g, 0, V, base, step)
    BY DEF Chain
  <2> QED
    BY <2>1
<1>2. ASSUME NEW n \in A PROVE n + 1 \in A
  <2>1. PICK g : Chain(g, n, V, base, step)
    OBVIOUS
  <2> DEFINE f == [e \in 0..(n + 1) |-> IF e = n + 1 THEN step[n][g[n]] ELSE g[e]]
  <2>2. step[n][g[n]] \in V
    BY <2>1 DEF Chain
  <2>3. f \in [0..(n + 1) -> V] /\ f[0] = base
    BY <2>1, <2>2 DEF Chain
  <2>4. ASSUME NEW e \in 0..((n + 1) - 1) PROVE f[e + 1] = step[e][f[e]]
    <3>1. CASE e = n
      BY <3>1
    <3>2. CASE e # n
      <4>1. e \in 0..(n - 1) /\ e + 1 \in 0..n
        BY <3>2
      <4> QED
        BY <2>1, <4>1 DEF Chain
    <3> QED
      BY <3>1, <3>2
  <2> HIDE DEF f
  <2>5. Chain(f, n + 1, V, base, step)
    BY <2>3, <2>4 DEF Chain
  <2> QED
    BY <2>5
<1>3. A = Nat
  <2> HIDE DEF A
  <2>1. A \in SUBSET Nat
    BY DEF A
  <2> QED
    BY <1>1, <1>2, <2>1, SetInduction
<1>4. 0 \in U
  BY DEF Chain
<1>5. ASSUME NEW n \in U PROVE n + 1 \in U
  <2> SUFFICES ASSUME NEW g, NEW h, Chain(g, n + 1, V, base, step), Chain(h, n + 1, V, base, step)
               PROVE  g[n + 1] = h[n + 1]
    OBVIOUS
  <2>1. [e \in 0..n |-> g[e]][n] = [e \in 0..n |-> h[e]][n]
    <3>1. Chain([e \in 0..n |-> g[e]], n, V, base, step) /\ Chain([e \in 0..n |-> h[e]], n, V, base, step)
      BY ChainPrefix
    <3> QED
      BY <3>1
  <2>2. n \in 0..n /\ n \in 0..((n + 1) - 1)
    OBVIOUS
  <2>3. g[n] = h[n]
    BY <2>1, <2>2
  <2>4. g[n + 1] = step[n][g[n]] /\ h[n + 1] = step[n][h[n]]
    BY <2>2 DEF Chain
  <2> QED
    BY <2>3, <2>4
<1>6. U = Nat
  <2> HIDE DEF U
  <2>1. U \in SUBSET Nat
    BY DEF U
  <2> QED
    BY <1>4, <1>5, <2>1, SetInduction
<1> DEFINE G(n) == CHOOSE g : Chain(g, n, V, base, step)
           p == [n \in Nat |-> G(n)[n]]
<1>7. \A n \in Nat : Chain(G(n), n, V, base, step)
  BY <1>3
<1>8. \A n \in Nat : \A g : Chain(g, n, V, base, step) => g[n] = G(n)[n]
  BY <1>6, <1>7
<1> HIDE DEF G, A, U
<1>9. p \in [Nat -> V] /\ p[0] = base
  <2>1. \A n \in Nat : G(n)[n] \in V
    BY <1>7 DEF Chain
  <2>2. G(0)[0] = base
    BY <1>7 DEF Chain
  <2> QED
    BY <2>1, <2>2
<1>10. ASSUME NEW n \in Nat PROVE p[n + 1] = step[n][p[n]]
  <2>1. Chain([e \in 0..n |-> G(n + 1)[e]], n, V, base, step)
    BY <1>7, ChainPrefix
  <2>2. [e \in 0..n |-> G(n + 1)[e]][n] = G(n)[n]
    BY <1>8, <2>1
  <2>3. n \in 0..n /\ n \in 0..((n + 1) - 1)
    OBVIOUS
  <2>4. G(n + 1)[n + 1] = step[n][G(n + 1)[n]]
    <3>1. Chain(G(n + 1), n + 1, V, base, step)
      BY <1>7
    <3> QED
      BY <2>3, <3>1 DEF Chain
  <2> QED
    BY <2>2, <2>3, <2>4
<1> HIDE DEF p
<1> QED
  BY <1>9, <1>10 DEF Recurs

(* A non-empty set of indices has a greatest, Max of FiniteSetsExt.        *)
LEMMA GreatestIndex ==
  ASSUME NEW n \in Nat, NEW s \in SUBSET (1..n), s # {}
  PROVE  Max(s) \in s /\ \A k \in s : k <= Max(s)
<1> DEFINE A == {n - k : k \in s}
<1>1. A \in SUBSET Nat /\ A # {}
  <2>1. \A k \in s : n - k \in Nat
    OBVIOUS
  <2> QED
    BY <2>1
<1>2. PICK m \in A : \A k \in A : m <= k
  BY <1>1, LeastElement
<1>3. PICK x \in s : m = n - x
  BY <1>2
<1>4. ASSUME NEW k \in s PROVE x >= k
  <2>1. n - k \in A
    OBVIOUS
  <2>2. n - x <= n - k
    BY <1>2, <1>3, <2>1
  <2> QED
    BY <2>2
<1>5. \E y \in s : \A k \in s : y >= k
  BY <1>4
<1>6. Max(s) \in s /\ \A k \in s : Max(s) >= k
  BY <1>5 DEF Max
<1> QED
  BY <1>6

(* The equation of a fold over S: take the element pick chooses out of the *)
(* set, fold the rest, and apply step.                                     *)
Folds(g, S, pick, base, step) ==
  \A s \in S : g[s] = IF s = {} THEN base ELSE step[pick[s]][g[s \ {pick[s]}]]

Picks(pick, S) == \A s \in SUBSET S : s # {} => pick[s] \in s

UpTo(S, n) == {s \in SUBSET S : Cardinality(s) <= n}

(* A finite set has a function that satisfies it, ...                      *)
LEMMA FoldExists ==
  ASSUME NEW S, IsFiniteSet(S), NEW V, NEW base \in V, NEW step \in [S -> [V -> V]],
         NEW pick, Picks(pick, S)
  PROVE  \E g \in [SUBSET S -> V] : Folds(g, SUBSET S, pick, base, step)
<1> USE DEF Picks
<1> DEFINE A == {n \in Nat : \E g \in [UpTo(S, n) -> V] : Folds(g, UpTo(S, n), pick, base, step)}
<1>1. 0 \in A
  <2> DEFINE g == [s \in UpTo(S, 0) |-> base]
  <2>1. \A s \in UpTo(S, 0) : s = {}
    BY FS_Subset, FS_EmptySet, FS_CardinalityType DEF UpTo
  <2>2. Folds(g, UpTo(S, 0), pick, base, step)
    BY <2>1 DEF Folds
  <2> QED
    BY <2>2
<1>2. ASSUME NEW n \in A PROVE n + 1 \in A
  <2>1. PICK g \in [UpTo(S, n) -> V] : Folds(g, UpTo(S, n), pick, base, step)
    OBVIOUS
  <2> DEFINE f == [s \in UpTo(S, n + 1) |->
                     IF s = {} THEN base ELSE step[pick[s]][g[s \ {pick[s]}]]]
  <2>2. ASSUME NEW s \in UpTo(S, n + 1), s # {}
        PROVE  s \ {pick[s]} \in UpTo(S, n) /\ pick[s] \in S
    <3>1. s \in SUBSET S /\ IsFiniteSet(s) /\ Cardinality(s) \in Nat /\ Cardinality(s) <= n + 1
      BY FS_Subset, FS_CardinalityType DEF UpTo
    <3>2. pick[s] \in s
      BY <2>2, <3>1
    <3>3. \A x \in s : Cardinality(s \ {x}) = Cardinality(s) - 1
      BY <3>1, FS_RemoveElement
    <3>4. s \ {pick[s]} \in SUBSET S /\ Cardinality(s \ {pick[s]}) <= n
      BY <3>1, <3>2, <3>3
    <3> QED
      BY <3>1, <3>2, <3>4 DEF UpTo
  <2>3. f \in [UpTo(S, n + 1) -> V]
    BY <2>2
  <2>4. UpTo(S, n) \subseteq UpTo(S, n + 1)
    <3>1. ASSUME NEW s \in UpTo(S, n) PROVE s \in UpTo(S, n + 1)
      <4>1. Cardinality(s) \in Nat /\ Cardinality(s) <= n /\ s \in SUBSET S
        BY FS_Subset, FS_CardinalityType DEF UpTo
      <4> QED
        BY <4>1 DEF UpTo
    <3> QED
      BY <3>1
  <2>5. ASSUME NEW s \in UpTo(S, n) PROVE f[s] = g[s]
    BY <2>1, <2>4 DEF Folds
  <2>6. Folds(f, UpTo(S, n + 1), pick, base, step)
    BY <2>2, <2>5 DEF Folds
  <2> HIDE DEF f
  <2> QED
    BY <2>3, <2>6
<1>3. \A n \in Nat : n \in A
  <2> HIDE DEF A
  <2>1. A \in SUBSET Nat
    BY DEF A
  <2> QED
    BY <1>1, <1>2, <2>1, SetInduction
<1>4. Cardinality(S) \in A
  <2> HIDE DEF A
  <2> QED
    BY <1>3, FS_CardinalityType
<1>5. UpTo(S, Cardinality(S)) = SUBSET S
  BY FS_Subset DEF UpTo
<1>6. \E g \in [UpTo(S, Cardinality(S)) -> V] :
        Folds(g, UpTo(S, Cardinality(S)), pick, base, step)
  BY <1>4
<1> QED
  BY <1>5, <1>6

StaysIn(h, S, pick, V) ==
  h[{}] \in V /\ \A s \in SUBSET S : s # {} /\ h[s \ {pick[s]}] \in V => h[s] \in V

(* ... and every function that does stays within the values that the step  *)
(* stays within.                                                           *)
LEMMA FoldTyped ==
  ASSUME NEW S, IsFiniteSet(S), NEW V, NEW h, NEW pick, Picks(pick, S), StaysIn(h, S, pick, V)
  PROVE  h[S] \in V
<1> USE DEF Picks, StaysIn
<1> DEFINE A == {n \in Nat : \A s \in UpTo(S, n) : h[s] \in V}
<1>1. 0 \in A
  <2>1. ASSUME NEW s \in UpTo(S, 0) PROVE h[s] \in V
    <3>1. s = {}
      BY FS_Subset, FS_EmptySet, FS_CardinalityType DEF UpTo
    <3> QED
      BY <3>1
  <2> QED
    BY <2>1
<1>2. ASSUME NEW n \in A PROVE n + 1 \in A
  <2>1. ASSUME NEW s \in UpTo(S, n + 1) PROVE h[s] \in V
    <3>1. CASE s = {}
      BY <3>1
    <3>2. CASE s # {}
      <4>1. s \in SUBSET S /\ IsFiniteSet(s) /\ Cardinality(s) \in Nat /\ Cardinality(s) <= n + 1
        BY FS_Subset, FS_CardinalityType DEF UpTo
      <4>2. pick[s] \in s
        BY <3>2, <4>1
      <4>3. Cardinality(s \ {pick[s]}) = Cardinality(s) - 1
        BY <4>1, <4>2, FS_RemoveElement
      <4>4. s \ {pick[s]} \in UpTo(S, n)
        BY <4>1, <4>3 DEF UpTo
      <4>5. h[s \ {pick[s]}] \in V
        BY <4>4
      <4> QED
        BY <3>2, <4>1, <4>5
    <3> QED
      BY <3>1, <3>2
  <2> QED
    BY <2>1
<1>3. \A n \in Nat : n \in A
  <2> HIDE DEF A
  <2>1. A \in SUBSET Nat
    BY DEF A
  <2> QED
    BY <1>1, <1>2, <2>1, SetInduction
<1>4. Cardinality(S) \in A
  <2> HIDE DEF A
  <2> QED
    BY <1>3, FS_CardinalityType
<1>5. S \in UpTo(S, Cardinality(S))
  BY FS_CardinalityType DEF UpTo
<1> QED
  BY <1>4, <1>5

(* FoldLeft takes the greatest index out of a set, and FoldRight the least *)
(* one; what they compute for intervals is a chain of steps.               *)
LEMMA LeastIndex ==
  ASSUME NEW s \in SUBSET Nat, s # {}
  PROVE  Min(s) \in s /\ \A k \in s : Min(s) <= k
BY LeastElement DEF Min

(* The ends of an interval, which folds over sequences take first.         *)
LEMMA IntervalEnds ==
  ASSUME NEW n \in Nat, NEW i \in 1..n
  PROVE  /\ 1..i \in SUBSET (1..n) /\ 1..i # {} /\ Max(1..i) = i /\ (1..i) \ {i} = 1..(i - 1)
         /\ i..n \in SUBSET (1..n) /\ i..n # {} /\ Min(i..n) = i /\ (i..n) \ {i} = (i + 1)..n
<1>1. 1..i \in SUBSET (1..n) /\ i..n \in SUBSET (1..n) /\ i..n \in SUBSET Nat
  OBVIOUS
<1>2. i \in 1..i /\ i \in i..n
  OBVIOUS
<1>3. Max(1..i) = i
  <2>1. Max(1..i) \in 1..i /\ i <= Max(1..i)
    BY <1>1, <1>2, GreatestIndex
  <2> QED
    BY <2>1
<1>4. Min(i..n) = i
  <2>1. Min(i..n) \in i..n /\ Min(i..n) <= i
    BY <1>1, <1>2, LeastIndex
  <2> QED
    BY <2>1
<1>5. (1..i) \ {i} = 1..(i - 1) /\ (i..n) \ {i} = (i + 1)..n
  OBVIOUS
<1> QED
  BY <1>1, <1>2, <1>3, <1>4, <1>5

Greatest(n) == [s \in SUBSET (1..n) |-> Max(s)]
Least(n) == [s \in SUBSET (1..n) |-> Min(s)]

(* The left and the right fold of a sequence take an end of an interval at *)
(* each step.                                                              *)
LEMMA EndsArePicks ==
  ASSUME NEW n \in Nat
  PROVE  Picks(Greatest(n), 1..n) /\ Picks(Least(n), 1..n) /\ IsFiniteSet(1..n)
<1>1. \A s \in SUBSET (1..n) : s # {} => Max(s) \in s
  BY GreatestIndex
<1>2. \A s \in SUBSET (1..n) : s # {} => Min(s) \in s
  <2>1. \A s \in SUBSET (1..n) : s \in SUBSET Nat
    OBVIOUS
  <2> QED
    BY <2>1, LeastIndex
<1> QED
  BY <1>1, <1>2, FS_Interval DEF Picks, Greatest, Least

(* h takes the steps of a fold as long as they start from a value in V.    *)
Follows(h, S, pick, V, base, step) ==
  /\ h[{}] = base
  /\ \A s \in SUBSET S : s # {} /\ h[s \ {pick[s]}] \in V => h[s] = step[pick[s]][h[s \ {pick[s]}]]

(* A fold leaves the elements of the set it folds over only through its    *)
(* step.                                                                   *)
LEMMA FollowsStays ==
  ASSUME NEW S, NEW V, NEW base \in V, NEW step \in [S -> [V -> V]], NEW pick, Picks(pick, S),
         NEW h, Follows(h, S, pick, V, base, step)
  PROVE  StaysIn(h, S, pick, V)
<1>1. ASSUME NEW s \in SUBSET S, s # {}, h[s \ {pick[s]}] \in V PROVE h[s] \in V
  <2>1. pick[s] \in S
    BY <1>1 DEF Picks
  <2>2. h[s] = step[pick[s]][h[s \ {pick[s]}]]
    BY <1>1 DEF Follows
  <2> QED
    BY <1>1, <2>1, <2>2
<1> QED
  BY <1>1 DEF Follows, StaysIn

(* This holds too of the folds over fewer elements.                        *)
LEMMA FollowsSubset ==
  ASSUME NEW S, NEW D \in SUBSET S, NEW V, NEW h, NEW pick, Picks(pick, S), StaysIn(h, S, pick, V)
  PROVE  Picks(pick, D) /\ StaysIn(h, D, pick, V)
BY DEF Picks, StaysIn

(* A fold stays in a set that its base is in and its step stays in.        *)
LEMMA FollowsTyped ==
  ASSUME NEW S, IsFiniteSet(S), NEW V, NEW base \in V, NEW step \in [S -> [V -> V]],
         NEW pick, Picks(pick, S), NEW h, Follows(h, S, pick, V, base, step)
  PROVE  \A s \in SUBSET S : h[s] \in V
<1>1. StaysIn(h, S, pick, V)
  BY FollowsStays
<1>2. ASSUME NEW s \in SUBSET S PROVE h[s] \in V
  <2>1. IsFiniteSet(s)
    BY FS_Subset
  <2>2. Picks(pick, s) /\ StaysIn(h, s, pick, V)
    BY <1>1, FollowsSubset
  <2> QED
    BY <2>1, <2>2, FoldTyped
<1> QED
  BY <1>2

IsLeftChain(r, n, V, base, step) ==
  r \in [0..n -> V] /\ r[0] = base /\ \A k \in 1..n : r[k] = step[k][r[k - 1]]

IsRightChain(r, n, V, base, step) ==
  r \in [1..(n + 1) -> V] /\ r[n + 1] = base /\ \A k \in 1..n : r[k] = step[k][r[k + 1]]

(* A left fold is the last value of a chain of steps from the front.       *)
LEMMA LeftChain ==
  ASSUME NEW n \in Nat, NEW V, NEW base \in V, NEW step \in [1..n -> [V -> V]],
         NEW h, Follows(h, 1..n, Greatest(n), V, base, step)
  PROVE  \E r : IsLeftChain(r, n, V, base, step) /\ r[n] = h[1..n]
<1>1. \A s \in SUBSET (1..n) : h[s] \in V
  BY EndsArePicks, FollowsTyped
<1>2. \A k \in 0..n : 1..k \in SUBSET (1..n)
  OBVIOUS
<1>3. 1..0 = {} /\ h[{}] = base
  BY DEF Follows
<1>4. ASSUME NEW k \in 1..n PROVE h[1..k] = step[k][h[1..(k - 1)]]
  <2>1. /\ 1..k \in SUBSET (1..n) /\ 1..k # {} /\ Greatest(n)[1..k] = k /\ (1..k) \ {k} = 1..(k - 1)
    BY IntervalEnds DEF Greatest
  <2>2. h[1..(k - 1)] \in V
    BY <1>1
  <2>3. h[(1..k) \ {Greatest(n)[1..k]}] \in V
    BY <2>1, <2>2
  <2>4. h[1..k] = step[Greatest(n)[1..k]][h[(1..k) \ {Greatest(n)[1..k]}]]
    BY <2>1, <2>3 DEF Follows
  <2> QED
    BY <2>1, <2>4
<1> DEFINE r == [k \in 0..n |-> h[1..k]]
<1>5. IsLeftChain(r, n, V, base, step) /\ r[n] = h[1..n]
  BY <1>1, <1>2, <1>3, <1>4 DEF IsLeftChain
<1> QED
  BY <1>5

(* A right fold is the last value of a chain of steps from the back.       *)
LEMMA RightChain ==
  ASSUME NEW n \in Nat, NEW V, NEW base \in V, NEW step \in [1..n -> [V -> V]],
         NEW h, Follows(h, 1..n, Least(n), V, base, step)
  PROVE  \E r : IsRightChain(r, n, V, base, step) /\ r[1] = h[1..n]
<1>1. \A s \in SUBSET (1..n) : h[s] \in V
  BY EndsArePicks, FollowsTyped
<1>2. \A k \in 1..(n + 1) : k..n \in SUBSET (1..n)
  OBVIOUS
<1>3. (n + 1)..n = {} /\ h[{}] = base
  BY DEF Follows
<1>4. ASSUME NEW k \in 1..n PROVE h[k..n] = step[k][h[(k + 1)..n]]
  <2>1. /\ k..n \in SUBSET (1..n) /\ k..n # {} /\ Least(n)[k..n] = k /\ (k..n) \ {k} = (k + 1)..n
    BY IntervalEnds DEF Least
  <2>2. h[(k + 1)..n] \in V
    BY <1>1, <1>2
  <2>3. h[(k..n) \ {Least(n)[k..n]}] \in V
    BY <2>1, <2>2
  <2>4. h[k..n] = step[Least(n)[k..n]][h[(k..n) \ {Least(n)[k..n]}]]
    BY <2>1, <2>3 DEF Follows
  <2> QED
    BY <2>1, <2>4
<1> DEFINE r == [k \in 1..(n + 1) |-> h[k..n]]
<1>5. IsRightChain(r, n, V, base, step) /\ r[1] = h[1..n]
  BY <1>1, <1>2, <1>3, <1>4 DEF IsRightChain
<1> QED
  BY <1>5

-----------------------------------------------------------------------------
(* Reduction modulo Q.                                                     *)

(* A number is reduced by taking away a multiple of Q, and only one        *)
(* multiple leaves a scalar.                                               *)
LEMMA ModIsScalar ==
  ASSUME NEW a \in Int
  PROVE  mod_n(a) \in Scalar /\ \E k \in Int : a = mod_n(a) + Q * k
<1>1. Q \in Nat /\ Q > 0
  BY OrderAssumption
<1>2. (a % Q) \in 0..(Q - 1) /\ a = (a % Q) + Q * (a \div Q) /\ (a \div Q) \in Int
  BY <1>1
<1> QED
  BY <1>1, <1>2 DEF mod_n, Scalar

(* A scalar is the only scalar in its residue class.                       *)
LEMMA ModUnique ==
  ASSUME NEW r \in Scalar, NEW s \in Scalar, NEW k \in Int, r = s + Q * k
  PROVE  r = s
<1>1. Q \in Nat /\ Q > 0
  BY OrderAssumption
<1>2. r \in Int /\ s \in Int /\ r - s < Q /\ r - s > -Q
  BY <1>1 DEF Scalar
<1>3. CASE k >= 1
  <2>1. Q * k >= Q
    BY <1>1, <1>3
  <2> QED
    BY <1>1, <1>2, <2>1
<1>4. CASE k <= -1
  <2>1. Q * k <= -Q
    BY <1>1, <1>4
  <2> QED
    BY <1>1, <1>2, <2>1
<1>5. CASE k = 0
  BY <1>1, <1>2, <1>5
<1> QED
  BY <1>3, <1>4, <1>5

(* Numbers that differ by a multiple of Q reduce to one scalar.            *)
LEMMA ModEqual ==
  ASSUME NEW a \in Int, NEW b \in Int, NEW k \in Int, a = b + Q * k
  PROVE  mod_n(a) = mod_n(b)
<1>0. Q \in Int
  BY OrderAssumption
<1>1. PICK i \in Int : a = mod_n(a) + Q * i
  BY ModIsScalar
<1>2. PICK j \in Int : b = mod_n(b) + Q * j
  BY ModIsScalar
<1>3. mod_n(a) \in Scalar /\ mod_n(b) \in Scalar /\ mod_n(a) \in Int /\ mod_n(b) \in Int
  BY <1>0, ModIsScalar DEF Scalar
<1>4. mod_n(a) = mod_n(b) + Q * (j + k - i)
  <2>1. mod_n(a) = mod_n(b) + Q * j + Q * k - Q * i
    BY <1>0, <1>1, <1>2, <1>3
  <2>2. Q * (j + k - i) = Q * j + Q * k - Q * i
    BY <1>0
  <2>3. Q * j \in Int /\ Q * k \in Int /\ Q * i \in Int
    BY <1>0
  <2> QED
    BY <1>3, <2>1, <2>2, <2>3
<1> QED
  BY <1>3, <1>4, ModUnique

(* A reduced term of a sum or a product may be reduced before or after.    *)
LEMMA ModOfSum ==
  ASSUME NEW a \in Int, NEW b \in Int
  PROVE  mod_n(a + mod_n(b)) = mod_n(a + b)
<1>0. Q \in Int
  BY OrderAssumption
<1>1. PICK k \in Int : b = mod_n(b) + Q * k
  BY ModIsScalar
<1>2. mod_n(b) \in Int
  BY <1>0, ModIsScalar DEF Scalar
<1>3. a + b = (a + mod_n(b)) + Q * k
  BY <1>0, <1>1, <1>2
<1>4. a + b \in Int /\ a + mod_n(b) \in Int
  BY <1>2
<1> QED
  BY <1>3, <1>4, ModEqual

(* Reducing a factor first does not change a reduced product (scalar_mul). *)
LEMMA ModOfProduct ==
  ASSUME NEW a \in Int, NEW b \in Int
  PROVE  mod_n(a * mod_n(b)) = mod_n(a * b)
<1>0. Q \in Int
  BY OrderAssumption
<1>1. PICK k \in Int : b = mod_n(b) + Q * k
  BY ModIsScalar
<1>2. mod_n(b) \in Int
  BY <1>0, ModIsScalar DEF Scalar
<1>3. a * b = (a * mod_n(b)) + Q * (a * k)
  <2>1. \A m \in Int : b = m + Q * k => a * b = (a * m) + Q * (a * k)
    BY <1>0
  <2> QED
    BY <1>1, <1>2, <2>1
<1>4. a * b \in Int /\ a * mod_n(b) \in Int /\ a * k \in Int
  BY <1>2
<1> QED
  BY <1>3, <1>4, ModEqual

(* The powers of a number, reduced (pow_n).                                *)
LEMMA PowerStep ==
  ASSUME NEW x \in Int
  PROVE  /\ pow_n(x, 0) = 1
         /\ \A n \in Nat : pow_n(x, n) \in Int /\ pow_n(x, n + 1) = mod_n(pow_n(x, n) * x)
<1> DEFINE times == [a \in Int |-> mod_n(a * x)]
           power == CHOOSE p : p = [e \in Nat |-> IF e = 0 THEN 1 ELSE mod_n(p[e - 1] * x)]
<1>1. times \in [Int -> Int]
  <2>1. \A a \in Int : a * x \in Int
    OBVIOUS
  <2>2. \A a \in Int : mod_n(a * x) \in Int
    BY <2>1, OrderAssumption, ModIsScalar DEF Scalar
  <2> QED
    BY <2>2
<1>2. \A a \in Int : times[a] = mod_n(a * x)
  OBVIOUS
<1> HIDE DEF times
<1>3. PICK p \in [Nat -> Int] : p[0] = 1 /\ \A n \in Nat : p[n + 1] = times[p[n]]
  <2> DEFINE V == Int
             step == [n \in Nat |-> times]
  <2>1. PICK one : one = 1 /\ one \in V
    OBVIOUS
  <2>2. step \in [Nat -> [V -> V]]
    BY <1>1
  <2> HIDE DEF step, V
  <2>3. \E p \in [Nat -> V] : Recurs(p, one, step)
    BY <2>1, <2>2, NatRecursion
  <2> QED
    BY <2>1, <2>3 DEF V, step, Recurs
<1>4. p = [e \in Nat |-> IF e = 0 THEN 1 ELSE mod_n(p[e - 1] * x)]
  <2>1. ASSUME NEW e \in Nat, e # 0 PROVE p[e] = mod_n(p[e - 1] * x)
    <3>1. e - 1 \in Nat /\ (e - 1) + 1 = e
      BY <2>1
    <3> QED
      BY <1>2, <1>3, <3>1
  <2> QED
    BY <1>3, <2>1
<1>5. power = [e \in Nat |-> IF e = 0 THEN 1 ELSE mod_n(power[e - 1] * x)]
  <2>1. \E k : k = [e \in Nat |-> IF e = 0 THEN 1 ELSE mod_n(k[e - 1] * x)]
    BY <1>4, Zenon
  <2> QED
    BY <2>1, Zenon
<1>6. \A n \in Nat : pow_n(x, n) = power[n]
  BY DEF pow_n
<1> HIDE DEF power
<1>7. power[0] = 1 /\ \A n \in Nat : power[n + 1] = mod_n(power[n] * x)
  <2>1. ASSUME NEW n \in Nat PROVE power[n + 1] = mod_n(power[n] * x)
    <3>1. n + 1 \in Nat /\ n + 1 # 0 /\ (n + 1) - 1 = n
      OBVIOUS
    <3> QED
      BY <1>5, <3>1
  <2> QED
    BY <1>5, <2>1
<1>8. \A n \in Nat : power[n] \in Int
  <2> DEFINE A == {n \in Nat : power[n] \in Int}
  <2>1. 0 \in A
    BY <1>7
  <2>2. ASSUME NEW n \in A PROVE n + 1 \in A
    <3>1. power[n + 1] = times[power[n]]
      BY <1>2, <1>7
    <3> QED
      BY <1>1, <3>1
  <2> HIDE DEF A
  <2>3. A \in SUBSET Nat
    BY DEF A
  <2>4. \A n \in Nat : n \in A
    BY <2>1, <2>2, <2>3, SetInduction
  <2> QED
    BY <2>4 DEF A
<1> QED
  BY <1>6, <1>7, <1>8

-----------------------------------------------------------------------------
(* Folds of the model.                                                     *)

PointState == [point : Point, state : Scalar, tweak : Scalar]

(* The sign of a point is one or its negative, both scalars                *)
(* (get_point_state).                                                      *)
LEMMA ParityIsScalar == \A a : Parity(a) \in Scalar
  <1>1. Q \in Nat /\ Q > 2
    BY OrderAssumption
  <1>2. scalar_neg(1) \in Scalar
    <2>1. mod_n(Q - 1) \in Scalar
      BY <1>1, ModIsScalar
    <2> QED
      BY <2>1 DEF scalar_neg, mod_n
  <1>3. 1 \in Scalar
    BY <1>1 DEF Scalar
  <1> QED
    BY <1>2, <1>3 DEF Parity

(* A tweak leaves a point and two scalars (ecc/state.rs).                  *)
LEMMA TweakStepTyped ==
  ASSUME NEW acc \in PointState, NEW t \in Int
  PROVE  TweakStep(acc, t) \in PointState
<1>1. Scalar \subseteq Int
  BY OrderAssumption DEF Scalar
<1>2. acc.point.dlog \in Int /\ acc.state \in Int /\ acc.tweak \in Int
  BY <1>1 DEF PointState, Point
<1> PICK p : p = Parity(acc.point) /\ p \in Int
  <2>1. Parity(acc.point) \in Int
    BY <1>1, ParityIsScalar
  <2> QED
    BY <2>1
<1>3. mod_n(acc.point.dlog * p) \in Int
  <2>1. acc.point.dlog * p \in Int
    BY <1>2
  <2> QED
    BY <1>1, <2>1, ModIsScalar
<1>4. mod_n(mod_n(acc.point.dlog * p) + t) \in Scalar
  BY <1>3, ModIsScalar
<1>5. mod_n(acc.state * p) \in Scalar /\ mod_n(t + p * acc.tweak) \in Scalar
  BY <1>2, ModIsScalar
<1> QED
  BY <1>4, <1>5 DEF TweakStep, element_add, scalar_multi, scalar_base_multi, PointState, Point

(* A tweaked key stays within the states that each tweak stays within      *)
(* (get_point_state).                                                      *)
LEMMA PointStateStays ==
  ASSUME NEW V, NEW element, NEW tweaks \in Seq(Int),
         [point |-> element, state |-> 1, tweak |-> 0] \in V,
         \A acc \in V : \A t \in Int : TweakStep(acc, t) \in V
  PROVE  get_point_state(element, tweaks) \in V
<1> DEFINE n == Len(tweaks)
           base == [point |-> element, state |-> 1, tweak |-> 0]
           step == [i \in 1..n |-> [acc \in V |-> TweakStep(acc, tweaks[i])]]
           pick == [s \in SUBSET (1..n) |-> Max(s)]
           h == CHOOSE h : h = [s \in SUBSET (1..n) |->
                  IF s = {} THEN base ELSE TweakStep(h[s \ {Max(s)}], tweaks[Max(s)])]
<1>1. n \in Nat /\ DOMAIN tweaks = 1..n /\ IsFiniteSet(1..n)
  BY FS_Interval
<1>2. get_point_state(element, tweaks) = h[1..n]
  BY <1>1 DEF get_point_state, FoldLeft, MapThenFoldSet
<1>3. base \in V
  OBVIOUS
<1>4. step \in [1..n -> [V -> V]]
  <2>1. \A i \in 1..n : tweaks[i] \in Int
    OBVIOUS
  <2> QED
    BY <2>1
<1>5. \A s \in SUBSET (1..n) : s # {} => pick[s] \in s
  BY <1>1, GreatestIndex
<1>6. PICK g \in [SUBSET (1..n) -> V] : Folds(g, SUBSET (1..n), pick, base, step)
  <2> HIDE DEF base, step, pick
  <2> DEFINE D == 1..n
  <2>1. Picks(pick, D)
    BY <1>5 DEF Picks
  <2>2. step \in [D -> [V -> V]] /\ IsFiniteSet(D)
    BY <1>1, <1>4
  <2> HIDE DEF D
  <2>3. \E g \in [SUBSET D -> V] : Folds(g, SUBSET D, pick, base, step)
    BY <1>3, <2>1, <2>2, FoldExists
  <2> QED
    BY <2>3 DEF D
<1>7. g = [s \in SUBSET (1..n) |->
             IF s = {} THEN base ELSE TweakStep(g[s \ {Max(s)}], tweaks[Max(s)])]
  <2>1. ASSUME NEW s \in SUBSET (1..n), s # {}
        PROVE  g[s] = TweakStep(g[s \ {Max(s)}], tweaks[Max(s)])
    <3>1. Max(s) \in 1..n /\ pick[s] = Max(s)
      BY <1>5, <2>1
    <3>2. g[s \ {Max(s)}] \in V
      OBVIOUS
    <3>3. g[s] = step[Max(s)][g[s \ {Max(s)}]]
      BY <1>6, <2>1, <3>1 DEF Folds
    <3> QED
      BY <3>1, <3>2, <3>3
  <2>2. {} \in SUBSET (1..n) /\ g[{}] = base
    BY <1>6 DEF Folds
  <2> HIDE DEF base
  <2> QED
    BY <2>1, <2>2
<1>8. h = [s \in SUBSET (1..n) |->
             IF s = {} THEN base ELSE TweakStep(h[s \ {Max(s)}], tweaks[Max(s)])]
  <2> HIDE DEF base, n
  <2> QED
    BY <1>7
<1> HIDE DEF h
<1>9. h[1..n] \in V
  <2>1. h[{}] \in V
    <3>1. h[{}] = base
      <4> HIDE DEF base
      <4> QED
        BY <1>8
    <3> QED
      BY <1>3, <3>1
  <2>2. ASSUME NEW s \in SUBSET (1..n), s # {}, h[s \ {pick[s]}] \in V
        PROVE  h[s] \in V
    <3>1. pick[s] = Max(s) /\ Max(s) \in 1..n /\ tweaks[Max(s)] \in Int
      <4>1. pick[s] = Max(s) /\ Max(s) \in 1..n
        BY <1>5, <2>2
      <4> QED
        BY <4>1
    <3>2. h[s] = TweakStep(h[s \ {Max(s)}], tweaks[Max(s)])
      <4> HIDE DEF base
      <4> QED
        BY <1>8, <2>2
    <3> QED
      BY <2>2, <3>1, <3>2
  <2>3. \A s \in SUBSET (1..n) : s # {} /\ h[s \ {pick[s]}] \in V => h[s] \in V
    BY <2>2
  <2> DEFINE D == 1..n
  <2>4. IsFiniteSet(D) /\ Picks(pick, D) /\ StaysIn(h, D, pick, V)
    BY <1>1, <1>5, <2>1, <2>3 DEF Picks, StaysIn
  <2> HIDE DEF D, n, pick, base, step
  <2>5. h[D] \in V
    BY <2>4, FoldTyped
  <2> QED
    BY <2>5 DEF D
<1> QED
  BY <1>2, <1>9

(* So it is a point, and what the tweaks do to the secret key are two      *)
(* scalars, after any number of tweaks.                                    *)
LEMMA PointStateTyped ==
  ASSUME NEW element \in Point, NEW tweaks \in Seq(Int)
  PROVE  get_point_state(element, tweaks) \in PointState
<1>1. [point |-> element, state |-> 1, tweak |-> 0] \in PointState
  BY OrderAssumption DEF PointState, Scalar
<1> QED
  BY <1>1, TweakStepTyped, PointStateStays

(* The sum of shares is formed step by step (combine_shares).              *)
IsShareSum(r, n, shares) ==
  /\ r \in [0..n -> Scalar] /\ r[0] = 0 /\ combine_shares(shares) = r[n]
  /\ \A k \in 1..n : r[k] = mod_n(r[k - 1] + shares[k].seckey)

(* Shares are added one after the other (combine_shares).                  *)
LEMMA SumSteps ==
  ASSUME NEW n \in Nat, NEW shares, DOMAIN shares = 1..n, \A k \in 1..n : shares[k].seckey \in Int
  PROVE  \E r : IsShareSum(r, n, shares)
<1> DEFINE step == [i \in 1..n |-> [a \in Scalar |-> mod_n(a + shares[i].seckey)]]
           pick == Greatest(n)
           h == CHOOSE h : h = [s \in SUBSET (1..n) |->
                  IF s = {} THEN 0 ELSE mod_n(h[s \ {Max(s)}] + shares[Max(s)].seckey)]
<1>1. combine_shares(shares) = h[1..n]
  BY DEF combine_shares, FoldLeft, MapThenFoldSet
<1>2. 0 \in Scalar /\ Scalar \subseteq Int
  BY OrderAssumption DEF Scalar
<1>3. step \in [1..n -> [Scalar -> Scalar]]
  <2>1. ASSUME NEW i \in 1..n, NEW a \in Scalar PROVE mod_n(a + shares[i].seckey) \in Scalar
    <3>1. a + shares[i].seckey \in Int
      BY <1>2
    <3> QED
      BY <3>1, ModIsScalar
  <2> QED
    BY <2>1
<1>4. Picks(pick, 1..n) /\ IsFiniteSet(1..n) /\ \A s \in SUBSET (1..n) : pick[s] = Max(s)
  BY EndsArePicks DEF Greatest
<1>5. PICK g \in [SUBSET (1..n) -> Scalar] : Folds(g, SUBSET (1..n), pick, 0, step)
  <2> DEFINE D == 1..n
             base == 0
  <2>1. base \in Scalar /\ IsFiniteSet(D) /\ step \in [D -> [Scalar -> Scalar]] /\ Picks(pick, D)
    BY <1>2, <1>3, <1>4
  <2> HIDE DEF D, base, step, pick
  <2>2. \E g \in [SUBSET D -> Scalar] : Folds(g, SUBSET D, pick, base, step)
    BY <2>1, FoldExists
  <2> QED
    BY <2>2 DEF D, base
<1>6. \A s \in SUBSET (1..n) : s # {} => Max(s) \in 1..n
  BY <1>4 DEF Picks
<1> HIDE DEF pick
<1>7. g = [s \in SUBSET (1..n) |->
             IF s = {} THEN 0 ELSE mod_n(g[s \ {Max(s)}] + shares[Max(s)].seckey)]
  <2>1. ASSUME NEW s \in SUBSET (1..n), s # {}
        PROVE  g[s] = mod_n(g[s \ {Max(s)}] + shares[Max(s)].seckey)
    <3>1. Max(s) \in 1..n /\ g[s \ {Max(s)}] \in Scalar
      BY <1>6, <2>1
    <3>2. g[s] = step[Max(s)][g[s \ {Max(s)}]]
      BY <1>4, <1>5, <2>1 DEF Folds
    <3> QED
      BY <3>1, <3>2
  <2>2. {} \in SUBSET (1..n) /\ g[{}] = 0
    BY <1>5 DEF Folds
  <2> QED
    BY <2>1, <2>2
<1>8. h = [s \in SUBSET (1..n) |->
             IF s = {} THEN 0 ELSE mod_n(h[s \ {Max(s)}] + shares[Max(s)].seckey)]
  <2> HIDE DEF step
  <2>1. \E k : k = [s \in SUBSET (1..n) |->
             IF s = {} THEN 0 ELSE mod_n(k[s \ {Max(s)}] + shares[Max(s)].seckey)]
    BY <1>7, Zenon
  <2> QED
    BY <2>1, Zenon
<1> HIDE DEF h
<1>9. Follows(h, 1..n, pick, Scalar, 0, step)
  <2>1. ASSUME NEW s \in SUBSET (1..n), s # {}, h[s \ {pick[s]}] \in Scalar
        PROVE  h[s] = step[pick[s]][h[s \ {pick[s]}]]
    <3>1. pick[s] = Max(s) /\ Max(s) \in 1..n
      BY <1>4, <1>6, <2>1
    <3>2. h[s] = mod_n(h[s \ {Max(s)}] + shares[Max(s)].seckey)
      BY <1>8, <2>1
    <3> QED
      BY <2>1, <3>1, <3>2
  <2>2. {} \in SUBSET (1..n) /\ h[{}] = 0
    BY <1>8
  <2> HIDE DEF step
  <2> QED
    BY <2>1, <2>2 DEF Follows
<1>10. PICK r : IsLeftChain(r, n, Scalar, 0, step) /\ r[n] = h[1..n]
  <2> DEFINE base == 0
  <2>1. base \in Scalar /\ Follows(h, 1..n, pick, Scalar, base, step)
    BY <1>2, <1>9
  <2> HIDE DEF base, step
  <2>2. \E r : IsLeftChain(r, n, Scalar, base, step) /\ r[n] = h[1..n]
    BY <1>3, <2>1, LeftChain DEF pick
  <2> QED
    BY <2>2 DEF base
<1>11. r \in [0..n -> Scalar] /\ r[0] = 0
  BY <1>10 DEF IsLeftChain
<1>12. ASSUME NEW k \in 1..n PROVE r[k] = mod_n(r[k - 1] + shares[k].seckey)
  <2>1. r[k - 1] \in Scalar
    BY <1>11
  <2>2. r[k] = step[k][r[k - 1]]
    BY <1>10 DEF IsLeftChain
  <2> QED
    BY <2>1, <2>2
<1> HIDE DEF step
<1> QED
  BY <1>1, <1>10, <1>11, <1>12 DEF IsShareSum

(* So is the sum of points (element_add_many).                             *)
IsPointSum(r, n, elems) ==
  /\ r \in [0..n -> Point] /\ r[0] = identity /\ element_add_many(elems) = r[n]
  /\ \A k \in 1..n : r[k] = element_add(r[k - 1], elems[k])

(* Points are added one after the other (element_add_many).                *)
LEMMA PointSteps ==
  ASSUME NEW n \in Nat, NEW elems, DOMAIN elems = 1..n, \A k \in 1..n : elems[k].dlog \in Int
  PROVE  \E r : IsPointSum(r, n, elems)
<1> DEFINE step == [i \in 1..n |-> [a \in Point |-> element_add(a, elems[i])]]
           pick == Greatest(n)
           h == CHOOSE h : h = [s \in SUBSET (1..n) |->
                  IF s = {} THEN identity ELSE element_add(h[s \ {Max(s)}], elems[Max(s)])]
<1>1. element_add_many(elems) = h[1..n]
  BY DEF element_add_many, FoldLeft, MapThenFoldSet
<1>2. identity \in Point
  BY OrderAssumption DEF identity, Point, Scalar
<1>3. step \in [1..n -> [Point -> Point]]
  <2>1. ASSUME NEW i \in 1..n, NEW a \in Point PROVE element_add(a, elems[i]) \in Point
    <3>1. a.dlog \in Int
      BY OrderAssumption DEF Point, Scalar
    <3>2. a.dlog + elems[i].dlog \in Int
      BY <3>1
    <3> QED
      BY <3>2, ModIsScalar DEF element_add, Point
  <2> QED
    BY <2>1
<1>4. Picks(pick, 1..n) /\ IsFiniteSet(1..n) /\ \A s \in SUBSET (1..n) : pick[s] = Max(s)
  BY EndsArePicks DEF Greatest
<1>5. PICK g \in [SUBSET (1..n) -> Point] : Folds(g, SUBSET (1..n), pick, identity, step)
  <2> DEFINE D == 1..n
             base == identity
  <2>1. base \in Point /\ IsFiniteSet(D) /\ step \in [D -> [Point -> Point]] /\ Picks(pick, D)
    BY <1>2, <1>3, <1>4
  <2> HIDE DEF D, base, step, pick
  <2>2. \E g \in [SUBSET D -> Point] : Folds(g, SUBSET D, pick, base, step)
    BY <2>1, FoldExists
  <2> QED
    BY <2>2 DEF D, base
<1>6. \A s \in SUBSET (1..n) : s # {} => Max(s) \in 1..n
  BY <1>4 DEF Picks
<1> HIDE DEF pick
<1>7. g = [s \in SUBSET (1..n) |->
             IF s = {} THEN identity ELSE element_add(g[s \ {Max(s)}], elems[Max(s)])]
  <2>1. ASSUME NEW s \in SUBSET (1..n), s # {}
        PROVE  g[s] = element_add(g[s \ {Max(s)}], elems[Max(s)])
    <3>1. Max(s) \in 1..n /\ g[s \ {Max(s)}] \in Point
      BY <1>6, <2>1
    <3>2. g[s] = step[Max(s)][g[s \ {Max(s)}]]
      BY <1>4, <1>5, <2>1 DEF Folds
    <3> QED
      BY <3>1, <3>2
  <2>2. {} \in SUBSET (1..n) /\ g[{}] = identity
    BY <1>5 DEF Folds
  <2> QED
    BY <2>1, <2>2
<1>8. h = [s \in SUBSET (1..n) |->
             IF s = {} THEN identity ELSE element_add(h[s \ {Max(s)}], elems[Max(s)])]
  <2> HIDE DEF step
  <2>1. \E k : k = [s \in SUBSET (1..n) |->
             IF s = {} THEN identity ELSE element_add(k[s \ {Max(s)}], elems[Max(s)])]
    BY <1>7, Zenon
  <2> QED
    BY <2>1, Zenon
<1> HIDE DEF h
<1>9. Follows(h, 1..n, pick, Point, identity, step)
  <2>1. ASSUME NEW s \in SUBSET (1..n), s # {}, h[s \ {pick[s]}] \in Point
        PROVE  h[s] = step[pick[s]][h[s \ {pick[s]}]]
    <3>1. pick[s] = Max(s) /\ Max(s) \in 1..n
      BY <1>4, <1>6, <2>1
    <3>2. h[s] = element_add(h[s \ {Max(s)}], elems[Max(s)])
      BY <1>8, <2>1
    <3> QED
      BY <2>1, <3>1, <3>2
  <2>2. {} \in SUBSET (1..n) /\ h[{}] = identity
    BY <1>8
  <2> HIDE DEF step
  <2> QED
    BY <2>1, <2>2 DEF Follows
<1>10. PICK r : IsLeftChain(r, n, Point, identity, step) /\ r[n] = h[1..n]
  <2> HIDE DEF step
  <2> QED
    BY <1>2, <1>3, <1>9, LeftChain DEF pick
<1>11. r \in [0..n -> Point] /\ r[0] = identity
  BY <1>10 DEF IsLeftChain
<1>12. ASSUME NEW k \in 1..n PROVE r[k] = element_add(r[k - 1], elems[k])
  <2>1. r[k - 1] \in Point
    BY <1>11
  <2>2. r[k] = step[k][r[k - 1]]
    BY <1>10 DEF IsLeftChain
  <2> QED
    BY <2>1, <2>2
<1> HIDE DEF step
<1> QED
  BY <1>1, <1>10, <1>11, <1>12 DEF IsPointSum

(* A polynomial is evaluated from its last coefficient on (evaluate_x).    *)
IsHorner(r, n, coeffs, x) ==
  /\ r \in [1..(n + 1) -> Scalar] /\ r[n + 1] = 0 /\ evaluate_x(coeffs, x) = r[1]
  /\ \A k \in 1..n : r[k] = mod_n(r[k + 1] * x + coeffs[k])

(* Horner's rule, one coefficient at a time (evaluate_x).                  *)
LEMMA HornerSteps ==
  ASSUME NEW n \in Nat, NEW coeffs, DOMAIN coeffs = 1..n, \A k \in 1..n : coeffs[k] \in Int, NEW x \in Int
  PROVE  \E r : IsHorner(r, n, coeffs, x)
<1> DEFINE step == [i \in 1..n |-> [a \in Scalar |-> mod_n(a * x + coeffs[i])]]
           pick == Least(n)
           h == CHOOSE h : h = [s \in SUBSET (1..n) |->
                  IF s = {} THEN 0 ELSE mod_n(h[s \ {Min(s)}] * x + coeffs[Min(s)])]
<1>1. evaluate_x(coeffs, x) = h[1..n]
  BY DEF evaluate_x, FoldRight, MapThenFoldSet
<1>2. 0 \in Scalar /\ Scalar \subseteq Int
  BY OrderAssumption DEF Scalar
<1>3. step \in [1..n -> [Scalar -> Scalar]]
  <2>1. ASSUME NEW i \in 1..n, NEW a \in Scalar PROVE mod_n(a * x + coeffs[i]) \in Scalar
    <3>1. a * x \in Int
      BY <1>2
    <3>2. a * x + coeffs[i] \in Int
      BY <3>1
    <3> QED
      BY <3>2, ModIsScalar
  <2> QED
    BY <2>1
<1>4. Picks(pick, 1..n) /\ IsFiniteSet(1..n) /\ \A s \in SUBSET (1..n) : pick[s] = Min(s)
  BY EndsArePicks DEF Least
<1>5. PICK g \in [SUBSET (1..n) -> Scalar] : Folds(g, SUBSET (1..n), pick, 0, step)
  <2> DEFINE D == 1..n
             base == 0
  <2>1. base \in Scalar /\ IsFiniteSet(D) /\ step \in [D -> [Scalar -> Scalar]] /\ Picks(pick, D)
    BY <1>2, <1>3, <1>4
  <2> HIDE DEF D, base, step, pick
  <2>2. \E g \in [SUBSET D -> Scalar] : Folds(g, SUBSET D, pick, base, step)
    BY <2>1, FoldExists
  <2> QED
    BY <2>2 DEF D, base
<1>6. \A s \in SUBSET (1..n) : s # {} => Min(s) \in 1..n
  BY <1>4 DEF Picks
<1> HIDE DEF pick
<1>7. g = [s \in SUBSET (1..n) |->
             IF s = {} THEN 0 ELSE mod_n(g[s \ {Min(s)}] * x + coeffs[Min(s)])]
  <2>1. ASSUME NEW s \in SUBSET (1..n), s # {}
        PROVE  g[s] = mod_n(g[s \ {Min(s)}] * x + coeffs[Min(s)])
    <3>1. Min(s) \in 1..n /\ g[s \ {Min(s)}] \in Scalar
      BY <1>6, <2>1
    <3>2. g[s] = step[Min(s)][g[s \ {Min(s)}]]
      BY <1>4, <1>5, <2>1 DEF Folds
    <3> QED
      BY <3>1, <3>2
  <2>2. {} \in SUBSET (1..n) /\ g[{}] = 0
    BY <1>5 DEF Folds
  <2> QED
    BY <2>1, <2>2
<1>8. h = [s \in SUBSET (1..n) |->
             IF s = {} THEN 0 ELSE mod_n(h[s \ {Min(s)}] * x + coeffs[Min(s)])]
  <2> HIDE DEF step
  <2>1. \E k : k = [s \in SUBSET (1..n) |->
             IF s = {} THEN 0 ELSE mod_n(k[s \ {Min(s)}] * x + coeffs[Min(s)])]
    BY <1>7, Zenon
  <2> QED
    BY <2>1, Zenon
<1> HIDE DEF h
<1>9. Follows(h, 1..n, pick, Scalar, 0, step)
  <2>1. ASSUME NEW s \in SUBSET (1..n), s # {}, h[s \ {pick[s]}] \in Scalar
        PROVE  h[s] = step[pick[s]][h[s \ {pick[s]}]]
    <3>1. pick[s] = Min(s) /\ Min(s) \in 1..n
      BY <1>4, <1>6, <2>1
    <3>2. h[s] = mod_n(h[s \ {Min(s)}] * x + coeffs[Min(s)])
      BY <1>8, <2>1
    <3> QED
      BY <2>1, <3>1, <3>2
  <2>2. {} \in SUBSET (1..n) /\ h[{}] = 0
    BY <1>8
  <2> HIDE DEF step
  <2> QED
    BY <2>1, <2>2 DEF Follows
<1>10. PICK r : IsRightChain(r, n, Scalar, 0, step) /\ r[1] = h[1..n]
  <2> DEFINE base == 0
  <2>1. base \in Scalar /\ Follows(h, 1..n, pick, Scalar, base, step)
    BY <1>2, <1>9
  <2> HIDE DEF base, step
  <2>2. \E r : IsRightChain(r, n, Scalar, base, step) /\ r[1] = h[1..n]
    BY <1>3, <2>1, RightChain DEF pick
  <2> QED
    BY <2>2 DEF base
<1>11. r \in [1..(n + 1) -> Scalar] /\ r[n + 1] = 0
  BY <1>10 DEF IsRightChain
<1>12. ASSUME NEW k \in 1..n PROVE r[k] = mod_n(r[k + 1] * x + coeffs[k])
  <2>1. r[k + 1] \in Scalar
    BY <1>11
  <2>2. r[k] = step[k][r[k + 1]]
    BY <1>10 DEF IsRightChain
  <2> QED
    BY <2>1, <2>2
<1> HIDE DEF step
<1> QED
  BY <1>1, <1>10, <1>11, <1>12 DEF IsHorner

(* The sum of numbers that are not reduced (gen_recovery_shares).          *)
SumOf(nums) == FoldLeft(LAMBDA p, m : p + m, 0, nums)

IsNumberSum(r, n, nums) ==
  /\ r \in [0..n -> Int] /\ r[0] = 0 /\ SumOf(nums) = r[n]
  /\ \A k \in 1..n : r[k] = r[k - 1] + nums[k]

(* Numbers are added one after the other.                                  *)
LEMMA NumberSteps ==
  ASSUME NEW n \in Nat, NEW nums, DOMAIN nums = 1..n, \A k \in 1..n : nums[k] \in Int
  PROVE  \E r : IsNumberSum(r, n, nums)
<1> DEFINE step == [i \in 1..n |-> [a \in Int |-> a + nums[i]]]
           pick == Greatest(n)
           h == CHOOSE h : h = [s \in SUBSET (1..n) |->
                  IF s = {} THEN 0 ELSE h[s \ {Max(s)}] + nums[Max(s)]]
<1>1. SumOf(nums) = h[1..n]
  BY DEF SumOf, FoldLeft, MapThenFoldSet
<1>2. 0 \in Int
  OBVIOUS
<1>3. step \in [1..n -> [Int -> Int]]
  OBVIOUS
<1>4. Picks(pick, 1..n) /\ IsFiniteSet(1..n) /\ \A s \in SUBSET (1..n) : pick[s] = Max(s)
  BY EndsArePicks DEF Greatest
<1>5. PICK g \in [SUBSET (1..n) -> Int] : Folds(g, SUBSET (1..n), pick, 0, step)
  <2> DEFINE D == 1..n
             base == 0
             W == Int
  <2>1. base \in W /\ IsFiniteSet(D) /\ step \in [D -> [W -> W]] /\ Picks(pick, D)
    BY <1>2, <1>3, <1>4
  <2> HIDE DEF D, base, step, pick, W
  <2>2. \E g \in [SUBSET D -> W] : Folds(g, SUBSET D, pick, base, step)
    BY <2>1, FoldExists
  <2> QED
    BY <2>2 DEF D, base, W
<1>6. \A s \in SUBSET (1..n) : s # {} => Max(s) \in 1..n
  BY <1>4 DEF Picks
<1> HIDE DEF pick
<1>7. g = [s \in SUBSET (1..n) |->
             IF s = {} THEN 0 ELSE g[s \ {Max(s)}] + nums[Max(s)]]
  <2>1. ASSUME NEW s \in SUBSET (1..n), s # {}
        PROVE  g[s] = g[s \ {Max(s)}] + nums[Max(s)]
    <3>1. Max(s) \in 1..n /\ g[s \ {Max(s)}] \in Int
      BY <1>6, <2>1
    <3>2. g[s] = step[Max(s)][g[s \ {Max(s)}]]
      BY <1>4, <1>5, <2>1 DEF Folds
    <3> QED
      BY <3>1, <3>2
  <2>2. {} \in SUBSET (1..n) /\ g[{}] = 0
    BY <1>5 DEF Folds
  <2> QED
    BY <2>1, <2>2
<1>8. h = [s \in SUBSET (1..n) |->
             IF s = {} THEN 0 ELSE h[s \ {Max(s)}] + nums[Max(s)]]
  <2> HIDE DEF step
  <2>1. \E k : k = [s \in SUBSET (1..n) |->
             IF s = {} THEN 0 ELSE k[s \ {Max(s)}] + nums[Max(s)]]
    BY <1>7, Zenon
  <2> QED
    BY <2>1, Zenon
<1> HIDE DEF h
<1>9. Follows(h, 1..n, pick, Int, 0, step)
  <2>1. ASSUME NEW s \in SUBSET (1..n), s # {}, h[s \ {pick[s]}] \in Int
        PROVE  h[s] = step[pick[s]][h[s \ {pick[s]}]]
    <3>1. pick[s] = Max(s) /\ Max(s) \in 1..n
      BY <1>4, <1>6, <2>1
    <3>2. h[s] = h[s \ {Max(s)}] + nums[Max(s)]
      BY <1>8, <2>1
    <3> QED
      BY <2>1, <3>1, <3>2
  <2>2. {} \in SUBSET (1..n) /\ h[{}] = 0
    BY <1>8
  <2> HIDE DEF step
  <2> QED
    BY <2>1, <2>2 DEF Follows
<1>10. PICK r : IsLeftChain(r, n, Int, 0, step) /\ r[n] = h[1..n]
  <2> DEFINE W == Int
             base == 0
  <2>1. base \in W /\ step \in [1..n -> [W -> W]] /\ Follows(h, 1..n, Greatest(n), W, base, step)
    BY <1>2, <1>3, <1>9 DEF pick
  <2> HIDE DEF W, base, step
  <2>2. \E r : IsLeftChain(r, n, W, base, step) /\ r[n] = h[1..n]
    BY <2>1, LeftChain, SMTT(30)
  <2> QED
    BY <2>2 DEF W, base
<1>11. r \in [0..n -> Int] /\ r[0] = 0
  BY <1>10 DEF IsLeftChain
<1>12. ASSUME NEW k \in 1..n PROVE r[k] = r[k - 1] + nums[k]
  <2>1. r[k - 1] \in Int
    BY <1>11
  <2>2. r[k] = step[k][r[k - 1]]
    BY <1>10 DEF IsLeftChain
  <2> QED
    BY <2>1, <2>2
<1> HIDE DEF step
<1> QED
  BY <1>1, <1>10, <1>11, <1>12 DEF IsNumberSum

(* The sum of two points is a point.                                       *)
LEMMA SumIsPoint == \A a, b \in Point : element_add(a, b) \in Point
<1> SUFFICES ASSUME NEW a \in Point, NEW b \in Point PROVE element_add(a, b) \in Point
  OBVIOUS
<1>1. a.dlog \in Int /\ b.dlog \in Int
  BY OrderAssumption DEF Point, Scalar
<1>2. mod_n(a.dlog + b.dlog) \in Scalar
  BY <1>1, ModIsScalar
<1> QED
  BY <1>2 DEF element_add, Point

(* Commitments are merged one after the other (merge_share_commits).       *)
Merged(first, elems) ==
  FoldLeft(LAMBDA acc, c : merge_share_commits(acc, c.vss_commits), first, elems)

IsMerge(r, n, t, first, elems) ==
  /\ r \in [0..n -> [1..t -> Point]] /\ r[0] = first /\ Merged(first, elems) = r[n]
  /\ \A k \in 1..n : r[k] = merge_share_commits(r[k - 1], elems[k].vss_commits)

(* Commitments are merged one participant after the other                  *)
(* (merge_share_commits).                                                  *)
LEMMA MergeSteps ==
  ASSUME NEW n \in Nat, NEW t, NEW first \in [1..t -> Point], NEW elems,
         DOMAIN elems = 1..n, \A k \in 1..n : elems[k].vss_commits \in [1..t -> Point]
  PROVE  \E r : IsMerge(r, n, t, first, elems)
<1> DEFINE Commits == [1..t -> Point]
           step == [i \in 1..n |-> [a \in Commits |-> merge_share_commits(a, elems[i].vss_commits)]]
           pick == Greatest(n)
           h == CHOOSE h : h = [s \in SUBSET (1..n) |->
                  IF s = {} THEN first ELSE merge_share_commits(h[s \ {Max(s)}], elems[Max(s)].vss_commits)]
<1>1. Merged(first, elems) = h[1..n]
  BY DEF Merged, FoldLeft, MapThenFoldSet
<1>2. first \in Commits
  OBVIOUS
<1>3. step \in [1..n -> [Commits -> Commits]]
  <2>1. ASSUME NEW i \in 1..n, NEW a \in Commits
        PROVE  merge_share_commits(a, elems[i].vss_commits) \in Commits
    <3>1. \A j \in 1..t : element_add(a[j], elems[i].vss_commits[j]) \in Point
      BY SumIsPoint
    <3> QED
      BY <3>1 DEF merge_share_commits
  <2> QED
    BY <2>1
<1> HIDE DEF Commits
<1>4. Picks(pick, 1..n) /\ IsFiniteSet(1..n) /\ \A s \in SUBSET (1..n) : pick[s] = Max(s)
  BY EndsArePicks DEF Greatest
<1>5. PICK g \in [SUBSET (1..n) -> Commits] : Folds(g, SUBSET (1..n), pick, first, step)
  <2> DEFINE D == 1..n
             base == first
             W == Commits
  <2>1. base \in W /\ IsFiniteSet(D) /\ step \in [D -> [W -> W]] /\ Picks(pick, D)
    BY <1>2, <1>3, <1>4
  <2> HIDE DEF D, base, step, pick, W
  <2>2. \E g \in [SUBSET D -> W] : Folds(g, SUBSET D, pick, base, step)
    BY <2>1, FoldExists
  <2> QED
    BY <2>2 DEF D, base, W
<1>6. \A s \in SUBSET (1..n) : s # {} => Max(s) \in 1..n
  BY <1>4 DEF Picks
<1> HIDE DEF pick
<1>7. g = [s \in SUBSET (1..n) |->
             IF s = {} THEN first ELSE merge_share_commits(g[s \ {Max(s)}], elems[Max(s)].vss_commits)]
  <2>1. ASSUME NEW s \in SUBSET (1..n), s # {}
        PROVE  g[s] = merge_share_commits(g[s \ {Max(s)}], elems[Max(s)].vss_commits)
    <3>1. Max(s) \in 1..n /\ g[s \ {Max(s)}] \in Commits
      BY <1>6, <2>1
    <3>2. g[s] = step[Max(s)][g[s \ {Max(s)}]]
      BY <1>4, <1>5, <2>1 DEF Folds
    <3> QED
      BY <3>1, <3>2
  <2>2. {} \in SUBSET (1..n) /\ g[{}] = first
    BY <1>5 DEF Folds
  <2> QED
    BY <2>1, <2>2
<1>8. h = [s \in SUBSET (1..n) |->
             IF s = {} THEN first ELSE merge_share_commits(h[s \ {Max(s)}], elems[Max(s)].vss_commits)]
  <2> HIDE DEF step
  <2>1. \E k : k = [s \in SUBSET (1..n) |->
             IF s = {} THEN first ELSE merge_share_commits(k[s \ {Max(s)}], elems[Max(s)].vss_commits)]
    BY <1>7, Zenon
  <2> QED
    BY <2>1, Zenon
<1> HIDE DEF h
<1>9. Follows(h, 1..n, pick, Commits, first, step)
  <2>1. ASSUME NEW s \in SUBSET (1..n), s # {}, h[s \ {pick[s]}] \in Commits
        PROVE  h[s] = step[pick[s]][h[s \ {pick[s]}]]
    <3>1. pick[s] = Max(s) /\ Max(s) \in 1..n
      BY <1>4, <1>6, <2>1
    <3>2. h[s] = merge_share_commits(h[s \ {Max(s)}], elems[Max(s)].vss_commits)
      BY <1>8, <2>1
    <3> QED
      BY <2>1, <3>1, <3>2
  <2>2. {} \in SUBSET (1..n) /\ h[{}] = first
    BY <1>8
  <2> HIDE DEF step
  <2> QED
    BY <2>1, <2>2 DEF Follows
<1>10. PICK r : IsLeftChain(r, n, Commits, first, step) /\ r[n] = h[1..n]
  <2> HIDE DEF step
  <2> QED
    BY <1>2, <1>3, <1>9, LeftChain DEF pick
<1>11. r \in [0..n -> Commits] /\ r[0] = first
  BY <1>10 DEF IsLeftChain
<1>12. ASSUME NEW k \in 1..n PROVE r[k] = merge_share_commits(r[k - 1], elems[k].vss_commits)
  <2>1. r[k - 1] \in Commits
    BY <1>11
  <2>2. r[k] = step[k][r[k - 1]]
    BY <1>10 DEF IsLeftChain
  <2> QED
    BY <2>1, <2>2
<1> HIDE DEF step
<1> QED
  BY <1>1, <1>10, <1>11, <1>12 DEF IsMerge, Commits

(* A product stays within any set of scalars that has 1 and is closed      *)
(* under multiplication with the factors (calc_lagrange_coeff,             *)
(* interpolate_x).                                                         *)
Times(S, V, f) == [i \in S |-> [a \in V |-> mod_n(a * f[i])]]

IsProduct(h, pick, S, V, f) ==
  Picks(pick, S) /\ Follows(h, S, pick, V, 1, Times(S, V, f)) /\ ProductOf(f) = h[S]

(* A product over a finite set is a fold, and exists.                      *)
LEMMA ProductFold ==
  ASSUME NEW S, IsFiniteSet(S), NEW f, DOMAIN f = S, NEW V, 1 \in V,
         \A i \in S, a \in V : mod_n(a * f[i]) \in V
  PROVE  \E h, pick : IsProduct(h, pick, S, V, f)
<1> DEFINE step == Times(S, V, f)
           pick == [s \in SUBSET S |-> CHOOSE x \in s : TRUE]
           h == CHOOSE h : h = [s \in SUBSET S |->
                  IF s = {} THEN 1
                  ELSE mod_n(h[s \ {CHOOSE x \in s : TRUE}] * f[CHOOSE x \in s : TRUE])]
<1>1. ProductOf(f) = h[S]
  BY DEF ProductOf, FoldFunction, FoldFunctionOnSet, MapThenFoldSet
<1>2. step \in [S -> [V -> V]]
  BY DEF Times
<1>3. \A s \in SUBSET S : s # {} => pick[s] \in s
  OBVIOUS
<1>4. PICK g \in [SUBSET S -> V] : Folds(g, SUBSET S, pick, 1, step)
  <2> DEFINE base == 1
  <2>1. base \in V /\ Picks(pick, S)
    BY <1>3 DEF Picks
  <2> HIDE DEF base, step, pick
  <2>2. \E g \in [SUBSET S -> V] : Folds(g, SUBSET S, pick, base, step)
    BY <1>2, <2>1, FoldExists
  <2> QED
    BY <2>2 DEF base
<1>5. g = [s \in SUBSET S |->
             IF s = {} THEN 1 ELSE mod_n(g[s \ {CHOOSE x \in s : TRUE}] * f[CHOOSE x \in s : TRUE])]
  <2>1. ASSUME NEW s \in SUBSET S, s # {}
        PROVE  g[s] = mod_n(g[s \ {CHOOSE x \in s : TRUE}] * f[CHOOSE x \in s : TRUE])
    <3>1. (CHOOSE x \in s : TRUE) \in S /\ pick[s] = CHOOSE x \in s : TRUE
      BY <1>3, <2>1
    <3>2. g[s \ {CHOOSE x \in s : TRUE}] \in V
      OBVIOUS
    <3>3. g[s] = step[pick[s]][g[s \ {pick[s]}]]
      BY <1>4, <2>1 DEF Folds
    <3> QED
      BY <3>1, <3>2, <3>3 DEF Times
  <2>2. g[{}] = 1
    BY <1>4 DEF Folds
  <2> QED
    BY <2>1, <2>2
<1>6. h = [s \in SUBSET S |->
             IF s = {} THEN 1 ELSE mod_n(h[s \ {CHOOSE x \in s : TRUE}] * f[CHOOSE x \in s : TRUE])]
  <2> HIDE DEF step, pick
  <2>1. \E k : k = [s \in SUBSET S |->
             IF s = {} THEN 1 ELSE mod_n(k[s \ {CHOOSE x \in s : TRUE}] * f[CHOOSE x \in s : TRUE])]
    BY <1>5, Zenon
  <2> QED
    BY <2>1, Zenon
<1> HIDE DEF h
<1>7. Picks(pick, S)
  BY <1>3 DEF Picks
<1>8. Follows(h, S, pick, V, 1, step)
  <2>1. h[{}] = 1
    BY <1>6
  <2>2. ASSUME NEW s \in SUBSET S, s # {}, h[s \ {pick[s]}] \in V
        PROVE  h[s] = step[pick[s]][h[s \ {pick[s]}]]
    <3>1. pick[s] \in S /\ pick[s] = CHOOSE x \in s : TRUE
      BY <1>3, <2>2
    <3>2. h[s] = mod_n(h[s \ {pick[s]}] * f[pick[s]])
      BY <1>6, <2>2, <3>1
    <3> HIDE DEF pick
    <3> QED
      BY <2>2, <3>1, <3>2 DEF Times
  <2> QED
    BY <2>1, <2>2 DEF Follows
<1> HIDE DEF step, pick
<1> QED
  BY <1>1, <1>7, <1>8 DEF IsProduct, step

(* A product stays in a set that multiplying stays in.                     *)
LEMMA ProductStaysIn ==
  ASSUME NEW S, IsFiniteSet(S), NEW f, DOMAIN f = S, NEW V, 1 \in V,
         \A i \in S, a \in V : mod_n(a * f[i]) \in V
  PROVE  ProductOf(f) \in V
<1> DEFINE base == 1
           step == Times(S, V, f)
<1>1. PICK h, pick : IsProduct(h, pick, S, V, f)
  BY ProductFold
<1>2. base \in V /\ step \in [S -> [V -> V]]
  BY DEF Times
<1>3. Picks(pick, S) /\ Follows(h, S, pick, V, base, step) /\ ProductOf(f) = h[S]
  BY <1>1 DEF IsProduct
<1> HIDE DEF base, step
<1>4. \A s \in SUBSET S : h[s] \in V
  BY <1>2, <1>3, FollowsTyped
<1> QED
  BY <1>3, <1>4

(* The product of numbers is a scalar, ...                                 *)
LEMMA ProductIsScalar ==
  ASSUME NEW S, IsFiniteSet(S), NEW f \in [S -> Int]
  PROVE  ProductOf(f) \in Scalar
<1>1. 1 \in Scalar /\ Scalar \subseteq Int
  BY OrderAssumption DEF Scalar
<1>2. \A i \in S, a \in Scalar : mod_n(a * f[i]) \in Scalar
  BY <1>1, ModIsScalar
<1> QED
  BY <1>1, <1>2, ProductStaysIn

(* ... and not 0 when none of them is a multiple of Q, since Q is prime.   *)
LEMMA InverseExists ==
  ASSUME NEW a \in Scalar \ {0}
  PROVE  scalar_invert(a) \in Scalar /\ mod_n(a * scalar_invert(a)) = 1
<1>1. a \in 1..(Q - 1)
  BY OrderAssumption DEF Scalar
<1>2. \E b \in Scalar : mod_n(a * b) = 1
  <2>1. PICK b \in 1..(Q - 1) : (a * b) % Q = 1
    BY <1>1, OrderAssumption
  <2>2. b \in Scalar
    BY OrderAssumption DEF Scalar
  <2> QED
    BY <2>1, <2>2 DEF mod_n
<1> QED
  BY <1>2 DEF scalar_invert

(* No product of two scalars other than zero is zero: the order is prime.  *)
LEMMA ProductNotZero ==
  ASSUME NEW a \in Scalar \ {0}, NEW b \in Int, mod_n(b) # 0
  PROVE  mod_n(a * b) \in Scalar \ {0}
<1>0. Q \in Int /\ Q > 2 /\ Scalar \subseteq Int
  BY OrderAssumption DEF Scalar
<1> DEFINE c == mod_n(b)
           i == scalar_invert(a)
           j == scalar_invert(c)
<1>1. c \in Scalar \ {0}
  BY ModIsScalar
<1>2. i \in Scalar /\ mod_n(a * i) = 1
  BY InverseExists
<1>3. j \in Scalar /\ mod_n(c * j) = 1
  BY <1>1, InverseExists
<1>4. mod_n(a * b) = mod_n(a * c) /\ mod_n(a * b) \in Scalar
  BY <1>0, ModOfProduct, ModIsScalar
<1> HIDE DEF c, i, j
<1>5. a \in Int /\ c \in Int /\ i \in Int /\ j \in Int
  BY <1>0, <1>1, <1>2, <1>3
<1>6. ASSUME mod_n(a * c) = 0 PROVE FALSE
  <2>0. i * j \in Int /\ a * c \in Int
    BY <1>5
  <2>1. mod_n((i * j) * (a * c)) = mod_n((i * j) * 0)
    <3>1. mod_n((i * j) * mod_n(a * c)) = mod_n((i * j) * (a * c))
      BY <2>0, ModOfProduct
    <3> QED
      BY <1>6, <3>1
  <2>2. mod_n((i * j) * 0) = 0
    BY <1>0, <1>5 DEF mod_n
  <2>3. (i * j) * (a * c) = (a * i) * (c * j)
    BY <1>5
  <2>4. mod_n((a * i) * (c * j)) = mod_n((a * i) * 1)
    BY <1>3, <1>5, ModOfProduct
  <2>5. a * i \in Int
    BY <1>5
  <2>6. (a * i) * 1 = a * i
    BY <2>5
  <2>7. mod_n((a * i) * (c * j)) = 1
    BY <1>2, <2>4, <2>6
  <2>8. mod_n((i * j) * (a * c)) = 1
    BY <2>3, <2>7
  <2> QED
    BY <2>1, <2>2, <2>8
<1> QED
  BY <1>4, <1>6

(* No product of many is zero either.                                      *)
LEMMA ProductIsNotZero ==
  ASSUME NEW S, IsFiniteSet(S), NEW f \in [S -> Int], \A i \in S : mod_n(f[i]) # 0
  PROVE  ProductOf(f) \in Scalar \ {0}
<1>1. 1 \in Scalar \ {0}
  BY OrderAssumption DEF Scalar
<1>2. \A i \in S, a \in Scalar \ {0} : mod_n(a * f[i]) \in Scalar \ {0}
  BY ProductNotZero
<1> QED
  BY <1>1, <1>2, ProductStaysIn

(* Different indices below Q differ modulo Q, so that the denominators of  *)
(* the Lagrange coefficients have inverses (interpolate_x).                *)
LEMMA IndicesDiffer ==
  ASSUME NEW i \in 1..(Q - 1), NEW j \in 1..(Q - 1), i # j
  PROVE  i - j \in Int /\ mod_n(i - j) # 0
<1>1. Q \in Int /\ Q > 2
  BY OrderAssumption
<1>2. i - j \in Int /\ i - j < Q /\ i - j > -Q /\ i - j # 0
  BY <1>1
<1>3. PICK k \in Int : i - j = mod_n(i - j) + Q * k
  BY <1>2, ModIsScalar
<1>4. ASSUME mod_n(i - j) = 0 PROVE FALSE
  <2>1. i - j = Q * k
    BY <1>1, <1>3, <1>4
  <2>2. CASE k >= 1
    BY <1>1, <1>2, <2>1, <2>2
  <2>3. CASE k <= -1
    BY <1>1, <1>2, <2>1, <2>3
  <2>4. CASE k = 0
    BY <1>1, <1>2, <2>1, <2>4
  <2> QED
    BY <2>2, <2>3, <2>4
<1> QED
  BY <1>2, <1>4

(* A Lagrange coefficient of indices of members is a scalar                *)
(* (interpolate_x).                                                        *)
LEMMA InterpolateTyped ==
  ASSUME NEW l \in SUBSET (1..(Q - 1)), IsFiniteSet(l), NEW x \in 1..(Q - 1)
  PROVE  interpolate_x(l, x) \in Scalar
<1>0. 1..(Q - 1) \subseteq Int /\ Scalar \subseteq Int
  BY OrderAssumption DEF Scalar
<1> DEFINE S == l \ {x}
           num == [j \in S |-> j]
           den == [j \in S |-> j - x]
<1>1. IsFiniteSet(S)
  BY FS_Subset
<1>2. num \in [S -> Int] /\ den \in [S -> Int]
  BY <1>0
<1>3. \A j \in S : mod_n(den[j]) # 0
  BY IndicesDiffer
<1>4. interpolate_x(l, x) = mod_n(ProductOf(num) * scalar_invert(ProductOf(den)))
  BY DEF interpolate_x
<1> HIDE DEF S, num, den
<1>5. ProductOf(num) \in Scalar /\ ProductOf(den) \in Scalar \ {0}
  BY <1>1, <1>2, <1>3, ProductIsScalar, ProductIsNotZero
<1>6. scalar_invert(ProductOf(den)) \in Scalar
  BY <1>5, InverseExists
<1>7. ProductOf(num) * scalar_invert(ProductOf(den)) \in Int
  <2>1. ProductOf(num) \in Int /\ scalar_invert(ProductOf(den)) \in Int
    BY <1>0, <1>5, <1>6
  <2> QED
    BY <2>1
<1>8. mod_n(ProductOf(num) * scalar_invert(ProductOf(den))) \in Scalar
  BY <1>7, ModIsScalar
<1> QED
  BY <1>4, <1>8

-----------------------------------------------------------------------------
(* Partial signatures.                                                     *)

(* The scalar a signer computes and the one its public nonce and key       *)
(* imply, with the names of sign_msg and verify_partial_sig: cl for        *)
(* challenge times coefficient, sign for the parity of the group nonce.    *)
LEMMA SigningEquation ==
  ASSUME NEW cl \in Int, NEW parity \in Int, NEW state \in Int, NEW seckey \in Int,
         NEW sign \in Int, NEW hidden \in Int, NEW binder \in Int, NEW factor \in Int
  PROVE  mod_n(cl * mod_n(parity * state * seckey) + sign * mod_n(hidden + binder * factor))
           = mod_n(mod_n(mod_n(hidden + mod_n(binder * factor)) * sign)
                     + mod_n(seckey * mod_n(cl * parity * state)))
<1>0. \A a \in Int : mod_n(a) \in Int
  BY OrderAssumption, ModIsScalar DEF Scalar
<1> DEFINE key == parity * state * seckey
           chal == cl * parity * state
           nonce == mod_n(hidden + binder * factor)
<1>1. binder * factor \in Int /\ hidden + binder * factor \in Int
  OBVIOUS
<1>2. key \in Int /\ chal \in Int
  <2>1. parity * state \in Int /\ cl * parity \in Int
    OBVIOUS
  <2> QED
    BY <2>1
<1>3. nonce \in Int /\ mod_n(hidden + mod_n(binder * factor)) = nonce
  BY <1>0, <1>1, ModOfSum
<1>4. cl * key = seckey * chal
  <2>1. parity * state \in Int /\ (cl * parity) * state = cl * (parity * state)
    OBVIOUS
  <2>2. \A a \in Int : cl * (a * seckey) = seckey * (cl * a)
    OBVIOUS
  <2> QED
    BY <2>1, <2>2
<1> HIDE DEF key, chal, nonce
<1>5. cl * key \in Int /\ cl * mod_n(key) \in Int /\ sign * nonce \in Int /\ nonce * sign \in Int
      /\ sign * nonce = nonce * sign /\ seckey * chal \in Int
  <2>1. mod_n(key) \in Int
    BY <1>0, <1>2
  <2> QED
    BY <1>2, <1>3, <2>1
<1>6. mod_n(cl * mod_n(key)) = mod_n(cl * key) /\ mod_n(seckey * mod_n(chal)) = mod_n(seckey * chal)
  BY <1>2, ModOfProduct
<1>7. mod_n(sign * nonce + cl * mod_n(key)) = mod_n(sign * nonce + cl * key)
  <2>1. mod_n(sign * nonce + mod_n(cl * mod_n(key))) = mod_n(sign * nonce + cl * mod_n(key))
    BY <1>5, ModOfSum
  <2>2. mod_n(sign * nonce + mod_n(cl * key)) = mod_n(sign * nonce + cl * key)
    BY <1>5, ModOfSum
  <2> QED
    BY <1>6, <2>1, <2>2
<1>8. mod_n(mod_n(nonce * sign) + mod_n(seckey * mod_n(chal))) = mod_n(sign * nonce + cl * key)
  <2>1. mod_n(mod_n(nonce * sign) + mod_n(seckey * chal))
          = mod_n(mod_n(nonce * sign) + seckey * chal)
    BY <1>0, <1>5, ModOfSum
  <2>2. mod_n(seckey * chal + mod_n(nonce * sign)) = mod_n(seckey * chal + nonce * sign)
    BY <1>5, ModOfSum
  <2>3. /\ mod_n(nonce * sign) + seckey * chal = seckey * chal + mod_n(nonce * sign)
        /\ seckey * chal + nonce * sign = sign * nonce + cl * key
    BY <1>0, <1>4, <1>5
  <2> QED
    BY <1>6, <2>1, <2>2, <2>3
<1>9. cl * mod_n(key) + sign * nonce = sign * nonce + cl * mod_n(key)
  BY <1>5
<1>10. mod_n(cl * mod_n(key) + sign * nonce)
         = mod_n(mod_n(mod_n(hidden + mod_n(binder * factor)) * sign) + mod_n(seckey * mod_n(chal)))
  BY <1>3, <1>7, <1>8, <1>9
<1> QED
  BY <1>10 DEF key, chal, nonce

(* What of a context is a number.                                          *)
CtxTyped(ctx, idx) ==
  /\ ctx.challenge \in Int /\ ctx.parity \in Int /\ ctx.state \in Int
  /\ ctx.bind_factors[idx] \in Int
  /\ interpolate_x(ToSet(ctx.indexes), idx) \in Int

(* A partial signature verifies against the public nonce and the public    *)
(* key of its signer, in any context of numbers (sign_msg,                 *)
(* verify_partial_sig).                                                    *)
LEMMA SignatureVerifies ==
  ASSUME NEW ctx, NEW share, NEW snonce, CtxTyped(ctx, share.idx), share.seckey \in Int,
         snonce.idx = share.idx, snonce.hidden_sn \in Int, snonce.binder_sn \in Int
  PROVE  LET sig == sign_msg(ctx, share, snonce)
         IN  /\ sig.psig \in Scalar
             /\ verify_partial_sig(ctx, PublicNonce(snonce), sig.pubkey, sig.psig)
<1> DEFINE sig == sign_msg(ctx, share, snonce)
           cl == mod_n(ctx.challenge * interpolate_x(ToSet(ctx.indexes), share.idx))
           sign == NonceParity(ctx)
           factor == ctx.bind_factors[share.idx]
<1>1. \A a \in Int : mod_n(a) \in Int
  BY OrderAssumption, ModIsScalar DEF Scalar
<1>2. ctx.challenge \in Int /\ ctx.parity \in Int /\ ctx.state \in Int /\ factor \in Int
  BY DEF CtxTyped
<1>3. cl \in Int
  <2>1. ctx.challenge * interpolate_x(ToSet(ctx.indexes), share.idx) \in Int
    BY DEF CtxTyped
  <2> QED
    BY <1>1, <2>1
<1>4. sign \in Int
  BY OrderAssumption, ParityIsScalar DEF NonceParity, Scalar
<1>5. sig.psig = mod_n(cl * mod_n(ctx.parity * ctx.state * share.seckey)
                         + sign * mod_n(snonce.hidden_sn + snonce.binder_sn * factor))
  BY DEF sign_msg
<1>6. sig.pubkey = [dlog |-> share.seckey]
  BY DEF sign_msg, get_pubkey, scalar_base_multi
<1> DEFINE pn == PublicNonce(snonce)
           point == element_add(
             scalar_multi(element_add(pn.hidden_pn, scalar_multi(pn.binder_pn, factor)), sign),
             scalar_multi(sig.pubkey, mod_n(cl * ctx.parity * ctx.state)))
<1>7. pn.idx = share.idx /\ pn.hidden_pn.dlog = snonce.hidden_sn /\ pn.binder_pn.dlog = snonce.binder_sn
  BY DEF PublicNonce, get_pubkey, scalar_base_multi
<1>8. verify_partial_sig(ctx, pn, sig.pubkey, sig.psig)
        <=> XOnly(scalar_base_multi(sig.psig)) = XOnly(point)
  BY <1>7 DEF verify_partial_sig
<1> HIDE DEF cl, sign, factor, sig, pn
<1>9. point = [dlog |-> mod_n(
                mod_n(mod_n(snonce.hidden_sn + mod_n(snonce.binder_sn * factor)) * sign)
                  + mod_n(share.seckey * mod_n(cl * ctx.parity * ctx.state)))]
  BY <1>6, <1>7 DEF element_add, scalar_multi
<1> HIDE DEF point
<1>10. scalar_base_multi(sig.psig) = point
  BY <1>2, <1>3, <1>4, <1>5, <1>9, SigningEquation DEF scalar_base_multi
<1>11. sig.psig \in Scalar
  <2>1. PICK a \in Int, b \in Int :
          /\ a = mod_n(ctx.parity * ctx.state * share.seckey)
          /\ b = mod_n(snonce.hidden_sn + snonce.binder_sn * factor)
    <3>1. ctx.parity * ctx.state \in Int /\ snonce.binder_sn * factor \in Int
      BY <1>2
    <3>2. ctx.parity * ctx.state * share.seckey \in Int
          /\ snonce.hidden_sn + snonce.binder_sn * factor \in Int
      BY <3>1
    <3> QED
      BY <1>1, <3>2
  <2>2. cl * a + sign * b \in Int
    BY <1>3, <1>4
  <2> QED
    BY <1>5, <2>1, <2>2, ModIsScalar
<1> QED
  BY <1>8, <1>10, <1>11 DEF sig, pn
=============================================================================
