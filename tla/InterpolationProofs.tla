-------------------------- MODULE InterpolationProofs --------------------------
(***************************************************************************)
(* Interpolation: whichever members of a group use it, and however many,   *)
(* as long as they are as many as the threshold, the values of a           *)
(* polynomial at their indices, weighed by their Lagrange coefficients,    *)
(* add up to its value where the coefficients are for.                     *)
(***************************************************************************)
EXTENDS FieldProofs

-----------------------------------------------------------------------------
(* Folds over sets that do not depend on the order.                        *)

(* What holds of a set as soon as it holds of the set without any one of   *)
(* its members holds of every finite set.                                  *)
Hereditary(A, S) ==
  \A s \in SUBSET S : s # {} /\ (\A b \in s : s \ {b} \in A) => s \in A

(* What holds of the empty set and of one element more holds of every      *)
(* finite set.                                                             *)
LEMMA FiniteInduction ==
  ASSUME NEW S, IsFiniteSet(S), NEW A, {} \in A, Hereditary(A, S)
  PROVE  \A s \in SUBSET S : s \in A
<1> DEFINE B == {n \in Nat : \A s \in UpTo(S, n) : s \in A}
<1>1. 0 \in B
  <2>1. ASSUME NEW s \in UpTo(S, 0) PROVE s \in A
    <3>1. s = {}
      BY FS_Subset, FS_EmptySet, FS_CardinalityType DEF UpTo
    <3> QED
      BY <3>1
  <2> QED
    BY <2>1
<1>2. ASSUME NEW n \in B PROVE n + 1 \in B
  <2>1. ASSUME NEW s \in UpTo(S, n + 1), s # {} PROVE s \in A
    <3>1. s \in SUBSET S /\ IsFiniteSet(s) /\ Cardinality(s) \in Nat /\ Cardinality(s) <= n + 1
      BY FS_Subset, FS_CardinalityType DEF UpTo
    <3>2. ASSUME NEW b \in s PROVE s \ {b} \in A
      <4>1. Cardinality(s \ {b}) = Cardinality(s) - 1
        BY <3>1, FS_RemoveElement
      <4>2. s \ {b} \in UpTo(S, n)
        BY <3>1, <4>1 DEF UpTo
      <4> QED
        BY <4>2
    <3> QED
      BY <2>1, <3>1, <3>2 DEF Hereditary
  <2> QED
    BY <2>1
<1>3. \A n \in Nat : n \in B
  <2> HIDE DEF B
  <2>1. B \in SUBSET Nat
    BY DEF B
  <2> QED
    BY <1>1, <1>2, <2>1, SetInduction
<1>4. ASSUME NEW s \in SUBSET S PROVE s \in A
  <2>1. IsFiniteSet(s) /\ Cardinality(s) \in Nat
    BY FS_Subset, FS_CardinalityType
  <2>2. Cardinality(s) \in B
    <3> HIDE DEF B
    <3> QED
      BY <1>3, <2>1
  <2>3. s \in UpTo(S, Cardinality(s))
    BY <2>1 DEF UpTo
  <2> QED
    BY <2>2, <2>3
<1> QED
  BY <1>4

(* The steps of two members may change places.                             *)
Commute(step, S, V) ==
  \A i, j \in S : \A v \in V : step[i][step[j][v]] = step[j][step[i][v]]

(* A fold out of which any member can be taken.                            *)
IsFree(h, S, V, base, step) ==
  /\ h[{}] = base
  /\ \A s \in SUBSET S : h[s] \in V
  /\ \A s \in SUBSET S : \A b \in s : h[s] = step[b][h[s \ {b}]]

(* When steps commute, a fold may take any element last.                   *)
LEMMA FollowsFree ==
  ASSUME NEW S, IsFiniteSet(S), NEW V, NEW base \in V, NEW step \in [S -> [V -> V]],
         Commute(step, S, V), NEW pick, Picks(pick, S), NEW h, Follows(h, S, pick, V, base, step)
  PROVE  IsFree(h, S, V, base, step)
<1> DEFINE A == {s \in SUBSET S : \A b \in s : h[s] = step[b][h[s \ {b}]]}
<1>1. \A s \in SUBSET S : h[s] \in V
  BY FollowsTyped
<1>2. {} \in A
  OBVIOUS
<1>3. ASSUME NEW s \in SUBSET S, s # {}, \A b \in s : s \ {b} \in A PROVE s \in A
  <2> DEFINE p == pick[s]
  <2>1. p \in s /\ p \in S
    BY <1>3 DEF Picks
  <2> HIDE DEF p
  <2>2. h[s] = step[p][h[s \ {p}]]
    <3>1. h[s \ {p}] \in V
      BY <1>1
    <3> QED
      BY <1>3, <3>1 DEF Follows, p
  <2>3. ASSUME NEW b \in s, b # p PROVE h[s] = step[b][h[s \ {b}]]
    <3> DEFINE both == s \ {b, p}
    <3>1. (s \ {p}) \ {b} = both /\ (s \ {b}) \ {p} = both /\ h[both] \in V
      BY <1>1
    <3> HIDE DEF both
    <3>2. b \in s \ {p} /\ p \in s \ {b} /\ s \ {p} \in A /\ s \ {b} \in A /\ b \in S
      BY <1>3, <2>1, <2>3
    <3>3. h[s \ {p}] = step[b][h[both]]
      BY <3>1, <3>2
    <3>4. h[s \ {b}] = step[p][h[both]]
      BY <3>1, <3>2
    <3>5. step[p][step[b][h[both]]] = step[b][step[p][h[both]]]
      BY <2>1, <3>1, <3>2 DEF Commute
    <3> QED
      BY <2>2, <3>3, <3>4, <3>5
  <2> QED
    BY <2>2, <2>3
<1>4. \A s \in SUBSET S : s \in A
  <2> HIDE DEF A
  <2>1. Hereditary(A, S)
    BY <1>3 DEF Hereditary
  <2> QED
    BY <1>2, <2>1, FiniteInduction
<1>5. h[{}] = base
  BY DEF Follows
<1> QED
  BY <1>1, <1>4, <1>5 DEF IsFree

(* There is one, ...                                                       *)
LEMMA FreeExists ==
  ASSUME NEW S, IsFiniteSet(S), NEW V, NEW base \in V, NEW step \in [S -> [V -> V]],
         Commute(step, S, V)
  PROVE  \E h : IsFree(h, S, V, base, step)
<1> DEFINE pick == [s \in SUBSET S |-> CHOOSE x \in s : TRUE]
<1>1. Picks(pick, S)
  BY DEF Picks
<1> HIDE DEF pick
<1>2. PICK g \in [SUBSET S -> V] : Folds(g, SUBSET S, pick, base, step)
  BY <1>1, FoldExists
<1>3. Follows(g, S, pick, V, base, step)
  BY <1>2 DEF Folds, Follows
<1> QED
  BY <1>1, <1>3, FollowsFree

(* ... and it depends on the steps of the members only.                    *)
LEMMA FreeAgree ==
  ASSUME NEW S, NEW R \in SUBSET S, IsFiniteSet(R), NEW V, NEW base, NEW step, NEW other,
         NEW h, IsFree(h, S, V, base, step), NEW g, IsFree(g, R, V, base, other),
         \A i \in R : \A v \in V : step[i][v] = other[i][v]
  PROVE  h[R] = g[R]
<1> DEFINE A == {s \in SUBSET R : h[s] = g[s]}
<1>1. {} \in A
  BY DEF IsFree
<1>2. ASSUME NEW s \in SUBSET R, s # {}, \A b \in s : s \ {b} \in A PROVE s \in A
  <2>1. PICK b \in s : TRUE
    BY <1>2
  <2>2. h[s \ {b}] = g[s \ {b}] /\ s \ {b} \in SUBSET R
    BY <1>2
  <2>3. g[s \ {b}] \in V /\ g[s] = other[b][g[s \ {b}]]
    BY <2>2 DEF IsFree
  <2>4. h[s] = step[b][h[s \ {b}]]
    BY DEF IsFree
  <2> QED
    BY <2>2, <2>3, <2>4
<1>3. \A s \in SUBSET R : s \in A
  <2> HIDE DEF A
  <2>1. Hereditary(A, R)
    BY <1>2 DEF Hereditary
  <2> QED
    BY <1>1, <2>1, FiniteInduction
<1> QED
  BY <1>3

-----------------------------------------------------------------------------
(* Sums.                                                                   *)

Adds(S, f) == [i \in S |-> [a \in Int |-> f[i] + a]]

IsSum(h, S, f) == IsFree(h, S, Int, 0, Adds(S, f))

(* The sum of the numbers f has on a set.                                  *)
SumOver(S, f) == (CHOOSE h : IsSum(h, S, f))[S]

Numbers(S, f) == IsFiniteSet(S) /\ \A i \in S : f[i] \in Int

(* Adding numbers commutes.                                                *)
LEMMA AddsCommute ==
  ASSUME NEW S, NEW f, Numbers(S, f)
  PROVE  /\ IsFiniteSet(S) /\ 0 \in Int /\ Adds(S, f) \in [S -> [Int -> Int]]
         /\ Commute(Adds(S, f), S, Int)
<1> DEFINE step == Adds(S, f)
<1>1. step \in [S -> [Int -> Int]] /\ IsFiniteSet(S)
  BY DEF Adds, Numbers
<1>2. Commute(step, S, Int)
  <2>1. ASSUME NEW i \in S, NEW j \in S, NEW v \in Int
        PROVE  step[i][step[j][v]] = step[j][step[i][v]]
    <3>1. f[i] \in Int /\ f[j] \in Int
      BY DEF Numbers
    <3>2. step[j][v] = f[j] + v /\ step[i][v] = f[i] + v
      BY DEF Adds
    <3>3. step[i][f[j] + v] = f[i] + (f[j] + v) /\ step[j][f[i] + v] = f[j] + (f[i] + v)
      BY <3>1 DEF Adds
    <3> HIDE DEF step
    <3> QED
      BY <3>1, <3>2, <3>3
  <2> QED
    BY <2>1 DEF Commute
<1> QED
  BY <1>1, <1>2

(* So sums over finite sets of numbers exist.                              *)
LEMMA SumExists ==
  ASSUME NEW S, NEW f, Numbers(S, f)
  PROVE  \E h : IsSum(h, S, f)
<1> DEFINE step == Adds(S, f)
           base == 0
<1>1. IsFiniteSet(S) /\ base \in Int /\ step \in [S -> [Int -> Int]] /\ Commute(step, S, Int)
  BY AddsCommute
<1> HIDE DEF step, base
<1>2. \E h : IsFree(h, S, Int, base, step)
  BY <1>1, FreeExists
<1> QED
  BY <1>2 DEF IsSum, step, base

(* So is a fold that adds them in any order.                               *)
LEMMA FollowsIsSum ==
  ASSUME NEW S, NEW f, Numbers(S, f), NEW pick, Picks(pick, S),
         NEW h, Follows(h, S, pick, Int, 0, Adds(S, f))
  PROVE  IsSum(h, S, f)
<1> DEFINE step == Adds(S, f)
           base == 0
<1>1. /\ IsFiniteSet(S) /\ base \in Int /\ step \in [S -> [Int -> Int]] /\ Commute(step, S, Int)
      /\ Follows(h, S, pick, Int, base, step)
  BY AddsCommute
<1> HIDE DEF step, base
<1>2. IsFree(h, S, Int, base, step)
  BY <1>1, FollowsFree
<1> QED
  BY <1>2 DEF IsSum, step, base

(* A sum over a subset is what any fold that adds the same numbers finds.  *)
LEMMA SumIs ==
  ASSUME NEW S, NEW f, NEW h, IsSum(h, S, f), NEW R \in SUBSET S, NEW g, Numbers(R, g),
         \A i \in R : f[i] = g[i]
  PROVE  h[R] = SumOver(R, g)
<1> DEFINE k == CHOOSE k : IsSum(k, R, g)
           base == 0
           step == Adds(S, f)
           other == Adds(R, g)
<1>1. IsSum(k, R, g)
  <2>1. \E x : IsSum(x, R, g)
    BY SumExists
  <2> QED
    BY <2>1, Zenon
<1>2. SumOver(R, g) = k[R]
  BY DEF SumOver
<1> HIDE DEF k
<1>3. IsFree(h, S, Int, base, step) /\ IsFree(k, R, Int, base, other)
  BY <1>1 DEF IsSum
<1>4. \A i \in R : \A v \in Int : step[i][v] = other[i][v]
  BY DEF Adds
<1>5. IsFiniteSet(R)
  BY DEF Numbers
<1> HIDE DEF base, step, other
<1> QED
  BY <1>2, <1>3, <1>4, <1>5, FreeAgree

(* Any element can be taken out of a sum.                                  *)
LEMMA SumStep ==
  ASSUME NEW S, NEW f, Numbers(S, f)
  PROVE  /\ SumOver(S, f) \in Int /\ (S = {} => SumOver(S, f) = 0)
         /\ \A R \in SUBSET S : Numbers(R, f) /\ SumOver(R, f) \in Int
         /\ \A b \in S : SumOver(S, f) = f[b] + SumOver(S \ {b}, f)
<1>1. PICK h : IsSum(h, S, f)
  BY SumExists
<1>2. \A R \in SUBSET S : Numbers(R, f)
  BY FS_Subset DEF Numbers
<1>3. \A R \in SUBSET S : h[R] = SumOver(R, f)
  BY <1>1, <1>2, SumIs
<1>4. /\ h[{}] = 0 /\ \A s \in SUBSET S : h[s] \in Int
      /\ \A s \in SUBSET S : \A b \in s : h[s] = Adds(S, f)[b][h[s \ {b}]]
  BY <1>1 DEF IsSum, IsFree
<1>5. ASSUME NEW b \in S PROVE SumOver(S, f) = f[b] + SumOver(S \ {b}, f)
  <2>1. S \in SUBSET S /\ S \ {b} \in SUBSET S
    OBVIOUS
  <2>2. h[S] = Adds(S, f)[b][h[S \ {b}]] /\ h[S \ {b}] \in Int
    BY <1>4, <2>1
  <2>3. Adds(S, f)[b][h[S \ {b}]] = f[b] + h[S \ {b}]
    BY <2>2 DEF Adds
  <2> QED
    BY <1>3, <2>1, <2>2, <2>3
<1>6. \A R \in SUBSET S : SumOver(R, f) \in Int
  BY <1>3, <1>4
<1>7. S = {} => SumOver(S, f) = 0
  BY <1>3, <1>4
<1> QED
  BY <1>2, <1>5, <1>6, <1>7

(* Equal terms have equal sums.                                            *)
LEMMA SumAgree ==
  ASSUME NEW S, NEW f, NEW g, Numbers(S, f), \A i \in S : f[i] = g[i]
  PROVE  SumOver(S, f) = SumOver(S, g)
<1>1. PICK h : IsSum(h, S, f)
  BY SumExists
<1>2. Numbers(S, g)
  BY DEF Numbers
<1>3. h[S] = SumOver(S, f) /\ h[S] = SumOver(S, g)
  BY <1>1, <1>2, SumIs
<1> QED
  BY <1>3

(* Sums are linear.                                                        *)
Mix(p, b, q, c) == p * b + q * c
Combines(f, S, p, u, q, v) == \A i \in S : f[i] = Mix(p, u[i], q, v[i])

(* A sum of combinations is the combination of the sums.                   *)
LEMMA SumLinear ==
  ASSUME NEW S, NEW u, NEW v, NEW f, Numbers(S, u), Numbers(S, v), NEW p \in Int, NEW q \in Int,
         Combines(f, S, p, u, q, v)
  PROVE  Numbers(S, f) /\ SumOver(S, f) = Mix(p, SumOver(S, u), q, SumOver(S, v))
<1> USE DEF Combines, Mix
<1> DEFINE A == {s \in SUBSET S : SumOver(s, f) = p * SumOver(s, u) + q * SumOver(s, v)}
<1>1. Numbers(S, f)
  BY DEF Numbers
<1>2. \A s \in SUBSET S : Numbers(s, f) /\ Numbers(s, u) /\ Numbers(s, v)
  BY <1>1, SumStep
<1>3. {} \in A
  <2>1. Numbers({}, f) /\ Numbers({}, u) /\ Numbers({}, v)
    BY <1>2
  <2>2. SumOver({}, f) = 0 /\ SumOver({}, u) = 0 /\ SumOver({}, v) = 0
    BY <2>1, SumStep
  <2> QED
    BY <2>2
<1>4. ASSUME NEW s \in SUBSET S, s # {}, \A b \in s : s \ {b} \in A PROVE s \in A
  <2>1. PICK b \in s : TRUE
    BY <1>4
  <2> DEFINE r == s \ {b}
  <2>2. SumOver(r, f) = p * SumOver(r, u) + q * SumOver(r, v)
    BY <1>4
  <2>3. /\ SumOver(s, f) = f[b] + SumOver(r, f)
        /\ SumOver(s, u) = u[b] + SumOver(r, u)
        /\ SumOver(s, v) = v[b] + SumOver(r, v)
    BY <1>2, SumStep
  <2>4. SumOver(r, u) \in Int /\ SumOver(r, v) \in Int /\ u[b] \in Int /\ v[b] \in Int
    <3>1. Numbers(s, u) /\ Numbers(s, v) /\ r \in SUBSET s
      BY <1>2
    <3> HIDE DEF r
    <3>2. SumOver(r, u) \in Int /\ SumOver(r, v) \in Int
      BY <3>1, SumStep
    <3> QED
      BY <3>1, <3>2 DEF Numbers
  <2>5. f[b] = p * u[b] + q * v[b]
    OBVIOUS
  <2> HIDE DEF r
  <2>6. SumOver(s, f) = p * SumOver(s, u) + q * SumOver(s, v)
    <3> DEFINE x == SumOver(r, u)
               y == SumOver(r, v)
               c == u[b]
               d == v[b]
    <3>1. x \in Int /\ y \in Int /\ c \in Int /\ d \in Int
      BY <2>4
    <3>2. SumOver(s, f) = (p * c + q * d) + (p * x + q * y)
      BY <2>2, <2>3, <2>5
    <3>3. SumOver(s, u) = c + x /\ SumOver(s, v) = d + y
      BY <2>3
    <3> HIDE DEF x, y, c, d
    <3>4. (p * c + q * d) + (p * x + q * y) = p * (c + x) + q * (d + y)
      BY <3>1
    <3> QED
      BY <3>2, <3>3, <3>4
  <2> QED
    BY <2>6
<1>5. \A s \in SUBSET S : s \in A
  <2> HIDE DEF A
  <2>1. Hereditary(A, S) /\ IsFiniteSet(S)
    BY <1>4 DEF Hereditary, Numbers
  <2> QED
    BY <1>3, <2>1, FiniteInduction
<1> QED
  BY <1>1, <1>5

Scales(f, S, k, u) == \A i \in S : f[i] = k * u[i]

(* A factor of all terms is a factor of the sum.                           *)
LEMMA SumScaled ==
  ASSUME NEW S, NEW u, NEW f, Numbers(S, u), NEW k \in Int, Scales(f, S, k, u)
  PROVE  SumOver(S, f) = k * SumOver(S, u)
<1> DEFINE none == 0
<1>1. none \in Int /\ \A a \in Int : none * a = 0 /\ k * a \in Int
  OBVIOUS
<1>2. \A a \in Int : Mix(k, a, none, a) = k * a
  <2>1. \A a \in Int : k * a + 0 = k * a
    OBVIOUS
  <2> HIDE DEF none
  <2> QED
    BY <1>1, <2>1 DEF Mix
<1> HIDE DEF none
<1>3. Combines(f, S, k, u, none, u)
  BY <1>2 DEF Combines, Numbers, Scales
<1>4. Numbers(S, f) /\ SumOver(S, f) = Mix(k, SumOver(S, u), none, SumOver(S, u))
  <2>1. none \in Int
    BY <1>1
  <2> QED
    BY <1>3, <2>1, SumLinear
<1>5. SumOver(S, u) \in Int
  BY SumStep
<1> QED
  BY <1>2, <1>4, <1>5

-----------------------------------------------------------------------------
(* Numbers that are the same scalar.                                       *)

Same(a, b) == a \in Int /\ b \in Int /\ mod_n(a) = mod_n(b)

(* A number and its residue are the same scalar.                           *)
LEMMA SameMod == \A a \in Int : Same(mod_n(a), a) /\ Same(a, mod_n(a)) /\ Same(a, a)
<1> SUFFICES ASSUME NEW a \in Int PROVE Same(mod_n(a), a) /\ Same(a, mod_n(a)) /\ Same(a, a)
  OBVIOUS
<1>1. mod_n(a) \in Int
  BY ModIsScalar, OrderAssumption DEF Scalar
<1>2. mod_n(0 + mod_n(a)) = mod_n(0 + a)
  BY ModOfSum
<1>3. 0 + mod_n(a) = mod_n(a) /\ 0 + a = a
  BY <1>1
<1> QED
  BY <1>1, <1>2, <1>3 DEF Same

(* Being the same scalar is an equivalence.                                *)
LEMMA SameChain ==
  /\ \A a, b : Same(a, b) => Same(b, a)
  /\ \A a, b, c : Same(a, b) /\ Same(b, c) => Same(a, c)
BY DEF Same

(* Sums of the same scalars are the same.                                  *)
LEMMA SameSum ==
  ASSUME NEW a, NEW b, NEW c, NEW d, Same(a, b), Same(c, d)
  PROVE  Same(a + c, b + d)
<1>1. /\ a \in Int /\ b \in Int /\ c \in Int /\ d \in Int
      /\ mod_n(a) \in Int /\ mod_n(a) = mod_n(b) /\ mod_n(c) \in Int /\ mod_n(c) = mod_n(d)
  BY ModIsScalar, OrderAssumption DEF Same, Scalar
<1>2. mod_n(a + mod_n(c)) = mod_n(a + c) /\ mod_n(a + mod_n(d)) = mod_n(a + d)
  BY <1>1, ModOfSum
<1>3. mod_n(d + mod_n(a)) = mod_n(d + a) /\ mod_n(d + mod_n(b)) = mod_n(d + b)
  BY <1>1, ModOfSum
<1>4. d + a = a + d /\ d + b = b + d
  BY <1>1
<1>5. a + c \in Int /\ b + d \in Int
  BY <1>1
<1> QED
  BY <1>1, <1>2, <1>3, <1>4, <1>5 DEF Same

(* So are products.                                                        *)
LEMMA SameProduct ==
  ASSUME NEW a, NEW b, NEW c, NEW d, Same(a, b), Same(c, d)
  PROVE  Same(a * c, b * d)
<1>1. /\ a \in Int /\ b \in Int /\ c \in Int /\ d \in Int
      /\ mod_n(a) \in Int /\ mod_n(a) = mod_n(b) /\ mod_n(c) \in Int /\ mod_n(c) = mod_n(d)
  BY ModIsScalar, OrderAssumption DEF Same, Scalar
<1>2. mod_n(a * mod_n(c)) = mod_n(a * c) /\ mod_n(a * mod_n(d)) = mod_n(a * d)
  BY <1>1, ModOfProduct
<1>3. mod_n(d * mod_n(a)) = mod_n(d * a) /\ mod_n(d * mod_n(b)) = mod_n(d * b)
  BY <1>1, ModOfProduct
<1>4. d * a = a * d /\ d * b = b * d
  BY <1>1
<1>5. a * c \in Int /\ b * d \in Int
  BY <1>1
<1> QED
  BY <1>1, <1>2, <1>3, <1>4, <1>5 DEF Same

(* What is not a multiple of Q can be divided out.                         *)
LEMMA SameQuotient ==
  ASSUME NEW a \in Int, NEW b \in Int, NEW d \in Int, mod_n(d) # 0, Same(a * d, b * d)
  PROVE  Same(a, b)
<1> DEFINE e == mod_n(d)
           i == scalar_invert(e)
<1>1. e \in Scalar \ {0}
  BY ModIsScalar
<1>2. i \in Int /\ mod_n(e * i) = 1
  BY <1>1, InverseExists, OrderAssumption DEF Scalar
<1>3. Same(d * i, e * i)
  BY <1>2, SameMod, SameProduct
<1>4. Same(e * i, 1)
  <2>1. mod_n(1) = 1
    BY OrderAssumption DEF mod_n
  <2>2. e * i \in Int
    BY <1>3 DEF Same
  <2> HIDE DEF e, i
  <2> QED
    BY <1>2, <2>1, <2>2 DEF Same
<1> HIDE DEF e, i
<1>5. Same(d * i, 1)
  BY <1>3, <1>4, SameChain
<1>6. Same((a * d) * i, (b * d) * i)
  BY <1>2, SameMod, SameProduct
<1>7. Same(a * (d * i), a * 1) /\ Same(b * (d * i), b * 1)
  BY <1>5, SameMod, SameProduct
<1>8. (a * d) * i = a * (d * i) /\ (b * d) * i = b * (d * i) /\ a * 1 = a /\ b * 1 = b
  BY <1>2
<1> QED
  BY <1>6, <1>7, <1>8, SameChain

(* A scalar is the only one that is the same as a number.                  *)
LEMMA SameScalar == \A a, b \in Scalar : Same(a, b) => a = b
<1> SUFFICES ASSUME NEW a \in Scalar, NEW b \in Scalar, Same(a, b) PROVE a = b
  OBVIOUS
<1>1. \A c \in Scalar : mod_n(c) = c
  <2> SUFFICES ASSUME NEW c \in Scalar PROVE mod_n(c) = c
    OBVIOUS
  <2>1. c \in Int
    BY OrderAssumption DEF Scalar
  <2>2. mod_n(c) \in Scalar /\ \E k \in Int : c = mod_n(c) + Q * k
    BY <2>1, ModIsScalar
  <2> QED
    BY <2>2, ModUnique
<1> QED
  BY <1>1 DEF Same

(* A sum of the same scalars is the same scalar.                           *)
LEMMA SumSame ==
  ASSUME NEW S, NEW u, NEW v, IsFiniteSet(S), \A i \in S : Same(u[i], v[i])
  PROVE  Numbers(S, u) /\ Numbers(S, v) /\ Same(SumOver(S, u), SumOver(S, v))
<1> DEFINE A == {s \in SUBSET S : Same(SumOver(s, u), SumOver(s, v))}
<1>1. Numbers(S, u) /\ Numbers(S, v)
  BY DEF Numbers, Same
<1>2. \A s \in SUBSET S : Numbers(s, u) /\ Numbers(s, v)
  BY <1>1, SumStep
<1>3. {} \in A
  <2>1. Numbers({}, u) /\ Numbers({}, v)
    BY <1>2
  <2>2. SumOver({}, u) = 0 /\ SumOver({}, v) = 0
    BY <2>1, SumStep
  <2> QED
    BY <2>2, SameMod
<1>4. ASSUME NEW s \in SUBSET S, s # {}, \A b \in s : s \ {b} \in A PROVE s \in A
  <2>1. PICK b \in s : TRUE
    BY <1>4
  <2>2. Same(SumOver(s \ {b}, u), SumOver(s \ {b}, v)) /\ Same(u[b], v[b])
    BY <1>4
  <2>3. SumOver(s, u) = u[b] + SumOver(s \ {b}, u) /\ SumOver(s, v) = v[b] + SumOver(s \ {b}, v)
    BY <1>2, SumStep
  <2>4. Same(SumOver(s, u), SumOver(s, v))
    BY <2>2, <2>3, SameSum
  <2> QED
    BY <2>4
<1>5. \A s \in SUBSET S : s \in A
  <2> HIDE DEF A
  <2>1. Hereditary(A, S)
    BY <1>4 DEF Hereditary
  <2> QED
    BY <1>3, <2>1, FiniteInduction
<1> QED
  BY <1>1, <1>5

-----------------------------------------------------------------------------
(* Products.                                                               *)

Factors(S, f) == [j \in S |-> f[j]]

(* A product may take its factors in any order.                            *)
LEMMA ProductFree ==
  ASSUME NEW S, IsFiniteSet(S), NEW f \in [S -> Int]
  PROVE  \E h : IsFree(h, S, Scalar, 1, Times(S, Scalar, f)) /\ ProductOf(f) = h[S]
<1> DEFINE base == 1
           step == Times(S, Scalar, f)
<1>1. 1 \in Scalar /\ Scalar \subseteq Int
  BY OrderAssumption DEF Scalar
<1>2. \A i \in S, a \in Scalar : mod_n(a * f[i]) \in Scalar
  BY <1>1, ModIsScalar
<1>3. PICK h, pick : IsProduct(h, pick, S, Scalar, f)
  BY <1>1, <1>2, ProductFold
<1>4. base \in Scalar /\ step \in [S -> [Scalar -> Scalar]]
  BY <1>1, <1>2 DEF Times
<1>5. Picks(pick, S) /\ Follows(h, S, pick, Scalar, base, step) /\ ProductOf(f) = h[S]
  BY <1>3 DEF IsProduct
<1>6. Commute(step, S, Scalar)
  <2>1. ASSUME NEW i \in S, NEW j \in S, NEW v \in Scalar
        PROVE  step[i][step[j][v]] = step[j][step[i][v]]
    <3> DEFINE x == f[i]
               y == f[j]
    <3>1. x \in Int /\ y \in Int /\ v \in Int /\ v * x \in Int /\ v * y \in Int
      BY <1>1
    <3>2. mod_n(v * x) \in Scalar /\ mod_n(v * y) \in Scalar
      BY <3>1, ModIsScalar
    <3>3. step[i][step[j][v]] = mod_n(mod_n(v * y) * x) /\ step[j][step[i][v]] = mod_n(mod_n(v * x) * y)
      BY <3>2 DEF Times
    <3> HIDE DEF x, y, step
    <3>4. Same(mod_n(v * y) * x, (v * y) * x) /\ Same(mod_n(v * x) * y, (v * x) * y)
      BY <3>1, SameMod, SameProduct
    <3>5. (v * y) * x = (v * x) * y
      BY <3>1
    <3> QED
      BY <3>3, <3>4, <3>5 DEF Same
  <2> QED
    BY <2>1 DEF Commute
<1> HIDE DEF base, step
<1>7. IsFree(h, S, Scalar, base, step)
  BY <1>4, <1>5, <1>6, FollowsFree
<1> QED
  BY <1>5, <1>7 DEF base, step

(* A factor can be taken out of a product, and the product of none is 1.   *)
LEMMA ProductStep ==
  ASSUME NEW S, IsFiniteSet(S), NEW f \in [S -> Int]
  PROVE  /\ S = {} => ProductOf(f) = 1
         /\ \A b \in S : Same(ProductOf(f), f[b] * ProductOf(Factors(S \ {b}, f)))
<1>1. PICK h : IsFree(h, S, Scalar, 1, Times(S, Scalar, f)) /\ ProductOf(f) = h[S]
  BY ProductFree
<1>2. S = {} => ProductOf(f) = 1
  BY <1>1 DEF IsFree
<1>3. ASSUME NEW b \in S PROVE Same(ProductOf(f), f[b] * ProductOf(Factors(S \ {b}, f)))
  <2> DEFINE R == S \ {b}
             k == Factors(R, f)
             base == 1
             step == Times(S, Scalar, f)
             other == Times(R, Scalar, k)
  <2>1. R \in SUBSET S /\ IsFiniteSet(R) /\ k \in [R -> Int]
    BY FS_Subset DEF Factors
  <2>2. \A i \in R : \A v \in Scalar : step[i][v] = other[i][v]
    BY DEF Times, Factors
  <2>3. h[S] = mod_n(h[R] * f[b]) /\ h[R] \in Scalar
    <3>1. h[S] = step[b][h[R]] /\ h[R] \in Scalar
      BY <1>1 DEF IsFree
    <3> QED
      BY <3>1 DEF Times
  <2> HIDE DEF R, k
  <2>4. PICK g : IsFree(g, R, Scalar, 1, Times(R, Scalar, k)) /\ ProductOf(k) = g[R]
    BY <2>1, ProductFree
  <2>5. IsFree(h, S, Scalar, base, step) /\ IsFree(g, R, Scalar, base, other)
    BY <1>1, <2>4
  <2> HIDE DEF base, step, other
  <2>6. h[R] = g[R]
    BY <2>1, <2>2, <2>5, FreeAgree
  <2>7. ProductOf(f) = mod_n(ProductOf(k) * f[b]) /\ ProductOf(k) \in Scalar
    BY <1>1, <2>3, <2>4, <2>6
  <2>8. ProductOf(k) \in Int /\ f[b] \in Int
    BY <2>7, OrderAssumption DEF Scalar
  <2>9. ProductOf(k) * f[b] \in Int /\ ProductOf(k) * f[b] = f[b] * ProductOf(k)
    BY <2>8
  <2>10. Same(ProductOf(f), f[b] * ProductOf(k))
    BY <2>7, <2>9, SameMod
  <2> QED
    BY <2>10 DEF k, R
<1> QED
  BY <1>2, <1>3

-----------------------------------------------------------------------------
(* Lagrange coefficients.                                                  *)

Index == 1..(Q - 1)

Num(S, i, x) == ProductOf([j \in S \ {i} |-> x - j])
Den(S, i) == ProductOf([j \in S \ {i} |-> i - j])

(* The weight of each index, as the helpers of a recovery and the members  *)
(* in an ECDH compute it (calc_lagrange_coeff).                            *)
Weight(S, x) == [i \in S |-> calc_lagrange_coeff(S \ {i}, i, x)]

(* Indices and scalars are numbers.                                        *)
LEMMA IndexNumbers == Index \subseteq Int /\ Scalar \subseteq Int /\ Q \in Int /\ 0 \in Scalar /\ 1 \in Scalar
BY OrderAssumption DEF Index, Scalar

(* Below the fraction line of a Lagrange coefficient there is no zero      *)
(* (interpolate_x).                                                        *)
LEMMA FractionTyped ==
  ASSUME NEW S \in SUBSET Index, IsFiniteSet(S), NEW i \in S, NEW x \in Int
  PROVE  Num(S, i, x) \in Int /\ Den(S, i) \in Scalar \ {0} /\ Den(S, i) \in Int /\ mod_n(Den(S, i)) # 0
<1> DEFINE R == S \ {i}
           num == [j \in R |-> x - j]
           den == [j \in R |-> i - j]
<1>1. IsFiniteSet(R)
  BY FS_Subset
<1>2. num \in [R -> Int] /\ den \in [R -> Int]
  BY IndexNumbers
<1>3. ASSUME NEW j \in R PROVE mod_n(den[j]) # 0
  <2>1. i \in 1..(Q - 1) /\ j \in 1..(Q - 1) /\ i # j
    BY DEF Index
  <2> QED
    BY <2>1, IndicesDiffer
<1>4. Num(S, i, x) = ProductOf(num) /\ Den(S, i) = ProductOf(den)
  BY DEF Num, Den
<1> HIDE DEF R, num, den
<1>5. ProductOf(num) \in Scalar /\ ProductOf(den) \in Scalar \ {0}
  BY <1>1, <1>2, <1>3, ProductIsScalar, ProductIsNotZero
<1>6. \A d \in Scalar \ {0} : d \in Int /\ mod_n(d) # 0
  <2> SUFFICES ASSUME NEW d \in Scalar \ {0} PROVE d \in Int /\ mod_n(d) # 0
    OBVIOUS
  <2>1. d \in Int /\ mod_n(d) \in Scalar
    BY IndexNumbers, ModIsScalar
  <2>2. Same(mod_n(d), d)
    BY <2>1, SameMod
  <2> QED
    BY <2>1, <2>2, SameScalar
<1> QED
  BY <1>4, <1>5, <1>6, IndexNumbers

(* The weight is the fraction.                                             *)
LEMMA WeightIs ==
  ASSUME NEW S \in SUBSET Index, IsFiniteSet(S), NEW x \in Int, NEW i \in S
  PROVE  Weight(S, x)[i] \in Scalar /\ Weight(S, x)[i] \in Int
         /\ Same(Weight(S, x)[i] * Den(S, i), Num(S, i, x))
<1> DEFINE n == Num(S, i, x)
           d == Den(S, i)
           e == scalar_invert(d)
           w == Weight(S, x)[i]
<1>1. w = mod_n(n * e)
  <2>1. (S \ {i}) \ {i} = S \ {i}
    OBVIOUS
  <2> QED
    BY <2>1 DEF Weight, calc_lagrange_coeff, Num, Den
<1>2. n \in Int /\ d \in Int /\ d \in Scalar \ {0}
  BY FractionTyped
<1>3. e \in Int /\ mod_n(d * e) = 1
  BY <1>2, InverseExists, IndexNumbers
<1> HIDE DEF n, d, e, w
<1>4. n * e \in Int /\ d * e \in Int /\ e * d = d * e
  BY <1>2, <1>3
<1>5. w \in Scalar /\ w \in Int /\ Same(w, n * e)
  BY <1>1, <1>4, ModIsScalar, SameMod, IndexNumbers
<1>6. Same(w * d, (n * e) * d)
  BY <1>2, <1>5, SameMod, SameProduct
<1>7. Same(d * e, 1)
  <2>1. Same(mod_n(d * e), d * e)
    BY <1>4, SameMod
  <2> QED
    BY <1>3, <2>1, SameChain
<1>8. Same(n * (d * e), n * 1)
  BY <1>2, <1>7, SameMod, SameProduct
<1>9. (n * e) * d = n * (d * e) /\ n * 1 = n
  BY <1>2, <1>3
<1>10. Same(w * d, n)
  BY <1>6, <1>8, <1>9, SameChain
<1> QED
  BY <1>5, <1>10 DEF n, d, w

(* Without one of the indices, the other weights lose a factor.            *)
LEMMA WeightStep ==
  ASSUME NEW S \in SUBSET Index, IsFiniteSet(S), NEW x \in Int, NEW b \in S, NEW i \in S \ {b}
  PROVE  Same(Weight(S, x)[i] * (i - b), Weight(S \ {b}, x)[i] * (x - b))
<1> DEFINE R == S \ {b}
           n == Num(R, i, x)
           d == Den(R, i)
           w == Weight(S, x)[i]
           v == Weight(R, x)[i]
           p == i - b
           q == x - b
<1>1. p \in Int /\ q \in Int
  BY IndexNumbers
<1>2. R \in SUBSET Index /\ IsFiniteSet(R) /\ i \in R
  BY FS_Subset
<1>3. Same(Num(S, i, x), q * n) /\ Same(Den(S, i), p * d)
  <2> DEFINE U == S \ {i}
             num == [j \in U |-> x - j]
             den == [j \in U |-> i - j]
  <2>1. IsFiniteSet(U) /\ num \in [U -> Int] /\ den \in [U -> Int] /\ b \in U
    BY FS_Subset, IndexNumbers
  <2>2. num[b] = q /\ den[b] = p
    BY <2>1
  <2>3. U \ {b} = R \ {i}
    OBVIOUS
  <2>4. Factors(U \ {b}, num) = [j \in R \ {i} |-> x - j] /\ Factors(U \ {b}, den) = [j \in R \ {i} |-> i - j]
    <3>1. Factors(U \ {b}, num) = [j \in U \ {b} |-> x - j]
          /\ Factors(U \ {b}, den) = [j \in U \ {b} |-> i - j]
      BY DEF Factors
    <3> HIDE DEF U, R
    <3> QED
      BY <2>3, <3>1
  <2>5. Num(S, i, x) = ProductOf(num) /\ Den(S, i) = ProductOf(den)
    BY DEF Num, Den
  <2>6. n = ProductOf(Factors(U \ {b}, num)) /\ d = ProductOf(Factors(U \ {b}, den))
    BY <2>4 DEF Num, Den
  <2> HIDE DEF U, num, den, n, d, p, q
  <2>7. Same(ProductOf(num), num[b] * ProductOf(Factors(U \ {b}, num)))
        /\ Same(ProductOf(den), den[b] * ProductOf(Factors(U \ {b}, den)))
    BY <2>1, ProductStep
  <2> QED
    BY <2>2, <2>5, <2>6, <2>7
<1>4. w \in Int /\ Same(w * Den(S, i), Num(S, i, x))
  BY WeightIs
<1>5. v \in Int /\ Same(v * d, n) /\ d \in Int /\ mod_n(d) # 0 /\ n \in Int
  <2> HIDE DEF R
  <2> QED
    BY <1>2, WeightIs, FractionTyped
<1> HIDE DEF R, n, d, w, v, p, q
<1>6. Same(w * (p * d), q * (v * d))
  <2>1. Same(w * (p * d), w * Den(S, i))
    BY <1>3, <1>4, SameMod, SameProduct, SameChain
  <2>2. Same(q * n, q * (v * d))
    <3>1. Same(q, q) /\ Same(n, v * d)
      BY <1>1, <1>5, SameMod, SameChain
    <3> QED
      BY <3>1, SameProduct
  <2> QED
    BY <1>3, <1>4, <2>1, <2>2, SameChain
<1>7. w * (p * d) = (w * p) * d /\ q * (v * d) = (v * q) * d /\ w * p \in Int /\ v * q \in Int
  BY <1>1, <1>4, <1>5
<1>8. Same(w * p, v * q)
  BY <1>5, <1>6, <1>7, SameQuotient
<1> QED
  BY <1>8 DEF w, p, v, q, R

-----------------------------------------------------------------------------
(* What weighed numbers add up to.                                         *)

Weighed(S, x, f) == [i \in S |-> Weight(S, x)[i] * f[i]]
Moment(S, x, f) == SumOver(S, Weighed(S, x, f))

IndexSet(S) == S \in SUBSET Index /\ IsFiniteSet(S)

(* Values times their Lagrange coefficients are numbers, and so is their   *)
(* sum.                                                                    *)
LEMMA MomentTyped ==
  ASSUME NEW S, IndexSet(S), NEW x \in Int, NEW f, Numbers(S, f)
  PROVE  /\ Numbers(S, Weighed(S, x, f)) /\ Moment(S, x, f) \in Int
         /\ \A i \in S : Weighed(S, x, f)[i] = Weight(S, x)[i] * f[i] /\ Weight(S, x)[i] \in Int
<1>1. \A i \in S : Weight(S, x)[i] \in Int
  BY WeightIs DEF IndexSet
<1>2. \A i \in S : Weighed(S, x, f)[i] = Weight(S, x)[i] * f[i]
  BY DEF Weighed
<1>3. \A i \in S : f[i] \in Int
  BY DEF Numbers
<1>4. \A i \in S : Weight(S, x)[i] * f[i] \in Int
  BY <1>1, <1>3
<1>5. Numbers(S, Weighed(S, x, f))
  BY <1>2, <1>4 DEF Numbers
<1>6. Moment(S, x, f) \in Int
  BY <1>5, SumStep DEF Moment
<1> QED
  BY <1>1, <1>2, <1>5, <1>6

SameMix(f, S, p, u, q, v) == \A i \in S : Same(f[i], Mix(p, u[i], q, v[i]))

(* Interpolation is linear in the values.                                  *)
LEMMA MomentLinear ==
  ASSUME NEW S, IndexSet(S), NEW x \in Int, NEW f, NEW g, NEW h, Numbers(S, f), Numbers(S, g),
         NEW p \in Int, NEW q \in Int, SameMix(h, S, p, f, q, g)
  PROVE  Numbers(S, h) /\ Same(Moment(S, x, h), Mix(p, Moment(S, x, f), q, Moment(S, x, g)))
<1> DEFINE u == Weighed(S, x, f)
           v == Weighed(S, x, g)
           w == Weighed(S, x, h)
           t == [i \in S |-> p * u[i] + q * v[i]]
<1>1. Numbers(S, h)
  BY DEF Numbers, Same, SameMix
<1>2. /\ Numbers(S, u) /\ Numbers(S, v) /\ Numbers(S, w)
      /\ \A i \in S : /\ u[i] = Weight(S, x)[i] * f[i] /\ v[i] = Weight(S, x)[i] * g[i]
                      /\ w[i] = Weight(S, x)[i] * h[i] /\ Weight(S, x)[i] \in Int
  BY <1>1, MomentTyped
<1>3. Moment(S, x, f) = SumOver(S, u) /\ Moment(S, x, g) = SumOver(S, v) /\ Moment(S, x, h) = SumOver(S, w)
  BY DEF Moment
<1> HIDE DEF u, v, w
<1>4. \A i \in S : t[i] = p * u[i] + q * v[i]
  OBVIOUS
<1> HIDE DEF t
<1>5. Numbers(S, t) /\ SumOver(S, t) = p * SumOver(S, u) + q * SumOver(S, v)
  <2>1. Combines(t, S, p, u, q, v)
    BY <1>4 DEF Combines, Mix
  <2>2. Numbers(S, t) /\ SumOver(S, t) = Mix(p, SumOver(S, u), q, SumOver(S, v))
    BY <1>2, <2>1, SumLinear
  <2> QED
    BY <2>2 DEF Mix
<1>6. ASSUME NEW i \in S PROVE Same(w[i], t[i])
  <2> DEFINE l == Weight(S, x)[i]
             a == f[i]
             b == g[i]
  <2>1. l \in Int /\ a \in Int /\ b \in Int
    BY <1>2 DEF Numbers
  <2>2. w[i] = l * h[i] /\ t[i] = p * (l * a) + q * (l * b) /\ Same(h[i], p * a + q * b)
    BY <1>2, <1>4 DEF SameMix, Mix
  <2> HIDE DEF l, a, b
  <2>3. Same(l * h[i], l * (p * a + q * b))
    BY <2>1, <2>2, SameMod, SameProduct
  <2>4. l * (p * a + q * b) = p * (l * a) + q * (l * b)
    BY <2>1
  <2> QED
    BY <2>2, <2>3, <2>4
<1>7. Same(SumOver(S, w), SumOver(S, t))
  <2>1. IsFiniteSet(S)
    BY DEF IndexSet
  <2> QED
    BY <1>6, <2>1, SumSame
<1> QED
  BY <1>1, <1>3, <1>5, <1>7 DEF Mix

(* A factor that is 0 at one index takes that index out.                   *)
Turned(g, S, b, f) == \A i \in S : g[i] = (i - b) * f[i]

(* When the values have a factor i - b, interpolating them is x - b times  *)
(* interpolating without the index b.                                      *)
LEMMA MomentStep ==
  ASSUME NEW S, IndexSet(S), NEW x \in Int, NEW b \in S, NEW f, NEW g, Numbers(S, f),
         Turned(g, S, b, f)
  PROVE  Numbers(S, g) /\ Same(Moment(S, x, g), (x - b) * Moment(S \ {b}, x, f))
<1> DEFINE R == S \ {b}
           q == x - b
           u == Weighed(S, x, g)
           v == Weighed(R, x, f)
           t == [i \in R |-> q * v[i]]
<1>0. \A i \in S : i \in Int
  BY IndexNumbers DEF IndexSet
<1>13. \A i \in S : g[i] = (i - b) * f[i]
  BY DEF Turned
<1>1. b \in Int /\ q \in Int /\ IndexSet(R) /\ IsFiniteSet(R)
  BY <1>0, FS_Subset DEF IndexSet
<1>2. Numbers(S, g)
  <2>1. \A i \in S : f[i] \in Int /\ i - b \in Int
    BY <1>0 DEF Numbers
  <2>2. \A i \in S : (i - b) * f[i] \in Int
    BY <2>1
  <2> QED
    BY <1>13, <2>2 DEF Numbers
<1>3. Numbers(R, f)
  BY SumStep
<1> HIDE DEF R
<1>4. /\ Numbers(S, u) /\ \A i \in S : u[i] = Weight(S, x)[i] * g[i] /\ Weight(S, x)[i] \in Int
      /\ Numbers(R, v) /\ \A i \in R : v[i] = Weight(R, x)[i] * f[i] /\ Weight(R, x)[i] \in Int
  BY <1>1, <1>2, <1>3, MomentTyped
<1>5. Moment(S, x, g) = SumOver(S, u) /\ Moment(R, x, f) = SumOver(R, v)
  BY DEF Moment
<1> HIDE DEF u, v
<1>6. SumOver(S, u) = u[b] + SumOver(R, u) /\ SumOver(R, u) \in Int
  BY <1>4, SumStep DEF R
<1>7. u[b] = 0
  <2>1. g[b] = 0 /\ Weight(S, x)[b] \in Int
    <3>1. g[b] = (b - b) * f[b] /\ f[b] \in Int
      BY <1>13 DEF Numbers
    <3> QED
      BY <1>1, <1>4, <3>1
  <2> QED
    BY <1>4, <2>1
<1>8. ASSUME NEW i \in R PROVE Same(u[i], t[i])
  <2> DEFINE a == f[i]
             c == i - b
             l == Weight(S, x)[i]
             m == Weight(R, x)[i]
  <2>1. i \in S /\ i \in S \ {b}
    BY DEF R
  <2>2. a \in Int /\ c \in Int /\ l \in Int /\ m \in Int /\ u[i] = l * (c * a) /\ t[i] = q * (m * a)
    BY <1>0, <1>1, <1>4, <1>13, <2>1 DEF Numbers
  <2>3. Same(l * c, m * q)
    BY <2>1, WeightStep DEF R, IndexSet
  <2> HIDE DEF a, c, l, m, q
  <2>4. Same((l * c) * a, (m * q) * a)
    BY <2>2, <2>3, SameMod, SameProduct
  <2>5. (l * c) * a = l * (c * a) /\ (m * q) * a = q * (m * a)
    BY <1>1, <2>2
  <2> HIDE DEF t
  <2> QED
    BY <2>2, <2>4, <2>5
<1>9. Same(SumOver(R, u), SumOver(R, t))
  BY <1>1, <1>8, SumSame
<1>10. SumOver(R, t) = q * SumOver(R, v) + 0 * SumOver(R, v)
  <2>1. ASSUME NEW i \in R PROVE t[i] = q * v[i] + 0 * v[i]
    <3>1. v[i] \in Int /\ t[i] = q * v[i]
      BY <1>4 DEF Numbers
    <3>2. q * v[i] \in Int
      BY <1>1, <3>1
    <3> HIDE DEF t
    <3> QED
      BY <3>1, <3>2
  <2> HIDE DEF t
  <2> DEFINE none == 0
  <2>2. none \in Int /\ Combines(t, R, q, v, none, v)
    BY <2>1 DEF Combines, Mix
  <2>3. q \in Int /\ Numbers(R, v)
    BY <1>1, <1>4
  <2> HIDE DEF none, q
  <2>4. SumOver(R, t) = Mix(q, SumOver(R, v), none, SumOver(R, v))
    BY <2>2, <2>3, SumLinear
  <2> QED
    BY <2>4 DEF none, Mix
<1>11. SumOver(R, v) \in Int /\ q * SumOver(R, v) \in Int
  <2>1. SumOver(R, v) \in Int
    BY <1>4, SumStep
  <2> QED
    BY <1>1, <2>1
<1> HIDE DEF t
<1>12. SumOver(S, u) = SumOver(R, u) /\ SumOver(R, t) = q * SumOver(R, v)
  BY <1>6, <1>7, <1>10, <1>11
<1> QED
  BY <1>2, <1>5, <1>9, <1>12 DEF R, q

(* The weights add up to 1.                                                *)
Ones == [i \in Index |-> 1]

(* Lagrange coefficients add up to one.                                    *)
LEMMA WeightsAddUp ==
  ASSUME NEW S, IndexSet(S), S # {}, NEW x \in Int
  PROVE  Numbers(S, Ones) /\ Same(Moment(S, x, Ones), 1)
<1> DEFINE A == {s \in SUBSET S : s # {} => Same(Moment(s, x, Ones), 1)}
<1>1. \A s \in SUBSET S : IndexSet(s) /\ Numbers(s, Ones)
  BY FS_Subset DEF IndexSet, Numbers, Ones
<1>2. {} \in A
  OBVIOUS
<1>3. ASSUME NEW s \in SUBSET S, s # {}, \A b \in s : s \ {b} \in A PROVE s \in A
  <2>1. PICK a \in s : TRUE
    BY <1>3
  <2>2. IndexSet(s) /\ Numbers(s, Ones) /\ a \in Index /\ a \in Int
    BY <1>1, IndexNumbers DEF IndexSet
  <2>3. CASE s \ {a} = {}
    <3>1. s = {a}
      BY <2>1, <2>3
    <3>2. Moment(s, x, Ones) = Weighed(s, x, Ones)[a]
      <4>1. Numbers(s, Weighed(s, x, Ones)) /\ Numbers({}, Weighed(s, x, Ones))
        BY <2>2, MomentTyped, SumStep
      <4>2. SumOver({}, Weighed(s, x, Ones)) = 0
        BY <4>1, SumStep
      <4>3. Moment(s, x, Ones) = Weighed(s, x, Ones)[a] + 0
        BY <2>1, <2>3, <4>1, <4>2, SumStep DEF Moment
      <4>4. Weighed(s, x, Ones)[a] \in Int
        BY <4>1 DEF Numbers
      <4> QED
        BY <4>3, <4>4
    <3>3. Weighed(s, x, Ones)[a] = Weight(s, x)[a] * 1 /\ Weight(s, x)[a] \in Int
      <4>1. Ones[a] = 1
        BY <2>2 DEF Ones
      <4> QED
        BY <2>2, <4>1, MomentTyped
    <3>4. Same(Weight(s, x)[a] * Den(s, a), Num(s, a, x))
      BY <2>2, WeightIs DEF IndexSet
    <3>5. Den(s, a) = 1 /\ Num(s, a, x) = 1
      <4> DEFINE num == [j \in s \ {a} |-> x - j]
                 den == [j \in s \ {a} |-> a - j]
      <4>1. num \in [{} -> Int] /\ den \in [{} -> Int] /\ IsFiniteSet({})
        BY <2>3, FS_EmptySet
      <4>2. Num(s, a, x) = ProductOf(num) /\ Den(s, a) = ProductOf(den)
        BY DEF Num, Den
      <4> HIDE DEF num, den
      <4> QED
        BY <4>1, <4>2, ProductStep
    <3>6. Same(Moment(s, x, Ones), 1)
      BY <3>2, <3>3, <3>4, <3>5
    <3> QED
      BY <3>6
  <2>4. CASE s \ {a} # {}
    <3>1. PICK b \in s \ {a} : TRUE
      BY <2>4
    <3> DEFINE f == [i \in s |-> i - a]
               g == [i \in s |-> i - b]
               m == Moment(s, x, Ones)
               d == b - a
    <3>2. b \in Index /\ b \in Int /\ \A i \in s : i \in Int /\ Ones[i] = 1
      BY <2>2, <3>1, IndexNumbers DEF IndexSet, Ones
    <3>3. Turned(f, s, a, Ones) /\ Turned(g, s, b, Ones)
      BY <2>2, <3>2 DEF Turned
    <3>4. d \in Int /\ mod_n(d) # 0
      <4>1. b \in 1..(Q - 1) /\ a \in 1..(Q - 1) /\ a # b
        BY <2>2, <3>1, <3>2 DEF Index
      <4> QED
        BY <4>1, IndicesDiffer
    <3>5. SameMix(f, s, 1, g, d, Ones)
      <4>1. ASSUME NEW i \in s PROVE Same(f[i], Mix(1, g[i], d, Ones[i]))
        <5>1. i \in Int /\ Ones[i] = 1 /\ i - a \in Int
          BY <2>2, <3>2
        <5>2. f[i] = i - a /\ Mix(1, g[i], d, Ones[i]) = i - a
          BY <2>2, <3>2, <5>1 DEF Mix
        <5> QED
          BY <5>1, <5>2, SameMod
      <4> QED
        BY <4>1 DEF SameMix
    <3> HIDE DEF f, g
    <3>6. Numbers(s, f) /\ Same(Moment(s, x, f), (x - a) * Moment(s \ {a}, x, Ones))
      BY <2>1, <2>2, <3>3, MomentStep
    <3>7. Numbers(s, g) /\ Same(Moment(s, x, g), (x - b) * Moment(s \ {b}, x, Ones))
      BY <2>2, <3>1, <3>3, MomentStep
    <3>8. Same(Moment(s \ {a}, x, Ones), 1) /\ Same(Moment(s \ {b}, x, Ones), 1)
      <4>1. a \in s \ {b} /\ b \in s \ {a}
        BY <2>1, <3>1
      <4> QED
        BY <1>3, <4>1
    <3>9. x - a \in Int /\ x - b \in Int /\ (x - a) * 1 = x - a /\ (x - b) * 1 = x - b
      BY <2>2, <3>2
    <3>10. Same(Moment(s, x, f), x - a) /\ Same(Moment(s, x, g), x - b)
      <4>1. Same((x - a) * Moment(s \ {a}, x, Ones), (x - a) * 1)
            /\ Same((x - b) * Moment(s \ {b}, x, Ones), (x - b) * 1)
        BY <3>8, <3>9, SameMod, SameProduct
      <4> QED
        BY <3>6, <3>7, <3>9, <4>1, SameChain
    <3>11. Same(Moment(s, x, f), Mix(1, Moment(s, x, g), d, m))
      <4> DEFINE one == 1
      <4>1. one \in Int /\ SameMix(f, s, one, g, d, Ones)
        BY <3>5
      <4> HIDE DEF one, d
      <4>2. Same(Moment(s, x, f), Mix(one, Moment(s, x, g), d, m))
        BY <2>2, <3>4, <3>7, <4>1, MomentLinear
      <4> QED
        BY <4>2 DEF one
    <3>12. m \in Int /\ Moment(s, x, g) \in Int
      BY <2>2, <3>7, MomentTyped
    <3>13. Mix(1, Moment(s, x, g), d, m) = Moment(s, x, g) + m * d
      <4> DEFINE y == Moment(s, x, g)
      <4>1. y \in Int
        BY <3>12
      <4> HIDE DEF y, m, d
      <4>2. Mix(1, y, d, m) = y + m * d
        BY <3>4, <3>12, <4>1 DEF Mix
      <4> QED
        BY <4>2 DEF y
    <3> HIDE DEF m, d
    <3>14. Same(x - a, (x - b) + m * d)
      <4>1. m * d \in Int
        BY <3>4, <3>12
      <4>2. Same(Moment(s, x, g) + m * d, (x - b) + m * d)
        BY <3>10, <4>1, SameMod, SameSum
      <4> QED
        BY <3>10, <3>11, <3>13, <4>2, SameChain
    <3>15. Same(d, m * d)
      <4>1. Same((x - a) + (b - x), ((x - b) + m * d) + (b - x))
        <5>1. b - x \in Int
          BY <3>2
        <5> QED
          BY <3>14, <5>1, SameMod, SameSum
      <4>2. m * d \in Int
        BY <3>4, <3>12
      <4>3. (x - a) + (b - x) = d /\ ((x - b) + m * d) + (b - x) = m * d
        BY <2>2, <3>2, <4>2 DEF d
      <4> QED
        BY <4>1, <4>3
    <3>16. Same(m, 1)
      <4>1. Same(m * d, 1 * d)
        BY <3>4, <3>15, SameChain
      <4> QED
        BY <3>4, <3>12, <4>1, SameQuotient
    <3> QED
      BY <3>16 DEF m
  <2> QED
    BY <2>3, <2>4
<1>4. \A s \in SUBSET S : s \in A
  <2> HIDE DEF A
  <2>1. Hereditary(A, S) /\ IsFiniteSet(S)
    BY <1>3 DEF Hereditary, IndexSet
  <2> QED
    BY <1>2, <2>1, FiniteInduction
<1> QED
  BY <1>1, <1>4

-----------------------------------------------------------------------------
(* Polynomials.                                                            *)

Rest(c, n) == [k \in 1..n |-> c[k + 1]]

(* Its first coefficient aside, a polynomial is a multiple of one with a   *)
(* coefficient less.                                                       *)
LEMMA EvaluateStep ==
  ASSUME NEW n \in Nat, NEW c \in [1..(n + 1) -> Int], NEW x \in Int
  PROVE  /\ Rest(c, n) \in [1..n -> Int] /\ evaluate_x(c, x) \in Int /\ evaluate_x(Rest(c, n), x) \in Int
         /\ Same(evaluate_x(c, x), c[1] + x * evaluate_x(Rest(c, n), x))
<1> DEFINE d == Rest(c, n)
<1>1. d \in [1..n -> Int] /\ \A k \in 1..n : d[k] = c[k + 1]
  BY DEF Rest
<1> HIDE DEF d
<1>2. PICK r : IsHorner(r, n + 1, c, x)
  <2> DEFINE m == n + 1
  <2>1. m \in Nat /\ DOMAIN c = 1..m /\ \A k \in 1..m : c[k] \in Int
    OBVIOUS
  <2> HIDE DEF m
  <2>2. \E r : IsHorner(r, m, c, x)
    BY <2>1, HornerSteps
  <2> QED
    BY <2>2 DEF m
<1>3. PICK s : IsHorner(s, n, d, x)
  BY <1>1, HornerSteps
<1>4. /\ r \in [1..(n + 2) -> Scalar] /\ r[n + 2] = 0 /\ evaluate_x(c, x) = r[1]
      /\ \A k \in 1..(n + 1) : r[k] = mod_n(r[k + 1] * x + c[k])
  BY <1>2 DEF IsHorner
<1>5. /\ s \in [1..(n + 1) -> Scalar] /\ s[n + 1] = 0 /\ evaluate_x(d, x) = s[1]
      /\ \A k \in 1..n : s[k] = mod_n(s[k + 1] * x + d[k])
  BY <1>3 DEF IsHorner
<1> DEFINE B == {m \in Nat : m <= n => s[n + 1 - m] = r[n + 2 - m]}
<1>6. 0 \in B
  BY <1>4, <1>5
<1>7. ASSUME NEW m \in B PROVE m + 1 \in B
  <2>1. ASSUME m + 1 <= n PROVE s[n - m] = r[n + 1 - m]
    <3>1. n - m \in 1..n /\ n + 1 - m \in 1..(n + 1) /\ (n - m) + 1 = n + 1 - m /\ (n + 1 - m) + 1 = n + 2 - m
      BY <2>1
    <3>2. s[n + 1 - m] = r[n + 2 - m]
      BY <2>1
    <3>3. s[n - m] = mod_n(s[n + 1 - m] * x + d[n - m]) /\ d[n - m] = c[n + 1 - m]
      BY <1>1, <1>5, <3>1
    <3>4. r[n + 1 - m] = mod_n(r[n + 2 - m] * x + c[n + 1 - m])
      BY <1>4, <3>1
    <3> QED
      BY <3>2, <3>3, <3>4
  <2>2. m + 1 <= n => (n + 1 - (m + 1) = n - m /\ n + 2 - (m + 1) = n + 1 - m)
    OBVIOUS
  <2> QED
    BY <2>1, <2>2
<1>8. s[1] = r[2]
  <2>1. n \in B
    <3>1. B \in SUBSET Nat
      OBVIOUS
    <3> HIDE DEF B
    <3> QED
      BY <1>6, <1>7, <3>1, SetInduction
  <2>2. n + 1 - n = 1 /\ n + 2 - n = 2
    OBVIOUS
  <2> QED
    BY <2>1, <2>2
<1>9. r[1] = mod_n(r[2] * x + c[1]) /\ r[1] \in Scalar /\ r[2] \in Scalar
  BY <1>4
<1>10. r[2] \in Int /\ r[1] \in Int /\ c[1] \in Int
  <2>1. 1 \in 1..(n + 1)
    OBVIOUS
  <2> QED
    BY <1>9, <2>1, IndexNumbers
<1>11. r[2] * x + c[1] = c[1] + x * r[2] /\ c[1] + x * r[2] \in Int
  <2>1. r[2] * x = x * r[2] /\ x * r[2] \in Int
    BY <1>10
  <2> QED
    BY <1>10, <2>1
<1>12. Same(r[1], c[1] + x * r[2])
  BY <1>9, <1>11, SameMod
<1> QED
  BY <1>1, <1>4, <1>5, <1>8, <1>10, <1>12 DEF d

(* A polynomial without coefficients is zero (evaluate_x).                 *)
LEMMA EvaluateNone ==
  ASSUME NEW c, DOMAIN c = {}, NEW x \in Int
  PROVE  evaluate_x(c, x) = 0
<1> DEFINE n == 0
<1>1. n \in Nat /\ DOMAIN c = 1..n /\ \A k \in 1..n : c[k] \in Int
  OBVIOUS
<1> HIDE DEF n
<1>2. PICK r : IsHorner(r, n, c, x)
  BY <1>1, HornerSteps
<1> QED
  BY <1>2 DEF IsHorner, n

(* The value of a polynomial is a scalar (evaluate_x).                     *)
LEMMA EvaluateTyped ==
  ASSUME NEW n \in Nat, NEW c \in [1..n -> Int], NEW x \in Int
  PROVE  evaluate_x(c, x) \in Scalar /\ evaluate_x(c, x) \in Int
<1>1. PICK r : IsHorner(r, n, c, x)
  BY HornerSteps
<1>2. 1 \in 1..(n + 1)
  OBVIOUS
<1> QED
  BY <1>1, <1>2, IndexNumbers DEF IsHorner

Values(c) == [i \in Index |-> evaluate_x(c, i)]

(* Its values at indices are numbers.                                      *)
LEMMA ValuesAre ==
  ASSUME NEW n \in Nat, NEW c \in [1..n -> Int], NEW S, IndexSet(S)
  PROVE  Numbers(S, Values(c)) /\ \A i \in S : Values(c)[i] = evaluate_x(c, i) /\ i \in Int
<1>1. \A i \in S : i \in Index /\ i \in Int
  BY IndexNumbers DEF IndexSet
<1>2. \A i \in S : evaluate_x(c, i) \in Int
  BY <1>1, EvaluateTyped
<1>3. \A i \in S : Values(c)[i] = evaluate_x(c, i)
  BY <1>1 DEF Values
<1> QED
  BY <1>1, <1>2, <1>3 DEF Numbers, IndexSet

(* Enough values of a polynomial give all its values, whichever they are   *)
(* and however many more.                                                  *)
Interpolates(c, n) ==
  \A S, x : IndexSet(S) /\ Cardinality(S) >= n /\ x \in Int
              => Same(Moment(S, x, Values(c)), evaluate_x(c, x))

(* A polynomial's values at enough indices interpolate to its value        *)
(* anywhere (interpolate_x, derive_shares_secret).                         *)
LEMMA Interpolation ==
  ASSUME NEW n \in Nat, NEW c \in [1..n -> Int]
  PROVE  Interpolates(c, n)
<1> DEFINE A == {m \in Nat : \A d \in [1..m -> Int] : Interpolates(d, m)}
<1>1. 0 \in A
  <2>1. ASSUME NEW d \in [1..0 -> Int] PROVE Interpolates(d, 0)
    <3>1. ASSUME NEW S, IndexSet(S), NEW x \in Int PROVE Same(Moment(S, x, Values(d)), evaluate_x(d, x))
      <4>1. DOMAIN d = {} /\ \A i \in S : i \in Int /\ i \in Index
        BY <3>1, IndexNumbers DEF IndexSet
      <4>2. evaluate_x(d, x) = 0 /\ \A i \in S : Values(d)[i] = 0
        BY <4>1, EvaluateNone DEF Values
      <4>3. Numbers(S, Values(d))
        BY <3>1, <4>2 DEF Numbers, IndexSet
      <4> DEFINE f == Values(d)
                 none == 0
      <4>4. none \in Int /\ SameMix(f, S, none, f, none, f)
        <5>1. \A i \in S : f[i] = 0 /\ Mix(none, f[i], none, f[i]) = 0
          BY <4>2 DEF Mix
        <5>2. Same(0, 0)
          BY SameMod
        <5> QED
          BY <5>1, <5>2 DEF SameMix
      <4> HIDE DEF f, none
      <4>5. Same(Moment(S, x, f), Mix(none, Moment(S, x, f), none, Moment(S, x, f)))
        BY <3>1, <4>3, <4>4, MomentLinear DEF f
      <4>6. Moment(S, x, f) \in Int
        BY <3>1, <4>3, MomentTyped DEF f
      <4>7. Mix(none, Moment(S, x, f), none, Moment(S, x, f)) = 0
        BY <4>6 DEF Mix, none
      <4> QED
        BY <4>2, <4>5, <4>7 DEF f
    <3> QED
      BY <3>1 DEF Interpolates
  <2> QED
    BY <2>1
<1>2. ASSUME NEW m \in A PROVE m + 1 \in A
  <2>1. ASSUME NEW d \in [1..(m + 1) -> Int], NEW S, IndexSet(S), Cardinality(S) >= m + 1, NEW x \in Int
        PROVE  Same(Moment(S, x, Values(d)), evaluate_x(d, x))
    <3> DEFINE e == Rest(d, m)
               f == Values(d)
               h == Values(e)
    <3>1. m \in Nat /\ IsFiniteSet(S) /\ Cardinality(S) \in Nat
      BY <2>1, FS_CardinalityType DEF IndexSet
    <3>2. PICK b \in S : TRUE
      <4>1. S # {}
        BY <2>1, <3>1, FS_EmptySet
      <4> QED
        BY <4>1
    <3>3. IndexSet(S \ {b}) /\ Cardinality(S \ {b}) >= m /\ Cardinality(S) >= m
      <4>1. Cardinality(S \ {b}) = Cardinality(S) - 1 /\ IsFiniteSet(S \ {b})
        BY <3>1, FS_RemoveElement, FS_Subset
      <4> QED
        BY <2>1, <3>1, <4>1 DEF IndexSet
    <3>4. e \in [1..m -> Int] /\ d[1] \in Int
      BY <3>1 DEF Rest
    <3>5. /\ Numbers(S, f) /\ \A i \in S : f[i] = evaluate_x(d, i) /\ i \in Int
          /\ Numbers(S, h) /\ \A i \in S : h[i] = evaluate_x(e, i)
      <4> DEFINE k == m + 1
      <4>1. k \in Nat /\ d \in [1..k -> Int]
        BY <2>1, <3>1
      <4> HIDE DEF e, k
      <4>2. Numbers(S, f) /\ \A i \in S : f[i] = evaluate_x(d, i) /\ i \in Int
        BY <2>1, <4>1, ValuesAre
      <4>3. Numbers(S, h) /\ \A i \in S : h[i] = evaluate_x(e, i)
        BY <2>1, <3>1, <3>4, ValuesAre
      <4> QED
        BY <4>2, <4>3
    <3>6. \A y \in Int : /\ evaluate_x(d, y) \in Int /\ evaluate_x(e, y) \in Int
                         /\ Same(evaluate_x(d, y), d[1] + y * evaluate_x(e, y))
      BY <2>1, <3>1, EvaluateStep
    <3>7. Interpolates(e, m)
      BY <3>4
    <3>8. Same(Moment(S, x, h), evaluate_x(e, x)) /\ Same(Moment(S \ {b}, x, h), evaluate_x(e, x))
      BY <2>1, <3>3, <3>7 DEF Interpolates
    <3> HIDE DEF e, f, h
    <3> DEFINE g == [i \in S |-> (i - b) * h[i]]
               t == [i \in S |-> 1 * g[i] + b * h[i]]
               a == d[1]
               one == 1
               v == evaluate_x(e, x)
    <3>9. b \in Int /\ x - b \in Int /\ one \in Int /\ a \in Int /\ v \in Int
      <4>1. b \in Int /\ v \in Int /\ a \in Int
        BY <3>4, <3>5, <3>6
      <4> QED
        BY <4>1
    <3>10. Turned(g, S, b, h)
      BY DEF Turned
    <3>11. \A i \in S : g[i] = (i - b) * h[i] /\ t[i] = Mix(one, g[i], b, h[i])
      BY DEF Mix
    <3>12. ASSUME NEW i \in S PROVE t[i] = i * h[i] /\ i * h[i] \in Int /\ g[i] \in Int
      <4>1. i \in Int /\ h[i] \in Int
        BY <3>5 DEF Numbers
      <4>2. t[i] = 1 * ((i - b) * h[i]) + b * h[i]
        BY <3>11
      <4> DEFINE y == h[i]
      <4> HIDE DEF y, t
      <4>3. 1 * ((i - b) * y) + b * y = i * y /\ i * y \in Int /\ (i - b) * y \in Int
        BY <3>9, <4>1 DEF y
      <4> QED
        BY <3>11, <4>2, <4>3 DEF y
    <3> HIDE DEF g, t, a, v
    <3>13. Numbers(S, g) /\ Same(Moment(S, x, g), (x - b) * Moment(S \ {b}, x, h))
      BY <2>1, <3>5, <3>10, MomentStep
    <3>14. SameMix(t, S, one, g, b, h)
      <4>1. ASSUME NEW i \in S PROVE Same(t[i], Mix(one, g[i], b, h[i]))
        <5>1. t[i] \in Int /\ t[i] = Mix(one, g[i], b, h[i])
          BY <3>11, <3>12
        <5> QED
          BY <5>1, SameMod
      <4> QED
        BY <4>1 DEF SameMix
    <3> HIDE DEF one
    <3>15. Numbers(S, t) /\ Same(Moment(S, x, t), Mix(one, Moment(S, x, g), b, Moment(S, x, h)))
      BY <2>1, <3>5, <3>9, <3>13, <3>14, MomentLinear
    <3>16. Numbers(S, Ones) /\ Same(Moment(S, x, Ones), 1)
      BY <2>1, <3>2, WeightsAddUp
    <3>17. SameMix(f, S, a, Ones, one, t)
      <4>1. ASSUME NEW i \in S PROVE Same(f[i], Mix(a, Ones[i], one, t[i]))
        <5>1. i \in Int /\ Ones[i] = 1 /\ f[i] = evaluate_x(d, i) /\ h[i] = evaluate_x(e, i)
          BY <2>1, <3>5 DEF IndexSet, Ones
        <5>2. Same(f[i], a + i * h[i])
          BY <3>6, <5>1 DEF a
        <5>3. t[i] = i * h[i] /\ t[i] \in Int
          BY <3>12
        <5>4. Mix(a, Ones[i], one, t[i]) = a + t[i]
          BY <3>9, <5>1, <5>3 DEF Mix, one
        <5> QED
          BY <5>2, <5>3, <5>4
      <4> QED
        BY <4>1 DEF SameMix
    <3>18. Same(Moment(S, x, f), Mix(a, Moment(S, x, Ones), one, Moment(S, x, t)))
      BY <2>1, <3>9, <3>15, <3>16, <3>17, MomentLinear
    <3>19. Same(Moment(S, x, t), x * v)
      <4>1. Same((x - b) * Moment(S \ {b}, x, h), (x - b) * v) /\ Same(b * Moment(S, x, h), b * v)
        BY <3>8, <3>9, SameMod, SameProduct DEF v
      <4>2. Same(Moment(S, x, g), (x - b) * v)
        BY <3>13, <4>1, SameChain
      <4>3. Same(Moment(S, x, g) + b * Moment(S, x, h), (x - b) * v + b * v)
        BY <4>1, <4>2, SameSum
      <4>4. (x - b) * v + b * v = x * v
        BY <3>9
      <4>5. Mix(one, Moment(S, x, g), b, Moment(S, x, h)) = Moment(S, x, g) + b * Moment(S, x, h)
        <5>1. Moment(S, x, g) \in Int
          BY <2>1, <3>13, MomentTyped
        <5> QED
          BY <5>1 DEF Mix, one
      <4> QED
        BY <3>15, <4>3, <4>4, <4>5, SameChain
    <3>20. Same(Moment(S, x, f), a + x * v)
      <4>1. Same(a * Moment(S, x, Ones), a * 1)
        BY <3>9, <3>16, SameMod, SameProduct
      <4>2. a * 1 = a
        BY <3>9
      <4>3. Same(a * Moment(S, x, Ones) + Moment(S, x, t), a + x * v)
        BY <3>19, <4>1, <4>2, SameSum
      <4>4. Mix(a, Moment(S, x, Ones), one, Moment(S, x, t)) = a * Moment(S, x, Ones) + Moment(S, x, t)
        <5>1. Moment(S, x, t) \in Int
          BY <2>1, <3>15, MomentTyped
        <5> QED
          BY <5>1 DEF Mix, one
      <4> QED
        BY <3>18, <4>3, <4>4, SameChain
    <3>21. Same(evaluate_x(d, x), a + x * v)
      BY <3>6 DEF a, v
    <3> QED
      BY <3>20, <3>21, SameChain DEF f
  <2> QED
    BY <2>1 DEF Interpolates
<1>3. n \in A
  <2>1. A \in SUBSET Nat
    OBVIOUS
  <2> HIDE DEF A
  <2> QED
    BY <1>1, <1>2, <2>1, SetInduction
<1> QED
  BY <1>3

(* A mix of polynomials has the mix of their values.                       *)
LEMMA ValuesMix ==
  ASSUME NEW n \in Nat, NEW c \in [1..n -> Int], NEW d \in [1..n -> Int], NEW e \in [1..n -> Int],
         NEW p \in Int, NEW q \in Int, SameMix(e, 1..n, p, c, q, d), NEW x \in Int
  PROVE  Same(evaluate_x(e, x), Mix(p, evaluate_x(c, x), q, evaluate_x(d, x)))
<1> DEFINE V(f) == evaluate_x(f, x)
           A == {m \in Nat : \A f, g, h \in [1..m -> Int] :
                   SameMix(h, 1..m, p, f, q, g) => Same(V(h), Mix(p, V(f), q, V(g)))}
<1>1. 0 \in A
  <2>1. ASSUME NEW f \in [1..0 -> Int], NEW g \in [1..0 -> Int], NEW h \in [1..0 -> Int]
        PROVE  Same(V(h), Mix(p, V(f), q, V(g)))
    <3>1. DOMAIN f = {} /\ DOMAIN g = {} /\ DOMAIN h = {}
      OBVIOUS
    <3>2. V(f) = 0 /\ V(g) = 0 /\ V(h) = 0
      BY <3>1, EvaluateNone
    <3>3. Mix(p, 0, q, 0) = 0
      BY DEF Mix
    <3>4. Same(0, 0)
      BY SameMod
    <3> HIDE DEF V
    <3> QED
      BY <3>2, <3>3, <3>4
  <2> QED
    BY <2>1
<1>2. ASSUME NEW m \in A PROVE m + 1 \in A
  <2>1. ASSUME NEW f \in [1..(m + 1) -> Int], NEW g \in [1..(m + 1) -> Int], NEW h \in [1..(m + 1) -> Int],
               SameMix(h, 1..(m + 1), p, f, q, g)
        PROVE  Same(V(h), Mix(p, V(f), q, V(g)))
    <3> DEFINE u == V(Rest(f, m))
               v == V(Rest(g, m))
               w == V(Rest(h, m))
    <3>1. m \in Nat /\ 1 \in 1..(m + 1)
      OBVIOUS
    <3>2. f[1] \in Int /\ g[1] \in Int /\ h[1] \in Int
      BY <3>1
    <3>3. /\ Rest(f, m) \in [1..m -> Int] /\ u \in Int /\ V(f) \in Int /\ Same(V(f), f[1] + x * u)
          /\ Rest(g, m) \in [1..m -> Int] /\ v \in Int /\ V(g) \in Int /\ Same(V(g), g[1] + x * v)
          /\ Rest(h, m) \in [1..m -> Int] /\ w \in Int /\ V(h) \in Int /\ Same(V(h), h[1] + x * w)
      BY <3>1, EvaluateStep
    <3>4. SameMix(Rest(h, m), 1..m, p, Rest(f, m), q, Rest(g, m))
      <4>1. ASSUME NEW k \in 1..m
            PROVE  Same(Rest(h, m)[k], Mix(p, Rest(f, m)[k], q, Rest(g, m)[k]))
        <5>1. k + 1 \in 1..(m + 1)
          BY <3>1
        <5>2. Same(h[k + 1], Mix(p, f[k + 1], q, g[k + 1]))
          BY <2>1, <5>1 DEF SameMix
        <5> QED
          BY <5>2 DEF Rest
      <4> QED
        BY <4>1 DEF SameMix
    <3>5. Same(w, Mix(p, u, q, v))
      BY <3>3, <3>4
    <3>6. Same(h[1], Mix(p, f[1], q, g[1]))
      BY <2>1, <3>1 DEF SameMix
    <3> HIDE DEF u, v, w, V
    <3>7. Same(V(h), Mix(p, f[1], q, g[1]) + x * Mix(p, u, q, v))
      <4>1. Same(x * w, x * Mix(p, u, q, v))
        BY <3>5, SameMod, SameProduct
      <4>2. Same(h[1] + x * w, Mix(p, f[1], q, g[1]) + x * Mix(p, u, q, v))
        BY <3>6, <4>1, SameSum
      <4> QED
        BY <3>3, <4>2, SameChain
    <3>8. Same(Mix(p, V(f), q, V(g)), Mix(p, f[1] + x * u, q, g[1] + x * v))
      <4>1. Same(p * V(f), p * (f[1] + x * u)) /\ Same(q * V(g), q * (g[1] + x * v))
        BY <3>3, SameMod, SameProduct
      <4> QED
        BY <4>1, SameSum DEF Mix
    <3>9. Mix(p, f[1], q, g[1]) + x * Mix(p, u, q, v) = Mix(p, f[1] + x * u, q, g[1] + x * v)
      <4> DEFINE a == f[1]
                 b == g[1]
      <4>1. a \in Int /\ b \in Int
        BY <3>2
      <4> HIDE DEF a, b
      <4>2. (p * a + q * b) + x * (p * u + q * v) = p * (a + x * u) + q * (b + x * v)
        BY <3>3, <4>1
      <4> QED
        BY <4>2 DEF Mix, a, b
    <3> QED
      BY <3>7, <3>8, <3>9, SameChain
  <2> HIDE DEF V
  <2>2. \A f, g, h \in [1..(m + 1) -> Int] :
          SameMix(h, 1..(m + 1), p, f, q, g) => Same(V(h), Mix(p, V(f), q, V(g)))
    BY <2>1
  <2>3. m + 1 \in Nat
    OBVIOUS
  <2> QED
    BY <2>2, <2>3, Zenon
<1>3. n \in A
  <2>1. A \in SUBSET Nat
    OBVIOUS
  <2> HIDE DEF A
  <2> QED
    BY <1>1, <1>2, <2>1, SetInduction
<1> QED
  BY <1>3

(* Coefficients that are the same scalars, or that are added.              *)
LEMMA ValuesSame ==
  ASSUME NEW n \in Nat, NEW c \in [1..n -> Int], NEW e \in [1..n -> Int],
         \A j \in 1..n : Same(e[j], c[j]), NEW x \in Int
  PROVE  evaluate_x(e, x) = evaluate_x(c, x)
<1> DEFINE p == 1
           q == 0
<1>1. p \in Int /\ q \in Int
  OBVIOUS
<1>2. \A a \in Int : Mix(p, a, q, a) = a
  BY DEF Mix
<1>3. SameMix(e, 1..n, p, c, q, c)
  BY <1>2 DEF SameMix
<1> HIDE DEF p, q
<1>4. Same(evaluate_x(e, x), Mix(p, evaluate_x(c, x), q, evaluate_x(c, x)))
  BY <1>1, <1>3, ValuesMix
<1>5. evaluate_x(c, x) \in Scalar /\ evaluate_x(c, x) \in Int /\ evaluate_x(e, x) \in Scalar
  BY EvaluateTyped
<1>6. Same(evaluate_x(e, x), evaluate_x(c, x))
  BY <1>2, <1>4, <1>5
<1> QED
  BY <1>5, <1>6, SameScalar

(* The value of a sum of polynomials is the sum of their values            *)
(* (evaluate_x).                                                           *)
LEMMA ValuesAdd ==
  ASSUME NEW n \in Nat, NEW c \in [1..n -> Int], NEW d \in [1..n -> Int], NEW e \in [1..n -> Int],
         \A j \in 1..n : e[j] = c[j] + d[j], NEW x \in Int
  PROVE  Same(evaluate_x(e, x), evaluate_x(c, x) + evaluate_x(d, x))
<1> DEFINE one == 1
<1>1. one \in Int /\ \A a, b \in Int : Mix(one, a, one, b) = a + b
  BY DEF Mix
<1> HIDE DEF one
<1>2. ASSUME NEW j \in 1..n PROVE Same(e[j], Mix(one, c[j], one, d[j]))
  <2>1. c[j] \in Int /\ d[j] \in Int /\ e[j] \in Int
    OBVIOUS
  <2>2. Mix(one, c[j], one, d[j]) = e[j]
    BY <1>1, <2>1
  <2> QED
    BY <2>1, <2>2, SameMod
<1>3. SameMix(e, 1..n, one, c, one, d)
  BY <1>2 DEF SameMix
<1>4. Same(evaluate_x(e, x), Mix(one, evaluate_x(c, x), one, evaluate_x(d, x)))
  BY <1>1, <1>3, ValuesMix
<1>5. evaluate_x(c, x) \in Int /\ evaluate_x(d, x) \in Int
  BY EvaluateTyped
<1> QED
  BY <1>1, <1>4, <1>5

(* The constant term is the value at the root.                             *)
LEMMA ValueAtRoot ==
  ASSUME NEW n \in Nat, NEW c \in [1..(n + 1) -> Int]
  PROVE  Same(evaluate_x(c, 0), c[1])
<1> DEFINE x == 0
           v == evaluate_x(Rest(c, n), x)
<1>1. x \in Int /\ c[1] \in Int
  <2>1. 1 \in 1..(n + 1)
    OBVIOUS
  <2> QED
    BY <2>1
<1> HIDE DEF x
<1>2. v \in Int /\ Same(evaluate_x(c, x), c[1] + x * v)
  BY <1>1, EvaluateStep
<1> HIDE DEF v
<1>3. c[1] + x * v = c[1]
  BY <1>1, <1>2 DEF x
<1> QED
  BY <1>2, <1>3 DEF x

-----------------------------------------------------------------------------
(* What is added up term by term.                                          *)

Grows(sum, n, terms) ==
  Same(sum[0], 0) /\ \A k \in 1..n : Same(sum[k], sum[k - 1] + terms[k])

(* Two chains that grow by the same terms end in the same scalar.          *)
LEMMA GrowsAgree ==
  ASSUME NEW n \in Nat, NEW terms, NEW a, NEW b, Grows(a, n, terms), Grows(b, n, terms),
         \A k \in 1..n : terms[k] \in Int
  PROVE  Same(a[n], b[n])
<1> DEFINE A == {k \in Nat : k <= n => Same(a[k], b[k])}
<1>1. 0 \in A
  BY SameChain DEF Grows
<1>2. ASSUME NEW k \in A PROVE k + 1 \in A
  <2>1. ASSUME k + 1 <= n PROVE Same(a[k + 1], b[k + 1])
    <3>1. k + 1 \in 1..n /\ (k + 1) - 1 = k
      BY <2>1
    <3>2. Same(a[k], b[k])
      BY <2>1
    <3>3. Same(a[k + 1], a[k] + terms[k + 1]) /\ Same(b[k + 1], b[k] + terms[k + 1])
      BY <3>1 DEF Grows
    <3>4. Same(a[k] + terms[k + 1], b[k] + terms[k + 1])
      BY <3>1, <3>2, SameMod, SameSum
    <3> QED
      BY <3>3, <3>4, SameChain
  <2> QED
    BY <2>1
<1>3. n \in A
  <2>1. A \in SUBSET Nat
    OBVIOUS
  <2> HIDE DEF A
  <2> QED
    BY <1>1, <1>2, <2>1, SetInduction
<1> QED
  BY <1>3

(* A sum over 1..n grows by one term at a time.                            *)
LEMMA SumGrows ==
  ASSUME NEW n \in Nat, NEW f, \A k \in 1..n : f[k] \in Int
  PROVE  /\ Numbers(1..n, f) /\ SumOver(1..0, f) = 0
         /\ \A k \in 1..n : SumOver(1..k, f) = f[k] + SumOver(1..(k - 1), f)
         /\ Grows([k \in 0..n |-> SumOver(1..k, f)], n, f)
<1>1. \A k \in 0..n : Numbers(1..k, f) /\ SumOver(1..k, f) \in Int
  <2>1. ASSUME NEW k \in 0..n PROVE Numbers(1..k, f)
    <3>1. IsFiniteSet(1..k) /\ \A i \in 1..k : i \in 1..n
      BY FS_Interval
    <3> QED
      BY <3>1 DEF Numbers
  <2> QED
    BY <2>1, SumStep
<1>2. SumOver(1..0, f) = 0
  <2>1. 1..0 = {} /\ Numbers(1..0, f)
    BY <1>1
  <2> QED
    BY <2>1, SumStep
<1>3. ASSUME NEW k \in 1..n PROVE SumOver(1..k, f) = f[k] + SumOver(1..(k - 1), f)
  <2> DEFINE K == 1..k
  <2>1. k \in K /\ K \ {k} = 1..(k - 1)
    OBVIOUS
  <2>2. Numbers(K, f)
    BY <1>1
  <2> HIDE DEF K
  <2>3. SumOver(K, f) = f[k] + SumOver(K \ {k}, f)
    BY <2>1, <2>2, SumStep
  <2> QED
    BY <2>1, <2>3 DEF K
<1>4. Grows([k \in 0..n |-> SumOver(1..k, f)], n, f)
  <2> DEFINE sum == [k \in 0..n |-> SumOver(1..k, f)]
  <2>1. Same(sum[0], 0)
    BY <1>2, SameMod
  <2>2. ASSUME NEW k \in 1..n PROVE Same(sum[k], sum[k - 1] + f[k])
    <3>1. k \in 0..n /\ k - 1 \in 0..n
      OBVIOUS
    <3>2. sum[k] = SumOver(1..k, f) /\ sum[k - 1] = SumOver(1..(k - 1), f)
      BY <3>1
    <3>3. SumOver(1..k, f) \in Int /\ SumOver(1..(k - 1), f) \in Int /\ f[k] \in Int
      BY <1>1, <3>1
    <3> HIDE DEF sum
    <3>4. sum[k] = sum[k - 1] + f[k]
      BY <1>3, <3>2, <3>3
    <3> QED
      BY <3>2, <3>3, <3>4, SameMod
  <2>3. Grows(sum, n, f)
    <3> HIDE DEF sum
    <3> QED
      BY <2>1, <2>2 DEF Grows
  <2> QED
    BY <2>3
<1>5. n \in 0..n
  OBVIOUS
<1> QED
  BY <1>1, <1>2, <1>3, <1>4, <1>5

(* Shares (combine_shares), points (element_add_many) and numbers.         *)
LEMMA SharesGrow ==
  ASSUME NEW n \in Nat, NEW shares, DOMAIN shares = 1..n, \A k \in 1..n : shares[k].seckey \in Int,
         NEW sum, Grows(sum, n, [k \in 1..n |-> shares[k].seckey])
  PROVE  combine_shares(shares) \in Scalar /\ Same(combine_shares(shares), sum[n])
<1> DEFINE terms == [k \in 1..n |-> shares[k].seckey]
<1>1. PICK r : IsShareSum(r, n, shares)
  BY SumSteps
<1>2. \A k \in 1..n : terms[k] = shares[k].seckey /\ terms[k] \in Int
  OBVIOUS
<1> HIDE DEF terms
<1>3. /\ r \in [0..n -> Scalar] /\ r[0] = 0 /\ combine_shares(shares) = r[n]
      /\ \A k \in 1..n : r[k] = mod_n(r[k - 1] + shares[k].seckey)
  BY <1>1 DEF IsShareSum
<1>4. Grows(r, n, terms)
  <2>1. Same(r[0], 0)
    BY <1>3, SameMod
  <2>2. ASSUME NEW k \in 1..n PROVE Same(r[k], r[k - 1] + terms[k])
    <3>1. r[k - 1] \in Int /\ terms[k] \in Int
      <4>1. k - 1 \in 0..n
        OBVIOUS
      <4>2. r[k - 1] \in Scalar
        BY <1>3, <4>1
      <4> QED
        BY <1>2, <4>2, IndexNumbers
    <3>2. r[k - 1] + terms[k] \in Int
      BY <3>1
    <3>3. r[k] = mod_n(r[k - 1] + terms[k])
      BY <1>2, <1>3
    <3> QED
      BY <3>2, <3>3, SameMod
  <2> QED
    BY <2>1, <2>2 DEF Grows
<1>5. Same(r[n], sum[n])
  BY <1>2, <1>4, GrowsAgree DEF terms
<1> QED
  BY <1>3, <1>5

(* So do the logarithms of added points (element_add_many).                *)
LEMMA PointsGrow ==
  ASSUME NEW n \in Nat, NEW elems, DOMAIN elems = 1..n, \A k \in 1..n : elems[k].dlog \in Int,
         NEW sum, Grows(sum, n, [k \in 1..n |-> elems[k].dlog])
  PROVE  element_add_many(elems) \in Point /\ Same(element_add_many(elems).dlog, sum[n])
<1> DEFINE terms == [k \in 1..n |-> elems[k].dlog]
<1>1. PICK p : IsPointSum(p, n, elems)
  BY PointSteps
<1>2. \A k \in 1..n : terms[k] = elems[k].dlog /\ terms[k] \in Int
  OBVIOUS
<1> HIDE DEF terms
<1>3. /\ p \in [0..n -> Point] /\ p[0] = identity /\ element_add_many(elems) = p[n]
      /\ \A k \in 1..n : p[k] = element_add(p[k - 1], elems[k])
  BY <1>1 DEF IsPointSum
<1> DEFINE r == [k \in 0..n |-> p[k].dlog]
<1>4. Grows(r, n, terms)
  <2>1. Same(r[0], 0)
    <3>1. r[0] = 0
      BY <1>3 DEF identity
    <3> QED
      BY <3>1, SameMod
  <2>2. ASSUME NEW k \in 1..n PROVE Same(r[k], r[k - 1] + terms[k])
    <3>1. k - 1 \in 0..n /\ k \in 0..n
      OBVIOUS
    <3>2. r[k] = p[k].dlog /\ r[k - 1] = p[k - 1].dlog /\ p[k - 1] \in Point
      BY <1>3, <3>1
    <3> HIDE DEF r
    <3>3. r[k - 1] \in Int
      BY <3>2, IndexNumbers DEF Point
    <3>4. r[k] = mod_n(r[k - 1] + terms[k])
      <4>1. p[k] = element_add(p[k - 1], elems[k]) /\ terms[k] = elems[k].dlog
        BY <1>2, <1>3
      <4>2. element_add(p[k - 1], elems[k]).dlog = mod_n(p[k - 1].dlog + elems[k].dlog)
        BY DEF element_add
      <4> QED
        BY <3>2, <4>1, <4>2
    <3>5. r[k - 1] + terms[k] \in Int
      BY <1>2, <3>3
    <3> QED
      BY <3>4, <3>5, SameMod
  <2> HIDE DEF r
  <2> QED
    BY <2>1, <2>2 DEF Grows
<1>5. r[n] = element_add_many(elems).dlog
  BY <1>3
<1> HIDE DEF r
<1>6. Same(r[n], sum[n])
  BY <1>2, <1>4, GrowsAgree DEF terms
<1> QED
  BY <1>3, <1>5, <1>6

(* So do added numbers.                                                    *)
LEMMA NumbersGrow ==
  ASSUME NEW n \in Nat, NEW nums, DOMAIN nums = 1..n, \A k \in 1..n : nums[k] \in Int
  PROVE  SumOf(nums) \in Int /\ Same(SumOf(nums), SumOver(1..n, nums))
<1>1. PICK r : IsNumberSum(r, n, nums)
  BY NumberSteps
<1>2. /\ r \in [0..n -> Int] /\ r[0] = 0 /\ SumOf(nums) = r[n]
      /\ \A k \in 1..n : r[k] = r[k - 1] + nums[k]
  BY <1>1 DEF IsNumberSum
<1>3. Grows(r, n, nums)
  <2>1. Same(r[0], 0)
    BY <1>2, SameMod
  <2>2. ASSUME NEW k \in 1..n PROVE Same(r[k], r[k - 1] + nums[k])
    <3>1. r[k - 1] + nums[k] \in Int /\ r[k] = r[k - 1] + nums[k]
      BY <1>2
    <3> QED
      BY <3>1, SameMod
  <2> QED
    BY <2>1, <2>2 DEF Grows
<1> DEFINE sum == [k \in 0..n |-> SumOver(1..k, nums)]
<1>4. Grows(sum, n, nums) /\ sum[n] = SumOver(1..n, nums)
  BY SumGrows
<1> HIDE DEF sum
<1>5. Same(r[n], sum[n])
  BY <1>3, <1>4, GrowsAgree
<1> QED
  BY <1>2, <1>4, <1>5

-----------------------------------------------------------------------------
(* Sums in another order.                                                  *)

(* A finite set is listed in full, nobody twice (SetToSeq).                *)
OneToOne(g, S) == \A i, j \in S : g[i] = g[j] => i = j
Image(g, S) == {g[i] : i \in S}

(* A finite set is listed with each element once.                          *)
LEMMA ListIsBijection ==
  ASSUME NEW S, IsFiniteSet(S)
  PROVE  /\ Cardinality(S) \in Nat /\ SetToSeq(S) \in [1..Cardinality(S) -> S]
         /\ OneToOne(SetToSeq(S), 1..Cardinality(S)) /\ Image(SetToSeq(S), 1..Cardinality(S)) = S
<1> DEFINE n == Cardinality(S)
           q == SetToSeq(S)
<1>1. n \in Nat /\ ExistsBijection(1..n, S)
  BY FS_CardinalityType
<1>2. \E f \in [1..n -> S] : IsInjective(f)
  BY <1>1, Zenon DEF ExistsBijection, Bijection, Injection
<1>3. q \in [1..n -> S] /\ IsInjective(q)
  BY <1>1, <1>2 DEF SetToSeq
<1> HIDE DEF q, n
<1>4. q \in Injection(1..n, S)
  BY <1>3 DEF Injection
<1>5. IsFiniteSet(1..n) /\ Cardinality(1..n) = Cardinality(S)
  BY <1>1, FS_Interval DEF n
<1>6. q \in Surjection(1..n, S)
  BY <1>4, <1>5, FS_Injection
<1>7. OneToOne(q, 1..n)
  BY <1>3 DEF IsInjective, OneToOne
<1>8. Image(q, 1..n) = S
  BY <1>3, <1>6 DEF Surjection, Image
<1> QED
  BY <1>1, <1>3, <1>7, <1>8 DEF q, n

(* Nothing is left out of the list.                                        *)
LEMMA ListedInFull ==
  ASSUME NEW S, IsFiniteSet(S)
  PROVE  ToSet(SetToSeq(S)) = S
<1> DEFINE n == Cardinality(S)
<1>1. SetToSeq(S) \in [1..n -> S] /\ Image(SetToSeq(S), 1..n) = S
  BY ListIsBijection
<1> QED
  BY <1>1 DEF ToSet, Image

(* The image of a finite set is finite.                                    *)
LEMMA ImageFinite ==
  ASSUME NEW S, IsFiniteSet(S), NEW g
  PROVE  IsFiniteSet(Image(g, S))
<1> DEFINE V == Image(g, S)
           h == [x \in S |-> g[x]]
<1>1. h \in Surjection(S, V)
  BY DEF Surjection, Image
<1> HIDE DEF h, V
<1>2. IsFiniteSet(V)
  BY <1>1, FS_Surjection
<1> QED
  BY <1>2 DEF V

(* It is as large if no two elements have one image.                       *)
LEMMA ImageAsMany ==
  ASSUME NEW S, IsFiniteSet(S), NEW g, OneToOne(g, S)
  PROVE  Cardinality(S) \in Nat /\ Cardinality(Image(g, S)) = Cardinality(S)
<1> DEFINE V == Image(g, S)
           h == [x \in S |-> g[x]]
<1>1. h \in Injection(S, V)
  BY DEF Injection, IsInjective, OneToOne, Image
<1>2. h \in Surjection(S, V)
  BY DEF Surjection, Image
<1> HIDE DEF h, V
<1>3. Cardinality(V) = Cardinality(S) /\ Cardinality(S) \in Nat
  BY <1>1, <1>2, FS_Surjection, FS_CardinalityType
<1> QED
  BY <1>3 DEF V

(* A sum may be taken over other names of its indices.                     *)
LEMMA SumReindex ==
  ASSUME NEW S, IsFiniteSet(S), NEW g, OneToOne(g, S), NEW f, NEW h,
         \A i \in S : h[i] = f[g[i]] /\ h[i] \in Int
  PROVE  Numbers(S, h) /\ Numbers(Image(g, S), f) /\ SumOver(S, h) = SumOver(Image(g, S), f)
<1> DEFINE A == {s \in SUBSET S : SumOver(s, h) = SumOver(Image(g, s), f)}
<1>1. Numbers(S, h) /\ \A s \in SUBSET S : Numbers(s, h)
  BY SumStep DEF Numbers
<1>2. ASSUME NEW s \in SUBSET S PROVE Numbers(Image(g, s), f)
  <2>1. IsFiniteSet(s)
    BY FS_Subset
  <2>2. IsFiniteSet(Image(g, s))
    BY <2>1, ImageFinite
  <2>3. ASSUME NEW x \in Image(g, s) PROVE f[x] \in Int
    BY <2>3 DEF Image
  <2> QED
    BY <2>2, <2>3 DEF Numbers
<1>3. {} \in A
  <2>1. Image(g, {}) = {}
    BY DEF Image
  <2>2. Numbers({}, h) /\ Numbers({}, f)
    BY <1>1, <1>2, <2>1
  <2>3. SumOver({}, h) = 0 /\ SumOver({}, f) = 0
    BY <2>2, SumStep
  <2> QED
    BY <2>1, <2>3
<1>4. ASSUME NEW s \in SUBSET S, s # {}, \A b \in s : s \ {b} \in A PROVE s \in A
  <2>1. PICK b \in s : TRUE
    BY <1>4
  <2>2. SumOver(s, h) = h[b] + SumOver(s \ {b}, h)
    BY <1>1, SumStep
  <2>3. g[b] \in Image(g, s) /\ Image(g, s) \ {g[b]} = Image(g, s \ {b})
    BY DEF OneToOne, Image
  <2>4. SumOver(Image(g, s), f) = f[g[b]] + SumOver(Image(g, s \ {b}), f)
    BY <1>2, <2>3, SumStep
  <2>5. SumOver(s \ {b}, h) = SumOver(Image(g, s \ {b}), f) /\ h[b] = f[g[b]]
    BY <1>4
  <2> QED
    BY <2>2, <2>4, <2>5
<1>5. \A s \in SUBSET S : s \in A
  <2> HIDE DEF A
  <2>1. Hereditary(A, S)
    BY <1>4 DEF Hereditary
  <2> QED
    BY <1>3, <2>1, FiniteInduction
<1> QED
  BY <1>1, <1>2, <1>5

Column(a, S, j) == [i \in S |-> a[i][j]]
Row(a, R, i) == [j \in R |-> a[i][j]]
Rows(a, S, R) == [i \in S |-> SumOver(R, Row(a, R, i))]
Columns(a, S, s, R) == [j \in R |-> SumOver(s, Column(a, S, j))]

(* Rows first or columns first, the sum of a matrix is the same.           *)
LEMMA SumSwap ==
  ASSUME NEW S, IsFiniteSet(S), NEW R, IsFiniteSet(R), NEW a, \A i \in S : \A j \in R : a[i][j] \in Int
  PROVE  /\ Numbers(S, Rows(a, S, R)) /\ Numbers(R, Columns(a, S, S, R))
         /\ SumOver(S, Rows(a, S, R)) = SumOver(R, Columns(a, S, S, R))
<1> DEFINE A == {s \in SUBSET S : SumOver(s, Rows(a, S, R)) = SumOver(R, Columns(a, S, s, R))}
<1>1. \A i \in S : Numbers(R, Row(a, R, i)) /\ SumOver(R, Row(a, R, i)) \in Int
  <2>1. \A i \in S : Numbers(R, Row(a, R, i))
    BY DEF Numbers, Row
  <2> QED
    BY <2>1, SumStep
<1>2. \A s \in SUBSET S : Numbers(s, Rows(a, S, R))
  <2>1. Numbers(S, Rows(a, S, R))
    BY <1>1 DEF Numbers, Rows
  <2> QED
    BY <2>1, SumStep
<1>3. \A j \in R : \A s \in SUBSET S : Numbers(s, Column(a, S, j)) /\ SumOver(s, Column(a, S, j)) \in Int
  <2>1. \A j \in R : Numbers(S, Column(a, S, j))
    BY DEF Numbers, Column
  <2> QED
    BY <2>1, SumStep
<1>4. \A s \in SUBSET S : Numbers(R, Columns(a, S, s, R))
  BY <1>3 DEF Numbers, Columns
<1>5. {} \in A
  <2> DEFINE u == Columns(a, S, {}, R)
             none == 0
  <2>1. SumOver({}, Rows(a, S, R)) = 0
    <3>1. Numbers({}, Rows(a, S, R))
      BY <1>2
    <3> QED
      BY <3>1, SumStep
  <2>2. \A j \in R : u[j] = 0
    <3>1. \A j \in R : Numbers({}, Column(a, S, j))
      BY <1>3
    <3>2. \A j \in R : SumOver({}, Column(a, S, j)) = 0
      BY <3>1, SumStep
    <3> QED
      BY <3>2 DEF Columns
  <2>3. none \in Int /\ Numbers(R, u) /\ Combines(u, R, none, u, none, u)
    <3>1. \A j \in R : Mix(none, u[j], none, u[j]) = u[j]
      BY <2>2 DEF Mix
    <3> QED
      BY <1>4, <3>1 DEF Combines
  <2> HIDE DEF u, none
  <2>4. SumOver(R, u) = Mix(none, SumOver(R, u), none, SumOver(R, u)) /\ SumOver(R, u) \in Int
    BY <2>3, SumLinear, SumStep
  <2>5. SumOver(R, u) = 0
    BY <2>4 DEF Mix, none
  <2> QED
    BY <2>1, <2>5 DEF u
<1>6. ASSUME NEW s \in SUBSET S, s # {}, \A b \in s : s \ {b} \in A PROVE s \in A
  <2>1. PICK b \in s : TRUE
    BY <1>6
  <2> DEFINE r == s \ {b}
             u == Columns(a, S, s, R)
             v == Columns(a, S, r, R)
             w == Row(a, R, b)
             one == 1
  <2>2. r \in SUBSET S /\ b \in S /\ one \in Int
    OBVIOUS
  <2>3. SumOver(s, Rows(a, S, R)) = SumOver(R, w) + SumOver(r, Rows(a, S, R))
    <3>1. Rows(a, S, R)[b] = SumOver(R, w)
      BY <2>2 DEF Rows
    <3> QED
      BY <1>2, <3>1, SumStep
  <2>4. SumOver(r, Rows(a, S, R)) = SumOver(R, v)
    BY <1>6
  <2>5. ASSUME NEW j \in R PROVE u[j] = Mix(one, w[j], one, v[j])
    <3>1. SumOver(s, Column(a, S, j)) = Column(a, S, j)[b] + SumOver(r, Column(a, S, j))
      BY <1>3, SumStep
    <3>2. Column(a, S, j)[b] = w[j] /\ w[j] \in Int
      BY <2>2 DEF Column, Row
    <3>3. u[j] = SumOver(s, Column(a, S, j)) /\ v[j] = SumOver(r, Column(a, S, j)) /\ v[j] \in Int
      BY <1>3, <2>2 DEF Columns
    <3> HIDE DEF u, v, w
    <3>4. u[j] = w[j] + v[j]
      BY <3>1, <3>2, <3>3
    <3> QED
      BY <3>2, <3>3, <3>4 DEF Mix
  <2>6. Numbers(R, v) /\ Numbers(R, w)
    BY <1>1, <1>4, <2>2
  <2> HIDE DEF u, v, w, r, one
  <2>7. Combines(u, R, one, w, one, v)
    BY <2>5 DEF Combines
  <2>8. SumOver(R, u) = Mix(one, SumOver(R, w), one, SumOver(R, v))
    BY <2>2, <2>6, <2>7, SumLinear
  <2>9. SumOver(R, w) \in Int /\ SumOver(R, v) \in Int
    BY <2>6, SumStep
  <2>10. SumOver(R, u) = SumOver(R, w) + SumOver(R, v)
    BY <2>8, <2>9 DEF Mix, one
  <2> QED
    BY <2>3, <2>4, <2>10 DEF u
<1>7. \A s \in SUBSET S : s \in A
  <2> HIDE DEF A
  <2>1. Hereditary(A, S)
    BY <1>6 DEF Hereditary
  <2> QED
    BY <1>5, <2>1, FiniteInduction
<1> QED
  BY <1>2, <1>4, <1>7

-----------------------------------------------------------------------------
(* At the root.                                                            *)

(* The sign of all factors together is the same for two products.          *)
Negates(h, f, R) == \A j \in R : h[j] = -f[j]

(* Turning the sign of every factor of two products over one set turns     *)
(* both or neither (interpolate_x has the signs of the textbook turned).   *)
LEMMA SignsAgree ==
  ASSUME NEW R, IsFiniteSet(R), NEW f \in [R -> Int], NEW g \in [R -> Int],
         NEW h \in [R -> Int], Negates(h, f, R), NEW k \in [R -> Int], Negates(k, g, R)
  PROVE  \E u \in {1, -1} : /\ Same(ProductOf(h), u * ProductOf(f))
                            /\ Same(ProductOf(k), u * ProductOf(g))
<1> DEFINE P(s, e) == ProductOf(Factors(s, e))
           A == {s \in SUBSET R : \E u \in {1, -1} : /\ Same(P(s, h), u * P(s, f))
                                                     /\ Same(P(s, k), u * P(s, g))}
<1>1. \A s \in SUBSET R : /\ IsFiniteSet(s) /\ Factors(s, f) \in [s -> Int] /\ Factors(s, g) \in [s -> Int]
                          /\ Factors(s, h) \in [s -> Int] /\ Factors(s, k) \in [s -> Int]
  BY FS_Subset DEF Factors
<1>2. {} \in A
  <2>1. P({}, f) = 1 /\ P({}, g) = 1 /\ P({}, h) = 1 /\ P({}, k) = 1
    BY <1>1, ProductStep
  <2>2. Same(1, 1 * 1)
    BY SameMod
  <2> HIDE DEF P
  <2> QED
    BY <2>1, <2>2
<1>3. \A e \in [R -> Int] : \A s \in SUBSET R : \A b \in s : Same(P(s, e), e[b] * P(s \ {b}, e))
  <2> SUFFICES ASSUME NEW e \in [R -> Int], NEW s \in SUBSET R, NEW b \in s
               PROVE  Same(P(s, e), e[b] * P(s \ {b}, e))
    OBVIOUS
  <2> DEFINE d == Factors(s, e)
  <2>1. d \in [s -> Int] /\ d[b] = e[b] /\ Factors(s \ {b}, d) = Factors(s \ {b}, e) /\ IsFiniteSet(s)
    BY FS_Subset DEF Factors
  <2> HIDE DEF d
  <2>2. Same(ProductOf(d), d[b] * ProductOf(Factors(s \ {b}, d)))
    BY <2>1, ProductStep
  <2> QED
    BY <2>1, <2>2 DEF d
<1>4. \A e, d \in [R -> Int] : Negates(d, e, R) => \A s \in SUBSET R : \A b \in s : \A u \in {1, -1} :
        Same(P(s \ {b}, d), u * P(s \ {b}, e)) => Same(P(s, d), (-u) * P(s, e))
  <2> SUFFICES ASSUME NEW e \in [R -> Int], NEW d \in [R -> Int], Negates(d, e, R),
                      NEW s \in SUBSET R, NEW b \in s, NEW u \in {1, -1},
                      Same(P(s \ {b}, d), u * P(s \ {b}, e))
               PROVE  Same(P(s, d), (-u) * P(s, e))
    OBVIOUS
  <2> DEFINE p == P(s \ {b}, e)
             x == e[b]
             y == d[b]
  <2>1. x \in Int /\ u \in Int /\ -u \in Int /\ y = -x
    BY DEF Negates
  <2>2. Same(P(s, d), y * P(s \ {b}, d)) /\ Same(P(s, e), x * p)
    BY <1>3
  <2>3. p \in Int
    <3> DEFINE r == s \ {b}
    <3>1. IsFiniteSet(r) /\ Factors(r, e) \in [r -> Int]
      BY FS_Subset DEF Factors
    <3> HIDE DEF r
    <3>2. ProductOf(Factors(r, e)) \in Scalar
      BY <3>1, ProductIsScalar
    <3> QED
      BY <3>2, IndexNumbers DEF r
  <2> HIDE DEF P, p, x, y
  <2>4. Same(y * P(s \ {b}, d), y * (u * p)) /\ Same((-u) * P(s, e), (-u) * (x * p))
    <3>1. y \in Int /\ Same(P(s \ {b}, d), u * p)
      BY <2>1 DEF p
    <3> QED
      BY <2>1, <2>2, <3>1, SameMod, SameProduct
  <2>5. y * (u * p) = (-u) * (x * p)
    <3>1. (-x) * (u * p) = (-u) * (x * p)
      BY <2>1, <2>3
    <3> QED
      BY <2>1, <3>1
  <2> QED
    BY <2>2, <2>4, <2>5, SameChain
<1>5. ASSUME NEW s \in SUBSET R, s # {}, \A b \in s : s \ {b} \in A PROVE s \in A
  <2>1. PICK b \in s : TRUE
    BY <1>5
  <2>2. PICK u \in {1, -1} : Same(P(s \ {b}, h), u * P(s \ {b}, f)) /\ Same(P(s \ {b}, k), u * P(s \ {b}, g))
    BY <1>5
  <2>3. Same(P(s, h), (-u) * P(s, f)) /\ Same(P(s, k), (-u) * P(s, g))
    <3> HIDE DEF P
    <3> QED
      BY <1>4, <2>2
  <2>4. -u \in {1, -1}
    OBVIOUS
  <2> HIDE DEF P
  <2> QED
    BY <2>3, <2>4
<1>6. \A s \in SUBSET R : s \in A
  <2> HIDE DEF A
  <2>1. Hereditary(A, R)
    BY <1>5 DEF Hereditary
  <2> QED
    BY <1>2, <2>1, FiniteInduction
<1>7. R \in A
  BY <1>6
<1>8. Factors(R, f) = f /\ Factors(R, g) = g /\ Factors(R, h) = h /\ Factors(R, k) = k
  BY DEF Factors
<1> QED
  BY <1>7, <1>8

(* The coefficient at the root is the weight at 0 (interpolate_x).         *)
LEMMA RootWeight ==
  ASSUME NEW S, IndexSet(S), NEW i \in S
  PROVE  interpolate_x(S, i) = Weight(S, 0)[i]
<1> DEFINE x == 0
           R == S \ {i}
           f == [j \in R |-> j]
           g == [j \in R |-> j - i]
           h == [j \in R |-> x - j]
           k == [j \in R |-> i - j]
           p == ProductOf(f)
           d == ProductOf(g)
           e == scalar_invert(d)
           v == interpolate_x(S, i)
           w == Weight(S, x)[i]
           D == Den(S, i)
<1>1. \A j \in S : j \in Int
  BY IndexNumbers DEF IndexSet
<1>2. f \in [R -> Int] /\ g \in [R -> Int] /\ h \in [R -> Int] /\ k \in [R -> Int] /\ x \in Int
  BY <1>1
<1>3. IsFiniteSet(R)
  BY FS_Subset DEF IndexSet
<1>4. ASSUME NEW j \in R PROVE mod_n(g[j]) # 0
  <2>1. j \in 1..(Q - 1) /\ i \in 1..(Q - 1) /\ j # i
    BY DEF IndexSet, Index
  <2> QED
    BY <2>1, IndicesDiffer
<1>5. Negates(h, f, R) /\ Negates(k, g, R)
  BY <1>1 DEF Negates
<1>6. v = mod_n(p * e)
  BY DEF interpolate_x
<1>7. ProductOf(h) = Num(S, i, x) /\ ProductOf(k) = D
  BY DEF Num, Den
<1>8. w \in Scalar /\ w \in Int /\ Same(w * D, Num(S, i, x)) /\ D \in Int /\ mod_n(D) # 0
  BY <1>2, WeightIs, FractionTyped DEF IndexSet
<1> HIDE DEF R, f, g, h, k, v, w, D, x
<1>9. p \in Scalar /\ p \in Int /\ d \in Scalar \ {0} /\ d \in Int
  BY <1>2, <1>3, <1>4, ProductIsScalar, ProductIsNotZero, IndexNumbers
<1>10. PICK u \in {1, -1} : Same(ProductOf(h), u * p) /\ Same(ProductOf(k), u * d)
  BY <1>2, <1>3, <1>5, SignsAgree
<1>11. e \in Int /\ mod_n(d * e) = 1
  BY <1>9, InverseExists, IndexNumbers
<1> HIDE DEF p, d, e
<1>12. p * e \in Int /\ d * e \in Int /\ u \in Int
  BY <1>9, <1>11
<1>13. v \in Scalar /\ v \in Int /\ Same(v, p * e)
  BY <1>6, <1>12, ModIsScalar, SameMod, IndexNumbers
<1>14. Same(d * e, 1)
  <2>1. Same(mod_n(d * e), d * e)
    BY <1>12, SameMod
  <2> QED
    BY <1>11, <2>1, SameChain
<1>15. Same(v * D, u * p)
  <2>1. Same(v * D, (p * e) * (u * d))
    BY <1>7, <1>10, <1>13, SameProduct
  <2>2. (p * e) * (u * d) = (u * p) * (d * e) /\ (u * p) * 1 = u * p /\ u * p \in Int
    <3>1. u * p \in Int
      BY <1>9, <1>12
    <3>2. (p * e) * (u * d) = (u * p) * (d * e)
      BY <1>9, <1>11, <1>12
    <3> QED
      BY <3>1, <3>2
  <2>3. Same((u * p) * (d * e), (u * p) * 1)
    BY <1>14, <2>2, SameMod, SameProduct
  <2> QED
    BY <2>1, <2>2, <2>3, SameChain
<1>16. Same(v * D, w * D)
  BY <1>7, <1>8, <1>10, <1>15, SameChain
<1>17. Same(v, w)
  BY <1>8, <1>13, <1>16, SameQuotient
<1>18. v = w
  BY <1>8, <1>13, <1>17, SameScalar
<1> QED
  BY <1>18 DEF v, w, x

(* The secret of a key is the weighed sum of its shares (interpolate_root, *)
(* derive_shares_secret).                                                  *)
LEMMA RootIsMoment ==
  ASSUME NEW S, IndexSet(S), NEW points, DOMAIN points = S, Numbers(S, points)
  PROVE  interpolate_root(points) = mod_n(Moment(S, 0, points))
<1> DEFINE f == Weighed(S, 0, points)
           pick == [s \in SUBSET S |-> CHOOSE x \in s : TRUE]
           h == CHOOSE h : h = [s \in SUBSET S |->
                  IF s = {} THEN 0
                  ELSE interpolate_x(S, CHOOSE x \in s : TRUE) * points[CHOOSE x \in s : TRUE]
                         + h[s \ {CHOOSE x \in s : TRUE}]]
<1>1. interpolate_root(points) = mod_n(h[S])
  BY DEF interpolate_root, MapThenSumSet, MapThenFoldSet
<1>2. Numbers(S, f) /\ IsFiniteSet(S)
  <2> DEFINE x == 0
  <2>1. x \in Int
    OBVIOUS
  <2> HIDE DEF x
  <2>2. Numbers(S, Weighed(S, x, points))
    BY <2>1, MomentTyped
  <2> QED
    BY <2>2 DEF x, IndexSet
<1>3. \A i \in S : f[i] = interpolate_x(S, i) * points[i]
  BY RootWeight DEF Weighed
<1>4. \A s \in SUBSET S : s # {} => pick[s] \in s
  OBVIOUS
<1>5. Picks(pick, S)
  BY <1>4 DEF Picks
<1>6. PICK g \in [SUBSET S -> Int] : Folds(g, SUBSET S, pick, 0, Adds(S, f))
  <2> DEFINE base == 0
             step == Adds(S, f)
  <2>1. IsFiniteSet(S) /\ base \in Int /\ step \in [S -> [Int -> Int]]
    BY <1>2, AddsCommute
  <2> HIDE DEF base, step, pick
  <2>2. \E g \in [SUBSET S -> Int] : Folds(g, SUBSET S, pick, base, step)
    BY <1>5, <2>1, FoldExists
  <2> QED
    BY <2>2 DEF base, step
<1> HIDE DEF f
<1>7. g = [s \in SUBSET S |->
             IF s = {} THEN 0
             ELSE interpolate_x(S, CHOOSE x \in s : TRUE) * points[CHOOSE x \in s : TRUE]
                    + g[s \ {CHOOSE x \in s : TRUE}]]
  <2>1. ASSUME NEW s \in SUBSET S, s # {}
        PROVE  g[s] = interpolate_x(S, CHOOSE x \in s : TRUE) * points[CHOOSE x \in s : TRUE]
                        + g[s \ {CHOOSE x \in s : TRUE}]
    <3> DEFINE y == CHOOSE x \in s : TRUE
    <3>1. y \in S /\ pick[s] = y
      BY <1>4, <2>1
    <3>2. g[s] = Adds(S, f)[pick[s]][g[s \ {pick[s]}]]
      BY <1>6, <2>1 DEF Folds
    <3> HIDE DEF y, pick
    <3>3. g[s \ {y}] \in Int
      OBVIOUS
    <3>4. g[s] = f[y] + g[s \ {y}]
      BY <3>1, <3>2, <3>3 DEF Adds
    <3>5. g[s] = interpolate_x(S, y) * points[y] + g[s \ {y}]
      BY <1>3, <3>1, <3>4
    <3> QED
      BY <3>5 DEF y
  <2>2. g[{}] = 0
    BY <1>6 DEF Folds
  <2> QED
    BY <2>1, <2>2, Zenon
<1>8. h = [s \in SUBSET S |->
             IF s = {} THEN 0
             ELSE interpolate_x(S, CHOOSE x \in s : TRUE) * points[CHOOSE x \in s : TRUE]
                    + h[s \ {CHOOSE x \in s : TRUE}]]
  <2> HIDE DEF pick
  <2>1. \E k : k = [s \in SUBSET S |->
             IF s = {} THEN 0
             ELSE interpolate_x(S, CHOOSE x \in s : TRUE) * points[CHOOSE x \in s : TRUE]
                    + k[s \ {CHOOSE x \in s : TRUE}]]
    BY <1>7, Zenon
  <2> QED
    BY <2>1, Zenon
<1> HIDE DEF h
<1>9. Follows(h, S, pick, Int, 0, Adds(S, f))
  <2>1. h[{}] = 0
    BY <1>8
  <2>2. ASSUME NEW s \in SUBSET S, s # {}, h[s \ {pick[s]}] \in Int
        PROVE  h[s] = Adds(S, f)[pick[s]][h[s \ {pick[s]}]]
    <3> DEFINE y == CHOOSE x \in s : TRUE
    <3>1. y \in S /\ pick[s] = y
      BY <1>4, <2>2
    <3>2. h[s] = interpolate_x(S, y) * points[y] + h[s \ {y}]
      BY <1>8, <2>2
    <3> HIDE DEF y, pick
    <3>3. h[s] = f[y] + h[s \ {y}]
      BY <1>3, <3>1, <3>2
    <3> QED
      BY <2>2, <3>1, <3>3 DEF Adds
  <2> QED
    BY <2>1, <2>2 DEF Follows
<1> HIDE DEF pick
<1>10. IsSum(h, S, f)
  BY <1>2, <1>5, <1>9, FollowsIsSum
<1>11. h[S] = SumOver(S, f)
  BY <1>2, <1>10, SumIs
<1> QED
  BY <1>1, <1>11 DEF Moment, f

-----------------------------------------------------------------------------
(* Sums of polynomials.                                                    *)

(* Nothing adds up to nothing.                                             *)
LEMMA SumNone ==
  ASSUME NEW S, IsFiniteSet(S), NEW f, \A i \in S : f[i] = 0
  PROVE  Numbers(S, f) /\ SumOver(S, f) = 0
<1> DEFINE none == 0
<1>1. Numbers(S, f) /\ none \in Int
  BY DEF Numbers
<1>2. SumOver(S, f) \in Int
  BY <1>1, SumStep
<1>3. Combines(f, S, none, f, none, f)
  BY DEF Combines, Mix
<1> HIDE DEF none
<1>4. SumOver(S, f) = Mix(none, SumOver(S, f), none, SumOver(S, f))
  BY <1>1, <1>3, SumLinear
<1>5. SumOver(S, f) = 0
  BY <1>2, <1>4 DEF Mix, none
<1> QED
  BY <1>1, <1>5

(* Two sums without a common term are one.                                 *)
LEMMA SumUnion ==
  ASSUME NEW S, NEW f, Numbers(S, f), NEW D \in SUBSET S
  PROVE  SumOver(S, f) = SumOver(D, f) + SumOver(S \ D, f)
<1> DEFINE Join(s) == SumOver(s \cup (S \ D), f) = SumOver(s, f) + SumOver(S \ D, f)
           A == {s \in SUBSET D : Join(s)}
<1>1. \A s \in SUBSET S : Numbers(s, f) /\ SumOver(s, f) \in Int
  BY SumStep
<1>2. IsFiniteSet(D)
  BY <1>1 DEF Numbers
<1>3. {} \in A
  <2>1. {} \cup (S \ D) = S \ D /\ SumOver({}, f) = 0
    BY <1>1, SumStep
  <2> QED
    BY <1>1, <2>1
<1>4. ASSUME NEW s \in SUBSET D, s # {}, \A b \in s : s \ {b} \in A PROVE s \in A
  <2>1. PICK b \in s : TRUE
    BY <1>4
  <2> DEFINE r == s \ {b}
             all == s \cup (S \ D)
             less == r \cup (S \ D)
  <2>2. b \in all /\ all \ {b} = less /\ all \in SUBSET S /\ s \in SUBSET S /\ r \in SUBSET S
    OBVIOUS
  <2>3. SumOver(less, f) = SumOver(r, f) + SumOver(S \ D, f)
    BY <1>4
  <2> HIDE DEF r, all, less
  <2>4. SumOver(all, f) = f[b] + SumOver(less, f)
    BY <1>1, <2>2, SumStep
  <2>5. SumOver(s, f) = f[b] + SumOver(r, f)
    BY <1>1, <2>2, SumStep DEF r
  <2>6. f[b] \in Int /\ SumOver(r, f) \in Int /\ SumOver(S \ D, f) \in Int
    BY <1>1, <2>2 DEF Numbers
  <2>7. SumOver(all, f) = SumOver(s, f) + SumOver(S \ D, f)
    BY <2>3, <2>4, <2>5, <2>6
  <2> QED
    BY <2>7 DEF all
<1>5. D \in A
  <2> HIDE DEF A
  <2>1. Hereditary(A, D)
    BY <1>4 DEF Hereditary
  <2> QED
    BY <1>2, <1>3, <2>1, FiniteInduction
<1>6. D \cup (S \ D) = S
  OBVIOUS
<1> QED
  BY <1>5, <1>6

(* The sum of polynomials has the sum of their values as its value: what a *)
(* recipient adds up in dkg_finalize and refresh_share.                    *)
Polys(z, S, n) == IsFiniteSet(S) /\ n \in Nat /\ \A k \in S : z[k] \in [1..n -> Int]
ValuesAt(z, S, x) == [k \in S |-> evaluate_x(z[k], x)]

(* Sums of polynomials, coefficient by coefficient, are polynomials of     *)
(* numbers.                                                                *)
LEMMA PolySumTyped ==
  ASSUME NEW n, NEW S, NEW z, Polys(z, S, n), NEW x \in Int
  PROVE  /\ Numbers(S, ValuesAt(z, S, x))
         /\ \A s \in SUBSET S : Columns(z, S, s, 1..n) \in [1..n -> Int]
         /\ \A j \in 1..n : Numbers(S, Column(z, S, j))
<1>1. \A j \in 1..n : Numbers(S, Column(z, S, j))
  BY DEF Numbers, Column, Polys
<1>2. \A s \in SUBSET S : Columns(z, S, s, 1..n) \in [1..n -> Int]
  BY <1>1, SumStep DEF Columns
<1>3. \A k \in S : evaluate_x(z[k], x) \in Int
  BY EvaluateTyped DEF Polys
<1>4. Numbers(S, ValuesAt(z, S, x))
  BY <1>3 DEF Numbers, ValuesAt, Polys
<1> QED
  BY <1>1, <1>2, <1>4

(* Their values are the sums of the values.                                *)
LEMMA ValuesSum ==
  ASSUME NEW n, NEW S, NEW z, Polys(z, S, n), NEW x \in Int
  PROVE  Same(evaluate_x(Columns(z, S, S, 1..n), x), SumOver(S, ValuesAt(z, S, x)))
<1> DEFINE V == ValuesAt(z, S, x)
           P(s) == Columns(z, S, s, 1..n)
           A == {s \in SUBSET S : Same(evaluate_x(P(s), x), SumOver(s, V))}
<1>1. /\ Numbers(S, V) /\ n \in Nat
      /\ \A s \in SUBSET S : P(s) \in [1..n -> Int] /\ Numbers(s, V) /\ SumOver(s, V) \in Int
      /\ \A j \in 1..n : Numbers(S, Column(z, S, j))
  <2>1. Numbers(S, V)
    BY PolySumTyped
  <2>2. \A s \in SUBSET S : Numbers(s, V) /\ SumOver(s, V) \in Int
    BY <2>1, SumStep
  <2> QED
    BY <2>1, <2>2, PolySumTyped DEF Polys
<1>2. {} \in A
  <2> DEFINE p == P({})
             none == 0
  <2>1. \A j \in 1..n : p[j] = 0
    <3>1. \A j \in 1..n : SumOver({}, Column(z, S, j)) = 0
      BY SumNone, FS_EmptySet
    <3> QED
      BY <3>1 DEF Columns
  <2>2. p \in [1..n -> Int] /\ none \in Int
    BY <1>1
  <2> HIDE DEF p
  <2>3. SameMix(p, 1..n, none, p, none, p)
    <3>1. \A j \in 1..n : Mix(none, p[j], none, p[j]) = p[j] /\ p[j] \in Int
      BY <2>1, <2>2 DEF Mix
    <3>2. \A j \in 1..n : Same(p[j], p[j])
      BY <3>1, SameMod
    <3> QED
      BY <3>1, <3>2 DEF SameMix
  <2> HIDE DEF none
  <2>4. Same(evaluate_x(p, x), Mix(none, evaluate_x(p, x), none, evaluate_x(p, x)))
    BY <1>1, <2>2, <2>3, ValuesMix
  <2>5. evaluate_x(p, x) \in Int
    BY <1>1, <2>2, EvaluateTyped
  <2>6. Mix(none, evaluate_x(p, x), none, evaluate_x(p, x)) = 0
    BY <2>5 DEF Mix, none
  <2>7. SumOver({}, V) = 0
    BY <1>1, SumStep
  <2> QED
    BY <2>4, <2>6, <2>7 DEF p
<1>3. ASSUME NEW s \in SUBSET S, s # {}, \A b \in s : s \ {b} \in A PROVE s \in A
  <2>1. PICK b \in s : TRUE
    BY <1>3
  <2> DEFINE r == s \ {b}
             p == P(s)
             q == P(r)
  <2>2. r \in SUBSET S /\ b \in S /\ z[b] \in [1..n -> Int]
    BY DEF Polys
  <2>3. ASSUME NEW j \in 1..n PROVE p[j] = z[b][j] + q[j]
    <3>1. Numbers(s, Column(z, S, j))
      BY <1>1, SumStep
    <3>2. SumOver(s, Column(z, S, j)) = Column(z, S, j)[b] + SumOver(r, Column(z, S, j))
      BY <3>1, SumStep
    <3>3. Column(z, S, j)[b] = z[b][j]
      BY <2>2 DEF Column
    <3>4. p[j] = SumOver(s, Column(z, S, j)) /\ q[j] = SumOver(r, Column(z, S, j))
      BY DEF Columns
    <3> HIDE DEF p, q
    <3> QED
      BY <3>2, <3>3, <3>4
  <2>4. p \in [1..n -> Int] /\ q \in [1..n -> Int]
    BY <1>1, <2>2
  <2>5. Same(evaluate_x(q, x), SumOver(r, V))
    BY <1>3
  <2>6. SumOver(s, V) = V[b] + SumOver(r, V) /\ V[b] = evaluate_x(z[b], x) /\ V[b] \in Int
    BY <1>1, <2>2, SumStep DEF ValuesAt, Numbers
  <2> HIDE DEF p, q, r, V, A, P
  <2>7. Same(evaluate_x(p, x), evaluate_x(z[b], x) + evaluate_x(q, x))
    BY <1>1, <2>2, <2>3, <2>4, ValuesAdd
  <2>8. Same(evaluate_x(z[b], x) + evaluate_x(q, x), V[b] + SumOver(r, V))
    BY <2>5, <2>6, SameMod, SameSum
  <2>9. Same(evaluate_x(p, x), SumOver(s, V))
    BY <2>6, <2>7, <2>8, SameChain
  <2> QED
    BY <2>9 DEF A, p
<1>4. S \in A
  <2> HIDE DEF A
  <2>1. Hereditary(A, S)
    BY <1>3 DEF Hereditary
  <2> QED
    BY <1>2, <2>1, FiniteInduction DEF Polys
<1> QED
  BY <1>4

(* Shares in any order add up to the sum of the terms they stand for       *)
(* (combine_shares).                                                       *)
Places(g, n, S) == OneToOne(g, 1..n) /\ Image(g, 1..n) = S
StandFor(shares, n, g, f) == \A k \in 1..n : shares[k].seckey = f[g[k]] /\ shares[k].seckey \in Int

(* Added shares are the sum of what they stand for (combine_shares).       *)
LEMMA SharesAddUp ==
  ASSUME NEW n \in Nat, NEW shares, DOMAIN shares = 1..n, NEW g, NEW S, Places(g, n, S),
         NEW f, StandFor(shares, n, g, f)
  PROVE  /\ combine_shares(shares) \in Scalar /\ Numbers(S, f)
         /\ Same(combine_shares(shares), SumOver(S, f))
<1> DEFINE h == [k \in 1..n |-> shares[k].seckey]
           sum == [k \in 0..n |-> SumOver(1..k, h)]
<1>1. \A k \in 1..n : h[k] = f[g[k]] /\ h[k] \in Int /\ shares[k].seckey \in Int
  BY DEF StandFor
<1> HIDE DEF h
<1>2. Grows(sum, n, h)
  BY <1>1, SumGrows
<1>3. n \in 0..n /\ sum[n] = SumOver(1..n, h)
  OBVIOUS
<1> HIDE DEF sum
<1>4. combine_shares(shares) \in Scalar /\ Same(combine_shares(shares), sum[n])
  BY <1>1, <1>2, SharesGrow DEF h
<1>5. Numbers(S, f) /\ SumOver(1..n, h) = SumOver(S, f)
  <2> DEFINE K == 1..n
  <2>1. IsFiniteSet(K) /\ OneToOne(g, K) /\ Image(g, K) = S /\ \A k \in K : h[k] = f[g[k]] /\ h[k] \in Int
    BY <1>1, FS_Interval DEF Places
  <2> HIDE DEF K
  <2>2. Numbers(Image(g, K), f) /\ SumOver(K, h) = SumOver(Image(g, K), f)
    BY <2>1, SumReindex
  <2> QED
    BY <2>1, <2>2 DEF K
<1> QED
  BY <1>3, <1>4, <1>5

-----------------------------------------------------------------------------
(* A scalar is its own residue.                                            *)
LEMMA ModOfScalar == \A a \in Scalar : mod_n(a) = a
<1> SUFFICES ASSUME NEW a \in Scalar PROVE mod_n(a) = a
  OBVIOUS
<1>1. a \in Int
  BY OrderAssumption DEF Scalar
<1>2. mod_n(a) \in Scalar /\ \E k \in Int : a = mod_n(a) + Q * k
  BY <1>1, ModIsScalar
<1> QED
  BY <1>2, ModUnique

-----------------------------------------------------------------------------
(* The point of an x-coordinate is the one of its two points that the      *)
(* parity of either makes even (XOnly, lift_x, Parity).                    *)
LEMMA NegateIs ==
  ASSUME NEW a \in 1..(Q - 1)
  PROVE  /\ negate_point([dlog |-> a]) = [dlog |-> Q - a] /\ negate_point([dlog |-> Q - a]) = [dlog |-> a]
         /\ Same(Q - a, -a) /\ Q - a \in Scalar
<1>1. Q \in Nat /\ Q > 2 /\ a \in Int /\ Q - a \in Scalar /\ a \in Scalar /\ Q - a \in Int /\ -a \in Int
      /\ Q - (Q - a) = a /\ 1 \in Int
  BY OrderAssumption DEF Scalar
<1>2. mod_n(Q - a) = Q - a /\ mod_n(a) = a
  BY <1>1, ModOfScalar
<1>3. scalar_neg(a) = Q - a /\ scalar_neg(Q - a) = a
  BY <1>1, <1>2 DEF scalar_neg, mod_n
<1>4. Q - a = -a + Q * 1
  BY <1>1
<1>5. mod_n(Q - a) = mod_n(-a)
  <2> DEFINE b == Q - a
             c == -a
             k == 1
  <2>1. b \in Int /\ c \in Int /\ k \in Int /\ b = c + Q * k
    BY <1>1, <1>4
  <2> HIDE DEF b, c, k
  <2>2. mod_n(b) = mod_n(c)
    BY <2>1, ModEqual
  <2> QED
    BY <2>2 DEF b, c
<1> QED
  BY <1>1, <1>3, <1>5 DEF negate_point, Same

(* A negative is one modulo the order.                                     *)
LEMMA NegSame == \A a \in Scalar : Same(scalar_neg(a), -a) /\ scalar_neg(a) \in Scalar
<1> SUFFICES ASSUME NEW a \in Scalar PROVE Same(scalar_neg(a), -a) /\ scalar_neg(a) \in Scalar
  OBVIOUS
<1> DEFINE b == Q - a
           c == -a
           k == 1
<1>1. a \in Int /\ Q \in Int
  BY IndexNumbers
<1>2. b \in Int /\ c \in Int /\ k \in Int /\ b = c + Q * k
  BY <1>1
<1>3. scalar_neg(a) = mod_n(b)
  BY DEF scalar_neg, mod_n
<1> HIDE DEF b, c, k
<1>4. mod_n(b) = mod_n(c) /\ mod_n(b) \in Scalar
  BY <1>2, ModEqual, ModIsScalar
<1>5. Same(mod_n(c), c)
  BY <1>2, SameMod
<1> QED
  BY <1>3, <1>4, <1>5 DEF c

(* Its sign is the parity's, and it is the point itself if that is even.   *)
LEMMA EvenPoint ==
  ASSUME NEW a \in Point, a # identity
  PROVE  /\ lift_x(XOnly(a)) \in Point /\ has_even_y(lift_x(XOnly(a)))
         /\ XOnly(lift_x(XOnly(a))) = XOnly(a)
         /\ Same(lift_x(XOnly(a)).dlog, Parity(a) * a.dlog)
         /\ has_even_y(a) => lift_x(XOnly(a)) = a
<1> DEFINE d == a.dlog
           n == negate_point(a)
<1>1. a = [dlog |-> d] /\ d \in 1..(Q - 1) /\ d \in Int /\ d \in Scalar
  BY OrderAssumption DEF Point, identity, Scalar
<1>2. n = [dlog |-> Q - d] /\ negate_point(n) = a /\ Same(Q - d, -d) /\ Q - d \in Scalar
  <2> HIDE DEF d
  <2> QED
    BY <1>1, NegateIs
<1>3. n \in Point /\ (has_even_y(a) <=> ~has_even_y(n))
  <2>1. (d \in EvenY) # (Q - d \in EvenY)
    BY <1>1, ParityAssumption
  <2>2. (d \in EvenY) <=> ~(Q - d \in EvenY)
    BY <2>1
  <2> HIDE DEF d
  <2>3. n.dlog = Q - d
    BY <1>2
  <2> QED
    BY <1>1, <1>2, <2>2, <2>3 DEF Point, has_even_y, d
<1>4. XOnly(a) = {a, n} /\ XOnly(n) = {n, a}
  BY <1>2 DEF XOnly
<1>5. CASE has_even_y(a)
  <2>1. lift_x(XOnly(a)) = a
    BY <1>3, <1>4, <1>5 DEF lift_x
  <2>2. Parity(a) = 1 /\ 1 * d = d /\ Same(d, d)
    BY <1>1, <1>5, SameMod DEF Parity
  <2> QED
    BY <1>5, <2>1, <2>2
<1>6. CASE ~has_even_y(a)
  <2>1. has_even_y(n)
    BY <1>3, <1>6
  <2>7. lift_x(XOnly(a)) = n
    <3> HIDE DEF n
    <3>1. \A b \in {a, n} : has_even_y(b) => b = n
      BY <1>6
    <3> QED
      BY <1>4, <2>1, <3>1 DEF lift_x
  <2>2. Parity(a) = scalar_neg(1)
    BY <1>6 DEF Parity
  <2>3. Same(scalar_neg(1), -1)
    BY IndexNumbers, NegSame
  <2>4. Same(scalar_neg(1) * d, (-1) * d)
    BY <1>1, <2>3, SameMod, SameProduct
  <2>5. (-1) * d = -d
    BY <1>1
  <2>6. Same(Q - d, scalar_neg(1) * d)
    BY <1>2, <2>4, <2>5, SameChain
  <2> QED
    BY <1>2, <1>3, <1>4, <1>6, <2>1, <2>2, <2>6, <2>7
<1> QED
  BY <1>5, <1>6

(* The partial signatures of a set add up (combine_partial_sigs).          *)
SigTotal(psigs) == FoldSet(LAMBDA p, acc : acc + p.psig, 0, psigs)
Psigs(S) == [p \in S |-> p.psig]

(* Partial signatures are added as numbers (combine_partial_sigs).         *)
LEMMA SigsAddUp ==
  ASSUME NEW S, IsFiniteSet(S), \A p \in S : p.psig \in Int
  PROVE  Numbers(S, Psigs(S)) /\ SigTotal(S) = SumOver(S, Psigs(S))
<1> DEFINE f == Psigs(S)
           step == Adds(S, f)
           base == 0
           pick == [s \in SUBSET S |-> CHOOSE x \in s : TRUE]
           h == CHOOSE h : h = [s \in SUBSET S |->
                  IF s = {} THEN 0
                  ELSE h[s \ {CHOOSE x \in s : TRUE}] + (CHOOSE x \in s : TRUE).psig]
<1>1. SigTotal(S) = h[S]
  BY DEF SigTotal, FoldSet, MapThenFoldSet
<1>2. \A s \in SUBSET S : s # {} => pick[s] \in s /\ pick[s] = CHOOSE x \in s : TRUE
  OBVIOUS
<1>3. Picks(pick, S)
  BY <1>2 DEF Picks
<1>4. Numbers(S, f) /\ \A i \in S : f[i] = i.psig
  BY DEF Numbers, Psigs
<1>5. \A i \in S : \A a \in Int : step[i][a] = a + i.psig
  <2>1. \A i \in S : \A a \in Int : step[i][a] = f[i] + a
    BY DEF Adds
  <2>2. \A i \in S : \A a \in Int : i.psig + a = a + i.psig
    OBVIOUS
  <2> HIDE DEF step, f
  <2> QED
    BY <1>4, <2>1, <2>2
<1> HIDE DEF step, f
<1>6. base \in Int /\ step \in [S -> [Int -> Int]]
  BY <1>4, AddsCommute DEF step
<1>7. PICK g \in [SUBSET S -> Int] : Folds(g, SUBSET S, pick, base, step)
  <2> HIDE DEF base, pick
  <2> DEFINE V == Int
  <2>1. base \in V /\ step \in [S -> [V -> V]] /\ IsFiniteSet(S)
    BY <1>6
  <2> HIDE DEF V
  <2>2. \E g \in [SUBSET S -> V] : Folds(g, SUBSET S, pick, base, step)
    BY <1>3, <2>1, FoldExists
  <2> QED
    BY <2>2 DEF V
<1>8. g = [s \in SUBSET S |->
             IF s = {} THEN 0 ELSE g[s \ {CHOOSE x \in s : TRUE}] + (CHOOSE x \in s : TRUE).psig]
  <2>1. ASSUME NEW s \in SUBSET S, s # {}
        PROVE  g[s] = g[s \ {CHOOSE x \in s : TRUE}] + (CHOOSE x \in s : TRUE).psig
    <3> DEFINE y == CHOOSE x \in s : TRUE
    <3>1. y \in S /\ pick[s] = y
      BY <1>2, <2>1
    <3>2. g[s] = step[pick[s]][g[s \ {pick[s]}]]
      BY <1>7, <2>1 DEF Folds
    <3>3. g[s \ {y}] \in Int
      OBVIOUS
    <3> HIDE DEF y, pick
    <3>4. g[s] = g[s \ {y}] + y.psig
      BY <1>5, <3>1, <3>2, <3>3
    <3> QED
      BY <3>4 DEF y
  <2>2. g[{}] = 0
    BY <1>7 DEF Folds
  <2> QED
    BY <2>1, <2>2, Zenon
<1>9. h = [s \in SUBSET S |->
             IF s = {} THEN 0 ELSE h[s \ {CHOOSE x \in s : TRUE}] + (CHOOSE x \in s : TRUE).psig]
  <2> HIDE DEF pick
  <2>1. \E k : k = [s \in SUBSET S |->
             IF s = {} THEN 0 ELSE k[s \ {CHOOSE x \in s : TRUE}] + (CHOOSE x \in s : TRUE).psig]
    BY <1>8, Zenon
  <2> QED
    BY <2>1, Zenon
<1> HIDE DEF h
<1>10. Follows(h, S, pick, Int, base, step)
  <2>1. h[{}] = base
    BY <1>9
  <2>2. ASSUME NEW s \in SUBSET S, s # {}, h[s \ {pick[s]}] \in Int
        PROVE  h[s] = step[pick[s]][h[s \ {pick[s]}]]
    <3> DEFINE y == CHOOSE x \in s : TRUE
    <3>1. y \in S /\ pick[s] = y
      BY <1>2, <2>2
    <3>2. h[s] = h[s \ {y}] + y.psig
      BY <1>9, <2>2
    <3> HIDE DEF y, pick
    <3> QED
      BY <1>5, <2>2, <3>1, <3>2
  <2> QED
    BY <2>1, <2>2 DEF Follows
<1> HIDE DEF pick
<1>11. IsSum(h, S, f)
  BY <1>3, <1>4, <1>10, FollowsIsSum DEF base, step
<1>12. h[S] = SumOver(S, f)
  BY <1>4, <1>11, SumIs
<1> QED
  BY <1>1, <1>4, <1>12 DEF f

(* What one signer adds: its part of the secret and its nonce (sign_msg).  *)
LEMMA SignatureTerm ==
  ASSUME NEW ctx, NEW part, NEW snonce, CtxTyped(ctx, part.idx), part.seckey \in Int,
         snonce.hidden_sn \in Int, snonce.binder_sn \in Int
  PROVE  LET lambda == interpolate_x(ToSet(ctx.indexes), part.idx)
             nonce == snonce.hidden_sn + snonce.binder_sn * ctx.bind_factors[part.idx]
         IN  Same(sign_msg(ctx, part, snonce).psig,
                  Mix(ctx.challenge * ctx.parity * ctx.state, lambda * part.seckey, NonceParity(ctx), nonce))
<1> DEFINE e == ctx.challenge
           lambda == interpolate_x(ToSet(ctx.indexes), part.idx)
           p == ctx.parity
           st == ctx.state
           sk == part.seckey
           sign == NonceParity(ctx)
           z == snonce.hidden_sn + snonce.binder_sn * ctx.bind_factors[part.idx]
           psig == sign_msg(ctx, part, snonce).psig
<1>1. e \in Int /\ lambda \in Int /\ p \in Int /\ st \in Int /\ sk \in Int
  BY DEF CtxTyped
<1>2. sign \in Int
  BY IndexNumbers, ParityIsScalar DEF NonceParity
<1>3. z \in Int
  <2>1. ctx.bind_factors[part.idx] \in Int
    BY DEF CtxTyped
  <2>2. \A a, b, c \in Int : a + b * c \in Int
    OBVIOUS
  <2> QED
    BY <2>1, <2>2
<1>4. psig = mod_n(mod_n(e * lambda) * mod_n(p * st * sk) + sign * mod_n(z))
  BY DEF sign_msg
<1> HIDE DEF e, lambda, p, st, sk, sign, z, psig
<1> DEFINE x == e * lambda
           y == p * st * sk
<1>5. x \in Int /\ y \in Int
  <2>1. p * st \in Int
    BY <1>1
  <2> QED
    BY <1>1, <2>1
<1>6. x * y = (e * p * st) * (lambda * sk)
  <2>1. \A a, b, c, d, f \in Int : (a * b) * ((c * d) * f) = ((a * c) * d) * (b * f)
    <3> SUFFICES ASSUME NEW a \in Int, NEW b \in Int, NEW c \in Int, NEW d \in Int, NEW f \in Int
                 PROVE  (a * b) * ((c * d) * f) = ((a * c) * d) * (b * f)
      OBVIOUS
    <3> QED
      OBVIOUS
  <2> QED
    BY <1>1, <2>1
<1> HIDE DEF x, y
<1>7. Same(mod_n(x) * mod_n(y), x * y)
  BY <1>5, SameMod, SameProduct
<1>8. Same(sign * mod_n(z), sign * z)
  BY <1>2, <1>3, SameMod, SameProduct
<1>9. Same(mod_n(x) * mod_n(y) + sign * mod_n(z), x * y + sign * z)
  BY <1>7, <1>8, SameSum
<1>10. Same(psig, mod_n(x) * mod_n(y) + sign * mod_n(z))
  <2> DEFINE w == mod_n(x) * mod_n(y) + sign * mod_n(z)
  <2>1. w \in Int
    BY <1>9 DEF Same
  <2>2. psig = mod_n(w)
    BY <1>4 DEF x, y
  <2> HIDE DEF w
  <2>3. Same(psig, w)
    BY <2>1, <2>2, SameMod
  <2> QED
    BY <2>3 DEF w
<1>11. Same(psig, x * y + sign * z)
  BY <1>9, <1>10, SameChain
<1> QED
  BY <1>6, <1>11 DEF Mix, psig, e, lambda, p, st, sk, sign, z

(* The tweaks cancel out of the equation of BIP340.                        *)
LEMMA TweaksCancel ==
  ASSUME NEW e \in Int, NEW p \in Int, NEW st \in Int, NEW tw \in Int, NEW key \in Int, NEW n \in Int
  PROVE  (((e * p * st) * key + n) + e * p * tw) + (-((p * (st * key + tw)) * e)) = n
<1> DEFINE u == e * p
           v == st * key
<1>1. u \in Int /\ v \in Int
  OBVIOUS
<1>2. (e * p * st) * key = u * v
  <2>1. \A a, b, c \in Int : (a * b) * c = a * (b * c)
    OBVIOUS
  <2> QED
    BY <1>1, <2>1
<1>3. (p * (v + tw)) * e = u * (v + tw)
  <2>1. \A b \in Int : (p * b) * e = (e * p) * b
    OBVIOUS
  <2>2. v + tw \in Int
    BY <1>1
  <2> QED
    BY <2>1, <2>2
<1>4. u * (v + tw) = u * v + u * tw
  BY <1>1
<1>5. u * v \in Int /\ u * tw \in Int
  BY <1>1
<1> HIDE DEF u, v
<1> DEFINE a == u * v
           b == u * tw
<1>6. ((a + n) + b) + (-(a + b)) = n
  <2> HIDE DEF a, b
  <2>1. a \in Int /\ b \in Int
    BY <1>5 DEF a, b
  <2> QED
    BY <2>1
<1> QED
  BY <1>2, <1>3, <1>4, <1>6 DEF u, v

(* What the context and the parts of a quorum come to.                     *)
Tweaked(ctx, key) ==
  /\ ctx.group_pk \in Point /\ ctx.group_pn \in Point /\ ctx.challenge \in Int
  /\ ctx.state \in Int /\ ctx.tweak \in Int /\ key \in Int
  /\ ctx.parity = Parity(ctx.group_pk)
  /\ ctx.challenge = get_challenge(ctx.group_pn, ctx.group_pk, ctx.message)
  /\ Same(ctx.group_pk.dlog, ctx.state * key + ctx.tweak)

(* So what the parts add up to verifies (verify_final_sig).                *)
LEMMA FinalSignature ==
  ASSUME NEW ctx, NEW key, Tweaked(ctx, key), CtxOk(ctx), NEW psigs,
         Same(SigTotal(psigs), Mix(ctx.challenge * ctx.parity * ctx.state, key,
                                   NonceParity(ctx), ctx.group_pn.dlog))
  PROVE  verify_final_sig(ctx, ctx.message, combine_partial_sigs(ctx, psigs))
<1> DEFINE e == ctx.challenge
           p == ctx.parity
           st == ctx.state
           tw == ctx.tweak
           sign == NonceParity(ctx)
           g == ctx.group_pn.dlog
           total == SigTotal(psigs)
           sig == combine_partial_sigs(ctx, psigs)
           even == lift_x(XOnly(ctx.group_pk))
           k == even.dlog
           final == element_add(scalar_base_multi(sig.s), negate_point(scalar_multi(even, e)))
           pt == lift_x(XOnly(ctx.group_pn))
<1>1. sig.r = XOnly(ctx.group_pn) /\ sig.s = mod_n(total + mod_n(e * p * tw))
  BY DEF combine_partial_sigs, SigTotal
<1>2. /\ even \in Point /\ XOnly(even) = XOnly(ctx.group_pk) /\ Same(k, p * ctx.group_pk.dlog)
      /\ pt \in Point /\ has_even_y(pt) /\ XOnly(pt) = XOnly(ctx.group_pn) /\ Same(pt.dlog, sign * g)
  BY EvenPoint DEF Tweaked, CtxOk, Serializable, NonceParity
<1>3. mod_n(Challenge(sig.r, XOnly(even), ctx.message)) = e
  BY <1>1, <1>2 DEF Tweaked, get_challenge
<1>4. final.dlog = mod_n(sig.s + scalar_neg(mod_n(k * e))) /\ final = [dlog |-> final.dlog]
  BY DEF element_add, scalar_base_multi, negate_point, scalar_multi
<1>5. /\ e \in Int /\ p \in Int /\ st \in Int /\ tw \in Int /\ sign \in Int /\ g \in Int /\ k \in Int /\ key \in Int
      /\ Same(ctx.group_pk.dlog, st * key + tw) /\ Same(total, (e * p * st) * key + sign * g)
  BY <1>2, IndexNumbers, ParityIsScalar DEF Tweaked, NonceParity, Point, Same, Mix
<1>6. verify_final_sig(ctx, ctx.message, sig) <=> has_even_y(final) /\ XOnly(final) = sig.r
  <2> HIDE DEF sig, e
  <2> QED
    BY <1>3 DEF verify_final_sig
<1> HIDE DEF e, p, st, tw, sign, g, total, sig, even, k, final, pt
<1>7. Same(k * e, (p * (st * key + tw)) * e)
  <2>1. Same(p * ctx.group_pk.dlog, p * (st * key + tw))
    BY <1>5, SameMod, SameProduct
  <2>2. Same(k, p * (st * key + tw))
    BY <1>2, <2>1, SameChain
  <2> QED
    BY <1>5, <2>2, SameMod, SameProduct
<1> DEFINE z == k * e
           y == (p * (st * key + tw)) * e
           x == e * p * tw
           w == (e * p * st) * key + sign * g
<1>8. z \in Int /\ y \in Int /\ x \in Int /\ w \in Int
  <2>1. e * p \in Int
    BY <1>5
  <2>2. x \in Int
    BY <1>5, <2>1
  <2> QED
    BY <1>5, <1>7, <2>2 DEF Same
<1>9. (w + x) + (-y) = sign * g
  <2>1. sign * g \in Int
    BY <1>5
  <2> DEFINE n == sign * g
  <2> HIDE DEF n
  <2>2. n \in Int
    BY <2>1 DEF n
  <2>3. (((e * p * st) * key + n) + e * p * tw) + (-((p * (st * key + tw)) * e)) = n
    BY <1>5, <2>2, TweaksCancel
  <2> QED
    BY <2>3 DEF n
<1>10. Same(total, w) /\ Same(z, y) /\ sig.s = mod_n(total + mod_n(x)) /\ final.dlog = mod_n(sig.s + scalar_neg(mod_n(z)))
  BY <1>1, <1>4, <1>5, <1>7
<1> HIDE DEF z, y, x, w
<1>11. Same(sig.s, w + x)
  <2>1. Same(total + mod_n(x), w + x)
    BY <1>8, <1>10, SameMod, SameSum
  <2>2. Same(sig.s, total + mod_n(x))
    <3> DEFINE c == total + mod_n(x)
    <3>1. c \in Int /\ sig.s = mod_n(c)
      BY <1>10, <2>1 DEF Same
    <3> HIDE DEF c
    <3>2. Same(sig.s, c)
      BY <3>1, SameMod
    <3> QED
      BY <3>2 DEF c
  <2> QED
    BY <2>1, <2>2, SameChain
<1>12. Same(scalar_neg(mod_n(z)), -y)
  <2> DEFINE m == mod_n(z)
  <2>1. m \in Scalar /\ Same(m, z)
    BY <1>8, SameMod, ModIsScalar
  <2> HIDE DEF m
  <2>2. Same(scalar_neg(m), -m) /\ m \in Int
    BY <2>1, NegSame, IndexNumbers
  <2>3. Same(m, y)
    BY <1>10, <2>1, SameChain
  <2>4. Same((-1) * m, (-1) * y) /\ (-1) * m = -m /\ (-1) * y = -y
    <3>1. -1 \in Int
      OBVIOUS
    <3>2. Same(-1, -1)
      BY <3>1, SameMod
    <3>3. Same((-1) * m, (-1) * y)
      BY <2>3, <3>2, SameProduct
    <3>4. (-1) * m = -m /\ (-1) * y = -y
      BY <1>8, <2>2
    <3> QED
      BY <3>3, <3>4
  <2>5. Same(scalar_neg(m), -y)
    BY <2>2, <2>4, SameChain
  <2> QED
    BY <2>5 DEF m
<1>13. Same(final.dlog, sign * g) /\ final.dlog \in Scalar
  <2> DEFINE c == sig.s + scalar_neg(mod_n(z))
  <2>1. Same(c, (w + x) + (-y))
    BY <1>11, <1>12, SameSum
  <2>2. c \in Int
    BY <2>1 DEF Same
  <2>3. final.dlog = mod_n(c)
    BY <1>10
  <2> HIDE DEF c
  <2>4. Same(final.dlog, c) /\ final.dlog \in Scalar
    BY <2>2, <2>3, SameMod, ModIsScalar
  <2>5. Same(c, sign * g)
    BY <1>9, <2>1
  <2> QED
    BY <2>4, <2>5, SameChain
<1>14. final = pt
  <2>1. pt = [dlog |-> pt.dlog] /\ pt.dlog \in Scalar
    BY <1>2 DEF Point
  <2>2. Same(final.dlog, pt.dlog)
    BY <1>2, <1>13, SameChain
  <2>3. final.dlog = pt.dlog
    BY <1>13, <2>1, <2>2, SameScalar
  <2> QED
    BY <1>4, <2>1, <2>3
<1> QED
  BY <1>1, <1>2, <1>6, <1>14 DEF sig

(* What the tweaks did to the point is what state and tweak say of the     *)
(* secret key (get_point_state).                                           *)
LEMMA TweakStepFits ==
  ASSUME NEW acc \in PointState, NEW t \in Int, NEW k \in Int,
         Same(acc.point.dlog, acc.state * k + acc.tweak)
  PROVE  Same(TweakStep(acc, t).point.dlog, TweakStep(acc, t).state * k + TweakStep(acc, t).tweak)
<1> DEFINE d == acc.point.dlog
           st == acc.state
           tw == acc.tweak
           p == Parity(acc.point)
           next == TweakStep(acc, t)
<1>1. d \in Int /\ st \in Int /\ tw \in Int /\ p \in Int
  BY IndexNumbers, ParityIsScalar DEF PointState, Point
<1>2. next.point.dlog = mod_n(mod_n(d * p) + t) /\ next.state = mod_n(st * p) /\ next.tweak = mod_n(t + p * tw)
  BY DEF TweakStep, element_add, scalar_multi, scalar_base_multi
<1> HIDE DEF d, st, tw, p, next
<1>3. Same(d, st * k + tw)
  BY DEF d, st, tw
<1> DEFINE x == st * p
           y == t + p * tw
           z == mod_n(d * p) + t
<1>4. x \in Int /\ y \in Int /\ d * p \in Int
  <2>1. p * tw \in Int
    BY <1>1
  <2> QED
    BY <1>1, <2>1
<1>5. (st * k + tw) * p + t = x * k + y
  <2>1. (st * k + tw) * p = (st * k) * p + tw * p
    <3>1. st * k \in Int
      BY <1>1
    <3> QED
      BY <1>1, <3>1
  <2>2. (st * k) * p = x * k
    BY <1>1
  <2>3. tw * p = p * tw
    BY <1>1
  <2> DEFINE a == x * k
             b == p * tw
  <2>4. a \in Int /\ b \in Int
    BY <1>1, <1>4
  <2> HIDE DEF a, b
  <2>5. (a + b) + t = a + (t + b)
    BY <2>4
  <2> QED
    BY <2>1, <2>2, <2>3, <2>5 DEF a, b
<1>6. Same(z, x * k + y) /\ z \in Int
  <2>1. Same(d * p, (st * k + tw) * p)
    BY <1>1, <1>3, SameMod, SameProduct
  <2>2. Same(mod_n(d * p), (st * k + tw) * p)
    <3> DEFINE a == d * p
    <3> HIDE DEF a
    <3>1. Same(mod_n(a), a)
      BY <1>4, SameMod DEF a
    <3> QED
      BY <2>1, <3>1, SameChain DEF a
  <2>3. Same(z, (st * k + tw) * p + t)
    BY <2>2, SameMod, SameSum
  <2> HIDE DEF z, x, y
  <2> QED
    BY <1>5, <2>3 DEF Same
<1>7. next.point.dlog = mod_n(z) /\ next.state = mod_n(x) /\ next.tweak = mod_n(y)
  BY <1>2
<1> HIDE DEF x, y, z
<1>8. Same(mod_n(x) * k, x * k)
  BY <1>4, SameMod, SameProduct
<1>9. Same(mod_n(x) * k + mod_n(y), x * k + y)
  BY <1>4, <1>8, SameMod, SameSum
<1>10. Same(mod_n(z), z)
  BY <1>6, SameMod
<1>11. Same(mod_n(z), mod_n(x) * k + mod_n(y))
  BY <1>6, <1>9, <1>10, SameChain
<1> QED
  BY <1>7, <1>11 DEF next

(* So it is after any number of tweaks.                                    *)
LEMMA PointStateFits ==
  ASSUME NEW element \in Point, NEW tweaks \in Seq(Int)
  PROVE  /\ get_point_state(element, tweaks) \in PointState
         /\ Same(get_point_state(element, tweaks).point.dlog,
                 get_point_state(element, tweaks).state * element.dlog + get_point_state(element, tweaks).tweak)
<1> DEFINE k == element.dlog
           V == {acc \in PointState : Same(acc.point.dlog, acc.state * k + acc.tweak)}
           base == [point |-> element, state |-> 1, tweak |-> 0]
<1>1. k \in Int
  BY IndexNumbers DEF Point
<1>2. base \in V
  <2>1. base \in PointState
    BY IndexNumbers DEF PointState
  <2>2. base.point.dlog = k /\ base.state = 1 /\ base.tweak = 0
    OBVIOUS
  <2>3. 1 * k + 0 = k /\ Same(k, k)
    BY <1>1, SameMod
  <2> HIDE DEF base, k
  <2> QED
    BY <2>1, <2>2, <2>3
<1>3. ASSUME NEW acc \in V, NEW t \in Int PROVE TweakStep(acc, t) \in V
  <2>1. TweakStep(acc, t) \in PointState
    BY TweakStepTyped
  <2>2. acc \in PointState /\ Same(acc.point.dlog, acc.state * k + acc.tweak)
    OBVIOUS
  <2> HIDE DEF k
  <2>3. Same(TweakStep(acc, t).point.dlog, TweakStep(acc, t).state * k + TweakStep(acc, t).tweak)
    BY <1>1, <2>2, TweakStepFits
  <2> QED
    BY <2>1, <2>3
<1>4. get_point_state(element, tweaks) \in V
  <2> HIDE DEF V
  <2> QED
    BY <1>2, <1>3, PointStateStays
<1> QED
  BY <1>4

-----------------------------------------------------------------------------
(* A list of public nonces, one for each index of S.                       *)
NoncesFit(pnonces, n, S, sn) ==
  /\ n \in Nat /\ DOMAIN pnonces = 1..n
  /\ OneToOne([k \in 1..n |-> pnonces[k].idx], 1..n)
  /\ Image([k \in 1..n |-> pnonces[k].idx], 1..n) = S
  /\ \A k \in 1..n : /\ pnonces[k].hidden_pn.dlog = sn[pnonces[k].idx].hidden_sn
                     /\ pnonces[k].binder_pn.dlog = sn[pnonces[k].idx].binder_sn
  /\ \A i \in S : sn[i].hidden_sn \in Int /\ sn[i].binder_sn \in Int

BoundNonces(S, sn, factors) == [i \in S |-> sn[i].hidden_sn + sn[i].binder_sn * factors[i]]

(* Their points add up to the sum of the secret nonces                     *)
(* (get_group_pubnonce).                                                   *)
LEMMA NoncesAddUp ==
  ASSUME NEW pnonces, NEW n, NEW S, NEW sn, NoncesFit(pnonces, n, S, sn), IsFiniteSet(S),
         NEW group_pk, NEW message, NEW factors,
         \A i \in S : factors[i] \in Int /\ factors[i] = get_bind_factor(pnonces, group_pk, message, i)
  PROVE  /\ get_group_pubnonce(pnonces, group_pk, message) \in Point
         /\ Numbers(S, BoundNonces(S, sn, factors))
         /\ Same(get_group_pubnonce(pnonces, group_pk, message).dlog, SumOver(S, BoundNonces(S, sn, factors)))
<1> DEFINE idxs == [k \in 1..n |-> pnonces[k].idx]
           elems == [k \in 1..n |->
             element_add(pnonces[k].hidden_pn,
               scalar_multi(pnonces[k].binder_pn, get_bind_factor(pnonces, group_pk, message, pnonces[k].idx)))]
           terms == [k \in 1..n |-> elems[k].dlog]
           f == BoundNonces(S, sn, factors)
           v == [k \in 1..n |-> f[idxs[k]]]
           sum == [k \in 0..n |-> SumOver(1..k, terms)]
           pn == element_add_many(elems)
<1>1. n \in Nat /\ DOMAIN pnonces = 1..n /\ OneToOne(idxs, 1..n) /\ Image(idxs, 1..n) = S /\ IsFiniteSet(1..n)
  BY FS_Interval DEF NoncesFit
<1>2. pn = get_group_pubnonce(pnonces, group_pk, message)
  BY <1>1 DEF get_group_pubnonce
<1>3. ASSUME NEW i \in S PROVE f[i] \in Int /\ f[i] = sn[i].hidden_sn + sn[i].binder_sn * factors[i]
  <2>1. sn[i].hidden_sn \in Int /\ sn[i].binder_sn \in Int /\ factors[i] \in Int
    BY DEF NoncesFit
  <2>2. \A a, b, c \in Int : a + b * c \in Int
    OBVIOUS
  <2> QED
    BY <2>1, <2>2 DEF BoundNonces
<1>4. ASSUME NEW k \in 1..n PROVE elems[k].dlog \in Int /\ Same(terms[k], v[k])
  <2> DEFINE i == idxs[k]
             a == sn[i].hidden_sn
             b == sn[i].binder_sn
             c == factors[i]
  <2>1. i \in S
    BY <1>1 DEF Image
  <2>2. a \in Int /\ b \in Int /\ c \in Int
    BY <2>1 DEF NoncesFit
  <2>3. elems[k].dlog = mod_n(a + mod_n(b * c))
    BY <2>1 DEF NoncesFit, element_add, scalar_multi
  <2>4. v[k] = a + b * c
    BY <1>3, <2>1
  <2>5. terms[k] = elems[k].dlog
    OBVIOUS
  <2> HIDE DEF i, a, b, c, elems, v, terms
  <2>6. b * c \in Int
    BY <2>2
  <2> DEFINE x == b * c
  <2> HIDE DEF x
  <2>7. Same(a + mod_n(x), a + x)
    BY <2>2, <2>6, SameMod, SameSum DEF x
  <2>8. Same(mod_n(a + mod_n(x)), a + mod_n(x))
    BY <2>7, SameMod DEF Same
  <2>9. Same(mod_n(a + mod_n(x)), a + x)
    BY <2>7, <2>8, SameChain
  <2> QED
    BY <2>3, <2>4, <2>5, <2>9 DEF x, Same
<1>5. DOMAIN elems = 1..n /\ \A k \in 1..n : terms[k] = elems[k].dlog
  OBVIOUS
<1>6. \A k \in 1..n : v[k] = f[idxs[k]] /\ v[k] \in Int
  <2>1. \A k \in 1..n : idxs[k] \in S
    BY <1>1 DEF Image
  <2> HIDE DEF idxs, f
  <2> QED
    BY <1>3, <2>1
<1>7. terms = [k \in 1..n |-> elems[k].dlog]
  OBVIOUS
<1>8. sum[n] = SumOver(1..n, terms)
  BY <1>1
<1> HIDE DEF idxs, elems, terms, f, v
<1>9. Grows(sum, n, terms)
  <2>1. \A k \in 1..n : terms[k] \in Int
    BY <1>4, <1>5
  <2> QED
    BY <1>1, <2>1, SumGrows
<1> HIDE DEF sum
<1>10. pn \in Point /\ Same(pn.dlog, sum[n])
  BY <1>1, <1>4, <1>5, <1>7, <1>9, PointsGrow
<1>11. Same(SumOver(1..n, terms), SumOver(1..n, v))
  <2> DEFINE K == 1..n
  <2>1. IsFiniteSet(K) /\ \A k \in K : Same(terms[k], v[k])
    BY <1>1, <1>4
  <2> HIDE DEF K
  <2>2. Same(SumOver(K, terms), SumOver(K, v))
    BY <2>1, SumSame
  <2> QED
    BY <2>2 DEF K
<1>12. SumOver(1..n, v) = SumOver(S, f)
  <2> DEFINE K == 1..n
  <2>1. IsFiniteSet(K) /\ OneToOne(idxs, K) /\ Image(idxs, K) = S /\ \A k \in K : v[k] = f[idxs[k]] /\ v[k] \in Int
    BY <1>1, <1>6
  <2> HIDE DEF K
  <2>2. SumOver(K, v) = SumOver(Image(idxs, K), f)
    BY <2>1, SumReindex
  <2> QED
    BY <2>1, <2>2 DEF K
<1>13. Numbers(S, f)
  BY <1>3 DEF Numbers
<1>14. Same(pn.dlog, SumOver(S, f))
  BY <1>8, <1>10, <1>11, <1>12, SameChain
<1> HIDE DEF pn
<1> QED
  BY <1>2, <1>10, <1>13, <1>14 DEF f

(* A hash is read as a number (scalar_reduce of its digest).               *)
SigningHashesAreNumbers ==
  /\ \A pnonces, group_pk, message, idx : Rho(pnonces, group_pk, message, idx) \in Int
  /\ \A r, pubkey, message : Challenge(r, pubkey, message) \in Int

(* So it is with the nonces of a set of shares, each of its own index, in  *)
(* whatever order they are listed.                                         *)
LEMMA NoncesListed ==
  ASSUME NEW S, IsFiniteSet(S), NEW sn,
         \A i \in S : sn[i].idx = i /\ sn[i].hidden_sn \in Int /\ sn[i].binder_sn \in Int,
         NEW pnonces, pnonces = SetToSeq({PublicNonce(sn[i]) : i \in S})
  PROVE  /\ NoncesFit(pnonces, Len(pnonces), S, sn)
         /\ \A i \in S : PublicNonce(sn[i]) \in ToSet(pnonces)
<1> DEFINE g == [i \in S |-> PublicNonce(sn[i])]
           E == Image(g, S)
           n == Cardinality(E)
           idxs == [k \in 1..n |-> pnonces[k].idx]
<1>1. ASSUME NEW i \in S
      PROVE  g[i].idx = i /\ g[i].hidden_pn.dlog = sn[i].hidden_sn /\ g[i].binder_pn.dlog = sn[i].binder_sn
  BY DEF PublicNonce, get_pubkey, scalar_base_multi
<1>2. E = {PublicNonce(sn[i]) : i \in S} /\ \A i \in S : g[i] = PublicNonce(sn[i])
  BY DEF Image
<1> HIDE DEF g
<1>3. IsFiniteSet(E)
  BY ImageFinite
<1>4. \A e \in E : e.idx \in S /\ e = g[e.idx]
  BY <1>1 DEF Image
<1> HIDE DEF E
<1>5. n \in Nat /\ pnonces \in [1..n -> E] /\ OneToOne(pnonces, 1..n) /\ Image(pnonces, 1..n) = E
  BY <1>2, <1>3, ListIsBijection
<1> HIDE DEF n
<1>6. Len(pnonces) = n /\ DOMAIN pnonces = 1..n
  BY <1>5
<1>7. OneToOne(idxs, 1..n)
  <2>1. ASSUME NEW j \in 1..n, NEW k \in 1..n, idxs[j] = idxs[k] PROVE j = k
    <3>1. pnonces[j] = pnonces[k]
      BY <1>4, <1>5, <2>1
    <3> QED
      BY <1>5, <3>1 DEF OneToOne
  <2> HIDE DEF idxs
  <2> QED
    BY <2>1 DEF OneToOne
<1>8. Image(idxs, 1..n) = S
  <2>1. \A k \in 1..n : idxs[k] \in S
    BY <1>4, <1>5
  <2>2. ASSUME NEW i \in S PROVE \E k \in 1..n : idxs[k] = i
    <3>1. g[i] \in E
      BY <1>2
    <3>2. PICK k \in 1..n : pnonces[k] = g[i]
      BY <1>5, <3>1 DEF Image
    <3> QED
      BY <1>1, <3>2
  <2> HIDE DEF idxs
  <2> QED
    BY <2>1, <2>2 DEF Image
<1>9. \A k \in 1..n : /\ pnonces[k].hidden_pn.dlog = sn[pnonces[k].idx].hidden_sn
                      /\ pnonces[k].binder_pn.dlog = sn[pnonces[k].idx].binder_sn
  BY <1>1, <1>4, <1>5
<1>10. \A i \in S : PublicNonce(sn[i]) \in ToSet(pnonces)
  BY <1>2, <1>5, <1>6 DEF ToSet, Image
<1>11. NoncesFit(pnonces, n, S, sn)
  BY <1>5, <1>6, <1>7, <1>8, <1>9 DEF NoncesFit
<1> QED
  BY <1>6, <1>10, <1>11

(* A context over such nonces (get_group_signing_ctx).                     *)
LEMMA ContextFits ==
  ASSUME SigningHashesAreNumbers, NEW S, IndexSet(S), NEW pnonces, NEW n, NEW sn,
         NoncesFit(pnonces, n, S, sn), NEW pubkey \in Point, NEW message, NEW tweaks \in Seq(Int),
         NEW ctx, ctx = get_group_signing_ctx(pubkey, pnonces, message, tweaks)
  PROVE  /\ Tweaked(ctx, pubkey.dlog) /\ ctx.message = message /\ ToSet(ctx.indexes) = S
         /\ \A i \in S : CtxTyped(ctx, i)
         /\ Numbers(S, BoundNonces(S, sn, ctx.bind_factors))
         /\ Same(ctx.group_pn.dlog, SumOver(S, BoundNonces(S, sn, ctx.bind_factors)))
<1> DEFINE pt == get_point_state(pubkey, tweaks)
           pn == get_group_pubnonce(pnonces, pt.point, message)
           rho == [i \in {p.idx : p \in ToSet(pnonces)} |-> get_bind_factor(pnonces, pt.point, message, i)]
           idxs == [k \in DOMAIN pnonces |-> pnonces[k].idx]
<1>1. /\ ctx.group_pk = pt.point /\ ctx.parity = Parity(pt.point) /\ ctx.state = pt.state
      /\ ctx.tweak = pt.tweak /\ ctx.bind_factors = rho /\ ctx.group_pn = pn
      /\ ctx.challenge = get_challenge(pn, pt.point, message) /\ ctx.indexes = idxs
      /\ ctx.message = message
  BY DEF get_group_signing_ctx
<1>2. /\ pt \in PointState /\ Same(pt.point.dlog, pt.state * pubkey.dlog + pt.tweak)
  BY PointStateFits
<1>3. /\ n \in Nat /\ DOMAIN pnonces = 1..n
      /\ {pnonces[k].idx : k \in 1..n} = S
  <2>1. Image([k \in 1..n |-> pnonces[k].idx], 1..n) = {pnonces[k].idx : k \in 1..n}
    BY DEF Image
  <2> QED
    BY <2>1 DEF NoncesFit
<1>4. ToSet(ctx.indexes) = S /\ {p.idx : p \in ToSet(pnonces)} = S
  <2>1. ToSet(idxs) = S
    <3>1. DOMAIN idxs = 1..n /\ \A k \in 1..n : idxs[k] = pnonces[k].idx
      BY <1>3
    <3> HIDE DEF idxs
    <3> QED
      BY <1>3, <3>1 DEF ToSet
  <2>2. {p.idx : p \in ToSet(pnonces)} = {pnonces[k].idx : k \in 1..n}
    <3>1. ToSet(pnonces) = {pnonces[k] : k \in 1..n}
      BY <1>3 DEF ToSet
    <3> QED
      BY <3>1
  <2> QED
    BY <1>1, <1>3, <2>1, <2>2
<1> HIDE DEF pt, pn, idxs
<1>5. \A i \in S : rho[i] = get_bind_factor(pnonces, pt.point, message, i) /\ rho[i] \in Int
  <2>1. \A i : get_bind_factor(pnonces, pt.point, message, i) \in Int
    BY ModIsScalar, IndexNumbers DEF get_bind_factor, SigningHashesAreNumbers
  <2> QED
    BY <1>4, <2>1
<1>6. ctx.challenge \in Int
  BY <1>1, ModIsScalar, IndexNumbers DEF get_challenge, SigningHashesAreNumbers
<1>7. pn \in Point /\ Numbers(S, BoundNonces(S, sn, rho)) /\ Same(pn.dlog, SumOver(S, BoundNonces(S, sn, rho)))
  <2> HIDE DEF rho
  <2>1. IsFiniteSet(S)
    BY DEF IndexSet
  <2> QED
    BY <1>5, <2>1, NoncesAddUp DEF pn
<1>8. Tweaked(ctx, pubkey.dlog)
  BY <1>1, <1>2, <1>6, <1>7, IndexNumbers DEF Tweaked, PointState, Point
<1>9. ASSUME NEW i \in S PROVE CtxTyped(ctx, i)
  <2>1. ctx.parity \in Int /\ ctx.state \in Int
    BY <1>1, <1>2, IndexNumbers, ParityIsScalar DEF PointState
  <2>2. interpolate_x(S, i) \in Int
    BY IndexNumbers, InterpolateTyped DEF IndexSet, Index
  <2>3. ctx.bind_factors[i] \in Int
    BY <1>1, <1>5
  <2> QED
    BY <1>4, <1>6, <2>1, <2>2, <2>3 DEF CtxTyped
<1> HIDE DEF rho
<1> QED
  BY <1>1, <1>4, <1>7, <1>8, <1>9

-----------------------------------------------------------------------------
(* Shares that open a key: those whose secrets interpolate to its secret.  *)
SecretKeys(S, sh) == [i \in S |-> sh[i].seckey]

Opens(S, sh, key) ==
  /\ IndexSet(S) /\ key \in Point
  /\ \A i \in S : sh[i].idx = i /\ sh[i].seckey \in Int
  /\ Same(Moment(S, 0, SecretKeys(S, sh)), key.dlog)

(* What shares that open a key are made of.                                *)
LEMMA OpensTyped ==
  ASSUME NEW S, NEW sh, NEW key, Opens(S, sh, key)
  PROVE  /\ IndexSet(S) /\ IsFiniteSet(S) /\ Numbers(S, SecretKeys(S, sh))
         /\ key = [dlog |-> key.dlog] /\ key.dlog \in Scalar /\ key.dlog \in Int
         /\ Same(Moment(S, 0, SecretKeys(S, sh)), key.dlog)
<1>1. IndexSet(S) /\ IsFiniteSet(S)
  BY DEF Opens, IndexSet
<1>2. Numbers(S, SecretKeys(S, sh))
  BY <1>1 DEF Numbers, SecretKeys, Opens
<1>3. key = [dlog |-> key.dlog] /\ key.dlog \in Scalar /\ key.dlog \in Int
  BY IndexNumbers DEF Opens, Point
<1> QED
  BY <1>1, <1>2, <1>3 DEF Opens

(* Values of a polynomial, as many as it has coefficients, open its value  *)
(* at the root.                                                            *)
LEMMA ValuesOpen ==
  ASSUME NEW S, IndexSet(S), NEW n \in Nat, NEW p \in [1..n -> Int], Cardinality(S) >= n,
         NEW key \in Point, evaluate_x(p, 0) = key.dlog,
         NEW sh, \A i \in S : sh[i].idx = i /\ sh[i].seckey \in Int /\ sh[i].seckey = evaluate_x(p, i)
  PROVE  Opens(S, sh, key)
<1> DEFINE points == SecretKeys(S, sh)
<1>1. Moment(S, 0, points) = Moment(S, 0, Values(p))
  <2>1. \A i \in S : Values(p)[i] = points[i]
    BY DEF Values, IndexSet, SecretKeys
  <2> HIDE DEF points
  <2>2. Weighed(S, 0, points) = Weighed(S, 0, Values(p))
    BY <2>1 DEF Weighed
  <2> QED
    BY <2>2 DEF Moment
<1>2. Interpolates(p, n)
  BY Interpolation
<1>3. Same(Moment(S, 0, Values(p)), evaluate_x(p, 0))
  <2> DEFINE x == 0
  <2>1. x \in Int
    OBVIOUS
  <2> HIDE DEF x
  <2>2. Same(Moment(S, x, Values(p)), evaluate_x(p, x))
    BY <1>2, <2>1 DEF Interpolates
  <2> QED
    BY <2>2 DEF x
<1> QED
  BY <1>1, <1>3 DEF Opens

(* They interpolate to it (interpolate_root).                              *)
LEMMA OpensAtRoot ==
  ASSUME NEW S, NEW sh, NEW key, Opens(S, sh, key)
  PROVE  get_pubkey(interpolate_root(SecretKeys(S, sh))) = key
<1> DEFINE points == SecretKeys(S, sh)
<1>1. /\ IndexSet(S) /\ Numbers(S, points) /\ DOMAIN points = S
      /\ key = [dlog |-> key.dlog] /\ key.dlog \in Scalar /\ Same(Moment(S, 0, points), key.dlog)
  BY OpensTyped DEF SecretKeys
<1> HIDE DEF points
<1>2. interpolate_root(points) = mod_n(Moment(S, 0, points))
  BY <1>1, RootIsMoment
<1>3. mod_n(Moment(S, 0, points)) = key.dlog
  BY <1>1, ModOfScalar DEF Same
<1> QED
  BY <1>1, <1>2, <1>3, ModOfScalar DEF get_pubkey, scalar_base_multi, points

(* The points of a set of parts add up (derive_ecdh_secret).               *)
Dlogs(S) == [s \in S |-> s.pubkey.dlog]
AddsPoint(S) == [s \in S |-> [a \in Point |-> element_add(a, s.pubkey)]]

(* ECDH packages are added as points (derive_ecdh_secret).                 *)
LEMMA PartsAddUp ==
  ASSUME NEW S, IsFiniteSet(S), \A s \in S : s.pubkey \in Point
  PROVE  /\ derive_ecdh_secret(S) \in Point /\ Numbers(S, Dlogs(S))
         /\ Same(derive_ecdh_secret(S).dlog, SumOver(S, Dlogs(S)))
<1> DEFINE step == AddsPoint(S)
           base == identity
           pick == [s \in SUBSET S |-> CHOOSE x \in s : TRUE]
           h == CHOOSE h : h = [s \in SUBSET S |->
                  IF s = {} THEN identity
                  ELSE element_add(h[s \ {CHOOSE x \in s : TRUE}], (CHOOSE x \in s : TRUE).pubkey)]
           d == Dlogs(S)
<1>1. derive_ecdh_secret(S) = h[S]
  BY DEF derive_ecdh_secret, FoldSet, MapThenFoldSet
<1>2. /\ \A s \in S : s.pubkey.dlog \in Scalar /\ s.pubkey.dlog \in Int /\ d[s] = s.pubkey.dlog
      /\ \A a \in Point : a.dlog \in Scalar /\ a.dlog \in Int /\ a = [dlog |-> a.dlog]
  <2>1. \A a \in Point : a.dlog \in Scalar /\ a = [dlog |-> a.dlog]
    BY DEF Point
  <2> QED
    BY <2>1, IndexNumbers DEF Dlogs
<1>3. base \in Point /\ base.dlog = 0
  BY IndexNumbers DEF identity, Point
<1>4. ASSUME NEW s \in S, NEW a \in Point
      PROVE  /\ element_add(a, s.pubkey) \in Point /\ a.dlog + s.pubkey.dlog \in Int
             /\ element_add(a, s.pubkey).dlog = mod_n(a.dlog + s.pubkey.dlog)
  <2>1. a.dlog + s.pubkey.dlog \in Int
    BY <1>2
  <2>2. mod_n(a.dlog + s.pubkey.dlog) \in Scalar
    BY <2>1, ModIsScalar
  <2> QED
    BY <2>1, <2>2 DEF element_add, Point
<1>5. step \in [S -> [Point -> Point]]
  BY <1>4 DEF AddsPoint
<1>6. \A s \in SUBSET S : s # {} => pick[s] \in s /\ pick[s] = CHOOSE x \in s : TRUE
  OBVIOUS
<1>7. Picks(pick, S)
  BY <1>6 DEF Picks
<1>8. PICK g \in [SUBSET S -> Point] : Folds(g, SUBSET S, pick, base, step)
  <2> HIDE DEF base, step, pick
  <2> QED
    BY <1>3, <1>5, <1>7, FoldExists
<1>9. g = [s \in SUBSET S |->
             IF s = {} THEN identity
             ELSE element_add(g[s \ {CHOOSE x \in s : TRUE}], (CHOOSE x \in s : TRUE).pubkey)]
  <2>1. ASSUME NEW s \in SUBSET S, s # {}
        PROVE  g[s] = element_add(g[s \ {CHOOSE x \in s : TRUE}], (CHOOSE x \in s : TRUE).pubkey)
    <3> DEFINE y == CHOOSE x \in s : TRUE
    <3>1. y \in S /\ pick[s] = y
      BY <1>6, <2>1
    <3>2. g[s] = step[pick[s]][g[s \ {pick[s]}]]
      BY <1>8, <2>1 DEF Folds
    <3> HIDE DEF y, pick
    <3>3. g[s \ {y}] \in Point
      OBVIOUS
    <3>4. g[s] = element_add(g[s \ {y}], y.pubkey)
      BY <3>1, <3>2, <3>3 DEF AddsPoint
    <3> QED
      BY <3>4 DEF y
  <2>2. g[{}] = identity
    BY <1>8 DEF Folds
  <2> QED
    BY <2>1, <2>2, Zenon
<1>10. h = [s \in SUBSET S |->
             IF s = {} THEN identity
             ELSE element_add(h[s \ {CHOOSE x \in s : TRUE}], (CHOOSE x \in s : TRUE).pubkey)]
  <2> HIDE DEF step, pick
  <2>1. \E k : k = [s \in SUBSET S |->
             IF s = {} THEN identity
             ELSE element_add(k[s \ {CHOOSE x \in s : TRUE}], (CHOOSE x \in s : TRUE).pubkey)]
    BY <1>9, Zenon
  <2> QED
    BY <2>1, Zenon
<1> HIDE DEF h
<1>11. Follows(h, S, pick, Point, base, step)
  <2>1. h[{}] = base
    BY <1>10
  <2>2. ASSUME NEW s \in SUBSET S, s # {}, h[s \ {pick[s]}] \in Point
        PROVE  h[s] = step[pick[s]][h[s \ {pick[s]}]]
    <3> DEFINE y == CHOOSE x \in s : TRUE
    <3>1. y \in S /\ pick[s] = y
      BY <1>6, <2>2
    <3>2. h[s] = element_add(h[s \ {y}], y.pubkey)
      BY <1>10, <2>2
    <3> HIDE DEF y, pick
    <3> QED
      BY <2>2, <3>1, <3>2 DEF AddsPoint
  <2> QED
    BY <2>1, <2>2 DEF Follows
<1>12. Commute(step, S, Point)
  <2>1. ASSUME NEW i \in S, NEW j \in S, NEW a \in Point
        PROVE  step[i][step[j][a]] = step[j][step[i][a]]
    <3> DEFINE x == i.pubkey.dlog
               y == j.pubkey.dlog
               u == element_add(a, j.pubkey)
               v == element_add(a, i.pubkey)
    <3>1. step[i][step[j][a]] = element_add(u, i.pubkey) /\ step[j][step[i][a]] = element_add(v, j.pubkey)
      BY <1>4 DEF AddsPoint
    <3>2. u.dlog = mod_n(a.dlog + y) /\ v.dlog = mod_n(a.dlog + x)
      BY <1>4
    <3>3. x \in Int /\ y \in Int /\ a.dlog \in Int /\ a.dlog + x \in Int /\ a.dlog + y \in Int
      BY <1>2
    <3>4. element_add(u, i.pubkey) = [dlog |-> mod_n(u.dlog + x)] /\ element_add(v, j.pubkey) = [dlog |-> mod_n(v.dlog + y)]
      BY DEF element_add
    <3> HIDE DEF u, v, x, y, step
    <3>5. Same(u.dlog, a.dlog + y) /\ Same(v.dlog, a.dlog + x) /\ Same(x, x) /\ Same(y, y)
      BY <3>2, <3>3, SameMod
    <3>6. Same(u.dlog + x, (a.dlog + y) + x) /\ Same(v.dlog + y, (a.dlog + x) + y)
      BY <3>5, SameSum
    <3>7. (a.dlog + y) + x = (a.dlog + x) + y
      BY <3>3
    <3> QED
      BY <3>1, <3>4, <3>6, <3>7 DEF Same
  <2> QED
    BY <2>1 DEF Commute
<1> HIDE DEF step, base, pick
<1>13. IsFree(h, S, Point, base, step)
  BY <1>3, <1>5, <1>7, <1>11, <1>12, FollowsFree
<1>14. Numbers(S, d)
  BY <1>2 DEF Numbers
<1> HIDE DEF d
<1> DEFINE A == {s \in SUBSET S : h[s] \in Point /\ Same(h[s].dlog, SumOver(s, d))}
<1>15. {} \in A
  <2>1. h[{}] = base /\ h[{}] \in Point
    BY <1>3, <1>13 DEF IsFree
  <2>2. SumOver({}, d) = 0 /\ Same(0, 0)
    <3>1. Numbers({}, d)
      BY FS_EmptySet DEF Numbers
    <3> QED
      BY <3>1, SumStep, SameMod
  <2> QED
    BY <1>3, <2>1, <2>2
<1>16. Hereditary(A, S)
  <2>1. ASSUME NEW s \in SUBSET S, NEW b \in s, s \ {b} \in A PROVE s \in A
    <3> DEFINE r == s \ {b}
    <3>1. h[r] \in Point /\ Same(h[r].dlog, SumOver(r, d))
      BY <2>1
    <3>2. h[s] = step[b][h[r]] /\ h[s] \in Point
      BY <1>13 DEF IsFree
    <3>3. h[s].dlog = mod_n(h[r].dlog + d[b]) /\ h[r].dlog + d[b] \in Int
      BY <1>2, <1>4, <3>1, <3>2 DEF AddsPoint, step
    <3>4. Numbers(s, d)
      BY <1>14, SumStep
    <3>5. SumOver(s, d) = d[b] + SumOver(r, d) /\ SumOver(r, d) \in Int /\ d[b] \in Int
      BY <3>4, SumStep DEF Numbers
    <3> HIDE DEF r
    <3>6. Same(h[s].dlog, h[r].dlog + d[b]) /\ Same(d[b], d[b])
      BY <3>3, <3>5, SameMod
    <3>7. Same(h[r].dlog + d[b], SumOver(r, d) + d[b])
      BY <3>1, <3>6, SameSum
    <3>8. SumOver(r, d) + d[b] = SumOver(s, d)
      BY <3>5
    <3> QED
      BY <3>2, <3>6, <3>7, <3>8, SameChain
  <2> HIDE DEF A
  <2> QED
    BY <2>1 DEF Hereditary
<1>17. S \in A
  <2> HIDE DEF A
  <2> QED
    BY <1>15, <1>16, FiniteInduction
<1> QED
  BY <1>1, <1>14, <1>17 DEF d

(* What the members of a quorum compute alone adds up to the secret.       *)
EcdhShares(S, sh, W, k) == {create_ecdh_share(S, sh[i], scalar_base_multi(k)) : i \in W}

(* The ECDH packages of shares that open a key combine to that key times   *)
(* the other secret (create_ecdh_share, derive_ecdh_secret).               *)
LEMMA QuorumDerives ==
  ASSUME NEW S, NEW sh, NEW key, Opens(S, sh, key), NEW k \in Int
  PROVE  derive_ecdh_secret(EcdhShares(S, sh, S, k)) = scalar_multi(key, k)
<1> DEFINE g == [i \in S |-> create_ecdh_share(S, sh[i], scalar_base_multi(k))]
           E == Image(g, S)
           w == Weighed(S, 0, SecretKeys(S, sh))
           u == [i \in S |-> k * w[i]]
           h == [i \in S |-> g[i].pubkey.dlog]
           m == Moment(S, 0, SecretKeys(S, sh))
           secret == derive_ecdh_secret(E)
<1>1. /\ IndexSet(S) /\ IsFiniteSet(S) /\ Numbers(S, SecretKeys(S, sh))
      /\ key = [dlog |-> key.dlog] /\ key.dlog \in Scalar /\ key.dlog \in Int /\ Same(m, key.dlog)
  BY OpensTyped
<1>2. /\ Numbers(S, w) /\ m \in Int /\ m = SumOver(S, w)
      /\ \A i \in S : w[i] = Weight(S, 0)[i] * sh[i].seckey /\ w[i] \in Int
  <2> DEFINE x == 0
  <2>1. x \in Int
    OBVIOUS
  <2> HIDE DEF x
  <2>2. Numbers(S, Weighed(S, x, SecretKeys(S, sh))) /\ Moment(S, x, SecretKeys(S, sh)) \in Int
    BY <1>1, <2>1, MomentTyped
  <2>3. \A i \in S : w[i] = Weight(S, 0)[i] * sh[i].seckey
    BY DEF Weighed, SecretKeys
  <2> QED
    BY <2>2, <2>3 DEF x, Moment, Numbers
<1>3. ASSUME NEW i \in S
      PROVE  /\ g[i].idx = i /\ g[i].pubkey \in Point
             /\ h[i] = mod_n(k * mod_n(w[i])) /\ h[i] \in Int /\ Same(h[i], u[i])
  <2>1. sh[i].idx = i
    BY DEF Opens
  <2>2. Weight(S, 0)[i] = calc_lagrange_coeff(S \ {i}, i, 0)
    BY DEF Weight
  <2>3. g[i].idx = i /\ g[i].pubkey = [dlog |-> mod_n(k * mod_n(w[i]))]
    <3>1. w[i] = calc_lagrange_coeff(S \ {sh[i].idx}, sh[i].idx, 0) * sh[i].seckey
      BY <1>2, <2>1, <2>2
    <3> HIDE DEF w
    <3> QED
      BY <2>1, <3>1 DEF create_ecdh_share, scalar_multi, scalar_base_multi
  <2> DEFINE a == mod_n(w[i])
  <2>4. w[i] \in Int /\ u[i] = k * w[i]
    BY <1>2
  <2> HIDE DEF w
  <2>5. Same(a, w[i]) /\ a \in Int /\ Same(k, k)
    BY <2>4, SameMod DEF Same
  <2>6. Same(k * a, k * w[i]) /\ k * a \in Int
    BY <2>5, SameProduct DEF Same
  <2>7. mod_n(k * a) \in Scalar /\ Same(mod_n(k * a), k * a)
    BY <2>6, SameMod, ModIsScalar
  <2>8. Same(mod_n(k * a), k * w[i])
    BY <2>6, <2>7, SameChain
  <2>9. g[i].pubkey \in Point /\ h[i] = mod_n(k * a)
    BY <2>3, <2>7 DEF Point
  <2> QED
    BY <2>3, <2>4, <2>7, <2>8, <2>9, IndexNumbers
<1> HIDE DEF g, w, m
<1>4. OneToOne(g, S)
  BY <1>3 DEF OneToOne
<1>5. IsFiniteSet(E) /\ \A s \in E : s.pubkey \in Point
  BY <1>1, <1>3, ImageFinite DEF Image
<1>6. secret \in Point /\ Same(secret.dlog, SumOver(E, Dlogs(E)))
  <2> HIDE DEF E
  <2> QED
    BY <1>5, PartsAddUp
<1>7. SumOver(S, h) = SumOver(E, Dlogs(E))
  <2>1. \A i \in S : h[i] = Dlogs(E)[g[i]] /\ h[i] \in Int
    BY <1>3 DEF Dlogs, Image
  <2> DEFINE d == Dlogs(E)
  <2> HIDE DEF h, d
  <2>2. \A i \in S : h[i] = d[g[i]] /\ h[i] \in Int
    BY <2>1 DEF d
  <2>3. SumOver(S, h) = SumOver(Image(g, S), d)
    BY <1>1, <1>4, <2>2, SumReindex
  <2> QED
    BY <2>3 DEF d
<1>8. Numbers(S, h) /\ Same(SumOver(S, h), SumOver(S, u))
  <2> HIDE DEF h, u
  <2> QED
    BY <1>1, <1>3, SumSame
<1>9. SumOver(S, u) = k * m
  <2>1. Scales(u, S, k, w)
    BY DEF Scales
  <2> HIDE DEF u
  <2> QED
    BY <1>2, <2>1, SumScaled
<1>10. Same(k * m, key.dlog * k)
  <2>1. Same(m * k, key.dlog * k)
    BY <1>1, SameMod, SameProduct
  <2>2. m * k = k * m
    BY <1>2
  <2> QED
    BY <2>1, <2>2
<1> HIDE DEF E, h, u, secret
<1>11. Same(secret.dlog, key.dlog * k)
  BY <1>6, <1>7, <1>8, <1>9, <1>10, SameChain
<1>12. secret = [dlog |-> secret.dlog] /\ secret.dlog \in Scalar
  BY <1>6 DEF Point
<1>13. secret = scalar_multi(key, k)
  BY <1>11, <1>12, ModOfScalar DEF Same, scalar_multi
<1>14. E = EcdhShares(S, sh, S, k)
  BY DEF E, Image, g, EcdhShares
<1> QED
  BY <1>13, <1>14 DEF secret

-----------------------------------------------------------------------------
(* One for each index: what a member signs with and what it gives.         *)
SignedBy(ctx, S, parts, sn, sigs) ==
  /\ \A i \in S : sigs[i].psig = sign_msg(ctx, parts[i], sn[i]).psig
  /\ OneToOne(sigs, S)

(* Shares that interpolate to the secret of a key sign for that key,       *)
(* whatever the tweaks, nonces and hashes are (sign_msg,                   *)
(* combine_partial_sigs, verify_final_sig).                                *)
LEMMA SignaturesCombine ==
  ASSUME SigningHashesAreNumbers, NEW S, NEW pnonces, NEW n, NEW sn,
         NoncesFit(pnonces, n, S, sn), NEW pubkey \in Point, NEW message, NEW tweaks \in Seq(Int),
         NEW ctx, ctx = get_group_signing_ctx(pubkey, pnonces, message, tweaks), CtxOk(ctx),
         NEW parts, NEW sigs, SignedBy(ctx, S, parts, sn, sigs),
         Opens(S, parts, pubkey)
  PROVE  verify_final_sig(ctx, message, combine_partial_sigs(ctx, Image(sigs, S)))
<1> DEFINE a == ctx.challenge * ctx.parity * ctx.state
           sign == NonceParity(ctx)
           sk == SecretKeys(S, parts)
           w == Weighed(S, 0, sk)
           u == BoundNonces(S, sn, ctx.bind_factors)
           v == [i \in S |-> sigs[i].psig]
           t == [i \in S |-> Mix(a, w[i], sign, u[i])]
           E == Image(sigs, S)
           key == pubkey.dlog
           g == ctx.group_pn.dlog
<1>1. /\ Tweaked(ctx, key) /\ ctx.message = message /\ ToSet(ctx.indexes) = S
      /\ \A i \in S : CtxTyped(ctx, i)
      /\ Numbers(S, u) /\ Same(g, SumOver(S, u))
  BY ContextFits DEF Opens
<1>2. IndexSet(S) /\ IsFiniteSet(S) /\ Numbers(S, sk) /\ Same(Moment(S, 0, sk), key)
  BY OpensTyped
<1>3. /\ Numbers(S, w) /\ Moment(S, 0, sk) = SumOver(S, w)
      /\ \A i \in S : w[i] = Weight(S, 0)[i] * sk[i]
  <2> DEFINE x == 0
  <2>1. x \in Int
    OBVIOUS
  <2> HIDE DEF x, sk
  <2>2. Numbers(S, Weighed(S, x, sk)) /\ \A i \in S : Weighed(S, x, sk)[i] = Weight(S, x)[i] * sk[i]
    BY <1>2, <2>1, MomentTyped
  <2> QED
    BY <2>2 DEF x, Moment
<1>4. a \in Int /\ sign \in Int
  <2>1. \A i \in S : ctx.challenge \in Int /\ ctx.parity \in Int /\ ctx.state \in Int
    BY <1>1 DEF CtxTyped
  <2>2. ctx.challenge \in Int /\ ctx.parity \in Int /\ ctx.state \in Int
    BY <1>1, IndexNumbers, ParityIsScalar DEF Tweaked
  <2>3. \A b, c, d \in Int : b * c * d \in Int
    <3>1. \A b, c \in Int : b * c \in Int
      OBVIOUS
    <3> QED
      BY <3>1
  <2> QED
    BY <2>2, <2>3, IndexNumbers, ParityIsScalar DEF NonceParity
<1>5. ASSUME NEW i \in S PROVE Same(v[i], t[i]) /\ v[i] \in Int
  <2>1. /\ parts[i].idx = i /\ parts[i].seckey \in Int /\ CtxTyped(ctx, parts[i].idx)
        /\ sn[i].hidden_sn \in Int /\ sn[i].binder_sn \in Int
    BY <1>1 DEF Opens, NoncesFit
  <2>2. /\ v[i] = sign_msg(ctx, parts[i], sn[i]).psig
        /\ u[i] = sn[i].hidden_sn + sn[i].binder_sn * ctx.bind_factors[i]
        /\ w[i] = interpolate_x(S, i) * parts[i].seckey
    <3>1. interpolate_x(S, i) = Weight(S, 0)[i]
      BY <1>2, RootWeight
    <3>2. sk[i] = parts[i].seckey
      BY DEF SecretKeys
    <3>3. v[i] = sign_msg(ctx, parts[i], sn[i]).psig
      BY DEF SignedBy
    <3>4. u[i] = sn[i].hidden_sn + sn[i].binder_sn * ctx.bind_factors[i]
      BY DEF BoundNonces
    <3> HIDE DEF u, v, w, sk
    <3> QED
      BY <1>3, <3>1, <3>2, <3>3, <3>4
  <2>3. Same(sign_msg(ctx, parts[i], sn[i]).psig,
             Mix(a, interpolate_x(S, i) * parts[i].seckey, sign,
                 sn[i].hidden_sn + sn[i].binder_sn * ctx.bind_factors[i]))
    BY <1>1, <2>1, SignatureTerm
  <2> HIDE DEF v, w, u, a, sign
  <2>4. t[i] = Mix(a, w[i], sign, u[i])
    OBVIOUS
  <2> HIDE DEF t
  <2> QED
    BY <2>2, <2>3, <2>4 DEF Same
<1>6. OneToOne(sigs, S) /\ E = Image(sigs, S) /\ \A i \in S : v[i] = sigs[i].psig
  BY DEF SignedBy
<1> HIDE DEF a, sign, sk, w, u, v, key, g
<1>7. Numbers(S, t) /\ SumOver(S, t) = Mix(a, SumOver(S, w), sign, SumOver(S, u))
  <2>1. Combines(t, S, a, w, sign, u)
    BY DEF Combines
  <2> HIDE DEF t
  <2> QED
    BY <1>1, <1>3, <1>4, <2>1, SumLinear
<1> HIDE DEF t
<1>8. Same(SumOver(S, v), SumOver(S, t))
  BY <1>2, <1>5, SumSame
<1>9. IsFiniteSet(E) /\ \A p \in E : p.psig \in Int
  BY <1>2, <1>5, <1>6, ImageFinite DEF Image
<1>10. SigTotal(E) = SumOver(E, Psigs(E))
  <2> HIDE DEF E
  <2> QED
    BY <1>9, SigsAddUp
<1>11. SumOver(S, v) = SumOver(E, Psigs(E))
  <2> DEFINE d == Psigs(E)
  <2>1. \A i \in S : v[i] = d[sigs[i]] /\ v[i] \in Int
    BY <1>5, <1>6 DEF Psigs, Image
  <2> HIDE DEF d
  <2>2. SumOver(S, v) = SumOver(Image(sigs, S), d)
    BY <1>2, <1>6, <2>1, SumReindex
  <2> QED
    BY <2>2 DEF d
<1>12. Same(Mix(a, SumOver(S, w), sign, SumOver(S, u)), Mix(a, key, sign, g))
  <2>1. Same(SumOver(S, w), key) /\ Same(SumOver(S, u), g)
    BY <1>1, <1>2, <1>3, SameChain
  <2>2. Same(a * SumOver(S, w), a * key) /\ Same(sign * SumOver(S, u), sign * g)
    BY <1>4, <2>1, SameMod, SameProduct
  <2> QED
    BY <2>2, SameSum DEF Mix
<1>13. Same(SigTotal(E), Mix(a, key, sign, g))
  BY <1>7, <1>8, <1>10, <1>11, <1>12, SameChain
<1> HIDE DEF E
<1>14. verify_final_sig(ctx, ctx.message, combine_partial_sigs(ctx, E))
  BY <1>1, <1>13, FinalSignature DEF a, sign, g
<1> QED
  BY <1>1, <1>14 DEF E
=============================================================================
