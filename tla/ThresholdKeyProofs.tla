-------------------------- MODULE ThresholdKeyProofs --------------------------
(***************************************************************************)
(* Theorems about the life of a threshold key.                             *)
(***************************************************************************)
EXTENDS ThresholdKeyProperties, InterpolationProofs

(* A product may be reduced in a sum after one of its factors is.          *)
LEMMA ModOfTerm ==
  ASSUME NEW a \in Int, NEW b \in Int, NEW c \in Int
  PROVE  mod_n(a + b * mod_n(c)) = mod_n(a + b * c)
<1>1. mod_n(c) \in Int
  BY ModIsScalar, OrderAssumption DEF Scalar
<1>2. b * mod_n(c) \in Int /\ b * c \in Int
  BY <1>1
<1>3. mod_n(a + mod_n(b * mod_n(c))) = mod_n(a + b * mod_n(c))
  BY <1>2, ModOfSum
<1>4. mod_n(a + mod_n(b * c)) = mod_n(a + b * c)
  BY <1>2, ModOfSum
<1> QED
  BY <1>3, <1>4, ModOfProduct

(* One term of the sum of powers, d to d1 and the power w to w1, and one   *)
(* step of Horner's rule, from g to g0, at one coefficient c.              *)
HornerStep(c, x, d, w, g, d1, w1, g0) ==
  /\ c \in Int /\ x \in Int /\ d \in Int /\ w \in Int /\ g \in Int
  /\ d1 = mod_n(d + mod_n(c * w)) /\ w1 = mod_n(w * x) /\ g0 = mod_n(g * x + c)

SameValue(d, w, g0, d1, w1, g) == mod_n(d1 + w1 * g) = mod_n(d + w * g0)

(* They leave the value of the two together as it is.                      *)
LEMMA HornerEquation ==
  ASSUME NEW c, NEW x, NEW d, NEW w, NEW g, NEW d1, NEW w1, NEW g0,
         HornerStep(c, x, d, w, g, d1, w1, g0)
  PROVE  SameValue(d, w, g0, d1, w1, g)
<1>0. c \in Int /\ x \in Int /\ d \in Int /\ w \in Int /\ g \in Int
  BY DEF HornerStep
<1>1. \A a \in Int : mod_n(a) \in Int
  BY ModIsScalar, OrderAssumption DEF Scalar
<1>2. c * w \in Int /\ w * x \in Int /\ g * x \in Int /\ g * x + c \in Int
  BY <1>0
<1>3. mod_n(d + w * mod_n(g * x + c)) = mod_n(d + w * (g * x + c))
  BY <1>0, <1>2, ModOfTerm
<1> DEFINE v == w * x
           u == c * w
           f == d + mod_n(u)
<1>4. v \in Int /\ u \in Int
  BY <1>2
<1>5. d + w * (g * x + c) = d + g * v + u
  BY <1>0
<1> HIDE DEF u, v
<1>6. f \in Int /\ g * v \in Int /\ g * mod_n(v) \in Int /\ mod_n(v) * g = g * mod_n(v)
  <2>1. mod_n(v) \in Int /\ mod_n(u) \in Int
    BY <1>1, <1>4
  <2> QED
    BY <1>0, <1>4, <2>1
<1>7. mod_n(mod_n(f) + mod_n(v) * g) = mod_n(f + g * mod_n(v))
  <2> HIDE DEF f
  <2>1. mod_n(g * mod_n(v) + mod_n(f)) = mod_n(g * mod_n(v) + f)
    BY <1>6, ModOfSum
  <2>2. mod_n(f) \in Int
    BY <1>1, <1>6
  <2>3. g * mod_n(v) + mod_n(f) = mod_n(f) + mod_n(v) * g /\ g * mod_n(v) + f = f + g * mod_n(v)
    BY <1>6, <2>2
  <2> QED
    BY <2>1, <2>3
<1>8. mod_n(f + g * mod_n(v)) = mod_n(f + g * v)
  <2> HIDE DEF f
  <2> QED
    BY <1>0, <1>4, <1>6, ModOfTerm
<1>9. mod_n(f + g * v) = mod_n(d + g * v + u)
  <2>1. f + g * v = (d + g * v) + mod_n(u)
    BY <1>0, <1>1, <1>4, <1>6
  <2>2. mod_n((d + g * v) + mod_n(u)) = mod_n((d + g * v) + u)
    BY <1>0, <1>4, <1>6, ModOfSum
  <2> QED
    BY <2>1, <2>2
<1>10. mod_n(mod_n(f) + mod_n(v) * g) = mod_n(d + w * mod_n(g * x + c))
  BY <1>3, <1>5, <1>7, <1>8, <1>9
<1> QED
  BY <1>10 DEF f, u, v, HornerStep, SameValue

(* Commitments to a polynomial, summed with the powers of an index, are    *)
(* the point of the polynomial's value there (CommitsAt, evaluate_x): the  *)
(* sum of powers so far and what Horner's rule has left always add up to   *)
(* the value.                                                              *)
LEMMA CommitsAreValue ==
  ASSUME NEW n \in Nat \ {0}, NEW poly \in [1..n -> Scalar], NEW x \in Int
  PROVE  /\ evaluate_x(poly, x) \in Scalar
         /\ CommitsAt(get_share_commits(poly), x, n) = scalar_base_multi(evaluate_x(poly, x))
<1> DEFINE elems == [j \in 1..n |-> scalar_multi(get_share_commits(poly)[j], pow_n(x, j - 1))]
<1>1. Scalar \subseteq Int /\ Q \in Int
  BY OrderAssumption DEF Scalar
<1>2. \A k \in 1..n : poly[k] \in Int /\ pow_n(x, k - 1) \in Int /\ pow_n(x, k) \in Int
                    /\ pow_n(x, k) = mod_n(pow_n(x, k - 1) * x)
  <2>1. ASSUME NEW k \in 1..n
        PROVE  pow_n(x, k - 1) \in Int /\ pow_n(x, k) \in Int /\ pow_n(x, k) = mod_n(pow_n(x, k - 1) * x)
    <3>1. k - 1 \in Nat /\ k \in Nat /\ k = (k - 1) + 1
      OBVIOUS
    <3>2. pow_n(x, (k - 1) + 1) = mod_n(pow_n(x, k - 1) * x)
      BY <3>1, PowerStep
    <3> QED
      BY <3>1, <3>2, PowerStep
  <2> QED
    BY <1>1, <2>1
<1>3. \A k \in 1..n : elems[k].dlog = mod_n(poly[k] * pow_n(x, k - 1)) /\ elems[k].dlog \in Scalar
  <2>1. ASSUME NEW k \in 1..n PROVE elems[k].dlog = mod_n(poly[k] * pow_n(x, k - 1))
    BY DEF get_share_commits, scalar_multi, scalar_base_multi
  <2>2. ASSUME NEW k \in 1..n PROVE mod_n(poly[k] * pow_n(x, k - 1)) \in Scalar
    <3>1. poly[k] * pow_n(x, k - 1) \in Int
      BY <1>2
    <3> QED
      BY <3>1, ModIsScalar
  <2> QED
    BY <2>1, <2>2
<1>4. PICK h \in [1..(n + 1) -> Scalar] :
        /\ h[n + 1] = 0 /\ evaluate_x(poly, x) = h[1]
        /\ \A k \in 1..n : h[k] = mod_n(h[k + 1] * x + poly[k])
  <2>1. n \in Nat /\ DOMAIN poly = 1..n /\ \A k \in 1..n : poly[k] \in Int
    BY <1>2
  <2>2. PICK h : IsHorner(h, n, poly, x)
    BY <2>1, HornerSteps
  <2> QED
    BY <2>2 DEF IsHorner
<1>5. CommitsAt(get_share_commits(poly), x, n) = element_add_many(elems)
  BY DEF CommitsAt
<1>6. PICK p \in [0..n -> Point] :
        /\ p[0] = identity /\ element_add_many(elems) = p[n]
        /\ \A k \in 1..n : p[k] = element_add(p[k - 1], elems[k])
  <2>1. DOMAIN elems = 1..n /\ \A k \in 1..n : elems[k].dlog \in Int
    BY <1>1, <1>3
  <2> HIDE DEF elems
  <2>2. PICK p : IsPointSum(p, n, elems)
    BY <2>1, PointSteps
  <2> QED
    BY <2>2 DEF IsPointSum
<1>7. \A k \in 0..n : p[k].dlog \in Scalar /\ p[k].dlog \in Int
  BY <1>1 DEF Point
<1>8. \A k \in 1..(n + 1) : h[k] \in Int
  BY <1>1
<1> HIDE DEF elems
<1> DEFINE Left(k) == mod_n(p[k].dlog + pow_n(x, k) * h[k + 1])
           A == {k \in Nat : k \in 0..n => Left(k) = h[1]}
<1>9. 0 \in A
  <2>1. p[0].dlog = 0 /\ pow_n(x, 0) = 1 /\ h[1] \in Scalar /\ h[1] \in Int
    BY <1>6, <1>8, PowerStep DEF identity
  <2>2. p[0].dlog + pow_n(x, 0) * h[0 + 1] = h[1]
    BY <2>1
  <2>3. mod_n(h[1]) = h[1]
    BY <2>1, ModOfScalar
  <2> QED
    BY <2>2, <2>3
<1>10. ASSUME NEW k \in 1..n PROVE Left(k) = Left(k - 1)
  <2> DEFINE c == poly[k]
             w == pow_n(x, k - 1)
             d == p[k - 1].dlog
             g == h[k + 1]
  <2>1. c \in Int /\ w \in Int /\ d \in Int /\ g \in Int /\ pow_n(x, k) = mod_n(w * x)
    <3>1. k - 1 \in 0..n /\ k + 1 \in 1..(n + 1)
      OBVIOUS
    <3>2. d \in Int /\ g \in Int
      BY <1>7, <1>8, <3>1
    <3> QED
      BY <1>2, <3>2
  <2>2. p[k].dlog = mod_n(d + mod_n(c * w))
    <3>1. p[k] = element_add(p[k - 1], elems[k])
      BY <1>6
    <3> QED
      BY <1>3, <3>1 DEF element_add
  <2>3. h[k] = mod_n(g * x + c)
    BY <1>4
  <2>4. Left(k) = mod_n(p[k].dlog + pow_n(x, k) * g)
    OBVIOUS
  <2>5. Left(k - 1) = mod_n(d + w * h[k])
    OBVIOUS
  <2> HIDE DEF c, w, d, g, Left
  <2>6. HornerStep(c, x, d, w, g, p[k].dlog, pow_n(x, k), h[k])
    BY <2>1, <2>2, <2>3 DEF HornerStep
  <2>7. SameValue(d, w, h[k], p[k].dlog, pow_n(x, k), g)
    BY <2>6, HornerEquation
  <2> QED
    BY <2>4, <2>5, <2>7 DEF SameValue
<1>11. ASSUME NEW k \in A PROVE k + 1 \in A
  <2>1. CASE k + 1 \in 1..n
    <3>1. k \in 0..n /\ (k + 1) - 1 = k
      BY <2>1
    <3>2. Left(k + 1) = Left(k)
      <4> DEFINE j == k + 1
      <4>1. Left(j) = Left(j - 1)
        <5> HIDE DEF j, Left
        <5> QED
          BY <1>10, <2>1 DEF j
      <4> QED
        BY <3>1, <4>1
    <3> HIDE DEF Left
    <3> QED
      BY <3>1, <3>2
  <2>2. CASE k + 1 \notin 1..n
    BY <2>2
  <2> QED
    BY <2>1, <2>2
<1>12. n \in A
  <2> HIDE DEF A
  <2>1. A \in SUBSET Nat
    BY DEF A
  <2> QED
    BY <1>9, <1>11, <2>1, SetInduction
<1>13. Left(n) = p[n].dlog
  <2>1. p[n].dlog \in Scalar /\ p[n].dlog \in Int /\ pow_n(x, n) \in Int /\ h[n + 1] = 0
    BY <1>2, <1>4, <1>7
  <2>2. p[n].dlog + pow_n(x, n) * h[n + 1] = p[n].dlog
    BY <2>1
  <2>3. mod_n(p[n].dlog) = p[n].dlog
    BY <2>1, ModOfScalar
  <2> QED
    BY <2>2, <2>3
<1>14. p[n].dlog = h[1]
  <2> HIDE DEF Left
  <2> QED
    BY <1>12, <1>13
<1>15. p[n] = [dlog |-> h[1]]
  BY <1>14 DEF Point
<1> QED
  BY <1>4, <1>5, <1>6, <1>15 DEF scalar_base_multi

-----------------------------------------------------------------------------
(* Sequences are flattened one after the other (FlattenSeq).               *)
IsFlat(p, n, U, seqs) ==
  /\ p \in [0..n -> Seq(U)] /\ p[0] = <<>> /\ FlattenSeq(seqs) = p[n]
  /\ \A k \in 1..n : p[k] = p[k - 1] \o seqs[k]

(* Sequences are flattened one after the other.                            *)
LEMMA FlattenSteps ==
  ASSUME NEW U, NEW n \in Nat, NEW seqs \in [1..n -> Seq(U)]
  PROVE  \E p : IsFlat(p, n, U, seqs)
<1> DEFINE step == [k \in Nat |-> [a \in Seq(U) |-> IF k + 1 \in 1..n THEN a \o seqs[k + 1] ELSE a]]
           f == CHOOSE f : f = [i \in 1..n |-> IF i = 1 THEN seqs[i] ELSE f[i - 1] \o seqs[i]]
<1>1. Len(seqs) = n
  <2>1. seqs \in Seq(Seq(U))
    OBVIOUS
  <2> QED
    BY <2>1
<1>2. step \in [Nat -> [Seq(U) -> Seq(U)]] /\ <<>> \in Seq(U)
  <2>1. ASSUME NEW k \in Nat, NEW a \in Seq(U), k + 1 \in 1..n PROVE a \o seqs[k + 1] \in Seq(U)
    <3>1. seqs[k + 1] \in Seq(U)
      BY <2>1
    <3> QED
      BY <3>1
  <2> QED
    BY <2>1
<1>3. PICK r \in [Nat -> Seq(U)] : Recurs(r, <<>>, step)
  <2> DEFINE base == <<>>
             V == Seq(U)
  <2>1. base \in V /\ step \in [Nat -> [V -> V]]
    BY <1>2
  <2> HIDE DEF base, V, step
  <2>2. \E r \in [Nat -> V] : Recurs(r, base, step)
    BY <2>1, NatRecursion
  <2> QED
    BY <2>2 DEF base, V
<1>4. ASSUME NEW i \in 1..n PROVE r[i] = r[i - 1] \o seqs[i]
  <2>1. i - 1 \in Nat /\ (i - 1) + 1 = i
    OBVIOUS
  <2>2. r[(i - 1) + 1] = step[i - 1][r[i - 1]]
    BY <1>3, <2>1 DEF Recurs
  <2>3. step[i - 1] = [a \in Seq(U) |-> a \o seqs[i]]
    BY <2>1
  <2>4. r[i - 1] \in Seq(U)
    BY <2>1
  <2> HIDE DEF step
  <2> QED
    BY <2>1, <2>2, <2>3, <2>4
<1> HIDE DEF step
<1>5. r[0] = <<>>
  BY <1>3 DEF Recurs
<1>6. ASSUME NEW i \in 1..n PROVE r[i] = IF i = 1 THEN seqs[i] ELSE r[i - 1] \o seqs[i]
  <2>1. i = 1 => r[i - 1] = <<>> /\ seqs[i] \in Seq(U)
    BY <1>5
  <2>2. \A a \in Seq(U) : <<>> \o a = a
    OBVIOUS
  <2> QED
    BY <1>4, <2>1, <2>2
<1> DEFINE q == [i \in 1..n |-> r[i]]
<1>7. ASSUME NEW i \in 1..n PROVE q[i] = IF i = 1 THEN seqs[i] ELSE q[i - 1] \o seqs[i]
  <2>1. i # 1 => i - 1 \in 1..n
    OBVIOUS
  <2> QED
    BY <1>6, <2>1
<1>8. q = [i \in 1..n |-> IF i = 1 THEN seqs[i] ELSE q[i - 1] \o seqs[i]]
  <2> DEFINE Body(i) == IF i = 1 THEN seqs[i] ELSE q[i - 1] \o seqs[i]
  <2>1. \A i \in 1..n : r[i] = Body(i)
    BY <1>7
  <2> HIDE DEF Body
  <2>2. q = [i \in 1..n |-> Body(i)]
    BY <2>1
  <2> QED
    BY <2>2 DEF Body
<1>9. f = [i \in 1..n |-> IF i = 1 THEN seqs[i] ELSE f[i - 1] \o seqs[i]]
  <2>1. \E g : g = [i \in 1..n |-> IF i = 1 THEN seqs[i] ELSE g[i - 1] \o seqs[i]]
    BY <1>8, Zenon
  <2> QED
    BY <2>1, Zenon
<1> HIDE DEF f, q
<1> DEFINE A == {i \in Nat : i \in 1..n => f[i] = r[i]}
<1>10. 0 \in A
  OBVIOUS
<1>11. ASSUME NEW i \in A PROVE i + 1 \in A
  <2>1. CASE i + 1 \in 1..n
    <3>1. (i + 1) - 1 = i /\ (i + 1 # 1 => i \in 1..n)
      BY <2>1
    <3>2. f[i + 1] = IF i + 1 = 1 THEN seqs[i + 1] ELSE f[i] \o seqs[i + 1]
      BY <1>9, <2>1, <3>1
    <3>3. r[i + 1] = IF i + 1 = 1 THEN seqs[i + 1] ELSE r[i] \o seqs[i + 1]
      BY <1>6, <2>1, <3>1
    <3>4. f[i + 1] = r[i + 1]
      BY <3>1, <3>2, <3>3
    <3> QED
      BY <3>4
  <2>2. CASE i + 1 \notin 1..n
    BY <2>2
  <2> QED
    BY <2>1, <2>2
<1>12. n \in A
  <2>1. A \in SUBSET Nat
    OBVIOUS
  <2> HIDE DEF A
  <2> QED
    BY <1>10, <1>11, <2>1, SetInduction
<1>13. FlattenSeq(seqs) = r[n]
  <2>1. CASE n = 0
    <3>1. seqs = <<>>
      BY <2>1
    <3>2. FlattenSeq(seqs) = seqs
      BY <1>1, <2>1 DEF FlattenSeq
    <3> QED
      BY <1>5, <2>1, <3>1, <3>2
  <2>2. CASE n # 0
    <3>1. FlattenSeq(seqs) = f[n]
      BY <1>1, <2>2 DEF FlattenSeq, f
    <3> QED
      BY <1>12, <2>2, <3>1
  <2> QED
    BY <2>1, <2>2
<1> DEFINE p == [k \in 0..n |-> r[k]]
<1>14. p \in [0..n -> Seq(U)] /\ p[0] = <<>> /\ p[n] = r[n] /\ \A k \in 1..n : p[k] = p[k - 1] \o seqs[k]
  <2>1. \A k \in 1..n : k \in 0..n /\ k - 1 \in 0..n
    OBVIOUS
  <2>2. \A k \in 1..n : p[k] = r[k] /\ p[k - 1] = r[k - 1]
    BY <2>1
  <2>3. \A k \in 1..n : p[k] = p[k - 1] \o seqs[k]
    BY <1>4, <2>2
  <2>4. p \in [0..n -> Seq(U)] /\ p[0] = <<>> /\ p[n] = r[n]
    BY <1>5
  <2> HIDE DEF p
  <2> QED
    BY <2>3, <2>4
<1>15. IsFlat(p, n, U, seqs)
  BY <1>13, <1>14 DEF IsFlat
<1> QED
  BY <1>15

(* A flattened list of sequences is a sequence.                            *)
LEMMA FlattenTyped ==
  ASSUME NEW U, NEW n \in Nat, NEW seqs \in [1..n -> Seq(U)]
  PROVE  FlattenSeq(seqs) \in Seq(U)
<1>1. PICK p : IsFlat(p, n, U, seqs)
  BY FlattenSteps
<1> QED
  BY <1>1 DEF IsFlat

-----------------------------------------------------------------------------
(* What commitments tell of a share.                                       *)

(* A scalar is the negative of its negative.                               *)
LEMMA NegativeTwice == \A a \in Scalar : scalar_neg(a) \in Scalar /\ scalar_neg(scalar_neg(a)) = a
<1> SUFFICES ASSUME NEW a \in Scalar
             PROVE  scalar_neg(a) \in Scalar /\ scalar_neg(scalar_neg(a)) = a
  OBVIOUS
<1>1. Q \in Nat /\ Q > 2 /\ a \in Int /\ Q - a \in Int /\ a >= 0 /\ a < Q
  BY OrderAssumption DEF Scalar
<1>2. scalar_neg(a) = mod_n(Q - a) /\ scalar_neg(scalar_neg(a)) = mod_n(Q - mod_n(Q - a))
  BY DEF scalar_neg, mod_n
<1>3. CASE a = 0
  <2>1. mod_n(Q - a) = 0
    BY <1>1, <1>3 DEF mod_n
  <2>2. mod_n(Q - 0) = 0
    BY <1>1 DEF mod_n
  <2> QED
    BY <1>1, <1>2, <1>3, <2>1, <2>2
<1>4. CASE a # 0
  <2>1. Q - a \in Scalar
    BY <1>1, <1>4 DEF Scalar
  <2>2. mod_n(Q - a) = Q - a
    BY <2>1, ModOfScalar
  <2>3. Q - (Q - a) = a
    BY <1>1
  <2> QED
    BY <1>2, <2>1, <2>2, <2>3, ModOfScalar
<1> QED
  BY <1>3, <1>4

(* A share verifies if it is the polynomial's value at its index or the    *)
(* negative of that, and not otherwise (verify_share).                     *)
LEMMA ShareVerifies ==
  ASSUME NEW poly \in [1..T -> Scalar], NEW i \in 1..N, NEW s \in Scalar
  PROVE  /\ evaluate_x(poly, i) \in Scalar
         /\ verify_share(get_share_commits(poly), [idx |-> i, seckey |-> s], T)
              <=> s = evaluate_x(poly, i) \/ s = scalar_neg(evaluate_x(poly, i))
<1> DEFINE v == evaluate_x(poly, i)
<1>1. T \in Nat \ {0} /\ i \in Int
  BY ThresholdAssumption, CountAssumption, OrderAssumption
<1>2. v \in Scalar /\ CommitsAt(get_share_commits(poly), i, T) = scalar_base_multi(v)
  BY <1>1, CommitsAreValue
<1>3. verify_share(get_share_commits(poly), [idx |-> i, seckey |-> s], T)
        <=> XOnly(scalar_base_multi(s)) = XOnly(scalar_base_multi(v))
  BY <1>2 DEF verify_share
<1> HIDE DEF v
<1>4. \A a : XOnly(scalar_base_multi(a)) = {[dlog |-> a], [dlog |-> scalar_neg(a)]}
  BY DEF XOnly, scalar_base_multi, negate_point
<1>5. \A a, b : [dlog |-> a] = [dlog |-> b] <=> a = b
  <2>1. \A a : [dlog |-> a].dlog = a
    OBVIOUS
  <2> QED
    BY <2>1
<1>6. XOnly(scalar_base_multi(s)) = XOnly(scalar_base_multi(v)) => s = v \/ s = scalar_neg(v)
  <2> HAVE XOnly(scalar_base_multi(s)) = XOnly(scalar_base_multi(v))
  <2>1. [dlog |-> s] \in XOnly(scalar_base_multi(v))
    BY <1>4
  <2>2. [dlog |-> s] = [dlog |-> v] \/ [dlog |-> s] = [dlog |-> scalar_neg(v)]
    BY <1>4, <2>1
  <2> QED
    BY <1>5, <2>2
<1>7. s = v \/ s = scalar_neg(v) => XOnly(scalar_base_multi(s)) = XOnly(scalar_base_multi(v))
  BY <1>2, <1>4, NegativeTwice
<1> QED
  BY <1>2, <1>3, <1>6, <1>7 DEF v

-----------------------------------------------------------------------------
(* Distributed key generation.                                             *)

Drawn == [1..T -> Scalar]

(* A participant's polynomial is what it drew (Round1).                    *)
CoeffsTyped == DOMAIN coeffs = Member /\ \A i \in Member : coeffs[i] = None \/ coeffs[i] \in Drawn

(* The packages of round 1 are one for each participant (dkg_round1).      *)
LEMMA RoundOnePackages ==
  /\ ToSet(AllCommits) = {dkg_round1(i, coeffs[i]) : i \in Member}
  /\ \A i \in Member : dkg_round1(i, coeffs[i]).idx = i
  BY DEF ToSet, AllCommits, dkg_round1

(* A damaged share fits the commitments of no sender, and dkg_finalize     *)
(* looks at the one it names (verify_dkg_share).                           *)
LEMMA DamageShows == CoeffsTyped => DamagedShareRefused
<1> SUFFICES ASSUME CoeffsTyped, AllDrawn, NEW i \in Member, NEW k \in Member,
                    NEW s \in Scalar \ {dkg_round2(k, coeffs[k], i).seckey,
                                        scalar_neg(dkg_round2(k, coeffs[k], i).seckey)},
                    FinalizeOk(<<[dkg_round2(k, coeffs[k], i) EXCEPT !.seckey = s]>>, AllCommits)
             PROVE  FALSE
  BY DEF DamagedShareRefused
<1> DEFINE pkg == [dkg_round2(k, coeffs[k], i) EXCEPT !.seckey = s]
<1>1. pkg.sender_idx = k /\ pkg.recipient_idx = i /\ pkg.seckey = s
      /\ dkg_round2(k, coeffs[k], i).seckey = evaluate_x(coeffs[k], i)
  BY DEF dkg_round2
<1>2. coeffs[k] \in [1..T -> Scalar] /\ i \in 1..N
  BY DEF CoeffsTyped, AllDrawn, Drawn, Member
<1> HIDE DEF pkg
<1>3. pkg \in ToSet(<<pkg>>)
  BY DEF ToSet
<1>4. PICK c \in ToSet(AllCommits) : c.idx = k /\ verify_dkg_share(pkg, c)
  BY <1>1, <1>3 DEF FinalizeOk, pkg
<1>5. c = dkg_round1(k, coeffs[k])
  BY <1>4, RoundOnePackages
<1>6. verify_share(get_share_commits(coeffs[k]), [idx |-> i, seckey |-> s], T)
  BY <1>1, <1>4, <1>5 DEF verify_dkg_share, dkg_round1
<1> QED
  BY <1>1, <1>2, <1>6, ShareVerifies

(* A proof of possession verifies for the index and the constant term it   *)
(* was made of (create_dkg_pop, verify_dkg_pop).                           *)
LEMMA PopVerifies ==
  ASSUME NEW idx \in 1..N, NEW a0 \in Scalar
  PROVE  verify_dkg_pop(idx, scalar_base_multi(a0), create_dkg_pop(idx, a0))
<1> DEFINE digest == mod_n(PopNonce(a0, idx))
           k == IF digest = 0 THEN 1 ELSE digest
           e == mod_n(PopHash(idx, scalar_base_multi(a0), scalar_base_multi(k)))
           pop == [r |-> scalar_base_multi(k), z |-> mod_n(k + e * a0)]
<1>1. create_dkg_pop(idx, a0) = pop
  BY DEF create_dkg_pop
<1>2. Scalar \subseteq Int /\ \A a \in Int : mod_n(a) \in Int
  BY OrderAssumption, ModIsScalar DEF Scalar
<1>3. k \in Int /\ e \in Int /\ a0 \in Int
  <2>1. digest \in Scalar
    BY PopHashAssumption, ModIsScalar
  <2>2. k \in Scalar
    <3>1. 1 \in Scalar
      BY OrderAssumption DEF Scalar
    <3> HIDE DEF digest
    <3> QED
      BY <2>1, <3>1
  <2>3. PopHash(idx, scalar_base_multi(a0), scalar_base_multi(k)) \in Int
    <3>1. scalar_base_multi(a0) \in Point /\ scalar_base_multi(k) \in Point
      BY <2>2 DEF scalar_base_multi, Point
    <3> QED
      BY <3>1, PopHashAssumption
  <2> QED
    BY <1>2, <2>2, <2>3
<1>4. pop.r = scalar_base_multi(k) /\ pop.z = mod_n(k + e * a0)
  OBVIOUS
<1>5. verify_dkg_pop(idx, scalar_base_multi(a0), pop)
        <=> scalar_base_multi(mod_n(k + e * a0))
              = element_add(scalar_base_multi(k), scalar_multi(scalar_base_multi(a0), e))
  <2> HIDE DEF k
  <2> QED
    BY <1>4 DEF verify_dkg_pop
<1> HIDE DEF k, e, pop
<1>6. e * a0 = a0 * e /\ a0 * e \in Int
  BY <1>3
<1>7. mod_n(k + mod_n(a0 * e)) = mod_n(k + e * a0)
  BY <1>3, <1>6, ModOfSum
<1>8. element_add(scalar_base_multi(k), scalar_multi(scalar_base_multi(a0), e))
        = scalar_base_multi(mod_n(k + e * a0))
  BY <1>7 DEF element_add, scalar_base_multi, scalar_multi
<1> QED
  BY <1>1, <1>5, <1>8

(* What reaches a participant are packages addressed to it (Received).     *)
LEMMA ReceivedTyped ==
  ASSUME NEW i \in Member, NEW times \in [Member -> Nat]
  PROVE  Received(i, times) \in Seq({dkg_round2(k, coeffs[k], i) : k \in Member})
<1> DEFINE U == {dkg_round2(k, coeffs[k], i) : k \in Member}
           P(k) == dkg_round2(k, coeffs[k], i)
           seqs == [k \in Member |-> [c \in 1..times[k] |-> P(k)]]
<1>1. \A k \in Member : P(k) \in U
  OBVIOUS
<1>2. Received(i, times) = FlattenSeq(seqs)
  BY DEF Received
<1> HIDE DEF P, U
<1>3. seqs \in [Member -> Seq(U)]
  <2>1. ASSUME NEW k \in Member PROVE [c \in 1..times[k] |-> P(k)] \in Seq(U)
    BY <1>1
  <2> QED
    BY <2>1
<1>4. Member = 1..N /\ N \in Nat
  BY CountAssumption, OrderAssumption DEF Member
<1> HIDE DEF seqs
<1>5. FlattenSeq(seqs) \in Seq(U)
  BY <1>3, <1>4, FlattenTyped
<1> QED
  BY <1>2, <1>5 DEF U

(* Each package of round 2 fits the commitments of its sender, and each    *)
(* proof of possession its author (verify_dkg_share, verify_dkg_pop).      *)
LEMMA HonestPackagesPass == CoeffsTyped => HonestRoundsFinalize
<1> SUFFICES ASSUME CoeffsTyped, AllDrawn, NEW i \in Member
             PROVE  FinalizeOk(Received(i, Others(i)), AllCommits)
  BY DEF HonestRoundsFinalize
<1>1. \A k \in Member : coeffs[k] \in [1..T -> Scalar]
  BY DEF CoeffsTyped, AllDrawn, Drawn
<1>2. ASSUME NEW c \in ToSet(AllCommits)
      PROVE  verify_dkg_pop(c.idx, Head(c.vss_commits), c.pop)
  <2>1. PICK k \in Member : c = dkg_round1(k, coeffs[k])
    BY RoundOnePackages
  <2>2. coeffs[k] \in [1..T -> Scalar] /\ T \in Nat /\ T >= 1
    BY <1>1, ThresholdAssumption, CountAssumption, OrderAssumption
  <2>3. Head(coeffs[k]) \in Scalar /\ Head(c.vss_commits) = scalar_base_multi(Head(coeffs[k]))
    BY <2>1, <2>2 DEF dkg_round1, get_share_commits
  <2>4. c.idx = k /\ c.pop = create_dkg_pop(k, Head(coeffs[k]))
    BY <2>1 DEF dkg_round1
  <2> QED
    BY <2>3, <2>4, PopVerifies DEF Member
<1>3. ASSUME NEW pkg \in ToSet(Received(i, Others(i)))
      PROVE  \E c \in ToSet(AllCommits) : c.idx = pkg.sender_idx /\ verify_dkg_share(pkg, c)
  <2>1. PICK k \in Member : pkg = dkg_round2(k, coeffs[k], i)
    <3>1. Others(i) \in [Member -> Nat]
      BY DEF Others
    <3>2. Received(i, Others(i)) \in Seq({dkg_round2(k, coeffs[k], i) : k \in Member})
      BY <3>1, ReceivedTyped
    <3> QED
      BY <3>2 DEF ToSet
  <2>2. dkg_round1(k, coeffs[k]) \in ToSet(AllCommits) /\ dkg_round1(k, coeffs[k]).idx = k
    BY RoundOnePackages
  <2>3. pkg.sender_idx = k /\ pkg.recipient_idx = i /\ pkg.seckey = evaluate_x(coeffs[k], i)
    BY <2>1 DEF dkg_round2
  <2>4. i \in 1..N /\ evaluate_x(coeffs[k], i) \in Scalar
    <3>1. T \in Nat \ {0} /\ i \in Int /\ i \in 1..N
      BY ThresholdAssumption, CountAssumption, OrderAssumption DEF Member
    <3> QED
      BY <1>1, <3>1, CommitsAreValue
  <2>5. verify_share(get_share_commits(coeffs[k]), [idx |-> i, seckey |-> evaluate_x(coeffs[k], i)], T)
    BY <1>1, <2>4, ShareVerifies
  <2>6. verify_dkg_share(pkg, dkg_round1(k, coeffs[k]))
    BY <2>3, <2>5 DEF verify_dkg_share, dkg_round1
  <2> QED
    BY <2>2, <2>3, <2>6
<1> QED
  BY <1>2, <1>3 DEF FinalizeOk

-----------------------------------------------------------------------------
(* Values of the library's functions.                                      *)

(* Scalars are numbers, and so are the threshold and the indices.          *)
LEMMA SmallNumbers ==
  /\ Scalar \subseteq Int /\ T \in Nat \ {0} /\ N \in Nat \ {0} /\ Q \in Nat /\ Q > 2 /\ 0 \in Scalar
  /\ Member = 1..N /\ Member \subseteq Nat /\ Member \subseteq 1..(Q - 1)
BY OrderAssumption, CountAssumption, ThresholdAssumption DEF Scalar, Member

(* Shares add up to a scalar (combine_shares).                             *)
LEMMA CombineTyped ==
  ASSUME NEW n \in Nat, NEW shares, DOMAIN shares = 1..n, \A k \in 1..n : shares[k].seckey \in Scalar
  PROVE  combine_shares(shares) \in Scalar
<1>1. \A k \in 1..n : shares[k].seckey \in Int
  BY SmallNumbers
<1>2. PICK r : IsShareSum(r, n, shares)
  BY <1>1, SumSteps
<1> QED
  BY <1>2 DEF IsShareSum

(* A share and others add up to a share at its index (combine_set).        *)
LEMMA CombineSetTyped ==
  ASSUME NEW i \in Member, NEW first \in [idx : {i}, seckey : Scalar],
         NEW n \in Nat, NEW X, NEW others \in [1..n -> X], \A k \in 1..n : others[k].seckey \in Scalar
  PROVE  combine_set(<<first>> \o others) \in [idx : {i}, seckey : Scalar]
<1> DEFINE all == <<first>> \o others
<1>1. Len(others) = n /\ others \in Seq(X)
  OBVIOUS
<1>2. /\ DOMAIN all = 1..(n + 1) /\ all[1] = first /\ Head(all) = first
      /\ \A k \in 2..(n + 1) : all[k] = others[k - 1]
  BY <1>1
<1>3. ASSUME NEW k \in 1..(n + 1) PROVE all[k].seckey \in Scalar
  <2>1. CASE k = 1
    BY <1>2, <2>1
  <2>2. CASE k # 1
    <3>1. k \in 2..(n + 1) /\ k - 1 \in 1..n
      BY <2>2
    <3> QED
      BY <1>2, <3>1
  <2> QED
    BY <2>1, <2>2
<1>4. n + 1 \in Nat
  OBVIOUS
<1> HIDE DEF all
<1>5. combine_shares(all) \in Scalar
  BY <1>2, <1>3, <1>4, CombineTyped
<1>6. combine_set(all) \in [idx : {i}, seckey : Scalar]
  BY <1>2, <1>5 DEF combine_set
<1> QED
  BY <1>6 DEF all

(* Commitments are points, and so is their value at an index               *)
(* (get_share_commits, eval_vss_pubkey).                                   *)
LEMMA CommitsTyped == \A poly \in [1..T -> Scalar] : get_share_commits(poly) \in [1..T -> Point]
  BY DEF get_share_commits, scalar_base_multi, Point

(* What commitments say of an index is a point (verify_share).             *)
LEMMA CommitsAtTyped ==
  ASSUME NEW n \in Nat, NEW commits \in [1..n -> Point], NEW x \in Int
  PROVE  CommitsAt(commits, x, n) \in Point
<1> DEFINE elems == [j \in 1..n |-> scalar_multi(commits[j], pow_n(x, j - 1))]
<1>1. ASSUME NEW j \in 1..n PROVE elems[j].dlog \in Int
  <2>1. commits[j].dlog \in Int /\ pow_n(x, j - 1) \in Int
    <3>1. j - 1 \in Nat
      OBVIOUS
    <3> QED
      BY <3>1, SmallNumbers, PowerStep DEF Point
  <2>2. commits[j].dlog * pow_n(x, j - 1) \in Int
    BY <2>1
  <2>3. mod_n(commits[j].dlog * pow_n(x, j - 1)) \in Int
    BY <2>2, ModIsScalar, SmallNumbers
  <2> QED
    BY <2>3 DEF scalar_multi
<1>2. DOMAIN elems = 1..n
  OBVIOUS
<1>3. CommitsAt(commits, x, n) = element_add_many(elems)
  BY DEF CommitsAt
<1> HIDE DEF elems
<1>4. PICK p : IsPointSum(p, n, elems)
  BY <1>1, <1>2, PointSteps
<1> QED
  BY <1>3, <1>4 DEF IsPointSum

(* A Lagrange coefficient of different indices is a scalar: no denominator *)
(* is zero (calc_lagrange_coeff).                                          *)
LEMMA LagrangeTyped ==
  ASSUME NEW l \in SUBSET Member, NEW p \in Member, NEW x \in Int
  PROVE  calc_lagrange_coeff(l, p, x) \in Scalar
<1> DEFINE S == l \ {p}
           num == [j \in S |-> x - j]
           den == [j \in S |-> p - j]
<1>1. IsFiniteSet(S)
  <2>1. IsFiniteSet(1..N)
    BY FS_Interval, SmallNumbers
  <2> QED
    BY <2>1, FS_Subset, SmallNumbers
<1>2. num \in [S -> Int] /\ den \in [S -> Int]
  BY SmallNumbers
<1>3. ASSUME NEW j \in S PROVE mod_n(den[j]) # 0
  <2>1. j \in 1..(Q - 1) /\ p \in 1..(Q - 1) /\ p # j
    BY SmallNumbers
  <2> QED
    BY <2>1, IndicesDiffer
<1>4. calc_lagrange_coeff(l, p, x) = mod_n(ProductOf(num) * scalar_invert(ProductOf(den)))
  BY DEF calc_lagrange_coeff
<1> HIDE DEF S, num, den
<1>5. ProductOf(num) \in Scalar /\ ProductOf(den) \in Scalar \ {0}
  BY <1>1, <1>2, <1>3, ProductIsScalar, ProductIsNotZero
<1>6. ProductOf(num) \in Int /\ scalar_invert(ProductOf(den)) \in Int
  BY <1>5, InverseExists, SmallNumbers
<1>7. ProductOf(num) * scalar_invert(ProductOf(den)) \in Int
  BY <1>6
<1> QED
  BY <1>4, <1>7, ModIsScalar

(* A helper's package has a scalar for each of the threshold's helpers     *)
(* (gen_recovery_shares).                                                  *)
LEMMA RecoverySharesTyped ==
  ASSUME NEW members \in SUBSET Member, NEW h \in Member, NEW part \in [idx : {h}, seckey : Scalar],
         NEW target \in Member, NEW rand \in [1..(T - 1) -> Scalar]
  PROVE  /\ gen_recovery_shares(members, part, target, rand).idx = h
         /\ \A n \in 1..T : gen_recovery_shares(members, part, target, rand).shares[n].seckey \in Scalar
<1> DEFINE coeff == calc_lagrange_coeff(members \ {part.idx}, part.idx, target)
           sum == SumOf(rand)
           repair == coeff * part.seckey - sum
           last == mod_n(repair)
           all == Append(rand, last)
           pkg == gen_recovery_shares(members, part, target, rand)
<1>1. pkg.idx = part.idx
      /\ pkg.shares = [i \in DOMAIN all |-> [idx |-> sorted_members(members)[i], seckey |-> all[i]]]
  BY DEF gen_recovery_shares, SumOf
<1>2. coeff \in Int
  <2>1. part.idx \in Member /\ target \in Int
    BY SmallNumbers
  <2>2. members \ {part.idx} \in SUBSET Member
    OBVIOUS
  <2> QED
    BY <2>1, <2>2, LagrangeTyped, SmallNumbers
<1>3. sum \in Int
  <2>0. T - 1 \in Nat /\ \A k \in 1..(T - 1) : rand[k] \in Scalar
    BY SmallNumbers
  <2>1. T - 1 \in Nat /\ DOMAIN rand = 1..(T - 1) /\ \A k \in 1..(T - 1) : rand[k] \in Int
    BY <2>0, SmallNumbers
  <2> DEFINE n == T - 1
  <2>2. n \in Nat /\ DOMAIN rand = 1..n /\ \A k \in 1..n : rand[k] \in Int
    BY <2>1
  <2> HIDE DEF n
  <2>3. PICK r : IsNumberSum(r, n, rand)
    BY <2>2, NumberSteps
  <2> QED
    BY <2>2, <2>3 DEF IsNumberSum
<1>4. repair \in Int
  <2> HIDE DEF coeff, sum
  <2>1. part.seckey \in Int
    BY SmallNumbers
  <2>2. coeff * part.seckey \in Int
    BY <1>2, <2>1
  <2> QED
    BY <1>3, <2>2
<1> HIDE DEF repair, pkg
<1>5. last \in Scalar
  BY <1>4, ModIsScalar
<1> HIDE DEF last
<1>6. DOMAIN all = 1..T /\ \A n \in 1..T : all[n] \in Scalar
  <2>1. T - 1 \in Nat /\ rand \in Seq(Scalar) /\ Len(rand) = T - 1
    BY SmallNumbers
  <2>2. all \in Seq(Scalar) /\ Len(all) = Len(rand) + 1
    BY <1>5, <2>1
  <2>3. Len(all) = T
    BY <2>1, <2>2, SmallNumbers
  <2> HIDE DEF all
  <2> QED
    BY <2>2, <2>3
<1> HIDE DEF all
<1> QED
  BY <1>1, <1>6 DEF pkg

(* The merged commitments of all participants are as many as the threshold *)
(* (dkg_finalize).                                                         *)
LEMMA MergedTyped ==
  ASSUME \A i \in Member : coeffs[i] \in [1..T -> Scalar]
  PROVE  MergedCommits(AllCommits) \in [1..T -> Point]
<1> DEFINE all == AllCommits
           U == {all[i] : i \in Member}
           first == Head(all).vss_commits
           rest == Tail(all)
<1>1. \A i \in Member : all[i].vss_commits \in [1..T -> Point]
  BY CommitsTyped DEF AllCommits, dkg_round1
<1>2. all \in [1..N -> U] /\ N \in Nat \ {0}
  BY SmallNumbers DEF AllCommits
<1>3. \A u \in U : u.vss_commits \in [1..T -> Point]
  BY <1>1
<1> HIDE DEF all, U
<1>4. Head(all) \in U /\ rest \in Seq(U) /\ Len(rest) = N - 1 /\ N - 1 \in Nat
  BY <1>2
<1>5. DOMAIN rest = 1..(N - 1) /\ \A k \in 1..(N - 1) : rest[k].vss_commits \in [1..T -> Point]
  BY <1>3, <1>4
<1>6. MergedCommits(all) = Merged(first, rest)
  BY DEF MergedCommits, Merged
<1>7. first \in [1..T -> Point]
  BY <1>3, <1>4
<1> HIDE DEF first, rest
<1>8. Merged(first, rest) \in [1..T -> Point]
  <2> DEFINE n == N - 1
  <2>1. n \in Nat /\ DOMAIN rest = 1..n /\ \A k \in 1..n : rest[k].vss_commits \in [1..T -> Point]
    BY <1>4, <1>5
  <2> HIDE DEF n
  <2>2. PICK r : IsMerge(r, n, T, first, rest)
    BY <1>7, <2>1, MergeSteps
  <2> QED
    BY <2>1, <2>2 DEF IsMerge
<1> QED
  BY <1>6, <1>8 DEF all

-----------------------------------------------------------------------------
(* Every step keeps the kinds of the variables.                            *)

ArrivedTyped ==
  DOMAIN arrived = Member /\ \A i \in Member : arrived[i] = None \/ arrived[i] \in [Member -> 0..2]

ShareTyped ==
  DOMAIN share = Member /\ \A i \in Member : share[i] = None \/ share[i] \in [idx : {i}, seckey : Scalar]

ZerosTyped ==
  DOMAIN zeros = Member /\ \A i \in Member : zeros[i] = None \/ zeros[i] \in [1..(T - 1) -> Scalar]

EpochTyped == DOMAIN epoch = Member /\ \A i \in Member : epoch[i] = None \/ epoch[i] \subseteq Member

KnownTyped(o) ==
  /\ o.vss_commits \in [1..T -> Point] /\ o.group.group_pk \in Point
  /\ o.group.members \in [Member -> MemberPackage]

OutputTyped == DOMAIN output = Member /\ \A i \in Member : output[i] = None \/ KnownTyped(output[i])

(* A recovery asks as many helpers as the threshold, and has a scalar for  *)
(* each of them from each that has answered.                               *)
GivenTyped(g) ==
  /\ g.pkg.idx \in rescue.helpers
  /\ g.epoch = None \/ g.epoch \subseteq Member
  /\ \A n \in 1..T : g.pkg.shares[n].seckey \in Scalar

RescueTyped ==
  /\ DOMAIN rescue = {"target", "helpers", "given"}
  /\ \/ rescue = NoRescue
     \/ /\ rescue.target \in Member /\ rescue.helpers \subseteq Member
        /\ IsFiniteSet(rescue.given) /\ \A g \in rescue.given : GivenTyped(g)

TypedInv ==
  /\ CoeffsTyped /\ ArrivedTyped /\ ShareTyped /\ ZerosTyped /\ EpochTyped
  /\ OutputTyped /\ RescueTyped

(* The invariant implies TypeOK.                                           *)
LEMMA TypedMeansTypeOK == TypedInv => TypeOK
<1> SUFFICES ASSUME TypedInv PROVE TypeOK
  OBVIOUS
<1>1. \A i \in Member :
        /\ coeffs[i] = None \/ coeffs[i] \in [1..T -> Scalar]
        /\ arrived[i] = None \/ arrived[i] \in [Member -> 0..2]
        /\ share[i] = None \/ share[i] \in [idx : {i}, seckey : Scalar]
        /\ zeros[i] = None \/ zeros[i] \in [1..(T - 1) -> Scalar]
        /\ epoch[i] = None \/ epoch[i] \subseteq Member
  BY DEF TypedInv, CoeffsTyped, Drawn, ArrivedTyped, ShareTyped, ZerosTyped, EpochTyped
<1>2. \A i \in Member : output[i] = None \/ KnownTyped(output[i])
  BY DEF TypedInv, OutputTyped
<1>3. /\ rescue.target \in Member \cup {None} /\ rescue.helpers \subseteq Member
      /\ \A g \in rescue.given : g.pkg.idx \in rescue.helpers
  BY DEF TypedInv, RescueTyped, NoRescue, GivenTyped
<1> QED
  BY <1>1, <1>2, <1>3 DEF TypeOK, KnownTyped

(* What a step leaves alone keeps its kind.                                *)
LEMMA UntouchedTyped ==
  /\ CoeffsTyped /\ UNCHANGED coeffs => CoeffsTyped'
  /\ ArrivedTyped /\ UNCHANGED arrived => ArrivedTyped'
  /\ ShareTyped /\ UNCHANGED share => ShareTyped'
  /\ ZerosTyped /\ UNCHANGED zeros => ZerosTyped'
  /\ EpochTyped /\ UNCHANGED epoch => EpochTyped'
  /\ OutputTyped /\ UNCHANGED output => OutputTyped'
  /\ RescueTyped /\ UNCHANGED rescue => RescueTyped'
BY DEF CoeffsTyped, ArrivedTyped, ShareTyped, ZerosTyped, EpochTyped, OutputTyped, KnownTyped,
       RescueTyped, GivenTyped

(* Nothing is there at first (Init).                                       *)
LEMMA InitTyped == Init => TypedInv
BY DEF Init, TypedInv, CoeffsTyped, ArrivedTyped, ShareTyped, ZerosTyped, EpochTyped, OutputTyped,
       RescueTyped, NoRescue

(* A dealt share is the value of the polynomial at its index, and a member *)
(* is listed with the point of its share (generate_dealer_package).        *)
LEMMA DealTyped == TypedInv /\ (\E poly \in DealerKeys : Deal(poly)) => TypedInv'
<1> SUFFICES ASSUME TypedInv, NEW poly \in DealerKeys, Deal(poly) PROVE TypedInv'
  OBVIOUS
<1> DEFINE pkg == generate_dealer_package(poly)
           o == [group |-> pkg.group, vss_commits |-> get_share_commits(poly)]
<1>1. poly \in [1..T -> Scalar] /\ T \in Nat \ {0}
  BY DrawAssumption, SmallNumbers
<1>2. \A i \in Member : evaluate_x(poly, i) \in Scalar
  <2>1. Member \subseteq Int
    BY SmallNumbers
  <2> QED
    BY <1>1, <2>1, CommitsAreValue
<1>3. ASSUME NEW i \in Member
      PROVE  pkg.shares[i].seckey \in Scalar /\ pkg.shares[i] \in [idx : {i}, seckey : Scalar]
  <2> DEFINE v == evaluate_x(poly, i)
  <2>1. pkg.shares[i] = [idx |-> i, seckey |-> v]
    BY DEF generate_dealer_package, create_shares, Member
  <2>2. v \in Scalar
    BY <1>2
  <2> HIDE DEF v, pkg
  <2>3. [idx |-> i, seckey |-> v] \in [idx : {i}, seckey : Scalar]
    BY <2>2
  <2>4. [idx |-> i, seckey |-> v].seckey = v
    OBVIOUS
  <2> QED
    BY <2>1, <2>2, <2>3, <2>4
<1>4. get_share_commits(poly) \in [1..T -> Point] /\ get_share_commits(poly)[1] \in Point
  BY <1>1, CommitsTyped
<1>5. pkg.group.group_pk = get_share_commits(poly)[1]
      /\ pkg.group.members = [i \in Member |-> [idx |-> i, pubkey |-> get_pubkey(pkg.shares[i].seckey)]]
  BY DEF generate_dealer_package, Member
<1> HIDE DEF pkg
<1>6. pkg.group.members \in [Member -> MemberPackage]
  <2>1. ASSUME NEW i \in Member
        PROVE  [idx |-> i, pubkey |-> get_pubkey(pkg.shares[i].seckey)] \in MemberPackage
    <3>1. pkg.shares[i].seckey \in Scalar
      BY <1>3
    <3> QED
      BY <3>1, SmallNumbers DEF MemberPackage, get_pubkey, scalar_base_multi, Point
  <2> QED
    BY <1>5, <2>1
<1>7. KnownTyped(o)
  BY <1>4, <1>5, <1>6 DEF KnownTyped
<1>8. output' = [i \in Member |-> o] /\ share' = [i \in Member |-> pkg.shares[i]]
      /\ UNCHANGED <<coeffs, arrived, zeros, epoch, rescue>>
  BY DEF Deal, pkg
<1>9. OutputTyped'
  <2> HIDE DEF o
  <2>1. DOMAIN output' = Member /\ \A i \in Member : output'[i] = o
    BY <1>8
  <2> QED
    BY <1>7, <2>1 DEF OutputTyped, KnownTyped
<1>10. ShareTyped'
  <2>1. DOMAIN share' = Member /\ \A i \in Member : share'[i] = pkg.shares[i]
    BY <1>8
  <2>2. \A i \in Member : share'[i] \in [idx : {i}, seckey : Scalar]
    BY <1>3, <2>1
  <2> QED
    BY <2>1, <2>2 DEF ShareTyped
<1> QED
  BY <1>8, <1>9, <1>10, UntouchedTyped DEF TypedInv

(* A participant draws as many coefficients as the threshold (Round1).     *)
LEMMA RoundOneTyped ==
  TypedInv /\ (\E i \in Member : \E poly \in Polynomials(i) : Round1(i, poly)) => TypedInv'
<1> SUFFICES ASSUME TypedInv, NEW i \in Member, NEW poly \in Polynomials(i), Round1(i, poly)
             PROVE  TypedInv'
  OBVIOUS
<1>1. CoeffsTyped'
  BY DrawAssumption DEF Round1, TypedInv, CoeffsTyped, Drawn, Member
<1> QED
  BY <1>1, UntouchedTyped DEF TypedInv, Round1

(* A share made by distributed key generation is the sum of the own and    *)
(* the received ones; the group lists points of the merged commitments     *)
(* (dkg_finalize).                                                         *)
LEMMA FinalizeTyped ==
  TypedInv /\ (\E i \in Member : \E times \in Arrivals(i) : Finalize(i, times)) => TypedInv'
<1> SUFFICES ASSUME TypedInv, NEW i \in Member, NEW times \in Arrivals(i), Finalize(i, times)
             PROVE  TypedInv'
  OBVIOUS
<1> DEFINE received == Received(i, times)
           n == Len(received)
           X == [idx : {i}, seckey : Scalar]
           own == [idx |-> i, seckey |-> evaluate_x(coeffs[i], i)]
           others == [k \in DOMAIN received |-> [idx |-> i, seckey |-> received[k].seckey]]
           vss == MergedCommits(AllCommits)
           heads == [k \in Member |-> Head(AllCommits[k].vss_commits)]
           out == dkg_finalize(i, coeffs[i], received, AllCommits)
           o == [group |-> out.group, vss_commits |-> out.vss_commits]
<1>1. times \in [Member -> 0..2] /\ times \in [Member -> Nat]
  <2>1. \A k \in Member : Others(i)[k] \in 0..2
    BY DEF Others
  <2>2. times \in [Member -> 0..2]
    BY <2>1 DEF Arrivals, Others
  <2> QED
    BY <2>2
<1>2. \A k \in Member : coeffs[k] \in [1..T -> Scalar]
  BY DEF Finalize, AllDrawn, TypedInv, CoeffsTyped, Drawn
<1>3. \A k \in Member : evaluate_x(coeffs[k], i) \in Scalar
  <2>1. i \in Int /\ T \in Nat \ {0}
    BY SmallNumbers
  <2> QED
    BY <1>2, <2>1, CommitsAreValue
<1>4. /\ out.share = combine_set(<<own>> \o others)
      /\ out.vss_commits = vss
      /\ out.group.group_pk = element_add_many(heads)
      /\ out.group.members = [k \in Member |-> [idx |-> k, pubkey |-> CommitsAt(vss, k, Len(vss))]]
  BY DEF dkg_finalize, dkg_round2, dkg_round1, sum_points, AllCommits, eval_vss_pubkey
<1>5. /\ output' = [output EXCEPT ![i] = o] /\ share' = [share EXCEPT ![i] = out.share]
      /\ arrived' = [arrived EXCEPT ![i] = times] /\ UNCHANGED <<coeffs, zeros, epoch, rescue>>
  BY DEF Finalize
<1> HIDE DEF out
<1>6. received \in Seq({dkg_round2(k, coeffs[k], i) : k \in Member})
  BY <1>1, ReceivedTyped
<1>7. n \in Nat /\ DOMAIN received = 1..n /\ \A k \in 1..n : received[k].seckey \in Scalar
  BY <1>3, <1>6 DEF dkg_round2
<1>8. own \in X
  BY <1>3
<1> HIDE DEF received, n, own
<1>9. others \in [1..n -> X] /\ \A k \in 1..n : others[k].seckey \in Scalar
  BY <1>7
<1> HIDE DEF others
<1>10. out.share \in X
  <2>1. combine_set(<<own>> \o others) \in X
    BY <1>7, <1>8, <1>9, CombineSetTyped
  <2> QED
    BY <1>4, <2>1
<1>11. vss \in [1..T -> Point] /\ Len(vss) = T
  <2>1. vss \in [1..T -> Point]
    BY <1>2, MergedTyped
  <2> HIDE DEF vss
  <2> QED
    BY <2>1, SmallNumbers
<1>12. out.group.group_pk \in Point
  <2>1. ASSUME NEW k \in Member PROVE heads[k].dlog \in Int
    <3>1. AllCommits[k].vss_commits \in [1..T -> Point]
      BY <1>2, CommitsTyped DEF AllCommits, dkg_round1
    <3>2. Head(AllCommits[k].vss_commits) \in Point
      BY <3>1, SmallNumbers
    <3> QED
      BY <3>2, SmallNumbers DEF Point
  <2>2. DOMAIN heads = 1..N /\ N \in Nat
    BY SmallNumbers
  <2> HIDE DEF heads
  <2>3. PICK p : IsPointSum(p, N, heads)
    BY <2>1, <2>2, SmallNumbers, PointSteps
  <2> QED
    BY <1>4, <2>2, <2>3 DEF IsPointSum
<1> HIDE DEF vss
<1>13. out.group.members \in [Member -> MemberPackage]
  <2>1. ASSUME NEW k \in Member PROVE [idx |-> k, pubkey |-> CommitsAt(vss, k, Len(vss))] \in MemberPackage
    <3>1. k \in Int /\ T \in Nat /\ k \in 1..N
      BY SmallNumbers
    <3>2. CommitsAt(vss, k, T) \in Point
      BY <1>11, <3>1, CommitsAtTyped
    <3> QED
      BY <1>11, <3>1, <3>2 DEF MemberPackage
  <2> QED
    BY <1>4, <2>1
<1>14. KnownTyped(o)
  BY <1>4, <1>11, <1>12, <1>13 DEF KnownTyped
<1> HIDE DEF o
<1>15. OutputTyped'
  <2>1. /\ DOMAIN output' = Member
        /\ \A k \in Member : output'[k] = IF k = i THEN o ELSE output[k]
    BY <1>5 DEF TypedInv, OutputTyped
  <2> QED
    BY <1>14, <2>1 DEF TypedInv, OutputTyped, KnownTyped
<1>16. ShareTyped' /\ ArrivedTyped'
  BY <1>1, <1>5, <1>10 DEF TypedInv, ShareTyped, ArrivedTyped
<1> QED
  BY <1>5, <1>15, <1>16, UntouchedTyped DEF TypedInv

(* To refresh, a member draws one coefficient less (DrawZeros).            *)
LEMMA ZerosDrawnTyped ==
  TypedInv /\ (\E i \in Member : \E sub \in RefreshDraws(i) : DrawZeros(i, sub)) => TypedInv'
<1> SUFFICES ASSUME TypedInv, NEW i \in Member, NEW sub \in RefreshDraws(i), DrawZeros(i, sub)
             PROVE  TypedInv'
  OBVIOUS
<1>1. ZerosTyped'
  BY DrawAssumption DEF DrawZeros, TypedInv, ZerosTyped, Member
<1> QED
  BY <1>1, UntouchedTyped DEF TypedInv, DrawZeros, setup

(* A refreshed share is the sum of a share and of scalars (refresh_share). *)
LEMMA RefreshTyped ==
  /\ TypedInv
  /\ \E i \in Member : \E senders \in SUBSET {k \in Member : zeros[k] # None} : Refresh(i, senders)
  => TypedInv'
<1> SUFFICES ASSUME TypedInv, NEW i \in Member,
                    NEW senders \in SUBSET {k \in Member : zeros[k] # None}, Refresh(i, senders)
             PROVE  TypedInv'
  OBVIOUS
<1> DEFINE made == [k \in senders |-> gen_refresh_shares(k, zeros[k], N)]
           S == {made[k] : k \in senders}
           n == Cardinality(S)
           pkgs == SetToSeq(S)
           X == {s.shares[i] : s \in S}
           others == [c \in DOMAIN pkgs |-> pkgs[c].shares[i]]
<1>1. /\ share[i] # None /\ epoch[i] # None
      /\ share' = [share EXCEPT ![i] = combine_set(<<share[i]>> \o others)]
      /\ epoch' = [epoch EXCEPT ![i] = epoch[i] \cup senders]
      /\ UNCHANGED <<coeffs, arrived, output, zeros, rescue>>
  <2>1. S = {gen_refresh_shares(k, zeros[k], N) : k \in senders}
    OBVIOUS
  <2> QED
    BY <2>1 DEF Refresh, refresh_share, setup
<1>2. IsFiniteSet(S)
  <2>1. IsFiniteSet(Member)
    BY FS_Interval, SmallNumbers
  <2>2. IsFiniteSet(senders)
    BY <2>1, FS_Subset
  <2>3. DOMAIN made = senders
    OBVIOUS
  <2> HIDE DEF made
  <2> QED
    BY <2>2, <2>3, ImageFinite DEF Image
<1>3. ASSUME NEW k \in senders PROVE made[k].shares[i].seckey \in Scalar
  <2> DEFINE p == <<0>> \o zeros[k]
  <2>1. zeros[k] \in [1..(T - 1) -> Scalar] /\ T - 1 \in Nat
    BY SmallNumbers DEF TypedInv, ZerosTyped
  <2>2. p \in [1..T -> Scalar]
    <3>1. zeros[k] \in Seq(Scalar) /\ Len(zeros[k]) = T - 1 /\ <<0>> \in Seq(Scalar) /\ Len(<<0>>) = 1
      BY <2>1, SmallNumbers
    <3>2. p \in Seq(Scalar) /\ Len(p) = 1 + (T - 1)
      BY <3>1
    <3>3. 1 + (T - 1) = T
      BY SmallNumbers
    <3> HIDE DEF p
    <3> QED
      BY <3>2, <3>3
  <2>3. i \in Int /\ i \in 1..N /\ T \in Nat \ {0}
    BY SmallNumbers
  <2>4. evaluate_x(p, i) \in Scalar
    <3> HIDE DEF p
    <3> QED
      BY <2>2, <2>3, CommitsAreValue
  <2>5. made[k].shares[i].seckey = evaluate_x(p, i)
    BY <2>3 DEF gen_refresh_shares, create_shares
  <2> QED
    BY <2>4, <2>5
<1>4. n \in Nat /\ pkgs \in [1..n -> S]
  <2> HIDE DEF S
  <2> QED
    BY <1>2, ListIsBijection
<1>5. \A s \in S : s.shares[i].seckey \in Scalar
  BY <1>3
<1> HIDE DEF S, n, pkgs
<1>6. others \in [1..n -> X] /\ \A c \in 1..n : others[c].seckey \in Scalar
  BY <1>4, <1>5
<1>7. share[i] \in [idx : {i}, seckey : Scalar]
  BY <1>1 DEF TypedInv, ShareTyped
<1> HIDE DEF others, X
<1>8. combine_set(<<share[i]>> \o others) \in [idx : {i}, seckey : Scalar]
  BY <1>4, <1>6, <1>7, CombineSetTyped
<1>9. ShareTyped'
  BY <1>1, <1>8 DEF TypedInv, ShareTyped
<1>10. EpochTyped'
  BY <1>1 DEF TypedInv, EpochTyped
<1> QED
  BY <1>1, <1>9, <1>10, UntouchedTyped DEF TypedInv

(* A lost share is gone (Lose); no one has answered a new call for helpers *)
(* (AskHelpers).                                                           *)
LEMMA LoseTyped == TypedInv /\ (\E i \in Losable : Lose(i)) => TypedInv'
<1> SUFFICES ASSUME TypedInv, NEW i \in Losable, Lose(i) PROVE TypedInv'
  OBVIOUS
<1>1. ShareTyped'
  BY DEF Lose, TypedInv, ShareTyped
<1> QED
  BY <1>1, UntouchedTyped DEF TypedInv, Lose, setup

(* A call for help keeps it (AskHelpers).                                  *)
LEMMA AskTyped ==
  TypedInv /\ (\E i \in Member : \E helpers \in SUBSET Member : AskHelpers(i, helpers)) => TypedInv'
<1> SUFFICES ASSUME TypedInv, NEW i \in Member, NEW helpers \in SUBSET Member, AskHelpers(i, helpers)
             PROVE  TypedInv'
  OBVIOUS
<1>1. rescue' = [target |-> i, helpers |-> helpers, given |-> {}]
  BY DEF AskHelpers
<1>2. DOMAIN rescue' = {"target", "helpers", "given"} /\ rescue'.target = i
      /\ rescue'.helpers = helpers /\ rescue'.given = {}
  BY <1>1
<1>3. IsFiniteSet(rescue'.given)
  BY <1>2, FS_EmptySet
<1>4. RescueTyped'
  BY <1>2, <1>3 DEF RescueTyped, GivenTyped
<1> QED
  BY <1>4, UntouchedTyped DEF TypedInv, AskHelpers, setup

(* A helper answers with a package of its own (gen_recovery_shares).       *)
LEMMA HelpTyped ==
  TypedInv /\ (\E h \in Member : \E rand \in RecoveryDraws(h) : Help(h, rand)) => TypedInv'
<1> SUFFICES ASSUME TypedInv, NEW h \in Member, NEW rand \in RecoveryDraws(h), Help(h, rand)
             PROVE  TypedInv'
  OBVIOUS
<1> DEFINE pkg == gen_recovery_shares(rescue.helpers, share[h], rescue.target, rand)
           g == [pkg |-> pkg, epoch |-> epoch[h]]
<1>1. h \in rescue.helpers /\ share[h] # None
      /\ rescue' = [rescue EXCEPT !.given = rescue.given \cup {g}]
      /\ UNCHANGED <<coeffs, arrived, output, share, zeros, epoch>>
  BY DEF Help, setup
<1>2. rescue # NoRescue
  BY <1>1 DEF NoRescue
<1>3. /\ DOMAIN rescue = {"target", "helpers", "given"}
      /\ rescue.target \in Member /\ rescue.helpers \in SUBSET Member
      /\ IsFiniteSet(rescue.given) /\ \A x \in rescue.given : GivenTyped(x)
  BY <1>2 DEF TypedInv, RescueTyped
<1>4. share[h] \in [idx : {h}, seckey : Scalar] /\ (epoch[h] = None \/ epoch[h] \subseteq Member)
  BY <1>1 DEF TypedInv, ShareTyped, EpochTyped
<1>5. rand \in [1..(T - 1) -> Scalar]
  BY DrawAssumption DEF Member
<1>6. pkg.idx = h /\ \A n \in 1..T : pkg.shares[n].seckey \in Scalar
  BY <1>3, <1>4, <1>5, RecoverySharesTyped
<1> HIDE DEF pkg
<1>7. GivenTyped(g)
  BY <1>1, <1>4, <1>6 DEF GivenTyped
<1> HIDE DEF g
<1>8. DOMAIN rescue' = {"target", "helpers", "given"} /\ rescue'.target = rescue.target
      /\ rescue'.helpers = rescue.helpers /\ rescue'.given = rescue.given \cup {g}
  BY <1>1, <1>3
<1>9. IsFiniteSet(rescue'.given)
  BY <1>3, <1>8, FS_AddElement
<1>10. RescueTyped'
  BY <1>3, <1>7, <1>8, <1>9 DEF RescueTyped, GivenTyped
<1> QED
  BY <1>1, <1>10, UntouchedTyped DEF TypedInv

(* A recovered share is the sum of the helpers' sums (recover_share).      *)
LEMMA RecoverTyped == TypedInv /\ Recover => TypedInv'
<1> SUFFICES ASSUME TypedInv, Recover PROVE TypedInv'
  OBVIOUS
<1> DEFINE given == rescue.given
           S == {g.pkg : g \in given}
           c == Cardinality(S)
           pkgs == SetToSeq(S)
           epochs == {g.epoch : g \in given}
           ones(n) == [k \in DOMAIN pkgs |-> pkgs[k].shares[n]]
           sums == [n \in 1..T |-> combine_set(ones(n))]
           new == recover_share(sums, rescue.target)
           common == IF Cardinality(epochs) = 1 THEN CHOOSE e \in epochs : TRUE ELSE None
<1>1. /\ rescue # NoRescue /\ rescue' = NoRescue
      /\ share' = [share EXCEPT ![rescue.target] = new]
      /\ epoch' = [epoch EXCEPT ![rescue.target] = common]
      /\ UNCHANGED <<coeffs, arrived, output, zeros>>
  BY DEF Recover, setup
<1>2. /\ rescue.target \in Member /\ IsFiniteSet(given)
      /\ \A g \in given : GivenTyped(g)
  BY <1>1 DEF TypedInv, RescueTyped
<1>3. \A e \in epochs : e = None \/ e \subseteq Member
  BY <1>2 DEF GivenTyped
<1>4. \A s \in S : \A n \in 1..T : s.shares[n].seckey \in Scalar
  BY <1>2 DEF GivenTyped
<1>5. common = None \/ common \subseteq Member
  <2>1. CASE Cardinality(epochs) = 1
    <3>1. epochs # {}
      <4> HIDE DEF epochs
      <4> QED
        BY <2>1, FS_EmptySet
    <3>2. (CHOOSE e \in epochs : TRUE) \in epochs
      <4> HIDE DEF epochs
      <4> QED
        BY <3>1
    <3> QED
      BY <1>3, <2>1, <3>2
  <2>2. CASE Cardinality(epochs) # 1
    BY <2>2
  <2> QED
    BY <2>1, <2>2
<1>6. IsFiniteSet(S)
  <2> DEFINE f == [g \in given |-> g.pkg]
  <2>1. S = {f[g] : g \in given} /\ DOMAIN f = given
    OBVIOUS
  <2> HIDE DEF f, given, S
  <2>2. IsFiniteSet({f[g] : g \in given})
    BY <1>2, <2>1, ImageFinite DEF Image
  <2> QED
    BY <2>1, <2>2
<1>7. c \in Nat /\ pkgs \in [1..c -> S]
  <2> HIDE DEF S
  <2> QED
    BY <1>6, ListIsBijection
<1> HIDE DEF common, epochs, S, c, pkgs
<1>8. ASSUME NEW n \in 1..T PROVE sums[n].seckey \in Scalar
  <2> DEFINE one == ones(n)
  <2>1. DOMAIN one = 1..c /\ \A k \in 1..c : one[k].seckey \in Scalar
    BY <1>4, <1>7
  <2>2. sums[n].seckey = combine_shares(one)
    BY DEF combine_set
  <2> HIDE DEF one
  <2> QED
    BY <1>7, <2>1, <2>2, CombineTyped
<1>9. new \in [idx : {rescue.target}, seckey : Scalar]
  <2>1. DOMAIN sums = 1..T /\ T \in Nat
    BY SmallNumbers
  <2> HIDE DEF sums
  <2>2. combine_shares(sums) \in Scalar
    BY <1>8, <2>1, CombineTyped
  <2> QED
    BY <2>2 DEF recover_share
<1> HIDE DEF new
<1>10. ShareTyped'
  BY <1>1, <1>2, <1>9 DEF TypedInv, ShareTyped
<1>11. EpochTyped'
  BY <1>1, <1>2, <1>5 DEF TypedInv, EpochTyped
<1>12. RescueTyped'
  BY <1>1 DEF RescueTyped, NoRescue
<1> QED
  BY <1>1, <1>10, <1>11, <1>12, UntouchedTyped DEF TypedInv

(* No step breaks it (Next).                                               *)
LEMMA TypedInductive == TypedInv /\ [Next]_vars => TypedInv'
<1> SUFFICES ASSUME TypedInv, [Next]_vars PROVE TypedInv'
  OBVIOUS
<1>1. CASE Next
  BY <1>1, DealTyped, RoundOneTyped, FinalizeTyped, ZerosDrawnTyped, RefreshTyped, LoseTyped, AskTyped,
     HelpTyped, RecoverTyped DEF Next
<1>2. CASE UNCHANGED vars
  BY <1>2, UntouchedTyped DEF TypedInv, vars, setup
<1> QED
  BY <1>1, <1>2

(* So it always holds.                                                     *)
LEMMA StaysTyped == Spec => []TypedInv
BY InitTyped, TypedInductive, PTL DEF Spec

(* Polynomials, shares, refresh coefficients, groups and the packages of a *)
(* recovery hold what their types allow at all times: a share is at its    *)
(* owner's index, a group lists every member once and a point for each,    *)
(* and only those that were asked help (create_share_coeffs,               *)
(* dkg_finalize, refresh_share, gen_recovery_shares, recover_share).       *)
THEOREM ThresholdKeyTypeCorrect == Spec => []TypeOK
BY StaysTyped, TypedMeansTypeOK, PTL

(* When all have called dkg_round1, dkg_finalize accepts their packages of *)
(* round 2 at every participant, whatever they drew.                       *)
THEOREM HonestRoundsAreAccepted == Spec => []HonestRoundsFinalize
<1>1. TypedInv => HonestRoundsFinalize
  BY HonestPackagesPass DEF TypedInv
<1> QED
  BY <1>1, StaysTyped, PTL

(* dkg_finalize refuses a share of round 2 with any other value than the   *)
(* sender's polynomial has there, but for its negative (verify_share).     *)
THEOREM DamagedSharesAreRefused == Spec => []DamagedShareRefused
<1>1. TypedInv => DamagedShareRefused
  BY DamageShows DEF TypedInv
<1> QED
  BY <1>1, StaysTyped, PTL
=============================================================================
