---------------------------- MODULE HeldKeyProofs ----------------------------
(***************************************************************************)
(* A quorum of shares holds the key, whatever was refreshed and recovered. *)
(* A share is the value, at its index, of the sum of the key's polynomial  *)
(* and of the refresh polynomials that are in it; so shares with the same  *)
(* refreshes interpolate to the key, and derive the same ECDH secrets.     *)
(***************************************************************************)
EXTENDS ThresholdKeyProofs

-----------------------------------------------------------------------------
(* The polynomial behind a group, and behind the shares that contain the   *)
(* refresh shares of the members of e.                                     *)

KeyPoly(o) == [j \in 1..T |-> o.vss_commits[j].dlog]

HasDrawn(z, e) == e \subseteq Member /\ \A k \in e : z[k] # None
ZeroPolys(z, e) == [k \in e |-> <<0>> \o z[k]]
AddedPoly(z, e) == Columns(ZeroPolys(z, e), e, e, 1..T)
EpochPoly(o, z, e) == [j \in 1..T |-> KeyPoly(o)[j] + AddedPoly(z, e)[j]]

(* Commitments are those of one polynomial of scalars (get_share_commits). *)
LEMMA KeyPolyTyped ==
  ASSUME NEW o, o.vss_commits \in [1..T -> Point]
  PROVE  /\ KeyPoly(o) \in [1..T -> Scalar] /\ KeyPoly(o) \in [1..T -> Int]
         /\ o.vss_commits = get_share_commits(KeyPoly(o))
<1>1. \A j \in 1..T : o.vss_commits[j] \in Point
  OBVIOUS
<1>2. \A p \in Point : p.dlog \in Scalar /\ p = [dlog |-> p.dlog]
  BY DEF Point
<1>3. KeyPoly(o) \in [1..T -> Scalar]
  BY <1>1, <1>2 DEF KeyPoly
<1>4. KeyPoly(o) \in [1..T -> Int]
  BY <1>3, SmallNumbers
<1> DEFINE c == get_share_commits(KeyPoly(o))
<1>5. \A j \in 1..T : c[j] = o.vss_commits[j]
  BY <1>1, <1>2 DEF KeyPoly, get_share_commits, scalar_base_multi
<1>6. DOMAIN c = 1..T
  BY DEF KeyPoly, get_share_commits
<1>7. c = [j \in DOMAIN c |-> c[j]]
  BY DEF get_share_commits
<1> HIDE DEF c
<1>8. c = o.vss_commits
  BY <1>5, <1>6, <1>7
<1> QED
  BY <1>3, <1>4, <1>8 DEF c

(* A refresh polynomial is one with nothing at the root                    *)
(* (gen_refresh_shares).                                                   *)
LEMMA ZeroPolyTyped ==
  ASSUME NEW sub \in [1..(T - 1) -> Scalar]
  PROVE  /\ <<0>> \o sub \in [1..T -> Scalar] /\ <<0>> \o sub \in [1..T -> Int]
         /\ (<<0>> \o sub)[1] = 0
<1> DEFINE p == <<0>> \o sub
<1>1. T - 1 \in Nat /\ 1 + (T - 1) = T
  BY SmallNumbers
<1>2. sub \in Seq(Scalar) /\ Len(sub) = T - 1 /\ <<0>> \in Seq(Scalar) /\ Len(<<0>>) = 1
  BY <1>1, SmallNumbers
<1>3. p \in Seq(Scalar) /\ Len(p) = 1 + (T - 1) /\ p[1] = 0
  BY <1>1, <1>2
<1> HIDE DEF p
<1>4. p \in [1..T -> Scalar]
  BY <1>1, <1>3
<1>5. p \in [1..T -> Int]
  BY <1>4, SmallNumbers
<1> QED
  BY <1>3, <1>4, <1>5 DEF p

(* Refresh polynomials have no constant term (gen_refresh_shares).         *)
LEMMA ZeroPolysTyped ==
  ASSUME ZerosTyped, NEW e, HasDrawn(zeros, e)
  PROVE  /\ Polys(ZeroPolys(zeros, e), e, T) /\ AddedPoly(zeros, e) \in [1..T -> Int]
         /\ \A k \in e : ZeroPolys(zeros, e)[k][1] = 0 /\ ZeroPolys(zeros, e)[k] \in [1..T -> Scalar]
         /\ IsFiniteSet(e)
<1>1. IsFiniteSet(e)
  <2>1. IsFiniteSet(Member)
    BY FS_Interval, SmallNumbers
  <2> QED
    BY <2>1, FS_Subset DEF HasDrawn
<1>2. ASSUME NEW k \in e
      PROVE  ZeroPolys(zeros, e)[k][1] = 0 /\ ZeroPolys(zeros, e)[k] \in [1..T -> Int] /\ ZeroPolys(zeros, e)[k] \in [1..T -> Scalar]
  <2>1. zeros[k] \in [1..(T - 1) -> Scalar]
    BY DEF ZerosTyped, HasDrawn
  <2>2. ZeroPolys(zeros, e)[k] = <<0>> \o zeros[k]
    BY DEF ZeroPolys
  <2> QED
    BY <2>1, <2>2, ZeroPolyTyped
<1>3. Polys(ZeroPolys(zeros, e), e, T)
  BY <1>1, <1>2, SmallNumbers DEF Polys
<1>4. AddedPoly(zeros, e) \in [1..T -> Int]
  <2> DEFINE x == 0
  <2>1. x \in Int
    OBVIOUS
  <2> HIDE DEF x
  <2>2. Columns(ZeroPolys(zeros, e), e, e, 1..T) \in [1..T -> Int]
    BY <1>3, <2>1, PolySumTyped
  <2> QED
    BY <2>2 DEF AddedPoly
<1> QED
  BY <1>1, <1>2, <1>3, <1>4

(* Its value is that of the key's, and those of the refresh polynomials.   *)
LEMMA EpochValue ==
  ASSUME ZerosTyped, NEW e, HasDrawn(zeros, e), NEW o, o.vss_commits \in [1..T -> Point], NEW x \in Int
  PROVE  /\ EpochPoly(o, zeros, e) \in [1..T -> Int]
         /\ evaluate_x(EpochPoly(o, zeros, e), x) \in Scalar
         /\ Numbers(e, ValuesAt(ZeroPolys(zeros, e), e, x))
         /\ Same(evaluate_x(EpochPoly(o, zeros, e), x),
                 evaluate_x(KeyPoly(o), x) + SumOver(e, ValuesAt(ZeroPolys(zeros, e), e, x)))
<1> DEFINE k == KeyPoly(o)
           a == AddedPoly(zeros, e)
           p == EpochPoly(o, zeros, e)
           V == ValuesAt(ZeroPolys(zeros, e), e, x)
           n == T
<1>1. k \in [1..n -> Int] /\ a \in [1..n -> Int] /\ n \in Nat
  BY KeyPolyTyped, ZeroPolysTyped, SmallNumbers
<1>2. \A j \in 1..n : p[j] = k[j] + a[j]
  BY DEF EpochPoly
<1>3. p \in [1..n -> Int]
  BY <1>1 DEF EpochPoly
<1>4. Numbers(e, V) /\ Same(evaluate_x(a, x), SumOver(e, V))
  BY ZeroPolysTyped, PolySumTyped, ValuesSum DEF AddedPoly
<1> HIDE DEF k, a, p, V, n
<1>5. Same(evaluate_x(p, x), evaluate_x(k, x) + evaluate_x(a, x))
  BY <1>1, <1>2, <1>3, ValuesAdd
<1>6. evaluate_x(k, x) \in Int /\ evaluate_x(p, x) \in Scalar
  BY <1>1, <1>3, EvaluateTyped
<1>7. Same(evaluate_x(k, x) + evaluate_x(a, x), evaluate_x(k, x) + SumOver(e, V))
  BY <1>4, <1>6, SameMod, SameSum
<1>8. Same(evaluate_x(p, x), evaluate_x(k, x) + SumOver(e, V))
  BY <1>5, <1>7, SameChain
<1> QED
  BY <1>3, <1>4, <1>6, <1>8 DEF k, a, p, V, n

(* At the root it is the key.                                              *)
LEMMA EpochRoot ==
  ASSUME ZerosTyped, NEW e, HasDrawn(zeros, e), NEW o, o.vss_commits \in [1..T -> Point]
  PROVE  evaluate_x(EpochPoly(o, zeros, e), 0) = o.vss_commits[1].dlog
<1> DEFINE n == T - 1
           p == EpochPoly(o, zeros, e)
<1>1. n \in Nat /\ n + 1 = T /\ 1 \in 1..T
  BY SmallNumbers
<1>2. p \in [1..T -> Int] /\ evaluate_x(p, 0) \in Scalar
  <2> DEFINE x == 0
  <2>1. x \in Int
    OBVIOUS
  <2> HIDE DEF x
  <2>2. EpochPoly(o, zeros, e) \in [1..T -> Int] /\ evaluate_x(EpochPoly(o, zeros, e), x) \in Scalar
    BY <2>1, EpochValue
  <2> QED
    BY <2>2 DEF x
<1>3. p[1] = o.vss_commits[1].dlog
  <2>1. AddedPoly(zeros, e)[1] = SumOver(e, Column(ZeroPolys(zeros, e), e, 1))
    BY <1>1 DEF AddedPoly, Columns
  <2>2. \A k \in e : Column(ZeroPolys(zeros, e), e, 1)[k] = 0
    BY ZeroPolysTyped DEF Column
  <2>3. AddedPoly(zeros, e)[1] = 0
    BY <2>1, <2>2, ZeroPolysTyped, SumNone
  <2>4. KeyPoly(o)[1] \in Int /\ KeyPoly(o)[1] = o.vss_commits[1].dlog
    BY <1>1, KeyPolyTyped DEF KeyPoly
  <2>5. p[1] = KeyPoly(o)[1] + AddedPoly(zeros, e)[1]
    BY <1>1 DEF EpochPoly
  <2> QED
    BY <2>3, <2>4, <2>5
<1> HIDE DEF n, p
<1>4. p \in [1..(n + 1) -> Int]
  BY <1>1, <1>2
<1>5. Same(evaluate_x(p, 0), p[1])
  BY <1>1, <1>4, ValueAtRoot
<1>6. p[1] \in Scalar
  BY <1>1, <1>3 DEF Point
<1>7. evaluate_x(p, 0) = p[1]
  BY <1>2, <1>5, <1>6, SameScalar
<1> QED
  BY <1>3, <1>7 DEF p

(* Without any refresh it is the polynomial of the key.                    *)
LEMMA EpochNone ==
  ASSUME NEW o, o.vss_commits \in [1..T -> Point], NEW x \in Int
  PROVE  evaluate_x(EpochPoly(o, zeros, {}), x) = evaluate_x(KeyPoly(o), x)
<1> DEFINE e == {}
<1>1. \A j \in 1..T : AddedPoly(zeros, e)[j] = 0
  <2>1. \A j \in 1..T : SumOver({}, Column(ZeroPolys(zeros, e), e, j)) = 0
    BY SumNone, FS_EmptySet
  <2> QED
    BY <2>1 DEF AddedPoly, Columns
<1>2. ASSUME NEW j \in 1..T PROVE EpochPoly(o, zeros, e)[j] = KeyPoly(o)[j]
  <2>1. EpochPoly(o, zeros, e)[j] = KeyPoly(o)[j] + AddedPoly(zeros, e)[j]
    BY DEF EpochPoly
  <2>2. KeyPoly(o)[j] \in Int
    BY KeyPolyTyped
  <2> QED
    BY <1>1, <2>1, <2>2
<1>3. EpochPoly(o, zeros, e) = KeyPoly(o)
  BY <1>2 DEF EpochPoly, KeyPoly
<1> QED
  BY <1>3

-----------------------------------------------------------------------------
(* The key that distributed key generation makes: the sum of the keys of   *)
(* all participants.                                                       *)

DkgPoly == Columns(coeffs, Member, Member, 1..T)

(* The polynomials of a finished first round add up to one.                *)
LEMMA DkgPolyTyped ==
  ASSUME CoeffsTyped, AllDrawn
  PROVE  /\ \A k \in Member : coeffs[k] \in [1..T -> Scalar] /\ coeffs[k] \in [1..T -> Int]
         /\ Polys(coeffs, Member, T) /\ DkgPoly \in [1..T -> Int]
         /\ \A j \in 1..T : Numbers(Member, Column(coeffs, Member, j))
<1>1. ASSUME NEW k \in Member PROVE coeffs[k] \in [1..T -> Scalar] /\ coeffs[k] \in [1..T -> Int]
  <2>1. coeffs[k] \in [1..T -> Scalar]
    BY DEF CoeffsTyped, AllDrawn, Drawn
  <2> QED
    BY <2>1, SmallNumbers
<1>2. Polys(coeffs, Member, T)
  <2>1. IsFiniteSet(Member)
    BY FS_Interval, SmallNumbers
  <2> QED
    BY <1>1, <2>1, SmallNumbers DEF Polys
<1>3. DkgPoly \in [1..T -> Int] /\ \A j \in 1..T : Numbers(Member, Column(coeffs, Member, j))
  <2> DEFINE x == 0
  <2>1. x \in Int
    OBVIOUS
  <2> HIDE DEF x
  <2>2. /\ Columns(coeffs, Member, Member, 1..T) \in [1..T -> Int]
        /\ \A j \in 1..T : Numbers(Member, Column(coeffs, Member, j))
    BY <1>2, <2>1, PolySumTyped
  <2> QED
    BY <2>2 DEF DkgPoly
<1> QED
  BY <1>1, <1>2, <1>3

(* The merged commitments are those to the sum (MergedCommits).            *)
LEMMA MergedAddsUp ==
  ASSUME CoeffsTyped, AllDrawn, NEW j \in 1..T
  PROVE  Same(MergedCommits(AllCommits)[j].dlog, DkgPoly[j])
<1> DEFINE all == AllCommits
           U == {all[i] : i \in Member}
           first == Head(all).vss_commits
           rest == Tail(all)
           n == N - 1
           f == Column(coeffs, Member, j)
<1>1. \A i \in Member : all[i].vss_commits \in [1..T -> Point]
                        /\ all[i].vss_commits[j].dlog = f[i] /\ f[i] \in Int
  <2>1. ASSUME NEW i \in Member
        PROVE  all[i].vss_commits \in [1..T -> Point] /\ all[i].vss_commits[j].dlog = coeffs[i][j]
    BY DkgPolyTyped, CommitsTyped DEF AllCommits, dkg_round1, get_share_commits, scalar_base_multi
  <2>2. \A i \in Member : f[i] = coeffs[i][j] /\ f[i] \in Int
    BY DkgPolyTyped DEF Column
  <2> QED
    BY <2>1, <2>2
<1>2. all \in [1..N -> U] /\ N \in Nat \ {0}
  BY SmallNumbers DEF AllCommits
<1> HIDE DEF all, U
<1>3. Head(all) = all[1] /\ rest \in Seq(U) /\ Len(rest) = n /\ n \in Nat /\ n + 1 = N
      /\ \A k \in 1..n : rest[k] = all[k + 1]
  BY <1>2
<1>4. DOMAIN rest = 1..n /\ \A k \in 1..n : k + 1 \in Member /\ 1 \in Member
  BY <1>3, SmallNumbers
<1>5. MergedCommits(all) = Merged(first, rest)
  BY DEF MergedCommits, Merged
<1>6. /\ first = all[1].vss_commits /\ first \in [1..T -> Point]
      /\ \A k \in 1..n : rest[k].vss_commits = all[k + 1].vss_commits
      /\ \A k \in 1..n : rest[k].vss_commits \in [1..T -> Point]
  <2>1. 1 \in Member
    BY SmallNumbers
  <2> QED
    BY <1>1, <1>3, <1>4, <2>1
<1> HIDE DEF first, rest, n
<1>7. PICK r : IsMerge(r, n, T, first, rest)
  BY <1>3, <1>4, <1>6, MergeSteps
<1>8. /\ r \in [0..n -> [1..T -> Point]] /\ r[0] = first /\ MergedCommits(all) = r[n]
      /\ \A k \in 1..n : r[k] = merge_share_commits(r[k - 1], rest[k].vss_commits)
  BY <1>5, <1>7 DEF IsMerge
<1> DEFINE sum == [m \in 0..N |-> IF m = 0 THEN 0 ELSE r[m - 1][j].dlog]
<1>9. \A k \in 0..n : r[k][j].dlog \in Int
  <2>1. ASSUME NEW k \in 0..n PROVE r[k][j].dlog \in Int
    <3>1. r[k] \in [1..T -> Point]
      BY <1>8
    <3>2. r[k][j] \in Point
      BY <3>1
    <3> QED
      BY <3>2, SmallNumbers DEF Point
  <2> QED
    BY <2>1
<1>10. Grows(sum, N, f)
  <2>1. Same(sum[0], 0)
    <3>1. sum[0] = 0
      BY SmallNumbers
    <3> QED
      BY <3>1, SameMod
  <2>2. ASSUME NEW m \in 1..N PROVE Same(sum[m], sum[m - 1] + f[m])
    <3>0. m \in Member /\ f[m] \in Int
      BY <1>1, SmallNumbers
    <3>1. CASE m = 1
      <4>1. sum[0] = 0 /\ sum[1] = r[0][j].dlog /\ m - 1 = 0
        BY <3>1, SmallNumbers
      <4>2. sum[1] = f[1]
        BY <1>1, <1>6, <1>8, <3>0, <3>1, <4>1
      <4> HIDE DEF sum, f
      <4>3. sum[m - 1] + f[m] = sum[m] /\ sum[m] \in Int
        BY <3>0, <3>1, <4>1, <4>2
      <4> QED
        BY <4>3, SameMod
    <3>2. CASE m # 1
      <4> DEFINE k == m - 1
      <4>1. k \in 1..n /\ k - 1 \in 0..n /\ k + 1 = m /\ m \in 0..N /\ k \in 0..N /\ m # 0 /\ k # 0 /\ k = m - 1
        BY <1>3, <3>2
      <4>2. sum[m] = r[k][j].dlog /\ sum[k] = r[k - 1][j].dlog
        BY <4>1
      <4> HIDE DEF k, sum, f
      <4>3. r[k] = merge_share_commits(r[k - 1], rest[k].vss_commits) /\ r[k - 1] \in [1..T -> Point]
        BY <1>8, <4>1
      <4>4. r[k][j] = element_add(r[k - 1][j], rest[k].vss_commits[j])
        BY <4>3 DEF merge_share_commits
      <4>5. rest[k].vss_commits[j].dlog = f[m]
        BY <1>1, <1>6, <3>0, <4>1
      <4>6. sum[m] = mod_n(sum[k] + f[m])
        BY <4>2, <4>4, <4>5 DEF element_add
      <4>7. sum[k] \in Int
        BY <1>9, <4>1, <4>2
      <4>8. sum[k] + f[m] \in Int
        BY <3>0, <4>7
      <4>9. Same(sum[m], sum[k] + f[m])
        BY <4>6, <4>8, SameMod
      <4> QED
        BY <4>1, <4>9
    <3> QED
      BY <3>1, <3>2
  <2> HIDE DEF sum, f
  <2> QED
    BY <2>1, <2>2 DEF Grows
<1>11. sum[N] = MergedCommits(all)[j].dlog
  BY <1>3, <1>8, SmallNumbers
<1> DEFINE other == [k \in 0..N |-> SumOver(1..k, f)]
<1>12. \A k \in 1..N : f[k] \in Int
  BY <1>1, SmallNumbers
<1>13. other[N] = SumOver(1..N, f)
  BY SmallNumbers
<1> HIDE DEF sum, f, other
<1>14. Grows(other, N, f)
  BY <1>12, SmallNumbers, SumGrows DEF other
<1>15. Same(sum[N], other[N])
  BY <1>10, <1>12, <1>14, SmallNumbers, GrowsAgree
<1>16. DkgPoly[j] = SumOver(Member, f)
  BY DEF DkgPoly, Columns, f
<1> QED
  BY <1>11, <1>13, <1>15, <1>16, SmallNumbers DEF all

(* The group key is the sum of the constant terms (sum_points).            *)
LEMMA HeadsAddUp ==
  ASSUME CoeffsTyped, AllDrawn, NEW heads, heads = [k \in Member |-> Head(AllCommits[k].vss_commits)]
  PROVE  element_add_many(heads) = MergedCommits(AllCommits)[1]
<1> DEFINE f == Column(coeffs, Member, 1)
           one == 1
           terms == [k \in 1..N |-> heads[k].dlog]
           sum == [k \in 0..N |-> SumOver(1..k, f)]
           m == MergedCommits(AllCommits)[1]
<1>1. one \in 1..T /\ DOMAIN heads = 1..N /\ N \in Nat
  BY SmallNumbers
<1>2. \A k \in 1..N : heads[k].dlog = f[k] /\ f[k] \in Int
  <2>1. ASSUME NEW k \in Member PROVE heads[k].dlog = coeffs[k][1]
    <3>1. coeffs[k] \in [1..T -> Scalar] /\ T >= 1
      BY DkgPolyTyped, SmallNumbers
    <3>2. AllCommits[k].vss_commits = [j \in 1..T |-> [dlog |-> coeffs[k][j]]]
      BY <3>1 DEF AllCommits, dkg_round1, get_share_commits, scalar_base_multi
    <3>3. Head(AllCommits[k].vss_commits) = [dlog |-> coeffs[k][1]]
      BY <3>1, <3>2
    <3> QED
      BY <3>3
  <2>2. \A k \in Member : f[k] = coeffs[k][1] /\ f[k] \in Int
    BY <1>1, DkgPolyTyped DEF Column
  <2> QED
    BY <2>1, <2>2, SmallNumbers
<1>3. terms = [k \in 1..N |-> f[k]] /\ sum[N] = SumOver(1..N, f)
  BY <1>1, <1>2
<1>4. Grows(sum, N, f)
  <2> HIDE DEF f
  <2> QED
    BY <1>1, <1>2, SumGrows
<1>5. Grows(sum, N, terms)
  <2> HIDE DEF sum, f
  <2> QED
    BY <1>3, <1>4 DEF Grows
<1> HIDE DEF sum
<1>6. element_add_many(heads) \in Point /\ Same(element_add_many(heads).dlog, sum[N])
  BY <1>1, <1>2, <1>5, PointsGrow
<1>7. DkgPoly[one] = SumOver(1..N, f)
  BY <1>1, SmallNumbers DEF DkgPoly, Columns
<1>8. Same(m.dlog, DkgPoly[one]) /\ m \in Point
  <2> HIDE DEF one
  <2>1. Same(MergedCommits(AllCommits)[one].dlog, DkgPoly[one])
    BY <1>1, MergedAddsUp
  <2>2. MergedCommits(AllCommits)[one] \in Point
    BY <1>1, DkgPolyTyped, MergedTyped
  <2> QED
    BY <2>1, <2>2 DEF one
<1> HIDE DEF one, f, m, terms
<1>9. Same(element_add_many(heads).dlog, m.dlog)
  BY <1>3, <1>6, <1>7, <1>8, SameChain
<1>10. element_add_many(heads).dlog = m.dlog
  BY <1>6, <1>8, <1>9, SameScalar DEF Point
<1> QED
  BY <1>6, <1>8, <1>10 DEF Point, m

(* The group is that of the commitments: its key the constant term, and a  *)
(* member's public key the point of the value at its index.                *)
Fits(o) ==
  /\ o.vss_commits \in [1..T -> Point]
  /\ o.group.group_pk = o.vss_commits[1] /\ o.group.threshold = T
  /\ o.group.members = [k \in Member |-> [idx |-> k, pubkey |-> scalar_base_multi(evaluate_x(KeyPoly(o), k))]]

(* So it is when the commitments of all participants are merged            *)
(* (dkg_finalize, eval_vss_pubkey).                                        *)
LEMMA DkgFits ==
  ASSUME CoeffsTyped, AllDrawn, NEW i \in Member, NEW received, NEW o,
         o.group = dkg_finalize(i, coeffs[i], received, AllCommits).group,
         o.vss_commits = dkg_finalize(i, coeffs[i], received, AllCommits).vss_commits
  PROVE  Fits(o) /\ o.vss_commits = MergedCommits(AllCommits)
<1> DEFINE heads == [k \in Member |-> Head(AllCommits[k].vss_commits)]
           vss == MergedCommits(AllCommits)
<1>1. vss \in [1..T -> Point]
  BY DkgPolyTyped, MergedTyped
<1>2. o.vss_commits = vss
  BY DEF dkg_finalize
<1>3. o.group.group_pk = element_add_many(heads)
  BY DEF dkg_finalize, sum_points, AllCommits
<1>4. o.group.members = [k \in Member |-> [idx |-> k, pubkey |-> CommitsAt(vss, k, Len(vss))]]
  <2> DEFINE out == dkg_finalize(i, coeffs[i], received, AllCommits)
  <2>1. out.group.members = [k \in Member |-> [idx |-> k, pubkey |-> CommitsAt(vss, k, Len(vss))]]
    BY DEF dkg_finalize, dkg_round2, dkg_round1, sum_points, AllCommits, eval_vss_pubkey
  <2> HIDE DEF out, vss
  <2> QED
    BY <2>1 DEF out
<1>5. element_add_many(heads) = vss[1]
  BY HeadsAddUp
<1> HIDE DEF heads, vss
<1>6. Len(vss) = T /\ T \in Nat \ {0}
  BY <1>1, SmallNumbers
<1>7. KeyPoly(o) \in [1..T -> Scalar] /\ vss = get_share_commits(KeyPoly(o))
  BY <1>1, <1>2, KeyPolyTyped
<1>8. ASSUME NEW k \in Member PROVE CommitsAt(vss, k, Len(vss)) = scalar_base_multi(evaluate_x(KeyPoly(o), k))
  <2>1. k \in Int
    BY SmallNumbers
  <2> QED
    BY <1>6, <1>7, <2>1, CommitsAreValue
<1>9. o.group.members = [k \in Member |-> [idx |-> k, pubkey |-> scalar_base_multi(evaluate_x(KeyPoly(o), k))]]
  BY <1>4, <1>8
<1>10. o.group.threshold = T
  BY DEF dkg_finalize
<1> QED
  BY <1>1, <1>2, <1>3, <1>5, <1>9, <1>10 DEF Fits, vss

(* So it is when a dealer makes it (generate_dealer_package).              *)
LEMMA DealFits ==
  ASSUME NEW poly \in [1..T -> Scalar], NEW o, o.group = generate_dealer_package(poly).group,
         o.vss_commits = get_share_commits(poly)
  PROVE  /\ Fits(o) /\ KeyPoly(o) = poly
         /\ \A i \in Member : generate_dealer_package(poly).shares[i].seckey = evaluate_x(poly, i)
<1> DEFINE pkg == generate_dealer_package(poly)
<1>1. o.vss_commits \in [1..T -> Point] /\ \A j \in 1..T : o.vss_commits[j].dlog = poly[j]
  <2>1. o.vss_commits \in [1..T -> Point]
    BY CommitsTyped
  <2>2. o.vss_commits = [j \in 1..T |-> [dlog |-> poly[j]]]
    BY DEF get_share_commits, scalar_base_multi
  <2> QED
    BY <2>1, <2>2
<1>2. KeyPoly(o) = poly
  BY <1>1 DEF KeyPoly
<1>3. \A i \in Member : pkg.shares[i].seckey = evaluate_x(poly, i)
  BY DEF generate_dealer_package, create_shares, Member
<1>4. o.group.group_pk = o.vss_commits[1]
      /\ o.group.members = [i \in Member |-> [idx |-> i, pubkey |-> get_pubkey(pkg.shares[i].seckey)]]
  <2>1. pkg.group.group_pk = get_share_commits(poly)[1]
        /\ pkg.group.members = [i \in Member |-> [idx |-> i, pubkey |-> get_pubkey(pkg.shares[i].seckey)]]
    BY DEF generate_dealer_package, Member
  <2> HIDE DEF pkg
  <2> QED
    BY <2>1 DEF pkg
<1> HIDE DEF pkg
<1>5. o.group.members = [k \in Member |-> [idx |-> k, pubkey |-> scalar_base_multi(evaluate_x(KeyPoly(o), k))]]
  BY <1>2, <1>3, <1>4 DEF get_pubkey
<1>6. o.group.threshold = T
  <2>1. Len(poly) = T
    BY SmallNumbers
  <2> QED
    BY <2>1 DEF generate_dealer_package
<1> QED
  BY <1>1, <1>2, <1>3, <1>4, <1>5, <1>6 DEF Fits, pkg

(* A participant that is given each package once is given those of the     *)
(* others in the order of their indices (Received).                        *)
Sender(i) == [m \in Nat |-> IF m < i THEN m ELSE m + 1]

(* With no package missing, a participant receives one share of each       *)
(* other, in order.                                                        *)
LEMMA ReceivedInOrder ==
  ASSUME NEW i \in Member
  PROVE  Received(i, Others(i)) = [m \in 1..(N - 1) |-> dkg_round2(Sender(i)[m], coeffs[Sender(i)[m]], i)]
<1> DEFINE P(k) == dkg_round2(k, coeffs[k], i)
           U == {P(k) : k \in Nat}
           seqs == [k \in Member |-> [c \in 1..Others(i)[k] |-> P(k)]]
           count(k) == IF k < i THEN k ELSE k - 1
           list(k) == [m \in 1..count(k) |-> P(Sender(i)[m])]
           A == {k \in Nat : k <= N => list(k) \in Seq(U)}
<1>1. i \in Nat /\ i >= 1 /\ i <= N /\ N \in Nat /\ Member = 1..N
  BY SmallNumbers
<1>2. Received(i, Others(i)) = FlattenSeq(seqs)
  BY DEF Received
<1>3. \A k \in Nat : P(k) \in U
  OBVIOUS
<1>4. \A m \in Nat : Sender(i)[m] = (IF m < i THEN m ELSE m + 1) /\ Sender(i)[m] \in Nat
  BY <1>1 DEF Sender
<1> HIDE DEF P, U
<1>5. ASSUME NEW k \in 1..N
      PROVE  seqs[k] \in Seq(U) /\ seqs[k] = IF k = i THEN <<>> ELSE <<P(k)>>
  <2>1. P(k) \in U /\ k \in Member
    BY <1>1, <1>3
  <2>2. Others(i)[k] = IF k = i THEN 0 ELSE 1
    BY <2>1 DEF Others
  <2>3. seqs[k] = [c \in 1..Others(i)[k] |-> P(k)]
    BY <2>1
  <2>4. CASE k = i
    BY <2>2, <2>3, <2>4
  <2>5. CASE k # i
    BY <2>1, <2>2, <2>3, <2>5
  <2> QED
    BY <2>4, <2>5
<1>6. seqs \in [1..N -> Seq(U)]
  <2>1. seqs = [k \in 1..N |-> [c \in 1..Others(i)[k] |-> P(k)]]
    BY <1>1
  <2>2. \A k \in 1..N : [c \in 1..Others(i)[k] |-> P(k)] \in Seq(U)
    BY <1>5, <2>1
  <2> QED
    BY <2>1, <2>2
<1> HIDE DEF seqs
<1>7. PICK p : IsFlat(p, N, U, seqs)
  BY <1>1, <1>6, FlattenSteps
<1>8. /\ p \in [0..N -> Seq(U)] /\ p[0] = <<>> /\ FlattenSeq(seqs) = p[N]
      /\ \A k \in 1..N : p[k] = p[k - 1] \o seqs[k]
  BY <1>7 DEF IsFlat
<1>9. \A k \in Nat : count(k) \in Int /\ (k >= 1 => count(k) \in Nat)
  BY <1>1
<1> DEFINE B == {k \in Nat : k <= N => p[k] = list(k)}
<1>10. 0 \in B
  <2>1. count(0) = 0
    BY <1>1
  <2>2. list(0) = <<>>
    BY <2>1
  <2> QED
    BY <1>8, <2>2
<1>11. ASSUME NEW k \in B PROVE k + 1 \in B
  <2>1. ASSUME k + 1 <= N PROVE p[k + 1] = list(k + 1)
    <3> DEFINE m == k + 1
               d == count(k)
    <3>1. k \in Nat /\ m \in 1..N /\ m - 1 = k /\ k \in 0..N
      BY <1>1, <2>1
    <3>2. p[m] = p[k] \o seqs[m]
      BY <1>8, <3>1
    <3>3. p[k] = list(k) /\ p[k] \in Seq(U)
      BY <1>8, <2>1, <3>1
    <3>4. CASE m = i
      <4>1. count(k) = count(m)
        BY <3>4, <3>1
      <4>2. list(k) = list(m)
        BY <4>1
      <4>3. p[m] = p[k]
        <5> HIDE DEF m, list
        <5>1. seqs[m] = <<>>
          BY <1>5, <3>1, <3>4
        <5>2. p[k] \o <<>> = p[k]
          BY <3>3
        <5> QED
          BY <3>2, <5>1, <5>2
      <4> QED
        BY <3>3, <4>2, <4>3
    <3>5. CASE m # i
      <4>1. d \in Nat /\ count(m) = d + 1 /\ Sender(i)[d + 1] = m
        <5>1. CASE m < i
          <6>1. d = k /\ count(m) = m
            BY <1>1, <3>1, <5>1
          <6>2. Sender(i)[m] = m
            BY <1>4, <3>1, <5>1
          <6> QED
            BY <3>1, <6>1, <6>2
        <5>2. CASE m > i
          <6>1. ~(k < i) /\ d = k - 1 /\ count(m) = k /\ k \in Nat /\ k >= 1
            BY <1>1, <3>1, <5>2
          <6>2. Sender(i)[k] = k + 1
            BY <1>4, <6>1
          <6>3. d + 1 = k
            BY <6>1
          <6> HIDE DEF d, count
          <6> QED
            BY <6>1, <6>2, <6>3
        <5> QED
          BY <1>1, <3>1, <3>5, <5>1, <5>2
      <4>2. seqs[m] = <<P(m)>>
        <5> HIDE DEF m
        <5> QED
          BY <1>5, <3>1, <3>5
      <4> HIDE DEF count
      <4>3. list(k) = [c \in 1..d |-> P(Sender(i)[c])]
        OBVIOUS
      <4>4. list(m) = [c \in 1..(d + 1) |-> P(Sender(i)[c])]
        BY <4>1
      <4>5. P(Sender(i)[d + 1]) = P(m)
        BY <4>1
      <4> HIDE DEF d, list, m
      <4>6. p[m] = Append(list(k), P(m))
        BY <3>2, <3>3, <4>2
      <4>7. Append(list(k), P(m)) = list(m)
        <5> DEFINE q == [c \in 1..d |-> P(Sender(i)[c])]
                   q1 == [c \in 1..(d + 1) |-> P(Sender(i)[c])]
        <5>1. \A c \in 1..d : P(Sender(i)[c]) \in U
          <6>1. \A c \in 1..d : Sender(i)[c] \in Nat
            BY <1>4, <4>1
          <6> QED
            BY <1>3, <6>1
        <5>2. q \in Seq(U) /\ Len(q) = d
          BY <4>1, <5>1
        <5> DEFINE w == Append(q, P(m))
        <5>3. /\ w \in Seq(U) /\ Len(w) = d + 1 /\ w[d + 1] = P(m)
              /\ \A c \in 1..d : w[c] = q[c]
          <6>1. P(m) \in U
            BY <1>3, <3>1
          <6> HIDE DEF q
          <6> QED
            BY <4>1, <5>2, <6>1
        <5>4. \A c \in 1..(d + 1) : w[c] = P(Sender(i)[c])
          <6>1. \A c \in 1..(d + 1) : c # d + 1 => c \in 1..d
            BY <4>1
          <6>2. \A c \in 1..d : q[c] = P(Sender(i)[c])
            OBVIOUS
          <6> HIDE DEF w, q
          <6> QED
            BY <4>5, <5>3, <6>1, <6>2
        <5>5. w = q1
          <6>1. w = [c \in 1..(d + 1) |-> w[c]]
            <7> HIDE DEF w
            <7> QED
              BY <5>3
          <6> HIDE DEF w
          <6> QED
            BY <5>4, <6>1
        <5> QED
          BY <4>3, <4>4, <5>5
      <4> QED
        BY <4>6, <4>7 DEF m
    <3> QED
      BY <3>4, <3>5
  <2> HIDE DEF list
  <2> QED
    BY <2>1
<1>12. N \in B
  <2>1. B \in SUBSET Nat
    OBVIOUS
  <2> HIDE DEF B
  <2> QED
    BY <1>1, <1>10, <1>11, <2>1, SetInduction
<1>13. count(N) = N - 1
  BY <1>1
<1>14. p[N] = list(N)
  <2> HIDE DEF list
  <2> QED
    BY <1>1, <1>12
<1>15. list(N) = [m \in 1..(N - 1) |-> P(Sender(i)[m])]
  BY <1>13
<1> QED
  BY <1>2, <1>8, <1>14, <1>15 DEF P

(* A share and others in any order add up to it and the sum of the terms   *)
(* they stand for (combine_set).                                           *)
LEMMA SharesAddTo ==
  ASSUME NEW n \in Nat, NEW first, first.seckey \in Int, NEW X, NEW others \in [1..n -> X],
         NEW g, NEW S, Places(g, n, S),
         NEW f, StandFor(others, n, g, f)
  PROVE  /\ combine_set(<<first>> \o others).seckey \in Scalar /\ Numbers(S, f)
         /\ Same(combine_set(<<first>> \o others).seckey, first.seckey + SumOver(S, f))
<1> DEFINE all == <<first>> \o others
           K == 1..(n + 1)
           L == 2..(n + 1)
           h == [k \in K |-> all[k].seckey]
           up == [k \in L |-> g[k - 1]]
           self == [k \in K |-> k]
<1>1. Len(others) = n /\ others \in Seq(X)
  OBVIOUS
<1>2. /\ DOMAIN all = K /\ all[1] = first
      /\ \A k \in L : all[k] = others[k - 1]
  BY <1>1
<1>3. \A k \in L : k - 1 \in 1..n /\ k \in K
  OBVIOUS
<1>4. 1 \in K /\ K \ {1} = L /\ IsFiniteSet(K) /\ n + 1 \in Nat /\ L \in SUBSET K /\ IsFiniteSet(L)
  <2>1. 1 \in K /\ K \ {1} = L /\ n + 1 \in Nat /\ L \in SUBSET K
    OBVIOUS
  <2>2. IsFiniteSet(K)
    <3>1. 1 \in Int /\ n + 1 \in Int
      OBVIOUS
    <3> QED
      BY <3>1, FS_Interval
  <2> HIDE DEF K, L
  <2> QED
    BY <2>1, <2>2, FS_Subset
<1> HIDE DEF all
<1>5. /\ \A k \in L : h[k] = f[up[k]] /\ h[k] \in Int
      /\ h[1] = first.seckey /\ \A k \in K : h[k] \in Int /\ h[k] = all[k].seckey
  <2>0. \A k \in 1..n : others[k].seckey = f[g[k]] /\ others[k].seckey \in Int
    BY DEF StandFor
  <2>1. \A k \in L : h[k] = others[k - 1].seckey /\ up[k] = g[k - 1]
    BY <1>2, <1>3
  <2>2. h[1] = first.seckey
    BY <1>2, <1>4
  <2>3. \A k \in L : h[k] = f[up[k]] /\ h[k] \in Int
    BY <1>3, <2>0, <2>1
  <2>4. \A k \in K : k = 1 \/ k \in L
    BY <1>4
  <2>5. \A k \in K : h[k] = all[k].seckey
    OBVIOUS
  <2> HIDE DEF h, K, L, up
  <2> QED
    BY <2>2, <2>3, <2>4, <2>5
<1>6. OneToOne(up, L) /\ Image(up, L) = S
  <2>1. \A k \in 1..n : k + 1 \in L /\ (k + 1) - 1 = k
    OBVIOUS
  <2>2. \A k \in L : up[k] = g[k - 1]
    OBVIOUS
  <2>3. OneToOne(g, 1..n) /\ Image(g, 1..n) = S
    BY DEF Places
  <2>4. OneToOne(up, L)
    <3> SUFFICES ASSUME NEW j \in L, NEW k \in L, up[j] = up[k] PROVE j = k
      BY DEF OneToOne
    <3>1. g[j - 1] = g[k - 1] /\ j - 1 \in 1..n /\ k - 1 \in 1..n
      BY <1>3, <2>2
    <3>2. j - 1 = k - 1
      BY <2>3, <3>1 DEF OneToOne
    <3> QED
      BY <3>2
  <2>5. Image(up, L) = S
    <3>1. \A x \in Image(up, L) : x \in Image(g, 1..n)
      BY <1>3, <2>2 DEF Image
    <3>2. ASSUME NEW x \in Image(g, 1..n) PROVE x \in Image(up, L)
      <4>1. PICK k \in 1..n : x = g[k]
        BY DEF Image
      <4>2. k + 1 \in L /\ up[k + 1] = x
        BY <2>1, <2>2, <4>1
      <4> HIDE DEF up, L
      <4> QED
        BY <4>2 DEF Image
    <3> QED
      BY <2>3, <3>1, <3>2
  <2> QED
    BY <2>4, <2>5
<1>7. Places(self, n + 1, K)
  <2>1. \A k \in K : self[k] = k
    OBVIOUS
  <2>2. OneToOne(self, K) /\ Image(self, K) = K
    BY <2>1 DEF OneToOne, Image
  <2> QED
    BY <2>2 DEF Places
<1>8. StandFor(all, n + 1, self, h)
  <2>1. \A k \in K : all[k].seckey = h[self[k]] /\ all[k].seckey \in Int
    BY <1>5
  <2> HIDE DEF h, self
  <2> QED
    BY <2>1 DEF StandFor
<1> HIDE DEF K, L, h, up, self
<1>9. combine_shares(all) \in Scalar /\ Same(combine_shares(all), SumOver(K, h))
  <2> DEFINE m == n + 1
  <2>1. m \in Nat /\ DOMAIN all = 1..m /\ Places(self, m, K) /\ StandFor(all, m, self, h)
    BY <1>2, <1>4, <1>7, <1>8 DEF K
  <2> HIDE DEF m
  <2> QED
    BY <2>1, SharesAddUp
<1>10. Numbers(S, f) /\ Numbers(L, h) /\ SumOver(L, h) = SumOver(S, f)
  BY <1>4, <1>5, <1>6, SumReindex
<1>11. SumOver(K, h) = first.seckey + SumOver(S, f)
  <2>1. Numbers(K, h)
    BY <1>4, <1>5 DEF Numbers
  <2>2. SumOver(K, h) = h[1] + SumOver(K \ {1}, h)
    BY <1>4, <2>1, SumStep
  <2> QED
    BY <1>4, <1>5, <1>10, <2>2
<1>12. combine_set(all).seckey = combine_shares(all)
  BY DEF combine_set
<1> QED
  BY <1>9, <1>10, <1>11, <1>12 DEF all

(* The share that distributed key generation leaves with a participant is  *)
(* the value of the group's polynomial at its index (dkg_finalize).        *)
LEMMA SendersPlaced ==
  ASSUME NEW i \in Member
  PROVE  Places(Sender(i), N - 1, Member \ {i})
<1>1. i \in Nat /\ i >= 1 /\ i <= N /\ N \in Nat /\ Member = 1..N
  BY SmallNumbers
<1> DEFINE K == 1..(N - 1)
           g == Sender(i)
<1>2. \A m \in K : g[m] = IF m < i THEN m ELSE m + 1
  BY <1>1 DEF Sender
<1>3. OneToOne(g, K)
  <2> SUFFICES ASSUME NEW j \in K, NEW k \in K, g[j] = g[k] PROVE j = k
    BY DEF OneToOne
  <2> HIDE DEF g
  <2> QED
    BY <1>1, <1>2
<1>4. \A x \in Image(g, K) : x \in Member \ {i}
  <2> SUFFICES ASSUME NEW m \in K PROVE g[m] \in Member \ {i}
    BY DEF Image
  <2> HIDE DEF g
  <2> QED
    BY <1>1, <1>2
<1>5. ASSUME NEW x \in Member \ {i} PROVE x \in Image(g, K)
  <2> DEFINE m == IF x < i THEN x ELSE x - 1
  <2>1. m \in K /\ x \in Nat
    BY <1>1
  <2>2. g[m] = x
    BY <1>1, <1>2, <2>1
  <2> HIDE DEF m, g, K
  <2> QED
    BY <2>1, <2>2 DEF Image
<1>6. Image(g, K) = Member \ {i}
  <2> HIDE DEF g, K
  <2> QED
    BY <1>4, <1>5
<1> QED
  BY <1>3, <1>6 DEF Places

(* Then its share is the value of the merged polynomial at its index       *)
(* (dkg_finalize).                                                         *)
LEMMA DkgShare ==
  ASSUME CoeffsTyped, AllDrawn, NEW i \in Member, NEW o, o.vss_commits = MergedCommits(AllCommits)
  PROVE  dkg_finalize(i, coeffs[i], Received(i, Others(i)), AllCommits).share.seckey
           = evaluate_x(KeyPoly(o), i)
<1> DEFINE received == Received(i, Others(i))
           own == [idx |-> i, seckey |-> evaluate_x(coeffs[i], i)]
           others == [k \in DOMAIN received |-> [idx |-> i, seckey |-> received[k].seckey]]
           V == ValuesAt(coeffs, Member, i)
           n == N - 1
           X == {others[k] : k \in 1..n}
           g == Sender(i)
           D == Member \ {i}
<1>1. dkg_finalize(i, coeffs[i], received, AllCommits).share = combine_set(<<own>> \o others)
  BY DEF dkg_finalize, dkg_round2
<1>2. n \in Nat /\ i \in Int /\ i \in Member
  BY SmallNumbers
<1>3. received = [m \in 1..n |-> dkg_round2(g[m], coeffs[g[m]], i)]
  BY ReceivedInOrder
<1>4. Numbers(Member, V) /\ Numbers(D, V)
  <2>1. Numbers(Member, V)
    BY <1>2, DkgPolyTyped, PolySumTyped
  <2> QED
    BY <2>1, SumStep
<1>5. Places(g, n, D)
  BY SendersPlaced
<1>6. \A k \in 1..n : g[k] \in D
  BY <1>5 DEF Places, Image
<1>7. \A k \in D : V[k] = evaluate_x(coeffs[k], i) /\ V[k] \in Int
  BY <1>4 DEF ValuesAt, Numbers
<1>8. StandFor(others, n, g, V)
  <2> SUFFICES ASSUME NEW k \in 1..n PROVE others[k].seckey = V[g[k]] /\ others[k].seckey \in Int
    BY DEF StandFor
  <2>1. received[k].seckey = evaluate_x(coeffs[g[k]], i) /\ k \in DOMAIN received
    BY <1>3 DEF dkg_round2
  <2>2. others[k].seckey = received[k].seckey
    BY <2>1
  <2> HIDE DEF others, received, V, g
  <2> QED
    BY <1>6, <1>7, <2>1, <2>2
<1>9. others \in [1..n -> X]
  <2>1. DOMAIN others = 1..n
    BY <1>3
  <2>2. others = [k \in 1..n |-> others[k]]
    BY <2>1
  <2> HIDE DEF others
  <2> QED
    BY <2>2
<1>10. own.seckey = V[i] /\ V[i] \in Int
  BY <1>4, <1>2 DEF ValuesAt, Numbers
<1> DEFINE all == combine_set(<<own>> \o others)
<1> HIDE DEF received, own, others, V, n, X, g, D
<1>11. all.seckey \in Scalar /\ Same(all.seckey, own.seckey + SumOver(D, V))
  <2>1. own.seckey \in Int
    BY <1>10
  <2> HIDE DEF all
  <2> QED
    BY <1>2, <1>5, <1>8, <1>9, <2>1, SharesAddTo DEF all
<1> HIDE DEF all
<1>12. own.seckey + SumOver(D, V) = SumOver(Member, V)
  BY <1>2, <1>4, <1>10, SumStep DEF D
<1>13. Same(evaluate_x(DkgPoly, i), SumOver(Member, V))
  BY <1>2, DkgPolyTyped, ValuesSum DEF DkgPoly, V
<1>14. /\ KeyPoly(o) \in [1..T -> Int] /\ DkgPoly \in [1..T -> Int]
       /\ \A j \in 1..T : Same(KeyPoly(o)[j], DkgPoly[j])
  <2>1. o.vss_commits \in [1..T -> Point]
    BY DkgPolyTyped, MergedTyped
  <2>2. KeyPoly(o) \in [1..T -> Int]
    BY <2>1, KeyPolyTyped
  <2>3. \A j \in 1..T : KeyPoly(o)[j] = MergedCommits(AllCommits)[j].dlog
    BY DEF KeyPoly
  <2> QED
    BY <2>2, <2>3, DkgPolyTyped, MergedAddsUp
<1>15. evaluate_x(KeyPoly(o), i) = evaluate_x(DkgPoly, i) /\ evaluate_x(KeyPoly(o), i) \in Scalar
  <2> DEFINE m == T
  <2>1. m \in Nat /\ KeyPoly(o) \in [1..m -> Int] /\ DkgPoly \in [1..m -> Int]
        /\ \A j \in 1..m : Same(KeyPoly(o)[j], DkgPoly[j])
    BY <1>14, SmallNumbers
  <2> HIDE DEF m
  <2> QED
    BY <1>2, <2>1, ValuesSame, EvaluateTyped
<1>16. all.seckey = evaluate_x(KeyPoly(o), i)
  BY <1>11, <1>12, <1>13, <1>15, SameChain, SameScalar
<1> QED
  BY <1>1, <1>16 DEF all, received

-----------------------------------------------------------------------------
(* Refresh: the new share is the value with the senders' polynomials added *)
(* (gen_refresh_shares, refresh_share).                                    *)

LEMMA RefreshShare ==
  ASSUME ZerosTyped, NEW e, HasDrawn(zeros, e), NEW senders, HasDrawn(zeros, senders), senders \cap e = {},
         NEW i \in Member, NEW o, o.vss_commits \in [1..T -> Point],
         NEW part, part.seckey = evaluate_x(EpochPoly(o, zeros, e), i),
         NEW pkgs, pkgs = SetToSeq({gen_refresh_shares(k, zeros[k], N) : k \in senders})
  PROVE  refresh_share([n \in DOMAIN pkgs |-> pkgs[n].shares[i]], part).seckey
           = evaluate_x(EpochPoly(o, zeros, e \cup senders), i)
<1> DEFINE made == [k \in senders |-> gen_refresh_shares(k, zeros[k], N)]
           S == Image(made, senders)
           n == Cardinality(S)
           W == ValuesAt(ZeroPolys(zeros, senders), senders, i)
           others == [c \in 1..n |-> pkgs[c].shares[i]]
           X == {others[c] : c \in 1..n}
           g == [c \in 1..n |-> pkgs[c].idx]
           new == combine_set(<<part>> \o others)
<1>1. IsFiniteSet(senders) /\ i \in Int /\ i \in 1..N
  BY ZeroPolysTyped, SmallNumbers
<1>2. pkgs = SetToSeq(S)
  BY DEF Image
<1>3. \A k \in senders : made[k].idx = k /\ made[k].shares[i].seckey = W[k]
  <2>1. \A k \in senders : made[k].shares[i].seckey = evaluate_x(<<0>> \o zeros[k], i)
    BY <1>1 DEF gen_refresh_shares, create_shares
  <2>2. \A k \in senders : W[k] = evaluate_x(<<0>> \o zeros[k], i)
    BY DEF ValuesAt, ZeroPolys
  <2>3. \A k \in senders : made[k].idx = k
    BY DEF gen_refresh_shares
  <2> QED
    BY <2>1, <2>2, <2>3
<1> HIDE DEF made, W
<1>4. IsFiniteSet(S)
  BY <1>1, ImageFinite
<1>5. n \in Nat /\ pkgs \in [1..n -> S] /\ OneToOne(pkgs, 1..n) /\ Image(pkgs, 1..n) = S
  <2> HIDE DEF S
  <2> QED
    BY <1>2, <1>4, ListIsBijection
<1> HIDE DEF n
<1>6. \A s \in S : s.idx \in senders /\ s = made[s.idx] /\ s.shares[i].seckey = W[s.idx]
  BY <1>3 DEF Image
<1>7. \A k \in senders : made[k] \in S
  BY DEF Image
<1> HIDE DEF S
<1>8. Places(g, n, senders)
  <2>1. \A c \in 1..n : g[c] = pkgs[c].idx /\ pkgs[c] \in S
    BY <1>5
  <2> HIDE DEF g
  <2>2. OneToOne(g, 1..n)
    <3> SUFFICES ASSUME NEW c \in 1..n, NEW d \in 1..n, g[c] = g[d] PROVE c = d
      BY DEF OneToOne
    <3>1. pkgs[c] = pkgs[d]
      BY <1>6, <2>1
    <3> QED
      BY <1>5, <3>1 DEF OneToOne
  <2>3. \A x \in Image(g, 1..n) : x \in senders
    BY <1>6, <2>1 DEF Image
  <2>4. ASSUME NEW k \in senders PROVE k \in Image(g, 1..n)
    <3>1. PICK c \in 1..n : pkgs[c] = made[k]
      BY <1>5, <1>7 DEF Image
    <3>2. g[c] = k
      BY <1>3, <2>1, <3>1
    <3> QED
      BY <3>2 DEF Image
  <2>5. Image(g, 1..n) = senders
    BY <2>3, <2>4
  <2> QED
    BY <2>2, <2>5 DEF Places
<1>9. Numbers(senders, W)
  BY <1>1, EpochValue DEF W
<1>10. StandFor(others, n, g, W)
  <2> SUFFICES ASSUME NEW c \in 1..n PROVE others[c].seckey = W[g[c]] /\ others[c].seckey \in Int
    BY DEF StandFor
  <2>1. pkgs[c] \in S /\ g[c] = pkgs[c].idx /\ others[c].seckey = pkgs[c].shares[i].seckey
    BY <1>5
  <2>2. g[c] \in senders /\ others[c].seckey = W[g[c]]
    BY <1>6, <2>1
  <2> HIDE DEF others, g
  <2> QED
    BY <1>9, <2>2 DEF Numbers
<1>11. others \in [1..n -> X] /\ others = [c \in DOMAIN pkgs |-> pkgs[c].shares[i]]
  BY <1>5
<1>12. part.seckey \in Scalar /\ part.seckey \in Int
  <2>1. evaluate_x(EpochPoly(o, zeros, e), i) \in Scalar
    BY <1>1, EpochValue
  <2> QED
    BY <2>1, SmallNumbers
<1> HIDE DEF others, g, X, new
<1>13. new.seckey \in Scalar /\ Same(new.seckey, part.seckey + SumOver(senders, W))
  BY <1>5, <1>8, <1>10, <1>11, <1>12, SharesAddTo DEF new
<1> DEFINE both == e \cup senders
           V == ValuesAt(ZeroPolys(zeros, e), e, i)
           B == ValuesAt(ZeroPolys(zeros, both), both, i)
           k0 == evaluate_x(KeyPoly(o), i)
           old == evaluate_x(EpochPoly(o, zeros, e), i)
           fresh == evaluate_x(EpochPoly(o, zeros, both), i)
<1>14. HasDrawn(zeros, both)
  BY DEF HasDrawn
<1>15. Numbers(e, V) /\ Same(old, k0 + SumOver(e, V))
  BY <1>1, EpochValue
<1>16. Numbers(both, B) /\ fresh \in Scalar /\ Same(fresh, k0 + SumOver(both, B))
  <2> HIDE DEF both
  <2> QED
    BY <1>1, <1>14, EpochValue
<1>17. \A k \in e : B[k] = V[k]
  BY DEF ValuesAt, ZeroPolys
<1>18. \A k \in senders : B[k] = W[k]
  BY DEF ValuesAt, ZeroPolys, W
<1>19. both \ e = senders /\ e \in SUBSET both
  OBVIOUS
<1>20. k0 \in Int
  <2>1. KeyPoly(o) \in [1..T -> Int]
    BY KeyPolyTyped
  <2> QED
    BY <1>1, <2>1, SmallNumbers, EvaluateTyped
<1> HIDE DEF both, V, B, k0, old, fresh
<1>21. SumOver(both, B) = SumOver(e, V) + SumOver(senders, W)
  <2>1. SumOver(both, B) = SumOver(e, B) + SumOver(senders, B)
    BY <1>16, <1>19, SumUnion
  <2>2. SumOver(e, V) = SumOver(e, B)
    BY <1>15, <1>17, SumAgree
  <2>3. SumOver(senders, W) = SumOver(senders, B)
    BY <1>9, <1>18, SumAgree
  <2> QED
    BY <2>1, <2>2, <2>3
<1>22. SumOver(e, V) \in Int /\ SumOver(senders, W) \in Int
  BY <1>9, <1>15, SumStep
<1>23. Same(part.seckey + SumOver(senders, W), (k0 + SumOver(e, V)) + SumOver(senders, W))
  <2>1. Same(part.seckey, k0 + SumOver(e, V))
    BY <1>15 DEF old
  <2> QED
    BY <1>22, <2>1, SameMod, SameSum
<1>24. (k0 + SumOver(e, V)) + SumOver(senders, W) = k0 + SumOver(both, B)
  BY <1>20, <1>21, <1>22
<1>25. Same(new.seckey, fresh)
  BY <1>13, <1>16, <1>23, <1>24, SameChain
<1>26. new.seckey = fresh
  BY <1>13, <1>16, <1>25, SameScalar
<1> QED
  BY <1>11, <1>26 DEF new, fresh, both, refresh_share

-----------------------------------------------------------------------------
(* Recovery: the parts of a helper's package add up to its term of the     *)
(* interpolation at the lost index (gen_recovery_shares).                  *)

Parts(pkg) == [n \in 1..T |-> pkg.shares[n].seckey]

Answers(pkg, helpers, target, value) ==
  /\ pkg.idx \in helpers /\ \A n \in 1..T : pkg.shares[n].seckey \in Int
  /\ Same(SumOver(1..T, Parts(pkg)), Weight(helpers, target)[pkg.idx] * value)

(* Members are indices, and finitely many.                                 *)
LEMMA MemberSets ==
  ASSUME NEW S \in SUBSET Member
  PROVE  IndexSet(S) /\ IsFiniteSet(S)
<1>1. IsFiniteSet(Member)
  BY FS_Interval, SmallNumbers
<1>2. IsFiniteSet(S)
  BY <1>1, FS_Subset
<1> QED
  BY <1>2, SmallNumbers DEF IndexSet, Index

(* A helper's package holds its term of the interpolation, cut into one    *)
(* part for each helper (gen_recovery_shares).                             *)
LEMMA HelpersPackage ==
  ASSUME NEW members \in SUBSET Member, NEW h \in members, NEW part \in [idx : {h}, seckey : Scalar],
         NEW target \in Member, NEW rand \in [1..(T - 1) -> Scalar]
  PROVE  Answers(gen_recovery_shares(members, part, target, rand), members, target, part.seckey)
<1> DEFINE n == T - 1
           coeff == Weight(members, target)[h]
           total == SumOf(rand)
           repair == coeff * part.seckey - total
           last == mod_n(repair)
           all == Append(rand, last)
           pkg == gen_recovery_shares(members, part, target, rand)
           f == Parts(pkg)
<1>1. n \in Nat /\ n + 1 = T /\ T \in Nat /\ T >= 1 /\ part.idx = h /\ part.seckey \in Int /\ target \in Int
  <2>1. n \in Nat /\ n + 1 = T /\ T \in Nat /\ T >= 1
    BY SmallNumbers
  <2>2. part.idx = h /\ part.seckey \in Scalar
    OBVIOUS
  <2>3. target \in Int
    BY SmallNumbers
  <2> HIDE DEF n
  <2> QED
    BY <2>1, <2>2, <2>3, SmallNumbers
<1>2. coeff = calc_lagrange_coeff(members \ {part.idx}, part.idx, target)
  BY <1>1 DEF Weight
<1>3. coeff \in Int
  BY <1>1, MemberSets, WeightIs DEF IndexSet
<1>4. pkg.idx = h /\ pkg.shares = [i \in DOMAIN all |-> [idx |-> sorted_members(members)[i], seckey |-> all[i]]]
  BY <1>1, <1>2 DEF gen_recovery_shares, SumOf
<1>5. \A k \in 1..n : rand[k] \in Int
  BY SmallNumbers
<1>6. total \in Int /\ Same(total, SumOver(1..n, rand)) /\ DOMAIN rand = 1..n
  <2>1. DOMAIN rand = 1..n
    OBVIOUS
  <2> HIDE DEF n
  <2> QED
    BY <1>1, <1>5, <2>1, NumbersGrow
<1> HIDE DEF coeff, total, pkg
<1>7. coeff * part.seckey \in Int /\ repair \in Int
  <2>1. coeff * part.seckey \in Int
    BY <1>1, <1>3
  <2> QED
    BY <1>6, <2>1
<1> HIDE DEF repair
<1>8. last \in Scalar /\ last \in Int
  BY <1>7, ModIsScalar, SmallNumbers
<1> HIDE DEF last
<1>9. DOMAIN all = 1..T /\ all[T] = last /\ \A k \in 1..n : all[k] = rand[k]
  <2>1. rand \in Seq(Scalar) /\ Len(rand) = n
    BY <1>1
  <2>2. all \in Seq(Scalar) /\ Len(all) = n + 1 /\ all[n + 1] = last /\ \A k \in 1..n : all[k] = rand[k]
    BY <1>8, <2>1
  <2> HIDE DEF all, n
  <2> QED
    BY <1>1, <2>2
<1> HIDE DEF all
<1>10. \A k \in 1..T : f[k] = all[k]
  BY <1>4, <1>9 DEF Parts
<1>11. T \in 1..T /\ (\A k \in 1..n : k \in 1..T) /\ (\A k \in 1..T : k = T \/ k \in 1..n)
  BY <1>1
<1> HIDE DEF f
<1>12. \A k \in 1..T : f[k] \in Int
  <2>1. \A k \in 1..n : f[k] = rand[k]
    BY <1>9, <1>10, <1>11
  <2>2. f[T] = last
    BY <1>9, <1>10, <1>11
  <2>3. \A k \in 1..T : k = T \/ k \in 1..n
    BY <1>1
  <2> HIDE DEF n
  <2> QED
    BY <1>5, <1>8, <2>1, <2>2, <2>3
<1>13. SumOver(1..T, f) = last + SumOver(1..n, rand)
  <2>1. SumOver(1..T, f) = f[T] + SumOver(1..(T - 1), f) /\ Numbers(1..T, f)
    BY <1>1, <1>11, <1>12, SumGrows
  <2>2. Numbers(1..n, rand)
    BY <1>1, <1>5, SumGrows
  <2>3. \A k \in 1..n : rand[k] = f[k]
    BY <1>9, <1>10, <1>11
  <2>4. SumOver(1..n, rand) = SumOver(1..n, f)
    <3> HIDE DEF n
    <3> QED
      BY <2>2, <2>3, SumAgree
  <2> QED
    BY <1>9, <1>10, <1>11, <2>1, <2>4
<1>14. Same(last + SumOver(1..n, rand), coeff * part.seckey)
  <2> DEFINE y == coeff * part.seckey
             s == SumOver(1..n, rand)
  <2>1. Same(last, repair) /\ Same(s, total)
    BY <1>6, <1>7, SameMod, SameChain DEF last
  <2>2. Same(last + s, repair + total)
    <3> HIDE DEF s
    <3> QED
      BY <2>1, SameSum
  <2>3. repair = y - total /\ y \in Int
    BY <1>7 DEF repair
  <2> HIDE DEF y, s
  <2>4. repair + total = y
    BY <1>6, <2>3
  <2> QED
    BY <2>2, <2>4 DEF y, s
<1>15. \A k \in 1..T : pkg.shares[k].seckey \in Int
  BY <1>12 DEF f, Parts
<1>16. Same(SumOver(1..T, Parts(pkg)), Weight(members, target)[pkg.idx] * part.seckey)
  <2> HIDE DEF n
  <2> QED
    BY <1>4, <1>13, <1>14 DEF f, coeff
<1> QED
  BY <1>4, <1>15, <1>16 DEF Answers, pkg

(* When as many helpers as were asked have answered, the sum of the sums   *)
(* is the value at the lost index (combine_set, recover_share).            *)
LEMMA RecoverShare ==
  ASSUME NEW helpers \in SUBSET Member, Cardinality(helpers) = T, NEW target \in Int,
         NEW poly \in [1..T -> Int], NEW P, IsFiniteSet(P), Cardinality(P) = T,
         \A p, q \in P : p.idx = q.idx => p = q,
         \A p \in P : Answers(p, helpers, target, evaluate_x(poly, p.idx)),
         NEW pkgs, pkgs = SetToSeq(P),
         NEW sums, sums = [n \in 1..T |-> combine_set([k \in DOMAIN pkgs |-> pkgs[k].shares[n]])]
  PROVE  recover_share(sums, target).seckey = evaluate_x(poly, target)
<1> DEFINE K == 1..T
           g == [k \in K |-> pkgs[k].idx]
           self == [k \in K |-> k]
           a == [n \in K |-> [k \in K |-> pkgs[k].shares[n].seckey]]
           rows == Rows(a, K, K)
           cols == Columns(a, K, K, K)
           vals == Values(poly)
           w == Weighed(helpers, target, vals)
           u == [k \in K |-> w[g[k]]]
           f == [n \in K |-> sums[n].seckey]
<1>1. T \in Nat /\ IsFiniteSet(K) /\ K = 1..T
  <2>1. T \in Nat /\ T \in Int /\ 1 \in Int
    BY SmallNumbers
  <2> QED
    BY <2>1, FS_Interval
<1>2. pkgs \in [K -> P] /\ OneToOne(pkgs, K) /\ Image(pkgs, K) = P
  BY ListIsBijection
<1>3. \A k \in K : pkgs[k] \in P /\ g[k] = pkgs[k].idx /\ self[k] = k
  BY <1>2
<1>4. IsFiniteSet(helpers) /\ IndexSet(helpers)
  BY MemberSets
<1> HIDE DEF K
<1>5. OneToOne(g, K) /\ Image(g, K) = helpers
  <2>1. \A p \in P : p.idx \in helpers
    BY DEF Answers
  <2>2. OneToOne(g, K)
    <3> SUFFICES ASSUME NEW c \in K, NEW d \in K, g[c] = g[d] PROVE c = d
      BY DEF OneToOne
    <3>1. pkgs[c] = pkgs[d]
      BY <1>3
    <3> QED
      BY <1>2, <3>1 DEF OneToOne
  <2>3. g \in [K -> helpers]
    BY <1>3, <2>1
  <2>4. Cardinality(K) = T
    BY <1>1, FS_Interval
  <2> HIDE DEF g
  <2>5. g \in Injection(K, helpers)
    BY <2>2, <2>3 DEF Injection, OneToOne, IsInjective
  <2>6. g \in Surjection(K, helpers)
    BY <1>4, <2>4, <2>5, FS_Injection
  <2>7. Image(g, K) = helpers
    BY <2>3, <2>6 DEF Surjection, Image
  <2> QED
    BY <2>2, <2>7
<1>6. Places(self, T, K)
  <2>1. OneToOne(self, K) /\ Image(self, K) = K
    BY <1>3 DEF OneToOne, Image
  <2> QED
    BY <1>1, <2>1 DEF Places
<1>7. \A n \in K : \A k \in K : a[n][k] = pkgs[k].shares[n].seckey /\ a[n][k] \in Int
  <2>1. \A k \in K : \A n \in K : pkgs[k].shares[n].seckey \in Int
    BY <1>1, <1>3 DEF Answers
  <2> QED
    BY <2>1
<1> HIDE DEF a, g, self
<1>8. ASSUME NEW n \in K PROVE Same(f[n], rows[n])
  <2> DEFINE ones == [k \in K |-> pkgs[k].shares[n]]
             r == Row(a, K, n)
  <2>1. f[n] = combine_shares(ones)
    BY <1>1, <1>2 DEF combine_set
  <2>2. DOMAIN ones = 1..T
    BY <1>1
  <2>3. StandFor(ones, T, self, r)
    <3>1. \A k \in K : ones[k].seckey = r[self[k]] /\ ones[k].seckey \in Int
      BY <1>3, <1>7 DEF Row
    <3> HIDE DEF ones, r
    <3> QED
      BY <1>1, <3>1 DEF StandFor
  <2>4. rows[n] = SumOver(K, r)
    BY DEF Rows
  <2> HIDE DEF ones, r, f, rows
  <2> QED
    BY <1>1, <1>6, <2>1, <2>2, <2>3, <2>4, SharesAddUp
<1>9. Numbers(K, f) /\ Numbers(K, rows) /\ Same(SumOver(K, f), SumOver(K, rows))
  <2> HIDE DEF f, rows
  <2> QED
    BY <1>1, <1>8, SumSame
<1>10. SumOver(K, rows) = SumOver(K, cols)
  BY <1>1, <1>7, SumSwap
<1>11. ASSUME NEW k \in K PROVE Same(cols[k], u[k])
  <2> DEFINE p == pkgs[k]
  <2>1. p \in P /\ g[k] = p.idx
    BY <1>3
  <2>2. Column(a, K, k) = Parts(p)
    <3>1. Column(a, K, k) = [n \in K |-> a[n][k]]
      BY DEF Column
    <3>2. Parts(p) = [n \in K |-> p.shares[n].seckey]
      BY <1>1 DEF Parts
    <3> QED
      BY <1>7, <3>1, <3>2
  <2>3. cols[k] = SumOver(K, Parts(p))
    BY <2>2 DEF Columns
  <2> HIDE DEF p
  <2>4. p.idx \in helpers /\ Same(SumOver(K, Parts(p)), Weight(helpers, target)[p.idx] * evaluate_x(poly, p.idx))
    BY <1>1, <2>1 DEF Answers
  <2>5. vals[p.idx] = evaluate_x(poly, p.idx)
    BY <1>4, <2>4 DEF Values, IndexSet
  <2>6. u[k] = Weight(helpers, target)[p.idx] * vals[p.idx]
    BY <2>1, <2>4 DEF Weighed
  <2> QED
    BY <2>3, <2>4, <2>5, <2>6
<1>12. Same(SumOver(K, cols), SumOver(K, u)) /\ Numbers(K, u)
  <2> HIDE DEF cols, u
  <2> QED
    BY <1>1, <1>11, SumSame
<1>13. SumOver(K, u) = SumOver(helpers, w)
  <2>1. \A k \in K : u[k] = w[g[k]] /\ u[k] \in Int
    BY <1>12 DEF Numbers
  <2> HIDE DEF u, w
  <2>2. OneToOne(g, K) /\ IsFiniteSet(K)
    BY <1>1, <1>5
  <2>3. SumOver(K, u) = SumOver(Image(g, K), w)
    BY <2>1, <2>2, SumReindex
  <2> QED
    BY <1>5, <2>3
<1>14. Same(SumOver(helpers, w), evaluate_x(poly, target))
  <2> DEFINE n == T
  <2>1. n \in Nat /\ poly \in [1..n -> Int] /\ Cardinality(helpers) >= n
    BY <1>1
  <2> HIDE DEF n
  <2>2. Interpolates(poly, n)
    BY <2>1, Interpolation
  <2>3. Same(Moment(helpers, target, vals), evaluate_x(poly, target))
    BY <1>4, <2>1, <2>2 DEF Interpolates
  <2> QED
    BY <2>3 DEF Moment
<1>15. combine_shares(sums) \in Scalar /\ Same(combine_shares(sums), SumOver(K, f))
  <2>1. DOMAIN sums = 1..T
    OBVIOUS
  <2>2. StandFor(sums, T, self, f)
    <3>1. \A k \in K : sums[k].seckey = f[self[k]] /\ sums[k].seckey \in Int
      <4>1. \A k \in K : f[k] = sums[k].seckey
        OBVIOUS
      <4> HIDE DEF f
      <4> QED
        BY <1>3, <1>9, <4>1 DEF Numbers
    <3> HIDE DEF f
    <3> QED
      BY <1>1, <3>1 DEF StandFor
  <2> HIDE DEF f
  <2> QED
    BY <1>1, <1>6, <2>1, <2>2, SharesAddUp
<1>16. evaluate_x(poly, target) \in Scalar
  BY <1>1, EvaluateTyped
<1> HIDE DEF f, rows, cols, u, w, vals
<1>17. combine_shares(sums) = evaluate_x(poly, target)
  BY <1>9, <1>10, <1>12, <1>13, <1>14, <1>15, <1>16, SameChain, SameScalar
<1> QED
  BY <1>17 DEF recover_share

-----------------------------------------------------------------------------
(* What holds in every state.  The refresh shares in a share were drawn;   *)
(* no one refreshes or recovers before all have the key.                   *)

DrawnEpochs == \A i \in Member : epoch[i] # None => HasDrawn(zeros, epoch[i])

StartedReady == (\E k \in Member : zeros[k] # None) \/ rescue # NoRescue => Ready

(* All know of the same group: a dealer told all of them, or it is made of *)
(* the commitments of all.                                                 *)
OneGroup ==
  \A i \in Member : output[i] # None =>
    /\ Fits(output[i])
    /\ \A j \in Member : output[j] # None => output[j].vss_commits = output[i].vss_commits
    /\ \/ \A j \in Member : output[j] # None
       \/ AllDrawn /\ output[i].vss_commits = MergedCommits(AllCommits)

(* A share is the value, at its index, of the key's polynomial and the     *)
(* refresh polynomials that are in it.                                     *)
SharesFit ==
  \A i \in Member : share[i] # None /\ Whole(i) /\ epoch[i] # None =>
    share[i].seckey = evaluate_x(EpochPoly(output[i], zeros, epoch[i]), i)

(* A helper answers once, with its term of such a value.                   *)
Answered(r, o, z, g) ==
  g.epoch # None =>
    /\ HasDrawn(z, g.epoch)
    /\ Answers(g.pkg, r.helpers, r.target, evaluate_x(EpochPoly(o[g.pkg.idx], z, g.epoch), g.pkg.idx))

RescueFits ==
  rescue # NoRescue =>
    /\ Cardinality(rescue.helpers) = T
    /\ \A g, h \in rescue.given : g.pkg.idx = h.pkg.idx => g = h
    /\ \A g \in rescue.given : Answered(rescue, output, zeros, g)

HeldInv == DrawnEpochs /\ StartedReady /\ OneGroup /\ SharesFit /\ RescueFits

(* The invariant of what members hold is true at first (Init).             *)
LEMMA InitHeld == Init => HeldInv
<1> SUFFICES ASSUME Init PROVE HeldInv
  OBVIOUS
<1>1. DrawnEpochs
  BY DEF Init, DrawnEpochs, HasDrawn
<1>2. StartedReady /\ RescueFits
  BY DEF Init, StartedReady, RescueFits
<1>3. OneGroup /\ SharesFit
  BY DEF Init, OneGroup, SharesFit
<1> QED
  BY <1>1, <1>2, <1>3 DEF HeldInv

(* Coefficients drawn later change no share that is there.                 *)
LEMMA DrawsStay ==
  ASSUME NEW z, NEW w, NEW e, HasDrawn(z, e), \A k \in Member : z[k] # None => w[k] = z[k]
  PROVE  HasDrawn(w, e) /\ \A o : EpochPoly(o, w, e) = EpochPoly(o, z, e)
<1>1. \A k \in e : w[k] = z[k] /\ w[k] # None
  BY DEF HasDrawn
<1>2. ZeroPolys(w, e) = ZeroPolys(z, e)
  BY <1>1 DEF ZeroPolys
<1> QED
  BY <1>1, <1>2 DEF HasDrawn, EpochPoly, AddedPoly

(* Before a member has an output nothing was refreshed or recovered.       *)
LEMMA NotStarted ==
  ASSUME HeldInv, TypedInv, NEW i \in Member, output[i] = None
  PROVE  /\ \A k \in Member : zeros[k] = None
         /\ rescue = NoRescue
         /\ \A k \in Member : epoch[k] # None => epoch[k] = {}
<1>1. ~Ready
  BY DEF Ready, Whole
<1>2. (\A k \in Member : zeros[k] = None) /\ rescue = NoRescue
  BY <1>1 DEF HeldInv, StartedReady
<1> QED
  BY <1>2 DEF HeldInv, DrawnEpochs, HasDrawn

(* A step that leaves what all know of the group alone.                    *)
LEMMA GroupStays ==
  ASSUME HeldInv, UNCHANGED setup
  PROVE  OneGroup' /\ (Ready => Ready') /\ \A i \in Member : Whole(i)' = Whole(i)
<1>1. coeffs' = coeffs /\ arrived' = arrived /\ output' = output
  BY DEF setup
<1>2. AllCommits' = AllCommits /\ (AllDrawn => AllDrawn')
  BY <1>1 DEF AllCommits, AllDrawn
<1>3. OneGroup'
  BY <1>1, <1>2 DEF HeldInv, OneGroup
<1>4. \A i \in Member : Whole(i)' = Whole(i)
  BY <1>1 DEF Whole
<1>5. Ready => Ready'
  BY <1>4 DEF Ready
<1> QED
  BY <1>3, <1>4, <1>5

(* Dealing keeps the invariant (Deal).                                     *)
LEMMA DealHeld == HeldInv /\ TypedInv /\ (\E poly \in DealerKeys : Deal(poly)) => HeldInv'
<1> SUFFICES ASSUME HeldInv, TypedInv, NEW poly \in DealerKeys, Deal(poly) PROVE HeldInv'
  OBVIOUS
<1> DEFINE pkg == generate_dealer_package(poly)
           o == [group |-> pkg.group, vss_commits |-> get_share_commits(poly)]
<1>1. poly \in [1..T -> Scalar]
  BY DrawAssumption
<1>2. Fits(o) /\ KeyPoly(o) = poly /\ \A i \in Member : pkg.shares[i].seckey = evaluate_x(poly, i)
  BY <1>1, DealFits
<1>3. output' = [i \in Member |-> o] /\ share' = [i \in Member |-> pkg.shares[i]]
      /\ coeffs' = coeffs /\ arrived' = arrived /\ zeros' = zeros /\ epoch' = epoch /\ rescue' = rescue
  BY DEF Deal
<1>4. \A i \in Member : output[i] = None
  BY DEF Deal
<1> HIDE DEF pkg, o
<1>5. \A i \in Member : output'[i] = o /\ share'[i].seckey = evaluate_x(poly, i)
  BY <1>2, <1>3
<1>6. 1 \in Member
  BY SmallNumbers
<1>7. /\ \A k \in Member : zeros[k] = None
      /\ rescue = NoRescue
      /\ \A k \in Member : epoch[k] # None => epoch[k] = {}
  BY <1>4, <1>6, NotStarted
<1>8. DrawnEpochs'
  BY <1>3 DEF HeldInv, DrawnEpochs
<1>9. StartedReady' /\ RescueFits'
  BY <1>3, <1>7 DEF StartedReady, RescueFits
<1>10. OneGroup'
  BY <1>2, <1>5 DEF OneGroup
<1>11. SharesFit'
  <2> SUFFICES ASSUME NEW i \in Member, epoch'[i] # None
               PROVE  share'[i].seckey = evaluate_x(EpochPoly(output'[i], zeros', epoch'[i]), i)
    BY DEF SharesFit
  <2>1. epoch'[i] = {} /\ zeros' = zeros /\ output'[i] = o /\ i \in Int
    BY <1>3, <1>5, <1>7, SmallNumbers
  <2>2. evaluate_x(EpochPoly(o, zeros, {}), i) = evaluate_x(KeyPoly(o), i)
    BY <1>2, <2>1, EpochNone DEF Fits
  <2> QED
    BY <1>2, <1>5, <2>1, <2>2
<1> QED
  BY <1>8, <1>9, <1>10, <1>11 DEF HeldInv

(* A first round of a DKG keeps it (Round1).                               *)
LEMMA RoundOneHeld ==
  HeldInv /\ TypedInv /\ (\E i \in Member : \E poly \in Polynomials(i) : Round1(i, poly)) => HeldInv'
<1> SUFFICES ASSUME HeldInv, TypedInv, NEW i \in Member, NEW poly \in Polynomials(i), Round1(i, poly)
             PROVE  HeldInv'
  OBVIOUS
<1>1. coeffs[i] = None /\ output[i] = None /\ arrived' = arrived /\ output' = output /\ share' = share
      /\ zeros' = zeros /\ epoch' = epoch /\ rescue' = rescue
  BY DEF Round1
<1>2. \A j \in Member : output[j] = None
  BY <1>1 DEF HeldInv, OneGroup, AllDrawn
<1>3. /\ \A k \in Member : zeros[k] = None
      /\ rescue = NoRescue
  BY <1>1, NotStarted
<1>4. DrawnEpochs'
  BY <1>1 DEF HeldInv, DrawnEpochs
<1>5. StartedReady' /\ RescueFits'
  BY <1>1, <1>3 DEF StartedReady, RescueFits
<1>6. OneGroup' /\ SharesFit'
  BY <1>1, <1>2 DEF OneGroup, SharesFit, Whole
<1> QED
  BY <1>4, <1>5, <1>6 DEF HeldInv

(* A member that finalizes, with whatever packages, keeps it (Finalize).   *)
LEMMA FinalizeHeld ==
  HeldInv /\ TypedInv /\ (\E i \in Member : \E times \in Arrivals(i) : Finalize(i, times)) => HeldInv'
<1> SUFFICES ASSUME HeldInv, TypedInv, NEW i \in Member, NEW times \in Arrivals(i), Finalize(i, times)
             PROVE  HeldInv'
  OBVIOUS
<1> DEFINE out == dkg_finalize(i, coeffs[i], Received(i, times), AllCommits)
           o == [group |-> out.group, vss_commits |-> out.vss_commits]
<1>1. /\ output' = [output EXCEPT ![i] = o] /\ share' = [share EXCEPT ![i] = out.share]
      /\ arrived' = [arrived EXCEPT ![i] = times]
      /\ coeffs' = coeffs /\ zeros' = zeros /\ epoch' = epoch /\ rescue' = rescue
      /\ AllDrawn /\ output[i] = None
  BY DEF Finalize
<1>2. o.group = out.group /\ o.vss_commits = out.vss_commits
  OBVIOUS
<1>3. CoeffsTyped /\ DOMAIN output = Member /\ DOMAIN share = Member /\ DOMAIN arrived = Member
  BY DEF TypedInv, OutputTyped, ShareTyped, ArrivedTyped
<1> HIDE DEF o
<1>4. Fits(o) /\ o.vss_commits = MergedCommits(AllCommits)
  BY <1>1, <1>2, <1>3, DkgFits
<1> HIDE DEF out
<1>5. /\ \A j \in Member : output'[j] = IF j = i THEN o ELSE output[j]
      /\ \A j \in Member : share'[j] = IF j = i THEN out.share ELSE share[j]
      /\ \A j \in Member : arrived'[j] = IF j = i THEN times ELSE arrived[j]
  BY <1>1, <1>3
<1>6. /\ \A k \in Member : zeros[k] = None
      /\ rescue = NoRescue
      /\ \A k \in Member : epoch[k] # None => epoch[k] = {}
  BY <1>1, NotStarted
<1>7. DrawnEpochs'
  BY <1>1 DEF HeldInv, DrawnEpochs
<1>8. StartedReady' /\ RescueFits'
  BY <1>1, <1>6 DEF StartedReady, RescueFits
<1>9. OneGroup'
  <2>1. AllCommits' = AllCommits /\ AllDrawn'
    BY <1>1 DEF AllCommits, AllDrawn
  <2>2. \A j \in Member : output[j] # None => Fits(output[j]) /\ output[j].vss_commits = MergedCommits(AllCommits)
    BY <1>1 DEF HeldInv, OneGroup
  <2>3. \A j \in Member : output'[j] # None => Fits(output'[j]) /\ output'[j].vss_commits = MergedCommits(AllCommits)
    BY <1>4, <1>5, <2>2
  <2> QED
    BY <2>1, <2>3 DEF OneGroup
<1>10. SharesFit'
  <2> SUFFICES ASSUME NEW j \in Member, share'[j] # None, Whole(j)', epoch'[j] # None
               PROVE  share'[j].seckey = evaluate_x(EpochPoly(output'[j], zeros', epoch'[j]), j)
    BY DEF SharesFit
  <2>1. epoch'[j] = {} /\ zeros' = zeros /\ epoch' = epoch /\ j \in Int
    BY <1>1, <1>6, SmallNumbers
  <2>2. CASE j = i
    <3>1. times = Others(i)
      <4>1. arrived'[j] = times /\ arrived'[j] \in {None, Others(j)}
        BY <1>5, <2>2 DEF Whole
      <4>2. times \in [1..N -> 0..2]
        <5>1. \A k \in Member : Others(i)[k] \in 0..2
          BY DEF Others
        <5> QED
          BY <5>1 DEF Arrivals, Others, Member
      <4>3. times # None
        BY <4>2, NoneAssumption
      <4> QED
        BY <2>2, <4>1, <4>3
    <3>2. out.share.seckey = evaluate_x(KeyPoly(o), i)
      BY <1>1, <1>3, <1>4, <3>1, DkgShare DEF out
    <3>3. evaluate_x(EpochPoly(o, zeros, {}), i) = evaluate_x(KeyPoly(o), i)
      BY <1>4, <2>1, <2>2, EpochNone DEF Fits
    <3>4. output'[j] = o /\ share'[j] = out.share
      BY <1>5, <2>2
    <3> QED
      BY <2>1, <2>2, <3>2, <3>3, <3>4
  <2>3. CASE j # i
    <3>1. output'[j] = output[j] /\ share'[j] = share[j] /\ arrived'[j] = arrived[j]
      BY <1>5, <2>3
    <3>2. Whole(j)
      BY <3>1 DEF Whole
    <3> QED
      BY <2>1, <3>1, <3>2 DEF HeldInv, SharesFit
  <2> QED
    BY <2>2, <2>3
<1> QED
  BY <1>7, <1>8, <1>9, <1>10 DEF HeldInv

(* Drawing refresh packages keeps it (DrawZeros).                          *)
LEMMA ZerosDrawnHeld ==
  HeldInv /\ TypedInv /\ (\E i \in Member : \E sub \in RefreshDraws(i) : DrawZeros(i, sub)) => HeldInv'
<1> SUFFICES ASSUME HeldInv, TypedInv, NEW i \in Member, NEW sub \in RefreshDraws(i), DrawZeros(i, sub)
             PROVE  HeldInv'
  OBVIOUS
<1>1. /\ Ready /\ zeros[i] = None /\ UNCHANGED setup /\ zeros' = [zeros EXCEPT ![i] = sub]
      /\ output' = output /\ share' = share /\ epoch' = epoch /\ rescue' = rescue
  BY DEF DrawZeros, setup
<1>2. OneGroup' /\ Ready' /\ \A j \in Member : Whole(j)' = Whole(j)
  BY <1>1, GroupStays
<1>3. \A k \in Member : zeros[k] # None => zeros'[k] = zeros[k]
  BY <1>1 DEF TypedInv, ZerosTyped
<1>4. \A e : HasDrawn(zeros, e) =>
        HasDrawn(zeros', e) /\ \A o : EpochPoly(o, zeros', e) = EpochPoly(o, zeros, e)
  BY <1>3, DrawsStay
<1>5. DrawnEpochs'
  BY <1>1, <1>4 DEF HeldInv, DrawnEpochs
<1>6. StartedReady'
  BY <1>2 DEF StartedReady
<1>7. SharesFit'
  <2> SUFFICES ASSUME NEW j \in Member, share'[j] # None, Whole(j)', epoch'[j] # None
               PROVE  share'[j].seckey = evaluate_x(EpochPoly(output'[j], zeros', epoch'[j]), j)
    BY DEF SharesFit
  <2>1. share[j].seckey = evaluate_x(EpochPoly(output[j], zeros, epoch[j]), j)
    BY <1>1, <1>2 DEF HeldInv, SharesFit
  <2>2. HasDrawn(zeros, epoch[j])
    BY <1>1 DEF HeldInv, DrawnEpochs
  <2> QED
    BY <1>1, <1>4, <2>1, <2>2
<1>8. RescueFits'
  <2> SUFFICES ASSUME rescue # NoRescue PROVE RescueFits'
    BY <1>1 DEF RescueFits
  <2>1. ASSUME NEW g \in rescue.given PROVE Answered(rescue, output, zeros', g)
    <3>1. Answered(rescue, output, zeros, g)
      BY DEF HeldInv, RescueFits
    <3> QED
      BY <1>4, <3>1 DEF Answered
  <2> QED
    BY <1>1, <2>1 DEF HeldInv, RescueFits
<1> QED
  BY <1>2, <1>5, <1>6, <1>7, <1>8 DEF HeldInv

(* A refresh with the packages of any members keeps it (Refresh).          *)
LEMMA RefreshHeld ==
  /\ HeldInv /\ TypedInv
  /\ \E i \in Member : \E senders \in SUBSET {k \in Member : zeros[k] # None} : Refresh(i, senders)
  => HeldInv'
<1> SUFFICES ASSUME HeldInv, TypedInv, NEW i \in Member,
                    NEW senders \in SUBSET {k \in Member : zeros[k] # None}, Refresh(i, senders)
             PROVE  HeldInv'
  OBVIOUS
<1> DEFINE pkgs == SetToSeq({gen_refresh_shares(k, zeros[k], N) : k \in senders})
           new == refresh_share([n \in DOMAIN pkgs |-> pkgs[n].shares[i]], share[i])
<1>1. /\ share[i] # None /\ epoch[i] # None /\ senders # {} /\ senders \cap epoch[i] = {}
      /\ UNCHANGED setup /\ share' = [share EXCEPT ![i] = new]
      /\ epoch' = [epoch EXCEPT ![i] = @ \cup senders]
      /\ output' = output /\ zeros' = zeros /\ rescue' = rescue
  BY DEF Refresh, setup
<1>2. HasDrawn(zeros, senders) /\ HasDrawn(zeros, epoch[i]) /\ HasDrawn(zeros, epoch[i] \cup senders)
  BY <1>1 DEF HeldInv, DrawnEpochs, HasDrawn
<1>3. Ready
  BY <1>1, <1>2 DEF HeldInv, StartedReady, HasDrawn
<1>4. OneGroup' /\ Ready' /\ \A j \in Member : Whole(j)' = Whole(j)
  BY <1>1, <1>3, GroupStays
<1>5. output[i].vss_commits \in [1..T -> Point]
  BY <1>3 DEF HeldInv, OneGroup, Fits, Ready, Whole
<1>6. share[i].seckey = evaluate_x(EpochPoly(output[i], zeros, epoch[i]), i)
  BY <1>1, <1>3 DEF HeldInv, SharesFit, Ready
<1>7. new.seckey = evaluate_x(EpochPoly(output[i], zeros, epoch[i] \cup senders), i)
  <2>1. ZerosTyped /\ pkgs = SetToSeq({gen_refresh_shares(k, zeros[k], N) : k \in senders})
    BY DEF TypedInv
  <2> HIDE DEF pkgs
  <2> QED
    BY <1>1, <1>2, <1>5, <1>6, <2>1, RefreshShare
<1> HIDE DEF new
<1>8. /\ \A j \in Member : share'[j] = IF j = i THEN new ELSE share[j]
      /\ \A j \in Member : epoch'[j] = IF j = i THEN epoch[i] \cup senders ELSE epoch[j]
  BY <1>1 DEF TypedInv, ShareTyped, EpochTyped
<1>9. DrawnEpochs'
  <2> SUFFICES ASSUME NEW j \in Member, epoch'[j] # None PROVE HasDrawn(zeros, epoch'[j])
    BY <1>1 DEF DrawnEpochs
  <2>1. CASE j = i
    BY <1>2, <1>8, <2>1
  <2>2. CASE j # i
    BY <1>8, <2>2 DEF HeldInv, DrawnEpochs
  <2> QED
    BY <2>1, <2>2
<1>10. StartedReady'
  BY <1>4 DEF StartedReady
<1>11. SharesFit'
  <2> SUFFICES ASSUME NEW j \in Member, share'[j] # None, Whole(j)', epoch'[j] # None
               PROVE  share'[j].seckey = evaluate_x(EpochPoly(output'[j], zeros', epoch'[j]), j)
    BY DEF SharesFit
  <2>1. CASE j = i
    BY <1>1, <1>7, <1>8, <2>1
  <2>2. CASE j # i
    <3>1. share'[j] = share[j] /\ epoch'[j] = epoch[j] /\ Whole(j)
      BY <1>4, <1>8, <2>2
    <3> QED
      BY <1>1, <3>1 DEF HeldInv, SharesFit
  <2> QED
    BY <2>1, <2>2
<1>12. RescueFits'
  BY <1>1 DEF HeldInv, RescueFits
<1> QED
  BY <1>4, <1>9, <1>10, <1>11, <1>12 DEF HeldInv

(* Losing a share keeps it (Lose).                                         *)
LEMMA LoseHeld == HeldInv /\ TypedInv /\ (\E i \in Losable : Lose(i)) => HeldInv'
<1> SUFFICES ASSUME HeldInv, TypedInv, NEW i \in Losable, Lose(i) PROVE HeldInv'
  OBVIOUS
<1>1. /\ Ready /\ UNCHANGED setup /\ share' = [share EXCEPT ![i] = None]
      /\ output' = output /\ zeros' = zeros /\ epoch' = epoch /\ rescue' = rescue
  BY DEF Lose, setup
<1>2. OneGroup' /\ Ready' /\ \A j \in Member : Whole(j)' = Whole(j)
  BY <1>1, GroupStays
<1>3. \A j \in Member : share'[j] # None => share'[j] = share[j]
  BY <1>1 DEF TypedInv, ShareTyped
<1>4. DrawnEpochs' /\ StartedReady' /\ RescueFits'
  BY <1>1, <1>2 DEF HeldInv, DrawnEpochs, StartedReady, RescueFits
<1>5. SharesFit'
  <2> SUFFICES ASSUME NEW j \in Member, share'[j] # None, Whole(j)', epoch'[j] # None
               PROVE  share'[j].seckey = evaluate_x(EpochPoly(output'[j], zeros', epoch'[j]), j)
    BY DEF SharesFit
  <2>1. share'[j] = share[j] /\ share[j] # None /\ Whole(j) /\ epoch[j] # None
    BY <1>1, <1>2, <1>3
  <2> QED
    BY <1>1, <2>1 DEF HeldInv, SharesFit
<1> QED
  BY <1>2, <1>4, <1>5 DEF HeldInv

(* A call for help keeps it (AskHelpers).                                  *)
LEMMA AskHeld ==
  HeldInv /\ TypedInv /\ (\E i \in Member : \E helpers \in SUBSET Member : AskHelpers(i, helpers)) => HeldInv'
<1> SUFFICES ASSUME HeldInv, TypedInv, NEW i \in Member, NEW helpers \in SUBSET Member, AskHelpers(i, helpers)
             PROVE  HeldInv'
  OBVIOUS
<1>1. /\ Ready /\ UNCHANGED setup /\ rescue' = [target |-> i, helpers |-> helpers, given |-> {}]
      /\ Cardinality(helpers) = T
      /\ output' = output /\ zeros' = zeros /\ epoch' = epoch /\ share' = share
  BY DEF AskHelpers, setup
<1>2. OneGroup' /\ Ready' /\ \A j \in Member : Whole(j)' = Whole(j)
  BY <1>1, GroupStays
<1>3. DrawnEpochs' /\ StartedReady' /\ RescueFits'
  BY <1>1, <1>2 DEF HeldInv, DrawnEpochs, StartedReady, RescueFits
<1>4. SharesFit'
  BY <1>1, <1>2 DEF HeldInv, SharesFit
<1> QED
  BY <1>2, <1>3, <1>4 DEF HeldInv

(* A helper's answer keeps it (Help).                                      *)
LEMMA HelpHeld ==
  HeldInv /\ TypedInv /\ (\E h \in Member : \E rand \in RecoveryDraws(h) : Help(h, rand)) => HeldInv'
<1> SUFFICES ASSUME HeldInv, TypedInv, NEW h \in Member, NEW rand \in RecoveryDraws(h), Help(h, rand)
             PROVE  HeldInv'
  OBVIOUS
<1> DEFINE pkg == gen_recovery_shares(rescue.helpers, share[h], rescue.target, rand)
           new == [pkg |-> pkg, epoch |-> epoch[h]]
<1>1. /\ h \in rescue.helpers /\ share[h] # None /\ ~Given(h)
      /\ UNCHANGED setup /\ rescue' = [rescue EXCEPT !.given = rescue.given \cup {new}]
      /\ output' = output /\ zeros' = zeros /\ epoch' = epoch /\ share' = share
  BY DEF Help, setup
<1>2. rescue # NoRescue
  BY <1>1 DEF NoRescue
<1>3. Ready
  BY <1>2 DEF HeldInv, StartedReady
<1>4. OneGroup' /\ Ready' /\ \A j \in Member : Whole(j)' = Whole(j)
  BY <1>1, <1>3, GroupStays
<1>5. DrawnEpochs' /\ StartedReady' /\ SharesFit'
  BY <1>1, <1>4 DEF HeldInv, DrawnEpochs, StartedReady, SharesFit
<1>6. /\ DOMAIN rescue = {"target", "helpers", "given"}
      /\ rescue.target \in Member /\ rescue.helpers \in SUBSET Member
  BY <1>2 DEF TypedInv, RescueTyped
<1>7. share[h] \in [idx : {h}, seckey : Scalar]
  BY <1>1 DEF TypedInv, ShareTyped
<1>8. rand \in [1..(T - 1) -> Scalar]
  BY DrawAssumption DEF Member
<1>9. Answers(pkg, rescue.helpers, rescue.target, share[h].seckey)
  BY <1>1, <1>6, <1>7, <1>8, HelpersPackage
<1>10. pkg.idx = h
  BY <1>7 DEF gen_recovery_shares
<1> HIDE DEF pkg
<1>11. new.pkg = pkg /\ new.epoch = epoch[h]
  OBVIOUS
<1> HIDE DEF new
<1>12. /\ rescue'.target = rescue.target /\ rescue'.helpers = rescue.helpers
       /\ rescue'.given = rescue.given \cup {new}
  BY <1>1, <1>6
<1>13. Answered(rescue, output, zeros, new)
  <2> SUFFICES ASSUME epoch[h] # None
               PROVE  /\ HasDrawn(zeros, epoch[h])
                      /\ Answers(pkg, rescue.helpers, rescue.target, evaluate_x(EpochPoly(output[h], zeros, epoch[h]), h))
    BY <1>10, <1>11 DEF Answered
  <2>1. share[h].seckey = evaluate_x(EpochPoly(output[h], zeros, epoch[h]), h)
    BY <1>1, <1>3 DEF HeldInv, SharesFit, Ready
  <2>2. HasDrawn(zeros, epoch[h])
    BY DEF HeldInv, DrawnEpochs
  <2> QED
    BY <1>9, <2>1, <2>2
<1>14. \A g \in rescue.given : Answered(rescue, output, zeros, g) /\ g.pkg.idx # h
  BY <1>1, <1>2 DEF HeldInv, RescueFits, Given
<1>15. \A g \in rescue'.given : Answered(rescue', output', zeros', g)
  <2>1. \A g : Answered(rescue', output', zeros', g) = Answered(rescue, output, zeros, g)
    BY <1>1, <1>12 DEF Answered
  <2> QED
    BY <1>12, <1>13, <1>14, <2>1
<1>16. \A f, g \in rescue'.given : f.pkg.idx = g.pkg.idx => f = g
  <2>1. \A f, g \in rescue.given : f.pkg.idx = g.pkg.idx => f = g
    BY <1>2 DEF HeldInv, RescueFits
  <2> QED
    BY <1>10, <1>11, <1>12, <1>14, <2>1
<1>17. RescueFits'
  <2>1. Cardinality(rescue'.helpers) = T
    BY <1>2, <1>12 DEF HeldInv, RescueFits
  <2> QED
    BY <1>15, <1>16, <2>1 DEF RescueFits
<1> QED
  BY <1>4, <1>5, <1>17 DEF HeldInv

(* The packages of those that answered, each with its own.                 *)
LEMMA PackagesCounted ==
  ASSUME NEW given, IsFiniteSet(given), \A g, h \in given : g.pkg.idx = h.pkg.idx => g = h
  PROVE  /\ IsFiniteSet({g.pkg : g \in given}) /\ Cardinality({g.pkg : g \in given}) = Cardinality(given)
<1> DEFINE P == {g.pkg : g \in given}
           f == [g \in given |-> g.pkg]
<1>1. f \in Surjection(given, P)
  BY DEF Surjection
<1>2. f \in Injection(given, P)
  <2>1. \A g, h \in given : f[g] = f[h] => g = h
    OBVIOUS
  <2> QED
    BY <2>1 DEF Injection, IsInjective
<1> HIDE DEF f, P
<1>3. IsFiniteSet(P) /\ Cardinality(P) = Cardinality(given)
  BY <1>1, <1>2, FS_Surjection
<1> QED
  BY <1>3 DEF P

(* A recovery keeps it, whatever was refreshed in between (Recover).       *)
LEMMA RecoverHeld == HeldInv /\ TypedInv /\ Recover => HeldInv'
<1> SUFFICES ASSUME HeldInv, TypedInv, Recover PROVE HeldInv'
  OBVIOUS
<1> DEFINE given == rescue.given
           P == {g.pkg : g \in given}
           pkgs == SetToSeq(P)
           epochs == {g.epoch : g \in given}
           i == rescue.target
           sums == [n \in 1..T |-> combine_set([k \in DOMAIN pkgs |-> pkgs[k].shares[n]])]
           new == recover_share(sums, i)
           common == IF Cardinality(epochs) = 1 THEN CHOOSE e \in epochs : TRUE ELSE None
<1>1. /\ rescue # NoRescue /\ Cardinality(given) = T /\ rescue' = NoRescue /\ UNCHANGED setup
      /\ share' = [share EXCEPT ![i] = new]
      /\ epoch' = [epoch EXCEPT ![i] = common]
      /\ output' = output /\ zeros' = zeros
  BY DEF Recover, setup
<1>2. /\ i \in Member /\ rescue.helpers \in SUBSET Member /\ IsFiniteSet(given)
      /\ Cardinality(rescue.helpers) = T
      /\ \A g, h \in given : g.pkg.idx = h.pkg.idx => g = h
      /\ \A g \in given : Answered(rescue, output, zeros, g) /\ g.pkg.idx \in rescue.helpers
  BY <1>1 DEF TypedInv, RescueTyped, GivenTyped, HeldInv, RescueFits
<1>3. Ready
  BY <1>1 DEF HeldInv, StartedReady
<1>4. OneGroup' /\ Ready' /\ \A j \in Member : Whole(j)' = Whole(j)
  BY <1>1, <1>3, GroupStays
<1>5. ASSUME common # None
      PROVE  HasDrawn(zeros, common) /\ new.seckey = evaluate_x(EpochPoly(output[i], zeros, common), i)
  <2> DEFINE poly == EpochPoly(output[i], zeros, common)
  <2>1. \A g \in given : g.epoch = common
    <3>1. Cardinality(epochs) = 1 /\ common = CHOOSE e \in epochs : TRUE
      BY <1>5
    <3> HIDE DEF common
    <3>2. \A g \in given : g.epoch \in epochs
      OBVIOUS
    <3> HIDE DEF epochs
    <3>3. \A e, f \in epochs : e = f
      <4>1. IsFiniteSet(epochs)
        <5> DEFINE f == [g \in given |-> g.epoch]
        <5>1. epochs = Image(f, given)
          BY DEF epochs, Image
        <5> HIDE DEF f, given, epochs
        <5> QED
          BY <1>2, <5>1, ImageFinite
      <4>2. \E e : epochs = {e}
        BY <3>1, <4>1, FS_Singleton
      <4> QED
        BY <4>2
    <3> QED
      BY <3>1, <3>2, <3>3
  <2>2. given # {}
    <3> HIDE DEF given
    <3> QED
      BY <1>1, FS_EmptySet, SmallNumbers
  <2>3. HasDrawn(zeros, common)
    BY <1>2, <1>5, <2>1, <2>2 DEF Answered
  <2>4. \A j \in Member : output[j] # None /\ output[j].vss_commits = output[i].vss_commits
                          /\ output[j].vss_commits \in [1..T -> Point]
    BY <1>2, <1>3 DEF HeldInv, OneGroup, Fits, Ready, Whole
  <2> HIDE DEF common, given, i
  <2>5. \A j \in Member : EpochPoly(output[j], zeros, common) = poly
    BY <2>4 DEF EpochPoly, KeyPoly
  <2>6. i \in Int
    BY <1>2, SmallNumbers
  <2>7. poly \in [1..T -> Int]
    BY <1>2, <2>3, <2>4, <2>6, EpochValue DEF TypedInv
  <2> HIDE DEF poly
  <2>8. \A g \in given : Answers(g.pkg, rescue.helpers, i, evaluate_x(poly, g.pkg.idx))
    <3> SUFFICES ASSUME NEW g \in given PROVE Answers(g.pkg, rescue.helpers, i, evaluate_x(poly, g.pkg.idx))
      OBVIOUS
    <3>1. g.epoch # None /\ g.epoch = common
      BY <1>5, <2>1
    <3>2. Answers(g.pkg, rescue.helpers, i, evaluate_x(EpochPoly(output[g.pkg.idx], zeros, g.epoch), g.pkg.idx))
      BY <1>2, <3>1 DEF Answered, i
    <3>3. g.pkg.idx \in Member
      BY <1>2
    <3> QED
      BY <2>5, <3>1, <3>2, <3>3
  <2>9. /\ IsFiniteSet(P) /\ Cardinality(P) = T
        /\ \A p, q \in P : p.idx = q.idx => p = q
        /\ \A p \in P : Answers(p, rescue.helpers, i, evaluate_x(poly, p.idx))
    <3>1. IsFiniteSet(P) /\ Cardinality(P) = T
      BY <1>1, <1>2, PackagesCounted
    <3>2. \A p, q \in P : p.idx = q.idx => p = q
      BY <1>2
    <3>3. \A p \in P : Answers(p, rescue.helpers, i, evaluate_x(poly, p.idx))
      BY <2>8
    <3> QED
      BY <3>1, <3>2, <3>3
  <2>10. pkgs = SetToSeq(P)
         /\ sums = [n \in 1..T |-> combine_set([k \in DOMAIN pkgs |-> pkgs[k].shares[n]])]
    OBVIOUS
  <2> HIDE DEF P, pkgs, sums
  <2>11. recover_share(sums, i).seckey = evaluate_x(poly, i)
    BY <1>2, <2>6, <2>7, <2>9, <2>10, RecoverShare
  <2> QED
    BY <2>3, <2>11 DEF poly
<1> HIDE DEF common, new, given, P, pkgs, epochs, sums
<1>6. /\ \A j \in Member : share'[j] = IF j = i THEN new ELSE share[j]
      /\ \A j \in Member : epoch'[j] = IF j = i THEN common ELSE epoch[j]
  BY <1>1 DEF TypedInv, ShareTyped, EpochTyped
<1>7. DrawnEpochs'
  <2> SUFFICES ASSUME NEW j \in Member, epoch'[j] # None PROVE HasDrawn(zeros, epoch'[j])
    BY <1>1 DEF DrawnEpochs
  <2>1. CASE j = i
    BY <1>5, <1>6, <2>1
  <2>2. CASE j # i
    BY <1>6, <2>2 DEF HeldInv, DrawnEpochs
  <2> QED
    BY <2>1, <2>2
<1>8. StartedReady' /\ RescueFits'
  BY <1>1, <1>4 DEF StartedReady, RescueFits
<1>9. SharesFit'
  <2> SUFFICES ASSUME NEW j \in Member, share'[j] # None, Whole(j)', epoch'[j] # None
               PROVE  share'[j].seckey = evaluate_x(EpochPoly(output'[j], zeros', epoch'[j]), j)
    BY DEF SharesFit
  <2>1. CASE j = i
    BY <1>1, <1>5, <1>6, <2>1
  <2>2. CASE j # i
    <3>1. share'[j] = share[j] /\ epoch'[j] = epoch[j] /\ Whole(j)
      BY <1>4, <1>6, <2>2
    <3> QED
      BY <1>1, <3>1 DEF HeldInv, SharesFit
  <2> QED
    BY <2>1, <2>2
<1> QED
  BY <1>4, <1>7, <1>8, <1>9 DEF HeldInv

(* No step breaks the invariant (Next).                                    *)
LEMMA HeldInductive == HeldInv /\ TypedInv /\ [Next]_vars => HeldInv'
<1> SUFFICES ASSUME HeldInv, TypedInv, [Next]_vars PROVE HeldInv'
  OBVIOUS
<1>1. CASE Next
  BY <1>1, DealHeld, RoundOneHeld, FinalizeHeld, ZerosDrawnHeld, RefreshHeld, LoseHeld, AskHeld, HelpHeld,
     RecoverHeld DEF Next
<1>2. CASE UNCHANGED vars
  <2>1. UNCHANGED setup /\ output' = output /\ share' = share /\ zeros' = zeros /\ epoch' = epoch /\ rescue' = rescue
    BY <1>2 DEF vars, setup
  <2>2. OneGroup' /\ (Ready => Ready') /\ \A j \in Member : Whole(j)' = Whole(j)
    BY <2>1, GroupStays
  <2>3. DrawnEpochs' /\ StartedReady' /\ SharesFit' /\ RescueFits'
    BY <2>1, <2>2 DEF HeldInv, DrawnEpochs, StartedReady, SharesFit, RescueFits
  <2> QED
    BY <2>2, <2>3 DEF HeldInv
<1> QED
  BY <1>1, <1>2

(* So it always holds.                                                     *)
LEMMA StaysHeld == Spec => [](TypedInv /\ HeldInv)
BY InitTyped, TypedInductive, InitHeld, HeldInductive, PTL DEF Spec

-----------------------------------------------------------------------------
(* What the shares of enough members with the same refreshes are: values   *)
(* of one polynomial, which has the secret of the group key at its root.   *)

Sharing(S, p, key) ==
  /\ S \in SUBSET Member /\ Cardinality(S) >= T /\ S # {}
  /\ p \in [1..T -> Int]
  /\ \A i \in S : share[i].idx = i /\ share[i].seckey \in Scalar /\ share[i].seckey = evaluate_x(p, i)
  /\ key \in Point /\ evaluate_x(p, 0) = key.dlog

(* What a quorum holds are the values of one polynomial whose constant     *)
(* term is the key.                                                        *)
LEMMA QuorumsShare ==
  ASSUME TypedInv, HeldInv, NEW S \in Quorums
  PROVE  \E p : Sharing(S, p, KeyOf(S))
<1>1. PICK e \in SUBSET Member : S \in SUBSET Holders(e) /\ Cardinality(S) >= T
  BY DEF Quorums
<1>2. S \in SUBSET Member /\ e # None
  BY <1>1, NoneAssumption DEF Holders, Member
<1>3. S # {}
  <2>1. T \in Nat /\ T >= 1 /\ Cardinality({}) = 0
    BY FS_EmptySet, ThresholdAssumption, CountAssumption, OrderAssumption
  <2> QED
    BY <1>1, <2>1
<1> DEFINE c == CHOOSE i \in S : TRUE
           o == output[c]
           p == EpochPoly(o, zeros, e)
<1>4. c \in S
  BY <1>3
<1> HIDE DEF c
<1>5. \A i \in S : Whole(i) /\ share[i] # None /\ epoch[i] = e
  BY <1>1 DEF Holders
<1>6. /\ o.vss_commits \in [1..T -> Point] /\ o.group.group_pk = o.vss_commits[1]
      /\ \A i \in S : output[i].vss_commits = o.vss_commits
  BY <1>2, <1>4, <1>5 DEF HeldInv, OneGroup, Fits, Whole
<1>7. HasDrawn(zeros, e)
  BY <1>2, <1>4, <1>5 DEF HeldInv, DrawnEpochs
<1>8. ASSUME NEW i \in S
      PROVE  share[i].idx = i /\ share[i].seckey \in Scalar /\ share[i].seckey = evaluate_x(p, i)
  <2>1. share[i] \in [idx : {i}, seckey : Scalar]
    BY <1>2, <1>5 DEF TypedInv, ShareTyped
  <2>2. share[i].seckey = evaluate_x(EpochPoly(output[i], zeros, e), i)
    BY <1>2, <1>5 DEF HeldInv, SharesFit
  <2>3. EpochPoly(output[i], zeros, e) = p
    BY <1>6 DEF EpochPoly, KeyPoly
  <2> QED
    BY <2>1, <2>2, <2>3
<1> HIDE DEF o
<1>9. evaluate_x(p, 0) = o.vss_commits[1].dlog
  BY <1>6, <1>7, EpochRoot DEF TypedInv
<1>10. p \in [1..T -> Int]
  <2> DEFINE x == 0
  <2>1. x \in Int
    OBVIOUS
  <2> HIDE DEF x
  <2> QED
    BY <1>6, <1>7, <2>1, EpochValue DEF TypedInv
<1>11. KeyOf(S) = o.vss_commits[1] /\ 1 \in 1..T
  BY <1>6, SmallNumbers DEF KeyOf, o, c
<1>12. KeyOf(S) \in Point
  BY <1>6, <1>11
<1> HIDE DEF p
<1> QED
  BY <1>1, <1>2, <1>3, <1>8, <1>9, <1>10, <1>11, <1>12 DEF Sharing

(* So they open the key.                                                   *)
LEMMA SharesOpen ==
  ASSUME NEW S, NEW p, NEW key, Sharing(S, p, key)
  PROVE  Opens(S, share, key)
<1> DEFINE n == T
<1>1. IndexSet(S)
  BY MemberSets DEF Sharing
<1>2. n \in Nat /\ p \in [1..n -> Int] /\ Cardinality(S) >= n
  BY SmallNumbers DEF Sharing
<1>3. \A i \in S : share[i].idx = i /\ share[i].seckey \in Int /\ share[i].seckey = evaluate_x(p, i)
  BY SmallNumbers DEF Sharing
<1>4. key \in Point /\ evaluate_x(p, 0) = key.dlog
  BY DEF Sharing
<1> HIDE DEF n
<1> QED
  BY <1>1, <1>2, <1>3, <1>4, ValuesOpen

(* So they interpolate to it (derive_shares_secret).                       *)
LEMMA SharesReveal ==
  ASSUME NEW S, NEW p, NEW key, Sharing(S, p, key)
  PROVE  get_pubkey(derive_shares_secret(SharesOf(S))) = key
<1> DEFINE points == SecretKeys(S, share)
<1>1. \A i \in S : share[i].idx = i
  BY DEF Sharing
<1>2. derive_shares_secret(SharesOf(S)) = interpolate_root(points)
  <2> DEFINE D == {s.idx : s \in SharesOf(S)}
             found == [i \in D |-> (CHOOSE s \in SharesOf(S) : s.idx = i).seckey]
  <2>1. D = S
    BY <1>1 DEF SharesOf
  <2>2. ASSUME NEW i \in S PROVE (CHOOSE s \in SharesOf(S) : s.idx = i) = share[i]
    <3>1. share[i] \in SharesOf(S) /\ share[i].idx = i
      BY <1>1 DEF SharesOf
    <3>2. \A s \in SharesOf(S) : s.idx = i => s = share[i]
      BY <1>1 DEF SharesOf
    <3> QED
      BY <3>1, <3>2
  <2>3. found = points
    <3>1. \A i \in S : found[i] = points[i]
      BY <2>1, <2>2 DEF SecretKeys
    <3>2. found = [i \in D |-> found[i]] /\ points = [i \in S |-> points[i]]
      BY DEF SecretKeys
    <3> HIDE DEF found, points
    <3> QED
      BY <2>1, <3>1, <3>2
  <2> QED
    BY <2>3 DEF derive_shares_secret
<1>3. get_pubkey(interpolate_root(points)) = key
  BY SharesOpen, OpensAtRoot
<1> QED
  BY <1>2, <1>3

(* Members whose shares contain the same refreshes, as many as the         *)
(* threshold asks, whoever lost and recovered a share and whatever         *)
(* packages came late, hold the secret of the group key: of any key, any   *)
(* number of members and any threshold (dkg_finalize, refresh_share,       *)
(* recover_share, derive_shares_secret).                                   *)
THEOREM QuorumsHoldTheKey == Spec => []QuorumHoldsKey
<1>1. TypedInv /\ HeldInv => QuorumHoldsKey
  BY QuorumsShare, SharesReveal DEF QuorumHoldsKey
<1> QED
  BY <1>1, StaysHeld, PTL

-----------------------------------------------------------------------------
(* Until they are refreshed, shares are what the group says they are       *)
(* (verify_dealer_package, verify_share).                                  *)
LEMMA RosterFits == TypedInv /\ HeldInv => RosterMatchesShares
<1> DEFINE held == {share[k] : k \in Holders({})}
<1> SUFFICES ASSUME TypedInv, HeldInv, NEW i \in Member, Whole(i)
             PROVE  /\ verify_dealer_package([group |-> output[i].group, shares |-> SetToSeq(held)])
                    /\ \A s \in held : verify_share(output[i].vss_commits, s, T)
  BY DEF RosterMatchesShares
<1> DEFINE p == KeyPoly(output[i])
<1>1. Fits(output[i])
  BY DEF HeldInv, OneGroup, Whole
<1>2. /\ p \in [1..T -> Scalar] /\ output[i].vss_commits = get_share_commits(p)
      /\ output[i].group.members = [k \in Member |-> [idx |-> k, pubkey |-> scalar_base_multi(evaluate_x(p, k))]]
  BY <1>1, KeyPolyTyped DEF Fits
<1>3. ASSUME NEW k \in Holders({})
      PROVE  k \in Member /\ share[k] = [idx |-> k, seckey |-> evaluate_x(p, k)]
  <2>1. k \in Member /\ Whole(k) /\ share[k] # None /\ epoch[k] = {} /\ {} # None /\ k \in Int
    BY NoneAssumption, SmallNumbers DEF Holders
  <2>2. share[k].seckey = evaluate_x(EpochPoly(output[k], zeros, {}), k)
    BY <2>1 DEF HeldInv, SharesFit
  <2>3. output[k].vss_commits = output[i].vss_commits
    BY <2>1 DEF HeldInv, OneGroup, Whole
  <2>4. EpochPoly(output[k], zeros, {}) = EpochPoly(output[i], zeros, {})
    BY <2>3 DEF EpochPoly, KeyPoly
  <2>5. evaluate_x(EpochPoly(output[i], zeros, {}), k) = evaluate_x(p, k)
    BY <1>1, <2>1, EpochNone DEF Fits
  <2>6. share[k] \in [idx : {k}, seckey : Scalar]
    BY <2>1 DEF TypedInv, ShareTyped
  <2> HIDE DEF p
  <2> QED
    BY <2>1, <2>2, <2>4, <2>5, <2>6
<1> HIDE DEF p
<1>4. ToSet(SetToSeq(held)) = held
  <2> DEFINE f == [k \in Holders({}) |-> share[k]]
  <2>1. IsFiniteSet(Holders({}))
    <3>1. Holders({}) \in SUBSET Member
      BY DEF Holders
    <3> QED
      BY <3>1, MemberSets
  <2>2. held = Image(f, Holders({}))
    BY DEF Image
  <2>3. IsFiniteSet(held)
    <3> HIDE DEF held, f
    <3> QED
      BY <2>1, <2>2, ImageFinite
  <2> QED
    BY <2>3, ListedInFull
<1>5. ASSUME NEW s \in held PROVE is_group_member(output[i].group, s)
  <2>1. PICK k \in Holders({}) : s = share[k]
    OBVIOUS
  <2> DEFINE m == output[i].group.members
  <2>2. m[k] \in ToSet(m) /\ m[k].idx = k /\ m[k].pubkey = scalar_base_multi(evaluate_x(p, k))
    <3>1. k \in Member
      BY <1>3
    <3>2. m = [j \in Member |-> [idx |-> j, pubkey |-> scalar_base_multi(evaluate_x(p, j))]]
      BY <1>2
    <3> HIDE DEF m
    <3>3. DOMAIN m = Member /\ m[k] = [idx |-> k, pubkey |-> scalar_base_multi(evaluate_x(p, k))]
      BY <3>1, <3>2
    <3> QED
      BY <3>1, <3>3 DEF ToSet
  <2>3. s.idx = k /\ get_pubkey(s.seckey) = scalar_base_multi(evaluate_x(p, k))
    <3>1. s = [idx |-> k, seckey |-> evaluate_x(p, k)]
      BY <1>3, <2>1
    <3> QED
      BY <3>1 DEF get_pubkey
  <2> HIDE DEF m
  <2> QED
    BY <2>2, <2>3 DEF is_group_member, m
<1>6. ASSUME NEW s \in held PROVE verify_share(output[i].vss_commits, s, T)
  <2>1. PICK k \in Holders({}) : s = share[k]
    OBVIOUS
  <2>2. k \in Member /\ s = [idx |-> k, seckey |-> evaluate_x(p, k)] /\ k \in Int
    BY <1>3, <2>1, SmallNumbers
  <2> DEFINE v == evaluate_x(p, k)
  <2>3. k \in 1..N
    BY <2>2 DEF Member
  <2>4. v \in Scalar
    <3> DEFINE n == T
    <3>1. n \in Nat /\ p \in [1..n -> Int]
      BY <1>2, SmallNumbers
    <3> HIDE DEF n
    <3> QED
      BY <2>2, <3>1, EvaluateTyped
  <2> HIDE DEF v
  <2>5. verify_share(get_share_commits(p), [idx |-> k, seckey |-> v], T)
    BY <1>2, <2>3, <2>4, ShareVerifies DEF v
  <2> QED
    BY <1>2, <2>2, <2>5 DEF v
<1>7. verify_dealer_package([group |-> output[i].group, shares |-> SetToSeq(held)])
  <2> HIDE DEF held
  <2> QED
    BY <1>4, <1>5 DEF verify_dealer_package
<1> QED
  BY <1>6, <1>7

(* Until they are refreshed, the shares of members that finalized with     *)
(* every package, and those recovered in their place, are the ones every   *)
(* such member's group lists and its commitments prove                     *)
(* (verify_dealer_package, verify_share), however many members there are.  *)
THEOREM RosterMatchesHeldShares == Spec => []RosterMatchesShares
BY RosterFits, StaysHeld, PTL

-----------------------------------------------------------------------------
(* A package carries the share for each key (create_batched_ecdh_pkg,      *)
(* combine_batched_ecdh_pkgs).                                             *)
LEMMA QuorumAgrees ==
  ASSUME NEW S, NEW p, NEW key, Sharing(S, p, key), NEW ks \in SUBSET Int, NEW k \in ks
  PROVE  combine_batched_ecdh_pkgs(
           {create_batched_ecdh_pkg(S, {scalar_base_multi(j) : j \in ks}, share[i]) : i \in S})[scalar_base_multi(k)]
             = scalar_multi(key, k)
<1> DEFINE pks == {scalar_base_multi(j) : j \in ks}
           pkgs == {create_batched_ecdh_pkg(S, pks, share[i]) : i \in S}
           pk == scalar_base_multi(k)
           first == CHOOSE pkg \in pkgs : TRUE
<1>1. S # {} /\ \A i \in S : share[i].idx = i
  BY DEF Sharing
<1>2. pk \in pks
  OBVIOUS
<1>3. \A pkg \in pkgs : DOMAIN pkg.entries = pks
  <2> HIDE DEF pks
  <2> QED
    BY DEF create_batched_ecdh_pkg
<1>4. first \in pkgs
  <2>1. pkgs # {}
    BY <1>1
  <2> HIDE DEF pkgs
  <2> QED
    BY <2>1
<1>5. combine_batched_ecdh_pkgs(pkgs)[pk] = combine_ecdh_pkgs(pkgs, pk)
  <2>1. DOMAIN first.entries = pks
    BY <1>3, <1>4
  <2> HIDE DEF first, pkgs, pks, pk
  <2> QED
    BY <1>2, <2>1 DEF combine_batched_ecdh_pkgs, first
<1>6. {[idx |-> pkg.idx, pubkey |-> pkg.entries[pk]] : pkg \in pkgs} = {create_ecdh_share(S, share[i], pk) : i \in S}
  <2>1. ASSUME NEW i \in S
        PROVE  [idx |-> create_batched_ecdh_pkg(S, pks, share[i]).idx,
                pubkey |-> create_batched_ecdh_pkg(S, pks, share[i]).entries[pk]]
                 = create_ecdh_share(S, share[i], pk)
    <3> HIDE DEF pks, pk
    <3> QED
      BY <1>2 DEF create_batched_ecdh_pkg, create_ecdh_share
  <2> HIDE DEF pks, pk
  <2> QED
    BY <2>1
<1>7. combine_ecdh_pkgs(pkgs, pk) = derive_ecdh_secret({create_ecdh_share(S, share[i], pk) : i \in S})
  <2> HIDE DEF pkgs, pk
  <2> QED
    BY <1>6 DEF combine_ecdh_pkgs
<1>8. Opens(S, share, key) /\ k \in Int
  BY SharesOpen
<1> QED
  BY <1>5, <1>7, <1>8, QuorumDerives DEF EcdhShares

(* With any other key a quorum derives the secret its owner derives with   *)
(* the group key, however many members there are and which of them take    *)
(* part (create_batched_ecdh_pkg, combine_batched_ecdh_pkgs).              *)
THEOREM QuorumsAgreeOnSecrets == Spec => []EcdhAgrees
<1>1. TypedInv /\ HeldInv => EcdhAgrees
  <2> DEFINE ks == 1..(Q - 1)
  <2>1. ks \in SUBSET Int
    BY SmallNumbers
  <2> HIDE DEF ks
  <2>2. ASSUME TypedInv, HeldInv, NEW S \in Quorums, NEW k \in ks
        PROVE  combine_batched_ecdh_pkgs(
                 {create_batched_ecdh_pkg(S, {scalar_base_multi(j) : j \in ks}, share[i]) : i \in S})[scalar_base_multi(k)]
                   = scalar_multi(KeyOf(S), k)
    BY <2>1, <2>2, QuorumsShare, QuorumAgrees
  <2> QED
    BY <2>2 DEF EcdhAgrees, ks
<1> QED
  BY <1>1, StaysHeld, PTL

-----------------------------------------------------------------------------
(* Signing.  The nonce derivation is read as a number, as the other hashes *)
(* are.                                                                    *)
NonceHashIsNumber == \A seckey, code, domain : Hmac(seckey, code, domain) \in Int

(* What a quorum signs with: the nonces its members derive from their      *)
(* shares, and the packages they make in a session.                        *)
Derived(S) == [i \in S |-> derive_secret_nonce(share[i], i)]
Listed(S) == SetToSeq({generate_nonce_pair(share[i], i) : i \in S})
Packages(session, S) ==
  [i \in S |-> create_partial_sig_package(session, SessionCtx(session), share[i], Derived(S)[i])]

(* The nonces a quorum derives again are those it has listed               *)
(* (derive_secret_nonce, generate_nonce_pair).                             *)
LEMMA NoncesDerived ==
  ASSUME NonceHashIsNumber, NEW S, NEW key, Opens(S, share, key)
  PROVE  /\ \A i \in S : /\ Derived(S)[i].idx = i /\ Derived(S)[i].hidden_sn \in Int
                        /\ Derived(S)[i].binder_sn \in Int
         /\ NoncesFit(Listed(S), Len(Listed(S)), S, Derived(S))
         /\ \A i \in S : PublicNonce(Derived(S)[i]) \in ToSet(Listed(S))
<1> DEFINE sn == Derived(S)
<1>1. IsFiniteSet(S) /\ \A i \in S : share[i].idx = i
  BY OpensTyped DEF Opens
<1>2. ASSUME NEW i \in S PROVE sn[i].idx = i /\ sn[i].hidden_sn \in Int /\ sn[i].binder_sn \in Int
  <2>1. \A domain : mod_n(Hmac(share[i].seckey, i, domain)) \in Int
    BY ModIsScalar, IndexNumbers DEF NonceHashIsNumber
  <2> QED
    BY <1>1, <2>1 DEF Derived, derive_secret_nonce
<1>3. Listed(S) = SetToSeq({PublicNonce(sn[i]) : i \in S})
  BY DEF Listed, Derived, generate_nonce_pair
<1> HIDE DEF sn
<1>4. NoncesFit(Listed(S), Len(Listed(S)), S, sn) /\ \A i \in S : PublicNonce(sn[i]) \in ToSet(Listed(S))
  BY <1>1, <1>2, <1>3, NoncesListed
<1> QED
  BY <1>2, <1>4 DEF sn

(* What they sign combines (combine_signatures).                           *)
LEMMA QuorumCombines ==
  ASSUME SigningHashesAreNumbers, NonceHashIsNumber, NEW S, NEW p, NEW key, Sharing(S, p, key),
         NEW group, group.threshold = T, NEW session, session.group_pk = key,
         session.nonces = Listed(S), session.tweaks \in Seq(Int), CtxOk(SessionCtx(session))
  PROVE  CombineOk(session, SessionCtx(session), group, Image(Packages(session, S), S))
<1> DEFINE ctx == SessionCtx(session)
           pnonces == Listed(S)
           sn == Derived(S)
           sigs == Packages(session, S)
<1>1. Opens(S, share, key) /\ IsFiniteSet(S) /\ key \in Point
  BY SharesOpen, OpensTyped DEF Opens
<1>2. NoncesFit(pnonces, Len(pnonces), S, sn)
  BY <1>1, NoncesDerived
<1>3. ctx = get_group_signing_ctx(key, pnonces, session.message, session.tweaks)
  BY DEF SessionCtx
<1>4. ASSUME NEW i \in S PROVE sigs[i].idx = i /\ sigs[i].psig = sign_msg(ctx, share[i], sn[i]).psig
  BY <1>1 DEF Packages, create_partial_sig_package, Opens
<1> HIDE DEF ctx, pnonces, sn, sigs
<1>5. OneToOne(sigs, S)
  BY <1>4 DEF OneToOne
<1>6. SignedBy(ctx, S, share, sn, sigs)
  BY <1>4, <1>5 DEF SignedBy
<1>7. verify_final_sig(ctx, session.message, combine_partial_sigs(ctx, Image(sigs, S)))
  BY <1>1, <1>2, <1>3, <1>6, SignaturesCombine DEF ctx
<1>8. Cardinality(Image(sigs, S)) >= group.threshold
  <2>1. Cardinality(Image(sigs, S)) = Cardinality(S)
    BY <1>1, <1>5, ImageAsMany
  <2> QED
    BY <2>1 DEF Sharing
<1> QED
  BY <1>7, <1>8 DEF CombineOk, ctx, sigs

(* A member on the roster verifies alone (verify_partial_sig_package).     *)
LEMMA MemberVerifies ==
  ASSUME SigningHashesAreNumbers, NonceHashIsNumber, NEW S, NEW p, NEW key, Sharing(S, p, key),
         NEW session, session.group_pk = key,
         session.nonces = Listed(S), session.tweaks \in Seq(Int),
         NEW group, NEW i \in S, is_group_member(group, share[i])
  PROVE  verify_partial_sig_package(session, SessionCtx(session), group, Packages(session, S)[i])
<1> DEFINE ctx == SessionCtx(session)
           pnonces == Listed(S)
           sn == Derived(S)
           pkg == Packages(session, S)[i]
           sig == sign_msg(ctx, share[i], sn[i])
<1>1. /\ Opens(S, share, key) /\ IndexSet(S) /\ key \in Point
      /\ share[i].idx = i /\ share[i].seckey \in Int
  BY SharesOpen, OpensTyped DEF Opens
<1>2. /\ NoncesFit(pnonces, Len(pnonces), S, sn) /\ PublicNonce(sn[i]) \in ToSet(pnonces)
      /\ sn[i].idx = i /\ sn[i].hidden_sn \in Int /\ sn[i].binder_sn \in Int
  BY <1>1, NoncesDerived
<1>3. ctx = get_group_signing_ctx(key, pnonces, session.message, session.tweaks)
  BY DEF SessionCtx
<1>4. /\ pkg.idx = i /\ pkg.pubkey = get_pubkey(share[i].seckey) /\ pkg.sid = session.sid
      /\ pkg.psig = sig.psig /\ sig.pubkey = get_pubkey(share[i].seckey)
  BY <1>1 DEF Packages, create_partial_sig_package, sign_msg
<1>5. \E m \in ToSet(group.members) : m.pubkey = pkg.pubkey
  BY <1>4 DEF is_group_member
<1> HIDE DEF ctx, pnonces, sn, pkg, sig
<1>6. CtxTyped(ctx, i)
  BY <1>1, <1>2, <1>3, ContextFits DEF ctx
<1>7. verify_partial_sig(ctx, PublicNonce(sn[i]), sig.pubkey, sig.psig)
  BY <1>1, <1>2, <1>6, SignatureVerifies DEF sig
<1>8. PublicNonce(sn[i]).idx = i /\ PublicNonce(sn[i]) \in ToSet(session.nonces)
  BY <1>2 DEF PublicNonce, pnonces
<1>9. verify_partial_sig_package(session, ctx, group, pkg)
  BY <1>4, <1>5, <1>7, <1>8 DEF verify_partial_sig_package
<1> QED
  BY <1>9 DEF ctx, pkg

(* Before it is refreshed a share is on the roster of every member.        *)
LEMMA HeldOnRoster ==
  ASSUME TypedInv, HeldInv, NEW i \in Member, Whole(i), NEW k \in Holders({})
  PROVE  is_group_member(output[i].group, share[k])
<1> DEFINE H == Holders({})
           f == [j \in H |-> share[j]]
           held == {share[j] : j \in H}
<1>1. verify_dealer_package([group |-> output[i].group, shares |-> SetToSeq(held)])
  BY RosterFits DEF RosterMatchesShares
<1>2. H \in SUBSET Member
  BY DEF Holders
<1> HIDE DEF H
<1>3. IsFiniteSet(H) /\ held = Image(f, H) /\ share[k] \in held
  BY <1>2, MemberSets DEF Image, H
<1> HIDE DEF held, f
<1>4. IsFiniteSet(held)
  BY <1>3, ImageFinite
<1>5. ToSet(SetToSeq(held)) = held
  BY <1>4, ListedInFull
<1> QED
  BY <1>1, <1>3, <1>5 DEF verify_dealer_package

(* Any quorum signs, whatever tweaks the key is signed under and whatever  *)
(* was refreshed and recovered: the combined signature verifies, and       *)
(* before a refresh every partial signature verifies alone                 *)
(* (create_sign_session, create_partial_sig_package,                       *)
(* verify_partial_sig_package, combine_signatures).  For every field and   *)
(* number of members, threshold, draws, message and hashes.                *)
THEOREM QuorumsSign ==
  ASSUME SigningHashesAreNumbers, NonceHashIsNumber
  PROVE  Spec => []QuorumSigns
<1>1. ASSUME TypedInv, HeldInv, NEW S \in Quorums, NEW tweaks \in Tweakings,
             NEW group, group = output[CHOOSE i \in S : TRUE].group,
             NEW session, session = create_sign_session(group, S, Listed(S), Message, tweaks),
             CtxOk(SessionCtx(session))
      PROVE  /\ CombineOk(session, SessionCtx(session), group, Image(Packages(session, S), S))
             /\ (\E i \in S : epoch[i] = {}) =>
                  \A k \in S : verify_partial_sig_package(session, SessionCtx(session), group, Packages(session, S)[k])
  <2> DEFINE c == CHOOSE i \in S : TRUE
             key == KeyOf(S)
  <2>1. PICK p : Sharing(S, p, key)
    BY <1>1, QuorumsShare
  <2>2. PICK e \in SUBSET Member : S \in SUBSET Holders(e)
    BY DEF Quorums
  <2>3. c \in S /\ c \in Member /\ Whole(c) /\ group = output[c].group /\ key = group.group_pk
    BY <1>1, <2>1, <2>2 DEF Sharing, Holders, KeyOf
  <2>4. group.threshold = T
    BY <1>1, <2>3 DEF HeldInv, OneGroup, Fits, Whole
  <2>5. tweaks \in Seq(Int)
    <3>1. tweaks \in Seq(Nat)
      BY TweakAssumption
    <3> QED
      BY <3>1
  <2>6. /\ session.group_pk = key /\ session.nonces = Listed(S) /\ session.tweaks = tweaks
    BY <1>1, <2>3 DEF create_sign_session
  <2> HIDE DEF c, key
  <2>7. CombineOk(session, SessionCtx(session), group, Image(Packages(session, S), S))
    BY <1>1, <2>1, <2>4, <2>5, <2>6, QuorumCombines
  <2>8. ASSUME NEW i \in S, epoch[i] = {}, NEW k \in S
        PROVE  verify_partial_sig_package(session, SessionCtx(session), group, Packages(session, S)[k])
    <3>1. k \in Holders({})
      BY <2>2, <2>8 DEF Holders
    <3>2. is_group_member(group, share[k])
      BY <1>1, <2>3, <3>1, HeldOnRoster
    <3> QED
      BY <2>1, <2>5, <2>6, <3>2, MemberVerifies
  <2> QED
    BY <2>7, <2>8
<1>2. ASSUME NEW S, NEW session
      PROVE  {create_partial_sig_package(session, SessionCtx(session), share[i],
                [j \in S |-> derive_secret_nonce(share[j], j)][i]) : i \in S} = Image(Packages(session, S), S)
  BY DEF Image, Packages, Derived
<1>3. TypedInv /\ HeldInv => QuorumSigns
  <2> SUFFICES ASSUME TypedInv, HeldInv, NEW S \in Quorums, NEW tweaks \in Tweakings
               PROVE  LET group == output[CHOOSE i \in S : TRUE].group
                          snonce == [i \in S |-> derive_secret_nonce(share[i], i)]
                          nonces == SetToSeq({generate_nonce_pair(share[i], i) : i \in S})
                          session == create_sign_session(group, S, nonces, Message, tweaks)
                          ctx == SessionCtx(session)
                          pkgs == {create_partial_sig_package(session, ctx, share[i], snonce[i]) : i \in S}
                      IN  SessionOk(S, nonces) /\ CtxOk(ctx) =>
                            /\ CombineOk(session, ctx, group, pkgs)
                            /\ (\E i \in S : epoch[i] = {}) =>
                                 \A pkg \in pkgs : verify_partial_sig_package(session, ctx, group, pkg)
    BY DEF QuorumSigns
  <2> DEFINE group == output[CHOOSE i \in S : TRUE].group
             session == create_sign_session(group, S, Listed(S), Message, tweaks)
  <2> HIDE DEF group, session
  <2>1. ASSUME CtxOk(SessionCtx(session))
        PROVE  /\ CombineOk(session, SessionCtx(session), group, Image(Packages(session, S), S))
               /\ (\E i \in S : epoch[i] = {}) =>
                    \A pkg \in Image(Packages(session, S), S) :
                      verify_partial_sig_package(session, SessionCtx(session), group, pkg)
    <3>1. /\ CombineOk(session, SessionCtx(session), group, Image(Packages(session, S), S))
          /\ (\E i \in S : epoch[i] = {}) =>
               \A k \in S : verify_partial_sig_package(session, SessionCtx(session), group, Packages(session, S)[k])
      BY <1>1, <2>1 DEF group, session
    <3> QED
      BY <3>1 DEF Image
  <2>2. Image(Packages(session, S), S)
          = {create_partial_sig_package(session, SessionCtx(session), share[i],
               [j \in S |-> derive_secret_nonce(share[j], j)][i]) : i \in S}
    BY <1>2
  <2> QED
    BY <2>1, <2>2 DEF group, session, Listed
<1> QED
  BY <1>3, StaysHeld, PTL
=============================================================================
