-------------------------------- MODULE Shares --------------------------------
(***************************************************************************)
(* Shamir shares of a key, as frost-taproot makes, checks, refreshes,      *)
(* recovers and uses them (poly, shares, vss, group, refresh, recover,     *)
(* ecdh).  A polynomial is the sequence of its coefficients, the constant  *)
(* term first; random coefficients are arguments.  A Vec is a sequence     *)
(* where its order or a repetition matters, else a set.                    *)
(***************************************************************************)
EXTENDS Curve

CONSTANT N    \* the number of shares of a key

ASSUME CountAssumption == N \in 1..(Q - 1)

SecretShare == [idx : 1..N, seckey : Scalar]

-----------------------------------------------------------------------------
(* Polynomials.                                                            *)

evaluate_x(coeffs, x) ==
  FoldRight(LAMBDA coeff, value : mod_n(value * x + coeff), coeffs, 0)

ProductOf(f) == FoldFunction(LAMBDA v, acc : mod_n(acc * v), 1, f)

calc_lagrange_coeff(l, p, x) ==
  mod_n(ProductOf([j \in l \ {p} |-> x - j])
          * scalar_invert(ProductOf([j \in l \ {p} |-> p - j])))

(* The same at the root, with both signs turned.                           *)
interpolate_x(l, x) ==
  mod_n(ProductOf([j \in l \ {x} |-> j])
          * scalar_invert(ProductOf([j \in l \ {x} |-> j - x])))

(* points: a function from x-coordinates to values.                        *)
interpolate_root(points) ==
  mod_n(MapThenSumSet(LAMBDA x : interpolate_x(DOMAIN points, x) * points[x], DOMAIN points))

-----------------------------------------------------------------------------
(* Shares and commitments.                                                 *)

create_shares(coeffs, count) ==
  [i \in 1..count |-> [idx |-> i, seckey |-> evaluate_x(coeffs, i)]]

get_share_commits(coeffs) == [j \in DOMAIN coeffs |-> scalar_base_multi(coeffs[j])]

merge_share_commits(a, b) == [j \in DOMAIN a |-> element_add(a[j], b[j])]

(* Mutant: the sum is not reduced.                                         *)
combine_shares_unreduced(shares) ==
  FoldLeft(LAMBDA acc, s : acc + s.seckey, 0, shares)

combine_shares(shares) ==
  FoldLeft(LAMBDA acc, s : mod_n(acc + s.seckey), 0, shares)

(* Err if the indices differ.                                              *)
combine_set(shares) == [idx |-> Head(shares).idx, seckey |-> combine_shares(shares)]

derive_shares_secret(shares) ==
  interpolate_root([i \in {s.idx : s \in shares} |->
                      (CHOOSE s \in shares : s.idx = i).seckey])

(* The commitments of the first `threshold` coefficients at idx.           *)
CommitsAt(commits, idx, threshold) ==
  element_add_many([j \in 1..threshold |-> scalar_multi(commits[j], pow_n(idx, j - 1))])

(* Only the x-coordinates are compared.                                    *)
verify_share(commits, share, threshold) ==
  XOnly(scalar_base_multi(share.seckey)) = XOnly(CommitsAt(commits, share.idx, threshold))

-----------------------------------------------------------------------------
(* Refresh: shares of zero are added to a share.                           *)

gen_refresh_shares(index, sub_coeffs, share_max) ==
  [idx |-> index, vss_commits |-> get_share_commits(sub_coeffs),
   shares |-> create_shares(<<0>> \o sub_coeffs, share_max)]

refresh_share(refresh_shares, current_share) ==
  combine_set(<<current_share>> \o refresh_shares)

-----------------------------------------------------------------------------
(* Recovery: each of `threshold` helpers splits its part of the lost share *)
(* among the helpers; the sum of the sums is the share.  Err unless there  *)
(* are as many members as the threshold, all different.                    *)

sorted_members(members) == SetToSortSeq(members, <)

(* Mutant: the Lagrange coefficient at the root, not at the lost index.    *)
gen_recovery_shares_root(members, share, target, rand_coeffs) ==
  LET sorted == sorted_members(members)
      repair == interpolate_x(members, share.idx) * share.seckey
                  - FoldLeft(LAMBDA p, n : p + n, 0, rand_coeffs)
      repair_shares == Append(rand_coeffs, mod_n(repair))
  IN  [idx |-> share.idx, vss_commits |-> get_share_commits(repair_shares),
       shares |-> [i \in DOMAIN repair_shares |-> [idx |-> sorted[i], seckey |-> repair_shares[i]]]]

gen_recovery_shares(members, share, target, rand_coeffs) ==
  LET sorted == sorted_members(members)
      mbrs == members \ {share.idx}
      repair == calc_lagrange_coeff(mbrs, share.idx, target) * share.seckey
                  - FoldLeft(LAMBDA p, n : p + n, 0, rand_coeffs)
      repair_shares == Append(rand_coeffs, mod_n(repair))
  IN  [idx |-> share.idx, vss_commits |-> get_share_commits(repair_shares),
       shares |-> [i \in DOMAIN repair_shares |-> [idx |-> sorted[i], seckey |-> repair_shares[i]]]]

recover_share(shares, idx) == [idx |-> idx, seckey |-> combine_shares(shares)]

-----------------------------------------------------------------------------
(* ECDH: each member multiplies the other key by its part of the secret.   *)

(* Mutant: the interpolation is over all members of the group.             *)
create_ecdh_share_all(members, share, point) ==
  LET l_coeff == calc_lagrange_coeff((1..N) \ {share.idx}, share.idx, 0)
  IN  [idx |-> share.idx, pubkey |-> scalar_multi(point, mod_n(l_coeff * share.seckey))]

create_ecdh_share(members, share, point) ==
  LET l_coeff == calc_lagrange_coeff(members \ {share.idx}, share.idx, 0)
  IN  [idx |-> share.idx, pubkey |-> scalar_multi(point, mod_n(l_coeff * share.seckey))]

derive_ecdh_secret(shares) ==
  FoldSet(LAMBDA s, acc : element_add(acc, s.pubkey), identity, shares)

(* A package for several keys, and the secrets with the keys of the first  *)
(* package; Err if another package lacks one.                              *)
create_batched_ecdh_pkg(members, ecdh_pks, share) ==
  [idx |-> share.idx, members |-> members,
   entries |-> [pk \in ecdh_pks |-> create_ecdh_share(members, share, pk).pubkey]]

combine_ecdh_pkgs(pkgs, ecdh_pk) ==
  derive_ecdh_secret({[idx |-> pkg.idx, pubkey |-> pkg.entries[ecdh_pk]] : pkg \in pkgs})

combine_batched_ecdh_pkgs(pkgs) ==
  LET first == CHOOSE pkg \in pkgs : TRUE
  IN  [pk \in DOMAIN first.entries |-> combine_ecdh_pkgs(pkgs, pk)]
=============================================================================
