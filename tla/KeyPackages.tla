----------------------------- MODULE KeyPackages -----------------------------
(***************************************************************************)
(* How a group and its shares come to be: from a dealer (frost/dealer.rs)  *)
(* or by distributed key generation (frost/dkg.rs), where each participant *)
(* deals a key of its own and the group key is their sum.                  *)
(***************************************************************************)
EXTENDS Shares

CONSTANTS
  T,                \* the signing threshold
  PopNonce(_, _),   \* the hash of a0 and idx a proof of possession draws its nonce from
  PopHash(_, _, _)  \* the challenge hash of a proof of possession: idx, C0 and R

ASSUME ThresholdAssumption == T \in 1..N
ASSUME PopHashAssumption ==
  /\ \A a0 \in Scalar, idx \in 1..N : PopNonce(a0, idx) \in Int
  /\ \A idx \in 1..N : \A c0, r \in Point : PopHash(idx, c0, r) \in Int

MemberPackage == [idx : 1..N, pubkey : Point]
GroupPackage == [group_pk : Point, threshold : {T}, members : Seq(MemberPackage)]

get_pubkey(seckey) == scalar_base_multi(seckey)

-----------------------------------------------------------------------------
(* Dealer.                                                                 *)

generate_dealer_package(coeffs) ==
  LET shares == create_shares(coeffs, N)
  IN  [group |-> [group_pk |-> get_share_commits(coeffs)[1],
                  threshold |-> Len(coeffs),
                  members |-> [i \in 1..N |-> [idx |-> i, pubkey |-> get_pubkey(shares[i].seckey)]]],
       shares |-> shares]

(* The members are in the order of their indices, which are not hashed.    *)
get_group_id(group) ==
  <<group.group_pk, group.threshold, [k \in DOMAIN group.members |-> group.members[k].pubkey]>>

is_group_member(group, share) ==
  \E m \in ToSet(group.members) :
    m.idx = share.idx /\ m.pubkey = get_pubkey(share.seckey)

verify_dealer_package(pkg) ==
  \A share \in ToSet(pkg.shares) : is_group_member(pkg.group, share)

-----------------------------------------------------------------------------
(* Round 1: commitments to a polynomial, with a Schnorr proof that its     *)
(* author knows the constant term.                                         *)

create_dkg_pop(idx, a0) ==
  LET digest == mod_n(PopNonce(a0, idx))
      k == IF digest = 0 THEN 1 ELSE digest
      e == mod_n(PopHash(idx, scalar_base_multi(a0), scalar_base_multi(k)))
  IN  [r |-> scalar_base_multi(k), z |-> mod_n(k + e * a0)]

(* Mutant: the challenge leaves out whose proof it is.                     *)
verify_dkg_pop_any(idx, c0, pop) ==
  LET e == mod_n(PopHash(0, c0, pop.r))
  IN  scalar_base_multi(pop.z) = element_add(pop.r, scalar_multi(c0, e))

verify_dkg_pop(idx, c0, pop) ==
  LET e == mod_n(PopHash(idx, c0, pop.r))
  IN  scalar_base_multi(pop.z) = element_add(pop.r, scalar_multi(c0, e))

dkg_round1(idx, coeffs) ==
  [idx |-> idx, vss_commits |-> get_share_commits(coeffs),
   pop |-> create_dkg_pop(idx, Head(coeffs))]

-----------------------------------------------------------------------------
(* Round 2: a private share for each other participant.                    *)

dkg_round2(sender_idx, coeffs, recipient_idx) ==
  [sender_idx |-> sender_idx, recipient_idx |-> recipient_idx,
   seckey |-> evaluate_x(coeffs, recipient_idx)]

(* Mutant: a share is taken without a look at the commitments.             *)
verify_dkg_share_never(pkg, sender_commits) == TRUE

verify_dkg_share(pkg, sender_commits) ==
  verify_share(sender_commits.vss_commits,
               [idx |-> pkg.recipient_idx, seckey |-> pkg.seckey], T)

-----------------------------------------------------------------------------
(* Finalize.  received is a Vec: what it repeats is summed again, and what *)
(* it lacks is not missed.                                                 *)

sum_points(points) == element_add_many(points)

MergedCommits(all_commits) ==
  FoldLeft(LAMBDA acc, c : merge_share_commits(acc, c.vss_commits),
           Head(all_commits).vss_commits, Tail(all_commits))

(* Mutant: the constant terms are left out of the members' public keys.    *)
eval_vss_pubkey_tail(commits, idx) ==
  element_add_many([k \in DOMAIN commits |->
                      IF k = 1 THEN identity ELSE scalar_multi(commits[k], pow_n(idx, k - 1))])

eval_vss_pubkey(commits, idx) == CommitsAt(commits, idx, Len(commits))

(* When dkg_finalize returns Ok: every proof of possession and every share *)
(* received verifies, each against the commitments of its sender.          *)
FinalizeOk(received, all_commits) ==
  /\ \A c \in ToSet(all_commits) : verify_dkg_pop(c.idx, Head(c.vss_commits), c.pop)
  /\ \A pkg \in ToSet(received) :
       \E c \in ToSet(all_commits) : c.idx = pkg.sender_idx /\ verify_dkg_share(pkg, c)

(* What it returns: the sum of the shares, and the group of the summed     *)
(* commitments.  all_commits is sorted by idx.                             *)
dkg_finalize(my_idx, my_coeffs, received, all_commits) ==
  LET own == [idx |-> my_idx, seckey |-> dkg_round2(my_idx, my_coeffs, my_idx).seckey]
      others == [k \in DOMAIN received |-> [idx |-> my_idx, seckey |-> received[k].seckey]]
      vss == MergedCommits(all_commits)
  IN  [share |-> combine_set(<<own>> \o others),
       vss_commits |-> vss,
       group |->
         [group_pk |-> sum_points([k \in DOMAIN all_commits |-> Head(all_commits[k].vss_commits)]),
          threshold |-> T,
          members |-> [k \in DOMAIN all_commits |->
                         [idx |-> all_commits[k].idx,
                          pubkey |-> eval_vss_pubkey(vss, all_commits[k].idx)]]]]
=============================================================================
