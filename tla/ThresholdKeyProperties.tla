------------------------ MODULE ThresholdKeyProperties ------------------------
(***************************************************************************)
(* What a threshold key must keep through its life.                        *)
(***************************************************************************)
EXTENDS ThresholdKey, FrostSigning

CONSTANTS
  Message,     \* a message to sign
  Tweakings    \* the tweaks it is signed under

(* A tweak is a 32-byte number.                                            *)
ASSUME TweakAssumption == Tweakings \subseteq Seq(Nat)

(* Every variable holds what the code's types allow; an output names every *)
(* member and carries as many commitments as the threshold.                *)
TypeOK ==
  /\ \A i \in Member :
       /\ coeffs[i] = None \/ coeffs[i] \in [1..T -> Scalar]
       /\ arrived[i] = None \/ arrived[i] \in [Member -> 0..2]
       /\ share[i] = None \/ share[i] \in [idx : {i}, seckey : Scalar]
       /\ zeros[i] = None \/ zeros[i] \in [1..(T - 1) -> Scalar]
       /\ epoch[i] = None \/ epoch[i] \subseteq Member
       /\ output[i] = None \/
            /\ output[i].vss_commits \in [1..T -> Point]
            /\ output[i].group.group_pk \in Point
            /\ output[i].group.members \in [Member -> MemberPackage]
  /\ rescue.target \in Member \cup {None} /\ rescue.helpers \subseteq Member
  /\ \A g \in rescue.given : g.pkg.idx \in rescue.helpers

(* The sets of members, enough of them to use the key, whose shares        *)
(* contain the same refresh shares.                                        *)
Holders(e) == {i \in Member : Whole(i) /\ share[i] # None /\ epoch[i] = e}
Quorums ==
  UNION {{S \in SUBSET Holders(e) : Cardinality(S) >= T} : e \in SUBSET Member}

SharesOf(S) == {share[i] : i \in S}
KeyOf(S) == output[CHOOSE i \in S : TRUE].group.group_pk

(* Whatever refresh packages were lost or came late, and whoever lost and  *)
(* recovered a share meanwhile: members whose shares contain the same      *)
(* refreshes, recovered shares included, hold the secret of the group key  *)
(* (derive_shares_secret).                                                 *)
QuorumHoldsKey ==
  \A S \in Quorums : get_pubkey(derive_shares_secret(SharesOf(S))) = KeyOf(S)

(* Until they are refreshed, the shares of members that finalized with     *)
(* every package once, and those recovered in their place, are the ones    *)
(* the group of every such member lists and its merged commitments prove   *)
(* (verify_dealer_package, verify_share), whoever else lost packages.      *)
RosterMatchesShares ==
  LET held == {share[k] : k \in Holders({})}
  IN  \A i \in Member : Whole(i) =>
        /\ verify_dealer_package([group |-> output[i].group, shares |-> SetToSeq(held)])
        /\ \A s \in held : verify_share(output[i].vss_commits, s, T)

(* Any quorum derives with any other keys the secrets that their owners    *)
(* derive with the group key, from packages each member computes alone     *)
(* (create_batched_ecdh_pkg, combine_batched_ecdh_pkgs).                   *)
EcdhAgrees ==
  LET ecdh_pks == {scalar_base_multi(k) : k \in 1..(Q - 1)}
  IN  \A S \in Quorums :
        LET secrets == combine_batched_ecdh_pkgs(
                         {create_batched_ecdh_pkg(S, ecdh_pks, share[i]) : i \in S})
        IN  \A k \in 1..(Q - 1) :
              secrets[scalar_base_multi(k)] = scalar_multi(KeyOf(S), k)

(* Any quorum signs, with nonces each member derives from its current      *)
(* share, whatever tweaks the key is signed under: the combined signature  *)
(* verifies, and while the roster is that of the shares each partial       *)
(* signature verifies alone.                                               *)
QuorumSigns ==
  \A S \in Quorums : \A tweaks \in Tweakings :
    LET group == output[CHOOSE i \in S : TRUE].group
        snonce == [i \in S |-> derive_secret_nonce(share[i], i)]
        nonces == SetToSeq({generate_nonce_pair(share[i], i) : i \in S})
        session == create_sign_session(group, S, nonces, Message, tweaks)
        ctx == SessionCtx(session)
        pkgs == {create_partial_sig_package(session, ctx, share[i], snonce[i]) : i \in S}
    IN  SessionOk(S, nonces) /\ CtxOk(ctx) =>
          /\ CombineOk(session, ctx, group, pkgs)
          /\ (\E i \in S : epoch[i] = {}) =>
               \A pkg \in pkgs : verify_partial_sig_package(session, ctx, group, pkg)

(* When all participants have called dkg_round1, whatever they drew,       *)
(* dkg_finalize accepts the packages of round 2 at every one of them.      *)
HonestRoundsFinalize ==
  AllDrawn => \A i \in Member : FinalizeOk(Received(i, Others(i)), AllCommits)

(* dkg_finalize refuses a round-2 share with any other value than the      *)
(* sender's polynomial has at the recipient, but for the negative of that  *)
(* value, which verify_share can not tell from it.                         *)
DamagedShareRefused ==
  AllDrawn =>
    \A i, k \in Member :
      LET pkg == dkg_round2(k, coeffs[k], i)
      IN  \A s \in Scalar \ {pkg.seckey, scalar_neg(pkg.seckey)} :
            ~FinalizeOk(<<[pkg EXCEPT !.seckey = s]>>, AllCommits)

-----------------------------------------------------------------------------
(* What the documentation of dkg_finalize says and the code does not keep: *)
(* it returns an error unless the received shares and the own share cover  *)
(* all participants.                                                       *)
FinalizedSharesCover ==
  \A i \in Member : output[i] # None /\ arrived[i] # None =>
    \A k \in Member \ {i} : arrived[i][k] >= 1
=============================================================================
