----------------------------- MODULE ThresholdKey -----------------------------
(***************************************************************************)
(* The life of a threshold key under frost-taproot: it is dealt, or made   *)
(* by distributed key generation; its shares are refreshed; a lost share   *)
(* is recovered.                                                           *)
(*                                                                         *)
(* The library computes what its callers hand it and keeps no state, so    *)
(* the state is what its callers hold, and the steps are its functions,    *)
(* called in the orders and on the subsets of packages that its            *)
(* documentation and a network that loses, repeats and delays packages     *)
(* allow.  An Err, and the panic on the identity, change nothing.          *)
(***************************************************************************)
EXTENDS KeyPackages

CONSTANTS
  Polynomials(_),    \* the polynomials a participant draws from (bound)
  DealerKeys,        \* the polynomials a dealer draws from (bound)
  RefreshDraws(_),   \* the coefficients a member draws to refresh with (bound)
  RecoveryDraws(_),  \* the coefficients a helper draws to recover with (bound)
  Flaky,             \* the participants whose round-2 packages get lost or repeated
  Losable,           \* the members that may lose their share
  None               \* what is not there

(* create_share_coeffs draws as many scalars as it is asked for, and is    *)
(* asked for threshold of them to make a key, and for one less to refresh  *)
(* or to recover a share.                                                  *)
ASSUME DrawAssumption ==
  /\ DealerKeys \subseteq [1..T -> Scalar]
  /\ \A i \in 1..N :
       /\ Polynomials(i) \subseteq [1..T -> Scalar]
       /\ RefreshDraws(i) \subseteq [1..(T - 1) -> Scalar]
       /\ RecoveryDraws(i) \subseteq [1..(T - 1) -> Scalar]

(* What is not there is none of the histories a share may have.            *)
ASSUME NoneAssumption ==
  /\ \A e \in SUBSET (1..N) : e # None
  /\ \A times \in [1..N -> 0..2] : times # None

VARIABLES
  coeffs,      \* the polynomial of each participant that has called dkg_round1
  arrived,     \* history: how often finalize was given each other's package
  output,      \* what each member knows of the group: a DkgOutput without its share
  share,       \* the current share of each member
  zeros,       \* the refresh coefficients of each member that has drawn some
  epoch,       \* history: the members whose refresh shares are in a share, or None
               \* for a share that mixes contributions of several epochs
  rescue       \* the recovery that is under way

setup == <<coeffs, arrived, output>>
vars == <<setup, share, zeros, epoch, rescue>>

Member == 1..N

NoRescue == [target |-> None, helpers |-> {}, given |-> {}]

Init ==
  /\ coeffs = [i \in Member |-> None]
  /\ arrived = [i \in Member |-> None]
  /\ output = [i \in Member |-> None]
  /\ share = [i \in Member |-> None]
  /\ zeros = [i \in Member |-> None]
  /\ epoch = [i \in Member |-> {}]
  /\ rescue = NoRescue

-----------------------------------------------------------------------------
(* Making the key.                                                         *)

(* A dealer hands every member the group and its share.                    *)
Deal(poly) ==
  LET pkg == generate_dealer_package(poly)
  IN  /\ \A i \in Member : coeffs[i] = None /\ output[i] = None
      /\ \A i \in Member : Serializable(get_pubkey(pkg.shares[i].seckey))
      /\ output' = [i \in Member |-> [group |-> pkg.group, vss_commits |-> get_share_commits(poly)]]
      /\ share' = [i \in Member |-> pkg.shares[i]]
      /\ UNCHANGED <<coeffs, arrived, zeros, epoch, rescue>>

Round1(i, poly) ==
  /\ coeffs[i] = None /\ output[i] = None
  /\ coeffs' = [coeffs EXCEPT ![i] = poly]
  /\ UNCHANGED <<arrived, output, share, zeros, epoch, rescue>>

AllDrawn == \A i \in Member : coeffs[i] # None
AllCommits == [i \in Member |-> dkg_round1(i, coeffs[i])]

(* The packages addressed to i, each as often as it arrived.               *)
Received(i, times) ==
  FlattenSeq([k \in Member |->
    [c \in 1..times[k] |-> dkg_round2(k, coeffs[k], i)]])

Others(i) == [k \in Member |-> IF k = i THEN 0 ELSE 1]
Arrivals(i) ==
  IF i \in Flaky THEN {t \in [Member -> 0..2] : t[i] = 0} ELSE {Others(i)}

Finalize(i, times) ==
  LET received == Received(i, times)
      out == dkg_finalize(i, coeffs[i], received, AllCommits)
  IN  /\ AllDrawn /\ output[i] = None
      /\ FinalizeOk(received, AllCommits)
      /\ Serializable(out.group.group_pk)
      /\ \A k \in 1..T : Serializable(out.vss_commits[k])
      /\ \A m \in Member : Serializable(out.group.members[m].pubkey)
      /\ output' = [output EXCEPT ![i] = [group |-> out.group, vss_commits |-> out.vss_commits]]
      /\ share' = [share EXCEPT ![i] = out.share]
      /\ arrived' = [arrived EXCEPT ![i] = times]
      /\ UNCHANGED <<coeffs, zeros, epoch, rescue>>

(* Whether finalize was given each package once, as its contract asks, and *)
(* whether the members may start to use the key.                           *)
Whole(i) == output[i] # None /\ arrived[i] \in {None, Others(i)}
Ready == \A i \in Member : Whole(i)

-----------------------------------------------------------------------------
(* Refresh.  A member adds the packages that have reached it, at once or   *)
(* one after the other, each once.                                         *)

DrawZeros(i, sub_coeffs) ==
  /\ Ready /\ zeros[i] = None
  /\ zeros' = [zeros EXCEPT ![i] = sub_coeffs]
  /\ UNCHANGED <<setup, share, epoch, rescue>>

Refresh(i, senders) ==
  LET pkgs == SetToSeq({gen_refresh_shares(k, zeros[k], N) : k \in senders})
  IN  /\ share[i] # None /\ epoch[i] # None /\ senders # {}
      /\ senders \cap epoch[i] = {}
      /\ share' = [share EXCEPT ![i] =
                     refresh_share([n \in DOMAIN pkgs |-> pkgs[n].shares[i]], share[i])]
      /\ epoch' = [epoch EXCEPT ![i] = @ \cup senders]
      /\ UNCHANGED <<setup, zeros, rescue>>

-----------------------------------------------------------------------------
(* Recovery.  Each helper makes its package from the share it has then.    *)

Lose(i) ==
  /\ Ready /\ share[i] # None /\ rescue = NoRescue
  /\ share' = [share EXCEPT ![i] = None]
  /\ UNCHANGED <<setup, zeros, epoch, rescue>>

AskHelpers(target, helpers) ==
  /\ Ready /\ share[target] = None /\ rescue = NoRescue
  /\ Cardinality(helpers) = T /\ target \notin helpers
  /\ rescue' = [target |-> target, helpers |-> helpers, given |-> {}]
  /\ UNCHANGED <<setup, share, zeros, epoch>>

Given(h) == \E g \in rescue.given : g.pkg.idx = h

Help(h, rand_coeffs) ==
  LET pkg == gen_recovery_shares(rescue.helpers, share[h], rescue.target, rand_coeffs)
  IN  /\ h \in rescue.helpers /\ share[h] # None /\ ~Given(h)
      /\ \A n \in 1..T : Serializable(pkg.vss_commits[n])
      /\ rescue' = [rescue EXCEPT !.given = @ \cup {[pkg |-> pkg, epoch |-> epoch[h]]}]
      /\ UNCHANGED <<setup, share, zeros, epoch>>

(* Each helper sums what it was given at its index, and the target sums    *)
(* the sums.                                                               *)
Recover ==
  LET pkgs == SetToSeq({g.pkg : g \in rescue.given})
      epochs == {g.epoch : g \in rescue.given}
      At(n) == combine_set([k \in DOMAIN pkgs |-> pkgs[k].shares[n]])
      i == rescue.target
  IN  /\ rescue # NoRescue /\ Cardinality(rescue.given) = T
      /\ share' = [share EXCEPT ![i] = recover_share([n \in 1..T |-> At(n)], i)]
      /\ epoch' = [epoch EXCEPT ![i] = IF Cardinality(epochs) = 1 THEN CHOOSE e \in epochs : TRUE ELSE None]
      /\ rescue' = NoRescue
      /\ UNCHANGED <<setup, zeros>>

-----------------------------------------------------------------------------

Next ==
  \/ \E poly \in DealerKeys : Deal(poly)
  \/ \E i \in Member :
       \/ \E poly \in Polynomials(i) : Round1(i, poly)
       \/ \E times \in Arrivals(i) : Finalize(i, times)
       \/ \E sub \in RefreshDraws(i) : DrawZeros(i, sub)
       \/ \E senders \in SUBSET {k \in Member : zeros[k] # None} : Refresh(i, senders)
       \/ \E helpers \in SUBSET Member : AskHelpers(i, helpers)
       \/ \E rand \in RecoveryDraws(i) : Help(i, rand)
  \/ \E i \in Losable : Lose(i)
  \/ Recover

Spec == Init /\ [][Next]_vars
=============================================================================
