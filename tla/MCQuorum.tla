------------------------------ MODULE MCQuorum ------------------------------
(***************************************************************************)
(* Three signers, two keys whose shares a client may mix up, and requests  *)
(* of two and three members, with and without tweaks.                      *)
(***************************************************************************)
EXTENDS QuorumProperties

MCEvenY == {1, 3, 5, 7, 9}
MCPopNonce(a0, idx) == 1
MCPopHash(idx, c0, r) == 1
MCRho(pnonces, group_pk, message, idx) ==
  3 * idx + group_pk.dlog + message + MapThenSumSet(LAMBDA pn : pn.idx * pn.hidden_pn.dlog, pnonces)
XNumber(x) == MapThenSumSet(LAMBDA a : a.dlog * a.dlog, x)
MCChallenge(r, pk, message) == 1 + XNumber(r) + 2 * XNumber(pk) + message
MCHmac(seckey, code, domain) == 1
MCH3(aux, secret) == aux + 3 * secret
MCBinderHash(sid, idx, hash) == 2 * idx + Head(hash) + Len(hash) + Len(sid[2])

(* Key A is dealt twice.                                                   *)
Dealt(pkg, nonce) ==
  [group_pk |-> pkg.group.group_pk, threshold |-> pkg.group.threshold,
   members |-> pkg.group.members, nonces |-> [k \in 1..N |-> nonce]]
KeyA == generate_dealer_package(<<8, 2>>)
Again == generate_dealer_package(<<8, 5>>)
GroupA == Dealt(KeyA, 1)
GroupB == Dealt(Again, 2)
MCGroups == {GroupA, GroupB}
MCOffers(i) ==
  {[group |-> GroupA, share |-> KeyA.shares[i]]}
    \cup (IF i = 2 THEN {[group |-> GroupB, share |-> Again.shares[2]],
                         [group |-> GroupA, share |-> Again.shares[2]],
                         [group |-> [GroupA EXCEPT !.threshold = 0], share |-> KeyA.shares[2]]}
          ELSE {})
MCMemberLists == {<<1, 2>>, <<1, 1, 2>>, <<1, 2, 3>>}
MCNonceOrders(members) ==
  CASE members = <<1, 2>> -> {<<1, 2>>, <<1, 2, 3>>}
    [] members = <<1, 1, 2>> -> {<<1, 3, 2>>}
    [] members = <<1, 2, 3>> -> {<<3, 1, 2>>}
MCSeeds(i) == IF i = 1 THEN {[hidden |-> 1, binder |-> 6], [hidden |-> 4, binder |-> 2]}
              ELSE {[hidden |-> i, binder |-> 5]}
MCHashes == {<<1>>, <<2, 4, 5>>}
=============================================================================
