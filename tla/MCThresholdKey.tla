---------------------------- MODULE MCThresholdKey ----------------------------
(***************************************************************************)
(* A small field and few draws.  The hashes are functions of all their     *)
(* arguments; nothing is assumed of them.                                  *)
(***************************************************************************)
EXTENDS ThresholdKeyProperties

MCEvenY == {1, 3, 5, 7, 9}
MCPopNonce(a0, idx) == 2 * a0 + 3 * idx
MCPopHash(idx, c0, r) == idx + 2 * c0.dlog + 3 * r.dlog + 1
MCRho(pnonces, group_pk, message, idx) ==
  3 * idx + group_pk.dlog + message + MapThenSumSet(LAMBDA pn : pn.idx * pn.hidden_pn.dlog, pnonces)
XNumber(x) == MapThenSumSet(LAMBDA a : a.dlog * a.dlog, x)
MCChallenge(r, pk, message) == 1 + XNumber(r) + 2 * XNumber(pk) + message
MCHmac(seckey, code, domain) == 1 + 2 * seckey + 5 * code + (IF domain = "hidden" THEN 0 ELSE 3)
MCTweakings == {<<>>, <<4, 5>>}

(* Only the first participant has a choice of polynomials, and only the    *)
(* first and the last draw refresh shares.                                 *)
MCPolynomials(i) ==
  CASE i = 1 -> {<<3, 2, 5>>, <<6, 7, 2>>}
    [] i = 2 -> {<<9, 4, 1>>}
    [] i = 3 -> {<<5, 1, 7>>}
    [] i = 4 -> {<<2, 6, 4>>}
MCDealerKeys == {<<8, 6, 3>>}
MCRefreshDraws(i) == IF i \in {1, 4} THEN {<<2 + i, 9>>} ELSE {}
MCRecoveryDraws(i) == {<<3 + i, 2>>}
=============================================================================
