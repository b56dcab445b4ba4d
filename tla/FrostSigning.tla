----------------------------- MODULE FrostSigning -----------------------------
(***************************************************************************)
(* Two-round FROST signatures under BIP340 (commit, context, sign), and    *)
(* the sessions and nonces the library builds on them (frost/signing.rs,   *)
(* frost/nonce.rs).  Hashes are constants: functions of what they cover,   *)
(* of which nothing else is assumed.                                       *)
(***************************************************************************)
EXTENDS KeyPackages

CONSTANTS
  Rho(_, _, _, _),     \* H1: the binding factor, from the commitments, the group key,
                       \* the message and the index
  Challenge(_, _, _),  \* the BIP340 challenge, from R, the key (both x-only) and the message
  Hmac(_, _, _)        \* the nonce derivation, from the share secret, a code and a domain

-----------------------------------------------------------------------------
(* The context of a signature: the key under its tweaks and the nonces.    *)
(* The commitments are hashed in the order of their indices.               *)

get_bind_factor(pnonces, group_pk, message, idx) ==
  mod_n(Rho(ToSet(pnonces), group_pk, message, idx))

get_group_pubnonce(pnonces, group_pk, message) ==
  element_add_many(
    [k \in DOMAIN pnonces |->
       element_add(pnonces[k].hidden_pn,
                   scalar_multi(pnonces[k].binder_pn,
                                get_bind_factor(pnonces, group_pk, message, pnonces[k].idx)))])

get_challenge(pnonce, pubkey, message) ==
  mod_n(Challenge(XOnly(pnonce), XOnly(pubkey), message))

get_group_signing_ctx(pubkey, pnonces, message, tweaks) ==
  LET group_pt == get_point_state(pubkey, tweaks)
      group_pn == get_group_pubnonce(pnonces, group_pt.point, message)
  IN  [group_pk |-> group_pt.point, parity |-> Parity(group_pt.point),
       state |-> group_pt.state, tweak |-> group_pt.tweak,
       bind_factors |-> [i \in {pn.idx : pn \in ToSet(pnonces)} |->
                           get_bind_factor(pnonces, group_pt.point, message, i)],
       group_pn |-> group_pn,
       challenge |-> get_challenge(group_pn, group_pt.point, message),
       indexes |-> [k \in DOMAIN pnonces |-> pnonces[k].idx],
       message |-> message]

CtxOk(ctx) ==
  /\ Serializable(ctx.group_pk) /\ Serializable(ctx.group_pn)
  /\ IsInjective(ctx.indexes)

-----------------------------------------------------------------------------
(* Signing.  With an odd R every nonce is negated.                         *)

NonceParity(ctx) == Parity(ctx.group_pn)

SignOk(ctx, share, snonce) ==
  CtxOk(ctx) /\ snonce.idx = share.idx /\ share.idx \in ToSet(ctx.indexes)

sign_msg(ctx, share, snonce) ==
  LET coefficient == interpolate_x(ToSet(ctx.indexes), share.idx)
      sk == mod_n(ctx.parity * ctx.state * share.seckey)
      nk == NonceParity(ctx) * mod_n(snonce.hidden_sn + snonce.binder_sn * ctx.bind_factors[share.idx])
  IN  [idx |-> share.idx, psig |-> mod_n(mod_n(ctx.challenge * coefficient) * sk + nk),
       pubkey |-> get_pubkey(share.seckey)]

combine_partial_sigs(ctx, psigs) ==
  LET ps == FoldSet(LAMBDA p, acc : acc + p.psig, 0, psigs)
      twk == mod_n(ctx.challenge * ctx.parity * ctx.tweak)
  IN  [r |-> XOnly(ctx.group_pn), s |-> mod_n(ps + twk)]

verify_partial_sig(ctx, pnonce, share_pk, psig) ==
  LET nonce == element_add(pnonce.hidden_pn,
                           scalar_multi(pnonce.binder_pn, ctx.bind_factors[pnonce.idx]))
      lambda_i == interpolate_x(ToSet(ctx.indexes), pnonce.idx)
      chal == mod_n(mod_n(ctx.challenge * lambda_i) * ctx.parity * ctx.state)
  IN  XOnly(scalar_base_multi(psig))
        = XOnly(element_add(scalar_multi(nonce, NonceParity(ctx)), scalar_multi(share_pk, chal)))

(* BIP340: s*G - e*P is a point with even Y and the x-coordinate r (that   *)
(* k256 also rejects s = 0 is left out).                                   *)
verify_final_sig(ctx, message, sig) ==
  LET key == lift_x(XOnly(ctx.group_pk))
      e == mod_n(Challenge(sig.r, XOnly(key), message))
      R == element_add(scalar_base_multi(sig.s), negate_point(scalar_multi(key, e)))
  IN  has_even_y(R) /\ XOnly(R) = sig.r

-----------------------------------------------------------------------------
(* Nonces that are derived again from a stored code.                       *)

derive_secret_nonce(share, code) ==
  [idx |-> share.idx,
   hidden_sn |-> mod_n(Hmac(share.seckey, code, "hidden")),
   binder_sn |-> mod_n(Hmac(share.seckey, code, "binder"))]

PublicNonce(snonce) ==
  [idx |-> snonce.idx, hidden_pn |-> get_pubkey(snonce.hidden_sn),
   binder_pn |-> get_pubkey(snonce.binder_sn)]

generate_nonce_pair(share, code) == PublicNonce(derive_secret_nonce(share, code))

-----------------------------------------------------------------------------
(* Sessions: one message, one nonce per member, in the order the caller    *)
(* lists them.                                                             *)

(* Err unless there are as many nonces as members; whether they are those  *)
(* of the members is not asked.                                            *)
SessionOk(members, nonces) == Cardinality(members) = Len(nonces)

create_sign_session(group, members, nonces, message, tweaks) ==
  [sid |-> <<get_group_id(group), members, message, tweaks>>, group_pk |-> group.group_pk,
   message |-> message, tweaks |-> tweaks, nonces |-> nonces]

SessionCtx(session) ==
  get_group_signing_ctx(session.group_pk, session.nonces, session.message, session.tweaks)

create_partial_sig_package(session, ctx, share, snonce) ==
  LET sig == sign_msg(ctx, share, snonce)
  IN  [idx |-> share.idx, pubkey |-> get_pubkey(share.seckey), sid |-> session.sid,
       psig |-> sig.psig]

verify_partial_sig_package(session, ctx, group, pkg) ==
  /\ pkg.sid = session.sid
  /\ \E m \in ToSet(group.members) : m.pubkey = pkg.pubkey
  /\ \E n \in ToSet(session.nonces) :
       n.idx = pkg.idx /\ verify_partial_sig(ctx, n, pkg.pubkey, pkg.psig)

(* Ok: the combined signature, or Err when it does not verify.             *)
CombineOk(session, ctx, group, pkgs) ==
  /\ Cardinality(pkgs) >= group.threshold
  /\ verify_final_sig(ctx, session.message, combine_partial_sigs(ctx, pkgs))
=============================================================================
