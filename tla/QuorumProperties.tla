--------------------------- MODULE QuorumProperties ---------------------------
(***************************************************************************)
(* What signers that compute alone must agree on.                          *)
(***************************************************************************)
EXTENDS QuorumSigning

(* Sessions, commitments and partial signatures hold what their types      *)
(* allow; a signer's commitments are for its own share.                    *)
TypeOK ==
  /\ \A i \in Signer : sessions[i] # None =>
       sessions[i].share \in SecretShare /\ sessions[i].group \in Groups
  /\ \A i \in Signer : \A e \in commits[i] :
       /\ sessions[i] # None /\ e.secret.idx = sessions[i].share.idx
       /\ e.members \in MemberLists
  /\ \A r \in requests : r.pnonces \in Seq([idx : 1..N, hidden_pn : Point, binder_pn : Point])
  /\ \A p \in psigs : p.request \in requests /\ p.sig.psig \in Scalar

(* Every partial signature verifies for the client, which rebuilds the     *)
(* context from the request and the group it asked for                     *)
(* (verify_partial_sig): whatever key and nonce signs, tweaks and members, *)
(* and whichever of several groups the signer holds.                       *)
PartialSignaturesVerify ==
  \A p \in psigs :
    LET ctx == SighashCtx(p.request.group, p.request, p.request.sid)
    IN  \E pn \in ToSet(TweakedNonces(p.request, p.request.sid)) :
          /\ pn.idx = p.sig.idx
          /\ verify_partial_sig(ctx, pn, p.sig.pubkey, p.sig.psig)
          /\ \E m \in ToSet(p.request.group.members) : m.idx = p.sig.idx /\ m.pubkey = p.sig.pubkey

Answers(r) == {p \in psigs : p.request = r}

(* When every member a request names, nobody twice, has answered it, and   *)
(* they are enough for the threshold, the answers combine to a BIP340      *)
(* signature of the message under the tweaked group key                    *)
(* (combine_partial_sigs, verify_final_sig).                               *)
AnsweredRequestsVerify ==
  \A r \in requests :
    LET answers == Answers(r)
        ctx == SighashCtx(r.group, r, r.sid)
    IN  (/\ IsInjective(r.members) /\ Len(r.members) >= T
         /\ {p.sig.idx : p \in answers} = ToSet(r.members))
        => verify_final_sig(ctx, Head(r.hash), combine_partial_sigs(ctx, {p.sig : p \in answers}))

(* The signers that answer one request agree on the member list they       *)
(* committed to in round one, on the session id and on the whole context,  *)
(* and that list is whom they interpolate over, if it names nobody twice   *)
(* (if it does, they may interpolate over one more than it names).         *)
SignersAgree ==
  \A p \in psigs :
    /\ IsInjective(p.committed) => ToSet(p.ctx.indexes) = ToSet(p.committed)
    /\ \A q \in Answers(p.request) :
         p.committed = q.committed /\ p.sid = q.sid /\ p.ctx = q.ctx

(* Signers registered with one group, whichever of its shares each holds,  *)
(* derive one ECDH secret, the one the owner of the other key derives with *)
(* the group key, from nothing but the x-coordinate of that key, for any   *)
(* list of enough members (create_ecdh_pkg).                               *)
EcdhSecretAgrees ==
  \A group \in Groups :
    \A W \in SUBSET {i \in Signer : sessions[i] # None /\ sessions[i].group = group} :
      \A members \in MemberLists, k \in EvenY :
        LET ecdh_pk == XOnly(scalar_base_multi(k))
        IN  (/\ {sessions[i].share.idx : i \in W} = ToSet(members)
             /\ Cardinality(ToSet(members)) >= T
             /\ \A i \in W : EcdhOk(members, sessions[i].share, ecdh_pk))
            => derive_ecdh_secret({create_ecdh_pkg(members, sessions[i].share, ecdh_pk) : i \in W})
                 = scalar_multi(group.group_pk, k)
=============================================================================
