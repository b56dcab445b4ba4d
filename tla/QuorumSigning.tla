---------------------------- MODULE QuorumSigning ----------------------------
(***************************************************************************)
(* A client signs with a quorum of pomade signers: what registration       *)
(* checks of groups and shares, what the two rounds check of members,      *)
(* nonces and session ids, and what each signer computes alone for the     *)
(* partial signatures to add up (session.rs, schema.rs, and the handlers   *)
(* of signer.rs, whose interleavings within one signer module Signer has). *)
(*                                                                         *)
(* A handler is one step here.  The client is external: it hands out the   *)
(* shares it likes and combines the nonces it was given as it likes.  An   *)
(* id made by hashing is the tuple of what is hashed.  A request leaves    *)
(* out content, type and stamp, which are hashed into the session id and   *)
(* otherwise unused.  A group is a dealer's group and the nonces each      *)
(* member had when it was dealt, which are hashed into the group id and    *)
(* otherwise unused too.                                                   *)
(***************************************************************************)
EXTENDS FrostSigning

CONSTANTS
  Offers(_),         \* the registrations a client sends to a signer: [group, share]
  MemberLists,       \* the member lists clients ask for
  Seeds(_),          \* the randomness a signer draws for its nonces (bound)
  Hashes,            \* what is signed: a message followed by tweaks
  Groups,            \* the groups clients sign for
  NonceOrders(_),    \* the indices whose nonces clients send for a member list
  MaxRequests,       \* bound on the requests a client composes
  H3(_, _),          \* the nonce hash, from randomness and the share secret
  BinderHash(_, _, _), \* the hash that tweaks nonces, from session id, index and hashes
  MaxMembers,        \* MAX_MEMBERS, MAX_COMMITS
  None               \* no session

(* Members and the indices of nonces are lists of u32.                     *)
ASSUME ListAssumption ==
  MemberLists \subseteq Seq(Nat) /\ \A members \in MemberLists : NonceOrders(members) \subseteq Seq(Nat)

(* SighashVec is not empty.                                                *)
ASSUME HashAssumption == Hashes \subseteq Seq(Nat) \ {<<>>}

(* A dealer draws nonces for each group, so no two groups have one nonce.  *)
ASSUME GroupAssumption ==
  \A g \in Groups :
    /\ g.group_pk \in Point
    /\ \A h \in Groups : \A k \in DOMAIN g.members, j \in DOMAIN h.members :
         g.nonces[k] = h.nonces[j] => g = h

(* Its key and the public keys of its members are those of the polynomial  *)
(* the dealer drew.                                                        *)
ASSUME DealtAssumption ==
  \A g \in Groups : \E poly \in [1..T -> Scalar] :
    LET dealt == generate_dealer_package(poly).group
    IN  g.group_pk = dealt.group_pk /\ g.members = dealt.members

(* What a client registers for has a threshold out of range, or it may be  *)
(* signed for.                                                             *)
ASSUME OfferAssumption ==
  \A i \in 1..N : \A o \in Offers(i) :
    /\ o.share \in SecretShare
    /\ o.group.threshold \in 1..Len(o.group.members) => o.group \in Groups

VARIABLES
  sessions,   \* the session of the client's key at each signer
  commits,    \* the pending commitments of each signer
  posted,     \* the commitments the client was told of
  requests,   \* the completions it has composed
  psigs       \* history: the partial signatures, each with its request and context

vars == <<sessions, commits, posted, requests, psigs>>

Signer == 1..N

Init ==
  /\ sessions = [i \in Signer |-> None]
  /\ commits = [i \in Signer |-> {}]
  /\ posted = {} /\ requests = {} /\ psigs = {}

-----------------------------------------------------------------------------
(* Registration.                                                           *)

IdxsOf(group) == [k \in DOMAIN group.members |-> group.members[k].idx]

(* Vec::dedup: equal neighbours only.                                      *)
NoRepeat(idxs) == \A k \in 1..(Len(idxs) - 1) : idxs[k] # idxs[k + 1]

(* Mutant: any threshold is taken.                                         *)
RegistrationOkAnyThreshold(group, share) ==
  /\ Len(group.members) <= MaxMembers
  /\ is_group_member(group, share)
  /\ NoRepeat(IdxsOf(group)) /\ share.idx \in ToSet(IdxsOf(group))

RegistrationOk(group, share) ==
  /\ Len(group.members) <= MaxMembers
  /\ group.threshold \in 1..Len(group.members)
  /\ is_group_member(group, share)
  /\ NoRepeat(IdxsOf(group)) /\ share.idx \in ToSet(IdxsOf(group))

Register(i, group, share) ==
  /\ sessions[i] = None /\ RegistrationOk(group, share)
  /\ sessions' = [sessions EXCEPT ![i] = [group |-> group, share |-> share]]
  /\ UNCHANGED <<commits, posted, requests, psigs>>

-----------------------------------------------------------------------------
(* Round one.                                                              *)

generate_nonce(secret, aux_seed) == mod_n(H3(aux_seed, secret))

create_commit_pkg(share, seed) ==
  [idx |-> share.idx, hidden_sn |-> generate_nonce(share.seckey, seed.hidden),
   binder_sn |-> generate_nonce(share.seckey, seed.binder)]

(* serialize_point panics on the identity.                                 *)
Postable(nonce) == Serializable(nonce.hidden_pn) /\ Serializable(nonce.binder_pn)

SignCommit(i, members, seed) ==
  LET secret == create_commit_pkg(sessions[i].share, seed)
      id == <<i, seed>>
  IN  /\ sessions[i] # None
      /\ Len(members) <= MaxMembers /\ sessions[i].share.idx \in ToSet(members)
      /\ Postable(PublicNonce(secret)) /\ \A p \in posted : p.id # id
      /\ commits' = [commits EXCEPT ![i] = @ \cup {[id |-> id, members |-> members, secret |-> secret]}]
      /\ posted' = posted \cup {[id |-> id, nonce |-> PublicNonce(secret)]}
      /\ UNCHANGED <<sessions, requests, psigs>>

(* Mutant: the group id leaves out the nonces the group was dealt with.    *)
compute_group_id_pk(group) == <<group.group_pk, ToSet(IdxsOf(group))>>

(* The members' public keys are not hashed.                                *)
compute_group_id(group) ==
  <<group.group_pk, {<<group.members[k].idx, group.nonces[k]>> : k \in DOMAIN group.members}>>

compute_session_id(group, members, hash) == <<compute_group_id(group), members, hash>>

(* The client sends posted nonces, most often one of each member.          *)
Compose(group, members, hash, idxs, pick) ==
  /\ Cardinality(requests) < MaxRequests
  /\ \A k \in DOMAIN idxs : pick[k].nonce.idx = idxs[k]
  /\ requests' = requests \cup
       {[group |-> group, members |-> members, hash |-> hash,
         ids |-> {p.id : p \in Range(pick)},
         pnonces |-> [k \in DOMAIN idxs |-> pick[k].nonce],
         gid |-> compute_group_id(group),
         sid |-> compute_session_id(group, members, hash)]}
  /\ UNCHANGED <<sessions, commits, posted, psigs>>

-----------------------------------------------------------------------------
(* Round two: the signer's view of the session.                            *)

get_sighash_binder(sid, idx, hash) == mod_n(BinderHash(sid, idx, hash))

tweak_pnonce(pn, sid, hash) ==
  LET tweak == scalar_base_multi(get_sighash_binder(sid, pn.idx, hash))
  IN  [idx |-> pn.idx, hidden_pn |-> element_add(pn.hidden_pn, tweak),
       binder_pn |-> element_add(pn.binder_pn, tweak)]

(* Mutant: only one of the two nonces is tweaked.                          *)
tweak_secret_nonce_hidden(secret, sid, hash) ==
  LET bind == get_sighash_binder(sid, secret.idx, hash)
  IN  [secret EXCEPT !.hidden_sn = mod_n(@ + bind)]

tweak_secret_nonce(secret, sid, hash) ==
  LET bind == get_sighash_binder(sid, secret.idx, hash)
  IN  [secret EXCEPT !.hidden_sn = mod_n(@ + bind), !.binder_sn = mod_n(@ + bind)]

TweakedNonces(request, sid) ==
  [k \in DOMAIN request.pnonces |-> tweak_pnonce(request.pnonces[k], sid, request.hash)]

(* The first hash is the message, the others tweak the key.                *)
SighashCtx(group, request, sid) ==
  get_group_signing_ctx(group.group_pk, TweakedNonces(request, sid),
                        Head(request.hash), Tail(request.hash))

verify_session_pkg(group, request) ==
  /\ request.gid = compute_group_id(group)
  /\ request.sid = compute_session_id(group, request.members, request.hash)

(* Mutant: the member list of the request is not compared with round one.  *)
CompletionOkAnyMembers(session, entry, request) ==
  /\ PublicNonce(entry.secret) \in ToSet(request.pnonces)
  /\ verify_session_pkg(session.group, request)

(* Every member is in the group and has one nonce, this signer's is the    *)
(* one it committed to, and the ids are those of its own group.            *)
CompletionOk(session, entry, request) ==
  /\ request.members = entry.members
  /\ Len(request.pnonces) = Len(request.members)
  /\ \A m \in ToSet(request.members) :
       /\ m \in ToSet(IdxsOf(session.group))
       /\ Cardinality({k \in DOMAIN request.pnonces : request.pnonces[k].idx = m}) = 1
  /\ PublicNonce(entry.secret) \in ToSet(request.pnonces)
  /\ verify_session_pkg(session.group, request)

create_psig_pkg_with_nonce(group, request, share, secret) ==
  LET sid == compute_session_id(group, request.members, request.hash)
      ctx == SighashCtx(group, request, sid)
      ok == SignOk(ctx, share, secret)
              /\ \A pn \in ToSet(TweakedNonces(request, sid)) : Postable(pn)
  IN  [ctx |-> ctx, ok |-> ok, sid |-> sid,
       sig |-> sign_msg(ctx, share, tweak_secret_nonce(secret, sid, request.hash))]

(* The commitment is taken first; a completion that is refused loses it.   *)
SignComplete(i, request) ==
  \E entry \in commits[i] :
    LET pkg == create_psig_pkg_with_nonce(sessions[i].group, request, sessions[i].share, entry.secret)
    IN  /\ entry.id \in request.ids
        /\ commits' = [commits EXCEPT ![i] = @ \ {entry}]
        /\ psigs' = IF CompletionOk(sessions[i], entry, request) /\ pkg.ok
                      THEN psigs \cup {[request |-> request, by |-> i, committed |-> entry.members,
                                        sid |-> pkg.sid, ctx |-> pkg.ctx, sig |-> pkg.sig]}
                      ELSE psigs
        /\ UNCHANGED <<sessions, posted, requests>>

-----------------------------------------------------------------------------
(* ECDH: the other key is an x-coordinate; that of the generator, and a    *)
(* member list that repeats another member, are refused.                   *)

EcdhOk(members, share, ecdh_pk) ==
  /\ ecdh_pk # XOnly(scalar_base_multi(1))
  /\ IsInjective(SelectSeq(members, LAMBDA m : m # share.idx))

(* Mutant: the point of the other key keeps a sign of its own.             *)
create_ecdh_pkg_odd(members, share, ecdh_pk) ==
  create_ecdh_share(ToSet(members), share,
    IF share.idx = 1 THEN negate_point(lift_x(ecdh_pk)) ELSE lift_x(ecdh_pk))

create_ecdh_pkg(members, share, ecdh_pk) ==
  create_ecdh_share(ToSet(members), share, lift_x(ecdh_pk))

-----------------------------------------------------------------------------

Next ==
  \/ \E i \in Signer :
       \/ \E o \in Offers(i) : Register(i, o.group, o.share)
       \/ \E members \in MemberLists, seed \in Seeds(i) : SignCommit(i, members, seed)
       \/ \E request \in requests : SignComplete(i, request)
  \/ \E group \in Groups, members \in MemberLists, hash \in Hashes :
       \E idxs \in NonceOrders(members) : \E pick \in [DOMAIN idxs -> posted] :
         Compose(group, members, hash, idxs, pick)

Spec == Init /\ [][Next]_vars
=============================================================================
