----------------------------- MODULE QuorumProofs -----------------------------
(***************************************************************************)
(* Signers that answer one request agree, what they sign verifies alone    *)
(* and combined, and what they derive adds up: for any field, any hashes,  *)
(* any groups, shares and member lists, and any number of requests.        *)
(***************************************************************************)
EXTENDS QuorumProperties, InterpolationProofs

(* The context that the ids and the nonces of a request determine.         *)
RequestCtx(r) ==
  get_group_signing_ctx(r.gid[1], TweakedNonces(r, r.sid), Head(r.hash), Tail(r.hash))

(* What a partial signature is bound to: everything but its signer is a    *)
(* function of its request.                                                *)
Bound(p) ==
  /\ p.committed = p.request.members
  /\ p.sid = p.request.sid
  /\ p.ctx = RequestCtx(p.request)
  /\ IsInjective(p.committed) => ToSet(p.ctx.indexes) = ToSet(p.committed)

WellFormed(r) ==
  /\ r.members \in Seq(Nat)
  /\ \E m \in Nat : DOMAIN r.pnonces = 1..m /\ r.pnonces = [k \in 1..m |-> r.pnonces[k]]

QuorumInv ==
  /\ \A r \in requests : WellFormed(r)
  /\ \A p \in psigs : Bound(p)

-----------------------------------------------------------------------------

(* A function on 1..m is a sequence of length m (Vec of the request).      *)
LEMMA LengthOfFunction ==
  ASSUME NEW m \in Nat, NEW f, DOMAIN f = 1..m, f = [k \in 1..m |-> f[k]]
  PROVE  Len(f) = m
<1> DEFINE S == {f[k] : k \in 1..m}
<1>1. f \in [1..m -> S]
  OBVIOUS
<1>2. f \in Seq(S)
  BY <1>1
<1> QED
  BY <1>2

(* The check of handle_sign_complete, one nonce for each member and as     *)
(* many nonces as members, leaves no room for another nonce when no member *)
(* is named twice.                                                         *)
LEMMA NoncesCover ==
  ASSUME NEW n \in Nat, NEW members, NEW idxs,
         DOMAIN members = 1..n, DOMAIN idxs = 1..n, IsInjective(members),
         \A m \in ToSet(members) : Cardinality({k \in 1..n : idxs[k] = m}) = 1
  PROVE  ToSet(idxs) = ToSet(members)
<1> DEFINE At(j) == CHOOSE k \in 1..n : idxs[k] = members[j]
           place == [j \in 1..n |-> At(j)]
<1>1. ASSUME NEW j \in 1..n PROVE At(j) \in 1..n /\ idxs[At(j)] = members[j]
  <2>1. members[j] \in ToSet(members)
    BY DEF ToSet
  <2>2. {k \in 1..n : idxs[k] = members[j]} # {}
    <3>1. Cardinality({k \in 1..n : idxs[k] = members[j]}) = 1
      BY <2>1
    <3> QED
      BY <3>1, FS_EmptySet
  <2> QED
    BY <2>2
<1>2. place \in Injection(1..n, 1..n)
  <2>1. place \in [1..n -> 1..n]
    BY <1>1
  <2>2. ASSUME NEW a \in 1..n, NEW b \in 1..n, place[a] = place[b] PROVE a = b
    <3>1. members[a] = members[b]
      BY <1>1, <2>2
    <3> QED
      BY <3>1 DEF IsInjective
  <2> HIDE DEF place
  <2> QED
    BY <2>1, <2>2 DEF Injection, IsInjective
<1>3. place \in Surjection(1..n, 1..n)
  <2> HIDE DEF place
  <2>1. IsFiniteSet(1..n)
    BY FS_Interval
  <2> QED
    BY <1>2, <2>1, FS_Injection
<1>4. ASSUME NEW k \in 1..n PROVE \E j \in 1..n : idxs[k] = members[j]
  <2>1. PICK j \in 1..n : place[j] = k
    BY <1>3 DEF Surjection
  <2> QED
    BY <1>1, <2>1
<1>5. \A j \in 1..n : \E k \in 1..n : idxs[k] = members[j]
  BY <1>1
<1> HIDE DEF At, place
<1>6. ToSet(idxs) = {idxs[k] : k \in 1..n} /\ ToSet(members) = {members[j] : j \in 1..n}
  BY DEF ToSet
<1>7. ASSUME NEW x \in ToSet(idxs) PROVE x \in ToSet(members)
  <2>1. PICK k \in 1..n : x = idxs[k]
    BY <1>6
  <2> QED
    BY <1>4, <1>6, <2>1
<1>8. ASSUME NEW x \in ToSet(members) PROVE x \in ToSet(idxs)
  <2>1. PICK j \in 1..n : x = members[j]
    BY <1>6
  <2> QED
    BY <1>5, <1>6, <2>1
<1> QED
  BY <1>7, <1>8

(* The indices of a context are those of the nonces it is made from.       *)
LEMMA IndexesOfContext ==
  ASSUME NEW group, NEW r, NEW sid
  PROVE  SighashCtx(group, r, sid).indexes = [k \in DOMAIN r.pnonces |-> r.pnonces[k].idx]
<1>1. \A k \in DOMAIN r.pnonces : TweakedNonces(r, sid)[k].idx = r.pnonces[k].idx
  BY DEF TweakedNonces, tweak_pnonce
<1>2. DOMAIN TweakedNonces(r, sid) = DOMAIN r.pnonces
  BY DEF TweakedNonces
<1>3. SighashCtx(group, r, sid).indexes
        = [k \in DOMAIN TweakedNonces(r, sid) |-> TweakedNonces(r, sid)[k].idx]
  BY DEF SighashCtx, get_group_signing_ctx
<1> QED
  BY <1>1, <1>2, <1>3

(* A completion that is not refused is bound to its request.               *)
LEMMA CompletionBinds ==
  ASSUME NEW session, NEW entry, NEW r, NEW i, NEW sig, WellFormed(r),
         CompletionOk(session, entry, r)
  PROVE  LET sid == compute_session_id(session.group, r.members, r.hash)
         IN  Bound([request |-> r, by |-> i, committed |-> entry.members, sid |-> sid,
                    ctx |-> SighashCtx(session.group, r, sid), sig |-> sig])
<1> DEFINE sid == compute_session_id(session.group, r.members, r.hash)
           ctx == SighashCtx(session.group, r, sid)
           p == [request |-> r, by |-> i, committed |-> entry.members, sid |-> sid,
                 ctx |-> ctx, sig |-> sig]
<1>1. /\ r.members = entry.members
      /\ Len(r.pnonces) = Len(r.members)
      /\ \A m \in ToSet(r.members) :
           Cardinality({k \in DOMAIN r.pnonces : r.pnonces[k].idx = m}) = 1
      /\ r.gid = compute_group_id(session.group) /\ r.sid = sid
  BY DEF CompletionOk, verify_session_pkg
<1>2. r.gid[1] = session.group.group_pk
  BY <1>1 DEF compute_group_id
<1>3. ctx = RequestCtx(r)
  BY <1>1, <1>2 DEF SighashCtx, RequestCtx
<1>4. IsInjective(r.members) => ToSet(ctx.indexes) = ToSet(r.members)
  <2> SUFFICES ASSUME IsInjective(r.members) PROVE ToSet(ctx.indexes) = ToSet(r.members)
    OBVIOUS
  <2> DEFINE n == Len(r.members)
             idxs == [k \in DOMAIN r.pnonces |-> r.pnonces[k].idx]
  <2>1. n \in Nat /\ DOMAIN r.members = 1..n
    BY DEF WellFormed
  <2>2. DOMAIN r.pnonces = 1..n
    <3>1. PICK m \in Nat : DOMAIN r.pnonces = 1..m /\ r.pnonces = [k \in 1..m |-> r.pnonces[k]]
      BY DEF WellFormed
    <3>2. Len(r.pnonces) = m
      BY <3>1, LengthOfFunction
    <3> QED
      BY <1>1, <3>1, <3>2
  <2>3. ASSUME NEW m \in ToSet(r.members) PROVE Cardinality({k \in 1..n : idxs[k] = m}) = 1
    <3>1. {k \in 1..n : idxs[k] = m} = {k \in DOMAIN r.pnonces : r.pnonces[k].idx = m}
      BY <2>2
    <3> QED
      BY <1>1, <3>1
  <2>4. DOMAIN idxs = 1..n
    BY <2>2
  <2> HIDE DEF n, idxs
  <2>5. ToSet(idxs) = ToSet(r.members)
    BY <2>1, <2>3, <2>4, NoncesCover
  <2> QED
    BY <2>5, IndexesOfContext DEF idxs
<1> HIDE DEF sid, ctx
<1>5. /\ p.request = r /\ p.committed = entry.members /\ p.sid = sid /\ p.ctx = ctx
  OBVIOUS
<1> HIDE DEF p
<1>6. Bound(p)
  BY <1>1, <1>3, <1>4, <1>5 DEF Bound
<1> QED
  BY <1>6 DEF p, sid, ctx

-----------------------------------------------------------------------------
(* The steps, one for each action of Next.                                 *)

(* Registration touches neither requests nor partial signatures (Register).*)
LEMMA RegisterKeeps ==
  ASSUME QuorumInv, NEW i, NEW group, NEW share, Register(i, group, share)
  PROVE  QuorumInv'
BY DEF QuorumInv, Register

(* Nor does round one (SignCommit).                                        *)
LEMMA SignCommitKeeps ==
  ASSUME QuorumInv, NEW i, NEW members, NEW seed, SignCommit(i, members, seed)
  PROVE  QuorumInv'
BY DEF QuorumInv, SignCommit

(* The client's request is well-formed: lists of members and of nonces.    *)
LEMMA ComposeKeeps ==
  ASSUME QuorumInv, NEW group, NEW members \in MemberLists, NEW hash,
         NEW idxs \in NonceOrders(members), NEW pick,
         Compose(group, members, hash, idxs, pick)
  PROVE  QuorumInv'
<1> DEFINE r == [group |-> group, members |-> members, hash |-> hash,
                 ids |-> {p.id : p \in Range(pick)},
                 pnonces |-> [k \in DOMAIN idxs |-> pick[k].nonce],
                 gid |-> compute_group_id(group),
                 sid |-> compute_session_id(group, members, hash)]
<1>1. requests' = requests \cup {r} /\ psigs' = psigs
  BY DEF Compose
<1>2. r.members = members /\ r.pnonces = [k \in DOMAIN idxs |-> pick[k].nonce]
  OBVIOUS
<1> HIDE DEF r
<1>3. members \in Seq(Nat) /\ idxs \in Seq(Nat)
  BY ListAssumption
<1>4. Len(idxs) \in Nat /\ DOMAIN idxs = 1..Len(idxs)
  BY <1>3
<1>5. WellFormed(r)
  BY <1>2, <1>3, <1>4 DEF WellFormed
<1> QED
  BY <1>1, <1>5 DEF QuorumInv

(* A signature that handle_sign_complete adds is bound to its request.     *)
LEMMA SignCompleteKeeps ==
  ASSUME QuorumInv, NEW i, NEW r \in requests, SignComplete(i, r)
  PROVE  QuorumInv'
<1>1. PICK entry \in commits[i] :
        LET pkg == create_psig_pkg_with_nonce(sessions[i].group, r, sessions[i].share, entry.secret)
        IN  /\ psigs' = IF CompletionOk(sessions[i], entry, r) /\ pkg.ok
                          THEN psigs \cup {[request |-> r, by |-> i, committed |-> entry.members,
                                            sid |-> pkg.sid, ctx |-> pkg.ctx, sig |-> pkg.sig]}
                          ELSE psigs
            /\ requests' = requests
  BY DEF SignComplete
<1> DEFINE pkg == create_psig_pkg_with_nonce(sessions[i].group, r, sessions[i].share, entry.secret)
           p == [request |-> r, by |-> i, committed |-> entry.members,
                 sid |-> pkg.sid, ctx |-> pkg.ctx, sig |-> pkg.sig]
<1>2. CASE ~(CompletionOk(sessions[i], entry, r) /\ pkg.ok)
  BY <1>1, <1>2 DEF QuorumInv
<1>3. CASE CompletionOk(sessions[i], entry, r) /\ pkg.ok
  <2>1. WellFormed(r)
    BY DEF QuorumInv
  <2>2. /\ pkg.sid = compute_session_id(sessions[i].group, r.members, r.hash)
        /\ pkg.ctx = SighashCtx(sessions[i].group, r, pkg.sid)
    BY DEF create_psig_pkg_with_nonce
  <2> HIDE DEF pkg
  <2>3. Bound(p)
    BY <1>3, <2>1, <2>2, CompletionBinds
  <2>4. psigs' = psigs \cup {p} /\ requests' = requests
    BY <1>1, <1>3 DEF pkg
  <2> QED
    BY <2>3, <2>4 DEF QuorumInv
<1> QED
  BY <1>2, <1>3

(* At first there are no requests and no signatures (Init).                *)
LEMMA QuorumInitial == Init => QuorumInv
BY DEF Init, QuorumInv

(* No step of a client or a signer breaks the invariant (Next).            *)
LEMMA QuorumInductive == QuorumInv /\ [Next]_vars => QuorumInv'
<1> SUFFICES ASSUME QuorumInv, [Next]_vars PROVE QuorumInv'
  OBVIOUS
<1>1. ASSUME NEW i \in Signer, NEW o \in Offers(i), Register(i, o.group, o.share) PROVE QuorumInv'
  BY <1>1, RegisterKeeps
<1>2. ASSUME NEW i \in Signer, NEW members \in MemberLists, NEW seed \in Seeds(i),
             SignCommit(i, members, seed)
      PROVE  QuorumInv'
  BY <1>2, SignCommitKeeps
<1>3. ASSUME NEW i \in Signer, NEW r \in requests, SignComplete(i, r) PROVE QuorumInv'
  BY <1>3, SignCompleteKeeps
<1>4. ASSUME NEW group \in Groups, NEW members \in MemberLists, NEW hash \in Hashes,
             NEW idxs \in NonceOrders(members), NEW pick \in [DOMAIN idxs -> posted],
             Compose(group, members, hash, idxs, pick)
      PROVE  QuorumInv'
  BY <1>4, ComposeKeeps
<1>5. CASE UNCHANGED vars
  BY <1>5 DEF vars, QuorumInv
<1> QED
  BY <1>1, <1>2, <1>3, <1>4, <1>5 DEF Next

(* What binds every signature to its request makes any two signatures of   *)
(* one request agree.                                                      *)
LEMMA BoundAgree == QuorumInv => SignersAgree
<1> SUFFICES ASSUME QuorumInv, NEW p \in psigs
             PROVE  /\ IsInjective(p.committed) => ToSet(p.ctx.indexes) = ToSet(p.committed)
                    /\ \A q \in Answers(p.request) :
                         p.committed = q.committed /\ p.sid = q.sid /\ p.ctx = q.ctx
  BY DEF SignersAgree
<1>1. Bound(p)
  BY DEF QuorumInv
<1>2. ASSUME NEW q \in Answers(p.request)
      PROVE  p.committed = q.committed /\ p.sid = q.sid /\ p.ctx = q.ctx
  <2>1. Bound(q) /\ q.request = p.request
    BY DEF Answers, QuorumInv
  <2> QED
    BY <1>1, <2>1 DEF Bound
<1> QED
  BY <1>1, <1>2 DEF Bound

(* Signers that answer one request agree on the members they committed to, *)
(* on the session id and on the context they sign in, and interpolate over *)
(* the members they committed to (handle_sign_commit, handle_sign_complete,*)
(* create_psig_pkg_with_nonce).                                            *)
THEOREM AnsweringSignersAgree == Spec => []SignersAgree
BY QuorumInitial, QuorumInductive, BoundAgree, PTL DEF Spec

-----------------------------------------------------------------------------
(* Partial signatures verify.                                              *)

(* A hash is read as a number (scalar_reduce of its digest).               *)
HashesAreNumbers ==
  /\ \A seed, seckey : H3(seed, seckey) \in Int
  /\ \A sid, idx, hash : BinderHash(sid, idx, hash) \in Int
  /\ SigningHashesAreNumbers

SecretNonces == [idx : 1..N, hidden_sn : Scalar, binder_sn : Scalar]
Nonces == [idx : 1..N, hidden_pn : Point, binder_pn : Point]

(* A session is of a group that is signed for, and its share is in it.     *)
SessionTyped(session) ==
  /\ session.share \in SecretShare /\ session.group \in Groups
  /\ is_group_member(session.group, session.share)

EntryTyped(entry, session) ==
  /\ session # None
  /\ entry.secret \in SecretNonces /\ entry.secret.idx = session.share.idx
  /\ entry.members \in MemberLists

(* A client asks with the ids of its own group and with posted nonces.     *)
RequestTyped(r) ==
  /\ r.group \in Groups /\ r.hash \in Hashes /\ r.pnonces \in Seq(Nonces)
  /\ r.members \in MemberLists
  /\ r.gid = compute_group_id(r.group)
  /\ r.sid = compute_session_id(r.group, r.members, r.hash)

(* One signature of PartialSignaturesVerify.                               *)
Verifies(p) ==
  LET ctx == SighashCtx(p.request.group, p.request, p.request.sid)
  IN  \E pn \in ToSet(TweakedNonces(p.request, p.request.sid)) :
        /\ pn.idx = p.sig.idx
        /\ verify_partial_sig(ctx, pn, p.sig.pubkey, p.sig.psig)
        /\ \E m \in ToSet(p.request.group.members) : m.idx = p.sig.idx /\ m.pubkey = p.sig.pubkey

(* A signature is made from a share of the group and a nonce of the        *)
(* request, in a context that is not refused (create_psig_pkg_with_nonce). *)
Made(r, sig, share, secret) ==
  LET ctx == SighashCtx(r.group, r, r.sid)
  IN  /\ share \in SecretShare /\ is_group_member(r.group, share)
      /\ secret \in SecretNonces /\ secret.idx = share.idx
      /\ PublicNonce(secret) \in ToSet(r.pnonces)
      /\ CtxOk(ctx) /\ sig = sign_msg(ctx, share, tweak_secret_nonce(secret, r.sid, r.hash))

(* And the request has one nonce for each member (handle_sign_complete).   *)
SignedFor(p) ==
  /\ Len(p.request.pnonces) = Len(p.request.members)
  /\ \A m \in ToSet(p.request.members) :
       Cardinality({k \in DOMAIN p.request.pnonces : p.request.pnonces[k].idx = m}) = 1
  /\ \E share, secret : Made(p.request, p.sig, share, secret)

VerifyInv ==
  /\ DOMAIN sessions = Signer /\ DOMAIN commits = Signer
  /\ \A i \in Signer : sessions[i] # None => SessionTyped(sessions[i])
  /\ \A i \in Signer : \A e \in commits[i] : EntryTyped(e, sessions[i])
  /\ \A p \in posted : p.nonce \in Nonces
  /\ \A r \in requests : RequestTyped(r)
  /\ \A p \in psigs : p.request \in requests /\ p.sig.psig \in Scalar /\ Verifies(p) /\ SignedFor(p)

(* Both ids name the one group whose members had these nonces              *)
(* (compute_group_id).                                                     *)
LEMMA IdTellsGroup ==
  ASSUME NEW g \in Groups, NEW h \in Groups, DOMAIN g.members # {},
         compute_group_id(g) = compute_group_id(h)
  PROVE  g = h
<1>1. PICK k \in DOMAIN g.members : TRUE
  OBVIOUS
<1> DEFINE G == {<<g.members[n].idx, g.nonces[n]>> : n \in DOMAIN g.members}
           H == {<<h.members[n].idx, h.nonces[n]>> : n \in DOMAIN h.members}
<1>2. G = H
  BY DEF compute_group_id
<1>3. <<g.members[k].idx, g.nonces[k]>> \in H
  BY <1>2
<1>4. PICK j \in DOMAIN h.members : <<g.members[k].idx, g.nonces[k]>> = <<h.members[j].idx, h.nonces[j]>>
  BY <1>3
<1> QED
  BY <1>4, GroupAssumption

(* The public form of a tweaked nonce is the tweaked public nonce          *)
(* (tweak_secret_nonce, tweak_pnonce).                                     *)
LEMMA TweaksAgree ==
  ASSUME NEW secret \in SecretNonces, NEW sid, NEW hash
  PROVE  LET snonce == tweak_secret_nonce(secret, sid, hash)
         IN  /\ PublicNonce(snonce) = tweak_pnonce(PublicNonce(secret), sid, hash)
             /\ snonce = [idx |-> secret.idx,
                          hidden_sn |-> mod_n(secret.hidden_sn + get_sighash_binder(sid, secret.idx, hash)),
                          binder_sn |-> mod_n(secret.binder_sn + get_sighash_binder(sid, secret.idx, hash))]
<1>1. tweak_secret_nonce(secret, sid, hash)
        = [idx |-> secret.idx,
           hidden_sn |-> mod_n(secret.hidden_sn + get_sighash_binder(sid, secret.idx, hash)),
           binder_sn |-> mod_n(secret.binder_sn + get_sighash_binder(sid, secret.idx, hash))]
  <2>1. PICK x, y : /\ x = mod_n(secret.hidden_sn + get_sighash_binder(sid, secret.idx, hash))
                    /\ y = mod_n(secret.binder_sn + get_sighash_binder(sid, secret.idx, hash))
    OBVIOUS
  <2>2. tweak_secret_nonce(secret, sid, hash) = [secret EXCEPT !.hidden_sn = x, !.binder_sn = y]
    BY <2>1 DEF tweak_secret_nonce
  <2>3. DOMAIN secret = {"idx", "hidden_sn", "binder_sn"}
    BY DEF SecretNonces
  <2>4. [secret EXCEPT !.hidden_sn = x, !.binder_sn = y]
          = [f \in {"idx", "hidden_sn", "binder_sn"} |->
               IF f = "binder_sn" THEN y ELSE IF f = "hidden_sn" THEN x ELSE secret[f]]
    BY <2>3
  <2>5. [secret EXCEPT !.hidden_sn = x, !.binder_sn = y]
          = [idx |-> secret.idx, hidden_sn |-> x, binder_sn |-> y]
    BY <2>4
  <2> QED
    BY <2>1, <2>2, <2>5
<1> DEFINE bind == get_sighash_binder(sid, secret.idx, hash)
           snonce == tweak_secret_nonce(secret, sid, hash)
           pn == PublicNonce(secret)
<1>2. /\ PublicNonce(snonce).idx = secret.idx
      /\ PublicNonce(snonce).hidden_pn = [dlog |-> mod_n(secret.hidden_sn + bind)]
      /\ PublicNonce(snonce).binder_pn = [dlog |-> mod_n(secret.binder_sn + bind)]
      /\ PublicNonce(snonce) = [idx |-> PublicNonce(snonce).idx,
                                hidden_pn |-> PublicNonce(snonce).hidden_pn,
                                binder_pn |-> PublicNonce(snonce).binder_pn]
  <2> HIDE DEF bind
  <2> QED
    BY <1>1 DEF PublicNonce, get_pubkey, scalar_base_multi, bind
<1>3. /\ pn.idx = secret.idx /\ pn.hidden_pn = [dlog |-> secret.hidden_sn]
      /\ pn.binder_pn = [dlog |-> secret.binder_sn]
  BY DEF PublicNonce, get_pubkey, scalar_base_multi
<1> HIDE DEF pn, snonce
<1>4. tweak_pnonce(pn, sid, hash)
        = [idx |-> secret.idx, hidden_pn |-> [dlog |-> mod_n(secret.hidden_sn + bind)],
           binder_pn |-> [dlog |-> mod_n(secret.binder_sn + bind)]]
  <2>1. \A a, b : element_add([dlog |-> a], [dlog |-> b]) = [dlog |-> mod_n(a + b)]
    BY DEF element_add
  <2> HIDE DEF bind
  <2> QED
    BY <1>3, <2>1 DEF tweak_pnonce, scalar_base_multi, bind
<1>5. PublicNonce(snonce) = tweak_pnonce(pn, sid, hash)
  BY <1>2, <1>4
<1> QED
  BY <1>1, <1>5 DEF pn, snonce

(* The context a signer makes for a request is one of numbers, at the      *)
(* index of every nonce of the request (get_group_signing_ctx).            *)
LEMMA ContextTyped ==
  ASSUME HashesAreNumbers, NEW r, RequestTyped(r), NEW n \in ToSet(r.pnonces)
  PROVE  CtxTyped(SighashCtx(r.group, r, r.sid), n.idx)
<1> DEFINE pnonces == TweakedNonces(r, r.sid)
           pt == get_point_state(r.group.group_pk, Tail(r.hash))
           pn == get_group_pubnonce(pnonces, pt.point, Head(r.hash))
           ctx == SighashCtx(r.group, r, r.sid)
<1>1. r.pnonces \in Seq(Nonces) /\ r.hash \in Seq(Nat) /\ r.hash # <<>> /\ r.group.group_pk \in Point
  BY HashAssumption, GroupAssumption DEF RequestTyped
<1>2. Scalar \subseteq Int /\ \A a \in Int : mod_n(a) \in Int
  BY OrderAssumption, ModIsScalar DEF Scalar
<1>3. pt \in PointState
  <2>1. Tail(r.hash) \in Seq(Nat)
    BY <1>1
  <2>2. Tail(r.hash) \in Seq(Int)
    BY <2>1
  <2> QED
    BY <1>1, <2>2, PointStateTyped
<1>4. /\ ctx.challenge = get_challenge(pn, pt.point, Head(r.hash))
      /\ ctx.parity = Parity(pt.point) /\ ctx.state = pt.state
      /\ ctx.bind_factors = [i \in {p.idx : p \in ToSet(pnonces)} |->
                               get_bind_factor(pnonces, pt.point, Head(r.hash), i)]
  BY DEF SighashCtx, get_group_signing_ctx
<1>5. ctx.indexes = [k \in DOMAIN r.pnonces |-> r.pnonces[k].idx]
  BY IndexesOfContext
<1> HIDE DEF pt, pn, ctx
<1>6. PICK k \in DOMAIN r.pnonces : n = r.pnonces[k]
  BY DEF ToSet
<1>7. n.idx \in {p.idx : p \in ToSet(pnonces)}
  <2>1. k \in DOMAIN pnonces /\ pnonces[k].idx = n.idx
    BY <1>6 DEF TweakedNonces, tweak_pnonce
  <2> HIDE DEF pnonces
  <2> QED
    BY <2>1 DEF ToSet
<1>8. ctx.bind_factors[n.idx] \in Int
  <2> HIDE DEF pnonces
  <2>1. ctx.bind_factors[n.idx] = get_bind_factor(pnonces, pt.point, Head(r.hash), n.idx)
    BY <1>4, <1>7
  <2> QED
    BY <1>2, <2>1 DEF get_bind_factor, HashesAreNumbers, SigningHashesAreNumbers
<1>9. ctx.challenge \in Int
  BY <1>2, <1>4 DEF get_challenge, HashesAreNumbers, SigningHashesAreNumbers
<1>10. ctx.parity \in Int /\ ctx.state \in Int
  BY <1>2, <1>3, <1>4, ParityIsScalar DEF PointState
<1>11. interpolate_x(ToSet(ctx.indexes), n.idx) \in Int
  <2> DEFINE m == Len(r.pnonces)
             idxs == [j \in 1..m |-> r.pnonces[j].idx]
  <2>1. m \in Nat /\ DOMAIN r.pnonces = 1..m /\ \A j \in 1..m : r.pnonces[j] \in Nonces
    BY <1>1
  <2>2. N \in Int /\ Q \in Int /\ 1..N \subseteq 1..(Q - 1)
    BY CountAssumption, OrderAssumption
  <2>3. \A j \in 1..m : idxs[j] \in 1..(Q - 1)
    BY <2>1, <2>2 DEF Nonces
  <2>4. ctx.indexes = idxs /\ DOMAIN idxs = 1..m
    BY <1>5, <2>1
  <2>5. n.idx \in 1..(Q - 1)
    BY <1>6, <2>1, <2>2 DEF Nonces
  <2> HIDE DEF m, idxs
  <2>6. ToSet(idxs) = {idxs[j] : j \in 1..m}
    BY <2>4 DEF ToSet
  <2>7. ToSet(idxs) \in SUBSET (1..(Q - 1))
    BY <2>3, <2>6
  <2>8. IsFiniteSet(ToSet(idxs))
    <3>1. IsFiniteSet(1..(Q - 1))
      BY <2>2, FS_Interval
    <3> QED
      BY <2>7, <3>1, FS_Subset
  <2>9. interpolate_x(ToSet(idxs), n.idx) \in Scalar
    BY <2>5, <2>7, <2>8, InterpolateTyped
  <2> QED
    BY <1>2, <2>4, <2>9
<1> QED
  BY <1>8, <1>9, <1>10, <1>11 DEF CtxTyped, ctx

(* What a signer adds when it does not refuse a completion                 *)
(* (handle_sign_complete, create_psig_pkg_with_nonce).                     *)
LEMMA SignatureAdded ==
  ASSUME HashesAreNumbers, NEW session, NEW entry, NEW r, NEW p,
         SessionTyped(session), EntryTyped(entry, session), RequestTyped(r),
         CompletionOk(session, entry, r), p.request = r,
         create_psig_pkg_with_nonce(session.group, r, session.share, entry.secret).ok,
         p.sig = create_psig_pkg_with_nonce(session.group, r, session.share, entry.secret).sig
  PROVE  p.sig.psig \in Scalar /\ Verifies(p) /\ SignedFor(p)
<1> DEFINE secret == entry.secret
           share == session.share
           snonce == tweak_secret_nonce(secret, r.sid, r.hash)
           ctx == SighashCtx(r.group, r, r.sid)
           sig == sign_msg(ctx, share, snonce)
           pn == PublicNonce(snonce)
<1>1. secret \in SecretNonces /\ secret.idx = share.idx
  BY DEF EntryTyped
<1>2. share \in SecretShare /\ session.group \in Groups
  BY DEF SessionTyped
<1>3. PICK k \in DOMAIN session.group.members :
        /\ session.group.members[k].idx = share.idx
        /\ session.group.members[k].pubkey = get_pubkey(share.seckey)
  BY DEF SessionTyped, is_group_member, ToSet
<1>4. session.group = r.group
  <2>1. compute_group_id(session.group) = compute_group_id(r.group)
    BY DEF CompletionOk, verify_session_pkg, RequestTyped
  <2>2. r.group \in Groups /\ DOMAIN session.group.members # {}
    BY <1>3 DEF RequestTyped
  <2> QED
    BY <1>2, <2>1, <2>2, IdTellsGroup
<1>5. p.sig = sig
  BY <1>4 DEF create_psig_pkg_with_nonce, RequestTyped
<1>18. CtxOk(ctx)
  BY <1>4 DEF create_psig_pkg_with_nonce, RequestTyped, SignOk
<1>6. PublicNonce(secret) \in ToSet(r.pnonces)
  BY DEF CompletionOk
<1>7. PublicNonce(secret).idx = share.idx
  BY <1>1 DEF PublicNonce
<1>8. CtxTyped(ctx, share.idx)
  <2>1. CtxTyped(ctx, PublicNonce(secret).idx)
    BY <1>6, ContextTyped
  <2> QED
    BY <1>7, <2>1
<1>9. pn = tweak_pnonce(PublicNonce(secret), r.sid, r.hash)
  BY <1>1, TweaksAgree
<1>10. snonce.idx = share.idx /\ snonce.hidden_sn \in Int /\ snonce.binder_sn \in Int
  <2> DEFINE bind == get_sighash_binder(r.sid, secret.idx, r.hash)
  <2>1. Scalar \subseteq Int
    BY OrderAssumption DEF Scalar
  <2>2. bind \in Int
    BY <2>1, ModIsScalar DEF get_sighash_binder, HashesAreNumbers
  <2>3. secret.hidden_sn \in Int /\ secret.binder_sn \in Int
    BY <1>1, <2>1 DEF SecretNonces
  <2>4. snonce = [idx |-> secret.idx, hidden_sn |-> mod_n(secret.hidden_sn + bind),
                  binder_sn |-> mod_n(secret.binder_sn + bind)]
    BY <1>1, TweaksAgree
  <2> HIDE DEF bind, snonce
  <2>5. secret.hidden_sn + bind \in Int /\ secret.binder_sn + bind \in Int
    BY <2>2, <2>3
  <2>6. mod_n(secret.hidden_sn + bind) \in Int /\ mod_n(secret.binder_sn + bind) \in Int
    BY <2>1, <2>5, ModIsScalar
  <2> QED
    BY <1>1, <2>4, <2>6
<1>11. pn \in ToSet(TweakedNonces(r, r.sid))
  <2>1. PICK j \in DOMAIN r.pnonces : PublicNonce(secret) = r.pnonces[j]
    BY <1>6 DEF ToSet
  <2>2. j \in DOMAIN TweakedNonces(r, r.sid) /\ TweakedNonces(r, r.sid)[j] = pn
    BY <1>9, <2>1 DEF TweakedNonces
  <2> HIDE DEF pn
  <2> QED
    BY <2>2 DEF ToSet
<1>12. share.seckey \in Int
  BY <1>2, OrderAssumption DEF SecretShare, Scalar
<1> HIDE DEF ctx, snonce, share
<1>13. sig.psig \in Scalar /\ verify_partial_sig(ctx, pn, sig.pubkey, sig.psig)
  BY <1>8, <1>10, <1>12, SignatureVerifies
<1>14. sig.idx = share.idx /\ sig.pubkey = get_pubkey(share.seckey)
  BY DEF sign_msg
<1>15. pn.idx = sig.idx
  BY <1>10, <1>14 DEF PublicNonce
<1>16. \E m \in ToSet(r.group.members) : m.idx = sig.idx /\ m.pubkey = sig.pubkey
  BY <1>3, <1>4, <1>14 DEF ToSet
<1> HIDE DEF sig, pn
<1>17. Verifies(p)
  BY <1>5, <1>11, <1>13, <1>15, <1>16 DEF Verifies, ctx
<1>19. Made(r, p.sig, share, secret)
  <2>1. is_group_member(r.group, share)
    BY <1>4 DEF SessionTyped, share
  <2> QED
    BY <1>1, <1>2, <1>5, <1>6, <1>18, <2>1 DEF Made, ctx, sig, snonce
<1>20. SignedFor(p)
  BY <1>19 DEF SignedFor, CompletionOk
<1> QED
  BY <1>5, <1>13, <1>17, <1>20

(* At first nothing is registered, pending, posted or signed (Init).       *)
LEMMA VerifyInitial == Init => VerifyInv
<1> SUFFICES ASSUME Init PROVE VerifyInv
  OBVIOUS
<1>1. /\ DOMAIN sessions = Signer /\ DOMAIN commits = Signer
      /\ \A i \in Signer : sessions[i] = None /\ commits[i] = {}
      /\ posted = {} /\ requests = {} /\ psigs = {}
  BY DEF Init
<1> QED
  BY <1>1 DEF VerifyInv

(* A session is registered once and never changes, and its signer has no   *)
(* commitments before (Register).                                          *)
LEMMA RegisterVerifies ==
  ASSUME VerifyInv, NEW i \in Signer, NEW o \in Offers(i), Register(i, o.group, o.share)
  PROVE  VerifyInv'
<1> DEFINE session == [group |-> o.group, share |-> o.share]
<1>1. /\ sessions[i] = None /\ RegistrationOk(o.group, o.share)
      /\ sessions' = [sessions EXCEPT ![i] = session]
      /\ commits' = commits /\ posted' = posted /\ requests' = requests /\ psigs' = psigs
  BY DEF Register
<1>2. SessionTyped(session)
  <2>1. o.share \in SecretShare /\ o.group \in Groups
    BY <1>1, OfferAssumption DEF RegistrationOk, Signer
  <2>2. is_group_member(o.group, o.share)
    BY <1>1 DEF RegistrationOk
  <2> QED
    BY <2>1, <2>2 DEF SessionTyped
<1> HIDE DEF session
<1>3. DOMAIN sessions = Signer
  BY DEF VerifyInv
<1>4. DOMAIN sessions' = Signer
      /\ \A j \in Signer : sessions'[j] = IF j = i THEN session ELSE sessions[j]
  BY <1>1, <1>3
<1>5. \A j \in Signer : sessions'[j] # None => SessionTyped(sessions'[j])
  BY <1>2, <1>4 DEF VerifyInv
<1>6. ASSUME NEW j \in Signer, NEW e \in commits[j] PROVE EntryTyped(e, sessions'[j])
  <2>1. EntryTyped(e, sessions[j])
    BY DEF VerifyInv
  <2>2. j # i
    BY <1>1, <2>1 DEF EntryTyped
  <2> QED
    BY <1>4, <2>1, <2>2
<1> QED
  BY <1>1, <1>4, <1>5, <1>6 DEF VerifyInv

(* Fresh nonces are scalars, for the share of the session (SignCommit).    *)
LEMMA SignCommitVerifies ==
  ASSUME HashesAreNumbers, VerifyInv, NEW i \in Signer, NEW members \in MemberLists, NEW seed,
         SignCommit(i, members, seed)
  PROVE  VerifyInv'
<1> DEFINE secret == create_commit_pkg(sessions[i].share, seed)
           entry == [id |-> <<i, seed>>, members |-> members, secret |-> secret]
           post == [id |-> <<i, seed>>, nonce |-> PublicNonce(secret)]
<1>1. /\ sessions[i] # None
      /\ commits' = [commits EXCEPT ![i] = @ \cup {entry}]
      /\ posted' = posted \cup {post}
      /\ sessions' = sessions /\ requests' = requests /\ psigs' = psigs
  BY DEF SignCommit
<1>2. sessions[i].share \in SecretShare
  BY <1>1 DEF VerifyInv, SessionTyped
<1>3. secret \in SecretNonces /\ secret.idx = sessions[i].share.idx
  <2>1. \A a, b : generate_nonce(a, b) \in Scalar
    BY ModIsScalar DEF generate_nonce, HashesAreNumbers
  <2> QED
    BY <1>2, <2>1 DEF create_commit_pkg, SecretNonces, SecretShare
<1>4. EntryTyped(entry, sessions[i])
  <2> HIDE DEF secret
  <2> QED
    BY <1>1, <1>3 DEF EntryTyped
<1>5. post.nonce \in Nonces
  <2> HIDE DEF secret
  <2> QED
    BY <1>3 DEF PublicNonce, get_pubkey, scalar_base_multi, SecretNonces, Nonces, Point
<1> HIDE DEF entry, post
<1>6. DOMAIN commits' = Signer
      /\ \A j \in Signer : commits'[j] = IF j = i THEN commits[i] \cup {entry} ELSE commits[j]
  BY <1>1 DEF VerifyInv
<1>7. \A j \in Signer : \A e \in commits'[j] : EntryTyped(e, sessions[j])
  BY <1>4, <1>6 DEF VerifyInv
<1>8. \A p \in posted' : p.nonce \in Nonces
  BY <1>1, <1>5 DEF VerifyInv
<1> QED
  BY <1>1, <1>6, <1>7, <1>8 DEF VerifyInv

(* A request carries posted nonces and the ids of its group (Compose).     *)
LEMMA ComposeVerifies ==
  ASSUME VerifyInv, NEW group \in Groups, NEW members \in MemberLists, NEW hash \in Hashes,
         NEW idxs \in NonceOrders(members), NEW pick \in [DOMAIN idxs -> posted],
         Compose(group, members, hash, idxs, pick)
  PROVE  VerifyInv'
<1> DEFINE r == [group |-> group, members |-> members, hash |-> hash,
                 ids |-> {p.id : p \in Range(pick)},
                 pnonces |-> [k \in DOMAIN idxs |-> pick[k].nonce],
                 gid |-> compute_group_id(group),
                 sid |-> compute_session_id(group, members, hash)]
<1>1. /\ requests' = requests \cup {r}
      /\ sessions' = sessions /\ commits' = commits /\ posted' = posted /\ psigs' = psigs
  BY DEF Compose
<1>2. r.pnonces \in Seq(Nonces)
  <2>1. Len(idxs) \in Nat /\ DOMAIN idxs = 1..Len(idxs)
    BY ListAssumption
  <2>2. \A k \in DOMAIN idxs : pick[k].nonce \in Nonces
    BY DEF VerifyInv
  <2>3. [k \in DOMAIN idxs |-> pick[k].nonce] \in [1..Len(idxs) -> Nonces]
    BY <2>1, <2>2
  <2> QED
    BY <2>1, <2>3
<1>3. RequestTyped(r)
  BY <1>2 DEF RequestTyped
<1> HIDE DEF r
<1>4. \A x \in requests' : RequestTyped(x)
  BY <1>1, <1>3 DEF VerifyInv
<1>5. \A p \in psigs : p.request \in requests'
  BY <1>1 DEF VerifyInv
<1> QED
  BY <1>1, <1>4, <1>5 DEF VerifyInv

(* A completion uses a commitment up, and what it signs verifies           *)
(* (SignComplete).                                                         *)
LEMMA SignCompleteVerifies ==
  ASSUME HashesAreNumbers, VerifyInv, NEW i \in Signer, NEW r \in requests, SignComplete(i, r)
  PROVE  VerifyInv'
<1>1. PICK entry \in commits[i] :
        LET pkg == create_psig_pkg_with_nonce(sessions[i].group, r, sessions[i].share, entry.secret)
        IN  /\ commits' = [commits EXCEPT ![i] = @ \ {entry}]
            /\ psigs' = IF CompletionOk(sessions[i], entry, r) /\ pkg.ok
                          THEN psigs \cup {[request |-> r, by |-> i, committed |-> entry.members,
                                            sid |-> pkg.sid, ctx |-> pkg.ctx, sig |-> pkg.sig]}
                          ELSE psigs
            /\ sessions' = sessions /\ posted' = posted /\ requests' = requests
  BY DEF SignComplete
<1> PICK session : session = sessions[i]
  OBVIOUS
<1> DEFINE pkg == create_psig_pkg_with_nonce(session.group, r, session.share, entry.secret)
           p == [request |-> r, by |-> i, committed |-> entry.members,
                 sid |-> pkg.sid, ctx |-> pkg.ctx, sig |-> pkg.sig]
<1>2. EntryTyped(entry, session) /\ SessionTyped(session) /\ RequestTyped(r)
  BY DEF VerifyInv, EntryTyped
<1>3. ASSUME CompletionOk(session, entry, r), pkg.ok
      PROVE  p.sig.psig \in Scalar /\ Verifies(p) /\ SignedFor(p)
  <2>1. p.request = r /\ p.sig = pkg.sig
    OBVIOUS
  <2> HIDE DEF p
  <2> QED
    BY <1>2, <1>3, <2>1, SignatureAdded
<1>4. psigs' = IF CompletionOk(session, entry, r) /\ pkg.ok THEN psigs \cup {p} ELSE psigs
  BY <1>1
<1>5. p.request = r
  OBVIOUS
<1> HIDE DEF p, pkg
<1>6. \A q \in psigs' : q.request \in requests /\ q.sig.psig \in Scalar /\ Verifies(q) /\ SignedFor(q)
  BY <1>3, <1>4, <1>5 DEF VerifyInv
<1>7. DOMAIN commits' = Signer /\ \A j \in Signer : commits'[j] \subseteq commits[j]
  BY <1>1 DEF VerifyInv
<1>8. \A j \in Signer : \A e \in commits'[j] : EntryTyped(e, sessions[j])
  BY <1>7 DEF VerifyInv
<1>9. sessions' = sessions /\ posted' = posted /\ requests' = requests
  BY <1>1
<1> QED
  BY <1>6, <1>7, <1>8, <1>9 DEF VerifyInv

(* No step of a client or a signer breaks the invariant (Next).            *)
LEMMA VerifyInductive ==
  ASSUME HashesAreNumbers
  PROVE  VerifyInv /\ [Next]_vars => VerifyInv'
<1> SUFFICES ASSUME VerifyInv, [Next]_vars PROVE VerifyInv'
  OBVIOUS
<1>1. ASSUME NEW i \in Signer, NEW o \in Offers(i), Register(i, o.group, o.share) PROVE VerifyInv'
  BY <1>1, RegisterVerifies
<1>2. ASSUME NEW i \in Signer, NEW members \in MemberLists, NEW seed \in Seeds(i),
             SignCommit(i, members, seed)
      PROVE  VerifyInv'
  BY <1>2, SignCommitVerifies
<1>3. ASSUME NEW i \in Signer, NEW r \in requests, SignComplete(i, r) PROVE VerifyInv'
  BY <1>3, SignCompleteVerifies
<1>4. ASSUME NEW group \in Groups, NEW members \in MemberLists, NEW hash \in Hashes,
             NEW idxs \in NonceOrders(members), NEW pick \in [DOMAIN idxs -> posted],
             Compose(group, members, hash, idxs, pick)
      PROVE  VerifyInv'
  BY <1>4, ComposeVerifies
<1>5. CASE UNCHANGED vars
  BY <1>5 DEF vars, VerifyInv
<1> QED
  BY <1>1, <1>2, <1>3, <1>4, <1>5 DEF Next

(* Sessions, commitments, requests and partial signatures hold what their  *)
(* types allow, and a signer's commitments are for its own share           *)
(* (handle_register, handle_sign_commit, handle_sign_complete).            *)
THEOREM QuorumTypeCorrect ==
  ASSUME HashesAreNumbers
  PROVE  Spec => []TypeOK
<1>1. VerifyInv => TypeOK
  BY DEF VerifyInv, TypeOK, SessionTyped, EntryTyped, RequestTyped, Nonces
<1> QED
  BY <1>1, VerifyInitial, VerifyInductive, PTL DEF Spec

(* Every partial signature a signer gives out verifies for the client that *)
(* asked, for any field, share, nonce, tweaks and member list              *)
(* (create_psig_pkg_with_nonce, verify_partial_sig).                       *)
THEOREM EveryPartialSignatureVerifies ==
  ASSUME HashesAreNumbers
  PROVE  Spec => []PartialSignaturesVerify
<1>1. VerifyInv => PartialSignaturesVerify
  BY DEF VerifyInv, PartialSignaturesVerify, Verifies
<1> QED
  BY <1>1, VerifyInitial, VerifyInductive, PTL DEF Spec

-----------------------------------------------------------------------------
(* Shares of one group are values of the polynomial it was dealt from.     *)

DealtBy(group, poly) ==
  /\ poly \in [1..T -> Scalar] /\ group.group_pk \in Point
  /\ evaluate_x(poly, 0) = group.group_pk.dlog
  /\ \A share \in SecretShare :
       is_group_member(group, share) => share.seckey = evaluate_x(poly, share.idx)

(* A share that fits a group is the value of the dealer's polynomial at    *)
(* its index (is_group_member).                                            *)
LEMMA GroupsAreDealt ==
  ASSUME NEW group \in Groups
  PROVE  \E poly : DealtBy(group, poly)
<1>1. PICK poly \in [1..T -> Scalar] :
        LET dealt == generate_dealer_package(poly).group
        IN  group.group_pk = dealt.group_pk /\ group.members = dealt.members
  BY DealtAssumption
<1> DEFINE n == T - 1
<1>2. n \in Nat /\ n + 1 = T /\ 1 \in 1..T /\ N \in Nat
  BY CountAssumption, OrderAssumption, ThresholdAssumption
<1>3. poly \in [1..T -> Int] /\ poly[1] \in Scalar
  BY <1>2, IndexNumbers
<1>4. group.group_pk \in Point /\ group.group_pk.dlog = poly[1]
  <2>1. group.group_pk = get_share_commits(poly)[1]
    BY <1>1 DEF generate_dealer_package
  <2>2. get_share_commits(poly)[1] = [dlog |-> poly[1]]
    BY <1>2 DEF get_share_commits, scalar_base_multi
  <2> QED
    BY <1>3, <2>1, <2>2 DEF Point
<1>5. evaluate_x(poly, 0) = poly[1]
  <2>1. evaluate_x(poly, 0) \in Scalar
    <3> DEFINE x == 0
               m == T
    <3>1. x \in Int /\ m \in Nat /\ poly \in [1..m -> Int]
      BY <1>2, <1>3
    <3> HIDE DEF x, m
    <3>2. evaluate_x(poly, x) \in Scalar
      BY <3>1, EvaluateTyped
    <3> QED
      BY <3>2 DEF x
  <2> HIDE DEF n
  <2>2. Same(evaluate_x(poly, 0), poly[1])
    BY <1>2, <1>3, ValueAtRoot
  <2> QED
    BY <1>3, <2>1, <2>2, SameScalar
<1>6. ASSUME NEW share \in SecretShare, is_group_member(group, share)
      PROVE  share.seckey = evaluate_x(poly, share.idx)
  <2>1. group.members = [i \in 1..N |-> [idx |-> i, pubkey |-> get_pubkey(create_shares(poly, N)[i].seckey)]]
    BY <1>1 DEF generate_dealer_package
  <2>2. \A i \in 1..N : group.members[i].idx = i /\ group.members[i].pubkey = [dlog |-> evaluate_x(poly, i)]
    BY <2>1 DEF create_shares, get_pubkey, scalar_base_multi
  <2>3. DOMAIN group.members = 1..N
    BY <2>1
  <2>4. PICK m \in ToSet(group.members) : m.idx = share.idx /\ m.pubkey = [dlog |-> share.seckey]
    BY <1>6 DEF is_group_member, get_pubkey, scalar_base_multi
  <2>5. PICK i \in 1..N : m = group.members[i]
    BY <2>3 DEF ToSet
  <2>6. i = share.idx /\ [dlog |-> evaluate_x(poly, i)] = [dlog |-> share.seckey]
    BY <2>2, <2>4, <2>5
  <2> QED
    BY <2>6
<1> QED
  BY <1>4, <1>5, <1>6 DEF DealtBy

(* There is one share for each index.                                      *)
LEMMA ShareOfIndex ==
  ASSUME NEW group \in Groups, NEW a \in SecretShare, NEW b \in SecretShare, a.idx = b.idx,
         is_group_member(group, a), is_group_member(group, b)
  PROVE  a = b
<1>1. PICK poly : DealtBy(group, poly)
  BY GroupsAreDealt
<1>2. a.seckey = b.seckey
  BY <1>1 DEF DealtBy
<1>3. a = [idx |-> a.idx, seckey |-> a.seckey] /\ b = [idx |-> b.idx, seckey |-> b.seckey]
  BY DEF SecretShare
<1> QED
  BY <1>2, <1>3

(* A context that is not refused has one nonce for each index.             *)
LEMMA IndexesApart ==
  ASSUME NEW r, CtxOk(SighashCtx(r.group, r, r.sid)),
         NEW j \in DOMAIN r.pnonces, NEW k \in DOMAIN r.pnonces, r.pnonces[j].idx = r.pnonces[k].idx
  PROVE  j = k
<1> DEFINE idxs == [l \in DOMAIN r.pnonces |-> r.pnonces[l].idx]
<1>1. IsInjective(idxs)
  BY IndexesOfContext DEF CtxOk
<1>2. idxs[j] = idxs[k] /\ j \in DOMAIN idxs /\ k \in DOMAIN idxs
  OBVIOUS
<1> HIDE DEF idxs
<1> QED
  BY <1>1, <1>2 DEF IsInjective

(* Enough of them open the group key.                                      *)
LEMMA SharesOpenKey ==
  ASSUME NEW group \in Groups, NEW S \in SUBSET (1..N), Cardinality(S) >= T, NEW sh,
         \A i \in S : sh[i] \in SecretShare /\ sh[i].idx = i /\ is_group_member(group, sh[i])
  PROVE  Opens(S, sh, group.group_pk)
<1>1. PICK poly : DealtBy(group, poly)
  BY GroupsAreDealt
<1> DEFINE n == T
<1>2. IndexSet(S)
  <2>1. N \in Nat /\ Q \in Nat /\ 1..N \subseteq 1..(Q - 1)
    BY CountAssumption, OrderAssumption
  <2>2. IsFiniteSet(1..N)
    BY <2>1, FS_Interval
  <2>3. IsFiniteSet(S)
    BY <2>2, FS_Subset
  <2> QED
    BY <2>1, <2>3 DEF IndexSet, Index
<1>3. n \in Nat /\ poly \in [1..n -> Int] /\ Cardinality(S) >= n
  <2>1. T \in Nat
    BY CountAssumption, OrderAssumption, ThresholdAssumption
  <2> QED
    BY <1>1, <2>1, IndexNumbers DEF DealtBy
<1>4. group.group_pk \in Point /\ evaluate_x(poly, 0) = group.group_pk.dlog
  BY <1>1 DEF DealtBy
<1>5. \A i \in S : sh[i].idx = i /\ sh[i].seckey \in Int /\ sh[i].seckey = evaluate_x(poly, i)
  <2>1. ASSUME NEW i \in S PROVE sh[i].idx = i /\ sh[i].seckey \in Int /\ sh[i].seckey = evaluate_x(poly, i)
    <3>1. sh[i] \in SecretShare /\ sh[i].idx = i /\ is_group_member(group, sh[i])
      OBVIOUS
    <3>2. sh[i].seckey = evaluate_x(poly, sh[i].idx)
      BY <1>1, <3>1 DEF DealtBy
    <3> QED
      BY <3>1, <3>2, IndexNumbers DEF SecretShare
  <2> QED
    BY <2>1
<1> HIDE DEF n
<1> QED
  BY <1>2, <1>3, <1>4, <1>5, ValuesOpen

(* Signers that hold shares of all the indices of a list derive the secret *)
(* of the group key, though several hold the same one.                     *)
LEMMA SignersDerive ==
  ASSUME NEW group \in Groups, NEW W, NEW held,
         \A i \in W : held[i] \in SecretShare /\ is_group_member(group, held[i]),
         NEW S, S = {held[i].idx : i \in W}, Cardinality(S) >= T, NEW k \in Int
  PROVE  derive_ecdh_secret(EcdhShares(S, held, W, k)) = scalar_multi(group.group_pk, k)
<1> DEFINE sh == [i \in S |-> held[CHOOSE w \in W : held[w].idx = i]]
<1>1. ASSUME NEW i \in S
      PROVE  sh[i] \in SecretShare /\ sh[i].idx = i /\ is_group_member(group, sh[i])
  <2>1. PICK w \in W : w = CHOOSE v \in W : held[v].idx = i
    OBVIOUS
  <2>2. held[w].idx = i
    BY <2>1
  <2>3. sh[i] = held[w]
    BY <2>1
  <2> QED
    BY <2>2, <2>3
<1>2. S \in SUBSET (1..N)
  BY DEF SecretShare
<1> HIDE DEF sh
<1>3. Opens(S, sh, group.group_pk)
  BY <1>1, <1>2, SharesOpenKey
<1>4. \A w \in W : held[w].idx \in S /\ held[w] = sh[held[w].idx]
  <2>1. ASSUME NEW w \in W PROVE held[w].idx \in S /\ held[w] = sh[held[w].idx]
    <3>1. held[w].idx \in S
      OBVIOUS
    <3> QED
      BY <1>1, <3>1, ShareOfIndex
  <2> QED
    BY <2>1
<1>5. \A i \in S : \E w \in W : sh[i] = held[w]
  BY <1>4
<1>6. EcdhShares(S, held, W, k) = EcdhShares(S, sh, S, k)
  <2> DEFINE part(x) == create_ecdh_share(S, x, scalar_base_multi(k))
  <2> HIDE DEF part
  <2>1. {part(held[w]) : w \in W} = {part(sh[i]) : i \in S}
    BY <1>4, <1>5
  <2> QED
    BY <2>1 DEF part, EcdhShares
<1>7. derive_ecdh_secret(EcdhShares(S, sh, S, k)) = scalar_multi(group.group_pk, k)
  BY <1>3, QuorumDerives
<1> QED
  BY <1>6, <1>7

(* Signers that registered with one group, enough of them for the          *)
(* threshold, derive alone what adds up to the secret of the group key     *)
(* with any other key, of which they know the x-coordinate only            *)
(* (handle_ecdh, create_ecdh_pkg).  For every field, polynomial and list.  *)
THEOREM SignersDeriveTheSecret ==
  ASSUME HashesAreNumbers
  PROVE  Spec => []EcdhSecretAgrees
<1>1. VerifyInv => EcdhSecretAgrees
  <2> SUFFICES ASSUME VerifyInv, NEW group \in Groups,
                      NEW W \in SUBSET {i \in Signer : sessions[i] # None /\ sessions[i].group = group},
                      NEW members \in MemberLists, NEW k \in EvenY,
                      {sessions[i].share.idx : i \in W} = ToSet(members), Cardinality(ToSet(members)) >= T
               PROVE  derive_ecdh_secret({create_ecdh_pkg(members, sessions[i].share, XOnly(scalar_base_multi(k))) : i \in W})
                        = scalar_multi(group.group_pk, k)
    BY DEF EcdhSecretAgrees
  <2> DEFINE S == ToSet(members)
             held == [i \in W |-> sessions[i].share]
             a == scalar_base_multi(k)
  <2>1. \A i \in W : held[i] \in SecretShare /\ is_group_member(group, held[i])
    BY DEF VerifyInv, SessionTyped
  <2>2. a \in Point /\ a # identity /\ has_even_y(a) /\ k \in Int
    BY IdentityAssumption, OrderAssumption DEF scalar_base_multi, Point, Scalar, identity, has_even_y
  <2>3. S = {held[i].idx : i \in W} /\ Cardinality(S) >= T
    OBVIOUS
  <2> HIDE DEF a
  <2>4. lift_x(XOnly(a)) = a
    BY <2>2, EvenPoint
  <2>5. \A i \in W : create_ecdh_pkg(members, sessions[i].share, XOnly(a)) = create_ecdh_share(S, held[i], a)
    BY <2>4 DEF create_ecdh_pkg
  <2> HIDE DEF held, S
  <2>6. {create_ecdh_pkg(members, sessions[i].share, XOnly(a)) : i \in W} = EcdhShares(S, held, W, k)
    BY <2>5 DEF EcdhShares, a
  <2>7. derive_ecdh_secret(EcdhShares(S, held, W, k)) = scalar_multi(group.group_pk, k)
    BY <2>1, <2>2, <2>3, SignersDerive
  <2> QED
    BY <2>6, <2>7 DEF a
<1> QED
  BY <1>1, VerifyInitial, VerifyInductive, PTL DEF Spec
-----------------------------------------------------------------------------
(* Answers to one request combine.                                         *)

(* There is one signature for each index.                                  *)
LEMMA MadeOnce ==
  ASSUME NEW r, r.group \in Groups, NEW a, NEW x, NEW u, NEW b, NEW y, NEW v,
         Made(r, a, x, u), Made(r, b, y, v), a.idx = b.idx
  PROVE  a = b
<1>1. /\ x \in SecretShare /\ y \in SecretShare /\ u \in SecretNonces /\ v \in SecretNonces
      /\ u.idx = x.idx /\ v.idx = y.idx
      /\ is_group_member(r.group, x) /\ is_group_member(r.group, y)
      /\ PublicNonce(u) \in ToSet(r.pnonces) /\ PublicNonce(v) \in ToSet(r.pnonces)
      /\ CtxOk(SighashCtx(r.group, r, r.sid))
      /\ a = sign_msg(SighashCtx(r.group, r, r.sid), x, tweak_secret_nonce(u, r.sid, r.hash))
      /\ b = sign_msg(SighashCtx(r.group, r, r.sid), y, tweak_secret_nonce(v, r.sid, r.hash))
  BY DEF Made
<1>2. a.idx = x.idx /\ b.idx = y.idx
  BY <1>1 DEF sign_msg
<1>3. x = y
  BY <1>1, <1>2, ShareOfIndex
<1>4. PICK j \in DOMAIN r.pnonces, k \in DOMAIN r.pnonces :
        PublicNonce(u) = r.pnonces[j] /\ PublicNonce(v) = r.pnonces[k]
  BY <1>1 DEF ToSet
<1>5. r.pnonces[j].idx = u.idx /\ r.pnonces[k].idx = v.idx
  BY <1>4 DEF PublicNonce
<1>6. j = k
  BY <1>1, <1>2, <1>5, IndexesApart
<1>7. u.hidden_sn = v.hidden_sn /\ u.binder_sn = v.binder_sn
  <2>1. PublicNonce(u) = PublicNonce(v)
    BY <1>4, <1>6
  <2>2. /\ PublicNonce(u).hidden_pn.dlog = u.hidden_sn /\ PublicNonce(u).binder_pn.dlog = u.binder_sn
        /\ PublicNonce(v).hidden_pn.dlog = v.hidden_sn /\ PublicNonce(v).binder_pn.dlog = v.binder_sn
    BY DEF PublicNonce, get_pubkey, scalar_base_multi
  <2> QED
    BY <2>1, <2>2
<1>8. /\ u = [idx |-> u.idx, hidden_sn |-> u.hidden_sn, binder_sn |-> u.binder_sn]
      /\ v = [idx |-> v.idx, hidden_sn |-> v.hidden_sn, binder_sn |-> v.binder_sn]
  BY <1>1 DEF SecretNonces
<1>9. u = v
  BY <1>1, <1>3, <1>7, <1>8
<1> QED
  BY <1>1, <1>3, <1>9

(* One signature for each index of a set, and the nonces they are made of. *)
MadeForAll(r, S, sigs, sh, secret) ==
  \A i \in S : Made(r, sigs[i], sh[i], secret[i]) /\ sigs[i].idx = i

TweakedSecrets(r, S, secret) == [i \in S |-> tweak_secret_nonce(secret[i], r.sid, r.hash)]

NonceIndexes(r, n) == [k \in 1..n |-> r.pnonces[k].idx]

(* They are made with shares that open the key and with the nonces the     *)
(* request lists, tweaked.                                                 *)
LEMMA AnswersFit ==
  ASSUME NEW r, RequestTyped(r), NEW n \in Nat, DOMAIN r.pnonces = 1..n,
         NEW S, S = Image(NonceIndexes(r, n), 1..n), Cardinality(S) >= T,
         NEW sigs, NEW sh, NEW secret, MadeForAll(r, S, sigs, sh, secret),
         NEW sn, sn = TweakedSecrets(r, S, secret),
         HashesAreNumbers, CtxOk(SighashCtx(r.group, r, r.sid))
  PROVE  /\ Opens(S, sh, r.group.group_pk)
         /\ NoncesFit(TweakedNonces(r, r.sid), n, S, sn)
         /\ SignedBy(SighashCtx(r.group, r, r.sid), S, sh, sn, sigs)
<1> DEFINE ctx == SighashCtx(r.group, r, r.sid)
           pnonces == TweakedNonces(r, r.sid)
           idxs == [k \in 1..n |-> pnonces[k].idx]
<1>1. ASSUME NEW i \in S
      PROVE  /\ sh[i] \in SecretShare /\ sh[i].idx = i /\ is_group_member(r.group, sh[i])
             /\ secret[i] \in SecretNonces /\ secret[i].idx = i
             /\ PublicNonce(secret[i]) \in ToSet(r.pnonces)
             /\ sigs[i] = sign_msg(ctx, sh[i], sn[i])
  <2>1. Made(r, sigs[i], sh[i], secret[i]) /\ sigs[i].idx = i
    BY DEF MadeForAll
  <2>2. sn[i] = tweak_secret_nonce(secret[i], r.sid, r.hash)
    BY DEF TweakedSecrets
  <2>3. sigs[i] = sign_msg(ctx, sh[i], sn[i])
    BY <2>1, <2>2 DEF Made
  <2>4. sh[i].idx = i
    BY <2>1, <2>3 DEF sign_msg
  <2> QED
    BY <2>1, <2>3, <2>4 DEF Made
<1>2. Opens(S, sh, r.group.group_pk)
  <2>1. r.group \in Groups
    BY DEF RequestTyped
  <2>2. \A i \in S : sh[i] \in SecretShare /\ sh[i].idx = i /\ is_group_member(r.group, sh[i])
    BY <1>1
  <2>3. \A i \in S : i \in 1..N
    BY <2>2 DEF SecretShare
  <2>4. S \in SUBSET (1..N)
    BY <2>3
  <2> QED
    BY <2>1, <2>2, <2>4, SharesOpenKey
<1>10. \A k \in 1..n : r.pnonces[k].idx \in S
  <2>1. \A k \in 1..n : NonceIndexes(r, n)[k] = r.pnonces[k].idx
    BY DEF NonceIndexes
  <2>2. \A k \in 1..n : NonceIndexes(r, n)[k] \in S
    BY DEF Image
  <2> QED
    BY <2>1, <2>2
<1>3. DOMAIN pnonces = 1..n /\ \A k \in 1..n : pnonces[k] = tweak_pnonce(r.pnonces[k], r.sid, r.hash)
  BY DEF TweakedNonces
<1>4. \A k \in 1..n : pnonces[k].idx = r.pnonces[k].idx
  <2>1. \A pn : tweak_pnonce(pn, r.sid, r.hash).idx = pn.idx
    BY DEF tweak_pnonce
  <2> HIDE DEF pnonces
  <2> QED
    BY <1>3, <2>1
<1> HIDE DEF pnonces, ctx
<1>5. OneToOne(idxs, 1..n) /\ Image(idxs, 1..n) = S
  <2>1. \A j, k \in 1..n : r.pnonces[j].idx = r.pnonces[k].idx => j = k
    BY IndexesApart
  <2>2. idxs = NonceIndexes(r, n)
    BY <1>4 DEF NonceIndexes
  <2>3. \A k \in 1..n : idxs[k] = r.pnonces[k].idx
    BY <1>4
  <2> HIDE DEF idxs
  <2>4. OneToOne(idxs, 1..n)
    BY <2>1, <2>3 DEF OneToOne
  <2> QED
    BY <2>2, <2>4
<1>6. ASSUME NEW i \in S PROVE sn[i].hidden_sn \in Int /\ sn[i].binder_sn \in Int
  <2> DEFINE bind == get_sighash_binder(r.sid, secret[i].idx, r.hash)
  <2>1. Scalar \subseteq Int
    BY OrderAssumption DEF Scalar
  <2>2. bind \in Int
    <3>1. BinderHash(r.sid, secret[i].idx, r.hash) \in Int
      BY DEF HashesAreNumbers
    <3> QED
      BY <2>1, <3>1, ModIsScalar DEF get_sighash_binder
  <2>8. secret[i] \in SecretNonces
    BY <1>1
  <2>3. secret[i].hidden_sn \in Int /\ secret[i].binder_sn \in Int
    BY <2>1, <2>8 DEF SecretNonces
  <2>4. tweak_secret_nonce(secret[i], r.sid, r.hash)
          = [idx |-> secret[i].idx, hidden_sn |-> mod_n(secret[i].hidden_sn + bind),
             binder_sn |-> mod_n(secret[i].binder_sn + bind)]
    BY <2>8, TweaksAgree
  <2>5. sn[i] = tweak_secret_nonce(secret[i], r.sid, r.hash)
    BY DEF TweakedSecrets
  <2> HIDE DEF bind
  <2>6. secret[i].hidden_sn + bind \in Int /\ secret[i].binder_sn + bind \in Int
    BY <2>2, <2>3
  <2>7. mod_n(secret[i].hidden_sn + bind) \in Int /\ mod_n(secret[i].binder_sn + bind) \in Int
    BY <2>1, <2>6, ModIsScalar
  <2> QED
    BY <2>4, <2>5, <2>7
<1>7. ASSUME NEW k \in 1..n
      PROVE  /\ pnonces[k].hidden_pn.dlog = sn[pnonces[k].idx].hidden_sn
             /\ pnonces[k].binder_pn.dlog = sn[pnonces[k].idx].binder_sn
  <2> PICK i : i = pnonces[k].idx
    OBVIOUS
  <2>1. i \in S /\ i = r.pnonces[k].idx
    BY <1>4, <1>10
  <2>9. secret[i] \in SecretNonces /\ secret[i].idx = i /\ PublicNonce(secret[i]) \in ToSet(r.pnonces)
    BY <1>1, <2>1
  <2>2. PICK j \in 1..n : PublicNonce(secret[i]) = r.pnonces[j]
    BY <2>9 DEF ToSet
  <2>3. r.pnonces[j].idx = i
    BY <2>2, <2>9 DEF PublicNonce
  <2>4. j = k
    <3>1. j \in DOMAIN r.pnonces /\ k \in DOMAIN r.pnonces /\ r.pnonces[j].idx = r.pnonces[k].idx
      BY <2>1, <2>3
    <3> QED
      BY <3>1, IndexesApart
  <2>5. pnonces[k] = tweak_pnonce(PublicNonce(secret[i]), r.sid, r.hash)
    BY <1>3, <2>2, <2>4
  <2>6. sn[i] = tweak_secret_nonce(secret[i], r.sid, r.hash)
    BY <2>1 DEF TweakedSecrets
  <2>7. PublicNonce(sn[i]) = pnonces[k]
    BY <2>5, <2>6, <2>9, TweaksAgree
  <2>8. PublicNonce(sn[i]).hidden_pn.dlog = sn[i].hidden_sn /\ PublicNonce(sn[i]).binder_pn.dlog = sn[i].binder_sn
    BY DEF PublicNonce, get_pubkey, scalar_base_multi
  <2> QED
    BY <2>7, <2>8
<1>8. NoncesFit(pnonces, n, S, sn)
  BY <1>3, <1>5, <1>6, <1>7 DEF NoncesFit
<1>9. SignedBy(ctx, S, sh, sn, sigs)
  <2>1. \A i \in S : sigs[i].idx = i
    BY DEF MadeForAll
  <2>2. OneToOne(sigs, S)
    BY <2>1 DEF OneToOne
  <2> QED
    BY <1>1, <2>2 DEF SignedBy
<1> QED
  BY <1>2, <1>8, <1>9 DEF pnonces, ctx

(* The answers of all members, each named once and enough of them, verify. *)
LEMMA AnswersCombine ==
  ASSUME HashesAreNumbers, NEW r, RequestTyped(r), IsInjective(r.members), Len(r.members) >= T,
         NEW answers, \A p \in answers : p.request = r /\ SignedFor(p),
         {p.sig.idx : p \in answers} = ToSet(r.members)
  PROVE  LET ctx == SighashCtx(r.group, r, r.sid)
         IN  verify_final_sig(ctx, Head(r.hash), combine_partial_sigs(ctx, {p.sig : p \in answers}))
<1> DEFINE n == Len(r.members)
           S == ToSet(r.members)
           ctx == SighashCtx(r.group, r, r.sid)
           answer(i) == CHOOSE p \in answers : p.sig.idx = i
           sigs == [i \in S |-> answer(i).sig]
           sh == [i \in S |-> CHOOSE x : \E u : Made(r, sigs[i], x, u)]
           secret == [i \in S |-> CHOOSE u : Made(r, sigs[i], sh[i], u)]
           sn == TweakedSecrets(r, S, secret)
           idxs == NonceIndexes(r, n)
<1>1. /\ r.members \in Seq(Nat) /\ n \in Nat /\ DOMAIN r.members = 1..n
      /\ r.hash \in Seq(Nat) /\ r.hash # <<>> /\ r.group \in Groups /\ r.group.group_pk \in Point
      /\ r.pnonces \in Seq(Nonces)
  BY ListAssumption, HashAssumption, GroupAssumption DEF RequestTyped
<1>2. n >= 1 /\ T \in Nat
  BY <1>1, CountAssumption, OrderAssumption, ThresholdAssumption
<1>3. Cardinality(S) >= T
  <2>1. OneToOne(r.members, 1..n)
    BY <1>1 DEF IsInjective, OneToOne
  <2>2. S = Image(r.members, 1..n)
    BY <1>1 DEF ToSet, Image
  <2>3. IsFiniteSet(1..n) /\ Cardinality(1..n) = n
    BY <1>1, <1>2, FS_Interval
  <2> HIDE DEF n, S
  <2>4. Cardinality(S) = n
    BY <2>1, <2>2, <2>3, ImageAsMany
  <2> QED
    BY <2>4 DEF n
<1>4. ASSUME NEW i \in S
      PROVE  /\ answer(i) \in answers /\ sigs[i] = answer(i).sig /\ sigs[i].idx = i
             /\ Made(r, sigs[i], sh[i], secret[i])
  <2>1. answer(i) \in answers /\ answer(i).sig.idx = i
    <3>1. \E p \in answers : p.sig.idx = i
      OBVIOUS
    <3> QED
      BY <3>1
  <2>2. sigs[i] = answer(i).sig
    OBVIOUS
  <2> HIDE DEF answer, sigs
  <2>3. \E x, u : Made(r, sigs[i], x, u)
    BY <2>1, <2>2 DEF SignedFor
  <2>4. sh[i] = CHOOSE x : \E u : Made(r, sigs[i], x, u)
    OBVIOUS
  <2> HIDE DEF sh
  <2>5. \E u : Made(r, sigs[i], sh[i], u)
    BY <2>3, <2>4
  <2>6. Made(r, sigs[i], sh[i], secret[i])
    BY <2>5
  <2> QED
    BY <2>1, <2>2, <2>6
<1>5. 1 \in 1..n /\ r.members[1] \in S
  <2>1. 1 \in 1..n
    BY <1>1, <1>2
  <2>2. 1 \in DOMAIN r.members
    BY <1>1, <2>1
  <2> QED
    BY <2>1, <2>2 DEF ToSet
<1>6. /\ Len(r.pnonces) = n /\ DOMAIN r.pnonces = 1..n
      /\ \A m \in S : Cardinality({k \in DOMAIN r.pnonces : r.pnonces[k].idx = m}) = 1
      /\ CtxOk(ctx)
  <2>1. PICK p \in answers : p = answer(r.members[1])
    BY <1>4, <1>5
  <2>2. p.request = r /\ SignedFor(p)
    OBVIOUS
  <2>3. CtxOk(ctx)
    BY <1>4, <1>5 DEF Made
  <2>4. DOMAIN r.pnonces = 1..Len(r.pnonces)
    BY <1>1
  <2> QED
    BY <2>2, <2>3, <2>4 DEF SignedFor
<1> HIDE DEF answer, sigs, sh, secret
<1>7. S = Image(idxs, 1..n)
  <2>1. \A k \in 1..n : idxs[k] = r.pnonces[k].idx
    BY DEF NonceIndexes
  <2>3. DOMAIN idxs = 1..n
    BY DEF NonceIndexes
  <2>4. ToSet(idxs) = Image(idxs, 1..n)
    BY <2>3 DEF ToSet, Image
  <2>2. \A m \in S : Cardinality({k \in 1..n : idxs[k] = m}) = 1
    <3>1. ASSUME NEW m \in S PROVE Cardinality({k \in 1..n : idxs[k] = m}) = 1
      <4>1. {k \in DOMAIN r.pnonces : r.pnonces[k].idx = m} = {k \in 1..n : idxs[k] = m}
        BY <1>6, <2>1
      <4>2. Cardinality({k \in DOMAIN r.pnonces : r.pnonces[k].idx = m}) = 1
        BY <1>6
      <4> QED
        BY <4>1, <4>2
    <3> QED
      BY <3>1
  <2> HIDE DEF idxs
  <2>5. ToSet(idxs) = S
    BY <1>1, <2>2, <2>3, NoncesCover
  <2> QED
    BY <2>4, <2>5
<1>8. MadeForAll(r, S, sigs, sh, secret)
  BY <1>4 DEF MadeForAll
<1>9. sn = TweakedSecrets(r, S, secret)
  OBVIOUS
<1> HIDE DEF S, n, sn, ctx
<1>10. /\ Opens(S, sh, r.group.group_pk)
       /\ NoncesFit(TweakedNonces(r, r.sid), n, S, sn)
       /\ SignedBy(SighashCtx(r.group, r, r.sid), S, sh, sn, sigs)
  BY <1>1, <1>3, <1>6, <1>7, <1>8, <1>9, AnswersFit DEF ctx
<1>11. verify_final_sig(ctx, Head(r.hash), combine_partial_sigs(ctx, Image(sigs, S)))
  <2>1. ctx = get_group_signing_ctx(r.group.group_pk, TweakedNonces(r, r.sid), Head(r.hash), Tail(r.hash))
    BY DEF ctx, SighashCtx
  <2>2. Tail(r.hash) \in Seq(Nat)
    BY <1>1
  <2>3. Tail(r.hash) \in Seq(Int)
    BY <2>2
  <2>4. SigningHashesAreNumbers
    BY DEF HashesAreNumbers
  <2>5. SignedBy(ctx, S, sh, sn, sigs)
    BY <1>10 DEF ctx
  <2> QED
    BY <1>1, <1>6, <1>10, <2>1, <2>3, <2>4, <2>5, SignaturesCombine
<1>12. {p.sig : p \in answers} = Image(sigs, S)
  <2>1. ASSUME NEW p \in answers PROVE p.sig.idx \in S /\ p.sig = sigs[p.sig.idx]
    <3>1. p.sig.idx \in S
      BY DEF S
    <3>2. PICK x, u : Made(r, p.sig, x, u)
      BY DEF SignedFor
    <3>3. Made(r, sigs[p.sig.idx], sh[p.sig.idx], secret[p.sig.idx]) /\ sigs[p.sig.idx].idx = p.sig.idx
      BY <1>8, <3>1 DEF MadeForAll
    <3> QED
      BY <1>1, <3>1, <3>2, <3>3, MadeOnce
  <2>2. \A i \in S : answer(i) \in answers /\ sigs[i] = answer(i).sig
    BY <1>4
  <2>3. {p.sig : p \in answers} = {sigs[i] : i \in S}
    BY <2>1, <2>2
  <2> QED
    BY <2>3 DEF Image
<1> QED
  BY <1>11, <1>12 DEF ctx

(* When every member a request names, nobody twice and enough for the      *)
(* threshold, has answered it, what the signers computed alone combines to *)
(* a BIP340 signature of the message under the tweaked group key           *)
(* (create_psig_pkg_with_nonce, combine_partial_sigs, verify_final_sig).   *)
THEOREM AnsweredRequestsCombine ==
  ASSUME HashesAreNumbers
  PROVE  Spec => []AnsweredRequestsVerify
<1>1. VerifyInv => AnsweredRequestsVerify
  <2> SUFFICES ASSUME VerifyInv, NEW r \in requests, IsInjective(r.members), Len(r.members) >= T,
                      {p.sig.idx : p \in Answers(r)} = ToSet(r.members)
               PROVE  LET ctx == SighashCtx(r.group, r, r.sid)
                      IN  verify_final_sig(ctx, Head(r.hash),
                                           combine_partial_sigs(ctx, {p.sig : p \in Answers(r)}))
    BY DEF AnsweredRequestsVerify
  <2>1. RequestTyped(r) /\ \A p \in Answers(r) : p.request = r /\ SignedFor(p)
    BY DEF VerifyInv, Answers
  <2> HIDE DEF Answers
  <2> QED
    BY <2>1, AnswersCombine
<1> QED
  BY <1>1, VerifyInitial, VerifyInductive, PTL DEF Spec
=============================================================================
