--------------------------- MODULE SignerProperties ---------------------------
(***************************************************************************)
(* What the Rust signer promises, and what of it holds only under          *)
(* conditions.                                                             *)
(***************************************************************************)
EXTENDS Signer

(* ------------------------------- nonces -------------------------------- *)

(* A nonce drawn by /sign/commit makes at most one partial signature,      *)
(* whatever the order of completions, cleanups and restarts ("concurrent   *)
(* completions for one commit_id yield at most one success").              *)
NonceSignsOnce == \A p, q \in signed : p.entry.id = q.entry.id => p = q

(* A partial signature goes to the client the commitment was made for, for *)
(* the member set it was made with, with the committed nonce and a share   *)
(* of the committed index, although the client may have lost its session   *)
(* and registered again with another share between the two rounds.         *)
SignedAsCommitted ==
  \A p \in signed :
    /\ p.entry \in drawn
    /\ p.client = p.entry.client
    /\ p.members = p.entry.members
    /\ p.own = p.entry.id
    /\ p.idx = p.entry.idx

Held == {h \in Handler : task[h].pc = "sign"}
PendingIds == {p.entry.id : p \in commits}
HeldIds == {task[h].entry.id : h \in Held}
SignedIds == {p.entry.id : p \in signed}

NonceState ==
  [n \in Nonce |->
     IF n \in SignedIds THEN "spent"
     ELSE IF n \in PendingIds \cup HeldIds THEN "open"
     ELSE IF n \in {e.id : e \in drawn} THEN "lost"
     ELSE "fresh"]

Released == [n \in Nonce |-> {p.hash : p \in {q \in signed : q.entry.id = n}}]

OneTime ==
  INSTANCE OneTimeNonce WITH Message <- Hash, state <- NonceState, released <- Released

(* The signer implements the one-time nonce: what take_commit, cleanup or  *)
(* a restart has removed from commits_by_client never comes back.          *)
ImplementsOneTimeNonce == OneTime!Spec

(* ------------------------------ revocation ----------------------------- *)

Revoked(c) == c \in DOMAIN sessions /\ sessions[c].deactivated

(* A request that read c's session while it was active, or a login with    *)
(* the key c, is still on its way and may write the session.               *)
Threatens(t, c) ==
  \/ /\ t.pc \in {"commit", "take", "sign", "ecdh", "add", "deactivate_set"}
     /\ t.client = c /\ ~t.session.deactivated
  \/ /\ t.pc \in {"auth", "otp", "otp_delete", "collect", "grant", "select", "load"}
     /\ t.client = c /\ t.goal = "login"

Settled(c) ==
  /\ c \notin DOMAIN logins
  /\ \A h \in Handler : ~Threatens(task[h], c)

(* Once a session is deactivated and the requests that overlapped the      *)
(* deactivation have been answered, the key stays revoked until the        *)
(* session is deleted, and draws no nonce and makes no signature.          *)
RevokedForGood ==
  [][\A c \in Client : Revoked(c) /\ Settled(c) =>
       /\ c \in DOMAIN sessions' => Revoked(c)' /\ Settled(c)'
       /\ \A p \in signed' \ signed : p.client # c
       /\ \A e \in drawn' \ drawn : e.client # c]_vars

(* "Session deactivation ... revokes the validity of the `client` key"     *)
(* (PROTOCOL.md): a deactivated session never becomes active again.  The   *)
(* code breaks this: see the README.                                       *)
DeactivationSticks ==
  [][\A c \in Client : Revoked(c) /\ c \in DOMAIN sessions' => Revoked(c)']_vars

(* ----------------------- requests that overlap ------------------------- *)

(* What follows holds of requests that keep out of each other's way, which *)
(* the code does not see to; each property needs some of these conditions. *)

(* No two requests in progress act for one client key.  (The client of a   *)
(* challenge is not the one who asked for it.)                             *)
Acts(t) == t.pc \notin {"idle", "challenge"}

KeysApart ==
  \A h, g \in Handler :
    Acts(task[h]) /\ Acts(task[g]) /\ task[h].client = task[g].client => h = g

(* No two hold a copy of one email's list, to write it back.               *)
HoldsList(t) == t.pc \in {"index_set", "unindex_set"}

ListsApart ==
  \A h, g \in Handler :
    HoldsList(task[h]) /\ HoldsList(task[g]) /\ task[h].email = task[g].email => h = g

(* No two are between the get and the delete of one email's challenge.     *)
OtpsApart ==
  \A h, g \in Handler :
    task[h].pc = "otp_delete" /\ task[g].pc = "otp_delete" /\ task[h].email = task[g].email
      => h = g

(* A restart does not come between two writes of add_session or of         *)
(* delete_session.                                                         *)
MidWrites(t) == t.pc \in {"index_get", "index_set", "remove"}
WholeRestart == restarts' # restarts => \A h \in Handler : ~MidWrites(task[h])

(* The signer when all of that is so: threads interleave all the same.     *)
ApartSpec ==
  Init /\ [][Next /\ KeysApart' /\ ListsApart' /\ OtpsApart' /\ WholeRestart]_vars

(* ------------------------------- by email ------------------------------ *)

(* A client key has one role at a time: it holds a session, or a pending   *)
(* login, or a pending recovery ("Do not re-use session keys").            *)
KeyRoles ==
  /\ DOMAIN sessions \cap DOMAIN logins = {}
  /\ DOMAIN sessions \cap DOMAIN recoveries = {}
  /\ DOMAIN logins \cap DOMAIN recoveries = {}

(* A session with an email can be found by it: its client is listed in the *)
(* email's index, except while add_session or delete_session is between    *)
(* its writes.                                                             *)
Between(c) == \E h \in Handler : MidWrites(task[h]) /\ task[h].client = c

IndexComplete ==
  \A c \in DOMAIN sessions :
    sessions[c].email # None /\ ~Between(c) =>
      sessions[c].email \in DOMAIN index /\ c \in index[sessions[c].email]

(* A one-time password is accepted at most once ("OTPs MUST be invalidated *)
(* after a single use", PROTOCOL.md).                                      *)
OtpAcceptedOnce == \A r, q \in redeemed : r.otp = q.otp => r = q

(* A one-time password is not accepted after its time ("and MUST expire    *)
(* after a short time", PROTOCOL.md).  The code breaks this: see the       *)
(* README.                                                                 *)
OtpExpires == \A r \in redeemed : ~r.late

(* A one-time password is mailed to the address it was asked for, and      *)
(* authenticating with an email opens only the sessions of that email,     *)
(* although the cleanup leaves deleted sessions in the index.              *)
EmailOwnsItsSessions ==
  /\ \A m \in mailed : m.to = m.for
  /\ \A o \in opened : o.email = o.asked
=============================================================================
