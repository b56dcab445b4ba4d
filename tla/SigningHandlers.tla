--------------------------- MODULE SigningHandlers ---------------------------
(***************************************************************************)
(* The two rounds of a signature, and ECDH: handle_sign_commit,            *)
(* handle_sign_complete and handle_ecdh of the Rust signer.                *)
(***************************************************************************)
EXTENDS SignerState

(* Round one reads the session of the client key.                          *)
SignCommit(h, c, members) ==
  /\ Serve(h, "/sign/commit")
  /\ Active(c)
  /\ Goto(h, [pc |-> "commit", client |-> c, session |-> sessions[c], members |-> members])
  /\ UNCHANGED <<store, commits, cleaner, restarts, history>>

(* Mutant: ids repeat, they differ only from those pending.                *)
PushCommitRepeats(h) ==
  /\ task[h].pc = "commit"
  /\ task[h].session.idx \in task[h].members
  /\ \E id \in Nonce \ {p.entry.id : p \in commits} :
       LET entry == [client |-> task[h].client, id |-> id, idx |-> task[h].session.idx,
                     members |-> task[h].members]
       IN  /\ commits' = commits \cup {[entry |-> entry, stale |-> FALSE]}
           /\ drawn' = drawn \cup {entry}
  /\ Goto(h, Idle)
  /\ UNCHANGED <<store, cleaner, restarts, signed, authHistory>>

(* It draws a nonce pair and a commit id, both random and so never drawn   *)
(* before, and pushes the commitment under the lock.                       *)
PushCommit(h) ==
  /\ task[h].pc = "commit"
  /\ task[h].session.idx \in task[h].members
  /\ \E id \in Nonce \ {e.id : e \in drawn} :
       LET entry == [client |-> task[h].client, id |-> id, idx |-> task[h].session.idx,
                     members |-> task[h].members]
       IN  /\ commits' = commits \cup {[entry |-> entry, stale |-> FALSE]}
           /\ drawn' = drawn \cup {entry}
  /\ Goto(h, Idle)
  /\ UNCHANGED <<store, cleaner, restarts, signed, authHistory>>

(* Round two reads the session again.                                      *)
SignComplete(h, c, req) ==
  /\ Serve(h, "/sign/complete")
  /\ Active(c)
  /\ Goto(h, [pc |-> "take", client |-> c, session |-> sessions[c], req |-> req])
  /\ UNCHANGED <<store, commits, cleaner, restarts, history>>

(* Mutant: the commitment is looked up and left in the list.               *)
TakeCommitCopies(h) ==
  /\ task[h].pc = "take"
  /\ \E p \in commits :
       /\ p.entry.client = task[h].client
       /\ p.entry.id = task[h].req.id
       /\ Goto(h, [pc |-> "sign", client |-> task[h].client, session |-> task[h].session,
                   req |-> task[h].req, entry |-> p.entry])
  /\ UNCHANGED <<store, commits, cleaner, restarts, history>>

(* take_commit: one locked search-and-remove in the client's own list.  It *)
(* does not look at the commitment's age.                                  *)
TakeCommit(h) ==
  /\ task[h].pc = "take"
  /\ \E p \in commits :
       /\ p.entry.client = task[h].client
       /\ p.entry.id = task[h].req.id
       /\ commits' = commits \ {p}
       /\ Goto(h, [pc |-> "sign", client |-> task[h].client, session |-> task[h].session,
                   req |-> task[h].req, entry |-> p.entry])
  /\ UNCHANGED <<store, cleaner, restarts, history>>

(* Mutant: the share may be of another index than the commitment.          *)
MatchesAnyShare(session, req, entry) ==
  /\ req.members = entry.members
  /\ req.own = entry.id

(* The request agrees with the commitment: the same members, the committed *)
(* nonce at the signer's own index, and (in sign_msg) a share of that      *)
(* index.                                                                  *)
Matches(session, req, entry) ==
  /\ req.members = entry.members
  /\ req.own = entry.id
  /\ session.idx = entry.idx

(* The partial signature is computed and the copy of the session is        *)
(* written back with a new last_activity.                                  *)
FinishSign(h) ==
  /\ task[h].pc = "sign"
  /\ Matches(task[h].session, task[h].req, task[h].entry)
  /\ signed' = signed \cup
       {[entry |-> task[h].entry, client |-> task[h].client, own |-> task[h].req.own,
         idx |-> task[h].session.idx, members |-> task[h].req.members,
         hash |-> task[h].req.hash,
         again |-> SignedBefore(task[h].entry.id)]}
  /\ sessions' = Put(sessions, task[h].client, Touched(task[h].session))
  /\ Goto(h, Idle)
  /\ UNCHANGED <<logins, recoveries, challenges, index, commits, cleaner, restarts,
                 drawn, authHistory>>

Ecdh(h, c) ==
  /\ Serve(h, "/ecdh")
  /\ Active(c)
  /\ Goto(h, [pc |-> "ecdh", client |-> c, session |-> sessions[c]])
  /\ UNCHANGED <<store, commits, cleaner, restarts, history>>

FinishEcdh(h) ==
  /\ task[h].pc = "ecdh"
  /\ sessions' = Put(sessions, task[h].client, Touched(task[h].session))
  /\ Goto(h, Idle)
  /\ UNCHANGED <<logins, recoveries, challenges, index, commits, cleaner, restarts, history>>

(* The request is refused after its first read: by the rate limit of the   *)
(* client key (RateLimit.tla), because there is no such commitment, or     *)
(* because a check on the public nonces, gid, sid or ecdh_pk fails (their  *)
(* data is not modelled).  A commitment already taken is lost.             *)
Refuse(h) ==
  /\ task[h].pc \in {"commit", "take", "sign", "ecdh"}
  /\ Goto(h, Idle)
  /\ UNCHANGED <<store, commits, cleaner, restarts, history>>

SigningNext ==
  \E h \in Handler :
    \/ \E c \in Client, members \in MemberSets : SignCommit(h, c, members)
    \/ PushCommit(h)
    \/ \E c \in Client, req \in Request : SignComplete(h, c, req)
    \/ TakeCommit(h)
    \/ FinishSign(h)
    \/ \E c \in Client : Ecdh(h, c)
    \/ FinishEcdh(h)
    \/ Refuse(h)
=============================================================================
