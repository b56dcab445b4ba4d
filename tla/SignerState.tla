----------------------------- MODULE SignerState -----------------------------
(***************************************************************************)
(* The state the Rust signer's request handlers share, and what each of    *)
(* them remembers between two accesses to it.                              *)
(*                                                                         *)
(* `Signer` is shared by the worker threads of an axum server.  A handler  *)
(* is synchronous, so a request runs on one thread from start to end, but  *)
(* the requests of several threads interleave: one get, set, delete or     *)
(* entries() of a Collection is atomic (a sled operation), a sequence of   *)
(* them is not, and only commits_by_client is behind a mutex.  So a step   *)
(* of the model is one access to the shared state with the local work      *)
(* around it, and task[h] is what worker thread h holds in its locals.     *)
(*                                                                         *)
(* A table is a function from the keys it holds to their values, as a      *)
(* Collection is.  A request that is answered before it writes anything    *)
(* leaves no trace and has no action.  Time is kept as flags that only the *)
(* passage of time raises: `old` (created more than 15 minutes ago),       *)
(* `idle` (last activity more than 30 days ago) and `stale` (a commitment  *)
(* older than COMMIT_TTL_SECS).                                            *)
(***************************************************************************)
EXTENDS Naturals, FiniteSets

CONSTANTS
  Client,       \* client public keys
  Handler,      \* worker threads of the server
  Nonce,        \* commit ids; an id also names the nonce pair drawn with it
  Idx,          \* member indices of the groups
  MemberSets,   \* the member sets signing requests name
  Group,        \* groups, each named by the user key that owns it (group_pk)
  Hash,         \* messages to sign
  Email,        \* email addresses; the signer's hash of one is injective
  Password,     \* password hashes
  Otp,          \* one-time passwords
  Recovery,     \* the recovery flags registrations carry
  Path,         \* the endpoints clients call
  KeyReuse,     \* whether clients use a key again that they registered or logged in with
  Elapses,      \* which time windows run out: those of sessions, grants, commits
  MaxRestarts,  \* bound on the number of times the process is restarted
  None          \* an absent Option field

ASSUME HandlersAssumption == IsFiniteSet(Handler) /\ IsFiniteSet(Client)
ASSUME RestartsAssumption == MaxRestarts \in Nat
ASSUME RecoveryAssumption == Recovery \subseteq BOOLEAN
ASSUME MembersAssumption == MemberSets \subseteq SUBSET Idx
ASSUME ElapsesAssumption == Elapses \subseteq {"session", "grant", "commit"}
ASSUME KeyReuseAssumption == KeyReuse \in BOOLEAN
ASSUME NoneAssumption == None \notin Email /\ None \notin Password /\ None \notin Otp

VARIABLES
  sessions, logins, recoveries, challenges,  \* persisted tables
  index,        \* sessions_by_email_hash: email -> the clients listed for it
  commits,      \* commits_by_client, flattened; in memory only
  task,         \* the request each worker thread is serving
  cleaner,      \* the cleanup task
  restarts,     \* how often the process has been restarted
  \* history, which no handler reads
  drawn,        \* every commitment ever stored
  signed,       \* every partial signature ever computed
  mailed,       \* every one-time password: whom it is for, where it is sent
  redeemed,     \* every acceptance of a one-time password
  opened,       \* every session offered to an authenticated email
  usedKeys      \* every client key a session or a recovery was asked for with

store == <<sessions, logins, recoveries, challenges, index>>
authHistory == <<mailed, redeemed, opened, usedKeys>>
history == <<drawn, signed, authHistory>>
vars == <<store, commits, task, cleaner, restarts, history>>

-----------------------------------------------------------------------------
(* Collection operations: set, delete; entries() is the function itself.   *)

Put(table, k, v) == [x \in DOMAIN table \cup {k} |-> IF x = k THEN v ELSE table[x]]
Drop(table, k) == [x \in DOMAIN table \ {k} |-> table[x]]
Empty == [x \in {} |-> None]

Table(K, V, t) == DOMAIN t \subseteq K /\ \A k \in DOMAIN t : t[k] \in V

-----------------------------------------------------------------------------
(* What the tables hold.                                                   *)

Goal == {"login", "recovery"}

SignerSession ==
  [group : Group, idx : Idx, recovery : BOOLEAN, old : BOOLEAN, idle : BOOLEAN,
   deactivated : BOOLEAN, email : Email \cup {None}, password : Password \cup {None}]

CommitEntry == [client : Client, id : Nonce, idx : Idx, members : MemberSets]
Pending == [entry : CommitEntry, stale : BOOLEAN]
SignerChallenge == [otp : Otp, old : BOOLEAN]
Grant == [clients : SUBSET Client, old : BOOLEAN]

(* A round-two request: the commitment it completes, the nonce it presents *)
(* at the signer's own index, the member set and the message.              *)
Request == [id : Nonce, own : Nonce, members : MemberSets, hash : Hash]

(* again tells a second use of a one-time password or of a nonce from the  *)
(* first, which may agree with it in everything else.                      *)
Mail == [otp : Otp, for : Email, to : Email]
Redemption == [otp : Otp, by : Client, goal : Goal, late : BOOLEAN, again : BOOLEAN]
Opening == [asked : Email, email : Email \cup {None}]
Psig ==
  [entry : CommitEntry, client : Client, own : Nonce, idx : Idx, members : MemberSets,
   hash : Hash, again : BOOLEAN]

SignedBefore(id) == \E p \in signed : p.entry.id = id
AcceptedBefore(otp) == \E r \in redeemed : r.otp = otp

-----------------------------------------------------------------------------
(* What a worker thread holds.  pc names the access it makes next.         *)

Idle == [pc |-> "idle"]

SigningTask ==
  [pc : {"commit"}, client : Client, session : SignerSession, members : MemberSets]
    \cup [pc : {"take"}, client : Client, session : SignerSession, req : Request]
    \cup [pc : {"sign"}, client : Client, session : SignerSession, req : Request,
          entry : CommitEntry]
    \cup [pc : {"ecdh"}, client : Client, session : SignerSession]

SessionTask ==
  [pc : {"add"}, client : Client, session : SignerSession]
    \cup [pc : {"index_get"}, client : Client, email : Email]
    \cup [pc : {"index_set"}, client : Client, email : Email, clients : SUBSET Client]
    \cup [pc : {"deactivate", "delete", "remove"}, client : Client]
    \cup [pc : {"deactivate_set"}, client : Client, session : SignerSession]
    \cup [pc : {"unindex_get"}, client : Client, email : Email]
    \cup [pc : {"unindex_set"}, client : Client, email : Email, clients : SUBSET Client]

(* late, which the code does not compute, is the age of the challenge got.   *)
AuthTask ==
  [pc : {"challenge"}, client : Client, email : Email]
    \cup [pc : {"auth"}, client : Client, goal : Goal, email : Email,
          password : Password \cup {None}, otp : Otp \cup {None}]
    \cup [pc : {"otp"}, client : Client, goal : Goal, email : Email, otp : Otp,
          clients : SUBSET Client]
    \cup [pc : {"otp_delete"}, client : Client, goal : Goal, email : Email, otp : Otp,
          clients : SUBSET Client, match : BOOLEAN, late : BOOLEAN]
    \cup [pc : {"collect"}, client : Client, goal : Goal, email : Email,
          password : Password \cup {None}, clients : SUBSET Client]
    \cup [pc : {"grant"}, client : Client, goal : Goal, clients : SUBSET Client]
    \cup [pc : {"select"}, client : Client, goal : Goal, grant : Grant, target : Client]
    \cup [pc : {"load"}, client : Client, goal : Goal, target : Client]

Task == {Idle} \cup SigningTask \cup SessionTask \cup AuthTask

Goto(h, t) == task' = [task EXCEPT ![h] = t]

(* A request arrives at the endpoint p and finds worker thread h free.     *)
Serve(h, p) == p \in Path /\ task[h] = Idle

(* The client makes a key for each registration, login and recovery, and   *)
(* sends a signer one such request with it; others may not keep that rule. *)
MayOpen(c) == KeyReuse \/ c \notin usedKeys

(* Mutant: a deactivated session still serves requests.                    *)
ActiveAlways(c) == c \in DOMAIN sessions

Active(c) == c \in DOMAIN sessions /\ ~sessions[c].deactivated

(* The session last_activity: now(), ..session } that a handler writes     *)
(* back: the copy it read when the request began.                          *)
Touched(session) == [session EXCEPT !.idle = FALSE]
=============================================================================
