----------------------------- MODULE SignerProofs -----------------------------
(***************************************************************************)
(* The signer, for any number of clients, worker threads, nonces and       *)
(* restarts.  Every table, every request in progress and the cleanup task  *)
(* keep their shape.  A nonce signs at most once, and what it signs is     *)
(* what it was committed to, so that the signer implements the one-time    *)
(* nonce.  A deactivated key stays revoked.                                *)
(***************************************************************************)
EXTENDS SignerProperties, TLAPS

-----------------------------------------------------------------------------
(* Types.                                                                  *)

LEMMA PutIsTable ==
  ASSUME NEW K, NEW V, NEW t, Table(K, V, t), NEW k \in K, NEW v \in V
  PROVE  Table(K, V, Put(t, k, v))
  BY DEF Table, Put

(* A table with a key deleted is a table (delete).                         *)
LEMMA DropIsTable ==
  ASSUME NEW K, NEW V, NEW t, Table(K, V, t), NEW k
  PROVE  Table(K, V, Drop(t, k))
  BY DEF Table, Drop

(* An empty collection is a table.                                         *)
LEMMA EmptyIsTable == ASSUME NEW K, NEW V PROVE Table(K, V, Empty)
  BY DEF Table, Empty

(* What a request in progress holds at each point of its handler.          *)
LEMMA SigningShape ==
  ASSUME NEW t \in Task
  PROVE  /\ t.pc = "commit" => /\ t.client \in Client /\ t.session \in SignerSession
                               /\ t.members \in MemberSets
         /\ t.pc = "take" => /\ t.client \in Client /\ t.session \in SignerSession
                             /\ t.req \in Request
         /\ t.pc = "sign" => /\ t.client \in Client /\ t.session \in SignerSession
                             /\ t.req \in Request /\ t.entry \in CommitEntry
         /\ t.pc = "ecdh" => t.client \in Client /\ t.session \in SignerSession
  BY DEF Task, Idle, SigningTask, SessionTask, AuthTask

(* What the locals of a session handler hold at each of its accesses.      *)
LEMMA SessionShape ==
  ASSUME NEW t \in Task
  PROVE  /\ t.pc \in {"add", "deactivate_set"} =>
              t.client \in Client /\ t.session \in SignerSession
         /\ t.pc \in {"index_get", "unindex_get"} => t.client \in Client /\ t.email \in Email
         /\ t.pc \in {"index_set", "unindex_set"} =>
              t.client \in Client /\ t.email \in Email /\ t.clients \in SUBSET Client
         /\ t.pc \in {"deactivate", "delete", "remove"} => t.client \in Client
  BY DEF Task, Idle, SigningTask, SessionTask, AuthTask

(* What the locals of a challenge, login or recovery hold at each access.  *)
LEMMA AuthShape ==
  ASSUME NEW t \in Task
  PROVE  /\ t.pc = "challenge" => t.client \in Client /\ t.email \in Email
         /\ t.pc \in {"auth", "otp", "otp_delete", "collect", "grant", "select", "load"} =>
              t.client \in Client /\ t.goal \in Goal
         /\ t.pc \in {"auth", "otp", "otp_delete", "collect"} => t.email \in Email
         /\ t.pc \in {"auth", "collect"} => t.password \in Password \cup {None}
         /\ t.pc = "auth" => t.otp \in Otp \cup {None}
         /\ t.pc \in {"otp", "otp_delete"} => t.otp \in Otp
         /\ t.pc \in {"otp", "otp_delete", "collect", "grant"} => t.clients \in SUBSET Client
         /\ t.pc = "otp_delete" => t.match \in BOOLEAN /\ t.late \in BOOLEAN
         /\ t.pc = "select" => t.grant \in Grant
         /\ t.pc \in {"select", "load"} => t.target \in Client
  BY DEF Task, Idle, SigningTask, SessionTask, AuthTask

Tasks == DOMAIN task = Handler /\ \A h \in Handler : task[h] \in Task

(* A handler that goes on with locals of their kind leaves all tasks of    *)
(* their kind.                                                             *)
LEMMA GotoKeepsTasks ==
  ASSUME Tasks, NEW h \in Handler, NEW t \in Task, Goto(h, t)
  PROVE  Tasks'
  BY DEF Tasks, Goto

(* Everything but the requests in progress.                                *)
Rest ==
  /\ Table(Client, SignerSession, sessions)
  /\ Table(Client, Grant, logins)
  /\ Table(Client, Grant, recoveries)
  /\ Table(Email, SignerChallenge, challenges)
  /\ Table(Email, SUBSET Client, index)
  /\ commits \subseteq Pending
  /\ cleaner \in [table : Tables \cup {None}, keys : SUBSET (Client \cup Email)]
  /\ restarts \in 0..MaxRestarts
  /\ drawn \subseteq CommitEntry /\ signed \subseteq Psig
  /\ mailed \subseteq Mail /\ redeemed \subseteq Redemption
  /\ opened \subseteq Opening /\ usedKeys \subseteq Client

(* The type invariant is that of the tables and that of the tasks.         *)
LEMMA TypeParts == TypeOK <=> Rest /\ Tasks
  BY DEF TypeOK, Rest, Tasks

-----------------------------------------------------------------------------

(* The signing handlers keep the type invariant.                           *)
LEMMA SigningIsTyped == Rest /\ Tasks /\ SigningNext => Rest' /\ Tasks'
<1> SUFFICES ASSUME Rest, Tasks, NEW h \in Handler,
                    \/ \E c \in Client, members \in MemberSets : SignCommit(h, c, members)
                    \/ PushCommit(h)
                    \/ \E c \in Client, req \in Request : SignComplete(h, c, req)
                    \/ TakeCommit(h)
                    \/ FinishSign(h)
                    \/ \E c \in Client : Ecdh(h, c)
                    \/ FinishEcdh(h)
                    \/ Refuse(h)
             PROVE  Rest' /\ Tasks'
  BY DEF SigningNext
<1> USE DEF store, history, authHistory
<1>0. task[h] \in Task /\ Idle \in Task
  BY DEF Tasks, Task
<1>1. ASSUME NEW c \in Client, NEW members \in MemberSets, SignCommit(h, c, members)
      PROVE  Rest' /\ Tasks'
  <2>1. [pc |-> "commit", client |-> c, session |-> sessions[c], members |-> members] \in Task
    BY <1>1 DEF SignCommit, Active, Rest, Table, Task, SigningTask
  <2> QED
    BY <1>1, <2>1, GotoKeepsTasks DEF SignCommit, Rest
<1>2. CASE PushCommit(h)
  <2>1. Tasks'
    BY <1>0, <1>2, GotoKeepsTasks DEF PushCommit
  <2>2. commits' \subseteq Pending /\ drawn' \subseteq CommitEntry
    <3> DEFINE entry(id) == [client |-> task[h].client, id |-> id,
                             idx |-> task[h].session.idx, members |-> task[h].members]
    <3>1. PICK id \in Nonce : /\ commits' = commits \cup {[entry |-> entry(id), stale |-> FALSE]}
                              /\ drawn' = drawn \cup {entry(id)}
      BY <1>2 DEF PushCommit
    <3>2. /\ task[h].client \in Client /\ task[h].session.idx \in Idx
          /\ task[h].members \in MemberSets
      BY <1>0, <1>2, SigningShape DEF PushCommit, SignerSession
    <3>3. entry(id) \in CommitEntry
      BY <3>2 DEF CommitEntry
    <3> HIDE DEF entry
    <3>4. [entry |-> entry(id), stale |-> FALSE] \in Pending
      BY <3>3 DEF Pending
    <3> QED
      BY <3>1, <3>3, <3>4 DEF Rest
  <2> QED
    BY <1>2, <2>1, <2>2 DEF PushCommit, Rest
<1>3. ASSUME NEW c \in Client, NEW req \in Request, SignComplete(h, c, req)
      PROVE  Rest' /\ Tasks'
  <2>1. [pc |-> "take", client |-> c, session |-> sessions[c], req |-> req] \in Task
    BY <1>3 DEF SignComplete, Active, Rest, Table, Task, SigningTask
  <2> QED
    BY <1>3, <2>1, GotoKeepsTasks DEF SignComplete, Rest
<1>4. CASE TakeCommit(h)
  <2>1. PICK p \in commits :
          /\ commits' = commits \ {p}
          /\ Goto(h, [pc |-> "sign", client |-> task[h].client, session |-> task[h].session,
                      req |-> task[h].req, entry |-> p.entry])
    BY <1>4 DEF TakeCommit
  <2>2. [pc |-> "sign", client |-> task[h].client, session |-> task[h].session,
         req |-> task[h].req, entry |-> p.entry] \in Task
    BY <1>0, <1>4, SigningShape DEF TakeCommit, Rest, Pending, Task, SigningTask
  <2> QED
    BY <1>4, <2>1, <2>2, GotoKeepsTasks DEF TakeCommit, Rest
<1>5. CASE FinishSign(h)
  <2>1. Tasks'
    BY <1>0, <1>5, GotoKeepsTasks DEF FinishSign
  <2>2. signed' \subseteq Psig
    <3>1. SignedBefore(task[h].entry.id) \in BOOLEAN
      BY DEF SignedBefore
    <3> QED
      BY <1>0, <1>5, <3>1, SigningShape DEF FinishSign, Rest, Psig, Request, SignerSession
  <2>3. Table(Client, SignerSession, sessions')
    <3>1. Touched(task[h].session) \in SignerSession /\ task[h].client \in Client
      BY <1>0, <1>5, SigningShape DEF FinishSign, Touched, SignerSession
    <3> QED
      BY <1>5, <3>1, PutIsTable DEF FinishSign, Rest
  <2> QED
    BY <1>5, <2>1, <2>2, <2>3 DEF FinishSign, Rest
<1>6. ASSUME NEW c \in Client, Ecdh(h, c)
      PROVE  Rest' /\ Tasks'
  <2>1. [pc |-> "ecdh", client |-> c, session |-> sessions[c]] \in Task
    BY <1>6 DEF Ecdh, Active, Rest, Table, Task, SigningTask
  <2> QED
    BY <1>6, <2>1, GotoKeepsTasks DEF Ecdh, Rest
<1>7. CASE FinishEcdh(h)
  <2>1. Tasks'
    BY <1>0, <1>7, GotoKeepsTasks DEF FinishEcdh
  <2>2. Table(Client, SignerSession, sessions')
    <3>1. Touched(task[h].session) \in SignerSession /\ task[h].client \in Client
      BY <1>0, <1>7, SigningShape DEF FinishEcdh, Touched, SignerSession
    <3> QED
      BY <1>7, <3>1, PutIsTable DEF FinishEcdh, Rest
  <2> QED
    BY <1>7, <2>1, <2>2 DEF FinishEcdh, Rest
<1>8. CASE Refuse(h)
  BY <1>0, <1>8, GotoKeepsTasks DEF Refuse, Rest
<1> QED
  BY <1>1, <1>2, <1>3, <1>4, <1>5, <1>6, <1>7, <1>8

-----------------------------------------------------------------------------

(* The session handlers keep it.                                           *)
LEMMA SessionsAreTyped == Rest /\ Tasks /\ SessionsNext => Rest' /\ Tasks'
<1> SUFFICES ASSUME Rest, Tasks, NEW h \in Handler,
                    \/ \E c \in Client, g \in Group, i \in Idx, r \in Recovery :
                         Register(h, c, g, i, r)
                    \/ \E c \in Client, e \in Email, pw \in Password : RecoverySetup(h, c, e, pw)
                    \/ AddSession(h) \/ IndexGet(h) \/ IndexSet(h)
                    \/ \E pk \in Group, c \in Client : SessionDeactivate(h, pk, c)
                    \/ DeactivateGet(h) \/ DeactivateSet(h)
                    \/ \E pk \in Group, c \in Client : SessionDelete(h, pk, c)
                    \/ DeleteGet(h) \/ UnindexGet(h) \/ UnindexSet(h) \/ RemoveSession(h)
             PROVE  Rest' /\ Tasks'
  BY DEF SessionsNext
<1> USE DEF store, history, authHistory
<1>0. task[h] \in Task /\ Idle \in Task
  BY DEF Tasks, Task
<1>1. ASSUME NEW c \in Client, NEW g \in Group, NEW i \in Idx, NEW r \in Recovery,
             Register(h, c, g, i, r)
      PROVE  Rest' /\ Tasks'
  <2>1. [pc |-> "add", client |-> c,
         session |-> [group |-> g, idx |-> i, recovery |-> r, old |-> FALSE, idle |-> FALSE,
                      deactivated |-> FALSE, email |-> None, password |-> None]] \in Task
    BY RecoveryAssumption DEF Task, SessionTask, SignerSession
  <2> QED
    BY <1>1, <2>1, GotoKeepsTasks DEF Register, Rest
<1>2. ASSUME NEW c \in Client, NEW e \in Email, NEW pw \in Password, RecoverySetup(h, c, e, pw)
      PROVE  Rest' /\ Tasks'
  <2>1. sessions[c] \in SignerSession
    BY <1>2 DEF RecoverySetup, Rest, Table
  <2>2. [Touched(sessions[c]) EXCEPT !.email = e, !.password = pw] \in SignerSession
    BY <2>1 DEF Touched, SignerSession
  <2>3. [pc |-> "add", client |-> c,
         session |-> [Touched(sessions[c]) EXCEPT !.email = e, !.password = pw]] \in Task
    BY <2>2 DEF Task, SessionTask
  <2> QED
    BY <1>2, <2>3, GotoKeepsTasks DEF RecoverySetup, Rest
<1>3. CASE AddSession(h)
  <2>1. task[h].client \in Client /\ task[h].session \in SignerSession
    BY <1>0, <1>3, SessionShape DEF AddSession
  <2>2. Table(Client, SignerSession, sessions')
    BY <1>3, <2>1, PutIsTable DEF AddSession, Rest
  <2>3. CASE task[h].session.email = None
    BY <1>0, <1>3, <2>2, <2>3, GotoKeepsTasks DEF AddSession, Rest
  <2>4. CASE task[h].session.email # None
    <3>1. [pc |-> "index_get", client |-> task[h].client, email |-> task[h].session.email]
             \in Task
      BY <2>1, <2>4 DEF Task, SessionTask, SignerSession
    <3> QED
      BY <1>3, <2>2, <2>4, <3>1, GotoKeepsTasks DEF AddSession, Rest
  <2> QED
    BY <2>3, <2>4
<1>4. CASE IndexGet(h)
  <2>1. task[h].client \in Client /\ task[h].email \in Email
    BY <1>0, <1>4, SessionShape DEF IndexGet
  <2>2. Listed(task[h].email) \in SUBSET Client
    BY DEF Listed, Rest, Table
  <2>3. [pc |-> "index_set", client |-> task[h].client, email |-> task[h].email,
         clients |-> Listed(task[h].email) \cup {task[h].client}] \in Task
    BY <2>1, <2>2 DEF Task, SessionTask
  <2> QED
    BY <1>4, <2>3, GotoKeepsTasks DEF IndexGet, Rest
<1>5. CASE IndexSet(h)
  <2>1. Table(Email, SUBSET Client, index')
    BY <1>0, <1>5, SessionShape, PutIsTable DEF IndexSet, Rest
  <2> QED
    BY <1>0, <1>5, <2>1, GotoKeepsTasks DEF IndexSet, Rest
<1>6. ASSUME NEW pk \in Group, NEW c \in Client,
             SessionDeactivate(h, pk, c) \/ SessionDelete(h, pk, c)
      PROVE  Rest' /\ Tasks'
  <2>1. [pc |-> "deactivate", client |-> c] \in Task /\ [pc |-> "delete", client |-> c] \in Task
    BY DEF Task, SessionTask
  <2> QED
    BY <1>6, <2>1, GotoKeepsTasks DEF SessionDeactivate, SessionDelete, Rest
<1>7. CASE DeactivateGet(h)
  <2> DEFINE c == task[h].client
             t == [pc |-> "deactivate_set", client |-> c,
                   session |-> [sessions[c] EXCEPT !.deactivated = TRUE]]
  <2>1. c \in Client
    BY <1>0, <1>7, SessionShape DEF DeactivateGet
  <2>2. CASE c \in DOMAIN sessions
    <3>1. [sessions[c] EXCEPT !.deactivated = TRUE] \in SignerSession
      BY <2>1, <2>2 DEF Rest, Table, SignerSession
    <3>2. t \in Task
      BY <2>1, <3>1 DEF Task, SessionTask
    <3>3. Goto(h, t)
      BY <1>7, <2>2 DEF DeactivateGet
    <3> QED
      BY <1>7, <3>2, <3>3, GotoKeepsTasks DEF DeactivateGet, Rest
  <2>3. CASE c \notin DOMAIN sessions
    BY <1>0, <1>7, <2>3, GotoKeepsTasks DEF DeactivateGet, Rest
  <2> QED
    BY <2>2, <2>3
<1>8. CASE DeactivateSet(h)
  <2>1. Table(Client, SignerSession, sessions')
    BY <1>0, <1>8, SessionShape, PutIsTable DEF DeactivateSet, Rest
  <2> QED
    BY <1>0, <1>8, <2>1, GotoKeepsTasks DEF DeactivateSet, Rest
<1>9. CASE DeleteGet(h)
  <2> DEFINE c == task[h].client
  <2>1. c \in Client
    BY <1>0, <1>9, SessionShape DEF DeleteGet
  <2>2. CASE c \notin DOMAIN sessions
    BY <1>0, <1>9, <2>2, GotoKeepsTasks DEF DeleteGet, Rest
  <2>3. CASE c \in DOMAIN sessions /\ sessions[c].email = None
    <3>1. [pc |-> "remove", client |-> c] \in Task
      BY <2>1 DEF Task, SessionTask
    <3> QED
      BY <1>9, <2>3, <3>1, GotoKeepsTasks DEF DeleteGet, Rest
  <2>4. CASE c \in DOMAIN sessions /\ sessions[c].email # None
    <3>1. sessions[c].email \in Email
      BY <2>4 DEF Rest, Table, SignerSession
    <3>2. [pc |-> "unindex_get", client |-> c, email |-> sessions[c].email] \in Task
      BY <2>1, <3>1 DEF Task, SessionTask
    <3> QED
      BY <1>9, <2>4, <3>2, GotoKeepsTasks DEF DeleteGet, Rest
  <2> QED
    BY <2>2, <2>3, <2>4
<1>10. CASE UnindexGet(h)
  <2> DEFINE c == task[h].client
             e == task[h].email
  <2>1. c \in Client /\ e \in Email
    BY <1>0, <1>10, SessionShape DEF UnindexGet
  <2>2. /\ [pc |-> "remove", client |-> c] \in Task
        /\ e \in DOMAIN index =>
             [pc |-> "unindex_set", client |-> c, email |-> e, clients |-> index[e] \ {c}] \in Task
    BY <2>1 DEF Task, SessionTask, Rest, Table
  <2> QED
    BY <1>10, <2>2, GotoKeepsTasks DEF UnindexGet, Rest
<1>11. CASE UnindexSet(h)
  <2>1. task[h].client \in Client /\ task[h].email \in Email /\ task[h].clients \in SUBSET Client
    BY <1>0, <1>11, SessionShape DEF UnindexSet
  <2>2. Table(Email, SUBSET Client, index')
    BY <1>11, <2>1, PutIsTable, DropIsTable DEF UnindexSet, Rest
  <2>3. [pc |-> "remove", client |-> task[h].client] \in Task
    BY <2>1 DEF Task, SessionTask
  <2> QED
    BY <1>11, <2>2, <2>3, GotoKeepsTasks DEF UnindexSet, Rest
<1>12. CASE RemoveSession(h)
  <2>1. Table(Client, SignerSession, sessions')
    BY <1>12, DropIsTable DEF RemoveSession, Rest
  <2> QED
    BY <1>0, <1>12, <2>1, GotoKeepsTasks DEF RemoveSession, Rest
<1> QED
  BY <1>1, <1>2, <1>3, <1>4, <1>5, <1>6, <1>7, <1>8, <1>9, <1>10, <1>11, <1>12

-----------------------------------------------------------------------------

(* Access by email keeps it.                                               *)
LEMMA AuthIsTyped == Rest /\ Tasks /\ AuthNext => Rest' /\ Tasks'
<1> SUFFICES ASSUME Rest, Tasks, NEW h \in Handler,
                    \/ \E e \in Email : Challenge(h, e)
                    \/ SendChallenge(h) \/ SkipChallenge(h)
                    \/ \E c \in Client, goal \in Goal, e \in Email, pw \in Password \cup {None},
                          otp \in Otp \cup {None} : Start(h, c, goal, e, pw, otp)
                    \/ AuthIndex(h) \/ OtpGet(h) \/ OtpDelete(h) \/ Collect(h) \/ StoreGrant(h)
                    \/ \E c, target \in Client, goal \in Goal : Select(h, c, goal, target)
                    \/ DeleteGrant(h) \/ Load(h)
             PROVE  Rest' /\ Tasks'
  BY DEF AuthNext
<1> USE DEF store, history, authHistory
<1>0. task[h] \in Task /\ Idle \in Task
  BY DEF Tasks, Task
<1>1. ASSUME NEW e \in Email, Challenge(h, e)
      PROVE  Rest' /\ Tasks'
  <2>1. PICK c \in index[e] : Goto(h, [pc |-> "challenge", client |-> c, email |-> e])
    BY <1>1 DEF Challenge
  <2>2. c \in Client
    BY <1>1, <2>1 DEF Challenge, Rest, Table
  <2>3. [pc |-> "challenge", client |-> c, email |-> e] \in Task
    BY <2>2 DEF Task, AuthTask
  <2> QED
    BY <1>1, <2>1, <2>3, GotoKeepsTasks DEF Challenge, Rest
<1>2. CASE SendChallenge(h)
  <2> DEFINE c == task[h].client
             e == task[h].email
  <2>1. /\ c \in Client /\ e \in Email
        /\ sessions[c].email \in Email
    BY <1>0, <1>2, AuthShape DEF SendChallenge, Rest, Table, SignerSession
  <2>2. PICK otp \in Otp : /\ challenges' = Put(challenges, e, [otp |-> otp, old |-> FALSE])
                           /\ mailed' = mailed \cup
                                {[otp |-> otp, for |-> e, to |-> sessions[c].email]}
    BY <1>2 DEF SendChallenge, Unsent
  <2>3. Table(Email, SignerChallenge, challenges')
    BY <2>1, <2>2, PutIsTable DEF Rest, SignerChallenge
  <2>4. mailed' \subseteq Mail
    BY <2>1, <2>2 DEF Rest, Mail
  <2>5. Tasks'
    BY <1>0, <1>2, GotoKeepsTasks DEF SendChallenge
  <2> QED
    BY <1>2, <2>3, <2>4, <2>5 DEF SendChallenge, Rest
<1>3. CASE SkipChallenge(h)
  BY <1>0, <1>3, GotoKeepsTasks DEF SkipChallenge, Rest
<1>4. ASSUME NEW c \in Client, NEW goal \in Goal, NEW e \in Email,
             NEW pw \in Password \cup {None}, NEW otp \in Otp \cup {None},
             Start(h, c, goal, e, pw, otp)
      PROVE  Rest' /\ Tasks'
  <2>1. [pc |-> "auth", client |-> c, goal |-> goal, email |-> e, password |-> pw,
         otp |-> otp] \in Task
    BY DEF Task, AuthTask
  <2> QED
    BY <1>4, <2>1, GotoKeepsTasks DEF Start, Rest
<1>5. CASE AuthIndex(h)
  <2> DEFINE t == task[h]
             collect == [pc |-> "collect", client |-> t.client, goal |-> t.goal,
                         email |-> t.email, password |-> t.password,
                         clients |-> index[t.email]]
             otp == [pc |-> "otp", client |-> t.client, goal |-> t.goal, email |-> t.email,
                     otp |-> t.otp, clients |-> index[t.email]]
  <2>1. /\ t.client \in Client /\ t.goal \in Goal /\ t.email \in Email
        /\ t.password \in Password \cup {None} /\ t.otp \in Otp \cup {None}
    BY <1>0, <1>5, AuthShape DEF AuthIndex
  <2>2. CASE t.email \notin DOMAIN index
    BY <1>0, <1>5, <2>2, GotoKeepsTasks DEF AuthIndex, Rest
  <2>3. CASE t.email \in DOMAIN index /\ t.otp = None
    <3>1. collect \in Task
      BY <2>1, <2>3 DEF Rest, Table, Task, AuthTask
    <3>2. Goto(h, collect)
      BY <1>5, <2>3 DEF AuthIndex
    <3> QED
      BY <1>5, <3>1, <3>2, GotoKeepsTasks DEF AuthIndex, Rest
  <2>4. CASE t.email \in DOMAIN index /\ t.otp # None
    <3>1. otp \in Task
      BY <2>1, <2>4 DEF Rest, Table, Task, AuthTask
    <3>2. Goto(h, otp)
      BY <1>5, <2>4 DEF AuthIndex
    <3> QED
      BY <1>5, <3>1, <3>2, GotoKeepsTasks DEF AuthIndex, Rest
  <2> QED
    BY <2>2, <2>3, <2>4
<1>6. CASE OtpGet(h)
  <2> DEFINE t == task[h]
             next == [pc |-> "otp_delete", client |-> t.client, goal |-> t.goal,
                      email |-> t.email, otp |-> t.otp, clients |-> t.clients,
                      match |-> challenges[t.email].otp = t.otp,
                      late |-> challenges[t.email].old]
  <2>1. /\ t.client \in Client /\ t.goal \in Goal /\ t.email \in Email
        /\ t.otp \in Otp /\ t.clients \in SUBSET Client
    BY <1>0, <1>6, AuthShape DEF OtpGet
  <2>2. CASE t.email \notin DOMAIN challenges
    BY <1>0, <1>6, <2>2, GotoKeepsTasks DEF OtpGet, Rest
  <2>3. CASE t.email \in DOMAIN challenges
    <3>1. challenges[t.email].old \in BOOLEAN
      BY <2>1, <2>3 DEF Rest, Table, SignerChallenge
    <3>2. next \in Task
      BY <2>1, <3>1 DEF Task, AuthTask
    <3>3. Goto(h, next)
      BY <1>6, <2>3 DEF OtpGet
    <3> QED
      BY <1>6, <3>2, <3>3, GotoKeepsTasks DEF OtpGet, Rest
  <2> QED
    BY <2>2, <2>3
<1>7. CASE OtpDelete(h)
  <2> DEFINE t == task[h]
             next == [pc |-> "collect", client |-> t.client, goal |-> t.goal,
                      email |-> t.email, password |-> None, clients |-> t.clients]
  <2>1. /\ t.client \in Client /\ t.goal \in Goal /\ t.email \in Email
        /\ t.otp \in Otp /\ t.clients \in SUBSET Client /\ t.late \in BOOLEAN
    BY <1>0, <1>7, AuthShape DEF OtpDelete
  <2>2. Table(Email, SignerChallenge, challenges')
    BY <1>7, DropIsTable DEF OtpDelete, Rest
  <2>3. redeemed' \subseteq Redemption
    <3>1. AcceptedBefore(t.otp) \in BOOLEAN
      BY DEF AcceptedBefore
    <3> QED
      BY <1>7, <2>1, <3>1 DEF OtpDelete, Rest, Redemption
  <2>4. next \in Task
    BY <2>1 DEF Task, AuthTask
  <2>5. Tasks'
    BY <1>0, <1>7, <2>4, GotoKeepsTasks DEF OtpDelete
  <2> QED
    BY <1>7, <2>2, <2>3, <2>5 DEF OtpDelete, Rest
<1>8. CASE Collect(h)
  <2> DEFINE t == task[h]
             found == Authenticated(t)
             next == [pc |-> "grant", client |-> t.client, goal |-> t.goal, clients |-> found]
  <2>1. /\ t.client \in Client /\ t.goal \in Goal /\ t.email \in Email
        /\ t.clients \in SUBSET Client
    BY <1>0, <1>8, AuthShape DEF Collect
  <2>2. found \in SUBSET Client /\ \A c \in found : sessions[c] \in SignerSession
    BY <2>1 DEF Authenticated, Rest, Table
  <2>3. opened' \subseteq Opening
    BY <1>8, <2>1, <2>2 DEF Collect, Rest, Opening, SignerSession
  <2>4. next \in Task
    BY <2>1, <2>2 DEF Task, AuthTask
  <2>5. Tasks'
    BY <1>0, <1>8, <2>4, GotoKeepsTasks DEF Collect
  <2> QED
    BY <1>8, <2>3, <2>5 DEF Collect, Rest
<1>9. CASE StoreGrant(h)
  <2>1. task[h].client \in Client /\ [clients |-> task[h].clients, old |-> FALSE] \in Grant
    BY <1>0, <1>9, AuthShape DEF StoreGrant, Grant
  <2>2. Table(Client, Grant, logins') /\ Table(Client, Grant, recoveries')
    BY <1>9, <2>1, PutIsTable DEF StoreGrant, Rest
  <2> QED
    BY <1>0, <1>9, <2>2, GotoKeepsTasks DEF StoreGrant, Rest
<1>10. ASSUME NEW c \in Client, NEW target \in Client, NEW goal \in Goal,
              Select(h, c, goal, target)
       PROVE  Rest' /\ Tasks'
  <2>1. Granted(goal)[c] \in Grant
    BY <1>10 DEF Select, Granted, Rest, Table
  <2>2. [pc |-> "select", client |-> c, goal |-> goal, target |-> target,
         grant |-> Granted(goal)[c]] \in Task
    BY <2>1 DEF Task, AuthTask
  <2> QED
    BY <1>10, <2>2, GotoKeepsTasks DEF Select, Rest
<1>11. CASE DeleteGrant(h)
  <2>1. [pc |-> "load", client |-> task[h].client, goal |-> task[h].goal,
         target |-> task[h].target] \in Task
    BY <1>0, <1>11, AuthShape DEF DeleteGrant, Task, AuthTask
  <2>2. Table(Client, Grant, logins') /\ Table(Client, Grant, recoveries')
    BY <1>11, DropIsTable DEF DeleteGrant, Rest
  <2> QED
    BY <1>0, <1>11, <2>1, <2>2, GotoKeepsTasks DEF DeleteGrant, Rest
<1>12. CASE Load(h)
  <2> DEFINE t == task[h]
             copy == [sessions[t.target] EXCEPT !.recovery = TRUE, !.old = FALSE,
                        !.idle = FALSE, !.deactivated = FALSE]
  <2>1. t.client \in Client /\ t.target \in Client
    BY <1>0, <1>12, AuthShape DEF Load
  <2>2. t.target \in DOMAIN sessions => copy \in SignerSession
    <3>1. ASSUME NEW s \in SignerSession
          PROVE  [s EXCEPT !.recovery = TRUE, !.old = FALSE, !.idle = FALSE,
                    !.deactivated = FALSE] \in SignerSession
      BY DEF SignerSession
    <3>2. t.target \in DOMAIN sessions => sessions[t.target] \in SignerSession
      BY <2>1 DEF Rest, Table
    <3> QED
      BY <3>1, <3>2
  <2>3. t.target \in DOMAIN sessions =>
          [pc |-> "add", client |-> t.client, session |-> copy] \in Task
    BY <2>1, <2>2 DEF Task, SessionTask
  <2>4. Tasks'
    BY <1>0, <1>12, <2>3, GotoKeepsTasks DEF Load
  <2> QED
    BY <1>12, <2>4 DEF Load, Rest
<1> QED
  BY <1>1, <1>2, <1>3, <1>4, <1>5, <1>6, <1>7, <1>8, <1>9, <1>10, <1>11, <1>12

-----------------------------------------------------------------------------

(* The cleanup keeps it.                                                   *)
LEMMA CleanupIsTyped == Rest /\ Tasks /\ Cleanup => Rest' /\ Tasks'
<1> SUFFICES ASSUME Rest, Tasks, Cleanup PROVE Rest' /\ Tasks'
  OBVIOUS
<1> USE DEF store, history, authHistory
<1>1. ASSUME NEW table \in Tables, CleanScan(table)
      PROVE  Rest' /\ Tasks'
  <2>1. Expired(table) \in SUBSET (Client \cup Email)
    BY DEF Tables, Expired, Rest, Table
  <2> QED
    BY <1>1, <2>1 DEF CleanScan, Rest, Tasks
<1>2. ASSUME NEW k \in cleaner.keys, CleanDelete(k)
      PROVE  Rest' /\ Tasks'
  <2>1. cleaner' \in [table : Tables \cup {None}, keys : SUBSET (Client \cup Email)]
    BY <1>2 DEF CleanDelete, Rest, Resting
  <2>2. /\ Table(Client, SignerSession, sessions')
        /\ Table(Client, Grant, logins') /\ Table(Client, Grant, recoveries')
        /\ Table(Email, SignerChallenge, challenges')
    BY <1>2, DropIsTable DEF CleanDelete, Rest
  <2> QED
    BY <1>2, <2>1, <2>2 DEF CleanDelete, Rest, Tasks
<1>3. CASE CleanCommits
  BY <1>3 DEF CleanCommits, Rest, Tasks
<1> QED
  BY <1>1, <1>2, <1>3 DEF Cleanup

(* Time and restarts keep it.                                              *)
LEMMA EnvironmentIsTyped == Rest /\ Tasks /\ Environment => Rest' /\ Tasks'
<1> SUFFICES ASSUME Rest, Tasks, Environment PROVE Rest' /\ Tasks'
  OBVIOUS
<1> USE DEF store, history, authHistory
<1>1. ASSUME NEW c \in Client, AgeSession(c)
      PROVE  Rest' /\ Tasks'
  <2>1. sessions[c] \in SignerSession
    BY <1>1 DEF AgeSession, Rest, Table
  <2>2. /\ [sessions[c] EXCEPT !.old = TRUE] \in SignerSession
        /\ [sessions[c] EXCEPT !.old = TRUE, !.idle = TRUE] \in SignerSession
    BY <2>1 DEF SignerSession
  <2>3. Table(Client, SignerSession, sessions')
    BY <1>1, <2>2, PutIsTable DEF AgeSession, Rest
  <2> QED
    BY <1>1, <2>3 DEF AgeSession, Rest, Tasks
<1>2. CASE AgeGrant
  <2>1. ASSUME NEW t, Table(Client, Grant, t), NEW c \in DOMAIN t
        PROVE  Table(Client, Grant, Aged(t, c))
    <3>1. c \in Client /\ [t[c] EXCEPT !.old = TRUE] \in Grant
      BY <2>1 DEF Table, Grant
    <3> QED
      BY <2>1, <3>1, PutIsTable DEF Aged
  <2>2. ASSUME NEW e \in DOMAIN challenges
        PROVE  Table(Email, SignerChallenge, Aged(challenges, e))
    <3>1. e \in Email /\ [challenges[e] EXCEPT !.old = TRUE] \in SignerChallenge
      BY <2>2 DEF Rest, Table, SignerChallenge
    <3> QED
      BY <3>1, PutIsTable DEF Aged, Rest
  <2>3. /\ Table(Client, Grant, logins') /\ Table(Client, Grant, recoveries')
        /\ Table(Email, SignerChallenge, challenges')
    BY <1>2, <2>1, <2>2 DEF AgeGrant, Rest
  <2> QED
    BY <1>2, <2>3 DEF AgeGrant, Rest, Tasks
<1>3. ASSUME NEW p \in commits, AgeCommit(p)
      PROVE  Rest' /\ Tasks'
  <2>1. [entry |-> p.entry, stale |-> TRUE] \in Pending
    BY DEF Rest, Pending
  <2> QED
    BY <1>3, <2>1 DEF AgeCommit, Rest, Tasks
<1>4. CASE Restart
  BY <1>4, RestartsAssumption DEF Restart, Rest, Tasks, Task, Resting
<1> QED
  BY <1>1, <1>2, <1>3, <1>4 DEF Environment

(* The type invariant holds at first (Init).                               *)
LEMMA InitIsTyped == Init => TypeOK
<1> SUFFICES ASSUME Init PROVE Rest /\ Tasks
  BY TypeParts
<1>1. Tasks
  BY DEF Init, Tasks, Task
<1>2. Rest
  BY EmptyIsTable, RestartsAssumption DEF Init, Rest, Resting
<1> QED
  BY <1>1, <1>2

(* No step breaks it (Next).                                               *)
LEMMA StepIsTyped == TypeOK /\ [Next]_vars => TypeOK'
<1> SUFFICES ASSUME Rest, Tasks, [Next]_vars PROVE Rest' /\ Tasks'
  BY TypeParts DEF TypeOK, Rest, Tasks
<1>1. CASE UNCHANGED vars
  BY <1>1 DEF vars, store, history, authHistory, Rest, Tasks
<1> QED
  BY <1>1, SigningIsTyped, SessionsAreTyped, AuthIsTyped, CleanupIsTyped, EnvironmentIsTyped
     DEF Next

(* Every table and every request in progress is well typed at all times.   *)
THEOREM TypeCorrect == Spec => []TypeOK
  BY InitIsTyped, StepIsTyped, PTL DEF Spec

-----------------------------------------------------------------------------
(* Nonces.                                                                 *)

(* The domain of task, which every step that names a worker thread needs.  *)
Threads == DOMAIN task = Handler

(* A commitment is in one place: pending, or held by the one thread that   *)
(* took it, or signed.                                                     *)
PendingOnce ==
  /\ \A p \in commits : p.entry \in drawn
  /\ \A p, q \in commits : p.entry.id = q.entry.id => p = q
  /\ \A p \in commits, s \in signed : p.entry.id # s.entry.id
  /\ \A p \in commits, h \in Handler : task[h].pc = "sign" => task[h].entry.id # p.entry.id

HeldOnce ==
  /\ \A h \in Handler : task[h].pc = "sign" =>
       /\ task[h].entry \in drawn
       /\ task[h].client = task[h].entry.client
  /\ \A h, g \in Handler :
       task[h].pc = "sign" /\ task[g].pc = "sign" /\ task[h].entry.id = task[g].entry.id => h = g
  /\ \A h \in Handler, s \in signed : task[h].pc = "sign" => task[h].entry.id # s.entry.id

NonceInv == Threads /\ PendingOnce /\ HeldOnce /\ NonceSignsOnce /\ SignedAsCommitted

(* A step that neither touches a commitment nor starts to sign.            *)
Quiet ==
  /\ UNCHANGED <<commits, drawn, signed>>
  /\ DOMAIN task' = DOMAIN task
  /\ \A h \in Handler : task'[h] = task[h] \/ task'[h].pc # "sign"

(* Steps that touch no commitment keep the invariant.                      *)
LEMMA QuietKeepsNonces == NonceInv /\ Quiet => NonceInv'
  BY DEF NonceInv, Threads, PendingOnce, HeldOnce, NonceSignsOnce, SignedAsCommitted, Quiet

-----------------------------------------------------------------------------
(* Most handlers are quiet.                                                *)

LEMMA SessionsAreQuiet == Threads /\ SessionsNext => Quiet
<1> SUFFICES ASSUME Threads, SessionsNext PROVE Quiet
  OBVIOUS
<1> USE DEF history, authHistory, store
<1>1. ASSUME NEW h \in Handler, NEW c \in Client, NEW g \in Group, NEW i \in Idx,
             NEW r \in Recovery, Register(h, c, g, i, r)
      PROVE  Quiet
  BY <1>1 DEF Register, Threads, Goto, Quiet
<1>2. ASSUME NEW h \in Handler, NEW c \in Client, NEW e \in Email, NEW pw \in Password,
             RecoverySetup(h, c, e, pw)
      PROVE  Quiet
  BY <1>2 DEF RecoverySetup, Threads, Goto, Quiet
<1>3. ASSUME NEW h \in Handler, AddSession(h) \/ IndexGet(h) \/ IndexSet(h)
      PROVE  Quiet
  BY <1>3 DEF AddSession, IndexGet, IndexSet, Threads, Goto, Quiet, Idle
<1>4. ASSUME NEW h \in Handler, NEW c \in Client, NEW pk \in Group,
             SessionDeactivate(h, pk, c) \/ SessionDelete(h, pk, c)
      PROVE  Quiet
  BY <1>4 DEF SessionDeactivate, SessionDelete, Threads, Goto, Quiet
<1>5. ASSUME NEW h \in Handler, DeactivateGet(h) \/ DeactivateSet(h)
      PROVE  Quiet
  BY <1>5 DEF DeactivateGet, DeactivateSet, Threads, Goto, Quiet, Idle
<1>6. ASSUME NEW h \in Handler,
             DeleteGet(h) \/ UnindexGet(h) \/ UnindexSet(h) \/ RemoveSession(h)
      PROVE  Quiet
  BY <1>6 DEF DeleteGet, UnindexGet, UnindexSet, RemoveSession, Threads, Goto, Quiet, Idle
<1> QED
  BY <1>1, <1>2, <1>3, <1>4, <1>5, <1>6 DEF SessionsNext

(* Access by email touches none.                                           *)
LEMMA AuthIsQuiet == Threads /\ AuthNext => Quiet
<1> SUFFICES ASSUME Threads, AuthNext PROVE Quiet
  OBVIOUS
<1> USE DEF history, authHistory, store, Threads, Goto, Quiet
<1>1. ASSUME NEW h \in Handler, NEW e \in Email, Challenge(h, e)
      PROVE  Quiet
  BY <1>1 DEF Challenge
<1>2. ASSUME NEW h \in Handler, SendChallenge(h) \/ SkipChallenge(h)
      PROVE  Quiet
  BY <1>2 DEF SendChallenge, SkipChallenge, Idle
<1>3. ASSUME NEW h \in Handler, NEW c \in Client, NEW goal \in Goal, NEW e \in Email,
             NEW pw \in Password \cup {None}, NEW otp \in Otp \cup {None},
             Start(h, c, goal, e, pw, otp)
      PROVE  Quiet
  BY <1>3 DEF Start
<1>4. ASSUME NEW h \in Handler, AuthIndex(h) \/ OtpGet(h) \/ OtpDelete(h)
      PROVE  Quiet
  BY <1>4 DEF AuthIndex, OtpGet, OtpDelete, Idle
<1>5. ASSUME NEW h \in Handler, Collect(h) \/ StoreGrant(h)
      PROVE  Quiet
  BY <1>5 DEF Collect, StoreGrant, Idle
<1>6. ASSUME NEW h \in Handler, NEW c \in Client, NEW target \in Client, NEW goal \in Goal,
             Select(h, c, goal, target)
      PROVE  Quiet
  BY <1>6 DEF Select
<1>7. ASSUME NEW h \in Handler, DeleteGrant(h) \/ Load(h)
      PROVE  Quiet
  BY <1>7 DEF DeleteGrant, Load, Idle
<1> QED
  BY <1>1, <1>2, <1>3, <1>4, <1>5, <1>6, <1>7 DEF AuthNext

(* Round one before its push, ECDH and refusals leave the commitments      *)
(* alone too.                                                              *)
LEMMA OtherSigningIsQuiet ==
  ASSUME Threads, NEW h \in Handler,
         \/ \E c \in Client, members \in MemberSets : SignCommit(h, c, members)
         \/ \E c \in Client, req \in Request : SignComplete(h, c, req)
         \/ \E c \in Client : Ecdh(h, c)
         \/ FinishEcdh(h)
         \/ Refuse(h)
  PROVE  Quiet
  BY DEF history, authHistory, store, Threads, Goto, Quiet, SignCommit, SignComplete, Ecdh,
         FinishEcdh, Refuse, Idle

(* Nor does the cleanup of other tables, or time passing for them.         *)
LEMMA TablesAreQuiet ==
  ASSUME \/ \E table \in Tables : CleanScan(table)
         \/ \E k \in cleaner.keys : CleanDelete(k)
         \/ \E c \in Client : AgeSession(c)
         \/ AgeGrant
         \/ UNCHANGED vars
  PROVE  Quiet
  BY DEF history, authHistory, store, vars, Quiet, CleanScan, CleanDelete, AgeSession, AgeGrant

-----------------------------------------------------------------------------
(* The steps that move a commitment.                                       *)

LEMMA InitEstablishesNonces == Init => NonceInv
  BY DEF Init, NonceInv, Threads, PendingOnce, HeldOnce, NonceSignsOnce, SignedAsCommitted, Idle

(* The new id was never drawn, so it is nowhere.                           *)
LEMMA PushKeepsNonces ==
  ASSUME NonceInv, NEW h \in Handler, PushCommit(h)
  PROVE  NonceInv'
<1> USE DEF NonceInv, PushCommit, history, authHistory, store
<1> PICK id \in Nonce \ {e.id : e \in drawn} :
      LET entry == [client |-> task[h].client, id |-> id, idx |-> task[h].session.idx,
                    members |-> task[h].members]
      IN  /\ commits' = commits \cup {[entry |-> entry, stale |-> FALSE]}
          /\ drawn' = drawn \cup {entry}
  OBVIOUS
<1> DEFINE entry == [client |-> task[h].client, id |-> id, idx |-> task[h].session.idx,
                     members |-> task[h].members]
           new == [entry |-> entry, stale |-> FALSE]
<1>1. /\ commits' = commits \cup {new} /\ drawn' = drawn \cup {entry} /\ signed' = signed
      /\ new.entry = entry /\ entry.id = id
  OBVIOUS
<1> HIDE DEF entry, new
<1>2. \A e \in drawn : e.id # id
  OBVIOUS
<1>3. /\ DOMAIN task' = Handler
      /\ \A g \in Handler : task'[g].pc = "sign" => task'[g] = task[g] /\ task[g].pc = "sign"
  BY DEF Threads, Goto, Idle
<1>4. Threads'
  BY <1>3 DEF Threads
<1>5. PendingOnce'
  BY <1>1, <1>2, <1>3 DEF PendingOnce, HeldOnce, SignedAsCommitted
<1>6. HeldOnce'
  BY <1>1, <1>3 DEF HeldOnce
<1>7. NonceSignsOnce' /\ SignedAsCommitted'
  BY <1>1 DEF NonceSignsOnce, SignedAsCommitted
<1> QED
  BY <1>4, <1>5, <1>6, <1>7

(* Taking moves a commitment from the pending ones to the thread, in one   *)
(* step.                                                                   *)
LEMMA TakeKeepsNonces ==
  ASSUME NonceInv, NEW h \in Handler, TakeCommit(h)
  PROVE  NonceInv'
<1> USE DEF NonceInv
<1> PICK p \in commits :
      /\ p.entry.client = task[h].client
      /\ commits' = commits \ {p}
      /\ Goto(h, [pc |-> "sign", client |-> task[h].client, session |-> task[h].session,
                  req |-> task[h].req, entry |-> p.entry])
  BY DEF TakeCommit
<1>1. UNCHANGED <<drawn, signed>>
  BY DEF TakeCommit, history
<1>2. /\ DOMAIN task' = Handler
      /\ task'[h].client = task[h].client /\ task'[h].entry = p.entry
      /\ \A g \in Handler \ {h} : task'[g] = task[g]
  BY DEF Threads, Goto
<1>3. Threads'
  BY <1>2 DEF Threads
<1>4. PendingOnce'
  BY <1>1, <1>2 DEF PendingOnce
<1>5. HeldOnce'
  BY <1>1, <1>2 DEF PendingOnce, HeldOnce
<1>6. NonceSignsOnce' /\ SignedAsCommitted'
  BY <1>1 DEF NonceSignsOnce, SignedAsCommitted
<1> QED
  BY <1>3, <1>4, <1>5, <1>6

(* Signing ends the thread's hold on the commitment.                       *)
LEMMA SignKeepsNonces ==
  ASSUME NonceInv, NEW h \in Handler, FinishSign(h)
  PROVE  NonceInv'
<1> USE DEF NonceInv
<1> DEFINE psig == [entry |-> task[h].entry, client |-> task[h].client, own |-> task[h].req.own,
                    idx |-> task[h].session.idx, members |-> task[h].req.members,
                    hash |-> task[h].req.hash,
                    again |-> SignedBefore(task[h].entry.id)]
<1>1. signed' = signed \cup {psig} /\ UNCHANGED <<commits, drawn>>
  BY DEF FinishSign
<1>2. /\ psig.entry = task[h].entry /\ psig.entry \in drawn
      /\ psig.client = psig.entry.client /\ psig.members = psig.entry.members
      /\ psig.own = psig.entry.id /\ psig.idx = psig.entry.idx
  BY DEF FinishSign, Matches, HeldOnce
<1>3. /\ task[h].pc = "sign" /\ DOMAIN task' = Handler
      /\ task'[h].pc # "sign" /\ \A g \in Handler \ {h} : task'[g] = task[g]
  BY DEF FinishSign, Threads, Goto, Idle
<1>4. \A s \in signed : s.entry.id # psig.entry.id
  BY <1>2, <1>3 DEF HeldOnce
<1> HIDE DEF psig
<1>5. Threads'
  BY <1>3 DEF Threads
<1>6. PendingOnce'
  BY <1>1, <1>2, <1>3 DEF PendingOnce
<1>7. HeldOnce'
  BY <1>1, <1>2, <1>3 DEF HeldOnce
<1>8. NonceSignsOnce' /\ SignedAsCommitted'
  BY <1>1, <1>2, <1>4 DEF NonceSignsOnce, SignedAsCommitted
<1> QED
  BY <1>5, <1>6, <1>7, <1>8

(* A commitment may get old, be cleaned up, or be lost with the process.   *)
LEMMA LossKeepsNonces ==
  ASSUME NonceInv, (\E p \in commits : AgeCommit(p)) \/ CleanCommits \/ Restart
  PROVE  NonceInv'
<1> USE DEF NonceInv, history, Threads, PendingOnce, HeldOnce, NonceSignsOnce,
            SignedAsCommitted
<1>1. ASSUME NEW p \in commits, AgeCommit(p)
      PROVE  NonceInv'
  <2> DEFINE aged == [entry |-> p.entry, stale |-> TRUE]
  <2>1. commits' = (commits \ {p}) \cup {aged} /\ UNCHANGED <<task, drawn, signed>>
    BY <1>1 DEF AgeCommit
  <2>2. aged.entry = p.entry
    OBVIOUS
  <2> HIDE DEF aged
  <2> QED
    BY <2>1, <2>2
<1>2. CASE CleanCommits
  BY <1>2 DEF CleanCommits
<1>3. CASE Restart
  BY <1>3 DEF Restart, Idle
<1> QED
  BY <1>1, <1>2, <1>3

(* No step breaks the nonce invariant (Next).                              *)
LEMMA NonceStep == NonceInv /\ [Next]_vars => NonceInv'
<1> SUFFICES ASSUME NonceInv, [Next]_vars PROVE NonceInv'
  OBVIOUS
<1>1. Threads
  BY DEF NonceInv
<1>2. CASE SigningNext
  BY <1>1, <1>2, OtherSigningIsQuiet, QuietKeepsNonces, PushKeepsNonces, TakeKeepsNonces,
     SignKeepsNonces DEF SigningNext
<1>3. CASE SessionsNext
  BY <1>1, <1>3, SessionsAreQuiet, QuietKeepsNonces
<1>4. CASE AuthNext
  BY <1>1, <1>4, AuthIsQuiet, QuietKeepsNonces
<1>5. CASE Cleanup
  BY <1>5, TablesAreQuiet, QuietKeepsNonces, LossKeepsNonces DEF Cleanup
<1>6. CASE Environment
  BY <1>6, TablesAreQuiet, QuietKeepsNonces, LossKeepsNonces DEF Environment
<1>7. CASE UNCHANGED vars
  BY <1>7, TablesAreQuiet, QuietKeepsNonces
<1> QED
  BY <1>2, <1>3, <1>4, <1>5, <1>6, <1>7 DEF Next

(* The invariant behind both theorems: at every moment each commitment is  *)
(* pending, or held by one thread, or signed, or lost.                     *)
THEOREM NonceInvariant == Spec => []NonceInv
  BY InitEstablishesNonces, NonceStep, PTL DEF Spec

(* A nonce drawn by /sign/commit makes at most one partial signature.      *)
THEOREM EveryNonceSignsOnce == Spec => []NonceSignsOnce
<1>1. NonceInv => NonceSignsOnce
  BY DEF NonceInv
<1> QED
  BY <1>1, NonceInvariant, PTL

(* A partial signature is made for the client, the members, the nonce and  *)
(* the share index of its commitment.                                      *)
THEOREM EverySignatureAsCommitted == Spec => []SignedAsCommitted
<1>1. NonceInv => SignedAsCommitted
  BY DEF NonceInv
<1> QED
  BY <1>1, NonceInvariant, PTL

-----------------------------------------------------------------------------
(* Refinement: every step of the signer is a draw, a signature or a loss   *)
(* of nonces, or leaves every nonce as it was.                             *)

DrawnIds == {e.id : e \in drawn}
Open == PendingIds \cup HeldIds

(* The life of a nonce, in terms of sets of nonces.                        *)
LEMMA StateIs ==
  NonceState = [n \in Nonce |-> IF n \in SignedIds THEN "spent"
                                ELSE IF n \in Open THEN "open"
                                ELSE IF n \in DrawnIds THEN "lost"
                                ELSE "fresh"]
  BY DEF NonceState, Open, DrawnIds

(* By NonceInv an open nonce was drawn and is unspent.                     *)
LEMMA OpenIsDrawn == NonceInv => Open \subseteq DrawnIds /\ Open \cap SignedIds = {}
  BY DEF NonceInv, PendingOnce, HeldOnce, Open, DrawnIds, PendingIds, HeldIds, Held, SignedIds

(* A step that draws and signs nothing and opens nothing loses what it     *)
(* closes.                                                                 *)
LEMMA ClosingLoses ==
  ASSUME NonceInv, UNCHANGED <<drawn, signed>>, Open' \subseteq Open
  PROVE  OneTime!Next
<1> DEFINE lost == Nonce \cap (Open \ Open')
<1>1. SignedIds' = SignedIds /\ DrawnIds' = DrawnIds /\ Released' = Released
  BY DEF SignedIds, DrawnIds, Released
<1>2. \A n \in lost : NonceState[n] = "open"
  BY StateIs, OpenIsDrawn
<1>3. NonceState' = [n \in Nonce |-> IF n \in lost THEN "lost" ELSE NonceState[n]]
  <2>1. NonceState' = [n \in Nonce |-> IF n \in SignedIds THEN "spent"
                                       ELSE IF n \in Open' THEN "open"
                                       ELSE IF n \in DrawnIds THEN "lost"
                                       ELSE "fresh"]
    BY <1>1 DEF NonceState, Open, DrawnIds
  <2> QED
    BY <2>1, StateIs, OpenIsDrawn
<1>4. OneTime!Lose(lost)
  BY <1>1, <1>2, <1>3 DEF OneTime!Lose
<1> QED
  BY <1>4 DEF OneTime!Next

(* Storing a commitment is an abstract draw of a fresh nonce               *)
(* (handle_sign_commit).                                                   *)
LEMMA PushDraws ==
  ASSUME NonceInv, NEW h \in Handler, PushCommit(h)
  PROVE  OneTime!Next
<1> DEFINE entry(id) == [client |-> task[h].client, id |-> id, idx |-> task[h].session.idx,
                         members |-> task[h].members]
<1>1. PICK id \in Nonce \ DrawnIds :
        /\ commits' = commits \cup {[entry |-> entry(id), stale |-> FALSE]}
        /\ drawn' = drawn \cup {entry(id)}
  BY DEF PushCommit, DrawnIds
<1>2. entry(id).id = id
  OBVIOUS
<1>3. /\ signed' = signed /\ task[h].pc = "commit"
      /\ \A g \in Handler : task'[g].pc = "sign" <=> task[g].pc = "sign"
      /\ \A g \in Handler : task[g].pc = "sign" => task'[g] = task[g]
  BY DEF PushCommit, history, authHistory, NonceInv, Threads, Goto, Idle
<1> HIDE DEF entry
<1>4. /\ SignedIds' = SignedIds /\ Released' = Released
      /\ DrawnIds' = DrawnIds \cup {id}
      /\ PendingIds' = PendingIds \cup {id} /\ HeldIds' = HeldIds
  <2>1. SignedIds' = SignedIds /\ Released' = Released
    BY <1>3 DEF SignedIds, Released
  <2>2. DrawnIds' = DrawnIds \cup {id}
    BY <1>1, <1>2 DEF DrawnIds
  <2>3. PendingIds' = PendingIds \cup {id}
    <3> DEFINE new == [entry |-> entry(id), stale |-> FALSE]
    <3>1. new.entry.id = id /\ commits' = commits \cup {new}
      BY <1>1, <1>2
    <3> HIDE DEF new
    <3> QED
      BY <3>1 DEF PendingIds
  <2>4. HeldIds' = HeldIds
    BY <1>3 DEF HeldIds, Held
  <2> QED
    BY <2>1, <2>2, <2>3, <2>4
<1>5. id \notin SignedIds /\ id \notin Open /\ id \notin DrawnIds
  BY <1>1, OpenIsDrawn DEF NonceInv, SignedAsCommitted, SignedIds, DrawnIds
<1>6. NonceState' = [n \in Nonce |-> IF n \in SignedIds THEN "spent"
                                     ELSE IF n \in Open \cup {id} THEN "open"
                                     ELSE IF n \in DrawnIds \cup {id} THEN "lost"
                                     ELSE "fresh"]
  BY <1>4 DEF NonceState, Open, DrawnIds
<1>7. NonceState[id] = "fresh" /\ NonceState' = [NonceState EXCEPT ![id] = "open"]
  BY <1>5, <1>6, StateIs
<1>8. OneTime!Draw(id)
  BY <1>4, <1>7 DEF OneTime!Draw
<1> QED
  BY <1>8 DEF OneTime!Next

(* A completion that signs is the abstract signature of an open nonce      *)
(* (sign_msg).                                                             *)
LEMMA FinishSigns ==
  ASSUME TypeOK, NonceInv, NEW h \in Handler, FinishSign(h)
  PROVE  OneTime!Next
<1> DEFINE psig == [entry |-> task[h].entry, client |-> task[h].client, own |-> task[h].req.own,
                    idx |-> task[h].session.idx, members |-> task[h].req.members,
                    hash |-> task[h].req.hash,
                    again |-> SignedBefore(task[h].entry.id)]
           id == task[h].entry.id
           m == task[h].req.hash
<1>1. task[h].pc = "sign" /\ id \in Nonce /\ m \in Hash
  <2>1. task[h] \in Task
    BY TypeParts DEF Tasks
  <2> QED
    BY <2>1, SigningShape DEF FinishSign, CommitEntry, Request
<1>2. /\ UNCHANGED <<commits, drawn>> /\ signed' = signed \cup {psig}
      /\ psig.entry.id = id /\ psig.hash = m
  BY DEF FinishSign
<1>3. /\ task'[h].pc # "sign"
      /\ \A g \in Handler \ {h} : task'[g] = task[g]
  BY DEF FinishSign, NonceInv, Threads, Goto, Idle
<1>4. /\ id \in Open /\ id \notin SignedIds /\ id \notin PendingIds
      /\ \A g \in Handler \ {h} : task[g].pc = "sign" => task[g].entry.id # id
  BY <1>1 DEF NonceInv, PendingOnce, HeldOnce, Open, HeldIds, Held, SignedIds, PendingIds
<1> HIDE DEF psig, id, m
<1>5. /\ SignedIds' = SignedIds \cup {id} /\ DrawnIds' = DrawnIds
      /\ Open' = Open \ {id}
  <2>1. SignedIds' = SignedIds \cup {id} /\ DrawnIds' = DrawnIds /\ PendingIds' = PendingIds
    BY <1>2 DEF SignedIds, DrawnIds, PendingIds
  <2>2. HeldIds' = HeldIds \ {id}
    BY <1>3, <1>4 DEF HeldIds, Held, id
  <2> QED
    BY <1>4, <2>1, <2>2 DEF Open
<1>6. NonceState[id] = "open" /\ NonceState' = [NonceState EXCEPT ![id] = "spent"]
  <2>1. NonceState' = [n \in Nonce |-> IF n \in SignedIds' THEN "spent"
                                       ELSE IF n \in Open' THEN "open"
                                       ELSE IF n \in DrawnIds' THEN "lost"
                                       ELSE "fresh"]
    BY DEF NonceState, Open, DrawnIds
  <2> QED
    BY <1>1, <1>4, <1>5, <2>1, StateIs
<1>7. Released' = [Released EXCEPT ![id] = {m}]
  <2>1. Released' = [n \in Nonce |-> {p.hash : p \in {q \in signed \cup {psig} : q.entry.id = n}}]
    BY <1>2 DEF Released
  <2>2. {p.hash : p \in {q \in signed \cup {psig} : q.entry.id = id}} = {m}
    BY <1>2, <1>4 DEF SignedIds
  <2>3. \A n \in Nonce \ {id} : {q \in signed \cup {psig} : q.entry.id = n}
                                  = {q \in signed : q.entry.id = n}
    BY <1>2
  <2> QED
    BY <1>1, <2>1, <2>2, <2>3 DEF Released
<1>8. OneTime!Sign(id, m)
  BY <1>6, <1>7 DEF OneTime!Sign
<1> QED
  BY <1>1, <1>8 DEF OneTime!Next

(* Taking a commitment loses no nonce and opens none (take_commit).        *)
LEMMA TakeKeepsOpen ==
  ASSUME NonceInv, NEW h \in Handler, TakeCommit(h)
  PROVE  UNCHANGED <<drawn, signed>> /\ Open' \subseteq Open
<1>1. PICK p \in commits :
        /\ commits' = commits \ {p}
        /\ Goto(h, [pc |-> "sign", client |-> task[h].client, session |-> task[h].session,
                    req |-> task[h].req, entry |-> p.entry])
  BY DEF TakeCommit
<1>2. task'[h].entry = p.entry /\ \A g \in Handler \ {h} : task'[g] = task[g]
  BY <1>1 DEF NonceInv, Threads, Goto
<1>3. PendingIds' \subseteq PendingIds /\ HeldIds' \subseteq HeldIds \cup PendingIds
  BY <1>1, <1>2 DEF PendingIds, HeldIds, Held
<1> QED
  BY <1>3 DEF Open, TakeCommit, history

(* Nor does a step that touches no commitment.                             *)
LEMMA QuietKeepsOpen ==
  ASSUME Quiet
  PROVE  UNCHANGED <<drawn, signed>> /\ Open' \subseteq Open
<1>1. PendingIds' = PendingIds
  BY DEF Quiet, PendingIds
<1>2. HeldIds' \subseteq HeldIds
  BY DEF Quiet, HeldIds, Held
<1> QED
  BY <1>1, <1>2 DEF Open, Quiet

(* Cleanup and restarts lose open nonces and no others.                    *)
LEMMA LossKeepsOpen ==
  ASSUME (\E p \in commits : AgeCommit(p)) \/ CleanCommits \/ Restart
  PROVE  UNCHANGED <<drawn, signed>> /\ Open' \subseteq Open
<1> USE DEF history
<1>1. ASSUME NEW p \in commits, AgeCommit(p)
      PROVE  UNCHANGED <<drawn, signed>> /\ Open' \subseteq Open
  <2> DEFINE aged == [entry |-> p.entry, stale |-> TRUE]
  <2>1. /\ commits' = (commits \ {p}) \cup {aged} /\ UNCHANGED <<task, drawn, signed>>
        /\ aged.entry = p.entry
    BY <1>1 DEF AgeCommit
  <2> HIDE DEF aged
  <2>2. PendingIds' \subseteq PendingIds /\ HeldIds' = HeldIds
    BY <2>1 DEF PendingIds, HeldIds, Held
  <2> QED
    BY <2>1, <2>2 DEF Open
<1>2. CASE CleanCommits
  BY <1>2 DEF CleanCommits, Open, PendingIds, HeldIds, Held
<1>3. CASE Restart
  BY <1>3 DEF Restart, Open, PendingIds, HeldIds, Held, Idle
<1> QED
  BY <1>1, <1>2, <1>3

(* The signer begins as the abstract nonces do.                            *)
LEMMA InitImplements == Init => OneTime!Init
  BY DEF Init, OneTime!Init, NonceState, Released, SignedIds, PendingIds, HeldIds, Held, Idle

(* Every step of the signer is one of the abstract nonces, or none.        *)
LEMMA StepImplements == TypeOK /\ NonceInv /\ [Next]_vars => OneTime!Next
<1> SUFFICES ASSUME TypeOK, NonceInv, [Next]_vars PROVE OneTime!Next
  OBVIOUS
<1>1. Threads
  BY DEF NonceInv
<1>2. ASSUME Quiet PROVE OneTime!Next
  BY <1>2, QuietKeepsOpen, ClosingLoses
<1>3. CASE SigningNext
  <2> SUFFICES ASSUME NEW h \in Handler,
                      \/ \E c \in Client, members \in MemberSets : SignCommit(h, c, members)
                      \/ PushCommit(h)
                      \/ \E c \in Client, req \in Request : SignComplete(h, c, req)
                      \/ TakeCommit(h)
                      \/ FinishSign(h)
                      \/ \E c \in Client : Ecdh(h, c)
                      \/ FinishEcdh(h)
                      \/ Refuse(h)
               PROVE  OneTime!Next
    BY <1>3 DEF SigningNext
  <2>1. CASE PushCommit(h)
    BY <2>1, PushDraws
  <2>2. CASE TakeCommit(h)
    BY <2>2, TakeKeepsOpen, ClosingLoses
  <2>3. CASE FinishSign(h)
    BY <2>3, FinishSigns
  <2> QED
    BY <1>1, <1>2, <2>1, <2>2, <2>3, OtherSigningIsQuiet
<1>4. CASE SessionsNext
  BY <1>1, <1>2, <1>4, SessionsAreQuiet
<1>5. CASE AuthNext
  BY <1>1, <1>2, <1>5, AuthIsQuiet
<1>6. CASE Cleanup
  BY <1>2, <1>6, TablesAreQuiet, LossKeepsOpen, ClosingLoses DEF Cleanup
<1>7. CASE Environment
  BY <1>2, <1>7, TablesAreQuiet, LossKeepsOpen, ClosingLoses DEF Environment
<1>8. CASE UNCHANGED vars
  BY <1>2, <1>8, TablesAreQuiet
<1> QED
  BY <1>3, <1>4, <1>5, <1>6, <1>7, <1>8 DEF Next

(* What take_commit, the cleanup or a restart has removed from the pending *)
(* commitments never comes back: the signer implements OneTimeNonce.       *)
THEOREM SignerImplementsOneTimeNonce == Spec => ImplementsOneTimeNonce
<1>1. TypeOK /\ NonceInv /\ [Next]_vars => [OneTime!Next]_(OneTime!vars)
  BY StepImplements
<1> QED
  BY InitImplements, <1>1, InitIsTyped, StepIsTyped, InitEstablishesNonces, NonceStep, PTL
     DEF Spec, ImplementsOneTimeNonce, OneTime!Spec

-----------------------------------------------------------------------------
(* Once every request that overlapped a deactivation has been answered,    *)
(* the key stays revoked, draws no nonce and makes no signature.           *)

(* The copy of a session that signing or ECDH works with was active when   *)
(* it was read; the one that deactivation writes back is not.              *)
CopiesAsRead ==
  \A h \in Handler :
    /\ task[h].pc \in {"commit", "take", "sign", "ecdh"} => ~task[h].session.deactivated
    /\ task[h].pc = "deactivate_set" => task[h].session.deactivated

(* A handler that goes on with such copies keeps the invariant.            *)
LEMMA GotoKeepsCopies ==
  ASSUME Tasks, CopiesAsRead, NEW h \in Handler, NEW t, Goto(h, t),
         t.pc \in {"commit", "take", "sign", "ecdh"} => ~t.session.deactivated,
         t.pc = "deactivate_set" => t.session.deactivated
  PROVE  CopiesAsRead'
  BY DEF Tasks, CopiesAsRead, Goto

(* No step breaks it: requests hold the copies they have checked (Next).   *)
LEMMA StepKeepsCopies == TypeOK /\ CopiesAsRead /\ [Next]_vars => CopiesAsRead'
<1> SUFFICES ASSUME TypeOK, CopiesAsRead, [Next]_vars PROVE CopiesAsRead'
  OBVIOUS
<1>0. Rest /\ Tasks /\ Idle.pc = "idle"
  BY TypeParts DEF Idle
<1>1. ASSUME NEW h \in Handler,
             \/ \E c \in Client, members \in MemberSets : SignCommit(h, c, members)
             \/ \E c \in Client, req \in Request : SignComplete(h, c, req)
             \/ \E c \in Client : Ecdh(h, c)
             \/ PushCommit(h) \/ TakeCommit(h) \/ FinishSign(h) \/ FinishEcdh(h) \/ Refuse(h)
      PROVE  CopiesAsRead'
  BY <1>0, <1>1 DEF SignCommit, SignComplete, Ecdh, PushCommit, TakeCommit, FinishSign,
     FinishEcdh, Refuse, Active, Tasks, CopiesAsRead, Goto
<1>2. ASSUME NEW h \in Handler, DeactivateGet(h)
      PROVE  CopiesAsRead'
  <2>1. task[h].client \in DOMAIN sessions =>
          [sessions[task[h].client] EXCEPT !.deactivated = TRUE].deactivated
    BY <1>0 DEF Rest, Table, SignerSession
  <2> QED
    BY <1>0, <1>2, <2>1 DEF DeactivateGet, Tasks, CopiesAsRead, Goto
<1> DEFINE Other(t) == t.pc \notin {"commit", "take", "sign", "ecdh", "deactivate_set"}
<1>a. ASSUME NEW h \in Handler, NEW t, Goto(h, t), Other(t)
      PROVE  CopiesAsRead'
  BY <1>0, <1>a, GotoKeepsCopies
<1>3. ASSUME SessionsNext
      PROVE  CopiesAsRead'
  <2> SUFFICES ASSUME NEW h \in Handler,
                      \/ \E c \in Client, g \in Group, i \in Idx, r \in Recovery :
                           Register(h, c, g, i, r)
                      \/ \E c \in Client, e \in Email, pw \in Password :
                           RecoverySetup(h, c, e, pw)
                      \/ AddSession(h) \/ IndexGet(h) \/ IndexSet(h)
                      \/ \E pk \in Group, c \in Client : SessionDeactivate(h, pk, c)
                      \/ DeactivateGet(h) \/ DeactivateSet(h)
                      \/ \E pk \in Group, c \in Client : SessionDelete(h, pk, c)
                      \/ DeleteGet(h) \/ UnindexGet(h) \/ UnindexSet(h) \/ RemoveSession(h)
               PROVE  CopiesAsRead'
    BY <1>3 DEF SessionsNext
  <2>1. ASSUME NEW c \in Client, NEW g \in Group, NEW i \in Idx, NEW r \in Recovery,
               Register(h, c, g, i, r)
        PROVE  CopiesAsRead'
    BY <1>a, <2>1 DEF Register
  <2>2. ASSUME NEW c \in Client, NEW e \in Email, NEW pw \in Password,
               RecoverySetup(h, c, e, pw)
        PROVE  CopiesAsRead'
    BY <1>a, <2>2 DEF RecoverySetup
  <2>3. CASE AddSession(h) \/ IndexGet(h) \/ IndexSet(h)
    BY <1>0, <1>a, <2>3 DEF AddSession, IndexGet, IndexSet
  <2>4. ASSUME NEW c \in Client, NEW pk \in Group,
               SessionDeactivate(h, pk, c) \/ SessionDelete(h, pk, c)
        PROVE  CopiesAsRead'
    BY <1>a, <2>4 DEF SessionDeactivate, SessionDelete
  <2>5. CASE DeactivateSet(h)
    BY <1>0, <1>a, <2>5 DEF DeactivateSet
  <2>6. CASE DeleteGet(h) \/ UnindexGet(h)
    BY <1>0, <1>a, <2>6 DEF DeleteGet, UnindexGet
  <2>7. CASE UnindexSet(h) \/ RemoveSession(h)
    BY <1>0, <1>a, <2>7 DEF UnindexSet, RemoveSession
  <2> QED
    BY <1>2, <2>1, <2>2, <2>3, <2>4, <2>5, <2>6, <2>7
<1>4. ASSUME AuthNext
      PROVE  CopiesAsRead'
  <2> SUFFICES ASSUME NEW h \in Handler,
                      \/ \E e \in Email : Challenge(h, e)
                      \/ SendChallenge(h) \/ SkipChallenge(h)
                      \/ \E c \in Client, goal \in Goal, e \in Email,
                            pw \in Password \cup {None}, otp \in Otp \cup {None} :
                           Start(h, c, goal, e, pw, otp)
                      \/ AuthIndex(h) \/ OtpGet(h) \/ OtpDelete(h) \/ Collect(h)
                      \/ StoreGrant(h)
                      \/ \E c, target \in Client, goal \in Goal : Select(h, c, goal, target)
                      \/ DeleteGrant(h) \/ Load(h)
               PROVE  CopiesAsRead'
    BY <1>4 DEF AuthNext
  <2>1. ASSUME NEW e \in Email, Challenge(h, e)
        PROVE  CopiesAsRead'
    BY <1>a, <2>1 DEF Challenge
  <2>2. CASE SendChallenge(h) \/ SkipChallenge(h)
    BY <1>0, <1>a, <2>2 DEF SendChallenge, SkipChallenge
  <2>3. ASSUME NEW c \in Client, NEW goal \in Goal, NEW e \in Email,
               NEW pw \in Password \cup {None}, NEW otp \in Otp \cup {None},
               Start(h, c, goal, e, pw, otp)
        PROVE  CopiesAsRead'
    BY <1>a, <2>3 DEF Start
  <2>4. CASE AuthIndex(h) \/ OtpGet(h)
    BY <1>0, <1>a, <2>4 DEF AuthIndex, OtpGet
  <2>5. CASE OtpDelete(h) \/ Collect(h)
    BY <1>0, <1>a, <2>5 DEF OtpDelete, Collect
  <2>6. CASE StoreGrant(h) \/ DeleteGrant(h)
    BY <1>0, <1>a, <2>6 DEF StoreGrant, DeleteGrant
  <2>7. ASSUME NEW c \in Client, NEW target \in Client, NEW goal \in Goal,
               Select(h, c, goal, target)
        PROVE  CopiesAsRead'
    BY <1>a, <2>7 DEF Select
  <2>8. CASE Load(h)
    BY <1>0, <1>a, <2>8 DEF Load
  <2> QED
    BY <2>1, <2>2, <2>3, <2>4, <2>5, <2>6, <2>7, <2>8
<1>5. CASE Restart
  BY <1>0, <1>5 DEF Restart, CopiesAsRead
<1>6. CASE Cleanup \/ UNCHANGED vars
  BY <1>6 DEF Cleanup, CleanScan, CleanDelete, CleanCommits, vars, CopiesAsRead
<1>7. CASE (\E c \in Client : AgeSession(c)) \/ AgeGrant \/ \E p \in commits : AgeCommit(p)
  BY <1>7 DEF AgeSession, AgeGrant, AgeCommit, CopiesAsRead
<1> QED
  BY <1>1, <1>3, <1>4, <1>5, <1>6, <1>7 DEF Next, SigningNext, Environment

-----------------------------------------------------------------------------
(* What a step may not take from a revoked key.                            *)

Kept(c) ==
  /\ c \in DOMAIN sessions' => Revoked(c)' /\ Settled(c)'
  /\ \A p \in signed' \ signed : p.client # c
  /\ \A e \in drawn' \ drawn : e.client # c

(* A handler that goes on without threatening a key leaves it settled.     *)
LEMMA GotoKeepsSettled ==
  ASSUME Tasks, NEW c, Settled(c), NEW h \in Handler, NEW t, Goto(h, t), ~Threatens(t, c),
         c \notin DOMAIN logins'
  PROVE  Settled(c)'
<1>1. \A g \in Handler : task'[g] = IF g = h THEN t ELSE task[g]
  BY DEF Tasks, Goto
<1> QED
  BY <1>1 DEF Settled, Threatens

(* Writing other sessions, or a deactivated one, leaves a key revoked      *)
(* (set).                                                                  *)
LEMMA PutKeepsRevoked ==
  ASSUME NEW c, Revoked(c), NEW k, NEW v, sessions' = Put(sessions, k, v),
         k = c => v.deactivated
  PROVE  Revoked(c)'
  BY DEF Revoked, Put

(* So does deleting a session (delete).                                    *)
LEMMA DropKeepsRevoked ==
  ASSUME NEW c, Revoked(c), NEW k, sessions' = Drop(sessions, k)
  PROVE  c \in DOMAIN sessions' => Revoked(c)'
  BY DEF Revoked, Drop

(* An idle thread threatens no key.                                        *)
LEMMA IdleIsNoThreat == ASSUME NEW c PROVE ~Threatens(Idle, c)
  BY DEF Threatens, Idle

(* Signing and ECDH keep a revoked key revoked.                            *)
LEMMA SigningKeepsRevoked ==
  ASSUME Rest, Tasks, CopiesAsRead, NEW c \in Client, Revoked(c), Settled(c), SigningNext
  PROVE  Kept(c)
<1> SUFFICES ASSUME NEW h \in Handler,
                    \/ \E k \in Client, members \in MemberSets : SignCommit(h, k, members)
                    \/ PushCommit(h)
                    \/ \E k \in Client, req \in Request : SignComplete(h, k, req)
                    \/ TakeCommit(h)
                    \/ FinishSign(h)
                    \/ \E k \in Client : Ecdh(h, k)
                    \/ FinishEcdh(h)
                    \/ Refuse(h)
             PROVE  Kept(c)
  BY DEF SigningNext
<1> USE DEF store, history, authHistory
<1>0. c \notin DOMAIN logins
  BY DEF Settled
<1>a. ASSUME UNCHANGED <<sessions, logins, drawn, signed>>, Settled(c)'
      PROVE  Kept(c)
  BY <1>a DEF Kept, Revoked
<1>b. task[h].pc \in {"commit", "take", "sign", "ecdh"} => task[h].client # c
  BY DEF CopiesAsRead, Settled, Threatens
<1>1. ASSUME NEW k \in Client, NEW members \in MemberSets, SignCommit(h, k, members)
      PROVE  Kept(c)
  <2>1. k # c
    BY <1>1 DEF SignCommit, Active, Revoked
  <2>2. Settled(c)'
    BY <1>0, <1>1, <2>1, GotoKeepsSettled DEF SignCommit, Threatens
  <2> QED
    BY <1>1, <1>a, <2>2 DEF SignCommit
<1>2. CASE PushCommit(h)
  <2>1. Settled(c)'
    BY <1>0, <1>2, GotoKeepsSettled, IdleIsNoThreat DEF PushCommit
  <2>2. \A e \in drawn' \ drawn : e.client # c
    BY <1>2, <1>b DEF PushCommit
  <2> QED
    BY <1>2, <2>1, <2>2 DEF PushCommit, Kept, Revoked
<1>3. ASSUME NEW k \in Client, NEW req \in Request, SignComplete(h, k, req)
      PROVE  Kept(c)
  <2>1. k # c
    BY <1>3 DEF SignComplete, Active, Revoked
  <2>2. Settled(c)'
    BY <1>0, <1>3, <2>1, GotoKeepsSettled DEF SignComplete, Threatens
  <2> QED
    BY <1>3, <1>a, <2>2 DEF SignComplete
<1>4. CASE TakeCommit(h)
  <2>1. PICK p \in commits :
          Goto(h, [pc |-> "sign", client |-> task[h].client, session |-> task[h].session,
                   req |-> task[h].req, entry |-> p.entry])
    BY <1>4 DEF TakeCommit
  <2>2. Settled(c)'
    BY <1>0, <1>4, <1>b, <2>1, GotoKeepsSettled DEF TakeCommit, Threatens
  <2> QED
    BY <1>4, <1>a, <2>2 DEF TakeCommit
<1>5. CASE FinishSign(h)
  <2>1. Settled(c)'
    BY <1>0, <1>5, GotoKeepsSettled, IdleIsNoThreat DEF FinishSign
  <2>2. Revoked(c)'
    BY <1>5, <1>b, PutKeepsRevoked DEF FinishSign
  <2>3. \A p \in signed' \ signed : p.client # c
    BY <1>5, <1>b DEF FinishSign
  <2> QED
    BY <1>5, <2>1, <2>2, <2>3 DEF FinishSign, Kept
<1>6. ASSUME NEW k \in Client, Ecdh(h, k)
      PROVE  Kept(c)
  <2>1. k # c
    BY <1>6 DEF Ecdh, Active, Revoked
  <2>2. Settled(c)'
    BY <1>0, <1>6, <2>1, GotoKeepsSettled DEF Ecdh, Threatens
  <2> QED
    BY <1>6, <1>a, <2>2 DEF Ecdh
<1>7. CASE FinishEcdh(h)
  <2>1. Settled(c)'
    BY <1>0, <1>7, GotoKeepsSettled, IdleIsNoThreat DEF FinishEcdh
  <2>2. Revoked(c)'
    BY <1>7, <1>b, PutKeepsRevoked DEF FinishEcdh
  <2> QED
    BY <1>7, <2>1, <2>2 DEF FinishEcdh, Kept
<1>8. CASE Refuse(h)
  <2>1. Settled(c)'
    BY <1>0, <1>8, GotoKeepsSettled, IdleIsNoThreat DEF Refuse
  <2> QED
    BY <1>8, <1>a, <2>1 DEF Refuse
<1> QED
  BY <1>1, <1>2, <1>3, <1>4, <1>5, <1>6, <1>7, <1>8

(* The session handlers keep it so.                                        *)
LEMMA SessionsKeepRevoked ==
  ASSUME Rest, Tasks, CopiesAsRead, NEW c \in Client, Revoked(c), Settled(c), SessionsNext
  PROVE  Kept(c)
<1> SUFFICES ASSUME NEW h \in Handler,
                    \/ \E k \in Client, g \in Group, i \in Idx, r \in Recovery :
                         Register(h, k, g, i, r)
                    \/ \E k \in Client, e \in Email, pw \in Password : RecoverySetup(h, k, e, pw)
                    \/ AddSession(h) \/ IndexGet(h) \/ IndexSet(h)
                    \/ \E pk \in Group, k \in Client : SessionDeactivate(h, pk, k)
                    \/ DeactivateGet(h) \/ DeactivateSet(h)
                    \/ \E pk \in Group, k \in Client : SessionDelete(h, pk, k)
                    \/ DeleteGet(h) \/ UnindexGet(h) \/ UnindexSet(h) \/ RemoveSession(h)
             PROVE  Kept(c)
  BY DEF SessionsNext
<1> USE DEF store, history, authHistory
<1>0. c \notin DOMAIN logins /\ ~Threatens(task[h], c)
  BY DEF Settled
<1> DEFINE Same == UNCHANGED <<sessions, logins, drawn, signed>>
<1>a. ASSUME Same, NEW t, Goto(h, t), ~Threatens(t, c)
      PROVE  Kept(c)
  BY <1>0, <1>a, GotoKeepsSettled DEF Kept, Revoked
<1>b. ASSUME UNCHANGED <<logins, drawn, signed>>, c \in DOMAIN sessions' => Revoked(c)',
             NEW t, Goto(h, t), ~Threatens(t, c)
      PROVE  Kept(c)
  BY <1>0, <1>b, GotoKeepsSettled DEF Kept
<1>1. ASSUME NEW k \in Client, NEW g \in Group, NEW i \in Idx, NEW r \in Recovery,
             Register(h, k, g, i, r)
      PROVE  Kept(c)
  <2>1. k # c
    BY <1>1 DEF Register, UnusedKey, Revoked
  <2> QED
    BY <1>1, <1>a, <2>1 DEF Register, Threatens
<1>2. ASSUME NEW k \in Client, NEW e \in Email, NEW pw \in Password, RecoverySetup(h, k, e, pw)
      PROVE  Kept(c)
  <2> DEFINE new == [Touched(sessions[k]) EXCEPT !.email = e, !.password = pw]
             t == [pc |-> "add", client |-> k, session |-> new]
  <2>1. k = c => new.deactivated
    BY <1>2 DEF RecoverySetup, Touched, Revoked, Rest, Table, SignerSession
  <2> HIDE DEF new
  <2>2. ~Threatens(t, c)
    BY <2>1 DEF Threatens
  <2>3. Goto(h, t)
    BY <1>2 DEF RecoverySetup, new
  <2> QED
    BY <1>2, <1>a, <2>2, <2>3 DEF RecoverySetup
<1>3. CASE AddSession(h)
  <2>1. Revoked(c)'
    BY <1>0, <1>3, PutKeepsRevoked DEF AddSession, Threatens
  <2> DEFINE t == [pc |-> "index_get", client |-> task[h].client,
                   email |-> task[h].session.email]
  <2>2. ~Threatens(t, c) /\ ~Threatens(Idle, c)
    BY DEF Threatens, Idle
  <2>3. Goto(h, t) \/ Goto(h, Idle)
    BY <1>3 DEF AddSession
  <2> QED
    BY <1>3, <1>b, <2>1, <2>2, <2>3 DEF AddSession
<1>4. CASE IndexGet(h) \/ IndexSet(h)
  BY <1>4, <1>a, IdleIsNoThreat DEF IndexGet, IndexSet, Threatens
<1>5. ASSUME NEW k \in Client, NEW pk \in Group,
             SessionDeactivate(h, pk, k) \/ SessionDelete(h, pk, k)
      PROVE  Kept(c)
  BY <1>5, <1>a DEF SessionDeactivate, SessionDelete, Threatens
<1>6. CASE DeactivateGet(h)
  <2> DEFINE k == task[h].client
             new == [sessions[k] EXCEPT !.deactivated = TRUE]
             t == [pc |-> "deactivate_set", client |-> k, session |-> new]
  <2>1. k \in DOMAIN sessions => new.deactivated
    BY DEF Rest, Table, SignerSession
  <2>2. Goto(h, Idle) \/ (k \in DOMAIN sessions /\ Goto(h, t))
    BY <1>6 DEF DeactivateGet
  <2> HIDE DEF new
  <2>3. k \in DOMAIN sessions => ~Threatens(t, c)
    BY <2>1 DEF Threatens
  <2> QED
    BY <1>6, <1>a, <2>2, <2>3, IdleIsNoThreat DEF DeactivateGet
<1>7. CASE DeactivateSet(h)
  <2>1. Revoked(c)'
    BY <1>7, PutKeepsRevoked DEF DeactivateSet, CopiesAsRead
  <2> QED
    BY <1>7, <1>b, <2>1, IdleIsNoThreat DEF DeactivateSet
<1>8. CASE DeleteGet(h) \/ UnindexGet(h) \/ UnindexSet(h)
  <2>1. PICK t : Goto(h, t) /\ ~Threatens(t, c)
    BY <1>8, IdleIsNoThreat DEF DeleteGet, UnindexGet, UnindexSet, Threatens
  <2> QED
    BY <1>8, <1>a, <2>1 DEF DeleteGet, UnindexGet, UnindexSet
<1>9. CASE RemoveSession(h)
  <2>1. c \in DOMAIN sessions' => Revoked(c)'
    BY <1>9, DropKeepsRevoked DEF RemoveSession
  <2> QED
    BY <1>9, <1>b, <2>1, IdleIsNoThreat DEF RemoveSession
<1> QED
  BY <1>1, <1>2, <1>3, <1>4, <1>5, <1>6, <1>7, <1>8, <1>9

(* Access by email keeps it so.                                            *)
LEMMA AuthKeepsRevoked ==
  ASSUME Rest, Tasks, NEW c \in Client, Revoked(c), Settled(c), AuthNext
  PROVE  Kept(c)
<1> SUFFICES ASSUME NEW h \in Handler,
                    \/ \E e \in Email : Challenge(h, e)
                    \/ SendChallenge(h) \/ SkipChallenge(h)
                    \/ \E k \in Client, goal \in Goal, e \in Email, pw \in Password \cup {None},
                          otp \in Otp \cup {None} : Start(h, k, goal, e, pw, otp)
                    \/ AuthIndex(h) \/ OtpGet(h) \/ OtpDelete(h) \/ Collect(h) \/ StoreGrant(h)
                    \/ \E k, target \in Client, goal \in Goal : Select(h, k, goal, target)
                    \/ DeleteGrant(h) \/ Load(h)
             PROVE  Kept(c)
  BY DEF AuthNext
<1> USE DEF store, history, authHistory
<1>0. c \notin DOMAIN logins /\ ~Threatens(task[h], c)
  BY DEF Settled
<1>a. ASSUME UNCHANGED <<sessions, drawn, signed>>, c \notin DOMAIN logins',
             NEW t, Goto(h, t), ~Threatens(t, c)
      PROVE  Kept(c)
  BY <1>a, GotoKeepsSettled DEF Kept, Revoked
<1>1. ASSUME NEW e \in Email, Challenge(h, e)
      PROVE  Kept(c)
  BY <1>0, <1>1, <1>a DEF Challenge, Threatens
<1>2. CASE SendChallenge(h) \/ SkipChallenge(h)
  BY <1>0, <1>2, <1>a, IdleIsNoThreat DEF SendChallenge, SkipChallenge
<1>3. ASSUME NEW k \in Client, NEW goal \in Goal, NEW e \in Email,
             NEW pw \in Password \cup {None}, NEW otp \in Otp \cup {None},
             Start(h, k, goal, e, pw, otp)
      PROVE  Kept(c)
  <2>1. k # c
    BY <1>3 DEF Start, UnusedKey, Revoked
  <2> QED
    BY <1>0, <1>3, <1>a, <2>1 DEF Start, Threatens
<1>4. CASE AuthIndex(h)
  <2>1. PICK t : Goto(h, t) /\ ~Threatens(t, c)
    BY <1>0, <1>4, IdleIsNoThreat DEF AuthIndex, Threatens
  <2> QED
    BY <1>0, <1>4, <1>a, <2>1 DEF AuthIndex
<1>5. CASE OtpGet(h)
  <2>1. PICK t : Goto(h, t) /\ ~Threatens(t, c)
    BY <1>0, <1>5, IdleIsNoThreat DEF OtpGet, Threatens
  <2> QED
    BY <1>0, <1>5, <1>a, <2>1 DEF OtpGet
<1>6. CASE OtpDelete(h)
  <2>1. PICK t : Goto(h, t) /\ ~Threatens(t, c)
    BY <1>0, <1>6, IdleIsNoThreat DEF OtpDelete, Threatens
  <2> QED
    BY <1>0, <1>6, <1>a, <2>1 DEF OtpDelete
<1>7. CASE Collect(h)
  <2>1. PICK t : Goto(h, t) /\ ~Threatens(t, c)
    BY <1>0, <1>7, IdleIsNoThreat DEF Collect, Threatens
  <2> QED
    BY <1>0, <1>7, <1>a, <2>1 DEF Collect
<1>8. CASE StoreGrant(h)
  <2>1. c \notin DOMAIN logins'
    BY <1>0, <1>8 DEF StoreGrant, Threatens, Put
  <2> QED
    BY <1>8, <1>a, <2>1, IdleIsNoThreat DEF StoreGrant
<1>9. ASSUME NEW k \in Client, NEW target \in Client, NEW goal \in Goal,
             Select(h, k, goal, target)
      PROVE  Kept(c)
  <2>1. k # c \/ goal # "login"
    BY <1>0, <1>9 DEF Select, Granted
  <2> QED
    BY <1>0, <1>9, <1>a, <2>1 DEF Select, Threatens
<1>10. CASE DeleteGrant(h)
  <2>1. c \notin DOMAIN logins'
    BY <1>0, <1>10 DEF DeleteGrant, Drop
  <2>2. PICK t : Goto(h, t) /\ ~Threatens(t, c)
    BY <1>0, <1>10, IdleIsNoThreat DEF DeleteGrant, Threatens
  <2> QED
    BY <1>10, <1>a, <2>1, <2>2 DEF DeleteGrant
<1>11. CASE Load(h)
  <2>1. PICK t : Goto(h, t) /\ ~Threatens(t, c)
    BY <1>0, <1>11, IdleIsNoThreat DEF Load, Threatens
  <2> QED
    BY <1>0, <1>11, <1>a, <2>1 DEF Load
<1> QED
  BY <1>1, <1>2, <1>3, <1>4, <1>5, <1>6, <1>7, <1>8, <1>9, <1>10, <1>11

(* The cleanup, time and restarts keep it so.                              *)
LEMMA UpkeepKeepsRevoked ==
  ASSUME Rest, Tasks, NEW c \in Client, Revoked(c), Settled(c),
         Cleanup \/ Environment \/ UNCHANGED vars
  PROVE  Kept(c)
<1> USE DEF store, history, authHistory
<1>a. ASSUME UNCHANGED <<task, drawn, signed>>, DOMAIN logins' \subseteq DOMAIN logins,
             c \in DOMAIN sessions' => Revoked(c)'
      PROVE  Kept(c)
  BY <1>a DEF Kept, Settled, Threatens
<1>1. CASE (\E table \in Tables : CleanScan(table)) \/ CleanCommits \/ UNCHANGED vars
  BY <1>1, <1>a DEF CleanScan, CleanCommits, vars, Revoked
<1>2. ASSUME NEW k \in cleaner.keys, CleanDelete(k)
      PROVE  Kept(c)
  <2>1. c \in DOMAIN sessions' => Revoked(c)'
    BY <1>2, DropKeepsRevoked DEF CleanDelete, Revoked
  <2>2. DOMAIN logins' \subseteq DOMAIN logins
    BY <1>2 DEF CleanDelete, Drop
  <2> QED
    BY <1>2, <1>a, <2>1, <2>2 DEF CleanDelete
<1>3. ASSUME NEW k \in Client, AgeSession(k)
      PROVE  Kept(c)
  <2>1. k = c => /\ [sessions[k] EXCEPT !.old = TRUE].deactivated
                 /\ [sessions[k] EXCEPT !.old = TRUE, !.idle = TRUE].deactivated
    BY DEF Revoked, Rest, Table, SignerSession
  <2>2. Revoked(c)'
    BY <1>3, <2>1, PutKeepsRevoked DEF AgeSession
  <2> QED
    BY <1>3, <1>a, <2>2 DEF AgeSession
<1>4. CASE AgeGrant
  <2>1. DOMAIN logins' \subseteq DOMAIN logins
    BY <1>4 DEF AgeGrant, Aged, Put
  <2> QED
    BY <1>4, <1>a, <2>1 DEF AgeGrant, Revoked
<1>5. CASE \E p \in commits : AgeCommit(p)
  BY <1>5, <1>a DEF AgeCommit, Revoked
<1>6. CASE Restart
  <2>1. Settled(c)'
    BY <1>6, IdleIsNoThreat DEF Restart, Settled, Threatens
  <2> QED
    BY <1>6, <2>1 DEF Restart, Kept, Revoked
<1> QED
  BY <1>1, <1>2, <1>3, <1>4, <1>5, <1>6 DEF Cleanup, Environment

-----------------------------------------------------------------------------

(* The body of RevokedForGood.                                             *)
LEMMA StepKeepsRevoked ==
  TypeOK /\ CopiesAsRead /\ [Next]_vars =>
    \A c \in Client : Revoked(c) /\ Settled(c) => Kept(c)
<1> SUFFICES ASSUME TypeOK, CopiesAsRead, [Next]_vars, NEW c \in Client, Revoked(c), Settled(c)
             PROVE  Kept(c)
  OBVIOUS
<1>1. Rest /\ Tasks
  BY TypeParts
<1> QED
  BY <1>1, SigningKeepsRevoked, SessionsKeepRevoked, AuthKeepsRevoked, UpkeepKeepsRevoked
     DEF Next

(* Once a session is deactivated and no request that overlapped the        *)
(* deactivation is on its way, the key stays revoked until its session is  *)
(* deleted, and neither draws a nonce nor makes a signature.               *)
THEOREM DeactivationRevokes == Spec => RevokedForGood
<1>1. Init => TypeOK /\ CopiesAsRead
  BY InitIsTyped DEF Init, CopiesAsRead, Idle
<1>2. TypeOK /\ CopiesAsRead /\ [Next]_vars => TypeOK' /\ CopiesAsRead'
  BY StepIsTyped, StepKeepsCopies
<1>3. TypeOK /\ CopiesAsRead /\ [Next]_vars =>
        [\A c \in Client : Revoked(c) /\ Settled(c) =>
           /\ c \in DOMAIN sessions' => Revoked(c)' /\ Settled(c)'
           /\ \A p \in signed' \ signed : p.client # c
           /\ \A e \in drawn' \ drawn : e.client # c]_vars
  BY StepKeepsRevoked DEF Kept
<1> QED
  BY <1>1, <1>2, <1>3, PTL DEF Spec, RevokedForGood
=============================================================================
