----------------------------- MODULE AccessProofs -----------------------------
(***************************************************************************)
(* Access by email, for any number of clients, threads, emails and one-    *)
(* time passwords: a key has one role, a one-time password is accepted     *)
(* once, an email opens its own sessions only, and a session can be found  *)
(* by its email.  Each holds of requests that keep apart in the way its    *)
(* theorem names; SignerProperties has these conditions.                   *)
(***************************************************************************)
EXTENDS SignerProofs

(* One worker thread has made a step.                                      *)
Moved(h) == DOMAIN task' = Handler /\ \A g \in Handler \ {h} : task'[g] = task[g]

(* Goto moves one thread to the point and locals it names.                 *)
LEMMA GotoMoves ==
  ASSUME Tasks, NEW h \in Handler, NEW t, Goto(h, t)
  PROVE  Moved(h) /\ task'[h] = t
  BY DEF Tasks, Goto, Moved

-----------------------------------------------------------------------------
(* Roles of keys.                                                          *)

(* A request that will write a session for its key acts for a key that is  *)
(* not logging in; one that will store or use options, for a key without a *)
(* session.                                                                *)
Writes(t) == t.pc \in {"commit", "take", "sign", "ecdh", "add", "deactivate_set"}
Enters(t) == t.pc \in {"auth", "otp", "otp_delete", "collect", "grant", "load"}

RoleOf(t) ==
  /\ Writes(t) => t.client \notin DOMAIN logins /\ t.client \notin DOMAIN recoveries
  /\ Enters(t) => /\ t.client \notin DOMAIN sessions
                  /\ t.client \notin DOMAIN logins /\ t.client \notin DOMAIN recoveries
  /\ t.pc = "select" => /\ t.client \notin DOMAIN sessions
                        /\ t.goal = "login" => t.client \notin DOMAIN recoveries
                        /\ t.goal # "login" => t.client \notin DOMAIN logins

RoleInv == KeyRoles /\ \A h \in Handler : RoleOf(task[h])

(* The tables get no key but that of the request.                          *)
GrowsAt(h) ==
  \A c : \/ c \in DOMAIN sessions' /\ c \notin DOMAIN sessions
         \/ c \in DOMAIN logins' /\ c \notin DOMAIN logins
         \/ c \in DOMAIN recoveries' /\ c \notin DOMAIN recoveries
         => Acts(task[h]) /\ c = task[h].client

(* A step of one request gives a role to its own key only, so it takes     *)
(* none from the requests for other keys.                                  *)
LEMMA StepKeepsRoles ==
  ASSUME RoleInv, KeysApart, NEW h \in Handler, Moved(h), GrowsAt(h), KeyRoles',
         RoleOf(task[h])'
  PROVE  RoleInv'
<1>1. ASSUME NEW g \in Handler, g # h
      PROVE  RoleOf(task[g])'
  <2>1. task'[g] = task[g] /\ RoleOf(task[g])
    BY <1>1 DEF Moved, RoleInv
  <2>2. Acts(task[g]) => /\ task[g].client \in DOMAIN sessions' => task[g].client \in DOMAIN sessions
                         /\ task[g].client \in DOMAIN logins' => task[g].client \in DOMAIN logins
                         /\ task[g].client \in DOMAIN recoveries' => task[g].client \in DOMAIN recoveries
    BY <1>1 DEF KeysApart, GrowsAt
  <2>3. Writes(task[g]) \/ Enters(task[g]) \/ task[g].pc = "select" => Acts(task[g])
    BY DEF Writes, Enters, Acts
  <2> QED
    BY <2>1, <2>2, <2>3 DEF RoleOf, Writes, Enters
<1> QED
  BY <1>1 DEF RoleInv

(* Entries that are deleted take no role away from a request.              *)
LEMMA DropsKeepRoles ==
  ASSUME RoleInv, task' = task, DOMAIN sessions' \subseteq DOMAIN sessions,
         DOMAIN logins' \subseteq DOMAIN logins, DOMAIN recoveries' \subseteq DOMAIN recoveries
  PROVE  RoleInv'
  BY DEF RoleInv, KeyRoles, RoleOf, Writes, Enters

(* A step that changes no table.                                           *)
LEMMA MoveKeepsRoles ==
  ASSUME RoleInv, KeysApart, NEW h \in Handler, Moved(h),
         UNCHANGED <<sessions, logins, recoveries>>, RoleOf(task'[h])
  PROVE  RoleInv'
<1>1. RoleOf(task[h])'
  BY DEF RoleOf, Writes, Enters
<1> QED
  BY <1>1, StepKeepsRoles DEF GrowsAt, RoleInv, KeyRoles

(* The same for a step given by the point it goes to.                      *)
LEMMA LocalKeepsRoles ==
  ASSUME RoleInv, KeysApart, Tasks, NEW h \in Handler, NEW t, Goto(h, t),
         UNCHANGED <<sessions, logins, recoveries>>, RoleOf(t)
  PROVE  RoleInv'
  BY GotoMoves, MoveKeepsRoles

(* A thread that serves nobody asks for no role.                           *)
LEMMA IdleHasNoRole == RoleOf(Idle)
  BY DEF RoleOf, Writes, Enters, Idle

(* Signing writes a session back for a key that logs in to nothing, and    *)
(* may bring one back that was deleted.                                    *)
LEMMA SigningKeepsRoles ==
  TypeOK /\ RoleInv /\ KeysApart /\ SigningNext => RoleInv'
<1> SUFFICES ASSUME TypeOK, RoleInv, KeysApart, NEW h \in Handler,
                    \/ \E c \in Client, members \in MemberSets : SignCommit(h, c, members)
                    \/ PushCommit(h)
                    \/ \E c \in Client, req \in Request : SignComplete(h, c, req)
                    \/ TakeCommit(h)
                    \/ FinishSign(h)
                    \/ \E c \in Client : Ecdh(h, c)
                    \/ FinishEcdh(h)
                    \/ Refuse(h)
             PROVE  RoleInv'
  BY DEF SigningNext
<1> USE DEF store, history, authHistory
<1>0. Tasks /\ RoleOf(task[h])
  BY TypeParts DEF RoleInv
<1>1. ASSUME NEW c \in Client, NEW t, t.pc \in {"commit", "take", "ecdh"}, t.client = c,
             Active(c), Goto(h, t), UNCHANGED <<sessions, logins, recoveries>>
      PROVE  RoleInv'
  <2>1. RoleOf(t)
    BY <1>1 DEF Active, RoleInv, KeyRoles, RoleOf, Writes, Enters
  <2> QED
    BY <1>0, <1>1, <2>1, LocalKeepsRoles
<1>2. ASSUME NEW c \in Client, NEW members \in MemberSets, SignCommit(h, c, members)
      PROVE  RoleInv'
  BY <1>1, <1>2 DEF SignCommit
<1>3. ASSUME NEW c \in Client, NEW req \in Request, SignComplete(h, c, req)
      PROVE  RoleInv'
  BY <1>1, <1>3 DEF SignComplete
<1>4. ASSUME NEW c \in Client, Ecdh(h, c)
      PROVE  RoleInv'
  BY <1>1, <1>4 DEF Ecdh
<1>5. CASE TakeCommit(h)
  <2>1. ASSUME NEW t, t.pc = "sign", t.client = task[h].client
        PROVE  RoleOf(t)
    BY <1>0, <1>5, <2>1 DEF TakeCommit, RoleOf, Writes, Enters
  <2> QED
    BY <1>0, <1>5, <2>1, LocalKeepsRoles DEF TakeCommit
<1>6. CASE PushCommit(h) \/ Refuse(h)
  BY <1>0, <1>6, IdleHasNoRole, LocalKeepsRoles DEF PushCommit, Refuse
<1>7. CASE FinishSign(h) \/ FinishEcdh(h)
  <2>1. /\ Moved(h) /\ task'[h] = Idle
        /\ DOMAIN sessions' = DOMAIN sessions \cup {task[h].client}
        /\ UNCHANGED <<logins, recoveries>>
        /\ Acts(task[h]) /\ Writes(task[h])
    <3>1. /\ Goto(h, Idle) /\ task[h].pc \in {"sign", "ecdh"}
          /\ \E s : sessions' = Put(sessions, task[h].client, s)
          /\ UNCHANGED <<logins, recoveries>>
      BY <1>7 DEF FinishSign, FinishEcdh
    <3>2. Moved(h) /\ task'[h] = Idle
      BY <1>0, <3>1, GotoMoves
    <3>3. DOMAIN sessions' = DOMAIN sessions \cup {task[h].client}
      BY <3>1 DEF Put
    <3> QED
      BY <3>1, <3>2, <3>3 DEF Acts, Writes
  <2>2. KeyRoles' /\ GrowsAt(h)
    BY <1>0, <2>1 DEF RoleInv, KeyRoles, RoleOf, GrowsAt
  <2>3. RoleOf(task[h])'
    BY <2>1 DEF RoleOf, Writes, Enters, Idle
  <2> QED
    BY <2>1, <2>2, <2>3, StepKeepsRoles
<1> QED
  BY <1>2, <1>3, <1>4, <1>5, <1>6, <1>7

(* Registration looks for another role of its key before it writes; set-   *)
(* up, deactivation and deletion keep the role a key has.                  *)
LEMMA SessionsKeepRoles ==
  TypeOK /\ RoleInv /\ KeysApart /\ SessionsNext => RoleInv'
<1> SUFFICES ASSUME TypeOK, RoleInv, KeysApart, NEW h \in Handler,
                    \/ \E c \in Client, g \in Group, i \in Idx, r \in Recovery :
                         Register(h, c, g, i, r)
                    \/ \E c \in Client, e \in Email, pw \in Password : RecoverySetup(h, c, e, pw)
                    \/ AddSession(h) \/ IndexGet(h) \/ IndexSet(h)
                    \/ \E pk \in Group, c \in Client : SessionDeactivate(h, pk, c)
                    \/ DeactivateGet(h) \/ DeactivateSet(h)
                    \/ \E pk \in Group, c \in Client : SessionDelete(h, pk, c)
                    \/ DeleteGet(h) \/ UnindexGet(h) \/ UnindexSet(h) \/ RemoveSession(h)
             PROVE  RoleInv'
  BY DEF SessionsNext
<1> USE DEF store, history, authHistory
<1>0. Tasks /\ RoleOf(task[h])
  BY TypeParts DEF RoleInv
<1>1. ASSUME NEW c \in Client, NEW s, Goto(h, [pc |-> "add", client |-> c, session |-> s]),
             c \notin DOMAIN logins, c \notin DOMAIN recoveries,
             UNCHANGED <<sessions, logins, recoveries>>
      PROVE  RoleInv'
  <2>1. RoleOf([pc |-> "add", client |-> c, session |-> s])
    BY <1>1 DEF RoleOf, Writes, Enters
  <2> QED
    BY <1>0, <1>1, <2>1, LocalKeepsRoles
<1>2. ASSUME NEW c \in Client, NEW g \in Group, NEW i \in Idx, NEW r \in Recovery,
             Register(h, c, g, i, r)
      PROVE  RoleInv'
  BY <1>1, <1>2 DEF Register, UnusedKey
<1>3. ASSUME NEW c \in Client, NEW e \in Email, NEW pw \in Password, RecoverySetup(h, c, e, pw)
      PROVE  RoleInv'
  BY <1>1, <1>3 DEF RecoverySetup, RoleInv, KeyRoles
<1> DEFINE Calm(t) == t.pc \notin {"commit", "take", "sign", "ecdh", "add", "deactivate_set",
                                   "auth", "otp", "otp_delete", "collect", "grant", "load",
                                   "select"}
<1>4. ASSUME NEW t, Calm(t), Goto(h, t), UNCHANGED <<sessions, logins, recoveries>>
      PROVE  RoleInv'
  <2>1. RoleOf(t)
    BY <1>4 DEF RoleOf, Writes, Enters
  <2> QED
    BY <1>0, <1>4, <2>1, LocalKeepsRoles
<1>5. CASE AddSession(h) \/ DeactivateSet(h)
  <2>1. PICK t : Goto(h, t) /\ t.pc \in {"idle", "index_get"}
    BY <1>5 DEF AddSession, DeactivateSet, Idle
  <2>2. Moved(h) /\ task'[h] = t
    BY <1>0, <2>1, GotoMoves
  <2>3. /\ DOMAIN sessions' = DOMAIN sessions \cup {task[h].client}
        /\ UNCHANGED <<logins, recoveries>>
        /\ Acts(task[h]) /\ Writes(task[h])
    BY <1>5 DEF AddSession, DeactivateSet, Put, Acts, Writes
  <2>4. KeyRoles' /\ GrowsAt(h)
    BY <1>0, <2>3 DEF RoleInv, KeyRoles, RoleOf, GrowsAt
  <2>5. RoleOf(task[h])'
    BY <2>1, <2>2 DEF RoleOf, Writes, Enters
  <2> QED
    BY <2>2, <2>4, <2>5, StepKeepsRoles
<1>6. CASE IndexGet(h) \/ IndexSet(h)
  BY <1>4, <1>6 DEF IndexGet, IndexSet, Idle
<1>7. ASSUME NEW pk \in Group, NEW c \in Client,
             SessionDeactivate(h, pk, c) \/ SessionDelete(h, pk, c)
      PROVE  RoleInv'
  BY <1>4, <1>7 DEF SessionDeactivate, SessionDelete
<1>8. CASE DeactivateGet(h)
  <2> DEFINE c == task[h].client
             t == [pc |-> "deactivate_set", client |-> c,
                   session |-> [sessions[c] EXCEPT !.deactivated = TRUE]]
  <2>1. CASE c \notin DOMAIN sessions
    BY <1>4, <1>8, <2>1 DEF DeactivateGet, Idle
  <2>2. CASE c \in DOMAIN sessions
    <3>1. RoleOf(t)
      BY <2>2 DEF RoleInv, KeyRoles, RoleOf, Writes, Enters
    <3>2. Goto(h, t) /\ UNCHANGED <<sessions, logins, recoveries>>
      BY <1>8, <2>2 DEF DeactivateGet
    <3> QED
      BY <1>0, <3>1, <3>2, LocalKeepsRoles
  <2> QED
    BY <2>1, <2>2
<1>9. CASE DeleteGet(h) \/ UnindexGet(h) \/ UnindexSet(h)
  <2>1. PICK t : Goto(h, t) /\ t.pc \in {"idle", "remove", "unindex_get", "unindex_set"}
    BY <1>9 DEF DeleteGet, UnindexGet, UnindexSet, Idle
  <2>2. UNCHANGED <<sessions, logins, recoveries>>
    BY <1>9 DEF DeleteGet, UnindexGet, UnindexSet
  <2> QED
    BY <1>4, <2>1, <2>2
<1>10. CASE RemoveSession(h)
  <2>1. Moved(h) /\ task'[h] = Idle
    BY <1>0, <1>10, GotoMoves DEF RemoveSession
  <2>2. DOMAIN sessions' \subseteq DOMAIN sessions /\ UNCHANGED <<logins, recoveries>>
    BY <1>10 DEF RemoveSession, Drop
  <2>3. KeyRoles' /\ GrowsAt(h)
    BY <2>2 DEF RoleInv, KeyRoles, GrowsAt
  <2>4. RoleOf(task[h])'
    BY <2>1 DEF RoleOf, Writes, Enters, Idle
  <2> QED
    BY <2>1, <2>3, <2>4, StepKeepsRoles
<1> QED
  BY <1>2, <1>3, <1>5, <1>6, <1>7, <1>8, <1>9, <1>10

(* A login or a recovery looks for another role first, and what it read of *)
(* its key stays so until it stores options or comes to add_session.       *)
LEMMA AuthKeepsRoles ==
  TypeOK /\ RoleInv /\ KeysApart /\ AuthNext => RoleInv'
<1> SUFFICES ASSUME TypeOK, RoleInv, KeysApart, NEW h \in Handler,
                    \/ \E e \in Email : Challenge(h, e)
                    \/ SendChallenge(h) \/ SkipChallenge(h)
                    \/ \E c \in Client, goal \in Goal, e \in Email, pw \in Password \cup {None},
                          otp \in Otp \cup {None} : Start(h, c, goal, e, pw, otp)
                    \/ AuthIndex(h) \/ OtpGet(h) \/ OtpDelete(h) \/ Collect(h) \/ StoreGrant(h)
                    \/ \E c, target \in Client, goal \in Goal : Select(h, c, goal, target)
                    \/ DeleteGrant(h) \/ Load(h)
             PROVE  RoleInv'
  BY DEF AuthNext
<1> USE DEF store, history, authHistory
<1>0. Tasks /\ RoleOf(task[h]) /\ task[h] \in Task
  BY TypeParts DEF RoleInv, Tasks
<1>2. CASE (\E e \in Email : Challenge(h, e)) \/ SendChallenge(h) \/ SkipChallenge(h)
  <2>1. Moved(h) /\ task'[h].pc \in {"idle", "challenge"}
    <3>1. CASE \E e \in Email : Challenge(h, e)
      BY <1>0, <3>1 DEF Challenge, Goto, Tasks, Moved
    <3>2. CASE SendChallenge(h) \/ SkipChallenge(h)
      BY <1>0, <3>2 DEF SendChallenge, SkipChallenge, Idle, Goto, Tasks, Moved
    <3> QED
      BY <1>2, <3>1, <3>2
  <2>2. UNCHANGED <<sessions, logins, recoveries>>
    BY <1>2 DEF Challenge, SendChallenge, SkipChallenge
  <2> QED
    BY <2>1, <2>2, MoveKeepsRoles DEF RoleOf, Writes, Enters
<1>3. ASSUME NEW c \in Client, NEW goal \in Goal, NEW e \in Email,
             NEW pw \in Password \cup {None}, NEW otp \in Otp \cup {None},
             Start(h, c, goal, e, pw, otp)
      PROVE  RoleInv'
  <2> DEFINE t == [pc |-> "auth", client |-> c, goal |-> goal, email |-> e, password |-> pw,
                   otp |-> otp]
  <2>1. RoleOf(t)
    BY <1>3 DEF Start, UnusedKey, RoleOf, Writes, Enters
  <2>2. Goto(h, t) /\ UNCHANGED <<sessions, logins, recoveries>>
    BY <1>3 DEF Start
  <2> QED
    BY <1>0, <2>1, <2>2, LocalKeepsRoles
<1>4. CASE AuthIndex(h) \/ OtpGet(h) \/ OtpDelete(h) \/ Collect(h)
  <2>1. Enters(task[h])
    BY <1>4 DEF AuthIndex, OtpGet, OtpDelete, Collect, Enters
  <2>2. /\ Moved(h)
        /\ task'[h].pc # "idle" => /\ task'[h].pc \in {"otp", "otp_delete", "collect", "grant"}
                                   /\ task'[h].client = task[h].client
    BY <1>0, <1>4 DEF AuthIndex, OtpGet, OtpDelete, Collect, Idle, Goto, Tasks, Moved
  <2>3. RoleOf(task'[h])
    BY <1>0, <2>1, <2>2 DEF RoleOf, Writes, Enters
  <2>4. UNCHANGED <<sessions, logins, recoveries>>
    BY <1>4 DEF AuthIndex, OtpGet, OtpDelete, Collect
  <2> QED
    BY <2>2, <2>3, <2>4, MoveKeepsRoles
<1>5. CASE StoreGrant(h)
  <2>1. Moved(h) /\ task'[h] = Idle
    BY <1>0, <1>5, GotoMoves DEF StoreGrant
  <2>2. /\ Acts(task[h]) /\ Enters(task[h]) /\ UNCHANGED sessions
        /\ \/ /\ DOMAIN logins' = DOMAIN logins \cup {task[h].client}
              /\ UNCHANGED recoveries
           \/ /\ DOMAIN recoveries' = DOMAIN recoveries \cup {task[h].client}
              /\ UNCHANGED logins
    BY <1>5 DEF StoreGrant, Put, Acts, Enters
  <2>3. KeyRoles' /\ GrowsAt(h)
    BY <1>0, <2>2 DEF RoleInv, KeyRoles, RoleOf, GrowsAt
  <2>4. RoleOf(task[h])'
    BY <2>1 DEF RoleOf, Writes, Enters, Idle
  <2> QED
    BY <2>1, <2>3, <2>4, StepKeepsRoles
<1>6. ASSUME NEW c \in Client, NEW target \in Client, NEW goal \in Goal,
             Select(h, c, goal, target)
      PROVE  RoleInv'
  <2> DEFINE t == [pc |-> "select", client |-> c, goal |-> goal, target |-> target,
                   grant |-> Granted(goal)[c]]
  <2>1. RoleOf(t)
    BY <1>6 DEF Select, Granted, Goal, RoleInv, KeyRoles, RoleOf, Writes, Enters
  <2>2. Goto(h, t) /\ UNCHANGED <<sessions, logins, recoveries>>
    BY <1>6 DEF Select
  <2> QED
    BY <1>0, <2>1, <2>2, LocalKeepsRoles
<1>7. CASE DeleteGrant(h)
  <2>1. /\ Moved(h)
        /\ task'[h].pc # "idle" => task'[h].pc = "load" /\ task'[h].client = task[h].client
    BY <1>0, <1>7 DEF DeleteGrant, Idle, Goto, Tasks, Moved
  <2>3. /\ task[h].pc = "select" /\ UNCHANGED sessions
        /\ \/ /\ task[h].goal = "login" /\ UNCHANGED recoveries
              /\ DOMAIN logins' = DOMAIN logins \ {task[h].client}
           \/ /\ task[h].goal # "login" /\ UNCHANGED logins
              /\ DOMAIN recoveries' = DOMAIN recoveries \ {task[h].client}
    BY <1>7 DEF DeleteGrant, Drop
  <2>4. KeyRoles' /\ GrowsAt(h)
    BY <2>3 DEF RoleInv, KeyRoles, GrowsAt
  <2>5. RoleOf(task[h])'
    BY <1>0, <2>1, <2>3 DEF RoleOf, Writes, Enters
  <2> QED
    BY <2>1, <2>4, <2>5, StepKeepsRoles
<1>8. CASE Load(h)
  <2>1. /\ Moved(h)
        /\ task'[h].pc # "idle" => task'[h].pc = "add" /\ task'[h].client = task[h].client
    BY <1>0, <1>8 DEF Load, Idle, Goto, Tasks, Moved
  <2>2. RoleOf(task'[h])
    BY <1>0, <1>8, <2>1 DEF Load, RoleOf, Writes, Enters
  <2> QED
    BY <1>8, <2>1, <2>2, MoveKeepsRoles DEF Load
<1> QED
  BY <1>2, <1>3, <1>4, <1>5, <1>6, <1>7, <1>8

(* The cleanup task deletes entries, time and restarts create none.        *)
LEMMA BackgroundKeepsRoles ==
  ASSUME TypeOK, RoleInv, Cleanup \/ Environment
  PROVE  RoleInv'
<1> USE DEF store, history, authHistory
<1>1. CASE Cleanup
  <2>1. /\ task' = task /\ DOMAIN sessions' \subseteq DOMAIN sessions
        /\ DOMAIN logins' \subseteq DOMAIN logins
        /\ DOMAIN recoveries' \subseteq DOMAIN recoveries
    BY <1>1 DEF Cleanup, CleanScan, CleanDelete, CleanCommits, Drop
  <2> QED
    BY <2>1, DropsKeepRoles
<1>2. ASSUME NEW c \in Client, AgeSession(c)
      PROVE  RoleInv'
  BY <1>2, DropsKeepRoles DEF AgeSession, Put
<1>3. CASE AgeGrant
  BY <1>3, DropsKeepRoles DEF AgeGrant, Aged, Put
<1>4. CASE \E p \in commits : AgeCommit(p)
  BY <1>4, DropsKeepRoles DEF AgeCommit
<1>5. CASE Restart
  BY <1>5, IdleHasNoRole DEF Restart, RoleInv, KeyRoles, RoleOf, Writes, Enters
<1> QED
  BY <1>1, <1>2, <1>3, <1>4, <1>5 DEF Environment

(* Every step keeps the roles apart.                                       *)
LEMMA RoleStep == TypeOK /\ RoleInv /\ KeysApart /\ [Next]_vars => RoleInv'
<1>1. RoleInv /\ UNCHANGED vars => RoleInv'
  BY DropsKeepRoles DEF vars, store
<1> QED
  BY <1>1, SigningKeepsRoles, SessionsKeepRoles, AuthKeepsRoles, BackgroundKeepsRoles DEF Next

(* The first state has no keys at all.                                     *)
LEMMA InitHasRoles == Init => RoleInv
  BY IdleHasNoRole DEF Init, Empty, RoleInv, KeyRoles

(* As long as no two requests act for one key at a time, no key ever has   *)
(* two of a session, a pending login and a pending recovery, whatever the  *)
(* cleanup and restarts do and although keys are used again.               *)
THEOREM KeysHaveOneRole == Spec /\ []KeysApart => []KeyRoles
<1>1. RoleInv => KeyRoles
  BY DEF RoleInv
<1> QED
  BY <1>1, TypeCorrect, InitHasRoles, RoleStep, PTL DEF Spec

-----------------------------------------------------------------------------
(* One-time passwords.                                                     *)

(* A one-time password that was mailed for the email and is not used.      *)
Outstanding(otp, e) ==
  /\ \E m \in mailed : m.otp = otp /\ m.for = e
  /\ \A r \in redeemed : r.otp # otp

(* What was mailed once is the challenge of one email, or in the hands of  *)
(* the one request that got it, or used.                                   *)
ChallengesOut == \A e \in DOMAIN challenges : Outstanding(challenges[e].otp, e)

GotOut ==
  \A h \in Handler :
    task[h].pc = "otp_delete" /\ task[h].match => Outstanding(task[h].otp, task[h].email)

OtpInv ==
  /\ \A m, n \in mailed : m.otp = n.otp => m = n
  /\ \A r \in redeemed : \E m \in mailed : m.otp = r.otp
  /\ ChallengesOut /\ GotOut
  /\ OtpAcceptedOnce

(* A step that mails and accepts nothing and gets no challenge.            *)
NoOtp ==
  /\ UNCHANGED <<mailed, redeemed>>
  /\ \A e \in DOMAIN challenges' :
       e \in DOMAIN challenges /\ challenges'[e].otp = challenges[e].otp
  /\ \A h \in Handler : task'[h] = task[h] \/ task'[h].pc # "otp_delete"

(* A step that touches nothing of one-time passwords keeps what is known   *)
(* of them.                                                                *)
LEMMA NoOtpKeepsOtps == OtpInv /\ NoOtp => OtpInv'
  BY DEF OtpInv, ChallengesOut, GotOut, Outstanding, OtpAcceptedOnce, NoOtp

(* Signing touches nothing of one-time passwords.                          *)
LEMMA SigningIsNoOtp == Tasks /\ SigningNext => NoOtp
<1> SUFFICES ASSUME Tasks, NEW h \in Handler,
                    \/ \E c \in Client, members \in MemberSets : SignCommit(h, c, members)
                    \/ PushCommit(h)
                    \/ \E c \in Client, req \in Request : SignComplete(h, c, req)
                    \/ TakeCommit(h)
                    \/ FinishSign(h)
                    \/ \E c \in Client : Ecdh(h, c)
                    \/ FinishEcdh(h)
                    \/ Refuse(h)
             PROVE  NoOtp
  BY DEF SigningNext
<1> USE DEF store, history, authHistory, Tasks, Goto, NoOtp, Idle
<1>1. CASE \/ \E c \in Client, members \in MemberSets : SignCommit(h, c, members)
           \/ \E c \in Client, req \in Request : SignComplete(h, c, req)
           \/ \E c \in Client : Ecdh(h, c)
  BY <1>1 DEF SignCommit, SignComplete, Ecdh
<1>2. CASE PushCommit(h) \/ TakeCommit(h)
  BY <1>2 DEF PushCommit, TakeCommit
<1>3. CASE FinishSign(h) \/ FinishEcdh(h) \/ Refuse(h)
  BY <1>3 DEF FinishSign, FinishEcdh, Refuse
<1> QED
  BY <1>1, <1>2, <1>3

(* Nor does anything a session goes through.                               *)
LEMMA SessionsAreNoOtp == Tasks /\ SessionsNext => NoOtp
<1> SUFFICES ASSUME Tasks, SessionsNext PROVE NoOtp
  OBVIOUS
<1> USE DEF store, history, authHistory, Tasks, Goto, NoOtp
<1>1. ASSUME NEW h \in Handler, NEW c \in Client, NEW g \in Group, NEW i \in Idx,
             NEW r \in Recovery, Register(h, c, g, i, r)
      PROVE  NoOtp
  BY <1>1 DEF Register
<1>2. ASSUME NEW h \in Handler, NEW c \in Client, NEW e \in Email, NEW pw \in Password,
             RecoverySetup(h, c, e, pw)
      PROVE  NoOtp
  BY <1>2 DEF RecoverySetup
<1>3. ASSUME NEW h \in Handler, AddSession(h) \/ IndexGet(h) \/ IndexSet(h)
      PROVE  NoOtp
  BY <1>3 DEF AddSession, IndexGet, IndexSet, Idle
<1>4. ASSUME NEW h \in Handler, NEW c \in Client, NEW pk \in Group,
             SessionDeactivate(h, pk, c) \/ SessionDelete(h, pk, c)
      PROVE  NoOtp
  BY <1>4 DEF SessionDeactivate, SessionDelete
<1>5. ASSUME NEW h \in Handler, DeactivateGet(h) \/ DeactivateSet(h)
      PROVE  NoOtp
  BY <1>5 DEF DeactivateGet, DeactivateSet, Idle
<1>6. ASSUME NEW h \in Handler,
             DeleteGet(h) \/ UnindexGet(h) \/ UnindexSet(h) \/ RemoveSession(h)
      PROVE  NoOtp
  BY <1>6 DEF DeleteGet, UnindexGet, UnindexSet, RemoveSession, Idle
<1> QED
  BY <1>1, <1>2, <1>3, <1>4, <1>5, <1>6 DEF SessionsNext

(* The cleanup and a restart only take challenges away, and time only ages *)
(* them.                                                                   *)
LEMMA BackgroundIsNoOtp == Cleanup \/ Environment \/ UNCHANGED vars => NoOtp
<1> USE DEF store, history, authHistory, NoOtp
<1>1. ASSUME NEW table \in Tables, CleanScan(table)
      PROVE  NoOtp
  BY <1>1 DEF CleanScan
<1>2. ASSUME NEW k \in cleaner.keys, CleanDelete(k)
      PROVE  NoOtp
  BY <1>2 DEF CleanDelete, Drop
<1>3. ASSUME NEW c \in Client, AgeSession(c)
      PROVE  NoOtp
  BY <1>3 DEF AgeSession
<1>4. CASE AgeGrant
  <2>1. ASSUME NEW e \in DOMAIN challenges, NEW d \in DOMAIN Aged(challenges, e)
        PROVE  d \in DOMAIN challenges /\ Aged(challenges, e)[d].otp = challenges[d].otp
    BY DEF Aged, Put
  <2> QED
    BY <1>4, <2>1 DEF AgeGrant
<1>5. CASE CleanCommits \/ (\E p \in commits : AgeCommit(p))
  BY <1>5 DEF CleanCommits, AgeCommit
<1>6. CASE Restart
  BY <1>6 DEF Restart, Idle
<1>7. CASE UNCHANGED vars
  BY <1>7 DEF vars
<1> QED
  BY <1>1, <1>2, <1>3, <1>4, <1>5, <1>6, <1>7 DEF Cleanup, Environment

(* A new one-time password was never mailed, so it is nowhere.             *)
LEMMA SendKeepsOtps ==
  ASSUME Tasks, OtpInv, NEW h \in Handler, SendChallenge(h)
  PROVE  OtpInv'
<1> USE DEF store, history, authHistory
<1> PICK e : e = task[h].email
  OBVIOUS
<1> DEFINE mail(otp) == [otp |-> otp, for |-> e, to |-> sessions[task[h].client].email]
<1>1. PICK otp \in Unsent : /\ challenges' = Put(challenges, e, [otp |-> otp, old |-> FALSE])
                            /\ mailed' = mailed \cup {mail(otp)}
  BY DEF SendChallenge
<1>2. \A m \in mailed : m.otp # otp
  BY <1>1 DEF Unsent
<1>3. mail(otp).otp = otp /\ mail(otp).for = e
  OBVIOUS
<1> HIDE DEF mail
<1>4. redeemed' = redeemed
  BY DEF SendChallenge
<1>5. \A r \in redeemed : r.otp # otp
  BY <1>2 DEF OtpInv
<1>6. ChallengesOut'
  <2>1. ASSUME NEW d \in DOMAIN challenges'
        PROVE  \/ d = e /\ challenges'[d].otp = otp
               \/ d \in DOMAIN challenges /\ challenges'[d] = challenges[d]
    BY <1>1 DEF Put
  <2>2. ASSUME NEW d \in DOMAIN challenges'
        PROVE  /\ \E m \in mailed' : m.otp = challenges'[d].otp /\ m.for = d
               /\ \A r \in redeemed' : r.otp # challenges'[d].otp
    <3>1. CASE d = e /\ challenges'[d].otp = otp
      BY <1>1, <1>3, <1>4, <1>5, <3>1
    <3>2. CASE d \in DOMAIN challenges /\ challenges'[d] = challenges[d]
      <4>1. Outstanding(challenges[d].otp, d)
        BY <3>2 DEF OtpInv, ChallengesOut
      <4> QED
        BY <1>1, <1>4, <3>2, <4>1 DEF Outstanding
    <3> QED
      BY <2>1, <3>1, <3>2
  <2> QED
    BY <2>2 DEF ChallengesOut, Outstanding
<1>7. GotOut'
  <2>1. \A g \in Handler : task'[g].pc = "otp_delete" => task'[g] = task[g]
    BY DEF SendChallenge, Goto, Tasks, Idle
  <2> QED
    BY <1>1, <1>4, <2>1 DEF OtpInv, GotOut, Outstanding
<1>8. /\ \A m, n \in mailed' : m.otp = n.otp => m = n
      /\ \A r \in redeemed' : \E m \in mailed' : m.otp = r.otp
      /\ OtpAcceptedOnce'
  BY <1>1, <1>2, <1>3, <1>4 DEF OtpInv, OtpAcceptedOnce
<1> QED
  BY <1>6, <1>7, <1>8 DEF OtpInv

(* The get of a challenge copies it for the one request that will delete   *)
(* it.                                                                     *)
LEMMA GetKeepsOtps ==
  ASSUME Tasks, OtpInv, NEW h \in Handler, OtpGet(h)
  PROVE  OtpInv'
<1> USE DEF store, history, authHistory
<1>1. UNCHANGED <<mailed, redeemed, challenges>>
  BY DEF OtpGet
<1>2. /\ \A g \in Handler \ {h} : task'[g] = task[g]
      /\ task'[h].pc = "otp_delete" /\ task'[h].match =>
           /\ task'[h].email \in DOMAIN challenges
           /\ task'[h].otp = challenges[task'[h].email].otp
  BY DEF OtpGet, Goto, Tasks, Idle
<1> QED
  BY <1>1, <1>2 DEF OtpInv, ChallengesOut, GotOut, Outstanding, OtpAcceptedOnce

(* The only other places of an accepted password would be the challenge of *)
(* its email, which is deleted, or another request that got that.          *)
LEMMA DeleteKeepsOtps ==
  ASSUME Tasks, OtpInv, OtpsApart, NEW h \in Handler, OtpDelete(h)
  PROVE  OtpInv'
<1> USE DEF store, history, authHistory
<1> DEFINE t == task[h]
           new == [otp |-> t.otp, by |-> t.client, goal |-> t.goal, late |-> t.late,
                   again |-> AcceptedBefore(t.otp)]
<1>1. /\ t.pc = "otp_delete" /\ mailed' = mailed
      /\ redeemed' = IF t.match THEN redeemed \cup {new} ELSE redeemed
      /\ \A e \in DOMAIN challenges' :
           e \in DOMAIN challenges /\ e # t.email /\ challenges'[e] = challenges[e]
  BY DEF OtpDelete, Drop
<1>2. \A g \in Handler : task'[g].pc = "otp_delete" => task'[g] = task[g] /\ g # h
  BY DEF OtpDelete, Goto, Tasks, Idle
<1>3. new.otp = t.otp
  OBVIOUS
<1> HIDE DEF new
<1>4. ASSUME NEW o, NEW e, Outstanding(o, e), t.match => e # t.email
      PROVE  \A r \in redeemed' : r.otp # o
  <2>1. t.match => o # t.otp
    BY <1>1, <1>4 DEF OtpInv, GotOut, Outstanding
  <2> QED
    BY <1>1, <1>3, <1>4, <2>1 DEF Outstanding
<1>5. ChallengesOut'
  <2>1. ASSUME NEW e \in DOMAIN challenges'
        PROVE  Outstanding(challenges[e].otp, e) /\ e # t.email /\ challenges'[e] = challenges[e]
    BY <1>1 DEF OtpInv, ChallengesOut
  <2>2. \A e \in DOMAIN challenges' : \A r \in redeemed' : r.otp # challenges[e].otp
    BY <1>4, <2>1
  <2> QED
    BY <1>1, <2>1, <2>2 DEF ChallengesOut, Outstanding
<1>6. GotOut'
  <2> DEFINE Got(g) == g \in Handler /\ task'[g].pc = "otp_delete" /\ task'[g].match
  <2>1. ASSUME NEW g, Got(g)
        PROVE  /\ Outstanding(task[g].otp, task[g].email) /\ task[g].email # t.email
               /\ task'[g] = task[g]
    BY <1>1, <1>2, <2>1 DEF OtpInv, GotOut, OtpsApart
  <2>2. \A g : Got(g) => \A r \in redeemed' : r.otp # task[g].otp
    BY <1>4, <2>1
  <2> QED
    BY <1>1, <2>1, <2>2 DEF GotOut, Outstanding
<1>7. /\ \A m, n \in mailed' : m.otp = n.otp => m = n
      /\ \A r \in redeemed' : \E m \in mailed' : m.otp = r.otp
      /\ OtpAcceptedOnce'
  BY <1>1, <1>3 DEF OtpInv, GotOut, Outstanding, OtpAcceptedOnce
<1> QED
  BY <1>5, <1>6, <1>7 DEF OtpInv

(* The steps of access by email, of which three touch one-time passwords.  *)
LEMMA AuthKeepsOtps ==
  ASSUME Tasks, OtpInv, OtpsApart, AuthNext
  PROVE  OtpInv'
<1> USE DEF store, history, authHistory
<1>1. ASSUME NEW h \in Handler, NEW e \in Email, Challenge(h, e)
      PROVE  NoOtp
  BY <1>1 DEF Challenge, Goto, Tasks, NoOtp
<1>2. ASSUME NEW h \in Handler, NEW c \in Client, NEW goal \in Goal, NEW e \in Email,
             NEW pw \in Password \cup {None}, NEW otp \in Otp \cup {None},
             Start(h, c, goal, e, pw, otp)
      PROVE  NoOtp
  BY <1>2 DEF Start, Goto, Tasks, NoOtp
<1>3. ASSUME NEW h \in Handler, SkipChallenge(h) \/ AuthIndex(h) \/ Collect(h)
      PROVE  NoOtp
  BY <1>3 DEF SkipChallenge, AuthIndex, Collect, Goto, Tasks, Idle, NoOtp
<1>4. ASSUME NEW h \in Handler, NEW c \in Client, NEW target \in Client, NEW goal \in Goal,
             Select(h, c, goal, target)
      PROVE  NoOtp
  BY <1>4 DEF Select, Goto, Tasks, NoOtp
<1>5. ASSUME NEW h \in Handler, StoreGrant(h) \/ DeleteGrant(h) \/ Load(h)
      PROVE  NoOtp
  BY <1>5 DEF StoreGrant, DeleteGrant, Load, Goto, Tasks, Idle, NoOtp
<1> QED
  BY <1>1, <1>2, <1>3, <1>4, <1>5, NoOtpKeepsOtps, SendKeepsOtps, GetKeepsOtps, DeleteKeepsOtps
     DEF AuthNext

(* Every step keeps what is known of one-time passwords.                   *)
LEMMA OtpStep == TypeOK /\ OtpInv /\ OtpsApart /\ [Next]_vars => OtpInv'
<1> SUFFICES ASSUME Tasks, OtpInv, OtpsApart, [Next]_vars PROVE OtpInv'
  BY TypeParts
<1> QED
  BY SigningIsNoOtp, SessionsAreNoOtp, BackgroundIsNoOtp, NoOtpKeepsOtps, AuthKeepsOtps DEF Next

(* The first state has sent none.                                          *)
LEMMA InitHasNoOtps == Init => OtpInv
  BY DEF Init, Empty, Idle, OtpInv, ChallengesOut, GotOut, OtpAcceptedOnce

(* As long as no two requests are between the get and the delete of one    *)
(* email's challenge, a one-time password is accepted once, in any run of  *)
(* challenges, wrong guesses, cleanups and restarts.                       *)
THEOREM OtpsAreAcceptedOnce == Spec /\ []OtpsApart => []OtpAcceptedOnce
<1>1. OtpInv => OtpAcceptedOnce
  BY DEF OtpInv
<1> QED
  BY <1>1, TypeCorrect, InitHasNoOtps, OtpStep, PTL DEF Spec

-----------------------------------------------------------------------------
(* Emails and the keys linked to them.                                     *)

(* A key is linked to an email by its list, by a copy of that list, or by  *)
(* a request that is about to enter it.                                    *)
HasClients(t) == t.pc \in {"index_set", "unindex_set", "otp", "otp_delete", "collect"}

Links(t, c, e) ==
  \/ HasClients(t) /\ t.email = e /\ c \in t.clients
  \/ t.pc \in {"challenge", "index_get"} /\ t.email = e /\ c = t.client

Linked(c, e) == c \in Listed(e) \/ \E h \in Handler : Links(task[h], c, e)

(* Its session and the copies of it are of that email, and it will not be  *)
(* given another.                                                          *)
TiedTask(t, c, e) ==
  /\ Writes(t) /\ t.client = c => t.session.email = e
  /\ Enters(t) \/ t.pc = "select" => t.client # c

Tied(c, e) ==
  /\ c \in usedKeys /\ c \notin DOMAIN logins /\ c \notin DOMAIN recoveries
  /\ c \in DOMAIN sessions => sessions[c].email = e
  /\ \A h \in Handler : TiedTask(task[h], c, e)

KeysUsed ==
  /\ DOMAIN sessions \subseteq usedKeys
  /\ DOMAIN logins \subseteq usedKeys /\ DOMAIN recoveries \subseteq usedKeys
  /\ \A h \in Handler : Acts(task[h]) => task[h].client \in usedKeys

LinkedAreTied == \A c \in Client, e \in Email : Linked(c, e) => Tied(c, e)

OwnInv == KeysUsed /\ LinkedAreTied

(* What a request writes it writes under its own key: options if it is     *)
(* logging in, else its copy of the session.                               *)
OwnWrites(h) ==
  /\ usedKeys \subseteq usedKeys'
  /\ \A c : c \in DOMAIN logins' \/ c \in DOMAIN recoveries' =>
       \/ c \in DOMAIN logins \/ c \in DOMAIN recoveries
       \/ Enters(task[h]) /\ c = task[h].client
  /\ \A c \in DOMAIN sessions' :
       \/ c \in DOMAIN sessions /\ sessions'[c].email = sessions[c].email
       \/ /\ Writes(task[h]) /\ c = task[h].client
          /\ sessions'[c].email = task[h].session.email

(* A request writes under its own key only: a key that is linked to an     *)
(* email stays tied to it if the request leaves it so.                     *)
LEMMA StepKeepsTied ==
  ASSUME OwnInv, NEW h \in Handler, Moved(h), OwnWrites(h),
         NEW c \in Client, NEW e \in Email, Linked(c, e), TiedTask(task'[h], c, e)
  PROVE  Tied(c, e)'
<1>1. Tied(c, e)
  BY DEF OwnInv, LinkedAreTied
<1>2. TiedTask(task[h], c, e)
  BY <1>1 DEF Tied
<1>3. c \in usedKeys' /\ c \notin DOMAIN logins' /\ c \notin DOMAIN recoveries'
  BY <1>1, <1>2 DEF Tied, TiedTask, OwnWrites
<1>4. c \in DOMAIN sessions' => sessions'[c].email = e
  BY <1>1, <1>2 DEF Tied, TiedTask, OwnWrites
<1>5. \A g \in Handler : TiedTask(task'[g], c, e)
  BY <1>1 DEF Tied, Moved
<1> QED
  BY <1>3, <1>4, <1>5 DEF Tied, TiedTask, Writes, Enters

(* Every key a request writes under is in use, and so is every key that    *)
(* has a role.                                                             *)
LEMMA StepKeepsUsed ==
  ASSUME OwnInv, NEW h \in Handler, Moved(h), OwnWrites(h),
         Acts(task'[h]) => task'[h].client \in usedKeys'
  PROVE  KeysUsed'
<1>1. Enters(task[h]) \/ Writes(task[h]) => task[h].client \in usedKeys
  BY DEF OwnInv, KeysUsed, Enters, Writes, Acts
<1>2. \A g \in Handler : Acts(task'[g]) => task'[g].client \in usedKeys'
  BY DEF OwnInv, KeysUsed, Moved, OwnWrites
<1> QED
  BY <1>1, <1>2 DEF OwnInv, KeysUsed, OwnWrites, Acts

(* A step of a request that links no key.                                  *)
LEMMA StepKeepsOwn ==
  ASSUME OwnInv, NEW h \in Handler, Moved(h), OwnWrites(h),
         Acts(task'[h]) => task'[h].client \in usedKeys',
         \A c \in Client, e \in Email : c \in Listed(e)' => Linked(c, e),
         \A c \in Client, e \in Email : Links(task'[h], c, e) => Linked(c, e),
         \A c \in Client, e \in Email : Linked(c, e) => TiedTask(task'[h], c, e)
  PROVE  OwnInv'
<1>1. ASSUME NEW c \in Client, NEW e \in Email, Linked(c, e)'
      PROVE  Linked(c, e)
  <2>1. CASE c \in Listed(e)'
    BY <2>1
  <2>2. CASE \E g \in Handler : Links(task'[g], c, e)
    BY <2>2 DEF Moved, Linked
  <2> QED
    BY <1>1, <2>1, <2>2 DEF Linked, Links, HasClients
<1>2. LinkedAreTied'
  BY <1>1, StepKeepsTied DEF LinkedAreTied
<1> QED
  BY <1>2, StepKeepsUsed DEF OwnInv

(* A step that has nothing to do with lists.                               *)
LEMMA CalmKeepsOwn ==
  ASSUME OwnInv, NEW h \in Handler, Moved(h), OwnWrites(h), UNCHANGED index,
         Acts(task'[h]) => task'[h].client \in usedKeys',
         ~HasClients(task'[h]), task'[h].pc \notin {"challenge", "index_get"},
         \A c \in Client, e \in Email : Linked(c, e) => TiedTask(task'[h], c, e)
  PROVE  OwnInv'
<1>1. \A c \in Client, e \in Email : c \in Listed(e)' => Linked(c, e)
  BY DEF Listed, Linked
<1>2. \A c \in Client, e \in Email : Links(task'[h], c, e) => Linked(c, e)
  BY DEF Links
<1> QED
  BY <1>1, <1>2, StepKeepsOwn

(* What only deletes and ages takes no key out of use and links none.      *)
LEMMA BackgroundKeepsOwn ==
  ASSUME OwnInv, UNCHANGED <<index, usedKeys>>,
         \A h \in Handler : task'[h] = task[h] \/ task'[h] = Idle,
         DOMAIN logins' \subseteq DOMAIN logins, DOMAIN recoveries' \subseteq DOMAIN recoveries,
         \A c \in DOMAIN sessions' :
           c \in DOMAIN sessions /\ sessions'[c].email = sessions[c].email
  PROVE  OwnInv'
<1>1. KeysUsed'
  BY DEF OwnInv, KeysUsed, Acts, Idle
<1>2. ASSUME NEW c \in Client, NEW e \in Email, Linked(c, e)'
      PROVE  Tied(c, e)'
  <2>1. Linked(c, e)
    BY <1>2 DEF Linked, Listed, Links, HasClients, Idle
  <2>2. Tied(c, e)
    BY <2>1 DEF OwnInv, LinkedAreTied
  <2>3. \A h \in Handler : TiedTask(task'[h], c, e)
    BY <2>2 DEF Tied, TiedTask, Writes, Enters, Idle
  <2> QED
    BY <2>2, <2>3 DEF Tied, TiedTask, Writes, Enters
<1> QED
  BY <1>1, <1>2 DEF OwnInv, LinkedAreTied

(* Signing writes back a copy with the email of the session it read.       *)
LEMMA SigningKeepsOwn ==
  TypeOK /\ OwnInv /\ SigningNext => OwnInv'
<1> SUFFICES ASSUME TypeOK, OwnInv, NEW h \in Handler,
                    \/ \E c \in Client, members \in MemberSets : SignCommit(h, c, members)
                    \/ PushCommit(h)
                    \/ \E c \in Client, req \in Request : SignComplete(h, c, req)
                    \/ TakeCommit(h)
                    \/ FinishSign(h)
                    \/ \E c \in Client : Ecdh(h, c)
                    \/ FinishEcdh(h)
                    \/ Refuse(h)
             PROVE  OwnInv'
  BY DEF SigningNext
<1> USE DEF store, history, authHistory
<1>0. Tasks /\ Rest
  BY TypeParts
<1>1. ASSUME NEW c \in Client, NEW t, t.pc \in {"commit", "take", "ecdh"}, t.client = c,
             t.session = sessions[c], Active(c), Goto(h, t),
             UNCHANGED <<sessions, logins, recoveries, index, usedKeys>>
      PROVE  OwnInv'
  <2>1. Moved(h) /\ task'[h] = t
    BY <1>0, <1>1, GotoMoves
  <2>2. OwnWrites(h)
    BY <1>1 DEF OwnWrites
  <2>3. \A e \in Email : Linked(c, e) => t.session.email = e
    BY <1>1 DEF OwnInv, LinkedAreTied, Tied, Active
  <2>4. \A d \in Client, e \in Email : Linked(d, e) => TiedTask(task'[h], d, e)
    BY <1>1, <2>1, <2>3 DEF TiedTask, Enters
  <2>5. c \in usedKeys'
    BY <1>1 DEF Active, OwnInv, KeysUsed
  <2> QED
    BY <1>1, <2>1, <2>2, <2>4, <2>5, CalmKeepsOwn DEF HasClients
<1>2. ASSUME NEW c \in Client, NEW members \in MemberSets, SignCommit(h, c, members)
      PROVE  OwnInv'
  BY <1>1, <1>2 DEF SignCommit
<1>3. ASSUME NEW c \in Client, NEW req \in Request, SignComplete(h, c, req)
      PROVE  OwnInv'
  BY <1>1, <1>3 DEF SignComplete
<1>4. ASSUME NEW c \in Client, Ecdh(h, c)
      PROVE  OwnInv'
  BY <1>1, <1>4 DEF Ecdh
<1>5. CASE TakeCommit(h)
  <2>1. /\ Moved(h) /\ task[h].pc = "take" /\ task'[h].pc = "sign"
        /\ task'[h].client = task[h].client /\ task'[h].session = task[h].session
    BY <1>0, <1>5 DEF TakeCommit, Tasks, Goto, Moved
  <2>2. OwnWrites(h) /\ UNCHANGED <<index, usedKeys>>
    BY <1>5 DEF TakeCommit, OwnWrites
  <2>3. \A d \in Client, e \in Email : Linked(d, e) => TiedTask(task'[h], d, e)
    BY <2>1 DEF OwnInv, LinkedAreTied, Tied, TiedTask, Writes, Enters
  <2>4. task'[h].client \in usedKeys'
    BY <2>1, <2>2 DEF OwnInv, KeysUsed, Acts
  <2> QED
    BY <2>1, <2>2, <2>3, <2>4, CalmKeepsOwn DEF HasClients
<1>6. CASE PushCommit(h) \/ FinishSign(h) \/ FinishEcdh(h) \/ Refuse(h)
  <2>1. Goto(h, Idle) /\ UNCHANGED <<logins, recoveries, index, usedKeys>>
    BY <1>6 DEF PushCommit, FinishSign, FinishEcdh, Refuse
  <2>2. Moved(h) /\ task'[h] = Idle
    BY <1>0, <2>1, GotoMoves
  <2>3. OwnWrites(h)
    <3>1. CASE PushCommit(h) \/ Refuse(h)
      BY <2>1, <3>1 DEF PushCommit, Refuse, OwnWrites
    <3>2. CASE FinishSign(h) \/ FinishEcdh(h)
      <4>1. task[h].pc \in {"sign", "ecdh"} /\ task[h].session \in SignerSession
        BY <1>0, <3>2, SigningShape DEF FinishSign, FinishEcdh, Tasks
      <4>2. Touched(task[h].session).email = task[h].session.email
        BY <4>1 DEF Touched, SignerSession
      <4>3. sessions' = Put(sessions, task[h].client, Touched(task[h].session))
        BY <3>2 DEF FinishSign, FinishEcdh
      <4> QED
        BY <2>1, <4>1, <4>2, <4>3 DEF OwnWrites, Put, Writes
    <3> QED
      BY <1>6, <3>1, <3>2
  <2>4. \A d \in Client, e \in Email : TiedTask(Idle, d, e)
    BY DEF TiedTask, Writes, Enters, Idle
  <2> QED
    BY <2>1, <2>2, <2>3, <2>4, CalmKeepsOwn DEF HasClients, Acts, Idle
<1> QED
  BY <1>2, <1>3, <1>4, <1>5, <1>6

(* A key that was never used is not linked.                                *)
LEMMA FreshIsNotLinked ==
  ASSUME OwnInv, KeyReuse = FALSE, NEW c \in Client, MayOpen(c)
  PROVE  \A e \in Email : ~Linked(c, e)
  BY DEF OwnInv, LinkedAreTied, Tied, MayOpen

(* The write that links a key to an email: add_session, before it turns to *)
(* the list.                                                               *)
LEMMA AddKeepsOwn ==
  ASSUME TypeOK, OwnInv, RoleInv, KeysApart, NEW h \in Handler, AddSession(h)
  PROVE  OwnInv'
<1> USE DEF store, history, authHistory
<1> PICK c : c = task[h].client
  OBVIOUS
<1> PICK s : s = task[h].session
  OBVIOUS
<1>0. Tasks /\ Rest
  BY TypeParts
<1>1. /\ task[h].pc = "add" /\ c \in Client /\ s \in SignerSession
      /\ sessions' = Put(sessions, c, s)
      /\ UNCHANGED <<logins, recoveries, index, usedKeys>>
  BY <1>0, SessionShape DEF AddSession, Tasks
<1>2. OwnWrites(h)
  BY <1>1 DEF OwnWrites, Put, Writes
<1>3. CASE s.email = None
  <2>1. Moved(h) /\ task'[h] = Idle
    BY <1>0, <1>3, GotoMoves DEF AddSession
  <2>2. \A d \in Client, e \in Email : TiedTask(Idle, d, e)
    BY DEF TiedTask, Writes, Enters, Idle
  <2> QED
    BY <1>1, <1>2, <2>1, <2>2, CalmKeepsOwn DEF HasClients, Acts, Idle
<1>4. CASE s.email # None
  <2> DEFINE t == [pc |-> "index_get", client |-> c, email |-> s.email]
  <2>1. Moved(h) /\ task'[h] = t
    BY <1>0, <1>4, GotoMoves DEF AddSession
  <2>2. c \in usedKeys
    BY <1>1 DEF OwnInv, KeysUsed, Acts
  <2>3. KeysUsed'
    BY <1>1, <1>2, <2>1, <2>2, StepKeepsUsed
  <2>4. \A d \in Client, e \in Email : TiedTask(task'[h], d, e)
    BY <2>1 DEF TiedTask, Writes, Enters
  <2>5. ASSUME NEW d \in Client, NEW e \in Email, Linked(d, e)'
        PROVE  Linked(d, e) \/ (d = c /\ e = s.email)
    <3>1. CASE d \in Listed(e)'
      BY <1>1, <3>1 DEF Listed, Linked
    <3>2. CASE \E g \in Handler : Links(task'[g], d, e)
      BY <2>1, <3>2 DEF Moved, Linked, Links, HasClients
    <3> QED
      BY <2>5, <3>1, <3>2 DEF Linked, Links, HasClients
  <2>6. Tied(c, s.email)'
    <3>1. c \notin DOMAIN logins /\ c \notin DOMAIN recoveries
      BY <1>1 DEF RoleInv, RoleOf, Writes
    <3>2. sessions'[c] = s
      BY <1>1 DEF Put
    <3>3. \A g \in Handler : TiedTask(task'[g], c, s.email)
      <4>1. ASSUME NEW g \in Handler, g # h
            PROVE  task'[g] = task[g] /\ (Acts(task[g]) => task[g].client # c)
        BY <1>1, <2>1, <4>1 DEF Moved, KeysApart, Acts
      <4>2. \A g \in Handler : Writes(task[g]) \/ Enters(task[g]) \/ task[g].pc = "select"
                                 => Acts(task[g])
        BY DEF Writes, Enters, Acts
      <4>3. TiedTask(task'[h], c, s.email)
        BY <2>1 DEF TiedTask, Writes, Enters
      <4> QED
        BY <4>1, <4>2, <4>3 DEF TiedTask
    <3> QED
      BY <1>1, <2>2, <3>1, <3>2, <3>3 DEF Tied, TiedTask, Writes, Enters
  <2>7. ASSUME NEW d \in Client, NEW e \in Email, Linked(d, e)'
        PROVE  Tied(d, e)'
    BY <1>2, <2>1, <2>4, <2>5, <2>6, <2>7, StepKeepsTied
  <2> QED
    BY <2>3, <2>7 DEF OwnInv, LinkedAreTied
<1> QED
  BY <1>3, <1>4

(* The handlers of a session tie a key once, in add_session, and link it   *)
(* after.                                                                  *)
LEMMA SessionsKeepOwn ==
  TypeOK /\ OwnInv /\ RoleInv /\ KeysApart /\ KeyReuse = FALSE /\ SessionsNext => OwnInv'
<1> SUFFICES ASSUME TypeOK, OwnInv, RoleInv, KeysApart, KeyReuse = FALSE, NEW h \in Handler,
                    \/ \E c \in Client, g \in Group, i \in Idx, r \in Recovery :
                         Register(h, c, g, i, r)
                    \/ \E c \in Client, e \in Email, pw \in Password : RecoverySetup(h, c, e, pw)
                    \/ AddSession(h) \/ IndexGet(h) \/ IndexSet(h)
                    \/ \E pk \in Group, c \in Client : SessionDeactivate(h, pk, c)
                    \/ DeactivateGet(h) \/ DeactivateSet(h)
                    \/ \E pk \in Group, c \in Client : SessionDelete(h, pk, c)
                    \/ DeleteGet(h) \/ UnindexGet(h) \/ UnindexSet(h) \/ RemoveSession(h)
             PROVE  OwnInv'
  BY DEF SessionsNext
<1> USE DEF store, history, authHistory
<1>0. Tasks /\ Rest
  BY TypeParts
<1>1. ASSUME NEW c \in Client, NEW g \in Group, NEW i \in Idx, NEW r \in Recovery,
             Register(h, c, g, i, r)
      PROVE  OwnInv'
  <2>1. Moved(h) /\ task'[h].pc = "add" /\ task'[h].client = c
    BY <1>0, <1>1 DEF Register, Tasks, Goto, Moved
  <2>2. OwnWrites(h) /\ c \in usedKeys' /\ UNCHANGED index
    BY <1>1 DEF Register, OwnWrites
  <2>3. \A d \in Client, e \in Email : Linked(d, e) => TiedTask(task'[h], d, e)
    BY <1>1, <2>1, FreshIsNotLinked DEF Register, TiedTask, Enters
  <2> QED
    BY <2>1, <2>2, <2>3, CalmKeepsOwn DEF HasClients
<1>2. ASSUME NEW c \in Client, NEW e \in Email, NEW pw \in Password, RecoverySetup(h, c, e, pw)
      PROVE  OwnInv'
  <2>1. Moved(h) /\ task'[h].pc = "add" /\ task'[h].client = c
    BY <1>0, <1>2 DEF RecoverySetup, Tasks, Goto, Moved
  <2>2. OwnWrites(h) /\ c \in usedKeys' /\ UNCHANGED index
    BY <1>2 DEF RecoverySetup, OwnWrites, OwnInv, KeysUsed
  <2>3. \A d \in Email : ~Linked(c, d)
    BY <1>2, NoneAssumption DEF RecoverySetup, OwnInv, LinkedAreTied, Tied
  <2>4. \A b \in Client, d \in Email : Linked(b, d) => TiedTask(task'[h], b, d)
    BY <2>1, <2>3 DEF TiedTask, Enters
  <2> QED
    BY <2>1, <2>2, <2>4, CalmKeepsOwn DEF HasClients
<1>3. CASE AddSession(h)
  BY <1>3, AddKeepsOwn
<1>4. CASE IndexGet(h)
  <2>1. /\ Moved(h) /\ task[h].pc = "index_get" /\ task'[h].pc = "index_set"
        /\ task'[h].client = task[h].client /\ task'[h].email = task[h].email
        /\ task'[h].clients = Listed(task[h].email) \cup {task[h].client}
    BY <1>0, <1>4 DEF IndexGet, Tasks, Goto, Moved
  <2>2. OwnWrites(h) /\ UNCHANGED <<index, usedKeys>>
    BY <1>4 DEF IndexGet, OwnWrites
  <2>3. \A c \in Client, e \in Email : c \in Listed(e)' => Linked(c, e)
    BY <2>2 DEF Listed, Linked
  <2>4. \A c \in Client, e \in Email : Links(task'[h], c, e) => Linked(c, e)
    BY <2>1 DEF Links, HasClients, Linked
  <2>5. \A c \in Client, e \in Email : TiedTask(task'[h], c, e)
    BY <2>1 DEF TiedTask, Writes, Enters
  <2>6. task'[h].client \in usedKeys'
    BY <2>1, <2>2 DEF OwnInv, KeysUsed, Acts
  <2> QED
    BY <2>1, <2>2, <2>3, <2>4, <2>5, <2>6, StepKeepsOwn
<1>5. CASE IndexSet(h)
  <2>1. Moved(h) /\ task'[h] = Idle /\ task[h].pc = "index_set"
    BY <1>0, <1>5, GotoMoves DEF IndexSet
  <2>2. OwnWrites(h)
    BY <1>5 DEF IndexSet, OwnWrites
  <2>3. \A c \in Client, e \in Email : c \in Listed(e)' => Linked(c, e)
    BY <1>5 DEF IndexSet, Put, Listed, Linked, Links, HasClients
  <2>4. \A c \in Client, e \in Email : ~Links(Idle, c, e) /\ TiedTask(Idle, c, e)
    BY DEF Links, HasClients, TiedTask, Writes, Enters, Idle
  <2> QED
    BY <2>1, <2>2, <2>3, <2>4, StepKeepsOwn DEF Acts, Idle
<1>6. ASSUME NEW pk \in Group, NEW c \in Client,
             SessionDeactivate(h, pk, c) \/ SessionDelete(h, pk, c)
      PROVE  OwnInv'
  <2>1. Moved(h) /\ task'[h].pc \in {"deactivate", "delete"} /\ task'[h].client = c
    BY <1>0, <1>6 DEF SessionDeactivate, SessionDelete, Tasks, Goto, Moved
  <2>2. OwnWrites(h) /\ c \in usedKeys' /\ UNCHANGED index
    BY <1>6 DEF SessionDeactivate, SessionDelete, OwnWrites, OwnInv, KeysUsed
  <2>3. \A d \in Client, e \in Email : TiedTask(task'[h], d, e)
    BY <2>1 DEF TiedTask, Writes, Enters
  <2> QED
    BY <2>1, <2>2, <2>3, CalmKeepsOwn DEF HasClients
<1>7. CASE DeactivateGet(h)
  <2>1. /\ Moved(h) /\ task[h].pc = "deactivate"
        /\ \/ task'[h] = Idle
           \/ /\ task[h].client \in DOMAIN sessions /\ task'[h].pc = "deactivate_set"
              /\ task'[h].client = task[h].client
              /\ task'[h].session = [sessions[task[h].client] EXCEPT !.deactivated = TRUE]
    BY <1>0, <1>7 DEF DeactivateGet, Tasks, Goto, Moved
  <2>2. OwnWrites(h) /\ UNCHANGED <<index, usedKeys>>
    BY <1>7 DEF DeactivateGet, OwnWrites
  <2>3. task[h].client \in usedKeys
    BY <2>1 DEF OwnInv, KeysUsed, Acts
  <2>4. \A c \in DOMAIN sessions :
          [sessions[c] EXCEPT !.deactivated = TRUE].email = sessions[c].email
    BY <1>0 DEF Rest, Table, SignerSession
  <2>5. \A c \in Client, e \in Email : Linked(c, e) => TiedTask(task'[h], c, e)
    <3>1. CASE task'[h] = Idle
      BY <3>1 DEF TiedTask, Writes, Enters, Idle
    <3>2. CASE task'[h] # Idle
      <4>1. ASSUME NEW c \in Client, NEW e \in Email, Linked(c, e), c = task[h].client
            PROVE  task'[h].session.email = e
        <5>1. c \in DOMAIN sessions /\ task'[h].session.email = sessions[c].email
          BY <2>1, <2>4, <3>2, <4>1
        <5>2. Tied(c, e)
          BY <4>1 DEF OwnInv, LinkedAreTied
        <5> QED
          BY <5>1, <5>2 DEF Tied
      <4> QED
        BY <2>1, <3>2, <4>1 DEF TiedTask, Enters
    <3> QED
      BY <3>1, <3>2
  <2> QED
    BY <2>1, <2>2, <2>3, <2>5, CalmKeepsOwn DEF HasClients, Acts, Idle
<1>8. CASE DeactivateSet(h)
  <2>1. Moved(h) /\ task'[h] = Idle
    BY <1>0, <1>8, GotoMoves DEF DeactivateSet
  <2>2. OwnWrites(h) /\ UNCHANGED index
    BY <1>8 DEF DeactivateSet, OwnWrites, Put, Writes
  <2>3. \A c \in Client, e \in Email : TiedTask(Idle, c, e)
    BY DEF TiedTask, Writes, Enters, Idle
  <2> QED
    BY <2>1, <2>2, <2>3, CalmKeepsOwn DEF HasClients, Acts, Idle
<1>9. CASE DeleteGet(h)
  <2>1. /\ Moved(h) /\ task[h].pc = "delete"
        /\ \/ task'[h].pc = "idle"
           \/ task'[h].pc \in {"remove", "unindex_get"} /\ task'[h].client = task[h].client
    BY <1>0, <1>9 DEF DeleteGet, Tasks, Goto, Moved, Idle
  <2>2. OwnWrites(h) /\ UNCHANGED <<index, usedKeys>>
    BY <1>9 DEF DeleteGet, OwnWrites
  <2>3. task[h].client \in usedKeys
    BY <2>1 DEF OwnInv, KeysUsed, Acts
  <2>4. \A c \in Client, e \in Email : TiedTask(task'[h], c, e)
    BY <2>1 DEF TiedTask, Writes, Enters
  <2> QED
    BY <2>1, <2>2, <2>3, <2>4, CalmKeepsOwn DEF HasClients, Acts
<1>10. CASE UnindexGet(h)
  <2>1. /\ Moved(h) /\ task[h].pc = "unindex_get" /\ task'[h].client = task[h].client
        /\ \/ task'[h].pc = "remove"
           \/ /\ task'[h].pc = "unindex_set" /\ task'[h].email = task[h].email
              /\ task'[h].clients \subseteq Listed(task[h].email)
    BY <1>0, <1>10 DEF UnindexGet, Listed, Tasks, Goto, Moved
  <2>2. OwnWrites(h) /\ UNCHANGED <<index, usedKeys>>
    BY <1>10 DEF UnindexGet, OwnWrites
  <2>3. \A c \in Client, e \in Email : c \in Listed(e)' => Linked(c, e)
    BY <2>2 DEF Listed, Linked
  <2>4. \A c \in Client, e \in Email : Links(task'[h], c, e) => Linked(c, e)
    BY <2>1 DEF Links, HasClients, Linked
  <2>5. \A c \in Client, e \in Email : TiedTask(task'[h], c, e)
    BY <2>1 DEF TiedTask, Writes, Enters
  <2>6. task'[h].client \in usedKeys'
    BY <2>1, <2>2 DEF OwnInv, KeysUsed, Acts
  <2> QED
    BY <2>1, <2>2, <2>3, <2>4, <2>5, <2>6, StepKeepsOwn
<1>11. CASE UnindexSet(h)
  <2>1. /\ Moved(h) /\ task[h].pc = "unindex_set"
        /\ task'[h].pc = "remove" /\ task'[h].client = task[h].client
    BY <1>0, <1>11 DEF UnindexSet, Tasks, Goto, Moved
  <2>2. OwnWrites(h) /\ UNCHANGED usedKeys
    BY <1>11 DEF UnindexSet, OwnWrites
  <2>3. \A c \in Client, e \in Email : c \in Listed(e)' => Linked(c, e)
    BY <1>11 DEF UnindexSet, Put, Drop, Listed, Linked, Links, HasClients
  <2>4. \A c \in Client, e \in Email : ~Links(task'[h], c, e) /\ TiedTask(task'[h], c, e)
    BY <2>1 DEF Links, HasClients, TiedTask, Writes, Enters
  <2>5. task'[h].client \in usedKeys'
    BY <2>1, <2>2 DEF OwnInv, KeysUsed, Acts
  <2> QED
    BY <2>1, <2>2, <2>3, <2>4, <2>5, StepKeepsOwn
<1>12. CASE RemoveSession(h)
  <2>1. Moved(h) /\ task'[h] = Idle
    BY <1>0, <1>12, GotoMoves DEF RemoveSession
  <2>2. OwnWrites(h) /\ UNCHANGED index
    BY <1>12 DEF RemoveSession, OwnWrites, Drop
  <2>3. \A c \in Client, e \in Email : TiedTask(Idle, c, e)
    BY DEF TiedTask, Writes, Enters, Idle
  <2> QED
    BY <2>1, <2>2, <2>3, CalmKeepsOwn DEF HasClients, Acts, Idle
<1> QED
  BY <1>1, <1>2, <1>3, <1>4, <1>5, <1>6, <1>7, <1>8, <1>9, <1>10, <1>11, <1>12

(* A login copies the session of another key to one never used before.     *)
LEMMA AuthKeepsOwn ==
  TypeOK /\ OwnInv /\ KeyReuse = FALSE /\ AuthNext => OwnInv'
<1> SUFFICES ASSUME TypeOK, OwnInv, KeyReuse = FALSE, NEW h \in Handler,
                    \/ \E e \in Email : Challenge(h, e)
                    \/ SendChallenge(h) \/ SkipChallenge(h)
                    \/ \E c \in Client, goal \in Goal, e \in Email, pw \in Password \cup {None},
                          otp \in Otp \cup {None} : Start(h, c, goal, e, pw, otp)
                    \/ AuthIndex(h) \/ OtpGet(h) \/ OtpDelete(h) \/ Collect(h) \/ StoreGrant(h)
                    \/ \E c, target \in Client, goal \in Goal : Select(h, c, goal, target)
                    \/ DeleteGrant(h) \/ Load(h)
             PROVE  OwnInv'
  BY DEF AuthNext
<1> USE DEF store, history, authHistory
<1>0. Tasks /\ Rest
  BY TypeParts
<1>1. ASSUME NEW e \in Email, Challenge(h, e)
      PROVE  OwnInv'
  <2>1. /\ Moved(h) /\ task'[h].pc = "challenge" /\ task'[h].email = e
        /\ task'[h].client \in Listed(e)
    BY <1>0, <1>1 DEF Challenge, Listed, Tasks, Goto, Moved
  <2>2. OwnWrites(h) /\ UNCHANGED index
    BY <1>1 DEF Challenge, OwnWrites
  <2>3. \A c \in Client, d \in Email : c \in Listed(d)' => Linked(c, d)
    BY <2>2 DEF Listed, Linked
  <2>4. \A c \in Client, d \in Email : Links(task'[h], c, d) => Linked(c, d)
    BY <2>1 DEF Links, HasClients, Linked
  <2>5. \A c \in Client, d \in Email : TiedTask(task'[h], c, d)
    BY <2>1 DEF TiedTask, Writes, Enters
  <2> QED
    BY <2>1, <2>2, <2>3, <2>4, <2>5, StepKeepsOwn DEF Acts
<1>2. CASE SendChallenge(h) \/ SkipChallenge(h)
  <2>1. Moved(h) /\ task'[h] = Idle
    BY <1>0, <1>2, GotoMoves DEF SendChallenge, SkipChallenge
  <2>2. OwnWrites(h) /\ UNCHANGED index
    BY <1>2 DEF SendChallenge, SkipChallenge, OwnWrites
  <2>3. \A c \in Client, e \in Email : TiedTask(Idle, c, e)
    BY DEF TiedTask, Writes, Enters, Idle
  <2> QED
    BY <2>1, <2>2, <2>3, CalmKeepsOwn DEF HasClients, Acts, Idle
<1>3. ASSUME NEW c \in Client, NEW goal \in Goal, NEW e \in Email,
             NEW pw \in Password \cup {None}, NEW otp \in Otp \cup {None},
             Start(h, c, goal, e, pw, otp)
      PROVE  OwnInv'
  <2>1. Moved(h) /\ task'[h].pc = "auth" /\ task'[h].client = c
    BY <1>0, <1>3 DEF Start, Tasks, Goto, Moved
  <2>2. OwnWrites(h) /\ c \in usedKeys' /\ UNCHANGED index
    BY <1>3 DEF Start, OwnWrites
  <2>3. \A b \in Client, d \in Email : Linked(b, d) => TiedTask(task'[h], b, d)
    BY <1>3, <2>1, FreshIsNotLinked DEF Start, TiedTask, Writes
  <2> QED
    BY <2>1, <2>2, <2>3, CalmKeepsOwn DEF HasClients
<1>4. CASE AuthIndex(h) \/ OtpGet(h) \/ OtpDelete(h) \/ Collect(h)
  <2>1. /\ Moved(h) /\ Enters(task[h])
        /\ task'[h].pc # "idle" => /\ task'[h].pc \in {"otp", "otp_delete", "collect", "grant"}
                                   /\ task'[h].client = task[h].client
    BY <1>0, <1>4
       DEF AuthIndex, OtpGet, OtpDelete, Collect, Idle, Goto, Tasks, Moved, Enters
  <2>2. OwnWrites(h) /\ UNCHANGED <<index, usedKeys>>
    BY <1>4 DEF AuthIndex, OtpGet, OtpDelete, Collect, OwnWrites
  <2>3. \A c \in Client, e \in Email : c \in Listed(e)' => Linked(c, e)
    BY <2>2 DEF Listed, Linked
  <2>4. HasClients(task'[h]) =>
          /\ task'[h].email = task[h].email
          /\ \/ task'[h].clients = Listed(task[h].email)
             \/ HasClients(task[h]) /\ task'[h].clients = task[h].clients
    <3>1. CASE AuthIndex(h)
      BY <1>0, <3>1 DEF AuthIndex, Listed, Idle, Goto, Tasks, HasClients
    <3>2. CASE OtpGet(h) \/ OtpDelete(h) \/ Collect(h)
      BY <1>0, <3>2 DEF OtpGet, OtpDelete, Collect, Idle, Goto, Tasks, HasClients
    <3> QED
      BY <1>4, <3>1, <3>2
  <2>5. \A c \in Client, e \in Email : Links(task'[h], c, e) => Linked(c, e)
    BY <2>1, <2>4 DEF Links, Linked
  <2>6. \A c \in Client, e \in Email : Linked(c, e) => TiedTask(task'[h], c, e)
    BY <2>1 DEF OwnInv, LinkedAreTied, Tied, TiedTask, Writes, Enters
  <2>7. Acts(task'[h]) => task'[h].client \in usedKeys'
    BY <2>1, <2>2 DEF OwnInv, KeysUsed, Acts, Enters
  <2> QED
    BY <2>1, <2>2, <2>3, <2>5, <2>6, <2>7, StepKeepsOwn
<1>5. CASE StoreGrant(h)
  <2>1. Moved(h) /\ task'[h] = Idle
    BY <1>0, <1>5, GotoMoves DEF StoreGrant
  <2>2. OwnWrites(h) /\ UNCHANGED index
    BY <1>5 DEF StoreGrant, OwnWrites, Put, Enters
  <2>3. \A c \in Client, e \in Email : TiedTask(Idle, c, e)
    BY DEF TiedTask, Writes, Enters, Idle
  <2> QED
    BY <2>1, <2>2, <2>3, CalmKeepsOwn DEF HasClients, Acts, Idle
<1>6. ASSUME NEW c \in Client, NEW target \in Client, NEW goal \in Goal,
             Select(h, c, goal, target)
      PROVE  OwnInv'
  <2>1. Moved(h) /\ task'[h].pc = "select" /\ task'[h].client = c
    BY <1>0, <1>6 DEF Select, Tasks, Goto, Moved
  <2>2. OwnWrites(h) /\ UNCHANGED <<index, usedKeys>>
    BY <1>6 DEF Select, OwnWrites
  <2>3. c \in DOMAIN logins \/ c \in DOMAIN recoveries
    BY <1>6 DEF Select, Granted
  <2>4. \A d \in Client, e \in Email : Linked(d, e) => TiedTask(task'[h], d, e)
    BY <2>1, <2>3 DEF OwnInv, LinkedAreTied, Tied, TiedTask, Writes
  <2>5. c \in usedKeys'
    BY <2>2, <2>3 DEF OwnInv, KeysUsed
  <2> QED
    BY <2>1, <2>2, <2>4, <2>5, CalmKeepsOwn DEF HasClients
<1>7. CASE DeleteGrant(h) \/ Load(h)
  <2>1. /\ Moved(h) /\ task[h].pc \in {"select", "load"}
        /\ task'[h].pc # "idle" => /\ task'[h].pc \in {"load", "add"}
                                   /\ task'[h].client = task[h].client
    BY <1>0, <1>7 DEF DeleteGrant, Load, Idle, Goto, Tasks, Moved
  <2>2. OwnWrites(h) /\ UNCHANGED <<index, usedKeys>>
    BY <1>7 DEF DeleteGrant, Load, OwnWrites, Drop
  <2>3. \A c \in Client, e \in Email : Linked(c, e) => TiedTask(task'[h], c, e)
    BY <2>1 DEF OwnInv, LinkedAreTied, Tied, TiedTask, Writes, Enters
  <2>4. Acts(task'[h]) => task'[h].client \in usedKeys'
    BY <2>1, <2>2 DEF OwnInv, KeysUsed, Acts
  <2> QED
    BY <2>1, <2>2, <2>3, <2>4, CalmKeepsOwn DEF HasClients
<1> QED
  BY <1>1, <1>2, <1>3, <1>4, <1>5, <1>6, <1>7

(* What runs beside the requests deletes entries or marks them as old.     *)
LEMMA BackgroundOnlyAges ==
  ASSUME TypeOK, Cleanup \/ Environment \/ UNCHANGED vars
  PROVE  /\ UNCHANGED <<index, usedKeys, mailed, opened>>
         /\ \A h \in Handler : task'[h] = task[h] \/ task'[h] = Idle
         /\ DOMAIN logins' \subseteq DOMAIN logins
         /\ DOMAIN recoveries' \subseteq DOMAIN recoveries
         /\ \A c \in DOMAIN sessions' :
              c \in DOMAIN sessions /\ sessions'[c].email = sessions[c].email
<1> USE DEF store, history, authHistory
<1>1. ASSUME NEW table \in Tables, CleanScan(table)
      PROVE  UNCHANGED <<store, task, history>>
  BY <1>1 DEF CleanScan
<1>2. CASE CleanCommits \/ (\E p \in commits : AgeCommit(p)) \/ UNCHANGED vars
  BY <1>2 DEF CleanCommits, AgeCommit, vars
<1>3. ASSUME NEW k \in cleaner.keys, CleanDelete(k)
      PROVE  /\ UNCHANGED <<index, task, history>>
             /\ DOMAIN logins' \subseteq DOMAIN logins
             /\ DOMAIN recoveries' \subseteq DOMAIN recoveries
             /\ \A c \in DOMAIN sessions' : c \in DOMAIN sessions /\ sessions'[c] = sessions[c]
  BY <1>3 DEF CleanDelete, Drop
<1>4. ASSUME NEW c \in Client, AgeSession(c)
      PROVE  /\ UNCHANGED <<index, task, history, logins, recoveries>>
             /\ \A d \in DOMAIN sessions' :
                  d \in DOMAIN sessions /\ sessions'[d].email = sessions[d].email
  <2>1. \A s \in SignerSession : /\ [s EXCEPT !.old = TRUE].email = s.email
                                 /\ [s EXCEPT !.old = TRUE, !.idle = TRUE].email = s.email
    BY DEF SignerSession
  <2>2. sessions[c] \in SignerSession
    BY <1>4, TypeParts DEF AgeSession, Rest, Table
  <2> QED
    BY <1>4, <2>1, <2>2 DEF AgeSession, Put
<1>5. CASE AgeGrant
  BY <1>5 DEF AgeGrant, Aged, Put
<1>6. CASE Restart
  BY <1>6 DEF Restart
<1> QED
  BY <1>1, <1>2, <1>3, <1>4, <1>5, <1>6 DEF Cleanup, Environment

(* Every step keeps keys and emails tied.                                  *)
LEMMA OwnStep ==
  TypeOK /\ OwnInv /\ RoleInv /\ KeysApart /\ KeyReuse = FALSE /\ [Next]_vars => OwnInv'
  BY SigningKeepsOwn, SessionsKeepOwn, AuthKeepsOwn, BackgroundOnlyAges, BackgroundKeepsOwn
     DEF Next

(* The first state links no key to an email.                               *)
LEMMA InitIsOwn == Init => OwnInv
  BY DEF Init, Empty, Idle, OwnInv, KeysUsed, Acts, LinkedAreTied, Linked, Listed, Links,
         HasClients

(* Mails and openings are about keys that are linked to the email asked    *)
(* for.                                                                    *)
LEMMA OnlyOwnSessionsOpened ==
  ASSUME TypeOK, OwnInv, EmailOwnsItsSessions, [Next]_vars
  PROVE  EmailOwnsItsSessions'
<1> USE DEF store, history, authHistory
<1>0. Tasks /\ Rest
  BY TypeParts
<1>1. ASSUME NEW h \in Handler, SendChallenge(h)
      PROVE  EmailOwnsItsSessions'
  <2> DEFINE mail(otp) == [otp |-> otp, for |-> task[h].email,
                           to |-> sessions[task[h].client].email]
  <2>1. PICK otp : mailed' = mailed \cup {mail(otp)}
    BY <1>1 DEF SendChallenge
  <2>2. task[h].client \in Client /\ task[h].email \in Email
    BY <1>0, <1>1, AuthShape DEF SendChallenge, Tasks
  <2>3. Linked(task[h].client, task[h].email)
    BY <1>1 DEF SendChallenge, Linked, Links
  <2>4. sessions[task[h].client].email = task[h].email
    BY <1>1, <2>2, <2>3 DEF SendChallenge, OwnInv, LinkedAreTied, Tied
  <2>5. mail(otp).for = mail(otp).to
    BY <2>4
  <2> HIDE DEF mail
  <2> QED
    BY <1>1, <2>1, <2>5 DEF SendChallenge, EmailOwnsItsSessions
<1>2. ASSUME NEW h \in Handler, Collect(h)
      PROVE  EmailOwnsItsSessions'
  <2>1. task[h].clients \subseteq Client /\ task[h].email \in Email
    BY <1>0, <1>2, AuthShape DEF Collect, Tasks
  <2>2. ASSUME NEW c \in Authenticated(task[h])
        PROVE  sessions[c].email = task[h].email
    <3>1. c \in Client /\ c \in DOMAIN sessions /\ Linked(c, task[h].email)
      BY <1>2, <2>1 DEF Authenticated, Collect, Linked, Links, HasClients
    <3> QED
      BY <2>1, <3>1 DEF OwnInv, LinkedAreTied, Tied
  <2>3. \A o \in opened' : o \in opened \/ o.email = o.asked
    BY <1>2, <2>2 DEF Collect
  <2> QED
    BY <1>2, <2>3 DEF Collect, EmailOwnsItsSessions
<1>3. CASE SigningNext
  BY <1>3 DEF SigningNext, SignCommit, PushCommit, SignComplete, TakeCommit, FinishSign, Ecdh,
     FinishEcdh, Refuse, EmailOwnsItsSessions
<1>4. CASE SessionsNext
  <2>1. ASSUME NEW h \in Handler,
               \/ \E c \in Client, g \in Group, i \in Idx, r \in Recovery : Register(h, c, g, i, r)
               \/ \E c \in Client, e \in Email, pw \in Password : RecoverySetup(h, c, e, pw)
               \/ AddSession(h) \/ IndexGet(h) \/ IndexSet(h)
        PROVE  UNCHANGED <<mailed, opened>>
    BY <2>1 DEF Register, RecoverySetup, AddSession, IndexGet, IndexSet
  <2>2. ASSUME NEW h \in Handler,
               \/ \E pk \in Group, c \in Client : SessionDeactivate(h, pk, c)
               \/ DeactivateGet(h) \/ DeactivateSet(h)
               \/ \E pk \in Group, c \in Client : SessionDelete(h, pk, c)
               \/ DeleteGet(h) \/ UnindexGet(h) \/ UnindexSet(h) \/ RemoveSession(h)
        PROVE  UNCHANGED <<mailed, opened>>
    BY <2>2 DEF SessionDeactivate, DeactivateGet, DeactivateSet, SessionDelete, DeleteGet,
       UnindexGet, UnindexSet, RemoveSession
  <2> QED
    BY <1>4, <2>1, <2>2 DEF SessionsNext, EmailOwnsItsSessions
<1>5. CASE AuthNext
  <2>1. ASSUME NEW h \in Handler,
               \/ \E e \in Email : Challenge(h, e)
               \/ SkipChallenge(h)
               \/ \E c \in Client, goal \in Goal, e \in Email, pw \in Password \cup {None},
                     otp \in Otp \cup {None} : Start(h, c, goal, e, pw, otp)
               \/ AuthIndex(h) \/ OtpGet(h)
        PROVE  UNCHANGED <<mailed, opened>>
    BY <2>1 DEF Challenge, SkipChallenge, Start, AuthIndex, OtpGet
  <2>2. ASSUME NEW h \in Handler,
               \/ OtpDelete(h) \/ StoreGrant(h)
               \/ \E c, target \in Client, goal \in Goal : Select(h, c, goal, target)
               \/ DeleteGrant(h) \/ Load(h)
        PROVE  UNCHANGED <<mailed, opened>>
    BY <2>2 DEF OtpDelete, StoreGrant, Select, DeleteGrant, Load
  <2>3. UNCHANGED <<mailed, opened>> \/ \E h \in Handler : SendChallenge(h) \/ Collect(h)
    BY <1>5, <2>1, <2>2 DEF AuthNext
  <2> QED
    BY <1>1, <1>2, <2>3 DEF EmailOwnsItsSessions
<1>6. CASE Cleanup \/ Environment \/ UNCHANGED vars
  BY <1>6, BackgroundOnlyAges DEF EmailOwnsItsSessions
<1> QED
  BY <1>3, <1>4, <1>5, <1>6 DEF Next

(* Clients that make a key for every session, and no two requests for one  *)
(* key at a time: a one-time password goes to the address it was asked     *)
(* for, and an email opens its own sessions only, although the cleanup     *)
(* leaves deleted sessions in the list of an email and logins copy lists,  *)
(* challenges and sessions before they use them.                           *)
THEOREM EmailsOpenTheirOwn ==
  KeyReuse = FALSE => (Spec /\ []KeysApart => []EmailOwnsItsSessions)
<1> SUFFICES ASSUME KeyReuse = FALSE
             PROVE  Spec /\ []KeysApart => []EmailOwnsItsSessions
  OBVIOUS
<1>1. Init => EmailOwnsItsSessions
  BY DEF Init, EmailOwnsItsSessions
<1>2. TypeOK /\ OwnInv /\ EmailOwnsItsSessions /\ [Next]_vars => EmailOwnsItsSessions'
  BY OnlyOwnSessionsOpened
<1>3. TypeOK /\ OwnInv /\ RoleInv /\ KeysApart /\ [Next]_vars => OwnInv'
  BY OwnStep
<1> QED
  BY <1>1, <1>2, <1>3, InitIsOwn, TypeCorrect, InitHasRoles, RoleStep, PTL DEF Spec

-----------------------------------------------------------------------------
(* The index of emails.                                                    *)

(* A copy of a session that will be written back is of a listed key, a     *)
(* copy of a list is the list with its key added or taken out, and what    *)
(* add_session has written is what it is about to list.                    *)
IndexTask(t) ==
  /\ Writes(t) /\ t.pc # "add" /\ t.session.email # None => t.client \in Listed(t.session.email)
  /\ t.pc = "index_set" => t.clients = Listed(t.email) \cup {t.client}
  /\ t.pc = "unindex_set" => t.clients = Listed(t.email) \ {t.client}
  /\ t.pc \in {"index_get", "index_set"} /\ t.client \in DOMAIN sessions =>
       sessions[t.client].email = t.email

IndexInv == IndexComplete /\ \A h \in Handler : IndexTask(task[h])

(* The list of an email as the index has it.                               *)
LEMMA ListedIsIndexed == \A c, e : c \in Listed(e) <=> e \in DOMAIN index /\ c \in index[e]
  BY DEF Listed

(* A request between two writes acts for its key.                          *)
LEMMA MidWritesActs == \A t : MidWrites(t) => Acts(t)
  BY DEF MidWrites, Acts

(* No other request is between two writes for the key of this one.         *)
LEMMA OwnKeyIsListed ==
  ASSUME IndexInv, KeysApart, NEW h \in Handler, Acts(task[h]), ~MidWrites(task[h]),
         task[h].client \in DOMAIN sessions, sessions[task[h].client].email # None
  PROVE  task[h].client \in Listed(sessions[task[h].client].email)
<1>1. ~Between(task[h].client)
  BY MidWritesActs DEF Between, KeysApart
<1> QED
  BY <1>1, ListedIsIndexed DEF IndexInv, IndexComplete

(* A step that leaves the lists alone and writes only the session of its   *)
(* own key, which is listed, or soon will be.                              *)
LEMMA StepKeepsIndex ==
  ASSUME IndexInv, KeysApart, NEW h \in Handler, Moved(h), UNCHANGED index,
         IndexTask(task[h])',
         \A c \in DOMAIN sessions' :
           \/ c \in DOMAIN sessions /\ sessions'[c].email = sessions[c].email
           \/ Acts(task[h]) /\ c = task[h].client,
         \A c \in DOMAIN sessions' :
           Acts(task[h]) /\ c = task[h].client /\ sessions'[c].email # None =>
             \/ MidWrites(task'[h]) /\ task'[h].client = c
             \/ c \in Listed(sessions'[c].email)
  PROVE  IndexInv'
<1>1. \A e : Listed(e)' = Listed(e)
  BY DEF Listed
<1>2. ASSUME NEW g \in Handler, g # h
      PROVE  IndexTask(task[g])'
  <2>1. task'[g] = task[g] /\ IndexTask(task[g])
    BY <1>2 DEF Moved, IndexInv
  <2>2. Acts(task[g]) /\ task[g].client \in DOMAIN sessions' =>
          /\ task[g].client \in DOMAIN sessions
          /\ sessions'[task[g].client].email = sessions[task[g].client].email
    BY <1>2 DEF KeysApart
  <2>3. task[g].pc \in {"index_get", "index_set"} => Acts(task[g])
    BY DEF Acts
  <2> QED
    BY <1>1, <2>1, <2>2, <2>3 DEF IndexTask, Writes, Listed
<1>3. ASSUME NEW c \in DOMAIN sessions', sessions'[c].email # None, ~Between(c)'
      PROVE  c \in Listed(sessions'[c].email)
  <2>1. CASE Acts(task[h]) /\ c = task[h].client
    BY <1>3, <2>1 DEF Between
  <2>2. CASE ~(Acts(task[h]) /\ c = task[h].client)
    <3>1. c \in DOMAIN sessions /\ sessions'[c].email = sessions[c].email
      BY <2>2
    <3>2. ~Between(c)
      BY <1>3, <2>2, MidWritesActs DEF Between, Moved, MidWrites
    <3> QED
      BY <1>3, <3>1, <3>2, ListedIsIndexed DEF IndexInv, IndexComplete
  <2> QED
    BY <2>1, <2>2
<1>4. IndexComplete'
  BY <1>3 DEF IndexComplete, Listed
<1> QED
  BY <1>2, <1>4 DEF IndexInv

(* A step of a request that writes neither sessions nor lists.             *)
LEMMA CalmKeepsIndex ==
  ASSUME IndexInv, KeysApart, NEW h \in Handler, Moved(h), UNCHANGED <<sessions, index>>,
         ~MidWrites(task[h]), IndexTask(task'[h])
  PROVE  IndexInv'
<1>1. IndexTask(task[h])'
  BY DEF IndexTask, Writes, Listed
<1>2. \A c \in DOMAIN sessions' :
        Acts(task[h]) /\ c = task[h].client /\ sessions'[c].email # None =>
          c \in Listed(sessions'[c].email)
  BY OwnKeyIsListed
<1> QED
  BY <1>1, <1>2, StepKeepsIndex

(* A new request copies a session whose key no other request works on.     *)
LEMMA ReadKeepsIndex ==
  ASSUME Tasks, IndexInv, KeysApart, KeysApart', NEW h \in Handler, task[h] = Idle,
         NEW t, t.pc \in {"commit", "take", "ecdh"}, t.client \in DOMAIN sessions,
         t.session = sessions[t.client], Goto(h, t), UNCHANGED <<sessions, index>>
  PROVE  IndexInv'
<1>1. Moved(h) /\ task'[h] = t
  BY GotoMoves
<1>2. \A g \in Handler : MidWrites(task[g]) => task[g].client # t.client
  <2>1. \A g \in Handler : MidWrites(task[g]) => g # h /\ task'[g] = task[g] /\ Acts(task[g])
    BY <1>1, MidWritesActs DEF Moved, MidWrites, Idle
  <2>2. Acts(t)
    BY DEF Acts
  <2> QED
    BY <1>1, <2>1, <2>2 DEF KeysApart, Acts
<1>3. t.session.email # None => t.client \in Listed(t.session.email)
  BY <1>2, ListedIsIndexed DEF IndexInv, IndexComplete, Between
<1>4. IndexTask(task'[h])
  BY <1>1, <1>3 DEF IndexTask
<1> QED
  BY <1>1, <1>4, CalmKeepsIndex DEF MidWrites, Idle

(* Signing writes back a copy with the email of the session it read, whose *)
(* key is listed.                                                          *)
LEMMA SigningKeepsIndex ==
  TypeOK /\ IndexInv /\ KeysApart /\ KeysApart' /\ SigningNext => IndexInv'
<1> SUFFICES ASSUME TypeOK, IndexInv, KeysApart, KeysApart', NEW h \in Handler,
                    \/ \E c \in Client, members \in MemberSets : SignCommit(h, c, members)
                    \/ PushCommit(h)
                    \/ \E c \in Client, req \in Request : SignComplete(h, c, req)
                    \/ TakeCommit(h)
                    \/ FinishSign(h)
                    \/ \E c \in Client : Ecdh(h, c)
                    \/ FinishEcdh(h)
                    \/ Refuse(h)
             PROVE  IndexInv'
  BY DEF SigningNext
<1> USE DEF store, history, authHistory
<1>0. Tasks /\ Rest /\ IndexTask(task[h])
  BY TypeParts DEF IndexInv
<1>1. ASSUME NEW c \in Client, NEW members \in MemberSets, SignCommit(h, c, members)
      PROVE  IndexInv'
  BY <1>0, <1>1, ReadKeepsIndex DEF SignCommit, Serve, Active
<1>2. ASSUME NEW c \in Client, NEW req \in Request, SignComplete(h, c, req)
      PROVE  IndexInv'
  BY <1>0, <1>2, ReadKeepsIndex DEF SignComplete, Serve, Active
<1>3. ASSUME NEW c \in Client, Ecdh(h, c)
      PROVE  IndexInv'
  BY <1>0, <1>3, ReadKeepsIndex DEF Ecdh, Serve, Active
<1>4. CASE TakeCommit(h)
  <2>1. /\ Moved(h) /\ task[h].pc = "take" /\ task'[h].pc = "sign"
        /\ task'[h].client = task[h].client /\ task'[h].session = task[h].session
    BY <1>0, <1>4 DEF TakeCommit, Tasks, Goto, Moved
  <2>2. IndexTask(task'[h])
    BY <1>0, <2>1 DEF IndexTask, Writes
  <2> QED
    BY <1>4, <2>1, <2>2, CalmKeepsIndex DEF TakeCommit, MidWrites
<1>5. CASE PushCommit(h) \/ Refuse(h)
  <2>1. Goto(h, Idle) /\ ~MidWrites(task[h]) /\ UNCHANGED <<sessions, index>>
    BY <1>5 DEF PushCommit, Refuse, MidWrites
  <2>2. Moved(h) /\ task'[h] = Idle
    BY <1>0, <2>1, GotoMoves
  <2>3. IndexTask(Idle)
    BY DEF IndexTask, Writes, Idle
  <2> QED
    BY <2>1, <2>2, <2>3, CalmKeepsIndex
<1>6. CASE FinishSign(h) \/ FinishEcdh(h)
  <2>1. /\ Goto(h, Idle) /\ UNCHANGED index /\ task[h].pc \in {"sign", "ecdh"}
        /\ sessions' = Put(sessions, task[h].client, Touched(task[h].session))
    BY <1>6 DEF FinishSign, FinishEcdh
  <2>2. Moved(h) /\ task'[h] = Idle
    BY <1>0, <2>1, GotoMoves
  <2>3. Touched(task[h].session).email = task[h].session.email
    BY <1>0, <2>1, SigningShape DEF Touched, SignerSession, Tasks
  <2>4. IndexTask(task[h])'
    BY <2>2 DEF IndexTask, Writes, Idle
  <2>5. \A c \in DOMAIN sessions' :
          \/ c \in DOMAIN sessions /\ sessions'[c].email = sessions[c].email
          \/ Acts(task[h]) /\ c = task[h].client
    BY <2>1 DEF Put, Acts
  <2>6. \A c \in DOMAIN sessions' : c = task[h].client /\ sessions'[c].email # None =>
          c \in Listed(sessions'[c].email)
    BY <1>0, <2>1, <2>3 DEF Put, IndexTask, Writes
  <2> QED
    BY <2>1, <2>2, <2>4, <2>5, <2>6, StepKeepsIndex
<1> QED
  BY <1>1, <1>2, <1>3, <1>4, <1>5, <1>6

(* The two writes of a list: it is the one that was read, and no other     *)
(* request holds a copy of it.                                             *)
LEMMA ListWritesKeepIndex ==
  ASSUME TypeOK, IndexInv, KeysApart, ListsApart, NEW h \in Handler,
         IndexSet(h) \/ UnindexSet(h)
  PROVE  IndexInv'
<1> USE DEF store, history, authHistory
<1> PICK c : c = task[h].client
  OBVIOUS
<1> PICK e : e = task[h].email
  OBVIOUS
<1>0. Tasks /\ IndexTask(task[h])
  BY TypeParts DEF IndexInv
<1>1. UNCHANGED sessions /\ HoldsList(task[h]) /\ Acts(task[h])
  BY DEF IndexSet, UnindexSet, HoldsList, Acts
<1>2. Moved(h) /\ task'[h].pc \in {"idle", "remove"}
  BY <1>0 DEF IndexSet, UnindexSet, Idle, Tasks, Goto, Moved
<1>3. ASSUME NEW g \in Handler, g # h
      PROVE  /\ task'[g] = task[g] /\ IndexTask(task[g])
             /\ HoldsList(task[g]) => task[g].email # e
             /\ Acts(task[g]) => task[g].client # c
  BY <1>1, <1>2, <1>3 DEF Moved, IndexInv, ListsApart, KeysApart
<1>4. \A d : d # e => Listed(d)' = Listed(d)
  BY DEF IndexSet, UnindexSet, Put, Drop, Listed
<1>5. \A b : b # c => (b \in Listed(e)' <=> b \in Listed(e))
  BY <1>0 DEF IndexSet, UnindexSet, IndexTask, Put, Drop, Listed
<1>6. \A b, d : b # c => (b \in Listed(d)' <=> b \in Listed(d))
  BY <1>4, <1>5
<1>7. \A g \in Handler : IndexTask(task[g])'
  <2>1. IndexTask(task[h])'
    BY <1>2 DEF IndexTask, Writes
  <2>2. ASSUME NEW g \in Handler, g # h
        PROVE  IndexTask(task[g])'
    <3>1. /\ Writes(task[g]) => Acts(task[g])
          /\ task[g].pc \in {"index_set", "unindex_set"} => HoldsList(task[g])
      BY DEF Writes, Acts, HoldsList
    <3>2. Writes(task[g]) /\ task[g].pc # "add" /\ task[g].session.email # None =>
            task[g].client \in Listed(task[g].session.email)'
      <4>1. ASSUME NEW d, d = task[g].session.email
            PROVE  Writes(task[g]) /\ task[g].pc # "add" /\ d # None =>
                     task[g].client \in Listed(d)'
        BY <1>3, <1>6, <2>2, <3>1, <4>1 DEF IndexTask
      <4> QED
        BY <4>1, <1>3, <2>2 DEF Listed
    <3> QED
      BY <1>1, <1>3, <1>4, <2>2, <3>1, <3>2 DEF IndexTask, Writes, Listed
  <2> QED
    BY <2>1, <2>2
<1>8. IndexComplete'
  <2> SUFFICES ASSUME NEW b \in DOMAIN sessions, NEW d, d = sessions[b].email, d # None,
                      ~Between(b)'
               PROVE  b \in Listed(d)'
    BY <1>1 DEF IndexComplete, Listed
  <2>1. CASE b = c
    <3>0. task'[h].pc = "remove" => task'[h].client = c
      BY <1>0 DEF IndexSet, UnindexSet, Idle, Tasks, Goto
    <3>1. task'[h].pc = "idle"
      BY <1>2, <2>1, <3>0 DEF Between, MidWrites
    <3>2. IndexSet(h)
      BY <1>0, <3>1 DEF UnindexSet, Tasks, Goto
    <3> QED
      BY <1>0, <2>1, <3>2 DEF IndexSet, IndexTask, Put, Listed
  <2>2. CASE b # c
    <3>1. ~Between(b)
      BY <1>2, <2>2 DEF Between, Moved, MidWrites
    <3>2. b \in Listed(d)
      BY <3>1, ListedIsIndexed DEF IndexInv, IndexComplete
    <3> QED
      BY <1>6, <2>2, <3>2
  <2> QED
    BY <2>1, <2>2
<1> QED
  BY <1>7, <1>8 DEF IndexInv

(* The handlers of a session list its key after they write it, and take it *)
(* out before they delete it.                                              *)
LEMMA SessionsKeepIndex ==
  TypeOK /\ IndexInv /\ KeysApart /\ ListsApart /\ SessionsNext => IndexInv'
<1> SUFFICES ASSUME TypeOK, IndexInv, KeysApart, ListsApart, NEW h \in Handler,
                    \/ \E c \in Client, g \in Group, i \in Idx, r \in Recovery :
                         Register(h, c, g, i, r)
                    \/ \E c \in Client, e \in Email, pw \in Password : RecoverySetup(h, c, e, pw)
                    \/ AddSession(h) \/ IndexGet(h) \/ IndexSet(h)
                    \/ \E pk \in Group, c \in Client : SessionDeactivate(h, pk, c)
                    \/ DeactivateGet(h) \/ DeactivateSet(h)
                    \/ \E pk \in Group, c \in Client : SessionDelete(h, pk, c)
                    \/ DeleteGet(h) \/ UnindexGet(h) \/ UnindexSet(h) \/ RemoveSession(h)
             PROVE  IndexInv'
  BY DEF SessionsNext
<1> USE DEF store, history, authHistory
<1>0. Tasks /\ Rest /\ IndexTask(task[h])
  BY TypeParts DEF IndexInv
<1>1. CASE \/ \E c \in Client, g \in Group, i \in Idx, r \in Recovery : Register(h, c, g, i, r)
           \/ \E c \in Client, e \in Email, pw \in Password : RecoverySetup(h, c, e, pw)
           \/ \E pk \in Group, c \in Client : SessionDeactivate(h, pk, c)
           \/ \E pk \in Group, c \in Client : SessionDelete(h, pk, c)
  <2>1. task[h] = Idle /\ UNCHANGED <<sessions, index>>
    BY <1>1 DEF Register, RecoverySetup, SessionDeactivate, SessionDelete, Serve
  <2>2. Moved(h) /\ task'[h].pc \in {"add", "deactivate", "delete"}
    <3>1. ASSUME NEW c \in Client, NEW g \in Group, NEW i \in Idx, NEW r \in Recovery,
                 Register(h, c, g, i, r)
          PROVE  Moved(h) /\ task'[h].pc = "add"
      BY <1>0, <3>1, GotoMoves DEF Register
    <3>2. ASSUME NEW c \in Client, NEW e \in Email, NEW pw \in Password,
                 RecoverySetup(h, c, e, pw)
          PROVE  Moved(h) /\ task'[h].pc = "add"
      <4>1. PICK s : Goto(h, [pc |-> "add", client |-> c, session |-> s])
        BY <3>2 DEF RecoverySetup
      <4> QED
        BY <1>0, <4>1, GotoMoves
    <3>3. ASSUME NEW pk \in Group, NEW c \in Client, SessionDeactivate(h, pk, c)
          PROVE  Moved(h) /\ task'[h].pc = "deactivate"
      BY <1>0, <3>3, GotoMoves DEF SessionDeactivate
    <3>4. ASSUME NEW pk \in Group, NEW c \in Client, SessionDelete(h, pk, c)
          PROVE  Moved(h) /\ task'[h].pc = "delete"
      BY <1>0, <3>4, GotoMoves DEF SessionDelete
    <3> QED
      BY <1>1, <3>1, <3>2, <3>3, <3>4
  <2>3. IndexTask(task'[h]) /\ ~MidWrites(task[h])
    BY <2>1, <2>2 DEF IndexTask, Writes, MidWrites, Idle
  <2> QED
    BY <2>1, <2>2, <2>3, CalmKeepsIndex
<1>2. CASE AddSession(h)
  <2> PICK c : c = task[h].client
    OBVIOUS
  <2> PICK s : s = task[h].session
    OBVIOUS
  <2>1. /\ sessions' = Put(sessions, c, s) /\ UNCHANGED index /\ Acts(task[h])
        /\ Moved(h)
    BY <1>0, <1>2, GotoMoves DEF AddSession, Acts
  <2>2. IF s.email = None
          THEN task'[h].pc = "idle"
          ELSE task'[h].pc = "index_get" /\ task'[h].client = c /\ task'[h].email = s.email
    BY <1>0, <1>2 DEF AddSession, Tasks, Goto, Idle
  <2>3. /\ \A b \in DOMAIN sessions' :
             b # c => b \in DOMAIN sessions /\ sessions'[b] = sessions[b]
        /\ sessions'[c] = s
    BY <2>1 DEF Put
  <2>4. IndexTask(task[h])'
    BY <2>2, <2>3 DEF IndexTask, Writes
  <2> QED
    BY <2>1, <2>2, <2>3, <2>4, StepKeepsIndex DEF MidWrites
<1>3. CASE IndexGet(h)
  <2> PICK c : c = task[h].client
    OBVIOUS
  <2> PICK e : e = task[h].email
    OBVIOUS
  <2>1. UNCHANGED <<sessions, index>> /\ Moved(h) /\ task[h].pc = "index_get"
    BY <1>0, <1>3, GotoMoves DEF IndexGet
  <2>2. /\ task'[h].pc = "index_set" /\ task'[h].client = c /\ task'[h].email = e
        /\ task'[h].clients = Listed(e) \cup {c}
    BY <1>0, <1>3 DEF IndexGet, Tasks, Goto
  <2>3. IndexTask(task[h])'
    BY <1>0, <2>1, <2>2 DEF IndexTask, Writes, Listed
  <2> QED
    BY <2>1, <2>2, <2>3, StepKeepsIndex DEF MidWrites
<1>4. CASE IndexSet(h) \/ UnindexSet(h)
  BY <1>4, ListWritesKeepIndex
<1>5. CASE DeactivateGet(h)
  <2> PICK c : c = task[h].client
    OBVIOUS
  <2>1. /\ UNCHANGED <<sessions, index>> /\ Moved(h)
        /\ Acts(task[h]) /\ ~MidWrites(task[h])
    BY <1>0, <1>5, GotoMoves DEF DeactivateGet, Acts, MidWrites
  <2>2. \/ task'[h].pc = "idle"
        \/ /\ c \in DOMAIN sessions
           /\ task'[h].pc = "deactivate_set" /\ task'[h].client = c
           /\ task'[h].session = [sessions[c] EXCEPT !.deactivated = TRUE]
    BY <1>0, <1>5 DEF DeactivateGet, Tasks, Goto, Idle
  <2>3. \A s \in SignerSession : [s EXCEPT !.deactivated = TRUE].email = s.email
    BY DEF SignerSession
  <2>4. c \in DOMAIN sessions => sessions[c] \in SignerSession
    BY <1>0 DEF Rest, Table
  <2>5. c \in DOMAIN sessions /\ sessions[c].email # None => c \in Listed(sessions[c].email)
    BY <2>1, OwnKeyIsListed
  <2>6. IndexTask(task'[h])
    BY <2>2, <2>3, <2>4, <2>5 DEF IndexTask, Writes
  <2> QED
    BY <2>1, <2>6, CalmKeepsIndex
<1>6. CASE DeactivateSet(h)
  <2>1. /\ Moved(h) /\ task'[h] = Idle /\ UNCHANGED index /\ Acts(task[h])
        /\ sessions' = Put(sessions, task[h].client, task[h].session)
    BY <1>0, <1>6, GotoMoves DEF DeactivateSet, Acts
  <2>2. IndexTask(task[h])'
    BY <2>1 DEF IndexTask, Writes, Idle
  <2>3. \A c \in DOMAIN sessions' :
          \/ c \in DOMAIN sessions /\ sessions'[c].email = sessions[c].email
          \/ Acts(task[h]) /\ c = task[h].client
    BY <2>1 DEF Put
  <2>4. \A c \in DOMAIN sessions' : c = task[h].client /\ sessions'[c].email # None =>
          c \in Listed(sessions'[c].email)
    BY <1>0, <1>6, <2>1 DEF DeactivateSet, Put, IndexTask, Writes
  <2> QED
    BY <2>1, <2>2, <2>3, <2>4, StepKeepsIndex
<1>7. CASE DeleteGet(h)
  <2>1. /\ UNCHANGED <<sessions, index>> /\ Moved(h) /\ ~MidWrites(task[h])
        /\ task'[h].pc \in {"idle", "remove", "unindex_get"}
    BY <1>0, <1>7 DEF DeleteGet, MidWrites, Tasks, Goto, Moved, Idle
  <2>2. IndexTask(task'[h])
    BY <2>1 DEF IndexTask, Writes
  <2> QED
    BY <2>1, <2>2, CalmKeepsIndex
<1>8. CASE UnindexGet(h)
  <2>1. UNCHANGED <<sessions, index>> /\ Moved(h) /\ ~MidWrites(task[h])
    BY <1>0, <1>8, GotoMoves DEF UnindexGet, MidWrites
  <2>2. \/ task'[h].pc = "remove"
        \/ /\ task'[h].pc = "unindex_set"
           /\ task'[h].clients = Listed(task'[h].email) \ {task'[h].client}
    BY <1>0, <1>8 DEF UnindexGet, Tasks, Goto, Listed
  <2>3. IndexTask(task'[h])
    BY <2>2 DEF IndexTask, Writes
  <2> QED
    BY <2>1, <2>3, CalmKeepsIndex
<1>9. CASE RemoveSession(h)
  <2>1. /\ Moved(h) /\ task'[h] = Idle /\ UNCHANGED index
        /\ sessions' = Drop(sessions, task[h].client)
    BY <1>0, <1>9, GotoMoves DEF RemoveSession
  <2>2. IndexTask(task[h])'
    BY <2>1 DEF IndexTask, Writes, Idle
  <2>3. \A c \in DOMAIN sessions' :
          c # task[h].client /\ c \in DOMAIN sessions /\ sessions'[c] = sessions[c]
    BY <2>1 DEF Drop
  <2> QED
    BY <2>1, <2>2, <2>3, StepKeepsIndex
<1> QED
  BY <1>1, <1>2, <1>3, <1>4, <1>5, <1>6, <1>7, <1>8, <1>9

(* A login or a recovery writes neither sessions nor lists before it comes *)
(* to add_session.                                                         *)
LEMMA AuthKeepsIndex == TypeOK /\ IndexInv /\ KeysApart /\ AuthNext => IndexInv'
<1> SUFFICES ASSUME TypeOK, IndexInv, KeysApart, NEW h \in Handler,
                    \/ \E e \in Email : Challenge(h, e)
                    \/ SendChallenge(h) \/ SkipChallenge(h)
                    \/ \E c \in Client, goal \in Goal, e \in Email, pw \in Password \cup {None},
                          otp \in Otp \cup {None} : Start(h, c, goal, e, pw, otp)
                    \/ AuthIndex(h) \/ OtpGet(h) \/ OtpDelete(h) \/ Collect(h) \/ StoreGrant(h)
                    \/ \E c, target \in Client, goal \in Goal : Select(h, c, goal, target)
                    \/ DeleteGrant(h) \/ Load(h)
             PROVE  IndexInv'
  BY DEF AuthNext
<1> USE DEF store, history, authHistory
<1> DEFINE points == {"idle", "challenge", "auth", "otp", "otp_delete", "collect", "grant",
                      "select", "load", "add"}
<1> SUFFICES /\ UNCHANGED <<sessions, index>> /\ ~MidWrites(task[h])
             /\ Moved(h) /\ task'[h].pc \in points
  <2>1. IndexTask(task'[h])
    BY DEF IndexTask, Writes
  <2> QED
    BY <2>1, CalmKeepsIndex
<1>0. Tasks
  BY TypeParts
<1>1. CASE \/ \E e \in Email : Challenge(h, e)
           \/ \E c \in Client, goal \in Goal, e \in Email, pw \in Password \cup {None},
                 otp \in Otp \cup {None} : Start(h, c, goal, e, pw, otp)
           \/ \E c, target \in Client, goal \in Goal : Select(h, c, goal, target)
  <2>1. UNCHANGED <<sessions, index>> /\ task[h] = Idle
    BY <1>1 DEF Challenge, Start, Select, Serve
  <2>2. Moved(h) /\ task'[h].pc \in points
    <3>1. ASSUME NEW e \in Email, Challenge(h, e)
          PROVE  Moved(h) /\ task'[h].pc = "challenge"
      BY <1>0, <3>1, GotoMoves DEF Challenge
    <3>2. ASSUME NEW c \in Client, NEW goal \in Goal, NEW e \in Email,
                 NEW pw \in Password \cup {None}, NEW otp \in Otp \cup {None},
                 Start(h, c, goal, e, pw, otp)
          PROVE  Moved(h) /\ task'[h].pc = "auth"
      BY <1>0, <3>2, GotoMoves DEF Start
    <3>3. ASSUME NEW c \in Client, NEW target \in Client, NEW goal \in Goal,
                 Select(h, c, goal, target)
          PROVE  Moved(h) /\ task'[h].pc = "select"
      BY <1>0, <3>3, GotoMoves DEF Select
    <3> QED
      BY <1>1, <3>1, <3>2, <3>3
  <2> QED
    BY <2>1, <2>2 DEF MidWrites, Idle
<1>2. CASE SendChallenge(h) \/ SkipChallenge(h) \/ StoreGrant(h)
  <2>1. UNCHANGED <<sessions, index>> /\ ~MidWrites(task[h]) /\ Goto(h, Idle)
    BY <1>2 DEF SendChallenge, SkipChallenge, StoreGrant, MidWrites
  <2> QED
    BY <1>0, <2>1, GotoMoves DEF Idle
<1>3. CASE AuthIndex(h) \/ OtpGet(h) \/ OtpDelete(h)
  <2>1. UNCHANGED <<sessions, index>> /\ ~MidWrites(task[h])
    BY <1>3 DEF AuthIndex, OtpGet, OtpDelete, MidWrites
  <2>2. Moved(h) /\ task'[h].pc \in points
    BY <1>0, <1>3 DEF AuthIndex, OtpGet, OtpDelete, Tasks, Goto, Moved, Idle
  <2> QED
    BY <2>1, <2>2
<1>4. CASE Collect(h) \/ DeleteGrant(h) \/ Load(h)
  <2>1. UNCHANGED <<sessions, index>> /\ ~MidWrites(task[h])
    BY <1>4 DEF Collect, DeleteGrant, Load, MidWrites
  <2>2. Moved(h) /\ task'[h].pc \in points
    BY <1>0, <1>4 DEF Collect, DeleteGrant, Load, Tasks, Goto, Moved, Idle
  <2> QED
    BY <2>1, <2>2
<1> QED
  BY <1>1, <1>2, <1>3, <1>4

(* The cleanup leaves the lists as they are, so a session that stays is    *)
(* found as before; a restart between two writes would leave a session     *)
(* that is in no list and that no request will put in one.                 *)
LEMMA BackgroundKeepsIndex ==
  TypeOK /\ IndexInv /\ [WholeRestart]_vars /\ (Cleanup \/ Environment \/ UNCHANGED vars)
    => IndexInv'
<1> SUFFICES ASSUME TypeOK, IndexInv, [WholeRestart]_vars,
                    Cleanup \/ Environment \/ UNCHANGED vars
             PROVE  IndexInv'
  OBVIOUS
<1>1. /\ UNCHANGED index
      /\ \A c \in DOMAIN sessions' :
           c \in DOMAIN sessions /\ sessions'[c].email = sessions[c].email
  BY BackgroundOnlyAges
<1>2. ASSUME task' = task
      PROVE  IndexInv'
  <2>1. \A t : IndexTask(t) => IndexTask(t)'
    BY <1>1 DEF IndexTask, Writes, Listed
  <2> QED
    BY <1>1, <1>2, <2>1 DEF IndexInv, IndexTask, IndexComplete, Between, Listed
<1>3. CASE Restart
  <2>1. restarts' # restarts
    BY <1>3, TypeParts, RestartsAssumption DEF Restart, Rest
  <2>2. \A h \in Handler : ~MidWrites(task[h])
    BY <2>1 DEF WholeRestart, vars
  <2>3. \A h \in Handler : task'[h] = Idle
    BY <1>3 DEF Restart
  <2>4. \A h \in Handler : IndexTask(task[h])'
    BY <2>3 DEF IndexTask, Writes, Idle
  <2>5. IndexComplete'
    BY <1>1, <2>2, <2>3 DEF IndexInv, IndexComplete, Between
  <2> QED
    BY <2>4, <2>5 DEF IndexInv
<1>4. task' = task \/ Restart
  BY DEF Cleanup, CleanScan, CleanDelete, CleanCommits, Environment, AgeSession, AgeGrant,
     AgeCommit, vars
<1> QED
  BY <1>2, <1>3, <1>4

(* Every step keeps the index complete.                                    *)
LEMMA IndexStep ==
  /\ TypeOK /\ IndexInv /\ KeysApart /\ KeysApart' /\ ListsApart
  /\ [WholeRestart]_vars /\ [Next]_vars
  => IndexInv'
  BY SigningKeepsIndex, SessionsKeepIndex, AuthKeepsIndex, BackgroundKeepsIndex DEF Next

(* The first state has no session to list.                                 *)
LEMMA InitIsIndexed == Init => IndexInv
  BY DEF Init, Empty, Idle, IndexInv, IndexComplete, IndexTask, Writes

(* No two requests for one key, or about to write one list, at a time, and *)
(* no restart in the middle of add_session or delete_session: a session    *)
(* with an email is listed for it, but while its own request is between    *)
(* its writes.                                                             *)
THEOREM SessionsAreFoundByEmail ==
  Spec /\ []KeysApart /\ []ListsApart /\ [][WholeRestart]_vars => []IndexComplete
<1>1. IndexInv => IndexComplete
  BY DEF IndexInv
<1> QED
  BY <1>1, InitIsIndexed, IndexStep, TypeCorrect, PTL DEF Spec

(* The specification the runs check these properties of is the signer      *)
(* under the conditions of the theorems.                                   *)
THEOREM ApartMeetsConditions ==
  ApartSpec => /\ Spec
               /\ []KeysApart /\ []ListsApart /\ []OtpsApart /\ [][WholeRestart]_vars
<1>1. Init => KeysApart /\ ListsApart /\ OtpsApart
  BY DEF Init, Idle, KeysApart, ListsApart, OtpsApart, Acts, HoldsList
<1>2. (KeysApart /\ ListsApart /\ OtpsApart) /\ UNCHANGED vars
        => KeysApart' /\ ListsApart' /\ OtpsApart'
  BY DEF KeysApart, ListsApart, OtpsApart, Acts, HoldsList, vars
<1> QED
  BY <1>1, <1>2, PTL DEF ApartSpec, Spec
=============================================================================
