----------------------------- MODULE AuthHandlers -----------------------------
(***************************************************************************)
(* Access by email in the Rust signer: handle_challenge, the login and     *)
(* recovery flows, and get_authenticated_sessions.  A login ends in a new  *)
(* session of the caller's key, a recovery hands out the share itself.     *)
(*                                                                         *)
(* The email rate limit is in RateLimit.tla: a request it refuses has      *)
(* written nothing and is not modelled here.                               *)
(***************************************************************************)
EXTENDS SessionHandlers

(* A challenge goes to the mailbox of a session listed for the email: the  *)
(* first of the list in the code, any of them here.  The number of one-    *)
(* time passwords bounds the number of challenges.                         *)
Unsent == Otp \ {m.otp : m \in mailed}

Challenge(h, e) ==
  /\ Serve(h, "/challenge")
  /\ Cardinality(Unsent) > Cardinality({g \in Handler : task[g].pc = "challenge"})
  /\ e \in DOMAIN index
  /\ \E c \in index[e] : Goto(h, [pc |-> "challenge", client |-> c, email |-> e])
  /\ UNCHANGED <<store, commits, cleaner, restarts, history>>

(* A fresh one-time password replaces the email's previous one.            *)
SendChallenge(h) ==
  LET c == task[h].client
      e == task[h].email
  IN  /\ task[h].pc = "challenge"
      /\ c \in DOMAIN sessions /\ sessions[c].email # None
      /\ \E otp \in Unsent :
           /\ challenges' = Put(challenges, e, [otp |-> otp, old |-> FALSE])
           /\ mailed' = mailed \cup {[otp |-> otp, for |-> e, to |-> sessions[c].email]}
      /\ Goto(h, Idle)
      /\ UNCHANGED <<sessions, logins, recoveries, index, commits, cleaner, restarts,
                     drawn, signed, redeemed, opened, usedKeys>>

(* Mutant: a listed client whose session has no email is not thought of.   *)
SkipChallengeIfGone(h) ==
  /\ task[h].pc = "challenge"
  /\ task[h].client \notin DOMAIN sessions
  /\ Goto(h, Idle)
  /\ UNCHANGED <<store, commits, cleaner, restarts, history>>

(* The listed client has no session with an email: nothing is sent, and    *)
(* the answer is the same.                                                 *)
SkipChallenge(h) ==
  LET c == task[h].client
  IN  /\ task[h].pc = "challenge"
      /\ c \in DOMAIN sessions => sessions[c].email = None
      /\ Goto(h, Idle)
      /\ UNCHANGED <<store, commits, cleaner, restarts, history>>

-----------------------------------------------------------------------------
(* handle_login_start and handle_recovery_start.                           *)

StartPath(goal) == IF goal = "login" THEN "/login/start" ELSE "/recovery/start"
SelectPath(goal) == IF goal = "login" THEN "/login/select" ELSE "/recovery/select"

Start(h, c, goal, e, pw, otp) ==
  /\ Serve(h, StartPath(goal))
  /\ MayOpen(c)
  /\ UnusedKey(c)
  /\ (pw = None) # (otp = None)
  /\ Goto(h, [pc |-> "auth", client |-> c, goal |-> goal, email |-> e,
              password |-> pw, otp |-> otp])
  /\ usedKeys' = usedKeys \cup {c}
  /\ UNCHANGED <<store, commits, cleaner, restarts, drawn, signed, mailed, redeemed, opened>>

(* get_authenticated_sessions reads the index of the email, ...            *)
AuthIndex(h) ==
  LET t == task[h]
  IN  /\ t.pc = "auth"
      /\ Goto(h, IF t.email \notin DOMAIN index THEN Idle
                 ELSE IF t.otp = None
                 THEN [pc |-> "collect", client |-> t.client, goal |-> t.goal,
                       email |-> t.email, password |-> t.password,
                       clients |-> index[t.email]]
                 ELSE [pc |-> "otp", client |-> t.client, goal |-> t.goal,
                       email |-> t.email, otp |-> t.otp, clients |-> index[t.email]])
      /\ UNCHANGED <<store, commits, cleaner, restarts, history>>

(* ... for a one-time password gets the email's challenge, ...             *)
OtpGet(h) ==
  LET t == task[h]
  IN  /\ t.pc = "otp"
      /\ Goto(h, IF t.email \notin DOMAIN challenges THEN Idle
                 ELSE [pc |-> "otp_delete", client |-> t.client, goal |-> t.goal,
                       email |-> t.email, otp |-> t.otp, clients |-> t.clients,
                       match |-> challenges[t.email].otp = t.otp,
                       late |-> challenges[t.email].old])
      /\ UNCHANGED <<store, commits, cleaner, restarts, history>>

(* Mutant: the challenge is deleted only when the password is wrong.       *)
OtpDeleteIfWrong(h) ==
  LET t == task[h]
  IN  /\ t.pc = "otp_delete"
      /\ challenges' = IF t.match THEN challenges ELSE Drop(challenges, t.email)
      /\ redeemed' = IF t.match
                       THEN redeemed \cup {[otp |-> t.otp, by |-> t.client, goal |-> t.goal,
                                             late |-> t.late,
                                             again |-> AcceptedBefore(t.otp)]}
                       ELSE redeemed
      /\ Goto(h, IF t.match
                   THEN [pc |-> "collect", client |-> t.client, goal |-> t.goal,
                         email |-> t.email, password |-> None, clients |-> t.clients]
                   ELSE Idle)
      /\ UNCHANGED <<sessions, logins, recoveries, index, commits, cleaner, restarts,
                     drawn, signed, mailed, opened, usedKeys>>

(* ... deletes whatever challenge the email now has, and compares with the *)
(* copy it got, ...                                                        *)
OtpDelete(h) ==
  LET t == task[h]
  IN  /\ t.pc = "otp_delete"
      /\ challenges' = Drop(challenges, t.email)
      /\ redeemed' = IF t.match
                       THEN redeemed \cup {[otp |-> t.otp, by |-> t.client, goal |-> t.goal,
                                             late |-> t.late,
                                             again |-> AcceptedBefore(t.otp)]}
                       ELSE redeemed
      /\ Goto(h, IF t.match
                   THEN [pc |-> "collect", client |-> t.client, goal |-> t.goal,
                         email |-> t.email, password |-> None, clients |-> t.clients]
                   ELSE Idle)
      /\ UNCHANGED <<sessions, logins, recoveries, index, commits, cleaner, restarts,
                     drawn, signed, mailed, opened, usedKeys>>

(* ... and gets the sessions of the listed clients, with a password those  *)
(* that have the same one.  The code gets them one after the other; they   *)
(* are one step here, since nothing is made of two of them together.       *)
Authenticated(t) ==
  {c \in t.clients \cap DOMAIN sessions :
     t.password = None \/ sessions[c].password = t.password}

Collect(h) ==
  LET t == task[h]
      found == Authenticated(t)
  IN  /\ t.pc = "collect"
      /\ opened' = opened \cup {[asked |-> t.email, email |-> sessions[c].email] : c \in found}
      /\ Goto(h, IF found = {} THEN Idle
                 ELSE [pc |-> "grant", client |-> t.client, goal |-> t.goal, clients |-> found])
      /\ UNCHANGED <<store, commits, cleaner, restarts,
                     drawn, signed, mailed, redeemed, usedKeys>>

(* The options offered are stored under the caller's key.                  *)
StoreGrant(h) ==
  LET t == task[h]
      grant == [clients |-> t.clients, old |-> FALSE]
  IN  /\ t.pc = "grant"
      /\ \/ t.goal = "login" /\ logins' = Put(logins, t.client, grant) /\ UNCHANGED recoveries
         \/ t.goal = "recovery" /\ recoveries' = Put(recoveries, t.client, grant)
            /\ UNCHANGED logins
      /\ Goto(h, Idle)
      /\ UNCHANGED <<sessions, challenges, index, commits, cleaner, restarts, history>>

-----------------------------------------------------------------------------
(* handle_login_select and handle_recovery_select: get the options of the  *)
(* key, delete them, get the chosen session.                               *)

Granted(goal) == IF goal = "login" THEN logins ELSE recoveries

Select(h, c, goal, target) ==
  /\ Serve(h, SelectPath(goal))
  /\ c \in DOMAIN Granted(goal)
  /\ Goto(h, [pc |-> "select", client |-> c, goal |-> goal, target |-> target,
              grant |-> Granted(goal)[c]])
  /\ UNCHANGED <<store, commits, cleaner, restarts, history>>

DeleteGrant(h) ==
  LET t == task[h]
  IN  /\ t.pc = "select"
      /\ \/ t.goal = "login" /\ logins' = Drop(logins, t.client) /\ UNCHANGED recoveries
         \/ t.goal = "recovery" /\ recoveries' = Drop(recoveries, t.client) /\ UNCHANGED logins
      /\ Goto(h, IF t.target \in t.grant.clients
                   THEN [pc |-> "load", client |-> t.client, goal |-> t.goal,
                         target |-> t.target]
                   ELSE Idle)
      /\ UNCHANGED <<sessions, challenges, index, commits, cleaner, restarts, history>>

(* A login copies the chosen session, deactivated or not, to the caller's  *)
(* key; a recovery answers with its group and share.                       *)
Load(h) ==
  LET t == task[h]
  IN  /\ t.pc = "load"
      /\ Goto(h, IF t.goal = "login" /\ t.target \in DOMAIN sessions
                   THEN [pc |-> "add", client |-> t.client,
                         session |-> [sessions[t.target] EXCEPT
                                        !.recovery = TRUE, !.old = FALSE, !.idle = FALSE,
                                        !.deactivated = FALSE]]
                   ELSE Idle)
      /\ UNCHANGED <<store, commits, cleaner, restarts, history>>

AuthNext ==
  \E h \in Handler :
    \/ \E e \in Email : Challenge(h, e)
    \/ SendChallenge(h) \/ SkipChallenge(h)
    \/ \E c \in Client, goal \in Goal, e \in Email, pw \in Password \cup {None},
          otp \in Otp \cup {None} : Start(h, c, goal, e, pw, otp)
    \/ AuthIndex(h) \/ OtpGet(h) \/ OtpDelete(h) \/ Collect(h) \/ StoreGrant(h)
    \/ \E c, target \in Client, goal \in Goal : Select(h, c, goal, target)
    \/ DeleteGrant(h) \/ Load(h)
=============================================================================
