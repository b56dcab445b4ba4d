--------------------------- MODULE SessionHandlers ---------------------------
(***************************************************************************)
(* The life of a session in the Rust signer: handle_register,              *)
(* handle_recovery_setup, handle_session_deactivate, handle_session_delete *)
(* and the helpers they share, add_session, deactivate_session and         *)
(* delete_session.  handle_session_list only reads and has no action.      *)
(***************************************************************************)
EXTENDS SignerState

(* Mutant: pending logins are forgotten.                                   *)
UnusedBySessions(c) == c \notin DOMAIN sessions \cup DOMAIN recoveries

(* check_key_reuse: the key has no session, recovery or login.  Its three  *)
(* lookups are one step.                                                   *)
UnusedKey(c) == c \notin DOMAIN sessions \cup DOMAIN recoveries \cup DOMAIN logins

(* The checks on proof of work, group and share are on the request alone;  *)
(* the requests modelled here pass them.  The second lookup of the session *)
(* is one step with check_key_reuse: what races with the write is the same *)
(* either way.                                                             *)
Register(h, c, g, i, recovery) ==
  /\ Serve(h, "/register")
  /\ MayOpen(c)
  /\ UnusedKey(c)
  /\ Goto(h, [pc |-> "add", client |-> c,
              session |-> [group |-> g, idx |-> i, recovery |-> recovery, old |-> FALSE,
                           idle |-> FALSE, deactivated |-> FALSE, email |-> None,
                           password |-> None]])
  /\ usedKeys' = usedKeys \cup {c}
  /\ UNCHANGED <<store, commits, cleaner, restarts, drawn, signed, mailed, redeemed, opened>>

(* Mutant: the email may be set a second time.                             *)
RecoverySetupAgain(h, c, e, pw) ==
  /\ Serve(h, "/recovery/setup")
  /\ c \in DOMAIN sessions
  /\ sessions[c].recovery /\ ~sessions[c].old
  /\ Goto(h, [pc |-> "add", client |-> c,
              session |-> [Touched(sessions[c]) EXCEPT !.email = e, !.password = pw]])
  /\ UNCHANGED <<store, commits, cleaner, restarts, history>>

(* The session is read, and the time spent hashing the email lies between  *)
(* that read and the write.                                                *)
RecoverySetup(h, c, e, pw) ==
  /\ Serve(h, "/recovery/setup")
  /\ c \in DOMAIN sessions
  /\ sessions[c].recovery /\ ~sessions[c].old /\ sessions[c].email = None
  /\ Goto(h, [pc |-> "add", client |-> c,
              session |-> [Touched(sessions[c]) EXCEPT !.email = e, !.password = pw]])
  /\ UNCHANGED <<store, commits, cleaner, restarts, history>>

(* add_session: write the session, then read and write the email's index.  *)
AddSession(h) ==
  /\ task[h].pc = "add"
  /\ sessions' = Put(sessions, task[h].client, task[h].session)
  /\ Goto(h, IF task[h].session.email = None
               THEN Idle
               ELSE [pc |-> "index_get", client |-> task[h].client,
                     email |-> task[h].session.email])
  /\ UNCHANGED <<logins, recoveries, challenges, index, commits, cleaner, restarts, history>>

(* Mutant: the list of the email is begun anew.                            *)
ListedNone(e) == {}

(* The Vec of an index entry holds no client twice, so it is a set here;   *)
(* no entry is ever stored empty.                                          *)
Listed(e) == IF e \in DOMAIN index THEN index[e] ELSE {}

IndexGet(h) ==
  /\ task[h].pc = "index_get"
  /\ Goto(h, [pc |-> "index_set", client |-> task[h].client, email |-> task[h].email,
              clients |-> Listed(task[h].email) \cup {task[h].client}])
  /\ UNCHANGED <<store, commits, cleaner, restarts, history>>

IndexSet(h) ==
  /\ task[h].pc = "index_set"
  /\ index' = Put(index, task[h].email, task[h].clients)
  /\ Goto(h, Idle)
  /\ UNCHANGED <<sessions, logins, recoveries, challenges, commits, cleaner, restarts, history>>

-----------------------------------------------------------------------------
(* Deactivation and deletion are asked for by the user key of the group.   *)

SessionDeactivate(h, pk, c) ==
  /\ Serve(h, "/session/deactivate")
  /\ c \in DOMAIN sessions /\ sessions[c].group = pk
  /\ Goto(h, [pc |-> "deactivate", client |-> c])
  /\ UNCHANGED <<store, commits, cleaner, restarts, history>>

(* deactivate_session reads the session a second time ...                  *)
DeactivateGet(h) ==
  /\ task[h].pc = "deactivate"
  /\ LET c == task[h].client
     IN  Goto(h, IF c \in DOMAIN sessions
                   THEN [pc |-> "deactivate_set", client |-> c,
                         session |-> [sessions[c] EXCEPT !.deactivated = TRUE]]
                   ELSE Idle)
  /\ UNCHANGED <<store, commits, cleaner, restarts, history>>

(* ... and writes the whole record back.                                   *)
DeactivateSet(h) ==
  /\ task[h].pc = "deactivate_set"
  /\ sessions' = Put(sessions, task[h].client, task[h].session)
  /\ Goto(h, Idle)
  /\ UNCHANGED <<logins, recoveries, challenges, index, commits, cleaner, restarts, history>>

SessionDelete(h, pk, c) ==
  /\ Serve(h, "/session/delete")
  /\ c \in DOMAIN sessions /\ sessions[c].group = pk
  /\ Goto(h, [pc |-> "delete", client |-> c])
  /\ UNCHANGED <<store, commits, cleaner, restarts, history>>

(* Mutant: a session without an email is looked for in the index.          *)
DeleteGetAnyEmail(h) ==
  /\ task[h].pc = "delete"
  /\ LET c == task[h].client
     IN  Goto(h, IF c \notin DOMAIN sessions THEN Idle
                 ELSE [pc |-> "unindex_get", client |-> c, email |-> sessions[c].email])
  /\ UNCHANGED <<store, commits, cleaner, restarts, history>>

(* delete_session: read the session, take the client out of its email's    *)
(* index, delete the session.                                              *)
DeleteGet(h) ==
  /\ task[h].pc = "delete"
  /\ LET c == task[h].client
     IN  Goto(h, IF c \notin DOMAIN sessions THEN Idle
                 ELSE IF sessions[c].email = None THEN [pc |-> "remove", client |-> c]
                 ELSE [pc |-> "unindex_get", client |-> c, email |-> sessions[c].email])
  /\ UNCHANGED <<store, commits, cleaner, restarts, history>>

UnindexGet(h) ==
  /\ task[h].pc = "unindex_get"
  /\ LET c == task[h].client
         e == task[h].email
     IN  Goto(h, IF e \in DOMAIN index
                   THEN [pc |-> "unindex_set", client |-> c, email |-> e,
                         clients |-> index[e] \ {c}]
                   ELSE [pc |-> "remove", client |-> c])
  /\ UNCHANGED <<store, commits, cleaner, restarts, history>>

UnindexSet(h) ==
  /\ task[h].pc = "unindex_set"
  /\ index' = IF task[h].clients = {} THEN Drop(index, task[h].email)
              ELSE Put(index, task[h].email, task[h].clients)
  /\ Goto(h, [pc |-> "remove", client |-> task[h].client])
  /\ UNCHANGED <<sessions, logins, recoveries, challenges, commits, cleaner, restarts, history>>

RemoveSession(h) ==
  /\ task[h].pc = "remove"
  /\ sessions' = Drop(sessions, task[h].client)
  /\ Goto(h, Idle)
  /\ UNCHANGED <<logins, recoveries, challenges, index, commits, cleaner, restarts, history>>

SessionsNext ==
  \E h \in Handler :
    \/ \E c \in Client, g \in Group, i \in Idx, r \in Recovery : Register(h, c, g, i, r)
    \/ \E c \in Client, e \in Email, pw \in Password : RecoverySetup(h, c, e, pw)
    \/ AddSession(h) \/ IndexGet(h) \/ IndexSet(h)
    \/ \E pk \in Group, c \in Client : SessionDeactivate(h, pk, c)
    \/ DeactivateGet(h) \/ DeactivateSet(h)
    \/ \E pk \in Group, c \in Client : SessionDelete(h, pk, c)
    \/ DeleteGet(h) \/ UnindexGet(h) \/ UnindexSet(h) \/ RemoveSession(h)
=============================================================================
