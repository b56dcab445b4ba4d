-------------------------------- MODULE Signer --------------------------------
(***************************************************************************)
(* The Rust signer: its handlers on worker threads, its hourly cleanup     *)
(* task, the passage of time and restarts of the process.                  *)
(***************************************************************************)
EXTENDS SigningHandlers, AuthHandlers

Tables == {"recoveries", "logins", "challenges", "sessions"}
Resting == [table |-> None, keys |-> {}]

Init ==
  /\ sessions = Empty /\ logins = Empty /\ recoveries = Empty /\ challenges = Empty
  /\ index = Empty
  /\ commits = {}
  /\ task = [h \in Handler |-> Idle]
  /\ cleaner = Resting
  /\ restarts = 0
  /\ drawn = {} /\ signed = {}
  /\ mailed = {} /\ redeemed = {} /\ opened = {} /\ usedKeys = {}

-----------------------------------------------------------------------------
(* cleanup: for each table, list the entries, then delete the expired ones *)
(* one by one; a table with none expired is passed over without a trace.   *)
(* The tables come in any order here.  (The loops over the rate-limit      *)
(* buckets are in RateLimit.tla.)                                          *)

Expired(table) ==
  CASE table = "recoveries" -> {k \in DOMAIN recoveries : recoveries[k].old}
    [] table = "logins"     -> {k \in DOMAIN logins : logins[k].old}
    [] table = "challenges" -> {k \in DOMAIN challenges : challenges[k].old}
    [] table = "sessions"   -> {k \in DOMAIN sessions : sessions[k].idle}

CleanScan(table) ==
  /\ cleaner = Resting
  /\ Expired(table) # {}
  /\ cleaner' = [table |-> table, keys |-> Expired(table)]
  /\ UNCHANGED <<store, commits, task, restarts, history>>

(* The session is deleted, its entry in the email index stays.             *)
CleanDelete(k) ==
  LET t == cleaner.table
      rest == cleaner.keys \ {k}
  IN  /\ k \in cleaner.keys
      /\ cleaner' = IF rest = {} THEN Resting ELSE [cleaner EXCEPT !.keys = rest]
      /\ recoveries' = IF t = "recoveries" THEN Drop(recoveries, k) ELSE recoveries
      /\ logins' = IF t = "logins" THEN Drop(logins, k) ELSE logins
      /\ challenges' = IF t = "challenges" THEN Drop(challenges, k) ELSE challenges
      /\ sessions' = IF t = "sessions" THEN Drop(sessions, k) ELSE sessions
      /\ UNCHANGED <<index, commits, task, restarts, history>>

(* Mutant: the test of retain is inverted.                                 *)
CleanCommitsInverted ==
  /\ cleaner = Resting
  /\ \E p \in commits : p.stale
  /\ commits' = {p \in commits : p.stale}
  /\ UNCHANGED <<store, task, cleaner, restarts, history>>

(* Last, under the lock, the commitments past their time.                  *)
CleanCommits ==
  /\ cleaner = Resting
  /\ \E p \in commits : p.stale
  /\ commits' = {p \in commits : ~p.stale}
  /\ UNCHANGED <<store, task, cleaner, restarts, history>>

Cleanup ==
  \/ \E table \in Tables : CleanScan(table)
  \/ \E k \in cleaner.keys : CleanDelete(k)
  \/ CleanCommits

-----------------------------------------------------------------------------
(* Time passes.  The windows of a session are so much longer than a        *)
(* request that none elapses while a handler holds a copy of the session.  *)

Copied(c) == \E h \in Handler : "session" \in DOMAIN task[h] /\ task[h].client = c

AgeSession(c) ==
  /\ "session" \in Elapses
  /\ c \in DOMAIN sessions /\ ~Copied(c)
  /\ \/ ~sessions[c].old /\ sessions' = Put(sessions, c, [sessions[c] EXCEPT !.old = TRUE])
     \/ /\ ~sessions[c].idle
        /\ sessions' = Put(sessions, c, [sessions[c] EXCEPT !.old = TRUE, !.idle = TRUE])
  /\ UNCHANGED <<logins, recoveries, challenges, index, commits, task, cleaner, restarts,
                 history>>

Aged(table, k) == Put(table, k, [table[k] EXCEPT !.old = TRUE])

AgeGrant ==
  /\ "grant" \in Elapses
  /\ \/ /\ \E c \in DOMAIN logins : ~logins[c].old /\ logins' = Aged(logins, c)
        /\ UNCHANGED <<recoveries, challenges>>
     \/ /\ \E c \in DOMAIN recoveries : ~recoveries[c].old /\ recoveries' = Aged(recoveries, c)
        /\ UNCHANGED <<logins, challenges>>
     \/ /\ \E e \in DOMAIN challenges : ~challenges[e].old /\ challenges' = Aged(challenges, e)
        /\ UNCHANGED <<logins, recoveries>>
  /\ UNCHANGED <<sessions, index, commits, task, cleaner, restarts, history>>

AgeCommit(p) ==
  /\ "commit" \in Elapses
  /\ p \in commits /\ ~p.stale
  /\ commits' = (commits \ {p}) \cup {[entry |-> p.entry, stale |-> TRUE]}
  /\ UNCHANGED <<store, task, cleaner, restarts, history>>

(* The process ends and starts again: the tables are on disk, the pending  *)
(* commitments and the requests being served are gone.                     *)
Restart ==
  /\ restarts < MaxRestarts
  /\ restarts' = restarts + 1
  /\ commits' = {}
  /\ task' = [h \in Handler |-> Idle]
  /\ cleaner' = Resting
  /\ UNCHANGED <<store, history>>

Environment ==
  \/ \E c \in Client : AgeSession(c)
  \/ AgeGrant
  \/ \E p \in commits : AgeCommit(p)
  \/ Restart

Next == SigningNext \/ SessionsNext \/ AuthNext \/ Cleanup \/ Environment

Spec == Init /\ [][Next]_vars

-----------------------------------------------------------------------------

(* Every table holds only keys and values of its kind, and every worker    *)
(* thread is at a point of a handler with the locals that point has.       *)
TypeOK ==
  /\ Table(Client, SignerSession, sessions)
  /\ Table(Client, Grant, logins)
  /\ Table(Client, Grant, recoveries)
  /\ Table(Email, SignerChallenge, challenges)
  /\ Table(Email, SUBSET Client, index)
  /\ commits \subseteq Pending
  /\ \A h \in Handler : task[h] \in Task
  /\ DOMAIN task = Handler
  /\ cleaner \in [table : Tables \cup {None}, keys : SUBSET (Client \cup Email)]
  /\ restarts \in 0..MaxRestarts
  /\ drawn \subseteq CommitEntry /\ signed \subseteq Psig
  /\ mailed \subseteq Mail /\ redeemed \subseteq Redemption
  /\ opened \subseteq Opening /\ usedKeys \subseteq Client
=============================================================================
