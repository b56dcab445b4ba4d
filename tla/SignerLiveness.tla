---------------------------- MODULE SignerLiveness ----------------------------
(***************************************************************************)
(* What the Rust signer eventually does.                                   *)
(***************************************************************************)
EXTENDS SignerProperties

(* The next access of the request that worker thread h is serving.         *)
Continue(h) ==
  \/ PushCommit(h) \/ TakeCommit(h) \/ FinishSign(h) \/ FinishEcdh(h) \/ Refuse(h)
  \/ AddSession(h) \/ IndexGet(h) \/ IndexSet(h)
  \/ DeactivateGet(h) \/ DeactivateSet(h)
  \/ DeleteGet(h) \/ UnindexGet(h) \/ UnindexSet(h) \/ RemoveSession(h)
  \/ SendChallenge(h) \/ SkipChallenge(h)
  \/ AuthIndex(h) \/ OtpGet(h) \/ OtpDelete(h) \/ Collect(h) \/ StoreGrant(h)
  \/ DeleteGrant(h) \/ Load(h)

(* A worker thread is never preempted for good; a commitment that is not   *)
(* taken gets old; the cleanup task comes round every hour and ends each   *)
(* round with the commitments, whatever it found in the tables before.     *)
Fairness ==
  /\ \A h \in Handler : WF_vars(Continue(h))
  /\ \A e \in CommitEntry : WF_vars(AgeCommit([entry |-> e, stale |-> FALSE]))
  /\ WF_vars(\E k \in cleaner.keys : CleanDelete(k))
  /\ SF_vars(CleanCommits)

FairSpec == Spec /\ Fairness

(* Every request is answered: whatever the other threads write or delete   *)
(* between two of its accesses, a handler has a next step.                 *)
RequestsAnswered == \A h \in Handler : task[h] # Idle ~> task[h] = Idle

(* The secret of a nonce leaves memory: a pending commitment is completed, *)
(* cleaned up or lost in a restart.                                        *)
CommitsEnd == \A n \in Nonce : n \in PendingIds ~> n \notin PendingIds
=============================================================================
