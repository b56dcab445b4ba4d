------------------------------- MODULE RateLimit -------------------------------
(***************************************************************************)
(* One rate-limit bucket of the Rust signer: ratelimit.rs, as the handlers *)
(* use it (check_and_record_rate_limit for a client key, handle_challenge  *)
(* and get_authenticated_sessions for an email) and as cleanup drops it.   *)
(*                                                                         *)
(* A handler gets the bucket, checks the copy, and later sets the bucket   *)
(* it derives from the copy; each of these reads the clock anew.  Buckets  *)
(* of different keys share nothing, so one is enough.                      *)
(***************************************************************************)
EXTENDS Integers, Sequences

CONSTANTS
  Handler,      \* worker threads serving requests of the key
  MaxAttempts,  \* max_attempts
  Window,       \* window_seconds
  MaxTime,      \* bound on the clock
  Spares        \* whether some allowed requests are not recorded (email limit)

ASSUME LimitAssumption == MaxAttempts \in Nat \ {0} /\ Window \in Nat /\ MaxTime \in Nat
ASSUME SparesAssumption == Spares \in BOOLEAN

VARIABLES
  clock,    \* now(), in seconds
  bucket,   \* the stored bucket or NoBucket
  step,     \* what each worker thread holds between its get and its set
  sweep,    \* the copy that cleanup has listed, or NoBucket
  \* history, which no handler reads
  recorded,   \* the times of the recorded requests, in order
  overlapped  \* whether two requests were ever between get and set at once

vars == <<clock, bucket, step, sweep, recorded, overlapped>>

NoBucket == [attempts |-> 0, first |-> 0, last |-> 0]
Free == [pc |-> "free"]

(* now().saturating_sub(window_seconds)                                    *)
WindowStart(now) == IF now > Window THEN now - Window ELSE 0
InWindow(b, now) == b # NoBucket /\ b.last >= WindowStart(now)

(* Mutant: one request more than the limit passes.                         *)
IsOverLimit(b, now) == InWindow(b, now) /\ b.attempts > MaxAttempts

IsRateLimited(b, now) == InWindow(b, now) /\ b.attempts >= MaxAttempts

(* Mutant: the count goes on when the window is over.                      *)
RecordAttemptOn(b, now) ==
  IF InWindow(b, now)
    THEN [attempts |-> b.attempts + 1, first |-> b.first, last |-> now]
    ELSE [attempts |-> b.attempts + 1, first |-> now, last |-> now]

RecordAttempt(b, now) ==
  IF InWindow(b, now)
    THEN [attempts |-> b.attempts + 1, first |-> b.first, last |-> now]
    ELSE [attempts |-> 1, first |-> now, last |-> now]

Init ==
  /\ clock = 1
  /\ bucket = NoBucket
  /\ step = [h \in Handler |-> Free]
  /\ sweep = NoBucket
  /\ recorded = <<>>
  /\ overlapped = FALSE

Get(h) ==
  /\ step[h] = Free
  /\ step' = [step EXCEPT ![h] = [pc |-> "check", copy |-> bucket]]
  /\ overlapped' = (overlapped \/ \E g \in Handler \ {h} : step[g] # Free)
  /\ UNCHANGED <<clock, bucket, sweep, recorded>>

(* A limited request is refused and changes nothing.                       *)
Check(h) ==
  /\ step[h].pc = "check"
  /\ step' = [step EXCEPT ![h] =
                IF IsRateLimited(step[h].copy, clock)
                  THEN Free
                  ELSE [pc |-> "record", copy |-> step[h].copy]]
  /\ UNCHANGED <<clock, bucket, sweep, recorded, overlapped>>

Record(h) ==
  /\ step[h].pc = "record"
  /\ bucket' = RecordAttempt(step[h].copy, clock)
  /\ recorded' = Append(recorded, clock)
  /\ step' = [step EXCEPT ![h] = Free]
  /\ UNCHANGED <<clock, sweep, overlapped>>

(* A correct password or one-time password, and a challenge for an email   *)
(* without a session, are not recorded.                                    *)
Spare(h) ==
  /\ Spares
  /\ step[h].pc = "record"
  /\ step' = [step EXCEPT ![h] = Free]
  /\ UNCHANGED <<clock, bucket, sweep, recorded, overlapped>>

(* cleanup lists the bucket, compares the listed copy with the clock, and  *)
(* if the copy has run out deletes whatever bucket the key has by then.    *)
SweepList ==
  /\ sweep = NoBucket /\ bucket # NoBucket
  /\ sweep' = bucket
  /\ UNCHANGED <<clock, bucket, step, recorded, overlapped>>

SweepDelete ==
  /\ sweep # NoBucket
  /\ bucket' = IF sweep.last < WindowStart(clock) THEN NoBucket ELSE bucket
  /\ sweep' = NoBucket
  /\ UNCHANGED <<clock, step, recorded, overlapped>>

Tick ==
  /\ clock < MaxTime
  /\ clock' = clock + 1
  /\ UNCHANGED <<bucket, step, sweep, recorded, overlapped>>

Next ==
  \/ \E h \in Handler : Get(h) \/ Check(h) \/ Record(h) \/ Spare(h)
  \/ SweepList \/ SweepDelete
  \/ Tick

Spec == Init /\ [][Next]_vars

-----------------------------------------------------------------------------

(* As long as requests of the key follow one another, no stretch of        *)
(* window_seconds sees more than max_attempts recorded requests, and one   *)
(* more max_attempts when a cleanup pass falls into it, which may delete a *)
(* bucket that was renewed after it was listed.                            *)
BudgetHolds ==
  ~overlapped =>
    \A k \in 1..(Len(recorded) - 2 * MaxAttempts) :
      recorded[k + 2 * MaxAttempts] > recorded[k] + Window

(* Whatever updates overlapping requests lose, a bucket never counts more  *)
(* requests than were recorded since it began, so no key is refused that   *)
(* did not make max_attempts recorded requests.                            *)
RefusalEarned ==
  bucket # NoBucket =>
    /\ bucket.attempts <= Len(recorded)
    /\ \A k \in (Len(recorded) - bucket.attempts + 1)..Len(recorded) :
         recorded[k] >= bucket.first
=============================================================================
