---------------------------- MODULE RateLimitProofs ----------------------------
(***************************************************************************)
(* What a rate-limit bucket guarantees, for any limit, any window, any     *)
(* number of worker threads and any passage of time: nobody is refused     *)
(* without cause, and the budget of a window holds.                        *)
(***************************************************************************)
EXTENDS RateLimit, TLAPS

Bucket == [attempts : Nat, first : Nat, last : Nat]
Step == {Free} \cup [pc : {"check", "record"}, copy : Bucket]

Typed ==
  /\ clock \in Nat
  /\ bucket \in Bucket /\ sweep \in Bucket
  /\ step \in [Handler -> Step]
  /\ recorded \in Seq(Nat)
  /\ overlapped \in BOOLEAN

(* The requests are recorded in the order of the clock.                    *)
InOrder ==
  /\ \A k \in 1..Len(recorded) : recorded[k] <= clock
  /\ \A j, k \in 1..Len(recorded) : j <= k => recorded[j] <= recorded[k]

(* The last b.attempts requests were recorded since the bucket b began, as *)
(* the code that counted them means it.                                    *)
Earned(b) ==
  /\ b.attempts <= MaxAttempts /\ b.attempts <= Len(recorded)
  /\ b.first <= b.last /\ b.last <= clock
  /\ \A k \in (Len(recorded) - b.attempts + 1)..Len(recorded) : recorded[k] >= b.first

InFlight(h) == step[h] # Free

(* A request that is about to be recorded was not refused.                 *)
Admitted(h) ==
  step[h].pc = "record" /\ InWindow(step[h].copy, clock) => step[h].copy.attempts < MaxAttempts

EarnedInv ==
  /\ Typed /\ InOrder
  /\ Earned(bucket)
  /\ \A h \in Handler : InFlight(h) => Earned(step[h].copy) /\ Admitted(h)

(* There is no bucket at first (Init).                                     *)
LEMMA EarnedAtFirst == Init => EarnedInv
<1> SUFFICES ASSUME Init PROVE EarnedInv
  OBVIOUS
<1>1. Typed
  <2>1. NoBucket \in Bucket /\ clock \in Nat /\ overlapped \in BOOLEAN
    BY DEF Init, Bucket, NoBucket
  <2>2. step \in [Handler -> Step]
    BY DEF Init, Step
  <2>3. recorded \in Seq(Nat)
    BY DEF Init
  <2> QED
    BY <2>1, <2>2, <2>3 DEF Init, Typed
<1>2. Earned(bucket) /\ InOrder /\ \A h \in Handler : ~InFlight(h)
  BY LimitAssumption DEF Init, Earned, InOrder, InFlight, NoBucket
<1> QED
  BY <1>1, <1>2 DEF EarnedInv

(* Nothing is recorded: the clock may go on, and copies may be made of     *)
(* what is there.                                                          *)
LEMMA EarnedStays ==
  ASSUME EarnedInv, UNCHANGED recorded, clock' \in Nat, clock' >= clock,
         NEW b \in Bucket, Earned(b)
  PROVE  Earned(b)' /\ InOrder'
BY SMTT(20) DEF EarnedInv, Typed, Earned, InOrder, Bucket

(* A key without a bucket has nothing counted against it.                  *)
LEMMA NoBucketEarned == EarnedInv => NoBucket \in Bucket /\ Earned(NoBucket)
BY LimitAssumption DEF EarnedInv, Typed, Earned, NoBucket, Bucket

(* A window that is over stays over.                                       *)
LEMMA WindowEnds ==
  ASSUME NEW b \in Bucket, NEW s \in Nat, NEW t \in Nat, s <= t, InWindow(b, t)
  PROVE  InWindow(b, s)
BY LimitAssumption DEF InWindow, WindowStart, Bucket

(* The step of one worker thread that records nothing.                     *)
LEMMA ThreadKeepsEarned ==
  ASSUME EarnedInv, NEW h \in Handler, NEW t \in Step, step' = [step EXCEPT ![h] = t],
         UNCHANGED <<clock, bucket, sweep, recorded>>, overlapped' \in BOOLEAN,
         t # Free => Earned(t.copy)
                     /\ (t.pc = "record" /\ InWindow(t.copy, clock) => t.copy.attempts < MaxAttempts)
  PROVE  EarnedInv'
<1>1. Typed'
  BY DEF EarnedInv, Typed
<1>2. Earned(bucket)' /\ InOrder'
  BY DEF EarnedInv, Earned, InOrder
<1>3. ASSUME NEW g \in Handler, InFlight(g)' PROVE Earned(step[g].copy)' /\ Admitted(g)'
  <2>1. step'[g] = IF g = h THEN t ELSE step[g]
    BY DEF EarnedInv, Typed
  <2>2. CASE g = h
    BY <1>3, <2>1, <2>2 DEF InFlight, Admitted, Earned
  <2>3. CASE g # h
    BY <1>3, <2>1, <2>3 DEF EarnedInv, InFlight, Admitted, Earned
  <2> QED
    BY <2>2, <2>3
<1> QED
  BY <1>1, <1>2, <1>3 DEF EarnedInv

(* A handler gets the bucket (Get).                                        *)
LEMMA GetKeepsEarned == ASSUME EarnedInv, NEW h \in Handler, Get(h) PROVE EarnedInv'
<1> DEFINE t == [pc |-> "check", copy |-> bucket]
<1>1. t \in Step /\ Earned(t.copy) /\ t.pc = "check"
  BY DEF EarnedInv, Typed, Step
<1>2. step' = [step EXCEPT ![h] = t] /\ overlapped' \in BOOLEAN
        /\ UNCHANGED <<clock, bucket, sweep, recorded>>
  BY DEF Get, EarnedInv, Typed
<1> QED
  BY <1>1, <1>2, ThreadKeepsEarned

(* It refuses the request or lets it pass (is_rate_limited).               *)
LEMMA CheckKeepsEarned == ASSUME EarnedInv, NEW h \in Handler, Check(h) PROVE EarnedInv'
<1> DEFINE c == step[h].copy
           t == IF IsRateLimited(c, clock) THEN Free ELSE [pc |-> "record", copy |-> c]
<1>1. step[h] \in Step /\ InFlight(h)
  BY DEF Check, EarnedInv, Typed, InFlight, Free
<1>2. c \in Bucket /\ Earned(c)
  BY <1>1 DEF EarnedInv, Step, InFlight
<1>3. t \in Step
  BY <1>2 DEF Step
<1>4. t # Free => t.copy = c /\ (InWindow(c, clock) => c.attempts < MaxAttempts)
  BY <1>2, LimitAssumption DEF IsRateLimited, Bucket
<1>5. step' = [step EXCEPT ![h] = t] /\ overlapped' \in BOOLEAN
        /\ UNCHANGED <<clock, bucket, sweep, recorded>>
  BY DEF Check, EarnedInv, Typed
<1> HIDE DEF t, c
<1> QED
  BY <1>2, <1>3, <1>4, <1>5, ThreadKeepsEarned

(* A request that is not counted leaves the bucket as it is (Spare).       *)
LEMMA SpareKeepsEarned == ASSUME EarnedInv, NEW h \in Handler, Spare(h) PROVE EarnedInv'
<1>1. step' = [step EXCEPT ![h] = Free] /\ overlapped' \in BOOLEAN
        /\ UNCHANGED <<clock, bucket, sweep, recorded>> /\ Free \in Step
  BY DEF Spare, EarnedInv, Typed, Step
<1> QED
  BY <1>1, ThreadKeepsEarned

(* What Append does to the times.                                          *)
LEMMA Appended ==
  ASSUME Typed, recorded' = Append(recorded, clock)
  PROVE  /\ Len(recorded) \in Nat
         /\ recorded' \in Seq(Nat) /\ Len(recorded)' = Len(recorded) + 1
         /\ \A k \in 1..Len(recorded) : recorded'[k] = recorded[k] /\ recorded[k] \in Nat
         /\ recorded'[Len(recorded) + 1] = clock
BY DEF Typed

(* The bucket that RecordAttempt makes, and the request it records.        *)
LEMMA RecordKeepsEarned == ASSUME EarnedInv, NEW h \in Handler, Record(h) PROVE EarnedInv'
<1> DEFINE n == Len(recorded)
           c == step[h].copy
<1>1. step[h] \in Step /\ InFlight(h) /\ step[h].pc = "record"
  BY DEF Record, EarnedInv, Typed, InFlight, Free
<1>2. c \in Bucket /\ Earned(c) /\ (InWindow(c, clock) => c.attempts < MaxAttempts)
  BY <1>1 DEF EarnedInv, Step, InFlight, Admitted
<1>3. /\ bucket' = RecordAttempt(c, clock) /\ recorded' = Append(recorded, clock)
      /\ step' = [step EXCEPT ![h] = Free] /\ UNCHANGED <<clock, sweep, overlapped>>
  BY DEF Record
<1>4. /\ n \in Nat
      /\ recorded' \in Seq(Nat) /\ Len(recorded)' = n + 1
      /\ \A k \in 1..n : recorded'[k] = recorded[k] /\ recorded[k] \in Nat
      /\ recorded'[n + 1] = clock
  BY <1>3, Appended DEF EarnedInv
<1> HIDE DEF n, c
<1>5. Typed'
  BY <1>2, <1>3, <1>4 DEF EarnedInv, Typed, RecordAttempt, Bucket, Step
<1>6. InOrder'
  BY <1>3, <1>4 DEF EarnedInv, Typed, InOrder, n
<1>7. ASSUME NEW f \in Nat, NEW a \in Nat, NEW m \in Nat, a <= m + 1, m <= n, f <= clock,
             \A k \in (n - m + 1)..n : recorded[k] >= f
      PROVE  \A k \in ((n + 1) - a + 1)..(n + 1) : recorded'[k] >= f
  <2> SUFFICES ASSUME NEW k \in ((n + 1) - a + 1)..(n + 1) PROVE recorded'[k] >= f
    OBVIOUS
  <2>1. CASE k = n + 1
    BY <1>4, <1>7, <2>1
  <2>2. CASE k # n + 1
    <3>1. k \in 1..n /\ k \in (n - m + 1)..n
      BY <1>4, <1>7, <2>2
    <3> QED
      BY <1>4, <1>7, <3>1
  <2> QED
    BY <2>1, <2>2
<1>8. Earned(bucket)'
  <2>1. CASE InWindow(c, clock)
    <3>1. bucket' = [attempts |-> c.attempts + 1, first |-> c.first, last |-> clock]
      BY <1>3, <2>1 DEF RecordAttempt
    <3>2. /\ c.attempts \in Nat /\ c.first \in Nat /\ c.last \in Nat
          /\ c.attempts <= n /\ c.first <= clock
          /\ \A k \in (n - c.attempts + 1)..n : recorded[k] >= c.first
      BY <1>2, <1>4 DEF EarnedInv, Typed, Earned, Bucket, n
    <3>3. \A k \in ((n + 1) - (c.attempts + 1) + 1)..(n + 1) : recorded'[k] >= c.first
      BY <1>7, <3>2
    <3>4. bucket'.attempts = c.attempts + 1 /\ bucket'.first = c.first /\ bucket'.last = clock
      BY <3>1
    <3>5. Len(recorded') = n + 1 /\ clock' = clock /\ clock \in Nat /\ n \in Nat
      BY <1>3, <1>4 DEF EarnedInv, Typed
    <3>6. c.attempts + 1 <= MaxAttempts
      BY <1>2, <2>1, <3>2, LimitAssumption
    <3> QED
      BY <3>2, <3>3, <3>4, <3>5, <3>6 DEF Earned
  <2>2. CASE ~InWindow(c, clock)
    <3>1. bucket' = [attempts |-> 1, first |-> clock, last |-> clock]
      BY <1>3, <2>2 DEF RecordAttempt
    <3> QED
      BY <1>3, <1>4, <3>1, LimitAssumption DEF EarnedInv, Typed, Earned, Bucket, n
  <2> QED
    BY <2>1, <2>2
<1>9. ASSUME NEW g \in Handler, InFlight(g)' PROVE Earned(step[g].copy)' /\ Admitted(g)'
  <2>1. step'[g] = step[g] /\ InFlight(g)
    BY <1>3, <1>9 DEF EarnedInv, Typed, InFlight
  <2>2. step[g].copy \in Bucket /\ Earned(step[g].copy) /\ Admitted(g)
    BY <2>1 DEF EarnedInv, Typed, Step, InFlight
  <2> DEFINE b == step[g].copy
  <2>3. /\ b.attempts \in Nat /\ b.first \in Nat /\ b.last \in Nat
        /\ b.attempts <= MaxAttempts /\ b.attempts <= n /\ b.first <= b.last /\ b.last <= clock
        /\ b.first <= clock /\ \A k \in (n - b.attempts + 1)..n : recorded[k] >= b.first
    BY <2>2 DEF Bucket, Earned, EarnedInv, Typed, n
  <2> HIDE DEF b
  <2>4. b.attempts <= b.attempts + 1
    BY <2>3
  <2>5. \A k \in ((n + 1) - b.attempts + 1)..(n + 1) : recorded'[k] >= b.first
    BY <1>7, <2>3, <2>4
  <2>6. step'[g].copy = b /\ b.attempts <= n + 1
    BY <1>4, <2>1, <2>3 DEF b
  <2>7. Len(recorded') = n + 1 /\ clock' = clock /\ n \in Nat
    BY <1>3, <1>4
  <2>8. Earned(step[g].copy)'
    BY <2>3, <2>5, <2>6, <2>7 DEF Earned
  <2> QED
    BY <1>3, <2>1, <2>2, <2>8 DEF Admitted
<1> QED
  BY <1>5, <1>6, <1>8, <1>9 DEF EarnedInv

(* Cleanup lists a bucket or deletes it (cleanup).                         *)
LEMMA SweepKeepsEarned == ASSUME EarnedInv, SweepList \/ SweepDelete PROVE EarnedInv'
<1>1. UNCHANGED <<clock, recorded, step, overlapped>> /\ bucket' \in {bucket, NoBucket}
        /\ sweep' \in {bucket, NoBucket}
  BY DEF SweepList, SweepDelete
<1>2. Typed'
  BY <1>1, NoBucketEarned DEF EarnedInv, Typed
<1>3. Earned(bucket)' /\ InOrder'
  BY <1>1, NoBucketEarned DEF EarnedInv, Earned, InOrder
<1>4. \A h \in Handler : InFlight(h)' => Earned(step[h].copy)' /\ Admitted(h)'
  BY <1>1 DEF EarnedInv, Earned, InFlight, Admitted
<1> QED
  BY <1>2, <1>3, <1>4 DEF EarnedInv

(* Time passes (Tick).                                                     *)
LEMMA TickKeepsEarned == ASSUME EarnedInv, Tick PROVE EarnedInv'
<1>1. /\ clock \in Nat /\ clock' = clock + 1
      /\ UNCHANGED <<bucket, step, sweep, recorded, overlapped>>
  BY DEF Tick, EarnedInv, Typed
<1>2. Typed' /\ InOrder' /\ Earned(bucket)'
  BY <1>1, EarnedStays DEF EarnedInv, Typed
<1>3. ASSUME NEW h \in Handler, InFlight(h)' PROVE Earned(step[h].copy)' /\ Admitted(h)'
  <2>1. InFlight(h) /\ step[h].copy \in Bucket /\ Earned(step[h].copy) /\ Admitted(h)
    BY <1>1, <1>3 DEF EarnedInv, Typed, Step, InFlight
  <2>2. Earned(step[h].copy)'
    BY <1>1, <2>1, EarnedStays DEF Earned
  <2>3. InWindow(step[h].copy, clock + 1) => InWindow(step[h].copy, clock)
    BY <1>1, <2>1, WindowEnds
  <2> QED
    BY <1>1, <2>1, <2>2, <2>3 DEF Admitted
<1> QED
  BY <1>2, <1>3 DEF EarnedInv

(* No step lets a bucket count what was not recorded (Next).               *)
LEMMA EarnedInductive == EarnedInv /\ [Next]_vars => EarnedInv'
<1> SUFFICES ASSUME EarnedInv, [Next]_vars PROVE EarnedInv'
  OBVIOUS
<1>1. CASE UNCHANGED vars
  BY <1>1 DEF vars, EarnedInv, Typed, InOrder, Earned, InFlight, Admitted
<1> QED
  BY <1>1, GetKeepsEarned, CheckKeepsEarned, RecordKeepsEarned, SpareKeepsEarned,
     SweepKeepsEarned, TickKeepsEarned DEF Next

(* However requests overlap and whatever cleanup deletes, a bucket counts  *)
(* no more requests than were recorded since it began, and no key is       *)
(* refused that did not make max_attempts of them (check_and_record_rate_limit). *)
THEOREM RefusalIsEarned == Spec => []RefusalEarned
<1>1. EarnedInv => RefusalEarned
  BY DEF EarnedInv, Earned, RefusalEarned
<1> QED
  BY <1>1, EarnedAtFirst, EarnedInductive, PTL DEF Spec

-----------------------------------------------------------------------------
(* The budget, while requests follow one another.                          *)

(* More than max_attempts requests before the last a, the window was over  *)
(* at the time t.                                                          *)
Past(a, t) ==
  \A k \in 1..(Len(recorded) - a - MaxAttempts) : recorded[k] + Window < t

(* A bucket counts the last requests, those before it are older, and among *)
(* them at most max_attempts are less than a window older.                 *)
Counts(b) ==
  b # NoBucket =>
    /\ b.attempts >= 1 /\ b.last = recorded[Len(recorded)]
    /\ \A k \in 1..(Len(recorded) - b.attempts) : recorded[k] <= b.first
    /\ Past(b.attempts, b.first)

(* Without a bucket there are at most max_attempts recent requests.        *)
Fallow(b) == b = NoBucket => Past(0, clock)

Alone(h) == \A g \in Handler \ {h} : ~InFlight(g)

(* The bucket that cleanup listed is the present one at an earlier time,   *)
(* or the present one was begun when that one had run out.                 *)
Listed(b) ==
  b # NoBucket =>
    /\ bucket # NoBucket
    /\ \/ b.last >= bucket.first
       \/ \A k \in 1..(Len(recorded) - bucket.attempts) : recorded[k] + Window < bucket.first

Sequential ==
  /\ \A h \in Handler : InFlight(h) =>
       /\ Alone(h)
       /\ step[h].copy = bucket \/ bucket = NoBucket
       /\ Counts(step[h].copy) /\ Fallow(step[h].copy)
  /\ Counts(bucket) /\ Fallow(bucket)
  /\ Listed(sweep)
  /\ \A k \in 1..(Len(recorded) - 2 * MaxAttempts) :
       recorded[k + 2 * MaxAttempts] > recorded[k] + Window

BudgetInv == EarnedInv /\ (~overlapped => Sequential)

(* Nothing has been recorded at first (Init).                              *)
LEMMA SequentialAtFirst == Init => Sequential
<1> SUFFICES ASSUME Init PROVE Sequential
  OBVIOUS
<1>1. /\ \A h \in Handler : ~InFlight(h)
      /\ bucket = NoBucket /\ sweep = NoBucket /\ recorded = <<>> /\ Len(recorded) = 0
  BY DEF Init, InFlight
<1>2. Past(0, clock)
  BY <1>1, LimitAssumption DEF Past
<1> QED
  BY <1>1, <1>2, LimitAssumption DEF Sequential, Counts, Fallow, Listed

(* The budget is kept as long as nothing is recorded.                      *)
LEMMA FallowStays ==
  ASSUME EarnedInv, UNCHANGED recorded, clock' \in Nat, clock' >= clock, NEW b, Fallow(b)
  PROVE  Fallow(b)'
BY LimitAssumption DEF EarnedInv, Typed, Fallow, Past

(* The step of one worker thread that records nothing.                     *)
LEMMA ThreadKeepsSequential ==
  ASSUME EarnedInv, Sequential, NEW h \in Handler, NEW t, step' = [step EXCEPT ![h] = t],
         UNCHANGED <<clock, bucket, sweep, recorded>>, Alone(h),
         t # Free => t.copy = bucket \/ (InFlight(h) /\ t.copy = step[h].copy)
  PROVE  Sequential'
<1>1. \A g \in Handler : step'[g] = IF g = h THEN t ELSE step[g]
  BY DEF EarnedInv, Typed
<1>2. ASSUME NEW g \in Handler, InFlight(g)'
      PROVE  /\ g = h /\ Alone(h)'
             /\ t.copy = bucket \/ bucket = NoBucket
             /\ Counts(t.copy) /\ Fallow(t.copy)
  <2>1. g = h
    BY <1>1, <1>2 DEF Alone, InFlight
  <2>2. t # Free
    BY <1>1, <1>2, <2>1 DEF InFlight
  <2>3. Alone(h)'
    BY <1>1 DEF Alone, InFlight
  <2> QED
    BY <2>1, <2>2, <2>3 DEF Sequential
<1>3. ASSUME NEW g \in Handler, InFlight(g)'
      PROVE  /\ Alone(g)' /\ (step[g].copy = bucket \/ bucket = NoBucket)'
             /\ Counts(step[g].copy)' /\ Fallow(step[g].copy)'
  BY <1>1, <1>2, <1>3 DEF Counts, Fallow, Past
<1>4. Counts(bucket)' /\ Fallow(bucket)' /\ Listed(sweep)'
  BY DEF Sequential, Counts, Fallow, Listed, Past
<1> QED
  BY <1>3, <1>4 DEF Sequential

(* A request that finds no other under way gets the bucket (Get).          *)
LEMMA GetKeepsSequential ==
  ASSUME EarnedInv, Sequential, NEW h \in Handler, Get(h), ~overlapped'
  PROVE  Sequential'
<1>1. Alone(h)
  BY DEF Get, Alone, InFlight
<1> DEFINE t == [pc |-> "check", copy |-> bucket]
<1>2. step' = [step EXCEPT ![h] = t] /\ UNCHANGED <<clock, bucket, sweep, recorded>>
        /\ t.copy = bucket
  BY DEF Get
<1> QED
  BY <1>1, <1>2, ThreadKeepsSequential

(* The one request under way is refused, passes or is not counted.         *)
LEMMA CheckKeepsSequential ==
  ASSUME EarnedInv, Sequential, NEW h \in Handler, Check(h) \/ Spare(h)
  PROVE  Sequential'
<1>1. InFlight(h)
  BY DEF Check, Spare, InFlight, Free
<1>2. Alone(h)
  BY <1>1 DEF Sequential
<1>3. PICK t : /\ step' = [step EXCEPT ![h] = t] /\ UNCHANGED <<clock, bucket, sweep, recorded>>
               /\ t # Free => t.copy = step[h].copy
  BY DEF Check, Spare
<1> QED
  BY <1>1, <1>2, <1>3, ThreadKeepsSequential

(* A request is recorded: in the bucket that it found, or in a new one     *)
(* when it found none or one that had run out.                             *)
LEMMA RecordKeepsSequential ==
  ASSUME EarnedInv, Sequential, NEW h \in Handler, Record(h), EarnedInv'
  PROVE  Sequential'
<1> DEFINE n == Len(recorded)
           c == step[h].copy
<1>1. step[h] \in Step /\ InFlight(h) /\ step[h].pc = "record"
  BY DEF Record, EarnedInv, Typed, InFlight, Free
<1>2. /\ c \in Bucket /\ Earned(c) /\ (InWindow(c, clock) => c.attempts < MaxAttempts)
      /\ Counts(c) /\ Fallow(c) /\ (c = bucket \/ bucket = NoBucket) /\ Alone(h)
  BY <1>1 DEF EarnedInv, Step, InFlight, Admitted, Sequential
<1>3. /\ bucket' = RecordAttempt(c, clock) /\ recorded' = Append(recorded, clock)
      /\ step' = [step EXCEPT ![h] = Free] /\ UNCHANGED <<clock, sweep, overlapped>>
  BY DEF Record
<1>4. /\ n \in Nat /\ clock \in Nat
      /\ Len(recorded') = n + 1
      /\ \A k \in 1..n : recorded'[k] = recorded[k] /\ recorded[k] \in Nat
      /\ recorded'[n + 1] = clock
  BY <1>3, Appended DEF EarnedInv, Typed
<1>5. \A g \in Handler : ~InFlight(g)'
  BY <1>2, <1>3 DEF EarnedInv, Typed, Alone, InFlight
<1>6. \A k \in 1..n : recorded[k] <= clock
  BY DEF EarnedInv, InOrder
<1> HIDE DEF n, c
(* What the new bucket has behind it.                                      *)
<1>7. /\ bucket'.attempts \in 1..MaxAttempts /\ bucket'.attempts <= n + 1
      /\ bucket'.first \in Nat /\ bucket'.first <= clock /\ bucket'.last = clock
      /\ \A k \in 1..((n + 1) - bucket'.attempts) : recorded[k] <= bucket'.first
      /\ \A k \in 1..((n + 1) - bucket'.attempts - MaxAttempts) :
           recorded[k] + Window < bucket'.first
      /\ \/ InWindow(c, clock) /\ bucket'.first = c.first /\ bucket'.attempts = c.attempts + 1
         \/ \A k \in 1..n : recorded[k] + Window < bucket'.first
         \/ c = NoBucket
  <2>1. CASE InWindow(c, clock)
    <3>1. bucket' = [attempts |-> c.attempts + 1, first |-> c.first, last |-> clock]
      BY <1>3, <2>1 DEF RecordAttempt
    <3>2. bucket'.attempts = c.attempts + 1 /\ bucket'.first = c.first /\ bucket'.last = clock
      BY <3>1
    <3>3. c # NoBucket /\ c.attempts \in Nat /\ c.first \in Nat /\ c.last \in Nat
      BY <1>2, <2>1 DEF InWindow, Bucket
    <3>4. /\ c.attempts < MaxAttempts /\ c.attempts <= n /\ c.first <= clock
          /\ \A k \in 1..(n - c.attempts) : recorded[k] <= c.first
          /\ \A k \in 1..(n - c.attempts - MaxAttempts) : recorded[k] + Window < c.first
      <4>1. c.attempts < MaxAttempts /\ Earned(c)
        BY <1>2, <2>1
      <4>2. /\ \A k \in 1..(n - c.attempts) : recorded[k] <= c.first
            /\ Past(c.attempts, c.first)
        BY <1>2, <3>3 DEF Counts, n
      <4>3. c.attempts <= n /\ c.first <= clock
        BY <1>4, <3>3, <4>1 DEF Earned, n
      <4> QED
        BY <4>1, <4>2, <4>3 DEF Past, n
    <3>5. (n + 1) - bucket'.attempts = n - c.attempts
      <4>1. \A i, j \in Nat : (i + 1) - (j + 1) = i - j
        OBVIOUS
      <4> QED
        BY <1>4, <3>2, <3>3, <4>1
    <3>6. \A k \in 1..((n + 1) - bucket'.attempts - MaxAttempts) : recorded[k] + Window < c.first
      <4>1. (n + 1) - bucket'.attempts - MaxAttempts = n - c.attempts - MaxAttempts
        BY <3>5
      <4> QED
        BY <3>4, <4>1
    <3>7. \A k \in 1..((n + 1) - bucket'.attempts) : recorded[k] <= c.first
      BY <3>4, <3>5
    <3>8. bucket'.attempts \in 1..MaxAttempts /\ bucket'.attempts <= n + 1
      BY <1>4, <3>2, <3>3, <3>4, LimitAssumption
    <3> QED
      BY <2>1, <3>2, <3>3, <3>4, <3>6, <3>7, <3>8
  <2>2. CASE ~InWindow(c, clock)
    <3>1. bucket' = [attempts |-> 1, first |-> clock, last |-> clock]
      BY <1>3, <2>2 DEF RecordAttempt
    <3>2. bucket'.attempts = 1 /\ bucket'.first = clock /\ bucket'.last = clock
      BY <3>1
    <3>3. CASE c = NoBucket
      <4>1. \A k \in 1..(n - MaxAttempts) : recorded[k] + Window < clock
        BY <1>2, <1>4, <3>3, LimitAssumption DEF Fallow, Past, n
      <4> QED
        BY <1>4, <1>6, <3>2, <3>3, <4>1, LimitAssumption
    <3>4. CASE c # NoBucket
      <4>1. c.last \in Nat /\ c.last + Window < clock
        BY <1>2, <1>4, <2>2, <3>4, LimitAssumption DEF InWindow, WindowStart, Bucket
      <4>2. ASSUME NEW k \in 1..n PROVE recorded[k] + Window < clock
        <5>1. n \in 1..n
          BY <1>4
        <5>2. c.last = recorded[n] /\ recorded[k] <= recorded[n]
          BY <1>2, <1>4, <3>4, <5>1 DEF Counts, EarnedInv, InOrder, n
        <5> QED
          BY <1>4, <4>1, <5>1, <5>2, LimitAssumption
      <4> QED
        BY <1>4, <1>6, <3>2, <4>2, LimitAssumption
    <3> QED
      BY <3>3, <3>4
  <2> QED
    BY <2>1, <2>2
<1>8. bucket' # NoBucket
  BY <1>7, LimitAssumption DEF NoBucket
<1>9. Counts(bucket)'
  <2>1. \A k \in 1..((n + 1) - bucket'.attempts) : k \in 1..n
    BY <1>4, <1>7, LimitAssumption
  <2>2. \A k \in 1..((n + 1) - bucket'.attempts - MaxAttempts) : k \in 1..n
    BY <1>4, <1>7, LimitAssumption
  <2>3. bucket'.attempts >= 1 /\ bucket'.last = recorded'[Len(recorded')]
    BY <1>4, <1>7, LimitAssumption
  <2>4. \A k \in 1..(Len(recorded') - bucket'.attempts) : recorded'[k] <= bucket'.first
    BY <1>4, <1>7, <2>1
  <2>5. \A k \in 1..(Len(recorded') - bucket'.attempts - MaxAttempts) :
          recorded'[k] + Window < bucket'.first
    <3>1. Len(recorded') - bucket'.attempts - MaxAttempts = (n + 1) - bucket'.attempts - MaxAttempts
      BY <1>4
    <3> QED
      BY <1>4, <1>7, <2>2, <3>1
  <2> QED
    BY <2>3, <2>4, <2>5 DEF Counts, Past
<1>10. Listed(sweep)'
  <2> SUFFICES ASSUME sweep # NoBucket PROVE Listed(sweep)'
    BY <1>3 DEF Listed
  <2>1. /\ bucket # NoBucket /\ c = bucket
        /\ \/ sweep.last >= c.first
           \/ \A k \in 1..(n - c.attempts) : recorded[k] + Window < c.first
    BY <1>2 DEF Sequential, Listed, n
  <2>2. \A k \in 1..((n + 1) - bucket'.attempts) : k \in 1..n
    BY <1>4, <1>7, LimitAssumption
  <2>3. CASE InWindow(c, clock) /\ bucket'.first = c.first /\ bucket'.attempts = c.attempts + 1
    <3>1. c.attempts \in Nat /\ (n + 1) - bucket'.attempts = n - c.attempts
      BY <1>2, <1>4, <2>3 DEF Bucket
    <3> QED
      BY <1>3, <1>4, <1>8, <2>1, <2>2, <2>3, <3>1 DEF Listed
  <2>4. CASE \A k \in 1..n : recorded[k] + Window < bucket'.first
    <3>1. \A k \in 1..(Len(recorded') - bucket'.attempts) : recorded'[k] + Window < bucket'.first
      BY <1>4, <1>7, <2>2, <2>4, LimitAssumption
    <3> QED
      BY <1>8, <3>1 DEF Listed
  <2> QED
    BY <1>7, <2>1, <2>3, <2>4
<1>11. \A k \in 1..((n + 1) - 2 * MaxAttempts) :
         recorded'[k + 2 * MaxAttempts] > recorded'[k] + Window
  <2> SUFFICES ASSUME NEW k \in 1..((n + 1) - 2 * MaxAttempts)
               PROVE  recorded'[k + 2 * MaxAttempts] > recorded'[k] + Window
    OBVIOUS
  <2>1. k \in 1..n /\ k + 2 * MaxAttempts \in 1..(n + 1)
    BY <1>4, LimitAssumption
  <2>2. CASE k + 2 * MaxAttempts = n + 1
    <3>1. k \in 1..((n + 1) - bucket'.attempts - MaxAttempts)
      BY <1>4, <1>7, <2>1, <2>2, LimitAssumption
    <3>2. recorded'[k] = recorded[k] /\ recorded[k] \in Nat /\ recorded'[n + 1] = clock
      BY <1>4, <2>1
    <3>3. recorded[k] + Window < bucket'.first /\ bucket'.first <= clock /\ bucket'.first \in Nat
      BY <1>7, <3>1
    <3>4. clock > recorded[k] + Window
      BY <1>4, <3>2, <3>3, LimitAssumption
    <3> QED
      BY <2>2, <3>2, <3>4
  <2>3. CASE k + 2 * MaxAttempts # n + 1
    <3>1. k \in 1..(n - 2 * MaxAttempts) /\ k + 2 * MaxAttempts \in 1..n
      BY <1>4, <2>1, <2>3, LimitAssumption
    <3>2. recorded[k + 2 * MaxAttempts] > recorded[k] + Window
      BY <3>1 DEF Sequential, n
    <3> QED
      BY <1>4, <2>1, <3>1, <3>2
  <2> QED
    BY <2>2, <2>3
<1>12. \A k \in 1..(Len(recorded') - 2 * MaxAttempts) :
          recorded'[k + 2 * MaxAttempts] > recorded'[k] + Window
  BY <1>4, <1>11, LimitAssumption
<1>13. Fallow(bucket)'
  BY <1>8 DEF Fallow
<1> QED
  BY <1>5, <1>9, <1>10, <1>12, <1>13 DEF Sequential

(* Cleanup copies the present bucket (cleanup).                            *)
LEMMA SweepListKeepsSequential == ASSUME EarnedInv, Sequential, SweepList PROVE Sequential'
<1>1. Listed(sweep)'
  <2>1. bucket.last >= bucket.first
    BY DEF EarnedInv, Typed, Earned, Bucket
  <2> QED
    BY <2>1 DEF SweepList, Listed
<1> QED
  BY <1>1 DEF SweepList, Sequential, InFlight, Alone, Counts, Fallow, Past

(* Cleanup may delete a live bucket, but only when those it counted before *)
(* are a window old.                                                       *)
LEMMA SweepDeleteKeepsSequential == ASSUME EarnedInv, Sequential, SweepDelete PROVE Sequential'
<1>1. UNCHANGED <<clock, recorded, step>> /\ bucket' \in {bucket, NoBucket} /\ sweep' = NoBucket
  BY DEF SweepDelete
<1>2. ASSUME bucket' # bucket PROVE Past(0, clock)
  <2>1. sweep.last < WindowStart(clock) /\ bucket # NoBucket /\ sweep # NoBucket
    BY <1>2 DEF SweepDelete
  <2>2. /\ sweep.last \in Nat /\ clock \in Nat /\ bucket.first \in Nat /\ bucket.attempts \in Nat
        /\ Len(recorded) \in Nat /\ \A k \in 1..Len(recorded) : recorded[k] \in Nat
    BY DEF EarnedInv, Typed, Bucket
  <2>3. sweep.last + Window < clock
    BY <2>1, <2>2, LimitAssumption DEF WindowStart
  <2>4. bucket.attempts <= MaxAttempts /\ bucket.first <= clock
    BY <2>2 DEF EarnedInv, Earned, Typed, Bucket
  <2>5. /\ \A k \in 1..(Len(recorded) - bucket.attempts) : recorded[k] <= bucket.first
        /\ \/ sweep.last >= bucket.first
           \/ \A k \in 1..(Len(recorded) - bucket.attempts) : recorded[k] + Window < bucket.first
    BY <2>1 DEF Sequential, Counts, Listed
  <2>6. ASSUME NEW k \in 1..(Len(recorded) - 0 - MaxAttempts) PROVE recorded[k] + Window < clock
    <3>1. k \in 1..(Len(recorded) - bucket.attempts) /\ k \in 1..Len(recorded)
      BY <2>2, <2>4, LimitAssumption
    <3> QED
      BY <2>2, <2>3, <2>4, <2>5, <3>1, LimitAssumption, SMTT(20)
  <2> QED
    BY <2>6 DEF Past
<1>3. Counts(bucket)' /\ Fallow(bucket)' /\ Listed(sweep)'
  BY <1>1, <1>2 DEF Sequential, Counts, Fallow, Past, Listed
<1>4. \A h \in Handler : InFlight(h)' =>
        /\ Alone(h)' /\ (step[h].copy = bucket \/ bucket = NoBucket)'
        /\ Counts(step[h].copy)' /\ Fallow(step[h].copy)'
  BY <1>1 DEF Sequential, InFlight, Alone, Counts, Fallow, Past
<1> QED
  BY <1>1, <1>3, <1>4 DEF Sequential

(* Time passes (Tick).                                                     *)
LEMMA TickKeepsSequential == ASSUME EarnedInv, Sequential, Tick PROVE Sequential'
<1>1. /\ clock' \in Nat /\ clock' >= clock
      /\ UNCHANGED <<bucket, step, sweep, recorded, overlapped>>
  BY DEF Tick, EarnedInv, Typed
<1>2. Fallow(bucket)' /\ \A h \in Handler : InFlight(h) => Fallow(step[h].copy)'
  <2>1. Fallow(bucket)'
    BY <1>1, FallowStays DEF Sequential, Fallow
  <2>2. ASSUME NEW h \in Handler, InFlight(h) PROVE Fallow(step[h].copy)'
    BY <1>1, <2>2, FallowStays DEF Sequential, Fallow
  <2> QED
    BY <2>1, <2>2
<1> QED
  BY <1>1, <1>2 DEF Sequential, InFlight, Alone, Counts, Past, Listed

(* No step breaks the budget while requests do not overlap (Next).         *)
LEMMA BudgetInductive == BudgetInv /\ [Next]_vars => BudgetInv'
<1> SUFFICES ASSUME BudgetInv, [Next]_vars PROVE BudgetInv'
  OBVIOUS
<1>1. EarnedInv /\ EarnedInv'
  BY EarnedInductive DEF BudgetInv
<1>2. ASSUME ~overlapped' PROVE Sequential'
  <2>1. ~overlapped
    BY <1>2 DEF Next, vars, Get, Check, Record, Spare, SweepList, SweepDelete, Tick
  <2>2. Sequential
    BY <2>1 DEF BudgetInv
  <2>3. CASE UNCHANGED vars
    BY <2>2, <2>3 DEF vars, Sequential, InFlight, Alone, Counts, Fallow, Past, Listed
  <2> QED
    BY <1>1, <1>2, <2>2, <2>3, GetKeepsSequential, CheckKeepsSequential, RecordKeepsSequential,
       SweepListKeepsSequential, SweepDeleteKeepsSequential, TickKeepsSequential DEF Next
<1> QED
  BY <1>1, <1>2 DEF BudgetInv

(* As long as requests of a key follow one another, no stretch of a window *)
(* records more than max_attempts requests, or twice as many if cleanup    *)
(* deleted a bucket that was renewed after it was listed.                  *)
THEOREM WindowBudgetHolds == Spec => []BudgetHolds
<1>1. Init => BudgetInv
  BY EarnedAtFirst, SequentialAtFirst DEF BudgetInv
<1>2. BudgetInv => BudgetHolds
  BY DEF BudgetInv, Sequential, BudgetHolds
<1> QED
  BY <1>1, <1>2, BudgetInductive, PTL DEF Spec
=============================================================================
