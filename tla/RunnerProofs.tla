---------------------------- MODULE RunnerProofs ----------------------------
(***************************************************************************)
(* TLAPS proofs about the runner between two polls and during an attempt.  *)
(*                                                                         *)
(* LeaseClock, for every interval, lease length and budget: execution      *)
(* authority never outlives the control plane's lease, with the direct     *)
(* driver and with the Codex executor.  With the direct driver, heartbeats *)
(* that are answered in time keep the guard's lease and the watchdog's     *)
(* when the lease covers two intervals, the watchdog's startup and one     *)
(* answer.                                                                 *)
(*                                                                         *)
(* FailureBreaker, for every bound, pause and history of outcomes: the     *)
(* loop stops at its bound and only there, never calls RunOnce again after *)
(* a refusal or an uncertain create, and pauses as its place in a run of   *)
(* equal causes asks for.  The program keeps a count and the last pause,   *)
(* the properties speak of the history: Tally says that the count is the   *)
(* number of failures in the streak, PacedByCause that the pause is the    *)
(* base doubled once for each repeat.                                      *)
(***************************************************************************)
EXTENDS LeaseClock, FailureBreaker, FiniteSetTheorems, TLAPS

-----------------------------------------------------------------------------
(* LeaseClock: the fence *)

\* The timer is set no later than the lease it was granted, the control plane
\* never takes a granted lease back, and time does not pass a timer that is due.
Fenced == /\ grants \subseteq Nat \ {0}
          /\ now \in Nat /\ timer \in Int /\ serverLease \in Int /\ granted \in Int
          /\ live => now <= timer
          /\ timer <= serverLease
          /\ beat = "granted" => granted <= serverLease

\* The claim's lease fences the first timer.
LEMMA FencedInit == Init => Fenced
  BY ClockAssumption DEF Init, Fenced, Remaining, Earlier, ClockAssumption

\* Every step of guard, heartbeat, attempt, watchdog and clock keeps the fence.
LEMMA FencedStep ==
  ASSUME Fenced, [Next]_vars
  PROVE  Fenced'
  <1> USE ClockAssumption DEF Fenced, vars, guardVars, terms, beatVars, armVars, watchdogVars
  <1>1. CASE BeatSend
    BY <1>1 DEF BeatSend
  <1>2. CASE ServerRenews
    <2>1. PICK g \in grants : serverLease' = Later(serverLease, now + g)
      BY <1>2 DEF ServerRenews
    <2>2. serverLease' \in Int /\ serverLease <= serverLease'
      BY <2>1 DEF Later, ClockAssumption
    <2>3. QED
      BY <1>2, <2>2 DEF ServerRenews
  <1>3. CASE BeatReturns
    BY <1>3 DEF BeatReturns, Remaining, Earlier, ClockAssumption
  <1>4. CASE BeatFails \/ GuardExpires \/ ArmFails \/ Finish
    BY <1>4 DEF BeatFails, GuardExpires, ArmFails, Finish
  <1>5. CASE ArmStart
    <2>1. UNCHANGED <<now, terms, serverLease, guardVars, beatVars>>
      BY <1>5 DEF ArmStart
    <2>2. QED
      BY <2>1
  <1>6. CASE ArmReady \/ WatchdogExpires
    <2>1. UNCHANGED <<now, terms, serverLease, guardVars, beatVars>>
      BY <1>6 DEF ArmReady, WatchdogExpires
    <2>2. QED
      BY <2>1
  <1>7. CASE Tick
    BY <1>7 DEF Tick, Due
  <1>8. CASE UNCHANGED vars
    BY <1>8
  <1>9. QED
    BY <1>1, <1>2, <1>3, <1>4, <1>5, <1>6, <1>7, <1>8 DEF Next

\* The runner acts for an attempt only within the lease the control plane keeps
\* for it, however late or lost its heartbeats are.
THEOREM AuthorityIsFenced == Spec => []AuthorityWithinLease
  <1>1. Fenced => AuthorityWithinLease
    BY DEF Fenced, AuthorityWithinLease
  <1>2. Fenced /\ [Next]_vars => Fenced'
    BY FencedStep
  <1>3. QED
    BY FencedInit, <1>1, <1>2, PTL DEF Spec

-----------------------------------------------------------------------------
(* The direct driver's heartbeats keep its lease *)

\* The lease that is needed, and what the direct driver's constants give: 45 s
\* against 2 * 10 s + 10 s + 5 s, and answers that come before the next beat.
Needed == 2 * HeartbeatInterval + CommandTimeout + HTTPBudget
Paced  == /\ ~Composite /\ HTTPBudget < HeartbeatInterval
          /\ LeaseDuration >= Needed

\* The ticker: the next beat is later than now, by an interval at most.
LEMMA NextBeat ==
  ASSUME NEW t \in Nat, NEW b \in Nat, b <= t,
         NEW next, next = b + HeartbeatInterval * ((t - b) \div HeartbeatInterval + 1)
  PROVE  next \in Nat /\ next <= t + HeartbeatInterval
  <1> USE ClockAssumption DEF ClockAssumption
  <1>1. PICK d \in Nat : d = t - b
    OBVIOUS
  <1>2. /\ d \div HeartbeatInterval \in Nat
        /\ HeartbeatInterval * (d \div HeartbeatInterval) <= d
    BY <1>1
  <1>3. PICK q \in Nat : q = d \div HeartbeatInterval
    BY <1>2
  <1>4. HeartbeatInterval * (q + 1) = HeartbeatInterval * q + HeartbeatInterval
    BY <1>3
  <1>5. HeartbeatInterval * q \in Nat
    BY <1>3
  <1>6. QED
    BY <1>1, <1>2, <1>3, <1>4, <1>5

\* Every clock is a number.
LEMMA TypeInit == Init => TypeOK
  <1> USE ClockAssumption DEF ClockAssumption
  <1>1. ASSUME Init PROVE claimLease \in Nat /\ timer \in Nat
    BY <1>1 DEF Init, Remaining, Earlier
  <1>2. QED
    BY <1>1 DEF Init, TypeOK

\* What the end of a renewal does.
ReturnEffect ==
    /\ beat = "granted" /\ beat' = "idle"
    /\ UNCHANGED <<now, grants, claimLease, serverLease, sentAt, granted, armedAt, armLease,
                   watchdog>>
    /\ nextBeat' = IF phase = "first_renew" THEN now + HeartbeatInterval ELSE nextBeat
    /\ \/ live' = FALSE /\ UNCHANGED <<phase, timer, stateLease, expiry>>
       \/ /\ live /\ live' = live /\ Remaining(granted) > 0
          /\ stateLease' = granted /\ timer' = now + Remaining(granted)
          /\ expiry' = IF watchdog = "watching" THEN Later(expiry, ChildExpiry(granted))
                                                ELSE expiry
          /\ phase' = IF phase = "first_renew" THEN "prepare" ELSE phase

LEMMA ReturnMoves ==
  ASSUME TypeOK, BeatReturns
  PROVE  ReturnEffect
  <1> USE DEF ReturnEffect
  <1>1. CASE ~live \/ Remaining(granted) <= 0
    BY <1>1 DEF BeatReturns, terms, armVars
  <1>2. CASE ~(~live \/ Remaining(granted) <= 0)
    <2>1. Remaining(granted) \in Int
      BY ClockAssumption DEF TypeOK, Remaining, Earlier, ClockAssumption
    <2>2. live /\ Remaining(granted) > 0
      BY <1>2, <2>1
    <2>3. /\ stateLease' = granted /\ timer' = now + Remaining(granted) /\ live' = live
          /\ expiry' = IF watchdog = "watching" THEN Later(expiry, ChildExpiry(granted)) ELSE expiry
          /\ phase' = IF phase = "first_renew" THEN "prepare" ELSE phase
      BY <1>2 DEF BeatReturns
    <2>4. /\ beat = "granted" /\ beat' = "idle"
          /\ UNCHANGED <<now, terms, serverLease, sentAt, granted, armVars, watchdog>>
          /\ nextBeat' = IF phase = "first_renew" THEN now + HeartbeatInterval ELSE nextBeat
      BY DEF BeatReturns
    <2>5. QED
      BY <2>2, <2>3, <2>4 DEF terms, armVars
  <1>3. QED
    BY <1>1, <1>2

LEMMA TypeStep ==
  ASSUME TypeOK, grants \subseteq Nat \ {0}, [Next]_vars PROVE TypeOK'
  <1> USE ClockAssumption DEF ClockAssumption, TypeOK, vars, guardVars, terms, beatVars, armVars,
          watchdogVars
  <1>1. CASE BeatSend
    <2>1. nextBeat' \in Nat
      BY <1>1, NextBeat DEF BeatSend
    <2>2. QED
      BY <1>1, <2>1 DEF BeatSend
  <1>2. CASE ServerRenews
    BY <1>2 DEF ServerRenews, Later
  <1>3. CASE BeatReturns
    <2>0. ReturnEffect
      BY <1>3, ReturnMoves
    <2>1. granted \in Nat /\ Remaining(granted) \in Int /\ nextBeat' \in Nat
      BY <2>0 DEF ReturnEffect, Remaining, Earlier
    <2>2. CASE live' = FALSE /\ UNCHANGED <<phase, timer, stateLease, expiry>>
      BY <2>0, <2>1, <2>2 DEF ReturnEffect
    <2>3. CASE /\ live /\ live' = live /\ Remaining(granted) > 0 /\ stateLease' = granted
               /\ timer' = now + Remaining(granted)
      <3>1. Later(expiry, ChildExpiry(granted)) \in 0 .. Deadline
        BY <2>1 DEF Later, ChildExpiry, Earlier
      <3>2. QED
        BY <2>0, <2>1, <2>3, <3>1 DEF ReturnEffect
    <2>4. QED
      BY <2>0, <2>2, <2>3 DEF ReturnEffect
  <1>4. CASE BeatFails \/ GuardExpires \/ ArmFails \/ Finish
    BY <1>4 DEF BeatFails, GuardExpires, ArmFails, Finish
  <1>5. CASE ArmStart \/ WatchdogExpires
    BY <1>5 DEF ArmStart, LeaseToArm, WatchdogExpires
  <1>6. CASE ArmReady
    BY <1>6 DEF ArmReady, ChildExpiry, Earlier
  <1>7. CASE Tick \/ UNCHANGED vars
    BY <1>7 DEF Tick
  <1>8. QED
    BY <1>1, <1>2, <1>3, <1>4, <1>5, <1>6, <1>7 DEF Next

\* Where the next beat, its answer and the watchdog's startup leave the timer.
PaceInv ==
    /\ beat # "idle" => sentAt <= now /\ now <= sentAt + HTTPBudget
    /\ beat = "granted" => granted >= sentAt + Needed
    /\ phase = "arming" => beat = "idle"
    /\ phase \in {"done", "failed"} => ~live
    /\ live /\ phase # "first_renew" /\ beat = "idle" =>
          /\ timer >= sentAt + Needed
          /\ nextBeat <= sentAt + HeartbeatInterval + HTTPBudget
          /\ phase = "prepare" => now <= sentAt + HeartbeatInterval + HTTPBudget
          /\ phase = "running" =>
                now <= sentAt + HeartbeatInterval + HTTPBudget + CommandTimeout
          /\ phase = "arming" => /\ armedAt <= sentAt + HeartbeatInterval + HTTPBudget
                                 /\ now <= armedAt + CommandTimeout
    /\ live /\ phase # "first_renew" /\ beat # "idle" =>
          timer >= sentAt + HeartbeatInterval /\ nextBeat <= sentAt + HeartbeatInterval

\* The leases that the guard and the watchdog go by cover the timer.
CoverInv ==
    /\ live => stateLease >= timer
    /\ live /\ phase = "arming" => armLease >= timer
    /\ live /\ watchdog = "watching" => expiry >= timer \/ expiry >= Deadline
    /\ watchdog = "cleaning" /\ phase = "running" => ~live \/ now >= Deadline

LEMMA PaceKeepsTimer ==
  ASSUME TypeOK, PaceInv, Paced, live, phase # "first_renew" PROVE now < timer
  BY ClockAssumption DEF TypeOK, PaceInv, Paced, Needed, ClockAssumption

LEMMA PaceStep ==
  ASSUME TypeOK, TypeOK', PaceInv, Paced, Ample, grants \subseteq Nat \ {0}, [Next]_vars
  PROVE  PaceInv'
  <1> USE ClockAssumption DEF ClockAssumption, TypeOK, PaceInv, Paced, Needed, vars, guardVars,
          terms, beatVars, armVars, watchdogVars
  <1>1. CASE BeatSend
    <2>1. nextBeat' <= now + HeartbeatInterval
      BY <1>1, NextBeat DEF BeatSend
    <2>2. QED
      BY <1>1, <2>1 DEF BeatSend, Beating, MutexHeld
  <1>2. CASE ServerRenews
    <2>1. PICK g \in grants : serverLease' = Later(serverLease, now + g)
      BY <1>2 DEF ServerRenews
    <2>2. now + g <= serverLease' /\ g >= Needed
      BY <2>1 DEF Later, Ample
    <2>3. QED
      BY <1>2, <2>2 DEF ServerRenews
  <1>3. CASE BeatReturns
    <2>0. ReturnEffect
      BY <1>3, ReturnMoves
    <2>1. CASE live' = FALSE
      BY <2>0, <2>1 DEF ReturnEffect
    <2>2. CASE live' # FALSE
      <3>1. live /\ Remaining(granted) > 0 /\ timer' = now + Remaining(granted)
        BY <2>0, <2>2 DEF ReturnEffect
      <3>2. timer' >= sentAt + Needed
        BY <2>0, <3>1 DEF ReturnEffect, Remaining, Earlier
      <3>3. beat' = "idle" /\ UNCHANGED <<now, sentAt, armedAt>>
        BY <2>0 DEF ReturnEffect
      <3>4. now <= sentAt + HTTPBudget /\ phase # "arming" /\ beat = "granted"
        BY <2>0 DEF ReturnEffect
      <3>5. IF phase = "first_renew" THEN phase' = "prepare" ELSE phase' = phase
        BY <2>0, <2>2 DEF ReturnEffect
      <3>6. nextBeat' <= sentAt + HeartbeatInterval + HTTPBudget
        <4>1. CASE phase = "first_renew"
          BY <2>0, <3>4, <4>1 DEF ReturnEffect
        <4>2. CASE phase # "first_renew"
          BY <2>0, <3>1, <3>4, <4>2 DEF ReturnEffect
        <4>3. QED
          BY <4>1, <4>2
      <3>7. QED
        BY <3>1, <3>2, <3>3, <3>4, <3>5, <3>6
    <2>3. QED
      BY <2>1, <2>2
  <1>4. CASE BeatFails \/ GuardExpires \/ ArmFails \/ Finish
    BY <1>4 DEF BeatFails, GuardExpires, ArmFails, Finish
  <1>5. CASE ArmStart
    BY <1>5 DEF ArmStart
  <1>6. CASE ArmReady
    BY <1>6 DEF ArmReady
  <1>10. CASE WatchdogExpires
    BY <1>10 DEF WatchdogExpires
  <1>7. CASE Tick
    BY <1>7 DEF Tick, Due, Beating, MutexHeld
  <1>8. CASE UNCHANGED vars
    BY <1>8
  <1>9. QED
    BY <1>1, <1>2, <1>3, <1>4, <1>5, <1>6, <1>7, <1>8, <1>10 DEF Next

LEMMA CoverStep ==
  ASSUME TypeOK, TypeOK', PaceInv, CoverInv, Paced, [Next]_vars PROVE CoverInv'
  <1> USE ClockAssumption DEF ClockAssumption, TypeOK, CoverInv, vars, guardVars, terms, beatVars,
          armVars, watchdogVars
  <1>1. CASE BeatSend \/ ServerRenews
    BY <1>1 DEF BeatSend, ServerRenews
  <1>2. CASE BeatReturns
    <2>0. ReturnEffect
      BY <1>2, ReturnMoves
    <2>1. CASE live' = FALSE
      BY <2>0, <2>1 DEF ReturnEffect
    <2>2. CASE live' # FALSE
      <3>1. live /\ phase # "arming" /\ timer' = now + Remaining(granted)
        BY <2>0, <2>2 DEF ReturnEffect, PaceInv
      <3>2. timer' <= granted
        BY <3>1 DEF Remaining, Earlier
      <3>3. Later(expiry, ChildExpiry(granted)) >= granted
            \/ Later(expiry, ChildExpiry(granted)) >= Deadline
        BY DEF Later, ChildExpiry, Earlier
      <3>4. /\ stateLease' = granted /\ UNCHANGED <<watchdog, now>>
            /\ phase' = phase \/ phase' = "prepare"
            /\ watchdog = "watching" => expiry' = Later(expiry, ChildExpiry(granted))
        BY <2>0, <2>2 DEF ReturnEffect
      <3>5. watchdog' = "watching" => expiry' >= timer' \/ expiry' >= Deadline
        BY <3>1, <3>2, <3>3, <3>4
      <3>6. stateLease' >= timer'
        BY <3>1, <3>2, <3>4
      <3>7. watchdog' = "cleaning" /\ phase' = "running" => now' >= Deadline
        BY <3>1, <3>4
      <3>8. phase' # "arming"
        BY <3>1, <3>4
      <3>9. QED
        BY <3>5, <3>6, <3>7, <3>8
    <2>3. QED
      BY <2>1, <2>2
  <1>3. CASE BeatFails \/ GuardExpires \/ ArmFails \/ Finish
    BY <1>3 DEF BeatFails, GuardExpires, ArmFails, Finish
  <1>4. CASE ArmStart
    BY <1>4 DEF ArmStart, LeaseToArm, Paced
  <1>5. CASE ArmReady
    BY <1>5 DEF ArmReady, ChildExpiry, Earlier
  <1>6. CASE WatchdogExpires
    <2>1. live /\ phase = "running" => now >= Deadline
      BY <1>6, PaceKeepsTimer DEF WatchdogExpires
    <2>2. QED
      BY <1>6, <2>1 DEF WatchdogExpires
  <1>7. CASE Tick \/ UNCHANGED vars
    BY <1>7 DEF Tick
  <1>8. QED
    BY <1>1, <1>2, <1>3, <1>4, <1>5, <1>6, <1>7 DEF Next

ClockInv == /\ TypeOK /\ Fenced
            /\ Paced /\ Ample => PaceInv /\ CoverInv

LEMMA ClockAlways == Spec => []ClockInv
  <1>1. Init => ClockInv
    <2>1. Init => PaceInv
      BY ClockAssumption DEF Init, PaceInv, ClockAssumption
    <2>2. Init => CoverInv
      BY ClockAssumption DEF Init, CoverInv, Remaining, Earlier, ClockAssumption
    <2>3. QED
      BY <2>1, <2>2, TypeInit, FencedInit DEF ClockInv
  <1>2. ClockInv /\ [Next]_vars => ClockInv'
    <2> SUFFICES ASSUME ClockInv, [Next]_vars PROVE ClockInv'
      OBVIOUS
    <2>1. TypeOK' /\ Fenced'
      BY TypeStep, FencedStep DEF ClockInv, Fenced
    <2>2. UNCHANGED grants
      BY DEF Next, BeatSend, ServerRenews, BeatReturns, BeatFails, GuardExpires, ArmStart,
         ArmReady, ArmFails, Finish, WatchdogExpires, Tick, vars, terms
    <2>3. QED
      BY <2>1, <2>2, PaceStep, CoverStep DEF ClockInv, Fenced, Ample, Paced, Needed
  <1>3. QED
    BY <1>1, <1>2, PTL DEF Spec

\* With the direct driver's constants, and leases as long as the control plane's,
\* a guard whose heartbeats are answered never runs out of its timer and arms its
\* watchdog within the lease.
THEOREM LeaseIsKept ==
  ASSUME Paced PROVE Spec => []HeartbeatsKeepLease
  <1>1. ClockInv => HeartbeatsKeepLease
    <2> SUFFICES ASSUME ClockInv, Ample, live PROVE
          /\ phase # "first_renew" => now < timer
          /\ phase = "arming" => now < armLease
      BY DEF ClockInv, HeartbeatsKeepLease, TimerOutlastsBeats, ArmedWithinLease
    <2>1. phase # "first_renew" => now < timer
      BY PaceKeepsTimer DEF ClockInv
    <2>2. QED
      BY <2>1 DEF ClockInv, CoverInv, TypeOK
  <1>2. QED
    BY <1>1, ClockAlways, PTL

\* The watchdog takes nothing away from an attempt that keeps its lease.
THEOREM WatchdogFollows ==
  ASSUME Paced PROVE Spec => []WatchdogTracksLease
  <1>1. ClockInv => WatchdogTracksLease
    BY DEF ClockInv, CoverInv, WatchdogTracksLease
  <1>2. QED
    BY <1>1, ClockAlways, PTL

-----------------------------------------------------------------------------
(* FailureBreaker: the loop *)

Unrepeatable(o) == o.marks \cap {"refused", "create_uncertain"} # {}

\* The count is the streak, and the loop ends exactly where it reaches Bound.
Tally == /\ IsFiniteSet(Streak) /\ failures = Cardinality(Streak)
         /\ stop = "bound" <=> failures >= Bound
         /\ pc = "stopped" <=> stop # "none"

\* Nothing that must not be repeated lies behind a loop that goes on.
Guarded ==
    \A i \in 1 .. Len(log) :
        Unrepeatable(log[i]) => pc = "stopped" /\ i = Len(log)

BreakerInv == LoopTypeOK /\ Tally /\ Guarded

-----------------------------------------------------------------------------
(* The outcomes *)

\* Every outcome is a failure or not, and only failures have marks.
LEMMA OutcomeShape ==
  ASSUME NEW o \in Outcomes
  PROVE  /\ o.failed \in BOOLEAN /\ o.worked \in BOOLEAN
         /\ ~o.failed => o.marks = {}
         /\ o.failed => ~o.worked
         /\ o.failed /\ Retryable(o) =>
               ~Unrepeatable(o) /\ Cause(o) \in {"transport", "other"}
  <1>1. \/ \E m : o = Error(m)
        \/ \E r, s : o = Delivered(r, s)
        \/ o = Idle
    BY DEF Outcomes
  <1>2. CASE \E m : o = Error(m)
    BY <1>2 DEF Error, Retryable, Unrepeatable, Cause
  <1>3. CASE \E r, s : o = Delivered(r, s)
    BY <1>3 DEF Delivered
  <1>4. CASE o = Idle
    BY <1>4 DEF Delivered, Idle
  <1>5. QED
    BY <1>1, <1>2, <1>3, <1>4

\* One more outcome extends the streak, leaves it or ends it, and Count says which.
LEMMA StreakGrows ==
  ASSUME LoopTypeOK, Tally, NEW o \in Outcomes, log' = Append(log, o)
  PROVE  IsFiniteSet(Streak)' /\ Cardinality(Streak)' = Count(o)
  <1> DEFINE n == Len(log) + 1
  <1>1. /\ n \in Nat \ {0} /\ Len(log)' = n /\ log'[n] = o
        /\ \A i \in 1 .. n - 1 : log'[i] = log[i]
    BY DEF LoopTypeOK
  <1>2. n \notin Streak /\ Streak \subseteq 1 .. n - 1
    BY <1>1 DEF Streak
  <1>3. CASE Classified(o)
    <2>1. ~Healthy(o)
      BY <1>3 DEF Healthy
    <2>2. Streak' = Streak \cup {n}
      BY <1>1, <1>3, <2>1 DEF Streak
    <2>3. QED
      BY <2>2, <1>2, <1>3, FS_AddElement DEF Count, Tally
  <1>4. CASE Healthy(o)
    <2>1. Streak' = {}
      BY <1>1, <1>4 DEF Streak
    <2>2. QED
      BY <2>1, <1>4, FS_EmptySet DEF Healthy, Count
  <1>5. CASE ~Classified(o) /\ ~Healthy(o)
    <2>1. Streak' = Streak
      BY <1>1, <1>2, <1>5 DEF Streak
    <2>2. QED
      BY <2>1, <1>5 DEF Healthy, Count, Tally
  <1>6. QED
    BY <1>3, <1>4, <1>5

-----------------------------------------------------------------------------
(* The invariant *)

\* The empty log has an empty streak.
LEMMA BreakerInit == LoopInit => BreakerInv
  <1> SUFFICES ASSUME LoopInit PROVE BreakerInv
    OBVIOUS
  <1>1. log = <<>> /\ Len(log) = 0 /\ log \in Seq(Outcomes)
    BY DEF LoopInit
  <1>2. Streak = {}
    BY <1>1 DEF Streak
  <1>3. LoopTypeOK
    BY <1>1, BackoffAssumption DEF LoopInit, LoopTypeOK, BackoffAssumption
  <1>4. Tally
    BY <1>2, FS_EmptySet, BackoffAssumption DEF LoopInit, Tally, BackoffAssumption
  <1>5. QED
    BY <1>1, <1>3, <1>4 DEF BreakerInv, Guarded

\* RunOnce itself: the log grows by an outcome that the count has seen.
LEMMA RunOnceCounts ==
  ASSUME BreakerInv, NEW o \in Outcomes, RunOnce(o)
  PROVE  /\ log' \in Seq(Outcomes) /\ once' \in BOOLEAN
         /\ Count(o) \in 0 .. Bound /\ failures' = Count(o) /\ stop = "none"
         /\ IsFiniteSet(Streak)' /\ failures' = Cardinality(Streak)'
         /\ ~Unrepeatable(o) \/ pc' = "stopped" => Guarded'
  <1> USE DEF BreakerInv, RunOnce
  <1>1. failures < Bound /\ pc = "polling" /\ stop = "none"
    BY BackoffAssumption DEF LoopTypeOK, Tally, BackoffAssumption
  <1>2. Count(o) \in 0 .. Bound
    BY <1>1, BackoffAssumption DEF Count, LoopTypeOK, BackoffAssumption
  <1>3. ~Unrepeatable(o) \/ pc' = "stopped" => Guarded'
    <2>1. /\ Len(log') = Len(log) + 1 /\ log'[Len(log) + 1] = o
          /\ \A i \in 1 .. Len(log) : log'[i] = log[i]
      BY DEF LoopTypeOK
    <2>2. \A i \in 1 .. Len(log) : ~Unrepeatable(log[i])
      BY <1>1 DEF Guarded
    <2>3. QED
      BY <2>1, <2>2 DEF Guarded, Unrepeatable, LoopTypeOK
  <1>4. log' \in Seq(Outcomes) /\ once' \in BOOLEAN
    BY DEF LoopTypeOK
  <1>5. QED
    BY <1>1, <1>2, <1>3, <1>4, StreakGrows

\* Every way a poll or a pause can end keeps it.
LEMMA BreakerStep ==
  ASSUME BreakerInv, [LoopNext]_loopVars
  PROVE  BreakerInv'
  <1> USE BackoffAssumption
      DEF BackoffAssumption, StopFor, Sleep, ResetBackoff, Underneath
  <1>1. ASSUME NEW o \in Outcomes, Trip(o) PROVE BreakerInv'
    <2>1. /\ RunOnce(o) /\ ~(Count(o) < Bound) /\ pc' = "stopped" /\ stop' = "bound"
          /\ UNCHANGED <<cause, pause, wait>>
      BY <1>1 DEF Trip
    <2>2. QED
      BY <2>1, RunOnceCounts DEF BreakerInv, LoopTypeOK, Tally
  <1>2. ASSUME NEW o \in Outcomes, Retry(o) PROVE BreakerInv'
    <2>1. /\ RunOnce(o) /\ Count(o) < Bound /\ o.failed /\ Retryable(o)
          /\ cause' = Cause(o) /\ pause' = Report(Cause(o))
          /\ pc' = "pausing" /\ wait' = pause' /\ stop' = stop
      BY <1>2 DEF Retry
    <2>2. ~Unrepeatable(o) /\ cause' \in {"transport", "other"}
      BY <2>1, OutcomeShape
    <2>3. pause' \in {0} \cup (Base .. Cap)
      BY <2>1 DEF Report, Capped, BreakerInv, LoopTypeOK
    <2>4. QED
      BY <2>1, <2>2, <2>3, RunOnceCounts DEF BreakerInv, LoopTypeOK, Tally
  <1>3. ASSUME NEW o \in Outcomes, StopOnError(o) PROVE BreakerInv'
    <2>1. /\ RunOnce(o) /\ Count(o) < Bound /\ pc' = "stopped" /\ stop' = "error"
          /\ UNCHANGED <<cause, pause, wait>>
      BY <1>3 DEF StopOnError
    <2>2. QED
      BY <2>1, RunOnceCounts DEF BreakerInv, LoopTypeOK, Tally
  <1>4. ASSUME NEW o \in Outcomes, Deliver(o) \/ IdlePoll(o) PROVE BreakerInv'
    <2>1. /\ RunOnce(o) /\ Count(o) < Bound /\ ~o.failed
          /\ cause' = "none" /\ pause' = 0 /\ wait' \in {wait, Base}
          /\ \/ pc' = "stopped" /\ stop' \in {"outcome", "once"}
             \/ pc' = pc /\ stop' = stop
             \/ pc' = "pausing" /\ stop' = stop
      BY <1>4 DEF Deliver, IdlePoll
    <2>2. ~Unrepeatable(o) /\ pc = "polling"
      BY <2>1, OutcomeShape DEF Unrepeatable, RunOnce
    <2>3. QED
      BY <2>1, <2>2, RunOnceCounts DEF BreakerInv, LoopTypeOK, Tally
  <1>5. CASE PauseEnds \/ ContextEnds
    <2>1. /\ pc = "pausing" /\ UNCHANGED <<once, failures, cause, pause, wait, log>>
          /\ \/ pc' = "polling" /\ stop' = stop
             \/ pc' = "stopped" /\ stop' = "context"
      BY <1>5 DEF PauseEnds, ContextEnds
    <2>2. Streak' = Streak
      BY <2>1 DEF Streak
    <2>3. QED
      BY <2>1, <2>2 DEF BreakerInv, LoopTypeOK, Tally, Guarded
  <1>6. CASE UNCHANGED loopVars
    <2>1. Streak' = Streak
      BY <1>6 DEF Streak, loopVars
    <2>2. QED
      BY <2>1, <1>6 DEF BreakerInv, LoopTypeOK, Tally, Guarded, loopVars
  <1>7. QED
    BY <1>1, <1>2, <1>3, <1>4, <1>5, <1>6 DEF LoopNext

\* The process ends when it must and only then: at the third failure of its own
\* since a healthy delivery, and after what one process may not do twice.
THEOREM LoopStops == LoopSpec => []StopsWhenItMust
  <1>1. BreakerInv => StopsWhenItMust
    <2> SUFFICES ASSUME BreakerInv PROVE StopsWhenItMust
      OBVIOUS
    <2>1. TripsExactlyAtBound
      BY DEF BreakerInv, Tally, TripsExactlyAtBound
    <2>2. RefusalEndsProcess
      BY DEF BreakerInv, LoopTypeOK, Guarded, Unrepeatable, RefusalEndsProcess
    <2>3. QED
      BY <2>1, <2>2 DEF BreakerInv, StopsWhenItMust
  <1>2. BreakerInv /\ [LoopNext]_loopVars => BreakerInv'
    BY BreakerStep
  <1>3. QED
    BY BreakerInit, <1>1, <1>2, PTL DEF LoopSpec
-----------------------------------------------------------------------------
(* The pauses *)

\* A power of two counts subsets: twice as many with one element more.
LEMMA PowerDoubles ==
  ASSUME NEW n \in Nat
  PROVE  2 ^ n \in Nat \ {0} /\ 2 ^ (n + 1) = 2 * 2 ^ n
  <1> DEFINE S == SUBSET (1 .. n)
             With(s) == s \cup {n + 1}
             T == {With(s) : s \in S}
  <1>1. /\ IsFiniteSet(1 .. n) /\ Cardinality(1 .. n) = n
        /\ IsFiniteSet(1 .. n + 1) /\ Cardinality(1 .. n + 1) = n + 1
    BY FS_Interval
  <1>2. /\ IsFiniteSet(S) /\ Cardinality(S) = 2 ^ n
        /\ Cardinality(SUBSET (1 .. n + 1)) = 2 ^ (n + 1)
    BY <1>1, FS_SUBSET
  <1>3. IsFiniteSet(T) /\ Cardinality(T) = Cardinality(S)
    <2>1. \A s \in S, t \in S : With(s) = With(t) => s = t
      OBVIOUS
    <2>2. ExistsBijection(S, T)
      <3> DEFINE f == [s \in S |-> With(s)]
      <3>1. f \in [S -> T] /\ \A t \in T : \E s \in S : f[s] = t
        OBVIOUS
      <3>2. \A s \in S, t \in S : f[s] = f[t] => s = t
        BY <2>1
      <3>3. QED
        BY <3>1, <3>2 DEF ExistsBijection, Bijection, Injection, Surjection, IsInjective
    <2>3. QED
      BY <1>2, <2>2, FS_Bijection
  <1>4. SUBSET (1 .. n + 1) = S \cup T /\ S \cap T = {}
    <2>1. ASSUME NEW u \in SUBSET (1 .. n + 1), u \notin S PROVE u \in T
      <3>1. u \ {n + 1} \in S /\ u = With(u \ {n + 1})
        BY <2>1
      <3>2. QED
        BY <3>1
    <2>2. ASSUME NEW t \in T PROVE n + 1 \in t /\ t \in SUBSET (1 .. n + 1)
      <3>1. PICK s \in S : t = s \cup {n + 1}
        OBVIOUS
      <3>2. QED
        BY <3>1
    <2>3. \A s \in S : n + 1 \notin s /\ s \in SUBSET (1 .. n + 1)
      OBVIOUS
    <2>4. QED
      BY <2>1, <2>2, <2>3
  <1>5. Cardinality(S \cup T) = Cardinality(S) + Cardinality(T) - Cardinality(S \cap T)
    BY <1>2, <1>3, FS_Union
  <1>6. Cardinality(S) \in Nat /\ Cardinality({}) = 0
    BY <1>2, FS_CardinalityType, FS_EmptySet
  <1>7. Cardinality(S) # 0
    <2>1. {} \in S
      OBVIOUS
    <2>2. QED
      BY <1>2, <2>1, FS_EmptySet
  <1>8. 2 ^ (n + 1) = 2 ^ n + 2 ^ n
    <2> HIDE DEF S, T
    <2>1. Cardinality(S \cup T) = 2 ^ (n + 1) /\ Cardinality(S \cap T) = 0
      BY <1>2, <1>4, <1>6
    <2>2. QED
      BY <1>2, <1>3, <1>5, <1>6, <2>1
  <1>9. 2 ^ n \in Nat \ {0}
    BY <1>2, <1>6, <1>7
  <1>10. QED
    BY <1>8, <1>9

\* What the pacing knows of the log, while the loop goes on: the cause of the
\* last failure and how long its run of equal causes is, as a pause.
Doubled == Base * 2 ^ (Cardinality(Repeats) - 1)
LastFailed == log # <<>> /\ log[Len(log)].failed
PacedByCause ==
    /\ IsFiniteSet(Repeats)
    /\ LastFailed => Cardinality(Repeats) \in Nat \ {0}
    /\ pc # "stopped" =>
          IF LastFailed THEN cause = Cause(log[Len(log)]) /\ pause = Capped(Doubled)
                        ELSE cause = "none" /\ pause = 0
    /\ PausesArePaced

\* The cap commutes with the doubling.
LEMMA CappedDoubles ==
  ASSUME NEW x \in Nat, NEW p, p = Capped(x)
  PROVE  Capped(2 * x) = IF p < Cap THEN Capped(2 * p) ELSE p
  BY BackoffAssumption DEF BackoffAssumption, Capped

\* One more failure adds to the run of its cause, or begins another one.
LEMMA RepeatsGrow ==
  ASSUME LoopTypeOK, NEW o \in Outcomes, o.failed, log' = Append(log, o),
         IsFiniteSet(Repeats)
  PROVE  /\ LastFailed' /\ log'[Len(log')] = o
         /\ IsFiniteSet(Repeats)'
         /\ IF LastFailed /\ Cause(o) = Cause(log[Len(log)])
            THEN Cardinality(Repeats)' = Cardinality(Repeats) + 1
            ELSE Cardinality(Repeats)' = 1
  <1> DEFINE n == Len(log) + 1
  <1>1. /\ n \in Nat \ {0} /\ Len(log)' = n /\ log'[n] = o /\ log' # <<>>
        /\ \A i \in 1 .. n - 1 : log'[i] = log[i]
        /\ log # <<>> <=> n # 1
    BY DEF LoopTypeOK
  <1>2. n \notin Repeats /\ Repeats \subseteq 1 .. n - 1
    BY <1>1 DEF Repeats
  <1>3. Repeats' = {i \in 1 .. n : \A j \in i .. n :
                      log'[j].failed /\ Cause(log'[j]) = Cause(o)}
    BY <1>1 DEF Repeats
  <1>4. CASE LastFailed /\ Cause(o) = Cause(log[Len(log)])
    <2>1. Repeats' = Repeats \cup {n}
      BY <1>1, <1>3, <1>4 DEF Repeats, LastFailed
    <2>2. QED
      BY <1>1, <1>2, <1>4, <2>1, FS_AddElement DEF LastFailed
  <1>5. CASE ~(LastFailed /\ Cause(o) = Cause(log[Len(log)]))
    <2>1. Repeats' = {n}
      BY <1>1, <1>3, <1>5 DEF LastFailed
    <2>2. QED
      BY <1>1, <1>5, <2>1, FS_Singleton DEF LastFailed
  <1>6. QED
    BY <1>4, <1>5

\* A delivery or an idle poll leaves no failure at the end of the log.
LEMMA SuccessEndsRun ==
  ASSUME LoopTypeOK, NEW o \in Outcomes, ~o.failed, log' = Append(log, o)
  PROVE  ~LastFailed' /\ ~log'[Len(log')].failed /\ IsFiniteSet(Repeats)'
  <1>1. /\ Len(log)' = Len(log) + 1 /\ Len(log) \in Nat /\ log'[Len(log) + 1] = o
    BY DEF LoopTypeOK
  <1>2. Repeats' = {}
    BY <1>1 DEF Repeats
  <1>3. QED
    BY <1>1, <1>2, FS_EmptySet DEF LastFailed

\* The loop begins unpaced.
LEMMA PacedInit == LoopInit => PacedByCause
  <1> SUFFICES ASSUME LoopInit PROVE PacedByCause
    OBVIOUS
  <1>1. Repeats = {}
    BY DEF LoopInit, Repeats
  <1>2. QED
    BY <1>1, FS_EmptySet DEF LoopInit, PacedByCause, LastFailed, PausesArePaced

\* Report continues the pacing: it doubles for the cause it knows, up to the
\* cap, and starts again at the base for every other one.
LEMMA RetryIsPaced ==
  ASSUME BreakerInv, PacedByCause, NEW o \in Outcomes, Retry(o)
  PROVE  PacedByCause'
  <1>1. /\ RunOnce(o) /\ pc = "polling" /\ o.failed /\ log' = Append(log, o)
        /\ cause' = Cause(o) /\ pause' = Report(Cause(o))
        /\ pc' = "pausing" /\ wait' = pause' /\ LoopTypeOK
    BY DEF Retry, RunOnce, Sleep, BreakerInv
  <1>2. /\ LastFailed' /\ log'[Len(log')] = o
        /\ IsFiniteSet(Repeats)'
        /\ IF LastFailed /\ Cause(o) = Cause(log[Len(log)])
           THEN Cardinality(Repeats)' = Cardinality(Repeats) + 1
           ELSE Cardinality(Repeats)' = 1
    BY <1>1, RepeatsGrow DEF PacedByCause
  <1>3. Cardinality(Repeats)' \in Nat \ {0} /\ pause' = Capped(Doubled')
    <2>1. CASE LastFailed /\ Cause(o) = Cause(log[Len(log)])
      <3>1. PICK k \in Nat : Cardinality(Repeats) = k + 1
        <4>1. Cardinality(Repeats) \in Nat \ {0}
          BY <2>1 DEF PacedByCause
        <4>2. Cardinality(Repeats) - 1 \in Nat
          BY <4>1
        <4>3. QED
          BY <4>1, <4>2
      <3>2. PICK x \in Nat : x = Base * 2 ^ k
        BY PowerDoubles, BackoffAssumption DEF BackoffAssumption
      <3>3. Base * 2 ^ (k + 1) = 2 * x
        BY <3>2, PowerDoubles, BackoffAssumption DEF BackoffAssumption
      <3>4. Doubled = x /\ Doubled' = 2 * x
        <4>1. Cardinality(Repeats) - 1 = k /\ Cardinality(Repeats)' - 1 = k + 1
          BY <1>2, <2>1, <3>1
        <4>2. QED
          BY <3>2, <3>3, <4>1 DEF Doubled
      <3>5. cause = Cause(o) /\ pause = Capped(x)
        BY <1>1, <2>1, <3>4 DEF PacedByCause
      <3>6. pause' = Capped(2 * x)
        BY <1>1, <3>5, CappedDoubles DEF Report
      <3>7. QED
        BY <1>2, <2>1, <3>1, <3>4, <3>6
    <2>2. CASE ~(LastFailed /\ Cause(o) = Cause(log[Len(log)]))
      <3>1. cause # Cause(o)
        BY <1>1, <2>2 DEF PacedByCause, Cause
      <3>2. Cardinality(Repeats)' = 1 /\ Doubled' = Base
        <4>1. Cardinality(Repeats)' = 1
          BY <1>2, <2>2
        <4>2. 2 ^ 0 = 1
          OBVIOUS
        <4>3. QED
          BY <4>1, <4>2, BackoffAssumption DEF Doubled, BackoffAssumption
      <3>3. QED
        BY <1>1, <3>1, <3>2, BackoffAssumption DEF Report, Capped, BackoffAssumption
    <2>3. QED
      BY <2>1, <2>2
  <1>4. PausesArePaced'
    BY <1>1, <1>2, <1>3 DEF PausesArePaced, Doubled
  <1>5. QED
    BY <1>1, <1>2, <1>3, <1>4 DEF PacedByCause

\* Every other step stops the loop, ends the run of failures or keeps the log.
LEMMA PacedStep ==
  ASSUME BreakerInv, PacedByCause, [LoopNext]_loopVars
  PROVE  PacedByCause'
  <1>1. LoopTypeOK
    BY DEF BreakerInv
  <1>2. ASSUME NEW o \in Outcomes, Trip(o) \/ StopOnError(o) PROVE PacedByCause'
    <2>1. log' = Append(log, o) /\ pc' = "stopped"
      BY <1>2 DEF Trip, StopOnError, RunOnce, StopFor
    <2>2. CASE o.failed
      <3>1. IsFiniteSet(Repeats)' /\ Cardinality(Repeats)' \in Nat \ {0}
        BY <1>1, <2>1, <2>2, RepeatsGrow DEF PacedByCause
      <3>2. QED
        BY <2>1, <3>1 DEF PacedByCause, PausesArePaced
    <2>3. CASE ~o.failed
      BY <1>1, <2>1, <2>3, SuccessEndsRun DEF PacedByCause, PausesArePaced
    <2>4. QED
      BY <2>2, <2>3
  <1>3. ASSUME NEW o \in Outcomes, Deliver(o) \/ IdlePoll(o) PROVE PacedByCause'
    <2>1. /\ log' = Append(log, o) /\ ~o.failed /\ pc = "polling"
          /\ cause' = "none" /\ pause' = 0
          /\ pc' = "pausing" => wait' = Base
      BY <1>3 DEF Deliver, IdlePoll, RunOnce, StopFor, Sleep, ResetBackoff
    <2>2. QED
      BY <1>1, <2>1, SuccessEndsRun DEF PacedByCause, PausesArePaced
  <1>4. CASE PauseEnds \/ ContextEnds \/ UNCHANGED loopVars
    <2>1. /\ UNCHANGED <<cause, pause, wait, log>>
          /\ pc' \in {"polling", "stopped"} \/ pc' = pc
          /\ pc' # "stopped" => pc # "stopped"
      BY <1>4 DEF PauseEnds, ContextEnds, StopFor, loopVars
    <2>2. UNCHANGED <<Repeats, LastFailed, Doubled>>
      BY <2>1 DEF Repeats, LastFailed, Doubled
    <2>3. QED
      BY <2>1, <2>2 DEF PacedByCause, PausesArePaced
  <1>5. QED
    BY <1>2, <1>3, <1>4, RetryIsPaced DEF LoopNext

\* Every pause is the one its place in the run of equal causes asks for.
THEOREM LoopIsPaced == LoopSpec => []PausesArePaced
  <1>1. BreakerInv /\ PacedByCause /\ [LoopNext]_loopVars => (BreakerInv /\ PacedByCause)'
    BY BreakerStep, PacedStep
  <1>2. BreakerInv /\ PacedByCause => PausesArePaced
    BY DEF PacedByCause
  <1>3. QED
    BY BreakerInit, PacedInit, <1>1, <1>2, PTL DEF LoopSpec
=============================================================================
