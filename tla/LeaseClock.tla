----------------------------- MODULE LeaseClock -----------------------------
(***************************************************************************)
(* The clocks of one supervised attempt: the lease the control plane       *)
(* keeps, the leaseGuard's own timer and heartbeat ticker, and the expiry  *)
(* the watchdog child runs on.  AttemptSupervisor has the rest of the      *)
(* protocol, without time.                                                 *)
(*                                                                         *)
(* Time advances by whole ticks (five seconds in the runs).  A timer that  *)
(* is due acts before time goes on; what is due in one tick may happen in  *)
(* any order.  Both hosts read one clock.                                  *)
(***************************************************************************)
EXTENDS Integers

CONSTANTS HeartbeatInterval, \* 10 s
          LeaseDuration,     \* 45 s
          HTTPBudget,        \* 5 s, standardHTTPBudget
          ClaimBudget,       \* 30 s, claimHTTPBudget
          CommandTimeout,    \* 10 s, the watchdog's startup timeout
          GrantPolicies,     \* sets of lease lengths: the control plane grants
                             \* those of one set
          Deadline,          \* the attempt deadline
          Composite,         \* the Codex executor instead of the direct driver
          Horizon            \* bound on time

ASSUME ClockAssumption ==
    /\ HeartbeatInterval \in Nat \ {0} /\ LeaseDuration \in Nat \ {0}
    /\ HTTPBudget \in Nat /\ ClaimBudget \in Nat /\ CommandTimeout \in Nat
    /\ \A policy \in GrantPolicies : policy \subseteq Nat \ {0}
    /\ Deadline \in Nat /\ Horizon \in Nat
    /\ Composite \in BOOLEAN

VARIABLES
    now,
    phase,       \* "first_renew", "prepare", "arming", "running", "done", "failed"
    grants,      \* the lease lengths this control plane grants
    claimLease,  \* claim.LeaseExpiresAt, as the claim response brought it
    serverLease, \* the control plane's lease
    stateLease,  \* leaseGuard.state.LeaseExpiresAt
    live,        \* leaseGuard.ctx is not cancelled
    timer,       \* when leaseGuard.timer fires
    nextBeat,    \* the ticker's next tick
    beat,        \* the heartbeat: "idle", "sent", "granted"
    sentAt,      \* when it was sent
    granted,     \* the lease in its response
    armedAt,     \* when Arm was called
    armLease,    \* the lease Arm was given
    watchdog,    \* "none", "watching", "cleaning"
    expiry       \* the child's leaseExpiry

beatVars     == <<nextBeat, beat, sentAt, granted>>
watchdogVars == <<watchdog, expiry>>
armVars      == <<armedAt, armLease>>
guardVars    == <<live, timer, stateLease>>
terms        == <<grants, claimLease>>
vars == <<now, phase, terms, serverLease, guardVars, beatVars, armVars,
          watchdogVars>>

Earlier(s, t) == IF s < t THEN s ELSE t
Later(s, t)   == IF s < t THEN t ELSE s

\* What the guard allows itself of a lease; the mutant ignores what was granted.
FullLease(lease) == LeaseDuration
Remaining(lease) == Earlier(lease - now, LeaseDuration)

\* The child's expiry for a lease; the mutant forgets the attempt deadline.
AnyExpiry(lease)   == lease
ChildExpiry(lease) == Earlier(lease, Deadline)

\* The lease Arm is given: the direct driver's from the guard's state, the
\* Codex executor's from the claim.  The mutant arms both like the latter.
ClaimedLease == claimLease
LeaseToArm   == IF Composite THEN claimLease ELSE stateLease

\* newLeaseGuard: the response of the claim may have taken its whole budget.
Init == /\ now = 0 /\ phase = "first_renew"
        /\ grants \in GrantPolicies
        /\ \E g \in grants : claimLease \in {t \in 1 .. g : t + ClaimBudget >= g}
        /\ serverLease = claimLease /\ stateLease = claimLease
        /\ live = TRUE
        /\ timer = now + Remaining(claimLease)
        /\ nextBeat = 0 /\ beat = "idle" /\ sentAt = 0 /\ granted = 0
        /\ armedAt = 0 /\ armLease = 0
        /\ watchdog = "none" /\ expiry = 0

\* reserve holds mu while the watchdog starts; the Codex executor does not.  The
\* mutant holds it while the workspace is prepared, too.
MutexHeldLonger == phase \in {"prepare", "arming"} /\ ~Composite
MutexHeld == phase = "arming" /\ ~Composite
Beating   == phase \in {"first_renew", "prepare", "arming", "running"}

-----------------------------------------------------------------------------
(* The guard *)

\* The ticker fires and renew finds mu free; a missed tick is dropped.
BeatSend == /\ Beating /\ live /\ beat = "idle" /\ ~MutexHeld
            /\ now >= nextBeat
            /\ beat' = "sent" /\ sentAt' = now
            /\ nextBeat' = nextBeat + HeartbeatInterval *
                               ((now - nextBeat) \div HeartbeatInterval + 1)
            /\ UNCHANGED <<now, phase, terms, serverLease, guardVars,
                           granted, armVars, watchdogVars>>

\* The control plane renews a lease that has not lapsed.
ServerRenews == /\ beat = "sent" /\ now <= serverLease
                /\ \E g \in grants : serverLease' = Later(serverLease, now + g)
                /\ granted' = serverLease'
                /\ beat' = "granted"
                /\ UNCHANGED <<now, phase, terms, guardVars, nextBeat, sentAt,
                               armVars, watchdogVars>>

\* The rest of renew: an armed watchdog learns the lease before the timer is
\* reset, and a timer that has fired is not revived.  The ticker starts after
\* the first renewal, with the goroutine.
BeatReturns ==
    LET remaining == Remaining(granted) IN
    /\ beat = "granted"
    /\ beat' = "idle"
    /\ IF ~live \/ remaining <= 0
       THEN /\ live' = FALSE
            /\ UNCHANGED <<phase, timer, stateLease, expiry>>
       ELSE /\ stateLease' = granted
            /\ timer' = now + remaining
            /\ expiry' = IF watchdog = "watching"
                         THEN Later(expiry, ChildExpiry(granted)) ELSE expiry
            /\ phase' = IF phase = "first_renew" THEN "prepare" ELSE phase
            /\ UNCHANGED live
    /\ nextBeat' = IF phase = "first_renew" THEN now + HeartbeatInterval
                                            ELSE nextBeat
    /\ UNCHANGED <<now, terms, serverLease, sentAt, granted, armVars, watchdog>>

\* An error, a stop request or a lost response cancels the context.
BeatFails == /\ beat # "idle"
             /\ beat' = "idle" /\ live' = FALSE
             /\ UNCHANGED <<now, phase, terms, serverLease, timer, stateLease,
                            nextBeat, sentAt, granted, armVars, watchdogVars>>

\* The lease timer or the deadline of the context.
GuardExpires == /\ live /\ (now >= timer \/ now >= Deadline)
                /\ live' = FALSE
                /\ UNCHANGED <<now, phase, terms, serverLease, timer, stateLease,
                               beatVars, armVars, watchdogVars>>

-----------------------------------------------------------------------------
(* The attempt *)

\* The workspace is ready and the watchdog is started.
ArmStart == /\ phase = "prepare"
            /\ Composite \/ (live /\ beat = "idle")
            /\ phase' = "arming" /\ armedAt' = now
            /\ armLease' = LeaseToArm
            /\ UNCHANGED <<now, terms, serverLease, guardVars, beatVars,
                           watchdogVars>>

\* The child checks its lease before it reports READY.
ArmReady == /\ phase = "arming" /\ watchdog = "none"
            /\ now < ChildExpiry(armLease)
            /\ phase' = "running"
            /\ watchdog' = "watching" /\ expiry' = ChildExpiry(armLease)
            /\ UNCHANGED <<now, terms, serverLease, guardVars, beatVars, armVars>>
ArmFails == /\ phase = "arming"
            /\ phase' = "failed" /\ live' = FALSE
            /\ UNCHANGED <<now, terms, serverLease, timer, stateLease, beatVars,
                           armVars, watchdogVars>>

\* The execution ends, with its result accepted or because g.ctx is over, and
\* guard.stop cancels what is left of it.
Finish == /\ beat = "idle"
          /\ \/ phase = "running" /\ live /\ phase' = "done"
             \/ /\ phase \in {"first_renew", "prepare", "running"} /\ ~live
                /\ phase' = "failed"
          /\ live' = FALSE
          /\ UNCHANGED <<now, terms, serverLease, timer, stateLease, beatVars,
                         armVars, watchdogVars>>

\* The child polls its expiry and starts to remove the sandbox.
WatchdogExpires == /\ watchdog = "watching" /\ now >= expiry
                   /\ watchdog' = "cleaning"
                   /\ UNCHANGED <<now, phase, terms, serverLease, guardVars,
                                  beatVars, armVars, expiry>>

-----------------------------------------------------------------------------
\* Nothing that is due now is left for later.
Due == \/ live /\ (now >= timer \/ now >= Deadline)
       \/ Beating /\ live /\ beat = "idle" /\ ~MutexHeld /\ now >= nextBeat
       \/ beat # "idle" /\ now >= sentAt + HTTPBudget
       \/ phase = "arming" /\ now >= armedAt + CommandTimeout
       \/ phase \in {"first_renew", "prepare", "running"} /\ ~live /\ beat = "idle"
       \/ watchdog = "watching" /\ now >= expiry

Tick == /\ ~Due /\ now < Horizon
        /\ now' = now + 1
        /\ UNCHANGED <<phase, terms, serverLease, guardVars, beatVars,
                       armVars, watchdogVars>>

Next == \/ BeatSend \/ ServerRenews \/ BeatReturns \/ BeatFails \/ GuardExpires
        \/ ArmStart \/ ArmReady \/ ArmFails \/ Finish \/ WatchdogExpires \/ Tick

Spec == Init /\ [][Next]_vars

-----------------------------------------------------------------------------
(* Properties *)

\* Every clock, deadline and phase keeps its type.
TypeOK ==
    /\ now \in 0 .. Horizon
    /\ phase \in {"first_renew", "prepare", "arming", "running", "done", "failed"}
    /\ live \in BOOLEAN
    /\ claimLease \in Nat /\ serverLease \in Nat /\ stateLease \in Nat
    /\ timer \in Nat /\ nextBeat \in Nat /\ sentAt \in Nat /\ granted \in Nat
    /\ beat \in {"idle", "sent", "granted"}
    /\ armedAt \in Nat /\ armLease \in Nat
    /\ watchdog \in {"none", "watching", "cleaning"} /\ expiry \in 0 .. Deadline

\* Execution authority ends no later than the lease the control plane keeps,
\* even while a heartbeat is blocked, lost, or answered with a longer lease
\* than the runner honours: no second runner can hold the attempt meanwhile.
AuthorityWithinLease == live => now <= serverLease

\* Every lease granted outlasts a heartbeat that waited for the watchdog's startup
\* under mu.  The control plane's do; the runner takes shorter ones, too.
Ample == \A g \in grants :
             g >= 2 * HeartbeatInterval + CommandTimeout + HTTPBudget

\* While every heartbeat is answered within its budget the timer never comes
\* due: interval, HTTP budget and the watchdog's startup under mu fit a lease.
TimerOutlastsBeats == Ample /\ live /\ phase # "first_renew" => now < timer

\* An attempt with authority is never refused its watchdog for a lapsed lease.
ArmedWithinLease == Ample /\ phase = "arming" /\ live => now < armLease

\* Answered heartbeats keep an attempt going: neither its timer nor the lease
\* its watchdog starts with runs out.
HeartbeatsKeepLease == TypeOK /\ TimerOutlastsBeats /\ ArmedWithinLease

\* The watchdog takes the sandbox of a running attempt away only when the
\* guard's context is over or the deadline is reached: its lease is renewed with
\* the guard's ("ExecutorLease is implemented by composite executors whose
\* cleanup watchdog tracks lease renewal", supervisor.go).
WatchdogTracksLease ==
    Ample /\ watchdog = "cleaning" /\ phase = "running" => ~live \/ now >= Deadline
=============================================================================
