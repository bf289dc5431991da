--------------------------- MODULE FailureBreaker ---------------------------
(***************************************************************************)
(* runSupervised of internal/command/runner_runtime.go: the loop around    *)
(* Supervisor.RunOnce, its breaker (three runner-classified failures) and  *)
(* its transportBackoff.  RunOnce is its input: every kind of outcome it   *)
(* can return, in any order.  An error is the set of causes errors.Is and  *)
(* errors.As find in it.  The log of outcomes is kept for the properties.  *)
(***************************************************************************)
EXTENDS Integers, Sequences, FiniteSets

CONSTANTS Bound,     \* consecutiveRunnerFailureBound
          Base, Cap, \* supervisedBackoff and supervisedBackoffCap
          MaxPolls   \* bound on the polls of one process

ASSUME BackoffAssumption ==
    /\ Bound \in Nat \ {0} /\ MaxPolls \in Nat
    /\ Base \in Nat \ {0} /\ Cap \in Nat /\ Base <= Cap

VARIABLES once,     \* run --once
          pc,       \* "polling", "pausing", "stopped"
          stop,     \* why it stopped: "none", "bound", "error", "outcome", "once", "context"
          failures, \* consecutiveRunnerFailures
          cause,    \* transportBackoff.cause
          pause,    \* transportBackoff.pause
          wait,     \* the sleep of this round
          log       \* the outcomes so far

loopVars == <<once, pc, stop, failures, cause, pause, wait, log>>

RunnerReasons == {"malformed_output", "invalid_result"}
Marks == {"cleanup_unconfirmed", "refused", "control_plane", "network",
          "create_uncertain"}

Error(marks) == [failed |-> TRUE, marks |-> marks, worked |-> FALSE,
                 result |-> "none", reason |-> "none"]
Delivered(result, reason) ==
    [failed |-> FALSE, marks |-> {}, worked |-> TRUE,
     result |-> result, reason |-> reason]
Idle == [Delivered("none", "none") EXCEPT !.worked = FALSE]

\* What RunOnce returns: a bare error before or after the claim, a cleanup that
\* is not confirmed with the cause it wraps, no work, or a delivered result.  A
\* refusal carries the 409 it counts.
Outcomes ==
    {Error(m) : m \in {{}, {"control_plane"}, {"network"}}}
    \cup {Error({"cleanup_unconfirmed"} \cup m) :
             m \in {{}, {"control_plane"}, {"network"}, {"create_uncertain"},
                    {"refused", "control_plane"}}}
    \cup {Idle}
    \cup {Delivered(r, "none") : r \in {"conclusive", "inconclusive", "unsupported"}}
    \cup {Delivered("inconclusive", r) : r \in RunnerReasons \cup {"auth_expired"}}

\* runnerClassifiedFailure
Classified(o) ==
    \/ /\ o.failed
       /\ "cleanup_unconfirmed" \in o.marks
       /\ o.marks \cap {"refused", "control_plane", "network"} = {}
    \/ ~o.failed /\ o.worked /\ o.reason \in RunnerReasons

\* Mutant: every unconfirmed cleanup is retried.
RetryableAny(o) == "cleanup_unconfirmed" \in o.marks

\* retryableCleanupFailure
Retryable(o) == /\ "cleanup_unconfirmed" \in o.marks
                /\ o.marks \cap {"refused", "create_uncertain"} = {}

\* failureCause
Cause(o) == IF "refused" \in o.marks THEN "refused"
            ELSE IF o.marks \cap {"control_plane", "network"} # {} THEN "transport"
            ELSE "other"

\* Mutant: the pause grows for ever.
Uncapped(p) == p

\* The cap on the pause.
Capped(p) == IF p < Cap THEN p ELSE Cap

\* Mutant: the pause does not look at the cause.
ReportAnyCause(c) == IF pause = 0 THEN Base
                     ELSE IF pause < Cap THEN Capped(2 * pause) ELSE pause

\* transportBackoff.report: the pause after a failure with this cause.
Report(c) == IF c # cause THEN Base
             ELSE IF pause < Cap THEN Capped(2 * pause) ELSE pause

\* Mutant: an idle poll resets the count.
CountResetByIdle(o) == IF Classified(o) THEN failures + 1
                       ELSE IF o.failed THEN failures ELSE 0

\* The count after this outcome; only a healthy delivery resets it.
Count(o) == CASE Classified(o)        -> failures + 1
              [] ~o.failed /\ o.worked /\ ~Classified(o) -> 0
              [] OTHER                -> failures

LoopInit == /\ once \in BOOLEAN
            /\ pc = "polling" /\ stop = "none" /\ failures = 0
            /\ cause = "none" /\ pause = 0 /\ wait = 0
            /\ log = <<>>

-----------------------------------------------------------------------------

\* RunOnce returns o; everything below is decided on it.
RunOnce(o) == /\ pc = "polling" /\ Len(log) < MaxPolls
              /\ log' = Append(log, o)
              /\ failures' = Count(o)
              /\ UNCHANGED once

StopFor(why) == pc' = "stopped" /\ stop' = why
Sleep(t)     == pc' = "pausing" /\ wait' = t /\ UNCHANGED stop
ResetBackoff == cause' = "none" /\ pause' = 0
Underneath(o) == Count(o) < Bound

Trip(o) == /\ RunOnce(o)
           /\ ~Underneath(o)
           /\ StopFor("bound")
           /\ UNCHANGED <<cause, pause, wait>>

Retry(o) == /\ RunOnce(o)
            /\ Underneath(o) /\ o.failed /\ Retryable(o) /\ ~once
            /\ cause' = Cause(o) /\ pause' = Report(Cause(o))
            /\ Sleep(pause')

StopOnError(o) == /\ RunOnce(o)
                  /\ Underneath(o) /\ o.failed /\ (~Retryable(o) \/ once)
                  /\ StopFor("error")
                  /\ UNCHANGED <<cause, pause, wait>>

\* A delivered outcome is polled on at once; an unsupported one ends the loop.
Deliver(o) == /\ RunOnce(o)
              /\ Underneath(o) /\ ~o.failed /\ o.worked
              /\ ResetBackoff
              /\ \/ o.result = "unsupported" /\ StopFor("outcome")
                 \/ o.result # "unsupported" /\ once /\ StopFor("once")
                 \/ o.result # "unsupported" /\ ~once /\ UNCHANGED <<pc, stop>>
              /\ UNCHANGED wait

IdlePoll(o) == /\ RunOnce(o)
               /\ Underneath(o) /\ ~o.failed /\ ~o.worked
               /\ ResetBackoff
               /\ \/ once /\ StopFor("once") /\ UNCHANGED wait
                  \/ ~once /\ Sleep(Base)

\* sleepOrDone: the timer, or the end of the context.
PauseEnds == /\ pc = "pausing"
             /\ pc' = "polling"
             /\ UNCHANGED <<once, stop, failures, cause, pause, wait, log>>
ContextEnds == /\ pc = "pausing"
               /\ StopFor("context")
               /\ UNCHANGED <<once, failures, cause, pause, wait, log>>

LoopNext == \/ \E o \in Outcomes : \/ Trip(o) \/ Retry(o) \/ StopOnError(o)
                                   \/ Deliver(o) \/ IdlePoll(o)
            \/ PauseEnds \/ ContextEnds

LoopSpec == LoopInit /\ [][LoopNext]_loopVars

-----------------------------------------------------------------------------
(* Properties *)

\* The counts of runSupervised stay within their bounds: the breaker never
\* counts past what stops it, nor a pause past its cap.
LoopTypeOK == /\ once \in BOOLEAN
              /\ pc \in {"polling", "pausing", "stopped"}
              /\ stop \in {"none", "bound", "error", "outcome", "once", "context"}
              /\ failures \in 0 .. Bound
              /\ cause \in {"none", "transport", "other"}
              /\ pause \in {0} \cup (Base .. Cap) /\ wait \in {0} \cup (Base .. Cap)
              /\ log \in Seq(Outcomes)

Healthy(o) == ~o.failed /\ o.worked /\ ~Classified(o)

\* The classified outcomes of the log that no healthy delivery follows.
Streak == {i \in 1 .. Len(log) :
              /\ Classified(log[i])
              /\ \A j \in i .. Len(log) : ~Healthy(log[j])}

\* The breaker opens with the third runner-classified failure since the last
\* healthy delivery, neither earlier nor later: idle polls, outages and waits
\* between them do not hide the streak, and a restart of the pacing neither.
TripsExactlyAtBound == stop = "bound" <=> Cardinality(Streak) >= Bound

\* One process never advances the three-refusal tally twice and never spins on
\* an uncertain create: RunOnce is not called again after either.
RefusalEndsProcess ==
    \A i \in 1 .. Len(log) - 1 :
        log[i].marks \cap {"refused", "create_uncertain"} = {}

\* The process ends when it must and only then: at the bound, or at once where
\* another RunOnce would repeat what must not be repeated.
StopsWhenItMust == LoopTypeOK /\ TripsExactlyAtBound /\ RefusalEndsProcess

\* The failures at the end of the log that share the last one's cause.
Repeats == {i \in 1 .. Len(log) :
               \A j \in i .. Len(log) :
                   log[j].failed /\ Cause(log[j]) = Cause(log[Len(log)])}

\* Every pause is the one its place in the run of equal causes asks for: the
\* base first and after any success, doubled with each repeat, never over the
\* cap, whatever other causes and polls came before.
PausesArePaced ==
    pc = "pausing" =>
        wait = IF log[Len(log)].failed
               THEN Capped(Base * 2 ^ (Cardinality(Repeats) - 1))
               ELSE Base

\* failure-breaker.md opens with "stops polling once an attempt ends the same
\* runner-classified way three times in a row".
StopsOnTheSameWay ==
    stop = "bound" => \A i, j \in Streak : log[i] = log[j]
=============================================================================
