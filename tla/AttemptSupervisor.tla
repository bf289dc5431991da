------------------------- MODULE AttemptSupervisor -------------------------
(***************************************************************************)
(* The supervisor of internal/supervisor with the direct Docker driver:    *)
(* Supervisor.RunOnce, its reconcile and cleanup passes, the leaseGuard    *)
(* and its heartbeat goroutine, the independent watchdog process of        *)
(* internal/sandbox, the attempt journal of internal/attemptstate and the  *)
(* operator's run --discard-attempt.  The Docker engine and the control    *)
(* plane are external: they are modelled by what this code sees of them.   *)
(*                                                                         *)
(* Time is left out: the lease timer, the attempt deadline and a stop      *)
(* signal are the action Revoke, which may come between any two steps, and *)
(* the watchdog's own expiry is WatchdogExpires.  LeaseClock keeps time.   *)
(***************************************************************************)
EXTENDS Naturals

CONSTANTS Attempts,         \* the attempts the control plane may issue
          NoAttempt,        \* "no attempt": an empty journal, no claim
          RefusalThreshold, \* refusedStoppedSettleThreshold
          MaxFaults         \* bound on crashes, reboots and retried failures

ASSUME ConstantsAssumption ==
    /\ NoAttempt \notin Attempts
    /\ RefusalThreshold \in Nat \ {0}
    /\ MaxFaults \in Nat

VARIABLES
    pc,                 \* where the supervisor is; "down" is no process
    claim,              \* the attempt RunOnce supervises
    failure,            \* executionErr: nil, an error, or ErrCreateUncertain
    sandboxID,          \* leaseGuard.state.SandboxID: nil, the reserved name, the id
    creationPending,    \* leaseGuard.creationPending
    reservationPending, \* leaseGuard.reservationPending
    live,               \* leaseGuard.ctx is not cancelled
    finished,           \* leaseGuard.finished
    armed,              \* leaseGuard.watchdog # nil
    heartbeat,          \* the heartbeat goroutine: "idle", or "sent" with mu held
    journal,            \* active-attempt.json
    workspaces,         \* attempts whose workspace directory exists
    container,          \* Docker: the container of the attempt's reserved name
    createRequest,      \* Docker: creates dispatched and not yet decided
    watchdog,           \* the watchdog child of the attempt
    createInFlight,     \* the child's createInFlight
    unread,             \* phase messages in the child's control pipe
    piped,              \* attempts whose child is at the pipes of this process
    server,             \* control plane: the state of the attempt
    result,             \* control plane: the result it accepted
    abandoned,          \* discarded without confirming every removal
    rebooted,           \* attempts whose watchdog died with the host
    delivered,          \* attempts RunOnce returned as Worked
    faults

guardVars    == <<sandboxID, creationPending, reservationPending, live,
                  finished, armed, heartbeat>>
diskVars     == <<journal, workspaces>>
dockerVars   == <<container, createRequest>>
watchdogVars == <<watchdog, createInFlight, unread, piped>>
serverVars   == <<server, result>>
auditVars    == <<abandoned, rebooted, delivered>>
worldVars    == <<dockerVars, watchdogVars, serverVars, auditVars>>
vars         == <<pc, claim, failure, guardVars, diskVars, worldVars, faults>>

Sandbox == {"none", "name", "id"}
Journal == [attempt : Attempts \cup {NoAttempt}, sandbox : Sandbox,
            refused : 0 .. RefusalThreshold - 1]
NoJournal == [attempt |-> NoAttempt, sandbox |-> "none", refused |-> 0]

\* The state RunOnce journals for its claim.
Record(s) == [attempt |-> claim, sandbox |-> s, refused |-> 0]

RecoveryPhases == {"recover_sandbox", "recover_workspace", "recover_complete",
                   "recover_acknowledge", "recover_clear"}
RunPhases == {"prepare", "reserve", "arm", "create_start", "start_ack", "create",
              "creating", "created_confirm", "created_ack", "created_save",
              "start", "wait", "publish", "complete", "finish_confirm",
              "finish_ack", "finish_save", "stop"}
CleanupPhases == {"cleanup_sandbox", "disarm", "cleanup_workspace",
                  "cleanup_acknowledge", "cleanup_clear"}
Phases == {"down", "idle", "claim", "save_claim", "first_renew"}
          \cup RecoveryPhases \cup RunPhases \cup CleanupPhases

\* The steps in the middle of a leaseGuard method that holds mu.
MutexPhases == {"arm", "start_ack", "created_ack", "created_save", "finish_ack",
                "finish_save"}

Init == /\ pc = "down" /\ claim = NoAttempt /\ failure = "none"
        /\ sandboxID = "none" /\ creationPending = FALSE
        /\ reservationPending = FALSE /\ live = FALSE /\ finished = FALSE
        /\ armed = FALSE /\ heartbeat = "idle"
        /\ journal = NoJournal /\ workspaces = {}
        /\ container = [a \in Attempts |-> "absent"] /\ createRequest = {}
        /\ watchdog = [a \in Attempts |-> "none"]
        /\ createInFlight = [a \in Attempts |-> FALSE]
        /\ unread = [a \in Attempts |-> {}] /\ piped = {}
        /\ server = [a \in Attempts |-> "queued"]
        /\ result = [a \in Attempts |-> "none"]
        /\ abandoned = {} /\ rebooted = {} /\ delivered = {}
        /\ faults = 0

-----------------------------------------------------------------------------
(* Helpers *)

Fault == faults < MaxFaults /\ faults' = faults + 1

\* The process keeps nothing of the attempt: RunOnce returned, or it died.
Forget == /\ claim' = NoAttempt /\ failure' = "none"
          /\ sandboxID' = "none" /\ creationPending' = FALSE
          /\ reservationPending' = FALSE /\ live' = FALSE
          /\ finished' = FALSE /\ armed' = FALSE /\ heartbeat' = "idle"

\* runSupervised polls again after a success or a retryable cleanup failure
\* unless --once or the breaker ends it, and exits after every other error.
ReturnRetryable == pc' \in {"idle", "down"} /\ Forget
ReturnFatal     == pc' = "down" /\ Forget

Goto(phase) == /\ pc' = phase
               /\ UNCHANGED <<claim, failure>>
Fail(cause, phase) == /\ pc' = phase /\ failure' = cause
                      /\ UNCHANGED claim

\* attemptstate.Store.Save and Clear replace the file atomically; an error
\* leaves the old or the new contents (the rename precedes the directory sync).
SaveFails(new) == journal' \in {journal, new}

\* Lease.sendPhase writes the phase to a child that watches and waits for its
\* ACK, under mu; the message may stay in the pipe when the wait is given up.
\* The mutant does not wait.
Tell(a, phase) == /\ watchdog[a] = "watching"
                  /\ unread' = [unread EXCEPT ![a] = @ \cup {phase}]
TakenWhenSent(a, phase) == phase \in {"started", "finished"}
Taken(a, phase) == phase \notin unread[a]

\* The process that armed the child still holds the other ends of its pipes.
Connected(a) == pc # "down" /\ a \in piped

\* Docker.Reconcile: the container is gone afterwards, and may be before.
Removes(a) == container' = [container EXCEPT ![a] = "absent"]

\* AcknowledgeStopped: the control plane releases a held attempt, accepts the
\* acknowledgement of a released one again, and refuses a superseded one.
Acknowledged(a) == /\ server[a] \in {"held", "released"}
                   /\ server' = [server EXCEPT ![a] = "released"]
                   /\ UNCHANGED result
\* refusedStoppedAcknowledgement: the 409 of a superseded attempt, and the
\* refusal that settles it.  The mutants count any failure, and settle late.
RefusedWhateverFailed(a) == server[a] \in {"held", "superseded"}
Refused(a) == server[a] = "superseded"
SettlesLate(count) == count > RefusalThreshold
Settles(count) == count >= RefusalThreshold
\* The response is lost, whether or not the request arrived.
AcknowledgementLost(a) == /\ \/ Acknowledged(a)
                             \/ UNCHANGED serverVars

-----------------------------------------------------------------------------
(* The process and RunOnce up to the claim *)

Relaunch == /\ pc = "down"
            /\ Goto("idle")
            /\ piped' = {}
            /\ UNCHANGED <<guardVars, diskVars, dockerVars, watchdog, createInFlight,
                           unread, serverVars, auditVars, faults>>

\* reconcile loads the journal; without one RunOnce goes on to the claim.
RunOnce == /\ pc = "idle"
           /\ Goto(IF journal.attempt = NoAttempt THEN "claim"
                                                  ELSE "recover_sandbox")
           /\ UNCHANGED <<guardVars, diskVars, worldVars, faults>>

\* A reserved name is never resolved here: the create may still be delayed.
RecoverSandbox ==
    /\ pc = "recover_sandbox"
    /\ UNCHANGED <<diskVars, createRequest, watchdogVars, serverVars, auditVars>>
    /\ \/ /\ journal.sandbox = "name"
          /\ ReturnFatal
          /\ UNCHANGED <<container, faults>>
       \/ /\ journal.sandbox = "none"
          /\ Goto("recover_workspace")
          /\ UNCHANGED <<guardVars, container, faults>>
       \/ /\ journal.sandbox = "id"
          /\ Removes(journal.attempt)
          /\ Goto("recover_workspace")
          /\ UNCHANGED <<guardVars, faults>>
       \/ /\ journal.sandbox = "id"
          /\ Fault
          /\ ReturnRetryable
          /\ UNCHANGED container

RecoverWorkspace ==
    /\ pc = "recover_workspace"
    /\ UNCHANGED <<journal, worldVars>>
    /\ \/ /\ workspaces' = workspaces \ {journal.attempt}
          /\ Goto("recover_complete")
          /\ UNCHANGED <<guardVars, faults>>
       \/ /\ Fault
          /\ ReturnRetryable
          /\ UNCHANGED workspaces

\* reportInterrupted's best-effort "incomplete" result, sent while the
\* journaled lease is live; the control plane keeps the first result it took.
RecoverComplete ==
    LET a == journal.attempt IN
    /\ pc = "recover_complete"
    /\ Goto("recover_acknowledge")
    /\ \/ UNCHANGED result
       \/ /\ server[a] = "held" /\ result[a] = "none"
          /\ result' = [result EXCEPT ![a] = "interrupted"]
    /\ UNCHANGED <<guardVars, diskVars, dockerVars, watchdogVars, server,
                   auditVars, faults>>

RecoverAcknowledge ==
    LET a == journal.attempt
        counted == [journal EXCEPT !.refused = @ + 1] IN
    /\ pc = "recover_acknowledge"
    /\ UNCHANGED <<workspaces, dockerVars, watchdogVars, auditVars>>
    /\ \/ /\ Acknowledged(a)
          /\ Goto("recover_clear")
          /\ UNCHANGED <<guardVars, journal, faults>>
       \/ /\ Refused(a) /\ Settles(journal.refused + 1)
          /\ Goto("recover_clear")
          /\ UNCHANGED <<guardVars, journal, serverVars, faults>>
       \/ /\ Refused(a) /\ ~Settles(journal.refused + 1)
          /\ \/ /\ journal' = counted
                /\ ReturnFatal
                /\ UNCHANGED faults
             \/ /\ Fault
                /\ SaveFails(counted)
                /\ ReturnRetryable
          /\ UNCHANGED serverVars
       \/ /\ Fault
          /\ AcknowledgementLost(a)
          /\ ReturnRetryable
          /\ UNCHANGED journal

\* The recovered journal is cleared on disk.  The mutant leaves it to the next
\* claim's save.
RecoverClearUnsaved == /\ pc = "recover_clear"
                       /\ Goto("claim")
                       /\ UNCHANGED <<guardVars, diskVars, worldVars, faults>>
RecoverClear ==
    /\ pc = "recover_clear"
    /\ UNCHANGED <<workspaces, worldVars>>
    /\ \/ /\ journal' = NoJournal
          /\ Goto("claim")
          /\ UNCHANGED <<guardVars, faults>>
       \/ /\ Fault
          /\ SaveFails(NoJournal)
          /\ ReturnFatal

\* Claim returns nothing, an attempt, or an error; an attempt whose response
\* was lost or whose identity does not validate stays with the control plane.
Claim ==
    /\ pc = "claim"
    /\ UNCHANGED <<diskVars, dockerVars, watchdogVars, auditVars, result>>
    /\ \/ /\ ReturnRetryable
          /\ UNCHANGED <<server, faults>>
       \/ \E a \in Attempts :
          /\ server[a] = "queued"
          /\ server' = [server EXCEPT ![a] = "held"]
          /\ \/ /\ claim' = a /\ pc' = "save_claim"
                /\ UNCHANGED <<failure, guardVars, faults>>
             \/ /\ Fault
                /\ ReturnFatal

\* A claim that cannot be journaled is acknowledged as stopped and the
\* supervisor is blocked until it is restarted.
SaveClaim ==
    /\ pc = "save_claim"
    /\ UNCHANGED <<workspaces, dockerVars, watchdogVars, auditVars>>
    /\ \/ /\ journal' = Record("none")
          /\ Goto("first_renew")
          /\ UNCHANGED <<guardVars, serverVars, faults>>
       \/ /\ Fault
          /\ SaveFails(Record("none"))
          /\ AcknowledgementLost(claim)
          /\ ReturnFatal

\* newLeaseGuard renews once before the heartbeat goroutine exists.
FirstRenew ==
    /\ pc = "first_renew"
    /\ UNCHANGED <<sandboxID, creationPending, reservationPending, finished,
                   armed, heartbeat, diskVars, worldVars, faults>>
    /\ \/ /\ server[claim] = "held"
          /\ live' = TRUE
          /\ Goto("prepare")
       \/ /\ Fail("error", "cleanup_sandbox")
          /\ UNCHANGED live

-----------------------------------------------------------------------------
(* The lease guard: revocation and the heartbeat goroutine *)

\* The lease timer, the attempt deadline or a stop signal cancels g.ctx.
Revoke == /\ live
          /\ live' = FALSE
          /\ UNCHANGED <<pc, claim, failure, sandboxID, creationPending,
                         reservationPending, finished, armed, heartbeat,
                         diskVars, worldVars, faults>>

\* renew takes mu, finds the attempt unfinished and the context live, and
\* sends the heartbeat; mu is held until HeartbeatReturns.
HeartbeatSend == /\ pc \in RunPhases \ MutexPhases
                 /\ heartbeat = "idle" /\ live /\ ~finished
                 /\ heartbeat' = "sent"
                 /\ UNCHANGED <<pc, claim, failure, sandboxID, creationPending,
                                reservationPending, live, finished, armed,
                                diskVars, worldVars, faults>>

\* What renew journals: g.state; in the mutant, the state the claim began with.
RenewedClaimState == Record("none")
RenewedState == Record(sandboxID)

\* The guard's copy of the state is saved with the new lease; any error on
\* the way, before or after that save, cancels the context.
HeartbeatReturns ==
    /\ heartbeat = "sent"
    /\ heartbeat' = "idle"
    /\ \/ /\ server[claim] = "held" /\ live
          /\ journal' = RenewedState
          /\ UNCHANGED live
       \/ /\ live' = FALSE
          /\ SaveFails(RenewedState)
    /\ UNCHANGED <<pc, claim, failure, sandboxID, creationPending,
                   reservationPending, finished, armed, workspaces,
                   worldVars, faults>>

-----------------------------------------------------------------------------
(* runClaim *)

\* Prepare may leave part of the workspace behind when it fails.
Prepare ==
    /\ pc = "prepare"
    /\ \/ /\ workspaces' = workspaces \cup {claim}
          /\ Goto("reserve")
       \/ /\ workspaces' \in {workspaces, workspaces \cup {claim}}
          /\ Fail("error", "stop")
    /\ UNCHANGED <<guardVars, journal, worldVars, faults>>

\* reserve journals the deterministic name before anything may be created.
\* A cancelled context leaves nothing reserved, so finishWithoutCreate returns.
Reserve ==
    /\ pc = "reserve" /\ heartbeat = "idle"
    /\ UNCHANGED <<creationPending, live, finished, armed, heartbeat,
                   workspaces, worldVars, faults>>
    /\ \/ /\ ~live
          /\ Fail("error", "stop")
          /\ UNCHANGED <<sandboxID, reservationPending, journal>>
       \/ /\ live
          /\ reservationPending' = TRUE
          /\ \/ /\ journal' = Record("name")
                /\ sandboxID' = "name"
                /\ Goto("arm")
             \/ /\ SaveFails(Record("name"))
                /\ Fail("error", "finish_confirm")
                /\ UNCHANGED sandboxID

\* The watchdog child reports READY, or it never outlives Arm.
Arm ==
    /\ pc = "arm"
    /\ \/ /\ watchdog' = [watchdog EXCEPT ![claim] = "watching"]
          /\ piped' = piped \cup {claim}
          /\ armed' = TRUE
          /\ IF live THEN Goto("create_start")
                     ELSE Fail("error", "finish_confirm")
       \/ /\ Fail("error", "finish_confirm")
          /\ UNCHANGED <<watchdog, piped, armed>>
    /\ UNCHANGED <<sandboxID, creationPending, reservationPending, live,
                   finished, heartbeat, diskVars, dockerVars, createInFlight,
                   unread, serverVars, auditVars, faults>>

\* createStarted announces the create to the watchdog.
CreateStart ==
    /\ pc = "create_start" /\ heartbeat = "idle"
    /\ UNCHANGED <<sandboxID, reservationPending, live, finished, armed,
                   heartbeat, diskVars, dockerVars, watchdog, createInFlight,
                   piped, serverVars, auditVars, faults>>
    /\ \/ /\ ~live
          /\ Fail("error", "finish_confirm")
          /\ UNCHANGED <<creationPending, unread>>
       \/ /\ live
          /\ creationPending' = TRUE
          /\ \/ /\ Tell(claim, "started")
                /\ Goto("start_ack")
             \/ /\ Fail("error", "finish_confirm")
                /\ UNCHANGED unread

\* Without an ACK the child may or may not have taken the announcement.
StartAck ==
    /\ pc = "start_ack"
    /\ \/ /\ Taken(claim, "started")
          /\ Goto("create")
       \/ Fail("error", "finish_confirm")
    /\ UNCHANGED <<guardVars, diskVars, worldVars, faults>>

\* Docker.Create: everything before docker create fails definitively, and
\* needs the live context; the dispatched create is decided by the engine.
Create ==
    /\ pc = "create"
    /\ \/ /\ live
          /\ createRequest' = createRequest \cup {claim}
          /\ Goto("creating")
       \/ /\ Fail("error", "finish_confirm")
          /\ UNCHANGED createRequest
    /\ UNCHANGED <<guardVars, diskVars, container, watchdogVars, serverVars,
                   auditVars, faults>>

\* Mutant: an uncertain create is finished like one that never was.
CreateReturnsDefinitive ==
    /\ pc = "creating"
    /\ \/ /\ container[claim] # "absent"
          /\ Goto("created_confirm")
       \/ Fail("uncertain", "finish_confirm")
    /\ UNCHANGED <<guardVars, diskVars, worldVars, faults>>

\* The id is returned once the new container has been inspected; every error
\* after the dispatch is ErrCreateUncertain.
CreateReturns ==
    /\ pc = "creating"
    /\ \/ /\ container[claim] # "absent"
          /\ Goto("created_confirm")
       \/ Fail("uncertain", "stop")
    /\ UNCHANGED <<guardVars, diskVars, worldVars, faults>>

\* created tells the watchdog the id, which ends its create phase, and once
\* that is acknowledged journals the id in place of the name.
CreatedConfirm ==
    /\ pc = "created_confirm" /\ heartbeat = "idle"
    /\ \/ /\ Tell(claim, "finished")
          /\ Goto("created_ack")
       \/ /\ Fail("error", "stop")
          /\ UNCHANGED unread
    /\ UNCHANGED <<guardVars, diskVars, dockerVars, watchdog, createInFlight,
                   piped, serverVars, auditVars, faults>>

CreatedAck ==
    /\ pc = "created_ack"
    /\ \/ /\ Taken(claim, "finished")
          /\ Goto("created_save")
       \/ Fail("error", "stop")
    /\ UNCHANGED <<guardVars, diskVars, worldVars, faults>>

CreatedSave ==
    /\ pc = "created_save"
    /\ UNCHANGED <<live, finished, armed, heartbeat, workspaces, worldVars, faults>>
    /\ \/ /\ journal' = Record("id")
          /\ sandboxID' = "id"
          /\ creationPending' = FALSE /\ reservationPending' = FALSE
          /\ Goto("start")
       \/ /\ SaveFails(Record("id"))
          /\ Fail("error", "stop")
          /\ UNCHANGED <<sandboxID, creationPending, reservationPending>>

\* finishWithoutCreate first tells an armed watchdog that nothing was created,
\* if it may believe otherwise, and then journals that no sandbox is held.  The
\* pipe of an announcement that could not be written is closed.
FinishConfirm ==
    /\ pc = "finish_confirm" /\ heartbeat = "idle"
    /\ IF armed /\ creationPending
       THEN \/ /\ createInFlight[claim] \/ "started" \in unread[claim]
               /\ Tell(claim, "finished")
               /\ Goto("finish_ack")
            \/ /\ Fail("error", "stop")
               /\ UNCHANGED unread
       ELSE /\ Goto("finish_save")
            /\ UNCHANGED unread
    /\ UNCHANGED <<guardVars, diskVars, dockerVars, watchdog, createInFlight,
                   piped, serverVars, auditVars, faults>>

FinishAck ==
    /\ pc = "finish_ack"
    /\ \/ /\ Taken(claim, "finished")
          /\ Goto("finish_save")
       \/ Fail("error", "stop")
    /\ UNCHANGED <<guardVars, diskVars, worldVars, faults>>

FinishSave ==
    /\ pc = "finish_save"
    /\ Fail("error", "stop")
    /\ \/ /\ journal' = Record("none")
          /\ sandboxID' = "none"
          /\ creationPending' = FALSE /\ reservationPending' = FALSE
       \/ /\ SaveFails(Record("none"))
          /\ creationPending' = TRUE
          /\ UNCHANGED <<sandboxID, reservationPending>>
    /\ UNCHANGED <<live, finished, armed, heartbeat, workspaces, worldVars, faults>>

\* Process.Start; a failure may leave the container running.
Start ==
    /\ pc = "start"
    /\ \/ /\ live /\ container[claim] # "absent"
          /\ container' = [container EXCEPT ![claim] = "running"]
          /\ Goto("wait")
       \/ /\ \/ UNCHANGED container
             \/ /\ container[claim] # "absent"
                /\ container' = [container EXCEPT ![claim] = "running"]
          /\ Fail("error", "stop")
    /\ UNCHANGED <<guardVars, diskVars, createRequest, watchdogVars,
                   serverVars, auditVars, faults>>

\* Process.Wait sees the container stop and still present; the context is
\* checked after it, and the output must decode.
Wait ==
    /\ pc = "wait"
    /\ \/ /\ live /\ container[claim] # "absent"
          /\ container' = [container EXCEPT ![claim] = "stopped"]
          /\ Goto("publish")
       \/ /\ Fail("error", "stop")
          /\ UNCHANGED container
    /\ UNCHANGED <<guardVars, diskVars, createRequest, watchdogVars,
                   serverVars, auditVars, faults>>

\* Event batches and artifacts go out under g.ctx.
Publish ==
    /\ pc = "publish"
    /\ \/ /\ live /\ server[claim] = "held"
          /\ Goto("complete")
       \/ Fail("error", "stop")
    /\ UNCHANGED <<guardVars, diskVars, worldVars, faults>>

\* leaseGuard.complete; an error does not tell whether the result arrived.
Complete ==
    LET accept == /\ live /\ server[claim] = "held" /\ result[claim] = "none"
                  /\ result' = [result EXCEPT ![claim] = "reported"] IN
    /\ pc = "complete" /\ heartbeat = "idle"
    /\ \/ /\ accept
          /\ finished' = TRUE
          /\ Goto("stop")
       \/ /\ accept \/ UNCHANGED result
          /\ Fail("error", "stop")
          /\ UNCHANGED finished
    /\ UNCHANGED <<sandboxID, creationPending, reservationPending, live, armed,
                   heartbeat, diskVars, dockerVars, watchdogVars, server,
                   auditVars, faults>>

\* guard.stop waits for the heartbeat goroutine; a creation that is still
\* pending keeps the journal and the watchdog as they are.
Stop ==
    /\ pc = "stop" /\ heartbeat = "idle"
    /\ UNCHANGED <<diskVars, worldVars, faults>>
    /\ \/ /\ creationPending \/ reservationPending
          /\ IF failure = "uncertain" THEN ReturnFatal ELSE ReturnRetryable
       \/ /\ ~creationPending /\ ~reservationPending
          /\ live' = FALSE
          /\ Goto("cleanup_sandbox")
          /\ UNCHANGED <<sandboxID, creationPending, reservationPending,
                         finished, armed, heartbeat>>

-----------------------------------------------------------------------------
(* cleanup; every failure keeps the journal for reconcile *)

CleanupSandbox ==
    LET next == IF armed THEN "disarm" ELSE "cleanup_workspace" IN
    /\ pc = "cleanup_sandbox"
    /\ \/ /\ sandboxID = "none"
          /\ Goto(next)
          /\ UNCHANGED <<guardVars, container>>
       \/ /\ sandboxID = "id"
          /\ Removes(claim)
          /\ Goto(next)
          /\ UNCHANGED guardVars
       \/ /\ sandboxID # "none"
          /\ ReturnRetryable
          /\ UNCHANGED container
    /\ UNCHANGED <<diskVars, createRequest, watchdogVars, serverVars,
                   auditVars, faults>>

\* Lease.Disarm confirms the container absent, and the child does so again
\* before it exits; a child that is already cleaning up is waited for.
Disarm ==
    /\ pc = "disarm"
    /\ \/ /\ container[claim] = "absent"
          /\ \/ watchdog[claim] = "watching" /\ ~createInFlight[claim]
             \/ watchdog[claim] = "exited"
          /\ watchdog' = [watchdog EXCEPT ![claim] = "exited"]
          /\ piped' = piped \ {claim}
          /\ Goto("cleanup_workspace")
          /\ UNCHANGED guardVars
       \/ /\ ReturnRetryable
          /\ UNCHANGED <<watchdog, piped>>
    /\ UNCHANGED <<diskVars, dockerVars, createInFlight, unread, serverVars,
                   auditVars, faults>>

CleanupWorkspace ==
    /\ pc = "cleanup_workspace"
    /\ \/ /\ workspaces' = workspaces \ {claim}
          /\ Goto("cleanup_acknowledge")
          /\ UNCHANGED guardVars
       \/ /\ ReturnRetryable
          /\ UNCHANGED workspaces
    /\ UNCHANGED <<journal, worldVars, faults>>

CleanupAcknowledge ==
    /\ pc = "cleanup_acknowledge"
    /\ \/ /\ Acknowledged(claim)
          /\ Goto("cleanup_clear")
          /\ UNCHANGED guardVars
       \/ /\ AcknowledgementLost(claim)
          /\ ReturnRetryable
    /\ UNCHANGED <<diskVars, dockerVars, watchdogVars, auditVars, faults>>

\* Mutant: a confirmed cleanup is reported as work whatever the execution said.
CleanupClearAsWorked ==
    /\ pc = "cleanup_clear"
    /\ UNCHANGED <<workspaces, dockerVars, watchdogVars, serverVars,
                   abandoned, rebooted, faults>>
    /\ \/ /\ journal' = NoJournal
          /\ IF failure # "uncertain"
             THEN ReturnRetryable /\ delivered' = delivered \cup {claim}
             ELSE ReturnFatal /\ UNCHANGED delivered
       \/ /\ SaveFails(NoJournal)
          /\ ReturnRetryable
          /\ UNCHANGED delivered

\* RunOnce reports Worked only for an execution that ended without an error.
CleanupClear ==
    /\ pc = "cleanup_clear"
    /\ UNCHANGED <<workspaces, dockerVars, watchdogVars, serverVars,
                   abandoned, rebooted, faults>>
    /\ \/ /\ journal' = NoJournal
          /\ IF failure = "none"
             THEN ReturnRetryable /\ delivered' = delivered \cup {claim}
             ELSE ReturnFatal /\ UNCHANGED delivered
       \/ /\ SaveFails(NoJournal)
          /\ ReturnRetryable
          /\ UNCHANGED delivered

SupervisorStep ==
    \/ Relaunch \/ RunOnce \/ RecoverSandbox \/ RecoverWorkspace
    \/ RecoverComplete \/ RecoverAcknowledge \/ RecoverClear
    \/ Claim \/ SaveClaim \/ FirstRenew \/ Prepare \/ Reserve \/ Arm
    \/ CreateStart \/ StartAck \/ Create \/ CreateReturns \/ CreatedConfirm
    \/ CreatedAck \/ CreatedSave \/ FinishConfirm \/ FinishAck \/ FinishSave
    \/ Start \/ Wait \/ Publish \/ Complete
    \/ Stop \/ CleanupSandbox \/ Disarm \/ CleanupWorkspace
    \/ CleanupAcknowledge \/ CleanupClear

-----------------------------------------------------------------------------
(* The watchdog child *)

\* The child takes the next phase from the control pipe and acknowledges it.
\* Where no process reads its ACK any more the write fails, or SIGPIPE ends it:
\* the child is gone and has cleaned nothing up.
WatchdogReads(a) ==
    LET phase == IF "started" \in unread[a] THEN "started" ELSE "finished" IN
    /\ watchdog[a] = "watching" /\ unread[a] # {}
    /\ IF Connected(a)
       THEN /\ unread' = [unread EXCEPT ![a] = @ \ {phase}]
            /\ createInFlight' = [createInFlight EXCEPT ![a] = (phase = "started")]
            /\ UNCHANGED watchdog
       ELSE /\ watchdog' = [watchdog EXCEPT ![a] = "lost"]
            /\ unread' = [unread EXCEPT ![a] = {}]
            /\ createInFlight' = [createInFlight EXCEPT ![a] = FALSE]
    /\ UNCHANGED <<pc, claim, failure, guardVars, diskVars, dockerVars, piped,
                   serverVars, auditVars, faults>>

\* EOF on the control pipe, the lease or the deadline: the child cleans up.
WatchdogExpires(a) ==
    /\ watchdog[a] = "watching"
    /\ watchdog' = [watchdog EXCEPT ![a] = "cleaning"]
    /\ UNCHANGED <<pc, claim, failure, guardVars, diskVars, dockerVars,
                   createInFlight, unread, piped, serverVars, auditVars, faults>>

\* Mutant: only a running container proves the create over.
WatchdogObservesRunning(a) ==
    /\ watchdog[a] = "cleaning" /\ container[a] = "running" /\ createInFlight[a]
    /\ createInFlight' = [createInFlight EXCEPT ![a] = FALSE]
    /\ UNCHANGED <<pc, claim, failure, guardVars, diskVars, dockerVars,
                   watchdog, unread, piped, serverVars, auditVars, faults>>

\* A container it has seen is proof that the create is no longer in flight.
WatchdogObserves(a) ==
    /\ watchdog[a] = "cleaning" /\ container[a] # "absent" /\ createInFlight[a]
    /\ createInFlight' = [createInFlight EXCEPT ![a] = FALSE]
    /\ UNCHANGED <<pc, claim, failure, guardVars, diskVars, dockerVars,
                   watchdog, unread, piped, serverVars, auditVars, faults>>

WatchdogRemoves(a) ==
    /\ watchdog[a] = "cleaning" /\ container[a] # "absent" /\ ~createInFlight[a]
    /\ container' = [container EXCEPT ![a] = "absent"]
    /\ watchdog' = [watchdog EXCEPT ![a] = "exited"]
    /\ piped' = piped \ {a}
    /\ UNCHANGED <<pc, claim, failure, guardVars, diskVars, createRequest,
                   createInFlight, unread, serverVars, auditVars, faults>>

\* Mutant: absence ends the child in the middle of a create.
WatchdogExitsEarly(a) ==
    /\ watchdog[a] = "cleaning" /\ container[a] = "absent"
    /\ watchdog' = [watchdog EXCEPT ![a] = "exited"]
    /\ piped' = piped \ {a}
    /\ UNCHANGED <<pc, claim, failure, guardVars, diskVars, dockerVars,
                   createInFlight, unread, serverVars, auditVars, faults>>

\* Absence ends the child only when no create can still arrive.
WatchdogExits(a) ==
    /\ watchdog[a] = "cleaning" /\ container[a] = "absent" /\ ~createInFlight[a]
    /\ watchdog' = [watchdog EXCEPT ![a] = "exited"]
    /\ piped' = piped \ {a}
    /\ UNCHANGED <<pc, claim, failure, guardVars, diskVars, dockerVars,
                   createInFlight, unread, serverVars, auditVars, faults>>

WatchdogStep(a) == \/ WatchdogReads(a) \/ WatchdogExpires(a)
                   \/ WatchdogObserves(a) \/ WatchdogRemoves(a)
                   \/ WatchdogExits(a)

-----------------------------------------------------------------------------
(* The Docker engine and the control plane, external *)

\* The engine decides a dispatched create, however late.
DockerDecides(a) ==
    /\ a \in createRequest
    /\ createRequest' = createRequest \ {a}
    /\ \/ container' = [container EXCEPT ![a] = "stopped"]
       \/ UNCHANGED container
    /\ UNCHANGED <<pc, claim, failure, guardVars, diskVars, watchdogVars,
                   serverVars, auditVars, faults>>

\* The control plane gives the attempt up: a swept lease or a newer fence.
Supersede(a) ==
    /\ server[a] = "held"
    /\ server' = [server EXCEPT ![a] = "superseded"]
    /\ UNCHANGED <<pc, claim, failure, guardVars, diskVars, dockerVars,
                   watchdogVars, result, auditVars, faults>>

-----------------------------------------------------------------------------
(* Faults and the operator *)

\* The runner process dies; the watchdog, the engine and the disk live on.
Crash == /\ pc # "down"
         /\ Fault
         /\ ReturnFatal
         /\ UNCHANGED <<diskVars, worldVars>>

\* The host goes down: every watchdog and every undecided create goes with it.
Reboot ==
    /\ Fault
    /\ ReturnFatal
    /\ rebooted' = rebooted \cup
                   {a \in Attempts : watchdog[a] \in {"watching", "cleaning"}}
    /\ watchdog' = [a \in Attempts |-> IF watchdog[a] \in {"watching", "cleaning"}
                                       THEN "exited" ELSE watchdog[a]]
    /\ createInFlight' = [a \in Attempts |-> FALSE]
    /\ unread' = [a \in Attempts |-> {}] /\ piped' = {}
    /\ createRequest' = {}
    /\ container' = [a \in Attempts |-> IF container[a] = "absent"
                                        THEN "absent" ELSE "stopped"]
    /\ UNCHANGED <<diskVars, serverVars, abandoned, delivered>>

\* run --discard-attempt, under the lock of a stopped runner: the sandbox, the
\* acknowledgement and the workspace are each tried once, the journal goes.
Discard ==
    LET a == journal.attempt IN
    /\ pc = "down" /\ a # NoAttempt
    /\ journal' = NoJournal
    /\ \E removed, cleared \in BOOLEAN :
       /\ removed => \/ journal.sandbox \in {"none", "id"}
                     \/ container[a] # "absent"
       /\ container' = IF removed THEN [container EXCEPT ![a] = "absent"]
                                  ELSE container
       /\ workspaces' = IF cleared THEN workspaces \ {a} ELSE workspaces
       /\ abandoned' = IF removed /\ cleared THEN abandoned
                                             ELSE abandoned \cup {a}
    /\ AcknowledgementLost(a)
    /\ UNCHANGED <<pc, claim, failure, guardVars, createRequest, watchdogVars,
                   rebooted, delivered, faults>>

Next == \/ SupervisorStep
        \/ Revoke \/ HeartbeatSend \/ HeartbeatReturns
        \/ Crash \/ Reboot \/ Discard
        \/ \E a \in Attempts : \/ WatchdogStep(a)
                               \/ DockerDecides(a) \/ Supersede(a)

Spec == Init /\ [][Next]_vars

\* What the code and its environment keep doing: the runner is relaunched and
\* takes its next step (Go mutexes do not starve a waiter, hence SF), a
\* heartbeat ends within its HTTP budget, the engine decides a create, and a
\* watchdog runs out of its lease or deadline and polls until it is done.
Fairness == /\ SF_vars(SupervisorStep)
            /\ WF_vars(HeartbeatReturns)
            /\ \A a \in Attempts : /\ WF_vars(WatchdogExpires(a))
                                   /\ WF_vars(WatchdogObserves(a))
                                   /\ WF_vars(WatchdogRemoves(a))
                                   /\ WF_vars(WatchdogExits(a))
                                   /\ WF_vars(DockerDecides(a))
FairSpec == Spec /\ Fairness

-----------------------------------------------------------------------------
(* Properties *)

\* Every variable of the guard, the journal, the engine, the watchdogs and the
\* control plane keeps its type.
TypeOK ==
    /\ pc \in Phases
    /\ claim \in Attempts \cup {NoAttempt}
    /\ failure \in {"none", "error", "uncertain"}
    /\ sandboxID \in Sandbox
    /\ creationPending \in BOOLEAN /\ reservationPending \in BOOLEAN
    /\ live \in BOOLEAN /\ finished \in BOOLEAN /\ armed \in BOOLEAN
    /\ heartbeat \in {"idle", "sent"}
    /\ journal \in Journal
    /\ workspaces \subseteq Attempts
    /\ container \in [Attempts -> {"absent", "stopped", "running"}]
    /\ createRequest \subseteq Attempts
    /\ watchdog \in
          [Attempts -> {"none", "watching", "cleaning", "exited", "lost"}]
    /\ createInFlight \in [Attempts -> BOOLEAN]
    /\ unread \in [Attempts -> SUBSET {"started", "finished"}]
    /\ piped \subseteq Attempts
    /\ server \in [Attempts -> {"queued", "held", "superseded", "released"}]
    /\ result \in [Attempts -> {"none", "reported", "interrupted"}]
    /\ abandoned \subseteq Attempts /\ rebooted \subseteq Attempts
    /\ delivered \subseteq Attempts
    /\ faults \in 0 .. MaxFaults

\* The engine holds, or may still make, a container for the attempt.
HasSandbox(a) == container[a] # "absent" \/ a \in createRequest

\* A container, or a create that may still produce one, is always named by the
\* journal, so every relaunch finds it: through crashes, failed saves, stale
\* heartbeats and reboots.  Only an operator's discard may lose it.
SandboxJournaled ==
    \A a \in Attempts \ abandoned :
        HasSandbox(a) => journal.attempt = a /\ journal.sandbox # "none"

\* A child gone at its ACK left a container that was created and never started.
Stranded(a) == /\ watchdog[a] = "lost" /\ a \notin createRequest
               /\ container[a] = "stopped"

\* While the host stays up, an undecided create and a container that was ever
\* started always have a watchdog process that will remove them, whatever the
\* runner does: the child never exits, is never disarmed and never dies at an
\* ACK between a create and the end of its container.  The one container it may
\* leave is the one whose id a dead runner had just sent it.
SandboxWatched ==
    \A a \in Attempts \ rebooted :
        HasSandbox(a) => watchdog[a] \in {"watching", "cleaning"} \/ Stranded(a)

\* "retries cleanup on EOF or expiry until the exact owned container is absent"
\* (watchdog.go): a container the runner leaves behind always has its child.
WatchedUntilGone ==
    \A a \in Attempts \ rebooted :
        container[a] # "absent" => watchdog[a] \in {"watching", "cleaning"}

\* The control plane is told "stopped" only when nothing of the attempt runs or
\* can still start (RunOnce's cleanup and reconcile; discard warns instead).
StoppedMeansGone ==
    \A a \in Attempts \ abandoned :
        server[a] = "released" => ~HasSandbox(a)

\* A workspace directory, the user's source, never outlives its journal.
WorkspaceJournaled ==
    \A a \in workspaces \ abandoned : journal.attempt = a

\* "Outcome is observable only after accepted completion and confirmed
\* cleanup": Worked implies the control plane holds the reported result and
\* the release, and that no container and no workspace is left.
DeliveredMeansDone ==
    \A a \in delivered : /\ result[a] = "reported" /\ server[a] = "released"
                         /\ ~HasSandbox(a) /\ a \notin workspaces

\* The state cleanup acts on is the state a crash would recover: no heartbeat
\* save and no failed save ever sets the two apart.
CleanupMatchesJournal ==
    pc \in CleanupPhases => journal = Record(sandboxID)

\* The journal tells a relaunch all there is to recover: every container, every
\* undecided create, every workspace, and the state cleanup itself acts on.
EverythingJournaled ==
    SandboxJournaled /\ WorkspaceJournaled /\ CleanupMatchesJournal

\* No heartbeat is in flight, and none is sent, after an accepted completion.
FinishedIsSilent == finished => heartbeat = "idle"

\* After an accepted completion nothing but cleanup is left to do: no heartbeat
\* may renew the lease, and Worked is told only when that cleanup is done.
CompletionIsFinal == FinishedIsSilent /\ DeliveredMeansDone

\* The journal lets an attempt go only after the control plane has accepted the
\* stopped acknowledgement or refused it RefusalThreshold times, or by the
\* operator's hand on a stopped runner.
JournalReleased ==
    [][LET a == journal.attempt IN
       a # NoAttempt /\ journal'.attempt # a =>
           \/ pc = "down"
           \/ server[a] = "released"
           \/ server[a] = "superseded" /\ journal.refused + 1 = RefusalThreshold]_vars

\* The tally of refusals moves by one, on a refusal, and nothing else counts
\* or resets it ("an unrelated failure in between neither counts nor resets
\* the tally", README).
RefusalTally ==
    [][journal.attempt # NoAttempt /\ journal'.attempt = journal.attempt =>
           \/ journal'.refused = journal.refused
           \/ /\ journal'.refused = journal.refused + 1
              /\ server[journal.attempt] = "superseded"]_vars

\* The journal is settled with the control plane, once and no sooner: what
\* ends its custody, and what counts towards ending it.
JournalSettles == JournalReleased /\ RefusalTally

\* Whatever happens to the runner, a container or a pending create is gone in
\* the end, without a relaunch: unless the host itself went down, or the child
\* died at the ACK of a container that was never started.
SandboxEventuallyGone ==
    \A a \in Attempts :
        HasSandbox(a) ~> (~HasSandbox(a) \/ a \in rebooted \/ Stranded(a))

\* A runner that stopped during an attempt whose sandbox it knows by id, or
\* that holds none, recovers it and lets it go.
RecoveryCompletes ==
    \A a \in Attempts :
        (pc = "down" /\ journal.attempt = a /\ journal.sandbox # "name")
            ~> (journal.attempt # a)

\* failure-breaker.md says of an uncertain create on a reserved name that it
\* recurs "until an operator or the original watchdog resolves it": so once
\* the watchdog has removed the sandbox and exited, a relaunch recovers.
WatchdogResolvesReservation ==
    \A a \in Attempts :
        (pc = "down" /\ journal.attempt = a /\ watchdog[a] = "exited")
            ~> (journal.attempt # a)

-----------------------------------------------------------------------------
(* The supervisor implements SandboxCustody: the journal is the custody *)

Custody == INSTANCE SandboxCustody WITH
               custody   <- journal.attempt,
               sandboxes <- {a \in Attempts : HasSandbox(a)},
               released  <- {a \in Attempts : server[a] = "released"},
               lost      <- abandoned

\* Every step of runner, watchdog, engine, control plane and operator is a step
\* of the custody promise, or none of it: serial custody by the journal file.
ImplementsCustody == Custody!Spec

=============================================================================
