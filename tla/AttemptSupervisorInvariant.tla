--------------------- MODULE AttemptSupervisorInvariant ---------------------
(***************************************************************************)
(* The inductive invariant behind the safety properties of                 *)
(* AttemptSupervisor: what holds between the phase of RunOnce, the guard,  *)
(* the journal, the engine, the watchdogs and the control plane.           *)
(***************************************************************************)
EXTENDS AttemptSupervisor

\* RunOnce supervises a claim in these phases, and a journaled one after the save.
JournaledPhases == {"first_renew"} \cup RunPhases \cup CleanupPhases
ClaimPhases     == {"save_claim"} \cup JournaledPhases

\* No create of the claim has been dispatched, or none ever will be.
BeforeDispatch == {"save_claim", "first_renew", "prepare", "reserve", "arm",
                   "create_start", "start_ack", "create", "finish_confirm",
                   "finish_ack", "finish_save"}
\* A reservation has been journaled and not yet settled.
ReservedPhases == {"arm", "create_start", "start_ack", "create", "creating",
                   "created_confirm", "created_ack", "created_save",
                   "finish_confirm", "finish_ack", "finish_save"}
\* The create runs, or may run, under an armed watchdog.
WatchedPhases == {"create_start", "start_ack", "create", "creating",
                  "created_confirm", "created_ack", "created_save", "start",
                  "wait", "publish", "complete"}
\* The sandbox of the claim, or of the recovered attempt, is confirmed gone.
CleanedPhases == {"disarm", "cleanup_workspace", "cleanup_acknowledge",
                  "cleanup_clear"}
RecoveredPhases == RecoveryPhases \ {"recover_sandbox"}

Alive == {"watching", "cleaning"}

\* The phase, the claim and the journal are of one attempt.
Ownership == pc \in ClaimPhases <=> claim # NoAttempt
JournalOwned ==
    /\ journal.attempt = NoAttempt => journal = NoJournal
    /\ pc \in {"claim", "save_claim"} => journal.attempt = NoAttempt
    /\ pc \in RecoveryPhases => journal.attempt # NoAttempt
    /\ pc \in JournaledPhases => journal.attempt = claim /\ journal.refused = 0

\* The heartbeat goroutine holds mu only while runClaim does not.
HeartbeatOwnsMutex == heartbeat = "sent" => pc \in RunPhases \ MutexPhases

\* The pending flags cover every phase in which disk and memory may differ.
PendingCovers ==
    /\ creationPending => reservationPending
    /\ pc \in ReservedPhases => reservationPending
SandboxPhase ==
    /\ pc \notin ClaimPhases => sandboxID = "none"
    /\ pc \in {"save_claim", "first_renew", "prepare", "reserve"} => sandboxID = "none"
    /\ pc \in {"arm", "create_start", "start_ack", "create", "creating",
               "created_confirm", "created_ack", "created_save"} => sandboxID = "name"
    /\ pc \in {"start", "wait", "publish", "complete"} => sandboxID = "id"
    /\ pc \in {"finish_confirm", "finish_ack", "finish_save"}
           => sandboxID \in {"none", "name"}
    /\ pc \in CleanupPhases => sandboxID \in {"none", "id"}
    /\ pc = "stop" /\ ~reservationPending => sandboxID \in {"none", "id"}
InSync ==
    /\ pc \in JournaledPhases \ {"finish_confirm", "finish_ack", "finish_save", "stop"}
           => journal.sandbox = sandboxID
    /\ pc = "stop" /\ ~reservationPending => journal.sandbox = sandboxID

\* What the engine may hold for the attempt in each phase.
NotDispatched == pc \in BeforeDispatch => ~HasSandbox(claim)
Cleaned == /\ pc \in CleanedPhases => ~HasSandbox(claim)
           /\ pc \in RecoveredPhases => ~HasSandbox(journal.attempt)
RequestBeforeContainer == \A a \in createRequest : container[a] = "absent"
GuardKnowsSandbox == pc \in ClaimPhases /\ HasSandbox(claim) => sandboxID # "none"
IdMeansDecided ==
    /\ journal.sandbox = "id" => journal.attempt \notin createRequest
    /\ sandboxID = "id" => claim \notin createRequest
    /\ pc \in {"created_confirm", "created_ack", "created_save"}
           => claim \notin createRequest

\* An attempt is claimed once, and abandoned only when the journal lets it go.
ClaimedOnce ==
    /\ \A a \in Attempts : server[a] = "queued" => ~HasSandbox(a) /\ a \notin abandoned
    /\ journal.attempt \notin abandoned
    /\ claim \notin abandoned
    /\ journal.attempt # NoAttempt => server[journal.attempt] # "queued"

\* A pending create has been announced to a watchdog that waits for it.
RequestWatched == \A a \in createRequest : createInFlight[a] /\ watchdog[a] \in Alive
DispatchWatched == pc = "create" => createInFlight[claim] /\ watchdog[claim] \in Alive

\* The child of the claim reaches this process with its ACKs.
ClaimConnected ==
    /\ pc \in WatchedPhases => armed
    /\ armed => /\ pc \in JournaledPhases
                /\ watchdog[claim] # "lost"
                /\ watchdog[claim] = "watching" => claim \in piped

\* What the child still has to read when the runner goes on: nothing, but the
\* one phase whose ACK it waits for, or has stopped waiting for.
ReadInOrder ==
    /\ \A a \in Attempts : server[a] = "queued" => unread[a] = {}
    /\ pc \in {"save_claim", "first_renew", "prepare", "reserve", "arm"} \cup
              (WatchedPhases \ {"start_ack", "created_ack"}) => unread[claim] = {}
    /\ pc = "created_ack" => unread[claim] \subseteq {"finished"}
    /\ pc = "start_ack" =>
           /\ unread[claim] \subseteq {"started"}
           /\ \/ "started" \in unread[claim]
              \/ createInFlight[claim] /\ watchdog[claim] \in Alive

\* Nothing is unread of an attempt whose create is undecided or whose container
\* runs: a child that dies at an ACK leaves neither.
UnreadBeforeStart ==
    /\ \A a \in Attempts : unread[a] # {} =>
           a \notin createRequest /\ container[a] # "running"
    /\ pc \in {"creating", "created_confirm", "created_ack", "created_save"}
           => container[claim] # "running"

\* The control plane's view of the attempt in each phase.
Unreleased == pc \in ClaimPhases \ {"cleanup_clear"}
                  => server[claim] \in {"held", "superseded"}
ReleasedAtClear ==
    /\ pc = "cleanup_clear" => server[claim] = "released"
    /\ pc = "recover_clear" =>
           \/ server[journal.attempt] = "released"
           \/ /\ server[journal.attempt] = "superseded"
              /\ journal.refused + 1 = RefusalThreshold
WorkspaceGone ==
    /\ pc \in {"recover_complete", "recover_acknowledge", "recover_clear"}
           => journal.attempt \notin workspaces
    /\ pc \in {"cleanup_acknowledge", "cleanup_clear"} => claim \notin workspaces
CompletedUnlessFailed ==
    pc \in {"stop"} \cup CleanupPhases /\ failure = "none" => result[claim] = "reported"

ControlInv == /\ Ownership /\ JournalOwned /\ HeartbeatOwnsMutex
              /\ PendingCovers /\ SandboxPhase /\ InSync /\ FinishedIsSilent
EngineInv  == /\ NotDispatched /\ Cleaned /\ RequestBeforeContainer
              /\ GuardKnowsSandbox /\ IdMeansDecided /\ ClaimedOnce
              /\ SandboxJournaled
WatchdogInv == /\ RequestWatched /\ DispatchWatched /\ ClaimConnected
               /\ ReadInOrder /\ UnreadBeforeStart /\ SandboxWatched
ServerInv  == /\ Unreleased /\ ReleasedAtClear /\ StoppedMeansGone
              /\ WorkspaceGone /\ WorkspaceJournaled
              /\ CompletedUnlessFailed /\ DeliveredMeansDone

\* Every step of the supervisor and of its environment preserves all of it; the
\* code relies on each part at the line where the next phase takes it on trust.
InductiveInvariant == TypeOK /\ ControlInv /\ EngineInv /\ WatchdogInv /\ ServerInv
=============================================================================
