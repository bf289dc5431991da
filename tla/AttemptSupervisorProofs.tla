------------------------ MODULE AttemptSupervisorProofs ------------------------
(***************************************************************************)
(* TLAPS proofs about AttemptSupervisor, for every set of attempts, every  *)
(* refusal threshold and every number of crashes, reboots and failures.    *)
(*                                                                         *)
(* The type invariant is not inductive alone (a supervised claim must be   *)
(* an attempt), so one inductive invariant carries everything.  Each part  *)
(* of it has a lemma: every step of Next keeps that part, given the parts  *)
(* it cites.  The theorems after it read the properties off it; the last   *)
(* one is that the supervisor implements SandboxCustody.                   *)
(***************************************************************************)
EXTENDS AttemptSupervisorInvariant, TLAPS

\* A step of the specification; the lemmas below unfold it into its actions.
USE DEF Next, SupervisorStep, vars, guardVars, diskVars, dockerVars,
        watchdogVars, serverVars, auditVars, worldVars,
        Goto, Fail, Forget, ReturnRetryable, ReturnFatal,
        Relaunch, RunOnce, RecoverSandbox, RecoverWorkspace, RecoverComplete,
        RecoverAcknowledge, RecoverClear, Claim, SaveClaim, FirstRenew, Prepare,
        Reserve, Arm, CreateStart, StartAck, Create, CreateReturns,
        CreatedConfirm, CreatedAck, CreatedSave, FinishConfirm, FinishAck,
        FinishSave, Start, Wait, Publish, Complete, Stop, CleanupSandbox,
        Disarm, CleanupWorkspace, CleanupAcknowledge, CleanupClear, Revoke,
        HeartbeatSend, HeartbeatReturns, Crash, Reboot, Discard, WatchdogStep,
        WatchdogReads, WatchdogExpires, WatchdogObserves, WatchdogRemoves,
        WatchdogExits, DockerDecides, Supersede, Tell, Taken, Connected,
        Removes, Refused, Settles, RenewedState

-----------------------------------------------------------------------------
(* Types *)

\* Every step keeps every variable in its type, given who owns the claim.
LEMMA TypeStep ==
  ASSUME TypeOK, Ownership, [Next]_vars
  PROVE  TypeOK'
  <1>1. (pc \in Phases)'
    BY ConstantsAssumption DEF TypeOK, Phases, RecoveryPhases, RunPhases,
       CleanupPhases
  <1>2. (claim \in Attempts \cup {NoAttempt})'
    BY ConstantsAssumption DEF TypeOK
  <1>3. (failure \in {"none", "error", "uncertain"})'
    BY ConstantsAssumption DEF TypeOK
  <1>4. (sandboxID \in Sandbox)'
    BY ConstantsAssumption DEF TypeOK, Sandbox
  <1>5. (creationPending \in BOOLEAN /\ reservationPending \in BOOLEAN)'
    BY ConstantsAssumption DEF TypeOK
  <1>6. (live \in BOOLEAN /\ finished \in BOOLEAN)'
    BY ConstantsAssumption DEF TypeOK
  <1>7. (armed \in BOOLEAN /\ heartbeat \in {"idle", "sent"})'
    BY ConstantsAssumption DEF TypeOK
  <1>8. (journal \in Journal)'
    BY ConstantsAssumption DEF TypeOK, NoJournal, Record, SaveFails, Journal,
       Sandbox
  <1>9. (workspaces \subseteq Attempts)'
    BY ConstantsAssumption DEF TypeOK, Ownership, ClaimPhases, JournaledPhases,
       RunPhases
  <1>10. (container \in [Attempts -> {"absent", "stopped", "running"}])'
    BY ConstantsAssumption DEF TypeOK
  <1>11. (createRequest \subseteq Attempts)'
    BY ConstantsAssumption DEF TypeOK, Ownership, ClaimPhases, JournaledPhases,
       RunPhases
  <1>12. (watchdog \in [Attempts -> {"none", "watching", "cleaning", "exited",
     "lost"}])'
    BY ConstantsAssumption DEF TypeOK
  <1>13. (createInFlight \in [Attempts -> BOOLEAN])'
    <2>1. \/ createInFlight' = createInFlight
          \/ createInFlight' = [a \in Attempts |-> FALSE]
          \/ \E b : createInFlight' = [createInFlight EXCEPT ![b] = TRUE]
          \/ \E b : createInFlight' = [createInFlight EXCEPT ![b] = FALSE]
          \/ \E b, phase : createInFlight' =
                          [createInFlight EXCEPT ![b] = (phase = "started")]
      BY SMTT(60)
    <2> HIDE DEF Next, vars
    <2>2. createInFlight \in [Attempts -> BOOLEAN]
      BY DEF TypeOK
    <2>3. QED
      BY <2>1, <2>2
  <1>14. (server \in [Attempts -> {"queued", "held", "superseded",
     "released"}])'
    BY ConstantsAssumption DEF TypeOK, Acknowledged, AcknowledgementLost
  <1>15. (result \in [Attempts -> {"none", "reported", "interrupted"}])'
    BY ConstantsAssumption DEF TypeOK, Acknowledged, AcknowledgementLost
  <1>16. (abandoned \subseteq Attempts /\ rebooted \subseteq Attempts)'
    BY ConstantsAssumption DEF TypeOK, Journal
  <1>17. (delivered \subseteq Attempts)'
    BY ConstantsAssumption DEF TypeOK, Ownership, ClaimPhases, JournaledPhases,
       CleanupPhases
  <1>18. (faults \in 0 .. MaxFaults)'
    BY ConstantsAssumption DEF TypeOK, Fault, ConstantsAssumption
  <1>19. (unread \in [Attempts -> SUBSET {"started", "finished"}])'
    BY SMTT(60) DEF TypeOK
  <1>20. (piped \subseteq Attempts)'
    BY SMTT(60) DEF TypeOK, Ownership, ClaimPhases, JournaledPhases, RunPhases,
       CleanupPhases
  <1>21. QED
    BY <1>1, <1>2, <1>3, <1>4, <1>5, <1>6, <1>7, <1>8, <1>9, <1>10, <1>11,
       <1>12, <1>13, <1>14, <1>15, <1>16, <1>17, <1>18, <1>19, <1>20 DEF TypeOK

-----------------------------------------------------------------------------
(* Control: the phase, the guard and the journal *)

\* A claim is supervised exactly in the phases of RunOnce after Claim.
LEMMA OwnershipStep ==
  ASSUME Ownership, [Next]_vars
  PROVE  Ownership'
  BY ConstantsAssumption, SMTT(60) DEF Ownership, JournaledPhases, ClaimPhases,
     RunPhases, CleanupPhases

\* The journal belongs to the claim, or to the attempt being recovered.
LEMMA JournalOwnedStep ==
  ASSUME TypeOK, Ownership, JournalOwned, HeartbeatOwnsMutex, [Next]_vars
  PROVE  JournalOwned'
  BY SMTT(60) DEF TypeOK, Ownership, JournalOwned, HeartbeatOwnsMutex,
     JournaledPhases, ClaimPhases, RunPhases, CleanupPhases, RecoveryPhases,
     NoJournal, Record, SaveFails, Journal

\* runClaim never enters or leaves a locked stretch under a heartbeat.
LEMMA HeartbeatOwnsMutexStep ==
  ASSUME HeartbeatOwnsMutex, [Next]_vars
  PROVE  HeartbeatOwnsMutex'
  BY SMTT(60) DEF HeartbeatOwnsMutex, RunPhases, MutexPhases

\* A reservation stays pending until its outcome is on disk.
LEMMA PendingCoversStep ==
  ASSUME PendingCovers, [Next]_vars
  PROVE  PendingCovers'
  BY SMTT(60) DEF PendingCovers, ReservedPhases

\* What the guard remembers of the sandbox follows the phase.
LEMMA SandboxPhaseStep ==
  ASSUME SandboxPhase, PendingCovers, [Next]_vars
  PROVE  SandboxPhase'
  BY SMTT(60) DEF SandboxPhase, PendingCovers, JournaledPhases, ClaimPhases,
     RunPhases, CleanupPhases, ReservedPhases

\* Heartbeat saves and failed saves never part disk and memory unnoticed.
LEMMA InSyncStep ==
  ASSUME InSync, SandboxPhase, PendingCovers, [Next]_vars
  PROVE  InSync'
  BY SMTT(60) DEF InSync, SandboxPhase, PendingCovers, JournaledPhases,
     RunPhases, CleanupPhases, ReservedPhases, Record, SaveFails

-----------------------------------------------------------------------------
(* Engine: containers and undecided creates *)

\* Nothing exists of a claim before its create is dispatched.
LEMMA NotDispatchedStep ==
  ASSUME TypeOK, NotDispatched, ClaimedOnce, Ownership, [Next]_vars
  PROVE  NotDispatched'
  BY SMTT(60) DEF TypeOK, NotDispatched, ClaimedOnce, Ownership,
     JournaledPhases, ClaimPhases, RunPhases, HasSandbox, BeforeDispatch

\* Both cleanup passes leave nothing that could come back.
LEMMA CleanedStep ==
  ASSUME TypeOK, Cleaned, HeartbeatOwnsMutex, GuardKnowsSandbox,
         IdMeansDecided, ClaimedOnce, SandboxJournaled, JournalOwned,
         Ownership, [Next]_vars
  PROVE  Cleaned'
  BY SMTT(60) DEF TypeOK, Cleaned, HeartbeatOwnsMutex, GuardKnowsSandbox,
     IdMeansDecided, ClaimedOnce, SandboxJournaled, JournalOwned, Ownership,
     JournaledPhases, ClaimPhases, CleanupPhases, RecoveryPhases, HasSandbox,
     Record, SaveFails, Journal, CleanedPhases, RecoveredPhases

\* A reserved name is used by one create only.
LEMMA RequestBeforeContainerStep ==
  ASSUME TypeOK, RequestBeforeContainer, NotDispatched, [Next]_vars
  PROVE  RequestBeforeContainer'
  BY SMTT(60) DEF TypeOK, RequestBeforeContainer, NotDispatched, HasSandbox,
     BeforeDispatch

\* The guard never forgets a sandbox that may exist.
LEMMA GuardKnowsSandboxStep ==
  ASSUME TypeOK, GuardKnowsSandbox, NotDispatched, SandboxPhase, ClaimedOnce,
         Ownership, [Next]_vars
  PROVE  GuardKnowsSandbox'
  BY SMTT(60) DEF TypeOK, GuardKnowsSandbox, NotDispatched, SandboxPhase,
     ClaimedOnce, Ownership, JournaledPhases, ClaimPhases, RunPhases,
     CleanupPhases, HasSandbox, BeforeDispatch

\* An id on disk or in memory means that the create is over.
LEMMA IdMeansDecidedStep ==
  ASSUME TypeOK, IdMeansDecided, RequestBeforeContainer, SandboxPhase, InSync,
         JournalOwned, [Next]_vars
  PROVE  IdMeansDecided'
  BY SMTT(60) DEF TypeOK, IdMeansDecided, RequestBeforeContainer, SandboxPhase,
     InSync, JournalOwned, ClaimPhases, NoJournal, Record, SaveFails, Journal

\* An attempt enters and leaves the runner's care once.
LEMMA ClaimedOnceStep ==
  ASSUME TypeOK, ClaimedOnce, Ownership, JournalOwned, Unreleased, [Next]_vars
  PROVE  ClaimedOnce'
  BY ConstantsAssumption, SMTT(60) DEF TypeOK, ClaimedOnce, Ownership,
     JournalOwned, Unreleased, JournaledPhases, ClaimPhases, RunPhases,
     CleanupPhases, HasSandbox, NoJournal, Record, SaveFails, Journal,
     Acknowledged, AcknowledgementLost

\* A container or pending create keeps its journal entry.
LEMMA SandboxJournaledStep ==
  ASSUME TypeOK, SandboxJournaled, NotDispatched, Cleaned, GuardKnowsSandbox,
         JournalOwned, SandboxPhase, InSync, IdMeansDecided,
         RequestBeforeContainer, Ownership, HeartbeatOwnsMutex, [Next]_vars
  PROVE  SandboxJournaled'
  BY SMTT(60) DEF TypeOK, SandboxJournaled, NotDispatched, Cleaned,
     GuardKnowsSandbox, JournalOwned, SandboxPhase, InSync, IdMeansDecided,
     RequestBeforeContainer, Ownership, HeartbeatOwnsMutex, JournaledPhases,
     RunPhases, CleanupPhases, RecoveryPhases, HasSandbox, NoJournal, Record,
     SaveFails, BeforeDispatch, CleanedPhases, RecoveredPhases

-----------------------------------------------------------------------------
(* Watchdogs *)

\* A watchdog never ends the phase of a create that is still undecided.
LEMMA RequestWatchedStep ==
  ASSUME TypeOK, RequestWatched, DispatchWatched, NotDispatched,
         RequestBeforeContainer, IdMeansDecided, UnreadBeforeStart, [Next]_vars
  PROVE  RequestWatched'
  BY SMTT(60) DEF TypeOK, RequestWatched, DispatchWatched, NotDispatched,
     RequestBeforeContainer, IdMeansDecided, UnreadBeforeStart, Alive,
     HasSandbox, BeforeDispatch

\* The create is dispatched under a watchdog that waits for it.
LEMMA DispatchWatchedStep ==
  ASSUME TypeOK, DispatchWatched, NotDispatched, Ownership, ReadInOrder,
         [Next]_vars
  PROVE  DispatchWatched'
  BY SMTT(60) DEF TypeOK, DispatchWatched, NotDispatched, Ownership,
     ReadInOrder, WatchedPhases, JournaledPhases, ClaimPhases, RunPhases, Alive,
     HasSandbox, BeforeDispatch

\* A runner that lives reads the ACKs of the watchdog it armed.
LEMMA ClaimConnectedStep ==
  ASSUME TypeOK, ClaimConnected, Ownership, [Next]_vars
  PROVE  ClaimConnected'
  BY SMTT(60) DEF TypeOK, ClaimConnected, Ownership, WatchedPhases,
     JournaledPhases, ClaimPhases, RunPhases, CleanupPhases

\* Each phase is read before the next one is sent, or its ACK was given up.
LEMMA ReadInOrderStep ==
  ASSUME TypeOK, ReadInOrder, ClaimConnected, NotDispatched, Ownership,
         Unreleased, [Next]_vars
  PROVE  ReadInOrder'
  BY SMTT(60) DEF TypeOK, ReadInOrder, ClaimConnected, NotDispatched,
     Ownership, Unreleased, WatchedPhases, JournaledPhases, ClaimPhases,
     RunPhases, CleanupPhases, Alive, HasSandbox, BeforeDispatch, Acknowledged,
     AcknowledgementLost

\* The id is announced before the container is started, the create before it
\* is dispatched.
LEMMA UnreadBeforeStartStep ==
  ASSUME TypeOK, UnreadBeforeStart, ReadInOrder, NotDispatched,
         RequestBeforeContainer, IdMeansDecided, Ownership, [Next]_vars
  PROVE  UnreadBeforeStart'
  BY SMTT(60) DEF TypeOK, UnreadBeforeStart, ReadInOrder, NotDispatched,
     RequestBeforeContainer, IdMeansDecided, Ownership, WatchedPhases,
     JournaledPhases, ClaimPhases, RunPhases, CleanupPhases, HasSandbox,
     BeforeDispatch

\* A watchdog never exits, is never disarmed and never dies over a sandbox that
\* may run.
LEMMA SandboxWatchedStep ==
  ASSUME TypeOK, SandboxWatched, RequestWatched, DispatchWatched,
         ClaimConnected, UnreadBeforeStart, [Next]_vars
  PROVE  SandboxWatched'
  BY SMTT(60) DEF TypeOK, SandboxWatched, RequestWatched, DispatchWatched,
     ClaimConnected, UnreadBeforeStart, WatchedPhases, Stranded, Alive,
     HasSandbox

-----------------------------------------------------------------------------
(* Control plane, workspace and outcome *)

\* A supervised attempt is not reported stopped.
LEMMA UnreleasedStep ==
  ASSUME TypeOK, Unreleased, Ownership, [Next]_vars
  PROVE  Unreleased'
  BY SMTT(60) DEF TypeOK, Unreleased, Ownership, JournaledPhases, ClaimPhases,
     RunPhases, CleanupPhases

\* The journal is cleared only when the control plane has let go.
LEMMA ReleasedAtClearStep ==
  ASSUME TypeOK, ReleasedAtClear, Ownership, JournalOwned, HeartbeatOwnsMutex,
         [Next]_vars
  PROVE  ReleasedAtClear'
  BY ConstantsAssumption, SMTT(60) DEF TypeOK, ReleasedAtClear, Ownership,
     JournalOwned, HeartbeatOwnsMutex, JournaledPhases, ClaimPhases,
     CleanupPhases, RecoveryPhases, Acknowledged, Record, SaveFails, Journal

\* A stopped attempt has nothing left, and gets nothing again.
LEMMA StoppedMeansGoneStep ==
  ASSUME TypeOK, StoppedMeansGone, SandboxJournaled, Unreleased, Cleaned,
         IdMeansDecided, RequestBeforeContainer, Ownership, JournalOwned,
         [Next]_vars
  PROVE  StoppedMeansGone'
  BY SMTT(60) DEF TypeOK, StoppedMeansGone, SandboxJournaled, Unreleased,
     Cleaned, IdMeansDecided, RequestBeforeContainer, Ownership, JournalOwned,
     JournaledPhases, ClaimPhases, RunPhases, RecoveryPhases, Acknowledged,
     AcknowledgementLost, HasSandbox, CleanedPhases, RecoveredPhases

\* The workspace is gone before the attempt is acknowledged.
LEMMA WorkspaceGoneStep ==
  ASSUME WorkspaceGone, HeartbeatOwnsMutex, [Next]_vars
  PROVE  WorkspaceGone'
  BY SMTT(60) DEF WorkspaceGone, HeartbeatOwnsMutex, RunPhases

\* A workspace keeps its journal entry.
LEMMA WorkspaceJournaledStep ==
  ASSUME TypeOK, WorkspaceJournaled, WorkspaceGone, JournalOwned,
         HeartbeatOwnsMutex, [Next]_vars
  PROVE  WorkspaceJournaled'
  BY ConstantsAssumption, SMTT(60) DEF TypeOK, WorkspaceJournaled,
     WorkspaceGone, JournalOwned, HeartbeatOwnsMutex, JournaledPhases,
     RunPhases, CleanupPhases, Record, SaveFails

\* An execution without an error has had its result accepted.
LEMMA CompletedUnlessFailedStep ==
  ASSUME TypeOK, CompletedUnlessFailed, Ownership, [Next]_vars
  PROVE  CompletedUnlessFailed'
  BY SMTT(60) DEF TypeOK, CompletedUnlessFailed, Ownership, JournaledPhases,
     ClaimPhases, RunPhases, CleanupPhases, Acknowledged

\* A delivered attempt stays reported, released and clean.
LEMMA DeliveredMeansDoneStep ==
  ASSUME TypeOK, DeliveredMeansDone, CompletedUnlessFailed, ReleasedAtClear,
         Cleaned, WorkspaceGone, Unreleased, [Next]_vars
  PROVE  DeliveredMeansDone'
  BY SMTT(60) DEF TypeOK, DeliveredMeansDone, CompletedUnlessFailed,
     ReleasedAtClear, Cleaned, WorkspaceGone, Unreleased, JournaledPhases,
     ClaimPhases, RunPhases, CleanupPhases, Acknowledged, AcknowledgementLost,
     HasSandbox, CleanedPhases

\* complete and renew exclude each other, and renew looks at finished first.
LEMMA FinishedIsSilentStep ==
  ASSUME TypeOK, FinishedIsSilent, [Next]_vars
  PROVE  FinishedIsSilent'
  <1> USE DEF TypeOK, FinishedIsSilent
  <1>1. CASE HeartbeatSend
    BY <1>1
  <1>2. CASE Complete
    BY <1>2
  <1>3. CASE finished' = FALSE
    BY <1>3
  <1>4. CASE finished' = finished /\ heartbeat' = heartbeat
    BY <1>4
  <1>5. CASE HeartbeatReturns
    BY <1>5
  <1>6. HeartbeatSend \/ Complete \/ finished' = FALSE \/ HeartbeatReturns
           \/ (finished' = finished /\ heartbeat' = heartbeat)
    BY SMTT(60)
  <1>7. QED
    BY <1>1, <1>2, <1>3, <1>4, <1>5, <1>6

-----------------------------------------------------------------------------
(* The inductive invariant *)

\* Nothing is running, journaled or placed when the first runner starts.
LEMMA InitialStates == Init => InductiveInvariant
  <1> SUFFICES ASSUME Init PROVE InductiveInvariant
    OBVIOUS
  <1> USE DEF Init
  <1>1. TypeOK
    <2>1. pc \in Phases /\ journal \in Journal
      BY ConstantsAssumption DEF Phases, NoJournal, Journal, Sandbox,
         ConstantsAssumption
    <2>2. faults \in 0 .. MaxFaults
      BY ConstantsAssumption DEF ConstantsAssumption
    <2>3. /\ claim \in Attempts \cup {NoAttempt} /\ sandboxID \in Sandbox
          /\ workspaces \subseteq Attempts /\ createRequest \subseteq Attempts
      BY DEF Sandbox
    <2>4. /\ container \in [Attempts -> {"absent", "stopped", "running"}]
          /\ watchdog \in
                [Attempts -> {"none", "watching", "cleaning", "exited", "lost"}]
          /\ createInFlight \in [Attempts -> BOOLEAN]
          /\ unread \in [Attempts -> SUBSET {"started", "finished"}]
          /\ piped \subseteq Attempts
      OBVIOUS
    <2>5. /\ server \in
                [Attempts -> {"queued", "held", "superseded", "released"}]
          /\ result \in [Attempts -> {"none", "reported", "interrupted"}]
      OBVIOUS
    <2>6. QED
      BY <2>1, <2>2, <2>3, <2>4, <2>5 DEF TypeOK
  <1>2. ControlInv
    <2> USE DEF ClaimPhases, JournaledPhases, RunPhases, CleanupPhases,
                RecoveryPhases, MutexPhases, ReservedPhases
    <2>1. Ownership
      BY DEF Ownership
    <2>2. JournalOwned
      BY DEF JournalOwned
    <2>3. HeartbeatOwnsMutex /\ PendingCovers /\ FinishedIsSilent
      BY DEF HeartbeatOwnsMutex, PendingCovers, FinishedIsSilent
    <2>4. SandboxPhase /\ InSync
      BY DEF SandboxPhase, InSync, NoJournal
    <2>5. QED
      BY <2>1, <2>2, <2>3, <2>4 DEF ControlInv
  <1>3. \A a \in Attempts : ~HasSandbox(a)
    BY DEF HasSandbox
  <1>4. EngineInv
    <2>1. /\ pc \notin BeforeDispatch /\ pc \notin CleanedPhases
          /\ pc \notin RecoveredPhases /\ pc \notin ClaimPhases
          /\ pc \notin {"created_confirm", "created_save"}
      BY DEF BeforeDispatch, CleanedPhases, RecoveredPhases, RecoveryPhases,
             ClaimPhases, JournaledPhases, RunPhases, CleanupPhases
    <2>2. QED
      BY <1>3, <2>1 DEF EngineInv, NotDispatched, Cleaned,
             RequestBeforeContainer, GuardKnowsSandbox, IdMeansDecided, ClaimedOnce, SandboxJournaled,
             NoJournal
  <1>5. WatchdogInv
    BY <1>3 DEF WatchdogInv, RequestWatched, DispatchWatched, SandboxWatched,
                ClaimConnected, ReadInOrder, UnreadBeforeStart, WatchedPhases
  <1>6. ServerInv
    <2>1. pc \notin ClaimPhases /\ pc \notin CleanupPhases
      BY DEF ClaimPhases, JournaledPhases, RunPhases, CleanupPhases
    <2>2. QED
      BY <1>3, <2>1 DEF ServerInv, Unreleased, ReleasedAtClear,
             StoppedMeansGone, WorkspaceGone, WorkspaceJournaled, CompletedUnlessFailed,
             DeliveredMeansDone
  <1>7. QED
    BY <1>1, <1>2, <1>4, <1>5, <1>6 DEF InductiveInvariant

\* Every step of the runner, the watchdogs, the engine, the control plane and
\* the operator preserves the whole invariant.
LEMMA InductiveStep ==
  ASSUME InductiveInvariant, [Next]_vars
  PROVE  InductiveInvariant'
  <1> HIDE DEF Next, vars
  <1>1. TypeOK /\ ControlInv /\ EngineInv /\ WatchdogInv /\ ServerInv
    BY DEF InductiveInvariant
  <1>2. TypeOK'
    BY <1>1, TypeStep DEF ControlInv
  <1>3. ControlInv'
    BY <1>1, OwnershipStep, JournalOwnedStep, HeartbeatOwnsMutexStep,
       PendingCoversStep, SandboxPhaseStep, InSyncStep, FinishedIsSilentStep
       DEF ControlInv
  <1>4. EngineInv'
    BY <1>1, NotDispatchedStep, CleanedStep, RequestBeforeContainerStep,
       GuardKnowsSandboxStep, IdMeansDecidedStep, ClaimedOnceStep,
       SandboxJournaledStep DEF ControlInv, EngineInv, ServerInv
  <1>5. WatchdogInv'
    BY <1>1, RequestWatchedStep, DispatchWatchedStep, ClaimConnectedStep,
       ReadInOrderStep, UnreadBeforeStartStep, SandboxWatchedStep
       DEF ControlInv, EngineInv, WatchdogInv, ServerInv
  <1>6. ServerInv'
    BY <1>1, UnreleasedStep, ReleasedAtClearStep, StoppedMeansGoneStep,
       WorkspaceGoneStep, WorkspaceJournaledStep, CompletedUnlessFailedStep,
       DeliveredMeansDoneStep DEF ControlInv, EngineInv, ServerInv
  <1>7. QED
    BY <1>2, <1>3, <1>4, <1>5, <1>6 DEF InductiveInvariant

\* The inductive invariant holds in every reachable state.
THEOREM Invariance == Spec => []InductiveInvariant
  <1> HIDE DEF Next, vars
  <1>1. InductiveInvariant /\ [Next]_vars => InductiveInvariant'
    BY InductiveStep
  <1>2. QED
    BY InitialStates, <1>1, PTL DEF Spec

-----------------------------------------------------------------------------
(* The properties *)

\* Every variable of the supervisor and its environment keeps its type.
THEOREM TypeCorrect == Spec => []TypeOK
  <1>1. InductiveInvariant => TypeOK
    BY DEF InductiveInvariant
  <1>2. QED
    BY Invariance, <1>1, PTL

\* The journal names every container and every create that may still make one,
\* so no crash between reservation, create and save loses a sandbox.
THEOREM EverySandboxJournaled == Spec => []SandboxJournaled
  <1>1. InductiveInvariant => SandboxJournaled
    BY DEF InductiveInvariant, EngineInv
  <1>2. QED
    BY Invariance, <1>1, PTL

\* Unless the host goes down, a watchdog process outlives every undecided create
\* of its attempt and every container that was ever started; the one it may leave
\* behind was created, its id sent, and the runner killed before the ACK.
THEOREM EverySandboxWatched == Spec => []SandboxWatched
  <1>1. InductiveInvariant => SandboxWatched
    BY DEF InductiveInvariant, WatchdogInv
  <1>2. QED
    BY Invariance, <1>1, PTL

\* An attempt acknowledged as stopped has no container and will get none.
THEOREM StoppedIsGone == Spec => []StoppedMeansGone
  <1>1. InductiveInvariant => StoppedMeansGone
    BY DEF InductiveInvariant, ServerInv
  <1>2. QED
    BY Invariance, <1>1, PTL

\* The journal names every workspace directory that is not yet removed.
THEOREM EveryWorkspaceJournaled == Spec => []WorkspaceJournaled
  <1>1. InductiveInvariant => WorkspaceJournaled
    BY DEF InductiveInvariant, ServerInv
  <1>2. QED
    BY Invariance, <1>1, PTL

\* RunOnce returns Worked only for a reported, released and removed attempt.
THEOREM DeliveredIsDone == Spec => []DeliveredMeansDone
  <1>1. InductiveInvariant => DeliveredMeansDone
    BY DEF InductiveInvariant, ServerInv
  <1>2. QED
    BY Invariance, <1>1, PTL

\* After an accepted completion no heartbeat of the attempt is in flight.
THEOREM CompletionSilencesHeartbeat == Spec => []FinishedIsSilent
  <1>1. InductiveInvariant => FinishedIsSilent
    BY DEF InductiveInvariant, ControlInv
  <1>2. QED
    BY Invariance, <1>1, PTL

\* Cleanup removes what a relaunch after a crash in cleanup would look for.
THEOREM CleanupActsOnJournal == Spec => []CleanupMatchesJournal
  <1>1. ASSUME InductiveInvariant PROVE CleanupMatchesJournal
    <2>1. TypeOK /\ InSync /\ JournalOwned
      BY <1>1 DEF InductiveInvariant, ControlInv
    <2>2. SUFFICES ASSUME pc \in CleanupPhases
                   PROVE  journal = Record(sandboxID)
      BY DEF CleanupMatchesJournal
    <2>3. journal.sandbox = sandboxID
      BY <2>1, <2>2 DEF InSync, JournaledPhases, CleanupPhases
    <2>4. journal.attempt = claim /\ journal.refused = 0
      BY <2>1, <2>2 DEF JournalOwned, JournaledPhases
    <2>5. QED
      BY <2>1, <2>3, <2>4 DEF TypeOK, Journal, Record
  <1>2. QED
    BY Invariance, <1>1, PTL

\* The journal lets an attempt go only when the control plane has let it go, or
\* an operator discards it while no runner is up.
THEOREM JournalReleasedLast == Spec => JournalReleased
  <1>1. ASSUME InductiveInvariant, [Next]_vars
        PROVE  [LET a == journal.attempt IN
                a # NoAttempt /\ journal'.attempt # a =>
                    \/ pc = "down"
                    \/ server[a] = "released"
                    \/ /\ server[a] = "superseded"
                       /\ journal.refused + 1 = RefusalThreshold]_vars
    <2>1. /\ TypeOK /\ Ownership /\ JournalOwned
          /\ HeartbeatOwnsMutex /\ ReleasedAtClear
      BY <1>1 DEF InductiveInvariant, ControlInv, ServerInv
    <2>2. QED
      BY <1>1, <2>1, ConstantsAssumption, SMTT(60) DEF TypeOK, Ownership,
         JournalOwned, HeartbeatOwnsMutex, ReleasedAtClear, JournaledPhases,
         ClaimPhases, RunPhases, CleanupPhases, RecoveryPhases, MutexPhases,
         NoJournal, Record, SaveFails, Journal, Sandbox
  <1> HIDE DEF Next, vars
  <1>2. QED
    BY Invariance, <1>1, PTL DEF Spec, JournalReleased

\* The refusal tally moves by one, and only when the control plane refuses.
THEOREM RefusalsCountedOnce == Spec => RefusalTally
  <1>1. ASSUME InductiveInvariant, [Next]_vars
        PROVE  [(/\ journal.attempt # NoAttempt
                 /\ journal'.attempt = journal.attempt) =>
                  \/ journal'.refused = journal.refused
                  \/ /\ journal'.refused = journal.refused + 1
                     /\ server[journal.attempt] = "superseded"]_vars
    <2>1. TypeOK /\ Ownership /\ JournalOwned /\ HeartbeatOwnsMutex
      BY <1>1 DEF InductiveInvariant, ControlInv
    <2>2. QED
      BY <1>1, <2>1, ConstantsAssumption, SMTT(60) DEF TypeOK, Ownership,
         JournalOwned, HeartbeatOwnsMutex, JournaledPhases, ClaimPhases,
         RunPhases, CleanupPhases, RecoveryPhases, MutexPhases, NoJournal,
         Record, SaveFails, Journal, Sandbox
  <1> HIDE DEF Next, vars
  <1>2. QED
    BY Invariance, <1>1, PTL DEF Spec, RefusalTally

-----------------------------------------------------------------------------
(* The properties the runs check, put together *)

\* The journal, the workspaces, the sandboxes and what cleanup acts on agree.
THEOREM JournalIsComplete == Spec => []EverythingJournaled
  BY EverySandboxJournaled, EveryWorkspaceJournaled, CleanupActsOnJournal, PTL
     DEF EverythingJournaled

\* An accepted completion is followed by cleanup only, and Worked by nothing.
THEOREM NothingAfterCompletion == Spec => []CompletionIsFinal
  BY CompletionSilencesHeartbeat, DeliveredIsDone, PTL DEF CompletionIsFinal

\* The journal is let go of on the word of the control plane or the operator,
\* and its tally moves on refusals only.
THEOREM JournalSettledOnce == Spec => JournalSettles
  BY JournalReleasedLast, RefusalsCountedOnce DEF JournalSettles

-----------------------------------------------------------------------------
(* The abstract specification *)

\* AttemptSupervisor implements SandboxCustody: the active-attempt journal is
\* the custody.  Most steps keep the journaled attempt, the released attempts
\* and the abandoned ones, and add no sandbox: they are Remove or stutter.  The
\* others have a lemma each, which unfolds its own action only.
HIDE DEF Next, SupervisorStep, vars,
         Goto, Fail, Forget, ReturnRetryable, ReturnFatal,
         Relaunch, RunOnce, RecoverSandbox, RecoverWorkspace, RecoverComplete,
         RecoverAcknowledge, RecoverClear, Claim, SaveClaim, FirstRenew,
         Prepare, Reserve, Arm, CreateStart, StartAck, Create, CreateReturns,
         CreatedConfirm, CreatedAck, CreatedSave, FinishConfirm, FinishAck,
         FinishSave, Start, Wait, Publish, Complete, Stop, CleanupSandbox, Disarm, CleanupWorkspace,
         CleanupAcknowledge, CleanupClear, Revoke, HeartbeatSend,
         HeartbeatReturns, Crash, Reboot, Discard, WatchdogStep,
         WatchdogReads, WatchdogExpires, WatchdogObserves, WatchdogRemoves,
         WatchdogExits, Tell, Taken, Connected, DockerDecides, Supersede, Removes, Refused, Settles, RenewedState

\* The attempts of the custody's sandboxes and released.
Placed   == {a \in Attempts : HasSandbox(a)}
Reported == {a \in Attempts : server[a] = "released"}

CustodyStep == [Custody!Next]_(Custody!vars)

\* A step that leaves the custody alone and places no sandbox.
Keeps == /\ journal'.attempt = journal.attempt
         /\ Placed' \subseteq Placed /\ Reported' = Reported
         /\ UNCHANGED abandoned

LEMMA KeepsIsStep ==
  ASSUME Keeps
  PROVE  CustodyStep
  <1>1. Placed' = Placed \ (Placed \ Placed')
    BY DEF Keeps
  <1>2. \E s \in SUBSET Placed : Placed' = Placed \ s
    BY <1>1
  <1>3. Custody!Remove
    BY <1>2 DEF Keeps, Placed, Reported, Custody!Remove
  <1>4. QED
    BY <1>3 DEF CustodyStep, Custody!Next

LEMMA TakeStep ==
  ASSUME NEW a \in Attempts, Custody!Take(a)
  PROVE  CustodyStep
  BY DEF CustodyStep, Custody!Next

LEMMA PlaceStep ==
  ASSUME NEW a \in Attempts, Custody!Place(a)
  PROVE  CustodyStep
  BY DEF CustodyStep, Custody!Next

LEMMA ReleaseStep ==
  ASSUME NEW a \in Attempts, Custody!Release(a)
  PROVE  CustodyStep
  BY DEF CustodyStep, Custody!Next

\* A step in which the journal, the engine and the control plane's word stay.
LEMMA QuietStep ==
  ASSUME UNCHANGED <<journal, container, createRequest, server, abandoned>>
  PROVE  CustodyStep
  <1>1. Keeps
    BY DEF Keeps, Placed, Reported, HasSandbox
  <1>2. QED
    BY <1>1, KeepsIsStep

-----------------------------------------------------------------------------
(* The steps that move the custody *)

\* Journaling a claim takes custody; a claim that cannot be journaled may be
\* reported stopped, for nothing of it was ever dispatched.
LEMMA SaveClaimStep ==
  ASSUME TypeOK, Ownership, JournalOwned, NotDispatched, Unreleased, SaveClaim
  PROVE  CustodyStep
  <1> PICK a \in Attempts : a = claim
    BY DEF SaveClaim, TypeOK, Ownership, ClaimPhases
  <1>1. journal.attempt = NoAttempt /\ a \notin Placed /\ a \notin Reported
    BY DEF SaveClaim, TypeOK, Ownership, JournalOwned, NotDispatched, Unreleased,
           ClaimPhases, BeforeDispatch, Placed, Reported
  <1>2. /\ UNCHANGED <<container, createRequest, abandoned>>
        /\ journal' \in {journal, Record("none")}
        /\ \/ UNCHANGED server
           \/ server' = [server EXCEPT ![a] = "released"]
    BY DEF SaveClaim, SaveFails, AcknowledgementLost, Acknowledged
  <1>3. journal'.attempt \in {NoAttempt, a}
    BY <1>1, <1>2 DEF Record
  <1>4. Reported' \in {Reported, Reported \cup {a}}
    BY <1>1, <1>2 DEF Reported, TypeOK
  <1>5. Placed' = Placed
    BY <1>2 DEF Placed, HasSandbox
  <1>6. CASE journal'.attempt = a
    <2>1. Custody!Take(a)
      BY <1>1, <1>2, <1>4, <1>5, <1>6 DEF Custody!Take, Placed, Reported
    <2>2. QED
      BY <2>1, TakeStep
  <1>7. CASE journal'.attempt = NoAttempt /\ Reported' = Reported
    <2>1. QED
      BY <1>1, <1>2, <1>5, <1>7, KeepsIsStep DEF Keeps
  <1>8. CASE journal'.attempt = NoAttempt /\ Reported' = Reported \cup {a}
    <2>1. Custody!Release(a)
      BY <1>1, <1>2, <1>5, <1>8 DEF Custody!Release, Placed, Reported
    <2>2. QED
      BY <2>1, ReleaseStep
  <1>9. QED
    BY <1>3, <1>4, <1>6, <1>7, <1>8

\* A dispatched create places the sandbox of the attempt in custody.
LEMMA CreateStep ==
  ASSUME TypeOK, Ownership, JournalOwned, Unreleased, Create
  PROVE  CustodyStep
  <1>1. claim \in Attempts /\ journal.attempt = claim /\ claim \notin Reported
    BY DEF Create, TypeOK, Ownership, JournalOwned, Unreleased, ClaimPhases,
           JournaledPhases, RunPhases, Reported
  <1>2. /\ UNCHANGED <<journal, container, server, abandoned>>
        /\ createRequest' \in {createRequest, createRequest \cup {claim}}
    BY DEF Create
  <1>3. CASE UNCHANGED createRequest
    BY <1>2, <1>3, QuietStep
  <1>4. CASE createRequest' = createRequest \cup {claim}
    <2>1. Placed' = Placed \cup {claim} /\ Reported' = Reported
      BY <1>1, <1>2, <1>4 DEF Placed, Reported, HasSandbox
    <2>2. Custody!Place(claim)
      BY <1>1, <1>2, <2>1 DEF Custody!Place, Placed, Reported
    <2>3. QED
      BY <1>1, <2>2, PlaceStep
  <1>5. QED
    BY <1>2, <1>3, <1>4

\* The control plane hears "stopped" of an attempt that has no sandbox.
LEMMA AcknowledgedStep ==
  ASSUME TypeOK, NEW a \in Attempts, ~HasSandbox(a),
         journal'.attempt = journal.attempt,
         UNCHANGED <<container, createRequest, abandoned>>,
         \/ UNCHANGED server
         \/ server' = [server EXCEPT ![a] = "released"]
  PROVE  CustodyStep
  <1>1. Placed' = Placed /\ a \notin Placed
    BY DEF Placed, HasSandbox
  <1>2. CASE UNCHANGED server
    BY <1>1, <1>2, KeepsIsStep DEF Keeps, Reported
  <1>3. CASE server' = [server EXCEPT ![a] = "released"]
    <2>1. Reported' = Reported \cup {a}
      BY <1>3 DEF Reported, TypeOK
    <2>2. Custody!Release(a)
      BY <1>1, <2>1 DEF Custody!Release, Placed, Reported
    <2>3. QED
      BY <2>2, ReleaseStep
  <1>4. QED
    BY <1>2, <1>3

LEMMA AcknowledgeStep ==
  ASSUME TypeOK, Ownership, JournalOwned, Cleaned,
         CleanupAcknowledge \/ RecoverAcknowledge
  PROVE  CustodyStep
  <1>1. PICK a \in Attempts :
          /\ a = journal.attempt /\ ~HasSandbox(a)
          /\ CleanupAcknowledge => a = claim
    BY DEF CleanupAcknowledge, RecoverAcknowledge, TypeOK, Journal, Ownership,
           JournalOwned, Cleaned, CleanedPhases, RecoveredPhases, RecoveryPhases,
           CleanupPhases, JournaledPhases, ClaimPhases
  <1>2. /\ journal'.attempt = journal.attempt
        /\ UNCHANGED <<container, createRequest, abandoned>>
    BY DEF CleanupAcknowledge, RecoverAcknowledge, SaveFails, TypeOK, Journal
  <1>3. \/ UNCHANGED server
        \/ server' = [server EXCEPT ![a] = "released"]
    BY <1>1 DEF CleanupAcknowledge, RecoverAcknowledge, AcknowledgementLost,
                Acknowledged
  <1>4. QED
    BY <1>1, <1>2, <1>3, AcknowledgedStep

\* A journal that is cleared, or may be, yields an attempt without a sandbox.
LEMMA ClearedStep ==
  ASSUME journal.attempt \notin Placed, journal' \in {journal, NoJournal},
         UNCHANGED <<container, createRequest, server, abandoned>>
  PROVE  CustodyStep
  <1>1. CASE UNCHANGED journal
    BY <1>1, QuietStep
  <1>2. CASE journal' = NoJournal
    <2>1. journal'.attempt = NoAttempt
      BY <1>2 DEF NoJournal
    <2>2. Custody!Yield
      BY <2>1 DEF Custody!Yield, Placed, HasSandbox
    <2>3. QED
      BY <2>2 DEF CustodyStep, Custody!Next
  <1>3. QED
    BY <1>1, <1>2

LEMMA ClearStep ==
  ASSUME JournalOwned, Cleaned, RecoverClear \/ CleanupClear
  PROVE  CustodyStep
  <1>1. journal.attempt \notin Placed
    BY DEF RecoverClear, CleanupClear, JournalOwned, Cleaned, CleanedPhases,
           RecoveredPhases, RecoveryPhases, CleanupPhases, JournaledPhases, Placed
  <1>2. /\ journal' \in {journal, NoJournal}
        /\ UNCHANGED <<container, createRequest, server, abandoned>>
    BY DEF RecoverClear, CleanupClear, SaveFails
  <1>3. QED
    BY <1>1, <1>2, ClearedStep

\* A discard that confirmed the removal settles the attempt, for nothing can
\* create its sandbox again; another abandons it.
LEMMA DiscardStep ==
  ASSUME TypeOK, SandboxJournaled, IdMeansDecided, RequestBeforeContainer,
         ClaimedOnce, Discard
  PROVE  CustodyStep
  <1> PICK a \in Attempts : a = journal.attempt
    BY DEF Discard, TypeOK, Journal
  <1>1. journal'.attempt = NoAttempt /\ a # NoAttempt
    BY DEF Discard, NoJournal
  <1>2. PICK removed \in BOOLEAN, cleared \in BOOLEAN :
          /\ removed => \/ journal.sandbox \in {"none", "id"}
                        \/ container[a] # "absent"
          /\ container' = IF removed THEN [container EXCEPT ![a] = "absent"]
                                     ELSE container
          /\ abandoned' = IF removed /\ cleared THEN abandoned
                                                ELSE abandoned \cup {a}
    BY DEF Discard
  <1>3. UNCHANGED createRequest
    BY DEF Discard
  <1>4. Reported' \in {Reported, Reported \cup {a}}
    BY DEF Discard, AcknowledgementLost, Acknowledged, Reported, TypeOK
  <1>5. ~removed => Placed' = Placed
    BY <1>2, <1>3 DEF Placed, HasSandbox
  <1>6. removed => Placed' = Placed \ {a}
    <2> HAVE removed
    <2>1. a \notin createRequest
      BY <1>2 DEF SandboxJournaled, IdMeansDecided, RequestBeforeContainer,
                  ClaimedOnce, HasSandbox
    <2>2. QED
      BY <1>2, <1>3, <2>1 DEF Placed, HasSandbox, TypeOK
  <1>7. CASE removed /\ cleared
    <2>1. Custody!Settle
      BY <1>1, <1>2, <1>4, <1>6, <1>7 DEF Custody!Settle, Placed, Reported
    <2>2. QED
      BY <2>1 DEF CustodyStep, Custody!Next
  <1>8. CASE ~(removed /\ cleared)
    <2>1. Custody!Abandon
      BY <1>1, <1>2, <1>4, <1>5, <1>6, <1>8
         DEF Custody!Abandon, Placed, Reported
    <2>2. QED
      BY <2>1 DEF CustodyStep, Custody!Next
  <1>9. QED
    BY <1>7, <1>8

-----------------------------------------------------------------------------
(* The steps that leave the custody alone *)

\* The state of the claim is saved again; a failed save leaves either state.
LEMMA SavesStep ==
  ASSUME JournalOwned, HeartbeatOwnsMutex,
         HeartbeatReturns \/ Reserve \/ CreatedSave \/ FinishSave
  PROVE  CustodyStep
  <1>1. journal.attempt = claim
    BY DEF HeartbeatReturns, Reserve, CreatedSave, FinishSave, JournalOwned,
           HeartbeatOwnsMutex, JournaledPhases, RunPhases
  <1>2. /\ UNCHANGED <<container, createRequest, server, abandoned>>
        /\ journal'.attempt = journal.attempt
    BY <1>1 DEF HeartbeatReturns, Reserve, CreatedSave, FinishSave, SaveFails,
                RenewedState, Record
  <1>3. QED
    BY <1>2, KeepsIsStep DEF Keeps, Placed, Reported, HasSandbox

\* Steps that start, stop or remove a container, or decide a create.
LEMMA EngineStep ==
  ASSUME TypeOK,
         \/ RecoverSandbox \/ Start \/ Wait \/ CleanupSandbox \/ Reboot
         \/ \E a \in Attempts : WatchdogRemoves(a) \/ DockerDecides(a)
  PROVE  CustodyStep
  <1>1. UNCHANGED <<journal, server, abandoned>>
    BY DEF RecoverSandbox, Start, Wait, CleanupSandbox, Reboot, WatchdogRemoves,
           DockerDecides
  <1>2. ASSUME NEW a \in Attempts, HasSandbox(a)' PROVE HasSandbox(a)
    BY <1>2 DEF RecoverSandbox, Start, Wait, CleanupSandbox, Reboot,
                WatchdogRemoves, DockerDecides, Removes, HasSandbox, TypeOK
  <1>3. QED
    BY <1>1, <1>2, KeepsIsStep DEF Keeps, Placed, Reported

\* A claim is handed out, or given up, only where none was reported stopped.
LEMMA ServerStep ==
  ASSUME TypeOK, Claim \/ \E a \in Attempts : Supersede(a)
  PROVE  CustodyStep
  <1>1. UNCHANGED <<journal, container, createRequest, abandoned>>
    BY DEF Claim, Supersede
  <1>2. Reported' = Reported
    BY DEF Claim, Supersede, Reported, TypeOK
  <1>3. QED
    BY <1>1, <1>2, KeepsIsStep DEF Keeps, Placed, HasSandbox

-----------------------------------------------------------------------------
(* The refinement *)

LEMMA EveryStep ==
  ASSUME InductiveInvariant, [Next]_vars
  PROVE  CustodyStep
  <1>1. /\ TypeOK /\ Ownership /\ JournalOwned /\ HeartbeatOwnsMutex
        /\ NotDispatched /\ Cleaned /\ RequestBeforeContainer
        /\ IdMeansDecided /\ ClaimedOnce /\ SandboxJournaled /\ Unreleased
    BY DEF InductiveInvariant, ControlInv, EngineInv, ServerInv
  <1>2. CASE SaveClaim
    BY <1>1, <1>2, SaveClaimStep
  <1>3. CASE Create
    BY <1>1, <1>3, CreateStep
  <1>4. CASE CleanupAcknowledge \/ RecoverAcknowledge
    BY <1>1, <1>4, AcknowledgeStep
  <1>5. CASE RecoverClear \/ CleanupClear
    BY <1>1, <1>5, ClearStep
  <1>6. CASE Discard
    BY <1>1, <1>6, DiscardStep
  <1>7. CASE HeartbeatReturns \/ Reserve \/ CreatedSave \/ FinishSave
    BY <1>1, <1>7, SavesStep
  <1>8. CASE \/ RecoverSandbox \/ Start \/ Wait \/ CleanupSandbox \/ Reboot
             \/ \E a \in Attempts : WatchdogRemoves(a) \/ DockerDecides(a)
    BY <1>1, <1>8, EngineStep
  <1>9. CASE Claim \/ \E a \in Attempts : Supersede(a)
    BY <1>1, <1>9, ServerStep
  <1>10. CASE \/ Relaunch \/ RunOnce \/ RecoverWorkspace \/ RecoverComplete
              \/ FirstRenew \/ Prepare \/ Arm \/ CreateStart \/ StartAck
              \/ CreateReturns \/ CreatedConfirm \/ CreatedAck
              \/ FinishConfirm \/ FinishAck \/ Publish \/ Complete
              \/ Stop \/ Disarm \/ CleanupWorkspace
              \/ Revoke \/ HeartbeatSend \/ Crash
              \/ \E a \in Attempts : \/ WatchdogReads(a) \/ WatchdogExpires(a)
                                     \/ WatchdogObserves(a) \/ WatchdogExits(a)
              \/ UNCHANGED vars
    <2>1. UNCHANGED <<journal, container, createRequest, server, abandoned>>
      BY <1>10 DEF vars, Relaunch, RunOnce, RecoverWorkspace, RecoverComplete,
         FirstRenew, Prepare, Arm, CreateStart, StartAck, CreateReturns,
         CreatedConfirm, CreatedAck, FinishConfirm, FinishAck, Publish, Complete,
         Stop, Disarm, CleanupWorkspace, Revoke, HeartbeatSend, Crash,
         WatchdogReads, WatchdogExpires, WatchdogObserves, WatchdogExits
    <2>2. QED
      BY <2>1, QuietStep
  <1>11. QED
    BY <1>2, <1>3, <1>4, <1>5, <1>6, <1>7, <1>8, <1>9, <1>10
       DEF Next, SupervisorStep, WatchdogStep

\* Supervisor, heartbeat, watchdog, engine, control plane and operator together
\* keep the promise of SandboxCustody: one attempt in custody, a sandbox only
\* for it, and "stopped" only when that sandbox is gone.
THEOREM CustodyIsKept == Spec => ImplementsCustody
  <1>1. Init => Custody!Init
    BY ConstantsAssumption DEF Init, Custody!Init, HasSandbox, NoJournal
  <1>2. InductiveInvariant /\ [Next]_vars => [Custody!Next]_(Custody!vars)
    BY EveryStep DEF CustodyStep
  <1>3. QED
    BY Invariance, <1>1, <1>2, PTL DEF Spec, ImplementsCustody, Custody!Spec
=============================================================================
