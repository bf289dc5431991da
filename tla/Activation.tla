----------------------------- MODULE Activation -----------------------------
(***************************************************************************)
(* The activation of a runner's configuration, tokens and launchers by     *)
(* install.Guard: activateLocked, its journal .activation.json, recover    *)
(* and finishActivation, over the private directory of the installation.   *)
(*                                                                         *)
(* Each name has a live file, a backup and a pending file; its content is  *)
(* the number of the activation that wrote it.  The code syncs every file  *)
(* it writes, and the directory at chosen points only: between two of them *)
(* a power loss leaves each directory entry in any of the contents it had  *)
(* since.  All of it runs under .launch.lock, one operation at a time.     *)
(***************************************************************************)
EXTENDS Integers, Sequences

CONSTANTS Order,          \* activationNames: the names, in order
          MaxActivations, \* bound on activations
          MaxFaults       \* bound on crashes, power losses and failed calls

ASSUME ActivationAssumption ==
    /\ Len(Order) \in Nat \ {0}
    /\ \A j, k \in 1 .. Len(Order) : Order[j] = Order[k] => j = k
    /\ MaxActivations \in Nat /\ MaxFaults \in Nat

Names == {Order[k] : k \in 1 .. Len(Order)}

\* A name has three entries; the last two are guard.backup and guard.pending.
Live(n)      == <<"live", n>>
BackupOf(n)  == <<"backup", n>>
PendingOf(n) == <<"pending", n>>
Staging == {BackupOf(n) : n \in Names} \cup {PendingOf(n) : n \in Names}
Entries == {Live(n) : n \in Names} \cup Staging

Absent   == 0
Torn     == -1
Contents == {Torn, Absent} \cup 1 .. MaxActivations
Unknown  == -1

VARIABLES
    op,         \* "free", "validate", "activate", "rollback" or "commit"
    pc,         \* the step it is at
    i,          \* the name that step is at
    file,       \* the entries of the directory
    marker,     \* activationJournal: its state, and the names it says existed
    fileDisk,   \* what each entry may be after a power loss
    markerDisk,
    generation, \* the last activation begun
    base,       \* the generation it found
    promised,   \* what the last activation told the operator is in force
    skipped,    \* recover took a removal of the journal for done without a sync
    revived,    \* and a power loss took that removal back
    faults

disk == <<file, marker, fileDisk, markerDisk, skipped, revived>>
vars == <<op, pc, i, disk, generation, base, promised, faults>>

\* activationJournal: its state, and the names it says existed.
NoMarker    == [state |-> "absent", existed |-> {}]
TornMarker  == [state |-> "torn", existed |-> {}]
Valid(names) == [state |-> "valid", existed |-> names]
Markers     == {NoMarker, TornMarker} \cup {Valid(names) : names \in SUBSET Names}

Init == /\ op = "free" /\ pc = "idle" /\ i = 1
        /\ file = [e \in Entries |-> Absent] /\ marker = NoMarker
        /\ fileDisk = [e \in Entries |-> {Absent}] /\ markerDisk = {NoMarker}
        /\ generation = 0 /\ base = 0 /\ promised = 0
        /\ skipped = FALSE /\ revived = FALSE /\ faults = 0

-----------------------------------------------------------------------------
(* The directory *)

Becomes(f, m) ==
    /\ file' = f /\ marker' = m /\ UNCHANGED <<skipped, revived>>
    /\ fileDisk' = [e \in Entries |-> fileDisk[e] \cup {f[e]}]
    /\ markerDisk' = markerDisk \cup {m}

Synced == /\ fileDisk' = [e \in Entries |-> {file[e]}]
          /\ markerDisk' = {marker}
          /\ skipped' = FALSE /\ UNCHANGED <<file, marker, revived>>

\* writeExclusive: the entry, its bytes, and their sync; it may stop anywhere.
Put(e, c) == [file EXCEPT ![e] = c]
Writing(e, c) == {file, Put(e, Torn), Put(e, c)}

\* removePreparation and the end of finishActivation.
Cleared(entries) ==
    [e \in Entries |-> IF e \in entries THEN Absent ELSE file[e]]
\* finishActivation removes in order, and stops at the first failure.
FirstOf(k) == {BackupOf(Order[n])  : n \in {m \in 1 .. Len(Order) : 2 * m - 1 <= k}} \cup
              {PendingOf(Order[n]) : n \in {m \in 1 .. Len(Order) : 2 * m <= k}}

name    == Order[i]
live    == Live(name)
backup  == BackupOf(name)
pending == PendingOf(name)

\* Which names the journal says existed; the mutant says all of them.
EverythingExisted == Names
Existed == {n \in Names : file[Live(n)] # Absent}

\* What recover puts back for a name.
Restored == IF name \in marker.existed
            THEN [Put(live, file[backup]) EXCEPT ![pending] = Absent]
            ELSE Put(live, Absent)

\* The directories the present step may leave when it fails or the process dies.
Halfway ==
    CASE pc = "backup" /\ file[live] # Absent -> Writing(backup, file[live])
      [] pc = "stage"        -> Writing(pending, generation)
      [] pc = "restore" /\ name \in marker.existed /\ file[backup] # Absent ->
             {file} \cup {Put(pending, c) : c \in {Absent, Torn, file[backup]}}
      [] pc \in {"discard", "abort_discard"} ->
             {Cleared(entries) : entries \in SUBSET Staging}
      [] pc = "finish_files" ->
             {Cleared(FirstOf(k)) : k \in 0 .. 2 * Len(Order)}
      [] OTHER               -> {file}
HalfwayMarker == IF pc = "write_marker"
                 THEN {marker, TornMarker, Valid(Existed)} ELSE {marker}

Fault == faults < MaxFaults /\ faults' = faults + 1
Fails == /\ Fault
         /\ \E f \in Halfway, m \in HalfwayMarker : Becomes(f, m)
Works(f, m) == Becomes(f, m) /\ UNCHANGED faults
SyncFails   == Fault /\ UNCHANGED disk
SyncWorks   == Synced /\ UNCHANGED faults

Goto(step) == /\ pc' = step
              /\ UNCHANGED <<op, i, generation, base, promised>>
GotoName(k, step) == /\ pc' = step /\ i' = k
                     /\ UNCHANGED <<op, generation, base, promised>>
\* The operation ends, and says (or said before) what is in force.
Tell(g) == /\ op' = "free" /\ pc' = "idle" /\ i' = 1 /\ promised' = g
           /\ UNCHANGED <<generation, base>>
GiveUp == Tell(promised)

\* The last name; the mutant runs over it.
LastOffByOne(k) == k > Len(Order)
Last(k) == k = Len(Order)

-----------------------------------------------------------------------------
(* withLocks: Validate, Configuration and ActivateLaunchers recover first *)

Begin == /\ op = "free"
         /\ op' \in {"validate", "activate"} /\ pc' = "recover" /\ i' = 1
         /\ UNCHANGED <<disk, generation, base, promised, faults>>

\* A journal that does not decode stops every operation.  One that is not there
\* needs no sync, whoever removed it and when.
Recover == /\ pc = "recover"
           /\ CASE marker.state = "absent" -> Goto("discard")
                [] marker.state = "valid"  -> GotoName(1, "restore")
                [] marker.state = "torn"   -> GiveUp
           /\ skipped' = (skipped \/ (marker = NoMarker /\ markerDisk # {NoMarker}))
           /\ UNCHANGED <<file, marker, fileDisk, markerDisk, revived, faults>>

\* recover returned: the operation goes on, or is done.
Recovered ==
    \/ op = "validate" /\ GiveUp
    \/ op = "rollback" /\ Tell(base)
    \/ op = "activate" /\ GiveUp
    \/ /\ op = "activate" /\ generation < MaxActivations
       /\ pc' = "backup" /\ i' = 1
       /\ generation' = generation + 1
       /\ base' = file[Live(Order[1])] /\ promised' = Unknown
       /\ UNCHANGED op

Discard == /\ pc = "discard"
           /\ \/ Works(Cleared(Staging), marker) /\ Recovered
              \/ Fails /\ GiveUp

\* Mutant: a pending file left by the activation is not removed first.
RestorableOverNothing == file[backup] # Absent /\ file[pending] = Absent
Restorable == file[backup] # Absent

Restore ==
    /\ pc = "restore"
    /\ \/ /\ name \notin marker.existed \/ Restorable
          /\ Works(Restored, marker)
          /\ IF Last(i) THEN GotoName(1, "recover_sync")
                        ELSE GotoName(i + 1, "restore")
       \/ /\ name \in marker.existed /\ ~Restorable
          /\ GiveUp /\ UNCHANGED <<disk, faults>>
       \/ Fails /\ GiveUp

RecoverSync == /\ pc = "recover_sync"
               /\ \/ SyncWorks /\ Goto("finish_marker")
                  \/ SyncFails /\ GiveUp

-----------------------------------------------------------------------------
(* activateLocked *)

Backup == /\ pc = "backup"
          /\ \/ /\ file[live] = Absent
                /\ Goto("stage") /\ UNCHANGED <<disk, faults>>
             \/ /\ file[live] # Absent
                /\ Works(Put(backup, file[live]), marker) /\ Goto("stage")
             \/ Fails /\ GotoName(1, "abort_discard")

Stage == /\ pc = "stage"
         /\ \/ /\ Works(Put(pending, generation), marker)
               /\ IF Last(i) THEN GotoName(1, "sync_prepared")
                             ELSE GotoName(i + 1, "backup")
            \/ Fails /\ GotoName(1, "abort_discard")

SyncPrepared == /\ pc = "sync_prepared"
                /\ \/ SyncWorks /\ Goto("write_marker")
                   \/ SyncFails /\ Goto("abort_discard")

\* Mutant: a journal that could not be written does not stop the activation.
WriteMarkerAnyway == /\ pc = "write_marker"
                     /\ \/ Works(file, Valid(Existed)) /\ Goto("sync_marker")
                        \/ Fails /\ Goto("sync_marker")
WriteMarker == /\ pc = "write_marker"
               /\ \/ Works(file, Valid(Existed)) /\ Goto("sync_marker")
                  \/ Fails /\ Goto("abort_marker")

\* Mutant: the files are replaced before the journal is known to be on disk.
SyncMarkerLater == /\ pc = "sync_marker"
                   /\ \/ UNCHANGED <<disk, faults>> /\ Goto("rename")
                      \/ SyncFails /\ GiveUp
SyncMarker == /\ pc = "sync_marker"
              /\ \/ SyncWorks /\ Goto("rename")
                 \/ SyncFails /\ GiveUp

\* A failed rename is rolled back from the journal at once.
Rename == /\ pc = "rename"
          /\ \/ /\ Works([Put(live, file[pending]) EXCEPT ![pending] = Absent],
                         marker)
                /\ IF Last(i) THEN GotoName(1, "sync_live")
                              ELSE GotoName(i + 1, "rename")
             \/ /\ Fails
                /\ op' = "rollback" /\ pc' = "recover" /\ i' = 1
                /\ UNCHANGED <<generation, base, promised>>

\* Mutant: the journal goes before the files it covers are known to be on disk.
SyncLiveLater == /\ pc = "sync_live"
                 /\ \/ /\ UNCHANGED <<disk, faults>>
                       /\ op' = "commit" /\ pc' = "finish_marker"
                       /\ UNCHANGED <<i, generation, base, promised>>
                    \/ SyncFails /\ GiveUp
SyncLive == /\ pc = "sync_live"
            /\ \/ /\ SyncWorks
                  /\ op' = "commit" /\ pc' = "finish_marker"
                  /\ UNCHANGED <<i, generation, base, promised>>
               \/ SyncFails /\ GiveUp

-----------------------------------------------------------------------------
(* finishActivation *)

FinishMarker == /\ pc = "finish_marker"
                /\ \/ Works(file, NoMarker) /\ Goto("finish_sync")
                   \/ Fails /\ GiveUp

\* Mutant: an unconfirmed removal of the journal is reported as committed.
FinishSyncCommits == /\ pc = "finish_sync"
                     /\ \/ SyncWorks /\ Goto("finish_files")
                        \/ /\ SyncFails
                           /\ Tell(IF op = "commit" THEN generation ELSE promised)
FinishSync == /\ pc = "finish_sync"
              /\ \/ SyncWorks /\ Goto("finish_files")
                 \/ SyncFails /\ GiveUp

\* The activation is committed from here on, whatever fails.
FinishFiles == /\ pc = "finish_files"
               /\ \/ Works(Cleared(Staging), marker) /\ Goto("finish_last_sync")
                  \/ Fails /\ op = "commit" /\ Tell(generation)
                  \/ Fails /\ op # "commit" /\ GiveUp

FinishLastSync == /\ pc = "finish_last_sync"
                  /\ \/ /\ op = "commit"
                        /\ SyncWorks \/ SyncFails
                        /\ Tell(generation)
                     \/ op # "commit" /\ SyncWorks /\ Recovered
                     \/ op # "commit" /\ SyncFails /\ GiveUp

-----------------------------------------------------------------------------
(* abortJournal and preparationError *)

AbortMarker == /\ pc = "abort_marker"
               /\ \/ Works(file, NoMarker) /\ Goto("abort_marker_sync")
                  \/ Fails /\ GiveUp
AbortMarkerSync == /\ pc = "abort_marker_sync"
                   /\ \/ SyncWorks /\ Goto("abort_discard")
                      \/ SyncFails /\ GiveUp
AbortDiscard == /\ pc = "abort_discard"
                /\ \/ Works(Cleared(Staging), marker) /\ Goto("abort_sync")
                   \/ Fails /\ GiveUp
AbortSync == /\ pc = "abort_sync"
             /\ \/ SyncWorks /\ Tell(base)
                \/ SyncFails /\ GiveUp

-----------------------------------------------------------------------------
(* Faults *)

\* The process dies in the middle of a step; the lock goes with it.
Crash == op # "free" /\ Fails /\ GiveUp

\* The directories a power loss may leave.  One in the middle of a step is a
\* crash there and then a power loss.
Surviving == {f \in [Entries -> UNION {fileDisk[e] : e \in Entries}] :
                 \A e \in Entries : f[e] \in fileDisk[e]}

PowerLoss ==
    /\ op = "free" /\ Fault
    /\ file' \in Surviving /\ marker' \in markerDisk
    /\ skipped' = FALSE /\ revived' = (revived \/ (skipped /\ marker' # NoMarker))
    /\ fileDisk' = [e \in Entries |-> {file'[e]}]
    /\ markerDisk' = {marker'}
    /\ UNCHANGED <<op, pc, i, generation, base, promised>>

Proceed == \/ Begin \/ Recover \/ Discard \/ Restore \/ RecoverSync
           \/ Backup \/ Stage \/ SyncPrepared \/ WriteMarker \/ SyncMarker
           \/ Rename \/ SyncLive \/ FinishMarker \/ FinishSync \/ FinishFiles
           \/ FinishLastSync \/ AbortMarker \/ AbortMarkerSync
           \/ AbortDiscard \/ AbortSync

Next == Proceed \/ Crash \/ PowerLoss
Spec == Init /\ [][Next]_vars

\* An operator runs setup or a launcher again, and a process that is not killed
\* goes on.
FairSpec == Spec /\ WF_vars(Proceed)

-----------------------------------------------------------------------------
(* Properties *)

Uniform(g) == \A n \in Names : file[Live(n)] = g

\* Every variable keeps its type.
TypeOK ==
    /\ op \in {"free", "validate", "activate", "rollback", "commit"}
    /\ pc \in {"idle", "recover", "discard", "restore", "recover_sync",
               "backup", "stage", "sync_prepared", "write_marker",
               "sync_marker", "rename", "sync_live", "finish_marker", "finish_sync",
               "finish_files", "finish_last_sync", "abort_marker", "abort_marker_sync",
               "abort_discard", "abort_sync"}
    /\ i \in 1 .. Len(Order)
    /\ file \in [Entries -> Contents]
    /\ fileDisk \in [Entries -> SUBSET Contents]
    /\ \A e \in Entries : file[e] \in fileDisk[e]
    /\ markerDisk \subseteq Markers /\ marker \in markerDisk
    /\ generation \in 0 .. MaxActivations /\ base \in Contents
    /\ promised \in {Unknown} \cup 0 .. MaxActivations
    /\ skipped \in BOOLEAN /\ revived \in BOOLEAN /\ faults \in 0 .. MaxFaults

\* A launcher that finds no activation journal (ActivationPending) finds the
\* files of one activation, whole, never the tokens of one with the
\* configuration of another: after every crash, failed call and power loss but
\* one that brings back a journal recover had found removed.
LaunchSeesOneGeneration ==
    op = "free" /\ marker.state = "absent" /\ ~revived =>
        \E g \in 0 .. MaxActivations : Uniform(g)

\* A journal that does not decode has replaced nothing: the installation is
\* stuck, on the configuration it had.
TornMarkerChangesNothing == marker.state = "torn" /\ ~revived => Uniform(base)

\* What recover would put in force.
Resolves(g) ==
    \/ marker.state \in {"absent", "torn"} /\ Uniform(g)
    \/ /\ marker.state = "valid"
       /\ \A n \in Names : g = IF n \in marker.existed THEN file[BackupOf(n)]
                                                       ELSE Absent

\* "Previous configuration was preserved", "was committed" and a plain success
\* stay true, whatever happens to the process or the host afterwards; and an
\* installation that is stuck is stuck on what it had.
PromiseKept == op = "free" /\ promised # Unknown /\ ~revived => Resolves(promised)
OutcomeIsTruthful == TypeOK /\ PromiseKept /\ TornMarkerChangesNothing

\* The journal that asks for a backup finds it, whole.
Backed == marker.state = "valid" =>
              \A n \in marker.existed : file[BackupOf(n)] \notin {Absent, Torn}
BackupsOutliveMarker == ~revived => Backed

\* An unfinished activation with a readable journal is resolved in the end.
RecoveryConverges ==
    marker.state = "valid" ~> marker.state = "absent" \/ revived

\* No "backup assets were removed before marker removal became durable"
\* (state_test.go), so that every launch sees one generation.  recover does not
\* sync when it finds no journal.
BackupsSurvivePower == Backed
LaunchNeverMixes ==
    op = "free" /\ marker.state = "absent" => \E g \in 0 .. MaxActivations : Uniform(g)
=============================================================================
