--------------------------- MODULE ActivationProofs ---------------------------
(***************************************************************************)
(* What an activation of the installation keeps whole, for every list of   *)
(* names and any number of activations and faults.                         *)
(*                                                                         *)
(* The argument is about what a power loss may find: the contents that the *)
(* journal may have (markerDisk) decide which contents the live files and  *)
(* the backups must have had since the last sync.  Whatever point a step   *)
(* stops at, the disk already answers for it.                              *)
(***************************************************************************)
EXTENDS Activation, TLAPS

Index  == 1 .. Len(Order)
Ages   == 0 .. MaxActivations
Wanted == IF base = Absent THEN {} ELSE Names
Clean  == skipped \/ markerDisk = {NoMarker}

\* Every live file has been that of one activation since the last sync.
Settled(g) == \A n \in Names : fileDisk[Live(n)] = {g}

\* What the journals a power loss may bring back say of the files.
DiskInv ==
    /\ base \in Ages
    /\ \A n \in Names : fileDisk[Live(n)] \subseteq Ages
    /\ NoMarker \in markerDisk => \E g \in Ages : Settled(g)
    /\ NoMarker \in markerDisk /\ marker # NoMarker => Settled(base)
    /\ skipped => marker = NoMarker
    /\ ~skipped => markerDisk \subseteq {NoMarker, TornMarker, Valid(Wanted)}
    /\ ~skipped /\ TornMarker \in markerDisk => Settled(base)
    /\ ~skipped /\ Valid(Wanted) \in markerDisk =>
           \A n \in Wanted : fileDisk[BackupOf(n)] = {base}

\* What the operator was told is on the disk until the next activation begins.
PromiseInv ==
    promised # Unknown =>
        /\ markerDisk = {NoMarker} /\ Settled(promised)
        /\ pc \in {"idle", "recover", "discard"}

LiveUpTo(k, g)    == \A j \in Index : j < k => file[Live(Order[j])] = g
BackupUpTo(k)     == base # Absent =>
                         \A j \in Index : j < k => file[BackupOf(Order[j])] = base
PendingUpTo(k)    == \A j \in Index : j < k => file[PendingOf(Order[j])] = generation
PendingFrom(k)    == \A j \in Index : j >= k => file[PendingOf(Order[j])] = generation
Target == IF op = "commit" THEN generation ELSE base

\* What the steps of recover know.
RecoverInv ==
    /\ pc = "idle" <=> op = "free"
    /\ pc = "recover" /\ op = "rollback" => marker = Valid(Wanted)
    /\ pc = "discard" => marker = NoMarker /\ Clean /\ op \in {"validate", "activate"}
    /\ pc = "restore" => marker = Valid(Wanted) /\ LiveUpTo(i, base)
    /\ pc \in {"recover", "restore", "recover_sync"} =>
           op \in {"validate", "activate", "rollback"}
    /\ pc = "recover_sync" => marker = Valid(Wanted) /\ Uniform(base)

\* What the steps of activateLocked know.
PrepareInv ==
    /\ pc \in {"backup", "stage", "sync_prepared"} =>
           op = "activate" /\ marker = NoMarker /\ Clean /\ Settled(base)
    /\ pc = "backup" => BackupUpTo(i) /\ PendingUpTo(i)
    /\ pc = "stage" => BackupUpTo(i + 1) /\ PendingUpTo(i)
    /\ pc = "sync_prepared" => BackupUpTo(Len(Order) + 1) /\ PendingFrom(1)
    /\ pc \in {"sync_prepared", "write_marker", "sync_marker"} => i = 1
    /\ pc = "write_marker" =>
           /\ op = "activate" /\ marker = NoMarker
           /\ markerDisk = {NoMarker} /\ ~skipped
           /\ Settled(base) /\ PendingFrom(1)
           /\ \A n \in Wanted : fileDisk[BackupOf(n)] = {base}
    /\ pc = "sync_marker" =>
           op = "activate" /\ marker = Valid(Wanted) /\ Settled(base) /\ PendingFrom(1)
    /\ pc = "rename" =>
           /\ op = "activate" /\ markerDisk = {Valid(Wanted)}
           /\ LiveUpTo(i, generation) /\ PendingFrom(i)
    /\ pc = "sync_live" => op = "activate" /\ marker = Valid(Wanted) /\ Uniform(generation)

\* What the steps of finishActivation and abortJournal know.
FinishInv ==
    /\ pc = "finish_marker" => markerDisk = {Valid(Wanted)} /\ Settled(Target)
    /\ pc = "finish_sync" =>
           /\ marker = NoMarker /\ ~skipped
           /\ markerDisk \subseteq {NoMarker, Valid(Wanted)} /\ Settled(Target)
    /\ pc \in {"finish_files", "finish_last_sync"} =>
           markerDisk = {NoMarker} /\ Settled(Target)
    /\ pc \in {"abort_marker", "abort_marker_sync", "abort_discard", "abort_sync"} =>
           Settled(base)
    /\ pc \in {"abort_marker_sync", "abort_discard", "abort_sync"} => marker = NoMarker
    /\ pc \in {"abort_discard", "abort_sync"} => Clean

Inv == DiskInv /\ PromiseInv /\ RecoverInv /\ PrepareInv /\ FinishInv
IInv == TypeOK /\ (~revived => Inv)

-----------------------------------------------------------------------------
(* The directory *)

\* The constants, as the provers need them.
LEMMA Constants ==
    /\ Len(Order) \in Nat \ {0} /\ 1 \in Index
    /\ MaxActivations \in Nat /\ MaxFaults \in Nat
    /\ \A j \in Index : Order[j] \in Names
    /\ \A j, k \in Index : Order[j] = Order[k] => j = k
    /\ \A n \in Names : \E j \in Index : n = Order[j]
  BY ActivationAssumption DEF Index, Names

\* The three entries of the names are all different.
LEMMA EntriesDiffer ==
    \A n, m :
        /\ Live(n) = Live(m) => n = m
        /\ BackupOf(n) = BackupOf(m) => n = m
        /\ PendingOf(n) = PendingOf(m) => n = m
        /\ Live(n) # BackupOf(m) /\ Live(n) # PendingOf(m)
        /\ BackupOf(n) # PendingOf(m)
  BY DEF Live, BackupOf, PendingOf

\* Where the entries of a name belong.
LEMMA EntryTypes ==
    /\ \A n \in Names : Live(n) \in Entries /\ BackupOf(n) \in Entries
                                          /\ PendingOf(n) \in Entries
    /\ Staging \subseteq Entries
    /\ \A n \in Names : Live(n) \notin Staging
  BY EntriesDiffer DEF Entries, Staging

\* The three states of a journal differ, and a journal is in one of them.
LEMMA MarkerStates ==
    /\ NoMarker # TornMarker
    /\ \A w : Valid(w) # NoMarker /\ Valid(w) # TornMarker
    /\ \A v, w : Valid(v) = Valid(w) => v = w
    /\ NoMarker \in Markers /\ TornMarker \in Markers
    /\ \A w : w \subseteq Names => Valid(w) \in Markers
    /\ \A m \in Markers : m.state = "absent" => m = NoMarker
    /\ \A m \in Markers : m.state = "torn" => m = TornMarker
    /\ \A m \in Markers : m.state = "valid" =>
           m = Valid(m.existed) /\ m.existed \subseteq Names
    /\ \A m \in Markers : m.state \in {"absent", "torn", "valid"}
    /\ NoMarker.state = "absent" /\ TornMarker.state = "torn"
    /\ \A w : Valid(w).state = "valid" /\ Valid(w).existed = w
<1>1. \A w : Valid(w).state = "valid" /\ Valid(w).existed = w
  BY DEF Valid
<1>2. NoMarker.state = "absent" /\ TornMarker.state = "torn"
  BY DEF NoMarker, TornMarker
<1>3. /\ NoMarker # TornMarker
      /\ \A w : Valid(w) # NoMarker /\ Valid(w) # TornMarker
      /\ \A v, w : Valid(v) = Valid(w) => v = w
  <2>1. NoMarker # TornMarker
    BY <1>2
  <2>2. \A w : Valid(w) # NoMarker /\ Valid(w) # TornMarker
    BY <1>1, <1>2
  <2>3. \A v, w : Valid(v) = Valid(w) => v = w
    BY <1>1
  <2> QED
    BY <2>1, <2>2, <2>3
<1>4. /\ NoMarker \in Markers /\ TornMarker \in Markers
      /\ \A w : w \subseteq Names => Valid(w) \in Markers
  BY DEF Markers
<1>5. ASSUME NEW m \in Markers
      PROVE  /\ m.state \in {"absent", "torn", "valid"}
             /\ m.state = "absent" => m = NoMarker
             /\ m.state = "torn" => m = TornMarker
             /\ m.state = "valid" => m = Valid(m.existed) /\ m.existed \subseteq Names
  <2>1. CASE m = NoMarker
    BY <2>1, <1>2
  <2>2. CASE m = TornMarker
    BY <2>2, <1>2
  <2>3. ASSUME NEW w \in SUBSET Names, m = Valid(w)
        PROVE  m.state = "valid" /\ m = Valid(m.existed) /\ m.existed \subseteq Names
    BY <2>3, <1>1
  <2> QED
    BY <2>1, <2>2, <2>3 DEF Markers
<1> QED
  BY <1>1, <1>2, <1>3, <1>4, <1>5

\* The part of TypeOK that is about the directory.
DiskType ==
    /\ file \in [Entries -> Contents]
    /\ fileDisk \in [Entries -> SUBSET Contents]
    /\ \A e \in Entries : file[e] \in fileDisk[e]
    /\ markerDisk \subseteq Markers /\ marker \in markerDisk
    /\ skipped \in BOOLEAN /\ revived \in BOOLEAN /\ faults \in 0 .. MaxFaults

\* Writing, removing and replacing entries adds to what the disk may hold.
LEMMA BecomesEffect ==
    ASSUME DiskType, NEW f \in [Entries -> Contents], NEW m \in Markers, Becomes(f, m),
           faults' \in 0 .. MaxFaults
    PROVE  /\ DiskType'
           /\ file' = f /\ marker' = m /\ skipped' = skipped /\ revived' = revived
           /\ markerDisk' = markerDisk \cup {m}
           /\ \A e \in Entries : fileDisk'[e] = fileDisk[e] \cup {f[e]}
  BY DEF DiskType, Becomes

\* A sync leaves one content on the disk.
LEMMA SyncedEffect ==
    ASSUME DiskType, Synced, faults' \in 0 .. MaxFaults
    PROVE  /\ DiskType'
           /\ file' = file /\ marker' = marker /\ ~skipped' /\ revived' = revived
           /\ markerDisk' = {marker}
           /\ \A e \in Entries : fileDisk'[e] = {file[e]}
  BY DEF DiskType, Synced

-----------------------------------------------------------------------------
(* What a step does to the directory when it fails *)

\* A directory in which one entry has been written.
LEMMA PutEffect ==
    ASSUME DiskType, NEW e \in Entries, NEW c \in Contents
    PROVE  /\ Put(e, c) \in [Entries -> Contents]
           /\ \A x \in Entries : Put(e, c)[x] = IF x = e THEN c ELSE file[x]
  BY DEF DiskType, Put

\* A directory from which entries have been removed.
LEMMA ClearedEffect ==
    ASSUME DiskType, NEW entries
    PROVE  /\ Cleared(entries) \in [Entries -> Contents]
           /\ \A x \in Entries :
                 Cleared(entries)[x] = IF x \in entries THEN Absent ELSE file[x]
  BY DEF DiskType, Cleared, Contents

\* Numbers of activations are contents, and so are the two others.
LEMMA ContentTypes ==
    Torn \in Contents /\ Absent \in Contents /\ Ages \subseteq Contents
    /\ Torn \notin Ages /\ Absent \in Ages /\ Unknown \notin Ages
  BY Constants DEF Contents, Ages, Torn, Absent, Unknown

\* The name a step is at, and its entries.
LEMMA NameTypes ==
    ASSUME TypeOK
    PROVE  /\ i \in Index /\ name \in Names
           /\ live = Live(name) /\ backup = BackupOf(name) /\ pending = PendingOf(name)
           /\ live \in Entries /\ backup \in Entries /\ pending \in Entries
           /\ backup \in Staging /\ pending \in Staging
           /\ backup # pending /\ live \notin Staging
           /\ generation \in Ages /\ generation \in Contents
           /\ DiskType
<1>1. i \in Index /\ generation \in Ages /\ DiskType
  BY DEF TypeOK, Index, Ages, DiskType
<1>2. name \in Names
  BY <1>1, Constants DEF name
<1>3. backup \in Staging /\ pending \in Staging
  BY <1>2 DEF Staging, backup, pending
<1> QED
  BY <1>1, <1>2, <1>3, EntryTypes, EntriesDiffer, ContentTypes DEF live, backup, pending

\* The steps that may touch a backup when they stop halfway.
Backups == {"backup", "discard", "abort_discard", "finish_files"}

\* A step that stops halfway has not touched a live file, nor, elsewhere, a backup.
LEMMA HalfwayEffect ==
    ASSUME TypeOK, NEW f \in Halfway
    PROVE  /\ f \in [Entries -> Contents]
           /\ \A n \in Names : f[Live(n)] = file[Live(n)]
           /\ pc \notin Backups => \A n \in Names : f[BackupOf(n)] = file[BackupOf(n)]
<1> USE NameTypes
<1> DEFINE Good == /\ f \in [Entries -> Contents]
                   /\ \A n \in Names : f[Live(n)] = file[Live(n)]
                   /\ pc \notin Backups =>
                         \A n \in Names : f[BackupOf(n)] = file[BackupOf(n)]
<1>1. file \in [Entries -> Contents]
  BY DEF DiskType
<1>2. ASSUME NEW e \in Staging, NEW c \in Contents, f \in {file, Put(e, Torn), Put(e, c)},
             pc \in Backups \/ e = pending
      PROVE  Good
  <2>1. ASSUME NEW d \in Contents, f = Put(e, d) PROVE Good
    <3>1. e \in Entries /\ \A n \in Names : Live(n) # e
      BY EntryTypes
    <3>2. e = pending => \A n \in Names : BackupOf(n) # e
      BY EntriesDiffer
    <3>3. DiskType
      OBVIOUS
    <3>4. /\ Put(e, d) \in [Entries -> Contents]
          /\ \A x \in Entries : Put(e, d)[x] = IF x = e THEN d ELSE file[x]
      BY <3>1, <3>3, PutEffect
    <3> QED
      BY <1>2, <2>1, <3>1, <3>2, <3>4, EntryTypes
  <2> QED
    BY <1>1, <1>2, <2>1, ContentTypes
<1>3. ASSUME NEW entries \in SUBSET Staging, f = Cleared(entries), pc \in Backups
      PROVE  Good
  BY <1>3, ClearedEffect, EntryTypes, EntriesDiffer
<1>4. CASE pc = "backup" /\ file[live] # Absent
  <2>1. f \in {file, Put(backup, Torn), Put(backup, file[live])}
    BY <1>4 DEF Halfway, Writing
  <2>2. file[live] \in Contents /\ pc \in Backups
    BY <1>1, <1>4 DEF Backups
  <2> QED
    BY <1>2, <2>1, <2>2
<1>5. CASE pc = "stage"
  <2>1. f \in {file, Put(pending, Torn), Put(pending, generation)}
    BY <1>5 DEF Halfway, Writing
  <2> QED
    BY <1>2, <2>1
<1>6. CASE pc = "restore"
  <2>1. f = file \/ f \in {Put(pending, c) : c \in {Absent, Torn, file[backup]}}
    BY <1>6 DEF Halfway
  <2>2. file[backup] \in Contents
    BY <1>1
  <2> QED
    BY <1>1, <1>2, <2>1, <2>2, ContentTypes
<1>7. CASE pc \in {"discard", "abort_discard"}
  <2>1. f \in {Cleared(entries) : entries \in SUBSET Staging}
    BY <1>7 DEF Halfway
  <2> QED
    BY <1>3, <1>7, <2>1 DEF Backups
<1>8. CASE pc = "finish_files"
  <2>1. PICK k \in 0 .. 2 * Len(Order) : f = Cleared(FirstOf(k))
    BY <1>8 DEF Halfway
  <2>2. FirstOf(k) \subseteq Staging
    BY Constants DEF FirstOf, Staging, Index
  <2> QED
    BY <1>3, <1>8, <2>1, <2>2 DEF Backups
<1>9. CASE /\ pc \notin {"stage", "restore", "discard", "abort_discard", "finish_files"}
           /\ ~(pc = "backup" /\ file[live] # Absent)
  <2>1. f = file
    BY <1>9 DEF Halfway
  <2> QED
    BY <1>1, <2>1
<1> QED
  BY <1>4, <1>5, <1>6, <1>7, <1>8, <1>9

\* Which journal a failed step may leave.
LEMMA HalfwayMarkerEffect ==
    ASSUME TypeOK, NEW m \in HalfwayMarker
    PROVE  /\ m \in Markers
           /\ m = marker \/ (pc = "write_marker" /\ m \in {TornMarker, Valid(Existed)})
<1>1. marker \in Markers
  BY DEF TypeOK
<1>2. Existed \subseteq Names
  BY DEF Existed
<1> QED
  BY <1>1, <1>2, MarkerStates DEF HalfwayMarker

\* The live files and the journal are as they were, on the disk too.
Steady == /\ \A n \in Names : file'[Live(n)] = file[Live(n)]
                             /\ fileDisk'[Live(n)] = fileDisk[Live(n)]
          /\ marker' = marker /\ markerDisk' = markerDisk
          /\ skipped' = skipped /\ revived' = revived
SteadyBackups == \A n \in Names : /\ file'[BackupOf(n)] = file[BackupOf(n)]
                                  /\ fileDisk'[BackupOf(n)] = fileDisk[BackupOf(n)]

\* A failed step leaves the live files, the journal but for write_marker, and the
\* backups but for the steps of Backups.
LEMMA FailsEffect ==
    ASSUME TypeOK, Fails
    PROVE  /\ DiskType'
           /\ pc # "write_marker" => Steady
           /\ pc = "write_marker" =>
                 /\ \A n \in Names : file'[Live(n)] = file[Live(n)]
                                    /\ fileDisk'[Live(n)] = fileDisk[Live(n)]
                 /\ marker' \in {marker, TornMarker, Valid(Existed)}
                 /\ markerDisk' = markerDisk \cup {marker'}
                 /\ skipped' = skipped /\ revived' = revived
           /\ pc \notin Backups => SteadyBackups
<1>1. PICK f \in Halfway, m \in HalfwayMarker : Becomes(f, m)
  BY DEF Fails
<1>2. faults' \in 0 .. MaxFaults
  BY Constants DEF Fails, Fault, TypeOK
<1>3. f \in [Entries -> Contents] /\ m \in Markers /\ DiskType
  BY HalfwayEffect, HalfwayMarkerEffect, NameTypes
<1>4. /\ DiskType'
      /\ file' = f /\ marker' = m /\ skipped' = skipped /\ revived' = revived
      /\ markerDisk' = markerDisk \cup {m}
      /\ \A e \in Entries : fileDisk'[e] = fileDisk[e] \cup {f[e]}
  BY <1>1, <1>2, <1>3, BecomesEffect
<1>5. marker \in markerDisk /\ \A e \in Entries : file[e] \in fileDisk[e]
  BY <1>3 DEF DiskType
<1>6. \A n \in Names : /\ file'[Live(n)] = file[Live(n)]
                       /\ fileDisk'[Live(n)] = fileDisk[Live(n)]
  BY <1>4, <1>5, HalfwayEffect, EntryTypes
<1>7. ASSUME pc \notin Backups PROVE SteadyBackups
  <2> SUFFICES ASSUME NEW n \in Names
               PROVE  /\ file'[BackupOf(n)] = file[BackupOf(n)]
                      /\ fileDisk'[BackupOf(n)] = fileDisk[BackupOf(n)]
    BY DEF SteadyBackups
  <2>1. BackupOf(n) \in Entries /\ f[BackupOf(n)] = file[BackupOf(n)]
    BY <1>7, HalfwayEffect, EntryTypes
  <2> QED
    BY <1>4, <1>5, <2>1
<1>8. m = marker \/ (pc = "write_marker" /\ m \in {TornMarker, Valid(Existed)})
  BY HalfwayMarkerEffect
<1>9. m = marker => markerDisk' = markerDisk
  BY <1>4, <1>5
<1> QED
  BY <1>4, <1>6, <1>7, <1>8, <1>9 DEF Steady

-----------------------------------------------------------------------------
(* Types *)

\* A step that works has the effect it asks for.
LEMMA WorksEffect ==
    ASSUME TypeOK, NEW f \in [Entries -> Contents], NEW m \in Markers, Works(f, m)
    PROVE  /\ DiskType'
           /\ file' = f /\ marker' = m /\ skipped' = skipped /\ revived' = revived
           /\ markerDisk' = markerDisk \cup {m}
           /\ \A e \in Entries : fileDisk'[e] = fileDisk[e] \cup {f[e]}
<1>1. DiskType /\ Becomes(f, m) /\ faults' \in 0 .. MaxFaults
  BY NameTypes DEF Works, DiskType
<1> QED
  BY <1>1, BecomesEffect

\* So has a sync.
LEMMA SyncWorksEffect ==
    ASSUME TypeOK, SyncWorks
    PROVE  /\ DiskType'
           /\ file' = file /\ marker' = marker /\ ~skipped' /\ revived' = revived
           /\ markerDisk' = {marker}
           /\ \A e \in Entries : fileDisk'[e] = {file[e]}
<1>1. DiskType /\ Synced /\ faults' \in 0 .. MaxFaults
  BY NameTypes DEF SyncWorks, DiskType
<1> QED
  BY <1>1, SyncedEffect

\* Nothing changed on the directory: a failed sync, or a step without effect.
LEMMA IdleEffect ==
    ASSUME TypeOK, SyncFails \/ UNCHANGED <<disk, faults>>
    PROVE  DiskType' /\ UNCHANGED disk
<1>1. UNCHANGED disk
  BY DEF SyncFails
<1>2. faults' \in 0 .. MaxFaults
  BY Constants DEF SyncFails, Fault, TypeOK
<1> QED
  BY <1>1, <1>2, NameTypes DEF disk, DiskType

\* The directories the steps leave when they work.
LEMMA Directories ==
    ASSUME TypeOK
    PROVE  /\ file \in [Entries -> Contents] /\ marker \in Markers
           /\ Restored \in [Entries -> Contents]
           /\ Cleared(Staging) \in [Entries -> Contents]
           /\ Put(backup, file[live]) \in [Entries -> Contents]
           /\ Put(pending, generation) \in [Entries -> Contents]
           /\ [Put(live, file[pending]) EXCEPT ![pending] = Absent]
                  \in [Entries -> Contents]
           /\ NoMarker \in Markers /\ Valid(Existed) \in Markers
<1>1. /\ DiskType /\ file \in [Entries -> Contents] /\ marker \in Markers
      /\ live \in Entries /\ backup \in Entries /\ pending \in Entries
      /\ generation \in Contents
  BY NameTypes DEF TypeOK
<1>2. \A e \in Entries : \A c \in Contents : Put(e, c) \in [Entries -> Contents]
  BY <1>1, PutEffect
<1>3. \A g \in [Entries -> Contents] : [g EXCEPT ![pending] = Absent] \in [Entries -> Contents]
  BY <1>1, ContentTypes
<1>4. \A e \in Entries : file[e] \in Contents
  BY <1>1
<1>5. Restored \in [Entries -> Contents]
  BY <1>1, <1>2, <1>3, <1>4, ContentTypes DEF Restored
<1>6. Cleared(Staging) \in [Entries -> Contents]
  BY <1>1, ClearedEffect
<1>7. NoMarker \in Markers /\ Valid(Existed) \in Markers
  BY MarkerStates DEF Existed
<1> QED
  BY <1>1, <1>2, <1>3, <1>4, <1>5, <1>6, <1>7

\* Every step keeps the directory typed.
LEMMA DiskTypeStep == ASSUME TypeOK, Next PROVE DiskType'
<1>1. CASE Fails
  BY <1>1, FailsEffect
<1>2. CASE SyncWorks
  BY <1>2, SyncWorksEffect
<1>3. CASE SyncFails \/ UNCHANGED <<disk, faults>>
  BY <1>3, IdleEffect
<1>4. ASSUME NEW f \in [Entries -> Contents], NEW m \in Markers, Works(f, m)
      PROVE  DiskType'
  BY <1>4, WorksEffect
<1>5. CASE Recover
  BY <1>5, NameTypes DEF Recover, DiskType
<1>6. CASE PowerLoss
  <2>1. faults' \in 0 .. MaxFaults /\ skipped' \in BOOLEAN /\ revived' \in BOOLEAN
    <3>1. Fault
      BY <1>6 DEF PowerLoss
    <3>2. faults' \in 0 .. MaxFaults
      BY <3>1, Constants DEF Fault, TypeOK
    <3>3. skipped' = FALSE /\ revived' = (revived \/ (skipped /\ marker' # NoMarker))
      BY <1>6 DEF PowerLoss
    <3>4. skipped' \in BOOLEAN /\ revived' \in BOOLEAN
      BY <3>3 DEF TypeOK
    <3> QED
      BY <3>2, <3>4
  <2>4. marker' \in markerDisk' /\ markerDisk' \subseteq Markers
    BY <1>6 DEF PowerLoss, TypeOK
  <2>2. file' \in [Entries -> Contents]
    <3>1. /\ file' \in [Entries -> UNION {fileDisk[e] : e \in Entries}]
          /\ \A e \in Entries : file'[e] \in fileDisk[e]
      BY <1>6 DEF PowerLoss, Surviving
    <3>2. \A e \in Entries : fileDisk[e] \subseteq Contents
      BY DEF TypeOK
    <3> QED
      BY <3>1, <3>2
  <2>3. fileDisk' \in [Entries -> SUBSET Contents]
    BY <1>6, <2>2 DEF PowerLoss
  <2> QED
    BY <1>6, <2>1, <2>2, <2>3, <2>4 DEF DiskType, PowerLoss
<1>7. \/ Fails \/ SyncWorks \/ SyncFails \/ UNCHANGED <<disk, faults>>
      \/ Works(Cleared(Staging), marker) \/ Works(Restored, marker)
      \/ Works(Put(backup, file[live]), marker)
      \/ Works(Put(pending, generation), marker)
      \/ Works([Put(live, file[pending]) EXCEPT ![pending] = Absent], marker)
      \/ Works(file, Valid(Existed)) \/ Works(file, NoMarker)
      \/ Recover \/ PowerLoss
  BY Zenon DEF Next, Proceed, Begin, Discard, Restore, RecoverSync, Backup, Stage,
         SyncPrepared, WriteMarker, SyncMarker, Rename, SyncLive, FinishMarker,
         FinishSync, FinishFiles, FinishLastSync, AbortMarker, AbortMarkerSync,
         AbortDiscard, AbortSync, Crash
<1> QED
  BY <1>1, <1>2, <1>3, <1>4, <1>5, <1>6, <1>7, Directories

Ops   == {"free", "validate", "activate", "rollback", "commit"}
Steps == {"idle", "recover", "discard", "restore", "recover_sync",
          "backup", "stage", "sync_prepared", "write_marker", "sync_marker",
          "rename", "sync_live", "finish_marker", "finish_sync",
          "finish_files", "finish_last_sync", "abort_marker", "abort_marker_sync",
          "abort_discard", "abort_sync"}

\* The part of TypeOK that is about the operation.
ControlType ==
    /\ op \in Ops /\ pc \in Steps /\ i \in Index
    /\ generation \in Ages /\ base \in Contents
    /\ promised \in {Unknown} \cup Ages

\* Every step keeps the operation typed.
LEMMA ControlTypeStep == ASSUME TypeOK, Next PROVE ControlType'
<1>1. ControlType /\ file \in [Entries -> Contents]
  BY DEF TypeOK, ControlType, Ops, Steps, Index, Ages
<1>2. \A g \in {Unknown} \cup Ages : Tell(g) => ControlType'
  BY <1>1, Constants DEF ControlType, Tell, Ops, Steps
<1>3. GiveUp => ControlType'
  BY <1>1, <1>2 DEF ControlType, GiveUp
<1>4. \A s \in Steps : Goto(s) => ControlType'
  BY <1>1 DEF ControlType, Goto
<1>5. \A s \in Steps : GotoName(1, s) => ControlType'
  BY <1>1, Constants DEF ControlType, GotoName
<1>6. \A s \in Steps : GotoName(i + 1, s) /\ ~Last(i) => ControlType'
  BY <1>1, Constants DEF ControlType, GotoName, Last, Index
<1>7. base \in {Unknown} \cup Ages
  BY <1>1, Constants DEF ControlType, Contents, Ages, Torn, Absent, Unknown
<1>8. Recovered => ControlType'
  <2>1. CASE op = "activate" /\ generation < MaxActivations /\ ~GiveUp /\ Recovered
    <3>1. generation + 1 \in Ages /\ file[Live(Order[1])] \in Contents
      BY <1>1, <2>1, Constants, EntryTypes DEF ControlType, Ages
    <3> QED
      BY <1>1, <2>1, <3>1, Constants DEF Recovered, ControlType, Ops, Steps
  <2> QED
    BY <1>2, <1>3, <1>7, <2>1 DEF Recovered
<1>9. \A s \in Steps, o \in Ops :
         /\ pc' = s /\ op' = o /\ (i' = 1 \/ UNCHANGED i)
         /\ UNCHANGED <<generation, base, promised>>
       => ControlType'
  BY <1>1, Constants DEF ControlType
<1>10. CASE Begin \/ Recover
  <2>1. CASE Begin
    BY <1>9, <2>1 DEF Begin, Ops, Steps
  <2>2. CASE Recover
    <3>1. marker.state \in {"absent", "torn", "valid"}
      BY MarkerStates DEF TypeOK
    <3> QED
      BY <1>3, <1>4, <1>5, <2>2, <3>1 DEF Recover, Steps
  <2> QED
    BY <1>10, <2>1, <2>2
<1>11. CASE Discard \/ Restore \/ RecoverSync
  BY <1>3, <1>4, <1>5, <1>6, <1>8, <1>11 DEF Discard, Restore, RecoverSync, Steps
<1>12. CASE Backup \/ Stage \/ SyncPrepared \/ WriteMarker \/ SyncMarker
  BY <1>3, <1>4, <1>5, <1>6, <1>12
     DEF Backup, Stage, SyncPrepared, WriteMarker, SyncMarker, Steps
<1>13. CASE Rename \/ SyncLive
  BY <1>3, <1>5, <1>6, <1>9, <1>13 DEF Rename, SyncLive, Steps, Ops
<1>14. CASE FinishMarker \/ FinishSync \/ FinishFiles \/ FinishLastSync
  <2>1. generation \in {Unknown} \cup Ages
    BY <1>1 DEF ControlType
  <2> QED
    BY <1>2, <1>3, <1>4, <1>8, <1>14, <2>1
       DEF FinishMarker, FinishSync, FinishFiles, FinishLastSync, Steps
<1>15. CASE AbortMarker \/ AbortMarkerSync \/ AbortDiscard \/ AbortSync
  BY <1>2, <1>3, <1>4, <1>7, <1>15
     DEF AbortMarker, AbortMarkerSync, AbortDiscard, AbortSync, Steps
<1>16. CASE Crash \/ PowerLoss
  BY <1>1, <1>3, <1>16 DEF Crash, PowerLoss, ControlType
<1> QED
  BY <1>10, <1>11, <1>12, <1>13, <1>14, <1>15, <1>16 DEF Next, Proceed

\* Every variable keeps its type.
LEMMA TypeStep == ASSUME TypeOK, [Next]_vars PROVE TypeOK'
<1>1. CASE Next
  BY <1>1, DiskTypeStep, ControlTypeStep
     DEF TypeOK, DiskType, ControlType, Ops, Steps, Index, Ages
<1>2. CASE UNCHANGED vars
  BY <1>2 DEF TypeOK, vars, disk
<1> QED
  BY <1>1, <1>2

-----------------------------------------------------------------------------
(* What keeps DiskInv *)

\* What the directory holds is among what the disk may hold.
LEMMA DiskFacts ==
    ASSUME TypeOK
    PROVE  /\ marker \in markerDisk /\ marker \in Markers
           /\ \A n \in Names : /\ file[Live(n)] \in fileDisk[Live(n)]
                               /\ file[BackupOf(n)] \in fileDisk[BackupOf(n)]
           /\ Wanted \subseteq Names
           /\ \A g : Settled(g) => Uniform(g)
<1>1. /\ marker \in markerDisk /\ marker \in Markers
      /\ \A n \in Names : /\ file[Live(n)] \in fileDisk[Live(n)]
                          /\ file[BackupOf(n)] \in fileDisk[BackupOf(n)]
  BY EntryTypes DEF TypeOK
<1>2. Wanted \subseteq Names
  BY DEF Wanted
<1> QED
  BY <1>1, <1>2 DEF Settled, Uniform

\* A step that leaves the live files and the journal alone, and the backups too
\* if a journal may ask for them.
LEMMA SteadyDisk ==
    ASSUME DiskInv, Steady, base' = base,
           SteadyBackups \/ skipped \/ Valid(Wanted) \notin markerDisk
    PROVE  DiskInv'
<1>1. \A g : Settled(g) => Settled(g)'
  BY DEF Settled, Steady
<1>2. Wanted' = Wanted /\ Wanted \subseteq Names
  BY DEF Wanted
<1>3. /\ markerDisk' = markerDisk /\ marker' = marker /\ skipped' = skipped
      /\ \A n \in Names : fileDisk'[Live(n)] = fileDisk[Live(n)]
      /\ \/ \A n \in Names : fileDisk'[BackupOf(n)] = fileDisk[BackupOf(n)]
         \/ skipped \/ Valid(Wanted) \notin markerDisk
  BY DEF Steady, SteadyBackups
<1> QED
  BY <1>1, <1>2, <1>3 DEF DiskInv

\* A step that changes nothing keeps everything.
LEMMA UnchangedSteady == ASSUME UNCHANGED disk PROVE Steady /\ SteadyBackups
  BY DEF disk, Steady, SteadyBackups

\* After a sync the disk holds what the directory holds.
LEMMA SyncDisk ==
    ASSUME TypeOK, DiskInv, SyncWorks, base' = base
    PROVE  /\ DiskInv'
           /\ \A g : Uniform(g) => Settled(g)'
           /\ \A n \in Names : /\ fileDisk'[BackupOf(n)] = {file[BackupOf(n)]}
                               /\ file'[Live(n)] = file[Live(n)]
<1>1. /\ marker' = marker /\ ~skipped' /\ markerDisk' = {marker} /\ file' = file
      /\ \A n \in Names : /\ fileDisk'[Live(n)] = {file[Live(n)]}
                          /\ fileDisk'[BackupOf(n)] = {file[BackupOf(n)]}
  BY SyncWorksEffect, EntryTypes
<1>2. \A g : Uniform(g) => Settled(g)'
  BY <1>1 DEF Uniform, Settled
<1>3. Wanted' = Wanted
  BY DEF Wanted
<1>4. \A g : Settled(g) => Settled(g)'
  BY <1>2, DiskFacts
<1>5. /\ base' \in Ages
      /\ \A n \in Names : fileDisk'[Live(n)] \subseteq Ages
  BY <1>1, DiskFacts DEF DiskInv
<1>6. marker = NoMarker => \E g \in Ages : Settled(g)'
  BY <1>4, DiskFacts DEF DiskInv
<1>7. CASE skipped
  <2>1. marker = NoMarker
    BY <1>7 DEF DiskInv
  <2> QED
    BY <1>1, <1>2, <1>3, <1>5, <1>6, <2>1, MarkerStates DEF DiskInv
<1>8. CASE ~skipped
  <2>1. marker \in {NoMarker, TornMarker, Valid(Wanted)}
    BY <1>8, DiskFacts DEF DiskInv
  <2>2. marker = TornMarker => Settled(base)'
    BY <1>4, <1>8, DiskFacts DEF DiskInv
  <2>3. marker = Valid(Wanted) => \A n \in Wanted : fileDisk'[BackupOf(n)] = {base}
    BY <1>1, <1>8, DiskFacts DEF DiskInv
  <2> QED
    BY <1>1, <1>2, <1>3, <1>5, <1>6, <2>1, <2>2, <2>3, MarkerStates DEF DiskInv
<1> QED
  BY <1>7, <1>8

\* No journal, none that may come back unnoticed, and the files of one activation.
LEMMA CleanDisk ==
    ASSUME marker' = NoMarker, Clean', base' \in Ages, NEW g \in Ages, Settled(g)'
    PROVE  DiskInv'
<1>1. \A n \in Names : fileDisk'[Live(n)] \subseteq Ages
  BY DEF Settled
<1>2. ~skipped' => markerDisk' = {NoMarker}
  BY DEF Clean
<1> QED
  BY <1>1, <1>2, MarkerStates DEF DiskInv

\* Where an operation ends there is nothing to know but the disk and the promise.
LEMMA Ends ==
    ASSUME DiskInv', PromiseInv', pc' = "idle", op' = "free"
    PROVE  Inv'
  BY DEF Inv, RecoverInv, PrepareInv, FinishInv

\* What the parts of the invariant say together.
LEMMA StepFacts ==
    ASSUME Inv
    PROVE  /\ DiskInv
           /\ pc \in {"backup", "discard", "abort_discard"} => Clean
           /\ pc \in {"write_marker", "finish_files", "finish_last_sync"} =>
                  markerDisk = {NoMarker}
           /\ pc \notin {"idle", "recover", "discard"} => promised = Unknown
           /\ promised # Unknown => markerDisk = {NoMarker} /\ Settled(promised)
  BY DEF Inv, PromiseInv, RecoverInv, PrepareInv, FinishInv

\* A step that fails, wherever it stops, leaves a disk that answers for itself.
LEMMA FailsDisk ==
    ASSUME TypeOK, Inv, Fails, base' = base
    PROVE  DiskInv'
<1>1. CASE pc \notin Backups \cup {"write_marker"}
  BY <1>1, FailsEffect, SteadyDisk, StepFacts
<1>2. CASE pc \in Backups
  <2>1. pc # "write_marker" /\ Steady
    BY <1>2, FailsEffect DEF Backups
  <2>2. skipped \/ markerDisk = {NoMarker}
    BY <1>2, StepFacts DEF Backups, Clean
  <2>3. skipped \/ Valid(Wanted) \notin markerDisk
    BY <2>2, MarkerStates
  <2> QED
    BY <2>1, <2>3, SteadyDisk, StepFacts
<1>3. CASE pc = "write_marker"
  <2>1. /\ markerDisk = {NoMarker} /\ ~skipped /\ Settled(base) /\ marker = NoMarker
        /\ \A n \in Wanted : fileDisk[BackupOf(n)] = {base}
        /\ base \in Ages
    BY <1>3 DEF Inv, PrepareInv, DiskInv
  <2>2. Existed = Wanted
    BY <2>1, DiskFacts DEF Existed, Wanted, Uniform
  <2>3. /\ marker' \in {NoMarker, TornMarker, Valid(Wanted)} /\ skipped' = skipped
        /\ markerDisk' = {NoMarker, marker'}
        /\ \A n \in Names : fileDisk'[Live(n)] = fileDisk[Live(n)]
    BY <1>3, <2>1, <2>2, FailsEffect
  <2>4. SteadyBackups
    BY <1>3, FailsEffect DEF Backups
  <2>5. Settled(base)' /\ Wanted' = Wanted /\ Wanted \subseteq Names
    BY <2>1, <2>3 DEF Settled, Wanted
  <2>6. \A n \in Wanted' : fileDisk'[BackupOf(n)] = {base}
    BY <2>1, <2>4, <2>5 DEF SteadyBackups
  <2>7. \A n \in Names : fileDisk'[Live(n)] \subseteq Ages
    BY <2>1, <2>3 DEF Settled
  <2> QED
    BY <2>1, <2>3, <2>5, <2>6, <2>7 DEF DiskInv
<1> QED
  BY <1>1, <1>2, <1>3

\* A failed step that ends the operation keeps what the operator was told.
LEMMA GivesUp ==
    ASSUME TypeOK, Inv, Fails \/ SyncFails \/ UNCHANGED <<disk, faults>>, GiveUp
    PROVE  Inv'
<1>1. base' = base /\ promised' = promised /\ pc' = "idle" /\ op' = "free"
  BY DEF GiveUp, Tell
<1>2. CASE Fails
  <2>1. promised # Unknown => PromiseInv'
    <3>1. promised # Unknown => Steady
      BY <1>2, FailsEffect, StepFacts
    <3> QED
      BY <1>1, <3>1, StepFacts DEF PromiseInv, Steady, Settled
  <2>2. PromiseInv'
    BY <1>1, <2>1 DEF PromiseInv
  <2> QED
    BY <1>1, <1>2, <2>2, FailsDisk, Ends
<1>3. CASE SyncFails \/ UNCHANGED <<disk, faults>>
  <2>1. Steady /\ SteadyBackups
    BY <1>3, IdleEffect, UnchangedSteady
  <2>2. PromiseInv'
    BY <1>1, <2>1, StepFacts DEF PromiseInv, Steady, Settled
  <2>3. DiskInv'
    BY <1>1, <2>1, SteadyDisk, StepFacts
  <2> QED
    BY <1>1, <2>2, <2>3, Ends
<1> QED
  BY <1>2, <1>3

-----------------------------------------------------------------------------
(* The steps of recover *)

\* A new operation recovers first; nothing has changed for it.
LEMMA BeginKeeps == ASSUME TypeOK, Inv, Begin PROVE Inv'
<1>1. /\ op' \in {"validate", "activate"} /\ pc' = "recover" /\ pc = "idle"
      /\ base' = base /\ promised' = promised /\ UNCHANGED disk
  BY DEF Begin, Inv, RecoverInv
<1>2. Steady /\ SteadyBackups
  BY <1>1, UnchangedSteady
<1>3. DiskInv'
  BY <1>1, <1>2, SteadyDisk, StepFacts
<1>4. PromiseInv'
  BY <1>1, <1>2, StepFacts DEF PromiseInv, Steady, Settled
<1> QED
  BY <1>1, <1>3, <1>4 DEF Inv, RecoverInv, PrepareInv, FinishInv

\* Recovery goes on with the journal it finds; skipping a sync is on record.
LEMMA RecoverKeeps == ASSUME TypeOK, Inv, Recover PROVE Inv'
<1>1. /\ pc = "recover" /\ marker.state \in {"absent", "torn", "valid"} /\ marker \in Markers
      /\ marker' = marker /\ markerDisk' = markerDisk
      /\ file' = file /\ fileDisk' = fileDisk /\ base' = base /\ promised' = promised
      /\ skipped' = (skipped \/ (marker = NoMarker /\ markerDisk # {NoMarker}))
  BY MarkerStates DEF Recover, Goto, GotoName, GiveUp, Tell, TypeOK
<1>2. op \in Ops /\ op \notin {"free", "commit"}
  BY <1>1 DEF Inv, RecoverInv, TypeOK, Ops
<1>3. (skipped' => marker' = NoMarker) /\ (~skipped' => ~skipped)
  BY <1>1, StepFacts DEF DiskInv
<1>4. DiskInv'
  <2>1. Wanted' = Wanted /\ \A g : Settled(g) => Settled(g)'
    BY <1>1 DEF Wanted, Settled
  <2> QED
    BY <1>1, <1>3, <2>1, StepFacts DEF DiskInv
<1>5. CASE marker.state = "absent"
  <2>1. marker = NoMarker /\ pc' = "discard" /\ op' = op /\ UNCHANGED i
    BY <1>1, <1>5, MarkerStates DEF Recover, Goto
  <2>2. op # "rollback"
    BY <1>1, <2>1, MarkerStates DEF Inv, RecoverInv
  <2>3. Clean'
    BY <1>1, <2>1 DEF Clean
  <2>4. PromiseInv'
    BY <1>1, <2>1, StepFacts DEF PromiseInv, Settled
  <2> QED
    BY <1>1, <1>2, <1>4, <2>1, <2>2, <2>3, <2>4
       DEF Inv, RecoverInv, PrepareInv, FinishInv, Ops
<1>6. CASE marker.state = "valid"
  <2>1. /\ marker = Valid(marker.existed) /\ marker # NoMarker /\ marker # TornMarker
        /\ pc' = "restore" /\ i' = 1 /\ op' = op
    BY <1>1, <1>6, MarkerStates DEF Recover, GotoName
  <2>2. marker' = Valid(Wanted)'
    <3>1. ~skipped /\ marker \in {NoMarker, TornMarker, Valid(Wanted)}
      BY <2>1, StepFacts, DiskFacts DEF DiskInv
    <3> QED
      BY <1>1, <2>1, <3>1 DEF Wanted
  <2>3. promised = Unknown
    BY <2>1, StepFacts, DiskFacts
  <2>4. LiveUpTo(i, base)'
    BY <2>1 DEF LiveUpTo, Index
  <2> QED
    BY <1>1, <1>2, <1>4, <2>1, <2>2, <2>3, <2>4
       DEF Inv, PromiseInv, RecoverInv, PrepareInv, FinishInv, Ops
<1>7. CASE marker.state = "torn"
  <2>1. pc' = "idle" /\ op' = "free"
    BY <1>1, <1>7 DEF Recover, GiveUp, Tell
  <2>2. PromiseInv'
    BY <1>1, <2>1, StepFacts DEF PromiseInv, Settled
  <2> QED
    BY <1>4, <2>1, <2>2, Ends
<1> QED
  BY <1>1, <1>5, <1>6, <1>7

\* recover returned with no journal left: what the operation does next.
LEMMA RecoveredKeeps ==
    ASSUME TypeOK, DiskInv, Recovered, op # "free",
           marker' = NoMarker, Clean', NEW g \in Ages, Settled(g)',
           file[Live(Order[1])] = g,
           op = "rollback" => markerDisk' = {NoMarker} /\ g = base,
           promised # Unknown => markerDisk' = {NoMarker} /\ g = promised
    PROVE  Inv'
<1>1. base \in Ages
  BY DEF DiskInv
<1>2. CASE GiveUp
  <2>1. /\ pc' = "idle" /\ op' = "free" /\ base' = base /\ promised' = promised
    BY <1>2 DEF GiveUp, Tell
  <2>2. DiskInv'
    BY <1>1, <2>1, CleanDisk
  <2>3. PromiseInv'
    BY <2>1 DEF PromiseInv
  <2> QED
    BY <2>1, <2>2, <2>3, Ends
<1>3. CASE op = "rollback" /\ Tell(base)
  <2>1. pc' = "idle" /\ op' = "free" /\ base' = base /\ promised' = base
    BY <1>3 DEF Tell
  <2>2. DiskInv'
    BY <1>1, <2>1, CleanDisk
  <2>3. PromiseInv'
    BY <1>3, <2>1 DEF PromiseInv
  <2> QED
    BY <2>1, <2>2, <2>3, Ends
<1>4. CASE /\ op = "activate" /\ pc' = "backup" /\ i' = 1 /\ promised' = Unknown
           /\ base' = file[Live(Order[1])] /\ op' = op
  <2>1. base' = g
    BY <1>4
  <2>2. DiskInv'
    BY <2>1, CleanDisk
  <2>3. Settled(base)'
    BY <2>1 DEF Settled
  <2>4. BackupUpTo(i)' /\ PendingUpTo(i)'
    BY <1>4 DEF BackupUpTo, PendingUpTo, Index
  <2> QED
    BY <1>4, <2>2, <2>3, <2>4 DEF Inv, PromiseInv, RecoverInv, PrepareInv, FinishInv
<1> QED
  BY <1>2, <1>3, <1>4 DEF Recovered

\* Removing staging files touches neither live files nor the journal.
LEMMA ClearedSteady ==
    ASSUME TypeOK, Works(Cleared(Staging), marker)
    PROVE  Steady
<1>1. Cleared(Staging) \in [Entries -> Contents] /\ marker \in Markers /\ DiskType
  BY Directories, NameTypes
<1>2. /\ file' = Cleared(Staging) /\ marker' = marker /\ skipped' = skipped
      /\ revived' = revived /\ markerDisk' = markerDisk \cup {marker}
      /\ \A e \in Entries : fileDisk'[e] = fileDisk[e] \cup {file'[e]}
  BY <1>1, WorksEffect
<1>3. \A n \in Names : file'[Live(n)] = file[Live(n)] /\ Live(n) \in Entries
  BY <1>1, <1>2, ClearedEffect, EntryTypes
<1>4. \A n \in Names : fileDisk'[Live(n)] = fileDisk[Live(n)]
  BY <1>2, <1>3, DiskFacts
<1>5. markerDisk' = markerDisk
  BY <1>2, DiskFacts
<1> QED
  BY <1>2, <1>3, <1>4, <1>5 DEF Steady

\* The leftovers of a preparation may go: no journal that counts names them.
LEMMA DiscardKeeps == ASSUME TypeOK, Inv, Discard PROVE Inv'
<1>1. CASE Fails /\ GiveUp
  BY <1>1, GivesUp
<1>2. CASE Works(Cleared(Staging), marker) /\ Recovered
  <2>1. marker = NoMarker /\ Clean /\ op \in {"validate", "activate"}
    BY DEF Discard, Inv, RecoverInv
  <2>2. Steady
    BY <1>2, ClearedSteady
  <2>3. PICK g \in Ages : Settled(g) /\ (promised # Unknown => g = promised)
    <3>1. \E g \in Ages : Settled(g)
      BY <2>1, StepFacts, DiskFacts DEF DiskInv
    <3>2. promised # Unknown => promised \in Ages
      BY DEF TypeOK, Ages
    <3> QED
      BY <3>1, <3>2, StepFacts
  <2>4. Settled(g)' /\ marker' = NoMarker /\ Clean' /\ markerDisk' = markerDisk
    BY <2>1, <2>2, <2>3 DEF Settled, Clean, Steady
  <2>5. file[Live(Order[1])] = g
    BY <2>3, DiskFacts, Constants DEF Uniform
  <2> QED
    BY <1>2, <2>1, <2>3, <2>4, <2>5, StepFacts, RecoveredKeeps
<1> QED
  BY <1>1, <1>2 DEF Discard

\* A step that replaces the live file of one name, and may take its pending file.
LEMMA ReplaceEffect ==
    ASSUME TypeOK, NEW c \in Contents, NEW f,
           f \in {Put(live, c), [Put(live, c) EXCEPT ![pending] = Absent]}, Works(f, marker)
    PROVE  /\ marker' = marker /\ markerDisk' = markerDisk /\ skipped' = skipped
           /\ SteadyBackups
           /\ \A n \in Names :
                 /\ file'[Live(n)] = IF n = name THEN c ELSE file[Live(n)]
                 /\ fileDisk'[Live(n)] = fileDisk[Live(n)] \cup {file'[Live(n)]}
                 /\ n # name => file'[PendingOf(n)] = file[PendingOf(n)]
<1>1. /\ DiskType /\ live = Live(name) /\ pending = PendingOf(name) /\ name \in Names
      /\ live \in Entries /\ pending \in Entries /\ marker \in Markers
  BY NameTypes DEF TypeOK
<1>2. /\ Put(live, c) \in [Entries -> Contents]
      /\ \A x \in Entries : Put(live, c)[x] = IF x = live THEN c ELSE file[x]
  BY <1>1, PutEffect
<1>3. /\ f \in [Entries -> Contents]
      /\ \A x \in Entries : x # pending => f[x] = IF x = live THEN c ELSE file[x]
  BY <1>1, <1>2, ContentTypes
<1>4. /\ file' = f /\ marker' = marker /\ skipped' = skipped
      /\ markerDisk' = markerDisk \cup {marker}
      /\ \A e \in Entries : fileDisk'[e] = fileDisk[e] \cup {f[e]}
  BY <1>1, <1>3, WorksEffect
<1>5. markerDisk' = markerDisk
  BY <1>4, DiskFacts
<1>6. ASSUME NEW n \in Names
      PROVE  /\ file'[Live(n)] = IF n = name THEN c ELSE file[Live(n)]
             /\ fileDisk'[Live(n)] = fileDisk[Live(n)] \cup {file'[Live(n)]}
             /\ n # name => file'[PendingOf(n)] = file[PendingOf(n)]
             /\ file'[BackupOf(n)] = file[BackupOf(n)]
  BY <1>1, <1>3, <1>4, EntryTypes, EntriesDiffer
<1>7. SteadyBackups
  <2> SUFFICES ASSUME NEW n \in Names
               PROVE  /\ file'[BackupOf(n)] = file[BackupOf(n)]
                      /\ fileDisk'[BackupOf(n)] = fileDisk[BackupOf(n)]
    BY DEF SteadyBackups
  <2>1. BackupOf(n) \in Entries /\ file'[BackupOf(n)] = file[BackupOf(n)]
    BY <1>6, EntryTypes
  <2>2. file[BackupOf(n)] \in fileDisk[BackupOf(n)]
    BY <2>1 DEF TypeOK
  <2> QED
    BY <1>4, <2>1, <2>2
<1> QED
  BY <1>4, <1>5, <1>6, <1>7

\* A name is put back from a backup the journal's presence vouches for.
LEMMA RestoreKeeps == ASSUME TypeOK, Inv, Restore PROVE Inv'
<1>1. CASE (Fails \/ UNCHANGED <<disk, faults>>) /\ GiveUp
  BY <1>1, GivesUp
<1>2. CASE /\ name \notin marker.existed \/ Restorable
           /\ Works(Restored, marker)
           /\ IF Last(i) THEN GotoName(1, "recover_sync") ELSE GotoName(i + 1, "restore")
  <2>1. /\ pc = "restore" /\ marker = Valid(Wanted) /\ LiveUpTo(i, base)
        /\ op \in {"validate", "activate", "rollback"} /\ promised = Unknown
    BY DEF Restore, Inv, RecoverInv, PromiseInv
  <2>2. /\ ~skipped /\ base \in Ages /\ base \in Contents
        /\ \A n \in Wanted : file[BackupOf(n)] = base
    <3>1. ~skipped /\ Valid(Wanted) \in markerDisk
      BY <2>1, StepFacts, DiskFacts, MarkerStates DEF DiskInv
    <3> QED
      BY <3>1, StepFacts, DiskFacts, ContentTypes DEF DiskInv
  <2>3. Restored \in {Put(live, base), [Put(live, base) EXCEPT ![pending] = Absent]}
    <3>1. marker.existed = Wanted
      BY <2>1, MarkerStates
    <3>2. CASE name \in Wanted
      BY <2>2, <3>1, <3>2 DEF Restored, backup
    <3>3. CASE name \notin Wanted
      <4>1. base = Absent
        BY <3>3, NameTypes DEF Wanted
      <4> QED
        BY <3>1, <3>3, <4>1 DEF Restored
    <3> QED
      BY <3>2, <3>3
  <2>4. /\ marker' = marker /\ markerDisk' = markerDisk /\ skipped' = skipped
        /\ SteadyBackups
        /\ \A n \in Names :
              /\ file'[Live(n)] = IF n = name THEN base ELSE file[Live(n)]
              /\ fileDisk'[Live(n)] = fileDisk[Live(n)] \cup {file'[Live(n)]}
    BY <1>2, <2>2, <2>3, ReplaceEffect
  <2>5. op' = op /\ base' = base /\ promised' = promised /\ Wanted' = Wanted
    BY <1>2 DEF GotoName, Wanted
  <2>6. Settled(base) => Settled(base)'
    BY <2>4, <2>5, DiskFacts DEF Settled, Uniform
  <2>7. DiskInv'
    <3>1. \A n \in Names : fileDisk'[Live(n)] \subseteq Ages
      BY <2>2, <2>4, StepFacts, DiskFacts DEF DiskInv
    <3>2. \A n \in Wanted' : fileDisk'[BackupOf(n)] = fileDisk[BackupOf(n)]
      BY <2>4, <2>5, DiskFacts DEF SteadyBackups
    <3>3. NoMarker \in markerDisk => Settled(base)
      BY <2>1, StepFacts, MarkerStates DEF DiskInv
    <3> QED
      BY <2>1, <2>2, <2>4, <2>5, <2>6, <3>1, <3>2, <3>3, StepFacts, MarkerStates DEF DiskInv
  <2>8. \A j \in Index : j <= i => file'[Live(Order[j])] = base
    <3> SUFFICES ASSUME NEW j \in Index, j <= i PROVE file'[Live(Order[j])] = base
      OBVIOUS
    <3>1. Order[j] \in Names /\ i \in Index /\ name = Order[i]
      BY Constants, NameTypes DEF name
    <3>2. Order[j] # name => j < i
      BY <3>1 DEF Index
    <3> QED
      BY <2>1, <2>4, <3>1, <3>2 DEF LiveUpTo
  <2>9. PromiseInv'
    BY <2>1, <2>5 DEF PromiseInv
  <2>10. marker' = Valid(Wanted')
    BY <2>1, <2>4, <2>5
  <2>11. CASE Last(i)
    <3>1. pc' = "recover_sync"
      BY <1>2, <2>11 DEF GotoName
    <3>2. Uniform(base)'
      BY <2>5, <2>8, <2>11, Constants DEF Uniform, Last, Index
    <3> QED
      BY <2>1, <2>5, <2>7, <2>9, <2>10, <3>1, <3>2
         DEF Inv, RecoverInv, PrepareInv, FinishInv
  <2>12. CASE ~Last(i)
    <3>1. pc' = "restore" /\ i' = i + 1
      BY <1>2, <2>12 DEF GotoName
    <3>2. LiveUpTo(i, base)'
      BY <2>5, <2>8, <3>1, NameTypes DEF LiveUpTo, Index
    <3> QED
      BY <2>1, <2>5, <2>7, <2>9, <2>10, <3>1, <3>2
         DEF Inv, RecoverInv, PrepareInv, FinishInv
  <2> QED
    BY <2>11, <2>12
<1> QED
  BY <1>1, <1>2 DEF Restore

\* The sync makes what was put back durable before the journal goes.
LEMMA RecoverSyncKeeps == ASSUME TypeOK, Inv, RecoverSync PROVE Inv'
<1>1. CASE SyncFails /\ GiveUp
  BY <1>1, GivesUp
<1>2. CASE SyncWorks /\ Goto("finish_marker")
  <2>1. /\ pc = "recover_sync" /\ marker = Valid(Wanted) /\ Uniform(base)
        /\ op \in {"validate", "activate", "rollback"} /\ promised = Unknown
    BY DEF RecoverSync, Inv, RecoverInv, PromiseInv
  <2>2. /\ pc' = "finish_marker" /\ op' = op /\ base' = base /\ promised' = promised
        /\ generation' = generation
    BY <1>2 DEF Goto
  <2>3. DiskInv' /\ Settled(base)'
    <3>1. DiskInv' /\ \A g : Uniform(g) => Settled(g)'
      BY <1>2, <2>2, SyncDisk, StepFacts
    <3> QED
      BY <2>1, <2>2, <3>1 DEF Settled
  <2>4. markerDisk' = {Valid(Wanted)}' /\ Target' = base'
    BY <1>2, <2>1, <2>2, SyncWorksEffect DEF Wanted, Target
  <2>5. PromiseInv'
    BY <2>1, <2>2 DEF PromiseInv
  <2> QED
    BY <2>1, <2>2, <2>3, <2>4, <2>5 DEF Inv, RecoverInv, PrepareInv, FinishInv
<1> QED
  BY <1>1, <1>2 DEF RecoverSync

-----------------------------------------------------------------------------
(* The steps of activateLocked *)

\* A step that writes the backup or the pending file of its name.
LEMMA StagingEffect ==
    ASSUME TypeOK, NEW e \in {backup, pending}, NEW c \in Contents, Works(Put(e, c), marker)
    PROVE  /\ Steady
           /\ \A x \in Entries : file'[x] = IF x = e THEN c ELSE file[x]
<1>1. /\ DiskType /\ marker \in Markers /\ e \in Entries /\ e \in Staging
  BY NameTypes DEF TypeOK
<1>2. /\ Put(e, c) \in [Entries -> Contents]
      /\ \A x \in Entries : Put(e, c)[x] = IF x = e THEN c ELSE file[x]
  BY <1>1, PutEffect
<1>3. /\ file' = Put(e, c) /\ marker' = marker /\ skipped' = skipped /\ revived' = revived
      /\ markerDisk' = markerDisk \cup {marker}
      /\ \A x \in Entries : fileDisk'[x] = fileDisk[x] \cup {file'[x]}
  BY <1>1, <1>2, WorksEffect
<1>4. \A n \in Names : Live(n) \in Entries /\ file'[Live(n)] = file[Live(n)]
  BY <1>1, <1>2, <1>3, EntryTypes
<1>5. \A n \in Names : fileDisk'[Live(n)] = fileDisk[Live(n)]
  <2> SUFFICES ASSUME NEW n \in Names PROVE fileDisk'[Live(n)] = fileDisk[Live(n)]
    OBVIOUS
  <2>1. Live(n) \in Entries /\ file'[Live(n)] \in fileDisk[Live(n)]
    BY <1>4, DiskFacts
  <2> QED
    BY <1>3, <2>1
<1>6. markerDisk' = markerDisk
  BY <1>3, DiskFacts
<1> QED
  BY <1>2, <1>3, <1>4, <1>5, <1>6 DEF Steady

\* What a step of the preparation that touches staging files only leaves true.
LEMMA PreparesKeeps ==
    ASSUME TypeOK, Inv, pc \in {"backup", "stage", "sync_prepared"}, Steady,
           op' = op, base' = base, promised' = promised, generation' = generation
    PROVE  /\ DiskInv' /\ PromiseInv' /\ op' = "activate" /\ marker' = NoMarker
           /\ Clean' /\ Settled(base)'
<1>1. /\ op = "activate" /\ marker = NoMarker /\ Clean /\ Settled(base)
      /\ promised = Unknown /\ DiskInv
  BY DEF Inv, PrepareInv, PromiseInv
<1>2. skipped \/ Valid(Wanted) \notin markerDisk
  BY <1>1, MarkerStates DEF Clean
<1>3. DiskInv'
  BY <1>1, <1>2, SteadyDisk
<1>4. Clean' /\ Settled(base)' /\ marker' = NoMarker
  BY <1>1 DEF Steady, Clean, Settled
<1> QED
  BY <1>1, <1>3, <1>4 DEF PromiseInv

\* A preparation that fails is discarded with nothing replaced.
LEMMA Aborts ==
    ASSUME TypeOK, Inv, pc \in {"backup", "stage", "sync_prepared"}, Fails \/ SyncFails,
           pc' = "abort_discard",
           op' = op, base' = base, promised' = promised, generation' = generation
    PROVE  Inv'
<1>1. Steady
  BY FailsEffect, IdleEffect, UnchangedSteady
<1>2. /\ DiskInv' /\ PromiseInv' /\ op' = "activate" /\ marker' = NoMarker
      /\ Clean' /\ Settled(base)'
  BY <1>1, PreparesKeeps
<1> QED
  BY <1>2 DEF Inv, RecoverInv, PrepareInv, FinishInv

\* A backup is a copy of the generation in force.
LEMMA BackupKeeps == ASSUME TypeOK, Inv, Backup PROVE Inv'
<1>1. CASE Fails /\ GotoName(1, "abort_discard")
  <2>1. pc = "backup"
    BY DEF Backup
  <2> QED
    BY <1>1, <2>1, Aborts DEF GotoName
<1>2. CASE Goto("stage")
  <2>1. /\ pc = "backup" /\ BackupUpTo(i) /\ PendingUpTo(i) /\ Settled(base)
        /\ i \in Index /\ name = Order[i]
    BY NameTypes DEF Backup, Inv, PrepareInv, name
  <2>2. /\ pc' = "stage" /\ op' = op /\ i' = i /\ base' = base
        /\ generation' = generation /\ promised' = promised
    BY <1>2 DEF Goto
  <2>3. file[live] = base /\ file[live] \in Contents
    BY <2>1, DiskFacts, NameTypes DEF Uniform, DiskType
  <2>4. /\ Steady
        /\ \A n \in Names : /\ file'[PendingOf(n)] = file[PendingOf(n)]
                            /\ n # name => file'[BackupOf(n)] = file[BackupOf(n)]
        /\ base # Absent => file'[backup] = base
    <3>1. CASE file[live] = Absent /\ UNCHANGED <<disk, faults>>
      BY <2>3, <3>1, UnchangedSteady DEF disk
    <3>2. CASE Works(Put(backup, file[live]), marker)
      <4>1. /\ Steady
            /\ \A x \in Entries : file'[x] = IF x = backup THEN base ELSE file[x]
        BY <2>3, <3>2, StagingEffect
      <4> QED
        BY <4>1, NameTypes, EntryTypes, EntriesDiffer
    <3> QED
      BY <1>2, <3>1, <3>2 DEF Backup, Goto, GotoName
  <2>5. BackupUpTo(i + 1)'
    <3> SUFFICES ASSUME base # Absent, NEW j \in Index, j < i + 1
                 PROVE  file'[BackupOf(Order[j])] = base
      BY <2>2 DEF BackupUpTo
    <3>1. Order[j] \in Names /\ (Order[j] # name => j < i)
      BY <2>1, Constants DEF Index
    <3>2. CASE Order[j] = name
      BY <2>4, <3>2, NameTypes
    <3>3. CASE Order[j] # name
      <4>1. file[BackupOf(Order[j])] = base
        BY <2>1, <3>1, <3>3 DEF BackupUpTo
      <4> QED
        BY <2>4, <3>1, <3>3, <4>1
    <3> QED
      BY <3>2, <3>3
  <2>6. PendingUpTo(i)'
    <3> SUFFICES ASSUME NEW j \in Index, j < i
                 PROVE  file'[PendingOf(Order[j])] = generation
      BY <2>2 DEF PendingUpTo
    <3>1. Order[j] \in Names /\ file[PendingOf(Order[j])] = generation
      BY <2>1, Constants DEF PendingUpTo
    <3> QED
      BY <2>4, <3>1
  <2>7. /\ DiskInv' /\ PromiseInv' /\ op' = "activate" /\ marker' = NoMarker
        /\ Clean' /\ Settled(base)'
    BY <2>1, <2>2, <2>4, PreparesKeeps
  <2> QED
    BY <2>2, <2>5, <2>6, <2>7 DEF Inv, RecoverInv, PrepareInv, FinishInv
<1> QED
  BY <1>1, <1>2 DEF Backup

\* The pending file is that of the new generation.
LEMMA StageKeeps == ASSUME TypeOK, Inv, Stage PROVE Inv'
<1>1. CASE Fails /\ GotoName(1, "abort_discard")
  <2>1. pc = "stage"
    BY DEF Stage
  <2> QED
    BY <1>1, <2>1, Aborts DEF GotoName
<1>2. CASE /\ Works(Put(pending, generation), marker)
           /\ IF Last(i) THEN GotoName(1, "sync_prepared") ELSE GotoName(i + 1, "backup")
  <2>1. /\ pc = "stage" /\ BackupUpTo(i + 1) /\ PendingUpTo(i)
        /\ i \in Index /\ name = Order[i]
    BY NameTypes DEF Stage, Inv, PrepareInv, name
  <2>2. /\ op' = op /\ base' = base /\ generation' = generation /\ promised' = promised
        /\ IF Last(i) THEN pc' = "sync_prepared" /\ i' = 1
                      ELSE pc' = "backup" /\ i' = i + 1
    BY <1>2 DEF GotoName
  <2>3. /\ Steady
        /\ \A x \in Entries : file'[x] = IF x = pending THEN generation ELSE file[x]
    BY <1>2, NameTypes, StagingEffect
  <2>4. \A n \in Names : /\ file'[BackupOf(n)] = file[BackupOf(n)]
                         /\ file'[PendingOf(n)] = IF n = name THEN generation
                                                          ELSE file[PendingOf(n)]
    BY <2>3, NameTypes, EntryTypes, EntriesDiffer
  <2>5. /\ base # Absent => \A j \in Index : j < i + 1 => file'[BackupOf(Order[j])] = base
        /\ \A j \in Index : j < i + 1 => file'[PendingOf(Order[j])] = generation
    <3> SUFFICES ASSUME NEW j \in Index, j < i + 1
                 PROVE  /\ base # Absent => file'[BackupOf(Order[j])] = base
                        /\ file'[PendingOf(Order[j])] = generation
      OBVIOUS
    <3>1. Order[j] \in Names /\ (Order[j] # name => j < i)
      BY <2>1, Constants DEF Index
    <3> QED
      BY <2>1, <2>4, <3>1 DEF BackupUpTo, PendingUpTo
  <2>6. /\ DiskInv' /\ PromiseInv' /\ op' = "activate" /\ marker' = NoMarker
        /\ Clean' /\ Settled(base)'
    BY <2>1, <2>2, <2>3, PreparesKeeps
  <2>7. CASE Last(i)
    <3>1. pc' = "sync_prepared" /\ i' = 1 /\ i = Len(Order)
      BY <2>2, <2>7 DEF Last
    <3>2. \A j \in Index : j < i + 1
      BY <3>1, Constants DEF Index
    <3>3. BackupUpTo(Len(Order) + 1)' /\ PendingFrom(1)'
      BY <2>2, <2>5, <3>2 DEF BackupUpTo, PendingFrom
    <3> QED
      BY <2>6, <3>1, <3>3 DEF Inv, RecoverInv, PrepareInv, FinishInv
  <2>8. CASE ~Last(i)
    <3>1. pc' = "backup" /\ i' = i + 1
      BY <2>2, <2>8
    <3>2. BackupUpTo(i)' /\ PendingUpTo(i)'
      BY <2>2, <2>5, <3>1 DEF BackupUpTo, PendingUpTo
    <3> QED
      BY <2>6, <3>1, <3>2 DEF Inv, RecoverInv, PrepareInv, FinishInv
  <2> QED
    BY <2>7, <2>8
<1> QED
  BY <1>1, <1>2 DEF Stage

\* The sync makes backups and pending files durable before the journal exists.
LEMMA SyncPreparedKeeps == ASSUME TypeOK, Inv, SyncPrepared PROVE Inv'
<1>1. pc = "sync_prepared" /\ promised = Unknown
  BY DEF SyncPrepared, Inv, PromiseInv
<1>2. CASE SyncFails /\ Goto("abort_discard")
  BY <1>1, <1>2, Aborts DEF Goto
<1>3. CASE SyncWorks /\ Goto("write_marker")
  <2>1. /\ op = "activate" /\ marker = NoMarker /\ Settled(base)
        /\ BackupUpTo(Len(Order) + 1) /\ PendingFrom(1) /\ i = 1
    BY <1>1 DEF Inv, PrepareInv
  <2>2. /\ pc' = "write_marker" /\ op' = op /\ i' = i /\ base' = base
        /\ generation' = generation /\ promised' = promised
    BY <1>3 DEF Goto
  <2>3. /\ DiskInv' /\ \A g : Uniform(g) => Settled(g)'
        /\ \A n \in Names : fileDisk'[BackupOf(n)] = {file[BackupOf(n)]}
        /\ marker' = NoMarker /\ markerDisk' = {NoMarker} /\ ~skipped' /\ file' = file
    BY <1>3, <2>1, <2>2, SyncDisk, SyncWorksEffect, StepFacts
  <2>4. Settled(base)'
    BY <2>1, <2>2, <2>3, DiskFacts DEF Settled
  <2>5. \A n \in Wanted' : fileDisk'[BackupOf(n)] = {base'}
    <3> SUFFICES ASSUME NEW n \in Wanted PROVE file[BackupOf(n)] = base
      BY <2>2, <2>3, DiskFacts DEF Wanted
    <3>1. base # Absent
      BY DEF Wanted
    <3>2. PICK j \in Index : n = Order[j] /\ j < Len(Order) + 1
      BY DiskFacts, Constants DEF Index
    <3> QED
      BY <2>1, <3>1, <3>2 DEF BackupUpTo
  <2>6. PendingFrom(1)' /\ PromiseInv'
    BY <1>1, <2>1, <2>2, <2>3 DEF PendingFrom, PromiseInv
  <2> QED
    BY <2>1, <2>2, <2>3, <2>4, <2>5, <2>6 DEF Inv, RecoverInv, PrepareInv, FinishInv
<1> QED
  BY <1>2, <1>3 DEF SyncPrepared

\* A step that changes the journal and no file.
LEMMA MarkerEffect ==
    ASSUME TypeOK, NEW m \in Markers, Works(file, m)
    PROVE  /\ file' = file /\ marker' = m /\ skipped' = skipped
           /\ markerDisk' = markerDisk \cup {m}
           /\ \A n \in Names : /\ fileDisk'[Live(n)] = fileDisk[Live(n)]
                              /\ fileDisk'[BackupOf(n)] = fileDisk[BackupOf(n)]
<1>1. file \in [Entries -> Contents]
  BY Directories
<1>2. /\ file' = file /\ marker' = m /\ skipped' = skipped
      /\ markerDisk' = markerDisk \cup {m}
      /\ \A e \in Entries : fileDisk'[e] = fileDisk[e] \cup {file[e]}
  BY <1>1, WorksEffect
<1>3. \A e \in Entries : fileDisk'[e] = fileDisk[e]
  <2> SUFFICES ASSUME NEW e \in Entries PROVE fileDisk'[e] = fileDisk[e]
    OBVIOUS
  <2>1. file[e] \in fileDisk[e]
    BY DEF TypeOK
  <2> QED
    BY <1>2, <2>1
<1> QED
  BY <1>2, <1>3, EntryTypes

\* The journal may be there, torn or absent: the backups are durable either way.
LEMMA WriteMarkerKeeps == ASSUME TypeOK, Inv, WriteMarker PROVE Inv'
<1>1. /\ pc = "write_marker" /\ op = "activate" /\ marker = NoMarker
      /\ markerDisk = {NoMarker} /\ ~skipped /\ Settled(base) /\ PendingFrom(1) /\ i = 1
      /\ \A n \in Wanted : fileDisk[BackupOf(n)] = {base}
      /\ promised = Unknown /\ base \in Ages
  BY DEF WriteMarker, Inv, PrepareInv, PromiseInv, DiskInv
<1>2. CASE Works(file, Valid(Existed)) /\ Goto("sync_marker")
  <2>1. Existed = Wanted
    BY <1>1, DiskFacts DEF Existed, Wanted, Uniform
  <2>2. /\ pc' = "sync_marker" /\ op' = op /\ i' = i /\ base' = base
        /\ generation' = generation /\ promised' = promised /\ Wanted' = Wanted
    BY <1>2 DEF Goto, Wanted
  <2>3. /\ file' = file /\ marker' = Valid(Wanted) /\ skipped' = skipped
        /\ markerDisk' = {NoMarker, Valid(Wanted)}
        /\ \A n \in Names : /\ fileDisk'[Live(n)] = fileDisk[Live(n)]
                           /\ fileDisk'[BackupOf(n)] = fileDisk[BackupOf(n)]
    BY <1>1, <1>2, <2>1, MarkerEffect, Directories
  <2>4. Settled(base)' /\ PendingFrom(1)'
    BY <1>1, <2>2, <2>3 DEF Settled, PendingFrom
  <2>5. DiskInv'
    <3>1. \A n \in Names : fileDisk'[Live(n)] \subseteq Ages
      BY <2>3, StepFacts DEF DiskInv
    <3>2. \A n \in Wanted' : fileDisk'[BackupOf(n)] = {base'}
      BY <1>1, <2>2, <2>3, DiskFacts
    <3> QED
      BY <1>1, <2>2, <2>3, <2>4, <3>1, <3>2, MarkerStates DEF DiskInv
  <2>6. PromiseInv'
    BY <1>1, <2>2 DEF PromiseInv
  <2> QED
    BY <1>1, <2>2, <2>3, <2>4, <2>5, <2>6 DEF Inv, RecoverInv, PrepareInv, FinishInv
<1>3. CASE Fails /\ Goto("abort_marker")
  <2>1. /\ pc' = "abort_marker" /\ op' = op /\ base' = base /\ promised' = promised
    BY <1>3 DEF Goto
  <2>2. DiskInv'
    BY <1>3, <2>1, FailsDisk
  <2>3. Settled(base)' /\ PromiseInv'
    BY <1>1, <1>3, <2>1, FailsEffect DEF Settled, PromiseInv
  <2> QED
    BY <1>1, <2>1, <2>2, <2>3 DEF Inv, RecoverInv, PrepareInv, FinishInv
<1> QED
  BY <1>2, <1>3 DEF WriteMarker

\* Only a durable journal lets a live file be replaced.
LEMMA SyncMarkerKeeps == ASSUME TypeOK, Inv, SyncMarker PROVE Inv'
<1>1. CASE SyncFails /\ GiveUp
  BY <1>1, GivesUp
<1>2. CASE SyncWorks /\ Goto("rename")
  <2>1. /\ op = "activate" /\ marker = Valid(Wanted) /\ PendingFrom(1) /\ i = 1
        /\ promised = Unknown
    BY DEF SyncMarker, Inv, PrepareInv, PromiseInv
  <2>2. /\ pc' = "rename" /\ op' = op /\ i' = 1 /\ base' = base
        /\ generation' = generation /\ promised' = promised /\ Wanted' = Wanted
    BY <1>2, <2>1 DEF Goto, Wanted
  <2>3. DiskInv' /\ markerDisk' = {Valid(Wanted)} /\ file' = file
    BY <1>2, <2>1, <2>2, SyncDisk, SyncWorksEffect, StepFacts
  <2>4. LiveUpTo(i, generation)' /\ PendingFrom(i)' /\ PromiseInv'
    BY <2>1, <2>2, <2>3 DEF LiveUpTo, PendingFrom, PromiseInv, Index
  <2> QED
    BY <2>1, <2>2, <2>3, <2>4 DEF Inv, RecoverInv, PrepareInv, FinishInv
<1> QED
  BY <1>1, <1>2 DEF SyncMarker

\* A replaced name is covered by the journal and its backup.
LEMMA RenameKeeps == ASSUME TypeOK, Inv, Rename PROVE Inv'
<1>1. /\ pc = "rename" /\ op = "activate" /\ markerDisk = {Valid(Wanted)}
      /\ LiveUpTo(i, generation) /\ PendingFrom(i) /\ promised = Unknown
      /\ marker = Valid(Wanted) /\ ~skipped
  <2>1. /\ pc = "rename" /\ op = "activate" /\ markerDisk = {Valid(Wanted)}
        /\ LiveUpTo(i, generation) /\ PendingFrom(i) /\ promised = Unknown
    BY DEF Rename, Inv, PrepareInv, PromiseInv
  <2> QED
    BY <2>1, DiskFacts, StepFacts, MarkerStates DEF DiskInv
<1>2. CASE /\ Works([Put(live, file[pending]) EXCEPT ![pending] = Absent], marker)
           /\ IF Last(i) THEN GotoName(1, "sync_live") ELSE GotoName(i + 1, "rename")
  <2>1. /\ op' = op /\ base' = base /\ generation' = generation /\ promised' = promised
        /\ Wanted' = Wanted
        /\ IF Last(i) THEN pc' = "sync_live" ELSE pc' = "rename" /\ i' = i + 1
    BY <1>2 DEF GotoName, Wanted
  <2>2. /\ i \in Index /\ name = Order[i] /\ generation \in Ages /\ generation \in Contents
        /\ file[pending] = generation
    BY <1>1, NameTypes DEF PendingFrom, Index, name
  <2>3. /\ marker' = marker /\ markerDisk' = markerDisk /\ skipped' = skipped
        /\ SteadyBackups
        /\ \A n \in Names :
              /\ file'[Live(n)] = IF n = name THEN generation ELSE file[Live(n)]
              /\ fileDisk'[Live(n)] = fileDisk[Live(n)] \cup {file'[Live(n)]}
              /\ n # name => file'[PendingOf(n)] = file[PendingOf(n)]
    BY <1>2, <2>2, ReplaceEffect
  <2>4. DiskInv'
    <3>1. \A n \in Names : fileDisk'[Live(n)] \subseteq Ages
      BY <2>2, <2>3, StepFacts, DiskFacts DEF DiskInv
    <3>2. \A n \in Wanted' : fileDisk'[BackupOf(n)] = {base'}
      BY <1>1, <2>1, <2>3, StepFacts, DiskFacts DEF SteadyBackups, DiskInv
    <3> QED
      BY <1>1, <2>1, <2>3, <3>1, <3>2, StepFacts, MarkerStates DEF DiskInv
  <2>5. \A j \in Index : j <= i => file'[Live(Order[j])] = generation
    <3> SUFFICES ASSUME NEW j \in Index, j <= i PROVE file'[Live(Order[j])] = generation
      OBVIOUS
    <3>1. Order[j] \in Names /\ (Order[j] # name => j < i)
      BY <2>2, Constants DEF Index
    <3> QED
      BY <1>1, <2>3, <3>1 DEF LiveUpTo
  <2>6. \A j \in Index : j >= i + 1 => file'[PendingOf(Order[j])] = generation
    <3> SUFFICES ASSUME NEW j \in Index, j >= i + 1
                 PROVE  file'[PendingOf(Order[j])] = generation
      OBVIOUS
    <3>1. Order[j] \in Names /\ Order[j] # name /\ j >= i
      BY <2>2, Constants DEF Index
    <3> QED
      BY <1>1, <2>3, <3>1 DEF PendingFrom
  <2>7. PromiseInv'
    BY <1>1, <2>1 DEF PromiseInv
  <2>8. CASE Last(i)
    <3>1. Uniform(generation)'
      BY <2>1, <2>5, <2>8, Constants DEF Uniform, Last, Index
    <3> QED
      BY <1>1, <2>1, <2>3, <2>4, <2>7, <2>8, <3>1
         DEF Inv, RecoverInv, PrepareInv, FinishInv
  <2>9. CASE ~Last(i)
    <3>1. LiveUpTo(i, generation)' /\ PendingFrom(i)'
      BY <2>1, <2>2, <2>5, <2>6, <2>9 DEF LiveUpTo, PendingFrom, Index
    <3> QED
      BY <1>1, <2>1, <2>3, <2>4, <2>7, <2>9, <3>1
         DEF Inv, RecoverInv, PrepareInv, FinishInv
  <2> QED
    BY <2>8, <2>9
<1>3. CASE /\ Fails /\ op' = "rollback" /\ pc' = "recover"
           /\ UNCHANGED <<generation, base, promised>>
  <2>1. DiskInv'
    BY <1>3, FailsDisk
  <2>2. marker' = Valid(Wanted)' /\ PromiseInv'
    BY <1>1, <1>3, FailsEffect DEF Steady, Wanted, PromiseInv
  <2> QED
    BY <1>1, <1>3, <2>1, <2>2 DEF Inv, RecoverInv, PrepareInv, FinishInv
<1> QED
  BY <1>2, <1>3 DEF Rename

\* The sync makes the replaced files durable before the journal goes.
LEMMA SyncLiveKeeps == ASSUME TypeOK, Inv, SyncLive PROVE Inv'
<1>1. CASE SyncFails /\ GiveUp
  BY <1>1, GivesUp
<1>2. CASE /\ SyncWorks /\ op' = "commit" /\ pc' = "finish_marker"
           /\ UNCHANGED <<i, generation, base, promised>>
  <2>1. marker = Valid(Wanted) /\ Uniform(generation) /\ promised = Unknown
    BY DEF SyncLive, Inv, PrepareInv, PromiseInv
  <2>2. DiskInv' /\ markerDisk' = {Valid(Wanted)} /\ \A g : Uniform(g) => Settled(g)'
    BY <1>2, <2>1, SyncDisk, SyncWorksEffect, StepFacts
  <2>3. Target' = generation /\ Wanted' = Wanted /\ PromiseInv'
    BY <1>2, <2>1 DEF Target, Wanted, PromiseInv
  <2>4. Settled(Target)'
    BY <2>1, <2>2, <2>3 DEF Settled
  <2> QED
    BY <1>2, <2>2, <2>3, <2>4 DEF Inv, RecoverInv, PrepareInv, FinishInv
<1> QED
  BY <1>1, <1>2 DEF SyncLive

-----------------------------------------------------------------------------
(* The steps of finishActivation *)

\* What is in force once the journal is gone.
LEMMA TargetAge == ASSUME TypeOK, DiskInv PROVE Target \in Ages
  BY NameTypes DEF Target, DiskInv

\* The journal goes: with or without it the disk resolves to one generation.
LEMMA FinishMarkerKeeps == ASSUME TypeOK, Inv, FinishMarker PROVE Inv'
<1>1. CASE Fails /\ GiveUp
  BY <1>1, GivesUp
<1>2. CASE Works(file, NoMarker) /\ Goto("finish_sync")
  <2>1. /\ markerDisk = {Valid(Wanted)} /\ Settled(Target) /\ promised = Unknown
        /\ pc = "finish_marker" /\ op # "free"
    BY DEF FinishMarker, Inv, RecoverInv, FinishInv, PromiseInv
  <2>2. marker # NoMarker /\ ~skipped
    BY <2>1, DiskFacts, StepFacts, MarkerStates DEF DiskInv
  <2>3. /\ pc' = "finish_sync" /\ op' = op /\ base' = base /\ promised' = promised
        /\ generation' = generation /\ Wanted' = Wanted /\ Target' = Target
    BY <1>2 DEF Goto, Wanted, Target
  <2>4. /\ marker' = NoMarker /\ ~skipped' /\ markerDisk' = {Valid(Wanted), NoMarker}
        /\ \A n \in Names : /\ fileDisk'[Live(n)] = fileDisk[Live(n)]
                           /\ fileDisk'[BackupOf(n)] = fileDisk[BackupOf(n)]
    BY <1>2, <2>1, <2>2, MarkerEffect, MarkerStates
  <2>5. Settled(Target)' /\ PromiseInv'
    BY <2>1, <2>3, <2>4 DEF Settled, PromiseInv
  <2>6. DiskInv'
    <3>1. \E g \in Ages : Settled(g)'
      BY <2>1, <2>4, TargetAge, StepFacts DEF Settled
    <3>2. /\ \A n \in Names : fileDisk'[Live(n)] \subseteq Ages
          /\ \A n \in Wanted' : fileDisk'[BackupOf(n)] = {base'}
      BY <2>1, <2>2, <2>3, <2>4, StepFacts, DiskFacts DEF DiskInv
    <3>3. base' \in Ages
      BY <2>3, StepFacts DEF DiskInv
    <3> QED
      BY <2>3, <2>4, <3>1, <3>2, <3>3, MarkerStates DEF DiskInv
  <2> QED
    BY <2>1, <2>3, <2>4, <2>5, <2>6 DEF Inv, RecoverInv, PrepareInv, FinishInv
<1> QED
  BY <1>1, <1>2 DEF FinishMarker

\* The sync makes the removal of the journal durable before the backups go.
LEMMA FinishSyncKeeps == ASSUME TypeOK, Inv, FinishSync PROVE Inv'
<1>1. CASE SyncFails /\ GiveUp
  BY <1>1, GivesUp
<1>2. CASE SyncWorks /\ Goto("finish_files")
  <2>1. /\ marker = NoMarker /\ Settled(Target) /\ promised = Unknown
        /\ pc = "finish_sync" /\ op # "free"
    BY DEF FinishSync, Inv, RecoverInv, FinishInv, PromiseInv
  <2>2. /\ pc' = "finish_files" /\ op' = op /\ base' = base /\ promised' = promised
        /\ generation' = generation /\ Target' = Target
    BY <1>2 DEF Goto, Target
  <2>3. DiskInv' /\ markerDisk' = {NoMarker} /\ \A g : Uniform(g) => Settled(g)'
    BY <1>2, <2>1, <2>2, SyncDisk, SyncWorksEffect, StepFacts
  <2>4. Settled(Target)' /\ PromiseInv'
    BY <2>1, <2>2, <2>3, DiskFacts DEF Settled, PromiseInv
  <2> QED
    BY <2>1, <2>2, <2>3, <2>4 DEF Inv, RecoverInv, PrepareInv, FinishInv
<1> QED
  BY <1>1, <1>2 DEF FinishSync

\* A committed activation is told as one, whatever its last steps do.
LEMMA Commits ==
    ASSUME Inv, pc \in {"finish_files", "finish_last_sync"}, op = "commit",
           DiskInv', markerDisk' = {NoMarker}, \A g : Settled(g) => Settled(g)',
           Tell(generation)
    PROVE  Inv'
<1>1. Settled(generation)
  BY DEF Inv, FinishInv, Target
<1>2. pc' = "idle" /\ op' = "free" /\ promised' = generation
  BY DEF Tell
<1>3. PromiseInv'
  BY <1>1, <1>2 DEF PromiseInv, Settled
<1> QED
  BY <1>2, <1>3, Ends

\* Backups and pending files go; nothing asks for them any more.
LEMMA FinishFilesKeeps == ASSUME TypeOK, Inv, FinishFiles PROVE Inv'
<1>1. /\ pc = "finish_files" /\ op # "free" /\ markerDisk = {NoMarker}
      /\ Settled(Target) /\ promised = Unknown
  BY DEF FinishFiles, Inv, RecoverInv, FinishInv, PromiseInv
<1>2. CASE Works(Cleared(Staging), marker) /\ Goto("finish_last_sync")
  <2>1. /\ pc' = "finish_last_sync" /\ op' = op /\ base' = base /\ promised' = promised
        /\ generation' = generation /\ Target' = Target
    BY <1>2 DEF Goto, Target
  <2>2. Steady
    BY <1>2, ClearedSteady
  <2>3. DiskInv'
    BY <1>1, <2>1, <2>2, SteadyDisk, StepFacts, MarkerStates
  <2>4. Settled(Target)' /\ markerDisk' = {NoMarker} /\ PromiseInv'
    BY <1>1, <2>1, <2>2 DEF Settled, Steady, PromiseInv
  <2> QED
    BY <1>1, <2>1, <2>3, <2>4 DEF Inv, RecoverInv, PrepareInv, FinishInv
<1>3. CASE Fails /\ op = "commit" /\ Tell(generation)
  <2>1. Steady /\ DiskInv'
    BY <1>1, <1>3, FailsEffect, FailsDisk DEF Tell
  <2>2. markerDisk' = {NoMarker} /\ \A g : Settled(g) => Settled(g)'
    BY <1>1, <2>1 DEF Settled, Steady
  <2> QED
    BY <1>1, <1>3, <2>1, <2>2, Commits
<1>4. CASE Fails /\ GiveUp
  BY <1>4, GivesUp
<1> QED
  BY <1>2, <1>3, <1>4 DEF FinishFiles

\* The last sync decides nothing that the operator was not told.
LEMMA FinishLastSyncKeeps == ASSUME TypeOK, Inv, FinishLastSync PROVE Inv'
<1>1. /\ pc = "finish_last_sync" /\ op # "free" /\ markerDisk = {NoMarker}
      /\ marker = NoMarker /\ Settled(Target) /\ promised = Unknown
  BY DiskFacts DEF FinishLastSync, Inv, RecoverInv, FinishInv, PromiseInv
<1>2. CASE op = "commit" /\ SyncWorks /\ Tell(generation)
  <2>1. DiskInv' /\ markerDisk' = {NoMarker} /\ \A g : Settled(g) => Settled(g)'
    <3>1. base' = base
      BY <1>2 DEF Tell
    <3> QED
      BY <1>1, <1>2, <3>1, SyncDisk, SyncWorksEffect, StepFacts, DiskFacts
  <2> QED
    BY <1>1, <1>2, <2>1, Commits
<1>3. CASE op = "commit" /\ SyncFails /\ Tell(generation)
  <2>1. Steady /\ SteadyBackups /\ base' = base
    BY <1>3, IdleEffect, UnchangedSteady DEF Tell
  <2>2. DiskInv' /\ markerDisk' = {NoMarker} /\ \A g : Settled(g) => Settled(g)'
    BY <1>1, <2>1, SteadyDisk, StepFacts DEF Settled, Steady
  <2> QED
    BY <1>1, <1>3, <2>2, Commits
<1>4. CASE op # "commit" /\ SyncWorks /\ Recovered
  <2>1. Target = base /\ base \in Ages
    BY <1>4, StepFacts DEF Target, DiskInv
  <2>2. Uniform(base) /\ file[Live(Order[1])] = base
    BY <1>1, <2>1, DiskFacts, Constants DEF Uniform
  <2>3. /\ marker' = NoMarker /\ markerDisk' = {NoMarker}
        /\ \A n \in Names : fileDisk'[Live(n)] = {file[Live(n)]}
    BY <1>1, <1>4, SyncWorksEffect, EntryTypes
  <2>4. PICK g \in Ages : g = base
    BY <2>1
  <2>5. Settled(g)' /\ Clean'
    BY <2>2, <2>3, <2>4 DEF Settled, Uniform, Clean
  <2> QED
    BY <1>1, <1>4, <2>2, <2>3, <2>4, <2>5, StepFacts, RecoveredKeeps
<1>5. CASE SyncFails /\ GiveUp
  BY <1>5, GivesUp
<1> QED
  BY <1>2, <1>3, <1>4, <1>5 DEF FinishLastSync

-----------------------------------------------------------------------------
(* The steps of abortJournal *)

\* The journal of an activation that replaced nothing goes.
LEMMA AbortMarkerKeeps == ASSUME TypeOK, Inv, AbortMarker PROVE Inv'
<1>1. CASE Fails /\ GiveUp
  BY <1>1, GivesUp
<1>2. CASE Works(file, NoMarker) /\ Goto("abort_marker_sync")
  <2>1. Settled(base) /\ promised = Unknown /\ pc = "abort_marker" /\ op # "free"
    BY DEF AbortMarker, Inv, RecoverInv, FinishInv, PromiseInv
  <2>2. /\ pc' = "abort_marker_sync" /\ op' = op /\ base' = base /\ promised' = promised
        /\ Wanted' = Wanted
    BY <1>2 DEF Goto, Wanted
  <2>3. /\ marker' = NoMarker /\ skipped' = skipped
        /\ markerDisk' = markerDisk \cup {NoMarker}
        /\ \A n \in Names : /\ fileDisk'[Live(n)] = fileDisk[Live(n)]
                           /\ fileDisk'[BackupOf(n)] = fileDisk[BackupOf(n)]
    BY <1>2, MarkerEffect, MarkerStates
  <2>4. Settled(base)' /\ PromiseInv'
    BY <2>1, <2>2, <2>3 DEF Settled, PromiseInv
  <2>5. DiskInv'
    <3>1. /\ \A n \in Names : fileDisk'[Live(n)] \subseteq Ages
          /\ base' \in Ages
      BY <2>2, <2>3, StepFacts DEF DiskInv
    <3>2. ~skipped /\ Valid(Wanted) \in markerDisk =>
              \A n \in Wanted' : fileDisk'[BackupOf(n)] = {base'}
      BY <2>2, <2>3, StepFacts, DiskFacts DEF DiskInv
    <3>3. ~skipped => markerDisk' \subseteq {NoMarker, TornMarker, Valid(Wanted)}
      BY <2>3, StepFacts DEF DiskInv
    <3>4. \E g \in Ages : Settled(g)'
      BY <2>2, <2>4, <3>1 DEF Settled
    <3> QED
      BY <2>2, <2>3, <2>4, <3>1, <3>2, <3>3, <3>4, MarkerStates DEF DiskInv
  <2> QED
    BY <2>1, <2>2, <2>3, <2>4, <2>5 DEF Inv, RecoverInv, PrepareInv, FinishInv
<1> QED
  BY <1>1, <1>2 DEF AbortMarker

\* The sync makes its removal durable before the preparation goes.
LEMMA AbortMarkerSyncKeeps == ASSUME TypeOK, Inv, AbortMarkerSync PROVE Inv'
<1>1. CASE SyncFails /\ GiveUp
  BY <1>1, GivesUp
<1>2. CASE SyncWorks /\ Goto("abort_discard")
  <2>1. /\ Settled(base) /\ promised = Unknown /\ marker = NoMarker
        /\ pc = "abort_marker_sync" /\ op # "free"
    BY DEF AbortMarkerSync, Inv, RecoverInv, FinishInv, PromiseInv
  <2>2. /\ pc' = "abort_discard" /\ op' = op /\ base' = base /\ promised' = promised
    BY <1>2 DEF Goto
  <2>3. /\ DiskInv' /\ \A g : Uniform(g) => Settled(g)'
        /\ marker' = NoMarker /\ markerDisk' = {NoMarker}
    BY <1>2, <2>1, <2>2, SyncDisk, SyncWorksEffect, StepFacts
  <2>4. Settled(base)' /\ PromiseInv' /\ Clean'
    BY <2>1, <2>2, <2>3, DiskFacts DEF Settled, PromiseInv, Clean
  <2> QED
    BY <2>1, <2>2, <2>3, <2>4 DEF Inv, RecoverInv, PrepareInv, FinishInv
<1> QED
  BY <1>1, <1>2 DEF AbortMarkerSync

\* The preparation goes, with no journal left to name it.
LEMMA AbortDiscardKeeps == ASSUME TypeOK, Inv, AbortDiscard PROVE Inv'
<1>1. CASE Fails /\ GiveUp
  BY <1>1, GivesUp
<1>2. CASE Works(Cleared(Staging), marker) /\ Goto("abort_sync")
  <2>1. /\ Settled(base) /\ promised = Unknown /\ marker = NoMarker /\ Clean
        /\ pc = "abort_discard" /\ op # "free"
    BY DEF AbortDiscard, Inv, RecoverInv, FinishInv, PromiseInv
  <2>2. /\ pc' = "abort_sync" /\ op' = op /\ base' = base /\ promised' = promised
    BY <1>2 DEF Goto
  <2>3. Steady
    BY <1>2, ClearedSteady
  <2>4. Settled(base)' /\ PromiseInv' /\ Clean' /\ marker' = NoMarker
    BY <2>1, <2>2, <2>3 DEF Settled, PromiseInv, Clean, Steady
  <2>5. DiskInv'
    BY <2>1, <2>2, <2>3, SteadyDisk, StepFacts, MarkerStates DEF Clean
  <2> QED
    BY <2>1, <2>2, <2>4, <2>5 DEF Inv, RecoverInv, PrepareInv, FinishInv
<1> QED
  BY <1>1, <1>2 DEF AbortDiscard

\* The previous configuration was preserved, and is said to be.
LEMMA AbortSyncKeeps == ASSUME TypeOK, Inv, AbortSync PROVE Inv'
<1>1. CASE SyncFails /\ GiveUp
  BY <1>1, GivesUp
<1>2. CASE SyncWorks /\ Tell(base)
  <2>1. Settled(base) /\ marker = NoMarker
    BY DEF AbortSync, Inv, FinishInv
  <2>2. pc' = "idle" /\ op' = "free" /\ base' = base /\ promised' = base
    BY <1>2 DEF Tell
  <2>3. DiskInv' /\ markerDisk' = {NoMarker} /\ \A g : Uniform(g) => Settled(g)'
    BY <1>2, <2>1, <2>2, SyncDisk, SyncWorksEffect, StepFacts
  <2>4. PromiseInv'
    BY <2>1, <2>2, <2>3, DiskFacts DEF PromiseInv, Settled
  <2> QED
    BY <2>2, <2>3, <2>4, Ends
<1> QED
  BY <1>1, <1>2 DEF AbortSync

-----------------------------------------------------------------------------
(* Faults *)

\* The process dies in the middle of a step.
LEMMA CrashKeeps == ASSUME TypeOK, Inv, Crash PROVE Inv'
  BY GivesUp DEF Crash

\* The journal that a power loss leaves is one the disk answers for, unless it
\* takes back a removal that recover had taken for done.
LEMMA PowerLossKeeps == ASSUME TypeOK, Inv, PowerLoss, ~revived' PROVE Inv'
<1>1. /\ pc' = "idle" /\ op' = "free" /\ base' = base /\ promised' = promised
      /\ ~skipped' /\ marker' \in markerDisk /\ markerDisk' = {marker'}
      /\ skipped => marker' = NoMarker
  BY DEF PowerLoss, Inv, RecoverInv
<1>2. \A n \in Names : /\ file'[Live(n)] \in fileDisk[Live(n)]
                     /\ fileDisk'[Live(n)] = {file'[Live(n)]}
                     /\ file'[BackupOf(n)] \in fileDisk[BackupOf(n)]
                     /\ fileDisk'[BackupOf(n)] = {file'[BackupOf(n)]}
  BY EntryTypes DEF PowerLoss, Surviving
<1>3. \A g : Settled(g) => Settled(g)'
  BY <1>2 DEF Settled
<1>4. PromiseInv'
  BY <1>1, <1>3, StepFacts DEF PromiseInv, Settled
<1>5. DiskInv'
  <2>1. /\ base' \in Ages /\ Wanted' = Wanted
        /\ \A n \in Names : fileDisk'[Live(n)] \subseteq Ages
    BY <1>1, <1>2, StepFacts DEF DiskInv, Wanted
  <2>2. CASE marker' = NoMarker
    <3>1. \E g \in Ages : Settled(g)'
      BY <1>1, <1>3, <2>2, StepFacts DEF DiskInv
    <3> QED
      BY <1>1, <2>1, <2>2, <3>1, MarkerStates DEF DiskInv
  <2>3. CASE marker' # NoMarker
    <3>1. ~skipped /\ marker' \in {TornMarker, Valid(Wanted)}
      BY <1>1, <2>3, StepFacts DEF DiskInv
    <3>2. marker' = TornMarker => Settled(base)'
      BY <1>1, <1>3, <3>1, StepFacts DEF DiskInv, Settled
    <3>3. marker' = Valid(Wanted) => \A n \in Wanted' : fileDisk'[BackupOf(n)] = {base'}
      BY <1>1, <1>2, <2>1, <3>1, StepFacts, DiskFacts DEF DiskInv
    <3> QED
      BY <1>1, <2>1, <2>3, <3>1, <3>2, <3>3, MarkerStates DEF DiskInv
  <2> QED
    BY <2>2, <2>3
<1> QED
  BY <1>1, <1>4, <1>5, Ends

-----------------------------------------------------------------------------
(* The theorems *)

\* Only a power loss revives a journal, and it stays revived.
LEMMA RevivedStays == ASSUME TypeOK, Next, ~revived' PROVE ~revived
<1>1. revived' = revived \/ PowerLoss
  <2>1. Works(Cleared(Staging), marker) => revived' = revived
    BY ClearedSteady DEF Steady
  <2>2. \A f, m : Becomes(f, m) => revived' = revived
    BY DEF Becomes
  <2>3. Fails \/ (\E f, m : Works(f, m)) => revived' = revived
    BY <2>2 DEF Fails, Works
  <2>4. SyncWorks \/ SyncFails \/ UNCHANGED <<disk, faults>> \/ Recover
            => revived' = revived
    BY DEF SyncWorks, Synced, SyncFails, disk, Recover
  <2> QED
    BY <2>3, <2>4, Zenon
       DEF Next, Proceed, Begin, Discard, Restore, RecoverSync, Backup, Stage,
           SyncPrepared, WriteMarker, SyncMarker, Rename, SyncLive, FinishMarker,
           FinishSync, FinishFiles, FinishLastSync, AbortMarker, AbortMarkerSync,
           AbortDiscard, AbortSync, Crash
<1> QED
  BY <1>1 DEF PowerLoss

\* A fresh installation.
LEMMA InvInit == Init => IInv
<1> SUFFICES ASSUME Init PROVE IInv
  OBVIOUS
<1>1. TypeOK
  <2>1. /\ i \in 1 .. Len(Order) /\ generation \in 0 .. MaxActivations
        /\ promised \in 0 .. MaxActivations /\ faults \in 0 .. MaxFaults
    BY Constants DEF Init, Index
  <2>2. /\ file \in [Entries -> Contents] /\ fileDisk \in [Entries -> SUBSET Contents]
        /\ \A e \in Entries : file[e] \in fileDisk[e]
        /\ base \in Contents
    BY ContentTypes DEF Init, Absent
  <2>3. markerDisk \subseteq Markers /\ marker \in markerDisk
    BY MarkerStates DEF Init
  <2> QED
    BY <2>1, <2>2, <2>3 DEF Init, TypeOK
<1>2. \A n \in Names : fileDisk[Live(n)] = {0}
  BY EntryTypes DEF Init, Absent
<1>3. 0 \in Ages /\ Settled(0)
  BY <1>2, Constants DEF Ages, Settled
<1>4. DiskInv
  <2>1. marker = NoMarker /\ markerDisk = {NoMarker} /\ ~skipped /\ base = 0
    BY DEF Init
  <2>2. \A n \in Names : fileDisk[Live(n)] \subseteq Ages
    BY <1>2, <1>3
  <2> QED
    BY <1>3, <2>1, <2>2, MarkerStates DEF DiskInv
<1>5. PromiseInv
  BY <1>3 DEF Init, PromiseInv
<1> QED
  BY <1>1, <1>4, <1>5 DEF Init, IInv, Inv, RecoverInv, PrepareInv, FinishInv

\* The invariant is inductive.
LEMMA InvStep == ASSUME IInv, [Next]_vars PROVE IInv'
<1>1. TypeOK /\ TypeOK'
  BY TypeStep DEF IInv
<1>2. ASSUME Next, ~revived' PROVE Inv'
  <2>1. Inv
    BY <1>1, <1>2, RevivedStays DEF IInv
  <2>2. CASE Begin \/ Recover \/ Discard \/ Restore \/ RecoverSync
    BY <1>1, <2>1, <2>2, BeginKeeps, RecoverKeeps, DiscardKeeps, RestoreKeeps,
       RecoverSyncKeeps
  <2>3. CASE Backup \/ Stage \/ SyncPrepared \/ WriteMarker \/ SyncMarker
    BY <1>1, <2>1, <2>3, BackupKeeps, StageKeeps, SyncPreparedKeeps, WriteMarkerKeeps,
       SyncMarkerKeeps
  <2>4. CASE Rename \/ SyncLive
    BY <1>1, <2>1, <2>4, RenameKeeps, SyncLiveKeeps
  <2>5. CASE FinishMarker \/ FinishSync \/ FinishFiles \/ FinishLastSync
    BY <1>1, <2>1, <2>5, FinishMarkerKeeps, FinishSyncKeeps, FinishFilesKeeps,
       FinishLastSyncKeeps
  <2>6. CASE AbortMarker \/ AbortMarkerSync \/ AbortDiscard \/ AbortSync
    BY <1>1, <2>1, <2>6, AbortMarkerKeeps, AbortMarkerSyncKeeps, AbortDiscardKeeps,
       AbortSyncKeeps
  <2>7. CASE Crash \/ PowerLoss
    BY <1>1, <1>2, <2>1, <2>7, CrashKeeps, PowerLossKeeps
  <2> QED
    BY <1>2, <2>2, <2>3, <2>4, <2>5, <2>6, <2>7 DEF Next, Proceed
<1>3. ASSUME UNCHANGED vars, ~revived' PROVE Inv'
  <2>1. Inv
    BY <1>3 DEF vars, disk, IInv
  <2>2. UNCHANGED disk /\ base' = base /\ Steady /\ SteadyBackups
    BY <1>3, UnchangedSteady DEF vars
  <2>3. DiskInv'
    BY <2>1, <2>2, SteadyDisk, StepFacts
  <2>4. PromiseInv'
    BY <1>3, <2>1 DEF vars, disk, Inv, PromiseInv, Settled
  <2>5. RecoverInv'
    BY <1>3, <2>1 DEF vars, disk, Inv, RecoverInv, Wanted, Clean, LiveUpTo, Uniform
  <2>6. PrepareInv'
    BY <1>3, <2>1 DEF vars, disk, Inv, PrepareInv, Wanted, Clean, Settled, LiveUpTo,
                      BackupUpTo, PendingUpTo, PendingFrom, Uniform
  <2>7. FinishInv'
    BY <1>3, <2>1 DEF vars, disk, Inv, FinishInv, Wanted, Clean, Settled, Target
  <2> QED
    BY <2>3, <2>4, <2>5, <2>6, <2>7 DEF Inv
<1> QED
  BY <1>1, <1>2, <1>3 DEF IInv

\* The invariant, for every list of names and any number of activations and faults.
THEOREM ActivationInvariant == Spec => []IInv
  BY InvInit, InvStep, PTL DEF Spec

\* Where nothing runs, the journal decides: without one the files are those of
\* one activation, one that is torn has replaced nothing, and a whole one finds
\* the backups it names.
LEMMA InvResolves ==
    ASSUME IInv
    PROVE  LaunchSeesOneGeneration /\ OutcomeIsTruthful /\ BackupsOutliveMarker
<1>1. TypeOK /\ marker \in Markers /\ marker \in markerDisk
  BY DiskFacts DEF IInv
<1>2. ASSUME ~revived, marker.state = "absent" PROVE \E g \in Ages : Uniform(g)
  <2>1. DiskInv /\ marker = NoMarker
    BY <1>1, <1>2, MarkerStates DEF IInv, Inv
  <2> QED
    BY <1>1, <2>1, DiskFacts DEF DiskInv
<1>3. ASSUME ~revived, marker.state = "torn" PROVE Uniform(base)
  <2>1. DiskInv /\ marker = TornMarker
    BY <1>1, <1>3, MarkerStates DEF IInv, Inv
  <2>2. ~skipped
    BY <2>1, MarkerStates DEF DiskInv
  <2> QED
    BY <1>1, <2>1, <2>2, DiskFacts DEF DiskInv
<1>4. ASSUME ~revived, marker.state = "valid", NEW n \in marker.existed
      PROVE  file[BackupOf(n)] \notin {Absent, Torn}
  <2>1. DiskInv /\ marker = Valid(marker.existed) /\ marker # NoMarker
        /\ marker # TornMarker
    BY <1>1, <1>4, MarkerStates DEF IInv, Inv
  <2>2. ~skipped /\ marker = Valid(Wanted)
    BY <1>1, <2>1 DEF DiskInv
  <2>3. n \in Wanted
    BY <1>4, <2>2, MarkerStates
  <2>4. file[BackupOf(n)] = base
    BY <1>1, <2>1, <2>2, <2>3, DiskFacts DEF DiskInv
  <2>5. base # Absent /\ base \in Ages
    BY <2>1, <2>3 DEF Wanted, DiskInv
  <2> QED
    BY <2>4, <2>5, ContentTypes
<1>5. ASSUME ~revived, promised # Unknown PROVE Resolves(promised)
  <2>1. markerDisk = {NoMarker} /\ Settled(promised)
    BY <1>5 DEF IInv, Inv, PromiseInv
  <2>2. marker.state = "absent" /\ Uniform(promised)
    BY <1>1, <2>1, MarkerStates, DiskFacts
  <2> QED
    BY <2>2 DEF Resolves
<1> QED
  BY <1>1, <1>2, <1>3, <1>4, <1>5
     DEF LaunchSeesOneGeneration, OutcomeIsTruthful, PromiseKept, TornMarkerChangesNothing,
         BackupsOutliveMarker, Backed, Ages

\* A launcher that finds no journal finds the files of one activation.
THEOREM LaunchIsWhole == Spec => []LaunchSeesOneGeneration
  BY ActivationInvariant, InvResolves, PTL

\* What the operator was told stays true, and a torn journal has replaced nothing.
THEOREM OutcomeIsKept == Spec => []OutcomeIsTruthful
  BY ActivationInvariant, InvResolves, PTL

\* A journal that asks for a backup finds it whole.
THEOREM BackupsAreThere == Spec => []BackupsOutliveMarker
  BY ActivationInvariant, InvResolves, PTL
=============================================================================
