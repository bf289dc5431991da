----------------------- MODULE ProfileLifecycleProofs -----------------------
(***************************************************************************)
(* TLAPS proofs about ProfileLifecycle, for every set of operations and    *)
(* every number of faults: the safety properties of the run Profile_safety *)
(* and the refinement of ProfileCustody.                                   *)
(*                                                                         *)
(* The argument: a container may come to exist for the journaled operation *)
(* only, after it was authorised (MountInv, ServerInv); a tombstone is     *)
(* never taken away, so what a stop found settled stays settled (Shrinks); *)
(* hence the home is given up, reported on and removed unmounted.  The     *)
(* outcome that is reported is the one on disk (OutcomeInv), and a home    *)
(* that the control plane counts on changes only for an operation that is  *)
(* open (ReadyInv).                                                        *)
(***************************************************************************)
EXTENDS ProfileLifecycle, TLAPS

\* The calls at which a container of the operation may exist.
Running == {"await", "clear", "unintend", "native", "stop"}
\* The calls at which the command holds the journal of the operation.
Holding == {"begin", "bind", "auth", "arm", "intend", "start", "await", "clear",
            "unintend", "native", "stop", "home", "discard", "record", "repair",
            "complete", "activate", "drop", "done", "forget"}
Phases  == Holding \cup {"idle", "journal", "execute"}

Unmounted == \A op \in Ops : ~Mounts(op)
\* A create request that no tombstone answers.
Loose(op) == op \in inflight /\ container[op] # "tombstone"

\* What the command holds is about the operation that is journaled.
ControlInv ==
    /\ pc \in Phases
    /\ pc \in Holding => /\ pending # None /\ mem # None /\ mem.op = pending.op
                         /\ cmd \in [op : Ops, kind : Kinds]
    /\ pc = "journal" => /\ pending = None /\ mem = None
                         /\ cmd \in [op : Ops, kind : Kinds]
    /\ execution => pending = None /\ pc \in {"idle", "execute"}
    /\ pc = "execute" => execution
    /\ busy \in BOOLEAN /\ (busy => execution)
    /\ mode = "refused" => pc = "forget"
    /\ pc = "begin" => mode \in {"operate", "recover"}
    /\ pc = "bind" => mode \in {"operate", "reject"}
    /\ pc = "repair" => mode = "recover"
    /\ pc \in {"auth", "arm", "intend", "start", "await", "clear", "unintend",
               "native", "home", "record"} => mode = "operate"

\* The journal is one that recovery accepts at the next save.
RecordInv ==
    /\ pc \in Holding \ {"begin", "stop", "forget"} => mem.bound
    /\ pc = "stop" /\ mode # "recover" => mem.bound
    /\ pc \in Holding /\ mode = "operate" =>
           \/ mem.outcome = "none"
           \/ pc \in {"complete", "activate", "drop", "done", "forget"}
    /\ pc \in {"start", "await", "clear", "unintend"} => mem.create
    /\ pc \in {"start", "await"} => pending.create
    /\ pc = "native" => ~mem.create

\* Who may have a container, and what stops it.
MountInv ==
    /\ \A op \in Ops : Mounts(op) => pending # None /\ pending.op = op
    /\ \A op \in Ops : Loose(op) => pending # None /\ pending.op = op /\ pending.create
    /\ \A op \in Ops : container[op] \in {"created", "starting", "running"} =>
                          op \notin inflight
    /\ pc \notin Running \cup {"idle"} => Unmounted
    /\ execution => Unmounted
    /\ pc \in {"clear", "unintend", "native"} => ~Loose(mem.op)
    /\ pc = "stop" /\ ~mem.create => ~Loose(mem.op)

\* The control plane is told nothing of an operation that may still start.
ServerInv ==
    /\ \A op \in Ops : server[op] = "done" => ~Mounts(op)
    /\ pc \in {"auth", "arm", "intend", "start"} => server[mem.op] = "begun"
    /\ pc = "bind" /\ mode = "operate" => server[mem.op] = "begun"

CustodyInv == TypeOK /\ ControlInv /\ RecordInv /\ MountInv /\ ServerInv

-----------------------------------------------------------------------------
(* The journal *)

\* A new journal is one that recovery accepts.
LEMMA NewRecordIsJournal ==
  ASSUME NEW op \in Ops, NEW kind \in Kinds
  PROVE  /\ NewRecord(op, kind) \in Journals /\ NewRecord(op, kind) # None
         /\ NewRecord(op, kind).op = op /\ NewRecord(op, kind).outcome = "none"
  <1>1. NewRecord(op, kind) \in Journals
    BY DEF NewRecord, Journals
  <1>2. QED
    BY <1>1, LifecycleAssumption DEF NewRecord, LifecycleAssumption

\* So is what each call makes of the one it holds.
LEMMA JournalUpdates ==
  ASSUME NEW r \in Journals
  PROVE  /\ r # None /\ r.op \in Ops /\ r.create \in BOOLEAN /\ r.bound \in BOOLEAN
         /\ r.outcome \in {"none", "ready", "bad"} /\ r.kind \in Kinds
         /\ [r EXCEPT !.bound = TRUE] \in Journals
         /\ [r EXCEPT !.create = FALSE] \in Journals
         /\ r.bound => [r EXCEPT !.create = TRUE] \in Journals
         /\ r.bound /\ r.outcome = "none" =>
               \A how \in {"ready", "bad"} : [r EXCEPT !.outcome = how] \in Journals
         /\ r.bound => [r EXCEPT !.outcome = "bad", !.failed = TRUE] \in Journals
  <1>1. r # None
    BY LifecycleAssumption DEF LifecycleAssumption
  <1>2. r \in [op : Ops, kind : Kinds, bound : BOOLEAN, create : BOOLEAN,
               outcome : {"none", "ready", "bad"}, failed : BOOLEAN]
    BY DEF Journals
  <1>3. [r EXCEPT !.bound = TRUE] \in Journals
    BY <1>2 DEF Journals
  <1>4. [r EXCEPT !.create = FALSE] \in Journals
    BY <1>2 DEF Journals
  <1>5. r.bound => [r EXCEPT !.create = TRUE] \in Journals
    BY <1>2 DEF Journals
  <1>6. r.bound /\ r.outcome = "none" =>
            \A how \in {"ready", "bad"} : [r EXCEPT !.outcome = how] \in Journals
    BY <1>2 DEF Journals
  <1>7. r.bound => [r EXCEPT !.outcome = "bad", !.failed = TRUE] \in Journals
    BY <1>2 DEF Journals
  <1>8. QED
    BY <1>1, <1>2, <1>3, <1>4, <1>5, <1>6, <1>7

\* The constants differ where it matters.
LEMMA NamesDiffer == None \notin Ops /\ Execution \notin Ops /\ None # Execution
  BY LifecycleAssumption DEF LifecycleAssumption

\* What is known of a journal that is held.
Records == [op : Ops, kind : Kinds, bound : BOOLEAN, create : BOOLEAN,
            outcome : {"none", "ready", "bad"}, failed : BOOLEAN]

LEMMA HeldIsRecord ==
  ASSUME TypeOK, ControlInv
  PROVE  /\ pc \in Holding => mem \in Journals /\ mem \in Records /\ mem.op \in Ops
                                /\ pending \in Journals /\ pending \in Records
         /\ mem # None => mem \in Journals
         /\ pending # None => pending \in Journals
  BY JournalUpdates DEF TypeOK, ControlInv, Journals, Records

-----------------------------------------------------------------------------
(* Types, one part of the state after the other *)

TypeDisk     == /\ pending \in Journals \cup {None} /\ completed \in Ops \cup {None}
TypeHome     == /\ active \in BOOLEAN /\ execution \in BOOLEAN
                /\ home \in {"none", "clean", "native", "unsafe"}
TypeMemory   == mem \in Journals \cup {None}
TypeProcess  == /\ outcome \in {"ready", "bad"} /\ lease \in BOOLEAN
                /\ mode \in {"operate", "recover", "reject", "refused"}
TypeDocker   == /\ container \in [Ops -> {"absent", "created", "starting", "running",
                                         "tombstone"}]
                /\ inflight \subseteq Ops
TypeChildren == /\ child \in [Ops -> {"none", "watching", "cleaning", "gone"}]
                /\ told \subseteq Ops
TypeServer   == server \in [Ops -> {"new", "begun", "done"}] /\ ready \in Ops \cup {None}
TypeFaults   == faults \in 0 .. MaxFaults

LEMMA TypeParts ==
  TypeOK <=> /\ TypeDisk /\ TypeHome /\ TypeMemory /\ TypeProcess
             /\ TypeDocker /\ TypeChildren /\ TypeServer /\ TypeFaults
  BY DEF TypeOK, TypeDisk, TypeHome, TypeMemory, TypeProcess, TypeDocker,
     TypeChildren, TypeServer, TypeFaults

\* What a step leaves alone: who touches Docker, the children, the control plane.
DockerSteps   == Start \/ Await \/ Stop \/ Reboot
                 \/ \E op \in Ops : Environment(op) \/ ChildCleans(op)
ChildSteps    == Arm \/ Intend \/ Start \/ Await \/ Stop \/ Reboot
                 \/ \E op \in Ops : Children(op)
ServerSteps   == Begin \/ Complete \/ Withdraw \/ AdminDisconnects
                 \/ \E op \in Ops : AdminStops(op)
DiskSteps     == Journal \/ Bind \/ Intend \/ Unintend \/ Record \/ Repair \/ Forget
                 \/ Done
HomeSteps     == Auth \/ NormalizeHome \/ Discard \/ Repair \/ Settle \/ Reserve
                 \/ ReleaseExecution \/ NativeWrites
OtherSteps    == \/ \E op \in Ops, kind \in Kinds : Invoke(op, kind)
                 \/ StartLost \/ Native \/ Quiesce \/ Crash \/ UNCHANGED vars

LEMMA Frames ==
  ASSUME [Next]_vars
  PROVE  /\ UNCHANGED <<container, inflight>> \/ DockerSteps
         /\ UNCHANGED children \/ ChildSteps
         /\ UNCHANGED authority \/ ServerSteps
         /\ UNCHANGED <<pending, completed>> \/ DiskSteps
         /\ UNCHANGED <<active, execution, home>> \/ HomeSteps
  <1> USE DEF disk, identity, process, docker, children, authority
  <1>1. DockerSteps \/ ChildSteps \/ ServerSteps \/ DiskSteps \/ HomeSteps \/ OtherSteps
    BY DEF Next, Command, Children, DockerSteps, ChildSteps, ServerSteps, DiskSteps,
       HomeSteps, OtherSteps
  <1>2. OtherSteps => UNCHANGED <<container, inflight, children, authority, pending,
                                  completed, active, execution, home>>
    BY DEF OtherSteps, Invoke, StartLost, Native, Quiesce, Crash, vars
  <1>3. DockerSteps => /\ UNCHANGED <<authority, pending, completed>>
                       /\ UNCHANGED <<active, execution, home>>
                       /\ UNCHANGED children \/ ChildSteps
    BY DEF DockerSteps, ChildSteps, Children, Start, Await, Stop, Reboot, Environment,
       DockerCreates, DockerDrops, DockerStarts, ChildCleans
  <1>4. ChildSteps => /\ UNCHANGED <<authority, active, execution, home>>
                      /\ UNCHANGED <<container, inflight>> \/ DockerSteps
                      /\ UNCHANGED <<pending, completed>> \/ DiskSteps
    <2>1. Start \/ Await \/ Stop \/ Reboot => DockerSteps
      BY DEF DockerSteps
    <2>2. \A op \in Ops : ChildCleans(op) => DockerSteps
      BY DEF DockerSteps
    <2>3. Arm \/ (\E op \in Ops : ChildExpires(op) \/ ChildLost(op)) =>
             UNCHANGED <<authority, active, execution, home, container, inflight,
                         pending, completed>>
      BY DEF Arm, ChildExpires, ChildLost
    <2>4. Intend => /\ UNCHANGED <<authority, active, execution, home, container, inflight>>
                    /\ DiskSteps
      BY DEF Intend, DiskSteps
    <2>5. QED
      BY <2>1, <2>2, <2>3, <2>4, <1>3 DEF ChildSteps, Children
  <1>5. ServerSteps => UNCHANGED <<container, inflight, children, pending, completed,
                                   active, execution, home>>
    BY DEF ServerSteps, Begin, Complete, Withdraw, AdminDisconnects, AdminStops
  <1>6. DiskSteps => /\ UNCHANGED <<container, inflight, authority>>
                     /\ UNCHANGED <<active, execution, home>> \/ HomeSteps
                     /\ UNCHANGED children \/ ChildSteps
    BY DEF DiskSteps, HomeSteps, ChildSteps, Journal, Bind, Intend, Unintend, Record,
       Repair, Forget, Done
  <1>7. HomeSteps => /\ UNCHANGED <<container, inflight, children, authority>>
                     /\ UNCHANGED <<pending, completed>> \/ DiskSteps
    BY DEF HomeSteps, DiskSteps, Auth, NormalizeHome, Discard, Repair, Settle,
       Reserve, ReleaseExecution, NativeWrites
  <1>8. QED
    BY <1>1, <1>2, <1>3, <1>4, <1>5, <1>6, <1>7

\* What a journal becomes is a journal; the outcome stays one.
LEMMA DiskTyped ==
  ASSUME CustodyInv, DiskSteps PROVE TypeDisk'
  <1> USE DEF CustodyInv
  <1>1. TypeDisk
    BY TypeParts
  <1>2. CASE Journal
    <2>1. NewRecord(cmd.op, cmd.kind) \in Journals
      BY <1>2, NewRecordIsJournal DEF Journal, ControlInv
    <2>2. QED
      BY <1>1, <1>2, <2>1 DEF Journal, Saves, SaveFails, TypeDisk, identity, disk
  <1>3. CASE Bind
    BY <1>1, <1>3, HeldIsRecord DEF Bind, Saves, SaveFails, TypeDisk, identity, Holding
  <1>4. CASE Intend
    <2>1. mem \in Journals /\ [mem EXCEPT !.create = TRUE] \in Journals
      BY <1>4, HeldIsRecord, JournalUpdates DEF Intend, RecordInv, Holding
    <2>2. QED
      BY <1>1, <1>4, <2>1 DEF Intend, Saves, SaveFails, TypeDisk, identity
  <1>5. CASE Unintend
    <2>1. mem \in Journals /\ [mem EXCEPT !.create = FALSE] \in Journals
      BY <1>5, HeldIsRecord, JournalUpdates DEF Unintend, Holding
    <2>2. QED
      BY <1>1, <1>5, <2>1 DEF Unintend, Saves, SaveFails, TypeDisk, identity
  <1>6. CASE Record
    <2>1. [mem EXCEPT !.outcome = outcome] \in Journals
      BY <1>6, HeldIsRecord, JournalUpdates
         DEF Record, RecordInv, ControlInv, Holding, TypeOK
    <2>2. QED
      BY <1>1, <1>6, <2>1 DEF Record, Saves, SaveFails, TypeDisk, identity
  <1>7. CASE Repair
    <2>1. [mem EXCEPT !.outcome = "bad", !.failed = TRUE] \in Journals
      BY <1>7, HeldIsRecord, JournalUpdates DEF Repair, RecordInv, Holding
    <2>2. QED
      BY <1>1, <1>7, <2>1 DEF Repair, Saves, SaveFails, TypeDisk
  <1>8. CASE Forget
    BY <1>1, <1>8 DEF Forget, TypeDisk, identity
  <1>9. CASE Done
    BY <1>1, <1>9, HeldIsRecord DEF Done, TypeDisk, Holding
  <1>10. QED
    BY <1>2, <1>3, <1>4, <1>5, <1>6, <1>7, <1>8, <1>9 DEF DiskSteps

LEMMA HomeTyped ==
  ASSUME TypeHome, HomeSteps PROVE TypeHome'
  <1>1. CASE Auth \/ Settle \/ Discard
    BY <1>1 DEF Auth, Settle, Discard, Invalidate, TypeHome
  <1>2. CASE NormalizeHome \/ Repair
    BY <1>2 DEF NormalizeHome, Repair, TypeHome
  <1>3. CASE Reserve \/ ReleaseExecution \/ NativeWrites
    BY <1>3 DEF Reserve, ReleaseExecution, NativeWrites, TypeHome
  <1>4. QED
    BY <1>1, <1>2, <1>3 DEF HomeSteps

LEMMA DockerTyped ==
  ASSUME TypeDocker, CustodyInv, DockerSteps PROVE TypeDocker'
  <1> USE DEF CustodyInv
  <1>1. CASE Start
    BY <1>1, HeldIsRecord DEF Start, TypeDocker, Holding
  <1>2. CASE Await
    BY <1>2 DEF Await, TypeDocker
  <1>3. CASE Stop
    BY <1>3 DEF Stop, Stopped, TypeDocker
  <1>4. CASE Reboot
    BY <1>4 DEF Reboot, TypeDocker
  <1>5. ASSUME NEW op \in Ops, Environment(op) \/ ChildCleans(op) PROVE TypeDocker'
    BY <1>5 DEF Environment, DockerCreates, DockerDrops, DockerStarts, ChildCleans,
       TypeDocker
  <1>6. QED
    BY <1>1, <1>2, <1>3, <1>4, <1>5 DEF DockerSteps

LEMMA ChildTyped ==
  ASSUME TypeChildren, CustodyInv, ChildSteps PROVE TypeChildren'
  <1> USE DEF CustodyInv, TypeChildren, children
  <1>1. CASE Arm \/ Intend
    BY <1>1 DEF Arm, Intend
  <1>2. CASE Start
    BY <1>2, HeldIsRecord DEF Start, Holding
  <1>3. CASE Await \/ Stop
    BY <1>3 DEF Await, Stop
  <1>4. CASE Reboot
    BY <1>4 DEF Reboot
  <1>5. ASSUME NEW op \in Ops, Children(op) PROVE TypeChildren'
    BY <1>5 DEF Children, ChildExpires, ChildLost, ChildCleans
  <1>6. QED
    BY <1>1, <1>2, <1>3, <1>4, <1>5 DEF ChildSteps

LEMMA ServerTyped ==
  ASSUME TypeServer, CustodyInv, ServerSteps PROVE TypeServer'
  <1> USE DEF CustodyInv, TypeServer, authority
  <1>1. CASE Begin
    BY <1>1 DEF Begin, Begins
  <1>2. CASE Complete
    BY <1>2, HeldIsRecord DEF Complete, Completes, Holding
  <1>3. CASE Withdraw \/ AdminDisconnects \/ \E op \in Ops : AdminStops(op)
    BY <1>3 DEF Withdraw, AdminDisconnects, AdminStops
  <1>4. QED
    BY <1>1, <1>2, <1>3 DEF ServerSteps

\* Every step either leaves what the command holds alone, or forgets it, or is
\* one of these.
HoldSteps == \/ \E op \in Ops, kind \in Kinds : Invoke(op, kind)
             \/ Journal \/ Begin \/ Intend \/ Unintend \/ Record \/ Repair

LEMMA MemoryFrame ==
  ASSUME [Next]_vars PROVE mem' \in {mem, None} \/ HoldSteps
  <1> USE DEF Goto, End
  <1>1. CASE UNCHANGED vars \/ Crash \/ Reboot \/ NativeWrites \/ AdminDisconnects
             \/ Withdraw \/ Reserve \/ Quiesce \/ ReleaseExecution
    BY <1>1 DEF Crash, Reboot, NativeWrites, AdminDisconnects, Withdraw, Reserve,
       Quiesce, ReleaseExecution, vars, process
  <1>2. CASE \E op \in Ops : Environment(op) \/ Children(op) \/ AdminStops(op)
    BY <1>2 DEF Environment, Children, AdminStops, DockerCreates, DockerDrops,
       DockerStarts, ChildExpires, ChildLost, ChildCleans, process
  <1>3. CASE Bind \/ Auth \/ Arm \/ Start \/ Await \/ StartLost \/ Native
    BY <1>3 DEF Bind, Auth, Arm, Start, Await, StartLost, Native
  <1>4. CASE Stop \/ NormalizeHome \/ Discard \/ Complete \/ Settle \/ Done \/ Forget
    BY <1>4 DEF Stop, NormalizeHome, Discard, Complete, Settle, Done, Forget
  <1>5. QED
    BY <1>1, <1>2, <1>3, <1>4 DEF Next, Command, HoldSteps

LEMMA MemoryTyped ==
  ASSUME CustodyInv, HoldSteps PROVE TypeMemory'
  <1> USE DEF CustodyInv, TypeMemory, End
  <1>1. CASE \E op \in Ops, kind \in Kinds : Invoke(op, kind)
    BY <1>1 DEF Invoke, TypeOK
  <1>2. CASE Journal
    <2>1. NewRecord(cmd.op, cmd.kind) \in Journals
      BY <1>2, NewRecordIsJournal DEF Journal, ControlInv
    <2>2. QED
      BY <1>2, <2>1 DEF Journal
  <1>3. CASE Begin
    <2>1. mem \in Journals /\ [mem EXCEPT !.bound = TRUE] \in Journals
      BY <1>3, HeldIsRecord, JournalUpdates DEF Begin, Holding
    <2>2. QED
      BY <1>3, <2>1 DEF Begin, Bound, Rejected
  <1>4. CASE Intend
    <2>1. [mem EXCEPT !.create = TRUE] \in Journals
      BY <1>4, HeldIsRecord, JournalUpdates DEF Intend, RecordInv, Holding
    <2>2. QED
      BY <1>4, <2>1 DEF Intend
  <1>5. CASE Unintend
    <2>1. [mem EXCEPT !.create = FALSE] \in Journals
      BY <1>5, HeldIsRecord, JournalUpdates DEF Unintend, Holding
    <2>2. QED
      BY <1>5, <2>1 DEF Unintend
  <1>6. CASE Record
    <2>1. [mem EXCEPT !.outcome = outcome] \in Journals
      BY <1>6, HeldIsRecord, JournalUpdates
         DEF Record, RecordInv, ControlInv, Holding, TypeOK
    <2>2. QED
      BY <1>6, <2>1 DEF Record
  <1>7. CASE Repair
    <2>1. mem \in Journals /\ [mem EXCEPT !.outcome = "bad", !.failed = TRUE] \in Journals
      BY <1>7, HeldIsRecord, JournalUpdates DEF Repair, RecordInv, Holding
    <2>2. QED
      BY <1>7, <2>1 DEF Repair
  <1>8. QED
    BY <1>1, <1>2, <1>3, <1>4, <1>5, <1>6, <1>7 DEF HoldSteps

LEMMA FaultsTyped ==
  ASSUME TypeFaults, [Next]_vars PROVE TypeFaults'
  <1>1. Fault => TypeFaults'
    BY LifecycleAssumption DEF Fault, TypeFaults, LifecycleAssumption
  <1> USE DEF Fine
  <1>2. UNCHANGED vars \/ Crash \/ Reboot \/ NativeWrites \/ AdminDisconnects \/ Withdraw
        \/ Reserve \/ Quiesce \/ ReleaseExecution => faults' = faults \/ Fault
    BY DEF Crash, Reboot, NativeWrites, AdminDisconnects, Withdraw, Reserve, Quiesce,
       ReleaseExecution, vars
  <1>3. (\E op \in Ops : Environment(op) \/ Children(op) \/ AdminStops(op)) =>
           faults' = faults
    BY DEF Environment, Children, AdminStops, DockerCreates, DockerDrops, DockerStarts,
       ChildExpires, ChildLost, ChildCleans
  <1>4. (\E op \in Ops, kind \in Kinds : Invoke(op, kind)) \/ Journal \/ Begin \/ Bind
        \/ Auth \/ Arm \/ Intend => faults' = faults \/ Fault
    BY DEF Invoke, Journal, Begin, Bind, Auth, Arm, Intend, Saves, SaveFails
  <1>5. Start \/ Await \/ Unintend \/ StartLost \/ Native \/ Stop => faults' = faults \/ Fault
    BY DEF Start, Await, Unintend, StartLost, Native, Stop, Saves, SaveFails
  <1>6. NormalizeHome \/ Discard \/ Record \/ Complete \/ Settle \/ Done \/ Forget =>
           faults' = faults \/ Fault
    BY DEF NormalizeHome, Discard, Record, Complete, Settle, Done, Forget, Saves, SaveFails
  <1>7. Repair => faults' = faults \/ Fault
    BY DEF Repair, Saves, SaveFails
  <1>8. QED
    BY <1>1, <1>2, <1>3, <1>4, <1>5, <1>6, <1>7 DEF Next, Command, TypeFaults

\* A command's next call, or its end.
LEMMA ProcessTyped ==
  ASSUME TypeProcess, [Next]_vars PROVE TypeProcess'
  <1> USE DEF TypeProcess, Goto, End
  <1>1. CASE UNCHANGED vars \/ Crash \/ Reboot \/ NativeWrites \/ AdminDisconnects
             \/ Withdraw \/ Reserve \/ Quiesce \/ ReleaseExecution
    BY <1>1 DEF Crash, Reboot, NativeWrites, AdminDisconnects, Withdraw, Reserve,
       Quiesce, ReleaseExecution, vars, process
  <1>2. CASE \E op \in Ops : Environment(op) \/ Children(op) \/ AdminStops(op)
    BY <1>2 DEF Environment, Children, AdminStops, DockerCreates, DockerDrops,
       DockerStarts, ChildExpires, ChildLost, ChildCleans, process
  <1>3. CASE \/ \E op \in Ops, kind \in Kinds : Invoke(op, kind)
             \/ Journal \/ Begin \/ Bind
    BY <1>3 DEF Invoke, Journal, Begin, Bound, Rejected, Bind
  <1>4. CASE Auth \/ Arm \/ Intend \/ Start \/ Await
    BY <1>4 DEF Auth, Arm, Intend, Start, Await
  <1>5. CASE Unintend \/ StartLost \/ Native \/ Stop
    BY <1>5 DEF Unintend, StartLost, Native, Stop
  <1>6. CASE NormalizeHome \/ Discard \/ Record \/ Repair
    BY <1>6 DEF NormalizeHome, Discard, Record, Repair
  <1>7. CASE Complete \/ Settle \/ Done \/ Forget
    BY <1>7 DEF Complete, Settle, Done, Forget
  <1>8. QED
    BY <1>1, <1>2, <1>3, <1>4, <1>5, <1>6, <1>7 DEF Next, Command

LEMMA TypeStep ==
  ASSUME CustodyInv, [Next]_vars PROVE TypeOK'
  <1>1. /\ TypeDisk /\ TypeHome /\ TypeMemory /\ TypeProcess
        /\ TypeDocker /\ TypeChildren /\ TypeServer /\ TypeFaults
    BY TypeParts DEF CustodyInv
  <1>2. TypeDisk'
    BY <1>1, Frames, DiskTyped DEF TypeDisk
  <1>3. TypeHome'
    BY <1>1, Frames, HomeTyped DEF TypeHome
  <1>4. TypeMemory'
    BY <1>1, MemoryFrame, MemoryTyped DEF TypeMemory
  <1>5. TypeDocker'
    BY <1>1, Frames, DockerTyped DEF TypeDocker
  <1>6. TypeChildren'
    BY <1>1, Frames, ChildTyped DEF TypeChildren, children
  <1>7. TypeServer'
    BY <1>1, Frames, ServerTyped DEF TypeServer, authority
  <1>8. TypeProcess' /\ TypeFaults'
    BY <1>1, ProcessTyped, FaultsTyped
  <1>9. QED
    BY <1>2, <1>3, <1>4, <1>5, <1>6, <1>7, <1>8
       DEF TypeOK, TypeDisk, TypeHome, TypeMemory, TypeProcess, TypeDocker,
           TypeChildren, TypeServer, TypeFaults

-----------------------------------------------------------------------------
(* The command and its journal *)

control == <<pending, execution, pc, cmd, mode, mem, busy>>

\* Steps that are none of the command's and none of the execution's.
Quiet == \/ UNCHANGED vars \/ NativeWrites \/ AdminDisconnects \/ Withdraw
         \/ \E op \in Ops : Environment(op) \/ Children(op) \/ AdminStops(op)

LEMMA QuietKeeps == Quiet => UNCHANGED control
  BY DEF Quiet, NativeWrites, AdminDisconnects, Withdraw, Environment, Children,
     AdminStops, DockerCreates, DockerDrops, DockerStarts, ChildExpires, ChildLost, ChildCleans,
     vars, disk, identity, process, docker, control

\* The end of a command, by itself or by force.
Ends == /\ pc' = "idle" /\ mode' = "operate" /\ UNCHANGED execution
        /\ busy' \in BOOLEAN /\ (busy' => busy)
        /\ UNCHANGED pending \/ ~execution

LEMMA EndKeeps == ASSUME ControlInv, Ends PROVE ControlInv' /\ RecordInv'
  BY DEF ControlInv, RecordInv, Ends, Holding, Phases

\* The calls up to the container.
LEMMA EarlyKeeps ==
  ASSUME CustodyInv,
         \/ \E op \in Ops, kind \in Kinds : Invoke(op, kind)
         \/ Journal \/ Begin \/ Bind \/ Auth \/ Arm \/ Intend
  PROVE  ControlInv' /\ RecordInv'
  <1> USE DEF CustodyInv
  <1> USE HeldIsRecord, EndKeeps
  <1>1. CASE \E op \in Ops, kind \in Kinds : Invoke(op, kind)
    <2>1. ControlInv'
      BY <1>1 DEF Invoke, ControlInv, Holding, Phases, disk, identity, docker
    <2>2. RecordInv'
      BY <1>1 DEF Invoke, RecordInv, Holding
    <2>3. QED
      BY <2>1, <2>2
  <1>2. CASE Journal
    <2>1. /\ NewRecord(cmd.op, cmd.kind) # None /\ NewRecord(cmd.op, cmd.kind).op = cmd.op
          /\ NewRecord(cmd.op, cmd.kind).outcome = "none" /\ ~execution
      BY <1>2, NewRecordIsJournal DEF Journal, ControlInv
    <2>2. \/ Ends
          \/ /\ pc' = "begin" /\ mode' = "operate" /\ UNCHANGED <<execution, busy, cmd>>
             /\ mem' = NewRecord(cmd.op, cmd.kind) /\ pending' = mem'
      BY <1>2, <2>1 DEF Journal, Saves, SaveFails, End, Ends, ControlInv, disk, identity, docker
    <2>3. QED
      BY <1>2, <2>1, <2>2 DEF Journal, ControlInv, RecordInv, Holding, Phases
  <1>3. CASE Begin
    <2>1. /\ mem \in Records /\ [mem EXCEPT !.bound = TRUE] \in Journals
          /\ [mem EXCEPT !.bound = TRUE] # None /\ ~execution
      BY <1>3, JournalUpdates DEF Begin, ControlInv, Holding
    <2>2. UNCHANGED <<pending, execution, busy>>
      BY <1>3 DEF Begin, disk, identity, docker
    <2>3. CASE Ends
      BY <2>3
    <2>4. CASE Goto(IF mode = "operate" THEN "bind" ELSE "repair")
               /\ mem' = [mem EXCEPT !.bound = TRUE]
      BY <1>3, <2>1, <2>2, <2>4 DEF Begin, Goto, ControlInv, RecordInv, Holding, Phases,
         Records
    <2>5. CASE /\ UNCHANGED cmd /\ mode' = "reject"
               /\ \/ pc' = "forget" /\ UNCHANGED mem
                  \/ pc' = "bind" /\ mem' = [mem EXCEPT !.bound = TRUE]
      BY <1>3, <2>1, <2>2, <2>5 DEF Begin, ControlInv, RecordInv, Holding, Phases, Records
    <2>6. CASE /\ mode = "operate" /\ mode' = "refused" /\ pc' = "forget"
               /\ UNCHANGED <<cmd, mem>>
      BY <1>3, <2>1, <2>2, <2>6 DEF Begin, ControlInv, RecordInv, Holding, Phases
    <2>7. QED
      BY <1>3, <2>1, <2>2, <2>3, <2>4, <2>5, <2>6
         DEF Begin, Bound, Rejected, End, Ends, ControlInv
  <1>4. CASE Bind
    BY <1>4 DEF Bind, Saves, SaveFails, Goto, End, Ends, ControlInv, RecordInv, Holding,
       Phases, identity, docker
  <1>5. CASE Auth \/ Arm
    BY <1>5 DEF Auth, Arm, Goto, ControlInv, RecordInv, Holding, Phases, disk, identity,
       docker
  <1>6. CASE Intend
    <2>1. /\ mem \in Records /\ [mem EXCEPT !.create = TRUE] # None /\ mem.bound
      BY <1>6, JournalUpdates DEF Intend, ControlInv, RecordInv, Holding
    <2>2. /\ mem' = [mem EXCEPT !.create = TRUE] /\ UNCHANGED <<cmd, mode, execution, busy>>
          /\ \/ pending' = mem' /\ pc' = "start"
             \/ pending' \in {pending, mem'} /\ pc' = "stop"
      BY <1>6 DEF Intend, Saves, SaveFails, Goto, identity, docker
    <2>3. QED
      BY <1>6, <2>1, <2>2 DEF Intend, ControlInv, RecordInv, Holding, Phases, Records
  <1>7. QED
    BY <1>1, <1>2, <1>3, <1>4, <1>5, <1>6

\* From the start of the container to its stop.
LEMMA MiddleKeeps ==
  ASSUME CustodyInv,
         Start \/ Await \/ Unintend \/ StartLost \/ Native \/ Stop \/ NormalizeHome
  PROVE  ControlInv' /\ RecordInv'
  <1> USE HeldIsRecord, EndKeeps DEF CustodyInv
  <1>1. CASE Start \/ Await
    BY <1>1 DEF Start, Await, LostCreate, Goto, ControlInv, RecordInv, Holding, Phases,
       disk, identity
  <1>2. CASE Unintend
    <2>1. /\ mem \in Records /\ [mem EXCEPT !.create = FALSE] # None /\ mem.bound
      BY <1>2, JournalUpdates DEF Unintend, ControlInv, RecordInv, Holding
    <2>2. /\ mem' = [mem EXCEPT !.create = FALSE] /\ UNCHANGED <<cmd, mode, execution, busy>>
          /\ pending' \in {pending, mem'} /\ pc' \in {"native", "stop"}
      BY <1>2 DEF Unintend, Saves, SaveFails, Goto, identity, docker
    <2>3. QED
      BY <1>2, <2>1, <2>2 DEF Unintend, ControlInv, RecordInv, Holding, Phases, Records
  <1>3. CASE StartLost \/ Native
    BY <1>3 DEF StartLost, Native, Goto, ControlInv, RecordInv, Holding, Phases, disk,
       identity, docker
  <1>4. CASE Stop
    <2>1. /\ AfterStop \in {"home", "discard", "repair", "begin"}
          /\ AfterStop = "home" => mode = "operate"
          /\ AfterStop = "repair" => mem.bound
          /\ AfterStop \in {"repair", "begin"} => mode = "recover"
          /\ AfterStop = "discard" => mode # "recover"
      BY <1>4 DEF Stop, AfterStop, ControlInv, Holding, TypeOK
    <2>2. UNCHANGED <<pending, execution, busy>>
      BY <1>4 DEF Stop, disk, identity
    <2>3. CASE Ends
      BY <2>3
    <2>4. CASE Goto(AfterStop) /\ UNCHANGED mem
      BY <1>4, <2>1, <2>2, <2>4 DEF Stop, Goto, ControlInv, RecordInv, Holding, Phases
    <2>5. QED
      BY <1>4, <2>2, <2>3, <2>4 DEF Stop, End, Ends, ControlInv
  <1>5. CASE NormalizeHome
    BY <1>5 DEF NormalizeHome, Goto, ControlInv, RecordInv, Holding, Phases, docker
  <1>6. QED
    BY <1>1, <1>2, <1>3, <1>4, <1>5

\* From the outcome to the end of the journal.
LEMMA LateKeeps ==
  ASSUME CustodyInv,
         Discard \/ Record \/ Repair \/ Complete \/ Settle \/ Done \/ Forget
  PROVE  ControlInv' /\ RecordInv'
  <1> USE HeldIsRecord, EndKeeps DEF CustodyInv
  <1>1. CASE Discard
    BY <1>1 DEF Discard, Goto, End, Ends, ControlInv, RecordInv, Holding, Phases, docker
  <1>2. CASE Record
    <2>1. /\ mem \in Records /\ [mem EXCEPT !.outcome = outcome] # None
      <3>1. mem \in Journals /\ mem \in Records /\ mem.bound /\ mem.outcome = "none"
        BY <1>2 DEF Record, ControlInv, RecordInv, Holding
      <3>2. [mem EXCEPT !.outcome = outcome] \in Journals
        BY <3>1, JournalUpdates DEF TypeOK
      <3>3. QED
        BY <3>1, <3>2, JournalUpdates
    <2>2. /\ UNCHANGED <<execution, busy>>
          /\ \/ Ends
             \/ /\ mem' = [mem EXCEPT !.outcome = outcome] /\ pending' = mem'
                /\ pc' = "complete" /\ UNCHANGED <<cmd, mode>>
      BY <1>2 DEF Record, Saves, SaveFails, Goto, End, Ends, ControlInv, Holding, identity,
         docker
    <2>3. QED
      BY <1>2, <2>1, <2>2 DEF Record, ControlInv, RecordInv, Holding, Phases, Records
  <1>3. CASE Repair
    <2>1. /\ mem \in Records /\ mem \in Journals /\ mem.bound
          /\ [mem EXCEPT !.outcome = "bad", !.failed = TRUE] # None
      BY <1>3, JournalUpdates DEF Repair, ControlInv, RecordInv, Holding
    <2>2. /\ pc = "repair" /\ UNCHANGED <<execution, busy>>
          /\ \/ Ends
             \/ /\ UNCHANGED <<cmd, mode>> /\ pc' \in {"discard", "complete"}
                /\ \/ UNCHANGED <<pending, mem>>
                   \/ /\ mem' = [mem EXCEPT !.outcome = "bad", !.failed = TRUE]
                      /\ pending' = mem' /\ mem.outcome = "ready" /\ pc' = "discard"
      BY <1>3 DEF Repair, Saves, SaveFails, Goto, End, Ends, ControlInv, Holding, docker
    <2>3. QED
      <3>1. CASE Ends
        BY <3>1
      <3>2. CASE UNCHANGED <<pending, mem>> /\ ~Ends
        BY <2>1, <2>2, <3>2 DEF ControlInv, RecordInv, Holding, Phases
      <3>3. CASE mem' # mem /\ ~Ends
        BY <2>1, <2>2, <3>3 DEF ControlInv, RecordInv, Holding, Phases, Records
      <3>4. QED
        BY <2>1, <2>2, <3>1, <3>2, <3>3 DEF ControlInv, RecordInv, Holding, Phases, Records
  <1>4. CASE Complete
    BY <1>4 DEF Complete, Goto, End, Ends, ControlInv, RecordInv, Holding, Phases, disk,
       identity, docker
  <1>5. CASE Settle \/ Done
    BY <1>5 DEF Settle, Done, Goto, End, Ends, ControlInv, RecordInv, Holding, Phases,
       docker
  <1>6. CASE Forget
    BY <1>6 DEF Forget, Goto, End, Ends, ControlInv, RecordInv, Holding, Phases, identity,
       docker
  <1>7. QED
    BY <1>1, <1>2, <1>3, <1>4, <1>5, <1>6

LEMMA ControlStep ==
  ASSUME CustodyInv, [Next]_vars PROVE ControlInv' /\ RecordInv'
  <1> USE DEF CustodyInv
  <1>1. CASE Quiet
    BY <1>1, QuietKeeps DEF ControlInv, RecordInv, control, Quiet
  <1>2. CASE Crash \/ Reboot
    <2>1. /\ pc' = "idle" /\ mode' = "operate" /\ UNCHANGED <<execution, pending>>
          /\ busy' = busy \/ busy' = FALSE
      BY <1>2 DEF Crash, Reboot, End, disk, identity, docker
    <2>2. busy' \in BOOLEAN /\ (busy' => busy)
      <3>1. busy \in BOOLEAN
        BY DEF ControlInv
      <3>2. CASE busy = TRUE
        BY <2>1, <3>2
      <3>3. CASE busy = FALSE
        BY <2>1, <3>3
      <3>4. QED
        BY <3>1, <3>2, <3>3
    <2>3. QED
      BY <2>1, <2>2, EndKeeps DEF Ends
  <1>3. CASE Reserve
    BY <1>3 DEF Reserve, ControlInv, RecordInv, Holding, Phases
  <1>4. CASE Quiesce
    BY <1>4 DEF Quiesce, ControlInv, RecordInv, Holding, Phases, disk, identity, process
  <1>5. CASE ReleaseExecution
    BY <1>5 DEF ReleaseExecution, ControlInv, RecordInv, Holding, Phases, docker
  <1>6. QED
    BY <1>1, <1>2, <1>3, <1>4, <1>5, EarlyKeeps, MiddleKeeps, LateKeeps DEF Next, Command, Quiet

-----------------------------------------------------------------------------
(* Containers *)

Exclusive(op) == container[op] \in {"created", "starting", "running"} => op \notin inflight

\* Only Start lets an operation have a container that it did not have before; a
\* tombstone is never taken away.
LEMMA Shrinks ==
  ASSUME CustodyInv, [Next]_vars, ~Start, NEW op \in Ops
  PROVE  /\ Mounts(op)' => Mounts(op)
         /\ Loose(op)' => Loose(op)
         /\ Exclusive(op)'
  <1> USE DEF CustodyInv, Mounts, Loose, Exclusive
  <1>1. Exclusive(op)
    BY DEF MountInv
  <1>2. TypeDocker
    BY TypeParts
  <1>3. CASE UNCHANGED <<container, inflight>>
    BY <1>1, <1>3
  <1>4. CASE Await
    BY <1>1, <1>2, <1>4, HeldIsRecord DEF Await, TypeDocker, Holding
  <1>5. CASE Stop
    <2>1. mem.op \in Ops /\ (~mem.create => ~Loose(mem.op))
      BY <1>5, HeldIsRecord DEF Stop, Holding, MountInv
    <2>2. UNCHANGED inflight
      BY <1>5 DEF Stop
    <2>3. CASE mem.op # op
      <3>1. container'[op] = container[op]
        BY <1>2, <1>5, <2>1, <2>3 DEF Stop, TypeDocker
      <3>2. QED
        BY <1>1, <2>2, <3>1
    <2>4. CASE mem.op = op
      <3>1. \/ container'[op] = container[op]
            \/ container'[op] = "tombstone"
            \/ container'[op] = "absent" /\ container[op] # "tombstone"
        BY <1>2, <1>5, <2>1, <2>4 DEF Stop, Stopped, TypeDocker
      <3>2. QED
        BY <1>1, <1>2, <2>2, <3>1 DEF TypeDocker
    <2>5. QED
      BY <2>3, <2>4
  <1>6. CASE Reboot
    BY <1>2, <1>6 DEF Reboot, TypeDocker
  <1>7. ASSUME NEW o \in Ops, Environment(o)
        PROVE  /\ Mounts(op)' => Mounts(op)
               /\ Loose(op)' => Loose(op)
               /\ Exclusive(op)'
    BY <1>1, <1>2, <1>7 DEF Environment, DockerCreates, DockerDrops, DockerStarts, TypeDocker
  <1>8. ASSUME NEW o \in Ops, ChildCleans(o)
        PROVE  /\ Mounts(op)' => Mounts(op)
               /\ Loose(op)' => Loose(op)
               /\ Exclusive(op)'
    BY <1>1, <1>2, <1>8 DEF ChildCleans, TypeDocker
  <1>9. QED
    BY <1>3, <1>4, <1>5, <1>6, <1>7, <1>8, Frames DEF DockerSteps

\* An operation without a container has none that a tombstone does not answer.
LEMMA UnmountedIsTight ==
  ASSUME CustodyInv, Unmounted, NEW op \in Ops
  PROVE  ~Loose(op) /\ container[op] \in {"absent", "tombstone"}
  <1>1. TypeDocker
    BY TypeParts DEF CustodyInv
  <1>2. ~Mounts(op)
    BY DEF Unmounted
  <1>3. QED
    BY <1>1, <1>2 DEF TypeDocker, Loose, Mounts

\* Start lets the journaled operation have one, and only while the request is on
\* its way.
LEMMA StartMounts ==
  ASSUME CustodyInv, Start, NEW op \in Ops
  PROVE  /\ ~Mounts(op) /\ ~Loose(op) /\ Exclusive(op)'
         /\ pc' # "await" => ~Mounts(op)' /\ ~Loose(op)'
         /\ op # mem.op => ~Mounts(op)' /\ ~Loose(op)'
  <1>1. Unmounted
    BY DEF CustodyInv, MountInv, Start, Running
  <1>2. ~Mounts(op) /\ ~Loose(op) /\ container[op] \in {"absent", "tombstone"}
    BY <1>1, UnmountedIsTight DEF Unmounted
  <1>3. /\ UNCHANGED container
        /\ UNCHANGED inflight \/ (pc' = "await" /\ inflight' = inflight \cup {mem.op})
    BY DEF Start, Goto
  <1>4. QED
    BY <1>2, <1>3 DEF Mounts, Loose, Exclusive

\* The journal changes while nothing is mounted, but for the intent that is taken
\* back when the container runs or was never asked for.
LEMMA JournalChanges ==
  ASSUME CustodyInv, [Next]_vars
  PROVE  UNCHANGED pending \/ Unmounted \/ Unintend
  <1>1. CASE Journal \/ Bind \/ Intend \/ Record \/ Repair \/ Forget \/ Done
    BY <1>1 DEF CustodyInv, MountInv, Running, Journal, Bind, Intend, Record, Repair, Forget,
       Done
  <1>2. QED
    BY <1>1, Frames DEF DiskSteps

\* Where a step may lead while a container exists.
LEMMA Departures ==
  ASSUME CustodyInv, [Next]_vars, pc' \notin Running \cup {"idle"}
  PROVE  Unmounted \/ Stop
  <1> USE DEF CustodyInv
  <1>1. pending = None => Unmounted
    BY DEF MountInv, Unmounted
  <1>2. pc \notin Running \cup {"idle"} => Unmounted
    BY DEF MountInv
  <1>3. CASE Quiet
    BY <1>2, <1>3, QuietKeeps DEF control
  <1>4. CASE \/ \E op \in Ops, kind \in Kinds : Invoke(op, kind)
             \/ Reserve
    BY <1>1, <1>4 DEF Invoke, Reserve, Running
  <1>5. CASE Quiesce \/ ReleaseExecution \/ Crash \/ Reboot
    BY <1>2, <1>5 DEF Quiesce, ReleaseExecution, Crash, Reboot, End, process
  <1>6. CASE Await \/ Unintend \/ StartLost \/ Native
    BY <1>6 DEF Await, LostCreate, Unintend, StartLost, Native, Goto, Running
  <1>7. CASE Journal \/ Begin \/ Bind \/ Auth \/ Arm \/ Intend \/ Start \/ NormalizeHome
    BY <1>2, <1>7 DEF Journal, Begin, Bind, Auth, Arm, Intend, Start, NormalizeHome, Running
  <1>8. CASE Discard \/ Record \/ Repair \/ Complete \/ Settle \/ Done \/ Forget
    BY <1>2, <1>8 DEF Discard, Record, Repair, Complete, Settle, Done, Forget, Running
  <1>9. QED
    BY <1>3, <1>4, <1>5, <1>6, <1>7, <1>8 DEF Next, Command, Quiet

\* What comes after the create, and a stop that only removes, find no request on
\* its way.
Settled == \/ pc \in {"clear", "unintend", "native"}
           \/ pc = "stop" /\ ~mem.create

LEMMA Arrivals ==
  ASSUME CustodyInv, [Next]_vars, Settled'
  PROVE  \/ Start /\ UNCHANGED mem /\ pc' # "await"
         \/ Await /\ UNCHANGED mem
         \/ mem' # None /\ mem'.op \in Ops /\ ~Loose(mem'.op)
  <1> USE HeldIsRecord DEF CustodyInv, Settled
  <1>1. pc \notin Running \cup {"idle"} => \A op \in Ops : ~Loose(op)
    BY UnmountedIsTight DEF MountInv
  <1>2. Settled /\ pc # "await" => ~Loose(mem.op)
    BY DEF MountInv
  <1>3. CASE Quiet
    BY <1>2, <1>3, QuietKeeps, JournalUpdates DEF control, Holding
  <1>4. CASE \E op \in Ops, kind \in Kinds : Invoke(op, kind)
    <2>1. mem' = pending /\ pending # None /\ pc' = "stop" /\ ~pending.create
      BY <1>4 DEF Invoke
    <2>2. pending.op \in Ops /\ ~Loose(pending.op)
      BY <2>1, JournalUpdates DEF MountInv
    <2>3. QED
      BY <2>1, <2>2
  <1>5. CASE Quiesce
    BY <1>2, <1>5, JournalUpdates DEF Quiesce, process, Holding
  <1>6. CASE Reserve \/ ReleaseExecution \/ Crash \/ Reboot
    BY <1>6 DEF Reserve, ReleaseExecution, Crash, Reboot, End
  <1>7. CASE Start \/ Await
    BY <1>7 DEF Start, Await, Goto
  <1>8. CASE Unintend
    BY <1>2, <1>8, JournalUpdates DEF Unintend, Goto, MountInv, Holding, Records
  <1>9. CASE StartLost \/ Native
    BY <1>2, <1>9, JournalUpdates DEF StartLost, Native, MountInv, Holding
  <1>10. CASE Stop
    BY <1>10 DEF Stop, AfterStop, Goto, End, ControlInv, Holding, TypeOK
  <1>11. CASE Journal \/ Begin \/ Bind \/ Auth \/ Arm
    BY <1>1, <1>11, JournalUpdates DEF Journal, Begin, Bind, Auth, Arm, Bound, Rejected,
       Goto, End, Running, Holding
  <1>12. CASE Intend
    BY <1>12 DEF Intend, Goto, Holding, Records
  <1>13. CASE NormalizeHome \/ Discard \/ Record \/ Repair
    BY <1>13 DEF NormalizeHome, Discard, Record, Repair, Goto, End
  <1>14. CASE Complete \/ Settle \/ Done \/ Forget
    BY <1>14 DEF Complete, Settle, Done, Forget, Goto, End
  <1>15. QED
    BY <1>3, <1>4, <1>5, <1>6, <1>7, <1>8, <1>9, <1>10, <1>11, <1>12, <1>13, <1>14
       DEF Next, Command, Quiet

LEMMA MountStep ==
  ASSUME CustodyInv, [Next]_vars, TypeOK', ControlInv', RecordInv'
  PROVE  MountInv'
  <1> USE DEF CustodyInv
  <1>1. ASSUME NEW op \in Ops, Mounts(op)' PROVE pending' # None /\ pending'.op = op
    <2>1. CASE Start
      BY <1>1, <2>1, StartMounts DEF Start, Goto, ControlInv, disk, Holding
    <2>2. CASE ~Start
      <3>1. Mounts(op) /\ pending # None /\ pending.op = op
        BY <1>1, <2>2, Shrinks DEF MountInv
      <3>2. CASE Unintend
        BY <3>1, <3>2, HeldIsRecord, JournalUpdates
           DEF Unintend, Saves, SaveFails, ControlInv, Holding, Records
      <3>3. QED
        BY <3>1, <3>2, JournalChanges DEF Unmounted
    <2>3. QED
      BY <2>1, <2>2
  <1>2. ASSUME NEW op \in Ops, Loose(op)'
        PROVE  pending' # None /\ pending'.op = op /\ pending'.create
    <2>1. CASE Start
      BY <1>2, <2>1, StartMounts DEF Start, ControlInv, RecordInv, disk, Holding
    <2>2. CASE ~Start
      <3>1. Loose(op) /\ pending # None /\ pending.op = op /\ pending.create
        BY <1>2, <2>2, Shrinks DEF MountInv
      <3>2. CASE Unintend
        BY <3>1, <3>2 DEF Unintend, ControlInv, MountInv, Holding
      <3>3. QED
        BY <3>1, <3>2, JournalChanges, UnmountedIsTight
    <2>3. QED
      BY <2>1, <2>2
  <1>3. ASSUME NEW op \in Ops PROVE Exclusive(op)'
    BY Shrinks, StartMounts
  <1>4. Unmounted /\ ~Start => Unmounted'
    BY Shrinks DEF Unmounted
  <1>5. ASSUME pc' \notin Running \cup {"idle"} PROVE Unmounted'
    <2>1. ~Start
      BY <1>5 DEF Start, Goto, Running
    <2>2. CASE Stop
      <3>1. /\ mem.op \in Ops /\ pending # None /\ pending.op = mem.op
            /\ ~mem.create => ~Loose(mem.op)
        BY <2>2, HeldIsRecord DEF Stop, ControlInv, MountInv, Holding
      <3>2. PICK held \in Ops : held = mem.op
        BY <3>1
      <3>3. /\ container'[held] = Stopped(held) /\ UNCHANGED inflight
            /\ mem.create \/ container[held] # "tombstone"
        BY <1>5, <2>2, <3>2 DEF Stop, End, TypeOK
      <3>4. ~Mounts(held)'
        <4>1. CASE mem.create
          BY <3>3, <4>1 DEF Mounts, Stopped
        <4>2. CASE ~mem.create
          BY <3>1, <3>2, <3>3, <4>2 DEF Mounts, Stopped, Loose
        <4>3. QED
          BY <4>1, <4>2
      <3>5. ASSUME NEW op \in Ops, Mounts(op)' PROVE FALSE
        <4>1. Mounts(op)
          BY <2>1, <3>5, Shrinks
        <4>2. op = held
          BY <3>1, <3>2, <4>1 DEF MountInv
        <4>3. QED
          BY <3>4, <3>5, <4>2
      <3>6. QED
        BY <3>5 DEF Unmounted
    <2>3. QED
      BY <1>4, <1>5, <2>1, <2>2, Departures
  <1>6. ASSUME execution' PROVE Unmounted'
    <2>1. ~Start /\ (execution \/ Reserve)
      <3>1. CASE HomeSteps
        <4>1. CASE Auth \/ NormalizeHome \/ Discard \/ Repair \/ Settle
          BY <1>6, <4>1 DEF Auth, NormalizeHome, Discard, Repair, Settle, Start, ControlInv
        <4>2. CASE Reserve \/ ReleaseExecution \/ NativeWrites
          BY <1>6, <4>2 DEF Reserve, ReleaseExecution, NativeWrites, Start, ControlInv, process
        <4>3. QED
          BY <3>1, <4>1, <4>2 DEF HomeSteps
      <3>2. CASE UNCHANGED execution
        BY <1>6, <3>2 DEF Start, ControlInv
      <3>3. QED
        BY <3>1, <3>2, Frames
    <2>2. Unmounted
      BY <2>1 DEF MountInv, Reserve, Unmounted
    <2>3. QED
      BY <1>4, <2>1, <2>2
  <1>7. ASSUME Settled', NEW op \in Ops, op = mem'.op PROVE ~Loose(op)'
    <2>1. CASE Start /\ UNCHANGED mem /\ pc' # "await"
      BY <2>1, StartMounts
    <2>2. CASE Await /\ UNCHANGED mem
      <3>1. mem.create /\ op = mem.op
        BY <1>7, <2>2 DEF Await, RecordInv, Holding
      <3>2. container[op] = "created" /\ UNCHANGED inflight
        BY <1>7, <2>2, <3>1 DEF Await, LostCreate, Goto, Settled
      <3>3. QED
        BY <2>2, <3>1, <3>2 DEF MountInv, Loose
    <2>3. CASE ~Start /\ ~Loose(op)
      BY <2>3, Shrinks
    <2>4. CASE Start /\ pc' = "await"
      BY <1>7, <2>4 DEF Settled
    <2>5. QED
      BY <1>7, <2>1, <2>2, <2>3, <2>4, Arrivals DEF Start
  <1>8. Settled' => mem'.op \in Ops
    BY HeldIsRecord, Arrivals DEF Start, Await, Holding
  <1>9. (/\ \A op \in Ops : Mounts(op) => pending # None /\ pending.op = op
         /\ \A op \in Ops : Loose(op) => pending # None /\ pending.op = op /\ pending.create
         /\ \A op \in Ops : Exclusive(op)
         /\ pc \notin Running \cup {"idle"} => Unmounted
         /\ execution => Unmounted)'
    BY <1>1, <1>2, <1>3, <1>5, <1>6
  <1>10. (Settled => ~Loose(mem.op))'
    BY <1>7, <1>8
  <1>11. QED
    BY <1>9, <1>10 DEF MountInv, Exclusive, Settled

-----------------------------------------------------------------------------
(* The control plane *)

\* An operation is over when it was, or when nothing is mounted.
LEMMA Overs ==
  ASSUME CustodyInv, [Next]_vars, NEW op \in Ops, server'[op] = "done"
  PROVE  server[op] = "done" \/ (Unmounted /\ ~Start)
  <1> USE DEF CustodyInv
  <1>1. TypeServer
    BY TypeParts
  <1>2. CASE Complete
    BY <1>2 DEF Complete, Start, MountInv, Running
  <1>3. CASE Begin
    BY <1>1, <1>3 DEF Begin, Begins, authority, TypeServer
  <1>4. CASE Withdraw \/ AdminDisconnects \/ \E o \in Ops : AdminStops(o)
    BY <1>4 DEF Withdraw, AdminDisconnects, AdminStops
  <1>5. CASE UNCHANGED authority
    BY <1>5 DEF authority
  <1>6. QED
    BY <1>2, <1>3, <1>4, <1>5, Frames DEF ServerSteps

\* On the way to the container the operation is the one that was authorised.
Authorised == \/ pc \in {"auth", "arm", "intend", "start"}
              \/ pc = "bind" /\ mode = "operate"

LEMMA Begun ==
  ASSUME CustodyInv, [Next]_vars, Authorised'
  PROVE  \/ Authorised /\ mem'.op = mem.op /\ UNCHANGED server
         \/ Authorised /\ mem'.op = mem.op /\ Quiet
         \/ Begin /\ mem'.op = mem.op /\ server'[mem.op] = "begun"
  <1> USE HeldIsRecord DEF CustodyInv, Authorised
  <1>1. CASE Quiet
    BY <1>1, QuietKeeps DEF control
  <1>2. CASE \/ \E op \in Ops, kind \in Kinds : Invoke(op, kind)
             \/ Reserve \/ Quiesce \/ ReleaseExecution \/ Crash \/ Reboot
    BY <1>2 DEF Invoke, Reserve, Quiesce, ReleaseExecution, Crash, Reboot, End, process,
       authority
  <1>3. CASE Journal
    BY <1>3 DEF Journal, End
  <1>4. CASE Begin
    <2>1. mode = "operate" /\ Begins(mem.op) /\ Bound /\ server[mem.op] # "done"
      BY <1>4 DEF Begin, Bound, Rejected, Goto, End
    <2>2. mem.op \in Ops /\ mem \in Records /\ TypeServer
      BY <1>4, TypeParts DEF Begin, Holding
    <2>3. server'[mem.op] = "begun"
      BY <2>1, <2>2 DEF Begins, TypeServer
    <2>4. QED
      BY <1>4, <2>1, <2>2, <2>3 DEF Bound, Records
  <1>5. CASE Bind
    BY <1>5 DEF Bind, Goto, End, ControlInv, authority
  <1>6. CASE Auth \/ Arm
    BY <1>6 DEF Auth, Arm, Goto, authority
  <1>7. CASE Intend
    BY <1>7 DEF Intend, Goto, authority, Records, Holding
  <1>8. CASE Start \/ Await \/ Unintend \/ StartLost \/ Native
    BY <1>8 DEF Start, Await, LostCreate, Unintend, StartLost, Native, Goto
  <1>9. CASE Stop
    BY <1>9 DEF Stop, AfterStop, Goto, End, ControlInv, Holding, TypeOK
  <1>10. CASE NormalizeHome \/ Discard \/ Record \/ Repair
    BY <1>10 DEF NormalizeHome, Discard, Record, Repair, Goto, End
  <1>11. CASE Complete \/ Settle \/ Done \/ Forget
    BY <1>11 DEF Complete, Settle, Done, Forget, Goto, End
  <1>12. QED
    BY <1>1, <1>2, <1>3, <1>4, <1>5, <1>6, <1>7, <1>8, <1>9, <1>10, <1>11
       DEF Next, Command, Quiet

LEMMA ServerStep ==
  ASSUME CustodyInv, [Next]_vars PROVE ServerInv'
  <1> USE DEF CustodyInv
  <1>1. ASSUME NEW op \in Ops, server'[op] = "done" PROVE ~Mounts(op)'
    <2>1. CASE server[op] = "done" /\ Start
      <3>1. op # mem.op
        BY <2>1 DEF Start, ServerInv
      <3>2. QED
        BY <2>1, <3>1, StartMounts
    <2>2. CASE server[op] = "done" /\ ~Start
      BY <2>2, Shrinks DEF ServerInv
    <2>3. CASE Unmounted /\ ~Start
      BY <2>3, Shrinks DEF Unmounted
    <2>4. QED
      BY <1>1, <2>1, <2>2, <2>3, Overs
  <1>2. ASSUME Authorised' PROVE server'[mem'.op] = "begun"
    <2>1. Authorised => server[mem.op] = "begun"
      BY DEF Authorised, ServerInv
    <2>2. CASE Authorised /\ mem'.op = mem.op /\ Quiet
      <3>1. server' = server
        BY <2>2 DEF Quiet, NativeWrites, AdminDisconnects, Withdraw, Environment, Children,
           AdminStops, DockerCreates, DockerDrops, DockerStarts, ChildExpires, ChildLost,
           ChildCleans, authority, vars
      <3>2. QED
        BY <2>1, <2>2, <3>1
    <2>3. QED
      BY <1>2, <2>1, <2>2, Begun
  <1>3. (\A op \in Ops : server[op] = "done" => ~Mounts(op))'
    BY <1>1
  <1>4. QED
    BY <1>2, <1>3 DEF ServerInv, Authorised

-----------------------------------------------------------------------------
(* The theorems *)

LEMMA CustodyAlways == Spec => []CustodyInv
  <1>1. Init => CustodyInv
    <2> SUFFICES ASSUME Init PROVE CustodyInv
      OBVIOUS
    <2>1. TypeOK
      <3>1. TypeDisk /\ TypeHome /\ TypeMemory /\ TypeProcess
        BY DEF Init, TypeDisk, TypeHome, TypeMemory, TypeProcess
      <3>2. TypeDocker /\ TypeChildren /\ TypeServer
        BY DEF Init, TypeDocker, TypeChildren, TypeServer
      <3>3. TypeFaults
        BY LifecycleAssumption DEF Init, TypeFaults, LifecycleAssumption
      <3>4. QED
        BY <3>1, <3>2, <3>3, TypeParts
    <2>2. ControlInv /\ RecordInv
      BY DEF Init, ControlInv, RecordInv, Holding, Phases
    <2>3. MountInv /\ ServerInv
      BY DEF Init, MountInv, ServerInv, Mounts, Loose, Unmounted, Running
    <2>4. QED
      BY <2>1, <2>2, <2>3 DEF CustodyInv
  <1>2. CustodyInv /\ [Next]_vars => CustodyInv'
    BY TypeStep, ControlStep, MountStep, ServerStep DEF CustodyInv
  <1>3. QED
    BY <1>1, <1>2, PTL DEF Spec

\* An operation that the control plane was told is stopped has no container that
\* mounts the home and gets none, however late Docker answers.
THEOREM StoppedIsUnmounted == Spec => []StoppedMeansUnmounted
  <1>1. CustodyInv => StoppedMeansUnmounted
    BY DEF CustodyInv, ServerInv, StoppedMeansUnmounted
  <1>2. QED
    BY <1>1, CustodyAlways, PTL

\* Credentials are removed when no container and no execution uses them.
THEOREM RemovedWhenUnused == Spec => RemovedUnused
  <1>1. ASSUME CustodyInv, [Next]_vars, home # "none", home' = "none"
        PROVE  ~busy /\ \A op \in Ops : ~Mounts(op)
    <2>1. HomeSteps
      BY <1>1, Frames
    <2>2. pc \in {"discard", "drop"}
      <3>1. ~(Auth \/ NormalizeHome \/ Repair \/ Reserve \/ ReleaseExecution \/ NativeWrites)
        BY <1>1 DEF Auth, NormalizeHome, Repair, Reserve, ReleaseExecution, NativeWrites
      <3>2. QED
        BY <1>1, <2>1, <3>1 DEF HomeSteps, Discard, Settle
    <2>3. QED
      BY <1>1, <2>2 DEF CustodyInv, MountInv, ControlInv, Running, Unmounted, Holding
  <1>2. QED
    BY <1>1, CustodyAlways, PTL DEF Spec, RemovedUnused

\* A reported outcome is on disk, and a ready one is about a home that passed the
\* check; whatever was not ready is reported as such.
OutcomeInv ==
    /\ pc \in {"idle", "journal", "execute", "begin", "bind", "repair", "discard"} =>
           outcome = "bad"
    /\ pc = "stop" /\ mode # "operate" => outcome = "bad"
    /\ pc \in {"stop", "begin", "repair"} /\ mode = "recover" =>
           pending.outcome = mem.outcome
    /\ pc \in {"record", "complete"} /\ outcome = "ready" => home = "clean"
    /\ pc = "complete" /\ outcome = "ready" => pending.outcome = "ready"

\* Nobody writes to the home then.
LEMMA HomeRests ==
  ASSUME CustodyInv, pc \in {"record", "complete"} PROVE ~NativeWrites
  <1>1. \A op \in Ops : container[op] # "running"
    BY DEF CustodyInv, MountInv, Running, Unmounted, Mounts
  <1>2. ~busy
    BY DEF CustodyInv, ControlInv
  <1>3. QED
    BY <1>1, <1>2 DEF NativeWrites

LEMMA OutcomeStep ==
  ASSUME CustodyInv, OutcomeInv, [Next]_vars PROVE OutcomeInv'
  <1> USE HeldIsRecord DEF OutcomeInv, CustodyInv
  <1>1. ASSUME pc' = "idle", outcome' = "bad" PROVE OutcomeInv'
    BY <1>1
  <1>2. CASE Quiet
    <2>1. UNCHANGED <<control, outcome>>
      BY <1>2, QuietKeeps DEF Quiet, NativeWrites, AdminDisconnects, Withdraw, Environment,
         Children, AdminStops, DockerCreates, DockerDrops, DockerStarts, ChildExpires, ChildLost,
         ChildCleans, vars, process
    <2>2. UNCHANGED home \/ NativeWrites
      BY <1>2 DEF Quiet, AdminDisconnects, Withdraw, Environment, Children, AdminStops,
         DockerCreates, DockerDrops, DockerStarts, ChildExpires, ChildLost, ChildCleans,
         vars, disk, identity
    <2>3. QED
      BY <2>1, <2>2, HomeRests DEF control
  <1>3. CASE Crash \/ Reboot
    BY <1>1, <1>3 DEF Crash, Reboot, End
  <1>4. CASE \/ \E op \in Ops, kind \in Kinds : Invoke(op, kind)
             \/ Reserve \/ Quiesce \/ ReleaseExecution
    BY <1>4 DEF Invoke, Reserve, Quiesce, ReleaseExecution, disk, process, ControlInv
  <1>5. CASE Journal
    BY <1>1, <1>5 DEF Journal, End
  <1>6. CASE Begin
    BY <1>1, <1>6 DEF Begin, Bound, Rejected, Goto, End, disk, Holding, Records
  <1>7. CASE Bind
    BY <1>1, <1>7 DEF Bind, Goto, End, ControlInv
  <1>8. CASE Auth \/ Arm \/ Intend
    BY <1>8 DEF Auth, Arm, Intend, Goto, ControlInv
  <1>9. CASE Start \/ Await \/ Unintend \/ StartLost \/ Native
    BY <1>9 DEF Start, Await, LostCreate, Unintend, StartLost, Native, Goto, ControlInv
  <1>10. CASE Stop
    BY <1>1, <1>10 DEF Stop, AfterStop, Goto, End, disk, ControlInv, Holding, TypeOK
  <1>11. CASE NormalizeHome \/ Discard
    BY <1>1, <1>11 DEF NormalizeHome, Discard, Goto, End, ControlInv
  <1>12. CASE Record
    BY <1>1, <1>12 DEF Record, Saves, Goto, End, identity, Holding, Records
  <1>13. CASE Repair
    <2>1. CASE pc' = "idle" /\ outcome' = "bad"
      BY <1>1, <2>1
    <2>2. CASE pc' = "discard"
      BY <1>13, <2>2 DEF Repair, Goto, End
    <2>3. CASE /\ pc' = "complete" /\ mem.outcome = "ready" /\ home' = "clean"
               /\ UNCHANGED pending
      <3>1. pending.outcome = "ready"
        BY <1>13, <2>3 DEF Repair, ControlInv
      <3>2. QED
        BY <2>3, <3>1
    <2>4. QED
      BY <1>13, <2>1, <2>2, <2>3 DEF Repair, Goto, End
  <1>14. CASE Complete \/ Settle \/ Done \/ Forget
    BY <1>1, <1>14 DEF Complete, Settle, Done, Forget, Goto, End
  <1>15. QED
    BY <1>2, <1>3, <1>4, <1>5, <1>6, <1>7, <1>8, <1>9, <1>10, <1>11, <1>12, <1>13, <1>14
       DEF Next, Command, Quiet

\* A profile becomes ready on an outcome that is on disk, with a checked home.
THEOREM ReadyOnDurable == Spec => ReadyIsDurable
  <1>1. Init => OutcomeInv
    BY DEF Init, OutcomeInv
  <1>2. CustodyInv /\ OutcomeInv /\ [Next]_vars => OutcomeInv'
    BY OutcomeStep
  <1>3. ASSUME CustodyInv, OutcomeInv, [Next]_vars, ready' \notin {None, ready}
        PROVE  /\ pending # None /\ pending.op = ready' /\ pending.outcome = "ready"
               /\ home = "clean"
    <2>1. Complete
      BY <1>3, Frames DEF ServerSteps, Begin, Begins, Withdraw, AdminDisconnects, AdminStops,
         authority
    <2>2. outcome = "ready" /\ ready' = mem.op
      BY <1>3, <2>1 DEF Complete, Completes, authority
    <2>3. QED
      BY <1>3, <2>1, <2>2 DEF Complete, OutcomeInv, CustodyInv, ControlInv, Holding
  <1>4. QED
    BY <1>1, <1>2, <1>3, CustodyAlways, PTL DEF Spec, ReadyIsDurable

\* The owner and the users of the home, as ProfileCustody sees them.
HomeOwner == IF execution THEN Execution ELSE IF pending = None THEN None ELSE pending.op
HomeUsers == {op \in Ops : Mounts(op)} \cup IF busy THEN {Execution} ELSE {}

\* Whoever uses the home owns it.
OwnedInv == /\ HomeOwner \in Ops \cup {Execution, None}
            /\ HomeUsers = {} \/ (HomeOwner # None /\ HomeUsers = {HomeOwner})

LEMMA UsersOwn ==
  ASSUME CustodyInv
  PROVE  OwnedInv /\ (Unmounted /\ ~busy => HomeUsers = {})
  <1> USE NamesDiffer DEF CustodyInv, HomeOwner, HomeUsers, OwnedInv
  <1>1. Unmounted => {op \in Ops : Mounts(op)} = {}
    BY DEF Unmounted
  <1>2. pending # None => pending.op \in Ops
    BY HeldIsRecord, JournalUpdates
  <1>3. CASE execution
    BY <1>1, <1>3 DEF MountInv
  <1>4. CASE ~execution
    <2>1. ~busy
      BY <1>4 DEF ControlInv
    <2>2. \A op \in Ops : Mounts(op) => pending # None /\ op = pending.op
      BY DEF MountInv
    <2>3. QED
      BY <1>1, <1>2, <1>4, <2>1, <2>2
  <1>5. QED
    BY <1>1, <1>2, <1>3, <1>4

\* The home changes hands when nothing uses it.
LEMMA HandsOver ==
  ASSUME CustodyInv, [Next]_vars, HomeOwner' # HomeOwner
  PROVE  /\ HomeUsers = {} /\ (HomeOwner = None \/ HomeOwner' = None)
         /\ HomeOwner' = None => HomeUsers' = {}
  <1> USE DEF HomeOwner
  <1>1. CASE Reserve \/ ReleaseExecution
    <2>1. pending = None /\ UNCHANGED <<container, inflight, pending>> /\ Unmounted /\ ~busy
      BY <1>1 DEF Reserve, ReleaseExecution, docker, CustodyInv, ControlInv, MountInv, Unmounted
    <2>2. HomeUsers = {}
      BY <2>1, UsersOwn
    <2>3. CASE Reserve
      BY <2>1, <2>2, <2>3, NamesDiffer DEF Reserve, CustodyInv, ControlInv
    <2>4. CASE ReleaseExecution
      BY <2>1, <2>2, <2>4, NamesDiffer DEF ReleaseExecution, docker, HomeUsers, Mounts
    <2>5. QED
      BY <1>1, <2>3, <2>4
  <1>2. CASE Journal \/ Forget
    <2>1. Unmounted /\ ~execution /\ ~busy /\ UNCHANGED <<container, inflight, busy, execution>>
      BY <1>2 DEF Journal, Forget, docker, disk, identity, CustodyInv, ControlInv, MountInv,
         Running, Holding
    <2>2. HomeUsers = {} /\ HomeUsers' = {}
      BY <2>1, UsersOwn DEF HomeUsers, Mounts
    <2>3. pending = None \/ pending' = None \/ UNCHANGED pending
      BY <1>2 DEF Journal, Forget, CustodyInv, ControlInv
    <2>4. QED
      BY <2>1, <2>2, <2>3
  <1>3. CASE ~(Reserve \/ ReleaseExecution \/ Journal \/ Forget)
    <2>1. UNCHANGED execution
      <3>1. HomeSteps => UNCHANGED execution
        BY <1>3 DEF HomeSteps, Auth, NormalizeHome, Discard, Repair, Settle, NativeWrites
      <3>2. QED
        BY <3>1, Frames
    <2>2. UNCHANGED pending \/ (~execution /\ pending # None /\ pending' # None
                                /\ pending'.op = pending.op)
      <3>1. CASE Bind \/ Intend \/ Unintend \/ Record \/ Repair
        <4>1. /\ mem \in Journals /\ mem \in Records /\ ~execution
              /\ pending # None /\ mem.op = pending.op
          BY <3>1, HeldIsRecord DEF Bind, Intend, Unintend, Record, Repair, Holding,
             CustodyInv, ControlInv
        <4>2. CASE Bind \/ Unintend
          BY <3>1, <4>1, <4>2, JournalUpdates DEF Bind, Unintend, Saves, SaveFails, Records
        <4>3. CASE Intend \/ Repair
          <5>1. mem.bound
            BY <4>3 DEF Intend, Repair, CustodyInv, RecordInv, Holding
          <5>2. QED
            BY <4>1, <4>3, <5>1, JournalUpdates DEF Intend, Repair, Saves, SaveFails, Records
        <4>4. CASE Record
          <5>1. mem.bound /\ mem.outcome = "none" /\ outcome \in {"ready", "bad"}
            BY <4>4 DEF Record, CustodyInv, ControlInv, RecordInv, Holding, TypeOK
          <5>2. QED
            BY <4>1, <4>4, <5>1, JournalUpdates DEF Record, Saves, SaveFails, Records
        <4>5. QED
          BY <3>1, <4>2, <4>3, <4>4
      <3>2. CASE Done
        BY <3>2 DEF Done
      <3>3. QED
        BY <1>3, <3>1, <3>2, Frames DEF DiskSteps
    <2>3. QED
      BY <2>1, <2>2
  <1>4. QED
    BY <1>1, <1>2, <1>3

\* The commands and the execution keep the promise of ProfileCustody with their
\* journals: the owner is on disk before a container can exist and stays there
\* until none can.
THEOREM HomeHasOneOwner == Spec => ImplementsProfileCustody
  <1> USE DEF HomeOwner, HomeUsers
  <1>1. Init => Custody!Init
    BY DEF Init, Custody!Init, Mounts
  <1>2. Spec => [](CustodyInv /\ OwnedInv)
    BY CustodyAlways, UsersOwn, PTL
  <1>3. ASSUME CustodyInv, OwnedInv, OwnedInv', [Next]_vars
        PROVE  [Custody!Next]_(Custody!vars)
    <2>1. CASE HomeOwner' = HomeOwner
      BY <1>3, <2>1 DEF OwnedInv, Custody!Next, Custody!Enter, Custody!Leave, Custody!vars
    <2>2. CASE HomeOwner' # HomeOwner
      <3>1. /\ HomeUsers = {} /\ (HomeOwner = None \/ HomeOwner' = None)
            /\ HomeOwner' = None => HomeUsers' = {}
        BY <1>3, <2>2, HandsOver
      <3>2. QED
        BY <1>3, <2>2, <3>1, NamesDiffer
           DEF OwnedInv, Custody!Next, Custody!Acquire, Custody!Release, Custody!vars
    <2>3. QED
      BY <2>1, <2>2
  <1>4. QED
    BY <1>1, <1>2, <1>3, PTL DEF Spec, ImplementsProfileCustody, Custody!Spec

-----------------------------------------------------------------------------
(* A ready profile *)

Usable == active /\ home = "clean"

\* What the command holds is known to the control plane.
KnownInv ==
    /\ pc \in Holding /\ mem.bound => server[mem.op] # "new"
    /\ pending # None => (pending.bound => server[pending.op] # "new")
    /\ pc = "begin" \/ (pc = "stop" /\ mode = "recover") => mem = pending
    /\ pc = "begin" => ~mem.bound
    /\ withdrawn => ready = None

\* What a container may do to the home it does for an operation that is open.
OpenInv == \A op \in Ops : Mounts(op) => server[op] = "begun"

\* A home that the control plane counts on is intact, but for an operation that
\* is still open, or that has reported itself and is being settled.
ReadyInv ==
    /\ ready # None /\ execution => active
    /\ ready # None /\ pending = None /\ ~execution => Usable
    /\ pending # None /\ ready # None =>
          /\ server[pending.op] = "new" => Usable
          /\ server[pending.op] = "done" =>
                IF pending.bound THEN ready = pending.op
                ELSE Usable /\ (pc \in Holding => ~mem.bound)
    /\ pc \in {"done", "forget"} /\ ready # None => Usable
    /\ pc = "activate" /\ ready # None => home = "clean"
    /\ pc = "drop" => ready = None

LEMMA OpenMounts ==
  ASSUME CustodyInv, OpenInv, [Next]_vars, NEW op \in Ops, Mounts(op)'
  PROVE  server'[op] = "begun"
  <1> USE DEF CustodyInv
  <1>1. CASE Start
    BY <1>1, StartMounts DEF Start, ServerInv, authority
  <1>2. CASE ~Start
    <2>1. Mounts(op) /\ server[op] = "begun" /\ ~Unmounted
      BY <1>2, Shrinks DEF OpenInv, Unmounted
    <2>2. CASE Complete
      BY <2>1, <2>2 DEF Complete, MountInv, Running
    <2>3. CASE Begin
      BY <2>1, <2>3 DEF Begin, MountInv, Running
    <2>4. CASE Withdraw \/ AdminDisconnects \/ \E o \in Ops : AdminStops(o)
      BY <2>1, <2>4 DEF Withdraw, AdminDisconnects, AdminStops
    <2>5. QED
      BY <2>1, <2>2, <2>3, <2>4, Frames DEF ServerSteps, authority
  <1>3. QED
    BY <1>1, <1>2

LEMMA KnownStep ==
  ASSUME CustodyInv, KnownInv, [Next]_vars PROVE KnownInv'
  <1> USE HeldIsRecord DEF CustodyInv, KnownInv
  <1>1. CASE Quiet
    <2>1. UNCHANGED <<control, server>>
      BY <1>1, QuietKeeps DEF Quiet, NativeWrites, AdminDisconnects, Withdraw, Environment,
         Children, AdminStops, DockerCreates, DockerDrops, DockerStarts, ChildExpires, ChildLost,
         ChildCleans, vars, authority
    <2>2. withdrawn' => ready' = None
      BY <1>1 DEF Quiet, NativeWrites, AdminDisconnects, Withdraw, Environment,
         Children, AdminStops, DockerCreates, DockerDrops, DockerStarts, ChildExpires, ChildLost,
         ChildCleans, vars, authority
    <2>3. QED
      BY <2>1, <2>2 DEF control
  <1>2. CASE Crash \/ Reboot
    BY <1>2 DEF Crash, Reboot, End, disk, authority, Holding
  <1>3. CASE \/ \E op \in Ops, kind \in Kinds : Invoke(op, kind)
             \/ Reserve \/ Quiesce \/ ReleaseExecution
    BY <1>3 DEF Invoke, Reserve, Quiesce, ReleaseExecution, disk, process, authority,
       Holding
  <1>4. CASE Journal
    <2>1. ~NewRecord(cmd.op, cmd.kind).bound
      BY DEF NewRecord
    <2>2. /\ pending = None /\ pending' \in {None, NewRecord(cmd.op, cmd.kind)}
          /\ UNCHANGED authority /\ mem' \in {None, NewRecord(cmd.op, cmd.kind)}
          /\ pc' = "idle" \/ (pc' = "begin" /\ pending' = mem' /\ mem' # None)
      <3>1. NewRecord(cmd.op, cmd.kind) # None
        BY <1>4, NewRecordIsJournal DEF Journal, ControlInv
      <3>2. QED
        BY <1>4, <3>1 DEF Journal, Saves, SaveFails, End, ControlInv, disk
    <2>3. QED
      BY <2>1, <2>2 DEF authority, Holding
  <1>5. CASE Begin
    <2>1. mem \in Records /\ mem.op \in Ops /\ UNCHANGED pending /\ mem = pending
          /\ server \in [Ops -> {"new", "begun", "done"}]
      BY <1>5 DEF Begin, Holding, disk, TypeOK
    <2>2. server'[mem.op] # "new" \/ UNCHANGED <<authority>>
      BY <1>5, <2>1 DEF Begin, Begins
    <2>3. withdrawn' => ready' = None
      BY <1>5 DEF Begin, Begins, authority
    <2>4. \/ pc' = "idle"
          \/ pc' = "forget" /\ UNCHANGED mem
          \/ /\ mem' = [mem EXCEPT !.bound = TRUE] /\ server'[mem.op] # "new"
             /\ pc' \in {"bind", "repair"}
      <3>1. Begins(mem.op) => server'[mem.op] # "new"
        BY <2>1 DEF Begins
      <3>2. QED
        BY <1>5, <3>1 DEF Begin, Bound, Rejected, Goto, End
    <2>5. QED
      BY <1>5, <2>1, <2>2, <2>3, <2>4 DEF Begin, Holding, Records, authority
  <1>6. CASE Bind \/ Auth \/ Arm
    BY <1>6 DEF Bind, Saves, SaveFails, Auth, Arm, Goto, End, ControlInv, Holding, disk,
       authority
  <1>7. CASE Intend
    BY <1>7 DEF Intend, Saves, SaveFails, Goto, ControlInv, Holding, Records, authority
  <1>8. CASE Start \/ Await \/ StartLost \/ Native
    BY <1>8 DEF Start, Await, LostCreate, StartLost, Native, Goto, ControlInv, Holding,
       disk, authority
  <1>9. CASE Unintend
    BY <1>9 DEF Unintend, Saves, SaveFails, Goto, ControlInv, Holding, Records, authority
  <1>10. CASE Stop
    BY <1>10 DEF Stop, AfterStop, Goto, End, disk, authority, ControlInv, Holding, TypeOK
  <1>11. CASE NormalizeHome \/ Discard
    BY <1>11 DEF NormalizeHome, Discard, Goto, End, Holding, authority
  <1>12. CASE Record
    BY <1>12 DEF Record, Saves, SaveFails, Goto, End, Holding, Records, authority,
       ControlInv
  <1>13. CASE Repair
    BY <1>13 DEF Repair, Saves, SaveFails, Goto, End, Holding, Records, authority,
       ControlInv
  <1>14. CASE Complete
    <2>1. mem.op \in Ops /\ UNCHANGED pending /\ pending.op = mem.op
          /\ server \in [Ops -> {"new", "begun", "done"}]
      BY <1>14 DEF Complete, Holding, disk, TypeOK, ControlInv
    <2>2. /\ server' = server \/ server' = [server EXCEPT ![mem.op] = "done"]
          /\ withdrawn' => ready' = None
      BY <1>14 DEF Complete, Completes, authority
    <2>3. pc' \in {"idle", "activate", "drop", "done"} /\ (pc' # "idle" => UNCHANGED mem)
      BY <1>14 DEF Complete, Goto, End
    <2>4. QED
      BY <1>14, <2>1, <2>2, <2>3 DEF Complete, Holding
  <1>15. CASE Settle \/ Done \/ Forget
    BY <1>15 DEF Settle, Done, Forget, Goto, End, Holding, authority
  <1>16. QED
    BY <1>1, <1>2, <1>3, <1>4, <1>5, <1>6, <1>7, <1>8, <1>9, <1>10, <1>11, <1>12, <1>13,
       <1>14, <1>15 DEF Next, Command, Quiet

\* A container writes to the home of an operation that is open only.
LEMMA WritesOpen ==
  ASSUME CustodyInv, OpenInv, NativeWrites
  PROVE  execution \/ (pending # None /\ server[pending.op] = "begun")
  <1>1. CASE busy
    BY <1>1 DEF CustodyInv, ControlInv
  <1>2. ASSUME NEW op \in Ops, container[op] = "running"
        PROVE  pending # None /\ server[pending.op] = "begun"
    BY <1>2 DEF CustodyInv, MountInv, OpenInv, Mounts
  <1>3. QED
    BY <1>1, <1>2 DEF NativeWrites

\* No container exists where the home is settled.
LEMMA SettlesAlone ==
  ASSUME CustodyInv, pc \in {"done", "forget", "activate", "drop"} PROVE ~NativeWrites
  <1>1. \A op \in Ops : container[op] # "running"
    BY DEF CustodyInv, MountInv, Running, Unmounted, Mounts
  <1>2. ~busy
    BY DEF CustodyInv, ControlInv
  <1>3. QED
    BY <1>1, <1>2 DEF NativeWrites

\* What a report leaves of a ready profile: the one that is reported ready.
LEMMA ReportDecides ==
  ASSUME CustodyInv, KnownInv, OutcomeInv, ReadyInv, Complete
  PROVE  /\ ready' \in {ready, None, mem.op}
         /\ ready' # None /\ server'[mem.op] = "done" =>
               ready' = mem.op /\ (pending.bound \/ UNCHANGED <<server, ready>>)
         /\ pc' \in {"drop", "done"} => ready' = None
         /\ pc' = "activate" => home = "clean"
  <1> USE DEF CustodyInv
  <1>1. /\ mem.op \in Ops /\ pending # None /\ pending.op = mem.op /\ mem.bound
        /\ server[mem.op] \in {"begun", "done"} /\ pending \in Journals
        /\ server \in [Ops -> {"new", "begun", "done"}] /\ pc = "complete"
    BY HeldIsRecord DEF Complete, Holding, ControlInv, RecordInv, TypeOK, KnownInv
  <1>2. outcome = "ready" => home = "clean" /\ pending.bound
    BY <1>1 DEF OutcomeInv, Journals
  <1>3. ready # None /\ server[mem.op] = "done" => ready = mem.op /\ pending.bound
    BY <1>1 DEF ReadyInv, Holding
  <1>4. \/ /\ Completes(mem.op, outcome)
           /\ \/ pc' = "idle"
              \/ pc' = "activate" /\ ready' = mem.op /\ outcome = "ready"
              \/ pc' \in {"drop", "done"} /\ ready' # mem.op
        \/ /\ UNCHANGED authority
           /\ pc' = "idle" \/ (pc' = "drop" /\ withdrawn)
    <2>1. \/ /\ Completes(mem.op, outcome)
             /\ IF ready' = mem.op /\ outcome # "ready" THEN End("failed")
                ELSE Goto(IF ready' = mem.op THEN "activate"
                          ELSE IF mode = "reject" THEN "done" ELSE "drop")
          \/ /\ UNCHANGED authority
             /\ End("failed") \/ (Goto("drop") /\ withdrawn)
          \/ End("failed") /\ Completes(mem.op, outcome)
      BY DEF Complete
    <2>2. End("failed") => pc' = "idle"
      BY DEF End
    <2>3. CASE ready' = mem.op /\ outcome = "ready"
      BY <2>1, <2>2, <2>3 DEF Goto
    <2>4. CASE ready' = mem.op /\ outcome # "ready"
      BY <2>1, <2>2, <2>4 DEF Goto
    <2>5. CASE ready' # mem.op
      BY <2>1, <2>2, <2>5 DEF Goto
    <2>6. QED
      BY <2>3, <2>4, <2>5
  <1>5. CASE Completes(mem.op, outcome) /\ server[mem.op] = "begun"
    <2>1. /\ ready' \in {None, mem.op} /\ (ready' = mem.op => outcome = "ready")
          /\ mem.op # None
      BY <1>1, <1>5, NamesDiffer DEF Completes
    <2>2. QED
      BY <1>2, <1>4, <2>1, <1>5 DEF KnownInv, authority
  <1>6. CASE Completes(mem.op, outcome) /\ server[mem.op] = "done"
    <2>1. UNCHANGED <<server, ready>>
      BY <1>6 DEF Completes
    <2>2. QED
      BY <1>2, <1>3, <1>4, <1>6, <2>1 DEF KnownInv
  <1>7. CASE UNCHANGED authority /\ (pc' = "idle" \/ (pc' = "drop" /\ withdrawn))
    BY <1>3, <1>7 DEF authority, KnownInv
  <1>8. QED
    BY <1>1, <1>4, <1>5, <1>6, <1>7

\* Where the command holds a journal that the control plane knows, an operation
\* that is over was reported from this journal.
LEMMA HeldIsKnown ==
  ASSUME CustodyInv, KnownInv, ReadyInv, pc \in Holding, mem.bound
  PROVE  /\ pending # None /\ mem.op = pending.op /\ ~execution
         /\ server[pending.op] # "new"
         /\ ready # None /\ server[pending.op] = "done" => pending.bound /\ ready = pending.op
  <1>1. pending # None /\ mem.op = pending.op /\ ~execution
    BY DEF CustodyInv, ControlInv, Holding
  <1>2. QED
    BY <1>1 DEF KnownInv, ReadyInv

LEMMA ReadyStep ==
  ASSUME CustodyInv, OpenInv, KnownInv, OutcomeInv, ReadyInv, [Next]_vars
  PROVE  ReadyInv'
  <1> USE DEF ReadyInv, Usable
  <1>1. CASE Quiet
    <2>1. /\ UNCHANGED <<control, server, active>> /\ ready' \in {ready, None}
          /\ UNCHANGED home \/ NativeWrites
      BY <1>1, QuietKeeps DEF Quiet, NativeWrites, AdminDisconnects, Withdraw, Environment,
         Children, AdminStops, DockerCreates, DockerDrops, DockerStarts, ChildExpires, ChildLost,
         ChildCleans, vars, authority, disk, identity
    <2>2. CASE UNCHANGED home
      BY <2>1, <2>2 DEF control
    <2>3. CASE NativeWrites
      <3>1. /\ pc \notin {"done", "forget", "activate", "drop"}
            /\ execution \/ (pending # None /\ server[pending.op] = "begun")
            /\ execution => pending = None
        BY <2>3, WritesOpen, SettlesAlone DEF CustodyInv, ControlInv
      <3>2. pc \notin {"done", "forget", "activate", "drop"}'
        BY <2>1, <3>1 DEF control
      <3>3. QED
        BY <2>1, <3>1, <3>2 DEF control
    <2>4. QED
      BY <2>1, <2>2, <2>3
  <1>2. CASE Crash \/ Reboot
    BY <1>2 DEF Crash, Reboot, End, disk, identity, authority, Holding
  <1>3. CASE \E op \in Ops, kind \in Kinds : Invoke(op, kind)
    BY <1>3 DEF Invoke, disk, identity, authority, Holding
  <1>4. CASE Reserve
    BY <1>4 DEF Reserve, authority
  <1>5. CASE Quiesce
    BY <1>5 DEF Quiesce, disk, identity, process, authority
  <1>6. CASE ReleaseExecution
    BY <1>6 DEF ReleaseExecution, authority, CustodyInv, ControlInv, Holding
  <1>7. CASE Journal
    <2>1. ~NewRecord(cmd.op, cmd.kind).bound
      BY DEF NewRecord
    <2>2. /\ pending = None /\ pending' \in {None, NewRecord(cmd.op, cmd.kind)} /\ ~execution
          /\ UNCHANGED <<authority, active, home, execution>>
          /\ pc' = "idle" \/ (pc' = "begin" /\ mem' = NewRecord(cmd.op, cmd.kind))
      BY <1>7 DEF Journal, Saves, SaveFails, End, CustodyInv, ControlInv, disk, identity
    <2>3. QED
      BY <2>1, <2>2 DEF authority, Holding
  <1>8. CASE Begin
    <2>1. /\ pending # None /\ mem = pending /\ mem.op \in Ops /\ ~mem.bound /\ ~execution
          /\ UNCHANGED <<pending, execution, active, home, ready>>
          /\ server \in [Ops -> {"new", "begun", "done"}]
      BY <1>8, HeldIsRecord DEF Begin, Begins, CustodyInv, ControlInv, KnownInv, Holding, disk,
         identity, authority, TypeOK
    <2>2. server' = server \/ (server[mem.op] = "new" /\ server'[mem.op] = "begun")
      BY <1>8, <2>1 DEF Begin, Begins, authority
    <2>3. \/ pc' = "idle"
          \/ pc' = "forget" /\ UNCHANGED mem /\ server[mem.op] = "done"
          \/ pc' = "forget" /\ UNCHANGED mem /\ (withdrawn \/ server[mem.op] = "new")
          \/ pc' \in {"bind", "repair"} /\ server'[mem.op] # "done"
      <3>1. Begins(mem.op) /\ server[mem.op] # "done" => server'[mem.op] # "done"
        BY <2>1 DEF Begins
      <3>2. Begins(mem.op) /\ server'[mem.op] = "done" => server[mem.op] = "done"
        BY <2>1 DEF Begins
      <3>3. QED
        BY <1>8, <3>1, <3>2 DEF Begin, Bound, Rejected, Goto, End
    <2>4. withdrawn => ready = None
      BY DEF KnownInv
    <2>5. server'[pending.op] # "new" \/ server[pending.op] = "new"
      BY <2>1, <2>2
    <2>6. pc' \in {"idle", "forget", "bind", "repair"}
      BY <2>3
    <2>7. (ready # None /\ pc' = "forget") => Usable
      BY <2>1, <2>3, <2>4
    <2>8. ready' # None /\ server'[pending'.op] = "new" => Usable'
      BY <2>1, <2>5
    <2>9. ready' # None /\ server'[pending'.op] = "done" =>
             ~pending'.bound /\ Usable' /\ (pc' \in Holding => ~mem'.bound)
      BY <2>1, <2>2, <2>3 DEF Holding
    <2>10. QED
      BY <2>1, <2>6, <2>7, <2>8, <2>9
  <1>9. CASE Bind \/ Auth \/ Arm \/ Intend \/ Unintend
    <2>1. mem.bound /\ mem \in Records /\ pc \in Holding
      BY <1>9, HeldIsRecord DEF Bind, Auth, Arm, Intend, Unintend, CustodyInv, RecordInv, Holding
    <2>2. /\ UNCHANGED <<server, ready, execution>>
          /\ UNCHANGED pending \/ (pending' # None /\ pending'.op = mem.op /\ pending'.bound)
          /\ pc' \in {"idle", "stop", "auth", "arm", "intend", "start", "native"}
      <3>1. pending' # None
        BY <1>9, <2>1, ControlStep DEF Bind, Auth, Arm, Intend, Unintend, Saves, SaveFails,
           CustodyInv, ControlInv, Goto, Holding, disk, identity
      <3>2. QED
        BY <1>9, <2>1, <3>1 DEF Bind, Auth, Arm, Intend, Unintend, Saves, SaveFails, Goto, End,
           disk, identity, authority, Records
    <2>3. UNCHANGED <<active, home>> \/ server[mem.op] = "begun"
      BY <1>9 DEF Bind, Auth, Arm, Intend, Unintend, CustodyInv, ServerInv, disk, identity
    <2>4. QED
      BY <2>1, <2>2, <2>3, HeldIsKnown
  <1>10. CASE Start \/ Await \/ StartLost \/ Native
    BY <1>10 DEF Start, Await, LostCreate, StartLost, Native, Goto, disk, identity, authority,
       Holding
  <1>11. CASE Stop
    <2>1. /\ UNCHANGED <<disk, authority>> /\ pc' \notin {"done", "forget", "activate", "drop"}
          /\ pc' \in Holding => UNCHANGED mem
      BY <1>11 DEF Stop, AfterStop, Goto, End, CustodyInv, ControlInv, TypeOK, Holding
    <2>2. QED
      BY <1>11, <2>1 DEF Stop, disk, identity, authority, Holding
  <1>12. CASE NormalizeHome \/ Discard \/ Record \/ Repair
    <2>1. mem.bound /\ mem \in Records /\ pc \in Holding
      BY <1>12, HeldIsRecord DEF NormalizeHome, Discard, Record, Repair, CustodyInv, RecordInv,
         Holding
    <2>2. /\ UNCHANGED <<server, ready, execution>>
          /\ UNCHANGED pending \/ (pending'.op = mem.op /\ pending'.bound)
          /\ pc' \in {"idle", "record", "discard", "complete"}
      BY <1>12, <2>1 DEF NormalizeHome, Discard, Record, Repair, Saves, SaveFails, Goto, End,
         identity, authority, Records
    <2>3. pending' # None
      <3>1. CASE Record
        BY <2>1, <3>1, HeldIsRecord, JournalUpdates DEF Record, Saves, SaveFails, CustodyInv,
           ControlInv, RecordInv, Holding, TypeOK
      <3>2. CASE Repair
        BY <2>1, <3>2, HeldIsRecord, JournalUpdates DEF Repair, Saves, SaveFails, CustodyInv,
           ControlInv, Holding
      <3>3. CASE NormalizeHome \/ Discard
        BY <3>3, HeldIsKnown, <2>1 DEF NormalizeHome, Discard
      <3>4. QED
        BY <1>12, <3>1, <3>2, <3>3
    <2>4. QED
      BY <2>1, <2>2, <2>3, HeldIsKnown
  <1>13. CASE Complete
    <2>1. mem.bound /\ pc \in Holding /\ UNCHANGED <<pending, execution, active, home>>
      BY <1>13 DEF Complete, CustodyInv, RecordInv, Holding, disk, identity
    <2>2. /\ server' = server \/ server'[mem.op] = "done"
          /\ pc' \in {"idle", "activate", "drop", "done"}
      BY <1>13, HeldIsRecord DEF Complete, Completes, Goto, End, authority, Holding, CustodyInv,
         TypeOK
    <2>3. ready' # None => (server'[mem.op] = "done" => ready' = mem.op /\ pending.bound)
      BY <1>13, <2>1, ReportDecides, HeldIsKnown
    <2>4. QED
      BY <1>13, <2>1, <2>2, <2>3, ReportDecides, HeldIsKnown
  <1>14. CASE Settle
    <2>1. mem.bound /\ pc \in Holding
      BY <1>14 DEF Settle, CustodyInv, RecordInv, Holding
    <2>2. /\ UNCHANGED <<pending, execution, server, ready>>
          /\ pc' = "idle" \/ (pc' = "done" /\ (ready = None \/ (active' /\ home' = home)))
          /\ pc' = "done" /\ ready # None => home = "clean"
      BY <1>14 DEF Settle, Goto, End, authority
    <2>3. QED
      BY <2>1, <2>2, HeldIsKnown
  <1>15. CASE Done
    BY <1>15 DEF Done, Goto, End, authority, Holding
  <1>16. CASE Forget
    <2>1. pending' \in {pending, None} /\ UNCHANGED <<identity, authority>> /\ ~execution
      BY <1>16 DEF Forget, CustodyInv, ControlInv, Holding
    <2>2. pc' \in {"idle", "journal"}
      BY <1>16 DEF Forget, Goto, End
    <2>3. QED
      BY <1>16, <2>1, <2>2 DEF Forget, identity, authority, Holding
  <1>17. QED
    BY <1>1, <1>2, <1>3, <1>4, <1>5, <1>6, <1>7, <1>8, <1>9, <1>10, <1>11, <1>12, <1>13,
       <1>14, <1>15, <1>16 DEF Next, Command, Quiet

\* A profile that the control plane calls ready, with nothing left to recover, has
\* the active identity and a home that passes the check.
THEOREM ReadyProfileWorks == Spec => []ReadyIsUsable
  <1> DEFINE Inv == CustodyInv /\ OutcomeInv /\ OpenInv /\ KnownInv /\ ReadyInv
  <1>1. Init => OutcomeInv /\ OpenInv /\ KnownInv /\ ReadyInv
    BY DEF Init, OutcomeInv, OpenInv, KnownInv, ReadyInv, Mounts, Holding
  <1>2. CustodyInv /\ OpenInv /\ [Next]_vars => OpenInv'
    BY OpenMounts DEF OpenInv
  <1>3. Inv /\ [Next]_vars => OutcomeInv' /\ OpenInv' /\ KnownInv' /\ ReadyInv'
    BY <1>2, OutcomeStep, KnownStep, ReadyStep
  <1>4. Inv => ReadyIsUsable
    BY DEF ReadyInv, Usable, ReadyIsUsable
  <1>5. QED
    BY <1>1, <1>3, <1>4, CustodyAlways, PTL DEF Spec
=============================================================================
