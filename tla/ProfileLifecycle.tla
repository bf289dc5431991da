-------------------------- MODULE ProfileLifecycle --------------------------
(***************************************************************************)
(* The commands connect (login), probe and disconnect on one profile:      *)
(* their journal, their credential container, its watchdog and the control *)
(* plane, with the execution that takes turns with them on the home.       *)
(*                                                                         *)
(* A command runs under the profile lock, so one process runs at a time;   *)
(* pc is the call it makes next.  A call may fail with or without its      *)
(* effect, and the process may be killed between any two.  The Docker      *)
(* client survives its parent, so a create request may be carried out      *)
(* long after the command died.                                            *)
(***************************************************************************)
EXTENDS Naturals, FiniteSets

CONSTANTS Ops,         \* the operation identifiers an operator uses
          None, Execution,
          MaxFaults    \* bound on failed calls, crashes and reboots

Kinds == {"login", "probe", "disconnect"}

VARIABLES
    \* the profile directory
    pending, active, completed, execution, home,
    \* the process: its call, the command line, why it runs, the journal it
    \* holds in memory, its outcome, its watchdog lease and how it ended
    pc, cmd, mode, mem, outcome, lease, verdict,
    \* Docker and the watchdog's children
    container, inflight, busy, child, told,
    \* the control plane: operations, stop requests, who is active
    server, stopping, ready, withdrawn,
    faults

identity  == <<active, completed, execution, home>>
disk      == <<pending, identity>>
process   == <<pc, cmd, mode, mem, outcome, lease, verdict>>
docker    == <<container, inflight, busy>>
children  == <<child, told>>
authority == <<server, stopping, ready, withdrawn>>
vars == <<disk, process, docker, children, authority, faults>>

NewRecord(op, kind) ==
    [op |-> op, kind |-> kind, bound |-> FALSE, create |-> FALSE,
     outcome |-> "none", failed |-> FALSE]

\* The values validatePendingJournal lets through.
Journals == {r \in [op : Ops, kind : Kinds, bound : BOOLEAN, create : BOOLEAN,
                    outcome : {"none", "ready", "bad"}, failed : BOOLEAN] :
                /\ r.outcome # "none" \/ r.create => r.bound
                /\ r.failed => r.outcome = "bad"}

ASSUME LifecycleAssumption ==
    /\ None \notin Ops \cup {Execution} \cup Journals /\ Execution \notin Ops
    /\ MaxFaults \in Nat

Init == /\ pending = None /\ active = FALSE /\ completed = None
        /\ execution = FALSE /\ home = "none"
        /\ pc = "idle" /\ cmd = None /\ mode = "operate" /\ mem = None
        /\ outcome = "bad" /\ lease = FALSE /\ verdict = "none"
        /\ container = [op \in Ops |-> "absent"] /\ inflight = {} /\ busy = FALSE
        /\ child = [op \in Ops |-> "none"] /\ told = {}
        /\ server = [op \in Ops |-> "new"] /\ stopping = {} /\ ready = None
        /\ withdrawn = FALSE /\ faults = 0

-----------------------------------------------------------------------------
(* Calls and how they end *)

Fault == faults < MaxFaults /\ faults' = faults + 1
Fine  == UNCHANGED faults

Goto(label) == pc' = label /\ UNCHANGED <<cmd, mode, verdict>>

\* The command returns; what it held in memory is gone.
End(how) == /\ pc' = "idle" /\ verdict' = how
            /\ cmd' = None /\ mode' = "operate" /\ mem' = None
            /\ outcome' = "bad" /\ lease' = FALSE

\* Store.Write of pending: the replacement is atomic, its error tells nothing.
Saves(r)     == Fine /\ pending' = r
SaveFails(r) == Fault /\ pending' \in {pending, r}
\* Store.Invalidate forgets the active identity and removes the home.
Invalidate == active' = FALSE /\ home' = "none"

\* What a container of op can do to the home, now or when a request lands.
Mounts(op) == \/ container[op] \in {"created", "starting", "running"}
              \/ op \in inflight /\ container[op] = "absent"

-----------------------------------------------------------------------------
(* OperateLocked and recover, up to the container *)

\* A command line; recovery of an interrupted operation comes first.
Invoke(op, kind) ==
    /\ pc = "idle" /\ ~execution
    /\ pc' = IF pending = None THEN "journal" ELSE "stop"
    /\ mode' = IF pending = None THEN "operate" ELSE "recover"
    /\ cmd' = [op |-> op, kind |-> kind] /\ mem' = pending
    /\ verdict' = "none"
    /\ UNCHANGED <<disk, outcome, lease, docker, children, authority, faults>>

\* "Journal before begin so a lost response never hides a server reservation."
Journal ==
    LET r == NewRecord(cmd.op, cmd.kind) IN
    /\ pc = "journal"
    /\ \/ completed = cmd.op /\ End("replayed") /\ UNCHANGED <<disk, faults>>
       \/ /\ completed # cmd.op /\ Saves(r)
          /\ pc' = "begin" /\ mode' = "operate" /\ mem' = r
          /\ UNCHANGED <<identity, cmd, outcome, lease, verdict>>
       \/ /\ completed # cmd.op /\ SaveFails(r) /\ End("failed")
          /\ UNCHANGED identity
    /\ UNCHANGED <<docker, children, authority>>

\* The control plane takes an operation when no other is open.
Begins(op) ==
    /\ ~withdrawn
    /\ server[op] = "new" => \A o \in Ops : server[o] # "begun"
    /\ server' = [server EXCEPT ![op] = IF @ = "new" THEN "begun" ELSE @]
    /\ UNCHANGED <<stopping, ready, withdrawn>>

\* What an authorised binding leads to: OperateLocked journals it, recover
\* keeps it in memory only.  The mutant journals without it.
BoundUnrecorded == /\ Goto(IF mode = "operate" THEN "bind" ELSE "repair")
                   /\ UNCHANGED <<mem, outcome, lease>>
Bound == /\ Goto(IF mode = "operate" THEN "bind" ELSE "repair")
         /\ mem' = [mem EXCEPT !.bound = TRUE] /\ UNCHANGED <<outcome, lease>>

\* validateBinding refuses the answer: rejectBegin forgets an operation that
\* is over and reports one that is to stop.  The mutant reports both.
RejectedAlike == /\ UNCHANGED <<cmd, outcome, lease, verdict>>
                 /\ mode' = "reject" /\ pc' = "bind"
                 /\ mem' = [mem EXCEPT !.bound = TRUE]
Rejected == /\ UNCHANGED <<cmd, outcome, lease, verdict>>
            /\ mode' = "reject"
            /\ IF server[mem.op] = "done"
               THEN pc' = "forget" /\ UNCHANGED mem
               ELSE /\ mem.op \in stopping
                    /\ pc' = "bind" /\ mem' = [mem EXCEPT !.bound = TRUE]

\* The answer to begin, a definitive refusal (definitiveBeginStatus), or
\* neither.  recover keeps the journal of an operation that is refused.
Begin ==
    /\ pc = "begin"
    /\ \/ Begins(mem.op) /\ Fine
          /\ IF server[mem.op] = "done" \/ mem.op \in stopping
             THEN Rejected ELSE Bound
       \/ /\ \/ withdrawn /\ Fine
             \/ server[mem.op] = "new" /\ Fault
          /\ IF mode = "operate"
             THEN /\ pc' = "forget" /\ mode' = "refused"
                  /\ UNCHANGED <<cmd, mem, outcome, lease, verdict>>
             ELSE End("refused")
          /\ UNCHANGED authority
       \/ /\ Fault /\ End("failed")
          /\ Begins(mem.op) \/ UNCHANGED authority
    /\ UNCHANGED <<disk, docker, children>>

\* The journal learns the binding.
Bind ==
    /\ pc = "bind"
    /\ \/ /\ Saves(mem) /\ UNCHANGED <<mem, outcome, lease>>
          /\ Goto(IF mode = "reject" \/ mem.kind = "disconnect" THEN "stop" ELSE "auth")
       \/ SaveFails(mem) /\ End("failed")
    /\ UNCHANGED <<identity, docker, children, authority>>

\* authenticate up to the watchdog.  A login starts from an empty home, a probe
\* from the active identity; whatever fails here leads to stop with "bad".
Auth ==
    /\ pc = "auth"
    /\ \/ Goto("stop") /\ UNCHANGED <<active, home>>
       \/ mem.kind = "login" /\ Goto("arm") /\ active' = FALSE /\ home' = "clean"
       \/ /\ mem.kind = "probe" /\ active
          /\ Goto(IF home = "clean" THEN "arm" ELSE "stop")
          /\ active' = FALSE /\ UNCHANGED home
    /\ UNCHANGED <<pending, completed, execution, mem, outcome, lease, docker,
                   children, authority, faults>>

Arm == /\ pc = "arm"
       /\ \/ Fine /\ Goto("intend") /\ lease' = TRUE
             /\ child' = [child EXCEPT ![mem.op] = "watching"]
          \/ Fault /\ Goto("stop") /\ UNCHANGED <<lease, child>>
       /\ UNCHANGED <<disk, mem, outcome, told, docker, authority>>

\* "Persist the create intent immediately before Start": a failure disarms the
\* watchdog, and stopPending goes by the intent in memory.  The mutant starts
\* without it.
StartsUnintended == /\ pc = "intend" /\ Goto("start")
                    /\ UNCHANGED <<disk, mem, outcome, lease, docker, children,
                                   authority, faults>>
Intend ==
    LET r == [mem EXCEPT !.create = TRUE] IN
    /\ pc = "intend" /\ mem' = r
    /\ \/ Saves(r) /\ Goto("start") /\ UNCHANGED <<lease, children>>
       \/ /\ SaveFails(r) /\ Goto("stop") /\ lease' = FALSE
          /\ child' = [child EXCEPT ![mem.op] = "gone"] /\ UNCHANGED told
    /\ UNCHANGED <<identity, outcome, docker, authority>>

\* Runtime.Start: a plain error, an error after CreateStarted that leaves the
\* phase open (ErrCreateUncertain), or the request on its way.
Start ==
    /\ pc = "start"
    /\ \/ Fault /\ Goto("unintend") /\ UNCHANGED <<inflight, told>>
       \/ Fault /\ Goto("stop") /\ told' \in {told, told \cup {mem.op}}
          /\ UNCHANGED inflight
       \/ /\ Fine /\ Goto("await") /\ child[mem.op] = "watching"
          /\ told' = told \cup {mem.op} /\ inflight' = inflight \cup {mem.op}
       \/ /\ Fine /\ Goto("stop") /\ child[mem.op] # "watching"
          /\ UNCHANGED <<inflight, told>>
    /\ UNCHANGED <<disk, mem, outcome, lease, container, busy, child, authority>>

\* The created container is confirmed to the watchdog and its start requested.
\* Every other end of a dispatched create is uncertain; the mutant takes a lost
\* answer for a definitive one.
LostIsDefinitive == "unintend"
LostCreate       == "stop"
Await ==
    LET op == mem.op IN
    /\ pc = "await"
    /\ \/ /\ Fine /\ container[op] = "created" /\ child[op] = "watching"
          /\ Goto("clear") /\ told' = told \ {op}
          /\ container' = [container EXCEPT ![op] = "starting"]
       \/ /\ \/ Fault
             \/ Fine /\ op \notin inflight
                /\ (container[op] = "absent" \/ child[op] # "watching")
          /\ Goto(LostCreate)
          /\ UNCHANGED <<container, told>>
    /\ UNCHANGED <<disk, mem, outcome, lease, inflight, busy, child, authority>>

\* create_attempted is taken back: after a plain error of Start, whose last
\* call is the start of the container, or when the container runs.
Unintend ==
    LET r == [mem EXCEPT !.create = FALSE] IN
    /\ \/ pc = "unintend"
       \/ pc = "clear" /\ container[mem.op] # "starting"
    /\ mem' = r
    /\ \/ /\ Saves(r)
          /\ Goto(IF pc = "clear" /\ container[mem.op] = "running"
                  THEN "native" ELSE "stop")
       \/ SaveFails(r) /\ Goto("stop")
    /\ UNCHANGED <<identity, outcome, lease, docker, children, authority>>
StartLost == /\ pc = "clear" /\ Fault /\ Goto("unintend")
             /\ UNCHANGED <<disk, mem, outcome, lease, docker, children, authority>>

\* A heartbeat is answered: authorised, and the watchdog takes the renewal.
Heartbeat(op) == /\ ~withdrawn /\ server[op] = "begun" /\ op \notin stopping
                 /\ child[op] = "watching"

\* The native commands; what they did to the home is NativeWrites.  Ready needs
\* the last heartbeat.
Native ==
    /\ pc = "native" /\ Goto("stop")
    /\ outcome' \in IF Heartbeat(mem.op) /\ container[mem.op] = "running"
                    THEN {"ready", "bad"} ELSE {"bad"}
    /\ UNCHANGED <<disk, mem, lease, docker, children, authority, faults>>

-----------------------------------------------------------------------------
(* From the container to the report *)

AfterStop == CASE mode = "operate" -> IF outcome = "ready" THEN "home" ELSE "discard"
               [] mode = "recover" -> IF mem.bound THEN "repair" ELSE "begin"
               [] mode = "reject"  -> "discard"

\* stopAndDisarm.  While a create may be in flight the name is taken by a
\* tombstone that stays, and the watchdog is left to find it; otherwise the
\* container is removed and the watchdog disarmed.  Runtime.Stop refuses a
\* tombstone, which does not mount the home.  The mutant only removes.
StopOnly(op) == "absent"
Stopped(op)  == IF mem.create THEN "tombstone" ELSE "absent"
Stop ==
    LET op == mem.op IN
    /\ pc = "stop"
    /\ \/ /\ Fine /\ (mem.create \/ container[op] # "tombstone")
          /\ container' = [container EXCEPT ![op] = Stopped(op)]
          /\ child' = IF lease /\ ~mem.create
                      THEN [child EXCEPT ![op] = "gone"] ELSE child
          /\ told' = IF lease /\ ~mem.create THEN told \ {op} ELSE told
          /\ Goto(AfterStop) /\ UNCHANGED <<mem, outcome, lease>>
       \/ /\ Fine /\ ~mem.create /\ container[op] = "tombstone"
          /\ End("failed") /\ UNCHANGED <<container, children>>
       \/ /\ Fault /\ End("failed")
          /\ container' \in
                {[container EXCEPT ![op] = IF @ = "tombstone" THEN @ ELSE state] :
                    state \in {container[op], "absent", Stopped(op)}}
          /\ UNCHANGED children
    /\ UNCHANGED <<disk, inflight, busy, authority>>

\* The home after a ready authentication: NormalizeNativeHome, or it is unsafe.
NormalizeHome ==
    /\ pc = "home" /\ UNCHANGED <<mem, lease>>
    /\ \/ Fine /\ home \in {"clean", "native"} /\ home' = "clean"
          /\ Goto("record") /\ UNCHANGED outcome
       \/ /\ Fault \/ (Fine /\ home \notin {"clean", "native"})
          /\ Goto("discard") /\ outcome' = "bad" /\ UNCHANGED home
    /\ UNCHANGED <<pending, active, completed, execution, docker, children,
                   authority>>

Discard ==
    /\ pc = "discard"
    /\ \/ /\ Fine /\ Invalidate /\ UNCHANGED <<mem, outcome, lease>>
          /\ Goto(IF mode = "operate" THEN "record" ELSE "complete")
       \/ Fault /\ End("failed") /\ active' = FALSE /\ home' \in {home, "none"}
    /\ UNCHANGED <<pending, completed, execution, docker, children, authority>>

\* The outcome is durable before it is reported; the mutant reports first.
RecordLater == /\ pc = "record" /\ Goto("complete")
               /\ UNCHANGED <<disk, mem, outcome, lease, docker, children,
                              authority, faults>>
Record ==
    LET r == [mem EXCEPT !.outcome = outcome] IN
    /\ pc = "record"
    /\ \/ Saves(r) /\ Goto("complete") /\ mem' = r /\ UNCHANGED <<outcome, lease>>
       \/ SaveFails(r) /\ End("failed")
    /\ UNCHANGED <<identity, docker, children, authority>>

\* recover takes the journalled outcome up: a ready home is repaired or, when
\* that fails, given up durably before it is removed.  An operation without an
\* outcome was stopped.
Repair ==
    LET r == [mem EXCEPT !.outcome = "bad", !.failed = TRUE] IN
    /\ pc = "repair"
    /\ \/ /\ mem.outcome # "ready" /\ Fine /\ Goto("discard")
          /\ UNCHANGED <<pending, home, mem, outcome, lease>>
       \/ /\ mem.outcome = "ready" /\ Fine /\ home \in {"clean", "native"}
          /\ home' = "clean" /\ outcome' = "ready"
          /\ Goto("complete") /\ UNCHANGED <<pending, mem, lease>>
       \/ /\ mem.outcome = "ready"
          /\ home \notin {"clean", "native"} \/ faults < MaxFaults
          /\ UNCHANGED home
          /\ \/ Saves(r) /\ Goto("discard") /\ mem' = r /\ UNCHANGED <<outcome, lease>>
             \/ SaveFails(r) /\ End("failed")
    /\ UNCHANGED <<active, completed, execution, docker, children, authority>>

\* The control plane takes the first report of an operation: ready without a
\* stop request makes the profile active, anything else makes it inactive.
Completes(op, how) ==
    /\ ~withdrawn
    /\ IF server[op] = "begun"
       THEN /\ server' = [server EXCEPT ![op] = "done"]
            /\ ready' = IF how = "ready" /\ op \notin stopping THEN op ELSE None
       ELSE UNCHANGED <<server, ready>>
    /\ UNCHANGED <<stopping, withdrawn>>

\* The answer to the report.  Not active: the home goes.  Active for an outcome
\* that is not ready: refused (validateCompletionResponse).  recover takes a 404
\* for an inactive profile.
Complete ==
    LET op == mem.op
        confirmed == ready' = op IN
    /\ pc = "complete"
    /\ \/ /\ Fine /\ Completes(op, outcome)
          /\ IF confirmed /\ outcome # "ready" THEN End("failed")
             ELSE /\ UNCHANGED <<mem, outcome, lease>>
                  /\ Goto(IF confirmed THEN "activate"
                          ELSE IF mode = "reject" THEN "done" ELSE "drop")
       \/ /\ Fine /\ withdrawn /\ UNCHANGED authority
          /\ IF mode = "recover" THEN Goto("drop") /\ UNCHANGED <<mem, outcome, lease>>
                                 ELSE End("failed")
       \/ /\ Fault /\ End("failed")
          /\ Completes(op, outcome) \/ UNCHANGED authority
    /\ UNCHANGED <<disk, docker, children>>

\* Write active, or Invalidate once more.
Settle ==
    /\ pc \in {"activate", "drop"}
    /\ \/ /\ Fine /\ Goto("done") /\ UNCHANGED <<mem, outcome, lease>>
          /\ IF pc = "drop" THEN Invalidate ELSE active' = TRUE /\ UNCHANGED home
       \/ /\ Fault /\ End("failed")
          /\ active' \in {active, pc = "activate"}
          /\ home' \in IF pc = "drop" THEN {home, "none"} ELSE {home}
    /\ UNCHANGED <<pending, completed, execution, docker, children, authority>>

Done ==
    /\ pc = "done"
    /\ \/ /\ Fine /\ completed' = mem.op
          /\ Goto("forget") /\ UNCHANGED <<mem, outcome, lease>>
       \/ Fault /\ End("failed") /\ completed' \in {completed, mem.op}
    /\ UNCHANGED <<pending, active, execution, home, docker, children, authority>>

\* After recovery the command goes on with its own operation.
Forget ==
    /\ pc = "forget"
    /\ \/ /\ Fine /\ pending' = None
          /\ IF mode = "recover"
             THEN /\ Goto("journal") /\ mem' = None
                  /\ outcome' = "bad" /\ UNCHANGED lease
             ELSE End(IF mode = "operate" THEN "ok" ELSE mode)
       \/ Fault /\ End("failed") /\ pending' \in {pending, None}
    /\ UNCHANGED <<identity, docker, children, authority>>

-----------------------------------------------------------------------------
(* The execution of a run on the same profile *)

\* validateExecutionProfile and ReserveExecution.
Reserve ==
    /\ pc = "idle" /\ active /\ ~execution /\ pending = None
    /\ home \in {"clean", "native"}
    /\ home' = "clean" /\ execution' = TRUE /\ busy' = TRUE /\ pc' = "execute"
    /\ UNCHANGED <<pending, active, completed, cmd, mode, mem, outcome, lease,
                   verdict, container, inflight, children, authority, faults>>

\* Cleanup, by the executor itself or by the runner that comes after it.
Quiesce ==
    /\ busy /\ (pc = "execute" \/ (pc = "idle" /\ execution))
    /\ busy' = FALSE
    /\ UNCHANGED <<disk, process, container, inflight, children, authority, faults>>

\* ReleaseExecution: an unsafe home keeps the reservation.
ReleaseExecution ==
    /\ execution /\ ~busy /\ pc \in {"execute", "idle"}
    /\ pc' = "idle"
    /\ IF home \in {"clean", "native"}
       THEN execution' = FALSE /\ home' = "clean"
       ELSE UNCHANGED <<execution, home>>
    /\ UNCHANGED <<pending, active, completed, cmd, mode, mem, outcome, lease,
                   verdict, docker, children, authority, faults>>

-----------------------------------------------------------------------------
(* Docker, the watchdog's children, the control plane *)

\* A create request is carried out, or fails because the name is taken or for
\* reasons of its own; a start request is carried out.
DockerCreates(op) ==
    /\ op \in inflight
    /\ container' = [container EXCEPT ![op] = IF @ = "absent" THEN "created" ELSE @]
    /\ inflight' = inflight \ {op}
    /\ UNCHANGED <<disk, process, busy, children, authority, faults>>
DockerDrops(op) ==
    /\ op \in inflight /\ inflight' = inflight \ {op}
    /\ UNCHANGED <<disk, process, container, busy, children, authority, faults>>
DockerStarts(op) ==
    /\ container[op] = "starting"
    /\ container' = [container EXCEPT ![op] = "running"]
    /\ UNCHANGED <<disk, process, inflight, busy, children, authority, faults>>

\* A native process leaves files of its own in the home, some of them unsafe.
NativeWrites ==
    /\ home # "none" /\ (busy \/ \E op \in Ops : container[op] = "running")
    /\ home' \in {"native", "unsafe"}
    /\ UNCHANGED <<pending, active, completed, execution, process, docker,
                   children, authority, faults>>

\* The lease or the deadline is over, or the parent is gone.
ChildExpires(op) ==
    /\ child[op] = "watching"
    /\ child' = [child EXCEPT ![op] = "cleaning"]
    /\ UNCHANGED <<disk, process, docker, told, authority, faults>>

\* A child that reads a phase of a command that has died since cannot write its
\* ACK, and is gone with nothing cleaned up.  Which children have a phase left to
\* read is not kept: any whose command is gone may go this way.
ChildLost(op) ==
    /\ child[op] = "watching" /\ ~(lease /\ mem.op = op)
    /\ child' = [child EXCEPT ![op] = "gone"]
    /\ UNCHANGED <<disk, process, docker, told, authority, faults>>

\* cleanupProfileWatchdogSandbox: a tombstone ends it, a container is removed,
\* and a create it was told of keeps it looking.
NothingLeft(op) == \/ container[op] = "tombstone"
                   \/ container[op] = "absent" /\ op \notin told
ChildCleans(op) ==
    /\ child[op] = "cleaning"
    /\ \/ NothingLeft(op) /\ UNCHANGED container
       \/ /\ container[op] \in {"created", "starting", "running"}
          /\ container' = [container EXCEPT ![op] = "absent"]
    /\ child' = [child EXCEPT ![op] = "gone"]
    /\ UNCHANGED <<disk, process, inflight, busy, told, authority, faults>>

\* An administrator, or a lapsed lease, stops an operation or the profile, and
\* may delete it once nothing is active.
AdminStops(op) ==
    /\ server[op] = "begun" /\ op \notin stopping
    /\ stopping' = stopping \cup {op}
    /\ UNCHANGED <<disk, process, docker, children, server, ready, withdrawn, faults>>
AdminDisconnects ==
    /\ ready # None /\ ready' = None
    /\ UNCHANGED <<disk, process, docker, children, server, stopping, withdrawn, faults>>
Withdraw ==
    /\ ~withdrawn
    /\ withdrawn' = TRUE /\ ready' = None
    /\ UNCHANGED <<disk, process, docker, children, server, stopping, faults>>

Crash == /\ pc # "idle" /\ Fault /\ End("killed")
         /\ UNCHANGED <<disk, docker, children, authority>>

Reboot == /\ Fault /\ End("killed")
          /\ container' = [op \in Ops |-> IF container[op] \in {"starting", "running"}
                                          THEN "created" ELSE container[op]]
          /\ inflight' = {} /\ busy' = FALSE
          /\ child' = [op \in Ops |-> IF child[op] = "none" THEN "none" ELSE "gone"]
          /\ UNCHANGED <<disk, told, authority>>

-----------------------------------------------------------------------------
Command == \/ Journal \/ Begin \/ Bind \/ Auth \/ Arm \/ Intend \/ Start \/ Await
           \/ Unintend \/ StartLost \/ Native \/ Stop \/ NormalizeHome \/ Discard \/ Record
           \/ Repair \/ Complete \/ Settle \/ Done \/ Forget

Environment(op) == DockerCreates(op) \/ DockerDrops(op) \/ DockerStarts(op)
Children(op)    == ChildExpires(op) \/ ChildLost(op) \/ ChildCleans(op)

Next == \/ \E op \in Ops, kind \in Kinds : Invoke(op, kind)
        \/ Command \/ Reserve \/ Quiesce \/ ReleaseExecution
        \/ \E op \in Ops : Environment(op) \/ Children(op) \/ AdminStops(op)
        \/ NativeWrites \/ AdminDisconnects \/ Withdraw \/ Crash \/ Reboot

Spec == Init /\ [][Next]_vars

\* Docker answers, the child is an independent process that polls, and the
\* operator repeats an interrupted command (runner/README.md).
Repeats == pending # None /\ \E op \in Ops, kind \in Kinds : Invoke(op, kind)

FairSpec == /\ Spec /\ WF_vars(Command) /\ WF_vars(Repeats)
            /\ \A op \in Ops : /\ WF_vars(Environment(op))
                               /\ WF_vars(Children(op))
            /\ WF_vars(Quiesce) /\ WF_vars(ReleaseExecution)

-----------------------------------------------------------------------------
(* Properties *)

\* Every variable keeps its type; the journal is one that validatePendingJournal
\* accepts, so that recovery can always read it.
TypeOK ==
    /\ pending \in Journals \cup {None} /\ active \in BOOLEAN
    /\ completed \in Ops \cup {None} /\ execution \in BOOLEAN
    /\ home \in {"none", "clean", "native", "unsafe"}
    /\ mem \in Journals \cup {None} /\ outcome \in {"ready", "bad"}
    /\ mode \in {"operate", "recover", "reject", "refused"} /\ lease \in BOOLEAN
    /\ container \in [Ops -> {"absent", "created", "starting", "running", "tombstone"}]
    /\ child \in [Ops -> {"none", "watching", "cleaning", "gone"}]
    /\ inflight \subseteq Ops /\ told \subseteq Ops
    /\ server \in [Ops -> {"new", "begun", "done"}]
    /\ ready \in Ops \cup {None} /\ faults \in 0 .. MaxFaults

\* The owner is named on disk before a container can exist, and stays named
\* until none can (ProfileCustody).
Custody == INSTANCE ProfileCustody WITH
    Owners  <- Ops \cup {Execution}, NoOwner <- None,
    owner   <- IF execution THEN Execution
               ELSE IF pending = None THEN None ELSE pending.op,
    users   <- {op \in Ops : Mounts(op)} \cup IF busy THEN {Execution} ELSE {}
ImplementsProfileCustody == Custody!Spec

\* An operation the control plane was told is stopped has no container, and a
\* create request that is still on its way finds its name taken.
StoppedMeansUnmounted ==
    TypeOK /\ \A op \in Ops : server[op] = "done" => ~Mounts(op)

\* A profile the control plane calls ready, with nothing left to recover, has
\* the active identity and a home the strict check accepts.
ReadyIsUsable ==
    ready # None /\ pending = None /\ ~execution => active /\ home = "clean"

\* Credentials are not removed under a container that uses them.
RemovedUnused ==
    [][home # "none" /\ home' = "none" => ~busy /\ \A op \in Ops : ~Mounts(op)]_vars

\* A profile becomes ready only on an outcome that is on disk, with a home that
\* passed the check: "A lost successful acknowledgement is retried with the
\* original durable outcome" (runner/README.md).
ReadyIsDurable ==
    [][ready' \notin {None, ready} =>
          /\ pending # None /\ pending.op = ready' /\ pending.outcome = "ready"
          /\ home = "clean"]_vars

\* "Restart by repeating the command with the original operation ID to
\* reconcile interrupted cleanup/acknowledgement" (runner/README.md), unless the
\* credentials were lost while the control plane counts on them, or it has
\* deleted the profile.
LostButReady == pending # None /\ pending.failed /\ ready = pending.op
RecoveryEnds == pending # None ~> pending = None \/ LostButReady \/ withdrawn

\* The same where the name of the operation's container is not held by a
\* tombstone that the journal does not know of.
Fenced == /\ pending # None /\ ~pending.create
          /\ container[pending.op] = "tombstone"
RecoveryEndsUnfenced == pending # None ~> \/ pending = None \/ LostButReady
                                        \/ withdrawn \/ Fenced

\* A watchdog's child that has begun to clean up ends, even when the create
\* it waits for never happens: recovery leaves it a tombstone.
ChildEnds == \A op \in Ops : child[op] = "cleaning" ~> child[op] # "cleaning" \/ withdrawn

\* "Definitive rejected begins do not leave a local journal."  (runner/README.md)
RefusedLeavesNothing == pc = "idle" /\ verdict = "refused" => pending = None
=============================================================================
