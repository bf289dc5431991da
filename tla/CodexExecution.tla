--------------------------- MODULE CodexExecution ---------------------------
(***************************************************************************)
(* One Codex execution: profileExecutor and its reservation of the         *)
(* profile, Executor and its watchdog lease, and DockerTransport, which    *)
(* sets up, uses and removes a memory volume and three containers with one *)
(* Docker call each.  Beside it: the watchdog's child, which removes the   *)
(* same resources on a clock of its own, and the supervisor, which asks    *)
(* for cleanup until it succeeds, in this process or the next.             *)
(*                                                                         *)
(* Any call may fail with or without its effect, and the process may be    *)
(* killed between any two, also between a phase it sends to the child and  *)
(* the acknowledgement.                                                    *)
(***************************************************************************)
EXTENDS Naturals, Sequences

CONSTANTS Bound,       \* consecutiveRunnerFailureBound (FailureBreaker)
          MaxFaults,   \* bound on failed calls, crashes and reboots
          Execution, Nobody

ASSUME ExecutionAssumption == /\ Bound \in Nat \ {0} /\ MaxFaults \in Nat
                              /\ Execution # Nobody

VARIABLES
    \* the process: what it is doing, the calls left to make, what a cleanup
    \* pass is for and whether it missed something, how often cleanup failed
    pc, review, todo, purpose, missed, tries,
    prompt,    \* Docker never carries out a create after its client died
    lease,     \* its watchdog lease: "none", "quiet", "told", "closed"
    patch,     \* what the collector read
    lapsed,    \* the attempt's context is over
    marker,    \* the profile's execution journal
    resource,  \* what Docker has
    pending,   \* creates Docker has yet to carry out
    content,   \* the volume holds the sources
    child,     \* the watchdog: "none", "watching", "cleaning"; "gone", "failed"
               \* with an error, or "lost" without a cleanup
    left,      \* what a pass of its cleanup has yet to look at
    told,      \* it knows of creates in flight
    unread,    \* phases sent to it that it has not read
    faults

attempt  == <<review, prompt, patch>>
pass     == <<todo, purpose, missed>>
process  == <<pc, attempt, pass, tries, lease>>
docker   == <<resource, pending, content>>
watchdog == <<child, left, told, unread>>
vars == <<process, lapsed, marker, docker, watchdog, faults>>

Containers == {"native", "repo", "diff"}
Resources  == Containers \cup {"volume"}
Sweep      == <<"native", "repo", "diff", "volume">>

\* The order of the child.  One mutant takes the sources away first, the other
\* forgets the repository.
RepositoryFirst   == <<"repo", "native", "diff", "volume">>
WithoutRepository == <<"native", "diff", "volume">>
ChildSweep        == <<"native", "repo", "diff", "volume">>

Call(verb, on) == [verb |-> verb, on |-> on]

\* The calls of Start.  A review's snapshot writer stays until the repository
\* container has started, "or Docker empties the tmpfs volume".  The mutant
\* removes it first.
WriterFirst ==
    << Call("create", "volume"), Call("create", "native"),
       Call("create", "diff"), Call("start", "diff"), Call("fill", "diff"),
       Call("create", "repo"), Call("remove", "diff"),
       Call("start", "native"), Call("start", "repo") >>
Setup ==
    IF review
    THEN << Call("create", "volume"), Call("create", "native"),
            Call("create", "diff"), Call("start", "diff"), Call("fill", "diff"),
            Call("create", "repo"), Call("start", "native"),
            Call("start", "repo"), Call("remove", "diff") >>
    ELSE << Call("create", "volume"), Call("create", "native"),
            Call("create", "repo"), Call("start", "native"),
            Call("start", "repo"), Call("fill", "repo") >>

\* The calls of CollectPatch; the mutant leaves the repository running.
Unfrozen   == << Call("create", "diff"), Call("start", "diff"), Call("read", "diff") >>
Collection == << Call("pause", "repo"), Call("create", "diff"),
                 Call("start", "diff"), Call("read", "diff") >>

Init == /\ pc = "idle" /\ review \in BOOLEAN /\ prompt \in BOOLEAN
        /\ patch = "none"
        /\ todo = <<>> /\ purpose = "none" /\ missed = FALSE /\ tries = 0
        /\ lease = "none" /\ lapsed = FALSE /\ marker = FALSE
        /\ resource = [r \in Resources |-> "absent"]
        /\ pending = {} /\ content = FALSE
        /\ child = "none" /\ left = <<>> /\ told = FALSE /\ unread = {}
        /\ faults = 0

-----------------------------------------------------------------------------
(* Calls and how they end *)

Fault == faults < MaxFaults /\ faults' = faults + 1
Fine  == UNCHANGED faults

Goto(label) == pc' = label /\ UNCHANGED pass

\* A cleanup pass over every container, and the volume after them.
Clean(why) == /\ pc' = "clean" /\ purpose' = why
              /\ todo' = Sweep /\ missed' = FALSE

\* What Docker answers a call with success for, and what the call makes of it.
\* A "foreign" volume lacks the labels of the execution.
States == {"absent", "created", "running", "paused", "foreign"}
Needs == [create |-> {"absent"}, start |-> {"created"}, pause |-> {"running"},
          fill |-> {"running"}, read |-> {"running"}, remove |-> States]
Gives == [create |-> "created", start |-> "running", pause |-> "paused",
          fill |-> "running", read |-> "running", remove |-> "absent"]

\* A memory volume keeps its files while a container that mounts it runs.
Mounts == {"repo", "diff"}
Becomes(rs, filled) ==
    /\ resource' = rs
    /\ content' = (filled /\ \/ rs["volume"] = "foreign"
                             \/ \E c \in Mounts : rs[c] \in {"running", "paused"})
Removes(r) == Becomes([resource EXCEPT ![r] = "absent"], content)

\* Docker makes a volume of its own for a container that mounts one that is
\* not there.
Given(r, state) ==
    LET rs == [resource EXCEPT ![r] = state] IN
    IF state = "created" /\ r \in Mounts /\ rs["volume"] = "absent"
    THEN [rs EXCEPT !["volume"] = "foreign"] ELSE rs

Possible(call) == resource[call.on] \in Needs[call.verb]
Works(call) ==
    /\ Possible(call)
    /\ Becomes(Given(call.on, Gives[call.verb]), content \/ call.verb = "fill")

\* The client of a create is killed and the request is carried out later.
Late(call) == /\ ~prompt /\ call.verb = "create"
              /\ pending' = pending \cup {call.on} /\ UNCHANGED <<resource, content>>

\* What a failed call leaves; once the context is over it is not made at all.
Fails(call) ==
    \/ /\ lapsed \/ ~Possible(call)
       /\ Fine /\ UNCHANGED docker
    \/ /\ ~lapsed /\ Fault
       /\ \/ UNCHANGED docker
          \/ Works(call) /\ UNCHANGED pending
          \/ Late(call)

-----------------------------------------------------------------------------
(* profileExecutor.Execute and Executor.Execute *)

\* The reservation is on disk before anything else exists.
Reserve ==
    /\ pc = "idle"
    /\ \/ Fine /\ marker' = TRUE /\ Goto("arm")
       \/ Fault /\ marker' \in BOOLEAN /\ Goto("failed")
    /\ UNCHANGED <<attempt, tries, lease, lapsed, docker, watchdog>>

Arm ==
    /\ pc = "arm"
    /\ \/ Fine /\ child' = "watching" /\ lease' = "quiet" /\ Goto("tell")
       \/ Fault /\ Clean("outer") /\ UNCHANGED <<child, lease>>
    /\ UNCHANGED <<attempt, tries, lapsed, marker, docker, left, told, unread>>

\* A phase goes to the child while it watches, and its acknowledgement comes
\* back once it read the phase; a child that cleans up or is over reads nothing,
\* and the wait for one that watches may time out.
Sends(phase) == /\ child = "watching" /\ unread' = unread \cup {phase}
                /\ UNCHANGED <<child, left, told>>
Acknowledged(phase) == phase \notin unread /\ Fine
Unanswered(phase)   == phase \in unread /\ ((child # "watching" /\ Fine) \/ Fault)

\* CreateStarted: the child must keep looking until the creates are settled.
Tell ==
    /\ pc = "tell" /\ Fine /\ lease' = "told"
    /\ \/ Sends("started") /\ Goto("tell_ack")
       \/ child # "watching" /\ UNCHANGED watchdog /\ Clean("outer")
    /\ UNCHANGED <<attempt, tries, lapsed, marker, docker>>

TellAck ==
    /\ pc = "tell_ack"
    /\ \/ /\ Acknowledged("started")
          /\ pc' = "setup" /\ todo' = Setup /\ UNCHANGED <<purpose, missed>>
       \/ Unanswered("started") /\ Clean("outer")
    /\ UNCHANGED <<attempt, tries, lease, lapsed, marker, docker, watchdog>>

\* Start makes its calls in order; the first failure removes everything again.
Start ==
    /\ pc = "setup"
    /\ \/ /\ todo # <<>> /\ ~lapsed /\ Fine /\ Works(Head(todo))
          /\ todo' = Tail(todo) /\ UNCHANGED <<pc, purpose, missed, pending>>
       \/ todo # <<>> /\ Fails(Head(todo)) /\ Clean("setup")
       \/ todo = <<>> /\ Fine /\ Goto("settle") /\ UNCHANGED docker
    /\ UNCHANGED <<attempt, tries, lease, lapsed, marker, watchdog>>

\* CreateFinished: nothing is in flight any more.  After a failed Start the
\* attempt ends here, whatever the child answers.
Settle ==
    /\ pc \in {"settle", "unsettle"} /\ Fine
    /\ \/ /\ Sends("finished")
          /\ Goto(IF pc = "settle" THEN "settle_ack" ELSE "unsettle_ack")
       \/ child # "watching" /\ UNCHANGED watchdog /\ Clean("outer")
    /\ UNCHANGED <<attempt, tries, lease, lapsed, marker, docker>>

SettleAck ==
    /\ pc \in {"settle_ack", "unsettle_ack"}
    /\ \/ /\ Acknowledged("finished") /\ lease' = "quiet"
          /\ IF pc = "settle_ack" THEN Goto("native") ELSE Clean("outer")
       \/ Unanswered("finished") /\ UNCHANGED lease /\ Clean("outer")
    /\ UNCHANGED <<attempt, tries, lapsed, marker, docker, watchdog>>

\* The native commands.  A result without changes, or a failure of the native
\* process, returns; changes are collected; a context that ends or a bridge
\* request that is refused stops the transport first.
Native ==
    /\ pc = "native"
    /\ \/ ~lapsed /\ Clean("outer")
       \/ /\ ~lapsed /\ ~review
          /\ pc' = "collect" /\ todo' = Collection /\ UNCHANGED <<purpose, missed>>
       \/ Clean("native")
    /\ UNCHANGED <<attempt, tries, lease, lapsed, marker, docker, watchdog, faults>>

\* CollectPatch: the mediator is sealed, the repository frozen, and a third
\* container reads the volume.
CollectPatch ==
    /\ pc = "collect"
    /\ \/ /\ todo # <<>> /\ ~lapsed /\ Fine /\ Works(Head(todo))
          /\ todo' = Tail(todo) /\ UNCHANGED <<pc, purpose, missed, pending>>
          /\ patch' = IF Head(todo).verb = "read"
                      THEN IF ~content THEN "empty"
                           ELSE IF resource["repo"] = "running" THEN "moving" ELSE "sources"
                      ELSE patch
       \/ todo # <<>> /\ Fails(Head(todo)) /\ Clean("collect") /\ UNCHANGED patch
       \/ todo = <<>> /\ Fine /\ Clean("outer") /\ UNCHANGED <<patch, docker>>
    /\ UNCHANGED <<review, prompt, tries, lease, lapsed, marker, watchdog>>

-----------------------------------------------------------------------------
(* DockerTransport.cleanup, Executor.Cleanup, profileExecutor.Cleanup *)

\* Docker keeps a volume that a container mounts, and nobody removes one that is
\* not labelled as the execution's.
Removable(r) == r = "volume" => /\ resource[r] # "foreign"
                                /\ \A c \in Mounts : resource[c] = "absent"

\* Each resource is inspected, removed and inspected again; the volume only
\* when every container is confirmed absent.
Sweeps ==
    LET r == Head(todo) IN
    /\ pc = "clean" /\ todo # <<>> /\ todo' = Tail(todo)
    /\ \/ /\ Fine /\ Removable(r) /\ (r = "volume" => ~missed)
          /\ Removes(r) /\ UNCHANGED missed
       \/ /\ Fine /\ r = "volume" /\ (missed \/ ~Removable(r))
          /\ missed' = TRUE /\ UNCHANGED <<resource, content>>
       \/ /\ Fault /\ missed' = TRUE
          /\ UNCHANGED <<resource, content>> \/ (Removable(r) /\ Removes(r))
    /\ UNCHANGED <<pc, attempt, purpose, tries, lease, lapsed, marker, pending, watchdog>>

\* What a pass leads to.  After a Start whose cleanup is not confirmed nobody
\* tells the child that its creates are settled.  The mutant lets an
\* unconfirmed cleanup pass for a confirmed one.
Confirmed == IF lease = "none" THEN "release" ELSE "disarm"
SweptAnyway == /\ pc = "clean" /\ todo = <<>>
               /\ IF purpose = "outer" THEN Goto(Confirmed) ELSE Clean("outer")
               /\ UNCHANGED <<attempt, tries, lease, lapsed, marker, docker, watchdog, faults>>
Swept ==
    /\ pc = "clean" /\ todo = <<>>
    /\ CASE purpose = "outer" -> Goto(IF missed THEN "failed" ELSE Confirmed)
         [] purpose = "setup" /\ ~missed -> Goto("unsettle")
         [] OTHER -> Clean("outer")
    /\ UNCHANGED <<attempt, tries, lease, lapsed, marker, docker, watchdog, faults>>

\* Lease.Disarm: refused while creates are in flight and once it was closed.
\* It sweeps once more itself, tells the child and waits for it to end.
Disarm ==
    /\ pc = "disarm"
    /\ \/ /\ lease \in {"told", "closed"} /\ Fine /\ Goto("failed")
          /\ UNCHANGED <<lease, docker, child>>
       \/ /\ lease = "quiet" /\ Fault /\ Goto("failed")
          /\ UNCHANGED <<lease, docker, child>>
       \/ /\ lease = "quiet" /\ Fine /\ resource["volume"] = "foreign"
          /\ Becomes([r \in Resources |-> IF r = "volume" THEN resource[r] ELSE "absent"],
                     content)
          /\ Goto("failed") /\ UNCHANGED <<lease, pending, child>>
       \/ /\ lease = "quiet" /\ Fine /\ resource["volume"] # "foreign"
          /\ Becomes([r \in Resources |-> "absent"], FALSE) /\ UNCHANGED pending
          /\ \/ /\ child \notin {"cleaning", "failed"} /\ child' = "gone"
                /\ lease' = "none" /\ Goto("release")
             \/ /\ child \in {"cleaning", "failed"} /\ UNCHANGED child
                /\ lease' = "closed" /\ Goto("failed")
    /\ UNCHANGED <<attempt, tries, lapsed, marker, left, told, unread>>

\* ReleaseExecution, if the journal is this execution's; an unsafe home or a
\* failed removal keeps it.
ReleaseExecution ==
    /\ pc = "release"
    /\ \/ Fine /\ marker' = FALSE /\ Goto("done")
       \/ marker /\ Fault /\ marker' \in BOOLEAN /\ Goto("failed")
    /\ UNCHANGED <<attempt, tries, lease, lapsed, docker, watchdog>>

-----------------------------------------------------------------------------
(* The supervisor, the process and its host *)

\* RunOnce again, until the breaker ends the process.  One mutant does not
\* count, the other does not stop.
RetryPastBound == /\ pc = "failed" /\ tries' = tries + 1 /\ Clean("outer")
                  /\ UNCHANGED <<attempt, lease, lapsed, marker, docker, watchdog, faults>>
RetryForEver == /\ pc = "failed" /\ Clean("outer")
                /\ UNCHANGED <<attempt, tries, lease, lapsed, marker, docker, watchdog, faults>>
Retry == /\ pc = "failed" /\ tries < Bound /\ tries' = tries + 1 /\ Clean("outer")
         /\ UNCHANGED <<attempt, lease, lapsed, marker, docker, watchdog, faults>>

Dies == pc' = "dead" /\ lease' = "none" /\ tries' = 0 /\ UNCHANGED <<attempt, pass>>

GiveUp == /\ pc = "failed" /\ tries = Bound /\ Dies
          /\ UNCHANGED <<lapsed, marker, docker, watchdog, faults>>

Crash == /\ pc \notin {"idle", "dead", "done"} /\ Fault /\ Dies
         /\ UNCHANGED <<lapsed, marker, docker, watchdog>>

Reboot == /\ pc \notin {"idle", "done"} /\ Fault /\ Dies
          /\ Becomes([r \in Resources |->
                         IF resource[r] \in {"absent", "foreign"} THEN resource[r]
                         ELSE "created"], content)
          /\ pending' = {} /\ unread' = {}
          /\ child' = IF child = "none" THEN "none" ELSE "gone"
          /\ UNCHANGED <<lapsed, marker, left, told>>

\* CleanupDockerTransport: nothing is left of the transport and its lease.
Restart == /\ pc = "dead" /\ Clean("outer")
           /\ UNCHANGED <<attempt, tries, lease, lapsed, marker, docker, watchdog, faults>>

\* A lapsed lease, a cancelled attempt or a signal.
Lapse == /\ ~lapsed
         /\ pc \in {"arm", "tell", "tell_ack", "setup", "settle", "settle_ack",
                   "native", "collect"}
         /\ lapsed' = TRUE
         /\ UNCHANGED <<process, marker, docker, watchdog, faults>>

-----------------------------------------------------------------------------
(* The watchdog's child, and Docker *)

\* The child reads the phases in order and acknowledges each.  Once the runner
\* is gone the acknowledgement fails, and the child ends without a cleanup.
Connected == lease # "none"
ChildReads ==
    /\ child = "watching"
    /\ \E phase \in unread :
          /\ phase = "finished" => "started" \notin unread
          /\ IF Connected
             THEN /\ told' = (phase = "started") /\ unread' = unread \ {phase}
                  /\ UNCHANGED child
             ELSE child' = "lost" /\ unread' = {} /\ UNCHANGED told
    /\ UNCHANGED <<process, lapsed, marker, docker, left, faults>>

\* The parent is gone, or its lease is over: the one of the claim, which no
\* heartbeat before the arming renewed, so that it may be while the attempt goes on.
ChildExpires ==
    /\ child = "watching" /\ child' = "cleaning" /\ left' = ChildSweep
    /\ UNCHANGED <<process, lapsed, marker, docker, told, unread, faults>>

\* cleanupCodexWatchdog tries a container again until it is absent, a volume
\* once; having removed the volume it takes the creates for settled and looks
\* again.  Without a volume it looks again while it was told of creates.
ChildSweeps ==
    LET r == Head(left) IN
    /\ child = "cleaning" /\ UNCHANGED <<pending, unread>>
    /\ \/ /\ r # "volume" /\ Fine /\ Removes(r)
          /\ left' = Tail(left) /\ UNCHANGED <<child, told>>
       \/ /\ r = "volume" /\ resource[r] # "absent" /\ Removable(r) /\ Fine
          /\ Removes(r) /\ left' = ChildSweep /\ told' = FALSE /\ UNCHANGED child
       \/ /\ r = "volume" /\ resource[r] = "absent" /\ Fine
          /\ IF told THEN left' = ChildSweep /\ UNCHANGED child
                     ELSE child' = "gone" /\ UNCHANGED left
          /\ UNCHANGED <<resource, content, told>>
       \/ /\ r = "volume" /\ child' = "failed" /\ UNCHANGED <<left, told>>
          /\ \/ /\ resource[r] # "absent" /\ ~Removable(r)
                /\ Fine /\ UNCHANGED <<resource, content>>
             \/ Fault /\ (UNCHANGED <<resource, content>> \/ (Removable(r) /\ Removes(r)))
    /\ UNCHANGED <<process, lapsed, marker>>

\* A create is carried out, or fails: its name is taken, or for other reasons.
Lands(r) ==
    /\ r \in pending /\ pending' = pending \ {r}
    /\ resource[r] = "absent" /\ Becomes(Given(r, "created"), content)
    /\ UNCHANGED <<process, lapsed, marker, watchdog, faults>>
Drops(r) ==
    /\ r \in pending /\ pending' = pending \ {r}
    /\ UNCHANGED <<process, lapsed, marker, resource, content, watchdog, faults>>

-----------------------------------------------------------------------------
Process == \/ Reserve \/ Arm \/ Tell \/ TellAck \/ Start \/ Settle \/ SettleAck
           \/ Native \/ CollectPatch \/ Sweeps \/ Swept \/ Disarm \/ ReleaseExecution
           \/ Retry \/ GiveUp \/ Restart
Child   == ChildReads \/ ChildExpires \/ ChildSweeps

Next == \/ Process \/ Child \/ Crash \/ Reboot \/ Lapse
        \/ \E r \in Resources : Lands(r) \/ Drops(r)

Spec == Init /\ [][Next]_vars

\* The watchdog's child polls; nobody needs to restart the process.
FairSpec == Spec /\ WF_vars(Child)

-----------------------------------------------------------------------------
(* Properties *)

\* Every variable keeps its type.
TypeOK ==
    /\ pc \in {"idle", "arm", "tell", "tell_ack", "setup", "settle", "settle_ack",
              "unsettle", "unsettle_ack", "native", "collect", "clean", "disarm",
              "release", "failed", "dead", "done"}
    /\ {review, prompt} \subseteq BOOLEAN /\ patch \in {"none", "sources", "empty", "moving"}
    /\ purpose \in {"none", "setup", "native", "collect", "outer"}
    /\ missed \in BOOLEAN /\ tries \in 0 .. Bound
    /\ lease \in {"none", "quiet", "told", "closed"}
    /\ resource \in [Resources -> States] /\ pending \subseteq Resources
    /\ child \in {"none", "watching", "cleaning", "gone", "failed", "lost"}
    /\ unread \subseteq {"started", "finished"}
    /\ {content, told, lapsed, marker} \subseteq BOOLEAN /\ faults \in 0 .. MaxFaults

\* Cleanup that succeeds, the runner's licence to acknowledge that the attempt
\* stopped, leaves nothing of it, whoever removed what ("uncertain cleanup ...
\* prevents stopped acknowledgement", docs/compatibility/codex.md); and where a
\* create request may be carried out late, nothing of it that runs.
Runs(c) == resource[c] \in {"running", "paused"}
StoppedMeansGone == pc = "done" => IF prompt THEN \A r \in Resources : resource[r] = "absent"
                                             ELSE \A c \in Containers : ~Runs(c)

\* The native process works on the sources as long as it runs, although the child
\* may clean up in the middle of the attempt: nobody but the repository container
\* can write them, that container runs, and they were not lost on the way.
ToolsSeeSources ==
    pc = "native" /\ Runs("native") =>
        resource["diff"] = "absent" /\ resource["repo"] = "running" /\ content

\* A collected patch is of the sources, at rest: never of a volume that a
\* repository process writes, and of one that lost its files only when the child
\* has begun its cleanup.
PatchIsSettled == /\ patch # "moving"
                  /\ patch = "empty" => child \notin {"none", "watching"}

\* The sources the tools see and the patch that leaves are the claim's.
SourcesIntact == TypeOK /\ ToolsSeeSources /\ PatchIsSettled

\* "Repository changes are collected from a frozen, bounded tmpfs snapshot"
\* (docs/compatibility/codex.md): whatever the child does, the snapshot is of the
\* sources.  Codex_patch.cfg shows that a child which expires during the collection
\* leaves an empty one.
PatchOfSources == patch \in {"none", "sources"}

\* The reservation outlives every native container that uses the home: those
\* that run, and those that exist or may come to, unless creates come late
\* (ProfileCustody: the profile commands take turns with the execution).
UsesHome == \/ Runs("native")
            \/ prompt /\ (resource["native"] # "absent" \/ "native" \in pending)
Custody == INSTANCE ProfileCustody WITH
    Owners <- {Execution}, NoOwner <- Nobody,
    owner  <- IF marker THEN Execution ELSE Nobody,
    users  <- IF UsesHome THEN {Execution} ELSE {}
ImplementsProfileCustody == Custody!Spec

\* Whatever failed on the way, in the process or its successors, the execution
\* lets go of the profile and nothing of it is left: provided that the process
\* goes on and its service manager restarts it, and unless Docker made a volume
\* of its own for a container created behind the child's back, which no cleanup
\* takes for the execution's.
Ended == ~marker /\ \A r \in Resources : resource[r] = "absent"
ExecutionEnds == WF_vars(Process) =>
    (prompt /\ marker ~> Ended \/ resource["volume"] = "foreign")

\* "Independent host watchdogs cover the native, repository and diff-collector
\* containers" (docs/compatibility/codex.md): when the process dies and nobody
\* restarts it, the child alone stops what runs, if it still watched and no phase
\* was left for it to acknowledge.
NothingRuns == \A c \in Containers : ~Runs(c)
WatchdogStops ==
    pc = "dead" /\ child = "watching" /\ unread = {} ~> pc # "dead" \/ NothingRuns

\* The same without the condition, which Codex_orphan.cfg shows to be needed.
WatchdogCovers == pc = "dead" ~> pc # "dead" \/ NothingRuns

\* "The volume is the topology's first Docker side effect. Confirming its label
\* and removal proves cleanup fenced the pending create."  (sandbox/watchdog.go)
RemovalFences == [][child = "cleaning" /\ told /\ ~told' => pending' = {}]_vars
=============================================================================
