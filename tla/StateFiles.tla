----------------------------- MODULE StateFiles -----------------------------
(***************************************************************************)
(* What the commands of one installation share on the host: the locks, the *)
(* journals replaced by rename, the native home of the profile and the     *)
(* release setup activates.                                                *)
(*                                                                         *)
(* A process has a list of steps still to do, and every step is one action *)
(* that may fail.  A killed process loses its locks, which are flocks, and *)
(* leaves its files; a power loss also loses what no directory sync has    *)
(* covered.  ProfileLifecycle, AttemptSupervisor and Activation model what *)
(* the journals mean; here it is who may touch them and what is on disk.   *)
(***************************************************************************)
EXTENDS Naturals, Sequences, SequencesExt

CONSTANTS Procs, Attempts, Releases,
          Entries,    \* of the native tree, numbered as a directory lists them
          None,
          Torn,       \* a file whose content never reached the disk
          Renamed,    \* a step that waits for the sync of a directory
          MaxFaults,  \* bound on failed calls, kills and stragglers before
          MaxLate,    \* the first power loss, and after the last
          MaxLosses   \* bound on power losses

\* connect, probe and disconnect are one command here until the control plane
\* has begun the operation.
Kinds    == {"login", "probe", "disconnect"}
Commands == {"operation", "run", "discard", "setup"}

\* What an entry of the native tree may be: missing, it is "gone" where the code
\* removed it, "lost" where a native process or a power loss did.
Tree == [Entries -> {"kept", "loose", "unsafe", "gone", "lost"}]

ASSUME StateFilesAssumption ==
    /\ Entries \subseteq Nat
    /\ None \notin Attempts \cup Releases /\ Torn \notin Attempts \cup {None}
    /\ {None, Torn, Renamed} \cap (Commands \cup {"kept", "ready"} \cup Tree) = {}
    /\ None # Renamed
    /\ MaxFaults \in Nat /\ MaxLate \in Nat /\ MaxLosses \in Nat

VARIABLES
    \* a process: its command line, how far it was let in, the release it is
    \* or brings, the steps left, the part of a step that is done, its locks
    cmd, stage, version, todo, job, held,
    \* the journals: what they show, what may be left of them after a power
    \* loss; what a process went by before a sync covered it, and what of that
    \* a power loss then turned back; reservations orphaned; whether the name
    \* of the home, beside the profile's journals, would outlast a power loss
    file, disk, relied, revived, abandoned, rooted,
    \* whether the control plane has stopped the pending operation
    stopped,
    \* the profile's native tree and the scratch directory in it
    home, scratch,
    \* the release in force and the one an unfinished activation goes back to
    release, undo,
    \* whether the power is off
    off,
    faults, losses

process  == <<cmd, stage, version, todo, job, held>>
journals == <<file, disk, relied, revived, abandoned, rooted, stopped>>
tree     == <<home, scratch>>
config   == <<release, undo>>
vars     == <<process, journals, tree, config, off, faults, losses>>

Directory == [attempt |-> "state", pending |-> "profile", execution |-> "profile",
              active |-> "profile"]
Cells == DOMAIN Directory

-----------------------------------------------------------------------------
(* The lists of steps *)

Guarded(admission, body) ==
    <<<<"take", "launch">>, <<"take", "state">>, <<"take", "root">>,
      <<"recover">>, <<"require", admission>>>>
    \o body \o <<<<"drop", {"root", "state", "launch"}>>>>

Activation == <<<<"mark">>, <<"install">>, <<"unmark">>>>

ValidateHome == <<<<"prune">>, <<"verify">>>>
Normalize    == <<<<"prune">>, <<"inspect">>, <<"protect">>, <<"verify">>>>

\* The mutant HomeFirst removes the home before it forgets who owns it.
HomeFirst  == <<<<"empty">>, <<"remove">>, <<"clear", "active">>>>
Invalidate == <<<<"clear", "active">>, <<"empty">>, <<"remove">>>>

\* An operation that did not end ready.  The code invalidates again after the
\* completion; there is nothing left then.
Spoil == Invalidate \o <<<<"clear", "pending">>>>

Operate    == <<<<"save", "pending">>, <<"begin">>>>
Begun(kind) ==
    IF kind = "disconnect" THEN Spoil
    ELSE (IF kind = "login" THEN Invalidate \o <<<<"make">>>>
          ELSE <<<<"require", "active">>>>)
         \o <<<<"clear", "active">>>> \o ValidateHome
         \o <<<<"save", "pending">>, <<"native">>>> \o Normalize
         \o <<<<"ready", "pending">>, <<"complete">>, <<"save", "active">>,
              <<"clear", "pending">>>>

\* Lifecycle.recover, before the operation that was asked for.  RepairHome
\* validates what it has just normalized once more.
Resume(outcome) ==
    IF outcome = "ready"
      THEN Normalize \o <<<<"complete">>, <<"save", "active">>,
                          <<"clear", "pending">>, <<"resume">>>>
      ELSE Invalidate \o <<<<"clear", "pending">>, <<"resume">>>>

\* The supervisor's cleanup of an attempt, in the process that ran it or later.
Released == <<<<"drop", {"profile", "rootShared"}>>,
              <<"clear", "attempt">>, <<"load">>>>
\* The mutant AttemptFirst lets the attempt go before its reservation.
AttemptFirst == <<<<"take", "rootShared">>, <<"take", "profile">>,
                  <<"clear", "attempt">>, <<"release">>>>
Cleanup == <<<<"take", "rootShared">>, <<"take", "profile">>, <<"release">>>>

\* The record of the native session, of which no property tells the content.
\* The mutant KeepsSession forgets to unlock the session root.
KeepsSession == <<<<"take", "session">>>>
Persist == <<<<"take", "session">>, <<"drop", {"session"}>>>>

Attempt ==
    <<<<"save", "attempt">>, <<"take", "rootShared">>, <<"take", "profile">>,
      <<"require", "active">>>>
    \o Normalize
    \o <<<<"require", "reservable">>, <<"save", "execution">>, <<"native">>>>
    \o Persist \o Normalize
    \o <<<<"clear", "execution">>, <<"drop", {"profile"}>>>> \o Cleanup

Body(c) ==
    CASE c = "run"     -> <<<<"take", "state">>, <<"load">>>>
      [] c = "discard" -> <<<<"take", "state">>, <<"clear", "attempt">>>>
      [] OTHER         -> <<<<"take", "rootShared">>, <<"take", "profile">>,
                            <<"require", "unreserved">>, <<"resume">>>>

\* The mutant DispatchesUnlocked checks again, but before it takes the lock.
Admission(c) == IF c \in {"run", "discard"} THEN "recoverable" ELSE "resolved"
DispatchesUnlocked(c) ==
    Guarded(Admission(c), <<>>)
    \o <<<<"dispatch">>, <<"take", "launch">>>> \o Body(c)
Launched(c) ==
    Guarded(Admission(c), <<>>)
    \o <<<<"take", "launch">>, <<"dispatch">>>> \o Body(c)

Setup == Guarded("resolved", <<>>) \o Guarded("resolved", Activation)

-----------------------------------------------------------------------------
(* Processes *)

Init == /\ cmd = [p \in Procs |-> None] /\ stage = [p \in Procs |-> "off"]
        /\ version = [p \in Procs |-> None]
        /\ todo = [p \in Procs |-> <<>>] /\ job = [p \in Procs |-> None]
        /\ held = [p \in Procs |-> {}]
        /\ file = [c \in Cells |-> None] /\ disk = [c \in Cells |-> {None}]
        /\ relied = {} /\ revived = {} /\ abandoned = FALSE /\ stopped = FALSE
        /\ rooted = TRUE /\ home = None /\ scratch = "clean"
        /\ release \in Releases /\ undo = None
        /\ off = FALSE /\ faults = 0 /\ losses = 0

Idle(p)   == cmd[p] = None
Step(p)   == Head(todo[p])
At(p, op) == ~Idle(p) /\ Step(p)[1] = op
Doing(p, step) == ~Idle(p) /\ Step(p) = step
Fine  == UNCHANGED <<off, faults, losses>>
Fault == /\ faults < IF losses = 0 THEN MaxFaults ELSE MaxLate
         /\ faults' = faults + 1 /\ UNCHANGED <<off, losses>>

\* The process ends, with or without its own doing: its locks go with it.
Gone(P) == /\ cmd' = [p \in Procs |-> IF p \in P THEN None ELSE cmd[p]]
           /\ stage' = [p \in Procs |-> IF p \in P THEN "off" ELSE stage[p]]
           /\ version' = [p \in Procs |-> IF p \in P THEN None ELSE version[p]]
           /\ todo' = [p \in Procs |-> IF p \in P THEN <<>> ELSE todo[p]]
           /\ job' = [p \in Procs |-> IF p \in P THEN None ELSE job[p]]
           /\ held' = [p \in Procs |-> IF p \in P THEN {} ELSE held[p]]

Does(p, steps) ==
    IF steps = <<>> THEN Gone({p})
    ELSE /\ todo' = [todo EXCEPT ![p] = steps] /\ job' = [job EXCEPT ![p] = None]
         /\ UNCHANGED <<cmd, stage, version, held>>
Goes(p) == Does(p, Tail(todo[p]))

\* A step that returns an error.  A continuous run looks at its journals
\* again, with the profile unlocked and its store still open; an operation
\* that was authenticating spoils the home, after a note that it does so if it
\* was recovering an earlier one; every other command ends.
Authenticating(p) == cmd[p] = "operation" /\ <<"verify">> \in ToSet(todo[p])
Recovering(p)     == <<"resume">> \in ToSet(todo[p])
Spoiled(p)        == IF Recovering(p) THEN Spoil \o <<<<"resume">>>> ELSE Spoil
Errs(p) ==
    IF Authenticating(p)
    THEN Does(p, IF Recovering(p) THEN <<<<"save", "pending">>>> \o Spoiled(p) ELSE Spoil)
    ELSE \/ Gone({p})
         \/ /\ cmd[p] = "run" /\ "state" \in held[p] /\ "root" \notin held[p]
            /\ todo' = [todo EXCEPT ![p] = <<<<"load">>>>]
            /\ job' = [job EXCEPT ![p] = None]
            /\ held' = [held EXCEPT ![p] = @ \ {"profile", "session"}]
            /\ UNCHANGED <<cmd, stage, version>>

\* The mutant ReadsTogether lets setup share the profile root.
ReadsTogether(l) == IF l \in {"root", "rootShared"} THEN {} ELSE {l}
Conflicts(l) == CASE l = "rootShared" -> {"root"}
                  [] l = "root"       -> {"root", "rootShared"}
                  [] OTHER            -> {l}

Free(l) == \A q \in Procs : held[q] \cap Conflicts(l) = {}

\* An operator, a service manager or a script starts a command: through the
\* launcher of the installation, or the binary itself with its own flags.  One
\* that finds its first lock taken ends there and leaves no trace.
Start(p, c, r, direct) ==
    LET steps == CASE c = "setup" -> Setup
                   [] direct      -> Body(c)
                   [] OTHER       -> Launched(c)
        l     == Head(steps)[2] IN
    /\ Idle(p) /\ ~off /\ Free(l)
    /\ c = "setup" => ~direct
    /\ cmd' = [cmd EXCEPT ![p] = c]
    /\ version' = [version EXCEPT ![p] = IF direct THEN None ELSE r]
    /\ stage' = [stage EXCEPT ![p] = IF direct THEN "direct" ELSE "asking"]
    /\ todo' = [todo EXCEPT ![p] = Tail(steps)]
    /\ held' = [held EXCEPT ![p] = {l}]
    /\ UNCHANGED <<job, journals, tree, config>> /\ Fine

Kill(p) == /\ ~Idle(p) /\ Fault /\ Gone({p})
           /\ UNCHANGED <<journals, tree, config>>

-----------------------------------------------------------------------------
(* Locks *)

\* Every lock refuses when it is taken, except the session root's, which waits.
Take(p) ==
    /\ At(p, "take")
    /\ LET l == Step(p)[2] IN
       \/ /\ Free(l) /\ held' = [held EXCEPT ![p] = @ \cup {l}]
          /\ todo' = [todo EXCEPT ![p] = Tail(@)]
          /\ UNCHANGED <<cmd, stage, version, job>>
       \/ ~Free(l) /\ l # "session" /\ Errs(p)
    /\ UNCHANGED <<journals, tree, config>> /\ Fine

Drop(p) ==
    /\ At(p, "drop")
    /\ IF Tail(todo[p]) = <<>> THEN Gone({p})
       ELSE /\ held' = [held EXCEPT ![p] = @ \ Step(p)[2]]
            /\ todo' = [todo EXCEPT ![p] = Tail(@)]
            /\ UNCHANGED <<cmd, stage, version, job>>
    /\ UNCHANGED <<journals, tree, config>> /\ Fine

-----------------------------------------------------------------------------
(* Journals *)

Absent(S) == \A c \in S : file[c] = None

Holds(p, condition) ==
    CASE condition = "resolved"    -> Absent({"attempt", "pending", "execution"})
      [] condition = "recoverable" -> Absent({"pending"}) /\ file["attempt"] # Torn
      [] condition = "unreserved"  -> Absent({"execution"})
      [] condition = "reservable"  -> Absent({"pending", "execution"})
      [] OTHER                     -> file["active"] # None

Require(p) ==
    /\ At(p, "require")
    /\ IF Holds(p, Step(p)[2]) THEN Goes(p) ELSE Errs(p)
    /\ UNCHANGED <<journals, tree, config>> /\ Fine

\* The launcher looks again, under its lock, and hands over to the command of
\* its own release.
Dispatch(p) ==
    /\ At(p, "dispatch")
    /\ IF undo = None /\ release = version[p]
         THEN /\ stage' = [stage EXCEPT ![p] = "dispatched"]
              /\ todo' = [todo EXCEPT ![p] = Tail(@)]
              /\ UNCHANGED <<cmd, version, job, held>>
         ELSE Errs(p)
    /\ UNCHANGED <<journals, tree, config>> /\ Fine

\* The process goes by what a journal of the profile shows, whether or not it
\* would outlast a power loss.
Relies(c) == relied' = IF disk[c] = {file[c]} \/ c = "attempt" THEN relied
                       ELSE relied \cup {c}

\* The supervisor's loop: recover an attempt, run another one, or stop.
Load(p) ==
    /\ At(p, "load") /\ file["attempt"] # Torn
    /\ \/ file["attempt"] # None /\ Does(p, Cleanup)
       \/ file["attempt"] = None /\ (Does(p, Attempt) \/ Gone({p}))
    /\ UNCHANGED <<journals, tree, config>> /\ Fine

\* ReleaseExecution of the reservation, if it is the attempt's.
Release(p) ==
    /\ At(p, "release")
    /\ IF file["execution"] = None THEN Does(p, Released)
       ELSE IF file["execution"] = file["attempt"]
            THEN Does(p, Normalize \o <<<<"clear", "execution">>>> \o Released)
            ELSE Errs(p)
    /\ Relies("execution")
    /\ UNCHANGED <<file, disk, revived, abandoned, rooted, stopped, tree, config>> /\ Fine

\* OperateLocked: settle the interrupted operation, then do the one asked for.
ResumeOperation(p) ==
    /\ At(p, "resume") /\ file["pending"] # Torn
    /\ IF file["pending"] # None THEN Does(p, Resume(file["pending"]))
       ELSE Does(p, Operate) \/ Gone({p})
    /\ Relies("pending")
    /\ UNCHANGED <<file, disk, revived, abandoned, rooted, stopped, tree, config>> /\ Fine

\* The control plane refuses the operation for good, does not answer, or begins it.
Begin(p) ==
    /\ At(p, "begin")
    /\ \/ \E kind \in Kinds : Does(p, Begun(kind))
       \/ Does(p, <<<<"clear", "pending">>>>)
       \/ Gone({p})
    /\ UNCHANGED <<journals, tree, config>> /\ Fine

\* The answer to the completion says whether the operation still stands, and
\* goes on saying so when it is asked again.
Complete(p) ==
    /\ At(p, "complete")
    /\ \/ ~stopped /\ Goes(p) /\ UNCHANGED stopped
       \/ stopped' = TRUE /\ Does(p, Spoiled(p))
    /\ UNCHANGED <<file, disk, relied, revived, abandoned, rooted, tree, config>> /\ Fine

Content(step) ==
    CASE step = <<"save", "attempt">>   -> Attempts \ {file["execution"]}
      [] step = <<"save", "execution">> -> {file["attempt"]}
      [] step = <<"ready", "pending">>  -> {"ready"}
      [] OTHER                          -> {"kept"}

\* What reaches the disk of a file that is renamed without having been synced
\* is anybody's guess; the stores sync first.  The mutant Unsynced does not.
Unsynced(v) == {v, Torn}
Synced(v)   == {v}

\* A private temporary file is written and synced, then takes the name; the
\* step is done when the directory is synced.  The mutant NoSync does not wait.
Renames(p, c, v) ==
    /\ file' = [file EXCEPT ![c] = v]
    /\ disk' = [disk EXCEPT ![c] = @ \cup Synced(v)]
NoSync(p) == Goes(p)
AwaitsSync(p) == /\ job' = [job EXCEPT ![p] = Renamed]
                 /\ UNCHANGED <<cmd, stage, version, todo, held>>

Save(p) ==
    /\ At(p, "save") \/ At(p, "ready")
    /\ job[p] = None /\ file[Step(p)[2]] # Torn
    /\ \E v \in Content(Step(p)) : Renames(p, Step(p)[2], v)
    /\ AwaitsSync(p)
    /\ UNCHANGED <<relied, revived, abandoned, rooted, stopped, tree, config>> /\ Fine

\* A file that is not there needs no sync, whoever removed it and however.
Clear(p) ==
    /\ At(p, "clear") /\ job[p] = None
    /\ LET c == Step(p)[2] IN
       /\ file[c] # Torn
       /\ IF file[c] = None
            THEN Goes(p) /\ Relies(c) /\ UNCHANGED <<file, disk, abandoned>>
            ELSE /\ AwaitsSync(p)
                 /\ file' = [file EXCEPT ![c] = None]
                 /\ disk' = [disk EXCEPT ![c] = @ \cup {None}]
                 /\ abandoned' = (abandoned \/ (cmd[p] = "discard"
                                                /\ disk["execution"] # {None}))
                 /\ UNCHANGED relied
    /\ UNCHANGED <<revived, rooted, stopped, tree, config>> /\ Fine

Syncs(d) ==
    LET in == {c \in Cells : Directory[c] = d} IN
    /\ disk' = [c \in Cells |-> IF c \in in THEN {file[c]} ELSE disk[c]]
    /\ relied' = relied \ in /\ rooted' = (rooted \/ d = "profile")
    /\ stopped' = (stopped /\ (d # "profile" \/ file["pending"] # None))
    /\ UNCHANGED <<file, revived, abandoned>>

Sync(p) ==
    /\ ~Idle(p) /\ job[p] = Renamed
    /\ Syncs(Directory[Step(p)[2]]) /\ Goes(p)
    /\ UNCHANGED <<tree, config>> /\ Fine

\* Any call of a step fails before it has done anything.
Fails(p) ==
    /\ ~Idle(p) /\ Fault /\ Step(p)[1] \notin {"drop", "dispatch", "native"}
    /\ Errs(p)
    /\ UNCHANGED <<journals, tree, config>>

\* What a power loss may leave of the home.  The code syncs nothing below its
\* directory, so an entry is as it was at any time or not there.  No entry was
\* ever unsafe and then safe again; what the code removed, it did not remove by
\* losing it.
Survivors(h) == {g \in Tree : \A e \in Entries :
                    /\ g[e] = "gone" => h[e] = "gone"
                    /\ g[e] = "unsafe" => h[e] \in {"unsafe", "gone"}}

\* The power goes, and when it is back the disk shows what a sync has covered
\* and any part of the rest.
PowerLoss ==
    /\ losses < MaxLosses /\ losses' = losses + 1 /\ faults' = 0
    /\ off' = TRUE /\ Gone(Procs)
    /\ UNCHANGED <<journals, tree, config>>
PowerBack ==
    /\ off /\ off' = FALSE
    /\ \E left \in [attempt : disk["attempt"], pending : disk["pending"],
                    execution : disk["execution"], active : disk["active"]] :
          /\ file' = left /\ disk' = [c \in Cells |-> {left[c]}]
          /\ revived' = revived \cup {c \in relied : left[c] # file[c]}
    /\ \/ (home = None \/ ~rooted) /\ home' = None /\ scratch' = "clean"
       \/ home # None /\ home' \in Survivors(home) /\ scratch' = "dirty"
    /\ relied' = {} /\ rooted' = TRUE /\ Gone(Procs)
    /\ UNCHANGED <<abandoned, stopped, config, faults, losses>>

-----------------------------------------------------------------------------
(* The native home *)

\* CreateHome and initializeNativeHome.
Make(p) == /\ At(p, "make") /\ Goes(p)
           /\ home' = [e \in Entries |-> "kept"] /\ rooted' = FALSE
           /\ UNCHANGED <<file, disk, relied, revived, abandoned, stopped>>
           /\ UNCHANGED <<scratch, config>> /\ Fine

\* A native process leaves readable files, links and its own scratch behind, and
\* removes what it likes: the home is mounted for it to write.
Native(p) ==
    /\ At(p, "native")
    /\ Goes(p) \/ (cmd[p] = "operation" /\ Does(p, Spoil))
    /\ home' \in {h \in Tree : \A e \in Entries :
                    \/ h[e] = home[e]
                    \/ home[e] # "gone" /\ h[e] \in {"loose", "unsafe", "lost"}}
    /\ scratch' = "dirty"
    /\ UNCHANGED <<journals, config>> /\ Fine

\* pruneNativeScratch: removal of the scratch, then its replacement, if there is
\* a directory for it.  One that is not there is clean as well.
Prune(p) ==
    /\ At(p, "prune") /\ Goes(p)
    /\ scratch' = "clean"
    /\ UNCHANGED <<home, journals, config>> /\ Fine

\* The complete tree is inspected before anything changes.  The mutant
\* AnyTree passes over what it cannot protect.
AnyTree(h) == h # None
Acceptable(h) == h # None /\ \A e \in Entries : h[e] # "unsafe"
Inspect(p) ==
    /\ At(p, "inspect")
    /\ IF Acceptable(home)
         THEN /\ job' = [job EXCEPT ![p] = home]
              /\ todo' = [todo EXCEPT ![p] = Tail(@)]
              /\ UNCHANGED <<cmd, stage, version, held>>
         ELSE Errs(p)
    /\ UNCHANGED <<journals, tree, config>> /\ Fine

\* chmodNativeSnapshot, entry by entry, of the very file that was inspected.
Protect(p) ==
    /\ At(p, "protect")
    /\ LET left == {e \in Entries : job[p][e] = "loose"} IN
       \/ left = {} /\ Goes(p) /\ UNCHANGED tree
       \/ /\ left # {}
          /\ LET e == Min(left) IN
             IF home[e] = job[p][e]
               THEN /\ home' = [home EXCEPT ![e] = "kept"]
                    /\ job' = [job EXCEPT ![p][e] = "kept"]
                    /\ UNCHANGED <<cmd, stage, version, todo, held, scratch>>
               ELSE Errs(p) /\ UNCHANGED tree
    /\ UNCHANGED <<journals, config>> /\ Fine

\* The mutant ThereIsFine does not look at the entries again.
ThereIsFine(h) == h # None
Protected(h) == h # None /\ \A e \in Entries : h[e] \in {"kept", "gone", "lost"}
Verify(p) ==
    /\ At(p, "verify")
    /\ IF Protected(home) THEN Goes(p) ELSE Errs(p)
    /\ UNCHANGED <<journals, tree, config>> /\ Fine

\* removeProfileEntries: one entry at a time, whatever it is.
Empty(p) ==
    /\ At(p, "empty")
    /\ LET left == {e \in Entries : home # None /\ home[e] \notin {"gone", "lost"}} IN
       \/ left = {} /\ Goes(p) /\ UNCHANGED home
       \/ /\ left # {} /\ home' = [home EXCEPT ![Min(left)] = "gone"]
          /\ UNCHANGED process
    /\ UNCHANGED <<scratch, journals, config>> /\ Fine

\* The directory itself, and the sync that ends Invalidate.
RemoveHome(p) ==
    /\ At(p, "remove") /\ Goes(p) /\ Syncs("profile")
    /\ home' = None /\ scratch' = "clean"
    /\ UNCHANGED <<config>> /\ Fine

\* A process the stop did not reach changes an entry under the inspection.
Straggle(p, e) ==
    /\ At(p, "protect") /\ home[e] \in {"kept", "loose"} /\ Fault
    /\ home' = [home EXCEPT ![e] = "unsafe"]
    /\ UNCHANGED <<process, scratch, journals, config>>

-----------------------------------------------------------------------------
(* Setup; Activation has the files one by one *)

Recover(p) ==
    /\ At(p, "recover") /\ Goes(p)
    /\ release' = IF undo = None THEN release ELSE undo
    /\ undo' = None
    /\ UNCHANGED <<journals, tree>> /\ Fine
Mark(p)    == /\ At(p, "mark") /\ Goes(p) /\ undo' = release
              /\ UNCHANGED <<release, journals, tree>> /\ Fine
Install(p) == /\ At(p, "install") /\ Goes(p) /\ release' = version[p]
              /\ UNCHANGED <<undo, journals, tree>> /\ Fine
Unmark(p)  == /\ At(p, "unmark") /\ Goes(p) /\ undo' = None
              /\ UNCHANGED <<release, journals, tree>> /\ Fine

-----------------------------------------------------------------------------

Works(p) ==
    \/ Take(p) \/ Drop(p) \/ Require(p) \/ Dispatch(p) \/ Load(p) \/ Release(p)
    \/ ResumeOperation(p) \/ Begin(p) \/ Complete(p)
    \/ Save(p) \/ Clear(p) \/ Sync(p) \/ Fails(p)
    \/ Make(p) \/ Native(p) \/ Prune(p) \/ Inspect(p) \/ Protect(p)
    \/ Verify(p) \/ Empty(p) \/ RemoveHome(p)
    \/ Recover(p) \/ Mark(p) \/ Install(p) \/ Unmark(p)

Next ==
    \/ PowerLoss \/ PowerBack
    \/ \E p \in Procs :
          \/ Works(p) \/ Kill(p)
          \/ \E e \in Entries : Straggle(p, e)
          \/ \E c \in Commands, r \in Releases, direct \in BOOLEAN :
                Start(p, c, r, direct)

Spec == Init /\ [][Next]_vars

Symmetry == Permutations(Procs) \cup Permutations(Attempts)
            \cup Permutations(Releases)

-----------------------------------------------------------------------------
(* Properties *)

\* Every name shows a whole file or none, after a power loss too, and the
\* locks held are compatible.
TypeOK ==
    /\ \A p \in Procs :
          /\ cmd[p] \in Commands \cup {None} /\ version[p] \in Releases \cup {None}
          /\ stage[p] \in {"off", "asking", "direct", "dispatched"}
          /\ stage[p] = "off" <=> Idle(p)
          /\ todo[p] = <<>> <=> Idle(p)
          /\ job[p] \in {None, Renamed} \/ job[p] \in Tree
          /\ \A q \in Procs \ {p} : \A l \in held[q] : held[p] \cap Conflicts(l) = {}
    /\ file["attempt"] \in Attempts \cup {None}
    /\ file["execution"] \in Attempts \cup {None}
    /\ file["pending"] \in {"kept", "ready", None}
    /\ file["active"] \in {"kept", None}
    /\ \A c \in Cells : file[c] \in disk[c]
    /\ relied \cup revived \subseteq Cells /\ {abandoned, rooted, stopped, off} \subseteq BOOLEAN
    /\ (home = None \/ home \in Tree) /\ scratch \in {"clean", "dirty"}
    /\ release \in Releases /\ undo \in Releases \cup {None}
    /\ faults \in 0 .. MaxFaults \cup 0 .. MaxLate /\ losses \in 0 .. MaxLosses

\* Before a native process starts, no power loss can take back what would stop
\* it or clean up after it: the attempt and its reservation, or the pending
\* operation and the withdrawal of the identity it replaces.
JournaledBeforeNative ==
    \A p \in Procs : At(p, "native") =>
        IF cmd[p] = "run"
          THEN /\ file["attempt"] # None
               /\ \A c \in {"attempt", "execution"} : disk[c] = {file["attempt"]}
          ELSE disk["pending"] = {"kept"} /\ disk["active"] = {None}

\* A reservation always has the attempt whose recovery releases it, whoever
\* died when: only a discard orphans one, or a power loss after a cleanup that
\* found the file removed but never synced.
ReservationHasAttempt ==
    file["execution"] # None =>
        \/ file["attempt"] # None
        \/ abandoned \/ "execution" \in revived

\* Where an identity is named, its home is there and the code has not begun to
\* take it away, after a power loss too; with the same exception, that a journal
\* came back after an unsynced removal.
ActiveHasHome ==
    file["active"] # None =>
        \/ home # None /\ \A e \in Entries : home[e] # "gone"
        \/ revived \cap {"active", "pending"} # {}

\* What the journal of the identity seems to say, that all of the home it was
\* confirmed for is there.  The code does not see to it: the entries of the home
\* are never synced, and the native process may remove them.
IdentityHasHome ==
    file["active"] # None =>
        \/ home # None /\ \A e \in Entries : home[e] \notin {"gone", "lost"}
        \/ revived \cap {"active", "pending"} # {}

\* The files tell one story: each is whole, and none speaks for something that
\* is no longer there.
JournalsConsistent == TypeOK /\ ReservationHasAttempt /\ ActiveHasHome

\* While setup changes the release, nothing waits for recovery and no other
\* process is where it could leave something that does.
ActivatesWhenResolved ==
    \A p \in Procs : (At(p, "install") \/ At(p, "unmark")) =>
        /\ Absent({"attempt", "pending", "execution"})
        /\ \A q \in Procs : ~At(q, "native")

\* A command that was dispatched runs under the release it was checked
\* against, with no activation half done, until its last step.
LaunchIsCurrent ==
    \A p \in Procs :
        stage[p] = "dispatched" => undo = None /\ release = version[p]

\* The release changes only where nothing depends on it.
ReleaseIsStable == ActivatesWhenResolved /\ LaunchIsCurrent

\* The one lock that would wait, the session root's, is free when it is asked
\* for: commands refuse each other, they never wait for each other.
NeverWaits == \A p \in Procs : Doing(p, <<"take", "session">>) => Free("session")

\* A native process gets a home with nothing readable by others and nothing
\* unsafe in it, and nothing of an earlier one in the scratch.
NativeStartsProtected ==
    \A p \in Procs : At(p, "native") =>
        /\ home # None /\ scratch = "clean"
        /\ \A e \in Entries : home[e] \notin {"loose", "unsafe"}

\* Whatever a native process does or breaks, it was started on a home that is
\* safe and on journals that outlast a power loss.
NativeStartsReady == JournaledBeforeNative /\ NativeStartsProtected

\* Permissions change on what was inspected only: no unsafe entry is made to
\* look safe, and no entry of a tree that had an unsafe one is touched, but for an
\* older entry that a power loss brings back.
Protects(e) == /\ ~off /\ home # None /\ home' # None
               /\ home[e] \in {"loose", "unsafe"} /\ home'[e] = "kept"
OnlyInspectedChanges ==
    [][\A e \in Entries : Protects(e) =>
          /\ home[e] = "loose"
          /\ \E p \in Procs : /\ At(p, "protect")
                              /\ \A f \in Entries : job[p][f] # "unsafe"]_vars

\* What discard promises an operator who does not want to wait: the attempt is
\* gone and the installation goes on.  The code leaves the reservation behind.
DiscardReleases == abandoned => file["execution"] = None
=============================================================================
