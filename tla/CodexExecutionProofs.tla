------------------------ MODULE CodexExecutionProofs ------------------------
(***************************************************************************)
(* TLAPS proofs about CodexExecution, for every number of faults and every *)
(* bound of the breaker: a cleanup that succeeds leaves nothing that runs, *)
(* and the execution keeps what ProfileCustody promises about the home.    *)
(*                                                                         *)
(* The argument is about a pass of the cleanup: what it has looked at and  *)
(* not missed is gone, and nothing comes back, because containers start in *)
(* Start and CollectPatch only and a late create does not start anything.  *)
(* About the sources it is the position in the two lists of calls that     *)
(* tells what Docker has while the child watches: nobody else touches it.  *)
(* Once the child cleans up, the native container is the first it removes. *)
(***************************************************************************)
EXTENDS CodexExecution, SequenceTheorems, TLAPS

Verbs == {"create", "start", "pause", "fill", "read", "remove"}
Calls == [verb : Verbs, on : Resources]

Rest    == <<"repo", "diff", "volume">>
Suffixes == {Sweep, Rest, <<"diff", "volume">>, <<"volume">>, <<>>}
Unswept(s) == {s[i] : i \in DOMAIN s}

\* What a pass makes sure of: nothing is left, or nothing that runs.
Gone(r) == IF prompt THEN resource[r] = "absent"
                     ELSE resource[r] \notin {"running", "paused"}
AllGone == \A r \in Resources : Gone(r)

Types ==
    /\ prompt \in BOOLEAN /\ marker \in BOOLEAN /\ missed \in BOOLEAN
    /\ resource \in [Resources -> States] /\ pending \subseteq Resources
    /\ pc \in {"setup", "collect"} => todo \in Seq(Calls)
    /\ pc = "clean" => todo \in Suffixes
    /\ child = "cleaning" => left \in Suffixes \ {<<>>}

\* Where the process may still start a container.
Starting == {"idle", "arm", "tell", "tell_ack", "setup", "settle", "settle_ack",
             "native", "collect"}

CleanInv ==
    /\ prompt => pending = {}
    /\ pc = "idle" => AllGone
    /\ pc = "clean" /\ ~missed => \A r \in Resources \ Unswept(todo) : Gone(r)
    /\ pc \in {"disarm", "release", "done"} => AllGone

\* The reservation is given up only with the native container.
MarkerInv == ~marker => Gone("native") /\ pc \notin Starting \ {"idle"}

ExecInv == Types /\ CleanInv /\ MarkerInv

-----------------------------------------------------------------------------
(* Calls and passes *)

\* A pass looks at one resource after the other.
LEMMA PassShrinks ==
  /\ ChildSweep = Sweep /\ Sweep \in Suffixes /\ Unswept(Sweep) = Resources /\ Unswept(<<>>) = {}
  /\ \A s \in Suffixes \ {<<>>} :
        /\ Head(s) \in Resources /\ Tail(s) \in Suffixes
        /\ Unswept(s) \subseteq Unswept(Tail(s)) \cup {Head(s)}
        /\ Head(s) # "volume" => Tail(s) # <<>>
  <1>1. Sweep # <<>> /\ Head(Sweep) = "native" /\ Tail(Sweep) = Rest
    BY DEF Sweep, Rest
  <1>2. Head(Rest) = "repo" /\ Tail(Rest) = <<"diff", "volume">>
    BY DEF Rest
  <1>3. Head(<<"diff", "volume">>) = "diff" /\ Tail(<<"diff", "volume">>) = <<"volume">>
    OBVIOUS
  <1>4. Head(<<"volume">>) = "volume" /\ Tail(<<"volume">>) = <<>>
    OBVIOUS
  <1>5. Unswept(Sweep) = Resources
    BY DEF Unswept, Sweep, Resources, Containers
  <1>6. Unswept(Rest) = {"repo", "diff", "volume"}
    BY DEF Unswept, Rest
  <1>7. Unswept(<<"diff", "volume">>) = {"diff", "volume"}
    BY DEF Unswept
  <1>8. Unswept(<<"volume">>) = {"volume"} /\ Unswept(<<>>) = {}
    BY DEF Unswept
  <1>9. Rest # <<>> /\ <<"diff", "volume">> # <<>> /\ <<"volume">> # <<>>
    BY DEF Rest
  <1>10. Resources = {"native", "repo", "diff", "volume"}
    BY DEF Resources, Containers
  <1>11. ASSUME NEW s \in Suffixes \ {<<>>}
         PROVE  /\ Head(s) \in Resources /\ Tail(s) \in Suffixes
                /\ Unswept(s) \subseteq Unswept(Tail(s)) \cup {Head(s)}
                /\ Head(s) # "volume" => Tail(s) # <<>>
    <2>1. CASE s = Sweep
      BY <2>1, <1>1, <1>5, <1>6, <1>9, <1>10 DEF Suffixes
    <2>2. CASE s = Rest
      BY <2>2, <1>2, <1>6, <1>7, <1>9, <1>10 DEF Suffixes
    <2>3. CASE s = <<"diff", "volume">>
      BY <2>3, <1>3, <1>7, <1>8, <1>9, <1>10 DEF Suffixes
    <2>4. CASE s = <<"volume">>
      BY <2>4, <1>4, <1>8, <1>10 DEF Suffixes
    <2>5. QED
      BY <2>1, <2>2, <2>3, <2>4 DEF Suffixes
  <1>12. QED
    BY <1>5, <1>8, <1>11 DEF Suffixes, Sweep, ChildSweep

\* Start and CollectPatch call Docker about what the execution owns.
LEMMA CallsAreTyped == Setup \in Seq(Calls) /\ Collection \in Seq(Calls)
  <1>1. \A v \in Verbs, r \in Resources : Call(v, r) \in Calls
    BY DEF Call, Calls
  <1>2. Resources = {"native", "repo", "diff", "volume"}
    BY DEF Resources, Containers
  <1>3. Collection \in Seq(Calls)
    BY <1>1, <1>2 DEF Collection, Verbs
  <1>4. CASE review
    BY <1>1, <1>2, <1>3, <1>4 DEF Setup, Verbs
  <1>5. CASE ~review
    BY <1>1, <1>2, <1>3, <1>5 DEF Setup, Verbs
  <1>6. QED
    BY <1>4, <1>5

\* A resource gets the state it is given, and nothing else changes but the volume
\* that a container is created with.
LEMMA GivenIsTyped ==
  ASSUME Types, NEW r \in Resources, NEW state \in States
  PROVE  /\ Given(r, state) \in [Resources -> States] /\ Given(r, state)[r] = state
         /\ \A x \in Resources \ {r, "volume"} : Given(r, state)[x] = resource[x]
         /\ Given(r, state)["volume"] \in {resource["volume"], state, "foreign"}
  BY DEF Types, Given, Mounts, Resources, Containers, States

\* A call gives a resource one of the states there are.
LEMMA WorksIsTyped ==
  ASSUME Types, NEW call \in Calls, Works(call)
  PROVE  resource' \in [Resources -> States]
  <1>1. call.on \in Resources /\ Gives[call.verb] \in States
    BY DEF Calls, Verbs, Gives, States
  <1>2. resource' = Given(call.on, Gives[call.verb])
    BY DEF Works, Becomes
  <1>3. QED
    BY <1>1, <1>2, GivenIsTyped

\* Removal makes a resource gone, and brings no other one back.
LEMMA RemovalIsGone ==
  ASSUME Types, prompt' = prompt, NEW r \in Resources, Removes(r)
  PROVE  /\ resource' \in [Resources -> States] /\ Gone(r)'
         /\ \A x \in Resources : Gone(x) => Gone(x)'
  <1>1. resource' = [resource EXCEPT ![r] = "absent"]
    BY DEF Removes, Becomes
  <1>2. QED
    BY <1>1 DEF Types, Gone, States

\* What a step may do to Docker when the process makes no calls of Start or
\* CollectPatch: it keeps or removes, and a late create starts nothing.
Quiet == /\ resource' \in [Resources -> States] /\ pending' \subseteq pending
         /\ prompt' = prompt
         /\ \A r \in Resources : Gone(r) => Gone(r)'

\* To leave Docker alone is quiet.
LEMMA UnchangedIsQuiet ==
  ASSUME Types, UNCHANGED <<resource, pending, prompt>>
  PROVE  Quiet
  BY DEF Types, Quiet, Gone

\* One step of a pass removes what it looks at, or remembers that it did not.
LEMMA SweepsIsQuiet ==
  ASSUME ExecInv, Sweeps
  PROVE  /\ Quiet /\ pc' = "clean" /\ todo # <<>> /\ todo' = Tail(todo)
         /\ missed' \in BOOLEAN
         /\ ~missed' => /\ ~missed
                        /\ \A r \in Resources : r = Head(todo) => Gone(r)'
  <1>1. Types /\ Head(todo) \in Resources
    BY PassShrinks DEF Sweeps, ExecInv, Types
  <1>2. PICK r \in Resources : r = Head(todo)
    BY <1>1
  <1>3. /\ todo # <<>> /\ todo' = Tail(todo) /\ pc' = "clean"
        /\ prompt' = prompt /\ pending' = pending
        /\ \/ UNCHANGED resource /\ missed' = TRUE
           \/ Removes(r) /\ missed' \in {missed, TRUE}
    BY <1>2 DEF Sweeps, attempt
  <1>4. CASE UNCHANGED resource /\ missed' = TRUE
    BY <1>1, <1>3, <1>4, UnchangedIsQuiet
  <1>5. CASE Removes(r) /\ missed' \in {missed, TRUE}
    <2>1. /\ resource' \in [Resources -> States] /\ Gone(r)'
          /\ \A x \in Resources : Gone(x) => Gone(x)'
      BY <1>1, <1>3, <1>5, RemovalIsGone
    <2>2. Quiet
      BY <1>3, <2>1 DEF Quiet
    <2>3. missed' \in BOOLEAN /\ (~missed' => ~missed)
      <3>1. CASE missed' = missed
        BY <1>1, <3>1 DEF Types
      <3>2. CASE missed' = TRUE
        BY <3>2
      <3>3. QED
        BY <1>5, <3>1, <3>2
    <2>4. \A x \in Resources : x = Head(todo) => Gone(x)'
      BY <1>2, <2>1
    <2>5. QED
      BY <1>3, <2>2, <2>3, <2>4
  <1>6. QED
    BY <1>3, <1>4, <1>5

\* So does one step of the child's pass; it goes on with the rest or afresh.
LEMMA ChildSweepsIsQuiet ==
  ASSUME ExecInv, ChildSweeps
  PROVE  Quiet /\ (child' = "cleaning" => left' \in Suffixes \ {<<>>})
  <1>1. left \in Suffixes \ {<<>>} /\ Types
    BY DEF ChildSweeps, ExecInv, Types
  <1>2. PICK r \in Resources : r = Head(left)
    BY <1>1, PassShrinks
  <1>3. /\ prompt' = prompt /\ pending' = pending
        /\ Removes(r) \/ UNCHANGED <<resource, content>>
    BY <1>2 DEF ChildSweeps, process, attempt
  <1>4. Quiet
    BY <1>1, <1>3, RemovalIsGone, UnchangedIsQuiet DEF Quiet
  <1>5. \/ child' \in {"gone", "failed"}
        \/ left' = ChildSweep
        \/ left' = Tail(left) /\ r # "volume"
    <2>1. CASE r = "volume"
      BY <1>2, <2>1 DEF ChildSweeps
    <2>2. CASE r # "volume"
      BY <1>2, <2>2 DEF ChildSweeps
    <2>3. QED
      BY <2>1, <2>2
  <1>6. Sweep # <<>>
    BY DEF Sweep
  <1>7. QED
    BY <1>1, <1>2, <1>4, <1>5, <1>6, PassShrinks

\* Docker carries a create out, or not: it is not a container that runs.
LEMMA LandingIsQuiet ==
  ASSUME ExecInv, NEW r \in Resources, Lands(r) \/ Drops(r)
  PROVE  Quiet
  <1>1. prompt' = prompt /\ pending' \subseteq pending /\ ~prompt
    BY DEF Lands, Drops, process, attempt, ExecInv, CleanInv
  <1>2. CASE Lands(r)
    <2>1. resource' = Given(r, "created") /\ resource[r] = "absent"
      BY <1>2 DEF Lands, Becomes
    <2>2. /\ resource' \in [Resources -> States] /\ resource'[r] = "created"
          /\ \A x \in Resources \ {r, "volume"} : resource'[x] = resource[x]
          /\ resource'["volume"] \in {resource["volume"], "created", "foreign"}
      BY <2>1, GivenIsTyped DEF ExecInv, States
    <2>3. QED
      BY <1>1, <2>2 DEF Quiet, Gone
  <1>3. CASE Drops(r)
    BY <1>1, <1>3 DEF Drops, Quiet, Gone, ExecInv, Types
  <1>4. QED
    BY <1>2, <1>3

\* The host goes down: what exists does not run, and nothing is on its way.
LEMMA RebootIsQuiet ==
  ASSUME ExecInv, Reboot
  PROVE  Quiet /\ pending' = {}
  <1>1. /\ resource' = [r \in Resources |->
                          IF resource[r] \in {"absent", "foreign"} THEN resource[r]
                          ELSE "created"]
        /\ pending' = {} /\ prompt' = prompt
    BY DEF Reboot, Becomes, Dies, attempt
  <1>2. QED
    BY <1>1 DEF Quiet, Gone, ExecInv, Types, States

\* Disarm removes everything once more before the lease is released.
LEMMA DisarmIsQuiet ==
  ASSUME ExecInv, Disarm
  PROVE  Quiet /\ pc' \in {"failed", "release"} /\ (pc' = "release" => AllGone')
  <1>1. pc' \in {"failed", "release"} /\ prompt' = prompt /\ pending' = pending
    BY DEF Disarm, Goto, docker, attempt
  <1>2. CASE UNCHANGED docker /\ pc' = "failed"
    BY <1>1, <1>2, UnchangedIsQuiet DEF docker, ExecInv
  <1>3. CASE Becomes([r \in Resources |-> "absent"], FALSE)
    <2>1. resource' = [r \in Resources |-> "absent"]
      BY <1>3 DEF Becomes
    <2>2. QED
      BY <1>1, <2>1 DEF Quiet, Gone, AllGone, States
  <1>4. CASE /\ pc' = "failed"
             /\ Becomes([r \in Resources |-> IF r = "volume" THEN resource[r]
                                            ELSE "absent"], content)
    <2>1. resource' = [r \in Resources |-> IF r = "volume" THEN resource[r] ELSE "absent"]
      BY <1>4 DEF Becomes
    <2>2. QED
      BY <1>1, <1>4, <2>1 DEF Quiet, Gone, ExecInv, Types, States
  <1>5. QED
    BY <1>2, <1>3, <1>4 DEF Disarm, Goto

-----------------------------------------------------------------------------
(* The invariant *)

\* It holds before anything exists.
LEMMA ExecInit == Init => ExecInv
  <1> SUFFICES ASSUME Init PROVE ExecInv
    OBVIOUS
  <1>1. Types
    BY DEF Init, Types, States
  <1>2. AllGone /\ Gone("native")
    BY DEF Init, AllGone, Gone, Resources, Containers
  <1>3. QED
    BY <1>1, <1>2 DEF Init, ExecInv, CleanInv, MarkerInv

\* A step of the process that makes no call: a pass begins, or it goes on to
\* where it may go with what is left.
Moves ==
    /\ UNCHANGED <<resource, pending, prompt>>
    /\ missed' \in BOOLEAN /\ marker' \in BOOLEAN
    /\ child' = "cleaning" => child = "cleaning" /\ left' = left
    /\ \/ pc' = "clean" /\ todo' = Sweep
       \/ pc' \in {"arm", "tell", "tell_ack", "settle", "settle_ack", "unsettle",
                 "unsettle_ack", "native", "failed", "dead"}
       \/ pc' \in {"setup", "collect"} /\ todo' \in Seq(Calls)
       \/ pc' \in {"disarm", "release", "done"} /\ AllGone
    /\ ~marker' => Gone("native") /\ pc' \notin Starting

\* Moves keep the invariant: what is gone stays gone, and a pass begins afresh.
LEMMA MovesKeeps ==
  ASSUME ExecInv, Moves
  PROVE  ExecInv'
  <1>1. /\ AllGone => AllGone'
        /\ Gone("native") => Gone("native")'
        /\ Sweep \in Suffixes /\ Unswept(Sweep) = Resources
    BY PassShrinks DEF Moves, AllGone, Gone
  <1>2. Types'
    BY <1>1 DEF Moves, ExecInv, Types
  <1>3. CleanInv'
    BY <1>1 DEF Moves, ExecInv, CleanInv
  <1>4. MarkerInv'
    BY <1>1 DEF Moves, MarkerInv, Starting
  <1>5. QED
    BY <1>2, <1>3, <1>4 DEF ExecInv

\* Every such step is a move.
LEMMA ControlKeeps ==
  ASSUME ExecInv,
         \/ Reserve \/ Arm \/ Tell \/ TellAck \/ Settle \/ SettleAck \/ Native
         \/ Swept \/ ReleaseExecution \/ Retry \/ GiveUp \/ Restart \/ Crash
  PROVE  ExecInv'
  <1> USE DEF process, attempt, pass, docker, watchdog, Goto, Clean, Dies, Moves
  <1>1. /\ marker \in BOOLEAN /\ missed \in BOOLEAN
        /\ ~marker => Gone("native") /\ pc \notin Starting \ {"idle"}
        /\ AllGone => Gone("native")
    BY DEF ExecInv, Types, MarkerInv, AllGone, Resources, Containers
  <1>2. ASSUME Reserve PROVE Moves
    BY <1>1, <1>2 DEF Reserve, ExecInv, CleanInv, Starting
  <1>3. ASSUME Arm PROVE Moves
    BY <1>1, <1>3 DEF Arm, Starting
  <1>4. ASSUME Tell \/ TellAck PROVE Moves
    BY <1>1, <1>4, CallsAreTyped DEF Tell, TellAck, Sends, Starting
  <1>5. ASSUME Settle \/ SettleAck PROVE Moves
    BY <1>1, <1>5 DEF Settle, SettleAck, Sends, Starting
  <1>6. ASSUME Native PROVE Moves
    BY <1>1, <1>6, CallsAreTyped DEF Native, Starting
  <1>7. ASSUME Swept PROVE Moves
    <2>1. AllGone \/ missed
      BY <1>7, PassShrinks DEF Swept, ExecInv, CleanInv, Types, AllGone
    <2>2. QED
      BY <1>1, <1>7, <2>1 DEF Swept, Confirmed, Starting
  <1>8. ASSUME ReleaseExecution PROVE Moves
    <2>1. AllGone
      BY <1>8 DEF ReleaseExecution, ExecInv, CleanInv
    <2>2. QED
      BY <1>1, <1>8, <2>1 DEF ReleaseExecution, Starting
  <1>9. ASSUME Retry \/ Restart PROVE Moves
    BY <1>1, <1>9 DEF Retry, Restart, Starting
  <1>10. ASSUME GiveUp \/ Crash PROVE Moves
    BY <1>1, <1>10 DEF GiveUp, Crash, Starting
  <1>11. QED
    BY <1>2, <1>3, <1>4, <1>5, <1>6, <1>7, <1>8, <1>9, <1>10, MovesKeeps

\* A step that does not touch the process only takes from what there is.
LEMMA QuietKeeps ==
  ASSUME ExecInv, Quiet, UNCHANGED <<pc, todo, missed, marker>>,
         child' = "cleaning" => left' \in Suffixes \ {<<>>}
  PROVE  ExecInv'
  <1>1. (AllGone => AllGone') /\ (Gone("native") => Gone("native")')
    BY DEF Quiet, AllGone, Resources, Containers
  <1>2. Types'
    BY DEF ExecInv, Types, Quiet
  <1>3. CleanInv'
    BY <1>1 DEF ExecInv, CleanInv, Quiet, Unswept
  <1>4. MarkerInv'
    BY <1>1 DEF ExecInv, MarkerInv
  <1>5. QED
    BY <1>2, <1>3, <1>4 DEF ExecInv

\* The calls of Start and CollectPatch are made under the reservation.
LEMMA CallsKeep ==
  ASSUME ExecInv, Start \/ CollectPatch
  PROVE  ExecInv'
  <1> USE DEF process, attempt, pass, docker, watchdog, Goto, Clean
  <1>1. /\ pc \in {"setup", "collect"} /\ marker /\ marker' = marker /\ prompt' = prompt
        /\ UNCHANGED <<child, left>> /\ todo \in Seq(Calls)
    BY DEF Start, CollectPatch, ExecInv, Types, MarkerInv, Starting
  <1>2. \/ /\ todo # <<>> /\ Works(Head(todo)) /\ todo' = Tail(todo)
           /\ UNCHANGED <<pc, missed, pending>>
        \/ /\ todo # <<>> /\ Fails(Head(todo))
           /\ pc' = "clean" /\ todo' = Sweep /\ missed' = FALSE
        \/ /\ UNCHANGED docker /\ missed' \in {missed, FALSE}
           /\ pc' = "settle" \/ (pc' = "clean" /\ todo' = Sweep)
    BY DEF Start, CollectPatch
  <1>3. ASSUME todo # <<>>
        PROVE  Head(todo) \in Calls /\ Tail(todo) \in Seq(Calls)
    BY <1>1, <1>3
  <1>4. CASE /\ todo # <<>> /\ Works(Head(todo)) /\ todo' = Tail(todo)
             /\ UNCHANGED <<pc, missed, pending>>
    <2>1. resource' \in [Resources -> States]
      BY <1>3, <1>4, WorksIsTyped DEF ExecInv
    <2>2. QED
      BY <1>1, <1>3, <1>4, <2>1 DEF ExecInv, Types, CleanInv, MarkerInv
  <1>5. CASE /\ todo # <<>> /\ Fails(Head(todo))
             /\ pc' = "clean" /\ todo' = Sweep /\ missed' = FALSE
    <2>1. resource' \in [Resources -> States]
      BY <1>3, <1>5, WorksIsTyped DEF Fails, Late, ExecInv, Types
    <2>2. pending' \subseteq Resources /\ (prompt => pending' = pending)
      BY <1>3, <1>5 DEF Fails, Late, Calls, ExecInv, Types
    <2>3. QED
      BY <1>1, <1>5, <2>1, <2>2, PassShrinks DEF ExecInv, Types, CleanInv, MarkerInv
  <1>6. CASE /\ UNCHANGED docker /\ missed' \in {missed, FALSE}
             /\ pc' = "settle" \/ (pc' = "clean" /\ todo' = Sweep)
    <2>1. Moves
      BY <1>1, <1>6 DEF Moves, ExecInv, Types
    <2>2. QED
      BY <2>1, MovesKeeps
  <1>7. QED
    BY <1>2, <1>4, <1>5, <1>6

\* Every step of the process, the child, Docker and the host keeps it.
LEMMA ExecStep ==
  ASSUME ExecInv, [Next]_vars
  PROVE  ExecInv'
  <1> USE DEF process, attempt, pass, docker, watchdog
  <1>1. CASE Sweeps
    <2>1. /\ Quiet /\ pc' = "clean" /\ todo # <<>> /\ todo' = Tail(todo)
          /\ missed' \in BOOLEAN
          /\ ~missed' => /\ ~missed
                         /\ \A r \in Resources : r = Head(todo) => Gone(r)'
      BY <1>1, SweepsIsQuiet
    <2>2. /\ UNCHANGED <<marker, child, left>> /\ pc = "clean"
          /\ todo \in Suffixes \ {<<>>} /\ Tail(todo) \in Suffixes
          /\ Unswept(todo) \subseteq Unswept(Tail(todo)) \cup {Head(todo)}
      BY <1>1, <2>1, PassShrinks DEF Sweeps, ExecInv, Types
    <2>3. Types'
      BY <2>1, <2>2 DEF ExecInv, Types, Quiet
    <2>4. ASSUME ~missed', NEW r \in Resources, r \notin Unswept(Tail(todo))
          PROVE  Gone(r)'
      <3>1. CASE r = Head(todo)
        BY <2>1, <2>4, <3>1
      <3>2. CASE r # Head(todo)
        <4>1. Gone(r)
          BY <2>1, <2>2, <2>4, <3>2 DEF ExecInv, CleanInv
        <4>2. QED
          BY <2>1, <4>1 DEF Quiet
      <3>3. QED
        BY <3>1, <3>2
    <2>5. MarkerInv'
      BY <2>1, <2>2 DEF ExecInv, MarkerInv, Quiet, Starting, Resources, Containers
    <2>6. Unswept(todo)' = Unswept(Tail(todo))
      BY <2>1 DEF Unswept
    <2>7. QED
      BY <2>1, <2>3, <2>4, <2>5, <2>6 DEF ExecInv, CleanInv, Quiet
  <1>2. CASE Disarm
    <2>1. /\ Quiet /\ pc' \in {"failed", "release"} /\ (pc' = "release" => AllGone')
          /\ UNCHANGED <<missed, marker>>
          /\ child' = "cleaning" => child = "cleaning" /\ left' = left
      BY <1>2, DisarmIsQuiet DEF Disarm, Goto
    <2>2. QED
      BY <2>1 DEF ExecInv, Types, CleanInv, MarkerInv, Quiet, Starting, Resources, Containers
  <1>3. CASE Reboot
    <2>1. /\ Quiet /\ pending' = {} /\ pc' = "dead" /\ UNCHANGED <<missed, marker>>
          /\ child' # "cleaning"
      BY <1>3, RebootIsQuiet DEF Reboot, Dies
    <2>2. QED
      BY <2>1 DEF ExecInv, Types, CleanInv, MarkerInv, Quiet, Starting, Resources, Containers
  <1>4. CASE Lapse \/ ChildReads \/ ChildExpires \/ UNCHANGED vars
    <2>1. /\ UNCHANGED <<pc, todo, missed, marker, resource, pending, prompt>>
          /\ \/ child' \in {child, "lost"} /\ left' = left
             \/ left' = ChildSweep
      BY <1>4 DEF Lapse, ChildReads, ChildExpires, vars
    <2>2. Quiet /\ (child' = "cleaning" => left' \in Suffixes \ {<<>>})
      BY <2>1, UnchangedIsQuiet, PassShrinks DEF ExecInv, Types, Sweep
    <2>3. QED
      BY <2>1, <2>2, QuietKeeps
  <1>5. CASE ChildSweeps
    <2>1. UNCHANGED <<pc, todo, missed, marker>>
      BY <1>5 DEF ChildSweeps
    <2>2. QED
      BY <1>5, <2>1, ChildSweepsIsQuiet, QuietKeeps
  <1>6. ASSUME NEW r \in Resources, Lands(r) \/ Drops(r) PROVE ExecInv'
    <2>1. UNCHANGED <<pc, todo, missed, marker, child, left>>
      BY <1>6 DEF Lands, Drops
    <2>2. QED
      BY <1>6, <2>1, LandingIsQuiet, QuietKeeps DEF ExecInv, Types
  <1>7. QED
    BY <1>1, <1>2, <1>3, <1>4, <1>5, <1>6, CallsKeep, ControlKeeps
    DEF Next, Process, Child

\* So it holds in every state.
LEMMA ExecAlways == Spec => []ExecInv
  <1>1. ExecInv /\ [Next]_vars => ExecInv'
    BY ExecStep
  <1>2. QED
    BY ExecInit, <1>1, PTL DEF Spec

-----------------------------------------------------------------------------
(* The theorems *)

\* Cleanup that succeeds leaves nothing of the transport that runs, and nothing
\* at all where Docker ends a create with its client.
THEOREM CleanedIsGone == Spec => []StoppedMeansGone
  <1>1. ExecInv => StoppedMeansGone
    BY DEF ExecInv, CleanInv, AllGone, Gone, StoppedMeansGone, Runs,
       Resources, Containers
  <1>2. QED
    BY <1>1, ExecAlways, PTL

\* The home is in use only under the reservation, and given up unused.
HomeInv == /\ marker \in BOOLEAN
           /\ UsesHome => marker
           /\ pc \in {"idle", "release"} => ~UsesHome

LEMMA HomeAlways == Spec => []HomeInv
  <1>1. ExecInv => HomeInv
    BY DEF ExecInv, Types, CleanInv, MarkerInv, AllGone, Gone, HomeInv, UsesHome,
       Runs, Resources, Containers
  <1>2. QED
    BY <1>1, ExecAlways, PTL

\* Only the reservation and its release change the marker.
LEMMA MarkerMoves ==
  ASSUME Next, marker' # marker
  PROVE  pc \in {"idle", "release"} /\ UNCHANGED <<docker, prompt>>
  <1> USE DEF process, attempt, pass
  <1>1. ~Process \/ Reserve \/ ReleaseExecution
    BY DEF Process, Arm, Tell, TellAck, Start, Settle, SettleAck, Native, CollectPatch,
       Sweeps, Swept, Disarm, Retry, GiveUp, Restart
  <1>2. CASE Reserve \/ ReleaseExecution
    BY <1>2 DEF Reserve, ReleaseExecution
  <1>3. QED
    BY <1>1, <1>2 DEF Next, Child, Crash, Reboot, Lapse, Lands, Drops, ChildReads,
       ChildExpires, ChildSweeps

\* Every step acquires, enters, leaves or releases the home, or does none of it.
LEMMA CustodyStep ==
  ASSUME HomeInv, HomeInv', [Next]_vars
  PROVE  [Custody!Next]_(Custody!vars)
  <1> USE ExecutionAssumption DEF ExecutionAssumption, Custody!vars, HomeInv
  <1>1. CASE marker' = marker
    BY <1>1 DEF Custody!Next, Custody!Enter, Custody!Leave
  <1>2. CASE marker' # marker
    <2>1. ~UsesHome /\ UNCHANGED <<docker, prompt>>
      BY <1>2, MarkerMoves DEF vars, process, attempt
    <2>2. ~UsesHome'
      BY <2>1 DEF UsesHome, Runs, docker
    <2>3. QED
      BY <1>2, <2>1, <2>2 DEF Custody!Next, Custody!Acquire, Custody!Release
  <1>3. QED
    BY <1>1, <1>2

\* The execution keeps the promise of ProfileCustody with its journal: nothing
\* of it uses the home before the reservation or after its release.
THEOREM HomeIsReserved == Spec => ImplementsProfileCustody
  <1>1. Init => Custody!Init
    BY DEF Init, Custody!Init, UsesHome, Runs, Resources, Containers
  <1>2. HomeInv /\ HomeInv' /\ [Next]_vars => [Custody!Next]_(Custody!vars)
    BY CustodyStep
  <1>3. QED
    BY <1>1, <1>2, HomeAlways, PTL DEF Spec, ImplementsProfileCustody, Custody!Spec

-----------------------------------------------------------------------------
(* Types *)

\* What the invariant above does not need to know of the other variables.
Scalars ==
    /\ pc \in {"idle", "arm", "tell", "tell_ack", "setup", "settle", "settle_ack",
              "unsettle", "unsettle_ack", "native", "collect", "clean", "disarm",
              "release", "failed", "dead", "done"}
    /\ review \in BOOLEAN /\ patch \in {"none", "sources", "empty", "moving"}
    /\ purpose \in {"none", "setup", "native", "collect", "outer"}
    /\ tries \in 0 .. Bound /\ lease \in {"none", "quiet", "told", "closed"}
    /\ child \in {"none", "watching", "cleaning", "gone", "failed", "lost"}
    /\ unread \subseteq {"started", "finished"}
    /\ content \in BOOLEAN /\ told \in BOOLEAN /\ lapsed \in BOOLEAN
    /\ faults \in 0 .. MaxFaults

\* A step spends one fault or none.
LEMMA FaultsAreCounted ==
  ASSUME faults \in 0 .. MaxFaults, Fault \/ Fine
  PROVE  faults' \in 0 .. MaxFaults
  BY ExecutionAssumption DEF ExecutionAssumption, Fault, Fine

\* Whatever becomes of the resources, the volume holds the sources or not.
LEMMA ContentIsTyped ==
  ASSUME NEW rs, NEW filled, Becomes(rs, filled)
  PROVE  content' \in BOOLEAN
  BY Zenon DEF Becomes

\* Steps that make no call, or one that only fails or works, keep the scalars.
LEMMA ScalarsStep ==
  ASSUME Scalars, [Next]_vars
  PROVE  Scalars'
  <1> USE DEF process, attempt, pass, docker, watchdog, Goto, Clean
  <1>1. ASSUME Reserve \/ Arm \/ Tell \/ TellAck PROVE Scalars'
    <2>1. Fault \/ Fine
      BY <1>1, Zenon DEF Reserve, Arm, Tell, TellAck, Acknowledged, Unanswered
    <2>2. /\ UNCHANGED <<review, patch, tries, lapsed, content, told>>
          /\ unread' \in {unread, unread \cup {"started"}} /\ child' \in {child, "watching"}
          /\ purpose' \in {purpose, "outer"} /\ lease' \in {lease, "quiet", "told"}
          /\ pc' \in {"arm", "tell", "tell_ack", "setup", "clean", "failed"}
      BY <1>1 DEF Reserve, Arm, Tell, TellAck, Sends
    <2>3. QED
      BY <2>1, <2>2, FaultsAreCounted DEF Scalars
  <1>2. ASSUME Settle \/ SettleAck \/ Native \/ Swept PROVE Scalars'
    <2>1. Fault \/ Fine
      BY <1>2, Zenon DEF Settle, SettleAck, Acknowledged, Unanswered, Native, Swept, Fine
    <2>2. /\ UNCHANGED <<review, patch, tries, lapsed, child, content, told>>
          /\ unread' \in {unread, unread \cup {"finished"}}
          /\ purpose' \in {purpose, "native", "outer"} /\ lease' \in {lease, "quiet"}
          /\ pc' \in {"native", "clean", "collect", "settle_ack", "unsettle",
                     "unsettle_ack", "failed", "release", "disarm"}
      BY <1>2 DEF Settle, SettleAck, Sends, Native, Swept, Confirmed
    <2>3. QED
      BY <2>1, <2>2, FaultsAreCounted DEF Scalars
  <1>3. ASSUME NEW call, Works(call) \/ Fails(call)
        PROVE  content' \in BOOLEAN \/ content' = content
    BY <1>3, ContentIsTyped, Zenon DEF Works, Fails, Late
  <1>4. ASSUME NEW call, Fails(call)
        PROVE  Fault \/ Fine
    BY <1>4, Zenon DEF Fails
  <1>5. ASSUME Start PROVE Scalars'
    <2>1. /\ UNCHANGED <<review, patch, tries, lease, lapsed, child, told, unread>>
          /\ pc' \in {"setup", "clean", "settle"} /\ purpose' \in {purpose, "setup"}
      BY <1>5 DEF Start
    <2>2. (content' \in BOOLEAN \/ content' = content) /\ (Fault \/ Fine)
      BY <1>3, <1>4, <1>5 DEF Start
    <2>3. QED
      BY <2>1, <2>2, FaultsAreCounted DEF Scalars
  <1>6. ASSUME CollectPatch PROVE Scalars'
    <2>1. /\ UNCHANGED <<review, tries, lease, lapsed, child, told, unread>>
          /\ pc' \in {"collect", "clean"} /\ purpose' \in {purpose, "collect", "outer"}
          /\ patch' \in {patch, "empty", "moving", "sources"}
      BY <1>6 DEF CollectPatch
    <2>2. (content' \in BOOLEAN \/ content' = content) /\ (Fault \/ Fine)
      BY <1>3, <1>4, <1>6 DEF CollectPatch
    <2>3. QED
      BY <2>1, <2>2, FaultsAreCounted DEF Scalars
  <1>7. ASSUME Sweeps \/ Disarm PROVE Scalars'
    <2>1. content' \in BOOLEAN \/ content' = content
      BY <1>7, ContentIsTyped, Zenon DEF Sweeps, Disarm, Removes
    <2>2. Fault \/ Fine
      BY <1>7, Zenon DEF Sweeps, Disarm
    <2>3. /\ UNCHANGED <<review, patch, tries, lapsed, told, unread, purpose>>
          /\ pc' \in {pc, "failed", "release"} /\ lease' \in {lease, "none", "closed"}
          /\ child' \in {child, "gone"}
      BY <1>7 DEF Sweeps, Disarm
    <2>4. QED
      BY <2>1, <2>2, <2>3, FaultsAreCounted DEF Scalars
  <1>8. ASSUME ReleaseExecution \/ Retry \/ GiveUp \/ Restart \/ Crash PROVE Scalars'
    <2>1. Fault \/ Fine
      BY <1>8, Zenon DEF ReleaseExecution, Retry, GiveUp, Restart, Crash, Fine
    <2>2. /\ UNCHANGED <<review, patch, lapsed, content, child, told, unread>>
          /\ purpose' \in {purpose, "outer"} /\ lease' \in {lease, "none"}
          /\ pc' \in {"done", "failed", "clean", "dead"}
      BY <1>8 DEF ReleaseExecution, Retry, GiveUp, Restart, Crash, Dies
    <2>3. tries' \in 0 .. Bound
      BY <1>8, ExecutionAssumption DEF ReleaseExecution, Retry, GiveUp, Restart, Crash, Dies,
         Scalars, ExecutionAssumption
    <2>4. QED
      BY <2>1, <2>2, <2>3, FaultsAreCounted DEF Scalars
  <1>9. ASSUME Reboot PROVE Scalars'
    <2>1. content' \in BOOLEAN
      BY <1>9, ContentIsTyped DEF Reboot
    <2>2. QED
      BY <1>9, <2>1, FaultsAreCounted, ExecutionAssumption
      DEF Reboot, Dies, Scalars, ExecutionAssumption
  <1>10. ASSUME ChildSweeps PROVE Scalars'
    <2>1. content' \in BOOLEAN \/ content' = content
      BY <1>10, ContentIsTyped, Zenon DEF ChildSweeps, Removes
    <2>2. Fault \/ Fine
      BY <1>10, Zenon DEF ChildSweeps
    <2>3. /\ UNCHANGED <<pc, review, patch, purpose, tries, lease, lapsed, unread>>
          /\ child' \in {child, "gone", "failed"} /\ (told' = told \/ told' = FALSE)
      BY <1>10 DEF ChildSweeps
    <2>4. told' \in BOOLEAN
      BY <2>3 DEF Scalars
    <2>5. QED
      BY <2>1, <2>2, <2>3, <2>4, FaultsAreCounted DEF Scalars
  <1>11. ASSUME Lapse \/ ChildReads \/ ChildExpires \/ UNCHANGED vars PROVE Scalars'
    <2>1. ASSUME ChildReads PROVE Scalars'
      <3>1. /\ UNCHANGED <<process, lapsed, docker, faults>> /\ child' \in {child, "lost"}
            /\ unread' \subseteq unread
        BY <2>1 DEF ChildReads
      <3>2. told' \in BOOLEAN
        <4>1. told' = told \/ \E phase \in unread : told' = (phase = "started")
          BY <2>1 DEF ChildReads
        <4>2. QED
          BY <4>1, Zenon DEF Scalars
      <3>3. QED
        BY <3>1, <3>2 DEF Scalars
    <2>2. ASSUME Lapse \/ ChildExpires \/ UNCHANGED vars PROVE Scalars'
      <3>1. /\ UNCHANGED <<pc, review, patch, purpose, tries, lease, content>>
            /\ UNCHANGED <<told, unread, faults>>
            /\ child' \in {child, "cleaning"} /\ lapsed' \in {lapsed, TRUE}
        BY <2>2 DEF Lapse, ChildExpires, vars
      <3>2. lapsed' \in BOOLEAN
        BY <3>1 DEF Scalars
      <3>3. QED
        BY <3>1, <3>2 DEF Scalars
    <2>3. QED
      BY <1>11, <2>1, <2>2
  <1>12. ASSUME NEW r \in Resources, Lands(r) \/ Drops(r) PROVE Scalars'
    <2>1. content' \in BOOLEAN \/ content' = content
      BY <1>12, ContentIsTyped, Zenon DEF Lands, Drops
    <2>2. UNCHANGED <<process, lapsed, watchdog, faults>>
      BY <1>12 DEF Lands, Drops
    <2>3. QED
      BY <2>1, <2>2 DEF Scalars
  <1>13. QED
    BY <1>1, <1>2, <1>5, <1>6, <1>7, <1>8, <1>9, <1>10, <1>11, <1>12
    DEF Next, Process, Child

-----------------------------------------------------------------------------
(* The sources *)

\* What is left of a list of calls when k of them are made.
After(calls, k) == SubSeq(calls, k + 1, Len(calls))

\* Where the setup stands after k calls.  In a review the snapshot writer keeps
\* the volume filled until the repository container runs.
Filled(k) ==
    IF review
    THEN /\ k \in 4 .. 8 => resource["diff"] = "running"
         /\ k >= 5 => content
         /\ k >= 8 => resource["repo"] = "running"
         /\ k = 9 => resource["diff"] = "absent"
    ELSE /\ resource["diff"] = "absent"
         /\ k = 6 => content /\ resource["repo"] = "running"

\* The repository container holds the sources, alone.
Ready == resource["diff"] = "absent" /\ resource["repo"] = "running" /\ content

\* Where the collection stands after k calls.
Frozen(k) == content /\ resource["repo"] = IF k = 0 THEN "running" ELSE "paused"

\* The native container sees the sources: the child leaves them alone, or has yet
\* to take the native container away, or has done so.
Served == IF child = "watching" THEN Ready
          ELSE \/ child = "cleaning" /\ left = ChildSweep /\ Ready
               \/ resource["native"] = "absent"

\* What the process has made of Docker: all of it while the child watches.
Watching == child = "watching"
Progress ==
    /\ pc \in {"idle", "arm", "tell", "tell_ack"} =>
          (child \in {"none", "watching"} => resource["diff"] = "absent")
    /\ pc = "setup" /\ Watching =>
          \E k \in 0 .. Len(Setup) : todo = After(Setup, k) /\ Filled(k)
    /\ pc \in {"settle", "settle_ack"} /\ Watching => Ready
    /\ pc = "settle_ack" /\ "finished" \notin unread => Served
    /\ pc = "native" => Served
    /\ pc = "collect" =>
          \E k \in 0 .. Len(Collection) :
             /\ todo = After(Collection, k)
             /\ Watching => Frozen(k)
             /\ k >= 1 => resource["repo"] \in {"paused", "absent"}

\* The child is there from the arming on, and no create is under way that the
\* process has not seen the end of.
SourcesInv ==
    /\ patch # "moving" /\ (patch = "empty" => child \notin {"none", "watching"})
    /\ pc \in {"idle", "arm"} => child = "none" /\ patch = "none"
    /\ pc \in Starting \ {"idle", "arm"} => child # "none" /\ lease # "none"
    /\ pc \in Starting => pending = {}
    /\ Progress

\* The calls of the two lists, by number.
LEMMA CallsByNumber ==
  /\ Setup \in Seq(Calls) /\ Collection \in Seq(Calls)
  /\ Len(Setup) = (IF review THEN 9 ELSE 6) /\ Len(Collection) = 4
  /\ review => /\ Setup[1] = Call("create", "volume") /\ Setup[2] = Call("create", "native")
               /\ Setup[3] = Call("create", "diff") /\ Setup[4] = Call("start", "diff")
               /\ Setup[5] = Call("fill", "diff") /\ Setup[6] = Call("create", "repo")
               /\ Setup[7] = Call("start", "native") /\ Setup[8] = Call("start", "repo")
               /\ Setup[9] = Call("remove", "diff")
  /\ ~review => /\ Setup[1] = Call("create", "volume") /\ Setup[2] = Call("create", "native")
                /\ Setup[3] = Call("create", "repo") /\ Setup[4] = Call("start", "native")
                /\ Setup[5] = Call("start", "repo") /\ Setup[6] = Call("fill", "repo")
  /\ Collection[1] = Call("pause", "repo") /\ Collection[2] = Call("create", "diff")
  /\ Collection[3] = Call("start", "diff") /\ Collection[4] = Call("read", "diff")
  <1>1. CASE review
    BY <1>1, CallsAreTyped DEF Setup, Collection
  <1>2. CASE ~review
    BY <1>2, CallsAreTyped DEF Setup, Collection
  <1>3. QED
    BY <1>1, <1>2

\* The next call of a list, and what is left after it.
LEMMA NextCall ==
  ASSUME NEW calls \in Seq(Calls), NEW k \in 0 .. Len(calls)
  PROVE  /\ After(calls, 0) = calls
         /\ After(calls, k) = <<>> <=> k = Len(calls)
         /\ k < Len(calls) => /\ Head(After(calls, k)) = calls[k + 1]
                              /\ Tail(After(calls, k)) = After(calls, k + 1)
  <1>1. After(calls, 0) = calls
    BY DEF After
  <1>2. After(calls, k) = <<>> <=> k = Len(calls)
    <2>1. CASE k = Len(calls)
      BY <2>1, SubSeqEmpty DEF After
    <2>2. CASE k < Len(calls)
      <3>1. Len(After(calls, k)) # 0
        BY <2>2, SubSeqProperties DEF After
      <3>2. Len(<<>>) = 0
        OBVIOUS
      <3>3. After(calls, k) # <<>>
        BY <3>1, <3>2, Zenon
      <3>4. QED
        BY <2>2, <3>3
    <2>3. QED
      BY <2>1, <2>2
  <1>3. k < Len(calls) => /\ Head(After(calls, k)) = calls[k + 1]
                          /\ Tail(After(calls, k)) = After(calls, k + 1)
    <2>1. ASSUME k < Len(calls)
          PROVE  k + 1 \in 1 .. Len(calls) /\ Len(calls) \in k + 1 .. Len(calls)
      BY <2>1
    <2>2. ASSUME k < Len(calls)
          PROVE  /\ Head(SubSeq(calls, k + 1, Len(calls))) = calls[k + 1]
                 /\ Tail(SubSeq(calls, k + 1, Len(calls)))
                       = SubSeq(calls, k + 1 + 1, Len(calls))
      BY <2>1, <2>2, HeadTailOfSubSeq
    <2>3. QED
      BY <2>2 DEF After
  <1>4. QED
    BY <1>1, <1>2, <1>3

\* The two lists, call by call.
LEMMA ListsAdvance ==
  /\ After(Setup, 0) = Setup /\ After(Collection, 0) = Collection
  /\ Len(Setup) \in Nat /\ Len(Collection) \in Nat
  /\ \A k \in 0 .. Len(Setup) :
        /\ After(Setup, k) = <<>> <=> k = Len(Setup)
        /\ k < Len(Setup) => /\ Head(After(Setup, k)) = Setup[k + 1]
                             /\ Tail(After(Setup, k)) = After(Setup, k + 1)
  /\ \A k \in 0 .. Len(Collection) :
        /\ After(Collection, k) = <<>> <=> k = Len(Collection)
        /\ k < Len(Collection) => /\ Head(After(Collection, k)) = Collection[k + 1]
                                  /\ Tail(After(Collection, k)) = After(Collection, k + 1)
  <1>1. /\ Setup \in Seq(Calls) /\ Collection \in Seq(Calls)
        /\ Len(Setup) \in Nat /\ Len(Collection) \in Nat
    BY CallsByNumber
  <1>2. 0 \in 0 .. Len(Setup) /\ 0 \in 0 .. Len(Collection)
    BY <1>1
  <1>3. QED
    BY <1>1, <1>2, NextCall

\* A call that worked, by what it does.
LEMMA CallEffect ==
  ASSUME Types, content \in BOOLEAN, NEW verb \in Verbs, NEW r \in Resources,
         Works(Call(verb, r))
  PROVE  /\ resource[r] \in Needs[verb] /\ resource'[r] = Gives[verb]
         /\ \A x \in Resources \ {r, "volume"} : resource'[x] = resource[x]
         /\ content' => content \/ verb = "fill"
         /\ /\ content \/ verb = "fill"
            /\ \E c \in {"repo", "diff"} : resource'[c] \in {"running", "paused"}
            => content'
  <1>1. /\ resource' = Given(r, Gives[verb]) /\ resource[r] \in Needs[verb]
        /\ content' = /\ content \/ verb = "fill"
                      /\ \/ resource'["volume"] = "foreign"
                         \/ \E c \in {"repo", "diff"} : resource'[c] \in {"running", "paused"}
    BY DEF Works, Becomes, Possible, Call, Mounts
  <1>2. Gives[verb] \in States
    BY DEF Gives, Verbs, States
  <1>3. QED
    BY <1>1, <1>2, GivenIsTyped

\* Each call of the setup takes it one further.
LEMMA SetupAdvances ==
  ASSUME Types, Scalars, NEW k \in 0 .. Len(Setup) - 1, Filled(k),
         Works(Setup[k + 1]), UNCHANGED review
  PROVE  Filled(k + 1)'
  <1> USE DEF Needs, Gives, Verbs, Resources, Containers
  <1>1. Types /\ content \in BOOLEAN /\ Len(Setup) = (IF review THEN 9 ELSE 6)
    BY CallsByNumber DEF Scalars
  <1>2. CASE review
    <2>1. k \in 0 .. 8
      BY <1>1, <1>2
    <2>2. CASE k \in {0, 1, 5, 6}
      <3>1. \E r \in {"volume", "native", "repo"}, verb \in {"create", "start"} :
               Setup[k + 1] = Call(verb, r) /\ (r = "repo" => verb = "create")
        BY <1>2, <2>2, CallsByNumber
      <3>2. PICK r \in {"volume", "native", "repo"}, verb \in {"create", "start"} :
               Setup[k + 1] = Call(verb, r) /\ (r = "repo" => verb = "create")
        BY <3>1
      <3>3. /\ \A x \in Resources \ {r, "volume"} : resource'[x] = resource[x]
            /\ /\ content
               /\ \E c \in {"repo", "diff"} : resource'[c] \in {"running", "paused"}
               => content'
        BY <1>1, <3>2, CallEffect
      <3>4. QED
        BY <1>2, <2>2, <3>2, <3>3 DEF Filled
    <2>3. CASE k = 2
      BY <1>2, <2>3 DEF Filled
    <2>4. CASE k = 3
      <3>1. Works(Call("start", "diff"))
        BY <1>2, <2>4, CallsByNumber
      <3>2. resource'["diff"] = "running"
        BY <1>1, <3>1, CallEffect
      <3>3. QED
        BY <1>2, <2>4, <3>2 DEF Filled
    <2>5. CASE k = 4
      <3>1. Works(Call("fill", "diff"))
        BY <1>2, <2>5, CallsByNumber
      <3>2. resource'["diff"] = "running" /\ content'
        BY <1>1, <3>1, CallEffect
      <3>3. QED
        BY <1>2, <2>5, <3>2 DEF Filled
    <2>6. CASE k = 7
      <3>1. Works(Call("start", "repo"))
        BY <1>2, <2>6, CallsByNumber
      <3>2. /\ resource'["repo"] = "running" /\ resource'["diff"] = resource["diff"]
            /\ content => content'
        BY <1>1, <3>1, CallEffect
      <3>3. QED
        BY <1>2, <2>6, <3>2 DEF Filled
    <2>7. CASE k = 8
      <3>1. Works(Call("remove", "diff"))
        BY <1>2, <2>7, CallsByNumber
      <3>2. resource["repo"] = "running" /\ content
        BY <1>2, <2>7 DEF Filled
      <3>3. /\ resource'["diff"] = "absent" /\ resource'["repo"] = "running" /\ content'
        BY <1>1, <3>1, <3>2, CallEffect
      <3>4. QED
        BY <1>2, <2>7, <3>3 DEF Filled
    <2>8. QED
      BY <2>1, <2>2, <2>3, <2>4, <2>5, <2>6, <2>7
  <1>3. CASE ~review
    <2>1. k \in 0 .. 5
      BY <1>1, <1>3
    <2>2. CASE k \in 0 .. 4
      <3>1. \E r \in {"volume", "native", "repo"}, verb \in {"create", "start"} :
               Setup[k + 1] = Call(verb, r)
        BY <1>3, <2>2, CallsByNumber
      <3>2. PICK r \in {"volume", "native", "repo"}, verb \in {"create", "start"} :
               Setup[k + 1] = Call(verb, r)
        BY <3>1
      <3>3. resource'["diff"] = resource["diff"]
        BY <1>1, <3>2, CallEffect
      <3>4. QED
        BY <1>3, <2>2, <3>3 DEF Filled
    <2>3. CASE k = 5
      <3>1. Works(Call("fill", "repo"))
        BY <1>3, <2>3, CallsByNumber
      <3>2. /\ resource'["repo"] = "running" /\ resource'["diff"] = resource["diff"]
            /\ content'
        BY <1>1, <3>1, CallEffect
      <3>3. QED
        BY <1>3, <2>3, <3>2 DEF Filled
    <2>4. QED
      BY <2>1, <2>2, <2>3
  <1>4. QED
    BY <1>2, <1>3

\* Once the repository is frozen, the collector's container is all there is to do.
LEMMA CollectorIsLast ==
  ASSUME NEW k \in 1 .. 3
  PROVE  \E verb \in {"create", "start", "read"} : Collection[k + 1] = Call(verb, "diff")
  <1>1. k = 1 \/ k = 2 \/ k = 3
    OBVIOUS
  <1>2. QED
    BY <1>1, CallsByNumber

\* Each call of the collection does, and the last one reads sources at rest.
LEMMA CollectionAdvances ==
  ASSUME Types, Scalars, NEW k \in 0 .. Len(Collection) - 1, Frozen(k),
         Works(Collection[k + 1])
  PROVE  /\ Frozen(k + 1)'
         /\ Collection[k + 1].verb = "read" => content /\ resource["repo"] = "paused"
  <1> USE DEF Needs, Gives, Verbs, Resources, Containers
  <1>1. k \in 0 .. 3 /\ content \in BOOLEAN
    BY CallsByNumber DEF Scalars
  <1>2. CASE k = 0
    <2>1. Works(Call("pause", "repo")) /\ Collection[k + 1].verb = "pause"
      BY <1>2, CallsByNumber DEF Call
    <2>2. resource'["repo"] = "paused" /\ (content => content')
      BY <1>1, <2>1, CallEffect
    <2>3. QED
      BY <1>2, <2>1, <2>2 DEF Frozen
  <1>3. CASE k \in 1 .. 3
    <2>1. PICK verb \in {"create", "start", "read"} : Collection[k + 1] = Call(verb, "diff")
      BY <1>3, CollectorIsLast
    <2>2. resource["repo"] = "paused" /\ content
      BY <1>3 DEF Frozen
    <2>3. resource'["repo"] = "paused" /\ content'
      BY <1>1, <2>1, <2>2, CallEffect
    <2>4. QED
      BY <1>3, <2>2, <2>3 DEF Frozen
  <1>4. QED
    BY <1>1, <1>2, <1>3

\* Once the repository is frozen it runs no more, whoever removes it.
LEMMA FrozenStays ==
  ASSUME Types, Scalars, NEW k \in 0 .. Len(Collection) - 1, Works(Collection[k + 1]),
         k >= 1 => resource["repo"] \in {"paused", "absent"}
  PROVE  /\ resource'["repo"] \in {"paused", "absent"}
         /\ Collection[k + 1].verb = "read" => resource["repo"] # "running"
  <1> USE DEF Needs, Gives, Verbs, Resources, Containers
  <1>1. k \in 0 .. 3 /\ content \in BOOLEAN
    BY CallsByNumber DEF Scalars
  <1>2. CASE k = 0
    <2>1. Works(Call("pause", "repo")) /\ Collection[k + 1].verb = "pause"
      BY <1>2, CallsByNumber DEF Call
    <2>2. resource'["repo"] = "paused"
      BY <1>1, <2>1, CallEffect
    <2>3. QED
      BY <2>1, <2>2
  <1>3. CASE k \in 1 .. 3
    <2>1. PICK verb \in {"create", "start", "read"} : Collection[k + 1] = Call(verb, "diff")
      BY <1>3, CollectorIsLast
    <2>2. resource'["repo"] = resource["repo"]
      BY <1>1, <2>1, CallEffect
    <2>3. QED
      BY <1>3, <2>2
  <1>4. QED
    BY <1>1, <1>2, <1>3

\* A step that ends the setup, the commands or the collection, or that leaves
\* the process where nothing depends on the sources.
LEMMA LeavingKeeps ==
  ASSUME SourcesInv, pc' \notin Starting, UNCHANGED patch,
         child' \in {"none", "watching"} => child' = child
  PROVE  SourcesInv'
  BY DEF SourcesInv, Progress, Starting

\* What the process has made of Docker stays while nobody touches Docker.
LEMMA ProgressStays ==
  ASSUME Progress, UNCHANGED <<pc, todo, review, resource, content, child, left, unread>>
  PROVE  Progress'
  <1>1. /\ UNCHANGED <<Ready, Served, Watching>> /\ Setup' = Setup
        /\ \A k : (Filled(k)' <=> Filled(k)) /\ (Frozen(k)' <=> Frozen(k))
    BY DEF Ready, Served, Watching, Setup, Filled, Frozen
  <1>2. QED
    BY <1>1 DEF Progress, After

\* The child reads what was sent: it does not go away while it is connected.
LEMMA ReadingKeeps ==
  ASSUME SourcesInv, pc \in Starting, ChildReads
  PROVE  SourcesInv'
  <1>1. /\ UNCHANGED <<pc, todo, patch, review, resource, content, pending, left, lease>>
        /\ child = "watching" /\ unread' \subseteq unread
    BY DEF ChildReads, process, attempt, pass, docker
  <1>2. pc \notin {"idle", "arm"} /\ lease # "none"
    BY <1>1 DEF SourcesInv, Starting
  <1>3. child' = "watching"
    BY <1>1, <1>2 DEF ChildReads, Connected
  <1>4. /\ UNCHANGED <<Ready, Watching>> /\ Setup' = Setup
        /\ \A k : (Filled(k)' <=> Filled(k)) /\ (Frozen(k)' <=> Frozen(k))
    BY <1>1, <1>3 DEF Ready, Watching, Setup, Filled, Frozen
  <1>5. pc \in {"native", "settle_ack"} => Served'
    BY <1>1, <1>3, <1>4 DEF SourcesInv, Progress, Served, Watching
  <1>6. Progress'
    BY <1>1, <1>3, <1>4, <1>5 DEF SourcesInv, Progress, After
  <1>7. QED
    BY <1>1, <1>2, <1>3, <1>6 DEF SourcesInv

\* It begins its cleanup with everything still there.
LEMMA ExpiryKeeps ==
  ASSUME SourcesInv, pc \in Starting, ChildExpires
  PROVE  SourcesInv'
  <1>1. /\ UNCHANGED <<pc, todo, patch, review, resource, content, pending, lease, unread>>
        /\ child = "watching" /\ child' = "cleaning" /\ left' = ChildSweep
    BY DEF ChildExpires, process, attempt, pass, docker
  <1>2. ~Watching' /\ (Ready' <=> Ready) /\ (ChildSweep' = ChildSweep)
    BY <1>1 DEF Watching, Ready, ChildSweep
  <1>3. Served => Served'
    BY <1>1, <1>2 DEF Served
  <1>4. pc \notin {"idle", "arm"}
    BY <1>1 DEF SourcesInv
  <1>5. Progress'
    BY <1>1, <1>2, <1>3, <1>4 DEF SourcesInv, Progress, After
  <1>6. QED
    BY <1>1, <1>4, <1>5 DEF SourcesInv

\* It takes the native container away before anything that container sees.
LEMMA SweepingKeeps ==
  ASSUME SourcesInv, Types, pc \in Starting, ChildSweeps
  PROVE  SourcesInv'
  <1>1. /\ UNCHANGED <<pc, todo, patch, review, pending, lease, unread>>
        /\ child = "cleaning" /\ child' \in {"cleaning", "gone", "failed"}
    BY DEF ChildSweeps, process, attempt, pass
  <1>2. left \in Suffixes \ {<<>>}
    BY <1>1 DEF Types
  <1>3. PICK r \in Resources : r = Head(left)
    BY <1>2, PassShrinks
  <1>4. Removes(r) \/ UNCHANGED <<resource, content>>
    BY <1>3 DEF ChildSweeps
  <1>5. \A x \in Resources : resource'[x] \in {resource[x], "absent"}
    BY <1>4 DEF Removes, Becomes, Types
  <1>6. Head(ChildSweep) = "native"
    BY DEF ChildSweep
  <1>7. ASSUME Served PROVE Served'
    <2>1. CASE resource["native"] = "absent"
      BY <1>1, <1>5, <2>1 DEF Served, Resources, Containers
    <2>2. CASE left = ChildSweep
      <3>1. r = "native"
        BY <1>3, <1>6, <2>2
      <3>2. Removes(r)
        BY <1>3, <3>1 DEF ChildSweeps
      <3>3. resource'["native"] = "absent"
        BY <3>1, <3>2 DEF Removes, Becomes, Types
      <3>4. QED
        BY <1>1, <3>3 DEF Served
    <2>3. QED
      BY <1>1, <1>7, <2>1, <2>2 DEF Served
  <1>8. ~Watching' /\ ~Watching
    BY <1>1 DEF Watching
  <1>9. resource["repo"] \in {"paused", "absent"} => resource'["repo"] \in {"paused", "absent"}
    BY <1>5 DEF Resources, Containers
  <1>10. pc \notin {"idle", "arm"}
    BY <1>1 DEF SourcesInv
  <1>11. Progress'
    BY <1>1, <1>7, <1>8, <1>9, <1>10 DEF SourcesInv, Progress, After
  <1>12. QED
    BY <1>1, <1>10, <1>11 DEF SourcesInv

\* A step beside the process while it works.
LEMMA BesideKeeps ==
  ASSUME SourcesInv, Types, pc \in Starting,
         \/ Lapse \/ Child \/ UNCHANGED vars
         \/ \E r \in Resources : Lands(r) \/ Drops(r)
  PROVE  SourcesInv'
  <1> USE DEF process, attempt, pass, docker, watchdog
  <1>1. CASE Lapse \/ UNCHANGED vars
    <2>1. /\ UNCHANGED <<pc, todo, patch, review, lease, resource, content, pending>>
          /\ UNCHANGED <<child, left, unread>>
      BY <1>1 DEF Lapse, vars
    <2>2. Progress'
      BY <2>1, ProgressStays DEF SourcesInv
    <2>3. QED
      BY <2>1, <2>2 DEF SourcesInv
  <1>2. pending = {}
    BY DEF SourcesInv
  <1>3. QED
    BY <1>1, <1>2, ReadingKeeps, ExpiryKeeps, SweepingKeeps DEF Child, Lands, Drops

\* The steps of the process before its cleanup.
LEMMA StartKeeps ==
  ASSUME SourcesInv, Types, Scalars, Start
  PROVE  SourcesInv'
  <1> USE DEF process, attempt, pass, docker, watchdog, Goto, Clean
  <1>1. /\ pc = "setup" /\ UNCHANGED <<patch, review, child, lease>>
        /\ \/ /\ todo # <<>> /\ Works(Head(todo)) /\ todo' = Tail(todo)
              /\ UNCHANGED <<pc, pending>>
           \/ pc' = "clean"
           \/ todo = <<>> /\ pc' = "settle" /\ UNCHANGED docker
    BY DEF Start
  <1>2. Setup' = Setup /\ Len(Setup) \in Nat /\ (Watching' <=> Watching)
    BY <1>1, CallsByNumber DEF Setup, Watching
  <1>3. ASSUME Watching
        PROVE  \E k \in 0 .. Len(Setup) : todo = After(Setup, k) /\ Filled(k)
    BY <1>1, <1>3 DEF SourcesInv, Progress
  <1>4. CASE /\ todo # <<>> /\ Works(Head(todo)) /\ todo' = Tail(todo)
             /\ UNCHANGED <<pc, pending>>
    <2>1. ASSUME Watching
          PROVE  \E j \in 0 .. Len(Setup') : todo' = After(Setup', j) /\ Filled(j)'
      <3>1. PICK k \in 0 .. Len(Setup) : todo = After(Setup, k) /\ Filled(k)
        BY <1>3, <2>1
      <3>2. /\ k \in 0 .. Len(Setup) - 1 /\ Works(Setup[k + 1])
            /\ todo' = After(Setup, k + 1)
        BY <1>2, <1>4, <3>1, ListsAdvance
      <3>3. Filled(k + 1)'
        BY <1>1, <3>1, <3>2, SetupAdvances
      <3>4. \E j \in 0 .. Len(Setup) : todo' = After(Setup, j) /\ Filled(j)'
        BY <1>2, <3>2, <3>3
      <3>5. QED
        BY <1>2, <3>4
    <2>2. Progress'
      BY <1>1, <1>2, <1>4, <2>1 DEF Progress, After
    <2>3. QED
      BY <1>1, <1>4, <2>2 DEF SourcesInv, Starting
  <1>5. CASE pc' = "clean"
    BY <1>1, <1>5, LeavingKeeps DEF Starting
  <1>6. CASE todo = <<>> /\ pc' = "settle" /\ UNCHANGED docker
    <2>1. Watching => Ready
      <3>1. ASSUME Watching PROVE Filled(Len(Setup))
        <4>1. PICK k \in 0 .. Len(Setup) : todo = After(Setup, k) /\ Filled(k)
          BY <1>3, <3>1
        <4>2. k = Len(Setup)
          BY <1>6, <4>1, ListsAdvance
        <4>3. QED
          BY <4>1, <4>2
      <3>2. CASE review
        BY <3>1, <3>2, CallsByNumber DEF Filled, Ready
      <3>3. CASE ~review
        BY <3>1, <3>3, CallsByNumber DEF Filled, Ready
      <3>4. QED
        BY <3>2, <3>3
    <2>2. Ready' <=> Ready
      BY <1>6 DEF Ready
    <2>3. Progress'
      BY <1>1, <1>2, <1>6, <2>1, <2>2 DEF Progress
    <2>4. QED
      BY <1>1, <1>6, <2>3 DEF SourcesInv, Starting
  <1>7. QED
    BY <1>1, <1>4, <1>5, <1>6

\* So are those of the collection, and what the last one reads is at rest.
LEMMA CollectKeeps ==
  ASSUME SourcesInv, Types, Scalars, CollectPatch
  PROVE  SourcesInv'
  <1> USE DEF process, attempt, pass, docker, watchdog, Goto, Clean
  <1>1. /\ pc = "collect" /\ UNCHANGED <<review, child, lease>>
        /\ \/ /\ todo # <<>> /\ Works(Head(todo)) /\ todo' = Tail(todo)
              /\ UNCHANGED <<pc, pending>>
              /\ patch' = IF Head(todo).verb = "read"
                          THEN IF ~content THEN "empty"
                               ELSE IF resource["repo"] = "running" THEN "moving"
                               ELSE "sources"
                          ELSE patch
           \/ pc' = "clean" /\ patch' = patch
    BY DEF CollectPatch
  <1>2. CASE /\ todo # <<>> /\ Works(Head(todo)) /\ todo' = Tail(todo)
             /\ UNCHANGED <<pc, pending>>
             /\ patch' = IF Head(todo).verb = "read"
                         THEN IF ~content THEN "empty"
                              ELSE IF resource["repo"] = "running" THEN "moving"
                              ELSE "sources"
                         ELSE patch
    <2>1. PICK k \in 0 .. Len(Collection) :
             /\ todo = After(Collection, k)
             /\ Watching => Frozen(k)
             /\ k >= 1 => resource["repo"] \in {"paused", "absent"}
      BY <1>1 DEF SourcesInv, Progress
    <2>2. /\ k \in 0 .. Len(Collection) - 1 /\ Head(todo) = Collection[k + 1]
          /\ Works(Collection[k + 1]) /\ todo' = After(Collection, k + 1)
      BY <1>2, <2>1, ListsAdvance
    <2>3. /\ Watching => Frozen(k + 1)'
          /\ Watching => (Collection[k + 1].verb = "read" => content)
      BY <2>1, <2>2, CollectionAdvances
    <2>4. /\ resource'["repo"] \in {"paused", "absent"}
          /\ Collection[k + 1].verb = "read" => resource["repo"] # "running"
      BY <2>1, <2>2, FrozenStays
    <2>5. /\ k + 1 \in 0 .. Len(Collection') /\ todo' = After(Collection', k + 1)
          /\ Watching' => Frozen(k + 1)'
      BY <1>1, <2>2, <2>3, CallsByNumber DEF Watching, Collection
    <2>6. child # "none"
      BY <1>1 DEF SourcesInv, Starting
    <2>7. patch' # "moving" /\ (patch' = "empty" => child' \notin {"none", "watching"})
      BY <1>1, <1>2, <2>2, <2>3, <2>4, <2>6 DEF SourcesInv, Watching
    <2>8. Progress'
      BY <1>1, <1>2, <2>4, <2>5 DEF Progress, After
    <2>9. QED
      BY <1>1, <1>2, <2>7, <2>8 DEF SourcesInv, Starting
  <1>3. CASE pc' = "clean" /\ patch' = patch
    BY <1>1, <1>3, LeavingKeeps DEF Starting
  <1>4. QED
    BY <1>1, <1>2, <1>3

\* The other steps before it make no call, and go on when the child has answered.
LEMMA BeforeKeeps ==
  ASSUME SourcesInv, Types,
         Reserve \/ Arm \/ Tell \/ TellAck \/ Settle \/ SettleAck \/ Native
  PROVE  SourcesInv'
  <1> USE DEF process, attempt, pass, docker, watchdog, Goto, Clean
  <1>1. UNCHANGED <<patch, review, docker>> /\ (child' = child \/ (pc = "arm" /\ pc' = "tell"))
    BY DEF Reserve, Arm, Tell, TellAck, Settle, SettleAck, Native, Sends
  <1>2. UNCHANGED Ready /\ (resource'["diff"] = resource["diff"])
    BY <1>1 DEF Ready
  <1>3. CASE pc' \notin Starting
    BY <1>1, <1>3, LeavingKeeps DEF Starting
  <1>4. CASE pc' \in Starting
    <2>1. CASE Reserve
      BY <1>2, <1>4, <2>1 DEF Reserve, SourcesInv, Progress, Starting
    <2>2. CASE Arm
      BY <1>2, <1>4, <2>2 DEF Arm, SourcesInv, Progress, Starting
    <2>3. CASE Tell
      BY <1>2, <1>4, <2>3 DEF Tell, Sends, SourcesInv, Progress, Starting
    <2>4. CASE TellAck
      <3>1. /\ pc = "tell_ack" /\ pc' = "setup" /\ todo' = Setup /\ UNCHANGED <<child, lease>>
        BY <1>4, <2>4 DEF TellAck, Starting
      <3>2. Setup' = Setup /\ Len(Setup) \in Nat /\ After(Setup, 0) = Setup
        BY <1>1, ListsAdvance DEF Setup
      <3>3. Watching' => Filled(0)'
        BY <1>1, <1>2, <3>1 DEF Filled, SourcesInv, Progress, Watching
      <3>4. 0 \in 0 .. Len(Setup') /\ todo' = After(Setup', 0)
        BY <3>1, <3>2
      <3>5. Progress'
        BY <3>1, <3>3, <3>4 DEF Progress, After
      <3>6. QED
        BY <1>1, <3>1, <3>5 DEF SourcesInv, Starting
    <2>5. CASE Settle
      BY <1>1, <1>2, <1>4, <2>5 DEF Settle, Sends, SourcesInv, Progress, Watching, Starting
    <2>6. CASE SettleAck
      <3>1. /\ pc = "settle_ack" /\ pc' = "native" /\ "finished" \notin unread
            /\ lease' = "quiet" /\ UNCHANGED <<child, left>>
        BY <1>4, <2>6 DEF SettleAck, Acknowledged, Starting
      <3>2. Served'
        BY <1>1, <1>2, <3>1 DEF SourcesInv, Progress, Served, ChildSweep
      <3>3. QED
        BY <1>1, <3>1, <3>2 DEF SourcesInv, Progress, Starting
    <2>7. CASE Native
      <3>1. /\ pc = "native" /\ pc' = "collect" /\ todo' = Collection
            /\ UNCHANGED <<child, lease>>
        BY <1>4, <2>7 DEF Native, Starting
      <3>2. /\ Collection' = Collection /\ Len(Collection) \in Nat
            /\ After(Collection, 0) = Collection
        BY ListsAdvance DEF Collection
      <3>3. Watching' => Frozen(0)'
        BY <1>1, <3>1 DEF Frozen, SourcesInv, Progress, Served, Watching, Ready
      <3>4. /\ 0 \in 0 .. Len(Collection') /\ todo' = After(Collection', 0)
        BY <3>1, <3>2
      <3>5. Progress'
        BY <3>1, <3>3, <3>4 DEF Progress, After
      <3>6. QED
        BY <1>1, <3>1, <3>5 DEF SourcesInv, Starting
    <2>8. QED
      BY <2>1, <2>2, <2>3, <2>4, <2>5, <2>6, <2>7
  <1>5. QED
    BY <1>3, <1>4

\* Once the process cleans up it never works again.
LEMMA SourcesStep ==
  ASSUME SourcesInv, Types, Scalars, [Next]_vars
  PROVE  SourcesInv'
  <1> USE DEF process, attempt, pass, docker, watchdog, Goto, Clean
  <1>1. CASE \/ Lapse \/ Child \/ UNCHANGED vars
             \/ \E r \in Resources : Lands(r) \/ Drops(r)
    <2>1. /\ UNCHANGED <<pc, patch>>
          /\ child' \in {"none", "watching"} => child' = child
      BY <1>1 DEF Lapse, Child, ChildReads, ChildExpires, ChildSweeps, Lands, Drops, vars
    <2>2. QED
      BY <1>1, <2>1, BesideKeeps, LeavingKeeps
  <1>2. CASE Sweeps \/ Swept \/ Disarm \/ ReleaseExecution
    <2>1. /\ UNCHANGED patch /\ pc' \notin Starting
          /\ child' \in {"none", "watching"} => child' = child
      BY <1>2 DEF Sweeps, Swept, Confirmed, Disarm, ReleaseExecution, Starting
    <2>2. QED
      BY <2>1, LeavingKeeps
  <1>3. CASE Retry \/ GiveUp \/ Restart \/ Crash \/ Reboot
    <2>1. /\ UNCHANGED patch /\ pc' \notin Starting
          /\ child' \in {"none", "watching"} => child' = child
      BY <1>3 DEF Retry, GiveUp, Restart, Crash, Reboot, Dies, Starting
    <2>2. QED
      BY <2>1, LeavingKeeps
  <1>4. QED
    BY <1>1, <1>2, <1>3, StartKeeps, CollectKeeps, BeforeKeeps
    DEF Next, Process

\* Although the child may clean up in the middle of the attempt: as long as the
\* native container runs the tools see the claim's sources, which nobody else can
\* write, and the patch that leaves is at rest, and of these sources unless the
\* child had begun.
THEOREM SourcesAreIntact == Spec => []SourcesIntact
  <1>1. Init => Scalars /\ SourcesInv
    <2> SUFFICES ASSUME Init PROVE Scalars /\ SourcesInv
      OBVIOUS
    <2>1. Scalars
      <3>1. tries \in 0 .. Bound /\ faults \in 0 .. MaxFaults
        BY ExecutionAssumption DEF Init, ExecutionAssumption
      <3>2. QED
        BY <3>1, Zenon DEF Init, Scalars
    <2>2. resource["diff"] = "absent"
      BY DEF Init, Resources, Containers
    <2>3. SourcesInv
      BY <2>2 DEF Init, SourcesInv, Progress
    <2>4. QED
      BY <2>1, <2>3
  <1>2. ExecInv /\ Scalars /\ SourcesInv /\ [Next]_vars => (Scalars /\ SourcesInv)'
    BY ScalarsStep, SourcesStep DEF ExecInv
  <1>3. ExecInv /\ Scalars /\ SourcesInv => SourcesIntact
    <2> SUFFICES ASSUME ExecInv, Scalars, SourcesInv PROVE SourcesIntact
      OBVIOUS
    <2>1. TypeOK
      BY DEF ExecInv, Types, Scalars, TypeOK
    <2>2. ToolsSeeSources
      BY DEF SourcesInv, Progress, Served, Ready, ToolsSeeSources, Runs
    <2>3. PatchIsSettled
      BY DEF SourcesInv, PatchIsSettled
    <2>4. QED
      BY <2>1, <2>2, <2>3 DEF SourcesIntact
  <1>4. QED
    BY ExecAlways, <1>1, <1>2, <1>3, PTL DEF Spec
=============================================================================
