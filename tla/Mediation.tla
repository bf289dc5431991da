----------------------------- MODULE Mediation ------------------------------
(***************************************************************************)
(* The bridge between the native container and the host: codex-mcp.mjs in  *)
(* the container, serviceBridge and the Mediator in RunNative's loop on    *)
(* the host.  They share a directory with one request and one response     *)
(* file, each renamed into place; only the client removes files.           *)
(*                                                                         *)
(* Host and client interleave at every file operation, and the bridge may  *)
(* die between any two.  Time is counted in steps of equal length while a  *)
(* request is open.                                                        *)
(***************************************************************************)
EXTENDS Integers, Sequences

CONSTANTS MaxCommands,    \* the attempt's command budget
          HostDeadline,   \* TransportConfig.CommandTimeout
          ClientDeadline, \* how long exchangeBridge polls
          MaxClients,     \* bound on starts of the bridge process
          MaxRequests,    \* bound on the requests of one
          None

ASSUME MediationAssumption ==
    /\ {MaxCommands, HostDeadline, ClientDeadline, MaxRequests} \subseteq Nat
    /\ MaxClients \in Nat \ {0}
    /\ None \notin [by : Nat, id : Nat]

VARIABLES
    request, response,        \* the two files
    client, number, sequence, \* the bridge process, which one it is, its counter
    answer,                   \* what it last received
    host, reading, clock,     \* RunNative's loop, the request it holds, and how
                              \* long the command runs
    last, remaining, sealed,  \* the Mediator
    run,                      \* "native", "ended", "status", "killed"
    why,                      \* what killed it
    executed,                 \* the commands the repository was asked to run
    age                       \* how long the client has polled

files     == <<request, response>>
container == <<client, number, sequence, answer, age>>
loop      == <<host, reading, clock>>
mediator  == <<last, remaining, sealed>>
outcome   == <<run, why>>
vars == <<files, container, loop, mediator, outcome, executed>>

Requests == [by : 1 .. MaxClients, id : 1 .. MaxRequests]

Init == /\ request = None /\ response = None
        /\ client = "idle" /\ number = 1 /\ sequence = 0 /\ answer = None
        /\ host = "tick" /\ reading = None /\ clock = 0
        /\ last = 0 /\ remaining = MaxCommands /\ sealed = FALSE
        /\ run = "native" /\ why = "none" /\ executed = <<>> /\ age = 0

-----------------------------------------------------------------------------
(* exchangeBridge *)

Mine == [by |-> number, id |-> sequence]
Step(from, to) == run = "native" /\ client = from /\ client' = to

\* A file of an earlier exchange is fatal.  The mutant does not look.
NoStaleCheck == /\ Step("idle", "fresh") /\ sequence < MaxRequests
                /\ sequence' = sequence + 1
                /\ UNCHANGED <<files, number, answer, age, loop, mediator, outcome, executed>>
CheckStale ==
    /\ run = "native" /\ client = "idle" /\ sequence < MaxRequests
    /\ sequence' = sequence + 1
    /\ client' = IF request = None /\ response = None THEN "fresh" ELSE "dead"
    /\ UNCHANGED <<files, number, answer, age, loop, mediator, outcome, executed>>

\* A request.tmp of an earlier bridge, or a full disk, ends the process (Die).
Post == /\ Step("fresh", "polling") /\ request' = Mine /\ age' = 0
        /\ UNCHANGED <<response, number, sequence, answer, loop, mediator, outcome, executed>>

\* The sequence number is all that ties an answer to a request.
Receive ==
    /\ run = "native" /\ client = "polling" /\ response # None
    /\ IF response.id = sequence
       THEN client' = "answered" /\ answer' = response
       ELSE client' = "dead" /\ UNCHANGED answer
    /\ UNCHANGED <<files, number, sequence, age, loop, mediator, outcome, executed>>

\* "request.json must go first."  The mutant removes the response first.
ResponseFirst ==
    \/ /\ Step("answered", "halfway") /\ response' = None
       /\ UNCHANGED <<request, number, sequence, answer, age, loop, mediator, outcome, executed>>
    \/ /\ Step("halfway", "idle") /\ request' = None
       /\ UNCHANGED <<response, number, sequence, answer, age, loop, mediator,
                      outcome, executed>>
Unlink ==
    \/ /\ Step("answered", "halfway") /\ request' = None
       /\ UNCHANGED <<response, number, sequence, answer, age, loop, mediator,
                      outcome, executed>>
    \/ /\ Step("halfway", "idle") /\ response' = None
       /\ UNCHANGED <<request, number, sequence, answer, age, loop, mediator, outcome, executed>>

\* No answer in time: the process ends and leaves its files.
Expire == /\ Step("polling", "expired") /\ age >= ClientDeadline
          /\ UNCHANGED <<files, number, sequence, answer, age, loop, mediator,
                         outcome, executed>>

\* A bridge ends at any point: a file operation fails, a message is not what it
\* expects (fatal), the native process stops it.  Its files stay as they are.
Die == /\ run = "native" /\ client \notin {"dead", "expired", "gone"} /\ client' = "dead"
       /\ UNCHANGED <<files, number, sequence, answer, age, loop, mediator, outcome, executed>>

\* The native process starts the bridge again; it counts from the beginning.
Respawn == /\ run = "native" /\ client \in {"dead", "expired"} /\ number < MaxClients
           /\ client' = "idle" /\ number' = number + 1 /\ sequence' = 0
           /\ UNCHANGED <<files, answer, age, loop, mediator, outcome, executed>>

-----------------------------------------------------------------------------
(* RunNative, serviceBridge and Mediator.Handle *)

Serving == run \in {"native", "status"}
Kill(reason) == /\ run' = "killed" /\ why' = reason /\ host' = "tick"
                /\ UNCHANGED <<reading, clock>>

\* A response that is still there is still pending.
Look == /\ Serving /\ host = "tick" /\ response = None /\ host' = "look"
        /\ UNCHANGED <<files, container, reading, clock, mediator, outcome, executed>>

Read == /\ Serving /\ host = "look" /\ reading' = request
        /\ host' = IF request = None THEN "tick" ELSE "handle"
        /\ UNCHANGED <<files, container, clock, mediator, outcome, executed>>

\* The next number is spent before the command runs; a spent budget is an
\* answer.  One mutant does not count that answer, the other spends one more.
Refuse(reason) == Kill(reason) /\ UNCHANGED <<mediator, executed>>
Answer == /\ last' = reading.id /\ host' = "publish" /\ UNCHANGED <<remaining, executed>>
Spend  == /\ last' = reading.id /\ host' = "execute" /\ remaining' = remaining - 1
          /\ executed' = Append(executed, reading)
Serve(counted, bound) ==
    /\ Serving /\ host = "handle" /\ UNCHANGED <<files, container>>
    /\ \/ reading.id # last + 1 /\ Refuse("sequence")
       \/ reading.id = last + 1 /\ sealed /\ Refuse("sealed")
       \/ /\ reading.id = last + 1 /\ ~sealed /\ clock' = 0
          /\ \/ remaining = bound /\ counted /\ Answer
             \/ remaining = bound /\ ~counted /\ host' = "publish"
                /\ UNCHANGED <<last, remaining, executed>>
             \/ remaining # bound /\ Spend
          /\ UNCHANGED <<reading, sealed, outcome>>
ExhaustedUncounted == Serve(FALSE, 0)
SpendsOneMore      == Serve(TRUE, -1)
Handle             == Serve(TRUE, 0)

\* The command ends, or its outcome is not known: "an uncertain command must
\* never be retried".  Only a timeout bounds it.  The mutant retries it.
Retried == /\ Serving /\ host = "execute"
           /\ \/ host' = "publish" /\ UNCHANGED executed
              \/ host' = "execute" /\ executed' = Append(executed, reading)
                 /\ Len(executed) < MaxCommands
           /\ UNCHANGED <<files, container, reading, clock, mediator, outcome>>
Execute ==
    /\ Serving /\ host = "execute"
    /\ \/ host' = "publish" /\ UNCHANGED <<reading, clock, outcome>>
       \/ Kill("uncertain")
    /\ UNCHANGED <<files, container, mediator, executed>>

Publish == /\ Serving /\ host = "publish" /\ response' = reading /\ host' = "tick"
           /\ UNCHANGED <<request, container, reading, clock, mediator, outcome, executed>>

\* The context ends, or a file operation of the host fails.
Cancel == /\ Serving /\ Kill("context")
          /\ UNCHANGED <<files, container, mediator, executed>>

\* The native process ends with its bridge, and the loop sees it when it has
\* served what it had read.  What the bridge left stays, in reach of the next
\* native command.
Exit == /\ run = "native" /\ client # "gone" /\ client' = "gone"
        /\ UNCHANGED <<files, number, sequence, answer, age, loop, mediator,
                       outcome, executed>>
NativeEnds == /\ run = "native" /\ host = "tick" /\ client = "gone" /\ run' = "ended"
              /\ UNCHANGED <<files, container, loop, mediator, why, executed>>
AccountStatus == /\ run = "ended" /\ ~sealed /\ run' = "status"
                 /\ UNCHANGED <<files, container, loop, mediator, why, executed>>

\* CollectPatch, after the last native command.
Seal == /\ run = "status" /\ host = "tick" /\ run' = "ended" /\ sealed' = TRUE
        /\ UNCHANGED <<files, container, loop, last, remaining, why, executed>>

-----------------------------------------------------------------------------
\* Time passes for the client that polls and the command that runs; polls and
\* ticks are short against it, so nothing waits that could go on.
Tick ==
    /\ run = "native" /\ client = "polling" /\ response = None
    /\ host = "execute" /\ clock < HostDeadline /\ age < ClientDeadline
    /\ clock' = clock + 1 /\ age' = age + 1
    /\ UNCHANGED <<files, client, number, sequence, answer, host, reading,
                   mediator, outcome, executed>>

Client == CheckStale \/ Post \/ Receive \/ Unlink \/ Expire \/ Die \/ Respawn
          \/ Exit
Host   == Look \/ Read \/ Handle \/ Execute \/ Publish \/ Cancel
          \/ NativeEnds \/ AccountStatus \/ Seal

Next == Client \/ Host \/ Tick
Spec == Init /\ [][Next]_vars

-----------------------------------------------------------------------------
(* Properties *)

\* Every variable keeps its type.
TypeOK ==
    /\ {request, response, answer, reading} \subseteq Requests \cup {None}
    /\ client \in {"idle", "fresh", "polling", "answered", "halfway", "dead",
                   "expired", "gone"}
    /\ number \in 1 .. MaxClients /\ sequence \in 0 .. MaxRequests
    /\ host \in {"tick", "look", "handle", "execute", "publish"}
    /\ clock \in 0 .. HostDeadline /\ age \in 0 .. ClientDeadline
    /\ last \in 0 .. MaxRequests /\ remaining \in 0 .. MaxCommands
    /\ run \in {"native", "ended", "status", "killed"}
    /\ why \in {"none", "sequence", "sealed", "uncertain", "context"}
    /\ sealed \in BOOLEAN /\ executed \in Seq(Requests)

\* No request runs twice in the repository, and no more of them than the budget
\* has ("concurrent or replayed bridge frames cannot spend one sequence twice").
RunsAtMostOnce ==
    /\ TypeOK
    /\ Len(executed) <= MaxCommands
    /\ \A i, j \in DOMAIN executed : i # j => executed[i] # executed[j]

\* What a client takes for the answer to its command is that answer, also after
\* an earlier bridge process died with its files in place.
AnswerIsOwn == client = "answered" => answer = Mine

\* The host never kills a run over the requests of a bridge that keeps to the
\* protocol: neither the files a bridge leaves behind nor an exhausted budget nor
\* the end of the native process breaks it.  The one request it does not expect is
\* the first of a bridge whose predecessor ended after an answered exchange, since
\* both count from one.
NeverOutOfSequence ==
    /\ why # "sealed"
    /\ why = "sequence" => reading # None /\ reading.by > 1 /\ reading.id = 1 /\ last >= 1

\* "An exhausted budget is an answer the model can act on, not a reason to kill work
\* that is already done" (codex/mediation.go); Bridge_restart.cfg shows that a
\* restarted bridge is such a reason.
WorkIsKept == why \notin {"sequence", "sealed"}

\* A command that the host allows to finish is answered before the bridge stops
\* waiting for it: "Repository commands have a 10-second host-side deadline;
\* the MCP bridge waits up to 30 seconds for the response"
\* (docs/compatibility/codex.md).
AnsweredInTime == client # "expired"
=============================================================================
