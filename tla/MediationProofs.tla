--------------------------- MODULE MediationProofs ---------------------------
(***************************************************************************)
(* TLAPS proofs about Mediation, for every budget, deadline and number of  *)
(* bridge processes and requests: no command runs twice or over budget, an *)
(* answer is the client's own, and no bridge that keeps to the protocol    *)
(* gets its run killed, but a successor that counts from one again.        *)
(*                                                                         *)
(* The two files carry the protocol: the host acts on a request only while *)
(* there is no response, and the client removes the request first.  So the *)
(* files tell how far the exchange is (Exchange), wherever a bridge died,  *)
(* and a process that finds any file never posts.                          *)
(***************************************************************************)
EXTENDS Mediation, TLAPS

\* The bridge is not the first, and requests of an earlier one were handled.
Successor == number > 1 /\ last >= 1

\* What the client knows about the files it shares with the host.
ClientInv ==
    /\ client \in {"fresh", "polling", "answered", "halfway"} => sequence >= 1
    /\ client = "fresh" => request = None /\ response = None
    /\ client = "fresh" => sequence = last + 1 \/ (sequence = 1 /\ Successor)
    /\ client = "polling" => request = Mine /\ request # None
    /\ client = "answered" => answer = Mine /\ request # None /\ response # None
                              /\ sequence = last
    /\ client = "halfway" => request = None /\ response # None /\ sequence = last
    /\ client = "idle" /\ request = None /\ response = None =>
           sequence = last \/ (sequence = 0 /\ Successor)

\* A request that the host does not expect.
Restarted(r) == r.by > 1 /\ r.id = 1 /\ last >= 1

\* Where the host is in the exchange, as long as the run is not killed.
HostInv ==
    run # "killed" =>
        /\ host = "look" => response = None
        /\ host \in {"handle", "execute", "publish"} =>
               reading = request /\ request # None /\ response = None
        /\ request # None /\ response = None =>
               IF host \in {"execute", "publish"} THEN request.id = last
               ELSE request.id = last + 1 \/ Restarted(request)
        /\ request # None /\ response # None => response = request /\ request.id = last

\* The commands so far were numbered upwards and paid for.
BudgetInv ==
    /\ Len(executed) + remaining <= MaxCommands
    /\ \A i \in DOMAIN executed : executed[i].id <= last
    /\ \A i, j \in DOMAIN executed : i < j => executed[i].id < executed[j].id

SealInv == /\ sealed => run = "ended"
           /\ why # "none" => run = "killed"
           /\ why # "sealed"
           /\ why = "sequence" => reading # None /\ Restarted(reading)

Exchange == TypeOK /\ ClientInv /\ HostInv /\ BudgetInv /\ SealInv

-----------------------------------------------------------------------------
(* The invariant holds *)

\* The constants are numbers.
LEMMA Bounds ==
    /\ MaxCommands \in Nat /\ HostDeadline \in Nat /\ ClientDeadline \in Nat
    /\ MaxRequests \in Nat /\ MaxClients \in Nat /\ MaxClients >= 1
  BY MediationAssumption DEF MediationAssumption

\* It holds when the run starts.
LEMMA ExchangeInit == Init => Exchange
  <1> SUFFICES ASSUME Init PROVE Exchange
    OBVIOUS
  <1>1. executed = <<>> /\ Len(executed) = 0 /\ executed \in Seq(Requests)
    BY DEF Init
  <1>2. TypeOK
    <2>1. {request, response, answer, reading} \subseteq Requests \cup {None}
      BY DEF Init
    <2>2. number \in 1 .. MaxClients /\ sequence \in 0 .. MaxRequests
      BY Bounds DEF Init
    <2>3. clock \in 0 .. HostDeadline /\ age \in 0 .. ClientDeadline
      BY Bounds DEF Init
    <2>4. last \in 0 .. MaxRequests /\ remaining \in 0 .. MaxCommands
      BY Bounds DEF Init
    <2>5. sealed \in BOOLEAN
      BY DEF Init
    <2>6. QED
      BY <1>1, <2>1, <2>2, <2>3, <2>4, <2>5 DEF Init, TypeOK
  <1>3. BudgetInv
    <2>1. DOMAIN executed = {}
      BY <1>1
    <2>2. QED
      BY <1>1, <2>1, Bounds DEF Init, BudgetInv
  <1>4. QED
    BY <1>2, <1>3 DEF Init, Exchange, ClientInv, HostInv, SealInv

\* A request has a number, and the host never takes an absent file for one.
LEMMA RequestsAreNumbered ==
  ASSUME NEW r \in Requests
  PROVE  r # None /\ r.id \in Nat /\ r.id >= 1
  <1>1. r \in [by : Nat, id : Nat] /\ r.id \in 1 .. MaxRequests
    BY Bounds DEF Requests
  <1>2. QED
    BY <1>1, MediationAssumption DEF MediationAssumption

\* What the client posts is such a request.
LEMMA MineIsRequest ==
  ASSUME TypeOK, sequence >= 1
  PROVE  Mine \in Requests /\ Mine # None /\ Mine.by = number /\ Mine.id = sequence
  <1>1. number \in 1 .. MaxClients /\ sequence \in 1 .. MaxRequests
    BY Bounds DEF TypeOK
  <1>2. Mine \in Requests
    BY <1>1 DEF Mine, Requests
  <1>3. QED
    BY <1>2, RequestsAreNumbered DEF Mine

\* Every step of the bridge process keeps the exchange in order: it posts only
\* where it found no file, and removes its request before the answer to it.
LEMMA ClientKeeps ==
  ASSUME Exchange, Client
  PROVE  Exchange'
  <1> USE Bounds
      DEF Exchange, TypeOK, ClientInv, HostInv, BudgetInv, SealInv, Mine,
          Successor, Restarted, files, container, loop, mediator, outcome, Step
  <1>1. CASE CheckStale
    BY <1>1 DEF CheckStale
  <1>2. CASE Post
    <2>1. Mine \in Requests /\ Mine # None /\ Mine.by = number /\ Mine.id = sequence
      BY <1>2, MineIsRequest DEF Post
    <2>2. TypeOK' /\ BudgetInv' /\ SealInv'
      BY <1>2, <2>1 DEF Post
    <2>3. ClientInv'
      BY <1>2, <2>1 DEF Post
    <2>4. HostInv'
      <3>1. /\ request = None
            /\ response = None
            /\ request' = Mine
            /\ response' = None
        BY <1>2 DEF Post
      <3>2. UNCHANGED <<loop, mediator, outcome>>
        BY <1>2 DEF Post
      <3>3. \/ sequence = last + 1
            \/ sequence = 1 /\ number > 1 /\ last >= 1
        BY <1>2 DEF Post
      <3>4. run # "killed" => host \notin {"handle", "execute", "publish"}
        BY <3>1
      <3>5. \/ request'.id = last + 1
            \/ request'.by > 1 /\ request'.id = 1 /\ last >= 1
        BY <2>1, <3>1, <3>3
      <3>6. QED
        BY <2>1, <3>1, <3>2, <3>4, <3>5
    <2>5. QED
      BY <2>2, <2>3, <2>4
  <1>3. CASE Receive
    BY <1>3 DEF Receive
  <1>4. CASE Unlink
    <2>1. CASE client = "answered"
      BY <1>4, <2>1 DEF Unlink
    <2>2. CASE client # "answered"
      BY <1>4, <2>2 DEF Unlink
    <2>3. QED
      BY <2>1, <2>2
  <1>5. CASE Expire
    BY <1>5 DEF Expire
  <1>6. CASE Respawn
    BY <1>6 DEF Respawn
  <1>7. CASE Exit \/ Die
    <2>1. /\ UNCHANGED <<files, number, sequence, answer, age, loop, mediator,
                         outcome, executed>>
          /\ client' \in {"gone", "dead"}
      BY <1>7 DEF Exit, Die
    <2>2. TypeOK' /\ ClientInv' /\ BudgetInv' /\ SealInv'
      BY <2>1
    <2>3. HostInv'
      BY <2>1
    <2>4. QED
      BY <2>2, <2>3
  <1>8. QED
    BY <1>1, <1>2, <1>3, <1>4, <1>5, <1>6, <1>7 DEF Client

\* The host spends the number of a request that it accepts before the command
\* runs, and a command of the budget.
LEMMA AcceptanceKeeps ==
  ASSUME Exchange, Handle, reading.id = last + 1
  PROVE  Exchange'
  <1> USE Bounds
      DEF Exchange, TypeOK, ClientInv, HostInv, BudgetInv, SealInv, Mine,
          Successor, Restarted, files, container, loop, mediator, outcome, Serving
  <1>1. reading \in Requests /\ reading.id = last + 1 /\ ~sealed
    BY RequestsAreNumbered DEF Handle, Serve
  <1>2. CASE remaining = 0
    <2>1. /\ last' = last + 1 /\ clock' = 0 /\ host' = "publish"
          /\ UNCHANGED <<files, container, reading, sealed, outcome,
                         remaining, executed>>
      BY <1>1, <1>2 DEF Handle, Serve, Answer
    <2>2. last' \in 0 .. MaxRequests
      BY <2>1, <1>1 DEF Requests
    <2>3. TypeOK'
      BY <2>1, <2>2
    <2>4. HostInv'
      BY <2>1, <1>1 DEF Handle, Serve
    <2>5. ClientInv'
      BY <2>1, <1>1 DEF Handle, Serve
    <2>6. BudgetInv'
      <3>1. \A i \in DOMAIN executed : executed[i].id \in Nat
        BY RequestsAreNumbered
      <3>2. QED
        BY <2>1, <3>1
    <2>7. SealInv'
      BY <2>1
    <2>8. QED
      BY <2>3, <2>4, <2>5, <2>6, <2>7
  <1>3. CASE remaining # 0
    <2>1. /\ last' = last + 1 /\ remaining' = remaining - 1 /\ clock' = 0
          /\ host' = "execute" /\ executed' = Append(executed, reading)
          /\ UNCHANGED <<files, container, reading, sealed, outcome>>
      BY <1>1, <1>3 DEF Handle, Serve, Spend
    <2>2. BudgetInv'
      <3>1. /\ Len(executed') = Len(executed) + 1
            /\ DOMAIN executed = 1 .. Len(executed)
            /\ DOMAIN executed' = 1 .. Len(executed) + 1
            /\ executed'[Len(executed) + 1] = reading
            /\ \A i \in 1 .. Len(executed) :
                  executed'[i] = executed[i] /\ executed[i].id \in Nat
        BY <2>1, <1>1, RequestsAreNumbered
      <3>2. QED
        BY <3>1, <2>1, <1>1, <1>3
    <2>3. TypeOK'
      <3>1. last' \in 0 .. MaxRequests
        BY <2>1, <1>1, RequestsAreNumbered DEF Requests
      <3>2. remaining' \in 0 .. MaxCommands
        BY <2>1, <1>3
      <3>3. executed' \in Seq(Requests)
        BY <2>1, <1>1
      <3>4. {request, response, answer, reading}' \subseteq Requests \cup {None}
        BY <2>1
      <3>5. QED
        BY <2>1, <3>1, <3>2, <3>3, <3>4
    <2>4. QED
      BY <2>1, <2>2, <2>3, <1>1 DEF Handle, Serve
  <1>4. QED
    BY <1>2, <1>3

\* So does every step of the host: it reads only where no answer is pending, and
\* spends the number before the command runs.
LEMMA HostKeeps ==
  ASSUME Exchange, Host \/ Tick
  PROVE  Exchange'
  <1> USE Bounds
      DEF Exchange, TypeOK, ClientInv, HostInv, BudgetInv, SealInv, Mine,
          Successor, Restarted, files, container, loop, mediator, outcome, Serving
  <1>1. CASE Look
    BY <1>1 DEF Look
  <1>2. CASE Read
    BY <1>2 DEF Read
  <1>3. CASE Handle
    <2>1. reading \in Requests /\ reading # None /\ ~sealed
      BY <1>3, RequestsAreNumbered DEF Handle, Serve
    <2>2. CASE reading.id # last + 1
      BY <1>3, <2>1, <2>2 DEF Handle, Serve, Refuse, Kill
    <2>3. CASE reading.id = last + 1
      BY <1>3, <2>1, <2>3, AcceptanceKeeps
    <2>4. QED
      BY <2>2, <2>3
  <1>4. CASE Execute
    BY <1>4 DEF Execute, Kill
  <1>5. CASE Publish
    BY <1>5 DEF Publish
  <1>6. CASE Cancel
    BY <1>6 DEF Cancel, Kill
  <1>7. CASE NativeEnds
    BY <1>7 DEF NativeEnds
  <1>8. CASE AccountStatus
    BY <1>8 DEF AccountStatus
  <1>9. CASE Seal
    BY <1>9 DEF Seal
  <1>10. CASE Tick
    BY <1>10 DEF Tick
  <1>11. QED
    BY <1>1, <1>2, <1>3, <1>4, <1>5, <1>6, <1>7, <1>8, <1>9, <1>10 DEF Host

\* No step of either process breaks it.
LEMMA ExchangeStep ==
  ASSUME Exchange, [Next]_vars
  PROVE  Exchange'
  <1>1. CASE UNCHANGED vars
    BY <1>1 DEF vars, files, container, loop, mediator, outcome, Exchange, TypeOK,
       ClientInv, HostInv, BudgetInv, SealInv, Successor, Restarted, Mine
  <1>2. QED
    BY <1>1, ClientKeeps, HostKeeps DEF Next

\* So it holds in every state.
LEMMA ExchangeAlways == Spec => []Exchange
  <1>1. Exchange /\ [Next]_vars => Exchange'
    BY ExchangeStep
  <1>2. QED
    BY ExchangeInit, <1>1, PTL DEF Spec

-----------------------------------------------------------------------------
(* The theorems *)

\* No request runs twice in the repository and no attempt runs more of them
\* than it has budget, whatever dies on either side of the bridge.
THEOREM CommandsRunOnce == Spec => []RunsAtMostOnce
  <1>1. Exchange => RunsAtMostOnce
    <2> SUFFICES ASSUME Exchange PROVE RunsAtMostOnce
      OBVIOUS
    <2>1. Len(executed) <= MaxCommands
      BY Bounds DEF Exchange, TypeOK, BudgetInv
    <2>2. ASSUME NEW i \in DOMAIN executed, NEW j \in DOMAIN executed, i # j
          PROVE  executed[i] # executed[j]
      <3>1. i \in Nat /\ j \in Nat /\ (i < j \/ j < i)
        BY <2>2 DEF Exchange, TypeOK
      <3>2. executed[i].id \in Nat /\ executed[j].id \in Nat
        BY RequestsAreNumbered DEF Exchange, TypeOK
      <3>3. QED
        BY <3>1, <3>2 DEF Exchange, BudgetInv
    <2>3. QED
      BY <2>1, <2>2 DEF Exchange, RunsAtMostOnce
  <1>2. QED
    BY <1>1, ExchangeAlways, PTL

\* A bridge process takes nothing for the answer to its command but that
\* answer, also when an earlier process left its files behind.
THEOREM AnswersMatch == Spec => []AnswerIsOwn
  <1>1. Exchange => AnswerIsOwn
    BY DEF Exchange, ClientInv, AnswerIsOwn
  <1>2. QED
    BY <1>1, ExchangeAlways, PTL

\* The host never kills a run over what a bridge left or asked, wherever it died,
\* unless it is the first request of a bridge whose predecessor was answered.
THEOREM BridgeKeepsProtocol == Spec => []NeverOutOfSequence
  <1>1. Exchange => NeverOutOfSequence
    BY DEF Exchange, SealInv, Restarted, NeverOutOfSequence
  <1>2. QED
    BY <1>1, ExchangeAlways, PTL
=============================================================================
