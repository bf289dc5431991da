--------------------------- MODULE StateFilesProofs ---------------------------
(***************************************************************************)
(* The safety properties of StateFiles, for every set of processes,        *)
(* attempts, releases and entries and any number of faults and losses.     *)
(*                                                                         *)
(* The control of a process is data, the list of the steps it has left, so *)
(* the invariant is an outline of what the list assumes: a step needs some *)
(* facts, gives some and breaks some, and a list leads from the facts that *)
(* hold to its end if every step finds what it needs.  Each list of the    *)
(* module is shown to do so once; every action then only has to show that  *)
(* the facts it does not break stay true, of its own process and, because  *)
(* a fact includes the lock that guards it, of all others.                 *)
(***************************************************************************)
EXTENDS StateFiles, WellFoundedInduction, TLAPS

-----------------------------------------------------------------------------
(* Steps and facts *)

Locks == {"launch", "state", "root", "rootShared", "profile", "session"}

Conditions == {"resolved", "recoverable", "unreserved", "reservable", "active"}

Plain == {"recover", "dispatch", "load", "release", "resume", "begin", "complete",
          "make", "native", "prune", "inspect", "protect", "verify", "empty",
          "remove", "mark", "install", "unmark"}

Dropped == {{"root", "state", "launch"}, {"profile", "rootShared"}, {"profile"},
            {"session"}}

\* Every step of every list.
Steps == {<<"take", l>> : l \in Locks} \cup {<<"require", d>> : d \in Conditions}
         \cup {<<"drop", D>> : D \in Dropped} \cup {<<op>> : op \in Plain}
         \cup {<<op, c>> : op \in {"save", "clear"}, c \in Cells}
         \cup {<<"ready", "pending">>}

ProfileFacts == {"profile", "ours", "synced", "withdrawn", "begun", "ready", "clean",
                 "protected", "inspected", "homeless", "whole", "rooted", "forgotten",
                 "settled", "spoilable"}
StateFacts   == {"state", "resolved", "saved", "ours", "released"}
Facts == ProfileFacts \cup StateFacts
         \cup {"over", "asking", "alone", "named", "launch", "root", "rootShared", "never"}

Whole(h) == h # None /\ \A e \in Entries : h[e] # "gone"

\* The home is there and stays there, as far as the code is concerned.
Stands == rooted /\ Whole(home)

\* A power loss has brought back an identity or an operation.
Turned == revived \cap {"active", "pending"} # {}

\* No power loss brings the identity back unseen.
Forgotten == \/ disk["active"] = {None} \/ Turned
             \/ "active" \in relied /\ file["active"] = None

\* No recovery takes the pending operation for ready unseen.
Settled == \/ "ready" \notin disk["pending"] \/ stopped \/ Turned
           \/ "pending" \in relied /\ file["pending"] # "ready"

\* No reservation waits for the attempt that is being cleared.
Unreserved == \/ disk["execution"] = {None}
              \/ "execution" \in relied /\ file["execution"] = None

HasProfile(p) == {"profile", "rootShared"} \subseteq held[p]

\* What a fact says of process p.
Fact(p, f) ==
    CASE f = "over"       -> TRUE
      [] f = "never"      -> FALSE
      [] f = "asking"     -> stage[p] # "dispatched"
      [] f = "alone"      -> "session" \notin held[p]
      [] f = "named"      -> version[p] # None
      [] f \in {"launch", "state", "root", "rootShared"} -> f \in held[p]
      [] f = "resolved"   -> {"root", "state"} \subseteq held[p]
                             /\ Absent({"attempt", "pending", "execution"})
      [] f = "saved"      -> "state" \in held[p] /\ file["attempt"] # None
                             /\ disk["attempt"] = {file["attempt"]}
      [] f = "released"   -> "state" \in held[p] /\ Unreserved
      [] f = "profile"    -> HasProfile(p)
      [] f = "ours"       -> HasProfile(p) /\ "state" \in held[p]
                             /\ file["execution"] = file["attempt"]
      [] f = "synced"     -> HasProfile(p)
                             /\ \A c \in Cells \ {"attempt"} : disk[c] = {file[c]}
      [] f = "withdrawn"  -> HasProfile(p) /\ file["active"] = None
      [] f = "begun"      -> HasProfile(p) /\ file["pending"] = "kept"
      [] f = "ready"      -> HasProfile(p) /\ file["pending"] = "ready"
      [] f = "clean"      -> HasProfile(p) /\ scratch = "clean"
      [] f = "protected"  -> HasProfile(p) /\ Protected(home)
      [] f = "inspected"  -> HasProfile(p) /\ home \in Tree /\ job[p] \in Tree
                             /\ \A e \in Entries : job[p][e] # "unsafe"
      [] f = "homeless"   -> HasProfile(p) /\ home = None
      [] f = "whole"      -> HasProfile(p) /\ (Whole(home) \/ Turned)
      [] f = "rooted"     -> HasProfile(p) /\ (rooted \/ Turned)
      [] f = "forgotten"  -> HasProfile(p) /\ Forgotten
      [] f = "settled"    -> HasProfile(p) /\ Settled
      [] OTHER            -> HasProfile(p) /\ (Settled \/ Recovering(p))

Known(p) == {f \in Facts : Fact(p, f)}

\* What the step x of command c relies on.
Uses(c, x) ==
    CASE x = <<"take", "profile">>   -> {"rootShared"}
      [] x = <<"take", "session">>   -> {"profile"}
      [] x[1] = "drop"               -> IF "launch" \in x[2] THEN {"asking"}
                                        ELSE IF "session" \in x[2] THEN {"profile"} ELSE {}
      [] x[1] = "recover"            -> {"launch", "asking"}
      [] x[1] = "mark"               -> {"launch", "asking"}
      [] x[1] \in {"install", "unmark"} ->
            {"launch", "asking", "named", "root", "state", "resolved"}
      [] x[1] = "dispatch"           -> {"launch"}
      [] x = <<"require", "resolved">> -> {"root", "state"}
      [] x = <<"require", "active">> -> {"profile"}
      [] x[1] = "load"               -> {"state"}
      [] x[1] = "release"            -> {"state", "profile"}
      [] x[1] = "begin"              -> {"profile", "settled"}
      [] x[1] = "complete"           -> {"profile", "ready"}
      [] x = <<"save", "attempt">>   -> {"state"}
      [] x = <<"save", "execution">> -> {"state", "profile", "saved"}
      [] x = <<"save", "active">>    -> {"profile", "whole", "rooted"}
      [] x[1] = "ready"              -> {"profile", "whole", "rooted"}
      [] x = <<"clear", "attempt">>  ->
            {"state"} \cup (IF c = "discard" THEN {} ELSE {"released"})
      [] x = <<"clear", "execution">> -> {"state", "profile"}
      [] x[1] = "make"               -> {"profile", "homeless"}
      [] x[1] = "protect"            -> {"profile", "inspected"}
      [] x[1] = "verify"             ->
            {"profile"} \cup (IF c = "operation" THEN {"spoilable"} ELSE {})
      [] x[1] = "native"             ->
            {"profile", "clean", "protected", "synced"}
            \cup (IF c = "run" THEN {"state", "saved", "ours"} ELSE {"begun", "withdrawn"})
      [] x[1] \in {"empty", "remove"} -> {"profile", "forgotten", "settled"}
      [] x[1] = "take" /\ x[2] \notin {"profile", "session"}    -> {}
      [] x[1] = "require" /\ x[2] \notin {"resolved", "active"} -> {}
      [] OTHER                       -> {"profile"}

\* A step that only another command has.
Foreign(c, x) == \/ c # "run" /\ x[1] \in {"load", "release"}
                 \/ c # "operation" /\ x[1] \in {"resume", "begin", "complete"}

Needs(c, x) == Uses(c, x) \cup (IF x = <<"drop", {"session"}>> THEN {} ELSE {"alone"})
               \cup (IF Foreign(c, x) THEN {"never"} ELSE {})

\* What has been shown once it is done: that the list may end here, at least,
\* unless the step leaves something to follow.
Gives(x) ==
    (IF x[1] \in {"take", "dispatch", "inspect"} THEN {} ELSE {"over"}) \cup
    CASE x[1] = "take"               -> {x[2]} \cap Facts
      [] x = <<"drop", {"session"}>> -> {"alone"}
      [] x = <<"require", "resolved">> -> {"resolved"}
      [] x = <<"require", "active">> -> {"whole", "rooted"}
      [] x = <<"save", "attempt">>   -> {"saved"}
      [] x = <<"save", "execution">> -> {"ours", "synced", "rooted"}
      [] x = <<"save", "pending">>   -> {"begun", "synced", "settled", "rooted"}
      [] x = <<"save", "active">>    -> {"synced", "rooted"}
      [] x[1] = "ready"              -> {"ready", "synced", "rooted"}
      [] x = <<"clear", "active">>   -> {"withdrawn", "forgotten"}
      [] x = <<"clear", "execution">> -> {"released"}
      [] x[1] = "make"               -> {"whole"}
      [] x[1] = "prune"              -> {"clean"}
      [] x[1] = "inspect"            -> {"inspected"}
      [] x[1] = "verify"             -> {"protected"}
      [] x[1] = "remove"             -> {"homeless", "synced", "rooted"}
      [] x[1] = "complete"           -> {"whole", "rooted"}
      [] OTHER                       -> {}

\* What may no longer hold, once it is done or while it goes on.
Breaks(x) ==
    {"over", "inspected"} \cup
    CASE x = <<"take", "session">>   -> {"alone"}
      [] x[1] = "drop"               ->
            (IF "profile" \in x[2] THEN ProfileFacts ELSE {})
            \cup (IF "state" \in x[2] THEN StateFacts ELSE {})
            \cup (x[2] \cap Facts)
      [] x[1] = "dispatch"           -> {"asking"}
      [] x = <<"save", "attempt">>   -> {"saved", "ours", "resolved"}
      [] x = <<"save", "execution">> -> {"ours", "released", "synced", "resolved"}
      [] x = <<"save", "pending">>   -> {"synced", "ready", "resolved"}
      [] x = <<"save", "active">>    -> {"synced", "withdrawn", "forgotten"}
      [] x[1] = "ready"              -> {"synced", "begun", "settled", "spoilable", "resolved"}
      [] x = <<"clear", "attempt">>  -> {"saved", "ours"}
      [] x = <<"clear", "execution">> -> {"ours", "synced"}
      [] x = <<"clear", "pending">>  -> {"synced", "begun", "ready"}
      [] x = <<"clear", "active">>   -> {"synced"}
      [] x[1] = "make"               -> {"homeless", "clean", "protected", "rooted"}
      [] x[1] = "native"             -> {"homeless", "clean", "protected"}
      [] x[1] = "protect"            -> {"homeless", "protected"}
      [] x[1] \in {"empty", "remove"} -> {"whole", "homeless", "clean", "protected"}
      [] x[1] = "resume"             -> {"spoilable"}
      [] OTHER                       -> {}

After(K, x) == (K \ Breaks(x)) \cup Gives(x)

\* The steps s of command c lead from the facts A to the facts Z: an outline
\* that has what every step needs, and loses what it breaks.
Leads(c, A, s, Z) ==
    /\ s \in Seq(Steps)
    /\ \E K \in [1 .. Len(s) + 1 -> SUBSET Facts] :
          /\ K[1] \subseteq A /\ Z \subseteq K[Len(s) + 1]
          /\ \A i \in 1 .. Len(s) : /\ Needs(c, s[i]) \subseteq K[i]
                                    /\ K[i + 1] \subseteq After(K[i], s[i])

-----------------------------------------------------------------------------
(* The invariant *)

TypedProcesses ==
    /\ cmd \in [Procs -> Commands \cup {None}]
    /\ version \in [Procs -> Releases \cup {None}]
    /\ stage \in [Procs -> {"off", "asking", "direct", "dispatched"}]
    /\ todo \in [Procs -> Seq(Steps)]
    /\ job \in [Procs -> {None, Renamed} \cup Tree]
    /\ held \in [Procs -> SUBSET Locks]

TypedWorld ==
    /\ file \in [Cells -> Attempts \cup {None, "kept", "ready"}]
    /\ file["attempt"] \in Attempts \cup {None}
    /\ file["execution"] \in Attempts \cup {None}
    /\ file["pending"] \in {"kept", "ready", None}
    /\ file["active"] \in {"kept", None}
    /\ disk \in [Cells -> SUBSET (Attempts \cup {None, "kept", "ready"})]
    /\ disk["attempt"] \subseteq Attempts \cup {None}
    /\ disk["execution"] \subseteq Attempts \cup {None}
    /\ disk["pending"] \subseteq {"kept", "ready", None}
    /\ disk["active"] \subseteq {"kept", None}
    /\ \A c \in Cells : file[c] \in disk[c]
    /\ relied \subseteq Cells /\ revived \subseteq Cells
    /\ abandoned \in BOOLEAN /\ rooted \in BOOLEAN /\ stopped \in BOOLEAN
    /\ off \in BOOLEAN /\ (home = None \/ home \in Tree) /\ scratch \in {"clean", "dirty"}
    /\ release \in Releases /\ undo \in Releases \cup {None}
    /\ faults \in 0 .. MaxFaults \cup 0 .. MaxLate /\ losses \in 0 .. MaxLosses

Typed == TypedProcesses /\ TypedWorld

Compatible ==
    \A p, q \in Procs : p # q => \A l \in held[q] : held[p] \cap Conflicts(l) = {}

\* A process that runs has steps left, and what holds leads to their end; one
\* that does not holds no lock.
Runs(p) ==
    /\ Idle(p) <=> stage[p] = "off"
    /\ Idle(p) <=> todo[p] = <<>>
    /\ Idle(p) => held[p] = {}
    /\ ~Idle(p) => Leads(cmd[p], Known(p), todo[p], {"over"})

\* A step waits for the sync of what it has written.
Written(p) ==
    job[p] = Renamed => ~Idle(p) /\
        CASE Step(p) = <<"save", "attempt">>    -> file["attempt"] # None
          [] Step(p) = <<"save", "execution">>  -> file["execution"] = file["attempt"]
          [] Step(p)[1] = "ready"               -> file["pending"] = "ready"
          [] Step(p) = <<"save", "pending">>    -> file["pending"] = "kept"
          [] Step(p) = <<"save", "active">>     -> TRUE
          [] Step(p)[1] = "clear"               -> file[Step(p)[2]] = None
          [] OTHER                              -> FALSE

Dispatched(p) ==
    stage[p] = "dispatched" =>
        "launch" \in held[p] /\ undo = None /\ release = version[p]

\* After any power loss a reservation has its attempt, and what names the home
\* ready has a whole one.
ReservationLasts == disk["execution"] # {None} =>
    \/ None \notin disk["attempt"] \/ abandoned \/ "execution" \in revived \/ Unreserved
ActiveLasts  == Stands \/ Forgotten
PendingLasts == Stands \/ Settled

IInv == /\ Typed /\ Compatible
        /\ \A p \in Procs : Runs(p) /\ Written(p) /\ Dispatched(p)
        /\ ReservationLasts /\ ActiveLasts /\ PendingLasts

-----------------------------------------------------------------------------
(* Outlines *)

\* Facts are about facts.
LEMMA FactsOnly ==
    ASSUME NEW c, NEW x \in Steps
    PROVE  Needs(c, x) \subseteq Facts /\ Gives(x) \subseteq Facts
  <1>1. Needs(c, x) \subseteq Facts
    BY DEF Needs, Uses, Foreign, Facts, ProfileFacts, StateFacts
  <1>2. Gives(x) \subseteq Facts
    BY DEF Gives, Facts, ProfileFacts, StateFacts
  <1> QED
    BY <1>1, <1>2

\* Nothing to do shows what is known already.
LEMMA LeadsNowhere ==
    ASSUME NEW c, NEW A \in SUBSET Facts, NEW Z \in SUBSET A
    PROVE  Leads(c, A, <<>>, Z)
  <1> DEFINE K == [i \in 1 .. 1 |-> A]
  <1>1. K \in [1 .. Len(<<>>) + 1 -> SUBSET Facts] /\ K[1] = A /\ Len(<<>>) = 0
    OBVIOUS
  <1>2. <<>> \in Seq(Steps) /\ \A i \in 1 .. Len(<<>>) : FALSE
    OBVIOUS
  <1>3. K[1] \subseteq A /\ Z \subseteq K[Len(<<>>) + 1]
    BY <1>1
  <1> HIDE DEF K
  <1> QED
    BY <1>1, <1>2, <1>3 DEF Leads

\* One more step in front.
LEMMA LeadsFirst ==
    ASSUME NEW c, NEW s \in Seq(Steps), s # <<>>,
           NEW A \in SUBSET Facts, NEW B, NEW Z,
           Needs(c, s[1]) \subseteq A, B \subseteq After(A, s[1]), Leads(c, B, Tail(s), Z)
    PROVE  Leads(c, A, s, Z)
  <1> DEFINE t == Tail(s)
  <1>1. PICK K \in [1 .. Len(t) + 1 -> SUBSET Facts] :
           /\ K[1] \subseteq B /\ Z \subseteq K[Len(t) + 1]
           /\ \A i \in 1 .. Len(t) : /\ Needs(c, t[i]) \subseteq K[i]
                                     /\ K[i + 1] \subseteq After(K[i], t[i])
    BY DEF Leads
  <1>2. /\ t \in Seq(Steps) /\ Len(t) \in Nat /\ Len(s) = Len(t) + 1
        /\ \A i \in 2 .. Len(s) : s[i] = t[i - 1]
    OBVIOUS
  <1> DEFINE M == [i \in 1 .. Len(s) + 1 |-> IF i = 1 THEN A ELSE K[i - 1]]
  <1> HIDE DEF t
  <1>3. M \in [1 .. Len(s) + 1 -> SUBSET Facts] /\ M[1] = A /\ M[Len(s) + 1] = K[Len(t) + 1]
    BY <1>2
  <1>4. ASSUME NEW i \in 1 .. Len(s)
        PROVE  Needs(c, s[i]) \subseteq M[i] /\ M[i + 1] \subseteq After(M[i], s[i])
    <2>1. CASE i = 1
      <3>1. M[i] = A /\ M[i + 1] = K[1]
        BY <2>1, <1>2
      <3> QED
        BY <3>1, <2>1, <1>1
    <2>2. CASE i # 1
      <3>1. /\ i - 1 \in 1 .. Len(t) /\ M[i] = K[i - 1] /\ M[i + 1] = K[(i - 1) + 1]
            /\ s[i] = t[i - 1]
        BY <2>2, <1>2
      <3> QED
        BY <3>1, <1>1
    <2> QED
      BY <2>1, <2>2
  <1> HIDE DEF M
  <1> QED
    BY <1>1, <1>2, <1>3, <1>4 DEF Leads

\* One list after the other.
LEMMA LeadsOn ==
    ASSUME NEW c, NEW A, NEW B, NEW Z, NEW s, NEW t,
           Leads(c, A, s, B), Leads(c, B, t, Z)
    PROVE  Leads(c, A, s \o t, Z)
  <1> DEFINE u == s \o t
             n == Len(s)
  <1>1. s \in Seq(Steps) /\ t \in Seq(Steps)
    BY DEF Leads
  <1>2. PICK K \in [1 .. Len(s) + 1 -> SUBSET Facts] :
           /\ K[1] \subseteq A /\ B \subseteq K[Len(s) + 1]
           /\ \A i \in 1 .. Len(s) : /\ Needs(c, s[i]) \subseteq K[i]
                                     /\ K[i + 1] \subseteq After(K[i], s[i])
    BY DEF Leads
  <1>3. PICK M \in [1 .. Len(t) + 1 -> SUBSET Facts] :
           /\ M[1] \subseteq B /\ Z \subseteq M[Len(t) + 1]
           /\ \A i \in 1 .. Len(t) : /\ Needs(c, t[i]) \subseteq M[i]
                                     /\ M[i + 1] \subseteq After(M[i], t[i])
    BY DEF Leads
  <1>4. n \in Nat /\ Len(t) \in Nat
    BY <1>1
  <1>5. /\ u \in Seq(Steps) /\ Len(u) = n + Len(t)
        /\ \A i \in 1 .. n : u[i] = s[i]
        /\ \A i \in n + 1 .. Len(u) : u[i] = t[i - n]
    BY <1>1
  <1> DEFINE O == [i \in 1 .. Len(u) + 1 |-> IF i <= n THEN K[i] ELSE M[i - n]]
  <1> HIDE DEF u
  <1>6. O \in [1 .. Len(u) + 1 -> SUBSET Facts]
    BY <1>4, <1>5
  <1>7. O[1] \subseteq A
    <2>1. CASE n = 0
      <3>1. O[1] = M[1] /\ K[1] = K[Len(s) + 1]
        BY <2>1, <1>4, <1>5
      <3> QED
        BY <3>1, <1>2, <1>3
    <2>2. CASE n # 0
      <3>1. O[1] = K[1]
        BY <2>2, <1>4, <1>5
      <3> QED
        BY <3>1, <1>2
    <2> QED
      BY <2>1, <2>2
  <1>8. O[Len(u) + 1] = M[Len(t) + 1]
    BY <1>4, <1>5
  <1>9. ASSUME NEW i \in 1 .. Len(u)
        PROVE  Needs(c, u[i]) \subseteq O[i] /\ O[i + 1] \subseteq After(O[i], u[i])
    <2>1. CASE i < n
      <3>1. i \in 1 .. n /\ O[i] = K[i] /\ O[i + 1] = K[i + 1] /\ u[i] = s[i]
        BY <2>1, <1>4, <1>5
      <3> QED
        BY <3>1, <1>2
    <2>2. CASE i = n
      <3>1. i \in 1 .. n /\ O[i] = K[i] /\ O[i + 1] = M[1] /\ u[i] = s[i]
        BY <2>2, <1>4, <1>5
      <3>2. M[1] \subseteq K[i + 1]
        BY <2>2, <1>2, <1>3
      <3> QED
        BY <3>1, <3>2, <1>2
    <2>3. CASE i > n
      <3>1. /\ i - n \in 1 .. Len(t) /\ i + 1 \in 1 .. Len(u) + 1
            /\ (i + 1) - n = (i - n) + 1 /\ ~(i <= n) /\ ~(i + 1 <= n)
            /\ i \in n + 1 .. Len(u)
        BY <2>3, <1>4, <1>5
      <3>2. O[i] = M[i - n] /\ O[i + 1] = M[(i - n) + 1] /\ u[i] = t[i - n]
        BY <3>1, <1>5
      <3> QED
        BY <3>1, <3>2, <1>3
    <2>4. i < n \/ i = n \/ i > n
      BY <1>4, <1>5
    <2> QED
      BY <2>1, <2>2, <2>3, <2>4
  <1> HIDE DEF O
  <1>10. Z \subseteq O[Len(u) + 1]
    BY <1>3, <1>8
  <1>11. Leads(c, A, u, Z)
    BY <1>5, <1>6, <1>7, <1>9, <1>10 DEF Leads
  <1> QED
    BY <1>11 DEF u

\* More may be known in the beginning, and less asked for in the end.
LEMMA LeadsMore ==
    ASSUME NEW c, NEW A, NEW B, NEW Y, NEW Z, NEW s,
           Leads(c, A, s, Z), A \subseteq B, Y \subseteq Z
    PROVE  Leads(c, B, s, Y)
  BY DEF Leads

\* The first step finds what it needs.
LEMMA LeadsHead ==
    ASSUME NEW c, NEW A, NEW Z, NEW s, Leads(c, A, s, Z), s # <<>>
    PROVE  /\ s \in Seq(Steps) /\ Len(s) \in Nat /\ Len(s) >= 1
           /\ Head(s) = s[1] /\ Head(s) \in Steps /\ Needs(c, Head(s)) \subseteq A
  <1>1. s \in Seq(Steps)
    BY DEF Leads
  <1>2. Len(s) \in Nat /\ Len(s) >= 1 /\ Head(s) = s[1] /\ Head(s) \in Steps
    BY <1>1
  <1>3. 1 \in 1 .. Len(s)
    BY <1>2
  <1> QED
    BY <1>1, <1>2, <1>3 DEF Leads

\* What is known after the first step leads on.
LEMMA LeadsTail ==
    ASSUME NEW c, NEW A, NEW B, NEW Z, NEW s, Leads(c, A, s, Z), s # <<>>,
           After(A, Head(s)) \subseteq B
    PROVE  Leads(c, B, Tail(s), Z)
  <1> DEFINE t == Tail(s)
  <1>1. s \in Seq(Steps) /\ Len(s) \in Nat /\ Len(s) >= 1 /\ Head(s) = s[1]
    BY LeadsHead
  <1>2. PICK K \in [1 .. Len(s) + 1 -> SUBSET Facts] :
           /\ K[1] \subseteq A /\ Z \subseteq K[Len(s) + 1]
           /\ \A i \in 1 .. Len(s) : /\ Needs(c, s[i]) \subseteq K[i]
                                     /\ K[i + 1] \subseteq After(K[i], s[i])
    BY DEF Leads
  <1>3. /\ t \in Seq(Steps) /\ Len(t) = Len(s) - 1
        /\ \A i \in 1 .. Len(t) : t[i] = s[i + 1]
    BY <1>1
  <1> DEFINE M == [i \in 1 .. Len(t) + 1 |-> K[i + 1]]
  <1> HIDE DEF t
  <1>4. M \in [1 .. Len(t) + 1 -> SUBSET Facts] /\ M[1] = K[2] /\ M[Len(t) + 1] = K[Len(s) + 1]
    BY <1>1, <1>3
  <1>5. M[1] \subseteq B
    <2>1. K[2] \subseteq After(K[1], s[1])
      BY <1>1, <1>2
    <2> QED
      BY <2>1, <1>1, <1>2, <1>4 DEF After
  <1>6. ASSUME NEW i \in 1 .. Len(t)
        PROVE  Needs(c, t[i]) \subseteq M[i] /\ M[i + 1] \subseteq After(M[i], t[i])
    <2>1. i + 1 \in 1 .. Len(s) /\ M[i] = K[i + 1] /\ M[i + 1] = K[(i + 1) + 1] /\ t[i] = s[i + 1]
      BY <1>1, <1>3
    <2> QED
      BY <2>1, <1>2
  <1> HIDE DEF M
  <1>7. Leads(c, B, t, Z)
    BY <1>2, <1>3, <1>4, <1>5, <1>6 DEF Leads
  <1> QED
    BY <1>7 DEF t

\* While the first step goes on it keeps what it needs.
LEMMA LeadsStill ==
    ASSUME NEW c, NEW A, NEW B \in SUBSET Facts, NEW Z, NEW s, Leads(c, A, s, Z), s # <<>>,
           A \ Breaks(Head(s)) \subseteq B, Needs(c, Head(s)) \subseteq B
    PROVE  Leads(c, B, s, Z)
  <1>1. s \in Seq(Steps) /\ Len(s) \in Nat /\ Len(s) >= 1 /\ Head(s) = s[1]
    BY LeadsHead
  <1>2. PICK K \in [1 .. Len(s) + 1 -> SUBSET Facts] :
           /\ K[1] \subseteq A /\ Z \subseteq K[Len(s) + 1]
           /\ \A i \in 1 .. Len(s) : /\ Needs(c, s[i]) \subseteq K[i]
                                     /\ K[i + 1] \subseteq After(K[i], s[i])
    BY DEF Leads
  <1> DEFINE M == [i \in 1 .. Len(s) + 1 |-> IF i = 1 THEN B ELSE K[i]]
  <1>3. M \in [1 .. Len(s) + 1 -> SUBSET Facts] /\ M[1] = B /\ M[Len(s) + 1] = K[Len(s) + 1]
    BY <1>1
  <1>4. ASSUME NEW i \in 1 .. Len(s)
        PROVE  Needs(c, s[i]) \subseteq M[i] /\ M[i + 1] \subseteq After(M[i], s[i])
    <2>1. CASE i = 1
      <3>1. M[i] = B /\ M[i + 1] = K[2] /\ s[i] = Head(s) /\ 1 \in 1 .. Len(s)
        BY <2>1, <1>1
      <3>2. K[2] \subseteq After(K[1], s[1])
        BY <3>1, <1>2
      <3>3. K[2] \subseteq After(B, s[1])
        BY <3>2, <1>1, <1>2 DEF After
      <3> QED
        BY <3>1, <3>3, <1>1
    <2>2. CASE i # 1
      <3>1. M[i] = K[i] /\ M[i + 1] = K[i + 1]
        BY <2>2, <1>1
      <3> QED
        BY <3>1, <1>2
    <2> QED
      BY <2>1, <2>2
  <1> HIDE DEF M
  <1> QED
    BY <1>1, <1>2, <1>3, <1>4 DEF Leads

\* A step that leaves something to follow is not the last one.
LEMMA LeadsOver ==
    ASSUME NEW c, NEW A, NEW s, Leads(c, A, s, {"over"}), s # <<>>,
           Head(s)[1] \in {"take", "dispatch", "inspect"}
    PROVE  Tail(s) # <<>>
  <1>1. s \in Seq(Steps) /\ Len(s) \in Nat /\ Len(s) >= 1 /\ Head(s) = s[1]
    BY LeadsHead
  <1> SUFFICES ASSUME Len(Tail(s)) = 0 PROVE FALSE
    <2>1. Len(<<>>) = 0
      OBVIOUS
    <2> QED
      BY <2>1, Zenon
  <1>2. Len(s) = 1
    BY <1>1
  <1>3. PICK K \in [1 .. Len(s) + 1 -> SUBSET Facts] :
           /\ K[1] \subseteq A /\ {"over"} \subseteq K[Len(s) + 1]
           /\ \A i \in 1 .. Len(s) : /\ Needs(c, s[i]) \subseteq K[i]
                                     /\ K[i + 1] \subseteq After(K[i], s[i])
    BY DEF Leads
  <1>4. "over" \in After(K[1], s[1])
    BY <1>2, <1>3
  <1>5. s[1] \in Steps
    BY <1>1, <1>2
  <1>6. "over" \in Breaks(s[1])
    BY DEF Breaks
  <1>7. "over" \notin Gives(s[1])
    <2>1. CASE s[1][1] = "take"
      <3>1. s[1][2] # "over"
        BY <1>5, <2>1 DEF Steps, Locks, Plain
      <3> QED
        BY <2>1, <3>1 DEF Gives
    <2>2. CASE s[1][1] = "dispatch"
      BY <2>2 DEF Gives
    <2>3. CASE s[1][1] = "inspect"
      BY <2>3 DEF Gives
    <2> QED
      BY <2>1, <2>2, <2>3, <1>1
  <1> QED
    BY <1>4, <1>6, <1>7 DEF After

\* A set of numbers has a least one.
LEMMA Least ==
    ASSUME NEW T \in SUBSET Nat, T # {}
    PROVE  \E x \in T : \A y \in T : x <= y
  <1> DEFINE R == {ss \in Nat \X Nat : ss[1] < ss[2]}
  <1>1. IsWellFoundedOn(R, Nat)
    BY NatLessThanWellFounded DEF OpToRel
  <1> HIDE DEF R
  <1>2. PICK x \in T : \A y \in T : ~(<<y, x>> \in R)
    BY <1>1, WFMin
  <1>3. ASSUME NEW y \in T PROVE x <= y
    <2>1. ~(y < x)
      BY <1>2 DEF R
    <2> QED
      BY <2>1
  <1> QED
    BY <1>3

\* What no step gives is known from the beginning until it is needed.
LEMMA LeadsKept ==
    ASSUME NEW c, NEW A, NEW Z, NEW s, Leads(c, A, s, Z), NEW f,
           NEW i \in 1 .. Len(s), f \in Needs(c, s[i]),
           \A x \in Steps : f \notin Gives(x)
    PROVE  f \in A /\ (i # 1 => f \notin Breaks(s[1]))
  <1>1. s \in Seq(Steps) /\ Len(s) \in Nat
    BY DEF Leads
  <1>2. PICK K \in [1 .. Len(s) + 1 -> SUBSET Facts] :
           /\ K[1] \subseteq A /\ Z \subseteq K[Len(s) + 1]
           /\ \A j \in 1 .. Len(s) : /\ Needs(c, s[j]) \subseteq K[j]
                                     /\ K[j + 1] \subseteq After(K[j], s[j])
    BY DEF Leads
  <1>3. ASSUME NEW j \in 1 .. Len(s), f \in K[j + 1]
        PROVE  f \in K[j] /\ f \notin Breaks(s[j])
    BY <1>1, <1>2, <1>3 DEF After
  <1> DEFINE T == {n \in 0 .. i - 1 : f \notin K[i - n]}
  <1>4. T = {}
    <2> SUFFICES ASSUME T # {} PROVE FALSE
      OBVIOUS
    <2>1. PICK n \in T : \A m \in T : n <= m
      <3>1. T \in SUBSET Nat
        BY <1>1
      <3> QED
        BY <3>1, Least
    <2>2. n \in 0 .. i - 1 /\ f \notin K[i - n]
      OBVIOUS
    <2>3. CASE n = 0
      BY <2>2, <2>3, <1>1, <1>2
    <2>4. CASE n # 0
      <3>1. n - 1 \in 0 .. i - 1 /\ ~(n <= n - 1) /\ i - (n - 1) = (i - n) + 1
            /\ i - n \in 1 .. Len(s)
        BY <2>2, <2>4, <1>1
      <3>2. f \in K[(i - n) + 1]
        BY <3>1, <2>1
      <3> QED
        BY <3>1, <3>2, <2>2, <1>3
    <2> QED
      BY <2>3, <2>4
  <1>5. ASSUME NEW j \in 1 .. i PROVE f \in K[j]
    <2>1. i - j \in 0 .. i - 1 /\ i - (i - j) = j
      BY <1>1
    <2> QED
      BY <2>1, <1>4
  <1> HIDE DEF T
  <1>6. f \in A
    BY <1>1, <1>2, <1>5
  <1>7. ASSUME i # 1 PROVE f \notin Breaks(s[1])
    <2>1. 1 \in 1 .. Len(s) /\ 1 + 1 \in 1 .. i
      BY <1>1, <1>7
    <2> QED
      BY <2>1, <1>3, <1>5
  <1> QED
    BY <1>6, <1>7

-----------------------------------------------------------------------------
(* The lists *)

\* Lists of up to four steps.
LEMMA LeadsOne ==
    ASSUME NEW c, NEW x \in Steps, NEW A \in SUBSET Facts, NEW Z,
           Needs(c, x) \subseteq A, Z \subseteq After(A, x)
    PROVE  Leads(c, A, <<x>>, Z)
  <1>1. Z \in SUBSET Facts
    BY FactsOnly DEF After
  <1>2. Leads(c, Z, <<>>, Z)
    BY <1>1, LeadsNowhere
  <1>3. /\ <<x>> \in Seq(Steps) /\ <<x>> # <<>> /\ <<x>>[1] = x /\ Tail(<<x>>) = <<>>
    OBVIOUS
  <1> QED
    BY <1>2, <1>3, LeadsFirst

\* Two steps.
LEMMA LeadsTwo ==
    ASSUME NEW c, NEW x \in Steps, NEW y \in Steps,
           NEW A \in SUBSET Facts, NEW B \in SUBSET Facts, NEW Z,
           Needs(c, x) \subseteq A, B \subseteq After(A, x),
           Needs(c, y) \subseteq B, Z \subseteq After(B, y)
    PROVE  Leads(c, A, <<x, y>>, Z)
  <1>1. Leads(c, B, <<y>>, Z)
    BY LeadsOne
  <1> DEFINE s == <<x, y>>
  <1>2. s \in Seq(Steps) /\ s # <<>> /\ s[1] = x /\ Tail(s) = <<y>>
    OBVIOUS
  <1> HIDE DEF s
  <1>3. Leads(c, B, Tail(s), Z) /\ Needs(c, s[1]) \subseteq A /\ B \subseteq After(A, s[1])
    BY <1>1, <1>2
  <1>4. Leads(c, A, s, Z)
    BY <1>2, <1>3, LeadsFirst
  <1> QED
    BY <1>4 DEF s

\* Three steps.
LEMMA LeadsThree ==
    ASSUME NEW c, NEW x \in Steps, NEW y \in Steps, NEW v \in Steps,
           NEW A \in SUBSET Facts, NEW B \in SUBSET Facts, NEW C \in SUBSET Facts, NEW Z,
           Needs(c, x) \subseteq A, B \subseteq After(A, x),
           Needs(c, y) \subseteq B, C \subseteq After(B, y),
           Needs(c, v) \subseteq C, Z \subseteq After(C, v)
    PROVE  Leads(c, A, <<x, y, v>>, Z)
  <1>1. Leads(c, B, <<y, v>>, Z)
    BY LeadsTwo
  <1> DEFINE s == <<x, y, v>>
  <1>2. s \in Seq(Steps) /\ s # <<>> /\ s[1] = x /\ Tail(s) = <<y, v>>
    OBVIOUS
  <1> HIDE DEF s
  <1>3. Leads(c, B, Tail(s), Z) /\ Needs(c, s[1]) \subseteq A /\ B \subseteq After(A, s[1])
    BY <1>1, <1>2
  <1>4. Leads(c, A, s, Z)
    BY <1>2, <1>3, LeadsFirst
  <1> QED
    BY <1>4 DEF s

\* Four steps.
LEMMA LeadsFour ==
    ASSUME NEW c, NEW x \in Steps, NEW y \in Steps, NEW v \in Steps, NEW w \in Steps,
           NEW A \in SUBSET Facts, NEW B \in SUBSET Facts, NEW C \in SUBSET Facts,
           NEW D \in SUBSET Facts, NEW Z,
           Needs(c, x) \subseteq A, B \subseteq After(A, x),
           Needs(c, y) \subseteq B, C \subseteq After(B, y),
           Needs(c, v) \subseteq C, D \subseteq After(C, v),
           Needs(c, w) \subseteq D, Z \subseteq After(D, w)
    PROVE  Leads(c, A, <<x, y, v, w>>, Z)
  <1>1. Leads(c, B, <<y, v, w>>, Z)
    BY LeadsThree
  <1> DEFINE s == <<x, y, v, w>>
  <1>2. s \in Seq(Steps) /\ s # <<>> /\ s[1] = x /\ Tail(s) = <<y, v, w>>
    OBVIOUS
  <1> HIDE DEF s
  <1>3. Leads(c, B, Tail(s), Z) /\ Needs(c, s[1]) \subseteq A /\ B \subseteq After(A, s[1])
    BY <1>1, <1>2
  <1>4. Leads(c, A, s, Z)
    BY <1>2, <1>3, LeadsFirst
  <1> QED
    BY <1>4 DEF s

\* Normalize leaves a home that is protected and a scratch that is clean.
LEMMA Normalizing ==
    ASSUME NEW c, NEW A \in SUBSET Facts,
           {"alone", "profile"} \subseteq A, c = "operation" => "spoilable" \in A
    PROVE  Leads(c, A, Normalize,
                 (A \ {"inspected", "homeless"}) \cup {"clean", "protected", "over"})
  <1> DEFINE B == (A \ {"inspected"}) \cup {"clean", "over"}
             C == (A \ {"over"}) \cup {"clean", "inspected"}
             D == (A \ {"inspected", "homeless", "protected"}) \cup {"clean", "over"}
             Z == (A \ {"inspected", "homeless"}) \cup {"clean", "protected", "over"}
  <1>1. {<<"prune">>, <<"inspect">>, <<"protect">>, <<"verify">>} \subseteq Steps
    BY DEF Steps, Plain
  <1>2. B \in SUBSET Facts /\ C \in SUBSET Facts /\ D \in SUBSET Facts
    BY DEF Facts, ProfileFacts, StateFacts
  <1>3. Needs(c, <<"prune">>) \subseteq A /\ B \subseteq After(A, <<"prune">>)
    BY DEF After, Needs, Uses, Foreign, Gives, Breaks
  <1>4. Needs(c, <<"inspect">>) \subseteq B /\ C \subseteq After(B, <<"inspect">>)
    BY DEF After, Needs, Uses, Foreign, Gives, Breaks
  <1>5. Needs(c, <<"protect">>) \subseteq C /\ D \subseteq After(C, <<"protect">>)
    BY DEF After, Needs, Uses, Foreign, Gives, Breaks
  <1>6. Needs(c, <<"verify">>) \subseteq D /\ Z \subseteq After(D, <<"verify">>)
    BY DEF After, Needs, Uses, Foreign, Gives, Breaks
  <1> HIDE DEF B, C, D, Z
  <1>7. Leads(c, A, Normalize, Z)
    BY <1>1, <1>2, <1>3, <1>4, <1>5, <1>6, LeadsFour DEF Normalize
  <1> QED
    BY <1>7 DEF Z

\* Every step is one of the few that its first word allows.
LEMMA StepForms ==
    /\ \A l \in Locks : <<"take", l>> \in Steps
    /\ \A d \in Conditions : <<"require", d>> \in Steps
    /\ \A D \in Dropped : <<"drop", D>> \in Steps
    /\ \A op \in Plain : <<op>> \in Steps
    /\ \A c \in Cells : <<"save", c>> \in Steps /\ <<"clear", c>> \in Steps
    /\ <<"ready", "pending">> \in Steps
    /\ Cells = {"attempt", "pending", "execution", "active"}
  BY DEF Steps, Cells, Directory

\* ValidateHome does so too, and changes no entry.
LEMMA Validating ==
    ASSUME NEW c, NEW A \in SUBSET Facts,
           {"alone", "profile"} \subseteq A, c = "operation" => "spoilable" \in A
    PROVE  Leads(c, A, ValidateHome, (A \ {"inspected"}) \cup {"clean", "protected", "over"})
  <1> DEFINE B == (A \ {"inspected"}) \cup {"clean", "over"}
             Z == (A \ {"inspected"}) \cup {"clean", "protected", "over"}
  <1>1. <<"prune">> \in Steps /\ <<"verify">> \in Steps
    BY DEF Steps, Plain
  <1>2. B \in SUBSET Facts
    BY DEF Facts, ProfileFacts, StateFacts
  <1>3. Needs(c, <<"prune">>) \subseteq A /\ B \subseteq After(A, <<"prune">>)
    BY DEF After, Needs, Uses, Foreign, Gives, Breaks
  <1>4. Needs(c, <<"verify">>) \subseteq B /\ Z \subseteq After(B, <<"verify">>)
    BY DEF After, Needs, Uses, Foreign, Gives, Breaks
  <1> HIDE DEF B, Z
  <1>5. Leads(c, A, ValidateHome, Z)
    BY <1>1, <1>2, <1>3, <1>4, LeadsTwo DEF ValidateHome
  <1> QED
    BY <1>5 DEF Z

\* What is known once the home is gone.
Emptied == {"alone", "over", "profile", "settled", "spoilable", "withdrawn", "forgotten",
            "homeless", "synced"}

\* Invalidate leaves no identity and no home.
LEMMA Invalidating ==
    ASSUME NEW c, NEW A \in SUBSET Facts,
           {"alone", "profile", "settled", "spoilable"} \subseteq A
    PROVE  Leads(c, A, Invalidate, Emptied)
  <1> DEFINE B == {"alone", "over", "profile", "settled", "spoilable", "withdrawn", "forgotten"}
  <1>1. {<<"clear", "active">>, <<"empty">>, <<"remove">>} \subseteq Steps
    BY StepForms DEF Plain
  <1>2. B \in SUBSET Facts
    BY DEF Facts, ProfileFacts, StateFacts
  <1>3. Needs(c, <<"clear", "active">>) \subseteq A /\ B \subseteq After(A, <<"clear", "active">>)
    BY DEF After, Needs, Uses, Foreign, Gives, Breaks
  <1>4. Needs(c, <<"empty">>) \subseteq B /\ B \subseteq After(B, <<"empty">>)
    BY DEF After, Needs, Uses, Foreign, Gives, Breaks
  <1>5. Needs(c, <<"remove">>) \subseteq B /\ Emptied \subseteq After(B, <<"remove">>)
    BY DEF After, Needs, Uses, Foreign, Gives, Breaks, Emptied
  <1> HIDE DEF B
  <1> QED
    BY <1>1, <1>2, <1>3, <1>4, <1>5, LeadsThree DEF Invalidate

\* One list after the other, when the second asks for less than the first shows.
LEMMA LeadsThen ==
    ASSUME NEW c, NEW A, NEW B, NEW D, NEW Z, NEW s, NEW t,
           Leads(c, A, s, B), D \subseteq B, Leads(c, D, t, Z)
    PROVE  Leads(c, A, s \o t, Z)
  BY LeadsMore, LeadsOn

\* What an operation knows where an error makes it spoil the home, where the
\* native process may run, and after it.
Doubting == {"alone", "profile", "settled", "spoilable"}
Opening  == Doubting \cup {"over", "whole"}
Cleared  == Opening \cup {"withdrawn", "forgotten"}
Ending   == {"alone", "over", "profile"}

\* These are facts.
LEMMA ContextsAreFacts ==
    /\ Doubting \in SUBSET Facts /\ Opening \in SUBSET Facts /\ Cleared \in SUBSET Facts
    /\ Ending \in SUBSET Facts /\ Emptied \in SUBSET Facts
  BY DEF Facts, ProfileFacts, StateFacts, Doubting, Opening, Cleared, Ending, Emptied

\* Spoil ends the operation it finds, whatever state that was in.
LEMMA Spoiling ==
    ASSUME NEW c, NEW A \in SUBSET Facts, Doubting \subseteq A
    PROVE  Leads(c, A, Spoil, Ending)
  <1>1. Leads(c, A, Invalidate, Emptied)
    BY Invalidating DEF Doubting
  <1>2. Leads(c, Emptied, <<<<"clear", "pending">>>>, Ending)
    <2>1. <<"clear", "pending">> \in Steps
      BY StepForms
    <2>2. /\ Needs(c, <<"clear", "pending">>) \subseteq Emptied
          /\ Ending \subseteq After(Emptied, <<"clear", "pending">>)
      BY DEF After, Needs, Uses, Foreign, Gives, Breaks, Emptied, Ending
    <2> QED
      BY <2>1, <2>2, LeadsOne, ContextsAreFacts
  <1> QED
    BY <1>1, <1>2, LeadsOn DEF Spoil

\* The journal of a recovered operation is cleared before the next one.
LEMMA Settling ==
    ASSUME NEW c, c = "operation", NEW A \in SUBSET Facts, Ending \subseteq A
    PROVE  Leads(c, A, <<<<"clear", "pending">>, <<"resume">>>>, {"over"})
  <1>1. <<"clear", "pending">> \in Steps /\ <<"resume">> \in Steps
    BY StepForms DEF Plain
  <1>2. /\ Needs(c, <<"clear", "pending">>) \subseteq A
        /\ Ending \subseteq After(A, <<"clear", "pending">>)
    BY DEF After, Needs, Uses, Foreign, Gives, Breaks, Ending
  <1>3. Needs(c, <<"resume">>) \subseteq Ending /\ {"over"} \subseteq After(Ending, <<"resume">>)
    BY DEF After, Needs, Uses, Foreign, Gives, Breaks, Ending
  <1> QED
    BY <1>1, <1>2, <1>3, LeadsTwo, ContextsAreFacts

\* A recovery goes on with the operation that was asked for.
LEMMA SpoilingResumes ==
    ASSUME NEW c, c = "operation", NEW A \in SUBSET Facts, Doubting \subseteq A
    PROVE  Leads(c, A, Spoil \o <<<<"resume">>>>, {"over"})
  <1>1. Leads(c, Ending, <<<<"resume">>>>, {"over"})
    <2>1. <<"resume">> \in Steps
      BY StepForms DEF Plain
    <2>2. Needs(c, <<"resume">>) \subseteq Ending /\ {"over"} \subseteq After(Ending, <<"resume">>)
      BY DEF After, Needs, Uses, Foreign, Gives, Breaks, Ending
    <2> QED
      BY <2>1, <2>2, LeadsOne, ContextsAreFacts
  <1> QED
    BY <1>1, Spoiling, LeadsOn

\* A recovery that fails notes that the home is in doubt, then spoils it.
LEMMA SavingSpoils ==
    ASSUME NEW c, c = "operation", NEW A \in SUBSET Facts,
           {"alone", "profile", "spoilable"} \subseteq A
    PROVE  Leads(c, A, <<<<"save", "pending">>>> \o (Spoil \o <<<<"resume">>>>), {"over"})
  <1>1. Leads(c, A, <<<<"save", "pending">>>>, Doubting)
    <2>1. <<"save", "pending">> \in Steps
      BY StepForms
    <2>2. /\ Needs(c, <<"save", "pending">>) \subseteq A
          /\ Doubting \subseteq After(A, <<"save", "pending">>)
      BY DEF After, Needs, Uses, Foreign, Gives, Breaks, Doubting
    <2> QED
      BY <2>1, <2>2, LeadsOne, ContextsAreFacts
  <1> QED
    BY <1>1, SpoilingResumes, LeadsOn, ContextsAreFacts

\* A new operation is journaled before the control plane begins it.
LEMMA Operating ==
    ASSUME NEW c, c = "operation", NEW A \in SUBSET Facts, {"alone", "profile"} \subseteq A
    PROVE  Leads(c, A, Operate, {"over"})
  <1> DEFINE B == {"alone", "profile", "settled"}
  <1>1. <<"save", "pending">> \in Steps /\ <<"begin">> \in Steps
    BY StepForms DEF Plain
  <1>2. B \in SUBSET Facts
    BY DEF Facts, ProfileFacts, StateFacts
  <1>3. /\ Needs(c, <<"save", "pending">>) \subseteq A
        /\ B \subseteq After(A, <<"save", "pending">>)
    BY DEF After, Needs, Uses, Foreign, Gives, Breaks
  <1>4. Needs(c, <<"begin">>) \subseteq B /\ {"over"} \subseteq After(B, <<"begin">>)
    BY DEF After, Needs, Uses, Foreign, Gives, Breaks
  <1> HIDE DEF B
  <1> QED
    BY <1>1, <1>2, <1>3, <1>4, LeadsTwo DEF Operate

\* A native process that came out ready is reported, and its identity saved.
LEMMA Finishing ==
    ASSUME NEW c, c = "operation", NEW A \in SUBSET Facts,
           {"alone", "profile", "whole", "rooted"} \subseteq A
    PROVE  Leads(c, A, <<<<"ready", "pending">>, <<"complete">>, <<"save", "active">>,
                         <<"clear", "pending">>>>, {"over"})
  <1> DEFINE B == {"alone", "profile", "ready"}
             D == {"alone", "profile", "whole", "rooted"}
  <1>1. /\ <<"ready", "pending">> \in Steps /\ <<"complete">> \in Steps
        /\ <<"save", "active">> \in Steps /\ <<"clear", "pending">> \in Steps
    BY StepForms DEF Plain
  <1>2. B \in SUBSET Facts /\ D \in SUBSET Facts
    BY DEF Facts, ProfileFacts, StateFacts
  <1>3. /\ Needs(c, <<"ready", "pending">>) \subseteq A
        /\ B \subseteq After(A, <<"ready", "pending">>)
    BY DEF After, Needs, Uses, Foreign, Gives, Breaks
  <1>4. Needs(c, <<"complete">>) \subseteq B /\ D \subseteq After(B, <<"complete">>)
    BY DEF After, Needs, Uses, Foreign, Gives, Breaks
  <1>5. Needs(c, <<"save", "active">>) \subseteq D /\ D \subseteq After(D, <<"save", "active">>)
    BY DEF After, Needs, Uses, Foreign, Gives, Breaks
  <1>6. /\ Needs(c, <<"clear", "pending">>) \subseteq D
        /\ {"over"} \subseteq After(D, <<"clear", "pending">>)
    BY DEF After, Needs, Uses, Foreign, Gives, Breaks
  <1> HIDE DEF B, D
  <1> QED
    BY <1>1, <1>2, <1>3, <1>4, <1>5, <1>6, LeadsFour

\* The operation as the control plane began it.
LEMMA Beginning ==
    ASSUME NEW A \in SUBSET Facts, Doubting \subseteq A, NEW kind
    PROVE  Leads("operation", A, Begun(kind), {"over"})
  <1> DEFINE c == "operation"
             Kept     == Cleared \cup {"clean", "protected"}
             Started  == Opening \cup {"rooted"}
             Opens    == IF kind = "login" THEN Invalidate \o <<<<"make">>>>
                         ELSE <<<<"require", "active">>>>
             Enters  == <<<<"save", "pending">>, <<"native">>>>
             Closes     == <<<<"ready", "pending">>, <<"complete">>, <<"save", "active">>,
                           <<"clear", "pending">>>>
  <1>1. Leads(c, A, Invalidate \o <<<<"make">>>>, Opening)
    <2>1. Leads(c, A, Invalidate, Emptied)
      BY Invalidating DEF Doubting
    <2>2. <<"make">> \in Steps
      BY StepForms DEF Plain
    <2>3. Needs(c, <<"make">>) \subseteq Emptied /\ Opening \subseteq After(Emptied, <<"make">>)
      BY DEF After, Needs, Uses, Foreign, Gives, Breaks, Emptied, Opening, Doubting
    <2>4. Leads(c, Emptied, <<<<"make">>>>, Opening)
      BY <2>2, <2>3, LeadsOne, ContextsAreFacts
    <2> QED
      BY <2>1, <2>4, LeadsOn
  <1>2. Leads(c, A, <<<<"require", "active">>>>, Opening)
    <2>1. <<"require", "active">> \in Steps
      BY StepForms DEF Conditions
    <2>2. /\ Needs(c, <<"require", "active">>) \subseteq A
          /\ Opening \subseteq After(A, <<"require", "active">>)
      BY DEF After, Needs, Uses, Foreign, Gives, Breaks, Opening, Doubting
    <2> QED
      BY <2>1, <2>2, LeadsOne
  <1>3. Leads(c, A, Opens, Opening)
    BY <1>1, <1>2
  <1>4. Leads(c, Opening, <<<<"clear", "active">>>>, Cleared)
    <2>1. <<"clear", "active">> \in Steps
      BY StepForms
    <2>2. /\ Needs(c, <<"clear", "active">>) \subseteq Opening
          /\ Cleared \subseteq After(Opening, <<"clear", "active">>)
      BY DEF After, Needs, Uses, Foreign, Gives, Breaks, Opening, Doubting, Cleared
    <2> QED
      BY <2>1, <2>2, LeadsOne, ContextsAreFacts
  <1>5. Leads(c, Cleared, ValidateHome, Kept)
    <2>1. {"alone", "profile", "spoilable"} \subseteq Cleared
      BY DEF Opening, Doubting, Cleared
    <2>2. Kept \subseteq (Cleared \ {"inspected"}) \cup {"clean", "protected", "over"}
      BY DEF Opening, Doubting, Cleared
    <2>3. Leads(c, Cleared, ValidateHome,
                (Cleared \ {"inspected"}) \cup {"clean", "protected", "over"})
      BY <2>1, Validating, ContextsAreFacts
    <2> QED
      BY <2>2, <2>3, LeadsMore
  <1>6. Leads(c, Kept, Enters, Started)
    <2> DEFINE B == Kept \cup {"begun", "synced", "rooted"}
    <2>1. <<"save", "pending">> \in Steps /\ <<"native">> \in Steps
      BY StepForms DEF Plain
    <2>2. Kept \in SUBSET Facts /\ B \in SUBSET Facts
      BY DEF Facts, ProfileFacts, StateFacts, Opening, Doubting, Cleared
    <2>3. /\ Needs(c, <<"save", "pending">>) \subseteq Kept
          /\ B \subseteq After(Kept, <<"save", "pending">>)
      BY DEF After, Needs, Uses, Foreign, Gives, Breaks, Opening, Doubting, Cleared
    <2>4. Needs(c, <<"native">>) \subseteq B /\ Started \subseteq After(B, <<"native">>)
      BY DEF After, Needs, Uses, Foreign, Gives, Breaks, Opening, Doubting, Cleared
    <2> HIDE DEF B, Kept
    <2> QED
      BY <2>1, <2>2, <2>3, <2>4, LeadsTwo
  <1>7. Leads(c, Started, Normalize, Started)
    <2>1. {"alone", "profile", "spoilable"} \subseteq Started
      BY DEF Opening, Doubting
    <2>2. Started \subseteq (Started \ {"inspected", "homeless"}) \cup {"clean", "protected", "over"}
      BY DEF Opening, Doubting
    <2>3. Started \in SUBSET Facts
      BY ContextsAreFacts DEF Facts, ProfileFacts
    <2>4. Leads(c, Started, Normalize,
                (Started \ {"inspected", "homeless"}) \cup {"clean", "protected", "over"})
      BY <2>1, <2>3, Normalizing
    <2> QED
      BY <2>2, <2>4, LeadsMore
  <1>8. Leads(c, Started, Closes, {"over"})
    <2>1. {"alone", "profile", "whole", "rooted"} \subseteq Started
      BY DEF Opening, Doubting
    <2>2. Started \in SUBSET Facts
      BY ContextsAreFacts DEF Facts, ProfileFacts
    <2> QED
      BY <2>1, <2>2, Finishing
  <1>9. Leads(c, A, Spoil, {"over"})
    <2>1. {"over"} \subseteq Ending
      BY DEF Ending
    <2> QED
      BY <2>1, Spoiling, LeadsMore
  <1> HIDE DEF c, Kept, Started, Opens, Enters, Closes
  <1>10. Leads(c, A, Opens \o <<<<"clear", "active">>>> \o ValidateHome, Kept)
    BY <1>3, <1>4, <1>5, LeadsOn
  <1>11. Leads(c, A, Opens \o <<<<"clear", "active">>>> \o ValidateHome \o Enters
                     \o Normalize \o Closes, {"over"})
    BY <1>10, <1>6, <1>7, <1>8, LeadsOn
  <1> QED
    BY <1>9, <1>11 DEF Begun, c, Opens, Enters, Closes

\* The operation an earlier process left, as its journal has it.
LEMMA Resuming ==
    ASSUME NEW A \in SUBSET Facts, NEW outcome, {"alone", "profile", "spoilable"} \subseteq A,
           outcome = "ready" => "ready" \in A, outcome # "ready" => "settled" \in A
    PROVE  Leads("operation", A, Resume(outcome), {"over"})
  <1> DEFINE c == "operation"
             B == {"alone", "profile", "spoilable", "ready"}
             D == {"alone", "profile", "whole", "rooted"}
  <1>1. CASE outcome = "ready"
    <2>1. Leads(c, A, Normalize, B)
      <3>1. B \subseteq (A \ {"inspected", "homeless"}) \cup {"clean", "protected", "over"}
        BY <1>1
      <3>2. Leads(c, A, Normalize,
                  (A \ {"inspected", "homeless"}) \cup {"clean", "protected", "over"})
        BY Normalizing
      <3> QED
        BY <3>1, <3>2, LeadsMore
    <2>2. /\ <<"complete">> \in Steps /\ <<"save", "active">> \in Steps
          /\ <<"clear", "pending">> \in Steps /\ <<"resume">> \in Steps
      BY StepForms DEF Plain
    <2>3. B \in SUBSET Facts /\ D \in SUBSET Facts
      BY DEF Facts, ProfileFacts, StateFacts
    <2>4. Needs(c, <<"complete">>) \subseteq B /\ D \subseteq After(B, <<"complete">>)
      BY DEF After, Needs, Uses, Foreign, Gives, Breaks
    <2>5. Needs(c, <<"save", "active">>) \subseteq D /\ D \subseteq After(D, <<"save", "active">>)
      BY DEF After, Needs, Uses, Foreign, Gives, Breaks
    <2>6. /\ Needs(c, <<"clear", "pending">>) \subseteq D
          /\ Ending \subseteq After(D, <<"clear", "pending">>)
      BY DEF After, Needs, Uses, Foreign, Gives, Breaks, Ending
    <2>7. Needs(c, <<"resume">>) \subseteq Ending /\ {"over"} \subseteq After(Ending, <<"resume">>)
      BY DEF After, Needs, Uses, Foreign, Gives, Breaks, Ending
    <2> HIDE DEF c, B, D
    <2>8. Leads(c, B, <<<<"complete">>, <<"save", "active">>, <<"clear", "pending">>,
                        <<"resume">>>>, {"over"})
      BY <2>2, <2>3, <2>4, <2>5, <2>6, <2>7, LeadsFour, ContextsAreFacts
    <2> QED
      BY <1>1, <2>1, <2>8, LeadsOn DEF Resume, c
  <1>2. CASE outcome # "ready"
    <2>1. Leads(c, A, Invalidate, Emptied)
      BY <1>2, Invalidating
    <2>2. Ending \subseteq Emptied
      BY DEF Ending, Emptied
    <2>3. Leads(c, Emptied, <<<<"clear", "pending">>, <<"resume">>>>, {"over"})
      BY <2>2, Settling, ContextsAreFacts
    <2> QED
      BY <1>2, <2>1, <2>3, LeadsOn DEF Resume
  <1> QED
    BY <1>1, <1>2

\* What a process knows that has locked the installation, by what it admits.
Admitted(A, d) == {"alone", "asking", "launch", "state", "root", "over"} \cup (A \cap {"named"})
                  \cup (IF d = "resolved" THEN {"resolved"} ELSE {})
Unlocked(A) == {"alone", "asking", "over"} \cup (A \cap {"named"})

\* Locks are taken, the release is recovered and the journals are looked at.
LEMMA Guarding ==
    ASSUME NEW c, NEW A \in SUBSET Facts, {"alone", "asking"} \subseteq A,
           NEW d \in Conditions, d # "active", NEW body,
           Leads(c, Admitted(A, d), body, Admitted(A, d))
    PROVE  Leads(c, A, Guarded(d, body), Unlocked(A))
  <1> DEFINE N  == A \cap {"named"}
             B1 == N \cup {"alone", "asking", "launch"}
             B2 == B1 \cup {"state"}
             B3 == B2 \cup {"root"}
             B4 == B3 \cup {"over"}
             Z  == Admitted(A, d)
             first == <<<<"take", "launch">>, <<"take", "state">>, <<"take", "root">>,
                        <<"recover">>, <<"require", d>>>>
             last == <<"drop", {"root", "state", "launch"}>>
  <1>1. /\ <<"take", "launch">> \in Steps /\ <<"take", "state">> \in Steps
        /\ <<"take", "root">> \in Steps /\ <<"recover">> \in Steps
        /\ <<"require", d>> \in Steps /\ last \in Steps
    BY StepForms DEF Plain, Locks, Dropped
  <1>2. /\ B1 \in SUBSET Facts /\ B2 \in SUBSET Facts /\ B3 \in SUBSET Facts
        /\ B4 \in SUBSET Facts /\ Z \in SUBSET Facts
    BY DEF Facts, ProfileFacts, StateFacts, Admitted
  <1>3. /\ Needs(c, <<"take", "launch">>) \subseteq A
        /\ B1 \subseteq After(A, <<"take", "launch">>)
    BY DEF After, Needs, Uses, Foreign, Gives, Breaks, Facts
  <1>4. Needs(c, <<"take", "state">>) \subseteq B1 /\ B2 \subseteq After(B1, <<"take", "state">>)
    BY DEF After, Needs, Uses, Foreign, Gives, Breaks, Facts, StateFacts
  <1>5. Needs(c, <<"take", "root">>) \subseteq B2 /\ B3 \subseteq After(B2, <<"take", "root">>)
    BY DEF After, Needs, Uses, Foreign, Gives, Breaks, Facts
  <1>6. Needs(c, <<"recover">>) \subseteq B3 /\ B4 \subseteq After(B3, <<"recover">>)
    BY DEF After, Needs, Uses, Foreign, Gives, Breaks
  <1>7. Needs(c, <<"require", d>>) \subseteq B4 /\ Z \subseteq After(B4, <<"require", d>>)
    BY DEF After, Needs, Uses, Foreign, Gives, Breaks, Conditions, Admitted
  <1>8. Needs(c, last) \subseteq Z /\ Unlocked(A) \subseteq After(Z, last)
    BY DEF After, Needs, Uses, Foreign, Gives, Breaks, Admitted, Unlocked, Facts, StateFacts
  <1> HIDE DEF B1, B2, B3, B4, Z, last
  <1>9. Leads(c, A, first, Z)
    <2> DEFINE rest == <<<<"take", "state">>, <<"take", "root">>, <<"recover">>, <<"require", d>>>>
    <2>0. Leads(c, B1, rest, Z)
      BY <1>1, <1>2, <1>4, <1>5, <1>6, <1>7, LeadsFour
    <2>1. Leads(c, B1, Tail(first), Z)
      <3>1. Tail(first) = rest
        OBVIOUS
      <3> HIDE DEF first, rest
      <3> QED
        BY <2>0, <3>1
    <2>2. first \in Seq(Steps) /\ first # <<>> /\ first[1] = <<"take", "launch">>
      BY <1>1
    <2>3. Needs(c, first[1]) \subseteq A /\ B1 \subseteq After(A, first[1])
      BY <1>3, <2>2
    <2> HIDE DEF first
    <2> QED
      BY <1>2, <2>1, <2>2, <2>3, LeadsFirst
  <1>10. Leads(c, Z, <<last>>, Unlocked(A))
    BY <1>1, <1>2, <1>8, LeadsOne
  <1> HIDE DEF first
  <1>11. Leads(c, A, first \o body \o <<last>>, Unlocked(A))
    BY <1>9, <1>10, LeadsOn DEF Z
  <1> QED
    BY <1>11 DEF Guarded, first, last

\* The launcher's look under the locks, which it gives back.
LEMMA Admitting ==
    ASSUME NEW c, NEW A \in SUBSET Facts, {"alone", "asking"} \subseteq A,
           NEW d \in Conditions, d # "active"
    PROVE  Leads(c, A, Guarded(d, <<>>), Unlocked(A))
  <1>1. Admitted(A, d) \in SUBSET Facts
    BY DEF Facts, ProfileFacts, StateFacts, Admitted
  <1>2. Leads(c, Admitted(A, d), <<>>, Admitted(A, d))
    BY <1>1, LeadsNowhere
  <1> QED
    BY <1>2, Guarding

\* Setup, for a release it has.
LEMMA SettingUp ==
    ASSUME NEW A \in SUBSET Facts, {"alone", "asking", "named"} \subseteq A
    PROVE  Leads("setup", A, Setup, {"over"})
  <1> DEFINE B == {"alone", "asking", "over", "named"}
             Z == Admitted(B, "resolved")
             c == "setup"
  <1>1. B \in SUBSET Facts /\ Z \in SUBSET Facts
    BY DEF Facts, ProfileFacts, StateFacts, Admitted
  <1>2. {"over"} \subseteq Unlocked(B) /\ B \subseteq Unlocked(A)
    BY DEF Unlocked
  <1>3. "resolved" \in Conditions /\ "resolved" # "active"
    BY DEF Conditions
  <1>4. Leads(c, Z, Activation, Z)
    <2>1. <<"mark">> \in Steps /\ <<"install">> \in Steps /\ <<"unmark">> \in Steps
      BY StepForms DEF Plain
    <2>2. Needs(c, <<"mark">>) \subseteq Z /\ Z \subseteq After(Z, <<"mark">>)
      BY DEF After, Needs, Uses, Foreign, Gives, Breaks, Admitted
    <2>3. Needs(c, <<"install">>) \subseteq Z /\ Z \subseteq After(Z, <<"install">>)
      BY DEF After, Needs, Uses, Foreign, Gives, Breaks, Admitted
    <2>4. Needs(c, <<"unmark">>) \subseteq Z /\ Z \subseteq After(Z, <<"unmark">>)
      BY DEF After, Needs, Uses, Foreign, Gives, Breaks, Admitted
    <2> HIDE DEF Z
    <2> QED
      BY <1>1, <2>1, <2>2, <2>3, <2>4, LeadsThree DEF Activation
  <1>5. Leads(c, B, Guarded("resolved", Activation), Unlocked(B))
    BY <1>1, <1>3, <1>4, Guarding
  <1>6. Leads(c, A, Guarded("resolved", <<>>), Unlocked(A))
    BY <1>3, Admitting
  <1> HIDE DEF B
  <1>7. Leads(c, B, Guarded("resolved", Activation), {"over"})
    BY <1>2, <1>5, LeadsMore
  <1> QED
    BY <1>2, <1>6, <1>7, LeadsThen DEF Setup

\* The commands themselves.
LEMMA Entering ==
    ASSUME NEW c \in {"run", "discard", "operation"},
           NEW A \in SUBSET Facts, {"alone"} \subseteq A
    PROVE  Leads(c, A, Body(c), {"over"})
  <1>1. CASE c = "run"
    <2> DEFINE B == {"alone", "state"}
    <2>1. <<"take", "state">> \in Steps /\ <<"load">> \in Steps
      BY StepForms DEF Plain, Locks
    <2>2. B \in SUBSET Facts
      BY DEF Facts, ProfileFacts, StateFacts
    <2>3. Needs(c, <<"take", "state">>) \subseteq A /\ B \subseteq After(A, <<"take", "state">>)
      BY DEF After, Needs, Uses, Foreign, Gives, Breaks, Facts, StateFacts
    <2>4. Needs(c, <<"load">>) \subseteq B /\ {"over"} \subseteq After(B, <<"load">>)
      BY <1>1 DEF After, Needs, Uses, Foreign, Gives, Breaks
    <2> HIDE DEF B
    <2> QED
      BY <1>1, <2>1, <2>2, <2>3, <2>4, LeadsTwo DEF Body
  <1>2. CASE c = "discard"
    <2> DEFINE B == {"alone", "state"}
    <2>1. <<"take", "state">> \in Steps /\ <<"clear", "attempt">> \in Steps
      BY StepForms DEF Locks
    <2>2. B \in SUBSET Facts
      BY DEF Facts, ProfileFacts, StateFacts
    <2>3. Needs(c, <<"take", "state">>) \subseteq A /\ B \subseteq After(A, <<"take", "state">>)
      BY DEF After, Needs, Uses, Foreign, Gives, Breaks, Facts, StateFacts
    <2>4. /\ Needs(c, <<"clear", "attempt">>) \subseteq B
          /\ {"over"} \subseteq After(B, <<"clear", "attempt">>)
      BY <1>2 DEF After, Needs, Uses, Foreign, Gives, Breaks
    <2> HIDE DEF B
    <2> QED
      BY <1>2, <2>1, <2>2, <2>3, <2>4, LeadsTwo DEF Body
  <1>3. CASE c = "operation"
    <2> DEFINE B == {"alone", "rootShared"}
               D == {"alone", "profile"}
    <2>1. /\ <<"take", "rootShared">> \in Steps /\ <<"take", "profile">> \in Steps
          /\ <<"require", "unreserved">> \in Steps /\ <<"resume">> \in Steps
      BY StepForms DEF Plain, Locks, Conditions
    <2>2. B \in SUBSET Facts /\ D \in SUBSET Facts
      BY DEF Facts, ProfileFacts, StateFacts
    <2>3. /\ Needs(c, <<"take", "rootShared">>) \subseteq A
          /\ B \subseteq After(A, <<"take", "rootShared">>)
      BY DEF After, Needs, Uses, Foreign, Gives, Breaks, Facts
    <2>4. /\ Needs(c, <<"take", "profile">>) \subseteq B
          /\ D \subseteq After(B, <<"take", "profile">>)
      BY DEF After, Needs, Uses, Foreign, Gives, Breaks, Facts, ProfileFacts
    <2>5. /\ Needs(c, <<"require", "unreserved">>) \subseteq D
          /\ D \subseteq After(D, <<"require", "unreserved">>)
      BY DEF After, Needs, Uses, Foreign, Gives, Breaks
    <2>6. Needs(c, <<"resume">>) \subseteq D /\ {"over"} \subseteq After(D, <<"resume">>)
      BY <1>3 DEF After, Needs, Uses, Foreign, Gives, Breaks
    <2> HIDE DEF B, D
    <2> QED
      BY <1>3, <2>1, <2>2, <2>3, <2>4, <2>5, <2>6, LeadsFour DEF Body
  <1> QED
    BY <1>1, <1>2, <1>3

\* The launcher of the installation, and the command it hands over to.
LEMMA Launching ==
    ASSUME NEW c \in {"run", "discard", "operation"},
           NEW A \in SUBSET Facts, {"alone", "asking"} \subseteq A
    PROVE  Leads(c, A, Launched(c), {"over"})
  <1> DEFINE B == {"alone", "asking"}
             D == {"alone", "asking", "launch"}
             E == {"alone", "launch"}
             next == <<<<"take", "launch">>, <<"dispatch">>>>
  <1>1. Admission(c) \in Conditions /\ Admission(c) # "active"
    BY DEF Admission, Conditions
  <1>2. B \in SUBSET Facts /\ D \in SUBSET Facts /\ E \in SUBSET Facts
    BY DEF Facts, ProfileFacts, StateFacts
  <1>3. <<"take", "launch">> \in Steps /\ <<"dispatch">> \in Steps
    BY StepForms DEF Plain, Locks
  <1>4. Needs(c, <<"take", "launch">>) \subseteq B /\ D \subseteq After(B, <<"take", "launch">>)
    BY DEF After, Needs, Uses, Foreign, Gives, Breaks, Facts
  <1>5. Needs(c, <<"dispatch">>) \subseteq D /\ E \subseteq After(D, <<"dispatch">>)
    BY DEF After, Needs, Uses, Foreign, Gives, Breaks
  <1>6. B \subseteq Unlocked(A)
    BY DEF Unlocked
  <1>7. Leads(c, E, Body(c), {"over"})
    BY <1>2, Entering
  <1> HIDE DEF B, D, E
  <1>8. Leads(c, B, next, E)
    BY <1>2, <1>3, <1>4, <1>5, LeadsTwo
  <1>9. Leads(c, A, Guarded(Admission(c), <<>>), Unlocked(A))
    BY <1>1, Admitting
  <1> HIDE DEF next
  <1>10. Leads(c, A, Guarded(Admission(c), <<>>) \o next, E)
    BY <1>6, <1>8, <1>9, LeadsThen
  <1> QED
    BY <1>7, <1>10, LeadsOn DEF Launched, next

\* Every cleanup looks for a reservation.
LEMMA Cleaning ==
    ASSUME NEW c, c = "run", NEW A \in SUBSET Facts, {"alone", "state"} \subseteq A
    PROVE  Leads(c, A, Cleanup, {"over"})
  <1> DEFINE B == {"alone", "state", "rootShared"}
             D == {"alone", "state", "profile"}
  <1>1. /\ <<"take", "rootShared">> \in Steps /\ <<"take", "profile">> \in Steps
        /\ <<"release">> \in Steps
    BY StepForms DEF Plain, Locks
  <1>2. B \in SUBSET Facts /\ D \in SUBSET Facts
    BY DEF Facts, ProfileFacts, StateFacts
  <1>3. /\ Needs(c, <<"take", "rootShared">>) \subseteq A
        /\ B \subseteq After(A, <<"take", "rootShared">>)
    BY DEF After, Needs, Uses, Foreign, Gives, Breaks, Facts
  <1>4. /\ Needs(c, <<"take", "profile">>) \subseteq B
        /\ D \subseteq After(B, <<"take", "profile">>)
    BY DEF After, Needs, Uses, Foreign, Gives, Breaks, Facts, ProfileFacts
  <1>5. Needs(c, <<"release">>) \subseteq D /\ {"over"} \subseteq After(D, <<"release">>)
    BY DEF After, Needs, Uses, Foreign, Gives, Breaks
  <1> HIDE DEF B, D
  <1> QED
    BY <1>1, <1>2, <1>3, <1>4, <1>5, LeadsThree DEF Cleanup

\* The attempt is let go once nothing is reserved for it.
LEMMA Releasing ==
    ASSUME NEW c, c = "run", NEW A \in SUBSET Facts, {"alone", "state", "released"} \subseteq A
    PROVE  Leads(c, A, Released, {"over"})
  <1> DEFINE B == {"alone", "state", "released"}
             D == {"alone", "state"}
             x == <<"drop", {"profile", "rootShared"}>>
  <1>1. /\ x \in Steps /\ <<"clear", "attempt">> \in Steps /\ <<"load">> \in Steps
    BY StepForms DEF Plain, Dropped
  <1>2. B \in SUBSET Facts /\ D \in SUBSET Facts
    BY DEF Facts, ProfileFacts, StateFacts
  <1>3. Needs(c, x) \subseteq A /\ B \subseteq After(A, x)
    BY DEF After, Needs, Uses, Foreign, Gives, Breaks, Facts, ProfileFacts
  <1>4. /\ Needs(c, <<"clear", "attempt">>) \subseteq B
        /\ D \subseteq After(B, <<"clear", "attempt">>)
    BY DEF After, Needs, Uses, Foreign, Gives, Breaks
  <1>5. Needs(c, <<"load">>) \subseteq D /\ {"over"} \subseteq After(D, <<"load">>)
    BY DEF After, Needs, Uses, Foreign, Gives, Breaks
  <1> HIDE DEF B, D, x
  <1>6. Leads(c, A, <<x, <<"clear", "attempt">>, <<"load">>>>, {"over"})
    BY <1>1, <1>2, <1>3, <1>4, <1>5, LeadsThree
  <1> QED
    BY <1>6 DEF Released, x

\* The cleanup of an attempt whose reservation is there.
LEMMA Unreserving ==
    ASSUME NEW A \in SUBSET Facts, {"alone", "state", "profile"} \subseteq A
    PROVE  Leads("run", A, Normalize \o <<<<"clear", "execution">>>> \o Released, {"over"})
  <1> DEFINE B == {"alone", "state", "profile"}
             D == {"alone", "state", "released"}
             c == "run"
  <1>1. Leads(c, A, Normalize, B)
    <2>1. B \subseteq (A \ {"inspected", "homeless"}) \cup {"clean", "protected", "over"}
      OBVIOUS
    <2>2. Leads(c, A, Normalize,
                (A \ {"inspected", "homeless"}) \cup {"clean", "protected", "over"})
      BY Normalizing
    <2> QED
      BY <2>1, <2>2, LeadsMore
  <1>2. B \in SUBSET Facts /\ D \in SUBSET Facts
    BY DEF Facts, ProfileFacts, StateFacts
  <1>3. <<"clear", "execution">> \in Steps
    BY StepForms
  <1>4. /\ Needs(c, <<"clear", "execution">>) \subseteq B
        /\ D \subseteq After(B, <<"clear", "execution">>)
    BY DEF After, Needs, Uses, Foreign, Gives, Breaks
  <1>5. Leads(c, D, Released, {"over"})
    BY <1>2, Releasing
  <1> HIDE DEF B, D, c
  <1>6. Leads(c, B, <<<<"clear", "execution">>>>, D)
    BY <1>2, <1>3, <1>4, LeadsOne
  <1>7. Leads(c, A, Normalize \o <<<<"clear", "execution">>>> \o Released, {"over"})
    BY <1>1, <1>5, <1>6, LeadsOn
  <1> QED
    BY <1>7 DEF c

\* An attempt, from its journal to its cleanup.
LEMMA Attempting ==
    ASSUME NEW A \in SUBSET Facts, {"alone", "state"} \subseteq A
    PROVE  Leads("run", A, Attempt, {"over"})
  <1> DEFINE c == "run"
             B1 == {"alone", "state", "saved"}
             B2 == {"alone", "state", "saved", "rootShared"}
             B3 == {"alone", "state", "saved", "rootShared", "profile"}
             B4 == B3 \cup {"clean", "protected"}
             B5 == B4 \cup {"ours", "synced"}
             B6 == {"alone", "state", "rootShared", "profile"}
             B7 == {"state", "rootShared", "profile"}
             B8 == {"alone", "state", "rootShared"}
             first == <<<<"save", "attempt">>, <<"take", "rootShared">>, <<"take", "profile">>,
                        <<"require", "active">>>>
             starts == <<<<"require", "reservable">>, <<"save", "execution">>, <<"native">>>>
             last == <<<<"clear", "execution">>, <<"drop", {"profile"}>>>>
  <1>1. /\ B1 \in SUBSET Facts /\ B2 \in SUBSET Facts /\ B3 \in SUBSET Facts
        /\ B4 \in SUBSET Facts /\ B5 \in SUBSET Facts /\ B6 \in SUBSET Facts
        /\ B7 \in SUBSET Facts /\ B8 \in SUBSET Facts
    BY DEF Facts, ProfileFacts, StateFacts
  <1>2. Leads(c, A, first, B3)
    <2>1. /\ <<"save", "attempt">> \in Steps /\ <<"take", "rootShared">> \in Steps
          /\ <<"take", "profile">> \in Steps /\ <<"require", "active">> \in Steps
      BY StepForms DEF Locks, Conditions
    <2>2. /\ Needs(c, <<"save", "attempt">>) \subseteq A
          /\ B1 \subseteq After(A, <<"save", "attempt">>)
      BY DEF After, Needs, Uses, Foreign, Gives, Breaks
    <2>3. /\ Needs(c, <<"take", "rootShared">>) \subseteq B1
          /\ B2 \subseteq After(B1, <<"take", "rootShared">>)
      BY DEF After, Needs, Uses, Foreign, Gives, Breaks, Facts
    <2>4. /\ Needs(c, <<"take", "profile">>) \subseteq B2
          /\ B3 \subseteq After(B2, <<"take", "profile">>)
      BY DEF After, Needs, Uses, Foreign, Gives, Breaks, Facts, ProfileFacts
    <2>5. /\ Needs(c, <<"require", "active">>) \subseteq B3
          /\ B3 \subseteq After(B3, <<"require", "active">>)
      BY DEF After, Needs, Uses, Foreign, Gives, Breaks
    <2> HIDE DEF B1, B2, B3
    <2> QED
      BY <1>1, <2>1, <2>2, <2>3, <2>4, <2>5, LeadsFour
  <1>3. Leads(c, B3, Normalize, B4)
    <2>1. B4 \subseteq (B3 \ {"inspected", "homeless"}) \cup {"clean", "protected", "over"}
      OBVIOUS
    <2>2. {"alone", "profile"} \subseteq B3
      OBVIOUS
    <2> HIDE DEF B3, B4
    <2>3. Leads(c, B3, Normalize,
                (B3 \ {"inspected", "homeless"}) \cup {"clean", "protected", "over"})
      BY <1>1, <2>2, Normalizing
    <2> QED
      BY <2>1, <2>3, LeadsMore
  <1>4. Leads(c, B4, starts, B6)
    <2>1. /\ <<"require", "reservable">> \in Steps /\ <<"save", "execution">> \in Steps
          /\ <<"native">> \in Steps
      BY StepForms DEF Plain, Conditions
    <2>2. /\ Needs(c, <<"require", "reservable">>) \subseteq B4
          /\ B4 \subseteq After(B4, <<"require", "reservable">>)
      BY DEF After, Needs, Uses, Foreign, Gives, Breaks
    <2>3. /\ Needs(c, <<"save", "execution">>) \subseteq B4
          /\ B5 \subseteq After(B4, <<"save", "execution">>)
      BY DEF After, Needs, Uses, Foreign, Gives, Breaks
    <2>4. Needs(c, <<"native">>) \subseteq B5 /\ B6 \subseteq After(B5, <<"native">>)
      BY DEF After, Needs, Uses, Foreign, Gives, Breaks
    <2> HIDE DEF B4, B5, B6
    <2> QED
      BY <1>1, <2>1, <2>2, <2>3, <2>4, LeadsThree
  <1>5. Leads(c, B6, Persist, B6)
    <2>1. <<"take", "session">> \in Steps /\ <<"drop", {"session"}>> \in Steps
      BY StepForms DEF Locks, Dropped
    <2>2. /\ Needs(c, <<"take", "session">>) \subseteq B6
          /\ B7 \subseteq After(B6, <<"take", "session">>)
      BY DEF After, Needs, Uses, Foreign, Gives, Breaks, Facts
    <2>3. /\ Needs(c, <<"drop", {"session"}>>) \subseteq B7
          /\ B6 \subseteq After(B7, <<"drop", {"session"}>>)
      BY DEF After, Needs, Uses, Foreign, Gives, Breaks, Facts
    <2> HIDE DEF B6, B7
    <2> QED
      BY <1>1, <2>1, <2>2, <2>3, LeadsTwo DEF Persist
  <1>6. Leads(c, B6, Normalize, B6)
    <2>1. B6 \subseteq (B6 \ {"inspected", "homeless"}) \cup {"clean", "protected", "over"}
      OBVIOUS
    <2>2. {"alone", "profile"} \subseteq B6
      OBVIOUS
    <2> HIDE DEF B6
    <2>3. Leads(c, B6, Normalize,
                (B6 \ {"inspected", "homeless"}) \cup {"clean", "protected", "over"})
      BY <1>1, <2>2, Normalizing
    <2> QED
      BY <2>1, <2>3, LeadsMore
  <1>7. Leads(c, B6, last, B8)
    <2>1. <<"clear", "execution">> \in Steps /\ <<"drop", {"profile"}>> \in Steps
      BY StepForms DEF Dropped
    <2>2. /\ Needs(c, <<"clear", "execution">>) \subseteq B6
          /\ B6 \subseteq After(B6, <<"clear", "execution">>)
      BY DEF After, Needs, Uses, Foreign, Gives, Breaks
    <2>3. /\ Needs(c, <<"drop", {"profile"}>>) \subseteq B6
          /\ B8 \subseteq After(B6, <<"drop", {"profile"}>>)
      BY DEF After, Needs, Uses, Foreign, Gives, Breaks, Facts, ProfileFacts
    <2> HIDE DEF B6, B8
    <2> QED
      BY <1>1, <2>1, <2>2, <2>3, LeadsTwo
  <1>8. Leads(c, B8, Cleanup, {"over"})
    BY <1>1, Cleaning
  <1> HIDE DEF c, B1, B2, B3, B4, B5, B6, B7, B8, first, starts, last
  <1>9. Leads(c, A, first \o Normalize \o starts \o Persist \o Normalize, B6)
    BY <1>2, <1>3, <1>4, <1>5, <1>6, LeadsOn
  <1>10. Leads(c, A, first \o Normalize \o starts \o Persist \o Normalize \o last \o Cleanup,
               {"over"})
    BY <1>7, <1>8, <1>9, LeadsOn
  <1> QED
    BY <1>10 DEF Attempt, c, first, starts, last

\* The supervisor may always look at its journal again.
LEMMA Looking ==
    ASSUME NEW c, c = "run", NEW A \in SUBSET Facts, {"alone", "state"} \subseteq A
    PROVE  Leads(c, A, <<<<"load">>>>, {"over"})
  <1>1. <<"load">> \in Steps
    BY StepForms DEF Plain
  <1>2. Needs(c, <<"load">>) \subseteq A /\ {"over"} \subseteq After(A, <<"load">>)
    BY DEF After, Needs, Uses, Foreign, Gives, Breaks
  <1> QED
    BY <1>1, <1>2, LeadsOne

-----------------------------------------------------------------------------
(* What a step does to the facts *)

\* Process q is what it was.
SameProcess(q) == /\ cmd'[q] = cmd[q] /\ stage'[q] = stage[q] /\ version'[q] = version[q]
                  /\ todo'[q] = todo[q] /\ job'[q] = job[q] /\ held'[q] = held[q]

\* A step changes only what its process has locked.
Footprint(p) ==
    /\ \A q \in Procs : q # p => SameProcess(q)
    /\ \/ HasProfile(p)
       \/ /\ UNCHANGED <<home, scratch, rooted, stopped>>
          /\ \A c \in Cells : c # "attempt" =>
                file'[c] = file[c] /\ disk'[c] = disk[c] /\ (c \in relied => c \in relied')
    /\ \/ "state" \in held[p]
       \/ /\ file'["attempt"] = file["attempt"] /\ disk'["attempt"] = disk["attempt"]
          /\ file'["execution"] = file["execution"] /\ (Unreserved => Unreserved')
    /\ "launch" \in held[p] \/ UNCHANGED <<release, undo>>
    /\ revived' = revived

\* Locks taken by one process are not had by another.
LEMMA Excluded ==
    ASSUME Compatible, NEW p \in Procs, NEW q \in Procs, p # q
    PROVE  /\ \A l \in held[p] : l # "rootShared" => l \notin held[q]
           /\ "rootShared" \in held[p] => "root" \notin held[q]
  BY DEF Compatible, Conflicts

\* So the step of a process takes no fact from another.
LEMMA OthersKnow ==
    ASSUME Typed, Compatible, NEW p \in Procs, NEW q \in Procs, p # q, Footprint(p)
    PROVE  Known(q) \subseteq Known(q)'
  <1>1. /\ "profile" \in held[q] \/ "root" \in held[q] => ~HasProfile(p)
        /\ "state" \in held[q] => "state" \notin held[p]
    BY Excluded DEF HasProfile
  <1>2. SameProcess(q) /\ (Recovering(q) => Recovering(q)') /\ (Turned => Turned')
    BY DEF Footprint, SameProcess, Recovering, Turned
  <1> SUFFICES ASSUME NEW f \in Facts, Fact(q, f) PROVE Fact(q, f)'
    BY DEF Known
  <1>4. Cells = {"attempt", "pending", "execution", "active"}
    BY StepForms
  <1> QED
    BY <1>1, <1>2, <1>4
       DEF Footprint, SameProcess, Fact, HasProfile, Absent, Facts, ProfileFacts, StateFacts,
           Forgotten, Settled, Protected

\* And what the other process has begun stays so.
LEMMA OthersKeep ==
    ASSUME Typed, Compatible, NEW p \in Procs, NEW q \in Procs, p # q, Footprint(p),
           Runs(q), Written(q), Dispatched(q)
    PROVE  Runs(q)' /\ Written(q)' /\ Dispatched(q)'
  <1>1. SameProcess(q)
    BY DEF Footprint
  <1>2. /\ "profile" \in held[q] \/ "root" \in held[q] => ~HasProfile(p)
        /\ "state" \in held[q] => "state" \notin held[p]
        /\ "launch" \in held[q] => "launch" \notin held[p]
    BY Excluded DEF HasProfile
  <1>3. Runs(q)'
    <2>1. Known(q) \subseteq Known(q)'
      BY OthersKnow
    <2>2. ~Idle(q) => Leads(cmd[q], Known(q)', todo[q], {"over"})
      BY <2>1, LeadsMore DEF Runs
    <2> QED
      BY <1>1, <2>2 DEF Runs, SameProcess, Idle
  <1>4. Written(q)'
    <2> SUFFICES ASSUME ~Idle(q), job[q] = Renamed PROVE Written(q)'
      BY <1>1 DEF Written, SameProcess
    <2> DEFINE x == Step(q)
    <2>1. x \in Steps /\ Needs(cmd[q], x) \subseteq Known(q)
      BY LeadsHead DEF Runs, Step
    <2>2. Step(q)' = x /\ x = Step(q)
      BY <1>1 DEF SameProcess, Step
    <2> HIDE DEF x
    <2>3. CASE x = <<"save", "attempt">>
      <3>1. Fact(q, "state")
        BY <2>1, <2>3 DEF Needs, Uses, Foreign, Known
      <3> QED
        BY <1>2, <2>2, <2>3, <3>1 DEF Fact, Footprint, Written, Idle, SameProcess
    <2>4. CASE x = <<"clear", "attempt">>
      <3>1. Fact(q, "state")
        BY <2>1, <2>4 DEF Needs, Uses, Foreign, Known
      <3> QED
        BY <1>2, <2>2, <2>4, <3>1 DEF Fact, Footprint, Written, Idle, SameProcess
    <2>5. CASE x = <<"save", "execution">>
      <3>1. Fact(q, "state")
        BY <2>1, <2>5 DEF Needs, Uses, Foreign, Known
      <3> QED
        BY <1>2, <2>2, <2>5, <3>1 DEF Fact, Footprint, Written, Idle, SameProcess
    <2>6. CASE /\ x \notin {<<"save", "attempt">>, <<"clear", "attempt">>, <<"save", "execution">>}
               /\ x[1] \in {"save", "ready", "clear"}
      <3>1. /\ x \in {<<"save", "pending">>, <<"save", "active">>, <<"ready", "pending">>,
                      <<"clear", "pending">>, <<"clear", "active">>, <<"clear", "execution">>}
            /\ x[2] \in Cells \ {"attempt"}
        BY <2>1, <2>6, StepForms DEF Steps, Plain
      <3>2. Fact(q, "profile")
        BY <2>1, <3>1 DEF Needs, Uses, Foreign, Known, Facts, ProfileFacts
      <3>3. \A c \in Cells : c # "attempt" => file'[c] = file[c]
        BY <1>2, <3>2 DEF Fact, HasProfile, Footprint
      <3> QED
        BY <1>1, <2>2, <3>1, <3>3, StepForms DEF Written, Idle, SameProcess
    <2>7. CASE x[1] \notin {"save", "ready", "clear"}
      BY <1>1, <2>2, <2>7 DEF Written, Idle, SameProcess
    <2> QED
      BY <2>3, <2>4, <2>5, <2>6, <2>7
  <1>5. Dispatched(q)'
    BY <1>1, <1>2 DEF Dispatched, Footprint, SameProcess
  <1> QED
    BY <1>3, <1>4, <1>5

-----------------------------------------------------------------------------
(* What a step does to its process *)

\* The process has ended, or it goes on with the steps s.
Ended(p) == /\ cmd'[p] = None /\ stage'[p] = "off" /\ todo'[p] = <<>>
            /\ job'[p] = None /\ held'[p] = {}
Turns(p, s) == /\ cmd'[p] = cmd[p] /\ stage'[p] = stage[p] /\ version'[p] = version[p]
               /\ todo'[p] = s /\ s # <<>> /\ job'[p] = None /\ held'[p] = held[p]
Apart(p) == \A q \in Procs : q # p => SameProcess(q)

\* A process that ends is gone, and the others are what they were.
LEMMA Typing ==
    ASSUME TypedProcesses, NEW p \in Procs, Gone({p})
    PROVE  Apart(p) /\ Ended(p) /\ TypedProcesses'
  <1>1. Apart(p) /\ Ended(p)
    BY DEF TypedProcesses, Gone, Apart, Ended, SameProcess
  <1>2. /\ cmd' \in [Procs -> Commands \cup {None}]
        /\ version' \in [Procs -> Releases \cup {None}]
        /\ stage' \in [Procs -> {"off", "asking", "direct", "dispatched"}]
    BY DEF TypedProcesses, Gone
  <1>3. todo' \in [Procs -> Seq(Steps)]
    <2>1. <<>> \in Seq(Steps)
      OBVIOUS
    <2> QED
      BY <2>1 DEF TypedProcesses, Gone
  <1>4. job' \in [Procs -> {None, Renamed} \cup Tree] /\ held' \in [Procs -> SUBSET Locks]
    BY DEF TypedProcesses, Gone
  <1> QED
    BY <1>1, <1>2, <1>3, <1>4 DEF TypedProcesses

\* A process does a list of steps, or ends if there are none.
LEMMA DoesForms ==
    ASSUME TypedProcesses, NEW p \in Procs, NEW s \in Seq(Steps), Does(p, s)
    PROVE  Apart(p) /\ (Ended(p) \/ Turns(p, s)) /\ TypedProcesses'
  <1>1. CASE s = <<>>
    BY <1>1, Typing DEF Does
  <1>2. CASE s # <<>>
    <2>1. /\ todo' = [todo EXCEPT ![p] = s] /\ job' = [job EXCEPT ![p] = None]
          /\ UNCHANGED <<cmd, stage, version, held>>
      BY <1>2 DEF Does
    <2>2. Apart(p) /\ Turns(p, s)
      BY <2>1, <1>2 DEF TypedProcesses, Apart, Turns, SameProcess
    <2>3. TypedProcesses'
      BY <2>1 DEF TypedProcesses
    <2> QED
      BY <2>2, <2>3
  <1> QED
    BY <1>1, <1>2

\* What a step may do to the journals, the home and the release, given what it
\* has locked.
Lasts == ReservationLasts /\ ActiveLasts /\ PendingLasts
Touches(p) ==
    /\ \/ HasProfile(p)
       \/ /\ UNCHANGED <<home, scratch, rooted, stopped>>
          /\ \A c \in Cells : c # "attempt" =>
                file'[c] = file[c] /\ disk'[c] = disk[c] /\ (c \in relied => c \in relied')
    /\ \/ "state" \in held[p]
       \/ /\ file'["attempt"] = file["attempt"] /\ disk'["attempt"] = disk["attempt"]
          /\ file'["execution"] = file["execution"] /\ (Unreserved => Unreserved')
    /\ \/ UNCHANGED <<release, undo>>
       \/ "launch" \in held[p] /\ stage[p] # "dispatched"
    /\ revived' = revived /\ TypedWorld' /\ Lasts'

\* Locks that are held fewer of stay compatible.
LEMMA HoldsLess ==
    ASSUME Compatible, NEW p \in Procs, Apart(p), held'[p] \subseteq held[p]
    PROVE  Compatible'
  BY DEF Compatible, Apart, SameProcess

\* A step keeps the invariant if its own process can go on.
LEMMA StepKeeps ==
    ASSUME IInv, NEW p \in Procs, Touches(p), Apart(p), TypedProcesses', Compatible',
           Runs(p)', Written(p)', Dispatched(p)'
    PROVE  IInv'
  <1>1. Footprint(p)
    BY DEF Touches, Apart, Footprint
  <1>2. ASSUME NEW q \in Procs PROVE Runs(q)' /\ Written(q)' /\ Dispatched(q)'
    <2>1. CASE q # p
      BY <1>1, <2>1, OthersKeep DEF IInv
    <2> QED
      BY <2>1
  <1> QED
    BY <1>2 DEF IInv, Typed, Touches, Lasts

\* A process may always end.
LEMMA EndsKeep ==
    ASSUME IInv, NEW p \in Procs, Touches(p), Apart(p), TypedProcesses', Ended(p)
    PROVE  IInv'
  <1>1. Compatible'
    BY HoldsLess DEF IInv, Ended
  <1>2. Runs(p)' /\ Written(p)' /\ Dispatched(p)'
    BY StateFilesAssumption DEF Ended, Runs, Written, Dispatched, Idle
  <1> QED
    BY <1>1, <1>2, StepKeeps

\* A process may turn to another list that what is known leads through.
LEMMA Replacing ==
    ASSUME IInv, NEW p \in Procs, ~Idle(p), NEW s \in Seq(Steps), Does(p, s), Touches(p),
           Turns(p, s) => Leads(cmd[p], Known(p)', s, {"over"})
    PROVE  IInv'
  <1>1. Apart(p) /\ (Ended(p) \/ Turns(p, s)) /\ TypedProcesses'
    BY DoesForms DEF IInv, Typed
  <1>2. CASE Ended(p)
    BY <1>1, <1>2, EndsKeep
  <1>3. CASE Turns(p, s)
    <2>1. Compatible'
      BY <1>1, <1>3, HoldsLess DEF IInv, Turns
    <2>2. Runs(p)'
      BY <1>3 DEF IInv, Turns, Runs, Idle
    <2>3. Written(p)'
      <3>1. None # Renamed
        BY StateFilesAssumption
      <3> QED
        BY <1>3, <3>1 DEF Turns, Written
    <2>4. Dispatched(p)'
      BY <1>3 DEF IInv, Turns, Dispatched, Touches
    <2> QED
      BY <1>1, <2>1, <2>2, <2>3, <2>4, StepKeeps
  <1> QED
    BY <1>1, <1>2, <1>3

\* A process goes on when a step has given what it gives.
LEMMA Going ==
    ASSUME IInv, NEW p \in Procs, ~Idle(p), Goes(p), Touches(p),
           Turns(p, Tail(todo[p])) => After(Known(p), Step(p)) \subseteq Known(p)'
    PROVE  IInv'
  <1>1. todo[p] # <<>> /\ todo[p] \in Seq(Steps) /\ Leads(cmd[p], Known(p), todo[p], {"over"})
    BY DEF IInv, Runs, Typed, TypedProcesses
  <1> DEFINE s == Tail(todo[p])
  <1>2. s \in Seq(Steps) /\ Does(p, s)
    BY <1>1 DEF Goes
  <1>3. ASSUME Turns(p, s) PROVE Leads(cmd[p], Known(p)', s, {"over"})
    BY <1>1, <1>3, LeadsTail DEF Step
  <1> HIDE DEF s
  <1> QED
    BY <1>2, <1>3, Replacing

\* The step goes on.
Stays(p) == /\ cmd'[p] = cmd[p] /\ stage'[p] = stage[p] /\ version'[p] = version[p]
            /\ todo'[p] = todo[p] /\ held'[p] = held[p]
\* A step that goes on must still find what it needs.
LEMMA Staying ==
    ASSUME IInv, NEW p \in Procs, ~Idle(p), Apart(p), TypedProcesses', Stays(p), Touches(p),
           Known(p) \ Breaks(Step(p)) \subseteq Known(p)',
           Needs(cmd[p], Step(p)) \subseteq Known(p)', Written(p)'
    PROVE  IInv'
  <1>1. todo[p] # <<>> /\ Leads(cmd[p], Known(p), todo[p], {"over"})
    BY DEF IInv, Runs
  <1>2. Compatible'
    BY HoldsLess DEF IInv, Stays
  <1>3. Leads(cmd[p], Known(p)', todo[p], {"over"})
    <2>1. Known(p)' \in SUBSET Facts
      BY DEF Known
    <2> QED
      BY <1>1, <2>1, LeadsStill DEF Step
  <1>4. Runs(p)'
    BY <1>3 DEF IInv, Stays, Runs, Idle
  <1>5. Dispatched(p)'
    BY DEF IInv, Stays, Dispatched, Touches
  <1> QED
    BY <1>2, <1>4, <1>5, StepKeeps

-----------------------------------------------------------------------------
(* Steps that change nothing but their process, and steps that fail *)

\* At most one more journal is relied on.
Reads == /\ UNCHANGED <<file, disk, revived, abandoned, rooted, stopped, home, scratch>>
         /\ relied \subseteq relied'

\* A step that only reads touches nothing.
LEMMA ReadsTouch ==
    ASSUME IInv, NEW p \in Procs, Reads, UNCHANGED config, relied' \subseteq Cells,
           Fine \/ Fault
    PROVE  Touches(p)
  <1>1. TypedWorld'
    BY StateFilesAssumption DEF IInv, Typed, TypedWorld, Reads, config, Fine, Fault
  <1>2. Lasts'
    BY DEF IInv, Lasts, ReservationLasts, ActiveLasts, PendingLasts, Stands, Unreserved, Forgotten,
           Settled, Turned, Reads
  <1>3. Unreserved => Unreserved'
    BY DEF Unreserved, Reads
  <1> QED
    BY <1>1, <1>2, <1>3 DEF Touches, Reads, config

\* Nor does one that changes nothing at all.
LEMMA WorldStays ==
    ASSUME IInv, NEW p \in Procs, UNCHANGED <<journals, tree, config>>, Fine \/ Fault
    PROVE  Reads /\ Touches(p)
  <1>1. Reads /\ relied' \subseteq Cells
    BY DEF Reads, journals, tree, IInv, Typed, TypedWorld
  <1> QED
    BY <1>1, ReadsTouch

\* What a fact says is still so, as long as the process has the locks for it.
LEMMA FactsStay ==
    ASSUME NEW p, Reads, version'[p] = version[p], NEW f \in Known(p), f # "inspected",
           f = "spoilable" => (Recovering(p) => Recovering(p)'),
           f = "asking" => stage'[p] # "dispatched", f = "alone" => "session" \notin held'[p],
           f \in ProfileFacts /\ HasProfile(p) => HasProfile(p)',
           f \in StateFacts /\ "state" \in held[p] => "state" \in held'[p],
           f \in {"resolved", "root"} /\ "root" \in held[p] => "root" \in held'[p],
           f \in {"launch", "rootShared"} => f \in held'[p]
    PROVE  f \in Known(p)'
  <1> SUFFICES Fact(p, f)'
    BY DEF Known
  <1>1. Fact(p, f) /\ f \in Facts
    BY DEF Known
  <1>2. CASE f = "spoilable"
    BY <1>1, <1>2 DEF Fact, Reads, Settled, Turned, ProfileFacts
  <1>3. CASE f \in {"resolved", "saved", "released"}
    BY <1>1, <1>3 DEF Fact, Reads, Absent, Unreserved, StateFacts
  <1>4. CASE f = "ours"
    BY <1>1, <1>4 DEF Fact, Reads, StateFacts, ProfileFacts
  <1>5. CASE f \in {"synced", "withdrawn", "begun", "ready", "clean", "protected",
                    "homeless", "whole", "rooted", "forgotten", "settled"}
    BY <1>1, <1>5 DEF Fact, Reads, Forgotten, Settled, Turned, Protected, Whole, ProfileFacts
  <1>6. CASE f \in {"launch", "state", "root", "rootShared", "profile"}
    BY <1>1, <1>6 DEF Fact, ProfileFacts, StateFacts
  <1>7. CASE f \in {"over", "asking", "alone", "named", "never"}
    BY <1>1, <1>7 DEF Fact
  <1> QED
    BY <1>1, <1>2, <1>3, <1>4, <1>5, <1>6, <1>7 DEF Facts, ProfileFacts, StateFacts

\* A process that goes on knows what it knew, but for the home it inspected
\* and, at the last step of a recovery, how the operation is spoiled.
LEMMA ReadsKnow ==
    ASSUME NEW p, NEW s, Reads, Turns(p, s), NEW f \in Known(p), f # "inspected",
           f = "spoilable" => (Recovering(p) => <<"resume">> \in ToSet(s))
    PROVE  f \in Known(p)'
  <1>1. Recovering(p)' <=> <<"resume">> \in ToSet(s)
    BY DEF Recovering, Turns
  <1>2. Fact(p, f)
    BY DEF Known
  <1>3. /\ f = "asking" => stage'[p] # "dispatched"
        /\ f = "alone" => "session" \notin held'[p]
        /\ f \in {"launch", "rootShared"} => f \in held'[p]
    BY <1>2 DEF Fact, Turns
  <1> QED
    BY <1>1, <1>3, FactsStay DEF Turns, HasProfile

\* The rest of a list has what the list has, but for its first step.
LEMMA TailHas ==
    ASSUME NEW s \in Seq(Steps), s # <<>>, NEW x \in ToSet(s), x # Head(s)
    PROVE  x \in ToSet(Tail(s))
  <1>1. PICK i \in 1 .. Len(s) : x = s[i]
    BY DEF ToSet
  <1>2. Len(s) \in Nat /\ i # 1
    BY <1>1
  <1> DEFINE t == Tail(s)
  <1>3. i - 1 \in DOMAIN t /\ t[i - 1] = s[i]
    BY <1>1, <1>2
  <1> HIDE DEF t
  <1>4. x \in ToSet(t)
    BY <1>1, <1>3 DEF ToSet
  <1> QED
    BY <1>4 DEF t

\* A list has the step it ends with.
LEMMA LastHas ==
    ASSUME NEW s \in Seq(Steps), NEW x \in Steps
    PROVE  x \in ToSet(s \o <<x>>)
  <1> DEFINE t == s \o <<x>>
  <1>1. Len(s) + 1 \in DOMAIN t /\ t[Len(s) + 1] = x
    OBVIOUS
  <1> HIDE DEF t
  <1>2. x \in ToSet(t)
    BY <1>1 DEF ToSet
  <1> QED
    BY <1>2 DEF t

\* What a process in the middle of its list has not lost yet.
LEMMA Before ==
    ASSUME NEW p \in Procs, IInv, ~Idle(p), NEW x \in ToSet(todo[p]), NEW f,
           f \in Needs(cmd[p], x), \A y \in Steps : f \notin Gives(y)
    PROVE  f \in Known(p) /\ (x # Step(p) => f \notin Breaks(Step(p)))
  <1>1. /\ Leads(cmd[p], Known(p), todo[p], {"over"}) /\ todo[p] # <<>>
        /\ todo[p] \in Seq(Steps)
    BY DEF IInv, Runs, Typed, TypedProcesses
  <1>2. PICK i \in 1 .. Len(todo[p]) : x = todo[p][i]
    BY <1>1 DEF ToSet
  <1>3. Step(p) = todo[p][1]
    BY <1>1 DEF Step
  <1>4. f \in Known(p) /\ (i # 1 => f \notin Breaks(todo[p][1]))
    BY <1>1, <1>2, LeadsKept
  <1> QED
    BY <1>2, <1>3, <1>4

\* Some facts no step gives.
LEMMA NotGiven ==
    ASSUME NEW y \in Steps
    PROVE  "spoilable" \notin Gives(y)
  <1>1. CASE y[1] = "take"
    <2>1. y[2] \in Locks
      BY <1>1 DEF Steps, Plain
    <2>2. y[2] # "spoilable"
      BY <2>1 DEF Locks
    <2> QED
      BY <1>1, <2>2 DEF Gives
  <1>2. CASE y[1] # "take"
    BY <1>2 DEF Gives
  <1> QED
    BY <1>1, <1>2

\* What the code does with the error of a step keeps the invariant.
LEMMA Erring ==
    ASSUME IInv, NEW p \in Procs, ~Idle(p), Errs(p), Reads, Touches(p),
           Step(p) # <<"drop", {"session"}>>
    PROVE  IInv'
  <1>1. /\ Leads(cmd[p], Known(p), todo[p], {"over"}) /\ todo[p] # <<>>
        /\ todo[p] \in Seq(Steps)
    BY DEF IInv, Runs, Typed, TypedProcesses
  <1>2. "alone" \in Known(p)
    BY <1>1, LeadsHead DEF Needs, Step
  <1>3. CASE Authenticating(p)
    <2>1. cmd[p] = "operation"
      BY <1>3 DEF Authenticating
    <2>2. "spoilable" \in Known(p)
      <3>1. \A y \in Steps : "spoilable" \notin Gives(y)
        BY NotGiven
      <3>2. "spoilable" \in Needs(cmd[p], <<"verify">>)
        BY <2>1 DEF Needs, Uses, Foreign
      <3> QED
        BY <1>3, <3>1, <3>2, Before DEF Authenticating
    <2>3. Fact(p, "spoilable") /\ Fact(p, "alone")
      BY <1>2, <2>2 DEF Known
    <2>4. CASE Recovering(p)
      <3> DEFINE u == Spoil \o <<<<"resume">>>>
                 s == <<<<"save", "pending">>>> \o u
      <3>1. Does(p, s)
        BY <1>3, <2>4 DEF Errs, Spoiled
      <3>2. Leads(cmd[p], {"alone", "profile", "spoilable"}, s, {"over"})
        BY <2>1, SavingSpoils DEF Facts, ProfileFacts
      <3>3. s \in Seq(Steps) /\ <<"resume">> \in ToSet(s)
        <4> DEFINE v == <<<<"save", "pending">>>> \o Spoil
        <4>1. <<"resume">> \in Steps /\ s \in Seq(Steps)
          BY <3>2, StepForms DEF Leads, Plain
        <4>2. Leads(cmd[p], Doubting, Spoil, Ending)
          BY Spoiling, ContextsAreFacts
        <4>3. v \in Seq(Steps)
          <5>1. Spoil \in Seq(Steps) /\ <<"save", "pending">> \in Steps
            BY <4>2, StepForms DEF Leads
          <5> QED
            BY <5>1
        <4>4. s = v \o <<<<"resume">>>>
          <5>1. Spoil \in Seq(Steps)
            BY <4>2 DEF Leads
          <5> HIDE DEF Spoil
          <5> QED
            BY <5>1, <4>1, StepForms
        <4> HIDE DEF v, s
        <4> QED
          BY <4>1, <4>3, <4>4, LastHas
      <3> HIDE DEF s
      <3>4. ASSUME Turns(p, s) PROVE {"alone", "profile", "spoilable"} \subseteq Known(p)'
        BY <2>3, <3>3, <3>4 DEF Turns, Known, Fact, HasProfile, Recovering, Facts, ProfileFacts
      <3>5. Turns(p, s) => Leads(cmd[p], Known(p)', s, {"over"})
        BY <3>2, <3>4, LeadsMore
      <3> QED
        BY <3>1, <3>3, <3>5, Replacing
    <2>5. CASE ~Recovering(p)
      <3>1. Does(p, Spoil)
        BY <1>3, <2>5 DEF Errs
      <3>2. Leads(cmd[p], Doubting, Spoil, {"over"})
        <4>1. {"over"} \subseteq Ending
          BY DEF Ending
        <4> QED
          BY <4>1, Spoiling, LeadsMore, ContextsAreFacts
      <3>3. Spoil \in Seq(Steps)
        BY <3>2 DEF Leads
      <3>4. ASSUME Turns(p, Spoil) PROVE Doubting \subseteq Known(p)'
        <4>1. Fact(p, "settled")
          BY <2>3, <2>5 DEF Fact
        <4>2. Settled => Settled'
          BY DEF Reads, Settled, Turned
        <4> QED
          BY <2>3, <3>4, <4>1, <4>2 DEF Turns, Known, Fact, HasProfile, Facts, ProfileFacts, Doubting
      <3> HIDE DEF Spoil
      <3>5. Turns(p, Spoil) => Leads(cmd[p], Known(p)', Spoil, {"over"})
        BY <3>2, <3>4, LeadsMore
      <3> QED
        BY <3>1, <3>3, <3>5, Replacing
    <2> QED
      BY <2>4, <2>5
  <1>4. CASE Gone({p})
    BY <1>4, Typing, EndsKeep DEF IInv, Typed
  <1>5. CASE /\ cmd[p] = "run" /\ "state" \in held[p] /\ "root" \notin held[p]
             /\ todo' = [todo EXCEPT ![p] = <<<<"load">>>>]
             /\ job' = [job EXCEPT ![p] = None]
             /\ held' = [held EXCEPT ![p] = @ \ {"profile", "session"}]
             /\ UNCHANGED <<cmd, stage, version>>
    <2>1. <<<<"load">>>> \in Seq(Steps) /\ <<<<"load">>>> # <<>>
      BY StepForms DEF Plain
    <2>2. Apart(p)
      BY <1>5 DEF IInv, Typed, TypedProcesses, Apart, SameProcess
    <2>3. TypedProcesses'
      BY <1>5, <2>1 DEF IInv, Typed, TypedProcesses
    <2>4. /\ todo'[p] = <<<<"load">>>> /\ job'[p] = None
          /\ held'[p] = held[p] \ {"profile", "session"}
          /\ cmd'[p] = cmd[p] /\ stage'[p] = stage[p] /\ version'[p] = version[p]
      BY <1>5 DEF IInv, Typed, TypedProcesses
    <2>5. Compatible'
      BY <2>2, <2>4, HoldsLess DEF IInv
    <2>6. {"alone", "state"} \subseteq Known(p)'
      BY <1>5, <2>4 DEF Known, Fact, Facts, StateFacts
    <2>7. Leads(cmd[p], Known(p)', <<<<"load">>>>, {"over"})
      BY <1>5, <2>6, Looking DEF Known
    <2>8. Runs(p)'
      BY <2>1, <2>4, <2>7 DEF IInv, Runs, Idle
    <2>9. Written(p)'
      BY <2>4, StateFilesAssumption DEF Written
    <2>10. Dispatched(p)'
      BY <2>4 DEF IInv, Dispatched, Touches
    <2> QED
      BY <2>2, <2>3, <2>5, <2>8, <2>9, <2>10, StepKeeps
  <1> QED
    BY <1>3, <1>4, <1>5 DEF Errs

\* A process that runs has what its step needs.
LEMMA Finds ==
    ASSUME IInv, NEW p \in Procs, ~Idle(p)
    PROVE  /\ Leads(cmd[p], Known(p), todo[p], {"over"})
           /\ todo[p] # <<>> /\ todo[p] \in Seq(Steps) /\ Step(p) \in Steps
           /\ \A f \in Needs(cmd[p], Step(p)) : f \in Known(p) /\ Fact(p, f)
  <1>1. Leads(cmd[p], Known(p), todo[p], {"over"}) /\ todo[p] # <<>> /\ todo[p] \in Seq(Steps)
    BY DEF IInv, Runs, Typed, TypedProcesses
  <1>2. Step(p) \in Steps /\ Needs(cmd[p], Step(p)) \subseteq Known(p)
    BY <1>1, LeadsHead DEF Step
  <1> QED
    BY <1>1, <1>2 DEF Known

\* A step that is done, and has changed nothing.
LEMMA Passing ==
    ASSUME IInv, NEW p \in Procs, ~Idle(p), Goes(p), Reads, Touches(p), Step(p) # <<"resume">>,
           Turns(p, Tail(todo[p])) => Gives(Step(p)) \subseteq Known(p)'
    PROVE  IInv'
  <1>1. todo[p] # <<>> /\ todo[p] \in Seq(Steps)
    BY Finds
  <1> DEFINE s == Tail(todo[p])
  <1>2. ASSUME Turns(p, s), NEW f \in Known(p), f \notin Breaks(Step(p))
        PROVE  f \in Known(p)'
    <2>1. f # "inspected"
      BY <1>2 DEF Breaks
    <2>2. ASSUME Recovering(p) PROVE <<"resume">> \in ToSet(s)
      BY <1>1, <2>2, TailHas DEF Recovering, Step
    <2> HIDE DEF s
    <2> QED
      BY <1>2, <2>1, <2>2, ReadsKnow
  <1>3. Turns(p, s) => After(Known(p), Step(p)) \subseteq Known(p)'
    BY <1>2 DEF After
  <1> QED
    BY <1>3, Going

\* A condition of the journals holds under the lock that guards them.
LEMMA RequireKeeps ==
    ASSUME IInv, NEW p \in Procs, Require(p)
    PROVE  IInv'
  <1> DEFINE x == Step(p)
  <1>1. ~Idle(p) /\ x[1] = "require" /\ Reads /\ Touches(p)
    BY WorldStays DEF Require, At
  <1>2. x \in Steps /\ \A f \in Needs(cmd[p], x) : Fact(p, f)
    BY <1>1, Finds
  <1>3. CASE ~Holds(p, x[2])
    <2>1. Errs(p)
      BY <1>3 DEF Require
    <2> QED
      BY <1>1, <2>1, Erring
  <1>4. CASE Holds(p, x[2])
    <2>1. Goes(p) /\ x # <<"resume">>
      BY <1>1, <1>4 DEF Require
    <2>2. ASSUME Turns(p, Tail(todo[p])) PROVE Gives(x) \subseteq Known(p)'
      <3>1. CASE x = <<"require", "resolved">>
        <4>1. Fact(p, "root") /\ Fact(p, "state")
          BY <1>2, <3>1 DEF Needs, Uses, Foreign
        <4>2. Absent({"attempt", "pending", "execution"})
          BY <1>4, <3>1 DEF Holds
        <4> QED
          BY <1>1, <2>2, <3>1, <4>1, <4>2
             DEF Gives, Known, Facts, StateFacts, Fact, Turns, Reads, Absent
      <3>2. CASE x = <<"require", "active">>
        <4>1. Fact(p, "profile")
          BY <1>2, <3>2 DEF Needs, Uses, Foreign
        <4>2. file["active"] # None
          BY <1>4, <3>2 DEF Holds
        <4>3. (Whole(home) /\ rooted) \/ Turned
          <5>1. file["active"] \in disk["active"]
            BY StepForms DEF IInv, Typed, TypedWorld
          <5> QED
            BY <4>2, <5>1 DEF IInv, ActiveLasts, Stands, Forgotten
        <4> QED
          BY <1>1, <2>2, <3>2, <4>1, <4>3
             DEF Gives, Known, Facts, ProfileFacts, Fact, Turns, Reads, Turned, HasProfile, Whole
      <3>3. CASE x \notin {<<"require", "active">>, <<"require", "resolved">>}
        <4>1. Gives(x) = {"over"}
          BY <1>1, <1>2, <3>3 DEF Gives, Steps
        <4> QED
          BY <4>1 DEF Known, Fact, Facts
      <3> QED
        BY <3>1, <3>2, <3>3
    <2> HIDE DEF x
    <2> QED
      BY <1>1, <2>1, <2>2, Passing DEF x
  <1> QED
    BY <1>3, <1>4

\* The entries are looked at again.
LEMMA VerifyKeeps ==
    ASSUME IInv, NEW p \in Procs, Verify(p)
    PROVE  IInv'
  <1>1. ~Idle(p) /\ Step(p)[1] = "verify" /\ Reads /\ Touches(p)
    BY WorldStays DEF Verify, At
  <1>2. Fact(p, "profile")
    BY <1>1, Finds DEF Needs, Uses
  <1>3. CASE ~Protected(home)
    <2>1. Errs(p)
      BY <1>3 DEF Verify
    <2> QED
      BY <1>1, <2>1, Erring
  <1>4. CASE Protected(home)
    <2>1. Goes(p) /\ Step(p) # <<"resume">>
      BY <1>1, <1>4 DEF Verify
    <2>2. ASSUME Turns(p, Tail(todo[p])) PROVE Gives(Step(p)) \subseteq Known(p)'
      BY <1>1, <1>2, <1>4, <2>2
         DEF Gives, Known, Facts, ProfileFacts, Fact, Turns, Reads, HasProfile, Protected
    <2> QED
      BY <1>1, <2>1, <2>2, Passing
  <1> QED
    BY <1>3, <1>4

\* Any other call that fails.
LEMMA FailsKeeps ==
    ASSUME IInv, NEW p \in Procs, Fails(p)
    PROVE  IInv'
  <1>1. ~Idle(p) /\ Reads /\ Touches(p) /\ Errs(p) /\ Step(p) # <<"drop", {"session"}>>
    BY WorldStays DEF Fails
  <1> QED
    BY <1>1, Erring

\* A step after which the process is no longer what it was.
LEMMA Moving ==
    ASSUME IInv, NEW p \in Procs, ~Idle(p), Touches(p), Apart(p), TypedProcesses', Compatible',
           todo'[p] = Tail(todo[p]), Tail(todo[p]) # <<>>, cmd'[p] = cmd[p], stage'[p] # "off",
           After(Known(p), Step(p)) \subseteq Known(p)', job'[p] # Renamed, Dispatched(p)'
    PROVE  IInv'
  <1>1. todo[p] # <<>> /\ Leads(cmd[p], Known(p), todo[p], {"over"})
    BY Finds
  <1>2. Leads(cmd[p], Known(p)', Tail(todo[p]), {"over"})
    BY <1>1, LeadsTail DEF Step
  <1>3. Runs(p)'
    BY <1>2 DEF Runs, Idle
  <1>4. Written(p)'
    BY DEF Written
  <1> QED
    BY <1>3, <1>4, StepKeeps

\* Unless it writes, a process does not wait for a sync.
LEMMA WritesOnly ==
    ASSUME IInv, NEW p \in Procs, ~Idle(p), Step(p)[1] \notin {"save", "clear", "ready"}
    PROVE  job[p] # Renamed
  BY DEF IInv, Written

\* A recovery goes on until it resumes.
LEMMA RecoveringLasts ==
    ASSUME IInv, NEW p \in Procs, ~Idle(p), Step(p) # <<"resume">>, Recovering(p)
    PROVE  <<"resume">> \in ToSet(Tail(todo[p]))
  BY Finds, TailHas DEF Recovering, Step

\* A lock is taken, or refused.
LEMMA TakeKeeps ==
    ASSUME IInv, NEW p \in Procs, Take(p)
    PROVE  IInv'
  <1> DEFINE x == Step(p)
             l == Step(p)[2]
  <1>1. ~Idle(p) /\ x[1] = "take" /\ Reads /\ Touches(p) /\ UNCHANGED <<journals, tree, config>>
    BY WorldStays DEF Take, At
  <1>2. /\ x \in Steps /\ \A f \in Needs(cmd[p], x) : Fact(p, f)
        /\ todo[p] # <<>> /\ todo[p] \in Seq(Steps)
    BY <1>1, Finds
  <1>3. l \in Locks /\ x = <<"take", l>>
    BY <1>1, <1>2 DEF Steps, Plain
  <1>4. CASE Errs(p)
    BY <1>1, <1>4, Erring
  <1>5. CASE /\ Free(l) /\ held' = [held EXCEPT ![p] = @ \cup {l}]
             /\ todo' = [todo EXCEPT ![p] = Tail(@)]
             /\ UNCHANGED <<cmd, stage, version, job>>
    <2>1. /\ held'[p] = held[p] \cup {l} /\ todo'[p] = Tail(todo[p]) /\ cmd'[p] = cmd[p]
          /\ stage'[p] = stage[p] /\ version'[p] = version[p] /\ job'[p] = job[p]
      BY <1>5 DEF IInv, Typed, TypedProcesses
    <2>2. Apart(p)
      BY <1>5 DEF IInv, Typed, TypedProcesses, Apart, SameProcess
    <2>3. TypedProcesses'
      <3>1. Tail(todo[p]) \in Seq(Steps)
        BY <1>2
      <3> QED
        BY <1>3, <1>5, <3>1 DEF IInv, Typed, TypedProcesses
    <2>4. Compatible'
      <3>1. ASSUME NEW q \in Procs, q # p
            PROVE  /\ held[q] \cap Conflicts(l) = {}
                   /\ \A m \in held[q] : l \notin Conflicts(m)
        <4>1. held[q] \cap Conflicts(l) = {} /\ held[q] \subseteq Locks
          BY <1>5 DEF Free, IInv, Typed, TypedProcesses
        <4> QED
          BY <1>3, <4>1 DEF Conflicts, Locks
      <3>2. \A q \in Procs : q # p => held'[q] = held[q]
        BY <2>2 DEF Apart, SameProcess
      <3> HIDE DEF l
      <3> QED
        BY <2>1, <3>1, <3>2 DEF Compatible, IInv
    <2>5. Tail(todo[p]) # <<>>
      BY <1>1, Finds, LeadsOver DEF Step
    <2>6. ASSUME NEW f \in Known(p), f \notin Breaks(x) PROVE f \in Known(p)'
      <3>1. f # "inspected" /\ (l = "session" => f # "alone")
        BY <1>3, <2>6 DEF Breaks
      <3>2. Recovering(p) => Recovering(p)'
        BY <1>1, <1>3, <2>1, RecoveringLasts DEF Recovering
      <3>3. Fact(p, f)
        BY DEF Known
      <3>4. /\ f = "asking" => stage'[p] # "dispatched"
            /\ f = "alone" => "session" \notin held'[p]
            /\ f \in {"launch", "rootShared"} => f \in held'[p]
        BY <2>1, <3>1, <3>3 DEF Fact
      <3> QED
        BY <1>1, <2>1, <3>1, <3>2, <3>4, FactsStay DEF HasProfile
    <2>7. ASSUME NEW f \in Gives(x) PROVE f \in Known(p)'
      <3>1. f = l /\ f \in Facts
        BY <1>3 DEF Gives
      <3>2. f \in {"launch", "state", "root", "rootShared", "profile"}
        BY <1>3, <3>1 DEF Locks, Facts, ProfileFacts, StateFacts
      <3>3. f = "profile" => "rootShared" \in held[p]
        BY <1>2, <1>3, <3>1 DEF Needs, Uses, Fact
      <3>4. Fact(p, f)'
        BY <2>1, <3>1, <3>2, <3>3 DEF Fact, HasProfile
      <3> QED
        BY <3>1, <3>4 DEF Known
    <2>8. After(Known(p), x) \subseteq Known(p)'
      BY <2>6, <2>7 DEF After
    <2>9. stage'[p] # "off" /\ job'[p] # Renamed
      BY <1>1, <2>1, WritesOnly DEF IInv, Runs
    <2>10. Dispatched(p)'
      BY <1>1, <2>1 DEF IInv, Dispatched, config
    <2> QED
      BY <1>1, <2>1, <2>2, <2>3, <2>4, <2>5, <2>8, <2>9, <2>10, Moving
  <1> QED
    BY <1>4, <1>5 DEF Take

\* Locks are given back, with what they guarded.
LEMMA DropKeeps ==
    ASSUME IInv, NEW p \in Procs, Drop(p)
    PROVE  IInv'
  <1> DEFINE x == Step(p)
             D == Step(p)[2]
  <1>1. ~Idle(p) /\ x[1] = "drop" /\ Reads /\ Touches(p) /\ UNCHANGED <<journals, tree, config>>
    BY WorldStays DEF Drop, At
  <1>2. /\ x \in Steps /\ \A f \in Needs(cmd[p], x) : Fact(p, f)
        /\ todo[p] # <<>> /\ todo[p] \in Seq(Steps)
    BY <1>1, Finds
  <1>3. D \in Dropped /\ x = <<"drop", D>>
    BY <1>1, <1>2 DEF Steps, Plain
  <1>4. CASE Gone({p})
    BY <1>1, <1>4, Typing, EndsKeep DEF IInv, Typed
  <1>5. CASE /\ Tail(todo[p]) # <<>>
             /\ held' = [held EXCEPT ![p] = @ \ D]
             /\ todo' = [todo EXCEPT ![p] = Tail(@)]
             /\ UNCHANGED <<cmd, stage, version, job>>
    <2>1. /\ held'[p] = held[p] \ D /\ todo'[p] = Tail(todo[p]) /\ cmd'[p] = cmd[p]
          /\ stage'[p] = stage[p] /\ version'[p] = version[p] /\ job'[p] = job[p]
      BY <1>5 DEF IInv, Typed, TypedProcesses
    <2>2. Apart(p)
      BY <1>5 DEF IInv, Typed, TypedProcesses, Apart, SameProcess
    <2>3. TypedProcesses'
      <3>1. Tail(todo[p]) \in Seq(Steps)
        BY <1>2
      <3> QED
        BY <1>5, <3>1 DEF IInv, Typed, TypedProcesses
    <2>4. Compatible'
      BY <2>1, <2>2, HoldsLess DEF IInv
    <2>5. ASSUME NEW f \in Known(p), f \notin Breaks(x) PROVE f \in Known(p)'
      <3>1. /\ f # "inspected" /\ f \notin D
            /\ "profile" \in D => f \notin ProfileFacts
            /\ "state" \in D => f \notin StateFacts
        BY <1>3, <2>5 DEF Breaks, Known
      <3>2. Recovering(p) => Recovering(p)'
        BY <1>1, <1>3, <2>1, RecoveringLasts DEF Recovering
      <3>3. Fact(p, f)
        BY DEF Known
      <3>4. f \in ProfileFacts /\ HasProfile(p) => HasProfile(p)'
        BY <1>3, <2>1, <3>1 DEF HasProfile, Dropped
      <3>5. /\ f \in StateFacts /\ "state" \in held[p] => "state" \in held'[p]
            /\ f \in {"resolved", "root"} /\ "root" \in held[p] => "root" \in held'[p]
        BY <1>3, <2>1, <3>1 DEF Dropped, StateFacts
      <3>6. /\ f = "asking" => stage'[p] # "dispatched"
            /\ f = "alone" => "session" \notin held'[p]
            /\ f \in {"launch", "rootShared"} => f \in held'[p]
        BY <2>1, <3>1, <3>3 DEF Fact
      <3> QED
        BY <1>1, <2>1, <3>1, <3>2, <3>4, <3>5, <3>6, FactsStay
    <2>6. ASSUME NEW f \in Gives(x) PROVE f \in Known(p)'
      <3>1. f = "over" \/ (f = "alone" /\ x = <<"drop", {"session"}>>)
        BY <1>1 DEF Gives
      <3>2. Fact(p, f)'
        BY <1>3, <2>1, <3>1 DEF Fact
      <3> QED
        BY <3>1, <3>2 DEF Known, Facts
    <2>7. After(Known(p), x) \subseteq Known(p)'
      BY <2>5, <2>6 DEF After
    <2>8. stage'[p] # "off" /\ job'[p] # Renamed
      BY <1>1, <2>1, WritesOnly DEF IInv, Runs
    <2>9. Dispatched(p)'
      <3>1. CASE "launch" \in D
        <4>1. Fact(p, "asking")
          BY <1>2, <1>3, <3>1 DEF Needs, Uses
        <4> QED
          BY <2>1, <4>1 DEF Fact, Dispatched
      <3>2. CASE "launch" \notin D
        BY <1>1, <2>1, <3>2 DEF IInv, Dispatched, config
      <3> QED
        BY <3>1, <3>2
    <2> QED
      BY <1>1, <1>5, <2>1, <2>2, <2>3, <2>4, <2>7, <2>8, <2>9, Moving
  <1> QED
    BY <1>4, <1>5 DEF Drop

\* The launcher hands over while it has the installation's lock.
LEMMA DispatchKeeps ==
    ASSUME IInv, NEW p \in Procs, Dispatch(p)
    PROVE  IInv'
  <1> DEFINE x == Step(p)
  <1>1. ~Idle(p) /\ x[1] = "dispatch" /\ Reads /\ Touches(p) /\ UNCHANGED <<journals, tree, config>>
    BY WorldStays DEF Dispatch, At
  <1>2. /\ Fact(p, "launch") /\ todo[p] # <<>> /\ todo[p] \in Seq(Steps)
    BY <1>1, Finds DEF Needs, Uses
  <1>3. CASE Errs(p)
    BY <1>1, <1>3, Erring
  <1>4. CASE /\ undo = None /\ release = version[p]
             /\ stage' = [stage EXCEPT ![p] = "dispatched"]
             /\ todo' = [todo EXCEPT ![p] = Tail(@)]
             /\ UNCHANGED <<cmd, version, job, held>>
    <2>1. /\ held'[p] = held[p] /\ todo'[p] = Tail(todo[p]) /\ cmd'[p] = cmd[p]
          /\ stage'[p] = "dispatched" /\ version'[p] = version[p] /\ job'[p] = job[p]
      BY <1>4 DEF IInv, Typed, TypedProcesses
    <2>2. Apart(p)
      BY <1>4 DEF IInv, Typed, TypedProcesses, Apart, SameProcess
    <2>3. TypedProcesses'
      <3>1. Tail(todo[p]) \in Seq(Steps)
        BY <1>2
      <3> QED
        BY <1>4, <3>1 DEF IInv, Typed, TypedProcesses
    <2>4. Compatible'
      BY <2>1, <2>2, HoldsLess DEF IInv
    <2>5. Tail(todo[p]) # <<>>
      BY <1>1, Finds, LeadsOver DEF Step
    <2>6. ASSUME NEW f \in Known(p), f \notin Breaks(x) PROVE f \in Known(p)'
      <3>1. f # "inspected" /\ f # "asking"
        BY <1>1, <2>6 DEF Breaks
      <3>2. Recovering(p) => Recovering(p)'
        <4>1. x # <<"resume">>
          BY <1>1
        <4> QED
          BY <1>1, <2>1, <4>1, RecoveringLasts DEF Recovering
      <3>3. Fact(p, f)
        BY DEF Known
      <3>4. /\ f = "alone" => "session" \notin held'[p]
            /\ f \in {"launch", "rootShared"} => f \in held'[p]
        BY <2>1, <3>3 DEF Fact
      <3> QED
        BY <1>1, <2>1, <3>1, <3>2, <3>4, FactsStay DEF HasProfile
    <2>7. After(Known(p), x) \subseteq Known(p)'
      <3>1. Gives(x) = {}
        BY <1>1 DEF Gives
      <3> QED
        BY <2>6, <3>1 DEF After
    <2>8. stage'[p] # "off" /\ job'[p] # Renamed
      BY <1>1, <2>1, WritesOnly
    <2>9. Dispatched(p)'
      BY <1>1, <1>2, <1>4, <2>1 DEF Dispatched, config, Fact
    <2> QED
      BY <1>1, <2>1, <2>2, <2>3, <2>4, <2>5, <2>7, <2>8, <2>9, Moving
  <1> QED
    BY <1>3, <1>4 DEF Dispatch

\* Only a run looks at attempts, and only an operation at operations.
LEMMA OwnSteps ==
    ASSUME IInv, NEW p \in Procs, ~Idle(p)
    PROVE  /\ Step(p)[1] \in {"load", "release"} => cmd[p] = "run"
           /\ Step(p)[1] \in {"resume", "begin", "complete"} => cmd[p] = "operation"
  <1>1. ~Fact(p, "never")
    BY DEF Fact
  <1>2. ~Foreign(cmd[p], Step(p))
    BY <1>1, Finds DEF Needs
  <1> QED
    BY <1>2 DEF Foreign

\* The whole tree is accepted, or nothing is done.
LEMMA InspectKeeps ==
    ASSUME IInv, NEW p \in Procs, Inspect(p)
    PROVE  IInv'
  <1> DEFINE x == Step(p)
  <1>1. ~Idle(p) /\ x[1] = "inspect" /\ Reads /\ Touches(p) /\ UNCHANGED <<journals, tree, config>>
    BY WorldStays DEF Inspect, At
  <1>2. Fact(p, "profile") /\ todo[p] # <<>> /\ todo[p] \in Seq(Steps)
    BY <1>1, Finds DEF Needs, Uses
  <1>3. CASE Errs(p)
    BY <1>1, <1>3, Erring
  <1>4. CASE /\ Acceptable(home) /\ job' = [job EXCEPT ![p] = home]
             /\ todo' = [todo EXCEPT ![p] = Tail(@)]
             /\ UNCHANGED <<cmd, stage, version, held>>
    <2>1. /\ held'[p] = held[p] /\ todo'[p] = Tail(todo[p]) /\ cmd'[p] = cmd[p]
          /\ stage'[p] = stage[p] /\ version'[p] = version[p] /\ job'[p] = home
      BY <1>4 DEF IInv, Typed, TypedProcesses
    <2>2. Apart(p)
      BY <1>4 DEF IInv, Typed, TypedProcesses, Apart, SameProcess
    <2>3. home \in Tree /\ home # Renamed
      <3>1. home \in Tree
        BY <1>4 DEF Acceptable, IInv, Typed, TypedWorld
      <3> QED
        BY <3>1, StateFilesAssumption
    <2>4. TypedProcesses'
      <3>1. Tail(todo[p]) \in Seq(Steps)
        BY <1>2
      <3> QED
        BY <1>4, <2>3, <3>1 DEF IInv, Typed, TypedProcesses
    <2>5. Compatible'
      BY <2>1, <2>2, HoldsLess DEF IInv
    <2>6. Tail(todo[p]) # <<>>
      BY <1>1, Finds, LeadsOver DEF Step
    <2>7. ASSUME NEW f \in Known(p), f \notin Breaks(x) PROVE f \in Known(p)'
      <3>1. f # "inspected"
        BY <2>7 DEF Breaks
      <3>2. Recovering(p) => Recovering(p)'
        <4>1. x # <<"resume">>
          BY <1>1
        <4> QED
          BY <1>1, <2>1, <4>1, RecoveringLasts DEF Recovering
      <3>3. Fact(p, f)
        BY DEF Known
      <3>4. /\ f = "asking" => stage'[p] # "dispatched"
            /\ f = "alone" => "session" \notin held'[p]
            /\ f \in {"launch", "rootShared"} => f \in held'[p]
        BY <2>1, <3>3 DEF Fact
      <3> QED
        BY <1>1, <2>1, <3>1, <3>2, <3>4, FactsStay DEF HasProfile
    <2>8. "inspected" \in Known(p)'
      <3>1. Fact(p, "inspected")'
        BY <1>1, <1>2, <1>4, <2>1, <2>3 DEF Fact, HasProfile, Acceptable, Reads
      <3> QED
        BY <3>1 DEF Known, Facts, ProfileFacts
    <2>9. After(Known(p), x) \subseteq Known(p)'
      <3>1. Gives(x) = {"inspected"}
        BY <1>1 DEF Gives
      <3> QED
        BY <2>7, <2>8, <3>1 DEF After
    <2>10. stage'[p] # "off" /\ job'[p] # Renamed
      BY <1>1, <2>1, <2>3 DEF IInv, Runs
    <2>11. Dispatched(p)'
      BY <1>1, <2>1 DEF IInv, Dispatched, config
    <2> QED
      BY <1>1, <2>1, <2>2, <2>4, <2>5, <2>6, <2>9, <2>10, <2>11, Moving
  <1> QED
    BY <1>3, <1>4 DEF Inspect

\* A process is killed.
LEMMA KillKeeps ==
    ASSUME IInv, NEW p \in Procs, Kill(p)
    PROVE  IInv'
  <1>1. Touches(p) /\ Gone({p})
    BY WorldStays DEF Kill
  <1> QED
    BY <1>1, Typing, EndsKeep DEF IInv, Typed

\* A process that starts another list, and knows what it starts with.
LEMMA Restarting ==
    ASSUME IInv, NEW p \in Procs, ~Idle(p), NEW s, Does(p, s), Reads, Touches(p),
           NEW A \in SUBSET Known(p), "inspected" \notin A, "spoilable" \notin A,
           Leads(cmd[p], A, s, {"over"})
    PROVE  IInv'
  <1>1. s \in Seq(Steps)
    BY DEF Leads
  <1>2. ASSUME Turns(p, s) PROVE Leads(cmd[p], Known(p)', s, {"over"})
    <2>1. A \subseteq Known(p)'
      BY <1>2, ReadsKnow
    <2> QED
      BY <2>1, LeadsMore
  <1> QED
    BY <1>1, <1>2, Replacing

\* The supervisor recovers an attempt, runs another one, or stops.
LEMMA LoadKeeps ==
    ASSUME IInv, NEW p \in Procs, Load(p)
    PROVE  IInv'
  <1> DEFINE A == {"alone", "state"}
  <1>1. ~Idle(p) /\ Step(p)[1] = "load" /\ Reads /\ Touches(p)
    BY WorldStays DEF Load, At
  <1>2. A \subseteq Known(p) /\ cmd[p] = "run"
    <2>1. A \subseteq Known(p)
      BY <1>1, Finds DEF Needs, Uses
    <2> QED
      BY <1>1, <2>1, OwnSteps
  <1>3. A \in SUBSET Facts
    BY DEF Facts, StateFacts
  <1>4. CASE Gone({p})
    BY <1>1, <1>4, Typing, EndsKeep DEF IInv, Typed
  <1>5. CASE Does(p, Cleanup)
    <2>1. Leads(cmd[p], A, Cleanup, {"over"})
      BY <1>2, <1>3, Cleaning
    <2> QED
      BY <1>1, <1>2, <1>5, <2>1, Restarting
  <1>6. CASE Does(p, Attempt)
    <2>1. Leads(cmd[p], A, Attempt, {"over"})
      BY <1>2, <1>3, Attempting
    <2> QED
      BY <1>1, <1>2, <1>6, <2>1, Restarting
  <1> QED
    BY <1>4, <1>5, <1>6 DEF Load

\* The control plane begins the operation, refuses it or does not answer.
LEMMA BeginKeeps ==
    ASSUME IInv, NEW p \in Procs, Begin(p)
    PROVE  IInv'
  <1> DEFINE A == {"alone", "profile", "settled"}
  <1>1. ~Idle(p) /\ Step(p)[1] = "begin" /\ Reads /\ Touches(p)
    BY WorldStays DEF Begin, At
  <1>2. A \subseteq Known(p) /\ cmd[p] = "operation"
    <2>1. A \subseteq Known(p)
      BY <1>1, Finds DEF Needs, Uses
    <2> QED
      BY <1>1, <2>1, OwnSteps
  <1>3. A \in SUBSET Facts
    BY DEF Facts, ProfileFacts
  <1>4. CASE Gone({p})
    BY <1>1, <1>4, Typing, EndsKeep DEF IInv, Typed
  <1>5. CASE Does(p, <<<<"clear", "pending">>>>)
    <2>1. <<"clear", "pending">> \in Steps
      BY StepForms
    <2>2. /\ Needs(cmd[p], <<"clear", "pending">>) \subseteq A
          /\ {"over"} \subseteq After(A, <<"clear", "pending">>)
      BY <1>2 DEF After, Needs, Uses, Foreign, Gives, Breaks
    <2>3. Leads(cmd[p], A, <<<<"clear", "pending">>>>, {"over"})
      BY <1>3, <2>1, <2>2, LeadsOne
    <2> QED
      BY <1>1, <1>2, <1>5, <2>3, Restarting
  <1>6. CASE \E kind \in Kinds : Does(p, Begun(kind))
    <2>1. PICK kind \in Kinds : Does(p, Begun(kind))
      BY <1>6
    <2>2. Leads(cmd[p], Doubting, Begun(kind), {"over"})
      BY <1>2, Beginning, ContextsAreFacts
    <2> DEFINE s == Begun(kind)
    <2>3. ASSUME Turns(p, s) PROVE Leads(cmd[p], Known(p)', s, {"over"})
      <3>1. A \subseteq Known(p)'
        BY <1>1, <1>2, <2>3, ReadsKnow
      <3>2. "spoilable" \in Known(p)'
        <4>1. Fact(p, "settled")'
          BY <3>1 DEF Known
        <4>2. Fact(p, "spoilable")'
          BY <4>1 DEF Fact
        <4> QED
          BY <4>2 DEF Known, Facts, ProfileFacts
      <3> QED
        BY <2>2, <3>1, <3>2, LeadsMore DEF Doubting
    <2>4. s \in Seq(Steps)
      BY <2>2 DEF Leads
    <2> QED
      BY <1>1, <2>1, <2>3, <2>4, Replacing
  <1> QED
    BY <1>4, <1>5, <1>6 DEF Begin

-----------------------------------------------------------------------------
(* The release *)

\* Who has the launch lock may change the release until it is dispatched.
LEMMA ConfigTouch ==
    ASSUME IInv, NEW p \in Procs, Fact(p, "launch"), Fact(p, "asking"),
           UNCHANGED <<journals, tree>>, Fine,
           release' \in Releases, undo' \in Releases \cup {None}
    PROVE  Reads /\ Touches(p)
  <1>1. Reads
    BY DEF Reads, journals, tree
  <1>2. TypedWorld'
    BY DEF IInv, Typed, TypedWorld, journals, tree, Fine
  <1>3. Lasts' /\ (Unreserved => Unreserved') /\ revived' = revived
    BY DEF IInv, Lasts, ReservationLasts, ActiveLasts, PendingLasts, Stands, Unreserved, Forgotten,
           Settled, Turned, journals, tree
  <1> QED
    BY <1>1, <1>2, <1>3 DEF Touches, Reads, Fact, journals

\* Only a launcher or setup changes the release, under the installation's lock.
LEMMA ReleaseKeeps ==
    ASSUME IInv, NEW p \in Procs, Recover(p) \/ Mark(p) \/ Install(p) \/ Unmark(p)
    PROVE  IInv'
  <1> DEFINE x == Step(p)
  <1>1. /\ ~Idle(p) /\ x[1] \in {"recover", "mark", "install", "unmark"} /\ Goes(p)
        /\ UNCHANGED <<journals, tree>> /\ Fine
    BY DEF Recover, Mark, Install, Unmark, At
  <1>2. Fact(p, "launch") /\ Fact(p, "asking")
    <2>1. {"launch", "asking"} \subseteq Uses(cmd[p], x)
      <3>1. x # <<"take", "profile">> /\ x # <<"take", "session">> /\ x # <<"require", "resolved">>
            /\ x # <<"require", "active">> /\ x # <<"save", "attempt">>
            /\ x # <<"save", "execution">> /\ x # <<"save", "active">>
            /\ x # <<"clear", "attempt">> /\ x # <<"clear", "execution">>
        BY <1>1
      <3> QED
        BY <1>1, <3>1 DEF Uses
    <2> QED
      BY <1>1, <2>1, Finds DEF Needs
  <1>3. release' \in Releases /\ undo' \in Releases \cup {None}
    <2>1. release \in Releases /\ undo \in Releases \cup {None} /\ version[p] \in Releases \cup {None}
      BY DEF IInv, Typed, TypedProcesses, TypedWorld
    <2>2. CASE Install(p)
      <3>1. x[1] = "install"
        BY <2>2 DEF Install, At
      <3>2. Fact(p, "named")
        BY <1>1, <3>1, Finds DEF Needs, Uses
      <3> QED
        BY <2>1, <2>2, <3>2 DEF Install, Fact
    <2>3. CASE Recover(p) \/ Mark(p) \/ Unmark(p)
      BY <2>1, <2>3 DEF Recover, Mark, Unmark
    <2> QED
      BY <2>2, <2>3
  <1>4. Reads /\ Touches(p)
    BY <1>1, <1>2, <1>3, ConfigTouch
  <1>5. Gives(x) \subseteq Known(p)'
    <2>1. Gives(x) = {"over"}
      BY <1>1 DEF Gives
    <2> QED
      BY <2>1 DEF Known, Fact, Facts
  <1>6. x # <<"resume">>
    BY <1>1
  <1> QED
    BY <1>1, <1>4, <1>5, <1>6, Passing

-----------------------------------------------------------------------------
(* Steps that decide by what the journals show *)

\* A list has the steps of its second part.
LEMMA AppendHas ==
    ASSUME NEW s \in Seq(Steps), NEW t \in Seq(Steps), NEW x \in ToSet(t)
    PROVE  x \in ToSet(s \o t)
  <1> DEFINE u == s \o t
  <1>1. PICK i \in 1 .. Len(t) : x = t[i]
    BY DEF ToSet
  <1>2. Len(s) + i \in DOMAIN u /\ u[Len(s) + i] = x
    BY <1>1
  <1> HIDE DEF u
  <1>3. x \in ToSet(u)
    BY <1>2 DEF ToSet
  <1> QED
    BY <1>3 DEF u

\* What goes by a journal that is not synced yet relies on it.
LEMMA ReliesReads ==
    ASSUME IInv, NEW p \in Procs, NEW c \in Cells, Relies(c),
           UNCHANGED <<file, disk, revived, abandoned, rooted, stopped, tree, config>>, Fine
    PROVE  /\ Reads /\ Touches(p)
           /\ c # "attempt" => disk'[c] = {file'[c]} \/ c \in relied'
  <1>1. Reads /\ relied' \subseteq Cells /\ UNCHANGED config
    BY DEF Reads, Relies, tree, IInv, Typed, TypedWorld
  <1>2. Touches(p)
    BY <1>1, ReadsTouch
  <1> QED
    BY <1>1, <1>2 DEF Relies

\* The attempt's reservation is released, if it is the attempt's.
LEMMA ReleaseStepKeeps ==
    ASSUME IInv, NEW p \in Procs, Release(p)
    PROVE  IInv'
  <1> DEFINE A == {"alone", "state", "profile"}
  <1>1. ~Idle(p) /\ Step(p)[1] = "release"
    BY DEF Release, At
  <1>2. Reads /\ Touches(p) /\ (disk'["execution"] = {file'["execution"]} \/ "execution" \in relied')
    BY ReliesReads, StepForms DEF Release
  <1>3. A \subseteq Known(p) /\ cmd[p] = "run"
    <2>1. A \subseteq Known(p)
      BY <1>1, Finds DEF Needs, Uses
    <2> QED
      BY <1>1, <2>1, OwnSteps
  <1>4. CASE Errs(p)
    <2>1. Step(p) # <<"drop", {"session"}>>
      BY <1>1
    <2> QED
      BY <1>1, <1>2, <1>4, <2>1, Erring
  <1>5. CASE Does(p, Normalize \o <<<<"clear", "execution">>>> \o Released)
    <2>1. Leads(cmd[p], A, Normalize \o <<<<"clear", "execution">>>> \o Released, {"over"})
      <3>1. A \in SUBSET Facts
        BY DEF Facts, StateFacts, ProfileFacts
      <3> QED
        BY <1>3, <3>1, Unreserving
    <2> QED
      BY <1>1, <1>2, <1>3, <1>5, <2>1, Restarting
  <1>6. CASE file["execution"] = None /\ Does(p, Released)
    <2> DEFINE B == {"alone", "state", "released"}
    <2>1. Leads(cmd[p], B, Released, {"over"})
      <3>1. B \in SUBSET Facts
        BY DEF Facts, StateFacts
      <3> QED
        BY <1>3, <3>1, Releasing
    <2>2. ASSUME Turns(p, Released) PROVE B \subseteq Known(p)'
      <3>1. {"alone", "state"} \subseteq Known(p)'
        BY <1>2, <1>3, <2>2, ReadsKnow
      <3>2. Unreserved'
        BY <1>2, <1>6 DEF Unreserved, Reads
      <3>3. Fact(p, "released")'
        BY <3>1, <3>2 DEF Known, Fact
      <3> QED
        BY <3>1, <3>3 DEF Known, Facts, StateFacts
    <2>3. Turns(p, Released) => Leads(cmd[p], Known(p)', Released, {"over"})
      BY <2>1, <2>2, LeadsMore
    <2>4. Released \in Seq(Steps)
      BY <2>1 DEF Leads
    <2> QED
      BY <1>1, <1>2, <1>6, <2>3, <2>4, Replacing
  <1> QED
    BY <1>4, <1>5, <1>6 DEF Release

\* The interrupted operation is settled, or the new one begins.
LEMMA ResumeKeeps ==
    ASSUME IInv, NEW p \in Procs, ResumeOperation(p)
    PROVE  IInv'
  <1> DEFINE A == {"alone", "profile"}
             o == file["pending"]
             s == Resume(o)
  <1>1. ~Idle(p) /\ Step(p)[1] = "resume"
    BY DEF ResumeOperation, At
  <1>2. Reads /\ Touches(p) /\ (disk'["pending"] = {file'["pending"]} \/ "pending" \in relied')
    BY ReliesReads, StepForms DEF ResumeOperation
  <1>3. A \subseteq Known(p) /\ cmd[p] = "operation"
    <2>1. A \subseteq Known(p)
      BY <1>1, Finds DEF Needs, Uses
    <2> QED
      BY <1>1, <2>1, OwnSteps
  <1>4. CASE Gone({p})
    BY <1>2, <1>4, Typing, EndsKeep DEF IInv, Typed
  <1>5. CASE Does(p, Operate)
    <2>1. Leads(cmd[p], A, Operate, {"over"})
      <3>1. A \in SUBSET Facts
        BY DEF Facts, ProfileFacts
      <3> QED
        BY <1>3, <3>1, Operating
    <2> QED
      BY <1>1, <1>2, <1>3, <1>5, <2>1, Restarting
  <1>6. CASE Does(p, s)
    <2> DEFINE B == {"alone", "profile", "spoilable"}
                    \cup (IF o = "ready" THEN {"ready"} ELSE {"settled"})
    <2>1. Leads(cmd[p], B, s, {"over"})
      <3>1. B \in SUBSET Facts
        BY DEF Facts, ProfileFacts
      <3>2. /\ {"alone", "profile", "spoilable"} \subseteq B
            /\ o = "ready" => "ready" \in B
            /\ o # "ready" => "settled" \in B
        OBVIOUS
      <3> HIDE DEF o, B
      <3> QED
        BY <1>3, <3>1, <3>2, Resuming
    <2>2. s \in Seq(Steps)
      BY <2>1 DEF Leads
    <2>3. ASSUME Turns(p, s) PROVE B \subseteq Known(p)'
      <3>1. A \subseteq Known(p)'
        BY <1>2, <1>3, <2>3, ReadsKnow
      <3>2. HasProfile(p)'
        BY <3>1 DEF Known, Fact
      <3>3. CASE o = "ready"
        <4> DEFINE t == <<<<"complete">>, <<"save", "active">>, <<"clear", "pending">>,
                          <<"resume">>>>
        <4>1. t \in Seq(Steps) /\ Normalize \in Seq(Steps)
          BY StepForms DEF Plain, Normalize
        <4>2. <<"resume">> \in ToSet(t)
          <5>1. 4 \in DOMAIN t /\ t[4] = <<"resume">>
            OBVIOUS
          <5> HIDE DEF t
          <5> QED
            BY <5>1 DEF ToSet
        <4>3. s = Normalize \o t
          BY <3>3 DEF Resume
        <4> HIDE DEF t
        <4>4. <<"resume">> \in ToSet(s)
          BY <4>1, <4>2, <4>3, AppendHas
        <4>5. Recovering(p)'
          BY <2>3, <4>4 DEF Recovering, Turns
        <4>6. Fact(p, "ready")' /\ Fact(p, "spoilable")'
          BY <1>2, <3>2, <3>3, <4>5 DEF Fact, Reads
        <4> QED
          BY <3>1, <3>3, <4>6 DEF Known, Facts, ProfileFacts
      <3>4. CASE o # "ready"
        <4>1. Settled'
          BY <1>2, <3>4 DEF Settled, Reads
        <4>2. Fact(p, "settled")' /\ Fact(p, "spoilable")'
          BY <3>2, <4>1 DEF Fact
        <4> QED
          BY <3>1, <3>4, <4>2 DEF Known, Facts, ProfileFacts
      <3> QED
        BY <3>3, <3>4
    <2> HIDE DEF s, B
    <2>4. Turns(p, s) => Leads(cmd[p], Known(p)', s, {"over"})
      BY <2>1, <2>3, LeadsMore
    <2> QED
      BY <1>1, <1>2, <1>6, <2>2, <2>4, Replacing
  <1> QED
    BY <1>4, <1>5, <1>6 DEF ResumeOperation

\* The control plane lets the operation stand, or has stopped it.
LEMMA CompleteKeeps ==
    ASSUME IInv, NEW p \in Procs, Complete(p)
    PROVE  IInv'
  <1>1. ~Idle(p) /\ Step(p)[1] = "complete"
    BY DEF Complete, At
  <1>2. Fact(p, "alone") /\ Fact(p, "profile") /\ Fact(p, "ready") /\ cmd[p] = "operation"
    <2>1. Fact(p, "alone") /\ Fact(p, "profile") /\ Fact(p, "ready")
      BY <1>1, Finds DEF Needs, Uses
    <2> QED
      BY <1>1, <2>1, OwnSteps
  <1>3. CASE ~stopped /\ Goes(p) /\ UNCHANGED stopped
    <2>1. Reads /\ Touches(p)
      BY <1>3, WorldStays DEF Complete, journals
    <2>2. (Whole(home) /\ rooted) \/ Turned
      <3>1. file["pending"] \in disk["pending"]
        BY StepForms DEF IInv, Typed, TypedWorld
      <3> QED
        BY <1>2, <1>3, <3>1 DEF IInv, PendingLasts, Stands, Settled, Fact
    <2>3. ASSUME Turns(p, Tail(todo[p])) PROVE Gives(Step(p)) \subseteq Known(p)'
      <3>1. Gives(Step(p)) = {"over", "whole", "rooted"}
        BY <1>1 DEF Gives
      <3>2. Fact(p, "over")' /\ Fact(p, "whole")' /\ Fact(p, "rooted")'
        BY <1>2, <2>1, <2>2, <2>3 DEF Fact, Turns, Reads, Turned, HasProfile, Whole
      <3> QED
        BY <3>1, <3>2 DEF Known, Facts, ProfileFacts
    <2>4. Step(p) # <<"resume">>
      BY <1>1
    <2> QED
      BY <1>1, <1>3, <2>1, <2>3, <2>4, Passing
  <1>4. CASE stopped' = TRUE /\ Does(p, Spoiled(p))
    <2>1. Settled' /\ Touches(p)
      <3>1. Settled'
        BY <1>4 DEF Settled
      <3>2. TypedWorld'
        BY <1>4 DEF Complete, IInv, Typed, TypedWorld, tree, config, Fine
      <3>3. Lasts'
        BY <3>1 DEF Complete, IInv, Lasts, ReservationLasts, ActiveLasts, PendingLasts, Stands,
                    Unreserved, Forgotten, Turned, tree
      <3> QED
        BY <1>2, <3>1, <3>2, <3>3 DEF Touches, Fact, Complete, config, Unreserved
    <2>2. ASSUME NEW s, Turns(p, s) PROVE Doubting \subseteq Known(p)'
      <3>1. \A f \in {"alone", "profile", "settled", "spoilable"} : Fact(p, f)'
        BY <1>2, <2>1, <2>2 DEF Fact, Turns, HasProfile
      <3> QED
        BY <3>1 DEF Known, Facts, ProfileFacts, Doubting
    <2>3. Leads(cmd[p], Doubting, Spoil, {"over"})
      <3>1. {"over"} \subseteq Ending
        BY DEF Ending
      <3> QED
        BY <3>1, Spoiling, LeadsMore, ContextsAreFacts
    <2>4. Leads(cmd[p], Doubting, Spoil \o <<<<"resume">>>>, {"over"})
      BY <1>2, SpoilingResumes, ContextsAreFacts
    <2>5. Leads(cmd[p], Doubting, Spoiled(p), {"over"})
      BY <2>3, <2>4 DEF Spoiled
    <2>6. Spoiled(p) \in Seq(Steps)
      BY <2>5 DEF Leads
    <2>7. Turns(p, Spoiled(p)) => Leads(cmd[p], Known(p)', Spoiled(p), {"over"})
      BY <2>2, <2>5, LeadsMore
    <2> QED
      BY <1>1, <1>4, <2>1, <2>6, <2>7, Replacing
  <1> QED
    BY <1>3, <1>4 DEF Complete

-----------------------------------------------------------------------------
(* The native home *)

\* All that a change of the home leaves alone, but for the name of a new one.
Record == <<file, disk, relied, revived, abandoned, stopped>>

\* The journals and that name are all there is.
LEMMA RecordStays ==
    ASSUME UNCHANGED journals
    PROVE  UNCHANGED Record /\ rooted' = rooted
  BY DEF journals, Record

\* Facts that are not about the home stay as it changes.
LEMMA HomeKnow ==
    ASSUME NEW p, UNCHANGED Record, held'[p] = held[p], stage'[p] = stage[p],
           version'[p] = version[p], NEW f \in Known(p),
           f \notin {"inspected", "clean", "protected", "homeless", "whole"},
           f = "rooted" => rooted' = rooted,
           f = "spoilable" => (Recovering(p) => Recovering(p)')
    PROVE  f \in Known(p)'
  <1> SUFFICES Fact(p, f)'
    BY DEF Known
  <1>1. Fact(p, f) /\ f \in Facts
    BY DEF Known
  <1>2. CASE f = "spoilable"
    BY <1>1, <1>2 DEF Fact, Settled, Turned, HasProfile, Record
  <1>3. CASE f \in {"resolved", "saved", "released", "ours", "synced", "withdrawn", "begun", "ready",
                    "rooted", "forgotten", "settled"}
    BY <1>1, <1>3 DEF Fact, Absent, Unreserved, Forgotten, Settled, Turned, HasProfile, Record
  <1>4. CASE f \in {"launch", "state", "root", "rootShared", "profile", "over", "asking", "alone",
                    "named", "never"}
    BY <1>1, <1>4 DEF Fact, HasProfile
  <1> QED
    BY <1>1, <1>2, <1>3, <1>4 DEF Facts, ProfileFacts, StateFacts

\* A fault is counted, up to its bound.
LEMMA FaultsCounted ==
    ASSUME IInv, Fine \/ Fault
    PROVE  /\ off' \in BOOLEAN /\ losses' \in 0 .. MaxLosses
           /\ faults' \in 0 .. MaxFaults \cup 0 .. MaxLate
  <1>1. /\ off \in BOOLEAN /\ losses \in 0 .. MaxLosses
        /\ faults \in 0 .. MaxFaults \cup 0 .. MaxLate
    BY DEF IInv, Typed, TypedWorld
  <1>2. off' = off /\ losses' = losses
    BY DEF Fine, Fault
  <1>3. faults' \in 0 .. MaxFaults \cup 0 .. MaxLate
    <2>1. CASE Fine
      BY <1>1, <2>1 DEF Fine
    <2>2. CASE Fault
      <3>1. faults \in Nat /\ faults' = faults + 1
            /\ (faults < MaxFaults \/ faults < MaxLate)
        BY <1>1, <2>2, StateFilesAssumption DEF Fault
      <3> QED
        BY <3>1, StateFilesAssumption
    <2> QED
      BY <2>1, <2>2
  <1> QED
    BY <1>1, <1>2, <1>3

\* Who has the profile may change the home, as long as it stays whole or no
\* journal will speak for it.
LEMMA HomeTouch ==
    ASSUME IInv, NEW p \in Procs, Fact(p, "profile"), UNCHANGED <<Record, config>>,
           Fine \/ Fault, home' = None \/ home' \in Tree, scratch' \in {"clean", "dirty"},
           rooted' = rooted \/ rooted' = FALSE,
           (rooted' = rooted /\ (Whole(home) => Whole(home'))) \/ (Forgotten /\ Settled)
    PROVE  Touches(p)
  <1>1. TypedWorld'
    BY FaultsCounted DEF IInv, Typed, TypedWorld, Record, config
  <1>2. /\ Unreserved => Unreserved'
        /\ Forgotten => Forgotten'
        /\ Settled => Settled'
        /\ ReservationLasts'
    BY DEF Unreserved, Forgotten, Settled, Turned, Record, IInv, ReservationLasts
  <1>3. ActiveLasts' /\ PendingLasts'
    BY <1>2 DEF IInv, ActiveLasts, PendingLasts, Stands
  <1> QED
    BY <1>1, <1>2, <1>3 DEF Touches, Lasts, Fact, config, Record

\* The step is done: what is left to show is what it says of the home.
LEMMA HomeGoing ==
    ASSUME IInv, NEW p \in Procs, ~Idle(p), Goes(p), Touches(p), UNCHANGED Record,
           Step(p) # <<"resume">>, rooted' = rooted \/ "rooted" \in Breaks(Step(p)),
           Turns(p, Tail(todo[p])) =>
             \A f \in {"clean", "protected", "homeless", "whole"} \cup Gives(Step(p)) :
                f \in After(Known(p), Step(p)) => f \in Known(p)'
    PROVE  IInv'
  <1>1. ASSUME Turns(p, Tail(todo[p])), NEW f \in After(Known(p), Step(p)) PROVE f \in Known(p)'
    <2>1. CASE f \in {"clean", "protected", "homeless", "whole"} \cup Gives(Step(p))
      BY <1>1, <2>1
    <2>2. CASE f \notin {"clean", "protected", "homeless", "whole"} \cup Gives(Step(p))
      <3>1. f \in Known(p) /\ f # "inspected" /\ (f = "rooted" => rooted' = rooted)
        BY <1>1, <2>2 DEF After, Breaks
      <3>2. Recovering(p) => Recovering(p)'
        BY <1>1, RecoveringLasts DEF Recovering, Turns
      <3> QED
        BY <1>1, <2>2, <3>1, <3>2, HomeKnow DEF Turns
    <2> QED
      BY <2>1, <2>2
  <1> QED
    BY <1>1, Going

\* The scratch is replaced.
LEMMA PruneKeeps ==
    ASSUME IInv, NEW p \in Procs, Prune(p)
    PROVE  IInv'
  <1>1. /\ ~Idle(p) /\ Step(p)[1] = "prune" /\ Goes(p) /\ UNCHANGED journals
        /\ Step(p) # <<"resume">>
    BY DEF Prune, At
  <1>2. Fact(p, "profile")
    <2>1. "profile" \in Uses(cmd[p], Step(p))
      BY <1>1 DEF Uses
    <2> QED
      BY <1>1, <2>1, Finds DEF Needs
  <1>3. Touches(p)
    <2>1. home' = None \/ home' \in Tree
      BY DEF Prune, IInv, Typed, TypedWorld
    <2>2. scratch' \in {"clean", "dirty"} /\ UNCHANGED <<journals, config>>
          /\ Fine /\ (Whole(home) => Whole(home'))
      BY DEF Prune
    <2> QED
      BY <1>2, <2>1, <2>2, RecordStays, HomeTouch
  <1>4. ASSUME Turns(p, Tail(todo[p])),
               NEW f \in {"clean", "protected", "homeless", "whole"} \cup Gives(Step(p)),
               f \in After(Known(p), Step(p))
        PROVE  f \in Known(p)'
    <2>1. Gives(Step(p)) = {"over", "clean"}
      BY <1>1 DEF Gives
    <2>2. f \in {"over", "clean"} \/ (f \in {"protected", "homeless", "whole"} /\ Fact(p, f))
      BY <1>4, <2>1 DEF After, Known
    <2>3. Fact(p, f)'
      <3>1. CASE f = "over"
        BY <3>1 DEF Fact
      <3>2. CASE f = "clean"
        BY <1>2, <1>4, <3>2 DEF Fact, HasProfile, Turns, Prune
      <3>3. CASE f \in {"protected", "homeless", "whole"} /\ Fact(p, f)
        BY <1>4, <3>3 DEF Fact, HasProfile, Turns, Prune, Protected, Whole, Turned, journals
      <3> QED
        BY <2>2, <3>1, <3>2, <3>3
    <2> QED
      BY <2>2, <2>3 DEF Known, Facts, ProfileFacts
  <1> QED
    BY <1>1, <1>3, <1>4, RecordStays, HomeGoing

\* A new home is whole, but owned by nobody yet and not there to stay.
LEMMA MakeKeeps ==
    ASSUME IInv, NEW p \in Procs, Make(p)
    PROVE  IInv'
  <1>1. /\ ~Idle(p) /\ Step(p)[1] = "make" /\ Goes(p) /\ UNCHANGED Record
        /\ Step(p) # <<"resume">> /\ rooted' = FALSE
    BY DEF Make, At, Record
  <1>2. Fact(p, "profile") /\ Fact(p, "homeless")
    <2>1. {"profile", "homeless"} \subseteq Uses(cmd[p], Step(p))
      BY <1>1 DEF Uses
    <2> QED
      BY <1>1, <2>1, Finds DEF Needs
  <1>3. home' \in Tree /\ Whole(home')
    <2>1. home' = [e \in Entries |-> "kept"]
      BY DEF Make
    <2>2. home' \in Tree
      BY <2>1 DEF Tree
    <2> QED
      BY <2>1, <2>2, StateFilesAssumption DEF Whole
  <1>4. Touches(p)
    <2>1. scratch' \in {"clean", "dirty"} /\ UNCHANGED config /\ Fine
      BY DEF Make, IInv, Typed, TypedWorld
    <2>2. Forgotten /\ Settled
      BY <1>2 DEF Fact, IInv, ActiveLasts, PendingLasts, Stands, Whole
    <2> QED
      BY <1>1, <1>2, <1>3, <2>1, <2>2, HomeTouch
  <1>5. ASSUME Turns(p, Tail(todo[p])),
               NEW f \in {"clean", "protected", "homeless", "whole"} \cup Gives(Step(p)),
               f \in After(Known(p), Step(p))
        PROVE  f \in Known(p)'
    <2>1. /\ Gives(Step(p)) = {"over", "whole"}
          /\ {"clean", "protected", "homeless", "rooted"} \subseteq Breaks(Step(p))
      BY <1>1 DEF Gives, Breaks
    <2>2. f \in {"over", "whole"}
      BY <1>5, <2>1 DEF After
    <2>3. Fact(p, f)'
      BY <1>2, <1>3, <1>5, <2>2 DEF Fact, HasProfile, Turns
    <2> QED
      BY <2>2, <2>3 DEF Known, Facts, ProfileFacts
  <1>6. "rooted" \in Breaks(Step(p))
    BY <1>1 DEF Breaks
  <1> QED
    BY <1>1, <1>4, <1>5, <1>6, HomeGoing

\* A native process spoils entries and removes some, but the code removes none.
LEMMA NativeKeeps ==
    ASSUME IInv, NEW p \in Procs, Native(p)
    PROVE  IInv'
  <1>1. ~Idle(p) /\ Step(p)[1] = "native" /\ UNCHANGED journals /\ Step(p) # <<"resume">>
    BY DEF Native, At
  <1>2. /\ Fact(p, "profile") /\ Fact(p, "protected") /\ Fact(p, "synced") /\ Fact(p, "alone")
        /\ cmd[p] # "run" => Fact(p, "begun")
    BY <1>1, Finds DEF Needs, Uses
  <1>3. home \in Tree /\ home' \in Tree /\ home' # None /\ (Whole(home) => Whole(home'))
    <2>1. home \in Tree
      BY <1>2 DEF Fact, Protected, IInv, Typed, TypedWorld
    <2>2. home' \in {h \in Tree : \A e \in Entries :
                       \/ h[e] = home[e]
                       \/ home[e] # "gone" /\ h[e] \in {"loose", "unsafe", "lost"}}
      BY DEF Native
    <2>3. home' \in Tree /\ home' # None
      BY <2>2, StateFilesAssumption
    <2>4. \A e \in Entries : home[e] # "gone" => home'[e] # "gone"
      BY <2>2
    <2> QED
      BY <2>1, <2>3, <2>4 DEF Whole
  <1>4. Touches(p)
    <2>1. scratch' \in {"clean", "dirty"} /\ UNCHANGED <<journals, config>> /\ Fine
      BY DEF Native
    <2> QED
      BY <1>2, <1>3, <2>1, RecordStays, HomeTouch
  <1>5. CASE Goes(p)
    <2>1. ASSUME Turns(p, Tail(todo[p])),
                 NEW f \in {"clean", "protected", "homeless", "whole"} \cup Gives(Step(p)),
                 f \in After(Known(p), Step(p))
          PROVE  f \in Known(p)'
      <3>1. /\ Gives(Step(p)) = {"over"}
            /\ {"clean", "protected", "homeless"} \subseteq Breaks(Step(p))
        BY <1>1 DEF Gives, Breaks
      <3>2. f = "over" \/ (f = "whole" /\ Fact(p, f))
        BY <2>1, <3>1 DEF After, Known
      <3>3. Fact(p, f)'
        BY <1>1, <1>3, <2>1, <3>2 DEF Fact, HasProfile, Turns, Turned, journals
      <3> QED
        BY <3>2, <3>3 DEF Known, Facts, ProfileFacts
    <2> QED
      BY <1>1, <1>4, <1>5, <2>1, RecordStays, HomeGoing
  <1>6. CASE cmd[p] = "operation" /\ Does(p, Spoil)
    <2>1. Settled'
      <3>1. disk["pending"] = {"kept"}
        <4>1. "pending" \in Cells \ {"attempt"}
          BY StepForms
        <4> QED
          BY <1>2, <1>6, <4>1 DEF Fact
      <3> QED
        BY <1>1, <3>1 DEF Settled, journals
    <2>2. ASSUME Turns(p, Spoil) PROVE Doubting \subseteq Known(p)'
      <3>1. \A f \in {"alone", "profile", "settled", "spoilable"} : Fact(p, f)'
        BY <1>2, <2>1, <2>2 DEF Fact, Turns, HasProfile
      <3> QED
        BY <3>1 DEF Known, Facts, ProfileFacts, Doubting
    <2>3. Leads(cmd[p], Doubting, Spoil, {"over"})
      <3>1. {"over"} \subseteq Ending
        BY DEF Ending
      <3> QED
        BY <3>1, Spoiling, LeadsMore, ContextsAreFacts
    <2>4. Spoil \in Seq(Steps)
      BY <2>3 DEF Leads
    <2>5. Turns(p, Spoil) => Leads(cmd[p], Known(p)', Spoil, {"over"})
      BY <2>2, <2>3, LeadsMore
    <2> QED
      BY <1>1, <1>4, <1>6, <2>4, <2>5, Replacing
  <1> QED
    BY <1>5, <1>6 DEF Native

\* The entry a loop over the tree comes to next is one of the tree.
LEMMA MinIsIn ==
    ASSUME NEW S \in SUBSET Entries, S # {}
    PROVE  Min(S) \in S
  <1>1. S \in SUBSET Nat
    BY StateFilesAssumption
  <1>2. \E x \in S : \A y \in S : x <= y
    BY <1>1, Least
  <1> QED
    BY <1>2 DEF Min

\* An entry is protected, or the inspection turns out to be out of date.
LEMMA ProtectKeeps ==
    ASSUME IInv, NEW p \in Procs, Protect(p)
    PROVE  IInv'
  <1> DEFINE x == Step(p)
             left == {e \in Entries : job[p][e] = "loose"}
             e == Min(left)
  <1>1. ~Idle(p) /\ x[1] = "protect" /\ UNCHANGED <<journals, config>> /\ Fine
    BY DEF Protect, At
  <1>2. /\ Fact(p, "profile") /\ Fact(p, "inspected") /\ Fact(p, "alone")
        /\ Needs(cmd[p], x) = {"profile", "inspected", "alone"}
    <2>1. Needs(cmd[p], x) = {"profile", "inspected", "alone"}
      BY <1>1 DEF Needs, Uses, Foreign
    <2> QED
      BY <1>1, <2>1, Finds
  <1>3. CASE Errs(p) /\ UNCHANGED tree
    <2>1. Reads /\ Touches(p) /\ x # <<"drop", {"session"}>>
      BY <1>1, <1>3, WorldStays
    <2> QED
      BY <1>1, <1>3, <2>1, Erring
  <1>4. CASE Goes(p) /\ UNCHANGED tree
    <2>1. Reads /\ Touches(p) /\ x # <<"resume">>
      BY <1>1, <1>4, WorldStays
    <2>2. Gives(x) \subseteq Known(p)'
      <3>1. Gives(x) = {"over"}
        BY <1>1 DEF Gives
      <3> QED
        BY <3>1 DEF Known, Fact, Facts
    <2> QED
      BY <1>1, <1>4, <2>1, <2>2, Passing
  <1>5. CASE /\ left # {} /\ home[e] = job[p][e]
             /\ home' = [home EXCEPT ![e] = "kept"]
             /\ job' = [job EXCEPT ![p][e] = "kept"]
             /\ UNCHANGED <<cmd, stage, version, todo, held, scratch>>
    <2>1. e \in Entries /\ job[p][e] = "loose"
      BY <1>5, MinIsIn
    <2> HIDE DEF left, e
    <2>2. /\ home \in Tree /\ job[p] \in Tree /\ \A f \in Entries : job[p][f] # "unsafe"
          /\ HasProfile(p)
      BY <1>2 DEF Fact
    <2>3. job' = [job EXCEPT ![p] = [job[p] EXCEPT ![e] = "kept"]]
      BY <1>5
    <2>4. /\ job'[p] = [job[p] EXCEPT ![e] = "kept"] /\ job'[p] \in Tree
          /\ \A f \in Entries : job'[p][f] # "unsafe"
      <3>1. job'[p] = [job[p] EXCEPT ![e] = "kept"]
        BY <2>3 DEF IInv, Typed, TypedProcesses
      <3>2. \A f \in Entries : job'[p][f] # "unsafe"
        BY <2>2, <3>1 DEF Tree
      <3> QED
        BY <2>2, <3>1, <3>2 DEF Tree
    <2>5. home' \in Tree /\ home # None /\ home' # None /\ (Whole(home) => Whole(home'))
      <3>1. home' \in Tree
        BY <1>5, <2>2 DEF Tree
      <3>2. \A f \in Entries : home[f] # "gone" => home'[f] # "gone"
        BY <1>5, <2>2 DEF Tree
      <3> QED
        BY <2>2, <3>1, <3>2, StateFilesAssumption DEF Whole
    <2>6. Apart(p) /\ Stays(p)
      BY <1>5, <2>3 DEF IInv, Typed, TypedProcesses, Apart, SameProcess, Stays
    <2>7. TypedProcesses'
      <3>1. job' \in [Procs -> {None, Renamed} \cup Tree]
        <4>1. [job[p] EXCEPT ![e] = "kept"] \in Tree
          BY <2>2 DEF Tree
        <4> QED
          BY <2>3, <4>1 DEF IInv, Typed, TypedProcesses
      <3> QED
        BY <1>5, <3>1 DEF IInv, Typed, TypedProcesses
    <2>8. Touches(p)
      <3>1. scratch' \in {"clean", "dirty"}
        BY <1>5 DEF IInv, Typed, TypedWorld
      <3> QED
        BY <1>1, <1>2, <2>5, <3>1, RecordStays, HomeTouch
    <2>9. ASSUME NEW f \in Known(p), f \notin Breaks(x) PROVE f \in Known(p)'
      <3>1. f \notin {"inspected", "homeless", "protected"}
        BY <1>1, <2>9 DEF Breaks
      <3>2. CASE f \in {"clean", "whole"}
        <4>1. Fact(p, f)
          BY DEF Known
        <4>2. Fact(p, f)'
          BY <1>1, <1>5, <2>5, <2>6, <3>2, <4>1 DEF Fact, HasProfile, Stays, Turned, journals
        <4> QED
          BY <3>2, <4>2 DEF Known, Facts, ProfileFacts
      <3>3. CASE f \notin {"clean", "whole"}
        <4>1. Recovering(p) => Recovering(p)'
          BY <2>6 DEF Recovering, Stays
        <4> QED
          BY <1>1, <2>6, <3>1, <3>3, <4>1, RecordStays, HomeKnow DEF Stays
      <3> QED
        BY <3>2, <3>3
    <2>10. Needs(cmd[p], x) \subseteq Known(p)'
      <3>1. Fact(p, "inspected")'
        BY <2>4, <2>5, <2>6, <2>2 DEF Fact, HasProfile, Stays
      <3>2. Fact(p, "alone")' /\ Fact(p, "profile")'
        BY <1>2, <2>6 DEF Fact, HasProfile, Stays
      <3> QED
        BY <1>2, <3>1, <3>2 DEF Known, Facts, ProfileFacts
    <2>11. Written(p)'
      BY <2>4, StateFilesAssumption DEF Written
    <2>12. Known(p) \ Breaks(x) \subseteq Known(p)'
      BY <2>9
    <2> QED
      BY <1>1, <2>6, <2>7, <2>8, <2>10, <2>11, <2>12, Staying
  <1> QED
    BY <1>3, <1>4, <1>5 DEF Protect

\* A straggler changes an entry to one that is unsafe.
LEMMA StraggleKeeps ==
    ASSUME IInv, NEW p \in Procs, NEW e \in Entries, Straggle(p, e)
    PROVE  IInv'
  <1> DEFINE x == Step(p)
  <1>1. /\ ~Idle(p) /\ x[1] = "protect" /\ UNCHANGED <<journals, config>> /\ Fault
        /\ home[e] \in {"kept", "loose"} /\ home' = [home EXCEPT ![e] = "unsafe"]
        /\ UNCHANGED <<process, scratch>>
    BY DEF Straggle, At
  <1>2. /\ Fact(p, "profile") /\ Fact(p, "inspected") /\ Fact(p, "alone")
        /\ Needs(cmd[p], x) = {"profile", "inspected", "alone"}
    <2>1. Needs(cmd[p], x) = {"profile", "inspected", "alone"}
      BY <1>1 DEF Needs, Uses, Foreign
    <2> QED
      BY <1>1, <2>1, Finds
  <1>3. /\ home \in Tree /\ job[p] \in Tree /\ \A f \in Entries : job[p][f] # "unsafe"
        /\ HasProfile(p)
    BY <1>2 DEF Fact
  <1>4. home' \in Tree /\ home # None /\ home' # None /\ (Whole(home) => Whole(home'))
    <2>1. home' \in Tree
      BY <1>1, <1>3 DEF Tree
    <2>2. \A f \in Entries : home[f] # "gone" => home'[f] # "gone"
      BY <1>1, <1>3 DEF Tree
    <2> QED
      BY <1>3, <2>1, <2>2, StateFilesAssumption DEF Whole
  <1>5. Apart(p) /\ Stays(p) /\ TypedProcesses' /\ job'[p] = job[p]
    BY <1>1 DEF IInv, Typed, TypedProcesses, Apart, SameProcess, Stays, process
  <1>6. Touches(p)
    <2>1. scratch' \in {"clean", "dirty"}
      BY <1>1 DEF IInv, Typed, TypedWorld
    <2> QED
      BY <1>1, <1>2, <1>4, <2>1, RecordStays, HomeTouch
  <1>7. ASSUME NEW f \in Known(p), f \notin Breaks(x) PROVE f \in Known(p)'
    <2>1. f \notin {"inspected", "homeless", "protected"}
      BY <1>1, <1>7 DEF Breaks
    <2>2. CASE f \in {"clean", "whole"}
      <3>1. Fact(p, f)
        BY DEF Known
      <3>2. Fact(p, f)'
        BY <1>1, <1>4, <1>5, <2>2, <3>1 DEF Fact, HasProfile, Stays, Turned, journals
      <3> QED
        BY <2>2, <3>2 DEF Known, Facts, ProfileFacts
    <2>3. CASE f \notin {"clean", "whole"}
      <3>1. Recovering(p) => Recovering(p)'
        BY <1>5 DEF Recovering, Stays
      <3> QED
        BY <1>1, <1>5, <2>1, <2>3, <3>1, RecordStays, HomeKnow DEF Stays
    <2> QED
      BY <2>2, <2>3
  <1>8. Needs(cmd[p], x) \subseteq Known(p)'
    <2>1. Fact(p, "inspected")' /\ Fact(p, "alone")' /\ Fact(p, "profile")'
      BY <1>2, <1>3, <1>4, <1>5 DEF Fact, HasProfile, Stays
    <2> QED
      BY <1>2, <2>1 DEF Known, Facts, ProfileFacts
  <1>9. Written(p)'
    BY <1>3, <1>5, StateFilesAssumption DEF Written
  <1>10. Known(p) \ Breaks(x) \subseteq Known(p)'
    BY <1>7
  <1> QED
    BY <1>1, <1>5, <1>6, <1>8, <1>9, <1>10, Staying

\* The home loses an entry, when no journal speaks for it any more.
LEMMA EmptyKeeps ==
    ASSUME IInv, NEW p \in Procs, Empty(p)
    PROVE  IInv'
  <1> DEFINE x == Step(p)
             left == {e \in Entries : home # None /\ home[e] \notin {"gone", "lost"}}
             e == Min(left)
  <1>1. ~Idle(p) /\ x[1] = "empty" /\ UNCHANGED <<scratch, journals, config>> /\ Fine
    BY DEF Empty, At
  <1>2. /\ Fact(p, "profile") /\ Fact(p, "forgotten") /\ Fact(p, "settled") /\ Fact(p, "alone")
        /\ Needs(cmd[p], x) = {"profile", "forgotten", "settled", "alone"}
    <2>1. Needs(cmd[p], x) = {"profile", "forgotten", "settled", "alone"}
      BY <1>1 DEF Needs, Uses, Foreign
    <2> QED
      BY <1>1, <2>1, Finds
  <1>3. CASE Goes(p) /\ UNCHANGED home
    <2>1. Reads /\ Touches(p) /\ x # <<"resume">>
      BY <1>1, <1>3, WorldStays DEF tree
    <2>2. Gives(x) \subseteq Known(p)'
      <3>1. Gives(x) = {"over"}
        BY <1>1 DEF Gives
      <3> QED
        BY <3>1 DEF Known, Fact, Facts
    <2> QED
      BY <1>1, <1>3, <2>1, <2>2, Passing
  <1>4. CASE left # {} /\ home' = [home EXCEPT ![e] = "gone"] /\ UNCHANGED process
    <2>1. e \in Entries /\ home # None
      BY <1>4, MinIsIn
    <2> HIDE DEF left, e
    <2>2. home' \in Tree
      <3>1. home \in Tree
        BY <2>1 DEF IInv, Typed, TypedWorld
      <3> QED
        BY <1>4, <3>1 DEF Tree
    <2>3. Apart(p) /\ Stays(p) /\ TypedProcesses' /\ job'[p] = job[p]
      BY <1>4 DEF IInv, Typed, TypedProcesses, Apart, SameProcess, Stays, process
    <2>4. Touches(p)
      <3>1. scratch' \in {"clean", "dirty"} /\ Forgotten /\ Settled
        BY <1>1, <1>2 DEF IInv, Typed, TypedWorld, Fact
      <3> QED
        BY <1>1, <1>2, <2>2, <3>1, RecordStays, HomeTouch
    <2>5. ASSUME NEW f \in Known(p), f \notin Breaks(x) PROVE f \in Known(p)'
      <3>1. f \notin {"inspected", "homeless", "protected", "clean", "whole"}
        BY <1>1, <2>5 DEF Breaks
      <3>2. Recovering(p) => Recovering(p)'
        BY <2>3 DEF Recovering, Stays
      <3> QED
        BY <1>1, <2>3, <3>1, <3>2, RecordStays, HomeKnow DEF Stays
    <2>6. Needs(cmd[p], x) \subseteq Known(p)'
      <3>1. {"profile", "forgotten", "settled", "alone"} \cap Breaks(x) = {}
        BY <1>1 DEF Breaks
      <3>2. Needs(cmd[p], x) \subseteq Known(p)
        BY <1>1, Finds
      <3> QED
        BY <1>2, <2>5, <3>1, <3>2
    <2>7. Written(p)'
      <3>1. job[p] # Renamed
        BY <1>1, WritesOnly
      <3> QED
        BY <2>3, <3>1 DEF Written
    <2>8. Known(p) \ Breaks(x) \subseteq Known(p)'
      BY <2>5
    <2> QED
      BY <1>1, <2>3, <2>4, <2>6, <2>7, <2>8, Staying
  <1> QED
    BY <1>3, <1>4 DEF Empty

-----------------------------------------------------------------------------
(* The journals *)

\* A sync settles which version of a file a power loss leaves.
LEMMA Syncing ==
    ASSUME IInv, NEW d \in {"state", "profile"}, Syncs(d)
    PROVE  /\ disk' \in [Cells -> SUBSET (Attempts \cup {None, "kept", "ready"})]
           /\ disk'["attempt"] \subseteq Attempts \cup {None}
           /\ disk'["execution"] \subseteq Attempts \cup {None}
           /\ disk'["pending"] \subseteq {"kept", "ready", None}
           /\ disk'["active"] \subseteq {"kept", None}
           /\ \A c \in Cells : file'[c] \in disk'[c]
           /\ relied' \subseteq Cells /\ stopped' \in BOOLEAN
           /\ \A c \in Cells : Directory[c] = d => disk'[c] = {file'[c]}
           /\ \A c \in Cells : Directory[c] # d =>
                disk'[c] = disk[c] /\ (c \in relied => c \in relied')
           /\ d # "profile" => stopped' = stopped /\ rooted' = rooted
           /\ rooted' \in BOOLEAN /\ (rooted \/ d = "profile" => rooted')
           /\ file' = file /\ revived' = revived /\ abandoned' = abandoned
           /\ Unreserved => Unreserved'
           /\ Forgotten => Forgotten'
           /\ Settled => Settled'
           /\ ReservationLasts'
  <1>1. /\ file' = file /\ revived' = revived /\ abandoned' = abandoned
        /\ disk' = [c \in Cells |-> IF Directory[c] = d THEN {file[c]} ELSE disk[c]]
        /\ relied' = relied \ {c \in Cells : Directory[c] = d}
        /\ stopped' = (stopped /\ (d # "profile" \/ file["pending"] # None))
        /\ rooted' = (rooted \/ d = "profile")
    BY DEF Syncs
  <1>2. /\ Cells = {"attempt", "pending", "execution", "active"}
        /\ Directory["attempt"] = "state" /\ Directory["pending"] = "profile"
        /\ Directory["execution"] = "profile" /\ Directory["active"] = "profile"
    BY StepForms DEF Directory
  <1>3. TypedWorld
    BY DEF IInv, Typed
  <1>4. /\ disk' \in [Cells -> SUBSET (Attempts \cup {None, "kept", "ready"})]
        /\ disk'["attempt"] \subseteq Attempts \cup {None}
        /\ disk'["execution"] \subseteq Attempts \cup {None}
        /\ disk'["pending"] \subseteq {"kept", "ready", None}
        /\ disk'["active"] \subseteq {"kept", None}
        /\ \A c \in Cells : file'[c] \in disk'[c]
        /\ relied' \subseteq Cells
    <2>1. disk' \in [Cells -> SUBSET (Attempts \cup {None, "kept", "ready"})]
      <3>1. \A c \in Cells : {file[c]} \in SUBSET (Attempts \cup {None, "kept", "ready"})
        BY <1>3 DEF TypedWorld
      <3> QED
        BY <1>1, <1>3, <3>1 DEF TypedWorld
    <2>2. \A c \in Cells : file'[c] \in disk'[c] /\ (disk'[c] = disk[c] \/ disk'[c] = {file[c]})
      BY <1>1, <1>3 DEF TypedWorld
    <2>3. /\ disk'["attempt"] \subseteq Attempts \cup {None}
          /\ disk'["execution"] \subseteq Attempts \cup {None}
          /\ disk'["pending"] \subseteq {"kept", "ready", None}
          /\ disk'["active"] \subseteq {"kept", None}
      BY <1>2, <1>3, <2>2 DEF TypedWorld
    <2>4. relied' \subseteq Cells
      BY <1>1, <1>3 DEF TypedWorld
    <2> QED
      BY <2>1, <2>2, <2>3, <2>4
  <1>5. stopped' \in BOOLEAN /\ (d # "profile" => stopped' = stopped)
    BY <1>1, <1>3 DEF TypedWorld
  <1>12. /\ rooted' \in BOOLEAN /\ (rooted \/ d = "profile" => rooted')
         /\ d # "profile" => rooted' = rooted
    BY <1>1, <1>3 DEF TypedWorld
  <1>6. /\ \A c \in Cells : Directory[c] = d => disk'[c] = {file'[c]}
        /\ \A c \in Cells : Directory[c] # d =>
             disk'[c] = disk[c] /\ (c \in relied => c \in relied')
    BY <1>1
  <1>7. \A c \in Cells : file[c] \in disk[c]
    BY <1>3 DEF TypedWorld
  <1>8. Unreserved => Unreserved'
    BY <1>1, <1>2, <1>6, <1>7 DEF Unreserved
  <1>9. Forgotten => Forgotten'
    BY <1>1, <1>2, <1>6, <1>7 DEF Forgotten, Turned
  <1>10. Settled => Settled'
    <2>1. None # "ready"
      BY StateFilesAssumption
    <2> QED
      BY <1>1, <1>2, <1>6, <1>7, <2>1 DEF Settled, Turned
  <1>11. ReservationLasts'
    BY <1>1, <1>2, <1>6, <1>7, <1>8 DEF ReservationLasts, IInv
  <1> QED
    BY <1>1, <1>4, <1>5, <1>6, <1>8, <1>9, <1>10, <1>11, <1>12

\* Facts that are not about the home stay as a directory is synced.
LEMMA SyncKnow ==
    ASSUME IInv, NEW d \in {"state", "profile"}, Syncs(d), NEW p, held'[p] = held[p],
           stage'[p] = stage[p], version'[p] = version[p], NEW f \in Known(p),
           f \notin {"inspected", "clean", "protected", "homeless", "whole"},
           f = "spoilable" => (Recovering(p) => Recovering(p)')
    PROVE  f \in Known(p)'
  <1> SUFFICES Fact(p, f)'
    BY DEF Known
  <1>1. Fact(p, f) /\ f \in Facts
    BY DEF Known
  <1>2. /\ file' = file
        /\ \A c \in Cells : disk[c] = {file[c]} => disk'[c] = {file'[c]}
        /\ Unreserved => Unreserved'
        /\ Forgotten => Forgotten'
        /\ Settled => Settled'
        /\ (rooted => rooted') /\ (Turned => Turned')
    BY Syncing DEF Turned
  <1>3. Cells = {"attempt", "pending", "execution", "active"}
    BY StepForms
  <1>4. CASE f = "spoilable"
    BY <1>1, <1>2, <1>4 DEF Fact, HasProfile
  <1>5. CASE f \in {"resolved", "released", "ours", "synced", "withdrawn", "begun", "ready",
                    "rooted", "forgotten", "settled"}
    BY <1>1, <1>2, <1>5 DEF Fact, Absent, HasProfile
  <1>6. CASE f = "saved"
    BY <1>1, <1>2, <1>3, <1>6 DEF Fact
  <1>7. CASE f \in {"launch", "state", "root", "rootShared", "profile", "over", "asking", "alone",
                    "named", "never"}
    BY <1>1, <1>7 DEF Fact, HasProfile
  <1> QED
    BY <1>1, <1>4, <1>5, <1>6, <1>7 DEF Facts, ProfileFacts, StateFacts

\* The home goes, and the sync covers the profile's journals.
LEMMA RemoveHomeKeeps ==
    ASSUME IInv, NEW p \in Procs, RemoveHome(p)
    PROVE  IInv'
  <1> DEFINE x == Step(p)
             d == "profile"
  <1>1. /\ ~Idle(p) /\ x[1] = "remove" /\ Goes(p) /\ Syncs(d) /\ UNCHANGED config /\ Fine
        /\ home' = None /\ scratch' = "clean" /\ x # <<"resume">>
    BY DEF RemoveHome, At
  <1>2. Fact(p, "profile") /\ Fact(p, "forgotten") /\ Fact(p, "settled")
    BY <1>1, Finds DEF Needs, Uses
  <1>3. Touches(p)
    <2>1. TypedWorld'
      BY <1>1, Syncing DEF IInv, Typed, TypedWorld, config, Fine
    <2>2. Lasts'
      BY <1>1, <1>2, Syncing DEF Lasts, ActiveLasts, PendingLasts, Stands, Fact
    <2>3. /\ "attempt" \in Cells /\ Directory["attempt"] # d
      BY StepForms DEF Directory
    <2> QED
      BY <1>1, <1>2, <2>1, <2>2, <2>3, Syncing DEF Touches, Fact, config
  <1>4. ASSUME Turns(p, Tail(todo[p])), NEW f \in After(Known(p), x) PROVE f \in Known(p)'
    <2>1. Gives(x) = {"over", "homeless", "synced", "rooted"}
      BY <1>1 DEF Gives
    <2>2. {"inspected", "clean", "protected", "homeless", "whole"} \subseteq Breaks(x)
      BY <1>1 DEF Breaks
    <2>3. CASE f \in Gives(x)
      <3>1. \A c \in Cells \ {"attempt"} : disk'[c] = {file'[c]}
        <4>1. \A c \in Cells \ {"attempt"} : Directory[c] = d
          BY StepForms DEF Directory
        <4> QED
          BY <1>1, <4>1, Syncing
      <3>2. Fact(p, f)'
        BY <1>1, <1>2, <1>4, <2>1, <2>3, <3>1, Syncing DEF Fact, HasProfile, Turns
      <3> QED
        BY <2>1, <2>3, <3>2 DEF Known, Facts, ProfileFacts
    <2>4. CASE f \notin Gives(x)
      <3>1. f \in Known(p) /\ f \notin {"inspected", "clean", "protected", "homeless", "whole"}
        BY <1>4, <2>2, <2>4 DEF After
      <3>2. Recovering(p) => Recovering(p)'
        BY <1>1, <1>4, RecoveringLasts DEF Recovering, Turns
      <3> QED
        BY <1>1, <1>4, <3>1, <3>2, SyncKnow DEF Turns
    <2> QED
      BY <2>3, <2>4
  <1> QED
    BY <1>1, <1>3, <1>4, Going

\* What a step that writes says of the file, once it is synced.
LEMMA SyncGives ==
    ASSUME IInv, NEW p \in Procs, Sync(p), Turns(p, Tail(todo[p])), NEW f \in Gives(Step(p))
    PROVE  f \in Known(p)'
  <1> DEFINE x == Step(p)
             d == Directory[x[2]]
  <1>1. ~Idle(p) /\ job[p] = Renamed /\ Syncs(d)
    BY DEF Sync
  <1>2. /\ x \in Steps /\ \A g \in Needs(cmd[p], x) : Fact(p, g)
        /\ x[1] \in {"save", "clear", "ready"}
    BY <1>1, Finds, WritesOnly
  <1>3. /\ x \in {<<"save", "attempt">>, <<"save", "execution">>, <<"save", "pending">>,
                  <<"save", "active">>, <<"ready", "pending">>, <<"clear", "attempt">>,
                  <<"clear", "execution">>, <<"clear", "pending">>, <<"clear", "active">>}
    BY <1>2, StepForms DEF Steps, Plain
  <1>4. /\ d \in {"state", "profile"}
        /\ d = "profile" => \A c \in Cells \ {"attempt"} : disk'[c] = {file'[c]}
        /\ d = "state" => disk'["attempt"] = {file'["attempt"]}
        /\ file' = file /\ held'[p] = held[p] /\ (d = "profile" => rooted')
    <2>1. d \in {"state", "profile"}
      BY <1>3 DEF Directory
    <2>2. /\ \A c \in Cells \ {"attempt"} : Directory[c] = "profile"
          /\ Directory["attempt"] = "state" /\ "attempt" \in Cells
      BY StepForms DEF Directory
    <2> HIDE DEF d
    <2> QED
      BY <1>1, <2>1, <2>2, Syncing DEF Turns
  <1>5. CASE x = <<"save", "attempt">>
    <2>1. d = "state" /\ Gives(x) = {"over", "saved"}
      BY <1>5 DEF Directory, Gives
    <2>2. Fact(p, "state") /\ file["attempt"] # None
      BY <1>1, <1>2, <1>5 DEF Needs, Uses, IInv, Written
    <2>3. Fact(p, f)'
      BY <1>4, <2>1, <2>2 DEF Fact
    <2> QED
      BY <2>1, <2>3 DEF Known, Facts, StateFacts
  <1>6. CASE x = <<"save", "execution">>
    <2>1. d = "profile" /\ Gives(x) = {"over", "ours", "synced", "rooted"}
      BY <1>6 DEF Directory, Gives
    <2>2. Fact(p, "state") /\ Fact(p, "profile") /\ file["execution"] = file["attempt"]
      BY <1>1, <1>2, <1>6 DEF Needs, Uses, IInv, Written
    <2>3. Fact(p, f)'
      BY <1>4, <2>1, <2>2 DEF Fact, HasProfile
    <2> QED
      BY <2>1, <2>3 DEF Known, Facts, StateFacts, ProfileFacts
  <1>7. CASE x = <<"save", "pending">>
    <2>1. d = "profile" /\ Gives(x) = {"over", "begun", "synced", "settled", "rooted"}
      BY <1>7 DEF Directory, Gives
    <2>2. Fact(p, "profile") /\ file["pending"] = "kept"
      BY <1>1, <1>2, <1>7 DEF Needs, Uses, IInv, Written
    <2>3. disk'["pending"] = {"kept"}
      BY <1>4, <2>1, <2>2, StepForms
    <2>4. Fact(p, f)'
      BY <1>4, <2>1, <2>2, <2>3 DEF Fact, HasProfile, Settled
    <2> QED
      BY <2>1, <2>4 DEF Known, Facts, ProfileFacts
  <1>8. CASE x = <<"save", "active">>
    <2>1. d = "profile" /\ Gives(x) = {"over", "synced", "rooted"}
      BY <1>8 DEF Directory, Gives
    <2>2. Fact(p, "profile")
      BY <1>2, <1>8 DEF Needs, Uses
    <2>3. Fact(p, f)'
      BY <1>4, <2>1, <2>2 DEF Fact, HasProfile
    <2> QED
      BY <2>1, <2>3 DEF Known, Facts, ProfileFacts
  <1>9. CASE x = <<"ready", "pending">>
    <2>1. d = "profile" /\ Gives(x) = {"over", "ready", "synced", "rooted"}
      BY <1>9 DEF Directory, Gives
    <2>2. Fact(p, "profile") /\ file["pending"] = "ready"
      BY <1>1, <1>2, <1>9 DEF Needs, Uses, IInv, Written
    <2>3. Fact(p, f)'
      BY <1>4, <2>1, <2>2 DEF Fact, HasProfile
    <2> QED
      BY <2>1, <2>3 DEF Known, Facts, ProfileFacts
  <1>10. CASE x = <<"clear", "active">>
    <2>1. d = "profile" /\ Gives(x) = {"over", "withdrawn", "forgotten"}
      BY <1>10 DEF Directory, Gives
    <2>2. Fact(p, "profile") /\ file["active"] = None
      BY <1>1, <1>2, <1>10 DEF Needs, Uses, IInv, Written
    <2>3. disk'["active"] = {None}
      BY <1>4, <2>1, <2>2, StepForms
    <2>4. Fact(p, f)'
      BY <1>4, <2>1, <2>2, <2>3 DEF Fact, HasProfile, Forgotten
    <2> QED
      BY <2>1, <2>4 DEF Known, Facts, ProfileFacts
  <1>11. CASE x = <<"clear", "execution">>
    <2>1. d = "profile" /\ Gives(x) = {"over", "released"}
      BY <1>11 DEF Directory, Gives
    <2>2. Fact(p, "state") /\ file["execution"] = None
      BY <1>1, <1>2, <1>11 DEF Needs, Uses, IInv, Written
    <2>3. disk'["execution"] = {None}
      BY <1>4, <2>1, <2>2, StepForms
    <2>4. Fact(p, f)'
      BY <1>4, <2>1, <2>2, <2>3 DEF Fact, Unreserved
    <2> QED
      BY <2>1, <2>4 DEF Known, Facts, StateFacts
  <1>12. CASE x \in {<<"clear", "attempt">>, <<"clear", "pending">>}
    <2>1. Gives(x) = {"over"}
      BY <1>12 DEF Gives
    <2> QED
      BY <2>1 DEF Known, Fact, Facts
  <1> QED
    BY <1>3, <1>5, <1>6, <1>7, <1>8, <1>9, <1>10, <1>11, <1>12

\* A directory is synced: what its journals show is what is left of them.
LEMMA SyncKeeps ==
    ASSUME IInv, NEW p \in Procs, Sync(p)
    PROVE  IInv'
  <1> DEFINE x == Step(p)
             d == Directory[x[2]]
  <1>1. ~Idle(p) /\ job[p] = Renamed /\ Syncs(d) /\ Goes(p) /\ UNCHANGED <<tree, config>> /\ Fine
    BY DEF Sync
  <1>2. /\ x \in Steps /\ \A g \in Needs(cmd[p], x) : Fact(p, g)
        /\ x[1] \in {"save", "clear", "ready"}
    BY <1>1, Finds, WritesOnly
  <1>3. /\ x \in {<<"save", "attempt">>, <<"save", "execution">>, <<"save", "pending">>,
                  <<"save", "active">>, <<"ready", "pending">>, <<"clear", "attempt">>,
                  <<"clear", "execution">>, <<"clear", "pending">>, <<"clear", "active">>}
    BY <1>2, StepForms DEF Steps, Plain
  <1>4. /\ d \in {"state", "profile"}
        /\ d = "profile" => Fact(p, "profile")
        /\ d = "state" => Fact(p, "state")
    <2>1. CASE x[2] = "attempt"
      <3>1. "state" \in Needs(cmd[p], x)
        BY <1>3, <2>1 DEF Needs, Uses
      <3> QED
        BY <1>2, <2>1, <3>1 DEF Directory
    <2>2. CASE x[2] # "attempt"
      <3>1. "profile" \in Needs(cmd[p], x)
        BY <1>3, <2>2 DEF Needs, Uses
      <3>2. d = "profile"
        BY <1>3, <2>2 DEF Directory
      <3> QED
        BY <1>2, <3>1, <3>2
    <2> QED
      BY <2>1, <2>2
  <1> HIDE DEF d
  <1>5. Touches(p)
    <2>1. TypedWorld'
      BY <1>1, <1>4, Syncing DEF IInv, Typed, TypedWorld, config, tree, Fine
    <2>2. Lasts'
      BY <1>1, <1>4, Syncing DEF Lasts, ActiveLasts, PendingLasts, Stands, tree, IInv
    <2>3. /\ "attempt" \in Cells /\ Directory["attempt"] = "state"
          /\ \A c \in Cells \ {"attempt"} : Directory[c] = "profile"
      BY StepForms DEF Directory
    <2>4. CASE d = "profile"
      BY <1>1, <1>4, <2>1, <2>2, <2>3, <2>4, Syncing DEF Touches, Fact, config
    <2>5. CASE d = "state"
      BY <1>1, <1>4, <2>1, <2>2, <2>3, <2>5, Syncing DEF Touches, Fact, config, tree
    <2> QED
      BY <1>4, <2>4, <2>5
  <1>6. ASSUME Turns(p, Tail(todo[p])), NEW f \in After(Known(p), x) PROVE f \in Known(p)'
    <2>1. CASE f \in Gives(x)
      BY <1>6, <2>1, SyncGives
    <2>2. CASE f \notin Gives(x) /\ f \in {"clean", "protected", "homeless", "whole"}
      <3>1. Fact(p, f)
        BY <1>6, <2>2 DEF After, Known
      <3>2. Fact(p, f)'
        BY <1>1, <1>4, <1>6, <2>2, <3>1, Syncing DEF Fact, HasProfile, Turns, Turned, Protected, Whole,
           tree
      <3> QED
        BY <2>2, <3>2 DEF Known, Facts, ProfileFacts
    <2>3. CASE f \notin Gives(x) /\ f \notin {"clean", "protected", "homeless", "whole"}
      <3>1. f \in Known(p) /\ f # "inspected"
        BY <1>6, <2>3 DEF After, Breaks
      <3>2. x # <<"resume">>
        BY <1>2
      <3>3. Recovering(p) => Recovering(p)'
        BY <1>1, <1>6, <3>2, RecoveringLasts DEF Recovering, Turns
      <3> QED
        BY <1>1, <1>4, <1>6, <2>3, <3>1, <3>3, SyncKnow DEF Turns
    <2> QED
      BY <2>1, <2>2, <2>3
  <1> QED
    BY <1>1, <1>5, <1>6, Going

\* A file that is written shows what was written, and may be left as it was.
LEMMA SaveKeeps ==
    ASSUME IInv, NEW p \in Procs, Save(p)
    PROVE  IInv'
  <1> DEFINE x == Step(p)
             c == x[2]
  <1>1. /\ ~Idle(p) /\ x[1] \in {"save", "ready"} /\ AwaitsSync(p) /\ Fine
        /\ UNCHANGED <<relied, revived, abandoned, rooted, stopped, tree, config>>
    BY DEF Save, At
  <1>2. x \in Steps /\ \A g \in Needs(cmd[p], x) : g \in Known(p) /\ Fact(p, g)
    BY <1>1, Finds
  <1>3. x \in {<<"save", "attempt">>, <<"save", "execution">>, <<"save", "pending">>,
               <<"save", "active">>, <<"ready", "pending">>}
    BY <1>1, <1>2, StepForms DEF Steps, Plain
  <1>4. Cells = {"attempt", "pending", "execution", "active"}
    BY StepForms
  <1>5. PICK v \in Content(x) : Renames(p, c, v)
    BY DEF Save
  <1>6. /\ file' = [file EXCEPT ![c] = v] /\ disk' = [disk EXCEPT ![c] = @ \cup {v}]
    BY <1>5 DEF Renames, Synced
  <1>7. TypedWorld
    BY DEF IInv, Typed
  <1>8. /\ c \in Cells /\ file'[c] = v /\ disk'[c] = disk[c] \cup {v}
        /\ \A b \in Cells : b # c => file'[b] = file[b] /\ disk'[b] = disk[b]
    BY <1>3, <1>4, <1>6, <1>7 DEF TypedWorld
  <1>9. /\ Apart(p) /\ Stays(p) /\ TypedProcesses' /\ job'[p] = Renamed
    BY <1>1 DEF AwaitsSync, IInv, Typed, TypedProcesses, Apart, SameProcess, Stays
  <1>10. /\ x = <<"save", "attempt">> => Fact(p, "state") /\ v \in Attempts
         /\ x = <<"save", "execution">> =>
              Fact(p, "state") /\ Fact(p, "profile") /\ Fact(p, "saved") /\ v = file["attempt"]
         /\ x = <<"save", "pending">> => Fact(p, "profile") /\ v = "kept"
         /\ x = <<"save", "active">> =>
              Fact(p, "profile") /\ Fact(p, "whole") /\ Fact(p, "rooted") /\ v = "kept"
         /\ x = <<"ready", "pending">> =>
              Fact(p, "profile") /\ Fact(p, "whole") /\ Fact(p, "rooted") /\ v = "ready"
         /\ Fact(p, "alone")
    <2>1. v \in Content(x)
      OBVIOUS
    <2>2. "alone" \in Needs(cmd[p], x)
      BY <1>3 DEF Needs
    <2>3. CASE x = <<"save", "attempt">>
      BY <1>2, <2>1, <2>2, <2>3 DEF Needs, Uses, Content
    <2>4. CASE x = <<"save", "execution">>
      BY <1>2, <2>1, <2>2, <2>4 DEF Needs, Uses, Content
    <2>5. CASE x = <<"save", "pending">>
      BY <1>2, <2>1, <2>2, <2>5 DEF Needs, Uses, Content
    <2>6. CASE x = <<"save", "active">>
      BY <1>2, <2>1, <2>2, <2>6 DEF Needs, Uses, Content
    <2>7. CASE x = <<"ready", "pending">>
      BY <1>2, <2>1, <2>2, <2>7 DEF Needs, Uses, Content
    <2> QED
      BY <1>3, <2>3, <2>4, <2>5, <2>6, <2>7
  <1> HIDE DEF x, c
  <1>11. TypedWorld'
    <2>1. v \in Attempts \cup {None, "kept", "ready"}
      BY <1>3, <1>7, <1>10 DEF TypedWorld
    <2>2. /\ file' \in [Cells -> Attempts \cup {None, "kept", "ready"}]
          /\ disk' \in [Cells -> SUBSET (Attempts \cup {None, "kept", "ready"})]
      BY <1>6, <1>7, <1>8, <2>1 DEF TypedWorld
    <2>3. /\ c = "attempt" => v \in Attempts \cup {None}
          /\ c = "execution" => v \in Attempts \cup {None}
          /\ c = "pending" => v \in {"kept", "ready", None}
          /\ c = "active" => v \in {"kept", None}
      BY <1>3, <1>7, <1>10 DEF TypedWorld, x, c
    <2>4. /\ file'["attempt"] \in Attempts \cup {None}
          /\ file'["execution"] \in Attempts \cup {None}
          /\ file'["pending"] \in {"kept", "ready", None}
          /\ file'["active"] \in {"kept", None}
      BY <1>4, <1>7, <1>8, <2>3 DEF TypedWorld
    <2>5. /\ disk'["attempt"] \subseteq Attempts \cup {None}
          /\ disk'["execution"] \subseteq Attempts \cup {None}
      BY <1>4, <1>7, <1>8, <2>3 DEF TypedWorld
    <2>6. /\ disk'["pending"] \subseteq {"kept", "ready", None}
          /\ disk'["active"] \subseteq {"kept", None}
      BY <1>4, <1>7, <1>8, <2>3 DEF TypedWorld
    <2>7. \A b \in Cells : file'[b] \in disk'[b]
      BY <1>7, <1>8 DEF TypedWorld
    <2> QED
      BY <1>1, <1>7, <2>2, <2>4, <2>5, <2>6, <2>7 DEF TypedWorld, tree, config, Fine
  <1>12. Lasts'
    <2>1. ReservationLasts'
      <3>1. CASE c = "attempt"
        <4>1. v \in Attempts /\ None \notin Attempts
          BY <1>3, <1>10, <3>1, StateFilesAssumption DEF x, c
        <4> QED
          BY <1>1, <1>4, <1>8, <3>1, <4>1 DEF IInv, ReservationLasts, Unreserved
      <3>2. CASE c = "execution"
        <4>1. None \notin disk["attempt"]
          <5>1. x = <<"save", "execution">>
            BY <1>3, <3>2 DEF c
          <5> QED
            BY <1>10, <5>1 DEF Fact
        <4> QED
          BY <1>4, <1>8, <3>2, <4>1 DEF ReservationLasts
      <3>3. CASE c \notin {"attempt", "execution"}
        BY <1>1, <1>4, <1>8, <3>3 DEF IInv, ReservationLasts, Unreserved
      <3> QED
        BY <3>1, <3>2, <3>3
    <2>2. ActiveLasts'
      <3>1. CASE c = "active"
        <4>1. Stands \/ Turned
          <5>1. x = <<"save", "active">>
            BY <1>3, <3>1 DEF c
          <5> QED
            BY <1>10, <5>1 DEF Fact, Stands
        <4> QED
          BY <1>1, <4>1 DEF ActiveLasts, Stands, Forgotten, Turned, tree
      <3>2. CASE c # "active"
        BY <1>1, <1>4, <1>8, <3>2 DEF IInv, ActiveLasts, Stands, Forgotten, Turned, tree
      <3> QED
        BY <3>1, <3>2
    <2>3. PendingLasts'
      <3>1. CASE x = <<"ready", "pending">>
        <4>1. Stands \/ Turned
          BY <1>10, <3>1 DEF Fact, Stands
        <4> QED
          BY <1>1, <4>1 DEF PendingLasts, Stands, Settled, Turned, tree
      <3>2. CASE x = <<"save", "pending">>
        <4>1. c = "pending" /\ v = "kept"
          BY <1>10, <3>2 DEF c
        <4> QED
          BY <1>1, <1>8, <4>1 DEF IInv, PendingLasts, Stands, Settled, Turned, tree
      <3>3. CASE c # "pending"
        BY <1>1, <1>4, <1>8, <3>3 DEF IInv, PendingLasts, Stands, Settled, Turned, tree
      <3> QED
        BY <1>3, <3>1, <3>2, <3>3 DEF c
    <2> QED
      BY <2>1, <2>2, <2>3 DEF Lasts
  <1>13. Touches(p)
    <2>1. CASE c = "attempt"
      <3>1. Fact(p, "state")
        BY <1>3, <1>10, <2>1 DEF c
      <3> QED
        BY <1>1, <1>8, <1>11, <1>12, <2>1, <3>1 DEF Touches, Fact, tree, config
    <2>2. CASE c = "execution"
      <3>1. Fact(p, "state") /\ Fact(p, "profile")
        BY <1>3, <1>10, <2>2 DEF c
      <3> QED
        BY <1>1, <1>11, <1>12, <3>1 DEF Touches, Fact, config
    <2>3. CASE c \in {"pending", "active"}
      <3>1. Fact(p, "profile")
        BY <1>3, <1>10, <2>3 DEF c
      <3> QED
        BY <1>1, <1>4, <1>8, <1>11, <1>12, <2>3, <3>1 DEF Touches, Fact, Unreserved, config
    <2> QED
      BY <1>4, <1>8, <2>1, <2>2, <2>3
  <1>14. Written(p)'
    <2>1. x = Step(p)' /\ ~Idle(p)'
      BY <1>1, <1>9 DEF Step, x, Stays, Idle
    <2>2. CASE x = <<"save", "attempt">>
      <3>1. file'["attempt"] # None
        BY <1>8, <1>10, <2>2, StateFilesAssumption DEF c
      <3> QED
        BY <2>1, <2>2, <3>1 DEF Written
    <2>3. CASE x = <<"save", "execution">>
      <3>1. file'["execution"] = file'["attempt"]
        BY <1>4, <1>8, <1>10, <2>3 DEF c
      <3> QED
        BY <2>1, <2>3, <3>1 DEF Written
    <2>4. CASE x = <<"save", "pending">>
      <3>1. file'["pending"] = "kept"
        BY <1>8, <1>10, <2>4 DEF c
      <3> QED
        BY <2>1, <2>4, <3>1 DEF Written
    <2>5. CASE x = <<"save", "active">>
      BY <2>1, <2>5 DEF Written
    <2>6. CASE x = <<"ready", "pending">>
      <3>1. file'["pending"] = "ready"
        BY <1>8, <1>10, <2>6 DEF c
      <3> QED
        BY <2>1, <2>6, <3>1 DEF Written
    <2> QED
      BY <1>3, <2>2, <2>3, <2>4, <2>5, <2>6
  <1>15. ASSUME NEW f \in Known(p), f \notin Breaks(x) PROVE f \in Known(p)'
    <2>1. Fact(p, f) /\ f \in Facts /\ f \notin {"over", "inspected"}
      BY <1>15 DEF Known, Breaks
    <2>2. Fact(p, f)'
      <3>1. CASE f = "spoilable"
        <4>1. x # <<"ready", "pending">>
          BY <1>15, <3>1 DEF Breaks
        <4>2. Settled => Settled'
          <5>1. CASE x = <<"save", "pending">>
            <6>1. c = "pending" /\ v = "kept"
              BY <1>10, <5>1 DEF c
            <6> QED
              BY <1>1, <1>8, <6>1 DEF Settled, Turned
          <5>2. CASE c # "pending"
            BY <1>1, <1>4, <1>8, <5>2 DEF Settled, Turned
          <5> QED
            BY <1>3, <4>1, <5>1, <5>2 DEF c
        <4> QED
          BY <1>9, <2>1, <3>1, <4>2 DEF Fact, HasProfile, Stays, Recovering
      <3>2. CASE f \in {"clean", "protected", "homeless", "whole", "rooted"}
        BY <1>1, <1>9, <2>1, <3>2 DEF Fact, HasProfile, Stays, Turned, Protected, Whole, tree
      <3>3. CASE f \in {"launch", "state", "root", "rootShared", "profile", "asking", "alone",
                        "named", "never"}
        BY <1>9, <2>1, <3>3 DEF Fact, HasProfile, Stays
      <3>4. CASE f \in {"resolved", "saved", "released", "ours", "synced"}
        <4>1. CASE x = <<"save", "attempt">>
          <5>1. f \notin {"resolved", "saved", "ours"} /\ c = "attempt"
            BY <1>15, <4>1 DEF Breaks, c
          <5> QED
            BY <1>1, <1>4, <1>8, <1>9, <2>1, <3>4, <5>1 DEF Fact, HasProfile, Stays, Unreserved
        <4>2. CASE x = <<"save", "execution">>
          <5>1. f = "saved" /\ c = "execution"
            BY <1>15, <3>4, <4>2 DEF Breaks, c
          <5> QED
            BY <1>4, <1>8, <1>9, <2>1, <5>1 DEF Fact, Stays
        <4>3. CASE x \in {<<"save", "pending">>, <<"ready", "pending">>}
          <5>1. f \in {"saved", "released", "ours"} /\ c = "pending"
            BY <1>15, <3>4, <4>3 DEF Breaks, c
          <5> QED
            BY <1>1, <1>4, <1>8, <1>9, <2>1, <5>1 DEF Fact, HasProfile, Stays, Unreserved
        <4>4. CASE x = <<"save", "active">>
          <5>1. f \in {"resolved", "saved", "released", "ours"} /\ c = "active"
            BY <1>15, <3>4, <4>4 DEF Breaks, c
          <5> QED
            BY <1>1, <1>4, <1>8, <1>9, <2>1, <5>1 DEF Fact, HasProfile, Stays, Unreserved, Absent
        <4> QED
          BY <1>3, <4>1, <4>2, <4>3, <4>4
      <3>5. CASE f \in {"withdrawn", "begun", "ready", "forgotten", "settled"}
        <4>1. CASE c \notin {"pending", "active"}
          BY <1>1, <1>4, <1>8, <1>9, <2>1, <3>5, <4>1 DEF Fact, HasProfile, Stays, Forgotten, Settled,
             Turned
        <4>2. CASE x = <<"save", "active">>
          <5>1. f \in {"begun", "ready", "settled"} /\ c = "active"
            BY <1>15, <3>5, <4>2 DEF Breaks, c
          <5> QED
            BY <1>1, <1>4, <1>8, <1>9, <2>1, <5>1 DEF Fact, HasProfile, Stays, Settled, Turned
        <4>3. CASE x = <<"save", "pending">>
          <5>1. f \in {"withdrawn", "begun", "forgotten", "settled"} /\ c = "pending" /\ v = "kept"
            BY <1>10, <1>15, <3>5, <4>3 DEF Breaks, c
          <5> QED
            BY <1>1, <1>4, <1>8, <1>9, <2>1, <5>1 DEF Fact, HasProfile, Stays, Settled, Forgotten, Turned
        <4>4. CASE x = <<"ready", "pending">>
          <5>1. f \in {"withdrawn", "ready", "forgotten"} /\ c = "pending" /\ v = "ready"
            BY <1>10, <1>15, <3>5, <4>4 DEF Breaks, c
          <5> QED
            BY <1>1, <1>4, <1>8, <1>9, <2>1, <5>1 DEF Fact, HasProfile, Stays, Forgotten, Turned
        <4> QED
          BY <1>3, <4>1, <4>2, <4>3, <4>4 DEF c
      <3> QED
        BY <2>1, <3>1, <3>2, <3>3, <3>4, <3>5 DEF Facts, ProfileFacts, StateFacts
    <2> QED
      BY <2>1, <2>2 DEF Known
  <1>16. Needs(cmd[p], x) \subseteq Known(p)'
    <2>1. Needs(cmd[p], x) \cap Breaks(x) = {}
      <3>1. Needs(cmd[p], x) \subseteq {"alone", "state", "profile", "saved", "whole", "rooted", "never"}
        BY <1>3 DEF Needs, Uses
      <3>2. x = <<"save", "attempt">> => "saved" \notin Needs(cmd[p], x)
        BY DEF Needs, Uses
      <3>3. Breaks(x) \cap {"alone", "state", "profile", "whole", "rooted", "never"} = {}
        BY <1>3 DEF Breaks
      <3>4. x # <<"save", "attempt">> => "saved" \notin Breaks(x)
        BY <1>3 DEF Breaks
      <3> QED
        BY <3>1, <3>2, <3>3, <3>4
    <2> QED
      BY <1>2, <1>15, <2>1 DEF x
  <1>17. Known(p) \ Breaks(x) \subseteq Known(p)'
    BY <1>15
  <1> QED
    BY <1>1, <1>9, <1>13, <1>14, <1>16, <1>17, Staying DEF x

\* A file that is not there is left alone; one that is goes, but may come back.
LEMMA ClearKeeps ==
    ASSUME IInv, NEW p \in Procs, Clear(p)
    PROVE  IInv'
  <1> DEFINE x == Step(p)
             c == x[2]
  <1>1. ~Idle(p) /\ x[1] = "clear" /\ Fine /\ UNCHANGED <<revived, rooted, stopped, tree, config>>
    BY DEF Clear, At
  <1>2. x \in Steps /\ \A g \in Needs(cmd[p], x) : g \in Known(p) /\ Fact(p, g)
    BY <1>1, Finds
  <1>3. x \in {<<"clear", "attempt">>, <<"clear", "execution">>, <<"clear", "pending">>,
               <<"clear", "active">>}
    BY <1>1, <1>2, StepForms DEF Steps, Plain
  <1>4. Cells = {"attempt", "pending", "execution", "active"} /\ c \in Cells
    BY <1>3, StepForms
  <1>5. TypedWorld
    BY DEF IInv, Typed
  <1>6. /\ Fact(p, "alone")
        /\ x = <<"clear", "attempt">> => Fact(p, "state")
        /\ x = <<"clear", "attempt">> /\ cmd[p] # "discard" => Fact(p, "released")
        /\ x = <<"clear", "execution">> => Fact(p, "state") /\ Fact(p, "profile")
        /\ x = <<"clear", "pending">> => Fact(p, "profile")
        /\ x = <<"clear", "active">> => Fact(p, "profile")
    <2>1. CASE x = <<"clear", "attempt">>
      BY <1>2, <2>1 DEF Needs, Uses
    <2>2. CASE x = <<"clear", "execution">>
      BY <1>2, <2>2 DEF Needs, Uses
    <2>3. CASE x = <<"clear", "pending">>
      BY <1>2, <2>3 DEF Needs, Uses
    <2>4. CASE x = <<"clear", "active">>
      BY <1>2, <2>4 DEF Needs, Uses
    <2> QED
      BY <1>3, <2>1, <2>2, <2>3, <2>4
  <1>7. CASE file[c] = None
    <2>1. Goes(p) /\ Relies(c) /\ UNCHANGED <<file, disk, abandoned>>
      BY <1>7 DEF Clear
    <2>2. /\ Reads /\ Touches(p)
          /\ c # "attempt" => disk'[c] = {file'[c]} \/ c \in relied'
      BY <1>1, <1>4, <2>1, ReliesReads
    <2>3. ASSUME Turns(p, Tail(todo[p])) PROVE Gives(x) \subseteq Known(p)'
      <3>1. CASE x = <<"clear", "active">>
        <4>1. Gives(x) = {"over", "withdrawn", "forgotten"} /\ c = "active"
          BY <3>1 DEF Gives
        <4>2. \A f \in Gives(x) : Fact(p, f)'
          BY <1>6, <1>7, <2>1, <2>2, <2>3, <3>1, <4>1 DEF Fact, HasProfile, Turns, Forgotten
        <4> QED
          BY <4>1, <4>2 DEF Known, Facts, ProfileFacts
      <3>2. CASE x = <<"clear", "execution">>
        <4>1. Gives(x) = {"over", "released"} /\ c = "execution"
          BY <3>2 DEF Gives
        <4>2. \A f \in Gives(x) : Fact(p, f)'
          BY <1>6, <1>7, <2>1, <2>2, <2>3, <3>2, <4>1 DEF Fact, Turns, Unreserved
        <4> QED
          BY <4>1, <4>2 DEF Known, Facts, StateFacts
      <3>3. CASE x \in {<<"clear", "attempt">>, <<"clear", "pending">>}
        <4>1. Gives(x) = {"over"}
          BY <3>3 DEF Gives
        <4> QED
          BY <4>1 DEF Known, Fact, Facts
      <3> QED
        BY <1>3, <3>1, <3>2, <3>3
    <2>4. x # <<"resume">>
      BY <1>1
    <2> QED
      BY <1>1, <2>1, <2>2, <2>3, <2>4, Passing
  <1>8. CASE file[c] # None
    <2>1. /\ AwaitsSync(p) /\ file' = [file EXCEPT ![c] = None]
          /\ disk' = [disk EXCEPT ![c] = @ \cup {None}] /\ UNCHANGED relied
          /\ abandoned' = (abandoned \/ (cmd[p] = "discard" /\ disk["execution"] # {None}))
      BY <1>8 DEF Clear
    <2>2. /\ file'[c] = None /\ disk'[c] = disk[c] \cup {None} /\ file[c] \in disk[c]
          /\ \A b \in Cells : b # c => file'[b] = file[b] /\ disk'[b] = disk[b]
      BY <1>4, <1>5, <2>1 DEF TypedWorld
    <2>3. /\ Apart(p) /\ Stays(p) /\ TypedProcesses' /\ job'[p] = Renamed
      BY <2>1 DEF AwaitsSync, IInv, Typed, TypedProcesses, Apart, SameProcess, Stays
    <2> HIDE DEF x, c
    <2>4. TypedWorld'
      <3>1. /\ file' \in [Cells -> Attempts \cup {None, "kept", "ready"}]
            /\ disk' \in [Cells -> SUBSET (Attempts \cup {None, "kept", "ready"})]
        BY <1>4, <1>5, <2>1, <2>2 DEF TypedWorld
      <3>2. /\ file'["attempt"] \in Attempts \cup {None}
            /\ file'["execution"] \in Attempts \cup {None}
            /\ file'["pending"] \in {"kept", "ready", None}
            /\ file'["active"] \in {"kept", None}
        BY <1>4, <1>5, <2>2 DEF TypedWorld
      <3>3. /\ disk'["attempt"] \subseteq Attempts \cup {None}
            /\ disk'["execution"] \subseteq Attempts \cup {None}
        BY <1>4, <1>5, <2>2 DEF TypedWorld
      <3>4. /\ disk'["pending"] \subseteq {"kept", "ready", None}
            /\ disk'["active"] \subseteq {"kept", None}
        BY <1>4, <1>5, <2>2 DEF TypedWorld
      <3>5. \A b \in Cells : file'[b] \in disk'[b]
        BY <1>5, <2>2 DEF TypedWorld
      <3>6. abandoned' \in BOOLEAN
        BY <2>1
      <3> QED
        BY <1>1, <1>5, <2>1, <3>1, <3>2, <3>3, <3>4, <3>5, <3>6 DEF TypedWorld, tree, config, Fine
    <2>5. Lasts'
      <3>1. ReservationLasts'
        <4>1. CASE c = "attempt"
          <5>1. x = <<"clear", "attempt">>
            BY <1>3, <4>1 DEF c
          <5>2. disk'["execution"] = disk["execution"] /\ file'["execution"] = file["execution"]
            BY <1>4, <2>2, <4>1
          <5>3. CASE cmd[p] = "discard"
            BY <2>1, <5>2, <5>3 DEF ReservationLasts
          <5>4. CASE cmd[p] # "discard"
            BY <1>6, <2>1, <5>1, <5>2, <5>4 DEF ReservationLasts, Fact, Unreserved
          <5> QED
            BY <5>3, <5>4
        <4>2. CASE c = "execution"
          <5>1. disk["execution"] # {None} /\ ~Unreserved
            BY <1>8, <2>2, <4>2 DEF Unreserved
          <5>2. disk'["attempt"] = disk["attempt"]
            BY <1>4, <2>2, <4>2
          <5> QED
            BY <1>1, <2>1, <5>1, <5>2 DEF IInv, ReservationLasts
        <4>3. CASE c \notin {"attempt", "execution"}
          BY <1>1, <1>4, <2>1, <2>2, <4>3 DEF IInv, ReservationLasts, Unreserved
        <4> QED
          BY <4>1, <4>2, <4>3
      <3>2. ActiveLasts'
        <4>1. CASE c = "active"
          BY <1>1, <1>8, <2>2, <4>1 DEF IInv, ActiveLasts, Stands, Forgotten, Turned, tree
        <4>2. CASE c # "active"
          BY <1>1, <1>4, <2>1, <2>2, <4>2 DEF IInv, ActiveLasts, Stands, Forgotten, Turned, tree
        <4> QED
          BY <4>1, <4>2
      <3>3. PendingLasts'
        <4>1. CASE c = "pending"
          BY <1>1, <2>1, <2>2, <4>1, StateFilesAssumption DEF IInv, PendingLasts, Stands, Settled, Turned, tree
        <4>2. CASE c # "pending"
          BY <1>1, <1>4, <2>1, <2>2, <4>2 DEF IInv, PendingLasts, Stands, Settled, Turned, tree
        <4> QED
          BY <4>1, <4>2
      <3> QED
        BY <3>1, <3>2, <3>3 DEF Lasts
    <2>6. Touches(p)
      <3>1. CASE c = "attempt"
        <4>1. Fact(p, "state")
          BY <1>3, <1>6, <3>1 DEF c
        <4> QED
          BY <1>1, <2>1, <2>2, <2>4, <2>5, <3>1, <4>1 DEF Touches, Fact, tree, config
      <3>2. CASE c = "execution"
        <4>1. Fact(p, "state") /\ Fact(p, "profile")
          BY <1>3, <1>6, <3>2 DEF c
        <4> QED
          BY <1>1, <2>4, <2>5, <4>1 DEF Touches, Fact, config
      <3>3. CASE c \in {"pending", "active"}
        <4>1. Fact(p, "profile")
          BY <1>3, <1>6, <3>3 DEF c
        <4> QED
          BY <1>1, <1>4, <2>1, <2>2, <2>4, <2>5, <3>3, <4>1 DEF Touches, Fact, Unreserved, config
      <3> QED
        BY <1>4, <3>1, <3>2, <3>3
    <2>7. Written(p)'
      <3>1. x = Step(p)' /\ ~Idle(p)' /\ x[2] = c
        BY <1>1, <2>3 DEF Step, x, c, Stays, Idle
      <3> QED
        BY <1>3, <2>2, <3>1 DEF Written
    <2>8. ASSUME NEW f \in Known(p), f \notin Breaks(x) PROVE f \in Known(p)'
      <3>1. Fact(p, f) /\ f \in Facts /\ f \notin {"over", "inspected"}
        BY <2>8 DEF Known, Breaks
      <3>2. Fact(p, f)'
        <4>1. CASE f = "spoilable"
          <5>1. Settled => Settled'
            BY <1>1, <1>4, <2>1, <2>2, StateFilesAssumption DEF Settled, Turned
          <5> QED
            BY <2>3, <3>1, <4>1, <5>1 DEF Fact, HasProfile, Stays, Recovering
        <4>2. CASE f \in {"clean", "protected", "homeless", "whole", "rooted"}
          BY <1>1, <2>3, <3>1, <4>2 DEF Fact, HasProfile, Stays, Turned, Protected, Whole, tree
        <4>3. CASE f \in {"launch", "state", "root", "rootShared", "profile", "asking", "alone",
                          "named", "never"}
          BY <2>3, <3>1, <4>3 DEF Fact, HasProfile, Stays
        <4>4. CASE f = "resolved"
          BY <1>4, <2>2, <2>3, <3>1, <4>4 DEF Fact, Absent, Stays
        <4>5. CASE f = "saved"
          <5>1. c # "attempt"
            BY <1>3, <2>8, <4>5 DEF Breaks, c
          <5> QED
            BY <1>4, <2>2, <2>3, <3>1, <4>5, <5>1 DEF Fact, Stays
        <4>6. CASE f = "released"
          <5>1. Unreserved => Unreserved'
            BY <1>4, <1>8, <2>1, <2>2 DEF Unreserved
          <5> QED
            BY <2>3, <3>1, <4>6, <5>1 DEF Fact, Stays
        <4>7. CASE f = "ours"
          <5>1. c \notin {"attempt", "execution"}
            BY <1>3, <2>8, <4>7 DEF Breaks, c
          <5> QED
            BY <1>4, <2>2, <2>3, <3>1, <4>7, <5>1 DEF Fact, HasProfile, Stays
        <4>8. CASE f = "synced"
          <5>1. c = "attempt"
            BY <1>3, <2>8, <4>8 DEF Breaks, c
          <5> QED
            BY <1>4, <2>2, <2>3, <3>1, <4>8, <5>1 DEF Fact, HasProfile, Stays
        <4>9. CASE f \in {"begun", "ready"}
          <5>1. c # "pending"
            BY <1>3, <2>8, <4>9 DEF Breaks, c
          <5> QED
            BY <1>4, <2>2, <2>3, <3>1, <4>9, <5>1 DEF Fact, HasProfile, Stays
        <4>10. CASE f \in {"withdrawn", "forgotten"}
          <5>1. Forgotten => Forgotten'
            BY <1>1, <1>4, <1>8, <2>1, <2>2 DEF Forgotten, Turned
          <5> QED
            BY <1>4, <2>2, <2>3, <3>1, <4>10, <5>1 DEF Fact, HasProfile, Stays
        <4>11. CASE f = "settled"
          <5>1. Settled => Settled'
            BY <1>1, <1>4, <2>1, <2>2, StateFilesAssumption DEF Settled, Turned
          <5> QED
            BY <2>3, <3>1, <4>11, <5>1 DEF Fact, HasProfile, Stays
        <4> QED
          BY <3>1, <4>1, <4>2, <4>3, <4>4, <4>5, <4>6, <4>7, <4>8, <4>9, <4>10, <4>11
             DEF Facts, ProfileFacts, StateFacts
      <3> QED
        BY <3>1, <3>2 DEF Known
    <2>9. Needs(cmd[p], x) \subseteq Known(p)'
      <3>1. Needs(cmd[p], x) \cap Breaks(x) = {}
        <4>1. Needs(cmd[p], x) \subseteq {"alone", "state", "profile", "released", "never"}
          BY <1>3 DEF Needs, Uses
        <4>2. Breaks(x) \cap {"alone", "state", "profile", "released", "never"} = {}
          BY <1>3 DEF Breaks
        <4> QED
          BY <4>1, <4>2
      <3> QED
        BY <1>2, <2>8, <3>1 DEF x
    <2>10. Known(p) \ Breaks(x) \subseteq Known(p)'
      BY <2>8
    <2> QED
      BY <1>1, <2>3, <2>6, <2>7, <2>9, <2>10, Staying DEF x
  <1> QED
    BY <1>7, <1>8

-----------------------------------------------------------------------------
(* Starts and power losses *)

\* A list starts with what its first part starts with.
LEMMA HeadStays ==
    ASSUME NEW u \in Seq(Steps), NEW v \in Seq(Steps), u # <<>>
    PROVE  u \o v \in Seq(Steps) /\ u \o v # <<>> /\ Head(u \o v) = Head(u)
  OBVIOUS

\* A command starts on the list of its kind, with the lock that it begins with.
LEMMA StartKeeps ==
    ASSUME IInv, NEW p \in Procs, NEW c \in Commands, NEW r \in Releases,
           NEW direct \in BOOLEAN, Start(p, c, r, direct)
    PROVE  IInv'
  <1> DEFINE steps == CASE c = "setup" -> Setup
                        [] direct      -> Body(c)
                        [] OTHER       -> Launched(c)
             l == Head(steps)[2]
             A == IF direct THEN {"alone"} ELSE {"alone", "asking", "named"}
  <1>1. /\ Idle(p) /\ Free(l) /\ (c = "setup" => ~direct)
        /\ cmd' = [cmd EXCEPT ![p] = c]
        /\ version' = [version EXCEPT ![p] = IF direct THEN None ELSE r]
        /\ stage' = [stage EXCEPT ![p] = IF direct THEN "direct" ELSE "asking"]
        /\ todo' = [todo EXCEPT ![p] = Tail(steps)]
        /\ held' = [held EXCEPT ![p] = {l}]
        /\ UNCHANGED <<job, journals, tree, config>> /\ Fine
    BY Zenon DEF Start
  <1>2. A \in SUBSET Facts
    BY DEF Facts
  <1>3. Leads(c, A, steps, {"over"})
    <2>1. CASE c = "setup"
      <3>1. {"alone", "asking", "named"} \subseteq A
        BY <1>1, <2>1
      <3>2. steps = Setup
        BY <1>1, <2>1
      <3> HIDE DEF A, steps
      <3> QED
        BY <1>2, <2>1, <3>1, <3>2, SettingUp
    <2>2. CASE c # "setup" /\ direct
      <3>1. c \in {"run", "discard", "operation"} /\ {"alone"} \subseteq A
        BY <2>2 DEF Commands
      <3> HIDE DEF A
      <3> QED
        BY <1>2, <2>2, <3>1, Entering
    <2>3. CASE c # "setup" /\ ~direct
      <3>1. c \in {"run", "discard", "operation"} /\ {"alone", "asking"} \subseteq A
        BY <2>3 DEF Commands
      <3> HIDE DEF A
      <3> QED
        BY <1>2, <2>3, <3>1, Launching
    <2> QED
      BY <2>1, <2>2, <2>3
  <1>4. Head(steps) \in {<<"take", "launch">>, <<"take", "state">>, <<"take", "rootShared">>}
        /\ steps # <<>>
    <2>1. \A d, body : body \in Seq(Steps) /\ d \in Conditions =>
             Guarded(d, body) \in Seq(Steps) /\ Head(Guarded(d, body)) = <<"take", "launch">>
             /\ Guarded(d, body) # <<>>
      <3> SUFFICES ASSUME NEW d \in Conditions, NEW body \in Seq(Steps)
                   PROVE  Guarded(d, body) \in Seq(Steps)
                          /\ Head(Guarded(d, body)) = <<"take", "launch">>
                          /\ Guarded(d, body) # <<>>
        OBVIOUS
      <3> DEFINE first == <<<<"take", "launch">>, <<"take", "state">>, <<"take", "root">>,
                            <<"recover">>, <<"require", d>>>>
                 last == <<<<"drop", {"root", "state", "launch"}>>>>
      <3>1. first \in Seq(Steps) /\ last \in Seq(Steps) /\ Head(first) = <<"take", "launch">>
            /\ first # <<>>
        BY StepForms DEF Plain, Locks, Dropped
      <3> HIDE DEF first, last
      <3>2. /\ first \o body \in Seq(Steps) /\ first \o body # <<>>
            /\ Head(first \o body) = <<"take", "launch">>
        BY <3>1, HeadStays
      <3>3. /\ first \o body \o last \in Seq(Steps)
            /\ Head(first \o body \o last) = <<"take", "launch">>
            /\ first \o body \o last # <<>>
        BY <3>1, <3>2, HeadStays
      <3> QED
        BY <3>3 DEF Guarded, first, last
    <2>2. CASE c = "setup"
      <3> DEFINE g == Guarded("resolved", <<>>)
                 h == Guarded("resolved", Activation)
      <3>1. "resolved" \in Conditions /\ <<>> \in Seq(Steps) /\ Activation \in Seq(Steps)
        BY StepForms DEF Conditions, Activation, Plain
      <3>2. /\ g \in Seq(Steps) /\ Head(g) = <<"take", "launch">> /\ g # <<>> /\ h \in Seq(Steps)
        BY <2>1, <3>1
      <3> HIDE DEF g, h
      <3>3. Head(g \o h) = <<"take", "launch">> /\ g \o h # <<>>
        BY <3>2
      <3>4. steps = g \o h
        BY <1>1, <2>2 DEF Setup, g, h
      <3> HIDE DEF steps
      <3> QED
        BY <3>3, <3>4
    <2>3. CASE c # "setup" /\ direct
      <3>1. CASE c = "run"
        BY <2>3, <3>1 DEF Body
      <3>2. CASE c = "discard"
        BY <2>3, <3>2 DEF Body
      <3>3. CASE c = "operation"
        BY <2>3, <3>3 DEF Body
      <3> QED
        BY <2>3, <3>1, <3>2, <3>3 DEF Commands
    <2>4. CASE c # "setup" /\ ~direct
      <3> DEFINE g == Guarded(Admission(c), <<>>)
                 n == <<<<"take", "launch">>, <<"dispatch">>>>
                 b == Body(c)
      <3>1. Admission(c) \in Conditions /\ <<>> \in Seq(Steps)
        BY DEF Admission, Conditions
      <3>2. g \in Seq(Steps) /\ Head(g) = <<"take", "launch">> /\ g # <<>>
        BY <2>1, <3>1
      <3>3. n \in Seq(Steps)
        BY StepForms DEF Plain, Locks
      <3>4. b \in Seq(Steps)
        <4>1. c \in {"run", "discard", "operation"}
          BY <2>4 DEF Commands
        <4>2. Leads(c, {"alone"}, b, {"over"})
          BY <4>1, Entering DEF Facts
        <4> QED
          BY <4>2 DEF Leads
      <3> HIDE DEF g, n, b
      <3>5. Head(g \o n \o b) = <<"take", "launch">> /\ g \o n \o b # <<>>
        BY <3>2, <3>3, <3>4
      <3>6. steps = g \o n \o b
        BY <2>4 DEF Launched, g, n, b
      <3> HIDE DEF steps
      <3> QED
        BY <3>5, <3>6
    <2> QED
      BY <2>2, <2>3, <2>4
  <1> HIDE DEF steps
  <1>5. l \in {"launch", "state", "rootShared"}
    BY <1>4
  <1>6. /\ cmd'[p] = c /\ version'[p] = (IF direct THEN None ELSE r)
        /\ stage'[p] = (IF direct THEN "direct" ELSE "asking")
        /\ todo'[p] = Tail(steps) /\ held'[p] = {l} /\ job'[p] = job[p]
    BY <1>1 DEF IInv, Typed, TypedProcesses
  <1>7. steps \in Seq(Steps) /\ Tail(steps) \in Seq(Steps)
    <2>1. steps \in Seq(Steps)
      BY <1>3 DEF Leads
    <2> QED
      BY <1>4, <2>1
  <1>8. Apart(p)
    BY <1>1 DEF IInv, Typed, TypedProcesses, Apart, SameProcess
  <1>9. TypedProcesses'
    BY <1>1, <1>5, <1>7 DEF IInv, Typed, TypedProcesses, Locks
  <1>10. Reads /\ Touches(p)
    BY <1>1, WorldStays
  <1>11. Compatible'
    <2>1. ASSUME NEW q \in Procs, q # p
          PROVE  /\ held[q] \cap Conflicts(l) = {}
                 /\ \A m \in held[q] : l \notin Conflicts(m)
      <3>1. held[q] \cap Conflicts(l) = {} /\ held[q] \subseteq Locks
        BY <1>1 DEF Free, IInv, Typed, TypedProcesses
      <3> HIDE DEF l
      <3> QED
        BY <1>5, <3>1 DEF Conflicts, Locks
    <2>2. \A q \in Procs : q # p => held'[q] = held[q]
      BY <1>8 DEF Apart, SameProcess
    <2> HIDE DEF l
    <2> QED
      BY <1>6, <2>1, <2>2 DEF Compatible, IInv
  <1>12. After(A, Head(steps)) \subseteq Known(p)'
    <2>1. None # r /\ None \notin Releases
      BY StateFilesAssumption
    <2>2. Gives(Head(steps)) \subseteq {l}
      BY <1>4 DEF Gives
    <2>3. \A f \in A : Fact(p, f)'
      BY <1>5, <1>6, <2>1 DEF Fact
    <2>4. ASSUME l \in Gives(Head(steps)) PROVE Fact(p, l)' /\ l \in Facts
      <3> HIDE DEF l
      <3> QED
        BY <1>5, <1>6 DEF Fact, Facts, StateFacts
    <2> QED
      BY <1>2, <2>2, <2>3, <2>4 DEF After, Known
  <1>13. Leads(c, Known(p)', Tail(steps), {"over"})
    BY <1>3, <1>4, <1>12, LeadsTail
  <1>14. Runs(p)'
    <2>1. c # None
      BY StateFilesAssumption
    <2>2. Tail(steps) # <<>>
      <3>1. Head(steps)[1] = "take"
        BY <1>4
      <3> QED
        BY <1>3, <1>4, <3>1, LeadsOver
    <2> QED
      BY <1>6, <1>13, <2>1, <2>2 DEF Runs, Idle
  <1>15. Written(p)'
    BY <1>1, <1>6 DEF IInv, Written
  <1>16. Dispatched(p)'
    BY <1>6 DEF Dispatched
  <1> QED
    BY <1>8, <1>9, <1>10, <1>11, <1>14, <1>15, <1>16, StepKeeps

\* Whatever ran is gone.
LEMMA NothingRuns ==
    ASSUME TypedProcesses, Gone(Procs)
    PROVE  /\ TypedProcesses' /\ Compatible'
           /\ \A p \in Procs : Runs(p)' /\ Written(p)' /\ Dispatched(p)'
  <1>1. \A p \in Procs : Ended(p) /\ version'[p] = None
    BY DEF Gone, Ended
  <1>2. TypedProcesses'
    <2>1. <<>> \in Seq(Steps)
      OBVIOUS
    <2>2. todo' \in [Procs -> Seq(Steps)]
      BY <2>1 DEF Gone, TypedProcesses
    <2> QED
      BY <2>2 DEF Gone, TypedProcesses
  <1>3. Compatible'
    BY <1>1 DEF Ended, Compatible
  <1>4. \A p \in Procs : Runs(p)' /\ Written(p)' /\ Dispatched(p)'
    BY <1>1, StateFilesAssumption DEF Ended, Runs, Written, Dispatched, Idle
  <1> QED
    BY <1>2, <1>3, <1>4

\* A power loss ends every process, and shows nothing yet of what it left.
LEMMA PowerLossKeeps ==
    ASSUME IInv, PowerLoss
    PROVE  IInv'
  <1>1. /\ losses < MaxLosses /\ losses' = losses + 1 /\ faults' = 0 /\ off' = TRUE
        /\ Gone(Procs) /\ UNCHANGED <<journals, tree, config>>
    BY DEF PowerLoss
  <1>2. TypedWorld'
    BY <1>1, StateFilesAssumption DEF IInv, Typed, TypedWorld, journals, tree, config
  <1>3. ReservationLasts' /\ ActiveLasts' /\ PendingLasts'
    BY <1>1 DEF IInv, ReservationLasts, ActiveLasts, PendingLasts, Stands, Unreserved,
                Forgotten, Settled, Turned, Whole, journals, tree
  <1> QED
    BY <1>1, <1>2, <1>3, NothingRuns DEF IInv, Typed

\* When the power is back each journal shows a version that no sync has ruled
\* out, and a home that had its name loses entries but none that the code
\* removed comes back.
LEMMA PowerBackKeeps ==
    ASSUME IInv, PowerBack
    PROVE  IInv'
  <1>1. PICK left \in [attempt : disk["attempt"], pending : disk["pending"],
                       execution : disk["execution"], active : disk["active"]] :
          /\ file' = left /\ disk' = [c \in Cells |-> {left[c]}]
          /\ revived' = revived \cup {c \in relied : left[c] # file[c]}
    BY DEF PowerBack
  <1>2. /\ Gone(Procs) /\ relied' = {} /\ rooted' = TRUE /\ off' = FALSE
        /\ UNCHANGED <<abandoned, stopped, config, faults, losses>>
    BY DEF PowerBack
  <1>3. TypedWorld /\ Cells = {"attempt", "pending", "execution", "active"}
    BY StepForms DEF IInv, Typed
  <1>4. /\ left["attempt"] \in disk["attempt"] /\ left["pending"] \in disk["pending"]
        /\ left["execution"] \in disk["execution"] /\ left["active"] \in disk["active"]
        /\ DOMAIN left = Cells
    BY <1>3
  <1>5. \A c \in Cells : left[c] \in disk[c] /\ file'[c] = left[c] /\ disk'[c] = {left[c]}
    BY <1>1, <1>3, <1>4
  <1>6. /\ home' = None \/ home' \in Tree
        /\ scratch' \in {"clean", "dirty"}
    BY DEF PowerBack, Survivors
  <1>7. Stands => Stands'
    <2> SUFFICES ASSUME Stands PROVE Whole(home)'
      BY <1>2 DEF Stands
    <2>1. home # None /\ home' \in Survivors(home)
      BY DEF PowerBack, Stands, Whole
    <2>2. home' \in Tree /\ \A e \in Entries : home'[e] # "gone"
      BY <2>1 DEF Survivors, Stands, Whole
    <2>3. None \notin Tree
      BY StateFilesAssumption
    <2> QED
      BY <2>2, <2>3 DEF Whole
  <1>8. TypedWorld'
    <2>1. \A c \in Cells : left[c] \in Attempts \cup {None, "kept", "ready"}
      BY <1>3, <1>5 DEF TypedWorld
    <2>2. left \in [Cells -> Attempts \cup {None, "kept", "ready"}]
      BY <1>1, <1>3, <2>1
    <2>3. disk' \in [Cells -> SUBSET (Attempts \cup {None, "kept", "ready"})]
      <3>1. \A c \in Cells : {left[c]} \in SUBSET (Attempts \cup {None, "kept", "ready"})
        BY <2>1
      <3> QED
        BY <1>1, <3>1
    <2>4. /\ file'["attempt"] \in Attempts \cup {None} /\ file'["execution"] \in Attempts \cup {None}
          /\ file'["pending"] \in {"kept", "ready", None} /\ file'["active"] \in {"kept", None}
      BY <1>3, <1>5 DEF TypedWorld
    <2>5. /\ disk'["attempt"] \subseteq Attempts \cup {None}
          /\ disk'["execution"] \subseteq Attempts \cup {None}
          /\ disk'["pending"] \subseteq {"kept", "ready", None}
          /\ disk'["active"] \subseteq {"kept", None}
      BY <1>3, <1>5, <2>4
    <2>6. \A c \in Cells : file'[c] \in disk'[c]
      BY <1>5
    <2>7. relied' \subseteq Cells /\ revived' \subseteq Cells
      BY <1>1, <1>2, <1>3 DEF TypedWorld
    <2> QED
      BY <1>1, <1>2, <1>3, <1>6, <2>2, <2>3, <2>4, <2>5, <2>6, <2>7 DEF TypedWorld, config
  <1>9. Turned => Turned'
    BY <1>1 DEF Turned
  <1>10. \A c \in relied : file'[c] = file[c] \/ c \in revived'
    BY <1>1
  <1>11. ReservationLasts'
    <2> SUFFICES ASSUME disk'["execution"] # {None}
                 PROVE  None \notin disk'["attempt"] \/ abandoned' \/ "execution" \in revived'
      BY DEF ReservationLasts
    <2>1. file'["execution"] # None /\ disk["execution"] # {None}
      BY <1>3, <1>5
    <2>2. CASE None \notin disk["attempt"]
      BY <1>3, <1>5, <2>2
    <2>3. CASE abandoned \/ "execution" \in revived
      BY <1>1, <1>2, <2>3
    <2>4. CASE Unreserved
      BY <1>10, <2>1, <2>4 DEF Unreserved
    <2> QED
      BY <2>1, <2>2, <2>3, <2>4 DEF IInv, ReservationLasts
  <1>12. ActiveLasts'
    <2>1. CASE Stands
      BY <1>7, <2>1 DEF ActiveLasts
    <2>2. CASE Forgotten
      <3>1. CASE disk["active"] = {None}
        BY <1>3, <1>5, <3>1 DEF ActiveLasts, Forgotten
      <3>2. CASE Turned
        BY <1>9, <3>2 DEF ActiveLasts, Forgotten
      <3>3. CASE "active" \in relied /\ file["active"] = None
        BY <1>3, <1>5, <1>10, <3>3 DEF ActiveLasts, Forgotten, Turned
      <3> QED
        BY <2>2, <3>1, <3>2, <3>3 DEF Forgotten
    <2> QED
      BY <2>1, <2>2 DEF IInv, ActiveLasts
  <1>13. PendingLasts'
    <2>1. CASE Stands
      BY <1>7, <2>1 DEF PendingLasts
    <2>2. CASE Settled
      <3>1. CASE "ready" \notin disk["pending"]
        BY <1>3, <1>5, <3>1 DEF PendingLasts, Settled
      <3>2. CASE stopped
        BY <1>2, <3>2 DEF PendingLasts, Settled
      <3>3. CASE Turned
        BY <1>9, <3>3 DEF PendingLasts, Settled
      <3>4. CASE "pending" \in relied /\ file["pending"] # "ready"
        BY <1>3, <1>5, <1>10, <3>4 DEF PendingLasts, Settled, Turned
      <3> QED
        BY <2>2, <3>1, <3>2, <3>3, <3>4 DEF Settled
    <2> QED
      BY <2>1, <2>2 DEF IInv, PendingLasts
  <1> QED
    BY <1>2, <1>8, <1>11, <1>12, <1>13, NothingRuns DEF IInv, Typed

-----------------------------------------------------------------------------
(* The invariant *)

\* At first nothing runs and every journal is absent, on the disk too.
LEMMA Starting ==
    ASSUME Init
    PROVE  IInv
  <1>1. Cells = {"attempt", "pending", "execution", "active"}
    BY StepForms
  <1>2. TypedProcesses
    <2>1. <<>> \in Seq(Steps)
      OBVIOUS
    <2>2. todo \in [Procs -> Seq(Steps)]
      BY <2>1 DEF Init
    <2> QED
      BY <2>2 DEF Init, TypedProcesses
  <1>3. TypedWorld
    <2>1. \A c \in Cells : file[c] = None /\ disk[c] = {None}
      BY DEF Init
    <2>2. /\ file \in [Cells -> Attempts \cup {None, "kept", "ready"}]
          /\ disk \in [Cells -> SUBSET (Attempts \cup {None, "kept", "ready"})]
      BY DEF Init
    <2>3. /\ relied \subseteq Cells /\ revived \subseteq Cells
          /\ abandoned \in BOOLEAN /\ stopped \in BOOLEAN /\ rooted \in BOOLEAN
          /\ off \in BOOLEAN /\ home = None /\ scratch = "clean" /\ release \in Releases /\ undo = None
      BY DEF Init
    <2>4. faults \in 0 .. MaxFaults /\ losses \in 0 .. MaxLosses
      BY StateFilesAssumption DEF Init
    <2> QED
      BY <1>1, <2>1, <2>2, <2>3, <2>4 DEF TypedWorld
  <1>4. Compatible
    BY DEF Init, Compatible
  <1>5. \A p \in Procs : Runs(p) /\ Written(p) /\ Dispatched(p)
    BY StateFilesAssumption DEF Init, Runs, Written, Dispatched, Idle
  <1>6. ReservationLasts /\ ActiveLasts /\ PendingLasts
    <2>1. Forgotten
      BY <1>1 DEF Init, Forgotten
    <2>2. Settled
      BY <1>1, StateFilesAssumption DEF Init, Settled
    <2> QED
      BY <1>1, <2>1, <2>2 DEF Init, ReservationLasts, ActiveLasts, PendingLasts, Stands
  <1> QED
    BY <1>2, <1>3, <1>4, <1>5, <1>6 DEF IInv, Typed

\* Every step of a process keeps it.
LEMMA WorksKeeps ==
    ASSUME IInv, NEW p \in Procs, Works(p)
    PROVE  IInv'
  <1>1. CASE Take(p) \/ Drop(p) \/ Require(p) \/ Dispatch(p) \/ Load(p) \/ Release(p)
    BY <1>1, TakeKeeps, DropKeeps, RequireKeeps, DispatchKeeps, LoadKeeps, ReleaseStepKeeps, Zenon
  <1>2. CASE ResumeOperation(p) \/ Begin(p) \/ Complete(p) \/ Save(p) \/ Clear(p) \/ Sync(p)
             \/ Fails(p)
    BY <1>2, ResumeKeeps, BeginKeeps, CompleteKeeps, SaveKeeps, ClearKeeps, SyncKeeps,
       FailsKeeps, Zenon
  <1>3. CASE Make(p) \/ Native(p) \/ Prune(p) \/ Inspect(p) \/ Protect(p) \/ Verify(p)
             \/ Empty(p) \/ RemoveHome(p)
    BY <1>3, MakeKeeps, NativeKeeps, PruneKeeps, InspectKeeps, ProtectKeeps, VerifyKeeps,
       EmptyKeeps, RemoveHomeKeeps, Zenon
  <1>4. CASE Recover(p) \/ Mark(p) \/ Install(p) \/ Unmark(p)
    BY <1>4, ReleaseKeeps, Zenon
  <1> QED
    BY <1>1, <1>2, <1>3, <1>4, Zenon DEF Works

\* Every step keeps it.
LEMMA NextKeeps ==
    ASSUME IInv, [Next]_vars
    PROVE  IInv'
  <1>1. CASE UNCHANGED vars
    <2>1. /\ UNCHANGED <<cmd, stage, version, todo, job, held>>
          /\ UNCHANGED <<file, disk, relied, revived, abandoned, rooted, stopped>>
          /\ UNCHANGED <<home, scratch, release, undo, off, faults, losses>>
      BY <1>1 DEF vars, process, journals, tree, config
    <2>2. Typed' /\ Compatible'
      BY <2>1 DEF IInv, Typed, TypedProcesses, TypedWorld, Compatible
    <2>3. \A p \in Procs : Runs(p)' /\ Written(p)' /\ Dispatched(p)'
      <3> TAKE p \in Procs
      <3>1. Known(p)' = Known(p)
        BY <2>1 DEF Known, Fact, HasProfile, Absent, Unreserved, Forgotten, Settled, Turned,
                    Protected, Whole, Recovering
      <3> QED
        BY <2>1, <3>1 DEF IInv, Runs, Written, Dispatched, Idle, Step
    <2>4. ReservationLasts' /\ ActiveLasts' /\ PendingLasts'
      BY <2>1 DEF IInv, ReservationLasts, ActiveLasts, PendingLasts, Stands, Unreserved, Forgotten,
                  Settled, Turned, Whole
    <2> QED
      BY <2>2, <2>3, <2>4 DEF IInv
  <1>2. CASE PowerLoss \/ PowerBack
    BY <1>2, PowerLossKeeps, PowerBackKeeps
  <1>3. ASSUME NEW p \in Procs, Works(p) PROVE IInv'
    BY <1>3, WorksKeeps
  <1>4. ASSUME NEW p \in Procs, Kill(p) PROVE IInv'
    BY <1>4, KillKeeps
  <1>5. ASSUME NEW p \in Procs, NEW e \in Entries, Straggle(p, e) PROVE IInv'
    BY <1>5, StraggleKeeps
  <1>6. ASSUME NEW p \in Procs, NEW c \in Commands, NEW r \in Releases,
               NEW direct \in BOOLEAN, Start(p, c, r, direct)
        PROVE  IInv'
    BY <1>6, StartKeeps
  <1> QED
    BY <1>1, <1>2, <1>3, <1>4, <1>5, <1>6, Zenon DEF Next

\* Whoever starts, fails or is killed, and whenever the power goes, every
\* process still finds what the rest of its list assumes.
THEOREM Invariance == Spec => []IInv
  <1>1. Init => IInv
    BY Starting
  <1>2. IInv /\ [Next]_vars => IInv'
    BY NextKeeps
  <1> QED
    BY <1>1, <1>2, PTL DEF Spec

-----------------------------------------------------------------------------
(* What the runs check *)

\* The files tell one story: a reservation has its attempt and an identity a
\* whole home, but for what a discard orphaned or a power loss brought back.
LEMMA TellOneStory ==
    ASSUME IInv
    PROVE  JournalsConsistent
  <1>1. Cells = {"attempt", "pending", "execution", "active"}
    BY StepForms
  <1>2. TypeOK
    <2>1. ASSUME NEW p \in Procs
          PROVE  /\ cmd[p] \in Commands \cup {None} /\ version[p] \in Releases \cup {None}
                 /\ stage[p] \in {"off", "asking", "direct", "dispatched"}
                 /\ stage[p] = "off" <=> Idle(p)
                 /\ todo[p] = <<>> <=> Idle(p)
                 /\ job[p] \in {None, Renamed} \/ job[p] \in Tree
                 /\ \A q \in Procs \ {p} : \A l \in held[q] : held[p] \cap Conflicts(l) = {}
      BY DEF IInv, Typed, TypedProcesses, Compatible, Runs
    <2> QED
      BY <1>1, <2>1 DEF IInv, Typed, TypedWorld, TypeOK
  <1>3. ReservationHasAttempt
    <2>1. /\ file["execution"] \in disk["execution"] /\ file["attempt"] \in disk["attempt"]
          /\ ReservationLasts
      BY <1>1 DEF IInv, Typed, TypedWorld
    <2> QED
      BY <2>1 DEF ReservationLasts, Unreserved, ReservationHasAttempt
  <1>4. ActiveHasHome
    <2>1. file["active"] \in disk["active"] /\ ActiveLasts
      BY <1>1 DEF IInv, Typed, TypedWorld
    <2> QED
      BY <2>1 DEF ActiveLasts, Stands, Forgotten, Turned, Whole, ActiveHasHome
  <1> QED
    BY <1>2, <1>3, <1>4 DEF JournalsConsistent

\* Setup has the root for itself while a native process shares it, and what it
\* saw resolved stays so while it has the state root as well.
LEMMA ChangesAlone ==
    ASSUME IInv
    PROVE  ReleaseIsStable
  <1>1. ActivatesWhenResolved
    <2> SUFFICES ASSUME NEW p \in Procs, At(p, "install") \/ At(p, "unmark")
                 PROVE  /\ Absent({"attempt", "pending", "execution"})
                        /\ \A q \in Procs : ~At(q, "native")
      BY DEF ActivatesWhenResolved
    <2>1. Fact(p, "resolved")
      BY Finds DEF At, Needs, Uses
    <2>2. "root" \in held[p] /\ Absent({"attempt", "pending", "execution"})
      BY <2>1 DEF Fact
    <2>3. ASSUME NEW q \in Procs, At(q, "native") PROVE FALSE
      <3>1. Fact(q, "profile")
        BY <2>3, Finds DEF At, Needs, Uses
      <3>2. "rootShared" \in held[q] /\ p # q
        BY <2>3, <3>1 DEF Fact, HasProfile, At
      <3> QED
        BY <2>2, <3>2 DEF IInv, Compatible, Conflicts
    <2> QED
      BY <2>2, <2>3
  <1>2. LaunchIsCurrent
    BY DEF IInv, Dispatched, LaunchIsCurrent
  <1> QED
    BY <1>1, <1>2 DEF ReleaseIsStable

\* The outline has the journals synced and the home verified before the step
\* that starts a native process, and nothing in between breaks either.
LEMMA StartsReady ==
    ASSUME IInv
    PROVE  NativeStartsReady
  <1> SUFFICES ASSUME NEW p \in Procs, At(p, "native")
               PROVE  /\ IF cmd[p] = "run"
                           THEN /\ file["attempt"] # None
                                /\ \A c \in {"attempt", "execution"} : disk[c] = {file["attempt"]}
                           ELSE disk["pending"] = {"kept"} /\ disk["active"] = {None}
                      /\ home # None /\ scratch = "clean"
                      /\ \A e \in Entries : home[e] \notin {"loose", "unsafe"}
    BY DEF NativeStartsReady, JournaledBeforeNative, NativeStartsProtected
  <1>1. ~Idle(p) /\ Step(p)[1] = "native" /\ Cells = {"attempt", "pending", "execution", "active"}
    BY StepForms DEF At
  <1>2. Fact(p, "clean") /\ Fact(p, "protected") /\ Fact(p, "synced")
    BY <1>1, Finds DEF Needs, Uses
  <1>3. home # None /\ scratch = "clean" /\ \A e \in Entries : home[e] \in {"kept", "gone", "lost"}
    BY <1>2 DEF Fact, Protected
  <1>4. disk["execution"] = {file["execution"]} /\ disk["pending"] = {file["pending"]}
        /\ disk["active"] = {file["active"]}
    BY <1>1, <1>2 DEF Fact
  <1>5. CASE cmd[p] = "run"
    <2>1. Fact(p, "saved") /\ Fact(p, "ours")
      BY <1>1, <1>5, Finds DEF Needs, Uses
    <2> QED
      BY <1>3, <1>4, <1>5, <2>1 DEF Fact
  <1>6. CASE cmd[p] # "run"
    <2>1. Fact(p, "begun") /\ Fact(p, "withdrawn")
      BY <1>1, <1>6, Finds DEF Needs, Uses
    <2> QED
      BY <1>3, <1>4, <1>6, <2>1 DEF Fact
  <1> QED
    BY <1>5, <1>6

\* Whoever has the session root is about to let it go, and has the profile as
\* well: another process that wants it does not have the profile.
LEMMA SessionIsFree ==
    ASSUME IInv
    PROVE  NeverWaits
  <1> SUFFICES ASSUME NEW p \in Procs, Doing(p, <<"take", "session">>), NEW q \in Procs,
                      "session" \in held[q]
               PROVE  FALSE
    BY DEF NeverWaits, Free, Conflicts
  <1>1. ~Idle(p) /\ Step(p) = <<"take", "session">>
    BY DEF Doing
  <1>2. Fact(p, "profile") /\ Fact(p, "alone")
    BY <1>1, Finds DEF Needs, Uses
  <1>3. p # q /\ "profile" \in held[p]
    BY <1>2 DEF Fact, HasProfile
  <1>4. ~Idle(q)
    BY DEF IInv, Runs
  <1>5. Step(q) = <<"drop", {"session"}>>
    <2>1. Step(q) # <<"drop", {"session"}>> => Fact(q, "alone")
      BY <1>4, Finds DEF Needs
    <2> QED
      BY <2>1 DEF Fact
  <1>6. Fact(q, "profile")
    BY <1>4, <1>5, Finds DEF Needs, Uses
  <1>7. "profile" \in held[q]
    BY <1>6 DEF Fact, HasProfile
  <1> QED
    BY <1>3, <1>7 DEF IInv, Compatible, Conflicts

\* The home changes in six steps; the one that protects does so entry by entry
\* of an inspected tree, and the others leave none protected that was not.
LEMMA ChangesInspected ==
    ASSUME IInv, [Next]_vars, NEW e \in Entries, Protects(e)
    PROVE  /\ home[e] = "loose"
           /\ \E p \in Procs : /\ At(p, "protect")
                               /\ \A f \in Entries : job[p][f] # "unsafe"
  <1>1. home # None /\ home' # None /\ home[e] # home'[e] /\ home' # home
        /\ home[e] \in {"loose", "unsafe"} /\ home'[e] = "kept"
    BY DEF Protects
  <1>2. home \in Tree
    BY <1>1 DEF IInv, Typed, TypedWorld
  <1>3. PICK p \in Procs :
          Make(p) \/ Native(p) \/ Protect(p) \/ Empty(p) \/ RemoveHome(p)
          \/ \E g \in Entries : Straggle(p, g)
    <2>1. ~UNCHANGED vars /\ ~PowerLoss /\ ~PowerBack
      BY <1>1 DEF vars, tree, PowerLoss, PowerBack, Protects
    <2>2. ASSUME NEW p \in Procs, NEW c \in Commands, NEW r \in Releases,
                 NEW direct \in BOOLEAN, Start(p, c, r, direct)
          PROVE  FALSE
      <3>1. UNCHANGED tree
        BY <2>2, Zenon DEF Start
      <3> QED
        BY <1>1, <3>1 DEF tree
    <2>3. ASSUME NEW p \in Procs, Kill(p) PROVE FALSE
      BY <1>1, <2>3 DEF Kill, tree
    <2>4. ASSUME NEW p \in Procs, Works(p)
          PROVE  Make(p) \/ Native(p) \/ Protect(p) \/ Empty(p) \/ RemoveHome(p)
      <3>1. UNCHANGED home => FALSE
        BY <1>1
      <3>2. CASE Take(p) \/ Drop(p) \/ Require(p) \/ Dispatch(p) \/ Load(p) \/ Release(p)
        BY <1>1, <3>2 DEF Take, Drop, Require, Dispatch, Load, Release, tree
      <3>3. CASE ResumeOperation(p) \/ Begin(p) \/ Complete(p) \/ Save(p) \/ Clear(p)
                 \/ Sync(p) \/ Fails(p)
        BY <1>1, <3>3 DEF ResumeOperation, Begin, Complete, Save, Clear, Sync, Fails, tree
      <3>4. CASE Prune(p) \/ Inspect(p) \/ Verify(p) \/ Recover(p) \/ Mark(p) \/ Install(p)
                 \/ Unmark(p)
        BY <1>1, <3>4 DEF Prune, Inspect, Verify, Recover, Mark, Install, Unmark, tree
      <3> QED
        BY <2>4, <3>2, <3>3, <3>4, Zenon DEF Works
    <2> QED
      BY <2>1, <2>2, <2>3, <2>4, Zenon DEF Next
  <1>4. CASE Make(p)
    <2>1. Fact(p, "homeless")
      BY <1>4, Finds DEF Make, At, Needs, Uses
    <2> QED
      BY <1>1, <2>1 DEF Fact
  <1>5. CASE Native(p)
    BY <1>1, <1>5 DEF Native
  <1>6. CASE Protect(p)
    <2> DEFINE left == {g \in Entries : job[p][g] = "loose"}
               m == Min(left)
    <2>1. Fact(p, "inspected") /\ At(p, "protect")
      BY <1>6, Finds DEF Protect, At, Needs, Uses
    <2>2. left # {} /\ home[m] = job[p][m] /\ home' = [home EXCEPT ![m] = "kept"]
      BY <1>1, <1>6 DEF Protect, tree
    <2>3. m \in left
      BY <2>2, MinIsIn
    <2> HIDE DEF m
    <2>4. e = m
      BY <1>1, <1>2, <2>2 DEF Tree
    <2> QED
      BY <2>1, <2>2, <2>3, <2>4 DEF Fact
  <1>7. CASE Empty(p)
    <2> DEFINE m == Min({g \in Entries : home # None /\ home[g] \notin {"gone", "lost"}})
    <2>1. home' = [home EXCEPT ![m] = "gone"]
      BY <1>1, <1>7 DEF Empty
    <2> HIDE DEF m
    <2> QED
      BY <1>1, <1>2, <2>1 DEF Tree
  <1>8. CASE RemoveHome(p)
    BY <1>1, <1>8 DEF RemoveHome
  <1>9. ASSUME NEW g \in Entries, Straggle(p, g) PROVE FALSE
    BY <1>1, <1>2, <1>9 DEF Straggle, Tree
  <1> QED
    BY <1>3, <1>4, <1>5, <1>6, <1>7, <1>8, <1>9

\* Journals, reservation, identity and home agree after any kill, failed call
\* and power loss.
THEOREM FilesAgree == Spec => []JournalsConsistent
  BY Invariance, TellOneStory, PTL

\* The release in force changes only while nothing waits for recovery and no
\* native process runs, and under no command that was dispatched.
THEOREM ReleaseChangesAlone == Spec => []ReleaseIsStable
  BY Invariance, ChangesAlone, PTL

\* A native process starts on journals that outlast a power loss, on a home
\* that is protected and on a clean scratch.
THEOREM NativesStartReady == Spec => []NativeStartsReady
  BY Invariance, StartsReady, PTL

\* No command ever waits for another one: they cannot wait for each other.
THEOREM NobodyWaits == Spec => []NeverWaits
  BY Invariance, SessionIsFree, PTL

\* Permissions change only on what the inspection of a whole tree accepted.
THEOREM OnlyInspectedIsChanged == Spec => OnlyInspectedChanges
  <1>1. IInv /\ [Next]_vars =>
          [\A e \in Entries : Protects(e) =>
              /\ home[e] = "loose"
              /\ \E p \in Procs : /\ At(p, "protect")
                                  /\ \A f \in Entries : job[p][f] # "unsafe"]_vars
    BY ChangesInspected
  <1> QED
    BY <1>1, Invariance, PTL DEF Spec, OnlyInspectedChanges
=============================================================================
