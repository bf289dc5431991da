--------------------------- MODULE SandboxCustody ---------------------------
(***************************************************************************)
(* What the supervisor promises about sandboxes, without how it keeps the  *)
(* promise.  At most one attempt is in custody.  A sandbox is placed only  *)
(* for the attempt in custody, custody ends only when its sandbox is gone, *)
(* and an attempt is reported stopped only when it has no sandbox.  An     *)
(* operator may abandon the attempt in custody, and may lose its sandbox.  *)
(***************************************************************************)
CONSTANTS Attempts, NoAttempt

VARIABLES custody,    \* the attempt the runner answers for
          sandboxes,  \* the attempts that have a sandbox, or may still get one
          released,   \* the attempts reported stopped
          lost        \* the attempts an operator abandoned

vars == <<custody, sandboxes, released, lost>>

Init == /\ custody = NoAttempt
        /\ sandboxes = {} /\ released = {} /\ lost = {}

\* An attempt that cannot be taken durably may be reported stopped at once.
Take(a) == /\ custody = NoAttempt /\ a \notin sandboxes \cup released
           /\ custody' = a
           /\ released' \in {released, released \cup {a}}
           /\ UNCHANGED <<sandboxes, lost>>

Place(a) == /\ custody = a /\ a \notin released
            /\ sandboxes' = sandboxes \cup {a}
            /\ UNCHANGED <<custody, released, lost>>

Remove == /\ \E s \in SUBSET sandboxes : sandboxes' = sandboxes \ s
          /\ UNCHANGED <<custody, released, lost>>

Release(a) == /\ a \notin sandboxes
              /\ released' = released \cup {a}
              /\ UNCHANGED <<custody, sandboxes, lost>>

Yield == /\ custody \notin sandboxes
         /\ custody' = NoAttempt
         /\ UNCHANGED <<sandboxes, released, lost>>

\* Reported stopped or not, with its sandbox or without, the attempt is lost.
Abandon == /\ custody # NoAttempt
           /\ custody' = NoAttempt
           /\ lost' = lost \cup {custody}
           /\ sandboxes' \in {sandboxes, sandboxes \ {custody}}
           /\ released' \in {released, released \cup {custody}}

\* An abandoned attempt whose sandbox was confirmed gone is not lost.
Settle == /\ custody # NoAttempt
          /\ custody' = NoAttempt
          /\ sandboxes' = sandboxes \ {custody}
          /\ released' \in {released, released \cup {custody}}
          /\ UNCHANGED lost

Next == \/ \E a \in Attempts : Take(a) \/ Place(a) \/ Release(a)
        \/ Remove \/ Yield \/ Abandon \/ Settle

Spec == Init /\ [][Next]_vars
=============================================================================
