--------------------------- MODULE ProfileCustody ---------------------------
(***************************************************************************)
(* What the runner promises about a credential home, without how it keeps  *)
(* the promise.  One owner at a time, an operation or the execution, and   *)
(* only what the owner started mounts the home; custody passes on when     *)
(* nothing of the owner mounts it or may still come to mount it.           *)
(***************************************************************************)
CONSTANTS Owners, NoOwner

VARIABLES owner,   \* who answers for the home
          users    \* the owners with a container that mounts it, or may yet

vars == <<owner, users>>

Init == owner = NoOwner /\ users = {}

Acquire == /\ owner = NoOwner /\ users = {}
           /\ owner' \in Owners /\ users' \in {{}, {owner'}}
Enter   == /\ owner # NoOwner
           /\ users' = {owner} /\ UNCHANGED owner
Leave   == users' = {} /\ UNCHANGED owner
Release == users = {} /\ owner' = NoOwner /\ UNCHANGED users

Next == Acquire \/ Enter \/ Leave \/ Release

Spec == Init /\ [][Next]_vars
=============================================================================
