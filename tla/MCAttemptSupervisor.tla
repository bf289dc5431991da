------------------------ MODULE MCAttemptSupervisor ------------------------
(***************************************************************************)
(* Instances of AttemptSupervisor for TLC.  Attempts are model values and  *)
(* interchangeable: no action compares two of them.                        *)
(***************************************************************************)
EXTENDS AttemptSupervisorInvariant, TLC

CONSTANTS a1, a2

OneAttempt  == {a1}
TwoAttempts == {a1, a2}
Symmetry    == Permutations(TwoAttempts)
=============================================================================
