------------------------------- MODULE GitRefs -------------------------------
(***************************************************************************)
(* What the loops over a git ref share (src/adapters/git/git-refs.ts): the *)
(* processes that run them, and an update-ref that moves the ref and then  *)
(* fails.  Its re-read finds the ref moved, which reads as a loss.         *)
(***************************************************************************)
EXTENDS Integers

CONSTANTS
  Process,
  MaxFaults   \* bound: landings whose update-ref reports a failure

VARIABLE faults   \* unreported landings so far

Unreported ==
  /\ faults < MaxFaults
  /\ faults' = faults + 1

=============================================================================
