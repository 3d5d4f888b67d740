----------------------------- MODULE MCLifecycle -----------------------------
(***************************************************************************)
(* Small instances of Lifecycle: c1 controls the scheduler, c2 only stops  *)
(* it or runs its job.                                                     *)
(***************************************************************************)
EXTENDS Lifecycle, TLC

CONSTANTS c1, c2

TwoExecs == 1 .. 2

ControlAndStop == (c1 :> {"Start", "StopJobs", "Shutdown"}) @@ (c2 :> {"StopJobs"})

RestartOnly == c1 :> {"Start", "StopJobs"}

HastyCallers ==
  (c1 :> {"Start"}) @@ (c2 :> {"StopJobs", "RunNow"})

StartAndRunNow == (c1 :> {"Start"}) @@ (c2 :> {"RunNow"})

Symmetry == Permutations(Ticks)

=============================================================================
