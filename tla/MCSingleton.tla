----------------------------- MODULE MCSingleton -----------------------------
(***************************************************************************)
(* Small instances of Singleton: dispatches that overlap need two          *)
(* goroutines besides the one that is running, and a race needs a second   *)
(* runner.                                                                 *)
(***************************************************************************)
EXTENDS Singleton, TLC

CONSTANTS d1, d2, d3, r1, r2

ByTimer ==
  [triggers |-> {"timer"}, versions |-> 1, starts |-> 1, timeouts |-> TRUE]
ByHand == [ByTimer EXCEPT !.triggers = {"timer", "runNow"}, !.timeouts = FALSE]
Updated == [ByHand EXCEPT !.versions = 2]
Restarted == [ByTimer EXCEPT !.starts = 2]

OnlyByTimer == {ByTimer}
AlsoByHand == {ByHand}
UpdatedOrRestarted == {Updated, Restarted}

Symmetry == Permutations(Dispatchers) \cup Permutations(Runners)

=============================================================================
