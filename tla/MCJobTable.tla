----------------------------- MODULE MCJobTable -----------------------------
(***************************************************************************)
(* Small instances of JobTable.                                            *)
(***************************************************************************)
EXTENDS JobTable, TLC

(* Schedules: every n instants, a list of instants, and a faulty custom    *)
(* Cron that returns its argument.                                         *)
Every(n) == [t \in 0 .. Horizon |-> IF t + n <= Horizon THEN t + n ELSE 0]

AtTimes(S) ==
  [t \in 0 .. Horizon |->
    IF \E u \in S : u > t
    THEN CHOOSE u \in S : u > t /\ \A v \in S : v > t => u <= v ELSE 0]

Stuck == [t \in 0 .. Horizon |-> t]

Plain(next) ==
  [next |-> next, startTime |-> 0, startImmediately |-> FALSE, startAtGrace |-> 0,
   stopTime |-> 0, limit |-> 0, intervalFromCompletion |-> FALSE]

MCDef ==
  "every" :> Plain(Every(1))
  @@ "limited" :> [Plain(Every(2)) EXCEPT !.startImmediately = TRUE, !.limit = 1]
  @@ "fromCompletion" :> [Plain(Every(2)) EXCEPT !.intervalFromCompletion = TRUE,
                                                !.startImmediately = TRUE]
  @@ "until" :> [Plain(Every(1)) EXCEPT !.startImmediately = TRUE, !.stopTime = 3]
  @@ "once" :> [Plain(AtTimes({2})) EXCEPT !.startTime = 2, !.startAtGrace = 1]
  @@ "stuck" :> [Plain(Stuck) EXCEPT !.startTime = 2]

AllDefs == DOMAIN MCDef

(* A limited job whose interval is counted from completion, on its own.    *)
LimitedDef ==
  "limitedFromCompletion" :> [Plain(Every(1)) EXCEPT !.limit = 1,
                                                !.intervalFromCompletion = TRUE]
LimitedDefs == DOMAIN LimitedDef

Symmetry == Permutations(Timers) \cup Permutations(Runs)

=============================================================================
