------------------------------ MODULE Schedule ------------------------------
(***************************************************************************)
(* The time arithmetic of the scheduler goroutine: given a job definition, *)
(* the wall clock and the runs already announced, when does the job run    *)
(* next?  These are the pure parts of prepareFirstRun, firstRunOrGrace,    *)
(* advancePastNow, advanceNextPastDuplicates and of                        *)
(* selectExecJobsOutForRescheduling (scheduler.go).                        *)
(*                                                                         *)
(* Wall-clock instants are the integers 0..Horizon; 0 stands for Go's zero *)
(* time.Time.  A job definition d is described by the record Def[d]: its   *)
(* next function (jobSchedule.next, Zero when the schedule is exhausted)   *)
(* and the options that these functions read.                              *)
(***************************************************************************)
EXTENDS Integers

CONSTANTS
  Horizon,  \* the last instant of the model
  Defs,     \* the job definitions clients use
  Def       \* what each definition means

Zero == 0
Times == 0 .. Horizon
Instants == Times \ {Zero}

DefType ==
  [next : [Times -> Times],           \* jobSchedule.next
   startTime : Times,                 \* WithStartDateTime(Past), or Zero
   startImmediately : BOOLEAN,
   startAtGrace : Times,              \* WithStartAtGrace, 0 when not set
   stopTime : Times,                  \* WithStopDateTime, or Zero
   limit : Nat,                       \* WithLimitedRuns, 0 when not set
   intervalFromCompletion : BOOLEAN]

ASSUME HorizonAssumption == Horizon \in Nat

ASSUME DefAssumption == Def \in [Defs -> DefType]

-----------------------------------------------------------------------------
(* stopTimeReached, and the test !next.Before(stopTime) that bars a run    *)
(* from being announced at or after the stop time.                         *)
StopTimeReached(d, now) == Def[d].stopTime # Zero /\ Def[d].stopTime < now

AtOrPastStop(d, t) == Def[d].stopTime # Zero /\ t >= Def[d].stopTime

(* n is what next() returned for t: did the schedule make progress?        *)
Progress(n, t) == n # Zero /\ n > t

(* advancePastNow: follow next() until it is no longer before now.  Zero   *)
(* is the result ok=false: exhausted, or no forward progress.              *)
AdvancePastNow(d, t, now) ==
  LET advance[u \in Times] ==
        IF u >= now THEN u
        ELSE IF Progress(Def[d].next[u], u) THEN advance[Def[d].next[u]]
        ELSE Zero
  IN advance[t]

(* advanceNextPastDuplicates: follow next() out of the announced runs.     *)
AdvanceNextPastDuplicates(d, t, announced) ==
  LET advance[u \in Times] ==
        IF u \notin announced THEN u
        ELSE IF Progress(Def[d].next[u], u) THEN advance[Def[d].next[u]]
        ELSE Zero
  IN advance[t]

-----------------------------------------------------------------------------
(* A decision about a job: fire it now, arm a timer for it, leave it as it *)
(* is, or drop it from the table.                                          *)
Fire(t) == [act |-> "fire", at |-> t]
ArmAt(t) == [act |-> "arm", at |-> t]
Leave == [act |-> "leave", at |-> Zero]
Drop == [act |-> "drop", at |-> Zero]

(* An arming, unless it would be at or after the job's stop time.          *)
ArmBeforeStop(d, t) == IF AtOrPastStop(d, t) THEN Drop ELSE ArmAt(t)

(* firstRunOrGrace for a first run whose time has passed, and what         *)
(* prepareFirstRun does with its answer.                                   *)
LateFirstRun(d, t, now) ==
  LET grace == Def[d].startAtGrace
      later == AdvancePastNow(d, t, now)
  IN IF grace > 0 /\ now - t <= grace
     THEN IF AtOrPastStop(d, now) THEN Drop ELSE Fire(now)
     ELSE IF later = Zero THEN Drop ELSE ArmBeforeStop(d, later)

(* prepareFirstRun: the first run of a job whose start time is startTime.  *)
FirstRun(d, startTime, now) ==
  LET first == IF startTime # Zero THEN startTime ELSE Def[d].next[now]
  IN IF Def[d].startImmediately THEN Fire(now)
     ELSE IF first = Zero THEN Drop
     ELSE IF first < now THEN LateFirstRun(d, first, now)
     ELSE ArmBeforeStop(d, first)

Latest(S) == CHOOSE t \in S : \A u \in S : u <= t

(* Mutant: always counted from the start time.                             *)
ScheduleFrom_Start(j, now) == IF j.startTime # Zero THEN j.startTime ELSE now

(* Mutant: counted from the clock.                                         *)
ScheduleFrom_Now(j, now) ==
  IF Def[j.def].intervalFromCompletion /\ j.lastRun # Zero THEN j.lastRun ELSE now

(* The time a rescheduled job's next run is counted from: its completion   *)
(* under WithIntervalFromCompletion, else the latest announced run.        *)
ScheduleFrom(j, now) ==
  IF Def[j.def].intervalFromCompletion
  THEN IF j.lastRun # Zero THEN j.lastRun
       ELSE IF j.startTime # Zero THEN j.startTime ELSE now
  ELSE IF j.nextScheduled = {} THEN j.startTime
       ELSE Latest(j.nextScheduled)

(* Mutant: no catching up with the clock.                                  *)
NextRun_NoCatchUp(j, now) ==
  LET next == Def[j.def].next[ScheduleFrom(j, now)]
      fresh == AdvanceNextPastDuplicates(j.def, next, j.nextScheduled)
  IN IF StopTimeReached(j.def, now) THEN Drop
     ELSE IF next = Zero THEN Leave
     ELSE IF fresh = Zero THEN Drop
     ELSE ArmBeforeStop(j.def, fresh)

(* selectExecJobsOutForRescheduling: the decision for a registered job j.  *)
NextRun(j, now) ==
  LET next == Def[j.def].next[ScheduleFrom(j, now)]
      future == IF next < now THEN AdvancePastNow(j.def, next, now) ELSE next
      fresh == AdvanceNextPastDuplicates(j.def, future, j.nextScheduled)
  IN IF StopTimeReached(j.def, now) THEN Drop
     ELSE IF next = Zero THEN Leave
     ELSE IF future = Zero \/ fresh = Zero THEN Drop
     ELSE ArmBeforeStop(j.def, fresh)

-----------------------------------------------------------------------------
(* Job.NextRuns(count): the announced runs, extended by next() from the    *)
(* last of them until it ends or reaches the stop time.  These are the     *)
(* runs it lists for some count; a next() that makes no progress is listed *)
(* over and over.                                                          *)
NextRuns(j) ==
  LET extended[t \in Times] ==
        LET next == Def[j.def].next[t] IN
        IF next = Zero \/ AtOrPastStop(j.def, next) THEN {}
        ELSE {next} \cup (IF next > t THEN extended[next] ELSE {})
  IN IF j.nextScheduled = {} THEN {}
     ELSE j.nextScheduled \cup extended[Latest(j.nextScheduled)]

=============================================================================
