------------------------------ MODULE JobTable ------------------------------
(***************************************************************************)
(* The job table: s.jobs, owned by the scheduler goroutine, with the       *)
(* timers it arms (clock.AfterFunc) and the runs the executor makes of     *)
(* jobs that have neither a singleton nor a limit mode.                    *)
(*                                                                         *)
(* One action is one pass of the scheduler goroutine's select loop         *)
(* (scheduler.go:230-276), or one step of a run's goroutine                *)
(* (executor.runJob), up to the next point where it blocks.  A send on an  *)
(* unbuffered channel and the handler that receives it are one action.     *)
(*                                                                         *)
(* nextScheduled is an ascending slice without duplicates; it is           *)
(* represented by the set of its elements.                                 *)
(*                                                                         *)
(* Client calls: NewJob, RemoveJob, RemoveByTags and RunNow.  Update is    *)
(* RemoveJob followed by NewJob of the same id (addOrUpdateJob).  Start    *)
(* and StopJobs are here for what they do to jobs, timers and runs, and    *)
(* only for stops that succeed: module Lifecycle is about the protocol     *)
(* between the goroutines, and about timeouts.                             *)
(***************************************************************************)
EXTENDS Schedule, Sequences, FiniteSets

CONSTANTS
  Ids,          \* job ids
  Timers,       \* timer objects of clock.AfterFunc
  Runs,         \* goroutines that run jobs
  None,         \* nil
  Outcomes,     \* what runJob may meet before the task: see Path
  MaxNow,       \* bound: the clock stops here
  TimingCap,    \* capacity of jobTimingUpdateCh (defaultJobTimingBuffer)
  MaxAdds,      \* bound: NewJob/Update calls per id
  MaxRunNows,   \* bound: RunNow calls
  MaxStops,     \* bound: StopJobs calls
  MaxCalls,     \* bound: all of these, per id
  MaxRemovals   \* bound: pending removals of finished limited jobs, per id

ASSUME BoundAssumption ==
  /\ MaxNow \in Instants
  /\ TimingCap \in Nat \ {0}
  /\ MaxAdds \in Nat /\ MaxRunNows \in Nat /\ MaxStops \in Nat /\ MaxCalls \in Nat /\ MaxRemovals \in Nat

ASSUME OutcomeAssumption == Outcomes \subseteq {"task", "notLeader", "beforeError"}

VARIABLES
  now,       \* the wall clock
  started,   \* s.started
  stopping,  \* the executor is cancelled and the scheduler waits for it
  starting,  \* ids selectStart has not prepared yet
  jobs,      \* s.jobs
  timer,     \* armed timers
  run,       \* run goroutines, and the callbacks that dispatch them
  timing,    \* jobTimingUpdateCh: ids whose task has completed, in order
  removing,  \* removal goroutines that selectJobTimingUpdate started, per id
  added,     \* history: NewJob calls per id
  runNows,   \* history: RunNow calls
  ran,       \* history: tasks run by the id's present job, if it is limited
  stops,     \* history: StopJobs calls
  late       \* history: ids a callback was blocked for when StopJobs came

lifecycle == <<started, stopping, starting>>
history == <<added, runNows, ran, stops, late>>
vars == <<now, lifecycle, jobs, timer, run, timing, removing, history>>

Steps == {"send", "request", "runJob", "resched", "completed", "skipped", "nextRuns",
          "task", "timing"}

JobType ==
  [def : Defs, startTime : Times, nextScheduled : SUBSET Instants,
   timer : Timers \cup {None}, runCount : Nat, lastRun : Times]

(* todo is what the goroutine still has to do, the present step first; def *)
(* and live describe the copy of the job it holds once it has one: live is *)
(* FALSE when that copy's context has been cancelled.                      *)
RunType ==
  [id : Ids, shouldSendOut : BOOLEAN, def : Defs \cup {None}, live : BOOLEAN,
   todo : Seq(Steps) \ {<<>>}]

TimerType == [id : Ids, at : Instants]

ASSUME NoneAssumption ==
  /\ None \notin Timers \cup Defs
  /\ None \notin JobType
  /\ None \notin TimerType
  /\ None \notin RunType

TypeOK ==
  /\ now \in Instants
  /\ started \in BOOLEAN /\ stopping \in BOOLEAN
  /\ starting \subseteq {id \in Ids : jobs[id] # None}
  /\ jobs \in [Ids -> JobType \cup {None}]
  /\ timer \in [Timers -> TimerType \cup {None}]
  /\ run \in [Runs -> RunType \cup {None}]
  /\ timing \in Seq(Ids)
  /\ removing \in [Ids -> Nat]
  /\ added \in [Ids -> Nat]
  /\ runNows \in Nat
  /\ ran \in [Ids -> Nat]
  /\ stops \in Nat
  /\ late \subseteq Ids

Init ==
  /\ now = 1
  /\ started = FALSE /\ stopping = FALSE
  /\ starting = {}
  /\ jobs = [id \in Ids |-> None]
  /\ timer = [x \in Timers |-> None]
  /\ run = [r \in Runs |-> None]
  /\ timing = <<>>
  /\ removing = [id \in Ids |-> 0]
  /\ added = [id \in Ids |-> 0]
  /\ runNows = 0
  /\ ran = [id \in Ids |-> 0]
  /\ stops = 0
  /\ late = {}

-----------------------------------------------------------------------------
Registered(id) == jobs[id] # None

(* The bound on client calls.                                              *)
MayCall(id) == added[id] + runNows + stops < MaxCalls

(* The scheduler goroutine is at its select, not inside selectStart or     *)
(* stopScheduler.                                                          *)
Ready == starting = {} /\ ~stopping

(* What goroutine r does next.                                             *)
At(r, step) == run[r] # None /\ Head(run[r].todo) = step

(* timer.Stop(): no effect on nil or on a timer that has fired.            *)
Disarm(tm, x) == [y \in Timers |-> IF y = x THEN None ELSE tm[y]]

(* A timer object that nobody armed and that no job still points to.       *)
FreeTimers ==
  {x \in Timers : timer[x] = None /\ \A id \in Ids : Registered(id) => jobs[id].timer # x}

(* Mutant: everything announced is forgotten.                              *)
PruneStaleScheduled_All(j) == [j EXCEPT !.nextScheduled = {}]

(* pruneStaleScheduled.                                                    *)
PruneStaleScheduled(j) ==
  [j EXCEPT !.nextScheduled = {t \in j.nextScheduled : t > now}]

(* j.cancel(): every run that holds a copy of the job sees ctx.Done().     *)
CancelRuns(rn, id) ==
  [r \in Runs |-> IF rn[r] # None /\ rn[r].id = id /\ rn[r].def # None
                  THEN [rn[r] EXCEPT !.live = FALSE] ELSE rn[r]]

(* A goroutine has a jobIn for id: the executor's, which asks for the job. *)
Dispatched(id, sendOut) ==
  [id |-> id, shouldSendOut |-> sendOut, def |-> None, live |-> TRUE,
   todo |-> <<"request">>]

(* Mutant: the job's timer is left running.                                *)
Remove_KeepsTimer(id, rn) ==
  /\ jobs' = [jobs EXCEPT ![id] = None]
  /\ UNCHANGED timer
  /\ run' = CancelRuns(rn, id)

(* internalJob.stop and delete: selectRemoveJob of a registered id.        *)
Remove(id, rn) ==
  /\ jobs' = [jobs EXCEPT ![id] = None]
  /\ timer' = Disarm(timer, jobs[id].timer)
  /\ run' = CancelRuns(rn, id)

(* AfterFunc for t, announced in nextScheduled; tm are the timers so far.  *)
Arm(id, j, t, tm, rn) ==
  \E x \in FreeTimers, at \in Instants :
    /\ at = t
    /\ timer' = [tm EXCEPT ![x] = [id |-> id, at |-> at]]
    /\ jobs' = [jobs EXCEPT ![id] =
                  [j EXCEPT !.timer = x, !.nextScheduled = @ \cup {at}]]
    /\ run' = rn

(* selectExecJobsOutForRescheduling.                                       *)
Reschedule(id, rn) ==
  LET decision == NextRun(jobs[id], now) IN
  \/ /\ ~Registered(id)
     /\ run' = rn /\ UNCHANGED <<jobs, timer>>
  \/ /\ Registered(id) /\ decision.act = "leave"
     /\ run' = rn /\ UNCHANGED <<jobs, timer>>
  \/ /\ Registered(id) /\ decision.act = "drop"
     /\ Remove(id, rn)
  \/ /\ Registered(id) /\ decision.act = "arm"
     /\ Arm(id, jobs[id], decision.at, Disarm(timer, jobs[id].timer), rn)

(* prepareFirstRun for j, and the storing or removing its callers do.      *)
PrepareFirstRun(id, j) ==
  LET decision == FirstRun(j.def, j.startTime, now)
      announced == [j EXCEPT !.startTime = decision.at]
  IN \/ /\ decision.act = "drop"
        /\ jobs' = [jobs EXCEPT ![id] = None]
        /\ timer' = Disarm(timer, j.timer)
        /\ run' = CancelRuns(run, id)
     \/ /\ decision.act = "fire"
        /\ \E r \in Runs :
             /\ run[r] = None
             /\ run' = [run EXCEPT ![r] = Dispatched(id, TRUE)]
        /\ jobs' = [jobs EXCEPT ![id] = [announced EXCEPT !.nextScheduled = @ \cup {now}]]
        /\ UNCHANGED timer
     \/ /\ decision.act = "arm"
        /\ Arm(id, announced, decision.at, timer, run)

-----------------------------------------------------------------------------
(* Client calls and the handlers that serve them.                          *)

FreshJob(d) ==
  [def |-> d, startTime |-> Def[d].startTime, nextScheduled |-> {},
   timer |-> None, runCount |-> 0, lastRun |-> Zero]

(* NewJob, selectNewJob.  The options of addOrUpdateJob refuse a stop time *)
(* that has already passed (WithStopDateTime).                             *)
NewJob(id, d) ==
  /\ Ready
  /\ ~Registered(id)
  /\ added[id] < MaxAdds /\ MayCall(id)
  /\ Def[d].stopTime = Zero \/ Def[d].stopTime >= now
  /\ added' = [added EXCEPT ![id] = @ + 1]
  /\ ran' = [ran EXCEPT ![id] = 0]
  /\ \/ started /\ PrepareFirstRun(id, FreshJob(d))
     \/ /\ ~started
        /\ jobs' = [jobs EXCEPT ![id] = FreshJob(d)]
        /\ UNCHANGED <<timer, run>>
  /\ UNCHANGED <<now, lifecycle, timing, removing, runNows, stops, late>>

(* RemoveJob, selectRemoveJob.                                             *)
RemoveJob(id) ==
  /\ Ready
  /\ Registered(id)
  /\ Remove(id, run)
  /\ UNCHANGED <<now, lifecycle, timing, removing, history>>

(* RemoveByTags, selectRemoveJobsByTags: tagged are the jobs with the tag. *)
RemoveByTags(tagged) ==
  /\ Ready
  /\ tagged # {} /\ \A id \in tagged : Registered(id)
  /\ jobs' = [id \in Ids |-> IF id \in tagged THEN None ELSE jobs[id]]
  /\ timer' = [x \in Timers |-> IF \E id \in tagged : jobs[id].timer = x
                                THEN None ELSE timer[x]]
  /\ run' = [r \in Runs |-> IF run[r] # None /\ run[r].id \in tagged /\ run[r].def # None
                            THEN [run[r] EXCEPT !.live = FALSE] ELSE run[r]]
  /\ UNCHANGED <<now, lifecycle, timing, removing, history>>

(* Job.RunNow, selectRunJobRequest, while the executor is running.         *)
RunNow(id) ==
  /\ Ready
  /\ started
  /\ Registered(id)
  /\ runNows < MaxRunNows /\ MayCall(id)
  /\ runNows' = runNows + 1
  /\ \E r \in Runs :
       /\ run[r] = None
       /\ run' = [run EXCEPT ![r] = Dispatched(id, FALSE)]
  /\ UNCHANGED <<now, lifecycle, jobs, timer, timing, removing, added, ran, stops, late>>

(* Start, selectStart: the executor is started, then every job gets its    *)
(* first run, in an arbitrary order (a range over a map).                  *)
Start ==
  /\ ~started
  /\ started' = TRUE
  /\ starting' = {id \in Ids : Registered(id)}
  /\ UNCHANGED <<now, stopping, jobs, timer, run, timing, removing, history>>

(* Mutant: what was announced before the stop is kept.                     *)
StartJob_KeepsScheduled(id) ==
  /\ id \in starting
  /\ starting' = starting \ {id}
  /\ PrepareFirstRun(id, jobs[id])
  /\ UNCHANGED <<now, started, stopping, timing, removing, history>>

StartJob(id) ==
  /\ id \in starting
  /\ starting' = starting \ {id}
  /\ PrepareFirstRun(id, [jobs[id] EXCEPT !.nextScheduled = {}])
  /\ UNCHANGED <<now, started, stopping, timing, removing, history>>

(* Mutant: the timers are left running.                                    *)
StopJobs_KeepsTimers ==
  /\ Ready
  /\ started
  /\ stops < MaxStops /\ \A id \in Ids : MayCall(id)
  /\ stops' = stops + 1
  /\ stopping' = TRUE
  /\ run' = [r \in Runs |-> IF run[r] # None /\ run[r].def # None
                            THEN [run[r] EXCEPT !.live = FALSE] ELSE run[r]]
  /\ late' = late \cup {run[r].id : r \in {q \in Runs : At(q, "send")}}
  /\ UNCHANGED <<now, started, starting, jobs, timer, timing, removing, added, runNows, ran>>

(* StopJobs, stopScheduler: the executor is cancelled, then every job's    *)
(* timer is stopped and its context cancelled.  A callback that is already *)
(* running stays, blocked on jobsIn.                                       *)
StopJobs ==
  /\ Ready
  /\ started
  /\ stops < MaxStops /\ \A id \in Ids : MayCall(id)
  /\ stops' = stops + 1
  /\ stopping' = TRUE
  /\ timer' = [x \in Timers |-> IF \E id \in Ids : Registered(id) /\ jobs[id].timer = x
                                THEN None ELSE timer[x]]
  /\ run' = [r \in Runs |-> IF run[r] # None /\ run[r].def # None
                            THEN [run[r] EXCEPT !.live = FALSE] ELSE run[r]]
  /\ late' = late \cup {run[r].id : r \in {q \in Runs : At(q, "send")}}
  /\ UNCHANGED <<now, started, starting, jobs, timing, removing, added, runNows, ran>>

(* The executor has waited for its runs and reports; the jobs get new      *)
(* contexts.                                                               *)
Stopped ==
  /\ stopping
  /\ \A r \in Runs : run[r] = None \/ At(r, "send")
  /\ stopping' = FALSE
  /\ started' = FALSE
  /\ UNCHANGED <<now, starting, jobs, timer, run, timing, removing, history>>

-----------------------------------------------------------------------------
(* Time and timers.                                                        *)

Tick ==
  /\ now < MaxNow
  /\ now' = now + 1
  /\ UNCHANGED <<lifecycle, jobs, timer, run, timing, removing, history>>

(* The callback of an expired timer is about to send its jobIn.            *)
TimerFires(x) ==
  /\ timer[x] # None
  /\ timer[x].at <= now
  /\ \E r \in Runs :
       /\ run[r] = None
       /\ run' = [run EXCEPT ![r] = [Dispatched(timer[x].id, TRUE) EXCEPT !.todo = <<"send">>]]
  /\ timer' = Disarm(timer, x)
  /\ UNCHANGED <<now, lifecycle, jobs, timing, removing, history>>

(* The executor receives it and starts a goroutine for it.                 *)
Dispatch(r) ==
  /\ At(r, "send")
  /\ started /\ ~stopping
  /\ run' = [run EXCEPT ![r] = Dispatched(run[r].id, TRUE)]
  /\ UNCHANGED <<now, lifecycle, jobs, timer, timing, removing, history>>

-----------------------------------------------------------------------------
(* The run goroutine.                                                      *)

Done(r) == [run EXCEPT ![r] = None]

(* run[r] with its present step done.                                      *)
After(r) ==
  IF Len(run[r].todo) = 1 THEN Done(r) ELSE [run EXCEPT ![r].todo = Tail(@)]

(* Mutant: a run the elector refuses does not reschedule its job.          *)
Path_RefusedNotRescheduled(d, outcome) ==
  CASE outcome = "notLeader" -> <<"nextRuns">>
    [] outcome = "beforeError" -> <<"resched", "skipped">>
    [] outcome = "task" /\ ~Def[d].intervalFromCompletion ->
         <<"resched", "completed", "task", "timing">>
    [] outcome = "task" /\ Def[d].intervalFromCompletion ->
         <<"task", "timing", "completed", "resched">>

(* The messages of runJob, in the order it sends them, around the task     *)
(* itself: for a run that reaches the task, for one the elector or the     *)
(* locker refuses, and for one that beforeJobRunsSkipIfBeforeFuncErrors    *)
(* aborts.                                                                 *)
Path(d, outcome) ==
  CASE outcome = "notLeader" -> <<"resched", "nextRuns">>
    [] outcome = "beforeError" -> <<"resched", "skipped">>
    [] outcome = "task" /\ ~Def[d].intervalFromCompletion ->
         <<"resched", "completed", "task", "timing">>
    [] outcome = "task" /\ Def[d].intervalFromCompletion ->
         <<"task", "timing", "completed", "resched">>

(* The executor's context is cancelled: whatever the goroutine has to send *)
(* or to ask, nobody takes it any more.                                    *)
GivesUp(r) ==
  /\ stopping
  /\ \/ /\ At(r, "request")
        /\ run' = Done(r)
     \/ /\ \E step \in {"resched", "completed", "skipped", "nextRuns", "timing"} : At(r, step)
        /\ run' = After(r)
  /\ UNCHANGED <<now, lifecycle, jobs, timer, timing, removing, history>>

(* requestJobCtx and selectJobOutRequest: the goroutine gets a copy of the *)
(* job, or the zero job when the id is unknown, whose run ends at once.    *)
Request(r) ==
  /\ At(r, "request")
  /\ Ready
  /\ run' = IF Registered(run[r].id)
            THEN [run EXCEPT ![r] = [@ EXCEPT !.def = jobs[run[r].id].def, !.todo = <<"runJob">>]]
            ELSE Done(r)
  /\ UNCHANGED <<now, lifecycle, jobs, timer, timing, removing, history>>

(* The checks at the head of runJob and the elector, locker and listener   *)
(* calls that decide which way the run goes.                               *)
RunJob(r) ==
  /\ At(r, "runJob")
  /\ \/ /\ ~run[r].live \/ StopTimeReached(run[r].def, now)
        /\ run' = Done(r)
     \/ /\ run[r].live /\ ~StopTimeReached(run[r].def, now)
        /\ \E outcome \in Outcomes :
             run' = [run EXCEPT ![r].todo = Path(run[r].def, outcome)]
  /\ UNCHANGED <<now, lifecycle, jobs, timer, timing, removing, history>>

(* sendOutForRescheduling and the handler.                                 *)
SendOutForRescheduling(r) ==
  LET sent == [After(r) EXCEPT ![r] =
                 IF @ = None THEN None ELSE [@ EXCEPT !.shouldSendOut = FALSE]]
  IN /\ At(r, "resched")
     /\ \/ /\ run[r].shouldSendOut /\ Ready
           /\ Reschedule(run[r].id, sent)
        \/ /\ ~run[r].shouldSendOut
           /\ run' = sent /\ UNCHANGED <<jobs, timer>>
     /\ UNCHANGED <<now, lifecycle, timing, removing, history>>

(* sendOutForNextRunUpdate and updateNextScheduled.                        *)
SendOutForNextRunUpdate(r) ==
  /\ At(r, "nextRuns")
  /\ Ready
  /\ run' = After(r)
  /\ jobs' = [jobs EXCEPT ![run[r].id] =
                IF @ = None THEN None ELSE PruneStaleScheduled(@)]
  /\ UNCHANGED <<now, lifecycle, timer, timing, removing, history>>

(* Mutant: runs are counted down from zero.                                *)
Counted_Down(j) ==
  [PruneStaleScheduled(j) EXCEPT !.runCount = @ - 1, !.lastRun = now]

(* What selectExecJobsOutCompleted does to the job of a run that was not   *)
(* skipped: a job that has reached its limit keeps its lastRun.            *)
Counted(j) ==
  LET limit == Def[j.def].limit
      pruned == PruneStaleScheduled(j)
      counted == IF limit > 0 THEN [pruned EXCEPT !.runCount = @ + 1] ELSE pruned
  IN IF limit > 0 /\ counted.runCount >= limit THEN counted
     ELSE [counted EXCEPT !.lastRun = now]

(* The send on jobsOutCompleted, and selectExecJobsOutCompleted.           *)
SendOutCompleted(r) ==
  /\ At(r, "completed")
  /\ Ready
  /\ run' = After(r)
  /\ jobs' = [jobs EXCEPT ![run[r].id] = IF @ = None THEN None ELSE Counted(@)]
  /\ UNCHANGED <<now, lifecycle, timer, timing, removing, history>>

SendOutSkipped(r) ==
  /\ At(r, "skipped")
  /\ Ready
  /\ run' = After(r)
  /\ jobs' = [jobs EXCEPT ![run[r].id] =
                IF @ = None THEN None ELSE PruneStaleScheduled(@)]
  /\ UNCHANGED <<now, lifecycle, timer, timing, removing, history>>

(* The task returns, with or without an error or a recovered panic.        *)
TaskReturns(r) ==
  /\ At(r, "task")
  /\ run' = After(r)
  /\ ran' = IF run[r].live /\ Def[run[r].def].limit > 0
             THEN [ran EXCEPT ![run[r].id] = @ + 1] ELSE ran
  /\ UNCHANGED <<now, lifecycle, jobs, timer, timing, removing, added, runNows, stops, late>>

(* completedAt goes into the buffered jobTimingUpdateCh.                   *)
SendTiming(r) ==
  /\ At(r, "timing")
  /\ Len(timing) < TimingCap
  /\ run' = After(r)
  /\ timing' = Append(timing, run[r].id)
  /\ UNCHANGED <<now, lifecycle, jobs, timer, removing, history>>

(* The job counts as many runs as WithLimitedRuns allows.                  *)
LimitReached(j) == Def[j.def].limit > 0 /\ j.runCount >= Def[j.def].limit

(* Mutant: the limit is taken for reached one run later.                   *)
JobTimingUpdate_OffByOne ==
  /\ Ready
  /\ timing # <<>>
  /\ timing' = Tail(timing)
  /\ LET id == Head(timing) IN
     IF Registered(id) /\ LimitReached(jobs[id]) /\ jobs[id].runCount > Def[jobs[id].def].limit
     THEN /\ removing[id] < MaxRemovals
          /\ removing' = [removing EXCEPT ![id] = @ + 1]
     ELSE UNCHANGED removing
  /\ UNCHANGED <<now, lifecycle, jobs, timer, run, history>>

(* selectJobTimingUpdate for a completed task.                             *)
JobTimingUpdate ==
  /\ Ready
  /\ timing # <<>>
  /\ timing' = Tail(timing)
  /\ LET id == Head(timing) IN
     IF Registered(id) /\ LimitReached(jobs[id])
     THEN /\ removing[id] < MaxRemovals
          /\ removing' = [removing EXCEPT ![id] = @ + 1]
     ELSE UNCHANGED removing
  /\ UNCHANGED <<now, lifecycle, jobs, timer, run, history>>

(* The goroutine selectJobTimingUpdate started sends on removeJobCh:       *)
(* selectRemoveJob of whatever job the id names by then.                   *)
RemoveLimited(id) ==
  /\ Ready
  /\ removing[id] > 0
  /\ removing' = [removing EXCEPT ![id] = @ - 1]
  /\ \/ Registered(id) /\ Remove(id, run)
     \/ ~Registered(id) /\ UNCHANGED <<jobs, timer, run>>
  /\ UNCHANGED <<now, lifecycle, timing, history>>

-----------------------------------------------------------------------------
ClientCall ==
  \/ \E id \in Ids : RemoveJob(id) \/ RunNow(id) \/ \E d \in Defs : NewJob(id, d)
  \/ \E tagged \in SUBSET Ids : RemoveByTags(tagged)
  \/ Start \/ StopJobs

RunStep(r) ==
  \/ Dispatch(r)
  \/ GivesUp(r)
  \/ Request(r)
  \/ RunJob(r)
  \/ SendOutForRescheduling(r)
  \/ SendOutForNextRunUpdate(r)
  \/ SendOutCompleted(r)
  \/ SendOutSkipped(r)
  \/ TaskReturns(r)
  \/ SendTiming(r)

Next ==
  \/ ClientCall
  \/ Tick
  \/ \E id \in Ids : StartJob(id) \/ RemoveLimited(id)
  \/ \E x \in Timers : TimerFires(x)
  \/ \E r \in Runs : RunStep(r)
  \/ JobTimingUpdate
  \/ Stopped

Spec == Init /\ [][Next]_vars

-----------------------------------------------------------------------------
(* Properties.                                                             *)

(* Every armed timer is the current timer of a registered job: removing,   *)
(* updating or rescheduling a job leaves no timer behind that would start  *)
(* a second chain of runs (job.stop, "Clean up any existing timer").       *)
TimerOwned ==
  \A x \in Timers : timer[x] # None =>
    /\ Registered(timer[x].id)
    /\ jobs[timer[x].id].timer = x

(* A run that is going to happen is announced: a timer armed for a future  *)
(* instant is in its job's nextScheduled, whatever was pruned meanwhile;   *)
(* and "The job's final run may be at the stop time, but not after"        *)
(* (job.go:984-986; scheduler.go:530-575).                                 *)
ArmedIsAnnounced ==
  \A x \in Timers : (timer[x] # None /\ timer[x].at > now) =>
    LET j == jobs[timer[x].id] IN
    /\ timer[x].at \in j.nextScheduled
    /\ ~StopTimeReached(j.def, timer[x].at)

(* What Job.NextRun reports will happen: every announced future instant    *)
(* has a timer armed for it, also after StopJobs and Start, as long as the *)
(* job was not replaced and no callback was left over at the stop.         *)
Announced(id) ==
  \A t \in jobs[id].nextScheduled : t > now =>
    \E x \in Timers : timer[x] = [id |-> id, at |-> t]

NextRunWillFire ==
  \A id \in Ids :
    (/\ Registered(id) /\ added[id] = 1 /\ id \notin late
     /\ started /\ ~stopping /\ id \notin starting) => Announced(id)

(* The right to reschedule a job: an armed timer, or a run that still has  *)
(* to send the job out for rescheduling.                                   *)
WillSendOut(r) ==
  /\ run[r] # None
  /\ run[r].shouldSendOut
  /\ \/ At(r, "send") \/ At(r, "request")
     \/ At(r, "runJob") /\ run[r].live
     \/ \E i \in 1 .. Len(run[r].todo) : run[r].todo[i] = "resched"

Tokens(id) ==
  {x \in Timers : timer[x] # None /\ timer[x].id = id} \cup
  {r \in Runs : WillSendOut(r) /\ run[r].id = id}

(* A job that was never replaced is scheduled at most once at a time: its  *)
(* timer, its dispatch and its rescheduling never overlap (shouldSendOut), *)
(* even with RunNow calls in between and after a restart, unless a         *)
(* callback was left over at the stop.                                     *)
OneToken ==
  \A id \in Ids :
    added[id] <= 1 /\ id \notin late => Cardinality(Tokens(id)) <= 1

(* A registered job the executor serves is never stranded without a timer  *)
(* or a run that will reschedule it: it gets one when it is first          *)
(* prepared, and is left without only once its stop time has passed or     *)
(* next() has no further run for it, also when it is removed and added     *)
(* again while runs of its predecessor are in flight.                      *)
Served(id) == Registered(id) /\ started /\ ~stopping /\ id \notin starting

ScheduleEnded(id) ==
  \/ StopTimeReached(jobs[id].def, now)
  \/ Def[jobs[id].def].next[ScheduleFrom(jobs[id], now)] = Zero

NeverStranded ==
  [][\A id \in Ids :
       (Served(id)' /\ Tokens(id)' = {})
       => Served(id) /\ (Tokens(id) = {} \/ ScheduleEnded(id))]_vars

(* A job rescheduled before its task runs that has used up WithLimitedRuns *)
(* has its removal on the way: a task still running, a completion not yet  *)
(* handled or a removal not yet served.  (The completion of a replaced     *)
(* job's last run counts against its successor, hence the condition.)      *)
RemovalOnTheWay(id) ==
  \/ \E r \in Runs : /\ run[r] # None /\ run[r].id = id
                     /\ \E i \in 1 .. Len(run[r].todo) : run[r].todo[i] = "timing"
  \/ \E i \in 1 .. Len(timing) : timing[i] = id
  \/ removing[id] > 0

LimitedJobGoes ==
  \A id \in Ids :
    (/\ Registered(id)
     /\ LimitReached(jobs[id])
     /\ ~Def[jobs[id].def].intervalFromCompletion
     /\ added[id] = 1 /\ stops = 0) => RemovalOnTheWay(id)

(* WithLimitedRuns(n) "limits the number of executions of this job to n"   *)
(* (job.go:768).                                                           *)
LimitedRuns ==
  \A id \in Ids :
    (Registered(id) /\ Def[jobs[id].def].limit > 0)
    => ran[id] <= Def[jobs[id].def].limit

(* A job's announced runs only move forward: no step announces an instant  *)
(* at or before one already announced, so inserting keeps nextScheduled    *)
(* ascending and free of duplicates.  Only selectStart begins anew.        *)
(* (Intervals counted from completion restart from the start time when a   *)
(* replaced job's last run, or a callback left over at a stop, reschedules *)
(* a job that has not run yet; such a job is left out.)                    *)
ScheduleMovesForward ==
  [][\A id \in Ids \ starting :
       (/\ Registered(id) /\ Registered(id)'
        /\ Def[jobs[id].def].intervalFromCompletion => added[id] = 1 /\ id \notin late) =>
       \A t \in jobs'[id].nextScheduled \ jobs[id].nextScheduled,
          u \in jobs[id].nextScheduled : t > u]_vars

(* A job's schedule is the one that NextRuns foretells: a run announced    *)
(* later, on time or to catch up, is one it listed, also when the job is   *)
(* run by hand meanwhile: RunNow "does not alter the existing run          *)
(* schedule" (job.go:1684).  Without an announced run there is no list,    *)
(* and one counted from completion foretells nothing.                      *)
RunsAsForetold ==
  [][\A id \in Ids \ starting :
       (/\ Registered(id) /\ Registered(id)'
        /\ jobs[id].nextScheduled # {}
        /\ ~Def[jobs[id].def].intervalFromCompletion)
       => jobs'[id].nextScheduled \subseteq NextRuns(jobs[id])]_vars

(* No timer is armed for an instant already in the past: AfterFunc with a  *)
(* negative duration would make the scheduler spin.                        *)
NotArmedInThePast ==
  [][\A x \in Timers : (timer'[x] # None /\ timer'[x] # timer[x])
       => timer'[x].at >= now]_vars

=============================================================================
