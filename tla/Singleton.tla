------------------------------ MODULE Singleton ------------------------------
(***************************************************************************)
(* WithSingletonMode: how the executor keeps one job from overlapping      *)
(* itself.  Every dispatch of the job is a goroutine of its own            *)
(* (executor.go:159); it looks the job's runner up in e.singletonRunners,  *)
(* makes one when there is none, and puts the dispatch in the runner's     *)
(* channel.  The runner (singletonModeRunner) runs what it takes, one      *)
(* after the other.                                                        *)
(*                                                                         *)
(* The map is keyed by job id and jobs share nothing else, so one job is   *)
(* followed.  A restart makes a new executor with a new map and new wait   *)
(* groups, while goroutines of the old one may still be there: a dispatch, *)
(* which nobody waits for, or a runner, when the stop has timed out.  They *)
(* read e.ctx and e.singletonRunners, which are the new executor's by then.*)
(* Of the scheduler, only what it serves is here: the job's current        *)
(* version, its timers, and that it serves nobody while it waits for the   *)
(* executor.                                                               *)
(***************************************************************************)
EXTENDS Integers, Sequences, FiniteSets

CONSTANTS
  Dispatchers,  \* goroutines that bring one dispatch to a runner
  Runners,      \* goroutines of singletonModeRunner
  Modes,        \* modes the job may be given: "reschedule", "wait"
  Completion,   \* values its intervalFromCompletion may take
  QueueCap,     \* defaultSingletonQueueBuffer
  Uses,         \* bounds on what clients do, see UseType
  NewModes,     \* Update may change the job's mode
  None

(* What dispatches the job, how many versions of it and starts of the      *)
(* executor there are at most, and whether the stop timeout may expire.    *)
UseType ==
  [triggers : SUBSET {"timer", "runNow"}, versions : Nat \ {0},
   starts : Nat \ {0}, timeouts : BOOLEAN]

ASSUME ConstantAssumption ==
  /\ Modes \subseteq {"reschedule", "wait"} /\ Modes # {}
  /\ Completion \subseteq BOOLEAN /\ Completion # {}
  /\ QueueCap \in Nat \ {0}
  /\ Uses \subseteq UseType
  /\ NewModes \in BOOLEAN
  /\ IsFiniteSet(Dispatchers)

VARIABLES
  use,         \* the use clients make of the scheduler in this behaviour
  phase,       \* the executor: up, its context cancelled, or stopped
  starts,      \* which executor this is: 1, 2, ...
  timedOut,    \* the executors that have reported a timeout
  job,         \* the scheduler's entry
  armed,       \* the job's timer is armed
  strays,      \* its timers and callbacks that the scheduler no longer knows of
  registered,  \* the runner in e.singletonRunners
  in,          \* singletonRunner.in, buffered
  token,       \* singletonRunner.rescheduleLimiter, of capacity 1, is full
  runner,      \* the runner goroutines
  dispatch     \* the dispatch goroutines

executor == <<use, phase, starts, timedOut>>
vars == <<executor, job, armed, strays, registered, in, token, runner, dispatch>>

Configs == [mode : Modes, fromCompletion : Completion]
RunnerPcs == {"new", "select", "got", "begin", "task", "resched", "release", "gone"}
DispatchPcs == {"request", "load", "store", "start", "offer", "push", "resched"}

Executors == 1 .. use.starts

(* A runner's fields: mode is the limitMode it was made with, group the    *)
(* executor whose wait group counts it, ctx the one whose e.ctx its select *)
(* looks at, sendOut the shouldSendOut of its jobIn, version and era those *)
(* of the copy of the job it asked for (0: none).  A dispatch's fields are *)
(* the locals of its goroutine; by is the executor that started it.        *)
RunnerType ==
  [pc : RunnerPcs, mode : Modes, group : Executors, ctx : Executors,
   sendOut : BOOLEAN, version : 0 .. use.versions, era : 0 .. use.starts + 1]
DispatchType ==
  [pc : DispatchPcs, by : Executors, sendOut : BOOLEAN,
   config : Configs \cup {None}, runner : Runners \cup {None}]

(* None is none of the things it stands in for.                            *)
ASSUME NoneAssumption ==
  /\ None \notin Runners /\ None \notin Configs
  /\ None \notin [pc : RunnerPcs, mode : Modes, group : Nat, ctx : Nat,
                  sendOut : BOOLEAN, version : Nat, era : Nat]
  /\ None \notin [pc : DispatchPcs, by : Nat, sendOut : BOOLEAN,
                  config : Configs \cup {None}, runner : Runners \cup {None}]

TypeOK ==
  /\ use \in Uses
  /\ phase \in {"up", "cancelled", "stopped"}
  /\ starts \in Executors /\ timedOut \subseteq Executors
  /\ job \in [present : BOOLEAN, version : 1 .. use.versions, config : Configs]
  /\ armed \in BOOLEAN /\ strays \in Nat
  /\ registered \in Runners \cup {None}
  /\ in \in [Runners -> Seq(BOOLEAN)] /\ \A r \in Runners : Len(in[r]) <= QueueCap
  /\ token \in [Runners -> BOOLEAN]
  /\ runner \in [Runners -> RunnerType \cup {None}]
  /\ dispatch \in [Dispatchers -> DispatchType \cup {None}]

Init ==
  /\ use \in Uses
  /\ phase = "up" /\ starts = 1 /\ timedOut = {}
  /\ job \in [present : {TRUE}, version : {1}, config : Configs]
  /\ armed = TRUE /\ strays = 0
  /\ registered = None
  /\ in = [r \in Runners |-> <<>>]
  /\ token = [r \in Runners |-> FALSE]
  /\ runner = [r \in Runners |-> None]
  /\ dispatch = [d \in Dispatchers |-> None]

-----------------------------------------------------------------------------
(* What the scheduler goroutine serves.                                    *)

(* stopScheduler blocks the scheduler until the executor has reported.     *)
SchedulerServes == phase # "cancelled"

(* The context of the k-th executor is cancelled.                          *)
ContextDone(k) == k # starts \/ phase # "up"

(* stopScheduler gives every job a new context when the executor has       *)
(* reported: the contexts of one era are cancelled together.               *)
Era == IF phase = "stopped" THEN starts + 1 ELSE starts

(* sendOutForRescheduling by a goroutine that looks at the context of the  *)
(* k-th executor, and selectExecJobsOutForRescheduling at the other end:   *)
(* a job that is still there gets a timer, also when nothing is started.   *)
SendOutForRescheduling(sendOut, k) ==
  IF ~sendOut THEN UNCHANGED armed
  ELSE \/ SchedulerServes /\ armed' = (armed \/ job.present)
       \/ ContextDone(k) /\ UNCHANGED armed

(* Update is a removal, then a new job under the same id, armed at once if *)
(* the scheduler is started;                                               *)
(* the executor's runner for the id is left as it is.                      *)
RemovesJob ==
  /\ phase = "up" /\ job.present /\ job.version < use.versions
  /\ job' = [job EXCEPT !.present = FALSE] /\ armed' = FALSE
  /\ UNCHANGED <<executor, strays, registered, in, token, runner, dispatch>>

AddsJob ==
  /\ SchedulerServes /\ ~job.present
  /\ \E c \in Configs :
       /\ NewModes \/ c.mode = job.config.mode
       /\ job' = [present |-> TRUE, version |-> job.version + 1, config |-> c]
  /\ armed' = (phase = "up")
  /\ UNCHANGED <<executor, strays, registered, in, token, runner, dispatch>>

-----------------------------------------------------------------------------
(* The executor: a jobIn becomes a goroutine.                              *)

Spawns(sendOut) ==
  \E d \in Dispatchers :
    /\ dispatch[d] = None
    /\ dispatch' = [dispatch EXCEPT ![d] =
         [pc |-> "request", by |-> starts, sendOut |-> sendOut, config |-> None,
          runner |-> None]]

(* A timer fires, or a callback that found no executor is delivered.       *)
TimerFires ==
  /\ "timer" \in use.triggers /\ phase = "up"
  /\ \/ armed /\ armed' = FALSE /\ UNCHANGED strays
     \/ strays > 0 /\ strays' = strays - 1 /\ UNCHANGED armed
  /\ Spawns(TRUE)
  /\ UNCHANGED <<executor, job, registered, in, token, runner>>

RunNow ==
  /\ "runNow" \in use.triggers /\ phase = "up" /\ job.present
  /\ Spawns(FALSE)
  /\ UNCHANGED <<executor, job, armed, strays, registered, in, token, runner>>

(* The executor cancels its context, the scheduler stops the job's timer.  *)
(* A callback that is already running blocks on jobsIn.                    *)
Cancels ==
  /\ phase = "up" /\ phase' = "cancelled"
  /\ armed' = FALSE
  /\ \/ UNCHANGED strays
     \/ "timer" \in use.triggers /\ armed /\ strays' = strays + 1
  /\ UNCHANGED <<use, starts, timedOut, job, registered, in, token, runner, dispatch>>

(* A timer that a run in flight had armed again after the stop.            *)
Blocks ==
  /\ "timer" \in use.triggers /\ phase # "up" /\ armed
  /\ armed' = FALSE /\ strays' = strays + 1
  /\ UNCHANGED <<executor, job, registered, in, token, runner, dispatch>>

(* The runners singletonJobsWg of the k-th executor counts, from their     *)
(* start to their return.                                                  *)
Counted(k) ==
  {r \in Runners :
     runner[r] # None /\ runner[r].group = k /\ runner[r].pc \notin {"new", "gone"}}

(* Mutant: the runners are not waited for.                                 *)
Reports_NoWait ==
  /\ phase = "cancelled" /\ phase' = "stopped"
  /\ UNCHANGED <<use, starts, timedOut, job, armed, strays, registered, in, token, runner, dispatch>>

Reports ==
  /\ phase = "cancelled" /\ phase' = "stopped"
  /\ \/ Counted(starts) = {} /\ UNCHANGED timedOut
     \/ use.timeouts /\ timedOut' = timedOut \cup {starts}
  /\ UNCHANGED <<use, starts, job, armed, strays, registered, in, token, runner, dispatch>>

(* Mutant: the map of runners is kept.                                     *)
Starts_KeepsRunners ==
  /\ phase = "stopped" /\ starts < use.starts
  /\ phase' = "up" /\ starts' = starts + 1
  /\ IF job.present
     THEN /\ armed' = TRUE
          /\ strays' = IF armed THEN strays + 1 ELSE strays
     ELSE UNCHANGED <<armed, strays>>
  /\ UNCHANGED <<use, timedOut, job, registered, in, token, runner, dispatch>>

(* selectStart and a new executor.  prepareFirstRun arms a timer and       *)
(* forgets the one there may be.                                           *)
Starts ==
  /\ phase = "stopped" /\ starts < use.starts
  /\ phase' = "up" /\ starts' = starts + 1
  /\ registered' = None
  /\ IF job.present
     THEN /\ armed' = TRUE
          /\ strays' = IF armed THEN strays + 1 ELSE strays
     ELSE UNCHANGED <<armed, strays>>
  /\ UNCHANGED <<use, timedOut, job, in, token, runner, dispatch>>

-----------------------------------------------------------------------------
(* The dispatch goroutine.                                                 *)

At(d, pc) == dispatch[d] # None /\ dispatch[d].pc = pc
DGoes(d, pc) == dispatch' = [dispatch EXCEPT ![d].pc = pc]
DEnds(d) == dispatch' = [dispatch EXCEPT ![d] = None]

(* requestJobCtx.  A job that has been removed comes back empty, and the   *)
(* dispatch ends in a runJob that returns at once.                         *)
Requests(d) ==
  /\ At(d, "request")
  /\ \/ /\ SchedulerServes /\ job.present
        /\ dispatch' = [dispatch EXCEPT ![d].pc = "load", ![d].config = job.config]
     \/ (ContextDone(dispatch[d].by) \/ ~job.present) /\ DEnds(d)
  /\ UNCHANGED <<executor, job, armed, strays, registered, in, token, runner>>

(* Mutant: the map is never consulted.                                     *)
Loads_Never(d) ==
  /\ At(d, "load") /\ DGoes(d, "store")
  /\ UNCHANGED <<executor, job, armed, strays, registered, in, token, runner>>

Loads(d) ==
  /\ At(d, "load")
  /\ \/ registered = None /\ DGoes(d, "store")
     \/ /\ registered # None
        /\ dispatch' = [dispatch EXCEPT ![d].pc = "offer", ![d].runner = registered]
  /\ UNCHANGED <<executor, job, armed, strays, registered, in, token, runner>>

(* The runner is stored, whatever another dispatch has stored since the    *)
(* load, in whatever map is there now.                                     *)
Stores(d) ==
  /\ At(d, "store")
  /\ \E r \in Runners :
       /\ runner[r] = None
       /\ registered' = r
       /\ runner' = [runner EXCEPT ![r] =
            [pc |-> "new", mode |-> dispatch[d].config.mode, group |-> dispatch[d].by,
             ctx |-> starts, sendOut |-> FALSE, version |-> 0, era |-> 0]]
       /\ dispatch' = [dispatch EXCEPT ![d].pc = "start", ![d].runner = r]
  /\ UNCHANGED <<executor, job, armed, strays, in, token>>

(* It is counted and started.  While the executor waits for its runners    *)
(* Add blocks: before the report this step may come before that wait.      *)
StartsRunner(d) ==
  /\ At(d, "start")
  /\ LET k == dispatch[d].by IN k \notin timedOut \/ Counted(k) = {}
  /\ runner' = [runner EXCEPT ![dispatch[d].runner].pc = "select",
                              ![dispatch[d].runner].ctx = starts]
  /\ DGoes(d, "offer")
  /\ UNCHANGED <<executor, job, armed, strays, registered, in, token>>

(* The send to a limiter that is full, or that the runner was made         *)
(* without, takes the select's default.                                    *)
HasRoom(r) == runner[r].mode = "reschedule" /\ ~token[r]

Skips(d) ==
  /\ At(d, "offer") /\ dispatch[d].config.mode = "reschedule"
  /\ ~HasRoom(dispatch[d].runner)
  /\ DGoes(d, "resched")
  /\ UNCHANGED <<executor, job, armed, strays, registered, in, token, runner>>

Offers(d) ==
  /\ At(d, "offer") /\ DGoes(d, "push")
  /\ \/ /\ dispatch[d].config.mode = "reschedule" /\ HasRoom(dispatch[d].runner)
        /\ token' = [token EXCEPT ![dispatch[d].runner] = TRUE]
     \/ dispatch[d].config.mode = "wait" /\ UNCHANGED token
  /\ UNCHANGED <<executor, job, armed, strays, registered, in, runner>>

(* Mutant: the queue has no limit.                                         *)
Pushes_Unbounded(d) ==
  /\ At(d, "push")
  /\ in' = [in EXCEPT ![dispatch[d].runner] = Append(@, dispatch[d].sendOut)]
  /\ IF dispatch[d].config.fromCompletion THEN DEnds(d) ELSE DGoes(d, "resched")
  /\ UNCHANGED <<executor, job, armed, strays, registered, token, runner>>

(* Into the runner's channel, which blocks when it is full; a job timed    *)
(* from its completion is not rescheduled here.                            *)
Pushes(d) ==
  /\ At(d, "push") /\ Len(in[dispatch[d].runner]) < QueueCap
  /\ in' = [in EXCEPT ![dispatch[d].runner] = Append(@, dispatch[d].sendOut)]
  /\ IF dispatch[d].config.fromCompletion THEN DEnds(d) ELSE DGoes(d, "resched")
  /\ UNCHANGED <<executor, job, armed, strays, registered, token, runner>>

DispatchReschedules(d) ==
  /\ At(d, "resched")
  /\ SendOutForRescheduling(dispatch[d].sendOut, dispatch[d].by)
  /\ DEnds(d)
  /\ UNCHANGED <<executor, job, strays, registered, in, token, runner>>

-----------------------------------------------------------------------------
(* The runner goroutine.                                                   *)

Is(r, pc) == runner[r] # None /\ runner[r].pc = pc
RGoes(r, pc) == runner' = [runner EXCEPT ![r].pc = pc]

(* A runner that takes a jobIn after the cancellation drops it; one that   *)
(* takes it after a restart goes on.                                       *)
Takes(r) ==
  /\ Is(r, "select") /\ in[r] # <<>>
  /\ in' = [in EXCEPT ![r] = Tail(@)]
  /\ IF ContextDone(starts)
     THEN RGoes(r, "gone")
     ELSE runner' = [runner EXCEPT ![r].pc = "got", ![r].ctx = starts,
                                   ![r].sendOut = Head(in[r])]
  /\ UNCHANGED <<executor, job, armed, strays, registered, token, dispatch>>

Leaves(r) ==
  /\ Is(r, "select") /\ ContextDone(runner[r].ctx)
  /\ RGoes(r, "gone")
  /\ UNCHANGED <<executor, job, armed, strays, registered, in, token, dispatch>>

(* Mutant: nothing is sent out after the completion either.                *)
Asks_NeverSent(r) ==
  /\ Is(r, "got")
  /\ \/ /\ SchedulerServes /\ job.present
        /\ runner' = [runner EXCEPT ![r].pc = "begin", ![r].version = job.version,
                                    ![r].era = Era, ![r].sendOut = FALSE]
     \/ (ContextDone(runner[r].ctx) \/ ~job.present) /\ RGoes(r, "release")
  /\ UNCHANGED <<executor, job, armed, strays, registered, in, token, dispatch>>

(* The run is of the version the scheduler has now, and the dispatch has   *)
(* already been sent out unless the job is timed from its completion.      *)
Asks(r) ==
  /\ Is(r, "got")
  /\ \/ /\ SchedulerServes /\ job.present
        /\ runner' = [runner EXCEPT ![r].pc = "begin", ![r].version = job.version,
                                    ![r].era = Era, ![r].sendOut = @ /\ job.config.fromCompletion]
     \/ (ContextDone(runner[r].ctx) \/ ~job.present) /\ RGoes(r, "release")
  /\ UNCHANGED <<executor, job, armed, strays, registered, in, token, dispatch>>

(* runJob up to the task.  The contexts are looked at once; an elector, a  *)
(* locker or the before-listener may refuse the run, which sends it out.   *)
JobContextDone(r) ==
  \/ ContextDone(starts)
  \/ ~job.present \/ runner[r].version # job.version \/ runner[r].era # Era

(* Mutant: the runner also receives from the limiter as it begins.         *)
Begins_Early(r) ==
  /\ Is(r, "begin")
  /\ token' = [token EXCEPT ![r] = FALSE]
  /\ \/ JobContextDone(r) /\ RGoes(r, "release")
     \/ ~JobContextDone(r) /\ \E pc \in {"task", "resched"} : RGoes(r, pc)
  /\ UNCHANGED <<executor, job, armed, strays, registered, in, dispatch>>

Begins(r) ==
  /\ Is(r, "begin")
  /\ \/ JobContextDone(r) /\ RGoes(r, "release")
     \/ ~JobContextDone(r) /\ \E pc \in {"task", "resched"} : RGoes(r, pc)
  /\ UNCHANGED <<executor, job, armed, strays, registered, in, token, dispatch>>

TaskReturns(r) ==
  /\ Is(r, "task")
  /\ RGoes(r, "resched")
  /\ UNCHANGED <<executor, job, armed, strays, registered, in, token, dispatch>>

RunnerReschedules(r) ==
  /\ Is(r, "resched")
  /\ SendOutForRescheduling(runner[r].sendOut, runner[r].ctx)
  /\ RGoes(r, "release")
  /\ UNCHANGED <<executor, job, strays, registered, in, token, dispatch>>

Idles(r) ==
  runner' = [runner EXCEPT ![r].pc = "select", ![r].ctx = starts, ![r].sendOut = FALSE,
                           ![r].version = 0, ![r].era = 0]

(* Mutant: the token is never given back.                                  *)
Releases_KeepsToken(r) ==
  /\ Is(r, "release")
  /\ Idles(r)
  /\ UNCHANGED <<executor, job, armed, strays, registered, in, token, dispatch>>

(* The receive from the limiter waits until there is a token in it.        *)
Releases(r) ==
  /\ Is(r, "release")
  /\ \/ runner[r].mode = "wait" /\ UNCHANGED token
     \/ /\ runner[r].mode = "reschedule" /\ token[r]
        /\ token' = [token EXCEPT ![r] = FALSE]
  /\ Idles(r)
  /\ UNCHANGED <<executor, job, armed, strays, registered, in, dispatch>>

DispatchStep(d) ==
  Requests(d) \/ Loads(d) \/ Stores(d) \/ StartsRunner(d) \/ Skips(d) \/ Offers(d) \/ Pushes(d)
  \/ DispatchReschedules(d)

RunnerStep(r) ==
  Takes(r) \/ Leaves(r) \/ Asks(r) \/ Begins(r) \/ TaskReturns(r)
  \/ RunnerReschedules(r) \/ Releases(r)

Next ==
  \/ RemovesJob \/ AddsJob \/ TimerFires \/ RunNow \/ Cancels \/ Blocks \/ Reports \/ Starts
  \/ \E d \in Dispatchers : DispatchStep(d)
  \/ \E r \in Runners : RunnerStep(r)

(* Goroutines are scheduled, timers fire, tasks return and an Update under *)
(* way comes to its end; nobody has to call RunNow or stop the scheduler.  *)
Fairness ==
  /\ WF_vars(TimerFires) /\ WF_vars(AddsJob) /\ WF_vars(Reports)
  /\ \A d \in Dispatchers : WF_vars(DispatchStep(d))
  /\ \A r \in Runners : WF_vars(RunnerStep(r))

Spec == Init /\ [][Next]_vars /\ Fairness

-----------------------------------------------------------------------------
(* Properties.                                                             *)

Running(r) == Is(r, "task")
Holds(r) == runner[r] # None /\ runner[r].pc \notin {"new", "select", "gone"}

(* The job's task never overlaps itself: WithSingletonMode "keeps the job  *)
(* from running again if it is already running" (job.go:820-822).          *)
SingletonExclusive == \A r, s \in Runners : Running(r) /\ Running(s) => r = s

(* That is so for the runs of one executor that its timers alone dispatch, *)
(* as long as nobody updates the job and no goroutine of an earlier        *)
(* executor interferes.                                                    *)
FirstRunsExclusive ==
  use.triggers = {"timer"} /\ use.versions = 1 /\ starts = 1 => SingletonExclusive

(* In reschedule mode the limiter holds a token exactly while one dispatch *)
(* is on its way into the runner, in its channel or in its hands, and      *)
(* never two: nothing queues up (executor.go:227-235, 411-414).  Only a    *)
(* runner that is going away at a stop keeps one.                          *)
TokenIsOneRun ==
  \A r \in Runners :
    (runner[r] # None /\ runner[r].pc # "gone" /\ runner[r].mode = "reschedule") =>
      Len(in[r])
      + Cardinality({d \in Dispatchers : At(d, "push") /\ dispatch[d].runner = r})
      + (IF Holds(r) THEN 1 ELSE 0)
      = (IF token[r] THEN 1 ELSE 0)

(* A dispatch that a singleton job skips is skipped because another is     *)
(* queued or running: "jobs reaching the limit [...] to be skipped"        *)
(* (scheduler.go:1278-1281).  What runners kept when the scheduler was     *)
(* stopped does not count after a restart.                                 *)
Busy(r) ==
  \/ in[r] # <<>> \/ Holds(r)
  \/ \E d \in Dispatchers : At(d, "push") /\ dispatch[d].runner = r

SkipsOnlyWhenBusy ==
  [][\A d \in Dispatchers :
       (At(d, "offer") /\ phase = "up" /\ dispatch[d].by = starts
          /\ dispatch'[d] # None /\ dispatch'[d].pc = "resched")
         => Busy(dispatch[d].runner)]_vars

(* As long as the executor is up, a job that has fired has its timer armed *)
(* again, or a goroutine is on its way to have it armed, whatever mode the *)
(* job is in, whoever runs it by hand or updates it meanwhile, and what    *)
(* ever is left over from before a restart (executor.go:231-257, 400-410,  *)
(* 524-527).  Goroutines of an earlier executor may give up on the way.    *)
WillRearm ==
  \/ armed
  \/ \E d \in Dispatchers :
       dispatch[d] # None /\ dispatch[d].sendOut /\ dispatch[d].by = starts
  \/ \E r \in Runners :
       /\ runner[r] # None /\ runner[r].pc # "gone" /\ runner[r].ctx = starts
       /\ \/ \E i \in 1 .. Len(in[r]) : in[r][i]
          \/ Holds(r) /\ runner[r].sendOut

NeverStranded == phase = "up" /\ job.present => WillRearm

(* A nil from StopJobs means that every singleton task the executor counts *)
(* has come to its end and that none it took starts any more, also after a *)
(* restart, whose context is not cancelled (executor.go:634-639).          *)
StoppedCleanly(k) ==
  /\ k \notin timedOut
  /\ k < starts \/ (k = starts /\ phase = "stopped")

StoppedMeansQuiet ==
  \A r \in Runners :
    Running(r) /\ runner[r].ctx = runner[r].group => ~StoppedCleanly(runner[r].group)

(* A runner comes back for the next dispatch, or ends: jobs in wait mode   *)
(* "wait in a queue until a slot becomes available to run"                 *)
(* (scheduler.go:1284-1286).                                               *)
RunnerComesBack ==
  \A r \in Runners : Holds(r) ~> (Is(r, "select") \/ Is(r, "gone"))

=============================================================================
