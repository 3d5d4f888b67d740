----------------------------- MODULE LimitMode -----------------------------
(***************************************************************************)
(* WithLimitConcurrentJobs: at most limit jobs of the scheduler run at a   *)
(* time.  Every dispatch is a goroutine of its own (executor.go:158-198).  *)
(* In reschedule mode it puts a token into rescheduleLimiter, of capacity  *)
(* limit, and its jobIn into the common queue, or is skipped when the      *)
(* limiter is full; in wait mode it always queues.  The limitModeRunners,  *)
(* limit of them, work on the queue; a job that is in singleton mode as    *)
(* well is kept out of a second runner by the set singletonJobs.           *)
(*                                                                         *)
(* Executors follow each other: the queue, the limiter, singletonJobs and  *)
(* the flag started belong to the scheduler and outlive a stop, and so may *)
(* the dispatches, and the runners that a stop has given up on; they read  *)
(* the e.ctx of the executor there is now.  Of the scheduler goroutine     *)
(* only what it serves is here: which jobs there are, whether each one's   *)
(* timer is armed, and that it serves nobody while it waits for the        *)
(* executor.  A timer is followed until StopJobs disarms it.               *)
(***************************************************************************)
EXTENDS Integers, Sequences, FiniteSets

CONSTANTS
  Jobs,            \* job ids
  Singletons,      \* those with WithSingletonMode
  FromCompletion,  \* those with WithIntervalFromCompletion
  Removable,       \* those that may be removed
  ByHand,          \* those RunNow may be called for
  Limit,           \* limitMode.limit
  Modes,           \* limitMode.mode may be one of these
  QueueCap,        \* defaultLimitModeQueueBuffer
  Dispatchers,     \* goroutines that bring one dispatch to the queue
  Runners,         \* goroutines of limitModeRunner
  MaxStarts,       \* bound on the executors
  Hasty,           \* modes in which a stop may be given up, or overtaken by Start
  None

ASSUME LimitAssumption ==
  /\ Limit \in Nat \ {0} /\ QueueCap \in Nat \ {0} /\ MaxStarts \in Nat \ {0}
  /\ Modes \subseteq {"reschedule", "wait"} /\ Hasty \subseteq Modes
  /\ Singletons \subseteq Jobs /\ FromCompletion \subseteq Jobs
  /\ Removable \subseteq Jobs /\ ByHand \subseteq Jobs
  /\ IsFiniteSet(Dispatchers) /\ IsFiniteSet(Runners)
  /\ None \notin Jobs

VARIABLES
  mode,           \* limitMode.mode: fixed
  phase,          \* the executor: up, its context cancelled, or what it reported
  executor,       \* which one it is
  resetting,      \* executors that have reported, but not yet reset started
  started,        \* limitMode.started
  present,        \* s.jobs
  armed,          \* jobs whose timer is armed
  limiter,        \* tokens in rescheduleLimiter
  in,             \* limitMode.in, buffered
  singletonJobs,  \* limitMode.singletonJobs
  runner,         \* the runner goroutines
  dispatch        \* the dispatch goroutines

vars == <<mode, phase, executor, resetting, started, present, armed, limiter, in,
          singletonJobs, runner, dispatch>>

(* What the scheduler owns, and what the executors share.                  *)
table == <<present, armed>>
lifecycle == <<mode, phase, executor, resetting>>

JobIns == [job : Jobs, sendOut : BOOLEAN]
Steps == {"resched", "task"}

(* executor is the one whose wait group counts the runner; live is FALSE   *)
(* when the context of its copy of the job has been cancelled; todo is     *)
(* what runJob still has to do.                                            *)
RunnerType ==
  [pc : {"select", "got", "check", "refuse", "begin", "run", "release"},
   executor : 1 .. MaxStarts, jobIn : JobIns \cup {None}, live : BOOLEAN, todo : Seq(Steps)]

DispatchType == [pc : {"offer", "push", "resched"}, jobIn : JobIns]

ASSUME NoneAssumption ==
  None \notin JobIns /\ None \notin RunnerType /\ None \notin DispatchType

TypeOK ==
  /\ mode \in Modes
  /\ phase \in {"up", "cancelled", "nil", "timeout"}
  /\ executor \in 1 .. MaxStarts
  /\ resetting \subseteq 1 .. MaxStarts
  /\ started \in BOOLEAN
  /\ armed \subseteq present /\ present \subseteq Jobs
  /\ limiter \in 0 .. Limit
  /\ in \in Seq(JobIns) /\ Len(in) <= QueueCap
  /\ singletonJobs \subseteq Jobs
  /\ runner \in [Runners -> RunnerType \cup {None}]
  /\ dispatch \in [Dispatchers -> DispatchType \cup {None}]

Init ==
  /\ mode \in Modes
  /\ phase = "up" /\ executor = 1 /\ resetting = {} /\ started = FALSE
  /\ present = Jobs /\ armed = Jobs
  /\ limiter = 0 /\ in = <<>> /\ singletonJobs = {}
  /\ runner = [r \in Runners |-> None]
  /\ dispatch = [d \in Dispatchers |-> None]

-----------------------------------------------------------------------------
(* What the scheduler goroutine serves.                                    *)

SchedulerServes == phase # "cancelled"
ContextDone == phase # "up"

(* sendOutForRescheduling, and selectExecJobsOutForRescheduling at the     *)
(* other end: a job that is still there gets a timer.  After is what it    *)
(* makes of jobIn: it need not be sent out again, except that the context, *)
(* once done, makes it return before it says so.                           *)
SendOutForRescheduling(jobIn, after) ==
  \/ /\ after = [jobIn EXCEPT !.sendOut = FALSE]
     /\ jobIn.sendOut => SchedulerServes
     /\ armed' = IF jobIn.sendOut THEN armed \cup ({jobIn.job} \cap present) ELSE armed
  \/ /\ after = jobIn
     /\ jobIn.sendOut /\ ContextDone /\ UNCHANGED armed

(* Runners that have a copy of one of the jobs see its context cancelled.  *)
Cancelled(js) ==
  [r \in Runners |->
     IF runner[r] # None /\ runner[r].jobIn # None /\ runner[r].jobIn.job \in js
     THEN [runner[r] EXCEPT !.live = FALSE] ELSE runner[r]]

RemovesJob(j) ==
  /\ SchedulerServes /\ j \in present \cap Removable
  /\ present' = present \ {j} /\ armed' = armed \ {j}
  /\ runner' = Cancelled({j})
  /\ UNCHANGED <<lifecycle, started, limiter, in, singletonJobs, dispatch>>

(* StopJobs, as far as the executor's cancel and the cancelling of jobs.   *)
Cancels ==
  /\ phase = "up" /\ phase' = "cancelled"
  /\ armed' = {} /\ runner' = Cancelled(Jobs)
  /\ UNCHANGED <<mode, executor, resetting, started, present, limiter, in,
                 singletonJobs, dispatch>>

(* Mutant: the runners are not waited for.                                 *)
Reports_NoWait ==
  /\ phase = "cancelled" /\ phase' = "nil"
  /\ resetting' = resetting \cup {executor}
  /\ UNCHANGED <<mode, executor, started, table, limiter, in, singletonJobs, runner,
                 dispatch>>

(* limitModeJobsWg is the executor's own, and counts only its runners.     *)
AllDone == {r \in Runners : runner[r] # None /\ runner[r].executor = executor} = {}

Reports ==
  /\ phase = "cancelled"
  /\ \/ AllDone /\ phase' = "nil"
     \/ mode \in Hasty /\ phase' = "timeout"
  /\ resetting' = resetting \cup {executor}
  /\ UNCHANGED <<mode, executor, started, table, limiter, in, singletonJobs, runner,
                 dispatch>>

(* The last thing executor.stop does; the report is out already, and       *)
(* another executor may have been started.                                 *)
Resets(x) ==
  /\ x \in resetting
  /\ resetting' = resetting \ {x} /\ started' = FALSE
  /\ UNCHANGED <<mode, phase, executor, table, limiter, in, singletonJobs, runner,
                 dispatch>>

(* selectStart: a new executor, and every job gets its first run.          *)
Starts ==
  /\ phase \in {"nil", "timeout"} /\ executor < MaxStarts
  /\ resetting # {} => mode \in Hasty
  /\ phase' = "up" /\ executor' = executor + 1
  /\ armed' = present
  /\ UNCHANGED <<mode, resetting, started, present, limiter, in, singletonJobs, runner,
                 dispatch>>

-----------------------------------------------------------------------------
(* The executor: the first jobIn starts the runners, each one a goroutine  *)
(* that takes it to the queue.                                             *)

NewRunner ==
  [pc |-> "select", executor |-> executor, jobIn |-> None, live |-> TRUE, todo |-> <<>>]

StartsRunners ==
  IF started THEN UNCHANGED <<started, runner>>
  ELSE /\ \E new \in SUBSET {r \in Runners : runner[r] = None} :
            /\ Cardinality(new) = Limit
            /\ runner' = [r \in Runners |-> IF r \in new THEN NewRunner ELSE runner[r]]
       /\ started' = TRUE

Dispatches(j, sendOut) ==
  /\ StartsRunners
  /\ \E d \in Dispatchers :
       /\ dispatch[d] = None
       /\ dispatch' = [dispatch EXCEPT ![d] =
            [pc |-> IF mode = "reschedule" THEN "offer" ELSE "resched",
             jobIn |-> [job |-> j, sendOut |-> sendOut]]]
  /\ UNCHANGED <<lifecycle, present, limiter, in, singletonJobs>>

TimerFires(j) ==
  /\ phase = "up" /\ j \in armed /\ armed' = armed \ {j}
  /\ Dispatches(j, TRUE)

RunNow(j) ==
  /\ phase = "up" /\ j \in present \cap ByHand /\ UNCHANGED armed
  /\ Dispatches(j, FALSE)

-----------------------------------------------------------------------------
(* The dispatch goroutine.                                                 *)

At(d, pc) == dispatch[d] # None /\ dispatch[d].pc = pc
DEnds(d) == dispatch' = [dispatch EXCEPT ![d] = None]

(* Mutant: a full limiter keeps nobody out.                                *)
Offers_Always(d) ==
  /\ At(d, "offer")
  /\ limiter' = IF limiter < Limit THEN limiter + 1 ELSE limiter
  /\ dispatch' = [dispatch EXCEPT ![d].pc = "push"]
  /\ UNCHANGED <<lifecycle, started, table, in, singletonJobs, runner>>

(* The send to the limiter, or the select's default.                       *)
Offers(d) ==
  /\ At(d, "offer")
  /\ \/ /\ limiter < Limit /\ limiter' = limiter + 1
        /\ dispatch' = [dispatch EXCEPT ![d].pc = "push"]
     \/ /\ limiter = Limit /\ UNCHANGED limiter
        /\ dispatch' = [dispatch EXCEPT ![d].pc = "resched"]
  /\ UNCHANGED <<lifecycle, started, table, in, singletonJobs, runner>>

(* Mutant: a skipped dispatch is forgotten.                                *)
DispatchReschedules_Never(d) ==
  /\ At(d, "resched")
  /\ IF mode = "reschedule"
     THEN DEnds(d) /\ UNCHANGED armed
     ELSE \E jobIn \in JobIns :
            /\ SendOutForRescheduling(dispatch[d].jobIn, jobIn)
            /\ dispatch' = [dispatch EXCEPT ![d].pc = "push", ![d].jobIn = jobIn]
  /\ UNCHANGED <<lifecycle, started, present, limiter, in, singletonJobs, runner>>

(* Mutant: a dispatch that goes on to the queue is sent out again there.   *)
DispatchReschedules_Twice(d) ==
  /\ At(d, "resched")
  /\ \E jobIn \in JobIns : SendOutForRescheduling(dispatch[d].jobIn, jobIn)
  /\ IF mode = "reschedule" THEN DEnds(d)
     ELSE dispatch' = [dispatch EXCEPT ![d].pc = "push"]
  /\ UNCHANGED <<lifecycle, started, present, limiter, in, singletonJobs, runner>>

(* A skipped dispatch ends; in wait mode it goes on to the queue, and runJob *)
(* need not send it out, unless the context was done here.                 *)
DispatchReschedules(d) ==
  /\ At(d, "resched")
  /\ \E jobIn \in JobIns :
       /\ SendOutForRescheduling(dispatch[d].jobIn, jobIn)
       /\ IF mode = "reschedule" THEN DEnds(d)
          ELSE dispatch' = [dispatch EXCEPT ![d].pc = "push", ![d].jobIn = jobIn]
  /\ UNCHANGED <<lifecycle, started, present, limiter, in, singletonJobs, runner>>

(* Mutant: the queue has no limit.                                         *)
Pushes_Unbounded(d) ==
  /\ At(d, "push")
  /\ in' = Append(in, dispatch[d].jobIn)
  /\ DEnds(d)
  /\ UNCHANGED <<lifecycle, started, table, limiter, singletonJobs, runner>>

(* The queue blocks when it is full, and no context ends the wait.         *)
Pushes(d) ==
  /\ At(d, "push") /\ Len(in) < QueueCap
  /\ in' = Append(in, dispatch[d].jobIn)
  /\ DEnds(d)
  /\ UNCHANGED <<lifecycle, started, table, limiter, singletonJobs, runner>>

DispatchStep(d) == Offers(d) \/ DispatchReschedules(d) \/ Pushes(d)

-----------------------------------------------------------------------------
(* The runner goroutine.                                                   *)

Is(r, pc) == runner[r] # None /\ runner[r].pc = pc
RGoes(r, pc) == runner' = [runner EXCEPT ![r].pc = pc]
REnds(r) == runner' = [runner EXCEPT ![r] = None]
JobOf(r) == runner[r].jobIn.job

(* A runner that takes a jobIn after the cancellation drops it, and its    *)
(* token stays in the limiter.                                             *)
Takes(r) ==
  /\ Is(r, "select") /\ in # <<>>
  /\ in' = Tail(in)
  /\ IF ContextDone THEN REnds(r)
     ELSE runner' = [runner EXCEPT ![r].pc = "got", ![r].jobIn = Head(in)]
  /\ UNCHANGED <<lifecycle, started, table, limiter, singletonJobs, dispatch>>

Leaves(r) ==
  /\ Is(r, "select") /\ ContextDone
  /\ REnds(r)
  /\ UNCHANGED <<lifecycle, started, table, limiter, in, singletonJobs, dispatch>>

(* requestJobCtx: no job when the context is done; a job that has been     *)
(* removed comes back empty, and runJob returns at once.                   *)
Asks(r) ==
  /\ Is(r, "got")
  /\ \/ /\ SchedulerServes /\ JobOf(r) \in present
        /\ runner' = [runner EXCEPT ![r].live = TRUE,
             ![r].pc = IF JobOf(r) \in Singletons THEN "check" ELSE "begin"]
     \/ (ContextDone \/ JobOf(r) \notin present) /\ RGoes(r, "release")
  /\ UNCHANGED <<lifecycle, started, table, limiter, in, singletonJobs, dispatch>>

(* Mutant: nobody looks whether the job is running.                        *)
Checks_Never(r) ==
  /\ Is(r, "check")
  /\ singletonJobs' = singletonJobs \cup {JobOf(r)} /\ RGoes(r, "begin")
  /\ UNCHANGED <<lifecycle, started, table, limiter, in, dispatch>>

(* Under singletonJobsMu.                                                  *)
Checks(r) ==
  /\ Is(r, "check")
  /\ \/ /\ JobOf(r) \in singletonJobs
        /\ RGoes(r, "refuse") /\ UNCHANGED singletonJobs
     \/ /\ JobOf(r) \notin singletonJobs
        /\ singletonJobs' = singletonJobs \cup {JobOf(r)} /\ RGoes(r, "begin")
  /\ UNCHANGED <<lifecycle, started, table, limiter, in, dispatch>>

(* The job runs elsewhere: it is sent out for its next run.                *)
Refuses(r) ==
  /\ Is(r, "refuse")
  /\ \/ \E jobIn \in JobIns : SendOutForRescheduling(runner[r].jobIn, jobIn)
     \/ ~runner[r].live /\ UNCHANGED armed
  /\ RGoes(r, "release")
  /\ UNCHANGED <<lifecycle, started, present, limiter, in, singletonJobs, dispatch>>

(* runJob: both contexts are looked at once; an elector, a locker or a     *)
(* listener may refuse the run, which sends it out all the same.           *)
Path(j) ==
  IF j \in FromCompletion THEN {<<"task", "resched">>, <<"resched">>}
  ELSE {<<"resched", "task">>, <<"resched">>}

Begins(r) ==
  /\ Is(r, "begin")
  /\ \/ /\ ContextDone \/ ~runner[r].live
        /\ RGoes(r, "run")
     \/ /\ ~ContextDone /\ runner[r].live
        /\ \E todo \in Path(JobOf(r)) :
             runner' = [runner EXCEPT ![r].pc = "run", ![r].todo = todo]
  /\ UNCHANGED <<lifecycle, started, table, limiter, in, singletonJobs, dispatch>>

Doing(r, step) == Is(r, "run") /\ runner[r].todo # <<>> /\ Head(runner[r].todo) = step

RunReschedules(r) ==
  /\ Doing(r, "resched")
  /\ \E jobIn \in JobIns :
       /\ SendOutForRescheduling(runner[r].jobIn, jobIn)
       /\ runner' = [runner EXCEPT ![r].todo = Tail(@), ![r].jobIn = jobIn]
  /\ UNCHANGED <<lifecycle, started, present, limiter, in, singletonJobs, dispatch>>

TaskReturns(r) ==
  /\ Doing(r, "task")
  /\ runner' = [runner EXCEPT ![r].todo = Tail(@)]
  /\ UNCHANGED <<lifecycle, started, table, limiter, in, singletonJobs, dispatch>>

(* Mutant: the job stays in singletonJobs when its run was not made.       *)
Finishes_NoDelete(r) ==
  /\ Is(r, "run") /\ runner[r].todo = <<>>
  /\ singletonJobs' = IF runner[r].live THEN singletonJobs \ {JobOf(r)} ELSE singletonJobs
  /\ RGoes(r, "release")
  /\ UNCHANGED <<lifecycle, started, table, limiter, in, dispatch>>

Finishes(r) ==
  /\ Is(r, "run") /\ runner[r].todo = <<>>
  /\ singletonJobs' = singletonJobs \ {JobOf(r)}
  /\ RGoes(r, "release")
  /\ UNCHANGED <<lifecycle, started, table, limiter, in, dispatch>>

(* The receive from the limiter waits until there is a token in it.        *)
Releases(r) ==
  /\ Is(r, "release")
  /\ \/ mode = "wait" /\ UNCHANGED limiter
     \/ mode = "reschedule" /\ limiter > 0 /\ limiter' = limiter - 1
  /\ runner' = [runner EXCEPT ![r] = [NewRunner EXCEPT !.executor = runner[r].executor]]
  /\ UNCHANGED <<lifecycle, started, table, in, singletonJobs, dispatch>>

RunnerStep(r) ==
  \/ Takes(r) \/ Leaves(r) \/ Asks(r) \/ Checks(r) \/ Refuses(r) \/ Begins(r)
  \/ RunReschedules(r) \/ TaskReturns(r) \/ Finishes(r) \/ Releases(r)

Next ==
  \/ \E j \in Jobs : RemovesJob(j) \/ TimerFires(j) \/ RunNow(j)
  \/ Cancels \/ Reports \/ Starts \/ \E x \in resetting : Resets(x)
  \/ \E d \in Dispatchers : DispatchStep(d)
  \/ \E r \in Runners : RunnerStep(r)

Spec == Init /\ [][Next]_vars

-----------------------------------------------------------------------------
(* Properties.                                                             *)

Holds(r) == runner[r] # None /\ runner[r].pc # "select"
JobsOf(queue) == [i \in 1 .. Len(queue) |-> queue[i].job]
Pushing == {d \in Dispatchers : At(d, "push")}
Working == {r \in Runners : Holds(r)}

(* The queue and the runners are slots of which at most Limit are in use,  *)
(* in both modes, whoever stops and starts the scheduler: "limiting the    *)
(* number of jobs that may be running at a given time"                     *)
(* (scheduler.go:1311-1313, executor.go:303-314).                          *)
LimitedSlots == INSTANCE Slots WITH
  Workers <- Runners,
  open    <- phase = "up",
  waiting <- JobsOf(in),
  working <- [r \in Runners |-> IF Holds(r) THEN JobOf(r) ELSE None]

ImplementsSlots == LimitedSlots!Spec

(* In reschedule mode every dispatch that waits or is worked on has a      *)
(* token of its own, so that the receive that ends its run never waits;    *)
(* and until a stop no token is without one, so that no dispatch is        *)
(* skipped below the limit (executor.go:167-189, 346-369).                 *)
TokensCoverWork ==
  LET work == Len(in) + Cardinality(Pushing) + Cardinality(Working) IN
  mode = "reschedule" =>
    /\ work <= limiter
    /\ executor = 1 /\ phase = "up" => work = limiter

(* A job in singleton mode as well is in one runner at a time, over        *)
(* restarts and stops that gave up too, and the set forgets it as soon as  *)
(* it is in none: otherwise it would never run again                       *)
(* (executor.go:332-356, 359-363).                                         *)
InSingleton(r) == Holds(r) /\ JobOf(r) \in Singletons /\ runner[r].pc \in {"begin", "run"}

SingletonsRunOnce ==
  /\ \A r, s \in Runners : InSingleton(r) /\ InSingleton(s) /\ JobOf(r) = JobOf(s) => r = s
  /\ singletonJobs = {JobOf(r) : r \in {q \in Runners : InSingleton(q)}}

(* While the executor is up, a job that has fired has its timer armed      *)
(* again or is on its way to have it armed, whether it is skipped, queued, *)
(* refused as a singleton or run (executor.go:188, 196, 339-345, 441-568). *)
WillRearm(j) ==
  \/ j \in armed
  \/ \E d \in Dispatchers : dispatch[d] # None /\ dispatch[d].jobIn = [job |-> j, sendOut |-> TRUE]
  \/ \E i \in 1 .. Len(in) : in[i] = [job |-> j, sendOut |-> TRUE]
  \/ \E r \in Working : runner[r].jobIn = [job |-> j, sendOut |-> TRUE]

NeverStranded == phase = "up" => \A j \in present : WillRearm(j)

(* Until the scheduler is started again, a job is in line for one run:     *)
(* its timer is armed, or one dispatch, queue entry or run is still to     *)
(* have it armed, and no two of these: "we don't want to send out twice"   *)
(* (executor.go:283-293, 335-345).                                         *)
InLine(j) ==
  LET due == [job |-> j, sendOut |-> TRUE] IN
    ({"timer"} \X {t \in {j} : t \in armed})
  \cup ({"dispatch"} \X {d \in Dispatchers : dispatch[d] # None /\ dispatch[d].jobIn = due})
  \cup ({"queue"} \X {i \in 1 .. Len(in) : in[i] = due})
  \cup ({"runner"} \X {r \in Working : runner[r].jobIn = due /\ runner[r].pc # "release"})

InLineOnce == executor = 1 => \A j \in Jobs : Cardinality(InLine(j)) <= 1

(* A nil from StopJobs means that every task has come to its end and that  *)
(* no dispatch still on its way starts one, unless an earlier stop had     *)
(* already given up on it (executor.go:649-655).                           *)
StoppedMeansQuiet ==
  phase = "nil" => \A r \in Runners : Holds(r) => runner[r].executor < executor

(* While the executor is up, only a dispatch that finds the limit reached  *)
(* is skipped: "jobs reaching the limit [...] to be skipped"               *)
(* (scheduler.go:1278-1281).                                               *)
SkipsOnlyAtTheLimit ==
  [][\A d \in Dispatchers :
       At(d, "offer") /\ phase = "up" /\ dispatch'[d] # None /\ dispatch'[d].pc = "resched"
         => Len(in) + Cardinality(Pushing) + Cardinality(Working) >= Limit]_vars

=============================================================================
