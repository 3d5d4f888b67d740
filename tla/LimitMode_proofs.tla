-------------------------- MODULE LimitMode_proofs --------------------------
(***************************************************************************)
(* Theorems about LimitMode, for every limit, every number of jobs,        *)
(* dispatches, runners and executors, and stops that may be given up or    *)
(* overtaken by the next Start: the tokens cover the work, so that at most *)
(* limit jobs run; LimitMode implements Slots; a job that is in singleton  *)
(* mode as well is in one runner at a time; a nil from StopJobs means that *)
(* all is quiet; and no job is ever stranded.                              *)
(***************************************************************************)
EXTENDS LimitMode, FiniteSetTheorems, SequenceTheorems, TLAPS

-----------------------------------------------------------------------------
(* Type correctness.                                                       *)

RunnerTypes(rn) == rn \in [Runners -> RunnerType \cup {None}]

LEMMA CancelledType ==
  ASSUME RunnerTypes(runner), NEW js
  PROVE  RunnerTypes(Cancelled(js))
  BY NoneAssumption DEF RunnerTypes, Cancelled, RunnerType

LEMMA NewRunnerType ==
  ASSUME executor \in 1 .. MaxStarts
  PROVE  NewRunner \in RunnerType
  BY DEF NewRunner, RunnerType

LEMMA StartsRunnersType ==
  ASSUME TypeOK, StartsRunners
  PROVE  RunnerTypes(runner') /\ started' \in BOOLEAN
  BY NewRunnerType DEF TypeOK, StartsRunners, RunnerTypes

LEMMA SendOutType ==
  ASSUME TypeOK, NEW jobIn \in JobIns, NEW after \in JobIns,
         SendOutForRescheduling(jobIn, after)
  PROVE  armed' \subseteq present /\ after.job = jobIn.job
  BY DEF TypeOK, SendOutForRescheduling, JobIns

LEMMA DispatchesType ==
  ASSUME TypeOK, NEW j \in Jobs, NEW b \in BOOLEAN, Dispatches(j, b)
  PROVE  /\ dispatch' \in [Dispatchers -> DispatchType \cup {None}]
         /\ RunnerTypes(runner') /\ started' \in BOOLEAN
<1>1. \A pc \in {"offer", "resched"} :
        [pc |-> pc, jobIn |-> [job |-> j, sendOut |-> b]] \in DispatchType
  BY DEF DispatchType, JobIns
<1> QED
  BY <1>1, StartsRunnersType DEF Dispatches, TypeOK

LEMMA InitType == Init => TypeOK
<1> SUFFICES ASSUME Init PROVE TypeOK
  OBVIOUS
<1>1. in \in Seq(JobIns) /\ Len(in) <= QueueCap
  BY LimitAssumption DEF Init
<1>2. executor \in 1 .. MaxStarts /\ limiter \in 0 .. Limit
  BY LimitAssumption DEF Init
<1>3. /\ runner \in [Runners -> RunnerType \cup {None}]
      /\ dispatch \in [Dispatchers -> DispatchType \cup {None}]
  BY DEF Init
<1> QED
  BY <1>1, <1>2, <1>3 DEF Init, TypeOK

LEMMA SchedulerTypes ==
  ASSUME TypeOK,
         \/ \E j \in Jobs : RemovesJob(j) \/ TimerFires(j) \/ RunNow(j)
         \/ Cancels \/ Reports \/ Starts \/ \E x \in resetting : Resets(x)
  PROVE  TypeOK'
<1>1. ASSUME NEW j \in Jobs, RemovesJob(j)
      PROVE  TypeOK'
  <2>1. RunnerTypes(runner')
    BY <1>1, CancelledType DEF TypeOK, RunnerTypes, RemovesJob
  <2> QED
    BY <1>1, <2>1 DEF TypeOK, RunnerTypes, RemovesJob, lifecycle
<1>2. ASSUME NEW j \in Jobs, TimerFires(j)
      PROVE  TypeOK'
  BY <1>2, DispatchesType DEF TypeOK, RunnerTypes, TimerFires, Dispatches, lifecycle
<1>3. ASSUME NEW j \in Jobs, RunNow(j)
      PROVE  TypeOK'
  BY <1>3, DispatchesType DEF TypeOK, RunnerTypes, RunNow, Dispatches, lifecycle
<1>4. CASE Cancels
  <2>1. RunnerTypes(runner')
    BY <1>4, CancelledType DEF TypeOK, RunnerTypes, Cancels
  <2> QED
    BY <1>4, <2>1 DEF TypeOK, RunnerTypes, Cancels
<1>5. CASE Reports
  BY <1>5 DEF TypeOK, Reports, table
<1>6. CASE Starts
  BY <1>6, LimitAssumption DEF TypeOK, Starts
<1>7. ASSUME NEW x \in resetting, Resets(x)
      PROVE  TypeOK'
  BY <1>7 DEF TypeOK, Resets, table
<1> QED
  BY <1>1, <1>2, <1>3, <1>4, <1>5, <1>6, <1>7

LEMMA DispatchTypes ==
  ASSUME TypeOK, NEW d \in Dispatchers, DispatchStep(d)
  PROVE  TypeOK'
<1> USE DEF At
<1>0. dispatch[d] \in DispatchType /\ dispatch[d].jobIn \in JobIns
  BY DEF DispatchStep, Offers, DispatchReschedules, Pushes, TypeOK, DispatchType
<1>1. CASE Offers(d)
  BY <1>0, <1>1, LimitAssumption
    DEF Offers, TypeOK, DispatchType, lifecycle, table
<1>2. CASE DispatchReschedules(d)
  <2>0. PICK jobIn \in JobIns :
          /\ SendOutForRescheduling(dispatch[d].jobIn, jobIn)
          /\ IF mode = "reschedule" THEN DEnds(d)
             ELSE dispatch' = [dispatch EXCEPT ![d].pc = "push", ![d].jobIn = jobIn]
    BY <1>2 DEF DispatchReschedules
  <2>1. armed' \subseteq present
    BY <1>0, <2>0, SendOutType
  <2>2. [dispatch[d] EXCEPT !.pc = "push", !.jobIn = jobIn] \in DispatchType
    BY <1>0 DEF DispatchType
  <2>3. dispatch' \in [Dispatchers -> DispatchType \cup {None}]
    BY <2>0, <2>2 DEF DEnds, TypeOK
  <2> QED
    BY <1>2, <2>1, <2>3 DEF DispatchReschedules, TypeOK, lifecycle
<1>3. CASE Pushes(d)
  <2>1. in' \in Seq(JobIns) /\ Len(in') <= QueueCap
    BY <1>0, <1>3, AppendProperties, LimitAssumption DEF Pushes, TypeOK
  <2>2. dispatch' \in [Dispatchers -> DispatchType \cup {None}]
    BY <1>3 DEF Pushes, DEnds, TypeOK
  <2> QED
    BY <1>3, <2>1, <2>2 DEF Pushes, TypeOK, lifecycle, table
<1> QED
  BY <1>1, <1>2, <1>3 DEF DispatchStep

(* A runner that has taken a jobIn has it until it is done with it.        *)
HandsFull ==
  \A r \in Runners : Holds(r) => runner[r].jobIn \in JobIns

(* Between the take and the release a runner keeps its job.                *)
RunsOn(r) ==
  \/ Asks(r) \/ Checks(r) \/ Refuses(r) \/ Begins(r) \/ RunReschedules(r)
  \/ TaskReturns(r) \/ Finishes(r)

LEMMA RunKeepsJob ==
  ASSUME TypeOK, HandsFull, NEW r \in Runners, RunsOn(r)
  PROVE  /\ Holds(r) /\ Holds(r)'
         /\ runner[r].jobIn \in JobIns
         /\ runner'[r].jobIn \in JobIns /\ JobOf(r)' = JobOf(r)
         /\ \A q \in Runners \ {r} : runner'[q] = runner[q]
         /\ RunnerTypes(runner')
<1> USE DEF RunsOn, Is, Holds, JobOf
<1>1. runner[r] \in RunnerType /\ runner[r].pc # "select" /\ runner[r].jobIn \in JobIns
  BY NoneAssumption
    DEF Asks, Checks, Refuses, Begins, RunReschedules, TaskReturns, Finishes, Doing, TypeOK,
        HandsFull
<1>2. ASSUME NEW u \in RunnerType, runner' = [runner EXCEPT ![r] = u], u.pc # "select",
             u.jobIn \in JobIns, u.jobIn.job = runner[r].jobIn.job
      PROVE  /\ Holds(r) /\ Holds(r)'
             /\ runner[r].jobIn \in JobIns
             /\ runner'[r].jobIn \in JobIns /\ JobOf(r)' = JobOf(r)
             /\ \A q \in Runners \ {r} : runner'[q] = runner[q]
             /\ RunnerTypes(runner')
  BY <1>1, <1>2, NoneAssumption DEF TypeOK, RunnerTypes
<1>3. ASSUME NEW u \in RunnerType, runner' = [runner EXCEPT ![r] = u], u.pc # "select",
             u.jobIn = runner[r].jobIn
      PROVE  /\ Holds(r) /\ Holds(r)'
             /\ runner[r].jobIn \in JobIns
             /\ runner'[r].jobIn \in JobIns /\ JobOf(r)' = JobOf(r)
             /\ \A q \in Runners \ {r} : runner'[q] = runner[q]
             /\ RunnerTypes(runner')
  BY <1>1, <1>2, <1>3
<1>4. ASSUME NEW pc \in {"check", "refuse", "begin", "run", "release"}, RGoes(r, pc)
      PROVE  \E u \in RunnerType : /\ runner' = [runner EXCEPT ![r] = u]
                                   /\ u.pc # "select" /\ u.jobIn = runner[r].jobIn
  <2>1. [runner[r] EXCEPT !.pc = pc] \in RunnerType
    BY <1>1 DEF RunnerType
  <2>2. [runner[r] EXCEPT !.pc = pc].pc # "select"
        /\ [runner[r] EXCEPT !.pc = pc].jobIn = runner[r].jobIn
    BY <1>1 DEF RunnerType
  <2> QED
    BY <1>4, <2>1, <2>2 DEF RGoes
<1>5. CASE Checks(r) \/ Refuses(r) \/ Finishes(r)
  <2>1. RGoes(r, "refuse") \/ RGoes(r, "begin") \/ RGoes(r, "release")
    BY <1>5 DEF Checks, Refuses, Finishes
  <2> QED
    BY <1>3, <1>4, <2>1
<1>6. CASE Asks(r)
  <2> DEFINE u == [runner[r] EXCEPT !.live = TRUE,
                     !.pc = IF JobOf(r) \in Singletons THEN "check" ELSE "begin"]
  <2>1. u \in RunnerType /\ u.pc # "select" /\ u.jobIn = runner[r].jobIn
    BY <1>1 DEF RunnerType
  <2>2. runner' = [runner EXCEPT ![r] = u] \/ RGoes(r, "release")
    BY <1>6 DEF Asks
  <2> HIDE DEF u
  <2> QED
    BY <1>3, <1>4, <2>1, <2>2
<1>7. CASE Begins(r)
  <2>1. \A todo \in Path(JobOf(r)) : todo \in Seq(Steps)
    <3>1. <<"task", "resched">> \in Seq(Steps) /\ <<"resched", "task">> \in Seq(Steps)
      BY DEF Steps
    <3>2. <<"resched">> \in Seq(Steps)
      BY DEF Steps
    <3> QED
      BY <3>1, <3>2 DEF Path
  <2> DEFINE u(todo) == [runner[r] EXCEPT !.pc = "run", !.todo = todo]
  <2>2. ASSUME NEW todo \in Seq(Steps)
        PROVE  u(todo) \in RunnerType /\ u(todo).pc # "select" /\ u(todo).jobIn = runner[r].jobIn
    BY <1>1 DEF RunnerType
  <2>3. RGoes(r, "run") \/ \E todo \in Path(JobOf(r)) : runner' = [runner EXCEPT ![r] = u(todo)]
    BY <1>7 DEF Begins
  <2> HIDE DEF u
  <2> QED
    BY <1>3, <1>4, <2>1, <2>2, <2>3
<1>8. ASSUME Is(r, "run"), runner[r].todo # <<>>
      PROVE  Tail(runner[r].todo) \in Seq(Steps)
  BY <1>1, <1>8, HeadTailProperties DEF RunnerType
<1>9. CASE TaskReturns(r)
  <2> DEFINE u == [runner[r] EXCEPT !.todo = Tail(@)]
  <2>1. u \in RunnerType /\ u.pc # "select" /\ u.jobIn = runner[r].jobIn
    BY <1>8, <1>1, <1>9 DEF TaskReturns, Doing, RunnerType
  <2>2. runner' = [runner EXCEPT ![r] = u]
    BY <1>9 DEF TaskReturns
  <2> HIDE DEF u
  <2> QED
    BY <1>3, <2>1, <2>2
<1>10. CASE RunReschedules(r)
  <2>0. PICK jobIn \in JobIns :
          /\ SendOutForRescheduling(runner[r].jobIn, jobIn)
          /\ runner' = [runner EXCEPT ![r].todo = Tail(@), ![r].jobIn = jobIn]
    BY <1>10 DEF RunReschedules
  <2> DEFINE u == [runner[r] EXCEPT !.todo = Tail(@), !.jobIn = jobIn]
  <2>1. u \in RunnerType /\ u.pc # "select" /\ u.jobIn \in JobIns
        /\ u.jobIn.job = runner[r].jobIn.job
    BY <1>8, <1>1, <1>10, <2>0, SendOutType DEF RunReschedules, Doing, RunnerType
  <2>2. runner' = [runner EXCEPT ![r] = u]
    BY <2>0
  <2> HIDE DEF u
  <2> QED
    BY <1>2, <2>1, <2>2
<1> QED
  BY <1>5, <1>6, <1>7, <1>9, <1>10

(* A runner that goes on has the head of the queue in hands.               *)
LEMMA TakesHead ==
  ASSUME TypeOK, NEW r \in Runners, Takes(r)
  PROVE  /\ in # <<>> /\ Head(in) \in JobIns /\ Len(in) \in Nat
         /\ in' \in Seq(JobIns) /\ Len(in') = Len(in) - 1
         /\ \A q \in Runners \ {r} : runner'[q] = runner[q]
         /\ ContextDone => runner'[r] = None
         /\ ~ContextDone => /\ runner'[r] \in RunnerType
                            /\ runner'[r].pc = "got" /\ runner'[r].jobIn = Head(in)
         /\ RunnerTypes(runner')
<1>1. in # <<>> /\ in \in Seq(JobIns) /\ runner[r] \in RunnerType
  BY DEF Takes, Is, TypeOK
<1>2. Head(in) \in JobIns /\ Tail(in) \in Seq(JobIns) /\ Len(Tail(in)) = Len(in) - 1
      /\ Len(in) \in Nat
  BY <1>1, HeadTailProperties
<1> DEFINE u == [runner[r] EXCEPT !.pc = "got", !.jobIn = Head(in)]
<1>3. u \in RunnerType /\ u.pc = "got" /\ u.jobIn = Head(in)
  BY <1>1, <1>2 DEF RunnerType
<1>4. runner' = IF ContextDone THEN [runner EXCEPT ![r] = None] ELSE [runner EXCEPT ![r] = u]
  BY DEF Takes, REnds
<1> HIDE DEF u
<1> QED
  BY <1>1, <1>2, <1>3, <1>4 DEF Takes, TypeOK, RunnerTypes

LEMMA RunnerTypesStep ==
  ASSUME TypeOK, HandsFull, NEW r \in Runners, RunnerStep(r)
  PROVE  TypeOK'
<1> USE DEF Is
<1>0. runner[r] \in RunnerType
  BY DEF RunnerStep, Takes, Leaves, Asks, Checks, Refuses, Begins, RunReschedules,
         TaskReturns, Finishes, Releases, Doing, TypeOK
<1>1. CASE Takes(r)
  <2>1. /\ in' \in Seq(JobIns) /\ Len(in') <= QueueCap
        /\ RunnerTypes(runner')
    BY <1>1, TakesHead, LimitAssumption DEF TypeOK
  <2> QED
    BY <1>1, <2>1 DEF Takes, TypeOK, RunnerTypes, lifecycle, table
<1>2. CASE Leaves(r)
  BY <1>2 DEF Leaves, REnds, TypeOK, lifecycle, table
<1>3. CASE RunsOn(r)
  <2>1. RunnerTypes(runner') /\ runner[r].jobIn \in JobIns
    BY <1>3, RunKeepsJob
  <2>2. armed' \subseteq present
    BY <1>3, <2>1, SendOutType
      DEF RunsOn, Asks, Checks, Refuses, Begins, RunReschedules, TaskReturns, Finishes, table,
          TypeOK
  <2>3. singletonJobs' \subseteq Jobs
    BY <1>3, <2>1
      DEF RunsOn, Asks, Checks, Refuses, Begins, RunReschedules, TaskReturns, Finishes, JobOf,
          JobIns, TypeOK
  <2>4. UNCHANGED <<lifecycle, started, present, limiter, in, dispatch>>
    BY <1>3 DEF RunsOn, Asks, Checks, Refuses, Begins, RunReschedules, TaskReturns, Finishes,
                table
  <2> QED
    BY <2>1, <2>2, <2>3, <2>4 DEF TypeOK, RunnerTypes, lifecycle
<1>4. CASE Releases(r)
  <2>1. [NewRunner EXCEPT !.executor = runner[r].executor] \in RunnerType
    <3>1. NewRunner \in RunnerType
      BY NewRunnerType DEF TypeOK
    <3> QED
      BY <1>0, <3>1 DEF RunnerType
  <2>2. limiter' \in 0 .. Limit
    BY <1>4, LimitAssumption DEF Releases, TypeOK
  <2> QED
    BY <1>4, <2>1, <2>2 DEF Releases, TypeOK, lifecycle, table
<1> QED
  BY <1>1, <1>2, <1>3, <1>4 DEF RunnerStep, RunsOn

LEMMA HandsFullStep ==
  ASSUME TypeOK, HandsFull, [Next]_vars
  PROVE  HandsFull'
<1> USE DEF Holds, HandsFull
<1>1. ASSUME NEW j \in Jobs, RemovesJob(j) \/ TimerFires(j) \/ RunNow(j)
      PROVE  HandsFull'
  BY <1>1 DEF RemovesJob, Cancelled, TimerFires, RunNow, Dispatches, StartsRunners,
              NewRunner, RunnerType, TypeOK
<1>2. CASE Cancels
  BY <1>2 DEF Cancels, Cancelled, RunnerType, TypeOK
<1>3. CASE Reports \/ Starts \/ \E x \in resetting : Resets(x)
  BY <1>3 DEF Reports, Starts, Resets
<1>4. ASSUME NEW d \in Dispatchers, DispatchStep(d)
      PROVE  HandsFull'
  BY <1>4 DEF DispatchStep, Offers, DispatchReschedules, Pushes
<1>5. ASSUME NEW r \in Runners, RunnerStep(r)
      PROVE  HandsFull'
  <2> USE DEF Is
  <2>0. runner[r] \in RunnerType
    BY <1>5 DEF RunnerStep, Takes, Leaves, Asks, Checks, Refuses, Begins, RunReschedules,
                TaskReturns, Finishes, Releases, Doing, TypeOK
  <2>1. CASE Takes(r)
    BY <2>1, TakesHead
  <2>2. CASE Leaves(r)
    BY <2>2 DEF Leaves, REnds, TypeOK
  <2>3. CASE RunsOn(r)
    BY <2>3, RunKeepsJob
  <2>5. CASE Releases(r)
    BY <2>0, <2>5 DEF Releases, NewRunner, RunnerType, TypeOK
  <2> QED
    BY <1>5, <2>1, <2>2, <2>3, <2>5 DEF RunnerStep, RunsOn
<1>6. CASE UNCHANGED vars
  BY <1>6 DEF vars
<1> QED
  BY <1>1, <1>2, <1>3, <1>4, <1>5, <1>6 DEF Next

TypeInv == TypeOK /\ HandsFull

LEMMA TypeInvStep == TypeInv /\ [Next]_vars => TypeInv'
<1> SUFFICES ASSUME TypeInv, [Next]_vars PROVE TypeInv'
  OBVIOUS
<1>1. HandsFull'
  BY HandsFullStep DEF TypeInv
<1>2. CASE UNCHANGED vars
  BY <1>1, <1>2 DEF TypeInv, TypeOK, vars
<1>3. CASE Next
  BY <1>1, <1>3, SchedulerTypes, DispatchTypes, RunnerTypesStep DEF TypeInv, Next
<1> QED
  BY <1>2, <1>3

(* The types hold in every reachable state, and a runner past its select   *)
(* always has the jobIn it took (executor.go:319-369).                     *)
THEOREM TypeCorrect == Spec => []TypeOK
<1>1. Init => TypeInv
  BY InitType DEF TypeInv, HandsFull, Holds, Init
<1>2. TypeInv => TypeOK
  BY DEF TypeInv
<1> QED
  BY <1>1, <1>2, TypeInvStep, PTL DEF Spec

(* Whatever a runner does, it stays with its executor and leaves the others *)
(* alone.                                                                  *)
LEMMA RunnerKeepsExecutor ==
  ASSUME TypeInv, NEW r \in Runners, RunnerStep(r)
  PROVE  /\ \A q \in Runners \ {r} : runner'[q] = runner[q]
         /\ runner[r] # None
         /\ runner'[r] # None => runner'[r].executor = runner[r].executor
<1> USE DEF Is
<1>1. /\ runner[r] \in RunnerType /\ runner[r] # None
      /\ runner \in [Runners -> RunnerType \cup {None}]
  BY NoneAssumption
    DEF RunnerStep, Takes, Leaves, Asks, Checks, Refuses, Begins, RunReschedules, TaskReturns,
        Finishes, Releases, Doing, TypeInv, TypeOK
<1>2. ASSUME NEW pc, RGoes(r, pc)
      PROVE  /\ \A q \in Runners \ {r} : runner'[q] = runner[q]
             /\ runner'[r].executor = runner[r].executor
  BY <1>1, <1>2 DEF RGoes, RunnerType
<1>3. CASE Takes(r) \/ Leaves(r)
  BY <1>1, <1>3 DEF Takes, Leaves, REnds, RunnerType
<1>4. CASE Asks(r)
  BY <1>1, <1>2, <1>4 DEF Asks, RunnerType
<1>5. CASE Checks(r) \/ Refuses(r) \/ Finishes(r)
  BY <1>1, <1>2, <1>5 DEF Checks, Refuses, Finishes
<1>6. CASE Begins(r)
  BY <1>1, <1>2, <1>6 DEF Begins, RunnerType
<1>7. CASE RunReschedules(r) \/ TaskReturns(r)
  BY <1>1, <1>7 DEF RunReschedules, TaskReturns, RunnerType
<1>8. CASE Releases(r)
  BY <1>1, <1>8 DEF Releases, NewRunner, RunnerType
<1> QED
  BY <1>1, <1>3, <1>4, <1>5, <1>6, <1>7, <1>8 DEF RunnerStep

-----------------------------------------------------------------------------
(* The tokens cover the work.                                              *)

Work == Len(in) + Cardinality(Pushing) + Cardinality(Working)

(* TokensCoverWork without its second part, which is lost with the first   *)
(* stop: what makes the limit a limit for ever.  Exact is the second part. *)
Covered == mode = "reschedule" => Work <= limiter
Exact == mode = "reschedule" /\ executor = 1 /\ phase = "up" => Work = limiter

LEMMA FiniteWork ==
  /\ IsFiniteSet(Pushing) /\ Cardinality(Pushing) \in Nat
  /\ IsFiniteSet(Working) /\ Cardinality(Working) \in Nat
<1>1. Pushing \in SUBSET Dispatchers /\ Working \in SUBSET Runners
  BY DEF Pushing, Working
<1> QED
  BY <1>1, LimitAssumption, FS_Subset, FS_CardinalityType

LEMMA OneMore ==
  ASSUME NEW S, IsFiniteSet(S), NEW x, x \notin S
  PROVE  Cardinality(S \cup {x}) = Cardinality(S) + 1 /\ Cardinality(S) \in Nat
  BY FS_AddElement, FS_CardinalityType

(* Neither the scheduler nor a new dispatch touches the slots.             *)
LEMMA SchedulerKeepsWork ==
  ASSUME TypeInv,
         \/ \E j \in Jobs : RemovesJob(j) \/ TimerFires(j) \/ RunNow(j)
         \/ Cancels \/ Reports \/ Starts \/ \E x \in resetting : Resets(x)
  PROVE  /\ \A r \in Runners : Holds(r)' = Holds(r) /\ (Holds(r) => JobOf(r)' = JobOf(r))
         /\ Pushing' = Pushing /\ UNCHANGED <<mode, in, limiter>>
<1> USE DEF Holds, JobOf, Pushing, At
<1>1. ASSUME NEW js, runner' = Cancelled(js)
      PROVE  \A r \in Runners : Holds(r)' = Holds(r) /\ (Holds(r) => JobOf(r)' = JobOf(r))
  BY <1>1, NoneAssumption DEF Cancelled, RunnerType, TypeInv, TypeOK
<1>2. ASSUME NEW j \in Jobs, NEW b \in BOOLEAN, Dispatches(j, b)
      PROVE  /\ \A r \in Runners : Holds(r)' = Holds(r) /\ (Holds(r) => JobOf(r)' = JobOf(r))
             /\ Pushing' = Pushing /\ UNCHANGED <<mode, in, limiter>>
  <2>1. \A r \in Runners : Holds(r)' = Holds(r) /\ (Holds(r) => JobOf(r)' = JobOf(r))
    BY <1>2 DEF Dispatches, StartsRunners, NewRunner, TypeInv, TypeOK
  <2>2. Pushing' = Pushing
    BY <1>2 DEF Dispatches, TypeInv, TypeOK
  <2> QED
    BY <1>2, <2>1, <2>2 DEF Dispatches, lifecycle
<1>3. ASSUME NEW j \in Jobs, RemovesJob(j)
      PROVE  /\ \A r \in Runners : Holds(r)' = Holds(r) /\ (Holds(r) => JobOf(r)' = JobOf(r))
             /\ Pushing' = Pushing /\ UNCHANGED <<mode, in, limiter>>
  BY <1>1, <1>3 DEF RemovesJob, lifecycle
<1>4. CASE Cancels
  BY <1>1, <1>4 DEF Cancels
<1>5. CASE Reports \/ Starts \/ \E x \in resetting : Resets(x)
  BY <1>5 DEF Reports, Starts, Resets
<1> QED
  BY <1>2, <1>3, <1>4, <1>5 DEF TimerFires, RunNow

(* A dispatch goroutine gets a token with the work it adds.                *)
LEMMA DispatchKeepsBalance ==
  ASSUME TypeInv, NEW d \in Dispatchers, DispatchStep(d)
  PROVE  /\ UNCHANGED <<mode, phase, executor>>
         /\ mode = "reschedule" => Work' - limiter' = Work - limiter
<1> SUFFICES ASSUME mode = "reschedule" PROVE Work' - limiter' = Work - limiter
  BY DEF DispatchStep, Offers, DispatchReschedules, Pushes, lifecycle
<1>1. Working' = Working
  BY DEF DispatchStep, Offers, DispatchReschedules, Pushes, Working, Holds
<1>2. limiter \in Nat /\ Len(in) \in Nat
  BY LimitAssumption DEF TypeInv, TypeOK
<1>3. CASE Offers(d) /\ limiter < Limit
  <2>1. /\ limiter' = limiter + 1 /\ in' = in
        /\ dispatch' = [dispatch EXCEPT ![d].pc = "push"]
    BY <1>2, <1>3, LimitAssumption DEF Offers
  <2>2. Pushing' = Pushing \cup {d} /\ d \notin Pushing
    <3>1. \A e \in Dispatchers \ {d} : dispatch'[e] = dispatch[e]
      BY <2>1 DEF TypeInv, TypeOK
    <3>2. \A e \in Dispatchers \ {d} : At(e, "push")' = At(e, "push")
      BY <3>1 DEF At
    <3>3. ~At(d, "push") /\ At(d, "push")'
      <4>1. dispatch[d] \in DispatchType /\ dispatch[d].pc = "offer"
        BY <1>3 DEF Offers, At, TypeInv, TypeOK
      <4>2. [dispatch[d] EXCEPT !.pc = "push"] \in DispatchType
        BY <4>1 DEF DispatchType
      <4>3. dispatch'[d] \in DispatchType /\ dispatch'[d].pc = "push"
        BY <2>1, <4>1, <4>2 DEF TypeInv, TypeOK, DispatchType
      <4> QED
        BY <4>1, <4>3, NoneAssumption DEF At
    <3> QED
      BY <3>2, <3>3 DEF Pushing
  <2>3. Cardinality(Pushing') = Cardinality(Pushing) + 1
    BY <2>2, OneMore, FiniteWork
  <2> QED
    BY <1>1, <1>2, <2>1, <2>3, FiniteWork DEF Work
<1>4. CASE (Offers(d) /\ ~(limiter < Limit)) \/ DispatchReschedules(d)
  <2>1. UNCHANGED <<limiter, in>>
    BY <1>4 DEF Offers, DispatchReschedules
  <2>2. Pushing' = Pushing
    BY <1>4 DEF Offers, DispatchReschedules, DEnds, TypeInv, TypeOK, DispatchType, Pushing, At
  <2> QED
    BY <1>1, <1>2, <2>1, <2>2 DEF Work
<1>5. CASE Pushes(d)
  <2>1. limiter' = limiter /\ Len(in') = Len(in) + 1
    BY <1>5, AppendProperties DEF Pushes, TypeInv, TypeOK, DispatchType, At
  <2>2. Pushing' = Pushing \ {d} /\ d \in Pushing
    BY <1>5 DEF Pushes, DEnds, TypeInv, TypeOK, Pushing, At
  <2>3. Cardinality(Pushing') = Cardinality(Pushing) - 1
    BY <2>2, FS_RemoveElement, FiniteWork
  <2> QED
    BY <1>1, <1>2, <2>1, <2>3, FiniteWork DEF Work
<1> QED
  BY <1>3, <1>4, <1>5 DEF DispatchStep

(* A runner gives a token back with the work it ends, unless it drops what *)
(* it takes because the executor has been stopped.                         *)
LEMMA RunnerKeepsBalance ==
  ASSUME TypeInv, NEW r \in Runners, RunnerStep(r)
  PROVE  /\ UNCHANGED <<mode, phase, executor>>
         /\ mode = "reschedule" => /\ Work' - limiter' <= Work - limiter
                                   /\ phase = "up" => Work' - limiter' = Work - limiter
<1> SUFFICES ASSUME mode = "reschedule"
             PROVE  /\ Work' - limiter' <= Work - limiter
                    /\ phase = "up" => Work' - limiter' = Work - limiter
  BY DEF RunnerStep, Takes, Leaves, Asks, Checks, Refuses, Begins, RunReschedules,
         TaskReturns, Finishes, Releases, lifecycle
<1>1. Pushing' = Pushing
  BY DEF RunnerStep, Takes, Leaves, Asks, Checks, Refuses, Begins, RunReschedules,
         TaskReturns, Finishes, Releases, Pushing, At
<1>2. limiter \in Nat /\ Len(in) \in Nat
  BY LimitAssumption DEF TypeInv, TypeOK
<1>3. CASE Takes(r)
  <2>1. limiter' = limiter /\ Len(in') = Len(in) - 1
    BY <1>3, TakesHead DEF Takes, TypeInv
  <2>2. CASE ContextDone
    <3>1. Working' = Working /\ phase # "up"
      BY <1>3, <2>2, TakesHead DEF Takes, Is, Working, Holds, TypeInv, ContextDone
    <3> QED
      BY <1>1, <1>2, <2>1, <3>1, FiniteWork DEF Work
  <2>3. CASE ~ContextDone
    <3>1. Working' = Working \cup {r} /\ r \notin Working
      BY <1>3, <2>3, TakesHead, NoneAssumption DEF Takes, Is, Working, Holds, TypeInv
    <3>2. Cardinality(Working') = Cardinality(Working) + 1
      BY <3>1, OneMore, FiniteWork
    <3> QED
      BY <1>1, <1>2, <2>1, <3>2, FiniteWork DEF Work
  <2> QED
    BY <2>2, <2>3
<1>4. CASE Leaves(r)
  <2>1. Working' = Working
    BY <1>4 DEF Leaves, REnds, Is, Working, Holds, TypeInv, TypeOK
  <2> QED
    BY <1>1, <1>2, <1>4, <2>1, FiniteWork DEF Leaves, Work
<1>5. CASE RunsOn(r)
  <2>1. Working' = Working
    BY <1>5, RunKeepsJob DEF TypeInv, Working, Holds
  <2>2. UNCHANGED <<limiter, in>>
    BY <1>5 DEF RunsOn, Asks, Checks, Refuses, Begins, RunReschedules, TaskReturns, Finishes
  <2> QED
    BY <1>1, <1>2, <2>1, <2>2, FiniteWork DEF Work
<1>6. CASE Releases(r)
  <2>1. limiter' = limiter - 1 /\ in' = in
    BY <1>6 DEF Releases
  <2>2. Working' = Working \ {r} /\ r \in Working
    BY <1>6 DEF Releases, Is, NewRunner, Working, Holds, TypeInv, TypeOK
  <2>3. Cardinality(Working') = Cardinality(Working) - 1
    BY <2>2, FS_RemoveElement, FiniteWork
  <2> QED
    BY <1>1, <1>2, <2>1, <2>3, FiniteWork DEF Work
<1> QED
  BY <1>3, <1>4, <1>5, <1>6 DEF RunnerStep, RunsOn

LimitInv == TypeInv /\ Covered /\ Exact

LEMMA Balance ==
  ASSUME NEW w \in Nat, NEW l \in Nat, NEW w1 \in Nat, NEW l1 \in Nat
  PROVE  /\ w1 - l1 <= w - l /\ w <= l => w1 <= l1
         /\ w1 - l1 = w - l => w1 - l1 <= w - l /\ (w = l => w1 = l1)
  OBVIOUS

LEMMA LimitInvInit == Init => LimitInv
<1> SUFFICES ASSUME Init PROVE LimitInv
  OBVIOUS
<1>1. TypeInv
  BY InitType DEF TypeInv, HandsFull, Holds, Init
<1>2. Pushing = {} /\ Working = {}
  BY DEF Init, Pushing, At, Working, Holds
<1> QED
  BY <1>1, <1>2, FS_EmptySet DEF LimitInv, Covered, Exact, Work, Init

LEMMA LimitInvStep == LimitInv /\ [Next]_vars => LimitInv'
<1> SUFFICES ASSUME LimitInv, [Next]_vars PROVE LimitInv'
  OBVIOUS
<1>1. TypeInv'
  BY TypeInvStep DEF LimitInv
<1>2. limiter \in Nat /\ limiter' \in Nat /\ Work \in Nat /\ Work' \in Nat
  <2>1. limiter \in Nat /\ Len(in) \in Nat /\ limiter' \in Nat /\ Len(in') \in Nat
    BY <1>1, LimitAssumption DEF LimitInv, TypeInv, TypeOK
  <2>2. Cardinality(Pushing') \in Nat /\ Cardinality(Working') \in Nat
    <3>1. Pushing' \in SUBSET Dispatchers /\ Working' \in SUBSET Runners
      BY DEF Pushing, Working
    <3> QED
      BY <3>1, LimitAssumption, FS_Subset, FS_CardinalityType
  <2> QED
    BY <2>1, <2>2, FiniteWork DEF Work
<1>3. ASSUME \/ \E j \in Jobs : RemovesJob(j) \/ TimerFires(j) \/ RunNow(j)
             \/ Cancels \/ Reports \/ Starts \/ \E x \in resetting : Resets(x)
      PROVE  Covered' /\ Exact'
  <2>1. Pushing' = Pushing /\ UNCHANGED <<mode, in, limiter>>
    BY <1>3, SchedulerKeepsWork DEF LimitInv
  <2>2. \A r \in Runners : Holds(r)' = Holds(r)
    BY <1>3, SchedulerKeepsWork DEF LimitInv
  <2>3. Working' = Working
    BY <2>2 DEF Working
  <2>4. executor' = 1 /\ phase' = "up" => executor = 1 /\ phase = "up"
    <3>1. CASE Starts
      BY <3>1, LimitAssumption DEF Starts, LimitInv, TypeInv, TypeOK
    <3> QED
      BY <1>3, <3>1 DEF RemovesJob, TimerFires, RunNow, Dispatches, Cancels, Reports, Resets,
                        lifecycle
  <2> QED
    BY <2>1, <2>3, <2>4 DEF LimitInv, Covered, Exact, Work
<1>4. ASSUME NEW d \in Dispatchers, DispatchStep(d)
      PROVE  Covered' /\ Exact'
  <2>1. /\ UNCHANGED <<mode, phase, executor>>
        /\ mode = "reschedule" => Work' - limiter' = Work - limiter
    BY <1>4, DispatchKeepsBalance DEF LimitInv
  <2>2. mode = "reschedule" =>
          (Work <= limiter => Work' <= limiter') /\ (Work = limiter => Work' = limiter')
    BY <1>2, <2>1, Balance
  <2> QED
    BY <2>1, <2>2 DEF LimitInv, Covered, Exact
<1>5. ASSUME NEW r \in Runners, RunnerStep(r)
      PROVE  Covered' /\ Exact'
  <2>1. /\ UNCHANGED <<mode, phase, executor>>
        /\ mode = "reschedule" => /\ Work' - limiter' <= Work - limiter
                                  /\ phase = "up" => Work' - limiter' = Work - limiter
    BY <1>5, RunnerKeepsBalance DEF LimitInv
  <2>2. mode = "reschedule" =>
          /\ Work <= limiter => Work' <= limiter'
          /\ phase = "up" /\ Work = limiter => Work' = limiter'
    BY <1>2, <2>1, Balance
  <2> QED
    BY <2>1, <2>2 DEF LimitInv, Covered, Exact
<1>6. ASSUME UNCHANGED vars
      PROVE  Covered' /\ Exact'
  <2>1. Work' = Work
    <3>1. Pushing' = Pushing /\ Working' = Working /\ in' = in
      BY <1>6 DEF Working, Pushing, Holds, At, vars
    <3> QED
      BY <3>1 DEF Work
  <2> QED
    BY <1>6, <2>1 DEF LimitInv, Covered, Exact, vars
<1>7. Covered' /\ Exact'
  BY <1>3, <1>4, <1>5, <1>6 DEF Next
<1> QED
  BY <1>1, <1>7 DEF LimitInv

THEOREM LimitInvariant == Spec => []LimitInv
  BY LimitInvInit, LimitInvStep, PTL DEF Spec

(* In reschedule mode every dispatch that waits or is worked on has a      *)
(* token of its own, also over stops and restarts; and until the first     *)
(* stop no token is without a dispatch (executor.go:167-189, 346-369).     *)
THEOREM TokensCoverTheWork == Spec => []TokensCoverWork
<1>1. LimitInv => TokensCoverWork
  BY DEF LimitInv, Covered, Exact, TokensCoverWork, Work
<1> QED
  BY <1>1, LimitInvariant, PTL

(* In reschedule mode at most limit dispatches wait or run at any time,    *)
(* whoever gives up on a stop and starts again (executor.go:167-189).      *)
AtMostLimit == mode = "reschedule" => Work <= Limit

THEOREM LimitHolds == Spec => []AtMostLimit
<1>1. LimitInv => AtMostLimit
  <2> SUFFICES ASSUME LimitInv, mode = "reschedule" PROVE Work <= Limit
    BY DEF AtMostLimit
  <2>1. limiter \in Nat /\ limiter <= Limit /\ Work <= limiter /\ Len(in) \in Nat
    BY LimitAssumption DEF LimitInv, TypeInv, TypeOK, Covered
  <2> QED
    BY <2>1, LimitAssumption, FiniteWork DEF Work
<1> QED
  BY <1>1, LimitInvariant, PTL

(* In reschedule mode, until the first stop, a dispatch is skipped only    *)
(* when limit others wait or run: "jobs reaching the limit [...] to be     *)
(* skipped" (scheduler.go:1278-1281, executor.go:167-189).  The property   *)
(* SkipsOnlyAtTheLimit, which says so of every executor, does not hold.    *)
SkipsAtTheLimitAtFirst ==
  [][\A d \in Dispatchers :
       /\ mode = "reschedule" /\ executor = 1 /\ phase = "up"
       /\ At(d, "offer") /\ At(d, "resched")'
       => Work >= Limit]_vars

THEOREM FirstExecutorSkipsAtTheLimit == Spec => SkipsAtTheLimitAtFirst
<1> DEFINE Skip(d) == /\ mode = "reschedule" /\ executor = 1 /\ phase = "up"
                      /\ At(d, "offer") /\ At(d, "resched")'
<1>1. ASSUME LimitInv, Next, NEW d \in Dispatchers, Skip(d)
      PROVE  Work >= Limit
  <2>1. /\ dispatch \in [Dispatchers -> DispatchType \cup {None}]
        /\ dispatch[d] # None /\ dispatch'[d] # dispatch[d]
        /\ Limit \in Nat /\ limiter \in Nat
    BY <1>1, LimitAssumption DEF At, LimitInv, TypeInv, TypeOK
  <2>2. DispatchStep(d)
    <3>1. \A j \in Jobs, b \in BOOLEAN : ~Dispatches(j, b)
      BY <2>1 DEF Dispatches
    <3>2. \A e \in Dispatchers \ {d} : ~DispatchStep(e)
      BY <2>1 DEF DispatchStep, Offers, DispatchReschedules, Pushes, DEnds
    <3> QED
      BY <1>1, <2>1, <3>1, <3>2
        DEF Next, RemovesJob, TimerFires, RunNow, Cancels, Reports, Starts, Resets, RunnerStep,
            Takes, Leaves, Asks, Checks, Refuses, Begins, RunReschedules, TaskReturns, Finishes,
            Releases
  <2>3. Offers(d) /\ dispatch'[d].pc = "resched"
    BY <1>1, <2>2 DEF At, DispatchStep, DispatchReschedules, Pushes
  <2>4. limiter = Limit
    <3>1. dispatch[d] \in DispatchType
      BY <2>1
    <3>2. dispatch' = [dispatch EXCEPT ![d].pc = "push"] => dispatch'[d].pc = "push"
      BY <2>1, <3>1 DEF DispatchType
    <3> QED
      BY <2>3, <3>2 DEF Offers
  <2>5. Work = Limit
    BY <1>1, <2>4 DEF LimitInv, Exact
  <2> QED
    BY <2>1, <2>5
<1>2. LimitInv /\ [Next]_vars => [\A d \in Dispatchers : Skip(d) => Work >= Limit]_vars
  BY <1>1
<1> QED
  BY <1>2, LimitInvariant, PTL DEF Spec, SkipsAtTheLimitAtFirst

-----------------------------------------------------------------------------
(* In wait mode no token limits the runners: there are limit of them,      *)
(* because started is reset only when those of the executor have ended.    *)

Alive == {r \in Runners : runner[r] # None}

(* A stop that is given up, or overtaken by the next Start, breaks this:   *)
(* the next executor starts limit runners beside those that are left.      *)
Orderly ==
  mode = "wait" /\ "wait" \notin Hasty =>
    /\ phase # "timeout"
    /\ resetting # {} => phase = "nil"
    /\ phase = "nil" => Alive = {} /\ (resetting = {} => ~started)
    /\ ~started => Alive = {}
    /\ \A r \in Alive : runner[r].executor = executor
    /\ Cardinality(Alive) <= Limit

LEMMA FewerAlive ==
  ASSUME Alive' \subseteq Alive, Cardinality(Alive) <= Limit
  PROVE  Cardinality(Alive') <= Limit
<1>1. IsFiniteSet(Alive) /\ Cardinality(Alive) \in Nat
  <2>1. Alive \in SUBSET Runners
    BY DEF Alive
  <2> QED
    BY <2>1, LimitAssumption, FS_Subset, FS_CardinalityType
<1>2. Cardinality(Alive') <= Cardinality(Alive) /\ Cardinality(Alive') \in Nat
  BY <1>1, FS_Subset, FS_CardinalityType
<1> QED
  BY <1>1, <1>2, LimitAssumption

LEMMA OrderlyStep ==
  ASSUME TypeInv, Orderly, [Next]_vars
  PROVE  Orderly'
<1> SUFFICES ASSUME mode = "wait", "wait" \notin Hasty
             PROVE  Orderly'
  BY DEF Orderly, Next, vars, RemovesJob, TimerFires, RunNow, Dispatches, Cancels, Reports, Starts,
         Resets, DispatchStep, Offers, DispatchReschedules, Pushes, RunnerStep, Takes, Leaves,
         Asks, Checks, Refuses, Begins, RunReschedules, TaskReturns, Finishes, Releases, lifecycle
<1>0. /\ phase # "timeout"
      /\ resetting # {} => phase = "nil"
      /\ phase = "nil" => Alive = {} /\ (resetting = {} => ~started)
      /\ ~started => Alive = {}
      /\ \A r \in Alive : runner[r].executor = executor
      /\ Cardinality(Alive) <= Limit
  BY DEF Orderly
<1>1. ASSUME NEW js, runner' = Cancelled(js)
      PROVE  Alive' = Alive /\ \A r \in Alive : runner'[r].executor = runner[r].executor
  BY <1>1, NoneAssumption DEF Cancelled, Alive, TypeInv, TypeOK, RunnerType
<1>2. ASSUME NEW j \in Jobs, RemovesJob(j)
      PROVE  Orderly'
  <2>1. UNCHANGED <<mode, phase, executor, resetting, started>> /\ runner' = Cancelled({j})
    BY <1>2 DEF RemovesJob, lifecycle
  <2> QED
    BY <1>0, <1>1, <2>1 DEF Orderly
<1>3. ASSUME NEW j \in Jobs, TimerFires(j) \/ RunNow(j)
      PROVE  Orderly'
  <2>1. StartsRunners /\ phase = "up" /\ UNCHANGED <<mode, phase, executor, resetting>>
    BY <1>3 DEF TimerFires, RunNow, Dispatches, lifecycle
  <2>2. CASE started
    <3>1. Alive' = Alive /\ UNCHANGED <<runner, started>>
      BY <2>1, <2>2 DEF StartsRunners, Alive
    <3> QED
      BY <1>0, <2>1, <3>1 DEF Orderly
  <2>3. CASE ~started
    <3>1. PICK new \in SUBSET Runners :
            /\ Cardinality(new) = Limit /\ started'
            /\ runner' = [r \in Runners |-> IF r \in new THEN NewRunner ELSE runner[r]]
      BY <2>1, <2>3 DEF StartsRunners
    <3>2. NewRunner # None /\ NewRunner.executor = executor
      BY NewRunnerType, NoneAssumption DEF NewRunner, TypeInv, TypeOK
    <3>3. Alive' = new /\ \A r \in new : runner'[r].executor = executor
      BY <1>0, <2>3, <3>1, <3>2 DEF Alive
    <3>4. Cardinality(Alive') = Limit
      BY <3>1, <3>3
    <3> QED
      BY <1>0, <2>1, <3>1, <3>3, <3>4, LimitAssumption DEF Orderly
  <2> QED
    BY <2>2, <2>3
<1>4. CASE Cancels
  <2>1. /\ phase = "up" /\ phase' = "cancelled" /\ UNCHANGED <<mode, executor, resetting, started>>
        /\ runner' = Cancelled(Jobs)
    BY <1>4 DEF Cancels
  <2> QED
    BY <1>0, <1>1, <2>1 DEF Orderly
<1>5. CASE Reports
  <2>1. AllDone /\ phase' = "nil" /\ UNCHANGED <<mode, executor, started, runner>>
    BY <1>5 DEF Reports
  <2>2. Alive = {} /\ Alive' = Alive /\ resetting' # {}
    BY <1>0, <1>5, <2>1 DEF AllDone, Alive, Reports
  <2> QED
    BY <1>0, <2>1, <2>2 DEF Orderly
<1>6. CASE Starts
  <2>1. /\ phase = "nil" /\ phase' = "up" /\ resetting = {}
        /\ UNCHANGED <<mode, resetting, started, runner>>
    BY <1>0, <1>6 DEF Starts
  <2>2. Alive = {} /\ Alive' = {}
    BY <1>0, <2>1 DEF Alive
  <2> QED
    BY <1>0, <2>1, <2>2 DEF Orderly
<1>7. ASSUME NEW x \in resetting, Resets(x)
      PROVE  Orderly'
  <2>1. phase = "nil" /\ started' = FALSE /\ UNCHANGED <<mode, phase, executor, runner>>
    BY <1>0, <1>7 DEF Resets
  <2>2. Alive = {} /\ Alive' = Alive
    BY <1>0, <2>1 DEF Alive
  <2> QED
    BY <1>0, <2>1, <2>2 DEF Orderly
<1>8. ASSUME NEW d \in Dispatchers, DispatchStep(d)
      PROVE  Orderly'
  <2>1. UNCHANGED <<mode, phase, executor, resetting, started, runner>> /\ Alive' = Alive
    BY <1>8 DEF DispatchStep, Offers, DispatchReschedules, Pushes, lifecycle, Alive
  <2> QED
    BY <1>0, <2>1 DEF Orderly
<1>9. ASSUME NEW r \in Runners, RunnerStep(r)
      PROVE  Orderly'
  <2>1. UNCHANGED <<mode, phase, executor, resetting, started>>
    BY <1>9 DEF RunnerStep, Takes, Leaves, Asks, Checks, Refuses, Begins, RunReschedules,
                TaskReturns, Finishes, Releases, lifecycle
  <2>2. Alive' \subseteq Alive /\ \A q \in Alive' : runner'[q].executor = runner[q].executor
    BY <1>9, RunnerKeepsExecutor DEF Alive
  <2>3. Cardinality(Alive') <= Limit
    BY <1>0, <2>2, FewerAlive
  <2> QED
    BY <1>0, <2>1, <2>2, <2>3 DEF Orderly
<1>10. CASE UNCHANGED vars
  <2>1. UNCHANGED <<mode, phase, executor, resetting, started, runner>> /\ Alive' = Alive
    BY <1>10 DEF vars, Alive
  <2> QED
    BY <1>0, <2>1 DEF Orderly
<1> QED
  BY <1>2, <1>3, <1>4, <1>5, <1>6, <1>7, <1>8, <1>9, <1>10 DEF Next

LEMMA OrderlyInit == Init => Orderly
<1> SUFFICES ASSUME Init PROVE Orderly
  OBVIOUS
<1>1. Alive = {} /\ Cardinality(Alive) = 0
  <2>1. Alive = {}
    BY DEF Init, Alive
  <2> QED
    BY <2>1, FS_EmptySet
<1> QED
  BY <1>1, LimitAssumption DEF Orderly, Init

-----------------------------------------------------------------------------
(* LimitMode implements Slots.                                             *)

LEMMA JobsOfProperties ==
  ASSUME NEW s \in Seq(JobIns)
  PROVE  /\ JobsOf(s) \in Seq(Jobs) /\ Len(JobsOf(s)) = Len(s)
         /\ \A e \in JobIns : JobsOf(Append(s, e)) = Append(JobsOf(s), e.job)
         /\ s # <<>> => /\ JobsOf(s) # <<>> /\ Head(JobsOf(s)) = Head(s).job
                        /\ JobsOf(Tail(s)) = Tail(JobsOf(s))
<1>1. Len(s) \in Nat /\ \A i \in 1 .. Len(s) : s[i] \in JobIns
  OBVIOUS
<1>2. JobsOf(s) \in Seq(Jobs) /\ Len(JobsOf(s)) = Len(s)
  BY <1>1 DEF JobsOf, JobIns
<1>3. ASSUME NEW e \in JobIns
      PROVE  JobsOf(Append(s, e)) = Append(JobsOf(s), e.job)
  BY <1>1, <1>2 DEF JobsOf
<1>4. ASSUME s # <<>>
      PROVE  /\ JobsOf(s) # <<>> /\ Head(JobsOf(s)) = Head(s).job
             /\ JobsOf(Tail(s)) = Tail(JobsOf(s))
  BY <1>1, <1>2, <1>4 DEF JobsOf
<1> QED
  BY <1>2, <1>3, <1>4

WorkingOn == [r \in Runners |-> IF Holds(r) THEN JobOf(r) ELSE None]

LEMMA BusyIsWorking ==
  ASSUME TypeInv
  PROVE  /\ LimitedSlots!Busy = Working
         /\ LimitedSlots!Cardinality(LimitedSlots!Busy) = Cardinality(Working)
<1>1. LimitedSlots!Busy = Working
  BY LimitAssumption DEF LimitedSlots!Busy, Working, TypeInv, HandsFull, JobOf, JobIns
<1>2. LimitedSlots!Cardinality(Working) = Cardinality(Working)
  BY Zenon DEF LimitedSlots!Cardinality, Cardinality
<1> QED
  BY <1>1, <1>2

LEMMA SlotsInit == Init => LimitedSlots!Init
<1> SUFFICES ASSUME Init PROVE LimitedSlots!Init
  OBVIOUS
<1>1. JobsOf(in) = <<>>
  BY DEF Init, JobsOf
<1> QED
  BY <1>1, LimitAssumption DEF Init, LimitedSlots!Init, Holds

(* What the abstract specification sees of a step that only moves jobs on. *)
LEMMA SlotsStutter ==
  ASSUME \A r \in Runners : Holds(r)' = Holds(r) /\ (Holds(r) => JobOf(r)' = JobOf(r)),
         UNCHANGED <<mode, in>>, (phase = "up")' = (phase = "up")
  PROVE  UNCHANGED LimitedSlots!vars
  BY DEF LimitedSlots!vars

(* In reschedule mode the limit holds whatever happens; in wait mode as    *)
(* long as no stop is given up or overtaken.                               *)
Bounded == mode = "reschedule" \/ "wait" \notin Hasty

LEMMA SlotsStep ==
  ASSUME LimitInv, Orderly, Bounded, [Next]_vars
  PROVE  [LimitedSlots!Next]_(LimitedSlots!vars) /\ mode' = mode
<1>1. /\ TypeInv /\ TypeOK /\ HandsFull /\ in \in Seq(JobIns)
      /\ Limit \in Nat /\ Len(in) \in Nat
  BY LimitAssumption DEF LimitInv, TypeInv, TypeOK
<1>2. mode = "reschedule" => Work <= Limit
  <2>1. limiter \in Nat /\ limiter <= Limit /\ (mode = "reschedule" => Work <= limiter)
    BY LimitAssumption DEF LimitInv, Covered, TypeInv, TypeOK
  <2> QED
    BY <1>1, <2>1, FiniteWork DEF Work
<1>3. mode' = mode
  BY DEF Next, vars, RemovesJob, TimerFires, RunNow, Dispatches, Cancels, Reports, Starts, Resets,
         DispatchStep, Offers, DispatchReschedules, Pushes, RunnerStep, Takes, Leaves, Asks,
         Checks, Refuses, Begins, RunReschedules, TaskReturns, Finishes, Releases, lifecycle
<1> DEFINE SameWork == \A r \in Runners : Holds(r)' = Holds(r) /\ (Holds(r) => JobOf(r)' = JobOf(r))
           SlotsOK  == [LimitedSlots!Next]_(LimitedSlots!vars)
<1>4. ASSUME \/ \E j \in Jobs : RemovesJob(j) \/ TimerFires(j) \/ RunNow(j)
             \/ Cancels \/ Reports \/ Starts \/ \E x \in resetting : Resets(x)
      PROVE  SlotsOK
  <2>1. SameWork /\ UNCHANGED <<mode, in>>
    BY <1>1, <1>4, SchedulerKeepsWork
  <2>2. UNCHANGED <<JobsOf(in), WorkingOn>>
    BY <2>1 DEF WorkingOn
  <2>3. CASE Cancels
    BY <2>1, <2>2, <2>3 DEF Cancels, LimitedSlots!Stop, LimitedSlots!Next, WorkingOn
  <2>4. CASE Starts
    BY <2>1, <2>2, <2>4 DEF Starts, LimitedSlots!Restart, LimitedSlots!Next, WorkingOn
  <2>5. CASE Reports
    BY <2>1, <2>5, SlotsStutter DEF Reports
  <2>6. ASSUME NEW x \in resetting, Resets(x) PROVE SlotsOK
    BY <2>1, <2>6, SlotsStutter DEF Resets
  <2>7. ASSUME NEW j \in Jobs, RemovesJob(j) \/ TimerFires(j) \/ RunNow(j) PROVE SlotsOK
    BY <2>1, <2>7, SlotsStutter DEF RemovesJob, TimerFires, RunNow, Dispatches, lifecycle
  <2> QED
    BY <1>4, <2>3, <2>4, <2>5, <2>6, <2>7
<1>5. ASSUME NEW d \in Dispatchers, DispatchStep(d)
      PROVE  SlotsOK
  <2>1. SameWork /\ (phase = "up")' = (phase = "up")
    BY <1>5 DEF DispatchStep, Offers, DispatchReschedules, Pushes, Holds, JobOf, lifecycle
  <2>2. CASE Offers(d) \/ DispatchReschedules(d)
    BY <1>3, <2>1, <2>2, SlotsStutter DEF Offers, DispatchReschedules
  <2>3. CASE Pushes(d)
    <3> DEFINE e == dispatch[d].jobIn
    <3>0. dispatch[d] \in DispatchType /\ d \in Pushing
      BY <1>1, <2>3 DEF Pushes, At, Pushing, TypeOK
    <3>1. e \in JobIns /\ e.job \in Jobs /\ d \in Pushing
      BY <3>0 DEF DispatchType, JobIns
    <3>2. JobsOf(in') = Append(JobsOf(in), e.job) /\ Len(JobsOf(in)) = Len(in)
      BY <1>1, <2>3, <3>1, JobsOfProperties DEF Pushes
    <3>3. Cardinality(Pushing) # 0
      BY <3>1, FiniteWork, FS_EmptySet
    <3>4. mode = "reschedule"
            => Len(JobsOf(in)) + LimitedSlots!Cardinality(LimitedSlots!Busy) < Limit
      BY <1>1, <1>2, <3>2, <3>3, BusyIsWorking, FiniteWork DEF Work
    <3>5. WorkingOn' = WorkingOn
      BY <2>1 DEF WorkingOn
    <3>6. LimitedSlots!Accept(e.job)
      BY <1>3, <2>1, <3>2, <3>4, <3>5 DEF LimitedSlots!Accept, WorkingOn
    <3> QED
      BY <3>1, <3>6 DEF LimitedSlots!Next
  <2> QED
    BY <1>5, <2>2, <2>3 DEF DispatchStep
<1>6. ASSUME NEW r \in Runners, RunnerStep(r)
      PROVE  SlotsOK
  <2>1. (phase = "up")' = (phase = "up")
    BY <1>6 DEF RunnerStep, Takes, Leaves, Asks, Checks, Refuses, Begins, RunReschedules,
                TaskReturns, Finishes, Releases, lifecycle
  <2>2. CASE Takes(r)
    <3>1. /\ JobsOf(in) # <<>> /\ Head(JobsOf(in)) = Head(in).job
          /\ JobsOf(in') = Tail(JobsOf(in)) /\ Head(in).job \in Jobs
      BY <1>1, <2>2, TakesHead, JobsOfProperties DEF Takes, JobIns
    <3>2. ~Holds(r) /\ WorkingOn[r] = None
      BY <2>2 DEF Takes, Is, Holds, WorkingOn
    <3>3. CASE ContextDone
      <4>1. SameWork
        BY <1>1, <2>2, <3>2, <3>3, TakesHead DEF Holds, JobOf
      <4>2. WorkingOn' = WorkingOn
        BY <4>1 DEF WorkingOn
      <4>3. LimitedSlots!Lose
        BY <1>3, <2>1, <3>1, <3>3, <4>2 DEF LimitedSlots!Lose, WorkingOn, ContextDone
      <4> QED
        BY <4>3 DEF LimitedSlots!Next
    <3>4. CASE ~ContextDone
      <4>1. Holds(r)' /\ JobOf(r)' = Head(in).job
        BY <1>1, <2>2, <3>4, TakesHead, NoneAssumption DEF Holds, JobOf
      <4>2. \A q \in Runners \ {r} : Holds(q)' = Holds(q) /\ JobOf(q)' = JobOf(q)
        BY <1>1, <2>2, TakesHead DEF Holds, JobOf
      <4>3. WorkingOn' = [WorkingOn EXCEPT ![r] = Head(JobsOf(in))]
        BY <3>1, <4>1, <4>2 DEF WorkingOn
      <4>4. Len(in) # 0
        BY <1>1, <2>2 DEF Takes
      <4>5. LimitedSlots!Cardinality(LimitedSlots!Busy) < Limit
        <5>1. CASE mode = "reschedule"
          BY <1>1, <1>2, <4>4, <5>1, BusyIsWorking, FiniteWork DEF Work
        <5>2. CASE mode # "reschedule"
          <6>1. r \in Alive \ Working /\ Working \subseteq Alive
            BY <2>2 DEF Takes, Is, Alive, Working, Holds
          <6>2. IsFiniteSet(Alive) /\ Cardinality(Alive) \in Nat
            <7>1. Alive \in SUBSET Runners
              BY DEF Alive
            <7> QED
              BY <7>1, LimitAssumption, FS_Subset, FS_CardinalityType
          <6>3. Cardinality(Working) < Cardinality(Alive)
            <7>1. Working \in SUBSET Alive /\ Working # Alive
              BY <6>1
            <7>2. Cardinality(Working) <= Cardinality(Alive)
                  /\ Cardinality(Working) # Cardinality(Alive)
              BY <6>2, <7>1, FS_Subset
            <7> QED
              BY <6>2, <7>2, FiniteWork
          <6>4. Cardinality(Alive) <= Limit
            BY <1>1, <5>2, LimitAssumption DEF Orderly, Bounded, TypeOK
          <6> QED
            BY <1>1, <6>2, <6>3, <6>4, BusyIsWorking, FiniteWork
        <5> QED
          BY <5>1, <5>2
      <4>6. LimitedSlots!Begin(r)
        BY <1>3, <2>1, <3>1, <3>2, <3>4, <4>3, <4>5
          DEF LimitedSlots!Begin, WorkingOn, ContextDone
      <4> QED
        BY <4>6 DEF LimitedSlots!Next
    <3> QED
      BY <3>3, <3>4
  <2>3. CASE Leaves(r)
    <3>1. SameWork
      BY <1>1, <2>3 DEF Leaves, REnds, Is, Holds, JobOf, TypeOK
    <3> QED
      BY <1>3, <2>1, <2>3, <3>1, SlotsStutter DEF Leaves
  <2>4. CASE RunsOn(r)
    <3>1. SameWork
      BY <1>1, <2>4, RunKeepsJob DEF Holds, JobOf
    <3>2. in' = in
      BY <2>4 DEF RunsOn, Asks, Checks, Refuses, Begins, RunReschedules, TaskReturns, Finishes
    <3> QED
      BY <1>3, <2>1, <3>1, <3>2, SlotsStutter
  <2>5. CASE Releases(r)
    <3>1. Holds(r) /\ WorkingOn[r] # None
      BY <1>1, <2>5, LimitAssumption DEF Releases, Is, Holds, HandsFull, WorkingOn, JobOf, JobIns
    <3>2. ~Holds(r)' /\ \A q \in Runners \ {r} : Holds(q)' = Holds(q) /\ JobOf(q)' = JobOf(q)
      BY <1>1, <2>5 DEF Releases, NewRunner, Holds, JobOf, TypeOK
    <3>3. WorkingOn' = [WorkingOn EXCEPT ![r] = None]
      BY <3>2 DEF WorkingOn
    <3>4. LimitedSlots!End(r)
      BY <1>3, <2>1, <2>5, <3>1, <3>3 DEF LimitedSlots!End, Releases, WorkingOn
    <3> QED
      BY <3>4 DEF LimitedSlots!Next
  <2> QED
    BY <1>6, <2>2, <2>3, <2>4, <2>5 DEF RunnerStep, RunsOn
<1>7. CASE UNCHANGED vars
  <2>1. SameWork
    BY <1>7 DEF vars, Holds, JobOf
  <2> QED
    BY <1>7, <2>1, SlotsStutter DEF vars
<1> QED
  BY <1>3, <1>4, <1>5, <1>6, <1>7 DEF Next

(* The limiter, the queue and the runners implement Slots in both modes:   *)
(* at most limit jobs are worked on at a time, each by one runner, in the  *)
(* order in which they were accepted; in reschedule mode no more than      *)
(* limit are accepted; and what is accepted is lost only when the executor *)
(* stops (executor.go:146-189, 315-376).  In wait mode this needs that no  *)
(* stop is given up or overtaken, in reschedule mode nothing.              *)
THEOREM LimitModeImplementsSlots == Spec /\ Bounded => ImplementsSlots
<1>1. Init => LimitedSlots!Init /\ Orderly
  BY SlotsInit, OrderlyInit
<1>2. LimitInv /\ Orderly /\ Bounded /\ [Next]_vars
        => [LimitedSlots!Next]_(LimitedSlots!vars) /\ mode' = mode /\ Orderly'
  BY SlotsStep, OrderlyStep DEF LimitInv
<1>3. Bounded /\ mode' = mode => Bounded'
  BY DEF Bounded
<1> QED
  BY <1>1, <1>2, <1>3, LimitInvariant, PTL DEF Spec, ImplementsSlots, LimitedSlots!Spec

-----------------------------------------------------------------------------
(* Jobs that are in singleton mode as well.                                *)

(* Only such a job gets as far as the look into singletonJobs.             *)
Checking == \A r \in Runners : Is(r, "check") => JobOf(r) \in Singletons

SingletonInv == TypeInv /\ Checking /\ SingletonsRunOnce

LEMMA SingletonsUntouched ==
  ASSUME SingletonInv, singletonJobs' = singletonJobs,
         \A r \in Runners :
           /\ InSingleton(r)' = InSingleton(r) /\ (InSingleton(r) => JobOf(r)' = JobOf(r))
           /\ Is(r, "check")' => Is(r, "check") /\ JobOf(r)' = JobOf(r)
  PROVE  Checking' /\ SingletonsRunOnce'
<1>1. {JobOf(r) : r \in {q \in Runners : InSingleton(q)}}'
        = {JobOf(r) : r \in {q \in Runners : InSingleton(q)}}
  OBVIOUS
<1> QED
  BY <1>1 DEF SingletonInv, Checking, SingletonsRunOnce

LEMMA SingletonsStep ==
  ASSUME SingletonInv, [Next]_vars
  PROVE  Checking' /\ SingletonsRunOnce'
<1>0. TypeInv /\ TypeOK /\ HandsFull
  BY DEF SingletonInv, TypeInv
<1>1. ASSUME \/ \E j \in Jobs : RemovesJob(j) \/ TimerFires(j) \/ RunNow(j)
             \/ Cancels \/ Reports \/ Starts \/ \E x \in resetting : Resets(x)
      PROVE  Checking' /\ SingletonsRunOnce'
  <2>1. singletonJobs' = singletonJobs
    BY <1>1 DEF RemovesJob, TimerFires, RunNow, Dispatches, Cancels, Reports, Starts, Resets
  <2>2. ASSUME NEW js, runner' = Cancelled(js)
        PROVE  \A r \in Runners : /\ Holds(r)' = Holds(r) /\ JobOf(r)' = JobOf(r)
                                  /\ runner[r] # None => runner'[r].pc = runner[r].pc
                                  /\ (runner'[r] = None) = (runner[r] = None)
    <3>1. ASSUME NEW u \in RunnerType
          PROVE  LET v == [u EXCEPT !.live = FALSE] IN
                 v \in RunnerType /\ v.pc = u.pc /\ v.jobIn = u.jobIn
      <4>1. [u EXCEPT !.live = FALSE] \in RunnerType
        BY DEF RunnerType
      <4>2. [u EXCEPT !.live = FALSE].pc = u.pc /\ [u EXCEPT !.live = FALSE].jobIn = u.jobIn
        BY DEF RunnerType
      <4> QED
        BY <4>1, <4>2
    <3>2. ASSUME NEW r \in Runners
          PROVE  \/ runner'[r] = runner[r]
                 \/ runner[r] \in RunnerType /\ runner'[r] = [runner[r] EXCEPT !.live = FALSE]
      BY <1>0, <2>2 DEF Cancelled, TypeOK
    <3>3. ASSUME NEW r \in Runners
          PROVE  \/ runner'[r] = runner[r]
                 \/ /\ runner[r] # None /\ runner'[r] # None
                    /\ runner'[r].pc = runner[r].pc /\ runner'[r].jobIn = runner[r].jobIn
      <4>1. CASE runner'[r] = runner[r]
        BY <4>1
      <4>2. CASE runner[r] \in RunnerType /\ runner'[r] = [runner[r] EXCEPT !.live = FALSE]
        <5>1. runner'[r] \in RunnerType /\ runner'[r].pc = runner[r].pc
              /\ runner'[r].jobIn = runner[r].jobIn
          BY <3>1, <4>2
        <5> QED
          BY <4>2, <5>1, NoneAssumption
      <4> QED
        BY <3>2, <4>1, <4>2
    <3> QED
      BY <3>3 DEF Holds, JobOf
  <2>3. CASE Cancels \/ \E j \in Jobs : RemovesJob(j)
    <3>1. \E js : runner' = Cancelled(js)
      BY <2>3 DEF Cancels, RemovesJob
    <3>2. \A r \in Runners :
           /\ InSingleton(r)' = InSingleton(r) /\ (InSingleton(r) => JobOf(r)' = JobOf(r))
           /\ Is(r, "check")' => Is(r, "check") /\ JobOf(r)' = JobOf(r)
      BY <2>2, <3>1 DEF InSingleton, Is, Holds
    <3> QED
      BY <2>1, <3>2, SingletonsUntouched
  <2>4. CASE Reports \/ Starts \/ \E x \in resetting : Resets(x)
    BY <2>1, <2>4, SingletonsUntouched DEF Reports, Starts, Resets, InSingleton, Holds, JobOf, Is
  <2>5. CASE \E j \in Jobs : TimerFires(j) \/ RunNow(j)
    <3>1. \A r \in Runners : runner'[r] = runner[r] \/ (runner[r] = None /\ runner'[r] = NewRunner)
      BY <1>0, <2>5 DEF TimerFires, RunNow, Dispatches, StartsRunners, TypeOK
    <3>2. \A r \in Runners :
           /\ InSingleton(r)' = InSingleton(r) /\ (InSingleton(r) => JobOf(r)' = JobOf(r))
           /\ Is(r, "check")' => Is(r, "check") /\ JobOf(r)' = JobOf(r)
      BY <3>1 DEF InSingleton, Is, Holds, JobOf, NewRunner
    <3> QED
      BY <2>1, <3>2, SingletonsUntouched
  <2> QED
    BY <1>1, <2>3, <2>4, <2>5
<1>2. ASSUME NEW d \in Dispatchers, DispatchStep(d)
      PROVE  Checking' /\ SingletonsRunOnce'
  BY <1>2, SingletonsUntouched
    DEF DispatchStep, Offers, DispatchReschedules, Pushes, InSingleton, Holds, JobOf, Is
<1>3. ASSUME NEW r \in Runners, RunnerStep(r)
      PROVE  Checking' /\ SingletonsRunOnce'
  <2>1. CASE Takes(r)
    <3>1. runner'[r] = None \/ runner'[r].pc = "got"
      BY <1>0, <2>1, TakesHead
    <3>2. \A q \in Runners \ {r} : runner'[q] = runner[q]
      BY <1>0, <2>1, TakesHead
    <3>3. ~InSingleton(r) /\ ~InSingleton(r)' /\ ~Is(r, "check")'
      BY <2>1, <3>1 DEF Takes, Is, InSingleton, Holds
    <3> QED
      BY <2>1, <3>2, <3>3, SingletonsUntouched DEF Takes, InSingleton, Holds, JobOf, Is
  <2>2. CASE Leaves(r)
    BY <1>0, <2>2, SingletonsUntouched DEF Leaves, REnds, InSingleton, Holds, JobOf, Is, TypeOK
  <2>3. CASE Releases(r)
    <3>1. runner'[r] = [NewRunner EXCEPT !.executor = runner[r].executor]
          /\ \A q \in Runners \ {r} : runner'[q] = runner[q]
      BY <1>0, <2>3 DEF Releases, TypeOK
    <3>2. runner'[r].pc = "select"
      BY <3>1 DEF NewRunner
    <3>3. ~InSingleton(r) /\ ~InSingleton(r)' /\ ~Is(r, "check")'
      BY <2>3, <3>2 DEF Releases, Is, InSingleton, Holds
    <3> QED
      BY <2>3, <3>1, <3>3, SingletonsUntouched DEF Releases, InSingleton, Holds, JobOf, Is
  <2>4. CASE RunsOn(r)
    <3> DEFINE S == {JobOf(q) : q \in {p \in Runners : InSingleton(p)}}
    <3>1. /\ Holds(r) /\ Holds(r)' /\ JobOf(r)' = JobOf(r)
          /\ \A q \in Runners \ {r} : /\ InSingleton(q)' = InSingleton(q) /\ JobOf(q)' = JobOf(q)
                                      /\ Is(q, "check")' = Is(q, "check")
          /\ runner[r] \in RunnerType
      BY <1>0, <2>4, RunKeepsJob DEF InSingleton, Holds, JobOf, Is, TypeOK
    <3>2. ASSUME NEW pc, RGoes(r, pc)
          PROVE  runner'[r].pc = pc
      BY <1>0, <3>1, <3>2 DEF RGoes, TypeOK, RunnerType
    <3>3. CASE Asks(r)
      <4>1. /\ runner[r].pc = "got" /\ singletonJobs' = singletonJobs
            /\ \/ runner'[r].pc = "check" /\ JobOf(r) \in Singletons
               \/ runner'[r].pc = "begin" /\ JobOf(r) \notin Singletons
               \/ runner'[r].pc = "release"
        BY <1>0, <3>1, <3>2, <3>3 DEF Asks, Is, TypeOK, RunnerType
      <4>2. ~InSingleton(r) /\ ~InSingleton(r)' /\ (Is(r, "check")' => JobOf(r)' \in Singletons)
        BY <3>1, <4>1 DEF InSingleton, Is
      <4>3. S' = S
        BY <3>1, <4>2
      <4> QED
        BY <3>1, <4>1, <4>2, <4>3 DEF SingletonInv, Checking, SingletonsRunOnce
    <3>4. CASE Refuses(r)
      <4>1. runner[r].pc = "refuse" /\ runner'[r].pc = "release" /\ singletonJobs' = singletonJobs
        BY <3>2, <3>4 DEF Refuses, Is
      <4> QED
        BY <3>1, <4>1, SingletonsUntouched DEF InSingleton, Is
    <3>5. CASE Begins(r) \/ RunReschedules(r) \/ TaskReturns(r)
      <4>1. /\ runner[r].pc \in {"begin", "run"} /\ runner'[r].pc = "run"
            /\ singletonJobs' = singletonJobs
        <5>1. CASE Begins(r)
          BY <1>0, <3>1, <3>2, <5>1 DEF Begins, Is, TypeOK, RunnerType
        <5>2. CASE RunReschedules(r)
          BY <1>0, <3>1, <5>2 DEF RunReschedules, Doing, Is, TypeOK, RunnerType
        <5>3. CASE TaskReturns(r)
          BY <1>0, <3>1, <5>3 DEF TaskReturns, Doing, Is, TypeOK, RunnerType
        <5> QED
          BY <3>5, <5>1, <5>2, <5>3
      <4> QED
        BY <3>1, <4>1, SingletonsUntouched DEF InSingleton, Is
    <3>6. CASE Checks(r) /\ JobOf(r) \in singletonJobs
      <4>1. /\ runner[r].pc = "check" /\ runner'[r].pc = "refuse"
            /\ singletonJobs' = singletonJobs
        BY <3>2, <3>6 DEF Checks, Is
      <4> QED
        BY <3>1, <4>1, SingletonsUntouched DEF InSingleton, Is
    <3>7. CASE Checks(r) /\ JobOf(r) \notin singletonJobs
      <4>1. /\ runner[r].pc = "check" /\ runner'[r].pc = "begin"
            /\ singletonJobs' = singletonJobs \cup {JobOf(r)} /\ JobOf(r) \in Singletons
        BY <3>2, <3>7 DEF Checks, Is, SingletonInv, Checking
      <4>2. ~InSingleton(r) /\ InSingleton(r)' /\ ~Is(r, "check")'
        BY <3>1, <4>1 DEF InSingleton, Is
      <4>3. S' = S \cup {JobOf(r)}
        BY <3>1, <4>2
      <4>4. \A q \in Runners : InSingleton(q) => JobOf(q) # JobOf(r)
        BY <3>7 DEF SingletonInv, SingletonsRunOnce
      <4> QED
        BY <3>1, <4>1, <4>2, <4>3, <4>4 DEF SingletonInv, Checking, SingletonsRunOnce
    <3>8. CASE Finishes(r)
      <4>1. /\ runner[r].pc = "run" /\ runner'[r].pc = "release"
            /\ singletonJobs' = singletonJobs \ {JobOf(r)}
        BY <3>2, <3>8 DEF Finishes, Is
      <4>2. ~InSingleton(r)' /\ ~Is(r, "check")'
        BY <4>1 DEF InSingleton, Is
      <4>3. \A q \in Runners \ {r} : InSingleton(q) => JobOf(q) # JobOf(r)
        <5>1. CASE InSingleton(r)
          BY <5>1 DEF SingletonInv, SingletonsRunOnce
        <5>2. CASE ~InSingleton(r)
          BY <3>1, <4>1, <5>2 DEF InSingleton
        <5> QED
          BY <5>1, <5>2
      <4>4. S' = S \ {JobOf(r)}
        BY <3>1, <4>2, <4>3
      <4> QED
        BY <3>1, <4>1, <4>2, <4>4 DEF SingletonInv, Checking, SingletonsRunOnce
    <3> QED
      BY <2>4, <3>3, <3>4, <3>5, <3>6, <3>7, <3>8 DEF RunsOn
  <2> QED
    BY <1>3, <2>1, <2>2, <2>3, <2>4 DEF RunnerStep, RunsOn
<1>4. CASE UNCHANGED vars
  BY <1>4, SingletonsUntouched DEF vars, InSingleton, Holds, JobOf, Is
<1> QED
  BY <1>1, <1>2, <1>3, <1>4 DEF Next

(* A job in singleton mode is in at most one runner, and singletonJobs     *)
(* holds exactly the jobs that are in one, over any stops and restarts     *)
(* (executor.go:332-363).                                                  *)
THEOREM SingletonsAreExclusive == Spec => []SingletonsRunOnce
<1>1. Init => SingletonInv
  <2> SUFFICES ASSUME Init PROVE SingletonInv
    OBVIOUS
  <2>1. TypeInv
    BY LimitInvInit DEF LimitInv
  <2>2. \A r \in Runners : ~InSingleton(r) /\ ~Is(r, "check")
    BY DEF Init, InSingleton, Holds, Is
  <2> QED
    BY <2>1, <2>2 DEF SingletonInv, Checking, SingletonsRunOnce, Init
<1>2. SingletonInv /\ [Next]_vars => SingletonInv'
  BY TypeInvStep, SingletonsStep DEF SingletonInv
<1>3. SingletonInv => SingletonsRunOnce
  BY DEF SingletonInv
<1> QED
  BY <1>1, <1>2, <1>3, PTL DEF Spec

-----------------------------------------------------------------------------
(* What a nil from StopJobs means.                                         *)

(* No runner belongs to an executor that is still to come, and none to one *)
(* that has reported nil: Reports looks at all of them at once, and runners *)
(* are made only while the executor is up.                                 *)
Counted ==
  \A r \in Runners : runner[r] # None =>
    /\ runner[r].executor <= executor
    /\ phase = "nil" => runner[r].executor < executor

LEMMA CountedStep ==
  ASSUME TypeInv, Counted, [Next]_vars
  PROVE  Counted'
<1> USE DEF Counted
<1>0. /\ executor \in Nat /\ runner \in [Runners -> RunnerType \cup {None}]
      /\ \A u \in RunnerType : u.executor \in Nat
  BY LimitAssumption DEF TypeInv, TypeOK, RunnerType
<1>1. ASSUME NEW js, runner' = Cancelled(js)
      PROVE  \A r \in Runners : /\ runner'[r] # None => runner[r] # None
                                /\ runner[r] # None => runner'[r].executor = runner[r].executor
  BY <1>0, <1>1 DEF Cancelled, RunnerType
<1>2. ASSUME NEW j \in Jobs, RemovesJob(j)
      PROVE  Counted'
  BY <1>1, <1>2 DEF RemovesJob, lifecycle
<1>3. ASSUME NEW j \in Jobs, TimerFires(j) \/ RunNow(j)
      PROVE  Counted'
  <2>1. /\ phase = "up" /\ phase' = "up" /\ executor' = executor
        /\ \A r \in Runners : runner'[r] = runner[r] \/ runner'[r] = NewRunner
    BY <1>0, <1>3 DEF TimerFires, RunNow, Dispatches, StartsRunners, lifecycle
  <2>2. NewRunner.executor = executor
    BY DEF NewRunner
  <2> QED
    BY <1>0, <2>1, <2>2
<1>4. CASE Cancels
  BY <1>1, <1>4 DEF Cancels
<1>5. CASE Reports
  <2>1. phase' = "nil" => AllDone
    BY <1>5 DEF Reports
  <2>2. \A r \in Runners : runner[r] # None /\ AllDone => runner[r].executor # executor
    BY DEF AllDone
  <2>3. /\ executor' = executor /\ runner' = runner
    BY <1>5 DEF Reports
  <2> QED
    BY <1>0, <2>1, <2>2, <2>3
<1>6. CASE Starts
  BY <1>0, <1>6 DEF Starts
<1>7. ASSUME NEW x \in resetting, Resets(x)
      PROVE  Counted'
  BY <1>7 DEF Resets
<1>8. ASSUME NEW d \in Dispatchers, DispatchStep(d)
      PROVE  Counted'
  BY <1>8 DEF DispatchStep, Offers, DispatchReschedules, Pushes, lifecycle
<1>9. ASSUME NEW r \in Runners, RunnerStep(r)
      PROVE  Counted'
  <2>1. UNCHANGED <<phase, executor>>
    BY <1>9 DEF RunnerStep, Takes, Leaves, Asks, Checks, Refuses, Begins, RunReschedules,
                TaskReturns, Finishes, Releases, lifecycle
  <2> QED
    BY <1>9, <2>1, RunnerKeepsExecutor
<1>10. CASE UNCHANGED vars
  BY <1>10 DEF vars
<1> QED
  BY <1>2, <1>3, <1>4, <1>5, <1>6, <1>7, <1>8, <1>9, <1>10 DEF Next

(* When StopJobs has returned nil no runner of that executor has a job in  *)
(* hands, so that no task is running and none will start, but for those of *)
(* an earlier executor that a stop has given up on (executor.go:649-655).  *)
THEOREM NilMeansQuiet == Spec => []StoppedMeansQuiet
<1>1. Init => TypeInv /\ Counted
  <2> SUFFICES ASSUME Init PROVE TypeInv /\ Counted
    OBVIOUS
  <2>1. TypeInv
    BY LimitInvInit DEF LimitInv
  <2> QED
    BY <2>1 DEF Counted, Init
<1>2. TypeInv /\ Counted /\ [Next]_vars => TypeInv' /\ Counted'
  BY TypeInvStep, CountedStep
<1>3. Counted => StoppedMeansQuiet
  BY DEF Counted, StoppedMeansQuiet, Holds
<1> QED
  BY <1>1, <1>2, <1>3, PTL DEF Spec

-----------------------------------------------------------------------------
(* A job is never stranded.                                                *)

Has(s, e) == \E i \in 1 .. Len(s) : s[i] = e

LEMMA HasAfterAppend ==
  ASSUME NEW S, NEW s \in Seq(S), NEW e \in S
  PROVE  /\ Has(Append(s, e), e)
         /\ \A x : Has(s, x) => Has(Append(s, e), x)
<1>1. /\ Len(Append(s, e)) = Len(s) + 1 /\ Len(s) \in Nat
      /\ Append(s, e)[Len(s) + 1] = e
      /\ \A i \in 1 .. Len(s) : Append(s, e)[i] = s[i]
  BY AppendProperties
<1>2. Has(Append(s, e), e)
  <2>1. Len(s) + 1 \in 1 .. Len(Append(s, e))
    BY <1>1
  <2> QED
    BY <1>1, <2>1 DEF Has
<1>3. ASSUME NEW x, Has(s, x)
      PROVE  Has(Append(s, e), x)
  <2>1. PICK i \in 1 .. Len(s) : s[i] = x
    BY <1>3 DEF Has
  <2>2. i \in 1 .. Len(Append(s, e)) /\ Append(s, e)[i] = x
    BY <1>1, <2>1
  <2> QED
    BY <2>2 DEF Has
<1> QED
  BY <1>2, <1>3

LEMMA HasAfterTail ==
  ASSUME NEW S, NEW s \in Seq(S), NEW x, Has(s, x)
  PROVE  s # <<>> /\ (Head(s) = x \/ Has(Tail(s), x))
<1>1. PICK i \in 1 .. Len(s) : s[i] = x
  BY DEF Has
<1>2. s # <<>> /\ Len(s) \in Nat
  BY <1>1
<1>3. Len(Tail(s)) = Len(s) - 1 /\ \A k \in 1 .. Len(Tail(s)) : Tail(s)[k] = s[k + 1]
  BY <1>2, HeadTailProperties
<1>4. CASE i = 1
  BY <1>1, <1>2, <1>4
<1>5. CASE i # 1
  <2>1. i - 1 \in 1 .. Len(Tail(s)) /\ Tail(s)[i - 1] = x
    BY <1>1, <1>2, <1>3, <1>5
  <2> QED
    BY <1>2, <2>1 DEF Has
<1> QED
  BY <1>4, <1>5

(* What will arm job j: a jobIn that asks for it, in a dispatch or in the  *)
(* queue, or a runner that has it in hands and still has to do what sends  *)
(* it out.  A runner whose copy of the job has been cancelled does not     *)
(* count.                                                                  *)
Ticket(j) == [job |-> j, sendOut |-> TRUE]

Brings(r, j) ==
  /\ Holds(r) /\ runner[r].jobIn = Ticket(j)
  /\ \/ runner[r].pc = "got"
     \/ runner[r].pc \in {"check", "refuse", "begin"} /\ runner[r].live
     \/ runner[r].pc = "run" /\ Has(runner[r].todo, "resched")

Carried(j) == \E d \in Dispatchers : dispatch[d] # None /\ dispatch[d].jobIn = Ticket(j)

OnItsWay(j) ==
  j \in armed \/ Carried(j) \/ Has(in, Ticket(j)) \/ \E r \in Runners : Brings(r, j)

Rearmed == phase = "up" => \A j \in present : OnItsWay(j)

LEMMA SchedulerRearms ==
  ASSUME TypeInv, Rearmed,
         \/ \E j \in Jobs : RemovesJob(j) \/ TimerFires(j) \/ RunNow(j)
         \/ Cancels \/ Reports \/ Starts \/ \E x \in resetting : Resets(x)
  PROVE  Rearmed'
<1>0. /\ runner \in [Runners -> RunnerType \cup {None}]
      /\ dispatch \in [Dispatchers -> DispatchType \cup {None}]
  BY DEF TypeInv, TypeOK
<1>1. ASSUME NEW j \in Jobs, RemovesJob(j)
      PROVE  Rearmed'
  <2> SUFFICES ASSUME phase = "up", NEW k \in present \ {j}
               PROVE  OnItsWay(k)'
    BY <1>1 DEF RemovesJob, Rearmed, lifecycle
  <2>1. OnItsWay(k)
    BY DEF Rearmed
  <2>2. armed' = armed \ {j} /\ dispatch' = dispatch /\ in' = in
    BY <1>1 DEF RemovesJob
  <2>3. ASSUME NEW r \in Runners, Brings(r, k)
        PROVE  Brings(r, k)'
    <3>1. runner[r].jobIn.job = k /\ k # j
      BY <2>3 DEF Brings, Ticket
    <3>2. runner'[r] = runner[r]
      BY <1>1, <3>1 DEF RemovesJob, Cancelled
    <3> QED
      BY <2>3, <3>2 DEF Brings, Holds
  <2> QED
    BY <2>1, <2>2, <2>3 DEF OnItsWay, Carried
<1>2. ASSUME NEW j \in Jobs, NEW b \in BOOLEAN, Dispatches(j, b), phase = "up",
             armed' = IF b THEN armed \ {j} ELSE armed
      PROVE  Rearmed'
  <2> SUFFICES ASSUME NEW k \in present
               PROVE  OnItsWay(k)'
    BY <1>2 DEF Dispatches, Rearmed
  <2>1. OnItsWay(k) /\ in' = in
    BY <1>2 DEF Rearmed, Dispatches
  <2>2. ASSUME NEW r \in Runners, Brings(r, k)
        PROVE  Brings(r, k)'
    <3>1. runner'[r] = runner[r]
      BY <1>0, <1>2, <2>2 DEF Dispatches, StartsRunners, Brings, Holds
    <3> QED
      BY <2>2, <3>1 DEF Brings, Holds
  <2>3. PICK d \in Dispatchers :
          /\ dispatch[d] = None
          /\ \A e \in Dispatchers \ {d} : dispatch'[e] = dispatch[e]
          /\ dispatch'[d] # None /\ dispatch'[d].jobIn = [job |-> j, sendOut |-> b]
    <3>1. \A pc \in {"offer", "resched"} :
            [pc |-> pc, jobIn |-> [job |-> j, sendOut |-> b]] \in DispatchType
      BY DEF DispatchType, JobIns
    <3> QED
      BY <1>0, <1>2, <3>1, NoneAssumption DEF Dispatches
  <2>4. Carried(k) => Carried(k)'
    BY <2>3 DEF Carried
  <2>5. k = j /\ b => Carried(k)'
    BY <2>3 DEF Carried, Ticket
  <2>6. k \in armed => k \in armed' \/ (k = j /\ b)
    BY <1>2
  <2> QED
    BY <2>1, <2>2, <2>4, <2>5, <2>6 DEF OnItsWay
<1>3. ASSUME NEW j \in Jobs, TimerFires(j)
      PROVE  Rearmed'
  BY <1>2, <1>3 DEF TimerFires
<1>4. ASSUME NEW j \in Jobs, RunNow(j)
      PROVE  Rearmed'
  BY <1>2, <1>4 DEF RunNow
<1>5. CASE Cancels \/ Reports
  BY <1>5 DEF Cancels, Reports, Rearmed
<1>6. CASE Starts
  BY <1>6 DEF Starts, Rearmed, OnItsWay
<1>7. ASSUME NEW x \in resetting, Resets(x)
      PROVE  Rearmed'
  BY <1>7 DEF Resets, table, Rearmed, OnItsWay, Carried, Brings, Holds
<1> QED
  BY <1>1, <1>3, <1>4, <1>5, <1>6, <1>7

LEMMA DispatchRearms ==
  ASSUME TypeInv, Rearmed, NEW d \in Dispatchers, DispatchStep(d)
  PROVE  Rearmed'
<1> SUFFICES ASSUME phase = "up", NEW j \in present
             PROVE  OnItsWay(j)'
  BY DEF Rearmed, DispatchStep, Offers, DispatchReschedules, Pushes, lifecycle, table
<1>0. /\ dispatch \in [Dispatchers -> DispatchType \cup {None}]
      /\ dispatch[d] \in DispatchType /\ dispatch[d] # None
      /\ dispatch[d].jobIn \in JobIns
      /\ in \in Seq(JobIns)
  BY NoneAssumption
    DEF TypeInv, TypeOK, DispatchStep, Offers, DispatchReschedules, Pushes, At, DispatchType
<1>1. OnItsWay(j)
  BY DEF Rearmed
<1>2. ASSUME NEW r \in Runners, Brings(r, j)
      PROVE  Brings(r, j)'
  BY <1>2 DEF DispatchStep, Offers, DispatchReschedules, Pushes, Brings, Holds
<1>3. CASE Offers(d)
  <2>1. PICK pc \in {"push", "resched"} : dispatch' = [dispatch EXCEPT ![d].pc = pc]
    BY <1>3 DEF Offers
  <2>2. dispatch'[d] # None /\ dispatch'[d].jobIn = dispatch[d].jobIn
    <3>1. [dispatch[d] EXCEPT !.pc = pc] \in DispatchType
          /\ [dispatch[d] EXCEPT !.pc = pc].jobIn = dispatch[d].jobIn
      BY <1>0 DEF DispatchType
    <3> QED
      BY <1>0, <2>1, <3>1, NoneAssumption
  <2>3. Carried(j) => Carried(j)'
    BY <1>0, <2>1, <2>2 DEF Carried
  <2>4. UNCHANGED <<armed, in>>
    BY <1>3 DEF Offers, table
  <2> QED
    BY <1>1, <1>2, <2>3, <2>4 DEF OnItsWay
<1>4. CASE DispatchReschedules(d)
  <2>1. in' = in /\ \A e \in Dispatchers \ {d} : dispatch'[e] = dispatch[e]
    BY <1>0, <1>4 DEF DispatchReschedules, DEnds
  <2>2. armed \subseteq armed' /\ (dispatch[d].jobIn = Ticket(j) => j \in armed')
    BY <1>4 DEF DispatchReschedules, SendOutForRescheduling, ContextDone, Ticket
  <2>3. Carried(j) => Carried(j)' \/ j \in armed'
    BY <2>1, <2>2 DEF Carried
  <2> QED
    BY <1>1, <1>2, <2>1, <2>2, <2>3 DEF OnItsWay
<1>5. CASE Pushes(d)
  <2>1. armed' = armed /\ \A e \in Dispatchers \ {d} : dispatch'[e] = dispatch[e]
    BY <1>0, <1>5 DEF Pushes, DEnds, table
  <2>2. Has(in', dispatch[d].jobIn) /\ (Has(in, Ticket(j)) => Has(in', Ticket(j)))
    BY <1>0, <1>5, HasAfterAppend DEF Pushes
  <2>3. Carried(j) => Carried(j)' \/ Has(in', Ticket(j))
    BY <2>1, <2>2 DEF Carried
  <2>4. Has(in, Ticket(j))' = Has(in', Ticket(j))
    BY DEF Has, Ticket
  <2> QED
    BY <1>1, <1>2, <2>1, <2>2, <2>3, <2>4 DEF OnItsWay
<1> QED
  BY <1>3, <1>4, <1>5 DEF DispatchStep

LEMMA RunnerRearms ==
  ASSUME TypeInv, Rearmed, NEW r \in Runners, RunnerStep(r)
  PROVE  Rearmed'
<1> SUFFICES ASSUME phase = "up", NEW j \in present
             PROVE  OnItsWay(j)'
  BY DEF Rearmed, RunnerStep, Takes, Leaves, Asks, Checks, Refuses, Begins, RunReschedules,
         TaskReturns, Finishes, Releases, lifecycle, table
<1>0. /\ runner \in [Runners -> RunnerType \cup {None}]
      /\ runner[r] \in RunnerType /\ runner[r] # None
      /\ in \in Seq(JobIns)
      /\ runner[r].todo \in Seq(Steps)
  BY RunnerKeepsExecutor, NoneAssumption DEF TypeInv, TypeOK, RunnerType
<1>1. OnItsWay(j)
  BY DEF Rearmed
<1>2. \A q \in Runners \ {r} : runner'[q] = runner[q]
  BY RunnerKeepsExecutor
<1>3. \A q \in Runners \ {r} : Brings(q, j) => Brings(q, j)'
  BY <1>2 DEF Brings, Holds
<1>4. dispatch' = dispatch /\ (Carried(j) => Carried(j)')
  BY DEF RunnerStep, Takes, Leaves, Asks, Checks, Refuses, Begins, RunReschedules,
         TaskReturns, Finishes, Releases, Carried
<1>5. ASSUME armed \subseteq armed', in' = in, Brings(r, j) => Brings(r, j)' \/ j \in armed'
      PROVE  OnItsWay(j)'
  BY <1>1, <1>3, <1>4, <1>5 DEF OnItsWay
<1>6. ASSUME NEW u \in RunnerType, runner'[r] = u, u.jobIn = Ticket(j),
             \/ u.pc = "got"
             \/ u.pc \in {"check", "refuse", "begin"} /\ u.live
             \/ u.pc = "run" /\ Has(u.todo, "resched")
      PROVE  Brings(r, j)'
  BY <1>6, NoneAssumption DEF Brings, Holds
<1>7. ASSUME NEW pc, RGoes(r, pc)
      PROVE  runner'[r] = [runner[r] EXCEPT !.pc = pc]
  BY <1>0, <1>7 DEF RGoes
<1>8. CASE Takes(r)
  <2>1. /\ in' = Tail(in) /\ ~Brings(r, j) /\ armed' = armed
        /\ runner'[r] \in RunnerType /\ runner'[r].pc = "got" /\ runner'[r].jobIn = Head(in)
    BY <1>8, TakesHead DEF TypeInv, Takes, Brings, Holds, Is, ContextDone, table
  <2>2. Has(in, Ticket(j)) => Head(in) = Ticket(j) \/ Has(in', Ticket(j))
    BY <1>0, <2>1, HasAfterTail
  <2>3. Head(in) = Ticket(j) => Brings(r, j)'
    BY <1>6, <2>1
  <2>4. Has(in, Ticket(j))' = Has(in', Ticket(j))
    BY DEF Has, Ticket
  <2> QED
    BY <1>1, <1>3, <1>4, <2>1, <2>2, <2>3, <2>4 DEF OnItsWay
<1>9. CASE Leaves(r) \/ Finishes(r) \/ Releases(r)
  <2>1. UNCHANGED <<armed, in>> /\ ~Brings(r, j)
    BY <1>9 DEF Leaves, Finishes, Releases, Brings, Has, Holds, Is, ContextDone, table
  <2> QED
    BY <1>5, <2>1
<1>10. CASE Asks(r)
  <2> DEFINE u == [runner[r] EXCEPT !.live = TRUE,
                     !.pc = IF JobOf(r) \in Singletons THEN "check" ELSE "begin"]
  <2>1. UNCHANGED <<armed, in>> /\ (JobOf(r) = j => runner'[r] = u)
    BY <1>0, <1>10 DEF Asks, ContextDone, table
  <2>2. u \in RunnerType /\ u.jobIn = runner[r].jobIn /\ u.pc \in {"check", "begin"} /\ u.live
    BY <1>0 DEF RunnerType
  <2>3. Brings(r, j) => JobOf(r) = j /\ runner[r].jobIn = Ticket(j)
    BY DEF Brings, JobOf, Ticket
  <2> HIDE DEF u
  <2> QED
    BY <1>5, <1>6, <2>1, <2>2, <2>3
<1>11. CASE Checks(r)
  <2>1. PICK pc \in {"refuse", "begin"} : runner'[r] = [runner[r] EXCEPT !.pc = pc]
    BY <1>7, <1>11 DEF Checks
  <2> DEFINE u == [runner[r] EXCEPT !.pc = pc]
  <2>2. /\ u \in RunnerType /\ u.jobIn = runner[r].jobIn /\ u.pc \in {"refuse", "begin"}
        /\ u.live = runner[r].live
    BY <1>0 DEF RunnerType
  <2>3. Brings(r, j) => runner[r].live /\ runner[r].jobIn = Ticket(j)
    BY <1>11 DEF Checks, Brings, Is
  <2>4. UNCHANGED <<armed, in>>
    BY <1>11 DEF Checks, table
  <2>5. runner'[r] = u
    BY <2>1
  <2> HIDE DEF u
  <2> QED
    BY <1>5, <1>6, <2>2, <2>3, <2>4, <2>5
<1>12. CASE Refuses(r)
  <2>1. /\ in' = in /\ armed \subseteq armed'
        /\ runner[r].live /\ runner[r].jobIn = Ticket(j) => j \in armed'
    BY <1>12 DEF Refuses, SendOutForRescheduling, ContextDone, Ticket
  <2>2. Brings(r, j) => runner[r].live /\ runner[r].jobIn = Ticket(j)
    BY <1>12 DEF Refuses, Brings, Is
  <2> QED
    BY <1>5, <2>1, <2>2
<1>13. CASE Begins(r)
  <2>1. UNCHANGED <<armed, in>>
    BY <1>13 DEF Begins, table
  <2>2. ASSUME Brings(r, j)
        PROVE  Brings(r, j)'
    <3>1. runner[r].live /\ runner[r].jobIn = Ticket(j)
      BY <1>13, <2>2 DEF Begins, Brings, Is
    <3>2. PICK todo \in Path(JobOf(r)) : runner'[r] = [runner[r] EXCEPT !.pc = "run", !.todo = todo]
      BY <1>0, <1>13, <3>1 DEF Begins, ContextDone
    <3>3. todo \in Seq(Steps) /\ Has(todo, "resched")
      <4>1. <<"task", "resched">> \in Seq(Steps) /\ Has(<<"task", "resched">>, "resched")
        BY DEF Steps, Has
      <4>2. <<"resched", "task">> \in Seq(Steps) /\ Has(<<"resched", "task">>, "resched")
        BY DEF Steps, Has
      <4>3. <<"resched">> \in Seq(Steps) /\ Has(<<"resched">>, "resched")
        BY DEF Steps, Has
      <4> QED
        BY <4>1, <4>2, <4>3 DEF Path
    <3> DEFINE u == [runner[r] EXCEPT !.pc = "run", !.todo = todo]
    <3>4. u \in RunnerType /\ u.jobIn = runner[r].jobIn /\ u.pc = "run" /\ u.todo = todo
      BY <1>0, <3>3 DEF RunnerType
    <3>5. runner'[r] = u
      BY <3>2
    <3> HIDE DEF u
    <3> QED
      BY <1>6, <3>1, <3>3, <3>4, <3>5
  <2> QED
    BY <1>5, <2>1, <2>2
<1>14. CASE RunReschedules(r)
  <2>1. in' = in /\ armed \subseteq armed' /\ (runner[r].jobIn = Ticket(j) => j \in armed')
    BY <1>14 DEF RunReschedules, SendOutForRescheduling, ContextDone, Ticket
  <2> QED
    BY <1>5, <2>1 DEF Brings
<1>15. CASE TaskReturns(r)
  <2>1. UNCHANGED <<armed, in>> /\ runner'[r] = [runner[r] EXCEPT !.todo = Tail(@)]
    BY <1>0, <1>15 DEF TaskReturns, table
  <2>2. ASSUME Brings(r, j)
        PROVE  Brings(r, j)'
    <3>1. /\ runner[r].pc = "run" /\ Has(runner[r].todo, "resched")
          /\ Head(runner[r].todo) = "task" /\ runner[r].jobIn = Ticket(j)
      BY <1>15, <2>2 DEF TaskReturns, Doing, Brings, Is
    <3>2. Has(Tail(runner[r].todo), "resched") /\ runner[r].todo # <<>>
      BY <1>0, <3>1, HasAfterTail
    <3>3. Tail(runner[r].todo) \in Seq(Steps)
      BY <1>0, <3>2, HeadTailProperties
    <3> DEFINE u == [runner[r] EXCEPT !.todo = Tail(@)]
    <3>4. /\ u \in RunnerType /\ u.jobIn = runner[r].jobIn /\ u.pc = "run"
          /\ u.todo = Tail(runner[r].todo)
      BY <1>0, <3>1, <3>3 DEF RunnerType
    <3>5. runner'[r] = u
      BY <2>1
    <3> HIDE DEF u
    <3> QED
      BY <1>6, <3>1, <3>2, <3>4, <3>5
  <2> QED
    BY <1>5, <2>1, <2>2
<1> QED
  BY <1>8, <1>9, <1>10, <1>11, <1>12, <1>13, <1>14, <1>15 DEF RunnerStep

(* While the executor is up, every job the scheduler has is armed, or      *)
(* there is a dispatch, a jobIn in the queue or a runner that is going to  *)
(* have it armed: whatever is skipped, refused, removed, run by hand or    *)
(* left from an executor before (executor.go:188, 196, 339-345, 441-568).  *)
THEOREM NobodyStranded == Spec => []NeverStranded
<1>1. Init => TypeInv /\ Rearmed
  <2> SUFFICES ASSUME Init PROVE TypeInv /\ Rearmed
    OBVIOUS
  <2>1. TypeInv
    BY LimitInvInit DEF LimitInv
  <2> QED
    BY <2>1 DEF Rearmed, OnItsWay, Init
<1>2. TypeInv /\ Rearmed /\ [Next]_vars => TypeInv' /\ Rearmed'
  <2> SUFFICES ASSUME TypeInv, Rearmed, [Next]_vars PROVE TypeInv' /\ Rearmed'
    OBVIOUS
  <2>1. CASE UNCHANGED vars
    BY <2>1, TypeInvStep DEF vars, Rearmed, OnItsWay, Carried, Brings, Holds
  <2> QED
    BY <2>1, TypeInvStep, SchedulerRearms, DispatchRearms, RunnerRearms DEF Next
<1>3. Rearmed => NeverStranded
  BY DEF Rearmed, OnItsWay, NeverStranded, WillRearm, Carried, Brings, Has, Ticket, Working
<1> QED
  BY <1>1, <1>2, <1>3, PTL DEF Spec

=============================================================================
