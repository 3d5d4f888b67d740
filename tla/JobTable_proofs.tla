--------------------------- MODULE JobTable_proofs ---------------------------
(***************************************************************************)
(* Theorems about JobTable, for every set of job definitions, ids, timers, *)
(* runs and every bound.                                                   *)
(*                                                                         *)
(* What advancePastNow and advanceNextPastDuplicates compute plays no role *)
(* here: the proofs only use that a decision to arm a timer was checked    *)
(* against the stop time.                                                  *)
(***************************************************************************)
EXTENDS JobTable, SequenceTheorems, TLAPS

USE DEF Zero, lifecycle, history

(* The decision for a first run: it fires now, or arms before the stop     *)
(* time.                                                                   *)
LEMMA FirstRunDecides ==
  ASSUME NEW d, NEW s, NEW t
  PROVE  LET decision == FirstRun(d, s, t) IN
         /\ decision.act = "fire" => decision.at = t
         /\ decision.act = "arm" => ~AtOrPastStop(d, decision.at)
  BY DEF FirstRun, LateFirstRun, ArmBeforeStop, Fire, ArmAt, Drop

(* The decision for a rescheduled job arms before the stop time.           *)
LEMMA NextRunDecides ==
  ASSUME NEW j, NEW t, NextRun(j, t).act = "arm"
  PROVE  ~AtOrPastStop(j.def, NextRun(j, t).at)
  BY DEF NextRun, ArmBeforeStop, ArmAt, Drop, Leave

(* While the scheduler is not started or stops nothing is armed, and only  *)
(* callbacks that wait for an executor are left; jobs that selectStart has *)
(* not reached yet have no armed timer: the strengthening that TimerOwned  *)
(* needs, because prepareFirstRun does not stop an older timer.            *)
Standstill ==
  /\ stopping => started /\ starting = {}
  /\ ~started => starting = {} /\ \A r \in Runs : run[r] = None \/ At(r, "send")
  /\ ~started \/ stopping => \A x \in Timers : timer[x] = None
  /\ \A x \in Timers : timer[x] # None => timer[x].id \notin starting

TableInv == TypeOK /\ Standstill /\ TimerOwned /\ ArmedIsAnnounced

-----------------------------------------------------------------------------
(* Type correctness, effect by effect.                                     *)

TableTypes(js, tm, rn) ==
  /\ js \in [Ids -> JobType \cup {None}]
  /\ tm \in [Timers -> TimerType \cup {None}]
  /\ rn \in [Runs -> RunType \cup {None}]

LEMMA CancelRunsType ==
  ASSUME NEW rn \in [Runs -> RunType \cup {None}], NEW id \in Ids
  PROVE  CancelRuns(rn, id) \in [Runs -> RunType \cup {None}]
  BY NoneAssumption DEF CancelRuns, RunType

LEMMA DisarmType ==
  ASSUME NEW tm \in [Timers -> TimerType \cup {None}], NEW x
  PROVE  Disarm(tm, x) \in [Timers -> TimerType \cup {None}]
  BY DEF Disarm

LEMMA DispatchedType ==
  ASSUME NEW id \in Ids, NEW b \in BOOLEAN
  PROVE  Dispatched(id, b) \in RunType
  BY DEF Dispatched, RunType, Steps

LEMMA PruneType ==
  ASSUME NEW j \in JobType
  PROVE  PruneStaleScheduled(j) \in JobType
  BY DEF PruneStaleScheduled, JobType

LEMMA FreshJobType ==
  ASSUME NEW d \in Defs
  PROVE  FreshJob(d) \in JobType
  BY DefAssumption, HorizonAssumption DEF FreshJob, JobType, DefType, Times, Instants

LEMMA CountedType ==
  ASSUME NEW j \in JobType, now \in Instants
  PROVE  Counted(j) \in JobType
<1> DEFINE p == PruneStaleScheduled(j)
<1>1. p \in JobType
  BY PruneType
<1>2. [p EXCEPT !.runCount = @ + 1] \in JobType
  BY <1>1 DEF JobType
<1>3. \A c \in JobType : [c EXCEPT !.lastRun = now] \in JobType
  BY DEF JobType, Instants
<1> HIDE DEF p
<1> QED
  BY <1>1, <1>2, <1>3 DEF Counted, p

LEMMA TailNotEmpty ==
  ASSUME NEW S, NEW s \in Seq(S) \ {<<>>}, Len(s) # 1
  PROVE  Tail(s) \in Seq(S) \ {<<>>}
<1>1. Tail(s) \in Seq(S) /\ Len(Tail(s)) = Len(s) - 1 /\ Len(s) \in Nat /\ Len(s) # 0
  BY HeadTailProperties
<1>2. Len(Tail(s)) # 0
  BY <1>1
<1>3. Len(<<>>) = 0
  OBVIOUS
<1> QED
  BY <1>1, <1>2, <1>3

LEMMA AfterType ==
  ASSUME NEW r \in Runs, run \in [Runs -> RunType \cup {None}], run[r] # None
  PROVE  /\ After(r) \in [Runs -> RunType \cup {None}]
         /\ Done(r) \in [Runs -> RunType \cup {None}]
<1>1. run[r] \in RunType
  OBVIOUS
<1>2. Len(run[r].todo) # 1 => Tail(run[r].todo) \in Seq(Steps) \ {<<>>}
  <2>1. run[r].todo \in Seq(Steps) \ {<<>>}
    BY <1>1 DEF RunType
  <2> QED
    BY <2>1, TailNotEmpty
<1>3. Len(run[r].todo) # 1 => [run[r] EXCEPT !.todo = Tail(@)] \in RunType
  BY <1>1, <1>2 DEF RunType
<1> QED
  BY <1>1, <1>3 DEF After, Done

LEMMA RemoveType ==
  ASSUME NEW id \in Ids, NEW rn, TableTypes(jobs, timer, rn), Remove(id, rn)
  PROVE  TableTypes(jobs', timer', run')
  BY CancelRunsType, DisarmType DEF Remove, TableTypes

LEMMA ArmType ==
  ASSUME NEW id \in Ids, NEW j \in JobType, NEW t, NEW tm, NEW rn,
         TableTypes(jobs, tm, rn), Arm(id, j, t, tm, rn)
  PROVE  TableTypes(jobs', timer', run')
<1>1. PICK x \in FreeTimers, at \in Instants :
        /\ timer' = [tm EXCEPT ![x] = [id |-> id, at |-> at]]
        /\ jobs' = [jobs EXCEPT ![id] =
                      [j EXCEPT !.timer = x, !.nextScheduled = @ \cup {at}]]
        /\ run' = rn
  BY DEF Arm
<1>2. x \in Timers
  BY DEF FreeTimers
<1>3. [id |-> id, at |-> at] \in TimerType
  BY DEF TimerType
<1>4. [j EXCEPT !.timer = x, !.nextScheduled = @ \cup {at}] \in JobType
  BY <1>2 DEF JobType
<1> QED
  BY <1>1, <1>2, <1>3, <1>4 DEF TableTypes

LEMMA RescheduleType ==
  ASSUME NEW id \in Ids, NEW rn, TableTypes(jobs, timer, rn), Reschedule(id, rn)
  PROVE  TableTypes(jobs', timer', run')
<1>1. CASE run' = rn /\ UNCHANGED <<jobs, timer>>
  BY <1>1 DEF TableTypes
<1>2. CASE Remove(id, rn)
  BY <1>2, RemoveType
<1>3. CASE /\ Registered(id)
           /\ Arm(id, jobs[id], NextRun(jobs[id], now).at, Disarm(timer, jobs[id].timer), rn)
  <2>1. jobs[id] \in JobType
    BY <1>3 DEF TableTypes, Registered
  <2>2. TableTypes(jobs, Disarm(timer, jobs[id].timer), rn)
    BY DisarmType DEF TableTypes
  <2> QED
    BY <1>3, <2>1, <2>2, ArmType
<1> QED
  BY <1>1, <1>2, <1>3 DEF Reschedule

LEMMA PrepareFirstRunType ==
  ASSUME NEW id \in Ids, NEW j \in JobType, now \in Instants,
         TableTypes(jobs, timer, run), PrepareFirstRun(id, j)
  PROVE  TableTypes(jobs', timer', run')
<1> DEFINE decision == FirstRun(j.def, j.startTime, now)
           announced == [j EXCEPT !.startTime = decision.at]
<1>1. CASE /\ decision.act = "drop"
           /\ jobs' = [jobs EXCEPT ![id] = None]
           /\ timer' = Disarm(timer, j.timer)
           /\ run' = CancelRuns(run, id)
  BY <1>1, CancelRunsType, DisarmType DEF TableTypes
<1>2. CASE /\ decision.act = "fire"
           /\ \E r \in Runs : /\ run[r] = None
                               /\ run' = [run EXCEPT ![r] = Dispatched(id, TRUE)]
           /\ jobs' = [jobs EXCEPT ![id] = [announced EXCEPT !.nextScheduled = @ \cup {now}]]
           /\ UNCHANGED timer
  <2>1. decision.at = now
    BY <1>2, FirstRunDecides
  <2>2. [announced EXCEPT !.nextScheduled = @ \cup {now}] \in JobType
    BY <2>1 DEF JobType, Instants
  <2> HIDE DEF decision, announced
  <2> QED
    BY <1>2, <2>2, DispatchedType DEF TableTypes
<1>3. CASE decision.act = "arm" /\ Arm(id, announced, decision.at, timer, run)
  <2>1. decision.at \in Instants
    BY <1>3 DEF Arm
  <2>2. announced \in JobType
    BY <2>1 DEF JobType, Instants
  <2> HIDE DEF decision, announced
  <2> QED
    BY <1>3, <2>2, ArmType
<1> QED
  BY <1>1, <1>2, <1>3 DEF PrepareFirstRun

-----------------------------------------------------------------------------
LEMMA InitTypes == Init => TypeOK
<1> SUFFICES ASSUME Init PROVE TypeOK
  OBVIOUS
<1>1. now \in Instants
  BY BoundAssumption, HorizonAssumption DEF Init, Instants, Times
<1>2. timing \in Seq(Ids) /\ starting \subseteq {id \in Ids : jobs[id] # None}
  BY DEF Init
<1>3. TableTypes(jobs, timer, run)
  BY DEF Init, TableTypes
<1> QED
  BY <1>1, <1>2, <1>3 DEF Init, TypeOK, TableTypes

(* A step of a client call keeps the types.                                *)
LEMMA ClientTypes ==
  ASSUME TypeOK, ClientCall
  PROVE  TypeOK'
<1>1. TableTypes(jobs, timer, run)
  BY DEF TableTypes, TypeOK
<1>2. ASSUME NEW id \in Ids, NEW d \in Defs, NewJob(id, d)
      PROVE  TypeOK'
  <2>1. FreshJob(d) \in JobType
    BY FreshJobType
  <2>2. TableTypes(jobs', timer', run')
    <3>1. CASE PrepareFirstRun(id, FreshJob(d))
      BY <1>1, <2>1, <3>1, PrepareFirstRunType DEF TypeOK
    <3>2. CASE /\ jobs' = [jobs EXCEPT ![id] = FreshJob(d)]
               /\ UNCHANGED <<timer, run>>
      BY <1>1, <2>1, <3>2 DEF TableTypes
    <3> QED
      BY <1>2, <3>1, <3>2 DEF NewJob
  <2>3. added' \in [Ids -> Nat] /\ ran' \in [Ids -> Nat]
    BY <1>2 DEF NewJob, TypeOK
  <2>4. starting' = {}
    BY <1>2 DEF NewJob, Ready
  <2> QED
    BY <1>2, <2>2, <2>3, <2>4 DEF NewJob, TableTypes, TypeOK
<1>3. ASSUME NEW id \in Ids, RemoveJob(id)
      PROVE  TypeOK'
  BY <1>1, <1>3, RemoveType DEF RemoveJob, TableTypes, TypeOK, Ready
<1>4. ASSUME NEW tagged \in SUBSET Ids, RemoveByTags(tagged)
      PROVE  TypeOK'
  <2>1. \A r \in Runs : run[r] # None => [run[r] EXCEPT !.live = FALSE] \in RunType
    BY DEF TypeOK, RunType
  <2> QED
    BY <1>4, <2>1 DEF RemoveByTags, TypeOK, Ready
<1>5. ASSUME NEW id \in Ids, RunNow(id)
      PROVE  TypeOK'
  <2>1. Dispatched(id, FALSE) \in RunType
    BY DispatchedType
  <2>2. run' \in [Runs -> RunType \cup {None}]
    <3> DEFINE taken == Dispatched(id, FALSE)
    <3>1. PICK q \in Runs : run' = [run EXCEPT ![q] = taken]
      BY <1>5 DEF RunNow
    <3>2. taken \in RunType
      BY <2>1
    <3> HIDE DEF taken
    <3> QED
      BY <3>1, <3>2 DEF TypeOK
  <2>3. /\ runNows' = runNows + 1
        /\ UNCHANGED <<now, lifecycle, jobs, timer, timing, removing, added, ran, stops, late>>
    BY <1>5, Zenon DEF RunNow
  <2> QED
    BY <2>2, <2>3 DEF TypeOK
<1>6. CASE Start
  BY <1>6 DEF Start, TypeOK, Registered
<1>7. CASE StopJobs
  <2>1. \A r \in Runs : run[r] # None =>
          [run[r] EXCEPT !.live = FALSE] \in RunType /\ run[r].id \in Ids
    BY DEF TypeOK, RunType
  <2>2. late' \subseteq Ids
    BY <1>7, <2>1 DEF StopJobs, At, TypeOK
  <2> QED
    BY <1>7, <2>1, <2>2 DEF StopJobs, TypeOK
<1> QED
  BY <1>2, <1>3, <1>4, <1>5, <1>6, <1>7 DEF ClientCall

(* A step of a run keeps the types.                                        *)
LEMMA RunTypes ==
  ASSUME TypeOK, NEW r \in Runs, RunStep(r)
  PROVE  TypeOK'
<1>1. TableTypes(jobs, timer, run)
  BY DEF TableTypes, TypeOK
<1>2. run[r] # None /\ run[r] \in RunType /\ run[r].id \in Ids
  BY DEF TypeOK, RunType, RunStep, At, Dispatch, GivesUp, Request, RunJob, SendOutForRescheduling,
     SendOutForNextRunUpdate, SendOutCompleted, SendOutSkipped, TaskReturns, SendTiming
<1>3. /\ After(r) \in [Runs -> RunType \cup {None}]
      /\ Done(r) \in [Runs -> RunType \cup {None}]
  BY <1>2, AfterType DEF TypeOK
<1>4. CASE Request(r)
  <2>1. Registered(run[r].id) =>
          [run[r] EXCEPT !.def = jobs[run[r].id].def, !.todo = <<"runJob">>] \in RunType
    <3>1. Registered(run[r].id) => jobs[run[r].id].def \in Defs
      BY <1>2 DEF TypeOK, Registered, JobType
    <3>2. <<"runJob">> \in Seq(Steps) \ {<<>>}
      BY DEF Steps
    <3> QED
      BY <1>2, <3>1, <3>2 DEF RunType
  <2>2. run' \in [Runs -> RunType \cup {None}]
    BY <1>3, <1>4, <2>1 DEF Request, TypeOK
  <2> QED
    BY <1>4, <2>2 DEF Request, TypeOK
<1>5. CASE RunJob(r)
  <2>1. \A outcome \in Outcomes :
          Path(run[r].def, outcome) \in Seq(Steps) \ {<<>>}
    BY OutcomeAssumption DEF Path, Steps
  <2>2. \A outcome \in Outcomes :
          [run[r] EXCEPT !.todo = Path(run[r].def, outcome)] \in RunType
    BY <1>2, <2>1 DEF RunType
  <2> QED
    BY <1>3, <1>5, <2>2 DEF RunJob, TypeOK
<1>6. CASE SendOutForRescheduling(r)
  <2> DEFINE sent == [After(r) EXCEPT ![r] =
                        IF @ = None THEN None ELSE [@ EXCEPT !.shouldSendOut = FALSE]]
  <2>1. sent \in [Runs -> RunType \cup {None}]
    BY <1>3 DEF RunType
  <2>2. TableTypes(jobs, timer, sent)
    BY <1>1, <2>1 DEF TableTypes
  <2>3. CASE Ready /\ Reschedule(run[r].id, sent)
    <3> HIDE DEF sent
    <3>1. TableTypes(jobs', timer', run')
      BY <1>2, <2>2, <2>3, RescheduleType
    <3> QED
      BY <1>6, <2>3, <3>1 DEF SendOutForRescheduling, TypeOK, TableTypes, Ready
  <2>4. CASE run' = sent /\ UNCHANGED <<jobs, timer>>
    <3> HIDE DEF sent
    <3> QED
      BY <1>6, <2>1, <2>4 DEF SendOutForRescheduling, TypeOK
  <2> QED
    BY <1>6, <2>3, <2>4 DEF SendOutForRescheduling
<1>7. CASE SendOutForNextRunUpdate(r)
  BY <1>2, <1>3, <1>7, PruneType DEF SendOutForNextRunUpdate, TypeOK, Ready
<1>8. CASE SendOutCompleted(r)
  BY <1>2, <1>3, <1>8, CountedType DEF SendOutCompleted, TypeOK, Ready
<1>9. CASE SendOutSkipped(r)
  BY <1>2, <1>3, <1>9, PruneType DEF SendOutSkipped, TypeOK, Ready
<1>10. CASE TaskReturns(r)
  BY <1>2, <1>3, <1>10 DEF TaskReturns, TypeOK
<1>11. CASE SendTiming(r)
  BY <1>2, <1>3, <1>11 DEF SendTiming, TypeOK
<1>12. CASE Dispatch(r)
  BY <1>2, <1>12, DispatchedType DEF Dispatch, TypeOK
<1>13. CASE GivesUp(r)
  BY <1>3, <1>13 DEF GivesUp, TypeOK
<1> QED
  BY <1>4, <1>5, <1>6, <1>7, <1>8, <1>9, <1>10, <1>11, <1>12, <1>13 DEF RunStep

(* Every step keeps the types.                                             *)
LEMMA NextTypes ==
  ASSUME TypeOK, [Next]_vars
  PROVE  TypeOK'
<1>1. TableTypes(jobs, timer, run)
  BY DEF TableTypes, TypeOK
<1>2. CASE Tick
  BY <1>2, BoundAssumption, HorizonAssumption DEF Tick, TypeOK, Instants, Times
<1>3. ASSUME NEW id \in Ids, StartJob(id)
      PROVE  TypeOK'
  <2>1. [jobs[id] EXCEPT !.nextScheduled = {}] \in JobType
    BY <1>3 DEF StartJob, TypeOK, JobType
  <2>2. TableTypes(jobs', timer', run')
    BY <1>1, <1>3, <2>1, PrepareFirstRunType DEF StartJob, TypeOK
  <2>3. \A k \in Ids : k # id => jobs'[k] = jobs[k]
    BY <1>3 DEF StartJob, PrepareFirstRun, Arm, TypeOK
  <2> QED
    BY <1>3, <2>2, <2>3 DEF StartJob, TableTypes, TypeOK
<1>4. ASSUME NEW id \in Ids, RemoveLimited(id)
      PROVE  TypeOK'
  <2>1. TableTypes(jobs', timer', run')
    BY <1>1, <1>4, RemoveType DEF RemoveLimited, TableTypes
  <2>2. removing' \in [Ids -> Nat]
    BY <1>4 DEF RemoveLimited, TypeOK
  <2> QED
    BY <1>4, <2>1, <2>2 DEF RemoveLimited, TypeOK, TableTypes, Ready
<1>5. ASSUME NEW x \in Timers, TimerFires(x)
      PROVE  TypeOK'
  <2>1. [Dispatched(timer[x].id, TRUE) EXCEPT !.todo = <<"send">>] \in RunType
    <3>1. Dispatched(timer[x].id, TRUE) \in RunType
      BY <1>5, DispatchedType DEF TimerFires, TypeOK, TimerType
    <3>2. <<"send">> \in Seq(Steps) \ {<<>>}
      BY DEF Steps
    <3> QED
      BY <3>1, <3>2 DEF RunType
  <2>2. run' \in [Runs -> RunType \cup {None}]
    BY <1>5, <2>1 DEF TimerFires, TypeOK
  <2> QED
    BY <1>5, <2>2, DisarmType DEF TimerFires, TypeOK
<1>6. CASE JobTimingUpdate
  <2>1. timing' \in Seq(Ids) /\ Head(timing) \in Ids
    BY <1>6 DEF JobTimingUpdate, TypeOK
  <2>2. \A id \in Ids : [removing EXCEPT ![id] = @ + 1] \in [Ids -> Nat]
    BY DEF TypeOK
  <2>3. removing' \in [Ids -> Nat]
    BY <1>6, <2>1, <2>2 DEF JobTimingUpdate, TypeOK
  <2> QED
    BY <1>6, <2>1, <2>3 DEF JobTimingUpdate, TypeOK, Ready
<1>7. CASE Stopped \/ UNCHANGED vars
  BY <1>7 DEF Stopped, vars, TypeOK
<1> QED
  BY <1>2, <1>3, <1>4, <1>5, <1>6, <1>7, ClientTypes, RunTypes DEF Next

(* Type correctness of the job table.                                      *)
THEOREM TypeCorrect == Spec => []TypeOK
<1>1. TypeOK /\ [Next]_vars => TypeOK'
  BY NextTypes
<1> QED
  BY InitTypes, <1>1, PTL DEF Spec

-----------------------------------------------------------------------------
(* Timers and table.                                                       *)

Owned == TimerOwned /\ ArmedIsAnnounced

(* Owned survives a step that arms nothing, keeps the job of every armed   *)
(* timer, and forgets only announcements that are past.                    *)
LEMMA OwnedKept ==
  ASSUME TypeOK, Owned, now' \in Nat, now' >= now,
         \A x \in Timers : timer'[x] # None =>
           /\ timer'[x] = timer[x]
           /\ Registered(timer[x].id)'
           /\ jobs'[timer[x].id].timer = jobs[timer[x].id].timer
           /\ jobs'[timer[x].id].def = jobs[timer[x].id].def
           /\ \A t \in jobs[timer[x].id].nextScheduled :
                t > now' => t \in jobs'[timer[x].id].nextScheduled
  PROVE  Owned'
<1> SUFFICES ASSUME NEW x \in Timers, timer'[x] # None
             PROVE  /\ Registered(timer[x].id)'
                    /\ jobs'[timer[x].id].timer = x
                    /\ timer[x].at > now' =>
                         /\ timer[x].at \in jobs'[timer[x].id].nextScheduled
                         /\ ~StopTimeReached(jobs'[timer[x].id].def, timer[x].at)
  BY DEF Owned, TimerOwned, ArmedIsAnnounced, StopTimeReached
<1>1. timer[x] # None /\ timer[x].at \in Nat /\ now \in Nat
  BY DEF TypeOK, TimerType, Instants, Times
<1>2. timer[x].at > now' => timer[x].at > now
  BY <1>1
<1> QED
  BY <1>1, <1>2 DEF Owned, TimerOwned, ArmedIsAnnounced

(* Arming a timer for id keeps Owned when every other armed timer belongs  *)
(* to another job.                                                         *)
LEMMA OwnedArmed ==
  ASSUME TypeOK, Owned, now' = now, NEW id \in Ids, NEW j \in JobType, NEW t, NEW rn,
         NEW tm \in [Timers -> TimerType \cup {None}],
         \A y \in Timers : tm[y] # None => tm[y] = timer[y] /\ timer[y].id # id,
         ~AtOrPastStop(j.def, t),
         Arm(id, j, t, tm, rn)
  PROVE  Owned'
<1>1. PICK x \in FreeTimers, at \in Instants :
        /\ at = t
        /\ timer' = [tm EXCEPT ![x] = [id |-> id, at |-> at]]
        /\ jobs' = [jobs EXCEPT ![id] =
                      [j EXCEPT !.timer = x, !.nextScheduled = @ \cup {at}]]
  BY DEF Arm
<1>2. x \in Timers
  BY DEF FreeTimers
<1>3. /\ jobs'[id] \in JobType
      /\ jobs'[id].timer = x /\ at \in jobs'[id].nextScheduled /\ jobs'[id].def = j.def
  BY <1>1, <1>2 DEF TypeOK, JobType
<1>4. jobs'[id] # None
  BY <1>3, NoneAssumption
<1>0. ~StopTimeReached(j.def, at)
  <2>1. Def[j.def].stopTime \in Nat /\ at \in Nat
    BY DefAssumption DEF DefType, JobType, Times, Instants
  <2> QED
    BY <1>1, <2>1 DEF StopTimeReached, AtOrPastStop
<1>5. ASSUME NEW y \in Timers, timer'[y] # None
      PROVE  /\ jobs'[timer'[y].id] # None
             /\ jobs'[timer'[y].id].timer = y
             /\ timer'[y].at > now =>
                  /\ timer'[y].at \in jobs'[timer'[y].id].nextScheduled
                  /\ ~StopTimeReached(jobs'[timer'[y].id].def, timer'[y].at)
  <2>1. CASE y = x
    <3>1. timer'[y].id = id /\ timer'[y].at = at
      BY <1>1, <1>2, <2>1
    <3> QED
      BY <1>0, <1>3, <1>4, <2>1, <3>1
  <2>2. CASE y # x
    <3>1. timer'[y] = timer[y] /\ timer[y] # None /\ timer[y].id # id
      BY <1>1, <1>5, <2>2
    <3>2. jobs'[timer[y].id] = jobs[timer[y].id]
      BY <1>1, <3>1 DEF TypeOK, TimerType
    <3> QED
      BY <3>1, <3>2 DEF Owned, TimerOwned, ArmedIsAnnounced, Registered
  <2> QED
    BY <2>1, <2>2
<1> QED
  BY <1>5 DEF Owned, TimerOwned, ArmedIsAnnounced, StopTimeReached, Registered

(* Removing a job stops its timer.                                         *)
LEMMA OwnedRemoved ==
  ASSUME TypeOK, Owned, now' = now, NEW id \in Ids, NEW rn, Remove(id, rn)
  PROVE  Owned'
<1>1. ASSUME NEW x \in Timers, timer'[x] # None
      PROVE  timer'[x] = timer[x] /\ jobs'[timer[x].id] = jobs[timer[x].id]
  <2>1. timer'[x] = timer[x] /\ x # jobs[id].timer
    BY <1>1 DEF Remove, Disarm
  <2>2. timer[x].id # id
    BY <1>1, <2>1 DEF Owned, TimerOwned
  <2> QED
    BY <2>1, <2>2 DEF Remove, TypeOK
<1>2. now' \in Nat /\ now' >= now
  BY DEF TypeOK, Instants, Times
<1>3. \A x \in Timers : timer'[x] # None => Registered(timer[x].id)'
  BY <1>1 DEF Owned, TimerOwned, Registered
<1> QED
  BY <1>1, <1>2, <1>3, OwnedKept

LEMMA OwnedRescheduled ==
  ASSUME TypeOK, Owned, now' = now, NEW id \in Ids, NEW rn, Reschedule(id, rn)
  PROVE  Owned'
<1>1. CASE UNCHANGED <<jobs, timer>>
  BY <1>1 DEF Owned, TimerOwned, ArmedIsAnnounced, Registered, StopTimeReached
<1>2. CASE Remove(id, rn)
  BY <1>2, OwnedRemoved
<1>3. CASE /\ Registered(id)
           /\ NextRun(jobs[id], now).act = "arm"
           /\ Arm(id, jobs[id], NextRun(jobs[id], now).at, Disarm(timer, jobs[id].timer), rn)
  <2> DEFINE tm == Disarm(timer, jobs[id].timer)
  <2>1. jobs[id] \in JobType
    BY <1>3 DEF TypeOK, Registered
  <2>2. tm \in [Timers -> TimerType \cup {None}]
    BY DisarmType DEF TypeOK
  <2>3. \A y \in Timers : tm[y] # None => tm[y] = timer[y] /\ timer[y].id # id
    BY DEF Disarm, Owned, TimerOwned
  <2>4. ~AtOrPastStop(jobs[id].def, NextRun(jobs[id], now).at)
    BY <1>3, NextRunDecides
  <2> HIDE DEF tm
  <2> QED
    BY <1>3, <2>1, <2>2, <2>3, <2>4, OwnedArmed DEF tm
<1> QED
  BY <1>1, <1>2, <1>3 DEF Reschedule

LEMMA OwnedPrepared ==
  ASSUME TypeOK, Owned, now' = now, NEW id \in Ids, NEW j \in JobType,
         \A x \in Timers : timer[x] # None => timer[x].id # id,
         PrepareFirstRun(id, j)
  PROVE  Owned'
<1> DEFINE decision == FirstRun(j.def, j.startTime, now)
           announced == [j EXCEPT !.startTime = decision.at]
<1>1. now' \in Nat /\ now' >= now
  BY DEF TypeOK, Instants, Times
<1>2. CASE /\ timer' = timer \/ timer' = Disarm(timer, j.timer)
           /\ \A k \in Ids : k # id => jobs'[k] = jobs[k]
  <2>1. \A x \in Timers : timer'[x] # None =>
          timer'[x] = timer[x] /\ jobs'[timer[x].id] = jobs[timer[x].id]
    BY <1>2 DEF Disarm, TypeOK, TimerType
  <2>2. \A x \in Timers : timer'[x] # None => Registered(timer[x].id)'
    BY <2>1 DEF Owned, TimerOwned, Registered
  <2> QED
    BY <1>1, <2>1, <2>2, OwnedKept
<1>3. CASE decision.act = "arm" /\ Arm(id, announced, decision.at, timer, run)
  <2>1. decision.at \in Instants
    BY <1>3 DEF Arm
  <2>2. announced \in JobType /\ announced.def = j.def
    BY <2>1 DEF JobType, Instants
  <2>3. ~AtOrPastStop(announced.def, decision.at)
    BY <1>3, <2>2, FirstRunDecides
  <2> HIDE DEF decision, announced
  <2> QED
    BY <1>3, <2>2, <2>3, OwnedArmed DEF TypeOK
<1> QED
  BY <1>2, <1>3 DEF PrepareFirstRun, TypeOK

-----------------------------------------------------------------------------
(* Pruning and counting leave a job's timer, definition and future alone.  *)
LEMMA PrunedJob ==
  ASSUME NEW j \in JobType, NEW p \in {PruneStaleScheduled(j), Counted(j)}
  PROVE  /\ p.timer = j.timer /\ p.def = j.def
         /\ \A t \in j.nextScheduled : t > now => t \in p.nextScheduled
<1> DEFINE q == PruneStaleScheduled(j)
<1>1. /\ q.timer = j.timer /\ q.def = j.def
      /\ \A t \in j.nextScheduled : t > now => t \in q.nextScheduled
      /\ q \in JobType
  BY PruneType DEF PruneStaleScheduled, JobType
<1> DEFINE counted == [q EXCEPT !.runCount = @ + 1]
<1>2. /\ counted.timer = q.timer /\ counted.def = q.def
      /\ counted.nextScheduled = q.nextScheduled
      /\ counted \in JobType
  BY <1>1 DEF JobType
<1>3. \A c \in JobType : /\ [c EXCEPT !.lastRun = now].timer = c.timer
                         /\ [c EXCEPT !.lastRun = now].def = c.def
                         /\ [c EXCEPT !.lastRun = now].nextScheduled = c.nextScheduled
  BY DEF JobType
<1>4. /\ Counted(j).timer = q.timer /\ Counted(j).def = q.def
      /\ Counted(j).nextScheduled = q.nextScheduled
  <2>1. \/ Counted(j) = counted
        \/ Counted(j) = [counted EXCEPT !.lastRun = now]
        \/ Counted(j) = [q EXCEPT !.lastRun = now]
    BY DEF Counted
  <2> HIDE DEF q, counted
  <2> QED
    BY <1>1, <1>2, <1>3, <2>1
<1> HIDE DEF q
<1> QED
  BY <1>1, <1>4 DEF q

(* A run that reports back prunes its job and nothing else.                *)
LEMMA OwnedReported ==
  ASSUME TypeOK, Owned, now' = now, timer' = timer, NEW id \in Ids, NEW p,
         jobs' = [jobs EXCEPT ![id] = IF @ = None THEN None ELSE p],
         jobs[id] # None => p \in {PruneStaleScheduled(jobs[id]), Counted(jobs[id])}
  PROVE  Owned'
<1>1. now' \in Nat /\ now' >= now
  BY DEF TypeOK, Instants, Times
<1>2. jobs[id] # None =>
        /\ p # None
        /\ p.timer = jobs[id].timer /\ p.def = jobs[id].def
        /\ \A t \in jobs[id].nextScheduled : t > now => t \in p.nextScheduled
  <2> SUFFICES ASSUME jobs[id] # None
               PROVE  /\ p # None
                      /\ p.timer = jobs[id].timer /\ p.def = jobs[id].def
                      /\ \A t \in jobs[id].nextScheduled : t > now => t \in p.nextScheduled
    OBVIOUS
  <2>1. jobs[id] \in JobType
    BY DEF TypeOK
  <2>2. p \in JobType
    BY <2>1, PruneType, CountedType DEF TypeOK
  <2> QED
    BY <2>1, <2>2, PrunedJob, NoneAssumption
<1>3. \A x \in Timers : timer[x] # None => timer[x].id \in Ids /\ jobs[timer[x].id] # None
  BY DEF TypeOK, TimerType, Owned, TimerOwned, Registered
<1>4. \A x \in Timers : timer'[x] # None =>
        /\ timer'[x] = timer[x]
        /\ Registered(timer[x].id)'
        /\ jobs'[timer[x].id].timer = jobs[timer[x].id].timer
        /\ jobs'[timer[x].id].def = jobs[timer[x].id].def
        /\ \A t \in jobs[timer[x].id].nextScheduled :
             t > now' => t \in jobs'[timer[x].id].nextScheduled
  <2> SUFFICES ASSUME NEW x \in Timers, timer'[x] # None
               PROVE  /\ jobs'[timer[x].id] # None
                      /\ jobs'[timer[x].id].timer = jobs[timer[x].id].timer
                      /\ jobs'[timer[x].id].def = jobs[timer[x].id].def
                      /\ \A t \in jobs[timer[x].id].nextScheduled :
                           t > now' => t \in jobs'[timer[x].id].nextScheduled
    BY DEF Registered
  <2>1. CASE timer[x].id = id
    <3>1. jobs[id] # None
      BY <1>3, <2>1
    <3>2. jobs'[id] = p
      BY <3>1 DEF TypeOK
    <3> QED
      BY <1>2, <2>1, <3>1, <3>2
  <2>2. CASE timer[x].id # id
    <3>1. jobs'[timer[x].id] = jobs[timer[x].id]
      BY <1>3, <2>2 DEF TypeOK
    <3> QED
      BY <1>3, <3>1
  <2> QED
    BY <2>1, <2>2
<1> QED
  BY <1>1, <1>4, OwnedKept

(* Every step keeps Owned.                                                 *)
LEMMA NextOwned ==
  ASSUME TypeOK, Standstill, Owned, [Next]_vars
  PROVE  Owned'
<1>1. now \in Nat /\ now >= now
  BY DEF TypeOK, Instants, Times
<1>2. CASE UNCHANGED <<now, jobs, timer>>
  BY <1>2 DEF Owned, TimerOwned, ArmedIsAnnounced, Registered, StopTimeReached
<1>3. ASSUME NEW id \in Ids, NEW d \in Defs, NewJob(id, d)
      PROVE  Owned'
  <2>1. \A x \in Timers : timer[x] # None => timer[x].id # id
    BY <1>3 DEF NewJob, Owned, TimerOwned
  <2>2. CASE PrepareFirstRun(id, FreshJob(d))
    BY <1>3, <2>1, <2>2, OwnedPrepared, FreshJobType DEF NewJob
  <2>3. CASE /\ jobs' = [jobs EXCEPT ![id] = FreshJob(d)]
             /\ UNCHANGED timer
    <3>1. \A x \in Timers : timer[x] # None => jobs'[timer[x].id] = jobs[timer[x].id]
      BY <2>1, <2>3 DEF TypeOK, TimerType
    <3>2. \A x \in Timers : timer[x] # None => Registered(timer[x].id)'
      BY <2>3, <3>1 DEF Owned, TimerOwned, Registered
    <3>3. now' = now
      BY <1>3 DEF NewJob
    <3> QED
      BY <1>1, <2>3, <3>1, <3>2, <3>3, OwnedKept
  <2> QED
    BY <1>3, <2>2, <2>3 DEF NewJob
<1>4. ASSUME NEW id \in Ids, RemoveJob(id)
      PROVE  Owned'
  BY <1>4, OwnedRemoved DEF RemoveJob
<1>5. ASSUME NEW tagged \in SUBSET Ids, RemoveByTags(tagged)
      PROVE  Owned'
  <2>1. now' = now
    BY <1>5 DEF RemoveByTags
  <2>2. ASSUME NEW x \in Timers, timer'[x] # None
        PROVE  timer'[x] = timer[x] /\ jobs'[timer[x].id] = jobs[timer[x].id]
    <3>1. timer'[x] = timer[x] /\ \A id \in tagged : jobs[id].timer # x
      BY <1>5, <2>2 DEF RemoveByTags
    <3>2. timer[x].id \notin tagged /\ timer[x].id \in Ids
      BY <2>2, <3>1 DEF Owned, TimerOwned, TypeOK, TimerType
    <3> QED
      BY <1>5, <3>1, <3>2 DEF RemoveByTags
  <2>3. \A x \in Timers : timer'[x] # None => Registered(timer[x].id)'
    BY <2>2 DEF Owned, TimerOwned, Registered
  <2> QED
    BY <1>1, <2>1, <2>2, <2>3, OwnedKept
<1>6. ASSUME NEW id \in Ids, StartJob(id)
      PROVE  Owned'
  <2> DEFINE j == [jobs[id] EXCEPT !.nextScheduled = {}]
  <2>1. j \in JobType
    BY <1>6 DEF StartJob, TypeOK, JobType
  <2>2. \A x \in Timers : timer[x] # None => timer[x].id # id
    BY <1>6 DEF StartJob, Standstill
  <2>3. now' = now /\ PrepareFirstRun(id, j)
    BY <1>6 DEF StartJob
  <2> HIDE DEF j
  <2> QED
    BY <2>1, <2>2, <2>3, OwnedPrepared
<1>7. ASSUME NEW id \in Ids, RemoveLimited(id)
      PROVE  Owned'
  BY <1>2, <1>7, OwnedRemoved DEF RemoveLimited
<1>8. CASE Tick
  <2>1. now' \in Nat /\ now' >= now /\ jobs' = jobs /\ timer' = timer
    BY <1>1, <1>8 DEF Tick
  <2>2. \A x \in Timers : timer[x] # None => Registered(timer[x].id)'
    BY <2>1 DEF Owned, TimerOwned, Registered
  <2> QED
    BY <2>1, <2>2, OwnedKept
<1>9. ASSUME NEW x \in Timers, TimerFires(x)
      PROVE  Owned'
  <2>1. now' = now /\ jobs' = jobs /\ timer' = Disarm(timer, x)
    BY <1>9 DEF TimerFires
  <2>2. \A y \in Timers : timer'[y] # None =>
          timer'[y] = timer[y] /\ Registered(timer[y].id)'
    BY <2>1 DEF Disarm, Owned, TimerOwned, Registered
  <2> QED
    BY <1>1, <2>1, <2>2, OwnedKept
<1>10. ASSUME NEW r \in Runs, SendOutForRescheduling(r)
       PROVE  Owned'
  <2>1. run[r].id \in Ids /\ now' = now
    BY <1>10 DEF SendOutForRescheduling, At, TypeOK, RunType
  <2> QED
    BY <1>2, <1>10, <2>1, OwnedRescheduled DEF SendOutForRescheduling
<1>11. ASSUME NEW r \in Runs, run[r] # None, NEW p,
              now' = now, timer' = timer,
              jobs' = [jobs EXCEPT ![run[r].id] = IF @ = None THEN None ELSE p],
              jobs[run[r].id] # None =>
                p \in {PruneStaleScheduled(jobs[run[r].id]), Counted(jobs[run[r].id])}
       PROVE  Owned'
  <2>1. run[r].id \in Ids
    BY <1>11 DEF TypeOK, RunType
  <2> QED
    BY <1>11, <2>1, OwnedReported
<1>12. ASSUME NEW r \in Runs, SendOutForNextRunUpdate(r) \/ SendOutSkipped(r)
       PROVE  Owned'
  <2>1. /\ run[r] # None /\ now' = now /\ timer' = timer
        /\ jobs' = [jobs EXCEPT ![run[r].id] =
                      IF @ = None THEN None ELSE PruneStaleScheduled(jobs[run[r].id])]
    BY <1>12 DEF SendOutForNextRunUpdate, SendOutSkipped, At
  <2> QED
    BY <1>11, <2>1
<1>13. ASSUME NEW r \in Runs, SendOutCompleted(r)
       PROVE  Owned'
  <2>1. /\ run[r] # None /\ now' = now /\ timer' = timer
        /\ jobs' = [jobs EXCEPT ![run[r].id] =
                      IF @ = None THEN None ELSE Counted(jobs[run[r].id])]
    BY <1>13 DEF SendOutCompleted, At
  <2> QED
    BY <1>11, <2>1
<1>14. ASSUME NEW r \in Runs, RunStep(r)
       PROVE  Owned'
  BY <1>2, <1>10, <1>12, <1>13, <1>14
  DEF RunStep, Dispatch, GivesUp, Request, RunJob, TaskReturns, SendTiming
<1>15. CASE StopJobs
  <2>1. now' = now /\ jobs' = jobs
    BY <1>15 DEF StopJobs
  <2>2. \A y \in Timers : timer'[y] # None => timer'[y] = timer[y]
    BY <1>15 DEF StopJobs
  <2>3. \A y \in Timers : timer'[y] # None => Registered(timer[y].id)'
    BY <2>1, <2>2 DEF Owned, TimerOwned, Registered
  <2> QED
    BY <1>1, <2>1, <2>2, <2>3, OwnedKept
<1>16. CASE ClientCall
  BY <1>2, <1>3, <1>4, <1>5, <1>15, <1>16 DEF ClientCall, RunNow, Start
<1>17. CASE JobTimingUpdate \/ Stopped \/ UNCHANGED vars
  BY <1>2, <1>17 DEF JobTimingUpdate, Stopped, vars
<1> QED
  BY <1>6, <1>7, <1>8, <1>9, <1>14, <1>16, <1>17 DEF Next

(* Every step keeps Standstill.                                            *)
LEMMA NextStandstill ==
  ASSUME TypeOK, Standstill, Owned, [Next]_vars
  PROVE  Standstill'
<1>1. CASE started /\ started' /\ ~stopping /\ ~stopping' /\ starting = {} /\ starting' = {}
  BY <1>1 DEF Standstill
<1>2. ASSUME UNCHANGED lifecycle,
             \A x \in Timers : timer'[x] # None => timer'[x] = timer[x],
             \A r \in Runs : ~started /\ (run[r] = None \/ At(r, "send"))
                             => run'[r] = None \/ At(r, "send")'
      PROVE  Standstill'
  BY <1>2 DEF Standstill
<1>3. ASSUME NEW id \in Ids, Remove(id, run), UNCHANGED lifecycle
      PROVE  Standstill'
  <2>1. \A x \in Timers : timer'[x] # None => timer'[x] = timer[x]
    BY <1>3 DEF Remove, Disarm
  <2>2. \A r \in Runs : run[r] = None \/ At(r, "send") => run'[r] = None \/ At(r, "send")'
    BY <1>3 DEF Remove, CancelRuns, At, TypeOK, RunType
  <2> QED
    BY <1>2, <1>3, <2>1, <2>2
<1>4. ASSUME NEW id \in Ids, NEW d \in Defs, NewJob(id, d)
      PROVE  Standstill'
  <2>1. UNCHANGED lifecycle /\ Ready
    BY <1>4 DEF NewJob
  <2>2. CASE started
    BY <1>1, <2>1, <2>2 DEF Ready
  <2>3. CASE ~started
    BY <1>2, <1>4, <2>1, <2>3 DEF NewJob, At
  <2> QED
    BY <2>2, <2>3
<1>5. ASSUME NEW tagged \in SUBSET Ids, RemoveByTags(tagged)
      PROVE  Standstill'
  <2>1. \A x \in Timers : timer'[x] # None => timer'[x] = timer[x]
    BY <1>5 DEF RemoveByTags
  <2>2. \A r \in Runs : run[r] = None \/ At(r, "send") => run'[r] = None \/ At(r, "send")'
    BY <1>5 DEF RemoveByTags, At, TypeOK, RunType
  <2> QED
    BY <1>2, <1>5, <2>1, <2>2 DEF RemoveByTags
<1>6. CASE Start
  BY <1>6 DEF Start, Standstill
<1>7. CASE StopJobs
  <2>1. \A x \in Timers : timer'[x] = None
    BY <1>7 DEF StopJobs, Owned, TimerOwned, TypeOK, TimerType
  <2> QED
    BY <1>7, <2>1 DEF StopJobs, Standstill, Ready
<1>8. CASE Stopped
  BY <1>8 DEF Stopped, Standstill, At
<1>9. ASSUME NEW id \in Ids, StartJob(id)
      PROVE  Standstill'
  <2>1. started /\ ~stopping /\ UNCHANGED <<started, stopping>> /\ starting' = starting \ {id}
    BY <1>9 DEF StartJob, Standstill
  <2>2. ASSUME NEW x \in Timers, timer'[x] # None
        PROVE  timer'[x] = timer[x] \/ timer'[x].id = id
    <3>1. CASE UNCHANGED timer
      BY <3>1
    <3>2. CASE \E y : timer' = Disarm(timer, y)
      BY <2>2, <3>2 DEF Disarm
    <3>3. CASE \E j, t : Arm(id, j, t, timer, run)
      BY <3>3 DEF Arm, TypeOK, FreeTimers
    <3> QED
      BY <1>9, <3>1, <3>2, <3>3 DEF StartJob, PrepareFirstRun
  <2> QED
    BY <2>1, <2>2 DEF Standstill
<1>10. ASSUME NEW r \in Runs, RunStep(r)
       PROVE  Standstill'
  <2>1. UNCHANGED lifecycle
    BY <1>10 DEF RunStep, Dispatch, GivesUp, Request, RunJob, SendOutForRescheduling,
       SendOutForNextRunUpdate, SendOutCompleted, SendOutSkipped, TaskReturns, SendTiming
  <2>2. started
    BY <1>10 DEF Standstill, At, RunStep, Dispatch, GivesUp, Request, RunJob,
       SendOutForRescheduling, SendOutForNextRunUpdate, SendOutCompleted, SendOutSkipped,
       TaskReturns, SendTiming
  <2>3. Ready \/ timer' = timer
    BY <1>10 DEF RunStep, Dispatch, GivesUp, Request, RunJob, SendOutForRescheduling,
       SendOutForNextRunUpdate, SendOutCompleted, SendOutSkipped, TaskReturns, SendTiming
  <2> QED
    BY <1>1, <1>2, <2>1, <2>2, <2>3 DEF Ready
<1>11. ASSUME NEW x \in Timers, TimerFires(x)
       PROVE  Standstill'
  <2>1. started
    BY <1>11 DEF TimerFires, Standstill
  <2> QED
    BY <1>2, <1>11, <2>1 DEF TimerFires, Disarm
<1>12. CASE Tick \/ JobTimingUpdate \/ UNCHANGED vars
  BY <1>2, <1>12 DEF Tick, JobTimingUpdate, vars, At
<1>13. ASSUME NEW id \in Ids, RemoveJob(id)
       PROVE  Standstill'
  BY <1>3, <1>13 DEF RemoveJob
<1>14. ASSUME NEW id \in Ids, RunNow(id)
       PROVE  Standstill'
  <2>1. started /\ UNCHANGED lifecycle /\ UNCHANGED timer
    BY <1>14, Zenon DEF RunNow
  <2> QED
    BY <1>2, <2>1
<1>15. ASSUME NEW id \in Ids, RemoveLimited(id)
       PROVE  Standstill'
  BY <1>2, <1>3, <1>15 DEF RemoveLimited, At
<1> QED
  BY <1>4, <1>5, <1>6, <1>7, <1>8, <1>9, <1>10, <1>11, <1>12, <1>13, <1>14, <1>15
  DEF Next, ClientCall

-----------------------------------------------------------------------------
LEMMA InitTable == Init => TableInv
<1> SUFFICES ASSUME Init PROVE TableInv
  OBVIOUS
<1>1. TypeOK
  BY InitTypes
<1>2. Standstill
  BY DEF Init, Standstill
<1>3. TimerOwned /\ ArmedIsAnnounced
  BY DEF Init, TimerOwned, ArmedIsAnnounced
<1> QED
  BY <1>1, <1>2, <1>3 DEF TableInv

LEMMA NextTable ==
  ASSUME TableInv, [Next]_vars
  PROVE  TableInv'
  BY NextTypes, NextStandstill, NextOwned DEF TableInv, Owned

(* Every armed timer is the current timer of a registered job: no removal, *)
(* replacement or rescheduling leaks one.                                  *)
THEOREM TimersAreOwned == Spec => []TimerOwned
<1>1. TableInv /\ [Next]_vars => TableInv'
  BY NextTable
<1>2. TableInv => TimerOwned
  BY DEF TableInv
<1> QED
  BY InitTable, <1>1, <1>2, PTL DEF Spec

(* Every armed future run is announced in its job's nextScheduled and does *)
(* not lie after its job's stop time.                                      *)
THEOREM ArmedRunsAreAnnounced == Spec => []ArmedIsAnnounced
<1>1. TableInv /\ [Next]_vars => TableInv'
  BY NextTable
<1>2. TableInv => ArmedIsAnnounced
  BY DEF TableInv
<1> QED
  BY InitTable, <1>1, <1>2, PTL DEF Spec

=============================================================================
