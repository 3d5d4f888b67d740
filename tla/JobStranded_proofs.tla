--------------------------- MODULE JobStranded_proofs ---------------------------
(***************************************************************************)
(* A registered job of JobTable that the executor serves is never left     *)
(* without a timer or a run that will reschedule it, before its schedule   *)
(* ends: for every set of job definitions, ids, timers, runs and every     *)
(* bound.                                                                  *)
(*                                                                         *)
(* The invariant it needs besides JobChain_proofs' ChainInv: a run whose   *)
(* copy of the job is live holds the definition the job has now.  Without  *)
(* it a run of a replaced job could end at its predecessor's stop time and *)
(* take the job's only token along.                                        *)
(***************************************************************************)
EXTENDS JobChain_proofs

USE DEF Zero, lifecycle, history

(* A live copy is a copy of the registered job, and only a copy can be     *)
(* cancelled.                                                              *)
LiveCopies ==
  \A r \in Runs : run[r] # None =>
    /\ run[r].def = None => run[r].live
    /\ (run[r].live /\ run[r].def # None) =>
         Registered(run[r].id) /\ run[r].def = jobs[run[r].id].def

ServedInv == ChainInv /\ LiveCopies

Holds(id) ==
  \/ \E x \in Timers : TimerToken(x, id)
  \/ \E r \in Runs : RunToken(r, id)

LEMMA TokensAreHeld ==
  ASSUME TypeOK, NEW id \in Ids
  PROVE  Tokens(id) # {} <=> Holds(id)
<1>1. ASSUME NEW r \in Runs
      PROVE  (WillSendOut(r) /\ run[r].id = id) <=> RunToken(r, id)
  BY DEF WillSendOut, RunToken, Sends, At, TypeOK, RunType
<1>2. \A x \in Timers : (timer[x] # None /\ timer[x].id = id) <=> TimerToken(x, id)
  BY DEF TimerToken
<1> QED
  BY <1>1, <1>2 DEF Tokens, Holds

-----------------------------------------------------------------------------
(* A registered job is not added again, and keeps its definition.          *)
LEMMA AddedKept ==
  ASSUME TypeOK, [Next]_vars, NEW id \in Ids, Registered(id)
  PROVE  added'[id] = added[id]
<1>1. ASSUME NEW k \in Ids, NEW d \in Defs, NewJob(k, d)
      PROVE  added'[id] = added[id]
  BY <1>1 DEF NewJob, TypeOK
<1>2. ASSUME NEW k \in Ids, RunNow(k)
      PROVE  added' = added
  BY <1>2, Zenon DEF RunNow
<1>3. CASE ClientCall
  BY <1>1, <1>2, <1>3 DEF ClientCall, RemoveJob, RemoveByTags, Start, StopJobs
<1>4. ASSUME NEW r \in Runs, RunStep(r)
      PROVE  added' = added
  BY <1>4 DEF RunStep, Dispatch, GivesUp, Request, RunJob, SendOutForRescheduling,
     SendOutForNextRunUpdate, SendOutCompleted, SendOutSkipped, TaskReturns, SendTiming
<1> QED
  BY <1>3, <1>4 DEF Next, vars, Tick, StartJob, RemoveLimited, TimerFires, JobTimingUpdate, Stopped

LEMMA CancelledForGood ==
  ASSUME NEW rn \in [Runs -> RunType \cup {None}], NEW id, NEW r \in Runs,
         CancelRuns(rn, id)[r] # None, CancelRuns(rn, id)[r].id = id, CancelRuns(rn, id)[r].def # None
  PROVE  ~CancelRuns(rn, id)[r].live
<1>1. rn[r] # None /\ rn[r] \in RunType
  BY DEF CancelRuns
<1>2. CASE rn[r].id = id /\ rn[r].def # None
  <2>1. CancelRuns(rn, id)[r] = [rn[r] EXCEPT !.live = FALSE]
    BY <1>1, <1>2 DEF CancelRuns
  <2> QED
    BY <1>1, <2>1 DEF RunType
<1>3. CASE ~(rn[r].id = id /\ rn[r].def # None)
  <2>1. CancelRuns(rn, id)[r] = rn[r]
    BY <1>3 DEF CancelRuns
  <2> QED
    BY <1>3, <2>1
<1> QED
  BY <1>2, <1>3

(* Whatever takes a job out of the table cancels every copy of it.         *)
LEMMA LeaversAreCancelled ==
  ASSUME TypeOK, Shape, [Next]_vars, NEW id \in Ids, Registered(id), ~Registered(id)',
         NEW r \in Runs, run'[r] # None, run'[r].id = id, run'[r].def # None
  PROVE  ~run'[r].live
<1>1. ASSUME NEW rn \in [Runs -> RunType \cup {None}], run' = CancelRuns(rn, id)
      PROVE  ~run'[r].live
  BY <1>1, CancelledForGood
<1>2. ASSUME NEW k \in Ids, NEW rn, Remove(k, rn)
      PROVE  k = id /\ run' = CancelRuns(rn, id)
  BY <1>2 DEF Remove, TypeOK, Registered
<1>3. run \in [Runs -> RunType \cup {None}]
  BY DEF TypeOK
<1>4. jobs' # jobs
  BY DEF Registered
<1>5. ASSUME NEW k \in Ids, RemoveJob(k) \/ RemoveLimited(k)
      PROVE  ~run'[r].live
  <2>1. Remove(k, run)
    BY <1>4, <1>5 DEF RemoveJob, RemoveLimited
  <2> QED
    BY <1>1, <1>2, <1>3, <2>1
<1>6. ASSUME NEW tagged \in SUBSET Ids, RemoveByTags(tagged)
      PROVE  ~run'[r].live
  <2>1. id \in tagged
    BY <1>6 DEF RemoveByTags, Registered
  <2>2. run' = [q \in Runs |-> IF run[q] # None /\ run[q].id \in tagged /\ run[q].def # None
                               THEN [run[q] EXCEPT !.live = FALSE] ELSE run[q]]
    BY <1>6 DEF RemoveByTags
  <2>3. run[r] # None /\ run[r] \in RunType
    BY <1>3, <2>2
  <2>4. CASE run[r].id \in tagged /\ run[r].def # None
    <3>1. run'[r] = [run[r] EXCEPT !.live = FALSE]
      BY <2>2, <2>3, <2>4
    <3> QED
      BY <2>3, <3>1 DEF RunType
  <2>5. CASE ~(run[r].id \in tagged /\ run[r].def # None)
    <3>1. run'[r] = run[r]
      BY <2>2, <2>5
    <3> QED
      BY <2>1, <2>5, <3>1
  <2> QED
    BY <2>4, <2>5
<1>7. ASSUME NEW k \in Ids, NEW j \in JobType, PrepareFirstRun(k, j)
      PROVE  ~run'[r].live
  <2>1. PreparedAs(k, j) /\ \A m \in Ids : m # k => jobs'[m] = jobs[m]
    BY <1>7, PrepareEffect
  <2>2. k = id
    BY <2>1 DEF Registered
  <2>3. run' = CancelRuns(run, id)
    BY <2>1, <2>2 DEF PreparedAs, Registered
  <2> QED
    BY <1>1, <1>3, <2>3
<1>8. ASSUME NEW k \in Ids, NEW d \in Defs, NewJob(k, d)
      PROVE  ~run'[r].live
  <2>1. k # id
    BY <1>8 DEF NewJob
  <2>2. jobs' # [jobs EXCEPT ![k] = FreshJob(d)]
    BY <2>1 DEF Registered, TypeOK
  <2> QED
    BY <1>7, <1>8, <2>2, FreshJobType DEF NewJob
<1>9. ASSUME NEW k \in Ids, StartJob(k)
      PROVE  ~run'[r].live
  <2> DEFINE j == [jobs[k] EXCEPT !.nextScheduled = {}]
  <2>1. j \in JobType /\ PrepareFirstRun(k, j)
    BY <1>9 DEF StartJob, TypeOK, JobType
  <2> HIDE DEF j
  <2> QED
    BY <1>7, <2>1
<1>10. ASSUME NEW q \in Runs, RunStep(q)
       PROVE  ~run'[r].live
  <2>1. run[q] # None /\ run[q].id \in Ids
    BY <1>10 DEF RunStep, Dispatch, GivesUp, Request, RunJob, SendOutForRescheduling,
       SendOutForNextRunUpdate, SendOutCompleted, SendOutSkipped, TaskReturns, SendTiming, At,
       TypeOK, RunType
  <2>2. CASE SentOut(q)
    <3>1. /\ Sent(q) \in [Runs -> RunType \cup {None}]
          /\ Reschedule(run[q].id, Sent(q))
      BY <2>2, SentFollows DEF Sent, SentOut, SendOutForRescheduling
    <3>2. Remove(run[q].id, Sent(q))
      <4>1. \/ UNCHANGED <<jobs, timer>>
            \/ Remove(run[q].id, Sent(q))
            \/ /\ jobs'[run[q].id] # None
               /\ \A k \in Ids : k # run[q].id => jobs'[k] = jobs[k]
        BY <2>1, <3>1, RescheduleEffect
      <4> QED
        BY <1>4, <4>1 DEF Registered
    <3> QED
      BY <1>1, <1>2, <2>1, <3>1, <3>2
  <2>3. CASE SendOutForNextRunUpdate(q) \/ SendOutSkipped(q) \/ SendOutCompleted(q)
    <3>1. /\ jobs[run[q].id] # None =>
               jobs'[run[q].id] \in {PruneStaleScheduled(jobs[run[q].id]), Counted(jobs[run[q].id])}
          /\ \A k \in Ids : k # run[q].id => jobs'[k] = jobs[k]
      BY <2>1, <2>3 DEF SendOutForNextRunUpdate, SendOutSkipped, SendOutCompleted, TypeOK
    <3>2. jobs[run[q].id] # None => jobs'[run[q].id] \in JobType
      BY <2>1, <3>1, PruneType, CountedType DEF TypeOK
    <3> QED
      BY <3>1, <3>2, NoneAssumption DEF Registered
  <2> QED
    BY <1>4, <1>10, <2>2, <2>3 DEF RunStep, Dispatch, GivesUp, Request, RunJob, TaskReturns,
       SendTiming, SendOutForRescheduling, SentOut, Sent
<1>11. CASE ClientCall
  <2>1. ASSUME NEW k \in Ids, RunNow(k)
        PROVE  jobs' = jobs
    BY <2>1, Zenon DEF RunNow
  <2> QED
    BY <1>4, <1>5, <1>6, <1>8, <1>11, <2>1 DEF ClientCall, Start, StopJobs
<1> QED
  BY <1>4, <1>5, <1>9, <1>10, <1>11 DEF Next, vars, Tick, TimerFires, JobTimingUpdate, Stopped

LEMMA NextLiveCopies ==
  ASSUME ServedInv, [Next]_vars
  PROVE  LiveCopies'
<1>1. TableInv /\ TypeOK /\ TypeOK' /\ Shape /\ LiveCopies
  BY NextTypes DEF ServedInv, ChainInv, TableInv
<1>2. SUFFICES ASSUME NEW r \in Runs, run'[r] # None, NEW id \in Ids, id = run'[r].id
               PROVE  /\ run'[r].def = None => run'[r].live
                      /\ (run'[r].live /\ run'[r].def # None) =>
                           jobs'[id] # None /\ run'[r].def = jobs'[id].def
  BY <1>1 DEF LiveCopies, Registered, TypeOK, RunType
<1>4. ASSUME run[r] # None, run[r].id = id, run[r].def = run'[r].def,
             run'[r].live => run[r].live,
             run[r].def = None => run'[r].live = run[r].live
      PROVE  /\ run'[r].def = None => run'[r].live
             /\ (run'[r].live /\ run'[r].def # None) =>
                  jobs'[id] # None /\ run'[r].def = jobs'[id].def
  <2>1. run'[r].def = None => run'[r].live
    BY <1>1, <1>4 DEF LiveCopies
  <2>2. ASSUME run'[r].live, run'[r].def # None
        PROVE  jobs'[id] # None /\ run'[r].def = jobs'[id].def
    <3>1. Registered(id) /\ run'[r].def = jobs[id].def
      BY <1>1, <1>4, <2>2 DEF LiveCopies
    <3>2. Registered(id)'
      BY <1>1, <1>2, <2>2, <3>1, LeaversAreCancelled
    <3>3. jobs'[id].def = jobs[id].def
      BY <1>1, <3>1, <3>2, AddedKept, NextKeepsDef
    <3> QED
      BY <3>1, <3>2, <3>3 DEF Registered
  <2> QED
    BY <2>1, <2>2
<1>5. CASE FollowedBy(run')
  <2>1. run[r] # None /\ Follows(run[r], run'[r])
    BY <1>2, <1>5 DEF FollowedBy
  <2> QED
    BY <1>2, <1>4, <2>1 DEF Follows
<1>6. ASSUME NEW q \in Runs, NEW p \in RunType, Begins(q, p)
      PROVE  /\ run'[r].def = None => run'[r].live
             /\ (run'[r].live /\ run'[r].def # None) =>
                  jobs'[id] # None /\ run'[r].def = jobs'[id].def
  <2>1. CASE q = r
    <3>1. run'[r] = p
      BY <1>1, <1>6, <2>1 DEF Begins, TypeOK
    <3> QED
      BY <1>2, <1>6, <3>1 DEF Begins, Registered
  <2>2. CASE q # r
    <3>1. run'[r] = run[r]
      BY <1>1, <1>6, <2>2 DEF Begins, TypeOK
    <3> QED
      BY <1>2, <1>4, <3>1
  <2> QED
    BY <2>1, <2>2
<1> QED
  BY <1>1, <1>5, <1>6, NextRunsFollow DEF SomeRunBegins

-----------------------------------------------------------------------------
(* Where the token of id goes.                                             *)

LEMMA HoldsKept ==
  ASSUME NEW id, Holds(id),
         \A x \in Timers : TimerToken(x, id) => timer'[x] = timer[x],
         \A r \in Runs : RunToken(r, id) => run'[r] = run[r]
  PROVE  Holds(id)'
<1>1. \A x \in Timers : TimerToken(x, id) => TimerToken(x, id)'
  BY DEF TimerToken
<1>2. \A r \in Runs : RunToken(r, id) => RunToken(r, id)'
  BY DEF RunToken, Sends
<1> QED
  BY <1>1, <1>2 DEF Holds

(* A run that is to send its job out does not hold a token for another id. *)
LEMMA OtherCancelled ==
  ASSUME NEW rn, NEW id, NEW k, k # id, NEW r \in Runs, rn[r] # None, rn[r].id = id
  PROVE  CancelRuns(rn, k)[r] = rn[r]
  BY DEF CancelRuns

(* Removing, preparing or rescheduling another job leaves the token alone. *)
LEMMA HoldsRemoved ==
  ASSUME ChainInv, NEW id \in Ids, Registered(id), Holds(id),
         NEW k \in Ids, k # id, Registered(k), NEW rn, Remove(k, rn),
         \A r \in Runs : RunToken(r, id) => rn[r] = run[r]
  PROVE  Holds(id)'
<1>1. \A x \in Timers : TimerToken(x, id) => timer'[x] = timer[x]
  BY OtherDisarmed DEF Remove, TimerToken, ChainInv, TableInv, TimerOwned
<1>2. ASSUME NEW r \in Runs, RunToken(r, id)
      PROVE  run'[r] = run[r]
  <2>1. rn[r] # None /\ rn[r].id = id /\ rn[r] = run[r]
    BY <1>2 DEF RunToken
  <2>2. CancelRuns(rn, k)[r] = rn[r]
    BY <2>1, OtherCancelled
  <2> QED
    BY <2>1, <2>2 DEF Remove
<1> QED
  BY <1>1, <1>2, HoldsKept

LEMMA OtherPrepared ==
  ASSUME ChainInv, NEW id \in Ids, Registered(id), Holds(id),
         NEW k \in Ids, k # id, NEW j, PreparedAs(k, j),
         j.timer = None \/ (Registered(k) /\ j.timer = jobs[k].timer)
  PROVE  Holds(id)'
<1>1. TypeOK /\ TimersApart /\ \A x \in Timers : TimerToken(x, id) => jobs[id].timer = x
  BY DEF ChainInv, TableInv, TimerOwned, TimerToken
<1>2. CASE timer' = Disarm(timer, j.timer) /\ run' = CancelRuns(run, k)
  <2>1. \A x \in Timers : TimerToken(x, id) => timer'[x] = timer[x]
    BY <1>1, <1>2, OtherDisarmed
  <2>2. \A r \in Runs : RunToken(r, id) => run'[r] = run[r]
    BY <1>2, OtherCancelled DEF RunToken
  <2> QED
    BY <2>1, <2>2, HoldsKept
<1>3. CASE UNCHANGED timer /\ \E r \in Runs : run[r] = None /\ run' = [run EXCEPT ![r] = Dispatched(k, TRUE)]
  <2>1. \A r \in Runs : RunToken(r, id) => run'[r] = run[r]
    BY <1>1, <1>3 DEF RunToken, TypeOK
  <2> QED
    BY <1>3, <2>1, HoldsKept
<1>4. CASE /\ \E x \in Timers : x \in FreeTimers /\ \A y \in Timers : y # x => timer'[y] = timer[y]
           /\ UNCHANGED run
  <2>1. \A x \in Timers : TimerToken(x, id) => timer'[x] = timer[x]
    BY <1>4 DEF FreeTimers, TimerToken
  <2> QED
    BY <1>4, <2>1, HoldsKept
<1> QED
  BY <1>2, <1>3, <1>4 DEF PreparedAs

(* The job that is prepared gets a token, unless it is dropped.            *)
LEMMA PreparedHolds ==
  ASSUME TypeOK, NEW id \in Ids, NEW j, PreparedAs(id, j), jobs'[id] # None
  PROVE  Holds(id)'
<1>1. CASE \E r \in Runs : run[r] = None /\ run' = [run EXCEPT ![r] = Dispatched(id, TRUE)]
  <2>1. PICK r \in Runs : run' = [run EXCEPT ![r] = Dispatched(id, TRUE)]
    BY <1>1
  <2>2. run'[r] = Dispatched(id, TRUE)
    BY <2>1 DEF TypeOK
  <2>3. Dispatched(id, TRUE) # None
    BY DispatchedType, NoneAssumption
  <2>4. Dispatched(id, TRUE).id = id /\ Sends(Dispatched(id, TRUE))
    BY DEF Dispatched, Sends
  <2>5. RunToken(r, id)'
    BY <2>2, <2>3, <2>4 DEF RunToken, Sends
  <2> QED
    BY <2>5 DEF Holds
<1>2. CASE \E x \in Timers, t \in Instants : timer'[x] = [id |-> id, at |-> t]
  <2>1. PICK x \in Timers, t \in Instants : timer'[x] = [id |-> id, at |-> t]
    BY <1>2
  <2>2. timer'[x] \in TimerType
    BY <2>1 DEF TimerType
  <2>3. TimerToken(x, id)'
    BY <2>1, <2>2, NoneAssumption DEF TimerToken
  <2> QED
    BY <2>3 DEF Holds
<1> QED
  BY <1>1, <1>2 DEF PreparedAs

(* A step of a run other than the last word on its rescheduling keeps its  *)
(* token.                                                                  *)
LEMMA AfterSends ==
  ASSUME TypeOK, Shape, NEW r \in Runs, NEW id, RunToken(r, id), run' = After(r),
         run[r].todo[1] \notin {"send", "request", "runJob", "resched"}
  PROVE  RunToken(r, id)'
<1> DEFINE s == run[r].todo
<1>1. run[r] # None /\ run[r] \in RunType /\ s \in Seq(Steps) /\ s # <<>> /\ run[r].id = id
      /\ run[r].shouldSendOut
  BY DEF RunToken, TypeOK, RunType, Sends
<1>2. PICK i \in 1 .. Len(s) : s[i] = "resched"
  BY DEF RunToken, Sends
<1>3. i # 1 /\ i \in Nat /\ Len(s) \in Nat /\ i <= Len(s) /\ i >= 2
  <2>1. i # 1
    BY <1>2
  <2>2. Len(s) \in Nat
    BY <1>1
  <2> QED
    BY <1>2, <2>1, <2>2
<1>4. Len(s) # 1
  <2>1. \A m, n \in Nat : m <= n /\ m >= 2 => n # 1
    OBVIOUS
  <2> QED
    BY <1>3, <2>1
<1>5. run'[r] = [run[r] EXCEPT !.todo = Tail(@)]
  BY <1>4 DEF After, TypeOK
<1>6. Tail(s) \in Seq(Steps) \ {<<>>}
  BY <1>1, <1>4, TailNotEmpty
<1>7. Len(Tail(s)) = Len(s) - 1 /\ \A k \in 1 .. Len(Tail(s)) : Tail(s)[k] = s[k + 1]
  BY <1>1, HeadTailProperties
<1>8. run'[r] # None /\ run'[r].id = id /\ run'[r].shouldSendOut /\ run'[r].todo = Tail(s)
  <2>1. run'[r] \in RunType
    BY <1>1, <1>5, <1>6 DEF RunType
  <2> QED
    BY <1>1, <1>5, <2>1, NoneAssumption DEF RunType
<1> HIDE DEF s
<1>9. i - 1 \in 1 .. Len(Tail(s)) /\ (i - 1) + 1 = i
  BY <1>3, <1>7
<1>10. Tail(s)[i - 1] = "resched"
  BY <1>2, <1>7, <1>9
<1> QED
  BY <1>8, <1>9, <1>10 DEF RunToken, Sends

(* The decision to leave a job as it is: next() has no further run for it. *)
LEMMA LeaveEndsSchedule ==
  ASSUME NEW id, NextRun(jobs[id], now).act = "leave"
  PROVE  ScheduleEnded(id)
  BY DEF NextRun, ScheduleEnded, ArmBeforeStop, ArmAt, Drop, Leave

(* A run's rescheduling gives the token to the timer it arms, or the       *)
(* schedule has ended.                                                     *)
LEMMA SentOutHolds ==
  ASSUME ServedInv, NEW id \in Ids, Registered(id), jobs'[id] # None, Holds(id),
         NEW r \in Runs, SentOut(r)
  PROVE  Holds(id)' \/ ScheduleEnded(id)
<1> DEFINE k == run[r].id
           decision == NextRun(jobs[k], now)
           tm == Disarm(timer, jobs[k].timer)
<1>1. TypeOK /\ Shape /\ TimersApart
  BY DEF ServedInv, ChainInv, TableInv
<1>2. run[r] # None /\ k \in Ids /\ At(r, "resched")
  BY <1>1 DEF SentOut, SendOutForRescheduling, At, TypeOK, RunType
<1>3. Reschedule(k, Sent(r)) /\ Sent(r) \in [Runs -> RunType \cup {None}]
  BY <1>1, <1>2, SentFollows DEF Sent, SentOut
<1>4. ASSUME NEW q \in Runs, q # r
      PROVE  Sent(r)[q] = run[q]
  <2>1. After(r)[q] = run[q]
    BY <1>1, <1>2, <1>4, AfterFollows
  <2>2. After(r) \in [Runs -> RunType \cup {None}]
    BY <1>1, <1>2, AfterType DEF TypeOK
  <2> QED
    BY <1>4, <2>1, <2>2 DEF Sent
<1>5. CASE Registered(k) /\ decision.act = "arm" /\ Arm(k, jobs[k], decision.at, tm, Sent(r))
  <2> DEFINE t == decision.at
  <2>1. jobs[k] \in JobType /\ tm \in [Timers -> TimerType \cup {None}]
    BY <1>1, <1>2, <1>5, DisarmType DEF TypeOK, Registered
  <2>2. Arm(k, jobs[k], t, tm, Sent(r))
    BY <1>5
  <2> HIDE DEF t, tm, k
  <2>3. PICK x \in Timers :
           /\ x \in FreeTimers /\ t \in Instants
           /\ timer'[x] = [id |-> k, at |-> t]
           /\ \A y \in Timers : y # x => timer'[y] = tm[y]
           /\ run' = Sent(r)
    BY <1>1, <1>2, <2>1, <2>2, ArmEffect
  <2>4. CASE k = id
    <3>1. timer'[x] \in TimerType
      BY <1>2, <2>3 DEF TimerType
    <3>2. TimerToken(x, id)'
      BY <2>3, <2>4, <3>1, NoneAssumption DEF TimerToken
    <3> QED
      BY <3>2 DEF Holds
  <2>5. CASE k # id
    <3>1. ASSUME NEW y \in Timers, TimerToken(y, id)
          PROVE  timer'[y] = timer[y]
      <4>1. y # x /\ jobs[id].timer = y
        BY <2>3, <3>1 DEF FreeTimers, TimerToken, ServedInv, ChainInv, TableInv, TimerOwned
      <4>2. Disarm(timer, jobs[k].timer)[y] = timer[y]
        BY <1>1, <1>2, <1>5, <2>5, <4>1, OtherDisarmed DEF k
      <4> QED
        BY <2>3, <4>1, <4>2 DEF tm
    <3>2. ASSUME NEW q \in Runs, RunToken(q, id)
          PROVE  run'[q] = run[q]
      <4>1. q # r
        BY <2>5, <3>2 DEF RunToken, k
      <4> QED
        BY <1>4, <2>3, <4>1
    <3> QED
      BY <3>1, <3>2, HoldsKept
  <2> QED
    BY <2>4, <2>5
<1>6. CASE k = id /\ ~(decision.act = "arm" /\ Arm(k, jobs[k], decision.at, tm, Sent(r)))
  <2>1. \/ decision.act = "leave"
        \/ Remove(k, Sent(r))
    BY <1>3, <1>6 DEF Reschedule
  <2>2. ~Remove(k, Sent(r))
    BY <1>1, <1>6 DEF Remove, TypeOK
  <2> QED
    BY <1>6, <2>1, <2>2, LeaveEndsSchedule
<1>7. CASE k # id /\ ~(Registered(k) /\ decision.act = "arm" /\ Arm(k, jobs[k], decision.at, tm, Sent(r)))
  <2>1. \A q \in Runs : RunToken(q, id) => Sent(r)[q] = run[q]
    <3> SUFFICES ASSUME NEW q \in Runs, RunToken(q, id) PROVE Sent(r)[q] = run[q]
      OBVIOUS
    <3>1. q # r
      BY <1>7 DEF RunToken
    <3> QED
      BY <1>4, <3>1
  <2>2. \/ run' = Sent(r) /\ UNCHANGED timer
        \/ Registered(k) /\ Remove(k, Sent(r))
    BY <1>3, <1>7 DEF Reschedule
  <2>3. CASE run' = Sent(r) /\ UNCHANGED timer
    BY <2>1, <2>3, HoldsKept
  <2>4. CASE Registered(k) /\ Remove(k, Sent(r))
    <3> HIDE DEF k
    <3> QED
      BY <1>2, <1>7, <2>1, <2>4, HoldsRemoved DEF ServedInv
  <2> QED
    BY <2>2, <2>3, <2>4
<1> QED
  BY <1>5, <1>6, <1>7

(* A step of a goroutine: one that holds a token of id keeps it, gives it  *)
(* to a timer, or ends because the schedule of id has; another one leaves  *)
(* the tokens of id alone.                                                 *)
LEMMA RunStepHolds ==
  ASSUME ServedInv, NEW id \in Ids, Registered(id), jobs'[id] # None, ~stopping, Holds(id),
         NEW r \in Runs, RunStep(r)
  PROVE  Holds(id)' \/ ScheduleEnded(id)
<1>1. TypeOK /\ Shape /\ LiveCopies
  BY DEF ServedInv, ChainInv, TableInv
<1>2. run[r] # None /\ run[r] \in RunType
  BY <1>1 DEF RunStep, Dispatch, GivesUp, Request, RunJob, SendOutForRescheduling,
     SendOutForNextRunUpdate, SendOutCompleted, SendOutSkipped, TaskReturns, SendTiming, At,
     TypeOK, RunType
<1>3. ASSUME ~SentOut(r)
      PROVE  timer' = timer /\ \A q \in Runs : q # r => run'[q] = run[q]
  <2>1. CASE RunJob(r)
    BY <1>1, <2>1 DEF RunJob, Done, TypeOK
  <2>2. CASE Dispatch(r) \/ Request(r)
    BY <1>1, <2>2 DEF Dispatch, Request, Done, TypeOK
  <2>3. CASE SendOutForRescheduling(r)
    <3>1. run' = Sent(r) /\ timer' = timer
      BY <1>3, <2>3 DEF SendOutForRescheduling, SentOut, Sent
    <3>2. After(r) \in [Runs -> RunType \cup {None}]
      BY <1>1, <1>2, AfterType DEF TypeOK
    <3>3. \A q \in Runs : q # r => Sent(r)[q] = After(r)[q]
      BY <3>2 DEF Sent
    <3> QED
      BY <1>1, <1>2, <3>1, <3>3, AfterFollows
  <2>4. CASE run' = After(r) \/ run' = Done(r)
    <3>1. timer' = timer
      BY <1>3 DEF RunStep, Dispatch, GivesUp, Request, RunJob, SendOutForRescheduling,
         SendOutForNextRunUpdate, SendOutCompleted, SendOutSkipped, TaskReturns, SendTiming,
         SentOut, Sent
    <3>2. \A q \in Runs : q # r => Done(r)[q] = run[q]
      BY <1>1 DEF Done, TypeOK
    <3> QED
      BY <1>1, <1>2, <2>4, <3>1, <3>2, AfterFollows
  <2> QED
    BY <2>1, <2>2, <2>3, <2>4 DEF RunStep, GivesUp, SendOutForNextRunUpdate, SendOutCompleted,
       SendOutSkipped, TaskReturns, SendTiming
<1>4. CASE SentOut(r)
  BY <1>4, SentOutHolds
<1>5. CASE ~SentOut(r) /\ ~RunToken(r, id)
  BY <1>3, <1>5, HoldsKept
<1>6. CASE ~SentOut(r) /\ RunToken(r, id)
  <2>1. run[r].id = id /\ run[r].shouldSendOut /\ Sends(run[r])
    BY <1>6 DEF RunToken, Sends
  <2>2. ASSUME RunToken(r, id)'
        PROVE  Holds(id)'
    BY <2>2 DEF Holds
  <2>3. CASE Dispatch(r)
    <3>1. run'[r] = Dispatched(id, TRUE)
      BY <1>1, <2>1, <2>3 DEF Dispatch, TypeOK
    <3>2. Dispatched(id, TRUE).id = id /\ Sends(Dispatched(id, TRUE))
      BY DEF Dispatched, Sends
    <3>3. Dispatched(id, TRUE) # None
      BY DispatchedType, NoneAssumption
    <3>4. RunToken(r, id)'
      BY <3>1, <3>2, <3>3 DEF RunToken, Sends
    <3> QED
      BY <2>2, <3>4
  <2>4. CASE Request(r)
    <3> DEFINE d == jobs[id].def
               p == [run[r] EXCEPT !.def = d, !.todo = <<"runJob">>]
    <3>1. run'[r] = p /\ run[r].todo[1] = "request"
      BY <1>1, <2>1, <2>4 DEF Request, At, TypeOK
    <3>2. run[r].live
      <4>1. run[r].def = None
        BY <1>1, <1>2, <3>1 DEF Shape, Shaped
      <4> QED
        BY <1>1, <1>2, <4>1 DEF LiveCopies
    <3>3. d \in Defs
      BY <1>1 DEF TypeOK, Registered, JobType
    <3> HIDE DEF d
    <3>4. /\ p.id = id /\ p.shouldSendOut /\ p.live /\ p.todo = <<"runJob">>
          /\ p \in RunType
      <4>1. <<"runJob">> \in Seq(Steps) \ {<<>>}
        BY DEF Steps
      <4> QED
        BY <1>2, <2>1, <3>2, <3>3, <4>1 DEF RunType
    <3> HIDE DEF p
    <3>5. p # None /\ Sends(p)
      BY <3>4, NoneAssumption DEF Sends
    <3>6. RunToken(r, id)'
      BY <3>1, <3>4, <3>5 DEF RunToken, Sends
    <3> QED
      BY <2>2, <3>6
  <2>5. CASE RunJob(r)
    <3>1. run[r].todo[1] = "runJob"
      BY <1>1, <1>2, <2>5 DEF RunJob, At, RunType
    <3>2. run[r].live
      <4>1. run[r].todo \in Seq(Steps) /\ run[r].todo # <<>>
        BY <1>2 DEF RunType
      <4>2. 1 \in 1 .. Len(run[r].todo)
        BY <4>1, EmptySeq
      <4>3. Len(run[r].todo) = 1
        BY <1>1, <1>2, <3>1, <4>2 DEF Shape, Shaped
      <4>4. ~\E i \in 1 .. Len(run[r].todo) : run[r].todo[i] = "resched"
        BY <3>1, <4>3
      <4> QED
        BY <2>1, <3>1, <4>4 DEF Sends
    <3>3. run[r].def # None
      BY <1>1, <1>2, <3>1 DEF Shape, Shaped
    <3>4. run[r].def = jobs[id].def
      BY <1>1, <1>2, <2>1, <3>2, <3>3 DEF LiveCopies
    <3>5. CASE StopTimeReached(run[r].def, now)
      BY <3>4, <3>5 DEF ScheduleEnded
    <3>6. CASE ~StopTimeReached(run[r].def, now)
      <4>1. PICK outcome \in Outcomes :
              run' = [run EXCEPT ![r].todo = Path(run[r].def, outcome)]
        BY <2>5, <3>2, <3>6 DEF RunJob
      <4> DEFINE t == Path(run[r].def, outcome)
      <4>2. run'[r] = [run[r] EXCEPT !.todo = t]
        BY <1>1, <4>1 DEF TypeOK
      <4>3. \/ t = <<"resched", "nextRuns">>
            \/ t = <<"resched", "skipped">>
            \/ t = <<"resched", "completed", "task", "timing">>
            \/ t = <<"task", "timing", "completed", "resched">>
        BY OutcomeAssumption DEF Path
      <4> HIDE DEF t
      <4>4. t \in Seq(Steps) \ {<<>>} /\ \E i \in 1 .. Len(t) : t[i] = "resched"
        <5>1. CASE t = <<"task", "timing", "completed", "resched">>
          <6>1. 4 \in 1 .. Len(t) /\ t[4] = "resched"
            BY <5>1
          <6>2. t \in Seq(Steps) \ {<<>>}
            BY <5>1 DEF Steps
          <6> QED
            BY <6>1, <6>2
        <5>2. CASE t # <<"task", "timing", "completed", "resched">>
          <6>1. 1 \in 1 .. Len(t) /\ t[1] = "resched"
            BY <4>3, <5>2
          <6>2. CASE t = <<"resched", "completed", "task", "timing">>
            BY <6>1, <6>2 DEF Steps
          <6>3. CASE t = <<"resched", "nextRuns">>
            BY <6>1, <6>3 DEF Steps
          <6>4. CASE t = <<"resched", "skipped">>
            BY <6>1, <6>4 DEF Steps
          <6> QED
            BY <4>3, <5>2, <6>2, <6>3, <6>4
        <5> QED
          BY <5>1, <5>2
      <4>5. /\ run'[r].id = id /\ run'[r].shouldSendOut /\ run'[r].todo = t
            /\ run'[r] \in RunType
        BY <1>2, <2>1, <4>2, <4>4 DEF RunType
      <4>6. RunToken(r, id)'
        BY <4>4, <4>5, NoneAssumption DEF RunToken, Sends
      <4> QED
        BY <2>2, <4>6
    <3> QED
      BY <3>5, <3>6
  <2>6. CASE ~Dispatch(r) /\ ~Request(r) /\ ~RunJob(r)
    <3>1. ~SendOutForRescheduling(r) /\ ~GivesUp(r)
      BY <1>6, <2>1 DEF SendOutForRescheduling, SentOut, Sent, GivesUp
    <3>2. run' = After(r) /\ run[r].todo[1] \notin {"send", "request", "runJob", "resched"}
      BY <1>2, <2>6, <3>1 DEF RunStep, SendOutForNextRunUpdate, SendOutCompleted, SendOutSkipped,
         TaskReturns, SendTiming, At, RunType
    <3> QED
      BY <1>1, <1>6, <2>2, <3>2, AfterSends
  <2> QED
    BY <2>3, <2>4, <2>5, <2>6
<1> QED
  BY <1>4, <1>5, <1>6

-----------------------------------------------------------------------------
(* A job comes to be served when it is prepared, and with a token.         *)
LEMMA PreparedHoldsOwn ==
  ASSUME TypeOK, Standstill, NEW id \in Ids, jobs'[id] # None, started',
         \/ \E d \in Defs : NewJob(id, d)
         \/ StartJob(id)
  PROVE  Holds(id)'
<1>1. ASSUME NEW d \in Defs, NewJob(id, d)
      PROVE  Holds(id)'
  <2>1. PrepareFirstRun(id, FreshJob(d))
    BY <1>1 DEF NewJob
  <2> QED
    BY <2>1, FreshJobType, PrepareEffect, PreparedHolds
<1>2. CASE StartJob(id)
  <2> DEFINE j == [jobs[id] EXCEPT !.nextScheduled = {}]
  <2>1. j \in JobType /\ PrepareFirstRun(id, j)
    BY <1>2 DEF StartJob, TypeOK, JobType
  <2> HIDE DEF j
  <2> QED
    BY <2>1, PrepareEffect, PreparedHolds
<1> QED
  BY <1>1, <1>2

(* No step takes the last token of a served job before its schedule ends,  *)
(* and none serves a job that gets no token.                               *)
LEMMA NextHolds ==
  ASSUME ServedInv, [Next]_vars, NEW id \in Ids,
         jobs'[id] # None, started', ~stopping', id \notin starting',
         Served(id) => Holds(id)
  PROVE  Holds(id)' \/ (Served(id) /\ ScheduleEnded(id))
<1>1. TypeOK /\ Standstill /\ TimerOwned /\ TimersApart
  BY DEF ServedInv, ChainInv, TableInv
<1>2. ASSUME UNCHANGED lifecycle, Registered(id)
      PROVE  Served(id) /\ Holds(id)
  BY <1>2 DEF Served
<1>3. ASSUME UNCHANGED <<lifecycle, jobs, timer>>,
             \A r \in Runs : run[r] # None => run'[r] = run[r]
      PROVE  Holds(id)'
  <2>1. Holds(id)
    BY <1>2, <1>3 DEF Registered
  <2>2. \A r \in Runs : RunToken(r, id) => run'[r] = run[r]
    BY <1>3 DEF RunToken
  <2> QED
    BY <1>3, <2>1, <2>2, HoldsKept
<1>4. ASSUME NEW k \in Ids, NEW d \in Defs, NewJob(k, d)
      PROVE  Holds(id)'
  <2>1. CASE k = id
    BY <1>1, <1>4, <2>1, PreparedHoldsOwn
  <2>2. CASE k # id
    <3>1. UNCHANGED lifecycle /\ started
      BY <1>4 DEF NewJob
    <3>2. PrepareFirstRun(k, FreshJob(d)) /\ FreshJob(d) \in JobType /\ FreshJob(d).timer = None
      BY <1>4, <3>1, FreshJobType DEF NewJob, FreshJob
    <3>3. PreparedAs(k, FreshJob(d)) /\ jobs'[id] = jobs[id]
      BY <1>1, <2>2, <3>2, PrepareEffect
    <3>4. Registered(id) /\ Holds(id)
      BY <1>2, <3>1, <3>3 DEF Registered
    <3> QED
      BY <2>2, <3>2, <3>3, <3>4, OtherPrepared DEF ServedInv
  <2> QED
    BY <2>1, <2>2
<1>5. ASSUME NEW k \in Ids, StartJob(k)
      PROVE  Holds(id)'
  <2>1. CASE k = id
    BY <1>1, <1>5, <2>1, PreparedHoldsOwn
  <2>2. CASE k # id
    <3> DEFINE j == [jobs[k] EXCEPT !.nextScheduled = {}]
    <3>1. Registered(k) /\ j \in JobType /\ j.timer = jobs[k].timer /\ PrepareFirstRun(k, j)
      <4>1. jobs[k] # None /\ jobs[k] \in JobType
        BY <1>1, <1>5 DEF StartJob, TypeOK
      <4>2. j \in JobType /\ j.timer = jobs[k].timer
        BY <4>1 DEF JobType
      <4>3. PrepareFirstRun(k, j)
        BY <1>5 DEF StartJob
      <4> QED
        BY <4>1, <4>2, <4>3 DEF Registered
    <3> HIDE DEF j
    <3>2. PreparedAs(k, j) /\ jobs'[id] = jobs[id]
      BY <1>1, <2>2, <3>1, PrepareEffect
    <3>3. Registered(id) /\ Served(id)
      BY <1>5, <2>2, <3>2 DEF StartJob, Served, Registered
    <3> QED
      BY <2>2, <3>1, <3>2, <3>3, OtherPrepared DEF ServedInv
  <2> QED
    BY <2>1, <2>2
<1>6. ASSUME NEW k \in Ids, RemoveJob(k) \/ RemoveLimited(k)
      PROVE  Holds(id)'
  <2>1. UNCHANGED lifecycle
    BY <1>6 DEF RemoveJob, RemoveLimited
  <2>2. (Registered(k) /\ Remove(k, run)) \/ UNCHANGED <<jobs, timer, run>>
    BY <1>6 DEF RemoveJob, RemoveLimited
  <2>3. CASE Registered(k) /\ Remove(k, run)
    <3>1. k # id /\ Registered(id)
      BY <1>1, <2>3 DEF Remove, TypeOK, Registered
    <3>2. Holds(id)
      BY <1>2, <2>1, <3>1
    <3> QED
      BY <2>3, <3>1, <3>2, HoldsRemoved DEF ServedInv
  <2> QED
    BY <1>3, <2>1, <2>2, <2>3
<1>7. ASSUME NEW tagged \in SUBSET Ids, RemoveByTags(tagged)
      PROVE  Holds(id)'
  <2>1. /\ UNCHANGED lifecycle /\ id \notin tagged /\ jobs'[id] = jobs[id]
        /\ \A x \in Timers : (\A k \in tagged : jobs[k].timer # x) => timer'[x] = timer[x]
        /\ \A k \in tagged : Registered(k)
        /\ \A r \in Runs : run[r].id = id => run'[r] = run[r]
    BY <1>7 DEF RemoveByTags, Registered
  <2>2. Registered(id) /\ Holds(id)
    BY <1>2, <2>1 DEF Registered
  <2>3. ASSUME NEW x \in Timers, TimerToken(x, id)
        PROVE  timer'[x] = timer[x]
    <3>1. jobs[id].timer = x
      BY <1>1, <2>3 DEF TimerOwned, TimerToken
    <3>2. \A k \in tagged : jobs[k].timer # x
      BY <1>1, <2>1, <2>2, <3>1, NoneAssumption DEF TimersApart
    <3> QED
      BY <2>1, <3>2
  <2> QED
    BY <2>1, <2>2, <2>3, HoldsKept DEF RunToken
<1>8. ASSUME NEW k \in Ids, RunNow(k)
      PROVE  Holds(id)'
  <2>1. UNCHANGED <<lifecycle, jobs, timer>>
    BY <1>8, Zenon DEF RunNow
  <2>2. \E r \in Runs : run[r] = None /\ run' = [run EXCEPT ![r] = Dispatched(k, FALSE)]
    BY <1>8 DEF RunNow
  <2> QED
    BY <1>1, <1>3, <2>1, <2>2 DEF TypeOK
<1>9. ASSUME NEW x \in Timers, TimerFires(x)
      PROVE  Holds(id)'
  <2> DEFINE k == timer[x].id
             p == [Dispatched(k, TRUE) EXCEPT !.todo = <<"send">>]
  <2>1. timer[x] # None /\ k \in Ids /\ UNCHANGED <<lifecycle, jobs>> /\ timer' = Disarm(timer, x)
    BY <1>1, <1>9 DEF TimerFires, TypeOK, TimerType
  <2>2. PICK r \in Runs : run[r] = None /\ run' = [run EXCEPT ![r] = p]
    BY <1>9 DEF TimerFires
  <2>3. run'[r] = p /\ \A q \in Runs : q # r => run'[q] = run[q]
    BY <1>1, <2>2 DEF TypeOK
  <2>4. CASE k = id
    <3>1. p.id = id /\ p.shouldSendOut /\ p.todo = <<"send">> /\ p \in RunType
      <4>1. Dispatched(k, TRUE) \in RunType
        BY <2>1, DispatchedType
      <4>2. <<"send">> \in Seq(Steps) \ {<<>>}
        BY DEF Steps
      <4>3. p \in RunType
        BY <4>1, <4>2 DEF RunType
      <4> QED
        BY <2>4, <4>3 DEF Dispatched
    <3>2. RunToken(r, id)'
      <4> HIDE DEF p
      <4> QED
        BY <2>3, <3>1, NoneAssumption DEF RunToken, Sends
    <3> QED
      BY <3>2 DEF Holds
  <2>5. CASE k # id
    <3>1. Holds(id)
      BY <1>2, <2>1 DEF Registered
    <3>2. \A y \in Timers : TimerToken(y, id) => timer'[y] = timer[y]
      BY <2>1, <2>5 DEF TimerToken, Disarm
    <3>3. \A q \in Runs : RunToken(q, id) => run'[q] = run[q]
      BY <2>2, <2>3 DEF RunToken
    <3> QED
      BY <3>1, <3>2, <3>3, HoldsKept
  <2> QED
    BY <2>4, <2>5
<1>10. ASSUME NEW r \in Runs, RunStep(r)
       PROVE  Holds(id)' \/ (Served(id) /\ ScheduleEnded(id))
  <2>1. UNCHANGED lifecycle
    BY <1>10 DEF RunStep, Dispatch, GivesUp, Request, RunJob, SendOutForRescheduling,
       SendOutForNextRunUpdate, SendOutCompleted, SendOutSkipped, TaskReturns, SendTiming
  <2>2. Registered(id)
    <3>1. added' = added
      BY <1>10 DEF RunStep, Dispatch, GivesUp, Request, RunJob, SendOutForRescheduling,
         SendOutForNextRunUpdate, SendOutCompleted, SendOutSkipped, TaskReturns, SendTiming
    <3> QED
      BY <3>1, NextKeepsDef DEF ServedInv, ChainInv, Registered
  <2>3. Served(id) /\ Holds(id) /\ ~stopping
    BY <1>2, <2>1, <2>2
  <2> QED
    BY <1>10, <2>2, <2>3, RunStepHolds
<1>11. CASE Start
  BY <1>11 DEF Start, Registered
<1>12. CASE StopJobs \/ Stopped
  BY <1>12 DEF StopJobs, Stopped
<1>13. CASE Tick \/ JobTimingUpdate \/ UNCHANGED vars
  <2>1. UNCHANGED <<lifecycle, jobs, timer, run>>
    BY <1>13 DEF Tick, JobTimingUpdate, vars
  <2> QED
    BY <1>3, <2>1
<1>14. CASE ClientCall
  BY <1>4, <1>6, <1>7, <1>8, <1>11, <1>12, <1>14 DEF ClientCall
<1> QED
  BY <1>5, <1>6, <1>9, <1>10, <1>12, <1>13, <1>14 DEF Next

(* No step leaves a job that the executor serves without a timer or a run  *)
(* that will reschedule it, unless the job's stop time has passed or       *)
(* next() has no further run for it.                                       *)
THEOREM NobodyStranded == Spec => NeverStranded
<1>1. Init => ServedInv
  <2>1. Init => LiveCopies
    BY DEF Init, LiveCopies
  <2> QED
    BY <2>1, InitChain DEF ServedInv
<1>2. ServedInv /\ [Next]_vars => ServedInv'
  BY ChainKept, NextLiveCopies DEF ServedInv
<1>3. \A id \in Ids : TypeOK => (Tokens(id) # {} <=> Holds(id))
  BY TokensAreHeld
<1>4. (\A id \in Ids : TypeOK => (Tokens(id) # {} <=> Holds(id)))'
  BY <1>3, PTL
<1>5. ServedInv /\ [Next]_vars =>
        [\A id \in Ids :
           (Served(id)' /\ Tokens(id)' = {})
           => Served(id) /\ (Tokens(id) = {} \/ ScheduleEnded(id))]_vars
  <2> SUFFICES ASSUME ServedInv, [Next]_vars, NEW id \in Ids, Served(id)', Tokens(id)' = {}
               PROVE  Served(id) /\ (Tokens(id) = {} \/ ScheduleEnded(id))
    OBVIOUS
  <2>1. TypeOK /\ TypeOK'
    BY NextTypes DEF ServedInv, ChainInv, TableInv
  <2>2. ~Holds(id)'
    BY <1>4, <2>1
  <2>3. (Served(id) => Holds(id)) => Served(id) /\ ScheduleEnded(id)
    BY <2>2, NextHolds DEF Served, Registered
  <2>4. Tokens(id) # {} => Holds(id)
    BY <2>1, TokensAreHeld
  <2> QED
    BY <2>3, <2>4
<1> QED
  BY <1>1, <1>2, <1>5, PTL DEF Spec, NeverStranded
=============================================================================
