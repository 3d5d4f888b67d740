---------------------------- MODULE JobChain_proofs ----------------------------
(***************************************************************************)
(* Theorems about the chain of runs of a job in JobTable, for every set of *)
(* job definitions, ids, timers, runs and every bound: a job is scheduled  *)
(* at most once at a time, what is announced will fire, and a job that has *)
(* used up its runs goes.                                                  *)
(*                                                                         *)
(* They rest on the invariant of JobTable_proofs (timers and table) and on *)
(* what each step does to the runs in flight.  What the next functions     *)
(* compute plays no role here either.                                      *)
(***************************************************************************)
EXTENDS JobTable_proofs, FiniteSetTheorems

USE DEF Zero, lifecycle, history

(* What a goroutine holds, apart from which goroutine it is: it will send  *)
(* its job out for rescheduling.                                           *)
Sends(p) ==
  /\ p.shouldSendOut
  /\ \/ p.todo[1] \in {"send", "request"}
     \/ p.todo[1] = "runJob" /\ p.live
     \/ \E i \in 1 .. Len(p.todo) : p.todo[i] = "resched"

(* What is left to do has the shape that runJob gives it: the steps before *)
(* runJob stand alone, only a timer's callback blocks on jobsIn, a run     *)
(* holds a copy of the job once it is past its request, and one that is    *)
(* rescheduled before its task reports its timing after its completion.    *)
Shaped(p) ==
  /\ \A i \in 1 .. Len(p.todo) : p.todo[i] \in {"send", "request", "runJob"} => Len(p.todo) = 1
  /\ p.todo[1] = "send" => p.shouldSendOut
  /\ p.def = None <=> p.todo[1] \in {"send", "request"}
  /\ \A i \in 1 .. Len(p.todo) :
       (p.todo[i] = "completed" /\ ~Def[p.def].intervalFromCompletion)
       => \E k \in i + 1 .. Len(p.todo) : p.todo[k] = "timing"

Shape == \A r \in Runs : run[r] # None => Shaped(run[r])

(* An id nobody has used yet names no job and no run.                      *)
NotAdded ==
  \A id \in Ids : added[id] = 0 =>
    ~Registered(id) /\ \A r \in Runs : run[r] # None => run[r].id # id

(* Callbacks blocked on jobsIn while there is no executor were there when  *)
(* StopJobs came.                                                          *)
LateSends ==
  ~started \/ stopping => \A r \in Runs : At(r, "send") => run[r].id \in late

(* No two jobs point to the same timer.                                    *)
TimersApart ==
  \A id, k \in Ids :
    (id # k /\ Registered(id) /\ Registered(k) /\ jobs[id].timer # None)
    => jobs[k].timer # jobs[id].timer

TimerToken(x, id) == timer[x] # None /\ timer[x].id = id
RunToken(r, id) == run[r] # None /\ run[r].id = id /\ Sends(run[r])

(* At most one run of id will send it out, and none while a timer is armed *)
(* or selectStart has yet to prepare the job.                              *)
ChainOf(id) ==
  added[id] <= 1 /\ id \notin late =>
    /\ \A r, s \in Runs : RunToken(r, id) /\ RunToken(s, id) => r = s
    /\ \A r \in Runs, x \in Timers : ~(RunToken(r, id) /\ TimerToken(x, id))
    /\ id \in starting => \A r \in Runs : ~RunToken(r, id)

OneChain == \A id \in Ids : ChainOf(id)

ChainInv == TableInv /\ Shape /\ NotAdded /\ LateSends /\ TimersApart /\ OneChain

-----------------------------------------------------------------------------
(* One run's record, before and after a step that is not its dispatch or   *)
(* its request: the run is never more of a token than it was.              *)
Follows(p, q) ==
  /\ q.id = p.id /\ q.def = p.def
  /\ Sends(q) => Sends(p)
  /\ Shaped(q)
  /\ q.todo[1] = "send" => p.todo[1] = "send"
  /\ q.live => p.live
  /\ p.def = None => q.live = p.live

FollowedBy(rn) ==
  \A r \in Runs : rn[r] # None => run[r] # None /\ Follows(run[r], rn[r])

LEMMA FollowsItself ==
  ASSUME NEW p, Shaped(p)
  PROVE  Follows(p, p)
  BY DEF Follows

LEMMA FollowsCancelled ==
  ASSUME NEW p \in RunType, Shaped(p), p.def # None
  PROVE  Follows(p, [p EXCEPT !.live = FALSE])
<1> DEFINE q == [p EXCEPT !.live = FALSE]
<1>1. /\ q.id = p.id /\ q.def = p.def /\ q.todo = p.todo /\ q.shouldSendOut = p.shouldSendOut
      /\ q.live = FALSE
  BY DEF RunType
<1> HIDE DEF q
<1>2. Follows(p, q)
  BY <1>1 DEF Follows, Sends, Shaped
<1> QED
  BY <1>2 DEF q

LEMMA FollowsTail ==
  ASSUME NEW p \in RunType, Shaped(p), Len(p.todo) # 1
  PROVE  Follows(p, [p EXCEPT !.todo = Tail(@)])
<1> DEFINE q == [p EXCEPT !.todo = Tail(@)]
<1>1. /\ q.id = p.id /\ q.def = p.def /\ q.shouldSendOut = p.shouldSendOut
      /\ q.live = p.live /\ q.todo = Tail(p.todo)
  BY DEF RunType
<1> HIDE DEF q
<1>2. p.todo \in Seq(Steps) /\ p.todo # <<>>
  BY DEF RunType
<1>3. /\ Len(p.todo) \in Nat /\ Len(p.todo) >= 2
      /\ Len(q.todo) = Len(p.todo) - 1
      /\ \A i \in 1 .. Len(q.todo) : q.todo[i] = p.todo[i + 1]
  <2>1. Len(p.todo) \in Nat /\ Len(p.todo) # 0
    BY <1>2, EmptySeq
  <2>2. /\ Len(Tail(p.todo)) = Len(p.todo) - 1
        /\ \A i \in 1 .. Len(Tail(p.todo)) : Tail(p.todo)[i] = p.todo[i + 1]
    BY <1>2, HeadTailProperties
  <2>3. \A n \in Nat : n # 0 /\ n # 1 => n >= 2
    OBVIOUS
  <2> QED
    BY <1>1, <2>1, <2>2, <2>3
<1>4. \A i \in 1 .. Len(p.todo) : p.todo[i] \notin {"send", "request", "runJob"}
  BY DEF Shaped
<1>5. \A i \in 1 .. Len(q.todo) : i + 1 \in 1 .. Len(p.todo)
  BY <1>3
<1>6. \A i \in 1 .. Len(q.todo) : q.todo[i] \notin {"send", "request", "runJob"}
  BY <1>3, <1>4, <1>5
<1>7. 1 \in 1 .. Len(q.todo) /\ 1 \in 1 .. Len(p.todo)
  BY <1>3
<1>8. Sends(q) => Sends(p)
  BY <1>1, <1>3, <1>5, <1>6, <1>7 DEF Sends
<1>9. p.def # None
  BY <1>4, <1>7 DEF Shaped
<1>10. ASSUME NEW i \in 1 .. Len(q.todo), q.todo[i] = "completed",
              ~Def[q.def].intervalFromCompletion
       PROVE  \E k \in i + 1 .. Len(q.todo) : q.todo[k] = "timing"
  <2>1. PICK k \in (i + 1) + 1 .. Len(p.todo) : p.todo[k] = "timing"
    BY <1>1, <1>3, <1>5, <1>10 DEF Shaped
  <2>2. k - 1 \in i + 1 .. Len(q.todo) /\ k - 1 \in 1 .. Len(q.todo) /\ (k - 1) + 1 = k
    BY <1>3, <2>1
  <2> QED
    BY <1>3, <2>1, <2>2
<1>11. Shaped(q)
  BY <1>1, <1>6, <1>7, <1>9, <1>10 DEF Shaped
<1>12. Follows(p, q)
  BY <1>1, <1>6, <1>7, <1>8, <1>11 DEF Follows
<1> QED
  BY <1>12 DEF q

(* A run that has been rescheduled holds no token.                         *)
LEMMA FollowsSent ==
  ASSUME NEW p, NEW q \in RunType, Follows(p, q), q.todo[1] # "send"
  PROVE  /\ Follows(p, [q EXCEPT !.shouldSendOut = FALSE])
         /\ ~Sends([q EXCEPT !.shouldSendOut = FALSE])
<1> DEFINE s == [q EXCEPT !.shouldSendOut = FALSE]
<1>1. /\ s.id = q.id /\ s.def = q.def /\ s.todo = q.todo /\ s.live = q.live
      /\ s.shouldSendOut = FALSE
  BY DEF RunType
<1> HIDE DEF s
<1>2. Follows(p, s) /\ ~Sends(s)
  BY <1>1 DEF Follows, Sends, Shaped
<1> QED
  BY <1>2 DEF s

LEMMA ShapedDispatched ==
  ASSUME NEW id \in Ids, NEW b \in BOOLEAN
  PROVE  /\ Shaped(Dispatched(id, b))
         /\ ~b => ~Sends(Dispatched(id, b))
         /\ Dispatched(id, b).todo[1] = "request"
         /\ Dispatched(id, b).id = id /\ Dispatched(id, b).def = None /\ Dispatched(id, b).live
  BY DEF Dispatched, Shaped, Sends

(* The callback of an expired timer.                                       *)
LEMMA ShapedCallback ==
  ASSUME NEW id \in Ids
  PROVE  LET p == [Dispatched(id, TRUE) EXCEPT !.todo = <<"send">>] IN
         Shaped(p) /\ p.id = id /\ p.def = None /\ p.live /\ p.todo[1] = "send"
  BY DEF Dispatched, Shaped

-----------------------------------------------------------------------------
(* All runs, before and after a step.                                      *)

LEMMA FollowsInTurn ==
  ASSUME NEW p, NEW q, NEW s, Follows(p, q), Follows(q, s)
  PROVE  Follows(p, s)
  BY DEF Follows

LEMMA SameRuns ==
  ASSUME Shape
  PROVE  FollowedBy(run)
  BY FollowsItself DEF FollowedBy, Shape

LEMMA CancelledRuns ==
  ASSUME NEW rn \in [Runs -> RunType \cup {None}], FollowedBy(rn), NEW id
  PROVE  /\ FollowedBy(CancelRuns(rn, id))
         /\ \A r \in Runs : CancelRuns(rn, id)[r] # None =>
              rn[r] # None /\ (Sends(CancelRuns(rn, id)[r]) => Sends(rn[r]))
<1> SUFFICES ASSUME NEW r \in Runs, CancelRuns(rn, id)[r] # None
             PROVE  /\ rn[r] # None /\ Follows(rn[r], CancelRuns(rn, id)[r])
                    /\ run[r] # None /\ Follows(run[r], CancelRuns(rn, id)[r])
  BY DEF FollowedBy, Follows
<1>1. rn[r] # None
  BY DEF CancelRuns
<1>2. rn[r] \in RunType /\ run[r] # None /\ Follows(run[r], rn[r]) /\ Shaped(rn[r])
  BY <1>1 DEF FollowedBy, Follows
<1>3. \/ CancelRuns(rn, id)[r] = rn[r]
      \/ rn[r].def # None /\ CancelRuns(rn, id)[r] = [rn[r] EXCEPT !.live = FALSE]
  BY DEF CancelRuns
<1>4. Follows(rn[r], CancelRuns(rn, id)[r])
  BY <1>2, <1>3, FollowsItself, FollowsCancelled
<1> QED
  BY <1>1, <1>2, <1>4, FollowsInTurn

LEMMA AfterFollows ==
  ASSUME TypeOK, Shape, NEW r \in Runs, run[r] # None
  PROVE  /\ FollowedBy(After(r)) /\ FollowedBy(Done(r))
         /\ \A q \in Runs \ {r} : After(r)[q] = run[q]
<1>1. run[r] \in RunType
  BY DEF TypeOK
<1>2. \A q \in Runs \ {r} : After(r)[q] = run[q] /\ Done(r)[q] = run[q]
  BY DEF After, Done, TypeOK
<1>3. Done(r)[r] = None
  BY DEF Done, TypeOK
<1>4. After(r)[r] # None => Follows(run[r], After(r)[r])
  <2>1. CASE Len(run[r].todo) = 1
    BY <1>3, <2>1 DEF After
  <2>2. CASE Len(run[r].todo) # 1
    <3>1. After(r)[r] = [run[r] EXCEPT !.todo = Tail(@)]
      BY <2>2 DEF After, TypeOK
    <3> QED
      BY <1>1, <2>2, <3>1, FollowsTail DEF Shape
  <2> QED
    BY <2>1, <2>2
<1> QED
  BY <1>2, <1>3, <1>4, FollowsItself DEF FollowedBy, Shape

(* sendOutForRescheduling of r: the goroutine goes on without a token.     *)
LEMMA SentFollows ==
  ASSUME TypeOK, Shape, NEW r \in Runs, At(r, "resched"),
         NEW sent, sent = [After(r) EXCEPT ![r] =
                             IF @ = None THEN None ELSE [@ EXCEPT !.shouldSendOut = FALSE]]
  PROVE  /\ sent \in [Runs -> RunType \cup {None}]
         /\ FollowedBy(sent)
         /\ sent[r] # None => ~Sends(sent[r])
<1> DEFINE q == After(r)[r]
<1>1. run[r] # None /\ run[r] \in RunType /\ run[r].todo[1] = "resched"
  BY DEF At, TypeOK
<1>2. FollowedBy(After(r)) /\ After(r) \in [Runs -> RunType \cup {None}]
  BY <1>1, AfterFollows, AfterType DEF TypeOK
<1>3. /\ sent[r] = (IF q = None THEN None ELSE [q EXCEPT !.shouldSendOut = FALSE])
      /\ \A s \in Runs \ {r} : sent[s] = After(r)[s]
  BY <1>2
<1>4. q # None => q \in RunType /\ Follows(run[r], q) /\ q.todo[1] # "send"
  BY <1>1, <1>2 DEF FollowedBy, Follows
<1> HIDE DEF q
<1>5. q # None =>
        /\ Follows(run[r], [q EXCEPT !.shouldSendOut = FALSE])
        /\ ~Sends([q EXCEPT !.shouldSendOut = FALSE])
        /\ [q EXCEPT !.shouldSendOut = FALSE] \in RunType
  <2>1. q \in RunType => [q EXCEPT !.shouldSendOut = FALSE] \in RunType
    BY DEF RunType
  <2> QED
    BY <1>4, <2>1, FollowsSent
<1>6. sent \in [Runs -> RunType \cup {None}]
  <2>1. sent[r] \in RunType \cup {None}
    BY <1>3, <1>5
  <2>2. DOMAIN sent = Runs /\ sent = [s \in Runs |-> sent[s]]
    BY <1>2
  <2>3. \A s \in Runs : sent[s] \in RunType \cup {None}
    BY <1>2, <1>3, <2>1
  <2> QED
    BY <2>2, <2>3
<1>7. FollowedBy(sent)
  BY <1>1, <1>2, <1>3, <1>5 DEF FollowedBy
<1> QED
  BY <1>3, <1>5, <1>6, <1>7

(* What Reschedule does to the runs.                                       *)
LEMMA RescheduleFollows ==
  ASSUME NEW rn \in [Runs -> RunType \cup {None}], FollowedBy(rn), NEW id \in Ids,
         Reschedule(id, rn)
  PROVE  /\ FollowedBy(run')
         /\ \A r \in Runs : run'[r] # None =>
              rn[r] # None /\ (Sends(run'[r]) => Sends(rn[r]))
<1>1. run' = rn \/ run' = CancelRuns(rn, id)
  BY DEF Reschedule, Remove, Arm
<1> QED
  BY <1>1, CancelledRuns
-----------------------------------------------------------------------------
(* What a step does to the runs: either each one follows itself or ends,   *)
(* or one of them begins, is dispatched or gets its job.                   *)

Begins(r, p) ==
  /\ p \in RunType /\ Shaped(p)
  /\ run' = [run EXCEPT ![r] = p]
  /\ Registered(p.id) \/ Registered(p.id)' \/ (run[r] # None /\ run[r].id = p.id)
  /\ p.todo[1] = "send" => started /\ ~stopping /\ UNCHANGED <<started, stopping>>
  /\ p.def = None => p.live
  /\ p.def # None => Registered(p.id) /\ p.def = jobs[p.id].def /\ UNCHANGED jobs

SomeRunBegins == \E r \in Runs : \E p \in RunType : Begins(r, p)

LEMMA PrepareRuns ==
  ASSUME TypeOK, Shape, NEW id \in Ids, NEW j \in JobType, PrepareFirstRun(id, j)
  PROVE  \/ FollowedBy(run')
         \/ \E r \in Runs : /\ run[r] = None /\ run' = [run EXCEPT ![r] = Dispatched(id, TRUE)]
                            /\ FirstRun(j.def, j.startTime, now).act = "fire"
                            /\ Registered(id)'
<1> DEFINE decision == FirstRun(j.def, j.startTime, now)
           announced == [j EXCEPT !.startTime = decision.at]
<1>1. CASE run' = CancelRuns(run, id)
  BY <1>1, SameRuns, CancelledRuns DEF TypeOK
<1>2. CASE Arm(id, announced, decision.at, timer, run)
  BY <1>2, SameRuns DEF Arm
<1>3. CASE /\ decision.act = "fire"
           /\ \E r \in Runs : /\ run[r] = None
                               /\ run' = [run EXCEPT ![r] = Dispatched(id, TRUE)]
           /\ jobs' = [jobs EXCEPT ![id] = [announced EXCEPT !.nextScheduled = @ \cup {now}]]
  <2>1. [announced EXCEPT !.nextScheduled = @ \cup {now}] \in JobType
    <3>1. decision.at = now
      BY <1>3, FirstRunDecides
    <3> QED
      BY <3>1 DEF JobType, TypeOK, Instants
  <2> HIDE DEF announced
  <2>2. jobs'[id] # None
    BY <1>3, <2>1, NoneAssumption DEF TypeOK
  <2> QED
    BY <1>3, <2>2 DEF Registered
<1> QED
  BY <1>1, <1>2, <1>3 DEF PrepareFirstRun

LEMMA DispatchBegins ==
  ASSUME TypeOK, NEW r \in Runs, NEW id \in Ids, NEW b \in BOOLEAN,
         run' = [run EXCEPT ![r] = Dispatched(id, b)],
         Registered(id) \/ Registered(id)' \/ (run[r] # None /\ run[r].id = id)
  PROVE  SomeRunBegins
<1>1. Begins(r, Dispatched(id, b))
  BY ShapedDispatched, DispatchedType DEF Begins
<1> QED
  BY <1>1, DispatchedType DEF SomeRunBegins

LEMMA RequestRuns ==
  ASSUME TypeOK, Shape, NEW r \in Runs, Request(r)
  PROVE  /\ FollowedBy(run') \/ SomeRunBegins
         /\ \A q \in Runs : run'[q] # None =>
              /\ run[q] # None /\ run'[q].id = run[q].id
              /\ Sends(run'[q]) => Sends(run[q])
              /\ run'[q].def = run[q].def \/ (q = r /\ run'[r].def = jobs[run[r].id].def)
              /\ run'[q].def # run[q].def => run'[q].todo = <<"runJob">> /\ run[q].todo = <<"request">>
<1>1. run[r] # None /\ run[r] \in RunType /\ run[r].id \in Ids /\ run[r].todo[1] = "request"
  BY DEF Request, At, TypeOK, RunType
<1>2. run[r].todo = <<"request">>
  <2>1. Len(run[r].todo) = 1
    <3>1. run[r].todo \in Seq(Steps) /\ run[r].todo # <<>>
      BY <1>1 DEF RunType
    <3>2. 1 \in 1 .. Len(run[r].todo)
      BY <3>1, EmptySeq
    <3> QED
      BY <1>1, <3>2 DEF Shape, Shaped
  <2> QED
    BY <1>1, <2>1 DEF RunType
<1>3. CASE ~Registered(run[r].id)
  <2>1. FollowedBy(run') /\ run' = Done(r)
    BY <1>1, <1>3, AfterFollows DEF Request
  <2>2. \A q \in Runs : run'[q] # None => run'[q] = run[q]
    BY <2>1 DEF Done, TypeOK
  <2>3. ASSUME NEW q \in Runs, run'[q] # None
        PROVE  /\ run[q] # None /\ run'[q].id = run[q].id
               /\ Sends(run'[q]) => Sends(run[q])
               /\ run'[q].def = run[q].def \/ (q = r /\ run'[r].def = jobs[run[r].id].def)
               /\ run'[q].def # run[q].def =>
                    run'[q].todo = <<"runJob">> /\ run[q].todo = <<"request">>
    <3>1. run'[q] = run[q]
      BY <2>2, <2>3
    <3> QED
      BY <2>3, <3>1
  <2> QED
    BY <2>1, <2>3
<1>4. CASE Registered(run[r].id)
  <2> DEFINE d == jobs[run[r].id].def
             p == [run[r] EXCEPT !.def = d, !.todo = <<"runJob">>]
  <2>1. d \in Defs
    BY <1>1, <1>4 DEF TypeOK, Registered, JobType
  <2>2. p.id = run[r].id /\ p.def = d /\ p.todo = <<"runJob">> /\ p.shouldSendOut = run[r].shouldSendOut
    BY <1>1 DEF RunType
  <2>3. p \in RunType
    <3>1. <<"runJob">> \in Seq(Steps) \ {<<>>}
      BY DEF Steps
    <3> QED
      BY <1>1, <2>1, <3>1 DEF RunType
  <2>4. run' = [run EXCEPT ![r] = p]
    BY <1>4 DEF Request, TypeOK
  <2> HIDE DEF p, d
  <2>5. Shaped(p) /\ (Sends(p) => Sends(run[r]))
    BY <1>2, <2>1, <2>2, NoneAssumption DEF Shaped, Sends
  <2>6. Begins(r, p)
    <3>1. p.def = jobs[p.id].def /\ jobs' = jobs
      BY <2>2 DEF Request, d
    <3>2. Registered(p.id) /\ p.def # None /\ p.todo[1] # "send"
      BY <1>4, <2>1, <2>2, NoneAssumption
    <3> QED
      BY <2>3, <2>4, <2>5, <3>1, <3>2 DEF Begins
  <2>7. \A q \in Runs : q # r => run'[q] = run[q]
    BY <2>4 DEF TypeOK
  <2>8. run'[r] = p
    BY <2>4 DEF TypeOK
  <2> QED
    BY <1>1, <1>2, <2>2, <2>3, <2>5, <2>6, <2>7, <2>8 DEF SomeRunBegins, d
<1> QED
  BY <1>3, <1>4

(* A step of a run that neither dispatches it nor asks for its job.        *)
LEMMA RunStepFollows ==
  ASSUME TypeOK, Shape, NEW r \in Runs, RunStep(r), ~Dispatch(r), ~Request(r)
  PROVE  FollowedBy(run')
<1>1. run[r] # None
  BY DEF RunStep, GivesUp, RunJob, SendOutForRescheduling, SendOutForNextRunUpdate,
     SendOutCompleted, SendOutSkipped, TaskReturns, SendTiming, At
<1>2. FollowedBy(After(r)) /\ FollowedBy(Done(r))
  BY <1>1, AfterFollows
<1>3. CASE RunJob(r)
  <2>1. run[r] \in RunType /\ run[r].todo[1] = "runJob"
    BY <1>1, <1>3 DEF RunJob, At, TypeOK
  <2>2. ASSUME run[r].live, NEW outcome \in Outcomes
        PROVE  Follows(run[r], [run[r] EXCEPT !.todo = Path(run[r].def, outcome)])
    <3> DEFINE d == run[r].def
               t == Path(d, outcome)
               q == [run[r] EXCEPT !.todo = t]
    <3>1. /\ q.id = run[r].id /\ q.def = d /\ q.shouldSendOut = run[r].shouldSendOut
          /\ q.todo = t /\ q.live = run[r].live
      BY <2>1 DEF RunType
    <3>2. d # None
      BY <1>1, <2>1 DEF Shape, Shaped
    <3>3. \/ t = <<"resched", "nextRuns">>
          \/ t = <<"resched", "skipped">>
          \/ t = <<"resched", "completed", "task", "timing">>
          \/ t = <<"task", "timing", "completed", "resched">> /\ Def[d].intervalFromCompletion
      BY OutcomeAssumption DEF Path
    <3> HIDE DEF q, t, d
    <3>4. Shaped(q)
      <4>1. CASE t = <<"resched", "nextRuns">> \/ t = <<"resched", "skipped">>
        BY <3>1, <3>2, <4>1 DEF Shaped
      <4>2. CASE t = <<"resched", "completed", "task", "timing">>
        <5>1. \A i \in 1 .. Len(t) : t[i] = "completed" => i = 2
          BY <4>2
        <5>2. 4 \in 2 + 1 .. Len(t) /\ t[4] = "timing"
          BY <4>2
        <5>3. \A i \in 1 .. Len(t) : t[i] \notin {"send", "request", "runJob"}
          BY <4>2
        <5>4. t[1] \notin {"send", "request", "runJob"}
          BY <4>2
        <5> QED
          BY <3>1, <3>2, <5>1, <5>2, <5>3, <5>4 DEF Shaped
      <4>3. CASE t = <<"task", "timing", "completed", "resched">> /\ Def[d].intervalFromCompletion
        <5>1. \A i \in 1 .. Len(t) : t[i] \notin {"send", "request", "runJob"}
          BY <4>3
        <5>2. t[1] \notin {"send", "request", "runJob"}
          BY <4>3
        <5> QED
          BY <3>1, <3>2, <4>3, <5>1, <5>2 DEF Shaped
      <4> QED
        BY <3>3, <4>1, <4>2, <4>3
    <3>5. q.todo[1] # "send"
      BY <3>1, <3>3
    <3>6. Sends(q) => Sends(run[r])
      BY <2>1, <2>2, <3>1 DEF Sends
    <3>7. Follows(run[r], q)
      BY <3>1, <3>4, <3>5, <3>6 DEF Follows, d
    <3> QED
      BY <3>7 DEF q, t, d
  <2>3. CASE run' = Done(r)
    BY <1>2, <2>3
  <2>4. CASE /\ run[r].live
             /\ \E outcome \in Outcomes :
                  run' = [run EXCEPT ![r].todo = Path(run[r].def, outcome)]
    <3>1. PICK outcome \in Outcomes :
                  run' = [run EXCEPT ![r].todo = Path(run[r].def, outcome)]
      BY <2>4
    <3>2. /\ run'[r] = [run[r] EXCEPT !.todo = Path(run[r].def, outcome)]
          /\ \A q \in Runs : q # r => run'[q] = run[q]
      BY <3>1 DEF TypeOK
    <3> QED
      BY <1>1, <2>2, <2>4, <3>2, FollowsItself DEF FollowedBy, Shape
  <2> QED
    BY <1>3, <2>3, <2>4 DEF RunJob
<1>4. CASE SendOutForRescheduling(r)
  <2> DEFINE sent == [After(r) EXCEPT ![r] =
                        IF @ = None THEN None ELSE [@ EXCEPT !.shouldSendOut = FALSE]]
  <2>1. At(r, "resched")
    BY <1>4 DEF SendOutForRescheduling
  <2>2. sent \in [Runs -> RunType \cup {None}] /\ FollowedBy(sent)
    BY <2>1, SentFollows
  <2>3. run' = sent \/ Reschedule(run[r].id, sent)
    BY <1>4 DEF SendOutForRescheduling
  <2>4. run[r].id \in Ids
    BY <1>1 DEF TypeOK, RunType
  <2> HIDE DEF sent
  <2> QED
    BY <2>2, <2>3, <2>4, RescheduleFollows
<1>5. CASE ~RunJob(r) /\ ~SendOutForRescheduling(r)
  <2>1. run' = After(r) \/ run' = Done(r)
    BY <1>5 DEF RunStep, GivesUp, SendOutForNextRunUpdate, SendOutCompleted, SendOutSkipped,
       TaskReturns, SendTiming
  <2> QED
    BY <1>2, <2>1
<1> QED
  BY <1>3, <1>4, <1>5

LEMMA NextRunsFollow ==
  ASSUME TableInv, Shape, [Next]_vars
  PROVE  FollowedBy(run') \/ SomeRunBegins
<1>1. TypeOK
  BY DEF TableInv
<1>2. CASE UNCHANGED run
  BY <1>2, SameRuns
<1>3. ASSUME NEW id \in Ids, NEW d \in Defs, NewJob(id, d)
      PROVE  FollowedBy(run') \/ SomeRunBegins
  <2>1. CASE PrepareFirstRun(id, FreshJob(d))
    BY <1>1, <2>1, PrepareRuns, FreshJobType, DispatchBegins
  <2> QED
    BY <1>2, <1>3, <2>1 DEF NewJob
<1>4. ASSUME NEW id \in Ids, Remove(id, run)
      PROVE  FollowedBy(run')
  BY <1>1, <1>4, SameRuns, CancelledRuns DEF Remove, TypeOK
<1>5. ASSUME \A r \in Runs : \/ run'[r] = run[r]
                             \/ /\ run[r] # None /\ run[r].def # None
                                /\ run'[r] = [run[r] EXCEPT !.live = FALSE]
      PROVE  FollowedBy(run')
  BY <1>1, <1>5, FollowsItself, FollowsCancelled DEF FollowedBy, Shape, TypeOK
<1>6. ASSUME NEW tagged \in SUBSET Ids, RemoveByTags(tagged)
      PROVE  FollowedBy(run')
  BY <1>5, <1>6 DEF RemoveByTags
<1>7. CASE StopJobs
  BY <1>5, <1>7 DEF StopJobs
<1>8. ASSUME NEW id \in Ids, RunNow(id)
      PROVE  SomeRunBegins
  <2>1. Registered(id) /\ \E r \in Runs : run' = [run EXCEPT ![r] = Dispatched(id, FALSE)]
    BY <1>8 DEF RunNow
  <2> QED
    BY <1>1, <2>1, DispatchBegins
<1>9. ASSUME NEW id \in Ids, StartJob(id)
      PROVE  FollowedBy(run') \/ SomeRunBegins
  <2> DEFINE j == [jobs[id] EXCEPT !.nextScheduled = {}]
  <2>1. j \in JobType
    BY <1>1, <1>9 DEF StartJob, TypeOK, JobType
  <2>2. PrepareFirstRun(id, j)
    BY <1>9 DEF StartJob
  <2> HIDE DEF j
  <2> QED
    BY <1>1, <2>1, <2>2, PrepareRuns, DispatchBegins
<1>10. ASSUME NEW id \in Ids, RemoveLimited(id)
       PROVE  FollowedBy(run')
  BY <1>2, <1>4, <1>10, SameRuns DEF RemoveLimited
<1>11. ASSUME NEW x \in Timers, TimerFires(x)
       PROVE  SomeRunBegins
  <2> DEFINE id == timer[x].id
             p == [Dispatched(id, TRUE) EXCEPT !.todo = <<"send">>]
  <2>1. id \in Ids /\ Registered(id)
    BY <1>11 DEF TimerFires, TableInv, TypeOK, TimerType, TimerOwned
  <2>2. Shaped(p) /\ p.id = id /\ p.def = None /\ p.live /\ p.todo[1] = "send"
    BY <2>1, ShapedCallback
  <2>3. p \in RunType
    <3>1. Dispatched(id, TRUE) \in RunType
      BY <2>1, DispatchedType
    <3>2. <<"send">> \in Seq(Steps) \ {<<>>}
      BY DEF Steps
    <3> QED
      BY <3>1, <3>2 DEF RunType
  <2>4. started /\ ~stopping /\ UNCHANGED <<started, stopping>>
    BY <1>11 DEF TimerFires, TableInv, Standstill
  <2>5. \E r \in Runs : run' = [run EXCEPT ![r] = p]
    BY <1>11 DEF TimerFires
  <2> HIDE DEF p, id
  <2> QED
    BY <2>1, <2>2, <2>3, <2>4, <2>5 DEF SomeRunBegins, Begins
<1>12. ASSUME NEW r \in Runs, RunStep(r)
       PROVE  FollowedBy(run') \/ SomeRunBegins
  <2>1. CASE Dispatch(r)
    <3>1. run[r] # None /\ run[r].id \in Ids /\ run' = [run EXCEPT ![r] = Dispatched(run[r].id, TRUE)]
      BY <1>1, <2>1 DEF Dispatch, At, TypeOK, RunType
    <3> QED
      BY <1>1, <3>1, DispatchBegins
  <2> QED
    BY <1>1, <1>12, <2>1, RequestRuns, RunStepFollows
<1>13. CASE ClientCall
  BY <1>2, <1>3, <1>4, <1>6, <1>7, <1>8, <1>13 DEF ClientCall, RemoveJob, Start
<1> QED
  BY <1>2, <1>9, <1>10, <1>11, <1>12, <1>13 DEF Next, Tick, JobTimingUpdate, Stopped, vars

(* An id is registered by NewJob only, and NewJob counts.                  *)
LEMMA NextAdded ==
  ASSUME TableInv, [Next]_vars, NEW id \in Ids
  PROVE  /\ added'[id] \in Nat /\ added'[id] >= added[id]
         /\ Registered(id)' => Registered(id) \/ added'[id] > 0
<1>1. TypeOK /\ TypeOK'
  BY NextTypes DEF TableInv
<1>2. added[id] \in Nat /\ added'[id] \in Nat
  BY <1>1 DEF TypeOK
<1>3. ASSUME NEW k \in Ids, Remove(k, run) \/ (\E rn : Reschedule(k, rn))
      PROVE  jobs'[id] # None => jobs[id] # None
  BY <1>1, <1>3 DEF Remove, Reschedule, Arm, Registered, TypeOK
<1>4. ASSUME NEW k \in Ids, Registered(k), NEW j, PrepareFirstRun(k, j)
      PROVE  jobs'[id] # None => jobs[id] # None
  BY <1>1, <1>4 DEF PrepareFirstRun, Arm, Registered, TypeOK
<1>5. ASSUME NEW k \in Ids, NEW d \in Defs, NewJob(k, d)
      PROVE  /\ added'[id] >= added[id]
             /\ jobs'[id] # None => jobs[id] # None \/ added'[id] > 0
  <2>1. CASE k = id
    <3>1. added'[id] = added[id] + 1
      BY <1>1, <1>5, <2>1 DEF NewJob, TypeOK
    <3> QED
      BY <1>2, <3>1
  <2>2. CASE k # id
    <3>1. added'[id] = added[id]
      BY <1>1, <1>5, <2>2 DEF NewJob, TypeOK
    <3>2. jobs'[id] = jobs[id]
      BY <1>1, <1>5, <2>2 DEF NewJob, PrepareFirstRun, Arm, TypeOK
    <3> QED
      BY <1>2, <3>1, <3>2
  <2> QED
    BY <2>1, <2>2
<1>6. ASSUME added' = added, jobs'[id] # None => jobs[id] # None
      PROVE  /\ added'[id] >= added[id]
             /\ jobs'[id] # None => jobs[id] # None
  BY <1>2, <1>6
<1>7. CASE ClientCall
  <2>1. ASSUME NEW k \in Ids, RunNow(k)
        PROVE  added' = added /\ jobs' = jobs
    BY <2>1, Zenon DEF RunNow
  <2>2. ASSUME NEW tagged \in SUBSET Ids, RemoveByTags(tagged)
        PROVE  added' = added /\ (jobs'[id] # None => jobs[id] # None)
    BY <2>2 DEF RemoveByTags
  <2>3. ASSUME NEW k \in Ids, RemoveJob(k)
        PROVE  added' = added /\ (jobs'[id] # None => jobs[id] # None)
    BY <1>3, <2>3 DEF RemoveJob
  <2>4. CASE Start \/ StopJobs
    <3>1. added' = added /\ jobs' = jobs
      BY <2>4 DEF Start, StopJobs
    <3> QED
      BY <1>2, <1>6, <3>1 DEF Registered
  <2> QED
    BY <1>5, <1>6, <1>7, <2>1, <2>2, <2>3, <2>4, <1>2 DEF ClientCall, Registered
<1>8. ASSUME NEW r \in Runs, RunStep(r)
      PROVE  added' = added /\ (jobs'[id] # None => jobs[id] # None)
  <2>1. added' = added
    BY <1>8 DEF RunStep, Dispatch, GivesUp, Request, RunJob, SendOutForRescheduling,
       SendOutForNextRunUpdate, SendOutCompleted, SendOutSkipped, TaskReturns, SendTiming
  <2>2. CASE SendOutForRescheduling(r)
    <3>1. run[r].id \in Ids
      BY <1>1, <2>2 DEF SendOutForRescheduling, At, TypeOK, RunType
    <3> QED
      BY <1>3, <2>1, <2>2, <3>1 DEF SendOutForRescheduling
  <2>3. CASE ~SendOutForRescheduling(r)
    BY <1>1, <1>8, <2>1, <2>3 DEF RunStep, Dispatch, GivesUp, Request, RunJob,
       SendOutForNextRunUpdate, SendOutCompleted, SendOutSkipped, TaskReturns, SendTiming, TypeOK
  <2> QED
    BY <2>2, <2>3
<1>9. ASSUME NEW k \in Ids, StartJob(k) \/ RemoveLimited(k)
      PROVE  added' = added /\ (jobs'[id] # None => jobs[id] # None)
  <2>1. CASE StartJob(k)
    <3>1. Registered(k)
      BY <1>1, <2>1 DEF StartJob, TypeOK, Registered
    <3> QED
      BY <1>4, <2>1, <3>1 DEF StartJob
  <2>2. CASE RemoveLimited(k)
    BY <1>3, <2>2 DEF RemoveLimited
  <2> QED
    BY <1>9, <2>1, <2>2
<1>10. CASE Tick \/ (\E x \in Timers : TimerFires(x)) \/ JobTimingUpdate \/ Stopped \/ UNCHANGED vars
  <2>1. added' = added /\ jobs' = jobs
    BY <1>10 DEF Tick, TimerFires, JobTimingUpdate, Stopped, vars
  <2> QED
    BY <1>2, <1>6, <2>1 DEF Registered
<1> QED
  BY <1>2, <1>6, <1>7, <1>8, <1>9, <1>10 DEF Next, Registered

-----------------------------------------------------------------------------
(* The invariants about the runs in flight.                                *)

LEMMA NextShape ==
  ASSUME TableInv, Shape, [Next]_vars
  PROVE  Shape'
<1>1. CASE FollowedBy(run')
  BY <1>1 DEF FollowedBy, Follows, Shape
<1>2. ASSUME NEW r \in Runs, NEW p \in RunType, Begins(r, p)
      PROVE  Shape'
  BY <1>2 DEF Begins, Shape, TableInv, TypeOK
<1> QED
  BY <1>1, <1>2, NextRunsFollow DEF SomeRunBegins

LEMMA NextNotAdded ==
  ASSUME TableInv, Shape, NotAdded, [Next]_vars
  PROVE  NotAdded'
<1> SUFFICES ASSUME NEW id \in Ids, added'[id] = 0
             PROVE  ~Registered(id)' /\ \A r \in Runs : run'[r] # None => run'[r].id # id
  BY DEF NotAdded
<1>1. added[id] = 0
  <2>1. added[id] \in Nat
    BY DEF TableInv, TypeOK
  <2> QED
    BY <2>1, NextAdded
<1>2. ~Registered(id) /\ \A r \in Runs : run[r] # None => run[r].id # id
  BY <1>1 DEF NotAdded
<1>3. ~Registered(id)'
  BY <1>2, NextAdded
<1>4. CASE FollowedBy(run')
  BY <1>2, <1>3, <1>4 DEF FollowedBy, Follows
<1>5. ASSUME NEW r \in Runs, NEW p \in RunType, Begins(r, p)
      PROVE  \A q \in Runs : run'[q] # None => run'[q].id # id
  <2>1. p.id # id
    BY <1>2, <1>3, <1>5 DEF Begins
  <2> QED
    BY <1>2, <1>5, <2>1 DEF Begins, TableInv, TypeOK
<1> QED
  BY <1>3, <1>4, <1>5, NextRunsFollow DEF SomeRunBegins

(* Stopping starts with StopJobs, which writes down the callbacks.         *)
LEMMA NextLateSends ==
  ASSUME TableInv, Shape, LateSends, [Next]_vars
  PROVE  LateSends'
<1>1. TypeOK /\ TypeOK'
  BY NextTypes DEF TableInv
<1>2. late \subseteq late'
  BY DEF Next, vars, ClientCall, NewJob, RemoveJob, RemoveByTags, RunNow, Start, StopJobs, Tick,
     StartJob, RemoveLimited, TimerFires, JobTimingUpdate, Stopped, RunStep, Dispatch, GivesUp,
     Request, RunJob, SendOutForRescheduling, SendOutForNextRunUpdate, SendOutCompleted,
     SendOutSkipped, TaskReturns, SendTiming
<1>3. ASSUME ~started' \/ stopping'
      PROVE  ~started \/ stopping \/ StopJobs
  <2>1. ASSUME ClientCall, ~Start, ~StopJobs
        PROVE  UNCHANGED <<started, stopping>>
    BY <2>1 DEF ClientCall, NewJob, RemoveJob, RemoveByTags, RunNow
  <2>2. ASSUME NEW r \in Runs, RunStep(r)
        PROVE  UNCHANGED <<started, stopping>>
    BY <2>2 DEF RunStep, Dispatch, GivesUp, Request, RunJob, SendOutForRescheduling,
       SendOutForNextRunUpdate, SendOutCompleted, SendOutSkipped, TaskReturns, SendTiming
  <2>3. CASE Start
    BY <1>3, <2>3 DEF Start
  <2>4. CASE Stopped
    BY <2>4 DEF Stopped
  <2>5. CASE UNCHANGED <<started, stopping>>
    BY <1>3, <2>5
  <2> QED
    BY <2>1, <2>2, <2>3, <2>4, <2>5 DEF Next, vars, Tick, StartJob, RemoveLimited, TimerFires,
       JobTimingUpdate
<1>4. ASSUME ~started' \/ stopping', NEW r \in Runs, run[r] # None, run[r].todo[1] = "send"
      PROVE  run[r].id \in late'
  <2>1. At(r, "send")
    BY <1>1, <1>4 DEF At, TypeOK
  <2>2. StopJobs => run[r].id \in late'
    BY <2>1 DEF StopJobs
  <2> QED
    BY <1>2, <1>3, <1>4, <2>1, <2>2 DEF LateSends
<1> SUFFICES ASSUME ~started' \/ stopping', NEW r \in Runs, run'[r] # None, run'[r].todo[1] = "send"
             PROVE  run'[r].id \in late'
  BY DEF LateSends, At
<1>5. CASE FollowedBy(run')
  BY <1>4, <1>5 DEF FollowedBy, Follows
<1>6. ASSUME NEW q \in Runs, NEW p \in RunType, Begins(q, p)
      PROVE  run'[r].id \in late'
  <2>1. CASE q = r
    <3>1. p.todo[1] = "send"
      BY <1>1, <1>6, <2>1 DEF Begins, TypeOK
    <3> QED
      BY <1>6, <3>1 DEF Begins
  <2>2. CASE q # r
    <3>1. run'[r] = run[r]
      BY <1>1, <1>6, <2>2 DEF Begins, TypeOK
    <3> QED
      BY <1>4, <3>1
  <2> QED
    BY <2>1, <2>2
<1> QED
  BY <1>5, <1>6, NextRunsFollow DEF SomeRunBegins

-----------------------------------------------------------------------------
(* No step makes two jobs point to one timer: a timer is free when armed.  *)

LEMMA ApartKept ==
  ASSUME TimersApart, NEW id,
         \A k \in Ids : jobs'[k] # None =>
           \/ jobs'[k].timer = None
           \/ (jobs[k] # None /\ jobs'[k].timer = jobs[k].timer)
           \/ (k = id /\ \A m \in Ids : jobs[m] # None => jobs[m].timer # jobs'[k].timer)
  PROVE  TimersApart'
<1> SUFFICES ASSUME NEW k \in Ids, NEW m \in Ids, k # m, jobs'[k] # None, jobs'[m] # None,
                    jobs'[k].timer # None
             PROVE  jobs'[m].timer # jobs'[k].timer
  BY DEF TimersApart, Registered
<1>1. CASE jobs'[m].timer = None
  BY <1>1
<1>2. CASE jobs'[m].timer # None
  BY <1>2 DEF TimersApart, Registered
<1> QED
  BY <1>1, <1>2

LEMMA ArmEffect ==
  ASSUME TypeOK, NEW id \in Ids, NEW j \in JobType, NEW t,
         NEW tm \in [Timers -> TimerType \cup {None}], NEW rn, Arm(id, j, t, tm, rn)
  PROVE  \E x \in Timers :
           /\ x \in FreeTimers /\ t \in Instants
           /\ jobs'[id] # None /\ jobs'[id].timer = x /\ jobs'[id].def = j.def
           /\ jobs'[id].runCount = j.runCount
           /\ jobs'[id].nextScheduled = j.nextScheduled \cup {t}
           /\ \A k \in Ids : k # id => jobs'[k] = jobs[k]
           /\ timer'[x] = [id |-> id, at |-> t]
           /\ \A y \in Timers : y # x => timer'[y] = tm[y]
           /\ run' = rn
<1>1. PICK x \in FreeTimers :
        /\ t \in Instants
        /\ timer' = [tm EXCEPT ![x] = [id |-> id, at |-> t]]
        /\ jobs' = [jobs EXCEPT ![id] =
                      [j EXCEPT !.timer = x, !.nextScheduled = @ \cup {t}]]
        /\ run' = rn
  BY DEF Arm
<1> DEFINE p == [j EXCEPT !.timer = x, !.nextScheduled = @ \cup {t}]
<1>2. x \in Timers
  BY DEF FreeTimers
<1>3. /\ p.timer = x /\ p.def = j.def /\ p.runCount = j.runCount
      /\ p.nextScheduled = j.nextScheduled \cup {t}
  BY DEF JobType
<1>4. p \in JobType
  BY <1>1, <1>2 DEF JobType
<1>5. jobs'[id] = p /\ \A k \in Ids : k # id => jobs'[k] = jobs[k]
  BY <1>1 DEF TypeOK
<1>6. timer'[x] = [id |-> id, at |-> t] /\ \A y \in Timers : y # x => timer'[y] = tm[y]
  BY <1>1, <1>2
<1> HIDE DEF p
<1> QED
  BY <1>1, <1>2, <1>3, <1>4, <1>5, <1>6, NoneAssumption

(* What Reschedule does to the table.                                      *)
LEMMA RescheduleEffect ==
  ASSUME TypeOK, NEW id \in Ids, NEW rn, Reschedule(id, rn)
  PROVE  \/ UNCHANGED <<jobs, timer>>
         \/ Remove(id, rn)
         \/ /\ jobs[id] # None
            /\ \E x \in Timers, t \in Instants :
                 /\ x \in FreeTimers
                 /\ jobs'[id] # None /\ jobs'[id].timer = x /\ jobs'[id].def = jobs[id].def
                 /\ jobs'[id].runCount = jobs[id].runCount
                 /\ jobs'[id].nextScheduled = jobs[id].nextScheduled \cup {t}
                 /\ \A k \in Ids : k # id => jobs'[k] = jobs[k]
                 /\ timer'[x] = [id |-> id, at |-> t]
                 /\ \A y \in Timers : y # x => timer'[y] = Disarm(timer, jobs[id].timer)[y]
<1> DEFINE t == NextRun(jobs[id], now).at
           tm == Disarm(timer, jobs[id].timer)
<1>1. CASE Registered(id) /\ Arm(id, jobs[id], t, tm, rn)
  <2>1. jobs[id] # None /\ jobs[id] \in JobType
    BY <1>1 DEF TypeOK, Registered
  <2>2. tm \in [Timers -> TimerType \cup {None}]
    BY DisarmType DEF TypeOK
  <2> HIDE DEF t, tm
  <2>3. \E x \in Timers :
           /\ x \in FreeTimers /\ t \in Instants
           /\ jobs'[id] # None /\ jobs'[id].timer = x /\ jobs'[id].def = jobs[id].def
           /\ jobs'[id].runCount = jobs[id].runCount
           /\ jobs'[id].nextScheduled = jobs[id].nextScheduled \cup {t}
           /\ \A k \in Ids : k # id => jobs'[k] = jobs[k]
           /\ timer'[x] = [id |-> id, at |-> t]
           /\ \A y \in Timers : y # x => timer'[y] = tm[y]
    BY <1>1, <2>1, <2>2, ArmEffect
  <2> USE DEF tm
  <2> QED
    BY <2>1, <2>3
<1> HIDE DEF t, tm
<1> QED
  BY <1>1 DEF Reschedule, t, tm

(* What prepareFirstRun does to the table, for a job j that has no timer,  *)
(* or only the one of the job it replaces, and announces nothing.          *)
PreparedAs(id, j) ==
  \/ /\ jobs'[id] = None
     /\ timer' = Disarm(timer, j.timer)
     /\ run' = CancelRuns(run, id)
  \/ /\ jobs'[id] # None /\ jobs'[id].timer = j.timer /\ jobs'[id].def = j.def
     /\ jobs'[id].runCount = j.runCount
     /\ jobs'[id].nextScheduled = j.nextScheduled \cup {now}
     /\ UNCHANGED timer
     /\ \E r \in Runs : run[r] = None /\ run' = [run EXCEPT ![r] = Dispatched(id, TRUE)]
  \/ \E x \in Timers, t \in Instants :
       /\ x \in FreeTimers
       /\ jobs'[id] # None /\ jobs'[id].timer = x /\ jobs'[id].def = j.def
       /\ jobs'[id].runCount = j.runCount
       /\ jobs'[id].nextScheduled = j.nextScheduled \cup {t}
       /\ timer'[x] = [id |-> id, at |-> t]
       /\ \A y \in Timers : y # x => timer'[y] = timer[y]
       /\ UNCHANGED run

LEMMA PrepareEffect ==
  ASSUME TypeOK, NEW id \in Ids, NEW j \in JobType, PrepareFirstRun(id, j)
  PROVE  /\ PreparedAs(id, j)
         /\ \A k \in Ids : k # id => jobs'[k] = jobs[k]
<1> DEFINE decision == FirstRun(j.def, j.startTime, now)
           announced == [j EXCEPT !.startTime = decision.at]
<1>1. ASSUME decision.at \in Instants
      PROVE  /\ announced \in JobType
             /\ announced.timer = j.timer /\ announced.def = j.def
             /\ announced.runCount = j.runCount
             /\ announced.nextScheduled = j.nextScheduled
  BY <1>1 DEF JobType, Instants
<1>2. CASE /\ jobs' = [jobs EXCEPT ![id] = None]
           /\ timer' = Disarm(timer, j.timer)
           /\ run' = CancelRuns(run, id)
  BY <1>2 DEF PreparedAs, TypeOK
<1>3. CASE /\ decision.act = "fire"
           /\ \E r \in Runs : /\ run[r] = None
                               /\ run' = [run EXCEPT ![r] = Dispatched(id, TRUE)]
           /\ jobs' = [jobs EXCEPT ![id] = [announced EXCEPT !.nextScheduled = @ \cup {now}]]
           /\ UNCHANGED timer
  <2>1. decision.at = now /\ now \in Instants
    BY <1>3, FirstRunDecides DEF TypeOK
  <2> DEFINE p == [announced EXCEPT !.nextScheduled = @ \cup {now}]
  <2>2. /\ announced \in JobType
        /\ announced.timer = j.timer /\ announced.def = j.def
        /\ announced.runCount = j.runCount
        /\ announced.nextScheduled = j.nextScheduled
    BY <1>1, <2>1
  <2> HIDE DEF announced, decision
  <2>3. /\ p \in JobType /\ p.timer = announced.timer /\ p.def = announced.def
        /\ p.runCount = announced.runCount
        /\ p.nextScheduled = announced.nextScheduled \cup {now}
    BY <2>1, <2>2 DEF JobType
  <2>4. jobs'[id] = p /\ \A k \in Ids : k # id => jobs'[k] = jobs[k]
    BY <1>3 DEF TypeOK
  <2> HIDE DEF p
  <2> QED
    BY <1>3, <2>2, <2>3, <2>4, NoneAssumption DEF PreparedAs
<1>4. CASE decision.act = "arm" /\ Arm(id, announced, decision.at, timer, run)
  <2> DEFINE t == decision.at
  <2>1. t \in Instants
    BY <1>4 DEF Arm
  <2>2. /\ announced \in JobType
        /\ announced.timer = j.timer /\ announced.def = j.def
        /\ announced.runCount = j.runCount
        /\ announced.nextScheduled = j.nextScheduled
    BY <1>1, <2>1
  <2>3. timer \in [Timers -> TimerType \cup {None}]
    BY DEF TypeOK
  <2>4. Arm(id, announced, t, timer, run)
    BY <1>4
  <2> HIDE DEF announced, decision, t
  <2>5. \E x \in Timers :
           /\ x \in FreeTimers /\ t \in Instants
           /\ jobs'[id] # None /\ jobs'[id].timer = x /\ jobs'[id].def = announced.def
           /\ jobs'[id].runCount = announced.runCount
           /\ jobs'[id].nextScheduled = announced.nextScheduled \cup {t}
           /\ \A k \in Ids : k # id => jobs'[k] = jobs[k]
           /\ timer'[x] = [id |-> id, at |-> t]
           /\ \A y \in Timers : y # x => timer'[y] = timer[y]
           /\ run' = run
    BY <2>2, <2>3, <2>4, ArmEffect
  <2> QED
    BY <2>1, <2>2, <2>5 DEF PreparedAs
<1> QED
  BY <1>2, <1>3, <1>4 DEF PrepareFirstRun

(* A run that reports back changes only what is announced and counted.     *)
LEMMA ReportEffect ==
  ASSUME TypeOK, NEW id \in Ids, NEW p,
         jobs' = [jobs EXCEPT ![id] = IF @ = None THEN None ELSE p],
         jobs[id] # None => p \in {PruneStaleScheduled(jobs[id]), Counted(jobs[id])}
  PROVE  /\ jobs[id] # None => jobs'[id] = p
         /\ \A k \in Ids : jobs'[k] # None =>
              /\ jobs[k] # None
              /\ jobs'[k].timer = jobs[k].timer /\ jobs'[k].def = jobs[k].def
              /\ jobs'[k].nextScheduled \subseteq jobs[k].nextScheduled
              /\ k # id \/ p = PruneStaleScheduled(jobs[id])
                   => jobs'[k].runCount = jobs[k].runCount
<1>1. jobs[id] # None => jobs'[id] = p
  BY DEF TypeOK
<1>2. jobs[id] = None => jobs'[id] = None
  BY DEF TypeOK
<1>3. \A k \in Ids : k # id => jobs'[k] = jobs[k]
  BY DEF TypeOK
<1>4. ASSUME jobs[id] # None
      PROVE  /\ p.timer = jobs[id].timer /\ p.def = jobs[id].def
             /\ p.nextScheduled \subseteq jobs[id].nextScheduled
             /\ p = PruneStaleScheduled(jobs[id]) => p.runCount = jobs[id].runCount
  <2> DEFINE j == jobs[id]
             q == PruneStaleScheduled(j)
  <2>1. j \in JobType
    BY <1>4 DEF TypeOK
  <2>2. p.timer = j.timer /\ p.def = j.def
    BY <1>4, <2>1, PrunedJob
  <2>3. /\ q.nextScheduled \subseteq j.nextScheduled /\ q.runCount = j.runCount
        /\ q \in JobType
    BY <2>1, PruneType DEF PruneStaleScheduled, JobType
  <2> DEFINE counted == [q EXCEPT !.runCount = @ + 1]
  <2>4. Counted(j) \in {q, counted, [counted EXCEPT !.lastRun = now], [q EXCEPT !.lastRun = now]}
    BY DEF Counted
  <2> HIDE DEF q
  <2>5. counted \in JobType /\ counted.nextScheduled = q.nextScheduled
    BY <2>3 DEF JobType
  <2> HIDE DEF counted
  <2>6. \A c \in JobType : [c EXCEPT !.lastRun = now].nextScheduled = c.nextScheduled
    BY DEF JobType
  <2>7. Counted(j).nextScheduled \subseteq j.nextScheduled
    BY <2>3, <2>4, <2>5, <2>6
  <2>8. p = q \/ p = Counted(j)
    BY <1>4 DEF q
  <2>9. p.nextScheduled \subseteq j.nextScheduled
    BY <2>3, <2>7, <2>8
  <2>10. p = q => p.runCount = j.runCount
    BY <2>3
  <2> QED
    BY <2>2, <2>9, <2>10 DEF q
<1> QED
  BY <1>1, <1>2, <1>3, <1>4

(* A step that arms no timer, announces nothing and creates no job.        *)
KeepsTable ==
  /\ \A k \in Ids : jobs'[k] # None =>
       /\ jobs[k] # None /\ jobs'[k].timer = jobs[k].timer /\ jobs'[k].def = jobs[k].def
       /\ jobs'[k].nextScheduled \subseteq jobs[k].nextScheduled
  /\ \A x \in Timers : timer'[x] # None => timer'[x] = timer[x]

Sent(r) ==
  [After(r) EXCEPT ![r] = IF @ = None THEN None ELSE [@ EXCEPT !.shouldSendOut = FALSE]]

(* All steps but these keep the table.                                     *)
NewJobPrepared(id, d) == NewJob(id, d) /\ started /\ PrepareFirstRun(id, FreshJob(d))

NewJobStored(id, d) ==
  /\ NewJob(id, d) /\ ~started
  /\ jobs' = [jobs EXCEPT ![id] = FreshJob(d)]
  /\ UNCHANGED <<timer, run>>

SentOut(r) ==
  SendOutForRescheduling(r) /\ run[r].shouldSendOut /\ Reschedule(run[r].id, Sent(r))

LEMMA RemoveKeepsTable ==
  ASSUME TypeOK, NEW id \in Ids, NEW rn, Remove(id, rn)
  PROVE  KeepsTable
  BY DEF Remove, KeepsTable, Disarm, TypeOK

LEMMA NextTableStep ==
  ASSUME TableInv, [Next]_vars
  PROVE  \/ KeepsTable
         \/ \E id \in Ids, d \in Defs : NewJobPrepared(id, d) \/ NewJobStored(id, d)
         \/ \E id \in Ids : StartJob(id)
         \/ \E r \in Runs : SentOut(r)
<1>1. TypeOK
  BY DEF TableInv
<1>2. ASSUME UNCHANGED <<jobs, timer>>
      PROVE  KeepsTable
  BY <1>2 DEF KeepsTable
<1>3. ASSUME NEW id \in Ids, RemoveJob(id) \/ RemoveLimited(id)
      PROVE  KeepsTable
  BY <1>1, <1>2, <1>3, RemoveKeepsTable DEF RemoveJob, RemoveLimited
<1>4. ASSUME NEW tagged \in SUBSET Ids, RemoveByTags(tagged)
      PROVE  KeepsTable
  BY <1>4 DEF RemoveByTags, KeepsTable
<1>5. ASSUME StopJobs
      PROVE  KeepsTable
  BY <1>5 DEF StopJobs, KeepsTable
<1>6. ASSUME NEW x \in Timers, TimerFires(x)
      PROVE  KeepsTable
  BY <1>6 DEF TimerFires, KeepsTable, Disarm
<1>7. ASSUME NEW r \in Runs, RunStep(r), ~SentOut(r)
      PROVE  KeepsTable
  <2>1. run[r] # None /\ run[r].id \in Ids
    BY <1>1, <1>7 DEF RunStep, Dispatch, GivesUp, Request, RunJob, SendOutForRescheduling,
       SendOutForNextRunUpdate, SendOutCompleted, SendOutSkipped, TaskReturns, SendTiming, At,
       TypeOK, RunType
  <2>2. CASE SendOutForNextRunUpdate(r) \/ SendOutSkipped(r) \/ SendOutCompleted(r)
    <3>1. PICK p : /\ p \in {PruneStaleScheduled(jobs[run[r].id]), Counted(jobs[run[r].id])}
                   /\ jobs' = [jobs EXCEPT ![run[r].id] = IF @ = None THEN None ELSE p]
                   /\ timer' = timer
      <4>1. CASE SendOutForNextRunUpdate(r) \/ SendOutSkipped(r)
        <5>1. /\ jobs' = [jobs EXCEPT ![run[r].id] =
                            IF @ = None THEN None ELSE PruneStaleScheduled(jobs[run[r].id])]
              /\ timer' = timer
          BY <4>1 DEF SendOutForNextRunUpdate, SendOutSkipped
        <5> QED
          BY <5>1
      <4>2. CASE SendOutCompleted(r)
        <5>1. /\ jobs' = [jobs EXCEPT ![run[r].id] =
                            IF @ = None THEN None ELSE Counted(jobs[run[r].id])]
              /\ timer' = timer
          BY <4>2 DEF SendOutCompleted
        <5> QED
          BY <5>1
      <4> QED
        BY <2>2, <4>1, <4>2
    <3>2. \A k \in Ids : jobs'[k] # None =>
            /\ jobs[k] # None /\ jobs'[k].timer = jobs[k].timer /\ jobs'[k].def = jobs[k].def
            /\ jobs'[k].nextScheduled \subseteq jobs[k].nextScheduled
      BY <1>1, <2>1, <3>1, ReportEffect
    <3> QED
      BY <3>1, <3>2 DEF KeepsTable
  <2>3. CASE SendOutForRescheduling(r)
    BY <1>2, <1>7, <2>3 DEF SendOutForRescheduling, SentOut, Sent
  <2> QED
    BY <1>2, <1>7, <2>2, <2>3 DEF RunStep, Dispatch, GivesUp, Request, RunJob, TaskReturns,
       SendTiming
<1>8. ASSUME ClientCall
      PROVE  \/ KeepsTable
             \/ \E id \in Ids, d \in Defs : NewJobPrepared(id, d) \/ NewJobStored(id, d)
  <2>1. ASSUME NEW id \in Ids, RunNow(id)
        PROVE  KeepsTable
    <3>1. UNCHANGED <<jobs, timer>>
      BY <2>1, Zenon DEF RunNow
    <3> QED
      BY <1>2, <3>1
  <2>2. ASSUME NEW id \in Ids, NEW d \in Defs, NewJob(id, d)
        PROVE  NewJobPrepared(id, d) \/ NewJobStored(id, d)
    BY <2>2 DEF NewJob, NewJobPrepared, NewJobStored
  <2>3. CASE Start
    BY <1>2, <2>3 DEF Start
  <2>4. CASE \E id \in Ids, d \in Defs : NewJob(id, d)
    BY <2>2, <2>4
  <2>5. CASE ~\E id \in Ids, d \in Defs : NewJob(id, d)
    BY <1>3, <1>4, <1>5, <1>8, <2>1, <2>3, <2>5 DEF ClientCall
  <2> QED
    BY <2>4, <2>5
<1> QED
  BY <1>2, <1>3, <1>6, <1>7, <1>8 DEF Next, Tick, JobTimingUpdate, Stopped, vars

LEMMA NextApart ==
  ASSUME TableInv, TimersApart, [Next]_vars
  PROVE  TimersApart'
<1>1. TypeOK
  BY DEF TableInv
<1>2. CASE KeepsTable
  BY <1>2, ApartKept DEF KeepsTable
<1>3. ASSUME NEW id \in Ids, NEW j \in JobType, PrepareFirstRun(id, j),
             j.timer = None \/ (jobs[id] # None /\ j.timer = jobs[id].timer)
      PROVE  TimersApart'
  <2>1. PreparedAs(id, j) /\ \A k \in Ids : k # id => jobs'[k] = jobs[k]
    BY <1>1, <1>3, PrepareEffect
  <2>2. \A k \in Ids : jobs'[k] # None =>
           \/ jobs'[k].timer = None
           \/ (jobs[k] # None /\ jobs'[k].timer = jobs[k].timer)
           \/ (k = id /\ \A m \in Ids : jobs[m] # None => jobs[m].timer # jobs'[k].timer)
    <3>1. \A x \in FreeTimers : \A m \in Ids : jobs[m] # None => jobs[m].timer # x
      BY DEF FreeTimers, Registered
    <3>2. jobs'[id] # None =>
            \/ jobs'[id].timer = None
            \/ (jobs[id] # None /\ jobs'[id].timer = jobs[id].timer)
            \/ \A m \in Ids : jobs[m] # None => jobs[m].timer # jobs'[id].timer
      BY <1>3, <2>1, <3>1 DEF PreparedAs
    <3> QED
      BY <2>1, <3>2
  <2> QED
    BY <2>2, ApartKept
<1>4. ASSUME NEW id \in Ids, NEW d \in Defs, NewJobPrepared(id, d)
      PROVE  TimersApart'
  BY <1>3, <1>4, FreshJobType DEF NewJobPrepared, FreshJob
<1>5. ASSUME NEW id \in Ids, NEW d \in Defs, NewJobStored(id, d)
      PROVE  TimersApart'
  <2>1. jobs'[id].timer = None /\ \A k \in Ids : k # id => jobs'[k] = jobs[k]
    BY <1>1, <1>5 DEF NewJobStored, FreshJob, TypeOK
  <2>2. \A k \in Ids : jobs'[k] # None =>
           \/ jobs'[k].timer = None
           \/ (jobs[k] # None /\ jobs'[k].timer = jobs[k].timer)
    BY <2>1
  <2> QED
    BY <2>2, ApartKept
<1>6. ASSUME NEW id \in Ids, StartJob(id)
      PROVE  TimersApart'
  <2> DEFINE j == [jobs[id] EXCEPT !.nextScheduled = {}]
  <2>1. jobs[id] # None /\ j \in JobType /\ j.timer = jobs[id].timer
    BY <1>1, <1>6 DEF StartJob, TypeOK, JobType
  <2>2. PrepareFirstRun(id, j)
    BY <1>6 DEF StartJob
  <2> HIDE DEF j
  <2> QED
    BY <1>3, <2>1, <2>2
<1>7. ASSUME NEW r \in Runs, SentOut(r)
      PROVE  TimersApart'
  <2> DEFINE id == run[r].id
  <2>1. id \in Ids /\ Reschedule(id, Sent(r))
    BY <1>1, <1>7 DEF SentOut, SendOutForRescheduling, At, TypeOK, RunType
  <2> HIDE DEF id
  <2>2. CASE UNCHANGED <<jobs, timer>>
    BY <2>2 DEF TimersApart, Registered
  <2>3. CASE Remove(id, Sent(r))
    BY <1>1, <1>2, <2>1, <2>3, RemoveKeepsTable
  <2>4. CASE \E x \in Timers : /\ x \in FreeTimers /\ jobs'[id].timer = x
                               /\ \A k \in Ids : k # id => jobs'[k] = jobs[k]
    <3>1. \A m \in Ids : jobs[m] # None => jobs[m].timer # jobs'[id].timer
      BY <2>4 DEF FreeTimers, Registered
    <3>2. \A k \in Ids : jobs'[k] # None =>
           \/ jobs'[k].timer = None
           \/ (jobs[k] # None /\ jobs'[k].timer = jobs[k].timer)
           \/ (k = id /\ \A m \in Ids : jobs[m] # None => jobs[m].timer # jobs'[k].timer)
      BY <2>4, <3>1
    <3> QED
      BY <3>2, ApartKept
  <2> QED
    BY <1>1, <2>1, <2>2, <2>3, <2>4, RescheduleEffect
<1> QED
  BY <1>2, <1>4, <1>5, <1>6, <1>7, NextTableStep

-----------------------------------------------------------------------------
(* No step adds a second token.                                            *)

LEMMA ChainShrinks ==
  ASSUME NEW id \in Ids, ChainOf(id), added[id] <= 1, id \notin late,
         id \in starting' => id \in starting \/ \A r \in Runs : ~RunToken(r, id),
         \A r \in Runs : run'[r] # None /\ run'[r].id = id /\ Sends(run'[r]) => RunToken(r, id),
         \A x \in Timers : timer'[x] # None /\ timer'[x].id = id => TimerToken(x, id)
  PROVE  ChainOf(id)'
  BY DEF ChainOf, RunToken, TimerToken, Sends

(* The first run of a job, when it has no token yet.                       *)
LEMMA ChainPrepared ==
  ASSUME TypeOK, Shape, NEW id \in Ids, ChainOf(id), added[id] <= 1, id \notin late,
         NEW k \in Ids, NEW j \in JobType, PreparedAs(k, j),
         starting' \subseteq starting, k \notin starting',
         k = id => /\ \A r \in Runs : ~RunToken(r, id)
                   /\ \A x \in Timers : ~TimerToken(x, id)
  PROVE  ChainOf(id)'
<1>1. CASE timer' = Disarm(timer, j.timer) /\ run' = CancelRuns(run, k)
  <2>1. FollowedBy(run')
    BY <1>1, SameRuns, CancelledRuns DEF TypeOK
  <2>2. \A r \in Runs : run'[r] # None /\ run'[r].id = id /\ Sends(run'[r]) => RunToken(r, id)
    BY <2>1 DEF FollowedBy, Follows, RunToken
  <2>3. \A x \in Timers : timer'[x] # None /\ timer'[x].id = id => TimerToken(x, id)
    BY <1>1 DEF Disarm, TimerToken
  <2> QED
    BY <2>2, <2>3, ChainShrinks
<1>2. ASSUME timer' = timer,
             NEW r \in Runs, run[r] = None, run' = [run EXCEPT ![r] = Dispatched(k, TRUE)]
      PROVE  ChainOf(id)'
  <2>1. run'[r].id = k /\ \A q \in Runs : q # r => run'[q] = run[q]
    <3>1. run'[r] = Dispatched(k, TRUE) /\ \A q \in Runs : q # r => run'[q] = run[q]
      BY <1>2 DEF TypeOK
    <3> QED
      BY <3>1, ShapedDispatched
  <2>2. CASE k = id
    <3>1. \A q \in Runs : RunToken(q, id)' => q = r
      BY <2>1, <2>2 DEF RunToken, Sends
    <3>2. \A x \in Timers : ~TimerToken(x, id)'
      BY <1>2, <2>2 DEF TimerToken
    <3> QED
      BY <2>2, <3>1, <3>2 DEF ChainOf
  <2>3. CASE k # id
    <3>1. \A q \in Runs : run'[q] # None /\ run'[q].id = id /\ Sends(run'[q]) => RunToken(q, id)
      BY <2>1, <2>3 DEF RunToken
    <3>2. \A x \in Timers : timer'[x] # None /\ timer'[x].id = id => TimerToken(x, id)
      BY <1>2 DEF TimerToken
    <3> QED
      BY <3>1, <3>2, ChainShrinks
  <2> QED
    BY <2>2, <2>3
<1>3. ASSUME NEW x \in Timers, NEW t \in Instants,
             timer'[x] = [id |-> k, at |-> t],
             \A y \in Timers : y # x => timer'[y] = timer[y],
             run' = run
      PROVE  ChainOf(id)'
  <2>1. CASE k = id
    <3>1. \A q \in Runs : ~RunToken(q, id)'
      BY <1>3, <2>1 DEF RunToken, Sends
    <3> QED
      BY <3>1 DEF ChainOf
  <2>2. CASE k # id
    <3>1. \A q \in Runs : run'[q] # None /\ run'[q].id = id /\ Sends(run'[q]) => RunToken(q, id)
      BY <1>3 DEF RunToken
    <3>2. \A y \in Timers : timer'[y] # None /\ timer'[y].id = id => TimerToken(y, id)
      BY <1>3, <2>2 DEF TimerToken
    <3> QED
      BY <3>1, <3>2, ChainShrinks
  <2> QED
    BY <2>1, <2>2
<1> QED
  BY <1>1, <1>2, <1>3 DEF PreparedAs

(* The run that is sent out gives its token to the timer it arms.          *)
LEMMA ChainSentOut ==
  ASSUME TypeOK, Shape, NEW id \in Ids, ChainOf(id), added[id] <= 1, id \notin late,
         NEW r \in Runs, SentOut(r)
  PROVE  ChainOf(id)'
<1> DEFINE k == run[r].id
<1>1. /\ run[r] # None /\ run[r].todo[1] = "resched" /\ run[r] \in RunType /\ k \in Ids
      /\ At(r, "resched") /\ starting = {} /\ starting' = {}
      /\ run[r].shouldSendOut
  BY DEF SentOut, SendOutForRescheduling, At, TypeOK, RunType, Ready
<1>2. Sends(run[r])
  <2>1. run[r].todo \in Seq(Steps) /\ run[r].todo # <<>>
    BY <1>1 DEF RunType
  <2>2. 1 \in 1 .. Len(run[r].todo)
    BY <2>1, EmptySeq
  <2> QED
    BY <1>1, <2>2 DEF Sends
<1>3. /\ Sent(r) \in [Runs -> RunType \cup {None}]
      /\ FollowedBy(Sent(r))
      /\ Sent(r)[r] # None => ~Sends(Sent(r)[r])
  BY <1>1, SentFollows DEF Sent
<1>4. Reschedule(k, Sent(r))
  BY DEF SentOut
<1>5. /\ FollowedBy(run')
      /\ run'[r] # None => ~Sends(run'[r])
  BY <1>1, <1>3, <1>4, RescheduleFollows
<1>6. \A q \in Runs : run'[q] # None /\ run'[q].id = id /\ Sends(run'[q]) => RunToken(q, id)
  BY <1>5 DEF FollowedBy, Follows, RunToken
<1>7. CASE \A x \in Timers : timer'[x] # None => timer'[x] = timer[x]
  <2>1. \A x \in Timers : timer'[x] # None /\ timer'[x].id = id => TimerToken(x, id)
    BY <1>7 DEF TimerToken
  <2> QED
    BY <1>1, <1>6, <2>1, ChainShrinks
<1>8. ASSUME NEW x \in Timers, timer'[x].id = k,
             \A y \in Timers : y # x => timer'[y] = Disarm(timer, jobs[k].timer)[y]
      PROVE  ChainOf(id)'
  <2>1. CASE k = id
    <3>1. RunToken(r, id)
      BY <1>1, <1>2, <2>1 DEF RunToken
    <3>2. \A q \in Runs : RunToken(q, id) => q = r
      BY <3>1 DEF ChainOf
    <3>3. \A q \in Runs : ~(run'[q] # None /\ run'[q].id = id /\ Sends(run'[q]))
      BY <1>5, <1>6, <3>2
    <3>4. \A q \in Runs : ~RunToken(q, id)'
      BY <3>3 DEF RunToken, Sends
    <3> QED
      BY <3>4 DEF ChainOf
  <2>2. CASE k # id
    <3>1. \A y \in Timers : timer'[y] # None /\ timer'[y].id = id => TimerToken(y, id)
      BY <1>8, <2>2 DEF TimerToken, Disarm
    <3> QED
      BY <1>1, <1>6, <3>1, ChainShrinks
  <2> QED
    BY <2>1, <2>2
<1> HIDE DEF k
<1>9. \/ UNCHANGED <<jobs, timer>>
      \/ Remove(k, Sent(r))
      \/ \E x \in Timers : \E t \in Instants :
           /\ timer'[x] = [id |-> k, at |-> t]
           /\ \A y \in Timers : y # x => timer'[y] = Disarm(timer, jobs[k].timer)[y]
  BY <1>1, <1>4, RescheduleEffect
<1>10. CASE Remove(k, Sent(r))
  BY <1>7, <1>10 DEF Remove, Disarm
<1>11. CASE UNCHANGED <<jobs, timer>>
  BY <1>7, <1>11
<1>12. CASE \E x \in Timers : \E t \in Instants :
           /\ timer'[x] = [id |-> k, at |-> t]
           /\ \A y \in Timers : y # x => timer'[y] = Disarm(timer, jobs[k].timer)[y]
  BY <1>8, <1>12
<1> QED
  BY <1>9, <1>10, <1>11, <1>12

(* An expired timer gives its token to its callback.                       *)
LEMMA ChainFired ==
  ASSUME TableInv, Shape, NEW id \in Ids, ChainOf(id), added[id] <= 1, id \notin late,
         NEW x \in Timers, TimerFires(x)
  PROVE  ChainOf(id)'
<1> DEFINE k == timer[x].id
           p == [Dispatched(k, TRUE) EXCEPT !.todo = <<"send">>]
<1>1. TypeOK
  BY DEF TableInv
<1>2. k \in Ids /\ timer[x] # None /\ jobs[k].timer = x /\ k \notin starting
  BY DEF TimerFires, TableInv, TypeOK, TimerType, TimerOwned, Standstill
<1>3. PICK r \in Runs : run[r] = None /\ run' = [run EXCEPT ![r] = p]
  BY DEF TimerFires
<1>4. p.id = k
  BY <1>2, ShapedCallback
<1>5. starting' = starting /\ timer' = Disarm(timer, x)
  BY DEF TimerFires
<1> HIDE DEF p
<1>6. run'[r] = p /\ \A q \in Runs : q # r => run'[q] = run[q]
  BY <1>1, <1>3 DEF TypeOK
<1>7. CASE k = id
  <2>1. TimerToken(x, id)
    BY <1>2, <1>7 DEF TimerToken
  <2>2. \A q \in Runs : ~RunToken(q, id)
    BY <2>1 DEF ChainOf
  <2>3. \A q \in Runs : RunToken(q, id)' => q = r
    BY <1>6, <2>2 DEF RunToken, Sends
  <2>4. \A y \in Timers : ~TimerToken(y, id)'
    BY <1>2, <1>5, <1>7 DEF TimerToken, Disarm, TableInv, TimerOwned
  <2> QED
    BY <1>2, <1>5, <1>7, <2>3, <2>4 DEF ChainOf
<1>8. CASE k # id
  <2>1. \A q \in Runs : run'[q] # None /\ run'[q].id = id /\ Sends(run'[q]) => RunToken(q, id)
    BY <1>4, <1>6, <1>8 DEF RunToken
  <2>2. \A y \in Timers : timer'[y] # None /\ timer'[y].id = id => TimerToken(y, id)
    BY <1>5 DEF TimerToken, Disarm
  <2> QED
    BY <1>5, <2>1, <2>2, ChainShrinks
<1> QED
  BY <1>7, <1>8

LEMMA NextChain ==
  ASSUME ChainInv, [Next]_vars, NEW id \in Ids
  PROVE  ChainOf(id)'
<1>1. TypeOK /\ Standstill /\ TimerOwned /\ Shape /\ ChainOf(id)
  BY DEF ChainInv, TableInv, OneChain
<1>2. added[id] \in Nat /\ added'[id] \in Nat /\ added'[id] >= added[id]
  BY <1>1, NextAdded DEF ChainInv, TypeOK
<1>3. late \subseteq late'
  BY DEF Next, vars, ClientCall, NewJob, RemoveJob, RemoveByTags, RunNow, Start, StopJobs, Tick,
     StartJob, RemoveLimited, TimerFires, JobTimingUpdate, Stopped, RunStep, Dispatch, GivesUp,
     Request, RunJob, SendOutForRescheduling, SendOutForNextRunUpdate, SendOutCompleted,
     SendOutSkipped, TaskReturns, SendTiming
<1>4. SUFFICES ASSUME added'[id] <= 1, id \notin late'
               PROVE  ChainOf(id)'
  BY DEF ChainOf
<1>5. added[id] <= 1 /\ id \notin late
  BY <1>2, <1>3, <1>4
<1>6. ASSUME \A r \in Runs : run'[r] # None /\ run'[r].id = id /\ Sends(run'[r]) => RunToken(r, id),
             \A x \in Timers : timer'[x] # None => timer'[x] = timer[x],
             starting' = starting
      PROVE  ChainOf(id)'
  <2>1. \A x \in Timers : timer'[x] # None /\ timer'[x].id = id => TimerToken(x, id)
    BY <1>6 DEF TimerToken
  <2> QED
    BY <1>1, <1>5, <1>6, <2>1, ChainShrinks
<1>7. FollowedBy(run') => \A r \in Runs : run'[r] # None /\ run'[r].id = id /\ Sends(run'[r])
                                          => RunToken(r, id)
  BY DEF FollowedBy, Follows, RunToken
<1>8. FollowedBy(run)
  BY <1>1, SameRuns
<1>9. ASSUME NEW k \in Ids, NEW d \in Defs, NewJob(k, d)
      PROVE  ChainOf(id)'
  <2>1. starting = {} /\ starting' = {}
    BY <1>9 DEF NewJob, Ready
  <2>2. k = id => /\ \A r \in Runs : ~RunToken(r, id)
                  /\ \A x \in Timers : ~TimerToken(x, id)
    <3> SUFFICES ASSUME k = id
                 PROVE  /\ \A r \in Runs : ~RunToken(r, id)
                        /\ \A x \in Timers : ~TimerToken(x, id)
      OBVIOUS
    <3>1. added'[id] = added[id] + 1 /\ ~Registered(id)
      BY <1>1, <1>9 DEF NewJob, TypeOK
    <3>2. added[id] = 0
      BY <1>2, <1>4, <3>1
    <3> QED
      BY <1>1, <3>1, <3>2 DEF ChainInv, NotAdded, RunToken, TimerToken, TimerOwned
  <2>3. CASE PrepareFirstRun(k, FreshJob(d))
    <3>1. FreshJob(d) \in JobType
      BY FreshJobType
    <3>2. PreparedAs(k, FreshJob(d))
      BY <1>1, <2>3, <3>1, PrepareEffect
    <3> QED
      BY <1>1, <1>5, <2>1, <2>2, <3>1, <3>2, ChainPrepared
  <2>4. CASE UNCHANGED <<timer, run>>
    BY <1>6, <1>7, <1>8, <2>1, <2>4
  <2> QED
    BY <1>9, <2>3, <2>4 DEF NewJob
<1>10. ASSUME NEW k \in Ids, StartJob(k)
       PROVE  ChainOf(id)'
  <2> DEFINE j == [jobs[k] EXCEPT !.nextScheduled = {}]
  <2>1. j \in JobType
    BY <1>1, <1>10 DEF StartJob, TypeOK, JobType
  <2>2. k \in starting /\ starting' = starting \ {k} /\ PrepareFirstRun(k, j)
    BY <1>10 DEF StartJob
  <2>3. k = id => /\ \A r \in Runs : ~RunToken(r, id)
                  /\ \A x \in Timers : ~TimerToken(x, id)
    BY <1>1, <1>5, <2>2 DEF ChainOf, TimerToken, Standstill
  <2> HIDE DEF j
  <2>4. PreparedAs(k, j)
    BY <1>1, <2>1, <2>2, PrepareEffect
  <2> QED
    BY <1>1, <1>5, <2>1, <2>2, <2>3, <2>4, ChainPrepared
<1>11. CASE Start
  <2>1. ~started /\ UNCHANGED <<timer, run>>
    BY <1>11 DEF Start
  <2>2. \A r \in Runs : ~RunToken(r, id)
    BY <1>1, <1>5, <2>1 DEF ChainInv, LateSends, Standstill, RunToken
  <2>3. \A x \in Timers : timer'[x] # None /\ timer'[x].id = id => TimerToken(x, id)
    BY <2>1 DEF TimerToken
  <2>4. \A r \in Runs : run'[r] # None /\ run'[r].id = id /\ Sends(run'[r]) => RunToken(r, id)
    BY <2>1 DEF RunToken
  <2> QED
    BY <1>1, <1>5, <2>2, <2>3, <2>4, ChainShrinks
<1>12. ASSUME NEW k \in Ids, RunNow(k)
       PROVE  ChainOf(id)'
  <2>1. PICK r \in Runs : run[r] = None /\ run' = [run EXCEPT ![r] = Dispatched(k, FALSE)]
    BY <1>12 DEF RunNow
  <2>2. timer' = timer /\ starting' = starting
    BY <1>12, Zenon DEF RunNow
  <2>3. run'[r] = Dispatched(k, FALSE) /\ \A q \in Runs : q # r => run'[q] = run[q]
    BY <1>1, <2>1 DEF TypeOK
  <2>4. ~Sends(run'[r])
    BY <2>3, ShapedDispatched
  <2>5. \A q \in Runs : run'[q] # None /\ run'[q].id = id /\ Sends(run'[q]) => RunToken(q, id)
    BY <2>3, <2>4 DEF RunToken
  <2> QED
    BY <1>6, <2>2, <2>5
<1>13. ASSUME NEW r \in Runs, Dispatch(r)
       PROVE  ChainOf(id)'
  <2>1. /\ run[r] # None /\ run[r].todo[1] = "send" /\ run[r].id \in Ids
        /\ run' = [run EXCEPT ![r] = Dispatched(run[r].id, TRUE)]
        /\ timer' = timer /\ starting' = starting
    BY <1>1, <1>13 DEF Dispatch, At, TypeOK, RunType
  <2>2. Sends(run[r])
    BY <1>1, <2>1 DEF Shape, Shaped, Sends
  <2>3. run'[r].id = run[r].id /\ \A q \in Runs : q # r => run'[q] = run[q]
    <3>1. run'[r] = Dispatched(run[r].id, TRUE) /\ \A q \in Runs : q # r => run'[q] = run[q]
      BY <1>1, <2>1 DEF TypeOK
    <3>2. Dispatched(run[r].id, TRUE).id = run[r].id
      BY DEF Dispatched
    <3> QED
      BY <3>1, <3>2
  <2>4. \A q \in Runs : run'[q] # None /\ run'[q].id = id /\ Sends(run'[q]) => RunToken(q, id)
    BY <2>1, <2>2, <2>3 DEF RunToken
  <2> QED
    BY <1>6, <2>1, <2>4
<1>14. ASSUME NEW r \in Runs, Request(r)
       PROVE  ChainOf(id)'
  <2>1. \A q \in Runs : run'[q] # None /\ run'[q].id = id /\ Sends(run'[q]) => RunToken(q, id)
    BY <1>1, <1>14, RequestRuns DEF RunToken
  <2> QED
    BY <1>6, <1>14, <2>1 DEF Request
<1>15. ASSUME NEW r \in Runs, RunStep(r)
       PROVE  ChainOf(id)'
  <2>1. CASE SentOut(r)
    BY <1>1, <1>5, <2>1, ChainSentOut
  <2>2. CASE ~SentOut(r) /\ ~Dispatch(r) /\ ~Request(r)
    <3>1. FollowedBy(run')
      BY <1>1, <1>15, <2>2, RunStepFollows
    <3>2. timer' = timer /\ starting' = starting
      BY <1>15, <2>2 DEF RunStep, SentOut, Sent, GivesUp, RunJob, SendOutForRescheduling,
         SendOutForNextRunUpdate, SendOutCompleted, SendOutSkipped, TaskReturns, SendTiming
    <3> QED
      BY <1>6, <1>7, <3>1, <3>2
  <2> QED
    BY <1>13, <1>14, <2>1, <2>2
<1>16. ASSUME NEW x \in Timers, TimerFires(x)
       PROVE  ChainOf(id)'
  BY <1>1, <1>5, <1>16, ChainFired DEF ChainInv
<1>17. ASSUME NEW k \in Ids, RemoveJob(k) \/ RemoveLimited(k)
       PROVE  ChainOf(id)'
  <2>1. starting' = starting /\ (Remove(k, run) \/ UNCHANGED <<timer, run>>)
    BY <1>17 DEF RemoveJob, RemoveLimited
  <2>2. FollowedBy(run')
    BY <1>1, <1>8, <2>1, CancelledRuns DEF Remove, TypeOK
  <2>3. \A x \in Timers : timer'[x] # None => timer'[x] = timer[x]
    BY <2>1 DEF Remove, Disarm
  <2> QED
    BY <1>6, <1>7, <2>1, <2>2, <2>3
<1>18. ASSUME (\E tagged \in SUBSET Ids : RemoveByTags(tagged)) \/ StopJobs
       PROVE  ChainOf(id)'
  <2>1. \A r \in Runs : \/ run'[r] = run[r]
                        \/ /\ run[r] # None /\ run[r].def # None
                           /\ run'[r] = [run[r] EXCEPT !.live = FALSE]
    BY <1>18 DEF RemoveByTags, StopJobs
  <2>2. FollowedBy(run')
    BY <1>1, <2>1, FollowsItself, FollowsCancelled DEF FollowedBy, Shape, TypeOK
  <2>3. starting' = starting /\ \A x \in Timers : timer'[x] # None => timer'[x] = timer[x]
    BY <1>18 DEF RemoveByTags, StopJobs
  <2> QED
    BY <1>6, <1>7, <2>2, <2>3
<1>19. CASE Tick \/ JobTimingUpdate \/ Stopped \/ UNCHANGED vars
  <2>1. UNCHANGED <<run, timer, starting>>
    BY <1>19 DEF Tick, JobTimingUpdate, Stopped, vars
  <2> QED
    BY <1>6, <1>7, <1>8, <2>1
<1>20. CASE ClientCall
  BY <1>9, <1>11, <1>12, <1>17, <1>18, <1>20 DEF ClientCall
<1> QED
  BY <1>10, <1>15, <1>16, <1>17, <1>19, <1>20 DEF Next

LEMMA InitChain == Init => ChainInv
<1> SUFFICES ASSUME Init PROVE ChainInv
  OBVIOUS
<1>1. TableInv
  BY InitTable
<1>2. Shape /\ NotAdded /\ LateSends /\ TimersApart
  BY DEF Init, Shape, NotAdded, LateSends, At, TimersApart, Registered
<1>3. OneChain
  BY DEF Init, OneChain, ChainOf, RunToken
<1> QED
  BY <1>1, <1>2, <1>3 DEF ChainInv

LEMMA ChainKept ==
  ASSUME ChainInv, [Next]_vars
  PROVE  ChainInv'
<1>1. OneChain'
  BY NextChain DEF OneChain
<1> QED
  BY <1>1, NextTable, NextShape, NextNotAdded, NextLateSends, NextApart DEF ChainInv

(* At most one timer or run has the right to reschedule a job that was     *)
(* never replaced and left no callback behind at a stop.                   *)
THEOREM ScheduledOnce == Spec => []OneToken
<1>1. ChainInv => OneToken
  <2> SUFFICES ASSUME ChainInv, NEW id \in Ids, added[id] <= 1, id \notin late
               PROVE  Cardinality(Tokens(id)) <= 1
    BY DEF OneToken
  <2>1. TypeOK /\ TimerOwned /\ ChainOf(id)
    BY DEF ChainInv, TableInv, OneChain
  <2>2. \A r \in Runs : WillSendOut(r) /\ run[r].id = id => RunToken(r, id)
    BY <2>1 DEF WillSendOut, RunToken, Sends, At, TypeOK, RunType
  <2>3. \A x, y \in Tokens(id) : x = y
    BY <2>1, <2>2 DEF Tokens, ChainOf, TimerToken, TimerOwned
  <2>4. CASE Tokens(id) = {}
    BY <2>4, FS_EmptySet
  <2>5. CASE Tokens(id) # {}
    <3>1. PICK x : Tokens(id) = {x}
      BY <2>3, <2>5
    <3> QED
      BY <3>1, FS_Singleton
  <2> QED
    BY <2>4, <2>5
<1> QED
  BY InitChain, ChainKept, <1>1, PTL DEF Spec

-----------------------------------------------------------------------------
(* What is announced will fire.                                            *)

Settled(id) ==
  /\ Registered(id) /\ added[id] = 1 /\ id \notin late
  /\ started /\ ~stopping /\ id \notin starting

ForetoldInv == ChainInv /\ NextRunWillFire

(* A step that announces nothing for id and leaves its timer armed.        *)
LEMMA ForetoldKept ==
  ASSUME ForetoldInv, NEW id \in Ids, Settled(id), now' \in Nat, now' >= now,
         jobs'[id].nextScheduled \subseteq jobs[id].nextScheduled,
         \A x \in Timers : (timer[x] # None /\ timer[x].id = id /\ jobs[id].timer = x
                            /\ timer[x].at > now')
                           => timer'[x] = timer[x]
  PROVE  Announced(id)'
<1> SUFFICES ASSUME NEW t \in jobs'[id].nextScheduled, t > now'
             PROVE  \E x \in Timers : timer'[x] = [id |-> id, at |-> t]
  BY DEF Announced
<1>1. TypeOK /\ TimerOwned /\ Announced(id)
  BY DEF ForetoldInv, ChainInv, TableInv, NextRunWillFire, Settled
<1>2. t \in jobs[id].nextScheduled /\ t \in Nat /\ now \in Nat
  BY <1>1 DEF TypeOK, JobType, Settled, Registered, Instants, Times
<1>3. t > now
  BY <1>2
<1>4. PICK x \in Timers : timer[x] = [id |-> id, at |-> t]
  BY <1>1, <1>2, <1>3 DEF Announced
<1>5. timer[x] # None /\ timer[x].id = id /\ timer[x].at = t
  <2>1. [id |-> id, at |-> t] \in TimerType
    BY <1>1, <1>2 DEF TypeOK, JobType, Settled, Registered, TimerType
  <2> QED
    BY <1>4, <2>1, NoneAssumption
<1>6. jobs[id].timer = x
  BY <1>1, <1>5 DEF TimerOwned
<1> QED
  BY <1>4, <1>5, <1>6

(* Disarming another job's timer leaves the timer of id alone.             *)
LEMMA OtherDisarmed ==
  ASSUME TimersApart, NEW id \in Ids, NEW k \in Ids, id # k, Registered(id),
         NEW y, y = None \/ (Registered(k) /\ y = jobs[k].timer),
         NEW x \in Timers, jobs[id].timer = x
  PROVE  Disarm(timer, y)[x] = timer[x]
<1>1. x # None
  BY NoneAssumption
<1>2. x # y
  BY <1>1 DEF TimersApart
<1> QED
  BY <1>2 DEF Disarm

LEMMA ForetoldRemoved ==
  ASSUME ForetoldInv, NEW id \in Ids, Settled(id), Registered(id)', now' = now,
         NEW k \in Ids, NEW rn, Registered(k), Remove(k, rn)
  PROVE  Announced(id)'
<1>1. TypeOK /\ TimersApart
  BY DEF ForetoldInv, ChainInv, TableInv
<1>2. k # id /\ jobs'[id] = jobs[id] /\ timer' = Disarm(timer, jobs[k].timer)
  BY <1>1 DEF Remove, Registered, TypeOK
<1>3. now' \in Nat /\ now' >= now
  BY <1>1 DEF TypeOK, Instants, Times
<1>4. \A x \in Timers : jobs[id].timer = x => timer'[x] = timer[x]
  BY <1>1, <1>2, OtherDisarmed DEF Settled
<1> QED
  BY <1>2, <1>3, <1>4, ForetoldKept

(* A first run is announced when it is armed, and nothing else is.         *)
LEMMA ForetoldPrepared ==
  ASSUME ForetoldInv, NEW id \in Ids, Registered(id)', now' = now,
         NEW k \in Ids, NEW j \in JobType, PreparedAs(k, j),
         \A m \in Ids : m # k => jobs'[m] = jobs[m],
         j.nextScheduled = {},
         j.timer = None \/ (Registered(k) /\ j.timer = jobs[k].timer),
         id # k => Settled(id)
  PROVE  Announced(id)'
<1>1. TypeOK /\ TimersApart
  BY DEF ForetoldInv, ChainInv, TableInv
<1>2. now \in Nat /\ now' \in Nat /\ now' >= now
  BY <1>1 DEF TypeOK, Instants, Times
<1>3. CASE id = k
  <2>1. CASE jobs'[id].nextScheduled = j.nextScheduled \cup {now}
    BY <1>2, <2>1 DEF Announced
  <2>2. CASE \E x \in Timers, t \in Instants :
               /\ jobs'[id].nextScheduled = j.nextScheduled \cup {t}
               /\ timer'[x] = [id |-> id, at |-> t]
    BY <2>2 DEF Announced
  <2> QED
    BY <1>3, <2>1, <2>2 DEF PreparedAs, Registered
<1>4. CASE id # k
  <2>1. Settled(id) /\ Registered(id) /\ jobs'[id] = jobs[id]
    BY <1>4 DEF Settled
  <2>2. \A x \in Timers : (timer[x] # None /\ jobs[id].timer = x) => timer'[x] = timer[x]
    <3>1. CASE timer' = Disarm(timer, j.timer)
      BY <1>1, <1>4, <2>1, <3>1, OtherDisarmed
    <3>2. CASE UNCHANGED timer
      BY <3>2
    <3>3. CASE \E x \in Timers : x \in FreeTimers /\ \A y \in Timers : y # x => timer'[y] = timer[y]
      BY <3>3 DEF FreeTimers
    <3> QED
      BY <3>1, <3>2, <3>3 DEF PreparedAs
  <2> QED
    BY <1>2, <2>1, <2>2, ForetoldKept
<1> QED
  BY <1>3, <1>4

(* When a run sends its job out, every run announced before is past: its   *)
(* timer would be a second token.                                          *)
LEMMA ForetoldSentOut ==
  ASSUME ForetoldInv, NEW id \in Ids, Settled(id), Registered(id)', now' = now,
         NEW r \in Runs, SentOut(r)
  PROVE  Announced(id)'
<1> DEFINE k == run[r].id
<1>1. TypeOK /\ TimerOwned /\ TimersApart /\ Shape /\ ChainOf(id) /\ Announced(id)
  BY DEF ForetoldInv, ChainInv, TableInv, OneChain, NextRunWillFire, Settled
<1>2. /\ run[r] # None /\ run[r].todo[1] = "resched" /\ run[r] \in RunType /\ k \in Ids
      /\ run[r].shouldSendOut
  BY <1>1 DEF SentOut, SendOutForRescheduling, At, TypeOK, RunType
<1>3. Sends(run[r])
  <2>1. run[r].todo \in Seq(Steps) /\ run[r].todo # <<>>
    BY <1>2 DEF RunType
  <2>2. 1 \in 1 .. Len(run[r].todo)
    BY <2>1, EmptySeq
  <2> QED
    BY <1>2, <2>2 DEF Sends
<1>4. Reschedule(k, Sent(r))
  BY DEF SentOut
<1>5. now \in Nat /\ now' \in Nat /\ now' >= now
  BY <1>1 DEF TypeOK, Instants, Times
<1>6. ASSUME k = id
      PROVE  \A t \in jobs[id].nextScheduled : ~(t > now)
  <2>1. RunToken(r, id)
    BY <1>2, <1>3, <1>6 DEF RunToken
  <2>2. \A x \in Timers : ~TimerToken(x, id)
    BY <1>1, <2>1 DEF ChainOf, Settled
  <2> SUFFICES ASSUME NEW t \in jobs[id].nextScheduled, t > now PROVE FALSE
    OBVIOUS
  <2>3. PICK x \in Timers : timer[x] = [id |-> id, at |-> t]
    BY <1>1 DEF Announced
  <2>4. t \in Instants
    BY <1>1 DEF TypeOK, JobType, Settled, Registered
  <2>5. [id |-> id, at |-> t] \in TimerType
    BY <2>4 DEF TimerType
  <2> QED
    BY <2>2, <2>3, <2>5, NoneAssumption DEF TimerToken
<1> HIDE DEF k
<1>7. CASE UNCHANGED <<jobs, timer>>
  BY <1>5, <1>7, ForetoldKept
<1>8. CASE Registered(k) /\ Remove(k, Sent(r))
  BY <1>2, <1>8, ForetoldRemoved
<1>9. ASSUME jobs[k] # None,
             NEW x \in Timers, NEW t \in Instants,
             x \in FreeTimers,
             jobs'[k].nextScheduled = jobs[k].nextScheduled \cup {t},
             \A m \in Ids : m # k => jobs'[m] = jobs[m],
             timer'[x] = [id |-> k, at |-> t],
             \A y \in Timers : y # x => timer'[y] = Disarm(timer, jobs[k].timer)[y]
      PROVE  Announced(id)'
  <2>1. CASE k = id
    <3>1. \A u \in jobs'[id].nextScheduled : u > now' => u = t
      BY <1>6, <1>9, <2>1
    <3> QED
      BY <1>9, <2>1, <3>1 DEF Announced
  <2>2. CASE k # id
    <3>1. jobs'[id] = jobs[id] /\ Registered(id) /\ Registered(k)
      BY <1>9, <2>2 DEF Settled, Registered
    <3>2. ASSUME NEW y \in Timers, timer[y] # None, jobs[id].timer = y
          PROVE  timer'[y] = timer[y]
      <4>1. y # x
        BY <1>9, <3>2 DEF FreeTimers
      <4>2. Disarm(timer, jobs[k].timer)[y] = timer[y]
        BY <1>1, <1>2, <2>2, <3>1, <3>2, OtherDisarmed
      <4> QED
        BY <1>9, <4>1, <4>2
    <3> QED
      BY <1>5, <3>1, <3>2, ForetoldKept
  <2> QED
    BY <2>1, <2>2
<1>10. Remove(k, Sent(r)) => Registered(k) \/ UNCHANGED <<jobs, timer>>
  BY <1>4 DEF Reschedule
<1>11. \/ UNCHANGED <<jobs, timer>>
       \/ Remove(k, Sent(r))
       \/ /\ jobs[k] # None
          /\ \E x \in Timers, t \in Instants :
               /\ x \in FreeTimers
               /\ jobs'[k].nextScheduled = jobs[k].nextScheduled \cup {t}
               /\ \A m \in Ids : m # k => jobs'[m] = jobs[m]
               /\ timer'[x] = [id |-> k, at |-> t]
               /\ \A y \in Timers : y # x => timer'[y] = Disarm(timer, jobs[k].timer)[y]
  BY <1>1, <1>2, <1>4, RescheduleEffect
<1> QED
  BY <1>7, <1>8, <1>9, <1>10, <1>11

LEMMA NextForetold ==
  ASSUME ForetoldInv, [Next]_vars, NEW id \in Ids, Settled(id)'
  PROVE  Announced(id)'
<1>1. TypeOK /\ TimerOwned /\ TimersApart /\ Standstill
  BY DEF ForetoldInv, ChainInv, TableInv
<1>2. now \in Nat /\ now' = now => now' \in Nat /\ now' >= now
  OBVIOUS
<1>3. now \in Nat
  BY <1>1 DEF TypeOK, Instants, Times
<1>4. Registered(id)' /\ started' /\ ~stopping' /\ id \notin starting'
  BY DEF Settled
<1>5. ASSUME UNCHANGED <<lifecycle, added, late>>, Registered(id)
      PROVE  Settled(id)
  BY <1>5 DEF Settled
<1>6. ASSUME Settled(id), UNCHANGED <<jobs, timer>>, now' \in Nat, now' >= now
      PROVE  Announced(id)'
  BY <1>6, ForetoldKept
<1>7. ASSUME NEW k \in Ids, NEW d \in Defs, NewJobPrepared(k, d) \/ NewJobStored(k, d)
      PROVE  Announced(id)'
  <2>1. NewJob(k, d) /\ started
    BY <1>4, <1>7 DEF NewJobPrepared, NewJobStored, NewJob
  <2>2. PrepareFirstRun(k, FreshJob(d)) /\ now' = now
    BY <1>7, <2>1 DEF NewJobPrepared, NewJobStored, NewJob
  <2>3. FreshJob(d) \in JobType /\ FreshJob(d).nextScheduled = {} /\ FreshJob(d).timer = None
    BY FreshJobType DEF FreshJob
  <2>4. PreparedAs(k, FreshJob(d)) /\ \A m \in Ids : m # k => jobs'[m] = jobs[m]
    BY <1>1, <2>2, <2>3, PrepareEffect
  <2>5. id # k => Settled(id)
    BY <1>1, <2>1, <2>4 DEF NewJob, Settled, Registered, TypeOK
  <2> QED
    BY <1>4, <2>2, <2>3, <2>4, <2>5, ForetoldPrepared
<1>8. ASSUME NEW k \in Ids, StartJob(k)
      PROVE  Announced(id)'
  <2> DEFINE j == [jobs[k] EXCEPT !.nextScheduled = {}]
  <2>1. Registered(k)
    BY <1>1, <1>8 DEF StartJob, TypeOK, Registered
  <2>2. j \in JobType /\ j.nextScheduled = {} /\ j.timer = jobs[k].timer
    BY <1>1, <2>1 DEF TypeOK, JobType, Registered
  <2>3. PrepareFirstRun(k, j) /\ now' = now
    BY <1>8 DEF StartJob
  <2> HIDE DEF j
  <2>4. PreparedAs(k, j) /\ \A m \in Ids : m # k => jobs'[m] = jobs[m]
    BY <1>1, <2>2, <2>3, PrepareEffect
  <2>5. id # k => Settled(id)
    BY <1>8, <2>4 DEF StartJob, Settled, Registered
  <2> QED
    BY <1>4, <2>1, <2>2, <2>3, <2>4, <2>5, ForetoldPrepared
<1>9. ASSUME NEW r \in Runs, RunStep(r)
      PROVE  Announced(id)'
  <2>1. /\ UNCHANGED <<now, lifecycle, added, late>>
        /\ run[r] # None /\ run[r].id \in Ids
    BY <1>1, <1>9 DEF RunStep, Dispatch, GivesUp, Request, RunJob, SendOutForRescheduling,
       SendOutForNextRunUpdate, SendOutCompleted, SendOutSkipped, TaskReturns, SendTiming, At,
       TypeOK, RunType
  <2>2. added'[id] = 1 /\ added[id] = 1
    BY <2>1 DEF Settled
  <2>3. Registered(id) \/ UNCHANGED jobs => Settled(id)
    BY <1>5, <2>1 DEF Settled, Registered
  <2>4. CASE SentOut(r)
    <3>1. Registered(id)
      <4>1. Reschedule(run[r].id, Sent(r))
        BY <2>4 DEF SentOut
      <4>2. CASE UNCHANGED jobs
        BY <1>4, <4>2 DEF Registered
      <4>3. CASE Remove(run[r].id, Sent(r))
        BY <1>1, <1>4, <2>1, <4>3, RemoveKeepsTable DEF KeepsTable, Registered
      <4>4. CASE jobs[run[r].id] # None /\ \A m \in Ids : m # run[r].id => jobs'[m] = jobs[m]
        BY <1>4, <4>4 DEF Registered
      <4> QED
        BY <1>1, <2>1, <4>1, <4>2, <4>3, <4>4, RescheduleEffect
    <3> QED
      BY <1>4, <2>1, <2>3, <2>4, <3>1, ForetoldSentOut
  <2>5. CASE SendOutForNextRunUpdate(r) \/ SendOutSkipped(r) \/ SendOutCompleted(r)
    <3>1. PICK p : /\ p \in {PruneStaleScheduled(jobs[run[r].id]), Counted(jobs[run[r].id])}
                   /\ jobs' = [jobs EXCEPT ![run[r].id] = IF @ = None THEN None ELSE p]
                   /\ timer' = timer
      <4>1. CASE SendOutForNextRunUpdate(r) \/ SendOutSkipped(r)
        <5>1. /\ jobs' = [jobs EXCEPT ![run[r].id] =
                            IF @ = None THEN None ELSE PruneStaleScheduled(jobs[run[r].id])]
              /\ timer' = timer
          BY <4>1 DEF SendOutForNextRunUpdate, SendOutSkipped
        <5> QED
          BY <5>1
      <4>2. CASE SendOutCompleted(r)
        <5>1. /\ jobs' = [jobs EXCEPT ![run[r].id] =
                            IF @ = None THEN None ELSE Counted(jobs[run[r].id])]
              /\ timer' = timer
          BY <4>2 DEF SendOutCompleted
        <5> QED
          BY <5>1
      <4> QED
        BY <2>5, <4>1, <4>2
    <3>2. Registered(id) /\ jobs'[id].nextScheduled \subseteq jobs[id].nextScheduled
      BY <1>1, <1>4, <2>1, <3>1, ReportEffect DEF Registered
    <3> QED
      BY <1>2, <1>3, <2>1, <2>3, <3>1, <3>2, ForetoldKept
  <2>6. CASE UNCHANGED <<jobs, timer>>
    BY <1>2, <1>3, <1>6, <2>1, <2>3, <2>6
  <2> QED
    BY <1>9, <2>4, <2>5, <2>6 DEF RunStep, Dispatch, GivesUp, Request, RunJob, TaskReturns,
       SendTiming, SendOutForRescheduling, SentOut, Sent
<1>10. ASSUME NEW k \in Ids, RemoveJob(k) \/ RemoveLimited(k)
       PROVE  Announced(id)'
  <2>1. UNCHANGED <<now, lifecycle, added, late>>
    BY <1>10 DEF RemoveJob, RemoveLimited
  <2>2. (Registered(k) /\ Remove(k, run)) \/ UNCHANGED <<jobs, timer>>
    BY <1>10 DEF RemoveJob, RemoveLimited
  <2>3. CASE Registered(k) /\ Remove(k, run)
    <3>1. Registered(id)
      BY <1>1, <1>4, <2>3, RemoveKeepsTable DEF KeepsTable, Registered
    <3> QED
      BY <1>4, <1>5, <2>1, <2>3, <3>1, ForetoldRemoved
  <2>4. CASE UNCHANGED <<jobs, timer>>
    <3>1. Registered(id)
      BY <1>4, <2>4 DEF Registered
    <3> QED
      BY <1>2, <1>3, <1>5, <1>6, <2>1, <2>4, <3>1
  <2> QED
    BY <2>2, <2>3, <2>4
<1>11. ASSUME NEW tagged \in SUBSET Ids, RemoveByTags(tagged)
       PROVE  Announced(id)'
  <2>1. UNCHANGED <<now, lifecycle, added, late>>
    BY <1>11 DEF RemoveByTags
  <2>2. /\ id \notin tagged /\ jobs'[id] = jobs[id]
        /\ \A x \in Timers : (\A k \in tagged : jobs[k].timer # x) => timer'[x] = timer[x]
        /\ \A k \in tagged : Registered(k)
    BY <1>4, <1>11 DEF RemoveByTags, Registered
  <2>3. Settled(id) /\ Registered(id)
    BY <1>4, <1>5, <2>1, <2>2 DEF Registered
  <2>4. ASSUME NEW x \in Timers, jobs[id].timer = x
        PROVE  timer'[x] = timer[x]
    <3>1. \A k \in tagged : jobs[k].timer # x
      BY <1>1, <2>2, <2>3, <2>4, NoneAssumption DEF TimersApart
    <3> QED
      BY <2>2, <3>1
  <2> QED
    BY <1>2, <1>3, <2>1, <2>2, <2>3, <2>4, ForetoldKept
<1>12. ASSUME NEW y \in Timers, TimerFires(y)
       PROVE  Announced(id)'
  <2>1. UNCHANGED <<now, lifecycle, added, late, jobs>> /\ timer' = Disarm(timer, y)
        /\ timer[y].at <= now /\ timer[y] # None
    BY <1>12 DEF TimerFires
  <2>2. Settled(id)
    BY <1>4, <1>5, <2>1 DEF Registered
  <2>3. timer[y].at \in Nat
    BY <1>1, <2>1 DEF TypeOK, TimerType, Instants, Times
  <2>4. ~(timer[y].at > now)
    BY <1>3, <2>1, <2>3
  <2>5. \A x \in Timers : timer[x].at > now' => timer'[x] = timer[x]
    BY <2>1, <2>4 DEF Disarm
  <2> QED
    BY <1>2, <1>3, <2>1, <2>2, <2>5, ForetoldKept
<1>13. CASE Tick
  <2>1. UNCHANGED <<lifecycle, added, late, jobs, timer>> /\ now' = now + 1
    BY <1>13 DEF Tick
  <2>2. now' \in Nat /\ now' >= now
    BY <1>3, <2>1
  <2>3. Settled(id)
    BY <1>4, <1>5, <2>1 DEF Registered
  <2> QED
    BY <1>6, <2>1, <2>2, <2>3
<1>14. ASSUME UNCHANGED <<now, lifecycle, added, late, jobs, timer>>
       PROVE  Announced(id)'
  <2>1. Settled(id)
    BY <1>4, <1>5, <1>14 DEF Registered
  <2> QED
    BY <1>2, <1>3, <1>6, <1>14, <2>1
<1>15. ASSUME NEW k \in Ids, RunNow(k)
       PROVE  Announced(id)'
  <2>1. UNCHANGED <<now, lifecycle, added, late, jobs, timer>>
    BY <1>15, Zenon DEF RunNow
  <2> QED
    BY <1>14, <2>1
<1>16. CASE JobTimingUpdate \/ UNCHANGED vars
  BY <1>14, <1>16 DEF JobTimingUpdate, vars
<1>17. CASE Start
  BY <1>4, <1>17 DEF Start, Registered
<1>18. CASE StopJobs \/ Stopped
  BY <1>4, <1>18 DEF StopJobs, Stopped
<1>19. ASSUME NEW k \in Ids, NEW d \in Defs, NewJob(k, d)
       PROVE  Announced(id)'
  BY <1>7, <1>19 DEF NewJob, NewJobPrepared, NewJobStored
<1>20. CASE ClientCall
  BY <1>10, <1>11, <1>15, <1>17, <1>18, <1>19, <1>20 DEF ClientCall
<1> QED
  BY <1>8, <1>9, <1>10, <1>12, <1>13, <1>16, <1>18, <1>20 DEF Next

LEMMA InitForetold == Init => ForetoldInv
<1> SUFFICES ASSUME Init PROVE ForetoldInv
  OBVIOUS
<1>1. NextRunWillFire
  BY DEF Init, NextRunWillFire, Registered
<1> QED
  BY <1>1, InitChain DEF ForetoldInv

LEMMA ForetoldInvKept ==
  ASSUME ForetoldInv, [Next]_vars
  PROVE  ForetoldInv'
<1>1. ChainInv'
  BY ChainKept DEF ForetoldInv
<1>2. \A id \in Ids : Settled(id)' => Announced(id)'
  BY NextForetold
<1>3. NextRunWillFire'
  BY <1>2 DEF NextRunWillFire, Settled
<1> QED
  BY <1>1, <1>3 DEF ForetoldInv

(* What Job.NextRun reports will happen: every future run announced by a   *)
(* job that was not replaced has a timer armed for it.                     *)
THEOREM AnnouncedRunsWillFire == Spec => []NextRunWillFire
<1>1. ForetoldInv /\ [Next]_vars => ForetoldInv'
  BY ForetoldInvKept
<1>2. ForetoldInv => NextRunWillFire
  BY DEF ForetoldInv
<1> QED
  BY InitForetold, <1>1, <1>2, PTL DEF Spec

-----------------------------------------------------------------------------
(* A job that has used up its runs goes.                                   *)

(* A run's copy of a job that was never replaced has the job's definition. *)
SameDef ==
  \A r \in Runs :
    (/\ run[r] # None /\ run[r].def # None
     /\ Registered(run[r].id) /\ added[run[r].id] = 1)
    => run[r].def = jobs[run[r].id].def

StopCounted == stopping => stops > 0

GoesInv == ChainInv /\ SameDef /\ StopCounted /\ LimitedJobGoes

LEMMA NextStopCounted ==
  ASSUME TypeOK, StopCounted, [Next]_vars
  PROVE  /\ StopCounted'
         /\ stops' = 0 => stops = 0 /\ ~stopping /\ ~StopJobs
<1>1. stops \in Nat
  BY DEF TypeOK
<1>2. CASE StopJobs
  BY <1>1, <1>2 DEF StopJobs, StopCounted
<1>3. ASSUME ~StopJobs
      PROVE  stops' = stops /\ (stopping' => stopping)
  <2>1. ASSUME NEW id \in Ids, RemoveJob(id) \/ RunNow(id) \/ (\E d \in Defs : NewJob(id, d))
        PROVE  stops' = stops /\ stopping' = stopping
    <3>1. CASE RunNow(id)
      BY <3>1, Zenon DEF RunNow
    <3> QED
      BY <2>1, <3>1 DEF RemoveJob, NewJob
  <2>2. ASSUME NEW tagged \in SUBSET Ids, RemoveByTags(tagged)
        PROVE  stops' = stops /\ stopping' = stopping
    BY <2>2 DEF RemoveByTags
  <2>3. ASSUME NEW r \in Runs, RunStep(r)
        PROVE  stops' = stops /\ stopping' = stopping
    BY <2>3 DEF RunStep, Dispatch, GivesUp, Request, RunJob, SendOutForRescheduling,
       SendOutForNextRunUpdate, SendOutCompleted, SendOutSkipped, TaskReturns, SendTiming
  <2>4. CASE Start
    BY <2>4 DEF Start
  <2>5. CASE Tick \/ JobTimingUpdate \/ Stopped \/ UNCHANGED vars
    BY <2>5 DEF Tick, JobTimingUpdate, Stopped, vars
  <2>6. ASSUME NEW id \in Ids, StartJob(id) \/ RemoveLimited(id)
        PROVE  stops' = stops /\ stopping' = stopping
    BY <2>6 DEF StartJob, RemoveLimited
  <2>7. ASSUME NEW x \in Timers, TimerFires(x)
        PROVE  stops' = stops /\ stopping' = stopping
    BY <2>7 DEF TimerFires
  <2> QED
    BY <1>3, <2>1, <2>2, <2>3, <2>4, <2>5, <2>6, <2>7 DEF Next, ClientCall
<1>4. CASE ~StopJobs
  BY <1>1, <1>3, <1>4 DEF StopCounted
<1> QED
  BY <1>2, <1>4

(* A registered job keeps its definition until NewJob replaces it.         *)
LEMMA NextKeepsDef ==
  ASSUME TableInv, [Next]_vars, NEW id \in Ids, Registered(id)', added'[id] = added[id]
  PROVE  Registered(id) /\ jobs'[id].def = jobs[id].def
<1>1. TypeOK
  BY DEF TableInv
<1>2. jobs'[id] # None
  BY DEF Registered
<1>3. CASE KeepsTable
  BY <1>2, <1>3 DEF KeepsTable, Registered
<1>4. ASSUME NEW k \in Ids, NEW d \in Defs, NewJobPrepared(k, d) \/ NewJobStored(k, d)
      PROVE  Registered(id) /\ jobs'[id].def = jobs[id].def
  <2>1. k # id
    <3>1. added'[k] = added[k] + 1 /\ added[k] \in Nat
      BY <1>1, <1>4 DEF NewJobPrepared, NewJobStored, NewJob, TypeOK
    <3> QED
      BY <3>1
  <2>2. jobs'[id] = jobs[id]
    BY <1>1, <1>4, <2>1, FreshJobType, PrepareEffect DEF NewJobPrepared, NewJobStored, TypeOK
  <2> QED
    BY <1>2, <2>2 DEF Registered
<1>5. ASSUME NEW k \in Ids, StartJob(k)
      PROVE  Registered(id) /\ jobs'[id].def = jobs[id].def
  <2> DEFINE j == [jobs[k] EXCEPT !.nextScheduled = {}]
  <2>1. jobs[k] # None /\ j \in JobType /\ j.def = jobs[k].def
    BY <1>1, <1>5 DEF StartJob, TypeOK, JobType
  <2>2. PrepareFirstRun(k, j)
    BY <1>5 DEF StartJob
  <2> HIDE DEF j
  <2>3. PreparedAs(k, j) /\ \A m \in Ids : m # k => jobs'[m] = jobs[m]
    BY <1>1, <2>1, <2>2, PrepareEffect
  <2>4. CASE k = id
    <3>1. jobs'[k].def = j.def
      BY <1>2, <2>3, <2>4 DEF PreparedAs
    <3> QED
      BY <2>1, <2>4, <3>1 DEF Registered
  <2>5. CASE k # id
    BY <1>2, <2>3, <2>5 DEF Registered
  <2> QED
    BY <2>4, <2>5
<1>6. ASSUME NEW r \in Runs, SentOut(r)
      PROVE  Registered(id) /\ jobs'[id].def = jobs[id].def
  <2>1. run[r].id \in Ids /\ Reschedule(run[r].id, Sent(r))
    BY <1>1, <1>6 DEF SentOut, SendOutForRescheduling, At, TypeOK, RunType
  <2>2. CASE UNCHANGED jobs
    BY <1>2, <2>2 DEF Registered
  <2>3. CASE Remove(run[r].id, Sent(r))
    BY <1>1, <1>2, <2>1, <2>3, RemoveKeepsTable DEF KeepsTable, Registered
  <2>4. CASE /\ jobs[run[r].id] # None
             /\ jobs'[run[r].id].def = jobs[run[r].id].def
             /\ \A m \in Ids : m # run[r].id => jobs'[m] = jobs[m]
    BY <1>2, <2>4 DEF Registered
  <2> QED
    BY <1>1, <2>1, <2>2, <2>3, <2>4, RescheduleEffect
<1> QED
  BY <1>3, <1>4, <1>5, <1>6, NextTableStep

LEMMA NextSameDef ==
  ASSUME ChainInv, SameDef, [Next]_vars
  PROVE  SameDef'
<1>1. TableInv /\ Shape /\ TypeOK /\ TypeOK'
  BY NextTypes DEF ChainInv, TableInv
<1>2. SUFFICES ASSUME NEW r \in Runs, run'[r] # None, run'[r].def # None,
                      NEW id \in Ids, id = run'[r].id, Registered(id)', added'[id] = 1
               PROVE  run'[r].def = jobs'[id].def
  BY <1>1 DEF SameDef, TypeOK, RunType, Registered
<1>3. ASSUME run[r] # None, run[r].id = id, run[r].def = run'[r].def
      PROVE  run'[r].def = jobs'[id].def
  <2>1. added[id] # 0
    BY <1>3 DEF ChainInv, NotAdded
  <2>2. added[id] = 1
    <3>1. added[id] \in Nat /\ 1 >= added[id]
      BY <1>1, <1>2, NextAdded DEF TypeOK
    <3> QED
      BY <2>1, <3>1
  <2>3. Registered(id) /\ jobs'[id].def = jobs[id].def
    BY <1>1, <1>2, <2>2, NextKeepsDef
  <2> QED
    BY <1>2, <1>3, <2>2, <2>3 DEF SameDef
<1>4. CASE FollowedBy(run')
  BY <1>2, <1>3, <1>4 DEF FollowedBy, Follows
<1>5. ASSUME NEW q \in Runs, NEW p \in RunType, Begins(q, p)
      PROVE  run'[r].def = jobs'[id].def
  <2>1. CASE q = r
    <3>1. run'[r] = p
      BY <1>1, <1>5, <2>1 DEF Begins, TypeOK
    <3> QED
      BY <1>2, <1>5, <3>1 DEF Begins
  <2>2. CASE q # r
    <3>1. run'[r] = run[r]
      BY <1>1, <1>5, <2>2 DEF Begins, TypeOK
    <3> QED
      BY <1>2, <1>3, <3>1
  <2> QED
    BY <2>1, <2>2
<1> QED
  BY <1>1, <1>4, <1>5, NextRunsFollow DEF SomeRunBegins

(* A task of id is still to report its timing, among the goroutines rn.    *)
OnItsWay(rn, id) ==
  \E r \in Runs : /\ rn[r] # None /\ rn[r].id = id
                  /\ \E i \in 1 .. Len(rn[r].todo) : rn[r].todo[i] = "timing"

(* The antecedent of LimitedJobGoes.                                       *)
UsedUp(id) ==
  /\ Registered(id)
  /\ LimitReached(jobs[id])
  /\ ~Def[jobs[id].def].intervalFromCompletion
  /\ added[id] = 1 /\ stops = 0

LEMMA CancelledOnItsWay ==
  ASSUME NEW rn \in [Runs -> RunType \cup {None}], NEW id, NEW k, OnItsWay(rn, id)
  PROVE  OnItsWay(CancelRuns(rn, k), id)
<1>1. PICK r \in Runs : /\ rn[r] # None /\ rn[r].id = id
                        /\ \E i \in 1 .. Len(rn[r].todo) : rn[r].todo[i] = "timing"
  BY DEF OnItsWay
<1>2. /\ CancelRuns(rn, k)[r] # None
      /\ CancelRuns(rn, k)[r].id = rn[r].id /\ CancelRuns(rn, k)[r].todo = rn[r].todo
  <2>1. rn[r] \in RunType
    BY <1>1
  <2>2. [rn[r] EXCEPT !.live = FALSE] # None
    <3>1. [rn[r] EXCEPT !.live = FALSE] \in RunType
      BY <2>1 DEF RunType
    <3> QED
      BY <3>1, NoneAssumption
  <2>3. CancelRuns(rn, k)[r] \in {rn[r], [rn[r] EXCEPT !.live = FALSE]}
    BY DEF CancelRuns
  <2> QED
    BY <1>1, <2>1, <2>2, <2>3 DEF RunType
<1> QED
  BY <1>1, <1>2 DEF OnItsWay

(* A step other than its last leaves the timing of a run ahead of it.      *)
LEMMA TailOnItsWay ==
  ASSUME TypeOK, NEW r \in Runs, run[r] # None,
         NEW m \in 2 .. Len(run[r].todo), run[r].todo[m] = "timing"
  PROVE  /\ Len(run[r].todo) # 1
         /\ After(r)[r] # None /\ After(r)[r].id = run[r].id
         /\ \E i \in 1 .. Len(After(r)[r].todo) : After(r)[r].todo[i] = "timing"
<1> DEFINE s == run[r].todo
<1>1. run[r] \in RunType /\ s \in Seq(Steps) /\ s # <<>>
  BY DEF TypeOK, RunType
<1>2. Len(s) \in Nat /\ m \in Nat /\ m >= 2 /\ m <= Len(s)
  BY <1>1, EmptySeq
<1>3. After(r) = [run EXCEPT ![r].todo = Tail(@)]
  BY <1>2 DEF After
<1>4. After(r)[r].todo = Tail(s) /\ After(r)[r].id = run[r].id
  BY <1>1, <1>3 DEF TypeOK, RunType
<1>5. After(r)[r] # None
  <2>1. After(r)[r] \in RunType
    <3>1. Tail(s) \in Seq(Steps) \ {<<>>}
      BY <1>1, <1>2, TailNotEmpty
    <3>2. After(r)[r] = [run[r] EXCEPT !.todo = Tail(@)]
      BY <1>3 DEF TypeOK
    <3> QED
      BY <1>1, <3>1, <3>2 DEF RunType
  <2> QED
    BY <2>1, NoneAssumption
<1>6. Len(Tail(s)) = Len(s) - 1 /\ \A i \in 1 .. Len(Tail(s)) : Tail(s)[i] = s[i + 1]
  BY <1>1, HeadTailProperties
<1> HIDE DEF s
<1>7. m - 1 \in 1 .. Len(Tail(s)) /\ (m - 1) + 1 = m
  BY <1>2, <1>6
<1>8. Tail(s)[m - 1] = "timing"
  BY <1>6, <1>7 DEF s
<1> QED
  BY <1>2, <1>4, <1>5, <1>7, <1>8 DEF s

LEMMA AfterOnItsWay ==
  ASSUME TypeOK, NEW r \in Runs, run[r] # None, run[r].todo[1] # "timing", NEW id,
         OnItsWay(run, id)
  PROVE  OnItsWay(After(r), id)
<1>1. PICK q \in Runs : /\ run[q] # None /\ run[q].id = id
                        /\ \E i \in 1 .. Len(run[q].todo) : run[q].todo[i] = "timing"
  BY DEF OnItsWay
<1>2. CASE q # r
  <2>1. After(r)[q] = run[q]
    BY <1>2 DEF After, Done, TypeOK
  <2> QED
    BY <1>1, <2>1 DEF OnItsWay
<1>3. CASE q = r
  <2>1. PICK i \in 1 .. Len(run[r].todo) : run[r].todo[i] = "timing"
    BY <1>1, <1>3
  <2>2. i # 1
    BY <2>1
  <2>3. i \in 2 .. Len(run[r].todo)
    <3>1. Len(run[r].todo) \in Nat
      BY EmptySeq DEF TypeOK, RunType
    <3> QED
      BY <2>1, <2>2, <3>1
  <2>4. After(r)[r] # None /\ After(r)[r].id = run[r].id
        /\ \E m \in 1 .. Len(After(r)[r].todo) : After(r)[r].todo[m] = "timing"
    BY <2>1, <2>3, TailOnItsWay
  <2> QED
    BY <1>1, <1>3, <2>4 DEF OnItsWay
<1> QED
  BY <1>2, <1>3

LEMMA SentOnItsWay ==
  ASSUME TypeOK, NEW r \in Runs, At(r, "resched"), NEW id, OnItsWay(run, id)
  PROVE  OnItsWay(Sent(r), id)
<1>1. run[r] # None /\ run[r].todo[1] = "resched"
  BY DEF At, TypeOK
<1>2. After(r) \in [Runs -> RunType \cup {None}]
  BY <1>1, AfterType DEF TypeOK
<1>3. PICK q \in Runs : /\ After(r)[q] # None /\ After(r)[q].id = id
                        /\ \E i \in 1 .. Len(After(r)[q].todo) : After(r)[q].todo[i] = "timing"
  BY <1>1, AfterOnItsWay DEF OnItsWay
<1>4. CASE q # r
  BY <1>2, <1>3, <1>4 DEF OnItsWay, Sent
<1>5. CASE q = r
  <2> DEFINE p == After(r)[r]
  <2>1. p \in RunType /\ p # None
    BY <1>2, <1>3, <1>5
  <2>2. Sent(r)[r] = [p EXCEPT !.shouldSendOut = FALSE]
    BY <1>2, <2>1 DEF Sent
  <2> HIDE DEF p
  <2>3. /\ Sent(r)[r].id = p.id /\ Sent(r)[r].todo = p.todo
        /\ Sent(r)[r] \in RunType
    BY <2>1, <2>2 DEF RunType
  <2>4. Sent(r)[r] # None
    BY <2>3, NoneAssumption
  <2> QED
    BY <1>3, <1>5, <2>3, <2>4 DEF OnItsWay, p
<1> QED
  BY <1>4, <1>5

(* One goroutine's record is written, and it was not to report a timing.   *)
LEMMA WrittenOnItsWay ==
  ASSUME TypeOK, NEW r \in Runs, NEW p, run' = [run EXCEPT ![r] = p], NEW id, OnItsWay(run, id),
         run[r] = None \/ \A i \in 1 .. Len(run[r].todo) : run[r].todo[i] # "timing"
  PROVE  OnItsWay(run', id)
<1>1. PICK q \in Runs : /\ run[q] # None /\ run[q].id = id
                        /\ \E i \in 1 .. Len(run[q].todo) : run[q].todo[i] = "timing"
  BY DEF OnItsWay
<1>2. q # r
  BY <1>1
<1>3. run'[q] = run[q]
  BY <1>2 DEF TypeOK
<1> QED
  BY <1>1, <1>3 DEF OnItsWay

(* A goroutine before its request, at its request or at the head of runJob *)
(* has nothing else to do yet.                                             *)
LEMMA StandsAlone ==
  ASSUME TypeOK, Shape, NEW r \in Runs, run[r] # None,
         run[r].todo[1] \in {"send", "request", "runJob"}
  PROVE  \A i \in 1 .. Len(run[r].todo) : run[r].todo[i] # "timing"
<1>1. run[r].todo \in Seq(Steps) /\ run[r].todo # <<>>
  BY DEF TypeOK, RunType
<1>2. Len(run[r].todo) = 1
  <2>1. 1 \in 1 .. Len(run[r].todo)
    BY <1>1, EmptySeq
  <2> QED
    BY <2>1 DEF Shape, Shaped
<1> QED
  BY <1>2

LEMMA PreparedOnItsWay ==
  ASSUME TypeOK, NEW k, NEW j, PreparedAs(k, j), NEW id, OnItsWay(run, id)
  PROVE  OnItsWay(run', id)
<1>1. CASE run' = CancelRuns(run, k)
  BY <1>1, CancelledOnItsWay DEF TypeOK
<1>2. CASE \E r \in Runs : run[r] = None /\ run' = [run EXCEPT ![r] = Dispatched(k, TRUE)]
  BY <1>2, WrittenOnItsWay
<1>3. CASE run' = run
  BY <1>3
<1> QED
  BY <1>1, <1>2, <1>3 DEF PreparedAs

(* The count of a job: what a step may do to it, and to the removal.       *)
LEMMA GoesKept ==
  ASSUME GoesInv, NEW id \in Ids, UsedUp(id),
         OnItsWay(run, id) => OnItsWay(run', id),
         timing' = timing, removing'[id] = removing[id]
  PROVE  RemovalOnTheWay(id)'
<1>1. RemovalOnTheWay(id)
  BY DEF GoesInv, LimitedJobGoes, UsedUp
<1>2. CASE OnItsWay(run', id)
  BY <1>2 DEF OnItsWay, RemovalOnTheWay
<1>3. CASE ~OnItsWay(run, id)
  BY <1>1, <1>3 DEF OnItsWay, RemovalOnTheWay
<1> QED
  BY <1>2, <1>3

(* The steps of a run.                                                     *)
LEMMA RunGoes ==
  ASSUME GoesInv, NEW id \in Ids, UsedUp(id)', NEW r \in Runs, RunStep(r),
         stops = 0, ~stopping
  PROVE  RemovalOnTheWay(id)'
<1>1. TableInv /\ TypeOK /\ Shape /\ SameDef
  BY DEF GoesInv, ChainInv, TableInv
<1>2. run[r] # None /\ run[r].id \in Ids
  BY <1>1 DEF RunStep, Dispatch, GivesUp, Request, RunJob, SendOutForRescheduling,
     SendOutForNextRunUpdate, SendOutCompleted, SendOutSkipped, TaskReturns, SendTiming, At,
     TypeOK, RunType
<1>3. added' = added /\ removing' = removing
  BY DEF RunStep, Dispatch, GivesUp, Request, RunJob, SendOutForRescheduling,
     SendOutForNextRunUpdate, SendOutCompleted, SendOutSkipped, TaskReturns, SendTiming
<1>4. added[id] = 1 /\ Registered(id)' /\ jobs'[id] # None
  BY <1>3 DEF UsedUp, Registered
<1>5. Registered(id) /\ jobs'[id].def = jobs[id].def
  <2>1. [Next]_vars
    BY DEF Next
  <2> QED
    BY <1>1, <1>3, <1>4, <2>1, NextKeepsDef
<1>6. ASSUME jobs'[id].runCount = jobs[id].runCount
      PROVE  UsedUp(id)
  BY <1>4, <1>5, <1>6 DEF UsedUp, LimitReached
<1>7. ASSUME jobs'[id].runCount = jobs[id].runCount,
             OnItsWay(run, id) => OnItsWay(run', id), timing' = timing
      PROVE  RemovalOnTheWay(id)'
  BY <1>3, <1>6, <1>7, GoesKept
<1>8. CASE Dispatch(r) \/ Request(r) \/ RunJob(r)
  <2>1. run[r].todo[1] \in {"send", "request", "runJob"}
    <3>1. At(r, "send") \/ At(r, "request") \/ At(r, "runJob")
      BY <1>8 DEF Dispatch, Request, RunJob
    <3> QED
      BY <1>1, <3>1 DEF At, TypeOK
  <2>2. \E p : run' = [run EXCEPT ![r] = p]
    <3>1. CASE Dispatch(r)
      BY <3>1 DEF Dispatch
    <3>2. CASE Request(r)
      BY <3>2 DEF Request, Done
    <3>3. CASE RunJob(r)
      <4>1. CASE run' = Done(r)
        BY <4>1 DEF Done
      <4>2. CASE \E outcome \in Outcomes :
                   run' = [run EXCEPT ![r].todo = Path(run[r].def, outcome)]
        <5>1. PICK outcome \in Outcomes :
                   run' = [run EXCEPT ![r].todo = Path(run[r].def, outcome)]
          BY <4>2
        <5>2. run' = [run EXCEPT ![r] = [run[r] EXCEPT !.todo = Path(run[r].def, outcome)]]
          BY <1>1, <5>1 DEF TypeOK
        <5> QED
          BY <5>2
      <4> QED
        BY <3>3, <4>1, <4>2 DEF RunJob
    <3> QED
      BY <1>8, <3>1, <3>2, <3>3
  <2>3. OnItsWay(run, id) => OnItsWay(run', id)
    BY <1>1, <1>2, <2>1, <2>2, StandsAlone, WrittenOnItsWay
  <2>4. jobs' = jobs /\ timing' = timing
    BY <1>8 DEF Dispatch, Request, RunJob
  <2> QED
    BY <1>7, <2>3, <2>4
<1>9. CASE SendOutForRescheduling(r)
  <2>1. At(r, "resched") /\ timing' = timing
    BY <1>9 DEF SendOutForRescheduling
  <2>2. OnItsWay(run, id) => OnItsWay(Sent(r), id)
    BY <1>1, <2>1, SentOnItsWay
  <2>3. Sent(r) \in [Runs -> RunType \cup {None}]
    BY <1>1, <2>1, SentFollows DEF Sent
  <2>4. CASE run' = Sent(r) /\ jobs' = jobs
    BY <1>7, <2>1, <2>2, <2>4
  <2>5. CASE Reschedule(run[r].id, Sent(r))
    <3>1. run' = Sent(r) \/ run' = CancelRuns(Sent(r), run[r].id)
      BY <2>5 DEF Reschedule, Remove, Arm
    <3>2. OnItsWay(run, id) => OnItsWay(run', id)
      BY <2>2, <2>3, <3>1, CancelledOnItsWay
    <3>3. jobs'[id].runCount = jobs[id].runCount
      <4>1. CASE UNCHANGED jobs
        BY <4>1
      <4>2. CASE Remove(run[r].id, Sent(r))
        BY <1>1, <1>4, <4>2 DEF Remove, TypeOK
      <4>3. CASE /\ jobs'[run[r].id].runCount = jobs[run[r].id].runCount
                 /\ \A m \in Ids : m # run[r].id => jobs'[m] = jobs[m]
        BY <4>3
      <4> QED
        BY <1>1, <1>2, <2>5, <4>1, <4>2, <4>3, RescheduleEffect
    <3> QED
      BY <1>7, <2>1, <3>2, <3>3
  <2> QED
    BY <1>9, <2>4, <2>5 DEF SendOutForRescheduling, Sent
<1>10. CASE SendOutForNextRunUpdate(r) \/ SendOutSkipped(r)
  <2>1. run[r].todo[1] # "timing" /\ run' = After(r) /\ timing' = timing
    BY <1>1, <1>10 DEF SendOutForNextRunUpdate, SendOutSkipped, At, TypeOK
  <2>2. OnItsWay(run, id) => OnItsWay(run', id)
    BY <1>1, <1>2, <2>1, AfterOnItsWay
  <2>3. jobs' = [jobs EXCEPT ![run[r].id] =
                   IF @ = None THEN None ELSE PruneStaleScheduled(jobs[run[r].id])]
    BY <1>10 DEF SendOutForNextRunUpdate, SendOutSkipped
  <2>4. jobs'[id].runCount = jobs[id].runCount
    <3>1. jobs[id] # None /\ jobs[id] \in JobType
      BY <1>1, <1>5 DEF TypeOK, Registered
    <3>2. PruneStaleScheduled(jobs[id]).runCount = jobs[id].runCount
      BY <3>1 DEF PruneStaleScheduled, JobType
    <3>3. CASE run[r].id = id
      <4>1. jobs'[id] = PruneStaleScheduled(jobs[id])
        BY <1>1, <2>3, <3>1, <3>3 DEF TypeOK
      <4> QED
        BY <3>2, <4>1
    <3>4. CASE run[r].id # id
      BY <1>1, <2>3, <3>4 DEF TypeOK
    <3> QED
      BY <3>3, <3>4
  <2> QED
    BY <1>7, <2>1, <2>2, <2>4
<1>11. CASE TaskReturns(r)
  <2>1. run[r].todo[1] # "timing" /\ run' = After(r) /\ timing' = timing /\ jobs' = jobs
    BY <1>1, <1>11 DEF TaskReturns, At, TypeOK
  <2>2. OnItsWay(run, id) => OnItsWay(run', id)
    BY <1>1, <1>2, <2>1, AfterOnItsWay
  <2> QED
    BY <1>7, <2>1, <2>2
<1>12. CASE SendTiming(r)
  <2>1. /\ run[r].todo[1] = "timing" /\ run' = After(r) /\ jobs' = jobs
        /\ timing' = Append(timing, run[r].id) /\ timing \in Seq(Ids)
    BY <1>1, <1>12 DEF SendTiming, At, TypeOK
  <2>2. RemovalOnTheWay(id)
    BY <1>6, <2>1 DEF GoesInv, LimitedJobGoes, UsedUp
  <2>3. /\ Len(timing) \in Nat /\ Len(timing') = Len(timing) + 1
        /\ \A i \in 1 .. Len(timing) : timing'[i] = timing[i]
        /\ timing'[Len(timing) + 1] = run[r].id
    BY <1>2, <2>1
  <2>4. CASE run[r].id = id
    <3>1. Len(timing) + 1 \in 1 .. Len(timing')
      BY <2>3
    <3> QED
      BY <2>3, <2>4, <3>1 DEF RemovalOnTheWay
  <2>5. CASE run[r].id # id
    <3>1. CASE \E i \in 1 .. Len(timing) : timing[i] = id
      <4>1. PICK i \in 1 .. Len(timing) : timing[i] = id
        BY <3>1
      <4>2. i \in 1 .. Len(timing')
        BY <2>3
      <4> QED
        BY <2>3, <4>1, <4>2 DEF RemovalOnTheWay
    <3>2. CASE removing[id] > 0
      BY <1>3, <3>2 DEF RemovalOnTheWay
    <3>3. CASE OnItsWay(run, id)
      <4>1. PICK q \in Runs : /\ run[q] # None /\ run[q].id = id
                              /\ \E i \in 1 .. Len(run[q].todo) : run[q].todo[i] = "timing"
        BY <3>3 DEF OnItsWay
      <4>2. run'[q] = run[q]
        BY <1>1, <1>2, <2>1, <2>5, <4>1, AfterFollows
      <4> QED
        BY <4>1, <4>2 DEF RemovalOnTheWay
    <3> QED
      BY <2>2, <3>1, <3>2, <3>3 DEF RemovalOnTheWay, OnItsWay
  <2> QED
    BY <2>4, <2>5
<1>13. CASE SendOutCompleted(r)
  <2>1. run[r].todo[1] = "completed" /\ run' = After(r) /\ timing' = timing
    BY <1>1, <1>13 DEF SendOutCompleted, At, TypeOK
  <2>2. jobs' = [jobs EXCEPT ![run[r].id] =
                   IF @ = None THEN None ELSE Counted(jobs[run[r].id])]
    BY <1>13 DEF SendOutCompleted
  <2>3. CASE run[r].id # id
    <3>1. jobs'[id] = jobs[id]
      BY <1>1, <1>2, <2>2, <2>3 DEF TypeOK
    <3>2. OnItsWay(run, id) => OnItsWay(run', id)
      BY <1>1, <1>2, <2>1, AfterOnItsWay
    <3> QED
      BY <1>7, <2>1, <3>1, <3>2
  <2>4. CASE run[r].id = id
    <3>1. run[r].todo \in Seq(Steps) /\ run[r].todo # <<>>
      BY <1>1, <1>2 DEF TypeOK, RunType
    <3>2. 1 \in 1 .. Len(run[r].todo)
      BY <3>1, EmptySeq
    <3>3. run[r].def # None
      BY <1>1, <1>2, <2>1 DEF Shape, Shaped
    <3>4. run[r].def = jobs[id].def
      BY <1>1, <1>2, <1>4, <1>5, <2>4, <3>3 DEF SameDef
    <3>5. ~Def[run[r].def].intervalFromCompletion
      BY <1>5, <3>4 DEF UsedUp
    <3>6. PICK m \in 1 + 1 .. Len(run[r].todo) : run[r].todo[m] = "timing"
      BY <1>1, <1>2, <2>1, <3>2, <3>5 DEF Shape, Shaped
    <3>7. m \in 2 .. Len(run[r].todo)
      BY <3>6
    <3>8. /\ After(r)[r] # None /\ After(r)[r].id = id
          /\ \E i \in 1 .. Len(After(r)[r].todo) : After(r)[r].todo[i] = "timing"
      BY <1>1, <1>2, <2>4, <3>6, <3>7, TailOnItsWay
    <3> QED
      BY <2>1, <3>8 DEF RemovalOnTheWay
  <2> QED
    BY <2>3, <2>4
<1> QED
  BY <1>8, <1>9, <1>10, <1>11, <1>12, <1>13 DEF RunStep, GivesUp

LEMMA NextGoes ==
  ASSUME GoesInv, [Next]_vars, NEW id \in Ids, UsedUp(id)'
  PROVE  RemovalOnTheWay(id)'
<1>1. TableInv /\ TypeOK /\ Shape
  BY DEF GoesInv, ChainInv, TableInv
<1>2. stops = 0 /\ ~stopping /\ ~StopJobs
  <2>1. stops' = 0
    BY DEF UsedUp
  <2> QED
    BY <1>1, <2>1, NextStopCounted DEF GoesInv
<1>3. Registered(id)' /\ jobs'[id] # None /\ added'[id] = 1
  BY DEF UsedUp, Registered
<1>4. ASSUME jobs'[id].runCount = jobs[id].runCount, jobs'[id].def = jobs[id].def,
             Registered(id), added[id] = 1
      PROVE  UsedUp(id)
  BY <1>2, <1>4 DEF UsedUp, LimitReached
<1>5. ASSUME jobs'[id] = jobs[id], added'[id] = added[id],
             OnItsWay(run, id) => OnItsWay(run', id), timing' = timing, removing'[id] = removing[id]
      PROVE  RemovalOnTheWay(id)'
  BY <1>3, <1>4, <1>5, GoesKept DEF Registered
<1>6. ASSUME NEW k \in Ids, NEW d \in Defs, NewJob(k, d)
      PROVE  RemovalOnTheWay(id)'
  <2>1. FreshJob(d) \in JobType /\ FreshJob(d).runCount = 0 /\ FreshJob(d).def = d
    BY FreshJobType DEF FreshJob
  <2>2. timing' = timing /\ removing' = removing
    BY <1>6 DEF NewJob
  <2>3. /\ \A m \in Ids : m # k => jobs'[m] = jobs[m]
        /\ jobs'[k] # None => jobs'[k].runCount = 0 /\ jobs'[k].def = d
        /\ OnItsWay(run, id) => OnItsWay(run', id)
    <3>1. CASE PrepareFirstRun(k, FreshJob(d))
      <4>1. PreparedAs(k, FreshJob(d)) /\ \A m \in Ids : m # k => jobs'[m] = jobs[m]
        BY <1>1, <2>1, <3>1, PrepareEffect
      <4>2. OnItsWay(run, id) => OnItsWay(run', id)
        BY <1>1, <4>1, PreparedOnItsWay
      <4>3. jobs'[k] # None => jobs'[k].runCount = 0 /\ jobs'[k].def = d
        BY <2>1, <4>1 DEF PreparedAs
      <4> QED
        BY <4>1, <4>2, <4>3
    <3>2. CASE jobs' = [jobs EXCEPT ![k] = FreshJob(d)] /\ UNCHANGED <<timer, run>>
      BY <1>1, <2>1, <3>2 DEF TypeOK
    <3> QED
      BY <1>6, <3>1, <3>2 DEF NewJob
  <2>4. CASE k = id
    <3>1. jobs'[id].runCount = 0 /\ jobs'[id].def = d
      BY <1>3, <2>3, <2>4
    <3>2. Def[d].limit \in Nat
      BY DefAssumption DEF DefType
    <3>3. FALSE
      BY <3>1, <3>2 DEF UsedUp, LimitReached
    <3> QED
      BY <3>3
  <2>5. CASE k # id
    <3>1. added'[id] = added[id]
      BY <1>1, <1>6, <2>5 DEF NewJob, TypeOK
    <3> QED
      BY <1>5, <2>2, <2>3, <2>5, <3>1
  <2> QED
    BY <2>4, <2>5
<1>7. ASSUME NEW k \in Ids, StartJob(k)
      PROVE  RemovalOnTheWay(id)'
  <2> DEFINE j == [jobs[k] EXCEPT !.nextScheduled = {}]
  <2>1. Registered(k)
    BY <1>1, <1>7 DEF StartJob, TypeOK, Registered
  <2>2. j \in JobType /\ j.def = jobs[k].def /\ j.runCount = jobs[k].runCount
    BY <1>1, <2>1 DEF TypeOK, JobType, Registered
  <2>3. PrepareFirstRun(k, j) /\ timing' = timing /\ removing' = removing /\ added' = added
    BY <1>7 DEF StartJob
  <2> HIDE DEF j
  <2>4. PreparedAs(k, j) /\ \A m \in Ids : m # k => jobs'[m] = jobs[m]
    BY <1>1, <2>2, <2>3, PrepareEffect
  <2>5. OnItsWay(run, id) => OnItsWay(run', id)
    BY <1>1, <2>4, PreparedOnItsWay
  <2>6. CASE k = id
    <3>1. jobs'[id].def = jobs[id].def /\ jobs'[id].runCount = jobs[id].runCount
      BY <1>3, <2>2, <2>4, <2>6 DEF PreparedAs
    <3>2. UsedUp(id)
      BY <1>3, <1>4, <2>1, <2>3, <2>6, <3>1
    <3> QED
      BY <2>3, <2>5, <3>2, GoesKept
  <2>7. CASE k # id
    BY <1>5, <2>3, <2>4, <2>5, <2>7
  <2> QED
    BY <2>6, <2>7
<1>8. ASSUME NEW k \in Ids, RemoveJob(k) \/ RemoveLimited(k)
      PROVE  RemovalOnTheWay(id)'
  <2>1. /\ timing' = timing /\ added' = added
        /\ Remove(k, run) \/ UNCHANGED <<jobs, run>>
    BY <1>8 DEF RemoveJob, RemoveLimited
  <2>2. jobs'[id] = jobs[id]
    BY <1>1, <1>3, <2>1 DEF Remove, TypeOK
  <2>3. k # id
    BY <1>1, <1>3, <1>8 DEF RemoveJob, RemoveLimited, Remove, TypeOK, Registered
  <2>4. removing'[id] = removing[id]
    BY <1>1, <1>8, <2>3 DEF RemoveJob, RemoveLimited, TypeOK
  <2>5. OnItsWay(run, id) => OnItsWay(run', id)
    <3>1. run' = run \/ run' = CancelRuns(run, k)
      BY <2>1 DEF Remove
    <3>2. run \in [Runs -> RunType \cup {None}]
      BY <1>1 DEF TypeOK
    <3> QED
      BY <3>1, <3>2, CancelledOnItsWay
  <2> QED
    BY <1>5, <2>1, <2>2, <2>4, <2>5
<1>9. ASSUME NEW tagged \in SUBSET Ids, RemoveByTags(tagged)
      PROVE  RemovalOnTheWay(id)'
  <2>1. timing' = timing /\ added' = added /\ removing' = removing /\ jobs'[id] = jobs[id]
    BY <1>3, <1>9 DEF RemoveByTags
  <2>2. ASSUME NEW r \in Runs, run[r] # None
        PROVE  run'[r] # None /\ run'[r].id = run[r].id /\ run'[r].todo = run[r].todo
    <3>1. run[r] \in RunType
      BY <1>1, <2>2 DEF TypeOK
    <3>2. [run[r] EXCEPT !.live = FALSE] \in RunType
      BY <3>1 DEF RunType
    <3>3. run'[r] \in {run[r], [run[r] EXCEPT !.live = FALSE]}
      BY <1>9 DEF RemoveByTags
    <3> QED
      BY <2>2, <3>1, <3>2, <3>3, NoneAssumption DEF RunType
  <2>3. OnItsWay(run, id) => OnItsWay(run', id)
    BY <2>2 DEF OnItsWay
  <2> QED
    BY <1>5, <2>1, <2>3
<1>10. ASSUME NEW k \in Ids, RunNow(k)
       PROVE  RemovalOnTheWay(id)'
  <2>1. jobs' = jobs /\ timing' = timing /\ added' = added /\ removing' = removing
    BY <1>10, Zenon DEF RunNow
  <2>2. \E r \in Runs : run[r] = None /\ run' = [run EXCEPT ![r] = Dispatched(k, FALSE)]
    BY <1>10 DEF RunNow
  <2>3. OnItsWay(run, id) => OnItsWay(run', id)
    BY <1>1, <2>2, WrittenOnItsWay
  <2> QED
    BY <1>5, <2>1, <2>3
<1>11. ASSUME NEW x \in Timers, TimerFires(x)
       PROVE  RemovalOnTheWay(id)'
  <2>1. jobs' = jobs /\ timing' = timing /\ added' = added /\ removing' = removing
    BY <1>11 DEF TimerFires
  <2>2. \E r \in Runs : \E p : run[r] = None /\ run' = [run EXCEPT ![r] = p]
    BY <1>11 DEF TimerFires
  <2>3. OnItsWay(run, id) => OnItsWay(run', id)
    BY <1>1, <2>2, WrittenOnItsWay
  <2> QED
    BY <1>5, <2>1, <2>3
<1>12. CASE JobTimingUpdate
  <2>1. /\ jobs' = jobs /\ run' = run /\ added' = added /\ timing' = Tail(timing)
        /\ timing \in Seq(Ids) /\ timing # <<>>
    BY <1>1, <1>12 DEF JobTimingUpdate, TypeOK
  <2>2. UsedUp(id)
    BY <1>3, <1>4, <2>1 DEF Registered
  <2>3. RemovalOnTheWay(id)
    BY <2>2 DEF GoesInv, LimitedJobGoes, UsedUp
  <2>4. removing[id] \in Nat
    BY <1>1 DEF TypeOK
  <2>5. CASE Head(timing) = id
    <3>1. removing' = [removing EXCEPT ![id] = @ + 1]
      BY <1>12, <2>2, <2>5 DEF JobTimingUpdate, UsedUp
    <3>2. removing'[id] = removing[id] + 1
      BY <1>1, <3>1 DEF TypeOK
    <3>3. removing'[id] > 0
      BY <2>4, <3>2
    <3> QED
      BY <3>3 DEF RemovalOnTheWay
  <2>6. CASE Head(timing) # id
    <3>1. removing'[id] = removing[id]
      BY <1>1, <1>12, <2>6 DEF JobTimingUpdate, TypeOK
    <3>2. CASE \E i \in 1 .. Len(timing) : timing[i] = id
      <4>1. PICK i \in 1 .. Len(timing) : timing[i] = id
        BY <3>2
      <4>2. i # 1
        BY <2>1, <2>6, <4>1
      <4>3. /\ Len(timing') = Len(timing) - 1
            /\ \A m \in 1 .. Len(timing') : timing'[m] = timing[m + 1]
        BY <2>1, HeadTailProperties
      <4>4. i - 1 \in 1 .. Len(timing') /\ (i - 1) + 1 = i
        <5>1. Len(timing) \in Nat
          BY <2>1, EmptySeq
        <5> QED
          BY <4>1, <4>2, <4>3, <5>1
      <4>5. timing'[i - 1] = id
        BY <4>1, <4>3, <4>4
      <4> QED
        BY <4>4, <4>5 DEF RemovalOnTheWay
    <3>3. CASE removing[id] > 0
      BY <3>1, <3>3 DEF RemovalOnTheWay
    <3>4. CASE OnItsWay(run, id)
      BY <2>1, <3>4 DEF OnItsWay, RemovalOnTheWay
    <3> QED
      BY <2>3, <3>2, <3>3, <3>4 DEF RemovalOnTheWay, OnItsWay
  <2> QED
    BY <2>5, <2>6
<1>13. CASE Tick \/ Start \/ UNCHANGED vars
  <2>1. UNCHANGED <<jobs, run, timing, removing, added>>
    BY <1>13 DEF Tick, Start, vars
  <2> QED
    BY <1>5, <2>1
<1>14. ASSUME NEW r \in Runs, RunStep(r)
       PROVE  RemovalOnTheWay(id)'
  BY <1>2, <1>14, RunGoes
<1>15. CASE Stopped
  BY <1>2, <1>15 DEF Stopped
<1>16. CASE ClientCall
  BY <1>2, <1>6, <1>8, <1>9, <1>10, <1>13, <1>16 DEF ClientCall
<1> QED
  BY <1>7, <1>8, <1>11, <1>12, <1>13, <1>14, <1>15, <1>16 DEF Next

(* A job rescheduled before its task runs that has used up WithLimitedRuns *)
(* has its removal on the way, as long as it was not replaced and nothing  *)
(* was stopped.                                                            *)
THEOREM UsedUpJobGoes == Spec => []LimitedJobGoes
<1>1. Init => GoesInv
  <2> SUFFICES ASSUME Init PROVE GoesInv
    OBVIOUS
  <2>1. SameDef /\ StopCounted /\ LimitedJobGoes
    BY DEF Init, SameDef, StopCounted, LimitedJobGoes, Registered
  <2> QED
    BY <2>1, InitChain DEF GoesInv
<1>2. GoesInv /\ [Next]_vars => GoesInv'
  <2> SUFFICES ASSUME GoesInv, [Next]_vars PROVE GoesInv'
    OBVIOUS
  <2>1. ChainInv' /\ SameDef'
    BY ChainKept, NextSameDef DEF GoesInv
  <2>2. StopCounted'
    BY NextStopCounted DEF GoesInv, ChainInv, TableInv
  <2>3. \A id \in Ids : UsedUp(id)' => RemovalOnTheWay(id)'
    BY NextGoes
  <2>4. LimitedJobGoes'
    BY <2>3 DEF LimitedJobGoes, UsedUp
  <2> QED
    BY <2>1, <2>2, <2>4 DEF GoesInv
<1>3. GoesInv => LimitedJobGoes
  BY DEF GoesInv
<1> QED
  BY <1>1, <1>2, <1>3, PTL DEF Spec
=============================================================================
