--------------------------- MODULE Lifecycle_proofs ---------------------------
(***************************************************************************)
(* Theorems about Lifecycle, for every set of clients, every choice of     *)
(* their calls that the theorem admits, any number of starts and runs, and *)
(* tasks that may never return.                                            *)
(*                                                                         *)
(* What the code relies on without saying so is a hypothesis: one client   *)
(* starts the scheduler (two that both read started as FALSE get two       *)
(* executor loops), and, where a report of the executor matters, the       *)
(* scheduler's own timer does not expire before it (the report would stay  *)
(* in done and answer the next stop).                                      *)
(***************************************************************************)
EXTENDS Lifecycle, FiniteSetTheorems, TLAPS

USE DEF schedVars, execVars, timerVars, historyVars

OneStarter ==
  \A c, d \in Clients : "Start" \in Ops[c] /\ "Start" \in Ops[d] => c = d

-----------------------------------------------------------------------------
(* Types.                                                                  *)

LEMMA InitTypes == Init => TypeOK
<1> SUFFICES ASSUME Init PROVE TypeOK
  OBVIOUS
<1>1. Cardinality(Execs) \in Nat
  BY ConstantAssumption, FS_CardinalityType
<1>2. stopErrCh \in Seq(Results) /\ Len(stopErrCh) <= 1 /\ done \in Seq(Results) /\ Len(done) <= 1
  BY DEF Init
<1>3. starts \in 0 .. Cardinality(Execs)
  BY <1>1 DEF Init
<1> QED
  BY <1>2, <1>3 DEF Init, TypeOK, SchedPcs, ExecPcs, ClientPcs, Results

(* The clients' part of the type, and the rest.                            *)
ClientTypes ==
  /\ client \in [Clients -> ClientPcs]
  /\ starts \in 0 .. Cardinality(Execs)
  /\ startLast \in BOOLEAN

SchedTypes ==
  /\ shutdown \in BOOLEAN /\ started \in BOOLEAN
  /\ spc \in SchedPcs /\ exiting \in BOOLEAN /\ err \in Results
  /\ caller \in Clients \cup {None}

ChannelTypes ==
  /\ stopErrCh \in Seq(Results) /\ Len(stopErrCh) <= 1
  /\ done \in Seq(Results) /\ Len(done) <= 1

ExecTypes ==
  /\ epc \in [Execs -> ExecPcs]
  /\ current \in Execs \cup {None}
  /\ ctxDone \subseteq Execs /\ waits \subseteq Execs

TickTypes ==
  /\ timer \in BOOLEAN /\ orphans \in Nat
  /\ tick \in [Ticks -> TickType \cup {None}]

LEMMA TypeParts ==
  TypeOK <=> ClientTypes /\ SchedTypes /\ ChannelTypes /\ ExecTypes /\ TickTypes
  BY DEF TypeOK, ClientTypes, SchedTypes, ChannelTypes, ExecTypes, TickTypes

LEMMA NextClientTypes ==
  ASSUME TypeOK, [Next]_vars
  PROVE  ClientTypes'
<1>1. ClientTypes /\ Cardinality(Execs) \in Nat
  BY TypeParts, ConstantAssumption, FS_CardinalityType
<1>2. ASSUME NEW c, NEW pc \in ClientPcs, Goes(c, pc)
      PROVE  client' \in [Clients -> ClientPcs]
  BY <1>1, <1>2 DEF Goes, ClientTypes
<1>3. ASSUME NEW c, NEW op, Returns(c, op)
      PROVE  client' \in [Clients -> ClientPcs] /\ startLast' \in BOOLEAN
  BY <1>2, <1>3 DEF Returns, ClientPcs
<1>4. \A pc \in {"startSend", "startWait", "stopSend", "stopWait", "shutRead", "shutWait",
                 "runSend", "runWait"} : pc \in ClientPcs
  BY DEF ClientPcs
<1>5. ASSUME NEW c \in Clients, ClientStep(c)
      PROVE  ClientTypes'
  <2>1. CASE CallStart(c)
    <3>1. CASE Returns(c, "Start") /\ UNCHANGED starts
      BY <1>1, <1>3, <3>1 DEF ClientTypes
    <3>2. CASE /\ starts < Cardinality(Execs) /\ starts' = starts + 1
               /\ Goes(c, "startSend") /\ UNCHANGED startLast
      <4>1. client' \in [Clients -> ClientPcs]
        BY <1>2, <1>4, <3>2
      <4>2. starts' \in 0 .. Cardinality(Execs)
        BY <1>1, <3>2 DEF ClientTypes
      <4> QED
        BY <1>1, <3>2, <4>1, <4>2 DEF ClientTypes
    <3> QED
      BY <2>1, <3>1, <3>2 DEF CallStart
  <2>2. CASE CallStopJobs(c) \/ CallShutdown(c) \/ CallRunNow(c)
    BY <1>1, <1>2, <1>4, <2>2 DEF CallStopJobs, CallShutdown, CallRunNow, ClientTypes
  <2>3. CASE SeesShutdown(c)
    BY <1>1, <1>3, <2>3 DEF SeesShutdown, ClientTypes
  <2>4. CASE ShutdownReads(c)
    BY <1>1, <1>2, <1>3, <1>4, <2>4 DEF ShutdownReads, ClientTypes
  <2>5. CASE ReceivesStopErr(c) \/ GivesUpStopping(c) \/ GivesUpRunNow(c)
    BY <1>1, <1>3, <2>5 DEF ReceivesStopErr, GivesUpStopping, GivesUpRunNow, ClientTypes
  <2> QED
    BY <1>5, <2>1, <2>2, <2>3, <2>4, <2>5 DEF ClientStep
<1>6. ASSUME NEW c \in Clients, ServesClient(c)
      PROVE  ClientTypes'
  BY <1>1, <1>2, <1>4, <1>6 DEF ServesClient, ServesStart, ServesStop, ServesRunNow, ClientTypes
<1>7. CASE SchedStep
  <2>1. CASE AnswersRunNow
    BY <1>1, <1>3, <2>1 DEF AnswersRunNow, ClientTypes
  <2>2. CASE SendsStarted
    BY <1>1, <1>3, <2>2 DEF SendsStarted, ClientTypes
  <2>3. CASE UNCHANGED <<client, starts, startLast>>
    BY <1>1, <2>3 DEF ClientTypes
  <2> QED
    BY <1>7, <2>1, <2>2, <2>3 DEF SchedStep, Prepare, Dispatch, ServesShutdown, StopsJobs,
       AwaitsDone, SendsStopErr, StoresStopped
<1>8. CASE UNCHANGED <<client, starts, startLast>>
  BY <1>1, <1>8 DEF ClientTypes
<1>9. ASSUME NEW k \in Execs, ExecStep(k)
      PROVE  UNCHANGED <<client, starts, startLast>>
  BY <1>9 DEF ExecStep, ExecStarts, ExecTakesStop, ExecCancels, ExecLocks, WaitReturns,
     ExecGivesUp, ExecReports, ExecFrame
<1>10. ASSUME NEW t \in Ticks, TimerFires(t) \/ RunStep(t) \/ TaskReturns(t)
       PROVE  UNCHANGED <<client, starts, startLast>>
  BY <1>10 DEF TimerFires, RunStep, TaskReturns, Delivered, CallbackGivesUp, Requests,
     ChecksExecutor, Adds, ChecksContexts, Reschedules, TickUnchanged
<1> QED
  BY <1>5, <1>6, <1>7, <1>8, <1>9, <1>10 DEF Next, vars

LEMMA NextSchedTypes ==
  ASSUME TypeOK, [Next]_vars
  PROVE  SchedTypes'
<1>1. SchedTypes /\ done \in Seq(Results)
  BY TypeParts DEF ChannelTypes
<1>2. CASE UNCHANGED <<shutdown, schedVars, started>>
  BY <1>1, <1>2 DEF SchedTypes
<1>3. ASSUME NEW c \in Clients, ClientStep(c)
      PROVE  SchedTypes'
  BY <1>1, <1>3 DEF ClientStep, CallStart, CallStopJobs, CallShutdown, CallRunNow, SeesShutdown,
     ShutdownReads, ReceivesStopErr, GivesUpStopping, GivesUpRunNow, SchedTypes
<1>4. ASSUME NEW c \in Clients, ServesClient(c)
      PROVE  SchedTypes'
  BY <1>1, <1>4 DEF ServesClient, ServesStart, ServesStop, ServesRunNow, EntersStop, SchedTypes,
     SchedPcs
<1>5. CASE SchedStep
  <2>1. CASE AwaitsDone
    <3>1. ASSUME done # <<>> PROVE Head(done) \in Results
      BY <1>1, <3>1
    <3>2. err' \in Results
      BY <2>1, <3>1 DEF AwaitsDone, Results
    <3> QED
      BY <1>1, <2>1, <3>2 DEF AwaitsDone, SchedTypes, SchedPcs
  <2>2. CASE Prepare \/ Dispatch \/ SendsStarted \/ AnswersRunNow \/ ServesShutdown \/ StopsJobs
    BY <1>1, <2>2 DEF Prepare, Dispatch, SendsStarted, AnswersRunNow, ServesShutdown, StopsJobs,
       EntersStop, SchedTypes, SchedPcs, Results
  <2>3. CASE SendsStopErr \/ StoresStopped
    BY <1>1, <2>3 DEF SendsStopErr, StoresStopped, SchedTypes, SchedPcs
  <2> QED
    BY <1>5, <2>1, <2>2, <2>3 DEF SchedStep
<1>6. ASSUME NEW k \in Execs, ExecStep(k)
      PROVE  SchedTypes'
  BY <1>1, <1>6 DEF ExecStep, ExecStarts, ExecTakesStop, ExecCancels, ExecLocks, WaitReturns,
     ExecGivesUp, ExecReports, ExecFrame, SchedTypes, SchedPcs
<1>7. ASSUME NEW t \in Ticks, TimerFires(t) \/ RunStep(t) \/ TaskReturns(t)
      PROVE  SchedTypes'
  BY <1>1, <1>7 DEF TimerFires, RunStep, TaskReturns, Delivered, CallbackGivesUp, Requests,
     ChecksExecutor, Adds, ChecksContexts, Reschedules, TickUnchanged, SchedTypes, SchedPcs
<1> QED
  BY <1>2, <1>3, <1>4, <1>5, <1>6, <1>7 DEF Next, vars

LEMMA NextChannelTypes ==
  ASSUME TypeOK, [Next]_vars
  PROVE  ChannelTypes'
<1>1. ChannelTypes /\ err \in Results
  BY TypeParts DEF SchedTypes
<1>2. \A s \in Seq(Results), r \in Results :
        Len(s) < 1 => Append(s, r) \in Seq(Results) /\ Len(Append(s, r)) <= 1
  OBVIOUS
<1>3. \A s \in Seq(Results) :
        s # <<>> /\ Len(s) <= 1 => Tail(s) \in Seq(Results) /\ Len(Tail(s)) <= 1
  OBVIOUS
<1>4. CASE UNCHANGED <<stopErrCh, done>>
  BY <1>1, <1>4 DEF ChannelTypes
<1>5. ASSUME NEW c \in Clients, ClientStep(c)
      PROVE  ChannelTypes'
  <2>1. CASE ReceivesStopErr(c)
    BY <1>1, <1>3, <2>1 DEF ReceivesStopErr, ChannelTypes
  <2> QED
    BY <1>4, <1>5, <2>1 DEF ClientStep, CallStart, CallStopJobs, CallShutdown, CallRunNow,
       SeesShutdown, ShutdownReads, GivesUpStopping, GivesUpRunNow
<1>6. ASSUME NEW c \in Clients, ServesClient(c)
      PROVE  ChannelTypes'
  BY <1>4, <1>6 DEF ServesClient, ServesStart, ServesStop, ServesRunNow
<1>7. CASE SchedStep
  <2>1. CASE AwaitsDone
    BY <1>1, <1>3, <2>1 DEF AwaitsDone, ChannelTypes
  <2>2. CASE SendsStopErr
    BY <1>1, <1>2, <2>2 DEF SendsStopErr, ChannelTypes
  <2> QED
    BY <1>4, <1>7, <2>1, <2>2 DEF SchedStep, Prepare, Dispatch, SendsStarted, AnswersRunNow,
       ServesShutdown, StopsJobs, StoresStopped
<1>8. ASSUME NEW k \in Execs, ExecStep(k)
      PROVE  ChannelTypes'
  <2>1. CASE ExecReports(k)
    BY <1>1, <1>2, <2>1 DEF ExecReports, ExecFrame, ChannelTypes, Results
  <2> QED
    BY <1>4, <1>8, <2>1 DEF ExecStep, ExecStarts, ExecTakesStop, ExecCancels, ExecLocks,
       WaitReturns, ExecGivesUp, ExecFrame
<1>9. ASSUME NEW t \in Ticks, TimerFires(t) \/ RunStep(t) \/ TaskReturns(t)
      PROVE  ChannelTypes'
  BY <1>4, <1>9 DEF TimerFires, RunStep, TaskReturns, Delivered, CallbackGivesUp, Requests,
     ChecksExecutor, Adds, ChecksContexts, Reschedules, TickUnchanged
<1> QED
  BY <1>4, <1>5, <1>6, <1>7, <1>8, <1>9 DEF Next, vars

(* An executor that has got past its first step has set e.ctx: the type of *)
(* ctxDone depends on it.                                                  *)
Begun == \A k \in Execs : epc[k] \notin {"none", "spawned"} => current # None

LEMMA NextExecTypes ==
  ASSUME TypeOK, Begun, [Next]_vars
  PROVE  ExecTypes'
<1>1. ExecTypes
  BY TypeParts
<1>2. CASE UNCHANGED execVars
  BY <1>1, <1>2 DEF ExecTypes
<1>3. ASSUME NEW c \in Clients, ClientStep(c)
      PROVE  UNCHANGED execVars
  BY <1>3 DEF ClientStep, CallStart, CallStopJobs, CallShutdown, CallRunNow, SeesShutdown,
     ShutdownReads, ReceivesStopErr, GivesUpStopping, GivesUpRunNow
<1>4. ASSUME NEW c \in Clients, ServesClient(c)
      PROVE  ExecTypes'
  BY <1>1, <1>4 DEF ServesClient, ServesStart, ServesStop, ServesRunNow, ExecTypes, ExecPcs
<1>5. ASSUME SchedStep PROVE UNCHANGED execVars
  BY <1>5 DEF SchedStep, Prepare, Dispatch, SendsStarted, AnswersRunNow, ServesShutdown, StopsJobs,
     AwaitsDone, SendsStopErr, StoresStopped
<1>6. ASSUME NEW k \in Execs, ExecStep(k)
      PROVE  ExecTypes'
  <2>1. CASE ExecCancels(k)
    <3>1. PICK pc \in ExecPcs : epc' = [epc EXCEPT ![k] = pc]
      BY <2>1 DEF ExecCancels, Moves, ExecPcs
    <3>2. current \in Execs
      BY <1>1, <2>1 DEF ExecCancels, Begun, ExecTypes
    <3> QED
      BY <1>1, <2>1, <3>1, <3>2 DEF ExecCancels, ExecTypes
  <2>2. CASE ExecStarts(k) \/ ExecTakesStop(k) \/ ExecLocks(k) \/ ExecGivesUp(k) \/ ExecReports(k)
    BY <1>1, <2>2 DEF ExecStarts, ExecTakesStop, ExecLocks, ExecGivesUp, ExecReports, Moves,
       ExecTypes, ExecPcs
  <2>3. CASE WaitReturns(k)
    BY <1>1, <2>3 DEF WaitReturns, Moves, ExecTypes, ExecPcs
  <2> QED
    BY <1>6, <2>1, <2>2, <2>3 DEF ExecStep
<1>7. ASSUME NEW t \in Ticks, TimerFires(t) \/ RunStep(t) \/ TaskReturns(t)
      PROVE  ExecTypes'
  <2>1. ASSUME NEW k \in Execs, Delivered(t, k)
        PROVE  ExecTypes'
    BY <1>1, <2>1 DEF Delivered, ExecTypes, ExecPcs
  <2> QED
    BY <1>2, <1>7, <2>1 DEF TimerFires, RunStep, TaskReturns, CallbackGivesUp, Requests,
       ChecksExecutor, Adds, ChecksContexts, Reschedules, TickUnchanged
<1> QED
  BY <1>2, <1>3, <1>4, <1>5, <1>6, <1>7 DEF Next, vars

LEMMA NextTickTypes ==
  ASSUME TypeOK, [Next]_vars
  PROVE  TickTypes'
<1>1. TickTypes
  BY TypeParts
<1>2. CASE UNCHANGED <<timerVars, tick>>
  BY <1>1, <1>2 DEF TickTypes
<1>3. ASSUME NEW t \in Ticks, NEW k \in Execs, NEW out \in BOOLEAN, Taken(t, k, out)
      PROVE  tick' \in [Ticks -> TickType \cup {None}]
  BY <1>1, <1>3 DEF Taken, TickTypes, TickType, TickPcs
<1>4. ASSUME NEW out \in BOOLEAN, Sent(out)
      PROVE  tick' \in [Ticks -> TickType \cup {None}]
  BY <1>1, <1>3, <1>4 DEF Sent, TickTypes
<1>5. ASSUME NEW t \in Ticks, Ends(t)
      PROVE  tick' \in [Ticks -> TickType \cup {None}]
  BY <1>1, <1>5 DEF Ends, TickTypes
<1>6. ASSUME NEW t \in Ticks, tick[t] # None, NEW pc \in TickPcs, To(t, pc)
      PROVE  tick' \in [Ticks -> TickType \cup {None}]
  BY <1>1, <1>6 DEF To, TickTypes, TickType
<1>7. ASSUME NEW c \in Clients, ClientStep(c) \/ ServesClient(c)
      PROVE  UNCHANGED <<timerVars, tick>>
  BY <1>7 DEF ClientStep, CallStart, CallStopJobs, CallShutdown, CallRunNow, SeesShutdown,
     ShutdownReads, ReceivesStopErr, GivesUpStopping, GivesUpRunNow, ServesClient, ServesStart,
     ServesStop, ServesRunNow
<1>8. CASE SchedStep
  <2>1. CASE Prepare
    <3>1. orphans' = orphans \/ orphans' = orphans + 1
      BY <2>1 DEF Prepare
    <3>2. orphans' \in Nat
      BY <1>1, <3>1 DEF TickTypes
    <3> QED
      BY <1>1, <2>1, <3>2 DEF Prepare, TickTypes
  <2>2. CASE Dispatch \/ AnswersRunNow
    BY <1>1, <1>4, <2>2 DEF Dispatch, AnswersRunNow, TickTypes
  <2>3. CASE StopsJobs
    BY <1>1, <2>3 DEF StopsJobs, TickTypes, TickType
  <2> QED
    BY <1>2, <1>8, <2>1, <2>2, <2>3 DEF SchedStep, SendsStarted, ServesShutdown, AwaitsDone,
       SendsStopErr, StoresStopped
<1>9. ASSUME NEW k \in Execs, ExecStep(k)
      PROVE  UNCHANGED <<timerVars, tick>>
  BY <1>9 DEF ExecStep, ExecStarts, ExecTakesStop, ExecCancels, ExecLocks, WaitReturns,
     ExecGivesUp, ExecReports, ExecFrame
<1>10. ASSUME NEW t \in Ticks, TimerFires(t)
       PROVE  TickTypes'
  <2>1. orphans' = orphans \/ (orphans > 0 /\ orphans' = orphans - 1)
    BY <1>10 DEF TimerFires
  <2>2. orphans' \in Nat
    BY <1>1, <2>1 DEF TickTypes
  <2>3. [pc |-> "jobsIn", exec |-> None, live |-> TRUE, shouldSendOut |-> TRUE] \in TickType
    BY DEF TickType, TickPcs
  <2>4. timer' \in BOOLEAN /\ tick' \in [Ticks -> TickType \cup {None}]
    BY <1>1, <1>10, <2>3 DEF TimerFires, TickTypes
  <2> QED
    BY <2>2, <2>4 DEF TickTypes
<1>11. ASSUME NEW t \in Ticks, RunStep(t) \/ TaskReturns(t)
       PROVE  TickTypes'
  <2>1. ASSUME NEW k \in Execs, Delivered(t, k)
        PROVE  TickTypes'
    BY <1>1, <1>3, <1>5, <2>1 DEF Delivered, TickTypes
  <2>2. CASE Requests(t)
    BY <1>1, <1>5, <2>2 DEF Requests, TickUnchanged, TickTypes, TickType, TickPcs
  <2>3. CASE ChecksExecutor(t) \/ Adds(t) \/ ChecksContexts(t)
    BY <1>1, <1>5, <1>6, <2>3 DEF ChecksExecutor, Adds, ChecksContexts, TickUnchanged, TickTypes,
       TickPcs
  <2>4. CASE Reschedules(t)
    BY <1>1, <1>6, <2>4 DEF Reschedules, TickTypes, TickPcs, SchedTypes, TypeOK
  <2>5. CASE CallbackGivesUp(t) \/ TaskReturns(t)
    BY <1>1, <1>5, <2>5 DEF CallbackGivesUp, TaskReturns, TickUnchanged, TickTypes
  <2> QED
    BY <1>11, <2>1, <2>2, <2>3, <2>4, <2>5 DEF RunStep
<1> QED
  BY <1>2, <1>7, <1>8, <1>9, <1>10, <1>11 DEF Next, vars

LEMMA NextBegun ==
  ASSUME TypeOK, Begun, [Next]_vars
  PROVE  Begun'
<1>1. epc \in [Execs -> ExecPcs] /\ None \notin Execs
  BY NoneAssumption DEF TypeOK
<1>2. CASE UNCHANGED <<epc, current>>
  BY <1>2 DEF Begun
<1>3. ASSUME NEW c \in Clients, ServesStart(c)
      PROVE  Begun'
  BY <1>1, <1>3 DEF ServesStart, Begun
<1>4. ASSUME NEW k \in Execs, ExecStep(k)
      PROVE  Begun'
  BY <1>1, <1>4 DEF ExecStep, ExecStarts, ExecTakesStop, ExecCancels, ExecLocks, WaitReturns,
     ExecGivesUp, ExecReports, Moves, Begun
<1>5. ASSUME NEW t \in Ticks, NEW k \in Execs, Delivered(t, k)
      PROVE  Begun'
  BY <1>1, <1>5 DEF Delivered, Begun
<1>6. ASSUME NEW c \in Clients, ClientStep(c) \/ ServesStop(c) \/ ServesRunNow(c)
      PROVE  UNCHANGED <<epc, current>>
  BY <1>6 DEF ClientStep, CallStart, CallStopJobs, CallShutdown, CallRunNow, SeesShutdown,
     ShutdownReads, ReceivesStopErr, GivesUpStopping, GivesUpRunNow, ServesStop, ServesRunNow
<1>7. ASSUME SchedStep PROVE UNCHANGED <<epc, current>>
  BY <1>7 DEF SchedStep, Prepare, Dispatch, SendsStarted, AnswersRunNow, ServesShutdown, StopsJobs,
     AwaitsDone, SendsStopErr, StoresStopped
<1>8. ASSUME NEW t \in Ticks, TimerFires(t) \/ RunStep(t) \/ TaskReturns(t),
             \A k \in Execs : ~Delivered(t, k)
      PROVE  UNCHANGED <<epc, current>>
  BY <1>8 DEF TimerFires, RunStep, TaskReturns, CallbackGivesUp, Requests, ChecksExecutor, Adds,
     ChecksContexts, Reschedules, TickUnchanged
<1> QED
  BY <1>2, <1>3, <1>4, <1>5, <1>6, <1>7, <1>8 DEF Next, ServesClient, vars

TypeInv == TypeOK /\ Begun

LEMMA InitTypeInv == Init => TypeInv
  BY InitTypes DEF Init, TypeInv, Begun

LEMMA NextTypeInv == TypeInv /\ [Next]_vars => TypeInv'
<1> SUFFICES ASSUME TypeInv, [Next]_vars PROVE TypeInv'
  OBVIOUS
<1>1. ClientTypes' /\ SchedTypes' /\ ChannelTypes' /\ ExecTypes' /\ TickTypes'
  BY NextClientTypes, NextSchedTypes, NextChannelTypes, NextExecTypes, NextTickTypes DEF TypeInv
<1>2. TypeOK'
  BY <1>1 DEF TypeOK, ClientTypes, SchedTypes, ChannelTypes, ExecTypes, TickTypes
<1> QED
  BY <1>2, NextBegun DEF TypeInv

(* Every variable keeps the type the module declares, whatever the clients *)
(* call and however many of them call it.                                  *)
THEOREM TypeCorrect == Spec => []TypeOK
<1>1. Spec => []TypeInv
  BY InitTypeInv, NextTypeInv, PTL DEF Spec
<1>2. TypeInv => TypeOK
  BY DEF TypeInv
<1> QED
  BY <1>1, <1>2, PTL

-----------------------------------------------------------------------------
(* The executor loop.                                                      *)

Running(k) == epc[k] \in {"spawned", "loop"}

(* The pcs of the scheduler at which a started scheduler has its loop.     *)
WithLoop == {"select", "prepare", "dispatch", "started", "runNow", "stopExec"}

HasLoop == started /\ spc \in WithLoop

(* Only a client that calls Start is in Start, and it got as far as the    *)
(* send on startCh because the scheduler was not started: with one such    *)
(* client it still is not when the send is received.                       *)
Starters ==
  \A c \in Clients :
    /\ client[c] \in {"startSend", "startWait"} => "Start" \in Ops[c]
    /\ client[c] = "startSend" => ~started

(* Where the scheduler goroutine is while it is started.                   *)
StartedPcs ==
  spc \in {"prepare", "dispatch", "started", "stopExec", "awaitDone"} => started

(* The executor loop is there from the go statement of selectStart until   *)
(* the executor takes the stop, which is when the scheduler gets past it.  *)
OneLoop ==
  /\ HasLoop => \E k \in Execs : \A i \in Execs : Running(i) <=> i = k
  /\ ~HasLoop => \A i \in Execs : ~Running(i)

LoopInv == TypeInv /\ Starters /\ StartedPcs /\ OneLoop

LEMMA InitLoop == Init => LoopInv
  BY InitTypeInv DEF Init, LoopInv, Starters, StartedPcs, OneLoop, HasLoop, Running

LEMMA NextStarters ==
  ASSUME OneStarter, LoopInv, [Next]_vars
  PROVE  Starters'
<1>1. client \in [Clients -> ClientPcs] /\ None \notin Execs
  BY NoneAssumption DEF LoopInv, TypeInv, TypeOK
<1>2. Starters
  BY DEF LoopInv
<1>3. CASE client' = client /\ (started' => started)
  BY <1>2, <1>3 DEF Starters
<1>4. ASSUME NEW c \in Clients, ClientStep(c)
      PROVE  Starters'
  <2>1. CASE CallStart(c)
    BY <1>1, <1>2, <2>1 DEF CallStart, Returns, Goes, Starters
  <2>2. started' = started
    BY <1>4 DEF ClientStep, CallStart, CallStopJobs, CallShutdown, CallRunNow, SeesShutdown,
       ShutdownReads, ReceivesStopErr, GivesUpStopping, GivesUpRunNow
  <2>3. ASSUME ~CallStart(c)
        PROVE  \E pc \in ClientPcs \ {"startSend", "startWait"} : Goes(c, pc)
    BY <1>4, <2>3 DEF ClientStep, CallStopJobs, CallShutdown, CallRunNow, SeesShutdown,
       ShutdownReads, ReceivesStopErr, GivesUpStopping, GivesUpRunNow, Returns, ClientPcs
  <2> QED
    BY <1>1, <1>2, <2>1, <2>2, <2>3 DEF Goes, Starters
<1>5. ASSUME NEW c \in Clients, ServesStart(c)
      PROVE  Starters'
  BY <1>1, <1>2, <1>5 DEF ServesStart, Goes, Starters, OneStarter
<1>6. ASSUME NEW c \in Clients, ServesStop(c) \/ ServesRunNow(c)
      PROVE  Starters'
  BY <1>1, <1>2, <1>6 DEF ServesStop, ServesRunNow, Goes, Starters
<1>7. CASE SchedStep
  <2>1. CASE SendsStarted
    BY <1>1, <1>2, <2>1 DEF SendsStarted, Returns, Goes, Starters
  <2>2. CASE AnswersRunNow
    BY <1>1, <1>2, <2>2 DEF AnswersRunNow, Returns, Goes, Starters
  <2> QED
    BY <1>3, <1>7, <2>1, <2>2 DEF SchedStep, Prepare, Dispatch, ServesShutdown, StopsJobs,
       AwaitsDone, SendsStopErr, StoresStopped
<1>8. ASSUME NEW k \in Execs, ExecStep(k)
      PROVE  UNCHANGED <<client, started>>
  BY <1>8 DEF ExecStep, ExecStarts, ExecTakesStop, ExecCancels, ExecLocks, WaitReturns,
     ExecGivesUp, ExecReports, ExecFrame
<1>9. ASSUME NEW t \in Ticks, TimerFires(t) \/ RunStep(t) \/ TaskReturns(t)
       PROVE  UNCHANGED <<client, started>>
  BY <1>9 DEF TimerFires, RunStep, TaskReturns, Delivered, CallbackGivesUp, Requests,
     ChecksExecutor, Adds, ChecksContexts, Reschedules, TickUnchanged
<1> QED
  BY <1>3, <1>4, <1>5, <1>6, <1>7, <1>8, <1>9 DEF Next, ServesClient, vars

LEMMA NextOneLoop ==
  ASSUME LoopInv, [Next]_vars
  PROVE  StartedPcs' /\ OneLoop'
<1>1. epc \in [Execs -> ExecPcs] /\ None \notin Execs /\ started \in BOOLEAN
  BY NoneAssumption DEF LoopInv, TypeInv, TypeOK
<1>2. Starters /\ StartedPcs /\ OneLoop
  BY DEF LoopInv
<1>3. CASE UNCHANGED <<epc, spc, started>>
  BY <1>2, <1>3 DEF StartedPcs, OneLoop, HasLoop, Running
<1>4. ASSUME NEW c \in Clients, ServesStart(c)
      PROVE  StartedPcs' /\ OneLoop'
  <2>1. ~started /\ spc = "select" /\ started' /\ spc' = "prepare"
    BY <1>2, <1>4 DEF ServesStart, Starters
  <2>2. \A i \in Execs : ~Running(i)
    BY <1>2, <2>1 DEF OneLoop, HasLoop
  <2>3. PICK k \in Execs : epc' = [epc EXCEPT ![k] = "spawned"]
    BY <1>4 DEF ServesStart
  <2>4. \A i \in Execs : Running(i)' <=> i = k
    BY <1>1, <2>2, <2>3 DEF Running
  <2> QED
    BY <2>1, <2>4 DEF StartedPcs, OneLoop, HasLoop, WithLoop
<1>5. ASSUME NEW c \in Clients, ServesStop(c) \/ ServesRunNow(c)
      PROVE  StartedPcs' /\ OneLoop'
  BY <1>1, <1>2, <1>5 DEF ServesStop, ServesRunNow, EntersStop, StartedPcs, OneLoop, HasLoop,
     WithLoop, Running
<1>6. CASE SchedStep
  <2>1. CASE Prepare \/ Dispatch \/ SendsStarted \/ AnswersRunNow
    <3>1. UNCHANGED <<epc, started>> /\ spc \in WithLoop /\ spc' \in WithLoop
      BY <2>1 DEF Prepare, Dispatch, SendsStarted, AnswersRunNow, WithLoop
    <3>2. StartedPcs'
      BY <1>2, <2>1 DEF Prepare, Dispatch, SendsStarted, AnswersRunNow, StartedPcs
    <3> QED
      BY <1>2, <3>1, <3>2 DEF OneLoop, HasLoop, Running
  <2>2. CASE ServesShutdown \/ StopsJobs
    BY <1>1, <1>2, <2>2 DEF ServesShutdown, StopsJobs, EntersStop, StartedPcs, OneLoop, HasLoop,
       WithLoop, Running
  <2>3. CASE AwaitsDone \/ SendsStopErr
    BY <1>1, <1>2, <2>3 DEF AwaitsDone, SendsStopErr, StartedPcs, OneLoop, HasLoop, WithLoop,
       Running
  <2>4. CASE StoresStopped
    BY <1>1, <1>2, <2>4 DEF StoresStopped, StartedPcs, OneLoop, HasLoop, WithLoop, Running
  <2> QED
    BY <1>6, <2>1, <2>2, <2>3, <2>4 DEF SchedStep
<1>7. ASSUME NEW k \in Execs, epc[k] = "loop", epc' = [epc EXCEPT ![k] = "stopping"],
             spc = "stopExec", spc' = "stopJobs", started' = started
      PROVE  StartedPcs' /\ OneLoop'
  BY <1>1, <1>2, <1>7 DEF StartedPcs, OneLoop, HasLoop, WithLoop, Running
<1>8. ASSUME NEW k \in Execs, ExecStep(k)
      PROVE  StartedPcs' /\ OneLoop'
  <2>1. CASE ExecTakesStop(k)
    BY <1>7, <2>1 DEF ExecTakesStop, ExecFrame, Moves
  <2>2. CASE ExecStarts(k)
    BY <1>1, <1>2, <2>2 DEF ExecStarts, ExecFrame, Moves, StartedPcs, OneLoop, HasLoop, Running
  <2>3. ASSUME ~ExecTakesStop(k), ~ExecStarts(k)
        PROVE  /\ UNCHANGED <<spc, started>>
               /\ \A i \in Execs : Running(i)' <=> Running(i)
    BY <1>1, <1>8, <2>3 DEF ExecStep, ExecCancels, ExecLocks, WaitReturns, ExecGivesUp,
       ExecReports, ExecFrame, Moves, Running
  <2> QED
    BY <1>2, <2>1, <2>2, <2>3 DEF StartedPcs, OneLoop, HasLoop
<1>9. ASSUME NEW t \in Ticks, TimerFires(t) \/ RunStep(t) \/ TaskReturns(t)
      PROVE  StartedPcs' /\ OneLoop'
  <2>1. ASSUME NEW k \in Execs, Delivered(t, k)
        PROVE  StartedPcs' /\ OneLoop'
    BY <1>3, <1>7, <2>1 DEF Delivered
  <2> QED
    BY <1>3, <1>9, <2>1 DEF TimerFires, RunStep, TaskReturns, CallbackGivesUp, Requests,
       ChecksExecutor, Adds, ChecksContexts, Reschedules, TickUnchanged
<1>10. ASSUME NEW c \in Clients, ClientStep(c)
       PROVE  UNCHANGED <<epc, spc, started>>
  BY <1>10 DEF ClientStep, CallStart, CallStopJobs, CallShutdown, CallRunNow, SeesShutdown,
     ShutdownReads, ReceivesStopErr, GivesUpStopping, GivesUpRunNow
<1> QED
  BY <1>3, <1>4, <1>5, <1>6, <1>8, <1>9, <1>10 DEF Next, ServesClient, vars

LEMMA NextLoop == OneStarter => (LoopInv /\ [Next]_vars => LoopInv')
  BY NextTypeInv, NextStarters, NextOneLoop DEF LoopInv

LEMMA LoopAlways == OneStarter => (Spec => []LoopInv)
<1> SUFFICES ASSUME OneStarter PROVE Spec => []LoopInv
  OBVIOUS
<1>1. LoopInv /\ [Next]_vars => LoopInv'
  BY NextLoop
<1> QED
  BY InitLoop, <1>1, PTL DEF Spec

(* When one client starts the scheduler, however often and whoever stops   *)
(* it in between, the scheduler goroutine comes back to its select with    *)
(* one executor loop if it says it is started and with none otherwise:     *)
(* a send on jobsIn or on the executor's stopCh always has its receiver.   *)
THEOREM OneLoopWhenStarted == OneStarter => (Spec => []ExecutorMatchesStarted)
<1> SUFFICES ASSUME OneStarter PROVE Spec => []ExecutorMatchesStarted
  OBVIOUS
<1>1. LoopInv => ExecutorMatchesStarted
  <2> SUFFICES ASSUME LoopInv, spc = "select"
               PROVE  Cardinality({k \in Execs : epc[k] \in {"spawned", "loop"}})
                        = IF started THEN 1 ELSE 0
    BY DEF ExecutorMatchesStarted
  <2> DEFINE loops == {k \in Execs : epc[k] \in {"spawned", "loop"}}
  <2>1. CASE started
    <3>1. PICK k \in Execs : \A i \in Execs : Running(i) <=> i = k
      BY <2>1 DEF LoopInv, OneLoop, HasLoop, WithLoop
    <3>2. loops = {k}
      BY <3>1 DEF Running
    <3> QED
      BY <2>1, <3>2, FS_Singleton
  <2>2. CASE ~started
    <3>1. loops = {}
      BY <2>2 DEF LoopInv, OneLoop, HasLoop, Running
    <3> QED
      BY <2>2, <3>1, FS_EmptySet
  <2> QED
    BY <2>1, <2>2
<1> QED
  BY LoopAlways, <1>1, PTL

-----------------------------------------------------------------------------
(* The report of a stopped executor.                                       *)

Halting(k) == epc[k] \in {"stopping", "lock", "waiting", "reportNil", "reportTimeout"}

(* The scheduler has stopped an executor and waits for its report.         *)
AwaitsReport == started /\ spc \in {"stopJobs", "awaitDone"}

(* An executor owes a report, or has put it in done, only while the        *)
(* scheduler waits for one; there is one at a time.                        *)
OneReport ==
  /\ ~AwaitsReport => done = <<>> /\ \A k \in Execs : ~Halting(k)
  /\ \A k \in Execs : Halting(k) =>
       done = <<>> /\ \A i \in Execs : Halting(i) => i = k

(* The executor in its loop or on its way out of it is the one that set    *)
(* e.ctx: no other overwrites it.                                          *)
InCharge ==
  \A k \in Execs : epc[k] = "loop" \/ Halting(k) => current = k

(* The contexts that are done are those of the executors that cancelled.   *)
Cancelled ==
  \A k \in Execs :
    k \in ctxDone <=> epc[k] \in {"lock", "waiting", "reportNil", "reportTimeout", "dead",
                                  "timedOut"}

ReportInv == LoopInv /\ OneReport /\ InCharge /\ Cancelled

LEMMA InitReport == Init => ReportInv
  BY InitLoop DEF Init, ReportInv, OneReport, AwaitsReport, InCharge, Cancelled, Halting

(* The steps of the clients and of the runs leave all of this alone.       *)
LEMMA ReportFrame ==
  ASSUME ReportInv, UNCHANGED <<epc, current, ctxDone, done>>, AwaitsReport' <=> AwaitsReport
  PROVE  OneReport' /\ InCharge' /\ Cancelled'
  BY DEF ReportInv, OneReport, InCharge, Cancelled, Halting

(* The executor of a started scheduler takes the stop, at its select or    *)
(* right after a jobIn.                                                    *)
LEMMA TakesStop ==
  ASSUME ReportInv, NEW k \in Execs, epc[k] = "loop", spc = "stopExec", spc' = "stopJobs",
         epc' = [epc EXCEPT ![k] = "stopping"], UNCHANGED <<started, current, ctxDone, done>>
  PROVE  OneReport' /\ InCharge' /\ Cancelled'
<1>1. epc \in [Execs -> ExecPcs]
  BY DEF ReportInv, LoopInv, TypeInv, TypeOK
<1>2. started /\ ~AwaitsReport
  BY DEF ReportInv, LoopInv, StartedPcs, AwaitsReport
<1>3. done = <<>> /\ \A i \in Execs : ~Halting(i)
  BY <1>2 DEF ReportInv, OneReport
<1>4. current = k
  BY DEF ReportInv, InCharge
<1>5. \A i \in Execs : Halting(i)' <=> i = k
  BY <1>1, <1>3 DEF Halting
<1>6. OneReport'
  BY <1>2, <1>3, <1>5 DEF OneReport, AwaitsReport
<1>7. InCharge'
  BY <1>1, <1>4, <1>5 DEF ReportInv, InCharge
<1>8. Cancelled'
  BY <1>1 DEF ReportInv, Cancelled
<1> QED
  BY <1>6, <1>7, <1>8

LEMMA NextReport ==
  ASSUME OneStarter, "sched" \notin Timeouts, ReportInv, [Next]_vars
  PROVE  ReportInv'
<1>1. /\ epc \in [Execs -> ExecPcs] /\ None \notin Execs /\ started \in BOOLEAN
      /\ done \in Seq(Results) /\ Len(done) <= 1 /\ ctxDone \subseteq Execs
  BY NoneAssumption DEF ReportInv, LoopInv, TypeInv, TypeOK
<1>2. LoopInv /\ OneReport /\ InCharge /\ Cancelled
  BY DEF ReportInv
<1>3. LoopInv'
  BY <1>2, NextLoop
<1>4. SUFFICES OneReport' /\ InCharge' /\ Cancelled'
  BY <1>3 DEF ReportInv
<1>5. CASE UNCHANGED <<epc, current, ctxDone, done, started, spc>>
  BY <1>5, ReportFrame DEF AwaitsReport
<1>6. ASSUME NEW c \in Clients, ClientStep(c)
      PROVE  UNCHANGED <<epc, current, ctxDone, done, started, spc>>
  BY <1>6 DEF ClientStep, CallStart, CallStopJobs, CallShutdown, CallRunNow, SeesShutdown,
     ShutdownReads, ReceivesStopErr, GivesUpStopping, GivesUpRunNow
<1>7. ASSUME NEW c \in Clients, ServesClient(c)
      PROVE  OneReport' /\ InCharge' /\ Cancelled'
  <2>1. CASE ServesStart(c)
    <3>1. PICK k \in Execs : epc[k] = "none" /\ epc' = [epc EXCEPT ![k] = "spawned"]
      BY <2>1 DEF ServesStart
    <3>2. UNCHANGED <<current, ctxDone, done>> /\ ~AwaitsReport /\ ~AwaitsReport'
      BY <2>1 DEF ServesStart, AwaitsReport
    <3>3. \A i \in Execs : Halting(i)' <=> Halting(i)
      BY <1>1, <3>1 DEF Halting
    <3> QED
      BY <1>1, <1>2, <3>1, <3>2, <3>3 DEF OneReport, InCharge, Cancelled
  <2>2. CASE ServesStop(c) \/ ServesRunNow(c)
    <3>1. UNCHANGED <<epc, current, ctxDone, done>> /\ ~AwaitsReport
      BY <2>2 DEF ServesStop, ServesRunNow, AwaitsReport
    <3>2. ~AwaitsReport'
      BY <2>2 DEF ServesStop, ServesRunNow, EntersStop, AwaitsReport
    <3> QED
      BY <3>1, <3>2, ReportFrame
  <2> QED
    BY <1>7, <2>1, <2>2 DEF ServesClient
<1>8. CASE SchedStep
  <2>1. CASE AwaitsDone
    <3>1. done # <<>> /\ done' = Tail(done) /\ spc' = "stopErr" /\ UNCHANGED execVars
      BY <2>1 DEF AwaitsDone
    <3>2. done' = <<>>
      BY <1>1, <3>1
    <3>3. \A k \in Execs : ~Halting(k)
      BY <1>2, <3>1 DEF OneReport
    <3> QED
      BY <1>2, <3>1, <3>2, <3>3 DEF OneReport, InCharge, Cancelled, Halting, AwaitsReport
  <2>2. CASE StopsJobs
    <3>1. UNCHANGED <<epc, current, ctxDone, done>>
      BY <2>2 DEF StopsJobs
    <3>2. AwaitsReport' <=> AwaitsReport
      BY <1>1, <2>2 DEF StopsJobs, AwaitsReport
    <3> QED
      BY <3>1, <3>2, ReportFrame
  <2>3. CASE Prepare \/ Dispatch \/ SendsStarted \/ AnswersRunNow
    <3>1. UNCHANGED <<epc, current, ctxDone, done>> /\ ~AwaitsReport
      BY <2>3 DEF Prepare, Dispatch, SendsStarted, AnswersRunNow, AwaitsReport
    <3>2. ~AwaitsReport'
      BY <2>3 DEF Prepare, Dispatch, SendsStarted, AnswersRunNow, AwaitsReport
    <3> QED
      BY <3>1, <3>2, ReportFrame
  <2>4. CASE ServesShutdown \/ SendsStopErr \/ StoresStopped
    <3>1. UNCHANGED <<epc, current, ctxDone, done>> /\ ~AwaitsReport
      BY <2>4 DEF ServesShutdown, SendsStopErr, StoresStopped, AwaitsReport
    <3>2. ~AwaitsReport'
      BY <2>4 DEF ServesShutdown, SendsStopErr, StoresStopped, EntersStop, AwaitsReport
    <3> QED
      BY <3>1, <3>2, ReportFrame
  <2> QED
    BY <1>8, <2>1, <2>2, <2>3, <2>4 DEF SchedStep
<1>9. ASSUME NEW k \in Execs, ExecStep(k)
      PROVE  OneReport' /\ InCharge' /\ Cancelled'
  <2>1. CASE ExecTakesStop(k)
    BY <2>1, TakesStop DEF ExecTakesStop, ExecFrame, Moves
  <2>2. CASE ExecStarts(k)
    <3>1. /\ epc[k] = "spawned" /\ epc' = [epc EXCEPT ![k] = "loop"] /\ current' = k
          /\ UNCHANGED <<started, spc, ctxDone, done>>
      BY <2>2 DEF ExecStarts, ExecFrame, Moves
    <3>2. HasLoop /\ \A i \in Execs : Running(i) => i = k
      BY <1>2, <3>1 DEF LoopInv, OneLoop, Running
    <3>3. ~AwaitsReport /\ \A i \in Execs : ~Halting(i)
      BY <1>2, <3>2 DEF HasLoop, WithLoop, AwaitsReport, OneReport
    <3>4. \A i \in Execs : Halting(i)' <=> Halting(i)
      BY <1>1, <3>1 DEF Halting
    <3>5. \A i \in Execs : epc'[i] = "loop" => i = k
      BY <1>1, <3>1, <3>2 DEF Running
    <3> QED
      BY <1>1, <1>2, <3>1, <3>3, <3>4, <3>5 DEF OneReport, AwaitsReport, InCharge, Cancelled
  <2>3. ASSUME Halting(k), NEW pc, epc' = [epc EXCEPT ![k] = pc],
               pc \in {"lock", "waiting", "reportNil", "reportTimeout"},
               UNCHANGED <<started, spc, current, done>>, ctxDone' = ctxDone \cup {k}
        PROVE  OneReport' /\ InCharge' /\ Cancelled'
    <3>1. \A i \in Execs : Halting(i)' <=> Halting(i)
      BY <1>1, <2>3 DEF Halting
    <3> QED
      BY <1>1, <1>2, <2>3, <3>1 DEF OneReport, AwaitsReport, InCharge, Cancelled
  <2>4. CASE ExecCancels(k)
    <3>1. Halting(k) /\ current = k /\ k \notin ctxDone
      BY <1>2, <2>4 DEF ExecCancels, Halting, InCharge, Cancelled
    <3> QED
      BY <2>3, <2>4, <3>1 DEF ExecCancels, ExecFrame, Moves
  <2>5. CASE ExecLocks(k) \/ ExecGivesUp(k)
    <3>1. Halting(k) /\ ctxDone = ctxDone \cup {k}
      BY <1>2, <2>5 DEF ExecLocks, ExecGivesUp, Halting, Cancelled
    <3> QED
      BY <2>3, <2>5, <3>1 DEF ExecLocks, ExecGivesUp, ExecFrame, Moves
  <2>6. CASE WaitReturns(k)
    <3>1. CASE epc[k] = "waiting"
      <4>1. Halting(k) /\ ctxDone = ctxDone \cup {k}
        BY <1>2, <3>1 DEF Halting, Cancelled
      <4> QED
        BY <2>3, <2>6, <3>1, <4>1 DEF WaitReturns, ExecFrame, Moves
    <3>2. CASE epc[k] # "waiting"
      BY <1>5, <2>6, <3>2 DEF WaitReturns, ExecFrame
    <3> QED
      BY <3>1, <3>2
  <2>7. CASE ExecReports(k)
    <3>1. PICK r \in Results, pc \in {"dead", "timedOut"} :
            /\ done' = Append(done, r) /\ epc' = [epc EXCEPT ![k] = pc]
            /\ epc[k] \in {"reportNil", "reportTimeout"}
            /\ UNCHANGED <<started, spc, current, ctxDone>>
      BY <2>7 DEF ExecReports, ExecFrame, Moves, Results
    <3>2. Halting(k) /\ AwaitsReport /\ AwaitsReport'
      BY <1>2, <3>1 DEF Halting, OneReport, AwaitsReport
    <3>3. \A i \in Execs : ~Halting(i)'
      BY <1>1, <1>2, <3>1, <3>2 DEF Halting, OneReport
    <3>4. OneReport'
      BY <3>2, <3>3 DEF OneReport
    <3>5. InCharge' /\ Cancelled'
      BY <1>1, <1>2, <3>1, <3>3 DEF InCharge, Cancelled
    <3> QED
      BY <3>4, <3>5
  <2> QED
    BY <1>9, <2>1, <2>2, <2>4, <2>5, <2>6, <2>7 DEF ExecStep
<1>10. ASSUME NEW t \in Ticks, TimerFires(t) \/ RunStep(t) \/ TaskReturns(t)
       PROVE  OneReport' /\ InCharge' /\ Cancelled'
  <2>1. ASSUME NEW k \in Execs, Delivered(t, k)
        PROVE  OneReport' /\ InCharge' /\ Cancelled'
    BY <1>5, <2>1, TakesStop DEF Delivered
  <2> QED
    BY <1>5, <1>10, <2>1 DEF TimerFires, RunStep, TaskReturns, CallbackGivesUp, Requests,
       ChecksExecutor, Adds, ChecksContexts, Reschedules, TickUnchanged
<1> QED
  BY <1>5, <1>6, <1>7, <1>8, <1>9, <1>10 DEF Next, vars

-----------------------------------------------------------------------------
(* The runs of a stopped executor.                                         *)

At(t, pcs) == tick[t] # None /\ tick[t].pc \in pcs

(* While the scheduler waits for the report, every run that has its copy   *)
(* of the job holds one whose context is cancelled.                        *)
CopiesAreStale ==
  spc = "awaitDone" => \A t \in Ticks : At(t, {"got", "add", "check"}) => ~tick[t].live

(* A run that joins, or has joined, the wait group of a cancelled executor *)
(* either finds its job's context cancelled too, or the executor is the    *)
(* one whose context runJob looks at.                                      *)
LateRunsEnd ==
  \A t \in Ticks :
    (At(t, {"add", "check"}) /\ tick[t].live /\ tick[t].exec \in ctxDone)
      => spc = "stopJobs" /\ current = tick[t].exec

QuietInv == ReportInv /\ CopiesAreStale /\ LateRunsEnd /\ StoppedIsQuiet

LEMMA InitQuiet == Init => QuietInv
  BY InitReport DEF Init, QuietInv, CopiesAreStale, LateRunsEnd, StoppedIsQuiet, At

(* What one step may do to a run that has its copy of the job.             *)
Stays(t) == tick'[t] = tick[t]

Copied(t) == spc = "select" /\ spc' = spc /\ tick'[t].pc = "got"

Advances(t, from, to) ==
  /\ tick[t].pc = from /\ tick'[t].pc = to /\ tick'[t].live = tick[t].live
  /\ UNCHANGED <<spc, epc, current, ctxDone>>

LEMMA RunMoves ==
  ASSUME TypeOK, [Next]_vars, NEW t \in Ticks, tick'[t] # None,
         tick'[t].pc \in {"got", "add", "check", "resched", "task"}
  PROVE  /\ tick[t] # None /\ tick'[t].exec = tick[t].exec
         /\ \/ Stays(t)
            \/ Copied(t)
            \/ Advances(t, "got", "add") /\ tick[t].exec \notin ctxDone
            \/ Advances(t, "add", "check")
            \/ Advances(t, "check", "resched") /\ current \notin ctxDone /\ tick[t].live
            \/ Advances(t, "resched", "task")
            \/ StopsJobs /\ tick'[t].pc = tick[t].pc /\ ~tick'[t].live
<1> DEFINE Goal == /\ tick[t] # None /\ tick'[t].exec = tick[t].exec
                   /\ \/ Stays(t)
                      \/ Copied(t)
                      \/ Advances(t, "got", "add") /\ tick[t].exec \notin ctxDone
                      \/ Advances(t, "add", "check")
                      \/ /\ Advances(t, "check", "resched")
                         /\ current \notin ctxDone /\ tick[t].live
                      \/ Advances(t, "resched", "task")
                      \/ StopsJobs /\ tick'[t].pc = tick[t].pc /\ ~tick'[t].live
<1>1. tick \in [Ticks -> TickType \cup {None}]
  BY DEF TypeOK
<1>2. tick[t] \in TickType \/ tick[t] = None
  BY <1>1
<1>3. CASE tick' = tick
  BY <1>3 DEF Stays
<1>4. ASSUME NEW u \in Ticks, NEW r, tick' = [tick EXCEPT ![u] = r], u # t
      PROVE  Stays(t)
  BY <1>1, <1>4 DEF Stays
<1>5. ASSUME NEW r, tick' = [tick EXCEPT ![t] = r]
      PROVE  tick'[t] = r
  BY <1>1, <1>5
<1>6. ASSUME Stays(t) PROVE Goal
  BY <1>6 DEF Stays
<1>7. ASSUME NEW u \in Ticks, NEW k \in Execs, NEW out \in BOOLEAN, Taken(u, k, out)
      PROVE  Stays(t)
  <2>1. CASE u = t
    BY <1>5, <1>7, <2>1 DEF Taken
  <2> QED
    BY <1>4, <1>7, <2>1 DEF Taken
<1>8. ASSUME NEW out \in BOOLEAN, Sent(out)
      PROVE  Stays(t)
  BY <1>3, <1>7, <1>8 DEF Sent, Stays
<1>9. ASSUME NEW u \in Ticks, Ends(u)
      PROVE  Stays(t)
  <2>1. CASE u = t
    BY <1>5, <1>9, <2>1 DEF Ends
  <2> QED
    BY <1>4, <1>9, <2>1 DEF Ends
<1>10. ASSUME NEW pc, To(t, pc), tick[t] # None
       PROVE  tick'[t] = [tick[t] EXCEPT !.pc = pc]
  BY <1>1, <1>10 DEF To
<1>11. ASSUME NEW pc, To(t, pc), tick[t] # None
       PROVE  tick'[t].pc = pc /\ tick'[t].exec = tick[t].exec /\ tick'[t].live = tick[t].live
  <2>1. tick[t] \in TickType /\ tick'[t] = [tick[t] EXCEPT !.pc = pc]
    BY <1>2, <1>10, <1>11
  <2> QED
    BY <2>1 DEF TickType
<1>12. ASSUME NEW u \in Ticks, NEW pc, To(u, pc), u # t
       PROVE  Stays(t)
  BY <1>4, <1>12 DEF To
<1>13. ASSUME NEW c \in Clients, ClientStep(c) \/ ServesClient(c)
       PROVE  tick' = tick
  BY <1>13 DEF ClientStep, CallStart, CallStopJobs, CallShutdown, CallRunNow, SeesShutdown,
     ShutdownReads, ReceivesStopErr, GivesUpStopping, GivesUpRunNow, ServesClient, ServesStart,
     ServesStop, ServesRunNow
<1>14. ASSUME SchedStep PROVE Goal
  <2>1. CASE StopsJobs
    <3>1. tick'[t] = IF tick[t] # None THEN [tick[t] EXCEPT !.live = FALSE] ELSE None
      BY <2>1 DEF StopsJobs
    <3>2. tick[t] # None /\ tick'[t] = [tick[t] EXCEPT !.live = FALSE]
      BY <3>1
    <3>3. tick'[t].exec = tick[t].exec /\ tick'[t].pc = tick[t].pc /\ tick'[t].live = FALSE
      BY <1>2, <3>2 DEF TickType
    <3> QED
      BY <2>1, <3>2, <3>3
  <2>2. CASE Dispatch \/ AnswersRunNow
    BY <1>3, <1>6, <1>8, <2>2 DEF Dispatch, AnswersRunNow
  <2> QED
    BY <1>3, <1>14, <2>1, <2>2 DEF SchedStep, Prepare, SendsStarted, ServesShutdown, AwaitsDone,
       SendsStopErr, StoresStopped
<1>15. ASSUME NEW k \in Execs, ExecStep(k)
       PROVE  tick' = tick
  BY <1>15 DEF ExecStep, ExecStarts, ExecTakesStop, ExecCancels, ExecLocks, WaitReturns,
     ExecGivesUp, ExecReports, ExecFrame
<1>16. ASSUME NEW u \in Ticks, TimerFires(u)
       PROVE  Stays(t)
  <2>1. CASE u = t
    BY <1>5, <1>16, <2>1 DEF TimerFires
  <2> QED
    BY <1>4, <1>16, <2>1 DEF TimerFires
<1>17. ASSUME NEW u \in Ticks, RunStep(u) \/ TaskReturns(u)
       PROVE  Goal
  <2>1. ASSUME NEW k \in Execs, Delivered(u, k)
        PROVE  Goal
    BY <1>6, <1>7, <1>9, <2>1 DEF Delivered
  <2>2. CASE Requests(u)
    <3>1. CASE Ends(u)
      BY <1>6, <1>9, <3>1
    <3>2. CASE spc = "select" /\ tick' = [tick EXCEPT ![u].pc = "got", ![u].live = TRUE]
      <4>1. CASE u # t
        BY <1>1, <1>6, <3>2, <4>1 DEF Stays
      <4>2. CASE u = t
        <5>1. tick'[t] = [tick[t] EXCEPT !.pc = "got", !.live = TRUE] /\ tick[t] # None
          BY <1>1, <2>2, <3>2, <4>2 DEF Requests
        <5>2. tick'[t].exec = tick[t].exec /\ tick'[t].pc = "got"
          BY <1>2, <5>1 DEF TickType
        <5> QED
          BY <2>2, <3>2, <5>1, <5>2 DEF Requests, TickUnchanged, Copied
      <4> QED
        BY <4>1, <4>2
    <3> QED
      BY <2>2, <3>1, <3>2 DEF Requests
  <2>3. CASE ChecksExecutor(u) \/ Adds(u) \/ ChecksContexts(u) \/ Reschedules(u)
    <3>1. CASE Ends(u)
      BY <1>6, <1>9, <3>1
    <3>2. CASE u # t /\ \E pc \in TickPcs : To(u, pc)
      BY <1>6, <1>12, <3>2
    <3>3. CASE ChecksExecutor(t) /\ ~Ends(t)
      BY <1>11, <3>3 DEF ChecksExecutor, TickUnchanged, Advances
    <3>4. CASE Adds(t)
      BY <1>11, <3>4 DEF Adds, TickUnchanged, Advances
    <3>5. CASE ChecksContexts(t) /\ ~Ends(t)
      BY <1>11, <3>5 DEF ChecksContexts, TickUnchanged, Advances
    <3>6. CASE Reschedules(t)
      BY <1>11, <3>6 DEF Reschedules, Advances
    <3> QED
      BY <2>3, <3>1, <3>2, <3>3, <3>4, <3>5, <3>6 DEF ChecksExecutor, Adds, ChecksContexts,
         Reschedules, TickPcs
  <2>4. CASE CallbackGivesUp(u) \/ TaskReturns(u)
    BY <1>6, <1>9, <2>4 DEF CallbackGivesUp, TaskReturns
  <2> QED
    BY <1>17, <2>1, <2>2, <2>3, <2>4 DEF RunStep
<1> QED
  BY <1>3, <1>6, <1>13, <1>14, <1>15, <1>16, <1>17 DEF Next, vars

(* The steps that matter to what the runs find, among all the steps.       *)
LEMMA QuietSteps ==
  ASSUME OneStarter, ReportInv, [Next]_vars
  PROVE  /\ spc' = "awaitDone" /\ spc # "awaitDone" => StopsJobs
         /\ spc = "stopJobs" => UNCHANGED current /\ (spc' = spc \/ StopsJobs)
         /\ \A k \in Execs : k \in ctxDone' \ ctxDone =>
              k = current /\ current' = current /\ spc' = spc /\ spc \in {"stopJobs", "awaitDone"}
         /\ \A k \in Execs : /\ epc'[k] \in {"reportNil", "dead"}
                             /\ epc[k] \notin {"reportNil", "dead"}
              => InGroup(k) = {} /\ tick' = tick
         /\ StopsJobs => UNCHANGED <<epc, current, ctxDone>> /\ spc' # "stopJobs"
<1> DEFINE Goal == /\ spc' = "awaitDone" /\ spc # "awaitDone" => StopsJobs
                   /\ spc = "stopJobs" => UNCHANGED current /\ (spc' = spc \/ StopsJobs)
                   /\ \A k \in Execs : k \in ctxDone' \ ctxDone =>
                        /\ k = current /\ current' = current /\ spc' = spc
                        /\ spc \in {"stopJobs", "awaitDone"}
                   /\ \A k \in Execs : /\ epc'[k] \in {"reportNil", "dead"}
                                       /\ epc[k] \notin {"reportNil", "dead"}
                        => InGroup(k) = {} /\ tick' = tick
<1>1. /\ epc \in [Execs -> ExecPcs] /\ None \notin Execs /\ ctxDone \subseteq Execs
      /\ current \in Execs \cup {None}
  BY NoneAssumption DEF ReportInv, LoopInv, TypeInv, TypeOK
<1>2. OneLoop /\ OneReport /\ InCharge /\ Cancelled
  BY DEF ReportInv, LoopInv
<1>3. StopsJobs => UNCHANGED <<epc, current, ctxDone>> /\ spc' # "stopJobs"
  BY DEF StopsJobs
<1>4. CASE UNCHANGED <<spc, epc, current, ctxDone>>
  <2>1. spc' = spc /\ epc' = epc /\ current' = current
    BY <1>4
  <2>2. \A k \in Execs : k \notin ctxDone' \ ctxDone
    BY <1>4
  <2>3. \A k \in Execs : epc'[k] = epc[k]
    BY <2>1
  <2> QED
    BY <1>3, <2>1, <2>2, <2>3
<1>5. ASSUME NEW c \in Clients, ClientStep(c)
      PROVE  UNCHANGED <<spc, epc, current, ctxDone>>
  BY <1>5 DEF ClientStep, CallStart, CallStopJobs, CallShutdown, CallRunNow, SeesShutdown,
     ShutdownReads, ReceivesStopErr, GivesUpStopping, GivesUpRunNow
<1>6. ASSUME NEW c \in Clients, ServesClient(c)
      PROVE  Goal
  <2>1. CASE ServesStart(c)
    <3>1. PICK k \in Execs : epc' = [epc EXCEPT ![k] = "spawned"]
      BY <2>1 DEF ServesStart
    <3>2. \A i \in Execs : epc'[i] \in {"reportNil", "dead"} => epc[i] \in {"reportNil", "dead"}
      BY <1>1, <3>1
    <3> QED
      BY <2>1, <3>2 DEF ServesStart
  <2>2. CASE ServesStop(c) \/ ServesRunNow(c)
    BY <2>2 DEF ServesStop, ServesRunNow, EntersStop
  <2> QED
    BY <1>6, <2>1, <2>2 DEF ServesClient
<1>7. CASE SchedStep
  <2>1. UNCHANGED <<epc, current, ctxDone>>
    BY <1>7 DEF SchedStep, Prepare, Dispatch, SendsStarted, AnswersRunNow, ServesShutdown,
       StopsJobs, AwaitsDone, SendsStopErr, StoresStopped
  <2>2. spc' = "awaitDone" /\ spc # "awaitDone" => StopsJobs
    BY <1>7 DEF SchedStep, Prepare, Dispatch, SendsStarted, AnswersRunNow, ServesShutdown,
       AwaitsDone, SendsStopErr, StoresStopped, EntersStop
  <2>3. spc = "stopJobs" => StopsJobs
    BY <1>7 DEF SchedStep, Prepare, Dispatch, SendsStarted, AnswersRunNow, ServesShutdown,
       AwaitsDone, SendsStopErr, StoresStopped
  <2>4. \A k \in Execs : epc'[k] = epc[k] /\ k \notin ctxDone' \ ctxDone
    BY <2>1
  <2> QED
    BY <1>3, <2>1, <2>2, <2>3, <2>4
<1>8. ASSUME NEW k \in Execs, epc[k] = "loop", epc' = [epc EXCEPT ![k] = "stopping"],
             spc = "stopExec", spc' = "stopJobs", UNCHANGED <<current, ctxDone>>
      PROVE  Goal
  BY <1>1, <1>8
<1>9. ASSUME NEW k \in Execs, ExecStep(k)
      PROVE  Goal
  <2>1. CASE ExecTakesStop(k)
    BY <1>8, <2>1 DEF ExecTakesStop, Moves
  <2>2. CASE ExecStarts(k)
    <3>1. spc # "stopJobs" /\ spc' = spc /\ ctxDone' = ctxDone
      BY <1>2, <2>2 DEF ExecStarts, ExecFrame, OneLoop, HasLoop, WithLoop, Running
    <3>2. epc' = [epc EXCEPT ![k] = "loop"]
      BY <2>2 DEF ExecStarts, Moves
    <3>3. \A i \in Execs : epc'[i] \in {"reportNil", "dead"} => epc[i] \in {"reportNil", "dead"}
      BY <1>1, <3>2
    <3> QED
      BY <3>1, <3>3
  <2>3. CASE ExecCancels(k)
    <3>1. current = k /\ k \notin ctxDone /\ spc \in {"stopJobs", "awaitDone"}
      BY <1>2, <2>3 DEF ExecCancels, InCharge, Cancelled, OneReport, AwaitsReport, Halting
    <3>2. epc' = [epc EXCEPT ![k] = "lock"] /\ UNCHANGED <<spc, current>> /\ ctxDone' = ctxDone \cup {k}
      BY <2>3, <3>1 DEF ExecCancels, ExecFrame, Moves
    <3>3. \A i \in Execs : epc'[i] \in {"reportNil", "dead"} => epc[i] \in {"reportNil", "dead"}
      BY <1>1, <3>2
    <3> QED
      BY <3>1, <3>2, <3>3
  <2>4. CASE WaitReturns(k)
    <3>1. UNCHANGED <<spc, current, ctxDone, tick>> /\ InGroup(k) = {}
      BY <2>4 DEF WaitReturns, ExecFrame
    <3>2. \A i \in Execs : i # k => epc'[i] = epc[i]
      BY <1>1, <2>4 DEF WaitReturns, Moves
    <3> QED
      BY <3>1, <3>2
  <2>5. CASE ExecLocks(k) \/ ExecGivesUp(k) \/ ExecReports(k)
    <3>1. UNCHANGED <<spc, current, ctxDone>>
      BY <2>5 DEF ExecLocks, ExecGivesUp, ExecReports, ExecFrame
    <3>2. \A i \in Execs : epc'[i] \in {"reportNil", "dead"} => epc[i] \in {"reportNil", "dead"}
      BY <1>1, <2>5 DEF ExecLocks, ExecGivesUp, ExecReports, Moves
    <3> QED
      BY <3>1, <3>2
  <2> QED
    BY <1>9, <2>1, <2>2, <2>3, <2>4, <2>5 DEF ExecStep
<1>10. ASSUME NEW t \in Ticks, TimerFires(t) \/ RunStep(t) \/ TaskReturns(t)
      PROVE  Goal
  <2>1. ASSUME NEW k \in Execs, Delivered(t, k)
        PROVE  Goal
    BY <1>4, <1>8, <2>1 DEF Delivered
  <2> QED
    BY <1>4, <1>10, <2>1 DEF TimerFires, RunStep, TaskReturns, CallbackGivesUp, Requests,
       ChecksExecutor, Adds, ChecksContexts, Reschedules, TickUnchanged
<1> QED
  BY <1>4, <1>5, <1>6, <1>7, <1>9, <1>10, <1>3 DEF Next, vars

LEMMA NextQuiet ==
  ASSUME OneStarter, "sched" \notin Timeouts, QuietInv, [Next]_vars
  PROVE  QuietInv'
<1>1. ReportInv /\ CopiesAreStale /\ LateRunsEnd /\ StoppedIsQuiet /\ TypeOK
  BY DEF QuietInv, ReportInv, LoopInv, TypeInv
<1>2. ReportInv'
  BY <1>1, NextReport
<1>3. /\ spc' = "awaitDone" /\ spc # "awaitDone" => StopsJobs
      /\ spc = "stopJobs" => UNCHANGED current /\ (spc' = spc \/ StopsJobs)
      /\ \A k \in Execs : k \in ctxDone' \ ctxDone =>
           k = current /\ current' = current /\ spc' = spc /\ spc \in {"stopJobs", "awaitDone"}
      /\ \A k \in Execs : /\ epc'[k] \in {"reportNil", "dead"}
                          /\ epc[k] \notin {"reportNil", "dead"}
           => InGroup(k) = {} /\ tick' = tick
      /\ StopsJobs => UNCHANGED <<epc, current, ctxDone>> /\ spc' # "stopJobs"
  BY <1>1, QuietSteps
<1> DEFINE Moved(t) == /\ tick[t] # None /\ tick'[t].exec = tick[t].exec
                       /\ \/ Stays(t)
                          \/ Copied(t)
                          \/ Advances(t, "got", "add") /\ tick[t].exec \notin ctxDone
                          \/ Advances(t, "add", "check")
                          \/ /\ Advances(t, "check", "resched")
                             /\ current \notin ctxDone /\ tick[t].live
                          \/ Advances(t, "resched", "task")
                          \/ StopsJobs /\ tick'[t].pc = tick[t].pc /\ ~tick'[t].live
<1>4. ASSUME NEW t \in Ticks, tick'[t] # None,
             tick'[t].pc \in {"got", "add", "check", "resched", "task"}
      PROVE  Moved(t)
  BY <1>1, <1>4, RunMoves
<1>5. CopiesAreStale'
  <2> SUFFICES ASSUME spc' = "awaitDone", NEW t \in Ticks, tick'[t] # None,
                      tick'[t].pc \in {"got", "add", "check"}
               PROVE  ~tick'[t].live
    BY DEF CopiesAreStale, At
  <2>1. Moved(t)
    BY <1>4
  <2>2. CASE StopsJobs
    <3>1. tick'[t] = [tick[t] EXCEPT !.live = FALSE] /\ tick[t] \in TickType
      BY <1>1, <2>1, <2>2 DEF StopsJobs, TypeOK
    <3> QED
      BY <3>1 DEF TickType
  <2>3. CASE ~StopsJobs
    <3>1. spc = "awaitDone"
      BY <1>3, <2>3
    <3>2. Stays(t) \/ Advances(t, "got", "add") \/ Advances(t, "add", "check")
      BY <2>1, <2>3, <3>1 DEF Copied, Advances
    <3> QED
      BY <1>1, <2>1, <3>1, <3>2 DEF CopiesAreStale, At, Stays, Advances
  <2> QED
    BY <2>2, <2>3
<1>6. LateRunsEnd'
  <2> SUFFICES ASSUME NEW t \in Ticks, tick'[t] # None, tick'[t].pc \in {"add", "check"},
                      tick'[t].live, tick'[t].exec \in ctxDone'
               PROVE  spc' = "stopJobs" /\ current' = tick'[t].exec
    BY DEF LateRunsEnd, At
  <2>1. Moved(t)
    BY <1>4
  <2>2. Stays(t) \/ Advances(t, "add", "check")
    <3>1. ASSUME Advances(t, "got", "add"), tick[t].exec \notin ctxDone
          PROVE  FALSE
      <4>1. ctxDone' = ctxDone /\ tick'[t].exec = tick[t].exec
        BY <2>1, <3>1 DEF Advances
      <4> QED
        BY <3>1, <4>1
    <3>2. ~Copied(t) /\ ~Advances(t, "check", "resched") /\ ~Advances(t, "resched", "task")
      BY DEF Copied, Advances
    <3> QED
      BY <2>1, <3>1, <3>2
  <2>3. /\ tick[t].pc \in {"add", "check"} /\ tick[t].live /\ tick[t].exec = tick'[t].exec
        /\ tick[t] # None /\ (Advances(t, "add", "check") => UNCHANGED <<spc, current, ctxDone>>)
    BY <2>1, <2>2 DEF Stays, Advances
  <2>4. CASE tick[t].exec \in ctxDone
    <3>1. spc = "stopJobs" /\ current = tick[t].exec
      BY <1>1, <2>3, <2>4 DEF LateRunsEnd, At
    <3>2. ~StopsJobs
      <4>1. ASSUME StopsJobs PROVE FALSE
        <5>1. tick'[t] = [tick[t] EXCEPT !.live = FALSE] /\ tick[t] \in TickType
          BY <1>1, <2>3, <4>1 DEF StopsJobs, TypeOK
        <5> QED
          BY <5>1 DEF TickType
      <4> QED
        BY <4>1
    <3> QED
      BY <1>3, <2>3, <3>1, <3>2
  <2>5. CASE tick[t].exec \notin ctxDone
    <3>1. ctxDone' \subseteq Execs
      BY <1>2 DEF ReportInv, LoopInv, TypeInv, TypeOK
    <3>2. /\ tick[t].exec = current /\ current' = current /\ spc' = spc
          /\ spc \in {"stopJobs", "awaitDone"}
      BY <1>3, <2>3, <2>5, <3>1
    <3>3. spc # "awaitDone"
      BY <1>1, <2>3 DEF CopiesAreStale, At
    <3> QED
      BY <2>3, <3>2, <3>3
  <2> QED
    BY <2>4, <2>5
<1>7. StoppedIsQuiet'
  <2> SUFFICES ASSUME NEW k \in Execs, epc'[k] \in {"reportNil", "dead"}, NEW t \in Ticks,
                      tick'[t] # None, tick'[t].exec = k, tick'[t].pc \in {"resched", "task"}
               PROVE  FALSE
    BY DEF StoppedIsQuiet
  <2>1. Moved(t)
    BY <1>4
  <2>2. CASE epc[k] \notin {"reportNil", "dead"}
    BY <1>3, <2>2 DEF InGroup
  <2>3. CASE epc[k] \in {"reportNil", "dead"}
    <3>1. tick[t].pc \notin {"resched", "task"} /\ tick[t].exec = k
      BY <1>1, <2>1, <2>3 DEF StoppedIsQuiet
    <3>2. Advances(t, "check", "resched") /\ current \notin ctxDone /\ tick[t].live
      BY <2>1, <3>1 DEF Stays, Copied, Advances
    <3>3. k \in ctxDone
      BY <1>1, <2>3 DEF ReportInv, Cancelled
    <3> QED
      BY <1>1, <2>1, <3>1, <3>2, <3>3 DEF LateRunsEnd, At, Advances
  <2> QED
    BY <2>2, <2>3
<1> QED
  BY <1>2, <1>5, <1>6, <1>7 DEF QuietInv

(* When an executor has reported that its jobs are done none of the runs   *)
(* it took is in its task or about to be, then or after any number of      *)
(* restarts: one client starts the scheduler, and the scheduler waits for  *)
(* the report as long as it takes.                                         *)
THEOREM NilMeansQuiet ==
  OneStarter /\ "sched" \notin Timeouts => (Spec => []StoppedIsQuiet)
<1> SUFFICES ASSUME OneStarter, "sched" \notin Timeouts PROVE Spec => []StoppedIsQuiet
  OBVIOUS
<1>1. QuietInv /\ [Next]_vars => QuietInv'
  <2>1. ASSUME QuietInv, [Next]_vars PROVE QuietInv'
    BY <2>1, NextQuiet
  <2> QED
    BY <2>1
<1>2. QuietInv => StoppedIsQuiet
  BY DEF QuietInv
<1> QED
  BY InitQuiet, <1>1, <1>2, PTL DEF Spec

-----------------------------------------------------------------------------
(* The results of the stops.                                               *)

Waiting == {c \in Clients : client[c] = "stopWait"}

(* The results in stopErrCh and the one the scheduler is still to send.    *)
Owed ==
  Len(stopErrCh) + (IF spc \in {"stopExec", "stopJobs", "awaitDone", "stopErr"} THEN 1 ELSE 0)

ShutdownComesFirst ==
  \A c \in Clients : client[c] \in {"shutRead", "shutWait"} => shutdown

(* Until the shutdown every StopJobs call that was served and has not      *)
(* returned has its one result, in the channel or on the way to it.        *)
EveryStopAnswered ==
  ~shutdown => IsFiniteSet(Waiting) /\ Cardinality(Waiting) = Owed

AnswersInv == ReportInv /\ ShutdownComesFirst /\ EveryStopAnswered

LEMMA InitAnswers == Init => AnswersInv
<1> SUFFICES ASSUME Init PROVE AnswersInv
  OBVIOUS
<1>1. Waiting = {} /\ Owed = 0
  BY DEF Init, Waiting, Owed
<1>2. ShutdownComesFirst
  BY DEF Init, ShutdownComesFirst
<1> QED
  BY <1>1, <1>2, InitReport, FS_EmptySet DEF AnswersInv, EveryStopAnswered

LEMMA NextAnswers ==
  ASSUME OneStarter, "sched" \notin Timeouts, "stop" \notin Timeouts, AnswersInv, [Next]_vars
  PROVE  AnswersInv'
<1>1. /\ client \in [Clients -> ClientPcs] /\ shutdown \in BOOLEAN
      /\ stopErrCh \in Seq(Results) /\ Len(stopErrCh) \in Nat
  BY DEF AnswersInv, ReportInv, LoopInv, TypeInv, TypeOK
<1>2. ReportInv /\ ShutdownComesFirst /\ EveryStopAnswered
  BY DEF AnswersInv
<1>3. ReportInv'
  BY <1>2, NextReport
<1> DEFINE Owing == spc \in {"stopExec", "stopJobs", "awaitDone", "stopErr"}
<1>4. SUFFICES ShutdownComesFirst' /\ EveryStopAnswered'
  BY <1>3 DEF AnswersInv
<1>5. ASSUME UNCHANGED <<client, stopErrCh, shutdown>>, Owing' <=> Owing
      PROVE  ShutdownComesFirst' /\ EveryStopAnswered'
  BY <1>2, <1>5 DEF ShutdownComesFirst, EveryStopAnswered, Waiting, Owed
(* A client moves, and is not in StopJobs before or after.                 *)
<1>6. ASSUME NEW c \in Clients, NEW pc \in ClientPcs \ {"shutRead", "shutWait", "stopWait"},
             Goes(c, pc), client[c] # "stopWait", UNCHANGED <<stopErrCh, shutdown>>,
             Owing' <=> Owing
      PROVE  ShutdownComesFirst' /\ EveryStopAnswered'
  <2>1. Waiting' = Waiting
    BY <1>1, <1>6 DEF Goes, Waiting
  <2>2. ShutdownComesFirst'
    BY <1>1, <1>2, <1>6 DEF Goes, ShutdownComesFirst
  <2> QED
    BY <1>2, <1>6, <2>1, <2>2 DEF EveryStopAnswered, Owed
<1>7. ASSUME NEW c \in Clients, ClientStep(c)
      PROVE  ShutdownComesFirst' /\ EveryStopAnswered'
  <2>1. spc' = spc
    BY <1>7 DEF ClientStep, CallStart, CallStopJobs, CallShutdown, CallRunNow, SeesShutdown,
       ShutdownReads, ReceivesStopErr, GivesUpStopping, GivesUpRunNow
  <2>2. CASE CallStart(c) \/ CallStopJobs(c) \/ CallRunNow(c) \/ SeesShutdown(c)
             \/ GivesUpRunNow(c)
    <3>1. PICK pc \in ClientPcs \ {"shutRead", "shutWait", "stopWait"} : Goes(c, pc)
      BY <2>2 DEF CallStart, CallStopJobs, CallRunNow, SeesShutdown, GivesUpRunNow, Returns,
         ClientPcs
    <3>2. client[c] # "stopWait" /\ UNCHANGED <<stopErrCh, shutdown>>
      BY <2>2 DEF CallStart, CallStopJobs, CallRunNow, SeesShutdown, GivesUpRunNow
    <3> QED
      BY <1>6, <2>1, <3>1, <3>2
  <2>3. CASE CallShutdown(c)
    BY <2>3 DEF CallShutdown, ShutdownComesFirst, EveryStopAnswered
  <2>4. CASE ShutdownReads(c) \/ GivesUpStopping(c)
    <3>1. CASE shutdown
      BY <2>4, <3>1 DEF ShutdownReads, GivesUpStopping, ShutdownComesFirst, EveryStopAnswered
    <3>2. CASE ~shutdown
      <4>1. GivesUpStopping(c) /\ client[c] = "shutWait"
        BY <1>2, <2>4, <3>2 DEF ShutdownReads, GivesUpStopping, ShutdownComesFirst
      <4> QED
        BY <1>2, <3>2, <4>1 DEF ShutdownComesFirst
    <3> QED
      BY <3>1, <3>2
  <2>5. CASE ReceivesStopErr(c)
    <3>1. CASE shutdown
      BY <2>5, <3>1 DEF ReceivesStopErr, ShutdownComesFirst, EveryStopAnswered
    <3>2. CASE ~shutdown
      <4>1. /\ client[c] = "stopWait" /\ client' = [client EXCEPT ![c] = "idle"]
            /\ stopErrCh # <<>> /\ stopErrCh' = Tail(stopErrCh) /\ shutdown' = shutdown
        BY <1>2, <2>5, <3>2 DEF ReceivesStopErr, Returns, Goes, ShutdownComesFirst
      <4>2. c \in Waiting /\ Waiting' = Waiting \ {c}
        BY <1>1, <4>1 DEF Waiting
      <4>3. IsFiniteSet(Waiting') /\ Cardinality(Waiting') = Cardinality(Waiting) - 1
        BY <1>2, <3>2, <4>2, FS_RemoveElement DEF EveryStopAnswered
      <4>4. Len(stopErrCh') = Len(stopErrCh) - 1
        BY <1>1, <4>1
      <4>5. Owed' = Owed - 1
        BY <1>1, <2>1, <4>4 DEF Owed
      <4>6. ShutdownComesFirst'
        BY <1>1, <1>2, <4>1 DEF ShutdownComesFirst
      <4> QED
        BY <1>2, <3>2, <4>3, <4>5, <4>6 DEF EveryStopAnswered
    <3> QED
      BY <3>1, <3>2
  <2> QED
    BY <1>7, <2>2, <2>3, <2>4, <2>5 DEF ClientStep
<1>8. ASSUME NEW c \in Clients, ServesClient(c)
      PROVE  ShutdownComesFirst' /\ EveryStopAnswered'
  <2>1. CASE ServesStart(c) \/ ServesRunNow(c)
    <3>1. PICK pc \in ClientPcs \ {"shutRead", "shutWait", "stopWait"} : Goes(c, pc)
      BY <2>1 DEF ServesStart, ServesRunNow, ClientPcs
    <3>2. /\ client[c] # "stopWait" /\ UNCHANGED <<stopErrCh, shutdown>>
          /\ ~Owing /\ ~Owing'
      BY <2>1 DEF ServesStart, ServesRunNow
    <3> QED
      BY <1>6, <3>1, <3>2
  <2>2. CASE ServesStop(c)
    <3>1. /\ client[c] = "stopSend" /\ client' = [client EXCEPT ![c] = "stopWait"]
          /\ ~shutdown /\ UNCHANGED <<stopErrCh, shutdown>> /\ ~Owing /\ Owing'
      BY <2>2 DEF ServesStop, EntersStop, Goes
    <3>2. c \notin Waiting /\ Waiting' = Waiting \cup {c}
      BY <1>1, <3>1 DEF Waiting
    <3>3. IsFiniteSet(Waiting') /\ Cardinality(Waiting') = Cardinality(Waiting) + 1
      BY <1>2, <3>1, <3>2, FS_AddElement DEF EveryStopAnswered
    <3>4. Owed' = Owed + 1
      BY <1>1, <3>1 DEF Owed
    <3>5. ShutdownComesFirst'
      BY <1>1, <1>2, <3>1 DEF ShutdownComesFirst
    <3> QED
      BY <1>2, <3>1, <3>3, <3>4, <3>5 DEF EveryStopAnswered
  <2> QED
    BY <1>8, <2>1, <2>2 DEF ServesClient
<1>9. CASE SchedStep
  <2>1. CASE SendsStarted \/ AnswersRunNow
    <3>1. UNCHANGED <<stopErrCh, shutdown>> /\ ~Owing /\ ~Owing'
      BY <2>1 DEF SendsStarted, AnswersRunNow
    <3>2. CASE UNCHANGED client
      BY <1>5, <3>1, <3>2
    <3>3. ASSUME NEW c \in Clients, client[c] # "stopWait", Goes(c, "idle")
          PROVE  ShutdownComesFirst' /\ EveryStopAnswered'
      BY <1>6, <3>1, <3>3 DEF ClientPcs
    <3>4. CASE caller \notin Clients /\ Goes(caller, "idle")
      BY <1>1, <1>5, <3>1, <3>4 DEF Goes
    <3> QED
      BY <2>1, <3>2, <3>3, <3>4 DEF SendsStarted, AnswersRunNow, Returns
  <2>2. CASE SendsStopErr
    <3>1. /\ stopErrCh' = Append(stopErrCh, err) /\ UNCHANGED <<client, shutdown>>
          /\ Owing /\ ~Owing'
      BY <2>2 DEF SendsStopErr
    <3>2. Len(stopErrCh') = Len(stopErrCh) + 1
      BY <1>1, <3>1
    <3>3. Owed' = Owed
      BY <1>1, <3>1, <3>2 DEF Owed
    <3> QED
      BY <1>2, <3>1, <3>3 DEF ShutdownComesFirst, EveryStopAnswered, Waiting
  <2>3. CASE ServesShutdown
    BY <2>3 DEF ServesShutdown, ShutdownComesFirst, EveryStopAnswered
  <2>4. CASE Prepare \/ Dispatch \/ StoresStopped
    BY <1>5, <2>4 DEF Prepare, Dispatch, StoresStopped
  <2>5. CASE StopsJobs \/ AwaitsDone
    BY <1>5, <2>5 DEF StopsJobs, AwaitsDone
  <2> QED
    BY <1>9, <2>1, <2>2, <2>3, <2>4, <2>5 DEF SchedStep
<1>10. ASSUME NEW k \in Execs, ExecStep(k)
       PROVE  UNCHANGED <<client, stopErrCh, shutdown>> /\ (Owing' <=> Owing)
  BY <1>10 DEF ExecStep, ExecStarts, ExecTakesStop, ExecCancels, ExecLocks, WaitReturns,
     ExecGivesUp, ExecReports, ExecFrame
<1>11. ASSUME NEW t \in Ticks, TimerFires(t) \/ RunStep(t) \/ TaskReturns(t)
       PROVE  UNCHANGED <<client, stopErrCh, shutdown>> /\ (Owing' <=> Owing)
  BY <1>11 DEF TimerFires, RunStep, TaskReturns, Delivered, CallbackGivesUp, Requests,
     ChecksExecutor, Adds, ChecksContexts, Reschedules, TickUnchanged
<1>12. CASE UNCHANGED vars
  BY <1>5, <1>12 DEF vars
<1> QED
  BY <1>5, <1>7, <1>8, <1>9, <1>10, <1>11, <1>12 DEF Next

(* Whenever the scheduler goroutine is back at its select, done holds no   *)
(* report and stopErrCh one result for each StopJobs call that was served  *)
(* and has not returned: no caller is given the result of an earlier stop, *)
(* as long as nobody gives up waiting for one.                             *)
THEOREM ResultsGoToTheirStops ==
  OneStarter /\ "sched" \notin Timeouts /\ "stop" \notin Timeouts
    => (Spec => []ReportsMatchStops)
<1> SUFFICES ASSUME OneStarter, "sched" \notin Timeouts, "stop" \notin Timeouts
             PROVE  Spec => []ReportsMatchStops
  OBVIOUS
<1>1. AnswersInv /\ [Next]_vars => AnswersInv'
  <2>1. ASSUME AnswersInv, [Next]_vars PROVE AnswersInv'
    BY <2>1, NextAnswers
  <2> QED
    BY <2>1
<1>2. AnswersInv => ReportsMatchStops
  <2> SUFFICES ASSUME AnswersInv, spc = "select", ~shutdown
               PROVE  done = <<>> /\ Len(stopErrCh) = Cardinality(Waiting)
    BY DEF ReportsMatchStops, Waiting
  <2>1. done = <<>>
    BY DEF AnswersInv, ReportInv, OneReport, AwaitsReport
  <2>2. Len(stopErrCh) \in Nat
    BY DEF AnswersInv, ReportInv, LoopInv, TypeInv, TypeOK
  <2> QED
    BY <2>1, <2>2 DEF AnswersInv, EveryStopAnswered, Owed
<1> QED
  BY InitAnswers, <1>1, <1>2, PTL DEF Spec

=============================================================================
