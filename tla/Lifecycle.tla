------------------------------ MODULE Lifecycle ------------------------------
(***************************************************************************)
(* Start, StopJobs, Shutdown and RunNow: the protocol between the callers  *)
(* of the public API, the scheduler goroutine (scheduler.go:230-276), the  *)
(* executor goroutine (executor.start) and the goroutines that run jobs.   *)
(*                                                                         *)
(* Every goroutine has a pc; a step goes up to the next point where the    *)
(* goroutine blocks or reads what another one writes.  A rendezvous on an  *)
(* unbuffered channel is one step of both sides; the channels stopErrCh    *)
(* and done, of capacity 1, are sequences.  A select with several ready    *)
(* cases takes any of them.  A rendezvous needs one side to wait first:    *)
(* where both sides also select on shutdownCtx.Done(), neither waits once  *)
(* it is closed, and no message passes any more.                           *)
(*                                                                         *)
(* The scheduler holds one job, of the standard kind.  Its table entry is  *)
(* the subject of module JobTable; here only its timer and the validity of *)
(* its context are kept.                                                   *)
(***************************************************************************)
EXTENDS Integers, Sequences, FiniteSets

CONSTANTS
  Clients,     \* callers of the API
  Ops,         \* Ops[c]: the methods client c calls
  Execs,       \* the executor goroutines, in the order they are started
  Ticks,       \* callback and run goroutines
  FirstRuns,   \* "arm", "fire": the job's first run is timed, or immediate
  Timeouts,    \* who may give up waiting: "exec", "sched", "stop", "shutdown"
  None

ASSUME ConstantAssumption ==
  /\ Ops \in [Clients -> SUBSET {"Start", "StopJobs", "Shutdown", "RunNow"}]
  /\ IsFiniteSet(Execs) /\ Execs = 1 .. Cardinality(Execs)
  /\ FirstRuns \subseteq {"arm", "fire"} /\ FirstRuns # {}
  /\ Timeouts \subseteq {"exec", "sched", "stop", "shutdown"}

VARIABLES
  shutdown,   \* shutdownCtx is done
  started,    \* s.started
  spc,        \* the scheduler goroutine's pc
  exiting,    \* stopScheduler was entered because of shutdownCtx
  err,        \* stopScheduler's err
  stopErrCh,  \* s.stopErrCh
  epc,        \* the executor goroutines' pcs
  current,    \* the executor whose context and stopOnce are e.ctx, e.stopOnce
  ctxDone,    \* executors whose context has been cancelled, stopOnce used
  waits,      \* executors whose Wait holds the wait group's mutex
  done,       \* exec.done
  timer,      \* the job's timer is armed
  orphans,    \* armed timers the job no longer points to
  tick,       \* callback and run goroutines
  client,     \* the clients' pcs
  caller,     \* the client whose RunNow the scheduler is serving
  starts,     \* history: Start calls that reached the scheduler
  startLast   \* history: the last call to return was Start

schedVars == <<spc, exiting, err, caller>>
execVars == <<epc, current, ctxDone, waits>>
timerVars == <<timer, orphans>>
historyVars == <<starts, startLast>>
vars == <<shutdown, started, schedVars, stopErrCh, execVars, done, timerVars,
          tick, client, historyVars>>

SchedPcs == {"select", "prepare", "dispatch", "started", "runNow", "stopExec",
             "stopJobs", "awaitDone", "stopErr", "stopStore", "gone"}
ExecPcs == {"none", "spawned", "loop", "stopping", "lock", "waiting",
            "reportNil", "reportTimeout", "dead", "timedOut"}
ClientPcs == {"idle", "startSend", "startWait", "stopSend", "stopWait",
              "shutRead", "shutWait", "runSend", "runWait"}
TickPcs == {"jobsIn", "request", "got", "add", "check", "resched", "task"}

(* The results of stopping: "unneeded" is the nil of a stopScheduler that  *)
(* found the scheduler not started.                                        *)
Results == {"nil", "timeout", "unneeded"}

TickType ==
  [pc : TickPcs, exec : Execs \cup {None}, live : BOOLEAN, shouldSendOut : BOOLEAN]

ASSUME NoneAssumption == None \notin Execs /\ None \notin TickType

TypeOK ==
  /\ shutdown \in BOOLEAN /\ started \in BOOLEAN
  /\ spc \in SchedPcs /\ exiting \in BOOLEAN /\ err \in Results
  /\ caller \in Clients \cup {None}
  /\ stopErrCh \in Seq(Results) /\ Len(stopErrCh) <= 1
  /\ epc \in [Execs -> ExecPcs]
  /\ current \in Execs \cup {None}
  /\ ctxDone \subseteq Execs /\ waits \subseteq Execs
  /\ done \in Seq(Results) /\ Len(done) <= 1
  /\ timer \in BOOLEAN /\ orphans \in Nat
  /\ tick \in [Ticks -> TickType \cup {None}]
  /\ client \in [Clients -> ClientPcs]
  /\ starts \in 0 .. Cardinality(Execs)
  /\ startLast \in BOOLEAN

Init ==
  /\ shutdown = FALSE /\ started = FALSE
  /\ spc = "select" /\ exiting = FALSE /\ err = "nil" /\ caller = None
  /\ stopErrCh = <<>>
  /\ epc = [k \in Execs |-> "none"]
  /\ current = None /\ ctxDone = {} /\ waits = {}
  /\ done = <<>>
  /\ timer = FALSE /\ orphans = 0
  /\ tick = [t \in Ticks |-> None]
  /\ client = [c \in Clients |-> "idle"]
  /\ starts = 0
  /\ startLast = FALSE

-----------------------------------------------------------------------------
(* Clients.                                                                *)

Goes(c, pc) == client' = [client EXCEPT ![c] = pc]

Returns(c, op) ==
  /\ Goes(c, "idle")
  /\ startLast' = (op = "Start")

(* Mutant: a started scheduler is started again.                           *)
CallStart_Again(c) ==
  /\ client[c] = "idle" /\ "Start" \in Ops[c]
  /\ starts < Cardinality(Execs)
  /\ starts' = starts + 1
  /\ Goes(c, "startSend")
  /\ UNCHANGED <<shutdown, started, schedVars, stopErrCh, execVars, done,
                 timerVars, tick, startLast>>

(* Scheduler.Start, first lines: a started scheduler is left alone.        *)
CallStart(c) ==
  /\ client[c] = "idle" /\ "Start" \in Ops[c]
  /\ \/ /\ started
        /\ Returns(c, "Start") /\ UNCHANGED starts
     \/ /\ ~started
        /\ starts < Cardinality(Execs)
        /\ starts' = starts + 1
        /\ Goes(c, "startSend") /\ UNCHANGED startLast
  /\ UNCHANGED <<shutdown, started, schedVars, stopErrCh, execVars, done,
                 timerVars, tick>>

CallStopJobs(c) ==
  /\ client[c] = "idle" /\ "StopJobs" \in Ops[c]
  /\ Goes(c, "stopSend")
  /\ UNCHANGED <<shutdown, started, schedVars, stopErrCh, execVars, done,
                 timerVars, tick, historyVars>>

(* Shutdown, once: shutdownCancel comes first.                             *)
CallShutdown(c) ==
  /\ client[c] = "idle" /\ "Shutdown" \in Ops[c]
  /\ ~shutdown
  /\ shutdown' = TRUE
  /\ Goes(c, "shutRead")
  /\ UNCHANGED <<started, schedVars, stopErrCh, execVars, done, timerVars,
                 tick, historyVars>>

CallRunNow(c) ==
  /\ client[c] = "idle" /\ "RunNow" \in Ops[c]
  /\ Goes(c, "runSend")
  /\ UNCHANGED <<shutdown, started, schedVars, stopErrCh, execVars, done,
                 timerVars, tick, historyVars>>

(* The selects of Start and StopJobsWithContext see that shutdownCtx is    *)
(* done.                                                                   *)
SeesShutdown(c) ==
  /\ shutdown
  /\ \/ client[c] = "startSend" /\ Returns(c, "Start")
     \/ client[c] = "stopSend" /\ Returns(c, "StopJobs")
  /\ UNCHANGED <<shutdown, started, schedVars, stopErrCh, execVars, done,
                 timerVars, tick, starts>>

(* Shutdown reads started: nothing to wait for when it is FALSE.           *)
ShutdownReads(c) ==
  /\ client[c] = "shutRead"
  /\ IF started THEN Goes(c, "shutWait") /\ UNCHANGED startLast
                ELSE Returns(c, "Shutdown")
  /\ UNCHANGED <<shutdown, started, schedVars, stopErrCh, execVars, done,
                 timerVars, tick, starts>>

(* StopJobs or Shutdown takes a result from stopErrCh.                     *)
ReceivesStopErr(c) ==
  /\ stopErrCh # <<>>
  /\ stopErrCh' = Tail(stopErrCh)
  /\ \/ /\ client[c] = "stopWait"
        /\ Returns(c, "StopJobs")
     \/ /\ client[c] = "shutWait"
        /\ Returns(c, "Shutdown")
  /\ UNCHANGED <<shutdown, started, schedVars, execVars, done, timerVars, tick, starts>>

(* The context of StopJobs or Shutdown expires.                            *)
GivesUpStopping(c) ==
  /\ \/ /\ "stop" \in Timeouts
        /\ client[c] \in {"stopSend", "stopWait"}
        /\ Returns(c, "StopJobs")
     \/ /\ "shutdown" \in Timeouts
        /\ client[c] = "shutWait"
        /\ Returns(c, "Shutdown")
  /\ UNCHANGED <<shutdown, started, schedVars, stopErrCh, execVars, done,
                 timerVars, tick, starts>>

(* RunNow's timers, 100ms for sending and 1s for the result.               *)
GivesUpRunNow(c) ==
  /\ client[c] \in {"runSend", "runWait"}
  /\ Returns(c, "RunNow")
  /\ UNCHANGED <<shutdown, started, schedVars, stopErrCh, execVars, done,
                 timerVars, tick, starts>>

-----------------------------------------------------------------------------
(* The scheduler goroutine.                                                *)

(* <-s.startCh, selectStart: go s.exec.start() and started.Store(true).    *)
ServesStart(c) ==
  /\ spc = "select" /\ client[c] = "startSend" /\ ~shutdown
  /\ \E k \in Execs :
       /\ epc[k] = "none" /\ \A i \in Execs : i < k => epc[i] # "none"
       /\ epc' = [epc EXCEPT ![k] = "spawned"]
  /\ started' = TRUE
  /\ spc' = "prepare"
  /\ Goes(c, "startWait")
  /\ UNCHANGED <<shutdown, exiting, err, caller, stopErrCh, current, ctxDone,
                 waits, done, timerVars, tick, starts, startLast>>

(* prepareFirstRun of the job.  An older timer is not stopped.             *)
Prepare ==
  /\ spc = "prepare"
  /\ \/ /\ "arm" \in FirstRuns
        /\ timer' = TRUE
        /\ orphans' = IF timer THEN orphans + 1 ELSE orphans
        /\ spc' = "started"
     \/ /\ "fire" \in FirstRuns
        /\ spc' = "dispatch"
        /\ UNCHANGED timerVars
  /\ UNCHANGED <<shutdown, started, exiting, err, caller, stopErrCh, execVars,
                 done, tick, client, historyVars>>

(* A jobIn reaches executor k, at its select; the goroutine for it starts. *)
Taken(t, k, sendOut) ==
  /\ epc[k] = "loop"
  /\ tick' = [tick EXCEPT ![t] = [pc |-> "request", exec |-> k, live |-> TRUE,
                                  shouldSendOut |-> sendOut]]

(* A jobIn of the scheduler reaches an executor.  (Bound: when all of      *)
(* Ticks are busy, the run is not followed.)                               *)
Sent(sendOut) ==
  \E k \in Execs :
    \/ \E t \in Ticks : tick[t] = None /\ Taken(t, k, sendOut)
    \/ /\ epc[k] = "loop" /\ \A t \in Ticks : tick[t] # None
       /\ UNCHANGED tick

(* dispatchJobRun inside selectStart.                                      *)
Dispatch ==
  /\ spc = "dispatch"
  /\ spc' = "started"
  /\ \/ shutdown /\ UNCHANGED tick
     \/ Sent(TRUE)
  /\ UNCHANGED <<shutdown, started, exiting, err, caller, stopErrCh, execVars,
                 done, timerVars, client, historyVars>>

(* The last select of selectStart: startedCh, or shutdownCtx.              *)
SendsStarted ==
  /\ spc = "started"
  /\ spc' = "select"
  /\ \/ \E c \in Clients : client[c] = "startWait" /\ Returns(c, "Start")
     \/ shutdown /\ UNCHANGED <<client, startLast>>
  /\ UNCHANGED <<shutdown, started, exiting, err, caller, stopErrCh, execVars,
                 done, timerVars, tick, starts>>

(* <-s.runJobRequestCh.                                                    *)
ServesRunNow(c) ==
  /\ spc = "select" /\ client[c] = "runSend"
  /\ spc' = "runNow" /\ caller' = c
  /\ Goes(c, "runWait")
  /\ UNCHANGED <<shutdown, started, exiting, err, stopErrCh, execVars, done,
                 timerVars, tick, historyVars>>

(* selectRunJobRequest hands the job to the executor, or sees the          *)
(* shutdown, and answers a caller that is still there.                     *)
AnswersRunNow ==
  /\ spc = "runNow"
  /\ spc' = "select" /\ caller' = None
  /\ \/ shutdown /\ UNCHANGED tick
     \/ Sent(FALSE)
  /\ IF client[caller] = "runWait" THEN Returns(caller, "RunNow")
                                   ELSE UNCHANGED <<client, startLast>>
  /\ UNCHANGED <<shutdown, started, exiting, err, stopErrCh, execVars, done,
                 timerVars, starts>>

(* stopScheduler, from <-s.stopCh and from <-s.shutdownCtx.Done().         *)
EntersStop == spc' = IF started THEN "stopExec" ELSE "stopJobs"

ServesStop(c) ==
  /\ spc = "select" /\ client[c] = "stopSend" /\ ~shutdown
  /\ EntersStop /\ exiting' = FALSE
  /\ Goes(c, "stopWait")
  /\ UNCHANGED <<shutdown, started, err, caller, stopErrCh, execVars, done,
                 timerVars, tick, historyVars>>

ServesShutdown ==
  /\ spc = "select" /\ shutdown
  /\ EntersStop /\ exiting' = TRUE
  /\ UNCHANGED <<shutdown, started, err, caller, stopErrCh, execVars, done,
                 timerVars, tick, client, historyVars>>

(* Every job's timer is stopped and its context cancelled.                 *)
StopsJobs ==
  /\ spc = "stopJobs"
  /\ spc' = IF started THEN "awaitDone" ELSE "stopErr"
  /\ err' = "unneeded"
  /\ timer' = FALSE
  /\ tick' = [t \in Ticks |-> IF tick[t] # None THEN [tick[t] EXCEPT !.live = FALSE] ELSE None]
  /\ UNCHANGED <<shutdown, started, exiting, caller, stopErrCh, execVars, done,
                 orphans, client, historyVars>>

(* Mutant: the report is left in done.                                     *)
AwaitsDone_Peeks ==
  /\ spc = "awaitDone" /\ done # <<>>
  /\ spc' = "stopErr"
  /\ err' = Head(done)
  /\ UNCHANGED <<shutdown, started, exiting, caller, stopErrCh, execVars, done,
                 timerVars, tick, client, historyVars>>

(* The executor's report, or a timer of stopTimeout + 1s.  The executor's  *)
(* own timer is a second shorter: when this one expires, no executor is    *)
(* assumed to be short of its report.  The job then gets a new context: a  *)
(* run that asks for it from now on is live again.                         *)
AwaitsDone ==
  /\ spc = "awaitDone"
  /\ spc' = "stopErr"
  /\ \/ /\ done # <<>>
        /\ err' = Head(done) /\ done' = Tail(done)
     \/ /\ "sched" \in Timeouts
        /\ \A k \in Execs : epc[k] \notin {"stopping", "lock", "waiting"}
        /\ err' = "timeout" /\ UNCHANGED done
  /\ UNCHANGED <<shutdown, started, exiting, caller, stopErrCh, execVars,
                 timerVars, tick, client, historyVars>>

(* Mutant: the send on stopErrCh takes no account of what is in it.        *)
SendsStopErr_Unbounded ==
  /\ spc = "stopErr"
  /\ stopErrCh' = Append(stopErrCh, err)
  /\ spc' = "stopStore"
  /\ UNCHANGED <<shutdown, started, exiting, err, caller, execVars, done,
                 timerVars, tick, client, historyVars>>

SendsStopErr ==
  /\ spc = "stopErr"
  /\ Len(stopErrCh) < 1
  /\ stopErrCh' = Append(stopErrCh, err)
  /\ spc' = "stopStore"
  /\ UNCHANGED <<shutdown, started, exiting, err, caller, execVars, done,
                 timerVars, tick, client, historyVars>>

(* Mutant: started keeps its value.                                        *)
StoresStopped_Forgets ==
  /\ spc = "stopStore"
  /\ spc' = IF exiting THEN "gone" ELSE "select"
  /\ UNCHANGED <<shutdown, started, exiting, err, caller, stopErrCh, execVars,
                 done, timerVars, tick, client, historyVars>>

(* started.Store(false), and back to the select or out of the goroutine.   *)
StoresStopped ==
  /\ spc = "stopStore"
  /\ started' = FALSE
  /\ spc' = IF exiting THEN "gone" ELSE "select"
  /\ UNCHANGED <<shutdown, exiting, err, caller, stopErrCh, execVars, done,
                 timerVars, tick, client, historyVars>>

-----------------------------------------------------------------------------
(* The executor goroutines.                                                *)

(* What no step of an executor goroutine changes.                          *)
ExecFrame == <<shutdown, started, exiting, err, caller, stopErrCh, timerVars, tick,
               client, historyVars>>

Moves(k, pc) == epc' = [epc EXCEPT ![k] = pc]

(* executor.start: a new e.ctx and e.stopOnce.                             *)
ExecStarts(k) ==
  /\ epc[k] = "spawned"
  /\ Moves(k, "loop")
  /\ current' = k
  /\ UNCHANGED <<ExecFrame, spc, ctxDone, waits, done>>

(* <-e.stopCh at the select.                                               *)
ExecTakesStop(k) ==
  /\ epc[k] = "loop" /\ spc = "stopExec"
  /\ Moves(k, "stopping")
  /\ spc' = "stopJobs"
  /\ UNCHANGED <<ExecFrame, current, ctxDone, waits, done>>

(* executor.stop: e.cancel() comes first, and nothing if e.stopOnce has    *)
(* been used.                                                              *)
ExecCancels(k) ==
  /\ epc[k] = "stopping"
  /\ Moves(k, IF current \in ctxDone THEN "dead" ELSE "lock")
  /\ ctxDone' = ctxDone \cup {current}
  /\ UNCHANGED <<ExecFrame, spc, current, waits, done>>

(* The runs counted by executor k's standardJobsWg.                        *)
InGroup(k) ==
  {t \in Ticks : /\ tick[t] # None /\ tick[t].exec = k
                 /\ tick[t].pc \in {"check", "resched", "task"}}

(* The goroutine that waits takes the wait group's mutex.                  *)
ExecLocks(k) ==
  /\ epc[k] = "lock"
  /\ Moves(k, "waiting")
  /\ waits' = waits \cup {k}
  /\ UNCHANGED <<ExecFrame, spc, current, ctxDone, done>>

(* Wait returns and gives the mutex back, before the report or after the   *)
(* executor has given up on it.                                            *)
WaitReturns(k) ==
  /\ k \in waits /\ InGroup(k) = {}
  /\ waits' = waits \ {k}
  /\ IF epc[k] = "waiting" THEN Moves(k, "reportNil") ELSE UNCHANGED epc
  /\ UNCHANGED <<ExecFrame, spc, current, ctxDone, done>>

(* Mutant: the executor waits for its jobs however long they take.         *)
ExecGivesUp_Never(k) == k \in Execs /\ FALSE /\ UNCHANGED vars

(* The timer of stopTimeout expires.                                       *)
ExecGivesUp(k) ==
  /\ "exec" \in Timeouts
  /\ epc[k] = "waiting"
  /\ Moves(k, "reportTimeout")
  /\ UNCHANGED <<ExecFrame, spc, current, ctxDone, waits, done>>

(* e.done <- result.                                                       *)
ExecReports(k) ==
  /\ Len(done) < 1
  /\ \/ epc[k] = "reportNil" /\ done' = Append(done, "nil") /\ Moves(k, "dead")
     \/ epc[k] = "reportTimeout" /\ done' = Append(done, "timeout") /\ Moves(k, "timedOut")
  /\ UNCHANGED <<ExecFrame, spc, current, ctxDone, waits>>

-----------------------------------------------------------------------------
(* Timer callbacks and runs.                                               *)

To(t, pc) == tick' = [tick EXCEPT ![t].pc = pc]

Ends(t) == tick' = [tick EXCEPT ![t] = None]

TickUnchanged ==
  UNCHANGED <<shutdown, started, schedVars, stopErrCh, execVars, done, timerVars,
              client, historyVars>>

(* A timer fires and its callback sends on jobsIn.                         *)
TimerFires(t) ==
  /\ tick[t] = None
  /\ \/ timer /\ timer' = FALSE /\ UNCHANGED orphans
     \/ orphans > 0 /\ orphans' = orphans - 1 /\ UNCHANGED timer
  /\ tick' = [tick EXCEPT ![t] = [pc |-> "jobsIn", exec |-> None, live |-> TRUE,
                                  shouldSendOut |-> TRUE]]
  /\ UNCHANGED <<shutdown, started, schedVars, stopErrCh, execVars, done,
                 client, historyVars>>

(* The executor receives it.  Right after, it looks at stopCh: when the    *)
(* scheduler is there, the executor stops and the jobIn is lost.           *)
Delivered(t, k) ==
  /\ tick[t] # None /\ tick[t].pc = "jobsIn"
  /\ \/ /\ spc # "stopExec"
        /\ Taken(t, k, TRUE)
        /\ UNCHANGED <<epc, spc>>
     \/ /\ spc = "stopExec" /\ epc[k] = "loop"
        /\ Ends(t)
        /\ epc' = [epc EXCEPT ![k] = "stopping"]
        /\ spc' = "stopJobs"
  /\ UNCHANGED <<shutdown, started, exiting, err, caller, stopErrCh, current,
                 ctxDone, waits, done, timerVars, client, historyVars>>

(* The callback sees the shutdown.                                         *)
CallbackGivesUp(t) ==
  /\ tick[t] # None /\ tick[t].pc = "jobsIn" /\ shutdown
  /\ Ends(t)
  /\ TickUnchanged

(* requestJobCtx: a copy of the job, or the executor's context is done.    *)
Requests(t) ==
  /\ tick[t] # None /\ tick[t].pc = "request"
  /\ \/ /\ spc = "select"
        /\ tick' = [tick EXCEPT ![t].pc = "got", ![t].live = TRUE]
     \/ /\ tick[t].exec \in ctxDone
        /\ Ends(t)
  /\ TickUnchanged

(* The dispatching goroutine looks at the executor's context.              *)
ChecksExecutor(t) ==
  /\ tick[t] # None /\ tick[t].pc = "got"
  /\ IF tick[t].exec \in ctxDone THEN Ends(t) ELSE To(t, "add")
  /\ TickUnchanged

(* standardJobsWg.Add(1): blocked while Wait holds the mutex.              *)
Adds(t) ==
  /\ tick[t] # None /\ tick[t].pc = "add"
  /\ tick[t].exec \notin waits
  /\ To(t, "check")
  /\ TickUnchanged

(* Mutant: only the executor's context is looked at.                       *)
ChecksContexts_Executor(t) ==
  /\ tick[t] # None /\ tick[t].pc = "check"
  /\ IF current \in ctxDone THEN Ends(t) ELSE To(t, "resched")
  /\ TickUnchanged

(* The first select of runJob: e.ctx and the job's context.                *)
ChecksContexts(t) ==
  /\ tick[t] # None /\ tick[t].pc = "check"
  /\ IF current \in ctxDone \/ ~tick[t].live THEN Ends(t) ELSE To(t, "resched")
  /\ TickUnchanged

(* sendOutForRescheduling: the scheduler stops the job's timer and arms    *)
(* another one, unless it is shut down; or e.ctx is done.  (Bound: the     *)
(* schedule never ends.)                                                   *)
Reschedules(t) ==
  /\ tick[t] # None /\ tick[t].pc = "resched"
  /\ \/ /\ tick[t].shouldSendOut /\ spc = "select"
        /\ timer' = (timer \/ ~shutdown)
     \/ /\ ~tick[t].shouldSendOut \/ current \in ctxDone
        /\ UNCHANGED timer
  /\ To(t, "task")
  /\ UNCHANGED <<shutdown, started, schedVars, stopErrCh, execVars, done, orphans,
                 client, historyVars>>

(* The task returns and the run leaves the wait group.                     *)
TaskReturns(t) ==
  /\ tick[t] # None /\ tick[t].pc = "task"
  /\ Ends(t)
  /\ TickUnchanged

-----------------------------------------------------------------------------
ClientStep(c) ==
  \/ CallStart(c) \/ CallStopJobs(c) \/ CallShutdown(c) \/ CallRunNow(c)
  \/ SeesShutdown(c) \/ ShutdownReads(c)
  \/ ReceivesStopErr(c) \/ GivesUpStopping(c) \/ GivesUpRunNow(c)

ServesClient(c) == ServesStart(c) \/ ServesStop(c) \/ ServesRunNow(c)

SchedStep ==
  \/ Prepare \/ Dispatch \/ SendsStarted \/ AnswersRunNow \/ ServesShutdown
  \/ StopsJobs \/ AwaitsDone \/ SendsStopErr \/ StoresStopped

ExecStep(k) ==
  \/ ExecStarts(k) \/ ExecTakesStop(k) \/ ExecCancels(k) \/ ExecLocks(k)
  \/ WaitReturns(k) \/ ExecGivesUp(k) \/ ExecReports(k)

RunStep(t) ==
  \/ \E k \in Execs : Delivered(t, k)
  \/ CallbackGivesUp(t) \/ Requests(t) \/ ChecksExecutor(t) \/ Adds(t)
  \/ ChecksContexts(t) \/ Reschedules(t)

Next ==
  \/ \E c \in Clients : ClientStep(c) \/ ServesClient(c)
  \/ SchedStep
  \/ \E k \in Execs : ExecStep(k)
  \/ \E t \in Ticks : TimerFires(t) \/ RunStep(t) \/ TaskReturns(t)

Spec == Init /\ [][Next]_vars

(* Goroutines that can run do run, except that a task may never return     *)
(* and nobody has to call the API.  A select that finds several cases      *)
(* ready picks one at random, and goroutines that wait on a channel are    *)
(* served in turn: no client that waits is passed over forever.            *)
Fairness ==
  /\ WF_vars(SchedStep)
  /\ \A k \in Execs : WF_vars(ExecStep(k))
  /\ \A t \in Ticks : WF_vars(RunStep(t))
  /\ \A c \in Clients :
       /\ SF_vars(ServesClient(c))
       /\ SF_vars(ReceivesStopErr(c))
       /\ WF_vars(SeesShutdown(c) \/ ShutdownReads(c) \/ GivesUpRunNow(c))

FairSpec == Spec /\ Fairness

-----------------------------------------------------------------------------
(* Properties.                                                             *)

(* When an executor has reported that its jobs are done none of the runs   *)
(* it took is in its task or about to be, then or later, whatever is       *)
(* started after it: cancelling before waiting, the wait group and the     *)
(* context checks of runJob together leave no gap.                         *)
StoppedIsQuiet ==
  \A k \in Execs : epc[k] \in {"reportNil", "dead"} =>
    \A t \in Ticks : (tick[t] # None /\ tick[t].exec = k)
                       => tick[t].pc \notin {"resched", "task"}

(* Whenever the scheduler goroutine is back at its select, there is an     *)
(* executor loop exactly when the scheduler says it is started, and only   *)
(* one: otherwise a send on jobsIn or stopCh has nobody to take it.        *)
ExecutorMatchesStarted ==
  LET loops == {k \in Execs : epc[k] \in {"spawned", "loop"}} IN
  spc = "select" => Cardinality(loops) = IF started THEN 1 ELSE 0

(* Back at the select no report of a stopped executor is left over in      *)
(* done, and stopErrCh holds a result for each StopJobs call that was      *)
(* served and has not taken one: a stale one would be the next caller's.   *)
ReportsMatchStops ==
  (spc = "select" /\ ~shutdown) =>
    /\ done = <<>>
    /\ Len(stopErrCh) = Cardinality({c \in Clients : client[c] = "stopWait"})

(* Every call of the API returns, even when tasks never do.                *)
CallsReturn == \A c \in Clients : client[c] # "idle" ~> client[c] = "idle"

(* "Start is non-blocking" (scheduler.go:91).                              *)
StartReturns ==
  \A c \in Clients : client[c] \in {"startSend", "startWait"} ~> client[c] = "idle"

(* Jobs stopped with StopJobs are "restarted with Start()"                 *)
(* (scheduler.go:95): after the Start of the only client has returned, the *)
(* scheduler is started.                                                   *)
StartTakesEffect ==
  (/\ startLast /\ \A c \in Clients : client[c] = "idle"
   /\ spc = "select" /\ ~shutdown) => started

=============================================================================
