-------------------------- MODULE Singleton_proofs --------------------------
(***************************************************************************)
(* Theorems about Singleton, for any number of dispatches, runners,        *)
(* versions of the job and starts of the executor, and any queue: no job   *)
(* is stranded, a nil from StopJobs means that all is quiet, the token is  *)
(* one run, a dispatch is skipped only when another one is queued or runs, *)
(* and the runs that timers dispatch exclude each other until a restart.   *)
(***************************************************************************)
EXTENDS Singleton, FiniteSetTheorems, SequenceTheorems, TLAPS

-----------------------------------------------------------------------------
(* Types, and how the goroutines hang together.                            *)

LEMMA UseProperties ==
  ASSUME TypeOK
  PROVE  /\ use.starts \in Nat \ {0} /\ use.versions \in Nat \ {0}
         /\ starts \in Nat /\ starts >= 1 /\ starts <= use.starts
         /\ None \notin RunnerType /\ None \notin DispatchType
<1>1. use.starts \in Nat \ {0} /\ use.versions \in Nat \ {0}
  BY ConstantAssumption DEF TypeOK, UseType
<1>2. RunnerType \subseteq [pc : RunnerPcs, mode : Modes, group : Nat, ctx : Nat,
                            sendOut : BOOLEAN, version : Nat, era : Nat]
  BY <1>1 DEF RunnerType, Executors
<1>3. DispatchType \subseteq [pc : DispatchPcs, by : Nat, sendOut : BOOLEAN,
                              config : Configs \cup {None}, runner : Runners \cup {None}]
  BY <1>1 DEF DispatchType, Executors
<1> QED
  BY <1>1, <1>2, <1>3, NoneAssumption DEF TypeOK, Executors

(* A runner becomes u, the others stay as they are.                        *)
LEMMA RunnerBecomes ==
  ASSUME TypeOK, NEW r \in Runners, NEW u \in RunnerType, runner' = [runner EXCEPT ![r] = u]
  PROVE  /\ runner' \in [Runners -> RunnerType \cup {None}]
         /\ runner'[r] = u /\ u # None
         /\ \A q \in Runners \ {r} : runner'[q] = runner[q]
  BY UseProperties DEF TypeOK

LEMMA RunnerGoes ==
  ASSUME TypeOK, NEW r \in Runners, runner[r] # None, NEW pc \in RunnerPcs, RGoes(r, pc)
  PROVE  /\ runner' \in [Runners -> RunnerType \cup {None}]
         /\ runner[r] \in RunnerType /\ runner'[r] \in RunnerType /\ runner'[r] # None
         /\ runner'[r].pc = pc
         /\ runner'[r].mode = runner[r].mode /\ runner'[r].group = runner[r].group
         /\ runner'[r].ctx = runner[r].ctx /\ runner'[r].sendOut = runner[r].sendOut
         /\ runner'[r].version = runner[r].version /\ runner'[r].era = runner[r].era
         /\ \A q \in Runners \ {r} : runner'[q] = runner[q]
<1> DEFINE u == [runner[r] EXCEPT !.pc = pc]
<1>1. runner[r] \in RunnerType
  BY DEF TypeOK
<1>2. /\ u \in RunnerType /\ u.pc = pc /\ u.mode = runner[r].mode /\ u.group = runner[r].group
      /\ u.ctx = runner[r].ctx /\ u.sendOut = runner[r].sendOut
      /\ u.version = runner[r].version /\ u.era = runner[r].era
  BY <1>1 DEF RunnerType
<1>3. runner' = [runner EXCEPT ![r] = u]
  BY DEF RGoes
<1> HIDE DEF u
<1> QED
  BY <1>1, <1>2, <1>3, RunnerBecomes

(* A runner that takes a jobIn and goes on.                                *)
LEMMA RunnerTakes ==
  ASSUME TypeOK, NEW r \in Runners, Takes(r), phase = "up"
  PROVE  /\ runner' \in [Runners -> RunnerType \cup {None}]
         /\ runner[r] \in RunnerType /\ runner'[r] \in RunnerType /\ runner'[r] # None
         /\ runner'[r].pc = "got" /\ runner'[r].ctx = starts /\ runner'[r].sendOut = Head(in[r])
         /\ runner'[r].mode = runner[r].mode /\ runner'[r].group = runner[r].group
         /\ \A q \in Runners \ {r} : runner'[q] = runner[q]
<1> DEFINE u == [runner[r] EXCEPT !.pc = "got", !.ctx = starts, !.sendOut = Head(in[r])]
<1>1. runner[r] \in RunnerType /\ in[r] \in Seq(BOOLEAN) /\ in[r] # <<>>
  BY DEF TypeOK, Takes, Is
<1>2. Head(in[r]) \in BOOLEAN
  BY <1>1, HeadTailProperties
<1>3. /\ u \in RunnerType /\ u.pc = "got" /\ u.mode = runner[r].mode
      /\ u.group = runner[r].group /\ u.ctx = starts /\ u.sendOut = Head(in[r])
  BY <1>1, <1>2 DEF RunnerType, RunnerPcs, TypeOK
<1>4. runner' = [runner EXCEPT ![r] = u]
  BY DEF Takes, ContextDone
<1> HIDE DEF u
<1> QED
  BY <1>1, <1>3, <1>4, RunnerBecomes

(* A runner that is given a copy of the job by the scheduler.              *)
AsksAndGets(r) ==
  /\ SchedulerServes /\ job.present
  /\ runner' = [runner EXCEPT ![r].pc = "begin", ![r].version = job.version,
                              ![r].era = Era, ![r].sendOut = @ /\ job.config.fromCompletion]

LEMMA RunnerAsks ==
  ASSUME TypeOK, NEW r \in Runners, Is(r, "got"), AsksAndGets(r)
  PROVE  /\ runner' \in [Runners -> RunnerType \cup {None}]
         /\ runner[r] \in RunnerType /\ runner'[r] \in RunnerType /\ runner'[r] # None
         /\ runner'[r].pc = "begin" /\ runner'[r].version = job.version /\ runner'[r].era = Era
         /\ runner'[r].sendOut = (runner[r].sendOut /\ job.config.fromCompletion)
         /\ runner'[r].mode = runner[r].mode /\ runner'[r].group = runner[r].group
         /\ runner'[r].ctx = runner[r].ctx
         /\ \A q \in Runners \ {r} : runner'[q] = runner[q]
<1> DEFINE so == runner[r].sendOut /\ job.config.fromCompletion
           u  == [runner[r] EXCEPT !.pc = "begin", !.version = job.version, !.era = Era,
                                   !.sendOut = so]
<1>1. runner[r] \in RunnerType
  BY DEF TypeOK, Is
<1>2. job.version \in 0 .. use.versions /\ Era \in 0 .. use.starts + 1
  BY UseProperties DEF TypeOK, Era, Executors
<1>3. so \in BOOLEAN
  OBVIOUS
<1>4. runner' = [runner EXCEPT ![r] = u]
  BY DEF AsksAndGets
<1> HIDE DEF so
<1>5. /\ u \in RunnerType /\ u.pc = "begin" /\ u.mode = runner[r].mode
      /\ u.group = runner[r].group /\ u.ctx = runner[r].ctx /\ u.sendOut = so
      /\ u.version = job.version /\ u.era = Era
  BY <1>1, <1>2, <1>3 DEF RunnerType, RunnerPcs
<1> HIDE DEF u
<1> QED
  BY <1>1, <1>4, <1>5, RunnerBecomes DEF so

LEMMA RunnerIdles ==
  ASSUME TypeOK, NEW r \in Runners, Is(r, "release"), Idles(r)
  PROVE  /\ runner' \in [Runners -> RunnerType \cup {None}]
         /\ runner[r] \in RunnerType /\ runner'[r] \in RunnerType /\ runner'[r] # None
         /\ runner'[r].pc = "select" /\ runner'[r].ctx = starts /\ ~runner'[r].sendOut
         /\ runner'[r].mode = runner[r].mode /\ runner'[r].group = runner[r].group
         /\ \A q \in Runners \ {r} : runner'[q] = runner[q]
<1> DEFINE u == [runner[r] EXCEPT !.pc = "select", !.ctx = starts, !.sendOut = FALSE,
                                  !.version = 0, !.era = 0]
<1>1. runner[r] \in RunnerType
  BY DEF TypeOK, Is
<1>2. 0 \in 0 .. use.versions /\ 0 \in 0 .. use.starts + 1 /\ starts \in Executors
  BY UseProperties DEF TypeOK
<1>3. /\ u \in RunnerType /\ u.pc = "select" /\ u.mode = runner[r].mode
      /\ u.group = runner[r].group /\ u.ctx = starts /\ ~u.sendOut
  BY <1>1, <1>2 DEF RunnerType, RunnerPcs
<1>4. runner' = [runner EXCEPT ![r] = u]
  BY DEF Idles
<1> HIDE DEF u
<1> QED
  BY <1>1, <1>3, <1>4, RunnerBecomes

(* A dispatch becomes v, the others stay as they are.                      *)
LEMMA DispatchBecomes ==
  ASSUME TypeOK, NEW d \in Dispatchers, NEW v \in DispatchType, dispatch' = [dispatch EXCEPT ![d] = v]
  PROVE  /\ dispatch' \in [Dispatchers -> DispatchType \cup {None}]
         /\ dispatch'[d] = v /\ v # None
         /\ \A e \in Dispatchers \ {d} : dispatch'[e] = dispatch[e]
  BY UseProperties DEF TypeOK

LEMMA DispatchGoes ==
  ASSUME TypeOK, NEW d \in Dispatchers, dispatch[d] # None, NEW pc \in DispatchPcs, DGoes(d, pc)
  PROVE  /\ dispatch' \in [Dispatchers -> DispatchType \cup {None}]
         /\ dispatch[d] \in DispatchType /\ dispatch'[d] \in DispatchType /\ dispatch'[d] # None
         /\ dispatch'[d].pc = pc
         /\ dispatch'[d].by = dispatch[d].by /\ dispatch'[d].sendOut = dispatch[d].sendOut
         /\ dispatch'[d].config = dispatch[d].config /\ dispatch'[d].runner = dispatch[d].runner
         /\ \A e \in Dispatchers \ {d} : dispatch'[e] = dispatch[e]
<1> DEFINE v == [dispatch[d] EXCEPT !.pc = pc]
<1>1. dispatch[d] \in DispatchType
  BY DEF TypeOK
<1>2. /\ v \in DispatchType /\ v.pc = pc /\ v.by = dispatch[d].by
      /\ v.sendOut = dispatch[d].sendOut /\ v.config = dispatch[d].config
      /\ v.runner = dispatch[d].runner
  BY <1>1 DEF DispatchType
<1>3. dispatch' = [dispatch EXCEPT ![d] = v]
  BY DEF DGoes
<1> HIDE DEF v
<1> QED
  BY <1>1, <1>2, <1>3, DispatchBecomes

LEMMA DispatchEnds ==
  ASSUME TypeOK, NEW d \in Dispatchers, DEnds(d)
  PROVE  /\ dispatch' \in [Dispatchers -> DispatchType \cup {None}]
         /\ dispatch'[d] = None
         /\ \A e \in Dispatchers \ {d} : dispatch'[e] = dispatch[e]
  BY DEF TypeOK, DEnds

(* A dispatch is started by the executor there is.                         *)
LEMMA SpawnsOne ==
  ASSUME TypeOK, NEW so \in BOOLEAN, Spawns(so)
  PROVE  /\ dispatch' \in [Dispatchers -> DispatchType \cup {None}]
         /\ \E d \in Dispatchers :
              /\ dispatch[d] = None /\ dispatch'[d] # None
              /\ dispatch'[d].pc = "request" /\ dispatch'[d].by = starts
              /\ dispatch'[d].sendOut = so /\ dispatch'[d].config = None
              /\ \A e \in Dispatchers \ {d} : dispatch'[e] = dispatch[e]
<1> DEFINE v == [pc |-> "request", by |-> starts, sendOut |-> so, config |-> None, runner |-> None]
<1>1. v \in DispatchType
  BY DEF TypeOK, DispatchType, DispatchPcs
<1>2. PICK d \in Dispatchers : dispatch[d] = None /\ dispatch' = [dispatch EXCEPT ![d] = v]
  BY DEF Spawns
<1>3. /\ v.pc = "request" /\ v.by = starts /\ v.sendOut = so /\ v.config = None
  OBVIOUS
<1> HIDE DEF v
<1> QED
  BY <1>1, <1>2, <1>3, DispatchBecomes

(* A dispatch that is given a copy of the job by the scheduler.            *)
LEMMA DispatchGetsJob ==
  ASSUME TypeOK, NEW d \in Dispatchers, At(d, "request"),
         dispatch' = [dispatch EXCEPT ![d].pc = "load", ![d].config = job.config]
  PROVE  /\ dispatch' \in [Dispatchers -> DispatchType \cup {None}]
         /\ dispatch'[d] # None /\ dispatch'[d].pc = "load"
         /\ dispatch'[d].config = job.config /\ job.config \in Configs
         /\ dispatch'[d].by = dispatch[d].by /\ dispatch'[d].sendOut = dispatch[d].sendOut
         /\ \A e \in Dispatchers \ {d} : dispatch'[e] = dispatch[e]
<1> DEFINE v == [dispatch[d] EXCEPT !.pc = "load", !.config = job.config]
<1>1. dispatch[d] \in DispatchType /\ job.config \in Configs
  BY DEF TypeOK, At
<1>2. /\ v \in DispatchType /\ v.pc = "load" /\ v.config = job.config
      /\ v.by = dispatch[d].by /\ v.sendOut = dispatch[d].sendOut
  BY <1>1 DEF DispatchType, DispatchPcs
<1>3. dispatch' = [dispatch EXCEPT ![d] = v]
  OBVIOUS
<1> HIDE DEF v
<1> QED
  BY <1>1, <1>2, <1>3, DispatchBecomes

(* A dispatch that has found, or made, the runner r.                       *)
LEMMA DispatchGetsRunner ==
  ASSUME TypeOK, NEW d \in Dispatchers, dispatch[d] # None, NEW pc \in DispatchPcs, NEW r \in Runners,
         dispatch' = [dispatch EXCEPT ![d].pc = pc, ![d].runner = r]
  PROVE  /\ dispatch' \in [Dispatchers -> DispatchType \cup {None}]
         /\ dispatch'[d] # None /\ dispatch'[d].pc = pc /\ dispatch'[d].runner = r
         /\ dispatch'[d].config = dispatch[d].config
         /\ dispatch'[d].by = dispatch[d].by /\ dispatch'[d].sendOut = dispatch[d].sendOut
         /\ \A e \in Dispatchers \ {d} : dispatch'[e] = dispatch[e]
<1> DEFINE v == [dispatch[d] EXCEPT !.pc = pc, !.runner = r]
<1>1. dispatch[d] \in DispatchType
  BY DEF TypeOK
<1>2. /\ v \in DispatchType /\ v.pc = pc /\ v.runner = r /\ v.config = dispatch[d].config
      /\ v.by = dispatch[d].by /\ v.sendOut = dispatch[d].sendOut
  BY <1>1 DEF DispatchType
<1>3. dispatch' = [dispatch EXCEPT ![d] = v]
  OBVIOUS
<1> HIDE DEF v
<1> QED
  BY <1>1, <1>2, <1>3, DispatchBecomes

(* A dispatch that has found the runner in the map.                        *)
LEMMA DispatchFinds ==
  ASSUME TypeOK, NEW d \in Dispatchers, dispatch[d] # None, registered # None,
         dispatch' = [dispatch EXCEPT ![d].pc = "offer", ![d].runner = registered]
  PROVE  /\ dispatch' \in [Dispatchers -> DispatchType \cup {None}]
         /\ dispatch'[d] # None /\ dispatch'[d].pc = "offer"
         /\ registered \in Runners /\ dispatch'[d].runner = registered
         /\ dispatch'[d].config = dispatch[d].config
         /\ dispatch'[d].by = dispatch[d].by /\ dispatch'[d].sendOut = dispatch[d].sendOut
         /\ \A e \in Dispatchers \ {d} : dispatch'[e] = dispatch[e]
<1> DEFINE v == [dispatch[d] EXCEPT !.pc = "offer", !.runner = registered]
<1>1. dispatch[d] \in DispatchType /\ registered \in Runners
  BY DEF TypeOK
<1>2. /\ v \in DispatchType /\ v.pc = "offer" /\ v.runner = registered
      /\ v.config = dispatch[d].config
      /\ v.by = dispatch[d].by /\ v.sendOut = dispatch[d].sendOut
  BY <1>1 DEF DispatchType, DispatchPcs
<1>3. dispatch' = [dispatch EXCEPT ![d] = v]
  OBVIOUS
<1> HIDE DEF v
<1> QED
  BY <1>1, <1>2, <1>3, DispatchBecomes

(* A dispatch past its load has a copy of the job, and past its store a    *)
(* runner there is; a runner that is new is started by the dispatch that   *)
(* made it and by no other; a slot without a runner has nothing in it.     *)
Toward == {"start", "offer", "push"}

DispatchesLinked ==
  \A d \in Dispatchers : dispatch[d] # None =>
    /\ dispatch[d].by <= starts
    /\ dispatch[d].pc # "request" => dispatch[d].config \in Configs
    /\ dispatch[d].pc \in Toward =>
         dispatch[d].runner \in Runners /\ runner[dispatch[d].runner] # None
    /\ dispatch[d].pc = "start" => runner[dispatch[d].runner].pc = "new"

OneStarter ==
  \A d, e \in Dispatchers :
    At(d, "start") /\ At(e, "start") /\ dispatch[d].runner = dispatch[e].runner => d = e

RunnersLinked ==
  /\ registered # None => runner[registered] # None
  /\ \A r \in Runners :
       /\ runner[r] = None => in[r] = <<>> /\ ~token[r]
       /\ runner[r] # None => runner[r].group <= runner[r].ctx /\ runner[r].ctx <= starts

Linked == DispatchesLinked /\ OneStarter /\ RunnersLinked

(* A job that has been removed is being updated.                           *)
Removed == ~job.present => job.version < use.versions

TypeInv == TypeOK /\ Removed /\ Linked

SchedulerStep ==
  RemovesJob \/ AddsJob \/ TimerFires \/ RunNow \/ Cancels \/ Blocks \/ Reports \/ Starts

LEMMA TypesKept ==
  use' = use => UNCHANGED <<Executors, RunnerType, DispatchType>>
  BY DEF Executors, RunnerType, DispatchType

(* The scheduler touches no runner, and no dispatch but the one it spawns. *)
LEMMA SchedulerTouches ==
  ASSUME SchedulerStep
  PROVE  /\ UNCHANGED <<use, in, token, runner>>
         /\ registered' = registered \/ (Starts /\ registered' = None)
         /\ \/ dispatch' = dispatch
            \/ \E so \in BOOLEAN : Spawns(so) /\ UNCHANGED <<executor, registered, job>>
<1> USE DEF SchedulerStep, executor
<1>1. UNCHANGED <<use, in, token, runner>>
  BY DEF RemovesJob, AddsJob, TimerFires, RunNow, Cancels, Blocks, Reports, Starts
<1>2. registered' = registered \/ (Starts /\ registered' = None)
  BY DEF RemovesJob, AddsJob, TimerFires, RunNow, Cancels, Blocks, Reports, Starts
<1>3. \/ dispatch' = dispatch
      \/ \E so \in BOOLEAN : Spawns(so) /\ UNCHANGED <<executor, registered, job>>
  BY DEF RemovesJob, AddsJob, TimerFires, RunNow, Cancels, Blocks, Reports, Starts
<1> QED
  BY <1>1, <1>2, <1>3

LEMMA SchedulerTypes ==
  ASSUME TypeOK, Removed, SchedulerStep
  PROVE  TypeOK' /\ Removed'
<1>0. /\ UNCHANGED <<use, in, token, runner>> /\ registered' \in Runners \cup {None}
      /\ UNCHANGED <<Executors, RunnerType, DispatchType>>
  BY SchedulerTouches, TypesKept DEF TypeOK
<1>1. dispatch' \in [Dispatchers -> DispatchType \cup {None}]
  <2>1. ASSUME NEW so \in BOOLEAN, Spawns(so)
        PROVE  dispatch' \in [Dispatchers -> DispatchType \cup {None}]
    BY <2>1, SpawnsOne
  <2> QED
    BY <2>1, SchedulerTouches DEF TypeOK
<1> DEFINE JobType == [present : BOOLEAN, version : 1 .. use.versions, config : Configs]
<1>2. /\ phase \in {"up", "cancelled", "stopped"} /\ starts \in Executors
      /\ timedOut \subseteq Executors /\ job \in JobType /\ armed \in BOOLEAN /\ strays \in Nat
      /\ job.present \in BOOLEAN /\ job.version \in 1 .. use.versions /\ use.versions \in Nat \ {0}
  BY UseProperties DEF TypeOK
<1>3. SUFFICES /\ phase' \in {"up", "cancelled", "stopped"} /\ starts' \in Executors
               /\ timedOut' \subseteq Executors /\ job' \in JobType /\ armed' \in BOOLEAN
               /\ strays' \in Nat /\ (~job'.present => job'.version < use.versions)
  BY <1>0, <1>1 DEF TypeOK, Removed
<1>4. CASE RemovesJob
  BY <1>2, <1>4 DEF RemovesJob, executor
<1>5. CASE AddsJob
  <2>1. job.version + 1 \in 1 .. use.versions
    BY <1>2, <1>5 DEF AddsJob, Removed
  <2>2. PICK c \in Configs : job' = [present |-> TRUE, version |-> job.version + 1, config |-> c]
    BY <1>5 DEF AddsJob
  <2>3. job' \in JobType /\ job'.present
    BY <2>1, <2>2
  <2>4. UNCHANGED <<phase, starts, timedOut, strays>> /\ armed' \in BOOLEAN
    BY <1>5 DEF AddsJob, executor
  <2> QED
    BY <1>2, <2>3, <2>4
<1>6. CASE TimerFires
  <2>1. /\ UNCHANGED <<phase, starts, timedOut, job>> /\ armed' \in BOOLEAN
        /\ strays' = strays \/ (strays > 0 /\ strays' = strays - 1)
    BY <1>2, <1>6 DEF TimerFires, executor
  <2> QED
    BY <1>2, <2>1 DEF Removed
<1>7. CASE RunNow
  BY <1>2, <1>7 DEF RunNow, executor, Removed
<1>8. CASE Cancels \/ Blocks
  <2>1. /\ UNCHANGED <<starts, timedOut, job>> /\ armed' = FALSE
        /\ phase' = phase \/ phase' = "cancelled"
        /\ strays' = strays \/ strays' = strays + 1
    BY <1>8 DEF Cancels, Blocks, executor
  <2>2. strays' \in Nat
    BY <1>2, <2>1
  <2> QED
    BY <1>2, <2>1, <2>2, Zenon DEF Removed
<1>9. CASE Reports
  BY <1>2, <1>9 DEF Reports, Removed
<1>10. CASE Starts
  <2>1. starts + 1 \in Executors
    BY <1>2, <1>10, UseProperties DEF Starts, Executors
  <2>2. /\ phase' = "up" /\ starts' = starts + 1 /\ UNCHANGED <<timedOut, job>>
        /\ armed' = armed \/ armed' = TRUE
        /\ strays' = strays \/ strays' = strays + 1
    BY <1>10 DEF Starts
  <2>3. strays' \in Nat
    BY <1>2, <2>2
  <2>4. armed' \in BOOLEAN
    BY <1>2, <2>2
  <2> QED
    BY <1>2, <2>1, <2>2, <2>3, <2>4, Zenon DEF Removed
<1> QED
  BY <1>4, <1>5, <1>6, <1>7, <1>8, <1>9, <1>10 DEF SchedulerStep

LEMMA SchedulerLinks ==
  ASSUME TypeInv, SchedulerStep
  PROVE  Linked'
<1> USE DEF Linked
<1>0. /\ TypeOK /\ Linked /\ UNCHANGED <<in, token, runner>>
      /\ registered' = registered \/ registered' = None
  BY SchedulerTouches DEF TypeInv
<1>1. starts \in Nat /\ starts' \in Nat /\ starts <= starts'
  <2>1. starts' = starts \/ starts' = starts + 1
    BY DEF SchedulerStep, RemovesJob, AddsJob, TimerFires, RunNow, Cancels, Blocks, Reports, Starts,
           executor
  <2> QED
    BY <1>0, <2>1, UseProperties
<1>2. RunnersLinked'
  <2>1. \A r \in Runners : runner[r] # None => runner[r].ctx \in Nat
    BY <1>0, UseProperties DEF TypeOK, RunnerType, Executors
  <2>2. \A r \in Runners : runner[r] # None => runner[r].ctx <= starts'
    BY <1>0, <1>1, <2>1 DEF RunnersLinked
  <2> QED
    BY <1>0, <2>2 DEF RunnersLinked
<1>3. CASE dispatch' = dispatch
  <2>1. \A d \in Dispatchers : dispatch[d] # None => dispatch[d].by <= starts'
    <3>1. \A d \in Dispatchers : dispatch[d] # None => dispatch[d].by \in Nat
      BY <1>0, UseProperties DEF TypeOK, DispatchType, Executors
    <3> QED
      BY <1>0, <1>1, <3>1 DEF DispatchesLinked
  <2> QED
    BY <1>0, <1>2, <1>3, <2>1 DEF DispatchesLinked, OneStarter, At
<1>4. ASSUME NEW so \in BOOLEAN, Spawns(so), UNCHANGED <<executor, registered, job>>
      PROVE  Linked'
  <2>1. starts' = starts
    BY <1>4 DEF executor
  <2>2. PICK d \in Dispatchers :
          /\ dispatch'[d] # None /\ dispatch'[d].pc = "request" /\ dispatch'[d].by = starts
          /\ \A e \in Dispatchers \ {d} : dispatch'[e] = dispatch[e]
    BY <1>0, <1>4, SpawnsOne
  <2>3. DispatchesLinked'
    BY <1>0, <1>1, <2>1, <2>2 DEF DispatchesLinked, Toward
  <2>4. OneStarter'
    BY <1>0, <2>2 DEF OneStarter, At
  <2> QED
    BY <1>2, <2>3, <2>4
<1> QED
  BY <1>3, <1>4, SchedulerTouches

(* A dispatch moves on and starts no runner.                               *)
LEMMA DispatchLinksAlone ==
  ASSUME TypeInv, NEW d \in Dispatchers, UNCHANGED <<starts, registered, runner>>,
         \A e \in Dispatchers \ {d} : dispatch'[e] = dispatch[e],
         dispatch'[d] # None =>
           /\ dispatch'[d].by <= starts /\ dispatch'[d].pc # "start"
           /\ dispatch'[d].pc # "request" => dispatch'[d].config \in Configs
           /\ dispatch'[d].pc \in Toward =>
                dispatch'[d].runner \in Runners /\ runner[dispatch'[d].runner] # None,
         \A r \in Runners : runner[r] = None => in'[r] = <<>> /\ ~token'[r]
  PROVE  Linked'
<1> USE DEF TypeInv, Linked
<1>1. DispatchesLinked'
  BY DEF DispatchesLinked, Toward
<1>2. OneStarter'
  BY DEF OneStarter, At
<1>3. RunnersLinked'
  BY DEF RunnersLinked
<1> QED
  BY <1>1, <1>2, <1>3

(* What is known of a dispatch that is past its load.                      *)
LEMMA DispatchHas ==
  ASSUME TypeInv, NEW d \in Dispatchers, dispatch[d] # None
  PROVE  /\ dispatch[d] \in DispatchType
         /\ dispatch[d].by \in Executors /\ dispatch[d].by \in Nat /\ dispatch[d].by <= starts
         /\ dispatch[d].pc # "request" => /\ dispatch[d].config \in Configs
                                          /\ dispatch[d].config.mode \in Modes
         /\ dispatch[d].pc \in Toward => /\ dispatch[d].runner \in Runners
                                         /\ runner[dispatch[d].runner] # None
                                         /\ runner[dispatch[d].runner] \in RunnerType
         /\ dispatch[d].pc = "start" => runner[dispatch[d].runner].pc = "new"
<1>1. dispatch[d] \in DispatchType /\ dispatch[d].by \in Executors /\ dispatch[d].by \in Nat
  BY UseProperties DEF TypeInv, TypeOK, DispatchType, Executors
<1>2. /\ dispatch[d].by <= starts
      /\ dispatch[d].pc # "request" => dispatch[d].config \in Configs
      /\ dispatch[d].pc \in Toward =>
           dispatch[d].runner \in Runners /\ runner[dispatch[d].runner] # None
      /\ dispatch[d].pc = "start" => runner[dispatch[d].runner].pc = "new"
  BY DEF TypeInv, Linked, DispatchesLinked
<1>3. \A c \in Configs : c.mode \in Modes
  BY DEF Configs
<1>4. \A r \in Runners : runner[r] # None => runner[r] \in RunnerType
  BY DEF TypeInv, TypeOK
<1> QED
  BY <1>1, <1>2, <1>3, <1>4

(* A dispatch makes a runner ...                                           *)
LEMMA DispatchStores ==
  ASSUME TypeInv, NEW d \in Dispatchers, Stores(d)
  PROVE  \E r \in Runners :
           /\ runner[r] = None /\ registered' = r /\ dispatch[d] # None
           /\ runner' \in [Runners -> RunnerType \cup {None}]
           /\ runner'[r] # None /\ runner'[r].pc = "new" /\ ~runner'[r].sendOut
           /\ runner'[r].mode = dispatch[d].config.mode
           /\ runner'[r].group = dispatch[d].by /\ runner'[r].ctx = starts
           /\ \A q \in Runners \ {r} : runner'[q] = runner[q]
           /\ dispatch' \in [Dispatchers -> DispatchType \cup {None}]
           /\ dispatch'[d] # None /\ dispatch'[d].pc = "start" /\ dispatch'[d].runner = r
           /\ dispatch'[d].config = dispatch[d].config
           /\ dispatch'[d].by = dispatch[d].by /\ dispatch'[d].sendOut = dispatch[d].sendOut
           /\ \A e \in Dispatchers \ {d} : dispatch'[e] = dispatch[e]
<1>0. TypeOK /\ dispatch[d] # None /\ dispatch[d].pc = "store"
  BY DEF TypeInv, Stores, At
<1> DEFINE u == [pc |-> "new", mode |-> dispatch[d].config.mode, group |-> dispatch[d].by,
                 ctx |-> starts, sendOut |-> FALSE, version |-> 0, era |-> 0]
<1>1. PICK r \in Runners :
        /\ runner[r] = None /\ registered' = r
        /\ runner' = [runner EXCEPT ![r] = u]
        /\ dispatch' = [dispatch EXCEPT ![d].pc = "start", ![d].runner = r]
  BY DEF Stores
<1>2. dispatch[d].config.mode \in Modes /\ dispatch[d].by \in Executors /\ starts \in Executors
  BY <1>0, DispatchHas DEF TypeOK
<1>3. 0 \in 0 .. use.versions /\ 0 \in 0 .. use.starts + 1
  BY <1>0, UseProperties
<1>4. u \in RunnerType
  BY <1>2, <1>3 DEF RunnerType, RunnerPcs
<1>5. /\ u.pc = "new" /\ ~u.sendOut /\ u.mode = dispatch[d].config.mode
      /\ u.group = dispatch[d].by /\ u.ctx = starts
  OBVIOUS
<1> HIDE DEF u
<1>6. /\ runner' \in [Runners -> RunnerType \cup {None}]
      /\ runner'[r] = u /\ u # None
      /\ \A q \in Runners \ {r} : runner'[q] = runner[q]
  BY <1>0, <1>1, <1>4, RunnerBecomes
<1>7. "start" \in DispatchPcs
  BY DEF DispatchPcs
<1>8. /\ dispatch' \in [Dispatchers -> DispatchType \cup {None}]
      /\ dispatch'[d] # None /\ dispatch'[d].pc = "start" /\ dispatch'[d].runner = r
      /\ dispatch'[d].config = dispatch[d].config
      /\ dispatch'[d].by = dispatch[d].by /\ dispatch'[d].sendOut = dispatch[d].sendOut
      /\ \A e \in Dispatchers \ {d} : dispatch'[e] = dispatch[e]
  BY <1>0, <1>1, <1>7, DispatchGetsRunner
<1> QED
  BY <1>0, <1>1, <1>5, <1>6, <1>8

(* ... and starts it.                                                      *)
LEMMA DispatchStarts ==
  ASSUME TypeInv, NEW d \in Dispatchers, StartsRunner(d)
  PROVE  LET r == dispatch[d].runner IN
         /\ dispatch[d] # None /\ dispatch[d].pc = "start" /\ r \in Runners
         /\ runner[r] # None /\ runner[r].pc = "new"
         /\ runner' \in [Runners -> RunnerType \cup {None}]
         /\ runner'[r] # None /\ runner'[r].pc = "select" /\ runner'[r].ctx = starts
         /\ runner'[r].mode = runner[r].mode /\ runner'[r].group = runner[r].group
         /\ runner'[r].sendOut = runner[r].sendOut
         /\ \A q \in Runners \ {r} : runner'[q] = runner[q]
         /\ dispatch' \in [Dispatchers -> DispatchType \cup {None}]
         /\ dispatch'[d] # None /\ dispatch'[d].pc = "offer"
         /\ dispatch'[d].runner = r /\ dispatch'[d].config = dispatch[d].config
         /\ dispatch'[d].by = dispatch[d].by /\ dispatch'[d].sendOut = dispatch[d].sendOut
         /\ \A e \in Dispatchers \ {d} : dispatch'[e] = dispatch[e]
<1> DEFINE r == dispatch[d].runner
           u == [runner[r] EXCEPT !.pc = "select", !.ctx = starts]
<1>1. /\ TypeOK /\ dispatch[d] # None /\ dispatch[d].pc = "start" /\ starts \in Executors
  BY DEF StartsRunner, At, TypeInv, TypeOK
<1>2. r \in Runners /\ runner[r] # None /\ runner[r] \in RunnerType /\ runner[r].pc = "new"
  BY <1>1, DispatchHas DEF Toward
<1>3. runner' = [runner EXCEPT ![r] = u]
  BY DEF StartsRunner
<1>4. /\ u \in RunnerType /\ u.pc = "select" /\ u.ctx = starts /\ u.mode = runner[r].mode
      /\ u.group = runner[r].group /\ u.sendOut = runner[r].sendOut
  BY <1>1, <1>2 DEF RunnerType, RunnerPcs
<1>5. DGoes(d, "offer") /\ "offer" \in DispatchPcs
  BY DEF StartsRunner, DispatchPcs
<1>6. /\ dispatch' \in [Dispatchers -> DispatchType \cup {None}]
      /\ dispatch'[d] # None /\ dispatch'[d].pc = "offer"
      /\ dispatch'[d].runner = r /\ dispatch'[d].config = dispatch[d].config
      /\ dispatch'[d].by = dispatch[d].by /\ dispatch'[d].sendOut = dispatch[d].sendOut
      /\ \A e \in Dispatchers \ {d} : dispatch'[e] = dispatch[e]
  BY <1>1, <1>5, DispatchGoes
<1> HIDE DEF u, r
<1>7. /\ runner' \in [Runners -> RunnerType \cup {None}]
      /\ runner'[r] = u /\ u # None
      /\ \A q \in Runners \ {r} : runner'[q] = runner[q]
  BY <1>1, <1>2, <1>3, <1>4, RunnerBecomes
<1> QED
  BY <1>1, <1>2, <1>4, <1>6, <1>7 DEF r

(* What every step of a dispatch leaves alone, and what most of them do.   *)
LEMMA DispatchTouches ==
  ASSUME NEW d \in Dispatchers, DispatchStep(d)
  PROVE  /\ UNCHANGED <<use, phase, starts, timedOut, job, strays>>
         /\ dispatch[d] # None
         /\ Stores(d) \/ StartsRunner(d) \/ UNCHANGED <<registered, runner>>
         /\ Pushes(d) \/ in' = in
         /\ Offers(d) \/ token' = token
         /\ DispatchReschedules(d) \/ armed' = armed
  BY DEF DispatchStep, Requests, Loads, Stores, StartsRunner, Skips, Offers, Pushes,
         DispatchReschedules, At, executor

(* Where a dispatch goes, and what it keeps.                               *)
LEMMA DispatchMoves ==
  ASSUME TypeInv, NEW d \in Dispatchers, DispatchStep(d)
  PROVE  /\ dispatch[d] # None
         /\ \A e \in Dispatchers \ {d} : dispatch'[e] = dispatch[e]
         /\ dispatch'[d] # None =>
              /\ dispatch'[d].by = dispatch[d].by /\ dispatch'[d].sendOut = dispatch[d].sendOut
              /\ dispatch'[d].pc # "request"
              /\ dispatch[d].pc \in Toward => dispatch'[d].runner = dispatch[d].runner
              /\ IF dispatch[d].pc = "request"
                 THEN dispatch'[d].pc = "load" /\ dispatch'[d].config = job.config
                 ELSE dispatch'[d].config = dispatch[d].config
              /\ dispatch'[d].pc = "push" => Offers(d)
              /\ dispatch'[d].pc = "resched" => Skips(d) \/ Pushes(d)
         /\ dispatch'[d] = None => Requests(d) \/ Pushes(d) \/ DispatchReschedules(d)
<1> USE DEF Toward
<1>0. TypeOK /\ dispatch[d] # None
  BY DispatchTouches DEF TypeInv
<1>1. CASE Requests(d)
  <2>1. At(d, "request")
    BY <1>1 DEF Requests
  <2>2. CASE DEnds(d)
    BY <1>0, <1>1, <2>2, DispatchEnds
  <2>3. CASE dispatch' = [dispatch EXCEPT ![d].pc = "load", ![d].config = job.config]
    BY <1>0, <2>1, <2>3, DispatchGetsJob DEF At
  <2> QED
    BY <1>1, <2>2, <2>3 DEF Requests
<1>2. CASE Loads(d)
  <2>1. CASE DGoes(d, "store")
    BY <1>0, <1>2, <2>1, DispatchGoes DEF Loads, At, DispatchPcs
  <2>2. CASE registered # None
             /\ dispatch' = [dispatch EXCEPT ![d].pc = "offer", ![d].runner = registered]
    BY <1>0, <1>2, <2>2, DispatchFinds DEF Loads, At
  <2> QED
    BY <1>2, <2>1, <2>2 DEF Loads
<1>3. CASE Stores(d)
  BY <1>3, DispatchStores DEF Stores, At
<1>4. CASE StartsRunner(d)
  BY <1>4, DispatchStarts
<1>5. CASE Skips(d)
  BY <1>0, <1>5, DispatchGoes DEF Skips, At, DispatchPcs
<1>6. CASE Offers(d)
  BY <1>0, <1>6, DispatchGoes DEF Offers, At, DispatchPcs
<1>7. CASE Pushes(d)
  <2>1. CASE DEnds(d)
    BY <1>0, <1>7, <2>1, DispatchEnds
  <2>2. CASE DGoes(d, "resched")
    BY <1>0, <1>7, <2>2, DispatchGoes DEF Pushes, At, DispatchPcs
  <2> QED
    BY <1>7, <2>1, <2>2 DEF Pushes
<1>8. CASE DispatchReschedules(d)
  BY <1>0, <1>8, DispatchEnds DEF DispatchReschedules
<1> QED
  BY <1>1, <1>2, <1>3, <1>4, <1>5, <1>6, <1>7, <1>8 DEF DispatchStep

LEMMA DispatchTypes ==
  ASSUME TypeInv, NEW d \in Dispatchers, DispatchStep(d)
  PROVE  TypeInv'
<1>0. /\ TypeOK /\ Linked /\ dispatch[d] # None /\ Removed'
      /\ UNCHANGED <<use, phase, starts, timedOut, job, strays>>
      /\ UNCHANGED <<Executors, RunnerType, DispatchType>>
  BY DispatchTouches, TypesKept DEF TypeInv, Removed
<1>1. /\ \A r \in Runners : runner[r] = None => in[r] = <<>> /\ ~token[r]
      /\ registered # None => registered \in Runners /\ runner[registered] # None
      /\ in \in [Runners -> Seq(BOOLEAN)] /\ \A r \in Runners : Len(in[r]) <= QueueCap
      /\ token \in [Runners -> BOOLEAN]
      /\ armed \in BOOLEAN /\ job.config \in Configs
  BY <1>0 DEF Linked, RunnersLinked, TypeOK
<1>2. ASSUME dispatch' \in [Dispatchers -> DispatchType \cup {None}],
             runner' \in [Runners -> RunnerType \cup {None}],
             registered' \in Runners \cup {None},
             in' \in [Runners -> Seq(BOOLEAN)], \A r \in Runners : Len(in'[r]) <= QueueCap,
             token' \in [Runners -> BOOLEAN], armed' \in BOOLEAN
      PROVE  TypeOK'
  BY <1>0, <1>2 DEF TypeOK
<1>3. ASSUME UNCHANGED <<registered, runner>>,
             in' \in [Runners -> Seq(BOOLEAN)], \A r \in Runners : Len(in'[r]) <= QueueCap,
             token' \in [Runners -> BOOLEAN], armed' \in BOOLEAN,
             dispatch' \in [Dispatchers -> DispatchType \cup {None}],
             Linked'
      PROVE  TypeInv'
  BY <1>0, <1>2, <1>3 DEF TypeInv, TypeOK
<1>4. CASE Requests(d)
  <2>1. UNCHANGED <<registered, runner, in, token, armed>> /\ At(d, "request")
    BY <1>4 DEF Requests
  <2>2. CASE DEnds(d)
    BY <1>0, <1>1, <1>3, <2>1, <2>2, DispatchEnds, DispatchLinksAlone
  <2>3. CASE dispatch' = [dispatch EXCEPT ![d].pc = "load", ![d].config = job.config]
    <3>1. /\ dispatch' \in [Dispatchers -> DispatchType \cup {None}]
          /\ dispatch'[d].pc = "load" /\ dispatch'[d].config \in Configs
          /\ dispatch'[d].by = dispatch[d].by
          /\ \A e \in Dispatchers \ {d} : dispatch'[e] = dispatch[e]
      BY <1>0, <2>1, <2>3, DispatchGetsJob
    <3>2. Linked'
      BY <1>0, <1>1, <2>1, <3>1, DispatchHas, DispatchLinksAlone DEF Toward
    <3> QED
      BY <1>1, <1>3, <2>1, <3>1, <3>2
  <2> QED
    BY <1>4, <2>2, <2>3 DEF Requests
<1>5. CASE Loads(d)
  <2>1. UNCHANGED <<registered, runner, in, token, armed>> /\ dispatch[d].pc = "load"
    BY <1>5 DEF Loads, At
  <2>2. /\ dispatch' \in [Dispatchers -> DispatchType \cup {None}]
        /\ dispatch'[d].by = dispatch[d].by /\ dispatch'[d].config = dispatch[d].config
        /\ \/ dispatch'[d].pc = "store"
           \/ /\ registered # None
              /\ dispatch'[d].pc = "offer" /\ dispatch'[d].runner = registered
        /\ \A e \in Dispatchers \ {d} : dispatch'[e] = dispatch[e]
    <3>0. "store" \in DispatchPcs /\ "offer" \in DispatchPcs
      BY DEF DispatchPcs
    <3>1. CASE DGoes(d, "store")
      BY <1>0, <3>0, <3>1, DispatchGoes
    <3>2. CASE registered # None
               /\ dispatch' = [dispatch EXCEPT ![d].pc = "offer", ![d].runner = registered]
      BY <1>0, <3>2, DispatchFinds
    <3> QED
      BY <1>5, <3>1, <3>2 DEF Loads
  <2>3. Linked'
    BY <1>0, <1>1, <2>1, <2>2, DispatchHas, DispatchLinksAlone DEF Toward
  <2> QED
    BY <1>1, <1>3, <2>1, <2>2, <2>3
<1>6. CASE Stores(d)
  <2>1. UNCHANGED <<in, token, armed>>
    BY <1>6 DEF Stores
  <2>2. PICK r \in Runners :
           /\ runner[r] = None /\ registered' = r /\ dispatch[d] # None
           /\ runner' \in [Runners -> RunnerType \cup {None}]
           /\ runner'[r] # None /\ runner'[r].pc = "new"
           /\ runner'[r].group = dispatch[d].by /\ runner'[r].ctx = starts
           /\ \A q \in Runners \ {r} : runner'[q] = runner[q]
           /\ dispatch' \in [Dispatchers -> DispatchType \cup {None}]
           /\ dispatch'[d] # None /\ dispatch'[d].pc = "start" /\ dispatch'[d].runner = r
           /\ dispatch'[d].config = dispatch[d].config
           /\ dispatch'[d].by = dispatch[d].by
           /\ \A e \in Dispatchers \ {d} : dispatch'[e] = dispatch[e]
    BY <1>6, DispatchStores
  <2>3. dispatch[d].config \in Configs /\ dispatch[d].by <= starts
    BY <1>6, <2>2, DispatchHas DEF Stores, At
  <2>4. \A e \in Dispatchers : dispatch[e] # None /\ dispatch[e].pc \in Toward
                                 => dispatch[e].runner # r
    BY <1>0, <2>2 DEF Linked, DispatchesLinked
  <2>5. DispatchesLinked'
    BY <1>0, <2>2, <2>3, <2>4 DEF Linked, DispatchesLinked, Toward
  <2>6. OneStarter'
    BY <1>0, <2>2, <2>4 DEF Linked, OneStarter, At, Toward
  <2>7. RunnersLinked'
    <3>1. starts' = starts /\ in' = in /\ token' = token /\ starts \in Nat
      BY <1>0, <2>1, UseProperties
    <3>2. runner'[r].group <= runner'[r].ctx /\ runner'[r].ctx <= starts
      BY <2>2, <2>3, <3>1
    <3>3. \A q \in Runners : runner'[q] = None => in'[q] = <<>> /\ ~token'[q]
      BY <1>1, <2>2, <3>1
    <3>4. \A q \in Runners : runner'[q] # None
            => runner'[q].group <= runner'[q].ctx /\ runner'[q].ctx <= starts
      BY <1>0, <2>2, <3>2 DEF Linked, RunnersLinked
    <3> QED
      BY <2>2, <3>1, <3>3, <3>4 DEF RunnersLinked
  <2> QED
    BY <1>0, <1>1, <1>2, <2>1, <2>2, <2>5, <2>6, <2>7 DEF TypeInv, Linked
<1>7. CASE StartsRunner(d)
  <2> DEFINE r == dispatch[d].runner
  <2>1. UNCHANGED <<registered, in, token, armed>>
    BY <1>7 DEF StartsRunner
  <2>2. /\ dispatch[d].pc = "start" /\ r \in Runners /\ runner[r] # None
        /\ runner' \in [Runners -> RunnerType \cup {None}]
        /\ runner'[r] # None /\ runner'[r].ctx = starts /\ runner'[r].group = runner[r].group
        /\ \A q \in Runners \ {r} : runner'[q] = runner[q]
        /\ dispatch' \in [Dispatchers -> DispatchType \cup {None}]
        /\ dispatch'[d] # None /\ dispatch'[d].pc = "offer"
        /\ dispatch'[d].runner = r /\ dispatch'[d].config = dispatch[d].config
        /\ dispatch'[d].by = dispatch[d].by
        /\ \A e \in Dispatchers \ {d} : dispatch'[e] = dispatch[e]
    BY <1>7, DispatchStarts
  <2>3. dispatch[d].config \in Configs /\ dispatch[d].by <= starts
    BY <1>0, <2>2, DispatchHas
  <2>4. \A e \in Dispatchers \ {d} : dispatch[e] # None /\ dispatch[e].pc = "start"
                                       => dispatch[e].runner # r
    BY <1>0, <2>2 DEF Linked, OneStarter, At
  <2>5. \A q \in Runners : runner[q] # None => runner'[q] # None
    BY <2>2
  <2> HIDE DEF r
  <2>6. DispatchesLinked'
    BY <1>0, <2>2, <2>3, <2>4, <2>5 DEF Linked, DispatchesLinked, Toward
  <2>7. OneStarter'
    BY <1>0, <2>2 DEF Linked, OneStarter, At
  <2>8. RunnersLinked'
    <3>1. runner[r].group <= starts
      <4>1. runner[r].group \in Nat /\ runner[r].ctx \in Nat
        BY <1>0, <2>2, UseProperties DEF TypeOK, RunnerType, Executors
      <4> QED
        BY <1>0, <2>2, <4>1, UseProperties DEF Linked, RunnersLinked
    <3>2. starts' = starts /\ in' = in /\ token' = token /\ registered' = registered
          /\ starts \in Nat
      BY <1>0, <2>1, UseProperties
    <3>3. \A q \in Runners : runner'[q] = None => in'[q] = <<>> /\ ~token'[q]
      BY <1>1, <2>5, <3>2
    <3>4. \A q \in Runners : runner'[q] # None
            => runner'[q].group <= runner'[q].ctx /\ runner'[q].ctx <= starts
      BY <1>0, <2>2, <3>1, <3>2 DEF Linked, RunnersLinked
    <3>5. registered # None => runner'[registered] # None
      BY <1>1, <2>5
    <3> QED
      BY <3>2, <3>3, <3>4, <3>5 DEF RunnersLinked
  <2> QED
    BY <1>0, <1>1, <1>2, <2>1, <2>2, <2>6, <2>7, <2>8 DEF TypeInv, Linked
<1>8. CASE Skips(d) \/ Offers(d) \/ Pushes(d)
  <2>1. /\ UNCHANGED <<registered, runner, armed>>
        /\ dispatch[d].pc \in {"offer", "push"}
        /\ DEnds(d) \/ \E pc \in {"push", "resched"} : DGoes(d, pc) /\ dispatch[d].pc # pc
    BY <1>8 DEF Skips, Offers, Pushes, At
  <2>2. /\ dispatch[d].by <= starts /\ dispatch[d].config \in Configs
        /\ dispatch[d].runner \in Runners /\ runner[dispatch[d].runner] # None
    BY <1>0, <2>1, DispatchHas DEF Toward
  <2>3. /\ dispatch' \in [Dispatchers -> DispatchType \cup {None}]
        /\ \A e \in Dispatchers \ {d} : dispatch'[e] = dispatch[e]
        /\ dispatch'[d] # None =>
             /\ dispatch'[d].pc \in {"push", "resched"} /\ dispatch'[d].by = dispatch[d].by
             /\ dispatch'[d].config = dispatch[d].config /\ dispatch'[d].runner = dispatch[d].runner
    <3>1. CASE DEnds(d)
      BY <1>0, <3>1, DispatchEnds
    <3>2. ASSUME NEW pc \in {"push", "resched"}, DGoes(d, pc)
          PROVE  /\ dispatch' \in [Dispatchers -> DispatchType \cup {None}]
                 /\ \A e \in Dispatchers \ {d} : dispatch'[e] = dispatch[e]
                 /\ dispatch'[d].pc = pc /\ dispatch'[d].by = dispatch[d].by
                 /\ dispatch'[d].config = dispatch[d].config
                 /\ dispatch'[d].runner = dispatch[d].runner
      <4>1. pc \in DispatchPcs
        BY DEF DispatchPcs
      <4> QED
        BY <1>0, <3>2, <4>1, DispatchGoes
    <3> QED
      BY <2>1, <3>1, <3>2
  <2>4. /\ in' \in [Runners -> Seq(BOOLEAN)] /\ \A r \in Runners : Len(in'[r]) <= QueueCap
        /\ \A r \in Runners : runner[r] = None => in'[r] = <<>>
    <3>1. CASE Pushes(d)
      <4>1. dispatch[d].sendOut \in BOOLEAN
        BY <1>0, DispatchHas DEF TypeInv, DispatchType
      <4>2. /\ Append(in[dispatch[d].runner], dispatch[d].sendOut) \in Seq(BOOLEAN)
            /\ Len(Append(in[dispatch[d].runner], dispatch[d].sendOut)) <= QueueCap
        BY <1>1, <2>2, <3>1, <4>1, AppendProperties, ConstantAssumption DEF Pushes
      <4> QED
        BY <1>1, <2>2, <3>1, <4>2 DEF Pushes
    <3>2. CASE Skips(d) \/ Offers(d)
      BY <1>1, <3>2 DEF Skips, Offers
    <3> QED
      BY <1>8, <3>1, <3>2
  <2>5. token' \in [Runners -> BOOLEAN] /\ \A r \in Runners : runner[r] = None => ~token'[r]
    BY <1>1, <1>8, <2>2 DEF Skips, Offers, Pushes
  <2>6. Linked'
    BY <1>0, <2>1, <2>2, <2>3, <2>4, <2>5, DispatchLinksAlone DEF Toward
  <2> QED
    BY <1>1, <1>3, <2>1, <2>3, <2>4, <2>5, <2>6
<1>9. CASE DispatchReschedules(d)
  <2>1. /\ UNCHANGED <<registered, runner, in, token>> /\ DEnds(d)
        /\ armed' = armed \/ armed' = (armed \/ job.present)
    BY <1>9 DEF DispatchReschedules, SendOutForRescheduling
  <2>2. armed' \in BOOLEAN
    BY <1>1, <2>1
  <2> QED
    BY <1>0, <1>1, <1>3, <2>1, <2>2, DispatchEnds, DispatchLinksAlone
<1> QED
  BY <1>4, <1>5, <1>6, <1>7, <1>8, <1>9 DEF DispatchStep

(* What every step of a runner leaves alone, and what it does to itself.   *)
LEMMA RunnerTouches ==
  ASSUME TypeOK, NEW r \in Runners, RunnerStep(r)
  PROVE  /\ UNCHANGED <<use, phase, starts, timedOut, job, strays, registered, dispatch>>
         /\ runner[r] # None /\ runner[r].pc \notin {"new", "gone"}
         /\ runner' \in [Runners -> RunnerType \cup {None}]
         /\ runner[r] \in RunnerType /\ runner'[r] \in RunnerType
         /\ runner'[r] # None /\ runner'[r].pc # "new"
         /\ runner'[r].mode = runner[r].mode /\ runner'[r].group = runner[r].group
         /\ runner'[r].ctx = runner[r].ctx \/ runner'[r].ctx = starts
         /\ \A q \in Runners \ {r} : runner'[q] = runner[q]
         /\ Takes(r) \/ in' = in
         /\ Releases(r) \/ token' = token
         /\ RunnerReschedules(r) \/ armed' = armed
<1>1. /\ UNCHANGED <<use, phase, starts, timedOut, job, strays, registered, dispatch>>
      /\ runner[r] # None /\ runner[r].pc \notin {"new", "gone"} /\ runner[r] \in RunnerType
      /\ Takes(r) \/ in' = in
      /\ Releases(r) \/ token' = token
      /\ RunnerReschedules(r) \/ armed' = armed
  BY DEF RunnerStep, Takes, Leaves, Asks, Begins, TaskReturns, RunnerReschedules, Releases, Is,
         executor, TypeOK
<1>2. ASSUME NEW pc \in RunnerPcs, RGoes(r, pc), pc # "new"
      PROVE  /\ runner' \in [Runners -> RunnerType \cup {None}]
             /\ runner'[r] \in RunnerType /\ runner'[r] # None /\ runner'[r].pc # "new"
             /\ runner'[r].mode = runner[r].mode /\ runner'[r].group = runner[r].group
             /\ runner'[r].ctx = runner[r].ctx \/ runner'[r].ctx = starts
             /\ \A q \in Runners \ {r} : runner'[q] = runner[q]
  BY <1>1, <1>2, RunnerGoes
<1>3. {"gone", "release", "task", "resched"} \subseteq RunnerPcs
  BY DEF RunnerPcs
<1>4. \/ \E pc \in RunnerPcs : RGoes(r, pc) /\ pc # "new"
      \/ Takes(r) /\ phase = "up"
      \/ Is(r, "got") /\ AsksAndGets(r)
      \/ Is(r, "release") /\ Idles(r)
  <2>1. CASE Takes(r)
    BY <1>3, <2>1 DEF Takes, ContextDone
  <2>2. CASE Leaves(r)
    BY <1>3, <2>2 DEF Leaves
  <2>3. CASE Asks(r)
    BY <1>3, <2>3 DEF Asks, AsksAndGets
  <2>4. CASE Begins(r)
    BY <1>3, <2>4 DEF Begins
  <2>5. CASE TaskReturns(r)
    BY <1>3, <2>5 DEF TaskReturns
  <2>6. CASE RunnerReschedules(r)
    BY <1>3, <2>6 DEF RunnerReschedules
  <2>7. CASE Releases(r)
    BY <2>7 DEF Releases
  <2> QED
    BY <2>1, <2>2, <2>3, <2>4, <2>5, <2>6, <2>7 DEF RunnerStep
<1>5. CASE Takes(r) /\ phase = "up"
  BY <1>1, <1>5, RunnerTakes
<1>6. CASE Is(r, "got") /\ AsksAndGets(r)
  BY <1>1, <1>6, RunnerAsks
<1>7. CASE Is(r, "release") /\ Idles(r)
  BY <1>1, <1>7, RunnerIdles
<1> QED
  BY <1>1, <1>2, <1>4, <1>5, <1>6, <1>7

LEMMA RunnerTypes ==
  ASSUME TypeInv, NEW r \in Runners, RunnerStep(r)
  PROVE  TypeInv'
<1>0. /\ TypeOK /\ Linked /\ Removed'
      /\ UNCHANGED <<use, phase, starts, timedOut, job, strays, registered, dispatch>>
      /\ UNCHANGED <<Executors, RunnerType, DispatchType>>
  BY RunnerTouches, TypesKept DEF TypeInv, Removed
<1>1. /\ runner[r] # None /\ runner[r].pc # "new"
      /\ runner' \in [Runners -> RunnerType \cup {None}]
      /\ runner[r] \in RunnerType /\ runner'[r] # None
      /\ runner'[r].group = runner[r].group
      /\ runner'[r].ctx = runner[r].ctx \/ runner'[r].ctx = starts
      /\ \A q \in Runners \ {r} : runner'[q] = runner[q]
  BY <1>0, RunnerTouches
<1>2. /\ in' \in [Runners -> Seq(BOOLEAN)] /\ \A q \in Runners : Len(in'[q]) <= QueueCap
      /\ \A q \in Runners \ {r} : in'[q] = in[q]
  <2>1. CASE Takes(r)
    <3>1. in[r] \in Seq(BOOLEAN) /\ in[r] # <<>> /\ in' = [in EXCEPT ![r] = Tail(@)]
          /\ Len(in[r]) <= QueueCap
      BY <1>0, <2>1 DEF Takes, TypeOK
    <3>2. Tail(in[r]) \in Seq(BOOLEAN) /\ Len(Tail(in[r])) <= QueueCap
      <4>1. Tail(in[r]) \in Seq(BOOLEAN) /\ Len(Tail(in[r])) = Len(in[r]) - 1
        BY <3>1, HeadTailProperties
      <4>2. Len(in[r]) \in Nat /\ QueueCap \in Nat
        BY <3>1, LenProperties, ConstantAssumption
      <4> QED
        BY <3>1, <4>1, <4>2
    <3> QED
      BY <1>0, <3>1, <3>2 DEF TypeOK
  <2> QED
    BY <1>0, <2>1, RunnerTouches DEF TypeOK
<1>3. token' \in [Runners -> BOOLEAN] /\ \A q \in Runners \ {r} : token'[q] = token[q]
  <2>1. token' = token \/ token' = [token EXCEPT ![r] = FALSE]
    BY <1>0, RunnerTouches DEF Releases
  <2> QED
    BY <1>0, <2>1 DEF TypeOK
<1>4. armed' \in BOOLEAN
  <2>1. armed' = armed \/ armed' = (armed \/ job.present)
    BY <1>0, RunnerTouches DEF RunnerReschedules, SendOutForRescheduling
  <2> QED
    BY <1>0, <2>1 DEF TypeOK
<1>5. TypeOK'
  BY <1>0, <1>1, <1>2, <1>3, <1>4 DEF TypeOK
<1>6. DispatchesLinked' /\ OneStarter'
  BY <1>0, <1>1 DEF Linked, DispatchesLinked, OneStarter, At, Toward
<1>7. RunnersLinked'
  <2>1. runner[r].group \in Nat /\ runner[r].ctx \in Nat /\ starts \in Nat
    BY <1>0, <1>1, UseProperties DEF RunnerType, Executors
  <2>2. runner'[r].group <= runner'[r].ctx /\ runner'[r].ctx <= starts
    BY <1>0, <1>1, <2>1 DEF Linked, RunnersLinked
  <2>3. /\ registered' # None => runner'[registered'] # None
        /\ \A q \in Runners : runner'[q] = None => in'[q] = <<>> /\ ~token'[q]
    BY <1>0, <1>1, <1>2, <1>3 DEF Linked, RunnersLinked, TypeOK
  <2>4. \A q \in Runners \ {r} : runner'[q] # None =>
          runner'[q].group <= runner'[q].ctx /\ runner'[q].ctx <= starts'
    BY <1>0, <1>1 DEF Linked, RunnersLinked
  <2> QED
    BY <1>0, <2>2, <2>3, <2>4 DEF RunnersLinked
<1> QED
  BY <1>0, <1>5, <1>6, <1>7 DEF TypeInv, Linked

LEMMA InitTypes == Init => TypeInv
<1> SUFFICES ASSUME Init PROVE TypeInv
  OBVIOUS
<1>1. /\ use.versions \in Nat \ {0} /\ use.starts \in Nat \ {0} /\ use \in Uses
      /\ 1 \in 1 .. use.versions /\ 1 \in 1 .. use.starts
  BY ConstantAssumption DEF Init, UseType
<1>2. job \in [present : BOOLEAN, version : 1 .. use.versions, config : Configs] /\ job.present
  BY <1>1 DEF Init
<1>3. \A r \in Runners : in[r] \in Seq(BOOLEAN) /\ Len(in[r]) <= QueueCap
  BY ConstantAssumption DEF Init
<1>4. TypeOK
  BY <1>1, <1>2, <1>3 DEF Init, TypeOK, Executors
<1> QED
  BY <1>2, <1>4, Zenon DEF Init, TypeInv, Removed, Linked, DispatchesLinked, OneStarter, RunnersLinked, At

LEMMA NextIsAStep ==
  Next <=> \/ SchedulerStep
           \/ \E d \in Dispatchers : DispatchStep(d)
           \/ \E r \in Runners : RunnerStep(r)
  BY DEF Next, SchedulerStep

LEMMA TypeInvStep == TypeInv /\ [Next]_vars => TypeInv'
<1> SUFFICES ASSUME TypeInv, [Next]_vars PROVE TypeInv'
  OBVIOUS
<1>1. CASE SchedulerStep
  BY <1>1, SchedulerTypes, SchedulerLinks DEF TypeInv
<1>2. CASE \E d \in Dispatchers : DispatchStep(d)
  BY <1>2, DispatchTypes
<1>3. CASE \E r \in Runners : RunnerStep(r)
  BY <1>3, RunnerTypes
<1>4. CASE UNCHANGED vars
  BY <1>4 DEF vars, executor, TypeInv, TypeOK, Removed, Linked, DispatchesLinked, OneStarter,
              RunnersLinked, At, Executors, RunnerType, DispatchType
<1> QED
  BY <1>1, <1>2, <1>3, <1>4, NextIsAStep

(* Every variable keeps its type, however often the job is updated and the *)
(* executor started: no version, executor or queue outgrows its bounds.    *)
THEOREM TypeCorrect == Spec => []TypeOK
<1>1. Init => TypeInv
  BY InitTypes
<1>2. TypeInv /\ [Next]_vars => TypeInv'
  BY TypeInvStep
<1>3. TypeInv => TypeOK
  BY DEF TypeInv
<1> QED
  BY <1>1, <1>2, <1>3, PTL DEF Spec

-----------------------------------------------------------------------------
(* A nil from StopJobs means that all is quiet: a runner that looks at the *)
(* context of the executor that counts it has no dispatch in its hands     *)
(* once that executor has reported nil.  It may be new, but then it is     *)
(* still to be counted, or in its select, where it waited for good.        *)

AtRest == {"new", "select", "gone"}

Quiet ==
  \A r \in Runners :
    runner[r] # None /\ runner[r].ctx = runner[r].group /\ StoppedCleanly(runner[r].group)
      => runner[r].pc \in AtRest

(* An executor that has reported nil has done so in this step only if it   *)
(* waited for its runners.                                                 *)
LEMMA ReportsNil ==
  ASSUME TypeOK, SchedulerStep, NEW k \in Nat, k <= starts, StoppedCleanly(k)'
  PROVE  StoppedCleanly(k) \/ (k = starts /\ Counted(k) = {})
<1>0. starts \in Nat
  BY UseProperties
<1>1. CASE Reports
  BY <1>0, <1>1 DEF Reports, StoppedCleanly
<1>2. CASE Starts
  BY <1>0, <1>2 DEF Starts, StoppedCleanly
<1>3. CASE Cancels
  BY <1>0, <1>3 DEF Cancels, StoppedCleanly
<1>4. CASE RemovesJob \/ AddsJob \/ TimerFires \/ RunNow \/ Blocks
  <2>1. UNCHANGED <<phase, starts, timedOut>>
    BY <1>4 DEF RemovesJob, AddsJob, TimerFires, RunNow, Blocks, executor
  <2> QED
    BY <2>1 DEF StoppedCleanly
<1> QED
  BY <1>1, <1>2, <1>3, <1>4 DEF SchedulerStep

LEMMA RunnerHas ==
  ASSUME TypeInv, NEW r \in Runners, runner[r] # None
  PROVE  /\ runner[r] \in RunnerType /\ runner[r].pc \in RunnerPcs /\ runner[r].mode \in Modes
         /\ runner[r].group \in Nat /\ runner[r].ctx \in Nat
         /\ runner[r].group <= runner[r].ctx /\ runner[r].ctx <= starts
         /\ runner[r].group <= starts /\ starts \in Nat
         /\ runner[r].sendOut \in BOOLEAN
<1>1. runner[r] \in RunnerType /\ starts \in Nat
  BY UseProperties DEF TypeInv, TypeOK
<1>2. runner[r].group \in Nat /\ runner[r].ctx \in Nat
  BY <1>1, UseProperties DEF TypeInv, RunnerType, Executors
<1>3. runner[r].group <= runner[r].ctx /\ runner[r].ctx <= starts
  BY DEF TypeInv, Linked, RunnersLinked
<1>4. runner[r].pc \in RunnerPcs /\ runner[r].mode \in Modes /\ runner[r].sendOut \in BOOLEAN
  BY <1>1 DEF RunnerType
<1> QED
  BY <1>1, <1>2, <1>3, <1>4

LEMMA QuietStep ==
  ASSUME TypeInv, Quiet, [Next]_vars
  PROVE  Quiet'
<1>0. TypeOK
  BY DEF TypeInv
<1>1. CASE SchedulerStep
  <2> SUFFICES ASSUME NEW r \in Runners, runner'[r] # None, runner'[r].ctx = runner'[r].group,
                      StoppedCleanly(runner[r].group)'
               PROVE  runner'[r].pc \in AtRest
    BY DEF Quiet
  <2>1. runner' = runner
    BY <1>1, SchedulerTouches
  <2>2. PICK k \in Nat : k = runner[r].group /\ k <= starts
    BY <2>1, RunnerHas
  <2>3. StoppedCleanly(k)'
    BY <2>1, <2>2 DEF StoppedCleanly
  <2>4. StoppedCleanly(k) \/ Counted(k) = {}
    BY <1>0, <1>1, <2>2, <2>3, ReportsNil
  <2>5. CASE StoppedCleanly(k)
    BY <2>1, <2>2, <2>5 DEF Quiet
  <2>6. CASE Counted(k) = {}
    BY <2>1, <2>2, <2>6 DEF Counted, AtRest
  <2> QED
    BY <2>4, <2>5, <2>6
<1>2. CASE \E d \in Dispatchers : DispatchStep(d)
  <2>1. PICK d \in Dispatchers : DispatchStep(d)
    BY <1>2
  <2>2. \A k : StoppedCleanly(k)' <=> StoppedCleanly(k)
    BY <2>1, DispatchTouches DEF StoppedCleanly
  <2>3. CASE Stores(d)
    BY <2>2, <2>3, DispatchStores DEF Quiet, AtRest
  <2>4. CASE StartsRunner(d)
    <3>1. /\ runner'[dispatch[d].runner].pc = "select"
          /\ \A q \in Runners \ {dispatch[d].runner} : runner'[q] = runner[q]
      BY <2>4, DispatchStarts
    <3> QED
      BY <2>2, <3>1 DEF Quiet, AtRest
  <2>5. CASE runner' = runner
    BY <2>2, <2>5 DEF Quiet
  <2> QED
    BY <2>1, <2>3, <2>4, <2>5, DispatchTouches
<1>3. CASE \E r \in Runners : RunnerStep(r)
  <2>1. PICK r \in Runners : RunnerStep(r)
    BY <1>3
  <2>2. \A k : StoppedCleanly(k)' <=> StoppedCleanly(k)
    BY <1>0, <2>1, RunnerTouches DEF StoppedCleanly
  <2>3. /\ runner[r] # None /\ runner'[r].group = runner[r].group
        /\ \A q \in Runners \ {r} : runner'[q] = runner[q]
    BY <1>0, <2>1, RunnerTouches
  <2>4. CASE Takes(r) /\ phase = "up"
    <3>1. runner'[r].ctx = starts
      BY <1>0, <2>4, RunnerTakes
    <3>2. ~StoppedCleanly(starts)
      BY <1>0, <2>4, UseProperties DEF StoppedCleanly
    <3> QED
      BY <2>2, <2>3, <3>1, <3>2 DEF Quiet
  <2>5. CASE (Takes(r) /\ phase # "up") \/ Leaves(r) \/ Releases(r)
    <3>1. runner'[r].pc \in AtRest
      <4>1. CASE RGoes(r, "gone")
        BY <1>0, <2>3, <4>1, RunnerGoes DEF AtRest, RunnerPcs
      <4>2. CASE Releases(r)
        BY <1>0, <4>2, RunnerIdles DEF AtRest, Releases
      <4> QED
        BY <2>5, <4>1, <4>2 DEF Takes, Leaves, ContextDone
    <3> QED
      BY <2>2, <2>3, <3>1 DEF Quiet
  <2>6. CASE Asks(r) \/ Begins(r) \/ TaskReturns(r) \/ RunnerReschedules(r)
    <3>1. runner[r].pc \notin AtRest
      BY <2>6 DEF Asks, Begins, TaskReturns, RunnerReschedules, Is, AtRest
    <3>2. runner'[r].ctx = runner[r].ctx
      <4>1. CASE \E pc \in RunnerPcs : RGoes(r, pc)
        BY <1>0, <2>3, <4>1, RunnerGoes
      <4>2. CASE Is(r, "got") /\ AsksAndGets(r)
        BY <1>0, <4>2, RunnerAsks
      <4> QED
        BY <2>6, <4>1, <4>2 DEF Asks, Begins, TaskReturns, RunnerReschedules, AsksAndGets, RunnerPcs
    <3> QED
      BY <2>2, <2>3, <3>1, <3>2 DEF Quiet
  <2> QED
    BY <2>1, <2>4, <2>5, <2>6 DEF RunnerStep
<1>4. CASE UNCHANGED vars
  BY <1>4 DEF vars, executor, Quiet, StoppedCleanly
<1> QED
  BY <1>1, <1>2, <1>3, <1>4, NextIsAStep

(* A nil from StopJobs means that every singleton task the executor counts *)
(* has come to its end and that no runner of it takes another, also after  *)
(* a restart, when e.ctx is a context that is not cancelled.               *)
THEOREM NilMeansQuiet == Spec => []StoppedMeansQuiet
<1>1. Init => TypeInv /\ Quiet
  BY InitTypes DEF Init, Quiet
<1>2. TypeInv /\ Quiet /\ [Next]_vars => (TypeInv /\ Quiet)'
  BY TypeInvStep, QuietStep
<1>3. TypeInv /\ Quiet => StoppedMeansQuiet
  BY DEF Quiet, StoppedMeansQuiet, Running, Is, AtRest
<1> QED
  BY <1>1, <1>2, <1>3, PTL DEF Spec

-----------------------------------------------------------------------------
(* As long as no Update changes the job's mode, the token is one run: a    *)
(* runner, and whoever looks it up, has the mode the job has.              *)

OneMode ==
  /\ \A r \in Runners : runner[r] # None => runner[r].mode = job.config.mode
  /\ \A d \in Dispatchers : dispatch[d] # None /\ dispatch[d].pc # "request" =>
       dispatch[d].config.mode = job.config.mode

LEMMA OneModeStep ==
  ASSUME TypeInv, OneMode, ~NewModes, [Next]_vars
  PROVE  OneMode'
<1>0. TypeOK
  BY DEF TypeInv
<1>1. CASE SchedulerStep
  <2>1. job'.config.mode = job.config.mode
    <3>1. CASE RemovesJob
      <4>1. job' = [job EXCEPT !.present = FALSE]
        BY <3>1 DEF RemovesJob
      <4>2. job \in [present : BOOLEAN, version : 1 .. use.versions, config : Configs]
        BY <1>0 DEF TypeOK
      <4> QED
        BY <4>1, <4>2
    <3>2. CASE AddsJob
      BY <3>2 DEF AddsJob
    <3>3. CASE ~RemovesJob /\ ~AddsJob
      BY <1>1, <3>3 DEF SchedulerStep, TimerFires, RunNow, Cancels, Blocks, Reports, Starts
    <3> QED
      BY <3>1, <3>2, <3>3
  <2>2. CASE dispatch' = dispatch
    BY <1>1, <2>1, <2>2, SchedulerTouches DEF OneMode
  <2>3. ASSUME NEW so \in BOOLEAN, Spawns(so)
        PROVE  OneMode'
    <3>1. PICK d \in Dispatchers :
            /\ dispatch'[d].pc = "request"
            /\ \A e \in Dispatchers \ {d} : dispatch'[e] = dispatch[e]
      BY <1>0, <2>3, SpawnsOne
    <3> QED
      BY <1>1, <2>1, <3>1, SchedulerTouches DEF OneMode
  <2> QED
    BY <1>1, <2>2, <2>3, SchedulerTouches
<1>2. CASE \E d \in Dispatchers : DispatchStep(d)
  <2>1. PICK d \in Dispatchers : DispatchStep(d)
    BY <1>2
  <2>2. dispatch[d] # None /\ job' = job
    BY <2>1, DispatchTouches
  <2>3. /\ \A e \in Dispatchers \ {d} : dispatch'[e] = dispatch[e]
        /\ dispatch'[d] # None =>
             /\ dispatch'[d].config = dispatch[d].config \/ dispatch'[d].config = job.config
             /\ dispatch[d].pc = "request" => dispatch'[d].config = job.config
    BY <1>0, <2>1, DispatchMoves
  <2>4. \A e \in Dispatchers : dispatch'[e] # None /\ dispatch'[e].pc # "request" =>
          dispatch'[e].config.mode = job.config.mode
    BY <2>2, <2>3 DEF OneMode
  <2>5. \A r \in Runners : runner'[r] # None => runner'[r].mode = job.config.mode
    <3>1. CASE Stores(d)
      <4>1. dispatch[d].config.mode = job.config.mode
        BY <3>1 DEF OneMode, Stores, At
      <4> QED
        BY <3>1, <4>1, DispatchStores DEF OneMode
    <3>2. CASE StartsRunner(d)
      <4>1. /\ dispatch[d].runner \in Runners /\ runner[dispatch[d].runner] # None
            /\ runner'[dispatch[d].runner].mode = runner[dispatch[d].runner].mode
            /\ \A q \in Runners \ {dispatch[d].runner} : runner'[q] = runner[q]
        BY <3>2, DispatchStarts
      <4> QED
        BY <4>1 DEF OneMode
    <3> QED
      BY <2>1, <3>1, <3>2, DispatchTouches DEF OneMode
  <2> QED
    BY <2>2, <2>4, <2>5 DEF OneMode
<1>3. CASE \E r \in Runners : RunnerStep(r)
  <2>1. PICK r \in Runners : RunnerStep(r)
    BY <1>3
  <2> QED
    BY <1>0, <2>1, RunnerTouches DEF OneMode
<1>4. CASE UNCHANGED vars
  BY <1>4 DEF vars, OneMode
<1> QED
  BY <1>1, <1>2, <1>3, <1>4, NextIsAStep

(* The dispatches that have a place in runner r and are about to fill it.  *)
Pushing(r) == {d \in Dispatchers : At(d, "push") /\ dispatch[d].runner = r}

Work(r) == Len(in[r]) + Cardinality(Pushing(r)) + (IF Holds(r) THEN 1 ELSE 0)

Balanced(r) ==
  (runner[r] # None /\ runner[r].pc # "gone" /\ runner[r].mode = "reschedule") =>
    Work(r) = (IF token[r] THEN 1 ELSE 0)

TokenInv == TypeInv /\ OneMode /\ \A r \in Runners : Balanced(r)

LEMMA PushingIsFinite ==
  ASSUME NEW r \in Runners
  PROVE  IsFiniteSet(Pushing(r)) /\ Cardinality(Pushing(r)) \in Nat
<1>1. Pushing(r) \subseteq Dispatchers /\ IsFiniteSet(Dispatchers)
  BY ConstantAssumption DEF Pushing
<1> QED
  BY <1>1, FS_Subset, FS_CardinalityType

LEMMA LengthIsNat ==
  ASSUME TypeOK, NEW r \in Runners
  PROVE  in[r] \in Seq(BOOLEAN) /\ Len(in[r]) \in Nat
  BY LenProperties DEF TypeOK

(* A runner that nobody touches, or that goes on with what it has.         *)
LEMMA StaysBalanced ==
  ASSUME NEW r \in Runners, Balanced(r), runner[r] # None, runner[r].pc # "gone",
         runner'[r].mode = runner[r].mode, in'[r] = in[r], token'[r] = token[r],
         Pushing(r)' = Pushing(r), Holds(r)' <=> Holds(r)
  PROVE  Balanced(r)'
  BY DEF Balanced, Work

LEMMA SchedulerKeepsBalance ==
  ASSUME TypeInv, SchedulerStep, NEW r \in Runners, Balanced(r)
  PROVE  Balanced(r)'
<1>1. UNCHANGED <<in, token, runner>> /\ (Holds(r)' <=> Holds(r))
  BY SchedulerTouches DEF Holds
<1>2. Pushing(r)' = Pushing(r)
  <2>1. CASE dispatch' = dispatch
    BY <2>1 DEF Pushing, At
  <2>2. ASSUME NEW so \in BOOLEAN, Spawns(so)
        PROVE  Pushing(r)' = Pushing(r)
    <3>1. PICK d \in Dispatchers :
            /\ dispatch[d] = None /\ dispatch'[d].pc = "request"
            /\ \A e \in Dispatchers \ {d} : dispatch'[e] = dispatch[e]
      BY <2>2, SpawnsOne DEF TypeInv
    <3> QED
      BY <3>1 DEF Pushing, At
  <2> QED
    BY <2>1, <2>2, SchedulerTouches
<1> QED
  BY <1>1, <1>2 DEF Balanced, Work

(* The dispatches of a runner change only when one gets its place or fills *)
(* it.                                                                     *)
LEMMA PushingChanges ==
  ASSUME TypeInv, NEW d \in Dispatchers, DispatchStep(d), NEW r \in Runners
  PROVE  /\ (~Offers(d) /\ ~Pushes(d)) \/ dispatch[d].runner # r => Pushing(r)' = Pushing(r)
         /\ Offers(d) /\ dispatch[d].runner = r =>
              d \notin Pushing(r) /\ Pushing(r)' = Pushing(r) \cup {d}
         /\ Pushes(d) /\ dispatch[d].runner = r =>
              d \in Pushing(r) /\ Pushing(r)' = Pushing(r) \ {d}
<1>1. /\ dispatch[d] # None
      /\ \A e \in Dispatchers \ {d} : dispatch'[e] = dispatch[e]
      /\ dispatch'[d] # None /\ dispatch'[d].pc = "push" => Offers(d)
      /\ dispatch'[d] # None /\ dispatch[d].pc \in Toward => dispatch'[d].runner = dispatch[d].runner
  BY DispatchMoves
<1>2. \A e \in Dispatchers \ {d} : e \in Pushing(r)' <=> e \in Pushing(r)
  BY <1>1 DEF Pushing, At
<1>3. CASE Offers(d)
  <2>1. dispatch[d].pc = "offer" /\ dispatch[d].pc \in Toward /\ DGoes(d, "push")
    BY <1>3 DEF Offers, At, Toward
  <2>2. dispatch'[d] # None /\ dispatch'[d].pc = "push" /\ dispatch'[d].runner = dispatch[d].runner
    <3>1. TypeOK /\ "push" \in DispatchPcs
      BY DEF TypeInv, DispatchPcs
    <3> QED
      BY <1>1, <2>1, <3>1, DispatchGoes
  <2>3. d \notin Pushing(r) /\ (d \in Pushing(r)' <=> dispatch[d].runner = r)
    BY <2>1, <2>2 DEF Pushing, At
  <2>4. ~Pushes(d)
    BY <2>1 DEF Pushes, At
  <2> QED
    BY <1>2, <1>3, <2>3, <2>4 DEF Pushing
<1>4. CASE Pushes(d)
  <2>1. At(d, "push") /\ dispatch[d].pc # "offer"
    BY <1>4 DEF Pushes, At
  <2>2. ~Offers(d) /\ d \notin Pushing(r)'
    BY <1>1, <2>1 DEF Offers, At, Pushing
  <2>3. d \in Pushing(r) <=> dispatch[d].runner = r
    BY <2>1 DEF Pushing
  <2> QED
    BY <1>2, <1>4, <2>2, <2>3 DEF Pushing
<1>5. CASE ~Offers(d) /\ ~Pushes(d)
  <2>1. d \notin Pushing(r)'
    BY <1>1, <1>5 DEF Pushing, At
  <2>2. d \notin Pushing(r)
    <3>1. dispatch[d].pc # "push"
      BY <1>5 DEF DispatchStep, Requests, Loads, Stores, StartsRunner, Skips, DispatchReschedules, At
    <3> QED
      BY <3>1 DEF Pushing, At
  <2> QED
    BY <1>2, <1>5, <2>1, <2>2 DEF Pushing
<1> QED
  BY <1>3, <1>4, <1>5

LEMMA DispatchKeepsBalance ==
  ASSUME TokenInv, NEW d \in Dispatchers, DispatchStep(d), NEW r \in Runners
  PROVE  Balanced(r)'
<1>0. TypeInv /\ TypeOK /\ OneMode /\ Balanced(r) /\ dispatch[d] # None
  BY DispatchTouches DEF TokenInv, TypeInv
<1>1. CASE Stores(d)
  <2>1. PICK q \in Runners :
          /\ runner[q] = None /\ runner'[q].pc = "new"
          /\ \A p \in Runners \ {q} : runner'[p] = runner[p]
    BY <1>0, <1>1, DispatchStores
  <2>2. in' = in /\ token' = token /\ ~Offers(d) /\ ~Pushes(d)
    BY <1>1 DEF Stores, Offers, Pushes, At
  <2>3. Pushing(r)' = Pushing(r)
    BY <1>0, <2>2, PushingChanges
  <2>4. CASE q = r
    <3>1. in[r] = <<>> /\ ~token[r] /\ Pushing(r) = {}
      BY <1>0, <2>1, <2>4 DEF TypeInv, Linked, RunnersLinked, DispatchesLinked, Pushing, At, Toward
    <3>2. Pushing(r)' = {} /\ in'[r] = <<>> /\ ~token'[r] /\ ~Holds(r)'
      BY <2>1, <2>2, <2>3, <2>4, <3>1 DEF Holds
    <3>3. Cardinality(Pushing(r))' = 0
      BY <3>2, FS_EmptySet
    <3> QED
      BY <3>2, <3>3 DEF Balanced, Work
  <2>5. CASE q # r
    <3>1. runner'[r] = runner[r]
      BY <2>1, <2>5
    <3> QED
      BY <1>0, <2>2, <2>3, <3>1 DEF Balanced, Work, Holds
  <2> QED
    BY <2>4, <2>5
<1>2. CASE StartsRunner(d)
  <2> DEFINE q == dispatch[d].runner
  <2>1. /\ q \in Runners /\ runner[q] # None /\ runner[q].pc = "new"
        /\ runner'[q] # None /\ runner'[q].pc = "select" /\ runner'[q].mode = runner[q].mode
        /\ \A p \in Runners \ {q} : runner'[p] = runner[p]
    BY <1>0, <1>2, DispatchStarts
  <2> HIDE DEF q
  <2>2. in' = in /\ token' = token /\ ~Offers(d) /\ ~Pushes(d)
    BY <1>2 DEF StartsRunner, Offers, Pushes, At
  <2>3. Pushing(r)' = Pushing(r)
    BY <1>0, <2>2, PushingChanges
  <2>4. CASE q = r
    <3>1. Holds(r)' <=> Holds(r)
      BY <2>1, <2>4 DEF Holds
    <3> QED
      BY <1>0, <2>1, <2>2, <2>3, <2>4, <3>1, StaysBalanced
  <2>5. CASE q # r
    <3>1. runner'[r] = runner[r]
      BY <2>1, <2>5
    <3> QED
      BY <1>0, <2>2, <2>3, <3>1 DEF Balanced, Work, Holds
  <2> QED
    BY <2>4, <2>5
<1>3. CASE Offers(d)
  <2>1. /\ UNCHANGED <<in, runner>> /\ (Holds(r)' <=> Holds(r))
        /\ dispatch[d].pc = "offer" /\ dispatch[d].pc # "request"
    BY <1>3 DEF Offers, Holds, At
  <2>2. CASE dispatch[d].runner # r
    <3>1. token'[r] = token[r]
      BY <1>0, <1>3, <2>2 DEF Offers, TypeOK
    <3>2. Pushing(r)' = Pushing(r)
      BY <1>0, <2>2, PushingChanges
    <3> QED
      BY <1>0, <2>1, <3>1, <3>2 DEF Balanced, Work
  <2>3. CASE dispatch[d].runner = r /\ dispatch[d].config.mode = "wait"
    <3>1. runner[r] # None => runner[r].mode # "reschedule"
      BY <1>0, <2>1, <2>3 DEF OneMode
    <3> QED
      BY <2>1, <3>1 DEF Balanced
  <2>4. CASE dispatch[d].runner = r /\ dispatch[d].config.mode # "wait"
    <3>1. HasRoom(r) /\ ~token[r] /\ token'[r]
      BY <1>0, <1>3, <2>4 DEF Offers, HasRoom, TypeOK
    <3>2. d \notin Pushing(r) /\ Pushing(r)' = Pushing(r) \cup {d}
      BY <1>0, <1>3, <2>4, PushingChanges
    <3>3. Cardinality(Pushing(r))' = Cardinality(Pushing(r)) + 1
      BY <3>2, PushingIsFinite, FS_AddElement
    <3>4. Cardinality(Pushing(r)) \in Nat /\ Len(in[r]) \in Nat
      BY <1>0, PushingIsFinite, LengthIsNat
    <3>5. Work(r)' = Work(r) + 1
      BY <2>1, <3>3, <3>4 DEF Work
    <3> QED
      BY <1>0, <2>1, <3>1, <3>5 DEF Balanced
  <2> QED
    BY <2>2, <2>3, <2>4
<1>4. CASE Pushes(d)
  <2>1. /\ UNCHANGED <<token, runner>> /\ (Holds(r)' <=> Holds(r))
        /\ dispatch[d].pc = "push" /\ dispatch[d].pc \in Toward
    BY <1>4 DEF Pushes, Holds, At, Toward
  <2>2. CASE dispatch[d].runner # r
    <3>1. in'[r] = in[r]
      BY <1>0, <1>4, <2>2 DEF Pushes, TypeOK
    <3>2. Pushing(r)' = Pushing(r)
      BY <1>0, <2>2, PushingChanges
    <3> QED
      BY <1>0, <2>1, <3>1, <3>2 DEF Balanced, Work
  <2>3. CASE dispatch[d].runner = r
    <3>1. d \in Pushing(r) /\ Pushing(r)' = Pushing(r) \ {d}
      BY <1>0, <1>4, <2>3, PushingChanges
    <3>2. Cardinality(Pushing(r))' = Cardinality(Pushing(r)) - 1
      BY <3>1, PushingIsFinite, FS_RemoveElement
    <3>3. Cardinality(Pushing(r)) \in Nat /\ Len(in[r]) \in Nat /\ in[r] \in Seq(BOOLEAN)
      BY <1>0, PushingIsFinite, LengthIsNat
    <3>4. dispatch[d].sendOut \in BOOLEAN
      BY <1>0, DispatchHas DEF DispatchType
    <3>5. in'[r] = Append(in[r], dispatch[d].sendOut)
      BY <1>0, <1>4, <2>3 DEF Pushes, TypeOK
    <3>6. Len(in'[r]) = Len(in[r]) + 1
      BY <3>3, <3>4, <3>5, AppendProperties
    <3>7. Work(r)' = Work(r)
      BY <2>1, <3>2, <3>3, <3>6 DEF Work
    <3> QED
      BY <1>0, <2>1, <3>7 DEF Balanced
  <2> QED
    BY <2>2, <2>3
<1>5. CASE Requests(d) \/ Loads(d) \/ Skips(d) \/ DispatchReschedules(d)
  <2>1. UNCHANGED <<in, token, runner>> /\ ~Offers(d) /\ ~Pushes(d)
    BY <1>5 DEF Requests, Loads, Skips, DispatchReschedules, Offers, Pushes, At, DGoes
  <2>2. Pushing(r)' = Pushing(r)
    BY <1>0, <2>1, PushingChanges
  <2> QED
    BY <1>0, <2>1, <2>2 DEF Balanced, Work, Holds
<1> QED
  BY <1>1, <1>2, <1>3, <1>4, <1>5 DEF DispatchStep

LEMMA RunnerKeepsBalance ==
  ASSUME TokenInv, NEW q \in Runners, RunnerStep(q), NEW r \in Runners
  PROVE  Balanced(r)'
<1>0. TypeInv /\ TypeOK /\ OneMode /\ Balanced(r)
  BY DEF TokenInv, TypeInv
<1>1. /\ dispatch' = dispatch /\ Pushing(r)' = Pushing(r)
      /\ runner[q] # None /\ runner[q].pc \notin {"new", "gone"} /\ runner[q] \in RunnerType
      /\ runner'[q] # None /\ runner'[q].mode = runner[q].mode
      /\ \A p \in Runners \ {q} : runner'[p] = runner[p]
      /\ Takes(q) \/ in' = in
      /\ Releases(q) \/ token' = token
  BY <1>0, RunnerTouches DEF Pushing, At
<1>2. Cardinality(Pushing(r)) \in Nat /\ Len(in[r]) \in Nat /\ in[r] \in Seq(BOOLEAN)
  BY <1>0, PushingIsFinite, LengthIsNat
<1>3. CASE q # r
  <2>1. runner'[r] = runner[r] /\ in'[r] = in[r] /\ token'[r] = token[r]
    BY <1>0, <1>1, <1>3 DEF Takes, Releases, TypeOK
  <2> QED
    BY <1>0, <1>1, <2>1 DEF Balanced, Work, Holds
<1>4. CASE q = r /\ (Leaves(r) \/ (Takes(r) /\ phase # "up"))
  <2>1. RGoes(r, "gone") /\ "gone" \in RunnerPcs
    BY <1>4 DEF Leaves, Takes, ContextDone, RunnerPcs
  <2>2. runner'[r].pc = "gone"
    BY <1>0, <1>1, <1>4, <2>1, RunnerGoes
  <2> QED
    BY <2>2 DEF Balanced
<1>5. CASE q = r /\ Takes(r) /\ phase = "up"
  <2>1. runner[r].pc = "select" /\ in[r] # <<>> /\ in'[r] = Tail(in[r]) /\ token'[r] = token[r]
    BY <1>0, <1>1, <1>5 DEF Takes, Is, TypeOK
  <2>2. runner'[r].pc = "got"
    BY <1>0, <1>5, RunnerTakes
  <2>3. ~Holds(r) /\ Holds(r)'
    BY <1>1, <1>5, <2>1, <2>2 DEF Holds
  <2>4. Len(in'[r]) = Len(in[r]) - 1
    BY <1>2, <2>1, HeadTailProperties
  <2>5. Work(r)' = Work(r)
    BY <1>1, <1>2, <2>3, <2>4 DEF Work
  <2> QED
    BY <1>0, <1>1, <1>5, <2>1, <2>5 DEF Balanced
<1>6. CASE q = r /\ (Asks(r) \/ Begins(r) \/ TaskReturns(r) \/ RunnerReschedules(r))
  <2>1. in' = in /\ token' = token /\ Holds(r)
    BY <1>6 DEF Asks, Begins, TaskReturns, RunnerReschedules, Holds, Is
  <2>2. runner'[r].pc \notin {"new", "select", "gone"}
    <3>1. ASSUME NEW pc \in {"release", "task", "resched"}, RGoes(r, pc)
          PROVE  runner'[r].pc = pc
      <4>1. pc \in RunnerPcs
        BY DEF RunnerPcs
      <4> QED
        BY <1>0, <1>1, <1>6, <3>1, <4>1, RunnerGoes
    <3>2. CASE Is(r, "got") /\ AsksAndGets(r)
      BY <1>0, <3>2, RunnerAsks
    <3> QED
      BY <1>6, <3>1, <3>2 DEF Asks, Begins, TaskReturns, RunnerReschedules, AsksAndGets
  <2>3. Holds(r)'
    BY <1>1, <1>6, <2>2 DEF Holds
  <2> QED
    BY <1>0, <1>1, <1>6, <2>1, <2>3, StaysBalanced DEF Holds
<1>7. CASE q = r /\ Releases(r)
  <2>1. in' = in /\ runner[r].pc = "release" /\ Holds(r)
    BY <1>7 DEF Releases, Is, Holds
  <2>2. runner'[r].pc = "select" /\ ~Holds(r)'
    BY <1>0, <1>7, RunnerIdles DEF Releases, Holds
  <2>3. CASE runner[r].mode = "wait"
    BY <1>1, <1>7, <2>3 DEF Balanced
  <2>4. CASE runner[r].mode = "reschedule" /\ token[r] /\ token' = [token EXCEPT ![r] = FALSE]
    <3>1. ~token'[r]
      BY <1>0, <2>4 DEF TypeOK
    <3>2. Work(r)' = Work(r) - 1
      BY <1>1, <1>2, <2>1, <2>2 DEF Work
    <3>3. Work(r) = 1
      BY <1>0, <1>1, <1>7, <2>1, <2>4 DEF Balanced
    <3> QED
      BY <3>1, <3>2, <3>3 DEF Balanced
  <2> QED
    BY <1>7, <2>3, <2>4 DEF Releases
<1> QED
  BY <1>3, <1>4, <1>5, <1>6, <1>7 DEF RunnerStep

LEMMA TokenInvStep ==
  ASSUME TokenInv, ~NewModes, [Next]_vars
  PROVE  TokenInv'
<1>1. TypeInv' /\ OneMode'
  BY TypeInvStep, OneModeStep DEF TokenInv
<1>2. ASSUME NEW r \in Runners
      PROVE  Balanced(r)'
  <2>1. CASE SchedulerStep
    BY <2>1, SchedulerKeepsBalance DEF TokenInv
  <2>2. CASE \E d \in Dispatchers : DispatchStep(d)
    BY <2>2, DispatchKeepsBalance
  <2>3. CASE \E q \in Runners : RunnerStep(q)
    BY <2>3, RunnerKeepsBalance
  <2>4. CASE UNCHANGED vars
    BY <2>4 DEF vars, TokenInv, Balanced, Work, Holds, Pushing, At
  <2> QED
    BY <2>1, <2>2, <2>3, <2>4, NextIsAStep
<1> QED
  BY <1>1, <1>2 DEF TokenInv

(* In reschedule mode the limiter's token is one run, on its way into the  *)
(* runner, in its channel or in its hands, whoever dispatches, through     *)
(* updates that keep the mode, stops, timeouts and restarts.               *)
THEOREM TokensAreRuns == ~NewModes => (Spec => []TokenIsOneRun)
<1> SUFFICES ASSUME ~NewModes
             PROVE  Spec => []TokenIsOneRun
  OBVIOUS
<1>1. Init => TokenInv
  BY InitTypes DEF Init, TokenInv, OneMode, Balanced
<1>2. TokenInv /\ [Next]_vars => TokenInv'
  BY TokenInvStep
<1>3. TokenInv => TokenIsOneRun
  BY DEF TokenInv, TokenIsOneRun, Balanced, Work, Pushing
<1> QED
  BY <1>1, <1>2, <1>3, PTL DEF Spec

-----------------------------------------------------------------------------
(* While the executor is up, the runner in its map is one of its own and   *)
(* has not left, and so are those its dispatches are bound for.  Runners   *)
(* of an earlier executor were in an earlier map.                          *)

Tends(r) == runner[r].pc # "gone" /\ runner[r].ctx = starts

Current ==
  phase = "up" =>
    /\ registered # None => Tends(registered)
    /\ \A d \in Dispatchers :
         dispatch[d] # None /\ dispatch[d].by = starts /\ dispatch[d].pc \in Toward
           => Tends(dispatch[d].runner)

LEMMA TendsOn ==
  ASSUME TypeInv, NEW r \in Runners, runner[r] # None, Tends(r), phase = "up",
         NEW q \in Runners, RunnerStep(q)
  PROVE  Tends(r)'
<1>0. TypeOK /\ starts' = starts
  BY RunnerTouches DEF TypeInv
<1>1. /\ runner'[q].ctx = runner[q].ctx \/ runner'[q].ctx = starts
      /\ runner[q] # None /\ \A p \in Runners \ {q} : runner'[p] = runner[p]
  BY <1>0, RunnerTouches
<1>2. CASE q # r
  BY <1>0, <1>1, <1>2 DEF Tends
<1>3. CASE q = r
  <2>1. ~Leaves(r)
    BY DEF Leaves, ContextDone, Tends
  <2>2. runner'[r].pc # "gone"
    <3>1. CASE Takes(r)
      BY <1>0, <3>1, RunnerTakes
    <3>2. CASE Is(r, "got") /\ AsksAndGets(r)
      BY <1>0, <3>2, RunnerAsks
    <3>3. CASE Releases(r)
      BY <1>0, <3>3, RunnerIdles DEF Releases
    <3>4. ASSUME NEW pc \in {"release", "task", "resched"}, RGoes(r, pc)
          PROVE  runner'[r].pc # "gone"
      <4>1. pc \in RunnerPcs
        BY DEF RunnerPcs
      <4> QED
        BY <1>0, <3>4, <4>1, RunnerGoes
    <3> QED
      BY <1>3, <2>1, <3>1, <3>2, <3>3, <3>4
         DEF RunnerStep, Asks, Begins, TaskReturns, RunnerReschedules, AsksAndGets
  <2> QED
    BY <1>0, <1>1, <1>3, <2>2 DEF Tends
<1> QED
  BY <1>2, <1>3

(* Where a dispatch finds, or makes, the runner it is bound for.           *)
LEMMA DispatchFindsCurrent ==
  ASSUME TypeInv, Current, phase = "up", NEW d \in Dispatchers, DispatchStep(d)
  PROVE  Current'
<1>0. /\ TypeOK /\ Linked /\ UNCHANGED <<phase, starts>> /\ dispatch[d] # None
      /\ \A e \in Dispatchers \ {d} : dispatch'[e] = dispatch[e]
      /\ dispatch'[d] # None => dispatch'[d].by = dispatch[d].by
      /\ dispatch'[d] # None /\ dispatch[d].pc \in Toward => dispatch'[d].runner = dispatch[d].runner
      /\ registered # None => registered \in Runners /\ Tends(registered)
      /\ \A e \in Dispatchers :
           dispatch[e] # None /\ dispatch[e].by = starts /\ dispatch[e].pc \in Toward
             => /\ dispatch[e].runner \in Runners /\ runner[dispatch[e].runner] # None
                /\ Tends(dispatch[e].runner)
      /\ registered # None => runner[registered] # None
  BY DispatchTouches, DispatchMoves
     DEF TypeInv, TypeOK, Current, Linked, DispatchesLinked, RunnersLinked
<1>1. CASE Loads(d)
  <2>1. UNCHANGED <<registered, runner>> /\ dispatch[d].pc = "load"
    BY <1>1 DEF Loads, At
  <2>2. dispatch'[d].pc \in Toward => registered # None /\ dispatch'[d].runner = registered
    <3>1. CASE DGoes(d, "store")
      BY <1>0, <3>1, DispatchGoes DEF Toward, DispatchPcs
    <3>2. CASE registered # None
               /\ dispatch' = [dispatch EXCEPT ![d].pc = "offer", ![d].runner = registered]
      BY <1>0, <3>2, DispatchFinds
    <3> QED
      BY <1>1, <3>1, <3>2 DEF Loads
  <2> QED
    BY <1>0, <2>1, <2>2 DEF Current, Tends
<1>2. CASE Stores(d)
  <2>1. PICK r \in Runners :
          /\ runner[r] = None /\ registered' = r
          /\ runner'[r].pc = "new" /\ runner'[r].ctx = starts
          /\ \A q \in Runners \ {r} : runner'[q] = runner[q]
          /\ dispatch'[d].runner = r
    BY <1>2, DispatchStores
  <2> QED
    BY <1>0, <2>1 DEF Current, Tends
<1>3. CASE StartsRunner(d)
  <2> DEFINE r == dispatch[d].runner
  <2>1. /\ r \in Runners /\ runner'[r].pc = "select" /\ runner'[r].ctx = starts
        /\ \A q \in Runners \ {r} : runner'[q] = runner[q]
        /\ dispatch[d].pc = "start"
    BY <1>3, DispatchStarts
  <2>2. registered' = registered /\ (dispatch'[d] # None => dispatch'[d].runner = r)
    BY <1>0, <1>3, <2>1 DEF StartsRunner, Toward
  <2> HIDE DEF r
  <2> QED
    BY <1>0, <2>1, <2>2 DEF Current, Tends
<1>4. CASE Requests(d) \/ Skips(d) \/ Offers(d) \/ Pushes(d) \/ DispatchReschedules(d)
  <2>1. UNCHANGED <<registered, runner>>
    BY <1>4 DEF Requests, Skips, Offers, Pushes, DispatchReschedules
  <2>2. dispatch'[d] # None /\ dispatch'[d].pc \in Toward => dispatch[d].pc \in Toward
    <3>1. dispatch[d].pc \in {"request", "offer", "push", "resched"}
      BY <1>4 DEF Requests, Skips, Offers, Pushes, DispatchReschedules, At
    <3>2. dispatch[d].pc = "request" => dispatch'[d] = None \/ dispatch'[d].pc = "load"
      BY DispatchMoves
    <3>3. dispatch[d].pc = "resched" => dispatch'[d] = None
      <4>1. dispatch[d].pc = "resched" => DispatchReschedules(d)
        BY <1>4 DEF Requests, Skips, Offers, Pushes, At
      <4> QED
        BY <1>0, <4>1, DispatchEnds DEF DispatchReschedules
    <3> QED
      BY <3>1, <3>2, <3>3 DEF Toward
  <2> QED
    BY <1>0, <2>1, <2>2 DEF Current, Tends
<1> QED
  BY <1>1, <1>2, <1>3, <1>4 DEF DispatchStep

LEMMA CurrentStep ==
  ASSUME TypeInv, Current, [Next]_vars
  PROVE  Current'
<1>0. TypeOK /\ Linked
  BY DEF TypeInv
<1>1. CASE SchedulerStep
  <2>1. UNCHANGED <<runner>> /\ (registered' = registered \/ (Starts /\ registered' = None))
    BY <1>1, SchedulerTouches
  <2>2. CASE Starts
    <3>1. dispatch' = dispatch /\ registered' = None /\ starts' = starts + 1 /\ starts \in Nat
      BY <1>0, <2>2, UseProperties DEF Starts
    <3>2. \A d \in Dispatchers : dispatch[d] # None => dispatch[d].by # starts'
      BY <3>1, DispatchHas
    <3> QED
      BY <3>1, <3>2 DEF Current
  <2>3. CASE ~Starts
    <3>1. phase' = "up" => phase = "up" /\ starts' = starts
      BY <1>1, <2>3 DEF SchedulerStep, RemovesJob, AddsJob, TimerFires, RunNow, Cancels, Blocks,
                        Reports, executor
    <3>2. CASE dispatch' = dispatch
      BY <2>1, <2>3, <3>1, <3>2 DEF Current, Tends
    <3>3. ASSUME NEW so \in BOOLEAN, Spawns(so)
          PROVE  Current'
      <4>1. PICK d \in Dispatchers :
              /\ dispatch'[d].pc = "request"
              /\ \A e \in Dispatchers \ {d} : dispatch'[e] = dispatch[e]
        BY <1>0, <3>3, SpawnsOne
      <4> QED
        BY <2>1, <2>3, <3>1, <4>1 DEF Current, Tends, Toward
    <3> QED
      BY <1>1, <3>2, <3>3, SchedulerTouches
  <2> QED
    BY <2>2, <2>3
<1>2. CASE \E d \in Dispatchers : DispatchStep(d)
  <2>1. PICK d \in Dispatchers : DispatchStep(d)
    BY <1>2
  <2>2. CASE phase = "up"
    BY <2>1, <2>2, DispatchFindsCurrent
  <2>3. CASE phase # "up"
    BY <2>1, <2>3, DispatchTouches DEF Current
  <2> QED
    BY <2>2, <2>3
<1>3. CASE \E r \in Runners : RunnerStep(r)
  <2>1. PICK q \in Runners : RunnerStep(q)
    BY <1>3
  <2>2. UNCHANGED <<phase, starts, registered, dispatch>>
    BY <1>0, <2>1, RunnerTouches
  <2> SUFFICES ASSUME phase = "up"
               PROVE  Current'
    BY <2>2 DEF Current
  <2>3. registered # None => Tends(registered)'
    <3>1. registered # None =>
            registered \in Runners /\ runner[registered] # None /\ Tends(registered)
      BY <1>0 DEF Current, Linked, RunnersLinked, TypeOK
    <3>2. \A r \in Runners : runner[r] # None /\ Tends(r) =>
            runner'[r].pc # "gone" /\ runner'[r].ctx = starts
      BY <2>1, <2>2, TendsOn DEF Tends
    <3> QED
      BY <2>2, <3>1, <3>2 DEF Tends
  <2>4. ASSUME NEW d \in Dispatchers, dispatch[d] # None, dispatch[d].by = starts,
               dispatch[d].pc \in Toward
        PROVE  runner'[dispatch[d].runner].pc # "gone" /\ runner'[dispatch[d].runner].ctx = starts
    <3>1. PICK r \in Runners : r = dispatch[d].runner /\ runner[r] # None /\ Tends(r)
      BY <1>0, <2>4 DEF Current, Linked, DispatchesLinked
    <3>2. Tends(r)'
      BY <2>1, <3>1, TendsOn
    <3> QED
      BY <2>2, <3>1, <3>2 DEF Tends
  <2> QED
    BY <2>2, <2>3, <2>4 DEF Current, Tends
<1>4. CASE UNCHANGED vars
  BY <1>4 DEF vars, executor, Current, Tends
<1> QED
  BY <1>1, <1>2, <1>3, <1>4, NextIsAStep

LEMMA InitCurrent == Init => Current
  BY DEF Init, Current

(* A dispatch of the executor there is is skipped only when its runner has *)
(* another one coming, queued or in its hands, also after a restart.       *)
THEOREM BusyWhenSkipped == ~NewModes => (Spec => SkipsOnlyWhenBusy)
<1> SUFFICES ASSUME ~NewModes
             PROVE  Spec => SkipsOnlyWhenBusy
  OBVIOUS
<1> DEFINE Skipped ==
      \A d \in Dispatchers :
        (At(d, "offer") /\ phase = "up" /\ dispatch[d].by = starts
           /\ dispatch'[d] # None /\ dispatch'[d].pc = "resched")
          => Busy(dispatch[d].runner)
<1>1. Init => TokenInv /\ Current
  BY InitTypes, InitCurrent DEF Init, TokenInv, OneMode, Balanced
<1>2. TokenInv /\ Current /\ [Next]_vars => (TokenInv /\ Current)'
  BY TokenInvStep, CurrentStep DEF TokenInv
<1>3. TokenInv /\ Current /\ [Next]_vars => [Skipped]_vars
  <2> SUFFICES ASSUME TokenInv, Current, Next,
                      NEW d \in Dispatchers, At(d, "offer"), phase = "up", dispatch[d].by = starts,
                      dispatch'[d] # None, dispatch'[d].pc = "resched"
               PROVE  Busy(dispatch[d].runner)
    OBVIOUS
  <2>0. TypeInv /\ TypeOK /\ OneMode
    BY DEF TokenInv, TypeInv
  <2>1. Skips(d)
    <3>1. CASE SchedulerStep
      <4>1. CASE dispatch' = dispatch
        BY <4>1 DEF At
      <4>2. ASSUME NEW so \in BOOLEAN, Spawns(so)
            PROVE  FALSE
        BY <2>0, <4>2, SpawnsOne DEF At
      <4> QED
        BY <3>1, <4>1, <4>2, SchedulerTouches
    <3>2. ASSUME NEW e \in Dispatchers, DispatchStep(e)
          PROVE  Skips(d)
      <4>1. e = d
        BY <2>0, <3>2, DispatchMoves DEF At
      <4>2. Skips(d) \/ Pushes(d)
        BY <2>0, <3>2, <4>1, DispatchMoves
      <4> QED
        BY <4>2 DEF Pushes, At
    <3>3. ASSUME NEW r \in Runners, RunnerStep(r)
          PROVE  FALSE
      BY <2>0, <3>3, RunnerTouches DEF At
    <3> QED
      BY <3>1, <3>2, <3>3, NextIsAStep
  <2>2. PICK r \in Runners : r = dispatch[d].runner /\ runner[r] # None /\ Tends(r)
    BY <2>0 DEF TypeInv, Linked, DispatchesLinked, Current, At, Toward
  <2>3. runner[r].mode = "reschedule" /\ token[r]
    BY <2>1, <2>2, <2>0 DEF Skips, At, OneMode, HasRoom
  <2>4. Work(r) = 1
    BY <2>2, <2>3 DEF TokenInv, Balanced, Tends
  <2>5. Cardinality(Pushing(r)) \in Nat /\ Len(in[r]) \in Nat
    BY <2>0, PushingIsFinite, LengthIsNat
  <2>6. CASE Holds(r)
    BY <2>2, <2>6 DEF Busy
  <2>7. CASE Len(in[r]) # 0
    <3>1. in[r] # <<>>
      BY <2>7
    <3> QED
      BY <2>2, <3>1 DEF Busy
  <2>8. CASE Cardinality(Pushing(r)) # 0
    <3>1. Pushing(r) # {}
      BY <2>8, FS_EmptySet
    <3> QED
      BY <2>2, <3>1 DEF Busy, Pushing
  <2>9. CASE ~Holds(r) /\ Len(in[r]) = 0 /\ Cardinality(Pushing(r)) = 0
    BY <2>4, <2>9 DEF Work
  <2> QED
    BY <2>6, <2>7, <2>8, <2>9
<1> QED
  BY <1>1, <1>2, <1>3, PTL DEF Spec, SkipsOnlyWhenBusy

-----------------------------------------------------------------------------
(* No job is stranded.  What will arm the timer: a dispatch of the         *)
(* executor there is that asks for it, or a runner of it that has such a   *)
(* dispatch in its queue or its hands and still has to do what sends it    *)
(* out.  A job timed from its completion is sent out by its run, another   *)
(* one by its dispatch, and an Update may change which of the two it is,   *)
(* but then it arms the timer itself; a runner whose copy of the job has   *)
(* been cancelled does not count.                                          *)

SendsOut(d) ==
  /\ dispatch[d] # None /\ dispatch[d].sendOut /\ dispatch[d].by = starts
  /\ \/ dispatch[d].pc \in {"request", "resched"}
     \/ ~dispatch[d].config.fromCompletion
     \/ job.config.fromCompletion

Asked(s) == \E i \in 1 .. Len(s) : s[i]

RunnerSendsOut(r) ==
  /\ runner[r] # None /\ Tends(r)
  /\ \/ job.config.fromCompletion /\ Asked(in[r])
     \/ /\ runner[r].sendOut
        /\ \/ runner[r].pc = "got" /\ job.config.fromCompletion
           \/ runner[r].pc = "begin" /\ runner[r].version = job.version /\ runner[r].era = starts
           \/ runner[r].pc \in {"task", "resched"}

Rearmed ==
  phase = "up" /\ job.present =>
    armed \/ (\E d \in Dispatchers : SendsOut(d)) \/ (\E r \in Runners : RunnerSendsOut(r))

LEMMA AskedAfterAppend ==
  ASSUME NEW s \in Seq(BOOLEAN), NEW b \in BOOLEAN
  PROVE  (b => Asked(Append(s, b))) /\ (Asked(s) => Asked(Append(s, b)))
<1>1. /\ Len(Append(s, b)) = Len(s) + 1 /\ Len(s) \in Nat
      /\ Append(s, b)[Len(s) + 1] = b
      /\ \A i \in 1 .. Len(s) : Append(s, b)[i] = s[i]
  BY AppendProperties
<1>2. ASSUME b PROVE Asked(Append(s, b))
  <2>1. Len(s) + 1 \in 1 .. Len(Append(s, b))
    BY <1>1
  <2> QED
    BY <1>1, <1>2, <2>1 DEF Asked
<1>3. ASSUME Asked(s) PROVE Asked(Append(s, b))
  <2>1. PICK i \in 1 .. Len(s) : s[i]
    BY <1>3 DEF Asked
  <2>2. i \in 1 .. Len(Append(s, b)) /\ Append(s, b)[i]
    BY <1>1, <2>1
  <2> QED
    BY <2>2 DEF Asked
<1> QED
  BY <1>2, <1>3

LEMMA AskedAfterTail ==
  ASSUME NEW s \in Seq(BOOLEAN), Asked(s)
  PROVE  s # <<>> /\ (Head(s) \/ Asked(Tail(s)))
<1>1. PICK i \in 1 .. Len(s) : s[i]
  BY DEF Asked
<1>2. s # <<>> /\ Len(s) \in Nat
  BY <1>1
<1>3. Len(Tail(s)) = Len(s) - 1 /\ \A k \in 1 .. Len(Tail(s)) : Tail(s)[k] = s[k + 1]
  BY <1>2, HeadTailProperties
<1>4. CASE i = 1
  <2>1. Head(s) = s[1]
    BY <1>2, HeadTailProperties
  <2> QED
    BY <1>1, <1>2, <1>4, <2>1
<1>5. CASE i # 1
  <2>1. i - 1 \in 1 .. Len(Tail(s)) /\ Tail(s)[i - 1]
    BY <1>1, <1>2, <1>3, <1>5
  <2> QED
    BY <1>2, <2>1 DEF Asked
<1> QED
  BY <1>4, <1>5

LEMMA SchedulerRearms ==
  ASSUME TypeInv, Rearmed, SchedulerStep
  PROVE  Rearmed'
<1>0. TypeOK
  BY DEF TypeInv
<1>1. CASE AddsJob \/ Starts
  BY <1>1 DEF AddsJob, Starts, executor, Rearmed
<1>2. CASE Cancels \/ Blocks \/ Reports
  BY <1>2 DEF Cancels, Blocks, Reports, executor, Rearmed
<1>3. CASE RemovesJob
  BY <1>0, <1>3 DEF RemovesJob, Rearmed, TypeOK
<1>4. CASE TimerFires
  <2>1. PICK d \in Dispatchers :
          /\ dispatch'[d] # None /\ dispatch'[d].pc = "request" /\ dispatch'[d].by = starts
          /\ dispatch'[d].sendOut
    <3>1. Spawns(TRUE)
      BY <1>4 DEF TimerFires
    <3> QED
      BY <1>0, <3>1, SpawnsOne
  <2>2. starts' = starts
    BY <1>4 DEF TimerFires, executor
  <2> QED
    BY <2>1, <2>2 DEF Rearmed, SendsOut
<1>5. CASE RunNow
  <2>1. UNCHANGED <<phase, starts, job, armed, in, runner>> /\ Spawns(FALSE)
    BY <1>5 DEF RunNow, executor
  <2>2. PICK d \in Dispatchers :
          dispatch[d] = None /\ \A e \in Dispatchers \ {d} : dispatch'[e] = dispatch[e]
    BY <1>0, <2>1, SpawnsOne
  <2>3. \A e \in Dispatchers : SendsOut(e) => SendsOut(e)'
    BY <2>1, <2>2 DEF SendsOut
  <2>4. \A r \in Runners : RunnerSendsOut(r) => RunnerSendsOut(r)'
    BY <2>1 DEF RunnerSendsOut, Tends
  <2> QED
    BY <2>1, <2>3, <2>4 DEF Rearmed
<1> QED
  BY <1>1, <1>2, <1>3, <1>4, <1>5 DEF SchedulerStep

(* A dispatch that is bound to send the job out does, or hands that on.    *)
LEMMA DispatchHandsOn ==
  ASSUME TypeInv, Current, phase = "up", job.present, NEW d \in Dispatchers, DispatchStep(d),
         SendsOut(d)
  PROVE  armed' \/ SendsOut(d)' \/ \E r \in Runners : RunnerSendsOut(r)'
<1>0. /\ TypeOK /\ UNCHANGED <<phase, starts, job>>
      /\ dispatch[d] # None /\ dispatch[d].sendOut /\ dispatch[d].by = starts
      /\ dispatch'[d] # None =>
           /\ dispatch'[d].by = starts /\ dispatch'[d].sendOut
           /\ IF dispatch[d].pc = "request"
              THEN dispatch'[d].config = job.config
              ELSE dispatch'[d].config = dispatch[d].config
      /\ dispatch'[d] = None => Requests(d) \/ Pushes(d) \/ DispatchReschedules(d)
  BY DispatchTouches, DispatchMoves DEF SendsOut, TypeInv
<1>1. ~ContextDone(dispatch[d].by) /\ SchedulerServes
  BY <1>0 DEF ContextDone, SchedulerServes
<1>2. CASE dispatch'[d] # None
  <2>1. CASE dispatch[d].pc = "request"
    BY <1>0, <1>2, <2>1 DEF SendsOut
  <2>2. CASE dispatch[d].pc # "request"
    <3>1. dispatch[d].pc # "resched"
      <4>1. ASSUME dispatch[d].pc = "resched"
            PROVE  DispatchReschedules(d)
        BY <4>1 DEF DispatchStep, Requests, Loads, Stores, StartsRunner, Skips, Offers, Pushes, At
      <4>2. DispatchReschedules(d) => dispatch'[d] = None
        BY <1>0, DispatchEnds DEF DispatchReschedules
      <4> QED
        BY <1>2, <4>1, <4>2
    <3> QED
      BY <1>0, <1>2, <2>2, <3>1 DEF SendsOut
  <2> QED
    BY <2>1, <2>2
<1>3. CASE dispatch'[d] = None /\ DispatchReschedules(d)
  <2>1. armed' = (armed \/ job.present)
    BY <1>0, <1>1, <1>3 DEF DispatchReschedules, SendOutForRescheduling
  <2> QED
    BY <2>1
<1>4. CASE dispatch'[d] = None /\ Requests(d)
  <2>1. dispatch' = [dispatch EXCEPT ![d].pc = "load", ![d].config = job.config] /\ At(d, "request")
    BY <1>1, <1>4 DEF Requests
  <2> QED
    BY <1>0, <1>4, <2>1, DispatchGetsJob
<1>5. CASE dispatch'[d] = None /\ Pushes(d)
  <2>1. dispatch[d].pc = "push" /\ dispatch[d].pc \in Toward
    BY <1>5 DEF Pushes, At, Toward
  <2>2. PICK r \in Runners : r = dispatch[d].runner /\ runner[r] # None /\ Tends(r)
    BY <1>0, <2>1, DispatchHas DEF Current
  <2>3. in'[r] = Append(in[r], TRUE) /\ in[r] \in Seq(BOOLEAN) /\ runner' = runner
    <3>1. dispatch[d].sendOut = TRUE
      <4>1. dispatch[d].sendOut \in BOOLEAN
        BY <1>0, DispatchHas DEF DispatchType
      <4> QED
        BY <1>0, <4>1
    <3> QED
      BY <1>0, <1>5, <2>2, <3>1 DEF Pushes, TypeOK
  <2>4. Asked(in'[r])
    BY <2>3, AskedAfterAppend
  <2>5. dispatch[d].config.fromCompletion
    <3>1. ASSUME DGoes(d, "resched")
          PROVE  FALSE
      BY <1>0, <1>5, <3>1, DispatchGoes DEF DispatchPcs
    <3> QED
      BY <1>5, <3>1 DEF Pushes
  <2>6. job.config.fromCompletion
    BY <2>1, <2>5 DEF SendsOut
  <2> QED
    BY <1>0, <2>2, <2>3, <2>4, <2>6 DEF RunnerSendsOut, Tends
<1> QED
  BY <1>0, <1>2, <1>3, <1>4, <1>5

LEMMA DispatchRearms ==
  ASSUME TypeInv, Current, Rearmed, NEW d \in Dispatchers, DispatchStep(d)
  PROVE  Rearmed'
<1>0. /\ TypeOK /\ UNCHANGED <<phase, starts, job>>
      /\ \A e \in Dispatchers \ {d} : dispatch'[e] = dispatch[e]
  BY DispatchTouches, DispatchMoves DEF TypeInv
<1> SUFFICES ASSUME phase = "up", job.present
             PROVE  armed' \/ (\E e \in Dispatchers : SendsOut(e)')
                    \/ \E r \in Runners : RunnerSendsOut(r)'
  BY <1>0 DEF Rearmed
<1>1. CASE armed
  <2>1. armed' = armed \/ armed' = (armed \/ job.present)
    BY DispatchTouches DEF DispatchReschedules, SendOutForRescheduling
  <2> QED
    BY <1>1, <2>1
<1>2. ASSUME NEW e \in Dispatchers, SendsOut(e), e # d
      PROVE  SendsOut(e)'
  BY <1>0, <1>2 DEF SendsOut
<1>3. CASE SendsOut(d)
  BY <1>3, DispatchHandsOn
<1>4. ASSUME NEW r \in Runners, RunnerSendsOut(r)
      PROVE  RunnerSendsOut(r)'
  <2>1. Asked(in[r]) => Asked(in'[r])
    <3>1. CASE Pushes(d)
      <4>1. /\ dispatch[d].sendOut \in BOOLEAN /\ dispatch[d] # None
            /\ in[r] \in Seq(BOOLEAN)
        BY <1>0, <3>1, DispatchHas DEF DispatchType, Pushes, At, TypeOK
      <4>2. in'[r] = in[r] \/ in'[r] = Append(in[r], dispatch[d].sendOut)
        BY <1>0, <3>1 DEF Pushes, TypeOK
      <4> QED
        BY <4>1, <4>2, AskedAfterAppend
    <3> QED
      BY <3>1, DispatchTouches
  <2>2. CASE Stores(d)
    <3>1. runner'[r] = runner[r]
      BY <1>4, <2>2, DispatchStores DEF RunnerSendsOut
    <3> QED
      BY <1>0, <1>4, <2>1, <3>1 DEF RunnerSendsOut, Tends
  <2>3. CASE StartsRunner(d)
    <3> DEFINE q == dispatch[d].runner
    <3>1. /\ q \in Runners /\ runner[q].pc = "new" /\ runner'[q] # None
          /\ runner'[q].pc = "select" /\ runner'[q].ctx = starts
          /\ \A p \in Runners \ {q} : runner'[p] = runner[p]
      BY <2>3, DispatchStarts
    <3> HIDE DEF q
    <3> QED
      BY <1>0, <1>4, <2>1, <3>1 DEF RunnerSendsOut, Tends
  <2>4. CASE runner' = runner
    BY <1>0, <1>4, <2>1, <2>4 DEF RunnerSendsOut, Tends
  <2> QED
    BY <2>2, <2>3, <2>4, DispatchTouches
<1> QED
  BY <1>1, <1>2, <1>3, <1>4 DEF Rearmed

(* A runner that is bound to send the job out does, or goes on to.         *)
LEMMA RunnerHandsOn ==
  ASSUME TypeInv, phase = "up", job.present, NEW r \in Runners, RunnerStep(r), RunnerSendsOut(r)
  PROVE  armed' \/ RunnerSendsOut(r)'
<1>0. /\ TypeOK /\ UNCHANGED <<phase, starts, job>> /\ runner'[r] # None
      /\ runner[r] # None /\ Tends(r) /\ Tends(r)'
  BY RunnerTouches, TendsOn DEF TypeInv, RunnerSendsOut
<1>1. /\ ~ContextDone(runner[r].ctx) /\ ~ContextDone(starts) /\ SchedulerServes /\ Era = starts
  BY <1>0 DEF ContextDone, SchedulerServes, Era, Tends
<1>2. CASE Takes(r)
  <2>1. /\ runner[r].pc = "select" /\ in'[r] = Tail(in[r]) /\ in[r] \in Seq(BOOLEAN)
    BY <1>0, <1>2 DEF Takes, Is, TypeOK
  <2>2. runner'[r].pc = "got" /\ runner'[r].sendOut = Head(in[r])
    BY <1>0, <1>2, RunnerTakes
  <2>3. job.config.fromCompletion /\ Asked(in[r])
    BY <2>1 DEF RunnerSendsOut
  <2>4. Head(in[r]) \/ Asked(in'[r])
    BY <2>1, <2>3, AskedAfterTail
  <2> QED
    BY <1>0, <2>2, <2>3, <2>4 DEF RunnerSendsOut
<1>3. CASE Leaves(r)
  BY <1>1, <1>3 DEF Leaves
<1>4. CASE Asks(r)
  <2>1. Is(r, "got") /\ AsksAndGets(r) /\ in' = in
    BY <1>1, <1>4 DEF Asks, AsksAndGets
  <2>2. /\ runner'[r].pc = "begin" /\ runner'[r].version = job.version
        /\ runner'[r].era = Era
        /\ runner'[r].sendOut = (runner[r].sendOut /\ job.config.fromCompletion)
    BY <1>0, <2>1, RunnerAsks
  <2> QED
    BY <1>0, <1>1, <2>1, <2>2 DEF RunnerSendsOut, Is
<1>5. CASE Begins(r)
  <2>1. in' = in /\ runner[r].pc = "begin"
    BY <1>5 DEF Begins, Is
  <2>2. CASE job.config.fromCompletion /\ Asked(in[r])
    BY <1>0, <2>1, <2>2 DEF RunnerSendsOut
  <2>3. CASE runner[r].sendOut /\ runner[r].version = job.version /\ runner[r].era = starts
    <3>1. ~JobContextDone(r)
      BY <1>1, <2>3 DEF JobContextDone
    <3>2. PICK pc \in {"task", "resched"} : RGoes(r, pc)
      BY <1>5, <3>1 DEF Begins
    <3>3. pc \in RunnerPcs
      BY DEF RunnerPcs
    <3>4. runner'[r].pc = pc /\ runner'[r].sendOut = runner[r].sendOut
      BY <1>0, <3>2, <3>3, RunnerGoes
    <3> QED
      BY <1>0, <2>3, <3>4 DEF RunnerSendsOut
  <2> QED
    BY <2>1, <2>2, <2>3 DEF RunnerSendsOut
<1>6. CASE TaskReturns(r)
  <2>1. in' = in /\ runner[r].pc = "task" /\ RGoes(r, "resched") /\ "resched" \in RunnerPcs
    BY <1>6 DEF TaskReturns, Is, RunnerPcs
  <2>2. runner'[r].pc = "resched" /\ runner'[r].sendOut = runner[r].sendOut
    BY <1>0, <2>1, RunnerGoes
  <2> QED
    BY <1>0, <2>1, <2>2 DEF RunnerSendsOut
<1>7. CASE RunnerReschedules(r)
  <2>1. in' = in /\ SendOutForRescheduling(runner[r].sendOut, runner[r].ctx)
    BY <1>7 DEF RunnerReschedules
  <2>2. CASE runner[r].sendOut
    <3>1. armed' = (armed \/ job.present)
      BY <1>1, <2>1, <2>2 DEF SendOutForRescheduling
    <3> QED
      BY <3>1
  <2>3. CASE ~runner[r].sendOut
    BY <1>0, <2>1, <2>3 DEF RunnerSendsOut
  <2> QED
    BY <2>2, <2>3
<1>8. CASE Releases(r)
  <2>1. in' = in /\ runner[r].pc = "release"
    BY <1>8 DEF Releases, Is
  <2> QED
    BY <1>0, <2>1 DEF RunnerSendsOut
<1> QED
  BY <1>2, <1>3, <1>4, <1>5, <1>6, <1>7, <1>8 DEF RunnerStep

LEMMA RearmedStep ==
  ASSUME TypeInv, Current, Rearmed, [Next]_vars
  PROVE  Rearmed'
<1>1. CASE SchedulerStep
  BY <1>1, SchedulerRearms
<1>2. CASE \E d \in Dispatchers : DispatchStep(d)
  BY <1>2, DispatchRearms
<1>3. CASE \E r \in Runners : RunnerStep(r)
  <2>1. PICK q \in Runners : RunnerStep(q)
    BY <1>3
  <2>2. /\ TypeOK /\ UNCHANGED <<phase, starts, job, dispatch>>
        /\ \A r \in Runners \ {q} : runner'[r] = runner[r] /\ in'[r] = in[r]
    <3>1. TypeOK
      BY DEF TypeInv
    <3>2. \A r \in Runners \ {q} : in'[r] = in[r]
      <4>1. in' = in \/ in' = [in EXCEPT ![q] = Tail(@)]
        BY <2>1, <3>1, RunnerTouches DEF Takes
      <4> QED
        BY <3>1, <4>1 DEF TypeOK
    <3> QED
      BY <2>1, <3>1, <3>2, RunnerTouches
  <2> SUFFICES ASSUME phase = "up", job.present
               PROVE  armed' \/ (\E e \in Dispatchers : SendsOut(e)')
                      \/ \E r \in Runners : RunnerSendsOut(r)'
    BY <2>2 DEF Rearmed
  <2>3. CASE armed
    <3>1. armed' = armed \/ armed' = (armed \/ job.present)
      BY <2>1, <2>2, RunnerTouches DEF RunnerReschedules, SendOutForRescheduling
    <3> QED
      BY <2>3, <3>1
  <2>4. \A d \in Dispatchers : SendsOut(d) => SendsOut(d)'
    BY <2>2 DEF SendsOut
  <2>5. \A r \in Runners \ {q} : RunnerSendsOut(r) => RunnerSendsOut(r)'
    BY <2>2 DEF RunnerSendsOut, Tends
  <2>6. RunnerSendsOut(q) => armed' \/ RunnerSendsOut(q)'
    BY <2>1, RunnerHandsOn
  <2> QED
    BY <2>3, <2>4, <2>5, <2>6 DEF Rearmed
<1>4. CASE UNCHANGED vars
  BY <1>4 DEF vars, executor, Rearmed, SendsOut, RunnerSendsOut, Tends
<1> QED
  BY <1>1, <1>2, <1>3, <1>4, NextIsAStep

(* While the executor is up, a job has its timer armed or somebody is on   *)
(* the way to have it armed, whatever mode it is in or is updated to,      *)
(* whoever runs it by hand, and whatever a stop that timed out has left.   *)
THEOREM NobodyStranded == Spec => []NeverStranded
<1>1. Init => TypeInv /\ Current /\ Rearmed
  BY InitTypes, InitCurrent DEF Init, Rearmed
<1>2. TypeInv /\ Current /\ Rearmed /\ [Next]_vars => (TypeInv /\ Current /\ Rearmed)'
  BY TypeInvStep, CurrentStep, RearmedStep
<1>3. Rearmed => NeverStranded
  <2> SUFFICES ASSUME Rearmed, phase = "up", job.present
               PROVE  WillRearm
    BY DEF NeverStranded
  <2>1. \A d \in Dispatchers : SendsOut(d) => WillRearm
    BY DEF SendsOut, WillRearm
  <2>2. \A r \in Runners : RunnerSendsOut(r) => WillRearm
    BY DEF RunnerSendsOut, Tends, Asked, Holds, WillRearm
  <2> QED
    BY <2>1, <2>2 DEF Rearmed, WillRearm
<1> QED
  BY <1>1, <1>2, <1>3, PTL DEF Spec

-----------------------------------------------------------------------------
(* While the timers alone dispatch the job, nobody updates it and nothing  *)
(* has been restarted, there is one dispatch under way at most, and no     *)
(* timer armed beside it, so that the second load of the map comes after   *)
(* the first store and there is one runner for good.  For a job timed from *)
(* its completion the dispatch is also what the runner has of it; another  *)
(* job's run never arms the timer.                                         *)

Solo == use.triggers = {"timer"} /\ use.versions = 1 /\ starts = 1

InHands(r) ==
  runner[r] # None /\ runner[r].sendOut /\ runner[r].pc \in {"got", "begin", "task", "resched"}
Carries(r) == in[r] # <<>> \/ InHands(r)
NoDispatch == \A d \in Dispatchers : dispatch[d] = None

SameJob == job.present /\ (phase = "up" => strays = 0)

OneDispatch ==
  \A d \in Dispatchers : dispatch[d] # None =>
    /\ ~armed
    /\ \A e \in Dispatchers : dispatch[e] # None => d = e
    /\ dispatch[d].pc # "request" => dispatch[d].config = job.config
    /\ dispatch[d].pc = "store" => registered = None

OneRunner == \A r \in Runners : runner[r] # None => registered = r

OneInFlight ==
  /\ job.config.fromCompletion =>
       \A r \in Runners : Carries(r) =>
         /\ ~armed /\ NoDispatch
         /\ Len(in[r]) <= 1 /\ (in[r] # <<>> => ~InHands(r))
  /\ ~job.config.fromCompletion =>
       \A r \in Runners :
         runner[r] # None /\ runner[r].pc \in {"begin", "task", "resched"} => ~runner[r].sendOut

Alone == Solo => SameJob /\ OneDispatch /\ OneRunner /\ OneInFlight

LEMMA SchedulerLeavesAlone ==
  ASSUME TypeInv, Alone, SchedulerStep
  PROVE  Alone'
<1>0. /\ TypeOK /\ starts \in Nat /\ starts >= 1 /\ UNCHANGED <<use, in, token, runner>>
      /\ registered' = registered \/ registered' = None
      /\ starts' = starts \/ starts' = starts + 1
  <2>1. starts' = starts \/ starts' = starts + 1
    BY DEF SchedulerStep, RemovesJob, AddsJob, TimerFires, RunNow, Cancels, Blocks, Reports, Starts,
           executor
  <2> QED
    BY <2>1, SchedulerTouches, UseProperties DEF TypeInv
<1> SUFFICES ASSUME Solo'
             PROVE  (SameJob /\ OneDispatch /\ OneRunner /\ OneInFlight)'
  BY DEF Alone
<1>1. Solo /\ starts' = starts /\ ~Starts
  BY <1>0 DEF Solo, Starts
<1>2. SameJob /\ OneDispatch /\ OneRunner /\ OneInFlight
  BY <1>1 DEF Alone
<1>3. ~RemovesJob /\ ~AddsJob /\ ~RunNow
  <2>1. ~(job.version < use.versions)
    BY <1>0, <1>1 DEF TypeOK, Solo
  <2> QED
    BY <1>1, <1>2, <2>1 DEF RemovesJob, AddsJob, RunNow, SameJob, Solo
<1>4. registered' = registered /\ job' = job
  BY <1>1, <1>3 DEF SchedulerStep, TimerFires, Cancels, Blocks, Reports
<1>5. CASE TimerFires
  <2>1. armed /\ ~armed' /\ UNCHANGED <<phase, strays>> /\ Spawns(TRUE)
    <3>1. strays = 0 /\ ~(0 > 0)
      BY <1>2, <1>5 DEF TimerFires, SameJob
    <3>2. strays > 0 => FALSE
      BY <3>1
    <3> QED
      BY <1>5, <3>2, Zenon DEF TimerFires, executor
  <2>2. PICK d \in Dispatchers :
          /\ dispatch'[d].pc = "request"
          /\ \A e \in Dispatchers \ {d} : dispatch'[e] = dispatch[e]
    BY <1>0, <2>1, SpawnsOne
  <2>3. \A e \in Dispatchers : dispatch[e] = None
    BY <1>2, <2>1 DEF OneDispatch
  <2>4. OneDispatch'
    BY <2>1, <2>2, <2>3 DEF OneDispatch
  <2>5. OneInFlight'
    <3>1. job.config.fromCompletion => \A r \in Runners : ~Carries(r)
      BY <1>2, <2>1 DEF OneInFlight
    <3> QED
      BY <1>0, <1>2, <1>4, <3>1 DEF OneInFlight, Carries, InHands
  <2> QED
    BY <1>0, <1>2, <1>4, <2>1, <2>4, <2>5 DEF SameJob, OneRunner
<1>6. CASE Cancels \/ Blocks \/ Reports
  <2>1. dispatch' = dispatch /\ phase' # "up" /\ (armed' => armed)
    BY <1>6 DEF Cancels, Blocks, Reports, executor
  <2> QED
    BY <1>0, <1>2, <1>4, <2>1
       DEF SameJob, OneDispatch, OneRunner, OneInFlight, Carries, InHands, NoDispatch
<1> QED
  BY <1>1, <1>3, <1>5, <1>6 DEF SchedulerStep

LEMMA DispatchLeavesAlone ==
  ASSUME TypeInv, Alone, NEW d \in Dispatchers, DispatchStep(d)
  PROVE  Alone'
<1>0. /\ TypeOK /\ Linked /\ UNCHANGED <<use, phase, starts, job, strays>>
      /\ dispatch[d] # None
      /\ \A e \in Dispatchers \ {d} : dispatch'[e] = dispatch[e]
      /\ dispatch'[d] # None =>
           IF dispatch[d].pc = "request"
           THEN dispatch'[d].pc = "load" /\ dispatch'[d].config = job.config
           ELSE dispatch'[d].config = dispatch[d].config
      /\ DispatchReschedules(d) \/ armed' = armed
      /\ Stores(d) \/ StartsRunner(d) \/ UNCHANGED <<registered, runner>>
  BY DispatchTouches, DispatchMoves DEF TypeInv
<1> SUFFICES ASSUME Solo
             PROVE  (SameJob /\ OneDispatch /\ OneRunner /\ OneInFlight)'
  BY <1>0 DEF Alone, Solo
<1>1. SameJob /\ OneDispatch /\ OneRunner /\ OneInFlight
  BY DEF Alone
<1>2. /\ ~armed /\ (\A e \in Dispatchers : dispatch[e] # None => d = e)
      /\ dispatch[d].pc # "request" => dispatch[d].config = job.config
      /\ \A e \in Dispatchers : dispatch'[e] # None => d = e
      /\ job.config.fromCompletion => \A r \in Runners : ~Carries(r)
  BY <1>0, <1>1 DEF OneDispatch, OneInFlight, NoDispatch
<1>3. SameJob'
  BY <1>0, <1>1 DEF SameJob
<1>4. dispatch'[d] # None => dispatch'[d].config = job.config /\ ~armed'
  <2>1. DispatchReschedules(d) => dispatch'[d] = None
    BY <1>0, DispatchEnds DEF DispatchReschedules
  <2> QED
    BY <1>0, <1>2, <2>1
<1>5. \A r \in Runners : InHands(r)' => InHands(r)
  <2>1. CASE Stores(d)
    BY <2>1, DispatchStores DEF InHands
  <2>2. CASE StartsRunner(d)
    <3>1. /\ runner'[dispatch[d].runner].pc = "select"
          /\ \A q \in Runners \ {dispatch[d].runner} : runner'[q] = runner[q]
      BY <2>2, DispatchStarts
    <3> QED
      BY <3>1 DEF InHands
  <2> QED
    BY <1>0, <2>1, <2>2 DEF InHands
<1>6. OneRunner' /\ (dispatch'[d] # None /\ dispatch'[d].pc = "store" => registered' = None)
  <2>1. CASE Stores(d)
    <3>1. registered = None
      BY <1>1, <2>1 DEF OneDispatch, Stores, At
    <3>2. PICK r \in Runners :
            /\ registered' = r /\ dispatch'[d].pc = "start"
            /\ \A q \in Runners \ {r} : runner'[q] = runner[q]
      BY <2>1, DispatchStores
    <3>3. \A q \in Runners : runner[q] = None
      BY <1>1, <3>1, NoneAssumption DEF OneRunner
    <3> QED
      BY <3>2, <3>3 DEF OneRunner
  <2>2. CASE StartsRunner(d)
    <3>1. /\ dispatch[d].runner \in Runners /\ runner[dispatch[d].runner] # None
          /\ dispatch'[d].pc = "offer" /\ registered' = registered
          /\ \A q \in Runners \ {dispatch[d].runner} : runner'[q] = runner[q]
      BY <2>2, DispatchStarts DEF StartsRunner
    <3> QED
      BY <1>1, <3>1 DEF OneRunner
  <2>3. CASE ~Stores(d) /\ ~StartsRunner(d)
    <3>1. UNCHANGED <<registered, runner>>
      BY <1>0, <2>3
    <3>2. dispatch'[d] # None /\ dispatch'[d].pc = "store" => registered = None
      <4>1. CASE Loads(d)
        <5>1. CASE registered # None
                   /\ dispatch' = [dispatch EXCEPT ![d].pc = "offer", ![d].runner = registered]
          BY <1>0, <5>1, DispatchFinds
        <5> QED
          BY <4>1, <5>1 DEF Loads
      <4>2. CASE Requests(d)
        BY <1>0, <4>2 DEF Requests, At
      <4>3. CASE Skips(d) \/ Offers(d) \/ Pushes(d) \/ DispatchReschedules(d)
        <5>1. \/ DEnds(d)
              \/ \E pc \in {"push", "resched"} : DGoes(d, pc)
          BY <4>3 DEF Skips, Offers, Pushes, DispatchReschedules
        <5>2. ASSUME NEW pc \in {"push", "resched"}, DGoes(d, pc)
              PROVE  dispatch'[d].pc = pc
          <6>1. pc \in DispatchPcs
            BY DEF DispatchPcs
          <6> QED
            BY <1>0, <5>2, <6>1, DispatchGoes
        <5>3. DEnds(d) => dispatch'[d] = None
          BY <1>0, DispatchEnds
        <5> QED
          BY <5>1, <5>2, <5>3
      <4> QED
        BY <2>3, <4>1, <4>2, <4>3 DEF DispatchStep
    <3> QED
      BY <1>1, <3>1, <3>2 DEF OneRunner
  <2> QED
    BY <2>1, <2>2, <2>3
<1>7. OneDispatch'
  BY <1>0, <1>2, <1>4, <1>6 DEF OneDispatch
<1>8. OneInFlight'
  <2>1. CASE ~job.config.fromCompletion
    <3>1. CASE Stores(d)
      BY <1>0, <1>1, <2>1, <3>1, DispatchStores DEF OneInFlight
    <3>2. CASE StartsRunner(d)
      <4>1. /\ runner'[dispatch[d].runner].pc = "select"
            /\ \A q \in Runners \ {dispatch[d].runner} : runner'[q] = runner[q]
        BY <3>2, DispatchStarts
      <4> QED
        BY <1>0, <1>1, <2>1, <4>1 DEF OneInFlight
    <3> QED
      BY <1>0, <1>1, <2>1, <3>1, <3>2 DEF OneInFlight
  <2>2. CASE job.config.fromCompletion
    <3>1. \A r \in Runners : ~InHands(r)' /\ in[r] = <<>>
      BY <1>2, <1>5, <2>2 DEF Carries
    <3>2. CASE Pushes(d)
      <4>1. dispatch[d].sendOut \in BOOLEAN /\ dispatch[d].config = job.config
        BY <1>0, <1>2, <3>2, DispatchHas DEF DispatchType, Pushes, At
      <4>2. \A r \in Runners : in'[r] = <<>> \/ in'[r] = Append(<<>>, dispatch[d].sendOut)
        BY <1>0, <3>1, <3>2 DEF Pushes, TypeOK
      <4>3. Len(<<>>) = 0 /\ Len(Append(<<>>, dispatch[d].sendOut)) = 1
        OBVIOUS
      <4>4. \A r \in Runners : Len(in'[r]) <= 1
        <5>1. 0 <= 1 /\ 1 <= 1
          OBVIOUS
        <5>2. ASSUME NEW r \in Runners
              PROVE  Len(in'[r]) = 0 \/ Len(in'[r]) = 1
          BY <4>2, <4>3, Zenon
        <5> QED
          BY <5>1, <5>2
      <4>5. dispatch'[d] = None
        <5>1. DEnds(d)
          BY <2>2, <3>2, <4>1 DEF Pushes
        <5> QED
          BY <1>0, <5>1, DispatchEnds
      <4>6. NoDispatch' /\ ~armed'
        <5>1. ~armed'
          BY <1>0, <1>2, <3>2 DEF Pushes
        <5> QED
          BY <1>2, <4>5, <5>1 DEF NoDispatch
      <4> QED
        BY <1>0, <2>2, <3>1, <4>4, <4>6 DEF OneInFlight, Carries
    <3>3. CASE in' = in
      BY <1>0, <2>2, <3>1, <3>3 DEF OneInFlight, Carries
    <3> QED
      BY <3>2, <3>3, DispatchTouches
  <2> QED
    BY <2>1, <2>2
<1> QED
  BY <1>3, <1>6, <1>7, <1>8

LEMMA RunnerLeavesAlone ==
  ASSUME TypeInv, Alone, NEW r \in Runners, RunnerStep(r)
  PROVE  Alone'
<1>0. /\ TypeOK /\ Linked
      /\ UNCHANGED <<use, phase, starts, job, strays, registered, dispatch>>
      /\ runner[r] # None /\ runner'[r] # None
      /\ \A q \in Runners \ {r} : runner'[q] = runner[q]
      /\ Takes(r) \/ in' = in
      /\ RunnerReschedules(r) \/ armed' = armed
      /\ in[r] \in Seq(BOOLEAN)
  BY RunnerTouches DEF TypeInv, TypeOK
<1> SUFFICES ASSUME Solo
             PROVE  (SameJob /\ OneDispatch /\ OneRunner /\ OneInFlight)'
  BY <1>0 DEF Alone, Solo
<1>1. SameJob /\ OneDispatch /\ OneRunner /\ OneInFlight
  BY DEF Alone
<1>2. SameJob' /\ OneRunner'
  BY <1>0, <1>1 DEF SameJob, OneRunner
<1>3. \A q \in Runners \ {r} : runner[q] = None /\ in[q] = <<>> /\ ~Carries(q)
  BY <1>0, <1>1 DEF OneRunner, Linked, RunnersLinked, Carries, InHands
<1>4. \A q \in Runners \ {r} : runner'[q] = None /\ in'[q] = <<>> /\ ~Carries(q)'
  <2>1. in' = in \/ in' = [in EXCEPT ![r] = Tail(@)]
    BY <1>0 DEF Takes
  <2>2. \A q \in Runners \ {r} : in'[q] = in[q]
    BY <1>0, <2>1 DEF TypeOK
  <2> QED
    BY <1>0, <1>3, <2>2 DEF Carries, InHands
<1>5. CASE Takes(r)
  <2>1. in[r] # <<>> /\ in'[r] = Tail(in[r]) /\ armed' = armed
    BY <1>0, <1>5 DEF Takes, TypeOK
  <2>2. OneDispatch'
    BY <1>0, <1>1, <2>1 DEF OneDispatch
  <2>3. CASE job.config.fromCompletion
    <3>1. ~armed /\ NoDispatch /\ Len(in[r]) <= 1
      BY <1>1, <2>1, <2>3 DEF OneInFlight, Carries
    <3>2. in'[r] = <<>>
      <4>1. Len(Tail(in[r])) = Len(in[r]) - 1 /\ Tail(in[r]) \in Seq(BOOLEAN)
        BY <1>0, <2>1, HeadTailProperties
      <4>2. Len(in[r]) \in Nat /\ Len(Tail(in[r])) \in Nat
        BY <1>0, <4>1, LenProperties
      <4>3. Len(Tail(in[r])) = 0
        <5>1. \A m, n \in Nat : m <= 1 /\ n = m - 1 => n = 0
          OBVIOUS
        <5> QED
          BY <3>1, <4>1, <4>2, <5>1, Zenon
      <4> QED
        BY <2>1, <4>1, <4>3, EmptySeq
    <3>3. Len(in'[r]) <= 1
      BY <3>2
    <3> QED
      BY <1>0, <1>2, <1>4, <2>1, <2>2, <2>3, <3>1, <3>2, <3>3 DEF OneInFlight, NoDispatch
  <2>4. CASE ~job.config.fromCompletion
    <3>1. runner'[r].pc \in {"gone", "got"}
      <4>1. CASE phase = "up"
        BY <1>0, <1>5, <4>1, RunnerTakes
      <4>2. CASE RGoes(r, "gone")
        BY <1>0, <4>2, RunnerGoes DEF RunnerPcs
      <4> QED
        BY <1>5, <4>1, <4>2 DEF Takes, ContextDone
    <3> QED
      BY <1>0, <1>2, <1>4, <2>2, <2>4, <3>1 DEF OneInFlight
  <2> QED
    BY <2>3, <2>4
<1>6. CASE Asks(r) /\ AsksAndGets(r)
  <2>1. Is(r, "got") /\ in' = in /\ armed' = armed
    BY <1>6 DEF Asks
  <2>2. /\ runner'[r].pc = "begin"
        /\ runner'[r].sendOut = (runner[r].sendOut /\ job.config.fromCompletion)
    BY <1>0, <1>6, <2>1, RunnerAsks
  <2>3. OneDispatch' /\ (NoDispatch' <=> NoDispatch)
    BY <1>0, <1>1, <2>1 DEF OneDispatch, NoDispatch
  <2>4. InHands(r)' => InHands(r)
    BY <1>0, <2>1, <2>2 DEF InHands, Is
  <2>5. OneInFlight'
    BY <1>0, <1>1, <1>4, <2>1, <2>2, <2>3, <2>4 DEF OneInFlight, Carries
  <2> QED
    BY <1>2, <2>3, <2>5
<1>7. CASE RunnerReschedules(r)
  <2>1. /\ runner[r].pc = "resched" /\ in' = in
        /\ SendOutForRescheduling(runner[r].sendOut, runner[r].ctx)
        /\ RGoes(r, "release") /\ "release" \in RunnerPcs
    BY <1>7 DEF RunnerReschedules, Is, RunnerPcs
  <2>2. runner'[r].pc = "release"
    BY <1>0, <2>1, RunnerGoes
  <2>3. ~InHands(r)'
    BY <2>2 DEF InHands
  <2>4. CASE runner[r].sendOut
    <3>1. InHands(r) /\ Carries(r)
      BY <1>0, <2>1, <2>4 DEF InHands, Carries
    <3>2. job.config.fromCompletion
      BY <1>0, <1>1, <2>1, <2>4 DEF OneInFlight
    <3>3. NoDispatch /\ in[r] = <<>>
      BY <1>1, <3>1, <3>2 DEF OneInFlight
    <3>4. ~Carries(r)'
      BY <2>1, <2>3, <3>3 DEF Carries
    <3> QED
      BY <1>0, <1>2, <1>4, <3>2, <3>3, <3>4 DEF OneInFlight, OneDispatch, NoDispatch
  <2>5. CASE ~runner[r].sendOut
    <3>1. armed' = armed
      BY <2>1, <2>5 DEF SendOutForRescheduling
    <3>2. OneDispatch' /\ (NoDispatch' <=> NoDispatch)
      BY <1>0, <1>1, <3>1 DEF OneDispatch, NoDispatch
    <3>3. OneInFlight'
      BY <1>0, <1>1, <1>4, <2>1, <2>2, <2>3, <3>1, <3>2 DEF OneInFlight, Carries
    <3> QED
      BY <1>2, <3>2, <3>3
  <2> QED
    BY <2>4, <2>5
<1>8. ASSUME in' = in, armed' = armed, InHands(r)' => InHands(r),
             runner'[r].pc \in {"begin", "task", "resched"} =>
               /\ runner[r].pc \in {"begin", "task", "resched"}
               /\ runner'[r].sendOut = runner[r].sendOut
      PROVE  (OneDispatch /\ OneInFlight)'
  <2>1. OneDispatch' /\ (NoDispatch' <=> NoDispatch)
    BY <1>0, <1>1, <1>8 DEF OneDispatch, NoDispatch
  <2>2. OneInFlight'
    BY <1>0, <1>1, <1>4, <1>8, <2>1 DEF OneInFlight, Carries
  <2> QED
    BY <2>1, <2>2
<1>9. CASE Leaves(r) \/ (Asks(r) /\ ~AsksAndGets(r)) \/ Begins(r) \/ TaskReturns(r)
  <2>1. in' = in /\ armed' = armed
    BY <1>9 DEF Leaves, Asks, Begins, TaskReturns
  <2>2. PICK pc \in RunnerPcs : RGoes(r, pc) /\ (pc \in {"task", "resched"} =>
                                                   runner[r].pc \in {"begin", "task"})
                                 /\ pc # "begin" /\ pc # "got"
    <3>1. {"gone", "release", "task", "resched"} \subseteq RunnerPcs
      BY DEF RunnerPcs
    <3> QED
      BY <1>9, <3>1 DEF Leaves, Asks, AsksAndGets, Begins, TaskReturns, Is
  <2>3. runner'[r].pc = pc /\ runner'[r].sendOut = runner[r].sendOut
    BY <1>0, <2>2, RunnerGoes
  <2>4. InHands(r)' => InHands(r)
    BY <1>0, <2>2, <2>3 DEF InHands
  <2> QED
    BY <1>2, <1>8, <2>1, <2>2, <2>3, <2>4
<1>10. CASE Releases(r)
  <2>1. in' = in /\ armed' = armed
    BY <1>10 DEF Releases
  <2>2. runner'[r].pc = "select"
    BY <1>0, <1>10, RunnerIdles DEF Releases
  <2>3. ~InHands(r)'
    BY <2>2 DEF InHands
  <2> QED
    BY <1>2, <1>8, <2>1, <2>2, <2>3
<1> QED
  BY <1>5, <1>6, <1>7, <1>9, <1>10 DEF RunnerStep

LEMMA AloneStep ==
  ASSUME TypeInv, Alone, [Next]_vars
  PROVE  Alone'
<1>1. CASE UNCHANGED vars
  BY <1>1 DEF vars, executor, Alone, Solo, SameJob, OneDispatch, OneRunner, OneInFlight, Carries,
              InHands, NoDispatch
<1> QED
  BY <1>1, SchedulerLeavesAlone, DispatchLeavesAlone, RunnerLeavesAlone, NextIsAStep

(* A singleton job that its timers alone dispatch, that nobody updates and *)
(* that has not been restarted never overlaps itself: the load and the     *)
(* store of the map of runners need no lock then.                          *)
THEOREM TimersExclude == Spec => []FirstRunsExclusive
<1>1. Init => TypeInv /\ Alone
  <2>1. Init => Alone
    BY DEF Init, Alone, SameJob, OneDispatch, OneRunner, OneInFlight, Carries, InHands
  <2> QED
    BY <2>1, InitTypes
<1>2. TypeInv /\ Alone /\ [Next]_vars => (TypeInv /\ Alone)'
  BY TypeInvStep, AloneStep
<1>3. Alone => FirstRunsExclusive
  BY DEF Alone, Solo, OneRunner, FirstRunsExclusive, SingletonExclusive, Running, Is
<1> QED
  BY <1>1, <1>2, <1>3, PTL DEF Spec

=============================================================================
