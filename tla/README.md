# Verification of gocron

TLA+ models of gocron's scheduler, their TLC runs, and proofs of the main
invariants. Sources are cited as `file.go:line`.

    tlc -workers 2 -config MCJobTable.cfg MCJobTable
    tlapm JobTable_proofs.tla

## The system

gocron is a handful of goroutines around one owner of the state.

| component | state | operations | talks to |
|---|---|---|---|
| scheduler goroutine (`scheduler.go:230-276`) | `s.jobs`: per job its definition, context, timer, `nextScheduled`, counters | one handler per channel of its select: new job, remove, remove by tags, run now, start, stop, shutdown, rescheduling, completion, timing update, queries | clients and runs (unbuffered channels), executor (`jobsIn`, `stopCh`, `done`) |
| first/next run arithmetic (`scheduler.go:409-599, 722-764`) | none | `prepareFirstRun`, `firstRunOrGrace`, `advancePastNow`, `advanceNextPastDuplicates`, the choice of the next run | `jobSchedule.next` |
| executor goroutine (`executor.go:106-279, 602-691`) | its context, `stopOnce`, three wait groups, the singleton runner map | takes `jobIn`s, starts a goroutine for each, stops with a timeout | scheduler |
| run pipeline (`executor.go:425-569`) | the copy of the job it was given | elector/locker, listeners, rescheduling, completion, the task, timing | scheduler, task |
| limit mode (`executor.go:146-198, 315-378`) | queue, token channel, running singletons | queueing, rescheduling when full, runners | run pipeline |
| singleton mode (`executor.go:209-254, 386-423`) | a runner per job: queue and token | as above, per job | run pipeline |
| schedules (`job.go:1301-1644`) | none (random jobs: a generator) | `next(lastRun)` per kind of schedule | |
| definitions and options (`job.go:213-1120`) | the job under construction | validation, set-up | `addOrUpdateJob` |
| job handle (`job.go:1654-1852`, `util.go:49-77`) | an id and two channels | `NextRun`, `NextRuns`, `LastRun*`, `IsRunning`, `RunNow` | scheduler |
| clients' calls (`scheduler.go:892-1215`) | | `NewJob`, `Update`, `RemoveJob`, `RemoveByTags`, `Start`, `StopJobs`, `Shutdown`, `Jobs` | scheduler |
| Elector, Locker (`distributed.go`), monitors, logger, errors, mocks | | interfaces, output, constants, generated code | |

What is hard here:

* **Ordering between channels.** A run reports through four channels, one of them
  buffered, in an order that depends on the job's options. Rescheduling, counting
  and removal of a limited job are three messages.
* **Identity by id.** `Update` replaces a job under the same id while timers, runs
  and removals of its predecessor are on their way.
* **Stopping.** Cancellation, a wait group, two stop timers, two result channels of
  capacity one and an atomic flag decide together when a stop has succeeded, and
  whoever gives up leaves something for the next call.
* **Time.** Runs are announced before they happen; the clock may have moved past
  them when they are computed, and a custom schedule may not make progress.
* **Bounded queues and tokens** in limit and singleton mode.

`PROJECT.json` lists each hazard at its line with the properties that cover it.

What makes the components correct: every timer belongs to the job that points to
it; every announced run has a timer and every armed timer is announced; a job is
scheduled by exactly one timer or run at a time and never by none; times only move
forward; a limited job goes away. For the lifecycle: a successful stop leaves no
task running, the executor loop exists exactly while the scheduler is started, no
report is left for the wrong caller, every call returns. For the two modes that limit
runs: tokens and work match whatever way a run ends, only what is over the limit is
skipped, and nobody who is skipped is forgotten. For the schedules: the next run is
the earliest set time after the last one.

## Modules

| module | models | depends on |
|---|---|---|
| `Schedule` | the first/next run arithmetic and `NextRuns`, as operators over an arbitrary `next` function | |
| `JobTable` | the job table, its timers and the runs of standard jobs, over stops and restarts | `Schedule` |
| `JobTable_proofs` | theorems about `JobTable`: types, the table and its timers | `JobTable` |
| `JobChain_proofs` | theorems about `JobTable`: a job's chain of runs | `JobTable_proofs` |
| `JobStranded_proofs` | theorem about `JobTable`: no job is stranded | `JobChain_proofs` |
| `JobTimes_proofs` | theorems about `JobTable`: the instants timers are armed for and runs announced for | `JobChain_proofs` |
| `Lifecycle` | Start, StopJobs, Shutdown, RunNow against the scheduler, executor and run goroutines | |
| `Lifecycle_proofs` | theorems about `Lifecycle` | `Lifecycle` |
| `Slots` | abstract: what a limit on concurrent jobs promises | |
| `LimitMode` | limit mode: limiter, queue, runners, stop and restart; implements `Slots` | `Slots` |
| `LimitMode_proofs` | theorems about `LimitMode`, the refinement among them | `LimitMode` |
| `Singleton` | one singleton job: its dispatches, its runners, Update, stop and restart | |
| `Singleton_proofs` | theorems about `Singleton` | `Singleton` |
| `Calendar` | `setup` and `next` of cron, daily, weekly, monthly and one-time jobs, and clock changes | |
| `Calendar_proofs` | theorems about `Calendar` | `Calendar` |
| `MCJobTable`, `MCLifecycle`, `MCLimitMode`, `MCSingleton`, `MCCalendar` | constants of the TLC runs | |

### Schedule and JobTable

A job definition is a record `Def[d]` of the option values the handlers read and
its `next` function, so a daily job, a cron job, an exhausted one-time job and a
faulty custom `Cron` are all just functions on instants. Instants are integers;
0 is Go's zero time.

`jobs[id]` is the entry of `s.jobs`; `timer[x]` an armed `AfterFunc`; `run[r]` a
goroutine: first the timer's callback, blocked on `jobsIn` ("send"), then the one of
`executor.start`/`runJob`, with the messages it still has to send as the sequence
`todo` (`Path` is the order `runJob` sends them in); `timing` the buffered
`jobTimingUpdateCh`; `removing` the goroutines that `selectJobTimingUpdate` starts.
One action is one pass of the scheduler's select or one step of a run; a send on an
unbuffered channel and the handler that receives it are one action. `selectStart` is
split into one action per job (`StartJob`), since runs proceed between them, and
`Ready` keeps the other handlers out meanwhile, and while `stopScheduler` waits.
`Update` is `RemoveJob` followed by `NewJob` of the same id.

`StopJobs` is the cancelling of the executor and the jobs, `Stopped` the executor's
report; in between runs give up what they have to send (`GivesUp`). Only stops that
succeed are followed, so every run has ended at `Stopped`; what is left over is a
callback blocked on `jobsIn`, which the next executor receives. `late` records the
ids for which there was one.

`NextRuns` is the list `Job.NextRuns` would return, computed from a copy of the job;
`RunsAsForetold` relates it to what the scheduler goroutine does later.

`nextScheduled` is a sorted slice without duplicates and is represented as a set;
`ScheduleMovesForward` is the reason this is sound.

Abstractions: the task's result (it returns, with or without error); listeners
other than the one that can abort a run; `startedAt` updates, which only change
what accessors report; metrics. The clock does not go backwards.

### Lifecycle

Each goroutine has a program counter and stops at every point where it blocks or
reads what another writes. `epc` are executor goroutines (each Start makes one),
`current` the one whose context is `e.ctx`, `tick` callbacks and runs, `waits` the
wait groups whose mutex is held by `Wait`. `stopErrCh` and `done` are the channels
of capacity 1. Two details of Go matter: a select with several ready cases takes
any; and a rendezvous where both sides also select on `shutdownCtx.Done()` cannot
happen once that is closed, since neither side waits any more.

The one job has a schedule that never ends. A run that starts while all of `Ticks`
are busy is not followed. The wait groups of singleton and limit mode runners are
not in the model; `Singleton` and `LimitMode` have them.

### Slots and LimitMode

`Slots` says what is promised, without goroutines, tokens or queues: accepted
dispatches wait in line, at most `Limit` are worked on, in reschedule mode one that
would have to wait is not accepted, and what waits is lost only while the executor
is stopped.

In `LimitMode`, `dispatch[d]` is the goroutine `executor.start` makes for a `jobIn`,
`runner[r]` a `limitModeRunner` with the `jobIn` in its hands and the steps `runJob`
has left, `limiter` the tokens in `rescheduleLimiter`, `in` the common queue,
`started` the flag that keeps the runners from being started twice. The last three
and `singletonJobs` belong to the scheduler's `limitModeConfig` and outlive a stop.
`Cancels`, `Reports` and `Resets` are the steps of `executor.stop`: the report is out
before `started` is reset, so a Start may come in between. `Hasty` are the modes in
which it may, and in which a stop may time out. A `jobIn` carries `sendOut`, the code's
`shouldSendOut`: `SendOutForRescheduling` clears it, except where the context is done
first (`executor.go:286`). The refinement (`LimitedSlots`) maps
`in` to the line and the runners that hold a `jobIn` to the workers.

The scheduler is reduced to what it serves: which jobs there are and whose timer is
armed. A timer is followed until `StopJobs` disarms it. A dispatch that starts while
all `Dispatchers` are busy, or would start more runners than there are, is not
followed. Update is not in the model (removal is).

### Singleton

`dispatch[d]` is the goroutine `executor.start` makes for a `jobIn`, from
`requestJobCtx` to `sendOutForRescheduling`; `runner[r]` a `singletonModeRunner`,
`in[r]` and `token[r]` its two channels, `registered` the entry of
`e.singletonRunners`. The `Load` and the `Store` of the map are two steps, as are
filling the limiter and sending to the queue. The scheduler is reduced to what it
serves: `job` (with a version, since a context is cancelled by `Update`) and
whether the timer is `armed`; it serves nobody while it waits for the executor.
`Update` is `RemovesJob` then `AddsJob`, and the constant `NewModes` says whether
it may change the mode. Runs may be refused (`Begins` then goes to `resched`).

A restart (`Starts`) makes a new map and new wait groups. What is left over goes on:
a dispatch under way at the stop, a callback blocked on `jobsIn` (`strays`), and,
when the stop has timed out, a runner with its queue. `group` is the executor whose
wait group counts a runner, `ctx` the executor whose context it reads. `Uses` bounds
what clients do in one behaviour, so that a run can take Update and RunNow in some
behaviours and a restart in others.

Messages that change nothing here (completion, timing) are left out, and so are
stop times. The buffer of 1000 is `QueueCap`.

### Calendar

`setup` turns what the caller asked for into the schedule (times sorted, cleared of
duplicates, past ones dropped, or the definition refused); `next` for each kind of
job is an operator of the same structure as the code; the state machine sets the
schedule up and follows the chain of runs, `lastRun' = next(lastRun)`. Times are
integers and a zone is one transition of the wall clock: `WallOf` reads an instant,
`DateAt` is `time.Date`, which reads a wall time that does not exist, or exists twice,
with the offset its first guess finds: west of Greenwich it comes to an instant before
the gap and to the first of the two, east of it to one after the gap and to the second.
A cron expression may come with a zone of its own (`TZ=` or `CRON_TZ=`, `Location`): it is
read there, and the days of a gap are counted there, but `cronJob.next` looks for a repeated reading
in the location of the last run, which is the scheduler's (`NextCron` takes both). By how
much two zones differ otherwise makes no difference to that, so that a zone has no offset.
These, `AddDate` and the cron library's `Next` (the first later
instant whose reading the expression permits) are external; the set times of a day,
the policies, the loops over intervals, the days counted from a month's end and
both corrections `cronJob.next` makes to the library are gocron's. The reference
`Due` says from days and set times alone when a job is due, and `Earliest` takes the
first after the last run.

A day has 6 readings instead of 86400 seconds, a year 4 months of 4 or 5 days;
weeks have 7 days, as in the code. The loop bound of 400 is `Strides`. `Longest` stands
for the 31 days that `setup` admits, and `LengthsAssumption` for a fact of the calendar
that `handleNegativeDays` relies on: a shorter month follows a longest one, so that
counting back over its beginning ends on a day number that it does not have.

Two predicates say what a zone's transition leaves alone: `KeepsDays`, that no time
moves to another day (it is not over a midnight, or `time.Date` stays behind it), and
`KeepsMonths`, that no month begins within it. A third, `RepeatsAlike`, says that the zone of an
expression and the scheduler's repeat the same readings, or none. The properties have them as conditions; the
known limits tell what happens without.

`Schedule` and `Calendar` meet at `next`: `JobTable` takes any function for it, so
what it checks holds for these.

## Runs

| run | question | bounds |
|---|---|---|
| `job_table` | Do the table, the timers and the announced runs stay consistent? | one id, 6 definitions, 2 timers, 2 runs, clock 1..3, 2 adds, 1 RunNow, 1 stop, 3 of these calls in all, 2 pending removals |
| `limited_runs` (violated) | Does WithLimitedRuns limit the executions? | the limited job with intervals from completion, alone |
| `lifecycle` | What does a stop guarantee, and does every call return? | 2 clients, 2 starts, 1 run that may never end, executor timeout, Shutdown may be given up; fairness |
| `hasty_callers` | Is there one executor loop when StopJobs, and the scheduler, give up on a stop, and RunNow comes at any time? | 2 clients, 2 starts, 2 runs, first run immediate |
| `restart_lost` (violated) | Can jobs be "restarted with Start()"? | 1 client, 2 starts |
| `start_blocks` (violated) | Is Start non-blocking? | one client starts, one calls RunNow; fairness |
| `limit_mode` | Does limit mode keep its limit, its tokens and its jobs? | 2 jobs, limit 2, 2 dispatches, 3 runners, queue of 1, 2 starts, both modes, timeout in reschedule mode |
| `limit_restart` (violated) | Are only "jobs reaching the limit" skipped? | 2 jobs, limit 1, 2 starts |
| `singleton` | Does a job overlap itself when only its timer dispatches it? | 3 dispatches, 2 runner slots, queue of 2, both modes, stop and timeout; fairness |
| `singleton_run_now` | What holds with RunNow and Update, or over a restart? | 2 dispatches, 2 runners, queue of 1; either timer, RunNow and 2 versions, or timer, 2 starts and timeouts |
| `singleton_race` (violated) | Does singleton mode keep the job "from running again if it is already running"? | 2 dispatches, 2 runners, timer and RunNow |
| `calendar` | Is next the earliest set time after the last run, and does what setup accepts run? | 6 zones, 194 definitions (24 cron expressions with one of 4 zones of their own), 31 last runs |

Why the bounds are enough. In `JobTable` the interesting cases need a job, its
successor under the same id and a run of each, or a job before and after a restart
and a callback left over: two adds or one stop, and two runs. A call more (a RunNow,
or the second add after the stop) is possible, all four together are not: a fault
that needs a replaced job, a manual run and a restart at once would be missed. A second
timer is needed only while one is being replaced. A clock of three instants with
intervals of one and two gives runs that are early, on time, late by one and two
intervals, and at the stop time; `Horizon` is far enough that schedules outlast the
clock. Jobs with different ids share only the goroutine; `RemoveByTags` is an
action for a set of ids and its cases for more than one are covered by the proofs.
The six definitions are: plain, limited with start immediately, from completion with
start immediately, with start immediately and a stop time, one-time with a
start time and grace, and one whose `next` makes no progress; a limited job timed
from completion has `limited_runs` to itself.

In `Lifecycle` two starts give one restart, two clients
two overlapping stops, and two runs (in `hasty_callers`) one that is being waited
for and one that joins; one run is enough for a report that comes late or never.
Two starts are too few for what the scheduler's own timer does to `StoppedIsQuiet`
(see the known limits), so `hasty_callers`, which has that timer, does not claim it;
what the runs do claim is proved for any number of starts, clients and runs.

In `LimitMode` a limit of two is the least at which two runners meet; one of the
jobs is a singleton that may be removed, the other is timed from completion and may
be run by hand, so that every path of a runner and of a dispatch is taken, twice at
a time. A queue of one can be full while a
dispatch waits to push. Three runners are two for one executor and one left over from a timed-out
stop; a restart that would need a fourth is not followed there, but the proofs cover any number.

In `Singleton` a race needs two dispatches and two runners, and a full queue one
dispatch more than its size; two versions are one Update, two starts one restart,
with one runner before it and one after; the restart properties hold with a third
runner too. `FirstRunsExclusive` would fail if a second runner were ever made by
timer alone: the slot for it is there.

`Calendar` starts from every instant of six days
that contain a week's end, a month's end and the transition, and follows the runs
into the next year of four months, with intervals that skip nothing, skip one or two and come
back to the same month, cron expressions with and without a zone of their own, days that some months lack, days and times out of order and
given twice, and set times in, before and
after the gap; the zones have no transition, a gap, a repeated hour and a gap at
midnight, west and east (the last in the east only; in the west `KeepsDays` is false,
see the known limits).
`OrderKept` leaves out of `NextIsEarliest` the days on which the policy changes the
order of the set times (see the known limits).

`CHECK_DEADLOCK FALSE` everywhere: the clock, the starts and the adds are bounded,
and a scheduler that is shut down stops.

Some properties of `JobTable` carry conditions: `added[id] = 1` (the job was never
replaced), `id \notin late` (no callback was left over at a stop), `stops = 0`.
They are there because the code does not keep the property otherwise, see the known limits.
`NeverStranded`, `TimerOwned` and `ArmedIsAnnounced` hold without them. `NeverStranded`
is an action property there: no step takes the last timer or run that keeps a
registered job scheduled, unless the schedule has ended.

### Fairness

`FairSpec` is weak fairness of the scheduler goroutine, each executor goroutine and
each run, up to its task, which may never return; timers expire. Strong fairness
for serving a waiting client and for taking a result: Go chooses uniformly among
ready cases and queues waiting goroutines in order, so none is passed over for
ever. In `Singleton` every goroutine is weakly fair, timers fire and tasks return.
Nobody is obliged to call the API, to give up, or to let a `Lifecycle` task return.
`JobTable`, `LimitMode` and `Calendar` state safety only; that a job is not
stranded is the safety property `NeverStranded` there: somebody holds the right to
reschedule it.

### What the violated runs show

* `limited_runs`: with `WithIntervalFromCompletion` the timing update that triggers
  removal is sent before the completion that counts the run, and the rescheduling
  comes last; a job limited to one execution executes twice.
* `restart_lost`: `stopScheduler` sends the result before `started.Store(false)`; a
  Start right after StopJobs returns is taken for a second Start and lost.
* `start_blocks`: `selectRunJobRequest` sends on `jobsIn` whether or not there is an
  executor; RunNow before Start wedges the scheduler goroutine.
* `singleton_race`: two dispatches load the map before either stores: two runners,
  and the job overlaps itself.
* `limit_restart`: a runner whose select takes a `jobIn` after the cancellation drops
  it without taking its token out of the limiter (`executor.go:319-324`), and the
  limiter outlives the executor: after StopJobs and Start the limit is one lower,
  with a limit of one every dispatch is skipped.

### Known limits

The runs above stay clear of these cases, in which the code misbehaves too, or does
what a reader would not expect; changing the named constants or conditions shows
most of them.

Lifecycle and restarts:

* The scheduler stops waiting for the executor after `stopTimeout + 1s`
  (`scheduler.go:311-317`). When that timer wins against a report that is there, or
  about to be, the report stays in `done` and answers the next stop at once: that stop
  succeeds while its own executor is still stopping, whose report is left over in
  turn (`ReportsMatchStops`), and from the third start on the next Start overtakes it:
  `e.ctx` is the new executor's, a run that joined the old one goes on, and the old one
  has reported success (`StoppedIsQuiet` with `"sched"` in `Timeouts` and 4 `Execs`).
* Two clients in Start at once may both find `started` FALSE: two executor loops, of
  which a stop ends one (`ExecutorMatchesStarted` when two clients call Start).
* A Start whose scheduler takes the `shutdownCtx` case of `scheduler.go:822-826` never
  returns (`CallsReturn`, when both Start and Shutdown are among the calls of
  different clients). `lifecycle` lets one client make both.
* A callback blocked on `jobsIn` when the scheduler stops is received by the next
  executor. Its run reschedules the job from the first run that Start has just armed,
  whose timer is stopped: that announced run is lost, although "runs scheduled before
  a StopJobs no longer apply" (`scheduler.go:813`; `NextRunWillFire` without `late`).
* A limited job whose last run is in progress at StopJobs may lose its completion or
  its timing to the `ctx.Done` case (`executor.go:535-548`), is not removed, and runs
  once more after Start (`LimitedJobGoes` without `stops = 0`).
* A stop that times out leaves runs that go on after a restart. One that reschedules
  its job before `selectStart` reaches it arms a timer that `scheduler.go:757`
  overwrites without stopping. `JobTable` does not follow such stops; `Lifecycle`
  counts those timers (`orphans`).
* NewJob with `WithIdentifier` of an id that is registered stores the new job over the old one
  without stopping its timer (`scheduler.go:766-787`). Not modelled.
* RunNow may return its timeout error while the request is still served later
  (`job.go:1829-1852`).

Replaced and stopping jobs:

* What is on its way for an id is applied to the job registered under it now. The last
  run of a replaced job reschedules its successor, which drops the timer of a run it had
  announced (`NextRunWillFire` without `added[id] = 1`); its completion is counted against the
  successor's limit (`scheduler.go:615`, `LimitedJobGoes` likewise); and the removal of a limited
  job that was replaced at its limit removes the successor (`scheduler.go:672`).
* WithStopDateTime says that "the job's final run may be at the stop time, but not after"
  (`job.go:986`). A run due exactly then does not happen: `scheduler.go:572`, `742` and `752`
  remove the job instead. `ArmedIsAnnounced` says what is documented, no later than the stop time.
* When the context given to WithContext is cancelled, `runJob` returns before it sends the job out
  (`executor.go:432`): the job stays registered and is not rescheduled any more. Not
  modelled: in `JobTable` removal, replacement and StopJobs cancel a job's context.

Limit mode:

* `started` is reset last (`executor.go:687`). When a Start overtakes it, or the stop has timed out,
  a second set of runners works beside the first. In reschedule mode the limiter
  still keeps the limit; in wait mode there is none and it is exceeded
  (`ImplementsSlots` with `"wait"` in `Hasty`). A dispatch of the new executor that
  comes before the reset finds `started` TRUE and waits in the queue until the next
  one starts the runners.
* What is queued at a stop is worked on after the restart.
* In wait mode a dispatch whose sending out was given up at a stop is queued with
  `shouldSendOut` still set (`executor.go:285-287`, `196-197`). A runner of the next executor sends it
  out beside the timer that Start has armed, which is replaced: the run announced for it
  does not happen. So `InLineOnce` is stated up to the first restart (`executor = 1`);
  without that a callback left over at the stop (above) violates it as well.
* In wait mode a job with `WithIntervalFromCompletion` is rescheduled when it is
  queued, not when it completes (`executor.go:196`).

Singleton mode:

* The runner keeps the mode it was made with and Update leaves it in the map. From
  wait to reschedule mode the limiter is nil and every dispatch is skipped
  (`SkipsOnlyWhenBusy` with `NewModes = TRUE`). From reschedule to wait the runner waits for a
  token nobody sends, and StopJobs times out (`RunnerComesBack`, likewise).
* After a timed-out stop and a restart the old runner works on its old queue beside
  the new one: the job overlaps itself (`SingletonExclusive` with 2 starts).
* A dispatch left over from a stop registers its runner in the new executor's map,
  counted by the old wait group only: the next StopJobs does not wait for it. If its
  Add is blocked behind the Wait of a timed-out stop, the registered runner has no
  goroutine until the old task ends.

Schedules:

* Where a policy moves a set time behind the next one (02:30 to 03:30, behind 03:00),
  `nextDay` returns the moved one first and 03:00 is missed (`NextIsEarliest` without
  `OrderKept`).
* A cron run lost in a gap is made up (RunAfterTransition) by searching from the day
  after the last run, at the time of day of the next: it is not when the last run, or now,
  is on the day of the gap (`job.go:1356`), nor, in general, when the expression has several times
  of day.
* Two times of day in a repeated hour both run twice: the correction at
  `job.go:1320` only sees a next run that reads as the last one does.
* It compares what the two read in the last run's location, the scheduler's, while the expression
  may have its own. `CRON_TZ=America/New_York 30 1 * * *` on a scheduler in UTC runs
  at both 01:30s of the day clocks go back (`NextIsEarliest` and `RunsAtASetTime` without
  `RepeatsAlike`); `CRON_TZ=UTC 30 * * * *` on a scheduler in America/New_York loses the run an
  hour after 01:30, which reads 01:30 again there (`NextIsEarliest` likewise).
* `job.go:24-26` says that by default a set time in the gap runs "at the clock-adjusted time
  after the transition". West of Greenwich it runs before: `time.Date` makes 01:30 of
  02:30, as `job_test.go:328-338` expects. `RunsAtASetTime` expects what `time.Date`
  gives for that policy (with `{wall}` for it in `DueAt` it is violated).
* Where clocks jump at midnight west of Greenwich (America/Santiago, which the tests use,
  America/Havana) a daily job at 00:30 runs at 23:30 of the day before. From that run
  `nextDay` finds nothing later, neither on the same day nor on the next, whose 00:30
  is 23:30 again (`job.go:1453`): `next` is zero, and the job is not rescheduled any more
  (`scheduler.go:537-542`). `NextIsEarliest` without `KeepsDays` shows it, with a zone
  `[at |-> 60, len |-> 2, west |-> TRUE]` and a daily job at `<<1>>`.
* There the adjustment of `job.go:1290`, made of hours only, is negative, and a job with
  `DaylightSavingsTimeRunAfterTransition` runs late on the day before (`RunsAtASetTime`
  without `KeepsDays`).
* Where this is the midnight of the first of a month (America/Asuncion, October 2023), the
  loop of `monthlyJob.next` starts on the last day of the month before, at 23:00, and
  `AddDate` moves on from there: a monthly job on day 1 at 03:00 finds no next run, in
  spite of "if none matched by then, none will" (`job.go:1549`; zone `[at |-> 54, ...]`,
  `Strides = 12`, `NextIsEarliest` without its conditions on the zone).

## Proofs

### JobTable_proofs

For every finite or infinite set of ids, timers and runs,
every definition (whatever its `next` returns) and every bound, over any number of
stops and restarts:

* `TypeCorrect`: `Spec => []TypeOK`.
* `TimersAreOwned`: `Spec => []TimerOwned`.
* `ArmedRunsAreAnnounced`: `Spec => []ArmedIsAnnounced`.

The inductive invariant is `TableInv`, the conjunction of `TypeOK`, `Standstill`,
`TimerOwned` and `ArmedIsAnnounced`. `Standstill` is the strengthening: while the
scheduler is not started, or stops, no timer is armed; while it is not started
nothing runs but callbacks that wait for an executor; and the jobs `selectStart`
has yet to prepare have no armed timer. Without it `prepareFirstRun`, which does not stop
the old timer and is called with `nextScheduled` emptied, would break both
invariants. That StopJobs disarms every timer follows from `TimerOwned` itself: it
stops only the timers that jobs point to. The lemmas follow the code:
what a first-run or next-run decision can be (`FirstRunDecides`, `NextRunDecides`:
an arming is never at or after the stop time), what each handler does to the types
(`RemoveType`, `ArmType`, `RescheduleType`, `PrepareFirstRunType`, ...), to
ownership (`OwnedRemoved`, `OwnedRescheduled`, ...) and then one step per action.
`Path`'s sequences need `TailNotEmpty`.

### JobChain_proofs and JobStranded_proofs

For the same range of constants:

* `ScheduledOnce`: `Spec => []OneToken`.
* `AnnouncedRunsWillFire`: `Spec => []NextRunWillFire`.
* `UsedUpJobGoes`: `Spec => []LimitedJobGoes`.
* `NobodyStranded`: `Spec => NeverStranded`.

`ChainInv` extends `TableInv`. A job's token is an armed timer of it or a run that
will reschedule it, and `OneToken` counts them; the count is not inductive, since
nothing in it says that a run gives its token up when it reschedules and that the
timer then armed is the only one. `OneChain` says it pairwise: no two runs hold one, no
run and timer hold one, and a job `selectStart` has yet to prepare has none
(`TimersApart` is the same between timers and callbacks). What a run will still do can be read from its
record because `Shape` says which sequences `todo` can be: the suffixes of `runJob`'s
paths, with a copy of the job exactly after `requestJobCtx`. `NotAdded` says that an
id that is new has nobody in flight, and `LateSends` that callbacks left over at a
stop are the ones in `late`.

`NextRunWillFire` is inductive on top of `ChainInv`: a rescheduling run arms the
timer it announces, and the timer it stops is its own. `LimitedJobGoes` needs that a
run's copy has the definition of the job in the table as long as the job was not
replaced (`SameDef`). `NobodyStranded` holds for replaced jobs as well and needs
more: a run whose copy is not cancelled has the definition registered now
(`LiveCopies`). Without it a run of the predecessor could end its successor's chain at a
stop time that is not the successor's; the cancelled context is what prevents it.
Each theorem is proved from one lemma per handler, which says what
the handler does to the tokens of a job and to everybody else's.

### JobTimes_proofs

* `ArmedAheadOfTheClock`: `Spec => NotArmedInThePast`.
* `AnnouncedRunsMoveForward`: `NeverGoesBack => (Spec => ScheduleMovesForward)`.
* `AnnouncedAsForetold`: `NeverGoesBack => (Spec => RunsAsForetold)`.

These depend on the loops of `advancePastNow`, `advanceNextPastDuplicates` and
`NextRuns`, which `Schedule` writes as recursive functions. That each is defined is
`LoopDefined`: a recursion that calls itself only at later instants has a solution on
`Times` (`ForetellsExists` and `LoopExists` are the two instances). What a loop
returns follows from the latest instant at which it would not hold: from there
`next()` leads to a later one, or the loop is over. So a loop ends, without making progress, in
Zero, or no earlier than it began and at an instant it was looking for (`LoopEnds`), and,
if that is before the stop time, at one `NextRuns` lists (`LoopForetold`).

`NeverGoesBack`: `next(t)` is zero or not before `t`, for jobs that are not timed
from completion. `Calendar_proofs` proves it of cron, daily and weekly jobs in every zone
and, where the transition does not go over a midnight, of monthly and one-time jobs
along their chains of runs; duration jobs add to their argument. A custom `Cron` that returns its argument meets it, too; `ArmedAheadOfTheClock` does not need it. A custom schedule that goes
back may have a run left over from a replaced job announce a run before the ones announced, and
`NextRuns` stops at such a step where the loops go on. Jobs timed from completion
need no such hypothesis, but `ForetoldInv` of `JobChain_proofs`: a run that
reschedules its job finds no future run announced (`NothingAhead`), since that would have a
timer beside the run's own token.

### Lifecycle_proofs

For any clients, any number of starts and runs, tasks that may never end, and
whatever the callers give up:

* `TypeCorrect`: `Spec => []TypeOK`.
* `OneLoopWhenStarted`: `OneStarter => (Spec => []ExecutorMatchesStarted)`.
* `NilMeansQuiet`: `OneStarter /\ "sched" \notin Timeouts => (Spec => []StoppedIsQuiet)`.
* `ResultsGoToTheirStops`: the same, also without `"stop"`, for `ReportsMatchStops`.

The hypotheses are what the code relies on. `OneStarter`: one client calls Start (any
number stop, shut down and run jobs); without it the first theorem is false. `"sched"`
is the scheduler's own timer, `"stop"` a StopJobs that gives up and leaves its result
to the next; both are known limits.

The invariants build on each other. `LoopInv`: a client in Start found the scheduler
not started and it still is not (`Starters`), and the loop is there from the go
statement of `selectStart` until the executor takes the stop (`OneLoop`), which gives
the property at the select. `ReportInv`: an executor on its way out, or its report in
`done`, exists only while the scheduler waits for it (`OneReport`), so `e.ctx` is its own
(`InCharge`) and the cancelled contexts are those of executors that got so far (`Cancelled`).
`QuietInv` has the argument why no run slips through: a run that reaches the
context checks of `runJob` after the cancellation finds either `e.ctx` cancelled, while it is the
stopping executor's, or, from the moment the scheduler waits, its job's
context (`CopiesAreStale`, `LateRunsEnd`); neither alone is inductive, since a run that joins late
may outlive `e.ctx`. `AnswersInv` counts: until the shutdown the StopJobs calls that wait are as many as
the results in `stopErrCh` and the one on its way.

### LimitMode_proofs

For every limit, queue size, set of jobs, and finite sets of dispatches and runners:

* `TypeCorrect`: `Spec => []TypeOK`.
* `TokensCoverTheWork`: `Spec => []TokensCoverWork`; from it `LimitHolds`, that in
  reschedule mode what is queued, on its way to the queue and worked on never exceeds the limit, and
  `FirstExecutorSkipsAtTheLimit`, that until the first stop a dispatch is skipped only then.
* `LimitModeImplementsSlots`: `Spec /\ Bounded => ImplementsSlots`, where `Bounded` is
  reschedule mode, or wait mode without a stop that is given up or overtaken.
* `SingletonsAreExclusive`: `Spec => []SingletonsRunOnce`.
* `NilMeansQuiet`: `Spec => []StoppedMeansQuiet`.
* `NobodyStranded`: `Spec => []NeverStranded`.

The inductive invariants: `TypeInv` adds to `TypeOK` that a runner between take and
release has a `jobIn` (`HandsFull`), without which the types of what it sends are
unknown. `LimitInv` adds `Covered`, that there are tokens for all of the work, and
`Exact`, that there are no others until the first stop (with the first dropped `jobIn` this is
lost, see `limit_restart`). `SingletonInv` adds to `SingletonsRunOnce` that only jobs in
singleton mode are looked up in `singletonJobs`. `Counted`: no runner is of an executor that has
reported success. `Rearmed` is `NeverStranded` by cases: the timer, a dispatch, an
entry of the queue, a runner; each step hands a job on from one to the next.

The refinement maps each step to a step of `Slots` or a stutter. That `Begin` finds a
slot free and `Accept` a place in line is, in reschedule mode, `Covered`; in wait mode, where
nothing but the number of runners limits the work, it is `Orderly`: without hasty stops no runner of
an earlier executor is left when `started` is reset, so that at most `Limit` are alive.

### Singleton_proofs

For every number of dispatches, runners, starts and versions, and every queue size:

* `TypeCorrect`: `Spec => []TypeOK`.
* `TokensAreRuns`, `BusyWhenSkipped`: `~NewModes => (Spec => []TokenIsOneRun)`, and likewise
  `SkipsOnlyWhenBusy`; `NewModes` lets Update change the mode, which breaks both (known limits).
* `NilMeansQuiet`: `Spec => []StoppedMeansQuiet`.
* `NobodyStranded`: `Spec => []NeverStranded`.
* `TimersExclude`: `Spec => []FirstRunsExclusive`.

`TypeInv` contains `Linked`: a dispatch past its store has a runner, a new runner is
started by the dispatch that made it and no other, an empty slot has an empty queue. `TokenInv`
adds that all runners have the job's mode and that each is balanced: what is in its
queue, on its way there, or in its hands is one if its token is set, none otherwise. `Rearmed`
is, as in limit mode, `NeverStranded` by cases, which depend on whether the job is timed from
completion, on who has been cancelled, and on which executor a leftover belongs to. `Alone`, for
`TimersExclude`: while timers alone dispatch the job there is one dispatch or one
armed timer at a time, so that the second load of the map comes after the first store.
`FirstRunsExclusive` says this of a job that is not updated: `Update` between a
dispatch's load and its store brings a second dispatch, and two runners, as RunNow does.

### Calendar_proofs

For every zone, calendar, definition and bound:

* `TypeCorrect`: `Spec => []TypeOK`.
* `AlwaysEarliest`: `Spec => []NextIsEarliest`.
* `AlwaysAtASetTime`: `Spec => []RunsAtASetTime`.
* `AcceptedAlwaysWillRun`: `Spec => []AcceptedWillRun`.
* `EveryRunMovesForward`: each run is after the one before, where the zone `KeepsDays`.
* `NextMovesOn`, `ChainIsAhead`, `RunsMoveForward`: in every zone, for cron, daily and
  weekly jobs, `next` is zero or after the last run, along every chain.

The last three need nothing of what the time package, the sort and the cron library
return: the code compares each candidate with the last run before it returns it. Monthly
jobs do not: beyond the first month they are compared with the start of a month.

The first three rest on `MadeBySetup` (`AlwaysMadeBySetup`): the schedule is what `setup`
made of an accepted definition, and for one-time jobs the times it dropped are not after the
last run. Without it lists would not be sorted and neither statement is true. That it
is kept is short; what it gives is long, since `next` is loops over sorted lists and
the reference `Due` is a set. The argument goes in layers.

1. *What setup makes.* `SortedIs`, `AscendingIs`: the sorted list is in order and has the
   values it was made from. `Sorted` chooses a value by its rank, so what has to be shown is
   that every rank is taken by one value (`RankTaken`, `PlaceTaken`), an induction over
   cardinalities done with a least counterexample (`LeastNatural`).
2. *A day.* With a transition that keeps days a set time of a day is an instant of this
   day, moved as the policy says (`AtDateOnItsDay`, `DueAtIs`), a later day's is later
   (`LaterDayLater`), and on one day they are in order unless `OrderKept` excludes it
   (`SameDayInOrder`).
3. *The inner loops.* The first place of days in order and times in order is the least
   time due on those days (`FirstSetTime`). `LooksAt` is what such a loop promises.
4. *The rounds.* The days looked at for one offset come before those of the next
   (`WeeksInOrder`, `MonthRoundsInOrder`) and together are the due days, so that the first
   result that is not zero is the least of all (`RoundsLeast`): `DailyFollows`,
   `WeeklyFollows`, `MonthlyFollows`. Only with the skip policy can more than two
   offsets matter, and the code tries only then (`IntervalsSeen`).
5. *Months.* The calendar is a sum over the months before: `DaysBeforeIs`, `MonthOfDay`
   and `MonthIs` say that each day is in one month. `DayFromEnd` is the lemma that
   needs `LengthsAssumption`, `ListOfDays` and `ListKept` that the list `handleNegativeDays`
   sorts gives the days due in the month, `PassesBegin` that each pass of the loop starts
   on the first of its month; it is there that `KeepsMonths`, or `KeepsDays`, is needed.
6. *Cron.* The expression permits a reading in every week or never, and the window of the
   search is long enough for that whatever the transition (`CronNextIs`); the made-up
   run is the gap's time if there is one (`GapTimeIsMadeUp`, `FirstMadeUp`), and the second
   reading of a repeated hour is not due (`SecondReading`). All of this is in the expression's
   zone; with `RepeatsAlike` the scheduler's sees the same second readings (`LookedUpAlike`).
7. *What is to come.* A daily or weekly job has a due time after any instant, since one
   transition cannot skip both of two due days (`OneOfTwoDays`, `TimesToCome`).

The conditions on zones (`KeepsDays`, `KeepsMonths`, `RepeatsAlike`) are part of the properties.
`RunsAtASetTime` has weaker conditions than `NextIsEarliest` (no order of the set times, no
`KeepsMonths`), so that the same layers are proved with "one of" in the place of "the
least of" (`SomeSetTime`, `RoundsSome`, `MonthlyRunsOnDueDays`).

### Assumptions, and what is only model-checked

The assumptions are the named ones of the modules: the types of definitions and
bounds, finite sets where something is counted, that `None` is not a job, timer, run, or
message, and of the calendar that a shorter month follows a longest one, which
holds of every year. TLC evaluates them on each run.

Only model-checked: `CallsReturn` and `RunnerComesBack`, since liveness under fairness is out of
the prover's reach, and `InLineOnce`. Every other invariant and action property of a passing run is a theorem,
under the hypotheses named with it. The expected violations are counterexamples, and need no proof.

## Not modelled

* The locker's lock and unlock around a run, and its listeners: the run pipeline
  has their outcomes only.
* The options of definitions and of the scheduler: each sets a field of the job
  under construction after a check of its argument. `JobTable`'s definitions are
  what they set.
* The accessors of `Job` and `Jobs()`: each reads one field of a copy (`NextRuns`,
  which computes, is modelled).
* Duration and random jobs' `next`: they add to `lastRun`.
* Monitors, logger, errors, mocks and examples hold no state of the scheduler.

## Plan

Done: `Schedule` (with `NextRuns`), `JobTable` (with stop and restart),
`Lifecycle`, `Slots`, `LimitMode`, `Singleton` (over a restart), `Calendar` (with
`setup` and cron), and proofs about each.

1. `JobTable` over stops that time out: what of `TimerOwned` is left, and a run that
   reads a new executor's context.
2. A run's lock: released on every path of `runJob`, and a refused run reschedules once.
3. `Calendar`: a cron job with several times of day in the gap, and what holds of monthly jobs
   where clocks jump at midnight.
