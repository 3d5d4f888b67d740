------------------------------- MODULE Calendar -------------------------------
(***************************************************************************)
(* The schedules of jobs: setup of their definitions (job.go:299-686,      *)
(* util.go:79-103), the next functions of cron, daily, weekly, monthly and *)
(* one-time jobs (job.go:1301-1644) and the chain of runs they make: each  *)
(* run is computed from the one before (scheduler.go:525-539).             *)
(*                                                                         *)
(* Time is an integer; 0 is Go's zero time.  A day has Units readings of   *)
(* the wall clock and wall times are numbered day * Units + unit.  A zone  *)
(* has one transition, at the instant zone.at: the wall clock jumps ahead  *)
(* by zone.len, or back if that is negative.  Months repeat every year.    *)
(* A cron expression may come with a zone of its own; how far two zones    *)
(* are apart otherwise makes no difference, as all that is asked of the    *)
(* scheduler's zone is then whether it reads two instants the same.        *)
(* The definitions of the first section are what Go's time package and the *)
(* cron library do.                                                        *)
(***************************************************************************)
EXTENDS Integers, SequencesExt

CONSTANTS
  Units,      \* readings of the wall clock in a day
  Lengths,    \* the lengths of a year's months, a sequence
  Strides,    \* bound of the loops over intervals
  Zones, Definitions,
  FirstRuns,  \* when the job is set up; the first next is computed from it
  Horizon,    \* bound on the runs that are followed
  None

ASSUME ConstantAssumption ==
  /\ Units \in Nat \ {0} /\ Strides \in Nat \ {0, 1} /\ Horizon \in Nat
  /\ Lengths \in Seq(Nat \ {0}) /\ Lengths # <<>>
  /\ FirstRuns \subseteq 1 .. Horizon

(* DaylightSavingsTimePolicy.                                              *)
Policies == {"default", "skip", "after"}

(* What callers may ask for; setup turns some of it away.  The functions   *)
(* that make lists of days and times take one at least.                    *)
NonEmptySeq(S) == Seq(S) \ {<<>>}

ZoneType == [at : Nat, len : Int, west : BOOLEAN]

(* The location is that of a TZ= or CRON_TZ= prefix, or None.              *)
DefinitionType ==
  [kind : {"cron"}, days : SUBSET (0 .. 6), units : SUBSET (0 .. Units - 1), policy : Policies,
   location : ZoneType \cup {None}]
  \cup [kind : {"daily"}, interval : Nat, atTimes : NonEmptySeq(Nat), policy : Policies]
  \cup [kind : {"weekly"}, interval : Nat, days : NonEmptySeq(0 .. 6),
        atTimes : NonEmptySeq(Nat), policy : Policies]
  \cup [kind : {"monthly"}, interval : Nat, days : NonEmptySeq(Int),
        atTimes : NonEmptySeq(Nat), policy : Policies]
  \cup [kind : {"oneTime"}, times : Seq(Nat), startImmediately : BOOLEAN]

ASSUME DefinitionAssumption == Definitions \subseteq DefinitionType

ASSUME ZoneAssumption == Zones \subseteq ZoneType

VARIABLES
  zone,        \* the scheduler's location
  definition,  \* what the caller asked for
  schedule,    \* what setup has made of it, or None
  lastRun      \* the run the next one is computed from

vars == <<zone, definition, schedule, lastRun>>

Zero == 0

-----------------------------------------------------------------------------
(* The time package.                                                       *)

WallOf(z, t) == IF t < z.at THEN t ELSE t + z.len

(* time.Date.  A wall time that does not exist, or exists twice, is read   *)
(* with the offset that the first guess gives: west of Greenwich it comes  *)
(* to an instant before the gap and to the first of the two, east of it to *)
(* one after the gap and to the second.                                    *)
DateAt(z, w) ==
  IF w < (IF z.west THEN z.at ELSE z.at + z.len) THEN w ELSE w - z.len

Exists(z, w) == WallOf(z, DateAt(z, w)) = w

Day(z, t) == WallOf(z, t) \div Units
Unit(z, t) == WallOf(z, t) % Units
Weekday(day) == day % 7

Months == Len(Lengths)
MonthLen(m) == Lengths[(m % Months) + 1]
DaysBefore[m \in 0 .. Months] == IF m = 0 THEN 0 ELSE DaysBefore[m - 1] + MonthLen(m - 1)
YearLen == DaysBefore[Months]
Longest == Max(ToSet(Lengths))
MonthStart(m) == YearLen * (m \div Months) + DaysBefore[m % Months]

(* A shorter month follows one of the longest, as all of the Gregorian     *)
(* calendar's do; counting back from its end by more days than it has      *)
(* comes to a day of the month before that it does not have.               *)
ASSUME LengthsAssumption ==
  \A m \in 1 .. Months : MonthLen(m) = Longest \/ MonthLen(m - 1) = Longest

(* Months are numbered from 0.                                             *)
Month(day) ==
  LET year == Months * (day \div YearLen)
  IN  Max({m \in year .. year + Months - 1 : MonthStart(m) <= day})
DayOfMonth(day) == day - MonthStart(Month(day)) + 1

(* Time.AddDate(0, months, days), for a wall time that is kept.            *)
AddMonths(z, t, months) ==
  LET day == Day(z, t)
  IN  DateAt(z, (MonthStart(Month(day) + months) + DayOfMonth(day) - 1) * Units
                + Unit(z, t))
AddDays(z, t, days) == DateAt(z, WallOf(z, t) + days * Units)

(* slices.BinarySearchFunc: the first place whose time is not before t.    *)
SearchTimes(times, t) ==
  Min({i \in 1 .. Len(times) : times[i] >= t} \cup {Len(times) + 1})

(* The zone of a cron expression is its own, or the scheduler's.           *)
Location(z, s) == IF s.kind = "cron" /\ s.location # None THEN s.location ELSE z

(* The cron library: the first instant after t whose reading the           *)
(* expression permits; a time in a gap is never read.                      *)
Permits(s, wall) == Weekday(wall \div Units) \in s.days /\ wall % Units \in s.units

CronNext(z, s, t) ==
  LET later == {u \in t + 1 .. t + Strides * 7 * Units : Permits(s, WallOf(z, u))}
  IN  IF later = {} THEN Zero ELSE Min(later)

-----------------------------------------------------------------------------
(* setup.                                                                  *)

(* The i-th value has fewer than i values before it and i up to itself.    *)
Sorted(seq) ==
  [i \in DOMAIN seq |-> CHOOSE x \in ToSet(seq) :
     /\ Cardinality({j \in DOMAIN seq : seq[j] < x}) < i
     /\ Cardinality({j \in DOMAIN seq : seq[j] <= x}) >= i]

(* What is left of a sorted sequence without duplicates.                   *)
Ascending(S) ==
  [i \in 1 .. Cardinality(S) |-> CHOOSE x \in S : Cardinality({y \in S : y <= x}) = i]

(* Mutant: a time that is just now is kept.                                *)
FutureTimes_AndNow(d, now) == Ascending({t \in ToSet(d.times) : t >= now})

(* removeSliceDuplicatesTimeOnSortedSlice, and only what is still to come. *)
FutureTimes(d, now) == Ascending({t \in ToSet(d.times) : t > now})

Accepted(z, d, now) ==
  CASE d.kind = "cron" -> CronNext(Location(z, d), d, now) # Zero
    [] d.kind = "oneTime" -> d.startImmediately \/ FutureTimes(d, now) # <<>>
    [] OTHER ->
         /\ d.interval > 0
         /\ \A at \in ToSet(d.atTimes) : at < Units
         /\ d.kind = "monthly" =>
              \A day \in ToSet(d.days) : day \in -Longest .. Longest \ {0}

Setup(d, now) ==
  CASE d.kind = "cron" -> d
    [] d.kind = "oneTime" -> [kind |-> "oneTime", times |-> FutureTimes(d, now)]
    [] d.kind = "daily" -> [d EXCEPT !.atTimes = Sorted(@)]
    [] d.kind = "weekly" -> [d EXCEPT !.atTimes = Sorted(@), !.days = Sorted(@)]
    [] d.kind = "monthly" ->
         [kind |-> "monthly", interval |-> d.interval, policy |-> d.policy,
          atTimes |-> Sorted(d.atTimes),
          days |-> Ascending({day \in ToSet(d.days) : day > 0}),
          daysFromEnd |-> Ascending({day \in ToSet(d.days) : day < 0})]

-----------------------------------------------------------------------------
(* The set times of a day.                                                 *)

(* daylightSavingsTimeRunAfterTransitionTime                               *)
RunAfterTransition(z, normalized, requested) ==
  LET offset == requested - Unit(z, normalized)
  IN  IF offset <= 0 THEN normalized ELSE normalized + offset

(* Mutant: the policies are not looked at.                                 *)
AtDate_NoPolicy(z, policy, day, at) == DateAt(z, day * Units + at)

(* atDate after the detection of a gap; Zero stands for continue.          *)
AtDate(z, policy, day, at) ==
  LET atDate == DateAt(z, day * Units + at)
  IN  IF Unit(z, atDate) = at \/ policy = "default" THEN atDate
      ELSE IF policy = "skip" THEN Zero
      ELSE RunAfterTransition(z, atDate, at)

(* A place in the loops over days and, on each, over set times; AtPlace is *)
(* zero if the loop continues there.                                       *)
Places(s, days) == (1 .. Len(days)) \X (1 .. Len(s.atTimes))
AtPlace(z, s, days, p) == AtDate(z, s.policy, days[p[1]], s.atTimes[p[2]])

(* The atDate of the first of the places; Zero if there is none.           *)
FirstAt(z, s, days, places) ==
  LET i == Min({p[1] : p \in places})
      k == Min({p[2] : p \in {q \in places : q[1] = i}})
  IN  IF places = {} THEN Zero ELSE AtPlace(z, s, days, <<i, k>>)

(* The first of the results that is not zero.                              *)
FirstNonZero(results) ==
  LET good == {k \in DOMAIN results : results[k] # Zero}
  IN  IF good = {} THEN Zero ELSE results[Min(good)]

-----------------------------------------------------------------------------
(* next, for each kind of job.                                             *)

(* Only when times may be skipped are there further intervals to try.      *)
Intervals(s) == IF s.policy = "skip" THEN 1 .. Strides ELSE {1}

NextDay(z, s, last, offset) ==
  LET days == <<Day(z, last) + offset>>
  IN  FirstAt(z, s, days, {p \in Places(s, days) : AtPlace(z, s, days, p) > last})

NextDaily(z, s, last) ==
  FirstNonZero([k \in {0} \cup Intervals(s) |-> NextDay(z, s, last, k * s.interval)])

NextWeekDayAtTime(z, s, last, offset) ==
  LET date == Day(z, last) + offset
      days == [i \in DOMAIN s.days |-> date + s.days[i] - Weekday(date)]
  IN  FirstAt(z, s, days,
        {p \in Places(s, days) : days[p[1]] >= date /\ AtPlace(z, s, days, p) > last})

(* Mutant: the interval is counted from the day and not from the week.     *)
WeekOffset_FromDay(s, weekday, k) == IF k = 0 THEN 0 ELSE k * s.interval * 7

WeekOffset(s, weekday, k) == IF k = 0 THEN 0 ELSE k * s.interval * 7 - weekday

NextWeekly(z, s, last) ==
  FirstNonZero(
    [k \in {0} \cup Intervals(s) |->
       NextWeekDayAtTime(z, s, last, WeekOffset(s, Weekday(Day(z, last)), k))])

(* The days of from's month, those counted from its end by going back      *)
(* from the first day of the month after.                                  *)
HandleNegativeDays(z, s, from) ==
  LET firstDayNextMonth == DateAt(z, MonthStart(Month(Day(z, from)) + 1) * Units)
      FromEnd(n) == DayOfMonth(Day(z, AddDays(z, firstDayNextMonth, n)))
  IN  Sorted([i \in DOMAIN s.daysFromEnd |-> FromEnd(s.daysFromEnd[i])] \o s.days)

(* A date that time.Date puts into another month is passed over.           *)
NextMonthDayAtTime(z, s, from, firstPass) ==
  LET today == Day(z, from)
      list == HandleNegativeDays(z, s, from)
      days == [i \in DOMAIN list |-> MonthStart(Month(today)) + list[i] - 1]
      InMonth(p) ==
        Month(Day(z, DateAt(z, days[p[1]] * Units + s.atTimes[p[2]]))) = Month(today)
  IN  FirstAt(z, s, days,
        {p \in Places(s, days) :
           /\ days[p[1]] >= today /\ InMonth(p)
           /\ IF firstPass THEN AtPlace(z, s, days, p) > from
                           ELSE AtPlace(z, s, days, p) >= from})

(* from, after each pass of the loop.                                      *)
From(z, s, last) ==
  LET first == DateAt(z, MonthStart(Month(Day(z, last)) + s.interval) * Units)
      f[i \in 1 .. Strides] ==
        IF i = 1 THEN first ELSE AddMonths(z, f[i - 1], s.interval)
  IN  f

NextMonthly(z, s, last) ==
  FirstNonZero(
    [i \in 0 .. Strides |->
       IF i = 0 THEN NextMonthDayAtTime(z, s, last, TRUE)
       ELSE NextMonthDayAtTime(z, s, From(z, s, last)[i], FALSE)])

NextOneTime(s, last) ==
  LET found == \E i \in 1 .. Len(s.times) : s.times[i] = last
      idx == SearchTimes(s.times, last) + IF found THEN 1 ELSE 0
  IN  IF idx > Len(s.times) THEN Zero ELSE s.times[idx]

(* The days between the last run and the next, in the expression's zone x  *)
(* and at the time of day of the last.                                     *)
Between(x, last) ==
  LET day[k \in 1 .. Strides * 7] == AddDays(x, IF k = 1 THEN last ELSE day[k - 1], 1)
  IN  day

(* The run that a day between should have had at next's time of day, if    *)
(* that falls into a gap there; or Zero.                                   *)
MadeUp(x, s, last, next, day) ==
  LET wall == Day(x, day) * Units + Unit(x, next)
      candidate == RunAfterTransition(x, DateAt(x, wall), Unit(x, next))
  IN  IF ~Exists(x, wall) /\ Permits(s, wall) /\ candidate > last /\ candidate < next
      THEN candidate ELSE Zero

(* The expression is read in its zone x, but whether the clock shows the   *)
(* last run's reading again is looked up in z, the scheduler's.            *)
NextCron(z, x, s, last) ==
  LET next == CronNext(x, s, last)
      between == {k \in 1 .. Strides * 7 : Between(x, last)[k] < next}
      madeUp == FirstNonZero([k \in between |-> MadeUp(x, s, last, next, Between(x, last)[k])])
  IN  IF next # Zero /\ WallOf(z, last) = WallOf(z, next) THEN CronNext(x, s, next)
      ELSE IF next = Zero \/ s.policy # "after" \/ madeUp = Zero THEN next
      ELSE madeUp

NextRun(z, s, last) ==
  CASE s.kind = "cron"    -> NextCron(z, Location(z, s), s, last)
    [] s.kind = "daily"   -> NextDaily(z, s, last)
    [] s.kind = "weekly"  -> NextWeekly(z, s, last)
    [] s.kind = "monthly" -> NextMonthly(z, s, last)
    [] s.kind = "oneTime" -> NextOneTime(s, last)

-----------------------------------------------------------------------------
(* The chain of runs.                                                      *)

TypeOK ==
  /\ zone \in Zones /\ definition \in Definitions
  /\ schedule = None \/ schedule.kind = definition.kind
  /\ lastRun \in 1 .. Horizon

Init ==
  /\ zone \in Zones /\ definition \in Definitions /\ schedule = None
  /\ lastRun \in FirstRuns

SetsUp ==
  /\ schedule = None /\ Accepted(zone, definition, lastRun)
  /\ schedule' = Setup(definition, lastRun)
  /\ UNCHANGED <<zone, definition, lastRun>>

(* Mutant: the zero time is scheduled like any other.                      *)
Runs_Zero ==
  /\ schedule # None /\ NextRun(zone, schedule, lastRun) <= Horizon
  /\ lastRun' = NextRun(zone, schedule, lastRun)
  /\ UNCHANGED <<zone, definition, schedule>>

(* The zero time ends the chain.                                           *)
Runs ==
  /\ schedule # None /\ NextRun(zone, schedule, lastRun) \in 1 .. Horizon
  /\ lastRun' = NextRun(zone, schedule, lastRun)
  /\ UNCHANGED <<zone, definition, schedule>>

Next == SetsUp \/ Runs

Spec == Init /\ [][Next]_vars

-----------------------------------------------------------------------------
(* What the definitions promise, from the days and times alone.            *)

(* The days a job is due on, counted from the day of its last run.         *)
DueDays(z, d, last) ==
  LET today == Day(z, last)
      week == today - Weekday(today)
      month == Month(today)
  IN  CASE d.kind = "daily" -> {today + k * d.interval : k \in 0 .. Strides}
        [] d.kind = "weekly" ->
             {day \in {week + 7 * k * d.interval + wd : k \in 0 .. Strides, wd \in ToSet(d.days)} :
                day >= today}
        [] d.kind = "monthly" ->
             UNION {{day \in MonthStart(m) .. MonthStart(m + 1) - 1 :
                       /\ day >= today
                       /\ {DayOfMonth(day), day - MonthStart(m + 1)} \cap ToSet(d.days) # {}} :
                    m \in {month + k * d.interval : k \in 0 .. Strides}}

(* When a set time is due: at its wall time, and if there is none, not at  *)
(* all, as long after the transition as it was into the gap, or when the   *)
(* time package says.                                                      *)
DueAt(z, policy, wall) ==
  IF Exists(z, wall) THEN {DateAt(z, wall)}
  ELSE CASE policy = "skip"    -> {}
         [] policy = "after"   -> {wall}
         [] policy = "default" -> {DateAt(z, wall)}

(* Every reading a cron expression permits in its zone is due but the one  *)
(* just run, should the clock show it again; after a gap, only by policy.  *)
DueByCron(z, d, last) ==
  {t \in last + 1 .. last + Strides * 7 * Units :
     WallOf(z, t) # WallOf(z, last) /\ Permits(d, WallOf(z, t))}
  \cup {t \in z.at .. z.at + z.len - 1 : d.policy = "after" /\ Permits(d, t)}

Due(z, d, last) ==
  CASE d.kind = "oneTime" -> ToSet(d.times)
    [] d.kind = "cron" -> DueByCron(Location(z, d), d, last)
    [] OTHER -> UNION {DueAt(z, d.policy, day * Units + at) :
                       day \in DueDays(z, d, last), at \in ToSet(d.atTimes)}

Earliest(z, d, last) ==
  LET later == {t \in Due(z, d, last) : t > last}
  IN  IF later = {} THEN Zero ELSE Min(later)

(* A transition within one day, and not over its midnight.                 *)
KeepsDays(z) ==
  /\ \A w \in z.at .. z.at + z.len - 1 :
       Day(z, DateAt(z, w)) = w \div Units /\ Day(z, w) = w \div Units
  /\ Day(z, z.at - 1) <= Day(z, z.at)

(* No month begins within it.                                              *)
KeepsMonths(z) ==
  \A w \in z.at .. z.at + z.len - 1 : w % Units = 0 => DayOfMonth(w \div Units) # 1

(* Both zones repeat the same readings, or none: an expression whose zone  *)
(* goes back where the scheduler's does not runs twice, and one whose zone *)
(* does not where the scheduler's does loses a run.                        *)
RepeatsAlike(z, x) == (z.at = x.at /\ z.len = x.len) \/ (z.len >= 0 /\ x.len >= 0)

(* A run after the gap comes in its order: the expression has one time,    *)
(* and its last run was not on the day of the gap.                         *)
GapKept(x, d, last) ==
  d.policy = "after" /\ x.len > 0 => Cardinality(d.units) = 1 /\ Day(x, last) # Day(x, x.at)

(* The transition leaves the set times in their order.                     *)
OrderKept(z, d, last) ==
  CASE d.kind = "oneTime" -> TRUE
    [] d.kind = "cron" -> GapKept(Location(z, d), d, last)
    [] OTHER ->
         \A day \in {Day(z, z.at - 1), Day(z, z.at)} : \A at, later \in ToSet(d.atTimes) :
           LET t == AtDate(z, d.policy, day, at)
               u == AtDate(z, d.policy, day, later)
           IN  at < later /\ t # Zero /\ u # Zero => t <= u

-----------------------------------------------------------------------------
(* Properties.                                                             *)

(* next returns the first set time after the last run, in whatever order   *)
(* days and times were given, over day, week and month ends, intervals and *)
(* clock changes, and zero only when there is none; where a clock change   *)
(* does not put the set times out of order nor move one to another day,    *)
(* and a cron expression's own zone repeats what the scheduler's does      *)
(* (job.go:1307-1599, 1632-1644).                                          *)
NextIsEarliest ==
  LET x == Location(zone, definition) IN
  /\ schedule # None /\ OrderKept(zone, definition, lastRun)
  /\ KeepsDays(x) /\ RepeatsAlike(zone, x)
  /\ definition.kind = "monthly" => KeepsMonths(zone)
  => NextRun(zone, schedule, lastRun) = Earliest(zone, definition, lastRun)

(* Every run is at a set time of a due day, moved by the policy if the     *)
(* wall time does not exist, and after the last one; of a cron expression  *)
(* with a zone of its own if that repeats what the scheduler's does.  For  *)
(* DaylightSavingsTimeRunAfterTransition this is "immediately following    *)
(* the [...] transition" (job.go:34-37).                                   *)
RunsAtASetTime ==
  LET x == Location(zone, definition) IN
  /\ schedule # None /\ NextRun(zone, schedule, lastRun) # Zero
  /\ KeepsDays(x) /\ RepeatsAlike(zone, x)
  => /\ NextRun(zone, schedule, lastRun) \in Due(zone, definition, lastRun)
     /\ NextRun(zone, schedule, lastRun) > lastRun

(* A definition that setup accepts has a run to come, or starts at once;   *)
(* of monthly jobs not those whose days none of their months has.  A       *)
(* one-time job is turned away only if all its times are past              *)
(* (job.go:280-282, 430, 655-663; util.go:94-98).                          *)
AcceptedWillRun ==
  schedule = None /\ KeepsDays(Location(zone, definition)) =>
    IF Accepted(zone, definition, lastRun)
    THEN \/ NextRun(zone, Setup(definition, lastRun), lastRun) # Zero
         \/ definition.kind = "monthly"
         \/ definition.kind = "oneTime" /\ definition.startImmediately
    ELSE definition.kind = "oneTime" => Earliest(zone, definition, lastRun) = Zero

=============================================================================
