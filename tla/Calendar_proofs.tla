---------------------------- MODULE Calendar_proofs ----------------------------
(***************************************************************************)
(* Theorems about Calendar, for every zone, calendar, definition and bound *)
(* of the loops: every run of a chain is at a set time of its definition,  *)
(* and the first one after the run before; what setup accepts has a run to *)
(* come; and the next run of a cron, daily or weekly job is after the last *)
(* one whatever the clock does.                                            *)
(*                                                                         *)
(* The lemmas go from the bottom up: least and first elements; wall times, *)
(* days and gaps; the loops over the set times of days; the rounds of days *)
(* that daily, weekly and monthly jobs look at; what setup makes of lists; *)
(* one-time jobs; the cron library and the times that are made up for;     *)
(* months.  The last section is about the specification.                   *)
(***************************************************************************)
EXTENDS Calendar, FiniteSetTheorems, WellFoundedInduction, TLAPS

USE DEF Zero

(* A non-empty set of naturals has a least element.                        *)
LEMMA LeastNatural ==
  ASSUME NEW S \in SUBSET Nat, S # {}
  PROVE  Min(S) \in S /\ \A m \in S : Min(S) <= m
<1> DEFINE R == {p \in Nat \X Nat : p[1] < p[2]}
<1>1. IsWellFoundedOn(R, Nat)
  BY NatLessThanWellFounded DEF OpToRel
<1>2. \A m, n \in Nat : m < n => <<m, n>> \in R
  OBVIOUS
<1> HIDE DEF R
<1>3. PICK n \in S : \A m \in S : ~ (<<m, n>> \in R)
  BY <1>1, WFMin
<1>4. \A m \in S : m \in Nat /\ n \in Nat /\ ~(m < n)
  BY <1>2, <1>3
<1>5. \A m \in S : n <= m
  BY <1>4
<1> QED
  BY <1>3, <1>5 DEF Min

(* The first place in the loops over days and set times is one of them.    *)
LEMMA FirstAtPlace ==
  ASSUME NEW z, NEW s, NEW days, NEW places \in SUBSET (Nat \X Nat), places # {}
  PROVE  \E p \in places : FirstAt(z, s, days, places) = AtPlace(z, s, days, p)
<1> DEFINE rows == {p[1] : p \in places}
           i == Min(rows)
           columns == {p[2] : p \in {q \in places : q[1] = i}}
           k == Min(columns)
<1>1. i \in rows
  <2>1. rows \in SUBSET Nat /\ rows # {}
    OBVIOUS
  <2> HIDE DEF rows
  <2> QED
    BY <2>1, LeastNatural
<1>2. k \in columns
  <2>1. columns \in SUBSET Nat /\ columns # {}
    BY <1>1
  <2> HIDE DEF columns
  <2> QED
    BY <2>1, LeastNatural
<1>3. PICK p \in places : p[1] = i /\ p[2] = k
  BY <1>2
<1>4. p = <<i, k>>
  BY <1>3
<1>5. FirstAt(z, s, days, places) = AtPlace(z, s, days, <<i, k>>)
  BY DEF FirstAt
<1> QED
  BY <1>4, <1>5

LEMMA PlacesAreNumbers ==
  ASSUME NEW s, NEW days
  PROVE  Places(s, days) \in SUBSET (Nat \X Nat)
  BY DEF Places

(* The first of the results that is not zero is one of them.               *)
LEMMA FirstNonZeroIsOne ==
  ASSUME NEW results, DOMAIN results \in SUBSET Nat
  PROVE  \/ FirstNonZero(results) = Zero
         \/ \E k \in DOMAIN results : FirstNonZero(results) = results[k] /\ results[k] # Zero
<1> DEFINE good == {k \in DOMAIN results : results[k] # Zero}
<1>1. good \in SUBSET Nat
  OBVIOUS
<1>2. good # {} => Min(good) \in good
  <2> HIDE DEF good
  <2> QED
    BY <1>1, LeastNatural
<1> QED
  BY <1>2 DEF FirstNonZero

-----------------------------------------------------------------------------
(* What a schedule returns is zero or after the last run.                  *)
After(t, last) == t = Zero \/ t > last

LEMMA NextDayAfter ==
  ASSUME NEW z, NEW s, NEW last, NEW offset
  PROVE  After(NextDay(z, s, last, offset), last)
<1> DEFINE days == <<Day(z, last) + offset>>
           places == {p \in Places(s, days) : AtPlace(z, s, days, p) > last}
<1>1. NextDay(z, s, last, offset) = FirstAt(z, s, days, places)
  BY DEF NextDay
<1>2. places \in SUBSET (Nat \X Nat)
  BY PlacesAreNumbers
<1>3. \A p \in places : AtPlace(z, s, days, p) > last
  OBVIOUS
<1> HIDE DEF places, days
<1>4. CASE places = {}
  BY <1>1, <1>4 DEF FirstAt, After
<1>5. CASE places # {}
  BY <1>1, <1>2, <1>3, <1>5, FirstAtPlace DEF After
<1> QED
  BY <1>4, <1>5

LEMMA NextWeekDayAfter ==
  ASSUME NEW z, NEW s, NEW last, NEW offset
  PROVE  After(NextWeekDayAtTime(z, s, last, offset), last)
<1> DEFINE date == Day(z, last) + offset
           days == [i \in DOMAIN s.days |-> date + s.days[i] - Weekday(date)]
           places == {p \in Places(s, days) :
                        days[p[1]] >= date /\ AtPlace(z, s, days, p) > last}
<1>1. NextWeekDayAtTime(z, s, last, offset) = FirstAt(z, s, days, places)
  BY DEF NextWeekDayAtTime
<1>2. places \in SUBSET (Nat \X Nat)
  BY PlacesAreNumbers
<1>3. \A p \in places : AtPlace(z, s, days, p) > last
  OBVIOUS
<1> HIDE DEF places, days
<1>4. CASE places = {}
  BY <1>1, <1>4 DEF FirstAt, After
<1>5. CASE places # {}
  BY <1>1, <1>2, <1>3, <1>5, FirstAtPlace DEF After
<1> QED
  BY <1>4, <1>5

LEMMA IntervalsAreNumbers ==
  ASSUME NEW s
  PROVE  {0} \cup Intervals(s) \in SUBSET Nat
  BY ConstantAssumption DEF Intervals

LEMMA FirstAfter ==
  ASSUME NEW last, NEW results, DOMAIN results \in SUBSET Nat,
         \A k \in DOMAIN results : After(results[k], last)
  PROVE  After(FirstNonZero(results), last)
  BY FirstNonZeroIsOne DEF After

LEMMA NextDailyAfter ==
  ASSUME NEW z, NEW s, NEW last
  PROVE  After(NextDaily(z, s, last), last)
<1> DEFINE results == [k \in {0} \cup Intervals(s) |-> NextDay(z, s, last, k * s.interval)]
<1>1. DOMAIN results \in SUBSET Nat
  BY IntervalsAreNumbers
<1>2. \A k \in DOMAIN results : After(results[k], last)
  BY NextDayAfter
<1> HIDE DEF results
<1>3. After(FirstNonZero(results), last)
  BY <1>1, <1>2, FirstAfter
<1> QED
  BY <1>3 DEF NextDaily, results

LEMMA NextWeeklyAfter ==
  ASSUME NEW z, NEW s, NEW last
  PROVE  After(NextWeekly(z, s, last), last)
<1> DEFINE results ==
      [k \in {0} \cup Intervals(s) |->
         NextWeekDayAtTime(z, s, last, WeekOffset(s, Weekday(Day(z, last)), k))]
<1>1. DOMAIN results \in SUBSET Nat
  BY IntervalsAreNumbers
<1>2. \A k \in DOMAIN results : After(results[k], last)
  BY NextWeekDayAfter
<1> HIDE DEF results
<1>3. After(FirstNonZero(results), last)
  BY <1>1, <1>2, FirstAfter
<1> QED
  BY <1>3 DEF NextWeekly, results

(* The cron library searches the instants after t.                         *)
LEMMA CronNextAfter ==
  ASSUME NEW z, NEW s, NEW t \in Nat
  PROVE  CronNext(z, s, t) \in Nat /\ After(CronNext(z, s, t), t)
<1> DEFINE later == {u \in t + 1 .. t + Strides * 7 * Units : Permits(s, WallOf(z, u))}
<1>1. later \in SUBSET Nat /\ \A u \in later : u > t
  OBVIOUS
<1>2. CronNext(z, s, t) = IF later = {} THEN Zero ELSE Min(later)
  BY DEF CronNext
<1> HIDE DEF later
<1>3. CASE later = {}
  BY <1>2, <1>3 DEF After
<1>4. CASE later # {}
  <2>1. Min(later) \in later
    BY <1>1, <1>4, LeastNatural
  <2> QED
    BY <1>1, <1>2, <1>4, <2>1 DEF After
<1> QED
  BY <1>3, <1>4

LEMMA NextCronAfter ==
  ASSUME NEW z, NEW x, NEW s, NEW last \in Nat
  PROVE  After(NextCron(z, x, s, last), last)
<1> DEFINE next == CronNext(x, s, last)
           between == {k \in 1 .. Strides * 7 : Between(x, last)[k] < next}
           made == [k \in between |-> MadeUp(x, s, last, next, Between(x, last)[k])]
           madeUp == FirstNonZero(made)
<1>1. next \in Nat /\ After(next, last)
  BY CronNextAfter
<1>2. next # Zero => After(CronNext(x, s, next), last)
  <2>1. CronNext(x, s, next) \in Nat /\ After(CronNext(x, s, next), next)
    BY <1>1, CronNextAfter
  <2> HIDE DEF next
  <2> QED
    BY <1>1, <2>1 DEF After
<1>3. \/ NextCron(z, x, s, last) \in {next, madeUp}
      \/ next # Zero /\ NextCron(z, x, s, last) = CronNext(x, s, next)
  BY DEF NextCron
<1> HIDE DEF next
<1>4. DOMAIN made \in SUBSET Nat
  OBVIOUS
<1>5. \A k \in DOMAIN made : After(made[k], last)
  BY DEF MadeUp, After
<1> HIDE DEF made
<1>6. After(madeUp, last)
  BY <1>4, <1>5, FirstAfter
<1> QED
  BY <1>1, <1>2, <1>3, <1>6

-----------------------------------------------------------------------------
(* Wall times: a day and a reading of its clock.                           *)
LEMMA UnitsAndDays ==
  ASSUME NEW w \in Int
  PROVE  /\ w \div Units \in Int /\ w % Units \in 0 .. Units - 1
         /\ w = (w \div Units) * Units + (w % Units)
  BY ConstantAssumption

LEMMA WallTime ==
  ASSUME NEW day \in Int, NEW at \in 0 .. Units - 1
  PROVE  /\ day * Units + at \in Int
         /\ (day * Units + at) \div Units = day
         /\ (day * Units + at) % Units = at
  BY ConstantAssumption

LEMMA LaterDayLaterWall ==
  ASSUME NEW v \in Int, NEW w \in Int, v <= w
  PROVE  v \div Units <= w \div Units
<1> DEFINE d == v \div Units
           e == w \div Units
           a == v % Units
           b == w % Units
<1>1. d \in Int /\ a \in 0 .. Units - 1 /\ v = d * Units + a
  BY UnitsAndDays
<1>2. e \in Int /\ b \in 0 .. Units - 1 /\ w = e * Units + b
  BY UnitsAndDays
<1> HIDE DEF d, e, a, b
<1>3. d > e => d * Units >= e * Units + Units
  BY <1>1, <1>2, ConstantAssumption
<1>4. ~(d > e)
  BY <1>1, <1>2, <1>3, ConstantAssumption
<1> QED
  BY <1>1, <1>2, <1>4 DEF d, e

(* A wall time exists unless it is in the gap.                             *)
LEMMA NotInTheGap ==
  ASSUME NEW z \in ZoneType, NEW w \in Int
  PROVE  /\ DateAt(z, w) \in Int /\ WallOf(z, w) \in Int
         /\ Exists(z, w) <=> w \notin z.at .. z.at + z.len - 1
  BY DEF ZoneType, Exists, DateAt, WallOf

(* Where a transition keeps days, time.Date stays on the day it is given,  *)
(* and the days follow the instants.                                       *)
LEMMA DayOfDate ==
  ASSUME NEW z \in ZoneType, KeepsDays(z), NEW w \in Int
  PROVE  Day(z, DateAt(z, w)) = w \div Units
<1>1. CASE Exists(z, w)
  BY <1>1 DEF Exists, Day
<1>2. CASE ~Exists(z, w)
  BY <1>2, NotInTheGap DEF KeepsDays
<1> QED
  BY <1>1, <1>2

LEMMA DaysInOrder ==
  ASSUME NEW z \in ZoneType, KeepsDays(z), NEW t \in Int, NEW u \in Int, t <= u
  PROVE  Day(z, t) <= Day(z, u)
<1>1. CASE WallOf(z, t) <= WallOf(z, u)
  BY <1>1, NotInTheGap, LaterDayLaterWall DEF Day
<1>2. CASE ~(WallOf(z, t) <= WallOf(z, u))
  <2>1. /\ WallOf(z, t) <= WallOf(z, z.at - 1) /\ WallOf(z, z.at) <= WallOf(z, u)
        /\ z.at - 1 \in Int /\ z.at \in Int
    BY <1>2 DEF WallOf, ZoneType
  <2>2. Day(z, t) <= Day(z, z.at - 1) /\ Day(z, z.at) <= Day(z, u)
    BY <2>1, NotInTheGap, LaterDayLaterWall DEF Day
  <2>3. /\ Day(z, t) \in Int /\ Day(z, z.at - 1) \in Int
        /\ Day(z, z.at) \in Int /\ Day(z, u) \in Int
    BY <2>1, NotInTheGap, UnitsAndDays DEF Day
  <2> QED
    BY <2>2, <2>3 DEF KeepsDays
<1> QED
  BY <1>1, <1>2

-----------------------------------------------------------------------------
(* What atDate makes of a set time that does not exist (job.go:1401-1414,  *)
(* 1423-1452).                                                             *)
LEMMA RunAfterTransitionInTheGap ==
  ASSUME NEW z \in ZoneType, KeepsDays(z), NEW day \in Int, NEW at \in 0 .. Units - 1,
         ~Exists(z, day * Units + at)
  PROVE  /\ RunAfterTransition(z, DateAt(z, day * Units + at), at) = day * Units + at
         /\ Unit(z, DateAt(z, day * Units + at)) # at
<1> DEFINE w == day * Units + at
           D == DateAt(z, w)
           v == WallOf(z, D)
<1>1. w \in Int /\ w \div Units = day /\ w % Units = at
  BY WallTime
<1> HIDE DEF w
<1>2. w \in z.at .. z.at + z.len - 1
  BY <1>1, NotInTheGap DEF w
<1>3. \/ D = w - z.len /\ v = w - z.len
      \/ D = w /\ v = w + z.len
  BY <1>1, <1>2 DEF DateAt, WallOf, ZoneType
<1>4. D \in Int /\ v \in Int
  BY <1>1, NotInTheGap
<1>5. v \div Units = day
  BY <1>1, <1>4, DayOfDate DEF Day
<1>6. v = day * Units + (v % Units) /\ v % Units \in 0 .. Units - 1
  BY <1>4, <1>5, UnitsAndDays
<1>7. Unit(z, D) = v % Units
  BY DEF Unit
<1> DEFINE b == v % Units
<1> HIDE DEF v, D
<1>8. day * Units \in Int /\ z.len \in Int /\ z.len > 0 /\ at \in Int /\ b \in Int
  BY <1>2, <1>6, ConstantAssumption DEF ZoneType
<1>9. w = day * Units + at /\ v = day * Units + b
  BY <1>6 DEF w
<1> HIDE DEF b
<1>10. \/ D = w - z.len /\ at - b = z.len
       \/ D = w /\ at - b = -z.len
  BY <1>1, <1>3, <1>8, <1>9
<1>11. RunAfterTransition(z, D, at) = IF at - b <= 0 THEN D ELSE D + (at - b)
  BY <1>7 DEF RunAfterTransition, b
<1> QED
  BY <1>1, <1>4, <1>7, <1>8, <1>10, <1>11 DEF D, w, b

LEMMA AtDateIs ==
  ASSUME NEW z \in ZoneType, KeepsDays(z), NEW day \in Int, NEW at \in 0 .. Units - 1,
         NEW policy \in Policies
  PROVE  /\ Exists(z, day * Units + at) =>
              AtDate(z, policy, day, at) = DateAt(z, day * Units + at)
         /\ ~Exists(z, day * Units + at) =>
              AtDate(z, policy, day, at) =
                IF policy = "default" THEN DateAt(z, day * Units + at)
                ELSE IF policy = "skip" THEN Zero
                ELSE day * Units + at
<1> DEFINE w == day * Units + at
<1>1. w % Units = at
  BY WallTime
<1>2. Exists(z, w) => Unit(z, DateAt(z, w)) = at
  BY <1>1 DEF Exists, Unit
<1>3. ~Exists(z, w) => /\ RunAfterTransition(z, DateAt(z, w), at) = w
                       /\ Unit(z, DateAt(z, w)) # at
  BY RunAfterTransitionInTheGap
<1>4. AtDate(z, policy, day, at) =
        IF Unit(z, DateAt(z, w)) = at \/ policy = "default" THEN DateAt(z, w)
        ELSE IF policy = "skip" THEN Zero ELSE RunAfterTransition(z, DateAt(z, w), at)
  BY DEF AtDate
<1> HIDE DEF w
<1> QED
  BY <1>2, <1>3, <1>4 DEF w

LEMMA AtDateOnItsDay ==
  ASSUME NEW z \in ZoneType, KeepsDays(z), NEW day \in Int, NEW at \in 0 .. Units - 1,
         NEW policy \in Policies
  PROVE  /\ AtDate(z, policy, day, at) \in Int
         /\ policy # "skip" \/ AtDate(z, policy, day, at) # Zero =>
              Day(z, AtDate(z, policy, day, at)) = day
<1> DEFINE w == day * Units + at
<1>1. w \in Int /\ w \div Units = day
  BY WallTime
<1>2. DateAt(z, w) \in Int /\ Day(z, DateAt(z, w)) = day
  BY <1>1, NotInTheGap, DayOfDate
<1>3. ~Exists(z, w) => Day(z, w) = day
  BY <1>1, NotInTheGap DEF KeepsDays
<1>4. \/ AtDate(z, policy, day, at) = DateAt(z, w)
      \/ policy = "skip" /\ AtDate(z, policy, day, at) = Zero
      \/ ~Exists(z, w) /\ AtDate(z, policy, day, at) = w
  <2>1. CASE Exists(z, w)
    <3>1. AtDate(z, policy, day, at) = DateAt(z, w)
      BY <2>1, AtDateIs
    <3> QED
      BY <3>1
  <2>2. CASE ~Exists(z, w)
    <3>1. AtDate(z, policy, day, at) =
            IF policy = "default" THEN DateAt(z, w) ELSE IF policy = "skip" THEN Zero ELSE w
      BY <2>2, AtDateIs
    <3> HIDE DEF w
    <3> DEFINE t == AtDate(z, policy, day, at)
               D == DateAt(z, w)
    <3>2. t = D \/ (policy = "skip" /\ t = Zero) \/ t = w
      BY <3>1
    <3> QED
      BY <2>2, <3>2
  <2> QED
    BY <2>1, <2>2
<1> HIDE DEF w
<1> QED
  BY <1>1, <1>2, <1>3, <1>4

(* It is when the set time is due.                                         *)
LEMMA DueAtIs ==
  ASSUME NEW z \in ZoneType, KeepsDays(z), NEW day \in Int, NEW at \in 0 .. Units - 1,
         NEW policy \in Policies, NEW t, t # Zero
  PROVE  t \in DueAt(z, policy, day * Units + at) <=> t = AtDate(z, policy, day, at)
<1> DEFINE w == day * Units + at
<1>1. CASE Exists(z, w)
  <2>1. AtDate(z, policy, day, at) = DateAt(z, w)
    BY <1>1, AtDateIs
  <2>2. DueAt(z, policy, w) = {DateAt(z, w)}
    BY <1>1 DEF DueAt
  <2> QED
    BY <2>1, <2>2
<1>2. CASE ~Exists(z, w)
  <2>1. AtDate(z, policy, day, at) =
          IF policy = "default" THEN DateAt(z, w) ELSE IF policy = "skip" THEN Zero ELSE w
    BY <1>2, AtDateIs
  <2> HIDE DEF w
  <2>2. DueAt(z, policy, w) = IF policy = "default" THEN {DateAt(z, w)}
                              ELSE IF policy = "skip" THEN {} ELSE {w}
    BY <1>2 DEF DueAt, Policies
  <2> QED
    BY <2>1, <2>2 DEF w
<1> QED
  BY <1>1, <1>2

(* All of a day is before all of a later one, and one day has the gap.     *)
LEMMA LaterDayLater ==
  ASSUME NEW z \in ZoneType, KeepsDays(z), NEW t \in Int, NEW u \in Int,
         Day(z, t) < Day(z, u)
  PROVE  t < u
<1>1. Day(z, t) \in Int /\ Day(z, u) \in Int
  BY NotInTheGap, UnitsAndDays DEF Day
<1>2. u <= t => Day(z, u) <= Day(z, t)
  BY DaysInOrder
<1> QED
  BY <1>1, <1>2

LEMMA OneDayOfTheGap ==
  ASSUME NEW z \in ZoneType, KeepsDays(z), NEW w \in Int, ~Exists(z, w)
  PROVE  w \div Units = Day(z, z.at)
<1>1. w \in z.at .. z.at + z.len - 1 /\ z.at \in Int
  BY NotInTheGap DEF ZoneType
<1>2. Day(z, w) = w \div Units
  BY <1>1 DEF KeepsDays
<1>3. Day(z, z.at) <= w \div Units
  BY <1>1, <1>2, DaysInOrder
<1>4. WallOf(z, z.at) \in Int /\ w <= WallOf(z, z.at)
  BY <1>1 DEF WallOf, ZoneType
<1>5. w \div Units <= Day(z, z.at)
  BY <1>4, LaterDayLaterWall DEF Day
<1>6. w \div Units \in Int /\ Day(z, z.at) \in Int
  BY <1>4, UnitsAndDays DEF Day
<1> QED
  BY <1>3, <1>5, <1>6

(* The set times of a day, in order at the transition, are in order on     *)
(* every day.                                                              *)
InOrder(z, policy, ats) ==
  \A day \in {Day(z, z.at - 1), Day(z, z.at)} : \A at, later \in ats :
    /\ at < later
    /\ AtDate(z, policy, day, at) # Zero /\ AtDate(z, policy, day, later) # Zero
    => AtDate(z, policy, day, at) <= AtDate(z, policy, day, later)

LEMMA SameDayInOrder ==
  ASSUME NEW z \in ZoneType, KeepsDays(z), NEW ats \in SUBSET (0 .. Units - 1),
         NEW policy \in Policies, InOrder(z, policy, ats),
         NEW day \in Int, NEW at \in ats, NEW later \in ats, at <= later,
         AtDate(z, policy, day, at) # Zero, AtDate(z, policy, day, later) # Zero
  PROVE  AtDate(z, policy, day, at) <= AtDate(z, policy, day, later)
<1>1. AtDate(z, policy, day, at) \in Int /\ AtDate(z, policy, day, later) \in Int
  BY AtDateOnItsDay
<1>2. at \in 0 .. Units - 1 /\ later \in 0 .. Units - 1
  OBVIOUS
<1>3. CASE at = later
  BY <1>1, <1>3
<1>4. CASE at < later /\ day = Day(z, z.at)
  BY <1>4 DEF InOrder
<1>5. CASE at < later /\ day # Day(z, z.at)
  <2> DEFINE v == day * Units + at
             w == day * Units + later
  <2>1. /\ v \in Int /\ w \in Int
        /\ v \div Units = day /\ w \div Units = day
    BY <1>2, WallTime
  <2>2. v < w
    BY <1>2, <1>5, <2>1, ConstantAssumption
  <2>3. AtDate(z, policy, day, at) = DateAt(z, v) /\ AtDate(z, policy, day, later) = DateAt(z, w)
    <3>1. Exists(z, v) /\ Exists(z, w)
      BY <1>5, <2>1, OneDayOfTheGap
    <3> QED
      BY <1>2, <3>1, AtDateIs
  <2>4. v \notin z.at .. z.at + z.len - 1 /\ w \notin z.at .. z.at + z.len - 1
    BY <1>5, <2>1, OneDayOfTheGap, NotInTheGap
  <2> HIDE DEF v, w
  <2>5. DateAt(z, v) <= DateAt(z, w)
    BY <2>1, <2>2, <2>4 DEF DateAt, ZoneType
  <2> QED
    BY <2>3, <2>5
<1>6. at < later \/ at = later
  BY <1>2, ConstantAssumption
<1> QED
  BY <1>3, <1>4, <1>5, <1>6

-----------------------------------------------------------------------------
(* The loops over days and, on each, set times stop at the first of the    *)
(* places that qualify.                                                    *)
LEMMA FirstPlace ==
  ASSUME NEW z, NEW s, NEW days, NEW places \in SUBSET (Nat \X Nat), places # {}
  PROVE  \E i, k \in Nat :
           /\ <<i, k>> \in places
           /\ \A p \in places : i <= p[1] /\ (p[1] = i => k <= p[2])
           /\ FirstAt(z, s, days, places) = AtPlace(z, s, days, <<i, k>>)
<1> DEFINE rows == {p[1] : p \in places}
           i == Min(rows)
           columns == {p[2] : p \in {q \in places : q[1] = i}}
           k == Min(columns)
<1>1. i \in rows /\ \A m \in rows : i <= m
  <2>1. rows \in SUBSET Nat /\ rows # {}
    OBVIOUS
  <2> HIDE DEF rows
  <2> QED
    BY <2>1, LeastNatural
<1>2. k \in columns /\ \A m \in columns : k <= m
  <2>1. columns \in SUBSET Nat /\ columns # {}
    BY <1>1
  <2> HIDE DEF columns
  <2> QED
    BY <2>1, LeastNatural
<1>3. PICK p \in places : p[1] = i /\ p[2] = k
  BY <1>2
<1>4. p = <<i, k>> /\ i \in Nat /\ k \in Nat
  BY <1>3
<1>5. FirstAt(z, s, days, places) = AtPlace(z, s, days, <<i, k>>)
  BY DEF FirstAt
<1>6. \A q \in places : i <= q[1] /\ (q[1] = i => k <= q[2])
  BY <1>1, <1>2
<1> QED
  BY <1>3, <1>4, <1>5, <1>6

(* What a search for the first of some times returns.                      *)
LeastOrZero(S) == IF S = {} THEN Zero ELSE Min(S)

LEMMA LeastIs ==
  ASSUME NEW S \in SUBSET Int, NEW m \in S, \A x \in S : m <= x
  PROVE  Min(S) = m
<1>1. Min(S) \in S /\ \A y \in S : Min(S) <= y
  BY DEF Min
<1>2. Min(S) \in Int /\ m \in Int /\ Min(S) <= m /\ m <= Min(S)
  BY <1>1
<1> QED
  BY <1>2

(* The values of a sequence.                                               *)
LEMMA Elements ==
  ASSUME NEW S, NEW q \in Seq(S)
  PROVE  /\ DOMAIN q = 1 .. Len(q) /\ Len(q) \in Nat
         /\ \A i \in 1 .. Len(q) : q[i] \in S /\ q[i] \in ToSet(q)
         /\ ToSet(q) \in SUBSET S
  BY DEF ToSet

NonDecreasing(seq) == \A i, j \in DOMAIN seq : i <= j => seq[i] <= seq[j]

(* If days and set times are in order, that is the earliest.               *)
LEMMA FirstAtIsLeast ==
  ASSUME NEW z \in ZoneType, KeepsDays(z), NEW s, s.policy \in Policies,
         s.atTimes \in Seq(0 .. Units - 1), NonDecreasing(s.atTimes),
         InOrder(z, s.policy, ToSet(s.atTimes)),
         NEW days \in Seq(Int), NonDecreasing(days),
         NEW places \in SUBSET Places(s, days),
         \A p \in places : AtPlace(z, s, days, p) # Zero,
         \A p \in places : \A i \in 1 .. Len(days) :
           days[i] = days[p[1]] => <<i, p[2]>> \in places
  PROVE  FirstAt(z, s, days, places) = LeastOrZero({AtPlace(z, s, days, p) : p \in places})
<1> DEFINE T == {AtPlace(z, s, days, p) : p \in places}
           AtTime(p) == s.atTimes[p[2]]
<1>1. CASE places = {}
  BY <1>1 DEF FirstAt, LeastOrZero
<1>2. CASE places # {}
  <2>1. places \in SUBSET (Nat \X Nat)
    BY PlacesAreNumbers
  <2>2. PICK i, k \in Nat :
           /\ <<i, k>> \in places
           /\ \A p \in places : i <= p[1] /\ (p[1] = i => k <= p[2])
           /\ FirstAt(z, s, days, places) = AtPlace(z, s, days, <<i, k>>)
    BY <1>2, <2>1, FirstPlace
  <2> DEFINE first == AtPlace(z, s, days, <<i, k>>)
  <2>3. \A p \in places : /\ p[1] \in 1 .. Len(days) /\ p[2] \in 1 .. Len(s.atTimes)
                          /\ days[p[1]] \in Int /\ AtTime(p) \in 0 .. Units - 1
                          /\ AtTime(p) \in ToSet(s.atTimes)
                          /\ AtPlace(z, s, days, p) = AtDate(z, s.policy, days[p[1]], AtTime(p))
    <3> SUFFICES ASSUME NEW p \in places
                 PROVE  /\ p[1] \in 1 .. Len(days) /\ p[2] \in 1 .. Len(s.atTimes)
                        /\ days[p[1]] \in Int /\ AtTime(p) \in 0 .. Units - 1
                        /\ AtTime(p) \in ToSet(s.atTimes)
                        /\ AtPlace(z, s, days, p) = AtDate(z, s.policy, days[p[1]], AtTime(p))
      OBVIOUS
    <3>1. p[1] \in 1 .. Len(days) /\ p[2] \in 1 .. Len(s.atTimes)
      BY DEF Places
    <3>2. days[p[1]] \in Int /\ AtTime(p) \in 0 .. Units - 1
      BY <3>1, Elements
    <3>3. AtTime(p) \in ToSet(s.atTimes)
      BY <3>1, Elements
    <3> QED
      BY <3>1, <3>2, <3>3 DEF AtPlace
  <2>4. /\ i \in 1 .. Len(days) /\ k \in 1 .. Len(s.atTimes)
        /\ days[i] \in Int /\ s.atTimes[k] \in 0 .. Units - 1 /\ s.atTimes[k] \in ToSet(s.atTimes)
        /\ first = AtDate(z, s.policy, days[i], s.atTimes[k]) /\ first # Zero
    BY <2>2, <2>3
  <2>5. ToSet(s.atTimes) \in SUBSET (0 .. Units - 1)
    BY Elements
  <2>6. ASSUME NEW p \in places
        PROVE  first <= AtPlace(z, s, days, p)
    <3>1. days[i] <= days[p[1]]
      BY <2>2, <2>3, <2>4 DEF NonDecreasing
    <3> DEFINE u == AtPlace(z, s, days, p)
    <3>2. first \in Int /\ Day(z, first) = days[i]
      BY <2>4, AtDateOnItsDay
    <3>3. /\ u \in Int /\ u # Zero /\ Day(z, u) = days[p[1]]
          /\ u = AtDate(z, s.policy, days[p[1]], AtTime(p))
      <4> DEFINE day == days[p[1]]
                 at == AtTime(p)
      <4>1. day \in Int /\ at \in 0 .. Units - 1 /\ u = AtDate(z, s.policy, day, at) /\ u # Zero
        BY <2>3
      <4> HIDE DEF day, at, u
      <4>2. u \in Int /\ Day(z, u) = day
        BY <4>1, AtDateOnItsDay
      <4> QED
        BY <4>1, <4>2 DEF day, at
    <3>4. CASE days[i] = days[p[1]]
      <4>1. <<i, p[2]>> \in places
        BY <2>4, <3>4
      <4>2. k <= p[2]
        BY <2>2, <4>1
      <4>3. s.atTimes[k] <= AtTime(p)
        BY <2>3, <2>4, <4>2 DEF NonDecreasing
      <4>4. AtDate(z, s.policy, days[i], s.atTimes[k]) <= AtDate(z, s.policy, days[i], AtTime(p))
        <5> DEFINE at == s.atTimes[k]
                   later == AtTime(p)
                   day == days[i]
        <5>1. /\ at \in ToSet(s.atTimes) /\ later \in ToSet(s.atTimes) /\ at <= later
              /\ day \in Int
              /\ AtDate(z, s.policy, day, at) # Zero /\ AtDate(z, s.policy, day, later) # Zero
          BY <2>3, <2>4, <3>3, <3>4, <4>3
        <5> HIDE DEF at, later, day
        <5>2. AtDate(z, s.policy, day, at) <= AtDate(z, s.policy, day, later)
          BY <2>5, <5>1, SameDayInOrder
        <5> QED
          BY <5>2 DEF at, later, day
      <4> QED
        BY <2>4, <3>3, <3>4, <4>4
    <3>5. CASE days[i] < days[p[1]]
      <4>1. first < u
        <5> HIDE DEF first, u
        <5> QED
          BY <3>2, <3>3, <3>5, LaterDayLater
      <4> QED
        BY <3>2, <3>3, <4>1
    <3> QED
      BY <2>3, <2>4, <3>1, <3>4, <3>5
  <2>7. T \in SUBSET Int /\ first \in T /\ \A t \in T : first <= t
    <3>1. \A p \in places : AtPlace(z, s, days, p) \in Int
      <4> SUFFICES ASSUME NEW p \in places
                   PROVE  AtPlace(z, s, days, p) \in Int
        OBVIOUS
      <4> DEFINE day == days[p[1]]
                 at == AtTime(p)
      <4>1. day \in Int /\ at \in 0 .. Units - 1
            /\ AtPlace(z, s, days, p) = AtDate(z, s.policy, day, at)
        BY <2>3
      <4> HIDE DEF day, at
      <4> QED
        BY <4>1, AtDateOnItsDay
    <3> QED
      BY <2>2, <2>6, <3>1
  <2> HIDE DEF T, first
  <2>8. Min(T) = first
    BY <2>7, LeastIs
  <2> QED
    BY <2>2, <2>7, <2>8 DEF LeastOrZero, T, first
<1> QED
  BY <1>1, <1>2

(* The first result of rounds of ever later times is the least of all.     *)
LEMMA FirstRoundIsLeast ==
  ASSUME NEW T \in [0 .. Strides -> SUBSET (Nat \ {0})],
         NEW results, DOMAIN results \in SUBSET (0 .. Strides),
         \A k \in DOMAIN results : results[k] = LeastOrZero(T[k]),
         \A j, k \in 0 .. Strides : j < k => \A t \in T[j], u \in T[k] : t < u,
         \A k \in 0 .. Strides : T[k] # {} => \E j \in DOMAIN results : j <= k /\ T[j] # {}
  PROVE  FirstNonZero(results) = LeastOrZero(UNION {T[k] : k \in 0 .. Strides})
<1> DEFINE good == {k \in DOMAIN results : results[k] # Zero}
           all == UNION {T[k] : k \in 0 .. Strides}
<1>1. ASSUME NEW k \in 0 .. Strides, T[k] # {}
      PROVE  Min(T[k]) \in T[k] /\ \A t \in T[k] : Min(T[k]) <= t
  <2> DEFINE S == T[k]
  <2>1. S \in SUBSET Nat /\ S # {}
    BY <1>1
  <2> HIDE DEF S
  <2>2. Min(S) \in S /\ \A t \in S : Min(S) <= t
    BY <2>1, LeastNatural
  <2> QED
    BY <2>2 DEF S
<1>2. \A k \in 0 .. Strides : \A t \in T[k] : t \in Nat /\ t # 0
  OBVIOUS
<1>3. \A k \in DOMAIN results : results[k] # Zero <=> T[k] # {}
  <2> SUFFICES ASSUME NEW k \in DOMAIN results
               PROVE  results[k] # Zero <=> T[k] # {}
    OBVIOUS
  <2>1. k \in 0 .. Strides /\ results[k] = LeastOrZero(T[k])
    OBVIOUS
  <2>2. T[k] # {} => Min(T[k]) # Zero
    BY <1>1, <1>2, <2>1
  <2> QED
    BY <2>1, <2>2 DEF LeastOrZero
<1>4. CASE good = {}
  <2>1. all = {}
    BY <1>3, <1>4
  <2> HIDE DEF all
  <2> QED
    BY <1>4, <2>1 DEF FirstNonZero, LeastOrZero, all
<1>5. CASE good # {}
  <2> DEFINE g == Min(good)
  <2>1. g \in good /\ \A k \in good : g <= k
    <3>1. good \in SUBSET Nat
      BY ConstantAssumption
    <3> HIDE DEF good
    <3> QED
      BY <1>5, <3>1, LeastNatural
  <2>2. FirstNonZero(results) = results[g]
    BY <1>5 DEF FirstNonZero
  <2>3. g \in DOMAIN results /\ g \in 0 .. Strides /\ T[g] # {}
    BY <1>3, <2>1
  <2> DEFINE m == Min(T[g])
  <2>4. results[g] = m
    BY <2>3 DEF LeastOrZero
  <2>5. m \in T[g] /\ \A t \in T[g] : m <= t
    BY <1>1, <2>3
  <2>6. \A k \in 0 .. Strides : T[k] # {} => g <= k
    <3> SUFFICES ASSUME NEW k \in 0 .. Strides, T[k] # {}
                 PROVE  g <= k
      OBVIOUS
    <3>1. PICK j \in DOMAIN results : j <= k /\ T[j] # {}
      OBVIOUS
    <3>2. g <= j /\ j \in 0 .. Strides
      BY <1>3, <2>1, <3>1
    <3> QED
      BY <2>3, <3>1, <3>2, ConstantAssumption
  <2> HIDE DEF g, m
  <2>7. ASSUME NEW k \in 0 .. Strides, NEW t \in T[k]
        PROVE  m <= t
    <3>1. g <= k /\ k \in Int /\ g \in Int
      BY <2>3, <2>6
    <3>2. CASE g = k
      BY <2>5, <3>2
    <3>3. CASE g < k
      <4>1. m < t /\ m \in Int /\ t \in Int
        BY <1>2, <2>3, <2>5, <3>3
      <4> QED
        BY <4>1
    <3> QED
      BY <3>1, <3>2, <3>3
  <2>8. all \in SUBSET Int /\ m \in all /\ \A t \in all : m <= t
    BY <1>2, <2>3, <2>5, <2>7
  <2> HIDE DEF all
  <2>9. Min(all) = m
    BY <2>8, LeastIs
  <2> QED
    BY <2>2, <2>4, <2>8, <2>9 DEF LeastOrZero, all
<1> QED
  BY <1>4, <1>5

-----------------------------------------------------------------------------
(* The set times of some days, after a bound.                              *)
TimesOn(z, policy, days, ats, bound) ==
  {t \in {AtDate(z, policy, day, at) : day \in days, at \in ats} : t > bound}

Regular(z, s) ==
  /\ s.policy \in Policies
  /\ s.atTimes \in Seq(0 .. Units - 1) /\ NonDecreasing(s.atTimes)
  /\ InOrder(z, s.policy, ToSet(s.atTimes))

PlacesAfter(z, s, days, Keep, bound) ==
  {p \in Places(s, days) : days[p[1]] \in Keep /\ AtPlace(z, s, days, p) > bound}

Kept(days, Keep) == ToSet(days) \cap Keep

TimesAt(z, s, days, places) == {AtPlace(z, s, days, p) : p \in places}

(* The loops over days and set times come to the set times of the days.    *)
LEMMA PlacesAfterAre ==
  ASSUME NEW z, NEW s, s.atTimes \in Seq(0 .. Units - 1), NEW days \in Seq(Int), NEW Keep, NEW bound
  PROVE  TimesAt(z, s, days, PlacesAfter(z, s, days, Keep, bound))
           = TimesOn(z, s.policy, Kept(days, Keep), ToSet(s.atTimes), bound)
<1> DEFINE places == PlacesAfter(z, s, days, Keep, bound)
           T == TimesOn(z, s.policy, Kept(days, Keep), ToSet(s.atTimes), bound)
<1>1. ASSUME NEW p \in places
      PROVE  AtPlace(z, s, days, p) \in T
  <2>1. p[1] \in 1 .. Len(days) /\ p[2] \in 1 .. Len(s.atTimes) /\ days[p[1]] \in Keep
        /\ AtPlace(z, s, days, p) > bound
    BY DEF Places, PlacesAfter
  <2>2. days[p[1]] \in Kept(days, Keep) /\ s.atTimes[p[2]] \in ToSet(s.atTimes)
    BY <2>1, Elements DEF Kept
  <2> QED
    BY <2>1, <2>2 DEF TimesOn, AtPlace
<1>2. ASSUME NEW t \in T
      PROVE  \E p \in places : t = AtPlace(z, s, days, p)
  <2>1. PICK day \in Kept(days, Keep), at \in ToSet(s.atTimes) :
          t = AtDate(z, s.policy, day, at) /\ t > bound
    BY DEF TimesOn
  <2>2. PICK i \in 1 .. Len(days) : day = days[i]
    BY <2>1, Elements DEF ToSet, Kept
  <2>3. PICK j \in 1 .. Len(s.atTimes) : at = s.atTimes[j]
    BY <2>1, Elements DEF ToSet
  <2>4. <<i, j>> \in Places(s, days) /\ AtPlace(z, s, days, <<i, j>>) = t
        /\ <<i, j>>[1] = i
    BY <2>1, <2>2, <2>3 DEF Places, AtPlace
  <2>5. days[i] \in Keep
    BY <2>1, <2>2 DEF Kept
  <2> QED
    BY <2>1, <2>4, <2>5 DEF PlacesAfter
<1> HIDE DEF T, places
<1> QED
  BY <1>1, <1>2 DEF TimesAt, T, places

(* The first of them in order is the earliest.                             *)
LEMMA FirstSetTime ==
  ASSUME NEW z \in ZoneType, KeepsDays(z), NEW s, Regular(z, s),
         NEW days \in Seq(Int), NonDecreasing(days), NEW Keep, NEW bound \in Nat
  PROVE  FirstAt(z, s, days, PlacesAfter(z, s, days, Keep, bound))
           = LeastOrZero(TimesOn(z, s.policy, Kept(days, Keep), ToSet(s.atTimes), bound))
<1> DEFINE places == PlacesAfter(z, s, days, Keep, bound)
<1>1. places \in SUBSET Places(s, days)
  BY DEF PlacesAfter
<1>2. \A p \in places : AtPlace(z, s, days, p) # Zero
  BY DEF PlacesAfter
<1>3. ASSUME NEW p \in places, NEW i \in 1 .. Len(days), days[i] = days[p[1]]
      PROVE  <<i, p[2]>> \in places
  BY <1>3 DEF Places, AtPlace, PlacesAfter
<1>4. /\ s.policy \in Policies /\ s.atTimes \in Seq(0 .. Units - 1)
      /\ NonDecreasing(s.atTimes) /\ InOrder(z, s.policy, ToSet(s.atTimes))
  BY DEF Regular
<1> HIDE DEF places
<1>5. FirstAt(z, s, days, places) = LeastOrZero({AtPlace(z, s, days, p) : p \in places})
  BY <1>1, <1>2, <1>3, <1>4, FirstAtIsLeast
<1>6. TimesAt(z, s, days, PlacesAfter(z, s, days, Keep, bound))
        = TimesOn(z, s.policy, Kept(days, Keep), ToSet(s.atTimes), bound)
  BY <1>4, PlacesAfterAre
<1>7. {AtPlace(z, s, days, p) : p \in places}
        = TimesOn(z, s.policy, Kept(days, Keep), ToSet(s.atTimes), bound)
  BY <1>6 DEF TimesAt, places
<1> QED
  BY <1>5, <1>7 DEF places

(* Whatever their order, it is one of them, if there is any.               *)
SomeOrZero(t, S) == IF S = {} THEN t = Zero ELSE t \in S

LEMMA SomeSetTime ==
  ASSUME NEW z, NEW s, s.atTimes \in Seq(0 .. Units - 1), NEW days \in Seq(Int), NEW Keep, NEW bound
  PROVE  SomeOrZero(FirstAt(z, s, days, PlacesAfter(z, s, days, Keep, bound)),
                    TimesOn(z, s.policy, Kept(days, Keep), ToSet(s.atTimes), bound))
<1> DEFINE places == PlacesAfter(z, s, days, Keep, bound)
           T == TimesOn(z, s.policy, Kept(days, Keep), ToSet(s.atTimes), bound)
<1>1. places \in SUBSET (Nat \X Nat)
  BY PlacesAreNumbers DEF PlacesAfter
<1>5. TimesAt(z, s, days, places) = T
  BY PlacesAfterAre
<1>2. T = {AtPlace(z, s, days, p) : p \in places}
  BY <1>5 DEF TimesAt
<1> HIDE DEF places, T
<1>3. CASE places = {}
  BY <1>2, <1>3 DEF FirstAt, SomeOrZero, places, T
<1>4. CASE places # {}
  <2>1. \E p \in places : FirstAt(z, s, days, places) = AtPlace(z, s, days, p)
    BY <1>1, <1>4, FirstAtPlace
  <2>2. FirstAt(z, s, days, places) \in T
    BY <1>2, <2>1
  <2> QED
    BY <2>2 DEF SomeOrZero, places, T
<1> QED
  BY <1>3, <1>4

-----------------------------------------------------------------------------
(* The set times of later days are later.                                  *)
LEMMA DayIsInt ==
  ASSUME NEW z \in ZoneType, NEW t \in Int
  PROVE  Day(z, t) \in Int
  BY NotInTheGap, UnitsAndDays DEF Day

LEMMA LaterDayIsLater ==
  ASSUME NEW z \in ZoneType, KeepsDays(z), NEW policy \in Policies,
         NEW day \in Int, NEW at \in 0 .. Units - 1, NEW last \in Nat, Day(z, last) < day,
         policy # "skip" \/ AtDate(z, policy, day, at) # Zero
  PROVE  AtDate(z, policy, day, at) > last
<1> DEFINE t == AtDate(z, policy, day, at)
<1>1. t \in Int /\ Day(z, t) = day
  BY AtDateOnItsDay
<1> HIDE DEF t
<1>2. last < t
  BY <1>1, LaterDayLater
<1> QED
  BY <1>1, <1>2 DEF t

LEMMA TimesOnTheirDays ==
  ASSUME NEW z \in ZoneType, KeepsDays(z), NEW policy \in Policies,
         NEW ats \in SUBSET (0 .. Units - 1), NEW days \in SUBSET Int, NEW bound \in Nat
  PROVE  /\ TimesOn(z, policy, days, ats, bound) \in SUBSET (Nat \ {0})
         /\ \A t \in TimesOn(z, policy, days, ats, bound) : Day(z, t) \in days /\ t > bound
<1> SUFFICES ASSUME NEW t \in TimesOn(z, policy, days, ats, bound)
             PROVE  t \in Nat \ {0} /\ Day(z, t) \in days /\ t > bound
  OBVIOUS
<1>1. PICK day \in days, at \in ats : t = AtDate(z, policy, day, at) /\ t > bound
  BY DEF TimesOn
<1>2. t \in Int /\ (t # Zero => Day(z, t) = day)
  BY <1>1, AtDateOnItsDay
<1> QED
  BY <1>1, <1>2

LEMMA LaterDaysLaterTimes ==
  ASSUME NEW z \in ZoneType, KeepsDays(z), NEW policy \in Policies,
         NEW ats \in SUBSET (0 .. Units - 1), NEW bound \in Nat,
         NEW days \in SUBSET Int, NEW laterDays \in SUBSET Int,
         \A day \in days, later \in laterDays : day < later,
         NEW t \in TimesOn(z, policy, days, ats, bound),
         NEW u \in TimesOn(z, policy, laterDays, ats, bound)
  PROVE  t < u
<1>1. t \in Int /\ u \in Int /\ Day(z, t) \in days /\ Day(z, u) \in laterDays
  BY TimesOnTheirDays
<1> QED
  BY <1>1, LaterDayLater

-----------------------------------------------------------------------------
(* What the definition says is due is the set times of the due days.       *)
DayKinds == {"daily", "weekly", "monthly"}

LEMMA DueOnDays ==
  ASSUME NEW z \in ZoneType, KeepsDays(z), NEW d, d.kind \in DayKinds, d.policy \in Policies,
         ToSet(d.atTimes) \in SUBSET (0 .. Units - 1), NEW last \in Nat,
         DueDays(z, d, last) \in SUBSET Int
  PROVE  {t \in Due(z, d, last) : t > last}
           = TimesOn(z, d.policy, DueDays(z, d, last), ToSet(d.atTimes), last)
<1> DEFINE days == DueDays(z, d, last)
           ats == ToSet(d.atTimes)
           T == TimesOn(z, d.policy, days, ats, last)
<1>1. Due(z, d, last) = UNION {DueAt(z, d.policy, day * Units + at) : day \in days, at \in ats}
  BY DEF Due, DayKinds
<1>2. \A t : t \in Due(z, d, last) <=>
        \E day \in days, at \in ats : t \in DueAt(z, d.policy, day * Units + at)
  BY <1>1
<1> HIDE DEF days, ats
<1>3. ASSUME NEW t, t > last, t # Zero
      PROVE  t \in Due(z, d, last) <=> t \in T
  <2>1. \A day \in days, at \in ats :
          t \in DueAt(z, d.policy, day * Units + at) <=> t = AtDate(z, d.policy, day, at)
    BY <1>3, DueAtIs DEF days, ats
  <2> QED
    BY <1>2, <1>3, <2>1 DEF TimesOn
<1>4. \A t : t > last => t # Zero
  OBVIOUS
<1>5. \A t \in T : t > last
  BY DEF TimesOn
<1> HIDE DEF T
<1>6. {t \in Due(z, d, last) : t > last} = T
  BY <1>3, <1>4, <1>5
<1> QED
  BY <1>6 DEF T, days, ats

LEMMA EarliestIsLeast ==
  ASSUME NEW z, NEW d, NEW last
  PROVE  Earliest(z, d, last) = LeastOrZero({t \in Due(z, d, last) : t > last})
  BY DEF Earliest, LeastOrZero

-----------------------------------------------------------------------------
(* What setup has made of interval, policy and set times: a sorted list of *)
(* the same times of the day.                                              *)
SetUpTimes(s, d) ==
  /\ s.policy = d.policy /\ d.policy \in Policies
  /\ s.interval = d.interval /\ d.interval \in Nat \ {0}
  /\ s.atTimes \in Seq(0 .. Units - 1) /\ NonDecreasing(s.atTimes)
  /\ ToSet(s.atTimes) = ToSet(d.atTimes) /\ ToSet(d.atTimes) # {}

LEMMA SetUpRegular ==
  ASSUME NEW z, NEW s, NEW d, SetUpTimes(s, d)
  PROVE  /\ ToSet(d.atTimes) \in SUBSET (0 .. Units - 1)
         /\ InOrder(z, d.policy, ToSet(d.atTimes)) => Regular(z, s)
  BY Elements DEF SetUpTimes, Regular

(* A result of loops over some of the days of a list in order.             *)
LooksAt(z, s, last, result, rest) ==
  \E days, Keep :
    /\ days \in Seq(Int) /\ NonDecreasing(days) /\ Kept(days, Keep) = rest
    /\ result = FirstAt(z, s, days, PlacesAfter(z, s, days, Keep, last))

LEMMA LooksAtLeast ==
  ASSUME NEW z \in ZoneType, KeepsDays(z), NEW s, Regular(z, s), NEW last \in Nat,
         NEW result, NEW rest, LooksAt(z, s, last, result, rest)
  PROVE  result = LeastOrZero(TimesOn(z, s.policy, rest, ToSet(s.atTimes), last))
<1>1. PICK days, Keep :
        /\ days \in Seq(Int) /\ NonDecreasing(days) /\ Kept(days, Keep) = rest
        /\ result = FirstAt(z, s, days, PlacesAfter(z, s, days, Keep, last))
  BY DEF LooksAt
<1>2. FirstAt(z, s, days, PlacesAfter(z, s, days, Keep, last))
        = LeastOrZero(TimesOn(z, s.policy, Kept(days, Keep), ToSet(s.atTimes), last))
  BY <1>1, FirstSetTime
<1> QED
  BY <1>1, <1>2

LEMMA LooksAtSome ==
  ASSUME NEW z, NEW s, s.atTimes \in Seq(0 .. Units - 1), NEW last,
         NEW result, NEW rest, LooksAt(z, s, last, result, rest)
  PROVE  SomeOrZero(result, TimesOn(z, s.policy, rest, ToSet(s.atTimes), last))
<1>1. PICK days, Keep :
        /\ days \in Seq(Int) /\ NonDecreasing(days) /\ Kept(days, Keep) = rest
        /\ result = FirstAt(z, s, days, PlacesAfter(z, s, days, Keep, last))
  BY DEF LooksAt
<1>2. SomeOrZero(FirstAt(z, s, days, PlacesAfter(z, s, days, Keep, last)),
                 TimesOn(z, s.policy, Kept(days, Keep), ToSet(s.atTimes), last))
  BY <1>1, SomeSetTime
<1> QED
  BY <1>1, <1>2

(* next of a daily job looks at one day, whatever the day.                 *)
AnyDay == Int

LEMMA NextDayLooks ==
  ASSUME NEW z \in ZoneType, NEW s, NEW last \in Nat, NEW offset \in Int
  PROVE  LooksAt(z, s, last, NextDay(z, s, last, offset), {Day(z, last) + offset})
<1> DEFINE day == Day(z, last) + offset
           days == <<day>>
<1>1. day \in Int
  BY DayIsInt
<1>2. NextDay(z, s, last, offset)
        = FirstAt(z, s, days, {p \in Places(s, days) : AtPlace(z, s, days, p) > last})
  BY DEF NextDay
<1> HIDE DEF day
<1>3. days \in Seq(Int) /\ NonDecreasing(days)
  BY <1>1 DEF NonDecreasing
<1>4. Kept(days, AnyDay) = {day}
  BY <1>1 DEF ToSet, AnyDay, Kept
<1>5. \A p \in Places(s, days) : days[p[1]] \in AnyDay
  BY <1>1 DEF Places, AnyDay
<1> HIDE DEF days
<1>6. {p \in Places(s, days) : AtPlace(z, s, days, p) > last}
        = PlacesAfter(z, s, days, AnyDay, last)
  BY <1>5 DEF PlacesAfter
<1>7. LooksAt(z, s, last, NextDay(z, s, last, offset), {day})
  BY <1>2, <1>3, <1>4, <1>6 DEF LooksAt
<1> QED
  BY <1>7 DEF day

(* Rounds of days, the first from today on and each after the one before;  *)
(* the loops go through them all, or if no time is skipped only as far as  *)
(* they must.                                                              *)
AllOf(rounds) == UNION {rounds[k] : k \in 0 .. Strides}

RoundsFrom(rounds, today) ==
  /\ rounds \in [0 .. Strides -> SUBSET Int]
  /\ \A j, k \in 0 .. Strides : j < k => \A day \in rounds[j], later \in rounds[k] : day < later
  /\ \A k \in 1 .. Strides : \A day \in rounds[k] : today < day

RoundsSeen(s, rounds, seen) ==
  \/ seen = 0 .. Strides
  \/ seen = 0 .. 1 /\ s.policy # "skip" /\ rounds[1] # {}

LooksAtRounds(z, s, last, rounds, results) ==
  /\ RoundsSeen(s, rounds, DOMAIN results)
  /\ \A k \in DOMAIN results : LooksAt(z, s, last, results[k], rounds[k])

LEMMA IntervalsSeen ==
  ASSUME NEW s, NEW rounds, rounds[1] # {}
  PROVE  /\ RoundsSeen(s, rounds, {0} \cup Intervals(s))
         /\ {0} \cup Intervals(s) \in SUBSET (0 .. Strides)
  BY ConstantAssumption DEF RoundsSeen, Intervals

HasTimes(z, policy, days, ats, last) == TimesOn(z, policy, days, ats, last) # {}

(* Of a round that no loop looks at there is an earlier one with a time.   *)
LEMMA EarlierRound ==
  ASSUME NEW z \in ZoneType, KeepsDays(z), NEW s, s.policy \in Policies,
         NEW ats \in SUBSET (0 .. Units - 1), ats # {},
         NEW last \in Nat, NEW rounds, RoundsFrom(rounds, Day(z, last)),
         NEW seen, RoundsSeen(s, rounds, seen),
         NEW k \in 0 .. Strides, HasTimes(z, s.policy, rounds[k], ats, last)
  PROVE  \E j \in seen : j <= k /\ HasTimes(z, s.policy, rounds[j], ats, last)
<1>1. CASE k \in seen
  BY <1>1
<1>2. CASE k \notin seen
  <2>1. seen = 0 .. 1 /\ s.policy # "skip" /\ rounds[1] # {}
    BY <1>2 DEF RoundsSeen
  <2>2. k >= 1 /\ 1 \in seen /\ 1 \in 1 .. Strides
    BY <1>2, <2>1, ConstantAssumption
  <2>3. PICK day \in rounds[1] : Day(z, last) < day /\ day \in Int
    BY <2>1, <2>2 DEF RoundsFrom
  <2>4. PICK at \in ats : at \in 0 .. Units - 1
    OBVIOUS
  <2>5. AtDate(z, s.policy, day, at) > last
    BY <2>1, <2>3, <2>4, LaterDayIsLater
  <2>6. AtDate(z, s.policy, day, at) \in TimesOn(z, s.policy, rounds[1], ats, last)
    BY <2>3, <2>4, <2>5 DEF TimesOn
  <2> QED
    BY <2>2, <2>6 DEF HasTimes
<1> QED
  BY <1>1, <1>2

LEMMA TimesOfRounds ==
  ASSUME NEW z, NEW policy, NEW rounds, NEW ats, NEW last
  PROVE  UNION {TimesOn(z, policy, rounds[k], ats, last) : k \in 0 .. Strides}
           = TimesOn(z, policy, AllOf(rounds), ats, last)
<1>1. ASSUME NEW k \in 0 .. Strides, NEW t \in TimesOn(z, policy, rounds[k], ats, last)
      PROVE  t \in TimesOn(z, policy, AllOf(rounds), ats, last)
  BY DEF TimesOn, AllOf
<1>2. ASSUME NEW t \in TimesOn(z, policy, AllOf(rounds), ats, last)
      PROVE  \E k \in 0 .. Strides : t \in TimesOn(z, policy, rounds[k], ats, last)
  <2>1. PICK day \in AllOf(rounds), at \in ats : t = AtDate(z, policy, day, at) /\ t > last
    BY DEF TimesOn
  <2>2. PICK k \in 0 .. Strides : day \in rounds[k]
    BY DEF AllOf
  <2> QED
    BY <2>1, <2>2 DEF TimesOn
<1> QED
  BY <1>1, <1>2

(* The first round with a time to come has the earliest of all.            *)
LEMMA RoundsLeast ==
  ASSUME NEW z \in ZoneType, KeepsDays(z), NEW s, Regular(z, s), ToSet(s.atTimes) # {},
         NEW last \in Nat, NEW rounds, RoundsFrom(rounds, Day(z, last)),
         NEW results, LooksAtRounds(z, s, last, rounds, results)
  PROVE  FirstNonZero(results)
           = LeastOrZero(TimesOn(z, s.policy, AllOf(rounds), ToSet(s.atTimes), last))
<1> DEFINE ats == ToSet(s.atTimes)
           T == [k \in 0 .. Strides |-> TimesOn(z, s.policy, rounds[k], ats, last)]
<1>1. s.policy \in Policies /\ ats \in SUBSET (0 .. Units - 1) /\ ats # {}
  BY Elements DEF Regular
<1> HIDE DEF ats
<1>2. /\ rounds \in [0 .. Strides -> SUBSET Int] /\ RoundsSeen(s, rounds, DOMAIN results)
      /\ DOMAIN results \in SUBSET (0 .. Strides)
  BY ConstantAssumption DEF RoundsFrom, LooksAtRounds, RoundsSeen
<1>3. T \in [0 .. Strides -> SUBSET (Nat \ {0})]
  BY <1>1, <1>2, TimesOnTheirDays
<1>4. \A k \in DOMAIN results : results[k] = LeastOrZero(T[k])
  <2> SUFFICES ASSUME NEW k \in DOMAIN results
               PROVE  results[k] = LeastOrZero(T[k])
    OBVIOUS
  <2>1. LooksAt(z, s, last, results[k], rounds[k]) /\ k \in 0 .. Strides
    BY <1>2 DEF LooksAtRounds
  <2>2. results[k] = LeastOrZero(TimesOn(z, s.policy, rounds[k], ToSet(s.atTimes), last))
    BY <2>1, LooksAtLeast
  <2> QED
    BY <2>1, <2>2 DEF ats
<1>5. ASSUME NEW j \in 0 .. Strides, NEW k \in 0 .. Strides, j < k,
             NEW t \in T[j], NEW u \in T[k]
      PROVE  t < u
  <2>1. /\ rounds[j] \in SUBSET Int /\ rounds[k] \in SUBSET Int
        /\ \A day \in rounds[j], later \in rounds[k] : day < later
        /\ t \in TimesOn(z, s.policy, rounds[j], ats, last)
        /\ u \in TimesOn(z, s.policy, rounds[k], ats, last)
    BY <1>2, <1>5 DEF RoundsFrom
  <2> QED
    BY <1>1, <2>1, LaterDaysLaterTimes
<1>6. ASSUME NEW k \in 0 .. Strides, T[k] # {}
      PROVE  \E j \in DOMAIN results : j <= k /\ T[j] # {}
  <2>1. HasTimes(z, s.policy, rounds[k], ats, last)
    BY <1>6 DEF HasTimes
  <2> DEFINE seen == DOMAIN results
  <2>3. RoundsSeen(s, rounds, seen)
    BY <1>2
  <2> HIDE DEF seen, T
  <2>4. PICK j \in seen : j <= k /\ HasTimes(z, s.policy, rounds[j], ats, last)
    BY <1>1, <2>1, <2>3, EarlierRound
  <2>2. j \in DOMAIN results /\ j <= k /\ TimesOn(z, s.policy, rounds[j], ats, last) # {}
    BY <2>4 DEF seen, HasTimes
  <2> QED
    BY <1>2, <2>2 DEF T
<1>7. UNION {T[k] : k \in 0 .. Strides} = TimesOn(z, s.policy, AllOf(rounds), ats, last)
  BY TimesOfRounds
<1> HIDE DEF T
<1>8. FirstNonZero(results) = LeastOrZero(UNION {T[k] : k \in 0 .. Strides})
  BY <1>2, <1>3, <1>4, <1>5, <1>6, FirstRoundIsLeast
<1> QED
  BY <1>7, <1>8 DEF ats

(* Even if set times are out of order, one of them is found.               *)
LEMMA RoundsSome ==
  ASSUME NEW z \in ZoneType, KeepsDays(z), NEW s, s.policy \in Policies,
         s.atTimes \in Seq(0 .. Units - 1), ToSet(s.atTimes) # {},
         NEW last \in Nat, NEW rounds, RoundsFrom(rounds, Day(z, last)),
         NEW results, LooksAtRounds(z, s, last, rounds, results)
  PROVE  SomeOrZero(FirstNonZero(results),
                    TimesOn(z, s.policy, AllOf(rounds), ToSet(s.atTimes), last))
<1> DEFINE ats == ToSet(s.atTimes)
           T(k) == TimesOn(z, s.policy, rounds[k], ats, last)
           all == TimesOn(z, s.policy, AllOf(rounds), ats, last)
           good == {k \in DOMAIN results : results[k] # Zero}
<1>1. ats \in SUBSET (0 .. Units - 1) /\ ats # {}
  BY Elements
<1>2. RoundsSeen(s, rounds, DOMAIN results) /\ DOMAIN results \in SUBSET (0 .. Strides)
  <2>1. RoundsSeen(s, rounds, DOMAIN results)
    BY DEF LooksAtRounds
  <2> QED
    BY <2>1, ConstantAssumption DEF RoundsSeen
<1>3. \A k \in DOMAIN results : SomeOrZero(results[k], T(k))
  BY LooksAtSome DEF LooksAtRounds
<1>4. \A t : t \in all <=> \E k \in 0 .. Strides : t \in T(k)
  BY TimesOfRounds
<1>5. \A t \in all : t # Zero
  BY DEF TimesOn
<1>6. DOMAIN results \in SUBSET Nat
  BY <1>2
<1>7. FirstNonZero(results) = Zero \/ FirstNonZero(results) \in all
  <2>1. CASE FirstNonZero(results) # Zero
    <3>1. PICK k \in DOMAIN results : FirstNonZero(results) = results[k] /\ results[k] # Zero
      BY <1>6, <2>1, FirstNonZeroIsOne
    <3>2. results[k] \in T(k)
      BY <1>3, <3>1 DEF SomeOrZero
    <3> HIDE DEF all, T
    <3> QED
      BY <1>2, <1>4, <3>1, <3>2
  <2> QED
    BY <2>1
<1>8. ASSUME NEW t \in all
      PROVE  FirstNonZero(results) # Zero
  <2>1. PICK k \in 0 .. Strides : T(k) # {}
    <3> HIDE DEF all, T
    <3> QED
      BY <1>4
  <2>2. PICK j \in DOMAIN results : T(j) # {}
    <3> DEFINE seen == DOMAIN results
    <3>1. RoundsSeen(s, rounds, seen) /\ HasTimes(z, s.policy, rounds[k], ats, last)
      BY <1>2, <2>1 DEF HasTimes
    <3> HIDE DEF ats, seen
    <3>2. PICK j \in seen : j <= k /\ HasTimes(z, s.policy, rounds[j], ats, last)
      BY <1>1, <3>1, EarlierRound
    <3> QED
      BY <3>2 DEF seen, HasTimes
  <2>3. results[j] \in T(j)
    BY <1>3, <2>2 DEF SomeOrZero
  <2>4. results[j] # Zero
    BY <2>3 DEF TimesOn
  <2>5. j \in good /\ good \in SUBSET Nat
    BY <1>6, <2>4
  <2>6. FirstNonZero(results) = results[Min(good)]
    BY <2>5 DEF FirstNonZero
  <2>7. Min(good) \in good
    <3> HIDE DEF good
    <3> QED
      BY <2>5, LeastNatural
  <2> QED
    BY <2>6, <2>7
<1> HIDE DEF all
<1>9. SomeOrZero(FirstNonZero(results), all)
  BY <1>7, <1>8 DEF SomeOrZero
<1> QED
  BY <1>9 DEF all

-----------------------------------------------------------------------------
(* What next of a daily, weekly or monthly job amounts to: rounds of days  *)
(* that are together the due days. Its result is the earliest of their set *)
(* times, and one of them even if those of a day are out of order.         *)
FollowsDueDays(z, s, d, last, result) ==
  \E rounds, results :
    /\ RoundsFrom(rounds, Day(z, last)) /\ AllOf(rounds) = DueDays(z, d, last)
    /\ LooksAtRounds(z, s, last, rounds, results) /\ result = FirstNonZero(results)

TimesDue(z, d, last) ==
  TimesOn(z, d.policy, DueDays(z, d, last), ToSet(d.atTimes), last)

LEMMA TimesDueAre ==
  ASSUME NEW z \in ZoneType, KeepsDays(z), NEW d, d.kind \in DayKinds, d.policy \in Policies,
         ToSet(d.atTimes) \in SUBSET (0 .. Units - 1), NEW last \in Nat,
         NEW s, NEW result, FollowsDueDays(z, s, d, last, result)
  PROVE  {t \in Due(z, d, last) : t > last} = TimesDue(z, d, last)
<1>1. PICK rounds : RoundsFrom(rounds, Day(z, last)) /\ AllOf(rounds) = DueDays(z, d, last)
  BY DEF FollowsDueDays
<1>2. DueDays(z, d, last) \in SUBSET Int
  BY <1>1 DEF AllOf, RoundsFrom
<1> QED
  BY <1>2, DueOnDays DEF TimesDue

LEMMA FollowsLeast ==
  ASSUME NEW z \in ZoneType, KeepsDays(z), NEW s, NEW d, d.kind \in DayKinds, SetUpTimes(s, d),
         InOrder(z, d.policy, ToSet(d.atTimes)), NEW last \in Nat,
         NEW result, FollowsDueDays(z, s, d, last, result)
  PROVE  result = Earliest(z, d, last)
<1>1. /\ Regular(z, s) /\ ToSet(s.atTimes) # {} /\ s.policy = d.policy
      /\ ToSet(s.atTimes) = ToSet(d.atTimes) /\ ToSet(d.atTimes) \in SUBSET (0 .. Units - 1)
      /\ d.policy \in Policies
  BY SetUpRegular DEF SetUpTimes
<1>2. PICK rounds, results :
        /\ RoundsFrom(rounds, Day(z, last)) /\ AllOf(rounds) = DueDays(z, d, last)
        /\ LooksAtRounds(z, s, last, rounds, results) /\ result = FirstNonZero(results)
  BY DEF FollowsDueDays
<1>3. FirstNonZero(results)
        = LeastOrZero(TimesOn(z, s.policy, AllOf(rounds), ToSet(s.atTimes), last))
  BY <1>1, <1>2, RoundsLeast
<1>4. {t \in Due(z, d, last) : t > last} = TimesDue(z, d, last)
  BY <1>1, TimesDueAre
<1> QED
  BY <1>1, <1>2, <1>3, <1>4, EarliestIsLeast DEF TimesDue

LEMMA FollowsSome ==
  ASSUME NEW z \in ZoneType, KeepsDays(z), NEW s, NEW d, SetUpTimes(s, d), NEW last \in Nat,
         NEW result, FollowsDueDays(z, s, d, last, result)
  PROVE  SomeOrZero(result, TimesDue(z, d, last))
<1>1. /\ s.policy \in Policies /\ s.atTimes \in Seq(0 .. Units - 1)
      /\ ToSet(s.atTimes) # {} /\ s.policy = d.policy /\ ToSet(s.atTimes) = ToSet(d.atTimes)
  BY DEF SetUpTimes
<1>2. PICK rounds, results :
        /\ RoundsFrom(rounds, Day(z, last)) /\ AllOf(rounds) = DueDays(z, d, last)
        /\ LooksAtRounds(z, s, last, rounds, results) /\ result = FirstNonZero(results)
  BY DEF FollowsDueDays
<1>3. SomeOrZero(FirstNonZero(results),
                 TimesOn(z, s.policy, AllOf(rounds), ToSet(s.atTimes), last))
  BY <1>1, <1>2, RoundsSome
<1> QED
  BY <1>1, <1>2, <1>3 DEF TimesDue

(* NextDaily: round k is the day k intervals after the last run's.         *)
LEMMA DailyFollows ==
  ASSUME NEW z \in ZoneType, NEW s, NEW d, d.kind = "daily", SetUpTimes(s, d), NEW last \in Nat
  PROVE  FollowsDueDays(z, s, d, last, NextDaily(z, s, last))
<1> DEFINE today == Day(z, last)
           rounds == [k \in 0 .. Strides |-> {today + k * s.interval}]
           results == [k \in {0} \cup Intervals(s) |-> NextDay(z, s, last, k * s.interval)]
<1>1. s.interval = d.interval
  BY DEF SetUpTimes
<1>2. today \in Int /\ s.interval \in Nat /\ s.interval > 0
  BY DayIsInt DEF SetUpTimes
<1>3. DueDays(z, d, last) = AllOf(rounds)
  BY <1>1 DEF DueDays, AllOf
<1> HIDE DEF today
<1>4. rounds \in [0 .. Strides -> SUBSET Int] /\ rounds[1] # {}
  <2>1. \A k \in 0 .. Strides : k * s.interval \in Int
    BY <1>2
  <2>2. 1 \in 0 .. Strides
    BY ConstantAssumption
  <2> QED
    BY <1>2, <2>1, <2>2
<1>5. RoundsFrom(rounds, today)
  <2>1. ASSUME NEW j \in Nat, NEW k \in Nat, j < k
        PROVE  j * s.interval < k * s.interval
    BY <1>2, <2>1
  <2>2. \A k \in Nat : k * s.interval \in Int /\ 0 * s.interval = 0
    BY <1>2
  <2>3. \A j, k \in 0 .. Strides : j < k => \A day \in rounds[j], later \in rounds[k] : day < later
    BY <1>2, <2>1, <2>2
  <2>4. \A k \in 1 .. Strides : \A day \in rounds[k] : today < day
    <3> SUFFICES ASSUME NEW k \in 1 .. Strides
                 PROVE  today < today + k * s.interval
      OBVIOUS
    <3>1. 0 < k * s.interval
      BY <2>1, <2>2
    <3> QED
      BY <1>2, <2>2, <3>1
  <2> HIDE DEF rounds
  <2> QED
    BY <1>4, <2>3, <2>4 DEF RoundsFrom
<1>6. RoundsSeen(s, rounds, DOMAIN results) /\ DOMAIN results \in SUBSET (0 .. Strides)
  <2>1. DOMAIN results = {0} \cup Intervals(s)
    OBVIOUS
  <2> HIDE DEF rounds, results
  <2> QED
    BY <1>4, <2>1, IntervalsSeen
<1>7. ASSUME NEW k \in DOMAIN results
      PROVE  LooksAt(z, s, last, results[k], rounds[k])
  <2>1. k * s.interval \in Int /\ k \in 0 .. Strides
    BY <1>2, <1>6
  <2> QED
    BY <2>1, NextDayLooks DEF today
<1>8. NextDaily(z, s, last) = FirstNonZero(results)
  BY DEF NextDaily
<1> HIDE DEF rounds, results
<1>9. LooksAtRounds(z, s, last, rounds, results)
  BY <1>6, <1>7 DEF LooksAtRounds
<1> QED
  BY <1>3, <1>5, <1>8, <1>9 DEF FollowsDueDays, today

-----------------------------------------------------------------------------
(* NextWeekly: the days of the week of a date, from that date on.          *)
FromDay(date) == {day \in Int : day >= date}

WeekDaysFrom(date, wds) == {day \in {date - Weekday(date) + wd : wd \in wds} : day >= date}

LEMMA WeekBegins ==
  ASSUME NEW day \in Int
  PROVE  /\ Weekday(day) \in 0 .. 6 /\ day - Weekday(day) \in Int
         /\ \A n \in Int : Weekday((day - Weekday(day)) + 7 * n) = 0
  BY DEF Weekday

LEMMA NextWeekDayLooks ==
  ASSUME NEW z \in ZoneType, NEW s, s.days \in Seq(0 .. 6), NonDecreasing(s.days),
         NEW last \in Nat, NEW offset \in Int
  PROVE  LooksAt(z, s, last, NextWeekDayAtTime(z, s, last, offset),
                 WeekDaysFrom(Day(z, last) + offset, ToSet(s.days)))
<1> DEFINE date == Day(z, last) + offset
           days == [i \in DOMAIN s.days |-> date + s.days[i] - Weekday(date)]
<1>0. date \in Int
  BY DayIsInt
<1>2. NextWeekDayAtTime(z, s, last, offset)
        = FirstAt(z, s, days,
            {p \in Places(s, days) : days[p[1]] >= date /\ AtPlace(z, s, days, p) > last})
  BY DEF NextWeekDayAtTime
<1> HIDE DEF date
<1>1. date \in Int /\ Weekday(date) \in 0 .. 6
  BY <1>0, WeekBegins
<1>3. /\ DOMAIN s.days = 1 .. Len(s.days) /\ Len(s.days) \in Nat
      /\ \A i \in DOMAIN s.days : s.days[i] \in 0 .. 6
      /\ \A i, j \in DOMAIN s.days : i <= j => s.days[i] <= s.days[j]
  BY Elements DEF NonDecreasing
<1>4. /\ days \in Seq(Int) /\ Len(days) = Len(s.days) /\ DOMAIN days = DOMAIN s.days
      /\ \A i \in DOMAIN s.days : days[i] = date + s.days[i] - Weekday(date) /\ days[i] \in Int
  <2> DEFINE n == Len(s.days)
  <2>1. \A i \in DOMAIN s.days : days[i] = date + s.days[i] - Weekday(date)
    OBVIOUS
  <2>2. \A i \in DOMAIN s.days : date + s.days[i] - Weekday(date) \in Int
    BY <1>1, <1>3
  <2>3. n \in Nat /\ DOMAIN s.days = 1 .. n
    BY <1>3
  <2>4. days \in [1 .. n -> Int]
    BY <2>2, <2>3
  <2> HIDE DEF days, n
  <2>5. days \in Seq(Int) /\ Len(days) = n
    BY <2>3, <2>4
  <2> QED
    BY <2>1, <2>2, <2>3, <2>4, <2>5 DEF n
<1> HIDE DEF days
<1>5. NonDecreasing(days)
  <2> SUFFICES ASSUME NEW i \in DOMAIN s.days, NEW j \in DOMAIN s.days, i <= j
               PROVE  days[i] <= days[j]
    BY <1>4 DEF NonDecreasing
  <2>1. s.days[i] \in Int /\ s.days[j] \in Int /\ s.days[i] <= s.days[j]
    BY <1>3
  <2>2. days[i] = date + s.days[i] - Weekday(date) /\ days[j] = date + s.days[j] - Weekday(date)
    BY <1>4
  <2> QED
    BY <1>1, <2>1, <2>2
<1>6. {p \in Places(s, days) : days[p[1]] >= date /\ AtPlace(z, s, days, p) > last}
        = PlacesAfter(z, s, days, FromDay(date), last)
  BY <1>1, <1>3, <1>4 DEF PlacesAfter, FromDay, Places
<1>7. Kept(days, FromDay(date)) = WeekDaysFrom(date, ToSet(s.days))
  <2>1. ASSUME NEW day \in Kept(days, FromDay(date))
        PROVE  day \in WeekDaysFrom(date, ToSet(s.days))
    <3>1. PICK i \in DOMAIN s.days : day = days[i] /\ day >= date
      BY <1>4 DEF Kept, ToSet, FromDay
    <3>2. s.days[i] \in ToSet(s.days) /\ s.days[i] \in Int
      BY <1>3 DEF ToSet
    <3>3. day = date - Weekday(date) + s.days[i]
      BY <1>1, <1>4, <3>1, <3>2
    <3> QED
      BY <3>1, <3>2, <3>3 DEF WeekDaysFrom
  <2>2. ASSUME NEW day \in WeekDaysFrom(date, ToSet(s.days))
        PROVE  day \in Kept(days, FromDay(date))
    <3>1. PICK i \in DOMAIN s.days : day = date - Weekday(date) + s.days[i] /\ day >= date
      BY DEF WeekDaysFrom, ToSet
    <3>2. s.days[i] \in Int /\ days[i] = date + s.days[i] - Weekday(date) /\ days[i] \in Int
      BY <1>3, <1>4
    <3>3. day = days[i] /\ day \in Int
      BY <1>1, <3>1, <3>2
    <3> QED
      BY <1>4, <3>1, <3>3 DEF Kept, ToSet, FromDay
  <2> QED
    BY <2>1, <2>2
<1>8. LooksAt(z, s, last, NextWeekDayAtTime(z, s, last, offset),
              WeekDaysFrom(date, ToSet(s.days)))
  BY <1>2, <1>4, <1>5, <1>6, <1>7 DEF LooksAt
<1> QED
  BY <1>8 DEF date

(* The weeks that a weekly job looks at; round k begins k intervals after  *)
(* the week of the last run.                                               *)
WeekRounds(today, interval, wds) ==
  [k \in 0 .. Strides |->
     IF k = 0 THEN WeekDaysFrom(today, wds)
     ELSE {(today - Weekday(today) + 7 * (k * interval)) + wd : wd \in wds}]

LEMMA WeeksInOrder ==
  ASSUME NEW today \in Int, NEW interval \in Nat \ {0}, NEW wds \in SUBSET (0 .. 6), wds # {}
  PROVE  /\ RoundsFrom(WeekRounds(today, interval, wds), today)
         /\ WeekRounds(today, interval, wds)[1] # {}
<1> DEFINE week == today - Weekday(today)
           rounds == WeekRounds(today, interval, wds)
           start == [k \in 0 .. Strides |-> week + 7 * (k * interval)]
<1>1. week \in Int /\ week <= today /\ today < week + 7
  BY WeekBegins
<1> HIDE DEF week
<1>2. \A k \in 0 .. Strides : k * interval \in Int /\ (k > 0 => k * interval >= 1)
  OBVIOUS
<1>3. \A j, k \in 0 .. Strides : j < k => j * interval + 1 <= k * interval
  <2> SUFFICES ASSUME NEW j \in 0 .. Strides, NEW k \in 0 .. Strides, j < k
               PROVE  j * interval + 1 <= k * interval
    OBVIOUS
  <2>1. (k - j) * interval >= 1
    OBVIOUS
  <2>2. (k - j) * interval = k * interval - j * interval
    OBVIOUS
  <2> QED
    BY <1>2, <2>1, <2>2
<1>4. /\ \A k \in 0 .. Strides : start[k] \in Int
      /\ start[0] = week
      /\ \A k \in 1 .. Strides : start[k] >= week + 7
      /\ \A j, k \in 0 .. Strides : j < k => start[j] + 7 <= start[k]
  <2>1. \A k \in 0 .. Strides : start[k] \in Int
    BY <1>1, <1>2
  <2>2. 0 * interval = 0
    OBVIOUS
  <2>3. start[0] = week
    BY <1>1, <2>2, ConstantAssumption
  <2>4. \A k \in 1 .. Strides : start[k] >= week + 7
    BY <1>1, <1>2
  <2>5. \A j, k \in 0 .. Strides : j < k => start[j] + 7 <= start[k]
    BY <1>1, <1>2, <1>3
  <2> QED
    BY <2>1, <2>3, <2>4, <2>5
<1>5. \A k \in 0 .. Strides : \A day \in rounds[k] :
        /\ day \in Int /\ start[k] <= day /\ day < start[k] + 7
  <2> SUFFICES ASSUME NEW k \in 0 .. Strides, NEW day \in rounds[k]
               PROVE  day \in Int /\ start[k] <= day /\ day < start[k] + 7
    OBVIOUS
  <2>1. PICK wd \in wds : day = start[k] + wd
    <3>1. CASE k = 0
      <4>1. PICK wd \in wds : day = week + wd
        BY <3>1 DEF WeekRounds, WeekDaysFrom, week
      <4> QED
        BY <1>4, <3>1, <4>1
    <3>2. CASE k # 0
      BY <3>2 DEF WeekRounds, week
    <3> QED
      BY <3>1, <3>2
  <2>2. wd \in 0 .. 6 /\ start[k] \in Int
    BY <1>4
  <2> QED
    BY <2>1, <2>2
<1>6. \E day : day \in rounds[1]
  <2>1. PICK wd \in wds : TRUE
    OBVIOUS
  <2>2. 1 \in 0 .. Strides /\ 1 # 0
    BY ConstantAssumption
  <2>3. (today - Weekday(today) + 7 * (1 * interval)) + wd \in rounds[1]
    BY <2>1, <2>2 DEF WeekRounds
  <2> QED
    BY <2>3
<1>7. rounds \in [0 .. Strides -> SUBSET Int]
  <2>1. DOMAIN rounds = 0 .. Strides /\ rounds = [k \in 0 .. Strides |-> rounds[k]]
    BY DEF WeekRounds
  <2>2. \A k \in 0 .. Strides : rounds[k] \in SUBSET Int
    BY <1>5
  <2> HIDE DEF rounds
  <2> QED
    BY <2>1, <2>2
<1> HIDE DEF rounds, start
<1>8. \A j, k \in 0 .. Strides : j < k => \A day \in rounds[j], later \in rounds[k] : day < later
  BY <1>4, <1>5
<1>9. \A k \in 1 .. Strides : \A day \in rounds[k] : today < day
  BY <1>1, <1>4, <1>5
<1> QED
  BY <1>6, <1>7, <1>8, <1>9 DEF RoundsFrom, rounds

SetUpWeekdays(s, d) ==
  /\ s.days \in Seq(0 .. 6) /\ NonDecreasing(s.days)
  /\ ToSet(s.days) = ToSet(d.days) /\ ToSet(d.days) # {}

(* They are the due days.                                                  *)
LEMMA WeeksDue ==
  ASSUME NEW z \in ZoneType, NEW d, d.kind = "weekly", NEW last \in Nat,
         d.interval \in Nat \ {0}, ToSet(d.days) \in SUBSET (0 .. 6)
  PROVE  DueDays(z, d, last) = AllOf(WeekRounds(Day(z, last), d.interval, ToSet(d.days)))
<1> DEFINE today == Day(z, last)
           wds == ToSet(d.days)
           week == today - Weekday(today)
           n == d.interval
           all == {week + 7 * k * n + wd : k \in 0 .. Strides, wd \in wds}
<1>1. DueDays(z, d, last) = {day \in all : day >= today}
  BY DEF DueDays
<1>2. today \in Int /\ week \in Int /\ week <= today /\ today < week + 7
  BY DayIsInt, WeekBegins
<1> HIDE DEF today
<1>3. \A k \in 0 .. Strides : k * n \in Int /\ 7 * k * n = 7 * (k * n) /\ (k > 0 => k * n >= 1)
  OBVIOUS
<1>4. 0 * n = 0 /\ 0 \in 0 .. Strides
  BY ConstantAssumption
<1>5. wds \in SUBSET (0 .. 6)
  OBVIOUS
<1> HIDE DEF n, wds
<1>6. ASSUME NEW day \in all, day >= today
      PROVE  day \in AllOf(WeekRounds(today, n, wds))
  <2>1. PICK k \in 0 .. Strides, wd \in wds : day = week + 7 * k * n + wd
    OBVIOUS
  <2>2. day = (week + 7 * (k * n)) + wd
    BY <1>3, <2>1
  <2>3. day \in WeekRounds(today, n, wds)[k]
    <3>1. CASE k = 0
      <4>1. day = week + wd
        BY <1>2, <1>4, <1>5, <2>2, <3>1
      <4> QED
        BY <1>6, <3>1, <4>1 DEF WeekRounds, WeekDaysFrom
    <3>2. CASE k # 0
      BY <2>2, <3>2 DEF WeekRounds
    <3> QED
      BY <3>1, <3>2
  <2> QED
    BY <2>3 DEF AllOf
<1>7. ASSUME NEW day \in AllOf(WeekRounds(today, n, wds))
      PROVE  day \in all /\ day >= today
  <2>1. PICK k \in 0 .. Strides : day \in WeekRounds(today, n, wds)[k]
    BY DEF AllOf
  <2>2. CASE k = 0
    <3>1. PICK wd \in wds : day = week + wd /\ day >= today
      BY <2>1, <2>2 DEF WeekRounds, WeekDaysFrom
    <3>2. day = week + 7 * 0 * n + wd
      BY <1>2, <1>3, <1>4, <1>5, <3>1
    <3> QED
      BY <1>4, <3>1, <3>2
  <2>3. CASE k # 0
    <3>1. PICK wd \in wds : day = (week + 7 * (k * n)) + wd
      BY <2>1, <2>3 DEF WeekRounds
    <3>2. k * n >= 1 /\ k * n \in Int /\ wd \in 0 .. 6
      BY <1>3, <1>5, <2>3
    <3>3. day >= today
      BY <1>2, <3>1, <3>2
    <3>4. day = week + 7 * k * n + wd
      BY <1>3, <3>1
    <3> QED
      BY <3>3, <3>4
  <2> QED
    BY <2>2, <2>3
<1> HIDE DEF all
<1> QED
  BY <1>1, <1>6, <1>7 DEF today, n, wds

LEMMA WeeklyFollows ==
  ASSUME NEW z \in ZoneType, NEW s, NEW d, d.kind = "weekly", SetUpTimes(s, d),
         SetUpWeekdays(s, d), NEW last \in Nat
  PROVE  FollowsDueDays(z, s, d, last, NextWeekly(z, s, last))
<1> DEFINE today == Day(z, last)
           wds == ToSet(d.days)
           rounds == WeekRounds(today, d.interval, wds)
           results == [k \in {0} \cup Intervals(s) |->
                         NextWeekDayAtTime(z, s, last, WeekOffset(s, Weekday(today), k))]
<1>1. s.interval = d.interval
  BY DEF SetUpTimes
<1>2. /\ today \in Int /\ d.interval \in Nat \ {0}
      /\ wds \in SUBSET (0 .. 6) /\ wds # {} /\ ToSet(s.days) = wds
      /\ s.days \in Seq(0 .. 6) /\ NonDecreasing(s.days)
  <2>1. today \in Int
    BY DayIsInt
  <2>2. ToSet(s.days) \in SUBSET (0 .. 6)
    BY Elements DEF SetUpWeekdays
  <2> QED
    BY <2>1, <2>2 DEF SetUpTimes, SetUpWeekdays
<1>3. DueDays(z, d, last) = AllOf(rounds)
  BY <1>2, WeeksDue
<1>4. NextWeekly(z, s, last) = FirstNonZero(results)
  BY DEF NextWeekly
<1>7. RoundsFrom(rounds, today) /\ rounds[1] # {}
  BY <1>2, WeeksInOrder
<1>6. RoundsSeen(s, rounds, DOMAIN results) /\ DOMAIN results \in SUBSET (0 .. Strides)
  <2>1. DOMAIN results = {0} \cup Intervals(s)
    OBVIOUS
  <2> HIDE DEF rounds, results
  <2> QED
    BY <1>7, <2>1, IntervalsSeen
<1>5. ASSUME NEW k \in DOMAIN results
      PROVE  LooksAt(z, s, last, results[k], rounds[k])
  <2> DEFINE offset == WeekOffset(s, Weekday(today), k)
  <2>1. k \in 0 .. Strides /\ Weekday(today) \in 0 .. 6 /\ k * s.interval \in Int
        /\ k * s.interval * 7 = 7 * (k * s.interval)
    <3>1. k \in 0 .. Strides
      BY <1>6
    <3>2. Weekday(today) \in 0 .. 6
      BY <1>2, WeekBegins
    <3>3. k * s.interval \in Int
      BY <1>1, <1>2, <3>1
    <3> QED
      BY <3>1, <3>2, <3>3
  <2>2. offset \in Int
    BY <2>1 DEF WeekOffset
  <2>3. rounds[k] = WeekDaysFrom(today + offset, wds)
    <3>1. CASE k = 0
      <4>1. today + offset = today
        BY <1>2, <3>1 DEF WeekOffset
      <4> QED
        BY <2>1, <3>1, <4>1 DEF WeekRounds
    <3>2. CASE k # 0
      <4> DEFINE date == (today - Weekday(today)) + 7 * (k * s.interval)
      <4>1. today + offset = date
        BY <1>2, <2>1, <3>2 DEF WeekOffset
      <4>2. Weekday(date) = 0 /\ date \in Int
        <5>1. today \in Int /\ k * s.interval \in Int /\ today - Weekday(today) \in Int
          BY <1>2, <2>1
        <5>2. date \in Int
          BY <5>1
        <5> HIDE DEF today
        <5> QED
          BY <5>1, <5>2, WeekBegins
      <4>3. rounds[k] = {date + wd : wd \in wds}
        BY <1>1, <2>1, <3>2 DEF WeekRounds
      <4> HIDE DEF date
      <4>4. WeekDaysFrom(date, wds) = {date + wd : wd \in wds}
        BY <1>2, <4>2 DEF WeekDaysFrom
      <4> QED
        BY <4>1, <4>3, <4>4
    <3> QED
      BY <3>1, <3>2
  <2> HIDE DEF rounds, offset
  <2>4. LooksAt(z, s, last, NextWeekDayAtTime(z, s, last, offset),
                WeekDaysFrom(Day(z, last) + offset, ToSet(s.days)))
    BY <1>2, <2>2, NextWeekDayLooks
  <2> QED
    BY <1>2, <2>3, <2>4 DEF offset
<1> HIDE DEF rounds, results
<1>8. LooksAtRounds(z, s, last, rounds, results)
  BY <1>5, <1>6 DEF LooksAtRounds
<1> QED
  BY <1>3, <1>4, <1>7, <1>8 DEF FollowsDueDays

-----------------------------------------------------------------------------
(* Finite sets of integers: the rank of a member.                          *)
UpTo(S, x) == {y \in S : y <= x}

LEMMA UpToIsFinite ==
  ASSUME NEW S \in SUBSET Int, IsFiniteSet(S)
  PROVE  /\ Cardinality(S) \in Nat
         /\ \A x \in S : /\ x \in Int /\ UpTo(S, x) \in SUBSET S /\ x \in UpTo(S, x)
                        /\ IsFiniteSet(UpTo(S, x))
                        /\ Cardinality(UpTo(S, x)) \in 1 .. Cardinality(S)
         /\ \A x, y \in S : x < y => Cardinality(UpTo(S, x)) < Cardinality(UpTo(S, y))
<1>1. Cardinality(S) \in Nat
  BY FS_CardinalityType
<1>2. ASSUME NEW x \in S
      PROVE  /\ x \in Int /\ UpTo(S, x) \in SUBSET S /\ x \in UpTo(S, x)
             /\ IsFiniteSet(UpTo(S, x))
             /\ Cardinality(UpTo(S, x)) \in 1 .. Cardinality(S)
  <2>0. x \in Int
    OBVIOUS
  <2>1. UpTo(S, x) \in SUBSET S /\ x \in UpTo(S, x)
    BY <2>0 DEF UpTo
  <2>2. IsFiniteSet(UpTo(S, x)) /\ Cardinality(UpTo(S, x)) <= Cardinality(S)
    BY <2>1, FS_Subset
  <2>3. Cardinality(UpTo(S, x)) \in Nat /\ Cardinality(UpTo(S, x)) # 0
    BY <2>1, <2>2, FS_CardinalityType, FS_EmptySet
  <2> QED
    BY <1>1, <2>0, <2>1, <2>2, <2>3
<1>3. ASSUME NEW x \in S, NEW y \in S, x < y
      PROVE  Cardinality(UpTo(S, x)) < Cardinality(UpTo(S, y))
  <2>0. x \in Int /\ y \in Int /\ \A v \in S : v \in Int
    OBVIOUS
  <2>1. UpTo(S, x) \in SUBSET UpTo(S, y) /\ y \in UpTo(S, y) /\ y \notin UpTo(S, x)
    <3>1. ASSUME NEW v \in UpTo(S, x)
          PROVE  v \in UpTo(S, y)
      <4>1. v \in S /\ v <= x /\ v \in Int
        BY DEF UpTo
      <4>2. v <= y
        BY <1>3, <2>0, <4>1
      <4> QED
        BY <4>1, <4>2 DEF UpTo
    <3>2. y \in UpTo(S, y)
      BY <2>0 DEF UpTo
    <3>3. y \notin UpTo(S, x)
      <4>1. ~(y <= x)
        BY <1>3, <2>0
      <4> QED
        BY <4>1 DEF UpTo
    <3> QED
      BY <3>1, <3>2, <3>3
  <2>2. Cardinality(UpTo(S, x)) <= Cardinality(UpTo(S, y))
        /\ Cardinality(UpTo(S, y)) # Cardinality(UpTo(S, x))
    BY <1>2, <2>1, FS_Subset
  <2> QED
    BY <1>1, <1>2, <2>2
<1> QED
  BY <1>1, <1>2, <1>3

(* A finite, non-empty set of integers has a greatest element.             *)
LEMMA GreatestInteger ==
  ASSUME NEW S \in SUBSET Int, S # {}, IsFiniteSet(S)
  PROVE  \E m \in S : \A x \in S : x <= m
<1> DEFINE above == {Cardinality(S) - Cardinality(UpTo(S, x)) : x \in S}
<1>1. /\ Cardinality(S) \in Nat
      /\ \A x \in S : x \in Int /\ Cardinality(UpTo(S, x)) \in 1 .. Cardinality(S)
      /\ \A x, y \in S : x < y => Cardinality(UpTo(S, x)) < Cardinality(UpTo(S, y))
  BY UpToIsFinite
<1>2. above \in SUBSET Nat /\ above # {}
  <2>1. \A x \in S : Cardinality(S) - Cardinality(UpTo(S, x)) \in Nat
    BY <1>1
  <2> QED
    BY <2>1
<1>3. Min(above) \in above /\ \A n \in above : Min(above) <= n
  <2> HIDE DEF above
  <2> QED
    BY <1>2, LeastNatural
<1>4. PICK m \in S : \A x \in S :
        Cardinality(S) - Cardinality(UpTo(S, m)) <= Cardinality(S) - Cardinality(UpTo(S, x))
  BY <1>3
<1>5. \A x \in S : ~(m < x)
  BY <1>1, <1>4
<1> QED
  BY <1>1, <1>5

-----------------------------------------------------------------------------
(* Ascending: the members of a set, each once and in order.                *)
Ranked(S, i, x) == Cardinality(UpTo(S, x)) = i

LEMMA RankTaken ==
  ASSUME NEW S \in SUBSET Int, IsFiniteSet(S), NEW i \in 1 .. Cardinality(S)
  PROVE  \E x \in S : Ranked(S, i, x)
<1> DEFINE reaches == {x \in S : Cardinality(UpTo(S, x)) >= i}
<1>1. /\ Cardinality(S) \in Nat
      /\ \A x \in S : /\ x \in Int /\ UpTo(S, x) \in SUBSET S /\ x \in UpTo(S, x)
                     /\ IsFiniteSet(UpTo(S, x)) /\ Cardinality(UpTo(S, x)) \in Nat
                     /\ Cardinality(UpTo(S, x)) >= 1
  BY UpToIsFinite
<1>2. S # {}
  BY <1>1, FS_EmptySet
<1>3. reaches # {}
  <2>1. PICK m \in S : \A x \in S : x <= m
    BY <1>2, GreatestInteger
  <2>2. UpTo(S, m) = S
    BY <1>1, <2>1 DEF UpTo
  <2> QED
    BY <1>1, <2>2
<1>4. PICK x \in S : Cardinality(UpTo(S, x)) >= i /\ \A y \in reaches : x <= y
  <2> DEFINE ranks == {Cardinality(UpTo(S, y)) : y \in reaches}
  <2>1. ranks \in SUBSET Nat /\ ranks # {}
    BY <1>1, <1>3
  <2>2. Min(ranks) \in ranks /\ \A n \in ranks : Min(ranks) <= n
    <3> HIDE DEF ranks
    <3> QED
      BY <2>1, LeastNatural
  <2>3. PICK x \in reaches : \A y \in reaches : Cardinality(UpTo(S, x)) <= Cardinality(UpTo(S, y))
    BY <2>2
  <2>4. ASSUME NEW y \in reaches
        PROVE  x <= y
    <3>1. x \in S /\ y \in S /\ x \in Int /\ y \in Int
      BY <1>1, <2>3
    <3>2. y < x => Cardinality(UpTo(S, y)) < Cardinality(UpTo(S, x))
      BY <3>1, UpToIsFinite
    <3> QED
      BY <1>1, <2>3, <3>1, <3>2
  <2> QED
    BY <2>3, <2>4
<1>5. ASSUME Cardinality(UpTo(S, x)) > i
      PROVE  FALSE
  <2> DEFINE below == UpTo(S, x) \ {x}
  <2>1. x \in Int /\ x \in UpTo(S, x)
    BY <1>1
  <2>2. IsFiniteSet(UpTo(S, x))
    BY <1>1
  <2>3. IsFiniteSet(below) /\ Cardinality(below) = Cardinality(UpTo(S, x)) - 1
    BY <2>1, <2>2, FS_RemoveElement
  <2>4. Cardinality(below) >= i /\ below # {}
    BY <1>1, <1>5, <2>3, FS_EmptySet
  <2>5. below \in SUBSET Int /\ \A y \in below : y \in S /\ y < x
    <3> SUFFICES ASSUME NEW y \in below
                 PROVE  y \in Int /\ y \in S /\ y < x
      OBVIOUS
    <3>1. y \in S /\ y <= x /\ y # x /\ y \in Int
      BY DEF UpTo
    <3> QED
      BY <2>1, <3>1
  <2>6. PICK y \in below : \A v \in below : v <= y
    <3> HIDE DEF below
    <3> QED
      BY <2>3, <2>4, <2>5, GreatestInteger
  <2>7. UpTo(S, y) = below
    <3>1. ASSUME NEW v \in below
          PROVE  v \in UpTo(S, y)
      BY <2>5, <2>6 DEF UpTo
    <3>2. ASSUME NEW v \in UpTo(S, y)
          PROVE  v \in below
      <4>1. v \in S /\ v <= y /\ v \in Int /\ y < x /\ y \in Int
        BY <2>5 DEF UpTo
      <4>2. v <= x /\ v # x
        BY <2>1, <4>1
      <4> QED
        BY <4>1, <4>2 DEF UpTo
    <3> QED
      BY <3>1, <3>2
  <2>8. y \in reaches
    BY <2>4, <2>5, <2>7
  <2> QED
    BY <1>4, <2>5, <2>8
<1> QED
  BY <1>1, <1>4, <1>5 DEF Ranked

StrictlyAscending(seq) == \A i, j \in DOMAIN seq : i < j => seq[i] < seq[j]

LEMMA AscendingIs ==
  ASSUME NEW T \in SUBSET Int, NEW S \in SUBSET T, IsFiniteSet(S)
  PROVE  /\ Ascending(S) \in Seq(T) /\ Len(Ascending(S)) = Cardinality(S)
         /\ StrictlyAscending(Ascending(S)) /\ ToSet(Ascending(S)) = S
<1> DEFINE n == Cardinality(S)
           seq == Ascending(S)
<1>1. /\ n \in Nat
      /\ \A x \in S : x \in Int /\ Cardinality(UpTo(S, x)) \in 1 .. n
      /\ \A x, y \in S : x < y => Cardinality(UpTo(S, x)) < Cardinality(UpTo(S, y))
  BY UpToIsFinite
<1>2. seq = [i \in 1 .. n |-> CHOOSE x \in S : Ranked(S, i, x)]
  BY DEF Ascending, Ranked, UpTo
<1>3. DOMAIN seq = 1 .. n
  BY <1>2
<1>4. \A i \in 1 .. n : seq[i] \in S /\ Cardinality(UpTo(S, seq[i])) = i
  <2> SUFFICES ASSUME NEW i \in 1 .. n
               PROVE  seq[i] \in S /\ Ranked(S, i, seq[i])
    BY DEF Ranked
  <2>1. \E x \in S : Ranked(S, i, x)
    BY RankTaken
  <2>2. seq[i] = CHOOSE x \in S : Ranked(S, i, x)
    BY <1>2
  <2> QED
    BY <2>1, <2>2
<1> HIDE DEF n, seq
<1>5. seq \in Seq(T) /\ Len(seq) = n
  <2>1. seq \in [1 .. n -> T]
    <3>1. seq = [i \in 1 .. n |-> seq[i]]
      BY <1>2
    <3> QED
      BY <1>4, <3>1
  <2> QED
    BY <1>1, <2>1
<1>6. StrictlyAscending(seq)
  <2> SUFFICES ASSUME NEW i \in 1 .. n, NEW j \in 1 .. n, i < j
               PROVE  seq[i] < seq[j]
    BY <1>3 DEF StrictlyAscending
  <2>1. /\ seq[i] \in S /\ Cardinality(UpTo(S, seq[i])) = i
        /\ seq[j] \in S /\ Cardinality(UpTo(S, seq[j])) = j
    BY <1>4
  <2>2. seq[i] \in Int /\ seq[j] \in Int /\ seq[i] # seq[j]
    <3>1. seq[i] \in Int /\ seq[j] \in Int
      BY <1>1, <2>1
    <3>2. seq[i] = seq[j] => i = j
      BY <2>1
    <3> QED
      BY <3>1, <3>2
  <2>3. ~(seq[j] < seq[i])
    <3>1. seq[j] < seq[i] => Cardinality(UpTo(S, seq[j])) < Cardinality(UpTo(S, seq[i]))
      BY <1>1, <2>1
    <3>2. seq[j] < seq[i] => j < i
      BY <2>1, <3>1
    <3> QED
      BY <3>2
  <2> QED
    BY <2>2, <2>3
<1>7. ToSet(seq) = S
  <2>1. \A x \in ToSet(seq) : x \in S
    BY <1>3, <1>4 DEF ToSet
  <2>2. ASSUME NEW x \in S
        PROVE  x \in ToSet(seq)
    <3> DEFINE i == Cardinality(UpTo(S, x))
    <3>1. i \in 1 .. n
      BY <1>1
    <3>2. seq[i] \in S /\ Cardinality(UpTo(S, seq[i])) = i
      BY <1>4, <3>1
    <3> HIDE DEF i
    <3>5. seq[i] < x => Cardinality(UpTo(S, seq[i])) < Cardinality(UpTo(S, x))
      BY <1>1, <3>2
    <3>6. x < seq[i] => Cardinality(UpTo(S, x)) < Cardinality(UpTo(S, seq[i]))
      BY <1>1, <3>2
    <3>3. ~(seq[i] < x) /\ ~(x < seq[i]) /\ seq[i] \in Int /\ x \in Int
      <4>1. Cardinality(UpTo(S, x)) = i /\ i \in Int
        BY <3>1 DEF i
      <4>2. ~(i < i)
        BY <4>1
      <4>3. seq[i] \in Int /\ x \in Int
        BY <1>1, <3>2
      <4> QED
        BY <3>2, <3>5, <3>6, <4>1, <4>2, <4>3
    <3>4. seq[i] = x
      BY <3>3
    <3> QED
      BY <1>3, <3>1, <3>4 DEF ToSet
  <2> QED
    BY <2>1, <2>2
<1> QED
  BY <1>5, <1>6, <1>7 DEF n, seq

-----------------------------------------------------------------------------
(* Sorted: the values of a sequence in order, as often as they occur.      *)
Before(seq, x) == {j \in DOMAIN seq : seq[j] < x}

UpToPlaces(seq, x) == {j \in DOMAIN seq : seq[j] <= x}

PlaceOf(seq, i, x) == Cardinality(Before(seq, x)) < i /\ Cardinality(UpToPlaces(seq, x)) >= i

LEMMA PlacesAreFinite ==
  ASSUME NEW seq \in Seq(Nat), NEW x
  PROVE  /\ IsFiniteSet(Before(seq, x)) /\ Cardinality(Before(seq, x)) \in 0 .. Len(seq)
         /\ IsFiniteSet(UpToPlaces(seq, x)) /\ Cardinality(UpToPlaces(seq, x)) \in 0 .. Len(seq)
         /\ (1 .. Len(seq) = UpToPlaces(seq, x) => Cardinality(UpToPlaces(seq, x)) = Len(seq))
<1>1. DOMAIN seq = 1 .. Len(seq) /\ Len(seq) \in Nat
  BY Elements
<1>2. IsFiniteSet(1 .. Len(seq)) /\ Cardinality(1 .. Len(seq)) = Len(seq)
  BY <1>1, FS_Interval
<1>3. ASSUME NEW P \in SUBSET (1 .. Len(seq))
      PROVE  IsFiniteSet(P) /\ Cardinality(P) \in 0 .. Len(seq)
  <2>1. IsFiniteSet(P) /\ Cardinality(P) <= Len(seq)
    BY <1>2, FS_Subset
  <2>2. Cardinality(P) \in Nat
    BY <2>1, FS_CardinalityType
  <2> QED
    BY <1>1, <2>1, <2>2
<1>4. Before(seq, x) \in SUBSET (1 .. Len(seq)) /\ UpToPlaces(seq, x) \in SUBSET (1 .. Len(seq))
  BY <1>1 DEF Before, UpToPlaces
<1> QED
  BY <1>2, <1>3, <1>4

LEMMA FewerBefore ==
  ASSUME NEW seq \in Seq(Nat), NEW x \in Nat, NEW y \in Nat, x < y
  PROVE  Cardinality(UpToPlaces(seq, x)) <= Cardinality(Before(seq, y))
<1>1. UpToPlaces(seq, x) \in SUBSET Before(seq, y)
  <2> SUFFICES ASSUME NEW j \in UpToPlaces(seq, x)
               PROVE  j \in Before(seq, y)
    OBVIOUS
  <2>1. j \in DOMAIN seq /\ seq[j] <= x /\ seq[j] \in Nat
    BY Elements DEF UpToPlaces
  <2>2. seq[j] < y
    BY <2>1
  <2> QED
    BY <2>1, <2>2 DEF Before
<1> QED
  BY <1>1, PlacesAreFinite, FS_Subset

LEMMA ValuesAreFinite ==
  ASSUME NEW T, NEW seq \in Seq(T)
  PROVE  ToSet(seq) \in SUBSET T /\ IsFiniteSet(ToSet(seq))
<1>1. DOMAIN seq = 1 .. Len(seq) /\ Len(seq) \in Nat /\ ToSet(seq) \in SUBSET T
  BY Elements
<1>2. seq \in Surjection(1 .. Len(seq), ToSet(seq))
  BY <1>1 DEF Surjection, ToSet
<1>3. IsFiniteSet(1 .. Len(seq))
  BY <1>1, FS_Interval
<1> QED
  BY <1>1, <1>2, <1>3, FS_Surjection

LEMMA PlaceTaken ==
  ASSUME NEW seq \in Seq(Nat), NEW i \in 1 .. Len(seq)
  PROVE  \E x \in ToSet(seq) : PlaceOf(seq, i, x)
<1> DEFINE S == ToSet(seq)
           reaches == {x \in S : Cardinality(UpToPlaces(seq, x)) >= i}
<1>1. /\ DOMAIN seq = 1 .. Len(seq) /\ Len(seq) \in Nat
      /\ \A j \in 1 .. Len(seq) : seq[j] \in S
  BY Elements
<1>2. S \in SUBSET Nat /\ IsFiniteSet(S)
  BY ValuesAreFinite
<1>3. \A j \in 1 .. Len(seq) : seq[j] \in Nat
  BY <1>1, <1>2
<1>4. reaches # {}
  <2>1. S # {}
    BY <1>1
  <2> HIDE DEF S
  <2>2. PICK m \in S : \A x \in S : x <= m
    BY <1>2, <2>1, GreatestInteger
  <2>3. 1 .. Len(seq) = UpToPlaces(seq, m)
    BY <1>1, <2>2 DEF UpToPlaces
  <2>4. Cardinality(UpToPlaces(seq, m)) = Len(seq)
    BY <2>3, PlacesAreFinite
  <2>5. Cardinality(UpToPlaces(seq, m)) >= i
    BY <1>1, <2>4
  <2> QED
    BY <2>5
<1>5. PICK x \in S : Cardinality(UpToPlaces(seq, x)) >= i /\ \A y \in reaches : x <= y
  <2>1. reaches \in SUBSET Nat
    BY <1>2
  <2>2. Min(reaches) \in reaches /\ \A y \in reaches : Min(reaches) <= y
    <3> HIDE DEF reaches
    <3> QED
      BY <1>4, <2>1, LeastNatural
  <2> QED
    BY <2>2
<1>6. ASSUME Cardinality(Before(seq, x)) >= i
      PROVE  FALSE
  <2> DEFINE below == {seq[j] : j \in Before(seq, x)}
  <2>1. Before(seq, x) # {} /\ below # {}
    <3>1. Cardinality(Before(seq, x)) # 0
      BY <1>6, PlacesAreFinite
    <3> QED
      BY <3>1, FS_EmptySet
  <2>2. below \in SUBSET S
    BY <1>1 DEF Before
  <2>3. below \in SUBSET Nat /\ IsFiniteSet(below)
    <3> HIDE DEF S, below
    <3> QED
      BY <1>2, <2>2, FS_Subset
  <2>4. PICK y \in below : \A v \in below : v <= y
    <3> HIDE DEF below
    <3> QED
      BY <2>1, <2>3, GreatestInteger
  <2>5. y \in S /\ y \in Nat /\ y < x /\ x \in Nat
    BY <1>2, <2>2, <2>3 DEF Before
  <2>6. Before(seq, x) \in SUBSET UpToPlaces(seq, y)
    BY <2>4 DEF Before, UpToPlaces
  <2>7. Cardinality(Before(seq, x)) <= Cardinality(UpToPlaces(seq, y))
    BY <2>6, PlacesAreFinite, FS_Subset
  <2>8. Cardinality(UpToPlaces(seq, y)) >= i
    <3>1. /\ Cardinality(UpToPlaces(seq, y)) \in Nat /\ Cardinality(Before(seq, x)) \in Nat
      BY PlacesAreFinite
    <3> QED
      BY <1>6, <2>7, <3>1
  <2>9. y \in reaches
    BY <2>5, <2>8
  <2>10. x <= y
    BY <1>5, <2>9
  <2> QED
    BY <2>5, <2>10
<1>7. Cardinality(Before(seq, x)) \in Nat
  BY PlacesAreFinite
<1> QED
  BY <1>5, <1>6, <1>7 DEF PlaceOf

LEMMA SortedIs ==
  ASSUME NEW seq \in Seq(Nat)
  PROVE  /\ Sorted(seq) \in Seq(Nat) /\ Len(Sorted(seq)) = Len(seq)
         /\ NonDecreasing(Sorted(seq)) /\ ToSet(Sorted(seq)) = ToSet(seq)
<1> DEFINE S == ToSet(seq)
           n == Len(seq)
           sorted == Sorted(seq)
<1>1. /\ DOMAIN seq = 1 .. n /\ n \in Nat /\ S \in SUBSET Nat
      /\ \A j \in 1 .. n : seq[j] \in S
  BY Elements
<1>2. sorted = [i \in 1 .. n |-> CHOOSE x \in S : PlaceOf(seq, i, x)]
  BY <1>1 DEF Sorted, PlaceOf, Before, UpToPlaces
<1>3. DOMAIN sorted = 1 .. n
  BY <1>2
<1>4. \A i \in 1 .. n : sorted[i] \in S /\ sorted[i] \in Nat /\ PlaceOf(seq, i, sorted[i])
  <2> SUFFICES ASSUME NEW i \in 1 .. n
               PROVE  sorted[i] \in S /\ PlaceOf(seq, i, sorted[i])
    BY <1>1
  <2>1. \E x \in S : PlaceOf(seq, i, x)
    BY PlaceTaken
  <2>2. sorted[i] = CHOOSE x \in S : PlaceOf(seq, i, x)
    BY <1>2
  <2> QED
    BY <2>1, <2>2
<1> HIDE DEF S, n, sorted
<1>5. sorted \in Seq(Nat) /\ Len(sorted) = n
  <2>1. sorted \in [1 .. n -> Nat]
    <3>1. sorted = [i \in 1 .. n |-> sorted[i]]
      BY <1>2
    <3> QED
      BY <1>4, <3>1
  <2> QED
    BY <1>1, <2>1
(* Of two values the greater has the later places.                         *)
<1>6. ASSUME NEW x \in Nat, NEW y \in Nat, x < y, NEW i \in Nat, NEW j \in Nat,
             PlaceOf(seq, i, x), PlaceOf(seq, j, y)
      PROVE  i < j
  <2>1. Cardinality(UpToPlaces(seq, x)) <= Cardinality(Before(seq, y))
    BY <1>6, FewerBefore
  <2>2. Cardinality(UpToPlaces(seq, x)) \in Nat /\ Cardinality(Before(seq, y)) \in Nat
    BY PlacesAreFinite
  <2> QED
    BY <1>6, <2>1, <2>2 DEF PlaceOf
<1>7. NonDecreasing(sorted)
  <2> SUFFICES ASSUME NEW i \in 1 .. n, NEW j \in 1 .. n, i <= j
               PROVE  sorted[i] <= sorted[j]
    BY <1>3 DEF NonDecreasing
  <2>1. /\ sorted[i] \in Nat /\ PlaceOf(seq, i, sorted[i])
        /\ sorted[j] \in Nat /\ PlaceOf(seq, j, sorted[j])
    BY <1>4
  <2>2. sorted[j] < sorted[i] => j < i
    BY <1>6, <2>1
  <2> QED
    BY <2>1, <2>2
<1>8. ToSet(sorted) = S
  <2>1. \A x \in ToSet(sorted) : x \in S
    BY <1>3, <1>4 DEF ToSet
  <2>2. ASSUME NEW x \in S
        PROVE  x \in ToSet(sorted)
    <3> DEFINE i == Cardinality(Before(seq, x)) + 1
    <3>1. PICK k \in 1 .. n : seq[k] = x
      BY <1>1 DEF S, ToSet
    <3>2. x \in Nat
      BY <1>1
    <3>3. /\ Before(seq, x) \in SUBSET UpToPlaces(seq, x)
          /\ k \in UpToPlaces(seq, x) /\ k \notin Before(seq, x)
      <4>1. ASSUME NEW j \in Before(seq, x)
            PROVE  j \in UpToPlaces(seq, x)
        <5>1. j \in DOMAIN seq /\ seq[j] < x /\ seq[j] \in Nat
          BY <1>1 DEF Before
        <5>2. seq[j] <= x
          BY <3>2, <5>1
        <5> QED
          BY <5>1, <5>2 DEF UpToPlaces
      <4>2. k \in UpToPlaces(seq, x) /\ k \notin Before(seq, x)
        BY <1>1, <3>1, <3>2 DEF UpToPlaces, Before
      <4> QED
        BY <4>1, <4>2
    <3>4. /\ IsFiniteSet(UpToPlaces(seq, x)) /\ Cardinality(UpToPlaces(seq, x)) \in 0 .. n
          /\ Cardinality(Before(seq, x)) \in 0 .. n
      BY PlacesAreFinite DEF n
    <3>5. /\ Cardinality(Before(seq, x)) <= Cardinality(UpToPlaces(seq, x))
          /\ Cardinality(Before(seq, x)) # Cardinality(UpToPlaces(seq, x))
      BY <3>3, <3>4, FS_Subset
    <3>6. i \in 1 .. n /\ PlaceOf(seq, i, x)
      BY <1>1, <3>4, <3>5 DEF PlaceOf
    <3> HIDE DEF i
    <3>7. sorted[i] \in Nat /\ PlaceOf(seq, i, sorted[i])
      BY <1>4, <3>6
    <3>8. i \in Nat /\ ~(i < i)
      BY <3>6
    <3>9. ~(sorted[i] < x) /\ ~(x < sorted[i])
      BY <1>6, <3>2, <3>6, <3>7, <3>8
    <3>10. sorted[i] = x
      BY <3>2, <3>7, <3>9
    <3> QED
      BY <1>3, <3>6, <3>10 DEF ToSet
  <2> QED
    BY <2>1, <2>2
<1> QED
  BY <1>5, <1>7, <1>8 DEF S, n, sorted

-----------------------------------------------------------------------------
(* What setup has made of an accepted definition (job.go:299-686).         *)
DailyDefinitions ==
  [kind : {"daily"}, interval : Nat, atTimes : NonEmptySeq(Nat), policy : Policies]

WeeklyDefinitions ==
  [kind : {"weekly"}, interval : Nat, days : NonEmptySeq(0 .. 6),
   atTimes : NonEmptySeq(Nat), policy : Policies]

MonthlyDefinitions ==
  [kind : {"monthly"}, interval : Nat, days : NonEmptySeq(Int),
   atTimes : NonEmptySeq(Nat), policy : Policies]

CronDefinitions ==
  [kind : {"cron"}, days : SUBSET (0 .. 6), units : SUBSET (0 .. Units - 1), policy : Policies,
   location : ZoneType \cup {None}]

OneTimeDefinitions ==
  [kind : {"oneTime"}, times : Seq(Nat), startImmediately : BOOLEAN]

LEMMA DefinitionKinds ==
  ASSUME NEW d \in DefinitionType
  PROVE  /\ d.kind = "daily" => d \in DailyDefinitions
         /\ d.kind = "weekly" => d \in WeeklyDefinitions
         /\ d.kind = "monthly" => d \in MonthlyDefinitions
         /\ d.kind = "cron" => d \in CronDefinitions
         /\ d.kind = "oneTime" => d \in OneTimeDefinitions
         /\ d.kind \in {"cron", "daily", "weekly", "monthly", "oneTime"}
  BY DEF DefinitionType, DailyDefinitions, WeeklyDefinitions, MonthlyDefinitions,
         CronDefinitions, OneTimeDefinitions

LEMMA SortedWithin ==
  ASSUME NEW seq \in NonEmptySeq(Nat), NEW S \in SUBSET Nat, ToSet(seq) \in SUBSET S
  PROVE  /\ Sorted(seq) \in Seq(S) /\ NonDecreasing(Sorted(seq))
         /\ ToSet(Sorted(seq)) = ToSet(seq) /\ ToSet(seq) # {}
<1>1. seq \in Seq(Nat) /\ seq # <<>>
  BY DEF NonEmptySeq
<1>2. /\ Sorted(seq) \in Seq(Nat) /\ NonDecreasing(Sorted(seq))
      /\ ToSet(Sorted(seq)) = ToSet(seq)
  BY <1>1, SortedIs
<1>3. ToSet(seq) # {}
  <2>1. Len(seq) # 0 /\ Len(seq) \in Nat
    BY <1>1
  <2>2. seq[1] \in ToSet(seq)
    BY <1>1, <2>1, Elements
  <2> QED
    BY <2>2
<1>4. Sorted(seq) \in Seq(S)
  <2> DEFINE sorted == Sorted(seq)
  <2>1. sorted \in Seq(Nat) /\ ToSet(sorted) \in SUBSET S
    BY <1>2
  <2> HIDE DEF sorted
  <2>2. \A i \in 1 .. Len(sorted) : sorted[i] \in S
    BY <2>1, Elements
  <2>3. /\ DOMAIN sorted = 1 .. Len(sorted) /\ Len(sorted) \in Nat
        /\ sorted = [i \in 1 .. Len(sorted) |-> sorted[i]]
    BY <2>1
  <2>4. sorted \in [1 .. Len(sorted) -> S]
    BY <2>2, <2>3
  <2>5. sorted \in Seq(S)
    BY <2>3, <2>4
  <2> QED
    BY <2>5 DEF sorted
<1> QED
  BY <1>2, <1>3, <1>4

LEMMA DailySetUp ==
  ASSUME NEW z, NEW d \in DefinitionType, NEW now, d.kind = "daily", Accepted(z, d, now)
  PROVE  SetUpTimes(Setup(d, now), d) /\ Setup(d, now).kind = "daily"
<1>1. d \in DailyDefinitions
  BY DefinitionKinds
<1>2. /\ d.interval \in Nat /\ d.policy \in Policies /\ d.atTimes \in NonEmptySeq(Nat)
      /\ d.interval > 0 /\ \A at \in ToSet(d.atTimes) : at < Units
  BY <1>1 DEF Accepted, DailyDefinitions
<1>3. ToSet(d.atTimes) \in SUBSET (0 .. Units - 1)
  <2>1. \A at \in ToSet(d.atTimes) : at \in Nat
    BY <1>2, Elements DEF NonEmptySeq
  <2> QED
    BY <1>2, <2>1, ConstantAssumption
<1>4. /\ Setup(d, now).policy = d.policy /\ Setup(d, now).interval = d.interval
      /\ Setup(d, now).atTimes = Sorted(d.atTimes) /\ Setup(d, now).kind = "daily"
  BY <1>1 DEF Setup, DailyDefinitions
<1>5. 0 .. Units - 1 \in SUBSET Nat
  OBVIOUS
<1>6. /\ Sorted(d.atTimes) \in Seq(0 .. Units - 1) /\ NonDecreasing(Sorted(d.atTimes))
      /\ ToSet(Sorted(d.atTimes)) = ToSet(d.atTimes) /\ ToSet(d.atTimes) # {}
  BY <1>2, <1>3, <1>5, SortedWithin
<1> QED
  BY <1>2, <1>4, <1>6 DEF SetUpTimes

LEMMA WeeklySetUp ==
  ASSUME NEW z, NEW d \in DefinitionType, NEW now, d.kind = "weekly", Accepted(z, d, now)
  PROVE  /\ SetUpTimes(Setup(d, now), d) /\ SetUpWeekdays(Setup(d, now), d)
         /\ Setup(d, now).kind = "weekly"
<1>1. d \in WeeklyDefinitions
  BY DefinitionKinds
<1>2. /\ d.interval \in Nat /\ d.policy \in Policies /\ d.atTimes \in NonEmptySeq(Nat)
      /\ d.interval > 0 /\ \A at \in ToSet(d.atTimes) : at < Units
      /\ d.days \in NonEmptySeq(0 .. 6)
  BY <1>1 DEF Accepted, WeeklyDefinitions
<1>3. ToSet(d.atTimes) \in SUBSET (0 .. Units - 1) /\ ToSet(d.days) \in SUBSET (0 .. 6)
  <2>1. \A at \in ToSet(d.atTimes) : at \in Nat
    BY <1>2, Elements DEF NonEmptySeq
  <2>2. ToSet(d.days) \in SUBSET (0 .. 6)
    BY <1>2, Elements DEF NonEmptySeq
  <2> QED
    BY <1>2, <2>1, <2>2, ConstantAssumption
<1>4. /\ Setup(d, now).policy = d.policy /\ Setup(d, now).interval = d.interval
      /\ Setup(d, now).atTimes = Sorted(d.atTimes) /\ Setup(d, now).days = Sorted(d.days)
      /\ Setup(d, now).kind = "weekly"
  BY <1>1 DEF Setup, WeeklyDefinitions
<1>5. 0 .. Units - 1 \in SUBSET Nat /\ 0 .. 6 \in SUBSET Nat
  OBVIOUS
<1>6. d.days \in NonEmptySeq(Nat)
  <2> DEFINE q == d.days
  <2>1. q \in Seq(0 .. 6) /\ q # <<>>
    BY <1>2 DEF NonEmptySeq
  <2> HIDE DEF q
  <2>2. /\ Len(q) \in Nat /\ q = [i \in 1 .. Len(q) |-> q[i]]
        /\ \A i \in 1 .. Len(q) : q[i] \in Nat
    BY <1>5, <2>1
  <2>3. q \in Seq(Nat)
    BY <2>2
  <2> QED
    BY <2>1, <2>3 DEF NonEmptySeq, q
<1>7. /\ Sorted(d.atTimes) \in Seq(0 .. Units - 1) /\ NonDecreasing(Sorted(d.atTimes))
      /\ ToSet(Sorted(d.atTimes)) = ToSet(d.atTimes) /\ ToSet(d.atTimes) # {}
  BY <1>2, <1>3, <1>5, SortedWithin
<1>8. /\ Sorted(d.days) \in Seq(0 .. 6) /\ NonDecreasing(Sorted(d.days))
      /\ ToSet(Sorted(d.days)) = ToSet(d.days) /\ ToSet(d.days) # {}
  BY <1>3, <1>5, <1>6, SortedWithin
<1> QED
  BY <1>2, <1>4, <1>7, <1>8 DEF SetUpTimes, SetUpWeekdays

-----------------------------------------------------------------------------
(* One-time jobs.                                                          *)
Later(S, last) == {t \in S : t > last}

LEMMA FutureTimesAre ==
  ASSUME NEW d \in OneTimeDefinitions, NEW now
  PROVE  /\ FutureTimes(d, now) \in Seq(Nat) /\ StrictlyAscending(FutureTimes(d, now))
         /\ ToSet(FutureTimes(d, now)) = Later(ToSet(d.times), now)
         /\ FutureTimes(d, now) = <<>> <=> Later(ToSet(d.times), now) = {}
<1> DEFINE S == Later(ToSet(d.times), now)
<1>1. d.times \in Seq(Nat)
  BY DEF OneTimeDefinitions
<1>2. ToSet(d.times) \in SUBSET Nat /\ IsFiniteSet(ToSet(d.times))
  BY <1>1, ValuesAreFinite
<1>3. S \in SUBSET ToSet(d.times)
  BY DEF Later
<1>4. S \in SUBSET Nat /\ IsFiniteSet(S)
  BY <1>2, <1>3, FS_Subset
<1>5. FutureTimes(d, now) = Ascending(S)
  BY DEF FutureTimes, Later
<1> HIDE DEF S
<1>6. /\ Ascending(S) \in Seq(Nat) /\ Len(Ascending(S)) = Cardinality(S)
      /\ StrictlyAscending(Ascending(S)) /\ ToSet(Ascending(S)) = S
  BY <1>4, AscendingIs
<1>7. Ascending(S) = <<>> <=> S = {}
  <2>1. Len(Ascending(S)) = 0 <=> S = {}
    BY <1>4, <1>6, FS_EmptySet
  <2> QED
    BY <1>6, <2>1
<1> QED
  BY <1>5, <1>6, <1>7 DEF S

LEMMA NextOneTimeIsLeast ==
  ASSUME NEW s, s.times \in Seq(Nat), StrictlyAscending(s.times), NEW last \in Nat
  PROVE  NextOneTime(s, last) = LeastOrZero(Later(ToSet(s.times), last))
<1> DEFINE times == s.times
           n == Len(times)
           notBefore == {i \in 1 .. n : times[i] >= last} \cup {n + 1}
           m == Min(notBefore)
           found == \E i \in 1 .. n : times[i] = last
           idx == m + IF found THEN 1 ELSE 0
           later == Later(ToSet(times), last)
<1>0. NextOneTime(s, last) = IF idx > n THEN Zero ELSE times[idx]
  BY DEF NextOneTime, SearchTimes
<1>1. /\ DOMAIN times = 1 .. n /\ n \in Nat /\ ToSet(times) \in SUBSET Nat
      /\ \A i \in 1 .. n : times[i] \in Nat /\ times[i] \in ToSet(times)
      /\ \A t \in ToSet(times) : \E i \in 1 .. n : t = times[i]
      /\ \A i, j \in 1 .. n : i < j => times[i] < times[j]
  BY Elements DEF ToSet, StrictlyAscending
<1> HIDE DEF times, n
<1>2. m \in notBefore /\ \A i \in notBefore : m <= i
  <2>1. notBefore \in SUBSET Nat /\ notBefore # {}
    BY <1>1
  <2> HIDE DEF notBefore
  <2> QED
    BY <2>1, LeastNatural
<1>3. m \in 1 .. n + 1 /\ (m \in 1 .. n => times[m] >= last)
  BY <1>1, <1>2
<1>4. \A i \in 1 .. n : i < m => times[i] < last
  BY <1>1, <1>2, <1>3
<1> HIDE DEF m, notBefore
<1>5. found => m \in 1 .. n /\ times[m] = last
  <2> SUFFICES ASSUME NEW i \in 1 .. n, times[i] = last
               PROVE  m \in 1 .. n /\ times[m] = last
    OBVIOUS
  <2>1. m <= i
    BY <1>1, <1>3, <1>4
  <2>2. m \in 1 .. n
    BY <1>1, <1>3, <2>1
  <2>3. m < i => times[m] < times[i]
    BY <1>1, <2>2
  <2> QED
    BY <1>1, <1>3, <2>1, <2>2, <2>3
<1>6. ~found => (m \in 1 .. n => times[m] > last)
  BY <1>1, <1>3
<1>7. /\ idx \in 1 .. n + 1
      /\ \A i \in 1 .. n : i < idx => times[i] <= last
      /\ idx \in 1 .. n => times[idx] > last
  <2>1. CASE found
    <3>1. idx = m + 1 /\ m \in 1 .. n /\ times[m] = last
      BY <1>5, <2>1
    <3>2. \A i \in 1 .. n : i < m + 1 => times[i] <= last
      <4> SUFFICES ASSUME NEW i \in 1 .. n, i < m + 1
                   PROVE  times[i] <= last
        OBVIOUS
      <4>1. i < m \/ i = m
        BY <3>1
      <4>2. CASE i < m
        BY <1>1, <1>4, <4>2
      <4>3. CASE i = m
        BY <3>1, <4>3
      <4> QED
        BY <4>1, <4>2, <4>3
    <3>3. m + 1 \in 1 .. n => times[m] < times[m + 1]
      BY <1>1, <3>1
    <3> HIDE DEF found
    <3> QED
      BY <1>1, <3>1, <3>2, <3>3
  <2>2. CASE ~found
    <3>1. idx = m
      BY <1>3, <2>2
    <3>2. \A i \in 1 .. n : i < m => times[i] <= last
      BY <1>1, <1>4
    <3> HIDE DEF found
    <3> QED
      BY <1>3, <1>6, <2>2, <3>1, <3>2
  <2> QED
    BY <2>1, <2>2
<1> HIDE DEF idx, found
<1>8. CASE idx > n
  <2>1. later = {}
    <3> SUFFICES ASSUME NEW t \in later
                 PROVE  FALSE
      OBVIOUS
    <3>1. PICK i \in 1 .. n : t = times[i] /\ t > last
      BY <1>1 DEF Later
    <3>2. times[i] <= last /\ times[i] \in Nat
      BY <1>1, <1>7, <1>8, <3>1
    <3> QED
      BY <3>1, <3>2
  <2> QED
    BY <1>0, <1>8, <2>1 DEF LeastOrZero, times
<1>9. CASE ~(idx > n)
  <2>1. idx \in 1 .. n /\ times[idx] > last /\ times[idx] \in ToSet(times)
    BY <1>1, <1>7, <1>9
  <2>2. times[idx] \in later
    BY <2>1 DEF Later
  <2>3. \A t \in later : times[idx] <= t
    <3> SUFFICES ASSUME NEW t \in later
                 PROVE  times[idx] <= t
      OBVIOUS
    <3>1. PICK i \in 1 .. n : t = times[i] /\ t > last
      BY <1>1 DEF Later
    <3>2. ~(i < idx) /\ times[i] \in Nat /\ times[idx] \in Nat
      BY <1>1, <1>7, <2>1, <3>1
    <3>3. idx < i => times[idx] < times[i]
      BY <1>1, <2>1
    <3> QED
      BY <1>7, <3>1, <3>2, <3>3
  <2>4. later \in SUBSET Int
    BY <1>1 DEF Later
  <2> HIDE DEF later
  <2>5. Min(later) = times[idx]
    BY <2>2, <2>3, <2>4, LeastIs
  <2> QED
    BY <1>0, <1>9, <2>2, <2>5 DEF LeastOrZero, later, times
<1> QED
  BY <1>8, <1>9

LEMMA OneTimeIsEarliest ==
  ASSUME NEW z, NEW d \in DefinitionType, d.kind = "oneTime", NEW now \in Nat, NEW last \in Nat,
         now <= last
  PROVE  /\ NextOneTime(Setup(d, now), last) = Earliest(z, d, last)
         /\ Earliest(z, d, last) = LeastOrZero(Later(ToSet(d.times), last))
<1> DEFINE s == Setup(d, now)
<1>1. d \in OneTimeDefinitions /\ s = [kind |-> "oneTime", times |-> FutureTimes(d, now)]
  BY DefinitionKinds DEF Setup
<1>2. /\ s.times \in Seq(Nat) /\ StrictlyAscending(s.times)
      /\ ToSet(s.times) = Later(ToSet(d.times), now)
  BY <1>1, FutureTimesAre
<1> HIDE DEF s
<1>3. NextOneTime(s, last) = LeastOrZero(Later(ToSet(s.times), last))
  BY <1>2, NextOneTimeIsLeast
<1>4. Later(Later(ToSet(d.times), now), last) = Later(ToSet(d.times), last)
  <2>1. \A t \in ToSet(d.times) : t \in Nat
    BY <1>1, Elements DEF OneTimeDefinitions
  <2> QED
    BY <2>1 DEF Later
<1>5. Due(z, d, last) = ToSet(d.times)
  BY DEF Due
<1>6. Earliest(z, d, last) = LeastOrZero({t \in Due(z, d, last) : t > last})
  BY EarliestIsLeast
<1> QED
  BY <1>2, <1>3, <1>4, <1>5, <1>6 DEF s, Later

-----------------------------------------------------------------------------
(* The readings a cron expression permits repeat every week.               *)
LEMMA PermitsWeekly ==
  ASSUME NEW s, NEW w \in Int, NEW n \in Int, Permits(s, w)
  PROVE  Permits(s, w + 7 * (Units * n))
<1> DEFINE day == w \div Units
           unit == w % Units
           later == day + 7 * n
<1>1. day \in Int /\ unit \in 0 .. Units - 1 /\ w = day * Units + unit
  BY UnitsAndDays
<1> HIDE DEF day, unit
<1>2. later \in Int
  BY <1>1
<1>3. w + 7 * (Units * n) = later * Units + unit
  BY <1>1, ConstantAssumption
<1>4. Weekday(later) = Weekday(day)
  BY <1>1 DEF Weekday
<1> HIDE DEF later
<1>5. (later * Units + unit) \div Units = later /\ (later * Units + unit) % Units = unit
  BY <1>1, <1>2, WallTime
<1> QED
  BY <1>3, <1>4, <1>5 DEF Permits, day, unit

Permitting(s) == \E w \in Int : Permits(s, w)

LEMMA PermittedInAWeek ==
  ASSUME NEW s, Permitting(s), NEW base \in Int
  PROVE  \E w \in base + 1 .. base + 7 * Units : Permits(s, w)
<1> DEFINE week == 7 * Units
<1>1. PICK w \in Int : Permits(s, w)
  BY DEF Permitting
<1>2. week \in Int /\ week > 0
  BY ConstantAssumption
<1> DEFINE away == w - (base + 1)
           n == away \div week
           rest == away % week
<1>3. away \in Int
  OBVIOUS
<1> HIDE DEF week, away
<1>4. n \in Int /\ rest \in 0 .. week - 1 /\ away = week * n + rest
  BY <1>2, <1>3
<1> HIDE DEF n, rest
<1>5. Permits(s, w + 7 * (Units * (-n)))
  BY <1>1, <1>4, PermitsWeekly
<1>6. 7 * (Units * (-n)) = -(week * n)
  BY <1>4, ConstantAssumption DEF week
<1>7. week * n \in Int
  BY <1>2, <1>4
<1>8. w + 7 * (Units * (-n)) = base + 1 + rest
  BY <1>4, <1>6, <1>7 DEF away
<1>9. base + 1 + rest \in base + 1 .. base + week
  BY <1>2, <1>4
<1> QED
  BY <1>5, <1>8, <1>9 DEF week

-----------------------------------------------------------------------------
(* The cron library: its search is long enough to find a reading even      *)
(* across a transition.                                                    *)
Window == Strides * 7 * Units

Readings(z, s, t) == {u \in t + 1 .. t + Window : Permits(s, WallOf(z, u))}

LEMMA WindowIsLong ==
  Window \in Nat /\ Window >= 14 * Units /\ Window = (7 * Strides) * Units
<1>1. (Strides - 2) * (7 * Units) >= 0
  BY ConstantAssumption
<1>2. (Strides - 2) * (7 * Units) = Strides * 7 * Units - 14 * Units
  BY ConstantAssumption
<1>3. Strides * 7 * Units \in Int /\ 14 * Units \in Int
  BY ConstantAssumption
<1>4. Strides * 7 * Units = (7 * Strides) * Units
  BY ConstantAssumption
<1>5. 14 * Units >= 0
  BY ConstantAssumption
<1> QED
  BY <1>1, <1>2, <1>3, <1>4, <1>5 DEF Window

LEMMA CronNextIs ==
  ASSUME NEW z, NEW s, NEW t \in Nat
  PROVE  /\ CronNext(z, s, t) = LeastOrZero(Readings(z, s, t))
         /\ Readings(z, s, t) \in SUBSET Nat
         /\ Readings(z, s, t) # {} =>
              /\ CronNext(z, s, t) \in Readings(z, s, t)
              /\ CronNext(z, s, t) # Zero
              /\ \A u \in Readings(z, s, t) : CronNext(z, s, t) <= u
<1> DEFINE R == Readings(z, s, t)
<1>1. CronNext(z, s, t) = LeastOrZero(R)
  BY DEF CronNext, Readings, LeastOrZero, Window
<1>2. \A u \in R : u \in Nat /\ u # Zero
  BY WindowIsLong DEF Readings
<1>3. R \in SUBSET Nat
  BY <1>2
<1>4. R # {} => Min(R) \in R /\ \A u \in R : Min(R) <= u
  <2> HIDE DEF R
  <2> QED
    BY <1>3, LeastNatural
<1> HIDE DEF R
<1>5. R # {} => CronNext(z, s, t) = Min(R)
  BY <1>1 DEF LeastOrZero
<1> QED
  BY <1>1, <1>2, <1>3, <1>4, <1>5 DEF R

LEMMA ReadAgain ==
  ASSUME NEW z \in ZoneType, NEW s, Permitting(s), NEW t \in Nat
  PROVE  /\ Readings(z, s, t) # {}
         /\ t >= z.at /\ Permits(s, WallOf(z, t)) => t + 7 * Units \in Readings(z, s, t)
<1>1. /\ z.at \in Nat /\ z.len \in Int /\ 7 * Units \in Int /\ 7 * Units > 0
      /\ 14 * Units = 7 * Units + 7 * Units
  BY ConstantAssumption DEF ZoneType
<1>2. ASSUME NEW u \in t + 1 .. t + 14 * Units, Permits(s, WallOf(z, u))
      PROVE  u \in Readings(z, s, t)
  BY <1>1, <1>2, WindowIsLong DEF Readings
<1> DEFINE week == 7 * Units
<1>3. ASSUME t + week >= z.at
      PROVE  Readings(z, s, t) # {}
  <2> DEFINE base == t + week + z.len
  <2>1. base \in Int
    BY <1>1
  <2>2. PICK w \in base + 1 .. base + week : Permits(s, w)
    <3> HIDE DEF base
    <3> QED
      BY <2>1, PermittedInAWeek
  <2> DEFINE u == w - z.len
  <2>3. u \in t + 1 .. t + 14 * Units /\ u >= z.at /\ u + z.len = w
    <3> HIDE DEF week
    <3>1. 14 * Units = week + week /\ week \in Int /\ week > 0
      BY <1>1 DEF week
    <3> QED
      BY <1>1, <1>3, <2>2, <3>1
  <2>4. WallOf(z, u) = w
    BY <1>1, <2>3 DEF WallOf
  <2> QED
    BY <1>2, <2>2, <2>3, <2>4
<1>4. ASSUME t + week < z.at
      PROVE  Readings(z, s, t) # {}
  <2>1. PICK w \in t + 1 .. t + 7 * Units : Permits(s, w)
    BY PermittedInAWeek
  <2>2. w \in t + 1 .. t + 14 * Units /\ w < z.at
    <3> HIDE DEF week
    <3>1. 14 * Units = week + week /\ week \in Int /\ week > 0 /\ week = 7 * Units
      BY <1>1 DEF week
    <3> QED
      BY <1>1, <1>4, <2>1, <3>1
  <2>3. WallOf(z, w) = w
    BY <2>2 DEF WallOf
  <2> QED
    BY <1>2, <2>1, <2>2, <2>3
<1>5. ASSUME t >= z.at, Permits(s, WallOf(z, t))
      PROVE  t + 7 * Units \in Readings(z, s, t)
  <2>1. WallOf(z, t) = t + z.len /\ WallOf(z, t) \in Int
    BY <1>1, <1>5 DEF WallOf
  <2>2. Permits(s, WallOf(z, t) + 7 * (Units * 1))
    BY <1>5, <2>1, PermitsWeekly
  <2>3. WallOf(z, t + 7 * Units) = WallOf(z, t) + 7 * (Units * 1)
    BY <1>1, <1>5, ConstantAssumption DEF WallOf
  <2>4. t + 7 * Units \in t + 1 .. t + 14 * Units
    BY <1>1
  <2> QED
    BY <1>2, <2>2, <2>3, <2>4
<1> QED
  BY <1>1, <1>3, <1>4, <1>5

-----------------------------------------------------------------------------
(* The days between two runs of a cron job, which a recursive function     *)
(* lists.                                                                  *)
BetweenStep(z, last, f, k) == AddDays(z, IF k = 1 THEN last ELSE f[k - 1], 1)

IsBetween(z, last, f, n) == f = [k \in 1 .. n |-> BetweenStep(z, last, f, k)]

LEMMA BetweenExists ==
  ASSUME NEW z, NEW last, NEW n \in Nat
  PROVE  \E f : IsBetween(z, last, f, n)
<1> DEFINE without == {m \in Nat : ~ \E f : IsBetween(z, last, f, m)}
<1>1. without = {}
  <2> SUFFICES ASSUME without # {}
               PROVE  FALSE
    OBVIOUS
  <2>1. PICK m \in without : \A i \in without : m <= i
    <3>1. without \in SUBSET Nat
      OBVIOUS
    <3> HIDE DEF without
    <3> QED
      BY <3>1, LeastNatural
  <2>2. m # 0
    <3> DEFINE f == [k \in 1 .. 0 |-> last]
    <3>1. f = [k \in 1 .. 0 |-> BetweenStep(z, last, f, k)]
      OBVIOUS
    <3>2. IsBetween(z, last, f, 0)
      BY <3>1 DEF IsBetween
    <3> QED
      BY <3>2
  <2>3. m - 1 \in Nat /\ m - 1 \notin without
    BY <2>1, <2>2
  <2>4. PICK f : IsBetween(z, last, f, m - 1)
    BY <2>3
  <2> DEFINE g == [k \in 1 .. m |-> IF k = m THEN BetweenStep(z, last, f, m) ELSE f[k]]
  <2>5. \A k \in 1 .. m : g[k] = BetweenStep(z, last, g, k)
    <3> SUFFICES ASSUME NEW k \in 1 .. m
                 PROVE  g[k] = BetweenStep(z, last, g, k)
      OBVIOUS
    <3>1. BetweenStep(z, last, g, k) = BetweenStep(z, last, f, k)
      <4>1. k # 1 => k - 1 \in 1 .. m /\ k - 1 # m
        OBVIOUS
      <4> QED
        BY <4>1 DEF BetweenStep
    <3>2. k # m => f[k] = BetweenStep(z, last, f, k)
      <4>1. k # m => k \in 1 .. m - 1
        BY <2>3
      <4> QED
        BY <2>4, <4>1 DEF IsBetween
    <3> QED
      BY <3>1, <3>2
  <2>6. IsBetween(z, last, g, m)
    <3>1. g = [k \in 1 .. m |-> g[k]]
      OBVIOUS
    <3> HIDE DEF g
    <3> QED
      BY <2>5, <3>1 DEF IsBetween
  <2> QED
    BY <2>6
<1> QED
  BY <1>1

LEMMA BetweenIs ==
  ASSUME NEW z, NEW last
  PROVE  IsBetween(z, last, Between(z, last), Strides * 7)
<1>1. Strides * 7 \in Nat
  BY ConstantAssumption
<1>2. \E f : IsBetween(z, last, f, Strides * 7)
  BY <1>1, BetweenExists
<1>3. Between(z, last) = CHOOSE f : IsBetween(z, last, f, Strides * 7)
  BY DEF Between, IsBetween, BetweenStep
<1> QED
  BY <1>2, <1>3

(* They are the days that follow, one after the other.                     *)
LEMMA BetweenDays ==
  ASSUME NEW z \in ZoneType, KeepsDays(z), NEW last \in Nat
  PROVE  \A k \in 1 .. Strides * 7 :
           Between(z, last)[k] \in Int /\ Day(z, Between(z, last)[k]) = Day(z, last) + k
<1> DEFINE n == Strides * 7
           f == Between(z, last)
           Good(k) == f[k] \in Int /\ Day(z, f[k]) = Day(z, last) + k
           bad == {k \in 1 .. n : ~Good(k)}
<1>0. n \in Nat
  BY ConstantAssumption
<1>1. IsBetween(z, last, f, n)
  BY BetweenIs
<1> HIDE DEF n, f
<1>2. \A k \in 1 .. n : f[k] = AddDays(z, IF k = 1 THEN last ELSE f[k - 1], 1)
  BY <1>1 DEF IsBetween, BetweenStep
<1>3. ASSUME NEW t \in Int
      PROVE  AddDays(z, t, 1) \in Int /\ Day(z, AddDays(z, t, 1)) = Day(z, t) + 1
  <2> DEFINE w == WallOf(z, t)
             d == w \div Units
             u == w % Units
  <2>1. w \in Int
    BY NotInTheGap
  <2> HIDE DEF w
  <2>2. d \in Int /\ u \in 0 .. Units - 1 /\ w = d * Units + u
    BY <2>1, UnitsAndDays
  <2> HIDE DEF d, u
  <2>3. w + 1 * Units = (d + 1) * Units + u /\ w + 1 * Units \in Int /\ d + 1 \in Int
    BY <2>1, <2>2, ConstantAssumption
  <2>4. (w + 1 * Units) \div Units = d + 1
    BY <2>2, <2>3, WallTime
  <2>5. AddDays(z, t, 1) = DateAt(z, w + 1 * Units)
    BY DEF AddDays, w
  <2>6. Day(z, DateAt(z, w + 1 * Units)) = d + 1 /\ DateAt(z, w + 1 * Units) \in Int
    BY <2>3, <2>4, DayOfDate, NotInTheGap
  <2>7. Day(z, t) = d
    BY DEF Day, d, w
  <2> QED
    BY <2>5, <2>6, <2>7
<1>4. bad = {}
  <2> SUFFICES ASSUME bad # {}
               PROVE  FALSE
    OBVIOUS
  <2>1. PICK k \in bad : \A i \in bad : k <= i
    <3>1. bad \in SUBSET Nat
      OBVIOUS
    <3> HIDE DEF bad
    <3> QED
      BY <3>1, LeastNatural
  <2>2. k \in 1 .. n /\ ~Good(k)
    BY <2>1
  <2>3. CASE k = 1
    <3>1. f[k] = AddDays(z, last, 1)
      BY <1>2, <2>2, <2>3
    <3>2. Good(k)
      BY <1>3, <2>3, <3>1
    <3> QED
      BY <2>2, <3>2
  <2>4. CASE k # 1
    <3>1. k - 1 \in 1 .. n /\ k - 1 < k
      BY <1>0, <2>2, <2>4
    <3>2. Good(k - 1)
      <4>1. k - 1 \notin bad
        BY <2>1, <2>2, <3>1
      <4> QED
        BY <3>1, <4>1
    <3>3. f[k] = AddDays(z, f[k - 1], 1)
      BY <1>2, <2>2, <2>4
    <3>4. f[k] \in Int /\ Day(z, f[k]) = Day(z, f[k - 1]) + 1
      BY <1>3, <3>2, <3>3
    <3>5. Day(z, last) \in Int
      BY DayIsInt
    <3>6. Good(k)
      BY <2>2, <3>2, <3>4, <3>5
    <3> QED
      BY <2>2, <3>6
  <2> QED
    BY <2>3, <2>4
<1> QED
  BY <1>4 DEF n, f

-----------------------------------------------------------------------------
(* The same reading twice is the clock put back.                           *)
LEMMA ReadTwice ==
  ASSUME NEW z \in ZoneType, KeepsDays(z), NEW t \in Nat, NEW u \in Nat, t < u,
         WallOf(z, t) = WallOf(z, u)
  PROVE  z.len < 0 /\ t < z.at /\ z.at <= u /\ u = t - z.len /\ -z.len <= Units
<1>1. z.len < 0 /\ t < z.at /\ z.at <= u /\ u = t - z.len
  BY DEF WallOf, ZoneType
<1> DEFINE before == z.at - 1
           after == z.at + z.len
           d == before \div Units
           e == after \div Units
           a == before % Units
           b == after % Units
<1>2. before \in Int /\ after \in Int /\ after <= before
  BY <1>1 DEF ZoneType
<1>3. Day(z, z.at - 1) = d /\ Day(z, z.at) = e
  BY <1>1, <1>2 DEF Day, WallOf, ZoneType
<1> HIDE DEF before, after
<1>4. d <= e /\ e <= d
  BY <1>2, <1>3, LaterDayLaterWall DEF KeepsDays
<1>5. /\ d \in Int /\ a \in 0 .. Units - 1 /\ before = d * Units + a
      /\ e \in Int /\ b \in 0 .. Units - 1 /\ after = e * Units + b
  BY <1>2, UnitsAndDays
<1> HIDE DEF d, e, a, b
<1>6. d = e /\ d * Units \in Int
  BY <1>4, <1>5, ConstantAssumption
<1>7. before - after <= Units - 1
  BY <1>5, <1>6, ConstantAssumption
<1> QED
  BY <1>1, <1>7, ConstantAssumption DEF before, after, ZoneType

(* A set time in a gap, for a cron job that makes up for it.               *)
GapTimes(z, d) ==
  {t \in z.at .. z.at + z.len - 1 : d.policy = "after" /\ Permits(d, t)}

LEMMA DueByCronIs ==
  ASSUME NEW z, NEW d, NEW last
  PROVE  DueByCron(z, d, last) =
           {t \in Readings(z, d, last) : WallOf(z, t) # WallOf(z, last)} \cup GapTimes(z, d)
  BY DEF DueByCron, Readings, GapTimes, Window

(* What is made up for on a day.                                           *)
LEMMA MadeUpIs ==
  ASSUME NEW z \in ZoneType, KeepsDays(z), NEW s, NEW last, NEW next \in Int, NEW day \in Int
  PROVE  LET wall == Day(z, day) * Units + Unit(z, next)
         IN  /\ MadeUp(z, s, last, next, day) =
                  IF /\ wall \in z.at .. z.at + z.len - 1 /\ Permits(s, wall)
                     /\ wall > last /\ wall < next
                  THEN wall ELSE Zero
             /\ wall \in Int
<1> DEFINE wall == Day(z, day) * Units + Unit(z, next)
<1>1. Day(z, day) \in Int /\ Unit(z, next) \in 0 .. Units - 1
  <2>1. WallOf(z, next) \in Int
    BY NotInTheGap
  <2> QED
    BY <2>1, DayIsInt, UnitsAndDays DEF Unit
<1>2. wall \in Int
  BY <1>1, WallTime
<1>3. Exists(z, wall) <=> wall \notin z.at .. z.at + z.len - 1
  BY <1>2, NotInTheGap
<1>4. ~Exists(z, wall) => RunAfterTransition(z, DateAt(z, wall), Unit(z, next)) = wall
  BY <1>1, RunAfterTransitionInTheGap
<1> QED
  BY <1>2, <1>3, <1>4 DEF MadeUp

(* The one set time in the gap.                                            *)
LEMMA TheGapTime ==
  ASSUME NEW z \in ZoneType, KeepsDays(z), NEW d \in CronDefinitions,
         Cardinality(d.units) = 1, NEW t \in GapTimes(z, d)
  PROVE  /\ d.policy = "after" /\ z.len > 0 /\ t \in Nat
         /\ t = Day(z, z.at) * Units + (t % Units) /\ d.units = {t % Units}
         /\ Day(z, t) = Day(z, z.at) /\ t % Units \in 0 .. Units - 1
<1>1. /\ t \in z.at .. z.at + z.len - 1 /\ d.policy = "after" /\ Permits(d, t)
      /\ z.at \in Nat /\ z.len \in Int
  BY DEF GapTimes, ZoneType
<1>2. t \in Nat /\ z.len > 0
  BY <1>1
<1>3. ~Exists(z, t)
  BY <1>1, <1>2, NotInTheGap
<1>4. t \div Units = Day(z, z.at)
  BY <1>2, <1>3, OneDayOfTheGap
<1>5. t = (t \div Units) * Units + (t % Units) /\ t % Units \in 0 .. Units - 1
  BY <1>2, UnitsAndDays
<1>6. Day(z, t) = t \div Units
  BY <1>1 DEF KeepsDays
<1>7. IsFiniteSet(d.units)
  <2>1. IsFiniteSet(0 .. Units - 1)
    BY FS_Interval, ConstantAssumption
  <2> QED
    BY <2>1, FS_Subset DEF CronDefinitions
<1>8. \E x : d.units = {x}
  BY <1>7, FS_Singleton
<1>9. t % Units \in d.units
  BY <1>1 DEF Permits
<1> QED
  BY <1>1, <1>2, <1>4, <1>5, <1>6, <1>8, <1>9

(* The times made up for.                                                  *)
MadeUps(z, s, last, next) ==
  [k \in {i \in 1 .. Strides * 7 : Between(z, last)[i] < next} |->
     MadeUp(z, s, last, next, Between(z, last)[k])]

LEMMA MadeUpsAreGapTimes ==
  ASSUME NEW z \in ZoneType, KeepsDays(z), NEW d, d.policy = "after",
         NEW last \in Nat, NEW next \in Int,
         NEW k \in DOMAIN MadeUps(z, d, last, next), MadeUps(z, d, last, next)[k] # Zero
  PROVE  /\ MadeUps(z, d, last, next)[k] \in GapTimes(z, d)
         /\ MadeUps(z, d, last, next)[k] > last /\ MadeUps(z, d, last, next)[k] < next
<1>1. Between(z, last)[k] \in Int
  BY BetweenDays DEF MadeUps
<1>2. MadeUps(z, d, last, next)[k] = MadeUp(z, d, last, next, Between(z, last)[k])
  BY DEF MadeUps
<1> QED
  BY <1>1, <1>2, MadeUpIs DEF GapTimes

(* It is made up for on its day.                                           *)
LEMMA GapTimeIsMadeUp ==
  ASSUME NEW z \in ZoneType, KeepsDays(z), NEW d \in CronDefinitions,
         Cardinality(d.units) = 1, NEW last \in Nat, Day(z, last) # Day(z, z.at),
         NEW next \in Nat, next <= last + Window, Permits(d, WallOf(z, next)),
         NEW t \in GapTimes(z, d), t > last, t < next
  PROVE  \E k \in DOMAIN MadeUps(z, d, last, next) : MadeUps(z, d, last, next)[k] = t
<1> DEFINE g == Day(z, z.at)
           v == t % Units
           today == Day(z, last)
           k == g - today
           f == Between(z, last)
<1>1. /\ z.len > 0 /\ t \in Nat /\ t = g * Units + v /\ d.units = {v}
      /\ Day(z, t) = g /\ v \in 0 .. Units - 1
      /\ t \in z.at .. z.at + z.len - 1 /\ Permits(d, t)
      /\ z.at \in Nat /\ z.len \in Int
  BY TheGapTime DEF GapTimes, ZoneType
<1>2. g \in Int /\ today \in Int
  BY <1>1, DayIsInt
<1>3. today < g
  <2>1. Day(z, last) <= Day(z, t)
    BY <1>1, DaysInOrder
  <2> QED
    BY <1>1, <1>2, <2>1
<1>4. last < z.at
  BY <1>1, <1>2, <1>3, LaterDayLater
<1> HIDE DEF v
<1>5. k \in 1 .. Strides * 7
  <2> DEFINE u == last % Units
             n == 7 * Strides
  <2>1. today = last \div Units
    BY <1>4 DEF Day, WallOf
  <2>2. last = today * Units + u /\ u \in 0 .. Units - 1
    BY <2>1, UnitsAndDays
  <2> HIDE DEF u, today
  <2>3. n \in Int /\ last + Window = (today + n) * Units + u
    BY <1>2, <2>2, WindowIsLong, ConstantAssumption
  <2>4. (last + Window) \div Units = today + n
    BY <1>2, <2>2, <2>3, WallTime
  <2>5. t <= last + Window /\ t \in Int /\ last + Window \in Int
    BY <1>1, WindowIsLong
  <2>6. t \div Units = g
    BY <1>1, <1>2, WallTime
  <2>7. g <= today + n
    BY <2>4, <2>5, <2>6, LaterDayLaterWall
  <2>8. n = Strides * 7
    BY ConstantAssumption
  <2> QED
    BY <1>2, <1>3, <2>3, <2>7, <2>8
<1>6. f[k] \in Int /\ Day(z, f[k]) = g
  BY <1>2, <1>5, BetweenDays
<1>7. Unit(z, next) = v
  BY <1>1 DEF Permits, Unit
<1>8. g < Day(z, next)
  <2>1. g <= Day(z, next) /\ Day(z, next) \in Int
    BY <1>1, DaysInOrder, DayIsInt
  <2>2. Day(z, next) # g
    <3> SUFFICES ASSUME Day(z, next) = g
                 PROVE  FALSE
      OBVIOUS
    <3>1. WallOf(z, next) \in Int
      BY NotInTheGap
    <3>2. WallOf(z, next) = g * Units + v
      BY <1>7, <3>1, UnitsAndDays DEF Day, Unit
    <3>3. WallOf(z, next) = next + z.len
      BY <1>1 DEF WallOf
    <3> HIDE DEF g
    <3> QED
      BY <1>1, <3>2, <3>3
  <2> QED
    BY <1>2, <2>1, <2>2
<1>9. f[k] < next
  BY <1>6, <1>8, LaterDayLater
<1> HIDE DEF g, f, k
<1>10. MadeUp(z, d, last, next, f[k]) = t
  BY <1>1, <1>6, <1>7, MadeUpIs
<1> QED
  BY <1>5, <1>9, <1>10 DEF MadeUps, f

(* The made-up times come down to one.                                     *)
LEMMA FirstMadeUp ==
  ASSUME NEW z \in ZoneType, KeepsDays(z), NEW d \in CronDefinitions, d.policy = "after",
         NEW last \in Nat, NEW next \in Nat, next <= last + Window, Permits(d, WallOf(z, next)),
         GapKept(z, d, last)
  PROVE  LET madeUp == FirstNonZero(MadeUps(z, d, last, next))
             G == {t \in GapTimes(z, d) : last < t /\ t < next}
         IN  /\ G = {} => madeUp = Zero
             /\ G # {} => madeUp # Zero /\ G = {madeUp}
<1> DEFINE results == MadeUps(z, d, last, next)
           madeUp == FirstNonZero(results)
           G == {t \in GapTimes(z, d) : last < t /\ t < next}
<1>1. DOMAIN results \in SUBSET Nat
  BY DEF MadeUps
<1>2. \A k \in DOMAIN results : results[k] # Zero => results[k] \in G
  BY MadeUpsAreGapTimes
<1>3. \/ madeUp = Zero
      \/ \E k \in DOMAIN results : madeUp = results[k] /\ results[k] # Zero
  <2> HIDE DEF results
  <2> QED
    BY <1>1, FirstNonZeroIsOne
<1>4. madeUp = Zero \/ madeUp \in G
  BY <1>2, <1>3
<1>5. ASSUME NEW t \in G
      PROVE  madeUp # Zero /\ \A u \in G : u = t
  <2>1. z.len > 0
    BY <1>5 DEF GapTimes, ZoneType
  <2>2. Cardinality(d.units) = 1 /\ Day(z, last) # Day(z, z.at)
    BY <2>1 DEF GapKept
  <2>3. \A u \in G : /\ u = Day(z, z.at) * Units + (u % Units) /\ d.units = {u % Units}
    BY <2>2, TheGapTime
  <2>4. \A u \in G : u % Units = t % Units
    BY <2>3
  <2>5. \A u \in G : u = t
    BY <2>3, <2>4
  <2>6. PICK k \in DOMAIN results : results[k] = t
    BY <2>2, GapTimeIsMadeUp
  <2>7. t # Zero
    BY DEF GapTimes, ZoneType
  <2>8. madeUp # Zero
    <3> DEFINE good == {i \in DOMAIN results : results[i] # Zero}
    <3>1. k \in good /\ good \in SUBSET Nat
      BY <1>1, <2>6, <2>7
    <3>2. madeUp = results[Min(good)]
      BY <3>1 DEF FirstNonZero
    <3>3. Min(good) \in good
      <4> HIDE DEF good
      <4> QED
        BY <3>1, LeastNatural
    <3> QED
      BY <3>2, <3>3
  <2> QED
    BY <2>5, <2>8
<1> HIDE DEF results, madeUp, G
<1> QED
  BY <1>4, <1>5 DEF results, madeUp, G

(* In one zone: NextCron, by what was read and what was made up for.       *)
LEMMA NextCronIs ==
  ASSUME NEW z, NEW s, NEW last
  PROVE  LET next == CronNext(z, s, last)
             madeUp == FirstNonZero(MadeUps(z, s, last, next))
         IN  NextCron(z, z, s, last) =
               IF next # Zero /\ WallOf(z, last) = WallOf(z, next) THEN CronNext(z, s, next)
               ELSE IF next = Zero \/ s.policy # "after" \/ madeUp = Zero THEN next
               ELSE madeUp
  BY DEF NextCron, MadeUps

(* The clock was put back and shows the last run's reading again.          *)
LEMMA SecondReading ==
  ASSUME NEW z \in ZoneType, KeepsDays(z), NEW d, Permitting(d), NEW last \in Nat,
         WallOf(z, last) = WallOf(z, CronNext(z, d, last))
  PROVE  LET next == CronNext(z, d, last)
             result == CronNext(z, d, next)
         IN  /\ GapTimes(z, d) = {} /\ result > last /\ result # Zero
             /\ result \in DueByCron(z, d, last)
             /\ \A t \in DueByCron(z, d, last) : t > last => result <= t
<1> DEFINE next == CronNext(z, d, last)
           result == CronNext(z, d, next)
           R == Readings(z, d, last)
           again == Readings(z, d, next)
<1>0. z.at \in Nat /\ z.len \in Int /\ 7 * Units \in Nat /\ 14 * Units \in Nat
      /\ 14 * Units >= 7 * Units + Units
  BY ConstantAssumption DEF ZoneType
<1>1. R # {} /\ R \in SUBSET Nat
  BY ReadAgain, CronNextIs
<1>2. next \in R /\ next # Zero /\ \A u \in R : next <= u
  BY <1>1, CronNextIs
<1>3. next \in Nat /\ last < next /\ Permits(d, WallOf(z, next)) /\ next <= last + Window
  BY <1>1, <1>2 DEF Readings
<1>4. WallOf(z, last) = WallOf(z, next)
  OBVIOUS
<1> HIDE DEF next
<1>5. z.len < 0 /\ z.at <= next /\ next = last - z.len /\ -z.len <= Units
  BY <1>3, <1>4, ReadTwice
<1>6. next + 7 * Units \in again /\ again # {} /\ again \in SUBSET Nat
  BY <1>3, <1>5, ReadAgain, CronNextIs
<1>7. result \in again /\ result # Zero /\ \A u \in again : result <= u
  BY <1>3, <1>6, CronNextIs
<1> HIDE DEF result
<1>8. result \in Nat /\ next < result /\ result <= next + 7 * Units /\ Permits(d, WallOf(z, result))
  <2>1. result \in Nat /\ next < result /\ Permits(d, WallOf(z, result))
    <3>1. result \in Nat
      BY <1>6, <1>7
    <3>2. result \in next + 1 .. next + Window /\ Permits(d, WallOf(z, result))
      BY <1>7 DEF Readings
    <3> QED
      BY <1>3, <3>1, <3>2, WindowIsLong
  <2>2. result <= next + 7 * Units
    BY <1>6, <1>7
  <2> QED
    BY <2>1, <2>2
<1>9. result \in last + 1 .. last + Window
  <2>1. next <= last + Units /\ Window \in Nat /\ Window >= 14 * Units /\ Units \in Nat
    BY <1>0, <1>3, <1>5, WindowIsLong, ConstantAssumption
  <2> DEFINE week == 7 * Units
             two == 14 * Units
  <2>2. week \in Nat /\ two \in Nat /\ two >= week + Units /\ Window >= two
        /\ result <= next + week
    BY <1>0, <1>8, <2>1
  <2> HIDE DEF week, two
  <2> QED
    BY <1>3, <1>8, <2>1, <2>2
<1>10. WallOf(z, result) # WallOf(z, last)
  BY <1>0, <1>3, <1>4, <1>5, <1>8 DEF WallOf
<1>11. GapTimes(z, d) = {}
  BY <1>0, <1>5 DEF GapTimes
<1>12. result \in DueByCron(z, d, last)
  <2>1. result \in R
    BY <1>8, <1>9 DEF Readings
  <2> QED
    BY <1>10, <2>1, DueByCronIs
<1>13. ASSUME NEW t \in DueByCron(z, d, last), t > last
       PROVE  result <= t
  <2>1. t \in R /\ WallOf(z, t) # WallOf(z, last)
    BY <1>11, DueByCronIs
  <2>2. next <= t /\ t # next /\ t \in Nat
    BY <1>1, <1>2, <1>4, <2>1
  <2>3. t <= last + Window /\ Permits(d, WallOf(z, t))
    BY <2>1 DEF Readings
  <2>4. t \in next + 1 .. next + Window
    BY <1>3, <2>2, <2>3, WindowIsLong
  <2>5. t \in again
    BY <2>3, <2>4 DEF Readings
  <2> QED
    BY <1>7, <2>5
<1> HIDE DEF R, again
<1>14. result > last
  BY <1>3, <1>8
<1> QED
  BY <1>7, <1>11, <1>12, <1>13, <1>14 DEF next, result

(* Otherwise the reading found is the first that is due but for those in   *)
(* the gap.                                                                *)
LEMMA FirstReading ==
  ASSUME NEW z \in ZoneType, NEW d, Permitting(d), NEW last \in Nat
  PROVE  LET next == CronNext(z, d, last)
         IN  /\ next \in Nat /\ next # Zero /\ last < next /\ next <= last + Window
             /\ Permits(d, WallOf(z, next))
             /\ WallOf(z, last) # WallOf(z, next) => next \in DueByCron(z, d, last)
             /\ \A t \in DueByCron(z, d, last) :
                  t > last => next <= t \/ (t \in GapTimes(z, d) /\ t < next)
<1> DEFINE next == CronNext(z, d, last)
           R == Readings(z, d, last)
<1>1. R # {} /\ R \in SUBSET Nat
  BY ReadAgain, CronNextIs
<1>2. next \in R /\ next # Zero /\ \A u \in R : next <= u
  BY <1>1, CronNextIs
<1> HIDE DEF next
<1>3. next \in Nat /\ last < next /\ Permits(d, WallOf(z, next)) /\ next <= last + Window
  BY <1>1, <1>2 DEF Readings
<1>4. WallOf(z, last) # WallOf(z, next) => next \in DueByCron(z, d, last)
  BY <1>2, DueByCronIs
<1>5. ASSUME NEW t \in DueByCron(z, d, last), t > last
      PROVE  next <= t \/ (t \in GapTimes(z, d) /\ t < next)
  <2>1. t \in R \/ t \in GapTimes(z, d)
    BY DueByCronIs
  <2>2. t \in GapTimes(z, d) => t \in Int
    BY DEF GapTimes, ZoneType
  <2>3. CASE t \in R
    BY <1>2, <2>3
  <2>4. CASE t \in GapTimes(z, d)
    <3>1. t \in Int
      BY <2>2, <2>4
    <3>2. t < next \/ next <= t
      BY <1>3, <3>1
    <3> QED
      BY <2>4, <3>2
  <2> QED
    BY <2>1, <2>3, <2>4
<1> HIDE DEF R
<1> QED
  BY <1>2, <1>3, <1>4, <1>5 DEF next

(* Whatever the order, a cron job runs at one of its times.                *)
LEMMA CronRunsAtATime ==
  ASSUME NEW z \in ZoneType, KeepsDays(z), NEW d, Permitting(d), NEW last \in Nat
  PROVE  /\ NextCron(z, z, d, last) \in DueByCron(z, d, last)
         /\ NextCron(z, z, d, last) > last /\ NextCron(z, z, d, last) # Zero
<1> DEFINE next == CronNext(z, d, last)
           results == MadeUps(z, d, last, next)
           madeUp == FirstNonZero(results)
<1>1. /\ next \in Nat /\ next # Zero /\ last < next /\ next <= last + Window
      /\ WallOf(z, last) # WallOf(z, next) => next \in DueByCron(z, d, last)
  BY FirstReading
<1>2. NextCron(z, z, d, last) =
        IF next # Zero /\ WallOf(z, last) = WallOf(z, next) THEN CronNext(z, d, next)
        ELSE IF next = Zero \/ d.policy # "after" \/ madeUp = Zero THEN next
        ELSE madeUp
  BY NextCronIs
<1>3. CASE WallOf(z, last) = WallOf(z, next)
  BY <1>1, <1>2, <1>3, SecondReading
<1>4. CASE WallOf(z, last) # WallOf(z, next) /\ (d.policy # "after" \/ madeUp = Zero)
  <2> HIDE DEF next, madeUp
  <2> QED
    BY <1>1, <1>2, <1>4
<1>5. CASE WallOf(z, last) # WallOf(z, next) /\ d.policy = "after" /\ madeUp # Zero
  <2>1. DOMAIN results \in SUBSET Nat
    BY DEF MadeUps
  <2>2. PICK k \in DOMAIN results : madeUp = results[k] /\ results[k] # Zero
    <3> HIDE DEF results
    <3> QED
      BY <1>5, <2>1, FirstNonZeroIsOne
  <2> HIDE DEF next
  <2>3. results[k] \in GapTimes(z, d) /\ results[k] > last
    BY <1>1, <1>5, <2>2, MadeUpsAreGapTimes
  <2>4. results[k] \in DueByCron(z, d, last)
    BY <2>3, DueByCronIs
  <2>5. NextCron(z, z, d, last) = madeUp
    BY <1>1, <1>2, <1>5
  <2> HIDE DEF results, madeUp
  <2> QED
    BY <1>5, <2>2, <2>3, <2>4, <2>5
<1> QED
  BY <1>3, <1>4, <1>5

(* Where it has one set time in the gap and did not run on that day, it is *)
(* the first of them.                                                      *)
LEMMA CronIsEarliest ==
  ASSUME NEW z \in ZoneType, KeepsDays(z), NEW d \in CronDefinitions, Permitting(d),
         NEW last \in Nat, GapKept(z, d, last)
  PROVE  NextCron(z, z, d, last) = LeastOrZero({t \in DueByCron(z, d, last) : t > last})
<1> DEFINE next == CronNext(z, d, last)
           madeUp == FirstNonZero(MadeUps(z, d, last, next))
           G == {t \in GapTimes(z, d) : last < t /\ t < next}
           later == {t \in DueByCron(z, d, last) : t > last}
           result == NextCron(z, z, d, last)
<1>2. result \in DueByCron(z, d, last) /\ result > last /\ result # Zero
  BY CronRunsAtATime
<1>3. /\ next \in Nat /\ next # Zero /\ last < next /\ next <= last + Window
      /\ Permits(d, WallOf(z, next))
      /\ \A t \in DueByCron(z, d, last) :
           t > last => next <= t \/ (t \in GapTimes(z, d) /\ t < next)
  BY FirstReading
<1>4. result = IF next # Zero /\ WallOf(z, last) = WallOf(z, next) THEN CronNext(z, d, next)
               ELSE IF next = Zero \/ d.policy # "after" \/ madeUp = Zero THEN next
               ELSE madeUp
  BY NextCronIs
<1>5. \A t \in DueByCron(z, d, last) : t > last => result <= t
  <2>1. CASE WallOf(z, last) = WallOf(z, next)
    <3>1. result = CronNext(z, d, next)
      BY <1>3, <1>4, <2>1
    <3>2. \A t \in DueByCron(z, d, last) : t > last => CronNext(z, d, next) <= t
      BY <2>1, SecondReading
    <3> QED
      BY <3>1, <3>2
  <2>2. CASE WallOf(z, last) # WallOf(z, next) /\ G = {}
    <3>1. d.policy = "after" => madeUp = Zero
      <4> HIDE DEF next
      <4> QED
        BY <1>3, <2>2, FirstMadeUp
    <3> HIDE DEF madeUp, next
    <3>2. result = next
      BY <1>3, <1>4, <2>2, <3>1
    <3> HIDE DEF result
    <3> QED
      BY <1>3, <2>2, <3>2
  <2>3. CASE WallOf(z, last) # WallOf(z, next) /\ G # {}
    <3>1. d.policy = "after"
      BY <2>3 DEF GapTimes
    <3>2. madeUp # Zero /\ G = {madeUp}
      <4> HIDE DEF next
      <4> QED
        BY <1>3, <2>3, <3>1, FirstMadeUp
    <3>3. madeUp \in GapTimes(z, d) /\ madeUp < next /\ last < madeUp
      <4> HIDE DEF madeUp
      <4> QED
        BY <3>2
    <3>4. madeUp \in Int
      <4>1. \A t \in GapTimes(z, d) : t \in Int
        BY DEF GapTimes, ZoneType
      <4> QED
        BY <3>3, <4>1
    <3> HIDE DEF madeUp, next
    <3>5. result = madeUp
      BY <1>3, <1>4, <2>3, <3>1, <3>2
    <3> HIDE DEF result
    <3> SUFFICES ASSUME NEW t \in DueByCron(z, d, last), t > last
                 PROVE  madeUp <= t
      BY <3>5
    <3>6. CASE t \in GapTimes(z, d) /\ t < next
      <4>1. t \in G
        BY <3>6
      <4>2. t = madeUp
        <5> HIDE DEF G
        <5> QED
          BY <3>2, <4>1
      <4> QED
        BY <3>4, <4>2
    <3>7. CASE next <= t
      <4>1. t \in Int
        BY <1>3, DueByCronIs, CronNextIs DEF GapTimes, ZoneType
      <4> QED
        BY <1>3, <3>3, <3>4, <3>7, <4>1
    <3> QED
      BY <1>3, <3>6, <3>7
  <2> QED
    BY <2>1, <2>2, <2>3
<1> HIDE DEF result
<1>6. DueByCron(z, d, last) \in SUBSET Int
  BY DueByCronIs, CronNextIs DEF GapTimes, ZoneType
<1>7. result \in later /\ later \in SUBSET Int /\ \A t \in later : result <= t
  BY <1>2, <1>5, <1>6
<1> HIDE DEF later
<1>8. Min(later) = result
  BY <1>7, LeastIs
<1> QED
  BY <1>7, <1>8 DEF LeastOrZero, result, later

(* The zone of an expression is one, and a zone repeats its own readings.  *)
LEMMA LocationIsZone ==
  ASSUME NEW z \in ZoneType, NEW d \in DefinitionType
  PROVE  /\ Location(z, d) \in ZoneType
         /\ d.kind # "cron" => Location(z, d) = z /\ RepeatsAlike(z, Location(z, d))
<1>1. d.kind = "cron" => d.location \in ZoneType \cup {None}
  BY DefinitionKinds DEF CronDefinitions
<1> QED
  BY <1>1 DEF Location, RepeatsAlike

(* In whatever zones, there is a next run of an expression that permits    *)
(* some reading.                                                           *)
LEMMA NextCronIsOne ==
  ASSUME NEW z, NEW x \in ZoneType, NEW d, Permitting(d), NEW last \in Nat
  PROVE  NextCron(z, x, d, last) # Zero
<1> DEFINE next == CronNext(x, d, last)
<1>1. next \in Nat /\ next # Zero
  BY FirstReading
<1> HIDE DEF next
<1>2. CronNext(x, d, next) # Zero
  BY <1>1, FirstReading
<1> QED
  BY <1>1, <1>2 DEF NextCron, next

(* Where the scheduler's zone repeats what the expression's repeats, it    *)
(* makes no difference in which of them that is looked up.                 *)
LEMMA LookedUpAlike ==
  ASSUME NEW z \in ZoneType, NEW x \in ZoneType, RepeatsAlike(z, x), NEW d, NEW last \in Nat
  PROVE  NextCron(z, x, d, last) = NextCron(x, x, d, last)
<1> DEFINE next == CronNext(x, d, last)
<1>1. next \in Nat /\ (next # Zero => next > last)
  BY CronNextAfter DEF After
<1> HIDE DEF next
<1>2. next # Zero => (WallOf(z, last) = WallOf(z, next) <=> WallOf(x, last) = WallOf(x, next))
  <2>1. CASE z.at = x.at /\ z.len = x.len
    BY <2>1 DEF WallOf
  <2>2. CASE z.len >= 0 /\ x.len >= 0
    BY <1>1, <2>2 DEF WallOf, ZoneType
  <2> QED
    BY <2>1, <2>2 DEF RepeatsAlike
<1> QED
  BY <1>2 DEF NextCron, next

-----------------------------------------------------------------------------
(* Of two days to come a gap spares one.                                   *)
LEMMA OneOfTwoDays ==
  ASSUME NEW z \in ZoneType, KeepsDays(z), NEW policy \in Policies, NEW at \in 0 .. Units - 1,
         NEW last \in Nat, NEW day \in Int, NEW later \in Int, Day(z, last) < day, day < later
  PROVE  AtDate(z, policy, day, at) > last \/ AtDate(z, policy, later, at) > last
<1> DEFINE v == day * Units + at
           w == later * Units + at
<1>1. v \in Int /\ v \div Units = day /\ w \in Int /\ w \div Units = later
  BY WallTime
<1>2. Exists(z, v) \/ Exists(z, w)
  <2> HIDE DEF v, w
  <2>1. ~Exists(z, v) /\ ~Exists(z, w) => day = Day(z, z.at) /\ later = Day(z, z.at)
    BY <1>1, OneDayOfTheGap
  <2> QED
    BY <2>1
<1>3. Day(z, DateAt(z, v)) = day /\ Day(z, DateAt(z, w)) = later
      /\ DateAt(z, v) \in Int /\ DateAt(z, w) \in Int
  <2> HIDE DEF v, w
  <2> QED
    BY <1>1, DayOfDate, NotInTheGap
<1>4. /\ Exists(z, v) => AtDate(z, policy, day, at) = DateAt(z, v)
      /\ Exists(z, w) => AtDate(z, policy, later, at) = DateAt(z, w)
  BY AtDateIs
<1> HIDE DEF v, w
<1>5. Day(z, last) \in Int /\ last \in Int
  BY DayIsInt
<1>6. last < DateAt(z, v) /\ last < DateAt(z, w)
  <2>1. Day(z, last) < Day(z, DateAt(z, v)) /\ Day(z, last) < Day(z, DateAt(z, w))
    BY <1>3, <1>5
  <2> QED
    BY <1>3, <1>5, <2>1, LaterDayLater
<1> QED
  BY <1>2, <1>3, <1>4, <1>5, <1>6

LEMMA TimesToCome ==
  ASSUME NEW z \in ZoneType, KeepsDays(z), NEW d, d.policy \in Policies,
         ToSet(d.atTimes) \in SUBSET (0 .. Units - 1), ToSet(d.atTimes) # {}, NEW last \in Nat,
         NEW day \in Int, NEW later \in Int, Day(z, last) < day, day < later,
         day \in DueDays(z, d, last), later \in DueDays(z, d, last)
  PROVE  TimesDue(z, d, last) # {}
<1>1. PICK at \in ToSet(d.atTimes) : at \in 0 .. Units - 1
  OBVIOUS
<1>2. AtDate(z, d.policy, day, at) > last \/ AtDate(z, d.policy, later, at) > last
  BY <1>1, OneOfTwoDays
<1> QED
  BY <1>1, <1>2 DEF TimesDue, TimesOn

(* So daily and weekly jobs have a run to come.                            *)
LEMMA DailyToCome ==
  ASSUME NEW z \in ZoneType, KeepsDays(z), NEW s, NEW d, d.kind = "daily", SetUpTimes(s, d),
         NEW last \in Nat
  PROVE  TimesDue(z, d, last) # {}
<1> DEFINE today == Day(z, last)
<1>1. /\ d.policy \in Policies /\ ToSet(d.atTimes) \in SUBSET (0 .. Units - 1)
      /\ ToSet(d.atTimes) # {} /\ d.interval \in Nat \ {0}
  BY SetUpRegular DEF SetUpTimes
<1>2. today \in Int
  BY DayIsInt
<1>3. /\ today + 1 * d.interval \in DueDays(z, d, last)
      /\ today + 2 * d.interval \in DueDays(z, d, last)
  BY ConstantAssumption DEF DueDays
<1> HIDE DEF today
<1>4. /\ today + 1 * d.interval \in Int /\ today + 2 * d.interval \in Int
      /\ today < today + 1 * d.interval /\ today + 1 * d.interval < today + 2 * d.interval
  BY <1>1, <1>2
<1> QED
  BY <1>1, <1>3, <1>4, TimesToCome DEF today

LEMMA WeeklyToCome ==
  ASSUME NEW z \in ZoneType, KeepsDays(z), NEW s, NEW d, d.kind = "weekly", SetUpTimes(s, d),
         SetUpWeekdays(s, d), NEW last \in Nat
  PROVE  TimesDue(z, d, last) # {}
<1> DEFINE today == Day(z, last)
           week == today - Weekday(today)
           n == d.interval
           all == {week + 7 * k * n + wd : k \in 0 .. Strides, wd \in ToSet(d.days)}
<1>1. /\ d.policy \in Policies /\ ToSet(d.atTimes) \in SUBSET (0 .. Units - 1)
      /\ ToSet(d.atTimes) # {} /\ n \in Nat \ {0}
  BY SetUpRegular DEF SetUpTimes
<1>2. today \in Int
  BY DayIsInt
<1>3. DueDays(z, d, last) = {day \in all : day >= today}
  BY DEF DueDays
<1>4. PICK wd \in ToSet(d.days) : wd \in 0 .. 6
  BY Elements DEF SetUpWeekdays
<1> HIDE DEF today, n
<1>5. week \in Int /\ week <= today /\ today < week + 7
  BY <1>2, WeekBegins
<1>6. week + 7 * 1 * n + wd \in all /\ week + 7 * 2 * n + wd \in all
  <2>1. \A k \in 0 .. Strides : week + 7 * k * n + wd \in all
    BY <1>4
  <2>2. 1 \in 0 .. Strides /\ 2 \in 0 .. Strides
    BY ConstantAssumption
  <2> HIDE DEF all, week
  <2> QED
    BY <2>1, <2>2
<1> HIDE DEF week, all
<1> DEFINE day == week + 7 * 1 * n + wd
           later == week + 7 * 2 * n + wd
<1>7. day \in Int /\ later \in Int /\ today < day /\ day < later
  BY <1>1, <1>2, <1>4, <1>5
<1>8. day \in DueDays(z, d, last) /\ later \in DueDays(z, d, last)
  <2>1. day >= today /\ later >= today
    BY <1>2, <1>7
  <2> QED
    BY <1>3, <1>6, <2>1
<1> HIDE DEF day, later
<1> QED
  BY <1>1, <1>7, <1>8, TimesToCome DEF today

-----------------------------------------------------------------------------
(* A cron expression that setup accepts permits some reading.              *)
LEMMA CronSetUp ==
  ASSUME NEW z \in ZoneType, NEW d \in DefinitionType, NEW now \in Nat, d.kind = "cron",
         Accepted(z, d, now)
  PROVE  d \in CronDefinitions /\ Permitting(d) /\ Setup(d, now) = d
<1> DEFINE x == Location(z, d)
<1>1. CronNext(x, d, now) # Zero /\ x \in ZoneType
  BY LocationIsZone DEF Accepted
<1> HIDE DEF x
<1>2. PICK u \in Readings(x, d, now) : u \in Nat
  BY <1>1, CronNextIs DEF LeastOrZero
<1>3. Permits(d, WallOf(x, u)) /\ WallOf(x, u) \in Int
  BY <1>1, <1>2, NotInTheGap DEF Readings
<1> QED
  BY <1>3, DefinitionKinds DEF Permitting, Setup

-----------------------------------------------------------------------------
(* The calendar: the lengths of months.                                    *)
LEMMA MonthLengths ==
  /\ Months \in Nat \ {0}
  /\ \A m \in Int : m \div Months \in Int /\ m % Months \in 0 .. Months - 1
                    /\ m = Months * (m \div Months) + (m % Months)
  /\ \A m \in Int : MonthLen(m) \in Nat \ {0} /\ MonthLen(m) \in ToSet(Lengths)
<1>1. Months \in Nat \ {0}
  BY ConstantAssumption DEF Months
<1>2. \A m \in Int : m \div Months \in Int /\ m % Months \in 0 .. Months - 1
                     /\ m = Months * (m \div Months) + (m % Months)
  BY <1>1
<1>3. ASSUME NEW m \in Int
      PROVE  MonthLen(m) \in Nat \ {0} /\ MonthLen(m) \in ToSet(Lengths)
  <2> DEFINE i == (m % Months) + 1
  <2>1. i \in 1 .. Len(Lengths)
    <3>1. m % Months \in 0 .. Months - 1
      BY <1>2
    <3>2. i \in 1 .. Months
      BY <1>1, <3>1
    <3> HIDE DEF i
    <3> QED
      BY <3>2 DEF Months
  <2> HIDE DEF i
  <2>2. Lengths[i] \in Nat \ {0} /\ Lengths[i] \in ToSet(Lengths)
    <3>1. Lengths \in Seq(Nat \ {0})
      BY ConstantAssumption
    <3> QED
      BY <2>1, <3>1, Elements
  <2> QED
    BY <2>2 DEF MonthLen, i
<1> QED
  BY <1>1, <1>2, <1>3

LEMMA LongestIs ==
  Longest \in Nat \ {0} /\ \A m \in Int : MonthLen(m) <= Longest
<1> DEFINE S == ToSet(Lengths)
<1>1. /\ S \in SUBSET (Nat \ {0}) /\ IsFiniteSet(S)
  BY ValuesAreFinite, ConstantAssumption
<1>2. S # {}
  BY MonthLengths
<1> HIDE DEF S
<1>3. PICK m \in S : \A x \in S : x <= m
  <2>1. S \in SUBSET Int
    BY <1>1
  <2> QED
    BY <1>1, <1>2, <2>1, GreatestInteger
<1>4. \A x \in S : m >= x
  BY <1>1, <1>3
<1>5. Max(S) \in S /\ \A x \in S : Max(S) >= x
  BY <1>3, <1>4 DEF Max
<1>6. Longest = Max(S)
  BY DEF Longest, S
<1>7. \A m_1 \in Int : MonthLen(m_1) \in S
  BY MonthLengths DEF S
<1> QED
  BY <1>1, <1>5, <1>6, <1>7, MonthLengths

LEMMA ShorterFollowsLongest ==
  ASSUME NEW m \in Int
  PROVE  MonthLen(m) = Longest \/ MonthLen(m - 1) = Longest
<1> DEFINE r == m % Months
<1>1. Months \in Nat \ {0} /\ r \in 0 .. Months - 1 /\ m = Months * (m \div Months) + r
      /\ m \div Months \in Int
  BY MonthLengths
<1>2. CASE r # 0
  <2>1. r % Months = r /\ (r - 1) % Months = r - 1
    BY <1>1, <1>2
  <2>2. (m - 1) % Months = r - 1
    <3> DEFINE q == m \div Months
    <3>1. m - 1 = Months * q + (r - 1) /\ q \in Int
      BY <1>1
    <3> HIDE DEF q, r
    <3> QED
      BY <1>1, <1>2, <3>1
  <2>3. r \in 1 .. Months
    BY <1>1, <1>2
  <2> QED
    BY <2>1, <2>2, <2>3, LengthsAssumption DEF MonthLen
<1>3. CASE r = 0
  <2>1. Months % Months = 0 /\ (Months - 1) % Months = Months - 1
    BY <1>1
  <2>2. (m - 1) % Months = Months - 1
    <3> DEFINE q == m \div Months
    <3>1. m - 1 = Months * (q - 1) + (Months - 1) /\ q \in Int
      BY <1>1, <1>3
    <3> HIDE DEF q, r
    <3> QED
      BY <1>1, <3>1
  <2>3. Months \in 1 .. Months
    BY <1>1
  <2> QED
    BY <1>3, <2>1, <2>2, <2>3, LengthsAssumption DEF MonthLen
<1> QED
  BY <1>2, <1>3

(* The days of a year before a month, a recursive function.                *)
DaysBeforeStep(f, m) == IF m = 0 THEN 0 ELSE f[m - 1] + MonthLen(m - 1)

IsDaysBefore(f, n) == f = [m \in 0 .. n |-> DaysBeforeStep(f, m)]

LEMMA DaysBeforeExists ==
  ASSUME NEW n \in Nat
  PROVE  \E f : IsDaysBefore(f, n)
<1> DEFINE without == {m \in Nat : ~ \E f : IsDaysBefore(f, m)}
<1>1. without = {}
  <2> SUFFICES ASSUME without # {}
               PROVE  FALSE
    OBVIOUS
  <2>1. PICK m \in without : \A i \in without : m <= i
    <3>1. without \in SUBSET Nat
      OBVIOUS
    <3> HIDE DEF without
    <3> QED
      BY <3>1, LeastNatural
  <2>2. m # 0
    <3> DEFINE f == [k \in 0 .. 0 |-> 0]
    <3>1. f = [k \in 0 .. 0 |-> DaysBeforeStep(f, k)]
      BY DEF DaysBeforeStep
    <3>2. IsDaysBefore(f, 0)
      BY <3>1 DEF IsDaysBefore
    <3> QED
      BY <3>2
  <2>3. m - 1 \in Nat /\ m - 1 \notin without
    BY <2>1, <2>2
  <2>4. PICK f : IsDaysBefore(f, m - 1)
    BY <2>3
  <2> DEFINE g == [k \in 0 .. m |-> IF k = m THEN DaysBeforeStep(f, m) ELSE f[k]]
  <2>5. \A k \in 0 .. m : g[k] = DaysBeforeStep(g, k)
    <3> SUFFICES ASSUME NEW k \in 0 .. m
                 PROVE  g[k] = DaysBeforeStep(g, k)
      OBVIOUS
    <3>1. DaysBeforeStep(g, k) = DaysBeforeStep(f, k)
      <4>1. k # 0 => k - 1 \in 0 .. m /\ k - 1 # m
        OBVIOUS
      <4> QED
        BY <4>1 DEF DaysBeforeStep
    <3>2. k # m => f[k] = DaysBeforeStep(f, k)
      <4>1. k # m => k \in 0 .. m - 1
        BY <2>3
      <4> QED
        BY <2>4, <4>1 DEF IsDaysBefore
    <3> QED
      BY <3>1, <3>2
  <2>6. IsDaysBefore(g, m)
    <3>1. g = [k \in 0 .. m |-> g[k]]
      OBVIOUS
    <3> HIDE DEF g
    <3> QED
      BY <2>5, <3>1 DEF IsDaysBefore
  <2> QED
    BY <2>6
<1> QED
  BY <1>1

LEMMA DaysBeforeIs ==
  \A m \in 0 .. Months : DaysBefore[m] = IF m = 0 THEN 0 ELSE DaysBefore[m - 1] + MonthLen(m - 1)
<1>1. Months \in Nat
  BY MonthLengths
<1>2. \E f : IsDaysBefore(f, Months)
  BY <1>1, DaysBeforeExists
<1>3. DaysBefore = CHOOSE f : IsDaysBefore(f, Months)
  BY DEF DaysBefore, IsDaysBefore, DaysBeforeStep
<1>4. IsDaysBefore(DaysBefore, Months)
  BY <1>2, <1>3
<1>5. \A m \in 0 .. Months : DaysBefore[m] = DaysBeforeStep(DaysBefore, m)
  BY <1>4 DEF IsDaysBefore
<1> QED
  BY <1>5 DEF DaysBeforeStep

LEMMA DaysBeforeType ==
  /\ \A m \in 0 .. Months : DaysBefore[m] \in Nat
  /\ DaysBefore[0] = 0 /\ YearLen \in Nat \ {0}
<1> DEFINE bad == {m \in 0 .. Months : ~(DaysBefore[m] \in Nat)}
<1>0. Months \in Nat \ {0} /\ \A m \in 0 .. Months : MonthLen(m) \in Nat \ {0}
  BY MonthLengths
<1>1. bad = {}
  <2> SUFFICES ASSUME bad # {}
               PROVE  FALSE
    OBVIOUS
  <2>1. PICK m \in bad : \A i \in bad : m <= i
    <3>1. bad \in SUBSET Nat
      OBVIOUS
    <3> HIDE DEF bad
    <3> QED
      BY <3>1, LeastNatural
  <2>2. m # 0
    BY <2>1, DaysBeforeIs
  <2>3. m - 1 \in 0 .. Months /\ m - 1 \notin bad
    BY <1>0, <2>1, <2>2
  <2>4. DaysBefore[m] = DaysBefore[m - 1] + MonthLen(m - 1)
    BY <2>2, DaysBeforeIs
  <2>5. DaysBefore[m] \in Nat
    BY <1>0, <2>3, <2>4
  <2> QED
    BY <2>5
<1>2. \A m \in 0 .. Months : DaysBefore[m] \in Nat
  BY <1>1
<1>3. DaysBefore[0] = 0
  BY <1>0, DaysBeforeIs
<1>4. DaysBefore[Months] = DaysBefore[Months - 1] + MonthLen(Months - 1)
  BY <1>0, DaysBeforeIs
<1>5. YearLen \in Nat \ {0}
  BY <1>0, <1>2, <1>4 DEF YearLen
<1> QED
  BY <1>2, <1>3, <1>5

(* Each month begins where the one before ends.                            *)
LEMMA MonthStarts ==
  ASSUME NEW m \in Int
  PROVE  MonthStart(m) \in Int /\ MonthStart(m + 1) = MonthStart(m) + MonthLen(m)
<1> DEFINE q == m \div Months
           r == m % Months
<1>1. /\ Months \in Nat \ {0} /\ q \in Int /\ r \in 0 .. Months - 1 /\ m = Months * q + r
      /\ MonthLen(m) \in Nat
  BY MonthLengths
<1>2. /\ \A i \in 0 .. Months : DaysBefore[i] \in Nat
      /\ DaysBefore[0] = 0 /\ YearLen \in Nat /\ YearLen = DaysBefore[Months]
  BY DaysBeforeType DEF YearLen
<1>3. MonthStart(m) = YearLen * q + DaysBefore[r]
  BY DEF MonthStart
<1>4. MonthLen(r) = MonthLen(m)
  <2>1. r % Months = r
    BY <1>1
  <2> QED
    BY <2>1 DEF MonthLen
<1>5. r + 1 \in 0 .. Months /\ DaysBefore[r + 1] = DaysBefore[r] + MonthLen(m)
  <2>1. r + 1 \in 0 .. Months /\ r + 1 # 0 /\ (r + 1) - 1 = r
    BY <1>1
  <2> QED
    BY <1>4, <2>1, DaysBeforeIs
<1> HIDE DEF q, r
<1>6. YearLen * q \in Int /\ YearLen * (q + 1) = YearLen * q + YearLen
  BY <1>1, <1>2
<1>7. MonthStart(m) \in Int
  BY <1>1, <1>2, <1>3, <1>6
<1>8. CASE r # Months - 1
  <2>1. (m + 1) \div Months = q /\ (m + 1) % Months = r + 1
    BY <1>1, <1>8
  <2>2. MonthStart(m + 1) = YearLen * q + DaysBefore[r + 1]
    BY <2>1 DEF MonthStart
  <2> QED
    BY <1>1, <1>2, <1>3, <1>5, <1>6, <1>7, <2>2
<1>9. CASE r = Months - 1
  <2>1. (m + 1) \div Months = q + 1 /\ (m + 1) % Months = 0
    <3>1. m + 1 = Months * (q + 1) + 0 /\ q + 1 \in Int
      BY <1>1, <1>9
    <3> QED
      BY <1>1, <3>1
  <2>2. MonthStart(m + 1) = YearLen * (q + 1) + DaysBefore[0]
    BY <2>1 DEF MonthStart
  <2>3. DaysBefore[r + 1] = YearLen
    BY <1>1, <1>2, <1>9
  <2> QED
    BY <1>1, <1>2, <1>3, <1>5, <1>6, <1>7, <2>2, <2>3
<1> QED
  BY <1>7, <1>8, <1>9

(* Months follow one another.                                              *)
LEMMA MonthsInOrder ==
  ASSUME NEW m \in Int, NEW n \in Int, m < n
  PROVE  MonthStart(m + 1) <= MonthStart(n)
<1> DEFINE bad == {k \in Nat : ~(MonthStart(m + 1) <= MonthStart(m + 1 + k))}
<1>1. bad = {}
  <2> SUFFICES ASSUME bad # {}
               PROVE  FALSE
    OBVIOUS
  <2>1. PICK k \in bad : \A i \in bad : k <= i
    <3>1. bad \in SUBSET Nat
      OBVIOUS
    <3> HIDE DEF bad
    <3> QED
      BY <3>1, LeastNatural
  <2>2. k # 0
    <3>1. m + 1 + 0 = m + 1 /\ MonthStart(m + 1) \in Int
      BY MonthStarts
    <3>2. 0 \notin bad
      BY <3>1
    <3> HIDE DEF bad
    <3> QED
      BY <2>1, <3>2
  <2>3. k \in Nat /\ k - 1 \in Nat /\ k - 1 \notin bad
    <3>1. k \in Nat /\ k - 1 \in Nat
      BY <2>1, <2>2
    <3>2. ~(k <= k - 1)
      BY <3>1
    <3> HIDE DEF bad
    <3> QED
      BY <2>1, <3>1, <3>2
  <2>4. MonthStart(m + 1) <= MonthStart(m + 1 + (k - 1))
    BY <2>3
  <2> DEFINE n_1 == m + 1 + (k - 1)
  <2>5. n_1 \in Int /\ n_1 + 1 = m + 1 + k /\ m + 1 \in Int
    BY <2>3
  <2> HIDE DEF n_1
  <2>6. MonthStart(n_1 + 1) = MonthStart(n_1) + MonthLen(n_1) /\ MonthStart(n_1) \in Int
        /\ MonthLen(n_1) \in Nat
    BY <2>5, MonthStarts, MonthLengths
  <2>7. MonthStart(m + 1) \in Int
    BY <2>5, MonthStarts
  <2>8. MonthStart(m + 1) <= MonthStart(m + 1 + k)
    <3>1. MonthStart(m + 1) <= MonthStart(n_1)
      BY <2>4 DEF n_1
    <3>2. MonthStart(m + 1) <= MonthStart(n_1 + 1)
      BY <2>6, <2>7, <3>1
    <3> QED
      BY <2>5, <3>2
  <2> QED
    BY <2>1, <2>8
<1> DEFINE k == n - (m + 1)
<1>2. k \in Nat /\ m + 1 + k = n
  OBVIOUS
<1> HIDE DEF k
<1> QED
  BY <1>1, <1>2

(* Month is the month a day is in.                                         *)
InMonth(day, m) == MonthStart(m) <= day /\ day < MonthStart(m + 1)

LEMMA YearsBegin ==
  ASSUME NEW q \in Int
  PROVE  Months * q \in Int /\ MonthStart(Months * q) = YearLen * q
<1>1. Months \in Nat \ {0}
  BY MonthLengths
<1>2. Months * q \in Int /\ (Months * q) \div Months = q /\ (Months * q) % Months = 0
  <2>1. Months * q = Months * q + 0 /\ Months * q \in Int
    BY <1>1
  <2> QED
    BY <1>1, <2>1
<1>3. YearLen * q \in Int /\ DaysBefore[0] = 0
  BY DaysBeforeType
<1> QED
  BY <1>2, <1>3 DEF MonthStart

LEMMA MonthOfDay ==
  ASSUME NEW day \in Int
  PROVE  Month(day) \in Int /\ InMonth(day, Month(day))
<1> DEFINE q == day \div YearLen
           year == Months * q
           S == {m \in year .. year + Months - 1 : MonthStart(m) <= day}
<1>1. Months \in Nat \ {0} /\ YearLen \in Nat \ {0}
  BY MonthLengths, DaysBeforeType
<1>2. q \in Int /\ YearLen * q <= day /\ day < YearLen * (q + 1)
  BY <1>1
<1> HIDE DEF q
<1>3. /\ year \in Int /\ MonthStart(year) = YearLen * q
      /\ MonthStart(year + Months) = YearLen * (q + 1)
  <2>1. q + 1 \in Int /\ Months * (q + 1) = year + Months
    BY <1>1, <1>2
  <2>2. year \in Int /\ MonthStart(year) = YearLen * q
    BY <1>2, YearsBegin
  <2>3. MonthStart(Months * (q + 1)) = YearLen * (q + 1)
    BY <2>1, YearsBegin
  <2> QED
    BY <2>1, <2>2, <2>3
<1>4. Month(day) = Max(S)
  BY DEF Month, q
<1> HIDE DEF year
<1>5. S \in SUBSET Int /\ IsFiniteSet(S) /\ year \in S
  <2>1. IsFiniteSet(year .. year + Months - 1)
    BY <1>1, <1>3, FS_Interval
  <2>2. S \subseteq year .. year + Months - 1
    OBVIOUS
  <2>3. year \in year .. year + Months - 1
    BY <1>1, <1>3
  <2>4. S \in SUBSET Int
    BY <1>1, <1>3
  <2>5. MonthStart(year) <= day
    BY <1>2, <1>3
  <2>6. IsFiniteSet(S)
    <3> HIDE DEF S
    <3> QED
      BY <2>1, <2>2, FS_Subset
  <2> QED
    BY <2>3, <2>4, <2>5, <2>6
<1>6. PICK m \in S : \A x \in S : x <= m
  <2> HIDE DEF S
  <2> QED
    BY <1>5, GreatestInteger
<1>7. Max(S) = m
  <2> HIDE DEF S
  <2>1. \A x \in S : x \in Int
    BY <1>5
  <2>2. m \in S /\ \A x \in S : m >= x
    BY <1>6, <2>1
  <2>3. \A y \in S : (\A x \in S : y >= x) => y = m
    BY <1>6, <2>1, <2>2
  <2>4. Max(S) \in S /\ \A x \in S : Max(S) >= x
    BY <2>2 DEF Max
  <2> QED
    BY <2>3, <2>4
<1>8. m \in Int /\ m \in year .. year + Months - 1 /\ MonthStart(m) <= day
  BY <1>1, <1>3, <1>6
<1>9. day < MonthStart(m + 1)
  <2>1. CASE m + 1 \in year .. year + Months - 1
    <3>1. ~(m + 1 <= m)
      BY <1>8
    <3>2. m + 1 \notin S
      <4> HIDE DEF S
      <4> QED
        BY <1>6, <3>1
    <3>3. ~(MonthStart(m + 1) <= day)
      BY <2>1, <3>2
    <3>4. MonthStart(m + 1) \in Int
      <4>1. m + 1 \in Int
        BY <1>8
      <4> QED
        BY <4>1, MonthStarts
    <3> QED
      BY <3>3, <3>4
  <2>2. CASE m + 1 \notin year .. year + Months - 1
    <3>1. m + 1 = year + Months
      BY <1>1, <1>3, <1>8, <2>2
    <3> QED
      BY <1>2, <1>3, <3>1
  <2> QED
    BY <2>1, <2>2
<1> QED
  BY <1>4, <1>7, <1>8, <1>9 DEF InMonth

LEMMA MonthIs ==
  ASSUME NEW day \in Int, NEW m \in Int
  PROVE  Month(day) = m <=> InMonth(day, m)
<1>1. Month(day) \in Int /\ InMonth(day, Month(day))
  BY MonthOfDay
<1> DEFINE n == Month(day)
<1>2. n \in Int /\ InMonth(day, n)
  BY <1>1
<1>3. Month(day) = n
  OBVIOUS
<1> HIDE DEF n
<1>4. ASSUME InMonth(day, m) PROVE n = m
  <2>1. /\ MonthStart(m) \in Int /\ MonthStart(m + 1) \in Int
        /\ MonthStart(n) \in Int /\ MonthStart(n + 1) \in Int
    <3>1. m + 1 \in Int /\ n + 1 \in Int
      BY <1>2
    <3> QED
      BY <1>2, <3>1, MonthStarts
  <2>2. ~(n < m)
    <3> SUFFICES ASSUME n < m PROVE FALSE
      OBVIOUS
    <3>1. MonthStart(n + 1) <= MonthStart(m)
      BY <1>2, MonthsInOrder
    <3> QED
      BY <1>2, <1>4, <2>1, <3>1 DEF InMonth
  <2>3. ~(m < n)
    <3> SUFFICES ASSUME m < n PROVE FALSE
      OBVIOUS
    <3>1. MonthStart(m + 1) <= MonthStart(n)
      BY <1>2, MonthsInOrder
    <3> QED
      BY <1>2, <1>4, <2>1, <3>1 DEF InMonth
  <2> QED
    BY <1>2, <2>2, <2>3
<1> QED
  BY <1>2, <1>3, <1>4

LEMMA FirstOfMonth ==
  ASSUME NEW m \in Int
  PROVE  MonthStart(m) \in Int /\ Month(MonthStart(m)) = m /\ DayOfMonth(MonthStart(m)) = 1
<1>1. MonthStart(m) \in Int /\ MonthStart(m + 1) = MonthStart(m) + MonthLen(m)
      /\ MonthLen(m) \in Nat \ {0}
  BY MonthStarts, MonthLengths
<1>2. InMonth(MonthStart(m), m)
  BY <1>1 DEF InMonth
<1>3. Month(MonthStart(m)) = m
  BY <1>1, <1>2, MonthIs
<1> QED
  BY <1>1, <1>3 DEF DayOfMonth

-----------------------------------------------------------------------------
(* What setup has made of the days of a monthly job.                       *)
SetUpMonthdays(s, d) ==
  /\ ToSet(d.days) \in SUBSET (-Longest .. Longest \ {0})
  /\ s.days \in Seq(Nat) /\ ToSet(s.days) = {day \in ToSet(d.days) : day > 0}
  /\ s.daysFromEnd \in Seq(Int) /\ ToSet(s.daysFromEnd) = {day \in ToSet(d.days) : day < 0}

(* Counted from the end of a month, a day it does not have comes to a day  *)
(* of the month before, and that to one past its end.                      *)
LEMMA DayFromEnd ==
  ASSUME NEW m \in Int, NEW n \in -Longest .. -1
  PROVE  /\ DayOfMonth(MonthStart(m + 1) + n) \in Nat
         /\ InMonth(MonthStart(m + 1) + n, m) =>
              MonthStart(m) + DayOfMonth(MonthStart(m + 1) + n) - 1 = MonthStart(m + 1) + n
         /\ ~InMonth(MonthStart(m + 1) + n, m) =>
              ~InMonth(MonthStart(m) + DayOfMonth(MonthStart(m + 1) + n) - 1, m)
<1> DEFINE start == MonthStart(m)
           end == MonthStart(m + 1)
           day == end + n
<1>1. /\ start \in Int /\ end = start + MonthLen(m) /\ MonthLen(m) \in Nat \ {0}
      /\ Longest \in Nat \ {0} /\ MonthLen(m) <= Longest
  BY MonthStarts, MonthLengths, LongestIs
<1>2. /\ MonthStart(m - 1) \in Int /\ start = MonthStart(m - 1) + MonthLen(m - 1)
      /\ MonthLen(m - 1) \in Nat \ {0} /\ MonthLen(m - 1) <= Longest
  <2>1. m - 1 \in Int /\ (m - 1) + 1 = m
    OBVIOUS
  <2> QED
    BY <2>1, MonthStarts, MonthLengths, LongestIs
<1>3. InMonth(day, m) <=> start <= day /\ day < end
  BY DEF InMonth
<1>4. InMonth(start + DayOfMonth(day) - 1, m)
        <=> start <= start + DayOfMonth(day) - 1 /\ start + DayOfMonth(day) - 1 < end
  BY DEF InMonth
<1>5. Month(day) = m \/ Month(day) = m - 1 =>
        DayOfMonth(day) = day - MonthStart(Month(day)) + 1
  BY DEF DayOfMonth
<1>6. day \in Int /\ day < end
  BY <1>1
<1>7. CASE start <= day
  <2>1. InMonth(day, m)
    BY <1>3, <1>6, <1>7
  <2>2. Month(day) = m
    BY <1>6, <2>1, MonthIs
  <2>3. DayOfMonth(day) = day - start + 1
    BY <1>5, <2>2
  <2> HIDE DEF start, end, day
  <2>4. DayOfMonth(day) \in Nat /\ start + DayOfMonth(day) - 1 = day
    BY <1>1, <1>6, <1>7, <2>3
  <2> QED
    BY <2>1, <2>4 DEF start, end, day
<1>8. CASE ~(start <= day)
  <2>1. MonthLen(m) < Longest
    BY <1>1, <1>8
  <2>2. MonthLen(m - 1) = Longest
    <3>1. MonthLen(m) # Longest
      BY <1>1, <2>1
    <3> QED
      BY <3>1, ShorterFollowsLongest
  <2>3. InMonth(day, m - 1)
    <3>1. MonthStart(m - 1) <= day /\ day < start
      BY <1>1, <1>2, <1>8, <2>2
    <3>2. (m - 1) + 1 = m
      OBVIOUS
    <3> HIDE DEF day
    <3> QED
      BY <3>1, <3>2 DEF InMonth
  <2>4. Month(day) = m - 1
    <3>1. m - 1 \in Int
      OBVIOUS
    <3> QED
      BY <1>6, <2>3, <3>1, MonthIs
  <2>5. DayOfMonth(day) = day - MonthStart(m - 1) + 1
    BY <1>5, <2>4
  <2>6. ~InMonth(day, m)
    BY <1>3, <1>8
  <2> HIDE DEF start, end
  <2>7. DayOfMonth(day) \in Nat /\ ~(start + DayOfMonth(day) - 1 < end)
    BY <1>1, <1>2, <1>8, <2>2, <2>5
  <2> QED
    BY <1>4, <2>6, <2>7 DEF start, end, day
<1> QED
  BY <1>7, <1>8

LEMMA ConcatenationIs ==
  ASSUME NEW T, NEW a \in Seq(T), NEW b \in Seq(T)
  PROVE  a \o b \in Seq(T) /\ ToSet(a \o b) = ToSet(a) \cup ToSet(b)
<1>1. /\ a \o b \in Seq(T) /\ Len(a \o b) = Len(a) + Len(b)
      /\ Len(a) \in Nat /\ Len(b) \in Nat
      /\ \A i \in 1 .. Len(a) : (a \o b)[i] = a[i]
      /\ \A i \in 1 .. Len(b) : (a \o b)[Len(a) + i] = b[i]
  OBVIOUS
<1>2. ToSet(a) = {a[i] : i \in 1 .. Len(a)} /\ ToSet(b) = {b[i] : i \in 1 .. Len(b)}
  BY Elements DEF ToSet
<1> DEFINE c == a \o b
<1>3. ToSet(c) = {c[i] : i \in 1 .. Len(c)}
  BY <1>1, Elements DEF ToSet
<1>4. /\ Len(c) = Len(a) + Len(b)
      /\ \A i \in 1 .. Len(a) : c[i] = a[i]
      /\ \A i \in 1 .. Len(b) : c[Len(a) + i] = b[i]
  BY <1>1
<1> HIDE DEF c
<1>5. \A x \in ToSet(c) : x \in ToSet(a) \/ x \in ToSet(b)
  <2> SUFFICES ASSUME NEW i \in 1 .. Len(c)
               PROVE  c[i] \in ToSet(a) \/ c[i] \in ToSet(b)
    BY <1>3
  <2>1. CASE i \in 1 .. Len(a)
    BY <1>2, <1>4, <2>1
  <2>2. CASE i \notin 1 .. Len(a)
    <3> DEFINE j == i - Len(a)
    <3>1. j \in 1 .. Len(b) /\ Len(a) + j = i
      BY <1>1, <1>4, <2>2
    <3> HIDE DEF j
    <3> QED
      BY <1>2, <1>4, <3>1
  <2> QED
    BY <2>1, <2>2
<1>6. \A x \in ToSet(a) : x \in ToSet(c)
  <2> SUFFICES ASSUME NEW i \in 1 .. Len(a)
               PROVE  a[i] \in ToSet(c)
    BY <1>2
  <2>1. i \in 1 .. Len(c) /\ c[i] = a[i]
    BY <1>1, <1>4
  <2> QED
    BY <1>3, <2>1
<1>7. \A x \in ToSet(b) : x \in ToSet(c)
  <2> SUFFICES ASSUME NEW i \in 1 .. Len(b)
               PROVE  b[i] \in ToSet(c)
    BY <1>2
  <2>1. Len(a) + i \in 1 .. Len(c) /\ c[Len(a) + i] = b[i]
    BY <1>1, <1>4
  <2> QED
    BY <1>3, <2>1
<1>8. ToSet(c) = ToSet(a) \cup ToSet(b)
  BY <1>5, <1>6, <1>7
<1> QED
  BY <1>1, <1>8 DEF c

(* handleNegativeDays: all days as days of the month, in order.            *)
DaysFromEnd(m, negatives) == {DayOfMonth(MonthStart(m + 1) + n) : n \in negatives}

LEMMA ListOfDays ==
  ASSUME NEW z \in ZoneType, KeepsDays(z), NEW s, NEW d, SetUpMonthdays(s, d),
         NEW from \in Int, NEW m \in Int, m = Month(Day(z, from))
  PROVE  /\ HandleNegativeDays(z, s, from) \in Seq(Nat)
         /\ NonDecreasing(HandleNegativeDays(z, s, from))
         /\ ToSet(HandleNegativeDays(z, s, from))
              = DaysFromEnd(m, ToSet(s.daysFromEnd)) \cup ToSet(s.days)
<1> DEFINE firstDayNextMonth == DateAt(z, MonthStart(m + 1) * Units)
           FromEnd(n) == DayOfMonth(Day(z, AddDays(z, firstDayNextMonth, n)))
           list == [i \in DOMAIN s.daysFromEnd |-> FromEnd(s.daysFromEnd[i])]
<1>1. HandleNegativeDays(z, s, from) = Sorted(list \o s.days)
  BY DEF HandleNegativeDays
<1>2. ASSUME NEW n \in Int
      PROVE  FromEnd(n) = DayOfMonth(MonthStart(m + 1) + n)
  <2> DEFINE day == MonthStart(m + 1)
             first == DateAt(z, day * Units)
  <2>1. day \in Int
    <3>1. m + 1 \in Int
      OBVIOUS
    <3> QED
      BY <3>1, MonthStarts
  <2> HIDE DEF day
  <2>2. day * Units \in Int /\ (day * Units) \div Units = day
    BY <2>1, ConstantAssumption
  <2>3. first \in Int /\ Day(z, first) = day
    <3> DEFINE w == day * Units
    <3> HIDE DEF w
    <3>1. w \in Int
      BY <2>2 DEF w
    <3>2. DateAt(z, w) \in Int /\ Day(z, DateAt(z, w)) = w \div Units
      BY <3>1, NotInTheGap, DayOfDate
    <3> QED
      BY <2>2, <3>2 DEF w
  <2> HIDE DEF first
  <2>4. WallOf(z, first) \in Int /\ WallOf(z, first) \div Units = day
    BY <2>3, NotInTheGap DEF Day
  <2> DEFINE v == WallOf(z, first) + n * Units
  <2>5. v \in Int /\ v \div Units = day + n
    <3> DEFINE w == WallOf(z, first)
    <3>1. w \in Int /\ w \div Units = day
      BY <2>4
    <3> HIDE DEF w
    <3>2. w + n * Units \in Int /\ (w + n * Units) \div Units = (w \div Units) + n
      <4> DEFINE q == w \div Units
                 r == w % Units
      <4>1. q \in Int /\ r \in 0 .. Units - 1 /\ w = q * Units + r
        BY <3>1, UnitsAndDays
      <4> HIDE DEF q, r
      <4>2. w + n * Units = (q + n) * Units + r /\ q + n \in Int
        BY <4>1, ConstantAssumption
      <4>3. (q + n) * Units + r \in Int /\ ((q + n) * Units + r) \div Units = q + n
        BY <4>1, <4>2, WallTime
      <4> QED
        BY <4>2, <4>3 DEF q
    <3> QED
      BY <3>1, <3>2 DEF w
  <2>6. AddDays(z, first, n) = DateAt(z, v)
    BY DEF AddDays
  <2> HIDE DEF v
  <2>7. Day(z, DateAt(z, v)) = day + n
    BY <2>5, DayOfDate
  <2> QED
    BY <2>6, <2>7 DEF first, day
<1> HIDE DEF FromEnd
<1>3. /\ DOMAIN s.daysFromEnd = 1 .. Len(s.daysFromEnd) /\ Len(s.daysFromEnd) \in Nat
      /\ \A i \in 1 .. Len(s.daysFromEnd) : s.daysFromEnd[i] \in ToSet(s.daysFromEnd)
      /\ ToSet(s.daysFromEnd) = {s.daysFromEnd[i] : i \in 1 .. Len(s.daysFromEnd)}
  BY Elements DEF SetUpMonthdays, ToSet
<1>4. ToSet(s.daysFromEnd) \in SUBSET (-Longest .. -1) /\ Longest \in Nat
  <2>1. Longest \in Nat
    BY LongestIs
  <2> QED
    BY <2>1 DEF SetUpMonthdays
<1>5. \A n \in ToSet(s.daysFromEnd) :
        FromEnd(n) = DayOfMonth(MonthStart(m + 1) + n) /\ FromEnd(n) \in Nat
  <2> SUFFICES ASSUME NEW n \in ToSet(s.daysFromEnd)
               PROVE  FromEnd(n) = DayOfMonth(MonthStart(m + 1) + n) /\ FromEnd(n) \in Nat
    OBVIOUS
  <2>1. n \in Int /\ n \in -Longest .. -1
    BY <1>4
  <2>2. FromEnd(n) = DayOfMonth(MonthStart(m + 1) + n)
    BY <1>2, <2>1
  <2>3. DayOfMonth(MonthStart(m + 1) + n) \in Nat
    BY <2>1, DayFromEnd
  <2> QED
    BY <2>2, <2>3
<1>6. list \in Seq(Nat) /\ ToSet(list) = DaysFromEnd(m, ToSet(s.daysFromEnd))
  <2>1. list = [i \in 1 .. Len(s.daysFromEnd) |-> FromEnd(s.daysFromEnd[i])]
    BY <1>3
  <2>2. \A i \in 1 .. Len(s.daysFromEnd) : FromEnd(s.daysFromEnd[i]) \in Nat
    BY <1>3, <1>5
  <2> HIDE DEF list
  <2>3. list \in Seq(Nat)
    BY <1>3, <2>1, <2>2
  <2>4. ToSet(list) = {FromEnd(s.daysFromEnd[i]) : i \in 1 .. Len(s.daysFromEnd)}
    <3>1. DOMAIN list = 1 .. Len(s.daysFromEnd)
      BY <2>1
    <3>2. \A i \in 1 .. Len(s.daysFromEnd) : list[i] = FromEnd(s.daysFromEnd[i])
      BY <2>1
    <3> QED
      BY <3>1, <3>2 DEF ToSet
  <2>5. ToSet(list) = {FromEnd(n) : n \in ToSet(s.daysFromEnd)}
    BY <1>3, <2>4
  <2>6. {FromEnd(n) : n \in ToSet(s.daysFromEnd)} = DaysFromEnd(m, ToSet(s.daysFromEnd))
    BY <1>5 DEF DaysFromEnd
  <2> QED
    BY <2>3, <2>5, <2>6
<1> HIDE DEF list
<1>7. s.days \in Seq(Nat)
  BY DEF SetUpMonthdays
<1>8. list \o s.days \in Seq(Nat) /\ ToSet(list \o s.days) = ToSet(list) \cup ToSet(s.days)
  BY <1>6, <1>7, ConcatenationIs
<1> DEFINE all == list \o s.days
<1>9. all \in Seq(Nat) /\ ToSet(all) = ToSet(list) \cup ToSet(s.days)
  BY <1>8
<1> HIDE DEF all
<1>10. Sorted(all) \in Seq(Nat) /\ NonDecreasing(Sorted(all)) /\ ToSet(Sorted(all)) = ToSet(all)
  BY <1>9, SortedIs
<1> QED
  BY <1>1, <1>6, <1>9, <1>10 DEF all

-----------------------------------------------------------------------------
(* The due days of a month and those of the list that are in it.           *)
DueInMonth(m, date, monthdays) ==
  {day \in MonthStart(m) .. MonthStart(m + 1) - 1 :
     /\ day >= date
     /\ {DayOfMonth(day), day - MonthStart(m + 1)} \cap monthdays # {}}

DaysOfMonthFrom(m, date) == {day \in Int : day >= date /\ InMonth(day, m)}

DaysOfList(m, list) == [i \in DOMAIN list |-> MonthStart(m) + list[i] - 1]

(* The days of the list are the due days of the month.                     *)
LEMMA ListKept ==
  ASSUME NEW s, NEW d, SetUpMonthdays(s, d), NEW m \in Int, NEW date \in Int,
         NEW list \in Seq(Nat), NonDecreasing(list),
         ToSet(list) = DaysFromEnd(m, ToSet(s.daysFromEnd)) \cup ToSet(s.days)
  PROVE  /\ DaysOfList(m, list) \in Seq(Int) /\ NonDecreasing(DaysOfList(m, list))
         /\ Kept(DaysOfList(m, list), DaysOfMonthFrom(m, date))
              = DueInMonth(m, date, ToSet(d.days))
<1> DEFINE start == MonthStart(m)
           end == MonthStart(m + 1)
           days == DaysOfList(m, list)
           D == ToSet(d.days)
<1>1. start \in Int /\ end \in Int /\ Longest \in Nat
  <2>1. m + 1 \in Int
    OBVIOUS
  <2> QED
    BY <2>1, MonthStarts, LongestIs
<1>2. /\ DOMAIN list = 1 .. Len(list) /\ Len(list) \in Nat
      /\ \A i \in 1 .. Len(list) : list[i] \in Nat
      /\ ToSet(list) = {list[i] : i \in 1 .. Len(list)}
  BY Elements DEF ToSet
<1>3. days = [i \in 1 .. Len(list) |-> start + list[i] - 1]
  BY <1>2 DEF DaysOfList
<1> HIDE DEF days, start, end
<1>4. days \in Seq(Int) /\ DOMAIN days = 1 .. Len(list)
  <2>1. \A i \in 1 .. Len(list) : start + list[i] - 1 \in Int
    BY <1>1, <1>2
  <2> QED
    BY <1>2, <1>3, <2>1
<1>5. NonDecreasing(days)
  <2> SUFFICES ASSUME NEW i \in 1 .. Len(list), NEW j \in 1 .. Len(list), i <= j
               PROVE  days[i] <= days[j]
    BY <1>4 DEF NonDecreasing
  <2>1. list[i] <= list[j] /\ list[i] \in Nat /\ list[j] \in Nat
    BY <1>2 DEF NonDecreasing
  <2> QED
    BY <1>1, <1>3, <2>1
<1>6. ToSet(days) = {start + v - 1 : v \in ToSet(list)}
  <2>1. ToSet(days) = {days[i] : i \in 1 .. Len(list)}
    BY <1>4 DEF ToSet
  <2>2. \A i \in 1 .. Len(list) : days[i] = start + list[i] - 1
    BY <1>3
  <2> QED
    BY <1>2, <2>1, <2>2
<1>7. D \in SUBSET (-Longest .. Longest \ {0}) /\ ToSet(s.days) = {v \in D : v > 0}
      /\ ToSet(s.daysFromEnd) = {v \in D : v < 0}
  BY DEF SetUpMonthdays
<1> HIDE DEF D
<1>8. \A day \in Int : InMonth(day, m) <=> start <= day /\ day < end
  BY DEF InMonth, start, end
<1>9. \A day \in Int : InMonth(day, m) => DayOfMonth(day) = day - start + 1
  <2> SUFFICES ASSUME NEW day \in Int, InMonth(day, m)
               PROVE  DayOfMonth(day) = day - start + 1
    OBVIOUS
  <2>1. Month(day) = m
    BY MonthIs
  <2> QED
    BY <2>1 DEF DayOfMonth, start
<1>10. \A n \in D : n < 0 =>
          /\ DayOfMonth(end + n) \in Nat
          /\ InMonth(end + n, m) => start + DayOfMonth(end + n) - 1 = end + n
          /\ ~InMonth(end + n, m) => ~InMonth(start + DayOfMonth(end + n) - 1, m)
  <2> SUFFICES ASSUME NEW n \in D, n < 0
               PROVE  /\ DayOfMonth(end + n) \in Nat
                      /\ InMonth(end + n, m) => start + DayOfMonth(end + n) - 1 = end + n
                      /\ ~InMonth(end + n, m) => ~InMonth(start + DayOfMonth(end + n) - 1, m)
    OBVIOUS
  <2>1. n \in -Longest .. -1
    BY <1>1, <1>7
  <2> QED
    BY <2>1, DayFromEnd DEF start, end
<1>11. \A v \in ToSet(list) :
         \/ v \in D /\ v > 0
         \/ \E n \in D : n < 0 /\ v = DayOfMonth(end + n)
  BY <1>7 DEF DaysFromEnd, end
<1>12. /\ \A v \in D : v > 0 => v \in ToSet(list)
       /\ \A n \in D : n < 0 => DayOfMonth(end + n) \in ToSet(list)
  BY <1>7 DEF DaysFromEnd, end
<1> DEFINE DueHere == DueInMonth(m, date, D)
           K == Kept(days, DaysOfMonthFrom(m, date))
<1>13. \A day \in Int : day \in DueHere <=>
         InMonth(day, m) /\ day >= date /\ (day - start + 1 \in D \/ day - end \in D)
  <2> SUFFICES ASSUME NEW day \in Int
               PROVE  day \in DueHere <=>
                 InMonth(day, m) /\ day >= date /\ (day - start + 1 \in D \/ day - end \in D)
    OBVIOUS
  <2>1. day \in DueHere <=> day \in start .. end - 1 /\ day >= date
                        /\ {DayOfMonth(day), day - end} \cap D # {}
    BY DEF DueInMonth, start, end
  <2>2. day \in start .. end - 1 <=> InMonth(day, m)
    BY <1>1, <1>8
  <2>3. {DayOfMonth(day), day - end} \cap D # {} <=> DayOfMonth(day) \in D \/ day - end \in D
    OBVIOUS
  <2>4. InMonth(day, m) => DayOfMonth(day) = day - start + 1
    BY <1>9
  <2> HIDE DEF DueHere
  <2> QED
    BY <2>1, <2>2, <2>3, <2>4
<1>14. \A day : day \in K <=>
         /\ \E v \in ToSet(list) : day = start + v - 1
         /\ day \in Int /\ day >= date /\ InMonth(day, m)
  BY <1>6 DEF Kept, DaysOfMonthFrom
<1>15. DueHere \in SUBSET Int
  BY <1>1 DEF DueInMonth, start, end
<1> HIDE DEF DueHere, K
<1>16. ASSUME NEW day \in K
       PROVE  day \in DueHere
  <2>1. PICK v \in ToSet(list) : day = start + v - 1
    BY <1>14
  <2>2. day \in Int /\ day >= date /\ InMonth(day, m)
    BY <1>14
  <2>3. CASE v \in D
    <3>1. day - start + 1 = v
      BY <1>1, <1>7, <2>1, <2>3
    <3> QED
      BY <1>13, <2>2, <2>3, <3>1
  <2>4. CASE v \notin D
    <3>1. PICK n \in D : n < 0 /\ v = DayOfMonth(end + n)
      BY <1>11, <2>4
    <3>2. InMonth(end + n, m)
      BY <1>10, <2>1, <2>2, <3>1
    <3>3. day = end + n
      BY <1>10, <2>1, <3>1, <3>2
    <3>4. day - end = n
      BY <1>1, <1>7, <3>1, <3>3
    <3> QED
      BY <1>13, <2>2, <3>4
  <2> QED
    BY <2>3, <2>4
<1>17. ASSUME NEW day \in DueHere
       PROVE  day \in K
  <2>1. day \in Int
    BY <1>15
  <2>2. InMonth(day, m) /\ day >= date /\ (day - start + 1 \in D \/ day - end \in D)
    BY <1>13, <2>1
  <2>3. start <= day /\ day < end
    BY <1>8, <2>1, <2>2
  <2>4. CASE day - start + 1 \in D
    <3> DEFINE v == day - start + 1
    <3>1. v > 0 /\ day = start + v - 1
      BY <1>1, <2>1, <2>3
    <3>2. v \in ToSet(list)
      <4>1. v \in D
        BY <2>4
      <4> HIDE DEF v
      <4> QED
        BY <1>12, <3>1, <4>1
    <3> HIDE DEF v
    <3> QED
      BY <1>14, <2>1, <2>2, <3>1, <3>2
  <2>5. CASE day - end \in D
    <3> DEFINE n == day - end
    <3>1. n < 0 /\ end + n = day
      BY <1>1, <2>1, <2>3
    <3>2. n \in D
      BY <2>5
    <3> HIDE DEF n
    <3>3. DayOfMonth(day) \in ToSet(list) /\ start + DayOfMonth(day) - 1 = day
      <4>1. InMonth(end + n, m)
        BY <2>2, <3>1
      <4>2. start + DayOfMonth(end + n) - 1 = end + n
        BY <1>10, <3>1, <3>2, <4>1
      <4>3. DayOfMonth(end + n) \in ToSet(list)
        BY <1>12, <3>1, <3>2
      <4> QED
        BY <3>1, <4>2, <4>3
    <3>4. \E v \in ToSet(list) : day = start + v - 1
      BY <3>3
    <3> QED
      BY <1>14, <2>1, <2>2, <3>4
  <2> QED
    BY <2>2, <2>4, <2>5
<1>18. K = DueHere
  BY <1>16, <1>17
<1> QED
  BY <1>4, <1>5, <1>18 DEF K, DueHere, days, D

-----------------------------------------------------------------------------
(* The loop over the days of a month (job.go:1570-1599): a date that       *)
(* time.Date would put into another month is passed over, and only that.   *)
PlacesNotBefore(z, s, days, Keep, from) ==
  {p \in Places(s, days) : days[p[1]] \in Keep /\ AtPlace(z, s, days, p) >= from}

PlacesOf(z, s, days, Keep, from, firstPass) ==
  IF firstPass THEN PlacesAfter(z, s, days, Keep, from)
  ELSE PlacesNotBefore(z, s, days, Keep, from)

LEMMA MonthPass ==
  ASSUME NEW z \in ZoneType, KeepsDays(z), NEW s, s.atTimes \in Seq(0 .. Units - 1),
         NEW d, SetUpMonthdays(s, d), NEW from \in Int, NEW m, m = Month(Day(z, from)),
         NEW firstPass \in BOOLEAN
  PROVE  LET list == HandleNegativeDays(z, s, from)
             days == DaysOfList(m, list)
             Keep == DaysOfMonthFrom(m, Day(z, from))
         IN  /\ NextMonthDayAtTime(z, s, from, firstPass) =
                  FirstAt(z, s, days, PlacesOf(z, s, days, Keep, from, firstPass))
             /\ days \in Seq(Int) /\ NonDecreasing(days)
             /\ Kept(days, Keep) = DueInMonth(m, Day(z, from), ToSet(d.days))
<1> DEFINE today == Day(z, from)
           list == HandleNegativeDays(z, s, from)
           days == DaysOfList(m, list)
           Keep == DaysOfMonthFrom(m, today)
           InM(p) == Month(Day(z, DateAt(z, days[p[1]] * Units + s.atTimes[p[2]]))) = m
           places == {p \in Places(s, days) :
                        /\ days[p[1]] >= today /\ InM(p)
                        /\ IF firstPass THEN AtPlace(z, s, days, p) > from
                                        ELSE AtPlace(z, s, days, p) >= from}
<1>1. today \in Int /\ m \in Int
  <2>1. today \in Int
    BY DayIsInt
  <2> QED
    BY <2>1, MonthOfDay
<1>2. /\ list \in Seq(Nat) /\ NonDecreasing(list)
      /\ ToSet(list) = DaysFromEnd(m, ToSet(s.daysFromEnd)) \cup ToSet(s.days)
  BY <1>1, ListOfDays
<1>3. /\ days \in Seq(Int) /\ NonDecreasing(days)
      /\ Kept(days, Keep) = DueInMonth(m, today, ToSet(d.days))
  BY <1>1, <1>2, ListKept
<1>4. NextMonthDayAtTime(z, s, from, firstPass) = FirstAt(z, s, days, places)
  BY DEF NextMonthDayAtTime, DaysOfList
<1> HIDE DEF days, list, today
<1>5. ASSUME NEW p \in Places(s, days)
      PROVE  InM(p) /\ days[p[1]] >= today <=> days[p[1]] \in Keep
  <2> DEFINE day == days[p[1]]
             at == s.atTimes[p[2]]
  <2>1. day \in Int /\ at \in 0 .. Units - 1
    <3>1. p[1] \in 1 .. Len(days) /\ p[2] \in 1 .. Len(s.atTimes)
      BY DEF Places
    <3> QED
      BY <1>3, <3>1, Elements
  <2> HIDE DEF day, at
  <2> DEFINE w == day * Units + at
  <2>2. w \in Int /\ w \div Units = day
    BY <2>1, WallTime
  <2> HIDE DEF w
  <2>3. Day(z, DateAt(z, w)) = day
    BY <2>2, DayOfDate
  <2>4. InM(p) <=> Month(day) = m
    BY <2>3 DEF w, day, at
  <2>5. Month(day) = m <=> InMonth(day, m)
    BY <1>1, <2>1, MonthIs
  <2>6. day \in Keep <=> day >= today /\ InMonth(day, m)
    BY <2>1 DEF DaysOfMonthFrom
  <2> QED
    BY <2>4, <2>5, <2>6 DEF day
<1>6. places = IF firstPass THEN PlacesAfter(z, s, days, Keep, from)
               ELSE PlacesNotBefore(z, s, days, Keep, from)
  <2>1. PlacesAfter(z, s, days, Keep, from)
          = {p \in Places(s, days) : days[p[1]] \in Keep /\ AtPlace(z, s, days, p) > from}
    BY DEF PlacesAfter
  <2>2. PlacesNotBefore(z, s, days, Keep, from)
          = {p \in Places(s, days) : days[p[1]] \in Keep /\ AtPlace(z, s, days, p) >= from}
    BY DEF PlacesNotBefore
  <2> HIDE DEF Keep, InM
  <2> QED
    BY <1>5, <2>1, <2>2
<1> HIDE DEF places
<1>7. NextMonthDayAtTime(z, s, from, firstPass) =
        FirstAt(z, s, days, PlacesOf(z, s, days, Keep, from, firstPass))
  BY <1>4, <1>6 DEF PlacesOf
<1> QED
  BY <1>3, <1>7 DEF days, list, today

LEMMA FirstAtWithin ==
  ASSUME NEW z, NEW s, NEW days, NEW places \in SUBSET (Nat \X Nat), NEW after,
         places \in SUBSET after, FirstAt(z, s, days, places) # Zero
  PROVE  FirstAt(z, s, days, places) \in TimesAt(z, s, days, after)
<1>1. places # {}
  BY DEF FirstAt
<1>2. PICK i, k \in Nat :
         /\ <<i, k>> \in places
         /\ \A p \in places : i <= p[1] /\ (p[1] = i => k <= p[2])
         /\ FirstAt(z, s, days, places) = AtPlace(z, s, days, <<i, k>>)
  BY <1>1, FirstPlace
<1> QED
  BY <1>2 DEF TimesAt

(* The first pass, from the last run on.                                   *)
LEMMA FirstPassLooks ==
  ASSUME NEW z \in ZoneType, KeepsDays(z), NEW s, s.atTimes \in Seq(0 .. Units - 1),
         NEW d, SetUpMonthdays(s, d), NEW last \in Nat
  PROVE  LooksAt(z, s, last, NextMonthDayAtTime(z, s, last, TRUE),
                 DueInMonth(Month(Day(z, last)), Day(z, last), ToSet(d.days)))
<1> DEFINE m == Month(Day(z, last))
           days == DaysOfList(m, HandleNegativeDays(z, s, last))
           Keep == DaysOfMonthFrom(m, Day(z, last))
<1>1. /\ NextMonthDayAtTime(z, s, last, TRUE) =
           FirstAt(z, s, days, PlacesAfter(z, s, days, Keep, last))
      /\ days \in Seq(Int) /\ NonDecreasing(days)
      /\ Kept(days, Keep) = DueInMonth(m, Day(z, last), ToSet(d.days))
  <2>1. last \in Int
    OBVIOUS
  <2> QED
    BY <2>1, MonthPass DEF PlacesOf
<1> HIDE DEF days, Keep
<1> QED
  BY <1>1 DEF LooksAt

(* On the day on which a later pass begins, and not in a gap.              *)
LEMMA NotBeforeTheFirst ==
  ASSUME NEW z \in ZoneType, KeepsDays(z), NEW policy \in Policies, NEW day \in Int,
         NEW first \in Int, first <= day, NEW at \in 0 .. Units - 1,
         Exists(z, first * Units), AtDate(z, policy, day, at) # Zero
  PROVE  AtDate(z, policy, day, at) >= DateAt(z, first * Units)
<1> DEFINE v == first * Units
           w == day * Units + at
           t == AtDate(z, policy, day, at)
<1>1. v \in Int /\ w \in Int /\ w \div Units = day /\ v \div Units = first /\ v <= w
  <2>1. v \in Int /\ v \div Units = first
    BY ConstantAssumption
  <2>2. w \in Int /\ w \div Units = day
    BY WallTime
  <2>3. v <= w
    <3>1. first * Units <= day * Units
      BY ConstantAssumption
    <3>2. first * Units \in Int /\ day * Units \in Int /\ Units \in Nat
      BY ConstantAssumption
    <3> QED
      BY <3>1, <3>2
  <2> QED
    BY <2>1, <2>2, <2>3
<1>2. t \in Int /\ Day(z, t) = day
  BY AtDateOnItsDay
<1>3. /\ Exists(z, w) => t = DateAt(z, w)
      /\ ~Exists(z, w) => t \in {DateAt(z, w), w}
  BY AtDateIs
<1> HIDE DEF v, w, t
<1>4. DateAt(z, v) \in Int /\ Day(z, DateAt(z, v)) = first /\ DateAt(z, w) \in Int
  BY <1>1, NotInTheGap, DayOfDate
<1>5. CASE first < day
  <2>1. DateAt(z, v) < t
    BY <1>2, <1>4, <1>5, LaterDayLater
  <2> QED
    BY <1>2, <1>4, <2>1 DEF t, v
<1>6. CASE first = day
  <2>1. v \notin z.at .. z.at + z.len - 1
    BY <1>1, NotInTheGap DEF v
  <2>2. CASE Exists(z, w)
    <3>1. w \notin z.at .. z.at + z.len - 1
      BY <1>1, <2>2, NotInTheGap
    <3>2. DateAt(z, w) >= DateAt(z, v)
      BY <1>1, <2>1, <3>1 DEF DateAt, ZoneType
    <3> QED
      BY <1>3, <2>2, <3>2 DEF t, v
  <2>3. CASE ~Exists(z, w)
    <3>1. w \in z.at .. z.at + z.len - 1
      BY <1>1, <2>3, NotInTheGap
    <3>2. DateAt(z, v) = v /\ v < z.at
      BY <1>1, <2>1, <3>1 DEF DateAt, ZoneType
    <3>3. t >= v
      <4>1. CASE t = w
        BY <1>1, <4>1
      <4>2. CASE t = DateAt(z, w)
        <5>1. WallOf(z, t) \in Int /\ WallOf(z, t) \div Units = day
          BY <1>2, NotInTheGap DEF Day
        <5>2. WallOf(z, t) >= v
          <6>1. WallOf(z, t) = (WallOf(z, t) \div Units) * Units + (WallOf(z, t) % Units)
                /\ WallOf(z, t) % Units \in 0 .. Units - 1
            BY <5>1, UnitsAndDays
          <6>2. WallOf(z, t) = v + (WallOf(z, t) % Units)
            BY <1>6, <5>1, <6>1 DEF v
          <6> QED
            BY <1>1, <6>1, <6>2
        <5>3. t < z.at => WallOf(z, t) = t
          BY DEF WallOf
        <5> QED
          BY <1>1, <1>2, <3>2, <5>1, <5>2, <5>3 DEF ZoneType
      <4> QED
        BY <1>3, <2>3, <4>1, <4>2
    <3> QED
      BY <3>2, <3>3 DEF t, v
  <2> QED
    BY <2>2, <2>3
<1> QED
  BY <1>5, <1>6

(* A later pass, which begins on the first day of its month.               *)
LEMMA LaterPassLooks ==
  ASSUME NEW z \in ZoneType, KeepsDays(z), NEW s, s.atTimes \in Seq(0 .. Units - 1),
         s.policy \in Policies, NEW d, SetUpMonthdays(s, d), NEW last \in Nat,
         NEW from \in Int, NEW first \in Int, first = Day(z, from), Day(z, last) < first
  PROVE  /\ Exists(z, first * Units) /\ from = DateAt(z, first * Units) =>
              LooksAt(z, s, last, NextMonthDayAtTime(z, s, from, FALSE),
                      DueInMonth(Month(first), first, ToSet(d.days)))
         /\ NextMonthDayAtTime(z, s, from, FALSE) # Zero =>
              NextMonthDayAtTime(z, s, from, FALSE) \in
                TimesOn(z, s.policy, DueInMonth(Month(first), first, ToSet(d.days)),
                        ToSet(s.atTimes), last)
<1> DEFINE m == Month(first)
           days == DaysOfList(m, HandleNegativeDays(z, s, from))
           Keep == DaysOfMonthFrom(m, first)
           result == NextMonthDayAtTime(z, s, from, FALSE)
           due == DueInMonth(m, first, ToSet(d.days))
           before == PlacesNotBefore(z, s, days, Keep, from)
           after == PlacesAfter(z, s, days, Keep, last)
<1>1. /\ result = FirstAt(z, s, days, before)
      /\ days \in Seq(Int) /\ NonDecreasing(days) /\ Kept(days, Keep) = due
  <2> DEFINE today == Day(z, from)
             month == Month(today)
             list == DaysOfList(month, HandleNegativeDays(z, s, from))
             keep == DaysOfMonthFrom(month, today)
  <2>1. \A b \in BOOLEAN :
          /\ NextMonthDayAtTime(z, s, from, b)
               = FirstAt(z, s, list, PlacesOf(z, s, list, keep, from, b))
          /\ list \in Seq(Int) /\ NonDecreasing(list)
          /\ Kept(list, keep) = DueInMonth(month, today, ToSet(d.days))
    BY MonthPass
  <2>2. /\ result = FirstAt(z, s, list, PlacesOf(z, s, list, keep, from, FALSE))
        /\ list \in Seq(Int) /\ NonDecreasing(list)
        /\ Kept(list, keep) = DueInMonth(month, today, ToSet(d.days))
    BY <2>1
  <2>3. PlacesOf(z, s, list, keep, from, FALSE) = PlacesNotBefore(z, s, list, keep, from)
    BY DEF PlacesOf
  <2> HIDE DEF result
  <2> QED
    BY <2>2, <2>3
<1>2. from > last
  BY LaterDayLater
<1> HIDE DEF result, days
<1>3. ASSUME NEW p \in Places(s, days)
      PROVE  /\ days[p[1]] \in Int /\ s.atTimes[p[2]] \in 0 .. Units - 1
             /\ AtPlace(z, s, days, p) = AtDate(z, s.policy, days[p[1]], s.atTimes[p[2]])
             /\ AtPlace(z, s, days, p) \in Int
  <2>1. p[1] \in 1 .. Len(days) /\ p[2] \in 1 .. Len(s.atTimes)
    BY DEF Places
  <2>2. days[p[1]] \in Int /\ s.atTimes[p[2]] \in 0 .. Units - 1
    BY <1>1, <2>1, Elements
  <2>3. AtPlace(z, s, days, p) = AtDate(z, s.policy, days[p[1]], s.atTimes[p[2]])
    BY DEF AtPlace
  <2> DEFINE day == days[p[1]]
             at == s.atTimes[p[2]]
  <2>4. day \in Int /\ at \in 0 .. Units - 1
    BY <2>2
  <2> HIDE DEF day, at
  <2>5. AtDate(z, s.policy, day, at) \in Int
    BY <2>4, AtDateOnItsDay
  <2> QED
    BY <2>2, <2>3, <2>5 DEF day, at
<1>4. before \in SUBSET after
  <2>1. \A p \in Places(s, days) : AtPlace(z, s, days, p) >= from => AtPlace(z, s, days, p) > last
    BY <1>2, <1>3
  <2> QED
    BY <2>1 DEF PlacesNotBefore, PlacesAfter
<1>5. ASSUME Exists(z, first * Units), from = DateAt(z, first * Units)
      PROVE  after \in SUBSET before
  <2> SUFFICES ASSUME NEW p \in Places(s, days), days[p[1]] \in Keep,
                      AtPlace(z, s, days, p) > last
               PROVE  AtPlace(z, s, days, p) >= from
    BY DEF PlacesNotBefore, PlacesAfter
  <2> DEFINE day == days[p[1]]
             at == s.atTimes[p[2]]
  <2>1. /\ day \in Int /\ at \in 0 .. Units - 1
        /\ AtPlace(z, s, days, p) = AtDate(z, s.policy, day, at)
        /\ AtPlace(z, s, days, p) \in Int
    BY <1>3
  <2>2. first <= day
    BY DEF DaysOfMonthFrom
  <2> HIDE DEF day, at
  <2>3. AtDate(z, s.policy, day, at) # Zero
    BY <2>1
  <2> QED
    BY <1>5, <2>1, <2>2, <2>3, NotBeforeTheFirst
<1>6. Exists(z, first * Units) /\ from = DateAt(z, first * Units) =>
        LooksAt(z, s, last, result, due)
  <2> SUFFICES ASSUME Exists(z, first * Units), from = DateAt(z, first * Units)
               PROVE  LooksAt(z, s, last, result, due)
    OBVIOUS
  <2>1. before = after
    BY <1>4, <1>5
  <2> QED
    BY <1>1, <2>1 DEF LooksAt
<1>7. result # Zero => result \in TimesOn(z, s.policy, due, ToSet(s.atTimes), last)
  <2> SUFFICES ASSUME result # Zero
               PROVE  result \in TimesOn(z, s.policy, due, ToSet(s.atTimes), last)
    OBVIOUS
  <2>2. before \in SUBSET (Nat \X Nat)
    <3>1. Places(s, days) \in SUBSET (Nat \X Nat)
      BY <1>1, Elements DEF Places
    <3> QED
      BY <3>1 DEF PlacesNotBefore
  <2>5. result \in TimesAt(z, s, days, after)
    <3>1. FirstAt(z, s, days, before) # Zero
      BY <1>1
    <3> HIDE DEF before, after
    <3>2. FirstAt(z, s, days, before) \in TimesAt(z, s, days, after)
      BY <1>4, <2>2, <3>1, FirstAtWithin
    <3> QED
      BY <1>1, <3>2
  <2>6. TimesAt(z, s, days, after) = TimesOn(z, s.policy, Kept(days, Keep), ToSet(s.atTimes), last)
    BY <1>1, PlacesAfterAre
  <2> QED
    BY <1>1, <2>5, <2>6
<1> QED
  BY <1>6, <1>7 DEF result

-----------------------------------------------------------------------------
(* Where the passes begin, which a recursive function lists.               *)
FromStep(z, s, last, f, i) ==
  IF i = 1 THEN DateAt(z, MonthStart(Month(Day(z, last)) + s.interval) * Units)
  ELSE AddMonths(z, f[i - 1], s.interval)

IsFrom(z, s, last, f, n) == f = [i \in 1 .. n |-> FromStep(z, s, last, f, i)]

LEMMA FromExists ==
  ASSUME NEW z, NEW s, NEW last, NEW n \in Nat
  PROVE  \E f : IsFrom(z, s, last, f, n)
<1> DEFINE without == {m \in Nat : ~ \E f : IsFrom(z, s, last, f, m)}
<1>1. without = {}
  <2> SUFFICES ASSUME without # {}
               PROVE  FALSE
    OBVIOUS
  <2>1. PICK m \in without : \A i \in without : m <= i
    <3>1. without \in SUBSET Nat
      OBVIOUS
    <3> HIDE DEF without
    <3> QED
      BY <3>1, LeastNatural
  <2>2. m # 0
    <3> DEFINE f == [k \in 1 .. 0 |-> last]
    <3>1. f = [k \in 1 .. 0 |-> FromStep(z, s, last, f, k)]
      OBVIOUS
    <3>2. IsFrom(z, s, last, f, 0)
      BY <3>1 DEF IsFrom
    <3> QED
      BY <3>2
  <2>3. m - 1 \in Nat /\ m - 1 \notin without
    BY <2>1, <2>2
  <2>4. PICK f : IsFrom(z, s, last, f, m - 1)
    BY <2>3
  <2> DEFINE g == [k \in 1 .. m |-> IF k = m THEN FromStep(z, s, last, f, m) ELSE f[k]]
  <2>5. \A k \in 1 .. m : g[k] = FromStep(z, s, last, g, k)
    <3> SUFFICES ASSUME NEW k \in 1 .. m
                 PROVE  g[k] = FromStep(z, s, last, g, k)
      OBVIOUS
    <3>1. FromStep(z, s, last, g, k) = FromStep(z, s, last, f, k)
      <4>1. k # 1 => k - 1 \in 1 .. m /\ k - 1 # m
        OBVIOUS
      <4> QED
        BY <4>1 DEF FromStep
    <3>2. k # m => f[k] = FromStep(z, s, last, f, k)
      <4>1. k # m => k \in 1 .. m - 1
        BY <2>3
      <4> QED
        BY <2>4, <4>1 DEF IsFrom
    <3> QED
      BY <3>1, <3>2
  <2>6. IsFrom(z, s, last, g, m)
    <3>1. g = [k \in 1 .. m |-> g[k]]
      OBVIOUS
    <3> HIDE DEF g
    <3> QED
      BY <2>5, <3>1 DEF IsFrom
  <2> QED
    BY <2>6
<1> QED
  BY <1>1

LEMMA FromIs ==
  ASSUME NEW z, NEW s, NEW last
  PROVE  \A i \in 1 .. Strides : From(z, s, last)[i] = FromStep(z, s, last, From(z, s, last), i)
<1>1. Strides \in Nat
  BY ConstantAssumption
<1>2. \E f : IsFrom(z, s, last, f, Strides)
  BY <1>1, FromExists
<1>3. From(z, s, last) = CHOOSE f : IsFrom(z, s, last, f, Strides)
  BY DEF From, IsFrom, FromStep
<1>4. IsFrom(z, s, last, From(z, s, last), Strides)
  BY <1>2, <1>3
<1> QED
  BY <1>4 DEF IsFrom

(* Each pass begins on the first of its month.                             *)
LEMMA PassesBegin ==
  ASSUME NEW z \in ZoneType, KeepsDays(z), NEW s, s.interval \in Nat \ {0}, NEW last \in Nat,
         NEW i \in 1 .. Strides
  PROVE  LET first == MonthStart(Month(Day(z, last)) + i * s.interval)
         IN  /\ first \in Int /\ From(z, s, last)[i] \in Int /\ Day(z, From(z, s, last)[i]) = first
             /\ KeepsMonths(z) =>
                  Exists(z, first * Units) /\ From(z, s, last)[i] = DateAt(z, first * Units)
<1> DEFINE f == From(z, s, last)
           n == s.interval
           M == Month(Day(z, last))
           First(k) == MonthStart(M + k * n)
           Good(k) == /\ f[k] \in Int /\ Day(z, f[k]) = First(k)
                      /\ KeepsMonths(z) => f[k] = DateAt(z, First(k) * Units)
           bad == {k \in 1 .. Strides : ~Good(k)}
<1>0. Strides \in Nat /\ n \in Nat \ {0} /\ Units \in Nat \ {0}
  BY ConstantAssumption
<1>1. \A k \in 1 .. Strides :
        f[k] = IF k = 1 THEN DateAt(z, MonthStart(M + n) * Units) ELSE AddMonths(z, f[k - 1], n)
  BY FromIs DEF FromStep
<1>2. M \in Int
  <2>1. Day(z, last) \in Int
    BY DayIsInt
  <2> QED
    BY <2>1, MonthOfDay
<1> HIDE DEF f, M, n
<1>3. \A k \in Int : First(k) \in Int /\ Month(First(k)) = M + k * n /\ DayOfMonth(First(k)) = 1
  <2> SUFFICES ASSUME NEW k \in Int
               PROVE  First(k) \in Int /\ Month(First(k)) = M + k * n /\ DayOfMonth(First(k)) = 1
    OBVIOUS
  <2>1. M + k * n \in Int
    BY <1>0, <1>2
  <2> QED
    BY <2>1, FirstOfMonth
<1>4. \A k \in Int : First(k + 1) = MonthStart((M + k * n) + n)
  <2>1. \A k \in Int : M + (k + 1) * n = (M + k * n) + n
    BY <1>0, <1>2
  <2> QED
    BY <2>1
<1>5. First(1) = MonthStart(M + n)
  <2>1. M + 1 * n = M + n
    BY <1>0, <1>2
  <2> QED
    BY <2>1
<1> HIDE DEF First
<1>6. ASSUME NEW first \in Int, NEW u \in 0 .. Units - 1
      PROVE  DateAt(z, first * Units + u) \in Int /\ Day(z, DateAt(z, first * Units + u)) = first
  <2> DEFINE w == first * Units + u
  <2>1. w \in Int /\ w \div Units = first
    BY WallTime
  <2> HIDE DEF w
  <2>2. DateAt(z, w) \in Int /\ Day(z, DateAt(z, w)) = first
    BY <2>1, NotInTheGap, DayOfDate
  <2> QED
    BY <2>2 DEF w
<1>7. ASSUME NEW first \in Int
      PROVE  DateAt(z, first * Units) \in Int /\ Day(z, DateAt(z, first * Units)) = first
  <2>1. 0 \in 0 .. Units - 1 /\ first * Units + 0 = first * Units
    BY <1>0
  <2> QED
    BY <1>6, <2>1
<1>12. \A x \in Int : x * Units \in Int /\ (x * Units) % Units = 0 /\ (x * Units) \div Units = x
  BY <1>0
<1>8. ASSUME KeepsMonths(z), NEW k \in Int
      PROVE  Exists(z, First(k) * Units)
  <2> DEFINE w == First(k) * Units
  <2>1. w \in Int /\ w % Units = 0 /\ w \div Units = First(k)
    BY <1>3, <1>12
  <2>2. w \notin z.at .. z.at + z.len - 1
    BY <1>3, <1>8, <2>1 DEF KeepsMonths
  <2> HIDE DEF w
  <2>3. Exists(z, w)
    BY <2>1, <2>2, NotInTheGap
  <2> QED
    BY <2>3 DEF w
<1>9. bad = {}
  <2> SUFFICES ASSUME bad # {}
               PROVE  FALSE
    OBVIOUS
  <2>1. PICK k \in bad : \A j \in bad : k <= j
    <3>1. bad \in SUBSET Nat
      OBVIOUS
    <3> HIDE DEF bad
    <3> QED
      BY <3>1, LeastNatural
  <2>2. k \in 1 .. Strides /\ ~Good(k)
    BY <2>1
  <2>3. CASE k = 1
    <3>1. f[k] = DateAt(z, First(k) * Units)
      BY <1>1, <1>5, <2>2, <2>3
    <3>2. First(k) \in Int
      BY <1>3, <2>2
    <3>3. Good(k)
      BY <1>7, <3>1, <3>2
    <3> QED
      BY <2>2, <3>3
  <2>4. CASE k # 1
    <3> DEFINE j == k - 1
    <3>1. j \in 1 .. Strides /\ j \in Int /\ j < k /\ j + 1 = k
      BY <1>0, <2>2, <2>4
    <3>2. f[k] = AddMonths(z, f[j], n)
      BY <1>1, <2>2, <2>4
    <3> HIDE DEF j
    <3>3. Good(j)
      <4>1. j \notin bad
        BY <2>1, <2>2, <3>1
      <4> QED
        BY <3>1, <4>1
    <3>4. Month(Day(z, f[j])) = M + j * n /\ DayOfMonth(Day(z, f[j])) = 1
      BY <1>3, <3>1, <3>3
    <3> DEFINE u == Unit(z, f[j])
    <3>5. u \in 0 .. Units - 1 /\ u \in Int
      <4>1. WallOf(z, f[j]) \in Int
        BY <3>3, NotInTheGap
      <4> QED
        BY <4>1, UnitsAndDays DEF Unit
    <3>6. First(k) \in Int /\ First(k) = MonthStart((M + j * n) + n)
      BY <1>3, <1>4, <3>1
    <3>7. f[k] = DateAt(z, (First(k) + 1 - 1) * Units + u)
      BY <3>2, <3>4, <3>6 DEF AddMonths
    <3>8. f[k] = DateAt(z, First(k) * Units + u)
      <4>1. First(k) + 1 - 1 = First(k)
        BY <3>6
      <4> QED
        BY <3>7, <4>1
    <3>9. KeepsMonths(z) => u = 0
      <4> SUFFICES ASSUME KeepsMonths(z)
                   PROVE  u = 0
        OBVIOUS
      <4> DEFINE w == First(j) * Units
      <4>1. Exists(z, w)
        BY <1>8, <3>1
      <4>2. f[j] = DateAt(z, w)
        BY <3>3
      <4>3. w % Units = 0
        BY <1>3, <1>12, <3>1
      <4> HIDE DEF w
      <4> QED
        BY <4>1, <4>2, <4>3 DEF Exists, Unit
    <3> HIDE DEF u
    <3>10. f[k] \in Int /\ Day(z, f[k]) = First(k)
      BY <1>6, <3>5, <3>6, <3>8
    <3>11. KeepsMonths(z) => f[k] = DateAt(z, First(k) * Units)
      <4>1. First(k) * Units \in Int
        BY <1>0, <3>6
      <4>2. u = 0 => First(k) * Units + u = First(k) * Units
        BY <4>1
      <4> QED
        BY <3>8, <3>9, <4>2
    <3> QED
      BY <2>2, <3>10, <3>11
  <2> QED
    BY <2>3, <2>4
<1>10. Good(i)
  BY <1>9
<1>11. i \in Int
  OBVIOUS
<1> QED
  BY <1>3, <1>8, <1>10, <1>11 DEF f, n, M, First

-----------------------------------------------------------------------------
(* The months that a monthly job looks at; round k is the month k          *)
(* intervals after the last run's.                                         *)
MonthRounds(today, interval, monthdays) ==
  [k \in 0 .. Strides |->
     DueInMonth(Month(today) + k * interval,
                IF k = 0 THEN today ELSE MonthStart(Month(today) + k * interval), monthdays)]

LEMMA MonthRoundsInOrder ==
  ASSUME NEW today \in Int, NEW interval \in Nat \ {0}, NEW monthdays
  PROVE  RoundsFrom(MonthRounds(today, interval, monthdays), today)
<1> DEFINE rounds == MonthRounds(today, interval, monthdays)
           m == Month(today)
           start == [k \in 0 .. Strides |-> MonthStart(m + k * interval)]
           end == [k \in 0 .. Strides |-> MonthStart(m + k * interval + 1)]
<1>1. m \in Int /\ today < MonthStart(m + 1)
  BY MonthOfDay DEF InMonth
<1> HIDE DEF m
<1>2. \A k \in 0 .. Strides : m + k * interval \in Int
  BY <1>1
<1>3. \A k \in 0 .. Strides : start[k] \in Int /\ end[k] \in Int
  <2> SUFFICES ASSUME NEW k \in 0 .. Strides
               PROVE  /\ MonthStart(m + k * interval) \in Int
                      /\ MonthStart(m + k * interval + 1) \in Int
    OBVIOUS
  <2>1. m + k * interval \in Int /\ m + k * interval + 1 \in Int
    BY <1>2
  <2> QED
    BY <2>1, MonthStarts
<1>4. \A j, k \in 0 .. Strides : j < k => end[j] <= start[k]
  <2> SUFFICES ASSUME NEW j \in 0 .. Strides, NEW k \in 0 .. Strides, j < k
               PROVE  end[j] <= start[k]
    OBVIOUS
  <2>1. j * interval < k * interval
    <3>1. (k - j) * interval >= 1 /\ (k - j) * interval = k * interval - j * interval
      OBVIOUS
    <3>2. j * interval \in Int /\ k * interval \in Int
      OBVIOUS
    <3> QED
      BY <3>1, <3>2
  <2>2. m + j * interval < m + k * interval
    <3>1. j * interval \in Int /\ k * interval \in Int
      OBVIOUS
    <3> QED
      BY <1>1, <2>1, <3>1
  <2>3. MonthStart(m + j * interval + 1) <= MonthStart(m + k * interval)
    BY <1>2, <2>2, MonthsInOrder
  <2> QED
    BY <2>3
<1>5. end[0] = MonthStart(m + 1) /\ 0 \in 0 .. Strides
  <2>1. 0 \in 0 .. Strides
    BY ConstantAssumption
  <2>2. m + 0 * interval + 1 = m + 1
    BY <1>1
  <2> QED
    BY <2>1, <2>2
<1>6. \A k \in 0 .. Strides : \A day \in rounds[k] :
        day \in Int /\ start[k] <= day /\ day < end[k]
  <2> SUFFICES ASSUME NEW k \in 0 .. Strides, NEW day \in rounds[k]
               PROVE  day \in Int /\ start[k] <= day /\ day < end[k]
    OBVIOUS
  <2>1. day \in start[k] .. end[k] - 1
    BY DEF MonthRounds, DueInMonth, m
  <2> HIDE DEF start, end
  <2> QED
    BY <1>3, <2>1
<1>7. rounds \in [0 .. Strides -> SUBSET Int]
  <2>1. DOMAIN rounds = 0 .. Strides /\ rounds = [k \in 0 .. Strides |-> rounds[k]]
    BY DEF MonthRounds
  <2>2. \A k \in 0 .. Strides : rounds[k] \in SUBSET Int
    BY <1>6
  <2> HIDE DEF rounds
  <2> QED
    BY <2>1, <2>2
<1> HIDE DEF rounds, start, end
<1>8. \A j, k \in 0 .. Strides : j < k => \A day \in rounds[j], later \in rounds[k] : day < later
  BY <1>3, <1>4, <1>6
<1>9. \A k \in 1 .. Strides : \A day \in rounds[k] : today < day
  <2> SUFFICES ASSUME NEW k \in 1 .. Strides, NEW day \in rounds[k]
               PROVE  today < day
    OBVIOUS
  <2>1. end[0] <= start[k] /\ start[k] <= day /\ day \in Int /\ start[k] \in Int /\ end[0] \in Int
    BY <1>3, <1>4, <1>5, <1>6
  <2> QED
    BY <1>1, <1>5, <2>1
<1> QED
  BY <1>7, <1>8, <1>9 DEF RoundsFrom, rounds

(* They have the due days.                                                 *)
LEMMA MonthsDue ==
  ASSUME NEW z \in ZoneType, NEW d, d.kind = "monthly", NEW last \in Nat, d.interval \in Nat \ {0}
  PROVE  DueDays(z, d, last) = AllOf(MonthRounds(Day(z, last), d.interval, ToSet(d.days)))
<1> DEFINE today == Day(z, last)
           D == ToSet(d.days)
           n == d.interval
           m == Month(today)
           rounds == MonthRounds(today, n, D)
           months == {m + k * n : k \in 0 .. Strides}
<1>1. DueDays(z, d, last) = UNION {DueInMonth(i, today, D) : i \in months}
  BY DEF DueDays, DueInMonth
<1>2. today \in Int /\ RoundsFrom(rounds, today)
  BY DayIsInt, MonthRoundsInOrder
<1>3. ASSUME NEW k \in 0 .. Strides
      PROVE  DueInMonth(m + k * n, today, D) = rounds[k]
  <2>1. CASE k = 0
    BY <2>1 DEF MonthRounds
  <2>2. CASE k # 0
    <3>1. rounds[k] = DueInMonth(m + k * n, MonthStart(m + k * n), D)
      BY <2>2 DEF MonthRounds
    <3>2. \A day \in rounds[k] : today < day
      <4>1. k \in 1 .. Strides
        BY <2>2
      <4> HIDE DEF rounds
      <4> QED
        BY <1>2, <4>1 DEF RoundsFrom
    <3> DEFINE i == m + k * n
    <3>3. i \in Int /\ MonthStart(i) \in Int /\ MonthStart(i + 1) \in Int
      <4>1. m \in Int
        BY <1>2, MonthOfDay
      <4> HIDE DEF m
      <4>2. i \in Int /\ i + 1 \in Int
        BY <4>1
      <4> HIDE DEF i
      <4> QED
        BY <4>2, MonthStarts
    <3>4. \A day \in DueInMonth(i, MonthStart(i), D) : today < day
      BY <3>1, <3>2
    <3> HIDE DEF i, today, D
    <3>5. DueInMonth(i, today, D) = DueInMonth(i, MonthStart(i), D)
      <4>1. \A day \in MonthStart(i) .. MonthStart(i + 1) - 1 : day \in Int /\ day >= MonthStart(i)
        BY <3>3
      <4>2. \A day \in DueInMonth(i, MonthStart(i), D) : day >= today
        <5>1. \A day \in DueInMonth(i, MonthStart(i), D) : day \in Int
          BY <3>3 DEF DueInMonth
        <5> QED
          BY <1>2, <3>4, <5>1
      <4> QED
        BY <4>1, <4>2 DEF DueInMonth
    <3> QED
      BY <3>1, <3>5 DEF i
  <2> QED
    BY <2>1, <2>2
<1> HIDE DEF rounds, today, D, m, n
<1>4. UNION {DueInMonth(i, today, D) : i \in months} = AllOf(rounds)
  BY <1>3 DEF AllOf
<1> QED
  BY <1>1, <1>4 DEF rounds, today, D, n

(* NextMonthly: what each pass returns.                                    *)
MonthResults(z, s, last) ==
  [i \in 0 .. Strides |->
     IF i = 0 THEN NextMonthDayAtTime(z, s, last, TRUE)
     ELSE NextMonthDayAtTime(z, s, From(z, s, last)[i], FALSE)]

LEMMA MonthResultsAre ==
  ASSUME NEW z \in ZoneType, KeepsDays(z), NEW s, NEW d, SetUpTimes(s, d), SetUpMonthdays(s, d),
         NEW last \in Nat, NEW k \in 0 .. Strides
  PROVE  LET rounds == MonthRounds(Day(z, last), d.interval, ToSet(d.days))
             result == MonthResults(z, s, last)[k]
         IN  /\ KeepsMonths(z) => LooksAt(z, s, last, result, rounds[k])
             /\ result # Zero => result \in TimesOn(z, s.policy, rounds[k], ToSet(s.atTimes), last)
<1> DEFINE today == Day(z, last)
           D == ToSet(d.days)
           n == d.interval
           rounds == MonthRounds(today, n, D)
           result == MonthResults(z, s, last)[k]
<1>1. /\ s.policy \in Policies /\ s.atTimes \in Seq(0 .. Units - 1)
      /\ s.interval = n /\ s.interval \in Nat \ {0}
  BY DEF SetUpTimes
<1>2. CASE k = 0
  <2>1. Month(today) + 0 * n = Month(today)
    <3>1. Month(today) \in Int
      BY DayIsInt, MonthOfDay
    <3> DEFINE m == Month(today)
    <3> HIDE DEF m
    <3>2. m + 0 * n = m
      BY <1>1, <3>1 DEF m
    <3> QED
      BY <3>2 DEF m
  <2>2. result = NextMonthDayAtTime(z, s, last, TRUE)
    BY <1>2 DEF MonthResults
  <2>3. rounds[k] = DueInMonth(Month(today), today, D)
    BY <1>2, <2>1 DEF MonthRounds
  <2>4. LooksAt(z, s, last, NextMonthDayAtTime(z, s, last, TRUE),
                DueInMonth(Month(today), today, D))
    BY <1>1, FirstPassLooks
  <2> HIDE DEF result, rounds, today, D
  <2>5. LooksAt(z, s, last, result, rounds[k])
    BY <2>2, <2>3, <2>4
  <2>6. SomeOrZero(result, TimesOn(z, s.policy, rounds[k], ToSet(s.atTimes), last))
    <3> DEFINE rest == rounds[k]
    <3>1. LooksAt(z, s, last, result, rest)
      BY <2>5
    <3> HIDE DEF rest
    <3>2. SomeOrZero(result, TimesOn(z, s.policy, rest, ToSet(s.atTimes), last))
      BY <1>1, <3>1, LooksAtSome
    <3> QED
      BY <3>2 DEF rest
  <2> QED
    BY <2>5, <2>6 DEF SomeOrZero, result, rounds, today, D
<1>3. CASE k # 0
  <2> DEFINE m == Month(today)
             first == MonthStart(m + k * n)
             from == From(z, s, last)[k]
  <2>1. k \in 1 .. Strides
    BY <1>3
  <2>2. /\ first \in Int /\ from \in Int /\ Day(z, from) = first
        /\ KeepsMonths(z) => Exists(z, first * Units) /\ from = DateAt(z, first * Units)
    BY <1>1, <2>1, PassesBegin
  <2>3. m \in Int /\ m + k * n \in Int /\ today \in Int /\ today < MonthStart(m + 1)
        /\ m < m + k * n
    <3>1. today \in Int
      BY DayIsInt
    <3> HIDE DEF today
    <3>2. m \in Int /\ today < MonthStart(m + 1)
      BY <3>1, MonthOfDay DEF InMonth
    <3> HIDE DEF m
    <3>3. k * n \in Int /\ k * n >= 1
      BY <1>1, <2>1
    <3> QED
      BY <3>1, <3>2, <3>3
  <2>4. Month(first) = m + k * n
    BY <2>3, FirstOfMonth
  <2>5. today < first
    <3>1. MonthStart(m + 1) <= MonthStart(m + k * n)
      BY <2>3, MonthsInOrder
    <3>2. MonthStart(m + 1) \in Int
      <4>1. m + 1 \in Int
        BY <2>3
      <4> QED
        BY <4>1, MonthStarts
    <3> QED
      BY <2>2, <2>3, <3>1, <3>2
  <2>6. result = NextMonthDayAtTime(z, s, from, FALSE)
    BY <1>3 DEF MonthResults
  <2>7. rounds[k] = DueInMonth(Month(first), first, D)
    BY <1>3, <2>4 DEF MonthRounds
  <2> HIDE DEF first, from, rounds, result
  <2>8. /\ Exists(z, first * Units) /\ from = DateAt(z, first * Units) =>
             LooksAt(z, s, last, NextMonthDayAtTime(z, s, from, FALSE),
                     DueInMonth(Month(first), first, D))
        /\ NextMonthDayAtTime(z, s, from, FALSE) # Zero =>
             NextMonthDayAtTime(z, s, from, FALSE) \in
               TimesOn(z, s.policy, DueInMonth(Month(first), first, D), ToSet(s.atTimes), last)
    BY <1>1, <2>2, <2>5, LaterPassLooks
  <2> QED
    BY <2>2, <2>6, <2>7, <2>8 DEF rounds, result
<1> QED
  BY <1>2, <1>3

(* Where no month begins in the gap every pass goes through the month's    *)
(* due days.                                                               *)
LEMMA MonthlyFollows ==
  ASSUME NEW z \in ZoneType, KeepsDays(z), KeepsMonths(z), NEW s, NEW d, d.kind = "monthly",
         SetUpTimes(s, d), SetUpMonthdays(s, d), NEW last \in Nat
  PROVE  FollowsDueDays(z, s, d, last, NextMonthly(z, s, last))
<1> DEFINE rounds == MonthRounds(Day(z, last), d.interval, ToSet(d.days))
           results == MonthResults(z, s, last)
<1>1. d.interval \in Nat \ {0} /\ Day(z, last) \in Int
  BY DayIsInt DEF SetUpTimes
<1>2. DueDays(z, d, last) = AllOf(rounds)
  BY <1>1, MonthsDue
<1>3. RoundsFrom(rounds, Day(z, last))
  BY <1>1, MonthRoundsInOrder
<1>4. NextMonthly(z, s, last) = FirstNonZero(results)
  BY DEF NextMonthly, MonthResults
<1>5. DOMAIN results = 0 .. Strides
  BY DEF MonthResults
<1>6. \A k \in 0 .. Strides : LooksAt(z, s, last, results[k], rounds[k])
  BY MonthResultsAre
<1> HIDE DEF rounds, results
<1>7. LooksAtRounds(z, s, last, rounds, results)
  BY <1>5, <1>6 DEF LooksAtRounds, RoundsSeen
<1> QED
  BY <1>2, <1>3, <1>4, <1>7 DEF FollowsDueDays

(* Otherwise a pass may miss times, but takes none that is not due.        *)
LEMMA MonthlyRunsOnDueDays ==
  ASSUME NEW z \in ZoneType, KeepsDays(z), NEW s, NEW d, d.kind = "monthly",
         SetUpTimes(s, d), SetUpMonthdays(s, d), NEW last \in Nat, NextMonthly(z, s, last) # Zero
  PROVE  NextMonthly(z, s, last) \in Due(z, d, last) /\ NextMonthly(z, s, last) > last
<1> DEFINE rounds == MonthRounds(Day(z, last), d.interval, ToSet(d.days))
           results == MonthResults(z, s, last)
           result == NextMonthly(z, s, last)
<1>1. /\ d.interval \in Nat \ {0} /\ Day(z, last) \in Int
      /\ d.policy \in Policies /\ s.policy = d.policy
      /\ ToSet(s.atTimes) = ToSet(d.atTimes) /\ ToSet(d.atTimes) \in SUBSET (0 .. Units - 1)
  <2>1. Day(z, last) \in Int
    BY DayIsInt
  <2>2. ToSet(d.atTimes) \in SUBSET (0 .. Units - 1)
    BY SetUpRegular
  <2> QED
    BY <2>1, <2>2 DEF SetUpTimes
<1>2. DueDays(z, d, last) = AllOf(rounds)
  BY <1>1, MonthsDue
<1>3. RoundsFrom(rounds, Day(z, last))
  BY <1>1, MonthRoundsInOrder
<1>4. result = FirstNonZero(results)
  BY DEF NextMonthly, MonthResults
<1>5. DOMAIN results = 0 .. Strides /\ DOMAIN results \in SUBSET Nat
  BY DEF MonthResults
<1>6. \A k \in 0 .. Strides :
        results[k] # Zero => results[k] \in TimesOn(z, s.policy, rounds[k], ToSet(s.atTimes), last)
  BY MonthResultsAre
<1> HIDE DEF rounds, results, result
<1>7. PICK k \in 0 .. Strides : result = results[k] /\ results[k] # Zero
  <2>1. result # Zero
    BY DEF result
  <2> QED
    BY <1>4, <1>5, <2>1, FirstNonZeroIsOne
<1>8. result \in TimesOn(z, s.policy, rounds[k], ToSet(s.atTimes), last)
  BY <1>6, <1>7
<1>9. result \in TimesOn(z, d.policy, AllOf(rounds), ToSet(d.atTimes), last)
  BY <1>1, <1>8 DEF TimesOn, AllOf
<1>10. DueDays(z, d, last) \in SUBSET Int
  BY <1>2, <1>3 DEF AllOf, RoundsFrom
<1>11. {t \in Due(z, d, last) : t > last}
         = TimesOn(z, d.policy, DueDays(z, d, last), ToSet(d.atTimes), last)
  BY <1>1, <1>10, DueOnDays DEF DayKinds
<1>12. result \in {t \in Due(z, d, last) : t > last}
  BY <1>2, <1>9, <1>11
<1> QED
  BY <1>12 DEF result

-----------------------------------------------------------------------------
(* setup of a monthly job (job.go:536-631).                                *)
LEMMA MonthlySetUp ==
  ASSUME NEW z, NEW d \in DefinitionType, NEW now, d.kind = "monthly", Accepted(z, d, now)
  PROVE  /\ SetUpTimes(Setup(d, now), d) /\ SetUpMonthdays(Setup(d, now), d)
         /\ Setup(d, now).kind = "monthly"
<1> DEFINE D == ToSet(d.days)
<1>1. d \in MonthlyDefinitions
  BY DefinitionKinds
<1>2. /\ d.interval \in Nat /\ d.policy \in Policies /\ d.atTimes \in NonEmptySeq(Nat)
      /\ d.interval > 0 /\ \A at \in ToSet(d.atTimes) : at < Units
      /\ d.days \in Seq(Int) /\ \A day \in D : day \in -Longest .. Longest \ {0}
  BY <1>1 DEF Accepted, MonthlyDefinitions, NonEmptySeq
<1>3. ToSet(d.atTimes) \in SUBSET (0 .. Units - 1)
  <2>1. \A at \in ToSet(d.atTimes) : at \in Nat
    BY <1>2, Elements DEF NonEmptySeq
  <2> QED
    BY <1>2, <2>1, ConstantAssumption
<1>4. D \in SUBSET (-Longest .. Longest \ {0}) /\ D \in SUBSET Int /\ IsFiniteSet(D)
  <2>1. D \in SUBSET Int /\ IsFiniteSet(D)
    BY <1>2, ValuesAreFinite
  <2> QED
    BY <1>2, <2>1
<1>5. /\ Setup(d, now).policy = d.policy /\ Setup(d, now).interval = d.interval
      /\ Setup(d, now).atTimes = Sorted(d.atTimes) /\ Setup(d, now).kind = "monthly"
      /\ Setup(d, now).days = Ascending({day \in D : day > 0})
      /\ Setup(d, now).daysFromEnd = Ascending({day \in D : day < 0})
  BY <1>1 DEF Setup, MonthlyDefinitions
<1>6. 0 .. Units - 1 \in SUBSET Nat
  OBVIOUS
<1>7. /\ Sorted(d.atTimes) \in Seq(0 .. Units - 1) /\ NonDecreasing(Sorted(d.atTimes))
      /\ ToSet(Sorted(d.atTimes)) = ToSet(d.atTimes) /\ ToSet(d.atTimes) # {}
  BY <1>2, <1>3, <1>6, SortedWithin
<1>8. SetUpTimes(Setup(d, now), d)
  BY <1>2, <1>5, <1>7 DEF SetUpTimes
<1> DEFINE positive == {day \in D : day > 0}
           negative == {day \in D : day < 0}
<1>9. /\ positive \in SUBSET Nat /\ IsFiniteSet(positive)
      /\ negative \in SUBSET Int /\ IsFiniteSet(negative)
  <2>1. positive \subseteq D /\ negative \subseteq D /\ positive \in SUBSET Nat
        /\ negative \in SUBSET Int
    BY <1>4
  <2> HIDE DEF positive, negative, D
  <2>2. IsFiniteSet(positive)
    BY <1>4, <2>1, FS_Subset
  <2>3. IsFiniteSet(negative)
    BY <1>4, <2>1, FS_Subset
  <2> QED
    BY <2>1, <2>2, <2>3
<1>10. Ascending(positive) \in Seq(Nat) /\ ToSet(Ascending(positive)) = positive
  <2> HIDE DEF positive
  <2>1. Nat \in SUBSET Int
    OBVIOUS
  <2> QED
    BY <1>9, <2>1, AscendingIs
<1>11. Ascending(negative) \in Seq(Int) /\ ToSet(Ascending(negative)) = negative
  <2> HIDE DEF negative
  <2>1. Int \in SUBSET Int
    OBVIOUS
  <2> QED
    BY <1>9, <2>1, AscendingIs
<1>12. SetUpMonthdays(Setup(d, now), d)
  BY <1>4, <1>5, <1>10, <1>11 DEF SetUpMonthdays
<1> QED
  BY <1>5, <1>8, <1>12

-----------------------------------------------------------------------------
(* Cron, daily and weekly jobs.                                            *)
RepeatsByDay(d) == d.kind \in {"cron", "daily", "weekly"}

(* next of a cron, daily or weekly job never returns a time that is not    *)
(* after the last run, but zero: in every zone, clock change or not, for   *)
(* every policy, and however its days and times are sorted                 *)
(* (job.go:1307-1461).                                                     *)
THEOREM NextMovesOn ==
  ASSUME NEW z, NEW s, NEW last \in Nat, RepeatsByDay(s)
  PROVE  After(NextRun(z, s, last), last)
<1>1. CASE s.kind = "cron"
  BY <1>1, NextCronAfter DEF NextRun
<1>2. CASE s.kind = "daily"
  BY <1>2, NextDailyAfter DEF NextRun
<1>3. CASE s.kind = "weekly"
  BY <1>3, NextWeeklyAfter DEF NextRun
<1> QED
  BY <1>1, <1>2, <1>3 DEF RepeatsByDay

LEMMA SetupKeepsKind ==
  ASSUME NEW d \in DefinitionType, NEW now
  PROVE  Setup(d, now).kind = d.kind
<1>1. CASE d.kind = "daily"
  BY <1>1, DefinitionKinds DEF Setup, DailyDefinitions
<1>2. CASE d.kind = "weekly"
  BY <1>2, DefinitionKinds DEF Setup, WeeklyDefinitions
<1>3. CASE d.kind \in {"cron", "oneTime", "monthly"}
  BY <1>3 DEF Setup
<1> QED
  BY <1>1, <1>2, <1>3, DefinitionKinds

(* setup makes a schedule of the kind that was asked for, and the runs     *)
(* that are followed stay within the bound (job.go:299-686).               *)
THEOREM TypeCorrect == Spec => []TypeOK
<1>1. Init => TypeOK
  BY ConstantAssumption DEF Init, TypeOK
<1>2. TypeOK /\ [Next]_vars => TypeOK'
  <2> SUFFICES ASSUME TypeOK, [Next]_vars
               PROVE  TypeOK'
    OBVIOUS
  <2>1. CASE SetsUp
    <3>1. schedule' = Setup(definition, lastRun) /\ UNCHANGED <<zone, definition, lastRun>>
      BY <2>1 DEF SetsUp
    <3>2. definition \in DefinitionType
      BY DefinitionAssumption DEF TypeOK
    <3>3. schedule'.kind = definition.kind
      BY <3>1, <3>2, SetupKeepsKind
    <3> QED
      BY <3>1, <3>3 DEF TypeOK
  <2>2. CASE Runs
    <3>1. lastRun' \in 1 .. Horizon /\ UNCHANGED <<zone, definition, schedule>>
      BY <2>2 DEF Runs
    <3> QED
      BY <3>1 DEF TypeOK
  <2>3. CASE UNCHANGED vars
    BY <2>3 DEF vars, TypeOK
  <2> QED
    BY <2>1, <2>2, <2>3 DEF Next
<1> QED
  BY <1>1, <1>2, PTL DEF Spec

(* Wherever the chain has come to, the next run of a cron, daily or weekly *)
(* job is after the last one or there is none: it is neither run twice for *)
(* one time nor sent back by a clock change (scheduler.go:525-539).        *)
NextIsAhead ==
  schedule # None /\ RepeatsByDay(definition) =>
    After(NextRun(zone, schedule, lastRun), lastRun)

THEOREM ChainIsAhead == Spec => []NextIsAhead
<1>1. TypeOK => NextIsAhead
  <2> SUFFICES ASSUME TypeOK, schedule # None, RepeatsByDay(definition)
               PROVE  After(NextRun(zone, schedule, lastRun), lastRun)
    BY DEF NextIsAhead
  <2>1. RepeatsByDay(schedule) /\ lastRun \in Nat
    BY ConstantAssumption DEF TypeOK, RepeatsByDay
  <2> QED
    BY <2>1, NextMovesOn
<1> QED
  BY <1>1, TypeCorrect, PTL

(* A step that changes the last run of such a job moves it forward.        *)
THEOREM RunsMoveForward ==
  Spec => [][RepeatsByDay(definition) /\ lastRun' # lastRun => lastRun' > lastRun]_vars
<1>1. NextIsAhead /\ [Next]_vars =>
        [RepeatsByDay(definition) /\ lastRun' # lastRun => lastRun' > lastRun]_vars
  <2> SUFFICES ASSUME NextIsAhead, Next, lastRun' # lastRun, RepeatsByDay(definition)
               PROVE  lastRun' > lastRun
    OBVIOUS
  <2>1. Runs
    BY DEF Next, SetsUp
  <2>2. schedule # None /\ lastRun' = NextRun(zone, schedule, lastRun) /\ lastRun' \in 1 .. Horizon
    BY <2>1 DEF Runs
  <2>3. After(lastRun', lastRun)
    BY <2>2 DEF NextIsAhead
  <2> QED
    BY <2>2, <2>3, ConstantAssumption DEF After
<1> QED
  BY <1>1, ChainIsAhead, PTL DEF Spec

-----------------------------------------------------------------------------
(* What the kinds of jobs come to: the run a set-up schedule returns is    *)
(* the earliest of what its definition says is due...                      *)
LEMMA NextByKind ==
  ASSUME NEW z, NEW d \in DefinitionType, NEW now, NEW last
  PROVE  LET s == Setup(d, now)
         IN  /\ d.kind = "cron" => NextRun(z, s, last) = NextCron(z, Location(z, s), s, last)
             /\ d.kind = "daily" => NextRun(z, s, last) = NextDaily(z, s, last)
             /\ d.kind = "weekly" => NextRun(z, s, last) = NextWeekly(z, s, last)
             /\ d.kind = "monthly" => NextRun(z, s, last) = NextMonthly(z, s, last)
             /\ d.kind = "oneTime" => NextRun(z, s, last) = NextOneTime(s, last)
<1> DEFINE s == Setup(d, now)
<1>1. s.kind = d.kind
  BY SetupKeepsKind
<1> HIDE DEF s
<1>2. /\ s.kind = "cron" => NextRun(z, s, last) = NextCron(z, Location(z, s), s, last)
      /\ s.kind = "daily" => NextRun(z, s, last) = NextDaily(z, s, last)
      /\ s.kind = "weekly" => NextRun(z, s, last) = NextWeekly(z, s, last)
      /\ s.kind = "monthly" => NextRun(z, s, last) = NextMonthly(z, s, last)
      /\ s.kind = "oneTime" => NextRun(z, s, last) = NextOneTime(s, last)
  BY DEF NextRun
<1> QED
  BY <1>1, <1>2 DEF s

(* ... for cron jobs in the expression's zone...                           *)
LEMMA CronRuns ==
  ASSUME NEW z \in ZoneType, NEW d \in DefinitionType, d.kind = "cron", NEW now \in Nat,
         Accepted(z, d, now), NEW last \in Nat
  PROVE  LET x == Location(z, d)
             t == NextRun(z, Setup(d, now), last)
         IN  /\ t # Zero
             /\ KeepsDays(x) /\ RepeatsAlike(z, x) =>
                  /\ t \in Due(z, d, last) /\ t > last
                  /\ OrderKept(z, d, last) => t = Earliest(z, d, last)
<1> DEFINE x == Location(z, d)
<1>1. /\ d \in CronDefinitions /\ Permitting(d) /\ Setup(d, now) = d /\ x \in ZoneType
      /\ NextRun(z, Setup(d, now), last) = NextCron(z, x, d, last)
  BY CronSetUp, LocationIsZone, NextByKind
<1>2. /\ Due(z, d, last) = DueByCron(x, d, last)
      /\ OrderKept(z, d, last) => GapKept(x, d, last)
  BY DEF Due, OrderKept
<1>3. Earliest(z, d, last) = LeastOrZero({t \in DueByCron(x, d, last) : t > last})
  BY <1>2, EarliestIsLeast
<1> HIDE DEF x
<1>4. NextCron(z, x, d, last) # Zero
  BY <1>1, NextCronIsOne
<1>5. ASSUME KeepsDays(x), RepeatsAlike(z, x)
      PROVE  /\ NextCron(z, x, d, last) \in DueByCron(x, d, last)
             /\ NextCron(z, x, d, last) > last
             /\ GapKept(x, d, last) => NextCron(z, x, d, last) = Earliest(z, d, last)
  <2>1. NextCron(z, x, d, last) = NextCron(x, x, d, last)
    BY <1>1, <1>5, LookedUpAlike
  <2>2. NextCron(x, x, d, last) \in DueByCron(x, d, last) /\ NextCron(x, x, d, last) > last
    BY <1>1, <1>5, CronRunsAtATime
  <2>3. GapKept(x, d, last) => NextCron(x, x, d, last) = Earliest(z, d, last)
    BY <1>1, <1>3, <1>5, CronIsEarliest
  <2> QED
    BY <2>1, <2>2, <2>3
<1> QED
  BY <1>1, <1>2, <1>4, <1>5 DEF x

LEMMA OneTimeMovesOn ==
  ASSUME NEW z, NEW d \in DefinitionType, d.kind = "oneTime", NEW now \in Nat, NEW last \in Nat,
         now <= last
  PROVE  /\ NextOneTime(Setup(d, now), last) # Zero =>
              /\ NextOneTime(Setup(d, now), last) \in ToSet(d.times)
              /\ NextOneTime(Setup(d, now), last) > last
         /\ NextOneTime(Setup(d, now), last) = Zero => Later(ToSet(d.times), last) = {}
<1> DEFINE S == Later(ToSet(d.times), last)
           t == NextOneTime(Setup(d, now), last)
<1>1. t = LeastOrZero(S)
  BY OneTimeIsEarliest
<1>2. ToSet(d.times) \in SUBSET Nat
  BY DefinitionKinds, Elements DEF OneTimeDefinitions
<1>3. S \in SUBSET Nat /\ \A x \in S : x \in ToSet(d.times) /\ x > last
  BY <1>2 DEF Later
<1> HIDE DEF S, t
<1>4. S # {} => t \in S
  BY <1>1, <1>3, LeastNatural DEF LeastOrZero
<1>5. S = {} => t = Zero
  BY <1>1 DEF LeastOrZero
<1>6. t # Zero => t \in ToSet(d.times) /\ t > last
  BY <1>3, <1>4, <1>5
<1>7. t = Zero => S = {}
  BY <1>3, <1>4
<1> QED
  BY <1>6, <1>7 DEF S, t

LEMMA NextRunIsEarliest ==
  ASSUME NEW z \in ZoneType, KeepsDays(z), NEW d \in DefinitionType, d.kind # "cron",
         NEW now \in Nat,
         Accepted(z, d, now), NEW last \in Nat, d.kind = "oneTime" => now <= last,
         d.kind = "monthly" => KeepsMonths(z), OrderKept(z, d, last)
  PROVE  NextRun(z, Setup(d, now), last) = Earliest(z, d, last)
<1>2. CASE d.kind = "oneTime"
  <2>1. NextRun(z, Setup(d, now), last) = NextOneTime(Setup(d, now), last)
    BY <1>2, NextByKind
  <2> QED
    BY <1>2, <2>1, OneTimeIsEarliest
<1> DEFINE s == Setup(d, now)
<1>3. d.kind \in DayKinds => InOrder(z, d.policy, ToSet(d.atTimes))
  BY DEF OrderKept, InOrder, DayKinds
<1>4. CASE d.kind = "daily"
  <2>1. SetUpTimes(s, d)
    BY <1>4, DailySetUp
  <2>2. NextRun(z, s, last) = NextDaily(z, s, last)
    BY <1>4, NextByKind
  <2> HIDE DEF s
  <2>3. FollowsDueDays(z, s, d, last, NextDaily(z, s, last))
    BY <1>4, <2>1, DailyFollows
  <2>4. d.kind \in DayKinds
    BY <1>4 DEF DayKinds
  <2>5. NextDaily(z, s, last) = Earliest(z, d, last)
    BY <1>3, <2>1, <2>3, <2>4, FollowsLeast
  <2> QED
    BY <2>2, <2>5 DEF s
<1>5. CASE d.kind = "weekly"
  <2>1. SetUpTimes(s, d) /\ SetUpWeekdays(s, d)
    BY <1>5, WeeklySetUp
  <2>2. NextRun(z, s, last) = NextWeekly(z, s, last)
    BY <1>5, NextByKind
  <2> HIDE DEF s
  <2>3. FollowsDueDays(z, s, d, last, NextWeekly(z, s, last))
    BY <1>5, <2>1, WeeklyFollows
  <2>4. d.kind \in DayKinds
    BY <1>5 DEF DayKinds
  <2>5. NextWeekly(z, s, last) = Earliest(z, d, last)
    BY <1>3, <2>1, <2>3, <2>4, FollowsLeast
  <2> QED
    BY <2>2, <2>5 DEF s
<1>6. CASE d.kind = "monthly"
  <2>1. SetUpTimes(s, d) /\ SetUpMonthdays(s, d)
    BY <1>6, MonthlySetUp
  <2>2. NextRun(z, s, last) = NextMonthly(z, s, last)
    BY <1>6, NextByKind
  <2> HIDE DEF s
  <2>3. FollowsDueDays(z, s, d, last, NextMonthly(z, s, last))
    BY <1>6, <2>1, MonthlyFollows
  <2>4. d.kind \in DayKinds
    BY <1>6 DEF DayKinds
  <2>5. NextMonthly(z, s, last) = Earliest(z, d, last)
    BY <1>3, <2>1, <2>3, <2>4, FollowsLeast
  <2> QED
    BY <2>2, <2>5 DEF s
<1> QED
  BY <1>2, <1>4, <1>5, <1>6, DefinitionKinds

(* ... one of its times in any case...                                     *)
LEMMA FollowsRunsAtASetTime ==
  ASSUME NEW z \in ZoneType, KeepsDays(z), NEW s, NEW d, d.kind \in DayKinds, SetUpTimes(s, d),
         NEW last \in Nat, NEW result, FollowsDueDays(z, s, d, last, result), result # Zero
  PROVE  result \in Due(z, d, last) /\ result > last
<1>1. SomeOrZero(result, TimesDue(z, d, last))
  BY FollowsSome
<1>2. result \in TimesDue(z, d, last)
  BY <1>1 DEF SomeOrZero
<1>3. ToSet(d.atTimes) \in SUBSET (0 .. Units - 1) /\ d.policy \in Policies
  <2>1. ToSet(d.atTimes) \in SUBSET (0 .. Units - 1)
    BY SetUpRegular
  <2> QED
    BY <2>1 DEF SetUpTimes
<1>4. {t \in Due(z, d, last) : t > last} = TimesDue(z, d, last)
  BY <1>3, TimesDueAre
<1> QED
  BY <1>2, <1>4

LEMMA NextRunIsDue ==
  ASSUME NEW z \in ZoneType, KeepsDays(z), NEW d \in DefinitionType, d.kind # "cron",
         NEW now \in Nat,
         Accepted(z, d, now), NEW last \in Nat, d.kind = "oneTime" => now <= last,
         NextRun(z, Setup(d, now), last) # Zero
  PROVE  /\ NextRun(z, Setup(d, now), last) \in Due(z, d, last)
         /\ NextRun(z, Setup(d, now), last) > last
<1>2. CASE d.kind = "oneTime"
  <2>1. NextRun(z, Setup(d, now), last) = NextOneTime(Setup(d, now), last)
    BY <1>2, NextByKind
  <2>2. Due(z, d, last) = ToSet(d.times)
    BY <1>2 DEF Due
  <2> QED
    BY <1>2, <2>1, <2>2, OneTimeMovesOn
<1> DEFINE s == Setup(d, now)
<1>4. CASE d.kind = "daily"
  <2>1. SetUpTimes(s, d)
    BY <1>4, DailySetUp
  <2>2. NextRun(z, s, last) = NextDaily(z, s, last) /\ NextRun(z, s, last) # Zero
    BY <1>4, NextByKind
  <2> HIDE DEF s
  <2>3. FollowsDueDays(z, s, d, last, NextDaily(z, s, last))
    BY <1>4, <2>1, DailyFollows
  <2>4. d.kind \in DayKinds
    BY <1>4 DEF DayKinds
  <2>5. NextDaily(z, s, last) \in Due(z, d, last) /\ NextDaily(z, s, last) > last
    BY <2>1, <2>2, <2>3, <2>4, FollowsRunsAtASetTime
  <2> QED
    BY <2>2, <2>5 DEF s
<1>5. CASE d.kind = "weekly"
  <2>1. SetUpTimes(s, d) /\ SetUpWeekdays(s, d)
    BY <1>5, WeeklySetUp
  <2>2. NextRun(z, s, last) = NextWeekly(z, s, last) /\ NextRun(z, s, last) # Zero
    BY <1>5, NextByKind
  <2> HIDE DEF s
  <2>3. FollowsDueDays(z, s, d, last, NextWeekly(z, s, last))
    BY <1>5, <2>1, WeeklyFollows
  <2>4. d.kind \in DayKinds
    BY <1>5 DEF DayKinds
  <2>5. NextWeekly(z, s, last) \in Due(z, d, last) /\ NextWeekly(z, s, last) > last
    BY <2>1, <2>2, <2>3, <2>4, FollowsRunsAtASetTime
  <2> QED
    BY <2>2, <2>5 DEF s
<1>6. CASE d.kind = "monthly"
  <2>1. SetUpTimes(s, d) /\ SetUpMonthdays(s, d)
    BY <1>6, MonthlySetUp
  <2>2. NextRun(z, s, last) = NextMonthly(z, s, last) /\ NextRun(z, s, last) # Zero
    BY <1>6, NextByKind
  <2> HIDE DEF s
  <2>3. NextMonthly(z, s, last) \in Due(z, d, last) /\ NextMonthly(z, s, last) > last
    BY <1>6, <2>1, <2>2, MonthlyRunsOnDueDays
  <2> QED
    BY <2>2, <2>3 DEF s
<1> QED
  BY <1>2, <1>4, <1>5, <1>6, DefinitionKinds

(* ... and there is one.                                                   *)
LEMMA RunToCome ==
  ASSUME NEW z \in ZoneType, KeepsDays(z), NEW d \in DefinitionType, d.kind # "cron",
         NEW now \in Nat, Accepted(z, d, now)
  PROVE  \/ NextRun(z, Setup(d, now), now) # Zero
         \/ d.kind = "monthly"
         \/ d.kind = "oneTime" /\ d.startImmediately
<1>2. CASE d.kind = "oneTime"
  <2>1. NextRun(z, Setup(d, now), now) = NextOneTime(Setup(d, now), now)
    BY <1>2, NextByKind
  <2>2. d.startImmediately \/ FutureTimes(d, now) # <<>>
    BY <1>2 DEF Accepted
  <2>3. FutureTimes(d, now) # <<>> => Later(ToSet(d.times), now) # {}
    BY <1>2, DefinitionKinds, FutureTimesAre
  <2>4. now <= now
    OBVIOUS
  <2>5. Later(ToSet(d.times), now) # {} => NextOneTime(Setup(d, now), now) # Zero
    BY <1>2, <2>4, OneTimeMovesOn
  <2> QED
    BY <1>2, <2>1, <2>2, <2>3, <2>5
<1> DEFINE s == Setup(d, now)
<1>3. CASE d.kind = "daily"
  <2>1. SetUpTimes(s, d)
    BY <1>3, DailySetUp
  <2>2. NextRun(z, s, now) = NextDaily(z, s, now)
    BY <1>3, NextByKind
  <2> HIDE DEF s
  <2>3. FollowsDueDays(z, s, d, now, NextDaily(z, s, now))
    BY <1>3, <2>1, DailyFollows
  <2>4. SomeOrZero(NextDaily(z, s, now), TimesDue(z, d, now))
    BY <2>1, <2>3, FollowsSome
  <2>5. TimesDue(z, d, now) # {}
    BY <1>3, <2>1, DailyToCome
  <2>6. NextDaily(z, s, now) # Zero
    BY <2>4, <2>5 DEF SomeOrZero, TimesDue, TimesOn
  <2> QED
    BY <2>2, <2>6 DEF s
<1>4. CASE d.kind = "weekly"
  <2>1. SetUpTimes(s, d) /\ SetUpWeekdays(s, d)
    BY <1>4, WeeklySetUp
  <2>2. NextRun(z, s, now) = NextWeekly(z, s, now)
    BY <1>4, NextByKind
  <2> HIDE DEF s
  <2>3. FollowsDueDays(z, s, d, now, NextWeekly(z, s, now))
    BY <1>4, <2>1, WeeklyFollows
  <2>4. SomeOrZero(NextWeekly(z, s, now), TimesDue(z, d, now))
    BY <2>1, <2>3, FollowsSome
  <2>5. TimesDue(z, d, now) # {}
    BY <1>4, <2>1, WeeklyToCome
  <2>6. NextWeekly(z, s, now) # Zero
    BY <2>4, <2>5 DEF SomeOrZero, TimesDue, TimesOn
  <2> QED
    BY <2>2, <2>6 DEF s
<1> QED
  BY <1>2, <1>3, <1>4, DefinitionKinds

-----------------------------------------------------------------------------
(* What setup has made was made of an accepted definition; the times that  *)
(* it took off those of a one-time job are past.                           *)
MadeBySetup ==
  schedule # None =>
    \E now \in 1 .. Horizon :
      /\ Accepted(zone, definition, now) /\ schedule = Setup(definition, now)
      /\ definition.kind = "oneTime" => now <= lastRun

LEMMA Types ==
  ASSUME TypeOK
  PROVE  /\ zone \in ZoneType /\ definition \in DefinitionType /\ lastRun \in Nat
         /\ 1 .. Horizon \in SUBSET Nat
  BY ZoneAssumption, DefinitionAssumption, ConstantAssumption DEF TypeOK, ZoneType

(* The invariant that the theorems below rest on: a chain follows what     *)
(* setup made of an accepted definition, at a time that is past            *)
(* (job.go:299-686, scheduler.go:525-539).                                 *)
THEOREM AlwaysMadeBySetup == Spec => []MadeBySetup
<1>1. Init => MadeBySetup
  BY DEF Init, MadeBySetup
<1>2. TypeOK /\ MadeBySetup /\ [Next]_vars => MadeBySetup'
  <2> SUFFICES ASSUME TypeOK, MadeBySetup, [Next]_vars
               PROVE  MadeBySetup'
    OBVIOUS
  <2>1. CASE SetsUp
    <3>1. /\ Accepted(zone, definition, lastRun) /\ schedule' = Setup(definition, lastRun)
          /\ UNCHANGED <<zone, definition, lastRun>>
      BY <2>1 DEF SetsUp
    <3>2. lastRun \in 1 .. Horizon /\ lastRun <= lastRun
      BY Types DEF TypeOK
    <3> QED
      BY <3>1, <3>2 DEF MadeBySetup
  <2>2. CASE Runs
    <3>1. /\ schedule # None /\ NextRun(zone, schedule, lastRun) \in 1 .. Horizon
          /\ lastRun' = NextRun(zone, schedule, lastRun)
          /\ UNCHANGED <<zone, definition, schedule>>
      BY <2>2 DEF Runs
    <3>2. PICK now \in 1 .. Horizon :
            /\ Accepted(zone, definition, now) /\ schedule = Setup(definition, now)
            /\ definition.kind = "oneTime" => now <= lastRun
      BY <3>1 DEF MadeBySetup
    <3>3. definition.kind = "oneTime" => now <= lastRun'
      <4> SUFFICES ASSUME definition.kind = "oneTime"
                   PROVE  now <= lastRun'
        OBVIOUS
      <4> DEFINE t == NextOneTime(Setup(definition, now), lastRun)
      <4>1. now \in Nat /\ lastRun \in Nat /\ definition \in DefinitionType
        BY Types
      <4>2. lastRun' = t
        BY <3>1, <3>2, <4>1, NextByKind
      <4>3. lastRun' \in Nat \ {0}
        BY <3>1, Types
      <4>4. t # Zero => t > lastRun
        BY <3>2, <4>1, OneTimeMovesOn
      <4> HIDE DEF t
      <4> QED
        BY <3>2, <4>1, <4>2, <4>3, <4>4
    <3> QED
      BY <3>1, <3>2, <3>3 DEF MadeBySetup
  <2>3. CASE UNCHANGED vars
    BY <2>3 DEF vars, MadeBySetup
  <2> QED
    BY <2>1, <2>2, <2>3 DEF Next
<1> QED
  BY <1>1, <1>2, TypeCorrect, PTL DEF Spec

(* Every run of a chain is the first of the set times after the run before *)
(* it, and the chain ends only when there is none (job.go:1307-1599,       *)
(* 1632-1644).                                                             *)
THEOREM AlwaysEarliest == Spec => []NextIsEarliest
<1>1. TypeOK /\ MadeBySetup => NextIsEarliest
  <2> SUFFICES ASSUME TypeOK, MadeBySetup, schedule # None,
                      OrderKept(zone, definition, lastRun),
                      KeepsDays(Location(zone, definition)),
                      RepeatsAlike(zone, Location(zone, definition)),
                      definition.kind = "monthly" => KeepsMonths(zone)
               PROVE  NextRun(zone, schedule, lastRun) = Earliest(zone, definition, lastRun)
    BY DEF NextIsEarliest
  <2>1. PICK now \in 1 .. Horizon :
          /\ Accepted(zone, definition, now) /\ schedule = Setup(definition, now)
          /\ definition.kind = "oneTime" => now <= lastRun
    BY DEF MadeBySetup
  <2>2. now \in Nat /\ zone \in ZoneType /\ definition \in DefinitionType /\ lastRun \in Nat
    BY Types
  <2>3. CASE definition.kind = "cron"
    BY <2>1, <2>2, <2>3, CronRuns
  <2>4. CASE definition.kind # "cron"
    <3>1. KeepsDays(zone)
      BY <2>2, <2>4, LocationIsZone
    <3> QED
      BY <2>1, <2>2, <2>4, <3>1, NextRunIsEarliest
  <2> QED
    BY <2>3, <2>4
<1> QED
  BY <1>1, TypeCorrect, AlwaysMadeBySetup, PTL

(* Every run is at a set time of a due day, and after the one before, even *)
(* where a transition puts the set times out of order (job.go:1401-1452).  *)
THEOREM AlwaysAtASetTime == Spec => []RunsAtASetTime
<1>1. TypeOK /\ MadeBySetup => RunsAtASetTime
  <2> SUFFICES ASSUME TypeOK, MadeBySetup, schedule # None,
                      NextRun(zone, schedule, lastRun) # Zero,
                      KeepsDays(Location(zone, definition)),
                      RepeatsAlike(zone, Location(zone, definition))
               PROVE  /\ NextRun(zone, schedule, lastRun) \in Due(zone, definition, lastRun)
                      /\ NextRun(zone, schedule, lastRun) > lastRun
    BY DEF RunsAtASetTime
  <2>1. PICK now \in 1 .. Horizon :
          /\ Accepted(zone, definition, now) /\ schedule = Setup(definition, now)
          /\ definition.kind = "oneTime" => now <= lastRun
    BY DEF MadeBySetup
  <2>2. now \in Nat /\ zone \in ZoneType /\ definition \in DefinitionType /\ lastRun \in Nat
    BY Types
  <2>3. CASE definition.kind = "cron"
    BY <2>1, <2>2, <2>3, CronRuns
  <2>4. CASE definition.kind # "cron"
    <3>1. KeepsDays(zone)
      BY <2>2, <2>4, LocationIsZone
    <3> QED
      BY <2>1, <2>2, <2>4, <3>1, NextRunIsDue
  <2> QED
    BY <2>3, <2>4
<1> QED
  BY <1>1, TypeCorrect, AlwaysMadeBySetup, PTL

(* What setup accepts has a run to come, whenever it is set up             *)
(* (job.go:280-282, 430, 655-663).                                         *)
THEOREM AcceptedAlwaysWillRun == Spec => []AcceptedWillRun
<1>1. TypeOK => AcceptedWillRun
  <2> SUFFICES ASSUME TypeOK, KeepsDays(Location(zone, definition))
               PROVE  IF Accepted(zone, definition, lastRun)
                      THEN \/ NextRun(zone, Setup(definition, lastRun), lastRun) # Zero
                           \/ definition.kind = "monthly"
                           \/ definition.kind = "oneTime" /\ definition.startImmediately
                      ELSE definition.kind = "oneTime" => Earliest(zone, definition, lastRun) = Zero
    BY DEF AcceptedWillRun
  <2>1. zone \in ZoneType /\ definition \in DefinitionType /\ lastRun \in Nat
    BY Types
  <2>2. CASE Accepted(zone, definition, lastRun)
    <3>1. definition.kind # "cron" => KeepsDays(zone)
      BY <2>1, LocationIsZone
    <3> QED
      BY <2>1, <2>2, <3>1, CronRuns, RunToCome
  <2>3. CASE ~Accepted(zone, definition, lastRun) /\ definition.kind = "oneTime"
    <3>1. FutureTimes(definition, lastRun) = <<>>
      BY <2>3 DEF Accepted
    <3>2. Later(ToSet(definition.times), lastRun) = {}
      BY <2>1, <2>3, <3>1, DefinitionKinds, FutureTimesAre
    <3>3. Earliest(zone, definition, lastRun) = LeastOrZero(Later(ToSet(definition.times), lastRun))
      <4>1. lastRun <= lastRun
        BY <2>1
      <4> QED
        BY <2>1, <2>3, <4>1, OneTimeIsEarliest
    <3> QED
      BY <2>3, <3>2, <3>3 DEF LeastOrZero
  <2> QED
    BY <2>2, <2>3
<1> QED
  BY <1>1, TypeCorrect, PTL

(* So a step that changes the last run moves it forward, for every kind of *)
(* job (scheduler.go:525-539).                                             *)
THEOREM EveryRunMovesForward ==
  Spec => [][KeepsDays(zone) /\ lastRun' # lastRun => lastRun' > lastRun]_vars
<1>1. TypeOK /\ RunsAtASetTime /\ NextIsAhead /\ [Next]_vars =>
        [KeepsDays(zone) /\ lastRun' # lastRun => lastRun' > lastRun]_vars
  <2> SUFFICES ASSUME TypeOK, RunsAtASetTime, NextIsAhead, Next, KeepsDays(zone),
                      lastRun' # lastRun
               PROVE  lastRun' > lastRun
    OBVIOUS
  <2>1. Runs
    BY DEF Next, SetsUp
  <2>2. /\ schedule # None /\ lastRun' = NextRun(zone, schedule, lastRun)
        /\ lastRun' \in 1 .. Horizon
    BY <2>1 DEF Runs
  <2>3. NextRun(zone, schedule, lastRun) # Zero
    BY <2>2, Types
  <2>4. CASE definition.kind = "cron"
    BY <2>2, <2>3, <2>4 DEF NextIsAhead, RepeatsByDay, After
  <2>5. CASE definition.kind # "cron"
    <3>1. /\ Location(zone, definition) = zone
          /\ RepeatsAlike(zone, Location(zone, definition))
      BY <2>5, Types, LocationIsZone
    <3> QED
      BY <2>2, <2>3, <3>1 DEF RunsAtASetTime
  <2> QED
    BY <2>4, <2>5
<1> QED
  BY <1>1, TypeCorrect, AlwaysAtASetTime, ChainIsAhead, PTL DEF Spec

=============================================================================
