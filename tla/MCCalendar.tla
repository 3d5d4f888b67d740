------------------------------ MODULE MCCalendar ------------------------------
(***************************************************************************)
(* A small calendar for Calendar: days of six readings of the clock, years *)
(* of four months of five and four days, and one transition of two         *)
(* readings, such as an hour is for set times on the half hours.           *)
(***************************************************************************)
EXTENDS Calendar

FourMonths == <<5, 4, 5, 5>>

Zone(at, len, west) == [at |-> at, len |-> len, west |-> west]

(* Day 10 is the second of the third month.                                *)
PlainZone == Zone(1000, 0, TRUE)
GapWest == Zone(62, 2, TRUE)
GapEast == Zone(62, 2, FALSE)
BackWest == Zone(64, -2, TRUE)
BackEast == Zone(64, -2, FALSE)
MidnightEast == Zone(60, 2, FALSE)

OrdinaryZones == {PlainZone, GapWest, GapEast, BackWest, BackEast, MidnightEast}

ASSUME OrdinaryAssumption == \A z \in OrdinaryZones : KeepsDays(z) /\ KeepsMonths(z)

AtTimes == {<<2>>, <<3, 0, 3>>, <<1, 5>>, <<4, 3>>}

Daily(interval, atTimes, policy) ==
  [kind |-> "daily", interval |-> interval, atTimes |-> atTimes, policy |-> policy]

Weekly(interval, days, atTimes, policy) ==
  [kind |-> "weekly", interval |-> interval, days |-> days, atTimes |-> atTimes,
   policy |-> policy]

Monthly(interval, days, atTimes, policy) ==
  [kind |-> "monthly", interval |-> interval, days |-> days, atTimes |-> atTimes,
   policy |-> policy]

OneTime(times, startImmediately) ==
  [kind |-> "oneTime", times |-> times, startImmediately |-> startImmediately]

Cron(days, units, policy, location) ==
  [kind |-> "cron", days |-> days, units |-> units, policy |-> policy, location |-> location]

(* Given in any order, and twice; the last ones are turned away.           *)
AllDefinitions ==
  {Daily(n, a, p) : n \in {1, 3}, a \in AtTimes, p \in Policies}
  \cup {Weekly(n, d, a, p) :
          n \in {1, 2}, d \in {<<0>>, <<6, 3, 6>>}, a \in AtTimes, p \in Policies}
  \cup {Monthly(n, d, a, p) :
          n \in {1, 2, 4}, d \in {<<5, 2, 5>>, <<-1, 1, -5>>}, a \in AtTimes, p \in Policies}
  \cup {Cron(d, u, p, None) : d \in {0 .. 6, {0, 3}}, u \in {{2}, {3}, {1, 5}}, p \in Policies}
  \cup {Cron(0 .. 6, u, p, x) : u \in {{2}, {3}, {1, 5}}, p \in {"default", "after"},
                               x \in {PlainZone, GapWest, BackWest, BackEast}}
  \cup {OneTime(<<70, 44, 50, 71, 50>>, FALSE), OneTime(<<55>>, FALSE),
        OneTime(<<>>, TRUE),
        Daily(0, <<2>>, "default"), Daily(1, <<2, 6>>, "default"),
        Weekly(0, <<3>>, <<2>>, "default"),
        Monthly(1, <<5, 0>>, <<2>>, "default"), Monthly(1, <<-6>>, <<2>>, "default")}

SixDays == 40 .. 70

=============================================================================
