---------------------------- MODULE JobTimes_proofs ----------------------------
(***************************************************************************)
(* Theorems about the instants for which JobTable arms its timers, for     *)
(* every set of job definitions, ids, timers, runs and every bound: never  *)
(* in the past, always forward, and as NextRuns foretold.                  *)
(*                                                                         *)
(* Here the loops of advancePastNow, advanceNextPastDuplicates and         *)
(* NextRuns matter.  Each follows next() while it moves forward; what      *)
(* holds of all their results is proved by taking the latest instant from  *)
(* which it would fail: the loop goes on from there to a later one.        *)
(***************************************************************************)
EXTENDS JobChain_proofs, WellFoundedInduction

USE DEF Zero, lifecycle, history

-----------------------------------------------------------------------------
(* Recursion along next().                                                 *)

(* A non-empty set of naturals has a least element.                        *)
LEMMA LeastNatural ==
  ASSUME NEW S \in SUBSET Nat, S # {}
  PROVE  \E n \in S : \A m \in S : n <= m
<1> DEFINE R == {p \in Nat \X Nat : p[1] < p[2]}
<1>1. IsWellFoundedOn(R, Nat)
  BY NatLessThanWellFounded DEF OpToRel
<1>2. \A m, n \in Nat : m < n => <<m, n>> \in R
  OBVIOUS
<1> HIDE DEF R
<1>3. PICK n \in S : \A m \in S : ~ (<<m, n>> \in R)
  BY <1>1, WFMin
<1>4. \A m \in S : m \in Nat /\ n \in Nat /\ ~(m < n)
  BY <1>2, <1>3
<1> QED
  BY <1>4

(* The latest of a set of instants.                                        *)
LEMMA LatestInstant ==
  ASSUME NEW S \in SUBSET Times, S # {}
  PROVE  \E t \in S : \A u \in S : u <= t
<1> DEFINE D == {Horizon - t : t \in S}
<1>1. D \in SUBSET Nat /\ D # {}
  <2>1. \A t \in S : Horizon - t \in Nat
    BY HorizonAssumption DEF Times
  <2> QED
    BY <2>1
<1> HIDE DEF D
<1>2. PICK n \in D : \A m \in D : n <= m
  BY <1>1, LeastNatural
<1>3. PICK t \in S : n = Horizon - t
  BY <1>2 DEF D
<1>4. \A u \in S : Horizon - u \in D
  BY DEF D
<1>5. \A u \in S : n <= Horizon - u /\ u \in Int /\ t \in Int
  BY <1>2, <1>4 DEF Times
<1> QED
  BY <1>3, <1>5, HorizonAssumption DEF Times

(* A recursion that follows next for as long as it moves forward defines a *)
(* function: next never leaves Times, so it ends.                          *)
Recurs(f, next, B, H) ==
  \A u \in Times : f[u] = IF next[u] > u THEN H[u][f[next[u]]] ELSE B[u]

LEMMA LoopDefined ==
  ASSUME NEW next \in [Times -> Times], NEW V,
         NEW B \in [Times -> V], NEW H \in [Times -> [V -> V]]
  PROVE  \E f \in [Times -> V] : Recurs(f, next, B, H)
<1> DEFINE Up(m) == {u \in Times : u > Horizon - m}
           Holds(f, u) == f[u] = IF next[u] > u THEN H[u][f[next[u]]] ELSE B[u]
           Upto(m) == \E f \in [Up(m) -> V] : \A u \in Up(m) : Holds(f, u)
           Bad == {m \in Nat : m <= Horizon + 1 /\ ~Upto(m)}
<1>1. Upto(0)
  <2>1. Up(0) = {}
    BY HorizonAssumption DEF Times
  <2>2. [u \in {} |-> B[u]] \in [Up(0) -> V]
    BY <2>1
  <2> QED
    BY <2>1, <2>2
<1>2. ASSUME NEW m \in Nat, m < Horizon + 1, Upto(m)
      PROVE  Upto(m + 1)
  <2>1. PICK f \in [Up(m) -> V] : \A u \in Up(m) : Holds(f, u)
    BY <1>2
  <2> DEFINE g == [u \in Up(m + 1) |-> IF u \in Up(m) THEN f[u]
                                       ELSE IF next[u] > u THEN H[u][f[next[u]]] ELSE B[u]]
  <2>2. ASSUME NEW u \in Up(m + 1), next[u] > u
        PROVE  next[u] \in Up(m) /\ u \in Times
    <3>1. u \in Times /\ next[u] \in Times /\ u > Horizon - (m + 1)
      OBVIOUS
    <3>2. next[u] > Horizon - m
      BY <2>2, <3>1, HorizonAssumption DEF Times
    <3> QED
      BY <3>1, <3>2
  <2>3. Up(m) \subseteq Up(m + 1) /\ Up(m + 1) \subseteq Times
    BY HorizonAssumption DEF Times
  <2> HIDE DEF Up
  <2>4. \A u \in Up(m) : g[u] = f[u]
    BY <2>3
  <2>5. \A u \in Up(m + 1) : Holds(g, u)
    <3> TAKE u \in Up(m + 1)
    <3>1. next[u] > u => g[next[u]] = f[next[u]]
      BY <2>2, <2>4
    <3> QED
      BY <2>1, <2>4, <3>1
  <2>6. \A u \in Up(m + 1) : g[u] \in V
    <3> TAKE u \in Up(m + 1)
    <3>1. u \in Times
      BY <2>3
    <3>2. next[u] > u => f[next[u]] \in V /\ H[u] \in [V -> V]
      BY <2>1, <2>2, <3>1
    <3>3. B[u] \in V
      BY <3>1
    <3>4. u \in Up(m) => f[u] \in V
      BY <2>1
    <3> QED
      BY <3>2, <3>3, <3>4
  <2>7. g \in [Up(m + 1) -> V]
    BY <2>6
  <2> HIDE DEF g
  <2> QED
    BY <2>5, <2>7
<1>3. Upto(Horizon + 1)
  <2> HIDE DEF Upto
  <2>1. SUFFICES ASSUME Bad # {} PROVE FALSE
    BY HorizonAssumption
  <2>2. PICK m \in Bad : \A n \in Bad : m <= n
    BY <2>1, LeastNatural
  <2>3. m \in Nat /\ m # 0 /\ m <= Horizon + 1 /\ ~Upto(m)
    BY <1>1, <2>2
  <2>4. m - 1 \in Nat /\ m - 1 < Horizon + 1 /\ (m - 1) + 1 = m /\ ~(m <= m - 1)
    BY <2>3, HorizonAssumption
  <2> DEFINE k == m - 1
  <2>5. k \in Nat /\ k < Horizon + 1 /\ k <= Horizon + 1 /\ k \notin Bad
    BY <2>2, <2>3, <2>4, HorizonAssumption
  <2>6. k + 1 = m
    BY <2>4
  <2> HIDE DEF k
  <2>7. Upto(k)
    BY <2>5
  <2>8. Upto(k + 1)
    BY <1>2, <2>5, <2>7
  <2> QED
    BY <2>3, <2>6, <2>8
<1>4. Up(Horizon + 1) = Times
  BY HorizonAssumption DEF Times
<1> HIDE DEF Up
<1> QED
  BY <1>3, <1>4 DEF Recurs

(* f[u] is where a loop from u ends that follows next until it meets final, *)
(* and Zero if next stops moving forward before.                           *)
Loop(f, next, final) ==
  \A u \in Times :
    f[u] = IF u \in final THEN u
           ELSE IF Progress(next[u], u) THEN f[next[u]] ELSE Zero

(* What a definition holds.                                                *)
LEMMA NextType ==
  ASSUME NEW d \in Defs
  PROVE  Def[d].next \in [Times -> Times] /\ Def[d].stopTime \in Times /\ Def[d].startTime \in Times
  BY DefAssumption DEF DefType

(* There is such a loop for every next and final.                          *)
LEMMA LoopExists ==
  ASSUME NEW next \in [Times -> Times], NEW final
  PROVE  \E f \in [Times -> Times] : Loop(f, next, final)
<1> DEFINE B == [u \in Times |-> IF u \in final THEN u ELSE Zero]
           H == [u \in Times |-> [v \in Times |-> IF u \in final THEN u ELSE v]]
<1>1. B \in [Times -> Times] /\ H \in [Times -> [Times -> Times]]
  BY HorizonAssumption DEF Times
<1>2. /\ \A u \in Times : B[u] = IF u \in final THEN u ELSE Zero
      /\ \A u, v \in Times : H[u][v] = IF u \in final THEN u ELSE v
  OBVIOUS
<1> HIDE DEF B, H
<1>3. PICK f \in [Times -> Times] : Recurs(f, next, B, H)
  BY <1>1, LoopDefined
<1>4. ASSUME NEW u \in Times
      PROVE  f[u] = IF u \in final THEN u
                    ELSE IF Progress(next[u], u) THEN f[next[u]] ELSE Zero
  <2>1. next[u] \in Times /\ f[next[u]] \in Times
    OBVIOUS
  <2>2. Progress(next[u], u) <=> next[u] > u
    BY <2>1 DEF Progress, Times
  <2> QED
    BY <1>2, <1>3, <2>1, <2>2 DEF Recurs
<1> QED
  BY <1>4 DEF Loop

(* Such a loop only moves forward.                                         *)
LEMMA LoopEnds ==
  ASSUME NEW next \in [Times -> Times], NEW final, NEW f, Loop(f, next, final),
         NEW t \in Times
  PROVE  \/ f[t] = Zero
         \/ f[t] \in Times /\ f[t] \in final /\ f[t] >= t
<1> DEFINE Ends(u) == f[u] = Zero \/ (f[u] \in Times /\ f[u] \in final /\ f[u] >= u)
           Bad == {u \in Times : ~Ends(u)}
<1>1. SUFFICES ASSUME Bad # {} PROVE FALSE
  OBVIOUS
<1>2. PICK u \in Bad : \A v \in Bad : v <= u
  BY <1>1, LatestInstant
<1>3. u \in Times /\ ~Ends(u) /\ next[u] \in Times
  OBVIOUS
<1>4. u \notin final /\ Progress(next[u], u) /\ f[u] = f[next[u]]
  BY <1>3 DEF Loop, Times
<1>5. next[u] > u /\ ~(next[u] <= u)
  BY <1>3, <1>4 DEF Progress, Times
<1>6. Ends(next[u])
  BY <1>2, <1>3, <1>5
<1> QED
  BY <1>3, <1>4, <1>5, <1>6 DEF Times

(* advancePastNow is one, which ends at the first instant that is not past.*)
LEMMA PastNow ==
  ASSUME NEW d \in Defs, NEW t \in Times, NEW clock \in Times
  PROVE  \E f : /\ Loop(f, Def[d].next, {u \in Times : u >= clock})
                /\ AdvancePastNow(d, t, clock) = f[t]
<1> DEFINE next == Def[d].next
           Is(f) == f = [u \in Times |-> IF u >= clock THEN u
                          ELSE IF Progress(Def[d].next[u], u) THEN f[Def[d].next[u]]
                          ELSE Zero]
<1>1. AdvancePastNow(d, t, clock) = (CHOOSE f : Is(f))[t]
  BY DEF AdvancePastNow
<1>2. \E f : Is(f)
  <2>1. PICK f \in [Times -> Times] : Loop(f, next, {u \in Times : u >= clock})
    BY NextType, LoopExists
  <2>2. f = [u \in Times |-> IF u >= clock THEN u
                          ELSE IF Progress(Def[d].next[u], u) THEN f[Def[d].next[u]]
                          ELSE Zero]
    BY <2>1 DEF Loop
  <2> QED
    BY <2>2
<1>3. ASSUME NEW f, Is(f)
      PROVE  Loop(f, next, {u \in Times : u >= clock})
  BY <1>3 DEF Loop
<1> HIDE DEF Is
<1>4. Is(CHOOSE f : Is(f))
  BY <1>2
<1> QED
  BY <1>1, <1>3, <1>4

(* advanceNextPastDuplicates is one, which ends at the first instant that  *)
(* is not announced.                                                       *)
LEMMA PastDuplicates ==
  ASSUME NEW d \in Defs, NEW t \in Times, NEW announced
  PROVE  \E f : /\ Loop(f, Def[d].next, Times \ announced)
                /\ AdvanceNextPastDuplicates(d, t, announced) = f[t]
<1> DEFINE next == Def[d].next
           Is(f) == f = [u \in Times |-> IF u \notin announced THEN u
                          ELSE IF Progress(Def[d].next[u], u) THEN f[Def[d].next[u]]
                          ELSE Zero]
<1>1. AdvanceNextPastDuplicates(d, t, announced) = (CHOOSE f : Is(f))[t]
  BY DEF AdvanceNextPastDuplicates
<1>2. \E f : Is(f)
  <2>1. PICK f \in [Times -> Times] : Loop(f, next, Times \ announced)
    BY NextType, LoopExists
  <2>2. f = [u \in Times |-> IF u \notin announced THEN u
                          ELSE IF Progress(Def[d].next[u], u) THEN f[Def[d].next[u]]
                          ELSE Zero]
    BY <2>1 DEF Loop
  <2> QED
    BY <2>2
<1>3. ASSUME NEW f, Is(f)
      PROVE  Loop(f, next, Times \ announced)
  BY <1>3 DEF Loop
<1> HIDE DEF Is
<1>4. Is(CHOOSE f : Is(f))
  BY <1>2
<1> QED
  BY <1>1, <1>3, <1>4

(* Latest is defined for announced runs.                                   *)
LEMMA LatestOf ==
  ASSUME NEW S \in SUBSET Times, S # {}
  PROVE  Latest(S) \in S /\ \A u \in S : u <= Latest(S)
  BY LatestInstant DEF Latest

(* A first run that is armed is not in the past.                           *)
LEMMA FirstRunAhead ==
  ASSUME NEW d \in Defs, NEW s \in Times, NEW t \in Times, FirstRun(d, s, t).act = "arm"
  PROVE  FirstRun(d, s, t).at >= t
<1> DEFINE first == IF s # Zero THEN s ELSE Def[d].next[t]
<1>1. first \in Times
  BY NextType
<1>2. ASSUME first < t
      PROVE  AdvancePastNow(d, first, t) # Zero => AdvancePastNow(d, first, t) >= t
  <2> HIDE DEF first
  <2>1. PICK f : /\ Loop(f, Def[d].next, {u \in Times : u >= t})
                 /\ AdvancePastNow(d, first, t) = f[first]
    BY <1>1, PastNow
  <2>2. f[first] # Zero => f[first] \in {u \in Times : u >= t}
    BY <1>1, <2>1, LoopEnds, NextType
  <2> QED
    BY <2>1, <2>2
<1>3. CASE first < t
  BY <1>1, <1>2, <1>3 DEF FirstRun, LateFirstRun, ArmBeforeStop, Fire, ArmAt, Drop
<1>4. CASE ~(first < t)
  <2>1. FirstRun(d, s, t).at = first
    BY <1>4 DEF FirstRun, ArmBeforeStop, Fire, ArmAt, Drop
  <2> QED
    BY <1>1, <1>4, <2>1 DEF Times
<1> QED
  BY <1>3, <1>4

(* The fields of a job that its rescheduling reads.                        *)
Timed(j) ==
  /\ j.def \in Defs /\ j.nextScheduled \in SUBSET Times
  /\ j.startTime \in Times /\ j.lastRun \in Times

(* Where the two loops lead from the run that next() gives.                *)
LEMMA NextRunLoops ==
  ASSUME NEW j, Timed(j), NEW t \in Times, NextRun(j, t).act = "arm"
  PROVE  LET next == Def[j.def].next
             first == next[ScheduleFrom(j, t)]
             at == NextRun(j, t).at
         IN /\ ScheduleFrom(j, t) \in Times
            /\ first \in Times /\ first # Zero
            /\ at \in Times /\ at \notin j.nextScheduled
            /\ at >= first /\ at >= t
            /\ ~AtOrPastStop(j.def, at)
            /\ \E future, f, g :
                 /\ future \in Times /\ future # Zero
                 /\ future = first \/ (first < t /\ future = f[first])
                 /\ future >= first
                 /\ at = g[future] /\ at >= future
                 /\ Loop(f, next, {u \in Times : u >= t})
                 /\ Loop(g, next, Times \ j.nextScheduled)
<1> DEFINE d == j.def
           next == Def[j.def].next
           from == ScheduleFrom(j, t)
           first == next[from]
           future == IF first < t THEN AdvancePastNow(d, first, t) ELSE first
           at == AdvanceNextPastDuplicates(d, future, j.nextScheduled)
<1>1. d \in Defs /\ from \in Times
  BY LatestOf DEF Timed, ScheduleFrom
<1>2. next \in [Times -> Times] /\ first \in Times
  BY <1>1, NextType
<1>3. first # Zero /\ future # Zero /\ at # Zero /\ ~AtOrPastStop(d, at)
      /\ NextRun(j, t).at = at
  BY DEF NextRun, ArmBeforeStop, Drop, Leave, ArmAt
<1> HIDE DEF from, first, next
<1>4. PICK f : /\ Loop(f, next, {u \in Times : u >= t})
               /\ AdvancePastNow(d, first, t) = f[first]
  BY <1>1, <1>2, PastNow DEF next
<1>5. future \in Times /\ future >= t /\ future >= first
      /\ (future = first \/ (first < t /\ future = f[first]))
  <2>1. CASE first < t
    <3>1. future = f[first] /\ f[first] # Zero
      BY <1>3, <1>4, <2>1
    <3>2. f[first] \in Times /\ f[first] \in {u \in Times : u >= t} /\ f[first] >= first
      BY <1>2, <1>4, <3>1, LoopEnds
    <3> QED
      BY <2>1, <3>1, <3>2
  <2>2. CASE ~(first < t)
    <3>1. future = first
      BY <2>2
    <3> HIDE DEF future
    <3> QED
      BY <1>2, <2>2, <3>1, HorizonAssumption DEF Times
  <2> QED
    BY <2>1, <2>2
<1> HIDE DEF future
<1>6. PICK g : /\ Loop(g, next, Times \ j.nextScheduled)
               /\ at = g[future]
  BY <1>1, <1>5, PastDuplicates DEF next
<1>7. at \in Times /\ at \in Times \ j.nextScheduled /\ at >= future
  <2>1. g[future] # Zero
    BY <1>3, <1>6
  <2> HIDE DEF at
  <2> QED
    BY <1>2, <1>5, <1>6, <2>1, LoopEnds
<1>8. at >= first /\ at >= t
  BY <1>2, <1>5, <1>7 DEF Times
<1> HIDE DEF at
<1> QED
  BY <1>1, <1>2, <1>3, <1>4, <1>5, <1>6, <1>7, <1>8 DEF from, first, next

-----------------------------------------------------------------------------
(* What NextRuns foretells from an instant t on.                           *)
Foretells(g, d) ==
  \A t \in Times :
    g[t] = LET next == Def[d].next[t] IN
           IF next = Zero \/ AtOrPastStop(d, next) THEN {}
           ELSE {next} \cup (IF next > t THEN g[next] ELSE {})

(* There is such a function for every definition.                          *)
LEMMA ForetellsExists ==
  ASSUME NEW d \in Defs
  PROVE  \E g \in [Times -> SUBSET Times] : Foretells(g, d)
<1> DEFINE next == Def[d].next
           Last(u) == next[u] = Zero \/ AtOrPastStop(d, next[u])
           B == [u \in Times |-> IF Last(u) THEN {} ELSE {next[u]}]
           H == [u \in Times |-> [v \in SUBSET Times |->
                   IF Last(u) THEN {} ELSE {next[u]} \cup v]]
<1>1. next \in [Times -> Times]
  BY NextType
<1>2. /\ \A u \in Times : B[u] = IF Last(u) THEN {} ELSE {next[u]}
      /\ \A u \in Times, v \in SUBSET Times : H[u][v] = IF Last(u) THEN {} ELSE {next[u]} \cup v
  OBVIOUS
<1> HIDE DEF next
<1>3. B \in [Times -> SUBSET Times] /\ H \in [Times -> [SUBSET Times -> SUBSET Times]]
  <2>1. \A u \in Times : next[u] \in Times
    BY <1>1
  <2> HIDE DEF Last
  <2>2. \A u \in Times : (IF Last(u) THEN {} ELSE {next[u]}) \in SUBSET Times
    BY <2>1
  <2>3. \A u \in Times, v \in SUBSET Times :
          (IF Last(u) THEN {} ELSE {next[u]} \cup v) \in SUBSET Times
    BY <2>1
  <2> QED
    BY <2>2, <2>3
<1> HIDE DEF B, H
<1>4. PICK g \in [Times -> SUBSET Times] : Recurs(g, next, B, H)
  BY <1>1, <1>3, LoopDefined
<1>5. ASSUME NEW u \in Times
      PROVE  g[u] = IF Last(u) THEN {}
                    ELSE {next[u]} \cup (IF next[u] > u THEN g[next[u]] ELSE {})
  <2>1. next[u] \in Times /\ g[next[u]] \in SUBSET Times
    BY <1>1
  <2>2. g[u] = IF next[u] > u THEN H[u][g[next[u]]] ELSE B[u]
    BY <1>4 DEF Recurs
  <2> HIDE DEF Last
  <2> QED
    BY <1>2, <2>1, <2>2
<1> QED
  BY <1>5 DEF Foretells, next

(* NextRuns lists what one of them foretells from the last announced run.  *)
LEMMA NextRunsForetell ==
  ASSUME NEW j, Timed(j), j.nextScheduled # {}
  PROVE  \E g : /\ Foretells(g, j.def)
                /\ NextRuns(j) = j.nextScheduled \cup g[Latest(j.nextScheduled)]
<1> DEFINE Is(f) ==
      f = [t \in Times |->
             LET next == Def[j.def].next[t] IN
             IF next = Zero \/ AtOrPastStop(j.def, next) THEN {}
             ELSE {next} \cup (IF next > t THEN f[next] ELSE {})]
<1>1. NextRuns(j) = j.nextScheduled \cup (CHOOSE f : Is(f))[Latest(j.nextScheduled)]
  BY DEF NextRuns
<1>2. \E f : Is(f)
  <2>1. PICK g \in [Times -> SUBSET Times] : Foretells(g, j.def)
    BY ForetellsExists DEF Timed
  <2>2. Is(g)
    BY <2>1 DEF Foretells
  <2> QED
    BY <2>2
<1>3. ASSUME NEW f, Is(f)
      PROVE  Foretells(f, j.def)
  BY <1>3 DEF Foretells
<1> HIDE DEF Is
<1>4. Is(CHOOSE f : Is(f))
  BY <1>2
<1> QED
  BY <1>1, <1>3, <1>4

(* next() of definition d never goes back in time.                         *)
NeverBack(d) == \A t \in Times : Def[d].next[t] = Zero \/ Def[d].next[t] >= t

(* What is foretold from a run foretold from t is foretold from t.         *)
LEMMA ForetoldOn ==
  ASSUME NEW d \in Defs, NeverBack(d), NEW g, Foretells(g, d),
         NEW t \in Times, NEW v \in g[t], NEW w \in g[v]
  PROVE  w \in g[t] /\ v \in Times
<1> DEFINE next == Def[d].next
           On(u) == v \in g[u] => w \in g[u] /\ v \in Times
           Bad == {u \in Times : ~On(u)}
<1>1. SUFFICES ASSUME Bad # {} PROVE FALSE
  OBVIOUS
<1>2. PICK u \in Bad : \A x \in Bad : x <= u
  BY <1>1, LatestInstant
<1>3. u \in Times /\ ~On(u) /\ next[u] \in Times
  BY NextType
<1>4. /\ v \in g[u] /\ next[u] # Zero /\ ~AtOrPastStop(d, next[u])
      /\ g[u] = {next[u]} \cup (IF next[u] > u THEN g[next[u]] ELSE {})
  BY <1>3 DEF Foretells
<1>5. next[u] >= u
  BY <1>3, <1>4 DEF NeverBack
<1>6. CASE next[u] > u
  <2>1. On(next[u])
    BY <1>2, <1>3, <1>6 DEF Times
  <2> QED
    BY <1>3, <1>4, <1>6, <2>1
<1>7. CASE ~(next[u] > u)
  <2>1. next[u] = u
    BY <1>3, <1>5, <1>7 DEF Times
  <2> QED
    BY <1>3, <1>4, <1>7, <2>1
<1> QED
  BY <1>6, <1>7

(* Where a loop ends, unless at the stop time, was foretold.               *)
LEMMA LoopForetold ==
  ASSUME NEW d \in Defs, NEW g, Foretells(g, d),
         NEW f, NEW final, Loop(f, Def[d].next, final),
         NEW t \in Times, f[t] # Zero, ~AtOrPastStop(d, f[t])
  PROVE  f[t] = t \/ f[t] \in g[t]
<1> DEFINE next == Def[d].next
           Is(u) == (f[u] # Zero /\ ~AtOrPastStop(d, f[u])) => (f[u] = u \/ f[u] \in g[u])
           Bad == {u \in Times : ~Is(u)}
<1>1. SUFFICES ASSUME Bad # {} PROVE FALSE
  OBVIOUS
<1>2. PICK u \in Bad : \A x \in Bad : x <= u
  BY <1>1, LatestInstant
<1>3. u \in Times /\ ~Is(u) /\ next[u] \in Times /\ next \in [Times -> Times]
  BY NextType
<1>4. u \notin final /\ Progress(next[u], u) /\ f[u] = f[next[u]] /\ f[u] # Zero
      /\ ~AtOrPastStop(d, f[u])
  BY <1>3 DEF Loop
<1>5. next[u] > u /\ next[u] # Zero
  BY <1>3, <1>4 DEF Progress
<1>6. Is(next[u])
  BY <1>2, <1>3, <1>5 DEF Times
<1>7. f[next[u]] \in Times /\ f[next[u]] >= next[u]
  BY <1>3, <1>4, LoopEnds
<1>8. ~AtOrPastStop(d, next[u])
  BY <1>3, <1>4, <1>7, NextType DEF AtOrPastStop, Times
<1>9. g[u] = {next[u]} \cup g[next[u]]
  BY <1>3, <1>5, <1>8 DEF Foretells
<1> QED
  BY <1>3, <1>4, <1>6, <1>9

(* A run that rescheduling announces is one that NextRuns listed.          *)
LEMMA NextRunForetold ==
  ASSUME NEW j, Timed(j), NeverBack(j.def), ~Def[j.def].intervalFromCompletion,
         j.nextScheduled # {}, NEW t \in Times, NextRun(j, t).act = "arm"
  PROVE  NextRun(j, t).at \in NextRuns(j)
<1> DEFINE next == Def[j.def].next
           from == Latest(j.nextScheduled)
           first == next[from]
           at == NextRun(j, t).at
<1>1. j.def \in Defs /\ from \in Times /\ from \in j.nextScheduled
  BY LatestOf DEF Timed
<1>2. ScheduleFrom(j, t) = from
  BY DEF ScheduleFrom
<1>3. /\ first \in Times /\ first # Zero
      /\ at \in Times /\ at \notin j.nextScheduled /\ at >= first
      /\ ~AtOrPastStop(j.def, at)
  BY <1>2, NextRunLoops
<1>4. PICK future, f, h :
         /\ future \in Times /\ future # Zero
         /\ future = first \/ (first < t /\ future = f[first])
         /\ future >= first
         /\ at = h[future] /\ at >= future
         /\ Loop(f, next, {u \in Times : u >= t})
         /\ Loop(h, next, Times \ j.nextScheduled)
  BY <1>2, NextRunLoops
<1> HIDE DEF at
<1>5. PICK g : /\ Foretells(g, j.def)
               /\ NextRuns(j) = j.nextScheduled \cup g[from]
  BY NextRunsForetell
<1>6. \A u \in Times : u <= at => ~AtOrPastStop(j.def, u)
  BY <1>1, <1>3, NextType DEF AtOrPastStop, Times
<1>7. ~AtOrPastStop(j.def, first) /\ ~AtOrPastStop(j.def, future)
  BY <1>3, <1>4, <1>6 DEF Times
<1>8. at = future \/ at \in g[future]
  <2>1. h[future] # Zero /\ ~AtOrPastStop(j.def, h[future])
    BY <1>3, <1>4 DEF Times
  <2> QED
    BY <1>1, <1>4, <1>5, <2>1, LoopForetold
<1>9. future = first \/ future \in g[first]
  <2>1. CASE future = f[first]
    BY <1>1, <1>3, <1>4, <1>5, <1>7, <2>1, LoopForetold
  <2> QED
    BY <1>4, <2>1
<1>10. first >= from
  BY <1>1, <1>3 DEF NeverBack
<1>11. CASE first > from
  <2>1. g[from] = {first} \cup g[first]
    BY <1>1, <1>3, <1>5, <1>7, <1>11 DEF Foretells
  <2>2. first \in g[from] /\ future \in g[from]
    BY <1>9, <2>1
  <2>3. at \in g[from]
    BY <1>1, <1>5, <1>8, <2>2, ForetoldOn
  <2> QED
    BY <1>5, <2>3 DEF at
<1>12. CASE ~(first > from)
  <2>1. first = from
    BY <1>1, <1>3, <1>10, <1>12 DEF Times
  <2>2. g[from] = {from}
    BY <1>1, <1>3, <1>5, <1>7, <1>12, <2>1 DEF Foretells
  <2>3. future = from
    BY <1>9, <2>1, <2>2
  <2>4. at = from
    BY <1>8, <2>2, <2>3
  <2> QED
    BY <1>1, <1>3, <2>4
<1> QED
  BY <1>11, <1>12

(* Outside of intervals counted from completion, a rescheduled job moves   *)
(* past every announced run.                                               *)
LEMMA NextRunForward ==
  ASSUME NEW j, Timed(j), NeverBack(j.def), ~Def[j.def].intervalFromCompletion,
         NEW t \in Times, NextRun(j, t).act = "arm"
  PROVE  \A u \in j.nextScheduled : NextRun(j, t).at > u
<1> SUFFICES ASSUME NEW u \in j.nextScheduled PROVE NextRun(j, t).at > u
  OBVIOUS
<1> DEFINE from == Latest(j.nextScheduled)
           at == NextRun(j, t).at
<1>1. from \in Times /\ from \in j.nextScheduled /\ u <= from /\ u \in Times /\ j.def \in Defs
  BY LatestOf DEF Timed
<1>2. ScheduleFrom(j, t) = from
  BY DEF ScheduleFrom
<1>3. /\ Def[j.def].next[from] # Zero
      /\ at \in Times /\ at \notin j.nextScheduled /\ at >= Def[j.def].next[from]
  BY <1>2, NextRunLoops
<1>4. Def[j.def].next[from] >= from /\ Def[j.def].next[from] \in Times
  BY <1>1, <1>3, NextType DEF NeverBack
<1> HIDE DEF at, from
<1>5. at > u
  BY <1>1, <1>3, <1>4 DEF Times
<1> QED
  BY <1>5 DEF at

-----------------------------------------------------------------------------
(* Timers are armed ahead of the clock.                                    *)

(* A step that arms no timer for an instant in the past.                   *)
ArmsAhead ==
  \A x \in Timers : (timer'[x] # None /\ timer'[x] # timer[x]) => timer'[x].at >= now

(* Registered jobs have them.                                              *)
LEMMA JobTimed ==
  ASSUME NEW j \in JobType
  PROVE  Timed(j)
  BY DEF Timed, JobType, Instants

LEMMA ArmAhead ==
  ASSUME TypeOK, NEW id, NEW j, NEW t, NEW tm, NEW rn, Arm(id, j, t, tm, rn), t >= now,
         tm \in [Timers -> TimerType \cup {None}],
         \A x \in Timers : tm[x] # None => tm[x] = timer[x]
  PROVE  ArmsAhead
<1>1. PICK x \in FreeTimers : timer' = [tm EXCEPT ![x] = [id |-> id, at |-> t]]
  BY DEF Arm
<1>2. x \in Timers /\ timer'[x] = [id |-> id, at |-> t]
  BY <1>1 DEF FreeTimers
<1>3. \A y \in Timers : y # x => timer'[y] = tm[y]
  BY <1>1
<1> QED
  BY <1>2, <1>3 DEF ArmsAhead

LEMMA DisarmAhead ==
  ASSUME TypeOK, NEW y
  PROVE  /\ Disarm(timer, y) \in [Timers -> TimerType \cup {None}]
         /\ \A x \in Timers : Disarm(timer, y)[x] # None => Disarm(timer, y)[x] = timer[x]
  BY DEF Disarm, TypeOK

LEMMA PrepareAhead ==
  ASSUME TypeOK, NEW id \in Ids, NEW j \in JobType, PrepareFirstRun(id, j)
  PROVE  ArmsAhead
<1> DEFINE decision == FirstRun(j.def, j.startTime, now)
           announced == [j EXCEPT !.startTime = decision.at]
<1>1. CASE timer' = Disarm(timer, j.timer) \/ UNCHANGED timer
  BY <1>1 DEF ArmsAhead, Disarm
<1>2. CASE decision.act = "arm" /\ Arm(id, announced, decision.at, timer, run)
  <2>1. j.def \in Defs /\ j.startTime \in Times /\ now \in Times
    BY DEF JobType, TypeOK, Instants
  <2>2. decision.at >= now
    BY <1>2, <2>1, FirstRunAhead
  <2>3. timer \in [Timers -> TimerType \cup {None}]
    BY DEF TypeOK
  <2> HIDE DEF decision, announced
  <2> QED
    BY <1>2, <2>2, <2>3, ArmAhead
<1> QED
  BY <1>1, <1>2 DEF PrepareFirstRun

LEMMA RescheduleAhead ==
  ASSUME TypeOK, NEW id \in Ids, NEW rn, Reschedule(id, rn)
  PROVE  ArmsAhead
<1> DEFINE decision == NextRun(jobs[id], now)
           tm == Disarm(timer, jobs[id].timer)
<1>1. CASE UNCHANGED timer \/ Remove(id, rn)
  BY <1>1 DEF ArmsAhead, Remove, Disarm
<1>2. CASE /\ Registered(id) /\ decision.act = "arm"
           /\ Arm(id, jobs[id], decision.at, tm, rn)
  <2>1. Timed(jobs[id]) /\ now \in Times
    BY <1>2, JobTimed DEF TypeOK, Registered, Instants
  <2>2. decision.at >= now
    BY <1>2, <2>1, NextRunLoops
  <2>3. /\ tm \in [Timers -> TimerType \cup {None}]
        /\ \A x \in Timers : tm[x] # None => tm[x] = timer[x]
    BY DisarmAhead
  <2> HIDE DEF decision, tm
  <2> QED
    BY <1>2, <2>2, <2>3, ArmAhead
<1> QED
  BY <1>1, <1>2 DEF Reschedule

(* No timer is armed for an instant already in the past.                   *)
THEOREM ArmedAheadOfTheClock == Spec => NotArmedInThePast
<1>1. TableInv /\ [Next]_vars => ArmsAhead
  <2> SUFFICES ASSUME TableInv, [Next]_vars PROVE ArmsAhead
    OBVIOUS
  <2>1. TypeOK
    BY DEF TableInv
  <2>2. CASE KeepsTable
    BY <2>2 DEF KeepsTable, ArmsAhead
  <2>3. ASSUME NEW id \in Ids, NEW d \in Defs, NewJobPrepared(id, d)
        PROVE  ArmsAhead
    BY <2>1, <2>3, FreshJobType, PrepareAhead DEF NewJobPrepared
  <2>4. ASSUME NEW id \in Ids, NEW d \in Defs, NewJobStored(id, d)
        PROVE  ArmsAhead
    BY <2>4 DEF NewJobStored, ArmsAhead
  <2>5. ASSUME NEW id \in Ids, StartJob(id)
        PROVE  ArmsAhead
    <3>1. [jobs[id] EXCEPT !.nextScheduled = {}] \in JobType
      BY <2>1, <2>5 DEF StartJob, TypeOK, JobType
    <3> QED
      BY <2>1, <2>5, <3>1, PrepareAhead DEF StartJob
  <2>6. ASSUME NEW r \in Runs, SentOut(r)
        PROVE  ArmsAhead
    <3>1. run[r].id \in Ids
      BY <2>1, <2>6 DEF SentOut, SendOutForRescheduling, At, TypeOK, RunType
    <3> QED
      BY <2>1, <2>6, <3>1, RescheduleAhead DEF SentOut
  <2> QED
    BY <2>2, <2>3, <2>4, <2>5, <2>6, NextTableStep
<1>2. Init => TableInv
  BY InitTable
<1>3. TableInv /\ [Next]_vars => TableInv'
  BY NextTable
<1>4. TableInv /\ [Next]_vars => [ArmsAhead]_vars
  BY <1>1
<1> QED
  BY <1>2, <1>3, <1>4, PTL DEF Spec, NotArmedInThePast, ArmsAhead

-----------------------------------------------------------------------------
(* What a job announces.                                                   *)

(* Run r reschedules id and announces the run NextRun decided on.          *)
AnnouncedBy(r, id) ==
  /\ SentOut(r) /\ run[r].id = id
  /\ NextRun(jobs[id], now).act = "arm"
  /\ jobs'[id].nextScheduled = jobs[id].nextScheduled \cup {NextRun(jobs[id], now).at}

(* selectStart apart, only rescheduling announces a run of a registered    *)
(* job.                                                                    *)
LEMMA OnlyRescheduledAnnounce ==
  ASSUME TableInv, [Next]_vars, NEW id \in Ids, id \notin starting,
         Registered(id), Registered(id)'
  PROVE  \/ jobs'[id].nextScheduled \subseteq jobs[id].nextScheduled
         \/ \E r \in Runs : AnnouncedBy(r, id)
<1>1. TypeOK
  BY DEF TableInv
<1>2. CASE KeepsTable
  BY <1>2 DEF KeepsTable, Registered
<1>3. ASSUME jobs'[id] = jobs[id]
      PROVE  jobs'[id].nextScheduled \subseteq jobs[id].nextScheduled
  BY <1>3
<1>4. ASSUME NEW k \in Ids, NEW d \in Defs, NewJobPrepared(k, d) \/ NewJobStored(k, d)
      PROVE  jobs'[id] = jobs[id]
  <2>1. k # id
    BY <1>4 DEF NewJobPrepared, NewJobStored, NewJob
  <2>2. CASE NewJobPrepared(k, d)
    BY <1>1, <2>1, <2>2, FreshJobType, PrepareEffect DEF NewJobPrepared
  <2>3. CASE NewJobStored(k, d)
    BY <1>1, <2>1, <2>3 DEF NewJobStored, TypeOK
  <2> QED
    BY <1>4, <2>2, <2>3
<1>5. ASSUME NEW k \in Ids, StartJob(k)
      PROVE  jobs'[id] = jobs[id]
  <2>1. k # id
    BY <1>5 DEF StartJob
  <2>2. [jobs[k] EXCEPT !.nextScheduled = {}] \in JobType
    BY <1>1, <1>5 DEF StartJob, TypeOK, JobType
  <2> QED
    BY <1>1, <1>5, <2>1, <2>2, PrepareEffect DEF StartJob
<1>6. ASSUME NEW r \in Runs, SentOut(r)
      PROVE  \/ jobs'[id].nextScheduled \subseteq jobs[id].nextScheduled
             \/ AnnouncedBy(r, id)
  <2> DEFINE k == run[r].id
             decision == NextRun(jobs[k], now)
             tm == Disarm(timer, jobs[k].timer)
  <2>1. k \in Ids
    BY <1>1, <1>6 DEF SentOut, SendOutForRescheduling, At, TypeOK, RunType
  <2>2. CASE UNCHANGED jobs
    BY <1>3, <2>2
  <2>3. CASE Remove(k, Sent(r))
    <3>1. k # id /\ jobs'[id] = jobs[id]
      BY <1>1, <2>1, <2>3 DEF Remove, TypeOK, Registered
    <3> QED
      BY <1>3, <3>1
  <2>4. CASE /\ Registered(k) /\ decision.act = "arm"
             /\ Arm(k, jobs[k], decision.at, tm, Sent(r))
    <3>1. jobs[k] \in JobType
      BY <1>1, <2>1, <2>4 DEF TypeOK, Registered
    <3>2. tm \in [Timers -> TimerType \cup {None}]
      BY <1>1, DisarmAhead
    <3> DEFINE t == decision.at
    <3>3. Arm(k, jobs[k], t, tm, Sent(r))
      BY <2>4
    <3> HIDE DEF k, t, tm
    <3>4. /\ jobs'[k].nextScheduled = jobs[k].nextScheduled \cup {t}
          /\ \A m \in Ids : m # k => jobs'[m] = jobs[m]
      <4>1. \E x \in Timers :
              /\ x \in FreeTimers /\ t \in Instants
              /\ jobs'[k] # None /\ jobs'[k].timer = x /\ jobs'[k].def = jobs[k].def
              /\ jobs'[k].runCount = jobs[k].runCount
              /\ jobs'[k].nextScheduled = jobs[k].nextScheduled \cup {t}
              /\ \A m \in Ids : m # k => jobs'[m] = jobs[m]
              /\ timer'[x] = [id |-> k, at |-> t]
              /\ \A y \in Timers : y # x => timer'[y] = tm[y]
              /\ run' = Sent(r)
        BY <1>1, <2>1, <3>1, <3>2, <3>3, ArmEffect
      <4> QED
        BY <4>1
    <3>5. CASE k = id
      BY <1>6, <2>4, <3>4, <3>5 DEF AnnouncedBy, k, t
    <3>6. CASE k # id
      BY <1>3, <3>4, <3>6
    <3> QED
      BY <3>5, <3>6
  <2>5. Reschedule(k, Sent(r))
    BY <1>6 DEF SentOut
  <2> HIDE DEF k
  <2> QED
    BY <2>2, <2>3, <2>4, <2>5 DEF Reschedule
<1> QED
  BY <1>2, <1>3, <1>4, <1>5, <1>6, NextTableStep

(* An assumption on the job definitions, for jobs that are not timed from  *)
(* their completion: next() never goes back in time.  The library's own    *)
(* schedules do not; it may stand still, as a faulty custom Cron does.     *)
NeverGoesBack ==
  \A d \in Defs : ~Def[d].intervalFromCompletion => NeverBack(d)

(* No run of a job that is rescheduled while it holds the token is         *)
(* announced for the future.                                               *)
LEMMA NothingAhead ==
  ASSUME ForetoldInv, NEW id \in Ids, Settled(id), NEW r \in Runs, SentOut(r), run[r].id = id
  PROVE  \A u \in jobs[id].nextScheduled : ~(u > now)
<1>1. TypeOK /\ ChainOf(id) /\ Announced(id)
  BY DEF ForetoldInv, ChainInv, TableInv, OneChain, NextRunWillFire, Settled
<1>2. /\ run[r] # None /\ run[r].todo[1] = "resched" /\ run[r] \in RunType
      /\ run[r].shouldSendOut
  BY <1>1 DEF SentOut, SendOutForRescheduling, At, TypeOK
<1>3. 1 \in 1 .. Len(run[r].todo)
  <2>1. run[r].todo \in Seq(Steps) /\ run[r].todo # <<>>
    BY <1>2 DEF RunType
  <2> QED
    BY <2>1, EmptySeq
<1>4. RunToken(r, id)
  BY <1>2, <1>3 DEF RunToken, Sends
<1>5. \A x \in Timers : ~TimerToken(x, id)
  BY <1>1, <1>4 DEF ChainOf, Settled
<1> SUFFICES ASSUME NEW u \in jobs[id].nextScheduled, u > now PROVE FALSE
  OBVIOUS
<1>6. PICK x \in Timers : timer[x] = [id |-> id, at |-> u]
  BY <1>1 DEF Announced
<1>7. u \in Instants
  BY <1>1 DEF TypeOK, JobType, Settled, Registered
<1>8. [id |-> id, at |-> u] \in TimerType
  BY <1>7 DEF TimerType
<1> QED
  BY <1>5, <1>6, <1>8, NoneAssumption DEF TimerToken

(* A job's announced runs only move forward.                               *)
MovesForward(id) ==
  (/\ Registered(id) /\ Registered(id)'
   /\ Def[jobs[id].def].intervalFromCompletion => added[id] = 1 /\ id \notin late) =>
  \A t \in jobs'[id].nextScheduled \ jobs[id].nextScheduled,
     u \in jobs[id].nextScheduled : t > u

LEMMA NextMovesForward ==
  ASSUME NeverGoesBack, ForetoldInv, [Next]_vars, NEW id \in Ids \ starting
  PROVE  MovesForward(id)
<1> SUFFICES ASSUME Registered(id), Registered(id)',
                    Def[jobs[id].def].intervalFromCompletion => added[id] = 1 /\ id \notin late
             PROVE  \A t \in jobs'[id].nextScheduled \ jobs[id].nextScheduled,
                       u \in jobs[id].nextScheduled : t > u
  BY DEF MovesForward
<1>1. TableInv /\ TypeOK /\ Standstill
  BY DEF ForetoldInv, ChainInv, TableInv
<1>2. CASE jobs'[id].nextScheduled \subseteq jobs[id].nextScheduled
  BY <1>2
<1>3. ASSUME NEW r \in Runs, AnnouncedBy(r, id)
      PROVE  \A u \in jobs[id].nextScheduled : NextRun(jobs[id], now).at > u
  <2> DEFINE j == jobs[id]
             at == NextRun(jobs[id], now).at
  <2>1. Timed(j) /\ now \in Times /\ j.def \in Defs
    BY <1>1, JobTimed DEF TypeOK, Registered, Instants, JobType
  <2>2. NextRun(j, now).act = "arm"
    BY <1>3 DEF AnnouncedBy
  <2>3. CASE ~Def[j.def].intervalFromCompletion
    BY <2>1, <2>2, <2>3, NextRunForward DEF NeverGoesBack
  <2>4. CASE Def[j.def].intervalFromCompletion
    <3>1. started /\ ~stopping
      BY <1>1, <1>3 DEF AnnouncedBy, SentOut, SendOutForRescheduling, At, Ready, Standstill
    <3>2. Settled(id)
      BY <2>4, <3>1 DEF Settled
    <3>3. \A u \in j.nextScheduled : ~(u > now)
      BY <1>3, <3>2, NothingAhead DEF AnnouncedBy
    <3>4. at \in Times /\ at \notin j.nextScheduled /\ at >= now
      BY <2>1, <2>2, NextRunLoops
    <3> HIDE DEF at
    <3>5. \A u \in j.nextScheduled : u \in Times
      BY <2>1 DEF Timed
    <3>6. \A u \in j.nextScheduled : at > u
      BY <2>1, <3>3, <3>4, <3>5 DEF Times
    <3> QED
      BY <3>6 DEF at
  <2> QED
    BY <2>3, <2>4
<1>4. ASSUME NEW r \in Runs, AnnouncedBy(r, id)
      PROVE  jobs'[id].nextScheduled = jobs[id].nextScheduled \cup {NextRun(jobs[id], now).at}
  BY <1>4 DEF AnnouncedBy
<1> QED
  BY <1>1, <1>2, <1>3, <1>4, OnlyRescheduledAnnounce

(* A job's announced runs only move forward, as long as next() never goes  *)
(* back in time.                                                           *)
THEOREM AnnouncedRunsMoveForward ==
  ASSUME NeverGoesBack
  PROVE  Spec => ScheduleMovesForward
<1>1. ForetoldInv /\ [Next]_vars => \A id \in Ids \ starting : MovesForward(id)
  BY NextMovesForward
<1>2. ForetoldInv /\ [Next]_vars => ForetoldInv'
  BY ForetoldInvKept
<1>3. ForetoldInv /\ [Next]_vars => [\A id \in Ids \ starting : MovesForward(id)]_vars
  BY <1>1
<1> QED
  BY InitForetold, <1>2, <1>3, PTL DEF Spec, ScheduleMovesForward, MovesForward

(* A step announces for id only what was foretold.                         *)
AsForetold(id) ==
  (/\ Registered(id) /\ Registered(id)'
   /\ jobs[id].nextScheduled # {}
   /\ ~Def[jobs[id].def].intervalFromCompletion)
  => jobs'[id].nextScheduled \subseteq NextRuns(jobs[id])

LEMMA NextAsForetold ==
  ASSUME NeverGoesBack, TableInv, [Next]_vars, NEW id \in Ids \ starting
  PROVE  AsForetold(id)
<1> SUFFICES ASSUME Registered(id), Registered(id)', jobs[id].nextScheduled # {},
                    ~Def[jobs[id].def].intervalFromCompletion
             PROVE  jobs'[id].nextScheduled \subseteq NextRuns(jobs[id])
  BY DEF AsForetold
<1>1. Timed(jobs[id]) /\ now \in Times /\ jobs[id].def \in Defs
  BY JobTimed DEF TableInv, TypeOK, Registered, Instants, JobType
<1>2. jobs[id].nextScheduled \subseteq NextRuns(jobs[id])
  BY <1>1, NextRunsForetell
<1>3. ASSUME NEW r \in Runs, AnnouncedBy(r, id)
      PROVE  jobs'[id].nextScheduled \subseteq NextRuns(jobs[id])
  <2>1. NextRun(jobs[id], now).at \in NextRuns(jobs[id])
    BY <1>1, <1>3, NextRunForetold DEF AnnouncedBy, NeverGoesBack
  <2> QED
    BY <1>2, <1>3, <2>1 DEF AnnouncedBy
<1> QED
  BY <1>2, <1>3, OnlyRescheduledAnnounce

(* What a job announces later was listed by NextRuns, as long as next()    *)
(* never goes back in time.                                                *)
THEOREM AnnouncedAsForetold ==
  ASSUME NeverGoesBack
  PROVE  Spec => RunsAsForetold
<1>1. TableInv /\ [Next]_vars => \A id \in Ids \ starting : AsForetold(id)
  BY NextAsForetold
<1>2. Init => TableInv
  BY InitTable
<1>3. TableInv /\ [Next]_vars => TableInv'
  BY NextTable
<1>4. TableInv /\ [Next]_vars => [\A id \in Ids \ starting : AsForetold(id)]_vars
  BY <1>1
<1> QED
  BY <1>2, <1>3, <1>4, PTL DEF Spec, RunsAsForetold, AsForetold
=============================================================================
