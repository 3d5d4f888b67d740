SPECIFICATION Spec
CONSTANTS
  Ids = {a}
  Timers = {t1, t2}
  Runs = {r1, r2}
  None = None
  Outcomes = {"task", "notLeader", "beforeError"}
  Horizon = 7
  Defs <- AllDefs
  Def <- MCDef
  MaxNow = 3
  TimingCap = 2
  MaxAdds = 2
  MaxRunNows = 1
  MaxStops = 1
  MaxCalls = 3
  MaxRemovals = 2
SYMMETRY Symmetry
INVARIANTS
  TypeOK
  TimerOwned
  ArmedIsAnnounced
  NextRunWillFire
  OneToken
  LimitedJobGoes
PROPERTIES
  NeverStranded
  ScheduleMovesForward
  RunsAsForetold
  NotArmedInThePast
CHECK_DEADLOCK FALSE
