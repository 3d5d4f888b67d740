SPECIFICATION Spec
CONSTANTS
  Units = 6
  Lengths <- FourMonths
  Strides = 4
  Zones <- OrdinaryZones
  Definitions <- AllDefinitions
  FirstRuns <- SixDays
  Horizon = 120
  None = None
INVARIANTS
  TypeOK
  NextIsEarliest
  RunsAtASetTime
  AcceptedWillRun
CHECK_DEADLOCK FALSE
