SPECIFICATION Spec
CONSTANTS
  scan = scan
  refresh = refresh
  t1 = t1
  t2 = t2
  Jobs = {scan, refresh}
  DependsOn <- MCDependsOn
  Threads = {t1, t2}
  Threshold = 2
  MaxRuns = 2
  MaxDay = 2
  MaxEvents = 3
  None = None
SYMMETRY Symmetry
INVARIANTS
  RunningIsExact
  ExecutionsAreRecorded
  DependentsFollowSuccess
  DisabledStaysOff
  AutoDisableHolds
PROPERTIES
  TerminalRowsAreFinal
CHECK_DEADLOCK FALSE
