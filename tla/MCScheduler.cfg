SPECIFICATION Spec
CONSTANTS
  t1 = t1
  g1 = g1
  e1 = e1
  s1 = s1
  s2 = s2
  None = None
  Ticks <- OneTick
  Triggers <- OneTrigger
  Signals <- OneSignal
  Strategies <- MCStrategies
  Retired <- MCRetired
  Capacity = 1
  ChannelSize = 1
INVARIANTS GuardsAreExact SignalRunsAreRecorded 
PROPERTIES KillStopsRuns ShutdownCompletes
CHECK_DEADLOCK FALSE
