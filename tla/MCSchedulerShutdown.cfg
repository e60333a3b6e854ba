SPECIFICATION Spec
CONSTANTS
  t1 = t1
  g1 = g1
  e1 = e1
  s1 = s1
  s2 = s2
  None = None
  Ticks <- OneTick
  Triggers <- OneTrigger
  Signals <- OneSignal
  Strategies <- MCStrategies
  Retired <- MCRetired
  Capacity = 1
  ChannelSize = 1
INVARIANT PoolOutlivesRuns
CHECK_DEADLOCK FALSE
