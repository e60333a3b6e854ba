SPECIFICATION Spec
CONSTANTS
  stk = stk
  call = call
  put = put
  bet = bet
  w1 = w1
  w2 = w2
  None = None
  Instruments <- MCInstruments
  Multiplier <- MCMultiplier
  Terms <- MCTerms
  MaxMarkAge = 1
  Sources <- Five
  Versions <- TwoVersions
  Workers <- MCWorkers
  Worlds <- MCWorlds
  Attempts = 2
INVARIANTS
  OneRowPerEvent
  AcknowledgedIsBooked
  ReplayNeverBreaks
  LotsAreFIFO
  CheckpointsAreOneHistory
  ReturnedIsPersisted
PROPERTIES
  NoLookahead
  RebuildsEnd
