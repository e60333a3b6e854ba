SPECIFICATION Spec
CONSTANTS
  s1 = s1 s2 = s2 s3 = s3 s4 = s4 s6 = s6 s7 = s7 s8 = s8
  x1 = x1
  Deltas <- MCDeltas
  FillSizes <- MCFillSizes
  Sources = {s1, s2, s3, s4, s6, s7, s8}
  ExternalIDs = {x1}
  NoBinding = NoBinding
  Writers = {w1, w2}
  NoWriter = NoWriter
  Observations <- MCObservations
  MaxAttempts = 2
INVARIANTS ResultsAreTrue RestartFindsOpenOrder
PROPERTIES ImplementsLifecycle CallsReturn
