SPECIFICATION Spec
CONSTANTS
  Deltas <- MCDeltas
  FillSizes <- MCFillSizes
  Sources = {s1, s2, s3, s4, s5, s6, s7}
  ExternalIDs = {x1, x2}
  NoBinding = NoBinding
SYMMETRY SourceSymmetry
INVARIANTS FillsWithinOrder OrderCarriesApproval CumulativeIsSum
PROPERTIES ClosedIsFinal
CHECK_DEADLOCK FALSE
