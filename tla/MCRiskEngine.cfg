SPECIFICATION Spec
CONSTANTS
  w1 = w1
  w2 = w2
  c1 = c1
  c2 = c2
  stock = stock
  kalshi = kalshi
  none = none
  NoMarket <- none
  Operators <- OneOperator
  Checks <- OneCheck
  Markets <- TwoMarkets
  Cooldown = 2
  LoadCanFail = FALSE
SYMMETRY Symmetry
INVARIANTS
  VerdictsRespectStops
  AcknowledgedStopHolds
PROPERTY
  BreakerServesCooldown
