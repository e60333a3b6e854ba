SPECIFICATION Spec
CONSTANTS
  r1 = r1
  r2 = r2
  r3 = r3
  s1 = s1
  s2 = s2
  k = k
  x = x
  None = None
  Runs <- ThreeRuns
  Strategies <- TwoStrategies
  Tickers <- Both
  Kalshi <- KalshiOnly
  Prices <- OnePrice
  Sizes <- OneOrTwo
  InitialCash = 100
  FeePct = 10
  MaxPositionPct = 50
  MaxTotalPct = 100
  MaxStockPct = 50
  MaxKalshiPct = 20
  MaxConcurrent = 3
SYMMETRY Symmetry
INVARIANTS
  TypeOK
  BookExplained
  LotsMatchTrades
  StatusIsTruthful
  
  KalshiNeverShort
CHECK_DEADLOCK FALSE
