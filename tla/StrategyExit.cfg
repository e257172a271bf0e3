\* A strategy that holds lots and signals its exit.
CONSTANTS
  ES = ES
  NQ = NQ
  CL = CL
  Symbols = {ES, NQ, CL}
  Fills <- MCFills
  MaxPositions = 2
  SeenCap = 3
  SeenKeep = 1
  HistoryCap = 3
  SnapshotRetention = 1
  Deltas <- MCDeltas
  Factors <- MCFactors
  Dividends = {1}
  BookMids <- MCBookMids
  MaxEvents = 4
  Quantities = {1, 2, 3}
  Prices = {1, 2}
  Corrections <- MCCorrections
  NewAverages <- MCNewAverages
  SplitFactors <- MCSplitFactors
  PerShares = {1}
  MaxBookEvents = 4
  BookVenues = {x}
  Tobs <- MCTobs
  QuotePrices = {1, 3}
  MomWindow = 2
  MrWindow = 3
  MomEntry = 2
  MomExit = 1
  MomMax = 3
  ZEntry = 1
  ZExit = 1
  MrMax = 2
  ArbRatio = 2
  ArbWide = 3
  ArbTight = 1
  ArbMax = 3
  MaxOpen = 2
  MaxOrderQty = 3
  MaxNotional = 5
  MaxIntents = 2
  MaxSignals = 3
  MaxLosses = 1
SPECIFICATION MCSpec
INVARIANT PositionIsHeld
CHECK_DEADLOCK FALSE
