\* One more event than a deque keeps, one more fill than the dedup set keeps, one
\* more symbol than the ledger has room for; and every sequence of four events on
\* one position: reductions by less and more than half, closes, flips, odd-lot splits.
CONSTANTS
  ES = ES
  NQ = NQ
  CL = CL
  Symbols = {ES, NQ, CL}
  Fills <- MCFills
  MaxPositions = 2
  SeenCap = 3
  SeenKeep = 1
  HistoryCap = 3
  SnapshotRetention = 1
  Deltas <- MCDeltas
  Factors <- MCFactors
  Dividends = {1}
  BookMids <- MCBookMids
  MaxEvents = 4
  Quantities = {1, 2, 3}
  Prices = {1, 2}
  Corrections <- MCCorrections
  NewAverages <- MCNewAverages
  SplitFactors <- MCSplitFactors
  PerShares = {1}
  MaxBookEvents = 4
  BookVenues = {x}
  Tobs <- MCTobs
  QuotePrices = {1, 3}
  MomWindow = 2
  MrWindow = 3
  MomEntry = 2
  MomExit = 1
  MomMax = 3
  ZEntry = 1
  ZExit = 1
  MrMax = 2
  ArbRatio = 2
  ArbWide = 3
  ArbTight = 1
  ArbMax = 3
  MaxOpen = 2
  MaxOrderQty = 3
  MaxNotional = 5
  MaxIntents = 2
  MaxSignals = 3
  MaxLosses = 1
SPECIFICATION MCSpec
INVARIANTS
  AppliedOnceUntilTrimmed
  
  BooksBalance
  LotsAreAccounted
  PositionIsLimited
  ListedAreOpen
\* The books come to rest when their bound is reached.
CHECK_DEADLOCK FALSE
