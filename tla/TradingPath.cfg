\* Two clients and the strategy engine, three fills, answers that overlap, one
\* restart of the risk manager.
CONSTANTS
  ES = ES
  None = None
  Symbols = {ES}
  Requests <- MCRequests
  DefaultScalars <- MCScalars
  MaxOrdersPerSymbol = 9
  MaxOrdersTotal = 9
  BreachesRetained = 1
  SeenCap = 9
  SeenKeep = 1
  MaxChecks = 3
  Clients = {c1, c2}
  PollLimit = 9
  MaxFills = 3
  MaxRestarts = 1
  Assets = {s1, s2}
  AssetRows <- MCAssetRows
  MaxPoints = 3
  MinReturns = 2
  TailPer4 = 1
  Scale = 12
SPECIFICATION MCSpec
INVARIANTS
  PositionCapHolds
  StatisticsAgree
PROPERTIES
  
  PositionsFollowBook
\* Both parts come to rest when their bounds are reached.
CHECK_DEADLOCK FALSE
