\* Restarts of both processes, three fills, answers as long as the retained window.
\* Submissions that overlap are the subject of the run ExecutionGateway.
CONSTANTS
  o1 = o1
  o2 = o2
  ES = ES
  Threads = {t1}
  Intents <- MCIntents
  OrderIds = {o1, o2}
  Symbols = {ES}
  MaxOrderQty = 2
  MinPrice = 0
  FillsRetained = 3
  VenueVerdicts = {FALSE}
  ModifyQtys = {}
  NoOrder = NoOrder
  MaxFills = 3
  MaxRejects = 0
  MaxRestarts = 1
  MaxPositions = 1
  SeenCap = 3
  SeenKeep = 1
  HistoryCap = 1
  SnapshotRetention = 1
  Deltas = {}
  Factors = {}
  Dividends = {}
  BookMids = {}
  MaxEvents = 4
  MaxFillsPerPoll = 3
  MaxKeeperRestarts = 1
SPECIFICATION FairSpec
PROPERTIES
  ImplementsLedger
  
CHECK_DEADLOCK FALSE
