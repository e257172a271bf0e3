\* One fill before and one after a restart of the gateway.
CONSTANTS
  o1 = o1
  o2 = o2
  ES = ES
  Threads = {t1}
  Intents <- MCIntents
  OrderIds = {o1, o2}
  Symbols = {ES}
  MaxOrderQty = 2
  MinPrice = 0
  FillsRetained = 2
  VenueVerdicts = {FALSE}
  ModifyQtys = {}
  NoOrder = NoOrder
  MaxFills = 2
  MaxRejects = 0
  MaxRestarts = 1
  MaxPositions = 1
  SeenCap = 2
  SeenKeep = 1
  HistoryCap = 1
  SnapshotRetention = 1
  Deltas = {}
  Factors = {}
  Dividends = {}
  BookMids = {}
  MaxEvents = 4
  MaxFillsPerPoll = 2
  MaxKeeperRestarts = 0
SPECIFICATION FairSpec
PROPERTY FetchedFillIsBooked
CHECK_DEADLOCK FALSE
