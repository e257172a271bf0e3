\* Three checks within and across two velocity windows, with auto-engage; two operators
\* and two open orders.
CONSTANTS
  ES = ES
  NQ = NQ
  Symbols = {ES, NQ}
  Requests <- MCRequests
  FillReports <- MCReports
  o1 = o1
  OrderIds = {o1, o2}
  BookMids <- MCMids
  DefaultScalars <- MCScalars
  LimitUpdates <- MCUpdates
  Window = 2
  MaxOrdersPerSymbol = 1
  MaxOrdersTotal = 2
  MaxOpenOrders = 1
  AutoEngage = TRUE
  BreachesRetained = 4
  SeenCap = 1
  SeenKeep = 1
  Threads = {h1, h2}
  MaxTime = 2
  MaxChecks = 3
  MaxEngagements = 3
SPECIFICATION MCSpec
INVARIANT VelocityCapsHold
PROPERTY ListedOrderIsCancelled
\* Both parts come to rest when their bounds are reached.
CHECK_DEADLOCK FALSE
