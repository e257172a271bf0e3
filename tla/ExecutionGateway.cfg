\* Three connection threads, two incarnations, a retained window shorter than
\* the number of fills.
CONSTANTS
  Threads = {t1, t2, t3}
  o1 = o1
  o2 = o2
  ES = ES
  OrderIds = {o1, o2}
  Symbols = {ES}
  Intents <- MCIntents
  MaxOrderQty = 2
  MinPrice = 0
  FillsRetained = 2
  VenueVerdicts = {TRUE, FALSE}
  ModifyQtys = {2}
  NoOrder = NoOrder
  MaxFills = 3
  MaxRejects = 1
  MaxRestarts = 1
SPECIFICATION Spec
SYMMETRY ThreadSymmetry
INVARIANTS
  UniqueFillIds
  RetainedAreTheNewest
  FilledOrderIsReported
  NoOrderIsEverOpen
CHECK_DEADLOCK FALSE
