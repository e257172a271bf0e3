CONSTANTS
  Venues <- MCVenues
  Priority <- MCPriority
  Blocking = FALSE
  MaxSeq = 2
  MaxPending = 1
  MaxFaults = 2
  SymbolOrder <- MCSymbols
  QuoteAges = {0, 1000}
  WindowSpan = 1
  SilentBudget = 1
  StaleWarn = 5
  StaleCrit = 25
  AgeBudget = 500
  GapWeight = 4
  StaleWeight = 2
  DegradedBelow = 70
  RecoveredAtOrAbove = 85
  MaxDegradations = 2
  BookVenues = 1
  WindowQuotes = 1
  MaxAge = 2
  MaxEpisodes = 3
SPECIFICATION MCSpec
INVARIANTS
  
  EpisodesAlternate
  AlertsAreEpisodes
PROPERTIES
  
  SilenceIsFound
\* Every bounded part comes to rest when its bounds are reached.
CHECK_DEADLOCK FALSE
