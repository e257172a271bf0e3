CONSTANTS
  Names = {a, b}
  Watched = a
  Envs = {dev, prod}
  DefaultEnv = dev
  Keys = {"limit", "rate"}
  Payloads <- MCPayloads
  Partials <- MCPartials
  Values = {x}
  None = None
  MaxServices = 1
  MaxRevisions = 2
  MaxEvents = 2
  MaxFlags = 1
  MaxFlagHistory = 1
  Followers = {f1}
  MaxChanges = 4
  Writers = {t1, t2}
  Verifiers = {v1}
  Bodies <- MCBodies
  MaxDataDepth = 8
  MaxVerifyDepth = 4
  MaxKept = 3
  Window = 1
  MaxKeys = 1
  MaxAppends = 4
  MaxClock = 2
  LastDay = 2
  Venues = {"V"}
  FillIds <- MCFillIds
  Posts <- MCPosts
  Listing <- MCListing
  BookRows <- MCBookRows
  Ingesters = {loop}
  QtyTolerance = 0
  MaxRows = 3
  MaxHistory = 1
  MaxFillsOfRun = 2
  MaxMoves = 1
SPECIFICATION MCSpec
INVARIANTS
  
  FollowerIsCurrent
  ChainIsIntact
  RetryIsFolded
  
  SealVerifies
  PositionSettledOnce
  CashViewsAgree
  ReconciledIsWorthTheSame
PROPERTIES
  FollowerCatchesUp
\* Every bounded part comes to rest when its bounds are reached.
CHECK_DEADLOCK FALSE
