CONSTANTS
  Capacity = 4
  Consumers = {c1, c2}
  MaxItems = 2
  MaxWrites = 5
  QuoteKinds <- MCQuoteKinds
  Readers = {r1}
  RecentMax = 2
  AnswerMax = 2
  MaxQuotes = 3
  Sources = {"obb", "altsvc"}
  QueueSize = 1
  LiveWindow = 2
  MaxLog = 2
  MaxOutages = 1
SPECIFICATION MCSpec
INVARIANTS
  NothingLostUncounted
  ShownIsAppliedOnce
  ViewsAreCurrent
  HelloIsComplete
  AnnouncedBeforeData
  
  
\* Every bounded part comes to rest when its bounds are reached.
CHECK_DEADLOCK FALSE
