\* Three audit events, all of which one answer lists.
CONSTANTS
  Capacity = 4
  Consumers = {c1, c2}
  MaxItems = 2
  MaxWrites = 5
  QuoteKinds <- MCQuoteKinds
  Readers = {r1}
  RecentMax = 2
  AnswerMax = 2
  MaxQuotes = 3
  Sources = {"audl"}
  QueueSize = 1
  LiveWindow = 3
  MaxLog = 3
  MaxOutages = 1
SPECIFICATION MCSpec
INVARIANT ListedIsForwarded
CHECK_DEADLOCK FALSE
