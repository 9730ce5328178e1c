SPECIFICATION Spec
CONSTANTS
  Published = 3
  SeqNr <- Counting
  UriOf <- Counting
  FirstOf <- SlidingBy3
  SegmentsToKeep = 2
  Truncate = 3
  MaxFileAge = 1
  MaxCacheSize = 1
  MaxFetches = 1
INVARIANTS TypeOK ListedIsFetchable
PROPERTY ImplementsLiveWindow
CHECK_DEADLOCK FALSE
