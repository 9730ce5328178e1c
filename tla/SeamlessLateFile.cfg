SPECIFICATION Spec
CONSTANTS
  Published = 3
  SeqNr <- Counting
  UriOf <- Counting
  FirstOf <- SlidingBy3
  SegmentsToKeep = 3
  Truncate = 3
  MaxFileAge = 3
  MaxCacheSize = 3
  MaxFetches = 0
INVARIANT ReceivedIsServed
CHECK_DEADLOCK FALSE
