SPECIFICATION FairSpec
CONSTANTS
  Published = 3
  SeqNr <- Counting
  UriOf <- Counting
  FirstOf <- SlidingBy3
  SegmentsToKeep = 2
  Truncate = 1
  MaxFileAge = 3
  MaxCacheSize = 3
  MaxFetches = 0
PROPERTY LiveEdgeCatchesUp
CHECK_DEADLOCK FALSE
