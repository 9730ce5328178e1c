SPECIFICATION Spec
CONSTANTS
  Published = 4
  SeqNr <- Restarting
  UriOf <- Counting
  FirstOf <- SlidingAnew
  SegmentsToKeep = 2
  Truncate = 2
  MaxFileAge = 4
  MaxCacheSize = 4
  MaxFetches = 0
INVARIANTS ListedIsCached NoOrphan
PROPERTIES SlidesForward MediaSequenceNeverGoesBack ShownNumbersNeverFall
CHECK_DEADLOCK FALSE
