SPECIFICATION FairSpec
CONSTANTS
  Client = {c1, c2}
  Threads = 2
  MaxFiles = 3
  Evictions = TRUE
INVARIANTS TypeOK DanglingNeedsEvictionOrRefetch
PROPERTIES AskingAgainHelps WaitsEnd
CHECK_DEADLOCK FALSE
