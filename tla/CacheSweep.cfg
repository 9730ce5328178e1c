SPECIFICATION FairSpec
CONSTANTS
  Location = {1, 2, 3}
  MaxFileAge = 1
  MaxTotalMB = 3
  MiB = 1
  UINT = 16
  ULONG = 64
  MaxLen = 2
  MaxTime = 3
  Settings <- AloneAndPooled
INVARIANTS TypeOK CrashNeedsRace
PROPERTIES SweepFollowsPolicy StaleGoes
CHECK_DEADLOCK FALSE
