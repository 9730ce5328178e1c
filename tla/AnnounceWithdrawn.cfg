SPECIFICATION Spec
CONSTANTS
  ServiceId = {"a", "b"}
  Settings <- Withdrawing
INVARIANT OwnersAlive
CHECK_DEADLOCK FALSE
