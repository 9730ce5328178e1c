SPECIFICATION Spec
CONSTANTS
  ServiceId = {"a", "b"}
  Settings <- Methods
INVARIANT OneStartPerPattern
CHECK_DEADLOCK FALSE
