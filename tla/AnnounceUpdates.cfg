SPECIFICATION Spec
CONSTANTS
  ServiceId = {"a", "b"}
  Settings <- UpdatesAndFirsts
INVARIANTS TypeOK OwnersAlive NewestWins
PROPERTIES UnjoinedOnlyIfOvertaken LateHandlerNeedsCause
CHECK_DEADLOCK FALSE
