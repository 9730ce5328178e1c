SPECIFICATION Spec
CONSTANTS
  Contents <- SomeTexts
  Leftover = {0, 3}
  INT = 4
  Digit = 4
  NoValue = NoValue
INVARIANTS TypeOK SegmentsAsWritten ReadBack ThrowsForMalformed
CHECK_DEADLOCK FALSE
