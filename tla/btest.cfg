SPECIFICATION Spec
CONSTANTS
  BYTE = 2
  LOG2W = 3
  FRAC = 3
  TEST_RANGE = 9
  Weights = {3}
  test_set <- AllTests
  Sessions <- SomeSessions
  MaxSlow = 1
INVARIANTS PuzzlesRight CreditEarned NoWrongCharge
PROPERTIES RunEnds
\* btest ends
CHECK_DEADLOCK FALSE
