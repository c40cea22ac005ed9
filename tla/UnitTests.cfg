\* Each unit test from its beginning to its end; the clock moves by 1 to 3
\* ticks between two readings.
SPECIFICATION Spec
CONSTANTS
  None = None
  MaxTime = 15
  ClockSteps = {1, 2, 3}
INVARIANTS
  TestsPass
CHECK_DEADLOCK FALSE
