SPECIFICATION Spec
CONSTANTS
  MaxAttempts = 3
  MaxLaunches = 2
INVARIANTS LiveSeenLive StaleIsTrue
PROPERTY WaiterIsTold
CHECK_DEADLOCK FALSE
