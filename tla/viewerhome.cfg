SPECIFICATION HomeSpec
CONSTANTS
  Starters = {a, b, c}
  Nobody = Nobody
  MaxCrashes = 2
  MaxMisses = 1
INVARIANTS OneStarter PrimaryIsOnRecord
PROPERTY WaitEnds
CHECK_DEADLOCK FALSE
