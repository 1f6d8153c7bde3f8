SPECIFICATION Spec
CONSTANTS
  Rounds = 2
  Items <- MCItems
  Program <- MCProgram
  MaxAttempts = 2
  MaxMailed = 1
INVARIANTS ReplayAgrees IndexIsOwn SeedIsSealed
PROPERTY SealedIsFinal
CHECK_DEADLOCK FALSE
