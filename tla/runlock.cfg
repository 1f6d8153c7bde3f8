SPECIFICATION LockSpec
CONSTANTS
    Procs = {p1, p2, p3}
    Dead = Dead
    Nobody = Nobody
    MaxCrashes = 1
INVARIANTS
    LiveLockKeptUnlessSwept
    ReachableUnlessSlipped
    OneEngineUnlessSlipped
PROPERTIES
    TakenOverUnlessWithdrawn
\* A contender ends as an engine that is over, or refused.
CHECK_DEADLOCK FALSE
