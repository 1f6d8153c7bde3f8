SPECIFICATION Spec
CONSTANTS
    MaxRead = 3
    MaxBatch = 2
    MaxWire = 1
    MaxEvents = 1
    MaxFacts = 2
    MaxHitches = 1
    MaxResumes = 1
INVARIANTS
    CursorIsExact
PROPERTIES
    Follows
    CatchesUp
\* A run that ended and a page that shows it have nothing left to do but poll.
CHECK_DEADLOCK FALSE
