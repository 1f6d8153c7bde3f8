SPECIFICATION Spec
CONSTANTS
    Agents = {a1, a2, a3, a4}
    Limit = 2
    Questions = {q1}
    Budget = 2
    MaxCost = 2
INVARIANTS
    NothingOutlivesTheEnd
    OvershootBounded
    SlotsExact
PROPERTIES
    CancelledRunEndsUnlessAsking
\* The engine exits once the end record is written.
CHECK_DEADLOCK FALSE
