SPECIFICATION TurnSpec
CONSTANTS
    Protocols <- AllProtocols
    MaxSteer = 3
INVARIANTS
    SteersAccounted
    NoFalseDeliveryUnlessCrashed
PROPERTIES
    EveryTurnEnds
\* A turn is over once its outcome is known.
CHECK_DEADLOCK FALSE
