SPECIFICATION Spec
CONSTANTS
    Launchers = {l1, l2}
    Deleters = {d1}
    Readers = {r1}
    HasAged = TRUE
    None = None
    Aged = Aged
INVARIANTS
    OwnerIsAlone
    AcceptedNotDeletedUnlessCleared
    LostOnlyIfMoved
PROPERTIES
    EveryLaunchSettles
    ReadersKeepTheHandoff
\* Every process may be through.
CHECK_DEADLOCK FALSE
