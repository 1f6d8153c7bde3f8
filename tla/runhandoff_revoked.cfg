SPECIFICATION Spec
CONSTANTS
    Launchers = {l1, l2}
    Deleters = {d1}
    Readers = {}
    HasAged = FALSE
    None = None
    Aged = Aged
INVARIANTS
    AcceptedNotDeleted
\* Every process may be through.
CHECK_DEADLOCK FALSE
