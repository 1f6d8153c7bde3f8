SPECIFICATION Spec
CONSTANTS
    Threads = {t1, t2, t3}
    None = None
    MaxReport = 2
    MaxSpend = 5
    MaxEngines = 3
SYMMETRY SymmetricThreads
INVARIANTS
    SpendSurvives
    EngineSeesAll
\* The run may be left alone once its engines are spent.
CHECK_DEADLOCK FALSE
