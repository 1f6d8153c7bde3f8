SPECIFICATION Spec
CONSTANTS
    b1 = b1
    c1 = c1
    c2 = c2
    x = x
    None = None
    Sites <- MCSites
    Handles <- MCHandles
    Program <- MCProgram
    MaxOperator = 1
    MaxEngines = 3
INVARIANTS
    AcksAreCovered
    DoneIsInSessionUnlessLeft
    NothingStranded
    DoneNotRepeated
    HandleSendsAreTheirOwn
\* The run may be left alone once its engines are spent.
CHECK_DEADLOCK FALSE
