SPECIFICATION Spec
CONSTANTS
    Procs = {p1, p2}
    Operator = operator
    None = None
    MaxRuns = 2
    MaxCommands = 1
CHECK_DEADLOCK FALSE
INVARIANTS
    TradingIsEarned
    StoresStayReadable
    WatchdogIsRight
    HalfRestoredGrantsNothing
SYMMETRY SupervisionSymmetry
