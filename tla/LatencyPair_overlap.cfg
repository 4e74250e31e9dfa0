\* Two threads of one process in the function at once.
CONSTANTS
    CPUs = {t1, t2}
    p1 = p1
    Keys = {t1, t2, p1}
    Entries = {e1, e2}
    NoElem = NoElem
    ProcOf <- OneProcess
    Handlers <- ByProcess
    MaxTime = 4
    MaxDepth = 1
    MaxCalls = 1
SPECIFICATION Spec
INVARIANT MeasuresOwnCall
CHECK_DEADLOCK FALSE
