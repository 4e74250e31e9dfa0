\* Every pair: recursion, and a map with room for one entry less than there are threads.
CONSTANTS
    CPUs = {t1, t2}
    p1 = p1
    Keys = {t1, t2, p1}
    Entries = {e1}
    NoElem = NoElem
    ProcOf <- OneProcess
    Handlers <- AllPairs
    MaxTime = 4
    MaxDepth = 2
    MaxCalls = 2
SPECIFICATION Spec
SYMMETRY Symmetry
INVARIANTS TypeOK ThreadPairsExact PairInv NoOrphan
\* The clock is bounded and no thread need call the function again.
CHECK_DEADLOCK FALSE
