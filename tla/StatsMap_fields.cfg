\* Two CPUs and two keys, one of which may find the map full.
CONSTANTS
    CPUs = {c1, c2}
    Keys = {k1, k2}
    Entries = {e1}
    NoElem = NoElem
    SamplePeriod = 2
    Programs <- AllPrograms
    Amounts = {1, 2, 3}
    MaxCalls = 2
SPECIFICATION Spec
SYMMETRY Symmetry
INVARIANTS TypeOK TotalsMatch ExtremesMeasured ReloadBounds
\* The hooks need not fire again.
CHECK_DEADLOCK FALSE
