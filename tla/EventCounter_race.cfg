\* Two CPUs, two keys, room for both, one record of ring; every program of the
\* repository.  No symmetry, which is unsound for liveness.
CONSTANTS
    CPUs = {c1, c2}
    Keys = {k1, k2}
    Entries = {e1, e2}
    NoElem = NoElem
    SamplePeriod = 2
    Handlers <- AllHandlers
    RingCap = 1
    MaxHits = 2
SPECIFICATION FairSpec
INVARIANTS TypeOK CountInv ReportsPartition
PROPERTIES SettledCountGrows EveryRecordConsumed
\* The hooks need not fire again.
CHECK_DEADLOCK FALSE
