\* Two chains of two keys, room for all keys of a PID map but not for 0 as well.
CONSTANTS
    k1 = k1
    k2 = k2
    k3 = k3
    Keys = {k1, k2, k3}
    Zero = Zero
    NumBuckets = 2
    BucketOf <- Hash
    Capacity = 3
    CPUs = {c1, c2}
    NoKey = NoKey
    Programs <- AllPrograms
SPECIFICATION FairSpec
INVARIANTS TypeOK DumpComplete
PROPERTIES EveryKeyPrinted DumpEnds
