\* Four CPUs: a spare element can be relinked under another CPU's pointer;
\* three keys for two entries: an update can be refused.
CONSTANTS
    CPUs = {c1, c2, c3, c4}
    Keys = {k1, k2, k3}
    Entries = {e1, e2}
    NoElem = NoElem
    SamplePeriod = 2
    Handlers <- CountingOnly
    RingCap = 1
    MaxHits = 2
    MaxPackets = 4
    MaxRecords = 1
SPECIFICATION XdpSpec
SYMMETRY Symmetry
INVARIANTS CountExact TotalNeverExceedsHits SourcesWithinPackets
CHECK_DEADLOCK FALSE
