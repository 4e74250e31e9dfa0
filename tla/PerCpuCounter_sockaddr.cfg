SPECIFICATION Spec
CONSTANTS
  NumCPUs = 2
  Slots = 128
  Programs <- SockAddrOnly
  MaxHits = 3
INVARIANT PrintsWholeCount
