SPECIFICATION Spec
CONSTANTS
  NumCPUs = 2
  Slots = 128
  Programs <- DeviceOnly
  MaxHits = 2
INVARIANT CountedByKind
