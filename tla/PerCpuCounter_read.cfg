\* Three CPUs: one copy already read, one being read, one still to be read.
SPECIFICATION FairSpec
CONSTANTS
  NumCPUs = 3
  Slots = 128
  Programs <- SummingPrograms
  MaxHits = 2
INVARIANT TypeOK
PROPERTIES ImplementsService CountsGrow CatchesUp
