CONSTANTS
  MaxAddress = 4
  Base = 2
  Ints <- SomeInts
SPECIFICATION FairSpec
INVARIANTS
  AsStringH
  AccessesInBuffers
  StringInv
PROPERTIES
  StringCallsReturn
