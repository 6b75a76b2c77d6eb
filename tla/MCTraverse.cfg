CONSTANTS
  M = 32
  BndRegs = {"BND0", "BND1"}
  Mapped <- Memory
  Buffers <- SomeBuffers
  JunkWords <- SomeJunk
SPECIFICATION FairSpec
INVARIANTS
  TraversesHalves
  FaultsOnlyOutside
  TraverseInv
PROPERTIES
  TraversalEnds
CHECK_DEADLOCK FALSE
