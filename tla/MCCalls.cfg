CONSTANTS
  t1 = t1
  t2 = t2
  b0 = b0
  b1 = b1
  other = other
  MainThread = t1
  OtherReg = other
  M = 3
  Threads <- OneThread
  BndRegs <- OneReg
  RegArgs <- AnyOne
  Platforms <- ReadyOnly
  Junk <- OneJunk
  Calls <- AllCalls
SPECIFICATION Spec
INVARIANTS
  TypeOK
  NoLeftoverSpill
  OffMeansClean
  ProcessInv
PROPERTIES
  ImplementsRegStore
  KeepsOtherHalf
