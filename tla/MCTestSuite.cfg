CONSTANTS
  t1 = t1
  b0 = b0
  b1 = b1
  b2 = b2
  b3 = b3
  other = other
  MainThread = t1
  OtherReg = other
  M = 16
  DEADBEEFDEADBEEF = 13
  DEAD = 14
  BEEF = 11
  TwoTo16 = 4
  BND <- InOrder
  Threads <- OneThread
  BndRegs <- FourRegs
  RegArgs <- AnyArg
  Platforms <- AllPlatforms
  Junk <- OneJunk
  Calls <- AllCalls
SPECIFICATION SuiteSpec
INVARIANTS
  AssertionsHold
  TestsHaveMpx
  TestsStartClean
  SuiteInv
  KilledOnlyWithoutKernelSupport
PROPERTIES
  SuiteEnds
CHECK_DEADLOCK FALSE
