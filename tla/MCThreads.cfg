CONSTANTS
  t1 = t1
  t2 = t2
  b0 = b0
  b1 = b1
  other = other
  MainThread = t1
  OtherReg = other
  M = 2
  Threads <- TwoThreads
  BndRegs <- TwoRegs
  RegArgs <- ValidArgs
  Platforms <- ThreadMachines
  Junk <- NoJunk
  Calls <- ThreadCalls
SPECIFICATION FairSpec
INVARIANTS
  AnswersAreTrue
PROPERTIES
  ImplementsRegStore
  CallsReturn
CHECK_DEADLOCK FALSE
