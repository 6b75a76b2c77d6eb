CONSTANTS
  t1 = t1
  t2 = t2
  b0 = b0
  b1 = b1
  other = other
  MainThread = t1
  OtherReg = other
  M = 2
  Threads <- TwoThreads
  BndRegs <- OneReg
  RegArgs <- ValidArg
  Platforms <- ReadyOnly
  Junk <- NoJunk
  Calls <- InitOnly
SPECIFICATION Spec
INVARIANTS
  EnabledForProcess
