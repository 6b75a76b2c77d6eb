CONSTANTS
  c1 = c1
  c2 = c2
  t1 = t1
  t2 = t2
  t3 = t3
  b0 = b0
  NoTask = NoTask
  FirstTask = t1
  M = 2
  Cpus <- TwoCpus
  Tasks <- ThreeTasks
  BndRegs <- OneReg
  Platforms <- ReadyOnly
SPECIFICATION Spec
PROPERTIES
  LoadingEnablesAll
