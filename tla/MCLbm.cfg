CONSTANTS
  g1 = g1
  g2 = g2
  NULL = NULL
  Grids <- TwoGrids
  Params <- AllParams
  ReportEvery = 2
SPECIFICATION Spec
INVARIANTS
  GridsInStep
  NothingLeft
  LbmInv
PROPERTIES
  ImplementsUnpatched
CHECK_DEADLOCK FALSE
