CONSTANTS
  MaxAddress = 16
  Base = 6
  Ints <- SomeInts
  Size = 8
  Sizes <- TwoSizes
SPECIFICATION FixtureSpec
INVARIANTS
  TwinsAgree
  BodiesInBuffers
  OneByteApart
  MeasuresTheWorst
  FixtureInv
CHECK_DEADLOCK FALSE
