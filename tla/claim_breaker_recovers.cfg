CONSTANTS
  Long = Long
  Short = Short
  Directions <- BothDirections
  Neutral = Neutral
  Reviews <- SampleReviews
  Gates <- RegimeGates
  NormalGate = 6
  RejectMax = 4
  LowBand = 2
  AnalystCooldown = 1
  MaxMultiplier = 1
  BorderlineCycles = 0
  SkipThreshold = 1
  MaxInterval = 4
  WaitThreshold = 1
  WaitBase = 1
  WaitMax = 1
  FailThreshold = 1
  BarCycles = 3
  MaxSkips = 1
  None = None
SPECIFICATION FairSpec
PROPERTY CircuitRecovers
