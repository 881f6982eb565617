CONSTANTS
  Long = Long
  Short = Short
  Directions <- BothDirections
  Neutral = Neutral
  Reviews <- SampleReviews
  Gates <- RegimeGates
  NormalGate = 6
  RejectMax = 4
  LowBand = 2
  AnalystCooldown = 1
  MaxMultiplier = 2
  BorderlineCycles = 1
  SkipThreshold = 2
  MaxInterval = 4
  WaitThreshold = 2
  WaitBase = 1
  WaitMax = 2
  FailThreshold = 2
  BarCycles = 3
  MaxSkips = 8
  None = None
SPECIFICATION Spec
INVARIANTS RInv OneDecisionPerBar SuspensionExcludesCooldown HeldBackBounded EntriesHaveGeometry
SYMMETRY DirectionSymmetry
