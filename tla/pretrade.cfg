CONSTANTS
  None = None
  MinSlAtr = 75
  MaxSlAtr = 300
  MinSlPct = 200
  MinRR = 20
  LiqBuffer = 20
  MaxTpAtr = 3
  SlBuffer = 10
  TierConfig <- Tiered
  MaxPositions = 2
  PausePct = 3
  CloseAllPct = 5
  MaxMargin = 50
  NotionalFloor = 50
  Lot = 10
  Mmr = 1
  EngineLeverage = 10
  Staleness <- StalenessTicks
  Scout <- ScoutValues
  Filters <- FilterValues
  ProviderTh <- DefaultThresholds
  EngineTh <- TunedThresholds
  SymbolTier = "TIER_1"
  DepsLeverage = 10
  Candles <- MCCandles
  Markets <- MCMarkets
  Stores <- MCStores
  Analyses <- MCAnalyses
  Choices <- MCChoices
  MaxBars = 2
  MaxShifts = 1
  MaxAge = 2
SPECIFICATION Spec
INVARIANTS TypeOK GeometryStands GeometryOfItsCandle VetoIsFinal OrderIsAffordable
  VolumeMonotone SidesMirrored
CHECK_DEADLOCK FALSE
