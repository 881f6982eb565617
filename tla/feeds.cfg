CONSTANTS
  Sources = {fear_greed}
  FailureThreshold = 2
  Cooldown = 1
  MaxCooldown = 3
  MaxReopenCount = 3
  FirstBar <- FirstCandle
  LastBar <- FinalCandle
  MaxCandles = 2
  HistoryLength = 2
  AtrPeriod = 1
  MaxSubscriptions = 2
  MaxFaults = 1
SPECIFICATION FairSpec
INVARIANTS TypeOK BreakerFollowsStreak WindowInOrder NothingElseMissing
PROPERTIES ProbesSpaced AskedAgain
