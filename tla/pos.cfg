CONSTANTS
  Slots = {p1, p2, p3, p4, p5}
  Size = 3
  Part = 1
  MaxLevel = 1
  Closes = 1
  ErrorsMapped = FALSE
  MaxFaults = 1
  MaxTimeouts = 1
  None = None
SPECIFICATION FairSpec
INVARIANT TypeOK
INVARIANT StopMatchesRecord
INVARIANT RecordCoversExposure
INVARIANT PartialExitOnce
INVARIANT NothingLeftBehind
PROPERTY MoveKeepsAStop
PROPERTY NotHeldForever
