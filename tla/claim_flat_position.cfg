CONSTANTS
  Slots = {p1, p2, p3, p4}
  Size = 3
  Part = 1
  MaxLevel = 2
  Closes = 0
  ErrorsMapped = FALSE
  MaxFaults = 0
  MaxTimeouts = 0
  None = None
SPECIFICATION FairSpec
PROPERTY FlatPositionIsRemoved
