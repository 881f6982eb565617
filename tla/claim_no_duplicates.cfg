CONSTANTS
  d1 = d1
  d2 = d2
  c1 = c1
  s1 = s1
  p1 = p1
  p2 = p2
  p3 = p3
  Decisions = {d1}
  Closes = {c1}
  Pullback = {d1}
  Symbols = {s1}
  SymbolOf <- OneDecision
  Slots = {p1, p2}
  Qty = 1
  MaxFaults = 1
  MaxPositions = 2
  None = None
SPECIFICATION Spec
INVARIANT NoDuplicateProtection
