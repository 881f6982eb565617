CONSTANTS
  d1 = d1
  d2 = d2
  c1 = c1
  s1 = s1
  p1 = p1
  p2 = p2
  p3 = p3
  Decisions = {d1, d2}
  Closes = {c1}
  Pullback = {d1}
  Symbols = {s1}
  SymbolOf <- TwoDecisions
  Slots = {p1, p2}
  Qty = 2
  MaxFaults = 0
  MaxPositions = 2
  None = None
SPECIFICATION Spec
INVARIANT ProtectedOnFill
