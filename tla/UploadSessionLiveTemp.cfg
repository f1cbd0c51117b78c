SPECIFICATION Spec
CHECK_DEADLOCK FALSE
CONSTANTS
  u1 = u1 p1 = p1 p2 = p2 n1 = n1 n2 = n2 other = other NoNode = NoNode
  Sessions = {u1}
  Patches = {p1}
  Nodes = {n1}
  SessionOf <- MCSessionOf
  TempName <- MCTempName
  Size = 1
  Primaries = {"remote"}
  MaxFaults = 0
INVARIANT LiveTempKept
