SPECIFICATION FairSpec
CHECK_DEADLOCK FALSE
CONSTANTS
  u1 = u1 p1 = p1 p2 = p2 n1 = n1 n2 = n2 other = other NoNode = NoNode
  Sessions = {u1}
  Patches = {p1, p2}
  Nodes = {n1}
  SessionOf <- MCSessionOf
  TempName <- MCTempName
  Size = 2
  Primaries = {"local", "remote"}
  MaxFaults = 1
INVARIANTS OffsetCovered AcknowledgedIntact StoredIntact
PROPERTY SessionsEnd
