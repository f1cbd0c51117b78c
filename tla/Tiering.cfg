SPECIFICATION FairSpec
CHECK_DEADLOCK FALSE
CONSTANTS
  h1 = h1 c1 = c1 w1 = w1 w2 = w2 r1 = r1
  Upload = Upload NoStorage = NoStorage
  Storages = {h1, c1}
  HotFirst <- MCHot
  Rank <- MCRank
  Workers = {w1, w2}
  Restores = {r1}
  Columns = {"is_hot", "enabled"}
  MaxEdits = 1
  MaxFaults = 1
INVARIANT AlwaysServed
PROPERTY EventuallyArchived
