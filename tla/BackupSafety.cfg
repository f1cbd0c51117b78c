SPECIFICATION Spec
CHECK_DEADLOCK FALSE
CONSTANTS
  w1 = w1 w2 = w2 t1 = t1 d1 = d1 x1 = x1 c1 = c1 c2 = c2 c3 = c3 NoConn = NoConn
  Workers = {w1, w2}
  Triggers = {t1}
  Deletes = {}
  ConfigDeletes = {}
  Home <- MCHome
  PoolOf <- MCPoolOf
  Conns = {c1, c2, c3}
  Retention = 1
  MaxRetention = 1
  MaxRecords = 3
  MaxSlots = 2
  MaxEdits = 0
  MaxFaults = 1
INVARIANTS OneDump OncePerSlot
PROPERTY RetentionKept
