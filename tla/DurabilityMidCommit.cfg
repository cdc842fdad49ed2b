SPECIFICATION DSpec
CONSTANTS
  s1 = s1
  s2 = s2
  k1 = k1
  k2 = k2
  Sessions = {s1, s2}
  Keys = {k1, k2}
  Vals = {1}
  KeysOf <- MCOwnKeys
  Workload = {"checkpoint", "compaction", "torn_write"}
  InitTs = 0
  ListSize = 8
  Reserve = 8
  MaxTs = 2
  MaxOps = 2
  MaxRestarts = 1
INVARIANTS
  RecoversFromLog
  LoggedInsertsApply
PROPERTY SnapshotStable
CHECK_DEADLOCK FALSE
