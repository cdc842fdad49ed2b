SPECIFICATION ESpec
CONSTANTS
  Labels = {"A"}
  Lids = {0, 1}
  Tables <- MCWithin
  Vals = {1, 2}
  Bundled = TRUE
  Workload = {"batch", "delete_all", "set", "vertex", "crash"}
  MaxTs = 3
  MaxOps = 2
  MaxEdges = 2
INVARIANT Mirrored
INVARIANT NoDangling
INVARIANT ReplayExact
