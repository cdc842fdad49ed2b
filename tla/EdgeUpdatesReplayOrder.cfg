SPECIFICATION ESpec
CONSTANTS
  Labels = {"A"}
  Lids = {0, 1}
  Tables <- MCWithin
  Vals = {1, 2}
  Bundled = TRUE
  Workload = {"batch", "concurrent"}
  MaxTs = 3
  MaxOps = 2
  MaxEdges = 3
INVARIANT ReplayExact
