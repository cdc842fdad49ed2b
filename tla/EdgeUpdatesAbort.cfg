SPECIFICATION ESpec
CONSTANTS
  Labels = {"A"}
  Lids = {0, 1}
  Tables <- MCWithin
  Vals = {1, 2}
  Bundled = TRUE
  Workload = {"batch", "delete_all", "set", "abort", "concurrent"}
  MaxTs = 3
  MaxOps = 2
  MaxEdges = 2
INVARIANT UndoRestores
