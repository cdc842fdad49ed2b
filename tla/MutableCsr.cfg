SPECIFICATION CSpec
CONSTANTS
  s1 = s1
  s2 = s2
  s3 = s3
  v1 = v1
  v2 = v2
  Sessions = {s1, s2, s3}
  Vertices = {v1, v2}
  InitTs = 0
  MinCap = 2
  MaxTs = 3
  MaxRewrites = 1
  CheckpointDeleted = FALSE
SYMMETRY Symmetry
INVARIANTS
  ReadsComplete
  ListExact
  CountsAgree
CHECK_DEADLOCK FALSE
