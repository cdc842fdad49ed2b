SPECIFICATION VSpec
CONSTANTS
  Limit = 5
  Initial = 3
  DELETED = 4
  Workload = {}
INVARIANTS
  ForeachExact
  CountExact
PROPERTY MapSpec
