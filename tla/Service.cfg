SPECIFICATION SFairSpec
CONSTANTS
  Handlers = {1, 2, 3}
  Sessions = {s1, s2}
  Queries = {"match", "set", "ddl", "create"}
  Flags <- MCFlags
  Requests <- AllRequests
  BadRequest = bad
  InitTs = 0
  ReadOnlyDb = FALSE
  MaxRequests = 3
  NoPlan = noplan
  NoSession = nosession
INVARIANTS PoolExact NoLostWakeup PlanCurrent
PROPERTY RequestAnswered
CHECK_DEADLOCK FALSE
