SPECIFICATION SSpec
CONSTANTS
  Handlers = {1, 2, 3}
  Sessions = {s1, s2}
  Queries = {"match", "set", "ddl", "create"}
  Flags <- MCFlags
  Requests <- AllRequests
  BadRequest = bad
  InitTs = 0
  ReadOnlyDb = FALSE
  MaxRequests = 2
  NoPlan = noplan
  NoSession = nosession
INVARIANT SinkSeesSnapshot
CHECK_DEADLOCK FALSE
