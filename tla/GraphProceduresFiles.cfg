CONSTANTS
  NoYear = NoYear
  NoCountry = NoCountry
  NoEdge = NoEdge
  Threads = {t1, t2}
  Labels = {1, 2}
  max_iterations = 3
  max_levels = 3
  resolution = 1
  Stored <- MCStored
  Bibliographies = {}
  Configs = {}
  PubDsCap = 2
  MaxCalls = 2
  MaxClock = 1
SPECIFICATION PSpec
CHECK_DEADLOCK FALSE
INVARIANT ResultFileIntact
