CONSTANTS
  NoYear = NoYear
  NoCountry = NoCountry
  NoEdge = NoEdge
  Threads = {t1, t2}
  Labels = {1, 2}
  max_iterations = 3
  max_levels = 3
  resolution = 1
  Stored <- MCStored
  Bibliographies <- MCBibliographies
  Configs <- MCConfigs
  PubDsCap = 2
  MaxCalls = 1
  MaxClock = 1
SPECIFICATION PFairSpec
CHECK_DEADLOCK FALSE
INVARIANTS
  BuiltExact
  CoarseExact
  ResultExact
  CorenessExact
  BinsExact
PROPERTIES
  MovesPay
  CallReturns
