SPECIFICATION FairSpec
CONSTANTS
  Sessions = {s1, s2, s3}
  RingSize = 4
  InitTs = 2
  MaxTs = 7
INVARIANTS
  UpdateExclusive
  SnapshotComplete
  UpdateIsNext
  GateCount
  RingExact
PROPERTIES
  ImplementsOracle
  UpdateDrains
  GateReopens
