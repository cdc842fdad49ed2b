SPECIFICATION CSpec
CONSTANTS
  Sessions = {s1, s2, s3}
  NoSession = none
  RingSize = 8
  InitTs = 0
  MaxTs = 2
SYMMETRY SessionSymmetry
INVARIANT UpdateExclusive
CHECK_DEADLOCK FALSE
