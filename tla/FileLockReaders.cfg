SPECIFICATION FSpec
CONSTANTS
  h1 = h1
  h2 = h2
  h3 = h3
  p1 = p1
  p2 = p2
  p3 = p3
  Handles = {h1, h2, h3}
  Process <- MCShared
  Modes <- MCTwoReaders
INVARIANT Exclusive
