SPECIFICATION FairSpec
CONSTANTS
  Conns = {c1, c2}
  Capacity = 1
  MaxRetries = 2
PROPERTY EveryReleaseReturns
