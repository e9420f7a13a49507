SPECIFICATION FairSpec
CONSTANTS
  Conns = {c1, c2}
  Capacity = 1
  MaxRetries = 2
INVARIANTS TypeOK ChannelConsistent PoolBalance SingleWinner
PROPERTIES PoolIsHandlePool
PROPERTIES OnlyReleaseHangs DrainEnds GaugeCatchesUp
