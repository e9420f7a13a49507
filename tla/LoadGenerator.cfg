SPECIFICATION FairSpec
CONSTANTS
  Threads = {t1, t2, t3}
  MaxSamples = 2
  Fallback = TRUE
  NoThread = NoThread
INVARIANTS TypeOK RunningMeansServed ExtraWorkersWereAbandoned
PROPERTIES StoppedFallsSilent RecoveryIsSeen
