SPECIFICATION Spec
CONSTANTS
  Threads = {t1, t2}
  MaxSamples = 2
  Fallback = TRUE
  NoThread = NoThread
INVARIANT SingleWorker
