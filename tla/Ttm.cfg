SPECIFICATION Spec
CONSTANTS
  DeltaTau = 4
  TMax = 3
  Before = 1
  MaxClock = 8
INVARIANTS WorseIsNeverFaster DenseSeriesAgree
PROPERTIES VerdictBecomesFinal RelapseTakesVerdictBack
CHECK_DEADLOCK FALSE
