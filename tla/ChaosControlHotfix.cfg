SPECIFICATION Spec
CONSTANTS
  Scenarios = {s1, s2}
  Deadlock = s1
  HealthEvery = 5
  Faults = {}
INVARIANT RemediationRecovers
