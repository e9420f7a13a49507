SPECIFICATION Spec
CONSTANTS
  Scenarios = {s1, s2, s3}
  Deadlock = s1
  HealthEvery = 5
  Faults = {"network", "crash"}
INVARIANTS SuccessIsInForce InjectionShows
PROPERTY OfflineLeavesGatewayAlone
