SPECIFICATION Spec
CONSTANTS
  Services <- MCServices
  HealthyServices <- MCHealthyServices
  Submissions <- MCSubmissions
  FreeTextScores <- MCFreeTextScores
  TMax = 4
  Settle = 1
  Floor = 1
  MaxClock = 4
  MaxCalls = 4
INVARIANTS AuditAgrees PassIsEarned
PROPERTIES BreachIsFinal DiagnosisNeverHurts LateMutationNeverHelps StructuredStands
CHECK_DEADLOCK FALSE
