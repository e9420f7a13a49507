SPECIFICATION LiveSpec
CONSTANTS
  Services <- MCServices
  HealthyServices = {}
  Submissions <- MCSubmissions
  FreeTextScores <- MCFreeTextScores
  TMax = 4
  Settle = 1
  Floor = 1
  MaxClock = 1
  MaxCalls = 5
  MaxTurns = 2
  MaxAttempts = 3
  MaxPerTurn = 2
INVARIANTS LiveTypeOK ConversationIsComplete LostOnlyWithFallback
PROPERTIES EpisodeEnds EpisodeIsRespected
CHECK_DEADLOCK FALSE
