SPECIFICATION SuiteSpec
CONSTANTS
  Services <- MCServices
  HealthyServices <- MCHealthyServices
  Submissions <- MCSubmissions
  FreeTextScores <- MCFreeTextScores
  Plans <- MCPlans
  Latencies <- MCLatencies
  TMax = 600
  Settle = 15
  Floor = 5
  MaxClock = 60
  MaxCalls = 12
  MaxLive = 1
  MaxEpisodes = 2
INVARIANTS SuiteTypeOK ExpertEarns NaiveEarnsNothing ReportsAgree
PROPERTY FinishedEpisodesStay
CHECK_DEADLOCK FALSE
