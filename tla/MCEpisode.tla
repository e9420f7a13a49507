----------------------------- MODULE MCEpisode -----------------------------
(* The instance TLC checks: a faulty gateway and one healthy service, an   *)
(* episode of 4 time units (so one unit stands for 150 s).                 *)
EXTENDS Episode

MCServices == {"api-gateway", "redis-state"}
MCHealthyServices == {"redis-state"}
MCSubmissions == {{}, {"scenario"}, RcaFields}
MCFreeTextScores == {0, 700}
============================================================================
