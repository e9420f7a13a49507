------------------------------ MODULE MCSuite ------------------------------
(* The instance TLC checks, with the oracle's own numbers and the services *)
(* of the deployment: a suite of one scenario and one of two, over the     *)
(* three lengths of the expert's script.                                   *)
EXTENDS Suite

MCServices == {"api-gateway", "redis-state", "prometheus"}
MCHealthyServices == {"redis-state", "prometheus"}
MCSubmissions == {{}, RcaFields}
MCFreeTextScores == {700}
MCPlans == {<<"splitBrain">>, <<"deadlock", "retryStorm">>}
MCLatencies == {0, 5}
=============================================================================
