------------------------------- MODULE Suite -------------------------------
(***************************************************************************)
(* Many episodes in one process: EvaluationRunner (agent/eval_runner.py)   *)
(* runs suites and keeps trajectories, StirrupHarborAdapter                *)
(* (adapters/stirrup_adapter.py) runs single tasks, for the scripted       *)
(* agents of agent/mock_agent.py and for a live agent, which may do        *)
(* anything and may raise.                                                 *)
(*                                                                         *)
(* Each episode is one of Episode, in a tool environment of its own; a     *)
(* call of a tool first takes some time and is then recorded.  Clocks are  *)
(* in seconds.  Suites are given a path to export to (run_cli gives none   *)
(* and writes the same lines itself when run_suite has returned).          *)
(***************************************************************************)
EXTENDS Episode

CONSTANTS
  Plans,        \* lists of scenarios a suite is started with (bound)
  Latencies,    \* how long a tool call may take
  MaxLive,      \* calls of a live agent (bound)
  MaxEpisodes   \* episodes of suites, after which nothing starts (bound)

ASSUME SuiteAssumption ==
  /\ Latencies \subseteq Nat
  /\ MaxLive \in 0..MaxCalls /\ MaxEpisodes \in Nat
  /\ MaxCalls >= 10   \* the calls of the longest script

(* The default of the oracle, and the service the scripts repair.          *)
ASSUME DeploymentAssumption ==
  /\ HealthyServices = {"redis-state", "prometheus"}
  /\ "api-gateway" \in Services

(* The structured_rca of each scenario of the catalogue.                   *)
Catalogue ==
  [deadlock |->
     [scenario |-> "deadlock", component |-> "checkout_worker",
      factor |-> "unbuffered_channel_circular_lock",
      remediation |-> "buffered_channels_with_timeout"],
   retryStorm |->
     [scenario |-> "retryStorm", component |-> "upstream_payment_client",
      factor |-> "unjittered_aggressive_retries",
      remediation |-> "exponential_backoff_with_full_jitter"],
   poolExhaustion |->
     [scenario |-> "poolExhaustion", component |-> "db_connection_pool",
      factor |-> "unreleased_handles_on_error_path",
      remediation |-> "guaranteed_defer_release"],
   packetDrop |->
     [scenario |-> "packetDrop", component |-> "network_bridge_socket",
      factor |-> "inter_service_packet_drop_tcp_retransmit",
      remediation |-> "tcp_timeout_tuning_and_reroute"],
   splitBrain |->
     [scenario |-> "splitBrain", component |-> "distributed_lock_manager",
      factor |-> "premature_lease_expiration_vs_processing_latency",
      remediation |-> "lease_extension_heartbeat_or_fencing_token"]]

Scenarios == DOMAIN Catalogue
(* run_cli always has a scenario.                                          *)
ASSUME PlansAssumption == Plans \subseteq Seq(Scenarios) \ {<<>>}

Agents == {"expert", "naive", "live"}

VARIABLES
  phase,        \* "idle", or what is being run: "suite" or "task"
  agent,        \* who solves it
  todo,         \* scenarios of the suite from the current one on
  answered,     \* the call under way has had its latency
  reports,      \* what run_suite has collected, and returns in the end
  returned,     \* the last suite returned
  trajectories, \* of the runner, over all its suites
  exported,     \* the trajectories in the export file
  harbor        \* the result of the last task, until the next run starts

runner == <<phase, agent, todo, reports, returned, trajectories, exported,
            harbor>>
suiteVars == <<vars, answered, runner>>

NoResult == [agent |-> "none"]
Scenario == Head(todo)

----------------------------------------------------------------------------
(* The calls of ExpertSRE.solve_incident: some metrics are asked for, and  *)
(* the process inspected, in some scenarios only.                          *)
Query == [tool |-> "telemetry"]
Hotfix == [tool |-> "apply_hotfix"]
Restart(s) == [tool |-> "restart_service", service |-> s]
Rca(report) == [tool |-> "submit_structured_rca", report |-> report]
PostMortem(score) == [tool |-> "generate_post_mortem", score |-> score]

Specific ==
  [deadlock |-> <<Query, Query>>, retryStorm |-> <<>>,
   poolExhaustion |-> <<Query, Query>>, packetDrop |-> <<>>,
   splitBrain |-> <<Query>>]

ExpertScript(s) ==
  <<Query, Query, Query>> \o Specific[s]
    \o <<Query, Hotfix, Query, Rca(Catalogue[s]), PostMortem(1000)>>

(* NaiveJuniorAgent.solve_incident.                                        *)
NaiveReport == [scenario |-> "unknown_failure", component |-> "redis-state",
                factor |-> "unverified_speculation",
                remediation |-> "restart_healthy_services"]
NaiveScript ==
  <<Restart("redis-state"), Restart("prometheus"), Hotfix,
    Rca(NaiveReport), PostMortem(0)>>

Script == IF agent = "expert" THEN ExpertScript(Scenario) ELSE NaiveScript
Position == Len(call_history) + 1

(* The fields of a structured report evaluate_rca_score finds right.       *)
RightFields(report) ==
  {f \in RcaFields : report[f] = Catalogue[Scenario][f]}

Perform(step) ==
  \/ step.tool = "telemetry" /\ Diagnose
  \/ step.tool = "apply_hotfix" /\ apply_hotfix("api-gateway")
  \/ step.tool = "restart_service" /\ restart_service(step.service)
  \/ /\ step.tool = "submit_structured_rca"
     /\ submit_structured_rca(RightFields(step.report))
  \/ /\ step.tool = "generate_post_mortem"
     /\ generate_post_mortem(step.score)

(* Definitions named ..._Fault are not part of the specification: each is  *)
(* a bug the definition after it might have had, and breaks a property.    *)

(* One tool environment for the whole suite.                               *)
NewEnvironment_Fault ==
  /\ clock' = 0
  /\ call_history' = <<>>
  /\ UNCHANGED <<service_restarts, remediation_applied, artifacts>>

(* "Initialize isolated tool environment", and t_chaos.                    *)
NewEnvironment ==
  /\ clock' = 0
  /\ call_history' = <<>>
  /\ service_restarts' = [s \in Services |-> 0]
  /\ remediation_applied' = FALSE
  /\ structured_rca' = None
  /\ post_mortem' = None

----------------------------------------------------------------------------
SuiteInit ==
  /\ Init
  /\ phase = "idle" /\ agent = "expert" /\ todo = <<>>
  /\ answered = FALSE
  /\ reports = <<>> /\ returned = FALSE
  /\ trajectories = <<>> /\ exported = <<>>
  /\ harbor = NoResult

StartSuite(a, plan) ==
  /\ phase = "idle"
  /\ Len(trajectories) + Len(plan) <= MaxEpisodes
  /\ phase' = "suite"
  /\ agent' = a
  /\ todo' = plan
  /\ reports' = <<>>
  /\ returned' = FALSE
  /\ harbor' = NoResult
  /\ NewEnvironment
  /\ UNCHANGED <<answered, trajectories, exported>>

StartTask(a, s) ==
  /\ phase = "idle"
  /\ Len(trajectories) < MaxEpisodes
  /\ phase' = "task"
  /\ agent' = a
  /\ todo' = <<s>>
  /\ harbor' = NoResult
  /\ NewEnvironment
  /\ UNCHANGED <<answered, reports, returned, trajectories, exported>>

Solving == phase # "idle"
MoreCalls == Position <= (IF agent = "live" THEN MaxLive ELSE Len(Script))

(* A probe, a query or a restart that answers, or times out.               *)
Latency ==
  /\ Solving
  /\ ~answered
  /\ MoreCalls
  /\ \E d \in Latencies :
        /\ clock + d <= MaxClock
        /\ clock' = clock + d
  /\ answered' = TRUE
  /\ UNCHANGED <<call_history, service_restarts, remediation_applied,
                 artifacts, runner>>

CallTool ==
  /\ Solving
  /\ answered
  /\ IF agent = "live" THEN Diagnose \/ Mutate \/ Report
                       ELSE Perform(Script[Position])
  /\ answered' = FALSE
  /\ UNCHANGED runner

(* solve_incident returns: a script at its end, a live agent when it likes *)
(* (LiveAgent says when).                                                  *)
Solved == Solving /\ ~answered /\ (agent # "live" => ~MoreCalls)

(* A hotfix paid by itself, not as a share of the episode's reward.        *)
StepReward_Fault(tool) ==
  CASE tool = "apply_hotfix" -> 800
    [] OTHER -> Rounded(Reward, 10)

(* The step rewards of a trajectory, in units of 10^-3.                    *)
StepReward(tool) ==
  CASE tool \in {"apply_hotfix", "apply_runtime_config"} /\ remediation_applied
         -> Rounded(8 * Reward, 100)
    [] tool \in {"submit_structured_rca", "generate_post_mortem"}
         -> Rounded(Reward, 10)
    [] OTHER -> 0

Result ==
  [agent |-> agent, scenario |-> Scenario, reward |-> Reward,
   passed |-> Passed,
   steps |-> [i \in 1..Len(call_history) |-> StepReward(call_history[i].tool)]]

(* The file written before the last trajectory is in the list.             *)
EndOfSuite_Fault ==
  /\ exported' = trajectories
  /\ returned' = TRUE
  /\ phase' = "idle"

EndOfSuite ==
  /\ exported' = trajectories'
  /\ returned' = TRUE
  /\ phase' = "idle"

(* The loop over the scenarios runs once more than there are.              *)
LastScenario_Fault == Len(todo) = 0

LastScenario == Len(todo) = 1

EndEpisode ==
  /\ phase = "suite"
  /\ Solved
  /\ trajectories' = Append(trajectories, Result)
  /\ reports' = Append(reports, Result)
  /\ todo' = Tail(todo)
  /\ NewEnvironment
  /\ \/ ~LastScenario /\ UNCHANGED <<phase, exported, returned>>
     \/ LastScenario /\ EndOfSuite
  /\ UNCHANGED <<agent, answered, harbor>>

EndTask ==
  /\ phase = "task"
  /\ Solved
  /\ harbor' = Result
  /\ phase' = "idle"
  /\ NewEnvironment
  /\ UNCHANGED <<agent, todo, answered, reports, returned, trajectories,
                 exported>>

(* A list shared with the runner, emptied when the suite fails.            *)
AgentRaises_Fault ==
  /\ Solving
  /\ agent = "live"
  /\ phase' = "idle"
  /\ reports' = <<>>
  /\ trajectories' = SubSeq(trajectories, 1, Len(trajectories) - Len(reports))
  /\ answered' = FALSE
  /\ NewEnvironment
  /\ UNCHANGED <<agent, todo, returned, exported, harbor>>

(* solve_incident raises, through run_suite to its caller: the list of     *)
(* reports is gone and nothing is exported, but the runner keeps the       *)
(* trajectories of the episodes that were over.                            *)
AgentRaises ==
  /\ Solving
  /\ agent = "live"
  /\ phase' = "idle"
  /\ reports' = <<>>
  /\ answered' = FALSE
  /\ NewEnvironment
  /\ UNCHANGED <<agent, todo, returned, trajectories, exported, harbor>>

SuiteNext ==
  \/ \E a \in Agents :
        \/ \E plan \in Plans : StartSuite(a, plan)
        \/ \E plan \in Plans : StartTask(a, Head(plan))
  \/ Latency \/ CallTool \/ EndEpisode \/ EndTask \/ AgentRaises

SuiteSpec == SuiteInit /\ [][SuiteNext]_suiteVars

----------------------------------------------------------------------------
Results ==
  {trajectories[i] : i \in DOMAIN trajectories}
    \cup (IF harbor = NoResult THEN {} ELSE {harbor})

(* A result is a verdict on an agent and a scenario: its reward is within  *)
(* 0 and 1 (run_scenario's fields, eval_runner.py:155-166).                *)
IsVerdict(r) ==
  r.agent \in Agents /\ r.scenario \in Scenarios
    /\ r.reward \in 0..10000 /\ r.passed \in BOOLEAN

(* Every variable keeps its type, and every result is a verdict.           *)
SuiteTypeOK ==
  /\ TypeOK
  /\ phase \in {"idle", "suite", "task"}
  /\ agent \in Agents
  /\ todo \in Seq(Scenarios) /\ (phase = "suite" => todo # <<>>)
  /\ answered \in BOOLEAN /\ returned \in BOOLEAN
  /\ \A r \in Results : IsVerdict(r)

(* "Achieves R_episode >= 0.95" (mock_agent.py:5): in every scenario,      *)
(* whoever ran before in the same process, and with every call as slow as  *)
(* its timeouts allow, the expert passes with 0.95 or more, and is paid    *)
(* for its hotfix and its two reports only.                                *)
ExpertEarns ==
  \A r \in Results :
     r.agent = "expert" =>
       /\ r.passed /\ r.reward >= 9500
       /\ Cardinality({i \in DOMAIN r.steps : r.steps[i] > 0}) = 3

(* "Achieves R_episode = 0.0" (mock_agent.py:6): the naive agent gains     *)
(* nothing, in no scenario and by no step of its trajectory, although it   *)
(* does apply a hotfix and does report.                                    *)
NaiveEarnsNothing ==
  \A r \in Results :
     r.agent = "naive" =>
       ~r.passed /\ r.reward = 0 /\ \A i \in DOMAIN r.steps : r.steps[i] = 0

(* The reports of a suite are the last trajectories of its runner, and     *)
(* when it returns the file holds them all, whatever suites ran or failed  *)
(* on the same runner before.                                              *)
ReportsAgree ==
  /\ \E n \in 0..Len(trajectories) :
        reports = SubSeq(trajectories, n + 1, Len(trajectories))
  /\ returned => exported = trajectories

(* A scenario that raises costs the reports of its suite, but no finished  *)
(* episode leaves the runner's trajectories or changes there.              *)
FinishedEpisodesStay ==
  [][/\ Len(trajectories') >= Len(trajectories)
     /\ SubSeq(trajectories', 1, Len(trajectories)) = trajectories]_suiteVars
============================================================================
