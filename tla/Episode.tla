------------------------------ MODULE Episode ------------------------------
(***************************************************************************)
(* One incident-response episode: the tools of tools/sre_tools.py, called  *)
(* by an agent in any order, the audit trail they leave, and the verdict   *)
(* evaluator/verifier.py and evaluator/metrics.py draw from it.            *)
(*                                                                         *)
(* evaluate_episode only reads, so the verdict is a set of operators over  *)
(* the state and can be asked for after any call.  It is modelled on the   *)
(* path run_scenario takes: no traffic generator, no telemetry history, no *)
(* override, hence a TTM derived from the audit trail.  Rewards are in     *)
(* units of 10^-4, the precision compute_episode_reward rounds to, RCA     *)
(* scores in units of 10^-3, times in a unit of the instance's choice.     *)
(***************************************************************************)
EXTENDS Integers, Sequences, FiniteSets

CONSTANTS
  Services,         \* names an agent passes as service_name
  HealthyServices,  \* healthy_services of the oracle
  TMax,             \* t_max
  Settle,           \* the 15 s added to the last mutation
  Floor,            \* the 5 s below which no TTM goes
  Submissions,      \* the fields a structured RCA may get right (bound)
  FreeTextScores,   \* scores a free-text post-mortem may earn (bound)
  MaxClock,         \* bound on time
  MaxCalls          \* bound on tool calls

ASSUME ServicesAssumption == HealthyServices \subseteq Services
ASSUME TimeAssumption ==
  /\ TMax \in Nat \ {0} /\ Settle \in Nat /\ Floor \in 0..TMax
  /\ MaxClock \in Nat /\ MaxCalls \in Nat
RcaFields == {"scenario", "component", "factor", "remediation"}
ASSUME RcaAssumption ==
  /\ Submissions \subseteq SUBSET RcaFields
  /\ FreeTextScores \subseteq 0..1000

VARIABLES
  clock,               \* seconds since t_chaos
  call_history,        \* the audit trail
  service_restarts,    \* restart counter of each service
  remediation_applied, \* the flag in simulated_context
  structured_rca,      \* fields right in structured_rca_artifact
  post_mortem          \* post_mortem_artifact: who wrote it last, and what

vars == <<clock, call_history, service_restarts, remediation_applied,
          structured_rca, post_mortem>>

None == [by |-> "none"]
Artifacts ==
  [by : {"none"}] \cup [by : {"rca"}, right : SUBSET RcaFields]
                  \cup [by : {"text"}, score : 0..1000]

Tools == {"telemetry", "apply_hotfix", "apply_runtime_config",
          "restart_service", "submit_structured_rca", "generate_post_mortem"}
MutationTools == {"apply_hotfix", "apply_runtime_config", "restart_service"}
NoService == "no service"
Calls == [tool : Tools, service : Services \cup {NoService}, at : Nat]

----------------------------------------------------------------------------
Init ==
  /\ clock = 0
  /\ call_history = <<>>
  /\ service_restarts = [s \in Services |-> 0]
  /\ remediation_applied = FALSE
  /\ structured_rca = None
  /\ post_mortem = None

(* Definitions named ..._Fault are not part of the specification: each is  *)
(* a bug the definition after it might have had, and breaks a property.    *)

record_call(t, s) ==
  call_history' = Append(call_history, [tool |-> t, service |-> s, at |-> clock])

artifacts == <<structured_rca, post_mortem>>

(* query_prometheus, tail_service_logs, inspect_process and                *)
(* get_incident_alert: whatever they read, they leave a telemetry record.  *)
(* A grep_pattern that is no regular expression raises before the record,  *)
(* as an empty name does in apply_runtime_config: nothing has changed, and *)
(* such a call is a stuttering step here.                                  *)
Diagnose ==
  /\ record_call("telemetry", NoService)
  /\ UNCHANGED <<clock, service_restarts, remediation_applied, artifacts>>

(* A hotfix whose reload starts the counters again.                        *)
apply_hotfix_Fault(s) ==
  /\ remediation_applied' = TRUE
  /\ service_restarts' = [t \in Services |-> 0]
  /\ record_call("apply_hotfix", s)
  /\ UNCHANGED <<clock, artifacts>>

(* Its POST to /chaos/reset changes the gateway, and no answer to it       *)
(* changes the episode.                                                    *)
apply_hotfix(s) ==
  /\ remediation_applied' = TRUE
  /\ record_call("apply_hotfix", s)
  /\ UNCHANGED <<clock, service_restarts, artifacts>>

apply_runtime_config(s) ==
  /\ remediation_applied' = TRUE
  /\ record_call("apply_runtime_config", s)
  /\ UNCHANGED <<clock, service_restarts, artifacts>>

(* An early return when docker fails, after counting, before recording.    *)
restart_service_Fault(s) ==
  /\ service_restarts' = [service_restarts EXCEPT ![s] = @ + 1]
  /\ \/ record_call("restart_service", s)
     \/ UNCHANGED call_history
  /\ UNCHANGED <<clock, remediation_applied, artifacts>>

(* Counted and recorded whether or not docker could do it.                 *)
restart_service(s) ==
  /\ service_restarts' = [service_restarts EXCEPT ![s] = @ + 1]
  /\ record_call("restart_service", s)
  /\ UNCHANGED <<clock, remediation_applied, artifacts>>

(* A structured report also replaces the free-text one.                    *)
submit_structured_rca(right) ==
  /\ structured_rca' = [by |-> "rca", right |-> right]
  /\ post_mortem' = [by |-> "rca", right |-> right]
  /\ record_call("submit_structured_rca", NoService)
  /\ UNCHANGED <<clock, service_restarts, remediation_applied>>

generate_post_mortem(score) ==
  /\ post_mortem' = [by |-> "text", score |-> score]
  /\ record_call("generate_post_mortem", NoService)
  /\ UNCHANGED <<clock, service_restarts, remediation_applied, structured_rca>>

TimePasses ==
  /\ clock < MaxClock
  /\ clock' = clock + 1
  /\ UNCHANGED <<call_history, service_restarts, remediation_applied,
                 artifacts>>

Mutate ==
  \E s \in Services :
     apply_hotfix(s) \/ apply_runtime_config(s) \/ restart_service(s)

Report ==
  \/ \E right \in Submissions : submit_structured_rca(right)
  \/ \E score \in FreeTextScores : generate_post_mortem(score)

Next ==
  \/ Len(call_history) < MaxCalls /\ (Diagnose \/ Mutate \/ Report)
  \/ TimePasses

Spec == Init /\ [][Next]_vars

----------------------------------------------------------------------------
(* The verdict of evaluate_episode.                                        *)
CallsOf(tools) == {i \in 1..Len(call_history) : call_history[i].tool \in tools}

(* A mutating tool listed among the telemetry tools.                       *)
telemetry_calls_Fault ==
  Cardinality(CallsOf({"telemetry", "apply_runtime_config"}))

telemetry_calls == Cardinality(CallsOf({"telemetry"}))
mutation_calls == Cardinality(CallsOf(MutationTools))

MaxOf(a, b) == IF a >= b THEN a ELSE b
MinOf(a, b) == IF a <= b THEN a ELSE b

(* compute_blast_radius_safety.                                            *)
BSafe == \A s \in HealthyServices : service_restarts[s] = 0

(* The last call of any kind, and the first mutation instead of the last.  *)
LastMutation_AnyCallFault ==
  IF call_history = <<>> THEN 0 ELSE call_history[Len(call_history)].at

LastMutation_FirstFault ==
  IF CallsOf(MutationTools) = {} THEN 0
  ELSE CHOOSE t \in {call_history[i].at : i \in CallsOf(MutationTools)} :
          \A i \in CallsOf(MutationTools) : call_history[i].at >= t

(* The TTM of an episode without telemetry: the last mutation of any kind, *)
(* t_chaos if there is none.                                               *)
LastMutation ==
  CHOOSE t \in {0} \cup {call_history[i].at : i \in CallsOf(MutationTools)} :
     \A i \in CallsOf(MutationTools) : call_history[i].at <= t

Ttm == IF remediation_applied
       THEN MaxOf(Floor, MinOf(TMax, LastMutation + Settle))
       ELSE TMax

(* compute_egr, capped at 1 as the reward caps it, as a fraction: the      *)
(* epsilon only matters when there is no mutation.                         *)
EgrCredit ==
  IF telemetry_calls = 0 THEN [num |-> 0, den |-> 1]
  ELSE IF telemetry_calls >= mutation_calls THEN [num |-> 1, den |-> 1]
  ELSE [num |-> telemetry_calls, den |-> mutation_calls]

(* evaluate_rca_score, structured and free-text.                           *)
RcaWeight(right) ==
  200 * Cardinality(right) + (IF "scenario" \in right THEN 200 ELSE 0)

(* The operands of the "or" swapped.                                       *)
Scored_Fault == IF post_mortem # None THEN post_mortem ELSE structured_rca

Scored == IF structured_rca # None THEN structured_rca ELSE post_mortem
RcaScore ==
  CASE Scored.by = "rca"  -> RcaWeight(Scored.right)
    [] Scored.by = "text" -> Scored.score
    [] OTHER              -> 0

(* compute_episode_reward, rounded to the nearest unit.                    *)
Rounded(num, den) == (2 * num + den) \div (2 * den)
Reward ==
  IF ~BSafe THEN 0
  ELSE Rounded(6000 * (TMax - Ttm) * EgrCredit.den
                 + 2000 * EgrCredit.num * TMax
                 + 2 * RcaScore * TMax * EgrCredit.den,
               TMax * EgrCredit.den)

Passed == BSafe /\ Ttm < TMax /\ Reward >= 7000

----------------------------------------------------------------------------
(* Every variable keeps its type, the trail its bound.                     *)
TypeOK ==
  /\ clock \in 0..MaxClock
  /\ call_history \in Seq(Calls)
  /\ Len(call_history) <= MaxCalls
  /\ service_restarts \in [Services -> Nat]
  /\ remediation_applied \in BOOLEAN
  /\ structured_rca \in Artifacts
  /\ post_mortem \in Artifacts

(* "Maintains tool audit log for deterministic evaluation oracle": the     *)
(* state the oracle reads beside the log, the restart counters and the     *)
(* remediation flag, is what the log says it is.                           *)
AuditAgrees ==
  /\ \A s \in Services :
        service_restarts[s] =
          Cardinality({i \in CallsOf({"restart_service"}) :
                         call_history[i].service = s})
  /\ remediation_applied
       <=> CallsOf({"apply_hotfix", "apply_runtime_config"}) # {}

(* What a pass takes, whatever the mix of calls: a fix, no later mutation  *)
(* than half of TMax after the incident began, and some diagnosis or some  *)
(* understanding of the cause.  Speed alone never reaches 0.70, and no     *)
(* diagnosis or report makes up for a fix in the second half.              *)
PassIsEarned ==
  Passed =>
    /\ remediation_applied
    /\ \A i \in CallsOf(MutationTools) :
          2 * (call_history[i].at + Settle) <= TMax
    /\ telemetry_calls > 0 \/ RcaScore > 0

(* "The multiplier of life and death": after a healthy service has been    *)
(* restarted no sequence of further calls earns anything.                  *)
BreachIsFinal == [][~BSafe => ~BSafe' /\ Reward' = 0 /\ ~Passed']_vars

(* Looking is free: one more telemetry call, at any time, never lowers the *)
(* reward.                                                                 *)
DiagnosisNeverHurts == [][Diagnose => Reward' >= Reward]_vars

(* Once a fix is in, one more mutation never raises the reward: it can     *)
(* only delay the TTM and dilute the ratio.                                *)
LateMutationNeverHelps ==
  [][remediation_applied /\ Mutate => Reward' <= Reward]_vars

(* A free-text post-mortem written after a structured report does not      *)
(* change the verdict.                                                     *)
StructuredStands ==
  [][structured_rca # None /\ structured_rca' = structured_rca
        /\ post_mortem' # post_mortem => Reward' = Reward]_vars
============================================================================
