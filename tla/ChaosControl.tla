---------------------------- MODULE ChaosControl ----------------------------
(***************************************************************************)
(* Who turns chaos on and off: ChaosInjector (chaos/injector.py) and the   *)
(* apply_hotfix tool (tools/sre_tools.py) on one side of HTTP, the chaos   *)
(* switch of the gateway on the other, and the simulation profile of the   *)
(* load generator, which the injector turns on where the gateway is not    *)
(* reached (an injector may do without a generator; this one has one).     *)
(*                                                                         *)
(* Both callers live in one Python process and call one at a time.  Each   *)
(* asks /healthz once per process whether there is a gateway, waiting      *)
(* 0.3 s, and keeps the answer in a class attribute.  Each call waits      *)
(* 1.0 s: it may be lost, answered late, or still be on its way when its   *)
(* caller has given up.  A call is reduced to the scenario it asks for:    *)
(* /chaos/reset asks for "none".  What a reset does to the pool is the     *)
(* subject of Gateway; that a SIGHUP resets as well, with no caller to     *)
(* hear of it, is in GatewayProcess.                                       *)
(***************************************************************************)
EXTENDS Integers

CONSTANTS
  Scenarios,    \* scenario ids of the catalogue, the gateway's switch names
  Deadlock,     \* scenario_1_goroutine_deadlock
  HealthEvery,  \* the 5 of requestCounter % 5 in handleHealthz
  Faults        \* the faults an instance allows: "network", "crash"

ASSUME ScenariosAssumption ==
  /\ Deadlock \in Scenarios
  /\ "none" \notin Scenarios
ASSUME HealthEveryAssumption == HealthEvery \in Nat \ {0}
ASSUME FaultsAssumption == Faults \subseteq {"network", "crash"}

VARIABLES
  up,                  \* the gateway process runs and listens
  activeChaos,         \* the scenario of its switch
  requestCounter,      \* its count of requests, modulo HealthEvery
  checked,             \* per caller: _gateway_checked, _gateway_available
  call,                \* the call being made, or made last
  stage,               \* how far that call is
  ok,                  \* whether it says it reached the gateway
  late,                \* calls given up by their caller and still on the way
  profile,             \* the scenario set_simulation_profile was given last
  simulated,           \* _simulated_mode of the load generator
  record,              \* current_scenario_id of the injector
  remediation_applied, \* the flag the oracle goes by
  disturbed            \* history: a crash or a late call since the call began

gateway == <<up, activeChaos, requestCounter>>
generator == <<profile, simulated>>
vars == <<gateway, checked, call, stage, ok, late, generator, record,
          remediation_applied, disturbed>>

Targets == Scenarios \cup {"none"}
Writes == {"inject", "reset", "hotfix"}
Reads == {"query", "inspect"}
Ops == Writes \cup Reads
Callers == {"injector", "tools"}
Caller(op) == IF op \in {"hotfix", "inspect"} THEN "tools" ELSE "injector"
Stages == {"idle", "probe", "refused", "sent", "served"}

----------------------------------------------------------------------------
(* A gateway and a process that have just started.                         *)
Init ==
  /\ up \in BOOLEAN
  /\ activeChaos = "none"
  /\ requestCounter = 0
  /\ checked = [c \in Callers |-> "unknown"]
  /\ call = [op |-> "reset", target |-> "none"]
  /\ stage = "idle"
  /\ ok = FALSE
  /\ late = {}
  /\ profile = "none"
  /\ simulated = FALSE
  /\ record = "none"
  /\ remediation_applied = FALSE
  /\ disturbed = FALSE

(* Definitions named ..._Fault are not part of the specification: each is  *)
(* a bug the definition after it might have had, and breaks a property.    *)

(* The cached answer is not consulted, only whether the question was put.  *)
NextStage_Fault(c) ==
  IF checked[c] = "unknown" THEN "probe" ELSE "sent"

(* Where a call goes, given what its caller knows about the gateway.       *)
NextStage(c) ==
  CASE checked[c] = "unknown" -> "probe"
    [] checked[c] = "yes"     -> "sent"
    [] OTHER                  -> "refused"

(* inject_scenario (an unknown id raises before anything happens), reset   *)
(* and query_service_state of the injector, apply_hotfix and               *)
(* inspect_process of the tools begin.                                     *)
Begin(op, target) ==
  /\ stage = "idle"
  /\ (op = "inject") = (target # "none")
  /\ call' = [op |-> op, target |-> target]
  /\ stage' = NextStage(Caller(op))
  /\ ok' = FALSE
  /\ disturbed' = FALSE
  /\ UNCHANGED <<gateway, checked, late, generator, record,
                 remediation_applied>>

(* handleHealthz takes 300 ms while the deadlock scenario is on and the    *)
(* request counter is a multiple of five; the probe waits 0.3 s.           *)
SlowHealth == activeChaos = Deadlock /\ requestCounter = 0

(* _is_gateway_available, the first time its class is asked.               *)
ProbeAnswered ==
  /\ stage = "probe"
  /\ up
  /\ checked' = [checked EXCEPT ![Caller(call.op)] = "yes"]
  /\ stage' = "sent"
  /\ UNCHANGED <<gateway, call, ok, late, generator, record,
                 remediation_applied, disturbed>>

ProbeFails ==
  /\ stage = "probe"
  /\ ~up \/ SlowHealth \/ "network" \in Faults
  /\ checked' = [checked EXCEPT ![Caller(call.op)] = "no"]
  /\ stage' = "refused"
  /\ UNCHANGED <<gateway, call, ok, late, generator, record,
                 remediation_applied, disturbed>>

(* handleChaosInject, handleChaosReset and the handlers that only read.    *)
Serve ==
  /\ stage = "sent"
  /\ up
  /\ activeChaos' = IF call.op \in Writes THEN call.target ELSE activeChaos
  /\ stage' = "served"
  /\ UNCHANGED <<up, requestCounter, checked, call, ok, late, generator,
                 record, remediation_applied, disturbed>>

(* The profile is enabled where the gateway was reached, not elsewhere.    *)
Concluded_Fault(success) ==
  \/ /\ call.op \in {"inject", "reset"}
     /\ profile' = call.target
     /\ simulated' = (call.op = "inject" /\ success)
     /\ record' = call.target
     /\ UNCHANGED remediation_applied
  \/ /\ call.op \notin {"inject", "reset"}
     /\ UNCHANGED <<generator, record, remediation_applied>>

(* What the call does in its own process once HTTP is over, whatever came  *)
(* of it.                                                                  *)
Concluded(success) ==
  \/ /\ call.op \in {"inject", "reset"}
     /\ profile' = call.target
     /\ simulated' = (call.op = "inject" /\ ~success)
     /\ record' = call.target
     /\ UNCHANGED remediation_applied
  \/ /\ call.op = "hotfix"
     /\ remediation_applied' = TRUE
     /\ UNCHANGED <<generator, record>>
  \/ /\ call.op \in Reads
     /\ UNCHANGED <<generator, record, remediation_applied>>

Conclude(success) ==
  /\ Concluded(success)
  /\ ok' = success
  /\ stage' = "idle"
  /\ UNCHANGED <<gateway, checked, call, disturbed>>

Answered == stage = "served" /\ Conclude(TRUE) /\ UNCHANGED late
NotTried == stage = "refused" /\ Conclude(FALSE) /\ UNCHANGED late

(* A timeout counted as a success.                                         *)
GivesUp_Fault ==
  /\ stage \in {"sent", "served"}
  /\ ~up \/ "network" \in Faults
  /\ Conclude(TRUE)
  /\ UNCHANGED late

(* Refused by a gateway that is down, or 1.0 s without an answer; in the   *)
(* second case the request may be lost or only late.                       *)
GivesUp ==
  /\ stage \in {"sent", "served"}
  /\ ~up \/ "network" \in Faults
  /\ Conclude(FALSE)
  /\ \/ UNCHANGED late
     \/ /\ stage = "sent" /\ up /\ call.op \in Writes
        /\ late' = late \cup {call.target}

ServeLate(target) ==
  /\ target \in late
  /\ up
  /\ activeChaos' = target
  /\ late' = late \ {target}
  /\ disturbed' = TRUE
  /\ UNCHANGED <<up, requestCounter, checked, call, stage, ok, generator,
                 record, remediation_applied>>

(* A checkout or a payment, from anywhere.                                 *)
Traffic ==
  /\ up
  /\ requestCounter' = (requestCounter + 1) % HealthEvery
  /\ UNCHANGED <<up, activeChaos, checked, call, stage, ok, late, generator,
                 record, remediation_applied, disturbed>>

(* The gateway dies, with the requests that were on their way to it, and   *)
(* docker starts it again with a fresh NewServer.                          *)
Crash ==
  /\ "crash" \in Faults
  /\ up
  /\ up' = FALSE
  /\ late' = {}
  /\ disturbed' = TRUE
  /\ UNCHANGED <<activeChaos, requestCounter, checked, call, stage, ok,
                 generator, record, remediation_applied>>

Restart ==
  /\ "crash" \in Faults
  /\ ~up
  /\ up' = TRUE
  /\ activeChaos' = "none"
  /\ requestCounter' = 0
  /\ UNCHANGED <<checked, call, stage, ok, late, generator, record,
                 remediation_applied, disturbed>>

(* The next episode: a new SREToolEnvironment in the same process.         *)
NewEpisode ==
  /\ stage = "idle"
  /\ remediation_applied' = FALSE
  /\ UNCHANGED <<gateway, checked, call, stage, ok, late, generator, record,
                 disturbed>>

(* The process ends, perhaps in the middle of a call, and another starts:  *)
(* its classes know nothing, its generator is nominal.                     *)
NewProcess ==
  /\ checked' = [c \in Callers |-> "unknown"]
  /\ call' = [op |-> "reset", target |-> "none"]
  /\ stage' = "idle"
  /\ ok' = FALSE
  /\ \/ UNCHANGED late
     \/ /\ stage = "sent" /\ up /\ call.op \in Writes
        /\ "network" \in Faults
        /\ late' = late \cup {call.target}
  /\ profile' = "none"
  /\ simulated' = FALSE
  /\ record' = "none"
  /\ remediation_applied' = FALSE
  /\ UNCHANGED <<gateway, disturbed>>

Next ==
  \/ \E op \in Ops, target \in Targets : Begin(op, target)
  \/ ProbeAnswered \/ ProbeFails \/ Serve
  \/ Answered \/ NotTried \/ GivesUp
  \/ \E target \in Targets : ServeLate(target)
  \/ Traffic \/ Crash \/ Restart \/ NewEpisode \/ NewProcess

Spec == Init /\ [][Next]_vars

----------------------------------------------------------------------------
(* Every variable keeps its type.                                          *)
TypeOK ==
  /\ up \in BOOLEAN /\ activeChaos \in Targets
  /\ requestCounter \in 0..HealthEvery - 1
  /\ checked \in [Callers -> {"unknown", "yes", "no"}]
  /\ call \in [op : Ops, target : Targets]
  /\ stage \in Stages
  /\ ok \in BOOLEAN
  /\ late \subseteq Targets
  /\ profile \in Targets /\ simulated \in BOOLEAN
  /\ record \in Targets
  /\ remediation_applied \in BOOLEAN
  /\ disturbed \in BOOLEAN

(* A call that reports to have reached the gateway (live_target_reached of *)
(* an inject, the result of a reset, the message of a hotfix) is in force  *)
(* there, in spite of earlier calls that were given up, until one of those *)
(* arrives after all or the gateway dies.                                  *)
SuccessIsInForce ==
  stage = "idle" /\ ok /\ call.op \in Writes /\ ~disturbed
    => up /\ activeChaos = call.target

(* "Injection succeeded or was successfully simulated": after an inject    *)
(* the incident is there to be seen, on the gateway or in the simulated    *)
(* telemetry, whatever the network did to the call.                        *)
InjectionShows ==
  stage = "idle" /\ call.op = "inject" /\ ~disturbed =>
    \/ simulated /\ profile = call.target
    \/ up /\ activeChaos = call.target

(* A caller that has found no gateway works offline: none of its calls     *)
(* touches the switch for the rest of the process, even when a gateway is  *)
(* there by then.                                                          *)
OfflineLeavesGatewayAlone ==
  [][checked[Caller(call.op)] = "no" /\ activeChaos' # activeChaos
       => late' # late \/ up' # up]_vars

(* What the oracle takes for recovery, "until the service was fully        *)
(* healthy again" (README.md:85): after a hotfix that set the flag a       *)
(* gateway that is up is nominal.  The code does not keep this, even when  *)
(* no call is ever lost or late.                                           *)
RemediationRecovers ==
  stage = "idle" /\ call.op = "hotfix" /\ remediation_applied /\ up
    => activeChaos = "none"
============================================================================
