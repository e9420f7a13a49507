------------------------- MODULE ChaosControlProofs -------------------------
(***************************************************************************)
(* What ChaosControl.tla promises for every set of scenarios, every period *)
(* of the slow health check and every kind of fault.                       *)
(***************************************************************************)
EXTENDS ChaosControl, TLAPS

(* Every step is one of these, a call ending in one way or another.        *)
Ended(success) ==
  \/ Answered /\ success = TRUE
  \/ NotTried /\ success = FALSE
  \/ GivesUp /\ success = FALSE

LEMMA NextCases ==
  ASSUME [Next]_vars
  PROVE  \/ \E op \in Ops, target \in Targets : Begin(op, target)
         \/ ProbeAnswered \/ ProbeFails \/ Serve
         \/ \E success \in BOOLEAN : Ended(success)
         \/ \E target \in Targets : ServeLate(target)
         \/ Traffic \/ Crash \/ Restart \/ NewEpisode \/ NewProcess
         \/ UNCHANGED vars
BY DEF Next, Ended

LEMMA EndedConcludes ==
  ASSUME NEW success, Ended(success)
  PROVE  Conclude(success)
BY DEF Ended, Answered, NotTried, GivesUp

(* A call goes to one of three places, and over HTTP only if the gateway   *)
(* was there when it was looked for.                                       *)
LEMMA NextStageType ==
  ASSUME NEW c
  PROVE  /\ NextStage(c) \in {"probe", "sent", "refused"}
         /\ NextStage(c) = "sent" => checked[c] = "yes"
BY DEF NextStage

LEMMA CallerType == \A op : Caller(op) \in Callers
BY DEF Caller, Callers

----------------------------------------------------------------------------
(* Type correctness.                                                       *)
LEMMA CounterType ==
  ASSUME NEW n \in Nat, NEW m \in Nat \ {0}
  PROVE  (n + 1) % m \in 0..m - 1
OBVIOUS

LEMMA InitTypeOK == Init => TypeOK
<1> SUFFICES ASSUME Init PROVE TypeOK
  OBVIOUS
<1>1. requestCounter \in 0..HealthEvery - 1
  BY HealthEveryAssumption DEF Init
<1>2. /\ checked \in [Callers -> {"unknown", "yes", "no"}]
      /\ call \in [op : Ops, target : Targets]
      /\ stage \in Stages
  BY DEF Init, Callers, Targets, Ops, Writes, Stages
<1>3. /\ up \in BOOLEAN /\ ok \in BOOLEAN /\ simulated \in BOOLEAN
      /\ remediation_applied \in BOOLEAN /\ disturbed \in BOOLEAN
      /\ activeChaos \in Targets /\ profile \in Targets /\ record \in Targets
      /\ late \subseteq Targets
  BY DEF Init, Targets
<1> QED BY <1>1, <1>2, <1>3 DEF TypeOK

LEMMA StepTypeOK == TypeOK /\ [Next]_vars => TypeOK'
<1> SUFFICES ASSUME TypeOK, [Next]_vars PROVE TypeOK'
  OBVIOUS
<1> USE HealthEveryAssumption DEF TypeOK, gateway, generator
<1>1. ASSUME NEW op \in Ops, NEW target \in Targets, Begin(op, target)
      PROVE  TypeOK'
  BY <1>1, NextStageType DEF Begin, Stages
<1>2. CASE ProbeAnswered \/ ProbeFails
  BY <1>2, CallerType DEF ProbeAnswered, ProbeFails, Stages
<1>3. CASE Serve
  BY <1>3 DEF Serve, Stages
<1>4. ASSUME NEW success \in BOOLEAN, Ended(success) PROVE TypeOK'
  <2>1. Conclude(success)
    BY <1>4, EndedConcludes
  <2>2. late' \subseteq Targets
    BY <1>4 DEF Ended, Answered, NotTried, GivesUp
  <2> QED BY <2>1, <2>2 DEF Conclude, Concluded, Stages
<1>5. ASSUME NEW target \in Targets, ServeLate(target) PROVE TypeOK'
  BY <1>5 DEF ServeLate
<1>6. CASE Traffic
  <2>1. requestCounter' \in 0..HealthEvery - 1
    BY <1>6, CounterType DEF Traffic
  <2> QED BY <1>6, <2>1 DEF Traffic
<1>7. CASE Crash \/ Restart
  <2>1. up' \in BOOLEAN /\ disturbed' \in BOOLEAN
    BY <1>7 DEF Crash, Restart
  <2>2. activeChaos' \in Targets /\ late' \subseteq Targets
    BY <1>7 DEF Crash, Restart, Targets
  <2>3. requestCounter' \in 0..HealthEvery - 1
    BY <1>7 DEF Crash, Restart
  <2>4. UNCHANGED <<checked, call, stage, ok, generator, record,
                    remediation_applied>>
    BY <1>7 DEF Crash, Restart
  <2> QED BY <2>1, <2>2, <2>3, <2>4
<1>8. CASE NewEpisode
  BY <1>8 DEF NewEpisode
<1>9. CASE NewProcess
  BY <1>9 DEF NewProcess, Targets, Ops, Writes, Stages
<1>10. CASE UNCHANGED vars
  BY <1>10 DEF vars
<1> QED
  BY NextCases, <1>1, <1>2, <1>3, <1>4, <1>5, <1>6, <1>7, <1>8, <1>9, <1>10

(* Every reachable state is well typed; in particular the gateway's switch *)
(* holds a scenario or "none".                                             *)
THEOREM TypeCorrect == Spec => []TypeOK
BY InitTypeOK, StepTypeOK, PTL DEF Spec

----------------------------------------------------------------------------
(* What a call reports.  Neither property is inductive: between the moment *)
(* the gateway obeys and the moment the caller hears of it, the call is in *)
(* force already, unless the gateway died or obeyed a late call since.     *)
ServedIsInForce ==
  stage = "served" /\ call.op \in Writes /\ ~disturbed
    => up /\ activeChaos = call.target

InForce == ServedIsInForce /\ SuccessIsInForce /\ InjectionShows

LEMMA InitInForce == Init => InForce
BY DEF Init, InForce, ServedIsInForce, SuccessIsInForce, InjectionShows

LEMMA StepInForce == TypeOK /\ InForce /\ [Next]_vars => InForce'
<1> SUFFICES ASSUME TypeOK, InForce, [Next]_vars PROVE InForce'
  OBVIOUS
<1> USE DEF TypeOK, InForce, ServedIsInForce, SuccessIsInForce,
            InjectionShows, gateway, generator
<1>1. ASSUME NEW op \in Ops, NEW target \in Targets, Begin(op, target)
      PROVE  InForce'
  BY <1>1, NextStageType DEF Begin
<1>2. CASE ProbeAnswered \/ ProbeFails
  BY <1>2 DEF ProbeAnswered, ProbeFails
<1>3. CASE Serve
  BY <1>3 DEF Serve
<1>4. ASSUME NEW success \in BOOLEAN, Ended(success) PROVE InForce'
  <2>1. /\ Conclude(success)
        /\ success => stage = "served"
    BY <1>4, EndedConcludes DEF Ended, Answered
  <2>2. SuccessIsInForce'
    BY <2>1 DEF Conclude
  <2>3. InjectionShows'
    BY <2>1 DEF Conclude, Concluded, Writes, Reads
  <2>4. ServedIsInForce'
    BY <2>1 DEF Conclude
  <2> QED BY <2>2, <2>3, <2>4
<1>5. ASSUME NEW target \in Targets, ServeLate(target) PROVE InForce'
  BY <1>5 DEF ServeLate
<1>6. CASE Traffic \/ NewEpisode
  BY <1>6 DEF Traffic, NewEpisode
<1>7. CASE Crash \/ Restart
  BY <1>7 DEF Crash, Restart
<1>8. CASE NewProcess
  BY <1>8 DEF NewProcess
<1>9. CASE UNCHANGED vars
  BY <1>9 DEF vars
<1> QED BY NextCases, <1>1, <1>2, <1>3, <1>4, <1>5, <1>6, <1>7, <1>8, <1>9

LEMMA InForceInvariant == Spec => [](TypeOK /\ InForce)
<1>1. Init => TypeOK /\ InForce
  BY InitTypeOK, InitInForce
<1>2. TypeOK /\ InForce /\ [Next]_vars => (TypeOK /\ InForce)'
  BY StepTypeOK, StepInForce
<1> QED BY <1>1, <1>2, PTL DEF Spec

(* A call that reports success is in force on the gateway until a crash or *)
(* a late call undoes it, whatever calls were given up before.             *)
THEOREM SuccessesAreInForce == Spec => []SuccessIsInForce
<1>1. InForce => SuccessIsInForce
  BY DEF InForce
<1> QED BY <1>1, InForceInvariant, PTL

(* After an inject the incident shows on the gateway or in the simulated   *)
(* telemetry.                                                              *)
THEOREM InjectionsShow == Spec => []InjectionShows
<1>1. InForce => InjectionShows
  BY DEF InForce
<1> QED BY <1>1, InForceInvariant, PTL

----------------------------------------------------------------------------
(* A call is on its way to the gateway only if its caller once found it.   *)
SentIfFound ==
  stage \in {"sent", "served"} => checked[Caller(call.op)] = "yes"

LEMMA InitFound == Init => SentIfFound
BY DEF Init, SentIfFound

LEMMA StepFound == TypeOK /\ SentIfFound /\ [Next]_vars => SentIfFound'
<1> SUFFICES ASSUME TypeOK, SentIfFound, [Next]_vars PROVE SentIfFound'
  OBVIOUS
<1> USE DEF TypeOK, SentIfFound, gateway, generator
<1>1. ASSUME NEW op \in Ops, NEW target \in Targets, Begin(op, target)
      PROVE  SentIfFound'
  <2>1. call'.op = op /\ checked' = checked /\ stage' = NextStage(Caller(op))
    BY <1>1 DEF Begin
  <2> QED BY <2>1, NextStageType
<1>2. CASE ProbeAnswered \/ ProbeFails
  BY <1>2, CallerType DEF ProbeAnswered, ProbeFails
<1>3. CASE Serve
  BY <1>3 DEF Serve
<1>4. ASSUME NEW success \in BOOLEAN, Ended(success) PROVE SentIfFound'
  BY <1>4, EndedConcludes DEF Conclude
<1>5. ASSUME NEW target \in Targets, ServeLate(target) PROVE SentIfFound'
  BY <1>5 DEF ServeLate
<1>6. CASE Traffic \/ NewEpisode \/ Crash \/ Restart
  BY <1>6 DEF Traffic, NewEpisode, Crash, Restart
<1>7. CASE NewProcess
  BY <1>7 DEF NewProcess
<1>8. CASE UNCHANGED vars
  BY <1>8 DEF vars
<1> QED BY NextCases, <1>1, <1>2, <1>3, <1>4, <1>5, <1>6, <1>7, <1>8

(* A caller that found no gateway never touches the switch.                *)
THEOREM OfflineStaysOffline == Spec => OfflineLeavesGatewayAlone
<1> DEFINE Alone == checked[Caller(call.op)] = "no"
                      /\ activeChaos' # activeChaos
                        => late' # late \/ up' # up
<1>1. Init => TypeOK /\ SentIfFound
  BY InitTypeOK, InitFound
<1>2. TypeOK /\ SentIfFound /\ [Next]_vars => (TypeOK /\ SentIfFound)'
  BY StepTypeOK, StepFound
<1>3. ASSUME TypeOK, SentIfFound, [Next]_vars PROVE [Alone]_vars
  <2>1. CASE Serve
    BY <1>3, <2>1 DEF Serve, SentIfFound
  <2>2. CASE Restart
    BY <2>2 DEF Restart
  <2>3. ASSUME NEW target \in Targets, ServeLate(target) PROVE Alone
    BY <2>3 DEF ServeLate
  <2>4. ASSUME NEW success \in BOOLEAN, Ended(success) PROVE Alone
    BY <2>4, EndedConcludes DEF Conclude, gateway
  <2>5. ASSUME NEW op \in Ops, NEW target \in Targets, Begin(op, target)
        PROVE  Alone
    BY <2>5 DEF Begin, gateway
  <2>6. CASE \/ ProbeAnswered \/ ProbeFails \/ Traffic \/ Crash
             \/ NewEpisode \/ NewProcess
    BY <2>6 DEF ProbeAnswered, ProbeFails, Traffic, Crash, NewEpisode,
       NewProcess, gateway
  <2> QED BY <1>3, NextCases, <2>1, <2>2, <2>3, <2>4, <2>5, <2>6
<1> QED
  BY <1>1, <1>2, <1>3, PTL DEF Spec, OfflineLeavesGatewayAlone
============================================================================
