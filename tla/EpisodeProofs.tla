--------------------------- MODULE EpisodeProofs ---------------------------
(***************************************************************************)
(* What Episode.tla promises for every set of services, every time limit   *)
(* and every length of the audit trail.                                    *)
(***************************************************************************)
EXTENDS Episode, FiniteSetTheorems, WellFoundedInduction, TLAPS

(* Every call of a tool leaves exactly one record, at the end.             *)
Call == \E t \in Tools, s \in Services \cup {NoService} : record_call(t, s)

LEMMA NextCases ==
  ASSUME [Next]_vars
  PROVE  \/ Diagnose
         \/ \E s \in Services :
               apply_hotfix(s) \/ apply_runtime_config(s) \/ restart_service(s)
         \/ \E right \in Submissions : submit_structured_rca(right)
         \/ \E score \in FreeTextScores : generate_post_mortem(score)
         \/ TimePasses
         \/ UNCHANGED vars
BY DEF Next, Mutate, Report

(* Any call of a tool, with any report an agent could write.               *)
AnyCall ==
  \/ Diagnose
  \/ Mutate
  \/ \E right \in SUBSET RcaFields : submit_structured_rca(right)
  \/ \E score \in 0..1000 : generate_post_mortem(score)

LEMMA NextIsAnyCall ==
  [Next]_vars =>
    \/ AnyCall /\ Len(call_history) < MaxCalls
    \/ TimePasses
    \/ UNCHANGED vars
<1> SUFFICES ASSUME [Next]_vars
             PROVE  \/ AnyCall /\ Len(call_history) < MaxCalls
                    \/ TimePasses
                    \/ UNCHANGED vars
  OBVIOUS
<1>1. Report => AnyCall
  BY RcaAssumption DEF Report, AnyCall
<1> QED BY <1>1 DEF Next, AnyCall

----------------------------------------------------------------------------
LEMMA InitTypeOK == Init => TypeOK
<1> SUFFICES ASSUME Init PROVE TypeOK
  OBVIOUS
<1> USE TimeAssumption DEF Init
<1>1. clock \in 0..MaxClock
  OBVIOUS
<1>5. remediation_applied \in BOOLEAN
  OBVIOUS
<1>2. call_history \in Seq(Calls) /\ Len(call_history) <= MaxCalls
  OBVIOUS
<1>3. service_restarts \in [Services -> Nat]
  OBVIOUS
<1>4. structured_rca \in Artifacts /\ post_mortem \in Artifacts
  BY DEF None, Artifacts
<1> QED BY <1>1, <1>2, <1>3, <1>4, <1>5 DEF TypeOK

LEMMA RecordType ==
  ASSUME TypeOK, NEW t \in Tools, NEW s \in Services \cup {NoService},
         record_call(t, s)
  PROVE  /\ call_history' \in Seq(Calls)
         /\ Len(call_history') = Len(call_history) + 1
         /\ \A i \in 1..Len(call_history) : call_history'[i] = call_history[i]
         /\ call_history'[Len(call_history) + 1].tool = t
         /\ call_history'[Len(call_history) + 1].service = s
         /\ call_history'[Len(call_history) + 1].at = clock
<1> DEFINE call == [tool |-> t, service |-> s, at |-> clock]
<1>1. call \in Calls /\ call.tool = t /\ call.service = s /\ call.at = clock
  BY TimeAssumption DEF TypeOK, Calls
<1> HIDE DEF call
<1>2. call_history' = Append(call_history, call)
  BY DEF record_call, call
<1>3. call_history'[Len(call_history) + 1] = call
  BY <1>2, <1>1 DEF TypeOK
<1> QED BY <1>1, <1>2, <1>3 DEF TypeOK

LEMMA AnyCallType ==
  ASSUME TypeOK, AnyCall, Len(call_history) < MaxCalls
  PROVE  TypeOK'
<1>1. ASSUME NEW t \in Tools, NEW s \in Services \cup {NoService},
             record_call(t, s)
      PROVE  call_history' \in Seq(Calls) /\ Len(call_history') <= MaxCalls
  <2>1. /\ call_history' \in Seq(Calls)
        /\ Len(call_history') = Len(call_history) + 1
    BY <1>1, RecordType
  <2> QED BY <2>1, TimeAssumption DEF TypeOK
<1>2. CASE Diagnose
  BY <1>2, <1>1 DEF Diagnose, TypeOK, Tools, artifacts
<1>3. ASSUME NEW s \in Services, apply_hotfix(s) PROVE TypeOK'
  BY <1>3, <1>1 DEF apply_hotfix, TypeOK, Tools, artifacts
<1>4. ASSUME NEW s \in Services, apply_runtime_config(s) PROVE TypeOK'
  BY <1>4, <1>1 DEF apply_runtime_config, TypeOK, Tools, artifacts
<1>5. ASSUME NEW s \in Services, restart_service(s) PROVE TypeOK'
  BY <1>5, <1>1 DEF restart_service, TypeOK, Tools, artifacts
<1>6. ASSUME NEW right \in SUBSET RcaFields, submit_structured_rca(right)
      PROVE  TypeOK'
  <2>1. [by |-> "rca", right |-> right] \in Artifacts
    BY DEF Artifacts
  <2> QED BY <1>6, <2>1, <1>1 DEF submit_structured_rca, TypeOK, Tools
<1>7. ASSUME NEW score \in 0..1000, generate_post_mortem(score) PROVE TypeOK'
  <2>1. [by |-> "text", score |-> score] \in Artifacts
    BY DEF Artifacts
  <2> QED BY <1>7, <2>1, <1>1 DEF generate_post_mortem, TypeOK, Tools
<1> QED BY <1>2, <1>3, <1>4, <1>5, <1>6, <1>7 DEF AnyCall, Mutate

LEMMA StepTypeOK == TypeOK /\ [Next]_vars => TypeOK'
<1> SUFFICES ASSUME TypeOK, [Next]_vars PROVE TypeOK'
  OBVIOUS
<1>1. CASE AnyCall /\ Len(call_history) < MaxCalls
  BY <1>1, AnyCallType
<1>2. CASE TimePasses
  BY <1>2, TimeAssumption DEF TimePasses, TypeOK, artifacts
<1>3. CASE UNCHANGED vars
  BY <1>3 DEF vars, TypeOK
<1> QED BY NextIsAnyCall, <1>1, <1>2, <1>3

(* Every reachable state is well typed.                                    *)
THEOREM TypeCorrect == Spec => []TypeOK
BY InitTypeOK, StepTypeOK, PTL DEF Spec

----------------------------------------------------------------------------
(* The audit trail.  A new record of a tool adds its index to the calls of *)
(* the sets of tools it belongs to, and to no other.                       *)
LEMMA CallsGrow ==
  ASSUME TypeOK, NEW t \in Tools, NEW s \in Services \cup {NoService},
         record_call(t, s), NEW tools
  PROVE  CallsOf(tools)' =
           CallsOf(tools) \cup (IF t \in tools THEN {Len(call_history) + 1}
                                               ELSE {})
<1>1. /\ Len(call_history') = Len(call_history) + 1
      /\ \A i \in 1..Len(call_history) : call_history'[i] = call_history[i]
      /\ call_history'[Len(call_history) + 1].tool = t
  BY RecordType
<1>2. Len(call_history) \in Nat
  BY DEF TypeOK
<1> QED BY <1>1, <1>2 DEF CallsOf

RestartsOf(s) ==
  {i \in CallsOf({"restart_service"}) : call_history[i].service = s}

LEMMA RestartsFinite ==
  ASSUME TypeOK, NEW s
  PROVE  /\ IsFiniteSet(RestartsOf(s))
         /\ Len(call_history) + 1 \notin RestartsOf(s)
<1>1. Len(call_history) \in Nat
  BY DEF TypeOK
<1>2. RestartsOf(s) \subseteq 1..Len(call_history)
  BY DEF RestartsOf, CallsOf
<1>3. IsFiniteSet(1..Len(call_history))
  BY <1>1, FS_Interval
<1> QED BY <1>1, <1>2, <1>3, FS_Subset

LEMMA RestartsGrow ==
  ASSUME TypeOK, NEW t \in Tools, NEW s \in Services \cup {NoService},
         record_call(t, s), NEW r \in Services
  PROVE  Cardinality(RestartsOf(r))' =
           Cardinality(RestartsOf(r))
             + (IF t = "restart_service" /\ s = r THEN 1 ELSE 0)
<1>1. CallsOf({"restart_service"})' =
        CallsOf({"restart_service"})
          \cup (IF t = "restart_service" THEN {Len(call_history) + 1} ELSE {})
  BY CallsGrow
<1>2. /\ \A i \in 1..Len(call_history) : call_history'[i] = call_history[i]
      /\ call_history'[Len(call_history) + 1].service = s
  BY RecordType
<1>3. CallsOf({"restart_service"}) \subseteq 1..Len(call_history)
  BY DEF CallsOf
<1>4. CASE t = "restart_service" /\ s = r
  <2>1. RestartsOf(r)' = RestartsOf(r) \cup {Len(call_history) + 1}
    BY <1>1, <1>2, <1>3, <1>4 DEF RestartsOf
  <2>2. /\ IsFiniteSet(RestartsOf(r))
        /\ Len(call_history) + 1 \notin RestartsOf(r)
    BY RestartsFinite
  <2>3. Cardinality(RestartsOf(r) \cup {Len(call_history) + 1})
          = Cardinality(RestartsOf(r)) + 1
    BY <2>2, FS_AddElement
  <2> QED BY <1>4, <2>1, <2>3
<1>5. CASE ~(t = "restart_service" /\ s = r)
  <2>1. RestartsOf(r)' = RestartsOf(r)
    BY <1>1, <1>2, <1>3, <1>5 DEF RestartsOf
  <2>2. Cardinality(RestartsOf(r)) \in Nat
    BY RestartsFinite, FS_CardinalityType
  <2> QED BY <1>5, <2>1, <2>2
<1> QED BY <1>4, <1>5

(* What one recorded call does to the audit: the counters and the flag     *)
(* agree with the longer trail when they follow the tool that was called.  *)
LEMMA AuditStep ==
  ASSUME TypeOK, AuditAgrees,
         NEW t \in Tools, NEW s \in Services \cup {NoService},
         record_call(t, s),
         \A r \in Services :
            service_restarts'[r] =
              service_restarts[r]
                + (IF t = "restart_service" /\ s = r THEN 1 ELSE 0),
         remediation_applied' <=>
           (remediation_applied \/ t \in {"apply_hotfix", "apply_runtime_config"})
  PROVE  AuditAgrees'
<1> DEFINE Fixes == {"apply_hotfix", "apply_runtime_config"}
<1>1. ASSUME NEW r \in Services
      PROVE  service_restarts'[r] = Cardinality(RestartsOf(r))'
  <2>1. service_restarts[r] = Cardinality(RestartsOf(r))
    BY DEF AuditAgrees, RestartsOf
  <2>2. Cardinality(RestartsOf(r))' =
          Cardinality(RestartsOf(r))
            + (IF t = "restart_service" /\ s = r THEN 1 ELSE 0)
    BY RestartsGrow
  <2> QED BY <2>1, <2>2
<1>2. remediation_applied' <=> CallsOf(Fixes)' # {}
  <2>1. CallsOf(Fixes)' =
          CallsOf(Fixes) \cup (IF t \in Fixes THEN {Len(call_history) + 1}
                                             ELSE {})
    BY CallsGrow
  <2>2. remediation_applied <=> CallsOf(Fixes) # {}
    BY DEF AuditAgrees
  <2> QED BY <2>1, <2>2
<1> QED BY <1>1, <1>2 DEF AuditAgrees, RestartsOf

LEMMA InitAudit == Init => AuditAgrees
<1> SUFFICES ASSUME Init PROVE AuditAgrees
  OBVIOUS
<1>1. \A tools : CallsOf(tools) = {}
  BY DEF Init, CallsOf
<1>2. \A s \in Services : RestartsOf(s) = {} /\ service_restarts[s] = 0
  BY <1>1 DEF Init, RestartsOf
<1>3. \A s \in Services : service_restarts[s] = Cardinality(RestartsOf(s))
  BY <1>2, FS_EmptySet
<1>4. remediation_applied
        <=> CallsOf({"apply_hotfix", "apply_runtime_config"}) # {}
  BY <1>1 DEF Init
<1> QED BY <1>3, <1>4 DEF AuditAgrees, RestartsOf

LEMMA AnyCallAudit ==
  ASSUME TypeOK, AuditAgrees, AnyCall
  PROVE  AuditAgrees'
<1> DEFINE Recorded(t, s) ==
      /\ record_call(t, s)
      /\ \A r \in Services :
            service_restarts'[r] =
              service_restarts[r]
                + (IF t = "restart_service" /\ s = r THEN 1 ELSE 0)
      /\ remediation_applied' <=>
           (remediation_applied
              \/ t \in {"apply_hotfix", "apply_runtime_config"})
<1>1. \A r \in Services : service_restarts[r] \in Nat
  BY DEF TypeOK
<1>2. ASSUME NEW t \in Tools, NEW s \in Services \cup {NoService},
             Recorded(t, s)
      PROVE  AuditAgrees'
  BY <1>2, AuditStep
<1> HIDE DEF Recorded
<1>3. CASE Diagnose
  <2>1. Recorded("telemetry", NoService)
    BY <1>1, <1>3 DEF Diagnose, Recorded, TypeOK
  <2> QED BY <1>2, <2>1 DEF Tools
<1>4. ASSUME NEW s \in Services, apply_hotfix(s) PROVE AuditAgrees'
  <2>1. Recorded("apply_hotfix", s)
    BY <1>1, <1>4 DEF apply_hotfix, Recorded, TypeOK
  <2> QED BY <1>2, <2>1 DEF Tools
<1>5. ASSUME NEW s \in Services, apply_runtime_config(s) PROVE AuditAgrees'
  <2>1. Recorded("apply_runtime_config", s)
    BY <1>1, <1>5 DEF apply_runtime_config, Recorded, TypeOK
  <2> QED BY <1>2, <2>1 DEF Tools
<1>6. ASSUME NEW s \in Services, restart_service(s) PROVE AuditAgrees'
  <2>1. Recorded("restart_service", s)
    BY <1>1, <1>6 DEF restart_service, Recorded, TypeOK
  <2> QED BY <1>2, <2>1 DEF Tools
<1>7. ASSUME NEW right \in SUBSET RcaFields, submit_structured_rca(right)
      PROVE  AuditAgrees'
  <2>1. Recorded("submit_structured_rca", NoService)
    BY <1>1, <1>7 DEF submit_structured_rca, Recorded, TypeOK
  <2> QED BY <1>2, <2>1 DEF Tools
<1>8. ASSUME NEW score \in 0..1000, generate_post_mortem(score)
      PROVE  AuditAgrees'
  <2>1. Recorded("generate_post_mortem", NoService)
    BY <1>1, <1>8 DEF generate_post_mortem, Recorded, TypeOK
  <2> QED BY <1>2, <2>1 DEF Tools
<1> QED
  BY <1>3, <1>4, <1>5, <1>6, <1>7, <1>8 DEF AnyCall, Mutate

LEMMA SameAudit ==
  ASSUME AuditAgrees,
         UNCHANGED <<call_history, service_restarts, remediation_applied>>
  PROVE  AuditAgrees'
BY DEF AuditAgrees, CallsOf

LEMMA StepAudit == TypeOK /\ AuditAgrees /\ [Next]_vars => AuditAgrees'
BY NextIsAnyCall, AnyCallAudit, SameAudit DEF TimePasses, vars

(* The restart counters and the remediation flag, which the oracle trusts, *)
(* are what the audit trail says they are, after any sequence of calls.    *)
THEOREM AuditTrailAgrees == Spec => []AuditAgrees
<1>1. Init => TypeOK /\ AuditAgrees
  BY InitTypeOK, InitAudit
<1>2. TypeOK /\ AuditAgrees /\ [Next]_vars => (TypeOK /\ AuditAgrees)'
  BY StepTypeOK, StepAudit
<1> QED BY <1>1, <1>2, PTL DEF Spec

----------------------------------------------------------------------------
(* No call sets a restart counter back.                                    *)
LEMMA AnyCallBreach ==
  ASSUME TypeOK, AnyCall, ~BSafe
  PROVE  ~BSafe'
<1>1. PICK s \in HealthyServices : service_restarts[s] # 0
  BY DEF BSafe
<1>2. s \in Services /\ service_restarts \in [Services -> Nat]
  BY ServicesAssumption DEF TypeOK
<1>3. ASSUME NEW r \in Services, restart_service(r)
      PROVE  service_restarts'[s] # 0
  BY <1>1, <1>2, <1>3 DEF restart_service
<1>4. service_restarts'[s] # 0
  BY <1>1, <1>3
     DEF AnyCall, Mutate, Diagnose, apply_hotfix, apply_runtime_config,
         submit_structured_rca, generate_post_mortem
<1> QED BY <1>4 DEF BSafe

LEMMA BreachStep ==
  TypeOK /\ [Next]_vars => (~BSafe => ~BSafe' /\ Reward' = 0 /\ ~Passed')
<1> SUFFICES ASSUME TypeOK, [Next]_vars, ~BSafe
             PROVE  ~BSafe' /\ Reward' = 0 /\ ~Passed'
  OBVIOUS
<1>1. ~BSafe'
  <2>1. CASE AnyCall
    BY <2>1, AnyCallBreach
  <2>2. CASE UNCHANGED service_restarts
    BY <2>2 DEF BSafe
  <2> QED BY <2>1, <2>2, NextIsAnyCall DEF TimePasses, vars
<1> QED BY <1>1 DEF Reward, Passed

(* A breach cannot be worked off: once a healthy service was restarted, no *)
(* further call of any tool and no passing of time earns a reward.         *)
THEOREM BreachCannotBeUndone == Spec => BreachIsFinal
<1>1. TypeOK /\ [Next]_vars
        => [~BSafe => ~BSafe' /\ Reward' = 0 /\ ~Passed']_vars
  BY BreachStep
<1> QED BY <1>1, TypeCorrect, PTL DEF Spec, BreachIsFinal

----------------------------------------------------------------------------
(* When the calls were made.  No record carries a time that has not come.  *)
TrailIsPast == \A i \in 1..Len(call_history) : call_history[i].at <= clock

LEMMA TimesAreNat ==
  ASSUME TypeOK, NEW i \in 1..Len(call_history)
  PROVE  call_history[i].at \in Nat
<1>1. call_history[i] \in Calls
  BY DEF TypeOK
<1> QED BY <1>1 DEF Calls

LEMMA AnyCallPast ==
  ASSUME TypeOK, TrailIsPast, AnyCall
  PROVE  TrailIsPast'
<1>1. ASSUME NEW t \in Tools, NEW s \in Services \cup {NoService},
             record_call(t, s), UNCHANGED clock
      PROVE  TrailIsPast'
  <2>1. /\ Len(call_history') = Len(call_history) + 1
        /\ \A i \in 1..Len(call_history) : call_history'[i] = call_history[i]
        /\ call_history'[Len(call_history) + 1].at = clock
    BY <1>1, RecordType
  <2>2. Len(call_history) \in Nat /\ clock \in Nat
    BY TimeAssumption DEF TypeOK
  <2> QED BY <1>1, <2>1, <2>2 DEF TrailIsPast
<1>2. CASE Diagnose
  BY <1>1, <1>2 DEF Diagnose, Tools
<1>3. CASE Mutate
  BY <1>1, <1>3
     DEF Mutate, apply_hotfix, apply_runtime_config, restart_service, Tools
<1>4. ASSUME NEW right \in SUBSET RcaFields, submit_structured_rca(right)
      PROVE  TrailIsPast'
  BY <1>1, <1>4 DEF submit_structured_rca, Tools
<1>5. ASSUME NEW score \in 0..1000, generate_post_mortem(score)
      PROVE  TrailIsPast'
  BY <1>1, <1>5 DEF generate_post_mortem, Tools
<1> QED BY <1>2, <1>3, <1>4, <1>5 DEF AnyCall

(* Nor does one when time passes.                                          *)
LEMMA LaterPast ==
  ASSUME TypeOK, TrailIsPast, UNCHANGED call_history, clock' \in Int,
         clock' >= clock
  PROVE  TrailIsPast'
<1>1. /\ clock \in Int
      /\ \A i \in 1..Len(call_history) : call_history[i].at \in Int
  BY TimesAreNat, TimeAssumption DEF TypeOK
<1> QED BY <1>1 DEF TrailIsPast

LEMMA StepPast == TypeOK /\ TrailIsPast /\ [Next]_vars => TrailIsPast'
<1> SUFFICES ASSUME TypeOK, TrailIsPast, [Next]_vars PROVE TrailIsPast'
  OBVIOUS
<1>1. clock \in Int
  BY TimeAssumption DEF TypeOK
<1>2. CASE AnyCall
  BY <1>2, AnyCallPast
<1>3. CASE TimePasses
  BY <1>1, <1>3, LaterPast DEF TimePasses
<1>4. CASE UNCHANGED vars
  BY <1>1, <1>4, LaterPast DEF vars
<1> QED BY NextIsAnyCall, <1>2, <1>3, <1>4

LEMMA AlwaysPast == Spec => [](TypeOK /\ TrailIsPast)
<1>1. Init => TrailIsPast
  BY DEF Init, TrailIsPast
<1> QED BY <1>1, InitTypeOK, StepTypeOK, StepPast, PTL DEF Spec

(* A set of times up to a bound has a last one.                            *)
LEMMA LatestExists ==
  ASSUME NEW b \in Nat, NEW S, S \subseteq 0..b, S # {}
  PROVE  \E t \in S : \A u \in S : u <= t
<1> DEFINE R == OpToRel(<, Nat)
           before == {b - t : t \in S}
<1>1. IsWellFoundedOn(R, Nat)
  BY NatLessThanWellFounded
<1>2. \A m, n \in Nat : m < n => <<m, n>> \in R
  BY DEF OpToRel
<1>3. before \subseteq Nat /\ before # {}
  <2>1. ASSUME NEW t \in S PROVE b - t \in Nat
    OBVIOUS
  <2> QED BY <2>1
<1> HIDE DEF R
<1>4. PICK x \in before : \A y \in before : ~(<<y, x>> \in R)
  BY <1>1, <1>3, WFMin
<1>5. PICK t \in S : x = b - t
  BY <1>4
<1>6. ASSUME NEW u \in S PROVE u <= t
  <2>1. ~(b - u < b - t)
    BY <1>2, <1>3, <1>4, <1>5
  <2> QED BY <2>1
<1> QED BY <1>6

MutationTimes == {call_history[i].at : i \in CallsOf(MutationTools)}

(* The CHOOSE of LastMutation has what it asks for: the last mutation, or  *)
(* t_chaos when there is none.                                             *)
LastMutationIsLast ==
  /\ LastMutation \in {0} \cup MutationTimes
  /\ \A u \in {0} \cup MutationTimes : u <= LastMutation
  /\ {0} \cup MutationTimes \subseteq Nat

LEMMA LastMutationIs == TypeOK /\ TrailIsPast => LastMutationIsLast
<1> SUFFICES ASSUME TypeOK, TrailIsPast PROVE LastMutationIsLast
  OBVIOUS
<1> DEFINE S == {0} \cup MutationTimes
<1>1. clock \in Nat
  BY TimeAssumption DEF TypeOK
<1>2. ASSUME NEW i \in CallsOf(MutationTools)
      PROVE  call_history[i].at \in 0..clock
  BY <1>1, TimesAreNat DEF TrailIsPast, CallsOf
<1>3. S \subseteq 0..clock
  BY <1>1, <1>2 DEF MutationTimes
<1>4. \E t \in S : \A u \in S : u <= t
  BY <1>1, <1>3, LatestExists
<1>5. \E t \in S : \A i \in CallsOf(MutationTools) : call_history[i].at <= t
  BY <1>4 DEF MutationTimes
<1>6. /\ LastMutation \in S
      /\ \A i \in CallsOf(MutationTools) : call_history[i].at <= LastMutation
  BY <1>5 DEF LastMutation, MutationTimes
<1>7. \A u \in S : u <= LastMutation
  BY <1>1, <1>3, <1>6 DEF MutationTimes
<1> QED BY <1>3, <1>6, <1>7 DEF LastMutationIsLast

----------------------------------------------------------------------------
(* Arithmetic of the reward.  Dividing and rounding keep the order of two  *)
(* fractions.                                                              *)
LEMMA ProductOrder ==
  ASSUME NEW a \in Nat, NEW b \in Nat, NEW c \in Nat, a <= b
  PROVE  a * c <= b * c /\ a * c \in Nat /\ b * c \in Nat
OBVIOUS

LEMMA RoundedOrder ==
  ASSUME NEW a \in Nat, NEW b \in Nat, NEW c \in Nat, NEW d \in Nat,
         b > 0, d > 0, a * d <= c * b
  PROVE  Rounded(a, b) <= Rounded(c, d)
BY DEF Rounded

LEMMA RoundedIs ==
  ASSUME NEW a \in Nat, NEW b \in Nat, b > 0
  PROVE  /\ Rounded(a, b) \in Nat
         /\ \A n \in Nat : Rounded(a, b) >= n => 2 * a + b >= 2 * (n * b)
BY DEF Rounded

(* The reward of an episode without a breach.                              *)
Worth(ttm, num, den, rca) ==
  Rounded(6000 * (TMax - ttm) * den + 2000 * num * TMax + 2 * rca * TMax * den,
          TMax * den)

LEMMA WorthOperands ==
  ASSUME NEW ttm \in 0..TMax, NEW num \in Nat, NEW den \in Nat \ {0},
         NEW rca \in Nat
  PROVE  /\ 6000 * (TMax - ttm) * den + 2000 * num * TMax
               + 2 * rca * TMax * den \in Nat
         /\ TMax * den \in Nat /\ TMax * den > 0
<1>1. TMax \in Nat /\ TMax > 0 /\ den > 0 /\ TMax - ttm \in Nat
  BY TimeAssumption
<1>2. /\ 6000 * (TMax - ttm) * den \in Nat
      /\ 2000 * num * TMax \in Nat
      /\ 2 * rca * TMax * den \in Nat
  BY <1>1
<1>3. TMax * den \in Nat /\ TMax * den > 0
  BY <1>1
<1> QED BY <1>2, <1>3

LEMMA WorthType ==
  ASSUME NEW ttm \in 0..TMax, NEW num \in Nat, NEW den \in Nat \ {0},
         NEW rca \in Nat
  PROVE  Worth(ttm, num, den, rca) \in Nat
<1> DEFINE N == 6000 * (TMax - ttm) * den + 2000 * num * TMax
                  + 2 * rca * TMax * den
           D == TMax * den
<1>1. N \in Nat /\ D \in Nat /\ D > 0
  BY WorthOperands
<1>2. Worth(ttm, num, den, rca) = Rounded(N, D)
  BY DEF Worth
<1> HIDE DEF N, D
<1> QED BY <1>1, <1>2, RoundedIs

(* No reward exceeds 1.                                                    *)
LEMMA WorthMost ==
  ASSUME NEW ttm \in 0..TMax, NEW num \in Nat, NEW den \in Nat \ {0},
         NEW rca \in Nat, num <= den, rca <= 1000
  PROVE  Worth(ttm, num, den, rca) <= 10000
<1> DEFINE T == TMax
           A == (T - ttm) * den   B == num * T   C == rca * T * den
           N == 6000 * (T - ttm) * den + 2000 * num * T + 2 * rca * T * den
           D == T * den
<1>1. T \in Nat /\ T > 0 /\ den > 0 /\ T - ttm \in Nat /\ T - ttm <= T
  BY TimeAssumption
<1>2. N \in Nat /\ D \in Nat /\ D > 0
  BY WorthOperands
<1>3. A <= D /\ B <= D /\ C <= 1000 * D
  BY <1>1
<1>4. N = 6000 * A + 2000 * B + 2 * C
  BY <1>1
<1>5. A \in Nat /\ B \in Nat /\ C \in Nat
  BY <1>1
<1> HIDE DEF A, B, C, D, N
<1>6. N * 1 <= 10000 * D
  BY <1>2, <1>3, <1>4, <1>5
<1>7. Rounded(N, D) <= Rounded(10000, 1)
  BY <1>2, <1>6, RoundedOrder
<1>8. Rounded(10000, 1) = 10000
  BY DEF Rounded
<1> QED BY <1>7, <1>8 DEF Worth, N, D

(* A later fix, a smaller ratio and a worse report are never worth more.   *)
LEMMA WorthOrder ==
  ASSUME NEW t \in 0..TMax, NEW n \in Nat, NEW d \in Nat \ {0}, NEW r \in Nat,
         NEW u \in 0..TMax, NEW m \in Nat, NEW e \in Nat \ {0}, NEW q \in Nat,
         u <= t, n * e <= m * d, r <= q
  PROVE  Worth(t, n, d, r) <= Worth(u, m, e, q)
<1> DEFINE T == TMax
           A == 6000 * (T - t) * d   B == 2000 * n * T   C == 2 * r * T * d
           X == 6000 * (T - u) * e   Y == 2000 * m * T   Z == 2 * q * T * e
<1>1. T \in Nat /\ T > 0 /\ T - t \in Nat /\ T - u \in Nat /\ d > 0 /\ e > 0
  BY TimeAssumption
<1>2. A * (T * e) <= X * (T * d)
  <2>1. (T - t) * (d * T * e) <= (T - u) * (d * T * e)
    BY <1>1, ProductOrder
  <2> QED BY <1>1, <2>1
<1>3. B * (T * e) <= Y * (T * d)
  <2>1. (n * e) * (T * T) <= (m * d) * (T * T)
    BY <1>1, ProductOrder
  <2> QED BY <1>1, <2>1
<1>4. C * (T * e) <= Z * (T * d)
  <2>1. r * (T * d * T * e) <= q * (T * d * T * e)
    BY <1>1, ProductOrder
  <2> QED BY <1>1, <2>1
<1>5. /\ A \in Nat /\ B \in Nat /\ C \in Nat
      /\ X \in Nat /\ Y \in Nat /\ Z \in Nat
      /\ T * d \in Nat /\ T * d > 0 /\ T * e \in Nat /\ T * e > 0
  BY <1>1
<1> HIDE DEF A, B, C, X, Y, Z
<1>6. (A + B + C) * (T * e) <= (X + Y + Z) * (T * d)
  BY <1>2, <1>3, <1>4, <1>5
<1>7. Rounded(A + B + C, T * d) <= Rounded(X + Y + Z, T * e)
  BY <1>5, <1>6, RoundedOrder
<1> QED BY <1>7 DEF Worth, A, B, C, X, Y, Z

----------------------------------------------------------------------------
(* The operands of the reward.                                             *)
LEMMA CallsFinite ==
  ASSUME TypeOK, NEW tools
  PROVE  /\ IsFiniteSet(CallsOf(tools))
         /\ Cardinality(CallsOf(tools)) \in Nat
         /\ Len(call_history) + 1 \notin CallsOf(tools)
<1>1. Len(call_history) \in Nat
  BY DEF TypeOK
<1>2. CallsOf(tools) \subseteq 1..Len(call_history)
  BY DEF CallsOf
<1>3. IsFiniteSet(1..Len(call_history))
  BY <1>1, FS_Interval
<1> QED BY <1>1, <1>2, <1>3, FS_Subset, FS_CardinalityType

LEMMA RcaWeightType ==
  ASSUME NEW right \in SUBSET RcaFields
  PROVE  RcaWeight(right) \in 0..1000
<1>1. IsFiniteSet(RcaFields) /\ Cardinality(RcaFields) <= 4
  <2> DEFINE A == {"scenario"}  B == A \cup {"component"}
             C == B \cup {"factor"}  D == C \cup {"remediation"}
  <2>1. IsFiniteSet(A) /\ Cardinality(A) = 1
    BY FS_Singleton
  <2>2. IsFiniteSet(B) /\ Cardinality(B) = 2
    BY <2>1, FS_AddElement
  <2>3. IsFiniteSet(C) /\ Cardinality(C) = 3
    BY <2>2, FS_AddElement
  <2>4. IsFiniteSet(D) /\ Cardinality(D) = 4
    BY <2>3, FS_AddElement
  <2>5. D = RcaFields
    BY DEF RcaFields
  <2> QED BY <2>4, <2>5
<1>2. Cardinality(right) \in Nat /\ Cardinality(right) <= 4
  BY <1>1, FS_Subset, FS_CardinalityType
<1> QED BY <1>2 DEF RcaWeight

LEMMA ScoreType == TypeOK => RcaScore \in 0..1000
<1> SUFFICES ASSUME TypeOK PROVE RcaScore \in 0..1000
  OBVIOUS
<1>1. Scored \in Artifacts
  BY DEF TypeOK, Scored
<1>2. CASE Scored.by = "rca"
  <2>1. Scored.right \in SUBSET RcaFields
    BY <1>1, <1>2 DEF Artifacts
  <2> QED BY <1>2, <2>1, RcaWeightType DEF RcaScore
<1>3. CASE Scored.by = "text"
  BY <1>1, <1>3 DEF Artifacts, RcaScore
<1>4. CASE Scored.by = "none"
  BY <1>4 DEF RcaScore
<1> QED BY <1>1, <1>2, <1>3, <1>4 DEF Artifacts

LEMMA CreditType ==
  TypeOK => /\ EgrCredit.num \in Nat
            /\ EgrCredit.den \in Nat \ {0}
            /\ EgrCredit.num <= EgrCredit.den
<1> SUFFICES ASSUME TypeOK
             PROVE  /\ EgrCredit.num \in Nat
                    /\ EgrCredit.den \in Nat \ {0}
                    /\ EgrCredit.num <= EgrCredit.den
  OBVIOUS
<1>1. telemetry_calls \in Nat /\ mutation_calls \in Nat
  BY CallsFinite DEF telemetry_calls, mutation_calls
<1> QED BY <1>1 DEF EgrCredit

LEMMA TtmType ==
  TypeOK /\ TrailIsPast =>
    /\ Ttm \in 0..TMax
    /\ Ttm < TMax => remediation_applied /\ LastMutation + Settle <= Ttm
<1> SUFFICES ASSUME TypeOK, TrailIsPast
             PROVE  /\ Ttm \in 0..TMax
                    /\ Ttm < TMax =>
                         remediation_applied /\ LastMutation + Settle <= Ttm
  OBVIOUS
<1>1. LastMutation \in Nat
  BY LastMutationIs DEF LastMutationIsLast
<1> QED BY <1>1, TimeAssumption DEF Ttm, MaxOf, MinOf

LEMMA RewardIs ==
  /\ ~BSafe => Reward = 0
  /\ BSafe => Reward = Worth(Ttm, EgrCredit.num, EgrCredit.den, RcaScore)
BY DEF Reward, Worth

LEMMA RewardType == TypeOK /\ TrailIsPast => Reward \in Nat
<1> SUFFICES ASSUME TypeOK, TrailIsPast PROVE Reward \in Nat
  OBVIOUS
<1>1. Ttm \in 0..TMax
  BY TtmType
<1>2. EgrCredit.num \in Nat /\ EgrCredit.den \in Nat \ {0}
  BY CreditType
<1>3. RcaScore \in Nat
  BY ScoreType
<1>4. Worth(Ttm, EgrCredit.num, EgrCredit.den, RcaScore) \in Nat
  BY <1>1, <1>2, <1>3, WorthType
<1> QED BY <1>4, RewardIs

LEMMA RewardRange == TypeOK /\ TrailIsPast => Reward \in 0..10000
<1> SUFFICES ASSUME TypeOK, TrailIsPast PROVE Reward \in 0..10000
  OBVIOUS
<1>1. Reward \in Nat
  BY RewardType
<1>2. Ttm \in 0..TMax
  BY TtmType
<1>3. /\ EgrCredit.num \in Nat /\ EgrCredit.den \in Nat \ {0}
      /\ EgrCredit.num <= EgrCredit.den
  BY CreditType
<1>4. RcaScore \in Nat /\ RcaScore <= 1000
  BY ScoreType
<1>5. Worth(Ttm, EgrCredit.num, EgrCredit.den, RcaScore) <= 10000
  BY <1>2, <1>3, <1>4, WorthMost
<1> QED BY <1>1, <1>5, RewardIs

(* A step that makes no operand of the reward better does not raise it.    *)
NoBetter ==
  /\ BSafe' => BSafe
  /\ Ttm' >= Ttm
  /\ EgrCredit'.num * EgrCredit.den <= EgrCredit.num * EgrCredit'.den
  /\ RcaScore' <= RcaScore

(* And one that makes no operand worse does not lower it.                  *)
NoWorse ==
  /\ BSafe => BSafe'
  /\ Ttm' <= Ttm
  /\ EgrCredit.num * EgrCredit'.den <= EgrCredit'.num * EgrCredit.den
  /\ RcaScore' >= RcaScore

LEMMA RewardOrder ==
  ASSUME TypeOK, TrailIsPast, TypeOK', TrailIsPast'
  PROVE  /\ NoBetter => Reward' <= Reward
         /\ NoWorse => Reward' >= Reward
<1>1. /\ Ttm \in 0..TMax /\ Ttm' \in 0..TMax
      /\ RcaScore \in Nat /\ RcaScore' \in Nat
      /\ EgrCredit.num \in Nat /\ EgrCredit'.num \in Nat
      /\ EgrCredit.den \in Nat \ {0} /\ EgrCredit'.den \in Nat \ {0}
  <2>1. (TypeOK /\ TrailIsPast => Ttm \in 0..TMax)'
    BY TtmType, PTL
  <2>2. (TypeOK => RcaScore \in 0..1000)'
    BY ScoreType, PTL
  <2>3. (TypeOK => EgrCredit.num \in Nat /\ EgrCredit.den \in Nat \ {0})'
    BY CreditType, PTL
  <2>4. RcaScore \in 0..1000 /\ RcaScore' \in 0..1000
    BY <2>2, ScoreType
  <2> QED BY <2>1, <2>3, <2>4, TtmType, CreditType
<1>2. /\ ~BSafe' => Reward' = 0
      /\ BSafe' => Reward' = Worth(Ttm', EgrCredit'.num, EgrCredit'.den, RcaScore')
  BY DEF Reward, Worth
<1>3. Reward \in Nat /\ Reward' \in Nat
  <2>1. (TypeOK /\ TrailIsPast => Reward \in Nat)'
    BY RewardType, PTL
  <2> QED BY <2>1, RewardType
<1>4. NoBetter => Reward' <= Reward
  <2> SUFFICES ASSUME NoBetter, BSafe' PROVE Reward' <= Reward
    BY <1>2, <1>3
  <2>1. Worth(Ttm', EgrCredit'.num, EgrCredit'.den, RcaScore')
          <= Worth(Ttm, EgrCredit.num, EgrCredit.den, RcaScore)
    BY <1>1, WorthOrder DEF NoBetter
  <2> QED BY <1>2, <2>1, RewardIs DEF NoBetter
<1>5. NoWorse => Reward' >= Reward
  <2> SUFFICES ASSUME NoWorse, BSafe PROVE Reward' >= Reward
    BY <1>3, RewardIs
  <2>1. Worth(Ttm, EgrCredit.num, EgrCredit.den, RcaScore)
          <= Worth(Ttm', EgrCredit'.num, EgrCredit'.den, RcaScore')
    BY <1>1, WorthOrder DEF NoWorse
  <2> QED BY <1>2, <1>3, <2>1, RewardIs DEF NoWorse
<1> QED BY <1>4, <1>5

----------------------------------------------------------------------------
(* What one recorded call does to the operands.                            *)
LEMMA CountsStep ==
  ASSUME TypeOK, NEW t \in Tools, NEW s \in Services \cup {NoService},
         record_call(t, s)
  PROVE  /\ telemetry_calls \in Nat /\ mutation_calls \in Nat
         /\ telemetry_calls' =
               telemetry_calls + (IF t = "telemetry" THEN 1 ELSE 0)
         /\ mutation_calls' =
               mutation_calls + (IF t \in MutationTools THEN 1 ELSE 0)
<1>1. ASSUME NEW tools
      PROVE  /\ Cardinality(CallsOf(tools)) \in Nat
             /\ Cardinality(CallsOf(tools)') =
                   Cardinality(CallsOf(tools)) + (IF t \in tools THEN 1 ELSE 0)
  <2>1. CallsOf(tools)' =
          CallsOf(tools) \cup (IF t \in tools THEN {Len(call_history) + 1}
                                              ELSE {})
    BY CallsGrow
  <2>2. /\ IsFiniteSet(CallsOf(tools))
        /\ Cardinality(CallsOf(tools)) \in Nat
        /\ Len(call_history) + 1 \notin CallsOf(tools)
    BY CallsFinite
  <2>3. CASE t \in tools
    BY <2>1, <2>2, <2>3, FS_AddElement
  <2>4. CASE t \notin tools
    BY <2>1, <2>2, <2>4
  <2> QED BY <2>3, <2>4
<1>2. t \in {"telemetry"} <=> t = "telemetry"
  OBVIOUS
<1>3. /\ telemetry_calls \in Nat
      /\ telemetry_calls' =
            telemetry_calls + (IF t \in {"telemetry"} THEN 1 ELSE 0)
  BY <1>1 DEF telemetry_calls
<1>4. /\ mutation_calls \in Nat
      /\ mutation_calls' =
            mutation_calls + (IF t \in MutationTools THEN 1 ELSE 0)
  BY <1>1 DEF mutation_calls
<1> QED BY <1>2, <1>3, <1>4

LEMMA TimesStep ==
  ASSUME TypeOK, NEW t \in Tools, NEW s \in Services \cup {NoService},
         record_call(t, s)
  PROVE  MutationTimes' =
           MutationTimes \cup (IF t \in MutationTools THEN {clock} ELSE {})
<1> DEFINE n == Len(call_history) + 1
           C == CallsOf(MutationTools)
<1>1. /\ \A i \in 1..Len(call_history) : call_history'[i] = call_history[i]
      /\ call_history'[n].at = clock
  BY RecordType
<1>2. C' = C \cup (IF t \in MutationTools THEN {n} ELSE {})
  BY CallsGrow
<1>3. \A i \in C : call_history'[i].at = call_history[i].at
  BY <1>1 DEF CallsOf
<1>4. MutationTimes' = {call_history'[i].at : i \in C'}
  BY DEF MutationTimes
<1>5. MutationTimes = {call_history[i].at : i \in C}
  BY DEF MutationTimes
<1> HIDE DEF C, n
<1> QED BY <1>1, <1>2, <1>3, <1>4, <1>5

(* The last mutation never moves back, and only a mutation moves it.       *)
LEMMA LastMutationStep ==
  ASSUME TypeOK, TrailIsPast, TypeOK', TrailIsPast',
         NEW t \in Tools, NEW s \in Services \cup {NoService},
         record_call(t, s)
  PROVE  /\ LastMutation \in Nat /\ LastMutation' \in Nat
         /\ LastMutation' >= LastMutation
         /\ t \notin MutationTools => LastMutation' = LastMutation
<1> DEFINE S == {0} \cup MutationTimes
<1>1. /\ LastMutation \in S
      /\ \A u \in S : u <= LastMutation
      /\ S \subseteq Nat
  BY LastMutationIs DEF LastMutationIsLast
<1>2. /\ LastMutation' \in S'
      /\ \A u \in S' : u <= LastMutation'
      /\ S' \subseteq Nat
  <2>1. (TypeOK /\ TrailIsPast => LastMutationIsLast)'
    BY LastMutationIs, PTL
  <2> QED BY <2>1 DEF LastMutationIsLast
<1>3. /\ S \subseteq S'
      /\ t \notin MutationTools => S' = S
  BY TimesStep
<1> HIDE DEF S
<1>4. LastMutation \in Nat /\ LastMutation' \in Nat
  BY <1>1, <1>2
<1>5. LastMutation' >= LastMutation
  BY <1>1, <1>2, <1>3, <1>4
<1>6. ASSUME t \notin MutationTools PROVE LastMutation' = LastMutation
  <2>1. LastMutation' <= LastMutation
    BY <1>1, <1>2, <1>3, <1>6
  <2> QED BY <1>4, <1>5, <2>1
<1> QED BY <1>4, <1>5, <1>6

(* Once a fix is in, the TTM can only grow, and a call that is no mutation *)
(* leaves it alone.                                                        *)
LEMMA TtmStep ==
  ASSUME TypeOK, TrailIsPast, TypeOK', TrailIsPast',
         NEW t \in Tools, NEW s \in Services \cup {NoService},
         record_call(t, s)
  PROVE  /\ remediation_applied /\ remediation_applied' => Ttm' >= Ttm
         /\ t \notin MutationTools /\ remediation_applied' = remediation_applied
              => Ttm' = Ttm
<1>1. /\ LastMutation \in Nat /\ LastMutation' \in Nat
      /\ LastMutation' >= LastMutation
      /\ t \notin MutationTools => LastMutation' = LastMutation
  BY LastMutationStep
<1>2. ASSUME remediation_applied, remediation_applied' PROVE Ttm' >= Ttm
  <2> DEFINE Clamped(a) == MaxOf(Floor, MinOf(TMax, a + Settle))
  <2>1. ASSUME NEW a \in Nat, NEW b \in Nat, a <= b
        PROVE  Clamped(b) >= Clamped(a)
    BY <2>1, TimeAssumption DEF MaxOf, MinOf
  <2>2. Ttm = Clamped(LastMutation) /\ Ttm' = Clamped(LastMutation')
    BY <1>2 DEF Ttm, MaxOf, MinOf
  <2>3. LastMutation <= LastMutation'
    BY <1>1
  <2> HIDE DEF Clamped
  <2> QED BY <1>1, <2>1, <2>2, <2>3
<1>3. ASSUME t \notin MutationTools, remediation_applied' = remediation_applied
      PROVE  Ttm' = Ttm
  BY <1>1, <1>3 DEF Ttm
<1> QED BY <1>2, <1>3

(* More telemetry never lowers the ratio, one more mutation never raises   *)
(* it.                                                                     *)
LEMMA CreditStep ==
  ASSUME TypeOK, NEW t \in Tools, NEW s \in Services \cup {NoService},
         record_call(t, s)
  PROVE  /\ t \notin MutationTools =>
              EgrCredit.num * EgrCredit'.den <= EgrCredit'.num * EgrCredit.den
         /\ t # "telemetry" =>
              EgrCredit'.num * EgrCredit.den <= EgrCredit.num * EgrCredit'.den
         /\ t \notin MutationTools \cup {"telemetry"} => EgrCredit' = EgrCredit
<1>1. /\ telemetry_calls \in Nat /\ mutation_calls \in Nat
      /\ telemetry_calls' =
            telemetry_calls + (IF t = "telemetry" THEN 1 ELSE 0)
      /\ mutation_calls' =
            mutation_calls + (IF t \in MutationTools THEN 1 ELSE 0)
  BY CountsStep
<1>2. ASSUME t \notin MutationTools
      PROVE  EgrCredit.num * EgrCredit'.den <= EgrCredit'.num * EgrCredit.den
  BY <1>1, <1>2 DEF EgrCredit
<1>3. ASSUME t # "telemetry"
      PROVE  EgrCredit'.num * EgrCredit.den <= EgrCredit.num * EgrCredit'.den
  BY <1>1, <1>3 DEF EgrCredit
<1>4. ASSUME t \notin MutationTools \cup {"telemetry"}
      PROVE  EgrCredit' = EgrCredit
  BY <1>1, <1>4 DEF EgrCredit
<1> QED BY <1>2, <1>3, <1>4

----------------------------------------------------------------------------
(* One more look, at any time, never costs anything.                       *)
THEOREM LookingIsFree == Spec => DiagnosisNeverHurts
<1>1. ASSUME TypeOK, TrailIsPast, [Next]_vars, Diagnose
      PROVE  Reward' >= Reward
  <2>1. TypeOK' /\ TrailIsPast'
    BY <1>1, StepTypeOK, StepPast
  <2>2. record_call("telemetry", NoService) /\ "telemetry" \in Tools
    BY <1>1 DEF Diagnose, Tools
  <2>3. Ttm' = Ttm /\ Ttm' <= Ttm
    <3>1. Ttm' = Ttm
      BY <1>1, <2>1, <2>2, TtmStep DEF Diagnose, MutationTools
    <3>2. Ttm \in Nat
      BY <1>1, TtmType, TimeAssumption
    <3> QED BY <3>1, <3>2
  <2>4. EgrCredit.num * EgrCredit'.den <= EgrCredit'.num * EgrCredit.den
    BY <1>1, <2>2, CreditStep DEF MutationTools
  <2>5. RcaScore' >= RcaScore
    <3>1. RcaScore' = RcaScore
      BY <1>1 DEF Diagnose, artifacts, RcaScore, Scored
    <3> QED BY <1>1, <3>1, ScoreType
  <2>6. BSafe => BSafe'
    BY <1>1 DEF Diagnose, BSafe
  <2>7. NoWorse
    BY <2>3, <2>4, <2>5, <2>6 DEF NoWorse
  <2> QED BY <1>1, <2>1, <2>7, RewardOrder
<1>2. TypeOK /\ TrailIsPast /\ [Next]_vars
        => [Diagnose => Reward' >= Reward]_vars
  BY <1>1
<1> QED BY <1>2, AlwaysPast, PTL DEF Spec, DiagnosisNeverHurts

(* Once a fix is in, tinkering on never pays.                              *)
THEOREM TinkeringNeverPays == Spec => LateMutationNeverHelps
<1>1. ASSUME TypeOK, TrailIsPast, [Next]_vars, remediation_applied,
             NEW t \in MutationTools, NEW s \in Services, record_call(t, s),
             remediation_applied', UNCHANGED artifacts
      PROVE  Reward' <= Reward
  <2>1. TypeOK' /\ TrailIsPast'
    BY <1>1, StepTypeOK, StepPast
  <2>2. t \in Tools /\ t # "telemetry"
    BY DEF Tools, MutationTools
  <2>3. Ttm' >= Ttm
    BY <1>1, <2>1, <2>2, TtmStep
  <2>4. EgrCredit'.num * EgrCredit.den <= EgrCredit.num * EgrCredit'.den
    BY <1>1, <2>2, CreditStep
  <2>5. RcaScore' <= RcaScore
    <3>1. RcaScore' = RcaScore
      BY <1>1 DEF artifacts, RcaScore, Scored
    <3> QED BY <1>1, <3>1, ScoreType
  <2>6. BSafe' => BSafe
    BY <1>1, BreachStep
  <2>7. NoBetter
    BY <2>3, <2>4, <2>5, <2>6 DEF NoBetter
  <2> QED BY <1>1, <2>1, <2>7, RewardOrder
<1>2. ASSUME TypeOK, TrailIsPast, [Next]_vars, remediation_applied, Mutate
      PROVE  Reward' <= Reward
  <2>1. ASSUME NEW s \in Services, apply_hotfix(s) PROVE Reward' <= Reward
    BY <1>1, <1>2, <2>1 DEF apply_hotfix, MutationTools
  <2>2. ASSUME NEW s \in Services, apply_runtime_config(s)
        PROVE  Reward' <= Reward
    BY <1>1, <1>2, <2>2 DEF apply_runtime_config, MutationTools
  <2>3. ASSUME NEW s \in Services, restart_service(s) PROVE Reward' <= Reward
    BY <1>1, <1>2, <2>3 DEF restart_service, MutationTools
  <2> QED BY <1>2, <2>1, <2>2, <2>3 DEF Mutate
<1>3. TypeOK /\ TrailIsPast /\ [Next]_vars
        => [remediation_applied /\ Mutate => Reward' <= Reward]_vars
  BY <1>2
<1> QED BY <1>3, AlwaysPast, PTL DEF Spec, LateMutationNeverHelps

(* A structured report is what is scored, whatever prose follows it.       *)
THEOREM ProseChangesNothing == Spec => StructuredStands
<1> DEFINE Stands ==
      structured_rca # None /\ structured_rca' = structured_rca
        /\ post_mortem' # post_mortem => Reward' = Reward
<1>1. ASSUME TypeOK, TrailIsPast, [Next]_vars, structured_rca # None,
             structured_rca' = structured_rca,
             NEW t \in {"submit_structured_rca", "generate_post_mortem"},
             record_call(t, NoService),
             UNCHANGED <<service_restarts, remediation_applied>>
      PROVE  Reward' = Reward
  <2>1. TypeOK' /\ TrailIsPast'
    BY <1>1, StepTypeOK, StepPast
  <2>2. t \in Tools /\ t \notin MutationTools \cup {"telemetry"}
    BY DEF Tools, MutationTools
  <2>3. Ttm' = Ttm
    BY <1>1, <2>1, <2>2, TtmStep
  <2>4. EgrCredit' = EgrCredit
    BY <1>1, <2>2, CreditStep
  <2>5. RcaScore' = RcaScore
    BY <1>1 DEF RcaScore, Scored
  <2>6. BSafe' <=> BSafe
    BY <1>1 DEF BSafe
  <2> QED BY <2>3, <2>4, <2>5, <2>6 DEF Reward
<1>2. ASSUME TypeOK, TrailIsPast, [Next]_vars, structured_rca # None,
             structured_rca' = structured_rca, post_mortem' # post_mortem
      PROVE  Reward' = Reward
  <2>1. ASSUME NEW right \in Submissions, submit_structured_rca(right)
        PROVE  Reward' = Reward
    BY <1>1, <1>2, <2>1 DEF submit_structured_rca
  <2>2. ASSUME NEW score \in FreeTextScores, generate_post_mortem(score)
        PROVE  Reward' = Reward
    BY <1>1, <1>2, <2>2 DEF generate_post_mortem
  <2>3. \/ \E right \in Submissions : submit_structured_rca(right)
        \/ \E score \in FreeTextScores : generate_post_mortem(score)
    BY <1>2, NextCases
       DEF Diagnose, apply_hotfix, apply_runtime_config, restart_service,
           TimePasses, artifacts, vars
  <2> QED BY <2>1, <2>2, <2>3
<1>3. TypeOK /\ TrailIsPast /\ [Next]_vars => [Stands]_vars
  BY <1>2
<1> QED BY <1>3, AlwaysPast, PTL DEF Spec, StructuredStands

----------------------------------------------------------------------------
(* What a pass takes.  Of the 7000 a pass needs, at most 2000 come from    *)
(* the ratio and 2000 from the report; that the reward is rounded is worth *)
(* half a unit, hence the 6001.                                            *)
InFirstHalf(t) == 12000 * t <= 6001 * TMax

LEMMA PassNeedsSpeed ==
  ASSUME NEW ttm \in 0..TMax, NEW num \in Nat, NEW den \in Nat \ {0},
         NEW rca \in Nat, num <= den, rca <= 1000,
         Worth(ttm, num, den, rca) >= 7000
  PROVE  InFirstHalf(ttm)
<1> DEFINE T == TMax
           N == 6000 * (T - ttm) * den + 2000 * num * T + 2 * rca * T * den
           D == T * den
<1>1. T \in Nat /\ T > 0 /\ den > 0 /\ T - ttm \in Nat
  BY TimeAssumption
<1>2. N \in Nat /\ D \in Nat /\ D > 0
  BY WorthOperands
<1>3. 2 * N + D >= 2 * (7000 * D)
  <2>1. Rounded(N, D) >= 7000
    BY DEF Worth
  <2> HIDE DEF N, D
  <2> QED BY <1>2, <2>1, RoundedIs
<1>4. num * T <= D
  BY <1>1
<1>5. rca * T * den <= 1000 * D
  BY <1>1
<1>6. 2 * (6000 * (T - ttm) * den) >= 5999 * D
  <2> DEFINE A == (T - ttm) * den
             B == num * T
             C == rca * T * den
  <2>1. A \in Nat /\ B \in Nat /\ C \in Nat
    BY <1>1
  <2>2. N = 6000 * A + 2000 * B + 2 * C
    BY <1>1
  <2>3. 6000 * (T - ttm) * den = 6000 * A
    BY <1>1
  <2> HIDE DEF A, B, C, D, N
  <2> QED BY <1>2, <1>3, <1>4, <1>5, <2>1, <2>2, <2>3 DEF B, C
<1>7. (12000 * (T - ttm)) * den >= (5999 * T) * den
  BY <1>1, <1>6
<1>8. 12000 * (T - ttm) >= 5999 * T
  BY <1>1, <1>7
<1> QED BY <1>1, <1>8 DEF InFirstHalf

(* Without diagnosis and without an understanding of the cause a fix at    *)
(* once is worth 6000.                                                     *)
LEMMA SpeedIsNotEnough ==
  ASSUME NEW ttm \in 0..TMax, NEW den \in Nat \ {0}
  PROVE  ~(Worth(ttm, 0, den, 0) >= 7000)
<1> DEFINE T == TMax
           N == 6000 * (T - ttm) * den + 2000 * 0 * T + 2 * 0 * T * den
           D == T * den
<1>1. T \in Nat /\ T > 0 /\ den > 0 /\ T - ttm \in Nat /\ T - ttm <= T
  BY TimeAssumption
<1>2. N \in Nat /\ D \in Nat /\ D > 0
  BY <1>1
<1>3. N <= 6000 * D
  BY <1>1
<1> HIDE DEF N, D
<1>4. ~(2 * N + D >= 2 * (7000 * D))
  BY <1>2, <1>3
<1>5. ~(Rounded(N, D) >= 7000)
  BY <1>2, <1>4, RoundedIs
<1> QED BY <1>5 DEF Worth, N, D

(* PassIsEarned to the precision of the reward, for every t_max.           *)
PassIsNearlyEarned ==
  Passed =>
    /\ remediation_applied
    /\ \A i \in CallsOf(MutationTools) :
          InFirstHalf(call_history[i].at + Settle)
    /\ telemetry_calls > 0 \/ RcaScore > 0

LEMMA PassNearlyEarned == TypeOK /\ TrailIsPast => PassIsNearlyEarned
<1> SUFFICES ASSUME TypeOK, TrailIsPast, Passed
             PROVE  /\ remediation_applied
                    /\ \A i \in CallsOf(MutationTools) :
                          InFirstHalf(call_history[i].at + Settle)
                    /\ telemetry_calls > 0 \/ RcaScore > 0
  BY DEF PassIsNearlyEarned
<1>1. Worth(Ttm, EgrCredit.num, EgrCredit.den, RcaScore) >= 7000
  BY RewardIs DEF Passed
<1>2. Ttm \in 0..TMax
  BY TtmType
<1>3. remediation_applied /\ LastMutation + Settle <= Ttm
  BY TtmType DEF Passed
<1>4. /\ EgrCredit.num \in Nat /\ EgrCredit.den \in Nat \ {0}
      /\ EgrCredit.num <= EgrCredit.den
  BY CreditType
<1>5. RcaScore \in Nat /\ RcaScore <= 1000
  BY ScoreType
<1>6. InFirstHalf(Ttm)
  BY <1>1, <1>2, <1>4, <1>5, PassNeedsSpeed
<1>7. ASSUME NEW i \in CallsOf(MutationTools)
      PROVE  InFirstHalf(call_history[i].at + Settle)
  <2>1. call_history[i].at \in MutationTimes
    BY DEF MutationTimes
  <2>2. /\ call_history[i].at <= LastMutation
        /\ call_history[i].at \in Nat /\ LastMutation \in Nat
    BY <2>1, LastMutationIs DEF LastMutationIsLast
  <2> QED BY <1>2, <1>6, <1>3, <2>2, TimeAssumption DEF InFirstHalf
<1>8. telemetry_calls > 0 \/ RcaScore > 0
  <2>1. telemetry_calls \in Nat
    BY CallsFinite DEF telemetry_calls
  <2> SUFFICES ASSUME telemetry_calls = 0, RcaScore = 0 PROVE FALSE
    BY <1>5, <2>1
  <2>2. EgrCredit.num = 0
    BY DEF EgrCredit
  <2> QED BY <1>1, <1>2, <1>4, <2>2, SpeedIsNotEnough
<1> QED BY <1>7, <1>8, <1>3

LEMMA PassEarned ==
  ASSUME TMax < 6000
  PROVE  TypeOK /\ TrailIsPast => PassIsEarned
<1> SUFFICES ASSUME TypeOK, TrailIsPast, Passed
             PROVE  /\ remediation_applied
                    /\ \A i \in CallsOf(MutationTools) :
                          2 * (call_history[i].at + Settle) <= TMax
                    /\ telemetry_calls > 0 \/ RcaScore > 0
  BY DEF PassIsEarned
<1>1. PassIsNearlyEarned
  BY PassNearlyEarned
<1>2. ASSUME NEW i \in CallsOf(MutationTools)
      PROVE  2 * (call_history[i].at + Settle) <= TMax
  <2>1. call_history[i].at \in Nat
    BY TimesAreNat DEF CallsOf
  <2>2. InFirstHalf(call_history[i].at + Settle)
    BY <1>1 DEF PassIsNearlyEarned
  <2> QED BY <2>1, <2>2, TimeAssumption DEF InFirstHalf
<1> QED BY <1>1, <1>2 DEF PassIsNearlyEarned

(* Nobody passes without a fix in the first half of the incident, nor on   *)
(* speed alone.  Half of t_max is exact for limits below 6000 units of     *)
(* time (t_max is 600 s); the rounding of the reward decides beyond that.  *)
THEOREM PassesAreEarned ==
  ASSUME TMax < 6000
  PROVE  Spec => []PassIsEarned
<1>1. TypeOK /\ TrailIsPast => PassIsEarned
  BY PassEarned
<1> QED BY <1>1, AlwaysPast, PTL
=============================================================================
