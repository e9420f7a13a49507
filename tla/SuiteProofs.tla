---------------------------- MODULE SuiteProofs ----------------------------
(***************************************************************************)
(* What Suite.tla promises for every plan, every latency, every live agent *)
(* and any number of episodes.                                             *)
(***************************************************************************)
EXTENDS Suite, EpisodeProofs, SequenceTheorems

----------------------------------------------------------------------------
(* The scripts.  k is the number of scenario-specific queries.             *)
Steps ==
  [tool : {"telemetry", "apply_hotfix"}]
    \cup [tool : {"restart_service"}, service : HealthyServices]
    \cup [tool : {"submit_structured_rca"},
          report : {NaiveReport} \cup {Catalogue[s] : s \in Scenarios}]
    \cup [tool : {"generate_post_mortem"}, score : {0, 1000}]

LEMMA SpecificIs ==
  ASSUME NEW s \in Scenarios
  PROVE  /\ Specific[s] \in Seq(Steps)
         /\ Len(Specific[s]) \in 0..2
         /\ \A i \in 1..Len(Specific[s]) : Specific[s][i] = Query
<1>1. Query \in Steps
  BY DEF Query, Steps
<1>2. <<>> \in Seq(Steps) /\ <<Query>> \in Seq(Steps) /\ <<Query, Query>> \in Seq(Steps)
  BY <1>1
<1>3. Specific[s] \in {<<>>, <<Query>>, <<Query, Query>>}
  BY DEF Specific, Scenarios, Catalogue
<1>4. CASE Specific[s] = <<>>
  BY <1>2, <1>4
<1>5. CASE Specific[s] = <<Query>>
  BY <1>2, <1>5
<1>6. CASE Specific[s] = <<Query, Query>>
  BY <1>2, <1>6
<1> QED BY <1>3, <1>4, <1>5, <1>6

LEMMA GlueThree ==
  ASSUME NEW S, NEW a \in Seq(S), NEW b \in Seq(S), NEW c \in Seq(S)
  PROVE  /\ a \o b \o c \in Seq(S)
         /\ Len(a \o b \o c) = Len(a) + Len(b) + Len(c)
         /\ \A i \in 1..Len(a) : (a \o b \o c)[i] = a[i]
         /\ \A i \in 1..Len(b) : (a \o b \o c)[Len(a) + i] = b[i]
         /\ \A i \in 1..Len(c) : (a \o b \o c)[Len(a) + Len(b) + i] = c[i]
<1>1. /\ a \o b \o c \in Seq(S)
      /\ Len(a \o b \o c) = Len(a) + Len(b) + Len(c)
  OBVIOUS
<1>2. \A i \in 1..Len(a) : (a \o b \o c)[i] = a[i]
  OBVIOUS
<1>3. \A i \in 1..Len(b) : (a \o b \o c)[Len(a) + i] = b[i]
  OBVIOUS
<1>4. \A i \in 1..Len(c) : (a \o b \o c)[Len(a) + Len(b) + i] = c[i]
  OBVIOUS
<1> QED BY <1>1, <1>2, <1>3, <1>4

(* The expert: at least four queries, then the hotfix, one more query and  *)
(* the two reports.                                                        *)
Extra(s) == Len(Specific[s])

LEMMA ExpertScriptIs ==
  ASSUME NEW s \in Scenarios
  PROVE  /\ ExpertScript(s) \in Seq(Steps)
         /\ Extra(s) \in 0..2
         /\ Len(ExpertScript(s)) = Extra(s) + 8
         /\ \A i \in 1..Extra(s) + 4 : ExpertScript(s)[i] = Query
         /\ ExpertScript(s)[Extra(s) + 5] = Hotfix
         /\ ExpertScript(s)[Extra(s) + 6] = Query
         /\ ExpertScript(s)[Extra(s) + 7] = Rca(Catalogue[s])
         /\ ExpertScript(s)[Extra(s) + 8] = PostMortem(1000)
<1> DEFINE k == Extra(s)
<1>1. /\ Query \in Steps /\ Hotfix \in Steps
      /\ Rca(Catalogue[s]) \in Steps /\ PostMortem(1000) \in Steps
  BY DEF Query, Hotfix, Rca, PostMortem, Steps
<1>2. /\ Specific[s] \in Seq(Steps) /\ k \in 0..2
      /\ k = Len(Specific[s])
      /\ \A i \in 1..k : Specific[s][i] = Query
  BY SpecificIs DEF Extra
<1> HIDE DEF k
<1> DEFINE A == <<Query, Query, Query>>
           B == Specific[s]
           C == <<Query, Hotfix, Query, Rca(Catalogue[s]), PostMortem(1000)>>
<1>3. A \in Seq(Steps) /\ Len(A) = 3 /\ \A i \in 1..3 : A[i] = Query
  BY <1>1
<1>4. /\ C \in Seq(Steps) /\ Len(C) = 5
      /\ C[1] = Query /\ C[2] = Hotfix /\ C[3] = Query
      /\ C[4] = Rca(Catalogue[s]) /\ C[5] = PostMortem(1000)
  BY <1>1
<1>5. ExpertScript(s) = A \o B \o C
  BY DEF ExpertScript
<1> HIDE DEF A, B, C
<1>6. B \in Seq(Steps) /\ Len(B) = k /\ \A i \in 1..k : B[i] = Query
  BY <1>2 DEF B
<1> DEFINE E == A \o B \o C
<1>7. A \in Seq(Steps) /\ B \in Seq(Steps) /\ C \in Seq(Steps)
  BY <1>3, <1>4, <1>6
<1>8. /\ E \in Seq(Steps)
      /\ Len(E) = Len(A) + Len(B) + Len(C)
      /\ \A i \in 1..Len(A) : E[i] = A[i]
      /\ \A i \in 1..Len(B) : E[Len(A) + i] = B[i]
      /\ \A i \in 1..Len(C) : E[Len(A) + Len(B) + i] = C[i]
  BY <1>7, GlueThree
<1> HIDE DEF E
<1>9. /\ Len(E) = k + 8
      /\ \A i \in 1..3 : E[i] = A[i]
      /\ \A i \in 1..k : E[3 + i] = B[i]
      /\ \A i \in 1..5 : E[3 + k + i] = C[i]
  BY <1>2, <1>3, <1>4, <1>6, <1>8
<1>10. /\ E[3 + k + 1] = Query /\ E[3 + k + 2] = Hotfix
       /\ E[3 + k + 3] = Query /\ E[3 + k + 4] = Rca(Catalogue[s])
       /\ E[3 + k + 5] = PostMortem(1000)
  BY <1>4, <1>9
<1>11. /\ 3 + k + 2 = k + 5 /\ 3 + k + 3 = k + 6
       /\ 3 + k + 4 = k + 7 /\ 3 + k + 5 = k + 8
  BY <1>2
<1>12. ASSUME NEW i \in 1..k + 4
       PROVE  E[i] = Query
  <2>1. CASE i <= 3
    <3>1. i \in 1..3
      BY <1>2, <2>1
    <3> QED BY <1>3, <1>9, <3>1
  <2>2. CASE i > 3 /\ i <= k + 3
    <3>1. i - 3 \in 1..k /\ 3 + (i - 3) = i
      BY <1>2, <2>2
    <3> QED BY <1>6, <1>9, <3>1
  <2>3. CASE i = k + 4
    <3>1. i = 3 + k + 1
      BY <1>2, <2>3
    <3> QED BY <1>10, <3>1
  <2> QED BY <1>2, <2>1, <2>2, <2>3
<1>13. E = ExpertScript(s)
  BY <1>5 DEF E
<1> QED BY <1>2, <1>8, <1>9, <1>10, <1>11, <1>12, <1>13 DEF k

LEMMA NaiveScriptIs ==
  /\ NaiveScript \in Seq(Steps)
  /\ Len(NaiveScript) = 5
  /\ NaiveScript[1] = Restart("redis-state")
<1>1. /\ Restart("redis-state") \in Steps /\ Restart("prometheus") \in Steps
      /\ Hotfix \in Steps /\ Rca(NaiveReport) \in Steps /\ PostMortem(0) \in Steps
  BY DeploymentAssumption DEF Restart, Hotfix, Rca, PostMortem, Steps
<1> QED BY <1>1 DEF NaiveScript

----------------------------------------------------------------------------
(* The steps of the process, by what they do to the episode: a new         *)
(* environment, a latency, or one call within the bound on the trail.      *)
ResultTypes ==
  [agent : Agents, scenario : Scenarios, reward : 0..10000, passed : BOOLEAN,
   steps : Seq(Nat)]

(* A call that has had its latency is one there is room for, and a suite   *)
(* under way has not returned.                                             *)
SuiteTypes ==
  /\ TypeOK /\ TrailIsPast
  /\ phase \in {"idle", "suite", "task"}
  /\ agent \in Agents
  /\ todo \in Seq(Scenarios)
  /\ Solving => todo # <<>>
  /\ answered \in BOOLEAN
  /\ answered => Solving /\ MoreCalls
  /\ returned \in BOOLEAN
  /\ phase = "suite" => ~returned
  /\ trajectories \in Seq(ResultTypes)
  /\ reports \in Seq(ResultTypes)
  /\ harbor \in ResultTypes \cup {NoResult}

LEMMA SuiteCases ==
  ASSUME [SuiteNext]_suiteVars
  PROVE  \/ \E a \in Agents, plan \in Plans : StartSuite(a, plan)
         \/ \E a \in Agents, plan \in Plans : StartTask(a, Head(plan))
         \/ Latency
         \/ CallTool
         \/ EndEpisode
         \/ EndTask
         \/ AgentRaises
         \/ UNCHANGED suiteVars
BY DEF SuiteNext

LEMMA PlanIs ==
  ASSUME NEW plan \in Plans
  PROVE  plan \in Seq(Scenarios) /\ plan # <<>> /\ Head(plan) \in Scenarios
<1>1. plan \in Seq(Scenarios) /\ plan # <<>>
  BY PlansAssumption
<1> QED BY <1>1, HeadTailProperties

LEMMA NewEnvironmentIs ==
  ASSUME NewEnvironment
  PROVE  Init' /\ TypeOK' /\ TrailIsPast' /\ BSafe' /\ call_history' = <<>>
<1>1. Init'
  BY DEF NewEnvironment, Init
<1>2. (Init => TypeOK)'
  BY InitTypeOK, PTL
<1>3. call_history' = <<>>
  BY DEF NewEnvironment
<1>4. TrailIsPast'
  BY <1>3 DEF TrailIsPast
<1>5. BSafe'
  BY ServicesAssumption DEF BSafe, NewEnvironment
<1> QED BY <1>1, <1>2, <1>3, <1>4, <1>5

LEMMA ScriptIs ==
  ASSUME SuiteTypes, Solving
  PROVE  Scenario \in Scenarios /\ Script \in Seq(Steps) /\ Len(Script) <= 10
<1>1. Scenario \in Scenarios
  BY HeadTailProperties DEF SuiteTypes, Scenario
<1>2. CASE agent = "expert"
  <2>1. /\ ExpertScript(Scenario) \in Seq(Steps)
        /\ Extra(Scenario) \in 0..2
        /\ Len(ExpertScript(Scenario)) = Extra(Scenario) + 8
    BY <1>1, ExpertScriptIs
  <2>2. Script = ExpertScript(Scenario)
    BY <1>2 DEF Script
  <2> QED BY <1>1, <2>1, <2>2
<1>3. CASE agent # "expert"
  <2>1. Script = NaiveScript
    BY <1>3 DEF Script
  <2>2. NaiveScript \in Seq(Steps) /\ Len(NaiveScript) = 5
    BY NaiveScriptIs
  <2> QED BY <1>1, <2>1, <2>2
<1> QED BY <1>2, <1>3

(* What a step of a script does is a call any agent could make.            *)
LEMMA PerformIsCall ==
  ASSUME NEW step \in Steps, Perform(step)
  PROVE  AnyCall
<1>1. CASE step.tool = "telemetry" /\ Diagnose
  BY <1>1 DEF AnyCall
<1>2. CASE step.tool = "apply_hotfix" /\ apply_hotfix("api-gateway")
  BY <1>2, DeploymentAssumption DEF AnyCall, Mutate
<1>3. CASE step.tool = "restart_service" /\ restart_service(step.service)
  <2>1. step.service \in HealthyServices
    BY <1>3 DEF Steps
  <2>2. step.service \in Services
    BY <2>1, ServicesAssumption
  <2> QED BY <1>3, <2>2 DEF AnyCall, Mutate
<1>4. CASE /\ step.tool = "submit_structured_rca"
           /\ submit_structured_rca(RightFields(step.report))
  <2>1. RightFields(step.report) \in SUBSET RcaFields
    BY DEF RightFields
  <2> QED BY <1>4, <2>1 DEF AnyCall
<1>5. CASE /\ step.tool = "generate_post_mortem"
           /\ generate_post_mortem(step.score)
  <2>1. step.score \in {0, 1000}
    BY <1>5 DEF Steps
  <2> QED BY <1>5, <2>1 DEF AnyCall
<1> QED BY <1>1, <1>2, <1>3, <1>4, <1>5 DEF Perform

LEMMA CallIsAnyCall ==
  ASSUME SuiteTypes, CallTool
  PROVE  AnyCall /\ UNCHANGED clock /\ Len(call_history) < MaxCalls
<1>1. Solving /\ MoreCalls /\ Len(call_history) \in Nat
  BY DEF CallTool, SuiteTypes, TypeOK
<1>2. AnyCall
  <2>1. CASE agent = "live"
    BY <2>1, RcaAssumption DEF CallTool, AnyCall, Report
  <2>2. CASE agent # "live"
    <3>1. Position \in 1..Len(Script)
      BY <1>1, <2>2, ScriptIs, LenProperties DEF MoreCalls, Position
    <3>2. Script[Position] \in Steps
      BY <1>1, <3>1, ScriptIs, ElementOfSeq
    <3>3. Perform(Script[Position])
      BY <2>2 DEF CallTool
    <3> QED BY <3>2, <3>3, PerformIsCall
  <2> QED BY <2>1, <2>2
<1>3. UNCHANGED clock
  BY <1>2 DEF AnyCall, Mutate, Diagnose, apply_hotfix, apply_runtime_config,
              restart_service, submit_structured_rca, generate_post_mortem
<1>4. Len(call_history) < MaxCalls
  BY <1>1, ScriptIs, LenProperties, SuiteAssumption, TimeAssumption
     DEF MoreCalls, Position
<1> QED BY <1>2, <1>3, <1>4

LEMMA StepRewardType ==
  ASSUME TypeOK, TrailIsPast, NEW t
  PROVE  StepReward(t) \in Nat
<1>1. Reward \in Nat
  BY RewardType
<1>2. Rounded(8 * Reward, 100) \in Nat /\ Rounded(Reward, 10) \in Nat
  BY <1>1, RoundedIs
<1> QED BY <1>2 DEF StepReward

LEMMA ResultType ==
  ASSUME SuiteTypes, Solving
  PROVE  Result \in ResultTypes
<1>1. Reward \in 0..10000 /\ Passed \in BOOLEAN
  BY RewardRange DEF SuiteTypes, Passed
<1>2. agent \in Agents /\ Scenario \in Scenarios
  BY ScriptIs DEF SuiteTypes
<1> DEFINE n == Len(call_history)
           steps == [i \in 1..n |-> StepReward(call_history[i].tool)]
<1>3. n \in Nat
  BY DEF SuiteTypes, TypeOK
<1> HIDE DEF n
<1>4. steps \in [1..n -> Nat]
  BY StepRewardType DEF SuiteTypes
<1> HIDE DEF steps
<1>5. steps \in Seq(Nat)
  BY <1>3, <1>4, SeqDef
<1> QED BY <1>1, <1>2, <1>5 DEF Result, ResultTypes, steps, n

LEMMA SuiteInitTypes == SuiteInit => SuiteTypes
<1> SUFFICES ASSUME SuiteInit PROVE SuiteTypes
  OBVIOUS
<1>1. TypeOK /\ TrailIsPast
  BY InitTypeOK DEF SuiteInit, Init, TrailIsPast
<1>2. <<>> \in Seq(ResultTypes) /\ <<>> \in Seq(Scenarios)
  OBVIOUS
<1>3. harbor \in ResultTypes \cup {NoResult} /\ agent \in Agents
  BY DEF SuiteInit, Agents
<1>4. /\ phase = "idle" /\ todo = <<>> /\ answered = FALSE
      /\ reports = <<>> /\ returned = FALSE /\ trajectories = <<>>
  BY DEF SuiteInit
<1> QED BY <1>1, <1>2, <1>3, <1>4 DEF SuiteTypes, Solving

(* The episode keeps its types, whatever the step.                         *)
LEMMA EpisodeKept ==
  ASSUME SuiteTypes, [SuiteNext]_suiteVars
  PROVE  TypeOK' /\ TrailIsPast'
<1>1. ASSUME NewEnvironment PROVE TypeOK' /\ TrailIsPast'
  BY <1>1, NewEnvironmentIs
<1>2. CASE Latency
  <2>1. PICK d \in Latencies : clock + d <= MaxClock /\ clock' = clock + d
    BY <1>2 DEF Latency
  <2>2. clock' \in 0..MaxClock /\ clock' >= clock
    BY <2>1, SuiteAssumption, TimeAssumption DEF SuiteTypes, TypeOK
  <2>3. TypeOK'
    BY <1>2, <2>2 DEF Latency, SuiteTypes, TypeOK, artifacts
  <2>4. TrailIsPast'
    BY <1>2, <2>2, LaterPast, TimeAssumption DEF Latency, SuiteTypes
  <2> QED BY <2>3, <2>4
<1>3. CASE CallTool
  BY <1>3, CallIsAnyCall, AnyCallType, AnyCallPast DEF SuiteTypes
<1>4. CASE UNCHANGED suiteVars
  BY <1>4 DEF suiteVars, vars, SuiteTypes, TypeOK, TrailIsPast
<1> QED BY SuiteCases, <1>1, <1>2, <1>3, <1>4
        DEF StartSuite, StartTask, EndEpisode, EndTask, AgentRaises

LEMMA SuiteStepTypes == SuiteTypes /\ [SuiteNext]_suiteVars => SuiteTypes'
<1> SUFFICES ASSUME SuiteTypes, [SuiteNext]_suiteVars PROVE SuiteTypes'
  OBVIOUS
<1> USE DEF SuiteTypes, Solving
<1>1. TypeOK' /\ TrailIsPast'
  BY EpisodeKept
<1>2. ASSUME NEW a \in Agents, NEW plan \in Plans, StartSuite(a, plan)
      PROVE  SuiteTypes'
  <2>1. /\ phase' = "suite" /\ agent' \in Agents /\ answered' = FALSE
        /\ returned' = FALSE /\ harbor' = NoResult
    BY <1>2 DEF StartSuite
  <2>2. todo' \in Seq(Scenarios) /\ todo' # <<>>
    BY <1>2, PlanIs DEF StartSuite
  <2>3. trajectories' \in Seq(ResultTypes) /\ reports' \in Seq(ResultTypes)
    BY <1>2 DEF StartSuite
  <2> QED BY <1>1, <2>1, <2>2, <2>3
<1>3. ASSUME NEW a \in Agents, NEW plan \in Plans, StartTask(a, Head(plan))
      PROVE  SuiteTypes'
  BY <1>1, <1>3, PlanIs DEF StartTask
<1>4. CASE Latency
  <2>1. MoreCalls'
    BY <1>4 DEF Latency, runner, MoreCalls, Position, Script, Scenario
  <2> QED BY <1>1, <1>4, <2>1 DEF Latency, runner
<1>5. CASE CallTool
  BY <1>1, <1>5 DEF CallTool, runner
<1>6. CASE EndEpisode
  <2>1. Result \in ResultTypes
    BY <1>6, ResultType DEF EndEpisode, Solved
  <2>2. /\ trajectories' \in Seq(ResultTypes)
        /\ reports' \in Seq(ResultTypes)
    BY <1>6, <2>1, AppendProperties DEF EndEpisode
  <2>3. todo' \in Seq(Scenarios) /\ todo # <<>>
    BY <1>6, HeadTailProperties DEF EndEpisode
  <2>4. phase' # "idle" => todo' # <<>>
    <3>1. phase' # "idle" => Len(todo) # 1
      BY <1>6 DEF EndEpisode, EndOfSuite, LastScenario
    <3>2. Len(todo') = Len(todo) - 1 /\ Len(todo) \in Nat
      BY <1>6, <2>3, HeadTailProperties, LenProperties DEF EndEpisode
    <3>3. todo' = <<>> => Len(todo') = 0
      OBVIOUS
    <3> QED BY <3>1, <3>2, <3>3
  <2>5. /\ phase' \in {"idle", "suite", "task"} /\ returned' \in BOOLEAN
        /\ phase' = "suite" => ~returned'
    <3>1. CASE ~LastScenario
      BY <1>6, <3>1 DEF EndEpisode
    <3>2. CASE LastScenario
      BY <1>6, <3>2 DEF EndEpisode, EndOfSuite
    <3> QED BY <3>1, <3>2
  <2> QED BY <1>1, <1>6, <2>2, <2>3, <2>4, <2>5 DEF EndEpisode, Solved
<1>7. CASE EndTask
  <2>1. Result \in ResultTypes
    BY <1>7, ResultType DEF EndTask, Solved
  <2> QED BY <1>1, <1>7, <2>1 DEF EndTask, Solved
<1>8. CASE AgentRaises
  <2>1. phase' = "idle" /\ answered' = FALSE /\ reports' = <<>>
    BY <1>8 DEF AgentRaises
  <2>2. <<>> \in Seq(ResultTypes)
    OBVIOUS
  <2>3. UNCHANGED <<agent, todo, returned, trajectories, harbor>>
    BY <1>8 DEF AgentRaises
  <2> QED BY <1>1, <2>1, <2>2, <2>3
<1>9. CASE UNCHANGED suiteVars
  BY <1>1, <1>9
     DEF suiteVars, vars, runner, MoreCalls, Position, Script, Scenario
<1> QED
  BY SuiteCases, <1>2, <1>3, <1>4, <1>5, <1>6, <1>7, <1>8, <1>9

LEMMA AlwaysTyped == SuiteSpec => []SuiteTypes
BY SuiteInitTypes, SuiteStepTypes, PTL DEF SuiteSpec

(* Every variable of the process keeps its type, and every result it keeps *)
(* is a legal verdict.                                                     *)
THEOREM SuiteTypesHold == SuiteSpec => []SuiteTypeOK
<1>1. SuiteTypes => SuiteTypeOK
  <2> SUFFICES ASSUME SuiteTypes PROVE SuiteTypeOK
    OBVIOUS
  <2>1. ASSUME NEW r \in Results PROVE IsVerdict(r)
    <3>1. r \in ResultTypes
      BY LenProperties, ElementOfSeq DEF SuiteTypes, Results
    <3> QED BY <3>1 DEF ResultTypes, IsVerdict
  <2>2. TypeOK
    BY DEF SuiteTypes
  <2>3. phase \in {"idle", "suite", "task"}
    BY DEF SuiteTypes
  <2>4. agent \in Agents
    BY DEF SuiteTypes
  <2>5. todo \in Seq(Scenarios) /\ (phase = "suite" => todo # <<>>)
    BY DEF SuiteTypes, Solving
  <2>6. answered \in BOOLEAN /\ returned \in BOOLEAN
    BY DEF SuiteTypes
  <2> QED BY <2>1, <2>2, <2>3, <2>4, <2>5, <2>6 DEF SuiteTypeOK
<1> QED BY <1>1, AlwaysTyped, PTL

(* In every episode of every suite the counters and the flag the oracle    *)
(* reads are those of this episode's trail: nothing of an earlier episode  *)
(* is left in them.                                                        *)
THEOREM SuiteAuditTrailAgrees == SuiteSpec => []AuditAgrees
<1>1. SuiteInit => AuditAgrees
  BY InitAudit DEF SuiteInit
<1>2. SuiteTypes /\ AuditAgrees /\ [SuiteNext]_suiteVars => AuditAgrees'
  <2> SUFFICES ASSUME SuiteTypes, AuditAgrees, [SuiteNext]_suiteVars
               PROVE  AuditAgrees'
    OBVIOUS
  <2>1. ASSUME NewEnvironment PROVE AuditAgrees'
    <3>1. (Init => AuditAgrees)'
      BY InitAudit, PTL
    <3> QED BY <2>1, <3>1, NewEnvironmentIs
  <2>2. CASE CallTool
    BY <2>2, CallIsAnyCall, AnyCallAudit DEF SuiteTypes
  <2>3. CASE UNCHANGED <<call_history, service_restarts, remediation_applied>>
    BY <2>3, SameAudit
  <2> QED BY <2>1, <2>2, <2>3, SuiteCases
          DEF StartSuite, StartTask, Latency, EndEpisode, EndTask, AgentRaises,
              suiteVars, vars
<1> QED BY <1>1, <1>2, AlwaysTyped, PTL DEF SuiteSpec

(* No episode of any suite is passed but by an early fix and some          *)
(* diagnosis or understanding of its own.                                  *)
COROLLARY SuitePassesAreEarned ==
  ASSUME TMax < 6000
  PROVE  SuiteSpec => []PassIsEarned
<1>1. SuiteTypes => PassIsEarned
  BY PassEarned DEF SuiteTypes
<1> QED BY <1>1, AlwaysTyped, PTL

----------------------------------------------------------------------------
(* What is kept.  A sequence with one more element at its end has the same *)
(* beginning, and its ends are those of the sequence with that element.    *)
LEMMA AppendKeeps ==
  ASSUME NEW S, NEW s \in Seq(S), NEW e \in S
  PROVE  SubSeq(Append(s, e), 1, Len(s)) = s
<1> DEFINE t == Append(s, e)
           u == SubSeq(t, 1, Len(s))
<1>1. /\ t \in Seq(S) /\ Len(t) = Len(s) + 1 /\ Len(s) \in Nat
      /\ \A i \in 1..Len(s) : t[i] = s[i] /\ s[i] \in S
  BY AppendProperties, LenProperties, ElementOfSeq
<1> HIDE DEF t
<1>2. /\ u \in Seq(S)
      /\ Len(u) = IF 1 <= Len(s) THEN Len(s) - 1 + 1 ELSE 0
      /\ \A i \in 1..Len(s) - 1 + 1 : u[i] = t[1 + i - 1]
  BY <1>1, SubSeqProperties
<1> HIDE DEF u
<1>3. Len(u) = Len(s) /\ \A i \in 1..Len(s) : u[i] = s[i]
  BY <1>1, <1>2
<1> QED BY <1>2, <1>3, SeqEqual DEF u, t

LEMMA AppendToTheEnd ==
  ASSUME NEW S, NEW s \in Seq(S), NEW e \in S, NEW n \in 0..Len(s)
  PROVE  Append(SubSeq(s, n + 1, Len(s)), e)
           = SubSeq(Append(s, e), n + 1, Len(Append(s, e)))
<1> DEFINE l == Len(s)
           t == Append(s, e)
           u == SubSeq(s, n + 1, l)
           v == SubSeq(t, n + 1, l + 1)
           w == Append(u, e)
<1>1. /\ t \in Seq(S) /\ Len(t) = l + 1 /\ l \in Nat
      /\ \A i \in 1..l : t[i] = s[i] /\ s[i] \in S
      /\ t[l + 1] = e
  BY AppendProperties, LenProperties, ElementOfSeq
<1>2. \A i \in 1..l + 1 : t[i] \in S
  BY <1>1
<1> HIDE DEF t, l
<1>3. /\ u \in Seq(S)
      /\ Len(u) = IF n + 1 <= l THEN l - (n + 1) + 1 ELSE 0
      /\ \A i \in 1..l - (n + 1) + 1 : u[i] = s[n + 1 + i - 1]
  BY <1>1, SubSeqProperties DEF l
<1>4. /\ v \in Seq(S)
      /\ Len(v) = IF n + 1 <= l + 1 THEN l + 1 - (n + 1) + 1 ELSE 0
      /\ \A i \in 1..l + 1 - (n + 1) + 1 : v[i] = t[n + 1 + i - 1]
  BY <1>1, <1>2, SubSeqProperties DEF l
<1> HIDE DEF u, v
<1>5. n \in 0..l
  BY DEF l
<1>6. /\ w \in Seq(S) /\ Len(w) = l - n + 1
      /\ \A i \in 1..l - n : w[i] = u[i]
      /\ w[l - n + 1] = e
  <2>1. Len(u) = l - n
    BY <1>1, <1>3, <1>5
  <2>2. /\ w \in Seq(S) /\ Len(w) = Len(u) + 1
        /\ \A i \in 1..Len(u) : w[i] = u[i]
        /\ w[Len(u) + 1] = e
    BY <1>3, AppendProperties
  <2> HIDE DEF w
  <2> QED BY <2>1, <2>2
<1> HIDE DEF w
<1>7. Len(v) = l - n + 1
  BY <1>1, <1>4, <1>5
<1>8. ASSUME NEW i \in 1..l - n + 1
      PROVE  w[i] = v[i]
  <2>1. v[i] = t[n + i]
    BY <1>1, <1>4, <1>5
  <2>2. CASE i = l - n + 1
    <3>1. n + i = l + 1
      BY <1>1, <1>5, <2>2
    <3> QED BY <1>1, <1>6, <2>1, <2>2, <3>1
  <2>3. CASE i # l - n + 1
    <3>1. i \in 1..l - n /\ n + i \in 1..l /\ n + 1 + i - 1 = n + i
      BY <1>1, <1>5, <2>3
    <3>2. u[i] = s[n + i]
      BY <1>1, <1>3, <1>5, <3>1
    <3> QED BY <1>1, <1>6, <2>1, <3>1, <3>2
  <2> QED BY <2>2, <2>3
<1>9. w = v
  BY <1>4, <1>6, <1>7, <1>8, SeqEqual
<1> QED BY <1>1, <1>9 DEF w, v, u, l, t

(* The trajectories grow at their end only, an exception of the agent      *)
(* included.                                                               *)
THEOREM NothingIsForgotten == SuiteSpec => FinishedEpisodesStay
<1>1. ASSUME SuiteTypes, [SuiteNext]_suiteVars
      PROVE  /\ Len(trajectories') >= Len(trajectories)
             /\ SubSeq(trajectories', 1, Len(trajectories)) = trajectories
  <2>1. trajectories \in Seq(ResultTypes) /\ Len(trajectories) \in Nat
    BY <1>1 DEF SuiteTypes
  <2>2. CASE EndEpisode
    <3>1. Result \in ResultTypes
      BY <1>1, <2>2, ResultType DEF EndEpisode, Solved
    <3>2. trajectories' = Append(trajectories, Result)
      BY <2>2 DEF EndEpisode
    <3>3. Len(trajectories') = Len(trajectories) + 1
      BY <2>1, <3>1, <3>2, AppendProperties
    <3> QED BY <2>1, <3>1, <3>2, <3>3, AppendKeeps
  <2>3. CASE UNCHANGED trajectories
    BY <2>1, <2>3, SubSeqFull
  <2> QED BY <1>1, <2>2, <2>3, SuiteCases
          DEF StartSuite, StartTask, Latency, CallTool, EndTask, AgentRaises,
              suiteVars, runner
<1>2. SuiteTypes /\ [SuiteNext]_suiteVars
        => [/\ Len(trajectories') >= Len(trajectories)
            /\ SubSeq(trajectories', 1, Len(trajectories)) = trajectories]_suiteVars
  BY <1>1
<1> QED BY <1>2, AlwaysTyped, PTL DEF SuiteSpec, FinishedEpisodesStay

(* A suite's reports are the end of the runner's trajectories, and a suite *)
(* that returned exported them all: it returns with the last of them in    *)
(* the list, and after a failure there are no reports.                     *)
THEOREM ReportsAreTrajectories == SuiteSpec => []ReportsAgree
<1>1. SuiteInit => ReportsAgree
  <2> SUFFICES ASSUME SuiteInit PROVE ReportsAgree
    OBVIOUS
  <2>1. /\ trajectories = <<>> /\ reports = <<>> /\ returned = FALSE
    BY DEF SuiteInit
  <2>2. /\ Len(trajectories) = 0 /\ 0 \in 0..Len(trajectories)
        /\ reports = SubSeq(trajectories, 0 + 1, Len(trajectories))
    BY <2>1, SubSeqEmpty
  <2> QED BY <2>1, <2>2 DEF ReportsAgree
<1>2. SuiteTypes /\ ReportsAgree /\ [SuiteNext]_suiteVars => ReportsAgree'
  <2> SUFFICES ASSUME SuiteTypes, ReportsAgree, [SuiteNext]_suiteVars
               PROVE  ReportsAgree'
    OBVIOUS
  <2>1. /\ trajectories \in Seq(ResultTypes) /\ Len(trajectories) \in Nat
        /\ phase = "suite" => ~returned
    BY DEF SuiteTypes
  <2>2. ASSUME reports' = <<>>, UNCHANGED trajectories,
               returned' => returned /\ UNCHANGED exported
        PROVE  ReportsAgree'
    <3> DEFINE n == Len(trajectories)
    <3>1. n \in 0..n /\ SubSeq(trajectories, n + 1, n) = <<>>
      BY <2>1, SubSeqEmpty
    <3> QED BY <2>2, <3>1 DEF ReportsAgree
  <2>3. CASE EndEpisode
    <3>1. Result \in ResultTypes
      BY <2>3, ResultType DEF EndEpisode, Solved
    <3>2. /\ trajectories' = Append(trajectories, Result)
          /\ reports' = Append(reports, Result)
      BY <2>3 DEF EndEpisode
    <3>3. PICK n \in 0..Len(trajectories) :
             reports = SubSeq(trajectories, n + 1, Len(trajectories))
      BY DEF ReportsAgree
    <3>4. reports' = SubSeq(trajectories', n + 1, Len(trajectories'))
      BY <2>1, <3>1, <3>2, <3>3, AppendToTheEnd
    <3>5. n \in 0..Len(trajectories')
      BY <2>1, <3>1, <3>2, AppendProperties
    <3>6. returned' => exported' = trajectories'
      BY <2>1, <2>3 DEF EndEpisode, EndOfSuite
    <3> QED BY <3>4, <3>5, <3>6 DEF ReportsAgree
  <2>4. CASE UNCHANGED <<reports, returned, trajectories, exported>>
    BY <2>4 DEF ReportsAgree
  <2> QED BY <2>2, <2>3, <2>4, SuiteCases
          DEF StartSuite, StartTask, Latency, CallTool, EndTask, AgentRaises,
              suiteVars, runner
<1> QED BY <1>1, <1>2, AlwaysTyped, PTL DEF SuiteSpec

----------------------------------------------------------------------------
(* A result that was not kept before is that of the episode now over.      *)
LEMMA ResultsGrow ==
  ASSUME SuiteTypes, [SuiteNext]_suiteVars, NEW r \in Results'
  PROVE  r \in Results \/ (Solved /\ r = Result)
<1>1. trajectories \in Seq(ResultTypes)
  BY DEF SuiteTypes
<1>2. CASE EndEpisode
  <2>1. Result \in ResultTypes /\ Solved /\ harbor' = harbor
    BY <1>2, ResultType DEF EndEpisode, Solved
  <2>2. trajectories' = Append(trajectories, Result)
    BY <1>2 DEF EndEpisode
  <2>3. DOMAIN trajectories = 1..Len(trajectories) /\ Len(trajectories) \in Nat
    BY <1>1, LenProperties
  <2>4. DOMAIN trajectories' = 1..Len(trajectories) + 1
    BY <1>1, <2>1, <2>2, AppendProperties, LenProperties
  <2>5. ASSUME NEW i \in DOMAIN trajectories'
        PROVE  \/ i \in DOMAIN trajectories /\ trajectories'[i] = trajectories[i]
               \/ trajectories'[i] = Result
    BY <1>1, <2>1, <2>2, <2>3, <2>4, AppendProperties
  <2> QED BY <2>1, <2>5 DEF Results
<1>3. CASE EndTask
  BY <1>3 DEF EndTask, Results
<1>4. CASE UNCHANGED trajectories /\ (harbor' = NoResult \/ UNCHANGED harbor)
  BY <1>4 DEF Results
<1> QED BY <1>2, <1>3, <1>4, SuiteCases
        DEF StartSuite, StartTask, Latency, CallTool, AgentRaises, suiteVars,
            runner

(* The naive agent restarts a healthy service first of all, so whatever it *)
(* does later is done after a breach.                                      *)
NaiveHasBroken == agent = "naive" /\ call_history # <<>> => ~BSafe

LEMMA NaiveStep ==
  SuiteTypes /\ NaiveHasBroken /\ [SuiteNext]_suiteVars => NaiveHasBroken'
<1> SUFFICES ASSUME SuiteTypes, NaiveHasBroken, [SuiteNext]_suiteVars
             PROVE  NaiveHasBroken'
  OBVIOUS
<1>1. ASSUME NewEnvironment PROVE NaiveHasBroken'
  BY <1>1, NewEnvironmentIs DEF NaiveHasBroken
<1>2. CASE CallTool
  <2> SUFFICES ASSUME agent = "naive" PROVE ~BSafe'
    BY <1>2 DEF CallTool, runner, NaiveHasBroken
  <2>1. CASE call_history = <<>>
    <3>1. Position = 1 /\ Script = NaiveScript
      BY <2>1 DEF Position, Script
    <3>2. Perform(Restart("redis-state"))
      BY <1>2, <3>1, NaiveScriptIs DEF CallTool
    <3>3. restart_service("redis-state")
      BY <3>2 DEF Perform, Restart
    <3>4. /\ "redis-state" \in HealthyServices /\ "redis-state" \in Services
      BY DeploymentAssumption, ServicesAssumption
    <3>5. service_restarts'["redis-state"] # 0
      BY <3>3, <3>4 DEF restart_service, SuiteTypes, TypeOK
    <3> QED BY <3>4, <3>5 DEF BSafe
  <2>2. CASE call_history # <<>>
    BY <1>2, <2>2, CallIsAnyCall, AnyCallBreach DEF NaiveHasBroken, SuiteTypes
  <2> QED BY <2>1, <2>2
<1>3. CASE UNCHANGED <<agent, call_history, service_restarts>>
  BY <1>3 DEF NaiveHasBroken, BSafe
<1> QED BY <1>1, <1>2, <1>3, SuiteCases
        DEF StartSuite, StartTask, Latency, EndEpisode, EndTask, AgentRaises,
            suiteVars, vars, runner

LEMMA NaiveResult ==
  ASSUME SuiteTypes, NaiveHasBroken, Solved, agent = "naive"
  PROVE  /\ Result.agent = "naive" /\ ~Result.passed /\ Result.reward = 0
         /\ \A i \in DOMAIN Result.steps : Result.steps[i] = 0
<1>1. Script = NaiveScript /\ ~MoreCalls
  BY DEF Solved, Script
<1>2. call_history # <<>>
  <2>1. call_history = <<>> => Position = 1
    BY DEF Position
  <2>2. ~(1 <= Len(Script)) => FALSE
    BY <1>1, NaiveScriptIs
  <2> QED BY <1>1, <2>1, <2>2 DEF MoreCalls
<1>3. ~BSafe
  BY <1>2 DEF NaiveHasBroken
<1>4. Reward = 0 /\ ~Passed
  BY <1>3 DEF Reward, Passed
<1>5. ASSUME NEW t
      PROVE  StepReward(t) = 0
  <2>1. Rounded(8 * 0, 100) = 0 /\ Rounded(0, 10) = 0
    BY DEF Rounded
  <2> QED BY <1>4, <2>1 DEF StepReward
<1> QED BY <1>4, <1>5 DEF Result

(* The naive agent gains nothing, in any scenario of any plan, whoever ran *)
(* before it in the same process.                                          *)
THEOREM NaiveGainsNothing == SuiteSpec => []NaiveEarnsNothing
<1>1. SuiteInit => NaiveHasBroken /\ NaiveEarnsNothing
  BY DEF SuiteInit, NaiveHasBroken, NaiveEarnsNothing, Results
<1>2. SuiteTypes /\ NaiveHasBroken /\ NaiveEarnsNothing /\ [SuiteNext]_suiteVars
        => NaiveEarnsNothing'
  BY ResultsGrow, NaiveResult DEF NaiveEarnsNothing, Result
<1> QED BY <1>1, <1>2, NaiveStep, AlwaysTyped, PTL DEF SuiteSpec

----------------------------------------------------------------------------
(* The expert.  Where it is in its script is what its trail says, and each *)
(* of its calls was made within five seconds per call.                     *)
LEMMA ExpertTools ==
  ASSUME NEW s \in Scenarios, NEW i \in 1..Extra(s) + 8
  PROVE  ExpertScript(s)[i].tool =
           IF i = Extra(s) + 5 THEN "apply_hotfix"
           ELSE IF i = Extra(s) + 7 THEN "submit_structured_rca"
           ELSE IF i = Extra(s) + 8 THEN "generate_post_mortem"
           ELSE "telemetry"
<1> DEFINE k == Extra(s)
<1>1. k \in 0..2
  BY ExpertScriptIs
<1>2. /\ \A j \in 1..k + 4 : ExpertScript(s)[j] = Query
      /\ ExpertScript(s)[k + 5] = Hotfix /\ ExpertScript(s)[k + 6] = Query
      /\ ExpertScript(s)[k + 7] = Rca(Catalogue[s])
      /\ ExpertScript(s)[k + 8] = PostMortem(1000)
  BY ExpertScriptIs
<1>3. /\ Query.tool = "telemetry" /\ Hotfix.tool = "apply_hotfix"
      /\ Rca(Catalogue[s]).tool = "submit_structured_rca"
      /\ PostMortem(1000).tool = "generate_post_mortem"
  BY DEF Query, Hotfix, Rca, PostMortem
<1> HIDE DEF k
<1>4. \/ i \in 1..k + 4
      \/ i = k + 5 \/ i = k + 6 \/ i = k + 7 \/ i = k + 8
  BY <1>1 DEF k
<1>5. CASE i \in 1..k + 4
  BY <1>1, <1>2, <1>3, <1>5 DEF k
<1>6. CASE i = k + 5 \/ i = k + 6 \/ i = k + 7 \/ i = k + 8
  BY <1>1, <1>2, <1>3, <1>6 DEF k
<1> QED BY <1>4, <1>5, <1>6

Asked == IF answered THEN 1 ELSE 0

ExpertFollows ==
  agent = "expert" /\ Solving =>
    /\ BSafe
    /\ Len(call_history) <= Extra(Scenario) + 8
    /\ clock <= 5 * (Len(call_history) + Asked)
    /\ \A i \in 1..Len(call_history) :
          /\ call_history[i].tool = ExpertScript(Scenario)[i].tool
          /\ call_history[i].at <= 5 * i
    /\ remediation_applied <=> Len(call_history) >= Extra(Scenario) + 5
    /\ Len(call_history) >= Extra(Scenario) + 7 =>
          structured_rca = [by |-> "rca", right |-> RcaFields]

LEMMA FreshFollows ==
  ASSUME SuiteTypes', NewEnvironment
  PROVE  ExpertFollows'
<1> SUFFICES ASSUME Solving' PROVE ExpertFollows'
  BY DEF ExpertFollows
<1>1. Scenario' \in Scenarios
  BY HeadTailProperties DEF SuiteTypes, Scenario
<1>2. Extra(Scenario') \in 0..2
  BY <1>1, ExpertScriptIs
<1>3. BSafe' /\ Len(call_history') = 0
  BY NewEnvironmentIs
<1>4. clock' = 0 /\ remediation_applied' = FALSE
  BY DEF NewEnvironment
<1>5. Asked' = 0 \/ Asked' = 1
  BY DEF Asked
<1>6. clock' <= 5 * (Len(call_history') + Asked')
  <2>1. Len(call_history') = 0
    BY <1>3
  <2>2. CASE Asked' = 0
    BY <1>4, <2>1, <2>2
  <2>3. CASE Asked' = 1
    BY <1>4, <2>1, <2>3
  <2> QED BY <1>5, <2>2, <2>3
<1>7. ~(Len(call_history') >= Extra(Scenario') + 5)
      /\ ~(Len(call_history') >= Extra(Scenario') + 7)
      /\ Len(call_history') <= Extra(Scenario') + 8
  BY <1>2, <1>3
<1>8. \A i \in 1..Len(call_history') : FALSE
  BY <1>3
<1> QED BY <1>3, <1>4, <1>6, <1>7, <1>8 DEF ExpertFollows

(* What the calls of the expert change beside the trail.                   *)
LEMMA ExpertCalls ==
  ASSUME TypeOK, NEW s \in Scenarios, s = Scenario,
         NEW i \in 1..Extra(s) + 8, Perform(ExpertScript(s)[i])
  PROVE  /\ \E t \in Services \cup {NoService} :
               record_call(ExpertScript(s)[i].tool, t)
         /\ ExpertScript(s)[i].tool \in Tools
         /\ UNCHANGED <<clock, service_restarts>>
         /\ remediation_applied' <=> (remediation_applied \/ i = Extra(s) + 5)
         /\ structured_rca' = IF i = Extra(s) + 7
                                THEN [by |-> "rca", right |-> RcaFields]
                                ELSE structured_rca
<1> DEFINE k == Extra(s)
           step == ExpertScript(s)[i]
<1>1. k \in 0..2
  BY ExpertScriptIs
<1>2. step.tool = IF i = k + 5 THEN "apply_hotfix"
                  ELSE IF i = k + 7 THEN "submit_structured_rca"
                  ELSE IF i = k + 8 THEN "generate_post_mortem"
                  ELSE "telemetry"
  BY ExpertTools
<1>3. i = k + 7 => step.report = Catalogue[s]
  <2>1. ExpertScript(s)[k + 7] = Rca(Catalogue[s])
    BY ExpertScriptIs
  <2>2. Rca(Catalogue[s]).report = Catalogue[s]
    BY DEF Rca
  <2> QED BY <2>1, <2>2
<1> HIDE DEF k, step
<1>4. RightFields(Catalogue[s]) = RcaFields
  BY DEF RightFields
<1>5. NoService \in Services \cup {NoService}
      /\ "api-gateway" \in Services \cup {NoService}
  BY DeploymentAssumption
<1>6. Perform(step)
  BY DEF step
<1>7. CASE i = k + 5
  <2>1. step.tool = "apply_hotfix" /\ i # k + 7
    BY <1>1, <1>2, <1>7
  <2>2. apply_hotfix("api-gateway")
    BY <1>6, <2>1 DEF Perform
  <2> QED BY <1>5, <1>7, <2>1, <2>2
          DEF apply_hotfix, artifacts, step, k, Tools
<1>8. CASE i = k + 7
  <2>1. step.tool = "submit_structured_rca" /\ i # k + 5
    BY <1>1, <1>2, <1>8
  <2>2. submit_structured_rca(RcaFields)
    BY <1>3, <1>4, <1>6, <1>8, <2>1 DEF Perform
  <2> QED BY <1>5, <1>8, <2>1, <2>2
          DEF submit_structured_rca, step, k, Tools
<1>9. CASE i = k + 8
  <2>1. step.tool = "generate_post_mortem" /\ i # k + 5 /\ i # k + 7
    BY <1>1, <1>2, <1>9
  <2>2. generate_post_mortem(step.score)
    BY <1>6, <2>1 DEF Perform
  <2> QED BY <1>5, <2>1, <2>2
          DEF generate_post_mortem, step, k, Tools
<1>10. CASE i # k + 5 /\ i # k + 7 /\ i # k + 8
  <2>1. step.tool = "telemetry"
    BY <1>2, <1>10
  <2>2. Diagnose
    BY <1>6, <2>1 DEF Perform
  <2> QED BY <1>5, <1>10, <2>1, <2>2
          DEF Diagnose, artifacts, step, k, Tools
<1> QED BY <1>7, <1>8, <1>9, <1>10

LEMMA ExpertStep ==
  ASSUME Latencies \subseteq 0..5
  PROVE  SuiteTypes /\ ExpertFollows /\ [SuiteNext]_suiteVars => ExpertFollows'
<1> SUFFICES ASSUME SuiteTypes, ExpertFollows, [SuiteNext]_suiteVars
             PROVE  ExpertFollows'
  OBVIOUS
<1>1. ASSUME NewEnvironment PROVE ExpertFollows'
  BY <1>1, SuiteStepTypes, FreshFollows
<1> DEFINE k == Extra(Scenario)
           n == Len(call_history)
<1>2. /\ TypeOK /\ n \in Nat /\ clock \in Nat
      /\ answered \in BOOLEAN
  BY TimeAssumption DEF SuiteTypes, TypeOK
<1>3. CASE Latency
  <2> SUFFICES ASSUME agent = "expert", Solving
               PROVE  ExpertFollows'
    BY <1>3 DEF Latency, runner, ExpertFollows, Solving
  <2>1. UNCHANGED <<call_history, service_restarts, remediation_applied,
                    structured_rca, agent, phase, todo>>
    BY <1>3 DEF Latency, runner, artifacts
  <2>2. PICK d \in Latencies : clock' = clock + d
    BY <1>3 DEF Latency
  <2>3. Asked = 0 /\ Asked' = 1
    BY <1>3 DEF Latency, Asked
  <2>4. clock <= 5 * (n + 0)
    BY <2>3 DEF ExpertFollows
  <2>5. clock' <= 5 * (n + 1)
    BY <1>2, <2>2, <2>4
  <2>6. clock' <= 5 * (Len(call_history') + Asked')
    BY <2>1, <2>3, <2>5
  <2> QED BY <2>1, <2>6 DEF ExpertFollows, Scenario, Solving, BSafe
<1>4. CASE CallTool
  <2> SUFFICES ASSUME agent = "expert", Solving
               PROVE  ExpertFollows'
    BY <1>4 DEF CallTool, runner, ExpertFollows, Solving
  <2>1. /\ UNCHANGED <<agent, phase, todo>> /\ Scenario \in Scenarios
        /\ k \in 0..2 /\ Len(ExpertScript(Scenario)) = k + 8
    BY <1>4, ScriptIs, ExpertScriptIs DEF CallTool, runner
  <2>2. n + 1 \in 1..k + 8
    BY <1>2, <1>4, <2>1
       DEF CallTool, SuiteTypes, MoreCalls, Position, Script
  <2>3. Perform(ExpertScript(Scenario)[n + 1])
    BY <1>4 DEF CallTool, Script, Position
  <2> DEFINE t == ExpertScript(Scenario)[n + 1].tool
  <2>4. /\ \E u \in Services \cup {NoService} : record_call(t, u)
        /\ t \in Tools
        /\ UNCHANGED <<clock, service_restarts>>
        /\ remediation_applied' <=> (remediation_applied \/ n + 1 = k + 5)
        /\ structured_rca' = IF n + 1 = k + 7
                               THEN [by |-> "rca", right |-> RcaFields]
                               ELSE structured_rca
    BY <1>2, <2>1, <2>2, <2>3, ExpertCalls
  <2>5. /\ Len(call_history') = n + 1
        /\ \A i \in 1..n : call_history'[i] = call_history[i]
        /\ call_history'[n + 1].tool = t
        /\ call_history'[n + 1].at = clock
    BY <1>2, <2>4, RecordType
  <2>6. Asked = 1 /\ Asked' = 0
    BY <1>4 DEF CallTool, Asked
  <2>7. clock <= 5 * (n + 1)
    BY <2>6 DEF ExpertFollows
  <2>8. /\ BSafe /\ n <= k + 8
        /\ \A i \in 1..n : /\ call_history[i].tool = ExpertScript(Scenario)[i].tool
                           /\ call_history[i].at <= 5 * i
        /\ remediation_applied <=> n >= k + 5
        /\ n >= k + 7 => structured_rca = [by |-> "rca", right |-> RcaFields]
    BY DEF ExpertFollows
  <2>9. Scenario' = Scenario /\ BSafe'
    BY <2>1, <2>4, <2>8 DEF Scenario, BSafe
  <2> HIDE DEF t, k, n
  <2>10. clock' <= 5 * (Len(call_history') + Asked')
    BY <1>2, <2>4, <2>5, <2>6, <2>7
  <2>11. ASSUME NEW i \in 1..n + 1
         PROVE  /\ call_history'[i].tool = ExpertScript(Scenario)[i].tool
                /\ call_history'[i].at <= 5 * i
    <3>1. CASE i = n + 1
      BY <2>5, <2>7, <3>1 DEF t
    <3>2. CASE i # n + 1
      <4>1. i \in 1..n
        BY <1>2, <3>2
      <4> QED BY <2>5, <2>8, <4>1
    <3> QED BY <3>1, <3>2
  <2>12. remediation_applied' <=> n + 1 >= k + 5
    BY <1>2, <2>1, <2>4, <2>8
  <2>13. n + 1 >= k + 7 =>
           structured_rca' = [by |-> "rca", right |-> RcaFields]
    BY <1>2, <2>1, <2>4, <2>8
  <2>14. n + 1 <= k + 8
    BY <2>2
  <2>15. k = Extra(Scenario')
    BY <2>9 DEF k
  <2> QED BY <2>5, <2>9, <2>10, <2>11, <2>12, <2>13, <2>14, <2>15
          DEF ExpertFollows
<1>5. CASE UNCHANGED suiteVars
  BY <1>5 DEF suiteVars, vars, runner, ExpertFollows, Scenario, Solving, BSafe,
              Asked
<1> QED BY <1>1, <1>3, <1>4, <1>5, SuiteCases
        DEF StartSuite, StartTask, EndEpisode, EndTask, AgentRaises

(* Its verdict, with the oracle's own numbers: 50 seconds at the latest,   *)
(* full credit for its diagnosis and for its report.                       *)
LEMMA AllFields == RcaWeight(RcaFields) = 1000
<1> DEFINE A == {"scenario"}  B == A \cup {"component"}
           C == B \cup {"factor"}  D == C \cup {"remediation"}
<1>1. IsFiniteSet(A) /\ Cardinality(A) = 1
  BY FS_Singleton
<1>2. IsFiniteSet(B) /\ Cardinality(B) = 2
  BY <1>1, FS_AddElement
<1>3. IsFiniteSet(C) /\ Cardinality(C) = 3
  BY <1>2, FS_AddElement
<1>4. IsFiniteSet(D) /\ Cardinality(D) = 4
  BY <1>3, FS_AddElement
<1>5. RcaFields = D /\ "scenario" \in RcaFields
  BY DEF RcaFields
<1> HIDE DEF D
<1> QED BY <1>4, <1>5 DEF RcaWeight

LEMMA ExpertWorth ==
  ASSUME TMax = 600, NEW ttm \in 0..50
  PROVE  Worth(ttm, 1, 1, 1000) >= 9500
<1>1. /\ 6000 * (TMax - ttm) * 1 + 2000 * 1 * TMax + 2 * 1000 * TMax * 1
           = 6000000 - 6000 * ttm
      /\ TMax * 1 = 600
  OBVIOUS
<1>2. Rounded(6000000 - 6000 * ttm, 600) >= 9500
  BY DEF Rounded
<1> QED BY <1>1, <1>2 DEF Worth

LEMMA ExpertTrail ==
  ASSUME SuiteTypes, ExpertFollows, Solved, agent = "expert",
         NEW k, k = Extra(Scenario)
  PROVE  /\ k \in 0..2
         /\ Len(call_history) = k + 8
         /\ \A i \in 1..k + 8 : call_history[i].tool =
               IF i = k + 5 THEN "apply_hotfix"
               ELSE IF i = k + 7 THEN "submit_structured_rca"
               ELSE IF i = k + 8 THEN "generate_post_mortem"
               ELSE "telemetry"
         /\ call_history[k + 5].at <= 35
<1>1. Solving /\ Scenario \in Scenarios
  BY ScriptIs DEF Solved
<1>2. k \in 0..2 /\ Len(ExpertScript(Scenario)) = k + 8
  BY <1>1, ExpertScriptIs
<1>3. Len(call_history) \in Nat
  BY DEF SuiteTypes, TypeOK
<1>4. Len(call_history) = k + 8
  BY <1>1, <1>2, <1>3 DEF Solved, MoreCalls, Script, Position, ExpertFollows
<1>5. \A i \in 1..k + 8 : /\ call_history[i].tool = ExpertScript(Scenario)[i].tool
                         /\ call_history[i].at <= 5 * i
  BY <1>1, <1>4 DEF ExpertFollows
<1>6. call_history[k + 5].at <= 35
  <2>1. k + 5 \in 1..k + 8 /\ 5 * (k + 5) <= 35
    BY <1>2
  <2>2. call_history[k + 5].at \in Nat
    BY <1>4, <2>1, TimesAreNat DEF SuiteTypes
  <2>3. call_history[k + 5].at <= 5 * (k + 5)
    BY <1>5, <2>1
  <2> QED BY <1>2, <2>1, <2>2, <2>3
<1> QED BY <1>1, <1>2, <1>4, <1>5, <1>6, ExpertTools

LEMMA ExpertVerdict ==
  ASSUME TMax = 600, Settle = 15, Floor = 5,
         SuiteTypes, ExpertFollows, Solved, agent = "expert"
  PROVE  Passed /\ Reward >= 9500 /\ remediation_applied
<1>1. PICK k : k = Extra(Scenario)
  OBVIOUS
<1>2. /\ k \in 0..2
      /\ Len(call_history) = k + 8
      /\ \A i \in 1..k + 8 : call_history[i].tool =
            IF i = k + 5 THEN "apply_hotfix"
            ELSE IF i = k + 7 THEN "submit_structured_rca"
            ELSE IF i = k + 8 THEN "generate_post_mortem"
            ELSE "telemetry"
      /\ call_history[k + 5].at <= 35
  BY <1>1, ExpertTrail
<1>3. /\ BSafe /\ remediation_applied
      /\ structured_rca = [by |-> "rca", right |-> RcaFields]
  BY <1>1, <1>2 DEF ExpertFollows, Solved
<1>4. CallsOf(MutationTools) = {k + 5}
  BY <1>2 DEF CallsOf, MutationTools
<1>5. 1 \in CallsOf({"telemetry"})
  BY <1>2 DEF CallsOf
<1>6. EgrCredit = [num |-> 1, den |-> 1]
  <2>1. mutation_calls = 1
    BY <1>4, FS_Singleton DEF mutation_calls
  <2>2. telemetry_calls \in Nat /\ telemetry_calls # 0
    BY <1>5, CallsFinite, FS_EmptySet DEF telemetry_calls, SuiteTypes
  <2> QED BY <2>1, <2>2 DEF EgrCredit
<1>7. Ttm \in 0..50
  <2>1. MutationTimes = {call_history[k + 5].at}
    BY <1>4 DEF MutationTimes
  <2>2. /\ LastMutation \in {0} \cup MutationTimes
        /\ {0} \cup MutationTimes \subseteq Nat
    BY LastMutationIs DEF LastMutationIsLast, SuiteTypes
  <2>3. LastMutation \in 0..35
    BY <1>2, <2>1, <2>2
  <2> QED BY <1>3, <2>3 DEF Ttm, MaxOf, MinOf
<1>8. RcaScore = 1000
  <2>1. structured_rca # None
    BY <1>3 DEF None
  <2> QED BY <1>3, <2>1, AllFields DEF RcaScore, Scored
<1>9. Reward >= 9500
  BY <1>3, <1>6, <1>7, <1>8, RewardIs, ExpertWorth
<1>10. Reward \in Nat /\ Ttm < TMax
  BY <1>7, RewardType DEF SuiteTypes
<1> QED BY <1>3, <1>9, <1>10 DEF Passed

LEMMA ThreeThings ==
  ASSUME NEW a, NEW b, NEW c, a # b, a # c, b # c
  PROVE  Cardinality({a, b, c}) = 3
<1> DEFINE A == {a}  B == A \cup {b}  C == B \cup {c}
<1>1. IsFiniteSet(A) /\ Cardinality(A) = 1
  BY FS_Singleton
<1>2. IsFiniteSet(B) /\ Cardinality(B) = 2
  BY <1>1, FS_AddElement
<1>3. IsFiniteSet(C) /\ Cardinality(C) = 3
  BY <1>2, FS_AddElement
<1>4. C = {a, b, c}
  OBVIOUS
<1> QED BY <1>3, <1>4

LEMMA ExpertResult ==
  ASSUME TMax = 600, Settle = 15, Floor = 5,
         SuiteTypes, ExpertFollows, Solved, agent = "expert"
  PROVE  /\ Result.passed /\ Result.reward >= 9500
         /\ Cardinality({i \in DOMAIN Result.steps : Result.steps[i] > 0}) = 3
<1>1. PICK k : k = Extra(Scenario)
  OBVIOUS
<1>2. /\ k \in 0..2
      /\ Len(call_history) = k + 8
      /\ \A i \in 1..k + 8 : call_history[i].tool =
            IF i = k + 5 THEN "apply_hotfix"
            ELSE IF i = k + 7 THEN "submit_structured_rca"
            ELSE IF i = k + 8 THEN "generate_post_mortem"
            ELSE "telemetry"
  BY <1>1, ExpertTrail
<1>3. Passed /\ Reward >= 9500 /\ remediation_applied /\ Reward \in Nat
  BY ExpertVerdict, RewardType DEF SuiteTypes
<1>4. /\ StepReward("telemetry") = 0
      /\ StepReward("apply_hotfix") > 0
      /\ StepReward("submit_structured_rca") > 0
      /\ StepReward("generate_post_mortem") > 0
  <2>1. Rounded(8 * Reward, 100) > 0 /\ Rounded(Reward, 10) > 0
    BY <1>3 DEF Rounded
  <2> QED BY <1>3, <2>1 DEF StepReward
<1> DEFINE steps == [i \in 1..k + 8 |-> StepReward(call_history[i].tool)]
           paid == {i \in 1..k + 8 : steps[i] > 0}
<1>5. paid = {k + 5, k + 7, k + 8}
  <2>1. ASSUME NEW i \in 1..k + 8
        PROVE  i \in paid <=> i = k + 5 \/ i = k + 7 \/ i = k + 8
    <3>1. CASE i = k + 5 \/ i = k + 7 \/ i = k + 8
      <4>1. call_history[i].tool \in
              {"apply_hotfix", "submit_structured_rca", "generate_post_mortem"}
        BY <1>2, <3>1
      <4> QED BY <1>4, <3>1, <4>1
    <3>2. CASE ~(i = k + 5 \/ i = k + 7 \/ i = k + 8)
      <4>1. call_history[i].tool = "telemetry"
        BY <1>2, <3>2
      <4> QED BY <1>4, <3>2, <4>1
    <3> QED BY <3>1, <3>2
  <2>2. k + 5 \in 1..k + 8 /\ k + 7 \in 1..k + 8 /\ k + 8 \in 1..k + 8
    BY <1>2
  <2> QED BY <2>1, <2>2
<1>6. Cardinality({k + 5, k + 7, k + 8}) = 3
  <2>1. k + 5 # k + 7 /\ k + 5 # k + 8 /\ k + 7 # k + 8
    BY <1>2
  <2> QED BY <2>1, ThreeThings
<1>7. Result.steps = steps /\ DOMAIN steps = 1..k + 8
  BY <1>2 DEF Result
<1>8. Result.passed = Passed /\ Result.reward = Reward
  BY DEF Result
<1>9. {i \in DOMAIN Result.steps : Result.steps[i] > 0} = paid
  BY <1>7
<1> HIDE DEF paid
<1> QED BY <1>3, <1>5, <1>6, <1>8, <1>9

(* "Achieves R_episode >= 0.95" (mock_agent.py:5), with the oracle's       *)
(* numbers in seconds and every call within five: in every plan and        *)
(* whatever ran before, the expert passes and is paid for its hotfix and   *)
(* its two reports only.                                                   *)
THEOREM ExpertIsWorthIt ==
  ASSUME TMax = 600, Settle = 15, Floor = 5, Latencies \subseteq 0..5
  PROVE  SuiteSpec => []ExpertEarns
<1>1. SuiteInit => ExpertFollows /\ ExpertEarns
  BY DEF SuiteInit, ExpertFollows, ExpertEarns, Results, Solving
<1>2. SuiteTypes /\ ExpertFollows /\ ExpertEarns /\ [SuiteNext]_suiteVars
        => ExpertEarns'
  <2> SUFFICES ASSUME SuiteTypes, ExpertFollows, ExpertEarns,
                      [SuiteNext]_suiteVars,
                      NEW r \in Results', r.agent = "expert"
               PROVE  /\ r.passed /\ r.reward >= 9500
                      /\ Cardinality({i \in DOMAIN r.steps : r.steps[i] > 0}) = 3
    BY DEF ExpertEarns
  <2>1. CASE r \in Results
    BY <2>1 DEF ExpertEarns
  <2>2. CASE Solved /\ r = Result
    <3>1. agent = "expert"
      BY <2>2 DEF Result
    <3> QED BY <2>2, <3>1, ExpertResult
  <2> QED BY <2>1, <2>2, ResultsGrow
<1>3. SuiteTypes /\ ExpertFollows /\ [SuiteNext]_suiteVars => ExpertFollows'
  BY ExpertStep
<1> QED BY <1>1, <1>2, <1>3, AlwaysTyped, PTL DEF SuiteSpec
=============================================================================
