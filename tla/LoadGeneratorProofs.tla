------------------------ MODULE LoadGeneratorProofs ------------------------
(***************************************************************************)
(* What LoadGenerator.tla promises for every number of worker threads,     *)
(* every ring size, with and without the simulation fallback.              *)
(***************************************************************************)
EXTENDS LoadGenerator, TLAPS

(* A ring that receives one more sample keeps its bound.                   *)
LEMMA PushType ==
  ASSUME NEW s \in Seq(Outcomes), Len(s) <= MaxSamples, NEW x \in Outcomes
  PROVE  Push(s, x) \in Seq(Outcomes) /\ Len(Push(s, x)) <= MaxSamples
<1>1. CASE Len(s) < MaxSamples
  BY <1>1, MaxSamplesAssumption DEF Push
<1>2. CASE ~(Len(s) < MaxSamples)
  <2>1. Len(s) = MaxSamples /\ s # <<>>
    BY <1>2, MaxSamplesAssumption
  <2>2. Tail(s) \in Seq(Outcomes) /\ Len(Tail(s)) = MaxSamples - 1
    BY <2>1, MaxSamplesAssumption
  <2> QED BY <1>2, <2>2, MaxSamplesAssumption DEF Push
<1> QED BY <1>1, <1>2

(* A worker that is about to record has a sample to record.                *)
SampleMade == \A t \in Threads : pc[t] = "record" => sample[t] \in Outcomes

LEMMA InitTypeOK == Init => TypeOK /\ SampleMade
<1> SUFFICES ASSUME Init PROVE TypeOK /\ SampleMade
  OBVIOUS
<1> USE DEF Init
<1>1. errorRate \in DOMAIN Simulable
  BY DEF Simulable
<1>2. ring \in Seq(Outcomes) /\ Len(ring) <= MaxSamples
  BY MaxSamplesAssumption
<1>3. /\ pc \in [Threads -> {"dead", "check", "mode", "http", "simulate",
                             "record"}]
      /\ sample \in [Threads -> Outcomes \cup {NoOutcome}]
  OBVIOUS
<1>4. SampleMade
  BY DEF SampleMade
<1> QED BY <1>1, <1>2, <1>3, <1>4 DEF TypeOK

LEMMA StepTypeOK ==
  TypeOK /\ SampleMade /\ [Next]_vars => (TypeOK /\ SampleMade)'
<1> SUFFICES ASSUME TypeOK, SampleMade, [Next]_vars
             PROVE  (TypeOK /\ SampleMade)'
  OBVIOUS
<1> USE DEF TypeOK, SampleMade
<1>1. CASE StartSet
  BY <1>1 DEF StartSet, profile
<1>2. CASE Spawn
  BY <1>2 DEF Spawn, profile, Live
<1>3. CASE StopSet
  BY <1>3 DEF StopSet, profile
<1>4. CASE JoinReturns
  BY <1>4 DEF JoinReturns, profile
<1>5. CASE JoinTimesOut
  BY <1>5 DEF JoinTimesOut, profile, Live
<1>6. ASSUME NEW t \in Threads, LoopTest(t) PROVE (TypeOK /\ SampleMade)'
  BY <1>6 DEF LoopTest, control, profile
<1>7. ASSUME NEW t \in Threads, ModeTest(t) PROVE (TypeOK /\ SampleMade)'
  BY <1>7 DEF ModeTest, control, profile
<1>8. ASSUME NEW t \in Threads, HttpReturns(t) PROVE (TypeOK /\ SampleMade)'
  <2>1. Replies \subseteq Outcomes
    BY DEF Replies, Outcomes
  <2> QED BY <1>8, <2>1 DEF HttpReturns, control, profile
<1>9. ASSUME NEW t \in Threads, Simulate(t) PROVE (TypeOK /\ SampleMade)'
  <2>1. Simulable[errorRate] \subseteq Outcomes
    BY DEF Simulable, Outcomes
  <2> QED BY <1>9, <2>1 DEF Simulate, control, profile
<1>10. ASSUME NEW t \in Threads, RecordSample(t)
       PROVE  (TypeOK /\ SampleMade)'
  <2>1. ring' \in Seq(Outcomes) /\ Len(ring') <= MaxSamples
    BY <1>10, PushType DEF RecordSample
  <2> QED BY <1>10, <2>1 DEF RecordSample, control, profile
<1>11. ASSUME NEW r \in DOMAIN Simulable, NEW m \in BOOLEAN,
              SetSimulationProfile(r, m)
       PROVE  (TypeOK /\ SampleMade)'
  BY <1>11 DEF SetSimulationProfile, control
<1>12. CASE Clear
  BY <1>12, MaxSamplesAssumption DEF Clear, control, profile
<1>13. CASE GatewayFlips
  BY <1>13 DEF GatewayFlips, control
<1>14. CASE UNCHANGED vars
  BY <1>14 DEF vars
<1> QED
  BY <1>1, <1>2, <1>3, <1>4, <1>5, <1>6, <1>7, <1>8, <1>9, <1>10, <1>11,
     <1>12, <1>13, <1>14 DEF Next, Controller, RunLoop

(* Every reachable state is well typed and the ring keeps its bound.       *)
THEOREM TypeCorrect == Spec => []TypeOK
<1>1. Spec => [](TypeOK /\ SampleMade)
  BY InitTypeOK, StepTypeOK, PTL DEF Spec
<1> QED BY <1>1, PTL

----------------------------------------------------------------------------
(* Who is alive.  The extra conjuncts say what the controlling thread      *)
(* knows between its steps: a start has set the flag, a stop has cleared   *)
(* it, and a generator that was stopped without abandoning its worker has  *)
(* none that is not in the hands of the join.                              *)
Supervised ==
  /\ RunningMeansServed
  /\ ExtraWorkersWereAbandoned
  /\ ctl = "spawn" => running /\ Live \subseteq abandoned
  /\ ctl = "join" => ~running
  /\ ctl = "idle" /\ ~running => Live \subseteq abandoned

LEMMA InitSupervised == Init => Supervised
BY DEF Init, Supervised, RunningMeansServed, ExtraWorkersWereAbandoned, Live

LEMMA StepSupervised == TypeOK /\ Supervised /\ [Next]_vars => Supervised'
<1> SUFFICES ASSUME TypeOK, Supervised, [Next]_vars PROVE Supervised'
  OBVIOUS
<1> USE DEF TypeOK, Supervised, RunningMeansServed, ExtraWorkersWereAbandoned,
            Live
<1>1. CASE StartSet
  BY <1>1 DEF StartSet
<1>2. CASE Spawn
  BY <1>2, ThreadsAssumption DEF Spawn
<1>3. CASE StopSet
  BY <1>3 DEF StopSet
<1>4. CASE JoinReturns
  BY <1>4 DEF JoinReturns
<1>5. CASE JoinTimesOut
  BY <1>5 DEF JoinTimesOut
<1>6. ASSUME NEW t \in Threads, LoopTest(t) PROVE Supervised'
  BY <1>6 DEF LoopTest, control
<1>7. ASSUME NEW t \in Threads,
             ModeTest(t) \/ HttpReturns(t) \/ Simulate(t) \/ RecordSample(t)
      PROVE  Supervised'
  <2>1. /\ UNCHANGED <<control, abandoned>>
        /\ Live' = Live
    BY <1>7 DEF ModeTest, HttpReturns, Simulate, RecordSample
  <2> QED BY <2>1 DEF control
<1>8. CASE \/ \E r \in DOMAIN Simulable, m \in BOOLEAN :
                 SetSimulationProfile(r, m)
           \/ Clear \/ GatewayFlips \/ UNCHANGED vars
  BY <1>8 DEF SetSimulationProfile, Clear, GatewayFlips, control, vars
<1> QED
  BY <1>1, <1>2, <1>3, <1>4, <1>5, <1>6, <1>7, <1>8
     DEF Next, Controller, RunLoop

LEMMA SupervisedInvariant == Spec => []Supervised
<1>1. Init => TypeOK /\ SampleMade /\ Supervised
  BY InitTypeOK, InitSupervised
<1>2. TypeOK /\ SampleMade /\ Supervised /\ [Next]_vars
        => (TypeOK /\ SampleMade /\ Supervised)'
  BY StepTypeOK, StepSupervised
<1> QED BY <1>1, <1>2, PTL DEF Spec

(* A running generator has a live worker.                                  *)
THEOREM ServedWhileRunning == Spec => []RunningMeansServed
BY SupervisedInvariant, PTL DEF Supervised

(* Only a timed-out join leaves a worker beside the current one.           *)
THEOREM OnlyAbandonedWorkersRemain == Spec => []ExtraWorkersWereAbandoned
BY SupervisedInvariant, PTL DEF Supervised
============================================================================
