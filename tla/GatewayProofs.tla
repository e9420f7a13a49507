--------------------------- MODULE GatewayProofs ---------------------------
(***************************************************************************)
(* What Gateway.tla promises for every set of connections, every pool      *)
(* capacity and every number of retries.                                   *)
(***************************************************************************)
EXTENDS Gateway, FiniteSetTheorems, TLAPS

(* The steps of Next that change pc, the shared counters or the pool come  *)
(* from these actions; the rest is split once, here.                       *)
Request(c) ==
  Arrive(c) \/ ReadChaos(c) \/ Answer(c) \/ RetryFails(c) \/ RetrySucceeds(c)

Channel(c) ==
  \/ AcquireHandOff(c) \/ AcquireFree(c) \/ AcquirePark(c)
  \/ AcquireTimeout(c) \/ Leak(c)
  \/ ReleaseToWaiter(c) \/ ReleaseFree(c) \/ ReleaseBlocks(c)

(* Every step of the gateway is one of these.                              *)
LEMMA NextCases ==
  ASSUME [Next]_vars
  PROVE  \/ \E c \in Conns : Request(c) \/ Channel(c) \/ EnterCritical(c)
                             \/ LeaveCritical(c)
         \/ \E s \in ChaosNames : SetChaos(s)
         \/ ResetBegin \/ DrainToken \/ DrainDone \/ TickRead \/ TickSet
         \/ UNCHANGED vars
BY DEF Next, Work, Acquire, Release, Drain, Tick, Request, Channel

(* The branches of the switch are program locations, the answers codes.    *)
LEMMA BranchType == \A s \in ChaosNames : Branch[s] \in PCs
BY DEF Branch, ChaosNames, Scenarios, PCs, Outcomes

LEMMA OutcomeType == \A l \in DOMAIN Outcomes : Outcomes[l] \subseteq Codes
BY DEF Outcomes, Codes, PaymentCodes, NominalCodes, DeadlockCodes,
       PacketDropCodes

LEMMA PlainLocations ==
  {"idle", "arrived", "retry", "acquire", "waiting", "held", "blocked",
   "split", "critical", "payment"} \subseteq PCs
BY DEF PCs, Outcomes

----------------------------------------------------------------------------
(* Type correctness.                                                       *)
LEMMA InitTypeOK == Init => TypeOK
<1> SUFFICES ASSUME Init PROVE TypeOK
  OBVIOUS
<1> USE CapacityAssumption, MaxRetriesAssumption DEF Init
<1>1. activeChaos \in ChaosNames /\ resetting \in BOOLEAN
  BY DEF ChaosNames
<1>2. /\ pool \in 0..Capacity /\ gauge \in 0..Capacity
      /\ activeWorkers \in Int /\ abandoned \in Int
  OBVIOUS
<1>3. sampled \in 0..Capacity \cup {NoSample}
  OBVIOUS
<1>4. pc \in [Conns -> PCs] /\ status \in [Conns -> Codes]
  BY PlainLocations DEF Codes
<1>5. attempt \in [Conns -> 1..MaxRetries] /\ workers \in [Conns -> Int]
  OBVIOUS
<1> QED BY <1>1, <1>2, <1>3, <1>4, <1>5 DEF TypeOK

LEMMA StepTypeOK == TypeOK /\ [Next]_vars => TypeOK'
<1> SUFFICES ASSUME TypeOK, [Next]_vars PROVE TypeOK'
  OBVIOUS
<1> USE CapacityAssumption, MaxRetriesAssumption, PlainLocations DEF TypeOK
<1>1. ASSUME NEW c \in Conns, Request(c) PROVE TypeOK'
  <2>1. CASE Arrive(c)
    BY <2>1 DEF Arrive, Goto, Codes, chaos, ticker
  <2>2. CASE ReadChaos(c)
    BY <2>2, BranchType DEF ReadChaos, Goto, chaos, ticker
  <2>3. CASE Answer(c)
    BY <2>3, OutcomeType DEF Answer, Finish, Goto, chaos, ticker
  <2>4. CASE RetryFails(c)
    BY <2>4 DEF RetryFails, Finish, Goto, Codes, chaos, ticker
  <2>5. CASE RetrySucceeds(c)
    BY <2>5 DEF RetrySucceeds, Finish, Goto, Codes, chaos, ticker
  <2> QED BY <1>1, <2>1, <2>2, <2>3, <2>4, <2>5 DEF Request
<1>2. ASSUME NEW c \in Conns, Channel(c) PROVE TypeOK'
  <2>1. CASE AcquireHandOff(c)
    BY <2>1 DEF AcquireHandOff, Blocked, Codes, chaos, ticker
  <2>2. CASE AcquireFree(c)
    BY <2>2 DEF AcquireFree, Goto, chaos, ticker
  <2>3. CASE AcquirePark(c)
    BY <2>3 DEF AcquirePark, Goto, chaos, ticker
  <2>4. CASE AcquireTimeout(c)
    BY <2>4 DEF AcquireTimeout, Finish, Goto, Codes, chaos, ticker
  <2>5. CASE Leak(c)
    BY <2>5 DEF Leak, Finish, Goto, Codes, chaos, ticker
  <2>6. CASE ReleaseToWaiter(c)
    BY <2>6 DEF ReleaseToWaiter, Waiters, Codes, chaos, ticker
  <2>7. CASE ReleaseFree(c)
    BY <2>7 DEF ReleaseFree, Finish, Goto, Codes, chaos, ticker
  <2>8. CASE ReleaseBlocks(c)
    BY <2>8 DEF ReleaseBlocks, Goto, chaos, ticker
  <2> QED
    BY <1>2, <2>1, <2>2, <2>3, <2>4, <2>5, <2>6, <2>7, <2>8 DEF Channel
<1>3. ASSUME NEW c \in Conns, EnterCritical(c) PROVE TypeOK'
  BY <1>3 DEF EnterCritical, Goto, chaos, ticker
<1>4. ASSUME NEW c \in Conns, LeaveCritical(c) PROVE TypeOK'
  BY <1>4 DEF LeaveCritical, Finish, Goto, Codes, chaos, ticker
<1>5. ASSUME NEW s \in ChaosNames, SetChaos(s) PROVE TypeOK'
  BY <1>5 DEF SetChaos, ticker
<1>6. CASE ResetBegin
  BY <1>6 DEF ResetBegin, ChaosNames, ticker
<1>7. CASE DrainToken
  BY <1>7 DEF DrainToken, Waiters, Goto, chaos, ticker
<1>8. CASE DrainDone
  BY <1>8 DEF DrainDone
<1>9. CASE TickRead
  BY <1>9 DEF TickRead, chaos
<1>10. CASE TickSet
  BY <1>10 DEF TickSet, chaos
<1>11. CASE UNCHANGED vars
  BY <1>11 DEF vars
<1> QED
  BY NextCases, <1>1, <1>2, <1>3, <1>4, <1>5, <1>6, <1>7, <1>8, <1>9, <1>10,
     <1>11

(* Every reachable state is well typed; in particular the pool of handles  *)
(* stays within the buffer that NewServer made.                            *)
THEOREM TypeCorrect == Spec => []TypeOK
BY InitTypeOK, StepTypeOK, PTL DEF Spec

----------------------------------------------------------------------------
(* The channel: who is parked on which end agrees with its length.         *)
LEMMA InitChannel == Init => ChannelConsistent
BY DEF Init, ChannelConsistent, Waiters, Blocked

LEMMA StepChannel ==
  TypeOK /\ ChannelConsistent /\ [Next]_vars => ChannelConsistent'
<1> SUFFICES ASSUME TypeOK, ChannelConsistent, [Next]_vars
             PROVE  ChannelConsistent'
  OBVIOUS
<1> USE CapacityAssumption DEF TypeOK, ChannelConsistent, Waiters, Blocked
<1>1. ASSUME NEW c \in Conns, Request(c) PROVE ChannelConsistent'
  <2>1. /\ pool' = pool
        /\ \A d \in Conns \ {c} : pc'[d] = pc[d]
    BY <1>1 DEF Request, Arrive, ReadChaos, Answer, RetryFails, RetrySucceeds,
                Finish, Goto
  <2>2. pc'[c] \notin {"waiting", "blocked"}
    BY <1>1 DEF Request, Arrive, ReadChaos, Answer, RetryFails, RetrySucceeds,
                Finish, Goto, Branch, ChaosNames, Scenarios
  <2> QED BY <2>1, <2>2
<1>2. ASSUME NEW c \in Conns, Channel(c) PROVE ChannelConsistent'
  <2>1. CASE AcquireHandOff(c)
    BY <2>1 DEF AcquireHandOff
  <2>2. CASE AcquireFree(c)
    BY <2>2 DEF AcquireFree, Goto
  <2>3. CASE AcquirePark(c)
    BY <2>3 DEF AcquirePark, Goto
  <2>4. CASE AcquireTimeout(c)
    BY <2>4 DEF AcquireTimeout, Finish, Goto
  <2>5. CASE Leak(c)
    BY <2>5 DEF Leak, Finish, Goto
  <2>6. CASE ReleaseToWaiter(c)
    BY <2>6 DEF ReleaseToWaiter
  <2>7. CASE ReleaseFree(c)
    BY <2>7 DEF ReleaseFree, Finish, Goto
  <2>8. CASE ReleaseBlocks(c)
    BY <2>8 DEF ReleaseBlocks, Goto
  <2> QED
    BY <1>2, <2>1, <2>2, <2>3, <2>4, <2>5, <2>6, <2>7, <2>8 DEF Channel
<1>3. ASSUME NEW c \in Conns, EnterCritical(c) \/ LeaveCritical(c)
      PROVE  ChannelConsistent'
  BY <1>3 DEF EnterCritical, LeaveCritical, Finish, Goto
<1>4. CASE DrainToken
  BY <1>4 DEF DrainToken, Goto
<1>5. CASE \/ \E s \in ChaosNames : SetChaos(s)
           \/ ResetBegin \/ DrainDone \/ TickRead \/ TickSet
           \/ UNCHANGED vars
  BY <1>5 DEF SetChaos, ResetBegin, DrainDone, TickRead, TickSet, vars
<1> QED BY NextCases, <1>1, <1>2, <1>3, <1>4, <1>5

(* No lost wake-up, for any number of connections and any capacity.        *)
THEOREM ChannelCorrect == Spec => []ChannelConsistent
<1>1. Init => TypeOK /\ ChannelConsistent
  BY InitTypeOK, InitChannel
<1>2. TypeOK /\ ChannelConsistent /\ [Next]_vars
        => (TypeOK /\ ChannelConsistent)'
  BY StepTypeOK, StepChannel
<1> QED BY <1>1, <1>2, PTL DEF Spec

(* A 504 for an exhausted pool is given only while every handle is out.    *)
THEOREM TimeoutsAreHonest == Spec => TimeoutOnlyWhenExhausted
<1> DEFINE Honest == \A c \in Conns : pc[c] = "waiting" /\ pc'[c] = "idle"
                        => status'[c] = 504 /\ pool = Capacity
<1>1. ASSUME TypeOK, ChannelConsistent, Next PROVE Honest
  <2> SUFFICES ASSUME NEW c \in Conns, pc[c] = "waiting", pc'[c] = "idle"
               PROVE  status'[c] = 504 /\ pool = Capacity
    OBVIOUS
  <2>1. pool = Capacity
    BY <1>1 DEF ChannelConsistent, Waiters
  <2>2. ASSUME NEW d \in Conns,
               Request(d) \/ EnterCritical(d) \/ LeaveCritical(d)
        PROVE  FALSE
    BY <1>1, <2>2 DEF TypeOK, Request, Arrive, ReadChaos, Answer, RetryFails,
       RetrySucceeds, EnterCritical, LeaveCritical, Finish, Goto, Outcomes
  <2>3. ASSUME NEW d \in Conns, Channel(d) PROVE status'[c] = 504
    <3>1. CASE AcquireTimeout(d)
      BY <1>1, <3>1 DEF TypeOK, AcquireTimeout, Finish, Goto
    <3>2. CASE ReleaseToWaiter(d)
      BY <1>1, <3>2 DEF TypeOK, ReleaseToWaiter
    <3>3. CASE AcquireHandOff(d)
      BY <1>1, <3>3 DEF TypeOK, AcquireHandOff, Blocked
    <3> QED
      BY <1>1, <2>3, <3>1, <3>2, <3>3 DEF TypeOK, Channel, AcquireFree,
         AcquirePark, Leak, ReleaseFree, ReleaseBlocks, Finish, Goto
  <2>4. ~DrainToken
    BY <1>1 DEF TypeOK, DrainToken, Waiters, Goto
  <2>5. ~(\/ \E s \in ChaosNames : SetChaos(s)
          \/ ResetBegin \/ DrainDone \/ TickRead \/ TickSet
          \/ UNCHANGED vars)
    BY DEF SetChaos, ResetBegin, DrainDone, TickRead, TickSet, vars
  <2> QED BY <1>1, NextCases, <2>1, <2>2, <2>3, <2>4, <2>5
<1>2. TypeOK /\ ChannelConsistent /\ [Next]_vars => [Honest]_vars
  BY <1>1
<1> QED
  BY <1>2, TypeCorrect, ChannelCorrect, PTL DEF Spec, TimeoutOnlyWhenExhausted

----------------------------------------------------------------------------
(* The books of the pool.                                                  *)
LEMMA HoldersFinite == IsFiniteSet(Holders) /\ Cardinality(Holders) \in Nat
BY ConnsAssumption, FS_Subset, FS_CardinalityType DEF Holders

LEMMA CriticalFinite == IsFiniteSet(Critical) /\ Cardinality(Critical) \in Nat
BY ConnsAssumption, FS_Subset, FS_CardinalityType DEF Critical

(* A finite set in which one element takes the place of another keeps its  *)
(* size.                                                                   *)
LEMMA SwapElement ==
  ASSUME NEW S, IsFiniteSet(S), NEW x \in S, NEW y, y \notin S
  PROVE  Cardinality((S \ {x}) \cup {y}) = Cardinality(S)
<1>1. /\ IsFiniteSet(S \ {x})
      /\ Cardinality(S \ {x}) = Cardinality(S) - 1
  BY FS_RemoveElement
<1>2. Cardinality((S \ {x}) \cup {y}) = Cardinality(S \ {x}) + 1
  BY <1>1, FS_AddElement
<1> QED BY <1>1, <1>2, FS_CardinalityType

LEMMA InitBalance == Init => PoolBalance
<1> SUFFICES ASSUME Init PROVE PoolBalance
  OBVIOUS
<1>1. Holders = {}
  BY DEF Init, Holders
<1> QED BY <1>1, FS_EmptySet DEF Init, PoolBalance

LEMMA StepBalance == TypeOK /\ PoolBalance /\ [Next]_vars => PoolBalance'
<1> SUFFICES ASSUME TypeOK, PoolBalance, [Next]_vars PROVE PoolBalance'
  OBVIOUS
<1> USE CapacityAssumption, HoldersFinite DEF TypeOK, PoolBalance
<1>1. ASSUME Holders' = Holders, pool' = pool, abandoned' = abandoned
      PROVE  PoolBalance'
  BY <1>1
<1>2. ASSUME NEW c \in Conns, Request(c) PROVE PoolBalance'
  <2>1. Holders' = Holders
    BY <1>2 DEF Request, Arrive, ReadChaos, Answer, RetryFails, RetrySucceeds,
       Finish, Goto, Holders, Outcomes, Branch, ChaosNames, Scenarios
  <2> QED BY <1>1, <1>2, <2>1 DEF Request, Arrive, ReadChaos, Answer,
             RetryFails, RetrySucceeds
<1>3. ASSUME NEW c \in Conns, Channel(c) PROVE PoolBalance'
  <2>1. CASE AcquireHandOff(c)
    <3>1. PICK b \in Blocked : pc' = [pc EXCEPT ![c] = "held", ![b] = "idle"]
      BY <2>1 DEF AcquireHandOff
    <3>2. /\ Holders' = (Holders \ {b}) \cup {c}
          /\ b \in Holders /\ c \notin Holders
      BY <2>1, <3>1 DEF AcquireHandOff, Holders, Blocked
    <3> QED BY <2>1, <3>2, SwapElement DEF AcquireHandOff
  <2>2. CASE AcquireFree(c)
    <3>1. Holders' = Holders \cup {c} /\ c \notin Holders
      BY <2>2 DEF AcquireFree, Goto, Holders
    <3>2. Cardinality(Holders') = Cardinality(Holders) + 1
      BY <3>1, FS_AddElement
    <3> QED BY <2>2, <3>2 DEF AcquireFree
  <2>3. CASE AcquirePark(c)
    BY <1>1, <2>3 DEF AcquirePark, Goto, Holders
  <2>4. CASE AcquireTimeout(c)
    BY <1>1, <2>4 DEF AcquireTimeout, Finish, Goto, Holders
  <2>5. CASE Leak(c)
    <3>1. Holders' = Holders \ {c} /\ c \in Holders
      BY <2>5 DEF Leak, Finish, Goto, Holders
    <3>2. Cardinality(Holders') = Cardinality(Holders) - 1
      BY <3>1, FS_RemoveElement
    <3> QED BY <2>5, <3>2 DEF Leak
  <2>6. CASE ReleaseToWaiter(c)
    <3>1. PICK w \in Waiters : pc' = [pc EXCEPT ![c] = "idle", ![w] = "held"]
      BY <2>6 DEF ReleaseToWaiter
    <3>2. /\ Holders' = (Holders \ {c}) \cup {w}
          /\ c \in Holders /\ w \notin Holders
      BY <2>6, <3>1 DEF ReleaseToWaiter, Holders, Waiters
    <3> QED BY <2>6, <3>2, SwapElement DEF ReleaseToWaiter
  <2>7. CASE ReleaseFree(c)
    <3>1. Holders' = Holders \ {c} /\ c \in Holders
      BY <2>7 DEF ReleaseFree, Finish, Goto, Holders
    <3>2. Cardinality(Holders') = Cardinality(Holders) - 1
      BY <3>1, FS_RemoveElement
    <3> QED BY <2>7, <3>2 DEF ReleaseFree
  <2>8. CASE ReleaseBlocks(c)
    BY <1>1, <2>8 DEF ReleaseBlocks, Goto, Holders
  <2> QED
    BY <1>3, <2>1, <2>2, <2>3, <2>4, <2>5, <2>6, <2>7, <2>8 DEF Channel
<1>4. ASSUME NEW c \in Conns, EnterCritical(c) \/ LeaveCritical(c)
      PROVE  PoolBalance'
  BY <1>1, <1>4 DEF EnterCritical, LeaveCritical, Finish, Goto, Holders
<1>5. CASE DrainToken
  <2>1. CASE Waiters = {}
    BY <1>5, <2>1 DEF DrainToken, Holders
  <2>2. CASE Waiters # {}
    <3>1. PICK w \in Waiters : pc' = [pc EXCEPT ![w] = "held"]
      BY <1>5, <2>2 DEF DrainToken, Goto
    <3>2. Holders' = Holders \cup {w} /\ w \notin Holders
      BY <3>1 DEF Holders, Waiters
    <3>3. Cardinality(Holders') = Cardinality(Holders) + 1
      BY <3>2, FS_AddElement
    <3> QED BY <1>5, <2>2, <3>3 DEF DrainToken
  <2> QED BY <2>1, <2>2
<1>6. CASE \/ \E s \in ChaosNames : SetChaos(s)
           \/ ResetBegin \/ DrainDone \/ TickRead \/ TickSet
           \/ UNCHANGED vars
  BY <1>1, <1>6
     DEF SetChaos, ResetBegin, DrainDone, TickRead, TickSet, vars, Holders
<1> QED BY NextCases, <1>2, <1>3, <1>4, <1>5, <1>6

(* No handle is created or lost except by the leak and by the drain.       *)
THEOREM PoolBalanced == Spec => []PoolBalance
<1>1. Init => TypeOK /\ PoolBalance
  BY InitTypeOK, InitBalance
<1>2. TypeOK /\ PoolBalance /\ [Next]_vars => (TypeOK /\ PoolBalance)'
  BY StepTypeOK, StepBalance
<1> QED BY <1>1, <1>2, PTL DEF Spec

----------------------------------------------------------------------------
(* Split brain.  SingleWinner is not inductive alone: that a second winner *)
(* cannot enter follows from the counter counting who is inside.           *)
LEMMA InitWorkers == Init => WorkersCounted /\ SingleWinner
<1> SUFFICES ASSUME Init PROVE WorkersCounted /\ SingleWinner
  OBVIOUS
<1>1. Critical = {}
  BY DEF Init, Critical
<1> QED BY <1>1, FS_EmptySet DEF Init, WorkersCounted, SingleWinner

LEMMA StepWorkers ==
  TypeOK /\ WorkersCounted /\ SingleWinner /\ [Next]_vars
    => (WorkersCounted /\ SingleWinner)'
<1> SUFFICES ASSUME TypeOK, WorkersCounted, SingleWinner, [Next]_vars
             PROVE  (WorkersCounted /\ SingleWinner)'
  OBVIOUS
<1> USE CriticalFinite DEF TypeOK, WorkersCounted, SingleWinner
<1>1. ASSUME Critical' = Critical, UNCHANGED <<activeWorkers, workers>>
      PROVE  (WorkersCounted /\ SingleWinner)'
  BY <1>1
<1>2. ASSUME NEW c \in Conns, EnterCritical(c)
      PROVE  (WorkersCounted /\ SingleWinner)'
  <2>1. Critical' = Critical \cup {c} /\ c \notin Critical
    BY <1>2 DEF EnterCritical, Goto, Critical
  <2>2. WorkersCounted'
    BY <1>2, <2>1, FS_AddElement DEF EnterCritical
  <2>3. workers'[c] <= 1 => Critical = {}
    BY <1>2, FS_EmptySet DEF EnterCritical
  <2>4. \A d \in Critical : workers'[d] = workers[d]
    BY <1>2, <2>1 DEF EnterCritical, Critical
  <2> QED BY <2>1, <2>2, <2>3, <2>4
<1>3. ASSUME NEW c \in Conns, LeaveCritical(c)
      PROVE  (WorkersCounted /\ SingleWinner)'
  <2>1. Critical' = Critical \ {c} /\ c \in Critical
    BY <1>3 DEF LeaveCritical, Finish, Goto, Critical
  <2>2. WorkersCounted'
    BY <1>3, <2>1, FS_RemoveElement DEF LeaveCritical
  <2>3. \A d \in Critical' : workers'[d] = workers[d]
    BY <1>3, <2>1 DEF LeaveCritical, Critical
  <2> QED BY <2>1, <2>2, <2>3
<1>4. ASSUME NEW c \in Conns, Request(c)
      PROVE  (WorkersCounted /\ SingleWinner)'
  <2>1. Critical' = Critical
    BY <1>4 DEF Request, Arrive, ReadChaos, Answer, RetryFails, RetrySucceeds,
       Finish, Goto, Critical, Outcomes, Branch, ChaosNames, Scenarios
  <2> QED BY <1>1, <1>4, <2>1 DEF Request, Arrive, ReadChaos, Answer,
             RetryFails, RetrySucceeds
<1>5. ASSUME NEW c \in Conns, Channel(c)
      PROVE  (WorkersCounted /\ SingleWinner)'
  <2>1. Critical' = Critical
    BY <1>5 DEF Channel, AcquireHandOff, AcquireFree, AcquirePark,
       AcquireTimeout, Leak, ReleaseToWaiter, ReleaseFree, ReleaseBlocks,
       Finish, Goto, Critical, Blocked, Waiters
  <2> QED BY <1>1, <1>5, <2>1 DEF Channel, AcquireHandOff, AcquireFree,
             AcquirePark, AcquireTimeout, Leak, ReleaseToWaiter, ReleaseFree,
             ReleaseBlocks
<1>6. CASE DrainToken
  BY <1>1, <1>6 DEF DrainToken, Goto, Critical, Waiters
<1>7. CASE \/ \E s \in ChaosNames : SetChaos(s)
           \/ ResetBegin \/ DrainDone \/ TickRead \/ TickSet
           \/ UNCHANGED vars
  BY <1>1, <1>7
     DEF SetChaos, ResetBegin, DrainDone, TickRead, TickSet, vars, Critical
<1> QED BY NextCases, <1>2, <1>3, <1>4, <1>5, <1>6, <1>7

LEMMA WorkersInvariant == Spec => [](TypeOK /\ WorkersCounted /\ SingleWinner)
<1>1. Init => TypeOK /\ WorkersCounted /\ SingleWinner
  BY InitTypeOK, InitWorkers
<1>2. TypeOK /\ WorkersCounted /\ SingleWinner /\ [Next]_vars
        => (TypeOK /\ WorkersCounted /\ SingleWinner)'
  BY StepTypeOK, StepWorkers
<1> QED BY <1>1, <1>2, PTL DEF Spec

(* The counter is exact, however handlers overlap.                         *)
THEOREM WorkersAreCounted == Spec => []WorkersCounted
BY WorkersInvariant, PTL

(* Of overlapping split-brain handlers at most one will answer 200.        *)
THEOREM OneWinner == Spec => []SingleWinner
BY WorkersInvariant, PTL

----------------------------------------------------------------------------
(* The channel as a pool of handles.  Which requests hold one and how many *)
(* are out changes in Channel steps and in the drain only.                 *)
LEMMA InitPool == Init => Pool!Init
BY DEF Init, Pool!Init, Holders

LEMMA RequestStutters ==
  ASSUME TypeOK, NEW c \in Conns,
         Request(c) \/ EnterCritical(c) \/ LeaveCritical(c)
  PROVE  UNCHANGED Pool!poolVars
<1>1. Holders' = Holders
  BY DEF TypeOK, Request, Arrive, ReadChaos, Answer, RetryFails,
     RetrySucceeds, EnterCritical, LeaveCritical, Finish, Goto, Holders,
     Outcomes, Branch, ChaosNames, Scenarios
<1>2. pool' = pool /\ resetting' = resetting
  BY DEF Request, Arrive, ReadChaos, Answer, RetryFails, RetrySucceeds,
     EnterCritical, LeaveCritical, chaos
<1> QED BY <1>1, <1>2 DEF Pool!poolVars

LEMMA ChannelImplements ==
  ASSUME TypeOK, ChannelConsistent, NEW c \in Conns, Channel(c)
  PROVE  [Pool!Next]_(Pool!poolVars)
<1> USE CapacityAssumption DEF TypeOK, ChannelConsistent
<1>1. CASE AcquireHandOff(c)
  <2>1. PICK b \in Blocked : pc' = [pc EXCEPT ![c] = "held", ![b] = "idle"]
    BY <1>1 DEF AcquireHandOff
  <2>2. /\ Holders' = (Holders \ {b}) \cup {c}
        /\ b \in Holders /\ c \notin Holders
    BY <1>1, <2>1 DEF AcquireHandOff, Holders, Blocked
  <2>3. pool = 0 /\ UNCHANGED <<pool, resetting>>
    BY <1>1, <2>1 DEF AcquireHandOff, chaos
  <2>4. Pool!HandOver(b, c)
    BY <2>2, <2>3 DEF Pool!HandOver
  <2> QED BY <2>1, <2>4 DEF Pool!Next, Blocked
<1>2. CASE AcquireFree(c)
  <2>1. Holders' = Holders \cup {c} /\ c \notin Holders
    BY <1>2 DEF AcquireFree, Goto, Holders
  <2>2. Pool!Take(c)
    BY <1>2, <2>1 DEF AcquireFree, Pool!Take, chaos
  <2> QED BY <2>2 DEF Pool!Next
<1>3. CASE AcquirePark(c) \/ AcquireTimeout(c) \/ ReleaseBlocks(c)
  <2>1. Holders' = Holders
    BY <1>3 DEF AcquirePark, AcquireTimeout, ReleaseBlocks, Finish, Goto,
       Holders
  <2>2. UNCHANGED <<pool, resetting>>
    BY <1>3 DEF AcquirePark, AcquireTimeout, ReleaseBlocks, chaos
  <2> QED BY <2>1, <2>2 DEF Pool!poolVars
<1>4. CASE Leak(c)
  <2>1. Holders' = Holders \ {c} /\ c \in Holders
    BY <1>4 DEF Leak, Finish, Goto, Holders
  <2>2. Pool!Lose(c)
    BY <1>4, <2>1 DEF Leak, Pool!Lose, chaos
  <2> QED BY <2>2 DEF Pool!Next
<1>5. CASE ReleaseToWaiter(c)
  <2>1. PICK w \in Waiters : pc' = [pc EXCEPT ![c] = "idle", ![w] = "held"]
    BY <1>5 DEF ReleaseToWaiter
  <2>2. /\ Holders' = (Holders \ {c}) \cup {w}
        /\ c \in Holders /\ w \notin Holders
    BY <1>5, <2>1 DEF ReleaseToWaiter, Holders, Waiters
  <2>3. pool = Capacity /\ UNCHANGED <<pool, resetting>>
    BY <1>5, <2>1 DEF ReleaseToWaiter, chaos
  <2>4. Pool!HandOver(c, w)
    BY <2>2, <2>3 DEF Pool!HandOver
  <2> QED BY <2>1, <2>4 DEF Pool!Next, Waiters
<1>6. CASE ReleaseFree(c)
  <2>1. Holders' = Holders \ {c} /\ c \in Holders
    BY <1>6 DEF ReleaseFree, Finish, Goto, Holders
  <2>2. Pool!Give(c)
    BY <1>6, <2>1 DEF ReleaseFree, Pool!Give, chaos
  <2> QED BY <2>2 DEF Pool!Next
<1> QED BY <1>1, <1>2, <1>3, <1>4, <1>5, <1>6 DEF Channel

LEMMA DrainImplements ==
  ASSUME TypeOK, ChannelConsistent, DrainToken
  PROVE  Pool!Next
<1> USE CapacityAssumption DEF TypeOK, ChannelConsistent
<1>1. CASE Waiters = {}
  <2>1. Holders' = Holders /\ pool' = pool - 1 /\ UNCHANGED resetting
    BY <1>1 DEF DrainToken, Holders, chaos
  <2>2. Pool!DrainOne
    BY <2>1 DEF DrainToken, Pool!DrainOne
  <2> QED BY <2>2 DEF Pool!Next, Pool!DrainStep
<1>2. CASE Waiters # {}
  <2>1. PICK w \in Waiters : pc' = [pc EXCEPT ![w] = "held"]
    BY <1>2 DEF DrainToken, Goto
  <2>2. Holders' = Holders \cup {w} /\ w \notin Holders
    BY <2>1 DEF Holders, Waiters
  <2>3. pool = Capacity /\ UNCHANGED <<pool, resetting>>
    BY <1>2 DEF DrainToken, chaos
  <2>4. Pool!DrainFor(w)
    BY <2>2, <2>3 DEF DrainToken, Pool!DrainFor
  <2> QED BY <2>1, <2>4 DEF Pool!Next, Pool!DrainStep, Waiters
<1> QED BY <1>1, <1>2

(* Every step of the gateway is a step of the pool of handles or leaves it *)
(* alone.                                                                  *)
LEMMA StepPool ==
  TypeOK /\ ChannelConsistent /\ [Next]_vars => [Pool!Next]_(Pool!poolVars)
<1> SUFFICES ASSUME TypeOK, ChannelConsistent, [Next]_vars
             PROVE  [Pool!Next]_(Pool!poolVars)
  OBVIOUS
<1>1. ASSUME NEW c \in Conns,
             Request(c) \/ EnterCritical(c) \/ LeaveCritical(c)
      PROVE  [Pool!Next]_(Pool!poolVars)
  BY <1>1, RequestStutters
<1>2. ASSUME NEW c \in Conns, Channel(c) PROVE [Pool!Next]_(Pool!poolVars)
  BY <1>2, ChannelImplements
<1>3. CASE ResetBegin
  <2>1. Holders' = Holders /\ UNCHANGED pool
    BY <1>3 DEF ResetBegin, Holders
  <2>2. Pool!DrainBegin
    BY <1>3, <2>1 DEF ResetBegin, ChaosLocked, Pool!DrainBegin
  <2> QED BY <2>2 DEF Pool!Next
<1>4. CASE DrainToken
  BY <1>4, DrainImplements
<1>5. CASE DrainDone
  <2>1. Holders' = Holders
    BY <1>5 DEF DrainDone, Holders
  <2>2. Pool!DrainEnd
    BY <1>5, <2>1 DEF DrainDone, Pool!DrainEnd
  <2> QED BY <2>2 DEF Pool!Next, Pool!DrainStep
<1>6. CASE \/ \E s \in ChaosNames : SetChaos(s)
           \/ TickRead \/ TickSet \/ UNCHANGED vars
  BY <1>6 DEF SetChaos, TickRead, TickSet, vars, chaos, Holders, Pool!poolVars
<1> QED BY NextCases, <1>1, <1>2, <1>3, <1>4, <1>5, <1>6

(* The dbPool channel implements the pool of handles, for any number of    *)
(* connections and any capacity.                                           *)
THEOREM ImplementsHandlePool == Spec => PoolIsHandlePool
<1>1. Init => Pool!Init
  BY InitPool
<1>2. TypeOK /\ ChannelConsistent /\ [Next]_vars
        => [Pool!Next]_(Pool!poolVars)
  BY StepPool
<1> QED
  BY <1>1, <1>2, TypeCorrect, ChannelCorrect, PTL
     DEF Spec, PoolIsHandlePool, Pool!Spec
============================================================================
