------------------------------ MODULE Gateway ------------------------------
(***************************************************************************)
(* The checkout gateway of services/gateway: the chaos switch guarded by   *)
(* chaosMu, the handlers that run concurrently behind net/http, the        *)
(* dbPool channel they share, the split-brain worker counter and the       *)
(* background ticker that publishes the pool gauge.                        *)
(*                                                                         *)
(* A connection c carries one request at a time; pc[c] says where its      *)
(* handler is.  The goroutines parked on the two ends of dbPool (the       *)
(* runtime's sendq and recvq) are the sets Waiters and Blocked: which of   *)
(* them the runtime wakes is left open.  The response is reduced to its    *)
(* status code; sleeps are reduced to the possibility of other steps       *)
(* happening in between.                                                   *)
(***************************************************************************)
EXTENDS Integers, FiniteSets

CONSTANTS
  Conns,        \* client connections, each with at most one open request
  Capacity,     \* dbPoolCapacity: the size of the dbPool buffer
  MaxRetries    \* maxRetries of the retry-storm scenario (5 in the code)

ASSUME ConnsAssumption == IsFiniteSet(Conns)
ASSUME CapacityAssumption == Capacity \in Nat \ {0}
ASSUME MaxRetriesAssumption == MaxRetries \in Nat \ {0}

VARIABLES
  activeChaos,   \* the scenario the switch in handleCheckout goes by
  resetting,     \* ResetChaos is between its Lock and its Unlock
  pool,          \* len(dbPool): handles taken and not given back
  activeWorkers, \* the shared counter of the split-brain scenario
  gauge,         \* the value last set on connectionPoolOpen
  sampled,       \* the length the ticker has read and not yet published
  pc,            \* where the handler of each connection is
  attempt,       \* the loop variable of the retry storm, 1 outside it
  workers,       \* the counter value a split-brain handler got, else 0
  status,        \* the code of the last response on the connection
  abandoned      \* history: handles leaked minus handles ResetChaos drained

vars == <<activeChaos, resetting, pool, activeWorkers, gauge, sampled, pc,
          attempt, workers, status, abandoned>>

(* The five scenarios; "none" also stands for every name the switch of     *)
(* handleCheckout does not know, since its default branch treats them so.  *)
Scenarios == {"deadlock", "retryStorm", "poolExhaustion", "packetDrop",
              "splitBrain"}
ChaosNames == Scenarios \cup {"none"}

(* Handlers that sleep and answer, with the answers they may give.  The    *)
(* deadlock scenario waits for a close after 3.1 s or a timer at 3.2 s;    *)
(* late enough, both are ready and the select takes either.                *)
PaymentCodes == {200}
NominalCodes == {200}
DeadlockCodes == {200, 504}
PacketDropCodes == {200, 503}

Outcomes == [payment  |-> PaymentCodes,
             nominal  |-> NominalCodes,
             deadlock |-> DeadlockCodes,
             packet   |-> PacketDropCodes]

PCs == DOMAIN Outcomes \cup
       {"idle", "arrived", "retry", "acquire", "waiting", "held", "blocked",
        "split", "critical"}

Codes == {0, 200, 409, 500, 503, 504}
NoSample == -1

Waiters == {c \in Conns : pc[c] = "waiting"}
Blocked == {c \in Conns : pc[c] = "blocked"}
Critical == {c \in Conns : pc[c] = "critical"}
(* Requests that have put a handle in the pool and still owe the receive.  *)
Holders == {c \in Conns : pc[c] \in {"held", "blocked"}}

(* Definitions named ..._Fault are not part of the specification: each is  *)
(* a bug the definition after it might have had, and breaks a property.    *)

(* Scenario reads and writes that do not take chaosMu.                     *)
ChaosLocked_Fault == FALSE

(* SetChaos and ResetChaos take the write lock, GetChaos the read lock.    *)
ChaosLocked == resetting

----------------------------------------------------------------------------
Init ==
  /\ activeChaos = "none"
  /\ resetting = FALSE
  /\ pool = 0
  /\ activeWorkers = 0
  /\ gauge = 0
  /\ sampled = NoSample
  /\ pc = [c \in Conns |-> "idle"]
  /\ attempt = [c \in Conns |-> 1]
  /\ workers = [c \in Conns |-> 0]
  /\ status = [c \in Conns |-> 0]
  /\ abandoned = 0

Goto(c, l) == pc' = [pc EXCEPT ![c] = l]

Finish(c, code) ==
  /\ Goto(c, "idle")
  /\ status' = [status EXCEPT ![c] = code]

ticker == <<gauge, sampled>>
chaos == <<activeChaos, resetting>>

(* A request for checkout or for payment reaches its handler.              *)
Arrive(c) ==
  /\ pc[c] = "idle"
  /\ \E l \in {"arrived", "payment"} : Goto(c, l)
  /\ status' = [status EXCEPT ![c] = 0]
  /\ UNCHANGED <<chaos, pool, activeWorkers, ticker, attempt, workers,
                 abandoned>>

Branch == [none |-> "nominal", deadlock |-> "deadlock", retryStorm |-> "retry",
           poolExhaustion |-> "acquire", packetDrop |-> "packet",
           splitBrain |-> "split"]

(* handleCheckout reads the scenario once, and its switch goes by that     *)
(* reading however the scenario changes afterwards.                        *)
ReadChaos(c) ==
  /\ pc[c] = "arrived"
  /\ ~ChaosLocked
  /\ Goto(c, Branch[activeChaos])
  /\ UNCHANGED <<chaos, pool, activeWorkers, ticker, attempt, workers, status,
                 abandoned>>

Answer(c) ==
  /\ pc[c] \in DOMAIN Outcomes
  /\ \E code \in Outcomes[pc[c]] : Finish(c, code)
  /\ UNCHANGED <<chaos, pool, activeWorkers, ticker, attempt, workers,
                 abandoned>>

(* An off-by-one in the loop condition: attempt <= maxRetries + 1.         *)
RetryFails_Fault(c) ==
  /\ pc[c] = "retry"
  /\ IF attempt[c] <= MaxRetries
     THEN /\ attempt' = [attempt EXCEPT ![c] = @ + 1]
          /\ UNCHANGED <<pc, status>>
     ELSE /\ attempt' = [attempt EXCEPT ![c] = 1]
          /\ Finish(c, 500)
  /\ UNCHANGED <<chaos, pool, activeWorkers, ticker, workers, abandoned>>

(* executeRetryStormScenario: one turn of the loop.                        *)
RetryFails(c) ==
  /\ pc[c] = "retry"
  /\ IF attempt[c] < MaxRetries
     THEN /\ attempt' = [attempt EXCEPT ![c] = @ + 1]
          /\ UNCHANGED <<pc, status>>
     ELSE /\ attempt' = [attempt EXCEPT ![c] = 1]
          /\ Finish(c, 500)
  /\ UNCHANGED <<chaos, pool, activeWorkers, ticker, workers, abandoned>>

RetrySucceeds(c) ==
  /\ pc[c] = "retry"
  /\ attempt' = [attempt EXCEPT ![c] = 1]
  /\ Finish(c, 200)
  /\ UNCHANGED <<chaos, pool, activeWorkers, ticker, workers, abandoned>>

----------------------------------------------------------------------------
(* executeConnectionPoolExhaustionScenario.  A send on dbPool goes         *)
(* straight to a goroutine parked in a receive if there is one, into the   *)
(* buffer if there is room, and parks the sender otherwise.                *)
AcquireHandOff(c) ==
  /\ pc[c] = "acquire"
  /\ \E b \in Blocked :
        /\ pc' = [pc EXCEPT ![c] = "held", ![b] = "idle"]
        /\ status' = [status EXCEPT ![b] = 200]
  /\ UNCHANGED <<chaos, pool, activeWorkers, ticker, attempt, workers,
                 abandoned>>

AcquireFree(c) ==
  /\ pc[c] = "acquire"
  /\ Blocked = {}
  /\ pool < Capacity
  /\ pool' = pool + 1
  /\ Goto(c, "held")
  /\ UNCHANGED <<chaos, activeWorkers, ticker, attempt, workers, status,
                 abandoned>>

AcquirePark(c) ==
  /\ pc[c] = "acquire"
  /\ Blocked = {}
  /\ pool = Capacity
  /\ Goto(c, "waiting")
  /\ UNCHANGED <<chaos, pool, activeWorkers, ticker, attempt, workers, status,
                 abandoned>>

Acquire(c) == AcquireHandOff(c) \/ AcquireFree(c) \/ AcquirePark(c)

(* The receive deferred before the select: a timeout gives back a handle   *)
(* it never took.                                                          *)
AcquireTimeout_Fault(c) ==
  /\ pc[c] = "waiting"
  /\ pool' = pool - 1
  /\ Finish(c, 504)
  /\ UNCHANGED <<chaos, activeWorkers, ticker, attempt, workers, abandoned>>

(* No time.After arm in the select.                                        *)
AcquireTimeout_NoTimer(c) == FALSE

(* The 5 s arm of the select fires while the sender is still parked.       *)
AcquireTimeout(c) ==
  /\ pc[c] = "waiting"
  /\ Finish(c, 504)
  /\ UNCHANGED <<chaos, pool, activeWorkers, ticker, attempt, workers,
                 abandoned>>

(* The 85% branch answers without receiving from dbPool.                   *)
Leak(c) ==
  /\ pc[c] = "held"
  /\ Finish(c, 200)
  /\ abandoned' = abandoned + 1
  /\ UNCHANGED <<chaos, pool, activeWorkers, ticker, attempt, workers>>

(* A receive from dbPool.  With a sender parked the buffer is full: the    *)
(* receiver takes a handle and the sender's goes in its place.  With an    *)
(* empty buffer the handler parks, with no timeout.                        *)
ReleaseToWaiter(c) ==
  /\ pc[c] = "held"
  /\ \E w \in Waiters : pc' = [pc EXCEPT ![c] = "idle", ![w] = "held"]
  /\ status' = [status EXCEPT ![c] = 200]
  /\ UNCHANGED <<chaos, pool, activeWorkers, ticker, attempt, workers,
                 abandoned>>

(* A release that does not wake the sender parked on the pool.             *)
ReleaseFree_Fault(c) ==
  /\ pc[c] = "held"
  /\ pool > 0
  /\ pool' = pool - 1
  /\ Finish(c, 200)
  /\ UNCHANGED <<chaos, activeWorkers, ticker, attempt, workers, abandoned>>

ReleaseFree(c) ==
  /\ pc[c] = "held"
  /\ Waiters = {}
  /\ pool > 0
  /\ pool' = pool - 1
  /\ Finish(c, 200)
  /\ UNCHANGED <<chaos, activeWorkers, ticker, attempt, workers, abandoned>>

ReleaseBlocks(c) ==
  /\ pc[c] = "held"
  /\ pool = 0
  /\ Goto(c, "blocked")
  /\ UNCHANGED <<chaos, pool, activeWorkers, ticker, attempt, workers, status,
                 abandoned>>

Release(c) == ReleaseToWaiter(c) \/ ReleaseFree(c) \/ ReleaseBlocks(c)

----------------------------------------------------------------------------
(* executeSplitBrainScenario: the increment is made under splitBrainMu,    *)
(* the deferred decrement is an atomic add on return.                      *)
(* The counter read before it is incremented.                              *)
EnterCritical_Fault(c) ==
  /\ pc[c] = "split"
  /\ activeWorkers' = activeWorkers + 1
  /\ workers' = [workers EXCEPT ![c] = activeWorkers]
  /\ Goto(c, "critical")
  /\ UNCHANGED <<chaos, pool, ticker, attempt, status, abandoned>>

EnterCritical(c) ==
  /\ pc[c] = "split"
  /\ activeWorkers' = activeWorkers + 1
  /\ workers' = [workers EXCEPT ![c] = activeWorkers']
  /\ Goto(c, "critical")
  /\ UNCHANGED <<chaos, pool, ticker, attempt, status, abandoned>>

LeaveCritical(c) ==
  /\ pc[c] = "critical"
  /\ activeWorkers' = activeWorkers - 1
  /\ workers' = [workers EXCEPT ![c] = 0]
  /\ Finish(c, IF workers[c] > 1 THEN 409 ELSE 200)
  /\ UNCHANGED <<chaos, pool, ticker, attempt, abandoned>>

----------------------------------------------------------------------------
(* handleChaosInject stores whatever name it is given.                     *)
SetChaos(s) ==
  /\ ~ChaosLocked
  /\ activeChaos' = s
  /\ UNCHANGED <<resetting, pool, activeWorkers, ticker, pc, attempt, workers,
                 status, abandoned>>

(* ResetChaos, called by handleChaosReset and on SIGHUP: it takes the      *)
(* write lock, then receives from dbPool until a receive would block.      *)
ResetBegin ==
  /\ ~ChaosLocked
  /\ resetting' = TRUE
  /\ activeChaos' = "none"
  /\ UNCHANGED <<pool, activeWorkers, ticker, pc, attempt, workers, status,
                 abandoned>>

DrainToken ==
  /\ resetting
  /\ pool > 0
  /\ IF Waiters # {}
     THEN /\ \E w \in Waiters : Goto(w, "held")
          /\ UNCHANGED pool
     ELSE /\ pool' = pool - 1
          /\ UNCHANGED pc
  /\ abandoned' = abandoned - 1
  /\ UNCHANGED <<chaos, activeWorkers, ticker, attempt, workers, status>>

(* The loop left after some number of receives instead of at the first one *)
(* that would block.                                                       *)
DrainDone_Fault ==
  /\ resetting
  /\ resetting' = FALSE
  /\ gauge' = 0
  /\ UNCHANGED <<activeChaos, pool, activeWorkers, sampled, pc, attempt,
                 workers, status, abandoned>>

DrainDone ==
  /\ resetting
  /\ pool = 0
  /\ resetting' = FALSE
  /\ gauge' = 0
  /\ UNCHANGED <<activeChaos, pool, activeWorkers, sampled, pc, attempt,
                 workers, status, abandoned>>

(* The ticker reads the length of dbPool and sets the gauge: two steps,    *)
(* with no lock over them.                                                 *)
TickRead ==
  /\ sampled = NoSample
  /\ sampled' = pool
  /\ UNCHANGED <<chaos, pool, activeWorkers, gauge, pc, attempt, workers,
                 status, abandoned>>

(* The length read once, before the loop of the ticker.                    *)
TickSet_Fault ==
  /\ sampled # NoSample
  /\ gauge' = sampled
  /\ UNCHANGED <<chaos, pool, activeWorkers, sampled, pc, attempt, workers,
                 status, abandoned>>

TickSet ==
  /\ sampled # NoSample
  /\ gauge' = sampled
  /\ sampled' = NoSample
  /\ UNCHANGED <<chaos, pool, activeWorkers, pc, attempt, workers, status,
                 abandoned>>

----------------------------------------------------------------------------
(* What the handler of c does by itself once it runs.                      *)
Work(c) ==
  \/ Answer(c) \/ RetryFails(c) \/ RetrySucceeds(c)
  \/ Acquire(c) \/ AcquireTimeout(c) \/ Leak(c) \/ Release(c)
  \/ EnterCritical(c) \/ LeaveCritical(c)

Drain == DrainToken \/ DrainDone
Tick == TickRead \/ TickSet

Next ==
  \/ \E c \in Conns : Arrive(c) \/ ReadChaos(c) \/ Work(c)
  \/ \E s \in ChaosNames : SetChaos(s)
  \/ ResetBegin
  \/ Drain
  \/ Tick

Spec == Init /\ [][Next]_vars

(* The Go scheduler runs every runnable goroutine, timers fire, and a      *)
(* RWMutex admits the readers that queue behind a writer before the next   *)
(* writer (hence SF on the read).  Clients, operators and signals owe      *)
(* nothing: Arrive, SetChaos and ResetBegin are not fair.                  *)
Fairness ==
  /\ \A c \in Conns : WF_vars(Work(c)) /\ SF_vars(ReadChaos(c))
  /\ WF_vars(Drain)
  /\ WF_vars(Tick)

FairSpec == Spec /\ Fairness

----------------------------------------------------------------------------
(* Every variable keeps its type; the pool never exceeds the buffer        *)
(* make(chan struct{}, poolCapacity) gave it.                              *)
TypeOK ==
  /\ activeChaos \in ChaosNames
  /\ resetting \in BOOLEAN
  /\ pool \in 0..Capacity
  /\ activeWorkers \in Int
  /\ gauge \in 0..Capacity
  /\ sampled \in 0..Capacity \cup {NoSample}
  /\ pc \in [Conns -> PCs]
  /\ attempt \in [Conns -> 1..MaxRetries]
  /\ workers \in [Conns -> Int]
  /\ status \in [Conns -> Codes]
  /\ abandoned \in Int

(* No lost wake-up: a handler is parked in the select of the               *)
(* pool-exhaustion scenario only while every handle is out, and parked in  *)
(* its release only while none is, whatever the drain of ResetChaos and    *)
(* other handlers have done to the channel in between.                     *)
ChannelConsistent ==
  /\ Waiters # {} => pool = Capacity
  /\ Blocked # {} => pool = 0

(* The books balance: the handles out are those whose request still owes   *)
(* a receive, plus those leaked, minus those ResetChaos took.  A 504 or a  *)
(* hand-over between a release and a parked sender never changes the sum.  *)
PoolBalance == pool = Cardinality(Holders) + abandoned

(* activeWorkers counts the split-brain handlers between their increment   *)
(* and their deferred decrement.                                           *)
WorkersCounted == activeWorkers = Cardinality(Critical)

(* Of the split-brain handlers that overlap at most one will answer 200:   *)
(* the others saw a counter above one and answer 409.                      *)
SingleWinner ==
  \A c, d \in Critical : workers[c] <= 1 /\ workers[d] <= 1 => c = d

(* connection_pool_exhausted is answered only when the pool is exhausted.  *)
TimeoutOnlyWhenExhausted ==
  [][\A c \in Conns : pc[c] = "waiting" /\ pc'[c] = "idle"
        => status'[c] = 504 /\ pool = Capacity]_vars

(* A checkout or payment that reached its handler is answered, unless it   *)
(* ends up parked in the receive of its own release: that is the only      *)
(* place in the gateway where a request can hang.                          *)
OnlyReleaseHangs ==
  \A c \in Conns : pc[c] # "idle" ~> pc[c] \in {"idle", "blocked"}

(* ResetChaos terminates: while it holds chaosMu no new request can reach  *)
(* the pool, so the loop cannot be fed forever.                            *)
DrainEnds == resetting ~> ~resetting

(* The gauge follows the pool: once the pool stays at n the gauge does,    *)
(* in spite of a value the ticker read before a reset and set after it.    *)
GaugeCatchesUp == \A n \in 0..Capacity : <>[](pool = n) => <>[](gauge = n)

(* The channel implements the pool: hidden behind parked senders and       *)
(* receivers, time-outs and the wake-ups the runtime chooses, requests     *)
(* take, give and hand over at most Capacity handles, only the leak loses  *)
(* one and only the drain takes what it did not put in, until none is out. *)
Pool == INSTANCE HandlePool
          WITH Users <- Conns, holders <- Holders, out <- pool,
               draining <- resetting

PoolIsHandlePool == Pool!Spec

(* "Normal release" (handlers.go:172): a request that holds a handle is    *)
(* answered.  The code does not keep this.                                 *)
EveryReleaseReturns == \A c \in Conns : pc[c] = "held" ~> pc[c] = "idle"
============================================================================
