--------------------------- MODULE LoadGenerator ---------------------------
(***************************************************************************)
(* traffic/load_generator.py: the controlling thread that starts and stops *)
(* the generator, the worker threads that run _run_loop, the simulation    *)
(* profile the chaos injector sets, and the ring buffer of samples.        *)
(*                                                                         *)
(* A sample is reduced to what current_error_rate tells apart: an answer   *)
(* below 500 ("ok"), one of 500 and above ("error"), no answer ("none",    *)
(* status 0).  A thread object is an identifier that can be taken again    *)
(* once its run is over.                                                   *)
(***************************************************************************)
EXTENDS Integers, Sequences, FiniteSets

CONSTANTS
  Threads,      \* identifiers for worker threads (bound: live at one time)
  MaxSamples,   \* max_samples, the length of the ring buffer
  Fallback,     \* enable_simulation_fallback
  NoThread      \* the None of _worker_thread

ASSUME ThreadsAssumption == NoThread \notin Threads
ASSUME MaxSamplesAssumption == MaxSamples \in Nat \ {0}
ASSUME FallbackAssumption == Fallback \in BOOLEAN

VARIABLES
  running,       \* _running
  workerThread,  \* _worker_thread
  ctl,           \* where the controlling thread is in start or stop
  pc,            \* where each worker is in _run_loop
  sample,        \* the sample a worker has made and not recorded
  errorRate,     \* _simulated_error_rate, by what it can produce
  simulated,     \* _simulated_mode
  ring,          \* _ring_buffer
  reachable,     \* environment: a gateway listens at base_url
  abandoned      \* history: live threads whose join timed out

vars == <<running, workerThread, ctl, pc, sample, errorRate, simulated, ring,
          reachable, abandoned>>

Outcomes == {"ok", "error", "none"}
NoOutcome == "empty"

(* What a simulated sample can be under each error rate: 0, between, 1.    *)
Simulable == [zero |-> {"ok"}, some |-> {"ok", "error"}, one |-> {"error"}]

Live == {t \in Threads : pc[t] # "dead"}

(* Definitions named ..._Fault are not part of the specification: each is  *)
(* a bug the definition after it might have had, and breaks a property.    *)

(* A deque without maxlen, and a buffer that refuses samples when full.    *)
Push_Fault(s, x) == Append(s, x)
Push_FullFault(s, x) == IF Len(s) < MaxSamples THEN Append(s, x) ELSE s

(* deque(maxlen): the newest sample pushes out the oldest.                 *)
Push(s, x) == IF Len(s) < MaxSamples THEN Append(s, x) ELSE Append(Tail(s), x)

----------------------------------------------------------------------------
Init ==
  /\ running = FALSE
  /\ workerThread = NoThread
  /\ ctl = "idle"
  /\ pc = [t \in Threads |-> "dead"]
  /\ sample = [t \in Threads |-> NoOutcome]
  /\ errorRate = "zero"
  /\ simulated = FALSE
  /\ ring = <<>>
  /\ reachable \in BOOLEAN
  /\ abandoned = {}

profile == <<errorRate, simulated, reachable>>
control == <<running, workerThread, ctl>>

(* A start that does not look at the flag first.                           *)
StartSet_Fault ==
  /\ ctl = "idle"
  /\ Live # Threads
  /\ running' = TRUE
  /\ ctl' = "spawn"
  /\ UNCHANGED <<workerThread, pc, sample, profile, ring, abandoned>>

(* start: the flag is set before the thread exists, so a worker that an    *)
(* earlier stop gave up on can see it.  A start while running returns.     *)
StartSet ==
  /\ ctl = "idle"
  /\ ~running
  /\ Live # Threads
  /\ running' = TRUE
  /\ ctl' = "spawn"
  /\ UNCHANGED <<workerThread, pc, sample, profile, ring, abandoned>>

Spawn ==
  /\ ctl = "spawn"
  /\ \E t \in Threads \ Live :
        /\ workerThread' = t
        /\ pc' = [pc EXCEPT ![t] = "check"]
  /\ ctl' = "idle"
  /\ UNCHANGED <<running, sample, profile, ring, abandoned>>

(* stop clears the flag and joins the current worker if it is alive.       *)
StopSet ==
  /\ ctl = "idle"
  /\ running
  /\ running' = FALSE
  /\ ctl' = IF workerThread \in Live THEN "join" ELSE "idle"
  /\ UNCHANGED <<workerThread, pc, sample, profile, ring, abandoned>>

JoinReturns ==
  /\ ctl = "join"
  /\ workerThread \notin Live
  /\ ctl' = "idle"
  /\ UNCHANGED <<running, workerThread, pc, sample, profile, ring, abandoned>>

(* join(timeout=3.0) gives up on a worker inside a request: a request may  *)
(* take 4 s, everything else in the loop at most a tenth of a second.      *)
JoinTimesOut ==
  /\ ctl = "join"
  /\ workerThread \in Live
  /\ pc[workerThread] = "http"
  /\ ctl' = "idle"
  /\ abandoned' = abandoned \cup {workerThread}
  /\ UNCHANGED <<running, workerThread, pc, sample, profile, ring>>

----------------------------------------------------------------------------
(* _run_loop: the loop condition, ...                                      *)
LoopTest(t) ==
  /\ pc[t] = "check"
  /\ IF running
     THEN /\ pc' = [pc EXCEPT ![t] = "mode"]
          /\ UNCHANGED abandoned
     ELSE /\ pc' = [pc EXCEPT ![t] = "dead"]
          /\ abandoned' = abandoned \ {t}
  /\ UNCHANGED <<control, sample, profile, ring>>

(* ... the choice between a simulated and a live sample, ...               *)
ModeTest(t) ==
  /\ pc[t] = "mode"
  /\ pc' = [pc EXCEPT ![t] = IF simulated THEN "simulate" ELSE "http"]
  /\ UNCHANGED <<control, sample, profile, ring, abandoned>>

(* ... _execute_http_request, which turns every failure to get an answer   *)
(* into status 0 (a gateway that is there can still be too slow), replaced *)
(* by a simulated sample when Fallback is set, as is, Fallback or not, the *)
(* sample of a request an exception escapes from, ...                      *)
Replies == IF reachable THEN Outcomes ELSE {"none"}

(* A request whose failure escapes from the loop and ends the thread.      *)
HttpReturns_Fault(t) ==
  /\ pc[t] = "http"
  /\ \E x \in Replies :
        IF x = "none"
        THEN /\ pc' = [pc EXCEPT ![t] = "dead"]
             /\ UNCHANGED sample
        ELSE /\ pc' = [pc EXCEPT ![t] = "record"]
             /\ sample' = [sample EXCEPT ![t] = x]
  /\ UNCHANGED <<control, profile, ring, abandoned>>

(* A request retried until it is answered.                                 *)
HttpReturns_RetryFault(t) ==
  /\ pc[t] = "http"
  /\ \E x \in Replies \ {"none"} : sample' = [sample EXCEPT ![t] = x]
  /\ pc' = [pc EXCEPT ![t] = "record"]
  /\ UNCHANGED <<control, profile, ring, abandoned>>

HttpReturns(t) ==
  /\ pc[t] = "http"
  /\ \/ /\ pc' = [pc EXCEPT ![t] = "simulate"]
        /\ UNCHANGED sample
     \/ /\ pc' = [pc EXCEPT ![t] = "record"]
        /\ \E x \in Replies :
              /\ x = "none" => ~Fallback
              /\ sample' = [sample EXCEPT ![t] = x]
  /\ UNCHANGED <<control, profile, ring, abandoned>>

(* ... _generate_simulated_sample, which reads the profile unlocked, ...   *)
Simulate(t) ==
  /\ pc[t] = "simulate"
  /\ \E x \in Simulable[errorRate] : sample' = [sample EXCEPT ![t] = x]
  /\ pc' = [pc EXCEPT ![t] = "record"]
  /\ UNCHANGED <<control, profile, ring, abandoned>>

(* ... and record_sample, which appends under the lock.                    *)
RecordSample(t) ==
  /\ pc[t] = "record"
  /\ ring' = Push(ring, sample[t])
  /\ sample' = [sample EXCEPT ![t] = NoOutcome]
  /\ pc' = [pc EXCEPT ![t] = "check"]
  /\ UNCHANGED <<control, profile, abandoned>>

SetSimulationProfile(r, m) ==
  /\ errorRate' = r
  /\ simulated' = m
  /\ UNCHANGED <<control, pc, sample, ring, reachable, abandoned>>

Clear ==
  /\ ring' = <<>>
  /\ UNCHANGED <<control, pc, sample, profile, abandoned>>

(* Environment: the gateway goes away or comes back.                       *)
GatewayFlips ==
  /\ reachable' = ~reachable
  /\ UNCHANGED <<control, pc, sample, errorRate, simulated, ring, abandoned>>

----------------------------------------------------------------------------
Controller == StartSet \/ Spawn \/ StopSet \/ JoinReturns \/ JoinTimesOut

RunLoop(t) ==
  LoopTest(t) \/ ModeTest(t) \/ HttpReturns(t) \/ Simulate(t) \/ RecordSample(t)

Next ==
  \/ Controller
  \/ \E t \in Threads : RunLoop(t)
  \/ \E r \in DOMAIN Simulable, m \in BOOLEAN : SetSimulationProfile(r, m)
  \/ Clear
  \/ GatewayFlips

Spec == Init /\ [][Next]_vars

(* Workers are scheduled, requests time out, and a call to start or stop   *)
(* that has begun is finished; nobody has to make such a call.             *)
FairSpec ==
  /\ Spec
  /\ \A t \in Threads : WF_vars(RunLoop(t))
  /\ WF_vars(Spawn \/ JoinReturns \/ JoinTimesOut)

----------------------------------------------------------------------------
(* Every variable keeps its type and the ring its bound.                   *)
TypeOK ==
  /\ running \in BOOLEAN
  /\ workerThread \in Threads \cup {NoThread}
  /\ ctl \in {"idle", "spawn", "join"}
  /\ pc \in [Threads -> {"dead", "check", "mode", "http", "simulate",
                         "record"}]
  /\ sample \in [Threads -> Outcomes \cup {NoOutcome}]
  /\ errorRate \in DOMAIN Simulable
  /\ simulated \in BOOLEAN
  /\ ring \in Seq(Outcomes)
  /\ Len(ring) <= MaxSamples
  /\ reachable \in BOOLEAN
  /\ abandoned \subseteq Threads

(* A generator that says it is running has the worker it points to alive:  *)
(* no failed request, timed-out join or quick stop and start leaves the    *)
(* flag set with nobody producing traffic.                                 *)
RunningMeansServed ==
  running /\ ctl # "spawn" => workerThread \in Live

(* The only workers that run beside the current one are those a stop gave  *)
(* up waiting for: start never leaves a second worker by itself.           *)
ExtraWorkersWereAbandoned == Live \ {workerThread} \subseteq abandoned

(* A generator that is stopped for good falls silent: every worker, the    *)
(* abandoned ones too, ends.                                               *)
StoppedFallsSilent == <>[](~running) => <>[](Live = {})

(* A reset of the profile (error rate 0) is seen in the telemetry: once    *)
(* traffic stays simulated, or keeps falling back to simulation because no *)
(* gateway answers, the errors recorded before, or recorded late by a      *)
(* worker that was in a request, leave the ring.                           *)
Recovered == running /\ errorRate = "zero"
RecoveryIsSeen ==
  (\/ <>[](Recovered /\ simulated)
   \/ <>[](Recovered /\ Fallback /\ ~reachable))
    => <>[](\A i \in 1..Len(ring) : ring[i] = "ok")

(* "Stops the background traffic generation worker." (line 85): there is   *)
(* never more than one worker.  The code does not keep this.               *)
SingleWorker == Cardinality(Live) <= 1
============================================================================
