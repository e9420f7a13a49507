# A TLA+ model of the APEX-SRE benchmark

The repository is a benchmark for incident-response agents.  A Go *checkout
gateway* is put into one of five failure scenarios, a Python *load generator*
produces the traffic an incident shows up in, an *agent* diagnoses and repairs
through a set of *tools*, and a deterministic *oracle* turns the state and the
audit trail into a verdict.  This directory holds TLA+ modules for the parts
that carry the program's own logic, TLC configurations that check them on small
instances, and proofs checked by TLAPS that hold for every value of the
constants.

    tlc -config Gateway.cfg Gateway              one run (see "Runs")
    tlapm GatewayProofs.tla                      one proof module

## 1. Inventory

| Component | State | Operations | Talks to |
|---|---|---|---|
| Gateway handlers, `services/gateway/handlers.go` | `dbPool` (a buffered channel), `activeWorkers`, `requestCounter`, one goroutine per request | `handleCheckout` with one branch per scenario, `handlePayment`, `handleHealthz`, `/chaos/*` | shared state with the chaos switch; Redis in the nominal branch |
| Chaos switch and gauge, `services/gateway/main.go` | `activeChaos` under `chaosMu`, gauge `connectionPoolOpen` | `SetChaos`, `GetChaos`, `ResetChaos` (drains `dbPool` under the lock), the 500 ms ticker | called by handlers and on SIGHUP |
| Gateway lifecycle, `main.go:211-236` | `sigChan` (buffer 1), two servers | SIGHUP resets, SIGINT/SIGTERM shut down | ResetChaos |
| Load generator, `traffic/load_generator.py` | `_running`, `_worker_thread`, simulation profile, ring of samples | `start`, `stop`, `set_simulation_profile`, `clear`, `_run_loop`, windowed readers | HTTP to the gateway; profile set by the injector; read by the oracle |
| Tool environment, `tools/sre_tools.py` | `call_history`, `simulated_context`, two report artifacts, restart counters | four telemetry tools, three mutating tools, two report tools | docker, Prometheus (with simulated fallbacks) |
| Oracle, `evaluator/` | none | `evaluate_episode` and the five metrics it combines | reads the tool environment and the generator |
| Chaos injector, `chaos/injector.py` | active incident, cached gateway availability | `inject`, `reset` | HTTP to the gateway, profile of the generator |
| Live agent, `agent/live_agent.py` | message history, turn and attempt counters, the model in use | turn loop, model API with retries and fallbacks | tools, through `handle_request` of the MCP server |
| Evaluation runner, `agent/eval_runner.py` | reports, trajectory | `run_scenario`, suite, export | agents, oracle |
| MCP server, `tools/mcp_server_stdio.py` | one tool environment | one JSON-RPC line in, one out | tools |
| Scenario catalogue, mock agents, Stirrup adapter, compose files | constant data or fixed sequences | | |

What is hard in it, and what correctness means:

* **Gateway.**  Handlers run concurrently and share a channel that a reset also
  empties, a switch that may change while they act on an old reading, and a
  counter that is raised under a mutex and lowered without it.  Correct means:
  no lost wake-up on the channel, no handle made or lost by accident, a timeout
  only when the pool really is exhausted, one winner among overlapping
  split-brain requests, every request answered, every reset finished, a gauge
  that ends up right.
* **Load generator.**  `stop` waits three seconds for a worker whose request may
  take four, and `start` reuses the flag the old worker still tests.  Correct
  means: somebody serves while it says it is running, extra workers only where
  a stop gave up, silence after a stop, and telemetry that forgets an incident
  that is over.
* **Episode (tools and oracle).**  An agent calls tools in any order.  Correct
  means: the counters and flags the oracle trusts agree with the trail, and the
  formula rewards what the documentation says it rewards, whatever the order.
* **Live agent.**  A loop of turns around a loop of attempts around an API that
  fails in several ways, with a fallback model chosen in between, and tool calls
  that may fail.  Correct means: the loop ends, the conversation it sends stays one
  the APIs accept, a missing model does not cost the episode while its fallback
  is there, and nothing but tool calls touches the episode.
* **Injector and hotfix.**  Calls over HTTP that are lost, late or refused, made by
  two classes that each remember for good whether they once found a gateway, to a
  gateway that may crash.  Correct means: what a call reports is so, an injected
  incident shows somewhere, and a remediation that counts has reached the gateway.
* **Gateway process.**  One slot for signals, a shutdown that does not wait, keys in
  Redis that outlive the process.  Correct means: a signal that was queued is acted on,
  and no key stays in Redis for good.
* **Runner, scripted agents, adapter.**  Several episodes in one process, calls that
  take time, agents that raise.  Correct means: the two personas earn what they are
  there to earn, whoever ran before, and what is finished is kept.
* **TTM from telemetry.**  A verdict over a series with gaps that is still growing.
  Correct means: a relapse takes it back, it becomes final, it is what the formula says,
  and hurting the service never improves it.

`PROJECT.json` lists each of these hazards at its line, with the properties that
cover it or the reason why none does.

## 2. Modules

| Module | Models | Proved in | Run through |
|---|---|---|---|
| `Gateway` | handlers, `dbPool`, chaos switch, ticker | `GatewayProofs` | itself |
| `HandlePool` | what `dbPool` promises, without channels | `GatewayProofs` (the refinement) | `Gateway` |
| `GatewayProcess` | signals, shutdown, restart, the Redis lock of a checkout | `GatewayProcessProofs` | itself |
| `LoadGenerator` | the controlling thread, the workers, the ring | `LoadGeneratorProofs` | itself |
| `ChaosControl` | injector and hotfix, HTTP, the gateway's switch, the profile | `ChaosControlProofs` | itself |
| `Episode` | the tools, the audit trail, the verdict | `EpisodeProofs` | `MCEpisode` (names and inputs) |
| `LiveAgent` | the live agent acting on an `Episode` | `LiveAgentProofs` | `MCLiveAgent` (names and inputs) |
| `Suite` | runner, scripted agents, adapter: many episodes | `SuiteProofs` | `MCSuite` (names and inputs) |
| `Ttm` | `compute_ttm` over a growing series | `TtmProofs` | itself |

How they fit together.  `LiveAgent` and `Suite` extend `Episode`: they have the variables
of the episode beside their own, their tool calls are its actions, and for `LiveAgent` it
is at the same time the abstract specification it must implement.  `Gateway` implements
`HandlePool` by a refinement mapping (`Pool == INSTANCE HandlePool WITH ...`).
`ChaosControl` composes the switch of the gateway, the profile of the generator and the
remediation flag of the episode, each reduced to what the calls between them change.
`GatewayProcess` reduces the scenarios of `Gateway` to whether one is on.

An operator called `..._Fault` (or `..._NoTimer`) stands just before the
definition it varies and is not part of the specification.  It is a bug that
definition might have had: an off-by-one, a missing reset, an early return.
Putting it in the place of the definition makes TLC find the property it was
written for violated, which shows that the property depends on the code being
as it is.

### Gateway

A connection carries one request at a time and `pc[c]` says where its handler
is.  `Arrive` is net/http calling a handler, `ReadChaos` is the `GetChaos()` of
`handleCheckout` followed by its switch, and what follows is one action or a few
per branch: `Answer` for the handlers that only sleep and answer (payment,
nominal, deadlock, packet drop, with the codes each may give), `RetryFails` and
`RetrySucceeds` for a turn of the retry loop, `EnterCritical` and
`LeaveCritical` for the split-brain scenario.

The pool-exhaustion scenario is modelled at the level of Go channels, because
that is where it can go wrong.  `pool` is `len(dbPool)`; the goroutines parked on
a send are `Waiters`, those parked on a receive are `Blocked`.  A send goes to a
parked receiver, into the buffer, or parks (`AcquireHandOff`, `AcquireFree`,
`AcquirePark`); a receive with a parked sender takes a handle and lets the
sender's in (`ReleaseToWaiter`), otherwise empties a slot (`ReleaseFree`), and
with an empty buffer parks without a timeout (`ReleaseBlocks`).  `Leak` is the
85 % branch, `AcquireTimeout` the 5 s arm.  `ResetChaos` is `ResetBegin`, one
`DrainToken` per receive of its loop and `DrainDone`, with the write lock held in
between (`resetting`), so that handlers already past the switch interleave with
the drain.  `TickRead` and `TickSet` are the two halves of
`connectionPoolOpen.Set(float64(len(server.dbPool)))`.

`HandlePool` says what all this amounts to: requests take, give, lose and hand over at
most `Capacity` handles, and a drain, which alone takes handles it was not given, ends
only when none is out.  The mapping sends the handlers that owe a receive (`held`,
`blocked`) to `holders`, `len(dbPool)` to `out`, and the reset under way to `draining`;
parking, waking, time-outs and everything outside the pool are stuttering steps.  A
hand-over is allowed only at the limits, an empty or a full pool: that is what keeps a
goroutine from being woken that should not have been parked.

`abandoned` is a history variable: handles leaked minus handles drained.

Abstractions: durations are dropped (a sleep is the possibility that others
move first), so a timeout may fire whenever its guard holds; a random branch is a
nondeterministic one; the response is its status code; `"none"` in `SetChaos`
stands for every name the switch does not know, which `handleChaosInject` stores
as readily as the five it does.  `SetChaos` is one step: nothing happens between
its `Lock` and `Unlock` that another goroutine could see.  The deadlock scenario's
helper goroutines and its two private mutexes are reduced to the answers its
`select` can give: at 3.2 s both the close and the timer may be ready.

### LoadGenerator

One controlling thread (`ctl`) calls `start` and `stop`, as every use in the
repository does; `Threads` are the identifiers of worker threads, reused once
dead, and their number bounds how many live at once (`StartSet` is disabled when
none is left).  `start` is `StartSet` (the flag) and `Spawn` (the thread) because
another worker can see the flag in between.  `stop` is `StopSet` and then
`JoinReturns` or `JoinTimesOut`; the latter is possible only while the worker is in
`http`, since no other part of the loop takes as long as the join.  A worker walks
through `_run_loop`: `LoopTest`, `ModeTest`, `HttpReturns`, `Simulate`,
`RecordSample`.  A sample is `ok`, `error` (status 500 and above) or `none` (status
0); the error rate of the profile is `zero`, `some` or `one`, which is all that
decides what a simulated sample can be.  `GatewayFlips` is the environment.
`abandoned` is the set of live workers a join gave up on.

### Episode

One episode: `Diagnose` (the four telemetry tools: whatever they read, they
leave one record), the three mutating tools, the two report tools, and `TimePasses`.
The verdict of `evaluate_episode` only reads, so it is a set of operators over the
state (`BSafe`, `Ttm`, `EgrCredit`, `RcaScore`, `Reward`, `Passed`) and properties may
ask for it after every call.  It follows the path `run_scenario` takes: no traffic
generator and no override, so the TTM comes from the audit trail.  Rewards are
integers in units of 10^-4, which is what the code rounds to; an RCA score is an
integer in units of 10^-3; the ratio is kept as a fraction.  Floating-point noise
below the rounding, and which way an exact tie of the rounding goes, are left out.

A tool call that raises before its record (an invalid `grep_pattern`, an empty name
in `apply_runtime_config`, a missing argument) changes nothing and is a stuttering
step.

### LiveAgent

`pc` says where `solve_incident` is: before the alert is read, waiting for an answer of
the model (`request`), working through the tool calls of an answer (`dispatch`), or at
one of six ends: `reported` (both artifacts are in), `quiet` (an answer without tool
calls), `exhausted` (no turn left), `raised` (an exception of the API call), `crashed`
(`_call_llm_api` returned `None`, which the loop then uses as a dictionary), `malformed` (an
answer or a tool call without the parts the loop looks for, which raises out of
`solve_incident`: `MalformedAnswer`, `MalformedCall`).

An attempt of the request loop ends in one of eight actions.  `Reply`, `EmptyChoices` and
`MalformedAnswer` are answers; `NotFound` is the 404 of a Gemini model that has a fallback,
`NoFallback` every other 404, that of the fallback itself included; `Busy` is a 429 or 503
with an attempt left, `NetworkFails` everything caught by `except Exception`, and `Refused`
every other error.  `Again` is `continue`: the next attempt or, after the last, the end of the
`for` loop and hence `None`.  The Anthropic call has one attempt and no fallback.  `model`
is `self.model`, which an answer sets to the model that gave it; an agent object plays a
whole suite, so an episode may begin on the fallback of an earlier one.

How many calls an answer contains is open; which tool each call names, and whether the
call fails, is decided when it is dispatched, which comes to the same.  `Dispatch` is
`handle_request`: it runs a tool of `Episode` or changes nothing (`InvalidCall`), and in both
cases the conversation gets a result.  Of the messages only the numbers of calls asked
for and answered are kept.  A `caller_fn` is a model that never fails.  `troubles` is a
history variable: how the attempts of the current request have failed, and which model each
of them asked.

### GatewayProcess

`process` is the main goroutine, `handler` the goroutine that ranges over `sigChan`, whose
one slot is a variable: `Notify` drops a signal that finds it taken, as `signal.Notify` does.
A SIGHUP resets; a SIGTERM closes the listener, upon which `ListenAndServe` returns and
main with it (`CloseListener`, `MainReturns`): what `Shutdown` goes on waiting for in the
other goroutine is lost with the process, although the log says "Terminating server
gracefully..." (`main.go:223`).  `Killed` is SIGKILL, `Restart` docker.  A nominal
checkout is `Arrive`, `Lock`, `Work`, `Unlock`; its `SET` and its `Del` may each succeed, fail,
or be given up (after 100 and 50 ms) and executed later (`late`, `LateCommand`).  A key is
absent, there with a TTL, or there for good, which the code never asks for.  It expires 2 s
after its `SET`; a checkout is done with it within 165 ms, so `Expire` waits for the checkouts
that are known to have set it (`locked`).  Nothing else looks at the keys: the "lock" excludes
nobody, and two checkouts may share one.

### ChaosControl

One Python process makes one call at a time: `inject_scenario`, `reset` and
`query_service_state` of the injector, `apply_hotfix` and `inspect_process` of the tools.
`checked` is the pair of class attributes each class keeps for its probe of `/healthz`.
A call is probed for, sent, served and answered in steps of its own; in between the gateway
may crash and start again, and the caller may give up (1.0 s) on a call that is lost or that
is served later (`late`, `ServeLate`).  `SlowHealth` is the 300 ms delay of
`handleHealthz`: the probe, which waits 0.3 s, may then fail with no other fault.
`Concluded` is what a call does in its own process afterwards: the profile and the record
of the injector, the flag of the hotfix.  `NewEpisode` is a new `SREToolEnvironment` (whose
class attributes stay), `NewProcess` a new interpreter, perhaps in the middle of a call.
`disturbed` is a history variable: a crash or a late call since the call began.  The SIGHUP
that resets the switch with no caller to hear of it is left to `GatewayProcess`.

### Suite

`StartSuite` is `run_suite`, `StartTask` `execute_task` of the adapter.  An episode is one
of `Episode` in an environment of its own (`NewEnvironment`), solved by a script
(`ExpertScript` and `NaiveScript`, the call sequences of `mock_agent.py` for each scenario)
or by a live agent, which may call anything, stop at any moment, or raise
(`AgentRaises`).  A call takes its time (`Latency`) and is then recorded (`CallTool`).
`Catalogue` holds the four fields of each scenario's structured report, `RightFields` what
the oracle finds right in a submitted one.  `EndEpisode` scores, appends the trajectory with
its step rewards, and after the last scenario returns the reports and writes the file.

### Ttm

`compute_ttm` is the code's; the samples come from outside, since no entry point of the
repository passes a series to the oracle, so `Sample` is whoever would take them.
The series grows by at most one sample a moment, so gaps of any length occur; the oracle
may be asked at any moment, so `compute_ttm` is an operator over the series.  A window spans
enough when its last sample is three quarters of `delta_tau` after its first, as in the code,
and every sample in it must be healthy.

## 3. Runs

| Run | Instance | Shows |
|---|---|---|
| `gateway` | 2 connections, capacity 1, 2 retries, fair | type invariant; `ChannelConsistent`, `PoolBalance`, `SingleWinner`, `PoolIsHandlePool`; `OnlyReleaseHangs`, `DrainEnds`, `GaugeCatchesUp` |
| `gateway_hang` | the same | **violated**: `EveryReleaseReturns` |
| `load_generator` | 3 threads, ring of 2, fallback on, fair | type invariant; `RunningMeansServed`, `ExtraWorkersWereAbandoned`, `StoppedFallsSilent`, `RecoveryIsSeen` |
| `load_generator_zombie` | 2 threads | **violated**: `SingleWorker` |
| `episode` | up to 4 calls on 2 services in 4 time units | `AuditAgrees`, `PassIsEarned`, `BreachIsFinal`, `DiagnosisNeverHurts`, `LateMutationNeverHelps`, `StructuredStands` |
| `live_agent` | 2 turns, 3 attempts, up to 2 calls an answer, all providers, fair | type invariant; `ConversationIsComplete`, `LostOnlyWithFallback`, `EpisodeEnds`, `EpisodeIsRespected` |
| `live_agent_fallback` | the same | **violated**: `FallbackIsAsked` |
| `chaos_control` | 3 scenarios, health check slow when the count of checkouts and payments is a multiple of 5, lost and late calls, crashes | `SuccessIsInForce`, `InjectionShows`, `OfflineLeavesGatewayAlone` |
| `chaos_hotfix` | 2 scenarios, no faults | **violated**: `RemediationRecovers` |
| `gateway_process` | 2 connections, 2 sessions, fair | type invariant; `TerminationIsHonoured`, `ReloadIsHonoured`, `LocksExpire` |
| `suite` | suites of one and of two scenarios, up to 2 episodes, real constants of the oracle | type invariant (with that of `Episode`); `ExpertEarns`, `NaiveEarnsNothing`, `ReportsAgree`, `FinishedEpisodesStay` |
| `ttm` | 9 moments after `t_chaos` and 1 before, `delta_tau` 4, `t_max` 3 | `WorseIsNeverFaster`, `DenseSeriesAgree`, `VerdictBecomesFinal`, `RelapseTakesVerdictBack` |

Bounds, and why they are enough:

* *Connections and capacity.*  A holder, a parked request and a drain are what can go
  wrong on the channel: two connections and one handle, of which a leak leaves none.  A
  choice of whom to wake, and a pool that is neither empty nor full, take more; the
  safety properties and the refinement of `HandlePool` are proved for every size, and the
  proofs also cover two that the run leaves to them (`WorkersCounted`,
  `TimeoutOnlyWhenExhausted`).
* *Retries.*  The code has `maxRetries := 5`; the attempts are identical, and 2 has
  a first, a last and the boundary between them.
* *Threads.*  Three: a current worker, an abandoned one, and one abandoned before
  that.  A history of more abandoned workers adds none in a new situation, and the
  two safety properties are proved for every set of threads.
* *Ring.*  Two places are enough for an old error to be pushed out by a new sample
  while a late one comes in.
* *Episode.*  A time unit stands for 150 s (`t_max` is 600 s): there is a first half,
  a second half, a middle, an end, and instants at which several calls coincide.
  `Settle` and `Floor` (15 s and 5 s in the code) are one unit, so both still matter at
  the ends.  Four calls have room for a diagnosis, a fix, a later mutation and a
  report, in any order.  The clock and the trail stop at their bounds, so these two
  runs do not check for deadlock.
* *Turns, attempts, calls.*  `max_retries` has its real value of 3; `max_turns` (12 in
  the code) is 2, which has a turn that leads to another and a turn that is the last.
  Two calls in an answer allow a report followed by another call, and a failed call beside
  a good one.  The trail has room for every call the turns allow
  (`TrailIsLongEnough`), so its bound never stops the agent.  The safety properties and
  the refinement are proved for every number of turns, attempts and calls.  One service and
  one report of each kind are enough here: the loop looks only at whether a report is in.
  An episode that has ended stays where it is, so the `live_agent` runs do not check for
  deadlock; that it ends only in one of the six ends is what `EpisodeEnds` says.  The
  gateway, generator, chaos and process runs do check for deadlock.
* *Faults and calls.*  Late calls are a set of scenarios: two late calls for the same
  scenario are as good as one, since each only stores a name.  Three scenarios: one in
  force, one asked for, one late; one of them is the deadlock scenario, which slows the health check.
  `HealthEvery` has its real value.
* *Checkouts and sessions.*  Two of each: two checkouts on one session, two on different
  ones, and one that finds a key left by a process that died.
* *Suites.*  `TMax`, `Settle`, `Floor` and the services are the real ones; a call takes
  nothing or 5 s, which is more than any time-out of the tools, and a script of twelve calls
  fits into `MaxClock`.  The three scenarios of `MCPlans` give the three lengths of the
  expert's script.  One call of a live agent is enough for it to leave something behind
  (a fix, a breach, a report), and two episodes for that to reach another agent.  A suite stops
  starting at `MaxEpisodes`, and a series at `MaxClock`, so these two runs do not check for
  deadlock.
* *Series.*  `delta_tau` of 4 is the least that has a three-quarter point; nine moments
  hold two windows and more, and `t_max` of 3 lies before and behind verdicts.

## 4. Fairness

* `Gateway`: weak fairness of each handler's `Work`, of `Drain` and of `Tick`.  The Go
  scheduler runs every runnable goroutine, sleeps and timers end, and neither
  waits for anything that is not itself in the model.  Strong fairness of
  `ReadChaos`: resets may come again and again, disabling it each time, but a
  `sync.RWMutex` admits the readers that queued behind a writer before the next
  writer.  Clients, operators and signals owe nothing, so `Arrive`, `SetChaos` and
  `ResetBegin` are not fair.  Fairness of `Work` as a whole is weaker than fairness
  of each disjunct: a handler need not ever take the branch of a random choice that
  suits a property.
* `LoadGenerator`: weak fairness of each worker (`requests` is given a timeout, the
  sleeps are short) and of the rest of a `start` or `stop` that has begun.  Nobody has
  to call either.
* `Episode` has no liveness: an agent may stop at any moment.
* `LiveAgent`: weak fairness of `SolveIncident`, the loop as a whole: a request is answered,
  fails or times out after 60 s, back-off sleeps end, and every tool returns.  How the
  requests fail is left open, so termination does not rest on a good answer.

* `GatewayProcess`: weak fairness of the signal goroutine, of main's return, of each
  checkout (Redis calls time out after 100 ms) and of Redis executing and expiring.  Nobody
  has to signal, kill or call, and docker may leave the process down.
* `ChaosControl`, `Suite` and `Ttm` have no liveness: a caller may be killed at any point.

## 5. Proofs

All theorems are of the form `Spec => []Inv`, `Spec => [][A]_vars` or, for the
refinements, `LiveSpec => Spec` and `Spec => Pool!Spec`, and hold for every
value of the constants that satisfies the named assumptions of the module:
`Conns` finite, `Capacity` and `MaxRetries` positive; `MaxSamples` positive, `NoThread`
not a thread; healthy services among the services, `Floor` at most `TMax`, submissions
made of the four fields; turns and attempts positive, and a trail longer than the calls of
all turns (`TrailIsLongEnough`); a deadlock scenario among the scenarios, "none" not one of
them, a positive period of the slow health check; `delta_tau` and `t_max` positive; for `Suite`
the healthy services that are the oracle's default, an `api-gateway` among the services,
plans that are non-empty lists of scenarios of the catalogue, a trail with room for the ten
calls of the longest script and for those of a live agent.  No proof uses fairness.

Three theorems assume more, in their own statements, since they are about the oracle's
numbers.  `PassesAreEarned` and its corollaries take `TMax < 6000` (it is 600 s in the code):
the reward is rounded to four places, and with longer limits a fix a moment behind the middle
may be rounded up into a pass.  What holds for every limit is the lemma `PassNearlyEarned`.
`ExpertIsWorthIt` takes the three numbers of `evaluator/`, in seconds, and calls of at most 5 s.

| Theorem | Argument |
|---|---|
| `GatewayProofs!TypeCorrect`, `ChannelCorrect` | `TypeOK` is inductive only together with `ChannelConsistent`: a drain or release that lowers `pool` must know that no sender is parked, an acquire that raises it that none is blocked. |
| `TimeoutsAreHonest` | from `ChannelConsistent`: leaving `waiting` for `idle` is the timeout, and a parked sender means a full buffer. |
| `PoolBalanced` | `PoolBalance` with `TypeOK`; one lemma on how the cardinality of `Holders` changes when a connection enters or leaves, used once per action. |
| `WorkersAreCounted` | the same argument for `Critical`. |
| `OneWinner` | `SingleWinner` alone is not inductive: a handler whose reading is at most 1 entered when nobody was inside, which is known only through `WorkersCounted`.  The invariant adds that the counter, and hence the reading of a new entrant, exceeds what is inside. |
| `ImplementsHandlePool` | by action, from `ChannelConsistent`: a hand-over happens only with somebody parked, hence at a limit of the pool, and a drain that lets a parked sender in finds the pool full. Requests and split-brain handlers stutter. |
| `LoadGeneratorProofs!TypeCorrect` | by action; the ring by the length of `Push`. |
| `ServedWhileRunning`, `OnlyAbandonedWorkersRemain` | one invariant, `Supervised`, ties the flag, the thread pointer and the place of `start`/`stop` together: a worker ends only by seeing the flag cleared, and a flag is cleared or a pointer replaced only by the controlling thread, which waits or records whom it gave up on. |
| `EpisodeProofs!TypeCorrect` | by action, with a lemma on what `record_call` appends. |
| `AuditTrailAgrees` | every call adds its index to the sets of calls of its tool and to no others (`CallsGrow`), so the number of restarts of a service grows by one exactly when that tool was called on it (`RestartsGrow`); `AuditStep` is then shared by all six tools. |
| `BreachCannotBeUndone` | restart counters never fall, and a breach zeroes the reward. |
| `LookingIsFree`, `TinkeringNeverPays`, `ProseChangesNothing` | the reward without a breach is `Worth(ttm, num, den, rca)`, which is monotone in each operand through division and rounding (`WorthOrder`, `RewardOrder`); then what one recorded call does to each operand (`TtmStep`, `CreditStep`).  The TTM is a `CHOOSE` of the last mutation: that there is one is `LastMutationIs`, by the well-foundedness of the natural numbers, and that a new mutation is not before it needs `TrailIsPast`, that no record carries a time that has not come. |
| `PassesAreEarned` | of the 7000 a pass needs, ratio and report give at most 2000 each, so the TTM must give 3000 (`PassNeedsSpeed`), and the TTM alone gives at most 6000 (`SpeedIsNotEnough`).  Every mutation is no later than the last one, on which the TTM depends. |
| `LiveAgentProofs!ImplementsEpisode` | the initial states are initial states of `Episode`; `IngestAlert` and a `Dispatch` that reaches a tool are steps of its `Next`, `Wait` is `TimePasses`, and every other step leaves its variables alone. |
| `LiveAuditTrailAgrees`, `LivePassesAreEarned`, `LiveVerdictsAreFair` | the theorems of `EpisodeProofs`, through the refinement. |
| `LiveTypeCorrect`, `ConversationStaysComplete` | one invariant, `TalkInv`: every answer but the current one is settled, and of the current one the results and the calls not yet dispatched add up to the calls asked for, so that nothing is open when the last is done.  The bound on the length of the conversation (one answer a turn) keeps the types inductive. |
| `LostWithTheFallback` | for more than one attempt: as long as a Gemini request met only 404s (`Only404`), an attempt after the first is made with the fallback; a 404 of any other model is therefore met on the first and leaves one more, and a 404 of the fallback is raised at once (`NotLost`, `LostWithIt`). |
| `ChaosControlProofs!TypeCorrect` | by action. |
| `SuccessesAreInForce`, `InjectionsShow` | neither is inductive: between the moment the gateway obeys and the moment the caller hears of it, the call must be in force already (`ServedIsInForce`), unless `disturbed`. A call that was not served is never reported as a success, and an inject that was not turns the simulation on. |
| `OfflineStaysOffline` | a call is on its way only if its caller once found the gateway (`SentIfFound`); what else changes the switch is a late call or a restart. |
| `GatewayProcessProofs!TypeCorrect` | by action. |
| `GatewayListens` | `SignalsHaveAReceiver`, with the types: the signal goroutine returns only by ending the process, and the end of the process ends its checkouts.  It is the safety under the two liveness properties of the run, which would be void if a gateway could serve with nobody to read its channel. |
| `SuiteProofs!SuiteTypesHold` | `SuiteTypes`, which adds that a call whose latency is over is one there is room for, and that a suite under way has not returned.  A script is shorter than the trail (`ExpertScriptIs`, `NaiveScriptIs`), so its bound stops nobody. |
| `SuiteAuditTrailAgrees`, `SuitePassesAreEarned` | `NewEnvironment` is the `Init` of `Episode`, primed, and every call of a script or a live agent is one `Episode` allows (`PerformIsCall`, `CallIsAnyCall`); the lemmas of `EpisodeProofs` are about any such call. |
| `NothingIsForgotten`, `ReportsAreTrajectories` | a trajectory is appended and nothing before it moves (`AppendKeeps`, `AppendToTheEnd`). |
| `NaiveGainsNothing` | `NaiveHasBroken`: after its first call a healthy service has been restarted, and that call is behind it whenever it is scored. |
| `ExpertIsWorthIt` | `ExpertFollows`: the trail so far is the beginning of the script, the i-th call no later than 5 i seconds after the incident began.  The hotfix, the seventh call at the latest, is in by 35 s and the TTM is at most 50 s; it is the only mutation, so the ratio has full credit, and the report is the catalogue's: `Worth` is at least 0.95. |
| `TtmProofs!WorseNeverHelps` | a worse series has no candidate the other has not (`WorseHasFewer`), and a part of a set of natural numbers has no smaller least element. That there is a least one is the well-foundedness of the natural numbers (`LeastIs`); a verdict is then the least of the candidates and `t_max` (`VerdictIsLeast`). |
| `VerdictsBecomeFinal` | a new sample carries the clock, so it lies in no window that has gone by (`PastWindow`), and candidates up to the verdict stay what they are. |
| `RelapseIsCounted` | a bad sample seen last refutes every time in whose window it lies (`BadSampleRefutes`) and makes no time a candidate (`BadSampleAddsNone`), so what is left is later than the verdict. |
| `DenseVerdictsAgree` | without gaps the times from which the service is healthy for all of `delta_tau` are candidates, and a candidate whose window has gone by is such a time. |

Every safety property and every action property of the passing runs is stated by one of these
theorems.  Only model-checked: the liveness properties of `Gateway`, `LoadGenerator`,
`LiveAgent` and `GatewayProcess`, which are out of the prover's reach.

`Suite` is not shown to implement `Episode`, and does not: a call takes several units of time
at once where `Episode` lets one pass at a time, and a process holds many episodes.  What
carries over is said of a single call (`AnyCall`) and of a new environment, and is used by
both.

## 6. What the runs found

* **A checkout can hang for ever** (`gateway_hang`).  A pool-exhaustion checkout puts a
  handle in the pool; a reset drains the pool; the checkout's "normal release",
  a receive with neither timeout nor default, finds it empty and parks.  It is
  answered only if another checkout of that scenario happens to send.
* **Two workers at once** (`load_generator_zombie`).  `stop` gives up on a worker in a
  slow request after 3 s, a `start` within the next second sets the flag again, and
  the old worker carries on beside the new one.  What still holds is
  that such extra workers are always ones a stop gave up on, and that the next stop
  that stays silences them.
* **A remediation that changes nothing** (`chaos_hotfix`).  In the deadlock scenario a
  health check takes as long as the probe of the tools is willing to wait while the count of
  checkouts and payments is a multiple of five, which without traffic it always is.  If the
  probe meets one, the tools work offline for the rest of the process: the hotfix
  skips its HTTP reset, sets the flag all the same, and the oracle scores a recovery of a
  gateway that is still in the scenario.
* **A fallback that is never asked** (`live_agent_fallback`).  Two overloaded answers and
  then a 404 use up the three attempts: the `continue` meant to go on with the fallback
  leaves the loop, the call returns `None`, and the episode fails on it.  What still holds
  is that 404s alone never do this: a Gemini request that met nothing else is lost only when
  `gemini-2.5-flash` was asked and is missing too, by the error raised for it
  (`LostOnlyWithFallback`).

Seen while modelling, and not the subject of a run: a checkout acts on the scenario it read
before a reset and may still leak a handle of a nominal gateway (`handlers.go:53`); the ratio
behind "Did You Look Before You Leaped?" (README.md:94) is computed from counts, as its formula
says, so looking afterwards counts as much (`metrics.py:123`).  No property asks for what
the code does not give in these cases:

* A live agent that submits its structured report before any fix is stopped there
  (`live_agent.py:224`), since that report fills both artifacts; the comment above the test
  speaks of "remediation done", and the prompt asks for `generate_post_mortem` as well.
* A shutdown that calls itself graceful (`main.go:212`, `223`) abandons the requests in flight
  (`main.go:226`), and a signal that finds another one queued is dropped (`main.go:213`).
* A TTM is accepted on 22.5 of the 30 seconds of README.md:91, with gaps of any size.  A relapse
  that is sampled within the 30 takes it back (`RelapseTakesVerdictBack`); one inside a gap,
  or after the last sample, is seen by nobody.
* The lock of a nominal checkout excludes nobody and is deleted by whoever is done first
  (`handlers.go:95-99`); what is checked is only that no key stays.
* A failed reset clears the injector's record and profile all the same (`injector.py:118`), and a
  call given up may arrive after a later one and undo it; `SuccessIsInForce` says what a
  report of success is worth up to then.
* A scenario that raises takes the reports and the export of its suite with it
  (`eval_runner.py:118`); the finished episodes stay in the runner and are in its next export.

## 7. Not modelled, and the plan

Left out of the modules above: latencies and the P99, and with them the windowed readers of the
generator and the branch of the oracle that samples a live generator (no entry point
of the repository passes one); the answers of the telemetry tools and their probes of docker and
Prometheus, each of which only chooses between a real and a simulated answer; the goroutines
of the deadlock scenario beyond the answers its `select` can give; `handleChaosState`, and method
and JSON errors of the chaos endpoints (they change nothing); wording and logging.  The line
loop of the MCP server is left out too: only an external client drives it, and it keeps no state
of its own.  (A line that is valid JSON but no object, or has null `params`, raises past its
only handler and ends it, `mcp_server_stdio.py:281`.)  Left out for good: the texts and
telemetry numbers of the scenario catalogue, field renaming in the Stirrup adapter,
deployment files.

Next, in this order:

1. A generator that is only "running" or "stopped", which `LoadGenerator` refines.
2. The safety under the remaining liveness properties, as `GatewayListens` is for
   `GatewayProcess`: what a reset, a stopping generator or a request under way cannot lose.
