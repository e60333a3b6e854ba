# augr: a TLA+ model of the trading core

augr is an autonomous trading system in Go: scheduled strategy runs produce
signals, an order manager turns signals into orders under risk limits, brokers
execute them, and PostgreSQL keeps an append-only record of intents, orders,
fills and money. This directory models the parts in which an ordering, a crash
or a lost reply decides whether money and stops are right. The modules are
checked with TLC on small instances, and the main results are proved with TLAPS
for every value of the constants.

- [1. The system](#1-the-system)
- [2. The modules](#2-the-modules)
- [3. The runs](#3-the-runs)
- [4. The proofs](#4-the-proofs)
- [5. Disagreements with the documentation](#5-disagreements-with-the-documentation)
- [6. What is not modelled, and the plan](#6-what-is-not-modelled-and-the-plan)

## 1. The system

| Part | State | Operations | What makes it hard |
|---|---|---|---|
| Execution lifecycle (`internal/execution/lifecycle`) | the aggregate of one intent | constructors + `ApplyTransition` | any order of provider evidence |
| Lifecycle store (`repository/postgres/execution_lifecycle.go`, migration 71) | event log, row lock | propose, apply, record fill, list for recovery | concurrent writers, reload loop, lost replies, crashes |
| Financial scheduler (`internal/financialscheduler`, migration 98) | lease events, effect claims | acquire, renew, claim effect, complete | expiry, stalls, takeovers under one owner name |
| Risk engine (`internal/risk`) | kill switches, circuit breaker, `risk_state` row | toggles, trip, reset, pre-trade check, load | snapshot saved after the unlock, checks that read in steps, restarts |
| Order manager and paper execution (`internal/execution`, `execution/paper`, `financial_lifecycle.go`) | orders, lots, trades; broker cash and positions | `ProcessSignal`, `ApplyOrderFill`, startup reconstruction | two records of one fill, each written by its own step |
| Strategy scheduler and signal admission (`internal/scheduler`, `internal/signal`, `internal/cli`) | dedup set, semaphore, trigger queue, strategy rows | ticks, triggers, signals, pause, skip, stop | admission races, kill-switch polls, shutdown order |
| Economic ledger (`internal/ledger`, `repository/postgres/{ledger,projection}.go`) | source events, normalizations, postings, marks, checkpoints | record, normalize, post, mark, rebuild | late and repeated events, concurrent rebuilds, rounding |
| Job orchestrator (`internal/automation/orchestrator.go`, `job_run.go`, `automation_job_control.go`) | registry, run rows, durable controls | ticks, manual runs, dependency checks, enable/disable, hydration | failed statements at every point, restarts, overlapping starts |
| Reconciliation and settlement jobs, agent pipeline, market-data streams, live brokers | - | - | planned, section 6 |
| Backtests, simulation, discovery, research workflows, providers, API, CLI, web | - | - | section 6 |

How they interact: the scheduler admits a run; the run asks the risk engine and
calls the order manager; the order manager drives the broker and writes rows; in
the newer path every step is an event of the execution lifecycle, whose fills
enter the ledger by the same insertion the ledger model has; the job
orchestrator runs reconciliation and settlement beside all this; the operators
reach the risk engine, the scheduler and the orchestrator through the API.

Every component is listed in `PROJECT.json` with its sources, also those
that are not modelled. The hazards there carry the line at which they bite and
the properties that would notice.

The properties that make the system correct, part by part:

- quantities and money: a lifecycle never fills more than its approved order;
  an event is booked once; lots are consumed first in, first
  out; what the broker holds is explained by the rows and by the fills in
  progress;
- truth of answers: a caller that was told "done" finds it done, also after a
  restart (events, kill switches, disables, checkpoints);
- exclusion: one holder of a fence, one payload per effect, one run per strategy
  and per job, with flags and tokens that say so exactly;
- stops: a check that a stop covers from beginning to end is rejected; a run
  ends when the kill switch turns on; an acknowledged disable holds;
- progress: calls return, rebuilds end, orphaned leases are taken over, the
  shutdown completes.

## 2. The modules

**LifecycleRules, Lifecycle.** The legal transitions (`validEventTransition`)
and the aggregate of one intent: an action is a constructor (`Propose`,
`Allocate`, `Route`, `RecordFill`, ...) with the `ApplyTransition` that accepts its
event. Prices, instruments and provenance are left out; quantities, the side, the
binding to an external order and event identities stay. This is the abstract
specification.

**LifecycleStore.** The PostgreSQL repository for one intent, in the steps of
`applyExecutionTransition`: load, look for the event, lock the intent's row,
compare the latest event, validate, insert, commit, reload when the log moved. A
call fails or crashes at any step, a reply is lost, a caller resends or rebuilds
its transition. The aggregate is never stored: replaying the log is the
refinement mapping to `Lifecycle`.

**FinancialScheduler.** Runners race for one occurrence. Each repository
operation is one transaction under the occurrence's row lock; the renewal goroutine
and the job share a lease. Time is what is left of the lease. Runners crash,
stall past expiry and go on after losing the lease. `NewRunner` has no caller in
production yet: the module describes what the package promises to its first one.

**RiskEngine.** The switches in memory and in the row, the external stop (file or
environment), the circuit breaker with its cooldown, toggles in two steps (change
and snapshot under the mutex, save after it) and pre-trade checks that read the
global switch and the breaker, then the external stop, then the market switch. The history
variables `acked` and `standing` say which toggles were acknowledged and which
stops held throughout a check. Position limits are in PaperTrading.

**PaperTrading.** Calls of `ProcessSignal` in the paper path: admission with its
limits (and the Kalshi mutex), the order row, the broker's immediate fill or a
resting order, the submitted status, `ApplyOrderFill` with lots in opening order,
and the restart that rebuilds the broker from the rows, refusing to start where
the code does. Every write may fail. Slippage is left out (the plan's price is the
fill price), the position size is any of `Sizes`, and the risk verdict other than
the limits is nondeterministic.

**Scheduler.** A tick, a trigger or a signal is a goroutine walking through the
admission (dedup set, context, semaphore) and `executeAdmittedStrategy`; a signal
also passes the trigger queue and the durable recorder. Operators pause, skip and
stop; the monitor polls the kill switch; `phase` follows the shutdown of
`internal/cli`: context cleared and cancelled, cron engine drained, signal stack
stopped, pool closed.

**LedgerProjection, EconomicLedger.** The first holds the pure algorithms: the
postings of every event type, FIFO matching with the exact allocation of rounded
amounts, settlement and physical delivery, point-in-time eligibility, marks and
the final projection. Amounts are integers, the last decimal place of the code's
exact decimals. The second is the store: source events compared on replay,
one normalization per event and version, capital flows, marks, and workers that
rebuild in a serializable transaction, retry on a conflict and insert or replay a
checkpoint. One account and currency; checksums, evidence matches and venue lot
checks are left out. `LotsAreFIFO` compares the matching with a reference that
queues single units.

**JobOrchestrator.** Goroutines of cron ticks and of `RunJob` claim a job, check
its dependencies one lock at a time, write the running row, execute, and write
the outcome; every statement commits or not, and its reply may be lost. Failures
are counted in memory and in the rows; operators write a durable control before
memory; a restart, at any moment, closes the rows left running and hydrates the
registry, and any of its queries may fail. A start time is a number
(`wrapAndRun` and its row use one reading of the clock), a day is what the
dependency check compares.

## 3. The runs

| Run | Instance | Shows |
|---|---|---|
| `lifecycle` | a buy or sell of two units, fills of one or two, seven source events | quantities, approvals, cumulative sums, finality |
| `lifecycle_store` | two writers; redelivered, contradicting and late observations; two attempts | the store implements `Lifecycle`; answers are true; recovery finds exactly the open orders; calls return |
| `financial_scheduler` | two runners under one owner name, one effect, two payloads, a lease of two ticks | one payload per key, one holder per fence, one report, and an orphaned lease is taken over |
| `risk_engine` | one operator, one check, two markets | verdicts, cooldown, acknowledged switches in force after a restart |
| `risk_engine_race` | two operators | violation, section 5 |
| `paper_trading` | three calls, two strategies, a stock and a Kalshi contract, a fee | the broker is explained by the rows; lots equal trades; statuses are truthful; the Kalshi mutex keeps its limit and prevents shorts |
| `paper_trading_exits`, `paper_trading_fees` | one strategy, a stock; one call with a fee | violations, section 5 |
| `scheduler` | a tick, a trigger, a signal, one slot, two strategies, one of a retired market | guards and tokens exact, signal lineage recorded, ticks end before the pool closes, kill switch ends runs, shutdown completes |
| `scheduler_shutdown` | the same | violation, section 5 |
| `economic_ledger` | five worlds of up to five source events, two workers | booking once, FIFO and P&L conservation, no lookahead, one checkpoint history, rebuilds end |
| `job_orchestrator` | a job and its dependency, two goroutines, three runs, two days, three events | flags, rows, dependencies, disables, terminal rows |

Every property of a passing run has a mutant in `PROJECT.json`: a plausible bug
in the modelled code under which TLC finds that property violated.

**Bounds.** Two of a kind (writers, runners, workers, goroutines) are enough for
each race in question, because the code's guards compare one caller with what is
stored, not callers with each other; the proofs remove the bound for safety.
`MaxAttempts` is 16 and `Attempts` 3 in the code; both are 2, so that exhausting them
is reached. `Threshold` is 5 in the code and 2 in the run. `MaxFence`,
`MaxSeq`, `MaxRuns`, `MaxDay` and `MaxEvents` only end the behaviours;
`MaxEvents` is one budget for requests, restarts and failed statements, where a
restart with a failed query costs two. The worlds of `MCEconomicLedger` are
chosen so that each meets its case: a race of two rebuilds (`Racing`),
conflicting evidence and two normalizer versions (`Retrying`), longs, shorts,
flips and an exercise (`Exercising`), an assignment with an expiry
(`Assigning`), a prediction contract that resolves (`Resolving`). In the risk
runs loads succeed (`LoadCanFail = FALSE`); a failed load loses market switches
and is listed as a hazard.

**Deadlock** is checked except where the system may stop: a lifecycle that is
closed, an occurrence that is completed, calls that have all returned, a
process that is shut down, a bound that is used up.

**Symmetry** is used where the elements are interchangeable and the run has no
liveness property.

**Fairness.**

- `LifecycleStore`: a running call goes on (weak), and a contended row lock is
  granted in turn (strong), as PostgreSQL queues its waiters.
- `FinancialScheduler`: time passes, and whoever schedules the occurrence keeps
  trying to acquire it. Nothing is assumed of the job.
- `Scheduler`: goroutines run; a blocked send on the semaphore is served in
  turn (strong), as Go hands a slot to the oldest waiter; the monitor's ticker
  fires; an execution returns once its context is done; a shutdown that has begun
  goes on. That an operator begins it, or that a run ends by itself, is not assumed.
- `EconomicLedger`: strong fairness of a worker's rebuild, written with the
  explicit condition `Runnable`: an insert that waits for another transaction is
  woken when that one ends.

## 4. The proofs

Each proof module extends its component and proves an inductive invariant: the
initial states satisfy it, each action preserves it (one lemma per action), and it
implies the properties. The assumptions are the named `ASSUME`s of the
component: types of constants and distinctness of sentinels.

| Module | Theorems | Strengthening and why |
|---|---|---|
| `LifecycleProofs` | `FillsNeverExceedOrder`, `OrdersCarryApproval`, `ExecutionsAreBound`, `FactsNeverChange`, `ClosedStaysClosed` | `Decided` ties the state to the recorded kinds of events: that an order has an approval behind it does not follow from the state alone |
| `FinancialSchedulerProofs` | `KeysCarryOnePayload`, `FencesAreExclusive`, `ReportsAreUnique`, `TakeoversNeedExpiry` | `Fenced`: no runner carries a fence above the lease's, and two runners never the same; `Reported`, `Claimed`: what was sent agrees with the claim row |
| `RiskEngineProofs` | `VerdictsAreSound`, `BreakersServeCooldown`, `AcknowledgedStopsAreDurable`, `AcknowledgedStopsHold` | `Standing`: a stop that stood throughout is still in force; `Reading`: what a check in progress has already read. The last two theorems assume one operator and loads that succeed; `risk_engine_race` shows why |
| `SchedulerProofs` | `SchedulerTypes`, `GuardsStayExact`, `SignalRunsStayRecorded`, `TicksEndBeforePool` | the dedup set and the token count equal what the goroutines' program counters say; cardinality lemmas for one goroutine entering or leaving; `Lineage` of each signal |
| `EconomicLedgerProofs` | `EventsBookedOnce`, `AcknowledgementsHold`, `ProjectionsPersist`, `StoreOnlyGrows` | `Booked`: an acknowledged version is the stored one; `ViewsAreCommitted`: a worker's snapshot contains only committed checkpoints |
| `JobOrchestratorProofs` | `RunningFlagsAreExact`, `ExecutionsHaveRows`, `DisablesHold`, `AutoDisablesHold`, `TerminalRowsStay`, `DependentsRunAfterSuccess` | `Tickets`: a start time belongs to one run, and its row is absent or open while that run may still write it; `Flags`, `Recorded`; `Disabled`: an acknowledged disable is in the control row, which is what a restart reads. For the dependencies, `Vouched`: a success in memory is in the database, or is that of a run still writing its outcome; `Followed`: what a run has left to check is the end of its list and the rest is met |

Some results are proved and have no run of their own: the type invariants (each
is part of an inductive invariant), `FillsAreBound`, `FactsAreImmutable`,
`TakeoverOnlyAfterExpiry`, `AppendOnly` and `AcknowledgedStopIsDurable`.

Only model-checked: liveness (`CallsReturn`, `OrphanIsTakenOver`,
`KillStopsRuns`, `ShutdownCompletes`, `RebuildsEnd`), which needs fairness and
ENABLED; the refinement `ImplementsLifecycle` and the other properties of
`LifecycleStore`, whose mapping replays a log; `LotsAreFIFO`,
`ReplayNeverBreaks`, `NoLookahead` and `CheckpointsAreOneHistory`, which are about
what a fold over rows computes, and `CumulativeIsSum`, a sum over a set;
all of PaperTrading.

## 5. Disagreements with the documentation

Four runs end in a counterexample to what a document or a comment says
(`findings` in `PROJECT.json` has the quotations):

- `risk_engine_race`: two toggles may save their snapshots in the other order;
  a switch whose activation was acknowledged is gone after a restart.
- `paper_trading_exits`: two concurrent stock exits are clamped to the same owned
  quantity and sell more than is owned.
- `paper_trading_fees`: the broker takes a fee that the trade row does not carry;
  a restart gives it back.
- `scheduler_shutdown`: `Stop` waits for the jobs of the cron engine only; a
  triggered or signalled run may be executing when the pool is closed.

Further points met while modelling, without a run of their own: ADR 017 allows
any open state to fail reconciliation where the code allows fewer; a
failed load of the risk state loses market switches at the next save; the
per-position limit does not see what is held of a prediction contract (its
exposure is kept under another key); an automatic disable is forgotten by
a restart when a run with an earlier start finished later, or when the
per-job query of `Summaries` fails; failures to record a run are counted in
memory only; a dependency may be started again after the dependent job checked
it.

## 6. What is not modelled, and the plan

Next, in this order:

1. Settlement of Kalshi paper positions and its gate: consecutive dry runs with
   one fingerprint, the live run that previews again, restarts between the steps.
   It composes with JobOrchestrator, which runs it, and with the lots of
   PaperTrading, which it closes.
2. The accounting reconciliation runner: lease, two captures with an active check
   between them, the recorded run and the cutover gate.
3. The agent runner and pipeline with the run registry and the stale-run
   reconciler, as what an execution of Scheduler does.
4. The Polymarket stream pool, its feed and the recorder; the WebSocket hub.
5. The broker reconciliation jobs and the live fill path of the order manager.
6. The option path: multi-leg orders, expiry and settlement.
7. Pure algorithms against reference definitions: market calendar, venue
   comparison, capital ladder.

Theorems planned with them: an inductive invariant for the accounting identity of
PaperTrading without the sums (one ticker), and the refinement of LifecycleStore
for a log of bounded length.

Not modelled, with the reason (sources in `PROJECT.json`):

- Kalshi paper settlement and its gate: planned; consecutive dry runs with one
  fingerprint open the gate, a live run previews again before it settles.
- broker reconciliation jobs: planned; snapshots of a remote account compared
  with and written over local rows while orders go on.
- accounting reconciliation and cutover gate: planned; lease, two captures under
  an active check, comparison and the recorded run; the gate's verdict over
  consecutive runs.
- venue reconciliation: pure comparison of two snapshots under a policy; a
  candidate for operators checked against a reference definition.
- remaining automation jobs and chunkers: the bodies of the registered jobs:
  calls of providers and repositories. The two chunkers keep a resumable cursor
  and are candidates for a module.
- agent pipeline and runner: planned; phases, phase timeouts, cancellation
  through the run registry and the stale-run reconciler racing a late
  completion. The scheduler's module treats a run as one execution.
- agents, prompts and rule strategies: prompt construction, parsing of model
  answers and indicator rules: functions of their inputs without shared state.
- production strategy runner and process assembly: wiring of the components and
  the body of a strategy run; the order of startup and shutdown that matters is
  in Scheduler and PaperTrading.
- live brokers: HTTP clients of external venues. Their common-lifecycle adapters
  turn an answer into the transitions of LifecycleStore; the live path of the
  order manager (handleFill) is planned as an extension of PaperTrading.
- venue observations and live gate: classification of venue answers and static
  readiness conditions; stateless.
- options manager, expiry and prediction settlement: planned with the order
  manager's option path. The accounting of settlement and delivery is in
  LedgerProjection.
- portfolio risk calculators and breakers without callers: formulas over a
  portfolio (correlation, drawdown, Kelly), checked by unit tests; the loss and
  drawdown breakers are candidates for a module.
- market calendar and schedule parsing: pure functions of a time and a cron
  text; the session calendar is a candidate for an operator checked against a
  reference definition.
- paper options and common simulation: fill prices of option legs and the
  adapter to the simulation package; the multi-leg path of the order manager is
  planned with the options manager.
- portfolio allocator: ranking and sizing of opportunities; the paper executor
  hands orders to the order manager modelled in PaperTrading.
- capital policy and state: pure assessments of a policy over recorded evidence,
  with no operation that changes state.
- copy trading: polling of public positions and target computation; its orders
  take the order manager's path.
- market-data streams: planned; the Polymarket connection pool, the feed with
  its cleaner, and the recorder's lifecycle (bounded queues, reconnects, gaps).
- data providers and rate limits: HTTP clients, response parsing and technical
  indicators. The rate limiters and the provider chain are candidates for a
  module.
- LLM providers: HTTP clients with retry, fallback, throttling, a daily budget
  and a cache. Retry and budget are candidates for a module.
- HTTP API and WebSocket hub: handlers that validate a request and call a
  repository or a component; those that matter are actions of the component's
  module. The hub (registration, slow clients, shutdown) is planned.
- signal sources and evaluation: polling of external feeds, scoring by a model
  and the watch index; what an accepted signal does is in Scheduler.
- notifications: formatting and delivery of messages; the manager's
  deduplication is a candidate for a module.
- repositories: SQL statements of the remaining tables. The append-only
  workflows (research, promotion, robustness, experiment runs, instruments) use
  the idempotent insert of LifecycleStore and EconomicLedger and are candidates
  for further modules.
- backtest and simulation engines: deterministic, single-threaded replay of bars
  and books with floating-point prices; compared with golden results by the
  tests.
- research, evidence and promotion workflows: validated value types, checksums
  and statistics over recorded evidence. Promotion and the strategy version
  lifecycle are state machines and candidates for modules.
- discovery, universe and strategies: searches and scoring over market data;
  functions of their inputs.
- domain types, memory, service and configuration: value types, configuration
  parsing, metrics, text search and thin services.
- ledger helpers outside the projection: field validation, checksums and exact-
  decimal arithmetic used by the modelled operations.
- command-line tools: terminal front ends of the API and of offline reports.
- web front end, monitoring and deployment: TypeScript user interface,
  dashboards and container configuration.

The modelled definitions stand for about 6,600 of some 158,000 lines of Go outside
the tests. The rest is largely request handling, clients of external
services, value types with field validation, statistics and single-threaded
simulation.
