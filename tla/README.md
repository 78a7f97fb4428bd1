# Formal model of the intraday trading platform

TLA+ modules, TLC configurations and TLAPS proofs for the parts of the platform
that decide whether an order is placed, whether trading stops, and whether the
books, the market data and the services around trading can be trusted. Line numbers refer to the repository's source.

## 1. The system

The platform is a set of Python packages under `src/shared`, two application
processes (`src/apps`), a FastAPI server (`src/api`) and a dashboard. The parts
share almost no memory: they meet through Redis keys and streams.

| Part | State it keeps | Operations | Meets |
|---|---|---|---|
| M14 execution engine (`shared/execution`) | the retry counter of each call, `dlq:orders`; PaperBroker: orders by client id, sequence, remaining failures | `submit`, `place_order`, `query_order`, `cancel_order`, `enqueue` | reads `system:status:halted`; calls compliance and the broker adapter; used from several threads |
| M13 kill switch (`shared/compliance/kill_switch.py`) | `system:status:halted`, `system:kill_switch:tier`, `…:reason` | `trigger_tier1/2/3` | called by risk, the API and the monitor; read by M11, M14, M18 |
| M13 compliance rules (`compliance/engine.py`, `india.py`, `australia.py`) | strategy registry, fixed after loading | `check`, the checks of each region, the registry's look-up | called by M14 |
| M17 reconciliation (`shared/reconciliation`) | `_last_mismatch_keys`, `_running`, `_timer`; block flags in Redis and in memory | `start`, `stop`, `_fire`, `run_cycle`, `block`, `clear`, `is_blocked` | polls broker and stores; its blocks are read by M18; the square-off calls `run_cycle` itself |
| M18 orchestrator (`shared/orchestrator`) | `_state`, the LangGraph checkpoint, `orchestrator:state` | `run_cycle` (five nodes), `approve_hitl`, `reject_hitl`, `trigger_kill_switch`, `shutdown`, `restore` | reads halted, degraded, the regime and signal streams and the blocks |
| M19 monitor (`shared/monitor`) | one HeartbeatRecord per agent, the polling thread, its stop event | `register_heartbeat`, `check_all`, `start`, `stop` | reads `monitor:heartbeat:*`, calls the kill switch |
| M22 API (`src/api`) | none | kill, pause, resume, read-only views | writes the control keys |
| M11 signals (`shared/signals`, `lua/signal_dedup.lua`) | `signals:generated`, `signal:dedup:*` | nine gates, `evaluate`, `publish` | uses M06, M08, M02; read by M18 |
| M12 risk (`shared/risk`) | none of its own; positions and P&L of its callers | `evaluate`: breakers, 3-5-7 limits, sizing, caps | between M11 and M13/M14 |
| M08 regime (`shared/regime`) | fitted model, its registry, the regime stream | `fit`, `classify`, `save_classifier`, `load_classifier`, `promote_classifier`, `publish_regime_change` | read by M11, M18 |
| M06 patterns (`shared/patterns`) | none | opening range, levels, confirmation | used by gate 4 and 5 |
| M02 session (`session_manager.py`) | the holiday cache file | `get_state`, `get_holidays`, `square_off_due`, `get_ticker_open_time` | everyone who asks for the time |
| M16 ingestion (`shared/ingestion`) | open bars, ring buffer (Redis and memory), mode, watchdog | tick callbacks, `drain`, `flush_open_bars`, `start`, `stop` | feeds in, storage and `degraded` flag out |
| M03 storage (`shared/storage`) | SQLite buffer, `ticks` and `candles` tables | `append`, `sync_to_timescale`, `upsert`, `backfill` | fed by M16 |
| M15 auth (`shared/auth`) | token record, the daily timer, the clientId pool | `login`, `get_token`, `start`, `stop`, `acquire`, `release` | feed and order adapters |
| M18 memory (`orchestrator/memory.py`) | three tiers | `remember`, `recall`, `score_nightly`, `retrieve_top_k` | Redis, with a local fallback |
| M10 sentiment, M20 alerts | semantic cache, cost counter; the window of sent alerts | `run`, `score`; `dispatch`, `check` | the alerter reads the agents' counter |
| M05 instruments, M09 universe | tables, cache files, the Redis watchlist | `refresh_corporate_actions`, `get_adjusted_series`; `run_universe_filter`, `store_watchlist`, `load_watchlist` | batch commands |
| M07 backtesting | `backtest_results` | `run_backtest`, `run_walk_forward`, `check_promotion_gate`, `save_result` | batch command |
| M04, M21 | none between calls | numerics, reports | batch |

What is hard in this code, and hardly reached by its tests:

- **Interleaving.** `submit` runs on many threads; `check_all` races
  `register_heartbeat`; nothing serialises `run_cycle` of the reconciliation
  agent, or `trigger_kill_switch` against `run_cycle` of the orchestrator;
  `stop()` and `start()` fall into a cycle under way; `drain` replaces the list that
  `push` appends to.
- **Ambiguous failures.** A broker response may be lost after the order was
  booked, Redis's after a tick was queued; a Redis write may fail in the middle of a
  sequence of writes.
- **Stale decisions.** The halt flag is read once per submission; positions are
  read before the risk engine decides; regime and session are judged when a signal
  is made, not when its order is approved; calendars, exclusion lists and
  watchlists come from caches; the four lists
  of a reconciliation cycle are fetched at four moments; the regime in the
  orchestrator's state is that of the last entry it could parse.
- **Crash and restart.** Redis survives the process, `_last_mismatch_keys`, the
  LangGraph checkpoint and the memory fallback do not. Rows are inserted in one
  database and marked in another; a refresh commits in several steps.
- **Progress.** Retry loops must end, a dead agent must halt the system, a
  settled mismatch must be blocked, an API kill must reach the graph, a silent feed
  must be noticed, a token refreshed.
- **Edges of data.** Late ticks at a bar's edge, answers with too few scores,
  walk-forward boundaries, one-share floors, corrected corporate actions.

`PROJECT.json` lists each hazard at its line with the properties aimed at it.

## 2. Modules

| Module | Models | Extended by |
|---|---|---|
| `ExecutionEngine` | `engine.py`, `dead_letter.py`, `brokers/base.py`, `brokers/paper.py` | `MCExecution`, `ExecutionEngineProofs` |
| `KillSwitch` | `compliance/kill_switch.py` | `MCDecision`, `DecisionProofs` |
| `HeartbeatMonitor` | `monitor/heartbeat.py`, `monitor/agent.py` | `MCMonitor`, `HeartbeatMonitorProofs` |
| `Orchestrator` | `orchestrator/graph.py`, `nodes.py`, `state.py`, the control routes | `MCOrchestrator`, `OrchestratorProofs` |
| `ReconciliationDiff` | `reconciliation/differ.py`, pure operators | `Reconciliation` |
| `Reconciliation` | `reconciliation/agent.py`, `block_registry.py` | `MCReconciliation`, `ReconciliationProofs` |
| `Session` | `session_manager.py` | `TradeDecision` |
| `Regime` | `regime/features.py`, `classifier.py`, `mlflow_registry.py`, `publisher.py` | `TradeDecision` |
| `Patterns` | `patterns/*.py`, pure operators | `TradeDecision` |
| `SignalGates` | `signals/gates.py`, `engine.py`, pure operators | `TradeDecision` |
| `RiskEngine` | `risk/*.py` | `TradeDecision` |
| `Compliance` | `compliance/engine.py`, `india.py`, `australia.py`, `strategy_registry.py`, pure operators | `TradeDecision` |
| `TradeDecision` | the way from candles to a tagged order: composes the six above | `MCDecision`, `DecisionProofs` |
| `SignalStream` | abstract: what the stream promises its readers | instantiated by `SignalPublisher` |
| `SignalPublisher` | `signals/publisher.py`, `lua/signal_dedup.lua` | `MCDecision`, `DecisionProofs` |
| `Ingestion` | `ingestion/agent.py`, `aggregator.py`, `buffer.py`, `validator.py` | `MCMarket`, `MarketProofs` |
| `TickStore` | `storage/sqlite_buffer.py`, `repositories.py`, `backfill.py` | `MCMarket`, `MarketProofs` |
| `BrokerAuth` | `auth/*.py`, the pool's use in `ingestion/ibkr_ws.py` | `MCMarket`, `MarketProofs` |
| `Selection` | Python's `sorted` and conditional list comprehensions, pure operators | `Sentiment`, `ActrMemory`, `Backtest` |
| `Sentiment` | `sentiment/*.py` | `Alerts` |
| `Alerts` | `alerts/dispatcher.py`, `cost_alert.py`, `telegram.py`; composes `Sentiment` through its cost counter | `MCServices`, `ServicesProofs` |
| `ActrMemory` | `orchestrator/memory.py` | `MCServices`, `ServicesProofs` |
| `Universe` | `universe/*.py` | `MCServices`, `ServicesProofs` |
| `Backtest` | `backtesting/*.py` | `MCServices`, `ServicesProofs` |
| `Instruments` | `instruments/*.py` | `MCServices`, `ServicesProofs` |
| `CollectionLemmas` | lemmas about finite sums and about `Selection`, no code | `DecisionProofs`, `ServicesProofs` |

Several modules have a variable `env` (in `ExecutionEngine`: `adapter`) that
`Init` chooses from a constant set and no step changes. It says what surrounds
the component: which adapter, whether Redis fails, whether the process is
restarted, whether threads overlap. One run so covers several deployments, and a
property that needs a reliable Redis says so in its own formula.

Components that share no state are checked in one run when each is small:
`MCMarket`, `MCServices` and `MCDecision` have a variable `part` that says which
of them a behaviour is about; the others keep their initial values. This is the
sum of the state spaces, not the product.

### ExecutionEngine

A *call* is a thread inside `submit()`. Its `pc` is at the halt pre-check
(`idle`), at `compliance`, at `query` (from the second attempt on,
`query_order` before `place_order`), at `place`, in `backoff`, at `deadletter`,
or has returned (`done`) or raised. Between any two of these other calls, a
kill, a cancel, a late fill and Redis outages may happen. The PaperBroker
raises its simulated failures before it records; the *contract* adapter is any
implementation of `brokers/base.py`, external to `src/`, whose answer may be
lost after the order was booked, and which may answer PLACED, a fill or REJECTED
(base.py:44-46). The broker's own REJECTED is an answer like another: `submit` returns it
(line 335) without a dead letter, and its record keeps its broker order id, by which
`DeadLettersAccounted` tells it from the engine's own rejection. Compliance is a free verdict. `accepted` and
`excused` are ghost variables. Prices, tags and timestamps are left out.

### KillSwitch

Every caller of `trigger()` makes the three SETs of lines 116-118 one at a
time; each may raise, and the caller may try again.

### HeartbeatMonitor

Time is a clock of ticks: ages, not timestamps, are kept. `check_all` visits one
agent at a time in two steps, `RefreshAgent` (takes a newer value from Redis and
computes the age) and `CountAgent` (increments or resets, fires at the limit), so
that a heartbeat from another thread can fall between them. `Tick` cannot pass
a poll that lags more than `MaxLag`, nor a punctual agent's deadline. `Wiring`
selects the kill switch the checker is given: `"protocol"` takes
`trigger_tier3(reason)`, as the tests' doubles do, `"manager"` is
`KillSwitchManager`, whose signature is different.

### Orchestrator

`run_cycle` is `BeginCycle` and one action per node. LangGraph is external and
modelled from how `graph.py` uses it: an interrupted `invoke` returns `None`
(so `_state` keeps its value), `update_state` acts as the node that ran last,
`invoke(None)` runs what is scheduled. A driver may take the state as input
first (`TakeSnapshot`), because P&L and positions only enter that way. The
other components appear as the writers of the keys and streams the nodes read;
`format` says whether stream entries look like what the publishers write
(`"data"`, one field with a serialised protobuf message) or like what the nodes read (`"plain"`).

### ReconciliationDiff and Reconciliation

A list is a sequence of rows. `PositionMap` and `OrderMap` are the dictionaries the
differ makes of it first (lines 54-55 and 146-147), in which the last row of a symbol or
an order id takes the place of the earlier ones. The differ's seven
kinds of mismatch are set expressions over these; the price tolerance is an integer
inequality. `DiffExact` states what is reported on the lists, without the dictionaries:
by the last row a list has of a symbol or an order.
The agent's threads are timers (a thread slot is reused when a
`threading.Timer` is replaced by the next) and callers. `start()` and `stop()` may come
at any step of a cycle, `MaxStarts` times; a `start()` while the thread of a stopped timer
is still in its cycle makes a second chain of timers, which the ghost `overlap` records. Each fetch, each
`is_blocked`, each `block`, the computation of the stale keys, each `clear` and
the final assignment of `_last_mismatch_keys` is a step.

### TradeDecision and its parts

Prices are integers in hundredths, percentages integers, an indicator that may be
NaN or `None` is a set of at most one value. `SignalGates` has one operator per
gate, in the order in which a failing gate ends the evaluation; `Compliance` one
per check, `RiskEngine` one per breaker, limit and cap. `TradeDecision` keeps what
happens in between: `Learn` (classify and publish a regime), `EvaluateSignal`,
`EvaluateRisk`, `CheckCompliance`, with the clock moving between any two, since a
signal, an approved size and an order are made at different moments.
Amounts in `RiskEngine` are exact: whole rupees for a position, eight-hundredths for the
preliminary estimate (a regime's risk in quarters of a percent, halved in a snapshot
window). The one rounding that decides anything is kept: `FinalCap` lets pass what
`round(pct, 4)` makes 3.0, that is up to 3.00005 % (`TradeCap`). Other effects of
floating point are left out.
`RiskEngine` is also a machine of its own: each caller reads its parameters
(`ReadParameters`) and decides later (`Decide`), while others open and close
positions. `Session` likewise has the holiday calendar with its cache file and an
unreliable source; `Regime` the registry of models. The HMM and TA-Lib
are external: a prediction, a pattern or an indicator is an input.

### SignalPublisher and SignalStream

The script is one step of Redis; the request or the reply may be lost, in which
case `publish` raises and its caller may publish again. `SignalStream` is the
promise to the readers: no signal while halted, none within the window of one
with the same symbol and direction, and nothing is taken back. The mapping reads
the halted key as the script does (`'true'` only).

### Ingestion, TickStore, BrokerAuth

`Ingestion` has the tick callback as steps (validate, for each aggregator read the
open bar and write it back, then push), so that the WebSocket's and the fallback's
thread can meet in the aggregator. `push` is an RPUSH, whose answer may be lost after it
was executed (`doubled`), and after any error two steps on the in-memory list: looking
`self._memory` up and appending to it. `drain` is five: the number to take from memory, the
slices, the assignment of the rest to `self._memory`, LRANGE and LTRIM; an LTRIM whose
answer is lost (`unanswered`) and a tick appended to a list that was replaced (`dropped`)
are told apart. Watchdog threads outlive a `stop()`
until they look at the flag, so a restarted agent may have two. `TickStore` has
several processes that drain one SQLite file, crashes between insert and mark,
and the upserts of live and backfilled candles. `BrokerAuth` has the timer chain
of the scheduler, logins that fail, `stop` and `start` while a timer fires, and
adapters that take clientIds from a bounded pool.

### Sentiment, Alerts, ActrMemory, Universe, Backtest, Instruments

`Sentiment` follows a run of each agent from the feeds to the report, one step per
cache look-up, per batch sent to the language model and per score put back; the two
exchanges share the semantic cache. A run on a caller's headlines
(`BeginCustomRun`, the parameter `custom_headlines`) fetches no indicators. A headline is
a model value, its similarity to another a constant table, the model's answer any list
of scores. `Alerts` adds
the dispatcher and the cost alert. `ActrMemory` compares activations without the
logarithm, which keeps their order: sums of integer approximations of
`elapsed ** -0.5`, which `DecayAssumption` requires to tell apart the ages below the
bound on the clock. Sorting and filtering are given by the place of each element
(`Selection`) rather than by `SortSeq` and `SelectSeq`, whose definitions the
provers cannot unfold.
`Universe` and `Backtest` follow their commands step by step in integers;
`Instruments` has two refreshes that overlap, one step per fetch, commit and reading of
the override file, which the operator may edit between any two of them, and the NSE's
corrections. `recorded` collects the keys that were ever committed, so that a split that
is not applied shows.

## 3. Runs

| Run | Instance | What it shows |
|---|---|---|
| `exec_submit` | 2 calls, an entry of 3 and a priority exit of 1, 1 retry, 3 simulated failures, fill ratio 1/4, both adapters | no double fill; reports name the broker's one record and stay true; fills stay within the request (the ratio rounds to zero, so the floor of one share matters); every failure to place an order has its dead letter, the broker's own rejection none; a halt is contained; every submission returns |
| `exec_deadletter` | 1 call, contract adapter | **violation**: the last attempt's response is lost, the order is dead-lettered and REJECTED though the broker holds it |
| `monitor_watch` | up to 2 agents, interval 2, poll 2, 2 misses, lag 1, four environments | punctual agents are never killed; a kill takes consecutive polls; a dead agent halts the system; a started monitor polls |
| `monitor_wiring` | 1 agent, `KillSwitchManager` | **violation**: `trigger_tier3(reason=…)` raises `TypeError`, which is swallowed: a dead agent never halts |
| `orch_cycle` | 1 signal, 1 process end, two environments | a halt is latched, preempts an approval, survives a clean restart, stops forwarding; an API kill reaches the graph; the chaos and block gates hold for entries the nodes can read |
| `orch_format` | entries as the publishers write them | **violation**: the regime never reaches the state, so HIGH_VOL_CHAOS does not block |
| `orch_pause` | the pause control in use | **violation**: no node reads `system:status:paused` |
| `rec_agent` | 2 symbols, 1 order id, 2 timer slots, 2 starts, 1 caller, quantities 0 and 1, four prices around the 0.1 % tolerance, lists with up to three rows and two of a symbol, seven environments | the differ is exact; blocks match the last cycle; marks survive outages; `stop` leaves no timer waiting unless a `start` overlapped a cycle, and an agent stopped for good comes to rest even then; a settled mismatch is blocked, a settled agreement is unblocked |
| `rec_restart` | `stop`, `start`, `stop` around one cycle | **violation**: two timers were armed, the second `stop` cancels one (`agent.py:214`) |
| `market` | 2 ticks in flight or an agent stopped and started; 2 draining processes, 3 rows, 1 crash; 4 timers; 3 adapters on 2 slots | candles account for all volume; every accepted tick is in one of six places, in two only after an RPUSH whose answer was lost; a synced row is stored; a running scheduler has a timer; clientIds are exclusive; a silent feed degrades |
| `services` | 3 headlines in batches of 2, 2 alerts a minute, 2 memory keys, 3 stocks, 4-day histories of two shapes, 2 refreshes | headlines keep their own scores; the alert limit holds; memory answers the last value; the watchlist is a committed one without stocks long excluded; no look-ahead; every committed split or bonus adjusts exactly once |
| `decision` | 2 publishers, 2 keys; 10 days with 2 holidays; 2 callers of the risk engine, 4 trades a day, a capital at which a risk above 3 % rounds to it; 34 contexts at the gates' edges and 18 moments of the day in both regions; one source per tier of the kill switch | heat exceeds the limits by at most one capped trade per caller; approved entries fall into the session; chaos never becomes an order; a known holiday closes the session; audit keys imply the halt and an acknowledged kill is halted and recorded; the publisher implements `SignalStream` |

**Bounds.** Two calls suffice for every pairwise race of `submit` on one client
id, and with two orders one call can run while another is halted. Three
failures let one call exhaust its two attempts and the other fail once. In
`HeartbeatMonitor` ages saturate above every threshold (`AgeCap`), and two
misses are the code's own limit. The orchestrator's counter saturates
(`MaxSignals`); one publication and one process end reach every gate and a
restore from a saved, a missing and an older state. `rec_agent` has two timer
slots and two calls of `start()` per process, the least with which a stopped thread and a
new timer meet; all pairs of one symbol's rows are initial states of one environment.
In `decision` two callers that read the positions after three trades make five, 15 % of the
capital, above the bound of 13 %: without the 7 % check, or without the cap, the run fails.
The one-share trades risk 6001 of a capital of 200033, a little over 3 %, which the code
rounds to 3.0. Two
ticks suffice for a pair of threads in one aggregator, for a late and an early
tick, and for a drain between two pushes; three rows let one be appended between
a fetch and its mark. The moments of `decision` lie on either side of every
boundary of both regions' days, and its contexts on either side of every
threshold of the gates, so the exhaustive product of the two is what a larger
instance would repeat. The walk-forward windows have two in-sample days and one
out of sample over all eight histories of four days that begin with the same day:
each candle at a boundary changes in some of them. Three of the parts stop at a bound on the clock or on the number of
runs, hence `CHECK_DEADLOCK FALSE` in these configurations. No
symmetry is used: the liveness properties would not allow it.

**Fairness.** A thread inside `submit` keeps running: a broker call
returns or raises, and sleeps end (weak fairness per call). The monitor's thread polls,
time passes, and agents called punctual beat before their deadline. The driver
keeps calling `run_cycle`, nodes go on, and a stopped process is restored. For
reconciliation, timers fire, timer threads run, the process is started, and a
provider that is called again and again eventually answers (strong fairness of
`Fetch`, needed because `FetchRaises` competes with it); a caller may hang
anywhere in its cycle. In `Ingestion` each watchdog thread keeps running and a
`start` or `stop` in progress is completed; nothing is assumed of ticks, connections
or the fallback. Nothing is assumed of Redis: `ApiKillReachesGraph` and
`DriftIsBlocked` have its eventual recovery as a premise, `SubmitReturns`
needs none. `StoppedComesToRest` needs only that timers fire and their threads run. Weak fairness is not assumed of crashes, kills, fills or operators.

## 4. Proofs

All for arbitrary constants that satisfy the named assumptions.

**ExecutionEngineProofs** (any calls, orders, retries, either adapter).
`NoDoubleFill` is not inductive: `accepted` is a counter, and what keeps it at
one is the book. `IInv` adds `BookCounts` (an order was accepted once exactly if
the book holds it, and a working order has no fill), `AttemptsCounted` (inside the
loop an attempt has been counted, and only a call with attempts left sleeps:
the bound in `TypeOK`), `ReportsMatchBook`, and `ActiveExcused` (after a halt a
non-priority call past the pre-check is an excused one: `HaltContained`).
Theorems: `TypeCorrect`, `NeverDoubleFilled`, `ReportsTruthful`,
`HaltIsContained`. `DInv` adds what the dead-letter queue needs: a call that has
not returned has no report (`Unreported`), with the PaperBroker, which raises only
before it records, a call whose order is on the book was told so (`PaperReported`), and `Accounted(c)`, that the entries of the queue which belong
to `c` are those its report admits. Theorems: `FillsBounded` (`NeverOverHedged`),
`DeadLettersHold` (`DeadLettersAccounted`).

**ReconciliationProofs.** `DifferExact` is about all lists of any length, with any number of
rows of a symbol: the last row of a symbol is unique, so the dictionary and the property
speak of the same row, and the rest is by cases on which side has one. `TypeCorrect` and `DiffAlwaysExact`
hold in every environment and for any number of timers and callers; so do the others, for
any number of starts. `Chain` says that one timer thread at most is not idle,
and that an armed timer is the current one of a running agent; `ChainUnlessOverlap`, that
it holds until a `start()` meets the cycle of a stopped timer: `StopIsFinal`. `Marks` relates the registry to the running cycle: outside the
clearing phase every key of `_last_mismatch_keys` is marked in Redis or in
memory; while blocking, each current key is marked, about to be marked or still
to be examined; while clearing, no current key is among those to clear. This
gives `FlaggedKept` under arbitrary Redis failures and crashes. `Exact` is the
converse with a reliable Redis: nothing else is marked; with it `BlocksExact`.

**OrchestratorProofs** (both stream formats, with and without outages, overlaps and
restarts). `KillPreemptsHitl` says nothing of a run in flight, whose values become
`_state` at its end. `OInv` adds `HaltCarried` (a snapshot or a run is at least as
halted as `_state`, unless kills and cycles overlap), `NoHitlInState` (only a
checkpoint carries a request for approval), `RiskCheckpointRuns` (the one checkpoint
with something to run was written by `risk_node` in a system that is not halted),
`SavedWhenClean`, and `ChaosSeen` (behind `regime_node` the run knows the chaos of
the stream). Theorems: `TypeCorrect`, `KillPreempts`, and from the same invariant the
action properties `HaltIsLatched`, `HaltOutlivesRestart`, `GatesHold`.

**HeartbeatMonitorProofs** (any agents, interval, polling period, lag and number of
misses). `OneAtATime` describes the position of `check_all`; `RecordCurrent` and
`PunctualFresh` say that without outages the record equals the heartbeat or there is
one to read, so that a punctual agent is never found stale (`PunctualIsSafe`);
`ThreadFollows` is `StartedPolls`, made inductive by what holds between `stop()` and
`start()`. `MissesSpaced` is the arithmetic behind `NoHastyKill`: after `k` misses
a record that this poll has still to count is older than `Interval + k * PollEvery`
at the start of the poll, a counted one older than `Interval + (k - 1) * PollEvery`.
Theorems: `TypeCorrect`, `PunctualIsSafe`, `StartedPolls`, `KillIsNeverHasty`.

The modules that follow prove about several components that share no state, each
under its own specification (`PoolSpec`, `TokenSpec`, `StoreSpec`, `FeedSpec`, `CalSpec`,
`TradeSpec`, `RiskSpec`, `KillSpec`, `AlertSpec`, `MemSpec`, `UniSpec`,
`InsSpec`, `BtSpec`): the component's initial
predicate and next-state relation, without the variable `part` and the restrictions
of the MC module.

**CollectionLemmas.** What the proofs below need of finite sums, sorts and filters, for
any length. A schema of induction takes an operator, which the provers cannot
instantiate; a *set* of counterexamples they can. `LeastNat` (a non-empty set of
naturals has a least element, from the library's well-foundedness of `<`) makes each
induction one about the smallest counterexample, and `SubsetInduction` packs
it for the subsets of a finite set. From these: the sum of a function over a set is
well defined (`SumsExist`, `SumsAgree`) and loses exactly a term when an
element goes, whichever one the definition would pick first (`SumSplits`); one sum
is below another when its terms inject into larger ones (`SumAtMost`, `SumLess`);
`InOrder` lists a finite set in the given strict order, each element once
(`InOrderLists`), and is the only such list (`InOrderUnique`); `Kept` composes
(`KeptOfKept`), keeps everything when nothing is dropped (`KeptAll`), and loses its head
with the smallest position (`AscendingRest`).

**MarketProofs.** `SlotsExclusive` (any adapters and slots): an adapter that connects
again while it holds a slot has two, so `PoolInv` says `TwoHands` beside the property.
`RefreshIsAssured` is inductive together with the type of the clock. `SyncedIsStored`
(any syncing processes): rows are marked by count, so `OneSync` says that the rows of
the one sync are the oldest pending ones, whatever is appended meanwhile, and
`Counted` bounds the inserts of a row in each stage of its life. `VolumeIsConserved`
and `NoTickIsLost` (any threads, ticks and queue sizes): `OneInjection` says that until two
injections overlap the bar that was read is the one written; `Places` and
`NoneTwice` say that the six places of a tick cover what was accepted, overlap only in
ticks whose RPUSH lost its answer, and that no queue holds one twice; `ReadsHold` says what
a `drain` under way knows of the lists, which pushes only extend: what it counted, sliced
or read from Redis is still there when it uses it.

**DecisionProofs.** The publisher (any publishers, keys and window): the abstract
guard speaks of the entries of the stream, the script's of a key with an expiry.
`PubInv` ties them: a dedup key outlives the window of every entry published
under it (`KeyCoversEntries`). It is inductive because the clock only moves
forward and the script sets key and entry in one step. Theorems: `KeysCover`, and
`PublisherRefines`, that the publisher implements `SignalStream`.
The calendar: `HolidaysHold` rests on `KnowsHolidays` (a cached calendar has
every holiday announced before it was fetched) and `AnswerDated`, which must hold
before any announcement, since one may come on the day of the answer.
The decision: `ChaosNeverTrades` and `EntriesInSession` let the classifier step at
any stage of a decision, which the run does not. `TradeInv` carries the facts from
step to step: features in chaos show in the stream (`StreamTellsChaos`), a signal
under way has passed gates 1 and 7 (`SignalGated`), an order the clock rules of its
exchange (`OrderCleared`). The session's hours are the code's, so the theorem
shows that gate 7's window, the expiry, the square-off and the staggered open fit.
The risk engine: `HeatHolds` (any callers, proposals, sectors and capital). That the
book is within the bound says nothing of the decisions under way on older views.
`Covered(G, L)` counts them: the risk in the sectors `G`, plus a full trade (`TradeCap`, 3 % as the code rounds it) for
every caller whose view still leaves it room (`MayOpen`), is within the bound. Opening
a trade moves its caller's share from the second term to the first; reading
the positions anew adds a caller to `MayOpen` only when the view, which is then
the book, is within the limit, and so leaves room for a trade of every caller (`RoomForAll`).
`Approved` shows that whatever sizing and cap `evaluate` takes, the risk it
approves is at most `TradeCap`; the bound holds for every capital.
The kill switch (any number of sources): `KillProgress` records what a source
has certainly written from the SET it is about to make; keys are never removed.
Theorems: `HaltFirst`, `AckedRecorded`.

**ServicesProofs.** `RateHolds` (any limit, window and sentiment runs beside it):
`DequeIsTail` says that the deque of send times is the end of the history of deliveries
and that everything dropped had left the window; a count of the window is then at most
the deque's length. `RecallHolds`: `MemInv` says where the last word is, for each tier;
`ShortIsLast` is about the side, Redis or dictionary, the last write went to.
`WatchlistHolds` (any stocks, builders and lists): `FilesComplete` (a cache file holds
every row listed before it was written), `KeyIsCommitted`, and `CleanBuild` of
every build on its way to a store (`BuildersClean`, `HistoryClean`). That the ranked list has
only entries of the unranked one is `RankedAreEntries`: the number of entries before
an entry is an injection into `0..n-1`, hence onto it. `AdjustedHolds`: `RowsGiven`
(every row, stored or fetched, was given by the NSE or the file), `Upsertable` (one
row per key), `NothingMissing` (the keys in the table are all that were ever committed:
each is applied, and once) and `OverridesPrevail`. It is stated for states with `WholePrices`, in
which the integer model's divisions leave no remainder: the code scales floats, and
scaling twice and scaling by the product differ for integers otherwise. The candles and
ratios of `MCServices` satisfy it in every reachable state.
`ScoresHold` (any agents, feeds, batch size, similarities and answers): `RunOk` says
what a run knows at each step. While it scores, the answers so far belong to the first
missing texts, in order (`Answers`), and their number is where the next batch
begins; while it puts them back, the first answer belongs to the first placeholder, and
both move up together; at the end there is no placeholder, so dropping the placeholders
drops nothing. Entries of the shared cache carry a score of their own text, so a
hit fits whatever the other agent added meanwhile.
`RanksHold` (any keys and retrievals): `LongTyped` says that the retrievals of an entry are past and
that the listed keys have entries. If one entry dominates another, its last retrievals match the
other's one by one, each with a decay at least as large, and either one of them is
larger or there is one more: `SumLess`. A higher score comes first in the stable sort
(`RankedOrder`). `DecayAssumption` is where the integers stand for floats: it fails only for a
clock bound at which two ages have the same thousandths.
`LookAheadHolds` (any histories, grid and window lengths): `BtInv` says that each
window is what `WindowAt` gives for this history at its position. The candles of a
range of days are then a selection from those up to its last day (`RangeOfPast`, by
`KeptOfKept`), and the in-sample days end before the first out-of-sample day
(`DatesAscend`, `WindowDates`), so that histories which agree up to a day give the same
candles, and with them the same search and result.

The assumptions on constants are named in the modules that declare them
(`...Assumption`), and TLC evaluates them in the runs. Type correctness is a theorem
(`TypeCorrect`) or a conjunct of the inductive invariant, not a property of a run;
`HaltFirst` is a conjunct of `AckedKillIsRecorded` in the run and a theorem of its own.

**Only model-checked.** All liveness (`SubmitReturns`, `DeadAgentHalts`,
`ApiKillReachesGraph`, `DriftIsBlocked`, `ResolvedIsCleared`, `StoppedComesToRest`, `SilenceDegrades`):
the prover has no ENABLED or fairness reasoning. Every invariant and every safety
action property of the passing runs is stated by a theorem; `RecencyRanks`, about the pure
ranking of `retrieve_top_k`, is proved and not in a run. What a theorem takes from its
model stays the model's: the assumptions on constants, `WholePrices` of `AdjustedHolds`,
and the premises on overlaps and outages visible in the properties.

## 5. Divergences met while modelling

Five have a run (section 3). The properties below would fail on the present
code; where they limit a property, the premise is visible in its formula.

- `execution/engine.py:325`: the halt is read once, before the loop; a halt
  during a back-off does not stop the retry. `kill_switch.py:64`: "M14 reads the
  halted Redis key before submitting any order." (`HaltContained` excuses such calls.)
- `execution/dead_letter.py:88`: a Redis error in `rpush` leaves `submit` as an
  exception and the entry is kept nowhere; `execution/README.md:33` promises an
  "in-memory fallback if Redis down". (`DeadLetterRaises`.)
- `monitor/heartbeat.py:152`: a local heartbeat between the age computation and
  the increment leaves a miss on a fresh record, so the next miss kills one poll
  early. (`NoHastyKill` is about agents of other processes.)
- `monitor/agent.py:137`: after a `stop()` whose join timed out, `start()` sees
  the old thread alive and returns; the thread then exits. (`StartedKeepsPolling`
  excludes `slowJoin`.)
- `orchestrator/graph.py:221`: `approve_hitl` does not read the halted key, so
  an approval after an API kill goes through; `state.py:10`: "the kill switch
  ALWAYS preempts a pending HITL approval".
- `orchestrator/graph.py:204`: a cycle in flight during `trigger_kill_switch`
  overwrites the killed state with its result; `state.py:8` says the flag is
  never reset within a live session. (`HaltLatched` excludes `overlap`.)
- `orchestrator/nodes.py:170`: each cycle counts the newest stream entry again;
  `state.py:60`: "Count of valid signals generated during this session."
- `orchestrator/nodes.py:278`: the breaker latches in the graph only;
  `risk/circuit_breaker.py:4` has M18 "set Redis flag".
- `compliance/kill_switch.py:116-118`: three SETs, so two triggers may leave the
  tier of one with the reason of the other; `core/constants.py:140` says "set
  atomically".
- `reconciliation/differ.py:54`: of several rows of a symbol, one per product, only the last is
  compared, so an open position followed by a flat row of the same symbol is not reported;
  `differ.py:41` names a "Position present at broker but absent internally." (`DiffExact` is
  about the last rows, and `rec_agent` has such lists.)
- `reconciliation/block_registry.py:126`: a block written to Redis reads as
  unblocked while Redis is down (`reconciliation/README.md:73`).
- `reconciliation/agent.py:177`: a failed DELETE is never repeated; `:103`: after
  a restart nobody clears the previous process's flags; `:171`: overlapping cycles
  may leave a block nobody clears. (The premises of `ResolvedIsCleared`.)
- `reconciliation/agent.py:171`: an adapter that answers a failure with empty
  lists lifts the block of an unexpected position; `reconciliation/README.md:77`
  calls that "intentionally conservative". (`DriftIsBlocked` excludes `blind`.)
- `risk/engine.py:216`: the 3-5-7 limits are applied to an estimate on positions
  read earlier, so the heat may pass 7 %; `risk/README.md:14` states the limit
  without exception. (`HeatBounded` has the overshoot that remains.) A chaotic
  regime is still sized at the floor of one share, and a risk of up to 3.00005 %
  passes the 3 % cap (`sizing.py:86` rounds it).
- `signals/gates.py`: gate 4 compares a pattern's `bar_index` with the number of
  patterns, not of bars; gate 3 divides by an average volume that may be zero.
- Nobody checks `expires_at_ms`: an ASX order is approved after its signal has
  expired until 16:21:30 (India's rules square off by the clock). ASX exits pass
  through the same wash-trade and layering checks as entries.
- `ingestion/agent.py:219`: `flush_open_bars` hides the one-minute bar of a symbol
  behind its five-minute one; `buffer.py:154`: an LTRIM that was executed and whose
  answer is lost loses the ticks that were read; `:99`: an RPUSH that was executed and
  whose answer is lost leaves the tick in both queues, so `drain` hands it out twice; `:140`: a tick
  that `push` appends to the in-memory list while `drain` replaces it by a slice is lost, where
  `:7` says "no data loss on reconnect" (`NoTickLost` names these cases); the aggregator's read and write
  of a bar are not serialised between feed and fallback threads.
- `storage/sqlite_buffer.py:123`: rows are marked by count, so two draining
  processes may mark rows neither has inserted. (Premise of `SyncedImpliesStored`.)
- `session_manager.py:225`: a holiday announced after the last fetch is unknown for
  up to seven days.
- `universe/repository.py:158`: an empty watchlist (a chaotic regime) is not
  stored, so readers keep yesterday's; an exclusion list that cannot be fetched
  counts as empty.
- `orchestrator/memory.py:174`: after an outage `recall` may answer with an older
  value. (Premise of `RecallIsLast`.)
- `backtesting/repository.py:69`: a repeated `run_id` keeps the old metrics beside
  the new verdict; the windows of a walk-forward share one random generator, so a
  window's result depends on how many were drawn before it.
- `instruments/service.py:75`: two dividends of a symbol on one ex-date make the
  batch upsert fail and end the refresh, the overrides included; a failed NSE
  fetch skips the overrides too; an ex-date moved by the exchange leaves both
  rows, so the series is adjusted twice; an override file with an error raises
  after the live rows are committed.
- `monitor/pnl_tracker.py` reads any value of the halted key as halted, the others
  only `'true'`.
- `api/routers/controls.py:39`: a failure at the second SET answers
  `success=False` though the system is halted; `api/routers/ws.py:47`: until the
  first message the tail asks for `$` in every poll, so a signal between two polls
  is never sent.

## 6. Plan

1. Proofs about the registry of regime models and about the report's aggregate score.
2. The verdict of `TradeDecision` in place of the free one in `ExecutionEngine`,
   once a caller in the repository joins the two (today only the command and the tests call
   `submit`).
3. Agents registered while a poll runs; the heartbeat ping of the clientId pool.
4. The margin ledger, stop-loss linkage and limiter of the Lua scripts, once
   code calls them and so fixes their order and keys.

## 7. Not modelled

- **Numerics and learned functions**: the indicators (TA-Lib over floating-point
  series), the Gaussian HMM, embeddings and the language model. Their results are
  inputs of the modules that use them.
- **Presentation**: reporting, the signal explainer, the dashboard, the read-only
  API routes, metrics and the P&L tracker, the audit log, e-mail and the
  formatting in all commands. They change nothing another part decides on.
- **Commands** other than those of instruments, universe and backtesting: they
  parse arguments and call one operation that is modelled.
- **Code without a caller or without a body**: five of the Lua scripts, the
  ASX corporate-action source, the Kite and IBKR order adapters
  (`NotImplementedError`), the application processes, which start no
  component yet.
- **Constants and configuration** appear as the modules' CONSTANTS.
- Of the modelled parts: the mismatch stream and callback of reconciliation, the
  TTL of block flags (off by default), `reconciliation_node` of the orchestrator
  (it only counts for the display), the TOTP exchange of the login, the pool's
  ping, the ratios of a backtest other than Sharpe, drawdown and win rate, and agents
  added while a poll is running.

`PROJECT.json` says of every component what is covered.
