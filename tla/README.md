# CryptoAgents: TLA+ models

Specifications of this repository: the pipeline from the exchanges' data to an
open paper position, the processes that manage and close positions in a shared
database, the LLM budget, and the clients and streams underneath. The modules
are translated from the code; the paths below are relative to `src/`.

    tlc -workers 2 -config PositionManager.cfg MCPositionManager    # one run
    tlapm PositionManagerProofs.tla                                 # one proof module

`PROJECT.json` lists every run with what it shows, the lines of code behind
every definition, the hazards the properties are for, and the theorems.

## 1. The system

CryptoAgents screens crypto perpetuals every four hours, lets LLM agents
analyse the candidates, opens virtual positions on a paper account and manages
them until they are closed. It is not one process but several, which meet only
in the database.

| Part | Code | State it keeps | Operations |
|---|---|---|---|
| Worker | `app/engines/worker/scheduler.py`, `pipeline/` | none between ticks | every 4h bar: screen, enrich, analyse, persist signals and open positions |
| Screener, enricher | `app/services/screener/`, `enricher/`, `app/domain/indicators.py` | locals of a scan | universe, a task per symbol, signals, votes, score, ranking; social insight |
| Agents, analysts | `app/services/agents/`, `app/services/analysts/` | graph state per symbol | technical and setup graphs, debate, devil's advocate |
| LLM gateway | `app/llm_gateway/`, `app/adapters/clients/llm/` | `llm_call` events | budget check, call, record the cost |
| Levels, risk, sizing | `app/domain/synthesis/`, `app/domain/risk/` | none | vote to bias, intent to prices, risk rules, leverage, margin |
| Entry | `app/services/entry/`, `account_service.py` | rows `signal`, `virtual_position`, `event` | re-resolve the levels at the live price, gate (slots, direction, drawdown, funding), deduplicate, size, open |
| Position manager | `app/engines/position_manager/runner.py`, `app/services/positions/` | nothing but the rows | every five minutes: list open positions, replay their candles, close or store the stop stage, refresh the equity, commit, then announce |
| Managed exits | `app/domain/risk/exits.py` | locals of two loops | the stop/target walk and the stop monitor |
| Commands | `cli/commands/` | none | `watch`, `pipeline`, `force-close`, `manual-signal`, `halt-trading`, `resume-trading`, `account-create` |
| Database | `db/` | account, positions, signals, events, system state | one transaction per `session_scope`; plain reads, no locks, no explicit isolation level |
| Collector, hub | `app/engines/collector/`, `app/engines/api/liquidation_hub.py` | queue and batch; subscriber queues | three producers, batch writes; fan-out to websockets |
| Research database | `db/research/` | signal records, outcomes, liquidations | idempotent writers, readers for the API |
| Data clients | `app/adapters/clients/` | rate-limiter slots, the CoinGlass gate | HTTP, websockets |
| Notifications | `app/adapters/notifications/` | alert throttle | Telegram cards and alerts |
| API | `app/engines/api/` | the hub | read-only queries |

**How they interact.** The worker and the commands open positions, the position
manager and `watch`/`force-close` close them, and both sides write the same
`account` row (openers only read it). Everything between the processes goes
through committed rows. Inside the worker a tick is a sequence of stages, each
of which hands a list to the next: symbols, candidates, enriched candidates,
signals; within a stage tasks run concurrently and share one event loop, one
CoinGlass client with its semaphore, gate and limiter, and one LLM budget.
Inside the manager, the close of a position calls the repositories in one
session, and the side effects (Telegram, research outcome) run after the commit
from a list in memory (`CycleOutcome`). The manager remembers nothing between
cycles: every cycle rebuilds the managed stop from the candles since the entry,
so a restart is an ordinary cycle. The collector and the API each drain the
same three exchange streams for themselves.

**What is hard about it.**

- *Time and candles.* A cycle looks at a market that has moved on, at a last
  candle that is still forming, through a window of the last
  `EXIT_CANDLE_LIMIT` candles. The exit that it finds late must be the exit it
  would have found in time.
- *Two prices.* Levels are resolved, validated and sized at the price of the
  analysis and resolved again at the price of the fill.
- *One transaction for many positions.* A savepoint per position, one commit,
  announcements after it: what fails, is rolled back or is killed in between
  must neither lose money nor announce twice.
- *Several writers.* Balance, slots, deduplication and the halt flag are all
  read before they are written, by processes that know nothing of each other.
- *Parallel calls.* The budget check and the booking are two transactions
  around a slow call; a debate gathers two calls of which one may fail while
  the other goes on; a rate-limit answer must stop requests that are already
  past the gate.
- *Missing data.* Every source may fail by itself, and the screener decides on
  what is left.
- *Clocks that are looked at only now and then.* The flush, the deliberate
  reconnect and the scheduler compute their delays after the work.

`PROJECT.json` ("hazards") has the list, each at its line, with the properties
that would catch it going wrong; those no property covers say why.

**What makes each component correct** (the properties are defined in the
modules):

- Managed exits: the stop only tightens (`StopNeverLoosens`), is a function of
  the best price (`StopTracksBestPrice`), is tested before the candle moves it
  and before the target (`NoLookAhead`), and both loops and the exit reason
  tell the same story (`MonitorAgrees`, `ReasonTellsPrice`).
- Exit decision: a late exit is the timely one (`LateExitIsTheSame`), none is
  lost or replaced by an expiry (`MissedExitIsCaught`), the stage never goes
  back (`StageNeverRegresses`), a reported stop is enforced
  (`ReportedStopHoldsLater`).
- Manager process: implements the ledger, books and rows agree, the equity
  counts open positions only, nothing is announced twice, exits are executed
  eventually.
- Database: implements the ledger under concurrency, one open position per
  symbol, one entry per bar, caps, halt.
- LLM gateway: the daily cap may be overshot by at most what is in flight
  together (`OvershootBounded`).
- Analysis: the nested retries are bounded (`CallsBounded`), a failure never
  leaves a run waiting or a candidate without a verdict (`RunGoesOn`), and only
  half of a failed debate outlives its candidate (`LoneStragglers`).
- Entry: levels are sound at both prices (`LevelsSound`), no position opposes
  the analysts (`NeverAgainstAnalysts`), a stop costs less than the margin and
  does not trip the drawdown breaker (`StopLossCovered`, `OneStopIsNoHalt`).
- Screener and enricher: no side but that of its thresholds (`MirrorImage`), an
  outage never promotes (`OutageNeverPromotes`), the ranking stands whatever order the tasks
  end in (`TopStands`), missing social data err on one side (`RiskErrsOneWay`).
- Collector and hub: implements `Delivery`, a batch is not left lying
  (`BatchIsRecent`), new listings are picked up (`NewListingsSeen`), only slow
  subscribers lose events (`OnlyTheSlowLose`).
- CoinGlass client: the pause is kept by all (`PauseRespected`), the rate too
  (`RateKept`), every request ends (`EveryRequestEnds`).
- Scheduler: only bars that begin during a run are skipped
  (`SkipsOnlyWhenBusy`).

## 2. The modules

```
ExitRules          the rules of exits.py as operators
  ManagedExit        the two loops over one position, candle by candle   + ExitProofs
  ExitReplay         market, candle window, cycles at arbitrary moments  + ExitProofs
Ledger             abstract: what the paper account promises
  PositionManager    the manager process, implements Ledger              + PositionManagerProofs
  TradingDB          all writers of the database, implements Ledger      + TradingDBProofs
LLMGateway         budget check, call and booking of any number of tasks + AnalysisRunProofs
  AnalysisRun        the analysis stage over it, implements LLMGateway   + AnalysisRunProofs
SetupLevels        intent to prices, risk rules, leverage, margin
  Entry              a candidate from the vote to the position           + CandidateProofs
Indicators         the indicators of the screener
  Criteria           signals, score, votes
    Insight            social insight of a candidate
      MarketScan         the screener's and the enricher's tasks         + CandidateProofs
ExchangeStreams    the websocket clients of three exchanges
  Collector          queue, batch, flush; implements Delivery            + StreamsProofs
  Hub                subscribers and their queues                        + StreamsProofs
Delivery           abstract: what the collector promises of an event
CoinGlass          gate, semaphore, limiter, retries of the client       + WorkerIOProofs
Scheduler          the clock of the worker                               + WorkerIOProofs
FoldTheorems       sums and folds over finite sets, extremes and quotients: the laws that
                   proofs about totals, histories and lists rest on
MC*                constants and helpers for TLC
```

### ExitRules and ManagedExit

`WalkCandle` is one turn of the loop of `walk_managed_exit`, `MonitorCandle`
one of `current_managed_stop`; `StopReason` and `TrailedStop` are the private
helpers. Prices are integers and R (the initial risk) is twice `half`, so the
default thresholds 0.5R/1R/0.5R are whole numbers. Python compares exact
`Decimal` prices except in the excursion, where `mfe_r` is a float ratio
compared with a float threshold; the model compares exactly, so a rounding
that decides a candle exactly at a threshold is outside it. `ManagedExit` runs
both loops side by side; the candle may be any candle, each step is one.

### ExitReplay

Adds the market and time. `candles` is the history since the bar opened (the
last one forms), `Tick` trades one price step in it, `Roll` starts the next,
`Open` enters (from the pipeline at the live price with `entry_ts` = open of the
bar, or by command at whatever `--entry` says with `entry_ts` = now), `Poll` is
one successful `_process`: `FindExit` with the walk first and then delisting,
funding and expiry, else the new stage.
Between two polls anything may happen, so downtime, failed fetches and restarts
need no action of their own. The other variables are histories for the
properties: whether the initial stop was traded (`touched`), the exit of a
manager that never sleeps (`eager`), the last reported stop (`reported`,
`crossed`).

### PositionManager

The process. `Wake` starts the transaction (its snapshot is `ses`), `Passes`,
`Holds` and `Closes` are the outcomes of `_process` for one listed position,
`Commits` refreshes the equity and commits, `SendsCard`, `RecordsOutcome`,
`SendsMove` and `Sleeps` are `dispatch_cycle`. `WriteFails` is a failed write in
a savepoint, `CycleFails` a failed commit or a kill before it, `DispatchDies` a
kill after it. Equity is kept as what it was computed from (balance and
positions). Opening by the worker and the market reaching a level are the
environment. No other process writes here; that is TradingDB's question.

### TradingDB

Every process is one transaction: `Begins` takes the snapshot, `Does` works in
the session, `Commits` merges the session's writes into the database, `RollsBack`
is any failure. The merge is column by column, as SQLAlchemy writes only changed
columns and the balance as an absolute value. `PipelineBegins`/`Persists` are
`persist_signals`, `ManualBegins`/`Enters` `manual-signal`,
`ManagerBegins`/`Keeps`/`Closes` a cycle, `CloserBegins`/`Closes` `force-close`,
`SetsHalt` the two commands. The code names neither locks nor an isolation
level, so reads are InnoDB's REPEATABLE READ snapshots. `ConflictAborts` is
MariaDB's `innodb_snapshot_isolation` (on by default since 11.6.2; the compose
file asks for `mariadb:11`): an update of a row changed since the snapshot is
refused. Inserts of different rows never conflict, except on the unique key of
the signals.

### Ledger

The abstract account: sets of positions are entered and settled, each at most
once; a settlement changes the balance and the event total by the same amount
and leaves the peak at or above the balance and never lower than it was. Both
detailed modules implement it, with the identity mapping from their committed
rows: a cycle is one `Settle` of what it closed, however many savepoints,
failures and restarts it took.

### LLMGateway and AnalysisRun

`LLMService.structured` is three steps of a task: `Admits` (or `Refuses`) is
`ensure_within_budget` in its own transaction, then the task is in `flight`,
and `Answers` books the cost, or `Breaks` books nothing. `NewDay` is midnight
UTC: calls in flight are booked on the new day. A completion is one call with
the retries of its client inside. Costs are integers in units of the smallest
booking the cap is compared at; a cost of 0 is real (unknown price).

`AnalysisRun` is `run_analysis`: each run (the worker's tick, the `pipeline`
command) has a place `at` in its sequence of candidates, and starts the calls
of a step when it comes to it (`GoesTo`). The steps are the awaits of
`_analyze_candidate` and `_run_setup_chain`; `Heard` is their return, `Misses`
the exception, `Settles` the end of a candidate in the loop. `gather` of bull
and bear without `return_exceptions` raises with the first failure and cancels
nothing, so the other call stays open and nobody awaits it. What the agents
answer is a choice between all the branches of the code: neutral vote, closed
gate, invalid intent, no levels, risk rule, veto.

### SetupLevels and Entry

`SetupLevels` has the pure functions: `Setup` is `resolve_setup` (anchor, ATR
multiple, clamps, target, ordering), `IntentValid` the rules of
`_validate_intent`, `Leverage` and `MarginShare` the tables. `Entry` is one
candidate after the other: `Aggregates` and `Decides` make the synthesis,
`Gates`, `Builds`, `FindsLevels`, `RiskOk` and `Advocate` are
`_run_setup_chain` with its two nested retries, `Fills` is `evaluate_fill` at
another chart, `Opens` the portfolio manager. Agents answer anything their
response models admit. Prices are integers of which 0.3, 8 and 20 percent are
integers too. Where the float arithmetic of Python decides an equality, the
model has what it decides: 0.35 - 0.20 falls short of the bias threshold 0.15
and 0.20 - 0.25 + 0.20 exceeds it (`Bias`), and a reward of exactly the minimum,
which the default multiples give, may come out either way (`RiskOk`,
`RiskRefused` overlap).

### Indicators, Criteria, Insight and MarketScan

A bar of a symbol's history holds what the exchanges publish for its four
hours, and the values which the library `ta` has for the series that ends there
(RSI, MACD, ADX, ATR, EMA, band width); what `indicators.py` makes of them is
translated: guards on the length, divergences between local extremes, daily
candles, VWAP by day, CVD and so on. `Criteria` is the second half of
`evaluate_symbol` (which signals are left when calls fail) with the votes and
the score of `criteria.py`; ratios of long to short are logarithms, so that
balance is 0. `Insight` is `derive_social_insight`. `MarketScan` is the
concurrency around them: `Begin` the universe, `Enter` the semaphore, `Fetch`,
`AskCoinGlass` and `FetchBook` the awaits of a symbol's task, `Finish` the
ranking, `AskSources`, `AskLunarCrush` and `HandOver` the enricher. A refused
key fails the tick, any other error costs a symbol.

### ExchangeStreams, Collector, Hub and Delivery

A websocket client connects, reads, loses its connection, waits and connects
again. `Connection` is all it does by itself, `Message` a message with events;
OKX and Bybit fetch their list of symbols when they connect (`Selective`),
Bybit leaves its connection on purpose after an interval (`Resubscribing`),
whose end it looks at between messages or after a silence. `Collector` completes
this with one queue and a consumer whose steps are its awaits (`Take` or
`TimesOut`, `Decide`, `Write`), a write that may fail, `Stop` and `Start`; `Hub`
with the queues of the subscribers (`Pump`, `Subscribe`, `Get`, `Send`,
`SendFails`, `HangUp`). `Delivery` is the abstract collector: waiting events
leave from the front, together, stored or given up. The mapping puts the batch
before the queue.

### CoinGlass and Scheduler

`CoinGlass` has a task for each `_request`: `Begin` takes the semaphore,
`Acquires` a slot of the limiter's leaky bucket (`debt`), `WakeUp` ends the
sleep outside its lock, `PassesGate` and `Sends` follow; `Answer` is an answer,
`Limited` the rate-limit answer that shuts the gate (`ShutsGate`), `Reopen` the
end of the pause in the one task `_reopen_gate`, which wakes the waiting (they
run before the next answer: `NobodyWoken`). `Abandon` is a cancelled request,
`Close` the client's end: a reopening on its way is cancelled, which opens the
gate, whoever waited goes on, and only then is the HTTP client closed
(`ClosesHttp`). Clocks count down. `Scheduler` is `run_forever`: a run
begins, may take any time, ends, and the next tick is computed from the moment
of its end; `Signal` and `Restart` are the process's life.

## 3. The runs

| Run | Question | States | Bounds |
|---|---|---|---|
| `exit_walk` | the rules, on every sequence of candles | 1.9k | prices 0..10; seven positions: long and short of two sizes, R = 0, stop on the wrong side (accepted by `manual-signal`) |
| `exit_replay` | late cycles on a moving market, for entries of both kinds | 615k | a long position that never expires, a short one that expires after two candles; prices 0..5, three candles, window 2 |
| `manager_cycle` | failures and crashes of the process, and exits executed in the end | 157k | two positions, pnl -2 or 3, two faults; fairness |
| `shared_ledger` | overlapping writers implement the ledger; one entry per bar | 357k | cycle, force-close, worker and `pipeline` on one bar, manual signal, one symbol, pnl -2 or 3 |
| `worker_ticks` | caps, dedup and halt in the worker | 1.9M | two ticks, four symbols, three slots, two per direction |
| `llm_analysis` | two runs under one budget, with failing and late calls | 513k | worker with two candidates, command with one, cap 1, costs 0 or 1 |
| `trade_entry` | levels, conviction, margin from the vote to the position | 15k | seven votes, nine intents, four charts (a drift within the limit, one beyond it, ATR of zero, one and ten percent), three funding rates, default settings |
| `streams` | the collector and the hub over the same streams | 804k | two exchanges (Bybit with its list; messages of up to one and two events), four events and six ticks for the collector, two subscribers with queues of two, three events for the hub |
| `worker_io` | the requests to CoinGlass; the clock of the worker | 115k | four requests, one unpaid, two at a time, two attempts, pause 3, interval 2; bars of four ticks, fourteen ticks; fairness |
| `market_scan` | a scan with outages, and the decisions of the screener | 532k | one coin with up to six of five kinds of bars, or three coins with several listings, two tasks at a time, two places; up to two calls missing, any endpoints missing |

*Why the bounds are enough.* The walk sees one candle and a state that is
bounded by the price range, so its run is exhaustive on the grid, which is wide
enough for stop, breakeven, trail, retrace and target on both sides. The replay
needs an entry candle, a later one and one that rolls past it; a window of two
just holds the history since the entry: it slides over the candle of the entry,
but cuts nothing off what follows (see `HistoryFits`). The manager treats its
positions symmetrically and they meet only in the account row: two suffice for one to be closed while another fails;
two faults allow a failure in the cycle that repeats a failed one. In TradingDB
each conflict is between two transactions; the others are there to show that
they do not disturb. One symbol is enough for a cycle with several positions,
since a manual signal may enter it a second time (`double_entry`). Two
candidates let the rest of a debate overlap with the next candidate, a second
run lets two share the budget, and with a cap of one unit a single booking
closes it, so that every overshoot comes from calls in flight. In `trade_entry`
the intents and charts are chosen to reach each clamp, the ordering test, both
retries and both outcomes of every rule, and the theorems cover the rest of the
values. In `streams` a batch of two with four events has a full batch, an
interval's batch and a queue behind a write; six ticks hold two connections. In
`worker_io` two requests can be past the gate while a third one's answer shuts
it and a fourth waits for the semaphore. In `market_scan` the periods are
shortened so that six bars hold two days and all local extremes, and the five
bars (rally, selloff, accumulation, distribution and calm) set every signal to
each of its values somewhere; all directions, gates, outages that blur a
direction and pump risks are reached. Each property is paired with a plausible
bug in the code (the operators marked "Fault variant") that makes the same run
fail.

*Deadlock* is checked except where the model ends: ManagedExit and ExitReplay
with their position closed, AnalysisRun with its runs, `streams` and `worker_io`
at the bound of their clock and of their events.

*Fairness.* `manager_cycle`: the loop of `run_position_manager` is
`while True` around a caught exception, so waking, committing, dispatching and
sleeping are weakly fair, and so is the work on each listed position. That a
position with an exit is not passed over for ever needs more: the exchange must
answer for it from time to time. That is strong fairness of `Closes` for a
position with an exit. Faults are bounded by `MaxFaults`: a database that always
fails is not recovered from. The candles with the exit are taken to stay in the
window of the exchange (1000 candles of 15 minutes). `worker_io`: the event loop
runs what is ready and time passes (weak fairness of `Fetch`, `Reopen`,
`ClosesHttp` and `Elapse`), a sent request is answered or times out
(`HTTP_TIMEOUT_S`, in `Fetch`), and asyncio's semaphore serves in the order of asking, which is strong
fairness of `Begin`.

### Where code and words differ

Two runs check what a comment says and find a counterexample; each is a finding
in `PROJECT.json` with the quoted line.

- `replay_early_candles`: a pipeline position is closed on candles older than it.
- `double_entry`: two overlapping openers put two positions on one symbol.

Others were met while modelling. The models have the behaviour of the code.

- `watcher.py:51` says exits are tested on all candles since the entry; the
  candle of a manual entry is dropped by `exits.py:105`.
- `watcher.py:69` says the failure of one position is isolated. A failed write
  inside the savepoint ends the cycle, since the handler reads an expired
  attribute (`watcher.py:88`); the closes of the others wait for a later cycle
  (`WriteFails`).
- `dispatch.py:13` says position, event and balance are committed atomically.
  They are, but without `innodb_snapshot_isolation` (`ConflictAborts = FALSE`) a
  force-close during a cycle is overwritten in the balance.
- `docs/operations.md:15` and `manage.py:40` say halt-trading pauses new
  entries; `manual-signal` does not look at the flag.
- `fill.py:34` says the risk/reward is kept at the fill. The ratio is computed
  again and is not compared with the minimum again.
- `run_forever` promises a run at the close of every 4h bar; a run that ends
  after the next close, be it within the lag, skips that bar.
- `criteria.py` calls the basis contrarian; contango votes for long.
- `calc_oi_trend` names a setting `OI_CHANGE_4H_MIN_PCT` that does not exist.
- The enricher's promise that a tick survives a source holds for HTTP and
  runtime errors; an answer that is not JSON fails the tick (`AskSources`).
- `evaluation.py:136` names four of the six gathered calls: a refused key at
  `oi_aggregated` alone is neither raised nor logged.
- Ties fall to one side: a price on its average counts as below it, a price that
  stands still as falling, a flat CVD as selling, and the lower divergence is
  looked for first. `MirrorImage` excludes these (`Decided`).
- The screener takes a side by its thresholds: with the defaults the crowd is long
  from a ratio of 3.3 on and short from 0.55 (not 0.30), and funding is high from
  0.0015 on and low from -0.0005. `MirrorImage` therefore turns the thresholds round
  with the market (`Opposed`): this is all the side there is. The run has thresholds
  in the proportions of the defaults (funding 3 and -1, logarithms of the ratio 2
  and -1).

## 4. The proofs

| Theorem | Says | For all |
|---|---|---|
| `ExitProofs!TypeCorrect`, `StopIsPathIndependent`, `MonitorIsRight`, `ExitIsLabelled`, `StopRatchets`, `TestedBeforePulled` | `[]` of `WalkTypeOK`, `StopTracksBestPrice`, `MonitorAgrees`, `ReasonTellsPrice`; `StopNeverLoosens`, `NoLookAhead` | positions, candles, thresholds |
| `ExitProofs!DowntimeDoesNotMoveTheExit` | `[]LateExitIsTheSame` if `TargetAhead` and `[]HistoryFits` | markets, entries, moments of the cycles |
| `ExitProofs!DowntimeLosesNoExit` | `MissedExitIsCaught` if `[]HistoryFits` | the same |
| `ExitProofs!StageOnlyAdvances`, `ReportedStopIsEnforced` | `StageNeverRegresses`, `ReportedStopHoldsLater` if `TrailFits` and `[]HistoryFits` | the same |
| `PositionManagerProofs!TypeCorrect`, `HighWater`, `EquityIsCurrent`, `NoDuplicateAnnouncement`, `EventsAddUp` | `[]` of `TypeOK`, `PeakIsHighWater`, `EquityCountsOpenOnly`, `AnnouncedOnce`, `EventsMatchPositions` | numbers of positions, pnl values, faults |
| `PositionManagerProofs!CycleImplementsLedger` | `Spec => ImplementsLedger` | the same |
| `TradingDBProofs!DatabaseTypeOK`, `EntersOncePerBar`, `HaltStopsPipelines` | `[]` of `TypeOK`, `OneEntryPerBar`; `PipelineRespectsHalt` | any set of processes, with and without `ConflictAborts` and `Serial` |
| `TradingDBProofs!TicksKeepTheCaps`, `TicksHoldSymbolsOnce` | `[]` of `CapsHold`, `OneOpenPerSymbol` if `Serial` and nothing is opened by hand | ticks, symbols, caps |
| `TradingDBProofs!OnlyOverlapsOverfill` | `OnlyOverlapsExceed`: who breaks a cap or doubles a symbol overlapped with another one that opened | any set of processes, with and without `ConflictAborts` and `Serial` |
| `TradingDBProofs!NoMoneyLost` | `[]BalanceAccountsForEvents` if `ConflictAborts` | any set of processes |
| `TradingDBProofs!SharedDatabaseImplementsLedger` | `Spec => ImplementsLedger` if `ConflictAborts` | the same |
| `AnalysisRunProofs!GatewayTyped`, `GatewayOvershoots` | `[]` of `GatewayTypeOK`, `OvershootBounded` | tasks, cap, costs |
| `AnalysisRunProofs!AnalysisUsesGateway`, `AnalysisOvershoots` | `Spec => GatewaySpec`, hence `[]OvershootBounded` | runs, candidates, cap, costs |
| `AnalysisRunProofs!AnalysisTyped`, `AnalysisCallsBounded`, `AnalysisGoesOn`, `AnalysisStragglers` | `[]` of `TypeOK`, `CallsBounded`, `RunGoesOn`, `LoneStragglers` | the same |
| `CandidateProofs!LevelsAreSound`, `TradesSideWithAnalysts`, `StopsAreCovered` | `[]` of `LevelsSound`, `NeverAgainstAnalysts`, `StopLossCovered` | votes, intents, charts, settings |
| `CandidateProofs!OneLossIsNoHalt` | `[]OneStopIsNoHalt` if `MarginsFit` | the same |
| `CandidateProofs!OutagesPromoteNobody` | `[]OutageNeverPromotes` if `VotesSuffice` | markets, calls that fail together, periods, thresholds |
| `CandidateProofs!OppositeMarketsOppositeVerdicts` | `[]MirrorImage` if `BarsFit` and `MarketFits` at first | histories of any length, calls that fail, periods, thresholds, also those with a side |
| `CandidateProofs!TheBestAreTaken` | `[]TopStands` if `ListingFits` at first | symbols, listings, scores, orders in which the tasks end |
| `CandidateProofs!MissingTalkErrsOneWay` | `[]RiskErrsOneWay` | news, posts, time series, missing endpoints |
| `StreamsProofs!CollectorDelivers` | `CollectorSpec => ImplementsDelivery` | exchanges, bursts, batch sizes, intervals, failures |
| `StreamsProofs!BatchesAreRecent`, `ListingsAreSeen` | `[]` of `BatchIsRecent`, `NewListingsSeen` | the same |
| `StreamsProofs!FastLoseNothing`, `HubInvariant` | `HubSpec => OnlyTheSlowLose`, `[]HubInv` | subscribers, sizes of queues, bursts |
| `WorkerIOProofs!GateNeverStuck`, `PauseIsRespected`, `RateIsAlwaysKept` | `[]GateInv`, `PauseRespected`, `[]RateKept` | requests, limits, pauses, attempts |
| `WorkerIOProofs!SkipsNoRipeBar` | `[]SkipsOnlyWhenBusy` | lengths of a bar and of the lag, durations of the runs, restarts |

*Assumptions.* `ExitRules!SettingsAssumption` (thresholds are positive: `gt=0.0`
in `core/settings.py`), `PositionsAssumption`, `CandlesAssumption` (records of
integers, low not above high), `ReplayAssumption` (prices and bounds are
numbers), `ManagerAssumption` and `DatabaseAssumption` (money is integer, bounds
are natural numbers; pipelines, manual signals, and those that close are
different processes), `GatewayAssumption` (cap and costs are natural numbers),
`RunAssumption` (a run has candidates: `runner.py` returns before the analysis
when there are none), `TaskAssumption` (what a task is), `RiskAssumption` and
`EntryAssumption` (ranges of settings and inputs; prices that are entered at are
multiples of `Scale`), `Entry!SettingsAssumption` (half of a shrunken conviction
is below the gate, and the allowed funding is at most one percent: so it is with
the defaults, and the code does not check it), `StreamAssumption`,
`CollectorAssumption` and `CoinGlassAssumption` (intervals and sizes are
positive; of the exchanges some are selective). `StopTracksBestPrice` needs a
trail no wider than the excursion that activates it, which the defaults satisfy;
it is a hypothesis of the property. The TradingDB theorems need
`ConflictAborts`: without it the cycle overwrites the balance, see above.
`HubAssumption` says that a queue has room for an event,
`SchedulerAssumption` that the lag is shorter than a bar, `IndicatorsAssumption`
and `ScanAssumption` that periods and windows are positive and counts natural
numbers, that the settings have the names the code uses, with thresholds of the
crowd, of the funding and of the basis that have the signs of the defaults, that
the axis of reflection is a number, and what the
answers of the news and the posts consist of.

*Hypotheses of single theorems.* Where the code relies on something it does not
check, the theorem names it.

- `HistoryFits`: the candles since the entry fit into the window (1000 candles
  of 15 minutes, ten days), as they always do in the run. A position without a validity
  may be open longer; then the replay starts in the middle of its life, and
  nothing is claimed of it.
- `TargetAhead`: the target is on the far side of the entry and of the stop, as
  `resolve_setup` checks; `manual-signal` accepts others, for which a late cycle
  may take the stop and a timely one the target.
- `TrailFits`: the trail is no wider than what activates it (0.5R and 1R).
- `Serial`, `Manuals = {}`: the ticks of one worker follow each other, and
  nothing else opens; `double_entry` shows what happens otherwise.
- `MarginsFit`: the largest margin a confluence of 100 can get, at the highest
  leverage, times the farthest stop with fees stays below the drawdown that
  halts (a tenth of the balance). TLC finds it true of the default settings; the
  code compares the two nowhere.
- `VotesSuffice`: three votes make a direction, as by default. One outage may
  shift four votes (top traders, basis, and funding, which then speaks with
  another voice), so that from 2 to -2 is possible: with a threshold of two an
  outage could turn a direction round.
- `BarsFit`, `MarketFits`: a bar is a record of numbers (`BarType`), the bars of
  the histories at first and every bar that may close. TLC confirms it of the
  bars of the run.
- `ListingFits`: a symbol has one ticker on the primary exchange (`tickers` is a
  dict), and a volume is a number.

*The arguments.* `WalkInv` adds to the type that the stop is the level of the
best price, that the running maximum of the excursion is the excursion of the
best price, and that the monitor holds the same values while there is no exit;
the heart is `PullReachesLevel`: ratcheting the level of an older best price
with the level of a newer one gives the level of the newer one. `ManagerInv`
has three parts besides the type: the committed rows are consistent
(`Committed`), the session differs from them by exactly the closes it will
commit (`InSession`: what its balance gained its event total gained), and the
counters of cards plus what is still queued are at most one per closed position
(`Announcements`). A plain `AnnouncedOnce` is not inductive because a queued
trade is about to be sent. `DBInv` says for each busy writer that its session
gained in the balance what it gained in the events and that an empty set of
closes leaves the balance alone; a commit that is not stale starts from the
balance it read, which is where `ConflictAborts` enters. `GatewayInv` says
that what is booked and what the calls in flight may still cost are together
within the bound, since the last call that was let in saw less than the cap.
`RunInv` accounts for every open call: its run waits for it (`Live`) or it is
alone at a place that failed or is failing (`Lone`); and it says how many calls
each step may have cost. From `Live` and `Lone` alone `RunGoesOn` does not
follow: `Waiting` adds that whom a run has not heard still has a call.

For Entry the lemmas `StopWithin` and `TargetWithin` bound the clamped prices
for every intent, also with negative multiples, and `SetupSound` collects what
`Resolves` then guarantees; the invariant follows a setup through the stages, at
the analysis and at the fill alike. `TurnedBelowGate` is the arithmetic of the
trader who turns the vote round: his confluence stays below the gate. In the
collector, `Inv` ties the consumer's step to its clocks (a `get` began at or
after the last look at the flush clock, and lasts one interval at most) and a
client's deadline to the moment it fetched its list; the refinement needs only
that a write has a batch and that a stopped consumer has nothing. In the hub,
`HubInv` bounds the queues, so that what a queue with room is offered goes in
whole (`OfferedFits`), and only a pump offers anything. In the
CoinGlass client nothing can be said of the gate alone: `GateInv` says that the
gate is shut exactly while `_reopen_gate` runs, that a pause is on only then,
and that whoever has been woken by the gate finds it open, because nothing else
runs in between. `PauseRespected` is one step from there.

For the exit decision the walk over a list of candles is a fold, so the proof
has to compare folds: `ReplayInv` says that the exit of the manager that never
sleeps is that of a walk over all candles since the entry but for the price of
the last one, which still moves (`EagerIsNow`), and that a managed exit that was
taken was of that kind (`ClosedByNow`). What is needed of the walk is that more
candles never undo an exit, and that a forming candle only adds to what it
touches. `ReportStands` ties the reported stop to the walk's own stop after the
candles it was computed from. Monotony of the stop in the candles is where
`TrailFits` enters.

`EventsAddUp`, `RateIsAlwaysKept`, `TheBestAreTaken` and the exit theorems
need induction over data. The library's induction theorems are out of reach (an
operator parameter), so `FoldTheorems` takes the smallest counterexample: of a
nonempty set of subsets of a finite set one has no other below it
(`SmallestSubset`, from well-foundedness), and of a nonempty set of numbers one
is least. From this follow that the recursive function in the definition of
`MapThenFoldSet` exists, that all such functions agree, what a sum does when an
element is taken out, added or changed, and what a fold from the left does with
one more element. `Booked` then is `EventsMatchPositions` of the session and of
the committed rows.

`EntryInv` in TradingDBProofs (`OneEntryPerBar`): a running pipeline's new
positions have their signals in its session, and its snapshot's signals are
committed ones; the unique key refuses the rest, whatever the isolation.
`SlotInv` is for the caps: while one pipeline runs at a time, positions that its
snapshot does not show as open were closed since, never opened, so that the
slots it counts are at least those that are taken. `OnlyOverlapsOverfill` needs
neither: `CarefulInv` says that whatever a session opened fits into what the
session sees, hence into the database when that has nothing it does not see. It
is the converse of `double_entry`: an overlap is the only way there. No run
checks it by itself; it is about the properties that `ticks` checks.

`ScheduleInv`: a sleep ends behind the close of the bar in which it began, up to
which every bar had its run or began during one. `RateInv` is about windows of
any length: the slots of the limiter are an interval apart, for those that
sleep as for the debt, so that a window gains one request at most besides those
that the gate has held back, of which there are no more than the semaphore lets
in. In the entry, `MarginGrows` (tables and a division that are monotone in the
confluence) bounds the margin by `FullMargin`.

For the scan, `OutageLeaves` says which signals an outage leaves as they are and
what the others become; none of those meets a new criterion
(`ScoreNotRaised`), and the votes stay within four (`VotesNear`). `RiskErrs`
compares the influence of one endpoint on the three conditions of the pump risk.
`ScanInv` says that a verdict and an insight are those of the market and of the
answers as they are. For the ranking, `KeptSelects` says that a filter takes the
members of a set, all of them and in their order, `SortOrders` that the stable
sort, which the model defines by counting what comes before a place, is a
permutation in the order of the keys and then of the places (`SoonerCounts`: the
number of those that come before grows with the order, hence it is injective on
a finite set, hence onto), and `CutRanks` what is left of both after the cut.
`Ranking` follows universe, tasks and outcomes through the phases.

The proof of `MirrorImage` goes from the bars upwards. `TurnedBar` says what the
image of a bar changes; `Mirrors` says it of two histories. For every indicator
a lemma compares its values on both: highs are lows of the image, so that its
swing highs are the swing lows (`ExtremesTurn`), sums of what is signed are
negated (`TotalNegated`, `SumNegated`) and those of what is not are kept, the
typical price is reflected, hence the distance from its average weighted by the
volume changes its sign. `Reverses` collects what this means for two sets of
signals: each that has a side shows the other one, the rest agree. From this
alone the votes of the image are the negated votes (`VotesReverse`) and the
criteria that are met the same (`ScoresReverse`). `Decided` is used where the
code takes equality for one side. The opposite screener is an instance of
`Criteria` with the settings `Opposed`: its indicators, signals and votes that ask
for no threshold with a side are those of the screener (`ImageSignals`), and the
three that do are compared one by one, the high of the one with the low of the
other (`TurnedFunding`, `RsiFaces`, `CrowdFaces`).

The refinement theorems show step by step that a step of the detailed
specification is a step of the abstract one or a stutter.

*What the proofs have corrected.* `CASE` with overlapping guards may choose any
of them, while the code's `elif` takes the first: what TLC evaluates is the
first, but nothing could be proved, and the definitions concerned are now chains
of `IF`. `DatabaseAssumption` had not said that a manual signal is no pipeline.
That an outage only takes votes away, which one might think, is not so: without
the aggregated funding rate the exchange's own decides, and it may vote for the
other side (see `VotesSuffice`).

*Only model-checked:* liveness (`ExitEventuallyExecuted`, `EveryRequestEnds`),
which with fairness and ENABLED is beyond the prover. Every invariant and every
action property of a passing run has its theorem. The two runs that find a
counterexample need no proof.

## 5. Not modelled, and the plan

Not modelled: the recurrences of the technical indicators (a library), the
liquidity map (it is stored for observation and nothing decides on it), the
content of LLM answers and prompts, the parsing of HTTP and websocket answers,
the API's queries and response formatting, settings, logging, the shell around
the commands, migrations and offline scripts. They compute or format without a
state of their own. In the modelled parts: realized pnl and funding are any
value of `PnlValues`; the drawdown and funding gates are one more way to skip an
entry; the creation of the account and state rows at the first run; lock waits
(they end in `RollsBack`); the order of the OPEN card and the commit; the
signal's quantity, which follows from margin and leverage; the alert throttle.
`evaluate_candle_exit`, the `RISK_PER_TRADE_*` settings and `compute_qty` have no
caller. A bar of `MarketScan` changes only between scans: that the candle still
forms while a scan reads it is not in the model.

What is left, in order:

1. *Money* - `pnl` and `funding_cycles` exactly, in place of `PnlValues`, with
   the fees against the ledger.
2. *Composition* - the scheduler's ticks as TradingDB's `Serial`, and the scan's
   candidates as those of AnalysisRun.
3. *Research database* - the idempotent writer of signal records next to the
   outcome of a trade.
