# A TLA+ model of Iron-Spyder

Iron-Spyder decides, once per interval, whether to open a defined-risk options
structure on SPY, trades it at a paper broker, and keeps running unattended.
This directory holds TLA+ models of what carries the money and the safety: where
market data comes from and when it may be traded on, which structures exist and
what they can lose, what is selected, sized and exited, the broker, the way a
decision cycle trades, the risk session with its kill switches, the supervisor
with its durable state, and the three services around it: the HTTP application,
the optimize queue and the desk that shows an operator what is going on. TLC
checks them on small instances; TLAPS proves, for every value of the constants, all
the safety properties of broker, execution, session, supervisor, decision rules and the
three services, and those of the providers that are not calendar arithmetic.

Paths below are relative to `src/spy_der/` unless they start with `src/`.

## 1. The system

| Component | State | Operations | Hard behaviour |
|---|---|---|---|
| Paper broker (`execution/paper_broker.py`, `fills.py`) | orders, fills, positions, equity, connection | submit, poll, cancel, register, settle, disconnect | partial fills, repricing by sign of the limit, terminal orders polled again |
| Cycle execution (`pipeline.py`, `execution/orders.py`, `manager.py`) | the book (`portfolio.positions`) | mark, close, open | polling loops that end before or after the broker gives up; fees and P&L booked in three places |
| Risk engine (`risk/engine.py`, `risk/limits.py`) | session counters, latched kill switches | roll, record, trip, evaluate | day roll versus exits, streaks across days, limits checked on one event and counted on another |
| Sizing, selection (`risk/sizing.py`, `optimizer/`) | none | risk_budget, rank, size_position | a filter and a sizing that must agree; floors, caps and zero |
| Data quality (`data/validators/quality.py`) | none | assess | weighted fractions against one threshold |
| Defined risk (`strategies/validation.py`, `payoff.py`, `generators/`) | none | generate, validate, profile | coverage across expirations, extremes of a payoff |
| Exit rules (`execution/manager.py`, `simulation/exits.py`) | a position and its plan | check_exit, simulated exits | two implementations that must agree; restarts that lose a field |
| Supervisor (`runtime/supervisor.py`) | failure count, stop event, once-per-session flag | loop, run_cycle, flatten, back off, shut down | exceptions half way through a cycle, stop in any wait, crash at any point |
| State store (`runtime/state_store.py`) | one row in SQLite | save, restore | failed saves, rows that cannot be rebuilt |
| Calendar (`runtime/calendar.py`) | none | current/next session | holidays, early closes, Easter |
| Providers (`data/providers/`) | attempts of a request; loaded snapshots | snapshot, load, replay | retries of some failures, partial answers, look-ahead |
| HTTP application (`app/`) | shared pipeline, last result, lock | run_once, current, paper_close, kill switch, reload | request threads, endpoints outside the lock |
| Optimize queue (`vps/optimize.py`, `src/scripts/optimize_worker.py`) | job, report, schedule and configuration files | enqueue, claim, process, schedule | two processes on the same files, a worker that dies |
| Desk (`vps/`, `data/persistence/audit.py`) | live state and heartbeat files, two databases | publish, classify, assemble the journal | stale and failed writes, a trade that moves between databases |
| Backtest, analytics, features, models, Monte Carlo paths, monitoring, web | | | floating-point numerics, statistics and presentation |

The supervisor owns the loop. Each iteration may flatten the book
(`force_close_all`) and then calls `DecisionPipeline.step`: the snapshot is assessed,
the open positions are visited (exit rules, closing orders at the broker, results
into the session), candidates are generated, validated, filtered, valued and
ranked, the risk engine gives a verdict and a size, and at most one opening order
is sent. After a cycle that returns, the state store saves switches, session,
equity and positions; a restart restores them. Everything in that loop runs on one
thread; its concurrency is the environment's: market, connection, stop signals,
failures and crashes. The HTTP application runs the same pipeline under request
threads. The desk and the optimize worker are processes of their own that meet the
service only in files and databases.

`PROJECT.json` lists every component with its status and the hazards with the line
where each bites.

## 2. Modules

| Module | Models | Extends |
|---|---|---|
| `PaperBroker` | the broker's state and operations | |
| `BrokerOrders` | the broker under an arbitrary client | `PaperBroker` |
| `Execution` | how one cycle trades, over the broker's operations | `PaperBroker` |
| `RiskSession` | one decision cycle as the risk controls see it | |
| `Supervisor` | the unattended run around that cycle | `RiskSession`, instance of `TradingGate` |
| `TradingGate` | what such a run promises of exposure and lockouts | |
| `AppState` | request threads around one pipeline | |
| `OptimizeQueue` | the desk API and the worker on shared files | |
| `VpsDesk`, `Journal` | what the desk shows of the service and of its trades | |
| `Calendar`, `TradierFeed`, `Archive`, `MarketData` | sessions, the live and the recorded providers; `MarketData` puts them together | each other |
| `DataQuality`, `DefinedRisk`, `Families`, `Selection`, `ExitRules` | the rules of a decision, as operators | |
| `TradeDecision` | a snapshot, a structure, a session or a position under those rules | the five above |
| `MC*` | the instances for TLC | the module they check |
| `FiniteLemmas` | lemmas on finite sets, sums, ranks and matchings | |
| `BrokerProofs` | proofs | `BrokerOrders`, `Execution`, `FiniteLemmas` |
| `SupervisorProofs` | proofs about session and supervisor | `Supervisor` |
| `AppStateProofs` | proofs | `AppState` |
| `OptimizeQueueProofs` | proofs | `OptimizeQueue`, `FiniteLemmas` |
| `DeskProofs` | proofs | `VpsDesk`, `Journal` |
| `DecisionProofs` | proofs about the decision rules | `TradeDecision`, `FiniteLemmas` |
| `MarketDataProofs` | proofs about the providers | `MarketData`, `FiniteLemmas` |

### PaperBroker, BrokerOrders
`orders`, `fills`, `positions`, `equity`, `connected` are the fields of
`PaperBroker`. An order that was never submitted has status `ABSENT`. Prices are
integers in ticks, signed as in `_achievable_price`: lower is better, a credit is
negative. What a snapshot says of an order is a record `Market`: are all legs
quoted, which net price is achievable, how many structures does the depth allow.
`Poll` is the whole of `poll`: reject, miss (`_reprice_or_expire`) or fill
(`_record_fill`, with the entry commission leaving the equity). A miss is always
possible, because the draw against `fill_probability` (clipped to 0.05..0.99) may
fail. `asked` and `polls` are history variables. `BrokerOrders` lets any client
submit, poll and cancel in any order; the pipeline, which stops polling at the first
fill, is the client of `Execution`.

### Execution
`pc` walks through `step`: `manage` (positions still to visit in `todo`), `close`
or `open` while an order is worked, `idle` between cycles. The whole cycle sees
one snapshot, as in the code. `SubmitClose`, `PollWork`, `CloseFilled` and
`CloseUnfilled` are `_close_position`; `SubmitOpen`, `PollWork`, `OpenFilled` and
`OpenUnfilled` are `_execute`; `SubmitRaises` is the `BrokerError` of a
disconnected broker, which abandons the rest of the cycle. `held` and `cash`
record what the fills really did, to compare the book and the equity with. Which
exit is signalled and which candidate approved is left open here.

### RiskSession
`session` is `SessionState` (day, realized P&L, trades, losses, peak), `kill` the
set of active reasons, `cycle` the data-quality score of the current cycle and how it
ended. `ClosePosition`
is settle + `record_trade`; `Decide` is `evaluate` (roll, update switches, veto or
approve) with `_execute` reduced to filled or not; `Lockout` is the early return
for bad data; `Raise` an exception anywhere in between, which undoes nothing.
Vetoes that do not latch (confidence, events, candidate and portfolio limits,
sizing to zero) are one input bit. Percentages and money are integers; thresholds
are compared as in the code, cross-multiplied.

### Supervisor
`phase` is the place in `run`: loop head, flatten, run_cycle, failure, save, sleep,
shutdown, or `down` when there is no process. `Crash` may fall between any two
steps and forgets the memory; `Startup` restores from `disk`, the stored row. A
save is one SQLite transaction: it stores the row or (failing, logged, swallowed)
nothing. `left` is the minutes to close. The histories of `RiskSession` start
afresh with each process. `unsaved` counts the cycles that traded since the last
save. Left out: `max_cycles`, the alert sink, heartbeats, the startup
reconciliation (it compares the restored book with the positions `restore` has
just registered, and cannot disagree for the paper broker).

### TradingGate
The abstract specification of an unattended desk: enter only while no lockout is up
and there is room, never lose a lockout while running, start with every stored
lockout and never with more positions than were stored (with fewer only locked).
`Supervisor` maps its process, switches, open count and row to it (`Gate`); the run
`supervisor` checks `ImplementsGate` as a property and `RunImplementsGate` proves it.

### AppState
One number stands for each pipeline and each provider that was built; a thread that
still holds an older pipeline works on an object nobody else sees. A statement that
touches shared state is a step: `current` reads `last_result` before it takes the
lock, `PortfolioState.close` reads the list and replaces it in the next step,
`/paper/close` and the kill-switch endpoint take no lock. The replacement keeps the
positions that were in the list it read: one that another request dropped meanwhile is
not brought back by being marked or closed (`Replaced`). `StepRaises` is an exception
half way through a cycle or a close; what was done stays done. `barred` marks cycles
that took the lock under a standing trip; `misled` holds, for a cycle, the positions
that only the broker knew when it began (`Orphan`), without those settled since by a
request that had listed them before they were lost.

### OptimizeQueue
Every file is replaced atomically (`vps/files.py`), nothing is locked between two files. A
job's name is its second and a random suffix, and a request may write its file late, so jobs
appear under free names in any order (`Enqueue`); `claim_next_job` takes the first by name.
The worker's program counter follows `main` of `optimize_worker.py`; it may be killed
between any two writes, and any write may raise. One worker at a time: a systemd oneshot
unit under a timer. A backtest is the score it gives each configuration.

### VpsDesk, Journal
A file carries the age of the stamp in it; for a cycle that is the clock read at the
head of the loop. Ticks pass only while the process waits, works or is gone. Every
write may fail, the process may be killed anywhere. `Journal` is a request that reads
`runtime.db` and then the newest `Limit` rows of `audit.db` while the service moves a
trade from one to the other. A database that cannot be opened, queried or decoded counts
as empty, as in the code; `reader.failed` and `reader.older` are histories that remember
this and which trades were beyond the limit.

### Calendar, TradierFeed, Archive, MarketData
`Calendar` computes days as integers with the code's own rules, `easter_sunday`
included, and walks from session to session. `TradierFeed` is one snapshot: quote,
expirations, one chain per expiration, bars under two filters, each a request with
the eight ways it can fail: seven that `get` turns into a `TradierError`, retried or
not, and the exceptions nobody catches (`Escapes`). Of the expirations it keeps how
many are still to be fetched, and `ChainStats` counts the records of each response.
`Archive` reads tapes and chain files in the order of their names and answers for a
moment. The rows of a chain file are assembled group by group, the earliest stamp first,
and no further once the limit is reached; what was loaded is then sorted, each snapshot
going to the place its rank gives it. A torn line raises past the handler, as in the
code. The calendar is not changed by a provider and a
provider keeps its kind, so a behaviour of `MarketData` follows one of the three.

### DataQuality, DefinedRisk, Families, Selection, ExitRules, TradeDecision
The rules are operators in exact, scaled integer arithmetic. A contract is the set of faults the
checks find in it; a structure is a sequence of legs with a cost. `TradeDecision`
looks at one `subject` at a time: a snapshot and the same one with a fault more; a
structure composed leg by leg or generated by one of the 21 families; a session of
cycles that open and close; a position from its opening to the end of its day, with
the simulator's exit computed beside it. The references are independent of the code's
algorithms: coverage is a matching of shorts to longs (`Paired`), the maximum loss is
bounded at every price and every valuation of unexpired legs (`LosesAtMost`).

## 3. What the runs check

| Run | Expect | Shows |
|---|---|---|
| `broker_orders` | pass | fills inside the concession budget, fills add up, terminal orders are final, a client that polls on needs a bounded number of polls |
| `execution` | pass | with whole fills the book equals the fills; no unfilled order outlives its cycle; equity of a flat account is never above its cash |
| `risk_session` | pass | opens per day bounded, peak is the high-water mark, switches latch, streaks stop trading |
| `supervisor` | pass | the run implements the gate, a flattened book stays flat or escalated, the cost of a crash is bounded, stored state is current, a stop ends the process |
| `app_state` | pass | no answer from a replaced provider, a trip and an orphan at the broker stop later cycles, the lock is given back, booked closes are settled |
| `optimize_queue` | pass | the next run is the earliest that fits, scheduled jobs do not stack, reports tell what was done, every queued job is taken up |
| `vps_desk` | pass | a live process is never shown stale, a dead one is noticed, the journal leaves out only trades beyond its limit, a trade is audited once |
| `market_data` | pass | holiday tables against their definitions, no session missed, a bounded and priced live answer, causal replay |
| `trade_decision` | pass | what is tradeable is sound and a fault never helps, risk is defined, filter and sizing agree, what is opened is worth its risk, exits are enforced as priced |
| `partial_close` | violation | a partly filled close is booked as a whole one |
| `daily_loss_roll` | violation | a loss booked before the day roll is erased by it |
| `paper_close_race` | violation | a position is settled twice by overlapping closes |

What each property says is written above it in its module; several are conjunctions
of named parts. Every property of a passing run has a mutant in `PROJECT.json`: a
plausible slip in one mapped definition under which TLC finds it violated. Facts that
are proved and only support another (`TypeOK` and `LimitHistory` of the broker,
`OpensAreCounted`, `SavedLatchHolds`, `StoredLatchIsFinal`, the
types of execution, session and supervisor) are not checked a second time.

### Findings
Each violation run states what a comment, docstring or doc of the repository says
and shows a behaviour of the code that breaks it.

1. `_close_position` (`pipeline.py:253`) treats any fill as a close of the whole
   position. Partial fills are on by default.
2. `evaluate` rolls the session after the exits of the same cycle were booked
   (`risk/engine.py:97`), so the first cycle of a day forgets its own losses.
3. `/paper/close` (`app/api.py:392`) closes positions without the lock that
   `run_once` holds ("Serialized: the pipeline is not reentrant"): both may settle
   the same position.

### Observations without a run of their own
Broker, execution, session
* The entry commission leaves the equity at the opening fill (`paper_broker.py:258`)
  and again in `realized_pnl` (`manager.py:211`), and closes are booked at the
  conceded limit (`pipeline.py:256`). `EquityNeverOverstated` shows that the error is
  always on the pessimistic side.
* `_price_limit` (`risk/engine.py:413`) subtracts the tolerance from a negative entry:
  a credit order cannot fill at its own estimate, where the docstring (405-408) speaks
  of more room. `_reprice_or_expire` has the same sign; `WorstPrice` in `BrokerOrders`
  states the resulting bound.
* Both polling loops stop at the first fill (`pipeline.py:243`, `275`). An order filled in
  part is never polled or cancelled again: it stays live at the broker, so no liveness of
  orders is claimed, only the bound `PollsMakeProgress` for a client that polls on.
* A switch does not lead to a flat book by itself: legs that are never quoted again give no
  exit order (`manager.py:199`), and the run that trips `MANUAL` at the failure ceiling ends
  with its positions in place. `ExitsFollowThePlan` says what holds: under a switch every
  cycle closes what is quoted and fills.
* The data-quality lockout returns before `evaluate`; with the default thresholds
  (both 0.70) the `DATA_QUALITY` switch never trips from `step`, and a feed that recovers
  trades again, where the kill-switch docstring asks for a latch.
* A flatten that raises (`supervisor.py:367`) neither escalates nor counts as a
  failure; in the last slot before the bell the position is carried without a
  switch. `FlatOrEscalated` therefore speaks of flattens that returned.
* `_on_failure` saves nothing: a crash can cost several cycles where `supervisor.py:14`
  says one. `CrashCostBounded` is the bound that holds.

Decision rules
* The pipeline never passes a forecast to `check_exit` (`pipeline.py:222`), so state
  invalidation never fires; the time stop cannot fire in the opening session, because
  the end of the session comes first.
* A position may be opened 20 minutes before the close and is closed at 30 or fewer:
  one opened in between lives one cycle.
* `_exit_plan_to_dict` forgets the credit multiple; `RestartOnlyLoosens` bounds the effect.
* The filter before the ranking assumes a liquidity of 0.8: "the optimizer never
  selects a structure sizing would have to refuse" (`pipeline.py:135`) holds for offers
  at least as liquid (`BudgetAgreesWithSizing`); more liquid ones may be dropped that
  sizing would have bought.
* `_portfolio_reasons` counts one contract of the candidate and leaves out the
  commission that `total_max_loss` includes: open risk may exceed the allowance by the
  commissions of the newest position. The account-fraction cap never binds; the
  zero-day, directional and aggregate Greek limits are never enforced. A confidence of
  exactly 0.20 passes the veto and sizes to zero.
* "Transition or Unstable dominates: no family is eligible" (optimizer) does not hold when
  another state has 15 per cent; the risk engine's structural veto is what refuses.
* The maximum loss of a calendar is a bound at the near expiration.
* In the quality score a zero midpoint masks the wide-spread and implausible-price
  faults; `implausible_price`, `negative_size` and locked contracts count as usable.

Providers
* Missing bars always lock out (score at most 0.55), where `fetch_bars` says "degraded
  but usable"; the bars are asked for again at once after a rate limit. Every quote is
  stamped with the moment asked for, so staleness checks never fire live. Between 16:00
  ET and midnight UTC the expired expiration of the day is still listed. An exception that
  is no `TradierError` is neither retried nor renamed at any endpoint: a body that is no
  UTF-8 or breaks off (not in the `except` at `tradier.py:189`), or a `series` that is text
  (602), fails the snapshot, and the cycle, after the whole chain was fetched, where
  `fetch_bars` promises "an empty list rather than a raise" (560).
* The handler around the tape generator (`spyder_recordings.py:92`) never catches: a torn
  last line loses the whole library. `session_timestamps` is unsorted; rows of groups
  without a spot are in no counter; `historical` does not bound-check the vendor's
  volatility.

Services
* `/models/reload` rebuilds the risk engine and with it clears a latched switch; a trip
  that had read the old pipeline is lost.
* `hour_utc` 0 becomes 6; an enabled schedule never records its last run; a worker that
  read the schedule before an operator disabled it writes the old settings back; a worker
  killed in a job leaves it running and blocks scheduled runs (manual ones go on); an
  exception after completion turns a completed job into a failed one.
* Jobs of one second are ordered by their random suffix (`vps/optimize.py:192`): the first
  report of `list_runs` need not be the latest run, and a later job may be claimed first.
* `PortfolioState.close` works on the list it read: a position that a racing close drops
  stays with the broker alone. Only the request that had listed it, or `/models/reload`,
  ends that; reconciliation stops trading until then.
* With `--interval 1` an idle poll of 300 s shows a live process as stale; "starting" is
  published without switches before the restore; a failed `record_trade` loses the trade
  from the journal; a trade may be shown open and closed at once. The journal shows the
  newest 100 closed trades by default, and shows a locked or unreadable database as an
  empty one, without saying so.

## 4. Bounds

* `broker_orders`: two orders, sizes up to 2, one reprice, limits and prices of both
  signs. Two contracts allow a partial fill; one reprice allows
  miss-fill-miss-expire; two orders show that they do not interfere.
* `execution`: three orders, two positions, quotes -1, 0 and 2: a full round trip
  and a second open, or two failed closes and a third. `MaxPoll` 2 > `MaxReprice` 1
  as in the defaults (polls exceed reprices). Order and position identifiers are
  symmetric.
* `risk_session`: three days, four opens, two positions at once, results -2 and +1,
  limits at 2. A streak can span days and a position can be carried over a roll.
* `supervisor`: two days of three minutes, gaps of one or two minutes, flatten at 2,
  entry cutoff 3, two failures. Crashes, restarts and signals are not bounded.
* `app_state`: two threads and two positions, both symmetric, one open at once, two
  pipelines, three providers: every pair of requests overlaps at every statement, a
  rebuild and a switch of provider included. Races of three requests are not explored.
* `optimize_queue`: two jobs, four ticks, one crash, days of two hours and weeks of two
  days, so that a schedule comes due, is saved again and is due a second time; hour 0
  and the weekly schedule occur.
* `vps_desk`: three trades, interchangeable, and a journal of two closed ones, so that one
  falls beyond the limit while another moves between the databases. Interval and idle poll
  3, back-off 1 to 3, five failures, cycles of up to a tick. Interval and idle poll are
  equal, as in the defaults (5 minutes); the back-offs are longer in proportion (the
  defaults reach 4 minutes before the fifth failure ends the run). Ages saturate just beyond
  three intervals.
* `market_data`: 2021 to 2048, every pairing of a weekday with a leap year; eight moments
  around a holiday, an early close and an opening bell; two retries, two expirations;
  stamps 1 to 3 and four records, a limit of two snapshots.
* `trade_decision`: snapshots with two groups of faulty contracts on both sides of every
  threshold; structures of up to three composed legs on two strikes and two expirations
  with sizes up to 2, and whatever the 21 families generate from six ladders (gaps, one-sided
  and unpriced contracts, no pin, no far expiration); eight offers and eight forecasts at
  the edges of the limits, two open positions, two contracts, one close; positions that
  close in 4 to 12 ticks of five minutes, with marks around every stop.

The bounds the models add are constants, named as such where they are declared
(`MaxDay`, `MaxOpened`, `MaxContracts`, `MaxJob`, `MaxNow`, `MaxCrash`, `MaxWork`,
`MaxGen`, `MaxSource`, `MaxRecords`, `MaxRead`, `MaxComposed`, `MaxCloses` and the
sets of identifiers).

## 5. Fairness

* `Supervisor`: weak fairness of the process's own steps, for `StopLeadsToExit`: every
  wait is bounded and interruptible. No fairness of crashes, signals or time.
* `OptimizeQueue`: weak fairness of the worker, its start included, for `QueuedIsTaken`:
  the timer starts it every minute. No fairness of the API, the clock or crashes. Jobs
  with an earlier name could go first for ever, if requests kept coming within the second
  of the job that waits; the bound `MaxJob` excludes that, as the clock does in the code.

The other modules state no fairness: their properties are safety. `BrokerOrders` and
`RiskSession` have none to state, since the pipeline stops polling at a first fill and a
run may end under a switch; that polls are bounded, and that a dead process is noticed,
are stated as bounds on a count and on an age.

## 6. Proofs

All theorems hold for every value of the constants that satisfies the named assumptions
next to their declarations. They give types, exclude zero budgets and lengths, say that
the worker threads and the bars of a file are finitely many, and describe the inputs of a
decision: a snapshot has no empty class of contracts (`IsSnapshot`), a ladder of strikes is
finite and positive (`IsContext`), a structure may have at least four legs
(`MaxLegsAssumption`), a position's near leg does not expire before its session ends
(`AnyPosition`), and the ten days before a snapshot hold a completed session
(`MomentsAssumption`). Four theorems have a hypothesis of their own:
`BookAlwaysMatchesFills` and `EquityStaysBelowCash` are for whole fills (`~AllowPartial`;
`partial_close` shows why), `FlattenedStaysFlat` and `AliveAlwaysShown` see below.

The prover cannot do induction over data. What folds, sums and sorting compute is proved
instead from a least counterexample: `LeastNumber` (a set of naturals has a least element)
and `SmallestSet` (among the subsets of a finite set that refute a claim there is a smallest
one) come from well-foundedness, and a refutation is carried to a smaller set. In this way
`FiniteLemmas` shows what `MapThenSumSet` computes, that one sum is below another when its
terms can be mapped one to one into larger ones (`SumInto`), that ranks number a finite
order without gaps (`RankIs`), and that shorts can be matched to longs when each tail has
enough of them (`PartnersExist`).

* **Broker.** `OrdersTypeCorrect`; `FillsStayInBudget` from `LimitHistory`, which relates the
  current limit to the submitted one through the number of attempts and bounds
  every fill by the limit of its moment (a fill's bound alone is not inductive: it
  says nothing of the limit). `FillsAlwaysAddUp`: the ranges covered by the fills
  grow without a gap. `PollsAreBounded`: polls are paid for by attempts and
  contracts, those of the history variable `polls`. `TerminalOrdersAreFinal` as an action
  property.
* **Execution.** `BookAlwaysMatchesFills`, for `~AllowPartial`: the invariant (`BookInv`)
  adds, for the order in work, that a close has the size of its position and that
  it traded everything or nothing. `OrdersEndWithTheirCycle`: `WorkInv` says that a
  worked order that is neither filled nor done has spent one attempt per poll.
  `EquityStaysBelowCash`: `EquityInv` compares the equity with the cash plus what the open
  positions cost (a sum over them), at every place of the cycle and not only when the
  account is flat; between the closing fill and its booking the limit it was filled at
  stands for the proceeds.
* **Risk session.** `OpensBounded` from `OpensAreCounted`; `PeakIsTheHighWaterMark` with
  the fact that nothing is open before the first roll; `SwitchesAlwaysLatch`,
  `StreakAlwaysStops` as action properties, the latter from `session.losses = lossRun`.
* **Supervisor.** `RunTypeCorrect` with the halting invariant (at the failure ceiling the
  stop is set and `MANUAL` is up); `RestartKeepsLatch`, `StoredLatchStays`;
  `FlattenedStaysFlat` under `FlattenAt < EntryCutoff` (6 < 20 minutes at the default
  five-minute interval); `CrashCostIsBounded`; `StoredStaysCurrent` from `StoredInv`,
  which follows the row through the places between a cycle that returned and the loop
  head: after a save that stored it the row is the memory, after one that failed the
  history says so.
* **Refinement.** `RunImplementsGate`: the initial state maps to the gate's, every step to
  a step of the gate or a stutter (`GateStep`), from the type and halting invariant alone;
  `SaveImage` is the lemma on what a save may do to the stored row.
* **HTTP application.** `AppInv`: which places a request of each kind can be at
  (`ShapeInv`), which of them hold the lock (`LockInv`: one thread at most, and the shared
  pipeline is replaced only under it), and that rebuilds and installations begun by requests
  in flight stay within the bounds, counted as cardinalities of the sets of such requests.
  On it: `AnswersAreCurrent` (`SourceInv`: everything that can still be served, the last
  result, what a request has read and what a cycle works on, is at least as new as the
  installations completed when the request arrived), `TripAlwaysStops`, `OrphanAlwaysStops`
  (a cycle under a standing trip, or over an orphan, cannot get as far as an order while it
  holds the lock, as nothing brings an orphan back into the book),
  `SharedStateStaysConsistent`.
* **Optimize queue.** `NextRunAlwaysEarliest` rests on lemmas of integer division
  (`Division`, `DivisionUnique`, `Multiples`), on the first day of a week (`WeekStart`)
  and on `NextRunIsFirst`: for any length of hour, day and week, `_next_run_at` returns
  the least tick that fits. The other two use `QueueInv`: what the worker holds is still
  so (`WorkerInv`); what the worker is about to report is what it did (`PromotedInv`);
  between check and write no other scheduled job appears (`StackInv`). That
  `claim_next_job` finds a first job is `LeastNumber`.
* **Desk.** `GoneAlwaysShown`: `GoneInv` says that no file is younger than the service is
  gone. `AliveAlwaysShown` has the hypothesis `Timely(d)`: the back-offs before the run
  gives up are at most `d`, and a wait, or a cycle and back-off published late, followed
  by a cycle and its back-off, fit into three intervals. At the defaults (interval and
  idle poll 5 minutes, back-offs up to 4 minutes) it holds for cycles of up to three and a
  half minutes; TLC evaluates it for the instance of `vps_desk`. `HeadInv` and `ShownInv`
  are the budget: what a place has left to wait, added to the age of the file.
  `JournalNeverLoses` and `TradesAuditedOnce` from `PlaceInv` (a trade leaves the stored
  row only for the audit or for the lost ones) and `ReaderInv` (what a request still owes
  is in the database it reads next, whose rows are never lost: `Recorded`, `Deleted`; a row
  is among the newest `Limit` or has that many newer ones: `Paged`).

* **Data quality.** `TradedOnIsSound`: `MajorLocksOut` and `PenaltyAtLeast` turn the score
  into a claim on each kind of fault. `WorseAlwaysScoresLower` compares a snapshot with the
  same one after a contract got a fault more: every issue of the first is found again in the
  second at no lower cost (`StillFound`), one to one, so that the penalty is a larger sum
  (`SumInto`); a contract that moves between classes changes the counts as `MovedCount` says.
* **Defined risk.** `RiskIsAlwaysDefined`: for every structure that can be composed leg by leg
  and everything the 21 families generate from any finite ladder. The payoff is affine
  between strikes and beyond the last (`ValueIsAffine`, `ValueBeyondStrikes`), so the few
  prices `Profile` looks at bound every price (`WorstBoundsEverySpot`), and an unexpired leg
  is worth at least its payoff (`ResultIsAbovePayoff`). `CoverageIsPairing`: the validator's
  comparison of quantities holds exactly when every short has a long of its own that
  outlives it. `GeneratedFits` gives the shape of what each family generates, the lemmas
  `...IsClean` that the validator admits every such shape, and `SkewedWorst` the larger of
  the two losses of a broken wing. `DraftInv` carries the shape from generation to
  submission.
* **Selection and sizing.** `FilterNeverContradictsSizing` and `OpenedIsAlwaysWorthItsRisk`:
  `SizeIs` and `FilterAgrees` show that what the filter lets through, at the liquidity it
  assumes or better, is sized to at least one contract while the book is as the filter saw
  it (`CapsMonotone`: every cap falls with the open risk); `SessionInv` keeps a finite book of
  distinct positions within its limits, and no decision standing while exits are managed.
* **Exit rules.** `ExitsAlwaysFollowThePlan`: `HoldInv` relates the position to the plan it was
  priced with. `ManagerFollowsSimulator` compares the two orders of checks at one mark;
  `RestoredStopIsLooser` says what a restart may change.
* **Live feed.** `FeedAlwaysKeepsContract` from `FeedInv`: requests are paid for by the
  endpoints passed and the retries of each, whichever exception ends it (`ProgressInv`, in a
  product of two variables: hence `RetriesGrow`), a rejection ends the call except for the
  bars, asked for twice (`RejectedInv`), what is kept was priced (`PricedInv`, with
  `CountsAddUp` for the records of a response), and the bars asked for are past
  (`WindowLiesInThePast`, for any calendar day).
* **Replay.** `ReplayIsAlwaysFaithful` from `ArchiveInv`: the bars beside a snapshot are the
  last ones before it (`WindowIsCausal`), what is served is the latest snapshot at or before
  the moment (`SnapshotIsAsOf`, on a stable sort: `OrderedIs`), and every row read is in
  exactly one counter, or in the history of lost ones, at every step (`TallyAddsUp`, with
  the rows still waiting in `left`).

TLC checks each of these invariants on the instance of its run too, except `DraftInv`,
whose shapes quantify over all legs. Proving corrected the model in several places:
overlapping guards of a `CASE` in `Flip` (`AppState`); `RecordTrade` (`Journal`) names the
row it deletes; `SizePosition` has the code's clamp to zero; a new position's identifier
is one of `1..MaxOpen` that is free; `Archive` assembles a file group by group, so that a
limit in the middle of a file is met; a chain has no class of zero contracts, without
which a fault on nobody would count; and ladders are finite.

Only model-checked:

* the liveness properties (`StopLeadsToExit`, `QueuedIsTaken`): temporal reasoning with
  fairness is outside the prover;
* `HolidayTablesHold` and `NoSessionMissed`: calendar arithmetic compared year by year, by
  evaluation.

## 7. Not modelled, and the plan

Left over: reconciliation leg by leg (its verdict on whole positions is in `AppState`).

Out of scope: analytics, features, forecast models, Monte Carlo paths and the valuation
of candidates (floating-point numerics without control state: what decisions read of
them are inputs), the synthetic provider (a pricing formula with noise), backtest and
walk-forward (a replay of the pipeline and index ranges without state), monitoring
(severities of single observations), scripts and the web dashboard (wiring and
presentation), the HTTP layer and the layout of payloads.
