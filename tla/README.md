# blueshorecapital: formal models and proofs

TLA+ models of the trading program in `src/`, the TLC configurations that check
them on small instances, and TLAPS proofs of what matters most.  The source is
the reference; line numbers below are lines of files under `src/`.

## 1. The system

A Python program trades US and Hong Kong shares through a broker gateway
(moomoo OpenD).  One supervisor script keeps one trader process alive; the
trader serves a dashboard from a second thread; a few command-line scripts edit
the same files from processes of their own.

| Component | Files | State it keeps | Operations |
|---|---|---|---|
| Stage controller | `risk/stage_controller.py`, `scripts/enable_live.py` | one `LiveState` in memory, `logs/live_state.json` | `tick`, `precheck_order`, `record_fill`, `record_close`, `clear_halt`, enable, disable |
| Live gate | `execution/live_gate.py` | `logs/live_pending_orders.json`, three append-only logs | `queue_order`, `approve_order`, `reject_order`, `list_pending`, `mark_submitted` |
| Order queue | `risk/order_queue.py` | `logs/order_queue.json` | `enqueue`, `cancel`, `execute_pending` |
| Auto trader | `auto_trader.py` | `logs/auto_trades.csv` (the journal), counters of the day in memory | `run_cycle`: exits, flatten, checks, scan, entries, stage mirror; weekly core rebalance; background sleeve |
| Signal pipeline | `main.py`, `risk/manager.py`, `risk/kill_switch.py`, `execution/executor.py`, `paper_trading/tracker.py` | `RiskState`, kill switch, open orders, paper positions | one cycle: signals, risk checks, execution |
| Core rebalancer | `fundamental/sleeve.py`, `fundamental/rebalancer.py`, `fundamental/portfolio.py` | `logs/sleeve_assignments.json`, `logs/core_rebalance_state.json` | classification by a thread, weekly rebalance |
| Exit rules | `risk/profit_protection.py`, `risk/position_classifier.py`, `check_exits` | the stop in the row | pure decisions, moved stops |
| Fundamental gate | `risk/fundamental_gate.py`, `fundamental/quality.py`, `valuation.py`, `data/fundamentals.py` | caches | allow, block, resize an entry |
| Thesis and signal log | `data/trade_thesis.py`, `data/signal_log.py` | `theses_active.json`, append-only files | log, close |
| Supervisor and scripts | `scripts/watchdog.sh`, `reconcile_zombies.py`, `adopt_existing_positions.py`, ... | the journal, pid files | restart with backoff; edit the journal |
| Dashboard | `dashboard/web_server.py` | none of its own | POST approve, reject, clear_halt; GETs, one of which rewrites the pending file |
| Strategies and indicators | `strategy/`, `indicators/`, `signals/scorer.py`, `data/indicators.py` | none | conditions over indicators, scores, ranking |
| Backtest | `backtest.py`, `fundamental/pit_scoring.py`, `options_strategies.py` | a simulated portfolio, a core sleeve | three replays, basket selection |
| Reports | `monitoring/`, `scripts/export_static.py`, PDF generators | none | formatting |

How they interact:

- the trading thread calls the controller every cycle (`tick`,
  `auto_trader.py:1801`), and for every paper order placed it asks
  `precheck_order`, then `queue_order`, then `record_fill` (2386-2419);
- the dashboard thread of the same process clears halts and approves orders on
  the same singleton and the same files, with no lock;
- `enable_live.py` builds a controller of its own from the file, waits for a
  phrase and saves its copy back;
- `python -m risk.order_queue` runs `execute_pending` in a third process, which
  logs a thesis for what it places;
- the trader's cycle starts the sleeve thread, whose file the weekly rebalance of
  a later cycle reads; the rebalance itself trades nothing and only writes its
  state file, whose names the scan leaves out of its own symbols;
- `check_exits` asks `profit_protection` for a stop or a trim, and
  `position_classifier`, through the thesis file, for a veto;
- `watchdog.sh` restarts the trader, with a backoff after a crash;
- `main.py` is a second, older trader with its own files, which no script starts.

What is hard: whole-file rewrites that truncate first, from two threads and
several processes with no lock; copies of state that outlive the file they came
from; crashes between the broker call and the record of it; day boundaries;
orders whose approval races an expiry; and promises of docstrings that no
caller keeps.

What makes each component correct:

- **Stage controller**: the floors are ordered and follow the high-water mark,
  a breach halts and stays halted until a reviewer acts, size and exposure caps
  hold, and all that in every copy of the state.
- **Live gate**: nothing is submitted that was not approved in time; no
  decision is forged, lost or reversed.
- **Order queue**: nothing is sent before its gate, nothing twice, nothing
  after its cancellation.
- **Auto trader**: the journal agrees with the broker; no naked sale; limits
  hold over a cycle; what it learns is what it closed.
- **Signal pipeline**: one ticker is not bought over and over; the better side
  wins; the trade log is the account's.
- **Core rebalancer**: sector cap and regime rule hold for what it holds,
  changes are few and weekly, and the week's rebalance does happen.
- **Exit rules and theses**: a winner's stop never falls below its entry, a
  position is held as its class says, and none is held for ever.
- **Backtest**: cash and reported pnl agree; nothing of the future enters a
  basket or an entry; the basket keeps its limits.

## 2. The modules

| Module | Models |
|---|---|
| `StageController` | the controller, its file and `enable_live.py` |
| `StageHistory` | the controller with a history variable, for what the comments promise over time |
| `OrderApproval` | the abstract life of a live order |
| `LiveGate` | the pending file, the two threads, and the refinement of `OrderApproval` |
| `LiveTradingProofs` | theorems of `StageController` and `StageHistory`, and of `LiveGate` |
| `ConditionalOrder` | the abstract life of a queued order |
| `OrderQueue` | the queue file, its processes, and the refinement of `ConditionalOrder` |
| `OrderQueueProofs` | theorems of `OrderQueue` |
| `TradeBook` | the trader's cycle, its journal and the broker's positions, with the two scripts that work on both |
| `TraderRules` | the strategies, regimes, sizing and learning of `auto_trader`, as operators |
| `Scores`, `FundamentalScores` | steps of scores; quality, valuation and the fundamental gate, as operators |
| `Ranking` | a finite set listed in order, in a form the provers can use |
| `EntryScan` | the trader's cycle from exits learned from to entries made |
| `EntryScanProofs` | theorems of `EntryScan` and of the rules it calls |
| `Strategies` | the strategies of `strategy/`, their scores and ranking, as operators |
| `SignalPipeline` | `main.py` on one account |
| `SignalPipelineProofs` | theorems of `SignalPipeline` and of the ranking it calls |
| `CoreSleeve` | the sleeve thread, the weekly rebalance and their files |
| `Watchdog` | `watchdog.sh` |
| `SupervisedSleeve` | the two composed: one trader process, with the fairness of the pair |
| `CoreSleeveProofs` | theorems of `CoreSleeve`, and that `SupervisedSleeve` implements it |
| `ExitRules` | profit protection, position classes and the exit conditions, as operators |
| `PositionLife` | one symbol from its adoption to its exit, with the thesis file and its writers |
| `JournalProofs` | theorems of `TradeBook`, and of `PositionLife` with `ExitRules` |
| `SimPortfolio` | the simulated portfolio of `backtest.py` |
| `PitScoring` | the point-in-time scorer and its basket selection |
| `Backtest` | the three replays over both |
| `BacktestProofs` | theorems of `Backtest`, of the portfolio and of the scorer |
| `DataTheorems` | lemmas about sums and folds, highest members and `Ranked` |
| `MC...` | values for TLC |

### StageController

`mem` is the singleton's `LiveState`, `disk` the file, `cli` the copy
`enable_live.py` holds.  `Ladder` is `_compute_trailing_floor` before its
`max`, `TrailingFloor` with it; `Ticked` is the whole of `tick` up to its
`_save`, built from `Rolled` (`_roll_day_week`), `HaltAfter` (every branch that
calls `_halt`, in the order of the code, guarded by the standing halt) and
`DeRiskAfter` (the trailing-floor branch and the hysteresis).  `Allows` is
`precheck_order` with the arguments `auto_trader` passes; the rules that read
nothing but the request (strategy, score, regime, and sector, quote age and
earnings, which the caller never passes) are one Boolean `fits` of the request.
A mutation changes memory, truncates the file, and a later `FinishSave`
completes it, so a crash can fall between the two.

Abstractions: money is in whole units and floors in hundredths of a unit, so
that percentages are integers (the code computes in floats); the stage is 1,
because no code promotes a state; one save of the trader process is under way at
a time (the dashboard thread's `clear_halt` and the trader's `tick` can in fact
overlap; the torn file they could leave has the same effect as the crash that is
modelled); `enable_live.py`'s save is one step, since a crash in it
has the same effect too.  `resumed` is history: the `RESUME` line of
`live_halts.jsonl` since the last tick.

`StageHistory` conjoins a history variable to every action and states what the
comments say of the account over time: the mode, the day's orders, and the
course of a running trader.

### LiveGate

`file` is the pending file as a status per trade id, or `Corrupt` while it is
truncated or garbled.  Every operation is two or three steps: the read with all
it computes (`Pruned`, the decision), `BeginWrite` (truncate) and `EndWrite`,
which also appends the operation's log line and answers its caller.  If another
write ended during a write, the result may be garbled.  `overlaps` counts the
operations begun while another was under way and `reviews` the decisions the
reviewer was told of, both history; `MaxOverlaps` bounds the former.  It is 0 in
`GateSerial`, which is an assumption of that run and not of the code, since the
code has no lock: the run says what the gate keeps when nothing overlaps.
`MarkSubmitted` is the operation `mark_submitted`, which nothing in the program
calls yet: it may happen, and no run assumes that it does.

Row order, reviewer names and order contents are left out: nothing here
depends on them.

### OrderQueue

`queue[p]` is what process `p` has read and changed, `todo[w]` the triggered
orders of a run.  `CanTrigger` is the three gate checks; the quote lookup of a
non-hawkish gate is a free Boolean.  `PlaceDoubtful` is an exception after the
broker accepted.  Every save is two steps, the opening that empties the file
(`OpenSave`) and the end of the writing (`EndSave`): in between others read an
empty queue, a save that ended meanwhile may garble the file (`raced`), and a
crash leaves it cut short.  `overlaps` counts, as in `LiveGate`, the operations
begun during another, with the bound `MaxOverlaps`.

### TradeBook

`file` is `auto_trades.csv`, `journal` the copy a cycle works on, `broker` the
signed position per symbol.  A cycle is a walk of `pc`: `idle`, `exits`
(`check_exits`), `session`, perhaps `flatten` (`flatten_market_positions`),
`account` (the risk checks), `scan`.  A pass looks at the OPEN rows in order;
for each it skips, marks a zombie CLOSED without an order, or sends an order
(`SendClose` with the capped quantity, `SendBlind` when the lookup answered NaN)
that is filled or refused in a later step, because seconds and broker calls lie
between.  The file is written back up to three times in a cycle: after the exits
(`EndExits` and `SaveExits`), once more if they made a difference (`Resave` and
`ResaveExits`), and after the flatten if an order closed something (`EndFlatten`
and `SaveFlatten`).  Each time the first step empties the file and the second fills
it, and between the two the scripts may add their rows to what is left and a kill or
an exception may end the writing (`CutSave`): nothing of it, or some first rows, have
reached the file then, the last perhaps in part.  `form` is what the next added line meets
there: a whole file, an unfinished line that it is joined to, no header at all
(`init_journal` writes one only when there is no file), the other header the
adopting script then writes, or a row where the header should be.  `AppendTrade` adds
one line.  `exposed` is history: the rows that a cut save or a lost update may
have taken.  `kept` are the counters `main` holds
between cycles and `counted` those of the running cycle, so a cycle that raises
loses the difference.  `AdoptPlan`/`AdoptWrite` and `CoverPlan`/`CoverFilled` are
the two scripts, which read, wait and act.

Abstractions: WHETHER a quoted row exits is left open (trailing stops, targets,
age, profit protection, position class), and so is which signal enters; the two
markets are one; pnl is the sign of the quote's move times the quantity; time is
not kept, so a cool-down may end at any cycle; the adopting script's library of
theses, which limits what it adopts, is dropped.  `id` numbers the rows for the
properties, as `sent` and `earned` are history; the code identifies a row by its
place.  `OsImported` separates the program as it stands (FALSE: every cycle that
reaches the scan ends in a `NameError`) from the program with `import os`: the
passing run checks the latter, because its entry code is what the former never
reaches.

### EntryScan, TraderRules, FundamentalScores

The same cycle seen from its decisions.  `rows` is the journal, `held` what was
bought, `stats` the file of learned statistics (`Torn` when a kill cut it short),
`regime` the cached regime of the day, `plan` what one cycle has worked out
(balance, statistics, ranked queue, entries placed, sector counts).  `CloseRows`
is `check_exits` as one step, and in `Flatten` the selling near a market's close,
which the statistics learn as well; `Learn` is `update_learning`, `Scan` the risk checks
with the regime and the scan (`Halt` where one of them ends the cycle), then each signal of the queue is passed over or
entered (`Enter` fills, `Book` appends), as `CanTrade` and the gate say.  `CutShort`
is a kill or exception anywhere.  `TraderRules` has every strategy's conditions,
the score adjustment, the tiers and the caps; `FundamentalScores` has the steps of
`quality.py` and `valuation.py`, the peers' rank and the rules of the gate.

Abstractions: an indicator's value is an input (a small set of charts per symbol);
percentages are whole; a fill is at the signal's price; the scripts and trades by
hand are left to `TradeBook`.

### SignalPipeline, Strategies

`proc` walks through one cycle of `main.py` (`reading`, `ranking`, `trading`,
`recording`); `known` is what the risk manager was told of the positions, `held`,
`buying` and `selling` the account's truth: positions and the orders that rest.
`blind` are the tickers of which the manager was shown too little in this cycle, by
a query that failed or past a buy that was resting, and `unseen` how many buys were
sent for each in such cycles; both are history.  `Foreign` are the symbols not of the
US, which `short_momentum` refuses.
`RankedSignals` is `SignalScorer.score_and_rank` with its grouping, threshold and one side per
ticker, checked against `IsRanking`, the definition its docstring gives.

### CoreSleeve, Watchdog, SupervisedSleeve

`assigned` is the assignments file, `threads` how many classification threads are
in each phase (they have no identity in the code either), `done` whether
`_last_sleeve_date` is today, `saved` the rebalancer's state.  `Rebalance(regime)`
is `generate_rebalance` with `execute_rebalance` and the save.  Dates are ages,
capped where the code stops telling them apart.  `SupervisedSleeve` shares the
process: `StartTrader` is the boot, a clean exit or a crash of the trader is what
`Watchdog` waits for, a crash may fall inside a save.  `stats` says whether
`strategy_performance.json` is whole: a cycle loads it before its sleeve work, so
with a torn file, which a kill inside `save_strategy_stats` leaves (`CrashingLearning`),
no cycle of any later trader comes to that work (`Cycling`), and `main`'s own load
ends each of them.

### PositionLife, ExitRules

`position` is the symbol's row with its stop and age, `onFile` the symbol's entry of
`theses_active.json`, `writer[s]` a script between its read, its truncation and its
write.  `Pass` is one look of `check_exits` at the row: moved stop (`Advices`),
wish to exit, veto (`MayExit`) and, if the order goes through, the end of the row.
`owed` and `due` are history: whether a thesis of this row is still to be logged
and which one the file should have.

### Backtest, SimPortfolio, PitScoring

One step is the loop's body for one date, in the code's order: the core's rebalance,
exits, entries of the signals pending, marks and new signals.  `opts` picks the replay.
`hist` holds the closes of all codes, so that a basket can be scored again from
any prefix of it.  Prices and fees are small integers; what an indicator says is
an input; scores and ratios are thousandths, rounded down.

## 3. What the runs check

Deadlock is checked in every run but three: the clients and runs of `QueueRace` and
`QueueExclusive` are bounded, so the model stops when they are used up, and a replay
of `Backtest` ends.

| Run | Module | Checks | Shows |
|---|---|---|---|
| `StageCore` | `MCStageHistory` | `FloorsOrdered`, `RatchetIsLadder`, `DeRiskMatches`, `ExposureCapped`, `HaltIsSticky` | The controller in one trader process over three days, two symbols and equities on both sides of every floor: the floor ladder, the de-risk hysteresis and the exposure caps hold in memory and in the file, and only clear_halt ends a halt. |
| `StageRestart` | `MCStageHistory` | `HaltBelowHardFloor`, `LiveNeedsPhrase`, `DayExposureBounded`, `RunningKeepsCourse` | The same with a crash at any point, also inside a save, and two runs of enable_live.py whose stale copies may overwrite the file: a breach stays halted in every copy, no copy is live without the phrase, a day's orders stay within two caps plus two per crash, and a running trader keeps its mode, mark and floor. |
| `GateRace` | `MCLiveGate` | `NoLateApproval`, `NoForgedStatus`, `DecidedOnce` | The trader and dashboard threads rewrite the pending file without a lock, with truncated reads, garbled files, lost updates and a crash: still no order is approved after its expiry, no status appears that no operation decided, and each decision on an order beyond the first takes one operation begun during another. |
| `GateSerial` | `MCLiveGate` | `KeepsPromise` | With operations one at a time and no crash the gate implements OrderApproval, in which a decision is final: what is lost when they overlap is the lock's to give, not the operations'. |
| `QueueRace` | `MCOrderQueue` | `OnlyClearedGates`, `ExecutedWasAccepted`, `SentOrCancelledOnce` | Runs of execute_pending, a client that enqueues and cancels, truncated and garbled saves, a crash at any point and doubtful broker answers: no order is sent before its gate clears, none twice in one run, no row says EXECUTED that the broker never accepted, and every sending or confirmed cancellation beyond the first takes a crash or an operation begun during another. |
| `QueueExclusive` | `MCOrderQueue` | `KeepsPromise` | With operations one at a time the queue implements ConditionalOrder: at most one execution per order, and none after a cancellation. |
| `TradeBook` | `MCTradeBook` | `TypeOK`, `ClosedOnce`, `PnlBooked`, `KnownClosesShrink`, `EntriesStay` | The trader, the adopting script and the covering script on one account and one journal, with kills, exceptions, lost answers and trades by hand: a row is closed at the broker once unless work was cut short, closed trades add up to the pnl earned, an informed close only shrinks a position, and a row leaves the file only when a save is cut short, when a script added it while a cycle held its copy, or when it was added to a file that a cut save had spoilt. |
| `CoreSleeve` | `MCSupervisedSleeve` | `SectorBounded`, `BearHoldsPutsOnly`, `WeeklyBatches`, `RebalanceRecurs` | The core sleeve under the watchdog: two classification threads, torn assignments and state files, midnights, clean exits and kills at any point. The sector cap is exceeded by one position at most, nothing is bought as stock in a bear market, batches are a week apart, and rebalancing recurs however often the trader dies, unless a kill falls inside the write of strategy_performance.json. |
| `SignalPipeline` | `MCSignalPipeline` | `ExposureBounded`, `RankedByScore`, `TradesLogged` | main.py on two tickers, with resting orders, failed queries, lost answers, failed writes, shutdown and kills: a position bought and what is still being bought pass the limit of a ticker by less than one budget and one more for each order of a cycle that was shown too little, a short is limited by nothing but the number of orders, the ranking is the one its definition asks for, and the trade log matches the accepted orders. |
| `PositionLife` | `MCPositionLife` | `WinnerProtected`, `HeldToClass`, `OpenEnds` | One symbol adopted, long and short, with theses of each class logged by two scripts that may overlap or die while they write the file: a winner's stop stays at the entry or above, the class holds a position as long as its thesis is in the file, and every position but a compounder's is closed in the end. |
| `Backtest` | `MCBacktest` | `BooksBalance`, `NoLookAhead`, `BasketRules`, `EntriesAreOld` | The plain replay, the hybrid and the point-in-time hybrid over five dates with missing bars, long and short signals and three rebalances: the cash of both sleeves agrees with the reported trades but for the exit commission and the borrow cost, a basket depends on nothing later than its date, baskets respect the sector and turnover caps, and entries are earlier signals outside today's basket. |
| `EntryScan` | `MCEntryScan` | `GrossBounded`, `EntriesTracked`, `HalfASector`, `NoCloseForgotten` | The trader's cycle with its strategies, regimes, learned adjustments, sizing and fundamental gate on three symbols, cut short at any point: one cycle exceeds the exposure limit by no more than what it enters, what is bought is in the journal but for a cycle that was cut short, the sector counts kept by hand are right, and no closed trade escapes the statistics. |

Bounds: in `StageCore` three days of a two-day week see a day roll with and
without a week roll; two symbols besides the one refused fill `MaxOpen`;
equities 89, 94, 97, 103, 120 lie below the emergency floor, below the hard
floor, in the first rung's band, and on the second and the last rungs.
`StageRestart` has three copies of the state about, so its inputs are few: one
crash and two command-line runs are enough for a stale copy to meet a newer
file.  In `LiveGate` two orders let one thread's write carry another order's
status; a timeout shorter than the clock lets both expire.  `GateRace` and
`QueueRace` let three operations begin during another, enough for a decision that is
taken twice or lost.  `OrderQueue` has one order per gate, two workers and a client.
In `TradeBook` quotes only fall, a gain for a short and a loss for a long; one mishap is a
trade by hand, a cut or a lost answer, and two rows let the second close be lost after the
first.  `CoreSleeve` has a week of two days and
a hold of one week, so several batches of different ages are held at once; three
names of one sector, whose cap has room for one and a part, so that two adds of one
day exceed it; two threads, so that a late one meets an early one.  The watchdog's backoff has
one value there: its length only costs time, which no model keeps.  The classified figures are
computed from statements by `FundamentalScores`, as `FiguresAssumption` of
`MCSupervisedSleeve` says.  `SignalPipeline` has one ticker whose strategies
disagree and three orders, enough for a rested, a filled and a repeated one.
`PositionLife` has a price for each outcome of profit protection, a thesis of each
class, and a row adopted twice.  `Backtest` has five dates, of which
three rebalance the point-in-time core, bars that are missing, and a basket with
one name of a sector and one newcomer at most.  `EntryScan` has positions of which
the second of a bull market exceeds the exposure cap, markets of all three
regimes, and three rows, so that a win and a loss are learned twice.

Fairness.  `SupervisedSleeve`: the watchdog's sleeps end (weak fairness of its loop)
and days pass; whatever may fail and is tried again without end succeeds again and
again (strong fairness of the port check, of the thread's start, of its save and of a
save that leaves the file whole, and of a cycle that reaches the rebalance), because
each is disabled time after time by the crashes that the model allows without
bound.  Nothing of the kind is assumed of a start or a rebalance while
`strategy_performance.json` is cut short, because no cycle comes to them then: the
promise is that the rebalance recurs or that file is torn.  `PositionLife`: days pass, a pass of the trader whose order goes through
happens again (the trader looks every few minutes for as long as the row is
open), and a script that began to write ends.  `LiveGate`, `TradeBook`, `OrderQueue`,
`SignalPipeline`, `EntryScan` and `Backtest` assume none: a reviewer may never come, a
broker call may fail for ever, and a replay stops.

## 4. Where the code and its comments differ

The modules state six promises that the code does not keep.  No run checks them,
since TLC refutes each within seconds; to see the trace, check the definition as an
invariant (`NoNakedClose`: as a property) of the run named, with the change named,
in place of the run's own properties.

| Definition | Run | What the code does |
|---|---|---|
| `StageHistory!DisableHolds` | `StageRestart` | `enable_live.py --disable` (95) writes the file of a state the running trader holds in memory and saves again at its next tick or order, which undoes it; line 101 prints "System is back in shadow mode." |
| `LiveGate!ApprovedIsReady` | `GateRace`, `MaxRestarts = 0`, `Timeout = 2` | `queue_order` (`live_gate.py:78`) reads the rows, then rewrites them all; an `approve_order` in between is logged and then overwritten, so `list_approved_ready`, "Approved orders the executor hasn't picked up yet" (149), does not return it |
| `OrderQueue!FileIsCanonical` | `QueueRace`, one worker, `MaxOverlaps = 0`, `Doubtful = FALSE` | `execute_pending` saves once, after the last order (`order_queue.py:293`): a crash in the loop leaves executed orders PENDING and the next run sends them again; line 17 calls the file "one canonical state file" |
| `TradeBook!NoNakedClose` | `TradeBook` | a position lookup that fails answers NaN; the zombie guards compare with it and are false, the cap is skipped, and `check_exits` (1479) sends the whole row, although "when the bot tries to close a long it no longer has, we must not send a naked SELL order" (`auto_trader.py:922`) |
| `TradeBook!DayPnlKept` | `TradeBook`, `OsImported = FALSE`, `MaxMishaps = 0` | the scan begins with `os.environ` (1924) and `auto_trader.py` never imports `os`: every cycle that passes the risk checks ends in a `NameError`, `main` (2543-2548) keeps the counters of the cycle before, so neither the daily loss halt ("Stops trading after a bad day", `STRATEGIES.md:198`) nor the cool-down sees what the cycle lost, and no entry is ever made |
| `SignalPipeline!ShortsLimited` | `SignalPipeline` | a short has a negative market value, which `manager.py:121-123` compares with the limit as it is, so no short is ever too large; `settings.py:31` has "10% in one ticker". The strategies the shipped `watchlist.yaml` allows do not short |

Other disagreements met while modelling:

- `_save` rewrites `live_state.json` in place and `_load` answers an unreadable
  file with a fresh state: a crash inside a save brings the floor back to the
  first rung, although "the floor only moves up, never down"
  (`stage_controller.py:20`).  `RunningKeepsCourse` says what does hold.
- The size rule sees one order at a time, so several orders for one symbol exceed
  "$750 max per position" (`stage_controller.py:45`), and the day is rolled by
  `tick` alone, so one calendar day can take two caps' worth of orders
  (`stage_controller.py:46`).  `DayExposureBounded` says what does hold.
- Nothing calls `list_approved_ready` or `mark_submitted`: no approved order is
  ever submitted, although `live_gate.py:13` says the auto trader does so.
- Nothing calls `record_close`: no loss halt can fire, options never unlock, and
  a symbol once open stays open, so the fifth symbol is refused for ever.
- A `queue_order` or `enqueue` that overlaps another rewrite of its file is lost
  after it returned (`live_gate.py:11`, `order_queue.py:88`).  For the same reason an
  order may be decided twice, or sent twice, or sent and cancelled: `DecidedOnce` and
  `SentOrCancelledOnce` say how often, at most.
- A row closed by the zombie guard has a blank pnl; when it is the last closed
  row of the file, `float("")` (`auto_trader.py:1706`) ends the cycle.
- `flatten_market_positions` writes the file only if an order closed something
  (`auto_trader.py:1193`) and the file is read again right after (1751), so rows it
  marked CLOSED without an order are OPEN again.  Nothing is lost: the next
  pass marks them again.
- The journal is rewritten in place (1194, 1524, 1693), so a kill inside a rewrite
  loses rows for good, OPEN ones as well, and what the broker holds for them is nobody's.
  `init_journal` (307) writes a header only when there is no file: after an empty
  one the next row appended is taken for the header, and no later row is read.  The
  adopting script writes a header with columns of its own, under which the bot's rows
  cannot be read either.  `EntriesStay` says which rows are safe, `ClosedOnce` how often a row may be
  closed for it.
- Auto trader, entries: `update_learning` adds all closed rows again at each call, so
  two wins followed by two losses count as 7 of 10 won, and the strategy is sized
  up, where "tracks win rate" (343) gives a half; the learned factor of 1.2 exceeds the
  tier's own cap; the loop over the signals tests the exposure read before it,
  although it is to stop at the "gross exposure cap" (2199-2200), and `GrossBounded`
  says by how much it can be passed; the caps of comment 1908 (0.60, 1.00, 1.50) are
  not those of the configuration (0.50, 0.80, 1.20); stale bars are those of "more
  than 3 days" (419) but the test is for 5; a cycle whose gains and losses cancel
  does not learn.
- A torn `strategy_performance.json` (331) makes each later cycle raise before its
  exits are looked at, and `main` reads the file again outside its `try` (2551): the
  process dies at every restart, and the weekly rebalance is never reached again
  (`RebalanceRecurs` makes the exception).
- A regime lookup that fails answers bull and is cached for the day.  The gate that
  raises allows the entry.  A figure that is missing passes its rule.  The
  valuation's growth is `earningsGrowth` of the forecast, against "Uses only
  trailing metrics" (`valuation.py:4`), and a negative P/E ranks cheapest among
  peers.
- Core sleeve: the trim branch can never fire (the sleeve needs a valuation of
  0.40, a trim less than 0.25); no ticker is ever assigned to the tactical sleeve;
  the caller never passes the cash, so the cash floor never binds; two adds of one rebalance
  are both checked against the state before (`SectorBounded`); a torn state file
  loads as a fresh one and forgets the holdings; "Only opens new positions in
  bull/flat" (`rebalancer.py:9`), but in a bear market it sells puts.
- `main.py`: when the first page of bars fails the cycle raises,
  because the text of the error takes the place of the bars (`market_data.py:118`); a later one
  silently shortens the history; resting orders are not counted and are repeated
  each cycle; a failed position lookup answers `{}` and every limit is off; a
  short's market value is negative, so its concentration never binds
  (`ExposureBounded` counts the repeated orders of both, `ShortsLimited` is refuted).  Nothing
  calls `record_trade_result`, `reset_daily`, `record_exit` or the kill switch's
  `activate`: the daily loss, the streak and the switch never move.
- Exits: an adopted long position gets a horizon of 90 days, so its stop and its age
  exit are vetoed for 21 days ("10 days = hard max regardless", 1402; `OpenEnds` says
  what holds); the stop that a vetoed exit or trim came with is lost; a trim closes
  the whole row; a horizon from 361 to 364 days makes a position tactical; nothing
  calls `close_thesis`, so an old thesis governs the next position; the thesis file
  is rewritten without a lock, a torn read counts as no thesis (a compounder may
  be sold) and two writers lose each other's; the trader's own entries never log
  one.
- Backtest: the half size that is to last "until equity makes a new high" (111-112)
  ends when the loss is under 7%; a trailing stop is raised with a bar's close and
  tested with its low; a stop fills at the stop though the bar opened beyond it;
  exit commission and borrow cost are taken from the trade's pnl but not from the
  cash (`BooksBalance` has the exact difference); the last equity is not marked
  again after the closing out; `core_holdings.clear()` drops names without a bar
  unpaid; the point-in-time core selects with a date's close and buys at its open,
  without asking for cash; a name it removes on a day without a bar is never sold
  and may be bought again by the tactical sleeve ("R1: no overlap with core"); the
  shares outstanding are today's; walk-forward raises `KeyError` on a window
  without trades.
- The adopting script says that after it ran "the bot's exit logic + risk controls
  cover everything" (`scripts/adopt_existing_positions.py:11`); if the trader is
  inside a pass, the rewrite at its end erases the adopted rows.

## 5. What is proved

Eight modules hold the proofs: one for what happens to an order before the
broker sees it live (`LiveTradingProofs`), one for the journal and its rows
(`JournalProofs`), five for a component each, and one of lemmas about data.  Every
safety property a run checks is a theorem, but for the two refinements that hold only
where no operation overlaps another (section 6).  The assumptions are those the modules declare for their
constants (`...Assumption`): numbers are numbers, sets that are counted are finite,
and markers such as `Corrupt` or `Down` are no data.  Every theorem is about
the specification that the runs check.  Each component's invariant was checked by
TLC on the instance of its run before it was proved.

### The stage controller: `LiveTradingProofs`

For every capital cap, symbol set, order set, equity and bound:

- `TypeCorrect`, `FloorsStayOrdered`, `RatchetNeverBinds`, `DeRiskFollowsEquity`,
  `BreachHalts`, `CapsHold`: the type invariant, the four invariants of
  `StageCore`, and `HaltBelowHardFloor` of `StageRestart`;
- `HaltsStay`: the action property `HaltIsSticky`;
- `PhraseGuardsLive`, `DayIsBounded`: `LiveNeedsPhrase` and `DayExposureBounded`,
  of the controller with its history;
- `CourseIsKept`: the action property `RunningKeepsCourse`.

The argument.  `Sound(s)` says of one `LiveState` that it has its type and meets
the five conditions together.  Each operation of the controller maps sound states
to sound states (`FreshSound`, `TickSound`, `FillSound`, `CloseSound`,
`ClearSound`, `ModeSound`); `TickSound` rests on two facts about the ladder,
`LadderBounds` and `LadderMonotone`.  The conditions are not inductive apart:
that the trailing floor is at or above the hard floor after a tick needs
`RatchetIsLadder`, `Cap <= hwm` and the monotonicity of the ladder.  `IInv` says
that all copies are sound, and that a save is under way only in a running
trader, without which `FinishSave` could write the absence of a state.  `NextInv`
goes through the actions; a restart or a command-line save only copies a sound
state from one place to another.

With the history the invariant is `HInv`: `IInv`, the type of the history,
`LiveNeedsPhrase`, and `DayAccounted`, which splits the bound on a calendar day
by where the orders are counted: two caps for each crash so far, one cap if the
state in memory has rolled to this day (what was booked before it rolled), and
what that state has booked since.  `OtherCopies` and `BesideStep` show that what
happens to a file or to the command line's copy disturbs none of it, and
`OrderStep` that an order moves the day's sum and the state's by the same amount.

### The live gate: `LiveTradingProofs`

For any trade ids, timeout, clock and number of crashes, with the two threads
free to overlap:

- `GateTypeCorrect`; `NeverApprovedLate`: `NoLateApproval`; `NothingForged`:
  `NoForgedStatus`;
- `DecisionsAreBounded`: `DecidedOnce`, that of one order a reviewer is told of no more
  decisions than one, and one for each operation that began during another, whatever
  crashes and garbled files come between.

The argument.  A row can be copied from the file to a thread, and from a thread's
stale rows back, so the invariant must speak of every copy of the rows at once
(`NoForgedStatus` and `NoLateApproval` do, and each needs the types and the
other's log).  `CountInv` is a count over the copies: a thread has a claim on an
order when its rows have it pending or when it is about to decide it, and the
decisions told so far and the claims are together no more than the bound.  A lone
thread claims what the file has pending, and such a row leaves one decision of the
bound unused; a read makes another claim only while the other thread is busy, which
`overlaps` counts; pruning makes none (`PrunedWasPending`); a write turns its
claim into a decision told.

### The order queue: `OrderQueueProofs`

For any orders, gates, workers, clients, runs and crashes, however they overlap:

- `TypeCorrect`; `GatesHold`: `OnlyClearedGates`; `NoExecutionInvented`:
  `ExecutedWasAccepted`, that no order is accepted more often than runs were started
  and that no row of any copy is EXECUTED without an acceptance;
- `SettledIsBounded`: `SentOrCancelledOnce`, that acceptances and cancellations of one
  order are no more than one, and one for each operation begun during another and for
  each crash; doubtful answers and garbled files add none.

The argument.  `TodoCleared` and `SentWasCleared` carry the opened gate from the
start of a run to the sending.  `RunsPaid` is the strengthening that the bound on
acceptances needs: the acceptances so far and the workers that still hold the order
are together no more than the runs.  `CInv` counts as the gate's invariant does: a process
claims an order that its rows still have pending or that it is about to report
cancelled; what was accepted and cancelled, and the number of claimants, are together
within the bound (`Paid`), and a lone operation finds room in it for what the file
has pending.  `OneMoreClaim` and `OneClaimLess` are the two steps of that count.

### The trade book: `JournalProofs`

For any finite set of symbols, any quotes, positions, limits and bounds:

- `TypeCorrect`: the type invariant of the `TradeBook` run;
- `InformedClosesShrink`: `KnownClosesShrink`, so the guard and the cap of the
  two exit paths are enough whenever the lookup answered and nobody moved the
  position since;
- `EntriesLeaveExposed`: `EntriesStay`, that a row leaves the file only if a save was cut
  short, if a script added it while a cycle held its copy, or if it was added to a
  file that a cut save had spoilt;
- `RowsCloseOnce`: `ClosedOnce`; `PnlIsBooked`: `PnlBooked`.

The argument.  `OrderOK` remembers what the sending step knew: an order in
flight is for a quoted row, and an informed one is no larger than the position
its lookup saw, on the row's side; `FillShrinks` is then arithmetic.  That a
row is not lost otherwise needs `KeptOK`: while the journal in memory may still be
written back, it has every row that nothing has exposed.  This holds because the bot
appends only in the scan, when no rewrite is left in its cycle (`PassOK`: an entry
waits for the file only there), because what the adopting script appends during a
cycle is exposed (`AdoptWriteFile`), and because a save that is cut short exposes every
row (`CutSaveFile`).  None is inductive without the types, which say that rows keep their
place and `id` (`RowReplaced`).

The books have an invariant of their own, `BooksOK`, proved over `IInv`.  `ClosesOK`
says that a row open in the journal, or open in the file as long as the pass has
closed nothing, was closed at the broker no more often than work was cut short; a
pass that has closed something will write the file over, which is why the file is
let off until then.  `PnlOK` says where what was earned is at each point of the
cycle: in the journal, and in the file but for what the pass has counted.  Both
need that ids are unique within a copy (`IdsOK`).  The pnl of a file is a sum over
its indices, and what closing or appending a row does to it follows from
`DataTheorems` (`PnlOfClosed`, `PnlOfGrown`).

### The core sleeve: `CoreSleeveProofs`

For any universe, scores, regimes, limits, calendar and number of threads:

- `TypeCorrect`; `SectorsAreBounded`: `SectorBounded`; `BearsBuyNoStock`:
  `BearHoldsPutsOnly`; `BatchesAreAWeekApart`: `WeeklyBatches`;
- `SupervisionRefines`: under the watchdog the sleeve takes no step it would not
  take alone, so that the above holds of the pair; `SupervisedTypeCorrect`: the types of
  the pair, and that the trader is up exactly while the watchdog watches it.

The argument.  `IInv` bounds the threads by their sum (`ThreadsOK`), says that a name
the file calls core has a valuation of 40 at least (`FileOK`: the reason why the
trim branch never fires, without which a trimmed stock could keep a bear market's
size), and has the three properties for the saved holdings (`BooksOK`), together with
`BoughtSince`: nothing held is younger than the last rebalance.  The last is what
`WeeklyBatches` lacks to be inductive: the holdings added by a rebalance are of
age 0, and those before it are a week old at least because the rebalance before
was.  `Rebalance` is taken apart as the code is: what is kept is a part of what was
held (`KeptIsPart`), what is added fits the caps (`AddedIsFit`), and each property is
shown of the two joined.  `SupervisionRefines` is safety; the
fairness of the pair stays with TLC.

### One position: `JournalProofs`

For any prices, returns, bars, calendars, theses and days:

- `LifeTypeCorrect`; `WinnersStayWinners`: `WinnerProtected`; `ClassHolds`: the action
  property `HeldToClass`.

The argument.  `AdviceProtects` goes through the branches of profit protection,
and `JudgmentProtects` through those of `check_exits`, to show that a moved stop of a
winner is at its entry or above.  That a class is respected needs to know which
thesis `check_exits` will find: `AdopterOwes` says that an adopting script between
its read and its write is logging the thesis that is owed, and `ThesisNoOlder`
that the thesis logged last is no older than the row.

### The entries: `EntryScanProofs`

For any symbols, sectors, lots, charts, markets, tiers, scores and balances:

- `TypeCorrect`; `GrossStaysBounded`: `GrossBounded`; `EntriesAreTracked`:
  `EntriesTracked`; `SectorsStaySpread`: the action property `HalfASector`;
  `LearningMissesNoClose`: the action property `NoCloseForgotten`.

The argument.  That the types hold is a theorem in its own right: the strategies,
the regime, the tier, the learned factor, the sizing and the ranking answer in whole
numbers for every chart (`SignalsType`, `RankingType`, `DayType`, `TierType`,
`CapType`).  `PlanOK` says that the counts of sectors and of open rows, which
`run_cycle` keeps by hand through its loop, are the journal's at every turn, and
that a fill not yet booked is of a sector with room: `HalfASector` follows.
`RoomOK` says how far the exposure can be above the cap that was tested once,
before the loop: by 1.2 times the position cap of the tier for each entry since, which is
what one entry can cost (`BudgetBounded`, `CostBounded`).  `TrackedOK`
says that the symbols whose holdings are not those of the journal are no more than
the times the work was cut short.  `RowAppended` and `RowsClosed` say what an
entry and the exits do to the journal's sums and counts.

For what is learned the fold of `update_learning` has to be followed row by row:
`CountedOne` says that a row more is counted once, as a win or a loss of its strategy,
`LearnedCounts` carries that through the whole `FoldLeft` with `FoldCarries`, and
`ClosedParts` that the closed rows handed to it are those of the journal, as
many of each kind.  `ClosingKeeps` is the selling, by the exits and by the flatten, and
`StatsOK` the invariant beside it: the file holds a record for every
strategy unless it was cut short, and then no cycle gets as far as learning.

### The signal pipeline: `SignalPipelineProofs`

For any watchlist, bars, strengths, prices, balance and bounds:

- `TypeCorrect`; `ExposureStaysBounded`: `ExposureBounded`; `RankingIsRight`:
  `RankedByScore`; `LogAccounts`: `TradesLogged`.

The argument.  The ranking needs no invariant: `GroupFacts` and `StrongestIsIn` say
what a group of like signals is, `LeadersFacts` that a leader scores what its
group does, `SortedFacts` and `PlaceFacts` that the sorted list holds each leader at a
place of its own and in the order of `Before`, `NoneIsMissed` that a ticker over
the threshold is there (`RankingHolds`).  The exposure bound is not inductive: it
needs that a buy is sent only for a ticker of which nothing is being bought and whose
position is no longer than what the manager was told, unless the ticker is `blind`
in this cycle (`PassOK`), and then the buy is counted in `unseen`; that no ticker is in
the queue twice, which the ranking guarantees; and that what is being bought by itself, and
what is being sold, keep within the budgets of the orders sent (`WithinBudget`,
`OrderBounded`, `BudgetsAdd`), since a filled order moves from one to the other.

### The backtest: `BacktestProofs`

For any codes, prices, slippage, fees, tiers, signals, statements, scoring
windows, basket limits and number of dates, over the three replays:

- `ReplayTypeCorrect`; `BooksAlwaysBalance`: `BooksBalance`;
  `BasketsKeepTheRules`: `BasketRules`; `NothingFromTheFuture`: `NoLookAhead`;
- `OnlyOldSignalsEnter`: the action property `EntriesAreOld`.

The argument.  `Balance(f)` is the cash of a portfolio and the cost of what is open,
less what its closed trades made; `EnterKeeps` and `CloseKeeps` show that one entry
and one exit leave it as it was, `CoreBalance` says the same of the core sleeve
(`BuyNameKeeps`, `SellNameKeeps`).  A loop of the code over positions, names or signals is
a fold, and `FoldCarries` takes an invariant through it; with it `ExitsKeep`,
`PendingKeeps`, `ClosesKeep`, `BuyCoreKeeps` and `SellCoreKeeps` lift the single
steps to whole loops.  The fixed basket adds one fact to the invariant: it holds
nothing before it was first bought (`Unbought`), without which the purchase could
overwrite a lot.

For baskets, `IsBasket` is kept by each name that is added (`BasketGrows`) and by
dropping names (`BasketShrinks`): the names that stay are a part of a basket that was
within the sector caps, which is why checking only the newcomers is enough.  `History`
carries this from one rebalance to the next.  For the future, `Agree` says when two
loads know the same reports and closes by a date, and `SameScores`, factor by factor,
that such loads score it alike; `LoadsAgree` compares today's history with
tomorrow's, so that `Chosen` is inductive, and `UpToAgrees` with the history cut off at
the date.  `Foreseen` goes with the fold over the pending signals.

Assumed of the data (`EngineAssumption`, `ScoringAssumption`,
`BacktestAssumption`): a list of signals has one a code, as `run_backtest` builds it;
no bar opens within its slippage of 0, since basis points never take a whole price;
histories have the same dates.  Nothing is assumed of `Volatility` and `Downside`: they are any functions of a
series.

### Data: `DataTheorems`

What `SumFunctionOnSet` of the community modules computes: it folds the indices in
an order nobody knows, so nothing about it is immediate.  The library's induction
theorems take an operator as parameter, which the provers at hand cannot
instantiate; `PartsInduction` states induction over the parts of a finite set with
the hypothesis given as a SET of parts, and is proved from a minimal
counterexample.  `FoldExists` and `SumIsFold` then unfold the definition, and the other
`Sum...` lemmas are what proofs use: an index more, an index less, one value changed, a split,
bounds, renaming.  `HighestExists` and `RankedIsBijection` say the same of
choosing a highest member and of `Ranking!Ranked`, which lists a finite set in order:
`RankedInOrder` and `InOrderIsBijection` that each place has one member and each member one
place, `AtPositionsType` and `AtAllPositions` what a part of a sequence is.
`FoldLeft` and `FoldSet` are recursions that take one index or member after another;
`IsRun` states that recursion once for any way of picking the next, `RunExists` and
`RunInduction` that it has one solution, and `RunCarries` and `FoldCarries` that what the
start has and every step keeps, the result has.

## 6. What is only model-checked, and what is not modelled

Model-checked only:

- liveness under fairness (`RebalanceRecurs`, `OpenEnds`), which is beyond the prover;
- `KeepsPromise` of the gate and of the queue, that they implement `OrderApproval` and
  `ConditionalOrder`: it holds only where no operation overlaps another, nothing
  crashes and no answer is doubtful, for which the code has no lock.  As a theorem
  it would assume away what matters; the runs show that
  the operations themselves keep the promise, and what is proved of every
  interleaving is `DecidedOnce` and `SentOrCancelledOnce`.

The type invariants of most modules are proved and not run: what
they exclude would show up as an evaluation error.

Not modelled: the arithmetic of the indicators (moving averages, RSI, ATR, VWAP) and
of the options simulator, performance metrics and parameter selection of the
backtest, fetching and caching of data, the trader's options scan, idea and signal
logs and session hours, `fees.py`, `cost_manager.py` and `signals/filter.py` (nothing
calls them), reports, HTML and PDF generation and the read-only dashboard endpoints
(formatting), one-off order scripts and the start, stop and publish scripts.  See
the components of `PROJECT.json`.

## 7. Plan

Done, each with its proofs:

1. `StageController`, `StageHistory`.
2. `LiveGate` over `OrderApproval`, `OrderQueue` over `ConditionalOrder`.
3. `TradeBook`: the journal of `auto_trader` against the broker's positions.
4. `CoreSleeve` under `Watchdog`.
5. `SignalPipeline` over `Strategies`.
6. `PositionLife` over `ExitRules`.
7. `Backtest` over `SimPortfolio` and `PitScoring`.
8. `EntryScan` over `TraderRules` and `FundamentalScores`.

Worth doing next: the options scan of `auto_trader.py` and the metrics of `backtest.py` as modules of their own.
