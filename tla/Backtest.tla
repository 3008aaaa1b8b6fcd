----------------------------- MODULE Backtest -----------------------------
(***************************************************************************)
(* The three replays of backtest.py, bar by bar: the signals alone, the    *)
(* hybrid with a fixed core basket rebalanced quarterly, and the hybrid    *)
(* whose basket is scored at each rebalance with what was known then.      *)
(* A step is the loop's body for one date; the last one closes the books.  *)
(* The market of a date and the signals it raises are inputs.              *)
(***************************************************************************)
EXTENDS SimPortfolio, PitScoring

CONSTANTS
    Options,      \* modes to replay: records of mode, scaled and regime
    Days,         \* what a date may bring: bars of the codes, vix, sma of SPY, alike pairs
    SignalLists,  \* signals a date may raise, best score first
    SPY,
    CoreNames,    \* CORE_PROXY_NAMES with a history
    Capital, CoreCapital, TacticalCapital, CashFloor,
    IdleUnit,     \* idle cash that earns one unit a bar
    Before,       \* closes of each code before the replay starts
    Quarter,      \* date -> its quarter
    RebalDates,   \* the scorer's rebalance dates
    Bars          \* bound: dates replayed

ASSUME BacktestAssumption ==
    /\ Options \subseteq [mode : {"plain", "hybrid", "pit"}, scaled : BOOLEAN, regime : BOOLEAN]
    /\ \A o \in Options : o.mode = "plain" \/ o.regime
    /\ Days # {}
    /\ \A d \in Days :
          /\ d.vix \in Nat /\ d.sma \in Nat
          /\ d.bars \in [Codes -> Bar \union {NoBar}]
          \* basis points never take a whole price, so whole units may not either
          /\ \A c \in Codes : ~Missing(d.bars[c]) => d.bars[c].open \notin 1..Slip[c]
    /\ SignalLists \subseteq Seq(Entry)
    /\ \A list \in SignalLists : IsInjective([i \in DOMAIN list |-> list[i].code])
    /\ SPY \in Codes /\ Range(Universe) \subseteq Codes
    /\ CoreNames \in Seq(Codes) /\ IsInjective(CoreNames)
    /\ {CoreCapital, TacticalCapital, CashFloor, Bars} \subseteq Nat
    /\ Capital = CoreCapital + TacticalCapital + CashFloor
    /\ IdleUnit \in Nat \ {0} /\ RebalDates \in Seq(Nat) /\ Quarter \in [1..Bars -> Nat]
    /\ Before \in [Codes -> Seq(Nat)]
    /\ \A c \in Codes : \A d \in Codes : Len(Before[c]) = Len(Before[d])

VARIABLES
    opts,      \* the mode and switches of this replay
    hist,      \* closes of each code, those before the start included; 0 when missing
    day,       \* the date replayed last
    pf,        \* the portfolio, or its tactical sleeve
    pending,   \* signals of that date, to be filled at the next open
    income,    \* interest credited
    core,      \* the core sleeve
    log,       \* basket_history
    ended

vars == <<opts, hist, day, pf, pending, income, core, log, ended>>

Today   == Len(hist[SPY]) - Len(Before[SPY])   \* dates replayed
DateOf(n) == Len(Before[SPY]) + n
Plain   == opts.mode = "plain"

EmptyCore ==
    [cash |-> IF Plain THEN 0 ELSE CoreCapital, held |-> <<>>, realised |-> 0, lost |-> 0,
     basket |-> <<>>, started |-> FALSE, quarter |-> 0, next |-> 1]

\* What the core sleeve may be: its positions are a function on the names it holds.
Lot == [qty : Nat, entry : Int]

IsCore(k) ==
    /\ k = [cash |-> k.cash, held |-> k.held, realised |-> k.realised, lost |-> k.lost,
            basket |-> k.basket, started |-> k.started, quarter |-> k.quarter, next |-> k.next]
    /\ {k.cash, k.realised, k.lost} \subseteq Int
    /\ DOMAIN k.held \subseteq Codes /\ k.held \in [DOMAIN k.held -> Lot]
    /\ k.basket \in Seq(Names) /\ k.started \in BOOLEAN /\ {k.quarter, k.next} \subseteq Nat

TypeOK ==
    /\ opts \in Options
    /\ hist \in [Codes -> Seq(Nat)]
    /\ \A c \in Codes : Len(hist[c]) = Len(hist[SPY])
    /\ Today \in 0..Bars
    /\ day \in Days
    /\ IsPortfolio(pf)
    /\ pending \in Seq(Entry)
    /\ income \in Nat
    /\ IsCore(core)
    /\ log \in Seq([date : Nat, basket : Seq(Names)])
    /\ ended \in BOOLEAN

Init ==
    /\ opts \in Options
    /\ hist = Before
    /\ day = CHOOSE d \in Days : TRUE   \* read only after a replay
    /\ pf = Portfolio(IF Plain THEN Capital ELSE TacticalCapital)
    /\ pending = <<>>
    /\ income = 0
    /\ core = EmptyCore
    /\ log = <<>>
    /\ ended = FALSE

Known == [c \in Codes |-> Append(hist[c], day'.bars[c].close)]

RegimeOn(d) ==
    IF Missing(d.bars[SPY]) THEN "bull"
    ELSE ClassifyRegime(d.bars[SPY].close, d.sma, d.vix)

Config(d) == IF opts.regime THEN RegimeConfig[RegimeOn(d)] ELSE NoConfig

\* May the loop over the pending signals still open something?
RoomFor(f, d, cfg) ==
    /\ Cardinality(DOMAIN f.positions) < MaxOpen
    /\ Plain /\ cfg # NoConfig /\ f.equity > 0 =>
          100 * Exposure(f, d.bars) < cfg.cap * f.equity

TooAlike(f, c, d) == Plain /\ \E e \in DOMAIN f.positions : {c, e} \in d.alike

Wanted(f, s, d, reserved) ==
    /\ s.code \notin DOMAIN f.positions \union reserved
    /\ ~Missing(d.bars[s.code])
    /\ Config(d) # NoConfig => s.strategy \in Config(d).allowed

Try(acc, s, d, reserved) ==
    IF ~acc.on \/ ~Wanted(acc.pf, s, d, reserved) THEN acc
    ELSE IF ~RoomFor(acc.pf, d, Config(d)) THEN [acc EXCEPT !.on = FALSE]
    ELSE IF TooAlike(acc.pf, s.code, d) THEN acc
    ELSE [acc EXCEPT !.pf = OpenPosition(@, s, d.bars[s.code].open, opts.scaled, Config(d), d.vix)]

\* The signals of the last date, at this date's open, skipping the core's names.
ExecutePending(f, d, reserved) ==
    FoldLeft(LAMBDA acc, s : Try(acc, s, d, reserved), [pf |-> f, on |-> TRUE], pending).pf

\* At most one signal a code, and none in a full portfolio, for a position or in the core.
QueueSignals(f, d, reserved, signals) ==
    LET indicator == IF opts.regime THEN {SPY} ELSE {}
        wanted(s) == /\ s.code \notin DOMAIN f.positions \union reserved \union indicator
                     /\ ~Missing(d.bars[s.code])
    IN  IF Cardinality(DOMAIN f.positions) >= MaxOpen THEN <<>>
        ELSE AtPositions(signals, {n \in DOMAIN signals : wanted(signals[n])})

BuyName(k, n, budget, bars) ==
    LET fill == Fill(n, bars[n].open, "BUY") qty == budget \div fill IN
    IF Missing(bars[n]) THEN k
    ELSE IF bars[n].open <= 0 \/ qty <= 0 THEN k
    ELSE [k EXCEPT !.cash = @ - qty * fill, !.held = Put(@, n, [qty |-> qty, entry |-> fill])]

BuyCore(k, names, budget, bars) ==
    FoldLeft(LAMBDA acc, n : BuyName(acc, n, budget, bars), k, names)

\* Sold at the close of the date, with slippage or without.
SellName(k, n, bars, slips) ==
    LET price == IF slips THEN Fill(n, bars[n].close, "SELL") ELSE bars[n].close IN
    [k EXCEPT !.cash = @ + k.held[n].qty * price,
              !.realised = @ + k.held[n].qty * (price - k.held[n].entry),
              !.held = Restrict(@, DOMAIN @ \ {n})]

SellCore(k, names, bars, slips) ==
    FoldSet(LAMBDA n, acc : SellName(acc, n, bars, slips), k,
            {n \in names \intersect DOMAIN k.held : ~Missing(bars[n])})

Cost(h) == SumFunctionOnSet([n \in DOMAIN h |-> h[n].qty * h[n].entry], DOMAIN h)

\* The fixed basket: sold at the close and bought again at the open of the first bar
\* of a quarter outside a bear market; a name without a bar is dropped unpaid.
HybridCore(d, quarter) ==
    LET sold  == SellCore(core, DOMAIN core.held, d.bars, TRUE)
        emptied == [sold EXCEPT !.lost = @ + Cost(sold.held), !.held = <<>>]
        share(k) == k.cash \div Max({1, Len(CoreNames)})
        due   == core.started /\ quarter # core.quarter /\ RegimeOn(d) # "bear"
        from  == IF core.started THEN emptied ELSE core
    IN  IF core.started /\ ~due THEN core
        ELSE [BuyCore(from, CoreNames, share(from), d.bars)
              EXCEPT !.started = TRUE, !.quarter = quarter]

\* The scored basket, from what is known on the date, its close included.
RebalanceDue(date) == core.next <= Len(RebalDates) /\ date >= RebalDates[core.next]

PitCore(d, basket) ==
    LET sold  == SellCore([core EXCEPT !.next = @ + 1], Range(core.basket) \ Range(basket),
                          d.bars, TRUE)
        buys  == AtPositions(basket, {n \in DOMAIN basket : basket[n] \notin DOMAIN sold.held})
        worth == sold.cash + SumFunctionOnSet(
                     [n \in DOMAIN sold.held |-> sold.held[n].qty * PriceOr(sold.held[n], d.bars[n])],
                     DOMAIN sold.held)
    IN  [BuyCore(sold, buys, worth \div Max({1, Len(basket)}), d.bars)
         EXCEPT !.basket = IF basket = <<>> THEN @ ELSE basket]

\* Mutant: with the basket of before the rebalance
ReservedBefore(k) ==
    CASE opts.mode = "plain"  -> {}
      [] opts.mode = "hybrid" -> Range(CoreNames)
      [] opts.mode = "pit"    -> Range(core.basket)

\* Names the tactical sleeve leaves to the core, with the basket now in force.
Reserved(k) ==
    CASE opts.mode = "plain"  -> {}
      [] opts.mode = "hybrid" -> Range(CoreNames)
      [] opts.mode = "pit"    -> Range(k.basket)

\* The part of the loop the three replays share, and the interest on what is idle.
Replay(d, signals, reserved, idle) ==
    LET filled == ExecutePending(ProcessExits(pf, d.bars), d, reserved)
        marked == MarkToMarket(filled, d.bars)
        rf     == (Max({0, marked.cash}) + idle) \div IdleUnit
    IN  /\ pf' = IF Plain THEN [marked EXCEPT !.cash = @ + rf, !.equity = @ + rf] ELSE marked
        /\ pending' = QueueSignals(filled, d, reserved, signals)
        /\ income' = income + rf

Idle(k) == IF Plain THEN 0 ELSE Max({0, k.cash}) + CashFloor + income

NextDate ==
    /\ ~ended /\ Today < Bars
    /\ day' \in Days
    /\ hist' = Known
    /\ UNCHANGED <<opts, ended>>

ReplayPlain ==
    /\ Plain
    /\ NextDate
    /\ \E signals \in SignalLists : Replay(day', signals, Reserved(core), 0)
    /\ UNCHANGED <<core, log>>

ReplayHybrid ==
    /\ opts.mode = "hybrid"
    /\ NextDate
    /\ core' = HybridCore(day', Quarter[Today + 1])
    /\ \E signals \in SignalLists : Replay(day', signals, Reserved(core'), Idle(core'))
    /\ UNCHANGED log

ReplayPit ==
    LET date == DateOf(Today + 1) IN
    /\ opts.mode = "pit"
    /\ NextDate
    /\ IF RebalanceDue(date)
       THEN \E scores \in {ScoreUniverse(Loaded(hist', Reports), SPY, date)} :
            \E basket \in {SelectCoreBasket(scores, core.basket)} :
                /\ core' = PitCore(day', basket)
                /\ log' = IF basket = <<>> THEN log
                          ELSE Append(log, [date |-> date, basket |-> basket])
       ELSE UNCHANGED <<core, log>>
    /\ \E signals \in SignalLists : Replay(day', signals, Reserved(core'), Idle(core'))

\* What is open goes at the last close: in the plain replay at that of its own last
\* bar, in the others only with a bar on the last date.  The core pays no slippage.
LastBar(c) == [close |-> PriceAt(Loaded(hist, Reports), c, DateOf(Today))]

CloseOut ==
    LET goes(c) == Plain \/ ~Missing(day.bars[c]) IN
        /\ ~ended /\ Today = Bars
        /\ pf' = FoldSet(LAMBDA c, f : ClosePosition(f, c, LastBar(c), "end_of_backtest"),
                         pf, {c \in DOMAIN pf.positions : goes(c)})
        /\ core' = SellCore(core, DOMAIN core.held, day.bars, FALSE)
        /\ ended' = TRUE
        /\ UNCHANGED <<opts, hist, day, pending, income, log>>

Next == ReplayPlain \/ ReplayHybrid \/ ReplayPit \/ CloseOut

Spec == Init /\ [][Next]_vars

-----------------------------------------------------------------------------

OpenCost(f) ==
    SumFunctionOnSet([c \in DOMAIN f |-> f[c].qty * f[c].entry + Commission(f[c].qty)], DOMAIN f)

Made(t) == t.pnl + Commission(t.qty) + t.borrow
TotalMade(trades) == SumFunctionOnSet([n \in DOMAIN trades |-> Made(trades[n])], DOMAIN trades)

\* The cash of each sleeve is what it was given, plus the interest it keeps, plus what
\* its trades are reported to have made, less what its open positions cost.  The report
\* is below the cash by the exit commission and the borrow cost of every closed trade,
\* which close_position charges to the trade and not to the cash, and by nothing else;
\* the core is short of its report by the names that a rebalance dropped unpaid.
BooksBalance ==
    /\ pf.cash + OpenCost(pf.positions) =
          (IF Plain THEN Capital + income ELSE TacticalCapital) + TotalMade(pf.trades)
    /\ ~Plain => core.cash + Cost(core.held) + core.lost = CoreCapital + core.realised

\* Nothing but the closes and the reports of a date and before.
UpTo(date) ==
    Loaded([c \in Codes |-> SubSeq(hist[c], 1, date)],
           [t \in DOMAIN Reports |->
               Restrict(Reports[t], {n \in DOMAIN Reports[t] : Reports[t][n].after <= date})])

\* A basket is the one that scoring its date selects with nothing but the closes and the
\* reports of that date and before, and still the one it selects with all that is known now.
NoLookAhead ==
    \A k \in DOMAIN log :
        \A known \in {UpTo(log[k].date), Loaded(hist, Reports)} :
            log[k].basket = SelectCoreBasket(ScoreUniverse(known, SPY, log[k].date),
                                             IF k = 1 THEN <<>> ELSE log[k - 1].basket)

Newcomers(k) == Range(log[k].basket) \ Range(log[k - 1].basket)

\* No basket is larger than it may be or holds too many names of a sector, though the
\* names that stay are never checked again, and a rebalance takes in few new names.
BasketRules ==
    \A k \in DOMAIN log :
        LET b == log[k].basket IN
        /\ Len(b) <= BasketSize /\ IsInjective(b)
        /\ \A s \in Range(Sector) : Cardinality(OfSector(b, s)) <= MaxPerSector
        /\ k > 1 => Cardinality(Newcomers(k)) <= MaxTurnover

\* What the engine opens was a signal of an earlier date, is allowed in today's regime and
\* is no name of the core as it stands after today's rebalance (R1: no overlap with core).
EntriesAreOld ==
    [][\A c \in DOMAIN pf'.positions \ DOMAIN pf.positions :
          \E s \in Range(pending) :
              /\ s.code = c /\ pf'.positions[c].dir = s.dir
              /\ opts.regime => s.strategy \in RegimeConfig[RegimeOn(day')].allowed
              /\ opts.mode = "hybrid" => c \notin Range(CoreNames)
              /\ opts.mode = "pit" => c \notin Range(core'.basket)]_vars

============================================================================
