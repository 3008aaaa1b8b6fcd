--------------------------- MODULE SimPortfolio ---------------------------
(***************************************************************************)
(* The portfolio of backtest.py and the operations of its engine: what a   *)
(* fill costs, how large an entry is, when a position is closed and at     *)
(* which price, what reaches the cash and what reaches the trade list.     *)
(* Prices and cash are whole units; a slippage is a number of units per    *)
(* code, where the source multiplies by basis points.                      *)
(***************************************************************************)
EXTENDS Integers, SequencesExt

CONSTANTS
    Codes,        \* the tickers with a price history
    Slip,         \* units a fill in a code is worse than the quoted price
    Atr,          \* atr_14 of a code, 0 when it has none
    Fee,          \* COMMISSION_PER_SHARE
    BorrowUnit,   \* share value times bars that cost one unit to borrow
    MaxOpen,      \* MAX_OPEN_POSITIONS
    HoldMin, HoldMax, TrailAfter,   \* HOLD_MIN_BARS, HOLD_MAX_BARS, TRAIL_ACTIVATE_BARS
    Tiers         \* SCALING_TIERS: records of trigger, keep, pct, usd and risk

ASSUME EngineAssumption ==
    /\ IsFiniteSet(Codes)
    /\ Slip \in [Codes -> Nat] /\ Atr \in [Codes -> Nat]
    /\ Fee \in Nat /\ BorrowUnit \in Nat \ {0} /\ MaxOpen \in Nat \ {0}
    /\ HoldMin \in Nat /\ TrailAfter \in Nat /\ HoldMax \in Nat \ {0}
    /\ Tiers # <<>>
    /\ Tiers \in Seq([trigger : Nat, keep : Nat, pct : Nat, usd : Nat, risk : Nat])

Bar   == [open : Nat, high : Nat, low : Nat, close : Nat \ {0}]
NoBar == [close |-> 0]
Missing(bar) == bar = NoBar

\* A signal that is to be filled, and a position of the engine.
Entry    == [code : Codes, strategy : STRING, dir : {"LONG", "SHORT"}, stop : Int, take : Int]
Position == [dir : {"LONG", "SHORT"}, qty : Nat, entry : Int, stop : Int, take : Int, held : Nat]
Trade    == [code : Codes, qty : Nat, held : Nat, pnl : Int, borrow : Int,
             reason : {"stop_loss", "take_profit", "time_stop", "end_of_backtest"}]

\* The open positions are a function on the codes that have one.
IsPortfolio(f) ==
    /\ f = [cash |-> f.cash, equity |-> f.equity, peak |-> f.peak,
            positions |-> f.positions, trades |-> f.trades]
    /\ {f.cash, f.equity, f.peak} \subseteq Int
    /\ DOMAIN f.positions \subseteq Codes /\ f.positions \in [DOMAIN f.positions -> Position]
    /\ f.trades \in Seq(Trade)

Put(f, x, y) == [z \in DOMAIN f \union {x} |-> IF z = x THEN y ELSE f[z]]

Portfolio(cash) ==
    [cash |-> cash, equity |-> cash, peak |-> cash, positions |-> <<>>, trades |-> <<>>]

Fill(c, price, side) == IF side = "BUY" THEN price + Slip[c] ELSE price - Slip[c]

Commission(qty) == qty * Fee

BorrowCost(p) == IF p.dir = "SHORT" THEN (p.entry * p.qty * p.held) \div BorrowUnit ELSE 0

Regimes == {"bull", "flat", "bear"}

ClassifyRegime(spy, sma, vix) ==
    CASE spy > sma /\ vix < 25 -> "bull"
      [] spy <= sma /\ vix > 25 -> "bear"
      [] OTHER -> "flat"

RegimeConfig ==
    [bull |-> [cap |-> 120, size |-> 100, allowed |-> {"ma_crossover", "mean_reversion", "breakout"}],
     flat |-> [cap |-> 80, size |-> 75, allowed |-> {"mean_reversion", "ma_crossover"}],
     bear |-> [cap |-> 50, size |-> 50, allowed |-> {"mean_reversion"}]]

NoConfig == [size |-> 0]   \* when --regime is off

Tier(equity) == Tiers[Max({1} \union {n \in DOMAIN Tiers : equity >= Tiers[n].trigger})]

WorkingCapital(equity) ==
    LET t == Tier(equity) IN
    IF equity <= t.trigger THEN equity
    ELSE t.trigger + ((equity - t.trigger) * t.keep) \div 100

DrawdownBrake(pf) ==
    /\ pf.peak > 0
    /\ 100 * (pf.peak - pf.equity) >= 7 * pf.peak

Percent(x, pct) == (x * pct) \div 100

\* What scales the budget of an entry: regime, VIX and drawdown.
Shrunk(budget, pf, cfg, vix) ==
    LET calm == IF vix > 0 THEN Max({40, Min({100, 2000 \div vix})}) ELSE 100
        sized == IF cfg = NoConfig THEN budget ELSE Percent(Percent(budget, cfg.size), calm)
    IN  IF DrawdownBrake(pf) THEN Percent(sized, 50) ELSE sized

Quantity(pf, sig, fill, scaled, cfg, vix) ==
    LET tier   == IF scaled THEN Tier(pf.equity) ELSE Tiers[1]
        basis  == IF scaled THEN WorkingCapital(pf.equity) ELSE pf.equity
        budget == Shrunk(Min({Percent(basis, tier.pct), tier.usd}), pf, cfg, vix)
        gap    == IF fill > sig.stop THEN fill - sig.stop ELSE sig.stop - fill
    IN  IF sig.stop # 0 /\ gap > 0
        THEN Min({budget \div fill, (basis * tier.risk) \div (100 * gap)})
        ELSE budget \div fill

OpenPosition(pf, sig, open, scaled, cfg, vix) ==
    LET fill == Fill(sig.code, open, IF sig.dir = "LONG" THEN "BUY" ELSE "SELL")
        qty  == Quantity(pf, sig, fill, scaled, cfg, vix)
        cost == qty * fill + Commission(qty)
    IN  IF \/ Cardinality(DOMAIN pf.positions) >= MaxOpen
           \/ sig.code \in DOMAIN pf.positions
           \/ open <= 0
           \/ qty <= 0
           \/ cost > pf.cash
        THEN pf
        ELSE [pf EXCEPT !.cash = @ - cost,
                        !.positions = Put(@, sig.code,
                            [dir |-> sig.dir, qty |-> qty, entry |-> fill,
                             stop |-> sig.stop, take |-> sig.take, held |-> 0])]

\* The trailing stop: after some bars, while the position is in profit.
TrailedStop(p, c, bar) ==
    LET trail == IF p.dir = "LONG" THEN bar.close - 2 * Atr[c] ELSE bar.close + 2 * Atr[c] IN
    CASE p.held < TrailAfter \/ Atr[c] = 0 -> p.stop
      [] p.dir = "LONG"  /\ bar.close > p.entry /\ trail > p.stop -> trail
      [] p.dir = "SHORT" /\ bar.close < p.entry /\ (p.stop = 0 \/ trail < p.stop) -> trail
      [] OTHER -> p.stop

\* check_exit: the position as the bar leaves it, and why it must go.
Aged(p, c, bar) ==
    LET q == [p EXCEPT !.held = @ + 1] IN
    IF q.held < HoldMin THEN q ELSE [q EXCEPT !.stop = TrailedStop(q, c, bar)]

ExitReason(p, bar) ==
    LET against == IF p.dir = "LONG" THEN bar.low <= p.stop  ELSE bar.high >= p.stop
        reached == IF p.dir = "LONG" THEN bar.high >= p.take ELSE bar.low <= p.take
    IN  CASE p.held < HoldMin         -> "none"
          [] p.stop > 0 /\ against    -> "stop_loss"
          [] p.take > 0 /\ reached    -> "take_profit"
          [] p.held >= HoldMax        -> "time_stop"
          [] OTHER                    -> "none"

ExitPrice(p, bar, reason) ==
    CASE reason = "stop_loss"   -> p.stop
      [] reason = "take_profit" -> p.take
      [] OTHER                  -> bar.close

\* Mutant: a short pays in like a long
ProceedsLong(p, fill) == p.qty * fill

Proceeds(p, fill) == IF p.dir = "LONG" THEN p.qty * fill ELSE p.qty * (2 * p.entry - fill)

ClosePosition(pf, c, bar, reason) ==
    LET p    == pf.positions[c]
        fill == Fill(c, ExitPrice(p, bar, reason), IF p.dir = "LONG" THEN "SELL" ELSE "BUY")
        gain == IF p.dir = "LONG" THEN fill - p.entry ELSE p.entry - fill
    IN  [pf EXCEPT !.positions = Restrict(@, DOMAIN @ \ {c}),
                   !.cash = @ + Proceeds(p, fill),
                   !.trades = Append(@,
                       [code |-> c, qty |-> p.qty, held |-> p.held, reason |-> reason,
                        pnl |-> gain * p.qty - 2 * Commission(p.qty) - BorrowCost(p),
                        borrow |-> BorrowCost(p)])]

Exit(pf, c, bar) ==
    LET aged == Aged(pf.positions[c], c, bar)
        kept == [pf EXCEPT !.positions[c] = aged]
        why  == ExitReason(aged, bar)
    IN  IF why = "none" THEN kept ELSE ClosePosition(kept, c, bar, why)

\* Exits of one bar; a position whose code has no bar is not looked at, nor aged.
ProcessExits(pf, bars) ==
    FoldSet(LAMBDA c, f : Exit(f, c, bars[c]), pf, {c \in DOMAIN pf.positions : ~Missing(bars[c])})

Value(p, price) == IF p.dir = "LONG" THEN p.qty * price ELSE p.qty * (2 * p.entry - price)

PriceOr(p, bar) == IF Missing(bar) THEN p.entry ELSE bar.close

MarkToMarket(pf, bars) ==
    LET worth == SumFunctionOnSet(
                     [c \in DOMAIN pf.positions |->
                         Value(pf.positions[c], PriceOr(pf.positions[c], bars[c]))],
                     DOMAIN pf.positions)
        eq    == pf.cash + worth
    IN  [pf EXCEPT !.equity = eq, !.peak = Max({@, eq})]

Exposure(pf, bars) ==
    SumFunctionOnSet([c \in DOMAIN pf.positions |->
                         pf.positions[c].qty * PriceOr(pf.positions[c], bars[c])],
                     DOMAIN pf.positions)

=============================================================================
