---------------------------- MODULE TraderRules ----------------------------
(***************************************************************************)
(* The rules auto_trader.py scans by, as functions of what it was shown:   *)
(* the three strategies on the last bars of a symbol, what the closed      *)
(* trades taught about each strategy, the regime of the day, the capital   *)
(* tier and the size of a position.                                        *)
(*                                                                         *)
(* Scores are in thousandths, relative volume, exposure and sizes in       *)
(* hundredths, prices and money in any unit; a quotient is rounded down.   *)
(***************************************************************************)
EXTENDS Scores, Sequences, FiniteSets, SequencesExt

CONSTANT NoSignal   \* a strategy that has nothing to say

Signals == [strategy : {"ma_crossover", "mean_reversion", "breakout"}, score : Int, entry : Int, stop : Int]

Signal(strategy, score, entry, stop) ==
    [strategy |-> strategy, score |-> score, entry |-> entry, stop |-> stop]

-----------------------------------------------------------------------------
(* What get_enriched_data answers for a symbol, or nothing: the newest bar *)
(* and the indicators up to it. The history must be long and fresh enough. *)

Bars == [count : Nat, age : Nat, close : Nat, prevClose : Nat, high : Nat, low : Nat,
         sma20 : Nat, sma50 : Nat, prev20 : Nat, prev50 : Nat, rsi : 0..100, prevRsi : 0..100,
         wasOversold : BOOLEAN, rvol : Nat, bbLower : Int, resistance : Nat \ {0},
         atr : Nat, range10 : Nat]

Usable(bars) == bars.count >= 30 /\ bars.age <= 5

CrossUp(b)     == b.prev20 <= b.prev50 /\ b.sma20 > b.sma50
TrendingUp(b)  == b.sma20 > b.sma50 /\ b.close > b.sma20 /\ b.rsi \in 51..74 /\ b.rvol > 80
Approaching(b) == /\ b.sma20 < b.sma50 /\ 50 * (b.sma50 - b.sma20) < b.sma50
                  /\ b.close > b.sma50 /\ b.rsi > 50

MACrossover(b) ==
    LET trend == IF CrossUp(b) THEN 1000 ELSE IF Approaching(b) THEN 500 ELSE 600
        score == (4 * Least((b.rsi - 50) * 40, 1000) + 3 * Least(b.rvol * 5, 1000) + 3 * trend) \div 10
    IN IF b.count >= 52 /\ (CrossUp(b) \/ TrendingUp(b) \/ Approaching(b))
       THEN Signal("ma_crossover", Clamped(score, 100, 1000), b.close, b.sma50 - b.atr \div 2)
       ELSE NoSignal

\* Unless the price is 15% under its 50-day average.
BrokenDown(b) == b.count >= 50 /\ 100 * b.close < 85 * b.sma50
Oversold(b)   == b.rsi < 38 /\ 100 * b.close <= 102 * b.bbLower
Bouncing(b)   == b.wasOversold /\ b.rsi > b.prevRsi /\ b.rsi < 45 /\ b.close > b.prevClose

MeanReversion(b) ==
    LET depth == (1000 * Greatest(38 - b.rsi, 0)) \div 38
        bonus == IF Bouncing(b) THEN 150 ELSE 0
    IN IF b.count >= 25 /\ ~ BrokenDown(b) /\ (Oversold(b) \/ Bouncing(b))
       THEN Signal("mean_reversion", Least(350 + depth + bonus, 900), b.close,
                   b.close - (3 * b.atr) \div 2)
       ELSE NoSignal

Broke(b)     == b.prevClose < b.resistance /\ b.close > b.resistance
NearBreak(b) == 1000 * b.close > 995 * b.resistance /\ b.close > b.prevClose /\ b.rsi > 55

\* Volume, the close in the upper part of its bar, no chase, a quiet fortnight.
CleanBreak(b) ==
    /\ b.rvol >= 120
    /\ b.high > b.low => 10 * (b.close - b.low) >= 4 * (b.high - b.low)
    /\ ~ (Broke(b) /\ 2 * (b.close - b.resistance) > 3 * b.atr)
    /\ b.atr > 0 => b.range10 <= 3 * b.atr

Breakout(b) ==
    LET reach == Least((40000 * (b.close - b.resistance)) \div b.resistance, 1000)
        score == (Least((b.rvol * 10) \div 3, 1000) + reach) \div 2
    IN IF b.count >= 25 /\ (Broke(b) \/ NearBreak(b)) /\ CleanBreak(b)
       THEN Signal("breakout", Clamped(score, 200, 1000), b.close, b.resistance - b.atr)
       ELSE NoSignal

\* ALL_STRATEGIES, in their order.
StrategyNames == {"ma_crossover", "mean_reversion", "breakout"}
AllSignals(b) == <<MACrossover(b), MeanReversion(b), Breakout(b)>>

-----------------------------------------------------------------------------
(* Learning. A record per strategy: trades counted, those with a gain, and *)
(* their pnl.                                                              *)

NoRecord == [trades |-> 0, wins |-> 0, total |-> 0]

Counted(record, pnl) ==
    [trades |-> record.trades + 1, wins |-> record.wins + (IF pnl > 0 THEN 1 ELSE 0),
     total |-> record.total + pnl]

\* Variant: only the row closed last.
LearnedLast(stats, closed) ==
    LET row == closed[Len(closed)]
    IN [stats EXCEPT ![row.strategy] = Counted(@, row.pnl)]

\* update_learning is given every closed row of the journal, each time, and
\* adds them all to what is on file. A row is [strategy, pnl].
Learned(stats, closed) ==
    FoldLeft(LAMBDA acc, row : [acc EXCEPT ![row.strategy] = Counted(@, row.pnl)], stats, closed)

\* The win rate, rounded to tenths of a percent.
WinRate(record) == (2000 * record.wins + record.trades) \div (2 * record.trades)

Adjustment(record) ==
    IF record.trades < 5 THEN [score |-> 0, size |-> 100]
    ELSE IF WinRate(record) > 600 THEN [score |-> 50, size |-> 120]
    ELSE IF WinRate(record) < 350 THEN [score |-> -100, size |-> 60]
    ELSE IF record.total < 0 THEN [score |-> -50, size |-> 80]
    ELSE [score |-> 0, size |-> 100]

-----------------------------------------------------------------------------
(* The regime.                                                             *)

RegimeConfig ==
    [bull |-> [exposure |-> 120, size |-> 100, strategies |-> StrategyNames],
     flat |-> [exposure |-> 80, size |-> 75, strategies |-> {"mean_reversion", "ma_crossover"}],
     bear |-> [exposure |-> 50, size |-> 50, strategies |-> {"mean_reversion"}]]

\* VIXY decays, so what it shows above 20 counts to the power of 0.7. This and
\* the leveraged UVXY are rounded away from 25, at which the regime turns.
Compressed(x) ==
    LET power == (x - 20) ^ 7
        root  == Cardinality({n \in 1 .. x - 20 : \A m \in 1..n : m ^ 10 <= power})
    IN 20 + root + (IF root >= 5 THEN 1 ELSE 0)

Deleveraged(x) == (2 * x + (IF 2 * x > 75 THEN 2 ELSE 0)) \div 3

\* quotes: of US.VIX, US.VIXY and US.UVXY, 0 for none. The first that answers.
Volatility(quotes) ==
    IF quotes[1] > 0 THEN quotes[1]
    ELSE IF quotes[2] > 0 THEN IF quotes[2] <= 20 THEN quotes[2] ELSE Compressed(quotes[2])
    ELSE IF quotes[3] > 0 THEN Deleveraged(quotes[3])
    ELSE 20

\* spy: above or below its 200-day average, unknown for too few bars, or the
\* query raised. What is not known counts as the best.
Regime(spy, quotes) ==
    LET vix == Volatility(quotes)
    IN IF spy = "raised" THEN [regime |-> "bull", vix |-> 0]
       ELSE IF spy # "below" /\ vix < 25 THEN [regime |-> "bull", vix |-> vix]
       ELSE IF spy = "below" /\ vix > 25 THEN [regime |-> "bear", vix |-> vix]
       ELSE [regime |-> "flat", vix |-> vix]

Day == [regime : {"bull", "flat", "bear"}, vix : Nat]

-----------------------------------------------------------------------------
(* Capital and size. A tier is [trigger, keep, pct, usd, risk]: from which *)
(* balance it holds, the share of the gains above that which still works,  *)
(* the size of a position, and the risk of one in thousandths.             *)

Tier == [trigger : Nat, keep : 0..100, pct : Nat, usd : Nat, risk : Nat]

TierOf(tiers, balance) ==
    LET reached == {n \in DOMAIN tiers : balance >= tiers[n].trigger}
    IN tiers[IF reached = {} THEN 1 ELSE CHOOSE n \in reached : \A m \in reached : m <= n]

WorkingCapital(tier, balance) ==
    IF balance <= tier.trigger THEN balance
    ELSE tier.trigger + ((balance - tier.trigger) * tier.keep) \div 100

PositionCap(tier, balance) ==
    Least((WorkingCapital(tier, balance) * tier.pct) \div 100, tier.usd)

\* Less when the VIX is above 20, down to four tenths.
VixScale(vix) == IF vix > 0 THEN Clamped(2000 \div vix, 40, 100) ELSE 100

\* Learning may raise the size above the cap of the tier.
Budget(tier, balance, size, today) ==
    LET learned == (PositionCap(tier, balance) * size) \div 100
    IN (((learned * VixScale(today.vix)) \div 100) * RegimeConfig[today.regime].size) \div 100

\* Shares: what the budget buys, and no more than may be lost at the stop.
Quantity(signal, tier, balance, size, today) ==
    LET bought == Budget(tier, balance, size, today) \div signal.entry
        risk   == Gap(signal.entry, signal.stop)
        atRisk == (WorkingCapital(tier, balance) * tier.risk) \div (1000 * risk)
    IN IF signal.entry <= 0 THEN 0
       ELSE IF signal.stop > 0 /\ risk > 0 THEN Least(bought, atRisk) ELSE bought

\* Board lots of the Hong Kong symbols; a US share trades alone.
RoundedToLot(qty, lot) == (qty \div lot) * lot
=============================================================================
