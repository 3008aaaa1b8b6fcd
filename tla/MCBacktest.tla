----------------------------- MODULE MCBacktest -----------------------------
(***************************************************************************)
(* Five dates, three of them rebalances; a stock A that only signals, five *)
(* scored names of three sectors, two of which are the fixed basket and    *)
(* two of which have no price before the start.                            *)
(***************************************************************************)
EXTENDS Backtest

MCCodes    == {"A", "K", "L", "M", "N", "O", "SPY"}
MCUniverse == <<"K", "L", "M", "N", "O">>
MCCore     == <<"K", "L">>

MCSlip == [c \in MCCodes |-> IF c = "A" THEN 1 ELSE 0]
MCAtr  == [c \in MCCodes |-> CASE c = "A" -> 2 [] c = "O" -> 0 [] OTHER -> 1]
MCTiers == <<[trigger |-> 100, keep |-> 100, pct |-> 40, usd |-> 40, risk |-> 10],
             [trigger |-> 110, keep |-> 50, pct |-> 30, usd |-> 35, risk |-> 9]>>

MCOptions == {[mode |-> "plain", scaled |-> FALSE, regime |-> FALSE],
              [mode |-> "plain", scaled |-> TRUE, regime |-> TRUE],
              [mode |-> "hybrid", scaled |-> FALSE, regime |-> TRUE],
              [mode |-> "pit", scaled |-> FALSE, regime |-> TRUE]}

Flat(p) == [open |-> p, high |-> p, low |-> p, close |-> p]
Up(p)   == [open |-> p, high |-> p + 4, low |-> p, close |-> p + 3]
Down(p) == [open |-> p, high |-> p, low |-> p - 4, close |-> p - 3]

Market(a, k, l, m, n, o, s, v, pairs) ==
    [bars |-> [A |-> a, K |-> k, L |-> l, M |-> m, N |-> n, O |-> o, SPY |-> s],
     sma |-> 9, vix |-> v, alike |-> pairs]

MCDays ==
    {Market(Up(12), Up(10), Flat(8), Down(9), Flat(10), NoBar, Flat(10), 20, {{"A", "K"}}),
     Market(Down(12), NoBar, Up(10), Flat(12), Flat(8), Flat(6), Flat(8), 30, {}),
     Market(NoBar, Down(14), NoBar, Up(9), NoBar, Up(9), NoBar, 20, {})}

Signal(c, s, d, stop, take) ==
    [code |-> c, strategy |-> s, dir |-> d, stop |-> stop, take |-> take]
BuyA   == Signal("A", "mean_reversion", "LONG", 9, 14)
ShortA == Signal("A", "ma_crossover", "SHORT", 20, 5)
BuyO   == Signal("O", "mean_reversion", "LONG", 0, 0)
BuyK   == Signal("K", "breakout", "LONG", 6, 0)

MCSignalLists == {<<>>, <<BuyA, BuyO>>, <<BuyK, ShortA>>}

MCIndustry == [K |-> "cloud", L |-> "cloud", M |-> "oil", N |-> "oil", O |-> "bank"]
MCSector   == [K |-> "tech", L |-> "tech", M |-> "energy", N |-> "energy", O |-> "financials"]

Year(fye, revenue, gross, operating, net) ==
    [fye |-> fye, revenue |-> revenue, gross |-> gross, operating |-> operating,
     net |-> net, equity |-> 40, assets |-> 90]

MCStatements ==
    [K |-> <<Year(5, 40, 20, 2, 1), Year(0, 40, 20, 6, 4), Year(1, 50, 25, 10, 8)>>,
     L |-> <<Year(0, 40, 16, 4, 3), Year(6, 70, 40, 20, 15)>>,
     M |-> <<Year(4, 30, 10, 6, 5)>>,
     N |-> <<>>, O |-> <<>>]
MCShares == [t \in DOMAIN MCStatements |-> 10]

MCBefore == [A |-> <<10, 10, 10>>, K |-> <<10, 12, 11>>, L |-> <<8, 9, 9>>, M |-> <<0, 0, 0>>,
             N |-> <<12, 10, 0>>, O |-> <<0, 0, 0>>, SPY |-> <<9, 9, 9>>]

MCQuarter == [d \in 1..5 |-> IF d < 4 THEN 1 ELSE 2]
MCRebal   == <<4, 6, 8>>

Spread(s) == (1000 * (Max(Range(s)) - Min(Range(s)))) \div Min(Range(s))
MCVolatility(s) == Spread(s)
MCDownside(s) == Spread(s) \div 2

=============================================================================
