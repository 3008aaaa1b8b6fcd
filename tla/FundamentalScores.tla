-------------------------- MODULE FundamentalScores --------------------------
(***************************************************************************)
(* What a company's figures are worth to the program: the quality and the  *)
(* valuation of fundamental/quality.py and valuation.py, by which the core *)
(* sleeve sorts names, and the gate of risk/fundamental_gate.py with its   *)
(* own quality score, which every long entry of the trader must pass.      *)
(*                                                                         *)
(* Scores are in thousandths and rounded down; rates and margins, and the  *)
(* debt in percent of equity, are in hundredths; a price-to-something      *)
(* ratio is in tenths; capital, cash flow and share counts are in billions.*)
(* A figure that is Unknown is one Yahoo did not give.                     *)
(***************************************************************************)
EXTENDS Scores, FiniteSets

CONSTANT Unknown

\* "x or y" of Python: an unknown figure and a zero are alike.
Or(x, y) == IF x \in {Unknown, 0} THEN y ELSE x

Weighted(a, b, c, d, wa, wb, wc, wd) == (wa * a + wb * b + wc * c + wd * d) \div 100

-----------------------------------------------------------------------------
(* Quality, by the figures of the last twelve months.                      *)

Profitability(f) ==
    Unit((40 * Unit(50 * Or(f.roe, 0)) + 35 * Unit((100 * Or(f.opMargin, 0)) \div 3)
            + 25 * Unit(50 * Or(f.fcfMargin, 0))) \div 100)

\* The best growth is 25%; what shrinks and what is too hot scores less.
GrowthScore(g) ==
    IF g < 0 THEN Unit(300 + 10 * g)
    ELSE IF g <= 25 THEN Unit(500 + 20 * g)
    ELSE Unit(1000 - 10 * (g - 25))

Stability(f) == (GrowthScore(Or(f.revGrowth, 0)) + GrowthScore(Or(f.earnedGrowth, 0))) \div 2

BalanceSheet(f) ==
    (60 * Unit(1000 - 5 * Or(f.debt, 0)) + 40 * Unit(5 * (Or(f.current, 100) - 50))) \div 100

Scale(f) ==
    LET cap == Or(f.marketCap, 0)
    IN IF cap >= 100 THEN 1000
       ELSE IF cap >= 10 THEN 700 + (300 * (cap - 10)) \div 90
       ELSE IF cap >= 2 THEN 400 + (300 * (cap - 2)) \div 8
       ELSE Greatest(100, 200 * cap)

Quality(f) == Weighted(Profitability(f), Stability(f), BalanceSheet(f), Scale(f), 35, 25, 25, 15)

-----------------------------------------------------------------------------
(* Valuation.                                                              *)

Benchmarks ==
    [pe |-> [cheap |-> 120, fair |-> 200, dear |-> 350],
     ev |-> [cheap |-> 80,  fair |-> 140, dear |-> 250],
     ps |-> [cheap |-> 15,  fair |-> 40,  dear |-> 100],
     pf |-> [cheap |-> 120, fair |-> 220, dear |-> 400]]

\* 1 for the cheap, 0.6 for the fair, 0 for the dear and 0.5 for no data.
RatioScore(x, bench) ==
    IF x = Unknown \/ x <= 0 THEN 500
    ELSE IF x <= bench.cheap THEN 1000
    ELSE IF x >= bench.dear THEN 0
    ELSE IF x <= bench.fair THEN 1000 - (400 * (x - bench.cheap)) \div (bench.fair - bench.cheap)
    ELSE 600 - (600 * (x - bench.fair)) \div (bench.dear - bench.fair)

PriceToCash(f) == IF Or(f.fcf, 0) > 0 THEN (10 * Or(f.marketCap, 0)) \div f.fcf ELSE Unknown

Absolute(f) ==
    (RatioScore(f.pe, Benchmarks.pe) + RatioScore(f.ev, Benchmarks.ev)
       + RatioScore(f.ps, Benchmarks.ps) + RatioScore(PriceToCash(f), Benchmarks.pf)) \div 4

\* The share of the peers that are dearer. Unlike the absolute score this one
\* takes a ratio below zero for the cheapest of all.
Percentile(x, others) ==
    IF x = Unknown \/ others = {} THEN 500
    ELSE 1000 - (1000 * Cardinality({p \in others : p[2] <= x})) \div Cardinality(others)

\* peers: the figures of the names of the same group that have any.
VersusPeers(f, peers) ==
    LET Rated(name) == {<<p, peers[p][name]>> : p \in {q \in DOMAIN peers : Or(peers[q][name], 0) > 0}}
    IN IF DOMAIN peers = {} THEN 500
       ELSE (Percentile(f.pe, Rated("pe")) + Percentile(f.ev, Rated("ev"))) \div 2

\* conservative_dcf grows the cash flow for five years by half the growth, 15%
\* at most, and discounts by 10%; then 2.5% for ever. g is in half percents.
Growth(f) == Clamped(Or(f.forwardGrowth, Or(f.revGrowth, 5)), 0, 30)

DcfFactor(g) ==
    LET year == (1000 * (200 + g)) \div 220
        grown[n \in 0..5] == IF n = 0 THEN 1000 ELSE (grown[n - 1] * year) \div 1000
    IN grown[1] + grown[2] + grown[3] + grown[4] + grown[5] + (1025 * grown[5]) \div 75

\* The fair value is more than a fifth above the price.
SafetyMargin(f) ==
    /\ Or(f.fcf, 0) > 0 /\ Or(f.shares, 0) > 0 /\ Or(f.price, 0) > 0
    /\ 5 * f.fcf * DcfFactor(Growth(f)) > 6000 * f.price * f.shares

\* No caller knows a median of the past, so the history counts as neutral.
Valuation(f, peers) ==
    LET mixed == (40 * Absolute(f) + 30 * VersusPeers(f, peers) + 30 * 500) \div 100
    IN Unit(IF SafetyMargin(f) THEN mixed + 100 ELSE mixed)

-----------------------------------------------------------------------------
(* The gate.                                                               *)

\* compute_quality_score: growth first, then margins, return and insiders.
GateQuality(f) ==
    (30 * Unit(20 * Or(f.revGrowth, 0)) + 20 * Unit((100 * Or(f.grossMargin, 0)) \div 8)
       + 15 * Unit(25 * Or(f.opMargin, 0)) + 15 * Unit((100 * Or(f.fcfMargin, 0)) \div 3)
       + 10 * Unit((100 * Or(f.roe, 0)) \div 3) + 10 * Unit((200 * Or(f.insiders, 0)) \div 3)) \div 100

\* A mature name may grow less if its return is high.
Grows(f) == f.revGrowth = Unknown \/ f.revGrowth >= 5 \/ Or(f.roe, 0) >= 15

Earns(f) == f.opMargin = Unknown \/ f.opMargin >= -10

\* More room for a name that is not profitable, and for one of the best.
PriceLimit(f) ==
    (IF Or(f.opMargin, 0) > 0 THEN 600 ELSE 1000)
      + (IF GateQuality(f) >= 800 /\ Or(f.revGrowth, 0) >= 30 THEN 250 ELSE 0)

Affordable(f) == f.forwardPe = Unknown \/ f.forwardPe <= 0 \/ f.forwardPe <= PriceLimit(f)

\* The largest have few insiders.
SkinInTheGame(f) == f.insiders = Unknown \/ f.insiders >= 1 \/ Or(f.marketCap, 0) >= 200

Blackout(f) == f.daysToReport # Unknown /\ f.daysToReport \in 0..3

\* f is Unknown when Yahoo gives nothing. No key of f is missing, so a figure
\* that is Unknown passes the rule it is about and scores nothing.
Underwritten(kind, f) ==
    \/ kind = "etf"
    \/ /\ kind = "listed" /\ f # Unknown
       /\ GateQuality(f) >= 500
       /\ Grows(f) /\ Earns(f) /\ Affordable(f) /\ SkinInTheGame(f)
       /\ ~ Blackout(f)
=============================================================================
