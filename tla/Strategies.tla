----------------------------- MODULE Strategies -----------------------------
(***************************************************************************)
(* The strategies of strategy/*.py and the scorer of signals/scorer.py.    *)
(*                                                                         *)
(* A strategy looks at the last bars of one ticker, enriched with          *)
(* indicators.  A bar here is what their guards read: how many bars there  *)
(* are, the RSI, the relative volume in hundredths, and for every other    *)
(* comparison of indicators whether it holds.  How strong a signal is, is  *)
(* open between the bounds each strategy clamps it to, in hundredths.      *)
(***************************************************************************)
EXTENDS Integers, Sequences, FiniteSets, SequencesExt, Ranking

CONSTANT Foreign   \* codes of another market than the US

Bars == [count  : 0..100,
         rsi    : 0..100,
         rvol   : Nat,
         band   : {"below", "near", "above"},  \* of the lower Bollinger band
         facts  : SUBSET {"atr", "stacked", "crossed", "above50", "broke",
                          "rising", "below20", "weak20", "diverges", "gap"}]

\* The order in which the registry registers them.
Registered == <<"ma_crossover", "mean_reversion", "breakout", "momentum",
                "short_momentum", "rsi_divergence", "gap_reversal">>

Direction(strategy) == IF strategy = "short_momentum" THEN "SHORT" ELSE "LONG"

\* Fast above slow, an upward cross in the last five bars, RSI at 50 at least.
MACrossover(b) ==
    b.count >= 57 /\ {"stacked", "crossed"} \subseteq b.facts /\ b.rsi >= 50

\* Oversold at the lower band, and not on dead volume.
MeanReversion(b) ==
    b.count >= 25 /\ b.rsi < 32 /\ b.band # "above" /\ b.rvol >= 80

\* A close above the earlier high in the last three bars, still held.
Breakout(b) ==
    b.count >= 25 /\ {"atr", "broke", "above50"} \subseteq b.facts /\ b.rvol >= 130

\* ROC, MACD and the averages rising, above the SMA 50, RSI in its corridor.
Momentum(b) ==
    b.count >= 55 /\ {"rising", "above50"} \subseteq b.facts /\ b.rsi \in 40..75

\* A weak name below its SMA 20, of the only market that is shorted.
ShortMomentum(code, b) ==
    code \notin Foreign /\ b.count >= 30 /\ {"below20", "weak20"} \subseteq b.facts /\ b.rsi \in 25..55

\* A lower low that the RSI does not confirm.
RSIDivergence(b) ==
    b.count >= 30 /\ {"diverges", "below20"} \subseteq b.facts /\ b.rsi <= 50

\* A gap down of two per cent or more, at least half of it recovered.
GapReversal(b) == b.count >= 10 /\ "gap" \in b.facts

Fires(strategy, code, b) ==
    CASE strategy = "ma_crossover"   -> MACrossover(b)
      [] strategy = "mean_reversion" -> MeanReversion(b)
      [] strategy = "breakout"       -> Breakout(b)
      [] strategy = "momentum"       -> Momentum(b)
      [] strategy = "short_momentum" -> ShortMomentum(code, b)
      [] strategy = "rsi_divergence" -> RSIDivergence(b)
      [] strategy = "gap_reversal"   -> GapReversal(b)

Strengths(strategy) ==
    CASE strategy = "ma_crossover"   -> 15..100
      [] strategy = "mean_reversion" -> 50..100
      [] strategy = "breakout"       -> 25..100
      [] strategy = "momentum"       -> 30..100
      [] strategy = "short_momentum" -> 10..100
      [] OTHER                       -> 20..85

-----------------------------------------------------------------------------
(* score_and_rank.  A signal is [code, direction, strength, risk].         *)

Threshold == 30   \* min_score_threshold

SameView(s, t) == s.code = t.code /\ s.direction = t.direction

\* The positions of the signals that agree with signal n, and the first of the
\* strongest among them.
Group(signals, n) == {m \in DOMAIN signals : SameView(signals[m], signals[n])}

Strongest(signals, n) ==
    LET group == Group(signals, n)
    IN CHOOSE m \in group :
         \A k \in group : \/ signals[k].strength < signals[m].strength
                          \/ signals[k].strength = signals[m].strength /\ m <= k

Capped(x, cap) == IF x > cap THEN cap ELSE x

\* Agreement adds 0.2 for each further strategy, 0.4 at most.
Score(signals, n) ==
    Capped(signals[Strongest(signals, n)].strength
             + Capped((Cardinality(Group(signals, n)) - 1) * 20, 40), 100)

\* Groups stand where their first signal stood.
Leaders(signals) ==
    {n \in DOMAIN signals : /\ \A m \in Group(signals, n) : n <= m
                            /\ Score(signals, n) >= Threshold}

\* Variant: the weakest first.
BeforeReversed(signals, m, n) ==
    \/ Score(signals, m) < Score(signals, n)
    \/ Score(signals, m) = Score(signals, n) /\ m < n

\* By score, the highest first; the sort is stable.
Before(signals, m, n) ==
    \/ Score(signals, m) > Score(signals, n)
    \/ Score(signals, m) = Score(signals, n) /\ m < n

UpTo(signals) ==
    [n \in Leaders(signals) |-> {m \in Leaders(signals) : m = n \/ Before(signals, m, n)}]

\* The strongest signal of every group that scores enough, one per ticker.
RankedSignals(signals) ==
    LET sorted   == Ranked(Leaders(signals), UpTo(signals))
        First(n) == \A m \in DOMAIN sorted :
                       signals[sorted[m]].code = signals[sorted[n]].code => n <= m
        chosen   == InOrder({n \in DOMAIN sorted : First(n)})
    IN [n \in DOMAIN chosen |-> signals[Strongest(signals, sorted[chosen[n]])]]

\* What a ranking is for: a ticker appears once and with a signal; its side is
\* one no other side of the ticker outscores, it is left out only if no side
\* scores enough, and the better scored come first.
IsRanking(ranking, signals) ==
    LET Worth(s) == Score(signals, CHOOSE n \in DOMAIN signals : SameView(signals[n], s))
        Enough(s) == Worth(s) >= Threshold
    IN /\ \A m, n \in DOMAIN ranking :
            m < n => /\ ranking[m].code # ranking[n].code
                     /\ Worth(ranking[m]) >= Worth(ranking[n])
       /\ Range(ranking) \subseteq Range(signals)
       /\ \A n \in DOMAIN signals : Enough(signals[n]) =>
            \E m \in DOMAIN ranking : /\ ranking[m].code = signals[n].code
                                      /\ Worth(ranking[m]) >= Worth(signals[n])
=============================================================================
