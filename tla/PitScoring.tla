---------------------------- MODULE PitScoring ----------------------------
(***************************************************************************)
(* fundamental/pit_scoring.py: five factors score a ticker at a past date  *)
(* from the reports published and the closes known by then, and the core   *)
(* basket is chosen from the scores with a turnover and a sector cap.      *)
(* Scores and ratios are thousandths, rounded down; a date is the number   *)
(* of a bar; a close of 0 is a missing one.  data is what the scorer has   *)
(* loaded, which may reach past the date it scores.                        *)
(***************************************************************************)
EXTENDS Integers, SequencesExt, Ranking

CONSTANTS
    Universe,      \* the scored tickers, in the order of the list
    Industry, Sector,
    Statements,    \* ticker -> its annual statements
    Shares,        \* ticker -> shares outstanding today
    PubLag,        \* ANNUAL_PUB_LAG_DAYS
    BasketSize, MaxTurnover, MaxPerSector,
    Lookback,      \* bars of a price series
    MinSeries,     \* a shorter one is no series
    MinTrend,      \* a shorter one has no trend and no stability
    Short, Long, HalfYear,  \* bars of the averages and of relative strength
    Volatility(_), Downside(_)   \* deviations of a series of closes, in thousandths

ASSUME ScoringAssumption ==
    /\ Universe \in Seq(Range(Universe)) /\ IsInjective(Universe)
    /\ \A t \in Range(Universe) :
          /\ t \in DOMAIN Industry /\ t \in DOMAIN Sector
          /\ t \in DOMAIN Statements /\ Shares[t] \in Nat
    /\ \A t \in DOMAIN Statements : Statements[t] \in Seq(Range(Statements[t]))
    /\ {BasketSize, MaxTurnover, MaxPerSector, Short, Long, HalfYear, MinTrend} \subseteq Nat \ {0}
    /\ {MinSeries, Lookback, PubLag} \subseteq Nat

Clamp(x) == Max({0, Min({1000, x})})
Ratio(a, b) == (1000 * a) \div b
Magnitude(x) == IF x < 0 THEN -x ELSE x
Mean(s) == FoldLeft(+, 0, s) \div Len(s)
LastN(s, n) == IF Len(s) >= n THEN SubSeq(s, Len(s) - n + 1, Len(s)) ELSE s

PerMille(a, b) == IF b > 0 THEN Ratio(a, b) ELSE 0

\* A statement as it is cached: its ratios, and the date after which it is public.
Financials(t, s) ==
    [after |-> s.fye + PubLag, revenue |-> s.revenue,
     gross |-> PerMille(s.gross, s.revenue), operating |-> PerMille(s.operating, s.revenue),
     net |-> PerMille(s.net, s.revenue), roe |-> PerMille(s.net, s.equity),
     roa |-> PerMille(s.net, s.assets), kept |-> PerMille(s.net, s.gross),
     eps |-> PerMille(s.net, Shares[t]), rps |-> PerMille(s.revenue, Shares[t])]

\* By the date they are public, ties in the order they were filed.
Reports ==
    [t \in DOMAIN Statements |->
        LET filed == [i \in DOMAIN Statements[t] |-> Financials(t, Statements[t][i])]
            order == Ranked(DOMAIN filed,
                            [i \in DOMAIN filed |->
                                {j \in DOMAIN filed : \/ filed[j].after < filed[i].after
                                                      \/ (filed[j].after = filed[i].after /\ j <= i)}])
        IN  [n \in DOMAIN order |-> filed[order[n]]]]

\* What a scorer has loaded: the closes of each ticker, and its reports.
Loaded(closes, reports) == [closes |-> closes, reports |-> reports]

\* Mutant: without the publication lag
EveryReport(data, t, date) == DOMAIN data.reports[t]

\* The reports available at a date: how many, the latest, the one before, the one before that.
Published(data, t, date) == {n \in DOMAIN data.reports[t] : data.reports[t][n].after <= date}
HasYears(data, t, date, n) == Cardinality(Published(data, t, date)) >= n
Latest(data, t, date, back) ==
    LET known == Published(data, t, date) IN
    data.reports[t][InOrder(known)[Cardinality(known) - back]]

\* The close on the date, or the last one before it; 0 when there is none.
PriceAt(data, t, date) ==
    LET known == {n \in 1..date : data.closes[t][n] > 0} IN
    IF known = {} THEN 0 ELSE data.closes[t][Max(known)]

Traded(closes) == SelectSeq(closes, LAMBDA c : c > 0)

PriceSeries(data, t, date) ==
    LET first == Max({1, date - Lookback}) IN
    Traded([k \in 1..(date - first + 1) |-> data.closes[t][first + k - 1]])

IsSeries(s) == Len(s) > MinSeries

\* Of pairs, by what comes first in them.
Median(s) ==
    LET o == SortSeq(s, LAMBDA a, b : a[1] < b[1]) h == Len(s) \div 2 IN
    IF Len(s) % 2 = 1 THEN o[h + 1][1] ELSE (o[h][1] + o[h + 1][1]) \div 2

\* Price over a figure per share, of the names that have both.
Usable(data, t, date, perShare) ==
    /\ HasYears(data, t, date, 1)
    /\ PriceAt(data, t, date) > 0
    /\ Latest(data, t, date, 0)[perShare] > 0

Multiples(data, names, date, perShare) ==
    SetToSeq({<<Ratio(PriceAt(data, t, date), Latest(data, t, date, 0)[perShare]), t>> :
                 t \in {u \in names : Usable(data, u, date, perShare)}})

Names == Range(Universe)
PeersBy(group, t) == {p \in Names : p # t /\ group[p] = group[t]}

\* Industry peers, or those of the sector when fewer than two have a P/E.
Peers(data, t, date) ==
    IF Len(Multiples(data, PeersBy(Industry, t), date, "eps")) >= 2
    THEN PeersBy(Industry, t)
    ELSE PeersBy(Sector, t)

Relative(own, others) ==
    IF own = <<>> \/ others = <<>> THEN 500
    ELSE IF Median(others) > 0 THEN Clamp(1200 - (700 * own[1][1]) \div Median(others)) ELSE 500

RangeScore(price, s) ==
    LET hi == Max(Range(s)) lo == Min(Range(s)) IN
    IF Len(s) > Short /\ hi > lo THEN Clamp(1000 - Ratio(price - lo, hi - lo)) ELSE 500

ValuationScore(data, t, date) ==
    LET own(perShare) == Multiples(data, {t}, date, perShare)
        peers == Peers(data, t, date)
    IN  IF ~HasYears(data, t, date, 1) \/ PriceAt(data, t, date) = 0 THEN 500
        ELSE (  35 * Relative(own("eps"), Multiples(data, peers, date, "eps"))
              + 25 * Relative(own("rps"), Multiples(data, peers, date, "rps"))
              + 20 * Relative(own("eps"), Multiples(data, Names, date, "eps"))
              + 20 * RangeScore(PriceAt(data, t, date), PriceSeries(data, t, date))) \div 100

QualityScore(data, t, date) ==
    LET r == Latest(data, t, date, 0) IN
    IF ~HasYears(data, t, date, 1) THEN 500
    ELSE (  20 * Clamp(2 * r.gross) + 20 * Clamp((10 * r.operating) \div 3)
          + 15 * Clamp(5 * r.net) + 20 * Clamp(4 * r.roe)
          + 10 * Clamp(10 * r.roa) + 15 * Clamp((5 * r.kept) \div 2)) \div 100

GrowthScore(g) ==
    CASE g < -200 -> 100
      [] g >= -200 /\ g < 0 -> Clamp(300 + g)
      [] g >= 0 /\ g <= 300 -> Clamp(500 + (3 * g) \div 2)
      [] g > 300 -> Clamp(950 - (g - 300) \div 2)

Grew(now, before) == Ratio(now - before, Magnitude(before))

RevisionScore(data, t, date) ==
    LET r      == Latest(data, t, date, 0)
        prev   == Latest(data, t, date, 1)
        prev2  == Latest(data, t, date, 2)
        three  == HasYears(data, t, date, 3)
        trend  == 2 * prev.eps - prev2.eps
        growth == IF prev.eps # 0 THEN GrowthScore(Grew(r.eps, prev.eps)) ELSE 500
        margin == Clamp(500 + 10 * (r.operating - prev.operating))
        accel  == CASE three /\ prev2.revenue > 0 /\ prev.revenue > 0 ->
                         Clamp(500 + 5 * (Grew(r.revenue, prev.revenue)
                                          - Grew(prev.revenue, prev2.revenue)))
                    [] ~(three /\ prev2.revenue > 0) /\ prev.revenue > 0 ->
                         Clamp(500 + (10 * Grew(r.revenue, prev.revenue)) \div 3)
                    [] OTHER -> 500
        beat   == IF three /\ prev.eps # 0 /\ trend > 0
                  THEN Clamp(500 + (10 * Grew(r.eps, trend)) \div 3) ELSE 500
    IN  IF ~HasYears(data, t, date, 2) THEN 500
        ELSE (30 * growth + 25 * margin + 25 * accel + 20 * beat) \div 100

Return(s) == Ratio(Last(s) - s[Len(s) - HalfYear + 1], s[Len(s) - HalfYear + 1])

\* Of the series s of a ticker and m of the benchmark.
TrendOf(s, m) ==
    LET sma   == IF Len(s) >= Short THEN Mean(LastN(s, Short)) ELSE Last(s)
        slow  == IF Len(s) >= Long THEN Mean(LastN(s, Long)) ELSE sma
        ahead == IF IsSeries(m) /\ Len(m) >= HalfYear /\ Len(s) >= HalfYear
                 THEN Clamp(500 + (10 * (Return(s) - Return(m))) \div 3) ELSE 500
    IN  IF ~IsSeries(s) \/ Len(s) < MinTrend THEN 500
        ELSE (  40 * (IF sma > slow THEN 800 ELSE 300)
              + 30 * Clamp(500 + 5 * Ratio(Last(s) - slow, slow)) + 30 * ahead) \div 100

TrendScore(data, t, spy, date) ==
    TrendOf(PriceSeries(data, t, date), PriceSeries(data, spy, date))

Drawdown(s) ==
    Min({0} \union {Ratio(s[p[2]] - s[p[1]], s[p[1]]) :
                       p \in {q \in (2..Len(s)) \X (2..Len(s)) : q[1] <= q[2]}})

StabilityScore(data, t, date) ==
    LET s == PriceSeries(data, t, date) IN
    IF ~IsSeries(s) \/ Len(s) < MinTrend THEN 500
    ELSE (  35 * Clamp(1000 - 4 * (Volatility(s) - 200)) + 35 * Clamp(1000 + 4 * (Drawdown(s) + 100))
          + 30 * Clamp(1000 - 4 * (Downside(s) - 100))) \div 100

\* Weights in percent; those of factors without reports go to the others.
Weights(data, t, date) ==
    CASE ~HasYears(data, t, date, 1) -> <<0, 0, 0, 50, 50>>
      [] ~HasYears(data, t, date, 2) /\ HasYears(data, t, date, 1) -> <<35, 35, 0, 15, 15>>
      [] OTHER -> <<25, 25, 20, 15, 15>>

ScoreTicker(data, t, spy, date) ==
    LET w == Weights(data, t, date) IN
    (  w[1] * ValuationScore(data, t, date) + w[2] * QualityScore(data, t, date)
     + w[3] * RevisionScore(data, t, date) + w[4] * TrendScore(data, t, spy, date)
     + w[5] * StabilityScore(data, t, date)) \div 100

ScoreUniverse(data, spy, date) ==
    {[place |-> n, composite |-> ScoreTicker(data, Universe[n], spy, date),
      priced |-> PriceAt(data, Universe[n], date) > 0] : n \in DOMAIN Universe}

\* Those no worse than one of them, ties in the order of the list.
NoWorse(able) ==
    [s \in able |-> {u \in able : \/ u.composite > s.composite
                                 \/ (u.composite = s.composite /\ u.place <= s.place)}]

\* The tickers above a quarter of the scale, which ends at 1000, with a price; best first.
Eligible(scores) ==
    LET able  == {s \in scores : s.composite \in 251..1000 /\ s.priced}
        order == Ranked(able, NoWorse(able))
    IN  [k \in DOMAIN order |-> Universe[order[k].place]]

\* A basket never names a ticker twice.
OfSector(basket, s) == {t \in Range(basket) : Sector[t] = s}

\* Mutant: one too many
SectorOver(basket, t) == Cardinality(OfSector(basket, Sector[t])) > MaxPerSector

SectorFull(basket, t) == Cardinality(OfSector(basket, Sector[t])) >= MaxPerSector

TakeUnlessFull(basket, t) ==
    IF Len(basket) >= BasketSize \/ SectorFull(basket, t) THEN basket ELSE Append(basket, t)

ApplySectorCap(eligible) == FoldLeft(TakeUnlessFull, <<>>, eligible)

\* A newcomer counts against the turnover even if its sector is full.
Consider(acc, t, prev) ==
    LET new == t \notin Range(prev)
        n   == IF new THEN acc.changes + 1 ELSE acc.changes
    IN  IF Len(acc.basket) >= BasketSize \/ t \in Range(acc.basket) THEN acc
        ELSE [basket  |-> IF (new /\ n > MaxTurnover) \/ SectorFull(acc.basket, t) THEN acc.basket
                          ELSE Append(acc.basket, t),
              changes |-> n]

\* Names of the previous basket stay while they are in the top 2N, whatever their sector.
Staying(eligible, prev) ==
    LET top == {eligible[n] : n \in {m \in DOMAIN eligible : m <= 2 * BasketSize}} IN
    AtPositions(prev, {n \in DOMAIN prev : prev[n] \in top})

NextBasket(eligible, prev) ==
    IF prev = <<>> THEN ApplySectorCap(eligible)
    ELSE FoldLeft(LAMBDA acc, t : Consider(acc, t, prev),
                  [basket |-> Staying(eligible, prev), changes |-> 0], eligible).basket

SelectCoreBasket(scores, prev) == NextBasket(Eligible(scores), prev)

=============================================================================
