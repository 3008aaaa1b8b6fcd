--------------------------- MODULE EntryScanProofs ---------------------------
(* What holds of the trader's entries for any symbols, charts, tiers,        *)
(* balances and bounds: by how much a cycle passes the exposure cap, that    *)
(* what it bought is in the journal, and that its own counts are right.      *)
EXTENDS EntryScan, DataTheorems, SequenceTheorems

Entry == [code : Symbols, signal : Signals]

-----------------------------------------------------------------------------
(* The rules                                                                 *)

LEMMA Numbers ==
    /\ {MaxOpenTrades, MinScore, MaxRows, MaxMishaps} \subseteq Nat
    /\ Balances \subseteq Nat /\ Pnls \subseteq Int
    /\ Sector \in [Symbols -> STRING] /\ Lot \in [Symbols -> Nat \ {0}]
    /\ \A c \in Symbols : Charts[c] \subseteq Bars
    /\ Tiers \in Seq(Tier) /\ Tiers # <<>>
  BY ScanAssumption, Zenon

LEMMA SymbolsFinite ==
    /\ IsFiniteSet(Symbols)
    /\ \A c \in Symbols : \E n \in DOMAIN Codes : Codes[n] = c
<1>1. Codes \in Seq(STRING)
  BY ScanAssumption, Zenon
<1>2. DOMAIN Codes = 1..Len(Codes) /\ Len(Codes) \in Nat
  BY <1>1
<1>3. Codes \in [DOMAIN Codes -> Symbols]
  BY <1>1 DEF Symbols, Range
<1>4. \A c \in Symbols : \E n \in DOMAIN Codes : Codes[n] = c
  BY DEF Symbols, Range
<1>5. Codes \in Surjection(DOMAIN Codes, Symbols)
  BY <1>3, <1>4 DEF Surjection
<1>6. IsFiniteSet(DOMAIN Codes)
  BY <1>2, FS_Interval
<1> QED
  BY <1>4, <1>5, <1>6, FS_Surjection

LEMMA ClampedIsInt ==
    ASSUME NEW x \in Int, NEW lo \in Int, NEW hi \in Int, lo <= hi
    PROVE  Clamped(x, lo, hi) \in lo..hi
  BY DEF Clamped, Greatest, Least

(* The strategies say nothing or give a signal in whole numbers. *)
LEMMA CrossoverType == ASSUME NEW b \in Bars PROVE MACrossover(b) \in Signals \union {NoSignal}
<1> DEFINE trend == IF CrossUp(b) THEN 1000 ELSE IF Approaching(b) THEN 500 ELSE 600
           score == (4 * Least((b.rsi - 50) * 40, 1000) + 3 * Least(b.rvol * 5, 1000) + 3 * trend) \div 10
<1>1. b.rsi \in Int /\ b.rvol \in Int /\ b.sma50 \in Int /\ b.atr \in Int /\ b.close \in Int
  BY DEF Bars
<1>2. trend \in Int
  OBVIOUS
<1>3. score \in Int
  <2> HIDE DEF trend
  <2> QED
    BY <1>1, <1>2 DEF Least
<1>4. Clamped(score, 100, 1000) \in Int
  <2> HIDE DEF score
  <2> QED
    BY <1>3, ClampedIsInt
<1>5. b.sma50 - b.atr \div 2 \in Int
  BY <1>1
<1> HIDE DEF trend
<1>6. MACrossover(b) = NoSignal
        \/ MACrossover(b) = Signal("ma_crossover", Clamped(score, 100, 1000), b.close, b.sma50 - b.atr \div 2)
  BY DEF MACrossover, trend
<1> HIDE DEF score
<1> QED
  BY <1>1, <1>4, <1>5, <1>6 DEF Signal, Signals

LEMMA ReversionType == ASSUME NEW b \in Bars PROVE MeanReversion(b) \in Signals \union {NoSignal}
<1> DEFINE depth == (1000 * Greatest(38 - b.rsi, 0)) \div 38
           bonus == IF Bouncing(b) THEN 150 ELSE 0
<1>1. b.rsi \in Int /\ b.atr \in Int /\ b.close \in Int
  BY DEF Bars
<1>2. bonus \in Int /\ depth \in Int
  BY <1>1 DEF Greatest
<1> HIDE DEF depth, bonus
<1>3. Least(350 + depth + bonus, 900) \in Int
  BY <1>2 DEF Least
<1>4. b.close - (3 * b.atr) \div 2 \in Int
  BY <1>1
<1>5. MeanReversion(b) = NoSignal
        \/ MeanReversion(b) = Signal("mean_reversion", Least(350 + depth + bonus, 900), b.close,
                                     b.close - (3 * b.atr) \div 2)
  BY DEF MeanReversion, depth, bonus
<1> QED
  BY <1>1, <1>3, <1>4, <1>5 DEF Signal, Signals

LEMMA BreakoutType == ASSUME NEW b \in Bars PROVE Breakout(b) \in Signals \union {NoSignal}
<1> DEFINE reach == Least((40000 * (b.close - b.resistance)) \div b.resistance, 1000)
           score == (Least((b.rvol * 10) \div 3, 1000) + reach) \div 2
<1>1. b.rvol \in Int /\ b.atr \in Int /\ b.close \in Int /\ b.resistance \in Nat /\ b.resistance > 0
  BY DEF Bars
<1>2. reach \in Int
  BY <1>1 DEF Least
<1>3. score \in Int
  <2> HIDE DEF reach
  <2> QED
    BY <1>1, <1>2 DEF Least
<1>4. Clamped(score, 200, 1000) \in Int
  <2> HIDE DEF score
  <2> QED
    BY <1>3, ClampedIsInt
<1> HIDE DEF reach
<1>5. Breakout(b) = NoSignal
        \/ Breakout(b) = Signal("breakout", Clamped(score, 200, 1000), b.close, b.resistance - b.atr)
  BY DEF Breakout, reach
<1> HIDE DEF score
<1> QED
  BY <1>1, <1>4, <1>5 DEF Signal, Signals

LEMMA AdjustmentBounds ==
    ASSUME NEW record
    PROVE  Adjustment(record).score \in Int /\ Adjustment(record).size \in 60..120
  BY DEF Adjustment

LEMMA AdjustedType == ASSUME NEW s \in Signals PROVE Adjusted(s) \in Signals
<1>1. Adjustment(known[s.strategy]).score \in Int
  BY AdjustmentBounds
<1>2. s.score \in Int
  BY DEF Signals
<1>3. Clamped(s.score + Adjustment(known[s.strategy]).score, 50, 1000) \in Int
  <2>1. s.score + Adjustment(known[s.strategy]).score \in Int
    BY <1>1, <1>2
  <2> QED
    BY <2>1 DEF Clamped, Greatest, Least
<1> QED
  BY <1>3 DEF Adjusted, Signals

LEMMA SignalsType ==
    ASSUME NEW chart \in Bars, NEW today
    PROVE  /\ SignalsOf(chart, today) \subseteq [place : 1..3, signal : Signals]
           /\ IsFiniteSet(SignalsOf(chart, today))
<1> DEFINE all == AllSignals(chart)
           places == {m \in DOMAIN all : /\ Usable(chart) /\ all[m] # NoSignal
                                         /\ all[m].strategy \in RegimeConfig[today.regime].strategies
                                         /\ Adjusted(all[m]).score >= MinScore}
           found == {[place |-> n, signal |-> Adjusted(all[n])] : n \in places}
<1>1. DOMAIN all = 1..3 /\ \A n \in 1..3 : all[n] \in Signals \union {NoSignal}
  BY CrossoverType, ReversionType, BreakoutType DEF AllSignals
<1>2. SignalsOf(chart, today) = found
  BY DEF SignalsOf
<1> HIDE DEF all
<1>3. places \subseteq 1..3 /\ \A n \in places : Adjusted(all[n]) \in Signals
  BY <1>1, AdjustedType
<1>4. IsFiniteSet(places)
  <2> HIDE DEF places
  <2>1. \A k \in Nat : IsFiniteSet(1..k)
    BY FS_Interval
  <2> QED
    BY <1>3, <2>1, FS_Subset
<1> HIDE DEF places
<1>5. IsFiniteSet(found)
  <2> DEFINE image == [n \in places |-> [place |-> n, signal |-> Adjusted(all[n])]]
  <2>1. image \in Surjection(places, found)
    BY DEF Surjection
  <2> QED
    BY <1>4, <2>1, FS_Surjection
<1> QED
  BY <1>2, <1>3, <1>5

LEMMA BestIsOne ==
    ASSUME NEW signals, signals \subseteq [place : 1..3, signal : Signals], IsFiniteSet(signals), signals # {}
    PROVE  Best(signals) \in signals
<1> DEFINE score == [s \in signals |-> s.signal.score]
           later == [s \in signals |-> 0 - s.place]
<1>1. \A s \in signals : s.place \in Int /\ s.signal.score \in Int
  BY DEF Signals
<1>2. PICK top \in signals : \A s \in signals : score[s] <= score[top]
  <2>1. \A s \in signals : score[s] \in Int
    BY <1>1
  <2> HIDE DEF score
  <2> QED
    BY <2>1, HighestExists
<1> DEFINE tied == {s \in signals : s.signal.score = top.signal.score}
<1>3. PICK first \in tied : \A s \in tied : later[s] <= later[first]
  <2>1. top \in tied /\ IsFiniteSet(tied) /\ \A s \in tied : later[s] \in Int
    <3>1. tied \subseteq signals
      OBVIOUS
    <3> QED
      BY <1>1, <3>1, FS_Subset
  <2> HIDE DEF tied, later
  <2> QED
    BY <2>1, HighestExists
<1>4. \A t \in signals :
         \/ t.signal.score < first.signal.score
         \/ t.signal.score = first.signal.score /\ first.place <= t.place
  BY <1>1, <1>2, <1>3
<1>5. first \in signals
  BY <1>3
<1> QED
  BY <1>4, <1>5 DEF Best

(* The ranking lists entries of the symbols it was given. *)
LEMMA RankingType ==
    ASSUME NEW charts, \A c \in Symbols : charts[c] \in Charts[c],
           NEW scanned \in SUBSET Symbols, NEW today
    PROVE  RankedSignals(charts, scanned, today) \in Seq(Entry)
<1> DEFINE place(c) == CHOOSE n \in DOMAIN Codes : Codes[n] = c
           named == {d \in scanned : SignalsOf(charts[d], today) # {}}
           entry(c) == [code |-> c, signal |-> Best(SignalsOf(charts[c], today)).signal]
           found == {entry(c) : c \in named}
           Before(e, f) == \/ e.signal.score > f.signal.score
                           \/ e.signal.score = f.signal.score /\ place(e.code) < place(f.code)
           upto == [e \in found |-> {f \in found : f = e \/ Before(f, e)}]
<1>1. \A c \in named : c \in Symbols /\ entry(c) \in Entry
  <2> SUFFICES ASSUME NEW c \in named PROVE c \in Symbols /\ entry(c) \in Entry
    OBVIOUS
  <2>1. c \in Symbols /\ charts[c] \in Bars
    BY Numbers
  <2> DEFINE signals == SignalsOf(charts[c], today)
  <2>2. signals \subseteq [place : 1..3, signal : Signals] /\ IsFiniteSet(signals) /\ signals # {}
    BY <2>1, SignalsType
  <2>3. Best(signals) \in [place : 1..3, signal : Signals]
    <3> HIDE DEF signals
    <3> QED
      BY <2>2, BestIsOne
  <2>4. Best(signals).signal \in Signals
    BY <2>3
  <2> QED
    BY <2>1, <2>4 DEF Entry
<1>2. IsFiniteSet(named)
  <2>1. named \subseteq Symbols
    OBVIOUS
  <2> HIDE DEF named
  <2> QED
    BY <2>1, SymbolsFinite, FS_Subset
<1> HIDE DEF named
<1>3. found \subseteq Entry /\ IsFiniteSet(found)
  <2>1. found \subseteq Entry
    BY <1>1
  <2> DEFINE image == [c \in named |-> entry(c)]
  <2>2. image \in Surjection(named, found)
    BY DEF Surjection
  <2> HIDE DEF image, found
  <2> QED
    BY <1>2, <2>1, <2>2, FS_Surjection
<1>4. \A e, f \in found : e.code = f.code => e = f
  OBVIOUS
<1>5. \A e \in found : place(e.code) \in Nat /\ Codes[place(e.code)] = e.code /\ e.signal.score \in Int
  <2>1. \A n \in DOMAIN Codes : n \in Nat
    <3>1. Codes \in Seq(STRING)
      BY ScanAssumption, Zenon
    <3> QED
      BY <3>1
  <2>2. \A e \in found : e.code \in Symbols /\ e.signal \in Signals
    BY <1>3 DEF Entry
  <2> HIDE DEF found
  <2> QED
    BY <2>1, <2>2, SymbolsFinite DEF Signals
<1> HIDE DEF found, entry, place
<1>6. \A e, f \in found : e = f \/ Before(e, f) \/ Before(f, e)
  BY <1>4, <1>5
<1>7. \A e, f \in found : ~ (Before(e, f) /\ Before(f, e))
  BY <1>5
<1>8. \A e, f, g \in found : Before(e, f) /\ Before(f, g) => Before(e, g)
  BY <1>5
<1> HIDE DEF Before
<1>9. \A e \in found : upto[e] \in SUBSET found /\ e \in upto[e]
  OBVIOUS
<1>10. \A e, f \in found : upto[e] \subseteq upto[f] \/ upto[f] \subseteq upto[e]
  BY <1>6, <1>8
<1>11. \A e, f \in found : e \in upto[f] /\ f \in upto[e] => e = f
  BY <1>7
<1>12. Ranked(found, upto) \in Bijection(1..Cardinality(found), found)
  <2> HIDE DEF upto
  <2> QED
    BY <1>3, <1>9, <1>10, <1>11, RankedIsBijection
<1>13. RankedSignals(charts, scanned, today) = Ranked(found, upto)
  BY DEF RankedSignals, found, named, entry, place, Before
<1>14. Cardinality(found) \in Nat
  BY <1>3, FS_CardinalityType
<1>15. Ranked(found, upto) \in [1..Cardinality(found) -> found]
  <2> HIDE DEF upto
  <2> QED
    BY <1>12 DEF Bijection, Injection
<1> QED
  BY <1>3, <1>13, <1>14, <1>15

(* The regime of the day, and a VIX that is a number. *)
LEMMA DayType ==
    ASSUME NEW market \in Markets, regime \in Day \union {Never}
    PROVE  RegimeOf(market) \in Day
<1> DEFINE quotes == market.quotes
<1>1. quotes[1] \in Nat /\ quotes[2] \in Nat /\ quotes[3] \in Nat
  BY ScanAssumption
<1>2. \A x \in Nat : x > 20 => Compressed(x) \in Nat
  <2> TAKE x \in Nat
  <2> HAVE x > 20
  <2> DEFINE roots == {n \in 1 .. x - 20 : \A m \in 1..n : m ^ 10 <= (x - 20) ^ 7}
  <2>1. Cardinality(roots) \in Nat
    <3>1. x - 20 \in Nat
      OBVIOUS
    <3>2. roots \subseteq 1 .. x - 20 /\ IsFiniteSet(1 .. x - 20)
      BY <3>1, FS_Interval
    <3> HIDE DEF roots
    <3> QED
      BY <3>2, FS_Subset, FS_CardinalityType
  <2>2. Compressed(x) = 20 + Cardinality(roots) + (IF Cardinality(roots) >= 5 THEN 1 ELSE 0)
    BY DEF Compressed
  <2> HIDE DEF roots
  <2> QED
    BY <2>1, <2>2
<1>3. Deleveraged(quotes[3]) \in Nat
  BY <1>1 DEF Deleveraged
<1> HIDE DEF quotes
<1>4. Volatility(quotes) \in Nat
  BY <1>1, <1>2, <1>3 DEF Volatility
<1>5. Regime(market.spy, quotes) \in Day
  BY <1>4 DEF Regime, Day
<1> QED
  BY <1>5 DEF RegimeOf, quotes

(* What a quotient is good for, and that a smaller factor gives less. *)
LEMMA Divided ==
    ASSUME NEW a \in Int, NEW b \in Nat, b > 0
    PROVE  /\ a \div b \in Int /\ (a \div b) * b <= a
           /\ a \in Nat => a \div b \in Nat
<1>1. a \div b \in Int /\ a % b \in 0..(b - 1) /\ a = b * (a \div b) + (a % b)
  OBVIOUS
<1>2. (a \div b) * b = b * (a \div b)
  BY <1>1
<1>3. (a \div b) * b <= a
  BY <1>1, <1>2
<1>4. a \in Nat => a \div b \in Nat
  BY <1>1
<1> QED
  BY <1>1, <1>3, <1>4

LEMMA Scaled ==
    ASSUME NEW a \in Nat, NEW m \in Nat, NEW n \in Nat, m <= n
    PROVE  a * m \in Nat /\ a * m <= a * n
  OBVIOUS

LEMMA Percent ==
    ASSUME NEW a \in Nat, NEW m \in Nat, m <= 100
    PROVE  (a * m) \div 100 \in Nat /\ (a * m) \div 100 <= a
<1>1. a * m \in Nat /\ a * m <= a * 100
  BY Scaled
<1> QED
  BY <1>1

LEMMA TierType == ASSUME NEW balance \in Nat PROVE TierOf(Tiers, balance) \in Tier
<1> DEFINE reached == {n \in DOMAIN Tiers : balance >= Tiers[n].trigger}
           self == [n \in DOMAIN Tiers |-> n]
<1>1. /\ DOMAIN Tiers = 1..Len(Tiers) /\ Len(Tiers) \in Nat /\ 1 \in DOMAIN Tiers
      /\ \A n \in DOMAIN Tiers : n \in Nat /\ Tiers[n] \in Tier
  BY Numbers
<1>2. ASSUME reached # {}
      PROVE  \E n \in reached : \A m \in reached : m <= n
  <2>1. IsFiniteSet(reached)
    <3>1. IsFiniteSet(DOMAIN Tiers)
      BY <1>1, FS_Interval
    <3> QED
      BY <3>1, FS_Subset
  <2>2. \A n \in reached : self[n] = n /\ n \in Int
    BY <1>1
  <2> HIDE DEF reached, self
  <2>3. \A n \in reached : self[n] \in Int
    BY <2>2
  <2>4. PICK n \in reached : \A m \in reached : self[m] <= self[n]
    BY <1>2, <2>1, <2>3, HighestExists
  <2> QED
    BY <2>2, <2>4
<1>3. CASE reached = {}
  BY <1>1, <1>3 DEF TierOf
<1>4. CASE reached # {}
  <2>1. (CHOOSE n \in reached : \A m \in reached : m <= n) \in reached
    BY <1>2, <1>4
  <2> QED
    BY <1>1, <1>4, <2>1 DEF TierOf
<1> QED
  BY <1>3, <1>4

LEMMA CapType ==
    ASSUME NEW tier \in Tier, NEW balance \in Nat
    PROVE  /\ WorkingCapital(tier, balance) \in Nat
           /\ PositionCap(tier, balance) \in Nat
           /\ balance = 0 => PositionCap(tier, balance) = 0
<1>1. tier.trigger \in Nat /\ tier.keep \in Nat /\ tier.pct \in Nat /\ tier.usd \in Nat
  BY DEF Tier
<1>2. WorkingCapital(tier, balance) \in Nat /\ (balance = 0 => WorkingCapital(tier, balance) = 0)
  <2>1. CASE balance <= tier.trigger
    BY <2>1 DEF WorkingCapital
  <2>2. CASE ~ (balance <= tier.trigger)
    <3>1. balance - tier.trigger \in Nat
      BY <1>1, <2>2
    <3>2. (balance - tier.trigger) * tier.keep \in Nat
      BY <1>1, <3>1
    <3>3. ((balance - tier.trigger) * tier.keep) \div 100 \in Nat
      BY <3>2
    <3> QED
      BY <1>1, <2>2, <3>3 DEF WorkingCapital
  <2> QED
    BY <2>1, <2>2
<1>3. PICK w \in Nat : w = WorkingCapital(tier, balance)
  BY <1>2
<1>4. w * tier.pct \in Nat /\ (w = 0 => w * tier.pct = 0)
  BY <1>1
<1>5. (w * tier.pct) \div 100 \in Nat /\ (w = 0 => (w * tier.pct) \div 100 = 0)
  BY <1>4
<1> QED
  BY <1>1, <1>2, <1>3, <1>5 DEF PositionCap, Least

(* The budget of an entry is at most a fifth above the cap of its tier. *)
LEMMA BudgetBounded ==
    ASSUME NEW tier \in Tier, NEW balance \in Nat, NEW size \in 60..120, NEW today \in Day
    PROVE  /\ Budget(tier, balance, size, today) \in Nat
           /\ 100 * Budget(tier, balance, size, today) <= 120 * PositionCap(tier, balance)
<1>1. PICK cap \in Nat : cap = PositionCap(tier, balance)
  BY CapType
<1>2. PICK learned : learned = (cap * size) \div 100
  OBVIOUS
<1>3. learned \in Nat /\ 100 * learned <= 120 * cap
  <2>1. cap * size \in Nat /\ cap * size <= cap * 120
    BY Scaled
  <2> QED
    BY <1>2, <2>1
<1>4. VixScale(today.vix) \in 0..100
  <2>1. today.vix \in Nat
    BY DEF Day
  <2>2. CASE today.vix > 0
    <3>1. PICK quotient \in Int : quotient = 2000 \div today.vix
      BY <2>1, <2>2, Divided
    <3>2. Clamped(quotient, 40, 100) \in 40..100
      BY DEF Clamped, Greatest, Least
    <3> QED
      BY <2>2, <3>1, <3>2 DEF VixScale
  <2>3. CASE ~ (today.vix > 0)
    BY <2>3 DEF VixScale
  <2> QED
    BY <2>2, <2>3
<1>5. PICK scaled : scaled = (learned * VixScale(today.vix)) \div 100
  OBVIOUS
<1>6. scaled \in Nat /\ scaled <= learned
  BY <1>3, <1>4, <1>5, Percent
<1>7. RegimeConfig[today.regime].size \in {50, 75, 100}
  BY DEF RegimeConfig, Day
<1>8. PICK budget : budget = (scaled * RegimeConfig[today.regime].size) \div 100
  OBVIOUS
<1>9. budget \in Nat /\ budget <= scaled
  BY <1>6, <1>7, <1>8, Percent
<1>10. Budget(tier, balance, size, today) = budget
  BY <1>1, <1>2, <1>5, <1>8 DEF Budget
<1> QED
  BY <1>1, <1>3, <1>6, <1>9, <1>10

InBudget(shares, signal, tier, balance) ==
    /\ shares * signal.entry \in Nat
    /\ 100 * (shares * signal.entry) <= 120 * PositionCap(tier, balance)
    /\ balance > 0

LEMMA CostBounded ==
    ASSUME NEW tier \in Tier, NEW balance \in Nat, NEW size \in 60..120, NEW today \in Day,
           NEW signal \in Signals, NEW lot \in Nat, lot > 0,
           NEW shares, shares = RoundedToLot(Quantity(signal, tier, balance, size, today), lot),
           shares > 0
    PROVE  InBudget(shares, signal, tier, balance)
<1>1. PICK budget \in Nat : /\ budget = Budget(tier, balance, size, today)
                            /\ 100 * budget <= 120 * PositionCap(tier, balance)
  BY BudgetBounded
<1>2. PICK price \in Int : price = signal.entry
  BY DEF Signals
<1>3. PICK risk \in Nat : risk = Gap(signal.entry, signal.stop)
  BY DEF Gap, Signals
<1>4. PICK quantity : quantity = Quantity(signal, tier, balance, size, today)
  OBVIOUS
<1>5. price > 0
  <2> SUFFICES ASSUME price <= 0 PROVE FALSE
    BY <1>2
  <2>1. quantity = 0
    BY <1>2, <1>4 DEF Quantity
  <2>2. 0 \div lot = 0
    BY Divided
  <2> QED
    BY <1>4, <2>1, <2>2 DEF RoundedToLot
<1>6. PICK bought \in Nat : bought = budget \div price /\ bought * price <= budget
  BY <1>1, <1>5, Divided
<1>7. quantity \in Int /\ quantity <= bought
  <2>1. CASE signal.stop > 0 /\ risk > 0
    <3>1. PICK lost : lost = (WorkingCapital(tier, balance) * tier.risk) \div (1000 * risk)
      OBVIOUS
    <3>2. lost \in Int
      <4>1. WorkingCapital(tier, balance) * tier.risk \in Int
        <5>1. tier.risk \in Int
          BY DEF Tier
        <5> QED
          BY <5>1, CapType
      <4>2. 1000 * risk \in Nat /\ 1000 * risk > 0
        BY <2>1
      <4> QED
        BY <3>1, <4>1, <4>2, Divided
    <3>3. quantity = Least(bought, lost)
      BY <1>1, <1>2, <1>3, <1>4, <1>5, <1>6, <2>1, <3>1 DEF Quantity
    <3> QED
      BY <3>2, <3>3 DEF Least
  <2>2. CASE ~ (signal.stop > 0 /\ risk > 0)
    BY <1>1, <1>2, <1>3, <1>4, <1>5, <1>6, <2>2 DEF Quantity
  <2> QED
    BY <2>1, <2>2
<1>8. shares \in Int /\ shares <= quantity
  <2>1. shares = (quantity \div lot) * lot
    BY <1>4 DEF RoundedToLot
  <2>2. quantity \div lot \in Int /\ (quantity \div lot) * lot <= quantity
    BY <1>7, Divided
  <2> QED
    BY <2>1, <2>2
<1>9. shares \in Nat /\ shares <= bought
  BY <1>7, <1>8
<1>10. price * shares \in Nat /\ price * shares <= price * bought
  BY <1>5, <1>9, Scaled
<1>11. shares * price = price * shares /\ bought * price = price * bought
  BY <1>9
<1>12. shares * price \in Nat /\ shares * price <= budget
  BY <1>6, <1>10, <1>11
<1>13. balance > 0
  <2> SUFFICES ASSUME balance = 0 PROVE FALSE
    OBVIOUS
  <2>1. budget = 0
    BY <1>1, CapType
  <2>2. price * shares >= 1 * shares
    BY <1>5, <1>9
  <2> QED
    BY <1>9, <1>11, <1>12, <2>1, <2>2
<1>14. PICK cost \in Nat : cost = shares * price
  BY <1>12
<1>15. PICK cap \in Nat : cap = PositionCap(tier, balance)
  BY CapType
<1>16. 100 * cost <= 120 * cap
  BY <1>1, <1>12, <1>14, <1>15
<1> QED
  BY <1>2, <1>13, <1>14, <1>15, <1>16 DEF InBudget

-----------------------------------------------------------------------------
(* The inductive invariant                                                   *)

\* What the plan counted by hand is what the journal has. Between cycles
\* there is none; a fill not booked yet is of a sector with room.
PlanOK ==
    IF pc \in {"enter", "book"}
    THEN /\ plan.sectors = [s \in Range(Sector) |-> SectorCount(rows, s)]
         /\ plan.open + plan.placed = Cardinality(OpenRows(rows))
         /\ pc = "book" => ~ Crowded(Sector[fill.code])
    ELSE plan = NoPlan

\* While signals are left or something was entered, the account is above the
\* cap by what was entered only.
RoomOK ==
    pc \in {"enter", "book"} /\ (plan.queue # <<>> \/ Entered > 0) =>
      /\ plan.balance > 0 =>
           100 * Gross < ExposureCap(plan.today) * plan.balance
                           + 120 * Entered * PositionCap(TierNow, plan.balance)
      /\ Entered > 0 => plan.balance > 0

\* What the account holds without a row is what was just filled, but for one
\* symbol each time the work was cut short.
Pending(code) == IF pc = "book" /\ fill.code = code THEN fill.value ELSE 0
Astray    == {c \in Symbols : held[c] # ValueOf(rows, c) + Pending(c)}
TrackedOK == Cardinality(Astray) <= mishaps

IInv == TypeOK /\ PlanOK /\ RoomOK /\ TrackedOK

-----------------------------------------------------------------------------
(* The journal                                                               *)

LEMMA JournalType ==
    ASSUME NEW r \in Seq(Row)
    PROVE  /\ Len(r) \in Nat /\ DOMAIN r = 1..Len(r) /\ \A i \in DOMAIN r : r[i] \in Row
           /\ OpenRows(r) \subseteq DOMAIN r /\ IsFiniteSet(DOMAIN r)
           /\ \A S \in SUBSET DOMAIN r : /\ IsFiniteSet(S) /\ Cardinality(S) \in Nat
                                         /\ Worth(r, S) \in Int
<1>1. Len(r) \in Nat /\ DOMAIN r = 1..Len(r) /\ \A i \in DOMAIN r : r[i] \in Row
  OBVIOUS
<1>2. OpenRows(r) \subseteq DOMAIN r
  BY DEF OpenRows
<1>3. IsFiniteSet(DOMAIN r)
  BY <1>1, FS_Interval
<1>4. ASSUME NEW S \in SUBSET DOMAIN r
      PROVE  IsFiniteSet(S) /\ Cardinality(S) \in Nat /\ Worth(r, S) \in Int
  <2>1. IsFiniteSet(S)
    BY <1>3, FS_Subset
  <2> DEFINE value == [i \in DOMAIN r |-> r[i].value]
  <2>2. \A i \in S : value[i] \in Int
    BY <1>1 DEF Row
  <2>3. SumFunctionOnSet(value, S) \in Int
    <3> HIDE DEF value
    <3> QED
      BY <2>1, <2>2, SumType
  <2> QED
    BY <2>1, <2>3, FS_CardinalityType DEF Worth
<1> QED
  BY <1>1, <1>2, <1>3, <1>4

LEMMA FunctionIsSeq == \A T : \A n \in Nat : \A q \in [1..n -> T] : q \in Seq(T) /\ Len(q) = n
  OBVIOUS

LEMMA RowParts ==
    /\ \A f \in Row : f.value \in Int /\ f.code \in Symbols
    /\ \A r \in Seq(Row) : \A i \in DOMAIN r : r[i].value \in Int /\ r[i].code \in Symbols
<1>1. \A f \in Row : f.value \in Int /\ f.code \in Symbols
  BY DEF Row
<1>2. \A r \in Seq(Row) : \A i \in DOMAIN r : r[i] \in Row
  OBVIOUS
<1> QED
  BY <1>1, <1>2

LEMMA ValueType ==
    ASSUME NEW r \in Seq(Row), NEW c
    PROVE  ValueOf(r, c) \in Int
<1>1. {i \in OpenRows(r) : r[i].code = c} \subseteq DOMAIN r
  BY JournalType
<1> QED
  BY <1>1, JournalType DEF ValueOf

(* An open row more: one more of its sector, and its value for its symbol. *)
OneRowMore(r, f, r2) ==
    /\ r2 \in Seq(Row) /\ Len(r2) = Len(r) + 1 /\ r2[Len(r2)] = f
    /\ Cardinality(OpenRows(r2)) = Cardinality(OpenRows(r)) + 1
    /\ \A s : SectorCount(r2, s) = SectorCount(r, s) + (IF Sector[f.code] = s THEN 1 ELSE 0)
    /\ \A c : ValueOf(r2, c) = ValueOf(r, c) + (IF f.code = c THEN f.value ELSE 0)

LEMMA RowAppended ==
    ASSUME NEW r \in Seq(Row), NEW f \in Row, f.status = "OPEN", NEW r2, r2 = Append(r, f)
    PROVE  OneRowMore(r, f, r2)
<1>1. PICK n : n = Len(r) + 1
  OBVIOUS
<1>2. /\ r2 \in Seq(Row) /\ Len(r2) = n /\ r2[n] = f /\ DOMAIN r2 = DOMAIN r \union {n}
      /\ n \notin DOMAIN r /\ \A i \in DOMAIN r : r2[i] = r[i]
  BY <1>1
<1>3. OpenRows(r2) = OpenRows(r) \union {n} /\ n \notin OpenRows(r) /\ OpenRows(r) \subseteq DOMAIN r
  BY <1>2 DEF OpenRows
<1>4. \A S \in SUBSET DOMAIN r : IsFiniteSet(S) /\ Cardinality(S) \in Nat /\ Worth(r, S) \in Int
  BY JournalType
<1>5. Cardinality(OpenRows(r2)) = Cardinality(OpenRows(r)) + 1
  BY <1>3, <1>4, FS_AddElement
<1>6. ASSUME NEW s
      PROVE  SectorCount(r2, s) = SectorCount(r, s) + (IF Sector[f.code] = s THEN 1 ELSE 0)
  <2>1. PICK T : T = {i \in OpenRows(r) : Sector[r[i].code] = s}
    OBVIOUS
  <2>2. T \in SUBSET DOMAIN r /\ n \notin T /\ SectorCount(r, s) = Cardinality(T)
    BY <1>3, <2>1 DEF SectorCount
  <2>3. PICK U : U = {i \in OpenRows(r2) : Sector[r2[i].code] = s}
    OBVIOUS
  <2>4. U = T \union (IF Sector[f.code] = s THEN {n} ELSE {})
    BY <1>2, <1>3, <2>1, <2>3
  <2>5. SectorCount(r2, s) = Cardinality(U)
    BY <2>3 DEF SectorCount
  <2>6. Cardinality(T \union {n}) = Cardinality(T) + 1 /\ Cardinality(T) \in Nat
    BY <1>4, <2>2, FS_AddElement
  <2>7. CASE Sector[f.code] = s
    <3>1. Cardinality(U) = Cardinality(T) + 1
      BY <2>4, <2>6, <2>7
    <3> QED
      BY <2>2, <2>5, <2>7, <3>1
  <2>8. CASE Sector[f.code] # s
    <3>1. U = T
      BY <2>4, <2>8
    <3> QED
      BY <2>2, <2>5, <2>6, <2>8, <3>1
  <2> QED
    BY <2>7, <2>8
<1>7. ASSUME NEW c
      PROVE  ValueOf(r2, c) = ValueOf(r, c) + (IF f.code = c THEN f.value ELSE 0)
  <2> DEFINE value  == [i \in DOMAIN r |-> r[i].value]
             value2 == [i \in DOMAIN r2 |-> r2[i].value]
  <2>1. PICK T : T = {i \in OpenRows(r) : r[i].code = c}
    OBVIOUS
  <2>2. T \in SUBSET DOMAIN r /\ n \notin T /\ ValueOf(r, c) = SumFunctionOnSet(value, T)
    BY <1>3, <2>1 DEF ValueOf, Worth
  <2>3. PICK U : U = {i \in OpenRows(r2) : r2[i].code = c}
    OBVIOUS
  <2>4. U = T \union (IF f.code = c THEN {n} ELSE {}) /\ ValueOf(r2, c) = SumFunctionOnSet(value2, U)
    BY <1>2, <1>3, <2>1, <2>3 DEF ValueOf, Worth
  <2>5. /\ IsFiniteSet(T) /\ value2[n] = f.value /\ f.value \in Int
        /\ \A i \in T : value[i] \in Int /\ value2[i] = value[i]
    <3>1. \A i \in DOMAIN r : r[i].value \in Int
      BY RowParts
    <3>2. f.value \in Int
      BY RowParts
    <3> QED
      BY <1>2, <1>4, <2>2, <3>1, <3>2
  <2> HIDE DEF value, value2
  <2>6. SumFunctionOnSet(value2, T) = SumFunctionOnSet(value, T) /\ SumFunctionOnSet(value, T) \in Int
    BY <2>5, SumRestricted, SumType
  <2>7. IsFiniteSet(T) /\ n \notin T /\ \A i \in T \union {n} : value2[i] \in Int
    BY <2>2, <2>5
  <2>8. SumFunctionOnSet(value2, T \union {n}) = SumFunctionOnSet(value2, T) + value2[n]
    BY <2>7, SumAdd
  <2>9. CASE f.code = c
    BY <2>2, <2>4, <2>5, <2>6, <2>8, <2>9
  <2>10. CASE f.code # c
    BY <2>2, <2>4, <2>6, <2>10
  <2> QED
    BY <2>9, <2>10
<1> QED
  BY <1>1, <1>2, <1>5, <1>6, <1>7 DEF OneRowMore

(* Rows closed: they are open no longer, and what they were worth is gone. *)
RowsFewer(r, S, r2) ==
    /\ r2 \in Seq(Row) /\ Len(r2) = Len(r)
    /\ \A c : ValueOf(r, c) = ValueOf(r2, c) + Worth(r, {i \in S : r[i].code = c})

LEMMA RowsClosed ==
    ASSUME NEW r \in Seq(Row), NEW S \in SUBSET OpenRows(r), NEW pnl \in [S -> Int],
           NEW r2, r2 = [i \in DOMAIN r |->
                           IF i \in S THEN [r[i] EXCEPT !.status = "CLOSED", !.pnl = pnl[i]] ELSE r[i]]
    PROVE  RowsFewer(r, S, r2)
<1>1. /\ Len(r) \in Nat /\ DOMAIN r = 1..Len(r) /\ \A i \in DOMAIN r : r[i] \in Row
      /\ S \subseteq DOMAIN r
  BY JournalType
<1>2. \A i \in DOMAIN r : r2[i] \in Row /\ r2[i].code = r[i].code /\ r2[i].value = r[i].value
  <2>1. \A i \in S : [r[i] EXCEPT !.status = "CLOSED", !.pnl = pnl[i]] \in Row
    BY <1>1 DEF Row
  <2>2. \A i \in S : r2[i].code = r[i].code /\ r2[i].value = r[i].value
    BY <1>1 DEF Row
  <2> QED
    BY <1>1, <2>1, <2>2
<1>3. PICK n \in Nat : n = Len(r) /\ DOMAIN r = 1..n
  BY <1>1
<1>4. r2 \in Seq(Row) /\ Len(r2) = Len(r) /\ DOMAIN r2 = DOMAIN r
  <2>1. r2 \in [1..n -> Row]
    BY <1>2, <1>3
  <2>2. r2 \in Seq(Row) /\ Len(r2) = n
    BY ONLY <1>3, <2>1, FunctionIsSeq
  <2> QED
    BY <1>3, <2>1, <2>2
<1>5. OpenRows(r2) = OpenRows(r) \ S
  <2>1. \A i \in S : r2[i].status = "CLOSED"
    BY <1>1 DEF Row
  <2>2. \A i \in DOMAIN r \ S : r2[i] = r[i]
    OBVIOUS
  <2> QED
    BY <1>1, <1>4, <2>1, <2>2 DEF OpenRows
<1>6. ASSUME NEW c
      PROVE  ValueOf(r, c) = ValueOf(r2, c) + Worth(r, {i \in S : r[i].code = c})
  <2> DEFINE value  == [i \in DOMAIN r |-> r[i].value]
             value2 == [i \in DOMAIN r2 |-> r2[i].value]
  <2>1. PICK T, U, C : /\ T = {i \in OpenRows(r) : r[i].code = c}
                       /\ U = {i \in OpenRows(r2) : r2[i].code = c}
                       /\ C = {i \in S : r[i].code = c}
    OBVIOUS
  <2>2. T \subseteq DOMAIN r /\ T = U \union C /\ (\A i \in C : i \notin U)
    BY <1>1, <1>2, <1>5, <2>1, JournalType
  <2>3. /\ ValueOf(r, c) = SumFunctionOnSet(value, T)
        /\ ValueOf(r2, c) = SumFunctionOnSet(value2, U)
        /\ Worth(r, {i \in S : r[i].code = c}) = SumFunctionOnSet(value, C)
    BY <2>1 DEF ValueOf, Worth
  <2>4. /\ IsFiniteSet(U) /\ IsFiniteSet(C)
        /\ \A i \in T : value[i] \in Int
        /\ \A i \in U : value2[i] = value[i]
    <3>1. \A i \in DOMAIN r : r[i].value \in Int
      BY RowParts
    <3>2. IsFiniteSet(U) /\ IsFiniteSet(C)
      BY <2>2, JournalType
    <3> QED
      BY <1>2, <1>4, <2>2, <3>1, <3>2
  <2> HIDE DEF value, value2
  <2>5. SumFunctionOnSet(value2, U) = SumFunctionOnSet(value, U)
    BY <2>2, <2>4, SumRestricted
  <2>6. \A i \in U \union C : value[i] \in Int
    BY <2>2, <2>4
  <2>7. SumFunctionOnSet(value, U \union C) = SumFunctionOnSet(value, U) + SumFunctionOnSet(value, C)
    BY <2>2, <2>4, <2>6, SumSplit
  <2> QED
    BY <2>2, <2>3, <2>5, <2>7
<1> QED
  BY <1>4, <1>6, Zenon DEF RowsFewer

-----------------------------------------------------------------------------
(* What the invariant says of one state                                      *)

LEMMA Typed ==
    ASSUME TypeOK
    PROVE  /\ rows \in Seq(Row) /\ held \in [Symbols -> Int] /\ mishaps \in Nat
           /\ regime \in Day \union {Never} /\ plan \in Plan
           /\ plan.queue \in Seq(Entry) /\ plan.today \in Day
           /\ plan.balance \in Nat /\ plan.open \in Nat /\ plan.placed \in Nat
  BY Zenon DEF TypeOK, Plan, Entry

LEMMA GrossType == ASSUME TypeOK PROVE Gross = SumFunctionOnSet(held, Symbols) /\ Gross \in Int
<1>1. held \in [Symbols -> Int]
  BY Typed
<1>2. DOMAIN held = Symbols /\ \A c \in Symbols : held[c] \in Int
  BY <1>1
<1>3. SumFunctionOnSet(held, Symbols) \in Int
  BY <1>2, SymbolsFinite, SumType
<1> QED
  BY <1>2, <1>3 DEF Gross, SumFunction

LEMMA CapNow ==
    ASSUME TypeOK
    PROVE  /\ TierNow \in Tier /\ PositionCap(TierNow, plan.balance) \in Nat
           /\ ExposureCap(plan.today) * plan.balance \in Nat
<1>1. TierNow \in Tier
  BY Typed, TierType DEF TierNow
<1>2. ExposureCap(plan.today) \in Nat
  BY Typed DEF ExposureCap, RegimeConfig, Day, Least
<1>3. ExposureCap(plan.today) * plan.balance \in Nat
  BY <1>2, Typed
<1> QED
  BY <1>1, <1>3, Typed, CapType

LEMMA NoPlanType == NoPlan \in Plan
<1>1. <<>> \in Seq([code : Symbols, signal : Signals])
  OBVIOUS
<1> QED
  BY <1>1 DEF NoPlan, Plan, Day

LEMMA AstrayFinite == IsFiniteSet(Astray) /\ Cardinality(Astray) \in Nat
<1>1. Astray \subseteq Symbols
  BY DEF Astray
<1> QED
  BY <1>1, SymbolsFinite, FS_Subset, FS_CardinalityType

-----------------------------------------------------------------------------
(* Every step keeps the invariant                                            *)

LEMMA InitIsOK == ASSUME Init PROVE IInv
<1>1. TypeOK
  <2>1. rows \in Seq(Row)
    BY DEF Init
  <2>2. held \in [Symbols -> Int]
    BY DEF Init
  <2> QED
    BY <2>1, <2>2, NoPlanType DEF Init, TypeOK
<1>2. PlanOK /\ RoomOK
  BY DEF Init, PlanOK, RoomOK
<1>3. Astray = {}
  <2>1. \A c : ValueOf(rows, c) = 0
    <3>1. \A c : {i \in OpenRows(rows) : rows[i].code = c} = {}
      BY DEF Init, OpenRows
    <3> QED
      BY <3>1, SumEmpty DEF ValueOf, Worth
  <2> QED
    BY <2>1 DEF Init, Astray, Pending
<1> QED
  BY <1>1, <1>2, <1>3, FS_EmptySet DEF IInv, TrackedOK, TypeOK

(* A pass that closes rows: at the start of a cycle, or near a close.        *)
LEMMA ClosingKeeps ==
    ASSUME IInv, NEW S \in SUBSET OpenRows(rows), NEW pnl \in [S -> Pnls],
           BeginCycle(S, pnl) \/ Flatten(S, pnl)
    PROVE  IInv'
<1>1. TypeOK /\ PlanOK /\ TrackedOK /\ pc \in {"idle", "open"}
  BY DEF IInv, BeginCycle, Flatten
<1>2. PICK r \in Seq(Row) : r = rows
  BY <1>1, Typed
<1>3. PICK r2 : r2 = rows'
  OBVIOUS
<1>4. r2 = [i \in DOMAIN r |->
              IF i \in S THEN [r[i] EXCEPT !.status = "CLOSED", !.pnl = pnl[i]] ELSE r[i]]
  BY <1>2, <1>3 DEF BeginCycle, Flatten, CloseRows
<1>5. /\ r2 \in Seq(Row)
      /\ \A c : ValueOf(r, c) = ValueOf(r2, c) + Worth(r, {i \in S : r[i].code = c})
  <2>1. pnl \in [S -> Int]
    BY Numbers
  <2>2. S \in SUBSET OpenRows(r)
    BY <1>2
  <2>3. RowsFewer(r, S, r2)
    BY <1>4, <2>1, <2>2, RowsClosed
  <2> QED
    BY <2>3, Zenon DEF RowsFewer
<1>6. PICK h \in [Symbols -> Int] : h = held
  BY <1>1, Typed
<1>7. PICK h2 : h2 = held'
  OBVIOUS
<1>8. h2 = [c \in Symbols |-> h[c] - Worth(r, {i \in S : r[i].code = c})]
  BY <1>2, <1>6, <1>7 DEF BeginCycle, Flatten, CloseRows
<1>9. /\ \A c : ValueOf(r, c) \in Int /\ ValueOf(r2, c) \in Int
      /\ \A c : Worth(r, {i \in S : r[i].code = c}) \in Int
  <2>1. \A c : {i \in S : r[i].code = c} \in SUBSET DOMAIN r
    BY <1>2, JournalType
  <2> QED
    BY <1>5, <2>1, JournalType, ValueType
<1>10. h2 \in [Symbols -> Int] /\ \A c \in Symbols : h[c] = ValueOf(r, c) <=> h2[c] = ValueOf(r2, c)
  <2> DEFINE Sold(c) == Worth(r, {i \in S : r[i].code = c})
  <2>1. \A c \in Symbols : h2[c] = h[c] - Sold(c)
    BY <1>8
  <2>2. \A c : ValueOf(r, c) = ValueOf(r2, c) + Sold(c) /\ Sold(c) \in Int
    BY <1>5, <1>9, Zenon
  <2>3. h2 = [c \in Symbols |-> h[c] - Sold(c)]
    BY <1>8, Zenon
  <2> HIDE DEF Sold
  <2> QED
    BY <1>9, <2>1, <2>2, <2>3
<1>11. pc' \in {"open", "learn"} /\ regime' = regime /\ plan' = plan /\ mishaps' = mishaps
  BY DEF BeginCycle, Flatten
<1>12. TypeOK'
  BY <1>1, <1>3, <1>5, <1>7, <1>10, <1>11 DEF TypeOK
<1>13. PlanOK' /\ RoomOK'
  BY <1>1, <1>11 DEF PlanOK, RoomOK
<1>14. Astray' = Astray
  <2>1. Astray = {c \in Symbols : h[c] # ValueOf(r, c)}
    BY <1>1, <1>2, <1>6, <1>9 DEF Astray, Pending
  <2>2. Astray' = {c \in Symbols : h2[c] # ValueOf(r2, c)}
    BY <1>3, <1>7, <1>9, <1>11 DEF Astray, Pending
  <2> QED
    BY <1>10, <2>1, <2>2
<1> QED
  BY <1>1, <1>11, <1>12, <1>13, <1>14 DEF IInv, TrackedOK

LEMMA LearnKeeps == ASSUME IInv, Learn PROVE IInv'
<1>1. /\ TypeOK /\ PlanOK /\ TrackedOK /\ pc = "learn" /\ pc' = "open"
      /\ rows' = rows /\ held' = held /\ regime' = regime /\ plan' = plan /\ mishaps' = mishaps
  BY DEF IInv, Learn
<1>2. TypeOK'
  BY <1>1 DEF TypeOK
<1>3. PlanOK' /\ RoomOK'
  BY <1>1 DEF PlanOK, RoomOK
<1>4. Astray' = Astray
  BY <1>1 DEF Astray, Pending
<1> QED
  BY <1>1, <1>2, <1>3, <1>4 DEF IInv, TrackedOK

(* Whatever ends a cycle forgets the plan, and at most the row it had not    *)
(* written yet.                                                              *)
LEMMA GoIdleKeeps ==
    ASSUME IInv, GoIdle, UNCHANGED <<rows, held>>, regime' \in Day \union {Never},
           \/ mishaps' = mishaps /\ pc # "book"
           \/ mishaps' = mishaps + 1
    PROVE  IInv'
<1>1. TypeOK /\ TrackedOK /\ pc' = "idle" /\ plan' = NoPlan /\ rows' = rows /\ held' = held
  BY DEF IInv, GoIdle
<1>2. mishaps \in Nat /\ mishaps' \in Nat
  BY <1>1, Typed
<1>3. TypeOK'
  BY <1>1, <1>2, NoPlanType DEF TypeOK
<1>4. PlanOK' /\ RoomOK'
  BY <1>1 DEF PlanOK, RoomOK
<1>5. Astray' = {c \in Symbols : held[c] # ValueOf(rows, c)}
  <2>1. \A c : ValueOf(rows, c) + 0 = ValueOf(rows, c)
    BY <1>1, Typed, ValueType
  <2> QED
    BY <1>1, <2>1 DEF Astray, Pending
<1>6. CASE pc # "book"
  <2>1. Astray' = Astray
    <3>1. \A c : ValueOf(rows, c) + 0 = ValueOf(rows, c)
      BY <1>1, Typed, ValueType
    <3> QED
      BY <1>5, <1>6, <3>1 DEF Astray, Pending
  <2> QED
    BY <1>1, <1>2, <1>3, <1>4, <2>1, AstrayFinite DEF IInv, TrackedOK
<1>7. CASE pc = "book"
  <2>1. Astray' \subseteq Astray \union {fill.code}
    <3>1. \A c : ValueOf(rows, c) + 0 = ValueOf(rows, c)
      BY <1>1, Typed, ValueType
    <3> QED
      BY <1>5, <3>1 DEF Astray, Pending
  <2>2. PICK A, B, x : A = Astray /\ B = Astray' /\ x = fill.code
    OBVIOUS
  <2>3. IsFiniteSet(A) /\ Cardinality(A) \in Nat
    BY <2>2, AstrayFinite
  <2>4. Cardinality(B) \in Nat /\ Cardinality(B) <= Cardinality(A) + 1
    <3>1. /\ IsFiniteSet(A \union {x})
          /\ Cardinality(A \union {x}) = IF x \in A THEN Cardinality(A) ELSE Cardinality(A) + 1
      BY <2>3, FS_AddElement
    <3>2. B \subseteq A \union {x}
      BY <2>1, <2>2
    <3>3. Cardinality(B) <= Cardinality(A \union {x}) /\ Cardinality(B) \in Nat
      BY <3>1, <3>2, FS_Subset, FS_CardinalityType
    <3> QED
      BY <2>3, <3>1, <3>3
  <2>5. TrackedOK'
    BY <1>1, <1>2, <1>7, <2>2, <2>3, <2>4 DEF TrackedOK
  <2> QED
    BY <1>3, <1>4, <2>5 DEF IInv
<1> QED
  BY <1>6, <1>7

LEMMA NextDayKeeps == ASSUME IInv, NextDay PROVE IInv'
<1>1. /\ TypeOK /\ PlanOK /\ RoomOK /\ TrackedOK /\ pc' = pc /\ fill' = fill
      /\ rows' = rows /\ held' = held /\ regime' = Never /\ plan' = plan /\ mishaps' = mishaps
  BY DEF IInv, NextDay
<1>2. TypeOK'
  BY <1>1 DEF TypeOK
<1>3. PlanOK'
  BY <1>1 DEF PlanOK, Crowded
<1>4. RoomOK'
  BY <1>1 DEF RoomOK, Entered, TierNow, Gross
<1>5. TrackedOK'
  BY <1>1 DEF TrackedOK, Astray, Pending
<1> QED
  BY <1>2, <1>3, <1>4, <1>5 DEF IInv

LEMMA StutterKeeps == ASSUME IInv, UNCHANGED vars PROVE IInv'
<1>1. /\ TypeOK /\ PlanOK /\ RoomOK /\ TrackedOK /\ pc' = pc /\ fill' = fill
      /\ rows' = rows /\ held' = held /\ regime' = regime /\ plan' = plan /\ mishaps' = mishaps
  BY DEF IInv, vars
<1>2. TypeOK'
  BY <1>1 DEF TypeOK
<1>3. PlanOK'
  BY <1>1 DEF PlanOK, Crowded
<1>4. RoomOK'
  BY <1>1 DEF RoomOK, Entered, TierNow, Gross
<1>5. TrackedOK'
  BY <1>1 DEF TrackedOK, Astray, Pending
<1> QED
  BY <1>2, <1>3, <1>4, <1>5 DEF IInv

LEMMA CountsAreNat ==
    ASSUME TypeOK
    PROVE  /\ Cardinality(OpenRows(rows)) \in Nat
           /\ \A s : SectorCount(rows, s) \in Nat
<1>1. \A s : {i \in OpenRows(rows) : Sector[rows[i].code] = s} \in SUBSET DOMAIN rows
  BY DEF OpenRows
<1>2. OpenRows(rows) \in SUBSET DOMAIN rows
  BY DEF OpenRows
<1> QED
  BY <1>1, <1>2, Typed, JournalType DEF SectorCount

LEMMA ScanKeeps ==
    ASSUME IInv, NEW charts, \A c \in Symbols : charts[c] \in Charts[c], NEW market \in Markets,
           NEW balance \in Balances, NEW core \in Core, Scan(charts, market, balance, core)
    PROVE  IInv'
<1>1. /\ TypeOK /\ TrackedOK /\ PlanOK /\ pc = "open" /\ pc' = "enter"
      /\ rows' = rows /\ held' = held /\ mishaps' = mishaps
  BY DEF IInv, Scan
<1>2. PICK day \in Day : day = regime'
  BY <1>1, Typed, DayType DEF Scan
<1>3. PICK queue \in Seq(Entry) :
         /\ queue = IF CanTrade(day, balance)
                    THEN RankedSignals(charts, Symbols \ (OpenCodes(rows) \cup core), day) ELSE <<>>
         /\ queue # <<>> => CanTrade(day, balance)
  <2>1. PICK list : list = RankedSignals(charts, Symbols \ (OpenCodes(rows) \cup core), day)
    OBVIOUS
  <2>2. list \in Seq(Entry)
    BY <2>1, RankingType
  <2>3. <<>> \in Seq(Entry)
    OBVIOUS
  <2> QED
    BY <2>1, <2>2, <2>3
<1>4. plan' = [queue |-> queue, today |-> day, balance |-> balance,
               open |-> Cardinality(OpenRows(rows)),
               sectors |-> [s \in Range(Sector) |-> SectorCount(rows, s)], placed |-> 0]
  BY <1>2, <1>3, Zenon DEF Scan, Planned
<1>5. balance \in Nat
  BY Numbers
<1>6. plan' \in Plan
  <2>1. [s \in Range(Sector) |-> SectorCount(rows, s)] \in [Range(Sector) -> Nat]
    BY <1>1, CountsAreNat
  <2>2. Cardinality(OpenRows(rows)) \in Nat
    BY <1>1, CountsAreNat
  <2>3. queue \in Seq([code : Symbols, signal : Signals])
    BY DEF Entry
  <2> QED
    BY <1>4, <1>5, <2>1, <2>2, <2>3 DEF Plan
<1>7. TypeOK'
  BY <1>1, <1>2, <1>6 DEF TypeOK
<1>8. PlanOK'
  <2>1. plan'.open = Cardinality(OpenRows(rows)) /\ plan'.placed = 0
    BY <1>4
  <2>2. plan'.open + plan'.placed = Cardinality(OpenRows(rows))
    BY <1>1, <2>1, CountsAreNat
  <2>3. plan'.sectors = [s \in Range(Sector) |-> SectorCount(rows, s)]
    BY <1>4
  <2> QED
    BY <1>1, <2>2, <2>3 DEF PlanOK
<1>9. RoomOK'
  <2>1. /\ plan'.queue = queue /\ plan'.today = day /\ plan'.balance = balance /\ plan'.placed = 0
        /\ Entered' = 0
    BY <1>1, <1>4 DEF Entered
  <2>2. PICK cap \in Nat : cap = PositionCap(TierNow, plan.balance)'
    <3>1. TierNow' = TierOf(Tiers, balance)
      BY <2>1 DEF TierNow
    <3>2. PositionCap(TierOf(Tiers, balance), balance) \in Nat
      BY <1>5, TierType, CapType
    <3> QED
      BY <2>1, <3>1, <3>2
  <2>3. Gross' = Gross
    BY <1>1 DEF Gross
  <2>4. queue # <<>> /\ balance > 0 => 100 * Gross < ExposureCap(day) * balance
    BY <1>3 DEF CanTrade
  <2>5. ExposureCap(day) * balance \in Nat
    <3>1. ExposureCap(day) \in Nat
      BY DEF ExposureCap, RegimeConfig, Day, Least
    <3> QED
      BY <1>5, <3>1
  <2>6. 120 * 0 * cap = 0
    OBVIOUS
  <2>7. PICK room \in Nat : room = ExposureCap(day) * balance
    BY <2>5
  <2>8. room + 120 * 0 * cap = room
    BY <2>6
  <2>9. queue # <<>> /\ balance > 0 => 100 * Gross' < room + 120 * 0 * cap
    BY <2>3, <2>4, <2>7, <2>8
  <2>10. queue # <<>> /\ balance > 0 =>
           100 * Gross' < ExposureCap(day) * balance + 120 * Entered' * PositionCap(TierNow, plan.balance)'
    BY <2>1, <2>2, <2>7, <2>9
  <2> QED
    BY <2>1, <2>10 DEF RoomOK
<1>10. Astray' = Astray
  BY <1>1 DEF Astray, Pending
<1> QED
  BY <1>1, <1>7, <1>8, <1>9, <1>10 DEF IInv, TrackedOK

LEMMA SkipKeeps == ASSUME IInv, Skip PROVE IInv'
<1>1. /\ TypeOK /\ PlanOK /\ RoomOK /\ TrackedOK /\ pc = "enter" /\ pc' = "enter"
      /\ rows' = rows /\ held' = held /\ regime' = regime /\ fill' = fill /\ mishaps' = mishaps
      /\ plan.queue # <<>> /\ plan' = [plan EXCEPT !.queue = Tail(@)]
  BY DEF IInv, Skip, Passed
<1>2. /\ plan' \in Plan /\ plan'.today = plan.today /\ plan'.balance = plan.balance
      /\ plan'.open = plan.open /\ plan'.placed = plan.placed /\ plan'.sectors = plan.sectors
  <2>1. plan \in Plan /\ Tail(plan.queue) \in Seq([code : Symbols, signal : Signals])
    BY <1>1, Typed DEF Entry
  <2> QED
    BY <1>1, <2>1 DEF Plan
<1>3. TypeOK'
  BY <1>1, <1>2 DEF TypeOK
<1>4. PlanOK'
  BY <1>1, <1>2 DEF PlanOK
<1>5. RoomOK'
  BY <1>1, <1>2 DEF RoomOK, Entered, TierNow, Gross
<1>6. TrackedOK'
  BY <1>1 DEF TrackedOK, Astray, Pending
<1> QED
  BY <1>3, <1>4, <1>5, <1>6 DEF IInv

(* What one entry adds to the account. *)
LEMMA EntryCost ==
    ASSUME IInv, Enter, NEW entry, entry = Head(plan.queue)
    PROVE  /\ entry \in Entry
           /\ \E cost \in Nat : /\ cost = Shares(entry) * entry.signal.entry
                                /\ 100 * cost <= 120 * PositionCap(TierNow, plan.balance)
           /\ plan.balance > 0
<1>1. TypeOK /\ plan.queue # <<>> /\ plan.queue \in Seq(Entry)
  BY Typed DEF IInv, Enter
<1>2. entry \in Entry
  BY <1>1
<1>3. PICK tier \in Tier : tier = TierNow
  BY <1>1, CapNow
<1>4. PICK balance \in Nat : balance = plan.balance
  BY <1>1, Typed
<1>5. PICK today \in Day : today = plan.today
  BY <1>1, Typed
<1>6. PICK size \in 60..120 : size = Adjustment(known[entry.signal.strategy]).size
  BY AdjustmentBounds
<1>7. PICK signal \in Signals : signal = entry.signal
  BY <1>2 DEF Entry
<1>8. PICK lot \in Nat : lot > 0 /\ lot = Lot[entry.code]
  BY <1>2, Numbers DEF Entry
<1>9. PICK shares : shares = Shares(entry)
  OBVIOUS
<1>10. shares > 0
  BY <1>9 DEF Enter, Wanted
<1>11. shares = RoundedToLot(Quantity(signal, tier, balance, size, today), lot)
  BY <1>3, <1>4, <1>5, <1>6, <1>7, <1>8, <1>9 DEF Shares
<1>12. /\ shares * signal.entry \in Nat
       /\ 100 * (shares * signal.entry) <= 120 * PositionCap(tier, balance)
       /\ balance > 0
  <2>1. InBudget(shares, signal, tier, balance)
    BY <1>8, <1>10, <1>11, CostBounded
  <2> QED
    BY <2>1 DEF InBudget
<1> QED
  BY <1>2, <1>3, <1>4, <1>7, <1>9, <1>12

LEMMA EnterKeeps == ASSUME IInv, Enter PROVE IInv'
<1>1. /\ TypeOK /\ PlanOK /\ RoomOK /\ TrackedOK /\ pc = "enter" /\ pc' = "book"
      /\ rows' = rows /\ regime' = regime /\ plan' = plan /\ mishaps' = mishaps
      /\ plan.queue # <<>>
  BY DEF IInv, Enter, files
<1>2. PICK entry : entry = Head(plan.queue)
  OBVIOUS
<1>3. PICK cost \in Nat : /\ cost = Shares(entry) * entry.signal.entry
                          /\ 100 * cost <= 120 * PositionCap(TierNow, plan.balance)
  BY <1>2, EntryCost
<1>4. entry.code \in Symbols /\ entry.signal.strategy \in StrategyNames /\ plan.balance > 0
  <2>1. entry \in Entry /\ plan.balance > 0
    BY <1>2, EntryCost
  <2> QED
    BY <2>1 DEF Entry, Signals, StrategyNames
<1>5. /\ ~ Crowded(Sector[entry.code])
      /\ held' = [held EXCEPT ![entry.code] = @ + cost]
      /\ fill' = [code |-> entry.code, strategy |-> entry.signal.strategy,
                  value |-> cost, status |-> "OPEN", pnl |-> 0]
  BY <1>2, <1>3 DEF Enter, Wanted
<1>6. held \in [Symbols -> Int]
  BY <1>1, Typed
<1>7. TypeOK'
  <2>1. held' \in [Symbols -> Int]
    BY <1>3, <1>4, <1>5, <1>6
  <2>2. fill' \in Row /\ fill'.status = "OPEN"
    BY <1>3, <1>4, <1>5 DEF Row
  <2> QED
    BY <1>1, <2>1, <2>2 DEF TypeOK
<1>8. PlanOK'
  <2>1. fill'.code = entry.code
    BY <1>5
  <2>2. Crowded(Sector[entry.code])' = Crowded(Sector[entry.code])
    BY <1>1 DEF Crowded
  <2>3. Crowded(Sector[fill.code])' = Crowded(Sector[entry.code])'
    BY <2>1 DEF Crowded
  <2> QED
    BY <1>1, <1>5, <2>2, <2>3 DEF PlanOK
<1>9. Gross' = Gross + cost
  <2>1. PICK h, h2, code : h = held /\ h2 = held' /\ code = entry.code
    OBVIOUS
  <2>2. h \in [Symbols -> Int] /\ code \in Symbols /\ h2 = [h EXCEPT ![code] = @ + cost]
    BY <1>4, <1>5, <1>6, <2>1
  <2>3. /\ \A c \in Symbols : h[c] \in Int
        /\ h2[code] = h[code] + cost /\ h2[code] \in Int
        /\ \A c \in Symbols : c # code => h2[c] = h[c]
        /\ DOMAIN h = Symbols /\ DOMAIN h2 = Symbols
    BY <1>3, <2>2
  <2>4. SumFunctionOnSet(h2, Symbols) = SumFunctionOnSet(h, Symbols) + h2[code] - h[code]
    <3>1. IsFiniteSet(Symbols)
      BY SymbolsFinite
    <3>2. h2[code] \in Int /\ (\A c \in Symbols : h[c] \in Int) /\ code \in Symbols
      BY <2>2, <2>3
    <3>3. \A c \in Symbols : c # code => h2[c] = h[c]
      BY <2>3
    <3> QED
      BY <3>1, <3>2, <3>3, SumChanged
  <2>5. SumFunctionOnSet(h, Symbols) \in Int
    BY <2>3, SymbolsFinite, SumType
  <2>6. SumFunctionOnSet(h2, Symbols) = SumFunctionOnSet(h, Symbols) + cost
    <3>1. h[code] \in Int
      BY <2>2, <2>3
    <3> QED
      BY <1>3, <2>3, <2>4, <2>5, <3>1
  <2>7. Gross = SumFunctionOnSet(h, Symbols) /\ Gross' = SumFunctionOnSet(h2, Symbols)
    BY <2>1, <2>3 DEF Gross, SumFunction
  <2> QED
    BY <2>6, <2>7
<1>10. RoomOK'
  <2>1. PICK cap \in Nat : cap = PositionCap(TierNow, plan.balance)
    BY <1>1, CapNow
  <2>2. PICK room \in Nat : room = ExposureCap(plan.today) * plan.balance
    BY <1>1, CapNow
  <2>3. PICK gross \in Int : gross = Gross
    BY <1>1, GrossType
  <2>4. PICK n \in Nat : n = plan.placed
    BY <1>1, Typed
  <2>5. Entered = n /\ Entered' = n + 1
    BY <1>1, <2>4 DEF Entered
  <2>6. 100 * gross < room + 120 * n * cap
    BY <1>1, <1>4, <2>1, <2>2, <2>3, <2>5 DEF RoomOK
  <2>7. 120 * (n + 1) * cap = 120 * n * cap + 120 * cap /\ 120 * n * cap \in Nat
    OBVIOUS
  <2>8. 100 * cost <= 120 * cap
    BY <1>3, <2>1
  <2>9. 100 * (gross + cost) < room + 120 * (n + 1) * cap
    BY <1>3, <2>6, <2>7, <2>8
  <2>10. Gross' = gross + cost /\ TierNow' = TierNow
    BY <1>1, <1>9, <2>3 DEF TierNow
  <2>11. 100 * Gross' < ExposureCap(plan.today)' * plan.balance' + 120 * Entered' * PositionCap(TierNow, plan.balance)'
    BY <1>1, <2>1, <2>2, <2>5, <2>9, <2>10
  <2> QED
    BY <1>1, <1>4, <2>11 DEF RoomOK
<1>11. Astray' = Astray
  <2>1. \A c \in Symbols : held[c] \in Int /\ ValueOf(rows, c) \in Int
    BY <1>1, <1>6, Typed, ValueType
  <2>2. \A c \in Symbols : held'[c] = held[c] + (IF c = entry.code THEN cost ELSE 0)
    BY <1>3, <1>5, <1>6
  <2>3. \A c \in Symbols : Pending(c)' = (IF c = entry.code THEN cost ELSE 0) /\ Pending(c) = 0
    BY <1>1, <1>5 DEF Pending
  <2>4. \A c \in Symbols : held[c] # ValueOf(rows, c) + 0 <=> held'[c] # ValueOf(rows, c) + Pending(c)'
    BY <1>3, <2>1, <2>2, <2>3
  <2> QED
    BY <1>1, <2>3, <2>4 DEF Astray
<1> QED
  BY <1>1, <1>7, <1>8, <1>10, <1>11 DEF IInv, TrackedOK

LEMMA BookKeeps == ASSUME IInv, Book PROVE IInv'
<1>1. /\ TypeOK /\ PlanOK /\ RoomOK /\ TrackedOK /\ pc = "book" /\ pc' = "enter"
      /\ rows' = Append(rows, fill) /\ held' = held /\ regime' = regime /\ mishaps' = mishaps
      /\ plan.queue # <<>>
      /\ plan' = [Passed EXCEPT !.placed = @ + 1, !.sectors[Sector[fill.code]] = @ + 1]
  BY DEF IInv, Book, TypeOK
<1>2. PICK r \in Seq(Row) : r = rows
  BY <1>1, Typed
<1>3. PICK f \in Row : f = fill /\ f.status = "OPEN"
  BY <1>1 DEF TypeOK
<1>4. PICK r2 : r2 = rows' /\ r2 = Append(r, f)
  BY <1>1, <1>2, <1>3
<1>5. /\ r2 \in Seq(Row) /\ Cardinality(OpenRows(r2)) = Cardinality(OpenRows(r)) + 1
      /\ \A s : SectorCount(r2, s) = SectorCount(r, s) + (IF Sector[f.code] = s THEN 1 ELSE 0)
      /\ \A c : ValueOf(r2, c) = ValueOf(r, c) + (IF f.code = c THEN f.value ELSE 0)
  <2>1. OneRowMore(r, f, r2)
    BY <1>3, <1>4, RowAppended
  <2> QED
    BY <2>1 DEF OneRowMore
<1>6. PICK sector : sector = Sector[f.code] /\ sector \in Range(Sector)
  <2>1. f.code \in Symbols
    BY RowParts
  <2> QED
    BY <2>1, Numbers DEF Range
<1>7. PICK counts : counts = plan.sectors /\ counts = [s \in Range(Sector) |-> SectorCount(r, s)]
  BY <1>1, <1>2 DEF PlanOK
<1>8. counts \in [Range(Sector) -> Nat]
  BY <1>1, <1>2, <1>7, CountsAreNat
<1>9. /\ plan' \in Plan /\ plan'.today = plan.today /\ plan'.balance = plan.balance
      /\ plan'.open = plan.open /\ plan'.placed = plan.placed + 1
      /\ plan'.sectors = [counts EXCEPT ![sector] = @ + 1]
  <2>1. plan \in Plan /\ Tail(plan.queue) \in Seq([code : Symbols, signal : Signals])
    BY <1>1, Typed DEF Entry
  <2>2. PICK passed : passed = Passed
    OBVIOUS
  <2>3. /\ passed \in Plan /\ passed.today = plan.today /\ passed.balance = plan.balance
        /\ passed.open = plan.open /\ passed.placed = plan.placed /\ passed.sectors = counts
    BY <1>7, <2>1, <2>2 DEF Plan, Passed
  <2>4. plan' = [passed EXCEPT !.placed = @ + 1, !.sectors[sector] = @ + 1]
    BY <1>1, <1>3, <1>6, <2>2
  <2>5. [counts EXCEPT ![sector] = @ + 1] \in [Range(Sector) -> Nat]
    BY <1>6, <1>8
  <2>6. /\ plan'.today = passed.today /\ plan'.balance = passed.balance /\ plan'.open = passed.open
        /\ plan'.placed = passed.placed + 1 /\ plan'.sectors = [passed.sectors EXCEPT ![sector] = @ + 1]
    BY <2>3, <2>4 DEF Plan
  <2>7. plan' \in Plan
    <3>1. passed.placed + 1 \in Nat
      BY <2>3 DEF Plan
    <3> QED
      BY <2>3, <2>4, <2>5, <3>1 DEF Plan
  <2> QED
    BY <2>3, <2>6, <2>7
<1>10. TypeOK'
  BY <1>1, <1>4, <1>5, <1>9 DEF TypeOK
<1>11. PlanOK'
  <2>1. plan'.sectors = [s \in Range(Sector) |-> SectorCount(r2, s)]
    <3>1. \A s \in Range(Sector) : SectorCount(r2, s) = [counts EXCEPT ![sector] = @ + 1][s]
      BY <1>5, <1>6, <1>7, <1>8
    <3>2. DOMAIN [counts EXCEPT ![sector] = @ + 1] = Range(Sector)
      BY <1>8
    <3>3. [s \in Range(Sector) |-> SectorCount(r2, s)] = [counts EXCEPT ![sector] = @ + 1]
      BY <1>8, <3>1, <3>2
    <3> QED
      BY <1>9, <3>3
  <2>2. plan'.open + plan'.placed = Cardinality(OpenRows(r2))
    <3>1. plan.open \in Nat /\ plan.placed \in Nat /\ plan.open + plan.placed = Cardinality(OpenRows(r))
      BY <1>1, <1>2, Typed DEF PlanOK
    <3> QED
      BY <1>5, <1>9, <3>1
  <2> QED
    BY <1>1, <1>4, <2>1, <2>2 DEF PlanOK
<1>12. RoomOK'
  <2>1. PICK n \in Nat : n = plan.placed
    BY <1>1, Typed
  <2>2. Entered = n + 1 /\ Entered' = n + 1
    BY <1>1, <1>9, <2>1 DEF Entered
  <2>3. Entered > 0 /\ Entered' = Entered
    BY <2>2
  <2>4. Gross' = Gross /\ TierNow' = TierNow
    BY <1>1, <1>9 DEF Gross, TierNow
  <2> QED
    BY <1>1, <1>9, <2>3, <2>4 DEF RoomOK
<1>13. Astray' = Astray
  <2>1. \A c : Pending(c) = IF f.code = c THEN f.value ELSE 0
    BY <1>1, <1>3 DEF Pending
  <2>2. \A c : Pending(c)' = 0
    BY <1>1 DEF Pending
  <2>3. \A c : ValueOf(r2, c) + 0 = ValueOf(r2, c)
    BY <1>5, ValueType
  <2>4. \A c : ValueOf(r2, c) + Pending(c)' = ValueOf(r, c) + Pending(c)
    BY <1>5, <2>1, <2>2, <2>3
  <2> QED
    BY <1>1, <1>2, <1>4, <2>4 DEF Astray
<1> QED
  BY <1>1, <1>10, <1>11, <1>12, <1>13 DEF IInv, TrackedOK

LEMMA StepKeeps == ASSUME IInv, [Next]_vars PROVE IInv'
<1>1. ASSUME NEW S \in SUBSET OpenRows(rows), NEW pnl \in [S -> Pnls],
             BeginCycle(S, pnl) \/ Flatten(S, pnl)
      PROVE  IInv'
  BY <1>1, ClosingKeeps
<1>2. ASSUME NEW charts \in {f \in [Symbols -> UNION Range(Charts)] : \A c \in Symbols : f[c] \in Charts[c]},
             NEW market \in Markets, NEW balance \in Balances, NEW core \in Core,
             Scan(charts, market, balance, core)
      PROVE  IInv'
  <2>1. \A c \in Symbols : charts[c] \in Charts[c]
    OBVIOUS
  <2> QED
    BY <1>2, <2>1, ScanKeeps
<1>3. TypeOK
  BY DEF IInv
<1>4. regime \in Day \union {Never} /\ mishaps \in Nat
  BY <1>3, Typed
<1>5. ASSUME NEW market \in Markets, Halt(market)
      PROVE  IInv'
  <2>1. GoIdle /\ UNCHANGED <<rows, held>> /\ mishaps' = mishaps /\ pc # "book"
    BY <1>5 DEF Halt
  <2>2. regime' \in Day \union {Never}
    BY <1>4, <1>5, DayType DEF Halt
  <2> QED
    BY <2>1, <2>2, GoIdleKeeps
<1>6. CASE EndCycle
  <2>1. GoIdle /\ UNCHANGED <<rows, held>> /\ mishaps' = mishaps /\ pc # "book" /\ regime' = regime
    BY <1>6 DEF EndCycle
  <2> QED
    BY <1>4, <2>1, GoIdleKeeps
<1>7. CASE CutShort
  <2>1. GoIdle /\ UNCHANGED <<rows, held>> /\ mishaps' = mishaps + 1
    BY <1>7 DEF CutShort, Mishap
  <2>2. regime' \in Day \union {Never}
    BY <1>4, <1>7 DEF CutShort
  <2> QED
    BY <2>1, <2>2, GoIdleKeeps
<1>8. CASE TornSave
  <2>1. GoIdle /\ UNCHANGED <<rows, held>> /\ mishaps' = mishaps + 1 /\ regime' = regime
    BY <1>8 DEF TornSave, Mishap
  <2> QED
    BY <1>4, <2>1, GoIdleKeeps
<1> QED
  BY <1>1, <1>2, <1>5, <1>6, <1>7, <1>8, LearnKeeps, SkipKeeps, EnterKeeps, BookKeeps,
     NextDayKeeps, StutterKeeps DEF Next

-----------------------------------------------------------------------------
(* The theorems                                                              *)

\* The invariant of auto_trader.py's cycle, from the exits to the entries.
THEOREM AlwaysIInv == Spec => []IInv
<1>1. Init => IInv
  BY InitIsOK
<1>2. IInv /\ [Next]_vars => IInv'
  BY StepKeeps
<1> QED
  BY <1>1, <1>2, PTL DEF Spec

\* Every variable of the cycle but the learned statistics has its type: the
\* journal, the account, the regime and the plan of main()'s loop.
THEOREM TypeCorrect == Spec => []TypeOK
<1>1. IInv => TypeOK
  BY DEF IInv
<1> QED
  BY <1>1, AlwaysIInv, PTL

\* The loop of execute_cycle tests the exposure of before its first entry. It
\* passes the cap by no more than its entries, each a fifth above the cap of
\* its tier at most, for any tiers, balances, regimes and charts.
THEOREM GrossStaysBounded == Spec => []GrossBounded
<1>1. ASSUME IInv PROVE GrossBounded
  <2> SUFFICES ASSUME Entered > 0
               PROVE  100 * Gross < ExposureCap(plan.today) * plan.balance
                                      + 120 * Entered * PositionCap(TierNow, plan.balance)
    BY DEF GrossBounded
  <2>1. pc \in {"enter", "book"}
    <3> SUFFICES ASSUME pc \notin {"enter", "book"} PROVE FALSE
      OBVIOUS
    <3>1. plan.placed = 0
      BY <1>1 DEF IInv, PlanOK, NoPlan
    <3> QED
      BY <3>1 DEF Entered
  <2> QED
    BY <1>1, <2>1 DEF IInv, RoomOK
<1> QED
  BY <1>1, AlwaysIInv, PTL

\* A position has its rows in auto_trades.csv, but for one symbol each time
\* the work was cut short between the fill and append_trade, and the one just
\* filled.
THEOREM EntriesAreTracked == Spec => []EntriesTracked
<1>1. ASSUME IInv PROVE EntriesTracked
  <2>1. TypeOK /\ TrackedOK /\ mishaps \in Nat
    BY <1>1, Typed DEF IInv
  <2>2. \A c : ValueOf(rows, c) + 0 = ValueOf(rows, c)
    BY <2>1, Typed, ValueType
  <2>3. CASE pc # "book"
    <3>1. Untracked = Astray
      BY <2>2, <2>3 DEF Untracked, Astray, Pending
    <3> QED
      BY <2>1, <2>3, <3>1, AstrayFinite DEF EntriesTracked, TrackedOK
  <2>4. CASE pc = "book"
    <3>1. Untracked \subseteq Astray \union {fill.code}
      BY <2>2 DEF Untracked, Astray, Pending
    <3>2. /\ IsFiniteSet(Astray \union {fill.code})
          /\ Cardinality(Astray \union {fill.code}) <= Cardinality(Astray) + 1
          /\ Cardinality(Astray \union {fill.code}) \in Nat /\ Cardinality(Astray) \in Nat
      BY AstrayFinite, FS_AddElement
    <3>3. Cardinality(Untracked) \in Nat /\ Cardinality(Untracked) <= Cardinality(Astray \union {fill.code})
      BY <3>1, <3>2, FS_Subset, FS_CardinalityType
    <3> QED
      BY <2>1, <2>4, <3>2, <3>3 DEF EntriesTracked, TrackedOK
  <2> QED
    BY <2>3, <2>4
<1> QED
  BY <1>1, AlwaysIInv, PTL

\* When append_trade has written an entry, half of the open rows at most are
\* of its sector, or it is alone: the counts main()'s loop keeps by hand are
\* those of the journal.
THEOREM SectorsStaySpread == Spec => HalfASector
<1> DEFINE Spread == Len(rows') > Len(rows) =>
                       LET sector == Sector[rows'[Len(rows')].code]
                       IN \/ 2 * SectorCount(rows', sector) <= Cardinality(OpenRows(rows'))
                          \/ Cardinality(OpenRows(rows')) = 1
<1>1. ASSUME IInv, [Next]_vars PROVE [Spread]_vars
  <2>1. TypeOK /\ PlanOK /\ rows \in Seq(Row)
    BY <1>1, Typed DEF IInv
  <2>2. CASE Book
    <3>1. PICK f \in Row : f = fill /\ f.status = "OPEN"
      BY <2>1, <2>2 DEF TypeOK, Book
    <3>2. PICK r \in Seq(Row) : r = rows
      BY <2>1
    <3>3. PICK r2 : r2 = rows' /\ r2 = Append(r, f)
      BY <2>2, <3>1, <3>2 DEF Book
    <3>4. OneRowMore(r, f, r2)
      BY <3>1, <3>3, RowAppended
    <3>5. PICK sector \in Range(Sector) : sector = Sector[f.code]
      <4>1. f.code \in Symbols
        BY RowParts
      <4> QED
        BY <4>1, Numbers DEF Range
    <3>6. PICK book, count : book = Cardinality(OpenRows(r)) /\ count = SectorCount(r, sector)
      OBVIOUS
    <3>7. book \in Nat /\ count \in Nat
      BY <2>1, <3>2, <3>6, CountsAreNat
    <3>8. ~ (book > 0 /\ 2 * count >= book)
      <4>1. ~ Crowded(sector)
        BY <2>1, <2>2, <3>1, <3>5 DEF PlanOK, Book
      <4>2. plan.open + plan.placed = book /\ plan.sectors[sector] = count
        BY <2>1, <2>2, <3>2, <3>5, <3>6 DEF PlanOK, Book
      <4> QED
        BY <4>1, <4>2 DEF Crowded
    <3>9. Cardinality(OpenRows(r2)) = book + 1 /\ SectorCount(r2, sector) = count + 1
      BY <3>4, <3>5, <3>6 DEF OneRowMore
    <3>10. 2 * SectorCount(r2, sector) <= Cardinality(OpenRows(r2)) \/ Cardinality(OpenRows(r2)) = 1
      BY <3>7, <3>8, <3>9
    <3>11. Sector[r2[Len(r2)].code] = sector
      BY <3>4, <3>5 DEF OneRowMore
    <3> QED
      BY <3>3, <3>10, <3>11
  <2>3. CASE Len(rows') = Len(rows)
    BY <2>1, <2>3
  <2>4. ASSUME NEW S \in SUBSET OpenRows(rows), NEW pnl \in [S -> Pnls],
               BeginCycle(S, pnl) \/ Flatten(S, pnl)
        PROVE  Len(rows') = Len(rows)
    <3>1. PICK r \in Seq(Row) : r = rows
      BY <2>1
    <3>2. PICK r2 : r2 = rows'
      OBVIOUS
    <3>3. r2 = [i \in DOMAIN r |->
                  IF i \in S THEN [r[i] EXCEPT !.status = "CLOSED", !.pnl = pnl[i]] ELSE r[i]]
      BY <2>4, <3>1, <3>2 DEF BeginCycle, Flatten, CloseRows
    <3>4. pnl \in [S -> Int] /\ S \in SUBSET OpenRows(r)
      BY <3>1, Numbers
    <3>5. RowsFewer(r, S, r2)
      BY <3>3, <3>4, RowsClosed
    <3> QED
      BY <3>1, <3>2, <3>5 DEF RowsFewer
  <2>5. CASE rows' = rows
    BY <2>3, <2>5
  <2> QED
    BY <1>1, <2>2, <2>3, <2>4, <2>5
    DEF Next, Learn, Scan, Halt, Skip, Enter, EndCycle, CutShort, TornSave, NextDay, vars, files
<1> QED
  BY <1>1, AlwaysIInv, PTL DEF Spec, HalfASector

-----------------------------------------------------------------------------
(* Learning                                                                  *)

Records    == {r \in [trades : Nat, wins : Nat, total : Int] : r.wins <= r.trades}
Statistics == [StrategyNames -> Records]

\* Of the rows c at the positions S, those of strategy x with a gain, and the others.
WonIn(c, x, S)  == {n \in S : c[n].strategy = x /\ c[n].pnl > 0}
LostIn(c, x, S) == {n \in S : c[n].strategy = x /\ c[n].pnl <= 0}

\* The record has at least the rows of strategy x at the positions S.
HasCounted(record, c, x, S) ==
    /\ record.wins >= Cardinality(WonIn(c, x, S))
    /\ record.trades - record.wins >= Cardinality(LostIn(c, x, S))

CountsAll(a, c, S) == \A x \in StrategyNames : HasCounted(a[x], c, x, S)

\* A row more, counted by its strategy.
WithRow(a, row) == [a EXCEPT ![row.strategy] = Counted(@, row.pnl)]

LEMMA CountedType ==
    ASSUME NEW r \in Records, NEW pnl \in Int
    PROVE  /\ Counted(r, pnl) \in Records
           /\ Counted(r, pnl).trades = r.trades + 1
           /\ Counted(r, pnl).wins = r.wins + (IF pnl > 0 THEN 1 ELSE 0)
  BY DEF Records, Counted

(* A position more changes neither set, or adds a member to one of them.     *)
LEMMA CountedOne ==
    ASSUME NEW c \in Seq(Row), NEW T \in SUBSET DOMAIN c, IsFiniteSet(T),
           NEW n \in DOMAIN c, n \notin T,
           NEW a \in Statistics, CountsAll(a, c, T)
    PROVE  /\ WithRow(a, c[n]) \in Statistics
           /\ CountsAll(WithRow(a, c[n]), c, T \union {n})
<1> DEFINE row == c[n]
           S   == T \union {n}
           b   == WithRow(a, row)
<1>1. row \in Row /\ row.strategy \in StrategyNames /\ row.pnl \in Int
  <2>1. row \in Row
    OBVIOUS
  <2> HIDE DEF row
  <2> QED
    BY <2>1 DEF Row
<1>2. a[row.strategy] \in Records
  BY <1>1 DEF Statistics
<1>3. PICK k \in Records : k = Counted(a[row.strategy], row.pnl)
  BY <1>1, <1>2, CountedType
<1>4. b = [a EXCEPT ![row.strategy] = k]
  BY <1>3 DEF WithRow
<1>5. b \in Statistics /\ b[row.strategy] = k
      /\ \A x \in StrategyNames : x # row.strategy => b[x] = a[x]
  BY <1>1, <1>3, <1>4 DEF Statistics
<1>6. ASSUME NEW x \in StrategyNames
      PROVE  HasCounted(b[x], c, x, S)
  <2> DEFINE W == WonIn(c, x, T)
             L == LostIn(c, x, T)
  <2>1. /\ IsFiniteSet(W) /\ IsFiniteSet(L) /\ n \notin W /\ n \notin L
        /\ Cardinality(W) \in Nat /\ Cardinality(L) \in Nat
    <3>1. W \subseteq T /\ L \subseteq T
      BY DEF WonIn, LostIn
    <3> HIDE DEF W, L
    <3> QED
      BY <3>1, FS_Subset, FS_CardinalityType
  <2>2. /\ a[x].wins >= Cardinality(W)
        /\ a[x].trades - a[x].wins >= Cardinality(L)
    BY DEF CountsAll, HasCounted
  <2>3. /\ WonIn(c, x, S) = IF row.strategy = x /\ row.pnl > 0 THEN W \union {n} ELSE W
        /\ LostIn(c, x, S) = IF row.strategy = x /\ row.pnl <= 0 THEN L \union {n} ELSE L
    BY DEF WonIn, LostIn
  <2>4. Cardinality(W \union {n}) = Cardinality(W) + 1 /\ Cardinality(L \union {n}) = Cardinality(L) + 1
    <3> HIDE DEF W, L
    <3> QED
      BY <2>1, FS_AddElement
  <2>5. a[x] \in [trades : Nat, wins : Nat, total : Int]
    BY DEF Statistics, Records
  <2>6. PICK w, l \in Nat : w = Cardinality(W) /\ l = Cardinality(L)
    BY <2>1
  <2> HIDE DEF W, L, b, S
  <2>7. CASE row.strategy # x
    <3>1. b[x] = a[x]
      BY <1>5, <2>7
    <3>2. WonIn(c, x, S) = W /\ LostIn(c, x, S) = L
      BY <2>3, <2>7
    <3> QED
      BY <2>2, <3>1, <3>2 DEF HasCounted
  <2>8. CASE row.strategy = x
    <3>1. b[x].trades = a[x].trades + 1 /\ b[x].wins = a[x].wins + (IF row.pnl > 0 THEN 1 ELSE 0)
      <4>1. k.trades = a[row.strategy].trades + 1
            /\ k.wins = a[row.strategy].wins + (IF row.pnl > 0 THEN 1 ELSE 0)
        BY <1>1, <1>2, <1>3, CountedType
      <4> QED
        BY <1>5, <2>8, <4>1, Zenon
    <3>2. CASE row.pnl > 0
      <4>1. Cardinality(WonIn(c, x, S)) = w + 1 /\ Cardinality(LostIn(c, x, S)) = l
        BY <1>1, <2>3, <2>4, <2>6, <2>8, <3>2
      <4> QED
        BY <2>2, <2>5, <2>6, <3>1, <3>2, <4>1 DEF HasCounted
    <3>3. CASE row.pnl <= 0
      <4>1. Cardinality(WonIn(c, x, S)) = w /\ Cardinality(LostIn(c, x, S)) = l + 1
        BY <1>1, <2>3, <2>4, <2>6, <2>8, <3>3
      <4>2. ~ (row.pnl > 0)
        BY <1>1, <3>3
      <4> QED
        BY <2>2, <2>5, <2>6, <3>1, <4>1, <4>2 DEF HasCounted
    <3> QED
      BY <1>1, <3>2, <3>3
  <2> QED
    BY <2>7, <2>8
<1> QED
  BY <1>5, <1>6 DEF CountsAll

(* update_learning counts every row it is given, on top of what there is.    *)
LEMMA LearnedCounts ==
    ASSUME NEW a0 \in Statistics, NEW c \in Seq(Row)
    PROVE  Learned(a0, c) \in Statistics /\ CountsAll(Learned(a0, c), c, DOMAIN c)
<1> DEFINE D          == DOMAIN c
           first(s)   == Max(s)
           pick       == [s \in SUBSET D |-> first(s)]
           next(s, a) == WithRow(a, c[first(s)])
           step       == [p \in (SUBSET D) \X Statistics |-> next(p[1], p[2])]
           Inv        == {p \in (SUBSET D) \X Statistics : CountsAll(p[2], c, p[1])}
           iter       == CHOOSE iter : iter = [s \in SUBSET D |->
                             IF s = {} THEN a0 ELSE next(s, iter[s \ {first(s)}])]
<1>1. Learned(a0, c) = iter[D]
  BY DEF Learned, FoldLeft, MapThenFoldSet, WithRow
<1>2. /\ IsPick(pick, D) /\ IsFiniteSet(D)
      /\ \A s \in SUBSET D : pick[s] = first(s) /\ (s # {} => first(s) \in s)
  <2>1. IsFiniteSet(D) /\ D \subseteq Int
    BY FS_Interval
  <2> HIDE DEF D
  <2> QED
    BY <2>1, MaxIsPick DEF IsPick
<1>3. <<{}, a0>> \in Inv
  <2>1. \A x \in StrategyNames : WonIn(c, x, {}) = {} /\ LostIn(c, x, {}) = {}
    BY DEF WonIn, LostIn
  <2>2. ASSUME NEW x \in StrategyNames
        PROVE  HasCounted(a0[x], c, x, {})
    <3>1. PICK k \in Records : k = a0[x]
      BY DEF Statistics
    <3>2. k.wins >= 0 /\ k.trades - k.wins >= 0
      BY DEF Records
    <3>3. WonIn(c, x, {}) = {} /\ LostIn(c, x, {}) = {} /\ Cardinality({}) = 0
      BY <2>1, FS_EmptySet
    <3> QED
      BY <3>1, <3>2, <3>3 DEF HasCounted
  <2> QED
    BY <2>2 DEF CountsAll
<1>4. ASSUME NEW s \in SUBSET D, s # {}, NEW a, <<s \ {first(s)}, a>> \in Inv
      PROVE  a \in Statistics /\ <<s, next(s, a)>> \in Inv
  <2> DEFINE n == first(s)
             T == s \ {n}
  <2>1. n \in s /\ n \in DOMAIN c /\ T \in SUBSET DOMAIN c /\ n \notin T /\ T \union {n} = s
    BY <1>2, <1>4
  <2>2. a \in Statistics /\ CountsAll(a, c, T)
    BY <1>4
  <2>3. IsFiniteSet(T)
    BY <1>2, <2>1, FS_Subset
  <2> HIDE DEF T, n
  <2>4. WithRow(a, c[n]) \in Statistics /\ CountsAll(WithRow(a, c[n]), c, s)
    BY <2>1, <2>2, <2>3, CountedOne
  <2> QED
    BY <2>2, <2>4 DEF n
<1> HIDE DEF D, Inv, next
<1>5. ASSUME NEW s \in SUBSET D, NEW a \in Statistics
      PROVE  step[<<s, a>>] = next(s, a)
  OBVIOUS
<1> HIDE DEF step, pick, first
<1>6. Carries(Inv, a0, step, pick, D)
  BY <1>2, <1>3, <1>4, <1>5 DEF Carries
<1>7. PICK F : F = [s \in SUBSET D |-> F[s]] /\ IsRun(F, a0, step, pick, D)
  BY <1>2, RunExists
<1>8. \A s \in SUBSET D : <<s, F[s]>> \in Inv
  BY <1>2, <1>6, <1>7, FoldCarries
<1>9. iter = [s \in SUBSET D |-> IF s = {} THEN a0 ELSE next(s, iter[s \ {first(s)}])]
  <2>1. ASSUME NEW s \in SUBSET D
        PROVE  F[s] = IF s = {} THEN a0 ELSE next(s, F[s \ {first(s)}])
    BY <1>2, <1>4, <1>5, <1>7, <1>8 DEF IsRun
  <2> QED
    BY <1>7, <2>1
<1> HIDE DEF iter
<1>10. <<D, iter[D]>> \in Inv
  <2>1. ASSUME NEW s \in SUBSET D, s = {} \/ <<s \ {pick[s]}, iter[s \ {pick[s]}]>> \in Inv
        PROVE  <<s, iter[s]>> \in Inv
    <3>1. CASE s = {}
      BY <1>3, <1>9, <3>1
    <3>2. CASE s # {}
      <4>1. iter[s] = next(s, iter[s \ {first(s)}]) /\ pick[s] = first(s)
        BY <1>2, <1>9, <3>2
      <4> QED
        BY <1>4, <2>1, <3>2, <4>1
    <3> QED
      BY <3>1, <3>2
  <2> QED
    BY <1>2, <2>1, RunCarries
<1> QED
  BY <1>1, <1>10 DEF Inv, D

(* The closed rows, of which there are as many with a gain as in the file.   *)
LEMMA ClosedParts ==
    ASSUME NEW r \in Seq(Row)
    PROVE  /\ Closed(r) \in Seq(Row)
           /\ \A x \in StrategyNames :
                /\ Cardinality(WonIn(Closed(r), x, DOMAIN Closed(r))) = Cardinality(WonBy(r, x))
                /\ Cardinality(LostIn(Closed(r), x, DOMAIN Closed(r))) = Cardinality(LostBy(r, x))
<1> DEFINE P     == {i \in DOMAIN r : r[i].status = "CLOSED"}
           order == InOrder(P)
           size  == Cardinality(P)
           c     == Closed(r)
<1>1. IsFiniteSet(P) /\ P \subseteq Nat \ {0}
  <2>1. 1 \in Int /\ Len(r) \in Int /\ DOMAIN r = 1..Len(r)
    OBVIOUS
  <2>2. IsFiniteSet(DOMAIN r)
    BY <2>1, FS_Interval
  <2>3. P \subseteq DOMAIN r /\ DOMAIN r \subseteq Nat \ {0}
    BY <2>1
  <2> HIDE DEF P
  <2> QED
    BY <2>2, <2>3, FS_Subset
<1>2. c = AtPositions(r, P)
  BY DEF Closed
<1>3. P \subseteq DOMAIN r /\ \A i \in P : r[i] \in Row
  BY ElementOfSeq
<1>4. \A x : /\ WonBy(r, x) = {i \in P : r[i].strategy = x /\ r[i].pnl > 0}
             /\ LostBy(r, x) = {i \in P : r[i].strategy = x /\ r[i].pnl <= 0}
  BY DEF WonBy, LostBy, Closes
<1> HIDE DEF P, c
<1>5. /\ size \in Nat /\ order \in Bijection(1..size, P)
      /\ c = [k \in 1..size |-> r[order[k]]]
      /\ \A k \in 1..size : order[k] \in P
  BY <1>1, <1>2, AtPositionsType
<1> HIDE DEF order, size
<1>6. c \in Seq(Row) /\ DOMAIN c = 1..size
  <2>1. c \in [1..size -> Row]
    BY <1>3, <1>5
  <2> QED
    BY <1>5, <2>1, FunctionIsSeq
<1>7. /\ \A m, n \in 1..size : order[m] = order[n] => m = n
      /\ \A i \in P : \E k \in 1..size : order[k] = i
      /\ order \in [1..size -> P]
  BY <1>5 DEF Bijection, Injection, Surjection, IsInjective
<1>8. ASSUME NEW A \in SUBSET (1..size), NEW B \in SUBSET P,
             \A k \in 1..size : k \in A <=> order[k] \in B
      PROVE  Cardinality(A) = Cardinality(B)
  <2> DEFINE g == [k \in A |-> order[k]]
  <2>1. g \in Bijection(A, B)
    <3>1. g \in [A -> B] /\ \A k \in A : g[k] = order[k]
      BY <1>8
    <3> HIDE DEF g
    <3>2. \A m, n \in A : g[m] = g[n] => m = n
      BY <1>7, <3>1
    <3>3. \A i \in B : \E k \in A : g[k] = i
      BY <1>7, <1>8, <3>1
    <3> QED
      BY <3>1, <3>2, <3>3 DEF Bijection, Injection, Surjection, IsInjective
  <2>2. IsFiniteSet(A)
    <3>1. 1 \in Int /\ size \in Int
      BY <1>5
    <3>2. IsFiniteSet(1..size)
      BY <3>1, FS_Interval
    <3> QED
      BY <3>2, FS_Subset
  <2> HIDE DEF g
  <2> QED
    BY <2>1, <2>2, FS_Bijection DEF ExistsBijection
<1>9. ASSUME NEW x \in StrategyNames
      PROVE  /\ Cardinality(WonIn(c, x, DOMAIN c)) = Cardinality(WonBy(r, x))
             /\ Cardinality(LostIn(c, x, DOMAIN c)) = Cardinality(LostBy(r, x))
  <2> DEFINE A == WonIn(c, x, DOMAIN c)
             B == WonBy(r, x)
             C == LostIn(c, x, DOMAIN c)
             E == LostBy(r, x)
  <2>1. A \in SUBSET (1..size) /\ C \in SUBSET (1..size)
    BY <1>6 DEF WonIn, LostIn
  <2>2. B \in SUBSET P /\ E \in SUBSET P
    BY <1>4
  <2>3. \A k \in 1..size : (k \in A <=> order[k] \in B) /\ (k \in C <=> order[k] \in E)
    BY <1>4, <1>5, <1>6 DEF WonIn, LostIn
  <2> HIDE DEF A, B, C, E
  <2>4. Cardinality(A) = Cardinality(B) /\ Cardinality(C) = Cardinality(E)
    BY <1>8, <2>1, <2>2, <2>3
  <2> QED
    BY <2>4 DEF A, B, C, E
<1> QED
  BY <1>6, <1>9 DEF c

\* What the file of statistics holds, unless it was cut short.
StatsOK ==
    /\ stats # Torn => stats \in Statistics
    /\ pc \in {"learn", "open"} => stats # Torn

(* One call of update_learning.                                              *)
LEMMA LearnAll ==
    ASSUME TypeOK, StatsOK, Learn
    PROVE  /\ stats' \in Statistics
           /\ \A s \in StrategyNames :
                /\ stats'[s].wins >= Cardinality(WonBy(rows, s))
                /\ stats'[s].trades - stats'[s].wins >= Cardinality(LostBy(rows, s))
<1>1. PICK r \in Seq(Row) : r = rows
  BY Typed
<1>2. PICK a0 \in Statistics : a0 = stats
  BY DEF StatsOK, Learn
<1>3. PICK c \in Seq(Row) : c = Closed(r)
  BY ClosedParts
<1>4. stats' = Learned(a0, c)
  BY <1>1, <1>2, <1>3 DEF Learn
<1>5. Learned(a0, c) \in Statistics /\ CountsAll(Learned(a0, c), c, DOMAIN c)
  BY LearnedCounts
<1>6. \A s \in StrategyNames : /\ Cardinality(WonIn(c, s, DOMAIN c)) = Cardinality(WonBy(r, s))
                               /\ Cardinality(LostIn(c, s, DOMAIN c)) = Cardinality(LostBy(r, s))
  BY <1>3, ClosedParts
<1>7. ASSUME NEW s \in StrategyNames
      PROVE  /\ stats'[s].wins >= Cardinality(WonBy(r, s))
             /\ stats'[s].trades - stats'[s].wins >= Cardinality(LostBy(r, s))
  BY <1>4, <1>5, <1>6, Zenon DEF CountsAll, HasCounted
<1> QED
  BY <1>1, <1>4, <1>5, <1>7

LEMMA InitStats == ASSUME Init PROVE StatsOK
<1>1. NoStats \in Statistics
  BY DEF NoStats, NoRecord, Statistics, Records
<1> QED
  BY <1>1 DEF Init, StatsOK

LEMMA StatsKept == ASSUME TypeOK, StatsOK, [Next]_vars PROVE StatsOK'
<1>1. CASE Learn
  <2>1. stats' \in Statistics /\ pc' = "open"
    BY <1>1, LearnAll DEF Learn
  <2>2. Torn \notin Statistics
    BY ScanAssumption DEF Statistics, Records
  <2> QED
    BY <2>1, <2>2 DEF StatsOK
<1>2. CASE TornSave
  BY <1>2 DEF StatsOK, TornSave, GoIdle
<1>3. CASE stats' = stats /\ (pc' \in {"learn", "open"} => stats # Torn)
  BY <1>3 DEF StatsOK
<1>4. ASSUME NEW S \in SUBSET OpenRows(rows), NEW pnl \in [S -> Pnls],
             BeginCycle(S, pnl) \/ Flatten(S, pnl)
      PROVE  stats' = stats /\ stats # Torn
  BY <1>4 DEF BeginCycle, Flatten, StatsOK
<1>5. CASE UNCHANGED vars
  BY <1>5 DEF StatsOK, vars, files
<1> QED
  BY <1>1, <1>2, <1>3, <1>4, <1>5
  DEF Next, Scan, Halt, Skip, Enter, Book, EndCycle, CutShort, NextDay, GoIdle, StatsOK, files

LEMMA StatsAlways == Spec => []StatsOK
<1>1. Init => StatsOK
  BY InitStats
<1>2. TypeOK /\ StatsOK /\ [Next]_vars => StatsOK'
  BY StatsKept
<1> QED
  BY <1>1, <1>2, TypeCorrect, PTL DEF Spec

\* After every update of the statistics each strategy has at least the wins and
\* the losses that the journal has of it: update_learning, which is given all
\* the closed rows each time, makes up for a cycle that was cut short before it.
THEOREM LearningMissesNoClose == Spec => NoCloseForgotten
<1> DEFINE Missed == stats' # stats /\ stats' # Torn =>
                       \A s \in StrategyNames :
                         /\ stats'[s].wins >= Cardinality(WonBy(rows, s))
                         /\ stats'[s].trades - stats'[s].wins >= Cardinality(LostBy(rows, s))
<1>1. ASSUME TypeOK, StatsOK, [Next]_vars PROVE [Missed]_vars
  <2>1. CASE Learn
    BY <1>1, <2>1, LearnAll
  <2>2. CASE stats' = stats \/ stats' = Torn
    BY <2>2
  <2>3. ASSUME NEW S \in SUBSET OpenRows(rows), NEW pnl \in [S -> Pnls],
               BeginCycle(S, pnl) \/ Flatten(S, pnl)
        PROVE  stats' = stats
    BY <2>3 DEF BeginCycle, Flatten
  <2> QED
    BY <1>1, <2>1, <2>2, <2>3
    DEF Next, Scan, Halt, Skip, Enter, Book, EndCycle, CutShort, TornSave, NextDay, vars, files
<1> QED
  BY <1>1, TypeCorrect, StatsAlways, PTL DEF Spec, NoCloseForgotten
=============================================================================
