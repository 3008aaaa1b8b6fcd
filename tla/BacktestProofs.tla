-------------------------- MODULE BacktestProofs --------------------------
(***************************************************************************)
(* That both sleeves of a replay keep their books, that the scored baskets *)
(* obey their rules and look at nothing later than their date, and that    *)
(* the engine opens only what an earlier date has signalled.               *)
(***************************************************************************)
EXTENDS Backtest, DataTheorems, SequenceTheorems

-----------------------------------------------------------------------------
(* Numbers and functions                                                   *)

LEMMA Extremes ==
    ASSUME NEW a \in Int, NEW b \in Int
    PROVE  /\ Max({a, b}) \in {a, b} /\ Max({a, b}) >= a /\ Max({a, b}) >= b
           /\ Min({a, b}) \in {a, b}
<1>1. \E x \in {a, b} : \A y \in {a, b} : x >= y
  OBVIOUS
<1>2. \E x \in {a, b} : \A y \in {a, b} : x <= y
  OBVIOUS
<1> QED
  BY <1>1, <1>2 DEF Max, Min

LEMMA Products ==
    ASSUME NEW q \in Int, NEW e \in Int, NEW x \in Int
    PROVE  /\ q * e \in Int /\ q * x \in Int
           /\ q * (2 * e - x) = 2 * (q * e) - q * x
           /\ (x - e) * q = q * x - q * e
           /\ (e - x) * q = q * e - q * x
           /\ q * (x - e) = q * x - q * e
  OBVIOUS

LEMMA Parameters ==
    /\ IsFiniteSet(Codes) /\ Slip \in [Codes -> Nat] /\ Atr \in [Codes -> Nat]
    /\ Fee \in Nat /\ BorrowUnit \in Nat \ {0}
    /\ Tiers # <<>> /\ Tiers \in Seq([trigger : Nat, keep : Nat, pct : Nat, usd : Nat, risk : Nat])
    /\ Capital \in Nat /\ CoreCapital \in Nat /\ TacticalCapital \in Nat /\ CashFloor \in Nat
    /\ Capital = CoreCapital + TacticalCapital + CashFloor
    /\ IdleUnit \in Nat \ {0} /\ Bars \in Nat /\ Names \subseteq Codes /\ SPY \in Codes
    /\ BasketSize \in Nat \ {0} /\ MaxTurnover \in Nat \ {0} /\ MaxPerSector \in Nat \ {0}
<1>1. /\ IsFiniteSet(Codes) /\ Slip \in [Codes -> Nat] /\ Atr \in [Codes -> Nat]
      /\ Fee \in Nat /\ BorrowUnit \in Nat \ {0}
      /\ Tiers # <<>> /\ Tiers \in Seq([trigger : Nat, keep : Nat, pct : Nat, usd : Nat, risk : Nat])
  BY EngineAssumption, Zenon
<1>2. /\ {CoreCapital, TacticalCapital, CashFloor, Bars} \subseteq Nat
      /\ Capital = CoreCapital + TacticalCapital + CashFloor
      /\ IdleUnit \in Nat \ {0} /\ Range(Universe) \subseteq Codes /\ SPY \in Codes
  BY BacktestAssumption, Zenon
<1>3. {BasketSize, MaxTurnover, MaxPerSector, Short, Long, HalfYear, MinTrend} \subseteq Nat \ {0}
  BY ScoringAssumption, Zenon
<1>4. {CoreCapital, TacticalCapital, CashFloor, Bars} \subseteq Nat => Capital \in Nat
  BY <1>2
<1> QED
  BY <1>1, <1>2, <1>3, <1>4 DEF Names

\* A partial function on the codes with values of a set.
Partial(Values) == UNION {[S -> Values] : S \in SUBSET Codes}

\* A portfolio and a core sleeve, as members of a set.
Portfolios ==
    [cash : Int, equity : Int, peak : Int, positions : Partial(Position), trades : Seq(Trade)]

Cores ==
    [cash : Int, held : Partial(Lot), realised : Int, lost : Int,
     basket : Seq(Names), started : BOOLEAN, quarter : Nat, next : Nat]

LEMMA PortfolioType == \A f : f \in Portfolios <=> IsPortfolio(f)
<1>1. ASSUME NEW f, f \in Portfolios
      PROVE  IsPortfolio(f)
  BY <1>1 DEF Portfolios, Partial, IsPortfolio
<1>2. ASSUME NEW f, IsPortfolio(f)
      PROVE  f \in Portfolios
  <2>1. f.positions \in UNION {[S -> Position] : S \in SUBSET Codes}
    BY <1>2, Zenon DEF IsPortfolio
  <2> QED
    BY <1>2, <2>1 DEF Portfolios, Partial, IsPortfolio
<1> QED
  BY <1>1, <1>2

LEMMA CoreType == \A k : k \in Cores <=> IsCore(k)
<1>1. ASSUME NEW k, k \in Cores
      PROVE  IsCore(k)
  BY <1>1 DEF Cores, Partial, IsCore
<1>2. ASSUME NEW k, IsCore(k)
      PROVE  k \in Cores
  <2>1. k.held \in UNION {[S -> Lot] : S \in SUBSET Codes}
    BY <1>2, Zenon DEF IsCore
  <2> QED
    BY <1>2, <2>1 DEF Cores, Partial, IsCore
<1> QED
  BY <1>1, <1>2

-----------------------------------------------------------------------------
(* What a sleeve is worth to its books                                     *)

\* Cash and what the open positions cost, less what closed trades have made.
Balance(f) == f.cash + OpenCost(f.positions) - TotalMade(f.trades)

LEMMA PutKeeps ==
    ASSUME NEW Values, NEW f \in Partial(Values), NEW c \in Codes, NEW v \in Values
    PROVE  /\ Put(f, c, v) \in Partial(Values)
           /\ DOMAIN Put(f, c, v) = DOMAIN f \union {c}
           /\ Put(f, c, v)[c] = v
           /\ \A d \in DOMAIN f : d # c => Put(f, c, v)[d] = f[d]
<1>1. DOMAIN f \subseteq Codes /\ f \in [DOMAIN f -> Values]
  BY DEF Partial
<1>2. Put(f, c, v) \in [DOMAIN f \union {c} -> Values]
  BY <1>1 DEF Put
<1>3. DOMAIN f \union {c} \in SUBSET Codes
  BY <1>1
<1> QED
  BY <1>1, <1>2, <1>3 DEF Put, Partial

LEMMA RestrictKeeps ==
    ASSUME NEW Values, NEW f \in Partial(Values), NEW S
    PROVE  /\ Restrict(f, DOMAIN f \ S) \in Partial(Values)
           /\ DOMAIN Restrict(f, DOMAIN f \ S) = DOMAIN f \ S
           /\ \A d \in DOMAIN f \ S : Restrict(f, DOMAIN f \ S)[d] = f[d]
<1>1. DOMAIN f \subseteq Codes /\ f \in [DOMAIN f -> Values]
  BY DEF Partial
<1>2. Restrict(f, DOMAIN f \ S) \in [DOMAIN f \ S -> Values]
  BY <1>1 DEF Restrict
<1> QED
  BY <1>1, <1>2 DEF Restrict, Partial

\* The sum of a price over what is held.
Worth(f, price) == SumFunctionOnSet([c \in DOMAIN f |-> price[f[c]]], DOMAIN f)

LEMMA WorthType ==
    ASSUME NEW Values, NEW price \in [Values -> Int], NEW f \in Partial(Values)
    PROVE  /\ Worth(f, price) \in Int
           /\ IsFiniteSet(DOMAIN f) /\ \A c \in DOMAIN f : f[c] \in Values
<1>1. DOMAIN f \subseteq Codes /\ f \in [DOMAIN f -> Values]
  BY DEF Partial
<1>2. IsFiniteSet(DOMAIN f)
  BY <1>1, Parameters, FS_Subset
<1> DEFINE g == [c \in DOMAIN f |-> price[f[c]]]
<1>3. \A c \in DOMAIN f : g[c] \in Int
  BY <1>1
<1> HIDE DEF g
<1>4. SumFunctionOnSet(g, DOMAIN f) \in Int
  BY <1>2, <1>3, SumType
<1> QED
  BY <1>1, <1>2, <1>4 DEF Worth, g

(* One more, one less, and one at the same price. *)
LEMMA WorthPut ==
    ASSUME NEW Values, NEW price \in [Values -> Int], NEW f \in Partial(Values),
           NEW c \in Codes, c \notin DOMAIN f, NEW v \in Values
    PROVE  Worth(Put(f, c, v), price) = Worth(f, price) + price[v]
<1> DEFINE D == DOMAIN f
           h == Put(f, c, v)
           a == [d \in D |-> price[f[d]]]
           b == [d \in DOMAIN h |-> price[h[d]]]
<1>1. IsFiniteSet(D) /\ \A d \in D : f[d] \in Values
  BY WorthType
<1>2. DOMAIN h = D \union {c} /\ h[c] = v /\ \A d \in D : h[d] = f[d]
  BY PutKeeps
<1>3. /\ \A d \in D : a[d] \in Int /\ b[d] = a[d]
      /\ b[c] = price[v] /\ b[c] \in Int
      /\ \A d \in D \union {c} : b[d] \in Int
  BY <1>1, <1>2
<1> HIDE DEF a, b, D, h
<1>4. SumFunctionOnSet(b, D \union {c}) = SumFunctionOnSet(b, D) + b[c]
  <2>1. c \notin D
    BY DEF D
  <2> QED
    BY <1>1, <1>3, <2>1, SumAdd
<1>5. SumFunctionOnSet(b, D) = SumFunctionOnSet(a, D)
  BY <1>1, <1>3, SumRestricted
<1>6. Worth(h, price) = SumFunctionOnSet(b, D \union {c}) /\ Worth(f, price) = SumFunctionOnSet(a, D)
  BY <1>2 DEF Worth, a, b, D
<1> QED
  BY <1>3, <1>4, <1>5, <1>6 DEF h

LEMMA WorthOut ==
    ASSUME NEW Values, NEW price \in [Values -> Int], NEW f \in Partial(Values), NEW c \in DOMAIN f
    PROVE  Worth(f, price) = price[f[c]] + Worth(Restrict(f, DOMAIN f \ {c}), price)
<1> DEFINE D == DOMAIN f
           h == Restrict(f, DOMAIN f \ {c})
           a == [d \in D |-> price[f[d]]]
           b == [d \in DOMAIN h |-> price[h[d]]]
<1>1. IsFiniteSet(D) /\ IsFiniteSet(D \ {c}) /\ \A d \in D : f[d] \in Values
  BY WorthType, FS_Subset
<1>2. DOMAIN h = D \ {c} /\ \A d \in D \ {c} : h[d] = f[d]
  BY RestrictKeeps
<1>3. /\ \A d \in D : a[d] \in Int
      /\ \A d \in D \ {c} : a[d] \in Int /\ b[d] = a[d]
      /\ a[c] = price[f[c]]
  BY <1>1, <1>2
<1> HIDE DEF a, b, D, h
<1>4. SumFunctionOnSet(a, D) = a[c] + SumFunctionOnSet(a, D \ {c})
  <2>1. c \in D
    BY DEF D
  <2> QED
    BY <1>1, <1>3, <2>1, SumRemove
<1>5. SumFunctionOnSet(b, D \ {c}) = SumFunctionOnSet(a, D \ {c})
  BY <1>1, <1>3, SumRestricted
<1>6. Worth(h, price) = SumFunctionOnSet(b, D \ {c}) /\ Worth(f, price) = SumFunctionOnSet(a, D)
  BY <1>2 DEF Worth, a, b, D
<1> QED
  BY <1>3, <1>4, <1>5, <1>6 DEF h

LEMMA WorthSame ==
    ASSUME NEW Values, NEW price \in [Values -> Int], NEW f \in Partial(Values),
           NEW h, DOMAIN h = DOMAIN f, \A d \in DOMAIN f : price[h[d]] = price[f[d]]
    PROVE  Worth(h, price) = Worth(f, price)
<1>1. [d \in DOMAIN h |-> price[h[d]]] = [d \in DOMAIN f |-> price[f[d]]]
  OBVIOUS
<1> QED
  BY <1>1 DEF Worth

LEMMA WorthOfNothing == ASSUME NEW price PROVE Worth(<<>>, price) = 0
<1>1. DOMAIN <<>> = {}
  OBVIOUS
<1> QED
  BY <1>1, SumEmpty DEF Worth

\* What a position of the engine has cost, and a lot of the core.
EntryCost == [p \in Position |-> p.qty * p.entry + Commission(p.qty)]
LotCost   == [v \in Lot |-> v.qty * v.entry]

LEMMA Costs ==
    /\ EntryCost \in [Position -> Int]
    /\ LotCost \in [Lot -> Int]
    /\ \A f \in Partial(Position) : OpenCost(f) = Worth(f, EntryCost)
    /\ \A h \in Partial(Lot) : Cost(h) = Worth(h, LotCost)
<1>1. EntryCost \in [Position -> Int]
  <2> SUFFICES ASSUME NEW p \in Position
               PROVE  p.qty * p.entry + Commission(p.qty) \in Int
    BY DEF EntryCost
  <2>1. p.qty \in Int /\ p.entry \in Int /\ Fee \in Int
    BY Parameters DEF Position
  <2> QED
    BY <2>1 DEF Commission
<1>2. LotCost \in [Lot -> Int]
  <2> SUFFICES ASSUME NEW p \in Lot
               PROVE  p.qty * p.entry \in Int
    BY DEF LotCost
  <2>1. p.qty \in Int /\ p.entry \in Int
    BY DEF Lot
  <2> QED
    BY <2>1
<1>3. ASSUME NEW f \in Partial(Position)
      PROVE  OpenCost(f) = Worth(f, EntryCost)
  <2>1. \A c \in DOMAIN f : f[c] \in Position
    BY DEF Partial
  <2>2. [c \in DOMAIN f |-> f[c].qty * f[c].entry + Commission(f[c].qty)]
          = [c \in DOMAIN f |-> EntryCost[f[c]]]
    BY <2>1 DEF EntryCost
  <2> QED
    BY <2>2 DEF OpenCost, Worth
<1>4. ASSUME NEW f \in Partial(Lot)
      PROVE  Cost(f) = Worth(f, LotCost)
  <2>1. \A c \in DOMAIN f : f[c] \in Lot
    BY DEF Partial
  <2>2. [c \in DOMAIN f |-> f[c].qty * f[c].entry] = [c \in DOMAIN f |-> LotCost[f[c]]]
    BY <2>1 DEF LotCost
  <2> QED
    BY <2>2 DEF Cost, Worth
<1> QED
  BY <1>1, <1>2, <1>3, <1>4

(* What the trades have made grows by what the last one has made. *)
LEMMA MadeType == ASSUME NEW t \in Trade PROVE Made(t) \in Int
<1>1. t.pnl \in Int /\ t.qty \in Int /\ t.borrow \in Int /\ Fee \in Int
  BY Parameters DEF Trade
<1> QED
  BY <1>1 DEF Made, Commission

LEMMA TotalMadeAppend ==
    ASSUME NEW trades \in Seq(Trade), NEW t \in Trade
    PROVE  /\ TotalMade(trades) \in Int
           /\ TotalMade(Append(trades, t)) = TotalMade(trades) + Made(t)
<1> DEFINE D    == DOMAIN trades
           n    == Len(trades) + 1
           more == Append(trades, t)
           a    == [k \in D |-> Made(trades[k])]
           b    == [k \in DOMAIN more |-> Made(more[k])]
<1>1. /\ Len(trades) \in Nat /\ D = 1..Len(trades) /\ n \notin D
      /\ DOMAIN more = D \union {n} /\ more[n] = t /\ \A k \in D : more[k] = trades[k]
  BY AppendProperties
<1>2. IsFiniteSet(D)
  BY <1>1, FS_Interval
<1>3. \A k \in D : trades[k] \in Trade
  BY <1>1, ElementOfSeq
<1>4. /\ \A k \in D : a[k] \in Int /\ b[k] = a[k]
      /\ b[n] = Made(t) /\ \A k \in D \union {n} : b[k] \in Int
  <2> HIDE DEF more, D, n
  <2> QED
    BY <1>1, <1>3, MadeType
<1> HIDE DEF a, b, D, more, n
<1>5. SumFunctionOnSet(b, D \union {n}) = SumFunctionOnSet(b, D) + b[n]
  <2>1. n \notin D /\ \A k \in D \union {n} : b[k] \in Int
    BY <1>1, <1>4
  <2> QED
    BY <1>2, <2>1, SumAdd
<1>6. SumFunctionOnSet(b, D) = SumFunctionOnSet(a, D) /\ SumFunctionOnSet(a, D) \in Int
  BY <1>2, <1>4, SumRestricted, SumType
<1>7. TotalMade(more) = SumFunctionOnSet(b, D \union {n}) /\ TotalMade(trades) = SumFunctionOnSet(a, D)
  BY <1>1 DEF TotalMade, a, b, D
<1> QED
  BY <1>4, <1>5, <1>6, <1>7 DEF more

-----------------------------------------------------------------------------
(* Entries                                                                 *)

Configs == {NoConfig, RegimeConfig["bull"], RegimeConfig["flat"], RegimeConfig["bear"]}

LEMMA TierType ==
    ASSUME NEW equity \in Int
    PROVE  /\ Tier(equity) \in [trigger : Nat, keep : Nat, pct : Nat, usd : Nat, risk : Nat]
           /\ Tiers[1] \in [trigger : Nat, keep : Nat, pct : Nat, usd : Nat, risk : Nat]
<1> DEFINE S == {1} \union {n \in DOMAIN Tiers : equity >= Tiers[n].trigger}
           Rungs == [trigger : Nat, keep : Nat, pct : Nat, usd : Nat, risk : Nat]
<1>1. Tiers \in Seq(Rungs) /\ Tiers # <<>>
  BY Parameters
<1>2. Len(Tiers) \in Nat /\ Len(Tiers) # 0 /\ DOMAIN Tiers = 1..Len(Tiers)
  BY <1>1, EmptySeq
<1>3. S \subseteq 1..Len(Tiers) /\ S # {} /\ S \subseteq Int
  BY <1>2
<1>4. IsFiniteSet(S)
  <2>1. IsFiniteSet(1..Len(Tiers))
    BY <1>2, FS_Interval
  <2> QED
    BY <1>3, <2>1, FS_Subset
<1> HIDE DEF S
<1>5. \E x \in S : \A y \in S : x >= y
  BY <1>3, <1>4, GreatestExists
<1>6. Max(S) \in S
  BY <1>5 DEF Max
<1>7. \A n \in 1..Len(Tiers) : Tiers[n] \in Rungs
  BY <1>1, ElementOfSeq
<1>8. 1 \in 1..Len(Tiers) /\ Max(S) \in 1..Len(Tiers)
  <2>1. 1 \in 1..Len(Tiers)
    BY <1>2
  <2>2. Max(S) \in 1..Len(Tiers)
    BY <1>3, <1>6, Zenon
  <2> QED
    BY <2>1, <2>2
<1> QED
  BY <1>7, <1>8 DEF Tier, S

LEMMA PercentType == ASSUME NEW x \in Int, NEW pct \in Int PROVE Percent(x, pct) \in Int
<1>1. x * pct \in Int
  OBVIOUS
<1> QED
  BY <1>1 DEF Percent

LEMMA CalmTypes == \A x \in Int : Min({100, x}) \in Int /\ Max({40, x}) \in Int
<1> SUFFICES ASSUME NEW x \in Int
             PROVE  Min({100, x}) \in Int /\ Max({40, x}) \in Int
  OBVIOUS
<1>1. ASSUME NEW a \in Int
      PROVE  Min({a, x}) \in Int /\ Max({a, x}) \in Int
  BY Extremes
<1> QED
  BY <1>1

LEMMA QuantityType ==
    ASSUME NEW f \in Portfolios, NEW s \in Entry, NEW fill \in Nat \ {0}, NEW scaled \in BOOLEAN,
           NEW cfg \in Configs, NEW vix \in Nat
    PROVE  Quantity(f, s, fill, scaled, cfg, vix) \in Int
<1> DEFINE tier   == IF scaled THEN Tier(f.equity) ELSE Tiers[1]
           basis  == IF scaled THEN WorkingCapital(f.equity) ELSE f.equity
           most   == Min({Percent(basis, tier.pct), tier.usd})
           budget == Shrunk(most, f, cfg, vix)
           gap    == IF fill > s.stop THEN fill - s.stop ELSE s.stop - fill
<1>1. f.equity \in Int /\ s.stop \in Int
  BY DEF Portfolios, Entry
<1>2. /\ tier.pct \in Nat /\ tier.usd \in Nat /\ tier.risk \in Nat
      /\ Tier(f.equity).trigger \in Nat /\ Tier(f.equity).keep \in Nat
  BY <1>1, TierType
<1>3. basis \in Int
  <2>1. (f.equity - Tier(f.equity).trigger) * Tier(f.equity).keep \in Int
    BY <1>1, <1>2
  <2>2. ((f.equity - Tier(f.equity).trigger) * Tier(f.equity).keep) \div 100 \in Int
    BY <2>1
  <2> QED
    BY <1>1, <1>2, <2>2 DEF WorkingCapital
<1> HIDE DEF tier, basis
<1>5. most \in Int
  <2>1. tier.pct \in Int /\ tier.usd \in Int
    BY <1>2
  <2>2. Percent(basis, tier.pct) \in Int
    BY <1>3, <2>1, PercentType
  <2> QED
    BY <2>1, <2>2, Extremes
<1>6. cfg.size \in Int
  BY DEF Configs, NoConfig, RegimeConfig
<1> DEFINE calm == IF vix > 0 THEN Max({40, Min({100, 2000 \div vix})}) ELSE 100
<1>7. calm \in Int
  <2>1. CASE vix > 0
    <3> DEFINE x == 2000 \div vix
               y == Min({100, x})
    <3>1. x \in Int
      BY <2>1
    <3> HIDE DEF x
    <3>2. y \in Int
      BY <3>1, CalmTypes
    <3> HIDE DEF y
    <3>3. Max({40, y}) \in Int
      BY <3>2, CalmTypes
    <3> QED
      BY <2>1, <3>3 DEF x, y
  <2> QED
    BY <2>1
<1> HIDE DEF most
<1>8. budget \in Int
  <2> HIDE DEF calm
  <2> DEFINE sized == IF cfg = NoConfig THEN most ELSE Percent(Percent(most, cfg.size), calm)
  <2>1. Percent(most, cfg.size) \in Int
    BY <1>5, <1>6, PercentType
  <2>2. Percent(Percent(most, cfg.size), calm) \in Int
    BY <1>7, <2>1, PercentType
  <2>3. sized \in Int
    BY <1>5, <2>2
  <2>4. budget = IF DrawdownBrake(f) THEN Percent(sized, 50) ELSE sized
    BY DEF Shrunk, calm
  <2> HIDE DEF sized
  <2>5. 50 \in Int
    OBVIOUS
  <2>6. Percent(sized, 50) \in Int
    BY <2>3, <2>5, PercentType
  <2> QED
    BY <2>3, <2>4, <2>6
<1> HIDE DEF budget
<1>9. budget \div fill \in Int
  BY <1>8
<1>10. gap \in Int
  BY <1>1
<1>11. ASSUME gap > 0
       PROVE  Min({budget \div fill, (basis * tier.risk) \div (100 * gap)}) \in Int
  <2>1. basis * tier.risk \in Int
    BY <1>2, <1>3
  <2>2. (basis * tier.risk) \div (100 * gap) \in Int
    BY <1>10, <1>11, <2>1
  <2> QED
    BY <1>9, <2>2, Extremes
<1> QED
  BY <1>9, <1>11 DEF Quantity, budget, most, tier, basis

-----------------------------------------------------------------------------
(* One entry, one exit                                                     *)

LEMMA BalanceType ==
    ASSUME NEW f \in Portfolios
    PROVE  /\ f.cash \in Int /\ f.equity \in Int /\ f.peak \in Int
           /\ f.positions \in Partial(Position) /\ f.trades \in Seq(Trade)
           /\ OpenCost(f.positions) \in Int /\ TotalMade(f.trades) \in Int
           /\ OpenCost(f.positions) = Worth(f.positions, EntryCost)
<1>1. /\ f.cash \in Int /\ f.equity \in Int /\ f.peak \in Int
      /\ f.positions \in Partial(Position) /\ f.trades \in Seq(Trade)
  BY DEF Portfolios
<1>2. OpenCost(f.positions) = Worth(f.positions, EntryCost) /\ EntryCost \in [Position -> Int]
  BY <1>1, Costs
<1>3. OpenCost(f.positions) \in Int
  BY <1>1, <1>2, WorthType
<1>4. TotalMade(f.trades) \in Int
  <2>1. CASE f.trades = <<>>
    <3>1. DOMAIN f.trades = {}
      BY <2>1
    <3> QED
      BY <3>1, SumEmpty DEF TotalMade
  <2>2. CASE f.trades # <<>>
    <3>1. f.trades[1] \in Trade
      BY <1>1, <2>2, EmptySeq, ElementOfSeq
    <3> QED
      BY <1>1, <3>1, TotalMadeAppend
  <2> QED
    BY <2>1, <2>2
<1> QED
  BY <1>1, <1>2, <1>3, <1>4

\* A step of the engine leaves a portfolio with the same balance.
Keeps(f, g) == g \in Portfolios /\ Balance(g) = Balance(f)

\* What an entry s may have added to the positions of f.
Adds(f, g, s) ==
    /\ DOMAIN g.positions \subseteq DOMAIN f.positions \union {s.code}
    /\ s.code \in DOMAIN g.positions \ DOMAIN f.positions => g.positions[s.code].dir = s.dir
    /\ \A d \in DOMAIN f.positions : g.positions[d] = f.positions[d]

LEMMA PortfolioTraded ==
    ASSUME NEW f \in Portfolios, NEW cash \in Int, NEW held \in Partial(Position), NEW trades \in Seq(Trade)
    PROVE  [f EXCEPT !.positions = held, !.cash = cash, !.trades = trades] \in Portfolios
  BY DEF Portfolios

(* What enters at its cost. *)
LEMMA EnterKeeps ==
    ASSUME NEW f \in Portfolios, NEW c \in Codes, c \notin DOMAIN f.positions, NEW p \in Position,
           NEW cost, cost = EntryCost[p],
           NEW h \in Portfolios, h.cash = f.cash - cost,
           h.positions = Put(f.positions, c, p), h.trades = f.trades
    PROVE  /\ Keeps(f, h)
           /\ DOMAIN h.positions = DOMAIN f.positions \union {c}
           /\ h.positions[c] = p
           /\ \A d \in DOMAIN f.positions : d # c => h.positions[d] = f.positions[d]
<1> DEFINE q == Put(f.positions, c, p)
<1>1. /\ f.cash \in Int /\ f.positions \in Partial(Position) /\ f.trades \in Seq(Trade)
      /\ OpenCost(f.positions) \in Int /\ TotalMade(f.trades) \in Int
      /\ OpenCost(f.positions) = Worth(f.positions, EntryCost)
  BY BalanceType
<1>2. /\ q \in Partial(Position) /\ DOMAIN q = DOMAIN f.positions \union {c}
      /\ q[c] = p /\ \A d \in DOMAIN f.positions : d # c => q[d] = f.positions[d]
  <2> DEFINE m == f.positions
  <2>1. m \in Partial(Position)
    BY <1>1
  <2> HIDE DEF m
  <2>2. Put(m, c, p) \in Partial(Position)
    BY <2>1, PutKeeps
  <2>3. DOMAIN Put(m, c, p) = DOMAIN m \union {c}
    BY <2>1, PutKeeps
  <2>4. Put(m, c, p)[c] = p
    BY DEF Put
  <2>5. \A d \in DOMAIN m : d # c => Put(m, c, p)[d] = m[d]
    BY DEF Put
  <2> QED
    BY <2>2, <2>3, <2>4, <2>5 DEF m
<1>3. cost \in Int
  BY Costs
<1>4. OpenCost(q) = OpenCost(f.positions) + cost
  <2>1. Worth(q, EntryCost) = Worth(f.positions, EntryCost) + EntryCost[p]
    BY <1>1, Costs, WorthPut
  <2>2. OpenCost(q) = Worth(q, EntryCost)
    BY <1>2, Costs
  <2> QED
    BY <1>1, <2>1, <2>2
<1>5. h.positions = q
  OBVIOUS
<1> HIDE DEF q
<1>6. Balance(h) = Balance(f)
  BY <1>1, <1>3, <1>4, <1>5 DEF Balance
<1> QED
  BY <1>2, <1>5, <1>6 DEF Keeps

LEMMA Opened ==
    ASSUME NEW f \in Portfolios, NEW s \in Entry, NEW open \in Nat, open \notin 1..Slip[s.code],
           NEW scaled \in BOOLEAN, NEW cfg \in Configs, NEW vix \in Nat
    PROVE  /\ Keeps(f, OpenPosition(f, s, open, scaled, cfg, vix))
           /\ Adds(f, OpenPosition(f, s, open, scaled, cfg, vix), s)
<1> DEFINE fill == Fill(s.code, open, IF s.dir = "LONG" THEN "BUY" ELSE "SELL")
           qty  == Quantity(f, s, fill, scaled, cfg, vix)
           cost == qty * fill + Commission(qty)
           p    == [dir |-> s.dir, qty |-> qty, entry |-> fill,
                    stop |-> s.stop, take |-> s.take, held |-> 0]
           g    == OpenPosition(f, s, open, scaled, cfg, vix)
           h    == [f EXCEPT !.cash = @ - cost, !.positions = Put(@, s.code, p)]
<1>1. CASE g = f
  BY <1>1 DEF Keeps, Adds
<1>2. CASE g # f
  <2>1. s.code \notin DOMAIN f.positions /\ open > 0 /\ ~(qty <= 0) /\ g = h
    BY <1>2 DEF OpenPosition
  <2>2. s.code \in Codes /\ s.dir \in {"LONG", "SHORT"} /\ s.stop \in Int /\ s.take \in Int
    BY DEF Entry
  <2>3. Slip[s.code] \in Nat /\ Fee \in Int
    BY <2>2, Parameters
  <2>4. fill \in Nat \ {0}
    BY <2>1, <2>2, <2>3 DEF Fill
  <2> HIDE DEF fill
  <2>5. qty \in Int
    BY <2>4, QuantityType
  <2> HIDE DEF qty
  <2>6. qty \in Nat /\ qty * fill \in Int /\ cost \in Int
    <3>1. qty * fill \in Int
      BY <2>4, <2>5
    <3>2. qty * Fee \in Int
      BY <2>3, <2>5
    <3> QED
      BY <2>1, <2>5, <3>1, <3>2 DEF Commission
  <2>7. p \in Position
    BY <2>2, <2>4, <2>6 DEF Position
  <2>8. EntryCost[p] = cost
    BY <2>7 DEF EntryCost
  <2> HIDE DEF p, cost
  <2>9. h.cash = f.cash - cost /\ h.positions = Put(f.positions, s.code, p) /\ h.trades = f.trades
    BY DEF Portfolios
  <2>10. f.cash - cost \in Int /\ Put(f.positions, s.code, p) \in Partial(Position)
    <3>1. f.cash \in Int /\ f.positions \in Partial(Position)
      BY BalanceType
    <3>2. Put(f.positions, s.code, p) \in Partial(Position)
      BY <2>2, <2>7, <3>1, PutKeeps
    <3> QED
      BY <2>6, <3>1, <3>2
  <2>11. h \in Portfolios
    <3> DEFINE x == f.cash - cost
               q == Put(f.positions, s.code, p)
    <3>1. h = [f EXCEPT !.cash = x, !.positions = q]
      BY DEF Portfolios
    <3> HIDE DEF h, x, q
    <3> QED
      BY <2>10, <3>1 DEF Portfolios, x, q
  <2> HIDE DEF h, g
  <2>12. /\ Keeps(f, h)
         /\ DOMAIN h.positions = DOMAIN f.positions \union {s.code}
         /\ h.positions[s.code] = p
         /\ \A d \in DOMAIN f.positions : d # s.code => h.positions[d] = f.positions[d]
    <3> DEFINE c == s.code
    <3>1. /\ c \in Codes /\ c \notin DOMAIN f.positions /\ h.cash = f.cash - cost
          /\ h.positions = Put(f.positions, c, p) /\ h.trades = f.trades
      BY <2>1, <2>2, <2>9
    <3> HIDE DEF c
    <3>2. /\ Keeps(f, h)
          /\ DOMAIN h.positions = DOMAIN f.positions \union {c}
          /\ h.positions[c] = p
      BY <2>7, <2>8, <2>11, <3>1, EnterKeeps
    <3>3. \A d \in DOMAIN f.positions : d # c => h.positions[d] = f.positions[d]
      BY <2>7, <2>8, <2>11, <3>1, EnterKeeps
    <3> QED
      BY <3>2, <3>3 DEF c
  <2>13. p.dir = s.dir
    BY DEF p
  <2> QED
    BY <2>1, <2>12, <2>13 DEF Adds, g
<1> QED
  BY <1>1, <1>2

LEMMA CloseKeeps ==
    ASSUME NEW f \in Portfolios, NEW c \in DOMAIN f.positions, NEW bar, bar.close \in Int,
           NEW reason \in {"stop_loss", "take_profit", "time_stop", "end_of_backtest"}
    PROVE  /\ Keeps(f, ClosePosition(f, c, bar, reason))
           /\ DOMAIN ClosePosition(f, c, bar, reason).positions = DOMAIN f.positions \ {c}
           /\ \A d \in DOMAIN f.positions \ {c} :
                 ClosePosition(f, c, bar, reason).positions[d] = f.positions[d]
<1> DEFINE p    == f.positions[c]
           fill == Fill(c, ExitPrice(p, bar, reason), IF p.dir = "LONG" THEN "SELL" ELSE "BUY")
           gain == IF p.dir = "LONG" THEN fill - p.entry ELSE p.entry - fill
           t    == [code |-> c, qty |-> p.qty, held |-> p.held, reason |-> reason,
                    pnl |-> gain * p.qty - 2 * Commission(p.qty) - BorrowCost(p),
                    borrow |-> BorrowCost(p)]
           g    == ClosePosition(f, c, bar, reason)
           rest == Restrict(f.positions, DOMAIN f.positions \ {c})
<1>1. /\ f.cash \in Int /\ f.positions \in Partial(Position) /\ f.trades \in Seq(Trade)
      /\ OpenCost(f.positions) \in Int /\ TotalMade(f.trades) \in Int
      /\ OpenCost(f.positions) = Worth(f.positions, EntryCost)
  BY BalanceType
<1>2. p \in Position /\ c \in Codes
  BY <1>1 DEF Partial
<1>3. /\ p.dir \in {"LONG", "SHORT"} /\ p.qty \in Nat /\ p.entry \in Int /\ p.stop \in Int
      /\ p.take \in Int /\ p.held \in Nat
  BY <1>2 DEF Position
<1>4. Slip[c] \in Int /\ Fee \in Int /\ BorrowUnit \in Nat \ {0}
  BY <1>2, Parameters
<1>5. fill \in Int
  BY <1>3, <1>4 DEF Fill, ExitPrice
<1>6. BorrowCost(p) \in Int
  <2>1. p.entry * p.qty \in Int
    BY <1>3
  <2>2. p.entry * p.qty * p.held \in Int
    BY <1>3, <2>1
  <2>3. (p.entry * p.qty * p.held) \div BorrowUnit \in Int
    BY <1>4, <2>2
  <2> QED
    BY <2>3 DEF BorrowCost
<1>7. EntryCost[p] = p.qty * p.entry + Commission(p.qty)
  BY <1>2 DEF EntryCost
<1>8. g = [f EXCEPT !.positions = rest, !.cash = @ + Proceeds(p, fill), !.trades = Append(@, t)]
  BY DEF ClosePosition
<1> HIDE DEF fill, p, rest
<1>9. /\ Commission(p.qty) \in Int /\ Proceeds(p, fill) \in Int /\ gain * p.qty \in Int
      /\ EntryCost[p] \in Int
      /\ Proceeds(p, fill) = EntryCost[p] + gain * p.qty - Commission(p.qty)
  <2>1. Commission(p.qty) \in Int
    BY <1>3, <1>4 DEF Commission
  <2>2. /\ p.qty * p.entry \in Int /\ p.qty * fill \in Int
        /\ p.qty * (2 * p.entry - fill) = 2 * (p.qty * p.entry) - p.qty * fill
        /\ (fill - p.entry) * p.qty = p.qty * fill - p.qty * p.entry
        /\ (p.entry - fill) * p.qty = p.qty * p.entry - p.qty * fill
    BY <1>3, <1>5, Products
  <2> DEFINE a == p.qty * p.entry
             b == p.qty * fill
  <2>3. /\ a \in Int /\ b \in Int
        /\ gain * p.qty = IF p.dir = "LONG" THEN b - a ELSE a - b
        /\ Proceeds(p, fill) = IF p.dir = "LONG" THEN b ELSE 2 * a - b
        /\ EntryCost[p] = a + Commission(p.qty)
    BY <1>7, <2>2 DEF Proceeds
  <2> HIDE DEF a, b
  <2> QED
    BY <2>1, <2>3
<1> HIDE DEF gain
<1>10. t \in Trade
  BY <1>2, <1>3, <1>6, <1>9 DEF Trade
<1>11. Made(t) = gain * p.qty - Commission(p.qty)
  BY <1>6, <1>9 DEF Made
<1> HIDE DEF t
<1>12. /\ rest \in Partial(Position) /\ DOMAIN rest = DOMAIN f.positions \ {c}
       /\ \A d \in DOMAIN f.positions \ {c} : rest[d] = f.positions[d]
  BY <1>1, RestrictKeeps DEF rest
<1>13. OpenCost(rest) \in Int /\ OpenCost(f.positions) = EntryCost[p] + OpenCost(rest)
  <2>1. Worth(f.positions, EntryCost) = EntryCost[p] + Worth(rest, EntryCost)
    BY <1>1, Costs, WorthOut DEF p, rest
  <2>2. OpenCost(rest) = Worth(rest, EntryCost) /\ Worth(rest, EntryCost) \in Int
    BY <1>12, Costs, WorthType
  <2> QED
    BY <1>1, <2>1, <2>2
<1>14. TotalMade(Append(f.trades, t)) = TotalMade(f.trades) + Made(t)
  BY <1>1, <1>10, TotalMadeAppend
<1>15. /\ g.cash = f.cash + Proceeds(p, fill) /\ g.positions = rest
       /\ g.trades = Append(f.trades, t)
  BY <1>8 DEF Portfolios
<1>16. Append(f.trades, t) \in Seq(Trade)
  BY <1>1, <1>10, AppendProperties
<1>17. g \in Portfolios
  <2> DEFINE x == f.cash + Proceeds(p, fill)
             y == Append(f.trades, t)
  <2>1. g = [f EXCEPT !.positions = rest, !.cash = x, !.trades = y]
    BY <1>8 DEF Portfolios
  <2>2. x \in Int
    BY <1>1, <1>9
  <2>3. y \in Seq(Trade)
    BY <1>16
  <2> HIDE DEF g, x, y
  <2> QED
    BY <1>12, <2>1, <2>2, <2>3, PortfolioTraded
<1> HIDE DEF g
<1>18. Balance(g) = Balance(f)
  <2> DEFINE x == gain * p.qty
  <2>1. /\ x \in Int /\ Proceeds(p, fill) = EntryCost[p] + x - Commission(p.qty)
        /\ Made(t) = x - Commission(p.qty)
    BY <1>9, <1>11
  <2> HIDE DEF x
  <2>2. Balance(g) = f.cash + Proceeds(p, fill) + OpenCost(rest) - TotalMade(Append(f.trades, t))
    BY <1>15 DEF Balance
  <2>3. Balance(f) = f.cash + OpenCost(f.positions) - TotalMade(f.trades)
    BY DEF Balance
  <2> DEFINE before == OpenCost(f.positions)
             after  == OpenCost(rest)
             made   == TotalMade(f.trades)
             all    == TotalMade(Append(f.trades, t))
             cost   == EntryCost[p]
             fees   == Commission(p.qty)
             got    == Proceeds(p, fill)
  <2>4. /\ f.cash \in Int /\ after \in Int /\ made \in Int /\ cost \in Int /\ fees \in Int
        /\ x \in Int /\ before = cost + after /\ all = made + (x - fees) /\ got = cost + x - fees
    BY <1>1, <1>9, <1>13, <1>14, <2>1
  <2>5. Balance(g) = f.cash + got + after - all /\ Balance(f) = f.cash + before - made
    BY <2>2, <2>3
  <2> HIDE DEF before, after, made, all, cost, fees, got
  <2> QED
    BY <2>4, <2>5
<1> QED
  BY <1>12, <1>15, <1>17, <1>18 DEF Keeps, g

LEMMA AgedType ==
    ASSUME NEW p \in Position, NEW c \in Codes, NEW bar \in Bar
    PROVE  /\ Aged(p, c, bar) \in Position
           /\ EntryCost[Aged(p, c, bar)] = EntryCost[p]
           /\ ExitReason(Aged(p, c, bar), bar) \in {"none", "stop_loss", "take_profit", "time_stop"}
<1>1. /\ p.dir \in {"LONG", "SHORT"} /\ p.qty \in Nat /\ p.entry \in Int /\ p.stop \in Int
      /\ p.take \in Int /\ p.held \in Nat /\ bar.close \in Int /\ Atr[c] \in Int
  BY Parameters DEF Position, Bar
<1> DEFINE q == [p EXCEPT !.held = @ + 1]
<1>2. /\ q \in Position /\ q.stop = p.stop /\ q.qty = p.qty /\ q.entry = p.entry
      /\ q.dir = p.dir
  BY DEF Position
<1> HIDE DEF q
<1>3. TrailedStop(q, c, bar) \in Int
  BY <1>1, <1>2 DEF TrailedStop
<1>4. [q EXCEPT !.stop = TrailedStop(q, c, bar)] \in Position
  BY <1>2, <1>3 DEF Position
<1>5. /\ [q EXCEPT !.stop = TrailedStop(q, c, bar)].qty = p.qty
      /\ [q EXCEPT !.stop = TrailedStop(q, c, bar)].entry = p.entry
  BY <1>2 DEF Position
<1>6. Aged(p, c, bar) \in {q, [q EXCEPT !.stop = TrailedStop(q, c, bar)]}
  BY DEF Aged, q
<1>7. /\ Aged(p, c, bar) \in Position
      /\ Aged(p, c, bar).qty = p.qty /\ Aged(p, c, bar).entry = p.entry
  BY <1>2, <1>4, <1>5, <1>6
<1>8. EntryCost[Aged(p, c, bar)] = EntryCost[p]
  BY <1>7 DEF EntryCost
<1>9. ExitReason(Aged(p, c, bar), bar) \in {"none", "stop_loss", "take_profit", "time_stop"}
  BY Zenon DEF ExitReason
<1> QED
  BY <1>7, <1>8, <1>9

LEMMA ExitKeeps ==
    ASSUME NEW f \in Portfolios, NEW c \in DOMAIN f.positions, NEW bar \in Bar
    PROVE  /\ Keeps(f, Exit(f, c, bar))
           /\ DOMAIN f.positions \ {c} \subseteq DOMAIN Exit(f, c, bar).positions
           /\ DOMAIN Exit(f, c, bar).positions \subseteq DOMAIN f.positions
<1> DEFINE p    == f.positions[c]
           aged == Aged(p, c, bar)
           held == [f.positions EXCEPT ![c] = aged]
           kept == [f EXCEPT !.positions[c] = aged]
           why  == ExitReason(aged, bar)
<1>1. /\ f.positions \in Partial(Position) /\ f.trades \in Seq(Trade)
      /\ OpenCost(f.positions) = Worth(f.positions, EntryCost)
  BY BalanceType
<1>2. p \in Position /\ c \in Codes /\ bar.close \in Int
  BY <1>1 DEF Partial, Bar
<1>3. aged \in Position /\ EntryCost[aged] = EntryCost[p]
      /\ why \in {"none", "stop_loss", "take_profit", "time_stop"}
  BY <1>2, AgedType
<1> HIDE DEF aged, why
<1>4. held \in Partial(Position) /\ DOMAIN held = DOMAIN f.positions
  BY <1>1, <1>3 DEF Partial
<1>5. /\ kept = [f EXCEPT !.positions = held]
      /\ kept.positions = held /\ kept.cash = f.cash /\ kept.trades = f.trades
  BY DEF Portfolios
<1>6. OpenCost(held) = OpenCost(f.positions)
  <2>1. \A d \in DOMAIN f.positions : EntryCost[held[d]] = EntryCost[f.positions[d]]
    BY <1>3
  <2> HIDE DEF held
  <2>2. Worth(held, EntryCost) = Worth(f.positions, EntryCost)
    BY <1>1, <1>4, <2>1, Costs, WorthSame
  <2> QED
    BY <1>1, <1>4, <2>2, Costs
<1>7. kept \in Portfolios
  BY <1>4, <1>5 DEF Portfolios
<1>8. Exit(f, c, bar) = IF why = "none" THEN kept ELSE ClosePosition(kept, c, bar, why)
  BY DEF Exit, why, aged
<1> HIDE DEF kept, held
<1>9. Keeps(f, kept)
  BY <1>5, <1>6, <1>7 DEF Keeps, Balance
<1>10. CASE why = "none"
  BY <1>4, <1>5, <1>8, <1>9, <1>10
<1>11. CASE why # "none"
  <2>1. c \in DOMAIN kept.positions
    BY <1>4, <1>5
  <2>2. /\ Keeps(kept, ClosePosition(kept, c, bar, why))
        /\ DOMAIN ClosePosition(kept, c, bar, why).positions = DOMAIN kept.positions \ {c}
    <3>1. why \in {"stop_loss", "take_profit", "time_stop", "end_of_backtest"}
      BY <1>3, <1>11
    <3> QED
      BY <1>2, <1>7, <2>1, <3>1, CloseKeeps
  <2> QED
    BY <1>4, <1>5, <1>8, <1>9, <1>11, <2>2 DEF Keeps
<1> QED
  BY <1>10, <1>11

(* Marking to market moves the equity and its peak, nothing else. *)
LEMMA MarkKeeps ==
    ASSUME NEW f \in Portfolios, NEW bars \in [Codes -> Bar \union {NoBar}]
    PROVE  /\ Keeps(f, MarkToMarket(f, bars))
           /\ MarkToMarket(f, bars).positions = f.positions
<1> DEFINE D     == DOMAIN f.positions
           v     == [c \in D |-> Value(f.positions[c], PriceOr(f.positions[c], bars[c]))]
           worth == SumFunctionOnSet(v, D)
           eq    == f.cash + worth
           g     == [f EXCEPT !.equity = eq, !.peak = Max({@, eq})]
<1>1. f.cash \in Int /\ f.peak \in Int /\ f.positions \in Partial(Position)
  BY BalanceType
<1>2. IsFiniteSet(D) /\ D \subseteq Codes /\ \A c \in D : f.positions[c] \in Position
  <2>1. D \subseteq Codes /\ \A c \in D : f.positions[c] \in Position
    BY <1>1 DEF Partial
  <2>2. IsFiniteSet(D)
    BY <2>1, Parameters, FS_Subset
  <2> QED
    BY <2>1, <2>2
<1>3. ASSUME NEW c \in D
      PROVE  v[c] \in Int
  <2> DEFINE p == f.positions[c]
             x == PriceOr(p, bars[c])
  <2>1. p.qty \in Int /\ p.entry \in Int
    BY <1>2 DEF Position
  <2>2. bars[c] \in Bar \union {NoBar}
    BY <1>2
  <2>3. bars[c].close \in Int
    BY <2>2 DEF Bar, NoBar
  <2>4. x \in Int
    BY <2>1, <2>3 DEF PriceOr
  <2> HIDE DEF x
  <2>5. p.qty * x \in Int
    BY <2>1, <2>4
  <2>6. p.qty * (2 * p.entry - x) \in Int
    BY <2>1, <2>4
  <2> QED
    BY <2>5, <2>6 DEF Value, x
<1> HIDE DEF v, D
<1>4. worth \in Int
  BY <1>2, <1>3, SumType
<1>5. MarkToMarket(f, bars) = g
  BY DEF MarkToMarket, v, D
<1> HIDE DEF worth
<1>6. eq \in Int
  BY <1>1, <1>4
<1> HIDE DEF eq
<1>7. Max({f.peak, eq}) \in Int
  BY <1>1, <1>6, Extremes
<1>8. g \in Portfolios /\ g.positions = f.positions /\ g.cash = f.cash /\ g.trades = f.trades
  BY <1>6, <1>7 DEF Portfolios
<1> HIDE DEF g
<1> QED
  BY <1>5, <1>8 DEF Keeps, Balance

-----------------------------------------------------------------------------
(* The exits of a bar, and those of the last one                           *)

LEMMA ExitsKeep ==
    ASSUME NEW f \in Portfolios, NEW bars \in [Codes -> Bar \union {NoBar}]
    PROVE  /\ Keeps(f, ProcessExits(f, bars))
           /\ DOMAIN ProcessExits(f, bars).positions \subseteq DOMAIN f.positions
<1> DEFINE D        == {c \in DOMAIN f.positions : ~Missing(bars[c])}
           first(s) == CHOOSE x \in s : TRUE
           pick     == [s \in SUBSET D |-> first(s)]
           next(s, a) == Exit(a, first(s), bars[first(s)])
           step     == [p \in (SUBSET D) \X Portfolios |-> next(p[1], p[2])]
           Inv      == {p \in (SUBSET D) \X Portfolios :
                           /\ Keeps(f, p[2]) /\ DOMAIN p[2].positions \subseteq DOMAIN f.positions
                           /\ D \ p[1] \subseteq DOMAIN p[2].positions}
           iter     == CHOOSE iter : iter = [s \in SUBSET D |->
                           IF s = {} THEN f ELSE next(s, iter[s \ {first(s)}])]
<1>1. ProcessExits(f, bars) = iter[D]
  BY DEF ProcessExits, FoldSet, MapThenFoldSet
<1>2. IsPick(pick, D) /\ \A s \in SUBSET D : pick[s] = first(s) /\ (s # {} => first(s) \in s)
  <2>1. D \subseteq DOMAIN f.positions /\ IsFiniteSet(DOMAIN f.positions)
    BY BalanceType, Costs, WorthType
  <2>2. IsFiniteSet(D)
    BY <2>1, FS_Subset
  <2> HIDE DEF D
  <2> QED
    BY <2>2, AnyIsPick
<1>3. <<{}, f>> \in Inv
  BY DEF Keeps
<1>4. ASSUME NEW s \in SUBSET D, s # {}, NEW a, <<s \ {first(s)}, a>> \in Inv
      PROVE  a \in Portfolios /\ <<s, next(s, a)>> \in Inv
  <2> DEFINE c == first(s)
  <2>1. /\ c \in s /\ a \in Portfolios /\ Keeps(f, a)
        /\ DOMAIN a.positions \subseteq DOMAIN f.positions /\ D \ (s \ {c}) \subseteq DOMAIN a.positions
    BY <1>2, <1>4
  <2>2. bars[c] \in Bar
    <3>1. DOMAIN f.positions \subseteq Codes
      BY BalanceType DEF Partial
    <3> QED
      BY <2>1, <3>1 DEF Missing
  <2> HIDE DEF first
  <2>3. /\ Keeps(a, Exit(a, c, bars[c]))
        /\ DOMAIN a.positions \ {c} \subseteq DOMAIN Exit(a, c, bars[c]).positions
        /\ DOMAIN Exit(a, c, bars[c]).positions \subseteq DOMAIN a.positions
    BY <2>1, <2>2, ExitKeeps
  <2> QED
    BY <2>1, <2>3 DEF Keeps
<1> HIDE DEF D, Inv, next
<1>5. ASSUME NEW s \in SUBSET D, NEW a \in Portfolios
      PROVE  step[<<s, a>>] = next(s, a)
  OBVIOUS
<1> HIDE DEF step, pick, first
<1>6. Carries(Inv, f, step, pick, D)
  BY <1>2, <1>3, <1>4, <1>5 DEF Carries
<1>7. PICK F : F = [s \in SUBSET D |-> F[s]] /\ IsRun(F, f, step, pick, D)
  BY <1>2, RunExists
<1>8. \A s \in SUBSET D : <<s, F[s]>> \in Inv
  BY <1>2, <1>6, <1>7, FoldCarries
<1>9. iter = [s \in SUBSET D |-> IF s = {} THEN f ELSE next(s, iter[s \ {first(s)}])]
  <2>1. ASSUME NEW s \in SUBSET D
        PROVE  F[s] = IF s = {} THEN f ELSE next(s, F[s \ {first(s)}])
    BY <1>2, <1>4, <1>5, <1>7, <1>8 DEF IsRun
  <2> QED
    BY <1>7, <2>1
<1> HIDE DEF iter
<1>10. <<D, iter[D]>> \in Inv
  <2>1. ASSUME NEW s \in SUBSET D,
               s = {} \/ <<s \ {pick[s]}, iter[s \ {pick[s]}]>> \in Inv
        PROVE  <<s, iter[s]>> \in Inv
    <3>1. CASE s = {}
      BY <1>3, <1>9, <3>1
    <3>2. CASE s # {}
      <4>1. iter[s] = next(s, iter[s \ {first(s)}]) /\ pick[s] = first(s)
        BY <1>2, <1>9, <3>2
      <4> QED
        BY <1>4, <2>1, <3>2, <4>1
    <3> QED
      BY <3>1, <3>2
  <2> QED
    BY <1>2, <2>1, RunCarries
<1> QED
  BY <1>1, <1>10 DEF Inv

(* CloseOut's fold: every position that goes leaves the balance as it is. *)
LEMMA ClosesKeep ==
    ASSUME NEW f \in Portfolios, NEW S, S \subseteq DOMAIN f.positions,
           \A c \in S : LastBar(c).close \in Int
    PROVE  LET g == FoldSet(LAMBDA c, h : ClosePosition(h, c, LastBar(c), "end_of_backtest"), f, S)
           IN  Keeps(f, g) /\ DOMAIN g.positions \subseteq DOMAIN f.positions
<1> DEFINE g == FoldSet(LAMBDA c, h : ClosePosition(h, c, LastBar(c), "end_of_backtest"), f, S)
<1> DEFINE D          == S
           first(s)   == CHOOSE x \in s : TRUE
           pick       == [s \in SUBSET D |-> first(s)]
           Accs       == Portfolios
           next(s, a) == ClosePosition(a, first(s), LastBar(first(s)), "end_of_backtest")
           step       == [p \in (SUBSET D) \X Accs |-> next(p[1], p[2])]
           Inv        == {p \in (SUBSET D) \X Accs : 
                           /\ Keeps(f, p[2]) /\ DOMAIN p[2].positions \subseteq DOMAIN f.positions
                           /\ D \ p[1] \subseteq DOMAIN p[2].positions}
           base       == f
           iter       == CHOOSE iter : iter = [s \in SUBSET D |->
                             IF s = {} THEN base ELSE next(s, iter[s \ {first(s)}])]
<1>1. g = iter[D]
  BY DEF FoldSet, MapThenFoldSet
<1>2. IsPick(pick, D) /\ \A s \in SUBSET D : pick[s] = first(s) /\ (s # {} => first(s) \in s)
  <2>1. IsFiniteSet(D)
    BY BalanceType, Costs, WorthType, FS_Subset
  <2> HIDE DEF D
  <2> QED
    BY <2>1, AnyIsPick DEF IsPick
<1>3. <<{}, base>> \in Inv
  BY DEF Keeps
<1>4. ASSUME NEW s \in SUBSET D, s # {}, NEW a, <<s \ {first(s)}, a>> \in Inv
      PROVE  a \in Accs /\ <<s, next(s, a)>> \in Inv
  <2> DEFINE c == first(s)
  <2>1. /\ c \in s /\ a \in Portfolios /\ Keeps(f, a)
        /\ DOMAIN a.positions \subseteq DOMAIN f.positions /\ D \ (s \ {c}) \subseteq DOMAIN a.positions
    BY <1>2, <1>4
  <2> HIDE DEF first
  <2> DEFINE b == ClosePosition(a, c, LastBar(c), "end_of_backtest")
  <2>2. c \in DOMAIN a.positions /\ LastBar(c).close \in Int
    BY <2>1
  <2>3. Keeps(a, b) /\ DOMAIN b.positions = DOMAIN a.positions \ {c}
    BY <2>1, <2>2, CloseKeeps
  <2> HIDE DEF b
  <2>4. <<s, b>> \in Inv
    BY <2>1, <2>3 DEF Keeps
  <2> QED
    BY <2>1, <2>4 DEF b
<1> HIDE DEF D, Inv, next, Accs, base
<1>5. ASSUME NEW s \in SUBSET D, NEW a \in Accs
      PROVE  step[<<s, a>>] = next(s, a)
  OBVIOUS
<1> HIDE DEF step, pick, first
<1>6. Carries(Inv, base, step, pick, D)
  BY <1>2, <1>3, <1>4, <1>5 DEF Carries
<1>7. PICK F : F = [s \in SUBSET D |-> F[s]] /\ IsRun(F, base, step, pick, D)
  BY <1>2, RunExists
<1>8. \A s \in SUBSET D : <<s, F[s]>> \in Inv
  BY <1>2, <1>6, <1>7, FoldCarries
<1>9. iter = [s \in SUBSET D |-> IF s = {} THEN base ELSE next(s, iter[s \ {first(s)}])]
  <2>1. ASSUME NEW s \in SUBSET D
        PROVE  F[s] = IF s = {} THEN base ELSE next(s, F[s \ {first(s)}])
    BY <1>2, <1>4, <1>5, <1>7, <1>8 DEF IsRun
  <2> QED
    BY <1>7, <2>1
<1> HIDE DEF iter
<1>10. <<D, iter[D]>> \in Inv
  <2>1. ASSUME NEW s \in SUBSET D, s = {} \/ <<s \ {pick[s]}, iter[s \ {pick[s]}]>> \in Inv
        PROVE  <<s, iter[s]>> \in Inv
    <3>1. CASE s = {}
      BY <1>3, <1>9, <3>1
    <3>2. CASE s # {}
      <4>1. iter[s] = next(s, iter[s \ {first(s)}]) /\ pick[s] = first(s)
        BY <1>2, <1>9, <3>2
      <4> QED
        BY <1>4, <2>1, <3>2, <4>1
    <3> QED
      BY <3>1, <3>2
  <2> QED
    BY <1>2, <2>1, RunCarries
<1> QED
  BY <1>1, <1>10 DEF Inv

-----------------------------------------------------------------------------
(* What is filled at the open                                              *)

LEMMA DayTypes ==
    ASSUME NEW d \in Days
    PROVE  /\ d.vix \in Nat /\ d.sma \in Nat /\ d.bars \in [Codes -> Bar \union {NoBar}]
           /\ \A c \in Codes : d.bars[c] \in Bar \union {NoBar}
           /\ \A c \in Codes : ~Missing(d.bars[c]) =>
                 /\ d.bars[c] \in Bar
                 /\ d.bars[c].open \in Nat /\ d.bars[c].close \in Nat
                 /\ d.bars[c].open \notin 1..Slip[c]
           /\ \A c \in Codes : d.bars[c].close \in Nat
           /\ Config(d) \in Configs
<1>1. /\ d.vix \in Nat /\ d.sma \in Nat /\ d.bars \in [Codes -> Bar \union {NoBar}]
      /\ \A c \in Codes : ~Missing(d.bars[c]) => d.bars[c].open \notin 1..Slip[c]
  BY BacktestAssumption, Zenon
<1>2. \A c \in Codes : d.bars[c] \in Bar \union {NoBar}
  BY <1>1
<1>3. \A b \in Bar \union {NoBar} : ~Missing(b) => b \in Bar
  BY DEF Missing
<1>4. \A b \in Bar \union {NoBar} : b.close \in Nat
  BY DEF Bar, NoBar
<1>5. \A b \in Bar : b.open \in Nat
  BY DEF Bar
<1>6. Config(d) \in Configs
  BY DEF Config, Configs, RegimeOn, ClassifyRegime
<1> QED
  BY <1>1, <1>2, <1>3, <1>4, <1>5, <1>6, Zenon

LEMMA OptionTypes ==
    ASSUME opts \in Options
    PROVE  opts.scaled \in BOOLEAN /\ opts.mode \in {"plain", "hybrid", "pit"}
  BY BacktestAssumption

\* A position c of g that f has not was wanted by one of the pending signals.
Foreseen(f, g, d, reserved) ==
    \A c \in DOMAIN g.positions \ DOMAIN f.positions :
        \E n \in DOMAIN pending :
            /\ pending[n].code = c /\ g.positions[c].dir = pending[n].dir
            /\ Config(d) # NoConfig => pending[n].strategy \in Config(d).allowed
            /\ c \notin reserved

LEMMA TryKeeps ==
    ASSUME NEW acc \in [pf : Portfolios, on : BOOLEAN], NEW s \in Entry, NEW d \in Days,
           NEW reserved, opts \in Options
    PROVE  /\ Try(acc, s, d, reserved) \in [pf : Portfolios, on : BOOLEAN]
           /\ Keeps(acc.pf, Try(acc, s, d, reserved).pf)
           /\ \/ Try(acc, s, d, reserved).pf = acc.pf
              \/ Wanted(acc.pf, s, d, reserved) /\ Adds(acc.pf, Try(acc, s, d, reserved).pf, s)
<1> DEFINE t == Try(acc, s, d, reserved)
           f == acc.pf
           g == OpenPosition(f, s, d.bars[s.code].open, opts.scaled, Config(d), d.vix)
<1>1. CASE t = acc
  BY <1>1 DEF Keeps
<1>2. CASE t = [acc EXCEPT !.on = FALSE]
  BY <1>2 DEF Keeps
<1>3. CASE Wanted(f, s, d, reserved) /\ t = [acc EXCEPT !.pf = g]
  <2>1. s.code \in Codes /\ ~Missing(d.bars[s.code]) /\ f \in Portfolios
    BY <1>3 DEF Entry, Wanted
  <2>2. /\ d.bars[s.code].open \in Nat /\ d.bars[s.code].open \notin 1..Slip[s.code]
        /\ d.vix \in Nat /\ Config(d) \in Configs
    BY <2>1, DayTypes
  <2>3. opts.scaled \in BOOLEAN
    BY OptionTypes
  <2> DEFINE open == d.bars[s.code].open
             cfg  == Config(d)
             vix  == d.vix
             scaled == opts.scaled
  <2>4. g = OpenPosition(f, s, open, scaled, cfg, vix)
    OBVIOUS
  <2>5. /\ open \in Nat /\ open \notin 1..Slip[s.code] /\ vix \in Nat /\ cfg \in Configs
        /\ scaled \in BOOLEAN
    BY <2>2, <2>3
  <2> HIDE DEF open, cfg, vix, scaled, f, g
  <2>6. Keeps(f, g) /\ Adds(f, g, s)
    BY <2>1, <2>4, <2>5, Opened
  <2>7. t.pf = g /\ t \in [pf : Portfolios, on : BOOLEAN]
    BY <1>3, <2>6 DEF Keeps
  <2> HIDE DEF t
  <2> QED
    BY <1>3, <2>6, <2>7 DEF f, t
<1> QED
  BY <1>1, <1>2, <1>3 DEF Try

LEMMA PendingKeeps ==
    ASSUME NEW f \in Portfolios, NEW d \in Days, NEW reserved,
           opts \in Options, pending \in Seq(Entry)
    PROVE  /\ Keeps(f, ExecutePending(f, d, reserved))
           /\ Foreseen(f, ExecutePending(f, d, reserved), d, reserved)
<1> DEFINE D          == DOMAIN pending
           first(s)   == Max(s)
           pick       == [s \in SUBSET D |-> first(s)]
           Accs       == [pf : Portfolios, on : BOOLEAN]
           next(s, a) == Try(a, pending[first(s)], d, reserved)
           step       == [p \in (SUBSET D) \X Accs |-> next(p[1], p[2])]
           Inv        == {p \in (SUBSET D) \X Accs : 
                           Keeps(f, p[2].pf) /\ Foreseen(f, p[2].pf, d, reserved)}
           base       == [pf |-> f, on |-> TRUE]
           iter       == CHOOSE iter : iter = [s \in SUBSET D |->
                             IF s = {} THEN base ELSE next(s, iter[s \ {first(s)}])]
<1>1. ExecutePending(f, d, reserved) = iter[D].pf
  BY DEF ExecutePending, FoldLeft, MapThenFoldSet
<1>2. IsPick(pick, D) /\ \A s \in SUBSET D : pick[s] = first(s) /\ (s # {} => first(s) \in s)
  <2>1. IsFiniteSet(D) /\ D \subseteq Int
    BY FS_Interval
  <2> HIDE DEF D
  <2> QED
    BY <2>1, MaxIsPick DEF IsPick
<1>3. <<{}, base>> \in Inv
  BY DEF Keeps, Foreseen
<1>4. ASSUME NEW s \in SUBSET D, s # {}, NEW a, <<s \ {first(s)}, a>> \in Inv
      PROVE  a \in Accs /\ <<s, next(s, a)>> \in Inv
  <2> DEFINE n == first(s)
             e == pending[n]
             t == Try(a, e, d, reserved)
  <2>1. n \in DOMAIN pending /\ a \in Accs /\ Keeps(f, a.pf) /\ Foreseen(f, a.pf, d, reserved)
    BY <1>2, <1>4
  <2>2. e \in Entry
    BY <2>1, ElementOfSeq
  <2> HIDE DEF first
  <2>3. t \in Accs /\ Keeps(a.pf, t.pf)
    BY <2>1, <2>2, TryKeeps
  <2>4. t.pf = a.pf \/ (Wanted(a.pf, e, d, reserved) /\ Adds(a.pf, t.pf, e))
    BY <2>1, <2>2, TryKeeps
  <2> HIDE DEF t, n
  <2>5. Keeps(f, t.pf)
    BY <2>1, <2>3 DEF Keeps
  <2>6. Foreseen(f, t.pf, d, reserved)
    BY <2>1, <2>4 DEF Foreseen, Adds, Wanted
  <2>7. <<s, t>> \in Inv
    BY <2>3, <2>5, <2>6
  <2> QED
    BY <2>1, <2>7 DEF t, n
<1> HIDE DEF D, Inv, next, Accs, base
<1>5. ASSUME NEW s \in SUBSET D, NEW a \in Accs
      PROVE  step[<<s, a>>] = next(s, a)
  OBVIOUS
<1> HIDE DEF step, pick, first
<1>6. Carries(Inv, base, step, pick, D)
  BY <1>2, <1>3, <1>4, <1>5 DEF Carries
<1>7. PICK F : F = [s \in SUBSET D |-> F[s]] /\ IsRun(F, base, step, pick, D)
  BY <1>2, RunExists
<1>8. \A s \in SUBSET D : <<s, F[s]>> \in Inv
  BY <1>2, <1>6, <1>7, FoldCarries
<1>9. iter = [s \in SUBSET D |-> IF s = {} THEN base ELSE next(s, iter[s \ {first(s)}])]
  <2>1. ASSUME NEW s \in SUBSET D
        PROVE  F[s] = IF s = {} THEN base ELSE next(s, F[s \ {first(s)}])
    BY <1>2, <1>4, <1>5, <1>7, <1>8 DEF IsRun
  <2> QED
    BY <1>7, <2>1
<1> HIDE DEF iter
<1>10. <<D, iter[D]>> \in Inv
  <2>1. ASSUME NEW s \in SUBSET D, s = {} \/ <<s \ {pick[s]}, iter[s \ {pick[s]}]>> \in Inv
        PROVE  <<s, iter[s]>> \in Inv
    <3>1. CASE s = {}
      BY <1>3, <1>9, <3>1
    <3>2. CASE s # {}
      <4>1. iter[s] = next(s, iter[s \ {first(s)}]) /\ pick[s] = first(s)
        BY <1>2, <1>9, <3>2
      <4> QED
        BY <1>4, <2>1, <3>2, <4>1
    <3> QED
      BY <3>1, <3>2
  <2> QED
    BY <1>2, <2>1, RunCarries
<1> QED
  BY <1>1, <1>10 DEF Inv

-----------------------------------------------------------------------------
(* A date of the engine                                                    *)

LEMMA QueueType ==
    ASSUME NEW signals \in SignalLists, NEW f, NEW d, NEW reserved
    PROVE  QueueSignals(f, d, reserved, signals) \in Seq(Entry)
<1> DEFINE indicator == IF opts.regime THEN {SPY} ELSE {}
           wanted(s) == /\ s.code \notin DOMAIN f.positions \union reserved \union indicator
                        /\ ~Missing(d.bars[s.code])
           P         == {n \in DOMAIN signals : wanted(signals[n])}
<1>1. signals \in Seq(Entry)
  BY BacktestAssumption, Zenon
<1>2. P \subseteq DOMAIN signals /\ DOMAIN signals = 1..Len(signals) /\ Len(signals) \in Nat
  BY <1>1
<1>3. P \subseteq Nat \ {0} /\ IsFiniteSet(P)
  <2>1. 1 \in Int /\ Len(signals) \in Int
    BY <1>2
  <2>2. IsFiniteSet(1..Len(signals))
    BY <2>1, FS_Interval
  <2>3. 1..Len(signals) \subseteq Nat \ {0}
    BY <1>2
  <2> HIDE DEF P
  <2> QED
    BY <1>2, <2>2, <2>3, FS_Subset
<1>4. \A n \in P : signals[n] \in Entry
  BY <1>1, <1>2, ElementOfSeq
<1>5. QueueSignals(f, d, reserved, signals) \in {<<>>, AtPositions(signals, P)}
  BY DEF QueueSignals
<1> HIDE DEF P
<1>6. /\ Cardinality(P) \in Nat
      /\ AtPositions(signals, P) = [k \in 1..Cardinality(P) |-> signals[InOrder(P)[k]]]
      /\ \A k \in 1..Cardinality(P) : InOrder(P)[k] \in P
  BY <1>3, AtPositionsType
<1>7. AtPositions(signals, P) \in [1..Cardinality(P) -> Entry]
  BY <1>4, <1>6
<1>8. AtPositions(signals, P) \in Seq(Entry)
  BY <1>6, <1>7, SeqDef
<1>9. <<>> \in Seq(Entry)
  OBVIOUS
<1> QED
  BY <1>5, <1>8, <1>9

LEMMA ReplayKeeps ==
    ASSUME pf \in Portfolios, pending \in Seq(Entry), income \in Nat, opts \in Options,
           NEW d \in Days, NEW signals \in SignalLists, NEW reserved, NEW idle \in Nat,
           Replay(d, signals, reserved, idle)
    PROVE  /\ pf' \in Portfolios /\ pending' \in Seq(Entry) /\ income' \in Nat
           /\ Balance(pf') = Balance(pf) + (IF Plain THEN income' - income ELSE 0)
           /\ Foreseen(pf, pf', d, reserved)
<1> DEFINE left   == ProcessExits(pf, d.bars)
           filled == ExecutePending(left, d, reserved)
           marked == MarkToMarket(filled, d.bars)
           most   == Max({0, marked.cash})
           rf     == (most + idle) \div IdleUnit
<1>1. d.bars \in [Codes -> Bar \union {NoBar}]
  BY DayTypes
<1>2. Keeps(pf, left) /\ DOMAIN left.positions \subseteq DOMAIN pf.positions
  <2> DEFINE bars == d.bars
  <2>1. bars \in [Codes -> Bar \union {NoBar}] /\ left = ProcessExits(pf, bars)
    BY <1>1
  <2> HIDE DEF bars, left
  <2> QED
    BY <2>1, ExitsKeep
<1> HIDE DEF left
<1>3. Keeps(left, filled) /\ Foreseen(left, filled, d, reserved)
  BY <1>2, PendingKeeps DEF Keeps
<1>4. Keeps(filled, marked) /\ marked.positions = filled.positions
  <2> DEFINE bars == d.bars
  <2>1. bars \in [Codes -> Bar \union {NoBar}] /\ marked = MarkToMarket(filled, bars)
    BY <1>1
  <2>2. filled \in Portfolios
    BY <1>3 DEF Keeps
  <2> HIDE DEF bars, filled, marked
  <2> QED
    BY <2>1, <2>2, MarkKeeps
<1>5. /\ pf' = IF Plain THEN [marked EXCEPT !.cash = @ + rf, !.equity = @ + rf] ELSE marked
      /\ pending' = QueueSignals(filled, d, reserved, signals)
      /\ income' = income + rf
  BY DEF Replay, left
<1> HIDE DEF filled, marked
<1>6. marked \in Portfolios /\ Balance(marked) = Balance(pf)
  BY <1>2, <1>3, <1>4 DEF Keeps
<1>7. marked.cash \in Int /\ marked.equity \in Int /\ OpenCost(marked.positions) \in Int
      /\ TotalMade(marked.trades) \in Int
  BY <1>6, BalanceType
<1>8. most \in Nat
  <2>1. 0 \in Int /\ marked.cash \in Int
    BY <1>7
  <2>2. Max({0, marked.cash}) \in {0, marked.cash} /\ Max({0, marked.cash}) >= 0
    BY <2>1, Extremes
  <2> QED
    BY <2>1, <2>2
<1> HIDE DEF most
<1>9. rf \in Nat
  <2>1. IdleUnit \in Nat \ {0}
    BY Parameters
  <2>2. \A a \in Nat : \A b \in Nat \ {0} : a \div b \in Nat
    OBVIOUS
  <2> QED
    BY <1>8, <2>1, <2>2
<1> HIDE DEF rf
<1>10. income' \in Nat /\ income' - income = rf
  BY <1>5, <1>9
<1>11. pending' \in Seq(Entry)
  BY <1>5, QueueType
<1>12. CASE Plain
  <2> DEFINE g == [marked EXCEPT !.cash = @ + rf, !.equity = @ + rf]
  <2>1. g.cash = marked.cash + rf /\ g.positions = marked.positions /\ g.trades = marked.trades
    BY <1>6 DEF Portfolios
  <2>2. g \in Portfolios
    <3>1. marked.cash + rf \in Int /\ marked.equity + rf \in Int
      BY <1>7, <1>9
    <3> QED
      BY <1>6, <3>1 DEF Portfolios
  <2>3. pf' = g
    BY <1>5, <1>12
  <2> HIDE DEF g
  <2>4. Balance(g) = Balance(marked) + rf
    <3>1. Balance(g) = marked.cash + rf + OpenCost(marked.positions) - TotalMade(marked.trades)
      BY <2>1 DEF Balance
    <3>2. Balance(marked) = marked.cash + OpenCost(marked.positions) - TotalMade(marked.trades)
      BY DEF Balance
    <3> QED
      BY <1>7, <1>9, <3>1, <3>2
  <2>5. Foreseen(pf, pf', d, reserved)
    BY <1>2, <1>3, <1>4, <2>1, <2>3 DEF Foreseen
  <2> QED
    BY <1>6, <1>10, <1>11, <1>12, <2>2, <2>3, <2>4, <2>5
<1>13. CASE ~Plain
  <2>1. pf' = marked
    BY <1>5, <1>13
  <2>2. Foreseen(pf, pf', d, reserved)
    BY <1>2, <1>3, <1>4, <2>1 DEF Foreseen
  <2>3. Balance(pf) \in Int
    <3>1. pf.cash \in Int /\ OpenCost(pf.positions) \in Int /\ TotalMade(pf.trades) \in Int
      BY BalanceType
    <3> QED
      BY <3>1 DEF Balance
  <2> QED
    BY <1>6, <1>10, <1>11, <1>13, <2>1, <2>2, <2>3
<1> QED
  BY <1>12, <1>13

-----------------------------------------------------------------------------
(* The core sleeve                                                         *)

\* What a name costs to buy and brings when sold leaves the sleeve's balance as it is.
CoreBalance(k) == k.cash + Cost(k.held) + k.lost - k.realised

CoreKeeps(k, g) ==
    /\ g \in Cores /\ CoreBalance(g) = CoreBalance(k)
    /\ g.lost = k.lost /\ g.basket = k.basket /\ g.started = k.started
    /\ g.quarter = k.quarter /\ g.next = k.next

LEMMA CoreBalanceType ==
    ASSUME NEW k \in Cores
    PROVE  /\ k.cash \in Int /\ k.realised \in Int /\ k.lost \in Int
           /\ k.held \in Partial(Lot) /\ k.basket \in Seq(Names)
           /\ k.started \in BOOLEAN /\ k.quarter \in Nat /\ k.next \in Nat
           /\ Cost(k.held) = Worth(k.held, LotCost) /\ Cost(k.held) \in Int
           /\ CoreBalance(k) \in Int
<1>1. /\ k.cash \in Int /\ k.realised \in Int /\ k.lost \in Int
      /\ k.held \in Partial(Lot) /\ k.basket \in Seq(Names)
      /\ k.started \in BOOLEAN /\ k.quarter \in Nat /\ k.next \in Nat
  BY DEF Cores
<1>2. Cost(k.held) = Worth(k.held, LotCost) /\ Cost(k.held) \in Int
  BY <1>1, Costs, WorthType
<1> QED
  BY <1>1, <1>2 DEF CoreBalance

LEMMA BuyNameKeeps ==
    ASSUME NEW k \in Cores, NEW n \in Codes, n \notin DOMAIN k.held, NEW budget \in Int,
           NEW d \in Days
    PROVE  /\ CoreKeeps(k, BuyName(k, n, budget, d.bars))
           /\ DOMAIN BuyName(k, n, budget, d.bars).held \subseteq DOMAIN k.held \union {n}
<1> DEFINE fill == Fill(n, d.bars[n].open, "BUY")
           qty  == budget \div fill
           v    == [qty |-> qty, entry |-> fill]
           cost == qty * fill
           g    == [k EXCEPT !.cash = @ - cost, !.held = Put(@, n, v)]
<1>1. CASE BuyName(k, n, budget, d.bars) = k
  BY <1>1 DEF CoreKeeps
<1>2. CASE BuyName(k, n, budget, d.bars) # k
  <2>1. /\ ~Missing(d.bars[n]) /\ ~(d.bars[n].open <= 0) /\ ~(qty <= 0)
        /\ BuyName(k, n, budget, d.bars) = g
    BY <1>2 DEF BuyName
  <2>2. d.bars[n].open \in Nat /\ Slip[n] \in Nat
    BY <2>1, DayTypes, Parameters
  <2>3. fill \in Nat \ {0}
    BY <2>1, <2>2 DEF Fill
  <2> HIDE DEF fill
  <2>4. qty \in Nat
    BY <2>1, <2>3
  <2> HIDE DEF qty
  <2>5. cost \in Int
    BY <2>3, <2>4
  <2>6. v \in Lot /\ LotCost[v] = cost
    BY <2>3, <2>4 DEF Lot, LotCost
  <2> HIDE DEF v, cost
  <2>7. /\ k.cash \in Int /\ k.realised \in Int /\ k.lost \in Int /\ k.held \in Partial(Lot)
        /\ Cost(k.held) = Worth(k.held, LotCost) /\ Cost(k.held) \in Int
    BY CoreBalanceType
  <2> DEFINE q == Put(k.held, n, v)
             x == k.cash - cost
  <2>8. q \in Partial(Lot)
    BY <2>6, <2>7, PutKeeps
  <2>9. DOMAIN q = DOMAIN k.held \union {n}
    BY DEF Put
  <2>10. Cost(q) = Cost(k.held) + cost
    <3>1. Worth(q, LotCost) = Worth(k.held, LotCost) + LotCost[v]
      BY <2>6, <2>7, Costs, WorthPut
    <3>2. Cost(q) = Worth(q, LotCost)
      BY <2>8, Costs
    <3> QED
      BY <2>6, <2>7, <3>1, <3>2
  <2>11. /\ g = [k EXCEPT !.cash = x, !.held = q]
         /\ g.cash = k.cash - cost /\ g.held = q /\ g.lost = k.lost /\ g.realised = k.realised
         /\ g.basket = k.basket /\ g.started = k.started /\ g.quarter = k.quarter /\ g.next = k.next
    BY DEF Cores
  <2>12. x \in Int
    BY <2>5, <2>7
  <2> HIDE DEF q, x, g
  <2>13. g \in Cores
    BY <2>8, <2>11, <2>12 DEF Cores
  <2>14. CoreBalance(g) = CoreBalance(k)
    <3>1. CoreBalance(g) = k.cash - cost + Cost(q) + k.lost - k.realised
      BY <2>11 DEF CoreBalance
    <3>2. CoreBalance(k) = k.cash + Cost(k.held) + k.lost - k.realised
      BY DEF CoreBalance
    <3> QED
      BY <2>5, <2>7, <2>10, <3>1, <3>2
  <2> QED
    BY <2>1, <2>9, <2>11, <2>13, <2>14 DEF CoreKeeps
<1> QED
  BY <1>1, <1>2

LEMMA SellNameKeeps ==
    ASSUME NEW k \in Cores, NEW n \in DOMAIN k.held, NEW bars, bars[n].close \in Int, NEW slips
    PROVE  /\ CoreKeeps(k, SellName(k, n, bars, slips))
           /\ DOMAIN SellName(k, n, bars, slips).held = DOMAIN k.held \ {n}
<1> DEFINE price == IF slips THEN Fill(n, bars[n].close, "SELL") ELSE bars[n].close
           v     == k.held[n]
           got   == v.qty * price
           gain  == v.qty * (price - v.entry)
           rest  == Restrict(k.held, DOMAIN k.held \ {n})
           g     == [k EXCEPT !.cash = @ + got, !.realised = @ + gain, !.held = rest]
<1>1. /\ k.cash \in Int /\ k.realised \in Int /\ k.lost \in Int /\ k.held \in Partial(Lot)
      /\ Cost(k.held) = Worth(k.held, LotCost) /\ Cost(k.held) \in Int
  BY CoreBalanceType
<1>2. v \in Lot /\ n \in Codes
  BY <1>1 DEF Partial
<1>3. v.qty \in Nat /\ v.entry \in Int /\ LotCost[v] = v.qty * v.entry /\ Slip[n] \in Int
  BY <1>2, Parameters DEF Lot, LotCost
<1>4. price \in Int
  BY <1>3 DEF Fill
<1>5. SellName(k, n, bars, slips) = g
  BY DEF SellName
<1> HIDE DEF price, v
<1>6. got \in Int /\ gain \in Int /\ LotCost[v] \in Int /\ gain = got - LotCost[v]
  <2>1. /\ v.qty * price \in Int /\ v.qty * v.entry \in Int
        /\ v.qty * (price - v.entry) = v.qty * price - v.qty * v.entry
    BY <1>3, <1>4, Products
  <2> DEFINE a == v.qty * price
             b == v.qty * v.entry
  <2>2. a \in Int /\ b \in Int /\ gain = a - b /\ got = a /\ LotCost[v] = b
    BY <1>3, <2>1
  <2> HIDE DEF a, b, got, gain
  <2> QED
    BY <2>2
<1> HIDE DEF got, gain
<1>7. rest \in Partial(Lot) /\ DOMAIN rest = DOMAIN k.held \ {n}
  BY <1>1, RestrictKeeps
<1>8. Cost(rest) \in Int /\ Cost(k.held) = LotCost[v] + Cost(rest)
  <2>1. Worth(k.held, LotCost) = LotCost[v] + Worth(rest, LotCost)
    BY <1>1, Costs, WorthOut DEF v
  <2>2. Cost(rest) = Worth(rest, LotCost) /\ Worth(rest, LotCost) \in Int
    BY <1>7, Costs, WorthType
  <2> QED
    BY <1>1, <2>1, <2>2
<1> HIDE DEF rest
<1> DEFINE x == k.cash + got
           y == k.realised + gain
<1>9. /\ g = [k EXCEPT !.cash = x, !.realised = y, !.held = rest]
      /\ g.cash = k.cash + got /\ g.held = rest /\ g.lost = k.lost
      /\ g.realised = k.realised + gain
      /\ g.basket = k.basket /\ g.started = k.started /\ g.quarter = k.quarter /\ g.next = k.next
  BY DEF Cores
<1>10. x \in Int /\ y \in Int
  BY <1>1, <1>6
<1> HIDE DEF x, y, g
<1>11. g \in Cores
  BY <1>7, <1>9, <1>10 DEF Cores
<1>12. CoreBalance(g) = CoreBalance(k)
  <2>1. CoreBalance(g) = k.cash + got + Cost(rest) + k.lost - (k.realised + gain)
    BY <1>9 DEF CoreBalance
  <2>2. CoreBalance(k) = k.cash + Cost(k.held) + k.lost - k.realised
    BY DEF CoreBalance
  <2> QED
    BY <1>1, <1>6, <1>8, <2>1, <2>2
<1> QED
  BY <1>5, <1>7, <1>9, <1>11, <1>12 DEF CoreKeeps

LEMMA BuyCoreKeeps ==
    ASSUME NEW k \in Cores, NEW names \in Seq(Codes), IsInjective(names),
           \A n \in DOMAIN names : names[n] \notin DOMAIN k.held,
           NEW budget \in Int, NEW d \in Days
    PROVE  CoreKeeps(k, BuyCore(k, names, budget, d.bars))
<1> DEFINE D          == DOMAIN names
           first(s)   == Max(s)
           pick       == [s \in SUBSET D |-> first(s)]
           Accs       == Cores
           next(s, a) == BuyName(a, names[first(s)], budget, d.bars)
           step       == [p \in (SUBSET D) \X Accs |-> next(p[1], p[2])]
           Inv        == {p \in (SUBSET D) \X Accs : 
                           /\ CoreKeeps(k, p[2])
                           /\ DOMAIN p[2].held \subseteq DOMAIN k.held \union {names[n] : n \in p[1]}}
           base       == k
           iter       == CHOOSE iter : iter = [s \in SUBSET D |->
                             IF s = {} THEN base ELSE next(s, iter[s \ {first(s)}])]
<1>1. BuyCore(k, names, budget, d.bars) = iter[D]
  BY DEF BuyCore, FoldLeft, MapThenFoldSet
<1>2. IsPick(pick, D) /\ \A s \in SUBSET D : pick[s] = first(s) /\ (s # {} => first(s) \in s)
  <2>1. IsFiniteSet(D) /\ D \subseteq Int
    <3>1. D = 1..Len(names) /\ 1 \in Int /\ Len(names) \in Int
      OBVIOUS
    <3> QED
      BY <3>1, FS_Interval
  <2> HIDE DEF D
  <2> QED
    BY <2>1, MaxIsPick DEF IsPick
<1>3. <<{}, base>> \in Inv
  BY DEF CoreKeeps
<1>4. ASSUME NEW s \in SUBSET D, s # {}, NEW a, <<s \ {first(s)}, a>> \in Inv
      PROVE  a \in Accs /\ <<s, next(s, a)>> \in Inv
  <2> DEFINE n == first(s)
             c == names[n]
             t == BuyName(a, c, budget, d.bars)
  <2>1. /\ n \in s /\ a \in Cores /\ CoreKeeps(k, a)
        /\ DOMAIN a.held \subseteq DOMAIN k.held \union {names[m] : m \in s \ {n}}
    BY <1>2, <1>4
  <2>2. c \in Codes
    BY <2>1, ElementOfSeq
  <2> HIDE DEF first
  <2>3. c \notin DOMAIN a.held
    BY <2>1 DEF IsInjective
  <2> HIDE DEF c
  <2>4. CoreKeeps(a, t)
    BY <2>1, <2>2, <2>3, BuyNameKeeps
  <2>5. DOMAIN t.held \subseteq DOMAIN a.held \union {c}
    BY <2>1, <2>2, <2>3, BuyNameKeeps
  <2> HIDE DEF t
  <2>6. CoreKeeps(k, t) /\ t \in Cores
    BY <2>1, <2>4 DEF CoreKeeps
  <2>7. DOMAIN t.held \subseteq DOMAIN k.held \union {names[m] : m \in s}
    BY <2>1, <2>5 DEF c
  <2>8. <<s, t>> \in Inv
    BY <2>6, <2>7
  <2> QED
    BY <2>1, <2>8 DEF t, c
<1> HIDE DEF D, Inv, next, Accs, base
<1>5. ASSUME NEW s \in SUBSET D, NEW a \in Accs
      PROVE  step[<<s, a>>] = next(s, a)
  OBVIOUS
<1> HIDE DEF step, pick, first
<1>6. Carries(Inv, base, step, pick, D)
  BY <1>2, <1>3, <1>4, <1>5 DEF Carries
<1>7. PICK F : F = [s \in SUBSET D |-> F[s]] /\ IsRun(F, base, step, pick, D)
  BY <1>2, RunExists
<1>8. \A s \in SUBSET D : <<s, F[s]>> \in Inv
  BY <1>2, <1>6, <1>7, FoldCarries
<1>9. iter = [s \in SUBSET D |-> IF s = {} THEN base ELSE next(s, iter[s \ {first(s)}])]
  <2>1. ASSUME NEW s \in SUBSET D
        PROVE  F[s] = IF s = {} THEN base ELSE next(s, F[s \ {first(s)}])
    BY <1>2, <1>4, <1>5, <1>7, <1>8 DEF IsRun
  <2>2. F = [s \in SUBSET D |-> IF s = {} THEN base ELSE next(s, F[s \ {first(s)}])]
    BY <1>7, <2>1
  <2> QED
    BY <2>2
<1> HIDE DEF iter
<1>10. <<D, iter[D]>> \in Inv
  <2>1. ASSUME NEW s \in SUBSET D, s = {} \/ <<s \ {pick[s]}, iter[s \ {pick[s]}]>> \in Inv
        PROVE  <<s, iter[s]>> \in Inv
    <3>1. CASE s = {}
      BY <1>3, <1>9, <3>1
    <3>2. CASE s # {}
      <4>1. iter[s] = next(s, iter[s \ {first(s)}]) /\ pick[s] = first(s)
        BY <1>2, <1>9, <3>2
      <4> QED
        BY <1>4, <2>1, <3>2, <4>1
    <3> QED
      BY <3>1, <3>2
  <2> QED
    BY <1>2, <2>1, RunCarries
<1> QED
  BY <1>1, <1>10 DEF Inv

LEMMA SellCoreKeeps ==
    ASSUME NEW k \in Cores, NEW names, NEW d \in Days, NEW slips
    PROVE  CoreKeeps(k, SellCore(k, names, d.bars, slips))
<1> DEFINE D          == {n \in names \intersect DOMAIN k.held : ~Missing(d.bars[n])}
           first(s)   == CHOOSE x \in s : TRUE
           pick       == [s \in SUBSET D |-> first(s)]
           Accs       == Cores
           next(s, a) == SellName(a, first(s), d.bars, slips)
           step       == [p \in (SUBSET D) \X Accs |-> next(p[1], p[2])]
           Inv        == {p \in (SUBSET D) \X Accs : 
                           CoreKeeps(k, p[2]) /\ D \ p[1] \subseteq DOMAIN p[2].held}
           base       == k
           iter       == CHOOSE iter : iter = [s \in SUBSET D |->
                             IF s = {} THEN base ELSE next(s, iter[s \ {first(s)}])]
<1>1. SellCore(k, names, d.bars, slips) = iter[D]
  BY DEF SellCore, FoldSet, MapThenFoldSet
<1>2. IsPick(pick, D) /\ \A s \in SUBSET D : pick[s] = first(s) /\ (s # {} => first(s) \in s)
  <2>1. IsFiniteSet(D)
    <3>1. IsFiniteSet(DOMAIN k.held) /\ D \subseteq DOMAIN k.held
      BY CoreBalanceType, Costs, WorthType
    <3> QED
      BY <3>1, FS_Subset
  <2> HIDE DEF D
  <2> QED
    BY <2>1, AnyIsPick DEF IsPick
<1>3. <<{}, base>> \in Inv
  BY DEF CoreKeeps
<1>4. ASSUME NEW s \in SUBSET D, s # {}, NEW a, <<s \ {first(s)}, a>> \in Inv
      PROVE  a \in Accs /\ <<s, next(s, a)>> \in Inv
  <2> DEFINE n == first(s)
             bars == d.bars
             t == SellName(a, n, bars, slips)
  <2>1. n \in s /\ a \in Cores /\ CoreKeeps(k, a) /\ D \ (s \ {n}) \subseteq DOMAIN a.held
    BY <1>2, <1>4
  <2> HIDE DEF first
  <2>2. n \in DOMAIN a.held /\ bars[n].close \in Int
    <3>1. n \in DOMAIN k.held /\ DOMAIN k.held \subseteq Codes
      BY <2>1, CoreBalanceType DEF Partial
    <3>2. bars[n].close \in Nat
      BY <3>1, DayTypes
    <3> QED
      BY <2>1, <3>2
  <2> HIDE DEF bars, n
  <2>3. CoreKeeps(a, t) /\ DOMAIN t.held = DOMAIN a.held \ {n}
    BY <2>1, <2>2, SellNameKeeps
  <2> HIDE DEF t
  <2>4. CoreKeeps(k, t) /\ t \in Cores
    BY <2>1, <2>3 DEF CoreKeeps
  <2>5. <<s, t>> \in Inv
    BY <2>1, <2>3, <2>4
  <2> QED
    BY <2>1, <2>5 DEF t, n, bars
<1> HIDE DEF D, Inv, next, Accs, base
<1>5. ASSUME NEW s \in SUBSET D, NEW a \in Accs
      PROVE  step[<<s, a>>] = next(s, a)
  OBVIOUS
<1> HIDE DEF step, pick, first
<1>6. Carries(Inv, base, step, pick, D)
  BY <1>2, <1>3, <1>4, <1>5 DEF Carries
<1>7. PICK F : F = [s \in SUBSET D |-> F[s]] /\ IsRun(F, base, step, pick, D)
  BY <1>2, RunExists
<1>8. \A s \in SUBSET D : <<s, F[s]>> \in Inv
  BY <1>2, <1>6, <1>7, FoldCarries
<1>9. iter = [s \in SUBSET D |-> IF s = {} THEN base ELSE next(s, iter[s \ {first(s)}])]
  <2>1. ASSUME NEW s \in SUBSET D
        PROVE  F[s] = IF s = {} THEN base ELSE next(s, F[s \ {first(s)}])
    BY <1>2, <1>4, <1>5, <1>7, <1>8 DEF IsRun
  <2> QED
    BY <1>7, <2>1
<1> HIDE DEF iter
<1>10. <<D, iter[D]>> \in Inv
  <2>1. ASSUME NEW s \in SUBSET D, s = {} \/ <<s \ {pick[s]}, iter[s \ {pick[s]}]>> \in Inv
        PROVE  <<s, iter[s]>> \in Inv
    <3>1. CASE s = {}
      BY <1>3, <1>9, <3>1
    <3>2. CASE s # {}
      <4>1. iter[s] = next(s, iter[s \ {first(s)}]) /\ pick[s] = first(s)
        BY <1>2, <1>9, <3>2
      <4> QED
        BY <1>4, <2>1, <3>2, <4>1
    <3> QED
      BY <3>1, <3>2
  <2> QED
    BY <1>2, <2>1, RunCarries
<1> QED
  BY <1>1, <1>10 DEF Inv

(* The fixed basket starts from nothing, and is emptied before it is bought again. *)
LEMMA HybridKeeps ==
    ASSUME core \in Cores, ~core.started => DOMAIN core.held = {},
           NEW d \in Days, NEW quarter \in Nat
    PROVE  /\ HybridCore(d, quarter) \in Cores
           /\ CoreBalance(HybridCore(d, quarter)) = CoreBalance(core)
           /\ HybridCore(d, quarter).started
           /\ HybridCore(d, quarter).basket = core.basket /\ HybridCore(d, quarter).next = core.next
<1> DEFINE sold    == SellCore(core, DOMAIN core.held, d.bars, TRUE)
           emptied == [sold EXCEPT !.lost = @ + Cost(sold.held), !.held = <<>>]
           from    == IF core.started THEN emptied ELSE core
           share   == from.cash \div Max({1, Len(CoreNames)})
           bought  == BuyCore(from, CoreNames, share, d.bars)
           g       == [bought EXCEPT !.started = TRUE, !.quarter = quarter]
           h       == HybridCore(d, quarter)
<1>1. CoreNames \in Seq(Codes) /\ IsInjective(CoreNames)
  BY BacktestAssumption, Zenon
<1>2. CoreKeeps(core, sold)
  BY SellCoreKeeps
<1>3. h = g \/ (core.started /\ h = core)
  BY DEF HybridCore
<1> HIDE DEF sold
<1>4. /\ emptied \in Cores /\ CoreBalance(emptied) = CoreBalance(core) /\ DOMAIN emptied.held = {}
      /\ emptied.basket = core.basket /\ emptied.next = core.next
  <2>1. sold \in Cores /\ CoreBalance(sold) = CoreBalance(core)
        /\ sold.basket = core.basket /\ sold.next = core.next
    BY <1>2 DEF CoreKeeps
  <2>2. /\ sold.cash \in Int /\ sold.realised \in Int /\ sold.lost \in Int /\ Cost(sold.held) \in Int
    BY <2>1, CoreBalanceType
  <2> DEFINE x == sold.lost + Cost(sold.held)
             none == <<>>
  <2>3. /\ emptied = [sold EXCEPT !.lost = x, !.held = none]
        /\ emptied.cash = sold.cash /\ emptied.lost = sold.lost + Cost(sold.held)
        /\ emptied.held = <<>> /\ emptied.realised = sold.realised
        /\ emptied.basket = sold.basket /\ emptied.next = sold.next
    BY <2>1 DEF Cores
  <2>4. none \in Partial(Lot) /\ DOMAIN none = {}
    <3>1. DOMAIN none = {} /\ none \in [{} -> Lot]
      OBVIOUS
    <3> QED
      BY <3>1 DEF Partial
  <2>5. Cost(<<>>) = 0
    BY SumEmpty DEF Cost
  <2>6. x \in Int
    BY <2>2
  <2>7. CoreBalance(emptied) = CoreBalance(sold)
    <3>1. CoreBalance(emptied) = sold.cash + 0 + (sold.lost + Cost(sold.held)) - sold.realised
      BY <2>3, <2>5 DEF CoreBalance
    <3>2. CoreBalance(sold) = sold.cash + Cost(sold.held) + sold.lost - sold.realised
      BY DEF CoreBalance
    <3> QED
      BY <2>2, <3>1, <3>2
  <2>8. DOMAIN emptied.held = {}
    BY <2>3, <2>4
  <2> HIDE DEF x, emptied, none
  <2>9. emptied \in Cores
    BY <2>1, <2>3, <2>4, <2>6 DEF Cores
  <2> QED
    BY <2>1, <2>3, <2>7, <2>8, <2>9
<1> HIDE DEF emptied
<1>5. /\ from \in Cores /\ CoreBalance(from) = CoreBalance(core) /\ DOMAIN from.held = {}
      /\ from.basket = core.basket /\ from.next = core.next
  BY <1>4
<1> HIDE DEF from
<1>6. share \in Int
  <2> DEFINE len == Len(CoreNames)
             m   == Max({1, len})
  <2>1. len \in Nat
    BY <1>1
  <2> HIDE DEF len
  <2>2. m \in Int /\ m >= 1
    BY <2>1, Extremes
  <2> HIDE DEF m
  <2>3. from.cash \in Int
    BY <1>5, CoreBalanceType
  <2> QED
    BY <2>2, <2>3 DEF m, len
<1> HIDE DEF share
<1>7. CoreKeeps(from, bought)
  <2>1. \A n \in DOMAIN CoreNames : CoreNames[n] \notin DOMAIN from.held
    BY <1>5
  <2> QED
    BY <1>1, <1>5, <1>6, <2>1, BuyCoreKeeps
<1> HIDE DEF bought
<1>8. CASE h = g
  <2>1. bought \in Cores /\ CoreBalance(bought) = CoreBalance(core)
        /\ bought.basket = core.basket /\ bought.next = core.next
    BY <1>5, <1>7 DEF CoreKeeps
  <2>2. /\ g.cash = bought.cash /\ g.held = bought.held /\ g.lost = bought.lost
        /\ g.realised = bought.realised /\ g.basket = bought.basket /\ g.next = bought.next
        /\ g.started = TRUE
    BY <2>1 DEF Cores
  <2>3. g \in Cores
    BY <2>1 DEF Cores
  <2> HIDE DEF g, h
  <2> QED
    BY <1>8, <2>1, <2>2, <2>3 DEF CoreBalance, h
<1>9. CASE core.started /\ h = core
  BY <1>9
<1> QED
  BY <1>3, <1>8, <1>9

LEMMA PitKeeps ==
    ASSUME core \in Cores, NEW d \in Days, NEW basket \in Seq(Names), IsInjective(basket)
    PROVE  /\ PitCore(d, basket) \in Cores
           /\ CoreBalance(PitCore(d, basket)) = CoreBalance(core)
           /\ PitCore(d, basket).basket = IF basket = <<>> THEN core.basket ELSE basket
<1> DEFINE first == [core EXCEPT !.next = @ + 1]
           sold  == SellCore(first, Range(core.basket) \ Range(basket), d.bars, TRUE)
           P     == {n \in DOMAIN basket : basket[n] \notin DOMAIN sold.held}
           buys  == AtPositions(basket, P)
           v     == [n \in DOMAIN sold.held |-> sold.held[n].qty * PriceOr(sold.held[n], d.bars[n])]
           worth == sold.cash + SumFunctionOnSet(v, DOMAIN sold.held)
           share == worth \div Max({1, Len(basket)})
           bought == BuyCore(sold, buys, share, d.bars)
           g     == [bought EXCEPT !.basket = IF basket = <<>> THEN @ ELSE basket]
<1>1. PitCore(d, basket) = g
  BY DEF PitCore
<1>2. first \in Cores /\ CoreBalance(first) = CoreBalance(core) /\ first.basket = core.basket
  <2>1. core.next + 1 \in Nat
    BY CoreBalanceType
  <2>2. /\ first.cash = core.cash /\ first.held = core.held /\ first.lost = core.lost
        /\ first.realised = core.realised /\ first.basket = core.basket
    BY DEF Cores
  <2>3. first \in Cores
    BY <2>1 DEF Cores
  <2> HIDE DEF first
  <2> QED
    BY <2>2, <2>3 DEF CoreBalance
<1> HIDE DEF first
<1>3. CoreKeeps(first, sold)
  BY <1>2, SellCoreKeeps
<1> HIDE DEF sold
<1>4. sold \in Cores /\ CoreBalance(sold) = CoreBalance(core) /\ sold.basket = core.basket
  BY <1>2, <1>3 DEF CoreKeeps
<1>5. /\ sold.cash \in Int /\ IsFiniteSet(DOMAIN sold.held) /\ DOMAIN sold.held \subseteq Codes
      /\ \A n \in DOMAIN sold.held : sold.held[n] \in Lot
  <2>1. sold.cash \in Int /\ sold.held \in Partial(Lot)
    BY <1>4, CoreBalanceType
  <2>2. IsFiniteSet(DOMAIN sold.held)
    BY <2>1, Costs, WorthType
  <2> QED
    BY <2>1, <2>2 DEF Partial
<1>6. share \in Int
  <2>1. ASSUME NEW n \in DOMAIN sold.held
        PROVE  v[n] \in Int
    <3> DEFINE p == sold.held[n]
               x == PriceOr(p, d.bars[n])
    <3>1. p.qty \in Int /\ p.entry \in Int
      BY <1>5 DEF Lot
    <3>2. d.bars[n].close \in Int
      BY <1>5, DayTypes
    <3>3. x \in Int
      BY <3>1, <3>2 DEF PriceOr
    <3> HIDE DEF x, p
    <3>4. p.qty * x \in Int
      BY <3>1, <3>3
    <3> QED
      BY <3>4 DEF p, x
  <2> HIDE DEF v
  <2>2. SumFunctionOnSet(v, DOMAIN sold.held) \in Int
    BY <1>5, <2>1, SumType
  <2>3. worth \in Int
    BY <1>5, <2>2
  <2> DEFINE len == Len(basket)
             m   == Max({1, len})
  <2>4. 1 \in Int /\ len \in Int
    OBVIOUS
  <2> HIDE DEF len, worth
  <2>5. m \in Int /\ m >= 1
    BY <2>4, Extremes
  <2> HIDE DEF m
  <2> QED
    BY <2>3, <2>5 DEF m, len
<1> HIDE DEF share
<1>7. /\ buys \in Seq(Codes) /\ IsInjective(buys)
      /\ \A k \in DOMAIN buys : buys[k] \notin DOMAIN sold.held
  <2>1. Len(basket) \in Nat /\ DOMAIN basket = 1..Len(basket) /\ \A n \in DOMAIN basket : basket[n] \in Codes
    BY Parameters, ElementOfSeq
  <2>2. IsFiniteSet(1..Len(basket)) /\ 1..Len(basket) \subseteq Nat \ {0}
    <3>1. 1 \in Int /\ Len(basket) \in Int
      BY <2>1
    <3>2. IsFiniteSet(1..Len(basket))
      BY <3>1, FS_Interval
    <3> QED
      BY <2>1, <3>2
  <2>3. P \subseteq 1..Len(basket) /\ \A n \in P : basket[n] \in Codes /\ basket[n] \notin DOMAIN sold.held
    BY <2>1
  <2>4. \A m, n \in P : basket[m] = basket[n] => m = n
    BY DEF IsInjective
  <2> HIDE DEF P
  <2>5. IsFiniteSet(P) /\ P \subseteq Nat \ {0}
    BY <2>2, <2>3, FS_Subset
  <2>6. /\ Cardinality(P) \in Nat /\ InOrder(P) \in Bijection(1..Cardinality(P), P)
        /\ buys = [k \in 1..Cardinality(P) |-> basket[InOrder(P)[k]]]
        /\ \A k \in 1..Cardinality(P) : InOrder(P)[k] \in P
    BY <2>5, AtPositionsType
  <2>7. \A j, k \in 1..Cardinality(P) : InOrder(P)[j] = InOrder(P)[k] => j = k
    BY <2>6 DEF Bijection, Injection, IsInjective
  <2> HIDE DEF buys
  <2>8. DOMAIN buys = 1..Cardinality(P) /\ \A k \in 1..Cardinality(P) : buys[k] \in Codes
    BY <2>3, <2>6
  <2>9. buys \in [1..Cardinality(P) -> Codes]
    BY <2>6, <2>8
  <2>10. buys \in Seq(Codes)
    BY <2>6, <2>9, SeqDef
  <2>11. IsInjective(buys)
    BY <2>4, <2>6, <2>7, <2>8 DEF IsInjective
  <2> QED
    BY <2>3, <2>6, <2>8, <2>10, <2>11
<1> HIDE DEF buys
<1>8. CoreKeeps(sold, bought)
  BY <1>4, <1>6, <1>7, BuyCoreKeeps
<1> HIDE DEF bought
<1>9. bought \in Cores /\ CoreBalance(bought) = CoreBalance(core) /\ bought.basket = core.basket
  BY <1>4, <1>8 DEF CoreKeeps
<1>10. /\ g.cash = bought.cash /\ g.held = bought.held /\ g.lost = bought.lost
       /\ g.realised = bought.realised
       /\ g.basket = IF basket = <<>> THEN bought.basket ELSE basket
  BY <1>9 DEF Cores
<1>11. g \in Cores
  BY <1>9 DEF Cores
<1> HIDE DEF g
<1> QED
  BY <1>1, <1>9, <1>10, <1>11 DEF CoreBalance

-----------------------------------------------------------------------------
(* Baskets                                                                 *)

LEMMA UniverseType ==
    /\ Universe \in Seq(Names) /\ IsInjective(Universe) /\ Names \subseteq Codes
    /\ \A t \in Names : t \in DOMAIN Statements /\ t \in DOMAIN Sector
<1>1. Universe \in Seq(Range(Universe)) /\ IsInjective(Universe)
  BY ScoringAssumption, Zenon
<1>2. \A t \in Range(Universe) : t \in DOMAIN Statements /\ t \in DOMAIN Sector
  BY ScoringAssumption, Zenon
<1> QED
  BY <1>1, <1>2, Parameters DEF Names

(* The scored tickers with a price, best first: a list of names without a repetition. *)
LEMMA EligibleType ==
    ASSUME NEW data, NEW spy, NEW date
    PROVE  /\ Eligible(ScoreUniverse(data, spy, date)) \in Seq(Names)
           /\ IsInjective(Eligible(ScoreUniverse(data, spy, date)))
<1> DEFINE scores == ScoreUniverse(data, spy, date)
           score(n) == [place |-> n, composite |-> ScoreTicker(data, Universe[n], spy, date),
                        priced |-> PriceAt(data, Universe[n], date) > 0]
           able   == {s \in scores : s.composite \in 251..1000 /\ s.priced}
           upto   == NoWorse(able)
           order  == Ranked(able, upto)
           e      == Eligible(scores)
<1>1. /\ Len(Universe) \in Nat /\ DOMAIN Universe = 1..Len(Universe)
      /\ \A n \in DOMAIN Universe : Universe[n] \in Names
      /\ \A m, n \in DOMAIN Universe : Universe[m] = Universe[n] => m = n
  <2>1. \A n \in DOMAIN Universe : Universe[n] \in Names
    BY UniverseType, ElementOfSeq
  <2> QED
    BY <2>1, UniverseType DEF IsInjective
<1>2. IsFiniteSet(scores)
  <2>1. scores = {score(n) : n \in DOMAIN Universe}
    BY DEF ScoreUniverse
  <2>2. IsFiniteSet(DOMAIN Universe)
    <3>1. 1 \in Int /\ Len(Universe) \in Int
      BY <1>1
    <3> QED
      BY <1>1, <3>1, FS_Interval
  <2> HIDE DEF score
  <2> DEFINE D == DOMAIN Universe
             f == [n \in D |-> score(n)]
  <2>3. \A x \in scores : \E n \in D : f[n] = x
    BY <2>1
  <2>4. f \in [D -> scores]
    BY <2>1
  <2> HIDE DEF f, D, scores
  <2>5. f \in Surjection(D, scores)
    BY <2>3, <2>4 DEF Surjection
  <2> QED
    BY <2>2, <2>5, FS_Surjection DEF D
<1>3. \A s \in scores : /\ s.place \in DOMAIN Universe /\ s = score(s.place)
  BY DEF ScoreUniverse
<1> HIDE DEF scores, score
<1>4. IsFiniteSet(able) /\ able \subseteq scores /\ \A s \in able : s.composite \in Int
  BY <1>2, FS_Subset
<1>5. \A s \in able : s.place \in Int /\ s = score(s.place)
  <2>1. \A n \in DOMAIN Universe : n \in Int
    BY <1>1
  <2> QED
    BY <1>3, <1>4, <2>1, Zenon
<1> HIDE DEF able
<1>6. \A x, y \in able : y \in upto[x] <=> \/ y.composite > x.composite
                                          \/ (y.composite = x.composite /\ y.place <= x.place)
  BY DEF NoWorse
<1>7. /\ \A x \in able : upto[x] \in SUBSET able /\ x \in upto[x]
      /\ \A x, y \in able : upto[x] \subseteq upto[y] \/ upto[y] \subseteq upto[x]
      /\ \A x, y \in able : x \in upto[y] /\ y \in upto[x] => x = y
  <2>1. \A x \in able : upto[x] \in SUBSET able
    BY DEF NoWorse
  <2> HIDE DEF upto
  <2>2. \A x \in able : x \in upto[x]
    BY <1>4, <1>5, <1>6
  <2>3. ASSUME NEW x \in able, NEW y \in able
        PROVE  upto[x] \subseteq upto[y] \/ upto[y] \subseteq upto[x]
    BY <1>4, <1>5, <1>6, <2>1
  <2>4. ASSUME NEW x \in able, NEW y \in able, x \in upto[y], y \in upto[x]
        PROVE  x = y
    <3>1. x.place = y.place
      BY <1>4, <1>5, <1>6, <2>4
    <3> QED
      BY <1>5, <3>1
  <2> QED
    BY <2>1, <2>2, <2>3, <2>4
<1> HIDE DEF upto
<1>8. /\ order \in Bijection(1..Cardinality(able), able)
      /\ Cardinality(able) \in Nat
  BY <1>4, <1>7, RankedIsBijection, FS_CardinalityType
<1> HIDE DEF order
<1>9. /\ DOMAIN order = 1..Cardinality(able)
      /\ \A k \in DOMAIN order : order[k] \in able
      /\ \A j, k \in DOMAIN order : order[j] = order[k] => j = k
  BY <1>8 DEF Bijection, Injection, IsInjective
<1>10. e = [k \in DOMAIN order |-> Universe[order[k].place]]
  BY DEF Eligible, order, upto, able
<1> HIDE DEF e
<1>11. e \in [1..Cardinality(able) -> Names]
  BY <1>1, <1>3, <1>4, <1>9, <1>10
<1>12. e \in Seq(Names)
  BY <1>8, <1>11, SeqDef
<1>13. IsInjective(e)
  <2> SUFFICES ASSUME NEW j \in DOMAIN e, NEW k \in DOMAIN e, e[j] = e[k]
               PROVE  j = k
    BY DEF IsInjective
  <2>1. j \in DOMAIN order /\ k \in DOMAIN order /\ order[j] \in able /\ order[k] \in able
    BY <1>9, <1>10
  <2>2. order[j].place \in DOMAIN Universe /\ order[k].place \in DOMAIN Universe
    BY <1>3, <1>4, <2>1
  <2>3. order[j].place = order[k].place
    BY <1>1, <1>10, <2>1, <2>2
  <2>4. order[j] = order[k]
    BY <1>5, <2>1, <2>3
  <2> QED
    BY <1>9, <2>1, <2>4
<1> QED
  BY <1>12, <1>13 DEF e, scores

\* What a basket may be.
Fits(b) == \A s \in Range(Sector) : Cardinality(OfSector(b, s)) <= MaxPerSector

IsBasket(b) == b \in Seq(Names) /\ IsInjective(b) /\ Len(b) <= BasketSize /\ Fits(b)

LEMMA NoNames == IsBasket(<<>>)
<1>1. /\ <<>> \in Seq(Names) /\ Len(<<>>) = 0 /\ DOMAIN <<>> = {} /\ Range(<<>>) = {}
  BY DEF Range
<1>2. \A s : OfSector(<<>>, s) = {}
  BY <1>1 DEF OfSector
<1>3. /\ Cardinality({}) = 0
  BY FS_EmptySet
<1>4. MaxPerSector \in Nat /\ BasketSize \in Nat
  BY Parameters
<1> QED
  BY <1>1, <1>2, <1>3, <1>4 DEF IsBasket, Fits, IsInjective

LEMMA BasketNames ==
    ASSUME NEW b \in Seq(Names)
    PROVE  /\ IsFiniteSet(Range(b)) /\ Range(b) \subseteq Names
           /\ DOMAIN b = 1..Len(b) /\ Len(b) \in Nat
           /\ \A s : IsFiniteSet(OfSector(b, s))
<1>1. DOMAIN b = 1..Len(b) /\ Len(b) \in Nat /\ 1 \in Int /\ Len(b) \in Int
  OBVIOUS
<1>2. Range(b) \subseteq Names
  BY ElementOfSeq DEF Range
<1>3. IsFiniteSet(Names)
  BY Parameters, FS_Subset
<1>4. IsFiniteSet(Range(b))
  BY <1>2, <1>3, FS_Subset
<1>5. \A s : OfSector(b, s) \subseteq Range(b)
  BY DEF OfSector
<1> QED
  BY <1>1, <1>2, <1>4, <1>5, FS_Subset

(* A name that is new, in a basket with room for it and for its sector. *)
LEMMA BasketGrows ==
    ASSUME NEW b, IsBasket(b), NEW t \in Names, t \notin Range(b),
           ~(Len(b) >= BasketSize), ~SectorFull(b, t)
    PROVE  IsBasket(Append(b, t)) /\ Range(Append(b, t)) = Range(b) \union {t}
<1> DEFINE c == Append(b, t)
<1>1. b \in Seq(Names) /\ IsInjective(b) /\ Len(b) \in Nat /\ DOMAIN b = 1..Len(b)
  BY BasketNames DEF IsBasket
<1>2. /\ c \in Seq(Names) /\ Len(c) = Len(b) + 1 /\ DOMAIN c = 1..(Len(b) + 1)
      /\ c[Len(b) + 1] = t /\ \A n \in DOMAIN b : c[n] = b[n]
  BY <1>1, AppendProperties
<1> HIDE DEF c
<1>3. \A n \in DOMAIN c : n \in DOMAIN b \/ n = Len(b) + 1
  BY <1>1, <1>2
<1>4. Range(c) = Range(b) \union {t}
  <2>1. DOMAIN b \subseteq DOMAIN c /\ Len(b) + 1 \in DOMAIN c
    BY <1>1, <1>2
  <2> QED
    BY <1>2, <1>3, <2>1 DEF Range
<1>5. IsInjective(c)
  <2> SUFFICES ASSUME NEW j \in DOMAIN c, NEW k \in DOMAIN c, c[j] = c[k]
               PROVE  j = k
    BY DEF IsInjective
  <2>1. \A n \in DOMAIN b : b[n] # t
    BY DEF Range
  <2> QED
    BY <1>1, <1>2, <1>3, <2>1 DEF IsInjective
<1>6. Len(c) <= BasketSize
  BY <1>1, <1>2, Parameters
<1>7. ASSUME NEW s \in Range(Sector)
      PROVE  Cardinality(OfSector(c, s)) <= MaxPerSector
  <2>1. Cardinality(OfSector(b, s)) <= MaxPerSector
    BY DEF IsBasket, Fits
  <2>2. CASE Sector[t] = s
    <3>1. OfSector(c, s) = OfSector(b, s) \union {t}
      BY <1>4, <2>2 DEF OfSector
    <3>2. IsFiniteSet(OfSector(b, s)) /\ t \notin OfSector(b, s)
      BY <1>1, BasketNames DEF OfSector
    <3>3. Cardinality(OfSector(c, s)) = Cardinality(OfSector(b, s)) + 1
      BY <3>1, <3>2, FS_AddElement
    <3>4. ~(Cardinality(OfSector(b, s)) >= MaxPerSector)
      BY <2>2 DEF SectorFull
    <3>5. Cardinality(OfSector(b, s)) \in Nat /\ MaxPerSector \in Nat
      BY <3>2, FS_CardinalityType, Parameters
    <3> QED
      BY <3>3, <3>4, <3>5
  <2>3. CASE Sector[t] # s
    <3>1. OfSector(c, s) = OfSector(b, s)
      BY <1>4, <2>3 DEF OfSector
    <3> QED
      BY <2>1, <3>1
  <2> QED
    BY <2>2, <2>3
<1> QED
  BY <1>2, <1>4, <1>5, <1>6, <1>7 DEF c, IsBasket, Fits

(* What is left of a basket is one. *)
LEMMA BasketShrinks ==
    ASSUME NEW b, IsBasket(b), NEW P, P \subseteq DOMAIN b
    PROVE  IsBasket(AtPositions(b, P)) /\ Range(AtPositions(b, P)) \subseteq Range(b)
<1> DEFINE c == AtPositions(b, P)
<1>1. b \in Seq(Names) /\ IsInjective(b) /\ Len(b) \in Nat /\ DOMAIN b = 1..Len(b)
  BY BasketNames DEF IsBasket
<1>2. IsFiniteSet(P) /\ P \subseteq Nat \ {0} /\ Cardinality(P) \in Nat /\ Cardinality(P) <= Len(b)
  <2> DEFINE D == 1..Len(b)
  <2>1. 1 \in Int /\ Len(b) \in Int /\ D \subseteq Nat \ {0} /\ P \subseteq D
    BY <1>1
  <2>2. IsFiniteSet(D) /\ Cardinality(D) = IF 1 > Len(b) THEN 0 ELSE Len(b) - 1 + 1
    BY <2>1, FS_Interval
  <2>3. Cardinality(D) = Len(b)
    BY <1>1, <2>2
  <2> HIDE DEF D
  <2>4. IsFiniteSet(P) /\ Cardinality(P) <= Cardinality(D)
    BY <2>1, <2>2, FS_Subset
  <2>5. Cardinality(P) \in Nat
    BY <2>4, FS_CardinalityType
  <2> QED
    BY <2>1, <2>3, <2>4, <2>5
<1>3. /\ InOrder(P) \in Bijection(1..Cardinality(P), P)
      /\ c = [k \in 1..Cardinality(P) |-> b[InOrder(P)[k]]]
      /\ \A k \in 1..Cardinality(P) : InOrder(P)[k] \in P
  BY <1>2, AtPositionsType
<1>4. \A j, k \in 1..Cardinality(P) : InOrder(P)[j] = InOrder(P)[k] => j = k
  BY <1>3 DEF Bijection, Injection, IsInjective
<1> HIDE DEF c
<1>5. \A n \in P : n \in DOMAIN b /\ b[n] \in Names
  BY <1>1, ElementOfSeq
<1>6. c \in [1..Cardinality(P) -> Names] /\ DOMAIN c = 1..Cardinality(P)
  BY <1>3, <1>5
<1>7. c \in Seq(Names) /\ Len(c) = Cardinality(P)
  BY <1>2, <1>6, SeqDef, LenProperties
<1>8. IsInjective(c)
  <2> SUFFICES ASSUME NEW j \in DOMAIN c, NEW k \in DOMAIN c, c[j] = c[k]
               PROVE  j = k
    BY DEF IsInjective
  <2>1. InOrder(P)[j] = InOrder(P)[k]
    BY <1>1, <1>3, <1>5, <1>6 DEF IsInjective
  <2> QED
    BY <1>4, <1>6, <2>1
<1>9. Range(c) \subseteq Range(b)
  BY <1>3, <1>5, <1>6 DEF Range
<1>10. Len(c) <= BasketSize
  <2>1. Len(b) <= BasketSize /\ BasketSize \in Nat
    BY Parameters DEF IsBasket
  <2> QED
    BY <1>1, <1>2, <1>7, <2>1
<1>11. ASSUME NEW s \in Range(Sector)
       PROVE  Cardinality(OfSector(c, s)) <= MaxPerSector
  <2>1. Cardinality(OfSector(b, s)) <= MaxPerSector /\ MaxPerSector \in Nat
    BY Parameters DEF IsBasket, Fits
  <2>2. OfSector(c, s) \subseteq OfSector(b, s) /\ IsFiniteSet(OfSector(b, s))
    BY <1>1, <1>9, BasketNames DEF OfSector
  <2>3. /\ Cardinality(OfSector(c, s)) <= Cardinality(OfSector(b, s))
        /\ Cardinality(OfSector(c, s)) \in Nat /\ Cardinality(OfSector(b, s)) \in Nat
    BY <2>2, FS_Subset, FS_CardinalityType
  <2> QED
    BY <2>1, <2>3
<1> QED
  BY <1>7, <1>8, <1>9, <1>10, <1>11 DEF c, IsBasket, Fits

LEMMA CappedIsBasket ==
    ASSUME NEW e \in Seq(Names), IsInjective(e)
    PROVE  IsBasket(ApplySectorCap(e))
<1> DEFINE D          == DOMAIN e
           first(s)   == Max(s)
           pick       == [s \in SUBSET D |-> first(s)]
           Accs       == Seq(Names)
           next(s, a) == TakeUnlessFull(a, e[first(s)])
           step       == [p \in (SUBSET D) \X Accs |-> next(p[1], p[2])]
           Inv        == {p \in (SUBSET D) \X Accs : 
                           IsBasket(p[2]) /\ Range(p[2]) \subseteq {e[n] : n \in p[1]}}
           base       == <<>>
           iter       == CHOOSE iter : iter = [s \in SUBSET D |->
                             IF s = {} THEN base ELSE next(s, iter[s \ {first(s)}])]
<1>1. ApplySectorCap(e) = iter[D]
  BY DEF ApplySectorCap, FoldLeft, MapThenFoldSet
<1>2. IsPick(pick, D) /\ \A s \in SUBSET D : pick[s] = first(s) /\ (s # {} => first(s) \in s)
  <2>1. IsFiniteSet(D) /\ D \subseteq Int
    <3>1. D = 1..Len(e) /\ 1 \in Int /\ Len(e) \in Int
      OBVIOUS
    <3> QED
      BY <3>1, FS_Interval
  <2> HIDE DEF D
  <2> QED
    BY <2>1, MaxIsPick DEF IsPick
<1>3. <<{}, base>> \in Inv
  <2>1. Range(<<>>) = {} /\ <<>> \in Seq(Names)
    BY DEF Range
  <2> QED
    BY <2>1, NoNames
<1>4. ASSUME NEW s \in SUBSET D, s # {}, NEW a, <<s \ {first(s)}, a>> \in Inv
      PROVE  a \in Accs /\ <<s, next(s, a)>> \in Inv
  <2> DEFINE n == first(s)
             t == e[n]
             b == TakeUnlessFull(a, t)
  <2>1. n \in s /\ a \in Accs /\ IsBasket(a) /\ Range(a) \subseteq {e[m] : m \in s \ {n}}
    BY <1>2, <1>4
  <2>2. t \in Names
    BY <2>1, ElementOfSeq
  <2> HIDE DEF first
  <2>3. t \notin Range(a)
    BY <2>1 DEF IsInjective
  <2>4. b = a \/ (b = Append(a, t) /\ ~(Len(a) >= BasketSize) /\ ~SectorFull(a, t))
    BY DEF TakeUnlessFull
  <2> HIDE DEF t, b
  <2>5. IsBasket(b) /\ (Range(b) = Range(a) \/ Range(b) = Range(a) \union {t})
    <3>1. CASE b = a
      BY <2>1, <3>1
    <3>2. CASE b = Append(a, t) /\ ~(Len(a) >= BasketSize) /\ ~SectorFull(a, t)
      BY <2>1, <2>2, <2>3, <3>2, BasketGrows
    <3> QED
      BY <2>4, <3>1, <3>2
  <2>6. Range(b) \subseteq {e[m] : m \in s}
    BY <2>1, <2>5 DEF t
  <2>7. <<s, b>> \in Inv
    BY <2>5, <2>6 DEF IsBasket
  <2> QED
    BY <2>1, <2>7 DEF b, t
<1> HIDE DEF D, Inv, next, Accs, base
<1>5. ASSUME NEW s \in SUBSET D, NEW a \in Accs
      PROVE  step[<<s, a>>] = next(s, a)
  OBVIOUS
<1> HIDE DEF step, pick, first
<1>6. Carries(Inv, base, step, pick, D)
  BY <1>2, <1>3, <1>4, <1>5 DEF Carries
<1>7. PICK F : F = [s \in SUBSET D |-> F[s]] /\ IsRun(F, base, step, pick, D)
  BY <1>2, RunExists
<1>8. \A s \in SUBSET D : <<s, F[s]>> \in Inv
  BY <1>2, <1>6, <1>7, FoldCarries
<1>9. iter = [s \in SUBSET D |-> IF s = {} THEN base ELSE next(s, iter[s \ {first(s)}])]
  <2>1. ASSUME NEW s \in SUBSET D
        PROVE  F[s] = IF s = {} THEN base ELSE next(s, F[s \ {first(s)}])
    BY <1>2, <1>4, <1>5, <1>7, <1>8 DEF IsRun
  <2>2. F = [s \in SUBSET D |-> IF s = {} THEN base ELSE next(s, F[s \ {first(s)}])]
    BY <1>7, <2>1
  <2> QED
    BY <2>2
<1> HIDE DEF iter
<1>10. <<D, iter[D]>> \in Inv
  <2>1. ASSUME NEW s \in SUBSET D, s = {} \/ <<s \ {pick[s]}, iter[s \ {pick[s]}]>> \in Inv
        PROVE  <<s, iter[s]>> \in Inv
    <3>1. CASE s = {}
      BY <1>3, <1>9, <3>1
    <3>2. CASE s # {}
      <4>1. iter[s] = next(s, iter[s \ {first(s)}]) /\ pick[s] = first(s)
        BY <1>2, <1>9, <3>2
      <4> QED
        BY <1>4, <2>1, <3>2, <4>1
    <3> QED
      BY <3>1, <3>2
  <2> QED
    BY <1>2, <2>1, RunCarries
<1> QED
  BY <1>1, <1>10 DEF Inv

\* The names of b that prev has not.
Strangers(b, prev) == Range(b) \ Range(prev)

\* So far, and no newcomer that is not counted as a change.
Within(a, prev) ==
    /\ IsBasket(a.basket)
    /\ Cardinality(Strangers(a.basket, prev)) <= a.changes
    /\ Cardinality(Strangers(a.basket, prev)) <= MaxTurnover

(* The names that stay are of the previous basket; each newcomer has used up one change. *)
LEMMA NextIsBasket ==
    ASSUME NEW e \in Seq(Names), IsInjective(e), NEW prev, IsBasket(prev), prev # <<>>
    PROVE  /\ IsBasket(NextBasket(e, prev))
           /\ Cardinality(Strangers(NextBasket(e, prev), prev)) <= MaxTurnover
<1> DEFINE D          == DOMAIN e
           first(s)   == Max(s)
           pick       == [s \in SUBSET D |-> first(s)]
           Accs       == [basket : Seq(Names), changes : Nat]
           next(s, a) == Consider(a, e[first(s)], prev)
           step       == [p \in (SUBSET D) \X Accs |-> next(p[1], p[2])]
           Inv        == {p \in (SUBSET D) \X Accs : Within(p[2], prev)}
           base       == [basket |-> Staying(e, prev), changes |-> 0]
           iter       == CHOOSE iter : iter = [s \in SUBSET D |->
                             IF s = {} THEN base ELSE next(s, iter[s \ {first(s)}])]
<1>1. NextBasket(e, prev) = iter[D].basket
  BY DEF NextBasket, FoldLeft, MapThenFoldSet
<1>2. IsPick(pick, D) /\ \A s \in SUBSET D : pick[s] = first(s) /\ (s # {} => first(s) \in s)
  <2>1. IsFiniteSet(D) /\ D \subseteq Int
    <3>1. D = 1..Len(e) /\ 1 \in Int /\ Len(e) \in Int
      OBVIOUS
    <3> QED
      BY <3>1, FS_Interval
  <2> HIDE DEF D
  <2> QED
    BY <2>1, MaxIsPick DEF IsPick
<1>3. <<{}, base>> \in Inv
  <2> DEFINE top == {e[n] : n \in {m \in DOMAIN e : m <= 2 * BasketSize}}
             P   == {n \in DOMAIN prev : prev[n] \in top}
             b   == Staying(e, prev)
  <2>1. b = AtPositions(prev, P) /\ P \subseteq DOMAIN prev
    BY DEF Staying
  <2> HIDE DEF P, b
  <2>2. IsBasket(b) /\ Range(b) \subseteq Range(prev)
    BY <2>1, BasketShrinks
  <2>3. Strangers(b, prev) = {} /\ b \in Seq(Names)
    BY <2>2 DEF Strangers, IsBasket
  <2>4. Cardinality({}) = 0 /\ MaxTurnover \in Nat
    BY FS_EmptySet, Parameters
  <2>5. base = [basket |-> b, changes |-> 0] /\ base \in Accs
    BY <2>3 DEF b
  <2>6. base.basket = b /\ base.changes = 0
    BY <2>5
  <2> HIDE DEF base, Accs
  <2>7. Within(base, prev)
    <3>1. IsBasket(base.basket)
      BY <2>2, <2>6
    <3>2. Cardinality(Strangers(base.basket, prev)) = 0
      BY <2>3, <2>4, <2>6
    <3> QED
      BY <2>4, <2>6, <3>1, <3>2 DEF Within
  <2> QED
    BY <2>5, <2>7
<1>4. ASSUME NEW s \in SUBSET D, s # {}, NEW a, <<s \ {first(s)}, a>> \in Inv
      PROVE  a \in Accs /\ <<s, next(s, a)>> \in Inv
  <2> DEFINE n   == first(s)
             t   == e[n]
             new == t \notin Range(prev)
             k   == IF new THEN a.changes + 1 ELSE a.changes
             c   == Consider(a, t, prev)
             in  == ~((new /\ k > MaxTurnover) \/ SectorFull(a.basket, t))
  <2>1. n \in s /\ a \in Accs /\ Within(a, prev)
    BY <1>2, <1>4
  <2>2. /\ IsBasket(a.basket)
         /\ Cardinality(Strangers(a.basket, prev)) <= a.changes
         /\ Cardinality(Strangers(a.basket, prev)) <= MaxTurnover
    BY <2>1 DEF Within
  <2>3. t \in Names /\ a.changes \in Nat /\ a.basket \in Seq(Names)
    BY <2>1, ElementOfSeq
  <2> HIDE DEF first
  <2>4. \/ c = a
        \/ /\ ~(Len(a.basket) >= BasketSize) /\ t \notin Range(a.basket)
           /\ c = [basket |-> IF in THEN Append(a.basket, t) ELSE a.basket, changes |-> k]
    BY DEF Consider
  <2> HIDE DEF c, t
  <2>5. c \in Accs /\ Within(c, prev)
    <3>1. CASE c = a
      BY <2>1, <3>1
    <3>2. CASE /\ ~(Len(a.basket) >= BasketSize) /\ t \notin Range(a.basket)
               /\ c = [basket |-> IF in THEN Append(a.basket, t) ELSE a.basket, changes |-> k]
      <4> DEFINE b    == a.basket
                 old  == Strangers(b, prev)
                 now  == Strangers(c.basket, prev)
      <4>1. /\ MaxTurnover \in Nat /\ IsFiniteSet(old) /\ Cardinality(old) \in Nat
        <5>1. IsFiniteSet(Range(b))
          BY <2>3, BasketNames
        <5>2. old \subseteq Range(b)
          BY DEF Strangers
        <5> QED
          BY <5>1, <5>2, FS_Subset, FS_CardinalityType, Parameters
      <4>2. k \in Nat /\ k >= a.changes /\ c.changes = k
        BY <2>3, <3>2
      <4>3. CASE ~in
        <5>1. c.basket = a.basket
          BY <3>2, <4>3
        <5>2. c \in Accs
          BY <2>3, <3>2, <4>2, <5>1
        <5> QED
          BY <2>2, <2>3, <4>1, <4>2, <5>1, <5>2 DEF Within
      <4>4. CASE in
        <5>1. c.basket = Append(b, t) /\ ~SectorFull(b, t)
          BY <3>2, <4>4
        <5> HIDE DEF b
        <5>2. IsBasket(Append(b, t)) /\ Range(Append(b, t)) = Range(b) \union {t}
          BY <2>3, <3>2, <2>2, <5>1, BasketGrows DEF b
        <5>3. c \in Accs
          BY <3>2, <4>2, <4>4, <5>1, <5>2 DEF IsBasket
        <5>4. CASE new
          <6>1. now = old \union {t} /\ t \notin old
            BY <3>2, <5>1, <5>2, <5>4 DEF Strangers, b
          <6> HIDE DEF now, old
          <6>2. Cardinality(now) = Cardinality(old) + 1
            BY <4>1, <6>1, FS_AddElement
          <6>3. k = a.changes + 1 /\ ~(k > MaxTurnover)
            BY <4>4, <5>4
          <6>4. Cardinality(old) <= a.changes
            BY <2>2 DEF old, b
          <6>5. Cardinality(now) <= k /\ Cardinality(now) <= MaxTurnover
            BY <2>3, <4>1, <6>2, <6>3, <6>4
          <6> QED
            BY <4>2, <5>1, <5>2, <5>3, <6>5 DEF now, Within
        <5>5. CASE ~new
          <6>1. now = old
            BY <5>1, <5>2, <5>5 DEF Strangers
          <6>2. k = a.changes
            BY <5>5
          <6> QED
            BY <2>2, <4>2, <5>1, <5>2, <5>3, <6>1, <6>2 DEF b, Within
        <5> QED
          BY <5>4, <5>5
      <4> QED
        BY <4>3, <4>4
    <3> QED
      BY <2>4, <3>1, <3>2
  <2> QED
    BY <2>1, <2>5 DEF c, t
<1> HIDE DEF D, Inv, next, Accs, base
<1>5. ASSUME NEW s \in SUBSET D, NEW a \in Accs
      PROVE  step[<<s, a>>] = next(s, a)
  OBVIOUS
<1> HIDE DEF step, pick, first
<1>6. Carries(Inv, base, step, pick, D)
  BY <1>2, <1>3, <1>4, <1>5 DEF Carries
<1>7. PICK F : F = [s \in SUBSET D |-> F[s]] /\ IsRun(F, base, step, pick, D)
  BY <1>2, RunExists
<1>8. \A s \in SUBSET D : <<s, F[s]>> \in Inv
  BY <1>2, <1>6, <1>7, FoldCarries
<1>9. iter = [s \in SUBSET D |-> IF s = {} THEN base ELSE next(s, iter[s \ {first(s)}])]
  <2>1. ASSUME NEW s \in SUBSET D
        PROVE  F[s] = IF s = {} THEN base ELSE next(s, F[s \ {first(s)}])
    BY <1>2, <1>4, <1>5, <1>7, <1>8 DEF IsRun
  <2>2. F = [s \in SUBSET D |-> IF s = {} THEN base ELSE next(s, F[s \ {first(s)}])]
    BY <1>7, <2>1
  <2> QED
    BY <2>2
<1> HIDE DEF iter
<1>10. <<D, iter[D]>> \in Inv
  <2>1. ASSUME NEW s \in SUBSET D, s = {} \/ <<s \ {pick[s]}, iter[s \ {pick[s]}]>> \in Inv
        PROVE  <<s, iter[s]>> \in Inv
    <3>1. CASE s = {}
      BY <1>3, <1>9, <3>1
    <3>2. CASE s # {}
      <4>1. iter[s] = next(s, iter[s \ {first(s)}]) /\ pick[s] = first(s)
        BY <1>2, <1>9, <3>2
      <4> QED
        BY <1>4, <2>1, <3>2, <4>1
    <3> QED
      BY <3>1, <3>2
  <2>2. \A s \in SUBSET D : <<s, iter[s]>> \in Inv
    BY ONLY <1>2, <2>1, RunCarries
  <2> QED
    BY <2>2
<1> QED
  BY <1>1, <1>10 DEF Inv, Within

(* Whatever was scored, and with whatever basket before. *)
LEMMA SelectedIsBasket ==
    ASSUME NEW data, NEW spy, NEW date, NEW prev, IsBasket(prev)
    PROVE  LET b == SelectCoreBasket(ScoreUniverse(data, spy, date), prev) IN
           /\ IsBasket(b)
           /\ prev # <<>> => Cardinality(Strangers(b, prev)) <= MaxTurnover
<1> DEFINE e == Eligible(ScoreUniverse(data, spy, date))
           b == SelectCoreBasket(ScoreUniverse(data, spy, date), prev)
<1>1. e \in Seq(Names) /\ IsInjective(e)
  BY EligibleType
<1>2. b = NextBasket(e, prev)
  BY DEF SelectCoreBasket
<1> HIDE DEF e, b
<1>3. CASE prev = <<>>
  <2>1. b = ApplySectorCap(e)
    BY <1>2, <1>3 DEF NextBasket
  <2> QED
    BY <1>1, <1>3, <2>1, CappedIsBasket DEF b
<1>4. CASE prev # <<>>
  BY <1>1, <1>2, <1>4, NextIsBasket DEF b
<1> QED
  BY <1>3, <1>4

-----------------------------------------------------------------------------
(* What a score depends on                                                 *)

\* Two loads with the same reports published by a date and the same closes up to it.
Agree(a, b, spy, date) ==
    /\ \A t \in Names :
          /\ Published(a, t, date) = Published(b, t, date)
          /\ IsFiniteSet(Published(a, t, date)) /\ Published(a, t, date) \subseteq Nat \ {0}
          /\ \A n \in Published(a, t, date) : a.reports[t][n] = b.reports[t][n]
    /\ \A t \in Names \union {spy} : \A n \in 1..date : a.closes[t][n] = b.closes[t][n]

LEMMA SameReports ==
    ASSUME NEW a, NEW b, NEW spy, NEW date \in Nat, Agree(a, b, spy, date), NEW t \in Names
    PROVE  /\ \A n : HasYears(a, t, date, n) = HasYears(b, t, date, n)
           /\ HasYears(a, t, date, 1) => Latest(a, t, date, 0) = Latest(b, t, date, 0)
           /\ HasYears(a, t, date, 2) => Latest(a, t, date, 1) = Latest(b, t, date, 1)
           /\ HasYears(a, t, date, 3) => Latest(a, t, date, 2) = Latest(b, t, date, 2)
           /\ HasYears(a, t, date, 3) => HasYears(a, t, date, 2)
           /\ HasYears(a, t, date, 2) => HasYears(a, t, date, 1)
<1> DEFINE P == Published(a, t, date)
           size == Cardinality(P)
<1>1. /\ P = Published(b, t, date) /\ IsFiniteSet(P) /\ P \subseteq Nat \ {0}
      /\ \A n \in P : a.reports[t][n] = b.reports[t][n]
  BY DEF Agree
<1> HIDE DEF P
<1>2. size \in Nat /\ \A k \in 1..size : InOrder(P)[k] \in P
  BY <1>1, AtPositionsType
<1>3. ASSUME NEW back \in Nat, size > back
      PROVE  Latest(a, t, date, back) = Latest(b, t, date, back)
  <2>1. size - back \in 1..size
    BY <1>2, <1>3
  <2>2. a.reports[t][InOrder(P)[size - back]] = b.reports[t][InOrder(P)[size - back]]
    BY <1>1, <1>2, <2>1
  <2> QED
    BY <1>1, <2>2 DEF Latest, P
<1>4. \A n : HasYears(a, t, date, n) = (size >= n) /\ HasYears(b, t, date, n) = (size >= n)
  BY <1>1 DEF HasYears, P
<1>5. /\ size >= 1 => size > 0
      /\ size >= 2 => size > 1 /\ size >= 1
      /\ size >= 3 => size > 2 /\ size >= 2
  BY <1>2
<1> HIDE DEF size
<1>6. 0 \in Nat /\ 1 \in Nat /\ 2 \in Nat
  OBVIOUS
<1> QED
  BY <1>3, <1>4, <1>5, <1>6

LEMMA SamePrice ==
    ASSUME NEW a, NEW b, NEW spy, NEW date \in Nat, Agree(a, b, spy, date), NEW t \in Names
    PROVE  PriceAt(a, t, date) = PriceAt(b, t, date)
<1> DEFINE known == {n \in 1..date : a.closes[t][n] > 0}
<1>1. \A n \in 1..date : a.closes[t][n] = b.closes[t][n]
  BY DEF Agree
<1>2. known = {n \in 1..date : b.closes[t][n] > 0}
  BY <1>1
<1>3. known # {} => Max(known) \in 1..date
  <2> SUFFICES ASSUME known # {}
               PROVE  Max(known) \in 1..date
    OBVIOUS
  <2>1. 1 \in Int /\ date \in Int /\ known \subseteq 1..date /\ known \subseteq Int
    OBVIOUS
  <2>2. IsFiniteSet(1..date)
    BY <2>1, FS_Interval
  <2> HIDE DEF known
  <2>3. IsFiniteSet(known)
    BY <2>1, <2>2, FS_Subset
  <2>4. \E x \in known : \A y \in known : x >= y
    BY <2>1, <2>3, GreatestExists
  <2> QED
    BY <2>1, <2>4 DEF Max
<1> HIDE DEF known
<1>4. PriceAt(a, t, date) = IF known = {} THEN 0 ELSE a.closes[t][Max(known)]
  BY DEF PriceAt, known
<1>5. PriceAt(b, t, date) = IF known = {} THEN 0 ELSE b.closes[t][Max(known)]
  BY <1>2 DEF PriceAt
<1> QED
  BY <1>1, <1>3, <1>4, <1>5

LEMMA SameSeries ==
    ASSUME NEW a, NEW b, NEW spy, NEW date \in Nat, Agree(a, b, spy, date),
           NEW t \in Names \union {spy}
    PROVE  PriceSeries(a, t, date) = PriceSeries(b, t, date)
<1> DEFINE first == Max({1, date - Lookback})
           s(c)  == [k \in 1..(date - first + 1) |-> c.closes[t][first + k - 1]]
<1>1. \A n \in 1..date : a.closes[t][n] = b.closes[t][n]
  BY DEF Agree
<1>2. first \in Int /\ first >= 1
  <2> DEFINE x == date - Lookback
  <2>1. {MinSeries, Lookback, PubLag} \subseteq Nat
    BY ScoringAssumption, Zenon
  <2>2. 1 \in Int /\ x \in Int
    BY <2>1
  <2> HIDE DEF x
  <2> QED
    BY <2>2, Extremes DEF x
<1> HIDE DEF first
<1>3. \A k \in 1..(date - first + 1) : first + k - 1 \in 1..date
  BY <1>2
<1>4. s(a) = s(b)
  BY <1>1, <1>3
<1>5. PriceSeries(a, t, date) = Traded(s(a)) /\ PriceSeries(b, t, date) = Traded(s(b))
  BY DEF PriceSeries, first
<1> HIDE DEF s
<1> QED
  BY <1>4, <1>5

LEMMA SameMultiples ==
    ASSUME NEW a, NEW b, NEW spy, NEW date \in Nat, Agree(a, b, spy, date),
           NEW S, S \subseteq Names, NEW perShare
    PROVE  Multiples(a, S, date, perShare) = Multiples(b, S, date, perShare)
<1>1. ASSUME NEW t \in S
      PROVE  /\ Usable(a, t, date, perShare) = Usable(b, t, date, perShare)
             /\ Usable(a, t, date, perShare) =>
                   <<Ratio(PriceAt(a, t, date), Latest(a, t, date, 0)[perShare]), t>>
                     = <<Ratio(PriceAt(b, t, date), Latest(b, t, date, 0)[perShare]), t>>
  <2>1. t \in Names
    OBVIOUS
  <2>2. /\ PriceAt(a, t, date) = PriceAt(b, t, date)
        /\ HasYears(a, t, date, 1) = HasYears(b, t, date, 1)
        /\ HasYears(a, t, date, 1) => Latest(a, t, date, 0) = Latest(b, t, date, 0)
    BY <2>1, SamePrice, SameReports
  <2> QED
    BY <2>2 DEF Usable
<1> DEFINE pair(c, t) == <<Ratio(PriceAt(c, t, date), Latest(c, t, date, 0)[perShare]), t>>
           usable(c)  == {u \in S : Usable(c, u, date, perShare)}
<1>2. usable(a) = usable(b)
  BY <1>1
<1>3. \A t \in usable(a) : pair(a, t) = pair(b, t)
  BY <1>1
<1>4. /\ Multiples(a, S, date, perShare) = SetToSeq({pair(a, t) : t \in usable(a)})
      /\ Multiples(b, S, date, perShare) = SetToSeq({pair(b, t) : t \in usable(b)})
  BY DEF Multiples
<1> HIDE DEF pair, usable
<1>5. {pair(a, t) : t \in usable(a)} = {pair(b, t) : t \in usable(b)}
  BY <1>2, <1>3
<1> QED
  BY <1>4, <1>5

LEMMA SameValuation ==
    ASSUME NEW a, NEW b, NEW spy, NEW date \in Nat, Agree(a, b, spy, date), NEW t \in Names
    PROVE  ValuationScore(a, t, date) = ValuationScore(b, t, date)
<1>1. \A g : PeersBy(g, t) \subseteq Names
  BY DEF PeersBy
<1>2. Peers(a, t, date) \subseteq Names
  BY <1>1 DEF Peers
<1>3. \A S : S \subseteq Names => \A x : Multiples(a, S, date, x) = Multiples(b, S, date, x)
  BY SameMultiples
<1>4. Peers(a, t, date) = Peers(b, t, date)
  BY <1>1, <1>3 DEF Peers
<1>5. {t} \subseteq Names /\ Names \subseteq Names
  OBVIOUS
<1>6. /\ PriceAt(a, t, date) = PriceAt(b, t, date)
      /\ HasYears(a, t, date, 1) = HasYears(b, t, date, 1)
      /\ PriceSeries(a, t, date) = PriceSeries(b, t, date)
  BY SamePrice, SameReports, SameSeries
<1>7. \A x : /\ Multiples(a, {t}, date, x) = Multiples(b, {t}, date, x)
             /\ Multiples(a, Names, date, x) = Multiples(b, Names, date, x)
             /\ Multiples(a, Peers(a, t, date), date, x) = Multiples(b, Peers(b, t, date), date, x)
  BY <1>2, <1>3, <1>4, <1>5
<1> QED
  BY <1>6, <1>7, Zenon DEF ValuationScore

LEMMA SameQuality ==
    ASSUME NEW a, NEW b, NEW spy, NEW date \in Nat, Agree(a, b, spy, date), NEW t \in Names
    PROVE  QualityScore(a, t, date) = QualityScore(b, t, date)
<1>1. /\ HasYears(a, t, date, 1) = HasYears(b, t, date, 1)
      /\ HasYears(a, t, date, 1) => Latest(a, t, date, 0) = Latest(b, t, date, 0)
  BY SameReports
<1> QED
  BY <1>1, Zenon DEF QualityScore

LEMMA SameRevision ==
    ASSUME NEW a, NEW b, NEW spy, NEW date \in Nat, Agree(a, b, spy, date), NEW t \in Names
    PROVE  RevisionScore(a, t, date) = RevisionScore(b, t, date)
<1>1. /\ HasYears(a, t, date, 2) = HasYears(b, t, date, 2)
      /\ HasYears(a, t, date, 3) = HasYears(b, t, date, 3)
      /\ HasYears(a, t, date, 2) => /\ Latest(a, t, date, 0) = Latest(b, t, date, 0)
                                    /\ Latest(a, t, date, 1) = Latest(b, t, date, 1)
      /\ HasYears(a, t, date, 3) => Latest(a, t, date, 2) = Latest(b, t, date, 2)
  BY SameReports
<1>2. CASE ~HasYears(a, t, date, 2)
  BY <1>1, <1>2, SMT DEF RevisionScore
<1>3. CASE HasYears(a, t, date, 2) /\ ~HasYears(a, t, date, 3)
  BY <1>1, <1>3, SMT DEF RevisionScore
<1>4. CASE HasYears(a, t, date, 2) /\ HasYears(a, t, date, 3)
  BY <1>1, <1>4, SMT DEF RevisionScore
<1> QED
  BY <1>2, <1>3, <1>4

LEMMA SameTrend ==
    ASSUME NEW a, NEW b, NEW spy, NEW date \in Nat, Agree(a, b, spy, date), NEW t \in Names
    PROVE  /\ TrendScore(a, t, spy, date) = TrendScore(b, t, spy, date)
           /\ StabilityScore(a, t, date) = StabilityScore(b, t, date)
           /\ Weights(a, t, date) = Weights(b, t, date)
<1>1. /\ PriceSeries(a, t, date) = PriceSeries(b, t, date)
      /\ PriceSeries(a, spy, date) = PriceSeries(b, spy, date)
      /\ HasYears(a, t, date, 1) = HasYears(b, t, date, 1)
      /\ HasYears(a, t, date, 2) = HasYears(b, t, date, 2)
  BY SameSeries, SameReports
<1>2. TrendScore(a, t, spy, date) = TrendScore(b, t, spy, date)
  BY <1>1, Zenon DEF TrendScore
<1>3. StabilityScore(a, t, date) = StabilityScore(b, t, date)
  BY <1>1, SMT DEF StabilityScore
<1>4. Weights(a, t, date) = Weights(b, t, date)
  BY <1>1 DEF Weights
<1> QED
  BY <1>2, <1>3, <1>4

(* The scores of a date see nothing of what comes after it. *)
LEMMA SameScores ==
    ASSUME NEW a, NEW b, NEW spy, NEW date \in Nat, Agree(a, b, spy, date)
    PROVE  ScoreUniverse(a, spy, date) = ScoreUniverse(b, spy, date)
<1>1. ASSUME NEW t \in Names
      PROVE  /\ ScoreTicker(a, t, spy, date) = ScoreTicker(b, t, spy, date)
             /\ PriceAt(a, t, date) = PriceAt(b, t, date)
  <2>1. /\ ValuationScore(a, t, date) = ValuationScore(b, t, date)
        /\ QualityScore(a, t, date) = QualityScore(b, t, date)
        /\ RevisionScore(a, t, date) = RevisionScore(b, t, date)
    BY SameValuation, SameQuality, SameRevision
  <2>2. /\ TrendScore(a, t, spy, date) = TrendScore(b, t, spy, date)
        /\ StabilityScore(a, t, date) = StabilityScore(b, t, date)
        /\ Weights(a, t, date) = Weights(b, t, date)
    BY SameTrend
  <2>3. ScoreTicker(a, t, spy, date) = ScoreTicker(b, t, spy, date)
    BY <2>1, <2>2, Zenon DEF ScoreTicker
  <2> QED
    BY <2>3, SamePrice
<1>2. \A n \in DOMAIN Universe : Universe[n] \in Names
  BY DEF Names, Range
<1> DEFINE score(c, n) == [place |-> n, composite |-> ScoreTicker(c, Universe[n], spy, date),
                           priced |-> PriceAt(c, Universe[n], date) > 0]
<1>3. \A n \in DOMAIN Universe : score(a, n) = score(b, n)
  BY <1>1, <1>2
<1>4. /\ ScoreUniverse(a, spy, date) = {score(a, n) : n \in DOMAIN Universe}
      /\ ScoreUniverse(b, spy, date) = {score(b, n) : n \in DOMAIN Universe}
  BY DEF ScoreUniverse
<1> HIDE DEF score
<1> QED
  BY <1>3, <1>4

LEMMA PublishedType ==
    ASSUME NEW closes, NEW t \in Names, NEW date
    PROVE  /\ Published(Loaded(closes, Reports), t, date) =
                 {n \in DOMAIN Reports[t] : Reports[t][n].after <= date}
           /\ IsFiniteSet(Published(Loaded(closes, Reports), t, date))
           /\ Published(Loaded(closes, Reports), t, date) \subseteq Nat \ {0}
<1> DEFINE D    == DOMAIN Statements[t]
           size == Cardinality(D)
           P    == Published(Loaded(closes, Reports), t, date)
<1>1. t \in DOMAIN Statements
  BY UniverseType
<1>2. Statements[t] \in Seq(Range(Statements[t]))
  BY <1>1, ScoringAssumption, Zenon
<1>3. size \in Nat
  <2>1. D = 1..Len(Statements[t]) /\ 1 \in Int /\ Len(Statements[t]) \in Int
    BY <1>2
  <2>2. IsFiniteSet(D)
    BY <2>1, FS_Interval
  <2> QED
    BY <2>2, FS_CardinalityType
<1>4. DOMAIN Reports[t] = 1..size
  BY <1>1 DEF Reports, Ranked
<1>5. P = {n \in DOMAIN Reports[t] : Reports[t][n].after <= date}
  BY DEF Published, Loaded
<1> HIDE DEF P, size
<1>6. P \subseteq 1..size /\ 1..size \subseteq Nat \ {0} /\ 1 \in Int /\ size \in Int
  BY <1>3, <1>4, <1>5
<1>7. IsFiniteSet(1..size)
  BY <1>6, FS_Interval
<1>8. IsFiniteSet(P) /\ P \subseteq Nat \ {0}
  BY <1>6, <1>7, FS_Subset
<1> QED
  BY <1>5, <1>8 DEF P

\* The closes of h begin with those of g, up to a date.
Extends(h, g, date) == \A c \in Codes : \A n \in 1..date : h[c][n] = g[c][n]

LEMMA LoadsAgree ==
    ASSUME NEW h, NEW g, NEW date \in Nat, Extends(h, g, date)
    PROVE  Agree(Loaded(h, Reports), Loaded(g, Reports), SPY, date)
<1>1. SPY \in Codes /\ Names \subseteq Codes
  BY Parameters
<1>2. \A t \in Names :
        /\ Published(Loaded(h, Reports), t, date) = Published(Loaded(g, Reports), t, date)
        /\ IsFiniteSet(Published(Loaded(h, Reports), t, date))
        /\ Published(Loaded(h, Reports), t, date) \subseteq Nat \ {0}
  BY PublishedType
<1>3. /\ Loaded(h, Reports).reports = Loaded(g, Reports).reports
      /\ Loaded(h, Reports).closes = h /\ Loaded(g, Reports).closes = g
  BY DEF Loaded
<1> QED
  BY <1>1, <1>2, <1>3 DEF Agree, Extends

LEMMA UpToAgrees ==
    ASSUME hist \in [Codes -> Seq(Nat)], NEW date \in Nat, \A c \in Codes : date <= Len(hist[c])
    PROVE  Agree(UpTo(date), Loaded(hist, Reports), SPY, date)
<1> DEFINE P(t) == {n \in DOMAIN Reports[t] : Reports[t][n].after <= date}
           cut  == [c \in Codes |-> SubSeq(hist[c], 1, date)]
           seen == [t \in DOMAIN Reports |-> Restrict(Reports[t], P(t))]
<1>1. SPY \in Codes /\ Names \subseteq Codes
  BY Parameters
<1>2. UpTo(date) = Loaded(cut, seen) /\ UpTo(date).closes = cut /\ UpTo(date).reports = seen
  BY DEF UpTo, Loaded
<1>3. ASSUME NEW c \in Codes, NEW n \in 1..date
      PROVE  cut[c][n] = hist[c][n]
  <2>1. hist[c] \in Seq(Nat) /\ date <= Len(hist[c]) /\ Len(hist[c]) \in Nat
    OBVIOUS
  <2>2. SubSeq(hist[c], 1, date)[n] = hist[c][n]
    BY <2>1
  <2> QED
    BY <2>2
<1>4. ASSUME NEW t \in Names
      PROVE  /\ Published(UpTo(date), t, date) = P(t) /\ IsFiniteSet(P(t)) /\ P(t) \subseteq Nat \ {0}
             /\ Published(Loaded(hist, Reports), t, date) = P(t)
             /\ \A n \in P(t) : seen[t][n] = Reports[t][n]
  <2>1. t \in DOMAIN Reports
    BY UniverseType DEF Reports
  <2>2. /\ Published(Loaded(hist, Reports), t, date) = P(t)
        /\ IsFiniteSet(P(t)) /\ P(t) \subseteq Nat \ {0}
    BY PublishedType
  <2>3. seen[t] = Restrict(Reports[t], P(t))
    BY <2>1
  <2> HIDE DEF P, seen
  <2>4. DOMAIN seen[t] = P(t) /\ \A n \in P(t) : seen[t][n] = Reports[t][n]
    BY <2>3 DEF Restrict
  <2>5. Published(UpTo(date), t, date) = {n \in P(t) : seen[t][n].after <= date}
    BY <1>2, <2>4 DEF Published
  <2>6. \A n \in P(t) : Reports[t][n].after <= date
    BY DEF P
  <2> QED
    BY <2>2, <2>4, <2>5, <2>6
<1>5. Loaded(hist, Reports).reports = Reports /\ Loaded(hist, Reports).closes = hist
  BY DEF Loaded
<1> HIDE DEF cut, seen, P
<1> QED
  BY <1>1, <1>2, <1>3, <1>4, <1>5 DEF Agree

LEMMA PriceAtType ==
    ASSUME NEW g, NEW c, NEW date \in Nat, g[c] \in Seq(Nat), date <= Len(g[c])
    PROVE  PriceAt(Loaded(g, Reports), c, date) \in Nat
<1> DEFINE known == {n \in 1..date : g[c][n] > 0}
<1>1. known # {} => Max(known) \in 1..date
  <2> SUFFICES ASSUME known # {}
               PROVE  Max(known) \in 1..date
    OBVIOUS
  <2>1. 1 \in Int /\ date \in Int /\ known \subseteq 1..date /\ known \subseteq Int
    OBVIOUS
  <2>2. IsFiniteSet(1..date)
    BY <2>1, FS_Interval
  <2> HIDE DEF known
  <2>3. IsFiniteSet(known)
    BY <2>1, <2>2, FS_Subset
  <2>4. \E x \in known : \A y \in known : x >= y
    BY <2>1, <2>3, GreatestExists
  <2> QED
    BY <2>1, <2>4 DEF Max
<1>2. PriceAt(Loaded(g, Reports), c, date) = IF known = {} THEN 0 ELSE g[c][Max(known)]
  BY DEF PriceAt, Loaded
<1>3. \A n \in 1..date : g[c][n] \in Nat
  BY ElementOfSeq
<1> HIDE DEF known
<1> QED
  BY <1>1, <1>2, <1>3

-----------------------------------------------------------------------------
(* The invariant                                                           *)

\* The basket in force when the k-th of the history was chosen.
Earlier(k) == IF k = 1 THEN <<>> ELSE log[k - 1].basket

\* Each basket of the history is the one its date selects with all that is known now.
Chosen ==
    \A k \in DOMAIN log :
        /\ log[k].date <= Len(hist[SPY])
        /\ log[k].basket = SelectCoreBasket(ScoreUniverse(Loaded(hist, Reports), SPY, log[k].date),
                                            Earlier(k))

\* The last basket of the history is the one in force, and none is empty.
History ==
    /\ core.basket = (IF log = <<>> THEN <<>> ELSE log[Len(log)].basket)
    /\ \A k \in DOMAIN log :
          /\ IsBasket(log[k].basket) /\ log[k].basket # <<>>
          /\ k > 1 => Cardinality(Strangers(log[k].basket, log[k - 1].basket)) <= MaxTurnover

\* Until the books close, a fixed basket that was never bought holds nothing.
Unbought == ~ended /\ opts.mode = "hybrid" /\ ~core.started => DOMAIN core.held = {}

ReplayInv == TypeOK /\ BooksBalance /\ Unbought /\ History /\ Chosen

LEMMA Books ==
    ASSUME NEW f \in Portfolios, NEW k \in Cores, NEW given \in Int
    PROVE  /\ f.cash + OpenCost(f.positions) = given + TotalMade(f.trades) <=> Balance(f) = given
           /\ k.cash + Cost(k.held) + k.lost = CoreCapital + k.realised
                <=> CoreBalance(k) = CoreCapital
<1>1. /\ f.cash \in Int /\ OpenCost(f.positions) \in Int /\ TotalMade(f.trades) \in Int
  BY BalanceType
<1>2. k.cash \in Int /\ Cost(k.held) \in Int /\ k.lost \in Int /\ k.realised \in Int
  BY CoreBalanceType
<1>3. CoreCapital \in Int
  BY Parameters
<1>4. f.cash + OpenCost(f.positions) = given + TotalMade(f.trades) <=> Balance(f) = given
  BY <1>1 DEF Balance
<1>5. k.cash + Cost(k.held) + k.lost = CoreCapital + k.realised <=> CoreBalance(k) = CoreCapital
  BY <1>2, <1>3 DEF CoreBalance
<1> QED
  BY <1>4, <1>5

-----------------------------------------------------------------------------
(* The steps                                                               *)

LEMMA StateTypes ==
    ASSUME TypeOK
    PROVE  /\ opts \in Options /\ opts.mode \in {"plain", "hybrid", "pit"} /\ Plain \in BOOLEAN
           /\ hist \in [Codes -> Seq(Nat)] /\ \A c \in Codes : Len(hist[c]) = Len(hist[SPY])
           /\ Len(hist[SPY]) \in Nat /\ Len(Before[SPY]) \in Nat /\ Today \in 0..Bars
           /\ DateOf(Today) = Len(hist[SPY]) /\ DateOf(Today + 1) = Len(hist[SPY]) + 1
           /\ pf \in Portfolios /\ core \in Cores /\ pending \in Seq(Entry) /\ income \in Nat
<1>1. opts \in Options /\ hist \in [Codes -> Seq(Nat)] /\ Today \in 0..Bars
      /\ (\A c \in Codes : Len(hist[c]) = Len(hist[SPY]))
      /\ IsPortfolio(pf) /\ IsCore(core) /\ pending \in Seq(Entry) /\ income \in Nat
  BY DEF TypeOK
<1>2. opts.mode \in {"plain", "hybrid", "pit"} /\ Plain \in BOOLEAN
  BY <1>1, OptionTypes DEF Plain
<1>3. SPY \in Codes /\ Before \in [Codes -> Seq(Nat)]
  BY BacktestAssumption, Zenon
<1>4. Len(hist[SPY]) \in Nat /\ Len(Before[SPY]) \in Nat
  BY <1>1, <1>3
<1>5. DateOf(Today) = Len(hist[SPY]) /\ DateOf(Today + 1) = Len(hist[SPY]) + 1
  BY <1>4 DEF DateOf, Today
<1> QED
  BY <1>1, <1>2, <1>4, <1>5, PortfolioType, CoreType

LEMMA DateAdvances ==
    ASSUME TypeOK, NextDate
    PROVE  /\ day' \in Days /\ opts' = opts /\ ended' = ended /\ Plain' = Plain
           /\ hist' \in [Codes -> Seq(Nat)] /\ \A c \in Codes : Len(hist'[c]) = Len(hist'[SPY])
           /\ Len(hist'[SPY]) = Len(hist[SPY]) + 1 /\ DateOf(Today + 1) = Len(hist'[SPY])
           /\ Today' \in 0..Bars /\ Quarter[Today + 1] \in Nat
           /\ Extends(hist', hist, Len(hist[SPY]))
<1>1. /\ hist \in [Codes -> Seq(Nat)] /\ \A c \in Codes : Len(hist[c]) = Len(hist[SPY])
      /\ Len(hist[SPY]) \in Nat /\ Len(Before[SPY]) \in Nat /\ Today \in 0..Bars
      /\ DateOf(Today + 1) = Len(hist[SPY]) + 1
  BY StateTypes
<1>2. /\ Today < Bars /\ day' \in Days /\ opts' = opts /\ ended' = ended
      /\ hist' = [c \in Codes |-> Append(hist[c], day'.bars[c].close)]
  BY DEF NextDate, Known
<1>3. SPY \in Codes /\ Quarter \in [1..Bars -> Nat] /\ Bars \in Nat
  BY BacktestAssumption, Parameters, Zenon
<1>4. ASSUME NEW c \in Codes
      PROVE  /\ hist'[c] \in Seq(Nat) /\ Len(hist'[c]) = Len(hist[SPY]) + 1
             /\ \A n \in 1..Len(hist[SPY]) : hist'[c][n] = hist[c][n]
  <2> DEFINE s == hist[c]
             x == day'.bars[c].close
  <2>1. s \in Seq(Nat) /\ x \in Nat /\ Len(s) = Len(hist[SPY])
    BY <1>1, <1>2, DayTypes
  <2>2. hist'[c] = Append(s, x)
    BY <1>2
  <2> HIDE DEF s, x
  <2>3. /\ Append(s, x) \in Seq(Nat) /\ Len(Append(s, x)) = Len(s) + 1
        /\ \A n \in 1..Len(s) : Append(s, x)[n] = s[n]
    BY <2>1
  <2> QED
    BY <2>1, <2>2, <2>3 DEF s
<1>5. Len(hist'[SPY]) = Len(hist[SPY]) + 1
  BY <1>3, <1>4
<1>6. hist' \in [Codes -> Seq(Nat)]
  <2>1. DOMAIN hist' = Codes /\ hist' = [c \in Codes |-> hist'[c]]
    BY <1>2
  <2> QED
    BY <1>4, <2>1
<1>7. Today' \in 0..Bars
  <2>1. Today' = Today + 1
    BY <1>1, <1>5 DEF Today
  <2> QED
    BY <1>1, <1>2, <1>3, <2>1
<1>8. Today + 1 \in 1..Bars
  BY <1>1, <1>2, <1>3
<1>9. Plain' = Plain
  BY <1>2 DEF Plain
<1> QED
  BY <1>1, <1>2, <1>3, <1>4, <1>5, <1>6, <1>7, <1>8, <1>9 DEF Extends

(* What was chosen stays what its date selects, with all that is known by now. *)
LEMMA ChosenStays ==
    ASSUME TypeOK, Chosen, NextDate, NEW k \in DOMAIN log
    PROVE  /\ log[k].date <= Len(hist'[SPY])
           /\ log[k].basket = SelectCoreBasket(
                                 ScoreUniverse(Loaded(hist', Reports), SPY, log[k].date), Earlier(k))
<1> DEFINE date == log[k].date
<1>1. /\ Len(hist[SPY]) \in Nat /\ Len(hist'[SPY]) = Len(hist[SPY]) + 1
      /\ Extends(hist', hist, Len(hist[SPY]))
  BY StateTypes, DateAdvances
<1>2. date <= Len(hist[SPY])
      /\ log[k].basket = SelectCoreBasket(ScoreUniverse(Loaded(hist, Reports), SPY, date), Earlier(k))
  BY DEF Chosen
<1>3. date \in Nat
  <2> DEFINE Rows == [date : Nat, basket : Seq(Names)]
  <2>1. log \in Seq(Rows)
    BY DEF TypeOK
  <2>2. \A row \in Rows : row.date \in Nat
    OBVIOUS
  <2> HIDE DEF Rows
  <2>3. log[k] \in Rows
    BY <2>1
  <2> QED
    BY <2>2, <2>3
<1> HIDE DEF date
<1>4. Extends(hist', hist, date)
  BY <1>1, <1>2, <1>3 DEF Extends
<1>5. ScoreUniverse(Loaded(hist', Reports), SPY, date) = ScoreUniverse(Loaded(hist, Reports), SPY, date)
  <2> DEFINE a == Loaded(hist', Reports)
             b == Loaded(hist, Reports)
  <2>1. Agree(a, b, SPY, date)
    BY <1>3, <1>4, LoadsAgree
  <2> HIDE DEF a, b
  <2>2. ScoreUniverse(a, SPY, date) = ScoreUniverse(b, SPY, date)
    BY <1>3, <2>1, SameScores
  <2> QED
    BY <2>2 DEF a, b
<1>6. date <= Len(hist'[SPY])
  BY <1>1, <1>2, <1>3
<1> QED
  BY <1>2, <1>5, <1>6 DEF date

(* What every date does to the engine and to its books, whatever the core does. *)
LEMMA DateKeeps ==
    ASSUME TypeOK, BooksBalance, NextDate, core' \in Cores,
           ~Plain => CoreBalance(core') = CoreBalance(core),
           NEW signals \in SignalLists, NEW reserved, NEW idle \in Nat,
           Replay(day', signals, reserved, idle),
           log' \in Seq([date : Nat, basket : Seq(Names)])
    PROVE  TypeOK' /\ BooksBalance' /\ Foreseen(pf, pf', day', reserved)
<1>1. /\ opts \in Options /\ Plain \in BOOLEAN /\ ended \in BOOLEAN
      /\ pf \in Portfolios /\ core \in Cores /\ pending \in Seq(Entry) /\ income \in Nat
  BY StateTypes DEF TypeOK
<1>2. /\ day' \in Days /\ opts' = opts /\ ended' = ended /\ Plain' = Plain
      /\ hist' \in [Codes -> Seq(Nat)] /\ \A c \in Codes : Len(hist'[c]) = Len(hist'[SPY])
      /\ Today' \in 0..Bars
  BY DateAdvances
<1> DEFINE d == day'
<1>3. d \in Days /\ Replay(d, signals, reserved, idle)
  BY <1>2
<1> HIDE DEF d
<1>4. /\ pf' \in Portfolios /\ pending' \in Seq(Entry) /\ income' \in Nat
      /\ Balance(pf') = Balance(pf) + (IF Plain THEN income' - income ELSE 0)
      /\ Foreseen(pf, pf', d, reserved)
  BY <1>1, <1>3, ReplayKeeps
<1>5. TypeOK'
  <2>1. IsPortfolio(pf') /\ IsCore(core')
    BY <1>4, PortfolioType, CoreType
  <2> QED
    BY <1>1, <1>2, <1>4, <2>1 DEF TypeOK
<1>6. BooksBalance'
  <2> DEFINE given  == IF Plain THEN Capital + income ELSE TacticalCapital
             after  == IF Plain THEN Capital + income' ELSE TacticalCapital
  <2>1. /\ given \in Int /\ after \in Int
        /\ after = given + (IF Plain THEN income' - income ELSE 0)
    <3>1. Capital \in Int /\ TacticalCapital \in Int /\ income \in Int /\ income' \in Int
      BY <1>1, <1>4, Parameters
    <3>2. CASE Plain
      BY <3>1, <3>2
    <3>3. CASE ~Plain
      BY <3>1, <3>3
    <3> QED
      BY <3>2, <3>3
  <2>2. /\ pf.cash + OpenCost(pf.positions) = given + TotalMade(pf.trades)
        /\ ~Plain => core.cash + Cost(core.held) + core.lost = CoreCapital + core.realised
    BY DEF BooksBalance
  <2> HIDE DEF given, after
  <2>3. Balance(pf) = given /\ (~Plain => CoreBalance(core) = CoreCapital)
    BY <1>1, <2>1, <2>2, Books
  <2>4. Balance(pf') = after /\ (~Plain => CoreBalance(core') = CoreCapital)
    BY <1>4, <2>1, <2>3
  <2>5. /\ pf'.cash + OpenCost(pf'.positions) = after + TotalMade(pf'.trades)
        /\ ~Plain => core'.cash + Cost(core'.held) + core'.lost = CoreCapital + core'.realised
    BY <1>4, <2>1, <2>4, Books
  <2> QED
    BY <1>2, <2>5 DEF BooksBalance, after
<1> QED
  BY <1>4, <1>5, <1>6 DEF d

LEMMA IdleType == ASSUME income \in Nat, NEW k \in Cores PROVE Idle(k) \in Nat
<1> DEFINE x == k.cash
           m == Max({0, x})
<1>1. x \in Int /\ 0 \in Int /\ CashFloor \in Nat
  BY CoreBalanceType, Parameters
<1> HIDE DEF x
<1>2. m \in {0, x} /\ m >= 0
  BY <1>1, Extremes
<1>3. Idle(k) = IF Plain THEN 0 ELSE m + CashFloor + income
  BY DEF Idle, x
<1> HIDE DEF m
<1> QED
  BY <1>1, <1>2, <1>3

LEMMA PlainStep ==
    ASSUME ReplayInv, ReplayPlain
    PROVE  ReplayInv' /\ Foreseen(pf, pf', day', Reserved(core'))
<1>1. PICK signals \in SignalLists : Replay(day', signals, Reserved(core), 0)
  BY DEF ReplayPlain
<1>2. NextDate /\ Plain /\ core' = core /\ log' = log
  BY DEF ReplayPlain
<1>3. TypeOK /\ BooksBalance /\ core \in Cores /\ log \in Seq([date : Nat, basket : Seq(Names)])
  BY StateTypes DEF ReplayInv, TypeOK
<1>4. TypeOK' /\ BooksBalance' /\ Foreseen(pf, pf', day', Reserved(core))
  <2>1. 0 \in Nat
    OBVIOUS
  <2> QED
    BY <1>1, <1>2, <1>3, <2>1, DateKeeps
<1>5. Chosen'
  <2>1. Chosen
    BY DEF ReplayInv
  <2> QED
    BY <1>2, <1>3, <2>1, ChosenStays DEF Chosen, Earlier
<1>6. Unbought' /\ History'
  <2>1. opts' = opts /\ ended' = ended
    BY <1>2, <1>3, DateAdvances
  <2> QED
    BY <1>2, <2>1 DEF ReplayInv, Unbought, History
<1> QED
  BY <1>2, <1>4, <1>5, <1>6 DEF ReplayInv

LEMMA HybridStep ==
    ASSUME ReplayInv, ReplayHybrid
    PROVE  ReplayInv' /\ Foreseen(pf, pf', day', Reserved(core'))
<1>1. PICK signals \in SignalLists : Replay(day', signals, Reserved(core'), Idle(core'))
  BY DEF ReplayHybrid
<1>2. /\ NextDate /\ opts.mode = "hybrid" /\ log' = log
      /\ core' = HybridCore(day', Quarter[Today + 1])
  BY DEF ReplayHybrid
<1>3. /\ TypeOK /\ BooksBalance /\ core \in Cores /\ income \in Nat
      /\ log \in Seq([date : Nat, basket : Seq(Names)])
  BY StateTypes DEF ReplayInv, TypeOK
<1>4. /\ core' \in Cores /\ CoreBalance(core') = CoreBalance(core)
      /\ core'.started /\ core'.basket = core.basket
  <2> DEFINE d == day'
             q == Quarter[Today + 1]
  <2>1. d \in Days /\ q \in Nat
    BY <1>2, <1>3, DateAdvances
  <2>2. ~core.started => DOMAIN core.held = {}
    BY <1>2 DEF ReplayInv, Unbought, NextDate
  <2>3. core' = HybridCore(d, q)
    BY <1>2
  <2> HIDE DEF d, q
  <2> QED
    BY <1>3, <2>1, <2>2, <2>3, HybridKeeps
<1>5. TypeOK' /\ BooksBalance' /\ Foreseen(pf, pf', day', Reserved(core'))
  <2> DEFINE idle == Idle(core')
             reserved == Reserved(core')
  <2>1. idle \in Nat
    BY <1>3, <1>4, IdleType
  <2>2. Replay(day', signals, reserved, idle) /\ signals \in SignalLists
    BY <1>1
  <2> HIDE DEF idle, reserved
  <2>3. TypeOK' /\ BooksBalance' /\ Foreseen(pf, pf', day', reserved)
    BY <1>2, <1>3, <1>4, <2>1, <2>2, DateKeeps
  <2> QED
    BY <2>3 DEF reserved
<1>6. Chosen'
  <2>1. Chosen
    BY DEF ReplayInv
  <2> QED
    BY <1>2, <1>3, <2>1, ChosenStays DEF Chosen, Earlier
<1>7. Unbought' /\ History'
  BY <1>2, <1>4 DEF ReplayInv, Unbought, History
<1> QED
  BY <1>5, <1>6, <1>7 DEF ReplayInv

(* A basket that was chosen becomes the last of the history. *)
LEMMA BasketLogged ==
    ASSUME ReplayInv, NextDate, NEW basket \in Seq(Names),
           IsBasket(basket), basket # <<>>,
           core.basket # <<>> => Cardinality(Strangers(basket, core.basket)) <= MaxTurnover,
           basket = SelectCoreBasket(
                       ScoreUniverse(Loaded(hist', Reports), SPY, DateOf(Today + 1)), core.basket),
           core'.basket = basket,
           log' = Append(log, [date |-> DateOf(Today + 1), basket |-> basket])
    PROVE  log' \in Seq([date : Nat, basket : Seq(Names)]) /\ History' /\ Chosen'
<1> DEFINE Rows == [date : Nat, basket : Seq(Names)]
           date == DateOf(Today + 1)
           row  == [date |-> date, basket |-> basket]
           n    == Len(log)
<1>1. TypeOK /\ History /\ Chosen
  BY DEF ReplayInv
<1>2. date = Len(hist'[SPY]) /\ date \in Nat
  BY <1>1, StateTypes, DateAdvances
<1>3. log \in Seq(Rows) /\ row \in Rows /\ row.date = date /\ row.basket = basket
  BY <1>1, <1>2 DEF TypeOK
<1>4. log' = Append(log, row)
  OBVIOUS
<1> HIDE DEF row, Rows
<1>5. /\ log' \in Seq(Rows) /\ DOMAIN log = 1..n /\ n \in Nat
      /\ DOMAIN log' = 1..(n + 1) /\ Len(log') = n + 1
      /\ log'[n + 1] = row /\ \A k \in 1..n : log'[k] = log[k]
      /\ log = <<>> <=> n = 0
  BY <1>3, <1>4
<1>6. core.basket = (IF n = 0 THEN <<>> ELSE log[n].basket)
      /\ \A k \in 1..n : IsBasket(log[k].basket) /\ log[k].basket # <<>>
  BY <1>1, <1>5 DEF History
<1> HIDE DEF date, n
<1>7. History'
  <2>1. core'.basket = log'[n + 1].basket /\ log' # <<>>
    BY <1>3, <1>5
  <2>2. ASSUME NEW k \in 1..(n + 1)
        PROVE  /\ IsBasket(log'[k].basket) /\ log'[k].basket # <<>>
               /\ k > 1 => Cardinality(Strangers(log'[k].basket, log'[k - 1].basket)) <= MaxTurnover
    <3>1. CASE k = n + 1
      <4>1. log'[k].basket = basket
        BY <1>3, <1>5, <3>1
      <4>2. ASSUME k > 1
            PROVE  log'[k - 1].basket = core.basket /\ core.basket # <<>>
        <5>1. n # 0 /\ n \in 1..n /\ k - 1 = n
          BY <1>5, <3>1, <4>2
        <5> QED
          BY <1>5, <1>6, <5>1
      <4> QED
        BY <4>1, <4>2
    <3>2. CASE k # n + 1
      <4>1. k \in 1..n /\ (k > 1 => k - 1 \in 1..n)
        BY <1>5, <3>2
      <4>2. k > 1 => Cardinality(Strangers(log[k].basket, log[k - 1].basket)) <= MaxTurnover
        BY <1>1, <1>5, <4>1 DEF History
      <4> QED
        BY <1>5, <1>6, <4>1, <4>2
    <3> QED
      BY <3>1, <3>2
  <2> QED
    BY <1>5, <2>1, <2>2 DEF History
<1>8. Chosen'
  <2> SUFFICES ASSUME NEW k \in 1..(n + 1)
               PROVE  /\ log'[k].date <= Len(hist'[SPY])
                      /\ log'[k].basket = SelectCoreBasket(
                              ScoreUniverse(Loaded(hist', Reports), SPY, log'[k].date),
                              IF k = 1 THEN <<>> ELSE log'[k - 1].basket)
    BY <1>5 DEF Chosen, Earlier
  <2>1. CASE k = n + 1
    <3>1. log'[k].basket = basket /\ log'[k].date = date
      BY <1>3, <1>5, <2>1
    <3>2. core.basket = IF k = 1 THEN <<>> ELSE log'[k - 1].basket
      <4>1. CASE n = 0
        BY <1>5, <1>6, <2>1, <4>1
      <4>2. CASE n # 0
        <5>1. n \in 1..n /\ k - 1 = n /\ k # 1
          BY <1>5, <2>1, <4>2
        <5> QED
          BY <1>5, <1>6, <4>2, <5>1
      <4> QED
        BY <4>1, <4>2
    <3>3. basket = SelectCoreBasket(ScoreUniverse(Loaded(hist', Reports), SPY, date), core.basket)
      BY DEF date
    <3>4. date <= Len(hist'[SPY])
      BY <1>2
    <3> QED
      BY <3>1, <3>2, <3>3, <3>4
  <2>2. CASE k # n + 1
    <3>1. k \in 1..n /\ (k # 1 => k - 1 \in 1..n) /\ k \in DOMAIN log
      BY <1>5, <2>2
    <3>2. Earlier(k) = IF k = 1 THEN <<>> ELSE log'[k - 1].basket
      BY <1>5, <3>1 DEF Earlier
    <3>3. /\ log[k].date <= Len(hist'[SPY])
          /\ log[k].basket = SelectCoreBasket(
                                ScoreUniverse(Loaded(hist', Reports), SPY, log[k].date), Earlier(k))
      BY <1>1, <3>1, ChosenStays
    <3>4. log'[k] = log[k]
      BY <1>5, <3>1
    <3> QED
      BY <3>2, <3>3, <3>4
  <2> QED
    BY <2>1, <2>2
<1> QED
  BY <1>5, <1>7, <1>8 DEF Rows

LEMMA PitStep ==
    ASSUME ReplayInv, ReplayPit
    PROVE  ReplayInv' /\ Foreseen(pf, pf', day', Reserved(core'))
<1> DEFINE date == DateOf(Today + 1)
           Rows == [date : Nat, basket : Seq(Names)]
<1>1. PICK signals \in SignalLists : Replay(day', signals, Reserved(core'), Idle(core'))
  BY DEF ReplayPit
<1>2. /\ NextDate /\ opts.mode = "pit"
      /\ IF RebalanceDue(date)
         THEN \E scores \in {ScoreUniverse(Loaded(hist', Reports), SPY, date)} :
              \E basket \in {SelectCoreBasket(scores, core.basket)} :
                  /\ core' = PitCore(day', basket)
                  /\ log' = IF basket = <<>> THEN log
                            ELSE Append(log, [date |-> date, basket |-> basket])
         ELSE UNCHANGED <<core, log>>
  BY DEF ReplayPit
<1>3. /\ TypeOK /\ BooksBalance /\ History /\ Chosen
      /\ core \in Cores /\ income \in Nat /\ log \in Seq(Rows)
  BY StateTypes DEF ReplayInv, TypeOK
<1>4. day' \in Days /\ opts' = opts
  BY <1>2, <1>3, DateAdvances
<1>5. ASSUME log' = log, core'.basket = core.basket
      PROVE  log' \in Seq(Rows) /\ History' /\ Chosen'
  <2>1. History'
    BY <1>3, <1>5 DEF History
  <2>2. Chosen'
    BY <1>2, <1>3, <1>5, ChosenStays DEF Chosen, Earlier
  <2> QED
    BY <1>3, <1>5, <2>1, <2>2
<1>6. IsBasket(core.basket)
  <2>1. CASE log = <<>>
    BY <1>3, <2>1, NoNames DEF History
  <2>2. CASE log # <<>>
    <3> HIDE DEF Rows
    <3>1. Len(log) \in DOMAIN log
      BY <1>3, <2>2
    <3> QED
      BY <1>3, <2>2, <3>1 DEF History
  <2> QED
    BY <2>1, <2>2
<1>7. /\ core' \in Cores /\ CoreBalance(core') = CoreBalance(core)
      /\ log' \in Seq(Rows) /\ History' /\ Chosen'
  <2>1. CASE ~RebalanceDue(date)
    <3>1. core' = core /\ log' = log
      BY <1>2, <2>1
    <3> QED
      BY <1>3, <1>5, <3>1
  <2>2. CASE RebalanceDue(date)
    <3> DEFINE data   == Loaded(hist', Reports)
               prev   == core.basket
               basket == SelectCoreBasket(ScoreUniverse(data, SPY, date), prev)
               d      == day'
    <3>1. /\ core' = PitCore(d, basket)
          /\ log' = IF basket = <<>> THEN log
                    ELSE Append(log, [date |-> date, basket |-> basket])
      BY <1>2, <2>2
    <3>2. IsBasket(basket) /\ (prev # <<>> => Cardinality(Strangers(basket, prev)) <= MaxTurnover)
      <4>1. IsBasket(prev)
        BY <1>6
      <4> HIDE DEF data, prev, date
      <4> QED
        BY <4>1, SelectedIsBasket
    <3>3. basket = SelectCoreBasket(ScoreUniverse(Loaded(hist', Reports), SPY, DateOf(Today + 1)),
                                    core.basket)
      OBVIOUS
    <3> HIDE DEF basket
    <3>4. basket \in Seq(Names) /\ IsInjective(basket) /\ d \in Days
      BY <1>4, <3>2 DEF IsBasket
    <3> HIDE DEF d
    <3>5. /\ core' \in Cores /\ CoreBalance(core') = CoreBalance(core)
          /\ core'.basket = IF basket = <<>> THEN core.basket ELSE basket
      BY <1>3, <3>1, <3>4, PitKeeps
    <3>6. CASE basket = <<>>
      BY <1>5, <3>1, <3>5, <3>6
    <3>7. CASE basket # <<>>
      <4>1. log' = Append(log, [date |-> DateOf(Today + 1), basket |-> basket])
        BY <3>1, <3>7
      <4>2. core'.basket = basket
        BY <3>5, <3>7
      <4>3. log' \in Seq([date : Nat, basket : Seq(Names)]) /\ History' /\ Chosen'
        BY <1>2, <3>2, <3>3, <3>4, <3>7, <4>1, <4>2, BasketLogged
      <4> QED
        BY <3>5, <4>3
    <3> QED
      BY <3>6, <3>7
  <2> QED
    BY <2>1, <2>2
<1>8. TypeOK' /\ BooksBalance' /\ Foreseen(pf, pf', day', Reserved(core'))
  <2> DEFINE idle == Idle(core')
             reserved == Reserved(core')
  <2>1. idle \in Nat
    BY <1>3, <1>7, IdleType
  <2>2. Replay(day', signals, reserved, idle) /\ signals \in SignalLists
    BY <1>1
  <2> HIDE DEF idle, reserved
  <2>3. TypeOK' /\ BooksBalance' /\ Foreseen(pf, pf', day', reserved)
    BY <1>2, <1>3, <1>7, <2>1, <2>2, DateKeeps
  <2> QED
    BY <2>3 DEF reserved
<1>9. Unbought'
  BY <1>2, <1>4 DEF Unbought
<1> QED
  BY <1>7, <1>8, <1>9 DEF ReplayInv

LEMMA CloseStep ==
    ASSUME ReplayInv, CloseOut
    PROVE  ReplayInv' /\ DOMAIN pf'.positions \subseteq DOMAIN pf.positions
<1> DEFINE S == {c \in DOMAIN pf.positions : Plain \/ ~Missing(day.bars[c])}
           g == FoldSet(LAMBDA c, f : ClosePosition(f, c, LastBar(c), "end_of_backtest"), pf, S)
           k == SellCore(core, DOMAIN core.held, day.bars, FALSE)
<1>1. /\ pf' = g /\ core' = k /\ ended' = TRUE
      /\ opts' = opts /\ hist' = hist /\ day' = day /\ pending' = pending
      /\ income' = income /\ log' = log
  BY DEF CloseOut
<1>2. /\ TypeOK /\ BooksBalance /\ History /\ Chosen
      /\ pf \in Portfolios /\ core \in Cores /\ income \in Nat /\ day \in Days /\ Plain \in BOOLEAN
      /\ hist \in [Codes -> Seq(Nat)] /\ \A c \in Codes : Len(hist[c]) = Len(hist[SPY])
      /\ Len(hist[SPY]) \in Nat /\ DateOf(Today) = Len(hist[SPY])
  BY StateTypes DEF ReplayInv, TypeOK
<1>3. ASSUME NEW c \in S
      PROVE  LastBar(c).close \in Int
  <2>1. c \in Codes
    BY <1>2, BalanceType DEF Partial
  <2> DEFINE date == DateOf(Today)
  <2>2. hist[c] \in Seq(Nat) /\ date \in Nat /\ date <= Len(hist[c])
    BY <1>2, <2>1
  <2> HIDE DEF date
  <2>3. PriceAt(Loaded(hist, Reports), c, date) \in Nat
    BY <2>2, PriceAtType
  <2> QED
    BY <2>3 DEF LastBar, date
<1>4. Keeps(pf, g) /\ DOMAIN g.positions \subseteq DOMAIN pf.positions
  <2>1. S \subseteq DOMAIN pf.positions
    OBVIOUS
  <2> HIDE DEF S
  <2> QED
    BY <1>2, <1>3, <2>1, ClosesKeep
<1>5. CoreKeeps(core, k)
  BY <1>2, SellCoreKeeps
<1> HIDE DEF g, k
<1>6. TypeOK'
  <2>1. IsPortfolio(pf') /\ IsCore(core')
    BY <1>1, <1>4, <1>5, PortfolioType, CoreType DEF Keeps, CoreKeeps
  <2>2. ended' \in BOOLEAN
    BY <1>1
  <2> QED
    BY <1>1, <1>2, <2>1, <2>2 DEF TypeOK, Today
<1>7. BooksBalance'
  <2> DEFINE given == IF Plain THEN Capital + income ELSE TacticalCapital
  <2>1. given \in Int
    BY <1>2, Parameters
  <2>2. /\ pf.cash + OpenCost(pf.positions) = given + TotalMade(pf.trades)
        /\ ~Plain => core.cash + Cost(core.held) + core.lost = CoreCapital + core.realised
    BY <1>2 DEF BooksBalance
  <2> HIDE DEF given
  <2>3. Balance(pf) = given /\ (~Plain => CoreBalance(core) = CoreCapital)
    BY <1>2, <2>1, <2>2, Books
  <2>4. /\ pf' \in Portfolios /\ Balance(pf') = given
        /\ core' \in Cores /\ (~Plain => CoreBalance(core') = CoreCapital)
    BY <1>1, <1>4, <1>5, <2>3 DEF Keeps, CoreKeeps
  <2>5. /\ pf'.cash + OpenCost(pf'.positions) = given + TotalMade(pf'.trades)
        /\ ~Plain => core'.cash + Cost(core'.held) + core'.lost = CoreCapital + core'.realised
    BY <2>1, <2>4, Books
  <2>6. Plain' = Plain
    BY <1>1 DEF Plain
  <2> QED
    BY <1>1, <2>5, <2>6 DEF BooksBalance, given
<1>8. History' /\ Chosen'
  <2>1. core'.basket = core.basket
    BY <1>1, <1>5 DEF CoreKeeps
  <2>2. History'
    BY <1>1, <1>2, <2>1 DEF History
  <2>3. Chosen'
    BY <1>1, <1>2 DEF Chosen, Earlier
  <2> QED
    BY <2>2, <2>3
<1>9. Unbought'
  BY <1>1 DEF Unbought
<1> QED
  BY <1>1, <1>4, <1>6, <1>7, <1>8, <1>9 DEF ReplayInv

LEMMA StutterStep ==
    ASSUME ReplayInv, UNCHANGED vars
    PROVE  ReplayInv'
<1>1. /\ opts' = opts /\ hist' = hist /\ day' = day /\ pf' = pf /\ pending' = pending
      /\ income' = income /\ core' = core /\ log' = log /\ ended' = ended
  BY DEF vars
<1>2. TypeOK'
  BY <1>1 DEF ReplayInv, TypeOK, Today
<1>3. BooksBalance'
  BY <1>1 DEF ReplayInv, BooksBalance, Plain
<1>4. Unbought' /\ History' /\ Chosen'
  BY <1>1 DEF ReplayInv, Unbought, History, Chosen, Earlier
<1> QED
  BY <1>2, <1>3, <1>4 DEF ReplayInv

LEMMA InitBooks ==
    ASSUME Init
    PROVE  ReplayInv
<1>1. /\ opts \in Options /\ hist = Before /\ day = (CHOOSE d \in Days : TRUE)
      /\ pf = Portfolio(IF Plain THEN Capital ELSE TacticalCapital)
      /\ pending = <<>> /\ income = 0 /\ core = EmptyCore /\ log = <<>> /\ ended = FALSE
  BY DEF Init
<1>2. /\ Capital \in Nat /\ CoreCapital \in Nat /\ TacticalCapital \in Nat /\ Bars \in Nat
      /\ SPY \in Codes
  BY Parameters
<1>3. /\ Before \in [Codes -> Seq(Nat)] /\ Days # {}
      /\ \A c \in Codes : \A d \in Codes : Len(Before[c]) = Len(Before[d])
  BY BacktestAssumption, Zenon
<1>4. Plain \in BOOLEAN
  BY DEF Plain
<1> DEFINE given == IF Plain THEN Capital ELSE TacticalCapital
           free  == IF Plain THEN 0 ELSE CoreCapital
<1>5. given \in Int /\ free \in Int
  BY <1>2, <1>4
<1>6. pf = [cash |-> given, equity |-> given, peak |-> given, positions |-> <<>>, trades |-> <<>>]
  BY <1>1 DEF Portfolio
<1>7. core = [cash |-> free, held |-> <<>>, realised |-> 0, lost |-> 0,
              basket |-> <<>>, started |-> FALSE, quarter |-> 0, next |-> 1]
  BY <1>1 DEF EmptyCore
<1>8. \A Values : <<>> \in Partial(Values)
  <2> SUFFICES ASSUME NEW Values
               PROVE  <<>> \in Partial(Values)
    OBVIOUS
  <2>1. <<>> \in [{} -> Values] /\ {} \in SUBSET Codes
    OBVIOUS
  <2> QED
    BY <2>1 DEF Partial
<1> HIDE DEF given, free
<1>9. pf \in Portfolios
  <2>1. <<>> \in Partial(Position) /\ <<>> \in Seq(Trade)
    BY <1>8
  <2> QED
    BY <1>5, <1>6, <2>1 DEF Portfolios
<1>10. core \in Cores
  <2>1. <<>> \in Partial(Lot) /\ <<>> \in Seq(Names)
    BY <1>8
  <2> QED
    BY <1>5, <1>7, <2>1 DEF Cores
<1>11. TypeOK
  <2>1. IsPortfolio(pf) /\ IsCore(core)
    BY <1>9, <1>10, PortfolioType, CoreType
  <2>2. Today \in 0..Bars
    <3>1. Len(Before[SPY]) \in Nat
      BY <1>2, <1>3
    <3>2. Today = 0
      BY <1>1, <3>1 DEF Today
    <3> QED
      BY <1>2, <3>2
  <2>3. day \in Days
    BY <1>1, <1>3
  <2>4. pending \in Seq(Entry) /\ log \in Seq([date : Nat, basket : Seq(Names)])
    BY <1>1
  <2>5. /\ hist \in [Codes -> Seq(Nat)] /\ \A c \in Codes : Len(hist[c]) = Len(hist[SPY])
        /\ income \in Nat /\ ended \in BOOLEAN
    BY <1>1, <1>2, <1>3
  <2> QED
    BY <1>1, <2>1, <2>2, <2>3, <2>4, <2>5 DEF TypeOK
<1>12. BooksBalance
  <2>1. OpenCost(pf.positions) = 0
    <3>1. OpenCost(pf.positions) = Worth(pf.positions, EntryCost)
      BY <1>9, BalanceType
    <3> QED
      BY <1>6, <3>1, WorthOfNothing
  <2>2. Cost(core.held) = 0
    <3>1. Cost(core.held) = Worth(core.held, LotCost)
      BY <1>10, CoreBalanceType
    <3> QED
      BY <1>7, <3>1, WorthOfNothing
  <2>3. TotalMade(pf.trades) = 0
    <3>1. pf.trades = <<>> /\ DOMAIN pf.trades = {}
      BY <1>6
    <3> QED
      BY <3>1, SumEmpty DEF TotalMade
  <2>4. given = IF Plain THEN Capital + income ELSE TacticalCapital
    BY <1>1, <1>2 DEF given
  <2>5. ~Plain => core.cash + 0 + core.lost = CoreCapital + core.realised
    BY <1>2, <1>7 DEF free
  <2>6. pf.cash + 0 = given + 0
    BY <1>5, <1>6
  <2> QED
    BY <2>1, <2>2, <2>3, <2>4, <2>5, <2>6 DEF BooksBalance
<1>13. Unbought /\ History /\ Chosen
  <2>1. DOMAIN log = {} /\ DOMAIN core.held = {}
    BY <1>1, <1>7
  <2> QED
    BY <1>1, <1>7, <2>1 DEF Unbought, History, Chosen
<1> QED
  BY <1>11, <1>12, <1>13 DEF ReplayInv

LEMMA EveryStep ==
    ASSUME ReplayInv, [Next]_vars
    PROVE  ReplayInv'
<1>1. CASE ReplayPlain
  BY <1>1, PlainStep
<1>2. CASE ReplayHybrid
  BY <1>2, HybridStep
<1>3. CASE ReplayPit
  BY <1>3, PitStep
<1>4. CASE CloseOut
  BY <1>4, CloseStep
<1>5. CASE UNCHANGED vars
  BY <1>5, StutterStep
<1> QED
  BY <1>1, <1>2, <1>3, <1>4, <1>5 DEF Next

LEMMA ReplayInvariant == Spec => []ReplayInv
<1>1. Init => ReplayInv
  BY InitBooks
<1>2. ReplayInv /\ [Next]_vars => ReplayInv'
  BY EveryStep
<1> QED
  BY <1>1, <1>2, PTL DEF Spec

-----------------------------------------------------------------------------
(* The results                                                             *)

(* The variables of every replay of backtest.py keep their types: no fill, exit, rebalance *)
(* or close-out leaves the portfolio or the core sleeve anything else than it was.         *)
THEOREM ReplayTypeCorrect == Spec => []TypeOK
<1>1. ReplayInv => TypeOK
  BY DEF ReplayInv
<1> QED
  BY <1>1, ReplayInvariant, PTL

(* Whatever the market brings, the cash of both sleeves is accounted for by the report of  *)
(* trades, up to the exit commissions and borrow costs close_position leaves in the cash   *)
(* and the names _rebalance_core drops.                                                    *)
THEOREM BooksAlwaysBalance == Spec => []BooksBalance
<1>1. ReplayInv => BooksBalance
  BY DEF ReplayInv
<1> QED
  BY <1>1, ReplayInvariant, PTL

(* Every basket of basket_history obeys the size, the sector cap and the turnover limit    *)
(* select_core_basket is given, though it never checks again the names that stay.          *)
THEOREM BasketsKeepTheRules == Spec => []BasketRules
<1>1. ASSUME ReplayInv
      PROVE  BasketRules
  <2> SUFFICES ASSUME NEW k \in DOMAIN log
               PROVE  LET b == log[k].basket IN
                      /\ Len(b) <= BasketSize /\ IsInjective(b)
                      /\ \A s \in Range(Sector) : Cardinality(OfSector(b, s)) <= MaxPerSector
                      /\ k > 1 => Cardinality(Newcomers(k)) <= MaxTurnover
    BY DEF BasketRules
  <2>1. /\ IsBasket(log[k].basket)
        /\ k > 1 => Cardinality(Strangers(log[k].basket, log[k - 1].basket)) <= MaxTurnover
    BY <1>1 DEF ReplayInv, History
  <2> QED
    BY <2>1 DEF IsBasket, Fits, Newcomers, Strangers
<1> QED
  BY <1>1, ReplayInvariant, PTL

(* Every basket of basket_history is the one its date selects from nothing but what was    *)
(* known on that date, and still the one it selects with all that has come since.          *)
THEOREM NothingFromTheFuture == Spec => []NoLookAhead
<1>1. ASSUME ReplayInv
      PROVE  NoLookAhead
  <2> SUFFICES ASSUME NEW k \in DOMAIN log, NEW known \in {UpTo(log[k].date), Loaded(hist, Reports)}
               PROVE  log[k].basket = SelectCoreBasket(ScoreUniverse(known, SPY, log[k].date),
                                                       Earlier(k))
    BY DEF NoLookAhead, Earlier
  <2> DEFINE date == log[k].date
             now  == Loaded(hist, Reports)
             then == UpTo(date)
  <2>1. /\ hist \in [Codes -> Seq(Nat)] /\ Len(hist[SPY]) \in Nat
        /\ \A c \in Codes : Len(hist[c]) = Len(hist[SPY])
    BY <1>1, StateTypes DEF ReplayInv
  <2>2. date <= Len(hist[SPY]) /\ log[k].basket = SelectCoreBasket(ScoreUniverse(now, SPY, date), Earlier(k))
    BY <1>1 DEF ReplayInv, Chosen
  <2>3. date \in Nat
    <3> DEFINE Rows == [date : Nat, basket : Seq(Names)]
    <3>1. log \in Seq(Rows)
      BY <1>1 DEF ReplayInv, TypeOK
    <3>2. \A row \in Rows : row.date \in Nat
      OBVIOUS
    <3> HIDE DEF Rows
    <3>3. log[k] \in Rows
      BY <3>1
    <3> QED
      BY <3>2, <3>3
  <2> HIDE DEF date
  <2>4. Agree(then, now, SPY, date)
    BY <2>1, <2>2, <2>3, UpToAgrees
  <2> HIDE DEF then, now
  <2>5. ScoreUniverse(then, SPY, date) = ScoreUniverse(now, SPY, date)
    BY <2>3, <2>4, SameScores
  <2>6. known = then \/ known = now
    BY DEF then, now, date
  <2> QED
    BY <2>2, <2>5, <2>6 DEF date
<1> QED
  BY <1>1, ReplayInvariant, PTL

(* What the engine opens on a date was a signal of an earlier one that today's regime      *)
(* allows, and is no name of the core basket as it stands after today's rebalance.         *)
THEOREM OnlyOldSignalsEnter == Spec => EntriesAreOld
<1> DEFINE Opens(c) ==
             \E s \in Range(pending) :
                /\ s.code = c /\ pf'.positions[c].dir = s.dir
                /\ opts.regime => s.strategy \in RegimeConfig[RegimeOn(day')].allowed
                /\ opts.mode = "hybrid" => c \notin Range(CoreNames)
                /\ opts.mode = "pit" => c \notin Range(core'.basket)
           New == DOMAIN pf'.positions \ DOMAIN pf.positions
<1>1. ASSUME ReplayInv, Next
      PROVE  \A c \in New : Opens(c)
  <2>1. CASE CloseOut
    BY <1>1, <2>1, CloseStep
  <2>2. CASE Foreseen(pf, pf', day', Reserved(core'))
    <3> SUFFICES ASSUME NEW c \in New
                 PROVE  Opens(c)
      OBVIOUS
    <3>1. PICK n \in DOMAIN pending :
             /\ pending[n].code = c /\ pf'.positions[c].dir = pending[n].dir
             /\ Config(day') # NoConfig => pending[n].strategy \in Config(day').allowed
             /\ c \notin Reserved(core')
      BY <2>2 DEF Foreseen
    <3>2. pending[n] \in Range(pending)
      BY DEF Range
    <3>3. opts.regime => pending[n].strategy \in RegimeConfig[RegimeOn(day')].allowed
      <4> SUFFICES ASSUME opts.regime
                   PROVE  pending[n].strategy \in Config(day').allowed
        BY DEF Config
      <4>1. Config(day').size # 0
        BY DEF Config, RegimeConfig, RegimeOn, ClassifyRegime
      <4>2. NoConfig.size = 0
        BY DEF NoConfig
      <4> QED
        BY <3>1, <4>1, <4>2
    <3>4. /\ opts.mode = "hybrid" => c \notin Range(CoreNames)
          /\ opts.mode = "pit" => c \notin Range(core'.basket)
      BY <3>1 DEF Reserved
    <3> QED
      BY <3>1, <3>2, <3>3, <3>4
  <2> QED
    BY <1>1, <2>1, <2>2, PlainStep, HybridStep, PitStep DEF Next
<1>2. ReplayInv /\ [Next]_vars => [\A c \in New : Opens(c)]_vars
  BY <1>1
<1> QED
  BY <1>2, ReplayInvariant, PTL DEF Spec, EntriesAreOld
=============================================================================
