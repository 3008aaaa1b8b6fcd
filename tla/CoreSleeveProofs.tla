-------------------------- MODULE CoreSleeveProofs --------------------------
(* What holds of the core sleeve for any universe, scores, regimes, limits   *)
(* and calendar, whatever its threads, lost files and restarts do, and that  *)
(* under the watchdog it is still the core sleeve.                           *)
EXTENDS SupervisedSleeve, DataTheorems, SequenceTheorems

(* All threads together are no more than the bound allows. *)
ThreadsOK ==
    /\ threads \in [Kind -> 0..MaxThreads]
    /\ SumFunction(threads) <= MaxThreads

(* A name the file calls core has a valuation of 40 at least, so that none   *)
(* is ever trimmed.                                                          *)
FileOK ==
    /\ assigned \in {Missing, Garbled} \union [Tickers -> Assignments]
    /\ Readable =>
         \A t \in Tickers : assigned[t].sleeve = "core" => assigned[t].valuation >= 40

(* The properties of the run, of any holdings h: a name is held once, what   *)
(* was sized for a bear market is a put, ...                                 *)
HoldingsOK(h) ==
    /\ h \in Seq(Holding)
    /\ \A i, j \in DOMAIN h : h[i].ticker = h[j].ticker => i = j
    /\ Len(h) <= CoreMax

PutsOnly(h) ==
    \A i \in DOMAIN h : h[i].notional = CoreSize("bear") => h[i].strategy = "sell_csp"

(* ... sectors are bounded, ... *)
InSectors(h) ==
    \A s \in {Sector[t] : t \in Tickers} :
       Exposure(h, s) <= SectorCap + (MaxChanges - 1) * BaseSize

(* ... and names of an age are few, and younger ages a week apart. *)
Batches(h) ==
    \A i \in DOMAIN h : h[i].age < Mature =>
       /\ Cardinality({j \in DOMAIN h : h[j].age = h[i].age}) <= MaxChanges
       /\ \A j \in DOMAIN h : h[j].age < Mature /\ h[i].age < h[j].age => h[j].age - h[i].age >= Week

(* Nothing held is younger than the last rebalance. *)
BoughtSince(last, h) == \A i \in DOMAIN h : last # Never /\ h[i].age >= last

BooksOK ==
    /\ saved \in [last : 0..Week \union {Never}, holdings : Seq(Holding)]
    /\ HoldingsOK(saved.holdings) /\ PutsOnly(saved.holdings)
    /\ InSectors(saved.holdings) /\ Batches(saved.holdings)
    /\ BoughtSince(saved.last, saved.holdings)

IInv ==
    /\ trader \in {"up", "down"} /\ done \in BOOLEAN
    /\ ThreadsOK /\ FileOK /\ BooksOK

-----------------------------------------------------------------------------
(* The constants                                                             *)

LEMMA Numbers ==
    /\ {Week, MinHoldWeeks, MaxChanges, CoreMax, MaxThreads} \subseteq Nat \ {0}
    /\ {Equity, BaseSize, NameCap, SectorCap, CashFloor} \subseteq Nat
    /\ Mature \in Nat /\ Mature >= Week
    /\ Never \notin Nat
<1>1. /\ {Week, MinHoldWeeks, MaxChanges, CoreMax, MaxThreads} \subseteq Nat \ {0}
      /\ {Equity, BaseSize, NameCap, SectorCap, CashFloor} \subseteq Nat
      /\ Never \notin Nat
  BY SleeveAssumption, Zenon
<1>2. Week \in Nat /\ MinHoldWeeks \in Nat /\ MinHoldWeeks >= 1
  BY <1>1
<1>3. MinHoldWeeks * Week \in Nat /\ MinHoldWeeks * Week >= 1 * Week
  BY <1>2
<1> QED
  BY <1>1, <1>2, <1>3 DEF Mature

(* A position is smaller in a worse market, and strictly so in a bear one.   *)
LEMMA Sizes ==
    ASSUME NEW regime \in Regimes
    PROVE  /\ CoreSize(regime) \in 0..BaseSize
           /\ CoreSize(regime) = CoreSize("bear") => regime = "bear"
<1>1. BaseSize \in Nat /\ BaseSize > 0 /\ BaseSize % 4 = 0 /\ Regimes \subseteq {"bull", "flat", "bear"}
  BY Numbers, SleeveAssumption, Zenon
<1>2. PICK q \in Nat : BaseSize = 4 * q /\ q > 0
  <2>1. BaseSize = 4 * (BaseSize \div 4) /\ BaseSize \div 4 \in Nat /\ BaseSize \div 4 > 0
    BY <1>1
  <2> QED
    BY <2>1
<1>3. BaseSize \div 2 = 2 * q /\ (3 * BaseSize) \div 4 = 3 * q
  BY <1>2
<1>4. regime \in {"bull", "flat", "bear"}
  BY <1>1
<1>5. CoreSize("bear") = 2 * q
  BY <1>3 DEF CoreSize
<1>6. CASE regime = "bear"
  BY <1>2, <1>5, <1>6
<1>7. CASE regime = "flat"
  <2>1. CoreSize(regime) = 3 * q
    BY <1>3, <1>7 DEF CoreSize
  <2> QED
    BY <1>2, <1>5, <2>1
<1>8. CASE regime = "bull"
  <2>1. CoreSize(regime) = 4 * q
    BY <1>2, <1>8 DEF CoreSize
  <2> QED
    BY <1>2, <1>5, <2>1
<1> QED
  BY <1>4, <1>6, <1>7, <1>8

LEMMA TickersFinite == IsFiniteSet(Tickers) /\ \A t \in Tickers : \E i \in DOMAIN Universe : Universe[i] = t
<1>1. Universe \in Seq(STRING)
  BY SleeveAssumption
<1>2. DOMAIN Universe = 1..Len(Universe) /\ Len(Universe) \in Nat
  BY <1>1
<1>3. Universe \in [DOMAIN Universe -> Tickers]
  BY <1>1 DEF Tickers, Range
<1>4. \A t \in Tickers : \E i \in DOMAIN Universe : Universe[i] = t
  BY DEF Tickers, Range
<1>5. Universe \in Surjection(DOMAIN Universe, Tickers)
  BY <1>3, <1>4 DEF Surjection
<1>6. IsFiniteSet(DOMAIN Universe)
  BY <1>2, FS_Interval
<1> QED
  BY <1>4, <1>5, <1>6, FS_Surjection

-----------------------------------------------------------------------------
(* Threads                                                                   *)

LEMMA KindsAreFour ==
    LET a == <<"fetch", TRUE>>
        b == <<"fetch", FALSE>>
        c == <<"save", TRUE>>
        d == <<"save", FALSE>>
    IN  /\ \A k : k \in Kind <=> k = a \/ k = b \/ k = c \/ k = d
        /\ a # b /\ a # c /\ a # d /\ b # c /\ b # d /\ c # d
<1> DEFINE a == <<"fetch", TRUE>>
           b == <<"fetch", FALSE>>
           c == <<"save", TRUE>>
           d == <<"save", FALSE>>
<1>1. \A k \in Kind : k[1] \in {"fetch", "save"} /\ k[2] \in BOOLEAN /\ k = <<k[1], k[2]>>
  BY DEF Kind
<1>2. BOOLEAN = {TRUE, FALSE}
  OBVIOUS
<1>3. \A k \in Kind : k = a \/ k = b \/ k = c \/ k = d
  BY <1>1, <1>2, Zenon
<1>4. a \in Kind /\ b \in Kind /\ c \in Kind /\ d \in Kind
  BY DEF Kind
<1>5. a # b /\ a # c /\ a # d /\ b # c /\ b # d /\ c # d
  OBVIOUS
<1> HIDE DEF a, b, c, d
<1>6. /\ \A k : k \in Kind <=> k = a \/ k = b \/ k = c \/ k = d
      /\ a # b /\ a # c /\ a # d /\ b # c /\ b # d /\ c # d
  BY <1>3, <1>4, <1>5
<1> QED
  BY <1>6 DEF a, b, c, d

LEMMA FourKinds ==
    ASSUME NEW f \in [Kind -> Nat]
    PROVE  SumFunction(f) = f[<<"fetch", TRUE>>] + f[<<"fetch", FALSE>>]
                              + f[<<"save", TRUE>>] + f[<<"save", FALSE>>]
<1> DEFINE a == <<"fetch", TRUE>>
           b == <<"fetch", FALSE>>
           c == <<"save", TRUE>>
           d == <<"save", FALSE>>
<1>2. /\ \A k : k \in Kind <=> k = a \/ k = b \/ k = c \/ k = d
      /\ a # b /\ a # c /\ a # d /\ b # c /\ b # d /\ c # d
  BY KindsAreFour
<1> HIDE DEF a, b, c, d
<1>1. Kind = (({a} \union {b}) \union {c}) \union {d}
  BY <1>2
<1>3. {a, b, c, d} \subseteq Kind
  BY <1>2
<1>4. IsFiniteSet({}) /\ IsFiniteSet({a}) /\ IsFiniteSet({a} \union {b}) /\ IsFiniteSet(({a} \union {b}) \union {c})
  BY FS_EmptySet, FS_Singleton, FS_AddElement
<1>5. f[a] \in Nat /\ f[b] \in Nat /\ f[c] \in Nat /\ f[d] \in Nat
  BY <1>3
<1>6. SumFunctionOnSet(f, {} \union {a}) = SumFunctionOnSet(f, {}) + f[a]
  <2>1. a \notin {} /\ \A x \in {} \union {a} : f[x] \in Int
    BY <1>5
  <2> QED
    BY <1>4, <2>1, SumAdd
<1>7. SumFunctionOnSet(f, {a} \union {b}) = SumFunctionOnSet(f, {a}) + f[b]
  <2>1. b \notin {a} /\ \A x \in {a} \union {b} : f[x] \in Int
    BY <1>2, <1>5
  <2> QED
    BY <1>4, <2>1, SumAdd
<1>8. SumFunctionOnSet(f, ({a} \union {b}) \union {c}) = SumFunctionOnSet(f, {a} \union {b}) + f[c]
  <2>1. c \notin {a} \union {b} /\ \A x \in ({a} \union {b}) \union {c} : f[x] \in Int
    BY <1>2, <1>5
  <2> QED
    BY <1>4, <2>1, SumAdd
<1>9. SumFunctionOnSet(f, (({a} \union {b}) \union {c}) \union {d}) = SumFunctionOnSet(f, ({a} \union {b}) \union {c}) + f[d]
  <2>1. d \notin ({a} \union {b}) \union {c} /\ \A x \in (({a} \union {b}) \union {c}) \union {d} : f[x] \in Int
    BY <1>2, <1>5
  <2> QED
    BY <1>4, <2>1, SumAdd
<1>10. SumFunctionOnSet(f, {a}) = f[a]
  <2>1. {} \union {a} = {a}
    OBVIOUS
  <2> QED
    BY <1>5, <1>6, <2>1, SumEmpty
<1>11. SumFunction(f) = SumFunctionOnSet(f, Kind)
  BY DEF SumFunction
<1>12. SumFunction(f) = f[a] + f[b] + f[c] + f[d]
  BY <1>1, <1>5, <1>7, <1>8, <1>9, <1>10, <1>11
<1> QED
  BY <1>12 DEF a, b, c, d

(* The four kinds under names of their own, and what is used of them. *)
Named(a, b, c, d) ==
    /\ \A k : k \in Kind <=> k = a \/ k = b \/ k = c \/ k = d
    /\ a # b /\ a # c /\ a # d /\ b # c /\ b # d /\ c # d
    /\ a[2] = TRUE /\ b[2] = FALSE /\ c[2] = TRUE /\ d[2] = FALSE
    /\ <<b[1], TRUE>> = a /\ <<d[1], TRUE>> = c
    /\ \A f \in [Kind -> Nat] : SumFunction(f) = f[a] + f[b] + f[c] + f[d]

LEMMA KindsNamed == \E a, b, c, d : Named(a, b, c, d)
<1> DEFINE a == <<"fetch", TRUE>>
           b == <<"fetch", FALSE>>
           c == <<"save", TRUE>>
           d == <<"save", FALSE>>
<1>1. /\ \A k : k \in Kind <=> k = a \/ k = b \/ k = c \/ k = d
      /\ a # b /\ a # c /\ a # d /\ b # c /\ b # d /\ c # d
  BY KindsAreFour
<1>2. \A f \in [Kind -> Nat] : SumFunction(f) = f[a] + f[b] + f[c] + f[d]
  BY FourKinds
<1>3. /\ a[2] = TRUE /\ b[2] = FALSE /\ c[2] = TRUE /\ d[2] = FALSE
      /\ <<b[1], TRUE>> = a /\ <<d[1], TRUE>> = c
  OBVIOUS
<1> HIDE DEF a, b, c, d
<1>4. Named(a, b, c, d)
  BY <1>1, <1>2, <1>3 DEF Named
<1> QED
  BY <1>4

-----------------------------------------------------------------------------
(* What the invariant says of the properties                                 *)

LEMMA BatchesAreWeekly == WeeklyBatches <=> Batches(saved.holdings)
<1> DEFINE h     == saved.holdings
           young == {i \in DOMAIN h : h[i].age < Mature}
<1>1. WeeklyBatches <=>
        \A i \in young :
           /\ Cardinality({j \in young : h[j].age = h[i].age}) <= MaxChanges
           /\ \A j \in young : h[i].age < h[j].age => h[j].age - h[i].age >= Week
  BY DEF WeeklyBatches
<1>2. \A i \in young : {j \in young : h[j].age = h[i].age} = {j \in DOMAIN h : h[j].age = h[i].age}
  OBVIOUS
<1> QED
  BY <1>1, <1>2 DEF Batches

LEMMA InvImplies == IInv => TypeOK /\ SectorBounded /\ BearHoldsPutsOnly /\ WeeklyBatches
<1> SUFFICES ASSUME IInv PROVE TypeOK /\ SectorBounded /\ BearHoldsPutsOnly /\ WeeklyBatches
  OBVIOUS
<1>1. TypeOK
  BY DEF IInv, ThreadsOK, FileOK, BooksOK, HoldingsOK, TypeOK
<1>2. SectorBounded /\ BearHoldsPutsOnly
  BY DEF IInv, BooksOK, InSectors, PutsOnly, SectorBounded, BearHoldsPutsOnly
<1>3. WeeklyBatches
  BY BatchesAreWeekly DEF IInv, BooksOK
<1> QED
  BY <1>1, <1>2, <1>3

-----------------------------------------------------------------------------
(* One rebalance                                                             *)

(* What a rebalance may add to the holdings h. *)
Addition(h, a, regime) ==
    /\ a \in Holding /\ a.ticker \notin Names(h)
    /\ a.age = 0 /\ a.notional = CoreSize(regime)
    /\ regime = "bear" => a.strategy = "sell_csp"
    /\ Exposure(h, Sector[a.ticker]) + CoreSize(regime) <= SectorCap

(* Holdings of h keep their order, nothing is trimmed, and at most            *)
(* MaxChanges names are added.                                               *)
Rebalanced(h, new, regime) ==
    \E k, c \in Nat : \E e \in Injection(1..k, 1..Len(h)) :
       /\ new \in Seq(Holding) /\ Len(new) = k + c
       /\ c <= MaxChanges /\ k <= Len(h) /\ k + c <= CoreMax
       /\ \A n \in 1..k : new[n] = h[e[n]]
       /\ \A n \in (k + 1)..(k + c) : Addition(h, new[n], regime)
       /\ \A m, n \in (k + 1)..(k + c) : new[m].ticker = new[n].ticker => m = n

(* The rows a rebalance keeps are those of the file, at most as many. *)
LEMMA KeptIsPart ==
    ASSUME IInv, Readable, NEW h, h = saved.holdings
    PROVE  /\ Kept(h) \in Seq(Holding) /\ Len(Kept(h)) <= Len(h)
           /\ \E e \in Injection(1..Len(Kept(h)), 1..Len(h)) :
                \A n \in 1..Len(Kept(h)) : Kept(h)[n] = h[e[n]]
<1> DEFINE exited == {i \in Acted(h) : Declassified(h[i])}
           kept   == {i \in DOMAIN h : i \notin exited}
           upto   == [i \in kept |-> kept \intersect (1..i)]
           order  == Ranked(kept, upto)
<1>1. h \in Seq(Holding) /\ DOMAIN h = 1..Len(h) /\ Len(h) \in Nat
  BY DEF IInv, BooksOK, HoldingsOK
<1>0. \A i \in 1..Len(h) : h[i] \in Holding
  BY <1>1, ElementOfSeq
<1>2. kept \in SUBSET (1..Len(h)) /\ IsFiniteSet(kept) /\ Cardinality(kept) <= Len(h)
  <2>1. IsFiniteSet(1..Len(h)) /\ Cardinality(1..Len(h)) = Len(h)
    BY <1>1, FS_Interval
  <2>2. kept \in SUBSET (1..Len(h))
    BY <1>1
  <2> HIDE DEF kept
  <2>3. IsFiniteSet(kept) /\ Cardinality(kept) <= Cardinality(1..Len(h))
    BY <2>1, <2>2, FS_Subset
  <2> QED
    BY <2>1, <2>2, <2>3
<1>3. order \in Bijection(1..Cardinality(kept), kept)
  <2>1. \A x \in kept : upto[x] \in SUBSET kept /\ x \in upto[x]
    BY <1>1
  <2>2. \A x, y \in kept : upto[x] \subseteq upto[y] \/ upto[y] \subseteq upto[x]
    BY <1>1
  <2>3. \A x, y \in kept : x \in upto[y] /\ y \in upto[x] => x = y
    BY <1>1
  <2> HIDE DEF kept, upto
  <2> QED
    BY <1>2, <2>1, <2>2, <2>3, RankedIsBijection
<1>4. Kept(h) = [n \in DOMAIN order |->
                   IF order[n] \in Acted(h) THEN [h[order[n]] EXCEPT !.notional = @ \div 2]
                   ELSE h[order[n]]]
  BY DEF Kept
<1>5. \A i \in Acted(h) : i \in DOMAIN h /\ (Declassified(h[i]) \/ Overvalued(h[i]))
  BY DEF Acted, Due
<1>6. \A i \in DOMAIN h : ~ Overvalued(h[i])
  <2>1. \A i \in DOMAIN h : h[i].ticker \in Tickers
    BY <1>0, <1>1 DEF Holding
  <2>2. assigned \in [Tickers -> Assignments]
    BY DEF IInv, FileOK, Readable
  <2>3. \A t \in Tickers : assigned[t].valuation \in 0..100
    BY <2>2 DEF Assignments
  <2> QED
    BY <2>1, <2>3 DEF IInv, FileOK, Overvalued
<1>7. \A i \in kept : i \notin Acted(h)
  BY <1>5, <1>6
<1>8. order \in [1..Cardinality(kept) -> kept] /\ \A m, n \in 1..Cardinality(kept) : order[m] = order[n] => m = n
  <2> HIDE DEF order, kept
  <2> QED
    BY <1>3 DEF Bijection, Injection, IsInjective
<1>9. Cardinality(kept) \in Nat
  BY <1>2, FS_CardinalityType
<1> HIDE DEF order, kept
<1>10. Kept(h) = [n \in 1..Cardinality(kept) |-> h[order[n]]]
  BY <1>4, <1>7, <1>8
<1>11. \A n \in 1..Cardinality(kept) : h[order[n]] \in Holding
  BY <1>0, <1>2, <1>8
<1>12. Kept(h) \in Seq(Holding) /\ Len(Kept(h)) = Cardinality(kept)
  BY <1>9, <1>10, <1>11
<1>13. order \in Injection(1..Len(Kept(h)), 1..Len(h))
  BY <1>2, <1>8, <1>12 DEF Injection, IsInjective
<1>14. \A n \in 1..Len(Kept(h)) : Kept(h)[n] = h[order[n]]
  BY <1>10, <1>12
<1> QED
  BY <1>2, <1>12, <1>13, <1>14

(* The names a rebalance adds are new, allowed and one of each. *)
LEMMA AddedIsFit ==
    ASSUME IInv, Readable, NEW regime \in Regimes, NEW h, h = saved.holdings
    PROVE  LET a == Added(regime, h) IN
           /\ a \in Seq(Holding)
           /\ Len(a) <= MaxChanges /\ Len(h) + Len(a) <= CoreMax
           /\ \A n \in 1..Len(a) : Addition(h, a[n], regime)
           /\ \A m, n \in 1..Len(a) : a[m].ticker = a[n].ticker => m = n
<1> DEFINE size    == CoreSize(regime)
           fit     == {t \in Candidates(regime, h) : Allowed(t, size, h)}
           upto    == [t \in fit |-> {u \in fit : u = t \/ Before(u, t)}]
           allowed == Ranked(fit, upto)
           room    == Smaller(MaxChanges - Cardinality(Acted(h)), CoreMax - Len(h))
           count   == Smaller(room, Cardinality(fit))
           a       == Added(regime, h)
<1>1. h \in Seq(Holding) /\ DOMAIN h = 1..Len(h) /\ Len(h) \in Nat /\ Len(h) <= CoreMax
  BY DEF IInv, BooksOK, HoldingsOK
<1>2. fit \in SUBSET Tickers /\ IsFiniteSet(fit) /\ Cardinality(fit) \in Nat
  <2>1. fit \in SUBSET Tickers
    BY DEF Candidates
  <2> HIDE DEF fit
  <2> QED
    BY <2>1, TickersFinite, FS_Subset, FS_CardinalityType
<1>3. allowed \in Bijection(1..Cardinality(fit), fit)
  <2> DEFINE place(x) == CHOOSE i \in DOMAIN Universe : Universe[i] = x
             confidence(x) == assigned[x].confidence
  <2>1. \A t \in fit : place(t) \in Nat /\ Universe[place(t)] = t
    <3>1. \A i \in DOMAIN Universe : i \in Nat
      BY SleeveAssumption
    <3> HIDE DEF fit
    <3> QED
      BY <1>2, <3>1, TickersFinite
  <2>2. \A t \in fit : confidence(t) \in Nat
    <3>1. assigned \in [Tickers -> Assignments]
      BY DEF IInv, FileOK, Readable
    <3> HIDE DEF fit
    <3> QED
      BY <1>2, <3>1 DEF Assignments
  <2>3. \A t, u \in fit : Before(t, u) <=> \/ confidence(t) > confidence(u)
                                           \/ confidence(t) = confidence(u) /\ place(t) < place(u)
    BY DEF Before
  <2> HIDE DEF place, confidence, fit
  <2>4. \A t, u \in fit : t = u \/ Before(t, u) \/ Before(u, t)
    BY <2>1, <2>2, <2>3
  <2>5. \A t, u \in fit : ~ (Before(t, u) /\ Before(u, t))
    BY <2>1, <2>2, <2>3
  <2>6. \A t, u, v \in fit : Before(t, u) /\ Before(u, v) => Before(t, v)
    BY <2>1, <2>2, <2>3
  <2>7. \A x \in fit : upto[x] \in SUBSET fit /\ x \in upto[x]
    OBVIOUS
  <2>8. \A x, y \in fit : upto[x] \subseteq upto[y] \/ upto[y] \subseteq upto[x]
    BY <2>4, <2>6
  <2>9. \A x, y \in fit : x \in upto[y] /\ y \in upto[x] => x = y
    BY <2>5
  <2> HIDE DEF upto
  <2> QED
    BY <1>2, <2>7, <2>8, <2>9, RankedIsBijection
<1>4. allowed \in [1..Cardinality(fit) -> fit] /\ \A m, n \in 1..Cardinality(fit) : allowed[m] = allowed[n] => m = n
  <2> HIDE DEF allowed, fit
  <2> QED
    BY <1>3 DEF Bijection, Injection, IsInjective
<1>5. a = [n \in 1..count |-> [ticker |-> allowed[n], age |-> 0, notional |-> size,
                                strategy |-> assigned[allowed[n]].strategy]]
  BY DEF Added
<1>6. Cardinality(Acted(h)) \in Nat
  <2>1. Acted(h) \in SUBSET (1..Len(h))
    BY <1>1 DEF Acted, Due
  <2>2. IsFiniteSet(1..Len(h))
    <3>1. Len(h) \in Int
      BY <1>1
    <3> HIDE DEF size, fit, upto, allowed, room, count, a
    <3> QED
      BY <3>1, FS_Interval
  <2>3. IsFiniteSet(Acted(h))
    BY <2>1, <2>2, FS_Subset
  <2> QED
    BY <2>3, FS_CardinalityType
<1>7. \A t \in fit : /\ t \in Tickers /\ t \notin Names(h)
                     /\ assigned[t].strategy \in {"buy_stock", "sell_csp"}
                     /\ regime = "bear" => assigned[t].strategy = "sell_csp"
                     /\ Exposure(h, Sector[t]) + size <= SectorCap
  BY DEF Candidates, Allowed
<1>8. size \in Nat /\ Mature \in Nat
  BY Sizes, Numbers
<1>9. /\ count \in Int /\ count <= Cardinality(fit) /\ count <= MaxChanges
      /\ Len(h) + count <= CoreMax
  <2>1. MaxChanges \in Nat /\ CoreMax \in Nat
    BY Numbers
  <2> HIDE DEF fit
  <2> QED
    BY <1>1, <1>2, <1>6, <2>1 DEF Smaller
<1> HIDE DEF fit, allowed, count, size, a
<1>10. \A n \in 1..count : n \in 1..Cardinality(fit) /\ allowed[n] \in fit
  BY <1>2, <1>4, <1>9
<1>11. \A n \in 1..count : a[n] \in Holding /\ Addition(h, a[n], regime) /\ a[n].ticker = allowed[n]
  <2> TAKE n \in 1..count
  <2>1. a[n] = [ticker |-> allowed[n], age |-> 0, notional |-> size, strategy |-> assigned[allowed[n]].strategy]
    BY <1>5
  <2>2. /\ allowed[n] \in Tickers /\ allowed[n] \notin Names(h)
        /\ assigned[allowed[n]].strategy \in {"buy_stock", "sell_csp"}
        /\ regime = "bear" => assigned[allowed[n]].strategy = "sell_csp"
        /\ Exposure(h, Sector[allowed[n]]) + size <= SectorCap
    BY <1>7, <1>10
  <2>3. a[n] \in Holding
    BY <1>8, <2>1, <2>2 DEF Holding
  <2>4. a[n].ticker = allowed[n] /\ a[n].age = 0 /\ a[n].notional = size /\ a[n].strategy = assigned[allowed[n]].strategy
    BY <2>1
  <2> QED
    BY <2>2, <2>3, <2>4 DEF Addition, size
<1>12. Len(h) + 0 <= CoreMax /\ 0 <= MaxChanges
  BY <1>1, Numbers
<1>13. a \in Seq(Holding) /\ Len(a) <= MaxChanges /\ Len(h) + Len(a) <= CoreMax /\ 1..Len(a) = 1..count
  <2>1. CASE count >= 0
    <3>1. a \in Seq(Holding) /\ Len(a) = count
      BY <1>5, <1>9, <1>11, <2>1
    <3> QED
      BY <1>9, <3>1
  <2>2. CASE count < 0
    <3>1. 1..count = {} /\ 1..0 = {}
      BY <1>9, <2>2
    <3>2. a = <<>>
      BY <1>5, <3>1
    <3> QED
      BY <1>12, <3>1, <3>2, <1>1
  <2> QED
    BY <1>9, <2>1, <2>2
<1>14. \A m, n \in 1..count : a[m].ticker = a[n].ticker => m = n
  BY <1>4, <1>10, <1>11
<1>15. \A n \in 1..count : Addition(h, a[n], regime)
  BY <1>11
<1> QED
  BY <1>13, <1>14, <1>15 DEF a

LEMMA JoinedIsRebalanced ==
    ASSUME NEW h \in Seq(Holding), NEW regime,
           NEW kept \in Seq(Holding), Len(kept) <= Len(h),
           NEW e \in Injection(1..Len(kept), 1..Len(h)), \A n \in 1..Len(kept) : kept[n] = h[e[n]],
           NEW added \in Seq(Holding), Len(added) <= MaxChanges, Len(h) + Len(added) <= CoreMax,
           \A n \in 1..Len(added) : Addition(h, added[n], regime),
           \A m, n \in 1..Len(added) : added[m].ticker = added[n].ticker => m = n
    PROVE  Rebalanced(h, kept \o added, regime)
<1>1. PICK k \in Nat : k = Len(kept)
  OBVIOUS
<1>2. PICK c \in Nat : c = Len(added)
  OBVIOUS
<1>3. PICK new : new = kept \o added
  OBVIOUS
<1>4. /\ new \in Seq(Holding) /\ Len(new) = k + c
      /\ \A i \in 1..(k + c) : new[i] = IF i <= k THEN kept[i] ELSE added[i - k]
  BY <1>1, <1>2, <1>3, ConcatProperties
<1>5. \A n \in 1..k : new[n] = h[e[n]]
  BY <1>1, <1>4
<1>6. \A n \in (k + 1)..(k + c) : n - k \in 1..c /\ new[n] = added[n - k]
  BY <1>4
<1>7. \A n \in (k + 1)..(k + c) : Addition(h, new[n], regime)
  BY <1>2, <1>6
<1>8. \A m, n \in (k + 1)..(k + c) : new[m].ticker = new[n].ticker => m = n
  BY <1>2, <1>6
<1>9. k <= Len(h) /\ c <= MaxChanges /\ k + c <= CoreMax
  <2>1. CoreMax \in Nat /\ MaxChanges \in Nat /\ Len(h) \in Nat
    BY Numbers
  <2> QED
    BY <1>1, <1>2, <2>1
<1>10. e \in Injection(1..k, 1..Len(h))
  BY <1>1
<1>11. Rebalanced(h, new, regime)
  BY <1>4, <1>5, <1>7, <1>8, <1>9, <1>10, Zenon DEF Rebalanced
<1> QED
  BY <1>3, <1>11

LEMMA RebalanceStep ==
    ASSUME IInv, NEW regime \in Regimes, Rebalance(regime)
    PROVE  /\ Rebalanced(saved.holdings, saved'.holdings, regime)
           /\ saved'.last = 0
<1>1. PICK h : h = saved.holdings
  OBVIOUS
<1>2. PICK kept : kept = Kept(h)
  OBVIOUS
<1>3. PICK added : added = Added(regime, h)
  OBVIOUS
<1>4. Readable /\ saved' = [last |-> 0, holdings |-> kept \o added]
  BY <1>1, <1>2, <1>3 DEF Rebalance
<1>5. h \in Seq(Holding)
  BY <1>1 DEF IInv, BooksOK, HoldingsOK
<1>6. PICK e \in Injection(1..Len(kept), 1..Len(h)) : \A n \in 1..Len(kept) : kept[n] = h[e[n]]
  <2>1. \E e \in Injection(1..Len(Kept(h)), 1..Len(h)) : \A n \in 1..Len(Kept(h)) : Kept(h)[n] = h[e[n]]
    BY <1>1, <1>4, KeptIsPart
  <2> QED
    BY <1>2, <2>1
<1>7. kept \in Seq(Holding) /\ Len(kept) <= Len(h)
  BY <1>1, <1>2, <1>4, KeptIsPart
<1>8. /\ added \in Seq(Holding)
      /\ Len(added) <= MaxChanges /\ Len(h) + Len(added) <= CoreMax
      /\ \A n \in 1..Len(added) : Addition(h, added[n], regime)
      /\ \A m, n \in 1..Len(added) : added[m].ticker = added[n].ticker => m = n
  BY <1>1, <1>3, <1>4, AddedIsFit
<1>9. Rebalanced(h, kept \o added, regime)
  BY <1>5, <1>6, <1>7, <1>8, JoinedIsRebalanced
<1> QED
  BY <1>1, <1>4, <1>9

LEMMA HoldingsStayTyped ==
    ASSUME NEW h, HoldingsOK(h), NEW new, NEW regime, Rebalanced(h, new, regime)
    PROVE  HoldingsOK(new)
<1>0. PICK k, c \in Nat : \E e \in Injection(1..k, 1..Len(h)) :
       /\ new \in Seq(Holding) /\ Len(new) = k + c
       /\ c <= MaxChanges /\ k <= Len(h) /\ k + c <= CoreMax
       /\ \A n \in 1..k : new[n] = h[e[n]]
       /\ \A n \in (k + 1)..(k + c) : Addition(h, new[n], regime)
       /\ \A m, n \in (k + 1)..(k + c) : new[m].ticker = new[n].ticker => m = n
  BY DEF Rebalanced
<1>1. PICK e \in Injection(1..k, 1..Len(h)) :
       /\ new \in Seq(Holding) /\ Len(new) = k + c
       /\ c <= MaxChanges /\ k <= Len(h) /\ k + c <= CoreMax
       /\ \A n \in 1..k : new[n] = h[e[n]]
       /\ \A n \in (k + 1)..(k + c) : Addition(h, new[n], regime)
       /\ \A m, n \in (k + 1)..(k + c) : new[m].ticker = new[n].ticker => m = n
  BY <1>0
<1>2. DOMAIN h = 1..Len(h) /\ DOMAIN new = 1..(k + c)
  BY <1>1 DEF HoldingsOK
<1>3. e \in [1..k -> 1..Len(h)] /\ \A m, n \in 1..k : e[m] = e[n] => m = n
  BY DEF Injection, IsInjective
<1>4. \A n \in DOMAIN new : n \in 1..k \/ n \in (k + 1)..(k + c)
  BY <1>2
<1>5. \A n \in 1..k : new[n].ticker \in Names(h)
  BY <1>1, <1>2, <1>3 DEF Names
<1>6. \A n \in (k + 1)..(k + c) : new[n].ticker \notin Names(h)
  BY <1>1 DEF Addition
<1>7. \A m, n \in 1..k : new[m].ticker = new[n].ticker => m = n
  BY <1>1, <1>2, <1>3 DEF HoldingsOK
<1>8. \A m, n \in DOMAIN new : new[m].ticker = new[n].ticker => m = n
  BY <1>1, <1>4, <1>5, <1>6, <1>7
<1> QED
  BY <1>1, <1>8 DEF HoldingsOK

LEMMA PutsStayPuts ==
    ASSUME NEW h, HoldingsOK(h), PutsOnly(h), NEW new, NEW regime \in Regimes, Rebalanced(h, new, regime)
    PROVE  PutsOnly(new)
<1>0. PICK k, c \in Nat : \E e \in Injection(1..k, 1..Len(h)) :
       /\ new \in Seq(Holding) /\ Len(new) = k + c
       /\ c <= MaxChanges /\ k <= Len(h) /\ k + c <= CoreMax
       /\ \A n \in 1..k : new[n] = h[e[n]]
       /\ \A n \in (k + 1)..(k + c) : Addition(h, new[n], regime)
       /\ \A m, n \in (k + 1)..(k + c) : new[m].ticker = new[n].ticker => m = n
  BY DEF Rebalanced
<1>1. PICK e \in Injection(1..k, 1..Len(h)) :
       /\ new \in Seq(Holding) /\ Len(new) = k + c
       /\ c <= MaxChanges /\ k <= Len(h) /\ k + c <= CoreMax
       /\ \A n \in 1..k : new[n] = h[e[n]]
       /\ \A n \in (k + 1)..(k + c) : Addition(h, new[n], regime)
       /\ \A m, n \in (k + 1)..(k + c) : new[m].ticker = new[n].ticker => m = n
  BY <1>0
<1>2. DOMAIN h = 1..Len(h) /\ DOMAIN new = 1..(k + c)
  BY <1>1 DEF HoldingsOK
<1>3. e \in [1..k -> 1..Len(h)]
  BY DEF Injection
<1>4. \A n \in DOMAIN new : n \in 1..k \/ n \in (k + 1)..(k + c)
  BY <1>2
<1>5. \A n \in (k + 1)..(k + c) : new[n].notional = CoreSize("bear") => new[n].strategy = "sell_csp"
  BY <1>1, Sizes DEF Addition
<1>6. \A n \in 1..k : new[n].notional = CoreSize("bear") => new[n].strategy = "sell_csp"
  BY <1>1, <1>2, <1>3 DEF PutsOnly
<1> QED
  BY <1>4, <1>5, <1>6 DEF PutsOnly

(* What a sector has: its holdings' values, over their places. *)
Values(h, sector) == [i \in DOMAIN h |-> IF Sector[h[i].ticker] = sector THEN h[i].notional ELSE 0]

(* Products grow with their factors. *)
LEMMA ProductsGrow ==
    ASSUME NEW a \in Nat, NEW b \in Nat, NEW m \in Nat, NEW n \in Nat, a <= b, m <= n
    PROVE  a * m <= b * n
<1>1. PICK d \in Nat : b = a + d
  <2>1. b - a \in Nat /\ b = a + (b - a)
    OBVIOUS
  <2> QED
    BY <2>1
<1>2. PICK r \in Nat : n = m + r
  <2>1. n - m \in Nat /\ n = m + (n - m)
    OBVIOUS
  <2> QED
    BY <2>1
<1>3. b * n = a * m + (a * r + d * m + d * r)
  BY <1>1, <1>2
<1>4. a * r \in Nat /\ d * m \in Nat /\ d * r \in Nat /\ a * m \in Nat
  OBVIOUS
<1> QED
  BY <1>3, <1>4

LEMMA SectorsStayBounded ==
    ASSUME NEW h, HoldingsOK(h), InSectors(h), NEW new, NEW regime \in Regimes, Rebalanced(h, new, regime)
    PROVE  InSectors(new)
<1> SUFFICES ASSUME NEW s \in {Sector[t] : t \in Tickers}
             PROVE  Exposure(new, s) <= SectorCap + (MaxChanges - 1) * BaseSize
  BY DEF InSectors
<1>0. PICK k, c \in Nat : \E e \in Injection(1..k, 1..Len(h)) :
       /\ new \in Seq(Holding) /\ Len(new) = k + c
       /\ c <= MaxChanges /\ k <= Len(h) /\ k + c <= CoreMax
       /\ \A n \in 1..k : new[n] = h[e[n]]
       /\ \A n \in (k + 1)..(k + c) : Addition(h, new[n], regime)
       /\ \A m, n \in (k + 1)..(k + c) : new[m].ticker = new[n].ticker => m = n
  BY DEF Rebalanced
<1>1. PICK e \in Injection(1..k, 1..Len(h)) :
       /\ new \in Seq(Holding) /\ Len(new) = k + c
       /\ c <= MaxChanges /\ k <= Len(h) /\ k + c <= CoreMax
       /\ \A n \in 1..k : new[n] = h[e[n]]
       /\ \A n \in (k + 1)..(k + c) : Addition(h, new[n], regime)
       /\ \A m, n \in (k + 1)..(k + c) : new[m].ticker = new[n].ticker => m = n
  BY <1>0
<1>2. DOMAIN h = 1..Len(h) /\ DOMAIN new = 1..(k + c) /\ Len(h) \in Nat
  BY <1>1 DEF HoldingsOK
<1>3. e \in [1..k -> 1..Len(h)]
  BY DEF Injection
<1> PICK old : old = 1..k
  OBVIOUS
<1> PICK more : more = (k + 1)..(k + c)
  OBVIOUS
<1> PICK f : f = Values(h, s)
  OBVIOUS
<1> PICK g : g = Values(new, s)
  OBVIOUS
<1> PICK size : size = CoreSize(regime)
  OBVIOUS
<1>4. IsFiniteSet(old) /\ IsFiniteSet(more) /\ Cardinality(more) = c /\ IsFiniteSet(1..Len(h))
  <2>1. k + 1 \in Int /\ k + c \in Int
    OBVIOUS
  <2>2. Cardinality(more) = IF k + 1 > k + c THEN 0 ELSE k + c - (k + 1) + 1
    BY <2>1, FS_Interval
  <2>3. IsFiniteSet(old) /\ IsFiniteSet(more) /\ IsFiniteSet(1..Len(h))
    BY <1>2, <2>1, FS_Interval
  <2> QED
    BY <2>2, <2>3
<1>5. old \union more = DOMAIN new /\ \A x \in more : x \notin old
  BY <1>2
<1>6. \A i \in 1..Len(h) : f[i] \in Nat
  <2>1. \A i \in 1..Len(h) : h[i].notional \in Nat
    <3>1. \A i \in 1..Len(h) : h[i] \in Holding
      BY ElementOfSeq DEF HoldingsOK
    <3> QED
      BY <3>1 DEF Holding
  <2> QED
    BY <1>2, <2>1 DEF Values
<1>7. \A n \in old : g[n] = f[e[n]] /\ e[n] \in 1..Len(h)
  <2>1. \A n \in old : n \in DOMAIN new /\ e[n] \in DOMAIN h /\ new[n] = h[e[n]]
    BY <1>1, <1>2, <1>3
  <2> QED
    BY <1>2, <2>1 DEF Values
<1>8. \A n \in more : g[n] = IF Sector[new[n].ticker] = s THEN size ELSE 0
  <2>1. \A n \in more : n \in DOMAIN new /\ new[n].notional = size
    BY <1>1, <1>2 DEF Addition
  <2> QED
    BY <2>1 DEF Values
<1>9. size \in Nat /\ BaseSize \in Nat /\ size <= BaseSize /\ SectorCap \in Nat /\ MaxChanges \in Nat
  BY Sizes, Numbers
<1>10. \A x \in old \union more : g[x] \in Int
  BY <1>6, <1>7, <1>8, <1>9
<1>11. SumFunctionOnSet(g, old \union more) = SumFunctionOnSet(g, old) + SumFunctionOnSet(g, more)
  BY <1>4, <1>5, <1>10, SumSplit
<1>12. SumFunctionOnSet(g, old) <= SumFunctionOnSet(f, 1..Len(h))
  <2> PICK image : image = {e[x] : x \in old}
    OBVIOUS
  <2> PICK D : D = 1..Len(h)
    OBVIOUS
  <2>1. SumFunctionOnSet(g, old) = SumFunctionOnSet(f, image)
    <3>1. e \in Injection(old, D) /\ (\A x \in D : f[x] \in Int) /\ \A x \in old : g[x] = f[e[x]]
      BY <1>6, <1>7
    <3>2. SumFunctionOnSet(g, old) = SumFunctionOnSet(f, {e[x] : x \in old})
      BY <1>4, <3>1, SumRenamed
    <3> QED
      BY <3>2
  <2>2. image \in SUBSET (1..Len(h))
    BY <1>7
  <2> QED
    BY <1>4, <1>6, <2>1, <2>2, SumOfPart
<1>13. Exposure(h, s) = SumFunctionOnSet(f, 1..Len(h)) /\ Exposure(new, s) = SumFunctionOnSet(g, old \union more)
  <2>1. DOMAIN f = DOMAIN h /\ DOMAIN g = DOMAIN new
    BY DEF Values
  <2>2. Exposure(h, s) = SumFunction(f) /\ Exposure(new, s) = SumFunction(g)
    BY DEF Exposure, Values
  <2> QED
    BY <1>2, <1>5, <2>1, <2>2 DEF SumFunction
<1>14. /\ SumFunctionOnSet(f, 1..Len(h)) \in Int /\ SumFunctionOnSet(g, old) \in Int
       /\ SumFunctionOnSet(g, more) \in Int
  <2>1. \A x \in 1..Len(h) : f[x] \in Int
    BY <1>6
  <2> QED
    BY <1>4, <1>10, <2>1, SumType
<1>15. (MaxChanges - 1) * BaseSize \in Nat
  BY Numbers
<1>16. CASE \A n \in more : Sector[new[n].ticker] # s
  <2>1. \A n \in more : g[n] = 0
    BY <1>8, <1>16
  <2>2. SumFunctionOnSet(g, more) = 0
    BY <1>4, <2>1, SumZero
  <2>3. Exposure(new, s) <= Exposure(h, s)
    BY <1>11, <1>12, <1>13, <1>14, <2>2
  <2>4. Exposure(h, s) <= SectorCap + (MaxChanges - 1) * BaseSize
    BY DEF InSectors
  <2> QED
    BY <1>9, <1>11, <1>13, <1>14, <1>15, <2>3, <2>4
<1>17. CASE \E n \in more : Sector[new[n].ticker] = s
  <2>1. PICK n \in more : Sector[new[n].ticker] = s
    BY <1>17
  <2>2. Exposure(h, s) + size <= SectorCap
    BY <1>1, <2>1 DEF Addition
  <2>3. c >= 1
    <3>1. n \in (k + 1)..(k + c)
      OBVIOUS
    <3> QED
      BY <3>1
  <2>4. \A x \in more : g[x] \in 0..size
    BY <1>8, <1>9
  <2>5. SumFunctionOnSet(g, more) \in 0..(size * c)
    BY <1>4, <1>9, <2>4, SumBounded
  <2>6. size * (c - 1) <= BaseSize * (MaxChanges - 1)
    <3>1. c - 1 \in Nat /\ MaxChanges - 1 \in Nat /\ c - 1 <= MaxChanges - 1
      BY <1>1, <1>9, <2>3
    <3> QED
      BY <1>9, <3>1, ProductsGrow
  <2>7. /\ size * c = size * (c - 1) + size
        /\ size * (c - 1) \in Int
        /\ BaseSize * (MaxChanges - 1) = (MaxChanges - 1) * BaseSize
    BY <1>9
  <2>8. SumFunctionOnSet(g, more) <= size * (c - 1) + size
    <3>1. size * c \in Int
      BY <1>9
    <3> QED
      BY <1>14, <2>5, <2>7, <3>1
  <2>9. Exposure(new, s) <= Exposure(h, s) + (size * (c - 1) + size)
    BY <1>11, <1>12, <1>13, <1>14, <2>7, <2>8, <1>9
  <2>10. Exposure(new, s) \in Int /\ Exposure(h, s) \in Int
    BY <1>11, <1>13, <1>14
  <2>11. PICK x \in Int : x = size * (c - 1)
    BY <2>7
  <2>12. PICK y \in Nat : y = (MaxChanges - 1) * BaseSize
    BY <1>15
  <2>13. x <= y /\ Exposure(new, s) <= Exposure(h, s) + (x + size)
    BY <2>6, <2>7, <2>9, <2>11, <2>12
  <2>14. Exposure(new, s) <= SectorCap + y
    BY <1>9, <2>2, <2>10, <2>13
  <2> QED
    BY <2>12, <2>14
<1> QED
  BY <1>16, <1>17

LEMMA RebalanceAddsABatch ==
    ASSUME NEW h, HoldingsOK(h), Batches(h), \A i \in DOMAIN h : h[i].age >= Week,
           NEW new, NEW regime, Rebalanced(h, new, regime)
    PROVE  Batches(new)
<1>0. PICK k, c \in Nat : \E e \in Injection(1..k, 1..Len(h)) :
       /\ new \in Seq(Holding) /\ Len(new) = k + c
       /\ c <= MaxChanges /\ k <= Len(h) /\ k + c <= CoreMax
       /\ \A n \in 1..k : new[n] = h[e[n]]
       /\ \A n \in (k + 1)..(k + c) : Addition(h, new[n], regime)
       /\ \A m, n \in (k + 1)..(k + c) : new[m].ticker = new[n].ticker => m = n
  BY DEF Rebalanced
<1>1. PICK e \in Injection(1..k, 1..Len(h)) :
       /\ new \in Seq(Holding) /\ Len(new) = k + c
       /\ c <= MaxChanges /\ k <= Len(h) /\ k + c <= CoreMax
       /\ \A n \in 1..k : new[n] = h[e[n]]
       /\ \A n \in (k + 1)..(k + c) : Addition(h, new[n], regime)
       /\ \A m, n \in (k + 1)..(k + c) : new[m].ticker = new[n].ticker => m = n
  BY <1>0
<1>2. DOMAIN h = 1..Len(h) /\ DOMAIN new = 1..(k + c) /\ Len(h) \in Nat
  BY <1>1 DEF HoldingsOK
<1>3. e \in [1..k -> 1..Len(h)] /\ \A m, n \in 1..k : e[m] = e[n] => m = n
  BY DEF Injection, IsInjective
<1>4. \A n \in DOMAIN new : n \in 1..k \/ n \in (k + 1)..(k + c)
  BY <1>2
<1>5. \A i \in 1..Len(h) : h[i].age \in Nat /\ h[i].age >= Week
  <2>1. \A i \in 1..Len(h) : h[i] \in Holding
    BY ElementOfSeq DEF HoldingsOK
  <2>2. Mature \in Nat
    BY Numbers
  <2> QED
    BY <1>2, <2>1, <2>2 DEF Holding
<1>6. \A n \in 1..k : e[n] \in DOMAIN h /\ new[n].age = h[e[n]].age /\ new[n].age \in Nat /\ new[n].age >= Week
  BY <1>1, <1>2, <1>3, <1>5
<1>7. \A n \in (k + 1)..(k + c) : new[n].age = 0
  BY <1>1 DEF Addition
<1>8. Week \in Nat /\ Week > 0 /\ MaxChanges \in Nat
  BY Numbers
<1> SUFFICES ASSUME NEW n \in DOMAIN new, new[n].age < Mature
             PROVE  /\ Cardinality({j \in DOMAIN new : new[j].age = new[n].age}) <= MaxChanges
                    /\ \A j \in DOMAIN new : new[j].age < Mature /\ new[n].age < new[j].age
                         => new[j].age - new[n].age >= Week
  BY DEF Batches
<1> PICK same : same = {j \in DOMAIN new : new[j].age = new[n].age}
  OBVIOUS
<1>9. CASE n \in 1..k
  <2> PICK i : i = e[n]
    OBVIOUS
  <2> PICK before : before = {j \in DOMAIN h : h[j].age = h[i].age}
    OBVIOUS
  <2>1. i \in DOMAIN h /\ h[i].age = new[n].age
    BY <1>6, <1>9
  <2>2. Cardinality(before) <= MaxChanges
    BY <2>1 DEF Batches
  <2>3. \A j \in same : j \in 1..k /\ e[j] \in before
    BY <1>4, <1>6, <1>7, <1>8, <1>9, <2>1
  <2>4. [j \in same |-> e[j]] \in Injection(same, before)
    BY <1>3, <2>3 DEF Injection, IsInjective
  <2>5. IsFiniteSet(before) /\ Cardinality(before) \in Nat
    <3>1. before \in SUBSET (1..Len(h)) /\ IsFiniteSet(1..Len(h))
      BY <1>2, FS_Interval
    <3> QED
      BY <3>1, FS_Subset, FS_CardinalityType
  <2>6. IsFiniteSet(same) /\ Cardinality(same) <= Cardinality(before)
    BY <2>4, <2>5, FS_Injection
  <2>7. Cardinality(same) <= MaxChanges
    BY <1>8, <2>2, <2>5, <2>6, FS_CardinalityType
  <2>8. \A j \in DOMAIN new : new[j].age < Mature /\ new[n].age < new[j].age => new[j].age - new[n].age >= Week
    <3> TAKE j \in DOMAIN new
    <3> HAVE new[j].age < Mature /\ new[n].age < new[j].age
    <3>1. j \in 1..k
      BY <1>4, <1>6, <1>7, <1>9
    <3>2. e[j] \in DOMAIN h /\ h[e[j]].age = new[j].age
      BY <1>6, <3>1
    <3> QED
      BY <2>1, <3>2 DEF Batches
  <2> QED
    BY <2>7, <2>8
<1>10. CASE n \in (k + 1)..(k + c)
  <2> PICK more : more = (k + 1)..(k + c)
    OBVIOUS
  <2>1. IsFiniteSet(more) /\ Cardinality(more) = c
    <3>1. k + 1 \in Int /\ k + c \in Int
      OBVIOUS
    <3>2. Cardinality(more) = IF k + 1 > k + c THEN 0 ELSE k + c - (k + 1) + 1
      BY <3>1, FS_Interval
    <3>3. IsFiniteSet(more)
      BY <3>1, FS_Interval
    <3> QED
      BY <3>2, <3>3
  <2>2. new[n].age = 0
    BY <1>7, <1>10
  <2>3. same \in SUBSET more
    BY <1>4, <1>6, <1>8, <2>2
  <2>4. Cardinality(same) <= c /\ Cardinality(same) \in Nat
    BY <2>1, <2>3, FS_Subset, FS_CardinalityType
  <2>5. Cardinality(same) <= MaxChanges
    BY <1>1, <1>8, <2>4
  <2>6. \A j \in DOMAIN new : new[n].age < new[j].age => new[j].age - new[n].age >= Week
    BY <1>4, <1>6, <1>7, <1>8, <2>2
  <2> QED
    BY <2>5, <2>6
<1> QED
  BY <1>4, <1>9, <1>10

(* A day older. *)
Aged(h, new) ==
    new = [n \in DOMAIN h |-> [h[n] EXCEPT !.age = Older(@, Mature)]]

LEMMA AgedHolding ==
    ASSUME NEW h, HoldingsOK(h), NEW new, Aged(h, new), NEW n \in DOMAIN h
    PROVE  /\ new[n] \in Holding /\ h[n] \in Holding
           /\ new[n].ticker = h[n].ticker /\ new[n].notional = h[n].notional
           /\ new[n].strategy = h[n].strategy
           /\ new[n].age = Older(h[n].age, Mature) /\ h[n].age \in 0..Mature
<1>1. h[n] \in Holding
  BY ElementOfSeq DEF HoldingsOK
<1>2. Mature \in Nat
  BY Numbers
<1>3. h[n].age \in 0..Mature
  BY <1>1 DEF Holding
<1>4. Older(h[n].age, Mature) \in 0..Mature
  BY <1>2, <1>3 DEF Older, Smaller
<1>5. new[n] = [h[n] EXCEPT !.age = Older(h[n].age, Mature)]
  BY DEF Aged
<1> QED
  BY <1>1, <1>3, <1>4, <1>5 DEF Holding

LEMMA AgedHoldings ==
    ASSUME NEW h, HoldingsOK(h), NEW new, Aged(h, new)
    PROVE  /\ HoldingsOK(new)
           /\ PutsOnly(h) => PutsOnly(new)
           /\ InSectors(h) => InSectors(new)
<1>1. DOMAIN h = 1..Len(h) /\ Len(h) \in Nat /\ DOMAIN new = DOMAIN h
  BY DEF HoldingsOK, Aged
<1>2. new \in Seq(Holding) /\ Len(new) = Len(h)
  <2>1. new = [n \in 1..Len(h) |-> [h[n] EXCEPT !.age = Older(@, Mature)]]
    BY <1>1 DEF Aged
  <2>2. \A n \in 1..Len(h) : new[n] \in Holding
    BY <1>1, AgedHolding
  <2>3. DOMAIN new = 1..Len(h)
    BY <1>1
  <2>4. new = [n \in 1..Len(h) |-> new[n]]
    BY <2>1, <2>3
  <2>5. new \in [1..Len(h) -> Holding]
    BY <2>2, <2>4
  <2> QED
    BY <1>1, <2>5
<1>3. \A i, j \in DOMAIN new : new[i].ticker = new[j].ticker => i = j
  BY <1>1, AgedHolding DEF HoldingsOK
<1>4. HoldingsOK(new)
  BY <1>2, <1>3 DEF HoldingsOK
<1>5. PutsOnly(h) => PutsOnly(new)
  BY <1>1, AgedHolding DEF PutsOnly
<1>6. \A s : Exposure(new, s) = Exposure(h, s)
  <2> TAKE s
  <2>1. \A i \in DOMAIN h : Values(new, s)[i] = Values(h, s)[i]
    BY <1>1, AgedHolding DEF Values
  <2>2. Values(new, s) = Values(h, s)
    BY <1>1, <2>1 DEF Values
  <2> QED
    BY <2>2 DEF Exposure, Values
<1>7. InSectors(h) => InSectors(new)
  BY <1>6 DEF InSectors
<1> QED
  BY <1>4, <1>5, <1>7

LEMMA BatchesGrowOld ==
    ASSUME NEW h, HoldingsOK(h), NEW new, Aged(h, new), Batches(h)
    PROVE  Batches(new)
<1>1. DOMAIN new = DOMAIN h
  BY DEF Aged
<1>2. \A n \in DOMAIN h : h[n].age \in Nat /\ new[n].age = IF h[n].age + 1 < Mature THEN h[n].age + 1 ELSE Mature
  BY AgedHolding DEF Older, Smaller
<1>3. Mature \in Nat /\ Week \in Nat
  BY Numbers
<1> SUFFICES ASSUME NEW n \in DOMAIN h, new[n].age < Mature
             PROVE  /\ Cardinality({j \in DOMAIN h : new[j].age = new[n].age}) <= MaxChanges
                    /\ \A j \in DOMAIN h : new[j].age < Mature /\ new[n].age < new[j].age
                         => new[j].age - new[n].age >= Week
  BY <1>1 DEF Batches
<1>4. h[n].age < Mature /\ new[n].age = h[n].age + 1
  BY <1>2, <1>3
<1>5. \A j \in DOMAIN h : new[j].age = new[n].age <=> h[j].age = h[n].age
  BY <1>2, <1>3, <1>4
<1>6. {j \in DOMAIN h : new[j].age = new[n].age} = {j \in DOMAIN h : h[j].age = h[n].age}
  BY <1>5
<1>7. Cardinality({j \in DOMAIN h : h[j].age = h[n].age}) <= MaxChanges
  BY <1>4 DEF Batches
<1>8. ASSUME NEW j \in DOMAIN h, new[j].age < Mature, new[n].age < new[j].age
      PROVE  new[j].age - new[n].age >= Week
  <2>1. h[j].age < Mature /\ new[j].age = h[j].age + 1 /\ h[n].age < h[j].age
    BY <1>2, <1>3, <1>4, <1>8
  <2>2. h[j].age - h[n].age >= Week
    BY <1>4, <2>1 DEF Batches
  <2> QED
    BY <1>2, <1>3, <1>4, <2>1, <2>2
<1> QED
  BY <1>6, <1>7, <1>8

-----------------------------------------------------------------------------
(* Steps of the threads                                                      *)

(* A thread more of a kind is one thread more. *)
LEMMA OneOfAKind ==
    ASSUME NEW kind, NEW f, f = [k \in Kind |-> IF k = kind THEN 1 ELSE 0]
    PROVE  f \in [Kind -> Nat] /\ SumFunction(f) = IF kind \in Kind THEN 1 ELSE 0
<1>1. PICK a, b, c, d : Named(a, b, c, d)
  BY KindsNamed
<1>2. f \in [Kind -> Nat]
  OBVIOUS
<1>3. SumFunction(f) = f[a] + f[b] + f[c] + f[d]
  BY <1>1, <1>2 DEF Named
<1>4. a # b /\ a # c /\ a # d /\ b # c /\ b # d /\ c # d /\ \A k : k \in Kind <=> k = a \/ k = b \/ k = c \/ k = d
  BY <1>1 DEF Named
<1>5. /\ f[a] = (IF kind = a THEN 1 ELSE 0) /\ f[b] = (IF kind = b THEN 1 ELSE 0)
      /\ f[c] = (IF kind = c THEN 1 ELSE 0) /\ f[d] = (IF kind = d THEN 1 ELSE 0)
  BY <1>4
<1> QED
  BY <1>2, <1>3, <1>4, <1>5

LEMMA NoKindExceedsAll ==
    ASSUME NEW f \in [Kind -> Nat], SumFunction(f) <= MaxThreads
    PROVE  f \in [Kind -> 0..MaxThreads]
<1>1. PICK a, b, c, d : Named(a, b, c, d)
  BY KindsNamed
<1>2. \A k \in Kind : k = a \/ k = b \/ k = c \/ k = d
  BY <1>1 DEF Named
<1>3. f[a] \in Nat /\ f[b] \in Nat /\ f[c] \in Nat /\ f[d] \in Nat
  BY <1>1 DEF Named
<1>4. SumFunction(f) = f[a] + f[b] + f[c] + f[d]
  BY <1>1 DEF Named
<1>5. MaxThreads \in Nat
  BY Numbers
<1>6. \A k \in Kind : f[k] \in 0..MaxThreads
  BY <1>2, <1>3, <1>4, <1>5
<1> QED
  BY <1>6

LEMMA ThreadMoves ==
    ASSUME ThreadsOK, NEW from, NEW to, Moves(from, to),
           to \in Kind => from \in Kind \/ SumFunction(threads) < MaxThreads,
           from \in Kind => threads[from] > 0
    PROVE  ThreadsOK'
<1>1. PICK f : f = threads
  OBVIOUS
<1>2. PICK less : less = [k \in Kind |-> IF k = from THEN 1 ELSE 0]
  OBVIOUS
<1>3. PICK more : more = [k \in Kind |-> IF k = to THEN 1 ELSE 0]
  OBVIOUS
<1>4. PICK g : g = [k \in Kind |-> f[k] - less[k] + more[k]]
  OBVIOUS
<1>5. threads' = g
  BY <1>1, <1>2, <1>3, <1>4 DEF Moves
<1>6. less \in [Kind -> Nat] /\ SumFunction(less) = IF from \in Kind THEN 1 ELSE 0
  BY <1>2, OneOfAKind
<1>7. more \in [Kind -> Nat] /\ SumFunction(more) = IF to \in Kind THEN 1 ELSE 0
  BY <1>3, OneOfAKind
<1>8. MaxThreads \in Nat
  BY Numbers
<1>9. f \in [Kind -> Nat] /\ SumFunction(f) <= MaxThreads
  BY <1>1, <1>8 DEF ThreadsOK
<1>10. \A k \in Kind : f[k] >= less[k]
  BY <1>1, <1>2, <1>9
<1>11. g \in [Kind -> Nat]
  BY <1>4, <1>6, <1>7, <1>9, <1>10
<1>12. SumFunction(g) = SumFunction(f) - SumFunction(less) + SumFunction(more) /\ SumFunction(f) \in Nat
  <2>1. PICK a, b, c, d : Named(a, b, c, d)
    BY KindsNamed
  <2>2. a \in Kind /\ b \in Kind /\ c \in Kind /\ d \in Kind
    BY <2>1 DEF Named
  <2>3. \A k \in Kind : g[k] = f[k] - less[k] + more[k] /\ f[k] \in Nat /\ less[k] \in Nat /\ more[k] \in Nat
    BY <1>4, <1>6, <1>7, <1>9
  <2>4. /\ SumFunction(g) = g[a] + g[b] + g[c] + g[d]
        /\ SumFunction(f) = f[a] + f[b] + f[c] + f[d]
        /\ SumFunction(less) = less[a] + less[b] + less[c] + less[d]
        /\ SumFunction(more) = more[a] + more[b] + more[c] + more[d]
    BY <1>6, <1>7, <1>9, <1>11, <2>1 DEF Named
  <2> QED
    BY <2>2, <2>3, <2>4
<1>13. SumFunction(g) <= MaxThreads
  BY <1>1, <1>6, <1>7, <1>8, <1>9, <1>12
<1>14. g \in [Kind -> 0..MaxThreads]
  BY <1>11, <1>13, NoKindExceedsAll
<1> QED
  BY <1>5, <1>13, <1>14 DEF ThreadsOK

LEMMA StartClassifyingInv == ASSUME IInv, StartClassifying PROVE IInv'
<1>1. Moves(<<"new", TRUE>>, <<"fetch", TRUE>>) /\ SumFunction(threads) < MaxThreads
  BY DEF StartClassifying
<1>2. <<"new", TRUE>> \notin Kind
  BY DEF Kind
<1>3. ThreadsOK'
  BY <1>1, <1>2, ThreadMoves DEF IInv
<1> QED
  BY <1>3 DEF IInv, FileOK, BooksOK, Readable, StartClassifying

LEMMA ClassifyFailsInv == ASSUME IInv, NEW today \in BOOLEAN, ClassifyFails(today) PROVE IInv'
<1>1. Moves(<<"fetch", today>>, <<"gone", today>>) /\ threads[<<"fetch", today>>] > 0
  BY DEF ClassifyFails
<1>2. <<"gone", today>> \notin Kind
  BY DEF Kind
<1>3. ThreadsOK'
  BY <1>1, <1>2, ThreadMoves DEF IInv
<1> QED
  BY <1>3 DEF IInv, FileOK, BooksOK, Readable, ClassifyFails

LEMMA BeginSaveInv == ASSUME IInv, NEW today \in BOOLEAN, BeginSave(today) PROVE IInv'
<1>1. Moves(<<"fetch", today>>, <<"save", today>>) /\ threads[<<"fetch", today>>] > 0
  BY DEF BeginSave
<1>2. <<"fetch", today>> \in Kind
  BY DEF Kind
<1>3. ThreadsOK'
  BY <1>1, <1>2, ThreadMoves DEF IInv
<1>4. FileOK'
  BY DEF BeginSave, FileOK, Readable
<1> QED
  BY <1>3, <1>4 DEF IInv, BooksOK, BeginSave

LEMMA AssignmentIsCheap ==
    ASSUME NEW f \in Fundamentals, NEW held, NEW regime
    PROVE  /\ Assignment(f, held, regime) \in Assignments
           /\ Assignment(f, held, regime).sleeve = "core" => Assignment(f, held, regime).valuation >= 40
<1>1. f.q \in 0..100 /\ f.v \in 0..100
  BY SleeveAssumption, Zenon
<1>2. CoreStrategy(f, held, regime) \in {"buy_stock", "sell_csp", "hold_cc", "wait"}
  BY DEF CoreStrategy
<1>3. f.q + f.v \in 0..200
  BY <1>1
<1> QED
  BY <1>1, <1>2, <1>3 DEF Assignment, Assignments, IsCore

LEMMA EndSaveInv == ASSUME IInv, NEW today \in BOOLEAN, EndSave(today) PROVE IInv'
<1>1. Moves(<<"save", today>>, <<"gone", today>>) /\ threads[<<"save", today>>] > 0
  BY DEF EndSave
<1>2. <<"gone", today>> \notin Kind
  BY DEF Kind
<1>3. ThreadsOK'
  BY <1>1, <1>2, ThreadMoves DEF IInv
<1>4. FileOK'
  <2>1. PICK info \in [Tickers -> Fundamentals], open \in OpenSets, regime \in Regimes :
          assigned' \in {Classified(info, open, regime)} \union (IF Readable THEN {Garbled} ELSE {})
    BY DEF EndSave
  <2>2. CASE assigned' = Garbled
    BY <2>2 DEF FileOK, Readable
  <2>3. CASE assigned' = Classified(info, open, regime)
    <3>1. \A t \in Tickers :
             /\ Classified(info, open, regime)[t] \in Assignments
             /\ Classified(info, open, regime)[t].sleeve = "core" => Classified(info, open, regime)[t].valuation >= 40
      BY AssignmentIsCheap DEF Classified
    <3>2. Classified(info, open, regime) \in [Tickers -> Assignments]
      BY <3>1 DEF Classified
    <3> QED
      BY <2>3, <3>1, <3>2 DEF FileOK
  <2> QED
    BY <2>1, <2>2, <2>3
<1> QED
  BY <1>3, <1>4 DEF IInv, BooksOK, EndSave

-----------------------------------------------------------------------------
(* Steps of the trader and of the calendar                                   *)

LEMMA RebalanceInv == ASSUME IInv, NEW regime \in Regimes, Rebalance(regime) PROVE IInv'
<1>1. PICK h : h = saved.holdings
  OBVIOUS
<1>2. PICK new : new = saved'.holdings
  OBVIOUS
<1>3. Rebalanced(h, new, regime) /\ saved' = [last |-> 0, holdings |-> new]
  BY <1>1, <1>2, RebalanceStep DEF Rebalance
<1>4. HoldingsOK(h) /\ PutsOnly(h) /\ InSectors(h) /\ Batches(h)
  BY <1>1 DEF IInv, BooksOK
<1>5. \A i \in DOMAIN h : h[i].age >= Week
  <2>1. saved.last # Never => saved.last >= Week
    BY DEF Rebalance, ShouldRebalance
  <2>2. saved.last \in 0..Week \union {Never} /\ Week \in Nat
    BY Numbers DEF IInv, BooksOK
  <2>3. \A i \in DOMAIN h : h[i].age \in Nat
    <3>1. \A i \in DOMAIN h : h[i] \in Holding
      BY <1>4, ElementOfSeq DEF HoldingsOK
    <3> QED
      BY <3>1, Numbers DEF Holding
  <2> QED
    BY <1>1, <2>1, <2>2, <2>3 DEF IInv, BooksOK, BoughtSince
<1>6. HoldingsOK(new) /\ PutsOnly(new) /\ InSectors(new) /\ Batches(new)
  BY <1>3, <1>4, <1>5, HoldingsStayTyped, PutsStayPuts, SectorsStayBounded, RebalanceAddsABatch
<1>7. BoughtSince(0, new)
  <2>1. \A i \in DOMAIN new : new[i] \in Holding
    BY <1>6, ElementOfSeq DEF HoldingsOK
  <2>2. Mature \in Nat /\ 0 # Never
    BY Numbers
  <2> QED
    BY <2>1, <2>2 DEF BoughtSince, Holding
<1>8. BooksOK'
  <2>1. saved'.last = 0 /\ saved'.holdings = new
    BY <1>3
  <2>2. saved' \in [last : 0..Week \union {Never}, holdings : Seq(Holding)]
    BY <1>3, <1>6, Numbers DEF HoldingsOK
  <2> QED
    BY <1>6, <1>7, <2>1, <2>2 DEF BooksOK
<1> QED
  BY <1>8 DEF IInv, ThreadsOK, FileOK, Readable, Rebalance

LEMMA EmptyBooks ==
    /\ HoldingsOK(<<>>) /\ PutsOnly(<<>>) /\ InSectors(<<>>) /\ Batches(<<>>)
    /\ BoughtSince(Never, <<>>)
    /\ Fresh \in [last : 0..Week \union {Never}, holdings : Seq(Holding)]
<1>1. <<>> \in Seq(Holding) /\ DOMAIN <<>> = {} /\ Len(<<>>) = 0
  OBVIOUS
<1>2. CoreMax \in Nat /\ SectorCap \in Nat /\ (MaxChanges - 1) * BaseSize \in Nat
  BY Numbers
<1>3. HoldingsOK(<<>>) /\ PutsOnly(<<>>) /\ Batches(<<>>) /\ BoughtSince(Never, <<>>)
  BY <1>1, <1>2 DEF HoldingsOK, PutsOnly, Batches, BoughtSince
<1>4. InSectors(<<>>)
  <2>1. \A s : Exposure(<<>>, s) = 0
    <3> TAKE s
    <3>1. Exposure(<<>>, s) = SumFunctionOnSet(Values(<<>>, s), {})
      BY <1>1 DEF Exposure, Values, SumFunction
    <3> QED
      BY <3>1, SumEmpty
  <2> QED
    BY <1>2, <2>1 DEF InSectors
<1> QED
  BY <1>1, <1>3, <1>4 DEF Fresh

LEMMA NothingRuns == NoThreads \in [Kind -> 0..MaxThreads] /\ SumFunction(NoThreads) <= MaxThreads
<1>1. MaxThreads \in Nat
  BY Numbers
<1>2. NoThreads \in [Kind -> 0..MaxThreads] /\ NoThreads \in [Kind -> Nat]
  BY <1>1 DEF NoThreads
<1>3. PICK a, b, c, d : Named(a, b, c, d)
  BY KindsNamed
<1>4. NoThreads[a] = 0 /\ NoThreads[b] = 0 /\ NoThreads[c] = 0 /\ NoThreads[d] = 0
  BY <1>3 DEF Named, NoThreads
<1>5. SumFunction(NoThreads) = NoThreads[a] + NoThreads[b] + NoThreads[c] + NoThreads[d]
  BY <1>2, <1>3 DEF Named
<1> QED
  BY <1>1, <1>2, <1>4, <1>5

LEMMA DieInv == ASSUME IInv, Die PROVE IInv'
<1>1. ThreadsOK'
  BY NothingRuns DEF ThreadsOK, Die, Forgotten
<1> QED
  BY <1>1 DEF IInv, FileOK, BooksOK, Readable, Die, Forgotten

LEMMA DieSavingInv == ASSUME IInv, DieSaving PROVE IInv'
<1>1. ThreadsOK'
  BY NothingRuns DEF ThreadsOK, DieSaving, Forgotten
<1>2. BooksOK'
  <2>1. saved' = Fresh /\ Fresh.last = Never /\ Fresh.holdings = <<>>
    BY DEF DieSaving, Fresh
  <2> QED
    BY <2>1, EmptyBooks DEF BooksOK
<1> QED
  BY <1>1, <1>2 DEF IInv, FileOK, Readable, DieSaving, Forgotten

LEMMA BootInv == ASSUME IInv, Boot PROVE IInv'
  BY DEF IInv, ThreadsOK, FileOK, BooksOK, Readable, Boot, sleeve

LEMMA MidnightInv == ASSUME IInv, Midnight PROVE IInv'
<1>1. ThreadsOK'
  <2>1. PICK f : f = threads
    OBVIOUS
  <2>2. PICK g : g = [k \in Kind |-> IF k[2] THEN 0 ELSE f[k] + f[<<k[1], TRUE>>]]
    OBVIOUS
  <2>3. MaxThreads \in Nat
    BY Numbers
  <2>4. f \in [Kind -> Nat] /\ SumFunction(f) <= MaxThreads
    BY <2>1, <2>3 DEF IInv, ThreadsOK
  <2>5. PICK a, b, c, d : Named(a, b, c, d)
    BY KindsNamed
  <2>6. /\ f[a] \in Nat /\ f[b] \in Nat /\ f[c] \in Nat /\ f[d] \in Nat
        /\ \A k \in Kind : k = a \/ k = b \/ k = c \/ k = d
    BY <2>4, <2>5 DEF Named
  <2>7. g[a] = 0 /\ g[c] = 0 /\ g[b] = f[b] + f[a] /\ g[d] = f[d] + f[c]
    BY <2>2, <2>5 DEF Named
  <2>8. g \in [Kind -> Nat]
    <3>1. \A k \in Kind : g[k] \in Nat
      BY <2>6, <2>7
    <3> QED
      BY <2>2, <3>1
  <2>9. SumFunction(g) = SumFunction(f)
    <3>1. /\ SumFunction(g) = g[a] + g[b] + g[c] + g[d]
          /\ SumFunction(f) = f[a] + f[b] + f[c] + f[d]
      BY <2>4, <2>5, <2>8 DEF Named
    <3> QED
      BY <2>6, <2>7, <3>1
  <2>10. g \in [Kind -> 0..MaxThreads]
    BY <2>4, <2>8, <2>9, NoKindExceedsAll
  <2>11. threads' = g
    BY <2>1, <2>2 DEF Midnight
  <2> QED
    BY <2>4, <2>9, <2>10, <2>11 DEF ThreadsOK
<1>2. BooksOK'
  <2>1. PICK h : h = saved.holdings
    OBVIOUS
  <2>2. PICK new : new = [n \in DOMAIN h |-> [h[n] EXCEPT !.age = Older(@, Mature)]]
    OBVIOUS
  <2>3. PICK last : last = IF saved.last = Never THEN Never ELSE Older(saved.last, Week)
    OBVIOUS
  <2>4. saved' = [last |-> last, holdings |-> new]
    BY <2>1, <2>2, <2>3 DEF Midnight
  <2>5. /\ HoldingsOK(h) /\ PutsOnly(h) /\ InSectors(h) /\ Batches(h)
        /\ saved.last \in 0..Week \union {Never} /\ BoughtSince(saved.last, h)
    BY <2>1 DEF IInv, BooksOK
  <2>6. Aged(h, new)
    BY <2>2 DEF Aged
  <2>7. HoldingsOK(new) /\ PutsOnly(new) /\ InSectors(new) /\ Batches(new)
    BY <2>5, <2>6, AgedHoldings, BatchesGrowOld
  <2>8. last \in 0..Week \union {Never}
    BY <2>3, <2>5, Numbers DEF Older, Smaller
  <2>9. BoughtSince(last, new)
    <3> SUFFICES ASSUME NEW n \in DOMAIN new
                 PROVE  last # Never /\ new[n].age >= last
      BY DEF BoughtSince
    <3>1. n \in DOMAIN h
      BY <2>2
    <3>2. saved.last # Never /\ h[n].age >= saved.last
      BY <2>5, <3>1 DEF BoughtSince
    <3>3. new[n].age = Older(h[n].age, Mature) /\ h[n].age \in 0..Mature
      BY <2>5, <2>6, <3>1, AgedHolding
    <3>4. Week \in Nat /\ Mature \in Nat /\ Mature >= Week /\ Never \notin Nat
      BY Numbers
    <3> QED
      BY <2>3, <2>5, <3>2, <3>3, <3>4 DEF Older, Smaller
  <2>10. saved' \in [last : 0..Week \union {Never}, holdings : Seq(Holding)]
    BY <2>4, <2>7, <2>8 DEF HoldingsOK
  <2>11. saved'.last = last /\ saved'.holdings = new
    BY <2>4
  <2> QED
    BY <2>7, <2>9, <2>10, <2>11 DEF BooksOK
<1> QED
  BY <1>1, <1>2 DEF IInv, FileOK, Readable, Midnight

LEMMA InitIInv == Init => IInv
<1> SUFFICES ASSUME Init PROVE IInv
  OBVIOUS
<1>1. ThreadsOK
  BY NothingRuns DEF Init, ThreadsOK
<1>2. BooksOK
  <2>1. saved = Fresh /\ Fresh.last = Never /\ Fresh.holdings = <<>>
    BY DEF Init, Fresh
  <2> QED
    BY <2>1, EmptyBooks DEF BooksOK
<1>3. FileOK
  BY DEF Init, FileOK, Readable
<1> QED
  BY <1>1, <1>2, <1>3 DEF Init, IInv

LEMMA NextIInv == IInv /\ [Next]_svars => IInv'
<1> SUFFICES ASSUME IInv, [Next]_svars
             PROVE  IInv'
  OBVIOUS
<1>1. CASE StartClassifying
  BY <1>1, StartClassifyingInv
<1>2. ASSUME NEW today \in BOOLEAN, ClassifyFails(today) PROVE IInv'
  BY <1>2, ClassifyFailsInv
<1>3. ASSUME NEW today \in BOOLEAN, BeginSave(today) PROVE IInv'
  BY <1>3, BeginSaveInv
<1>4. ASSUME NEW today \in BOOLEAN, EndSave(today) PROVE IInv'
  BY <1>4, EndSaveInv
<1>5. ASSUME NEW regime \in Regimes, Rebalance(regime) PROVE IInv'
  BY <1>5, RebalanceInv
<1>6. CASE Midnight
  BY <1>6, MidnightInv
<1>7. CASE Boot
  BY <1>7, BootInv
<1>8. CASE Die
  BY <1>8, DieInv
<1>9. CASE DieSaving
  BY <1>9, DieSavingInv
<1>10. CASE UNCHANGED svars
  BY <1>10 DEF IInv, ThreadsOK, FileOK, BooksOK, Readable, svars, sleeve
<1> QED
  BY <1>1, <1>2, <1>3, <1>4, <1>5, <1>6, <1>7, <1>8, <1>9, <1>10 DEF Next, CycleWork, ThreadWork

THEOREM AlwaysIInv == Spec => []IInv
<1>1. Init => IInv
  BY InitIInv
<1>2. IInv /\ [Next]_svars => IInv'
  BY NextIInv
<1> QED
  BY <1>1, <1>2, PTL DEF Spec

-----------------------------------------------------------------------------
(* The properties of the run                                                 *)

(* Every variable of the sleeve has its type, a name is held once and no     *)
(* more than CORE_MAX_POSITIONS are held (sleeve.py, rebalancer.py), for     *)
(* every universe, calendar and limits.                                      *)
THEOREM TypeCorrect == Spec => []TypeOK
<1>1. IInv => TypeOK
  BY InvImplies
<1> QED
  BY <1>1, AlwaysIInv, PTL

(* A sector passes its cap (portfolio.py, R5) by no more than the adds of    *)
(* one rebalance but one, however many rebalances there were.                *)
THEOREM SectorsAreBounded == Spec => []SectorBounded
<1>1. IInv => SectorBounded
  BY InvImplies
<1> QED
  BY <1>1, AlwaysIInv, PTL

(* What was sized for a bear market is a put, whatever regime the            *)
(* assignments it was bought by were made in (sleeve.py, rebalancer.py).     *)
THEOREM BearsBuyNoStock == Spec => []BearHoldsPutsOnly
<1>1. IInv => BearHoldsPutsOnly
  BY InvImplies
<1> QED
  BY <1>1, AlwaysIInv, PTL

(* Names are bought MAX_CHANGES_PER_REBALANCE at a time, the batches a week  *)
(* apart (rebalancer.py), whatever the threads, deaths and lost files do.    *)
THEOREM BatchesAreAWeekApart == Spec => []WeeklyBatches
<1>1. IInv => WeeklyBatches
  BY InvImplies
<1> QED
  BY <1>1, AlwaysIInv, PTL

-----------------------------------------------------------------------------
(* The supervised sleeve                                                     *)

(* A step of the trader under its watchdog is a step of the sleeve or leaves *)
(* it alone.                                                                 *)
LEMMA SupervisedStep == [SupervisedNext]_vars => [Next]_svars
<1> SUFFICES ASSUME [SupervisedNext]_vars PROVE [Next]_svars
  OBVIOUS
<1>1. CASE Cycling \/ Threading \/ Dawning
  BY <1>1 DEF Cycling, Threading, Dawning, Next
<1>2. CASE Watching
  <2>1. trader' = trader
    BY <1>2 DEF Watching, Loop, Nap, EndNap, EndRest, EndBackoff
  <2> QED
    BY <1>2, <2>1 DEF Watching, svars
<1>3. CASE Starting
  BY <1>3 DEF Starting, Next
<1>4. CASE Shutdown
  BY <1>4 DEF Shutdown, Next
<1>5. CASE Crashing \/ CrashingSaving \/ CrashingLearning
  BY <1>5 DEF Crashing, CrashingSaving, CrashingLearning, Next
<1>6. CASE UNCHANGED vars
  BY <1>6 DEF vars
<1> QED
  BY <1>1, <1>2, <1>3, <1>4, <1>5, <1>6 DEF SupervisedNext

(* Under scripts/watchdog.sh the sleeve does nothing it does not do alone,   *)
(* so that everything above holds of the trader the watchdog restarts.       *)
THEOREM SupervisionRefines == SupervisedSpec => Spec
<1>1. SupervisedInit => Init
  BY DEF SupervisedInit
<1> QED
  BY <1>1, SupervisedStep, PTL DEF SupervisedSpec, Spec

WatchdogOK ==
    /\ wd \in {"probing", "napping", "watching", "resting", "backing off"}
    /\ backoff \in MinBackoff..MaxBackoff
    /\ trader \in {"up", "down"}
    /\ stats \in {"whole", "torn"}
    /\ trader = "up" <=> wd = "watching"

LEMMA WatchdogStep == WatchdogOK /\ [SupervisedNext]_vars => WatchdogOK'
<1> SUFFICES ASSUME WatchdogOK, [SupervisedNext]_vars PROVE WatchdogOK'
  OBVIOUS
<1>0. MinBackoff \in Nat /\ MaxBackoff \in Nat /\ MinBackoff <= MaxBackoff
  BY WatchdogAssumption
<1>1. CASE Cycling \/ Threading \/ Dawning
  <2>1. trader' = trader
    BY <1>1 DEF Cycling, Threading, Dawning, CycleWork, ThreadWork,
                StartClassifying, ClassifyFails, BeginSave, EndSave, Rebalance, Midnight
  <2>2. Besides
    BY <1>1 DEF Cycling, Threading, Dawning
  <2> QED
    BY <2>1, <2>2 DEF Besides, WatchdogOK
<1>2. CASE Watching
  <2>0. stats' = stats
    BY <1>2 DEF Watching
  <2>1. CASE Nap
    BY <2>0, <2>1 DEF Nap, WatchdogOK
  <2>2. CASE EndNap
    BY <2>0, <2>2 DEF EndNap, WatchdogOK
  <2>3. CASE EndRest
    BY <1>0, <2>0, <2>3 DEF EndRest, WatchdogOK
  <2>4. CASE EndBackoff
    <3>1. backoff' = IF 2 * backoff > MaxBackoff THEN MaxBackoff ELSE 2 * backoff
      BY <2>4 DEF EndBackoff
    <3>2. backoff \in MinBackoff..MaxBackoff
      BY DEF WatchdogOK
    <3>3. backoff' \in MinBackoff..MaxBackoff
      BY <1>0, <3>1, <3>2
    <3> QED
      BY <2>0, <2>4, <3>3 DEF EndBackoff, WatchdogOK
  <2> QED
    BY <1>2, <2>1, <2>2, <2>3, <2>4 DEF Watching, Loop
<1>3. CASE Starting
  BY <1>3 DEF Starting, StartTrader, WatchdogOK
<1>4. CASE Shutdown
  BY <1>4 DEF Shutdown, TraderExits, WatchdogOK
<1>5. CASE Crashing \/ CrashingSaving \/ CrashingLearning
  BY <1>5 DEF Crashing, CrashingSaving, CrashingLearning, TraderExits, WatchdogOK
<1>6. CASE UNCHANGED vars
  BY <1>6 DEF vars, svars, WatchdogOK
<1> QED
  BY <1>1, <1>2, <1>3, <1>4, <1>5, <1>6 DEF SupervisedNext

(* The watchdog knows whether its trader runs, and waits no less than the    *)
(* first backoff and no more than MAX_BACKOFF (watchdog.sh).                 *)
THEOREM SupervisedTypeCorrect == SupervisedSpec => []SupervisedTypeOK
<1>1. SupervisedInit => WatchdogOK
  BY WatchdogAssumption DEF SupervisedInit, WatchdogInit, WatchdogOK
<1>2. WatchdogOK /\ [SupervisedNext]_vars => WatchdogOK'
  BY WatchdogStep
<1>3. SupervisedSpec => []WatchdogOK
  BY <1>1, <1>2, PTL DEF SupervisedSpec
<1>4. TypeOK /\ WatchdogOK => SupervisedTypeOK
  BY DEF WatchdogOK, SupervisedTypeOK
<1> QED
  BY <1>3, <1>4, SupervisionRefines, TypeCorrect, PTL
=============================================================================
