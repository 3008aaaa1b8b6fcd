------------------------ MODULE SignalPipelineProofs ------------------------
(***************************************************************************)
(* What holds of main.py for any watchlist, bars, strengths, prices and    *)
(* limits: that the ranking is one, how far a ticker may pass its limit,   *)
(* and that the log accounts for every order.                              *)
(***************************************************************************)
EXTENDS SignalPipeline, DataTheorems, SequenceTheorems

-----------------------------------------------------------------------------
(* Scores                                                                  *)

LEMMA Numbers ==
    /\ Levels \subseteq 0..100 /\ Distances \subseteq 0..100
    /\ {Price, Balance, MaxUsd, MaxOpenTrades, MaxOrders} \subseteq Nat \ {0}
    /\ Codes \in Seq(STRING)
  BY PipelineAssumption, Zenon

LEMMA LevelsAreInts == \A x \in Levels : x \in Int
<1>1. Levels \subseteq 0..100
  BY PipelineAssumption, Zenon
<1> QED
  BY <1>1

LEMMA SignalsIndexed ==
    ASSUME NEW sg \in Seq(Signals)
    PROVE  /\ DOMAIN sg = 1..Len(sg) /\ Len(sg) \in Nat /\ IsFiniteSet(DOMAIN sg)
           /\ \A n \in DOMAIN sg : sg[n] \in Signals /\ sg[n].strength \in Int
<1>1. DOMAIN sg = 1..Len(sg) /\ Len(sg) \in Nat
  OBVIOUS
<1>2. IsFiniteSet(DOMAIN sg)
  BY <1>1, FS_Interval
<1>3. ASSUME NEW n \in DOMAIN sg PROVE sg[n] \in Signals
  BY <1>1, ElementOfSeq
<1>4. ASSUME NEW s \in Signals PROVE s.strength \in Int
  <2>1. s.strength \in Levels
    BY Zenon DEF Signals
  <2> QED
    BY <2>1, LevelsAreInts, Zenon
<1> QED
  BY <1>1, <1>2, <1>3, <1>4

LEMMA GroupFacts ==
    ASSUME NEW sg \in Seq(Signals), NEW n \in DOMAIN sg
    PROVE  /\ Group(sg, n) \subseteq DOMAIN sg /\ n \in Group(sg, n)
           /\ IsFiniteSet(Group(sg, n))
           /\ \A m \in Group(sg, n) : Group(sg, m) = Group(sg, n)
<1>1. Group(sg, n) \subseteq DOMAIN sg /\ n \in Group(sg, n)
  BY DEF Group, SameView
<1>2. IsFiniteSet(Group(sg, n))
  BY <1>1, SignalsIndexed, FS_Subset
<1>3. ASSUME NEW m \in Group(sg, n) PROVE Group(sg, m) = Group(sg, n)
  BY <1>3 DEF Group, SameView
<1> QED
  BY <1>1, <1>2, <1>3

(* There is a strongest signal, and it is of the group. *)
LEMMA StrongestIsIn ==
    ASSUME NEW sg \in Seq(Signals), NEW n \in DOMAIN sg
    PROVE  Strongest(sg, n) \in Group(sg, n)
<1> DEFINE group == Group(sg, n)
           f     == [m \in group |-> sg[m].strength]
<1>1. /\ IsFiniteSet(group) /\ group # {} /\ group \subseteq DOMAIN sg
      /\ \A m \in group : m \in Int /\ f[m] \in Int /\ f[m] = sg[m].strength
  BY GroupFacts, SignalsIndexed
<1> HIDE DEF group, f
<1>2. PICK x \in group : \A y \in group : f[y] <= f[x]
  BY <1>1, HighestExists
<1> DEFINE best == {m \in group : f[m] = f[x]}
<1>3. IsFiniteSet(best) /\ best # {} /\ best \subseteq Int
  BY <1>1, <1>2, FS_Subset
<1>4. PICK m \in best : \A k \in best : m <= k
  <2> HIDE DEF best
  <2> QED
    BY <1>3, LeastExists
<1>5. /\ m \in group
      /\ \A k \in group : \/ sg[k].strength < sg[m].strength
                          \/ sg[k].strength = sg[m].strength /\ m <= k
  <2>1. m \in group /\ f[m] = f[x]
    BY <1>4
  <2>2. ASSUME NEW k \in group, f[k] = f[m] PROVE m <= k
    BY <1>4, <2>1, <2>2
  <2>3. ASSUME NEW k \in group PROVE f[k] < f[m] \/ (f[k] = f[m] /\ m <= k)
    <3>1. f[k] <= f[m] /\ f[k] \in Int /\ f[m] \in Int
      BY <1>1, <1>2, <2>1
    <3> QED
      BY <2>2, <3>1
  <2>4. ASSUME NEW k \in group
        PROVE  \/ sg[k].strength < sg[m].strength
               \/ sg[k].strength = sg[m].strength /\ m <= k
    <3>1. f[k] = sg[k].strength /\ f[m] = sg[m].strength
      BY <1>1, <2>1
    <3> QED
      BY <2>3, <3>1
  <2> QED
    BY <2>1, <2>4
<1> QED
  BY <1>5 DEF Strongest, group

LEMMA ScoreFacts ==
    ASSUME NEW sg \in Seq(Signals), NEW n \in DOMAIN sg
    PROVE  /\ Score(sg, n) \in Int
           /\ \A m \in Group(sg, n) : Score(sg, m) = Score(sg, n)
<1>1. Cardinality(Group(sg, n)) \in Nat
  BY GroupFacts, FS_CardinalityType
<1>2. sg[Strongest(sg, n)].strength \in Int
  BY StrongestIsIn, GroupFacts, SignalsIndexed
<1>3. Score(sg, n) \in Int
  BY <1>1, <1>2 DEF Score, Capped
<1>4. ASSUME NEW m \in Group(sg, n) PROVE Score(sg, m) = Score(sg, n)
  <2>1. Group(sg, m) = Group(sg, n)
    BY GroupFacts
  <2>2. Strongest(sg, m) = Strongest(sg, n)
    BY <2>1 DEF Strongest
  <2> QED
    BY <2>1, <2>2 DEF Score
<1> QED
  BY <1>3, <1>4

\* What a signal is worth, as IsRanking has it.
Worth(sg, s) == Score(sg, CHOOSE n \in DOMAIN sg : SameView(sg[n], s))

LEMMA WorthIsScore ==
    ASSUME NEW sg \in Seq(Signals), NEW n \in DOMAIN sg, NEW m \in Group(sg, n)
    PROVE  Worth(sg, sg[m]) = Score(sg, n)
<1> DEFINE k == CHOOSE k \in DOMAIN sg : SameView(sg[k], sg[m])
<1>1. m \in DOMAIN sg /\ SameView(sg[m], sg[n])
  BY DEF Group
<1>2. k \in DOMAIN sg /\ SameView(sg[k], sg[m])
  BY <1>1 DEF SameView
<1>3. k \in Group(sg, n)
  BY <1>1, <1>2 DEF Group, SameView
<1> QED
  BY <1>3, ScoreFacts DEF Worth

-----------------------------------------------------------------------------
(* The ranking                                                             *)

LEMMA BeforeOrders ==
    ASSUME NEW sg \in Seq(Signals), NEW i \in DOMAIN sg, NEW j \in DOMAIN sg
    PROVE  /\ i # j => Before(sg, i, j) \/ Before(sg, j, i)
           /\ ~ (Before(sg, i, j) /\ Before(sg, j, i))
           /\ \A k \in DOMAIN sg : Before(sg, i, j) /\ Before(sg, j, k) => Before(sg, i, k)
           /\ Before(sg, i, j) => Score(sg, i) >= Score(sg, j)
<1>1. \A k \in DOMAIN sg : k \in Int /\ Score(sg, k) \in Int
  BY ScoreFacts, SignalsIndexed
<1> QED
  BY <1>1 DEF Before

LEMMA LeadersFacts ==
    ASSUME NEW sg \in Seq(Signals)
    PROVE  /\ Leaders(sg) \subseteq DOMAIN sg /\ IsFiniteSet(Leaders(sg))
           /\ \A n \in DOMAIN sg : Score(sg, n) >= Threshold =>
                 Group(sg, n) \intersect Leaders(sg) # {}
<1>1. Leaders(sg) \subseteq DOMAIN sg
  BY DEF Leaders
<1>2. IsFiniteSet(Leaders(sg))
  BY <1>1, SignalsIndexed, FS_Subset
<1>3. ASSUME NEW n \in DOMAIN sg, Score(sg, n) >= Threshold
      PROVE  Group(sg, n) \intersect Leaders(sg) # {}
  <2>1. /\ IsFiniteSet(Group(sg, n)) /\ Group(sg, n) # {} /\ Group(sg, n) \subseteq DOMAIN sg
        /\ \A m \in Group(sg, n) : Group(sg, m) = Group(sg, n)
    BY GroupFacts
  <2>2. Group(sg, n) \subseteq Int
    BY <2>1, SignalsIndexed
  <2>3. PICK m \in Group(sg, n) : \A k \in Group(sg, n) : m <= k
    BY <2>1, <2>2, LeastExists
  <2>4. Score(sg, m) >= Threshold
    BY <1>3, ScoreFacts
  <2>5. m \in Leaders(sg)
    BY <2>1, <2>3, <2>4 DEF Leaders
  <2> QED
    BY <2>5
<1> QED
  BY <1>1, <1>2, <1>3

\* The leaders, the best first.
Sorted(sg) == Ranked(Leaders(sg), UpTo(sg))

LEMMA SortedFacts ==
    ASSUME NEW sg \in Seq(Signals)
    PROVE  /\ Sorted(sg) \in Bijection(1..Cardinality(Leaders(sg)), Leaders(sg))
           /\ \A m, n \in 1..Cardinality(Leaders(sg)) :
                 m < n => Score(sg, Sorted(sg)[m]) >= Score(sg, Sorted(sg)[n])
<1> DEFINE S    == Leaders(sg)
           upto == UpTo(sg)
<1>1. S \subseteq DOMAIN sg /\ IsFiniteSet(S)
  BY LeadersFacts
<1>2. \A i \in S : upto[i] = {m \in S : m = i \/ Before(sg, m, i)}
  BY DEF UpTo
<1> HIDE DEF S, upto
<1>3. /\ \A i, j \in S : i # j => Before(sg, i, j) \/ Before(sg, j, i)
      /\ \A i, j \in S : ~ (Before(sg, i, j) /\ Before(sg, j, i))
      /\ \A i, j, k \in S : Before(sg, i, j) /\ Before(sg, j, k) => Before(sg, i, k)
      /\ \A i, j \in S : Before(sg, i, j) => Score(sg, i) >= Score(sg, j)
  BY <1>1, BeforeOrders
<1>4. \A x \in S : upto[x] \in SUBSET S /\ x \in upto[x]
  BY <1>2
<1>5. \A x, y \in S : upto[x] \subseteq upto[y] \/ upto[y] \subseteq upto[x]
  BY <1>2, <1>3
<1>6. \A x, y \in S : x \in upto[y] /\ y \in upto[x] => x = y
  BY <1>2, <1>3
<1>7. Ranked(S, upto) \in Bijection(1..Cardinality(S), S)
  BY <1>1, <1>4, <1>5, <1>6, RankedIsBijection
<1>8. ASSUME NEW m \in 1..Cardinality(S), NEW n \in 1..Cardinality(S), m < n
      PROVE  Score(sg, Ranked(S, upto)[m]) >= Score(sg, Ranked(S, upto)[n])
  <2>1. Ranked(S, upto)[m] \in upto[Ranked(S, upto)[n]] /\ Ranked(S, upto)[m] # Ranked(S, upto)[n]
    BY <1>1, <1>4, <1>5, <1>6, <1>8, RankedInOrder
  <2>2. Ranked(S, upto)[m] \in S /\ Ranked(S, upto)[n] \in S
    BY <1>7 DEF Bijection, Injection
  <2> QED
    BY <1>2, <1>3, <2>1, <2>2
<1> QED
  BY <1>7, <1>8 DEF Sorted, S, upto

\* The first leader of its ticker.
IsFirst(sg, n) ==
    \A m \in DOMAIN Sorted(sg) : sg[Sorted(sg)[m]].code = sg[Sorted(sg)[n]].code => n <= m

Chosen(sg) == {n \in DOMAIN Sorted(sg) : IsFirst(sg, n)}

LEMMA RankedSignalsIs ==
    ASSUME NEW sg \in Seq(Signals)
    PROVE  /\ DOMAIN RankedSignals(sg) = 1..Cardinality(Chosen(sg))
           /\ Cardinality(Chosen(sg)) \in Nat
           /\ InOrder(Chosen(sg)) \in Bijection(1..Cardinality(Chosen(sg)), Chosen(sg))
           /\ \A m, n \in DOMAIN RankedSignals(sg) :
                 m < n => InOrder(Chosen(sg))[m] < InOrder(Chosen(sg))[n]
           /\ \A n \in DOMAIN RankedSignals(sg) :
                 RankedSignals(sg)[n] = sg[Strongest(sg, Sorted(sg)[InOrder(Chosen(sg))[n]])]
<1> DEFINE C == Chosen(sg)
<1>1. Cardinality(Leaders(sg)) \in Nat /\ DOMAIN Sorted(sg) = 1..Cardinality(Leaders(sg))
  BY LeadersFacts, SortedFacts, FS_CardinalityType DEF Bijection, Injection
<1>2. C \subseteq 1..Cardinality(Leaders(sg)) /\ C \subseteq Nat \ {0}
  BY <1>1 DEF Chosen
<1>3. IsFiniteSet(C)
  <2>1. IsFiniteSet(1..Cardinality(Leaders(sg)))
    BY <1>1, FS_Interval
  <2> QED
    BY <1>2, <2>1, FS_Subset
<1>4. RankedSignals(sg) =
        [n \in DOMAIN InOrder(C) |-> sg[Strongest(sg, Sorted(sg)[InOrder(C)[n]])]]
  BY DEF RankedSignals, Chosen, IsFirst, Sorted
<1> HIDE DEF C
<1>5. /\ InOrder(C) \in Bijection(1..Cardinality(C), C) /\ Cardinality(C) \in Nat
      /\ \A m, n \in 1..Cardinality(C) : m < n => InOrder(C)[m] < InOrder(C)[n]
  BY <1>2, <1>3, InOrderIsBijection, FS_CardinalityType
<1>6. DOMAIN InOrder(C) = 1..Cardinality(C)
  BY <1>5 DEF Bijection, Injection
<1> QED
  BY <1>4, <1>5, <1>6 DEF C

\* The leader that the n-th place of the ranking stands for.
Leader(sg, n) == Sorted(sg)[InOrder(Chosen(sg))[n]]

LEMMA PlaceFacts ==
    ASSUME NEW sg \in Seq(Signals), NEW n \in DOMAIN RankedSignals(sg)
    PROVE  /\ InOrder(Chosen(sg))[n] \in DOMAIN Sorted(sg) /\ IsFirst(sg, InOrder(Chosen(sg))[n])
           /\ Leader(sg, n) \in DOMAIN sg
           /\ RankedSignals(sg)[n] \in Range(sg) /\ RankedSignals(sg)[n] \in Signals
           /\ RankedSignals(sg)[n].code = sg[Leader(sg, n)].code
           /\ Worth(sg, RankedSignals(sg)[n]) = Score(sg, Leader(sg, n))
<1> DEFINE k == InOrder(Chosen(sg))[n]
           l == Leader(sg, n)
           m == Strongest(sg, l)
<1>1. k \in Chosen(sg)
  BY RankedSignalsIs DEF Bijection, Injection
<1>2. k \in DOMAIN Sorted(sg) /\ IsFirst(sg, k)
  BY <1>1 DEF Chosen
<1>3. l \in DOMAIN sg
  <2>1. Sorted(sg)[k] \in Leaders(sg)
    BY <1>2, SortedFacts DEF Bijection, Injection
  <2> QED
    BY <2>1, LeadersFacts DEF Leader
<1>4. m \in Group(sg, l) /\ m \in DOMAIN sg /\ sg[m].code = sg[l].code
  <2>1. m \in Group(sg, l)
    BY <1>3, StrongestIsIn
  <2> QED
    BY <2>1 DEF Group, SameView
<1>5. RankedSignals(sg)[n] = sg[m]
  BY RankedSignalsIs DEF Leader
<1>6. sg[m] \in Range(sg) /\ sg[m] \in Signals
  BY <1>4, SignalsIndexed DEF Range
<1>7. Worth(sg, sg[m]) = Score(sg, l)
  BY <1>3, <1>4, WorthIsScore
<1> QED
  BY <1>2, <1>3, <1>4, <1>5, <1>6, <1>7

LEMMA PlacesDiffer ==
    ASSUME NEW sg \in Seq(Signals),
           NEW m \in DOMAIN RankedSignals(sg), NEW n \in DOMAIN RankedSignals(sg), m < n
    PROVE  /\ RankedSignals(sg)[m].code # RankedSignals(sg)[n].code
           /\ Worth(sg, RankedSignals(sg)[m]) >= Worth(sg, RankedSignals(sg)[n])
<1> DEFINE i == InOrder(Chosen(sg))[m]
           j == InOrder(Chosen(sg))[n]
<1>1. i < j
  BY RankedSignalsIs
<1>2. DOMAIN Sorted(sg) = 1..Cardinality(Leaders(sg)) /\ Cardinality(Leaders(sg)) \in Nat
  BY SortedFacts, LeadersFacts, FS_CardinalityType DEF Bijection, Injection
<1>3. i \in DOMAIN Sorted(sg) /\ j \in DOMAIN Sorted(sg) /\ IsFirst(sg, j)
  BY PlaceFacts
<1>4. sg[Sorted(sg)[i]].code # sg[Sorted(sg)[j]].code
  BY <1>1, <1>2, <1>3 DEF IsFirst
<1>5. Score(sg, Sorted(sg)[i]) >= Score(sg, Sorted(sg)[j])
  BY <1>1, <1>2, <1>3, SortedFacts
<1> QED
  BY <1>4, <1>5, PlaceFacts DEF Leader

(* No ticker with a score that is enough is left out.                      *)
LEMMA NoneIsMissed ==
    ASSUME NEW sg \in Seq(Signals), NEW n \in DOMAIN sg, Score(sg, n) >= Threshold
    PROVE  \E m \in DOMAIN RankedSignals(sg) :
              /\ RankedSignals(sg)[m].code = sg[n].code
              /\ Worth(sg, RankedSignals(sg)[m]) >= Score(sg, n)
<1>1. PICK l \in Leaders(sg) : l \in Group(sg, n)
  BY LeadersFacts
<1>2. l \in DOMAIN sg /\ sg[l].code = sg[n].code /\ Score(sg, l) = Score(sg, n)
  BY <1>1, ScoreFacts DEF Group, SameView
<1>3. PICK k \in DOMAIN Sorted(sg) : Sorted(sg)[k] = l
  BY <1>1, SortedFacts DEF Bijection, Surjection
<1> DEFINE Same == {i \in DOMAIN Sorted(sg) : sg[Sorted(sg)[i]].code = sg[n].code}
<1>4. DOMAIN Sorted(sg) = 1..Cardinality(Leaders(sg)) /\ Cardinality(Leaders(sg)) \in Nat
  BY SortedFacts, LeadersFacts, FS_CardinalityType DEF Bijection, Injection
<1>5. IsFiniteSet(Same) /\ Same # {} /\ Same \subseteq Int
  <2>1. k \in Same
    BY <1>2, <1>3
  <2>2. IsFiniteSet(1..Cardinality(Leaders(sg)))
    BY <1>4, FS_Interval
  <2> QED
    BY <1>4, <2>1, <2>2, FS_Subset
<1>6. PICK i \in Same : \A j \in Same : i <= j
  <2> HIDE DEF Same
  <2> QED
    BY <1>5, LeastExists
<1>7. i \in Chosen(sg)
  BY <1>6 DEF Chosen, IsFirst
<1>8. i = k \/ i < k
  BY <1>2, <1>3, <1>4, <1>6
<1>9. Score(sg, Sorted(sg)[i]) >= Score(sg, n)
  <2>1. CASE i = k
    BY <2>1, <1>2, <1>3, ScoreFacts
  <2>2. CASE i < k
    BY <2>2, <1>2, <1>3, <1>4, SortedFacts
  <2> QED
    BY <1>8, <2>1, <2>2
<1>10. PICK m \in DOMAIN RankedSignals(sg) : InOrder(Chosen(sg))[m] = i
  BY <1>7, RankedSignalsIs DEF Bijection, Surjection
<1>11. Leader(sg, m) = Sorted(sg)[i] /\ sg[Sorted(sg)[i]].code = sg[n].code
  BY <1>6, <1>10 DEF Leader
<1> QED
  BY <1>9, <1>11, PlaceFacts

LEMMA RankingHolds ==
    ASSUME NEW sg \in Seq(Signals)
    PROVE  /\ IsRanking(RankedSignals(sg), sg)
           /\ RankedSignals(sg) \in Seq(Signals)
           /\ \A m, n \in DOMAIN RankedSignals(sg) :
                 m # n => RankedSignals(sg)[m].code # RankedSignals(sg)[n].code
<1> DEFINE ranking == RankedSignals(sg)
<1>1. /\ DOMAIN ranking = 1..Cardinality(Chosen(sg)) /\ Cardinality(Chosen(sg)) \in Nat
      /\ \A n \in DOMAIN ranking : n \in Nat
  BY RankedSignalsIs
<1>2. \A m, n \in DOMAIN ranking : m < n => /\ ranking[m].code # ranking[n].code
                                            /\ Worth(sg, ranking[m]) >= Worth(sg, ranking[n])
  BY PlacesDiffer
<1>3. Range(ranking) \subseteq Range(sg)
  BY PlaceFacts DEF Range
<1>4. ASSUME NEW n \in DOMAIN sg, Worth(sg, sg[n]) >= Threshold
      PROVE  \E m \in DOMAIN ranking : /\ ranking[m].code = sg[n].code
                                       /\ Worth(sg, ranking[m]) >= Worth(sg, sg[n])
  <2>1. Worth(sg, sg[n]) = Score(sg, n)
    BY GroupFacts, WorthIsScore
  <2> QED
    BY <1>4, <2>1, NoneIsMissed
<1>5. IsRanking(ranking, sg)
  <2> HIDE DEF ranking
  <2> QED
    BY <1>2, <1>3, <1>4, Zenon DEF IsRanking, Worth
<1>6. \A m, n \in DOMAIN ranking : m # n => ranking[m].code # ranking[n].code
  <2> SUFFICES ASSUME NEW m \in DOMAIN ranking, NEW n \in DOMAIN ranking, m # n
               PROVE  ranking[m].code # ranking[n].code
    OBVIOUS
  <2>1. m < n \/ n < m
    BY <1>1
  <2> QED
    BY <1>2, <2>1
<1>7. ranking \in Seq(Signals)
  <2>1. ranking = [n \in 1..Cardinality(Chosen(sg)) |-> ranking[n]]
    BY <1>1 DEF RankedSignals
  <2>2. \A n \in DOMAIN ranking : ranking[n] \in Signals
    BY PlaceFacts
  <2> HIDE DEF ranking
  <2>3. ranking \in [1..Cardinality(Chosen(sg)) -> Signals]
    BY <1>1, <2>1, <2>2
  <2> QED
    BY <1>1, <2>3, SeqDef
<1> QED
  BY <1>5, <1>6, <1>7

-----------------------------------------------------------------------------
(* The scan                                                                *)

LEMMA EvaluationsType ==
    ASSUME NEW code \in Tickers, NEW b
    PROVE  Evaluations(code, b) \subseteq Seq(Signals)
<1> DEFINE firing == {n \in Allowed(code) : b.count >= 50 /\ Fires(Registered[n], code, b)}
           order  == InOrder(firing)
           emitted(n, choice) == [code |-> code, direction |-> Direction(Registered[n]),
                                  strength |-> choice[1], risk |-> choice[2]]
<1> SUFFICES ASSUME NEW choice \in [firing -> Levels \X Distances]
             PROVE  [k \in DOMAIN order |-> emitted(order[k], choice[order[k]])] \in Seq(Signals)
  BY DEF Evaluations
<1>1. firing \subseteq 1..7
  BY DEF Allowed, Registered
<1>2. IsFiniteSet(firing) /\ firing \subseteq Nat \ {0}
  <2>1. 1 \in Int /\ 7 \in Int /\ 1..7 \subseteq Nat \ {0}
    OBVIOUS
  <2>2. IsFiniteSet(1..7)
    BY <2>1, FS_Interval, Zenon
  <2> HIDE DEF firing
  <2>3. IsFiniteSet(firing)
    BY <1>1, <2>2, FS_Subset, Zenon
  <2> QED
    BY <1>1, <2>1, <2>3
<1>3. order \in [1..Cardinality(firing) -> firing] /\ Cardinality(firing) \in Nat
  <2> HIDE DEF firing
  <2> QED
    BY <1>2, InOrderIsBijection, FS_CardinalityType DEF Bijection, Injection
<1>4. ASSUME NEW n \in firing
      PROVE  emitted(n, choice[n]) \in Signals
  <2>1. choice[n][1] \in Levels /\ choice[n][2] \in Distances
    BY <1>4
  <2>2. Direction(Registered[n]) \in {"LONG", "SHORT"}
    BY DEF Direction
  <2> QED
    BY <2>1, <2>2 DEF Signals
<1> HIDE DEF firing, order, emitted
<1>5. [k \in DOMAIN order |-> emitted(order[k], choice[order[k]])]
        \in [1..Cardinality(firing) -> Signals]
  BY <1>3, <1>4
<1> QED
  BY <1>3, <1>5, SeqDef

(* Whatever the bars say, the scan collects signals of the watchlist.       *)
LEMMA CollectionsType == Collections \subseteq Seq(Signals)
<1> DEFINE D == DOMAIN Codes
           Acc == SUBSET Seq(Signals)
           more(found, c) == {s \o t : s \in found, t \in UNION {Evaluations(c, b) : b \in Digests}}
           pick == [s \in SUBSET D |-> Max(s)]
           step == [p \in (SUBSET D) \X Acc |-> more(p[2], Codes[Max(p[1])])]
           iter == CHOOSE iter : iter = [s \in SUBSET D |->
                      IF s = {} THEN {<<>>} ELSE more(iter[s \ {Max(s)}], Codes[Max(s)])]
<1>1. Collections = iter[D]
  BY DEF Collections, FoldLeft, MapThenFoldSet
<1>2. IsPick(pick, D) /\ \A s \in SUBSET D : pick[s] = Max(s)
  <2>1. Codes \in Seq(STRING)
    BY PipelineAssumption, Zenon
  <2>2. IsFiniteSet(D) /\ D \subseteq Int
    BY <2>1, FS_Interval
  <2> HIDE DEF D
  <2> QED
    BY <2>2, MaxIsPick
<1>3. ASSUME NEW s \in SUBSET D, s # {}
      PROVE  Codes[Max(s)] \in Tickers
  BY <1>2, <1>3 DEF IsPick, Tickers, Range
<1>4. ASSUME NEW found \in Acc, NEW c \in Tickers
      PROVE  more(found, c) \in Acc
  <2>1. \A b : Evaluations(c, b) \subseteq Seq(Signals)
    BY EvaluationsType
  <2>2. \A u, v \in Seq(Signals) : u \o v \in Seq(Signals)
    BY ConcatProperties
  <2> QED
    BY <2>1, <2>2
<1> HIDE DEF more
<1>5. ASSUME NEW s \in SUBSET D, NEW found \in Acc
      PROVE  step[<<s, found>>] = more(found, Codes[Max(s)])
  BY <1>5
<1> HIDE DEF step, pick
<1>6. PICK F : F = [s \in SUBSET D |-> F[s]] /\ IsRun(F, {<<>>}, step, pick, D)
  BY <1>2, RunExists
<1>7. {<<>>} \in Acc
  OBVIOUS
<1> DEFINE Typed(G) == {s \in SUBSET D : G[s] \in Acc}
<1>8. ASSUME NEW G,
             \A s \in SUBSET D : \/ s = {} /\ G[s] = {<<>>}
                                 \/ s # {} /\ (G[s \ {pick[s]}] \in Acc =>
                                                 G[s] = more(G[s \ {pick[s]}], Codes[Max(s)]))
      PROVE  SUBSET D \subseteq Typed(G)
  <2>1. ASSUME NEW s \in SUBSET D, s = {} \/ s \ {pick[s]} \in Typed(G)
        PROVE  s \in Typed(G)
    <3>1. CASE s = {}
      BY <1>7, <1>8, <3>1
    <3>2. CASE s # {}
      <4>1. G[s \ {pick[s]}] \in Acc /\ Codes[Max(s)] \in Tickers
        BY <1>3, <2>1, <3>2
      <4>2. G[s] = more(G[s \ {pick[s]}], Codes[Max(s)])
        BY <1>8, <3>2, <4>1
      <4> QED
        BY <1>4, <4>1, <4>2
    <3> QED
      BY <3>1, <3>2
  <2> DEFINE Good == Typed(G)
  <2>2. \A s \in SUBSET D : s = {} \/ s \ {pick[s]} \in Good => s \in Good
    BY <2>1
  <2> HIDE DEF Good, D
  <2>3. SUBSET D \subseteq Good
    BY <1>2, <2>2, RunInduction
  <2> QED
    BY <2>3 DEF Good
<1>9. \A s \in SUBSET D : F[s] \in Acc
  <2>1. SUBSET D \subseteq Typed(F)
    <3> HIDE DEF Typed, Acc
    <3> QED
      BY <1>5, <1>6, <1>8 DEF IsRun
  <2> QED
    BY <2>1
<1>10. F = [s \in SUBSET D |-> IF s = {} THEN {<<>>} ELSE more(F[s \ {Max(s)}], Codes[Max(s)])]
  <2>1. ASSUME NEW s \in SUBSET D
        PROVE  F[s] = IF s = {} THEN {<<>>} ELSE more(F[s \ {Max(s)}], Codes[Max(s)])
    BY <1>2, <1>5, <1>6, <1>9 DEF IsRun
  <2> QED
    BY <1>6, <2>1
<1>11. iter = [s \in SUBSET D |->
                IF s = {} THEN {<<>>} ELSE more(iter[s \ {Max(s)}], Codes[Max(s)])]
  BY <1>10
<1> HIDE DEF iter
<1>12. SUBSET D \subseteq Typed(iter)
  <2> HIDE DEF Typed, Acc
  <2> QED
    BY <1>2, <1>8, <1>11
<1> QED
  BY <1>1, <1>12

-----------------------------------------------------------------------------
(* Sizes                                                                   *)

LEMMA Amounts ==
    /\ {Price, Balance, MaxUsd, MaxOpenTrades, MaxOrders} \subseteq Nat \ {0}
    /\ Budget \in Nat
<1>1. {Price, Balance, MaxUsd, MaxOpenTrades, MaxOrders} \subseteq Nat \ {0}
  BY PipelineAssumption, Zenon
<1>2. Balance \div 20 \in Nat
  BY <1>1
<1> QED
  BY <1>1, <1>2 DEF Budget, Capped

(* An order is worth no more than the budget. *)
LEMMA OrderBounded ==
    ASSUME NEW s \in Signals
    PROVE  Amount(s) \in Nat /\ Amount(s) <= Budget
<1> DEFINE most == Budget \div Price
           q    == Quantity(s.risk)
<1>1. Price \in Nat \ {0} /\ Balance \in Nat /\ Budget \in Nat
  BY Amounts
<1>2. most \in Nat /\ most * Price \in Nat /\ most * Price <= Budget
  BY <1>1
<1>3. s.risk \in 0..100
  <2>1. s.risk \in Distances
    BY Zenon DEF Signals
  <2>2. Distances \subseteq 0..100
    BY PipelineAssumption, Zenon
  <2> QED
    BY <2>1, <2>2, Zenon
<1>4. q \in Nat /\ q <= most
  <2>1. CASE s.risk = 0
    BY <1>2, <2>1 DEF Quantity
  <2>2. CASE s.risk # 0
    <3>1. Balance \div (100 * s.risk) \in Nat
      BY <1>1, <1>3, <2>2
    <3> QED
      BY <1>2, <2>2, <3>1 DEF Quantity, Capped
  <2> QED
    BY <2>1, <2>2
<1> HIDE DEF q, most
<1>5. q * Price \in Nat /\ q * Price <= most * Price
  BY <1>1, <1>2, <1>4
<1>6. Amount(s) = q * Price
  BY DEF Amount, q
<1> QED
  BY <1>1, <1>2, <1>5, <1>6

(* Budgets, counted. *)
LEMMA BudgetsAdd ==
    ASSUME NEW n \in Nat
    PROVE  /\ Budget * n \in Nat /\ Budget * (n + 1) = Budget * n + Budget
           /\ Budget * (1 + n) = Budget * n + Budget /\ Budget * (1 + n) \in Nat
           /\ 10 * Budget * (1 + n) = 10 * (Budget * (1 + n))
<1>1. Budget \in Nat
  BY Amounts
<1> QED
  BY <1>1

-----------------------------------------------------------------------------
(* The invariant                                                           *)

\* Orders still to be tried in this cycle.
Awaiting == IF proc = "recording" THEN DOMAIN queue \ {1} ELSE DOMAIN queue

\* The manager knows a position as long as this one, or it is none or a short
\* one, and nothing is being bought.
Untouched(c) == buying[c] = 0 /\ (held[c] <= known[c] \/ held[c] <= 0)

\* The same after a step that leaves what the manager knows.
StillUntouched(c) == buying'[c] = 0 /\ (held'[c] <= known[c] \/ held'[c] <= 0)

PassOK ==
    /\ \A m, n \in DOMAIN queue : m # n => queue[m].code # queue[n].code
    /\ proc = "recording" => queue # <<>>
    /\ proc \in {"reading", "ranking"} => \A c \in Tickers \ blind : Untouched(c)
    /\ \A n \in Awaiting : queue[n].code \notin blind => Untouched(queue[n].code)

\* What may be bought of a ticker: one budget, and one for each buy of a cycle
\* that was shown too little.
Allowance(n) == Budget * (1 + n)

\* A ticker's position and its orders, together and each for itself.
WithinBudget ==
    \A c \in Tickers :
        /\ 10 * (held[c] + buying[c]) < Balance + 10 * Allowance(unseen[c])
        /\ buying[c] <= Allowance(unseen[c])
        /\ selling[c] - held[c] <= Budget * accepted
        /\ selling[c] <= Budget * accepted
        /\ unseen[c] <= accepted

PipelineInv == TypeOK /\ PassOK /\ WithinBudget /\ TradesLogged

LEMMA InitInv == Init => PipelineInv
<1> SUFFICES ASSUME Init
             PROVE  PipelineInv
  OBVIOUS
<1>1. Flat \in [Tickers -> Int] /\ \A c \in Tickers : Flat[c] = 0
  BY DEF Flat
<1>2. TypeOK
  <2>1. <<>> \in Seq(Signals) /\ 0 \in 0..MaxOrders /\ Flat \in [Tickers -> Nat] /\ Flat \in [Tickers -> 0..MaxOrders]
    BY Amounts DEF Flat
  <2> QED
    BY <1>1, <2>1 DEF Init, TypeOK
<1>3. PassOK
  BY DEF Init, PassOK, Awaiting
<1>4. WithinBudget
  BY <1>1, Amounts DEF Init, WithinBudget, Allowance
<1>5. TradesLogged
  BY DEF Init, TradesLogged
<1> QED
  BY <1>2, <1>3, <1>4, <1>5 DEF PipelineInv

(* A queue that is emptied, or loses its head, leaves less to try. *)
LEMMA Dequeued ==
    ASSUME PipelineInv, proc = "trading", queue # <<>>, queue' = Tail(queue), proc' = "trading"
    PROVE  /\ Head(queue) \in Signals /\ Head(queue) = queue[1] /\ 1 \in DOMAIN queue
           /\ queue' \in Seq(Signals)
           /\ \A n \in DOMAIN queue' : /\ n + 1 \in DOMAIN queue /\ n + 1 # 1
                                       /\ queue'[n] = queue[n + 1]
<1>1. queue \in Seq(Signals)
  BY DEF PipelineInv, TypeOK
<1>2. Len(queue) \in Nat /\ Len(queue) # 0 /\ DOMAIN queue = 1..Len(queue)
  BY <1>1, EmptySeq
<1>3. Head(queue) \in Signals /\ Head(queue) = queue[1] /\ 1 \in DOMAIN queue
  BY <1>1, <1>2, ElementOfSeq
<1>4. queue' \in Seq(Signals) /\ Len(queue') = Len(queue) - 1
      /\ \A n \in 1..Len(queue') : queue'[n] = queue[n + 1]
  BY <1>1, <1>2, HeadTailProperties
<1> QED
  BY <1>2, <1>3, <1>4

(* With the account unchanged and no order more or less, what is left of a  *)
(* pass keeps.                                                              *)
LEMMA QuietStep ==
    ASSUME PipelineInv, UNCHANGED <<account, books, unseen>>,
           (proc' = "recording") = (proc = "recording")
    PROVE  WithinBudget' /\ TradesLogged'
  BY DEF PipelineInv, WithinBudget, TradesLogged, account, books

LEMMA IdleStep ==
    ASSUME PipelineInv, Idle, UNCHANGED <<account, accepted>>
    PROVE  PassOK' /\ WithinBudget'
<1>1. PassOK'
  BY DEF Idle, PassOK, Awaiting
<1>2. WithinBudget'
  BY DEF Idle, PipelineInv, WithinBudget, account
<1> QED
  BY <1>1, <1>2

(* A buy is sent for a position below a tenth of the balance with nothing    *)
(* being bought beside it, unless the manager was shown too little, and any  *)
(* order is at most one budget.                                              *)
LEMMA AcceptStep ==
    ASSUME PipelineInv, Sending, Accept, UNCHANGED <<known, blind>>
    PROVE  /\ WithinBudget'
           /\ held' \in [Tickers -> Int] /\ {buying', selling'} \subseteq [Tickers -> Nat]
           /\ unseen' \in [Tickers -> 0..MaxOrders]
           /\ accepted' = accepted + 1 /\ accepted' \in 0..MaxOrders /\ logged' = logged
           /\ \A n \in DOMAIN queue \ {1} : queue[n].code \notin blind => StillUntouched(queue[n].code)
<1> DEFINE s == Head(queue)
<1>1. /\ TypeOK /\ PassOK /\ WithinBudget
      /\ proc = "trading" /\ queue # <<>> /\ queue \in Seq(Signals)
  BY DEF PipelineInv, Sending, TypeOK
<1>2. s \in Signals /\ s = queue[1] /\ 1 \in DOMAIN queue
  BY <1>1, ElementOfSeq, EmptySeq
<1>3. s.code \in Tickers /\ s.direction \in {"LONG", "SHORT"}
  BY <1>2, Zenon DEF Signals
<1>4. Amount(s) \in Nat /\ Amount(s) <= Budget /\ Budget \in Nat
  BY <1>2, OrderBounded, Amounts
<1>5. /\ {held, known} \subseteq [Tickers -> Int] /\ {buying, selling} \subseteq [Tickers -> Nat]
      /\ unseen \in [Tickers -> 0..MaxOrders] /\ accepted \in 0..MaxOrders /\ accepted \in Nat
  BY <1>1, Amounts DEF TypeOK
<1>6. 10 * known[s.code] < Balance
  <2>1. ~ (10 * known[s.code] >= Balance)
    BY Zenon DEF Sending, Tradable, Approved, Concentrated
  <2> QED
    BY <1>3, <1>5, <2>1, Amounts
<1>7. s.code \notin blind => Untouched(s.code)
  <2>1. 1 \in Awaiting
    BY <1>1, <1>2 DEF Awaiting
  <2> QED
    BY <1>1, <1>2, <2>1 DEF PassOK
<1>8. \A n \in DOMAIN queue \ {1} : queue[n].code # s.code
  BY <1>1, <1>2 DEF PassOK
<1>9. \A n \in DOMAIN queue \ {1} : queue[n].code \notin blind => Untouched(queue[n].code)
  BY <1>1 DEF PassOK, Awaiting
<1>10. /\ accepted' = accepted + 1 /\ accepted < MaxOrders /\ held' = held /\ logged' = logged
       /\ \/ /\ s.direction = "LONG" /\ selling' = selling
             /\ buying' = [buying EXCEPT ![s.code] = @ + Amount(s)]
             /\ unseen' = [unseen EXCEPT ![s.code] = IF s.code \in blind THEN @ + 1 ELSE @]
          \/ /\ s.direction = "SHORT" /\ buying' = buying /\ unseen' = unseen
             /\ selling' = [selling EXCEPT ![s.code] = @ + Amount(s)]
  BY DEF Accept
<1>11. \A n \in DOMAIN queue : queue[n].code \in Tickers
  <2>1. \A n \in DOMAIN queue : queue[n] \in Signals
    BY <1>1, SignalsIndexed
  <2> QED
    BY <2>1, Zenon DEF Signals
<1>12. unseen[s.code] < MaxOrders /\ \A c \in Tickers : unseen[c] \in Nat
  BY <1>1, <1>3, <1>5, <1>10, Amounts DEF WithinBudget
<1> HIDE DEF s
<1>13. {buying', selling'} \subseteq [Tickers -> Nat] /\ unseen' \in [Tickers -> 0..MaxOrders]
  BY <1>3, <1>4, <1>5, <1>10, <1>12, Amounts
<1>14. \A c \in Tickers : c # s.code =>
         buying'[c] = buying[c] /\ selling'[c] = selling[c] /\ unseen'[c] = unseen[c]
  BY <1>5, <1>10
<1>15. WithinBudget'
  <2> SUFFICES ASSUME NEW c \in Tickers
               PROVE  /\ 10 * (held[c] + buying'[c]) < Balance + 10 * Allowance(unseen'[c])
                      /\ buying'[c] <= Allowance(unseen'[c])
                      /\ selling'[c] - held[c] <= Budget * (accepted + 1)
                      /\ selling'[c] <= Budget * (accepted + 1)
                      /\ unseen'[c] <= accepted + 1
    BY <1>10 DEF WithinBudget
  <2>0. unseen'[c] <= accepted + 1
    <3>1. unseen[c] <= accepted /\ unseen'[c] \in {unseen[c], unseen[c] + 1}
      BY <1>1, <1>3, <1>5, <1>10 DEF WithinBudget
    <3> QED
      BY <1>5, <3>1
  <2>1. /\ 10 * (held[c] + buying[c]) < Balance + 10 * Allowance(unseen[c])
        /\ buying[c] <= Allowance(unseen[c])
        /\ selling[c] - held[c] <= Budget * accepted
        /\ selling[c] <= Budget * accepted
    BY <1>1 DEF WithinBudget
  <2>2. /\ held[c] \in Int /\ buying[c] \in Nat /\ selling[c] \in Nat /\ unseen[c] \in Nat
        /\ buying'[c] \in Nat /\ selling'[c] \in Nat
    BY <1>5, <1>12, <1>13
  <2>3. /\ Budget * accepted \in Nat /\ Budget * (accepted + 1) = Budget * accepted + Budget
        /\ Allowance(unseen[c]) \in Nat /\ Allowance(unseen[c]) >= Budget
        /\ Allowance(unseen[c] + 1) = Allowance(unseen[c]) + Budget
    <3>1. Budget * (1 + unseen[c]) = Budget * unseen[c] + Budget /\ Budget * unseen[c] \in Nat
      BY <2>2, BudgetsAdd
    <3>2. Budget * (1 + (unseen[c] + 1)) = Budget * (unseen[c] + 1) + Budget
          /\ Budget * (unseen[c] + 1) = Budget * unseen[c] + Budget
      BY <2>2, BudgetsAdd
    <3>3. Budget * accepted \in Nat /\ Budget * (accepted + 1) = Budget * accepted + Budget
      BY <1>5, BudgetsAdd
    <3> QED
      BY <1>4, <3>1, <3>2, <3>3 DEF Allowance
  <2> DEFINE most == Allowance(unseen[c])
             sent == Budget * accepted
             next == Budget * (accepted + 1)
             now  == Allowance(unseen'[c])
  <2>4. /\ 10 * (held[c] + buying[c]) < Balance + 10 * most /\ buying[c] <= most
        /\ selling[c] - held[c] <= sent /\ selling[c] <= sent
        /\ most \in Nat /\ most >= Budget /\ sent \in Nat /\ next = sent + Budget
    BY <2>1, <2>3
  <2>5. /\ unseen'[c] = unseen[c] => now = most
        /\ unseen'[c] = unseen[c] + 1 => now = most + Budget
    BY <2>3
  <2> SUFFICES /\ 10 * (held[c] + buying'[c]) < Balance + 10 * now /\ buying'[c] <= now
               /\ selling'[c] - held[c] <= next /\ selling'[c] <= next
    BY <2>0
  <2> HIDE DEF most, sent, next, now
  <2>6. CASE c # s.code
    <3>1. buying'[c] = buying[c] /\ selling'[c] = selling[c] /\ now = most
      BY <1>14, <2>5, <2>6
    <3> QED
      BY <1>4, <2>2, <2>4, <3>1
  <2>7. CASE c = s.code /\ s.direction = "SHORT"
    <3>1. buying'[c] = buying[c] /\ now = most /\ selling'[c] = selling[c] + Amount(s)
      BY <1>5, <1>10, <2>5, <2>7
    <3> QED
      BY <1>4, <2>2, <2>4, <3>1
  <2>8. CASE c = s.code /\ s.direction = "LONG" /\ c \in blind
    <3>1. selling'[c] = selling[c] /\ buying'[c] = buying[c] + Amount(s) /\ now = most + Budget
      BY <1>5, <1>10, <2>5, <2>8
    <3>2. Balance \in Nat
      BY Amounts
    <3> QED
      BY <1>4, <2>2, <2>4, <3>1, <3>2
  <2>9. CASE c = s.code /\ s.direction = "LONG" /\ c \notin blind
    <3>1. selling'[c] = selling[c] /\ buying'[c] = buying[c] + Amount(s) /\ now = most
      BY <1>5, <1>10, <2>5, <2>9
    <3>2. buying[c] = 0 /\ (held[c] <= known[c] \/ held[c] <= 0)
      BY <1>7, <2>9 DEF Untouched
    <3>3. 10 * held[c] < Balance
      <4>1. known[c] \in Int /\ 10 * known[c] < Balance /\ Balance \in Nat /\ Balance > 0
        BY <1>5, <1>6, <2>9, Amounts
      <4> QED
        BY <2>2, <3>2, <4>1
    <3>4. Balance \in Nat
      BY Amounts
    <3> QED
      BY <1>4, <2>2, <2>4, <3>1, <3>2, <3>3, <3>4
  <2> QED
    BY <1>3, <2>6, <2>7, <2>8, <2>9
<1>16. \A n \in DOMAIN queue \ {1} : queue[n].code \notin blind => StillUntouched(queue[n].code)
  BY <1>8, <1>9, <1>10, <1>11, <1>14 DEF Untouched, StillUntouched
<1>17. accepted' \in 0..MaxOrders
  BY <1>5, <1>10, Amounts
<1> QED
  BY <1>5, <1>10, <1>13, <1>15, <1>16, <1>17

LEMMA CycleInv == ASSUME PipelineInv, Cycle PROVE PipelineInv'
<1> USE DEF PipelineInv
<1>0. /\ TypeOK /\ PassOK /\ WithinBudget /\ TradesLogged
      /\ <<>> \in Seq(Signals) /\ Flat \in [Tickers -> Int]
  BY DEF Flat
<1>1. ASSUME NEW answered \in BOOLEAN, Refresh(answered)
      PROVE  PipelineInv'
  <2>1. TypeOK'
    BY <1>0, <1>1 DEF Refresh, TypeOK, account, sight, books
  <2>2. queue = <<>> /\ proc' = "reading" /\ proc # "recording"
    BY <1>0, <1>1 DEF Refresh, TypeOK
  <2>3. \A c \in Tickers \ blind' : Untouched(c)'
    BY <1>0, <1>1 DEF Refresh, Untouched, TypeOK, account
  <2>4. PassOK'
    BY <1>1, <2>2, <2>3 DEF Refresh, PassOK, Awaiting
  <2>5. WithinBudget' /\ TradesLogged'
    BY <1>0, <1>1, <2>2 DEF Refresh, WithinBudget, TradesLogged, account, sight, books
  <2> QED
    BY <2>1, <2>4, <2>5
<1>2. CASE Scan
  <2>1. signals' \in Seq(Signals)
    BY <1>2, CollectionsType DEF Scan
  <2>2. TypeOK'
    BY <1>0, <1>2, <2>1 DEF Scan, TypeOK, account, sight, books
  <2>3. PassOK'
    BY <1>0, <1>2 DEF Scan, PassOK, Awaiting, Untouched, account, sight
  <2>4. WithinBudget' /\ TradesLogged'
    BY <1>2, QuietStep DEF Scan, sight
  <2> QED
    BY <2>2, <2>3, <2>4
<1>3. CASE ScanRaises
  <2>1. TypeOK'
    BY <1>0, <1>3 DEF ScanRaises, Idle, TypeOK, account, sight, books
  <2>2. PassOK' /\ WithinBudget' /\ TradesLogged'
    BY <1>3, IdleStep, QuietStep DEF ScanRaises, Idle, books
  <2> QED
    BY <2>1, <2>2
<1>4. CASE Rank
  <2>1. signals \in Seq(Signals)
    BY <1>0 DEF TypeOK
  <2>2. /\ queue' \in Seq(Signals)
        /\ \A m, n \in DOMAIN queue' : m # n => queue'[m].code # queue'[n].code
    BY <1>4, <2>1, RankingHolds DEF Rank
  <2>3. TypeOK'
    BY <1>0, <1>4, <2>2 DEF Rank, TypeOK, account, sight, books
  <2>4. \A n \in DOMAIN queue' : queue'[n].code \in Tickers
    <3>1. \A n \in DOMAIN queue' : queue'[n] \in Signals
      BY <2>2, SignalsIndexed
    <3> QED
      BY <3>1, Zenon DEF Signals
  <2>5. PassOK'
    BY <1>0, <1>4, <2>2, <2>4 DEF Rank, PassOK, Awaiting, Untouched, account, sight
  <2>6. WithinBudget' /\ TradesLogged'
    BY <1>4, QuietStep DEF Rank, sight
  <2> QED
    BY <2>3, <2>5, <2>6
<1>5. CASE Reject
  <2>1. /\ queue' \in Seq(Signals)
        /\ \A n \in DOMAIN queue' : n + 1 \in DOMAIN queue /\ n + 1 # 1 /\ queue'[n] = queue[n + 1]
        /\ queue \in Seq(Signals)
    BY <1>0, <1>5, Dequeued DEF Reject, TypeOK
  <2>2. TypeOK'
    BY <1>0, <1>5, <2>1 DEF Reject, TypeOK, account, sight, books
  <2>3. PassOK'
    <3>1. \A n \in DOMAIN queue' : n \in Nat
      BY <2>1
    <3> QED
      BY <1>0, <1>5, <2>1, <3>1 DEF Reject, PassOK, Awaiting, Untouched, account, sight
  <2>4. WithinBudget' /\ TradesLogged'
    BY <1>5, QuietStep DEF Reject, sight
  <2> QED
    BY <2>2, <2>3, <2>4
<1>6. CASE EndCycle
  <2>1. TypeOK'
    BY <1>0, <1>6 DEF EndCycle, Idle, TypeOK, account, sight, books
  <2>2. PassOK' /\ WithinBudget' /\ TradesLogged'
    BY <1>6, IdleStep, QuietStep DEF EndCycle, Idle, books
  <2> QED
    BY <2>1, <2>2
<1>7. CASE Place
  <2>1. /\ WithinBudget' /\ held' \in [Tickers -> Int] /\ {buying', selling'} \subseteq [Tickers -> Nat]
        /\ unseen' \in [Tickers -> 0..MaxOrders]
        /\ accepted' = accepted + 1 /\ accepted' \in 0..MaxOrders /\ logged' = logged
        /\ \A n \in DOMAIN queue \ {1} : queue[n].code \notin blind => StillUntouched(queue[n].code)
    BY <1>7, AcceptStep DEF Place, memory
  <2>2. proc = "trading" /\ queue # <<>> /\ proc' = "recording" /\ queue' = queue
        /\ signals' = signals /\ unlogged' = unlogged
    BY <1>7 DEF Place, Sending, memory
  <2>3. TypeOK'
    BY <1>0, <1>7, <2>1 DEF Place, TypeOK, memory
  <2>4. PassOK'
    BY <1>0, <1>7, <2>1, <2>2 DEF PassOK, Awaiting, Untouched, StillUntouched, Place, memory
  <2>5. TradesLogged'
    BY <1>0, <2>1, <2>2 DEF TradesLogged, TypeOK
  <2> QED
    BY <2>1, <2>3, <2>4, <2>5
<1>8. ASSUME NEW taken \in BOOLEAN, PlaceFails(taken)
      PROVE  PipelineInv'
  <2>1. /\ queue' \in Seq(Signals) /\ queue' = Tail(queue) /\ proc = "trading" /\ proc' = "trading"
        /\ \A n \in DOMAIN queue' : n + 1 \in DOMAIN queue /\ n + 1 # 1 /\ queue'[n] = queue[n + 1]
        /\ queue \in Seq(Signals) /\ UNCHANGED <<stop, switch, known, signals, blind>>
        /\ Sending
    BY <1>0, <1>8, Dequeued DEF PlaceFails, Sending, TypeOK
  <2>2. \A n \in DOMAIN queue' : n \in Nat
    BY <2>1
  <2>3. CASE taken
    <3>1. Accept /\ unlogged' = unlogged + 1
      BY <1>8, <2>3 DEF PlaceFails
    <3>2. /\ WithinBudget' /\ held' \in [Tickers -> Int] /\ {buying', selling'} \subseteq [Tickers -> Nat]
          /\ unseen' \in [Tickers -> 0..MaxOrders]
          /\ accepted' = accepted + 1 /\ accepted' \in 0..MaxOrders /\ logged' = logged
          /\ \A n \in DOMAIN queue \ {1} : queue[n].code \notin blind => StillUntouched(queue[n].code)
      BY <2>1, <3>1, AcceptStep
    <3>3. TradesLogged'
      BY <1>0, <2>1, <3>1, <3>2 DEF TradesLogged, TypeOK
    <3>4. unlogged' \in 0..MaxOrders
      BY <1>0, <2>1, <3>1, <3>2, Amounts DEF TradesLogged, TypeOK
    <3>5. TypeOK'
      BY <1>0, <2>1, <3>2, <3>4 DEF TypeOK
    <3>6. PassOK'
      BY <1>0, <2>1, <2>2, <3>2 DEF PassOK, Awaiting, Untouched, StillUntouched
    <3> QED
      BY <3>2, <3>3, <3>5, <3>6
  <2>4. CASE ~ taken
    <3>1. UNCHANGED <<account, unseen, books>>
      BY <1>8, <2>4 DEF PlaceFails
    <3>2. TypeOK'
      BY <1>0, <2>1, <3>1 DEF TypeOK, account, sight, books
    <3>3. PassOK'
      BY <1>0, <2>1, <2>2, <3>1 DEF PassOK, Awaiting, Untouched, account
    <3>4. WithinBudget' /\ TradesLogged'
      BY <2>1, <3>1, QuietStep
    <3> QED
      BY <3>2, <3>3, <3>4
  <2> QED
    BY <2>3, <2>4
<1>9. CASE Record
  <2>1. queue \in Seq(Signals) /\ queue # <<>> /\ proc = "recording" /\ proc' = "trading"
        /\ queue' = Tail(queue) /\ logged' = logged + 1
        /\ UNCHANGED <<stop, switch, known, signals, account, sight, accepted, unlogged>>
    BY <1>0, <1>9 DEF Record, TypeOK, PassOK
  <2>2. /\ queue' \in Seq(Signals)
        /\ \A n \in DOMAIN queue' : /\ n \in Nat /\ n + 1 \in DOMAIN queue /\ n + 1 # 1
                                    /\ queue'[n] = queue[n + 1]
    <3>1. Len(queue) \in Nat /\ Len(queue) # 0 /\ DOMAIN queue = 1..Len(queue)
      BY <2>1, EmptySeq
    <3>2. queue' \in Seq(Signals) /\ Len(queue') = Len(queue) - 1
          /\ \A n \in 1..Len(queue') : queue'[n] = queue[n + 1]
      BY <2>1, <3>1, HeadTailProperties
    <3> QED
      BY <3>1, <3>2
  <2>3. TradesLogged'
    BY <1>0, <2>1 DEF TradesLogged, TypeOK
  <2>4. logged' \in 0..MaxOrders
    BY <1>0, <2>1, Amounts DEF TradesLogged, TypeOK
  <2>5. TypeOK'
    BY <1>0, <2>1, <2>2, <2>4 DEF TypeOK, account, sight
  <2>6. PassOK'
    BY <1>0, <2>1, <2>2 DEF PassOK, Awaiting, Untouched, account, sight
  <2>7. WithinBudget'
    BY <1>0, <2>1 DEF WithinBudget, account, sight
  <2> QED
    BY <2>3, <2>5, <2>6, <2>7
<1>10. CASE RecordRaises
  <2>1. proc = "recording" /\ unlogged' = unlogged + 1 /\ accepted' = accepted /\ logged' = logged
        /\ proc' = "idle"
    BY <1>10 DEF RecordRaises, Idle
  <2>2. TradesLogged'
    BY <1>0, <2>1 DEF TradesLogged, TypeOK
  <2>3. unlogged' \in 0..MaxOrders
    BY <1>0, <2>1, Amounts DEF TradesLogged, TypeOK
  <2>4. TypeOK'
    BY <1>0, <1>10, <2>3 DEF RecordRaises, Idle, TypeOK, account
  <2>5. PassOK' /\ WithinBudget'
    BY <1>10, IdleStep DEF RecordRaises
  <2> QED
    BY <2>2, <2>4, <2>5
<1> QED
  BY <1>1, <1>2, <1>3, <1>4, <1>5, <1>6, <1>7, <1>8, <1>9, <1>10 DEF Cycle

(* The broker moves a ticker's order into its position, the end of the day   *)
(* drops what rests, and a hand empties a position.                          *)
LEMMA AccountStep ==
    ASSUME PipelineInv, UNCHANGED <<proc, stop, switch, memory, sight, books>>,
           held' \in [Tickers -> Int], {buying', selling'} \subseteq [Tickers -> Nat],
           \A c \in Tickers :
              \/ held'[c] = held[c] /\ buying'[c] \in {buying[c], 0} /\ selling'[c] \in {selling[c], 0}
              \/ held'[c] = held[c] + buying[c] /\ buying'[c] = 0 /\ selling'[c] = selling[c] /\ buying[c] # 0
              \/ held'[c] = held[c] - selling[c] /\ selling'[c] = 0 /\ buying'[c] = buying[c]
              \/ held'[c] = 0 /\ buying'[c] = buying[c] /\ selling'[c] = selling[c]
    PROVE  PipelineInv'
<1>1. TypeOK /\ PassOK /\ WithinBudget /\ TradesLogged
  BY DEF PipelineInv
<1>2. {held, known} \subseteq [Tickers -> Int] /\ {buying, selling} \subseteq [Tickers -> Nat]
      /\ unseen \in [Tickers -> 0..MaxOrders] /\ accepted \in Nat
  BY <1>1, Amounts DEF TypeOK
<1>3. TypeOK'
  BY <1>1 DEF TypeOK, memory, sight, books
<1>4. \A c \in Tickers : Untouched(c) => Untouched(c)'
  <2> SUFFICES ASSUME NEW c \in Tickers, Untouched(c) PROVE Untouched(c)'
    OBVIOUS
  <2>1. held[c] \in Int /\ known[c] \in Int /\ selling[c] \in Nat /\ known' = known
    BY <1>2 DEF memory
  <2> QED
    BY <2>1 DEF Untouched
<1>5. \A n \in DOMAIN queue : queue[n].code \in Tickers
  <2>1. \A n \in DOMAIN queue : queue[n] \in Signals
    BY <1>1, SignalsIndexed DEF TypeOK
  <2> QED
    BY <2>1, Zenon DEF Signals
<1>6. PassOK'
  BY <1>1, <1>4, <1>5 DEF PassOK, Awaiting, memory, sight
<1>7. WithinBudget'
  <2> SUFFICES ASSUME NEW c \in Tickers
               PROVE  /\ 10 * (held'[c] + buying'[c]) < Balance + 10 * Allowance(unseen[c])
                      /\ buying'[c] <= Allowance(unseen[c])
                      /\ selling'[c] - held'[c] <= Budget * accepted
                      /\ selling'[c] <= Budget * accepted
                      /\ unseen[c] <= accepted
    BY DEF WithinBudget, sight, books, Allowance
  <2>1. /\ 10 * (held[c] + buying[c]) < Balance + 10 * Allowance(unseen[c])
        /\ buying[c] <= Allowance(unseen[c])
        /\ selling[c] - held[c] <= Budget * accepted
        /\ selling[c] <= Budget * accepted
        /\ unseen[c] <= accepted
    BY <1>1 DEF WithinBudget
  <2>2. /\ held[c] \in Int /\ buying[c] \in Nat /\ selling[c] \in Nat
        /\ held'[c] \in Int /\ buying'[c] \in Nat /\ selling'[c] \in Nat /\ unseen[c] \in Nat
    BY <1>2
  <2>3. Balance \in Nat /\ Balance > 0 /\ Allowance(unseen[c]) \in Nat /\ Budget * accepted \in Nat
    BY <1>2, <2>2, Amounts, BudgetsAdd DEF Allowance
  <2> DEFINE most == Allowance(unseen[c])
             sent == Budget * accepted
  <2>4. /\ 10 * (held[c] + buying[c]) < Balance + 10 * most /\ buying[c] <= most /\ most \in Nat
        /\ selling[c] - held[c] <= sent /\ selling[c] <= sent /\ sent \in Nat
    BY <2>1, <2>3
  <2> SUFFICES /\ 10 * (held'[c] + buying'[c]) < Balance + 10 * most /\ buying'[c] <= most
               /\ selling'[c] - held'[c] <= sent /\ selling'[c] <= sent
    BY <2>1
  <2> HIDE DEF most, sent
  <2> QED
    BY <2>2, <2>3, <2>4
<1>8. TradesLogged'
  BY <1>1 DEF TradesLogged, books
<1> QED
  BY <1>3, <1>6, <1>7, <1>8 DEF PipelineInv

LEMMA NextInv == ASSUME PipelineInv, [Next]_vars PROVE PipelineInv'
<1>0. /\ TypeOK /\ PassOK /\ WithinBudget /\ TradesLogged
      /\ <<>> \in Seq(Signals) /\ Flat \in [Tickers -> Int] /\ \A c \in Tickers : Flat[c] = 0
      /\ {held, known} \subseteq [Tickers -> Int] /\ {buying, selling} \subseteq [Tickers -> Nat]
  BY DEF PipelineInv, Flat, TypeOK
<1>1. CASE Start
  <2>1. proc = "down" /\ proc' = "idle" /\ signals = <<>> /\ queue = <<>>
    BY <1>0, <1>1 DEF Start, TypeOK
  <2>2. TypeOK'
    BY <1>0, <1>1 DEF Start, TypeOK, account, sight, books
  <2>3. PassOK'
    BY <1>1, <2>1 DEF Start, PassOK, Awaiting
  <2>4. WithinBudget' /\ TradesLogged'
    BY <1>1, <2>1, QuietStep DEF Start, sight
  <2> QED
    BY <2>2, <2>3, <2>4 DEF PipelineInv
<1>2. CASE Cycle
  BY <1>2, CycleInv
<1>3. CASE Shutdown
  <2>1. TypeOK'
    BY <1>0, <1>3 DEF Shutdown, TypeOK, account, books, memory, sight
  <2>2. PassOK'
    BY <1>0, <1>3 DEF Shutdown, PassOK, Awaiting, Untouched, account, memory, sight
  <2>3. WithinBudget' /\ TradesLogged'
    BY <1>3, QuietStep DEF Shutdown, sight
  <2> QED
    BY <2>1, <2>2, <2>3 DEF PipelineInv
<1>4. CASE Exit
  <2>1. TypeOK'
    BY <1>0, <1>4 DEF Exit, TypeOK, account, books, memory, sight
  <2>2. PassOK'
    BY <1>0, <1>4 DEF Exit, PassOK, Awaiting, Untouched, account, memory, sight
  <2>3. WithinBudget' /\ TradesLogged'
    BY <1>4, QuietStep DEF Exit, sight
  <2> QED
    BY <2>1, <2>2, <2>3 DEF PipelineInv
<1>5. CASE Kill
  <2>1. proc' = "down" /\ queue' = <<>> /\ signals' = <<>> /\ blind' = {}
        /\ UNCHANGED <<stop, switch, known, account, unseen, accepted, logged>>
    BY <1>5 DEF Kill
  <2>2. TradesLogged'
    BY <1>0, <1>5, <2>1 DEF Kill, TradesLogged, TypeOK
  <2>3. unlogged' \in 0..MaxOrders
    BY <1>0, <1>5, Amounts DEF Kill, TradesLogged, TypeOK
  <2>4. TypeOK'
    BY <1>0, <2>1, <2>3 DEF TypeOK, account
  <2>5. PassOK'
    BY <2>1 DEF PassOK, Awaiting
  <2>6. WithinBudget'
    BY <1>0, <2>1 DEF WithinBudget, account
  <2> QED
    BY <2>2, <2>4, <2>5, <2>6 DEF PipelineInv
<1>6. CASE DayEnds
  BY <1>0, <1>6, AccountStep DEF DayEnds
<1>7. ASSUME NEW c \in Tickers, Buy(c)
      PROVE  PipelineInv'
  BY <1>0, <1>7, AccountStep DEF Buy
<1>8. ASSUME NEW c \in Tickers, Sell(c)
      PROVE  PipelineInv'
  BY <1>0, <1>8, AccountStep DEF Sell
<1>9. ASSUME NEW c \in Tickers, CloseByHand(c)
      PROVE  PipelineInv'
  BY <1>0, <1>9, AccountStep DEF CloseByHand
<1>10. CASE UNCHANGED vars
  BY <1>0, <1>10, AccountStep DEF vars, account
<1> QED
  BY <1>1, <1>2, <1>3, <1>4, <1>5, <1>6, <1>7, <1>8, <1>9, <1>10 DEF Next

LEMMA PipelineInvariant == Spec => []PipelineInv
<1>1. PipelineInv /\ [Next]_vars => PipelineInv'
  BY NextInv
<1> QED
  BY InitInv, <1>1, PTL DEF Spec

-----------------------------------------------------------------------------
(* The theorems                                                            *)

\* The state of the loop, of the broker's account and of the books keeps its
\* types; between cycles no signal is left over.
THEOREM TypeCorrect == Spec => []TypeOK
<1>1. PipelineInv => TypeOK
  BY DEF PipelineInv
<1> QED
  BY PipelineInvariant, <1>1, PTL

\* For every watchlist, balance and price: a long side stays below a tenth of
\* the balance and one budget more, and one for each buy of a cycle that was
\* shown too little; a short side is no more than a budget for each order.
THEOREM ExposureStaysBounded == Spec => []ExposureBounded
<1>1. PipelineInv => ExposureBounded
  <2> SUFFICES ASSUME PipelineInv, NEW c \in Tickers
               PROVE  /\ 10 * (held[c] + buying[c]) < Balance + 10 * Budget * (1 + unseen[c])
                      /\ selling[c] - held[c] <= Budget * accepted
    BY DEF ExposureBounded
  <2>1. unseen[c] \in Nat
    BY DEF PipelineInv, TypeOK
  <2>2. 10 * Budget * (1 + unseen[c]) = 10 * Allowance(unseen[c])
    BY <2>1, BudgetsAdd DEF Allowance
  <2> QED
    BY <2>2 DEF PipelineInv, WithinBudget
<1> QED
  BY PipelineInvariant, <1>1, PTL

\* Whatever the strategies emit, the ranking has one signal of each ticker that
\* got one, on the side with the better score, best first.
THEOREM RankingIsRight == Spec => []RankedByScore
<1>1. PipelineInv => RankedByScore
  BY RankingHolds DEF PipelineInv, TypeOK, RankedByScore
<1> QED
  BY PipelineInvariant, <1>1, PTL

\* Every accepted order has its row in trades.csv, is being recorded, or was cut
\* off from its row by a lost answer, a failed write or a kill.
THEOREM LogAccounts == Spec => []TradesLogged
<1>1. PipelineInv => TradesLogged
  BY DEF PipelineInv
<1> QED
  BY PipelineInvariant, <1>1, PTL
=============================================================================
