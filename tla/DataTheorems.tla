---------------------------- MODULE DataTheorems ---------------------------
(* What SumFunctionOnSet of the community modules computes: the sum over no  *)
(* indices is 0, and an index more adds its value.  Its definition folds the *)
(* indices in an order nobody knows, so that both need an induction over     *)
(* finite sets: PartsInduction, which takes the set of the parts it holds    *)
(* for, and comes from a minimal counterexample.  Then what Ranked lists.    *)
EXTENDS Integers, FiniteSets, Functions, FiniteSetsExt, Ranking, FiniteSetTheorems, WellFoundedInduction, TLAPS

(* Among finite sets one is minimal. *)
LEMMA MinimalSet ==
    ASSUME NEW D, NEW Bad \in SUBSET (SUBSET D), Bad # {}, \A S \in Bad : IsFiniteSet(S)
    PROVE  \E S \in Bad : \A T \in Bad : T \subseteq S => T = S
<1>1. IsWellFoundedOn(StrictSubsetOrdering(D), FiniteSubsetsOf(D))
  BY FS_StrictSubsetOrderingWellFounded
<1>2. Bad \subseteq FiniteSubsetsOf(D)
  BY DEF FiniteSubsetsOf
<1>3. \E S \in Bad : \A T \in Bad : ~ (<<T, S>> \in StrictSubsetOrdering(D))
  BY <1>1, <1>2, WFMin
<1>4. \A S, T \in Bad : T \subseteq S /\ T # S => <<T, S>> \in StrictSubsetOrdering(D)
  BY DEF StrictSubsetOrdering
<1> QED
  BY <1>3, <1>4

LEMMA MinimalPart ==
    ASSUME NEW D, IsFiniteSet(D)
    PROVE  \A Bad \in SUBSET (SUBSET D) :
              Bad # {} => \E S \in Bad : \A T \in Bad : T \subseteq S => T = S
<1> TAKE Bad \in SUBSET (SUBSET D)
<1>1. \A S \in Bad : IsFiniteSet(S)
  BY FS_Subset
<1> QED
  BY <1>1, MinimalSet

(* Induction over the parts of a finite set, the induction hypothesis being  *)
(* the set of the parts it holds for.                                        *)
LEMMA PartsInduction ==
    ASSUME NEW D, IsFiniteSet(D)
    PROVE  \A Good \in SUBSET (SUBSET D) :
              {} \in Good /\ (\A S \in Good : \A y \in D \ S : S \union {y} \in Good)
                => D \in Good
<1> SUFFICES ASSUME NEW Good \in SUBSET (SUBSET D), {} \in Good,
                    \A S \in Good : \A y \in D \ S : S \union {y} \in Good,
                    D \notin Good
             PROVE  FALSE
  OBVIOUS
<1> DEFINE Bad == (SUBSET D) \ Good
<1>1. Bad \in SUBSET (SUBSET D) /\ Bad # {}
  OBVIOUS
<1>2. PICK S \in Bad : \A T \in Bad : T \subseteq S => T = S
  <2> HIDE DEF Bad
  <2> QED
    BY <1>1, MinimalPart
<1>3. PICK y : y \in S
  BY <1>2
<1>4. S \ {y} \in Good
  BY <1>2, <1>3
<1>5. (S \ {y}) \union {y} = S
  BY <1>3
<1>6. y \in D \ (S \ {y})
  BY <1>3
<1> QED
  BY <1>4, <1>5, <1>6

(* A finite set has a member of the highest value. *)
LEMMA HighestExists ==
    ASSUME NEW S, IsFiniteSet(S), S # {}, NEW f, \A x \in S : f[x] \in Int
    PROVE  \E x \in S : \A y \in S : f[y] <= f[x]
<1> DEFINE Has(T) == T # {} => \E x \in T : \A y \in T : f[y] <= f[x]
           Good   == {T \in SUBSET S : Has(T)}
<1>1. {} \in Good
  OBVIOUS
<1>2. ASSUME NEW T \in Good, NEW z \in S \ T
      PROVE  T \union {z} \in Good
  <2>1. CASE T = {}
    <3>1. \A y \in T \union {z} : f[y] <= f[z]
      BY <2>1
    <3> QED
      BY <3>1
  <2>2. CASE T # {}
    <3>1. PICK x \in T : \A y \in T : f[y] <= f[x]
      BY <2>2
    <3>2. CASE f[z] <= f[x]
      <4>1. \A y \in T \union {z} : f[y] <= f[x]
        BY <3>1, <3>2
      <4> QED
        BY <4>1
    <3>3. CASE ~ (f[z] <= f[x])
      <4>1. \A y \in T \union {z} : f[y] <= f[z]
        BY <3>1, <3>3
      <4> QED
        BY <4>1
    <3> QED
      BY <3>2, <3>3
  <2> QED
    BY <2>1, <2>2
<1>3. S \in Good
  <2>1. Good \in SUBSET (SUBSET S)
    OBVIOUS
  <2> HIDE DEF Good
  <2> QED
    BY <1>1, <1>2, <2>1, PartsInduction
<1> QED
  BY <1>3

LEMMA LeastExists ==
    ASSUME NEW S, IsFiniteSet(S), S # {}, S \subseteq Int
    PROVE  \E x \in S : \A y \in S : x <= y
<1> DEFINE f == [x \in S |-> - x]
<1>1. \A x \in S : f[x] = - x /\ f[x] \in Int
  OBVIOUS
<1> HIDE DEF f
<1>2. \E x \in S : \A y \in S : f[y] <= f[x]
  BY <1>1, HighestExists
<1> QED
  BY <1>1, <1>2

LEMMA GreatestExists ==
    ASSUME NEW S, IsFiniteSet(S), S # {}, S \subseteq Int
    PROVE  \E x \in S : \A y \in S : x >= y
<1> DEFINE f == [x \in S |-> x]
<1>1. \A x \in S : f[x] = x /\ f[x] \in Int
  OBVIOUS
<1> HIDE DEF f
<1>2. \E x \in S : \A y \in S : f[y] <= f[x]
  BY <1>1, HighestExists
<1> QED
  BY <1>1, <1>2

-----------------------------------------------------------------------------
(* Folds                                                                     *)

\* F[s] is what a fold has accumulated over a part s of S: pick says which
\* index of s it takes last, and step what it does with it.
IsRun(F, base, step, pick, S) ==
    \A s \in SUBSET S : F[s] = IF s = {} THEN base ELSE step[<<s, F[s \ {pick[s]}]>>]

IsPick(pick, D) == IsFiniteSet(D) /\ \A s \in SUBSET D : s # {} => pick[s] \in s

(* The orders in which FoldLeft and FoldSet take what they fold. *)
LEMMA MaxIsPick ==
    ASSUME NEW D, IsFiniteSet(D), D \subseteq Int
    PROVE  IsPick([s \in SUBSET D |-> Max(s)], D)
<1> SUFFICES ASSUME NEW s \in SUBSET D, s # {}
             PROVE  Max(s) \in s
  BY DEF IsPick
<1>1. IsFiniteSet(s) /\ s \subseteq Int
  BY FS_Subset
<1>2. \E x \in s : \A y \in s : x >= y
  BY <1>1, GreatestExists
<1> QED
  BY <1>2 DEF Max

LEMMA AnyIsPick ==
    ASSUME NEW D, IsFiniteSet(D)
    PROVE  IsPick([s \in SUBSET D |-> CHOOSE x \in s : TRUE], D)
  BY DEF IsPick

(* Induction over the parts a fold goes through. *)
LEMMA RunInduction ==
    ASSUME NEW D, NEW pick, IsPick(pick, D), NEW Good,
           \A s \in SUBSET D : s = {} \/ s \ {pick[s]} \in Good => s \in Good
    PROVE  SUBSET D \subseteq Good
<1> DEFINE Bad == (SUBSET D) \ Good
<1> SUFFICES ASSUME Bad # {}
             PROVE  FALSE
  OBVIOUS
<1>1. PICK s \in Bad : \A t \in Bad : t \subseteq s => t = s
  <2>1. Bad \in SUBSET (SUBSET D)
    OBVIOUS
  <2> HIDE DEF Bad
  <2> QED
    BY <2>1, MinimalPart DEF IsPick
<1>2. s # {} => s \ {pick[s]} \in SUBSET D /\ s \ {pick[s]} # s
  BY DEF IsPick
<1>3. CASE s = {}
  BY <1>3
<1>4. CASE s # {}
  <2>1. s \ {pick[s]} \in Good
    BY <1>1, <1>2, <1>4
  <2> QED
    BY <2>1
<1> QED
  BY <1>3, <1>4

LEMMA PickOfPart ==
    ASSUME NEW D, NEW pick, IsPick(pick, D), NEW S \in SUBSET D
    PROVE  IsPick(pick, S)
  BY FS_Subset DEF IsPick

(* Two runs of a fold agree where both are defined. *)
LEMMA RunsAgree ==
    ASSUME NEW base, NEW step, NEW pick, NEW D, IsPick(pick, D),
           NEW F, IsRun(F, base, step, pick, D), NEW G, IsRun(G, base, step, pick, D)
    PROVE  F[D] = G[D]
<1> DEFINE Good == {s \in SUBSET D : F[s] = G[s]}
<1>1. \A s \in SUBSET D : s = {} \/ s \ {pick[s]} \in Good => s \in Good
  BY DEF IsRun
<1> HIDE DEF Good
<1>2. SUBSET D \subseteq Good
  BY <1>1, RunInduction
<1> QED
  BY <1>2 DEF Good

(* Every fold over a finite set can be run. *)
LEMMA RunExists ==
    ASSUME NEW base, NEW step, NEW pick, NEW D, IsPick(pick, D)
    PROVE  \E F : F = [s \in SUBSET D |-> F[s]] /\ IsRun(F, base, step, pick, D)
<1> DEFINE Run(F, S) == F = [s \in SUBSET S |-> F[s]] /\ IsRun(F, base, step, pick, S)
           Good      == {S \in SUBSET D : \E F : Run(F, S)}
           Bad       == (SUBSET D) \ Good
<1> SUFFICES ASSUME D \notin Good
             PROVE  FALSE
  OBVIOUS
<1>1. PICK S \in Bad : \A T \in Bad : T \subseteq S => T = S
  <2>1. Bad \in SUBSET (SUBSET D) /\ Bad # {}
    OBVIOUS
  <2> HIDE DEF Bad
  <2> QED
    BY <2>1, MinimalPart DEF IsPick
<1> DEFINE Some(T) == CHOOSE F : Run(F, T)
           V(T)    == Some(T)[T]
           next(T) == IF T = {} THEN base ELSE step[<<T, V(T \ {pick[T]})>>]
<1>2. ASSUME NEW T \in SUBSET S, T # S
      PROVE  Run(Some(T), T)
  BY <1>1, <1>2
<1> HIDE DEF Some
<1>3. ASSUME NEW T \in SUBSET S, T # {}
      PROVE  pick[T] \in T /\ T \ {pick[T]} # S /\ T \ {pick[T]} \in SUBSET S
  BY <1>3 DEF IsPick
<1>4. ASSUME NEW T \in SUBSET S, T # S
      PROVE  V(T) = next(T)
  <2>1. V(T) = IF T = {} THEN base ELSE step[<<T, Some(T)[T \ {pick[T]}]>>]
    BY <1>2, <1>4 DEF IsRun
  <2>2. ASSUME T # {}
        PROVE  Some(T)[T \ {pick[T]}] = V(T \ {pick[T]})
    <3> DEFINE U == T \ {pick[T]}
    <3>1. U \in SUBSET T /\ U \in SUBSET S /\ U # S
      BY <1>3, <2>2
    <3>2. IsRun(Some(T), base, step, pick, U)
      BY <1>2, <1>4, <3>1 DEF IsRun
    <3>3. IsRun(Some(U), base, step, pick, U)
      BY <1>2, <3>1
    <3>4. IsPick(pick, U)
      BY <3>1, PickOfPart
    <3> HIDE DEF U
    <3>5. Some(T)[U] = Some(U)[U]
      BY <3>2, <3>3, <3>4, RunsAgree
    <3> QED
      BY <3>5 DEF U
  <2> QED
    BY <2>1, <2>2
<1> HIDE DEF V
<1> DEFINE F == [T \in SUBSET S |-> IF T # S THEN V(T) ELSE next(S)]
<1>5. IsRun(F, base, step, pick, S)
  <2> SUFFICES ASSUME NEW T \in SUBSET S
               PROVE  F[T] = IF T = {} THEN base ELSE step[<<T, F[T \ {pick[T]}]>>]
    BY DEF IsRun
  <2>1. T # {} => F[T \ {pick[T]}] = V(T \ {pick[T]})
    BY <1>3
  <2>2. F[T] = next(T)
    BY <1>4
  <2> QED
    BY <2>1, <2>2
<1>6. F = [s \in SUBSET S |-> F[s]]
  OBVIOUS
<1> HIDE DEF F
<1>7. S \in Good
  BY <1>5, <1>6
<1> QED
  BY <1>7

-----------------------------------------------------------------------------
(* The definition                                                            *)

\* The index a fold takes first.
FirstIndex(s) == CHOOSE x \in s : TRUE

LEMMA FirstIsIn == ASSUME NEW s, s # {} PROVE FirstIndex(s) \in s
  BY DEF FirstIndex

\* F[s] is the fold of the values at the indices s, for every part s of S.
IsFold(F, f, S) ==
    \A s \in SUBSET S : F[s] = IF s = {} THEN 0 ELSE f[FirstIndex(s)] + F[s \ {FirstIndex(s)}]

(* Two folds agree where both are defined. *)
LEMMA FoldsAgree ==
    ASSUME NEW f, NEW S, IsFiniteSet(S), NEW F, IsFold(F, f, S), NEW G, IsFold(G, f, S)
    PROVE  F[S] = G[S]
<1> DEFINE Bad == {s \in SUBSET S : F[s] # G[s]}
<1> SUFFICES ASSUME F[S] # G[S]
             PROVE  FALSE
  OBVIOUS
<1>1. Bad \in SUBSET (SUBSET S) /\ Bad # {}
  OBVIOUS
<1>3. PICK s \in Bad : \A t \in Bad : t \subseteq s => t = s
  <2> HIDE DEF Bad
  <2> QED
    BY <1>1, MinimalPart
<1>4. CASE s = {}
  BY <1>4 DEF IsFold
<1>5. CASE s # {}
  <2>1. FirstIndex(s) \in s
    BY <1>5, FirstIsIn
  <2>2. s \ {FirstIndex(s)} \in SUBSET S /\ s \ {FirstIndex(s)} # s /\ s \ {FirstIndex(s)} \subseteq s
    BY <2>1
  <2>3. F[s \ {FirstIndex(s)}] = G[s \ {FirstIndex(s)}]
    BY <2>2, <1>3
  <2> QED
    BY <1>5, <2>3 DEF IsFold
<1> QED
  BY <1>4, <1>5

LEMMA FoldsOfPart ==
    ASSUME NEW f, NEW S, NEW F, IsFold(F, f, S), NEW T \in SUBSET S
    PROVE  IsFold(F, f, T)
  BY DEF IsFold

(* Every finite set of indices has a fold. *)
LEMMA FoldExists ==
    ASSUME NEW D, IsFiniteSet(D), NEW f \in [D -> Int]
    PROVE  \E F \in [SUBSET D -> Int] : IsFold(F, f, D)
<1> DEFINE pick == [s \in SUBSET D |-> FirstIndex(s)]
           step == [p \in (SUBSET D) \X Int |-> f[FirstIndex(p[1])] + p[2]]
<1>1. IsPick(pick, D)
  BY FirstIsIn DEF IsPick
<1>2. ASSUME NEW s \in SUBSET D, s # {}, NEW a \in Int
      PROVE  step[<<s, a>>] = f[FirstIndex(s)] + a /\ step[<<s, a>>] \in Int
  BY <1>2, FirstIsIn
<1>3. \A s \in SUBSET D : pick[s] = FirstIndex(s)
  OBVIOUS
<1> HIDE DEF step, pick
<1>4. PICK F : F = [s \in SUBSET D |-> F[s]] /\ IsRun(F, 0, step, pick, D)
  BY <1>1, RunExists
<1> DEFINE Good == {s \in SUBSET D : F[s] \in Int}
<1>5. ASSUME NEW s \in SUBSET D, s = {} \/ s \ {pick[s]} \in Good
      PROVE  s \in Good
  <2>1. F[s] = IF s = {} THEN 0 ELSE step[<<s, F[s \ {pick[s]}]>>]
    BY <1>4 DEF IsRun
  <2>2. CASE s = {}
    BY <2>1, <2>2
  <2>3. CASE s # {}
    <3>1. F[s \ {pick[s]}] \in Int
      BY <1>5, <2>3
    <3> QED
      BY <1>2, <2>1, <2>3, <3>1
  <2> QED
    BY <2>2, <2>3
<1>6. SUBSET D \subseteq Good
  <2> HIDE DEF Good
  <2> QED
    BY <1>1, <1>5, RunInduction
<1>7. F \in [SUBSET D -> Int]
  BY <1>4, <1>6
<1>8. IsFold(F, f, D)
  BY <1>2, <1>3, <1>4, <1>6 DEF IsFold, IsRun
<1> QED
  BY <1>7, <1>8

(* The sum over a finite set is the value there of a fold, whose values are  *)
(* integers if those at the indices are.                                     *)
LEMMA SumIsFold ==
    ASSUME NEW D, IsFiniteSet(D), NEW f, \A x \in D : f[x] \in Int
    PROVE  \E F \in [SUBSET D -> Int] : IsFold(F, f, D) /\ SumFunctionOnSet(f, D) = F[D]
<1> DEFINE iter == CHOOSE iter : iter = [s \in SUBSET D |->
                      IF s = {} THEN 0 ELSE f[CHOOSE x \in s : TRUE] + iter[s \ {CHOOSE x \in s : TRUE}]]
           g    == [x \in D |-> f[x]]
<1>1. SumFunctionOnSet(f, D) = iter[D]
  BY DEF SumFunctionOnSet, FoldFunctionOnSet, MapThenFoldSet
<1>2. PICK F \in [SUBSET D -> Int] : IsFold(F, g, D)
  <2>1. g \in [D -> Int]
    OBVIOUS
  <2> HIDE DEF g
  <2> QED
    BY <2>1, FoldExists
<1>3. IsFold(F, f, D)
  <2> SUFFICES ASSUME NEW s \in SUBSET D
               PROVE  F[s] = IF s = {} THEN 0 ELSE f[FirstIndex(s)] + F[s \ {FirstIndex(s)}]
    BY DEF IsFold
  <2>1. s # {} => g[FirstIndex(s)] = f[FirstIndex(s)]
    BY FirstIsIn
  <2> QED
    BY <1>2, <2>1 DEF IsFold
<1>4. F = [s \in SUBSET D |->
             IF s = {} THEN 0 ELSE f[CHOOSE x \in s : TRUE] + F[s \ {CHOOSE x \in s : TRUE}]]
  BY <1>2, <1>3, Zenon DEF IsFold, FirstIndex
<1>5. iter = [s \in SUBSET D |->
                IF s = {} THEN 0 ELSE f[CHOOSE x \in s : TRUE] + iter[s \ {CHOOSE x \in s : TRUE}]]
  BY <1>4
<1> HIDE DEF iter
<1>6. IsFold(iter, f, D)
  BY <1>5 DEF IsFold, FirstIndex
<1>7. iter[D] = F[D]
  BY <1>3, <1>6, FoldsAgree
<1> QED
  BY <1>1, <1>2, <1>3, <1>7

-----------------------------------------------------------------------------
(* Sums                                                                      *)

LEMMA SumType ==
    ASSUME NEW D, IsFiniteSet(D), NEW f, \A x \in D : f[x] \in Int
    PROVE  SumFunctionOnSet(f, D) \in Int
<1>1. PICK F \in [SUBSET D -> Int] : IsFold(F, f, D) /\ SumFunctionOnSet(f, D) = F[D]
  BY SumIsFold
<1> QED
  BY <1>1

LEMMA SumEmpty == ASSUME NEW f PROVE SumFunctionOnSet(f, {}) = 0
<1>1. IsFiniteSet({}) /\ \A x \in {} : f[x] \in Int
  BY FS_EmptySet
<1>2. PICK F \in [SUBSET {} -> Int] : IsFold(F, f, {}) /\ SumFunctionOnSet(f, {}) = F[{}]
  BY <1>1, SumIsFold
<1> QED
  BY <1>2 DEF IsFold

(* Only the values at the indices matter. *)
LEMMA SumRestricted ==
    ASSUME NEW D, IsFiniteSet(D), NEW f, \A x \in D : f[x] \in Int, NEW g, \A x \in D : g[x] = f[x]
    PROVE  SumFunctionOnSet(g, D) = SumFunctionOnSet(f, D)
<1>1. PICK F \in [SUBSET D -> Int] : IsFold(F, f, D) /\ SumFunctionOnSet(f, D) = F[D]
  BY SumIsFold
<1>2. \A x \in D : g[x] \in Int
  OBVIOUS
<1>3. PICK G \in [SUBSET D -> Int] : IsFold(G, g, D) /\ SumFunctionOnSet(g, D) = G[D]
  BY <1>2, SumIsFold
<1>4. IsFold(G, f, D)
  <2>1. \A s \in SUBSET D : s # {} => g[FirstIndex(s)] = f[FirstIndex(s)]
    BY FirstIsIn
  <2> QED
    BY <1>3, <2>1 DEF IsFold
<1> QED
  BY <1>1, <1>3, <1>4, FoldsAgree

(* The index a fold takes first adds its value to the sum over the others.   *)
LEMMA SumFirst ==
    ASSUME NEW D, IsFiniteSet(D), D # {}, NEW f, \A x \in D : f[x] \in Int
    PROVE  SumFunctionOnSet(f, D) = f[FirstIndex(D)] + SumFunctionOnSet(f, D \ {FirstIndex(D)})
<1> DEFINE E == D \ {FirstIndex(D)}
<1>1. PICK F \in [SUBSET D -> Int] : IsFold(F, f, D) /\ SumFunctionOnSet(f, D) = F[D]
  BY SumIsFold
<1>2. IsFiniteSet(E) /\ E \in SUBSET D /\ \A x \in E : f[x] \in Int
  BY FS_Subset
<1>3. PICK G \in [SUBSET E -> Int] : IsFold(G, f, E) /\ SumFunctionOnSet(f, E) = G[E]
  BY <1>2, SumIsFold
<1>4. IsFold(F, f, E)
  BY <1>1, <1>2, FoldsOfPart
<1>5. F[E] = G[E]
  BY <1>2, <1>3, <1>4, FoldsAgree
<1>6. F[D] = f[FirstIndex(D)] + F[E]
  BY <1>1 DEF IsFold
<1> QED
  BY <1>1, <1>3, <1>5, <1>6

(* So does any other: a smallest set of indices for which it did not would   *)
(* have a first index, without which it does.                                *)
LEMMA SumRemove ==
    ASSUME NEW D, IsFiniteSet(D), NEW f, \A x \in D : f[x] \in Int, NEW y \in D
    PROVE  SumFunctionOnSet(f, D) = f[y] + SumFunctionOnSet(f, D \ {y})
<1> DEFINE Sum(S) == SumFunctionOnSet(f, S)
           Bad    == {S \in SUBSET D : \E x \in S : Sum(S) # f[x] + Sum(S \ {x})}
<1> SUFFICES ASSUME Sum(D) # f[y] + Sum(D \ {y})
             PROVE  FALSE
  OBVIOUS
<1>1. Bad \in SUBSET (SUBSET D) /\ Bad # {}
  OBVIOUS
<1>2. PICK S \in Bad : \A T \in Bad : T \subseteq S => T = S
  <2> HIDE DEF Bad
  <2> QED
    BY <1>1, MinimalPart
<1>3. PICK x \in S : Sum(S) # f[x] + Sum(S \ {x})
  OBVIOUS
<1>4. /\ \A T \in SUBSET D : IsFiniteSet(T) /\ \A z \in T : f[z] \in Int
      /\ \A T \in SUBSET D : Sum(T) \in Int
  <2>1. \A T \in SUBSET D : IsFiniteSet(T) /\ \A z \in T : f[z] \in Int
    BY FS_Subset
  <2> QED
    BY <2>1, SumType
<1> DEFINE h == FirstIndex(S)
<1>5. h \in S /\ Sum(S) = f[h] + Sum(S \ {h})
  BY <1>4, SumFirst, FirstIsIn
<1>6. h # x
  BY <1>3, <1>5
<1> HIDE DEF h, Sum
<1>7. Sum(S \ {h}) = f[x] + Sum((S \ {h}) \ {x})
  <2>1. S \ {h} \in SUBSET D /\ S \ {h} # S /\ S \ {h} \subseteq S /\ x \in S \ {h}
    BY <1>5, <1>6
  <2> QED
    BY <2>1, <1>2
<1>8. Sum(S \ {x}) = f[h] + Sum((S \ {x}) \ {h})
  <2>1. S \ {x} \in SUBSET D /\ S \ {x} # S /\ S \ {x} \subseteq S /\ h \in S \ {x}
    BY <1>5, <1>6
  <2> QED
    BY <2>1, <1>2
<1>9. (S \ {h}) \ {x} = (S \ {x}) \ {h}
  OBVIOUS
<1>10. /\ f[x] \in Int /\ f[h] \in Int /\ Sum((S \ {x}) \ {h}) \in Int
  <2>1. (S \ {x}) \ {h} \in SUBSET D /\ x \in D /\ h \in D
    BY <1>5
  <2> QED
    BY <2>1, <1>4
<1>11. PICK r \in Int : r = Sum((S \ {x}) \ {h})
  BY <1>10
<1>12. Sum(S \ {h}) = f[x] + r /\ Sum(S \ {x}) = f[h] + r
  BY <1>7, <1>8, <1>9, <1>11
<1>13. Sum(S) = f[h] + (f[x] + r) /\ Sum(S) # f[x] + (f[h] + r)
  BY <1>3, <1>5, <1>12
<1> QED
  BY <1>10, <1>13

LEMMA SumAdd ==
    ASSUME NEW D, IsFiniteSet(D), NEW f, NEW y, y \notin D, \A x \in D \union {y} : f[x] \in Int
    PROVE  SumFunctionOnSet(f, D \union {y}) = SumFunctionOnSet(f, D) + f[y]
<1> DEFINE E == D \union {y}
<1>1. IsFiniteSet(E) /\ y \in E /\ E \ {y} = D
  BY FS_AddElement
<1>2. SumFunctionOnSet(f, E) = f[y] + SumFunctionOnSet(f, E \ {y})
  <2> HIDE DEF E
  <2> QED
    BY <1>1, SumRemove DEF E
<1>3. SumFunctionOnSet(f, D) \in Int /\ f[y] \in Int
  BY SumType
<1>4. SumFunctionOnSet(f, E) = f[y] + SumFunctionOnSet(f, D)
  BY <1>1, <1>2
<1> HIDE DEF E
<1> QED
  BY <1>3, <1>4 DEF E

(* A sum changes by what one of its values does. *)
LEMMA SumChanged ==
    ASSUME NEW D, IsFiniteSet(D), NEW f, \A x \in D : f[x] \in Int,
           NEW y \in D, NEW g, g[y] \in Int, \A x \in D : x # y => g[x] = f[x]
    PROVE  SumFunctionOnSet(g, D) = SumFunctionOnSet(f, D) + g[y] - f[y]
<1> DEFINE E == D \ {y}
<1>1. IsFiniteSet(E) /\ \A x \in E : f[x] \in Int /\ g[x] = f[x]
  BY FS_RemoveElement
<1>2. SumFunctionOnSet(g, E) = SumFunctionOnSet(f, E) /\ SumFunctionOnSet(f, E) \in Int
  <2> HIDE DEF E
  <2> QED
    BY <1>1, SumRestricted, SumType
<1>3. \A x \in D : g[x] \in Int
  OBVIOUS
<1>4. SumFunctionOnSet(g, D) = g[y] + SumFunctionOnSet(g, E)
  BY <1>3, SumRemove
<1>5. SumFunctionOnSet(f, D) = f[y] + SumFunctionOnSet(f, E)
  BY SumRemove
<1> QED
  BY <1>2, <1>4, <1>5

(* The sum over two parts is that of their sums. *)
LEMMA SumSplit ==
    ASSUME NEW D, IsFiniteSet(D), NEW E, IsFiniteSet(E), NEW f,
           \A x \in D \union E : f[x] \in Int, \A x \in E : x \notin D
    PROVE  SumFunctionOnSet(f, D \union E) = SumFunctionOnSet(f, D) + SumFunctionOnSet(f, E)
<1> DEFINE Sum(S) == SumFunctionOnSet(f, S)
           Good   == {S \in SUBSET E : Sum(D \union S) = Sum(D) + Sum(S)}
<1>1. {} \in Good
  <2>1. Sum(D) \in Int
    BY SumType
  <2>2. Sum({}) = 0 /\ D \union {} = D
    BY SumEmpty
  <2> QED
    BY <2>1, <2>2
<1>2. ASSUME NEW S \in Good, NEW y \in E \ S
      PROVE  S \union {y} \in Good
  <2>1. PICK P : P = D \union S
    OBVIOUS
  <2>2. IsFiniteSet(S)
    BY FS_Subset
  <2>3. IsFiniteSet(P)
    BY <2>1, <2>2, FS_Union
  <2>4. y \notin P /\ \A x \in P \union {y} : f[x] \in Int
    BY <1>2, <2>1
  <2>5. SumFunctionOnSet(f, P \union {y}) = SumFunctionOnSet(f, P) + f[y]
    BY <2>3, <2>4, SumAdd
  <2>6. y \notin S /\ \A x \in S \union {y} : f[x] \in Int
    BY <1>2
  <2>7. SumFunctionOnSet(f, S \union {y}) = SumFunctionOnSet(f, S) + f[y]
    BY <2>2, <2>6, SumAdd
  <2>8. Sum(D) \in Int /\ Sum(S) \in Int /\ f[y] \in Int
    BY <2>2, <2>6, SumType
  <2>9. P \union {y} = D \union (S \union {y}) /\ Sum(P) = Sum(D) + Sum(S)
    BY <2>1
  <2>10. Sum(D \union (S \union {y})) = Sum(D) + Sum(S \union {y})
    <3>1. Sum(D \union (S \union {y})) = Sum(P) + f[y]
      BY <2>5, <2>9
    <3>2. Sum(S \union {y}) = Sum(S) + f[y]
      BY <2>7
    <3>3. Sum(P) = Sum(D) + Sum(S)
      BY <2>9
    <3> HIDE DEF Sum
    <3> QED
      BY <2>8, <3>1, <3>2, <3>3
  <2> QED
    BY <1>2, <2>10
<1>3. E \in Good
  <2> HIDE DEF Good
  <2>1. Good \in SUBSET (SUBSET E)
    BY DEF Good
  <2> QED
    BY <1>1, <1>2, <2>1, PartsInduction
<1> QED
  BY <1>3

(* Indices whose value is zero add nothing. *)
LEMMA SumZero ==
    ASSUME NEW E, IsFiniteSet(E), NEW f, \A x \in E : f[x] = 0
    PROVE  SumFunctionOnSet(f, E) = 0
<1> DEFINE Good == {S \in SUBSET E : SumFunctionOnSet(f, S) = 0}
<1>1. {} \in Good
  BY SumEmpty
<1>2. ASSUME NEW S \in Good, NEW y \in E \ S
      PROVE  S \union {y} \in Good
  <2>1. IsFiniteSet(S) /\ y \notin S /\ \A x \in S \union {y} : f[x] \in Int
    BY <1>2, FS_Subset
  <2>2. SumFunctionOnSet(f, S \union {y}) = SumFunctionOnSet(f, S) + f[y]
    <3> HIDE DEF Good
    <3> QED
      BY <2>1, SumAdd
  <2>3. f[y] = 0 /\ SumFunctionOnSet(f, S) = 0
    OBVIOUS
  <2>4. SumFunctionOnSet(f, S \union {y}) = 0
    BY <2>2, <2>3
  <2> QED
    BY <1>2, <2>4
<1>3. E \in Good
  <2> HIDE DEF Good
  <2>1. Good \in SUBSET (SUBSET E)
    BY DEF Good
  <2> QED
    BY <1>1, <1>2, <2>1, PartsInduction
<1> QED
  BY <1>3

LEMMA SumOverZeros ==
    ASSUME NEW D, IsFiniteSet(D), NEW E, IsFiniteSet(E), NEW f,
           \A x \in D : f[x] \in Int, \A x \in E : x \notin D /\ f[x] = 0
    PROVE  SumFunctionOnSet(f, D \union E) = SumFunctionOnSet(f, D)
<1>1. SumFunctionOnSet(f, D) \in Int
  BY SumType
<1>2. SumFunctionOnSet(f, E) = 0
  BY SumZero
<1>3. SumFunctionOnSet(f, D \union E) = SumFunctionOnSet(f, D) + SumFunctionOnSet(f, E)
  BY SumSplit
<1> QED
  BY <1>1, <1>2, <1>3

(* Values between 0 and a bound add up to at most that many times the bound. *)
LEMMA SumBounded ==
    ASSUME NEW E, IsFiniteSet(E), NEW f, NEW c \in Nat, \A x \in E : f[x] \in 0..c
    PROVE  SumFunctionOnSet(f, E) \in 0..(c * Cardinality(E))
<1> DEFINE Good == {S \in SUBSET E : SumFunctionOnSet(f, S) \in 0..(c * Cardinality(S))}
<1>1. {} \in Good
  BY SumEmpty, FS_EmptySet
<1>2. ASSUME NEW S \in Good, NEW y \in E \ S
      PROVE  S \union {y} \in Good
  <2>1. IsFiniteSet(S) /\ y \notin S /\ \A x \in S \union {y} : f[x] \in Int
    BY <1>2, FS_Subset
  <2>2. SumFunctionOnSet(f, S \union {y}) = SumFunctionOnSet(f, S) + f[y]
    BY <2>1, SumAdd
  <2>3. PICK n \in Nat : n = Cardinality(S) /\ Cardinality(S \union {y}) = n + 1
    BY <2>1, FS_AddElement, FS_CardinalityType
  <2>4. f[y] \in 0..c /\ SumFunctionOnSet(f, S) \in 0..(c * n)
    BY <1>2, <2>3
  <2>5. c * n \in Nat /\ c * (n + 1) = c * n + c
    OBVIOUS
  <2>6. SumFunctionOnSet(f, S) + f[y] \in 0..(c * n + c)
    <3> HIDE <2>2
    <3> QED
      BY <2>4, <2>5
  <2>7. SumFunctionOnSet(f, S \union {y}) \in 0..(c * Cardinality(S \union {y}))
    BY <2>2, <2>3, <2>5, <2>6
  <2> QED
    BY <1>2, <2>7
<1>3. E \in Good
  <2> HIDE DEF Good
  <2>1. Good \in SUBSET (SUBSET E)
    BY DEF Good
  <2> QED
    BY <1>1, <1>2, <2>1, PartsInduction
<1> QED
  BY <1>3

(* No sum of natural numbers is negative, and a part sums up to no more. *)
LEMMA SumNat ==
    ASSUME NEW E, IsFiniteSet(E), NEW f, \A x \in E : f[x] \in Nat
    PROVE  SumFunctionOnSet(f, E) \in Nat
<1> DEFINE Good == {S \in SUBSET E : SumFunctionOnSet(f, S) \in Nat}
<1>1. {} \in Good
  BY SumEmpty
<1>2. ASSUME NEW S \in Good, NEW y \in E \ S
      PROVE  S \union {y} \in Good
  <2>1. IsFiniteSet(S) /\ y \notin S /\ \A x \in S \union {y} : f[x] \in Int
    BY <1>2, FS_Subset
  <2>2. SumFunctionOnSet(f, S \union {y}) = SumFunctionOnSet(f, S) + f[y]
    BY <2>1, SumAdd
  <2>3. SumFunctionOnSet(f, S \union {y}) \in Nat
    BY <2>2
  <2> QED
    BY <1>2, <2>3
<1>3. E \in Good
  <2> HIDE DEF Good
  <2>1. Good \in SUBSET (SUBSET E)
    BY DEF Good
  <2> QED
    BY <1>1, <1>2, <2>1, PartsInduction
<1> QED
  BY <1>3

LEMMA SumOfPart ==
    ASSUME NEW D, IsFiniteSet(D), NEW f, \A x \in D : f[x] \in Nat, NEW S \in SUBSET D
    PROVE  SumFunctionOnSet(f, S) <= SumFunctionOnSet(f, D)
<1> PICK R : R = D \ S
  OBVIOUS
<1>1. IsFiniteSet(S) /\ IsFiniteSet(R) /\ S \union R = D
  BY FS_Subset
<1>2. /\ \A x \in S \union R : f[x] \in Int
      /\ \A x \in R : x \notin S /\ f[x] \in Nat
      /\ \A x \in S : f[x] \in Int
  OBVIOUS
<1>3. SumFunctionOnSet(f, S \union R) = SumFunctionOnSet(f, S) + SumFunctionOnSet(f, R)
  BY <1>1, <1>2, SumSplit
<1>4. SumFunctionOnSet(f, S) \in Int /\ SumFunctionOnSet(f, R) \in Nat
  BY <1>1, <1>2, SumType, SumNat
<1> QED
  <2>1. SumFunctionOnSet(f, D) = SumFunctionOnSet(f, S) + SumFunctionOnSet(f, R)
    BY <1>1, <1>3
  <2> QED
    BY <1>4, <2>1

(* The sum does not depend on what the indices are called. *)
LEMMA SumRenamed ==
    ASSUME NEW E, IsFiniteSet(E), NEW D, NEW e \in Injection(E, D),
           NEW f, \A x \in D : f[x] \in Int, NEW g, \A x \in E : g[x] = f[e[x]]
    PROVE  SumFunctionOnSet(g, E) = SumFunctionOnSet(f, {e[x] : x \in E})
<1> DEFINE Image(S) == {e[x] : x \in S}
           Good     == {S \in SUBSET E : /\ IsFiniteSet(Image(S))
                                         /\ SumFunctionOnSet(g, S) = SumFunctionOnSet(f, Image(S))}
<1>0. e \in [E -> D] /\ \A x, y \in E : e[x] = e[y] => x = y
  BY DEF Injection, IsInjective
<1>1. {} \in Good
  <2>1. Image({}) = {}
    OBVIOUS
  <2> QED
    BY <2>1, SumEmpty, FS_EmptySet
<1>2. ASSUME NEW S \in Good, NEW y \in E \ S
      PROVE  S \union {y} \in Good
  <2>1. IsFiniteSet(S) /\ y \notin S /\ \A x \in S \union {y} : g[x] \in Int
    BY <1>0, <1>2, FS_Subset
  <2>2. SumFunctionOnSet(g, S \union {y}) = SumFunctionOnSet(g, S) + g[y]
    <3> HIDE DEF Good
    <3> QED
      BY <2>1, SumAdd
  <2>3. PICK T : T = Image(S)
    OBVIOUS
  <2>4. IsFiniteSet(T) /\ e[y] \notin T /\ \A x \in T \union {e[y]} : f[x] \in Int
    BY <1>0, <1>2, <2>3
  <2>5. SumFunctionOnSet(f, T \union {e[y]}) = SumFunctionOnSet(f, T) + f[e[y]]
    <3> HIDE DEF Good
    <3> QED
      BY <2>4, SumAdd
  <2>6. IsFiniteSet(T \union {e[y]})
    BY <2>4, FS_AddElement
  <2>7. Image(S \union {y}) = T \union {e[y]}
    BY <2>3
  <2>8. SumFunctionOnSet(g, S) = SumFunctionOnSet(f, T) /\ g[y] = f[e[y]]
    BY <2>3
  <2>9. SumFunctionOnSet(g, S \union {y}) = SumFunctionOnSet(f, T \union {e[y]})
    BY <2>2, <2>5, <2>8
  <2> QED
    BY <1>2, <2>6, <2>7, <2>9
<1>3. E \in Good
  <2> HIDE DEF Good
  <2>1. Good \in SUBSET (SUBSET E)
    BY DEF Good
  <2> QED
    BY <1>1, <1>2, <2>1, PartsInduction
<1> QED
  BY <1>3

-----------------------------------------------------------------------------
(* Ranks: where the sets of what is not above each member form a chain, and  *)
(* no two members are below each other, Ranked lists every member once.      *)
LEMMA RankedIsBijection ==
    ASSUME NEW S, IsFiniteSet(S), NEW upto, \A x \in S : upto[x] \in SUBSET S /\ x \in upto[x],
           \A x, y \in S : upto[x] \subseteq upto[y] \/ upto[y] \subseteq upto[x],
           \A x, y \in S : x \in upto[y] /\ y \in upto[x] => x = y
    PROVE  /\ Ranked(S, upto) \in Bijection(1..Cardinality(S), S)
           /\ \A n \in 1..Cardinality(S) : /\ Ranked(S, upto)[n] \in S
                                           /\ Cardinality(upto[Ranked(S, upto)[n]]) = n
<1> DEFINE rank == [x \in S |-> Cardinality(upto[x])]
           size == Cardinality(S)
           list == Ranked(S, upto)
<1>1. size \in Nat /\ IsFiniteSet(1..size) /\ Cardinality(1..size) = size
  BY FS_CardinalityType, FS_Interval
<1>2. ASSUME NEW x \in S
      PROVE  IsFiniteSet(upto[x]) /\ rank[x] \in 1..size
  <2>1. IsFiniteSet(upto[x]) /\ Cardinality(upto[x]) <= size /\ Cardinality(upto[x]) \in Nat
    BY FS_Subset, FS_CardinalityType
  <2>2. Cardinality(upto[x]) # 0
    BY <2>1, FS_EmptySet
  <2> QED
    BY <1>1, <2>1, <2>2
<1>3. ASSUME NEW x \in S, NEW y \in S, rank[x] = rank[y]
      PROVE  x = y
  <2>1. Cardinality(upto[x]) = Cardinality(upto[y])
    BY <1>3
  <2>2. upto[x] = upto[y]
    <3>1. CASE upto[x] \subseteq upto[y]
      BY <1>2, <2>1, <3>1, FS_Subset
    <3>2. CASE upto[y] \subseteq upto[x]
      BY <1>2, <2>1, <3>2, FS_Subset
    <3> QED
      BY <3>1, <3>2
  <2> QED
    BY <2>2
<1>4. rank \in Injection(S, 1..size)
  <2>1. rank \in [S -> 1..size]
    BY <1>2
  <2> HIDE DEF rank, size
  <2> QED
    BY <1>3, <2>1 DEF Injection, IsInjective
<1>5. rank \in Surjection(S, 1..size)
  <2> HIDE DEF rank
  <2> QED
    BY <1>1, <1>4, FS_Injection
<1>6. \A n \in 1..size : \E x \in S : rank[x] = n
  <2> HIDE DEF rank, size
  <2> QED
    BY <1>5 DEF Surjection
<1>7. list = [n \in 1..size |-> CHOOSE x \in S : Cardinality(upto[x]) = n]
  BY DEF Ranked
<1>8. \A n \in 1..size : list[n] \in S /\ rank[list[n]] = n
  BY <1>6, <1>7
<1>9. \A x \in S : list[rank[x]] = x
  <2> HIDE DEF rank, list
  <2> QED
    BY <1>2, <1>3, <1>8
<1>10. list \in [1..size -> S]
  BY <1>7, <1>8
<1>13. \A n \in 1..size : list[n] \in S /\ Cardinality(upto[list[n]]) = n
  <2> HIDE DEF size, list
  <2> QED
    BY <1>8
<1> HIDE DEF rank, size, list
<1>11. \A m, n \in 1..size : list[m] = list[n] => m = n
  BY <1>8
<1>12. \A x \in S : \E n \in 1..size : list[n] = x
  BY <1>2, <1>9
<1>14. list \in Bijection(1..size, S)
  BY <1>10, <1>11, <1>12 DEF Bijection, Injection, Surjection, IsInjective
<1> QED
  BY <1>13, <1>14 DEF list, size

(* And what stands before another member is not above it. *)
LEMMA RankedInOrder ==
    ASSUME NEW S, IsFiniteSet(S), NEW upto, \A x \in S : upto[x] \in SUBSET S /\ x \in upto[x],
           \A x, y \in S : upto[x] \subseteq upto[y] \/ upto[y] \subseteq upto[x],
           \A x, y \in S : x \in upto[y] /\ y \in upto[x] => x = y,
           NEW m \in 1..Cardinality(S), NEW n \in 1..Cardinality(S), m < n
    PROVE  /\ Ranked(S, upto)[m] \in upto[Ranked(S, upto)[n]]
           /\ Ranked(S, upto)[m] # Ranked(S, upto)[n]
<1> DEFINE x == Ranked(S, upto)[m]
           y == Ranked(S, upto)[n]
<1>1. x \in S /\ y \in S /\ Cardinality(upto[x]) = m /\ Cardinality(upto[y]) = n
  BY RankedIsBijection
<1> HIDE DEF x, y
<1>2. Cardinality(S) \in Nat /\ IsFiniteSet(upto[x])
  BY <1>1, FS_CardinalityType, FS_Subset
<1>3. ~ (upto[y] \subseteq upto[x])
  BY <1>1, <1>2, FS_Subset
<1>4. x \in upto[y]
  BY <1>1, <1>3
<1>5. x # y
  BY <1>1
<1> QED
  BY <1>4, <1>5 DEF x, y

(* Positions in their order. *)
LEMMA InOrderIsBijection ==
    ASSUME NEW S, IsFiniteSet(S), S \subseteq Nat \ {0}
    PROVE  /\ InOrder(S) \in Bijection(1..Cardinality(S), S)
           /\ \A m, n \in 1..Cardinality(S) : m < n => InOrder(S)[m] < InOrder(S)[n]
<1> DEFINE upto == [n \in S |-> S \intersect (1..n)]
<1>1. \A x \in S : upto[x] \in SUBSET S /\ x \in upto[x]
  OBVIOUS
<1>2. \A x, y \in S : upto[x] \subseteq upto[y] \/ upto[y] \subseteq upto[x]
  OBVIOUS
<1>3. \A x, y \in S : x \in upto[y] /\ y \in upto[x] => x = y
  OBVIOUS
<1>4. \A x, y \in S : x \in upto[y] /\ x # y => x < y
  OBVIOUS
<1>5. InOrder(S) = Ranked(S, upto)
  BY DEF InOrder
<1> HIDE DEF upto
<1>6. Ranked(S, upto) \in Bijection(1..Cardinality(S), S)
  BY <1>1, <1>2, <1>3, RankedIsBijection
<1>7. ASSUME NEW m \in 1..Cardinality(S), NEW n \in 1..Cardinality(S), m < n
      PROVE  Ranked(S, upto)[m] < Ranked(S, upto)[n]
  <2>1. Ranked(S, upto)[m] \in upto[Ranked(S, upto)[n]] /\ Ranked(S, upto)[m] # Ranked(S, upto)[n]
    BY <1>1, <1>2, <1>3, <1>7, RankedInOrder
  <2>2. Ranked(S, upto)[m] \in S /\ Ranked(S, upto)[n] \in S
    BY <1>6 DEF Bijection, Injection
  <2> QED
    BY <1>4, <2>1, <2>2
<1> QED
  BY <1>5, <1>6, <1>7

(* What stands at the positions, and that only what stands there matters. *)
LEMMA AtPositionsType ==
    ASSUME NEW P, IsFiniteSet(P), P \subseteq Nat \ {0}, NEW s
    PROVE  /\ Cardinality(P) \in Nat
           /\ InOrder(P) \in Bijection(1..Cardinality(P), P)
           /\ AtPositions(s, P) = [k \in 1..Cardinality(P) |-> s[InOrder(P)[k]]]
           /\ \A k \in 1..Cardinality(P) : InOrder(P)[k] \in P
<1>1. InOrder(P) \in Bijection(1..Cardinality(P), P) /\ Cardinality(P) \in Nat
  BY InOrderIsBijection, FS_CardinalityType
<1>2. DOMAIN InOrder(P) = 1..Cardinality(P) /\ \A k \in 1..Cardinality(P) : InOrder(P)[k] \in P
  BY <1>1 DEF Bijection, Injection
<1> QED
  BY <1>1, <1>2 DEF AtPositions

LEMMA AtPositionsSame ==
    ASSUME NEW P, IsFiniteSet(P), P \subseteq Nat \ {0}, NEW s, NEW t, \A n \in P : s[n] = t[n]
    PROVE  AtPositions(s, P) = AtPositions(t, P)
<1>1. /\ AtPositions(s, P) = [k \in 1..Cardinality(P) |-> s[InOrder(P)[k]]]
      /\ \A k \in 1..Cardinality(P) : InOrder(P)[k] \in P
  BY AtPositionsType
<1>2. AtPositions(t, P) = [k \in 1..Cardinality(P) |-> t[InOrder(P)[k]]]
  BY AtPositionsType
<1> QED
  BY <1>1, <1>2

(* All the positions of a sequence leave it as it is. *)
LEMMA InOrderOfAll ==
    ASSUME NEW len \in Nat
    PROVE  InOrder(1..len) = [k \in 1..len |-> k]
<1> DEFINE S    == 1..len
           upto == [n \in S |-> S \intersect (1..n)]
<1>1. IsFiniteSet(S) /\ S \subseteq Nat \ {0} /\ Cardinality(S) = len
  <2>1. 1 \in Int /\ len \in Int
    OBVIOUS
  <2>2. IsFiniteSet(S) /\ Cardinality(S) = IF 1 > len THEN 0 ELSE len - 1 + 1
    BY <2>1, FS_Interval
  <2>3. S \subseteq Nat \ {0}
    OBVIOUS
  <2> HIDE DEF S
  <2> QED
    BY <2>2, <2>3
<1>2. ASSUME NEW x \in S
      PROVE  upto[x] = 1..x /\ Cardinality(upto[x]) = x
  <2>1. upto[x] = 1..x /\ 1 \in Int /\ x \in Int /\ x >= 1
    OBVIOUS
  <2>2. Cardinality(1..x) = IF 1 > x THEN 0 ELSE x - 1 + 1
    BY <2>1, FS_Interval
  <2>3. Cardinality(1..x) = x
    BY <2>1, <2>2
  <2> QED
    BY <2>1, <2>3, Zenon
<1>3. /\ \A x \in S : upto[x] \in SUBSET S /\ x \in upto[x]
      /\ \A x, y \in S : upto[x] \subseteq upto[y] \/ upto[y] \subseteq upto[x]
      /\ \A x, y \in S : x \in upto[y] /\ y \in upto[x] => x = y
  OBVIOUS
<1>4. Ranked(S, upto) = InOrder(S) /\ DOMAIN Ranked(S, upto) = 1..Cardinality(S)
      /\ Ranked(S, upto) = [n \in 1..Cardinality(S) |-> Ranked(S, upto)[n]]
  <2>1. Ranked(S, upto) = InOrder(S)
    BY DEF InOrder
  <2> HIDE DEF upto, S
  <2> QED
    BY <2>1 DEF Ranked
<1> HIDE DEF upto, S
<1>5. \A n \in 1..Cardinality(S) : /\ Ranked(S, upto)[n] \in S
                                  /\ Cardinality(upto[Ranked(S, upto)[n]]) = n
  BY <1>1, <1>3, RankedIsBijection
<1>6. \A n \in 1..len : InOrder(S)[n] = n
  BY <1>1, <1>2, <1>4, <1>5
<1>7. InOrder(S) = [k \in 1..len |-> k]
  BY <1>1, <1>4, <1>6
<1> QED
  BY <1>7 DEF S

LEMMA AtAllPositions ==
    ASSUME NEW len \in Nat, NEW s
    PROVE  AtPositions(s, 1..len) = [k \in 1..len |-> s[k]]
  BY InOrderOfAll DEF AtPositions

-----------------------------------------------------------------------------
(* Folds that keep an invariant                                              *)

\* Inv relates a part to what has been accumulated over it: the base has it for
\* the empty part, and a step takes it along.
Carries(Inv, base, step, pick, D) ==
    /\ <<{}, base>> \in Inv
    /\ \A s \in SUBSET D : s # {} =>
          \A a : <<s \ {pick[s]}, a>> \in Inv => <<s, step[<<s, a>>]>> \in Inv

LEMMA RunCarries ==
    ASSUME NEW D, NEW pick, IsPick(pick, D), NEW Inv, NEW G,
           \A s \in SUBSET D :
              s = {} \/ <<s \ {pick[s]}, G[s \ {pick[s]}]>> \in Inv => <<s, G[s]>> \in Inv
    PROVE  \A s \in SUBSET D : <<s, G[s]>> \in Inv
<1> DEFINE Good == {s \in SUBSET D : <<s, G[s]>> \in Inv}
<1>1. \A s \in SUBSET D : s = {} \/ s \ {pick[s]} \in Good => s \in Good
  OBVIOUS
<1> HIDE DEF Good
<1>2. SUBSET D \subseteq Good
  BY <1>1, RunInduction
<1> QED
  BY <1>2 DEF Good

LEMMA FoldCarries ==
    ASSUME NEW D, NEW pick, IsPick(pick, D), NEW Inv, NEW base, NEW step,
           Carries(Inv, base, step, pick, D), NEW F, IsRun(F, base, step, pick, D)
    PROVE  \A s \in SUBSET D : <<s, F[s]>> \in Inv
<1>1. \A s \in SUBSET D :
        s = {} \/ <<s \ {pick[s]}, F[s \ {pick[s]}]>> \in Inv => <<s, F[s]>> \in Inv
  BY DEF IsRun, Carries
<1> QED
  BY <1>1, RunCarries
=============================================================================
