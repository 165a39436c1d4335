------------------------- MODULE Collections_proofs -------------------------
(***************************************************************************)
(* The laws of sums over finite sets and of selections from sequences that *)
(* the other proofs use.  The library's induction theorems take an         *)
(* operator, which the provers cannot instantiate; that strict inclusion   *)
(* and the order of the naturals are well-founded does not.  So each lemma *)
(* takes a minimal counterexample and shows that there is none.            *)
(***************************************************************************)
EXTENDS Collections, FiniteSetTheorems, SequenceTheorems, TLAPS

(* Among the subsets of a finite set that satisfy a condition there is one *)
(* that contains no other.                                                 *)
LEMMA MinimalSubset ==
    ASSUME NEW S, IsFiniteSet(S), NEW T \in SUBSET (SUBSET S), T # {}
    PROVE  \E X \in T : \A Y \in T : Y \subseteq X => Y = X
<1>1. IsWellFoundedOn(StrictSubsetOrdering(S), FiniteSubsetsOf(S))
  BY FS_StrictSubsetOrderingWellFounded
<1>2. FiniteSubsetsOf(S) = SUBSET S
  BY FS_FiniteSubsetsOfFinite
<1>3. T \subseteq FiniteSubsetsOf(S)
  BY <1>2
<1>4. \E x \in T : \A y \in T : ~(<<y, x>> \in StrictSubsetOrdering(S))
  BY <1>1, <1>3, WFMin
<1> QED BY <1>4 DEF StrictSubsetOrdering

(* The element a fold over s takes first.                                  *)
One(s) == CHOOSE x \in s : TRUE

(* It is one of its elements.                                              *)
LEMMA OneIn == ASSUME NEW s, s # {} PROVE One(s) \in s
  BY DEF One

(* g adds up f over every subset of S.                                     *)
SumsUp(f, S, g) ==
    g = [s \in SUBSET S |-> IF s = {} THEN 0
                            ELSE f[One(s)] + g[s \ {One(s)}]]

(* Sum is the fold of the community modules.                               *)
LEMMA SumUnfolds ==
    ASSUME NEW f, NEW S
    PROVE  SumOver(f, S) = (CHOOSE g : SumsUp(f, S, g))[S]
  BY DEF SumOver, MapThenSumSet, MapThenFoldSet, SumsUp, One

(* What such a g is at one subset.                                         *)
LEMMA SumsUpAt ==
    ASSUME NEW f, NEW S, NEW g, SumsUp(f, S, g), NEW s \in SUBSET S
    PROVE  g[s] = IF s = {} THEN 0 ELSE f[One(s)] + g[s \ {One(s)}]
  BY DEF SumsUp

(* Two such functions agree: a least subset where they differ cannot be.   *)
LEMMA SumsUpUnique ==
    ASSUME NEW f, NEW S, NEW g, SumsUp(f, S, g),
           NEW T, NEW h, SumsUp(f, T, h), T \subseteq S, IsFiniteSet(T)
    PROVE  g[T] = h[T]
<1> DEFINE Bad == {s \in SUBSET T : g[s] # h[s]}
<1>1. SUFFICES ASSUME Bad # {} PROVE FALSE
  OBVIOUS
<1>a. Bad \in SUBSET (SUBSET T)
  OBVIOUS
<1>2. PICK X \in Bad : \A Y \in Bad : Y \subseteq X => Y = X
  <2> HIDE DEF Bad
  <2> QED BY <1>1, <1>a, MinimalSubset
<1>3. X \in SUBSET T /\ X \in SUBSET S /\ g[X] # h[X]
  BY <1>2
<1>4. X # {}
  BY <1>3, SumsUpAt
<1>5. One(X) \in X
  BY <1>4, OneIn
<1>6. X \ {One(X)} \notin Bad
  BY <1>2, <1>5
<1>7. g[X \ {One(X)}] = h[X \ {One(X)}]
  BY <1>3, <1>6
<1>8. /\ g[X] = f[One(X)] + g[X \ {One(X)}]
      /\ h[X] = f[One(X)] + h[X \ {One(X)}]
  BY <1>3, <1>4, SumsUpAt
<1> QED BY <1>3, <1>7, <1>8

(* Where such functions exist, Sum satisfies its recursion.                *)
LEMMA SumOfSummable ==
    ASSUME NEW f, NEW S, IsFiniteSet(S),
           \A T \in SUBSET S : \E g : SumsUp(f, T, g)
    PROVE  SumOver(f, S) = IF S = {} THEN 0
                       ELSE f[One(S)] + SumOver(f, S \ {One(S)})
<1> DEFINE G(T) == CHOOSE g : SumsUp(f, T, g)
<1>1. ASSUME NEW T \in SUBSET S PROVE SumsUp(f, T, G(T)) /\ SumOver(f, T) = G(T)[T]
  <2>1. \E g : SumsUp(f, T, g)
    OBVIOUS
  <2>2. SumsUp(f, T, G(T))
    BY <2>1
  <2> QED BY <2>2, SumUnfolds
<1>2. SumOver(f, S) = IF S = {} THEN 0 ELSE f[One(S)] + G(S)[S \ {One(S)}]
  <2>1. SumsUp(f, S, G(S)) /\ SumOver(f, S) = G(S)[S]
    BY <1>1
  <2> HIDE DEF G
  <2> QED BY <2>1, SumsUpAt
<1> DEFINE T == S \ {One(S)}
<1>3. T \in SUBSET S /\ IsFiniteSet(T)
  BY FS_Subset
<1>4. G(S)[T] = G(T)[T]
  <2>1. SumsUp(f, S, G(S)) /\ SumsUp(f, T, G(T))
    BY <1>1, <1>3
  <2> HIDE DEF G, T
  <2> QED BY <2>1, <1>3, SumsUpUnique
<1>5. SumOver(f, T) = G(T)[T]
  BY <1>1, <1>3
<1> HIDE DEF G
<1> QED BY <1>2, <1>4, <1>5

(* They exist for every finite set: a least one without cannot be.         *)
LEMMA Summable ==
    ASSUME NEW f, NEW S, IsFiniteSet(S)
    PROVE  \E g : SumsUp(f, S, g)
<1> DEFINE Bad == {T \in SUBSET S : ~ \E g : SumsUp(f, T, g)}
<1>1. SUFFICES ASSUME Bad # {} PROVE FALSE
  OBVIOUS
<1>a. Bad \in SUBSET (SUBSET S)
  OBVIOUS
<1>2. PICK X \in Bad : \A Y \in Bad : Y \subseteq X => Y = X
  <2> HIDE DEF Bad
  <2> QED BY <1>1, <1>a, MinimalSubset
<1>3. X \in SUBSET S /\ ~ \E g : SumsUp(f, X, g)
  BY <1>2
<1>4. ASSUME NEW T \in SUBSET X, T # X
      PROVE  SumOver(f, T) = IF T = {} THEN 0
                         ELSE f[One(T)] + SumOver(f, T \ {One(T)})
  <2>1. \A U \in SUBSET T : \E g : SumsUp(f, U, g)
    BY <1>2, <1>3, <1>4
  <2>2. IsFiniteSet(T)
    BY <1>3, FS_Subset
  <2> QED BY <2>1, <2>2, SumOfSummable
<1> DEFINE h == [s \in SUBSET X |-> IF s = {} THEN 0
                    ELSE f[One(s)] + SumOver(f, s \ {One(s)})]
<1>5. ASSUME NEW s \in SUBSET X, s # {}
      PROVE  h[s \ {One(s)}] = SumOver(f, s \ {One(s)})
  <2>1. One(s) \in s
    BY <1>5, OneIn
  <2>2. s \ {One(s)} \in SUBSET X /\ s \ {One(s)} # X
    BY <2>1
  <2> QED BY <2>2, <1>4
<1>6. h = [s \in SUBSET X |-> IF s = {} THEN 0
              ELSE f[One(s)] + h[s \ {One(s)}]]
  BY <1>5
<1>7. SumsUp(f, X, h)
  <2> HIDE DEF h
  <2> QED BY <1>6 DEF SumsUp
<1> QED BY <1>3, <1>7

(* Sum satisfies its recursion on every finite set.                        *)
LEMMA SumUnroll ==
    ASSUME NEW f, NEW S, IsFiniteSet(S)
    PROVE  SumOver(f, S) = IF S = {} THEN 0
                       ELSE f[One(S)] + SumOver(f, S \ {One(S)})
<1>1. ASSUME NEW T \in SUBSET S PROVE \E g : SumsUp(f, T, g)
  BY FS_Subset, Summable
<1> QED BY <1>1, SumOfSummable

(* A sum of naturals is a natural.                                         *)
LEMMA SumNat ==
    ASSUME NEW D, NEW f \in [D -> Nat], NEW S \in SUBSET D, IsFiniteSet(S)
    PROVE  SumOver(f, S) \in Nat
<1> DEFINE Bad == {T \in SUBSET S : SumOver(f, T) \notin Nat}
<1>1. SUFFICES ASSUME Bad # {} PROVE FALSE
  OBVIOUS
<1>a. Bad \in SUBSET (SUBSET S)
  OBVIOUS
<1>2. PICK X \in Bad : \A Y \in Bad : Y \subseteq X => Y = X
  <2> HIDE DEF Bad
  <2> QED BY <1>1, <1>a, MinimalSubset
<1>3. X \in SUBSET S /\ SumOver(f, X) \notin Nat /\ IsFiniteSet(X)
  BY <1>2, FS_Subset
<1>4. X # {} /\ SumOver(f, X) = f[One(X)] + SumOver(f, X \ {One(X)})
  BY <1>3, SumUnroll
<1>5. One(X) \in X
  BY <1>4, OneIn
<1>6. X \ {One(X)} \notin Bad
  BY <1>2, <1>5
<1>7. SumOver(f, X \ {One(X)}) \in Nat /\ f[One(X)] \in Nat
  BY <1>3, <1>5, <1>6
<1> QED BY <1>3, <1>4, <1>7

(* The order of summation does not matter.                                 *)
LEMMA SumRemove ==
    ASSUME NEW D, NEW f \in [D -> Nat], NEW S \in SUBSET D, IsFiniteSet(S),
           NEW x \in S
    PROVE  SumOver(f, S) = f[x] + SumOver(f, S \ {x})
<1> DEFINE Bad == {T \in SUBSET S :
                     \E y \in T : SumOver(f, T) # f[y] + SumOver(f, T \ {y})}
<1>1. SUFFICES ASSUME Bad # {} PROVE FALSE
  OBVIOUS
<1>a. Bad \in SUBSET (SUBSET S)
  OBVIOUS
<1>2. PICK X \in Bad : \A Y \in Bad : Y \subseteq X => Y = X
  <2> HIDE DEF Bad
  <2> QED BY <1>1, <1>a, MinimalSubset
<1>3. PICK y \in X : SumOver(f, X) # f[y] + SumOver(f, X \ {y})
  BY <1>2
<1>4. X \in SUBSET S /\ X # {} /\ IsFiniteSet(X)
  BY <1>2, <1>3, FS_Subset
<1> DEFINE c == One(X)
<1>5. c \in X /\ SumOver(f, X) = f[c] + SumOver(f, X \ {c})
  BY <1>4, OneIn, SumUnroll
<1> HIDE DEF c
<1>6. y # c
  BY <1>3, <1>5
<1>7. X \ {c} \notin Bad /\ X \ {y} \notin Bad
  BY <1>2, <1>5, <1>3
<1>8. /\ SumOver(f, X \ {c}) = f[y] + SumOver(f, (X \ {c}) \ {y})
      /\ SumOver(f, X \ {y}) = f[c] + SumOver(f, (X \ {y}) \ {c})
  <2>1. y \in X \ {c} /\ c \in X \ {y}
    BY <1>5, <1>6
  <2>2. X \ {c} \in SUBSET S /\ X \ {y} \in SUBSET S
    BY <1>4
  <2> QED BY <1>7, <2>1, <2>2
<1>9. (X \ {c}) \ {y} = (X \ {y}) \ {c}
  OBVIOUS
<1>10. f[c] \in Nat /\ f[y] \in Nat /\ SumOver(f, (X \ {c}) \ {y}) \in Nat
  <2>1. (X \ {c}) \ {y} \in SUBSET D /\ IsFiniteSet((X \ {c}) \ {y})
    BY <1>4, FS_Subset
  <2> QED BY <1>4, <1>5, <2>1, SumNat
<1> QED BY <1>3, <1>5, <1>8, <1>9, <1>10

(* A sum grows with its summands.                                          *)
LEMMA SumLeq ==
    ASSUME NEW D, NEW f \in [D -> Nat], NEW g \in [D -> Nat],
           NEW S \in SUBSET D, IsFiniteSet(S),
           \A x \in S : f[x] <= g[x]
    PROVE  SumOver(f, S) <= SumOver(g, S)
<1> DEFINE Bad == {T \in SUBSET S : ~(SumOver(f, T) <= SumOver(g, T))}
<1>1. SUFFICES ASSUME Bad # {} PROVE FALSE
  OBVIOUS
<1>a. Bad \in SUBSET (SUBSET S)
  OBVIOUS
<1>2. PICK X \in Bad : \A Y \in Bad : Y \subseteq X => Y = X
  <2> HIDE DEF Bad
  <2> QED BY <1>1, <1>a, MinimalSubset
<1>3. X \in SUBSET S /\ ~(SumOver(f, X) <= SumOver(g, X)) /\ IsFiniteSet(X)
  BY <1>2, FS_Subset
<1>4. /\ X # {}
      /\ SumOver(f, X) = f[One(X)] + SumOver(f, X \ {One(X)})
      /\ SumOver(g, X) = g[One(X)] + SumOver(g, X \ {One(X)})
  <2>1. X = {} => SumOver(f, X) = 0 /\ SumOver(g, X) = 0
    BY <1>3, SumUnroll
  <2>2. X # {}
    BY <1>3, <2>1
  <2> QED BY <1>3, <2>2, SumUnroll
<1>5. One(X) \in X
  BY <1>4, OneIn
<1>6. X \ {One(X)} \notin Bad
  BY <1>2, <1>5
<1>7. /\ SumOver(f, X \ {One(X)}) <= SumOver(g, X \ {One(X)})
      /\ f[One(X)] <= g[One(X)]
      /\ f[One(X)] \in Nat /\ g[One(X)] \in Nat
  BY <1>3, <1>5, <1>6
<1>8. /\ SumOver(f, X \ {One(X)}) \in Nat
      /\ SumOver(g, X \ {One(X)}) \in Nat
  <2>1. X \ {One(X)} \in SUBSET D /\ IsFiniteSet(X \ {One(X)})
    BY <1>3, FS_Subset
  <2> QED BY <2>1, SumNat
<1> QED BY <1>3, <1>4, <1>7, <1>8

(* A sum splits along a set.                                               *)
LEMMA SumSplit ==
    ASSUME NEW D, NEW f \in [D -> Nat], NEW S \in SUBSET D, IsFiniteSet(S),
           NEW U
    PROVE  SumOver(f, S) = SumOver(f, S \cap U) + SumOver(f, S \ U)
<1> DEFINE Bad == {T \in SUBSET S :
                     SumOver(f, T) # SumOver(f, T \cap U) + SumOver(f, T \ U)}
<1>1. SUFFICES ASSUME Bad # {} PROVE FALSE
  OBVIOUS
<1>a. Bad \in SUBSET (SUBSET S)
  OBVIOUS
<1>2. PICK X \in Bad : \A Y \in Bad : Y \subseteq X => Y = X
  <2> HIDE DEF Bad
  <2> QED BY <1>1, <1>a, MinimalSubset
<1>3. /\ X \in SUBSET S /\ IsFiniteSet(X)
      /\ SumOver(f, X) # SumOver(f, X \cap U) + SumOver(f, X \ U)
  BY <1>2, FS_Subset
<1>4. X # {}
  <2>1. SumOver(f, {}) = 0
    BY FS_EmptySet, SumUnroll
  <2>2. {} \cap U = {} /\ {} \ U = {}
    OBVIOUS
  <2>3. SumOver(f, {}) = SumOver(f, {} \cap U) + SumOver(f, {} \ U)
    BY <2>1, <2>2
  <2> QED BY <1>3, <2>3
<1>5. PICK c : c \in X
  BY <1>4
<1> DEFINE Y == X \ {c}
<1>6. Y \notin Bad /\ Y \in SUBSET S /\ Y \in SUBSET D /\ IsFiniteSet(Y)
  BY <1>2, <1>3, <1>5, FS_Subset
<1>7. SumOver(f, Y) = SumOver(f, Y \cap U) + SumOver(f, Y \ U)
  BY <1>6
<1>8. SumOver(f, X) = f[c] + SumOver(f, Y)
  BY <1>3, <1>5, SumRemove
<1>9. /\ X \cap U \in SUBSET D /\ IsFiniteSet(X \cap U)
      /\ X \ U \in SUBSET D /\ IsFiniteSet(X \ U)
      /\ Y \cap U \in SUBSET D /\ IsFiniteSet(Y \cap U)
      /\ Y \ U \in SUBSET D /\ IsFiniteSet(Y \ U)
  BY <1>3, FS_Subset
<1>10. /\ SumOver(f, Y \cap U) \in Nat /\ SumOver(f, Y \ U) \in Nat
       /\ f[c] \in Nat
  BY <1>3, <1>5, <1>9, SumNat
<1>11. CASE c \in U
  <2>1. X \ U = Y \ U /\ Y \cap U = (X \cap U) \ {c} /\ c \in X \cap U
    BY <1>11, <1>5
  <2>2. SumOver(f, X \cap U) = f[c] + SumOver(f, Y \cap U)
    BY <2>1, <1>9, SumRemove
  <2>3. SumOver(f, X \ U) = SumOver(f, Y \ U)
    BY <2>1
  <2> HIDE DEF Y
  <2> QED BY <1>3, <1>7, <1>8, <1>10, <2>2, <2>3
<1>12. CASE c \notin U
  <2>1. X \cap U = Y \cap U /\ Y \ U = (X \ U) \ {c} /\ c \in X \ U
    BY <1>12, <1>5
  <2>2. SumOver(f, X \ U) = f[c] + SumOver(f, Y \ U)
    BY <2>1, <1>9, SumRemove
  <2>3. SumOver(f, X \cap U) = SumOver(f, Y \cap U)
    BY <2>1
  <2> HIDE DEF Y
  <2> QED BY <1>3, <1>7, <1>8, <1>10, <2>2, <2>3
<1> QED BY <1>11, <1>12

(* A sum does not shrink when its summands and its domain grow.            *)
LEMMA SumMono ==
    ASSUME NEW D, NEW f \in [D -> Nat], NEW g \in [D -> Nat],
           NEW S \in SUBSET D, IsFiniteSet(S), NEW T \in SUBSET S,
           \A x \in T : f[x] <= g[x]
    PROVE  SumOver(f, T) <= SumOver(g, S)
<1>1. T \in SUBSET D /\ IsFiniteSet(T) /\ S \cap T = T
      /\ IsFiniteSet(S \ T) /\ S \ T \in SUBSET D
  BY FS_Subset
<1>2. SumOver(f, T) <= SumOver(g, T)
  BY <1>1, SumLeq
<1>3. SumOver(g, S) = SumOver(g, T) + SumOver(g, S \ T)
  <2>1. SumOver(g, S) = SumOver(g, S \cap T) + SumOver(g, S \ T)
    BY SumSplit
  <2> QED BY <1>1, <2>1
<1>4. SumOver(f, T) \in Nat /\ SumOver(g, T) \in Nat /\ SumOver(g, S \ T) \in Nat
  BY <1>1, SumNat
<1> QED BY <1>2, <1>3, <1>4

(* Sums of functions that agree are the same.                              *)
LEMMA SumEqual ==
    ASSUME NEW D, NEW f \in [D -> Nat], NEW g \in [D -> Nat],
           NEW S \in SUBSET D, IsFiniteSet(S),
           \A x \in S : f[x] = g[x]
    PROVE  SumOver(f, S) = SumOver(g, S)
<1>1. SumOver(f, S) <= SumOver(g, S) /\ SumOver(g, S) <= SumOver(f, S)
  <2>1. \A x \in S : f[x] <= g[x] /\ g[x] <= f[x]
    OBVIOUS
  <2> QED BY <2>1, SumLeq
<1> QED BY <1>1, SumNat

(* The empty sum is zero, and so is a sum of zeros.                        *)
LEMMA SumEmpty == ASSUME NEW f PROVE SumOver(f, {}) = 0
  BY FS_EmptySet, SumUnroll

(* A sum of zeros.                                                         *)
LEMMA SumZero ==
    ASSUME NEW D, NEW f \in [D -> Nat], NEW S \in SUBSET D, IsFiniteSet(S),
           \A x \in S : f[x] = 0
    PROVE  SumOver(f, S) = 0
<1> DEFINE Bad == {T \in SUBSET S : SumOver(f, T) # 0}
<1>1. SUFFICES ASSUME Bad # {} PROVE FALSE
  OBVIOUS
<1>a. Bad \in SUBSET (SUBSET S)
  OBVIOUS
<1>2. PICK X \in Bad : \A Y \in Bad : Y \subseteq X => Y = X
  <2> HIDE DEF Bad
  <2> QED BY <1>1, <1>a, MinimalSubset
<1>3. X \in SUBSET S /\ SumOver(f, X) # 0 /\ IsFiniteSet(X)
  BY <1>2, FS_Subset
<1>4. X # {} /\ SumOver(f, X) = f[One(X)] + SumOver(f, X \ {One(X)})
  BY <1>3, SumUnroll
<1>5. One(X) \in X
  BY <1>4, OneIn
<1>6. X \ {One(X)} \notin Bad
  BY <1>2, <1>5
<1>7. SumOver(f, X \ {One(X)}) = 0 /\ f[One(X)] = 0
  BY <1>3, <1>5, <1>6
<1> QED BY <1>3, <1>4, <1>7
(* A sum depends on the summands over its set only.                        *)
LEMMA SumCongruent ==
    ASSUME NEW f, NEW g, NEW S, IsFiniteSet(S), \A x \in S : f[x] = g[x]
    PROVE  SumOver(f, S) = SumOver(g, S)
<1> DEFINE Bad == {T \in SUBSET S : SumOver(f, T) # SumOver(g, T)}
<1>1. SUFFICES ASSUME Bad # {} PROVE FALSE
  OBVIOUS
<1>a. Bad \in SUBSET (SUBSET S)
  OBVIOUS
<1>2. PICK X \in Bad : \A Y \in Bad : Y \subseteq X => Y = X
  <2> HIDE DEF Bad
  <2> QED BY <1>1, <1>a, MinimalSubset
<1>3. X \in SUBSET S /\ SumOver(f, X) # SumOver(g, X) /\ IsFiniteSet(X)
  BY <1>2, FS_Subset
<1>4. /\ X # {} /\ SumOver(f, X) = f[One(X)] + SumOver(f, X \ {One(X)})
      /\ SumOver(g, X) = g[One(X)] + SumOver(g, X \ {One(X)})
  BY <1>3, SumUnroll
<1>5. One(X) \in X
  BY <1>4, OneIn
<1>6. X \ {One(X)} \notin Bad
  BY <1>2, <1>5
<1>7. SumOver(f, X \ {One(X)}) = SumOver(g, X \ {One(X)}) /\ f[One(X)] = g[One(X)]
  BY <1>3, <1>5, <1>6
<1> QED BY <1>3, <1>4, <1>7

(* A set of naturals that is not empty has a least member.                 *)
LEMMA LeastMember ==
    ASSUME NEW T \in SUBSET Nat, T # {}
    PROVE  \E n \in T : \A m \in T : n <= m
<1>1. IsWellFoundedOn(OpToRel(<, Nat), Nat)
  BY NatLessThanWellFounded
<1>2. \E n \in T : \A m \in T : ~(<<m, n>> \in OpToRel(<, Nat))
  BY <1>1, WFMin
<1>3. \A m, n \in Nat : m < n => <<m, n>> \in OpToRel(<, Nat)
  BY DEF OpToRel
<1> DEFINE R == OpToRel(<, Nat)
<1>4. /\ \E n \in T : \A m \in T : ~(<<m, n>> \in R)
      /\ \A m, n \in Nat : m < n => <<m, n>> \in R
  BY <1>2, <1>3
<1> HIDE DEF R
<1>5. PICK n \in T : \A m \in T : ~(<<m, n>> \in R)
  BY <1>4
<1>6. ASSUME NEW m \in T PROVE n <= m
  <2>1. ~(m < n)
    BY <1>4, <1>5
  <2> QED BY <2>1
<1> QED BY <1>6
-----------------------------------------------------------------------------
(***************************************************************************)
(* Selections.                                                             *)
(***************************************************************************)
(* g selects from the first k elements, for every k up to n.               *)
SelectsUpTo(s, K, n, g) ==
    g = [k \in 0..n |-> IF k = 0 THEN << >>
                        ELSE IF k \in K THEN Append(g[k - 1], s[k])
                        ELSE g[k - 1]]

(* Selected is what such a function has at the end of the sequence.        *)
LEMMA SelectedUnfolds ==
    ASSUME NEW s, NEW K
    PROVE  Selected(s, K) = (CHOOSE g : SelectsUpTo(s, K, Len(s), g))[Len(s)]
  BY DEF Selected, SelectsUpTo

(* There is such a function.                                               *)
LEMMA SelectsExist ==
    ASSUME NEW s, NEW K, NEW N \in Nat
    PROVE  \E g : SelectsUpTo(s, K, N, g)
<1> DEFINE Bad == {n \in Nat : ~\E g : SelectsUpTo(s, K, n, g)}
<1>1. SUFFICES ASSUME Bad # {} PROVE FALSE
  OBVIOUS
<1>2. PICK n \in Bad : \A i \in Bad : n <= i
  <2>1. Bad \in SUBSET Nat
    OBVIOUS
  <2> HIDE DEF Bad
  <2> QED BY <1>1, <2>1, LeastMember
<1>3. n \in Nat /\ ~\E g : SelectsUpTo(s, K, n, g)
  BY <1>2
<1>4. n # 0
  <2> DEFINE g0 == [k \in 0..0 |-> << >>]
  <2>1. SelectsUpTo(s, K, 0, g0)
    BY DEF SelectsUpTo
  <2> QED BY <1>3, <2>1
<1>5. PICK g : SelectsUpTo(s, K, n - 1, g)
  <2>1. n - 1 \in Nat /\ n - 1 \notin Bad
    BY <1>2, <1>3, <1>4
  <2> QED BY <2>1
<1> DEFINE last == IF n \in K THEN Append(g[n - 1], s[n]) ELSE g[n - 1]
           h == [k \in 0..n |-> IF k = n THEN last ELSE g[k]]
<1>6. \A k \in 0..(n - 1) :
         g[k] = IF k = 0 THEN << >>
                ELSE IF k \in K THEN Append(g[k - 1], s[k]) ELSE g[k - 1]
  BY <1>3, <1>4, <1>5 DEF SelectsUpTo
<1>7. SelectsUpTo(s, K, n, h)
  <2>1. \A k \in 0..n : k # n => h[k] = g[k] /\ k \in 0..(n - 1)
    BY <1>3
  <2>2. h[n] = last
    BY <1>3
  <2>3. n - 1 \in 0..n /\ n - 1 # n
    BY <1>3, <1>4
  <2>4. \A k \in 0..n : k # n /\ k # 0 => k - 1 \in 0..n /\ k - 1 # n
    BY <1>3
  <2> HIDE DEF last
  <2>5. ASSUME NEW k \in 0..n
        PROVE  h[k] = IF k = 0 THEN << >>
                      ELSE IF k \in K THEN Append(h[k - 1], s[k]) ELSE h[k - 1]
    <3>1. CASE k = n
      <4>1. h[n - 1] = g[n - 1]
        BY <2>1, <2>3
      <4> QED BY <1>4, <2>2, <3>1, <4>1 DEF last
    <3>2. CASE k # n
      <4>1. h[k] = g[k] /\ k \in 0..(n - 1)
        BY <2>1, <3>2
      <4>2. k # 0 => h[k - 1] = g[k - 1]
        BY <2>1, <2>4, <3>2
      <4> HIDE DEF h
      <4> QED BY <1>6, <4>1, <4>2
    <3> QED BY <3>1, <3>2
  <2> QED BY <2>5 DEF SelectsUpTo
<1> QED BY <1>3, <1>7

(* What a selection is, step by step.                                      *)
LEMMA SelectedSteps ==
    ASSUME NEW S, NEW s \in Seq(S), NEW K
    PROVE  \E g \in [0..Len(s) -> Seq(S)] :
              /\ Selected(s, K) = g[Len(s)]
              /\ g[0] = << >>
              /\ \A k \in 1..Len(s) :
                    g[k] = IF k \in K THEN Append(g[k - 1], s[k]) ELSE g[k - 1]
<1>1. Len(s) \in Nat
  OBVIOUS
<1> DEFINE g == CHOOSE f : SelectsUpTo(s, K, Len(s), f)
<1>2. SelectsUpTo(s, K, Len(s), g) /\ Selected(s, K) = g[Len(s)]
  BY <1>1, SelectsExist, SelectedUnfolds
<1> HIDE DEF g
<1> DEFINE n == Len(s)
<1>a. n \in Nat /\ SelectsUpTo(s, K, n, g)
  BY <1>1, <1>2
<1>b. \A k \in 0..n :
         g[k] = IF k = 0 THEN << >>
                ELSE IF k \in K THEN Append(g[k - 1], s[k]) ELSE g[k - 1]
  <2> HIDE DEF n
  <2> QED BY <1>a DEF SelectsUpTo
<1>3. /\ g[0] = << >>
      /\ \A k \in 1..Len(s) :
            g[k] = IF k \in K THEN Append(g[k - 1], s[k]) ELSE g[k - 1]
  <2>1. \A k \in 1..n : k \in 0..n /\ k # 0
    BY <1>a
  <2>2. 0 \in 0..n
    BY <1>a
  <2> HIDE DEF n
  <2>3. /\ g[0] = << >>
        /\ \A k \in 1..n :
              g[k] = IF k \in K THEN Append(g[k - 1], s[k]) ELSE g[k - 1]
    BY <1>b, <2>1, <2>2
  <2> QED BY <2>3 DEF n
<1>4. \A k \in 0..Len(s) : g[k] \in Seq(S)
  <2> DEFINE Bad == {k \in 0..Len(s) : g[k] \notin Seq(S)}
  <2>1. SUFFICES ASSUME Bad # {} PROVE FALSE
    OBVIOUS
  <2>2. PICK k \in Bad : \A i \in Bad : k <= i
    <3>1. Bad \in SUBSET Nat
      OBVIOUS
    <3> HIDE DEF Bad
    <3> QED BY <2>1, <3>1, LeastMember
  <2>a. k \in 0..Len(s) /\ g[k] \notin Seq(S)
    BY <2>2
  <2>b. k # 0
    <3>1. g[0] \in Seq(S)
      <4>1. << >> \in Seq(S)
        OBVIOUS
      <4>2. g[0] = << >>
        BY <1>3
      <4> QED BY <4>1, <4>2, Zenon
    <3> QED BY <2>a, <3>1, Zenon
  <2>3. k \in 1..Len(s) /\ g[k] \notin Seq(S)
    BY <2>a, <2>b
  <2>4. g[k - 1] \in Seq(S)
    <3>1. k - 1 \in 0..Len(s) /\ k - 1 \notin Bad
      BY <2>2, <2>3
    <3> QED BY <3>1
  <2>5. s[k] \in S
    BY <2>3
  <2>6. g[k] = Append(g[k - 1], s[k]) \/ g[k] = g[k - 1]
    BY <1>3, <2>3
  <2>7. Append(g[k - 1], s[k]) \in Seq(S)
    BY <2>4, <2>5
  <2> QED BY <2>3, <2>4, <2>6, <2>7
<1>5. g \in [0..Len(s) -> Seq(S)]
  BY <1>2, <1>4 DEF SelectsUpTo
<1> QED BY <1>2, <1>3, <1>5
(* g is a selection from s, step by step.                                  *)
SelectionOf(S, s, K, g) ==
    /\ g \in [0..Len(s) -> Seq(S)]
    /\ Selected(s, K) = g[Len(s)]
    /\ g[0] = << >>
    /\ \A k \in 1..Len(s) :
          g[k] = IF k \in K THEN Append(g[k - 1], s[k]) ELSE g[k - 1]

LEMMA SelectionExists ==
    ASSUME NEW S, NEW s \in Seq(S), NEW K PROVE \E g : SelectionOf(S, s, K, g)
  BY SelectedSteps DEF SelectionOf

(* Selections that agree on the first n elements.                          *)
LEMMA SelectionsAgree ==
    ASSUME NEW S, NEW s \in Seq(S), NEW t \in Seq(S), NEW K, NEW L,
           NEW g, SelectionOf(S, s, K, g), NEW h, SelectionOf(S, t, L, h),
           NEW n \in Nat, n <= Len(s), n <= Len(t),
           \A k \in 1..n : (k \in K <=> k \in L) /\ s[k] = t[k]
    PROVE  g[n] = h[n]
<1> DEFINE Bad == {m \in 0..n : g[m] # h[m]}
<1>1. SUFFICES ASSUME Bad # {} PROVE FALSE
  OBVIOUS
<1>2. PICK m \in Bad : \A i \in Bad : m <= i
  <2>1. Bad \in SUBSET Nat
    OBVIOUS
  <2> HIDE DEF Bad
  <2> QED BY <1>1, <2>1, LeastMember
<1>3. m \in 0..n /\ g[m] # h[m]
  BY <1>2
<1>4. m # 0
  <2>1. g[0] = << >> /\ h[0] = << >>
    BY DEF SelectionOf
  <2> QED BY <1>3, <2>1, Zenon
<1>5. g[m - 1] = h[m - 1]
  <2>1. m - 1 \in 0..n /\ m - 1 \notin Bad
    BY <1>2, <1>3, <1>4
  <2> QED BY <2>1
<1>6. m \in 1..Len(s) /\ m \in 1..Len(t) /\ m \in 1..n
  BY <1>3, <1>4
<1>7. /\ g[m] = IF m \in K THEN Append(g[m - 1], s[m]) ELSE g[m - 1]
      /\ h[m] = IF m \in L THEN Append(h[m - 1], t[m]) ELSE h[m - 1]
  BY <1>6, Zenon DEF SelectionOf
<1>8. (m \in K <=> m \in L) /\ s[m] = t[m]
  BY <1>6
<1> QED BY <1>3, <1>5, <1>7, <1>8, Zenon

(* A selection from batches is one of batches.                             *)
LEMMA SelectedType ==
    ASSUME NEW S, NEW s \in Seq(S), NEW K
    PROVE  Selected(s, K) \in Seq(S)
<1>1. PICK g : SelectionOf(S, s, K, g)
  BY SelectionExists
<1> QED BY <1>1 DEF SelectionOf

(* A selection depends on the positions of the sequence only.              *)
LEMMA SelectedSame ==
    ASSUME NEW S, NEW s \in Seq(S), NEW K, NEW L,
           \A k \in DOMAIN s : k \in K <=> k \in L
    PROVE  Selected(s, K) = Selected(s, L)
<1>1. PICK g : SelectionOf(S, s, K, g)
  BY SelectionExists
<1>2. PICK h : SelectionOf(S, s, L, h)
  BY SelectionExists
<1> DEFINE n == Len(s)
<1>3. n \in Nat /\ n <= Len(s) /\ \A k \in 1..n : k \in K <=> k \in L
  OBVIOUS
<1>4. g[n] = h[n]
  <2> HIDE DEF n
  <2> QED BY <1>1, <1>2, <1>3, SelectionsAgree
<1> QED BY <1>1, <1>2, <1>4 DEF SelectionOf

(* The empty selection.                                                    *)
LEMMA SelectedEmpty ==
    ASSUME NEW K PROVE Selected(<< >>, K) = << >>
<1> DEFINE e == << >>
<1>1. e \in Seq({}) /\ Len(e) = 0
  OBVIOUS
<1> HIDE DEF e
<1>2. PICK g : SelectionOf({}, e, K, g)
  BY <1>1, SelectionExists
<1>3. Selected(e, K) = g[0] /\ g[0] = << >>
  BY <1>1, <1>2 DEF SelectionOf
<1> QED BY <1>3, Zenon DEF e

(* One more element.                                                       *)
LEMMA SelectedAppend ==
    ASSUME NEW S, NEW s \in Seq(S), NEW x \in S, NEW K
    PROVE  Selected(Append(s, x), K) =
              IF Len(s) + 1 \in K THEN Append(Selected(s, K), x)
              ELSE Selected(s, K)
<1> DEFINE t == Append(s, x)
<1>1. t \in Seq(S) /\ Len(t) = Len(s) + 1 /\ t[Len(s) + 1] = x
      /\ \A k \in 1..Len(s) : t[k] = s[k]
  OBVIOUS
<1> HIDE DEF t
<1>2. PICK g : SelectionOf(S, s, K, g)
  BY SelectionExists
<1>3. PICK h : SelectionOf(S, t, K, h)
  BY <1>1, SelectionExists
<1> DEFINE n == Len(s)
<1>4. /\ n \in Nat /\ n <= Len(s) /\ n <= Len(t) /\ Len(t) = n + 1
      /\ \A k \in 1..n : (k \in K <=> k \in K) /\ s[k] = t[k]
  BY <1>1
<1>5. g[n] = h[n]
  <2> HIDE DEF n
  <2>1. t \in Seq(S)
    BY <1>1
  <2>2. /\ n \in Nat /\ n <= Len(s) /\ n <= Len(t)
        /\ \A k \in 1..n : (k \in K <=> k \in K) /\ s[k] = t[k]
    BY <1>4
  <2> QED BY <1>2, <1>3, <2>1, <2>2, SelectionsAgree
<1>6. n + 1 \in 1..Len(t) /\ (n + 1) - 1 = n
  BY <1>4
<1>7. h[n + 1] = IF n + 1 \in K THEN Append(h[n], t[n + 1]) ELSE h[n]
  <2> HIDE DEF n
  <2>1. h[n + 1] = IF n + 1 \in K THEN Append(h[(n + 1) - 1], t[n + 1])
                   ELSE h[(n + 1) - 1]
    BY <1>3, <1>6, Zenon DEF SelectionOf
  <2> QED BY <1>6, <2>1, Zenon
<1>8. Selected(s, K) = g[n] /\ Selected(t, K) = h[n + 1]
  <2>1. Selected(s, K) = g[Len(s)] /\ Selected(t, K) = h[Len(t)]
    BY <1>2, <1>3 DEF SelectionOf
  <2> QED BY <1>4, <2>1
<1> QED BY <1>1, <1>5, <1>7, <1>8, Zenon DEF t

(* The last element is selected too.                                       *)
LEMMA SelectedLast ==
    ASSUME NEW S, NEW s \in Seq(S), s # << >>, NEW K, NEW L, Len(s) \notin K,
           Len(s) \in L, \A k \in 1..(Len(s) - 1) : k \in K <=> k \in L
    PROVE  Selected(s, L) = Append(Selected(s, K), s[Len(s)])
<1> DEFINE n == Len(s)
<1>1. n \in Nat /\ n # 0
  OBVIOUS
<1>2. PICK g : SelectionOf(S, s, K, g)
  BY SelectionExists
<1>3. PICK h : SelectionOf(S, s, L, h)
  BY SelectionExists
<1>4. g[n - 1] = h[n - 1]
  <2> DEFINE m == n - 1
  <2>1. /\ m \in Nat /\ m <= Len(s)
        /\ \A k \in 1..m : (k \in K <=> k \in L) /\ s[k] = s[k]
    BY <1>1
  <2> HIDE DEF m, n
  <2>2. g[m] = h[m]
    BY <1>2, <1>3, <2>1, SelectionsAgree
  <2> QED BY <2>2 DEF m
<1>5. n \in 1..Len(s)
  BY <1>1
<1>6. /\ g[n] = IF n \in K THEN Append(g[n - 1], s[n]) ELSE g[n - 1]
      /\ h[n] = IF n \in L THEN Append(h[n - 1], s[n]) ELSE h[n - 1]
  <2> HIDE DEF n
  <2> QED BY <1>2, <1>3, <1>5, Zenon DEF SelectionOf
<1>7. Selected(s, K) = g[n] /\ Selected(s, L) = h[n]
  BY <1>2, <1>3 DEF SelectionOf
<1> QED BY <1>4, <1>6, <1>7, Zenon
(* The selection of the positions from m to n.                             *)
LEMMA SelectedInterval ==
    ASSUME NEW S, NEW s \in Seq(S), NEW m \in Nat \ {0}, NEW n \in Nat,
           n <= Len(s), m <= n + 1, NEW K,
           \A k \in DOMAIN s : k \in K <=> m <= k /\ k <= n
    PROVE  /\ Len(Selected(s, K)) = n - m + 1
           /\ \A i \in 1..(n - m + 1) : Selected(s, K)[i] = s[m - 1 + i]
<1> DEFINE long(k) == IF k < m THEN 0 ELSE IF k <= n THEN k - m + 1 ELSE n - m + 1
<1>1. PICK g : SelectionOf(S, s, K, g)
  BY SelectionExists
<1> DEFINE good(k) == /\ Len(g[k]) = long(k)
                      /\ \A i \in 1..long(k) : g[k][i] = s[m - 1 + i]
           Bad == {k \in 0..Len(s) : ~good(k)}
<1>2. Bad = {}
  <2>1. SUFFICES ASSUME Bad # {} PROVE FALSE
    OBVIOUS
  <2>2. PICK k \in Bad : \A i \in Bad : k <= i
    <3>1. Bad \in SUBSET Nat
      OBVIOUS
    <3> HIDE DEF Bad
    <3> QED BY <2>1, <3>1, LeastMember
  <2>3. k \in 0..Len(s) /\ ~good(k)
    BY <2>2
  <2>4. k # 0
    <3>1. g[0] = << >>
      BY <1>1 DEF SelectionOf
    <3>2. good(0)
      BY <3>1
    <3> QED BY <2>3, <3>2
  <2>5. good(k - 1)
    <3>1. k - 1 \in 0..Len(s) /\ k - 1 \notin Bad
      BY <2>2, <2>3, <2>4
    <3> QED BY <3>1
  <2>6. k \in 1..Len(s) /\ k - 1 \in 0..Len(s)
    BY <2>3, <2>4
  <2>7. /\ g[k] = IF k \in K THEN Append(g[k - 1], s[k]) ELSE g[k - 1]
        /\ g[k - 1] \in Seq(S) /\ s[k] \in S
    <3>1. g[k] = IF k \in K THEN Append(g[k - 1], s[k]) ELSE g[k - 1]
      BY <1>1, <2>6, Zenon DEF SelectionOf
    <3>2. g[k - 1] \in Seq(S)
      BY <1>1, <2>6, Zenon DEF SelectionOf
    <3> QED BY <2>6, <3>1, <3>2
  <2>8. k \in K <=> m <= k /\ k <= n
    BY <2>6
  <2>9. CASE m <= k /\ k <= n
    <3>1. g[k] = Append(g[k - 1], s[k])
      BY <2>7, <2>8, <2>9
    <3>2. long(k) = long(k - 1) + 1 /\ long(k - 1) = k - m /\ long(k - 1) \in Nat
      BY <2>6, <2>9
    <3>3. Len(g[k - 1]) = long(k - 1)
          /\ \A i \in 1..long(k - 1) : g[k - 1][i] = s[m - 1 + i]
      BY <2>5
    <3> HIDE DEF long
    <3>4. Len(g[k]) = long(k)
      BY <2>7, <3>1, <3>2, <3>3
    <3>5. ASSUME NEW i \in 1..long(k) PROVE g[k][i] = s[m - 1 + i]
      <4>1. CASE i = long(k)
        <5>1. m - 1 + i = k
          BY <2>6, <3>2, <4>1
        <5>2. g[k][i] = s[k]
          BY <2>7, <3>1, <3>2, <3>3, <4>1
        <5> QED BY <5>1, <5>2
      <4>2. CASE i # long(k)
        <5>1. i \in 1..long(k - 1)
          BY <3>2, <4>2
        <5>2. g[k][i] = g[k - 1][i]
          BY <2>7, <3>1, <3>3, <5>1
        <5> QED BY <3>3, <5>1, <5>2
      <4> QED BY <4>1, <4>2
    <3> QED BY <2>3, <3>4, <3>5
  <2>10. CASE ~(m <= k /\ k <= n)
    <3>1. g[k] = g[k - 1]
      BY <2>7, <2>8, <2>10
    <3>2. long(k) = long(k - 1)
      BY <2>6, <2>10
    <3> QED BY <2>3, <2>5, <3>1, <3>2
  <2> QED BY <2>9, <2>10
<1>3. Len(s) \in 0..Len(s) /\ long(Len(s)) = n - m + 1
  OBVIOUS
<1>4. good(Len(s))
  <2> HIDE DEF good
  <2> QED BY <1>2, <1>3
<1>5. Selected(s, K) = g[Len(s)]
  BY <1>1 DEF SelectionOf
<1> HIDE DEF long
<1> QED BY <1>3, <1>4, <1>5

(* The selection without the first element of the sequence.                *)
LEMMA SelectedTail ==
    ASSUME NEW S, NEW s \in Seq(S), s # << >>, NEW K, NEW L,
           \A k \in 1..(Len(s) - 1) : k \in L <=> k + 1 \in K
    PROVE  LET a == Selected(s, K)
               b == Selected(Tail(s), L)
           IN IF 1 \in K
              THEN /\ Len(a) = Len(b) + 1 /\ a[1] = s[1]
                   /\ \A i \in 1..Len(b) : a[i + 1] = b[i]
              ELSE a = b
<1> DEFINE t == Tail(s)  n == Len(s) - 1
<1>1. /\ t \in Seq(S) /\ n \in Nat /\ Len(t) = n /\ Len(s) = n + 1
      /\ \A k \in 1..n : t[k] = s[k + 1] /\ t[k] \in S
  OBVIOUS
<1> HIDE DEF t, n
<1>2. PICK g : SelectionOf(S, s, K, g)
  BY SelectionExists
<1>3. PICK h : SelectionOf(S, t, L, h)
  BY <1>1, SelectionExists
<1> DEFINE Good(a, b) == IF 1 \in K
                         THEN /\ Len(a) = Len(b) + 1 /\ a[1] = s[1]
                              /\ \A i \in 1..Len(b) : a[i + 1] = b[i]
                         ELSE a = b
           Bad == {k \in 0..n : ~Good(g[k + 1], h[k])}
<1>4. Bad = {}
  <2>1. SUFFICES ASSUME Bad # {} PROVE FALSE
    OBVIOUS
  <2>2. PICK k \in Bad : \A i \in Bad : k <= i
    <3>1. Bad \in SUBSET Nat
      OBVIOUS
    <3> HIDE DEF Bad
    <3> QED BY <2>1, <3>1, LeastMember
  <2>3. k \in 0..n /\ ~Good(g[k + 1], h[k])
    BY <2>2
  <2>4. k # 0
    <3>1. g[0] = << >> /\ h[0] = << >>
      BY <1>2, <1>3 DEF SelectionOf
    <3>2. 1 \in 1..Len(s) /\ s[1] \in S
      BY <1>1
    <3>3. g[1] = IF 1 \in K THEN Append(g[0], s[1]) ELSE g[0]
      <4>1. g[1] = IF 1 \in K THEN Append(g[1 - 1], s[1]) ELSE g[1 - 1]
        BY <1>2, <3>2, Zenon DEF SelectionOf
      <4>2. 1 - 1 = 0
        OBVIOUS
      <4> QED BY <4>1, <4>2, Zenon
    <3>4. Good(g[1], h[0])
      <4>1. CASE 1 \in K
        <5>1. g[1] = << s[1] >>
          BY <3>1, <3>3, <4>1
        <5>2. /\ Len(g[1]) = Len(h[0]) + 1 /\ g[1][1] = s[1]
              /\ \A i \in 1..Len(h[0]) : g[1][i + 1] = h[0][i]
          BY <3>1, <5>1
        <5> QED BY <4>1, <5>2
      <4>2. CASE 1 \notin K
        BY <3>1, <3>3, <4>2
      <4> QED BY <4>1, <4>2
    <3> HIDE DEF Good
    <3>5. k = 0 => k + 1 = 1
      OBVIOUS
    <3> QED BY <2>3, <3>4, <3>5, Zenon
  <2>5. Good(g[k], h[k - 1])
    <3>1. k - 1 \in 0..n /\ k - 1 \notin Bad /\ (k - 1) + 1 = k
      <4>1. k - 1 \in 0..n /\ ~(k <= k - 1) /\ (k - 1) + 1 = k
        BY <1>1, <2>3, <2>4
      <4> HIDE DEF Bad
      <4> QED BY <2>2, <4>1
    <3> HIDE DEF Good
    <3>2. Good(g[(k - 1) + 1], h[k - 1])
      BY <3>1, Zenon
    <3> QED BY <3>1, <3>2, Zenon
  <2>6. k \in 1..Len(t) /\ k - 1 \in 0..Len(t) /\ k \in 0..Len(s)
        /\ k + 1 \in 1..Len(s) /\ k \in 1..n /\ (k + 1) - 1 = k
    BY <1>1, <2>3, <2>4
  <2>7. /\ h[k] = IF k \in L THEN Append(h[k - 1], t[k]) ELSE h[k - 1]
        /\ h[k - 1] \in Seq(S) /\ g[k] \in Seq(S)
    BY <1>2, <1>3, <2>6 DEF SelectionOf
  <2>8. g[k + 1] = IF k + 1 \in K THEN Append(g[k], s[k + 1]) ELSE g[k]
    <3>1. g[k + 1] = IF k + 1 \in K THEN Append(g[(k + 1) - 1], s[k + 1])
                     ELSE g[(k + 1) - 1]
      BY <1>2, <2>6, Zenon DEF SelectionOf
    <3> QED BY <2>6, <3>1, Zenon
  <2>9. /\ k \in L <=> k + 1 \in K
        /\ t[k] = s[k + 1] /\ t[k] \in S
    <3>1. k \in 1..(Len(s) - 1)
      BY <1>1, <2>6
    <3> QED BY <1>1, <2>6, <3>1
  <2>10. CASE k \notin L
    <3>1. h[k] = h[k - 1] /\ g[k + 1] = g[k]
      BY <2>7, <2>8, <2>9, <2>10
    <3> HIDE DEF Good
    <3> QED BY <2>3, <2>5, <3>1
  <2>11. CASE k \in L
    <3>1. h[k] = Append(h[k - 1], t[k]) /\ g[k + 1] = Append(g[k], t[k])
      BY <2>7, <2>8, <2>9, <2>11
    <3> DEFINE u == g[k]  v == h[k - 1]  x == t[k]
               a == Append(u, x)  b == Append(v, x)
    <3>2. u \in Seq(S) /\ v \in Seq(S) /\ x \in S /\ Good(u, v)
      BY <2>5, <2>7, <2>9
    <3> HIDE DEF u, v, x
    <3>3. Good(a, b)
      <4>1. CASE 1 \in K
        <5>1. /\ Len(u) = Len(v) + 1 /\ u[1] = s[1]
              /\ \A i \in 1..Len(v) : u[i + 1] = v[i]
              /\ Len(u) \in Nat /\ Len(v) \in Nat
          BY <3>2, <4>1
        <5>2. /\ Len(a) = Len(u) + 1 /\ Len(b) = Len(v) + 1
              /\ a[Len(u) + 1] = x /\ b[Len(v) + 1] = x
              /\ \A i \in 1..Len(u) : a[i] = u[i]
              /\ \A i \in 1..Len(v) : b[i] = v[i]
          BY <3>2
        <5> HIDE DEF a, b
        <5>3. Len(a) = Len(b) + 1 /\ a[1] = s[1]
          BY <5>1, <5>2
        <5>4. ASSUME NEW i \in 1..Len(b) PROVE a[i + 1] = b[i]
          <6>1. CASE i \in 1..Len(v)
            <7>1. i + 1 \in 1..Len(u)
              BY <5>1, <6>1
            <7> QED BY <5>1, <5>2, <6>1, <7>1
          <6>2. CASE i = Len(v) + 1
            <7>1. i + 1 = Len(u) + 1
              BY <5>1, <6>2
            <7> QED BY <5>2, <6>2, <7>1
          <6> QED BY <5>1, <5>2, <6>1, <6>2
        <5> QED BY <4>1, <5>3, <5>4
      <4>2. CASE 1 \notin K
        <5>1. u = v
          BY <3>2, <4>2
        <5> QED BY <4>2, <5>1
      <4> QED BY <4>1, <4>2
    <3> HIDE DEF Good
    <3> QED BY <2>3, <3>1, <3>3 DEF u, v, x
  <2> QED BY <2>10, <2>11
<1>5. Good(g[n + 1], h[n])
  <2>1. n \in 0..n
    BY <1>1
  <2> HIDE DEF Good
  <2> QED BY <1>4, <2>1
<1>6. Selected(s, K) = g[n + 1] /\ Selected(t, L) = h[n]
  <2>1. Selected(s, K) = g[Len(s)] /\ Selected(t, L) = h[Len(t)]
    BY <1>2, <1>3 DEF SelectionOf
  <2> QED BY <1>1, <2>1
<1>7. Good(Selected(s, K), Selected(t, L))
  <2> HIDE DEF Good
  <2> QED BY <1>5, <1>6
<1> QED BY <1>7 DEF t
(* What is selected has what the selected elements have in common.         *)
LEMMA SelectedWithin ==
    ASSUME NEW S, NEW s \in Seq(S), NEW K, NEW T,
           \A k \in DOMAIN s : k \in K => s[k] \in T
    PROVE  Selected(s, K) \in Seq(T)
<1>1. PICK g : SelectionOf(S, s, K, g)
  BY SelectionExists
<1> DEFINE Bad == {k \in 0..Len(s) : g[k] \notin Seq(T)}
<1>2. Bad = {}
  <2>1. SUFFICES ASSUME Bad # {} PROVE FALSE
    OBVIOUS
  <2>2. PICK k \in Bad : \A i \in Bad : k <= i
    <3>1. Bad \in SUBSET Nat
      OBVIOUS
    <3> HIDE DEF Bad
    <3> QED BY <2>1, <3>1, LeastMember
  <2>3. k \in 0..Len(s) /\ g[k] \notin Seq(T)
    BY <2>2
  <2>4. k # 0
    <3>1. << >> \in Seq(T)
      OBVIOUS
    <3>2. g[0] = << >>
      BY <1>1 DEF SelectionOf
    <3> QED BY <2>3, <3>1, <3>2, Zenon
  <2>5. k \in 1..Len(s) /\ k \in DOMAIN s
    BY <2>3, <2>4
  <2>6. g[k] = IF k \in K THEN Append(g[k - 1], s[k]) ELSE g[k - 1]
    BY <1>1, <2>5, Zenon DEF SelectionOf
  <2>7. g[k - 1] \in Seq(T)
    <3>1. k - 1 \in 0..Len(s) /\ k - 1 \notin Bad
      BY <2>2, <2>3, <2>4
    <3> QED BY <3>1
  <2>8. CASE k \in K
    <3>1. s[k] \in T /\ g[k] = Append(g[k - 1], s[k])
      BY <2>5, <2>6, <2>8
    <3>2. Append(g[k - 1], s[k]) \in Seq(T)
      BY <2>7, <3>1
    <3> QED BY <2>3, <3>1, <3>2, Zenon
  <2>9. CASE k \notin K
    BY <2>3, <2>6, <2>7, <2>9, Zenon
  <2> QED BY <2>8, <2>9
<1>3. Len(s) \in 0..Len(s) /\ Len(s) \notin Bad
  BY <1>2
<1>4. g[Len(s)] \in Seq(T)
  BY <1>3
<1> QED BY <1>1, <1>4 DEF SelectionOf
=============================================================================
