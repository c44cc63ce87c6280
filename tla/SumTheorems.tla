---------------------------- MODULE SumTheorems ----------------------------
(***************************************************************************)
(* The sum of a function's values over a finite set (SumFunctionOnSet of   *)
(* Functions): what it is of the empty set, without a member, after an     *)
(* assignment, and without what counts for nothing.                        *)
(*                                                                         *)
(* The induction is over the set of the subsets for which a statement      *)
(* fails: were it not empty, it would have a member with no smaller one.   *)
(***************************************************************************)
EXTENDS Integers, FiniteSetsExt, FiniteSetTheorems, WellFoundedInduction, TLAPS

(* The member that is added next, and what is left.                        *)
First(s) == CHOOSE x \in s : TRUE
Rest(s) == s \ {First(s)}

(* iter has the sums of f over the subsets of S.                           *)
Sums(f, S, iter) ==
   iter = [s \in SUBSET S |-> IF s = {} THEN 0 ELSE f[First(s)] + iter[Rest(s)]]

(* The definition of the library, which chooses such an iter.               *)
LEMMA SumIsChosen ==
  ASSUME NEW S, NEW f
  PROVE SumFunctionOnSet(f, S) = (CHOOSE iter : Sums(f, S, iter))[S]
BY DEF SumFunctionOnSet, FoldFunctionOnSet, MapThenFoldSet, First, Rest, Sums

(* Every set of subsets of a finite set has one with no smaller in it.     *)
LEMMA SmallestSubset ==
  ASSUME NEW S, IsFiniteSet(S), NEW T \in SUBSET (SUBSET S), T # {}
  PROVE  \E U \in T : \A V \in T : ~(V \subseteq U /\ V # U)
<1>1. IsWellFoundedOn(StrictSubsetOrdering(S), SUBSET S)
  BY FS_StrictSubsetOrderingWellFounded, FS_FiniteSubsetsOfFinite
<1>2. PICK U \in T : \A V \in T : <<V, U>> \notin StrictSubsetOrdering(S)
  BY <1>1, WFMin
<1> QED BY <1>2 DEF StrictSubsetOrdering

LEMMA FirstIsIn ==
  ASSUME NEW s, s # {}
  PROVE /\ First(s) \in s /\ Rest(s) \subseteq s /\ Rest(s) # s
        /\ First(s) \notin Rest(s) /\ s = Rest(s) \cup {First(s)}
BY DEF First, Rest

(* There is at most one sum of a set, whatever larger set it is part of.   *)
LEMMA SumsAgree ==
  ASSUME NEW f, NEW S, IsFiniteSet(S), NEW A, NEW B, S \subseteq A, S \subseteq B,
         NEW g, NEW h, Sums(f, A, g), Sums(f, B, h)
  PROVE  g[S] = h[S]
<1> DEFINE T == {s \in SUBSET S : g[s] # h[s]}
<1>1. SUFFICES ASSUME T # {} PROVE FALSE
  OBVIOUS
<1>0. T \in SUBSET (SUBSET S)
  OBVIOUS
<1>2. PICK U \in T : \A V \in T : ~(V \subseteq U /\ V # U)
  <2> HIDE DEF T
  <2> QED BY <1>0, <1>1, SmallestSubset
<1>3. /\ g[U] = IF U = {} THEN 0 ELSE f[First(U)] + g[Rest(U)]
      /\ h[U] = IF U = {} THEN 0 ELSE f[First(U)] + h[Rest(U)]
  BY <1>2 DEF Sums
<1>4. U # {} /\ Rest(U) \in T
  BY <1>2, <1>3, FirstIsIn
<1> QED BY <1>2, <1>4, FirstIsIn

(* There is one: that of a set's proper subsets, carried one member on.    *)
LEMMA SumsExist ==
  ASSUME NEW f, NEW S, IsFiniteSet(S)
  PROVE  \E iter : Sums(f, S, iter)
<1> DEFINE T == {s \in SUBSET S : ~ \E iter : Sums(f, s, iter)}
<1>0. T \in SUBSET (SUBSET S)
  OBVIOUS
<1>1. SUFFICES ASSUME T # {} PROVE FALSE
  OBVIOUS
<1>2. PICK U \in T : \A V \in T : ~(V \subseteq U /\ V # U)
  <2> HIDE DEF T
  <2> QED BY <1>0, <1>1, SmallestSubset
<1> DEFINE iter == [s \in SUBSET U |->
                      IF s = {} THEN 0 ELSE f[First(s)] + SumFunctionOnSet(f, Rest(s))]
<1>3. ASSUME NEW V \in SUBSET U, V # U
      PROVE  SumFunctionOnSet(f, V) = iter[V]
  <2> DEFINE h == CHOOSE it : Sums(f, V, it)
  <2>1. Sums(f, V, h) /\ SumFunctionOnSet(f, V) = h[V]
    BY <1>2, <1>3, SumIsChosen
  <2>2. h[V] = IF V = {} THEN 0 ELSE f[First(V)] + h[Rest(V)]
    BY <2>1 DEF Sums
  <2>3. CASE V = {}
    BY <2>1, <2>2, <2>3
  <2>4. CASE V # {}
    <3> DEFINE W == Rest(V)
               k == CHOOSE it : Sums(f, W, it)
    <3>1. W \subseteq V /\ W # V /\ W \subseteq U /\ W # U /\ IsFiniteSet(W)
      BY <2>4, <1>2, <1>3, FirstIsIn, FS_Subset
    <3>2. Sums(f, W, k) /\ SumFunctionOnSet(f, W) = k[W]
      BY <1>2, <3>1, SumIsChosen
    <3>3. h[W] = k[W]
      BY <2>1, <3>1, <3>2, SumsAgree
    <3>4. iter[V] = f[First(V)] + SumFunctionOnSet(f, W)
      BY <2>4
    <3>5. h[V] = f[First(V)] + h[W]
      BY <2>2, <2>4
    <3> HIDE DEF iter, h, k, W
    <3> QED BY <2>1, <3>2, <3>3, <3>4, <3>5
  <2> QED BY <2>3, <2>4
<1>4. Sums(f, U, iter)
  <2>1. ASSUME NEW s \in SUBSET U, s # {}
        PROVE  SumFunctionOnSet(f, Rest(s)) = iter[Rest(s)]
    BY <2>1, <1>3, FirstIsIn
  <2> QED BY <2>1 DEF Sums
<1> QED BY <1>2, <1>4

-----------------------------------------------------------------------------
(* The two equations of a sum, and its type.                               *)
LEMMA SumOfNothing ==
  ASSUME NEW f PROVE SumFunctionOnSet(f, {}) = 0
<1>1. Sums(f, {}, CHOOSE iter : Sums(f, {}, iter))
  BY SumsExist, FS_EmptySet
<1> QED BY <1>1, SumIsChosen DEF Sums

LEMMA SumUnfolds ==
  ASSUME NEW f, NEW S, IsFiniteSet(S), S # {}
  PROVE  SumFunctionOnSet(f, S) = f[First(S)] + SumFunctionOnSet(f, Rest(S))
<1> DEFINE h == CHOOSE iter : Sums(f, S, iter)
           k == CHOOSE iter : Sums(f, Rest(S), iter)
<1>1. IsFiniteSet(Rest(S)) /\ Rest(S) \subseteq S
  BY FirstIsIn, FS_Subset
<1>2. Sums(f, S, h) /\ SumFunctionOnSet(f, S) = h[S]
  BY SumsExist, SumIsChosen
<1>3. Sums(f, Rest(S), k) /\ SumFunctionOnSet(f, Rest(S)) = k[Rest(S)]
  BY <1>1, SumsExist, SumIsChosen
<1>4. h[Rest(S)] = k[Rest(S)]
  BY <1>1, <1>2, <1>3, SumsAgree
<1>5. h[S] = f[First(S)] + h[Rest(S)]
  BY <1>2 DEF Sums
<1> QED BY <1>2, <1>3, <1>4, <1>5

LEMMA SumType ==
  ASSUME NEW f, NEW S, IsFiniteSet(S), \A x \in S : f[x] \in Int
  PROVE  SumFunctionOnSet(f, S) \in Int
<1> DEFINE T == {s \in SUBSET S : SumFunctionOnSet(f, s) \notin Int}
<1>0. T \in SUBSET (SUBSET S)
  OBVIOUS
<1>1. SUFFICES ASSUME T # {} PROVE FALSE
  OBVIOUS
<1>2. PICK U \in T : \A V \in T : ~(V \subseteq U /\ V # U)
  <2> HIDE DEF T
  <2> QED BY <1>0, <1>1, SmallestSubset
<1>3. U # {}
  BY <1>2, SumOfNothing
<1>4. First(U) \in S /\ Rest(U) \subseteq U /\ Rest(U) # U /\ IsFiniteSet(U)
  BY <1>2, <1>3, FirstIsIn, FS_Subset
<1>5. SumFunctionOnSet(f, Rest(U)) \in Int
  BY <1>2, <1>4
<1>6. SumFunctionOnSet(f, U) = f[First(U)] + SumFunctionOnSet(f, Rest(U))
  BY <1>3, <1>4, SumUnfolds
<1> QED BY <1>2, <1>4, <1>5, <1>6

(* A sum depends on nothing but the values it adds.                        *)
LEMMA SameSum ==
  ASSUME NEW f, NEW g, NEW S, IsFiniteSet(S), \A x \in S : f[x] = g[x]
  PROVE  SumFunctionOnSet(f, S) = SumFunctionOnSet(g, S)
<1> DEFINE T == {s \in SUBSET S : SumFunctionOnSet(f, s) # SumFunctionOnSet(g, s)}
<1>0. T \in SUBSET (SUBSET S)
  OBVIOUS
<1>1. SUFFICES ASSUME T # {} PROVE FALSE
  OBVIOUS
<1>2. PICK U \in T : \A V \in T : ~(V \subseteq U /\ V # U)
  <2> HIDE DEF T
  <2> QED BY <1>0, <1>1, SmallestSubset
<1>3. U # {}
  BY <1>2, SumOfNothing
<1>4. First(U) \in S /\ Rest(U) \subseteq U /\ Rest(U) # U /\ IsFiniteSet(U)
  BY <1>2, <1>3, FirstIsIn, FS_Subset
<1>5. SumFunctionOnSet(f, Rest(U)) = SumFunctionOnSet(g, Rest(U))
  BY <1>2, <1>4
<1>6. /\ SumFunctionOnSet(f, U) = f[First(U)] + SumFunctionOnSet(f, Rest(U))
      /\ SumFunctionOnSet(g, U) = g[First(U)] + SumFunctionOnSet(g, Rest(U))
  BY <1>3, <1>4, SumUnfolds
<1> QED BY <1>2, <1>4, <1>5, <1>6

(* Any member may be the one that is added last.                           *)
LEMMA SumWithout ==
  ASSUME NEW f, NEW S, IsFiniteSet(S), \A x \in S : f[x] \in Int
  PROVE  \A x \in S : SumFunctionOnSet(f, S) = f[x] + SumFunctionOnSet(f, S \ {x})
<1> DEFINE T == {s \in SUBSET S :
                   \E x \in s :
                      SumFunctionOnSet(f, s) # f[x] + SumFunctionOnSet(f, s \ {x})}
<1>0. T \in SUBSET (SUBSET S)
  OBVIOUS
<1>1. SUFFICES ASSUME T # {} PROVE FALSE
  OBVIOUS
<1>2. PICK U \in T : \A V \in T : ~(V \subseteq U /\ V # U)
  <2> HIDE DEF T
  <2> QED BY <1>0, <1>1, SmallestSubset
<1>3. PICK x \in U : SumFunctionOnSet(f, U) # f[x] + SumFunctionOnSet(f, U \ {x})
  BY <1>2
<1> DEFINE y == First(U)
<1>4. U \subseteq S /\ IsFiniteSet(U) /\ y \in U
  BY <1>2, <1>3, FirstIsIn, FS_Subset
<1>5. SumFunctionOnSet(f, U) = f[y] + SumFunctionOnSet(f, U \ {y})
  BY <1>3, <1>4, SumUnfolds DEF Rest
<1>6. x # y
  BY <1>3, <1>5
<1>7. ASSUME NEW V \in SUBSET U, V # U, NEW z \in V
      PROVE  SumFunctionOnSet(f, V) = f[z] + SumFunctionOnSet(f, V \ {z})
  <2>1. V \in SUBSET S /\ V \notin T
    BY <1>2, <1>4, <1>7
  <2> QED BY <1>7, <2>1
<1>8. SumFunctionOnSet(f, U \ {y}) = f[x] + SumFunctionOnSet(f, (U \ {y}) \ {x})
  BY <1>3, <1>4, <1>6, <1>7
<1>9. SumFunctionOnSet(f, U \ {x}) = f[y] + SumFunctionOnSet(f, (U \ {y}) \ {x})
  <2>1. (U \ {x}) \ {y} = (U \ {y}) \ {x}
    OBVIOUS
  <2> QED BY <1>3, <1>4, <1>6, <1>7, <2>1
<1>10. f[x] \in Int /\ f[y] \in Int /\ SumFunctionOnSet(f, (U \ {y}) \ {x}) \in Int
  BY <1>3, <1>4, SumType, FS_Subset
<1> HIDE DEF T, y
<1> QED BY <1>3, <1>5, <1>8, <1>9, <1>10

(* Where one value changes, the sum changes by as much.                    *)
LEMMA SumChanges ==
  ASSUME NEW S, IsFiniteSet(S), NEW f \in [S -> Int], NEW g \in [S -> Int],
         NEW x \in S, \A y \in S \ {x} : g[y] = f[y]
  PROVE  SumFunctionOnSet(g, S) = SumFunctionOnSet(f, S) - f[x] + g[x]
<1> DEFINE W == S \ {x}
<1>1. IsFiniteSet(W)
  BY FS_Subset
<1>2. /\ SumFunctionOnSet(f, S) = f[x] + SumFunctionOnSet(f, W)
      /\ SumFunctionOnSet(g, S) = g[x] + SumFunctionOnSet(g, W)
  BY SumWithout
<1>3. SumFunctionOnSet(f, W) = SumFunctionOnSet(g, W)
  BY <1>1, SameSum
<1>4. SumFunctionOnSet(f, W) \in Int /\ f[x] \in Int /\ g[x] \in Int
  BY <1>1, SumType
<1>5. QED
  BY <1>2, <1>3, <1>4

(* Members that count for nothing may be left out.                         *)
LEMMA SumOfThose ==
  ASSUME NEW f, NEW S, IsFiniteSet(S), \A x \in S : f[x] \in Int,
         NEW R, R \subseteq S, \A x \in S \ R : f[x] = 0
  PROVE  SumFunctionOnSet(f, S) = SumFunctionOnSet(f, R)
<1> DEFINE T == {s \in SUBSET S : SumFunctionOnSet(f, s) # SumFunctionOnSet(f, s \cap R)}
<1>0. T \in SUBSET (SUBSET S)
  OBVIOUS
<1>1. SUFFICES ASSUME T # {} PROVE FALSE
  BY S \cap R = R
<1>2. PICK U \in T : \A V \in T : ~(V \subseteq U /\ V # U)
  <2> HIDE DEF T
  <2> QED BY <1>0, <1>1, SmallestSubset
<1>3. U # {}
  BY <1>2
<1> DEFINE y == First(U)
           V == U \ {y}
<1>4. U \subseteq S /\ IsFiniteSet(U) /\ IsFiniteSet(U \cap R) /\ y \in U /\ IsFiniteSet(V \cap R)
  BY <1>2, <1>3, FirstIsIn, FS_Subset
<1>5. SumFunctionOnSet(f, U) = f[y] + SumFunctionOnSet(f, V)
  BY <1>3, <1>4, SumUnfolds DEF Rest
<1>6. SumFunctionOnSet(f, V) = SumFunctionOnSet(f, V \cap R)
  BY <1>2, <1>4
<1>7. SumFunctionOnSet(f, V \cap R) \in Int
  BY <1>4, SumType
<1>8. CASE y \in R
  <2>1. (U \cap R) \ {y} = V \cap R
    OBVIOUS
  <2>2. SumFunctionOnSet(f, U \cap R) = f[y] + SumFunctionOnSet(f, (U \cap R) \ {y})
    BY <1>4, <1>8, SumWithout
  <2> QED BY <1>2, <1>5, <1>6, <2>1, <2>2
<1>9. CASE y \notin R
  <2>1. U \cap R = V \cap R
    BY <1>9
  <2>2. f[y] = 0
    BY <1>4, <1>9
  <2> QED BY <1>2, <1>5, <1>6, <1>7, <2>1, <2>2
<1> QED BY <1>8, <1>9
=============================================================================
