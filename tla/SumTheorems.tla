---------------------------- MODULE SumTheorems ----------------------------
(***************************************************************************)
(* Facts about SumFunctionOnSet, the sum of a function over a finite set.  *)
(* The library defines it by a recursive function that removes a chosen    *)
(* element at a time, and proves nothing about it.  Induction over a set   *)
(* is stated here without an operator parameter: a family G of subsets     *)
(* that holds {} and every T all of whose T \ {x} it holds has the whole   *)
(* set, because a smallest subset outside G would contradict that.         *)
(* The last sections have the same for folds of any step, and what else is *)
(* needed of numbers.                                                      *)
(***************************************************************************)
EXTENDS Integers, FiniteSets, FiniteSetsExt, Functions, FiniteSetTheorems, WellFoundedInduction, TLAPS

\* The element the library's fold removes first.
Pick(s) == CHOOSE x \in s : TRUE
\* h satisfies the recursion of the sum on every subset of S.
Unfolds(f, S, h) == h = [s \in SUBSET S |->
    IF s = {} THEN 0 ELSE f[Pick(s)] + h[s \ {Pick(s)}]]
\* The function the library's definition chooses.
Fold(f, S) == CHOOSE h : Unfolds(f, S, h)

\* The sum is the value, at the whole set, of the function chosen for it.
LEMMA SumIsFold == \A f, S : SumFunctionOnSet(f, S) = Fold(f, S)[S]
BY Zenon DEF SumFunctionOnSet, FoldFunctionOnSet, MapThenFoldSet, Fold, Unfolds, Pick

\* What is picked from a set that is not empty is in it.
LEMMA PickIsMember == \A s : s # {} => Pick(s) \in s
BY DEF Pick

\* Among subsets of a finite set some one has no other below it.
LEMMA SmallestOffender ==
    ASSUME NEW S, IsFiniteSet(S), NEW B, B \subseteq SUBSET S, B # {}
    PROVE  \E T \in B : \A U \in B : ~(U \subseteq T /\ U # T)
<1>1. IsWellFoundedOn(StrictSubsetOrdering(S), FiniteSubsetsOf(S))
  BY FS_StrictSubsetOrderingWellFounded
<1>2. B \subseteq FiniteSubsetsOf(S)
  BY FS_Subset DEF FiniteSubsetsOf
<1>3. PICK T \in B : \A U \in B : ~(<<U, T>> \in StrictSubsetOrdering(S))
  <2> DEFINE R == StrictSubsetOrdering(S)
             F == FiniteSubsetsOf(S)
  <2>1. IsWellFoundedOn(R, F)
    BY <1>1
  <2>2. B \subseteq F
    BY <1>2
  <2> HIDE DEF R, F
  <2>3. \E x \in B : \A y \in B : ~ (<<y, x>> \in R)
    BY <2>1, <2>2, WFMin
  <2> QED
    BY <2>3 DEF R
<1> QED
  BY <1>3 DEF StrictSubsetOrdering

\* Induction over a finite set, for a family of subsets.
LEMMA SetInduction ==
    ASSUME NEW S, IsFiniteSet(S), NEW G, {} \in G,
           \A T \in SUBSET S : T # {} /\ (\A x \in T : T \ {x} \in G) => T \in G
    PROVE  S \in G
<1> DEFINE B == {T \in SUBSET S : T \notin G}
<1> SUFFICES ASSUME S \notin G PROVE FALSE
  OBVIOUS
<1>1. B # {} /\ B \subseteq SUBSET S
  OBVIOUS
<1> HIDE DEF B
<1>2. PICK T \in B : \A U \in B : ~(U \subseteq T /\ U # T)
  BY <1>1, SmallestOffender
<1>3. T \in SUBSET S /\ T \notin G
  BY DEF B
<1>4. \A x \in T : T \ {x} \in G
  BY <1>2, <1>3 DEF B
<1> QED
  BY <1>3, <1>4

\* Two functions that satisfy the recursion agree where both are defined.
LEMMA UnfoldingsAgree ==
    ASSUME NEW f, NEW S, NEW h, Unfolds(f, S, h), IsFiniteSet(S),
           NEW T, NEW g, Unfolds(f, T, g), NEW s \in SUBSET S, s \in SUBSET T
    PROVE  h[s] = g[s]
<1> DEFINE G == {u \in SUBSET s : h[u] = g[u]}
<1>1. IsFiniteSet(s)
  BY FS_Subset
<1>2. {} \in G
  BY DEF Unfolds
<1>3. ASSUME NEW u \in SUBSET s, u # {}, \A x \in u : u \ {x} \in G
      PROVE  u \in G
  <2>1. Pick(u) \in u
    BY <1>3, PickIsMember
  <2>2. h[u \ {Pick(u)}] = g[u \ {Pick(u)}]
    BY <2>1, <1>3
  <2>3. h[u] = f[Pick(u)] + h[u \ {Pick(u)}]
    BY <1>3 DEF Unfolds
  <2>4. g[u] = f[Pick(u)] + g[u \ {Pick(u)}]
    BY <1>3 DEF Unfolds
  <2> QED
    BY <2>2, <2>3, <2>4
<1> HIDE DEF G
<1>4. s \in G
  BY <1>1, <1>2, <1>3, SetInduction
<1> QED
  BY <1>4 DEF G

\* On a finite set the recursion has a solution, and Fold is one.
LEMMA UnfoldingExists ==
    ASSUME NEW f, NEW S, IsFiniteSet(S)
    PROVE  Unfolds(f, S, Fold(f, S))
<1> DEFINE B == {T \in SUBSET S : ~ \E h : Unfolds(f, T, h)}
<1>1. SUFFICES ASSUME B # {} PROVE FALSE
  <2>1. B = {} => \E h : Unfolds(f, S, h)
    OBVIOUS
  <2>2. (\E h : Unfolds(f, S, h)) => Unfolds(f, S, Fold(f, S))
    BY Zenon DEF Fold
  <2> QED
    BY <1>1, <2>1, <2>2
<1>2. B \subseteq SUBSET S
  OBVIOUS
<1>3. PICK T \in B : \A U \in B : ~(U \subseteq T /\ U # T)
  <2> HIDE DEF B
  <2> QED
    BY <1>1, <1>2, SmallestOffender
<1>4. T \in SUBSET S /\ ~ \E h : Unfolds(f, T, h)
  OBVIOUS
<1>5. \A U \in SUBSET T : U # T => Unfolds(f, U, Fold(f, U))
  <2> SUFFICES ASSUME NEW U \in SUBSET T, U # T PROVE Unfolds(f, U, Fold(f, U))
    OBVIOUS
  <2>1. U \in SUBSET S /\ U \notin B
    BY <1>3, <1>4
  <2>2. \E h : Unfolds(f, U, h)
    BY <2>1
  <2> QED
    BY <2>2, Zenon DEF Fold
<1> DEFINE g == [s \in SUBSET T |->
                   IF s = {} THEN 0 ELSE f[Pick(s)] + Fold(f, s \ {Pick(s)})[s \ {Pick(s)}]]
<1>6. ASSUME NEW s \in SUBSET T, s # {}
      PROVE  g[s \ {Pick(s)}] = Fold(f, s \ {Pick(s)})[s \ {Pick(s)}]
  <2> DEFINE u == s \ {Pick(s)}
  <2>1. Pick(s) \in s
    BY <1>6, PickIsMember
  <2>2. u \in SUBSET T /\ u # T
    BY <2>1
  <2>3. Unfolds(f, u, Fold(f, u))
    BY <2>2, <1>5
  <2> HIDE DEF u
  <2>4. CASE u = {}
    <3>1. Fold(f, u)[u] = 0
      BY <2>3, <2>4 DEF Unfolds
    <3>2. g[u] = 0
      BY <2>2, <2>4
    <3> QED
      BY <3>1, <3>2 DEF u
  <2>5. CASE u # {}
    <3> DEFINE v == u \ {Pick(u)}
    <3>1. Pick(u) \in u
      BY <2>5, PickIsMember
    <3>2. v \in SUBSET T /\ v # T
      BY <3>1, <2>2
    <3>3. Unfolds(f, v, Fold(f, v))
      BY <3>2, <1>5
    <3>4. g[u] = f[Pick(u)] + Fold(f, v)[v]
      BY <2>2, <2>5
    <3>5. Fold(f, u)[u] = f[Pick(u)] + Fold(f, u)[v]
      BY <2>3, <2>5 DEF Unfolds
    <3>6. Fold(f, u)[v] = Fold(f, v)[v]
      <4>1. IsFiniteSet(u)
        BY <2>2, <1>4, FS_Subset
      <4>2. v \in SUBSET u /\ v \in SUBSET v
        OBVIOUS
      <4> HIDE DEF v
      <4> QED
        BY <4>1, <4>2, <2>3, <3>3, UnfoldingsAgree
    <3> QED
      BY <3>4, <3>5, <3>6 DEF u
  <2> QED
    BY <2>4, <2>5
<1>7. Unfolds(f, T, g)
  <2>1. \A s \in SUBSET T : s # {} => g[s] = f[Pick(s)] + g[s \ {Pick(s)}]
    BY <1>6
  <2>2. g[{}] = 0
    OBVIOUS
  <2>3. \A s \in SUBSET T : g[s] = IF s = {} THEN 0 ELSE f[Pick(s)] + g[s \ {Pick(s)}]
    BY <2>1, <2>2
  <2>4. g = [s \in SUBSET T |-> g[s]]
    OBVIOUS
  <2> HIDE DEF g
  <2> QED
    BY <2>3, <2>4 DEF Unfolds
<1> QED
  BY <1>4, <1>7

\* The recursion itself, for the sum.
LEMMA SumUnfolds ==
    ASSUME NEW f, NEW S, IsFiniteSet(S)
    PROVE  SumFunctionOnSet(f, S)
              = IF S = {} THEN 0
                ELSE f[Pick(S)] + SumFunctionOnSet(f, S \ {Pick(S)})
<1> DEFINE v == S \ {Pick(S)}
<1>1. Unfolds(f, S, Fold(f, S))
  BY UnfoldingExists
<1>2. IsFiniteSet(v)
  BY FS_Subset
<1>3. Unfolds(f, v, Fold(f, v))
  BY <1>2, UnfoldingExists
<1>4. v \in SUBSET S /\ v \in SUBSET v
  OBVIOUS
<1>5. Fold(f, S)[v] = Fold(f, v)[v]
  <2> HIDE DEF v
  <2> QED
    BY <1>1, <1>3, <1>4, UnfoldingsAgree
<1>6. Fold(f, S)[S] = IF S = {} THEN 0 ELSE f[Pick(S)] + Fold(f, S)[v]
  BY <1>1 DEF Unfolds
<1>7. SumFunctionOnSet(f, S) = Fold(f, S)[S]
      /\ SumFunctionOnSet(f, v) = Fold(f, v)[v]
  BY SumIsFold
<1> QED
  BY <1>5, <1>6, <1>7

\* Over no element the sum is 0.
LEMMA SumEmpty == \A f : SumFunctionOnSet(f, {}) = 0
BY SumUnfolds, FS_EmptySet

\* A sum of integers is an integer.
LEMMA SumInt ==
    ASSUME NEW S, IsFiniteSet(S), NEW f, \A x \in S : f[x] \in Int
    PROVE  SumFunctionOnSet(f, S) \in Int
<1> DEFINE G == {T \in SUBSET S : SumFunctionOnSet(f, T) \in Int}
<1>1. {} \in G
  BY SumEmpty
<1>2. ASSUME NEW T \in SUBSET S, T # {}, \A x \in T : T \ {x} \in G
      PROVE  T \in G
  <2>1. Pick(T) \in T
    BY <1>2, PickIsMember
  <2>2. IsFiniteSet(T)
    BY FS_Subset
  <2>3. SumFunctionOnSet(f, T) = f[Pick(T)] + SumFunctionOnSet(f, T \ {Pick(T)})
    BY <2>2, <1>2, SumUnfolds
  <2> QED
    BY <2>1, <2>3, <1>2
<1> HIDE DEF G
<1>3. S \in G
  BY <1>1, <1>2, SetInduction
<1> QED
  BY <1>3 DEF G

\* A sum of naturals is a natural.
LEMMA SumNat ==
    ASSUME NEW S, IsFiniteSet(S), NEW f, \A x \in S : f[x] \in Nat
    PROVE  SumFunctionOnSet(f, S) \in Nat
<1> DEFINE G == {T \in SUBSET S : SumFunctionOnSet(f, T) \in Nat}
<1>1. {} \in G
  BY SumEmpty
<1>2. ASSUME NEW T \in SUBSET S, T # {}, \A x \in T : T \ {x} \in G
      PROVE  T \in G
  <2>1. Pick(T) \in T
    BY <1>2, PickIsMember
  <2>2. IsFiniteSet(T)
    BY FS_Subset
  <2>3. SumFunctionOnSet(f, T) = f[Pick(T)] + SumFunctionOnSet(f, T \ {Pick(T)})
    BY <2>2, <1>2, SumUnfolds
  <2> QED
    BY <2>1, <2>3, <1>2
<1> HIDE DEF G
<1>3. S \in G
  BY <1>1, <1>2, SetInduction
<1> QED
  BY <1>3 DEF G

\* Any element can be taken out first, not only the picked one.
LEMMA SumRemove ==
    ASSUME NEW S, IsFiniteSet(S), NEW f, \A x \in S : f[x] \in Int, NEW x \in S
    PROVE  SumFunctionOnSet(f, S) = f[x] + SumFunctionOnSet(f, S \ {x})
<1> DEFINE G == {T \in SUBSET S : \A y \in T :
                   SumFunctionOnSet(f, T) = f[y] + SumFunctionOnSet(f, T \ {y})}
<1>1. {} \in G
  OBVIOUS
<1>2. ASSUME NEW T \in SUBSET S, T # {}, \A y \in T : T \ {y} \in G
      PROVE  T \in G
  <2> SUFFICES ASSUME NEW y \in T
               PROVE  SumFunctionOnSet(f, T) = f[y] + SumFunctionOnSet(f, T \ {y})
    OBVIOUS
  <2> DEFINE p == Pick(T)
  <2>1. p \in T
    BY <1>2, PickIsMember
  <2>2. IsFiniteSet(T)
    BY FS_Subset
  <2>3. SumFunctionOnSet(f, T) = f[p] + SumFunctionOnSet(f, T \ {p})
    BY <2>2, <1>2, SumUnfolds
  <2>4. CASE y = p
    BY <2>3, <2>4
  <2>5. CASE y # p
    <3> DEFINE R == T \ {p, y}
    <3>1. SumFunctionOnSet(f, T \ {p}) = f[y] + SumFunctionOnSet(f, R)
      <4>1. T \ {p} \in G /\ y \in T \ {p}
        BY <2>1, <2>5, <1>2
      <4>2. (T \ {p}) \ {y} = R
        OBVIOUS
      <4> QED
        BY <4>1, <4>2
    <3>2. SumFunctionOnSet(f, T \ {y}) = f[p] + SumFunctionOnSet(f, R)
      <4>1. T \ {y} \in G /\ p \in T \ {y}
        BY <2>1, <2>5, <1>2
      <4>2. (T \ {y}) \ {p} = R
        OBVIOUS
      <4> QED
        BY <4>1, <4>2
    <3>3. SumFunctionOnSet(f, R) \in Int
      <4>1. IsFiniteSet(R)
        BY FS_Subset
      <4>2. \A z \in R : f[z] \in Int
        OBVIOUS
      <4> HIDE DEF R
      <4> QED
        BY <4>1, <4>2, SumInt
    <3>4. f[p] \in Int /\ f[y] \in Int
      BY <2>1
    <3> HIDE DEF p, R
    <3> QED
      BY <2>3, <3>1, <3>2, <3>3, <3>4
  <2> QED
    BY <2>4, <2>5
<1> HIDE DEF G
<1>3. S \in G
  BY <1>1, <1>2, SetInduction
<1> QED
  BY <1>3 DEF G

\* An element more adds its value.
LEMMA SumAdd ==
    ASSUME NEW S, IsFiniteSet(S), NEW f, NEW x, x \notin S,
           \A y \in S \cup {x} : f[y] \in Int
    PROVE  SumFunctionOnSet(f, S \cup {x}) = f[x] + SumFunctionOnSet(f, S)
<1>1. IsFiniteSet(S \cup {x})
  BY FS_AddElement
<1>2. (S \cup {x}) \ {x} = S
  OBVIOUS
<1>3. x \in S \cup {x}
  OBVIOUS
<1> DEFINE U == S \cup {x}
<1> HIDE DEF U
<1>4. SumFunctionOnSet(f, U) = f[x] + SumFunctionOnSet(f, U \ {x})
  BY <1>1, <1>3, SumRemove DEF U
<1> QED
  BY <1>4, <1>2 DEF U

\* Equal values have equal sums.
LEMMA SumEqual ==
    ASSUME NEW S, IsFiniteSet(S), NEW f, NEW g, \A x \in S : f[x] = g[x]
    PROVE  SumFunctionOnSet(f, S) = SumFunctionOnSet(g, S)
<1> DEFINE G == {T \in SUBSET S : SumFunctionOnSet(f, T) = SumFunctionOnSet(g, T)}
<1>1. {} \in G
  BY SumEmpty
<1>2. ASSUME NEW T \in SUBSET S, T # {}, \A x \in T : T \ {x} \in G
      PROVE  T \in G
  <2>1. Pick(T) \in T
    BY <1>2, PickIsMember
  <2>2. IsFiniteSet(T)
    BY FS_Subset
  <2>3. SumFunctionOnSet(f, T \ {Pick(T)}) = SumFunctionOnSet(g, T \ {Pick(T)})
    BY <2>1, <1>2
  <2>4. f[Pick(T)] = g[Pick(T)]
    BY <2>1
  <2>5. SumFunctionOnSet(f, T) = f[Pick(T)] + SumFunctionOnSet(f, T \ {Pick(T)})
    BY <2>2, <1>2, SumUnfolds
  <2>6. SumFunctionOnSet(g, T) = g[Pick(T)] + SumFunctionOnSet(g, T \ {Pick(T)})
    BY <2>2, <1>2, SumUnfolds
  <2> QED
    BY <2>3, <2>4, <2>5, <2>6
<1> HIDE DEF G
<1>3. S \in G
  BY <1>1, <1>2, SetInduction
<1> QED
  BY <1>3 DEF G

\* One value changed changes the sum by the difference.
LEMMA SumChange ==
    ASSUME NEW S, IsFiniteSet(S), NEW x \in S,
           NEW f, \A y \in S : f[y] \in Int, NEW g, g[x] \in Int,
           \A y \in S \ {x} : g[y] = f[y]
    PROVE  SumFunctionOnSet(g, S) = SumFunctionOnSet(f, S) - f[x] + g[x]
<1> DEFINE R == S \ {x}
<1>1. IsFiniteSet(R)
  BY FS_Subset
<1>2. SumFunctionOnSet(f, S) = f[x] + SumFunctionOnSet(f, R)
  BY SumRemove
<1>3. SumFunctionOnSet(g, S) = g[x] + SumFunctionOnSet(g, R)
  <2>1. \A y \in S : g[y] \in Int
    OBVIOUS
  <2> QED
    BY <2>1, SumRemove
<1>4. SumFunctionOnSet(g, R) = SumFunctionOnSet(f, R)
  <2>1. \A y \in R : g[y] = f[y]
    OBVIOUS
  <2> HIDE DEF R
  <2> QED
    BY <1>1, <2>1, SumEqual
<1>5. SumFunctionOnSet(f, R) \in Int
  <2>1. \A y \in R : f[y] \in Int
    OBVIOUS
  <2> HIDE DEF R
  <2> QED
    BY <1>1, <2>1, SumInt
<1> HIDE DEF R
<1> QED
  BY <1>2, <1>3, <1>4, <1>5

\* The sum of a pointwise sum.
LEMMA SumPlus ==
    ASSUME NEW S, IsFiniteSet(S), NEW f, NEW g, NEW h,
           \A x \in S : f[x] \in Int /\ g[x] \in Int /\ h[x] = f[x] + g[x]
    PROVE  SumFunctionOnSet(h, S) = SumFunctionOnSet(f, S) + SumFunctionOnSet(g, S)
<1> DEFINE G == {T \in SUBSET S : SumFunctionOnSet(h, T)
                    = SumFunctionOnSet(f, T) + SumFunctionOnSet(g, T)}
<1>1. {} \in G
  BY SumEmpty
<1>2. ASSUME NEW T \in SUBSET S, T # {}, \A x \in T : T \ {x} \in G
      PROVE  T \in G
  <2> DEFINE R == T \ {Pick(T)}
  <2>1. Pick(T) \in T
    BY <1>2, PickIsMember
  <2>2. IsFiniteSet(T) /\ IsFiniteSet(R)
    BY FS_Subset
  <2>3. SumFunctionOnSet(h, R) = SumFunctionOnSet(f, R) + SumFunctionOnSet(g, R)
    BY <2>1, <1>2
  <2>4. SumFunctionOnSet(f, R) \in Int /\ SumFunctionOnSet(g, R) \in Int
    <3>1. \A x \in R : f[x] \in Int /\ g[x] \in Int
      OBVIOUS
    <3> HIDE DEF R
    <3> QED
      BY <2>2, <3>1, SumInt
  <2>5. SumFunctionOnSet(f, T) = f[Pick(T)] + SumFunctionOnSet(f, R)
    BY <2>2, <1>2, SumUnfolds
  <2>6. SumFunctionOnSet(g, T) = g[Pick(T)] + SumFunctionOnSet(g, R)
    BY <2>2, <1>2, SumUnfolds
  <2>7. SumFunctionOnSet(h, T) = h[Pick(T)] + SumFunctionOnSet(h, R)
    BY <2>2, <1>2, SumUnfolds
  <2>8. f[Pick(T)] \in Int /\ g[Pick(T)] \in Int
        /\ h[Pick(T)] = f[Pick(T)] + g[Pick(T)]
    BY <2>1
  <2> HIDE DEF R
  <2> QED
    BY <2>3, <2>4, <2>5, <2>6, <2>7, <2>8
<1> HIDE DEF G
<1>3. S \in G
  BY <1>1, <1>2, SetInduction
<1> QED
  BY <1>3 DEF G

\* Larger values have the larger sum.
LEMMA SumMonotone ==
    ASSUME NEW S, IsFiniteSet(S), NEW f, NEW g,
           \A x \in S : f[x] \in Int /\ g[x] \in Int /\ f[x] <= g[x]
    PROVE  SumFunctionOnSet(f, S) <= SumFunctionOnSet(g, S)
<1> DEFINE d == [x \in S |-> g[x] - f[x]]
<1>1. SumFunctionOnSet(g, S) = SumFunctionOnSet(f, S) + SumFunctionOnSet(d, S)
  <2>1. \A x \in S : f[x] \in Int /\ d[x] \in Int /\ g[x] = f[x] + d[x]
    OBVIOUS
  <2> HIDE DEF d
  <2> QED
    BY <2>1, SumPlus
<1>2. SumFunctionOnSet(d, S) \in Nat
  <2>1. \A x \in S : d[x] \in Nat
    OBVIOUS
  <2> HIDE DEF d
  <2> QED
    BY <2>1, SumNat
<1>3. SumFunctionOnSet(f, S) \in Int
  BY SumInt
<1> HIDE DEF d
<1> QED
  BY <1>1, <1>2, <1>3

\* Over two disjoint sets the sum is the sum of both.
LEMMA SumUnion ==
    ASSUME NEW S, IsFiniteSet(S), NEW T, IsFiniteSet(T), S \cap T = {},
           NEW f, \A x \in S \cup T : f[x] \in Int
    PROVE  SumFunctionOnSet(f, S \cup T)
              = SumFunctionOnSet(f, S) + SumFunctionOnSet(f, T)
<1> DEFINE G == {U \in SUBSET T : SumFunctionOnSet(f, S \cup U)
                    = SumFunctionOnSet(f, S) + SumFunctionOnSet(f, U)}
<1>0. SumFunctionOnSet(f, S) \in Int
  BY SumInt
<1>1. {} \in G
  <2>1. S \cup {} = S
    OBVIOUS
  <2> QED
    BY <2>1, <1>0, SumEmpty
<1>2. ASSUME NEW U \in SUBSET T, U # {}, \A x \in U : U \ {x} \in G
      PROVE  U \in G
  <2>1. PICK x \in U : TRUE
    BY <1>2
  <2> DEFINE R == U \ {x}
  <2>2. IsFiniteSet(U) /\ IsFiniteSet(R)
    BY FS_Subset
  <2>3. IsFiniteSet(S \cup R)
    BY <2>2, FS_Union
  <2>4. SumFunctionOnSet(f, U) = f[x] + SumFunctionOnSet(f, R)
    BY <2>2, SumRemove
  <2>5. SumFunctionOnSet(f, S \cup U) = f[x] + SumFunctionOnSet(f, S \cup R)
    <3>1. S \cup U = (S \cup R) \cup {x}
      OBVIOUS
    <3>2. x \notin S \cup R
      OBVIOUS
    <3>3. \A y \in (S \cup R) \cup {x} : f[y] \in Int
      OBVIOUS
    <3> DEFINE V == S \cup R
    <3> HIDE DEF V
    <3>4. SumFunctionOnSet(f, V \cup {x}) = f[x] + SumFunctionOnSet(f, V)
      BY <2>3, <3>2, <3>3, SumAdd DEF V
    <3> QED
      BY <3>1, <3>4 DEF V
  <2>6. SumFunctionOnSet(f, S \cup R) = SumFunctionOnSet(f, S) + SumFunctionOnSet(f, R)
    BY <1>2
  <2>7. SumFunctionOnSet(f, R) \in Int
    <3>1. \A y \in R : f[y] \in Int
      OBVIOUS
    <3> HIDE DEF R
    <3> QED
      BY <2>2, <3>1, SumInt
  <2>8. f[x] \in Int
    OBVIOUS
  <2> HIDE DEF R
  <2> QED
    BY <1>0, <2>4, <2>5, <2>6, <2>7, <2>8
<1> HIDE DEF G
<1>3. T \in G
  BY <1>1, <1>2, SetInduction
<1> QED
  BY <1>3 DEF G

\* A sum of naturals over a part is at most that over the whole.
LEMMA SumSubset ==
    ASSUME NEW S, IsFiniteSet(S), NEW T \in SUBSET S,
           NEW f, \A x \in S : f[x] \in Nat
    PROVE  SumFunctionOnSet(f, T) <= SumFunctionOnSet(f, S)
<1> DEFINE R == S \ T
<1>1. IsFiniteSet(T) /\ IsFiniteSet(R)
  BY FS_Subset
<1>2. S = T \cup R /\ T \cap R = {}
  OBVIOUS
<1>3. SumFunctionOnSet(f, T) \in Nat
  BY <1>1, SumNat
<1>4. SumFunctionOnSet(f, R) \in Nat
  <2>1. \A x \in R : f[x] \in Nat
    OBVIOUS
  <2> HIDE DEF R
  <2> QED
    BY <1>1, <2>1, SumNat
<1>5. SumFunctionOnSet(f, T \cup R) = SumFunctionOnSet(f, T) + SumFunctionOnSet(f, R)
  <2>1. \A x \in T \cup R : f[x] \in Int
    OBVIOUS
  <2> HIDE DEF R
  <2> QED
    BY <1>1, <1>2, <2>1, SumUnion
<1> HIDE DEF R
<1> QED
  BY <1>2, <1>3, <1>4, <1>5

\* A sum of zeros is 0.
LEMMA SumZero ==
    ASSUME NEW S, IsFiniteSet(S), NEW f, \A x \in S : f[x] = 0
    PROVE  SumFunctionOnSet(f, S) = 0
<1> DEFINE G == {T \in SUBSET S : SumFunctionOnSet(f, T) = 0}
<1>1. {} \in G
  BY SumEmpty
<1>2. ASSUME NEW T \in SUBSET S, T # {}, \A x \in T : T \ {x} \in G
      PROVE  T \in G
  <2>1. Pick(T) \in T
    BY <1>2, PickIsMember
  <2>2. IsFiniteSet(T)
    BY FS_Subset
  <2>3. SumFunctionOnSet(f, T) = f[Pick(T)] + SumFunctionOnSet(f, T \ {Pick(T)})
    BY <2>2, <1>2, SumUnfolds
  <2> QED
    BY <2>1, <2>3, <1>2
<1> HIDE DEF G
<1>3. S \in G
  BY <1>1, <1>2, SetInduction
<1> QED
  BY <1>3 DEF G

\* A sum of one value is that value times the number of elements.
LEMMA SumConstant ==
    ASSUME NEW S, IsFiniteSet(S), NEW c \in Int, NEW f, \A x \in S : f[x] = c
    PROVE  SumFunctionOnSet(f, S) = c * Cardinality(S)
<1> DEFINE G == {T \in SUBSET S : SumFunctionOnSet(f, T) = c * Cardinality(T)}
<1>1. {} \in G
  BY SumEmpty, FS_EmptySet
<1>2. ASSUME NEW T \in SUBSET S, T # {}, \A x \in T : T \ {x} \in G
      PROVE  T \in G
  <2> DEFINE R == T \ {Pick(T)}
  <2>1. Pick(T) \in T
    BY <1>2, PickIsMember
  <2>2. IsFiniteSet(T) /\ IsFiniteSet(R)
    BY FS_Subset
  <2>3. SumFunctionOnSet(f, T) = c + SumFunctionOnSet(f, R)
    BY <2>1, <2>2, <1>2, SumUnfolds
  <2>4. SumFunctionOnSet(f, R) = c * Cardinality(R)
    BY <2>1, <1>2
  <2>5. Cardinality(R) = Cardinality(T) - 1
    BY <2>1, <2>2, FS_RemoveElement
  <2>6. Cardinality(T) \in Nat
    BY <2>2, FS_CardinalityType
  <2>7. c + c * (Cardinality(T) - 1) = c * Cardinality(T)
    BY <2>6
  <2> HIDE DEF R
  <2> QED
    BY <2>3, <2>4, <2>5, <2>7
<1> HIDE DEF G
<1>3. S \in G
  BY <1>1, <1>2, SetInduction
<1> QED
  BY <1>3 DEF G

\* A sum over a part is a sum over the whole with 0 outside the part.
LEMMA SumOfSubset ==
    ASSUME NEW S, IsFiniteSet(S), NEW T \in SUBSET S,
           NEW f, \A x \in T : f[x] \in Int,
           NEW g, \A x \in S : g[x] = IF x \in T THEN f[x] ELSE 0
    PROVE  SumFunctionOnSet(f, T) = SumFunctionOnSet(g, S)
<1> DEFINE R == S \ T
<1>1. IsFiniteSet(T) /\ IsFiniteSet(R)
  BY FS_Subset
<1>2. S = T \cup R /\ T \cap R = {}
  OBVIOUS
<1>3. \A x \in T \cup R : g[x] \in Int
  OBVIOUS
<1>4. SumFunctionOnSet(g, R) = 0
  <2>1. \A x \in R : g[x] = 0
    OBVIOUS
  <2> HIDE DEF R
  <2> QED
    BY <1>1, <2>1, SumZero
<1>5. SumFunctionOnSet(f, T) = SumFunctionOnSet(g, T)
  <2>1. \A x \in T : f[x] = g[x]
    OBVIOUS
  <2> QED
    BY <1>1, <2>1, SumEqual
<1>6. SumFunctionOnSet(g, T) \in Int
  <2>1. \A x \in T : g[x] \in Int
    OBVIOUS
  <2> QED
    BY <1>1, <2>1, SumInt
<1>7. SumFunctionOnSet(g, T \cup R) = SumFunctionOnSet(g, T) + SumFunctionOnSet(g, R)
  <2> HIDE DEF R
  <2> QED
    BY <1>1, <1>2, <1>3, SumUnion
<1> HIDE DEF R
<1> QED
  BY <1>2, <1>4, <1>5, <1>6, <1>7

\* A sum with one value that is not 0 is that value.
LEMMA SumOfOne ==
    ASSUME NEW S, IsFiniteSet(S), NEW x \in S, NEW n \in Int,
           NEW f, \A y \in S : f[y] = IF y = x THEN n ELSE 0
    PROVE  SumFunctionOnSet(f, S) = n
<1>1. SumFunctionOnSet(f, S) = f[x] + SumFunctionOnSet(f, S \ {x})
  <2>1. \A y \in S : f[y] \in Int
    OBVIOUS
  <2> QED
    BY <2>1, SumRemove
<1>2. SumFunctionOnSet(f, S \ {x}) = 0
  <2>1. IsFiniteSet(S \ {x})
    BY FS_Subset
  <2>2. \A y \in S \ {x} : f[y] = 0
    OBVIOUS
  <2> QED
    BY <2>1, <2>2, SumZero
<1> QED
  BY <1>1, <1>2

\* Rows first or columns first: the sum of a table is the same.
LEMMA SumOfSums ==
    ASSUME NEW A, IsFiniteSet(A), NEW S, IsFiniteSet(S),
           NEW f, \A a \in A, x \in S : f[a][x] \in Int
    PROVE  SumFunctionOnSet([a \in A |-> SumFunctionOnSet(f[a], S)], A)
              = SumFunctionOnSet([x \in S |-> SumFunctionOnSet([a \in A |-> f[a][x]], A)], S)
<1> DEFINE Row(T) == [a \in A |-> SumFunctionOnSet(f[a], T)]
           column == [x \in S |-> SumFunctionOnSet([a \in A |-> f[a][x]], A)]
           G == {T \in SUBSET S : SumFunctionOnSet(Row(T), A)
                                    = SumFunctionOnSet(column, T)}
<1>1. {} \in G
  <2>1. \A a \in A : Row({})[a] = 0
    BY SumEmpty
  <2>2. SumFunctionOnSet(Row({}), A) = 0
    <3> HIDE DEF Row
    <3> QED
      BY <2>1, SumZero
  <2>3. SumFunctionOnSet(column, {}) = 0
    BY SumEmpty
  <2> QED
    BY <2>2, <2>3
<1>2. ASSUME NEW T \in SUBSET S, T # {}, \A x \in T : T \ {x} \in G
      PROVE  T \in G
  <2>1. PICK x \in T : TRUE
    BY <1>2
  <2> DEFINE R == T \ {x}
             these == [a \in A |-> f[a][x]]
  <2>2. IsFiniteSet(T) /\ IsFiniteSet(R)
    BY FS_Subset
  <2>3. \A y \in T : column[y] \in Int
    <3> SUFFICES ASSUME NEW y \in T PROVE column[y] \in Int
      OBVIOUS
    <3> DEFINE g == [a \in A |-> f[a][y]]
    <3>1. \A a \in A : g[a] \in Int
      OBVIOUS
    <3>2. column[y] = SumFunctionOnSet(g, A)
      OBVIOUS
    <3> HIDE DEF g, column
    <3> QED
      BY <3>1, <3>2, SumInt
  <2>4. SumFunctionOnSet(column, T) = column[x] + SumFunctionOnSet(column, R)
    <3> HIDE DEF column
    <3> QED
      BY <2>2, <2>3, SumRemove
  <2>5. \A a \in A : /\ these[a] \in Int
                     /\ Row(R)[a] \in Int
                     /\ Row(T)[a] = these[a] + Row(R)[a]
    <3> SUFFICES ASSUME NEW a \in A
                 PROVE  /\ these[a] \in Int
                        /\ Row(R)[a] \in Int
                        /\ Row(T)[a] = these[a] + Row(R)[a]
    OBVIOUS
    <3>1. \A y \in T : f[a][y] \in Int
      OBVIOUS
    <3>2. \A y \in R : f[a][y] \in Int
      OBVIOUS
    <3>3. SumFunctionOnSet(f[a], T) = f[a][x] + SumFunctionOnSet(f[a], R)
      BY <2>2, <3>1, SumRemove
    <3>4. SumFunctionOnSet(f[a], R) \in Int
      <4> HIDE DEF R
      <4> QED
        BY <2>2, <3>2, SumInt
    <3> QED
      BY <3>1, <3>3, <3>4
  <2>6. SumFunctionOnSet(Row(T), A)
          = SumFunctionOnSet(these, A) + SumFunctionOnSet(Row(R), A)
    <3> DEFINE whole == Row(T)
               rest == Row(R)
    <3> HIDE DEF whole, rest, these
    <3>1. \A a \in A : these[a] \in Int /\ rest[a] \in Int
                        /\ whole[a] = these[a] + rest[a]
      BY <2>5 DEF whole, rest
    <3>2. SumFunctionOnSet(whole, A)
            = SumFunctionOnSet(these, A) + SumFunctionOnSet(rest, A)
      BY <3>1, SumPlus
    <3> QED
      BY <3>2 DEF whole, rest
  <2>7. column[x] = SumFunctionOnSet(these, A)
    OBVIOUS
  <2>8. SumFunctionOnSet(Row(R), A) = SumFunctionOnSet(column, R)
    BY <1>2 DEF G
  <2>9. T \in SUBSET S
    OBVIOUS
  <2> HIDE DEF Row, column, R, these
  <2>10. SumFunctionOnSet(Row(T), A) = SumFunctionOnSet(column, T)
    BY <2>4, <2>6, <2>7, <2>8
  <2> QED
    BY <2>9, <2>10
<1> HIDE DEF G
<1>3. S \in G
  BY <1>1, <1>2, SetInduction
<1> QED
  BY <1>3 DEF G

\* Summing by distinct names is summing over what they name.
LEMMA SumImage ==
    ASSUME NEW I, IsFiniteSet(I), NEW g, \A i, j \in I : g[i] = g[j] => i = j,
           NEW S, \A i \in I : g[i] \in S, \A x \in S : \E i \in I : x = g[i],
           NEW f, \A x \in S : f[x] \in Int,
           NEW k, \A i \in I : k[i] = f[g[i]]
    PROVE  IsFiniteSet(S) /\ SumFunctionOnSet(k, I) = SumFunctionOnSet(f, S)
<1> DEFINE Image(T) == {g[i] : i \in T}
           G == {T \in SUBSET I :
                    /\ IsFiniteSet(Image(T))
                    /\ SumFunctionOnSet(k, T) = SumFunctionOnSet(f, Image(T))}
<1>1. {} \in G
  <2>1. Image({}) = {}
    OBVIOUS
  <2> QED
    BY <2>1, SumEmpty, FS_EmptySet
<1>2. ASSUME NEW T \in SUBSET I, T # {}, \A x \in T : T \ {x} \in G
      PROVE  T \in G
  <2>1. PICK x \in T : TRUE
    BY <1>2
  <2> DEFINE R == T \ {x}
  <2>2. IsFiniteSet(T)
    BY FS_Subset
  <2>3. IsFiniteSet(Image(R)) /\ SumFunctionOnSet(k, R) = SumFunctionOnSet(f, Image(R))
    BY <1>2
  <2>4. Image(T) = Image(R) \cup {g[x]} /\ g[x] \notin Image(R)
    OBVIOUS
  <2>5. \A y \in Image(R) \cup {g[x]} : f[y] \in Int
    OBVIOUS
  <2>6. SumFunctionOnSet(k, T) = k[x] + SumFunctionOnSet(k, R)
    <3>1. \A i \in T : k[i] \in Int
      OBVIOUS
    <3> QED
      BY <2>2, <3>1, SumRemove
  <2>7. k[x] = f[g[x]]
    OBVIOUS
  <2> HIDE DEF Image, R
  <2>8. IsFiniteSet(Image(T))
    BY <2>3, <2>4, FS_AddElement
  <2> DEFINE rest == Image(R)
             y == g[x]
  <2>9. IsFiniteSet(rest) /\ y \notin rest /\ \A z \in rest \cup {y} : f[z] \in Int
    BY <2>3, <2>4, <2>5
  <2> HIDE DEF rest, y
  <2>10. SumFunctionOnSet(f, rest \cup {y}) = f[y] + SumFunctionOnSet(f, rest)
    BY <2>9, SumAdd
  <2>11. SumFunctionOnSet(f, Image(T)) = f[g[x]] + SumFunctionOnSet(f, Image(R))
    BY <2>4, <2>10 DEF rest, y
  <2>12. SumFunctionOnSet(k, T) = SumFunctionOnSet(f, Image(T))
    BY <2>3, <2>6, <2>7, <2>11
  <2> QED
    BY <2>8, <2>12
<1> HIDE DEF G
<1>3. I \in G
  BY <1>1, <1>2, SetInduction
<1>4. Image(I) = S
  OBVIOUS
<1> HIDE DEF Image
<1> QED
  BY <1>3, <1>4 DEF G

\* A set named without repetition has as many elements as names.
LEMMA CountImage ==
    ASSUME NEW I, IsFiniteSet(I), NEW g, \A i, j \in I : g[i] = g[j] => i = j,
           NEW S, \A i \in I : g[i] \in S, \A x \in S : \E i \in I : x = g[i]
    PROVE  IsFiniteSet(S) /\ Cardinality(S) = Cardinality(I)
<1> DEFINE f == [x \in S |-> 1]
           k == [i \in I |-> 1]
<1>1. /\ \A x \in S : f[x] \in Int /\ f[x] = 1
      /\ \A i \in I : k[i] = f[g[i]] /\ k[i] = 1
  OBVIOUS
<1> HIDE DEF f, k
<1>2. IsFiniteSet(S) /\ SumFunctionOnSet(k, I) = SumFunctionOnSet(f, S)
  <2>1. \A x \in S : f[x] \in Int
    BY <1>1
  <2>2. \A i \in I : k[i] = f[g[i]]
    BY <1>1
  <2> QED
    BY <2>1, <2>2, SumImage
<1>3. SumFunctionOnSet(k, I) = 1 * Cardinality(I)
  BY <1>1, SumConstant
<1>4. SumFunctionOnSet(f, S) = 1 * Cardinality(S)
  BY <1>1, <1>2, SumConstant
<1>5. Cardinality(I) \in Nat /\ Cardinality(S) \in Nat
  BY <1>2, FS_CardinalityType
<1>6. \A n \in Nat : 1 * n = n
  OBVIOUS
<1> QED
  BY <1>2, <1>3, <1>4, <1>5, <1>6

----------------------------------------------------------------------------
(* Folds of any step, given as a function, in any order of the elements.   *)

\* h folds step over every subset of S; pick says which element comes last.
Folds(step, base, pick, S, h) == h = [s \in SUBSET S |->
    IF s = {} THEN base ELSE step[pick[s]][h[s \ {pick[s]}]]]

\* Two such functions agree where both are defined.
LEMMA FoldsAgree ==
    ASSUME NEW step, NEW base, NEW S, NEW T, IsFiniteSet(S),
           NEW pick, \A s \in SUBSET S : s # {} => pick[s] \in s,
           NEW h, Folds(step, base, pick, S, h),
           NEW g, Folds(step, base, pick, T, g),
           NEW s \in SUBSET S, s \in SUBSET T
    PROVE  h[s] = g[s]
<1> DEFINE G == {u \in SUBSET s : h[u] = g[u]}
<1>1. IsFiniteSet(s)
  BY FS_Subset
<1>2. {} \in G
  BY DEF Folds
<1>3. ASSUME NEW u \in SUBSET s, u # {}, \A x \in u : u \ {x} \in G
      PROVE  u \in G
  <2>1. pick[u] \in u
    BY <1>3
  <2>2. h[u \ {pick[u]}] = g[u \ {pick[u]}]
    BY <2>1, <1>3
  <2>3. h[u] = step[pick[u]][h[u \ {pick[u]}]]
    BY <1>3 DEF Folds
  <2>4. g[u] = step[pick[u]][g[u \ {pick[u]}]]
    BY <1>3 DEF Folds
  <2> QED
    BY <2>2, <2>3, <2>4
<1> HIDE DEF G
<1>4. s \in G
  BY <1>1, <1>2, <1>3, SetInduction
<1> QED
  BY <1>4 DEF G

\* On a finite set there is one.
LEMMA FoldExists ==
    ASSUME NEW step, NEW base, NEW S, IsFiniteSet(S),
           NEW pick, \A s \in SUBSET S : s # {} => pick[s] \in s
    PROVE  \E h : Folds(step, base, pick, S, h)
<1> DEFINE FoldOn(T) == CHOOSE h : Folds(step, base, pick, T, h)
           B == {T \in SUBSET S : ~ \E h : Folds(step, base, pick, T, h)}
<1>1. SUFFICES ASSUME B # {} PROVE FALSE
  OBVIOUS
<1>2. B \subseteq SUBSET S
  OBVIOUS
<1>3. PICK T \in B : \A U \in B : ~(U \subseteq T /\ U # T)
  <2> HIDE DEF B
  <2> QED
    BY <1>1, <1>2, SmallestOffender
<1>4. T \in SUBSET S /\ ~ \E h : Folds(step, base, pick, T, h)
  OBVIOUS
<1>5. ASSUME NEW U \in SUBSET T, U # T
      PROVE  Folds(step, base, pick, U, FoldOn(U))
  <2>1. U \in SUBSET S /\ U \notin B
    BY <1>3, <1>4, <1>5
  <2>2. \E h : Folds(step, base, pick, U, h)
    BY <2>1
  <2> QED
    BY <2>2, Zenon
<1> HIDE DEF FoldOn
<1> DEFINE Rest(s) == s \ {pick[s]}
           g == [s \in SUBSET T |->
                   IF s = {} THEN base ELSE step[pick[s]][FoldOn(Rest(s))[Rest(s)]]]
<1>6. ASSUME NEW s \in SUBSET T, s # {}
      PROVE  g[Rest(s)] = FoldOn(Rest(s))[Rest(s)]
  <2> DEFINE u == Rest(s)
  <2>1. pick[s] \in s
    BY <1>4, <1>6
  <2>2. u \in SUBSET T /\ u # T
    BY <2>1
  <2>3. Folds(step, base, pick, u, FoldOn(u))
    BY <2>2, <1>5
  <2> HIDE DEF u
  <2>4. CASE u = {}
    <3>1. FoldOn(u)[u] = base
      BY <2>3, <2>4 DEF Folds
    <3>2. g[u] = base
      BY <2>2, <2>4
    <3> QED
      BY <3>1, <3>2 DEF u
  <2>5. CASE u # {}
    <3> DEFINE v == Rest(u)
    <3>1. pick[u] \in u
      BY <2>2, <2>5, <1>4
    <3>2. v \in SUBSET T /\ v # T
      BY <3>1, <2>2
    <3>3. Folds(step, base, pick, v, FoldOn(v))
      BY <3>2, <1>5
    <3>4. g[u] = step[pick[u]][FoldOn(v)[v]]
      BY <2>2, <2>5
    <3>5. FoldOn(u)[u] = step[pick[u]][FoldOn(u)[v]]
      BY <2>3, <2>5 DEF Folds
    <3>6. FoldOn(u)[v] = FoldOn(v)[v]
      <4>1. IsFiniteSet(u) /\ \A t \in SUBSET u : t # {} => pick[t] \in t
        BY <2>2, <1>4, FS_Subset
      <4>2. v \in SUBSET u /\ v \in SUBSET v
        OBVIOUS
      <4> HIDE DEF v
      <4> QED
        BY <4>1, <4>2, <2>3, <3>3, FoldsAgree
    <3> QED
      BY <3>4, <3>5, <3>6 DEF u
  <2> QED
    BY <2>4, <2>5
<1>7. Folds(step, base, pick, T, g)
  <2>1. \A s \in SUBSET T : s # {} => g[s] = step[pick[s]][g[Rest(s)]]
    BY <1>6
  <2>2. g[{}] = base
    OBVIOUS
  <2>3. \A s \in SUBSET T :
           g[s] = IF s = {} THEN base ELSE step[pick[s]][g[s \ {pick[s]}]]
    BY <2>1, <2>2
  <2>4. g = [s \in SUBSET T |-> g[s]]
    OBVIOUS
  <2> HIDE DEF g
  <2> QED
    BY <2>3, <2>4 DEF Folds
<1> QED
  BY <1>4, <1>7

\* A step that stays in a set of values keeps every fold in it.
LEMMA FoldStays ==
    ASSUME NEW S, IsFiniteSet(S), NEW V, NEW base \in V,
           NEW step \in [S -> [V -> V]],
           NEW pick, \A s \in SUBSET S : s # {} => pick[s] \in s,
           NEW h, Folds(step, base, pick, S, h), NEW s \in SUBSET S
    PROVE  h[s] \in V
<1> DEFINE G == {u \in SUBSET s : h[u] \in V}
<1>1. IsFiniteSet(s)
  BY FS_Subset
<1>2. {} \in G
  BY DEF Folds
<1>3. ASSUME NEW u \in SUBSET s, u # {}, \A x \in u : u \ {x} \in G
      PROVE  u \in G
  <2>1. pick[u] \in u
    BY <1>3
  <2>2. h[u \ {pick[u]}] \in V
    BY <2>1, <1>3
  <2>3. h[u] = step[pick[u]][h[u \ {pick[u]}]]
    BY <1>3 DEF Folds
  <2>4. pick[u] \in S
    BY <2>1
  <2>5. step[pick[u]] \in [V -> V]
    BY <2>4
  <2>6. h[u] \in V
    BY <2>2, <2>3, <2>5
  <2> QED
    BY <2>6
<1> HIDE DEF G
<1>4. s \in G
  BY <1>1, <1>2, <1>3, SetInduction
<1> QED
  BY <1>4 DEF G

----------------------------------------------------------------------------
(* Numbers. *)

\* A finite set of integers that is not empty has a largest element.
LEMMA MaxIsLargest ==
    ASSUME NEW S, IsFiniteSet(S), S \subseteq Int, S # {}
    PROVE  Max(S) \in S /\ \A n \in S : n <= Max(S)
<1> DEFINE G == {T \in SUBSET S : T # {} => \E m \in T : \A n \in T : n <= m}
<1>1. {} \in G
  OBVIOUS
<1>2. ASSUME NEW T \in SUBSET S, T # {}, \A x \in T : T \ {x} \in G
      PROVE  T \in G
  <2>1. PICK x \in T : TRUE
    BY <1>2
  <2>2. CASE T \ {x} = {}
    <3>1. T = {x} /\ x \in Int
      BY <2>1, <2>2
    <3>2. \A n \in T : n <= x
      BY <3>1
    <3> QED
      BY <3>2
  <2>3. CASE T \ {x} # {}
    <3>1. PICK m \in T \ {x} : \A n \in T \ {x} : n <= m
      BY <1>2, <2>3
    <3>2. x \in Int /\ m \in Int /\ \A n \in T : n \in Int
      OBVIOUS
    <3>3. CASE x <= m
      <4>1. \A n \in T : n <= m
        BY <3>1, <3>3
      <4> QED
        BY <4>1
    <3>4. CASE m <= x
      <4>1. \A n \in T : n <= x
        <5> SUFFICES ASSUME NEW n \in T PROVE n <= x
          OBVIOUS
        <5>1. CASE n = x
          BY <5>1, <3>2
        <5>2. CASE n # x
          BY <5>2, <3>1, <3>2, <3>4
        <5> QED
          BY <5>1, <5>2
      <4> QED
        BY <4>1
    <3> QED
      BY <3>2, <3>3, <3>4
  <2> QED
    BY <2>2, <2>3
<1> HIDE DEF G
<1>3. S \in G
  BY <1>1, <1>2, SetInduction
<1>4. \E m \in S : \A n \in S : m >= n
  BY <1>3 DEF G
<1>5. Max(S) \in S /\ \A n \in S : Max(S) >= n
  BY <1>4 DEF Max
<1> QED
  BY <1>5

\* And a smallest.
LEMMA MinIsSmallest ==
    ASSUME NEW S, IsFiniteSet(S), S \subseteq Int, S # {}
    PROVE  Min(S) \in S /\ \A n \in S : Min(S) <= n
<1> DEFINE G == {T \in SUBSET S : T # {} => \E m \in T : \A n \in T : m <= n}
<1>1. {} \in G
  OBVIOUS
<1>2. ASSUME NEW T \in SUBSET S, T # {}, \A x \in T : T \ {x} \in G
      PROVE  T \in G
  <2>1. PICK x \in T : TRUE
    BY <1>2
  <2>2. CASE T \ {x} = {}
    <3>1. T = {x} /\ x \in Int
      BY <2>1, <2>2
    <3>2. \A n \in T : x <= n
      BY <3>1
    <3> QED
      BY <3>2
  <2>3. CASE T \ {x} # {}
    <3>1. PICK m \in T \ {x} : \A n \in T \ {x} : m <= n
      BY <1>2, <2>3
    <3>2. x \in Int /\ m \in Int /\ \A n \in T : n \in Int
      OBVIOUS
    <3>3. CASE m <= x
      <4>1. \A n \in T : m <= n
        BY <3>1, <3>3
      <4> QED
        BY <4>1
    <3>4. CASE x <= m
      <4>1. \A n \in T : x <= n
        <5> SUFFICES ASSUME NEW n \in T PROVE x <= n
          OBVIOUS
        <5>1. CASE n = x
          BY <5>1, <3>2
        <5>2. CASE n # x
          BY <5>2, <3>1, <3>2, <3>4
        <5> QED
          BY <5>1, <5>2
      <4> QED
        BY <4>1
    <3> QED
      BY <3>2, <3>3, <3>4
  <2> QED
    BY <2>2, <2>3
<1> HIDE DEF G
<1>3. S \in G
  BY <1>1, <1>2, SetInduction
<1>4. \E m \in S : \A n \in S : m <= n
  BY <1>3 DEF G
<1> QED
  BY <1>4 DEF Min

\* Division by a positive number only makes a natural smaller.
LEMMA Quotient ==
    ASSUME NEW n \in Nat, NEW d \in Nat \ {0}
    PROVE  n \div d \in Nat /\ n \div d <= n /\ (n * d) \div d = n
OBVIOUS

\* Equal remainders within one round of the divisor mean equal numbers.
LEMMA RoundTrip ==
    ASSUME NEW d \in Nat \ {0}, NEW b \in Nat,
           NEW i \in 0..(d - 1), NEW j \in 0..(d - 1), (b + i) % d = (b + j) % d
    PROVE  i = j
<1> DEFINE m == (b + i) \div d
           n == (b + j) \div d
           r == (b + i) % d
<1>1. b + i = d * m + r /\ m \in Int
  BY SMT
<1>2. b + j = d * n + r /\ n \in Int
  BY SMT
<1>3. r \in Int
  BY SMT
<1> HIDE DEF m, n, r
<1>4. i - j = d * (m - n)
  BY <1>1, <1>2, <1>3
<1>5. CASE m = n
  <2>1. d * (m - n) = 0
    BY <1>1, <1>5
  <2> QED
    BY <1>4, <2>1
<1>6. CASE m > n
  <2>1. d * (m - n) >= d
    BY <1>1, <1>2, <1>6
  <2> QED
    BY <1>4, <2>1
<1>7. CASE m < n
  <2>1. d * (m - n) <= 0 - d
    BY <1>1, <1>2, <1>7
  <2> QED
    BY <1>4, <2>1
<1> QED
  BY <1>1, <1>2, <1>5, <1>6, <1>7

\* A remainder is below the divisor, and what is below it is its own remainder.
LEMMA Remainder ==
    ASSUME NEW d \in Nat \ {0}, NEW b \in Nat
    PROVE  b % d \in 0..(d - 1) /\ (b < d => b % d = b)
OBVIOUS

\* Induction up to a bound, for a set of numbers.
LEMMA Climb ==
    ASSUME NEW n \in Nat, NEW B, 0 \in B,
           \A d \in 1..n : d - 1 \in B => d \in B
    PROVE  \A d \in 0..n : d \in B
<1> DEFINE C == {d \in 0..n : d \notin B}
<1> SUFFICES ASSUME C # {} PROVE FALSE
  OBVIOUS
<1> DEFINE d == Min(C)
<1>1. IsFiniteSet(C) /\ C \subseteq Int
  <2>1. IsFiniteSet(0..n)
    BY FS_Interval
  <2> QED
    BY <2>1, FS_Subset
<1>2. d \in C /\ \A m \in C : d <= m
  BY <1>1, MinIsSmallest
<1> HIDE DEF d
<1>3. d \in 1..n /\ d - 1 \in 0..n /\ ~(d <= d - 1)
  BY <1>2
<1>4. d - 1 \in B
  BY <1>2, <1>3
<1> QED
  BY <1>2, <1>3, <1>4

=============================================================================
